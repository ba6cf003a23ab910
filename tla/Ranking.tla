------------------------------- MODULE Ranking -------------------------------
(***************************************************************************)
(* From a search request and the documents of an index to the ordered      *)
(* result and its facets: the full-text and the vector side, the filter on *)
(* either, fusion, ordering and counting.                                  *)
(*                                                                         *)
(* The subject of a request is a record                                    *)
(*                                                                         *)
(*   [required, excluded, mode, coverage]                                  *)
(*                                                                         *)
(* of sequences of clauses, "any" or "all", and minimumCoverage in percent.  *)
(* Its vectors are a record [queries, mode] with a sequence of             *)
(* [fields, target, k, weight] and "preFilter" or "postFilter".  Its       *)
(* filter is a sequence of at most one expression, its orderby a sequence  *)
(* of [field, descending], where a field is a path or Score.  Documents    *)
(* are a function from keys, numbers in the order of their texts, to       *)
(* fields.  Scores are exact numbers; the code's are 32-bit floats.        *)
(***************************************************************************)
EXTENDS IndexSchema, ClauseMatching

CONSTANTS
    Satisfies(_, _),     \* whether a filter expression holds of fields
    TextBefore(_, _),    \* the order of texts
    Relevance(_, _),     \* of a document's fields to a clause, 0 where it is not found
    Similarity(_, _, _), \* of the vector in a field to a target; 0 without one
    Scale                \* that of the reciprocals of ranks

-----------------------------------------------------------------------------
(* Ranked lists *)

\* Scored hits are a set of records [key, score], one for each key.
Hit(key, score) == [key |-> key, score |-> score]
KeysOf(hits)    == {hit.key : hit \in hits}

RanksAbove(a, b) == a.score > b.score \/ (a.score = b.score /\ a.key < b.key)

\* The members of a set as a strict order of them has it.
Sorted(S, before(_, _)) ==
    CHOOSE s \in [1..Cardinality(S) -> S] : \A i, j \in DOMAIN s : i < j => before(s[i], s[j])

Ranked(hits) == Sorted(hits, RanksAbove)

FirstOf(limit, seq) == SubSeq(seq, 1, IF limit < Len(seq) THEN limit ELSE Len(seq))

TopK(hits, k) == ToSet(FirstOf(k, Ranked(hits)))

\* The best hit of each key.
Best(hits) == {hit \in hits : \A other \in hits : other.key = hit.key => other.score <= hit.score}

\* Mutant of Reciprocal: lower places count for more.
ReciprocalOfPlace(rank) == Scale \div (64 - rank)

\* The reciprocal of 60 + rank, on a scale on which it is an integer.
Reciprocal(rank) == Scale \div (60 + rank)

\* What a list adds to a score: nothing for a key it has not.
Contribution(list, key) ==
    LET rank == SelectInSeq(Ranked(list.hits), LAMBDA hit : hit.key = key)
    IN  IF rank = 0 THEN 0 ELSE list.weight * Reciprocal(rank)

\* Reciprocal rank fusion of [weight, hits] lists.
Fused(lists) ==
    {Hit(key, SumFunction([i \in DOMAIN lists |-> Contribution(lists[i], key)])) :
        key \in KeysOf(UNION {lists[i].hits : i \in DOMAIN lists})}

MergeScores(fullText, lists) ==
    IF lists = <<>> \/ fullText = {}
    THEN Best(fullText \cup UNION {lists[i].hits : i \in DOMAIN lists})
    ELSE Fused(<<[weight |-> 1, hits |-> fullText]>> \o lists)

-----------------------------------------------------------------------------
(* The two sides of a search *)

Passes(filter, fields) == filter = <<>> \/ Satisfies(filter[1], fields)

PassingKeys(filter, docs) == {key \in DOMAIN docs : Passes(filter, docs[key])}

\* The boolean query: required clauses are alternatives or all needed, excluded
\* ones keep a document out; no required clause at all matches everything.
EngineMatches(required, excluded, mode, fields) ==
    /\ \A c \in ToSet(excluded) : ~Mentions(fields, c)
    /\ \/ required = <<>>
       \/ mode = "any" /\ \E c \in ToSet(required) : Mentions(fields, c)
       \/ mode = "all" /\ \A c \in ToSet(required) : Mentions(fields, c)

EngineSearch(required, excluded, mode, docs) ==
    {Hit(key, IF required = <<>> THEN 1
              ELSE SumFunction([i \in DOMAIN required |-> Relevance(required[i], docs[key])])) :
        key \in {k \in DOMAIN docs : EngineMatches(required, excluded, mode, docs[k])}}

\* How many of the clauses must match when minimumCoverage applies.
CoverageThreshold(subject) ==
    IF subject.coverage > 0 /\ subject.mode = "any" /\ Len(subject.required) > 1
    THEN (subject.coverage * Len(subject.required) + 99) \div 100 ELSE 0

\* Each clause is searched for on its own to count how many match.
MatchCount(subject, docs, key) ==
    Cardinality({i \in DOMAIN subject.required :
                    key \in KeysOf(EngineSearch(<<subject.required[i]>>, subject.excluded, "any", docs))})

FullTextSide(request, docs) ==
    LET subject == request.subject IN
    {hit \in EngineSearch(subject.required, subject.excluded, subject.mode, docs) :
        /\ Passes(request.filter, docs[hit.key])
        /\ MatchCount(subject, docs, hit.key) >= CoverageThreshold(subject)}

\* The nearest vectors among the eligible documents (the exact scan).
VectorHits(field, query, docs, eligible) ==
    TopK({Hit(key, Similarity(field, query.target, docs[key])) :
             key \in {k \in eligible : Similarity(field, query.target, docs[k]) > 0}}, query.k)

\* The best hits in the fields of a query.
Nearest(query, eligible, docs) ==
    Best(UNION {VectorHits(query.fields[i], query, docs, eligible) : i \in DOMAIN query.fields})

\* Mutant of VectorList: postFilter keeps what the filter leaves out.
VectorListUnfiltered(query, mode, filter, docs) ==
    LET eligible == IF mode = "preFilter" THEN PassingKeys(filter, docs) ELSE DOMAIN docs
    IN  Nearest(query, eligible, docs)

NearestPassing(query, mode, passing, docs) ==
    {hit \in Nearest(query, IF mode = "preFilter" THEN passing ELSE DOMAIN docs, docs) : hit.key \in passing}

\* preFilter narrows what is scanned, postFilter what was found.
VectorList(query, mode, filter, docs) ==
    NearestPassing(query, mode, PassingKeys(filter, docs), docs)

VectorSide(request, docs) ==
    [i \in DOMAIN request.vectors.queries |->
        LET query == request.vectors.queries[i]
        IN  [weight |-> query.weight,
             hits   |-> VectorList(query, request.vectors.mode, request.filter, docs)]]

IsMatchAll(subject) == subject.required = <<>> /\ subject.excluded = <<>>

\* A search for vectors alone leaves the full-text side out.
TextHits(request, docs) ==
    IF request.vectors.queries # <<>> /\ IsMatchAll(request.subject) THEN {}
    ELSE FullTextSide(request, docs)

Scored(request, docs) == MergeScores(TextHits(request, docs), VectorSide(request, docs))

-----------------------------------------------------------------------------
(* Ordering *)

Score == <<"@search.score">>

\* The place of a value among values of other kinds; a missing one comes
\* first.
KindRank(found) ==
    IF found = <<>> THEN 0
    ELSE CASE IsNull(found[1]) -> 1 [] IsBool(found[1]) -> 2 [] IsNum(found[1]) -> 3
           [] IsStr(found[1]) -> 4 [] IsArr(found[1]) -> 5 [] IsObj(found[1]) -> 6

SortKeyLess(a, b) ==
    \/ KindRank(a) < KindRank(b)
    \/ /\ KindRank(a) = KindRank(b)
       /\ CASE KindRank(a) = 2 -> ~a[1].bool /\ b[1].bool
            [] KindRank(a) = 3 -> AsF64(a[1]) < AsF64(b[1])
            [] KindRank(a) = 4 -> TextBefore(a[1].str, b[1].str)
            [] OTHER -> FALSE

FirstResolved(fields, path) ==
    LET values == ResolveFieldPath(fields, path) IN IF values = <<>> THEN <<>> ELSE <<values[1]>>

\* Hit a sorts before hit b by one clause.
ClauseLess(clause, docs, a, b) ==
    LET less(x, y) == IF clause.field = Score THEN x.score < y.score
                      ELSE SortKeyLess(FirstResolved(docs[x.key], clause.field),
                                       FirstResolved(docs[y.key], clause.field))
    IN  IF clause.descending THEN less(b, a) ELSE less(a, b)

\* The first clause that tells two hits apart decides, then the key.
OrderedBefore(orderby, docs, a, b) ==
    LET telling == {i \in DOMAIN orderby : \/ ClauseLess(orderby[i], docs, a, b)
                                           \/ ClauseLess(orderby[i], docs, b, a)}
    IN  IF telling = {} THEN a.key < b.key
        ELSE \E i \in telling : (\A j \in telling : i <= j) /\ ClauseLess(orderby[i], docs, a, b)

OrderScored(orderby, hits, docs) ==
    IF orderby = <<>> THEN Ranked(hits)
    ELSE Sorted(hits, LAMBDA a, b : OrderedBefore(orderby, docs, a, b))

SearchResult(request, docs) ==
    LET ordered == OrderScored(request.orderby, Scored(request, docs), docs)
    IN  [i \in DOMAIN ordered |-> ordered[i].key]

-----------------------------------------------------------------------------
(* Facets *)

\* Mutant of FacetValues: an array counts as one value.
FacetValuesWhole(fields, path) ==
    SelectSeq(ResolveFieldPath(fields, path), LAMBDA value : ~IsNull(value))

\* What a document counts for: arrays by their elements, one level deep,
\* nulls not at all.
FacetValues(fields, path) ==
    SelectSeq(Each(LAMBDA value : IF IsArr(value) THEN value.arr ELSE <<value>>,
                   ResolveFieldPath(fields, path)),
              LAMBDA value : ~IsNull(value))

\* Values are told apart and, when counted equally often, ordered by a prefix
\* for their kind and their text.  Objects and arrays share one key here; the
\* code orders them by their text, and nothing depends on their order.
FacetKey(value) ==
    CASE IsStr(value)  -> <<4>> \o value.str
      [] IsNum(value)  -> <<2>> \o NumberText(value)
      [] IsBool(value) -> <<1, IF value.bool THEN 1 ELSE 0>>
      [] OTHER         -> <<3>>

\* The values with their counts, most frequent first.
Counted(values) ==
    SetToSortSeq({[value |-> v, count |-> Len(SelectSeq(values, LAMBDA w : w = v))] : v \in ToSet(values)},
                 LAMBDA a, b : \/ a.count > b.count
                               \/ /\ a.count = b.count
                                  /\ TextBefore(FacetKey(a.value), FacetKey(b.value)))

Facet(found, path, limit, docs) ==
    FirstOf(limit, Counted(Each(LAMBDA key : FacetValues(docs[key], path), found)))

=============================================================================
