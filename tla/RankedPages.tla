----------------------------- MODULE RankedPages -----------------------------
(***************************************************************************)
(* Walks over ranked results: SearchPages with the results of Ranking, and *)
(* what must hold of a result, of its facets and of its pages together.    *)
(***************************************************************************)
EXTENDS SearchPages, Ranking

CONSTANTS
    FacetPaths   \* the paths facets are counted for

\* The questions of a walk, the one of a token alone among them.
Questions ==
    {Question(r) : r \in Requests}
    \cup {[subject |-> NoSubject, vectors |-> NoVectors, filter |-> r.filter, orderby |-> r.orderby] :
             r \in Requests}

IsList(s) == s \in Seq(ToSet(s))

\* What is asked for has a score in every document.
IsScored(q) ==
    /\ IsList(q.subject.required) /\ IsList(q.vectors.queries) /\ IsList(q.orderby)
    /\ \A c \in ToSet(q.subject.required), fields \in Contents : Relevance(c, fields) \in Int
    /\ \A query \in ToSet(q.vectors.queries) :
         /\ query.weight \in Nat \ {0} /\ query.k \in Nat /\ IsList(query.fields)
         /\ \A field \in ToSet(query.fields), fields \in Contents :
              Similarity(field, query.target, fields) \in Int

\* The values documents are ordered by.
SortKeys ==
    {FirstResolved(fields, field) : fields \in Contents,
       field \in UNION {{clause.field : clause \in ToSet(q.orderby)} : q \in Questions}}

SortTexts == {found[1].str : found \in {f \in SortKeys : KindRank(f) = 4}}

ASSUME KeysAssumption == Keys \subseteq Nat /\ IsFiniteSet(Keys)
ASSUME RankingAssumption ==
    \A q \in Questions, held \in Holdings : Result(q, held) = SearchResult(q, held)
ASSUME ScoresAssumption == \A q \in Questions : IsScored(q)
ASSUME SortKeysAssumption ==
    \A found \in SortKeys :
        /\ KindRank(found) \in 0..6
        /\ KindRank(found) = 2 => found[1].bool \in BOOLEAN
        /\ KindRank(found) = 3 => AsF64(found[1]) \in Int
ASSUME TextOrderAssumption ==
    \A a, b, c \in SortTexts :
        /\ ~TextBefore(a, a)
        /\ TextBefore(a, b) /\ TextBefore(b, c) => TextBefore(a, c)
        /\ a = b \/ TextBefore(a, b) \/ TextBefore(b, a)
ASSUME ScaleAssumption ==
    Scale \in Nat \ {0} /\ \A rank \in 1..Cardinality(Keys) : Scale % (60 + rank) = 0

\* The request in force: the last page's, as the token completed it.
InForce ==
    IF walk.habit \in {"repost", "drop"} \/ walk.last = walk.first THEN walk.first
    ELSE [walk.last EXCEPT !.filter = walk.first.filter, !.orderby = walk.first.orderby]

\* Where a document stands depends on nothing but itself and its neighbour.
OrdersByFields(request) ==
    /\ request.vectors.queries = <<>>
    /\ \/ IsMatchAll(request.subject)
       \/ request.orderby # <<>> /\ \A i \in DOMAIN request.orderby : request.orderby[i].field # Score

\* Documents that come during a walk hide none of the others, and documents
\* that go make none of the others appear twice: a token stays good when the
\* result shifts (ContinuationToken, "remain valid across document
\* mutations").
PagesSurviveChanges ==
    Walking /\ Complete /\ OrdersByFields(walk.first) =>
        LET changes == ToSet(walk.changes)
            due     == ToSet(Expected) \cap DOMAIN walk.steady
        IN  /\ (walk.token = <<>> /\ ~walk.empty /\ "removed" \notin changes)
                 => due \subseteq ToSet(walk.seen)
            /\ "added" \notin changes => IsInjective(walk.seen)

Narrowed(request, path, value) ==
    [request EXCEPT !.filter =
        <<[kind |-> "And", clauses |-> @ \o
             <<[kind |-> "Compare", field |-> path, op |-> "eq", value |-> value]>>]>>]

CountsAreExact(found, path, full) ==
    \A i \in DOMAIN full :
      \A hits \in {Len(Found(Narrowed(InForce, path, full[i].value)))} :
        /\ hits > 0 /\ hits <= full[i].count
        /\ (\A k \in ToSet(found) : Len(FacetValues(docs[k], path)) <= 1) => hits = full[i].count

MostFrequentKept(kept, full) == \A i \in DOMAIN full : full[i].count <= kept[1].count

FacetsCount(found, path) ==
    /\ CountsAreExact(found, path, Facet(found, path, Len(found) * 3, docs))
    /\ MostFrequentKept(Facet(found, path, 1, docs), Facet(found, path, Len(found) * 3, docs))

\* A facet says how many documents each value leaves: adding the comparison
\* to the filter finds exactly as many, and at most as many along a path
\* through a collection, where one document may count several times; no value
\* that was cut off is more frequent than one that was not (compute_facets and
\* the filter are separate readings of the documents).
FacetsCountWhatFiltersFind ==
    Walking /\ walk.first.vectors.queries = <<>> =>
        \A path \in FacetPaths : FacetsCount(Found(InForce), path)

\* Whatever side found a document, it satisfies the filter, and nothing that
\* filtering the nearest vectors leaves is missed when the nearest among the
\* filtered are taken instead (vector_side_score_lists).
FilterModesAgree ==
    Walking =>
        /\ \A k \in ToSet(Found(InForce)) : Passes(InForce.filter, docs[k])
        /\ \A i \in DOMAIN InForce.vectors.queries :
             LET query == InForce.vectors.queries[i] IN
             KeysOf(VectorList(query, "postFilter", InForce.filter, docs))
               \subseteq KeysOf(VectorList(query, "preFilter", InForce.filter, docs))

At(list, key) == SelectInSeq(list, LAMBDA hit : hit.key = key)
Above(list, a, b) == At(list, b) # 0 => At(list, a) \in 1..At(list, b)

RankedLists(request) ==
    {Ranked(TextHits(request, docs))} \cup {Ranked(side.hits) : side \in ToSet(VectorSide(request, docs))}

AgreesWith(found, lists) ==
    /\ ToSet(found) = UNION {KeysOf(ToSet(list)) : list \in lists}
    /\ IsInjective(found)
    /\ \A i, j \in DOMAIN found :
         (\A list \in lists : Above(list, found[i], found[j])) => i <= j

\* Fusion ranks with the lists: a document that no list puts below another,
\* and that is in every list the other is in, does not end up below it; and
\* every hit of either side is ranked once (merge_scores, rrf_fuse_weighted).
FusionRespectsAgreement ==
    Walking /\ InForce.orderby = <<>> => AgreesWith(Found(InForce), RankedLists(InForce))

=============================================================================
