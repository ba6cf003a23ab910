------------------------------ MODULE Suggesters ------------------------------
(***************************************************************************)
(* Suggestions and completions of what a user types.  A request is a       *)
(* record                                                                  *)
(*                                                                         *)
(*   [suggester, text, top, filter, orderby, searchFields, select, fuzzy,  *)
(*    mode]                                                                *)
(*                                                                         *)
(* where filter and searchFields are sequences of at most one element (an  *)
(* expression, a sequence of paths), top is positive, and mode matters for *)
(* completions only.  Documents are a function from keys, as in Ranking.   *)
(***************************************************************************)
EXTENDS Ranking, Filters, Projection

Modes == {"oneTerm", "twoTerms", "oneTermWithContext"}

Lower(text) == [i \in DOMAIN text |-> LowerChar(text[i])]

\* The words of a text are what is left between its spaces.
Words(text) ==
    SelectSeq(FoldLeft(LAMBDA words, c : IF c = Space THEN Append(words, <<>>)
                                         ELSE Append(Front(words), Append(Last(words), c)),
                       <<<<>>>>, text),
              LAMBDA word : word # <<>>)

SpacedOut(words) ==
    FoldLeft(LAMBDA text, word : IF text = <<>> THEN word ELSE text \o <<Space>> \o word, <<>>, words)

FieldWords(value) ==
    CASE IsStr(value) -> Words(value.str)
      [] IsArr(value) -> Each(LAMBDA item : IF IsStr(item) THEN Words(item.str) ELSE <<>>, value.arr)
      [] OTHER -> <<>>

\* For each path in order, for each value on it, its words.
ValuesOn(fields, paths) == Each(LAMBDA path : ResolveFieldPath(fields, path), paths)

SuggesterWords(fields, paths) == Each(FieldWords, ValuesOn(fields, paths))

-----------------------------------------------------------------------------
(* Matching *)

EditDistance(a, b) ==
    LET cost[i \in 0..Len(a), j \in 0..Len(b)] ==
          IF i = 0 \/ j = 0 THEN i + j
          ELSE LET substituted == cost[i - 1, j - 1] + (IF a[i] = b[j] THEN 0 ELSE 1)
                   shorter     == {cost[i - 1, j] + 1, cost[i, j - 1] + 1}
               IN  Min({substituted} \cup shorter)
    IN  cost[Len(a), Len(b)]

OneEdit(fuzzy, word, term) == fuzzy /\ EditDistance(Lower(word), term) <= 1

Infix(word, term) == TextMatches("contains", Lower(word), term)

WordMatches(word, term, fuzzy) == Infix(word, term) \/ OneEdit(fuzzy, word, term)

\* Mutant of ContextMatches: one of the words before the last is enough.
ContextMatchesAny(words, context) ==
    context = <<>> \/ \E term \in ToSet(context) : \E word \in ToSet(words) : Infix(word, term)

\* The words typed before the last one occur in the document.
ContextMatches(words, context) ==
    \A term \in ToSet(context) : \E word \in ToSet(words) : Infix(word, term)

\* Neighbours in one value: the first is the word before, the second begins
\* with the last one typed.
TwoTermPhrases(words, previous, last, fuzzy) ==
    Each(LAMBDA i : IF /\ Lower(words[i]) = previous
                       /\ \/ TextMatches("startswith", Lower(words[i + 1]), last)
                          \/ OneEdit(fuzzy, words[i + 1], last)
                    THEN <<SpacedOut(<<words[i], words[i + 1]>>)>> ELSE <<>>,
         [i \in 1..(Len(words) - 1) |-> i])

-----------------------------------------------------------------------------
(* Requests *)

SuggesterNamed(definition, name) == SelectSeq(definition.suggesters, LAMBDA s : s.name = name)

ValidSearchFields(definition, suggester, paths) ==
    /\ paths # <<>>
    /\ \A path \in ToSet(paths) :
         /\ FieldPath(definition, path) # <<>> /\ FieldPath(definition, path)[1].searchable
         /\ path \in ToSet(suggester.fields)

SortableFields(definition, orderby) ==
    \A clause \in ToSet(orderby) :
        \/ clause.field = Score
        \/ /\ FieldPath(definition, clause.field) # <<>>
           /\ FieldPath(definition, clause.field)[1].sortable

\* Nothing here has a score to order by.
ValidSuggesterOrder(definition, orderby) ==
    SortableFields(definition, orderby) /\ \A clause \in ToSet(orderby) : clause.field # Score

SuggesterRequestAccepted(definition, r) ==
    LET suggester == SuggesterNamed(definition, r.suggester) IN
    /\ suggester # <<>>
    /\ r.searchFields # <<>> => ValidSearchFields(definition, suggester[1], r.searchFields[1])
    /\ ValidSelect(definition, r.select)
    /\ ValidSuggesterOrder(definition, r.orderby)
    /\ Words(r.text) # <<>>

PathsOf(definition, r) ==
    IF r.searchFields # <<>> THEN r.searchFields[1]
    ELSE SuggesterNamed(definition, r.suggester)[1].fields

Terms(r) == Words(Lower(r.text))

\* The keys of the documents that pass the filter, in order; no one scores.
OrderedCandidates(r, docs) ==
    Each(LAMBDA hit : <<hit.key>>,
         OrderScored(r.orderby, {Hit(key, 0) : key \in PassingKeys(r.filter, docs)}, docs))

-----------------------------------------------------------------------------
(* Completions *)

\* The completions with different texts.
Distinct(completions) ==
    FoldLeft(LAMBDA all, c : IF \E i \in DOMAIN all : all[i].text = c.text THEN all ELSE Append(all, c),
             <<>>, completions)

\* Two terms are completed as a phrase; what comes before them is repeated.
TwoTermCompletions(values, terms, fuzzy) ==
    Each(LAMBDA value :
            Each(LAMBDA phrase :
                    <<[text |-> phrase, query |-> SpacedOut(Front(Front(terms)) \o <<phrase>>)]>>,
                 TwoTermPhrases(FieldWords(value), Last(Front(terms)), Last(terms), fuzzy)),
         values)

\* The last term is completed by a word; a text of one term stays in front
\* of its own completion.
OneTermCompletions(words, terms, r) ==
    LET before == IF Len(terms) = 1 THEN <<Trimmed(r.text)>> ELSE Front(terms)
    IN  IF ContextMatches(words, Front(terms))
        THEN Each(LAMBDA word : IF WordMatches(word, Last(terms), r.fuzzy)
                                THEN <<[text |-> word, query |-> SpacedOut(before \o <<word>>)]>> ELSE <<>>,
                  words)
        ELSE <<>>

AsTwoTerms(r) == r.mode = "twoTerms" /\ Len(Terms(r)) >= 2

Completions(r, paths, fields) ==
    IF AsTwoTerms(r) THEN TwoTermCompletions(ValuesOn(fields, paths), Terms(r), r.fuzzy)
    ELSE OneTermCompletions(SuggesterWords(fields, paths), Terms(r), r)

Autocomplete(definition, r, docs) ==
    FirstOf(r.top, Distinct(Each(LAMBDA key : Completions(r, PathsOf(definition, r), docs[key]),
                                 OrderedCandidates(r, docs))))

-----------------------------------------------------------------------------
(* Suggestions *)

\* A document in which every term matches a word.
Suggests(words, terms, fuzzy) ==
    \A term \in ToSet(terms) : \E word \in ToSet(words) : WordMatches(word, term, fuzzy)

\* With the first word the first term matches, and what is selected.
Suggestion(definition, r, fields, words) ==
    [text   |-> SelectSeq(words, LAMBDA word : WordMatches(word, Head(Terms(r)), r.fuzzy))[1],
     fields |-> SuggestionAnswer(definition, fields, r.select)]

Suggest(definition, r, docs) ==
    LET WordsOf(key) == SuggesterWords(docs[key], PathsOf(definition, r))
    IN  Each(LAMBDA key : <<Suggestion(definition, r, docs[key], WordsOf(key))>>,
             FirstOf(r.top, SelectSeq(OrderedCandidates(r, docs),
                                      LAMBDA key : Suggests(WordsOf(key), Terms(r), r.fuzzy))))

=============================================================================
