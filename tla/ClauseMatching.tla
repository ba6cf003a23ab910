---------------------------- MODULE ClauseMatching ----------------------------
(***************************************************************************)
(* What a clause of a search text finds in a document.  A clause is a      *)
(* record                                                                  *)
(*                                                                         *)
(*   [kind, text, edits, also]                                             *)
(*                                                                         *)
(* where kind is "Term", "Phrase" or "Fuzzy", edits is the distance of a   *)
(* fuzzy term and also the synonyms of a term.  Every field is read by one *)
(* analyzer.                                                               *)
(***************************************************************************)
EXTENDS JsonValues

CONSTANTS
    Analyze(_),               \* the tokens of a text in order, [token, at]
    Resembles(_, _, _),       \* whether a token is a few edits from a term
    Scope,                    \* the paths of the searchable fields
    NumberText(_), BoolText(_)  \* values as they are printed

-----------------------------------------------------------------------------
\* The text a value is indexed under; nulls, objects and arrays have none.
TextRepresentation(value) ==
    CASE IsStr(value)  -> {value.str}
      [] IsNum(value)  -> {NumberText(value)}
      [] IsBool(value) -> {BoolText(value.bool)}
      [] OTHER         -> {}

\* The elements of an array are indexed one by one.
IndexedTexts(fields, path) ==
    LET values == ToSet(ResolveFieldPath(fields, path)) IN
    UNION {IF IsArr(v) THEN UNION {TextRepresentation(element) : element \in ToSet(v.arr)}
           ELSE TextRepresentation(v) : v \in values}

TokensOf(texts) == UNION {{t.token : t \in ToSet(Analyze(text))} : text \in texts}

\* The tokens of a phrase follow one another, also where a stop word was
\* dropped from between them; a phrase without any is found nowhere.
PhraseAt(tokens, terms, at) ==
    terms # <<>> /\ \A i \in DOMAIN terms : [token |-> terms[i].token, at |-> at + i - 1] \in tokens

\* Where a clause is found among the tokens of an indexed text: a term at any
\* of its tokens or its synonyms', a fuzzy term without being analyzed.
HitsAmong(clause, tokens) ==
    CASE clause.kind = "Term" ->
            LET terms == TokensOf({clause.text} \cup clause.also)
            IN  {t \in tokens : t.token \in terms}
      [] clause.kind = "Fuzzy" ->
            {t \in tokens : Resembles(t.token, clause.text, clause.edits)}
      [] clause.kind = "Phrase" ->
            {t \in tokens : PhraseAt(tokens, Analyze(clause.text), t.at)}

\* Whether a document is found by a clause, in any of the fields.
Mentions(fields, clause) ==
    \E path \in Scope : \E text \in IndexedTexts(fields, path) :
        HitsAmong(clause, ToSet(Analyze(text))) # {}

=============================================================================
