----------------------------- MODULE SimpleQuery -----------------------------
(***************************************************************************)
(* Search texts: from the characters a client types to required and        *)
(* excluded clauses.  Boosts change scores only and are left out.          *)
(***************************************************************************)
EXTENDS ClauseMatching

CONSTANTS
    IsBlank(_),               \* white space
    Plus, Minus, Quote, Tilde, Star,  \* the characters with a meaning
    DigitValue,               \* what the digits stand for
    Expansions(_)             \* the synonyms of a word in the index's maps

-----------------------------------------------------------------------------
(* Reading a text.  Where the code answers 400 there is no result. *)

Clause(kind, text, edits) == [kind |-> kind, text |-> text, edits |-> edits, also |-> {}]
TermClause(text) == Clause("Term", text, 0)

From(chars, first) == SubSeq(chars, first, Len(chars))

Trim(chars) ==
    LET kept == {i \in DOMAIN chars : ~IsBlank(chars[i])}
    IN  IF kept = {} THEN <<>> ELSE SubSeq(chars, Min(kept), Max(kept))

\* A tilde behind a word makes it fuzzy, by two edits or by the digit that
\* follows; a tilde with anything else behind it belongs to the word.
SplitFuzzySuffix(raw) ==
    LET tilde  == SelectLastInSeq(raw, LAMBDA c : c = Tilde)
        stem   == SubSeq(raw, 1, tilde - 1)
        suffix == From(raw, tilde + 1)
        edits  == IF suffix = <<>> THEN 2 ELSE DigitValue[suffix[1]]
    IN  IF tilde = 0 \/ ToSet(suffix) \ DOMAIN DigitValue # {} THEN {TermClause(raw)}
        ELSE IF Len(suffix) > 1 \/ edits > 2 \/ stem = <<>> THEN {}
        ELSE IF edits = 0 THEN {TermClause(stem)}
        ELSE {Clause("Fuzzy", stem, edits)}

\* Mutant of ReadQuoted: the end of the text ends a phrase.
RECURSIVE ReadQuotedToTheEnd(_)
ReadQuotedToTheEnd(chars) ==
    IF chars = <<>> THEN {[text |-> <<>>, rest |-> <<>>]}
    ELSE IF IsPrefix(<<Quote, Quote>>, chars)
    THEN {[r EXCEPT !.text = <<Quote>> \o @] : r \in ReadQuotedToTheEnd(From(chars, 3))}
    ELSE IF Head(chars) = Quote THEN {[text |-> <<>>, rest |-> Tail(chars)]}
    ELSE {[r EXCEPT !.text = <<Head(chars)>> \o @] : r \in ReadQuotedToTheEnd(Tail(chars))}

\* A phrase, behind the quote that opens it, to the one that closes it; a
\* doubled quote is one of its characters.
RECURSIVE ReadQuoted(_)
ReadQuoted(chars) ==
    IF chars = <<>> THEN {}
    ELSE IF IsPrefix(<<Quote, Quote>>, chars)
    THEN {[r EXCEPT !.text = <<Quote>> \o @] : r \in ReadQuoted(From(chars, 3))}
    ELSE IF Head(chars) = Quote THEN {[text |-> <<>>, rest |-> Tail(chars)]}
    ELSE {[r EXCEPT !.text = <<Head(chars)>> \o @] : r \in ReadQuoted(Tail(chars))}

\* A word ends at a blank only: a quote within it is one of its characters.
ReadWord(chars) ==
    LET blank == SelectInSeq(chars, IsBlank)
        size  == IF blank = 0 THEN Len(chars) ELSE blank - 1
    IN  {[clause |-> c, rest |-> From(chars, size + 1)] : c \in SplitFuzzySuffix(SubSeq(chars, 1, size))}

ReadClause(chars) ==
    IF Head(chars) = Quote
    THEN {[clause |-> Clause("Phrase", r.text, 0), rest |-> r.rest] : r \in ReadQuoted(Tail(chars))}
    ELSE ReadWord(chars)

\* One clause after the other; a plus changes nothing, a modifier must stand
\* before something.
RECURSIVE ReadClauses(_)
ReadClauses(chars) ==
    LET modified == Head(chars) \in {Plus, Minus}
        kind     == IF Head(chars) = Minus THEN "excluded" ELSE "required"
        begin    == IF modified THEN Tail(chars) ELSE chars
    IN  IF chars = <<>> THEN {[required |-> <<>>, excluded |-> <<>>]}
        ELSE IF IsBlank(Head(chars)) THEN ReadClauses(Tail(chars))
        ELSE IF begin = <<>> THEN {}
        ELSE IF IsBlank(Head(begin)) THEN {}
        ELSE UNION {{[query EXCEPT ![kind] = <<r.clause>> \o @] : query \in ReadClauses(r.rest)} :
                      r \in ReadClause(begin)}

\* The query of a text, as a set of at most one; a star alone asks for
\* everything.
ParseSearchText(text) ==
    IF Trim(text) = <<Star>> THEN ReadClauses(<<>>) ELSE ReadClauses(Trim(text))

TermsOf(clauses) == {c.text : c \in {c \in ToSet(clauses) : c.kind = "Term"}}

\* Synonyms are looked up for the required terms and found by their text, so
\* an excluded term has them when it is also required.
PrepareFullText(query) ==
    LET Expanded(clauses) ==
            [i \in DOMAIN clauses |->
               IF clauses[i].kind = "Term" /\ clauses[i].text \in TermsOf(query.required)
               THEN [clauses[i] EXCEPT !.also = Expansions(clauses[i].text)] ELSE clauses[i]]
    IN  [required |-> Expanded(query.required), excluded |-> Expanded(query.excluded)]

=============================================================================
