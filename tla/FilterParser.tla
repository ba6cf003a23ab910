----------------------------- MODULE FilterParser -----------------------------
(***************************************************************************)
(* The parser of filter expressions, over tokens.  A token is a record of  *)
(* one field: [ident |-> path], [str |-> text], [num |-> n], [frac |-> n]  *)
(* or [punct |-> "("] with one of ( ) . , and the colon.  An identifier    *)
(* runs across slashes, so it is a path; a keyword is a path of one name.  *)
(*                                                                         *)
(* A parser takes the tokens and a position and gives a set of at most one *)
(* result [expr, at], where at is the first token it left.  An empty set   *)
(* is the error that ends parsing.                                         *)
(***************************************************************************)
EXTENDS Filters

CONSTANTS
    NamesIn(_),       \* the field paths a text lists; <<>> if one is empty
    ValidPattern(_)   \* whether a text is a regular expression

StringFuncs    == {"startswith", "endswith", "contains"}
ComponentFuncs == {"year", "month", "day", "hour", "minute", "second"}
DateFuncs      == {"datepart", "dateadd", "datediff", "utcdatetime", "date", "time", "now"}
                      \cup ComponentFuncs

-----------------------------------------------------------------------------
(* Tokens *)

Ident(path)  == [ident |-> path]
Word(name)   == Ident(<<name>>)
Punct(sign)  == [punct |-> sign]

IsIdent(token)          == "ident" \in DOMAIN token
WordIn(token, words)    == IsIdent(token) /\ Len(token.ident) = 1 /\ token.ident[1] \in words
PeekIs(tokens, at, word) == at \in DOMAIN tokens /\ WordIn(tokens[at], {word})

\* What a token must be: an identifier, a text, an integer, an operator, a
\* literal, or that very sign.
TokenIs(token, kind) ==
    CASE kind = "ident"   -> IsIdent(token)
      [] kind = "text"    -> IsStr(token)
      [] kind = "integer" -> IsInt(token)
      [] kind = "op"      -> WordIn(token, Ops)
      [] kind = "value"   -> \/ IsStr(token) \/ IsNum(token)
                             \/ WordIn(token, {"true", "false", "null"})
      [] OTHER            -> token = Punct(kind)

Shape(tokens, at, kinds) ==
    \A k \in DOMAIN kinds :
      at + k - 1 \in DOMAIN tokens /\ TokenIs(tokens[at + k - 1], kinds[k])

Literal(token) ==
    CASE WordIn(token, {"true", "false"}) -> Bool(token.ident[1] = "true")
      [] WordIn(token, {"null"})          -> Null
      [] ~IsIdent(token)                  -> token

Parsed(expr, at) == {[expr |-> expr, at |-> at]}

-----------------------------------------------------------------------------
(* Values *)

\* utcdatetime('...'), normalised; nothing if the text is no date.
UtcLiteral(tokens, at) ==
    IF Shape(tokens, at, <<"ident", "(", "text", ")">>)
    THEN UNION {Parsed(NormalText(dt), at + 4) : dt \in ToSet(ParseDatetime(tokens[at + 2].str))}
    ELSE {}

BeginsUtcLiteral(tokens, at) ==
    PeekIs(tokens, at, "utcdatetime") /\ Shape(tokens, at + 1, <<"(">>)

ParseValue(tokens, at) ==
    IF Shape(tokens, at, <<"value">>) THEN Parsed(Literal(tokens[at]), at + 1) ELSE {}

ParseValueOrUtc(tokens, at) ==
    IF BeginsUtcLiteral(tokens, at)
    THEN {[r EXCEPT !.expr = Str(@)] : r \in UtcLiteral(tokens, at)}
    ELSE ParseValue(tokens, at)

ParseDateRef(tokens, at) ==
    IF BeginsUtcLiteral(tokens, at)
    THEN {[r EXCEPT !.expr = [literal |-> @]] : r \in UtcLiteral(tokens, at)}
    ELSE IF Shape(tokens, at, <<"ident">>) THEN Parsed([field |-> tokens[at].ident], at + 1)
    ELSE {}

-----------------------------------------------------------------------------
(* Comparisons; at is the token after the leading name *)

SplitsLambda(name) == Len(name) > 1 /\ name[Len(name)] \in {"any", "all"}

LambdaKind(word) == IF word = "any" THEN "Any" ELSE "All"

\* Mutant of Classify: a parenthesis after a name is always a function call.
ClassifyCallsFirst(tokens, name, at) ==
    IF Shape(tokens, at, <<"(">>) THEN "FunctionCall"
    ELSE IF PeekIs(tokens, at, "any") \/ PeekIs(tokens, at, "all") THEN "Collection"
    ELSE IF PeekIs(tokens, at, "in") THEN "InList"
    ELSE "Plain"

\* The order of the cases is the parser's.
Classify(tokens, name, at) ==
    LET Opens == Shape(tokens, at, <<"(">>) IN
    IF SplitsLambda(name) /\ Opens THEN "Lambda"
    ELSE IF PeekIs(tokens, at, "any") \/ PeekIs(tokens, at, "all") THEN "Collection"
    ELSE IF name \in {<<f>> : f \in DateFuncs} /\ Opens THEN "DateFn"
    ELSE IF name = <<"search">> /\ Shape(tokens, at, <<".">>) THEN "SearchFn"
    ELSE IF Opens THEN "FunctionCall"
    ELSE IF PeekIs(tokens, at, "in") THEN "InList"
    ELSE "Plain"

ParseCollection(tokens, name, at) ==
    IF Shape(tokens, at, <<"ident", "ident", "op", "value">>)
    THEN Parsed([kind |-> LambdaKind(tokens[at].ident[1]), field |-> name,
                 inner |-> [kind |-> "Compare", field |-> tokens[at + 1].ident,
                            op |-> tokens[at + 2].ident[1],
                            value |-> Literal(tokens[at + 3])]],
                at + 4)
    ELSE {}

\* The arguments of a date function, after its bracket.
DateArguments(tokens, fn, at) ==
    CASE fn = "datepart" /\ Shape(tokens, at, <<"ident", ",", "ident", ")">>)
            /\ WordIn(tokens[at], DateParts) ->
            Parsed([fn |-> fn, part |-> tokens[at].ident[1], field |-> tokens[at + 2].ident], at + 4)
      [] fn = "dateadd" /\ Shape(tokens, at, <<"ident", ",", "integer", ",", "ident", ")">>)
            /\ WordIn(tokens[at], DateUnits) ->
            Parsed([fn |-> fn, unit |-> tokens[at].ident[1], interval |-> tokens[at + 2].num,
                    field |-> tokens[at + 4].ident], at + 6)
      [] fn = "datediff" /\ Shape(tokens, at, <<"ident", ",">>) /\ WordIn(tokens[at], DateUnits) ->
            UNION {UNION {Parsed([fn |-> fn, unit |-> tokens[at].ident[1],
                                  start |-> start.expr, end |-> end.expr], end.at + 1) :
                            end \in {e \in ParseDateRef(tokens, start.at + 1) :
                                       Shape(tokens, e.at, <<")">>)}} :
                     start \in {s \in ParseDateRef(tokens, at + 2) : Shape(tokens, s.at, <<",">>)}}
      [] fn \in ComponentFuncs /\ Shape(tokens, at, <<"ident", ")">>) ->
            Parsed([fn |-> "datepart", part |-> fn, field |-> tokens[at].ident], at + 2)
      [] fn \in {"date", "time"} /\ Shape(tokens, at, <<"ident", ")">>) ->
            Parsed([fn |-> fn, field |-> tokens[at].ident], at + 2)
      [] fn = "now" /\ Shape(tokens, at, <<")">>) -> Parsed([fn |-> fn], at + 1)
      [] OTHER -> {}

\* A leading utcdatetime takes a field on its right, and turns around.
ParseLeadingUtc(tokens, at) ==
    UNION {Parsed([kind |-> "DateCompare",
                   left |-> [fn |-> "field", field |-> tokens[r.at + 1].ident],
                   op |-> ReverseOp[tokens[r.at].ident[1]], value |-> Str(r.expr)],
                  r.at + 2) :
             r \in {u \in UtcLiteral(tokens, at - 1) : Shape(tokens, u.at, <<"op", "ident">>)}}

ParseDateCompare(tokens, fn, at) ==
    IF fn = "utcdatetime" THEN ParseLeadingUtc(tokens, at)
    ELSE UNION {UNION {Parsed([kind |-> "DateCompare", left |-> left.expr,
                               op |-> tokens[left.at].ident[1], value |-> value.expr],
                              value.at) :
                         value \in ParseValueOrUtc(tokens, left.at + 1)} :
                  left \in {d \in DateArguments(tokens, fn, at + 1) : Shape(tokens, d.at, <<"op">>)}}

\* Options that follow the field list are read and forgotten.
RECURSIVE SkipOptions(_, _)
SkipOptions(tokens, at) ==
    IF Shape(tokens, at, <<",", "text">>) \/ Shape(tokens, at, <<",", "ident">>)
    THEN SkipOptions(tokens, at + 2) ELSE at

ListedFields(token) == IF IsIdent(token) THEN <<token.ident>> ELSE NamesIn(token.str)

ParseIsMatch(tokens, at) ==
    LET after == SkipOptions(tokens, at + 3)
        names == ListedFields(tokens[at + 2])
        tests == [i \in DOMAIN names |->
                    [kind |-> "IsMatch", field |-> names[i], pattern |-> tokens[at].str]]
    IN  IF /\ \/ Shape(tokens, at, <<"text", ",", "ident">>)
              \/ Shape(tokens, at, <<"text", ",", "text">>)
           /\ ValidPattern(tokens[at].str)
           /\ names # <<>>
           /\ Shape(tokens, after, <<")">>)
        THEN Parsed(IF Len(tests) = 1 THEN tests[1] ELSE [kind |-> "Or", clauses |-> tests],
                    after + 1)
        ELSE {}

\* search . function ( arguments )
ParseSearch(tokens, at) ==
    CASE Shape(tokens, at, <<".", "ident", "(">>)
            /\ WordIn(tokens[at + 1], {"ismatch", "ismatchscoring"}) ->
            ParseIsMatch(tokens, at + 3)
      [] Shape(tokens, at, <<".", "ident", "(", "ident", ")">>)
            /\ WordIn(tokens[at + 1], {"isempty", "isnull"}) ->
            Parsed([kind  |-> IF tokens[at + 1] = Word("isempty") THEN "IsEmpty" ELSE "IsNull",
                    field |-> tokens[at + 3].ident], at + 5)
      [] OTHER -> {}

\* The arguments of a string function that has a value, after its bracket.
StringArguments(tokens, name, at) ==
    CASE name \in {"length", "tolower", "toupper", "trim"} /\ Shape(tokens, at, <<"ident", ")">>) ->
            Parsed([name |-> name, field |-> tokens[at].ident], at + 2)
      [] name = "indexof" /\ Shape(tokens, at, <<"ident", ",", "text", ")">>) ->
            Parsed([name |-> name, field |-> tokens[at].ident, substr |-> tokens[at + 2].str], at + 4)
      [] name = "substring" /\ Shape(tokens, at, <<"ident", ",", "integer", ")">>) ->
            Parsed([name |-> name, field |-> tokens[at].ident, start |-> tokens[at + 2].num,
                    length |-> <<>>], at + 4)
      [] name = "substring" /\ Shape(tokens, at, <<"ident", ",", "integer", ",", "integer", ")">>) ->
            Parsed([name |-> name, field |-> tokens[at].ident, start |-> tokens[at + 2].num,
                    length |-> <<tokens[at + 4].num>>], at + 6)
      [] OTHER -> {}

ParseFunctionCall(tokens, name, at) ==
    IF name \in {<<f>> : f \in StringFuncs}
    THEN IF Shape(tokens, at, <<"(", "ident", ",", "text", ")">>)
         THEN Parsed([kind |-> "StringFunc", func |-> name[1], field |-> tokens[at + 1].ident,
                      arg |-> tokens[at + 3].str], at + 5)
         ELSE {}
    ELSE UNION {Parsed([kind |-> "StringValue", fn |-> r.expr, op |-> tokens[r.at].ident[1],
                        value |-> Literal(tokens[r.at + 1])], r.at + 2) :
                  r \in {f \in UNION {StringArguments(tokens, n, at + 1) : n \in ToSet(name)} :
                           Len(name) = 1 /\ Shape(tokens, f.at, <<"op", "value">>)}}

RECURSIVE ParseInValues(_, _, _)
ParseInValues(tokens, at, values) ==
    UNION {LET all == Append(values, r.expr) IN
           CASE Shape(tokens, r.at, <<",">>) -> ParseInValues(tokens, r.at + 1, all)
             [] Shape(tokens, r.at, <<")">>) -> Parsed(all, r.at + 1)
             [] OTHER                        -> {} :
             r \in ParseValue(tokens, at)}

ParseInList(tokens, name, at) ==
    {[r EXCEPT !.expr = [kind |-> "In", field |-> name, values |-> @]] :
        r \in IF Shape(tokens, at, <<"ident", "(">>) THEN ParseInValues(tokens, at + 2, <<>>) ELSE {}}

\* Against a date, a plain comparison is a comparison of dates.
ParsePlain(tokens, name, at) ==
    LET op == tokens[at].ident[1]
        OfDates(iso) == [kind |-> "DateCompare", left |-> [fn |-> "field", field |-> name],
                         op |-> op, value |-> Str(iso)]
    IN  CASE ~Shape(tokens, at, <<"op">>) -> {}
          [] Shape(tokens, at, <<"op">>) /\ BeginsUtcLiteral(tokens, at + 1) ->
                {[r EXCEPT !.expr = OfDates(@)] : r \in UtcLiteral(tokens, at + 1)}
          [] Shape(tokens, at, <<"op", "ident", "(", ")">>) /\ PeekIs(tokens, at + 1, "now") ->
                Parsed(OfDates(NormalText(Now)), at + 4)
          [] OTHER ->
                {[r EXCEPT !.expr = [kind |-> "Compare", field |-> name, op |-> op, value |-> @]] :
                    r \in ParseValue(tokens, at + 1)}

-----------------------------------------------------------------------------
(* The grammar *)

RECURSIVE ParseComparison(_, _)
ParseComparison(tokens, at) ==
    LET name == tokens[at].ident
        kind == Classify(tokens, name, at + 1)
    IN  CASE ~Shape(tokens, at, <<"ident">>) -> {}
          [] Shape(tokens, at, <<"ident">>) /\ kind = "Lambda" ->
                UNION {Parsed([kind |-> LambdaKind(name[Len(name)]),
                               field |-> SubSeq(name, 1, Len(name) - 1), inner |-> r.expr],
                              r.at + 1) :
                         r \in {b \in IF Shape(tokens, at + 1, <<"(", "ident", ":">>)
                                      THEN ParseComparison(tokens, at + 4) ELSE {} :
                                  Shape(tokens, b.at, <<")">>)}}
          [] Shape(tokens, at, <<"ident">>) /\ kind = "Collection" -> ParseCollection(tokens, name, at + 1)
          [] Shape(tokens, at, <<"ident">>) /\ kind = "DateFn" -> ParseDateCompare(tokens, name[1], at + 1)
          [] Shape(tokens, at, <<"ident">>) /\ kind = "SearchFn" -> ParseSearch(tokens, at + 1)
          [] Shape(tokens, at, <<"ident">>) /\ kind = "FunctionCall" -> ParseFunctionCall(tokens, name, at + 1)
          [] Shape(tokens, at, <<"ident">>) /\ kind = "InList" -> ParseInList(tokens, name, at + 1)
          [] Shape(tokens, at, <<"ident">>) /\ kind = "Plain" -> ParsePlain(tokens, name, at + 1)

Joined(kind, clauses) ==
    IF Len(clauses) = 1 THEN clauses[1] ELSE [kind |-> kind, clauses |-> clauses]

RECURSIVE ParseOr(_, _), ParsePrimary(_, _), ParseNot(_, _), AndTail(_, _, _), OrTail(_, _, _)

ParsePrimary(tokens, at) ==
    IF Shape(tokens, at, <<"(">>)
    THEN {[r EXCEPT !.at = @ + 1] : r \in {e \in ParseOr(tokens, at + 1) : Shape(tokens, e.at, <<")">>)}}
    ELSE ParseComparison(tokens, at)

ParseNot(tokens, at) ==
    IF PeekIs(tokens, at, "not")
    THEN {[r EXCEPT !.expr = [kind |-> "Not", inner |-> @]] : r \in ParseNot(tokens, at + 1)}
    ELSE ParsePrimary(tokens, at)

AndTail(tokens, at, clauses) ==
    IF PeekIs(tokens, at, "and")
    THEN UNION {AndTail(tokens, r.at, Append(clauses, r.expr)) : r \in ParseNot(tokens, at + 1)}
    ELSE Parsed(Joined("And", clauses), at)

ParseAnd(tokens, at) ==
    UNION {AndTail(tokens, r.at, <<r.expr>>) : r \in ParseNot(tokens, at)}

\* Mutant of OrTail: or binds as tightly as and.
OrTailOfNots(tokens, at, clauses) ==
    IF PeekIs(tokens, at, "or")
    THEN UNION {AndTail(tokens, r.at, <<[kind |-> "Or", clauses |-> Append(clauses, r.expr)]>>) :
                  r \in ParseNot(tokens, at + 1)}
    ELSE Parsed(Joined("Or", clauses), at)

OrTail(tokens, at, clauses) ==
    IF PeekIs(tokens, at, "or")
    THEN UNION {OrTail(tokens, r.at, Append(clauses, r.expr)) : r \in ParseAnd(tokens, at + 1)}
    ELSE Parsed(Joined("Or", clauses), at)

ParseOr(tokens, at) ==
    UNION {OrTail(tokens, r.at, <<r.expr>>) : r \in ParseAnd(tokens, at)}

\* The expression of a filter, as a set of at most one: no token may be left.
ParseFilter(tokens) ==
    {r.expr : r \in {e \in ParseOr(tokens, 1) : e.at = Len(tokens) + 1}}

=============================================================================
