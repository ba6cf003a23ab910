----------------------------- MODULE LanguageCases -----------------------------
(***************************************************************************)
(* The properties of QueryCases' cases that need a recursive definition:   *)
(* filters written out and read back, and filters that are read from their *)
(* text first.                                                             *)
(***************************************************************************)
EXTENDS QueryCases, FilterParser

-----------------------------------------------------------------------------
(* Filters *)

\* docs/known_differences.md on nested collections: "a direct path matches
\* when any element satisfies the comparison".
AnyElementMatches ==
    (IsFilter({"Compare"}) /\ Expr.op # "ne" /\ ~IsNull(Expr.value)
        /\ CollectionsOn(Definition, Expr.field) # {}) =>
        (Says(Expr) <=> DirectPathHolds)

ToMilliseconds(dt) == [dt EXCEPT !.tick = 10 * (@ \div 10)]

\* A literal with a date on its right: a signed year is after every literal's.
ComesBefore(op, literal, dt) ==
    IF dt.year \in Years THEN Holds(op, Earlier(literal, dt), literal = dt) ELSE Holds(op, FALSE, FALSE)

\* Comparing normalised texts is comparing the moments to the millisecond, as
\* long as the document's year is written with four digits; a signed year is
\* before every literal, one after 9999 too.  A filter that begins with
\* utcdatetime is the one that ends with it, turned around
\* (parse_date_compare, normalize_datetime).
DateComparisonsAreChronological ==
    IsFilter({"DateCompare"}) /\ Expr.left.fn = "field" /\ ParseDatetime(Expr.value.str) # <<>> =>
        \A expr \in ParseFilter(<<Word("utcdatetime"), Punct("("), Expr.value, Punct(")"),
                                   Word(Expr.op), Ident(Expr.left.field)>>) :
          Matches(expr, Fields) <=>
            \E dt \in ToSet(ResolveDatetime(Fields, Expr.left.field)) :
              ComesBefore(Expr.op, ParseDatetime(Expr.value.str)[1], ToMilliseconds(dt))

-----------------------------------------------------------------------------
(* Grammar *)

LiteralToken(value) ==
    CASE IsBool(value) -> Word(IF value.bool THEN "true" ELSE "false")
      [] IsNull(value) -> Word("null")
      [] OTHER         -> value

InBrackets(tokens) == <<Punct("(")>> \o tokens \o <<Punct(")")>>

SeparatedBy(parts, separator) ==
    FoldLeft(LAMBDA all, part : all \o <<separator>> \o part, Head(parts), Tail(parts))

UtcTokens(text) == <<Word("utcdatetime")>> \o InBrackets(<<Str(text)>>)
RefTokens(ref)  == IF "field" \in DOMAIN ref THEN <<Ident(ref.field)>> ELSE UtcTokens(ref.literal)

CallTokens(name, arguments) == <<Word(name)>> \o InBrackets(SeparatedBy(arguments, Punct(",")))

LeftTokens(left) ==
    CASE left.fn = "field"    -> <<Ident(left.field)>>
      [] left.fn = "now"      -> <<Word("now"), Punct("("), Punct(")")>>
      [] left.fn = "datepart" -> CallTokens("datepart", <<<<Word(left.part)>>, <<Ident(left.field)>>>>)
      [] left.fn = "dateadd"  -> CallTokens("dateadd", <<<<Word(left.unit)>>, <<Num(left.interval)>>,
                                                        <<Ident(left.field)>>>>)
      [] left.fn = "datediff" -> CallTokens("datediff", <<<<Word(left.unit)>>, RefTokens(left.start),
                                                         RefTokens(left.end)>>)
      [] OTHER                -> CallTokens(left.fn, <<<<Ident(left.field)>>>>)

FnTokens(fn) ==
    CASE fn.name = "indexof"   -> CallTokens("indexof", <<<<Ident(fn.field)>>, <<Str(fn.substr)>>>>)
      [] fn.name = "substring" ->
            CallTokens("substring", <<<<Ident(fn.field)>>, <<Num(fn.start)>>>>
                                        \o [i \in DOMAIN fn.length |-> <<Num(fn.length[i])>>])
      [] OTHER                 -> CallTokens(fn.name, <<<<Ident(fn.field)>>>>)

\* An expression as it is written.
RECURSIVE Render(_)
Render(expr) ==
    LET Part(e)  == IF e.kind \in {"And", "Or"} THEN InBrackets(Render(e)) ELSE Render(e)
        Clauses  == [i \in DOMAIN expr.clauses |-> Part(expr.clauses[i])]
        OpTokens(e) == <<Word(e.op), LiteralToken(e.value)>>
        Lambda(word) == <<Ident(Append(expr.field, word))>>
                            \o InBrackets(<<Ident(<<expr.inner.field[1]>>), Punct(":")>> \o Render(expr.inner))
    IN  CASE expr.kind = "And" -> SeparatedBy(Clauses, Word("and"))
          [] expr.kind = "Or"  -> SeparatedBy(Clauses, Word("or"))
          [] expr.kind = "Not" -> <<Word("not")>> \o Part(expr.inner)
          [] expr.kind = "Compare" -> <<Ident(expr.field)>> \o OpTokens(expr)
          [] expr.kind = "In" ->
                <<Ident(expr.field), Word("in")>>
                  \o InBrackets(SeparatedBy([i \in DOMAIN expr.values |-> <<LiteralToken(expr.values[i])>>],
                                            Punct(",")))
          [] expr.kind = "StringFunc" ->
                CallTokens(expr.func, <<<<Ident(expr.field)>>, <<Str(expr.arg)>>>>)
          [] expr.kind = "StringValue" -> FnTokens(expr.fn) \o OpTokens(expr)
          [] expr.kind = "Any" -> Lambda("any")
          [] expr.kind = "All" -> Lambda("all")
          [] expr.kind = "DateCompare" ->
                LeftTokens(expr.left) \o <<Word(expr.op)>>
                  \o IF expr.left.fn = "field" THEN UtcTokens(expr.value.str)
                     ELSE <<LiteralToken(expr.value)>>
          [] expr.kind = "IsMatch" ->
                <<Word("search"), Punct(".")>>
                  \o CallTokens("ismatch", <<<<Str(expr.pattern)>>, <<Ident(expr.field)>>>>)
          [] expr.kind \in {"IsEmpty", "IsNull"} ->
                <<Word("search"), Punct(".")>>
                  \o CallTokens(IF expr.kind = "IsEmpty" THEN "isempty" ELSE "isnull",
                                <<<<Ident(expr.field)>>>>)

\* Every expression can be written, and is read back as itself: no branch of
\* the dispatch shadows another and no parser takes a token too many.
WrittenFiltersAreReadBack ==
    case.family = "written" =>
        \A expr \in {Expr,
                     [kind |-> "Not", inner |-> Expr],
                     [kind |-> "And", clauses |-> <<Expr, [kind |-> "Or", clauses |-> <<Expr, Expr>>]>>],
                     [kind |-> "Or", clauses |-> <<[kind |-> "And", clauses |-> <<Expr, Expr>>],
                                                   [kind |-> "Not", inner |-> Expr]>>]} :
          ParseFilter(Render(expr)) = {expr}

\* In a phrase, a stands for a comparison that holds and b for one that does
\* not.
SymbolTokens(symbol) ==
    CASE symbol \in {"a", "b"}  -> <<Word("F"), Word("eq"), Str(IF symbol = "a" THEN <<1>> ELSE <<2>>)>>
      [] symbol \in {"(", ")"}  -> <<Punct(symbol)>>
      [] OTHER                  -> <<Word(symbol)>>

PhraseTokens(phrase) == Concat([i \in DOMAIN phrase |-> SymbolTokens(phrase[i])])

\* The grammar of OData, on the phrase from i to j: which of its levels
\* derive it, and the values it then has.
RECURSIVE Derive(_, _, _, _)
Derive(level, phrase, i, j) ==
    LET Split(word, left, right, Value(_, _)) ==
            UNION {{Value(p, q) : p \in Derive(left, phrase, i, k - 1),
                                  q \in Derive(right, phrase, k + 1, j)} :
                     k \in {n \in i + 1..j - 1 : phrase[n] = word}}
    IN  CASE i > j -> {}
          [] i <= j /\ level = "or" ->
                Derive("and", phrase, i, j) \cup Split("or", "or", "and", LAMBDA p, q : p \/ q)
          [] i <= j /\ level = "and" ->
                Derive("not", phrase, i, j) \cup Split("and", "and", "not", LAMBDA p, q : p /\ q)
          [] i <= j /\ level = "not" ->
                IF phrase[i] = "not" THEN {~p : p \in Derive("not", phrase, i + 1, j)}
                ELSE IF phrase[i] = "(" /\ phrase[j] = ")" THEN Derive("or", phrase, i + 1, j - 1)
                ELSE IF i = j /\ phrase[i] \in {"a", "b"} THEN {phrase[i] = "a"}
                ELSE {}

\* Exactly the phrases of the grammar are filters, and they mean what their
\* precedences say.
PrecedenceIsStandard ==
    case.family = "phrase" =>
        {Matches(expr, [name \in {"F"} |-> Str(<<1>>)]) : expr \in ParseFilter(PhraseTokens(case.phrase))}
            = Derive("or", case.phrase, 1, Len(case.phrase))

=============================================================================
