----------------------------- MODULE Comparisons -----------------------------
(***************************************************************************)
(* When a document's fields satisfy a filter expression without and, or    *)
(* and not, and what such an expression is checked for against a schema.   *)
(*                                                                         *)
(* An expression is a record whose kind is one of                          *)
(*                                                                         *)
(*   Compare        field, op, value                                       *)
(*   In             field, values                                          *)
(*   StringFunc     func, field, arg                                       *)
(*   StringValue    fn (see StringValueResult), op, value                  *)
(*   Any, All       field, inner                                           *)
(*   DateCompare    left (see DateFunctions), op, value                    *)
(*   IsMatch        field, pattern                                         *)
(*   IsEmpty, IsNull  field                                                *)
(*                                                                         *)
(* A literal is a text, a number, a Boolean or null, written as the JSON   *)
(* value of that kind.                                                     *)
(***************************************************************************)
EXTENDS IndexSchema, DateFunctions

CONSTANTS
    LowerChar(_), UpperChar(_), Space, \* of the standard library
    RegexMatches(_, _)                 \* the regular expression engine

Ops         == {"eq", "ne", "gt", "ge", "lt", "le"}
OrderingOps == {"gt", "ge", "lt", "le"}

\* Mutant of ReverseOp: an operator is negated instead of turned around.
ReverseOpNegates == [op \in Ops |->
    CASE op = "gt" -> "le" [] op = "ge" -> "lt"
      [] op = "lt" -> "ge" [] op = "le" -> "gt" [] OTHER -> op]

\* a op b holds when b ReverseOp[op] a does.
ReverseOp == [op \in Ops |->
    CASE op = "gt" -> "lt" [] op = "ge" -> "le"
      [] op = "lt" -> "gt" [] op = "le" -> "ge" [] OTHER -> op]

-----------------------------------------------------------------------------
(* Comparisons *)

TextLess(a, b) ==
    \E n \in 0..Len(b) - 1 :
      /\ n <= Len(a)
      /\ SubSeq(a, 1, n) = SubSeq(b, 1, n)
      /\ n = Len(a) \/ a[n + 1] < b[n + 1]

Holds(op, less, equal) ==
    CASE op = "eq" -> equal
      [] op = "ne" -> ~equal
      [] op = "lt" -> less
      [] op = "le" -> less \/ equal
      [] op = "gt" -> ~less /\ ~equal
      [] op = "ge" -> ~less

\* No side that is null is less than another.
NullComparison(op, actualNull, expectedNull) ==
    CASE op = "eq" -> actualNull = expectedNull
      [] op = "ne" -> actualNull # expectedNull
      [] OTHER     -> FALSE

\* A value that is not null; a literal of another kind satisfies nothing,
\* not even ne.
CompareScalar(actual, op, literal) ==
    CASE IsNull(literal) -> NullComparison(op, FALSE, TRUE)
      [] IsStr(literal) /\ IsStr(actual) ->
            Holds(op, TextLess(actual.str, literal.str), actual.str = literal.str)
      [] IsNum(literal) /\ IsNum(actual) ->
            Holds(op, AsF64(actual) < AsF64(literal), AsF64(actual) = AsF64(literal))
      [] IsBool(literal) /\ IsBool(actual) ->
            op \notin OrderingOps /\ Holds(op, FALSE, actual.bool = literal.bool)
      [] OTHER -> FALSE

ValuesEqual(item, literal) ==
    IF IsNull(item) \/ IsNull(literal) THEN IsNull(item) /\ IsNull(literal)
    ELSE CompareScalar(item, "eq", literal)

\* Mutant of CompareItems: ne holds when some item differs.
CompareItemsNeAny(items, op, literal) ==
    \E item \in items : ~IsNull(item) /\ CompareScalar(item, op, literal)

\* ne holds when eq holds of none of them.
CompareItems(items, op, literal) ==
    CASE IsNull(literal) ->
            NullComparison(op, \E item \in items : IsNull(item), TRUE)
      [] ~IsNull(literal) /\ op = "eq" -> \E item \in items : ValuesEqual(item, literal)
      [] ~IsNull(literal) /\ op = "ne" -> ~\E item \in items : ValuesEqual(item, literal)
      [] ~IsNull(literal) /\ op \in OrderingOps ->
            \E item \in items : ~IsNull(item) /\ CompareScalar(item, op, literal)

\* The values a path led to: none, a scalar, or several or an array.
CompareFieldValues(values, op, literal) ==
    CASE values = <<>> -> NullComparison(op, TRUE, IsNull(literal))
      [] Len(values) = 1 /\ ~IsArr(values[1]) ->
            IF IsNull(values[1]) THEN NullComparison(op, TRUE, IsNull(literal))
            ELSE CompareScalar(values[1], op, literal)
      [] values # <<>> /\ (Len(values) > 1 \/ IsArr(values[1])) ->
            CompareItems(ToSet(FlattenValues(values)), op, literal)

\* Mutant of InList: a null in the list finds nothing.
InListOfPresent(values, literals) ==
    \E literal \in ToSet(literals), item \in ToSet(FlattenValues(values)) : ValuesEqual(item, literal)

\* A missing field is in a list that contains null.
InList(values, literals) ==
    \/ InListOfPresent(values, literals)
    \/ values = <<>> /\ \E literal \in ToSet(literals) : IsNull(literal)

-----------------------------------------------------------------------------
(* String functions *)

Texts(fields, path) ==
    LET values == SelectSeq(FlattenValues(ResolveFieldPath(fields, path)), IsStr)
    IN  [i \in DOMAIN values |-> values[i].str]

TextMatches(func, text, arg) ==
    CASE func = "startswith" -> IsPrefix(arg, text)
      [] func = "endswith"   -> IsSuffix(arg, text)
      [] func = "contains"   -> \E n \in 0..Len(text) : IsPrefix(arg, SubSeq(text, n + 1, Len(text)))

\* The number of characters before the first occurrence, or -1.
IndexOf(text, part) ==
    LET at == {n \in 0..Len(text) : IsPrefix(part, SubSeq(text, n + 1, Len(text)))}
    IN  IF at = {} THEN -1 ELSE CHOOSE n \in at : \A k \in at : n <= k

\* Length is <<>> when the argument is absent.
ExtractSubstring(text, start, length) ==
    CASE start < 0 \/ start >= Len(text) -> <<>>
      [] start \in 0..Len(text) - 1 /\ length = <<>> -> SubSeq(text, start + 1, Len(text))
      [] start \in 0..Len(text) - 1 /\ length # <<>> ->
            SubSeq(text, start + 1,
                   IF start + length[1] < Len(text) THEN start + length[1] ELSE Len(text))

Trimmed(text) ==
    LET kept == {i \in DOMAIN text : text[i] # Space}
    IN  IF kept = {} THEN <<>>
        ELSE SubSeq(text, CHOOSE i \in kept : \A k \in kept : i <= k,
                          CHOOSE i \in kept : \A k \in kept : k <= i)

\* Of the field's first text; none when it has no text.
StringValueResult(fn, fields) ==
    LET texts == Texts(fields, fn.field)
        Of(text) ==
            CASE fn.name = "length"    -> Num(Len(text))
              [] fn.name = "indexof"   -> Num(IndexOf(text, fn.substr))
              [] fn.name = "substring" -> Str(ExtractSubstring(text, fn.start, fn.length))
              [] fn.name = "tolower"   -> Str([i \in DOMAIN text |-> LowerChar(text[i])])
              [] fn.name = "toupper"   -> Str([i \in DOMAIN text |-> UpperChar(text[i])])
              [] fn.name = "trim"      -> Str(Trimmed(text))
    IN  IF texts = <<>> THEN <<>> ELSE <<Of(Head(texts))>>

-----------------------------------------------------------------------------
(* Collections *)

\* The elements any and all range over: those of every array the path led
\* to, and every other value itself.
Elements(values) ==
    UNION {IF IsArr(value) THEN ToSet(value.arr) ELSE {value} : value \in ToSet(values)}

\* Mutant of ElementMatches: an element without the subfield satisfies nothing.
ElementMatchesPresent(inner, element) ==
    IF Len(inner.field) > 1
    THEN LET values == ResolveInElement(element, Tail(inner.field))
         IN  values # <<>> /\ CompareFieldValues(values, inner.op, inner.value)
    ELSE ~IsNull(element) /\ CompareScalar(element, inner.op, inner.value)

\* The body of a lambda is one comparison; the first name of its field is
\* the variable, whatever it is called.
ElementMatches(inner, element) ==
    /\ inner.kind = "Compare"
    /\ IF Len(inner.field) > 1
       THEN CompareFieldValues(ResolveInElement(element, Tail(inner.field)), inner.op, inner.value)
       ELSE IF IsNull(element) THEN NullComparison(inner.op, TRUE, IsNull(inner.value))
       ELSE CompareScalar(element, inner.op, inner.value)

LeafMatches(expr, fields) ==
    LET Values == ResolveFieldPath(fields, expr.field) IN
    CASE expr.kind = "Compare" -> CompareFieldValues(Values, expr.op, expr.value)
      [] expr.kind = "In" -> InList(Values, expr.values)
      [] expr.kind = "StringFunc" ->
            \E text \in ToSet(Texts(fields, expr.field)) : TextMatches(expr.func, text, expr.arg)
      [] expr.kind = "StringValue" ->
            \E actual \in ToSet(StringValueResult(expr.fn, fields)) :
              CompareScalar(actual, expr.op, expr.value)
      [] expr.kind = "Any" ->
            \E element \in Elements(Values) : ElementMatches(expr.inner, element)
      [] expr.kind = "All" ->
            Values # <<>> /\ \A element \in Elements(Values) : ElementMatches(expr.inner, element)
      [] expr.kind = "DateCompare" ->
            \E actual \in ToSet(EvaluateDate(expr.left, fields)) :
              CompareScalar(actual, expr.op, expr.value)
      [] expr.kind = "IsMatch" ->
            \E text \in ToSet(Texts(fields, expr.field)) : RegexMatches(expr.pattern, text)
      [] expr.kind = "IsEmpty" ->
            \A item \in ToSet(FlattenValues(Values)) : IsNull(item) \/ item = Str(<<>>)
      [] expr.kind = "IsNull" ->
            Values = <<>> \/ \E item \in ToSet(FlattenValues(Values)) : IsNull(item)

-----------------------------------------------------------------------------
(* Validation *)

Filterable(definition, path) ==
    LET found == FieldPath(definition, path) IN found # <<>> /\ found[1].filterable

HasType(definition, path, types) ==
    /\ Filterable(definition, path)
    /\ FieldPath(definition, path)[1].type \in types

StringTypes == [elem : {"String"}, collection : BOOLEAN]

ValidCompare(expr, definition) ==
    /\ Filterable(definition, expr.field)
    /\ expr.op \in OrderingOps =>
         LET field == FieldPath(definition, expr.field)[1] IN
         /\ ~IsBool(expr.value)
         /\ ~IsCollection(field)
         /\ ~IsEqualityOnly(field.type)

\* Along the path of a lambda's body, every field but the last is complex;
\* only the last has to be filterable.
ValidSubfieldPath(field, path) ==
    LET At(n) == FoldLeft(LAMBDA found, name :
                              IF found = <<>> THEN <<>>
                              ELSE FieldNamed(found[1].subfields, name),
                          <<field>>, SubSeq(path, 1, n))
    IN  /\ \A n \in 1..Len(path) - 1 : At(n) # <<>> /\ IsComplexType(At(n)[1])
        /\ At(Len(path)) # <<>> /\ At(Len(path))[1].filterable

ValidLambda(expr, definition) ==
    LET found == FieldPath(definition, expr.field) IN
    /\ found # <<>>
    /\ IsCollection(found[1])
    /\ expr.inner.kind = "Compare"
    /\ IF Len(expr.inner.field) = 1
       THEN found[1].filterable
       ELSE IsComplexType(found[1]) /\ ValidSubfieldPath(found[1], Tail(expr.inner.field))

ValidLeaf(expr, definition) ==
    CASE expr.kind = "Compare" -> ValidCompare(expr, definition)
      [] expr.kind \in {"In", "IsEmpty", "IsNull"} -> Filterable(definition, expr.field)
      [] expr.kind \in {"StringFunc", "IsMatch"} -> HasType(definition, expr.field, StringTypes)
      [] expr.kind = "StringValue" -> HasType(definition, expr.fn.field, StringTypes)
      [] expr.kind \in {"Any", "All"} -> ValidLambda(expr, definition)
      [] expr.kind = "DateCompare" ->
            \A path \in ReferencedFields(expr.left) :
              HasType(definition, path, {Scalar("DateTimeOffset")})

=============================================================================
