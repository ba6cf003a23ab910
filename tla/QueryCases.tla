------------------------------ MODULE QueryCases ------------------------------
(***************************************************************************)
(* Definitions, documents and filters meet: one case at a time, a          *)
(* definition is sent; to an accepted one, a document; to an accepted      *)
(* document, a filter that is valid for the definition.  Phrases are       *)
(* filters looked at for their grammar, dates are looked at alone.  The    *)
(* properties say that the separate readings of one thing agree: what      *)
(* validation accepts and what building and filtering assume, and the      *)
(* forms a filter may be written in.                                       *)
(*                                                                         *)
(* Which values a field accepts at any depth and which filters are valid   *)
(* are defined recursively (FieldTypeOk, Filters) and are parameters here, *)
(* so that proofs can be about the rest.                                   *)
(***************************************************************************)
EXTENDS Comparisons, DocumentValidation

CONSTANTS
    Definitions,      \* index definitions that are sent
    Documents(_),     \* the documents sent for a definition
    Expressions(_),   \* the filters sent for a definition
    Allows(_, _),     \* ValidFilter
    FieldNames,       \* the names of fields
    FieldDefinitions, \* the fields in definitions, at any depth
    Json,             \* the values in accepted documents, at any depth
    Phrases,          \* sequences of the symbols a, b, and, or, not, ( and )
    Moments,          \* dates looked at, and the
    Intervals         \* intervals they are moved by

FieldPaths == UNION {[1..n -> FieldNames] : n \in 1..MaxDepth}

LiteralValues ==
    [str : Seq(Int)] \cup [num : Int] \cup [frac : Int] \cup [bool : BOOLEAN] \cup {Null}

\* The path a lambda compares: its own, and what its body adds to the
\* variable.
LambdaPath(expr) == expr.field \o Tail(expr.inner.field)

WellMade(expr) ==
    /\ expr.kind \in {"Compare", "In", "IsNull", "Any", "All"} => expr.field \in FieldPaths
    /\ expr.kind = "Compare" => expr.op \in Ops /\ expr.value \in LiteralValues
    /\ expr.kind = "In" => expr.values \in Seq(LiteralValues)
    /\ expr.kind \in {"Any", "All"} =>
         /\ expr.inner.field \in Seq(STRING) \ {<<>>} /\ LambdaPath(expr) \in FieldPaths
         /\ expr.inner.op \in Ops /\ expr.inner.value \in LiteralValues

\* What the parser makes, and what ValidFilter says of a filter without and,
\* or and not.
ASSUME ExpressionsAssumption ==
    \A d \in Definitions : \A expr \in Expressions(d) :
      /\ WellMade(expr)
      /\ expr.kind \notin {"And", "Or", "Not"} => (Allows(expr, d) <=> ValidLeaf(expr, d))

ASSUME JsonAssumption ==
    \A value \in Json :
      \/ value \in LiteralValues
      \/ DOMAIN value = {"arr"} /\ value.arr \in Seq(Json)
      \/ DOMAIN value = {"obj"} /\ \A name \in DOMAIN value.obj : value.obj[name] \in Json

ASSUME StoredAssumption ==
    \A d \in Definitions : \A sent \in Documents(d) :
      ValidSchema(d) /\ DocumentAccepted(d, sent) =>
        Range(sent) \cup Range(StoredDocument(d, sent).fields) \subseteq Json

\* A vector is not normalised here, so its numbers are as large as the text it
\* is generated from is long; they fit an f32, as those of the code do.
ASSUME TextsAssumption ==
    /\ MaxSingle \in Nat
    /\ \A d \in Definitions : \A sent \in Documents(d) :
         ValidSchema(d) /\ DocumentAccepted(d, sent) =>
           \A v \in ToSet(d.vectorizers) :
             SourceText(d, v, sent) \in Seq(Int) /\ Len(SourceText(d, v, sent)) <= MaxSingle

ASSUME DefinitionsAssumption ==
    /\ \A d \in Definitions : d.fields \in Seq(FieldDefinitions)
    /\ \A f \in FieldDefinitions : f.subfields \in Seq(FieldDefinitions)

\* A field is checked below as it is at the top.
ASSUME CheckAssumption ==
    \A f \in FieldDefinitions, value \in Json : CheckFieldType(f, value) <=> FieldTypeOk(f, value)

Years == 0..9999

IsMoment(dt) ==
    /\ dt \in [year : Years, month : 1..12, day : 1..31, second : 0..DaySeconds - 1,
              tick : 0..SecondTicks - 1]
    /\ dt.day <= DaysInMonth(dt.year, dt.month)

\* A moment moved to a year of at most four digits.
StaysInRange(unit, interval, dt) ==
    IF unit \in DOMAIN UnitMonths
    THEN (12 * dt.year + dt.month - 1 + UnitMonths[unit] * interval) \div 12 \in Years
    ELSE DayNumber(dt) + (dt.second + UnitSeconds[unit] * interval) \div DaySeconds
           \in DaysBeforeYear(0) + 1 .. DaysBeforeYear(10000)

ASSUME MomentsAssumption ==
    /\ Intervals \subseteq Int
    /\ \A dt \in Moments : IsMoment(dt)
    /\ \A dt \in Moments, unit \in DateUnits, n \in Intervals : StaysInRange(unit, n, dt)

VARIABLE case

QueryInit == case = [family |-> "none"]

SendDefinition ==
    /\ case.family = "none"
    /\ \E d \in Definitions : case' = [family |-> "definition", definition |-> d]

SendDocument ==
    /\ case.family = "definition"
    /\ ValidSchema(case.definition)
    /\ \E fields \in Documents(case.definition) :
         case' = [family |-> "document", definition |-> case.definition, fields |-> fields]

SendFilter ==
    /\ case.family = "document"
    /\ DocumentAccepted(case.definition, case.fields)
    /\ \E expr \in Expressions(case.definition) :
         /\ Allows(expr, case.definition)
         /\ case' = [family |-> "filter", definition |-> case.definition, expr |-> expr,
                     fields |-> StoredDocument(case.definition, case.fields).fields]

ReadExpression ==
    /\ case.family = "none"
    /\ \E d \in Definitions : \E expr \in Expressions(d) :
         case' = [family |-> "written", expr |-> expr]

ReadPhrase ==
    /\ case.family = "none"
    /\ \E phrase \in Phrases : case' = [family |-> "phrase", phrase |-> phrase]

MoveDate ==
    /\ case.family = "none"
    /\ \E dt \in Moments, unit \in DateUnits, n \in Intervals :
         case' = [family |-> "date", dt |-> dt, unit |-> unit, interval |-> n]

Leave == case.family # "none" /\ case' = [family |-> "none"]

QueryNext ==
    \/ SendDefinition \/ SendDocument \/ SendFilter
    \/ ReadExpression \/ ReadPhrase \/ MoveDate
    \/ Leave

QuerySpec == QueryInit /\ [][QueryNext]_case

Definition == case.definition
Fields     == case.fields
Expr       == case.expr
Accepted   == case.family = "document" /\ DocumentAccepted(Definition, Fields)
Stored     == StoredDocument(Definition, Fields).fields

-----------------------------------------------------------------------------
(* Definitions *)

\* The vector engine can build the indexes of every definition validation
\* accepts with a vector field: creating or updating such an index is never
\* rolled back (create_index after validate_schema).
AcceptedSchemasBuild ==
    case.family = "definition" =>
        (ValidSchema(Definition) /\ VectorFields(Definition) # {}
            => VectorIndexesCreated(Definition))

\* Whatever vectorizer a vector field of an accepted definition resolves to
\* exists and has sources that are text, so generating a vector never skips a
\* field for want of its vectorizer (apply_vectorizer_generation).
VectorizersResolve ==
    case.family = "definition" /\ ValidSchema(Definition) =>
        \A f \in VectorFields(Definition) :
          \A name \in FieldVectorizer(Definition, f) :
            \E v \in ToSet(Definition.vectorizers) :
              /\ v.name = name
              /\ \A i \in DOMAIN v.source : \A j \in DOMAIN v.source[i] :
                   \E g \in ToSet(Definition.fields) :
                     g.name = v.source[i][j] /\ IsSearchableString(g)

\* A path to a field, through complex fields.  A definition may have fields
\* below others too, and field_path descends to them, but validation looks at
\* nothing there (validate_schema, check_field_type).
LeadsToField(definition, path) ==
    /\ FieldPath(definition, path) # <<>>
    /\ \A n \in 1..Len(path) - 1 : IsComplexType(FieldPath(definition, SubSeq(path, 1, n))[1])

-----------------------------------------------------------------------------
(* Documents *)

\* The collections a path goes through or ends in.
CollectionsOn(definition, path) ==
    {n \in 1..Len(path) : IsCollection(FieldPath(definition, SubSeq(path, 1, n))[1])}

KindFits(elem, value) ==
    CASE elem \in {"Int8", "Int16", "Int32", "Int64"} -> IsInt(value)
      [] elem \in {"Single", "Double"}                -> IsNum(value)
      [] elem = "Boolean"                             -> IsBool(value)
      [] elem = "ComplexType"                         -> IsObj(value)
      [] elem \in {"Half", "GeographyPoint"}          -> TRUE
      [] OTHER                                        -> IsStr(value)

\* A vector may be null where one was to be generated.  There are several
\* values only below a collection, and an array only at one.
ValuesFit(definition, fields, path) ==
    LET values      == ResolveFieldPath(fields, path)
        field       == FieldPath(definition, path)[1]
        collections == CollectionsOn(definition, path)
    IN  /\ \A value \in Elements(values) :
             KindFits(field.type.elem, value) \/ (IsVectorField(field) /\ IsNull(value))
        /\ collections \subseteq {Len(path)} => Len(values) <= 1
        /\ Len(path) \notin collections => \A value \in ToSet(values) : ~IsArr(value)

\* What a filter, a facet or an ordering finds in a stored document, however
\* deep its path below complex fields, is of the kind the field was declared
\* with, is at most one value unless a collection is on the way, and is an
\* array only if the field is a collection itself (validate_document).
StoredValuesFitTheirPaths ==
    Accepted =>
        \A path \in {p \in FieldPaths : LeadsToField(Definition, p)} :
          ValuesFit(Definition, Stored, path)

\* What is stored would be accepted again, and nothing more is generated for
\* it: a merge that changes nothing validates the stored fields a second time
\* and must not fail or change them (merge_one).
StoredDocumentsAreAccepted ==
    Accepted =>
        /\ DocumentAccepted(Definition, Stored)
        /\ StoredDocument(Definition, Stored).fields = Stored

-----------------------------------------------------------------------------
(* Filters *)

IsFilter(kinds) == case.family = "filter" /\ Expr.kind \in kinds

Comparison(path, op, literal) == [kind |-> "Compare", field |-> path, op |-> op, value |-> literal]
ValuesOf(path) == ResolveFieldPath(Fields, path)
Says(expr)     == LeafMatches(expr, Fields)

\* The literal belongs to the type, so that a comparison means something; no
\* literal is a vector.
LiteralFits(path, literal) ==
    LET field == FieldPath(Definition, path)[1]
    IN  /\ LeadsToField(Definition, path)
        /\ ~IsNull(literal)
        /\ ~IsVectorField(field) /\ field.type.elem \notin {"Half", "GeographyPoint"}
        /\ KindFits(field.type.elem, literal)

IsDisjunction(in) ==
    Says(in) <=> \E v \in ToSet(in.values) : Says(Comparison(in.field, "eq", v))

IsNullTest(test) ==
    /\ Says(test) <=> Says(Comparison(test.field, "eq", Null))
    /\ Says(test) /\ LeadsToField(Definition, test.field) /\ CollectionsOn(Definition, test.field) = {}
         => Says([kind |-> "IsEmpty", field |-> test.field])

\* What is short for a comparison says what the comparison says, on missing
\* fields, nulls and collections too: in is the disjunction of eq,
\* search.isnull is eq null, and search.isempty holds wherever it does where
\* no collection is on the path (FilterExpr::In, evaluate_search_func and
\* compare_field_values are separate code).
ShorthandsAgree ==
    /\ IsFilter({"In"}) => IsDisjunction(Expr)
    /\ IsFilter({"IsNull"}) => IsNullTest(Expr)

\* A literal of the field's type never takes the branch for another kind:
\* ne is the complement of eq, ge and le are made of their halves, and of
\* one value exactly one of lt, eq and gt is true.
OperatorsPartition ==
    (IsFilter({"Compare"}) /\ LiteralFits(Expr.field, Expr.value)) =>
        \A holding \in {{op \in Ops : Says(Comparison(Expr.field, op, Expr.value))}} :
          /\ "ne" \in holding <=> "eq" \notin holding
          /\ Expr.op \in OrderingOps =>
               /\ "le" \in holding <=> {"lt", "eq"} \cap holding # {}
               /\ "ge" \in holding <=> {"gt", "eq"} \cap holding # {}
               /\ Len(ValuesOf(Expr.field)) = 1 /\ ~IsArr(ValuesOf(Expr.field)[1]) =>
                    Cardinality({"lt", "eq", "gt"} \cap holding) = 1

Negation == [eq |-> "ne", ne |-> "eq", lt |-> "ge", ge |-> "lt", gt |-> "le", le |-> "gt"]

\* The values of an element that a lambda's body compares.
Compared(inner, element) ==
    IF Len(inner.field) = 1 THEN <<element>> ELSE ResolveInElement(element, Tail(inner.field))

\* An element is a whole value for an operator: eq and ne judge any values,
\* an ordering one number or text.
Comparable(inner, element) ==
    inner.op \in OrderingOps =>
        /\ ~IsBool(inner.value)
        /\ Len(Compared(inner, element)) = 1 /\ ~IsArr(Compared(inner, element)[1])

Opposite(all) ==
    [kind  |-> "Any", field |-> all.field,
     inner |-> Comparison(all.inner.field, Negation[all.inner.op], all.inner.value)]

\* Not to satisfy a comparison everywhere is to satisfy its negation
\* somewhere, when the collection is there, the literal has the elements'
\* type and every element has the member that is compared.
LambdasAreDual ==
    (IsFilter({"All"}) /\ ValuesOf(Expr.field) # <<>> /\ LiteralFits(LambdaPath(Expr), Expr.inner.value)
        /\ \A element \in Elements(ValuesOf(Expr.field)) : Comparable(Expr.inner, element)) =>
        (Says(Expr) <=> ~Says(Opposite(Expr)))

SomeElementHolds(path, op, literal) ==
    \E value \in Elements(ValuesOf(path)) : CompareScalar(value, op, literal)

DirectPathHolds == SomeElementHolds(Expr.field, Expr.op, Expr.value)

\* The comparison at the end of a path as a lambda over its first n names.
AsLambda(compare, n) ==
    [kind |-> "Any", field |-> SubSeq(compare.field, 1, n),
     inner |-> Comparison(<<"x">> \o SubSeq(compare.field, n + 1, Len(compare.field)),
                          compare.op, compare.value)]

\* A comparison along a path with one collection on it holds when it holds
\* of any element, like the lambda over that collection where it is allowed.
DirectPathsAreLambdas ==
    (IsFilter({"Compare"}) /\ Expr.op # "ne" /\ ~IsNull(Expr.value)
        /\ LeadsToField(Definition, Expr.field)) =>
        \A n \in 1..Len(Expr.field) : CollectionsOn(Definition, Expr.field) = {n} =>
          /\ Says(Expr) <=> DirectPathHolds
          /\ ValidLambda(AsLambda(Expr, n), Definition) => (Says(Expr) <=> Says(AsLambda(Expr, n)))

-----------------------------------------------------------------------------
(* Dates *)

Earlier(a, b) ==
    \/ DayNumber(a) < DayNumber(b)
    \/ DayNumber(a) = DayNumber(b) /\ a.second < b.second
    \/ DayNumber(a) = DayNumber(b) /\ a.second = b.second /\ a.tick < b.tick

\* datediff measures what dateadd moved, in every unit and both directions,
\* across months of other lengths and leap days.
DateDiffUndoesDateAdd ==
    case.family = "date" =>
        LET moved == DateAdd(case.unit, case.interval, case.dt) IN
        /\ DateDiff(case.unit, case.dt, moved) = case.interval
        /\ IsDate(NormalText(moved))
        /\ Earlier(case.dt, moved) <=> case.interval > 0

=============================================================================
