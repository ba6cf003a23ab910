-------------------------- MODULE DocumentValidation --------------------------
(***************************************************************************)
(* validate_document: what a document must be for its definition, and the  *)
(* vectors that are generated into it.                                     *)
(***************************************************************************)
EXTENDS SchemaValidation

CONSTANTS
    WellFormed(_, _),     \* Time, Duration and Binary: whether a text has the format
    MaxSingle,            \* the numbers beyond it are too large for an f32
    CheckFieldType(_, _)  \* FieldTypeOk, below a complex field

Digit(n) == 100 + n

\* The key as a text: a number is written out, so that 1 and "1" are one key.
\* Empty when the value can be no key.
KeyDisplay(value) ==
    CASE IsStr(value) -> <<value.str>>
      [] IsInt(value) -> <<<<Digit(value.num)>>>>
      [] OTHER        -> <<>>

-----------------------------------------------------------------------------
(* Field types *)

IntIn(value, low, high) == IsInt(value) /\ value.num \in low..high

IsGeographyPoint(value) ==
    \/ IsStr(value)
    \/ /\ IsObj(value)
       /\ {"type", "coordinates"} \subseteq DOMAIN value.obj
       /\ value.obj["type"] = Str(<<Digit(0)>>) \* the text "Point"
       /\ IsArr(value.obj["coordinates"])
       /\ Len(value.obj["coordinates"].arr) \in {2, 3}
       /\ \A i \in DOMAIN value.obj["coordinates"].arr :
            IsNum(value.obj["coordinates"].arr[i])

\* A half is never checked.
ScalarTypeOk(elem, value) ==
    CASE elem \in {"String", "DateTimeOffset", "Guid"} -> IsStr(value)
      [] elem = "GeographyPoint"                       -> IsGeographyPoint(value)
      [] elem \in {"Int32", "Int64"}                   -> IsInt(value)
      [] elem = "Int8"                                 -> IntIn(value, -128, 127)
      [] elem = "Int16"                                -> IntIn(value, -32768, 32767)
      [] elem \in {"Time", "Duration", "Binary"}       -> IsStr(value) /\ WellFormed(elem, value.str)
      [] elem \in {"Single", "Double"}                 -> IsNum(value)
      [] elem = "Boolean"                              -> IsBool(value)
      [] OTHER                                         -> TRUE

IsSingle(value) == IsNum(value) /\ AsF64(value) \in -2 * MaxSingle .. 2 * MaxSingle

CheckVectorValue(field, value) ==
    /\ IsArr(value)
    /\ Len(value.arr) = field.dimensions
    /\ \A i \in DOMAIN value.arr : IsSingle(value.arr[i])

\* Mutant of CheckComplexValue: only the names of subfields are checked.
CheckComplexNames(field, value) ==
    IsObj(value) /\ \A name \in DOMAIN value.obj : FieldNamed(field.subfields, name) # <<>>

CheckComplexValue(field, value) ==
    /\ IsObj(value)
    /\ \A name \in DOMAIN value.obj :
         LET found == FieldNamed(field.subfields, name)
         IN  found # <<>> /\ CheckFieldType(found[1], value.obj[name])

FieldTypeOk(field, value) ==
    CASE IsComplexType(field) /\ IsCollection(field) ->
            IsArr(value) /\ \A i \in DOMAIN value.arr : CheckComplexValue(field, value.arr[i])
      [] IsComplexType(field) /\ ~IsCollection(field) -> CheckComplexValue(field, value)
      [] IsVectorField(field) -> CheckVectorValue(field, value)
      [] ~IsComplexType(field) /\ ~IsVectorField(field) /\ IsCollection(field) ->
            IsArr(value) /\ \A i \in DOMAIN value.arr : ScalarTypeOk(field.type.elem, value.arr[i])
      [] OTHER -> ScalarTypeOk(field.type.elem, value)

-----------------------------------------------------------------------------
(* Vectors generated from text *)

\* A token adds or takes one in the place its hash selects.
AddToken(v, token) ==
    [v EXCEPT ![(token % Len(v)) + 1] = @ + IF (token \div Len(v)) % 2 = 0 THEN 1 ELSE -1]

\* Mutant of TextToVector: a component for each character, not for each dimension.
TextToVectorUnhashed(text, dimensions) ==
    [i \in DOMAIN text |-> IF text[i] % 2 = 0 THEN 1 ELSE -1]

\* The length of the vector, which nothing here depends on, is not normalised.
TextToVector(text, dimensions) ==
    FoldLeft(AddToken, [i \in 1..dimensions |-> 0], text)

SourceText(definition, vectorizer, fields) ==
    LET names == IF vectorizer.source # <<>> THEN vectorizer.source[1]
                 ELSE [i \in DOMAIN SearchableStringFields(definition) |->
                         SearchableStringFields(definition)[i].name]
    IN  Concat([i \in DOMAIN names |->
                  IF names[i] \in DOMAIN fields /\ IsStr(fields[names[i]])
                  THEN fields[names[i]].str ELSE <<>>])

Omitted(fields, name) == name \notin DOMAIN fields \/ IsNull(fields[name])

\* The vector generated for a field, as a set of at most one: none when the
\* document has one, and none when the text says nothing.
GeneratedVector(definition, field, fields) ==
    {Arr([i \in DOMAIN v |-> Num(v[i])]) : v \in
        {w \in {TextToVector(SourceText(definition, z, fields), field.dimensions) :
                    z \in {z \in ToSet(definition.vectorizers) :
                             z.name \in FieldVectorizer(definition, field)}} :
           /\ Omitted(fields, field.name)
           /\ \E i \in DOMAIN w : w[i] # 0}}

\* Sources are strings and targets are vectors, so the fields are generated
\* from the document as it was sent.
ApplyVectorizers(definition, fields) ==
    LET made  == {f \in VectorFields(definition) : GeneratedVector(definition, f, fields) # {}}
        names == {f.name : f \in made}
    IN  [name \in DOMAIN fields \cup names |->
           IF name \in names
           THEN CHOOSE v \in GeneratedVector(definition,
                               CHOOSE f \in made : f.name = name, fields) : TRUE
           ELSE fields[name]]

-----------------------------------------------------------------------------

\* A vector to be generated may be sent as null.
FieldAccepted(definition, name, value) ==
    LET found == FieldNamed(definition.fields, name) IN
    /\ found # <<>>
    /\ \/ /\ IsVectorField(found[1])
          /\ FieldVectorizer(definition, found[1]) # {}
          /\ IsNull(value)
       \/ FieldTypeOk(found[1], value)

DocumentAccepted(definition, fields) ==
    /\ KeyField(definition).name \in DOMAIN fields
    /\ KeyDisplay(fields[KeyField(definition).name]) # <<>>
    /\ \A name \in DOMAIN fields : FieldAccepted(definition, name, fields[name])

\* The document that is stored for an accepted one.
StoredDocument(definition, fields) ==
    [key    |-> KeyDisplay(fields[KeyField(definition).name])[1],
     fields |-> ApplyVectorizers(definition, fields)]

=============================================================================
