----------------------------- MODULE IndexSchema -----------------------------
(***************************************************************************)
(* Field types, field definitions and index definitions, as storage parses *)
(* and keeps them.  A field is a record                                    *)
(*                                                                         *)
(*   [name, type, key, searchable, filterable, sortable, facetable,        *)
(*    retrievable, stored, dimensions, profile, vectorizer, subfields]     *)
(*                                                                         *)
(* where dimensions is NoDimensions when the property is absent and 0 when *)
(* it is there but not a positive integer, and profile and vectorizer are  *)
(* NoRef when absent.  A definition is a record                            *)
(*                                                                         *)
(*   [fields, suggesters, algorithms, profiles, vectorizers]               *)
(*                                                                         *)
(* of sequences; the last three are the entries of vectorSearch and of     *)
(* vectorizers, empty when the body has none.                              *)
(***************************************************************************)
EXTENDS JsonValues

NoDimensions == -1
NoRef        == "" \* an empty name counts as absent wherever one is read

-----------------------------------------------------------------------------

Scalars ==
    {"String", "Int32", "Int64", "Int8", "Int16", "Single", "Double", "Half",
     "Boolean", "DateTimeOffset", "Time", "Duration", "Binary", "Guid",
     "GeographyPoint", "ComplexType", "Unknown"}

\* The element types that have a collection of their own; any other spelling
\* of a collection is an unknown type.
CollectionElements ==
    {"String", "Int32", "Int64", "Single", "Double", "Half", "Boolean",
     "DateTimeOffset", "Guid", "Int8", "Int16", "Binary", "ComplexType"}

FieldTypes ==
    [elem : Scalars, collection : {FALSE}]
        \cup [elem : CollectionElements, collection : {TRUE}]

Scalar(elem) == [elem |-> elem, collection |-> FALSE]

\* The type a declared spelling stands for: an SDK or REST spelling of an
\* element, alone or inside Collection(...) with or without its prefix.
FromSpelling(elem, collection) ==
    LET canonical == IF elem = "SByte" THEN "Int8" ELSE elem
        known     == IF collection THEN CollectionElements ELSE Scalars
    IN  IF canonical \in known
        THEN [elem |-> canonical, collection |-> collection]
        ELSE Scalar("Unknown")

IsCollection(field)  == field.type.collection
IsComplexType(field) == field.type.elem = "ComplexType"

\* Only eq and ne: a collection of durations does not exist.
IsEqualityOnly(type) ==
    type \in {Scalar("Duration"), Scalar("Binary"),
              [elem |-> "Binary", collection |-> TRUE]}

IsVectorFieldType(type) == type.collection /\ type.elem \in {"Single", "Half"}

HasDimensionsProperty(field) == field.dimensions # NoDimensions

IsVectorField(field) ==
    /\ IsVectorFieldType(field.type)
    /\ field.dimensions \notin {NoDimensions, 0}

-----------------------------------------------------------------------------

\* The first field of that name, as a sequence of at most one.
FieldNamed(fields, name) ==
    LET at == SelectInSeq(fields, LAMBDA f : f.name = name)
    IN  IF at = 0 THEN <<>> ELSE <<fields[at]>>

Subfield(found, name) ==
    IF found = <<>> THEN <<>> ELSE FieldNamed(found[1].subfields, name)

\* The field at the end of a path, as a sequence of at most one.
FieldPath(definition, path) ==
    FoldLeft(Subfield, FieldNamed(definition.fields, Head(path)), Tail(path))

KeyFields(definition) == SelectSeq(definition.fields, LAMBDA f : f.key)
KeyField(definition)  == Head(KeyFields(definition))

IsSearchableString(field) == field.searchable /\ field.type = Scalar("String")

\* The searchable string fields, in schema order.
SearchableStringFields(definition) == SelectSeq(definition.fields, IsSearchableString)

=============================================================================
