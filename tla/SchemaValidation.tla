--------------------------- MODULE SchemaValidation ---------------------------
(***************************************************************************)
(* What an index definition must satisfy before it is stored               *)
(* (validate_schema and what it calls), and the vector indexes that are    *)
(* then built from it.  Every failed check is a 400 that stores nothing,   *)
(* so a check is a predicate.                                              *)
(***************************************************************************)
EXTENDS IndexSchema, FiniteSets

CONSTANTS
    MaxDimension,    \* the configured limit of a vector's length
    MaxVectorFields, \* MAX_VECTOR_FIELDS
    MaxDepth         \* bound on the names of a path to a field

ASSUME LimitsAssumption == MaxDimension \in Nat /\ MaxVectorFields \in Nat /\ MaxDepth \in Nat

\* Half is accepted as the element of a vector only.
SupportedType(type) ==
    IF type.collection
    THEN type.elem \in CollectionElements \ {"ComplexType"}
    ELSE type.elem \in Scalars \ {"Half", "ComplexType", "Unknown"}

NamesDiffer(seq) == \A i, j \in DOMAIN seq : seq[i].name = seq[j].name => i = j

-----------------------------------------------------------------------------
(* Fields *)

AttemptsVector(field) == HasDimensionsProperty(field) \/ field.profile # NoRef

\* Only a vector field may carry dimensions or a profile, and then it must be
\* a whole vector field.
ValidVectorField(field) ==
    AttemptsVector(field) =>
        /\ IsVectorFieldType(field.type)
        /\ field.dimensions \in 1..MaxDimension
        /\ field.profile # NoRef
        /\ field.searchable
        /\ ~field.key
        /\ ~field.filterable /\ ~field.sortable /\ ~field.facetable

PlainAttributes(field) == ~field.searchable /\ ~field.sortable /\ ~field.facetable

SortableIfOrdered(field) == field.sortable => ~IsEqualityOnly(field.type)

\* The lists of subfields at and below a complex field.
ListsBelow(field) ==
    LET level[n \in 1..MaxDepth] ==
          IF n = 1 THEN {field.subfields}
          ELSE {f.subfields : f \in {g \in UNION {ToSet(list) : list \in level[n - 1]} : IsComplexType(g)}}
    IN  UNION {level[n] : n \in 1..MaxDepth}

ValidSubfields(subfields) ==
    /\ NamesDiffer(subfields)
    /\ \A f \in ToSet(subfields) :
         /\ ~f.key
         /\ ~AttemptsVector(f)
         /\ IF IsComplexType(f)
            THEN PlainAttributes(f) /\ f.subfields # <<>>
            ELSE SupportedType(f.type) /\ SortableIfOrdered(f)

ValidField(field) ==
    /\ ValidVectorField(field)
    /\ IF IsComplexType(field)
       THEN /\ ~field.key
            /\ PlainAttributes(field)
            /\ field.subfields # <<>>
            /\ \A list \in ListsBelow(field) : ValidSubfields(list)
       ELSE SupportedType(field.type)
    /\ SortableIfOrdered(field)

-----------------------------------------------------------------------------
(* Suggesters, vectorSearch and vectorizers *)

ValidSuggesters(definition) ==
    /\ NamesDiffer(definition.suggesters)
    /\ \A i \in DOMAIN definition.suggesters :
         LET paths == definition.suggesters[i].fields IN
         /\ paths # <<>>
         /\ \A j \in DOMAIN paths :
              LET found == FieldPath(definition, paths[j])
              IN  found # <<>> /\ found[1].searchable

ProfileNamed(definition, name) ==
    {p \in ToSet(definition.profiles) : p.name = name}

HasAlgorithm(definition, name) ==
    \E i \in DOMAIN definition.algorithms : definition.algorithms[i].name = name

\* More than 256 connections would end the process in the graph library, so
\* they are refused here.
ValidHnswParams(algorithm) ==
    algorithm.m \in 1..256 /\ algorithm.efConstruction > 0 /\ algorithm.efSearch > 0

ValidAlgorithm(algorithm) ==
    /\ algorithm.kind \in {"hnsw", "exhaustiveKnn"}
    /\ algorithm.metric \in {"cosine", "dotProduct", "euclidean"}
    /\ algorithm.kind = "hnsw" => ValidHnswParams(algorithm)

ParsesVectorSearch(definition) ==
    /\ \A i \in DOMAIN definition.algorithms : ValidAlgorithm(definition.algorithms[i])
    /\ NamesDiffer(definition.algorithms)
    /\ \A i \in DOMAIN definition.profiles :
         HasAlgorithm(definition, definition.profiles[i].algorithm)
    /\ NamesDiffer(definition.profiles)

VectorFields(definition) == {f \in ToSet(definition.fields) : IsVectorField(f)}

\* Mutant of ValidVectorSearch: a profile need only be named, not be complete.
ValidVectorSearchByName(definition) ==
    /\ Cardinality(VectorFields(definition)) <= MaxVectorFields
    /\ \A f \in VectorFields(definition) : ProfileNamed(definition, f.profile) # {}

\* Without a vector field the section is not looked at.
ValidVectorSearch(definition) ==
    /\ Cardinality(VectorFields(definition)) <= MaxVectorFields
    /\ VectorFields(definition) # {} =>
         /\ definition.profiles # <<>>
         /\ ParsesVectorSearch(definition)
         /\ \A f \in VectorFields(definition) : ProfileNamed(definition, f.profile) # {}

ParsesVectorizers(definition) ==
    /\ NamesDiffer(definition.vectorizers)
    /\ \A v \in ToSet(definition.vectorizers) :
         /\ v.kind \in {"uri", "customWebApi", "azureOpenAI", "aml"}
         /\ v.kind \in {"uri", "customWebApi"} => v.hasUri

HasVectorizer(definition, name) ==
    \E i \in DOMAIN definition.vectorizers : definition.vectorizers[i].name = name

\* Mutant of ValidVectorizers: the vectorizers that profiles name are not checked.
ValidVectorizersOfFields(definition) ==
    /\ ParsesVectorizers(definition)
    /\ \A f \in ToSet(definition.fields) :
         f.vectorizer # NoRef => HasVectorizer(definition, f.vectorizer)

\* A vectorizer's source is <<>> without a sourceContext, else <<names>>.
ValidVectorizers(definition) ==
    /\ ParsesVectorizers(definition)
    /\ \A v \in ToSet(definition.vectorizers) : \A i \in DOMAIN v.source :
         \A j \in DOMAIN v.source[i] :
           \E f \in ToSet(definition.fields) : f.name = v.source[i][j] /\ IsSearchableString(f)
    /\ \A f \in ToSet(definition.fields) :
         f.vectorizer # NoRef => HasVectorizer(definition, f.vectorizer)
    /\ ParsesVectorSearch(definition) =>
         \A p \in ToSet(definition.profiles) :
           p.vectorizer # NoRef => HasVectorizer(definition, p.vectorizer)

ValidSchema(definition) ==
    /\ \A i \in DOMAIN definition.fields : ValidField(definition.fields[i])
    /\ NamesDiffer(definition.fields)
    /\ Len(KeyFields(definition)) = 1
    /\ ValidSuggesters(definition)
    /\ ValidVectorSearch(definition)
    /\ ValidVectorizers(definition)

-----------------------------------------------------------------------------

\* What the vector engine asks of the fields it is given.
VectorIndexesCreated(definition) ==
    /\ Cardinality(VectorFields(definition)) <= MaxVectorFields
    /\ ParsesVectorSearch(definition)
    /\ \A f \in VectorFields(definition) :
         /\ f.dimensions > 0
         /\ \E p \in ToSet(definition.profiles) :
              /\ p.name = f.profile
              /\ HasAlgorithm(definition, p.algorithm)

\* The vectorizer of a field, as a set of at most one name: the field's own
\* before its profile's.
FieldVectorizer(definition, field) ==
    IF field.vectorizer # NoRef THEN {field.vectorizer}
    ELSE {p.vectorizer : p \in
            {q \in ProfileNamed(definition, field.profile) : q.vectorizer # NoRef}}

=============================================================================
