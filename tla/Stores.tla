------------------------------- MODULE Stores -------------------------------
(***************************************************************************)
(* The four in-memory stores of the emulator, as values and the operators  *)
(* that transform them.  Each operator is the body of one method that runs *)
(* under one acquisition of that store's RwLock, so it is one atomic step  *)
(* of the modules that use it.                                             *)
(*                                                                         *)
(*   storage : Names -> index entry (definition and documents) or NoIndex  *)
(*   engine  : Names -> the text indexed under each key         or NoIndex *)
(*   vectors : Names -> the vectors of the index's vector field or NoIndex *)
(*   alias   : Names -> the index the alias points to           or NoAlias *)
(*                                                                         *)
(* A document is reduced to its searchable text and its vector, the two    *)
(* parts the derived stores copy, and the subfields its complex field      *)
(* carries, the part of it that a compatible update may stop declaring.    *)
(* An index definition is reduced to the names of its other fields, the    *)
(* subfields of its complex field (none when it has no such field), the    *)
(* dimension of its vector field (0 when it has none) and whether that     *)
(* field has a vectorizer.  A malformed definition has a vectorSearch      *)
(* section that does not parse; validation reads the section only when     *)
(* there is a vector field, so it accepts one without.                     *)
(***************************************************************************)
EXTENDS Naturals

CONSTANTS
    Names,      \* index and alias names, one data-plane namespace
    Keys,       \* document keys
    Fields,     \* scalar fields a definition may declare
    Subfields,  \* subfields its complex field may declare
    Dims,       \* vector dimensions a definition may declare, 0 for no vector field
    Texts,      \* values of the searchable text
    Vecs,       \* vector values
    VecLen,     \* the length of each vector value
    Embedding,  \* the vector generated for a text, by dimension, Absent for a zero vector
    NoIndex,    \* the name has no entry in that store
    NoDoc,      \* the key has no entry
    NoAlias,    \* the name is not an alias
    Absent,     \* the document does not have this field
    Null        \* the document has its vector field, with the value null

Schemas == {s \in [fields : SUBSET Fields, subfields : SUBSET Subfields, dim : Dims,
                   vectorizer : BOOLEAN, malformed : BOOLEAN] :
              (s.malformed => s.dim = 0) /\ (s.vectorizer => s.dim # 0)}

Document == [text  : {Absent} \cup Texts,
             vec   : {Absent, Null} \cup Vecs,
             parts : {Absent} \cup (SUBSET Subfields \ {{}})]

ASSUME DimsAssumption == Dims \subseteq Nat
ASSUME VecLenAssumption == VecLen \in [Vecs -> Nat \ {0}]
ASSUME AbsentAssumption == /\ Absent \notin Texts /\ Absent \notin Vecs
                           /\ \A parts \in SUBSET Subfields : Absent # parts
ASSUME NullAssumption == Null \notin {Absent} \cup Vecs
ASSUME EmbeddingAssumption ==
    /\ Embedding \in [Texts -> [Dims -> {Absent} \cup Vecs]]
    /\ \A text \in Texts, n \in Dims :
         Embedding[text][n] # Absent => VecLen[Embedding[text][n]] = n
ASSUME NoDocAssumption == /\ NoDoc \notin Document
                          /\ NoDoc \notin Texts \cup {Absent}
                          /\ NoDoc \notin Vecs
ASSUME NoAliasAssumption == NoAlias \notin Names

DocMap == [Keys -> Document \cup {NoDoc}]
NoDocs == [k \in Keys |-> NoDoc]

IndexEntry  == [schema : Schemas, docs : DocMap]
EngineIndex == [Keys -> Texts \cup {Absent, NoDoc}]
VectorIndex == [dim : Nat, vecs : [Keys -> Vecs \cup {NoDoc}]]

ASSUME NoIndexAssumption == /\ NoIndex \notin IndexEntry
                            /\ NoIndex \notin EngineIndex
                            /\ NoIndex \notin VectorIndex

Storage == [Names -> IndexEntry \cup {NoIndex}]
Engine  == [Names -> EngineIndex \cup {NoIndex}]
Vectors == [Names -> VectorIndex \cup {NoIndex}]
Aliases == [Names -> Names \cup {NoAlias}]

-----------------------------------------------------------------------------
(* InMemoryStorage *)

\* create_index and upsert_index both install an entry without documents;
\* only create_index first checks that the name is free.
StorageInsert(st, n, s) == [st EXCEPT ![n] = [schema |-> s, docs |-> NoDocs]]

StorageDeleteIndex(st, n) == [st EXCEPT ![n] = NoIndex]

\* The documents of a map, NoDoc for the keys it leaves alone.
StoragePutDocuments(st, n, docs) ==
    [st EXCEPT ![n].docs =
        [k \in Keys |-> IF docs[k] # NoDoc THEN docs[k] ELSE st[n].docs[k]]]

StorageDeleteDocuments(st, n, ks) ==
    [st EXCEPT ![n].docs = [k \in Keys |-> IF k \in ks THEN NoDoc ELSE st[n].docs[k]]]

-----------------------------------------------------------------------------
(* SearchEngine *)

EngineCreateIndex(en, n) == [en EXCEPT ![n] = NoDocs]

EngineDeleteIndex(en, n) == [en EXCEPT ![n] = NoIndex]

\* Each document replaces the one indexed under its key.  Commit and reload
\* happen under the same lock, so the change is searchable at once.
EngineIndexDocuments(en, n, docs) ==
    [en EXCEPT ![n] =
        [k \in Keys |-> IF docs[k] # NoDoc THEN docs[k].text ELSE en[n][k]]]

EngineDeleteDocuments(en, n, ks) ==
    [en EXCEPT ![n] = [k \in Keys |-> IF k \in ks THEN NoDoc ELSE en[n][k]]]

\* Keys of the index whose text matches; Absent stands for match-all.
EngineMatches(en, n, text) ==
    {k \in Keys : en[n][k] # NoDoc /\ (text = Absent \/ en[n][k] = text)}

-----------------------------------------------------------------------------
(* VectorEngine *)

\* The vector field holds a vector: the store takes nothing else.
HasVector(d) == d.vec \in Vecs

\* Installs (or replaces) the index (SearchService::create_vector_indexes).
\* Without a vector field the store is left alone; the entry without fields
\* that a vectorSearch section then leaves is, to every reader, no entry.
VectorsCreateIndex(ve, n, s) ==
    IF s.dim = 0
    THEN ve
    ELSE [ve EXCEPT ![n] = [dim |-> s.dim, vecs |-> NoDocs]]

VectorsDeleteIndex(ve, n) == [ve EXCEPT ![n] = NoIndex]

\* delete_documents and remove_entries: unknown indexes and keys are ignored.
VectorsRemove(ve, n, ks) ==
    IF ve[n] = NoIndex
    THEN ve
    ELSE [ve EXCEPT ![n].vecs = [k \in Keys |-> IF k \in ks THEN NoDoc ELSE ve[n].vecs[k]]]

\* Mutant of VectorsAccept: lengths are not checked.
VectorsAcceptAnything(ve, n, docs) == TRUE

\* upsert_many refuses the whole batch when one vector has the wrong length.
VectorsAccept(ve, n, docs) ==
    ve[n] # NoIndex =>
        \A k \in Keys : docs[k] # NoDoc /\ HasVector(docs[k])
                         => VecLen[docs[k].vec] = ve[n].dim

VectorsUpsert(ve, n, docs) ==
    IF ve[n] = NoIndex \/ ~VectorsAccept(ve, n, docs)
    THEN ve
    ELSE [ve EXCEPT ![n].vecs =
            [k \in Keys |-> IF docs[k] # NoDoc /\ HasVector(docs[k])
                            THEN docs[k].vec
                            ELSE ve[n].vecs[k]]]

\* search with k at least the number of vectors: every indexed key is a hit.
VectorHits(ve, n) ==
    IF ve[n] = NoIndex THEN {} ELSE {k \in Keys : ve[n].vecs[k] # NoDoc}

-----------------------------------------------------------------------------
(* Schemas and aliases *)

\* What the derived stores should hold for a stored document.
TextOf(d)   == IF d = NoDoc THEN NoDoc ELSE d.text
VectorOf(d) == IF d # NoDoc /\ HasVector(d) THEN d.vec ELSE NoDoc

\* schema_compatible: every old field is kept, with its type and dimensions.
\* It does not look into a complex field, nor at vectorizers.
SchemaCompatible(old, new) ==
    /\ old.fields \subseteq new.fields
    /\ old.subfields # {} => new.subfields # {}
    /\ old.dim # 0 => new.dim = old.dim

\* validate_document, for the fields a document may get wrong: a vector has
\* the declared length, null stands only where a vectorizer may fill it in,
\* and every subfield is declared.
ValidDocument(s, d) ==
    /\ HasVector(d) => s.dim # 0 /\ VecLen[d.vec] = s.dim
    /\ d.vec = Null => s.vectorizer
    /\ d.parts # Absent => d.parts \subseteq s.subfields

\* The text yields a vector of the given length.
Embeds(text, n) == text # Absent /\ Embedding[text][n] # Absent

\* Mutant of Generated: a null vector counts as given.
GeneratedWhenAbsent(s, d) ==
    IF s.vectorizer /\ d.vec = Absent /\ Embeds(d.text, s.dim)
    THEN [d EXCEPT !.vec = Embedding[d.text][s.dim]] ELSE d

\* apply_vectorizer_generation: a vector that is absent or null is filled in
\* from the text, if that yields one.
Generated(s, d) ==
    IF s.vectorizer /\ ~HasVector(d) /\ Embeds(d.text, s.dim)
    THEN [d EXCEPT !.vec = Embedding[d.text][s.dim]] ELSE d

\* Mutant of Resolve: a name that is no alias is not kept.
ResolveAliasOnly(al, n) == al[n]

\* resolve_index_name: one level, an unknown name resolves to itself.
Resolve(al, n) == IF al[n] = NoAlias THEN n ELSE al[n]

=============================================================================
