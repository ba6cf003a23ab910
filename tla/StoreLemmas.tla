---------------------------- MODULE StoreLemmas ----------------------------
(***************************************************************************)
(* What the operators of Stores and DocumentBatch return: each store       *)
(* operation stays within the type of its store, and a batch stays a batch.*)
(***************************************************************************)
EXTENDS DocumentBatch, TLAPS

-----------------------------------------------------------------------------
(* The store operators stay within the store types. *)

\* The empty map of documents is a map of documents, of texts and of vectors.
LEMMA NoDocsTyped ==
    /\ NoDocs \in DocMap
    /\ NoDocs \in EngineIndex
    /\ NoDocs \in [Keys -> Vecs \cup {NoDoc}]
BY DEF NoDocs, DocMap, EngineIndex

\* InMemoryStorage keeps definitions with documents.
LEMMA StorageTyped ==
    ASSUME NEW st \in Storage, NEW n \in Names
    PROVE  /\ \A s \in Schemas : StorageInsert(st, n, s) \in Storage
           /\ StorageDeleteIndex(st, n) \in Storage
           /\ st[n] # NoIndex =>
                /\ \A docs \in DocMap : StoragePutDocuments(st, n, docs) \in Storage
                /\ \A ks : StorageDeleteDocuments(st, n, ks) \in Storage
<1>1. \A s \in Schemas : StorageInsert(st, n, s) \in Storage
  BY NoDocsTyped DEF StorageInsert, Storage, IndexEntry
<1>2. StorageDeleteIndex(st, n) \in Storage
  BY DEF StorageDeleteIndex, Storage
<1>3. ASSUME st[n] # NoIndex
      PROVE  /\ \A docs \in DocMap : StoragePutDocuments(st, n, docs) \in Storage
             /\ \A ks : StorageDeleteDocuments(st, n, ks) \in Storage
  <2>1. st[n] \in IndexEntry /\ st[n].docs \in DocMap
    BY <1>3 DEF Storage, IndexEntry
  <2>2. \A d \in DocMap : [st[n] EXCEPT !.docs = d] \in IndexEntry
    BY <2>1 DEF IndexEntry
  <2>3. ASSUME NEW docs \in DocMap
        PROVE  StoragePutDocuments(st, n, docs) \in Storage
    <3>1. [k \in Keys |-> IF docs[k] # NoDoc THEN docs[k] ELSE st[n].docs[k]] \in DocMap
      BY <2>1 DEF DocMap
    <3>2. QED
      BY <2>2, <3>1 DEF StoragePutDocuments, Storage
  <2>4. ASSUME NEW ks
        PROVE  StorageDeleteDocuments(st, n, ks) \in Storage
    <3>1. [k \in Keys |-> IF k \in ks THEN NoDoc ELSE st[n].docs[k]] \in DocMap
      BY <2>1 DEF DocMap
    <3>2. QED
      BY <2>2, <3>1 DEF StorageDeleteDocuments, Storage
  <2>5. QED
    BY <2>3, <2>4
<1>4. QED
  BY <1>1, <1>2, <1>3

\* SearchEngine keeps texts.
LEMMA EngineTyped ==
    ASSUME NEW en \in Engine, NEW n \in Names
    PROVE  /\ EngineCreateIndex(en, n) \in Engine
           /\ EngineDeleteIndex(en, n) \in Engine
           /\ en[n] # NoIndex =>
                /\ \A docs \in DocMap : EngineIndexDocuments(en, n, docs) \in Engine
                /\ \A ks : EngineDeleteDocuments(en, n, ks) \in Engine
<1>1. EngineCreateIndex(en, n) \in Engine /\ EngineDeleteIndex(en, n) \in Engine
  BY NoDocsTyped DEF EngineCreateIndex, EngineDeleteIndex, Engine
<1>2. ASSUME en[n] # NoIndex
      PROVE  /\ \A docs \in DocMap : EngineIndexDocuments(en, n, docs) \in Engine
             /\ \A ks : EngineDeleteDocuments(en, n, ks) \in Engine
  <2>1. en[n] \in EngineIndex
    BY <1>2 DEF Engine
  <2>2. ASSUME NEW docs \in DocMap
        PROVE  EngineIndexDocuments(en, n, docs) \in Engine
    <3>1. \A k \in Keys : docs[k] # NoDoc => docs[k].text \in Texts \cup {Absent}
      BY DEF DocMap, Document
    <3>2. [k \in Keys |-> IF docs[k] # NoDoc THEN docs[k].text ELSE en[n][k]] \in EngineIndex
      BY <2>1, <3>1 DEF EngineIndex
    <3>3. QED
      BY <3>2 DEF EngineIndexDocuments, Engine
  <2>3. ASSUME NEW ks
        PROVE  EngineDeleteDocuments(en, n, ks) \in Engine
    <3>1. [k \in Keys |-> IF k \in ks THEN NoDoc ELSE en[n][k]] \in EngineIndex
      BY <2>1 DEF EngineIndex
    <3>2. QED
      BY <3>1 DEF EngineDeleteDocuments, Engine
  <2>4. QED
    BY <2>2, <2>3
<1>3. QED
  BY <1>1, <1>2

-----------------------------------------------------------------------------
(* The vector store also keeps every vector as long as its index declares. *)

\* A vector index that holds vectors of its own dimension only.
Fitting(ix) == \A k \in Keys : ix.vecs[k] # NoDoc => VecLen[ix.vecs[k]] = ix.dim

LengthsFit(ve) == \A n \in Names : ve[n] # NoIndex => Fitting(ve[n])

\* The stores after a reset.
LEMMA EmptyStoresTyped ==
    /\ [n \in Names |-> NoIndex] \in Storage
    /\ [n \in Names |-> NoIndex] \in Engine
    /\ [n \in Names |-> NoIndex] \in Vectors /\ LengthsFit([n \in Names |-> NoIndex])
    /\ [n \in Names |-> NoAlias] \in Aliases
BY DEF Storage, Engine, Vectors, Aliases, LengthsFit

\* An alias points to a name or is gone.
LEMMA AliasTyped ==
    ASSUME NEW al \in Aliases, NEW n \in Names, NEW m \in Names \cup {NoAlias}
    PROVE  [al EXCEPT ![n] = m] \in Aliases
BY DEF Aliases

\* Replacing one entry of the store by a typed and fitting one.
LEMMA VectorsReplace ==
    ASSUME NEW ve \in Vectors, LengthsFit(ve), NEW n \in Names,
           NEW ix \in VectorIndex \cup {NoIndex}, ix # NoIndex => Fitting(ix)
    PROVE  [ve EXCEPT ![n] = ix] \in Vectors /\ LengthsFit([ve EXCEPT ![n] = ix])
BY DEF Vectors, LengthsFit

\* A new vector index is empty.
LEMMA VectorsCreateTyped ==
    ASSUME NEW ve \in Vectors, LengthsFit(ve), NEW n \in Names, NEW s \in Schemas
    PROVE  VectorsCreateIndex(ve, n, s) \in Vectors /\ LengthsFit(VectorsCreateIndex(ve, n, s))
<1> DEFINE ix == [dim |-> s.dim, vecs |-> NoDocs]
<1>1. ix \in VectorIndex
  BY NoDocsTyped, DimsAssumption DEF VectorIndex, Schemas
<1>2. Fitting(ix)
  BY DEF Fitting, NoDocs
<1>3. QED
  BY <1>1, <1>2, VectorsReplace DEF VectorsCreateIndex

\* A deleted vector index is gone.
LEMMA VectorsDeleteTyped ==
    ASSUME NEW ve \in Vectors, LengthsFit(ve), NEW n \in Names
    PROVE  VectorsDeleteIndex(ve, n) \in Vectors /\ LengthsFit(VectorsDeleteIndex(ve, n))
BY VectorsReplace DEF VectorsDeleteIndex

\* Removing keys.
LEMMA VectorsRemoveTyped ==
    ASSUME NEW ve \in Vectors, LengthsFit(ve), NEW n \in Names, NEW ks
    PROVE  VectorsRemove(ve, n, ks) \in Vectors /\ LengthsFit(VectorsRemove(ve, n, ks))
<1>1. CASE ve[n] = NoIndex
  BY <1>1 DEF VectorsRemove
<1>2. CASE ve[n] # NoIndex
  <2> DEFINE kept == [k \in Keys |-> IF k \in ks THEN NoDoc ELSE ve[n].vecs[k]]
             ix == [ve[n] EXCEPT !.vecs = kept]
  <2>1. ve[n] \in VectorIndex /\ Fitting(ve[n])
    BY <1>2 DEF Vectors, LengthsFit
  <2>2. kept \in [Keys -> Vecs \cup {NoDoc}]
    BY <2>1 DEF VectorIndex
  <2>3. ix \in VectorIndex /\ ix.dim = ve[n].dim /\ ix.vecs = kept
    BY <2>1, <2>2 DEF VectorIndex
  <2>4. Fitting(ix)
    BY <2>1, <2>3 DEF Fitting
  <2>5. VectorsRemove(ve, n, ks) = [ve EXCEPT ![n] = ix]
    BY <1>2 DEF VectorsRemove
  <2>6. ix # NoIndex /\ ix \in VectorIndex \cup {NoIndex}
    BY <2>3, NoIndexAssumption
  <2> HIDE DEF ix
  <2>7. [ve EXCEPT ![n] = ix] \in Vectors /\ LengthsFit([ve EXCEPT ![n] = ix])
    BY <2>4, <2>6, VectorsReplace
  <2>8. QED
    BY <2>5, <2>7
<1>3. QED
  BY <1>1, <1>2

\* upsert_many checks every length before it stores anything.
LEMMA VectorsUpsertTyped ==
    ASSUME NEW ve \in Vectors, LengthsFit(ve), NEW n \in Names, NEW docs \in DocMap
    PROVE  VectorsUpsert(ve, n, docs) \in Vectors /\ LengthsFit(VectorsUpsert(ve, n, docs))
<1>1. CASE ve[n] = NoIndex \/ ~VectorsAccept(ve, n, docs)
  BY <1>1 DEF VectorsUpsert
<1>2. CASE ve[n] # NoIndex /\ VectorsAccept(ve, n, docs)
  <2> DEFINE new == [k \in Keys |-> IF docs[k] # NoDoc /\ HasVector(docs[k])
                                    THEN docs[k].vec ELSE ve[n].vecs[k]]
             ix == [ve[n] EXCEPT !.vecs = new]
  <2>1. ve[n] \in VectorIndex /\ Fitting(ve[n])
    BY <1>2 DEF Vectors, LengthsFit
  <2>2. \A k \in Keys : docs[k] # NoDoc /\ HasVector(docs[k])
                          => docs[k].vec \in Vecs /\ VecLen[docs[k].vec] = ve[n].dim
    BY <1>2 DEF HasVector, VectorsAccept
  <2>3. new \in [Keys -> Vecs \cup {NoDoc}]
    BY <2>1, <2>2 DEF VectorIndex
  <2>4. ix \in VectorIndex /\ ix.dim = ve[n].dim /\ ix.vecs = new
    BY <2>1, <2>3 DEF VectorIndex
  <2>5. Fitting(ix)
    BY <2>1, <2>2, <2>4 DEF Fitting
  <2>6. VectorsUpsert(ve, n, docs) = [ve EXCEPT ![n] = ix]
    BY <1>2 DEF VectorsUpsert
  <2>7. ix # NoIndex /\ ix \in VectorIndex \cup {NoIndex}
    BY <2>4, NoIndexAssumption
  <2> HIDE DEF ix
  <2>8. [ve EXCEPT ![n] = ix] \in Vectors /\ LengthsFit([ve EXCEPT ![n] = ix])
    BY <2>5, <2>7, VectorsReplace
  <2>9. QED
    BY <2>6, <2>8
<1>3. QED
  BY <1>1, <1>2

-----------------------------------------------------------------------------
(* The batch *)

\* Appending a result.
LEMMA RespondTyped ==
    ASSUME NEW b \in Batch, NEW k \in Keys, NEW status \in Statuses
    PROVE  Respond(b, k, status) \in Batch
<1> DEFINE r == [key |-> k, status |-> status]
<1>1. r \in Result /\ b.results \in Seq(Result)
  BY DEF Batch, Result
<1>2. Append(b.results, r) \in Seq(Result)
  BY <1>1
<1>3. Respond(b, k, status) = [b EXCEPT !.results = Append(b.results, r)]
  BY DEF Respond
<1>4. QED
  BY <1>2, <1>3 DEF Batch

\* A delete or an upsert recorded in the batch.
LEMMA RecordTyped ==
    ASSUME NEW b \in Batch, NEW k \in Keys
    PROVE  /\ \A d \in Document : RecordUpsert(b, k, d) \in Batch
           /\ RecordDelete(b, k) \in Batch
BY DEF RecordUpsert, RecordDelete, Batch, DocMap

\* apply_vectorizer_generation changes nothing but a vector that is absent or
\* null, keeps the document valid, and leaves null only without a text to
\* embed.
LEMMA GeneratedValid ==
    ASSUME NEW s \in Schemas, NEW d \in Document, ValidDocument(s, d)
    PROVE  LET g == Generated(s, d)
           IN  /\ g \in Document /\ ValidDocument(s, g)
               /\ g.text = d.text /\ g.parts = d.parts
               /\ HasVector(d) => g = d
               /\ g.vec = Null =>
                    /\ d.vec = Null
                    /\ s.vectorizer /\ s.dim \in Dims \ {0} /\ ~Embeds(d.text, s.dim)
               /\ g.vec # d.vec =>
                    /\ HasVector(g) /\ Embeds(d.text, s.dim)
                    /\ g.vec = Embedding[d.text][s.dim]
<1> DEFINE g == Generated(s, d)
           v == Embedding[d.text][s.dim]
<1>1. s.dim \in Dims /\ (s.vectorizer => s.dim # 0)
  BY DEF Schemas
<1>2. /\ d.text \in {Absent} \cup Texts /\ d.vec \in {Absent, Null} \cup Vecs
      /\ d.parts \in {Absent} \cup (SUBSET Subfields \ {{}})
  BY DEF Document
<1>3. CASE s.vectorizer /\ ~HasVector(d) /\ Embeds(d.text, s.dim)
  <2>1. v \in Vecs /\ VecLen[v] = s.dim
    BY <1>1, <1>2, <1>3, EmbeddingAssumption DEF Embeds
  <2>2. g = [d EXCEPT !.vec = v]
    BY <1>3 DEF Generated
  <2> HIDE DEF g, v
  <2>3. /\ g \in Document /\ g.vec = v /\ g.text = d.text /\ g.parts = d.parts
    BY <1>2, <2>1, <2>2 DEF Document
  <2>4. g.vec # Null /\ HasVector(g)
    BY <2>1, <2>3, NullAssumption DEF HasVector
  <2>5. ValidDocument(s, g)
    BY <1>1, <1>3, <2>1, <2>3, <2>4 DEF ValidDocument
  <2>6. QED
    BY <1>3, <2>3, <2>4, <2>5 DEF g, v
<1>4. CASE ~(s.vectorizer /\ ~HasVector(d) /\ Embeds(d.text, s.dim))
  <2>1. g = d
    BY <1>4 DEF Generated
  <2>2. d.vec = Null => s.vectorizer /\ ~HasVector(d)
    BY NullAssumption DEF ValidDocument, HasVector
  <2> HIDE DEF g
  <2>3. QED
    BY <1>1, <1>4, <2>1, <2>2 DEF g
<1>5. QED
  BY <1>3, <1>4

\* One action of a batch leaves a batch.
LEMMA ApplyActionTyped ==
    ASSUME NEW s \in Schemas, NEW stored \in DocMap, NEW b \in Batch, NEW a \in Action
    PROVE  ApplyAction(s, stored, b, a) \in Batch
<1>0. /\ a.key \in Keys /\ a.doc \in Document
      /\ a.kind \in {"upload", "merge", "mergeOrUpload", "delete"}
      /\ {200, 201, 400, 404} \subseteq Statuses
  BY DEF Action, Kinds, Statuses
<1>1. ASSUME NEW d \in Document, NEW status \in Statuses
      PROVE  UpsertIfValid(s, b, a.key, d, status) \in Batch
  BY <1>0, RespondTyped, RecordTyped, GeneratedValid DEF UpsertIfValid
<1>2. ApplyUpload(s, b, a) \in Batch
  BY <1>0, <1>1 DEF ApplyUpload
<1>3. ApplyMerge(s, stored, b, a) \in Batch
  <2>1. MergeTarget(stored, b, a.key) # NoDoc => MergeTarget(stored, b, a.key) \in Document
    BY <1>0 DEF MergeTarget, Batch, DocMap
  <2>2. \A d \in Document : MergeFields(d, a.doc) \in Document
    BY <1>0 DEF MergeFields, Document
  <2>3. QED
    BY <1>0, <1>1, <1>2, <2>1, <2>2, RespondTyped DEF ApplyMerge
<1>4. ApplyDelete(stored, b, a) \in Batch
  BY <1>0, RespondTyped, RecordTyped DEF ApplyDelete
<1>5. QED
  BY <1>0, <1>2, <1>3, <1>4 DEF ApplyAction

-----------------------------------------------------------------------------
(* What the store operators leave under each name and key *)

\* InMemoryStorage: one entry changes.
LEMMA StorageEffects ==
    ASSUME NEW st \in Storage, NEW n \in Names
    PROVE  /\ \A s \in Schemas :
                LET st2 == StorageInsert(st, n, s)
                IN  /\ st2[n] # NoIndex /\ st2[n].schema = s /\ st2[n].docs = NoDocs
                    /\ \A m \in Names : m # n => st2[m] = st[m]
           /\ LET st2 == StorageDeleteIndex(st, n)
              IN  st2[n] = NoIndex /\ \A m \in Names : m # n => st2[m] = st[m]
           /\ st[n] # NoIndex =>
                /\ \A docs \in DocMap :
                     LET st2 == StoragePutDocuments(st, n, docs)
                     IN  /\ st2[n] # NoIndex /\ st2[n].schema = st[n].schema
                         /\ \A k \in Keys : st2[n].docs[k] =
                              IF docs[k] # NoDoc THEN docs[k] ELSE st[n].docs[k]
                         /\ \A m \in Names : m # n => st2[m] = st[m]
                /\ \A ks :
                     LET st2 == StorageDeleteDocuments(st, n, ks)
                     IN  /\ st2[n] # NoIndex /\ st2[n].schema = st[n].schema
                         /\ \A k \in Keys : st2[n].docs[k] =
                              IF k \in ks THEN NoDoc ELSE st[n].docs[k]
                         /\ \A m \in Names : m # n => st2[m] = st[m]
<1>1. ASSUME NEW s \in Schemas
      PROVE  LET st2 == StorageInsert(st, n, s)
             IN  /\ st2[n] # NoIndex /\ st2[n].schema = s /\ st2[n].docs = NoDocs
                 /\ \A m \in Names : m # n => st2[m] = st[m]
  <2> DEFINE x == [schema |-> s, docs |-> NoDocs]
  <2>1. x \in IndexEntry /\ x.schema = s /\ x.docs = NoDocs
    BY NoDocsTyped DEF IndexEntry
  <2>2. x # NoIndex
    BY <2>1, NoIndexAssumption
  <2>3. StorageInsert(st, n, s) = [st EXCEPT ![n] = x]
    BY DEF StorageInsert
  <2> HIDE DEF x
  <2>4. QED
    BY <2>1, <2>2, <2>3 DEF Storage
<1>2. /\ StorageDeleteIndex(st, n)[n] = NoIndex
      /\ \A m \in Names : m # n => StorageDeleteIndex(st, n)[m] = st[m]
  BY DEF StorageDeleteIndex, Storage
<1>3. ASSUME st[n] # NoIndex, NEW d \in DocMap
      PROVE  LET st2 == [st EXCEPT ![n].docs = d]
             IN  /\ st2[n] # NoIndex /\ st2[n].schema = st[n].schema /\ st2[n].docs = d
                 /\ \A m \in Names : m # n => st2[m] = st[m]
  <2> DEFINE x == [st[n] EXCEPT !.docs = d]
             st2 == [st EXCEPT ![n].docs = d]
  <2>1. st[n] \in IndexEntry
    BY <1>3 DEF Storage
  <2>2. x \in IndexEntry /\ x.schema = st[n].schema /\ x.docs = d
    BY <2>1 DEF IndexEntry
  <2>3. x # NoIndex
    BY <2>2, NoIndexAssumption
  <2>4. st2[n] = x /\ \A m \in Names : m # n => st2[m] = st[m]
    BY DEF Storage
  <2> HIDE DEF x, st2
  <2>5. QED
    BY <2>2, <2>3, <2>4 DEF st2
<1>4. ASSUME st[n] # NoIndex
      PROVE  /\ \A docs \in DocMap :
                   [k \in Keys |-> IF docs[k] # NoDoc THEN docs[k] ELSE st[n].docs[k]] \in DocMap
             /\ \A ks : [k \in Keys |-> IF k \in ks THEN NoDoc ELSE st[n].docs[k]] \in DocMap
  <2>1. st[n].docs \in DocMap
    BY <1>4 DEF Storage, IndexEntry
  <2>2. QED
    BY <2>1 DEF DocMap
<1>5. ASSUME st[n] # NoIndex, NEW docs \in DocMap
      PROVE  LET st2 == StoragePutDocuments(st, n, docs)
             IN  /\ st2[n] # NoIndex /\ st2[n].schema = st[n].schema
                 /\ \A k \in Keys : st2[n].docs[k] =
                      IF docs[k] # NoDoc THEN docs[k] ELSE st[n].docs[k]
                 /\ \A m \in Names : m # n => st2[m] = st[m]
  <2> DEFINE d == [k \in Keys |-> IF docs[k] # NoDoc THEN docs[k] ELSE st[n].docs[k]]
  <2>1. d \in DocMap /\ \A k \in Keys : d[k] = IF docs[k] # NoDoc THEN docs[k] ELSE st[n].docs[k]
    BY <1>4, <1>5
  <2>2. StoragePutDocuments(st, n, docs) = [st EXCEPT ![n].docs = d]
    BY DEF StoragePutDocuments
  <2> HIDE DEF d
  <2>3. QED
    BY <1>3, <1>5, <2>1, <2>2
<1>6. ASSUME st[n] # NoIndex, NEW ks
      PROVE  LET st2 == StorageDeleteDocuments(st, n, ks)
             IN  /\ st2[n] # NoIndex /\ st2[n].schema = st[n].schema
                 /\ \A k \in Keys : st2[n].docs[k] =
                      IF k \in ks THEN NoDoc ELSE st[n].docs[k]
                 /\ \A m \in Names : m # n => st2[m] = st[m]
  <2> DEFINE d == [k \in Keys |-> IF k \in ks THEN NoDoc ELSE st[n].docs[k]]
  <2>1. d \in DocMap /\ \A k \in Keys : d[k] = IF k \in ks THEN NoDoc ELSE st[n].docs[k]
    BY <1>4, <1>6
  <2>2. StorageDeleteDocuments(st, n, ks) = [st EXCEPT ![n].docs = d]
    BY DEF StorageDeleteDocuments
  <2> HIDE DEF d
  <2>3. QED
    BY <1>3, <1>6, <2>1, <2>2
<1>7. QED
  BY <1>1, <1>2, <1>5, <1>6

\* SearchEngine: one entry changes.
LEMMA EngineEffects ==
    ASSUME NEW en \in Engine, NEW n \in Names
    PROVE  /\ LET en2 == EngineCreateIndex(en, n)
              IN  en2[n] = NoDocs /\ NoDocs # NoIndex /\ \A m \in Names : m # n => en2[m] = en[m]
           /\ LET en2 == EngineDeleteIndex(en, n)
              IN  en2[n] = NoIndex /\ \A m \in Names : m # n => en2[m] = en[m]
           /\ en[n] # NoIndex =>
                /\ \A docs \in DocMap :
                     LET en2 == EngineIndexDocuments(en, n, docs)
                     IN  /\ en2[n] # NoIndex
                         /\ \A k \in Keys : en2[n][k] =
                              IF docs[k] # NoDoc THEN TextOf(docs[k]) ELSE en[n][k]
                         /\ \A m \in Names : m # n => en2[m] = en[m]
                /\ \A ks :
                     LET en2 == EngineDeleteDocuments(en, n, ks)
                     IN  /\ en2[n] # NoIndex
                         /\ \A k \in Keys : en2[n][k] = IF k \in ks THEN NoDoc ELSE en[n][k]
                         /\ \A m \in Names : m # n => en2[m] = en[m]
<1>1. NoDocs # NoIndex
  BY NoDocsTyped, NoIndexAssumption
<1>2. /\ EngineCreateIndex(en, n)[n] = NoDocs /\ EngineDeleteIndex(en, n)[n] = NoIndex
      /\ \A m \in Names : m # n => /\ EngineCreateIndex(en, n)[m] = en[m]
                                   /\ EngineDeleteIndex(en, n)[m] = en[m]
  BY DEF EngineCreateIndex, EngineDeleteIndex, Engine
<1>3. ASSUME en[n] # NoIndex, NEW docs \in DocMap
      PROVE  LET en2 == EngineIndexDocuments(en, n, docs)
             IN  /\ en2[n] # NoIndex
                 /\ \A k \in Keys : en2[n][k] =
                      IF docs[k] # NoDoc THEN TextOf(docs[k]) ELSE en[n][k]
                 /\ \A m \in Names : m # n => en2[m] = en[m]
  <2> DEFINE x == [k \in Keys |-> IF docs[k] # NoDoc THEN docs[k].text ELSE en[n][k]]
  <2>1. en[n] \in EngineIndex
    BY <1>3 DEF Engine
  <2>2. \A k \in Keys : docs[k] # NoDoc => docs[k].text \in Texts \cup {Absent}
    BY DEF DocMap, Document
  <2>3. x \in EngineIndex
    BY <2>1, <2>2 DEF EngineIndex
  <2>4. \A k \in Keys : x[k] = IF docs[k] # NoDoc THEN TextOf(docs[k]) ELSE en[n][k]
    BY DEF TextOf
  <2>5. EngineIndexDocuments(en, n, docs) = [en EXCEPT ![n] = x]
    BY DEF EngineIndexDocuments
  <2> HIDE DEF x
  <2>6. QED
    BY <2>3, <2>4, <2>5, NoIndexAssumption DEF Engine
<1>4. ASSUME en[n] # NoIndex, NEW ks
      PROVE  LET en2 == EngineDeleteDocuments(en, n, ks)
             IN  /\ en2[n] # NoIndex
                 /\ \A k \in Keys : en2[n][k] = IF k \in ks THEN NoDoc ELSE en[n][k]
                 /\ \A m \in Names : m # n => en2[m] = en[m]
  <2> DEFINE x == [k \in Keys |-> IF k \in ks THEN NoDoc ELSE en[n][k]]
  <2>1. en[n] \in EngineIndex
    BY <1>4 DEF Engine
  <2>2. x \in EngineIndex /\ \A k \in Keys : x[k] = IF k \in ks THEN NoDoc ELSE en[n][k]
    BY <2>1 DEF EngineIndex
  <2>3. EngineDeleteDocuments(en, n, ks) = [en EXCEPT ![n] = x]
    BY DEF EngineDeleteDocuments
  <2> HIDE DEF x
  <2>4. QED
    BY <2>2, <2>3, NoIndexAssumption DEF Engine
<1>5. QED
  BY <1>1, <1>2, <1>3, <1>4

\* VectorEngine: one entry changes, and an index that is not there stays away.
LEMMA VectorEffects ==
    ASSUME NEW ve \in Vectors, NEW n \in Names
    PROVE  /\ \A s \in Schemas :
                LET ve2 == VectorsCreateIndex(ve, n, s)
                IN  /\ s.dim = 0 => ve2 = ve
                    /\ s.dim # 0 => /\ ve2[n] # NoIndex /\ ve2[n].dim = s.dim
                                    /\ ve2[n].vecs = NoDocs
                    /\ \A m \in Names : m # n => ve2[m] = ve[m]
           /\ LET ve2 == VectorsDeleteIndex(ve, n)
              IN  ve2[n] = NoIndex /\ \A m \in Names : m # n => ve2[m] = ve[m]
           /\ \A ks :
                LET ve2 == VectorsRemove(ve, n, ks)
                IN  /\ ve[n] = NoIndex => ve2[n] = NoIndex
                    /\ ve[n] # NoIndex =>
                         /\ ve2[n] # NoIndex /\ ve2[n].dim = ve[n].dim
                         /\ \A k \in Keys : ve2[n].vecs[k] =
                              IF k \in ks THEN NoDoc ELSE ve[n].vecs[k]
                    /\ \A m \in Names : m # n => ve2[m] = ve[m]
           /\ \A docs \in DocMap :
                LET ve2 == VectorsUpsert(ve, n, docs)
                IN  /\ ve[n] = NoIndex => ve2[n] = NoIndex
                    /\ ve[n] # NoIndex /\ VectorsAccept(ve, n, docs) =>
                         /\ ve2[n] # NoIndex /\ ve2[n].dim = ve[n].dim
                         /\ \A k \in Keys : ve2[n].vecs[k] =
                              IF docs[k] # NoDoc /\ HasVector(docs[k])
                              THEN docs[k].vec ELSE ve[n].vecs[k]
                    /\ \A m \in Names : m # n => ve2[m] = ve[m]
<1>1. ASSUME NEW s \in Schemas
      PROVE  LET ve2 == VectorsCreateIndex(ve, n, s)
             IN  /\ s.dim = 0 => ve2 = ve
                 /\ s.dim # 0 => /\ ve2[n] # NoIndex /\ ve2[n].dim = s.dim
                                 /\ ve2[n].vecs = NoDocs
                 /\ \A m \in Names : m # n => ve2[m] = ve[m]
  <2> DEFINE x == [dim |-> s.dim, vecs |-> NoDocs]
  <2>1. x \in VectorIndex /\ x.dim = s.dim /\ x.vecs = NoDocs
    BY NoDocsTyped, DimsAssumption DEF VectorIndex, Schemas
  <2>2. x # NoIndex
    BY <2>1, NoIndexAssumption
  <2>3. VectorsCreateIndex(ve, n, s) = IF s.dim = 0 THEN ve ELSE [ve EXCEPT ![n] = x]
    BY DEF VectorsCreateIndex
  <2> HIDE DEF x
  <2>4. QED
    BY <2>1, <2>2, <2>3 DEF Vectors
<1>2. /\ VectorsDeleteIndex(ve, n)[n] = NoIndex
      /\ \A m \in Names : m # n => VectorsDeleteIndex(ve, n)[m] = ve[m]
  BY DEF VectorsDeleteIndex, Vectors
<1>3. ASSUME ve[n] # NoIndex, NEW v \in [Keys -> Vecs \cup {NoDoc}]
      PROVE  LET ve2 == [ve EXCEPT ![n].vecs = v]
             IN  /\ ve2[n] # NoIndex /\ ve2[n].dim = ve[n].dim /\ ve2[n].vecs = v
                 /\ \A m \in Names : m # n => ve2[m] = ve[m]
  <2> DEFINE x == [ve[n] EXCEPT !.vecs = v]
             ve2 == [ve EXCEPT ![n].vecs = v]
  <2>1. ve[n] \in VectorIndex
    BY <1>3 DEF Vectors
  <2>2. x \in VectorIndex /\ x.dim = ve[n].dim /\ x.vecs = v
    BY <2>1 DEF VectorIndex
  <2>3. x # NoIndex
    BY <2>2, NoIndexAssumption
  <2>4. ve2[n] = x /\ \A m \in Names : m # n => ve2[m] = ve[m]
    BY DEF Vectors
  <2> HIDE DEF x, ve2
  <2>5. QED
    BY <2>2, <2>3, <2>4 DEF ve2
<1>4. ASSUME NEW ks
      PROVE  LET ve2 == VectorsRemove(ve, n, ks)
             IN  /\ ve[n] = NoIndex => ve2[n] = NoIndex
                 /\ ve[n] # NoIndex =>
                      /\ ve2[n] # NoIndex /\ ve2[n].dim = ve[n].dim
                      /\ \A k \in Keys : ve2[n].vecs[k] =
                           IF k \in ks THEN NoDoc ELSE ve[n].vecs[k]
                 /\ \A m \in Names : m # n => ve2[m] = ve[m]
  <2> DEFINE v == [k \in Keys |-> IF k \in ks THEN NoDoc ELSE ve[n].vecs[k]]
  <2>1. CASE ve[n] = NoIndex
    BY <2>1 DEF VectorsRemove
  <2>2. CASE ve[n] # NoIndex
    <3>1. ve[n].vecs \in [Keys -> Vecs \cup {NoDoc}]
      BY <2>2 DEF Vectors, VectorIndex
    <3>2. /\ v \in [Keys -> Vecs \cup {NoDoc}]
          /\ \A k \in Keys : v[k] = IF k \in ks THEN NoDoc ELSE ve[n].vecs[k]
      BY <3>1
    <3>3. VectorsRemove(ve, n, ks) = [ve EXCEPT ![n].vecs = v]
      BY <2>2 DEF VectorsRemove
    <3> HIDE DEF v
    <3>4. QED
      BY <1>3, <2>2, <3>2, <3>3
  <2>3. QED
    BY <2>1, <2>2
<1>5. ASSUME NEW docs \in DocMap
      PROVE  LET ve2 == VectorsUpsert(ve, n, docs)
             IN  /\ ve[n] = NoIndex => ve2[n] = NoIndex
                 /\ ve[n] # NoIndex /\ VectorsAccept(ve, n, docs) =>
                      /\ ve2[n] # NoIndex /\ ve2[n].dim = ve[n].dim
                      /\ \A k \in Keys : ve2[n].vecs[k] =
                           IF docs[k] # NoDoc /\ HasVector(docs[k])
                           THEN docs[k].vec ELSE ve[n].vecs[k]
                 /\ \A m \in Names : m # n => ve2[m] = ve[m]
  <2> DEFINE v == [k \in Keys |-> IF docs[k] # NoDoc /\ HasVector(docs[k])
                                  THEN docs[k].vec ELSE ve[n].vecs[k]]
  <2>1. CASE ve[n] = NoIndex \/ ~VectorsAccept(ve, n, docs)
    BY <2>1 DEF VectorsUpsert
  <2>2. CASE ve[n] # NoIndex /\ VectorsAccept(ve, n, docs)
    <3>1. ve[n].vecs \in [Keys -> Vecs \cup {NoDoc}]
      BY <2>2 DEF Vectors, VectorIndex
    <3>2. \A k \in Keys : docs[k] # NoDoc /\ HasVector(docs[k]) => docs[k].vec \in Vecs
      BY DEF HasVector
    <3>3. /\ v \in [Keys -> Vecs \cup {NoDoc}]
          /\ \A k \in Keys : v[k] = IF docs[k] # NoDoc /\ HasVector(docs[k])
                                    THEN docs[k].vec ELSE ve[n].vecs[k]
      BY <3>1, <3>2
    <3>4. VectorsUpsert(ve, n, docs) = [ve EXCEPT ![n].vecs = v]
      BY <2>2 DEF VectorsUpsert
    <3> HIDE DEF v
    <3>5. QED
      BY <1>3, <2>2, <3>3, <3>4
  <2>3. QED
    BY <2>1, <2>2
<1>6. QED
  BY <1>1, <1>2, <1>4, <1>5

=============================================================================
