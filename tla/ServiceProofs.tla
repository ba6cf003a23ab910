---------------------------- MODULE ServiceProofs ----------------------------
(***************************************************************************)
(* What holds of the stores, for all names, keys, documents, clients and   *)
(* workloads.  Whatever the clients do, every entry and every request in   *)
(* flight is of its kind, and every vector has the length its index        *)
(* declares.  While no two requests in flight write the same thing, the    *)
(* three stores tell the same story about every document at rest that no   *)
(* batch may have failed on for a null vector, and no name is both an      *)
(* index and an alias.                                                     *)
(***************************************************************************)
EXTENDS OrderlyService, StoreLemmas, TLAPS

-----------------------------------------------------------------------------
(* The parts of a request *)

\* What a request carries depends on its operation only.
LEMMA RequestParts ==
    ASSUME NEW r \in Request
    PROVE  /\ r.op # "reset" => r.name \in Names
           /\ r.op \in {"create", "put"} => r.schema \in Schemas
           /\ r.op = "index" => r.actions \in Seq(Action)
           /\ r.op = "search" => r.query \in Query
           /\ r.op = "get" => r.key \in Keys
           /\ r.op \in {"createAlias", "putAlias"} => r.target \in Names
           /\ r.op \in {"create", "put", "delete", "index", "search", "get", "count",
                        "createAlias", "putAlias", "deleteAlias", "reset"}
<1>1. CASE r \in DefineRequest
  BY <1>1 DEF DefineRequest
<1>2. CASE r \in NameRequest
  BY <1>2 DEF NameRequest
<1>3. CASE r \in IndexRequest
  BY <1>3 DEF IndexRequest
<1>4. CASE r \in GetRequest
  BY <1>4 DEF GetRequest
<1>5. CASE r \in SearchRequest
  BY <1>5 DEF SearchRequest
<1>6. CASE r \in AliasRequest
  BY <1>6 DEF AliasRequest
<1>7. CASE r \in ResetRequest
  BY <1>7 DEF ResetRequest
<1>8. QED
  BY <1>1, <1>2, <1>3, <1>4, <1>5, <1>6, <1>7 DEF Request

-----------------------------------------------------------------------------
(* The threads *)

\* Which requests perform which operation.
LEMMA LabelKinds ==
    ASSUME NEW j, NEW label, Fits(j, label)
    PROVE  LET op == j.req.op
           IN  /\ label \in {"check_alias", "create_engine", "create_vectors",
                             "rollback_storage", "rollback_engine", "rollback_vectors"}
                    => op \in {"create", "put"}
               /\ label = "create_storage" => op = "create"
               /\ label \in {"read_old", "read_preserved", "replace_storage", "drop_engine",
                             "drop_vectors", "refill_engine", "refill_trim",
                             "refill_vectors", "refill_storage"}
                    => op = "put"
               /\ label \in {"delete_storage", "delete_engine", "delete_vectors"}
                    => op = "delete"
               /\ label \in {"apply_action", "engine_delete", "engine_index",
                             "vectors_delete", "vectors_trim", "vectors_upsert",
                             "storage_put", "storage_delete"}
                    => op = "index"
               /\ label = "resolve" => op \in {"put", "delete", "index", "search", "get", "count"}
               /\ label = "require" => op \in {"index", "search", "get", "count"}
               /\ label \in {"parse_resolve", "parse_require", "search_documents",
                             "search_vectors", "search_engine"}
                    => op = "search"
               /\ label = "read_documents" => op \in {"get", "count"}
               /\ label \in {"check_index", "store_alias"} => op \in {"createAlias", "putAlias"}
               /\ label = "delete_alias" => op = "deleteAlias"
               /\ label \in {"reset_storage", "reset_engine", "reset_vectors", "reset_alias"}
                    => op = "reset"
<1>1. j.req \in Request /\ label \in Labels(j.req.op)
  BY DEF Job, Fits
<1>2. j.req.op \in {"create", "put", "delete", "index", "search", "get", "count",
                    "createAlias", "putAlias", "deleteAlias", "reset"}
  BY <1>1, RequestParts
<1>3. QED
  BY <1>1, <1>2, SMTT(60) DEF Labels, Rollback

\* The serving thread goes on to another operation.
LEMMA ThreadAdvances ==
    ASSUME ThreadsOK, NEW c \in Clients, NEW j, NEW label,
           label # "idle" => Fits(j, label), j \in Job \cup {NoJob},
           job' = [job EXCEPT ![c] = j], pc' = [pc EXCEPT ![c] = label],
           reply' \in [Clients -> Reply \cup {NoReply}]
    PROVE  ThreadsOK'
<1>1. pc' = [d \in Clients |-> pc'[d]] /\ job' \in [Clients -> Job \cup {NoJob}]
  BY DEF ThreadsOK
<1>2. ASSUME NEW d \in Clients, pc'[d] # "idle"
      PROVE  Fits(job'[d], pc'[d])
  <2>1. CASE d = c
    BY <1>2, <2>1 DEF ThreadsOK
  <2>2. CASE d # c
    BY <1>2, <2>2 DEF ThreadsOK
  <2>3. QED
    BY <2>1, <2>2
<1>3. ThreadsOK' <=> /\ pc' = [d \in Clients |-> pc'[d]]
                     /\ job' \in [Clients -> Job \cup {NoJob}]
                     /\ reply' \in [Clients -> Reply \cup {NoReply}]
                     /\ \A d \in Clients : pc'[d] # "idle" => Fits(job'[d], pc'[d])
  BY DEF ThreadsOK, Fits
<1>4. QED
  BY <1>1, <1>2, <1>3

\* The handler returns.
LEMMA ThreadAnswers ==
    ASSUME ThreadsOK, NEW c \in Clients, pc[c] # "idle",
           NEW status \in Statuses, NEW results \in Seq(Result), NEW docs \in DocMap,
           Answer(c, status, results, docs)
    PROVE  ThreadsOK'
<1>1. job[c].req \in Request
  BY DEF ThreadsOK, Fits, Job
<1>2. [req |-> job[c].req, status |-> status, results |-> results, docs |-> docs] \in Reply
  BY <1>1 DEF Reply
<1>3. reply' \in [Clients -> Reply \cup {NoReply}]
  BY <1>2 DEF Answer, ThreadsOK
<1>4. QED
  <2>1. NoJob \in Job \cup {NoJob}
    OBVIOUS
  <2>2. job' = [job EXCEPT ![c] = NoJob] /\ pc' = [pc EXCEPT ![c] = "idle"]
    BY DEF Answer
  <2>3. QED
    BY <1>3, <2>1, <2>2, ThreadAdvances

\* The handler returns nothing but a status.
LEMMA ThreadReturns ==
    ASSUME ThreadsOK, NEW c \in Clients, pc[c] # "idle", NEW status \in Statuses,
           Return(c, status)
    PROVE  ThreadsOK'
<1>1. <<>> \in Seq(Result)
  OBVIOUS
<1>2. QED
  BY <1>1, NoDocsTyped, ThreadAnswers DEF Return

\* The serving thread goes on with the same job.
LEMMA ThreadMoves ==
    ASSUME ThreadsOK, NEW c \in Clients, NEW label, Fits(job[c], label),
           Goto(c, label), UNCHANGED job
    PROVE  ThreadsOK'
<1>1. job' = [job EXCEPT ![c] = job[c]] /\ job[c] \in Job \cup {NoJob}
  BY DEF ThreadsOK
<1>2. QED
  BY <1>1, ThreadAdvances DEF Goto, ThreadsOK

\* The serving thread goes on with another job.
LEMMA ThreadContinues ==
    ASSUME ThreadsOK, NEW c \in Clients, NEW label, NEW j, Fits(j, label),
           Goto(c, label), job' = [job EXCEPT ![c] = j]
    PROVE  ThreadsOK'
BY ThreadAdvances DEF Goto, ThreadsOK, Fits

\* What the serving thread holds, by the type invariant.
LEMMA InFlightParts ==
    ASSUME ThreadsOK, NEW c \in Clients, pc[c] # "idle"
    PROVE  /\ Fits(job[c], pc[c])
           /\ job[c] \in Job
           /\ job[c].req \in Request
           /\ job[c].req.op # "reset" => job[c].target \in Names /\ job[c].req.name \in Names
           /\ job[c].batch \in Batch
           /\ job[c].docs \in DocMap
           /\ job[c].found \in SUBSET Keys
           /\ job[c].failure \in Statuses
<1>1. Fits(job[c], pc[c]) /\ job[c] \in Job
  BY DEF ThreadsOK, Fits
<1>2. job[c].req \in Request
  BY <1>1 DEF Job
<1>3. job[c].req.op # "reset" => job[c].target \in Names /\ job[c].req.name \in Names
  BY <1>1, <1>2, RequestParts DEF Fits
<1>4. QED
  BY <1>1, <1>2, <1>3 DEF Job

\* Replacing one part of a job that keeps its request.
LEMMA JobUpdates ==
    ASSUME NEW j \in Job
    PROVE  /\ \A x \in Names : [j EXCEPT !.target = x] \in Job
           /\ \A x \in Schemas : [j EXCEPT !.schema = x] \in Job
           /\ \A x \in Batch : [j EXCEPT !.batch = x] \in Job
           /\ \A x \in DocMap : [j EXCEPT !.docs = x] \in Job
           /\ \A x \in SUBSET Keys : [j EXCEPT !.found = x] \in Job
           /\ \A x \in Statuses : [j EXCEPT !.failure = x] \in Job
BY DEF Job

\* A failed lifecycle request begins to roll back.
LEMMA RollBackKeepsThreads ==
    ASSUME ThreadsOK, NEW c \in Clients, pc[c] # "idle", NEW status \in Statuses,
           job[c].req.op \in {"create", "put"}, RollBack(c, status)
    PROVE  ThreadsOK'
<1> DEFINE j == [job[c] EXCEPT !.failure = status]
<1>1. Fits(job[c], pc[c]) /\ job[c] \in Job
  BY InFlightParts
<1>2. j \in Job /\ j.req = job[c].req /\ j.schema = job[c].schema
        /\ j.target = job[c].target /\ j.docs = job[c].docs
  BY <1>1, JobUpdates DEF Job
<1>3. Fits(j, "rollback_storage")
  BY <1>1, <1>2 DEF Fits, Labels, Rollback
<1>4. job' = [job EXCEPT ![c] = j] /\ Goto(c, "rollback_storage")
  BY DEF RollBack
<1> HIDE DEF j
<1>5. QED
  BY <1>3, <1>4, ThreadContinues

\* The write phase goes on to a later operation of the same request.
LEMMA ProceedKeepsThreads ==
    ASSUME ThreadsOK, NEW c \in Clients, pc[c] # "idle", job[c].req.op = "index",
           job[c].schema \in Schemas, NEW i, Proceed(c, i)
    PROVE  ThreadsOK'
<1>1. Fits(job[c], pc[c]) /\ job[c].batch \in Batch
  BY InFlightParts
<1>2. CASE Answer(c, 200, job[c].batch.results, NoDocs)
  <2>1. job[c].batch.results \in Seq(Result) /\ 200 \in Statuses
    BY <1>1 DEF Batch, Statuses
  <2>2. QED
    BY <1>2, <2>1, NoDocsTyped, ThreadAnswers
<1>3. ASSUME NEW n \in DOMAIN Phases, Goto(c, Phases[n]), UNCHANGED job
      PROVE  ThreadsOK'
  <2>1. Phases[n] \in {"engine_delete", "engine_index", "vectors_delete", "vectors_trim",
                       "vectors_upsert", "storage_put", "storage_delete"}
    BY <1>3 DEF Phases
  <2>2. Fits(job[c], Phases[n])
    BY <1>1, <2>1 DEF Fits, Labels
  <2>3. QED
    BY <1>3, <2>2, ThreadMoves
<1>4. QED
  BY <1>2, <1>3 DEF Proceed, NeededAfter

\* Part of a map of documents is a map of documents.
LEMMA OnlyKeysTyped ==
    ASSUME NEW docs \in DocMap, NEW ks
    PROVE  OnlyKeys(docs, ks) \in DocMap
BY DEF OnlyKeys, DocMap

\* The pending upserts of a batch are documents by key.
LEMMA UpsertsTyped ==
    ASSUME NEW b \in Batch
    PROVE  b.upserts \in DocMap
BY DEF Batch

-----------------------------------------------------------------------------
(* The inductive invariant *)

Inv == StoresOK /\ ThreadsOK /\ LengthsFit(vectors)

\* A step that leaves every store alone or replaces it by a typed one, and the
\* vectors by fitting ones.
LEMMA StoresKept ==
    ASSUME Inv, ThreadsOK',
           storage' = storage \/ storage' \in Storage,
           engine' = engine \/ engine' \in Engine,
           vectors' = vectors \/ (vectors' \in Vectors /\ LengthsFit(vectors')),
           alias' = alias \/ alias' \in Aliases
    PROVE  Inv'
BY DEF Inv, StoresOK, LengthsFit, Fitting

\* The steps of the index lifecycle keep the invariant.
LEMMA LifecycleKeepsInv ==
    ASSUME Inv, NEW c \in Clients, LifecycleStep(c)
    PROVE  Inv'
<1> DEFINE t == job[c].target
           op == job[c].req.op
<1>0. /\ StoresOK /\ ThreadsOK /\ LengthsFit(vectors)
      /\ {200, 201, 204, 400, 404, 409, 500} \subseteq Statuses
  BY DEF Inv, Statuses
<1>1. CASE CheckAlias(c)
  <2>1. pc[c] = "check_alias"
    BY <1>1 DEF CheckAlias, At
  <2>2. Fits(job[c], "check_alias") /\ op \in {"create", "put"}
    <3>1. Fits(job[c], "check_alias")
      BY <1>0, <2>1, InFlightParts
    <3>2. QED
      BY <3>1, LabelKinds
  <2>3. t \in Names /\ job[c].req.name \in Names /\ job[c].schema \in Schemas /\ job[c] \in Job /\ job[c].docs \in DocMap /\ job[c].batch \in Batch
    BY <1>0, <2>1, <2>2, InFlightParts DEF Fits, NoSchemaLabels
  <2>4. ThreadsOK'
    <3>1. op = "create" => Fits(job[c], "create_storage")
      BY <2>2, <2>3 DEF Fits, Labels, Rollback, NoSchemaLabels
    <3>2. op = "put" => Fits(job[c], "read_old")
      BY <2>2, <2>3 DEF Fits, Labels, Rollback, NoSchemaLabels
    <3>3. QED
      BY <1>0, <1>1, <2>1, <2>2, <2>3, <3>1, <3>2, ThreadMoves, ThreadReturns DEF CheckAlias
  <2>5. QED
    BY <1>0, <1>1, <2>3, <2>4, StoresKept DEF CheckAlias, StoresOK, stores
<1>2. CASE CreateStorage(c)
  <2>1. pc[c] = "create_storage"
    BY <1>2 DEF CreateStorage, At
  <2>2. Fits(job[c], "create_storage") /\ op = "create"
    <3>1. Fits(job[c], "create_storage")
      BY <1>0, <2>1, InFlightParts
    <3>2. QED
      BY <3>1, LabelKinds
  <2>3. t \in Names /\ job[c].req.name \in Names /\ job[c].schema \in Schemas /\ job[c] \in Job /\ job[c].docs \in DocMap /\ job[c].batch \in Batch
    BY <1>0, <2>1, <2>2, InFlightParts DEF Fits, NoSchemaLabels
  <2>4. ThreadsOK'
    <3>1. Fits(job[c], "create_engine")
      BY <2>2, <2>3 DEF Fits, Labels, Rollback, NoSchemaLabels
    <3>2. QED
      BY <1>0, <1>2, <2>1, <2>2, <2>3, <3>1, ThreadMoves, ThreadReturns DEF CreateStorage
  <2>5. QED
    BY <1>0, <1>2, <2>3, <2>4, StoresKept, StorageTyped DEF CreateStorage, StoresOK, stores
<1>3. CASE CreateEngine(c)
  <2>1. pc[c] = "create_engine"
    BY <1>3 DEF CreateEngine, At
  <2>2. Fits(job[c], "create_engine") /\ op \in {"create", "put"}
    <3>1. Fits(job[c], "create_engine")
      BY <1>0, <2>1, InFlightParts
    <3>2. QED
      BY <3>1, LabelKinds
  <2>3. t \in Names /\ job[c].req.name \in Names /\ job[c].schema \in Schemas /\ job[c] \in Job /\ job[c].docs \in DocMap /\ job[c].batch \in Batch
    BY <1>0, <2>1, <2>2, InFlightParts DEF Fits, NoSchemaLabels
  <2>4. ThreadsOK'
    <3>1. op = "create" => Fits(job[c], "create_vectors")
      BY <2>2, <2>3 DEF Fits, Labels, Rollback, NoSchemaLabels
    <3>2. op = "put" => Fits(job[c], "drop_vectors")
      BY <2>2, <2>3 DEF Fits, Labels, Rollback, NoSchemaLabels
    <3>3. QED
      BY <1>0, <1>3, <2>1, <2>2, <2>3, <3>1, <3>2, ThreadMoves, RollBackKeepsThreads DEF CreateEngine
  <2>5. QED
    BY <1>0, <1>3, <2>3, <2>4, StoresKept, EngineTyped DEF CreateEngine, StoresOK, stores
<1>4. CASE CreateVectors(c)
  <2>1. pc[c] = "create_vectors"
    BY <1>4 DEF CreateVectors, At
  <2>2. Fits(job[c], "create_vectors") /\ op \in {"create", "put"}
    <3>1. Fits(job[c], "create_vectors")
      BY <1>0, <2>1, InFlightParts
    <3>2. QED
      BY <3>1, LabelKinds
  <2>3. t \in Names /\ job[c].req.name \in Names /\ job[c].schema \in Schemas /\ job[c] \in Job /\ job[c].docs \in DocMap /\ job[c].batch \in Batch
    BY <1>0, <2>1, <2>2, InFlightParts DEF Fits, NoSchemaLabels
  <2>4. ThreadsOK'
    <3>1. job[c].docs # NoDocs => Fits(job[c], "refill_engine")
      BY <2>2, <2>3 DEF Fits, Labels, Rollback, NoSchemaLabels
    <3>2. QED
      BY <1>0, <1>4, <2>1, <2>2, <2>3, <3>1, ThreadMoves, ThreadReturns, RollBackKeepsThreads
      DEF CreateVectors
  <2>5. QED
    BY <1>0, <1>4, <2>3, <2>4, StoresKept, VectorsCreateTyped DEF CreateVectors, StoresOK, stores
<1>5. CASE ReadOld(c)
  <2>1. pc[c] = "read_old"
    BY <1>5 DEF ReadOld, At
  <2>2. Fits(job[c], "read_old") /\ op = "put"
    <3>1. Fits(job[c], "read_old")
      BY <1>0, <2>1, InFlightParts
    <3>2. QED
      BY <3>1, LabelKinds
  <2>3. t \in Names /\ job[c].req.name \in Names /\ job[c].schema \in Schemas /\ job[c] \in Job /\ job[c].docs \in DocMap /\ job[c].batch \in Batch
    BY <1>0, <2>1, <2>2, InFlightParts DEF Fits, NoSchemaLabels
  <2>4. ThreadsOK'
    <3>1. Fits(job[c], "read_preserved")
      BY <2>2, <2>3 DEF Fits, Labels, Rollback, NoSchemaLabels
    <3>2. Fits(job[c], "replace_storage")
      BY <2>2, <2>3 DEF Fits, Labels, Rollback, NoSchemaLabels
    <3>3. QED
      BY <1>0, <1>5, <2>1, <2>2, <2>3, <3>1, <3>2, ThreadMoves DEF ReadOld
  <2>5. QED
    BY <1>0, <1>5, <2>3, <2>4, StoresKept DEF ReadOld, StoresOK, stores
<1>6. CASE ReadPreserved(c)
  <2>1. pc[c] = "read_preserved"
    BY <1>6 DEF ReadPreserved, At
  <2>2. Fits(job[c], "read_preserved") /\ op = "put"
    <3>1. Fits(job[c], "read_preserved")
      BY <1>0, <2>1, InFlightParts
    <3>2. QED
      BY <3>1, LabelKinds
  <2>3. t \in Names /\ job[c].req.name \in Names /\ job[c].schema \in Schemas /\ job[c] \in Job /\ job[c].docs \in DocMap /\ job[c].batch \in Batch
    BY <1>0, <2>1, <2>2, InFlightParts DEF Fits, NoSchemaLabels
  <2>4. ThreadsOK'
    <3> DEFINE docs == IF storage[t] = NoIndex THEN NoDocs ELSE storage[t].docs
               j == [job[c] EXCEPT !.docs = docs]
    <3>1. docs \in DocMap
      BY <1>0, <2>3, NoDocsTyped DEF StoresOK, Storage, IndexEntry
    <3>2. job' = [job EXCEPT ![c] = j] /\ Goto(c, "replace_storage")
      BY <1>6 DEF ReadPreserved
    <3> HIDE DEF docs
    <3>3. j \in Job /\ j.req = job[c].req /\ j.schema = job[c].schema /\ j.target = t
      BY <2>3, <3>1, JobUpdates DEF Job
    <3>4. Fits(j, "replace_storage")
      BY <2>2, <2>3, <3>3 DEF Fits, Labels
    <3> HIDE DEF j
    <3>5. QED
      BY <1>0, <3>2, <3>4, ThreadContinues
  <2>5. QED
    BY <1>0, <1>6, <2>3, <2>4, StoresKept DEF ReadPreserved, StoresOK, stores
<1>7. CASE ReplaceStorage(c)
  <2>1. pc[c] = "replace_storage"
    BY <1>7 DEF ReplaceStorage, At
  <2>2. Fits(job[c], "replace_storage") /\ op = "put"
    <3>1. Fits(job[c], "replace_storage")
      BY <1>0, <2>1, InFlightParts
    <3>2. QED
      BY <3>1, LabelKinds
  <2>3. t \in Names /\ job[c].req.name \in Names /\ job[c].schema \in Schemas /\ job[c] \in Job /\ job[c].docs \in DocMap /\ job[c].batch \in Batch
    BY <1>0, <2>1, <2>2, InFlightParts DEF Fits, NoSchemaLabels
  <2>4. ThreadsOK'
    <3>1. Fits(job[c], "drop_engine")
      BY <2>2, <2>3 DEF Fits, Labels, Rollback, NoSchemaLabels
    <3>2. QED
      BY <1>0, <1>7, <2>1, <2>2, <2>3, <3>1, ThreadMoves DEF ReplaceStorage
  <2>5. QED
    BY <1>0, <1>7, <2>3, <2>4, StoresKept, StorageTyped DEF ReplaceStorage, StoresOK, stores
<1>8. CASE DropEngine(c)
  <2>1. pc[c] = "drop_engine"
    BY <1>8 DEF DropEngine, At
  <2>2. Fits(job[c], "drop_engine") /\ op = "put"
    <3>1. Fits(job[c], "drop_engine")
      BY <1>0, <2>1, InFlightParts
    <3>2. QED
      BY <3>1, LabelKinds
  <2>3. t \in Names /\ job[c].req.name \in Names /\ job[c].schema \in Schemas /\ job[c] \in Job /\ job[c].docs \in DocMap /\ job[c].batch \in Batch
    BY <1>0, <2>1, <2>2, InFlightParts DEF Fits, NoSchemaLabels
  <2>4. ThreadsOK'
    <3>1. Fits(job[c], "create_engine")
      BY <2>2, <2>3 DEF Fits, Labels, Rollback, NoSchemaLabels
    <3>2. QED
      BY <1>0, <1>8, <2>1, <2>2, <2>3, <3>1, ThreadMoves DEF DropEngine
  <2>5. QED
    BY <1>0, <1>8, <2>3, <2>4, StoresKept, EngineTyped DEF DropEngine, StoresOK, stores
<1>9. CASE DropVectors(c)
  <2>1. pc[c] = "drop_vectors"
    BY <1>9 DEF DropVectors, At
  <2>2. Fits(job[c], "drop_vectors") /\ op = "put"
    <3>1. Fits(job[c], "drop_vectors")
      BY <1>0, <2>1, InFlightParts
    <3>2. QED
      BY <3>1, LabelKinds
  <2>3. t \in Names /\ job[c].req.name \in Names /\ job[c].schema \in Schemas /\ job[c] \in Job /\ job[c].docs \in DocMap /\ job[c].batch \in Batch
    BY <1>0, <2>1, <2>2, InFlightParts DEF Fits, NoSchemaLabels
  <2>4. ThreadsOK'
    <3>1. Fits(job[c], "create_vectors")
      BY <2>2, <2>3 DEF Fits, Labels, Rollback, NoSchemaLabels
    <3>2. QED
      BY <1>0, <1>9, <2>1, <2>2, <2>3, <3>1, ThreadMoves DEF DropVectors
  <2>5. QED
    BY <1>0, <1>9, <2>3, <2>4, StoresKept, VectorsDeleteTyped DEF DropVectors, StoresOK, stores
<1>10. CASE RefillEngine(c)
  <2>1. pc[c] = "refill_engine"
    BY <1>10 DEF RefillEngine, At
  <2>2. Fits(job[c], "refill_engine") /\ op = "put"
    <3>1. Fits(job[c], "refill_engine")
      BY <1>0, <2>1, InFlightParts
    <3>2. QED
      BY <3>1, LabelKinds
  <2>3. t \in Names /\ job[c].req.name \in Names /\ job[c].schema \in Schemas /\ job[c] \in Job /\ job[c].docs \in DocMap /\ job[c].batch \in Batch
    BY <1>0, <2>1, <2>2, InFlightParts DEF Fits, NoSchemaLabels
  <2>4. ThreadsOK'
    <3>1. Fits(job[c], "refill_storage")
      BY <2>2, <2>3 DEF Fits, Labels, Rollback, NoSchemaLabels
    <3>2. Fits(job[c], "refill_trim")
      BY <2>2, <2>3 DEF Fits, Labels, Rollback, NoSchemaLabels
    <3>3. QED
      BY <1>0, <1>10, <2>1, <2>2, <2>3, <3>1, <3>2, ThreadMoves, RollBackKeepsThreads DEF RefillEngine
  <2>5. QED
    BY <1>0, <1>10, <2>3, <2>4, StoresKept, EngineTyped DEF RefillEngine, StoresOK, stores
<1>11. CASE RefillTrim(c)
  <2>1. pc[c] = "refill_trim"
    BY <1>11 DEF RefillTrim, At
  <2>2. Fits(job[c], "refill_trim") /\ op = "put"
    <3>1. Fits(job[c], "refill_trim")
      BY <1>0, <2>1, InFlightParts
    <3>2. QED
      BY <3>1, LabelKinds
  <2>3. t \in Names /\ job[c].req.name \in Names /\ job[c].schema \in Schemas /\ job[c] \in Job /\ job[c].docs \in DocMap /\ job[c].batch \in Batch
    BY <1>0, <2>1, <2>2, InFlightParts DEF Fits, NoSchemaLabels
  <2>4. ThreadsOK'
    <3>1. Fits(job[c], "refill_vectors")
      BY <2>2, <2>3 DEF Fits, Labels, Rollback, NoSchemaLabels
    <3>2. QED
      BY <1>0, <1>11, <2>1, <2>2, <2>3, <3>1, ThreadMoves DEF RefillTrim
  <2>5. QED
    BY <1>0, <1>11, <2>3, <2>4, StoresKept, VectorsRemoveTyped DEF RefillTrim, StoresOK, stores
<1>12. CASE RefillVectors(c)
  <2>1. pc[c] = "refill_vectors"
    BY <1>12 DEF RefillVectors, At
  <2>2. Fits(job[c], "refill_vectors") /\ op = "put"
    <3>1. Fits(job[c], "refill_vectors")
      BY <1>0, <2>1, InFlightParts
    <3>2. QED
      BY <3>1, LabelKinds
  <2>3. t \in Names /\ job[c].req.name \in Names /\ job[c].schema \in Schemas /\ job[c] \in Job /\ job[c].docs \in DocMap /\ job[c].batch \in Batch
    BY <1>0, <2>1, <2>2, InFlightParts DEF Fits, NoSchemaLabels
  <2>4. ThreadsOK'
    <3>1. Fits(job[c], "refill_storage")
      BY <2>2, <2>3 DEF Fits, Labels, Rollback, NoSchemaLabels
    <3>2. QED
      BY <1>0, <1>12, <2>1, <2>2, <2>3, <3>1, ThreadMoves, RollBackKeepsThreads DEF RefillVectors
  <2>5. QED
    BY <1>0, <1>12, <2>3, <2>4, StoresKept, VectorsUpsertTyped DEF RefillVectors, StoresOK, stores
<1>13. CASE RefillStorage(c)
  <2>1. pc[c] = "refill_storage"
    BY <1>13 DEF RefillStorage, At
  <2>2. Fits(job[c], "refill_storage") /\ op = "put"
    <3>1. Fits(job[c], "refill_storage")
      BY <1>0, <2>1, InFlightParts
    <3>2. QED
      BY <3>1, LabelKinds
  <2>3. t \in Names /\ job[c].req.name \in Names /\ job[c].schema \in Schemas /\ job[c] \in Job /\ job[c].docs \in DocMap /\ job[c].batch \in Batch
    BY <1>0, <2>1, <2>2, InFlightParts DEF Fits, NoSchemaLabels
  <2>4. ThreadsOK'
    <3>1. QED
      BY <1>0, <1>13, <2>1, <2>2, <2>3, ThreadReturns, RollBackKeepsThreads DEF RefillStorage
  <2>5. QED
    BY <1>0, <1>13, <2>3, <2>4, StoresKept, StorageTyped DEF RefillStorage, StoresOK, stores
<1>14. CASE RollbackStorage(c)
  <2>1. pc[c] = "rollback_storage"
    BY <1>14 DEF RollbackStorage, At
  <2>2. Fits(job[c], "rollback_storage") /\ op \in {"create", "put"}
    <3>1. Fits(job[c], "rollback_storage")
      BY <1>0, <2>1, InFlightParts
    <3>2. QED
      BY <3>1, LabelKinds
  <2>3. t \in Names /\ job[c].req.name \in Names /\ job[c].schema \in Schemas /\ job[c] \in Job /\ job[c].docs \in DocMap /\ job[c].batch \in Batch
    BY <1>0, <2>1, <2>2, InFlightParts DEF Fits, NoSchemaLabels
  <2>4. ThreadsOK'
    <3>1. Fits(job[c], "rollback_engine")
      BY <2>2, <2>3 DEF Fits, Labels, Rollback, NoSchemaLabels
    <3>2. QED
      BY <1>0, <1>14, <2>1, <2>2, <2>3, <3>1, ThreadMoves DEF RollbackStorage
  <2>5. QED
    BY <1>0, <1>14, <2>3, <2>4, StoresKept, StorageTyped DEF RollbackStorage, StoresOK, stores
<1>15. CASE RollbackEngine(c)
  <2>1. pc[c] = "rollback_engine"
    BY <1>15 DEF RollbackEngine, At
  <2>2. Fits(job[c], "rollback_engine") /\ op \in {"create", "put"}
    <3>1. Fits(job[c], "rollback_engine")
      BY <1>0, <2>1, InFlightParts
    <3>2. QED
      BY <3>1, LabelKinds
  <2>3. t \in Names /\ job[c].req.name \in Names /\ job[c].schema \in Schemas /\ job[c] \in Job /\ job[c].docs \in DocMap /\ job[c].batch \in Batch
    BY <1>0, <2>1, <2>2, InFlightParts DEF Fits, NoSchemaLabels
  <2>4. ThreadsOK'
    <3>1. Fits(job[c], "rollback_vectors")
      BY <2>2, <2>3 DEF Fits, Labels, Rollback, NoSchemaLabels
    <3>2. QED
      BY <1>0, <1>15, <2>1, <2>2, <2>3, <3>1, ThreadMoves DEF RollbackEngine
  <2>5. QED
    BY <1>0, <1>15, <2>3, <2>4, StoresKept, EngineTyped DEF RollbackEngine, StoresOK, stores
<1>16. CASE RollbackVectors(c)
  <2>1. pc[c] = "rollback_vectors"
    BY <1>16 DEF RollbackVectors, At
  <2>2. Fits(job[c], "rollback_vectors") /\ op \in {"create", "put"}
    <3>1. Fits(job[c], "rollback_vectors")
      BY <1>0, <2>1, InFlightParts
    <3>2. QED
      BY <3>1, LabelKinds
  <2>3. t \in Names /\ job[c].req.name \in Names /\ job[c].schema \in Schemas /\ job[c] \in Job /\ job[c].docs \in DocMap /\ job[c].batch \in Batch
    BY <1>0, <2>1, <2>2, InFlightParts DEF Fits, NoSchemaLabels
  <2>4. ThreadsOK'
    <3>1. job[c].failure \in Statuses
      BY <2>3 DEF Job
    <3>2. QED
      BY <1>0, <1>16, <2>1, <3>1, ThreadReturns DEF RollbackVectors
  <2>5. QED
    BY <1>0, <1>16, <2>3, <2>4, StoresKept, VectorsDeleteTyped DEF RollbackVectors, StoresOK, stores
<1>17. CASE DeleteStorage(c)
  <2>1. pc[c] = "delete_storage"
    BY <1>17 DEF DeleteStorage, At
  <2>2. Fits(job[c], "delete_storage") /\ op = "delete"
    <3>1. Fits(job[c], "delete_storage")
      BY <1>0, <2>1, InFlightParts
    <3>2. QED
      BY <3>1, LabelKinds
  <2>3. t \in Names /\ job[c].req.name \in Names /\ job[c] \in Job /\ job[c].docs \in DocMap /\ job[c].batch \in Batch
    BY <1>0, <2>1, <2>2, InFlightParts DEF Fits, NoSchemaLabels
  <2>4. ThreadsOK'
    <3>1. Fits(job[c], "delete_engine")
      BY <2>2, <2>3 DEF Fits, Labels, Rollback, NoSchemaLabels
    <3>2. QED
      BY <1>0, <1>17, <2>1, <2>2, <2>3, <3>1, ThreadMoves, ThreadReturns DEF DeleteStorage
  <2>5. QED
    BY <1>0, <1>17, <2>3, <2>4, StoresKept, StorageTyped DEF DeleteStorage, StoresOK, stores
<1>18. CASE DeleteEngine(c)
  <2>1. pc[c] = "delete_engine"
    BY <1>18 DEF DeleteEngine, At
  <2>2. Fits(job[c], "delete_engine") /\ op = "delete"
    <3>1. Fits(job[c], "delete_engine")
      BY <1>0, <2>1, InFlightParts
    <3>2. QED
      BY <3>1, LabelKinds
  <2>3. t \in Names /\ job[c].req.name \in Names /\ job[c] \in Job /\ job[c].docs \in DocMap /\ job[c].batch \in Batch
    BY <1>0, <2>1, <2>2, InFlightParts DEF Fits, NoSchemaLabels
  <2>4. ThreadsOK'
    <3>1. Fits(job[c], "delete_vectors")
      BY <2>2, <2>3 DEF Fits, Labels, Rollback, NoSchemaLabels
    <3>2. QED
      BY <1>0, <1>18, <2>1, <2>2, <2>3, <3>1, ThreadMoves DEF DeleteEngine
  <2>5. QED
    BY <1>0, <1>18, <2>3, <2>4, StoresKept, EngineTyped DEF DeleteEngine, StoresOK, stores
<1>19. CASE DeleteVectors(c)
  <2>1. pc[c] = "delete_vectors"
    BY <1>19 DEF DeleteVectors, At
  <2>2. Fits(job[c], "delete_vectors") /\ op = "delete"
    <3>1. Fits(job[c], "delete_vectors")
      BY <1>0, <2>1, InFlightParts
    <3>2. QED
      BY <3>1, LabelKinds
  <2>3. t \in Names /\ job[c].req.name \in Names /\ job[c] \in Job /\ job[c].docs \in DocMap /\ job[c].batch \in Batch
    BY <1>0, <2>1, <2>2, InFlightParts DEF Fits, NoSchemaLabels
  <2>4. ThreadsOK'
    <3>1. QED
      BY <1>0, <1>19, <2>1, <2>2, <2>3, ThreadReturns DEF DeleteVectors
  <2>5. QED
    BY <1>0, <1>19, <2>3, <2>4, StoresKept, VectorsDeleteTyped DEF DeleteVectors, StoresOK, stores
<1>20. CASE ResetStorage(c)
  <2>1. pc[c] = "reset_storage"
    BY <1>20 DEF ResetStorage, At
  <2>2. Fits(job[c], "reset_storage") /\ op = "reset"
    <3>1. Fits(job[c], "reset_storage")
      BY <1>0, <2>1, InFlightParts
    <3>2. QED
      BY <3>1, LabelKinds
  <2>3. TRUE /\ job[c] \in Job /\ job[c].docs \in DocMap /\ job[c].batch \in Batch
    BY <1>0, <2>1, <2>2, InFlightParts DEF Fits, NoSchemaLabels
  <2>4. ThreadsOK'
    <3>1. Fits(job[c], "reset_engine")
      BY <2>2, <2>3 DEF Fits, Labels, Rollback, NoSchemaLabels
    <3>2. QED
      BY <1>0, <1>20, <2>1, <2>2, <2>3, <3>1, ThreadMoves DEF ResetStorage
  <2>5. QED
    BY <1>0, <1>20, <2>3, <2>4, StoresKept, EmptyStoresTyped DEF ResetStorage, StoresOK, stores
<1>21. CASE ResetEngine(c)
  <2>1. pc[c] = "reset_engine"
    BY <1>21 DEF ResetEngine, At
  <2>2. Fits(job[c], "reset_engine") /\ op = "reset"
    <3>1. Fits(job[c], "reset_engine")
      BY <1>0, <2>1, InFlightParts
    <3>2. QED
      BY <3>1, LabelKinds
  <2>3. TRUE /\ job[c] \in Job /\ job[c].docs \in DocMap /\ job[c].batch \in Batch
    BY <1>0, <2>1, <2>2, InFlightParts DEF Fits, NoSchemaLabels
  <2>4. ThreadsOK'
    <3>1. Fits(job[c], "reset_vectors")
      BY <2>2, <2>3 DEF Fits, Labels, Rollback, NoSchemaLabels
    <3>2. QED
      BY <1>0, <1>21, <2>1, <2>2, <2>3, <3>1, ThreadMoves DEF ResetEngine
  <2>5. QED
    BY <1>0, <1>21, <2>3, <2>4, StoresKept, EmptyStoresTyped DEF ResetEngine, StoresOK, stores
<1>22. CASE ResetVectors(c)
  <2>1. pc[c] = "reset_vectors"
    BY <1>22 DEF ResetVectors, At
  <2>2. Fits(job[c], "reset_vectors") /\ op = "reset"
    <3>1. Fits(job[c], "reset_vectors")
      BY <1>0, <2>1, InFlightParts
    <3>2. QED
      BY <3>1, LabelKinds
  <2>3. TRUE /\ job[c] \in Job /\ job[c].docs \in DocMap /\ job[c].batch \in Batch
    BY <1>0, <2>1, <2>2, InFlightParts DEF Fits, NoSchemaLabels
  <2>4. ThreadsOK'
    <3>1. Fits(job[c], "reset_alias")
      BY <2>2, <2>3 DEF Fits, Labels, Rollback, NoSchemaLabels
    <3>2. QED
      BY <1>0, <1>22, <2>1, <2>2, <2>3, <3>1, ThreadMoves DEF ResetVectors
  <2>5. QED
    BY <1>0, <1>22, <2>3, <2>4, StoresKept, EmptyStoresTyped DEF ResetVectors, StoresOK, stores
<1>23. CASE ResetAliases(c)
  <2>1. pc[c] = "reset_alias"
    BY <1>23 DEF ResetAliases, At
  <2>2. Fits(job[c], "reset_alias") /\ op = "reset"
    <3>1. Fits(job[c], "reset_alias")
      BY <1>0, <2>1, InFlightParts
    <3>2. QED
      BY <3>1, LabelKinds
  <2>3. TRUE /\ job[c] \in Job /\ job[c].docs \in DocMap /\ job[c].batch \in Batch
    BY <1>0, <2>1, <2>2, InFlightParts DEF Fits, NoSchemaLabels
  <2>4. ThreadsOK'
    <3>1. QED
      BY <1>0, <1>23, <2>1, <2>2, <2>3, ThreadReturns DEF ResetAliases
  <2>5. QED
    BY <1>0, <1>23, <2>3, <2>4, StoresKept, EmptyStoresTyped DEF ResetAliases, StoresOK, stores
<1>24. QED
  BY <1>1, <1>2, <1>3, <1>4, <1>5, <1>6, <1>7, <1>8, <1>9, <1>10, <1>11, <1>12, <1>13, <1>14, <1>15, <1>16, <1>17, <1>18, <1>19, <1>20, <1>21, <1>22, <1>23 DEF LifecycleStep

\* The steps of index_documents keep the invariant.
LEMMA IngestKeepsInv ==
    ASSUME Inv, NEW c \in Clients, IngestStep(c)
    PROVE  Inv'
<1> DEFINE t == job[c].target
           op == job[c].req.op
<1>0. /\ StoresOK /\ ThreadsOK /\ LengthsFit(vectors)
      /\ {200, 201, 204, 400, 404, 409, 500} \subseteq Statuses
  BY DEF Inv, Statuses
<1>1. CASE FoldAction(c)
  <2>1. pc[c] = "apply_action"
    BY <1>1 DEF FoldAction, At
  <2>2. Fits(job[c], "apply_action") /\ op = "index"
    <3>1. Fits(job[c], "apply_action")
      BY <1>0, <2>1, InFlightParts
    <3>2. QED
      BY <3>1, LabelKinds
  <2>3. t \in Names /\ job[c].req.name \in Names /\ job[c].schema \in Schemas /\ job[c] \in Job /\ job[c].docs \in DocMap /\ job[c].batch \in Batch
    BY <1>0, <2>1, <2>2, InFlightParts DEF Fits, NoSchemaLabels
  <2>4. ThreadsOK'
    <3> DEFINE a == NextAction(c)
               b == job[c].batch
               entry == storage[t]
               stored == IF entry = NoIndex THEN NoDocs ELSE entry.docs
               lost == entry = NoIndex /\ a.kind # "upload" /\ b.upserts[a.key] = NoDoc
    <3>1. a \in Action /\ a.key \in Keys
      <4>1. job[c].req.actions \in Seq(Action) /\ b.results \in Seq(Result)
        BY <1>0, <2>1, <2>2, <2>3, InFlightParts, RequestParts DEF Batch
      <4>2. Len(b.results) < Len(job[c].req.actions)
        BY <1>1 DEF FoldAction, MoreActions
      <4>3. Len(b.results) + 1 \in 1..Len(job[c].req.actions)
        BY <4>1, <4>2
      <4>4. a \in Action
        BY <4>1, <4>3 DEF NextAction
      <4>5. QED
        BY <4>4 DEF Action
    <3>2. stored \in DocMap
      BY <1>0, <2>3, NoDocsTyped DEF StoresOK, Storage, IndexEntry
    <3>3. ASSUME NEW x \in Batch, Goto(c, "apply_action"), job' = [job EXCEPT ![c].batch = x]
          PROVE  ThreadsOK'
      <4> DEFINE j == [job[c] EXCEPT !.batch = x]
      <4>1. j \in Job /\ j.req = job[c].req /\ j.schema = job[c].schema
              /\ j.target = t /\ j.docs = job[c].docs
        BY <2>3, JobUpdates DEF Job
      <4>2. Fits(j, "apply_action")
        BY <2>2, <2>3, <4>1 DEF Fits
      <4>3. job' = [job EXCEPT ![c] = j]
        BY <3>3
      <4> HIDE DEF j
      <4>4. QED
        BY <1>0, <3>3, <4>2, <4>3, ThreadContinues
    <3>4. Respond(b, a.key, 400) \in Batch
      BY <1>0, <2>3, <3>1, RespondTyped
    <3>5. ApplyAction(job[c].schema, stored, b, a) \in Batch
      BY <2>3, <3>1, <3>2, ApplyActionTyped
    <3>6. \/ Return(c, 404)
          \/ Goto(c, "apply_action") /\ job' = [job EXCEPT ![c].batch = Respond(b, a.key, 400)]
          \/ Goto(c, "apply_action") /\ job' = [job EXCEPT ![c].batch = ApplyAction(job[c].schema, stored, b, a)]
      BY <1>1 DEF FoldAction
    <3> HIDE DEF a, b, stored
    <3>7. QED
      BY <1>0, <2>1, <3>3, <3>4, <3>5, <3>6, ThreadReturns
  <2>5. QED
    BY <1>0, <1>1, <2>3, <2>4, StoresKept DEF FoldAction, StoresOK, stores
<1>2. CASE BeginWrites(c)
  <2>1. pc[c] = "apply_action"
    BY <1>2 DEF BeginWrites, At
  <2>2. Fits(job[c], "apply_action") /\ op = "index"
    <3>1. Fits(job[c], "apply_action")
      BY <1>0, <2>1, InFlightParts
    <3>2. QED
      BY <3>1, LabelKinds
  <2>3. t \in Names /\ job[c].req.name \in Names /\ job[c].schema \in Schemas /\ job[c] \in Job /\ job[c].docs \in DocMap /\ job[c].batch \in Batch
    BY <1>0, <2>1, <2>2, InFlightParts DEF Fits, NoSchemaLabels
  <2>4. ThreadsOK'
    <3>1. ASSUME Proceed(c, 0) PROVE ThreadsOK'
      BY <1>0, <2>1, <2>2, <2>3, <3>1, ProceedKeepsThreads
    <3>2. QED
      BY <1>0, <1>2, <2>1, <3>1 DEF BeginWrites
  <2>5. QED
    BY <1>0, <1>2, <2>3, <2>4, StoresKept DEF BeginWrites, StoresOK, stores
<1>3. CASE WriteEngineDelete(c)
  <2>1. pc[c] = "engine_delete"
    BY <1>3 DEF WriteEngineDelete, At
  <2>2. Fits(job[c], "engine_delete") /\ op = "index"
    <3>1. Fits(job[c], "engine_delete")
      BY <1>0, <2>1, InFlightParts
    <3>2. QED
      BY <3>1, LabelKinds
  <2>3. t \in Names /\ job[c].req.name \in Names /\ job[c].schema \in Schemas /\ job[c] \in Job /\ job[c].docs \in DocMap /\ job[c].batch \in Batch
    BY <1>0, <2>1, <2>2, InFlightParts DEF Fits, NoSchemaLabels
  <2>4. ThreadsOK'
    <3>1. ASSUME Proceed(c, 1) PROVE ThreadsOK'
      BY <1>0, <2>1, <2>2, <2>3, <3>1, ProceedKeepsThreads
    <3>2. QED
      BY <1>0, <1>3, <2>1, <3>1, ThreadReturns DEF WriteEngineDelete
  <2>5. QED
    BY <1>0, <1>3, <2>3, <2>4, StoresKept, EngineTyped DEF WriteEngineDelete, StoresOK, stores
<1>4. CASE WriteEngineIndex(c)
  <2>1. pc[c] = "engine_index"
    BY <1>4 DEF WriteEngineIndex, At
  <2>2. Fits(job[c], "engine_index") /\ op = "index"
    <3>1. Fits(job[c], "engine_index")
      BY <1>0, <2>1, InFlightParts
    <3>2. QED
      BY <3>1, LabelKinds
  <2>3. t \in Names /\ job[c].req.name \in Names /\ job[c].schema \in Schemas /\ job[c] \in Job /\ job[c].docs \in DocMap /\ job[c].batch \in Batch
    BY <1>0, <2>1, <2>2, InFlightParts DEF Fits, NoSchemaLabels
  <2>4. ThreadsOK'
    <3>1. ASSUME Proceed(c, 2) PROVE ThreadsOK'
      BY <1>0, <2>1, <2>2, <2>3, <3>1, ProceedKeepsThreads
    <3>2. QED
      BY <1>0, <1>4, <2>1, <3>1, ThreadReturns DEF WriteEngineIndex
  <2>5. QED
    BY <1>0, <1>4, <2>3, <2>4, StoresKept, EngineTyped, UpsertsTyped DEF WriteEngineIndex, StoresOK, stores
<1>5. CASE WriteVectorsDelete(c)
  <2>1. pc[c] = "vectors_delete"
    BY <1>5 DEF WriteVectorsDelete, At
  <2>2. Fits(job[c], "vectors_delete") /\ op = "index"
    <3>1. Fits(job[c], "vectors_delete")
      BY <1>0, <2>1, InFlightParts
    <3>2. QED
      BY <3>1, LabelKinds
  <2>3. t \in Names /\ job[c].req.name \in Names /\ job[c].schema \in Schemas /\ job[c] \in Job /\ job[c].docs \in DocMap /\ job[c].batch \in Batch
    BY <1>0, <2>1, <2>2, InFlightParts DEF Fits, NoSchemaLabels
  <2>4. ThreadsOK'
    <3>1. ASSUME Proceed(c, 3) PROVE ThreadsOK'
      BY <1>0, <2>1, <2>2, <2>3, <3>1, ProceedKeepsThreads
    <3>2. QED
      BY <1>0, <1>5, <2>1, <3>1 DEF WriteVectorsDelete
  <2>5. QED
    BY <1>0, <1>5, <2>3, <2>4, StoresKept, VectorsRemoveTyped DEF WriteVectorsDelete, StoresOK, stores
<1>6. CASE WriteVectorsTrim(c)
  <2>1. pc[c] = "vectors_trim"
    BY <1>6 DEF WriteVectorsTrim, At
  <2>2. Fits(job[c], "vectors_trim") /\ op = "index"
    <3>1. Fits(job[c], "vectors_trim")
      BY <1>0, <2>1, InFlightParts
    <3>2. QED
      BY <3>1, LabelKinds
  <2>3. t \in Names /\ job[c].req.name \in Names /\ job[c].schema \in Schemas /\ job[c] \in Job /\ job[c].docs \in DocMap /\ job[c].batch \in Batch
    BY <1>0, <2>1, <2>2, InFlightParts DEF Fits, NoSchemaLabels
  <2>4. ThreadsOK'
    <3>1. ASSUME Proceed(c, 4) PROVE ThreadsOK'
      BY <1>0, <2>1, <2>2, <2>3, <3>1, ProceedKeepsThreads
    <3>2. QED
      BY <1>0, <1>6, <2>1, <3>1, ThreadReturns DEF WriteVectorsTrim
  <2>5. QED
    BY <1>0, <1>6, <2>3, <2>4, StoresKept, VectorsRemoveTyped DEF WriteVectorsTrim, StoresOK, stores
<1>7. CASE WriteVectorsUpsert(c)
  <2>1. pc[c] = "vectors_upsert"
    BY <1>7 DEF WriteVectorsUpsert, At
  <2>2. Fits(job[c], "vectors_upsert") /\ op = "index"
    <3>1. Fits(job[c], "vectors_upsert")
      BY <1>0, <2>1, InFlightParts
    <3>2. QED
      BY <3>1, LabelKinds
  <2>3. t \in Names /\ job[c].req.name \in Names /\ job[c].schema \in Schemas /\ job[c] \in Job /\ job[c].docs \in DocMap /\ job[c].batch \in Batch
    BY <1>0, <2>1, <2>2, InFlightParts DEF Fits, NoSchemaLabels
  <2>4. ThreadsOK'
    <3>1. ASSUME Proceed(c, 5) PROVE ThreadsOK'
      BY <1>0, <2>1, <2>2, <2>3, <3>1, ProceedKeepsThreads
    <3>2. QED
      BY <1>0, <1>7, <2>1, <3>1, ThreadReturns DEF WriteVectorsUpsert
  <2>5. QED
    BY <1>0, <1>7, <2>3, <2>4, StoresKept, VectorsUpsertTyped, UpsertsTyped DEF WriteVectorsUpsert, StoresOK, stores
<1>8. CASE WriteStoragePut(c)
  <2>1. pc[c] = "storage_put"
    BY <1>8 DEF WriteStoragePut, At
  <2>2. Fits(job[c], "storage_put") /\ op = "index"
    <3>1. Fits(job[c], "storage_put")
      BY <1>0, <2>1, InFlightParts
    <3>2. QED
      BY <3>1, LabelKinds
  <2>3. t \in Names /\ job[c].req.name \in Names /\ job[c].schema \in Schemas /\ job[c] \in Job /\ job[c].docs \in DocMap /\ job[c].batch \in Batch
    BY <1>0, <2>1, <2>2, InFlightParts DEF Fits, NoSchemaLabels
  <2>4. ThreadsOK'
    <3>1. ASSUME Proceed(c, 6) PROVE ThreadsOK'
      BY <1>0, <2>1, <2>2, <2>3, <3>1, ProceedKeepsThreads
    <3>2. QED
      BY <1>0, <1>8, <2>1, <3>1, ThreadReturns DEF WriteStoragePut
  <2>5. QED
    BY <1>0, <1>8, <2>3, <2>4, StoresKept, StorageTyped, UpsertsTyped DEF WriteStoragePut, StoresOK, stores
<1>9. CASE WriteStorageDelete(c)
  <2>1. pc[c] = "storage_delete"
    BY <1>9 DEF WriteStorageDelete, At
  <2>2. Fits(job[c], "storage_delete") /\ op = "index"
    <3>1. Fits(job[c], "storage_delete")
      BY <1>0, <2>1, InFlightParts
    <3>2. QED
      BY <3>1, LabelKinds
  <2>3. t \in Names /\ job[c].req.name \in Names /\ job[c].schema \in Schemas /\ job[c] \in Job /\ job[c].docs \in DocMap /\ job[c].batch \in Batch
    BY <1>0, <2>1, <2>2, InFlightParts DEF Fits, NoSchemaLabels
  <2>4. ThreadsOK'
    <3>1. ASSUME Proceed(c, 7) PROVE ThreadsOK'
      BY <1>0, <2>1, <2>2, <2>3, <3>1, ProceedKeepsThreads
    <3>2. QED
      BY <1>0, <1>9, <2>1, <3>1, ThreadReturns DEF WriteStorageDelete
  <2>5. QED
    BY <1>0, <1>9, <2>3, <2>4, StoresKept, StorageTyped DEF WriteStorageDelete, StoresOK, stores
<1>10. QED
  BY <1>1, <1>2, <1>3, <1>4, <1>5, <1>6, <1>7, <1>8, <1>9 DEF IngestStep

\* The steps of search, get_document and count_documents keep the invariant.
LEMMA ReadsKeepInv ==
    ASSUME Inv, NEW c \in Clients, ReadStep(c)
    PROVE  Inv'
<1> DEFINE t == job[c].target
           op == job[c].req.op
<1>0. /\ StoresOK /\ ThreadsOK /\ LengthsFit(vectors)
      /\ {200, 201, 204, 400, 404, 409, 500} \subseteq Statuses
  BY DEF Inv, Statuses
<1>1. CASE ParseResolve(c)
  <2>1. pc[c] = "parse_resolve"
    BY <1>1 DEF ParseResolve, At
  <2>2. Fits(job[c], "parse_resolve") /\ op = "search"
    <3>1. Fits(job[c], "parse_resolve")
      BY <1>0, <2>1, InFlightParts
    <3>2. QED
      BY <3>1, LabelKinds
  <2>3. t \in Names /\ job[c].req.name \in Names /\ job[c] \in Job /\ job[c].docs \in DocMap /\ job[c].batch \in Batch
    BY <1>0, <2>1, <2>2, InFlightParts DEF Fits, NoSchemaLabels
  <2>4. ThreadsOK'
    <3> DEFINE j == [job[c] EXCEPT !.target = Resolve(alias, job[c].req.name)]
    <3>1. Resolve(alias, job[c].req.name) \in Names
      BY <1>0, <2>3 DEF Resolve, StoresOK, Aliases
    <3>2. j \in Job /\ j.req = job[c].req /\ j.target \in Names
      BY <2>3, <3>1, JobUpdates DEF Job
    <3>3. Fits(j, "parse_require")
      BY <2>2, <3>2 DEF Fits, Labels, NoSchemaLabels
    <3>4. job' = [job EXCEPT ![c] = j] /\ Goto(c, "parse_require")
      BY <1>1 DEF ParseResolve
    <3> HIDE DEF j
    <3>5. QED
      BY <1>0, <3>3, <3>4, ThreadContinues
  <2>5. QED
    BY <1>0, <1>1, <2>3, <2>4, StoresKept DEF ParseResolve, StoresOK, stores
<1>2. CASE ParseRequire(c)
  <2>1. pc[c] = "parse_require"
    BY <1>2 DEF ParseRequire, At
  <2>2. Fits(job[c], "parse_require") /\ op = "search"
    <3>1. Fits(job[c], "parse_require")
      BY <1>0, <2>1, InFlightParts
    <3>2. QED
      BY <3>1, LabelKinds
  <2>3. t \in Names /\ job[c].req.name \in Names /\ job[c] \in Job /\ job[c].docs \in DocMap /\ job[c].batch \in Batch
    BY <1>0, <2>1, <2>2, InFlightParts DEF Fits, NoSchemaLabels
  <2>4. ThreadsOK'
    <3>1. Fits(job[c], "resolve")
      BY <2>2, <2>3 DEF Fits, Labels, Rollback, NoSchemaLabels
    <3>2. QED
      BY <1>0, <1>2, <2>1, <2>2, <2>3, <3>1, ThreadMoves, ThreadReturns DEF ParseRequire
  <2>5. QED
    BY <1>0, <1>2, <2>3, <2>4, StoresKept DEF ParseRequire, StoresOK, stores
<1>3. CASE SearchDocuments(c)
  <2>1. pc[c] = "search_documents"
    BY <1>3 DEF SearchDocuments, At
  <2>2. Fits(job[c], "search_documents") /\ op = "search"
    <3>1. Fits(job[c], "search_documents")
      BY <1>0, <2>1, InFlightParts
    <3>2. QED
      BY <3>1, LabelKinds
  <2>3. t \in Names /\ job[c].req.name \in Names /\ job[c] \in Job /\ job[c].docs \in DocMap /\ job[c].batch \in Batch
    BY <1>0, <2>1, <2>2, InFlightParts DEF Fits, NoSchemaLabels
  <2>4. ThreadsOK'
    <3>1. CASE Return(c, 404)
      BY <1>0, <2>1, <3>1, ThreadReturns
    <3>2. CASE /\ storage[t] # NoIndex
               /\ job' = [job EXCEPT ![c].docs = storage[t].docs]
               /\ Goto(c, IF job[c].req.query.vector = 0 THEN "search_engine" ELSE "search_vectors")
      <4> DEFINE j == [job[c] EXCEPT !.docs = storage[t].docs]
      <4>1. storage[t].docs \in DocMap
        BY <1>0, <2>3, <3>2 DEF StoresOK, Storage, IndexEntry
      <4>2. j \in Job /\ j.req = job[c].req /\ j.target = t /\ j.schema = job[c].schema
        BY <2>3, <4>1, JobUpdates DEF Job
      <4>3. Fits(j, "search_engine") /\ Fits(j, "search_vectors")
        BY <2>2, <4>2 DEF Fits, Labels, NoSchemaLabels
      <4>4. job' = [job EXCEPT ![c] = j]
        BY <3>2
      <4> HIDE DEF j
      <4>5. QED
        BY <1>0, <3>2, <4>3, <4>4, ThreadContinues
    <3>3. QED
      BY <1>3, <3>1, <3>2 DEF SearchDocuments
  <2>5. QED
    BY <1>0, <1>3, <2>3, <2>4, StoresKept DEF SearchDocuments, StoresOK, stores
<1>4. CASE SearchVectors(c)
  <2>1. pc[c] = "search_vectors"
    BY <1>4 DEF SearchVectors, At
  <2>2. Fits(job[c], "search_vectors") /\ op = "search"
    <3>1. Fits(job[c], "search_vectors")
      BY <1>0, <2>1, InFlightParts
    <3>2. QED
      BY <3>1, LabelKinds
  <2>3. t \in Names /\ job[c].req.name \in Names /\ job[c] \in Job /\ job[c].docs \in DocMap /\ job[c].batch \in Batch
    BY <1>0, <2>1, <2>2, InFlightParts DEF Fits, NoSchemaLabels
  <2>4. ThreadsOK'
    <3> DEFINE hits == VectorHits(vectors, t)
               j == [job[c] EXCEPT !.found = hits]
    <3>1. hits \in SUBSET Keys
      BY DEF VectorHits
    <3>2. j \in Job /\ j.req = job[c].req /\ j.target = t /\ j.schema = job[c].schema
      BY <2>3, <3>1, JobUpdates DEF Job
    <3>3. Fits(j, "search_engine")
      BY <2>2, <3>2 DEF Fits, Labels, NoSchemaLabels
    <3>4. OnlyKeys(job[c].docs, hits) \in DocMap /\ <<>> \in Seq(Result)
      BY <2>3, OnlyKeysTyped
    <3>5. \/ Goto(c, "search_engine") /\ job' = [job EXCEPT ![c] = j]
          \/ Answer(c, 200, <<>>, OnlyKeys(job[c].docs, hits))
      BY <1>4 DEF SearchVectors
    <3>6. ThreadsOK /\ pc[c] # "idle" /\ 200 \in Statuses
      BY <1>0, <2>1
    <3> HIDE DEF hits, j
    <3>7. CASE Goto(c, "search_engine") /\ job' = [job EXCEPT ![c] = j]
      BY <3>3, <3>6, <3>7, ThreadContinues
    <3>8. CASE Answer(c, 200, <<>>, OnlyKeys(job[c].docs, hits))
      <4> DEFINE docs == OnlyKeys(job[c].docs, hits)
      <4>1. docs \in DocMap /\ <<>> \in Seq(Result) /\ Answer(c, 200, <<>>, docs)
        BY <3>4, <3>8
      <4> HIDE DEF docs
      <4>2. QED
        BY <3>6, <4>1, ThreadAnswers
    <3>9. QED
      BY <3>5, <3>7, <3>8
  <2>5. QED
    BY <1>0, <1>4, <2>3, <2>4, StoresKept DEF SearchVectors, StoresOK, stores
<1>5. CASE SearchEngine(c)
  <2>1. pc[c] = "search_engine"
    BY <1>5 DEF SearchEngine, At
  <2>2. Fits(job[c], "search_engine") /\ op = "search"
    <3>1. Fits(job[c], "search_engine")
      BY <1>0, <2>1, InFlightParts
    <3>2. QED
      BY <3>1, LabelKinds
  <2>3. t \in Names /\ job[c].req.name \in Names /\ job[c] \in Job /\ job[c].docs \in DocMap /\ job[c].batch \in Batch
    BY <1>0, <2>1, <2>2, InFlightParts DEF Fits, NoSchemaLabels
  <2>4. ThreadsOK'
    <3> DEFINE ks == job[c].found \cup EngineMatches(engine, t, job[c].req.query.text)
    <3>1. OnlyKeys(job[c].docs, ks) \in DocMap /\ <<>> \in Seq(Result)
      BY <2>3, OnlyKeysTyped
    <3>2. Return(c, 404) \/ Answer(c, 200, <<>>, OnlyKeys(job[c].docs, ks))
      BY <1>5 DEF SearchEngine
    <3> HIDE DEF ks
    <3>3. CASE Return(c, 404)
      BY <1>0, <2>1, <3>3, ThreadReturns
    <3>4. CASE Answer(c, 200, <<>>, OnlyKeys(job[c].docs, ks))
      <4> DEFINE docs == OnlyKeys(job[c].docs, ks)
      <4>1. docs \in DocMap /\ <<>> \in Seq(Result) /\ Answer(c, 200, <<>>, docs)
        BY <3>1, <3>4
      <4>2. ThreadsOK /\ pc[c] # "idle" /\ 200 \in Statuses
        BY <1>0, <2>1
      <4> HIDE DEF docs
      <4>3. QED
        BY <4>1, <4>2, ThreadAnswers
    <3>5. QED
      BY <3>2, <3>3, <3>4
  <2>5. QED
    BY <1>0, <1>5, <2>3, <2>4, StoresKept DEF SearchEngine, StoresOK, stores
<1>6. CASE ReadDocuments(c)
  <2>1. pc[c] = "read_documents"
    BY <1>6 DEF ReadDocuments, At
  <2>2. Fits(job[c], "read_documents") /\ op \in {"get", "count"}
    <3>1. Fits(job[c], "read_documents")
      BY <1>0, <2>1, InFlightParts
    <3>2. QED
      BY <3>1, LabelKinds
  <2>3. t \in Names /\ job[c].req.name \in Names /\ job[c] \in Job /\ job[c].docs \in DocMap /\ job[c].batch \in Batch
    BY <1>0, <2>1, <2>2, InFlightParts DEF Fits, NoSchemaLabels
  <2>4. ThreadsOK'
    <3> DEFINE docs == storage[t].docs
    <3>1. storage[t] # NoIndex => docs \in DocMap
      BY <1>0, <2>3 DEF StoresOK, Storage, IndexEntry
    <3>2. storage[t] # NoIndex => OnlyKeys(docs, {job[c].req.key}) \in DocMap
      BY <3>1, OnlyKeysTyped
    <3>3. <<>> \in Seq(Result)
      OBVIOUS
    <3>4. \/ Return(c, 404)
          \/ storage[t] # NoIndex /\ Answer(c, 200, <<>>, docs)
          \/ storage[t] # NoIndex /\ Answer(c, 200, <<>>, OnlyKeys(docs, {job[c].req.key}))
      BY <1>6 DEF ReadDocuments
    <3> HIDE DEF docs
    <3>5. CASE Return(c, 404)
      BY <1>0, <2>1, <3>5, ThreadReturns
    <3>6. CASE storage[t] # NoIndex /\ Answer(c, 200, <<>>, docs)
      BY <1>0, <2>1, <3>1, <3>3, <3>6, ThreadAnswers
    <3>7. CASE storage[t] # NoIndex /\ Answer(c, 200, <<>>, OnlyKeys(docs, {job[c].req.key}))
      BY <1>0, <2>1, <3>2, <3>3, <3>7, ThreadAnswers
    <3>8. QED
      BY <3>4, <3>5, <3>6, <3>7
  <2>5. QED
    BY <1>0, <1>6, <2>3, <2>4, StoresKept DEF ReadDocuments, StoresOK, stores
<1>7. QED
  BY <1>1, <1>2, <1>3, <1>4, <1>5, <1>6 DEF ReadStep

\* The steps of the alias handlers keep the invariant.
LEMMA AliasesKeepInv ==
    ASSUME Inv, NEW c \in Clients, AliasStep(c)
    PROVE  Inv'
<1> DEFINE t == job[c].target
           op == job[c].req.op
<1>0. /\ StoresOK /\ ThreadsOK /\ LengthsFit(vectors)
      /\ {200, 201, 204, 400, 404, 409, 500} \subseteq Statuses
  BY DEF Inv, Statuses
<1>1. CASE CheckIndex(c)
  <2>1. pc[c] = "check_index"
    BY <1>1 DEF CheckIndex, At
  <2>2. Fits(job[c], "check_index") /\ op \in {"createAlias", "putAlias"}
    <3>1. Fits(job[c], "check_index")
      BY <1>0, <2>1, InFlightParts
    <3>2. QED
      BY <3>1, LabelKinds
  <2>3. t \in Names /\ job[c].req.name \in Names /\ job[c] \in Job /\ job[c].docs \in DocMap /\ job[c].batch \in Batch
    BY <1>0, <2>1, <2>2, InFlightParts DEF Fits, NoSchemaLabels
  <2>4. ThreadsOK'
    <3>1. Fits(job[c], "store_alias")
      BY <2>2, <2>3 DEF Fits, Labels, Rollback, NoSchemaLabels
    <3>2. QED
      BY <1>0, <1>1, <2>1, <2>2, <2>3, <3>1, ThreadMoves, ThreadReturns DEF CheckIndex
  <2>5. QED
    BY <1>0, <1>1, <2>3, <2>4, StoresKept DEF CheckIndex, StoresOK, stores
<1>2. CASE StoreAlias(c)
  <2>1. pc[c] = "store_alias"
    BY <1>2 DEF StoreAlias, At
  <2>2. Fits(job[c], "store_alias") /\ op \in {"createAlias", "putAlias"}
    <3>1. Fits(job[c], "store_alias")
      BY <1>0, <2>1, InFlightParts
    <3>2. QED
      BY <3>1, LabelKinds
  <2>3. t \in Names /\ job[c].req.name \in Names /\ job[c] \in Job /\ job[c].docs \in DocMap /\ job[c].batch \in Batch
    BY <1>0, <2>1, <2>2, InFlightParts DEF Fits, NoSchemaLabels
  <2>4. ThreadsOK'
    <3>1. QED
      BY <1>0, <1>2, <2>1, <2>2, <2>3, ThreadReturns DEF StoreAlias
  <2>5. alias' = alias \/ alias' \in Aliases
    <3>1. job[c].req.target \in Names
      BY <2>2, <2>3, RequestParts DEF Job
    <3>2. alias \in Aliases
      BY <1>0 DEF StoresOK
    <3>3. UNCHANGED alias \/ alias' = [alias EXCEPT ![t] = job[c].req.target]
      BY <1>2 DEF StoreAlias
    <3>4. QED
      BY <2>3, <3>1, <3>2, <3>3, AliasTyped
  <2>6. QED
    BY <1>0, <1>2, <2>3, <2>4, StoresKept, <2>5 DEF StoreAlias, StoresOK, stores
<1>3. CASE DeleteAlias(c)
  <2>1. pc[c] = "delete_alias"
    BY <1>3 DEF DeleteAlias, At
  <2>2. Fits(job[c], "delete_alias") /\ op = "deleteAlias"
    <3>1. Fits(job[c], "delete_alias")
      BY <1>0, <2>1, InFlightParts
    <3>2. QED
      BY <3>1, LabelKinds
  <2>3. t \in Names /\ job[c].req.name \in Names /\ job[c] \in Job /\ job[c].docs \in DocMap /\ job[c].batch \in Batch
    BY <1>0, <2>1, <2>2, InFlightParts DEF Fits, NoSchemaLabels
  <2>4. ThreadsOK'
    <3>1. QED
      BY <1>0, <1>3, <2>1, <2>2, <2>3, ThreadReturns DEF DeleteAlias
  <2>5. QED
    BY <1>0, <1>3, <2>3, <2>4, StoresKept, AliasTyped DEF DeleteAlias, StoresOK, stores
<1>4. QED
  BY <1>1, <1>2, <1>3 DEF AliasStep

\* Resolving a name and requiring its index keep the invariant.
LEMMA ResolutionKeepsInv ==
    ASSUME Inv, NEW c \in Clients, ResolveName(c) \/ RequireIndex(c)
    PROVE  Inv'
<1> DEFINE t == job[c].target
           op == job[c].req.op
<1>0. /\ StoresOK /\ ThreadsOK /\ LengthsFit(vectors)
      /\ {200, 201, 204, 400, 404, 409, 500} \subseteq Statuses
  BY DEF Inv, Statuses
<1>1. CASE ResolveName(c)
  <2>1. pc[c] = "resolve"
    BY <1>1 DEF ResolveName, At
  <2>2. Fits(job[c], "resolve") /\ op \in {"put", "delete", "index", "search", "get", "count"}
    <3>1. Fits(job[c], "resolve")
      BY <1>0, <2>1, InFlightParts
    <3>2. QED
      BY <3>1, LabelKinds
  <2>3. t \in Names /\ job[c].req.name \in Names /\ job[c] \in Job /\ job[c].docs \in DocMap /\ job[c].batch \in Batch
    BY <1>0, <2>1, <2>2, InFlightParts DEF Fits, NoSchemaLabels
  <2>4. ThreadsOK'
    <3> DEFINE j == [job[c] EXCEPT !.target = Resolve(alias, job[c].req.name)]
               next == CASE op = "put" -> "check_alias"
                         [] op = "delete" -> "delete_storage"
                         [] OTHER -> "require"
    <3>1. Resolve(alias, job[c].req.name) \in Names
      BY <1>0, <2>3 DEF Resolve, StoresOK, Aliases
    <3>2. j \in Job /\ j.req = job[c].req /\ j.target \in Names /\ j.schema = job[c].schema
      BY <2>3, <3>1, JobUpdates DEF Job
    <3>3. /\ op = "put" => Fits(j, "check_alias")
          /\ op = "delete" => Fits(j, "delete_storage")
          /\ op \notin {"put", "delete"} => Fits(j, "require")
      BY <2>2, <3>2 DEF Fits, Labels, NoSchemaLabels
    <3>4. Fits(j, next)
      BY <2>2, <3>3
    <3>5. job' = [job EXCEPT ![c] = j] /\ Goto(c, next)
      BY <1>1 DEF ResolveName
    <3> HIDE DEF j, next
    <3>6. QED
      BY <1>0, <3>4, <3>5, ThreadContinues
  <2>5. QED
    BY <1>0, <1>1, <2>3, <2>4, StoresKept DEF ResolveName, StoresOK, stores
<1>2. CASE RequireIndex(c)
  <2>1. pc[c] = "require"
    BY <1>2 DEF RequireIndex, At
  <2>2. Fits(job[c], "require") /\ op \in {"index", "search", "get", "count"}
    <3>1. Fits(job[c], "require")
      BY <1>0, <2>1, InFlightParts
    <3>2. QED
      BY <3>1, LabelKinds
  <2>3. t \in Names /\ job[c].req.name \in Names /\ job[c] \in Job /\ job[c].docs \in DocMap /\ job[c].batch \in Batch
    BY <1>0, <2>1, <2>2, InFlightParts DEF Fits, NoSchemaLabels
  <2>4. ThreadsOK'
    <3> DEFINE j == [job[c] EXCEPT !.schema = storage[t].schema]
               next == CASE op = "index" -> "apply_action"
                         [] op = "search" -> "search_documents"
                         [] OTHER -> "read_documents"
    <3>1. CASE Return(c, 404)
      BY <1>0, <2>1, <3>1, ThreadReturns
    <3>2. CASE storage[t] # NoIndex /\ job' = [job EXCEPT ![c] = j] /\ Goto(c, next)
      <4>1. storage[t].schema \in Schemas
        BY <1>0, <2>3, <3>2 DEF StoresOK, Storage, IndexEntry
      <4>2. j \in Job /\ j.req = job[c].req /\ j.target = t /\ j.schema \in Schemas
        BY <2>3, <4>1, JobUpdates DEF Job
      <4>3. /\ op = "index" => Fits(j, "apply_action")
            /\ op = "search" => Fits(j, "search_documents")
            /\ op \notin {"index", "search"} => Fits(j, "read_documents")
        BY <2>2, <2>3, <4>2 DEF Fits, Labels, NoSchemaLabels
      <4>4. Fits(j, next)
        BY <2>2, <4>3
      <4> HIDE DEF j, next
      <4>5. QED
        BY <1>0, <3>2, <4>4, ThreadContinues
    <3>3. QED
      BY <1>2, <3>1, <3>2 DEF RequireIndex
  <2>5. QED
    BY <1>0, <1>2, <2>3, <2>4, StoresKept DEF RequireIndex, StoresOK, stores
<1>3. QED
  BY <1>1, <1>2

\* A new request is at its entry operation.
LEMMA StartKeepsInv ==
    ASSUME Inv, NEW c \in Clients, Start(c)
    PROVE  Inv'
<1>0. ThreadsOK
  BY DEF Inv
<1>1. PICK r \in Workload[c] : /\ job' = [job EXCEPT ![c] = NewJob(r)]
                               /\ pc' = [pc EXCEPT ![c] = Entry(r.op)]
  BY DEF Start
<1>2. r \in Request
  BY <1>1, WorkloadAssumption
<1>3. EmptyBatch \in Batch
  BY NoDocsTyped DEF EmptyBatch, Batch
<1>4. NewJob(r) \in Job /\ NewJob(r).req = r /\ NewJob(r).docs = NoDocs
  BY <1>2, <1>3, NoDocsTyped, RequestParts DEF NewJob, Job, Statuses
<1>5. /\ r.op # "reset" => NewJob(r).target \in Names
      /\ r.op \in {"create", "put"} => NewJob(r).schema \in Schemas
  BY <1>2, RequestParts DEF NewJob
<1>6. Entry(r.op) \in Labels(r.op) /\ (Entry(r.op) \in NoSchemaLabels \/ r.op \in {"create", "put"})
  BY <1>2, RequestParts DEF Entry, Labels, NoSchemaLabels
<1>7. Fits(NewJob(r), Entry(r.op))
  BY <1>4, <1>5, <1>6 DEF Fits
<1>8. reply' \in [Clients -> Reply \cup {NoReply}]
  BY <1>0 DEF Start, ThreadsOK
<1>9. ThreadsOK'
  BY <1>0, <1>1, <1>4, <1>7, <1>8, ThreadAdvances
<1>10. QED
  BY <1>9, StoresKept DEF Start, stores

\* The invariant holds before the first request.
LEMMA InitInv == Init => Inv
<1> SUFFICES ASSUME Init PROVE Inv
  OBVIOUS
<1>1. storage \in Storage
  BY NoDocsTyped, BootAssumption DEF Init, Storage, IndexEntry
<1>2. engine \in Engine
  BY NoDocsTyped DEF Init, Engine
<1>3. vectors \in Vectors
  BY NoDocsTyped, BootAssumption, DimsAssumption DEF Init, Vectors, VectorIndex, Schemas
<1>4. LengthsFit(vectors)
  BY DEF Init, LengthsFit, Fitting, NoDocs
<1>5. alias \in Aliases
  BY DEF Init, Aliases
<1>6. ThreadsOK
  BY DEF Init, ThreadsOK
<1>7. QED
  BY <1>1, <1>2, <1>3, <1>4, <1>5, <1>6 DEF Inv, StoresOK

\* The invariant is inductive.
LEMMA NextKeepsInv == Inv /\ [Next]_vars => Inv'
<1> SUFFICES ASSUME Inv, [Next]_vars PROVE Inv'
  OBVIOUS
<1>1. CASE UNCHANGED vars
  <2>1. ThreadsOK'
    BY <1>1 DEF Inv, ThreadsOK, Fits, vars
  <2>2. QED
    BY <1>1, <2>1, StoresKept DEF vars
<1>2. ASSUME NEW c \in Clients, Start(c) \/ Step(c)
      PROVE  Inv'
  BY <1>2, StartKeepsInv, ResolutionKeepsInv, LifecycleKeepsInv, IngestKeepsInv,
     ReadsKeepInv, AliasesKeepInv DEF Step
<1>3. QED
  BY <1>1, <1>2 DEF Next

-----------------------------------------------------------------------------
(* What follows for every behaviour of the service *)

\* The invariant holds in every reachable state.
THEOREM InvHolds == Spec => []Inv
<1>1. Init => Inv
  BY InitInv
<1>2. Inv /\ [Next]_vars => Inv'
  BY NextKeepsInv
<1>3. QED
  BY <1>1, <1>2, PTL DEF Spec

\* Whatever requests overlap, each store keeps entries of its own kind, and
\* each request in flight is at an operation of its own kind and holds the
\* name, the definition and the documents this operation uses: no handler
\* reaches a lookup with a name or a definition it did not obtain.
THEOREM TypeCorrect == Spec => []TypeOK
<1>1. Inv => TypeOK
  BY DEF Inv, TypeOK
<1>2. QED
  BY <1>1, InvHolds, PTL

\* Whatever requests overlap, even an update that changes the dimension of an
\* index under an upload that was validated against the old one, no stored
\* vector has another length than its vector index declares.
THEOREM LengthsAlwaysFit == Spec => []VectorLengthsFit
<1>1. Inv => VectorLengthsFit
  BY DEF Inv, LengthsFit, Fitting, VectorLengthsFit
<1>2. QED
  BY <1>1, InvHolds, PTL

-----------------------------------------------------------------------------
(* One index, as the entries st, en and ve the three stores have for it *)

\* A stored document's vector, when it has one, is of the declared length.
Indexable(s, d) == d.vec # Null /\ (HasVector(d) => s.dim # 0 /\ VecLen[d.vec] = s.dim)

IndexableDocs(s, docs) == \A k \in Keys : docs[k] # NoDoc => Indexable(s, docs[k])

EmptyEntry(st, s) == st # NoIndex /\ st.schema = s /\ st.docs = NoDocs

EngineHolds(en, docs) == en # NoIndex /\ \A k \in Keys : en[k] = TextOf(docs[k])

\* The vector store has an index of the right dimension, or none for none.
Dimensioned(ve, dim) == IF dim = 0 THEN ve = NoIndex ELSE ve # NoIndex /\ ve.dim = dim

VectorsHold(ve, dim, docs) ==
    Dimensioned(ve, dim) /\ (dim # 0 => \A k \in Keys : ve.vecs[k] = VectorOf(docs[k]))

\* The stores agree on whether there is such an index and of which dimension,
\* and the stored documents can be indexed under the stored definition.
SameIndex(st, en, ve) ==
    IF st = NoIndex THEN en = NoIndex /\ ve = NoIndex
    ELSE en # NoIndex /\ Dimensioned(ve, st.schema.dim) /\ IndexableDocs(st.schema, st.docs)

\* They agree on key k, if no batch to it may fail for a null vector.
SameKey(st, en, ve, k) ==
    st # NoIndex /\ k \notin NullKeys =>
                    /\ en[k] = TextOf(st.docs[k])
                    /\ st.schema.dim # 0 => ve.vecs[k] = VectorOf(st.docs[k])

-----------------------------------------------------------------------------
(* A batch in its write phase, when the i-th of Phases comes next *)

\* The document a key has once the batch is done, d being stored now.
Final(b, k, d) == IF b.upserts[k] # NoDoc THEN b.upserts[k]
                  ELSE IF k \in b.deletes THEN NoDoc ELSE d

EngineAt(i, b, k, d) ==
    IF i = 1 THEN TextOf(d)
    ELSE IF i = 2 THEN IF k \in b.deletes THEN NoDoc ELSE TextOf(d)
    ELSE TextOf(Final(b, k, d))

VectorAt(i, b, k, d) ==
    IF i <= 3 THEN VectorOf(d)
    ELSE IF i = 4 THEN IF k \in b.deletes THEN NoDoc ELSE VectorOf(d)
    ELSE IF i = 5 THEN IF k \in b.deletes \cup VectorRemovals(b) THEN NoDoc ELSE VectorOf(d)
    ELSE VectorOf(Final(b, k, d))

\* What the stores hold under key k by then: a batch that got past collecting
\* its vectors has no null among them.
Progress(i, b, st, en, ve, k) ==
    /\ k \notin NullKeys =>
         /\ en[k] = EngineAt(i, b, k, st.docs[k])
         /\ st.schema.dim # 0 => ve.vecs[k] = VectorAt(i, b, k, st.docs[k])
    /\ i >= 5 /\ b.upserts[k] # NoDoc => b.upserts[k].vec # Null
    /\ i >= 7 /\ b.upserts[k] # NoDoc => st.docs[k] = b.upserts[k]
    /\ i = 8 /\ k \in b.deletes => st.docs[k] = NoDoc

\* A document that request r may have pending: its vector fits, or is null,
\* which the request is known to be exposed to.
Admitted(r, s, d) ==
    /\ HasVector(d) => s.dim # 0 /\ VecLen[d.vec] = s.dim
    /\ d.vec = Null => s.dim # 0 /\ NullRequest(r)

\* A batch that may be written: its documents may be pending, no key is in both
\* of its sets, and it keeps to the keys of its request.
WritableBatch(r, s, b) ==
    /\ \A k \in Keys : b.upserts[k] # NoDoc => Admitted(r, s, b.upserts[k])
    /\ \A k \in Keys : /\ b.upserts[k] = NoDoc \/ k \notin b.deletes
                       /\ b.upserts[k] # NoDoc \/ k \in b.deletes => k \in Touches(r)

-----------------------------------------------------------------------------
(* The inductive invariant *)

WriteLabels == {"engine_delete", "engine_index", "vectors_delete", "vectors_trim",
                "vectors_upsert", "storage_put", "storage_delete"}

Rebuilding == Updating \cup Rollback \cup {"delete_engine", "delete_vectors"}
Clearing   == {"reset_engine", "reset_vectors", "reset_alias"}

\* A lifecycle request of c has taken index n apart.
Holds(c, n) == \/ pc[c] \in Rebuilding /\ job[c].target = n
               \/ pc[c] \in Clearing

\* A batch of c is being written to key k of index n.
Writes(c, n, k) ==
    pc[c] \in WriteLabels /\ job[c].target = n /\ k \in Touches(job[c].req)

\* Everything that no request in flight has in its hands agrees.
Settled ==
    \A n \in Names : (\A c \in Clients : ~Holds(c, n)) =>
        /\ SameIndex(storage[n], engine[n], vectors[n])
        /\ \A k \in Keys : (\A c \in Clients : ~Writes(c, n, k)) =>
               SameKey(storage[n], engine[n], vectors[n], k)

\* What a create or an update knows of the entries st, en and ve of its index,
\* at each of its labels.
LifecycleKnows(label, j, st, en, ve, al) ==
    LET s == j.schema
    IN  /\ label \in {"create_storage", "read_old", "read_preserved", "replace_storage"}
             => al = NoAlias
        /\ label = "read_preserved" => st # NoIndex /\ SchemaCompatible(st.schema, s)
        /\ label \in Updating \cup {"replace_storage"} => IndexableDocs(s, j.docs)
        /\ label \in Updating => EmptyEntry(st, s) /\ al = NoAlias
        /\ label = "create_engine" => en = NoIndex /\ (j.req.op = "create" => ve = NoIndex)
        /\ label \in {"drop_vectors", "create_vectors", "refill_engine"} => EngineHolds(en, NoDocs)
        /\ label = "create_vectors" => ve = NoIndex
        /\ label \in {"refill_engine", "refill_trim", "refill_vectors"}
             => VectorsHold(ve, s.dim, NoDocs)
        /\ label \in {"refill_trim", "refill_vectors"} => s.dim # 0
        /\ label \in {"refill_trim", "refill_vectors", "refill_storage"} => EngineHolds(en, j.docs)
        /\ label = "refill_storage" => VectorsHold(ve, s.dim, j.docs)

\* What is gone already while an index is rolled back or deleted, and what
\* keeps an alias and an index apart.
RemovalKnows(label, st, en) ==
    /\ label = "rollback_storage" => st # NoIndex /\ st.docs = NoDocs
    /\ label \in {"rollback_engine", "rollback_vectors", "delete_engine", "delete_vectors",
                  "store_alias"} => st = NoIndex
    /\ label \in {"rollback_vectors", "delete_vectors"} => en = NoIndex

ResetKnows(label) ==
    /\ label \in Clearing => \A n \in Names : storage[n] = NoIndex
    /\ label \in {"reset_vectors", "reset_alias"} => \A n \in Names : engine[n] = NoIndex
    /\ label = "reset_alias" => \A n \in Names : vectors[n] = NoIndex

\* What a batch knows of the entries of its index: the definition it works
\* with is the stored one, and it has written what the phases before wrote.
BatchKnows(label, j, st, en, ve) ==
    /\ label \in WriteLabels \cup {"apply_action"} =>
         st # NoIndex /\ st.schema = j.schema /\ WritableBatch(j.req, j.schema, j.batch)
    /\ \A i \in 1..7 : label = Phases[i] =>
         \A k \in Touches(j.req) : Progress(i, j.batch, st, en, ve, k)

Knows(c) ==
    LET n == job[c].target
    IN  /\ LifecycleKnows(pc[c], job[c], storage[n], engine[n], vectors[n], alias[n])
        /\ RemovalKnows(pc[c], storage[n], engine[n])
        /\ ResetKnows(pc[c])
        /\ BatchKnows(pc[c], job[c], storage[n], engine[n], vectors[n])

\* Before a request has its index it has no batch and no documents.
FreshLabels == {"parse_resolve", "parse_require", "resolve", "require", "check_alias",
                "create_storage", "read_old"}

Fresh == \A c \in Clients :
            pc[c] \in FreshLabels => job[c].batch = EmptyBatch /\ job[c].docs = NoDocs

\* Only requests that clients send are in flight.
Asked == \A c \in Clients : pc[c] # "idle" => job[c].req \in AllRequests

Steady == Inv /\ Orderly /\ Fresh /\ Asked

OrderlyInv == /\ Steady
              /\ NamespaceDisjoint
              /\ Settled
              /\ \A c \in Clients : pc[c] # "idle" => Knows(c)

-----------------------------------------------------------------------------
(* The parts of the invariant that a request has to do with *)

\* The stores agree on index n and all of its keys.
Agreed(st, en, ve) == SameIndex(st, en, ve) /\ \A k \in Keys : SameKey(st, en, ve, k)

Whole(n) == Agreed(storage[n], engine[n], vectors[n])

\* The requests that write whole indexes or names.
Exclusive == {"create", "put", "delete", "createAlias", "putAlias", "deleteAlias", "reset"}

\* The labels at which a request knows something of the stores.
KnowingLabels ==
    {"create_storage", "read_old", "read_preserved", "replace_storage", "store_alias",
     "apply_action", "rollback_storage", "rollback_engine", "rollback_vectors", "delete_engine", "delete_vectors"}
      \cup Updating \cup Clearing \cup WriteLabels

\* The labels at which it has changed something already.
BusyLabels == Rebuilding \cup Clearing \cup WriteLabels

OthersStay(c) ==
    \A d \in Clients : d # c => pc'[d] = pc[d] /\ job'[d] = job[d] /\ reply'[d] = reply[d]

\* A step of one client leaves the other threads alone.
LEMMA StepsAreOfOne ==
    ASSUME ThreadsOK, NEW c \in Clients, Start(c) \/ Step(c)
    PROVE  OthersStay(c)
<1> DEFINE Moves == \E l : Goto(c, l) /\ (UNCHANGED job \/ \E j : job' = [job EXCEPT ![c] = j])
           Answers == \E s, rs, ds : Answer(c, s, rs, ds)
<1>1. Answers => OthersStay(c)
  BY DEF Answer, OthersStay, ThreadsOK
<1>2. Moves => OthersStay(c)
  BY DEF Goto, OthersStay, ThreadsOK
<1>3. CASE Start(c)
  BY <1>3 DEF Start, OthersStay, ThreadsOK
<1>4. ASSUME NEW i, Proceed(c, i) PROVE OthersStay(c)
  BY <1>1, <1>2, <1>4 DEF Proceed
<1>5. ASSUME NEW x, Return(c, x) PROVE OthersStay(c)
  BY <1>1, <1>5 DEF Return
<1>6. ASSUME NEW x, RollBack(c, x) PROVE OthersStay(c)
  BY <1>2, <1>6 DEF RollBack
<1>7. ASSUME NEW l, Goto(c, l), UNCHANGED job PROVE OthersStay(c)
  BY <1>2, <1>7
<1>8. ASSUME NEW l, NEW j, Goto(c, l), job' = [job EXCEPT ![c] = j] PROVE OthersStay(c)
  BY <1>2, <1>8
<1> HIDE DEF Moves, Answers
<1>9. CASE LifecycleStep(c)
  <2>1. CASE CheckAlias(c) \/ CreateStorage(c) \/ CreateEngine(c) \/ CreateVectors(c)
    BY <1>5, <1>6, <1>7, <2>1 DEF CheckAlias, CreateStorage, CreateEngine, CreateVectors
  <2>2. CASE ReadOld(c) \/ ReplaceStorage(c) \/ DropEngine(c) \/ DropVectors(c)
    BY <1>7, <2>2 DEF ReadOld, ReplaceStorage, DropEngine, DropVectors, stores
  <2>3. CASE ReadPreserved(c)
    BY <1>8, <2>3 DEF ReadPreserved
  <2>4. CASE RefillEngine(c) \/ RefillTrim(c) \/ RefillVectors(c) \/ RefillStorage(c)
    BY <1>5, <1>6, <1>7, <2>4 DEF RefillEngine, RefillTrim, RefillVectors, RefillStorage
  <2>5. CASE RollbackStorage(c) \/ RollbackEngine(c) \/ RollbackVectors(c)
    BY <1>5, <1>7, <2>5 DEF RollbackStorage, RollbackEngine, RollbackVectors
  <2>6. CASE DeleteStorage(c) \/ DeleteEngine(c) \/ DeleteVectors(c)
    BY <1>5, <1>7, <2>6 DEF DeleteStorage, DeleteEngine, DeleteVectors
  <2>7. CASE ResetStorage(c) \/ ResetEngine(c) \/ ResetVectors(c) \/ ResetAliases(c)
    BY <1>5, <1>7, <2>7 DEF ResetStorage, ResetEngine, ResetVectors, ResetAliases
  <2>8. QED
    BY <1>9, <2>1, <2>2, <2>3, <2>4, <2>5, <2>6, <2>7 DEF LifecycleStep
<1>10. CASE IngestStep(c)
  <2>1. CASE FoldAction(c)
    <3>1. ASSUME NEW x, Goto(c, "apply_action"), job' = [job EXCEPT ![c].batch = x]
          PROVE  OthersStay(c)
      BY <1>8, <3>1
    <3>2. QED
      BY <1>5, <2>1, <3>1 DEF FoldAction
  <2>2. CASE BeginWrites(c) \/ WriteEngineDelete(c) \/ WriteEngineIndex(c) \/ WriteVectorsDelete(c)
    BY <1>4, <1>5, <2>2 DEF BeginWrites, WriteEngineDelete, WriteEngineIndex, WriteVectorsDelete
  <2>3. CASE WriteVectorsTrim(c) \/ WriteVectorsUpsert(c) \/ WriteStoragePut(c) \/ WriteStorageDelete(c)
    BY <1>4, <1>5, <2>3 DEF WriteVectorsTrim, WriteVectorsUpsert, WriteStoragePut, WriteStorageDelete
  <2>4. QED
    BY <1>10, <2>1, <2>2, <2>3 DEF IngestStep
<1>11. CASE ReadStep(c)
  <2>1. ASSUME NEW docs, Answer(c, 200, <<>>, docs) PROVE OthersStay(c)
    BY <1>1, <2>1 DEF Answers
  <2>2. CASE ParseResolve(c) \/ ParseRequire(c)
    BY <1>5, <1>7, <1>8, <2>2 DEF ParseResolve, ParseRequire
  <2>3. CASE SearchDocuments(c)
    BY <1>5, <1>8, <2>3 DEF SearchDocuments
  <2>4. CASE SearchVectors(c)
    BY <1>8, <2>1, <2>4 DEF SearchVectors
  <2>5. CASE SearchEngine(c)
    BY <1>5, <2>1, <2>5 DEF SearchEngine
  <2>6. CASE ReadDocuments(c)
    BY <1>5, <2>1, <2>6 DEF ReadDocuments
  <2>7. QED
    BY <1>11, <2>2, <2>3, <2>4, <2>5, <2>6 DEF ReadStep
<1>12. CASE AliasStep(c)
  BY <1>5, <1>7, <1>12 DEF AliasStep, CheckIndex, StoreAlias, DeleteAlias
<1>13. CASE ResolveName(c)
  BY <1>8, <1>13 DEF ResolveName
<1>14. CASE RequireIndex(c)
  BY <1>5, <1>8, <1>14 DEF RequireIndex
<1>15. QED
  BY <1>3, <1>9, <1>10, <1>11, <1>12, <1>13, <1>14 DEF Step

-----------------------------------------------------------------------------
(* The shape of a step *)

\* A step of a request in flight answers it, or goes on with it; an update
\* replaces the stored index right after it has looked at it.
LEMMA StepShape ==
    ASSUME ThreadsOK, NEW c \in Clients, pc[c] # "idle", Step(c)
    PROVE  \/ \E s, rs, ds : Answer(c, s, rs, ds)
           \/ \E l : /\ Goto(c, l) /\ job'[c].req = job[c].req
                     /\ job[c].req.op \in {"create", "put"} => job'[c].schema = job[c].schema
                     /\ l = "replace_storage" => ReadOld(c) \/ ReadPreserved(c)
<1> DEFINE Answers == \E s, rs, ds : Answer(c, s, rs, ds)
           Moves == \E l : /\ Goto(c, l) /\ job'[c].req = job[c].req
                           /\ job[c].req.op \in {"create", "put"} => job'[c].schema = job[c].schema
                           /\ l = "replace_storage" => ReadOld(c) \/ ReadPreserved(c)
<1> SUFFICES Answers \/ Moves
  OBVIOUS
<1>1. job[c] \in Job /\ Fits(job[c], pc[c])
  BY InFlightParts
<1>2. ASSUME NEW x, Return(c, x) PROVE Answers
  BY <1>2 DEF Return
<1>3. ASSUME NEW l, Goto(c, l), UNCHANGED job, l # "replace_storage" PROVE Moves
  BY <1>3
<1>4. ASSUME NEW x, RollBack(c, x) PROVE Moves
  BY <1>1, <1>4 DEF RollBack, ThreadsOK, Job
<1>5. ASSUME NEW i, Proceed(c, i) PROVE Answers \/ Moves
  <2>1. \A j \in NeededAfter(c, i) : Phases[j] # "replace_storage"
    BY DEF NeededAfter, Phases
  <2>2. QED
    BY <1>3, <1>5, <2>1 DEF Proceed
<1>6. ASSUME NEW l, NEW x, Goto(c, l), l # "replace_storage",
             \/ job' = [job EXCEPT ![c].target = x] \/ job' = [job EXCEPT ![c].docs = x]
             \/ job' = [job EXCEPT ![c].found = x] \/ job' = [job EXCEPT ![c].batch = x]
      PROVE  Moves
  <2>1. job'[c].req = job[c].req /\ job'[c].schema = job[c].schema
    BY <1>1, <1>6 DEF ThreadsOK, Job
  <2>2. QED
    BY <1>6, <2>1
<1>7. ASSUME NEW l, NEW x, Goto(c, l), l # "replace_storage", job' = [job EXCEPT ![c].schema = x],
             pc[c] \in {"require", "parse_require"}
      PROVE  Moves
  <2>1. job'[c].req = job[c].req
    BY <1>1, <1>7 DEF ThreadsOK, Job
  <2>2. job[c].req.op \notin {"create", "put"}
    BY <1>1, <1>7, LabelKinds
  <2>3. QED
    BY <1>7, <2>1, <2>2
<1>8. ASSUME NEW docs, Answer(c, 200, <<>>, docs) PROVE Answers
  BY <1>8
<1>9. CASE ReadOld(c)
  <2>1. \E l : Goto(c, l) /\ UNCHANGED job
    BY <1>9 DEF ReadOld
  <2>2. QED
    BY <1>9, <2>1
<1>10. CASE ReadPreserved(c)
  <2>1. \E x : job' = [job EXCEPT ![c].docs = x]
    BY <1>10 DEF ReadPreserved
  <2>2. job'[c].req = job[c].req /\ job'[c].schema = job[c].schema
    BY <1>1, <2>1 DEF ThreadsOK, Job
  <2>3. QED
    BY <1>10, <2>2 DEF ReadPreserved
<1> HIDE DEF Answers, Moves
<1>11. CASE LifecycleStep(c)
  <2>1. CASE CheckAlias(c)
    BY <1>2, <1>3, <2>1 DEF CheckAlias
  <2>2. CASE CreateStorage(c) \/ CreateEngine(c) \/ CreateVectors(c)
    BY <1>2, <1>3, <1>4, <2>2 DEF CreateStorage, CreateEngine, CreateVectors
  <2>3. CASE ReplaceStorage(c) \/ DropEngine(c) \/ DropVectors(c)
    BY <1>3, <2>3 DEF ReplaceStorage, DropEngine, DropVectors
  <2>4. CASE RefillEngine(c) \/ RefillTrim(c) \/ RefillVectors(c) \/ RefillStorage(c)
    BY <1>2, <1>3, <1>4, <2>4 DEF RefillEngine, RefillTrim, RefillVectors, RefillStorage
  <2>5. CASE RollbackStorage(c) \/ RollbackEngine(c) \/ RollbackVectors(c)
    BY <1>2, <1>3, <2>5 DEF RollbackStorage, RollbackEngine, RollbackVectors
  <2>6. CASE DeleteStorage(c) \/ DeleteEngine(c) \/ DeleteVectors(c)
    BY <1>2, <1>3, <2>6 DEF DeleteStorage, DeleteEngine, DeleteVectors
  <2>7. CASE ResetStorage(c) \/ ResetEngine(c) \/ ResetVectors(c) \/ ResetAliases(c)
    BY <1>2, <1>3, <2>7 DEF ResetStorage, ResetEngine, ResetVectors, ResetAliases
  <2>8. QED
    BY <1>9, <1>10, <1>11, <2>1, <2>2, <2>3, <2>4, <2>5, <2>6, <2>7 DEF LifecycleStep
<1>12. CASE IngestStep(c)
  <2>1. CASE FoldAction(c)
    BY <1>2, <1>6, <2>1 DEF FoldAction
  <2>2. CASE BeginWrites(c) \/ WriteEngineDelete(c) \/ WriteEngineIndex(c) \/ WriteVectorsDelete(c)
    BY <1>2, <1>5, <2>2 DEF BeginWrites, WriteEngineDelete, WriteEngineIndex, WriteVectorsDelete
  <2>3. CASE WriteVectorsTrim(c) \/ WriteVectorsUpsert(c) \/ WriteStoragePut(c)
               \/ WriteStorageDelete(c)
    BY <1>2, <1>5, <2>3 DEF WriteVectorsTrim, WriteVectorsUpsert, WriteStoragePut,
                            WriteStorageDelete
  <2>4. QED
    BY <1>12, <2>1, <2>2, <2>3 DEF IngestStep
<1>13. CASE ReadStep(c)
  <2>1. CASE ParseResolve(c) \/ ParseRequire(c)
    BY <1>2, <1>3, <1>6, <1>7, <2>1 DEF ParseResolve, ParseRequire, At
  <2>2. CASE SearchDocuments(c)
    BY <1>2, <1>6, <2>2 DEF SearchDocuments
  <2>3. CASE SearchVectors(c)
    BY <1>6, <1>8, <2>3 DEF SearchVectors
  <2>4. CASE SearchEngine(c)
    BY <1>2, <1>8, <2>4 DEF SearchEngine
  <2>5. CASE ReadDocuments(c)
    BY <1>2, <1>8, <2>5 DEF ReadDocuments
  <2>6. QED
    BY <1>13, <2>1, <2>2, <2>3, <2>4, <2>5 DEF ReadStep
<1>14. CASE AliasStep(c)
  BY <1>2, <1>3, <1>14 DEF AliasStep, CheckIndex, StoreAlias, DeleteAlias
<1>15. CASE ResolveName(c)
  BY <1>6, <1>15 DEF ResolveName
<1>16. CASE RequireIndex(c)
  BY <1>2, <1>7, <1>16 DEF RequireIndex, At
<1>17. QED
  BY <1>11, <1>12, <1>13, <1>14, <1>15, <1>16 DEF Step

\* Requests in flight are requests that a client sends.
LEMMA AskedKept ==
    ASSUME ThreadsOK, Asked, NEW c \in Clients, Start(c) \/ Step(c)
    PROVE  Asked'
<1>1. OthersStay(c)
  BY StepsAreOfOne
<1>2. pc'[c] # "idle" => job'[c].req \in AllRequests
  <2>1. CASE Start(c)
    <3>1. PICK r \in Workload[c] : job' = [job EXCEPT ![c] = NewJob(r)]
      BY <2>1 DEF Start
    <3>2. job'[c].req = r
      BY <3>1 DEF NewJob, ThreadsOK
    <3>3. QED
      BY <3>2 DEF AllRequests
  <2>2. CASE Step(c) /\ pc[c] # "idle"
    <3>1. CASE \E x, rs, ds : Answer(c, x, rs, ds)
      BY <3>1 DEF Answer, ThreadsOK
    <3>2. CASE job'[c].req = job[c].req
      BY <2>2, <3>2 DEF Asked
    <3>3. QED
      BY <2>2, <3>1, <3>2, StepShape
  <2>3. CASE Step(c) /\ pc[c] = "idle"
    BY <2>3, SMTT(60)
    DEF Step, At, ResolveName, RequireIndex, LifecycleStep, IngestStep, ReadStep, AliasStep,
        CheckAlias, CreateStorage, CreateEngine, CreateVectors, ReadOld,
        ReadPreserved, ReplaceStorage, DropEngine, DropVectors, RefillEngine, RefillTrim,
        RefillVectors, RefillStorage, RollbackStorage, RollbackEngine, RollbackVectors,
        DeleteStorage, DeleteEngine, DeleteVectors, ResetStorage, ResetEngine, ResetVectors,
        ResetAliases, FoldAction, BeginWrites, WriteEngineDelete,
        WriteEngineIndex, WriteVectorsDelete, WriteVectorsTrim, WriteVectorsUpsert,
        WriteStoragePut, WriteStorageDelete, ParseResolve, ParseRequire, SearchDocuments,
        SearchVectors, SearchEngine, ReadDocuments, CheckIndex, StoreAlias, DeleteAlias
  <2>4. QED
    BY <2>1, <2>2, <2>3
<1>3. QED
  BY <1>1, <1>2 DEF Asked, OthersStay

\* A request that is exposed to null vectors keeps to the keys left out.
LEMMA NullRequestKeys ==
    ASSUME NEW r \in AllRequests, NullRequest(r)
    PROVE  Touches(r) \subseteq NullKeys
BY DEF NullKeys

-----------------------------------------------------------------------------
(* Which requests may be in flight next to which *)

\* The operations of a request in flight are those of its kind, seen from the
\* sets of labels that the invariant speaks of.
LEMMA LabelsByKind ==
    ASSUME ThreadsOK, NEW c \in Clients, pc[c] # "idle"
    PROVE  /\ job[c].req.op \in Exclusive \cup Reads \cup {"index"}
           /\ job[c].req.op \in Reads => pc[c] \notin KnowingLabels \cup BusyLabels
           /\ job[c].req.op = "index" => pc[c] \notin Rebuilding \cup Clearing
           /\ job[c].req.op \in Exclusive => pc[c] \notin WriteLabels
<1>1. Fits(job[c], pc[c]) /\ job[c].req \in Request
  BY InFlightParts
<1>2. job[c].req.op \in Exclusive \cup Reads \cup {"index"}
  BY <1>1, RequestParts DEF Exclusive, Reads
<1>3. job[c].req.op \in Reads => pc[c] \notin KnowingLabels \cup BusyLabels
  BY <1>1 DEF Fits, Labels, Reads, KnowingLabels, BusyLabels, Rebuilding, Clearing,
              WriteLabels, Updating, Rollback
<1>4. job[c].req.op = "index" => pc[c] \notin Rebuilding \cup Clearing
  BY <1>1 DEF Fits, Labels, Rebuilding, Clearing, Updating, Rollback
<1>5. job[c].req.op \in Exclusive => pc[c] \notin WriteLabels
  BY <1>1 DEF Fits, Labels, Exclusive, WriteLabels, Rollback
<1>6. QED
  BY <1>2, <1>3, <1>4, <1>5

\* Next to a request that writes whole indexes or names only reads run, next
\* to a batch only reads and batches without a key in common.
LEMMA Neighbours ==
    ASSUME Orderly, ThreadsOK, NEW c \in Clients, NEW d \in Clients, c # d,
           pc[c] # "idle", pc[d] # "idle"
    PROVE  /\ job[c].req.op \in Exclusive => job[d].req.op \in Reads
           /\ job[c].req.op = "index" /\ job[d].req.op = "index"
                => Touches(job[c].req) \cap Touches(job[d].req) = {}
           /\ job[c].req.op = "index" => job[d].req.op \in Reads \cup {"index"}
<1>1. Claims(c) = {job[c].req} /\ Claims(d) = {job[d].req}
  BY DEF Claims
<1>2. Compatible(job[c].req, job[d].req)
  BY <1>1 DEF Orderly
<1>3. QED
  BY <1>2 DEF Compatible, Exclusive, Reads

\* Outside of these labels there is nothing to know.
LEMMA NothingToKnow ==
    /\ \A c : pc[c] \notin KnowingLabels => Knows(c)
    /\ \A c : pc'[c] \notin KnowingLabels => Knows(c)'
<1>1. \A label : label \notin KnowingLabels =>
         /\ label \notin {"create_storage", "read_old", "read_preserved", "replace_storage",
                          "store_alias", "apply_action", "rollback_storage", "rollback_engine", "rollback_vectors",
                          "delete_engine", "delete_vectors"}
         /\ label \notin Updating /\ label \notin Clearing /\ label \notin WriteLabels
  BY DEF KnowingLabels
<1>2. \A label : label \notin KnowingLabels =>
         \A j, st, en, ve, al : /\ LifecycleKnows(label, j, st, en, ve, al)
                                /\ RemovalKnows(label, st, en)
  BY <1>1 DEF LifecycleKnows, RemovalKnows, Updating
<1>3. \A i \in 1..7 : Phases[i] \in WriteLabels
  BY DEF Phases, WriteLabels
<1>4. \A label : label \notin KnowingLabels =>
         \A j, st, en, ve : BatchKnows(label, j, st, en, ve)
  BY <1>1, <1>3 DEF BatchKnows
<1>5. \A label : label \notin KnowingLabels => ResetKnows(label) /\ ResetKnows(label)'
  BY <1>1 DEF ResetKnows, Clearing
<1>6. QED
  BY <1>2, <1>4, <1>5 DEF Knows

\* Every index that such a request has not taken apart is whole.
LEMMA ElsewhereWhole ==
    ASSUME OrderlyInv, NEW c \in Clients, pc[c] # "idle", job[c].req.op \in Exclusive,
           NEW n \in Names, ~Holds(c, n)
    PROVE  Whole(n)
<1>1. Orderly /\ ThreadsOK /\ Settled
  BY DEF OrderlyInv, Steady, Inv
<1>2. ASSUME NEW d \in Clients, d # c
      PROVE  pc[d] \notin BusyLabels
  <2>1. CASE pc[d] = "idle"
    BY <2>1 DEF BusyLabels, Rebuilding, Clearing, WriteLabels, Updating, Rollback
  <2>2. CASE pc[d] # "idle"
    BY <1>1, <1>2, <2>2, Neighbours, LabelsByKind
  <2>3. QED
    BY <2>1, <2>2
<1>3. pc[c] \notin WriteLabels
  BY <1>1, LabelsByKind
<1>4. \A d \in Clients : ~Holds(d, n)
  BY <1>2 DEF Holds, BusyLabels
<1>5. \A d \in Clients, k \in Keys : ~Writes(d, n, k)
  BY <1>2, <1>3 DEF Writes, BusyLabels
<1>6. QED
  BY <1>1, <1>4, <1>5 DEF Settled, Whole, Agreed

-----------------------------------------------------------------------------
(* Three ways to keep the invariant *)

\* A request that writes whole indexes or names takes a step.
LEMMA ExclusiveKeeps ==
    ASSUME OrderlyInv, Steady', NEW c \in Clients,
           pc[c] # "idle", job[c].req.op \in Exclusive, OthersStay(c), NamespaceDisjoint',
           pc'[c] # "idle" => Knows(c)' /\ pc'[c] \notin WriteLabels,
           \A n \in Names : ~Holds(c, n)' => Whole(n)'
    PROVE  OrderlyInv'
<1>1. Orderly /\ ThreadsOK
  BY DEF OrderlyInv, Steady, Inv
<1>2. Settled'
  BY DEF Settled, Whole, Agreed
<1>3. ASSUME NEW d \in Clients, pc'[d] # "idle"
      PROVE  Knows(d)'
  <2>1. CASE d = c
    BY <1>3, <2>1
  <2>2. CASE d # c
    <3>1. pc'[d] = pc[d]
      BY <2>2 DEF OthersStay
    <3>2. pc[d] \notin KnowingLabels
      BY <1>1, <1>3, <2>2, <3>1, Neighbours, LabelsByKind
    <3>3. QED
      BY <3>1, <3>2, NothingToKnow
  <2>3. QED
    BY <2>1, <2>2
<1>4. QED
  BY <1>2, <1>3 DEF OrderlyInv

\* A request takes a step that changes no store, before it has changed any.
LEMMA QuietKeeps ==
    ASSUME OrderlyInv, Steady', NEW c \in Clients, OthersStay(c), UNCHANGED stores,
           pc[c] \notin BusyLabels, pc'[c] \notin BusyLabels,
           pc'[c] # "idle" => Knows(c)'
    PROVE  OrderlyInv'
<1>1. NamespaceDisjoint'
  BY DEF OrderlyInv, NamespaceDisjoint, stores
<1>2. \A d \in Clients, n \in Names : Holds(d, n)' <=> Holds(d, n)
  BY DEF Holds, OthersStay, BusyLabels
<1>3. \A d \in Clients, n \in Names, k \in Keys : Writes(d, n, k)' <=> Writes(d, n, k)
  BY DEF Writes, OthersStay, BusyLabels
<1>4. Settled'
  BY <1>2, <1>3 DEF OrderlyInv, Settled, stores
<1>5. ASSUME NEW d \in Clients, pc'[d] # "idle"
      PROVE  Knows(d)'
  BY <1>5 DEF OrderlyInv, OthersStay, Knows, stores, ResetKnows
<1>6. QED
  BY <1>1, <1>4, <1>5 DEF OrderlyInv

-----------------------------------------------------------------------------
(* The write phase of a batch *)

\* The keys of a request are keys.
LEMMA TouchesKeys ==
    ASSUME NEW r \in Request, r.op = "index"
    PROVE  Touches(r) \subseteq Keys
<1>1. r.actions \in Seq(Action)
  BY RequestParts
<1>2. \A i \in DOMAIN r.actions : r.actions[i] \in Action
  BY <1>1
<1>3. QED
  BY <1>2 DEF Touches, Action

\* Where the stores agree no phase has run yet, and where all have run they
\* agree again.
LEMMA ProgressEnds ==
    ASSUME NEW b, NEW st, NEW en, NEW ve, NEW k, st # NoIndex
    PROVE  /\ SameKey(st, en, ve, k) => Progress(1, b, st, en, ve, k)
           /\ Progress(8, b, st, en, ve, k) => SameKey(st, en, ve, k)
<1>1. SameKey(st, en, ve, k) => Progress(1, b, st, en, ve, k)
  BY DEF SameKey, Progress, EngineAt, VectorAt
<1>2. ASSUME Progress(8, b, st, en, ve, k)
      PROVE  SameKey(st, en, ve, k)
  <2>1. Final(b, k, st.docs[k]) = st.docs[k]
    BY <1>2 DEF Progress, Final
  <2>2. QED
    BY <1>2, <2>1 DEF SameKey, Progress, EngineAt, VectorAt
<1>3. QED
  BY <1>1, <1>2

\* A phase the batch does not need has nothing to do.
LEMMA ProgressSkips ==
    ASSUME NEW c, NEW i \in 1..7, ~Needed(c, Phases[i]), NEW k \in Keys,
           NEW st, NEW en, NEW ve, st.schema = job[c].schema,
           job[c].batch \in Batch, WritableBatch(job[c].req, job[c].schema, job[c].batch),
           Progress(i, job[c].batch, st, en, ve, k)
    PROVE  Progress(i + 1, job[c].batch, st, en, ve, k)
<1> DEFINE b == job[c].batch
           dim == job[c].schema.dim
<1>1. /\ Phases[1] = "engine_delete" /\ Phases[2] = "engine_index"
      /\ Phases[3] = "vectors_delete" /\ Phases[4] = "vectors_trim"
      /\ Phases[5] = "vectors_upsert" /\ Phases[6] = "storage_put"
      /\ Phases[7] = "storage_delete"
  BY DEF Phases
<1>2. /\ Upserted(b) = {} => b.upserts[k] = NoDoc
      /\ b.deletes = {} => k \notin b.deletes
      /\ Unindexed(b) = {} => /\ k \notin VectorRemovals(b)
                              /\ b.upserts[k] = NoDoc \/ b.upserts[k].vec # Null
      /\ VectorEntries(b) = {} => b.upserts[k] = NoDoc \/ ~HasVector(b.upserts[k])
  BY DEF Upserted, Unindexed, NullVectors, VectorEntries
<1>3. b.upserts[k] = NoDoc \/ k \notin b.deletes
  BY DEF WritableBatch
<1>4. CASE i = 1
  <2>1. b.deletes = {}
    BY <1>1, <1>4 DEF Needed
  <2>2. QED
    BY <1>2, <1>4, <2>1 DEF Progress, EngineAt, VectorAt
<1>5. CASE i = 2
  <2>1. Upserted(b) = {}
    BY <1>1, <1>5 DEF Needed
  <2>2. QED
    BY <1>2, <1>3, <1>5, <2>1 DEF Progress, EngineAt, VectorAt, Final, TextOf
<1>6. CASE i = 3
  <2>1. dim = 0 \/ b.deletes = {}
    BY <1>1, <1>6 DEF Needed
  <2>2. QED
    BY <1>2, <1>6, <2>1 DEF Progress, EngineAt, VectorAt
<1>7. CASE i = 4
  <2>1. dim = 0 \/ Unindexed(b) = {}
    BY <1>1, <1>7 DEF Needed
  <2>2. b.upserts[k] # NoDoc => b.upserts[k].vec # Null
    BY <1>2, <2>1 DEF WritableBatch, Admitted
  <2>3. dim # 0 => k \notin VectorRemovals(b)
    BY <1>2, <2>1
  <2>4. QED
    BY <2>2, <2>3, <1>7 DEF Progress, EngineAt, VectorAt
<1>8. CASE i = 5
  <2>1. dim = 0 \/ VectorEntries(b) = {}
    BY <1>1, <1>8 DEF Needed
  <2>2. b.upserts[k] # NoDoc => /\ b.upserts[k].vec # Null
                                /\ b.upserts[k].vec \in {Absent, Null} \cup Vecs
    BY <1>8 DEF Progress, Batch, DocMap, Document
  <2>3. VectorEntries(b) = {} => (k \in VectorRemovals(b) <=> b.upserts[k] # NoDoc)
    BY <1>2, <2>2 DEF VectorRemovals, Upserted, HasVector
  <2>4. QED
    BY <1>2, <1>3, <1>8, <2>1, <2>3 DEF Progress, EngineAt, VectorAt, Final, VectorOf
<1>9. CASE i = 6
  <2>1. Upserted(b) = {}
    BY <1>1, <1>9 DEF Needed
  <2>2. QED
    BY <1>2, <1>9, <2>1 DEF Progress, EngineAt, VectorAt
<1>10. CASE i = 7
  <2>1. b.deletes = {}
    BY <1>1, <1>10 DEF Needed
  <2>2. QED
    BY <1>2, <1>10, <2>1 DEF Progress, EngineAt, VectorAt
<1>11. QED
  BY <1>4, <1>5, <1>6, <1>7, <1>8, <1>9, <1>10

\* The phases a batch skips on its way from the i-th to the j-th leave nothing
\* undone.
LEMMA ProgressReaches ==
    ASSUME NEW c, NEW i \in 0..7, NEW j \in i+1..8,
           \A m \in i+1..j-1 : m \in 1..7 => ~Needed(c, Phases[m]),
           NEW ks \in SUBSET Keys,
           NEW st, NEW en, NEW ve, st.schema = job[c].schema, job[c].batch \in Batch,
           WritableBatch(job[c].req, job[c].schema, job[c].batch),
           \A k \in ks : Progress(i + 1, job[c].batch, st, en, ve, k)
    PROVE  \A k \in ks : Progress(j, job[c].batch, st, en, ve, k)
<1> DEFINE Q(m) == \A k \in ks : Progress(m, job[c].batch, st, en, ve, k)
           R(m) == i + 1 <= m /\ m <= j => Q(m)
<1>1. \A m \in 1..7 : ~Needed(c, Phases[m]) /\ Q(m) => Q(m + 1)
  BY ProgressSkips
<1>2. Q(i + 1)
  OBVIOUS
<1> HIDE DEF Q
<1>3. ASSUME NEW m \in 1..7, R(m)
      PROVE  R(m + 1)
  <2>1. CASE m = i
    BY <1>2, <2>1
  <2>2. CASE m # i
    BY <1>1, <1>3, <2>2
  <2>3. QED
    BY <2>1, <2>2
<1>4. R(1)
  BY <1>2
<1> HIDE DEF R
<1>5. R(2)
  BY <1>3, <1>4
<1>6. R(3)
  BY <1>3, <1>5
<1>7. R(4)
  BY <1>3, <1>6
<1>8. R(5)
  BY <1>3, <1>7
<1>9. R(6)
  BY <1>3, <1>8
<1>10. R(7)
  BY <1>3, <1>9
<1>11. R(8)
  BY <1>3, <1>10
<1>12. R(j)
  <2>1. j \in {1, 2, 3, 4, 5, 6, 7, 8}
    OBVIOUS
  <2>2. QED
    BY <1>4, <1>5, <1>6, <1>7, <1>8, <1>9, <1>10, <1>11, <2>1
<1>13. QED
  BY <1>12 DEF R, Q

\* After the i-th phase, with the entries st, en and ve in the stores, a batch
\* either is done and its keys agree or knows what it has written.
LEMMA ProceedKnows ==
    ASSUME ThreadsOK, NEW c \in Clients, pc[c] # "idle", NEW i \in 0..7, Proceed(c, i),
           NEW ks \in SUBSET Keys, ks = Touches(job[c].req),
           NEW st, NEW en, NEW ve, st # NoIndex, st.schema = job[c].schema,
           WritableBatch(job[c].req, job[c].schema, job[c].batch),
           \A k \in ks : Progress(i + 1, job[c].batch, st, en, ve, k)
    PROVE  \/ /\ pc'[c] = "idle"
              /\ \A k \in ks : SameKey(st, en, ve, k)
           \/ /\ pc'[c] \in WriteLabels /\ job'[c] = job[c]
              /\ BatchKnows(pc'[c], job[c], st, en, ve)
<1>0. job[c].batch \in Batch
  BY InFlightParts
<1>1. CASE NeededAfter(c, i) = {} /\ Answer(c, 200, job[c].batch.results, NoDocs)
  <2>1. pc'[c] = "idle"
    BY <1>1 DEF Answer, ThreadsOK
  <2> DEFINE end == 8
  <2>2. end \in i+1..8 /\ \A m \in i+1..end-1 : m \in 1..7 => ~Needed(c, Phases[m])
    BY <1>1 DEF NeededAfter, Phases
  <2> HIDE DEF end
  <2>3. \A k \in ks : Progress(end, job[c].batch, st, en, ve, k)
    BY <1>0, <2>2, ProgressReaches
  <2>4. QED
    BY <2>1, <2>3, ProgressEnds DEF end
<1>2. ASSUME NEW j \in NeededAfter(c, i), \A m \in NeededAfter(c, i) : j <= m,
             Goto(c, Phases[j]), UNCHANGED job
      PROVE  /\ pc'[c] \in WriteLabels /\ job'[c] = job[c]
             /\ BatchKnows(pc'[c], job[c], st, en, ve)
  <2>1. j \in i+1..7
    BY DEF NeededAfter, Phases
  <2>2. j \in i+1..8 /\ \A m \in i+1..j-1 : m \in 1..7 => ~Needed(c, Phases[m])
    BY <1>2, <2>1 DEF NeededAfter, Phases
  <2>3. \A k \in ks : Progress(j, job[c].batch, st, en, ve, k)
    BY <1>0, <2>1, <2>2, ProgressReaches
  <2>4. pc'[c] = Phases[j]
    BY <1>2 DEF Goto, ThreadsOK
  <2>5. Phases[j] \in WriteLabels /\ \A m \in 1..7 : Phases[m] = Phases[j] => m = j
    BY <2>1 DEF Phases, WriteLabels
  <2>6. QED
    BY <1>2, <2>3, <2>4, <2>5 DEF BatchKnows
<1>3. QED
  BY <1>1, <1>2 DEF Proceed

-----------------------------------------------------------------------------
(* A batch that writes *)

\* What a step leaves alone under key k of index n.
Untouched(n, k) ==
    storage[n] # NoIndex => /\ storage'[n].docs[k] = storage[n].docs[k]
                            /\ engine'[n][k] = engine[n][k]
                            /\ vectors[n] # NoIndex => vectors'[n].vecs[k] = vectors[n].vecs[k]

\* While a batch is in flight no index is apart, and at these labels its own
\* is as the batch found it.
LEMMA WriterParts ==
    ASSUME OrderlyInv, NEW c \in Clients, pc[c] \in WriteLabels \cup {"apply_action"}
    PROVE  /\ Orderly /\ ThreadsOK /\ Settled /\ NamespaceDisjoint
           /\ storage \in Storage /\ engine \in Engine /\ vectors \in Vectors
           /\ pc[c] # "idle" /\ job[c].req.op = "index" /\ job[c].req \in Request
           /\ job[c].req \in AllRequests
           /\ job[c].target \in Names /\ job[c].batch \in Batch
           /\ Touches(job[c].req) \subseteq Keys
           /\ \A d \in Clients : pc[d] \notin Rebuilding \cup Clearing
           /\ \A n \in Names : SameIndex(storage[n], engine[n], vectors[n])
           /\ storage[job[c].target] # NoIndex
           /\ storage[job[c].target].schema = job[c].schema
           /\ WritableBatch(job[c].req, job[c].schema, job[c].batch)
           /\ Knows(c)
<1>1. /\ Orderly /\ ThreadsOK /\ Settled /\ NamespaceDisjoint
      /\ storage \in Storage /\ engine \in Engine /\ vectors \in Vectors
  BY DEF OrderlyInv, Steady, Inv, StoresOK
<1>2. pc[c] # "idle"
  BY DEF WriteLabels
<1>3. job[c].req.op = "index"
  BY <1>1, <1>2, InFlightParts, LabelKinds DEF WriteLabels
<1>4. /\ job[c].req \in Request /\ job[c].target \in Names /\ job[c].batch \in Batch
      /\ Touches(job[c].req) \subseteq Keys
  BY <1>1, <1>2, <1>3, InFlightParts, TouchesKeys
<1>5. ASSUME NEW d \in Clients
      PROVE  pc[d] \notin Rebuilding \cup Clearing
  <2>1. CASE pc[d] = "idle"
    BY <2>1 DEF Rebuilding, Clearing, Updating, Rollback
  <2>2. CASE d # c /\ pc[d] # "idle"
    BY <1>1, <1>2, <1>3, <2>2, Neighbours, LabelsByKind DEF BusyLabels
  <2>3. CASE d = c
    BY <1>1, <1>2, <1>3, <2>3, LabelsByKind
  <2>4. QED
    BY <2>1, <2>2, <2>3
<1>6. \A n \in Names : SameIndex(storage[n], engine[n], vectors[n])
  BY <1>1, <1>5 DEF Holds, Settled
<1>7. Knows(c)
  BY <1>2 DEF OrderlyInv
<1>8. /\ storage[job[c].target] # NoIndex
      /\ storage[job[c].target].schema = job[c].schema
      /\ WritableBatch(job[c].req, job[c].schema, job[c].batch)
  BY <1>7 DEF Knows, BatchKnows
<1>9. job[c].req \in AllRequests
  BY <1>2 DEF OrderlyInv, Steady, Asked
<1>10. QED
  BY <1>1, <1>2, <1>3, <1>4, <1>5, <1>6, <1>7, <1>8, <1>9

\* A batch takes a step that may change the stores under its keys of its index.
LEMMA BatchKeeps ==
    ASSUME OrderlyInv, Steady', NEW c \in Clients,
           pc[c] \in WriteLabels \cup {"apply_action"}, OthersStay(c), alias' = alias,
           \A n \in Names : /\ storage'[n] = NoIndex <=> storage[n] = NoIndex
                            /\ storage[n] # NoIndex => storage'[n].schema = storage[n].schema
                            /\ SameIndex(storage[n], engine[n], vectors[n])
                                 => SameIndex(storage'[n], engine'[n], vectors'[n]),
           \A n \in Names, k \in Keys :
             n # job[c].target \/ k \notin Touches(job[c].req) => Untouched(n, k),
           LET n == job[c].target
           IN  \/ /\ pc'[c] = "idle"
                  /\ \A k \in Touches(job[c].req) : SameKey(storage'[n], engine'[n], vectors'[n], k)
               \/ /\ pc'[c] \in WriteLabels /\ job'[c] = job[c]
                  /\ BatchKnows(pc'[c], job[c], storage'[n], engine'[n], vectors'[n])
    PROVE  OrderlyInv'
<1>1. /\ Orderly /\ ThreadsOK /\ Settled /\ NamespaceDisjoint
      /\ pc[c] # "idle" /\ job[c].req.op = "index"
  BY WriterParts
<1>2. \A d \in Clients : pc[d] \notin Rebuilding \cup Clearing
  BY WriterParts
<1>3. \A n \in Names : /\ \A d \in Clients : ~Holds(d, n)
                       /\ SameIndex(storage[n], engine[n], vectors[n])
                       /\ SameIndex(storage'[n], engine'[n], vectors'[n])
  BY <1>2, WriterParts DEF Holds
<1>4. NamespaceDisjoint'
  BY <1>1 DEF NamespaceDisjoint
<1>5. ASSUME NEW n \in Names, NEW k \in Keys, \A d \in Clients : ~Writes(d, n, k)'
      PROVE  SameKey(storage'[n], engine'[n], vectors'[n], k)
  <2>1. CASE n = job[c].target /\ k \in Touches(job[c].req)
    BY <1>5, <2>1 DEF Writes
  <2>2. CASE n # job[c].target \/ k \notin Touches(job[c].req)
    <3>1. \A d \in Clients : ~Writes(d, n, k)
      BY <1>5, <2>2 DEF Writes, OthersStay
    <3>2. SameKey(storage[n], engine[n], vectors[n], k)
      BY <1>1, <1>3, <3>1 DEF Settled
    <3>3. storage[n] # NoIndex /\ storage[n].schema.dim # 0 => vectors[n] # NoIndex
      BY <1>3 DEF SameIndex, Dimensioned
    <3>4. Untouched(n, k)
      BY <2>2
    <3>5. QED
      BY <3>2, <3>3, <3>4 DEF SameKey, Untouched
  <2>3. QED
    BY <2>1, <2>2
<1>6. Settled'
  BY <1>3, <1>5 DEF Settled
<1>7. ASSUME NEW d \in Clients, d # c, pc'[d] # "idle"
      PROVE  Knows(d)'
  <2>1. pc'[d] = pc[d] /\ job'[d] = job[d]
    BY <1>7 DEF OthersStay
  <2>2. CASE job[d].req.op \in Reads
    BY <1>1, <1>7, <2>1, <2>2, LabelsByKind, NothingToKnow
  <2>3. CASE job[d].req.op = "index"
    <3> DEFINE n == job[d].target
    <3>1. n \in Names /\ job[d].req \in Request
      BY <1>1, <1>7, <2>1, <2>3, InFlightParts
    <3>2. \A k \in Touches(job[d].req) : k \in Keys /\ Untouched(n, k)
      BY <1>1, <1>7, <2>1, <2>3, <3>1, Neighbours, TouchesKeys
    <3>3. BatchKnows(pc[d], job[d], storage[n], engine[n], vectors[n])
      BY <1>7, <2>1 DEF OrderlyInv, Knows
    <3>4. storage[n] # NoIndex /\ storage[n].schema.dim # 0 => vectors[n] # NoIndex
      BY <1>3, <3>1 DEF SameIndex, Dimensioned
    <3>5. /\ \A i \in 1..7 : Phases[i] \in WriteLabels
          /\ pc[d] \notin Clearing /\ pc[d] \notin Rebuilding
      BY <1>2 DEF Phases, WriteLabels
    <3>6. ASSUME NEW i \in 1..7, pc[d] = Phases[i], NEW k \in Touches(job[d].req)
          PROVE  Progress(i, job[d].batch, storage'[n], engine'[n], vectors'[n], k)
      <4>1. Progress(i, job[d].batch, storage[n], engine[n], vectors[n], k)
        BY <3>3, <3>6 DEF BatchKnows
      <4>2. storage[n] # NoIndex /\ storage'[n].schema = storage[n].schema
        BY <3>1, <3>3, <3>5, <3>6 DEF BatchKnows
      <4>3. QED
        BY <3>2, <3>4, <4>1, <4>2 DEF Progress, Untouched
    <3>7. BatchKnows(pc[d], job[d], storage'[n], engine'[n], vectors'[n])
      BY <3>1, <3>3, <3>6 DEF BatchKnows
    <3>8. \A st, en, ve, al : /\ LifecycleKnows(pc[d], job[d], st, en, ve, al)
                              /\ RemovalKnows(pc[d], st, en)
      <4>1. Fits(job[d], pc[d])
        BY <1>1, <1>7, <2>1, InFlightParts
      <4>2. pc[d] \notin {"create_storage", "read_old", "read_preserved", "replace_storage",
                          "store_alias"} \cup Updating \cup {"rollback_storage", "rollback_engine", "rollback_vectors",
                          "delete_engine", "delete_vectors"}
        BY <2>3, <4>1 DEF Fits, Labels, Updating
      <4>3. QED
        BY <4>2 DEF LifecycleKnows, RemovalKnows, Updating
    <3>9. ResetKnows(pc[d])'
      BY <2>1, <3>5 DEF ResetKnows, Clearing
    <3>10. QED
      BY <2>1, <3>7, <3>8, <3>9 DEF Knows
  <2>4. QED
    BY <1>1, <1>7, <2>1, <2>2, <2>3, Neighbours
<1>8. pc'[c] # "idle" => Knows(c)'
  <2>1. SUFFICES ASSUME pc'[c] \in WriteLabels, job'[c] = job[c],
                        BatchKnows(pc'[c], job'[c], storage'[job'[c].target],
                                   engine'[job'[c].target], vectors'[job'[c].target])
                 PROVE  Knows(c)'
    OBVIOUS
  <2>2. pc'[c] \notin {"create_storage", "read_old", "read_preserved", "replace_storage",
                       "store_alias"} \cup Updating \cup Clearing \cup
                       {"rollback_storage", "rollback_engine", "rollback_vectors", "delete_engine", "delete_vectors"}
    BY <2>1 DEF WriteLabels, Updating, Clearing
  <2>3. \A st, en, ve, al : /\ LifecycleKnows(pc'[c], job'[c], st, en, ve, al)
                            /\ RemovalKnows(pc'[c], st, en)
    BY <2>2 DEF LifecycleKnows, RemovalKnows, Updating
  <2>4. ResetKnows(pc[c])'
    BY <2>2 DEF ResetKnows, Clearing
  <2>5. QED
    BY <2>1, <2>3, <2>4 DEF Knows
<1>9. QED
  BY <1>4, <1>6, <1>7, <1>8 DEF OrderlyInv

-----------------------------------------------------------------------------
(* Batches are empty before they begin *)

\* Only a request that begins or looks for its index is at such a label.
LEMMA FreshKept ==
    ASSUME ThreadsOK, Fresh, NEW c \in Clients, Start(c) \/ Step(c)
    PROVE  Fresh'
<1> DEFINE Leaves == pc'[c] \notin FreshLabels
<1>0. (pc'[c] \in FreshLabels => job'[c].batch = EmptyBatch /\ job'[c].docs = NoDocs) => Fresh'
  BY StepsAreOfOne DEF Fresh, OthersStay
<1>1. ASSUME NEW x, Return(c, x) PROVE Leaves
  BY <1>1 DEF Return, Answer, FreshLabels, ThreadsOK
<1>2. ASSUME NEW l, Goto(c, l), l \notin FreshLabels PROVE Leaves
  BY <1>2 DEF Goto, ThreadsOK
<1>3. ASSUME NEW x, RollBack(c, x) PROVE Leaves
  BY <1>2, <1>3 DEF RollBack, FreshLabels
<1>4. ASSUME NEW i, Proceed(c, i) PROVE Leaves
  <2>1. \A j \in NeededAfter(c, i) : Phases[j] \notin FreshLabels
    BY DEF NeededAfter, Phases, FreshLabels
  <2>2. CASE Answer(c, 200, job[c].batch.results, NoDocs)
    BY <2>2 DEF Answer, FreshLabels, ThreadsOK
  <2>3. QED
    BY <1>2, <1>4, <2>1, <2>2 DEF Proceed
<1>5. ASSUME NEW docs, Answer(c, 200, <<>>, docs) PROVE Leaves
  BY <1>5 DEF Answer, FreshLabels, ThreadsOK
<1> HIDE DEF Leaves
<1>6. CASE Start(c)
  <2>1. PICK r \in Workload[c] : job' = [job EXCEPT ![c] = NewJob(r)]
    BY <1>6 DEF Start
  <2>2. job'[c].batch = EmptyBatch /\ job'[c].docs = NoDocs
    BY <2>1 DEF NewJob, ThreadsOK
  <2>3. QED
    BY <1>0, <1>6, <2>2
<1>7. CASE ResolveName(c) \/ ParseResolve(c)
  <2>1. pc[c] \in FreshLabels /\ job' = [job EXCEPT ![c].target = Resolve(alias, job[c].req.name)]
    BY <1>7 DEF ResolveName, ParseResolve, At, FreshLabels
  <2>2. job'[c].batch = job[c].batch /\ job'[c].docs = job[c].docs
    BY <2>1, InFlightParts DEF ThreadsOK, Job, FreshLabels
  <2>3. QED
    BY <1>0, <2>1, <2>2 DEF Fresh
<1>8. CASE ParseRequire(c) \/ CheckAlias(c)
  <2>1. pc[c] \in FreshLabels /\ (UNCHANGED job \/ \E x : Return(c, x))
    BY <1>8 DEF ParseRequire, CheckAlias, At, FreshLabels
  <2>2. QED
    BY <1>0, <1>1, <2>1 DEF Fresh, Leaves
<1>9. CASE RequireIndex(c)
  BY <1>0, <1>1, <1>2, <1>9 DEF RequireIndex, FreshLabels, Leaves
<1>10. CASE LifecycleStep(c)
  <2>1. CASE CreateStorage(c) \/ CreateEngine(c) \/ CreateVectors(c)
    BY <1>0, <1>1, <1>2, <1>3, <2>1
    DEF CreateStorage, CreateEngine, CreateVectors, FreshLabels, Leaves
  <2>2. CASE ReadOld(c) \/ ReadPreserved(c) \/ ReplaceStorage(c) \/ DropEngine(c) \/ DropVectors(c)
    BY <1>0, <1>2, <2>2
    DEF ReadOld, ReadPreserved, ReplaceStorage, DropEngine, DropVectors, FreshLabels, Leaves
  <2>3. CASE RefillEngine(c) \/ RefillTrim(c) \/ RefillVectors(c) \/ RefillStorage(c)
    BY <1>0, <1>1, <1>2, <1>3, <2>3
    DEF RefillEngine, RefillTrim, RefillVectors, RefillStorage, FreshLabels, Leaves
  <2>4. CASE RollbackStorage(c) \/ RollbackEngine(c) \/ RollbackVectors(c)
    BY <1>0, <1>1, <1>2, <2>4
    DEF RollbackStorage, RollbackEngine, RollbackVectors, FreshLabels, Leaves
  <2>5. CASE DeleteStorage(c) \/ DeleteEngine(c) \/ DeleteVectors(c)
    BY <1>0, <1>1, <1>2, <2>5 DEF DeleteStorage, DeleteEngine, DeleteVectors, FreshLabels, Leaves
  <2>6. CASE ResetStorage(c) \/ ResetEngine(c) \/ ResetVectors(c) \/ ResetAliases(c)
    BY <1>0, <1>1, <1>2, <2>6
    DEF ResetStorage, ResetEngine, ResetVectors, ResetAliases, FreshLabels, Leaves
  <2>7. QED
    BY <1>8, <1>10, <2>1, <2>2, <2>3, <2>4, <2>5, <2>6 DEF LifecycleStep
<1>11. CASE IngestStep(c)
  <2>1. CASE FoldAction(c) \/ BeginWrites(c)
    BY <1>0, <1>1, <1>2, <1>4, <2>1 DEF FoldAction, BeginWrites, FreshLabels, Leaves
  <2>2. CASE WriteEngineDelete(c) \/ WriteEngineIndex(c) \/ WriteVectorsDelete(c) \/ WriteVectorsTrim(c)
    BY <1>0, <1>1, <1>4, <2>2
    DEF WriteEngineDelete, WriteEngineIndex, WriteVectorsDelete, WriteVectorsTrim, Leaves
  <2>3. CASE WriteVectorsUpsert(c) \/ WriteStoragePut(c) \/ WriteStorageDelete(c)
    BY <1>0, <1>1, <1>4, <2>3 DEF WriteVectorsUpsert, WriteStoragePut, WriteStorageDelete, Leaves
  <2>4. QED
    BY <1>11, <2>1, <2>2, <2>3 DEF IngestStep
<1>12. CASE SearchDocuments(c) \/ SearchVectors(c) \/ SearchEngine(c)
  BY <1>0, <1>1, <1>2, <1>5, <1>12 DEF SearchDocuments, SearchVectors, SearchEngine, FreshLabels, Leaves
<1>13. CASE ReadDocuments(c)
  BY <1>0, <1>1, <1>5, <1>13 DEF ReadDocuments, Leaves
<1>14. CASE AliasStep(c)
  BY <1>0, <1>1, <1>2, <1>14 DEF AliasStep, CheckIndex, StoreAlias, DeleteAlias, FreshLabels, Leaves
<1>15. QED
  BY <1>6, <1>7, <1>8, <1>9, <1>10, <1>11, <1>12, <1>13, <1>14 DEF Step, ReadStep

-----------------------------------------------------------------------------
(* What one action does to a batch *)

\* How a null vector comes to be pending: the action sends it without a text
\* that fills it in, or adds no vector to a null one.
NullCause(s, stored, b, a) ==
    /\ s.dim \in Dims \ {0} /\ a.kind # "delete"
    /\ \/ MayStayNull(a.doc)
       \/ MergeTarget(stored, b, a.key) # NoDoc /\ MergeTarget(stored, b, a.key).vec = Null

\* The document that an action records.
Outcomes(s, stored, b, a, d) ==
    /\ ValidDocument(s, d)
    /\ d.vec # Null => Honours(d, a)
    /\ d.vec = Null => NullCause(s, stored, b, a)

\* A document that was sent or merged, once a vector is generated for it.
LEMMA GeneratedOutcome ==
    ASSUME NEW s \in Schemas, NEW stored, NEW b, NEW a \in Action,
           a.kind # "delete", NEW d \in Document, ValidDocument(s, d),
           a.doc.text # Absent => d.text = a.doc.text,
           a.doc.parts # Absent => d.parts = a.doc.parts,
           a.doc.vec # Absent => d.vec = a.doc.vec,
           a.kind = "upload" => d = a.doc,
           d.vec = Null => \/ a.doc.vec = Null
                           \/ /\ MergeTarget(stored, b, a.key) # NoDoc
                              /\ MergeTarget(stored, b, a.key).vec = Null
    PROVE  Generated(s, d) \in Document /\ Outcomes(s, stored, b, a, Generated(s, d))
<1> DEFINE g == Generated(s, d)
<1>1. /\ g \in Document /\ ValidDocument(s, g)
      /\ g.text = d.text /\ g.parts = d.parts
      /\ HasVector(d) => g = d
      /\ g.vec = Null => /\ d.vec = Null
                         /\ s.vectorizer /\ s.dim \in Dims \ {0} /\ ~Embeds(d.text, s.dim)
      /\ g.vec # d.vec => /\ HasVector(g) /\ Embeds(d.text, s.dim)
                          /\ g.vec = Embedding[d.text][s.dim]
  BY GeneratedValid
<1>2. a.doc \in Document /\ g # NoDoc /\ Absent # Null
  BY <1>1, NoDocAssumption, NullAssumption DEF Action
<1> HIDE DEF g
<1>3. s.dim \in Dims
  BY DEF Schemas
<1>4. g.vec = d.vec \/ g.vec \in VectorsFor(g)
  BY <1>1, <1>3 DEF VectorsFor
<1>5. ASSUME g.vec # Null
      PROVE  Honours(g, a)
  <2>1. HasVector(a.doc) => g.vec = a.doc.vec
    <3>1. ASSUME HasVector(a.doc)
          PROVE  g.vec = a.doc.vec
      <4>1. a.doc.vec # Absent
        BY <3>1, AbsentAssumption DEF HasVector
      <4>2. HasVector(d) /\ d.vec = a.doc.vec
        BY <3>1, <4>1 DEF HasVector
      <4>3. QED
        BY <1>1, <4>2
    <3>2. QED
      BY <3>1
  <2>2. a.doc.vec = Null => g.vec \in VectorsFor(g)
    BY <1>2, <1>4, <1>5
  <2>3. Carries(g, a.doc)
    BY <1>1, <2>1, <2>2 DEF Carries
  <2>4. QED
    BY <1>1, <1>2, <1>4, <2>3 DEF Honours
<1>6. ASSUME g.vec = Null
      PROVE  NullCause(s, stored, b, a)
  <2>1. a.doc.vec = Null => MayStayNull(a.doc)
    <3>1. a.doc.text = Absent => ~Embeds(a.doc.text, s.dim)
      BY DEF Embeds
    <3>2. ~Embeds(a.doc.text, s.dim)
      BY <1>1, <1>6, <3>1
    <3>3. QED
      BY <1>1, <1>6, <3>2 DEF MayStayNull
  <2>2. QED
    BY <1>1, <1>6, <2>1 DEF NullCause
<1>7. QED
  BY <1>1, <1>5, <1>6 DEF Outcomes, g

\* An action that succeeds records a valid document that honours it, unless
\* its vector stays null, or the deletion of its key; any other only answers.
LEMMA ActionEffect ==
    ASSUME NEW s \in Schemas, NEW stored \in DocMap, NEW b \in Batch, NEW a \in Action
    PROVE  LET next == ApplyAction(s, stored, b, a)
           IN  \/ \E d \in Document, status \in {200, 201} :
                    /\ Outcomes(s, stored, b, a, d)
                    /\ next = Respond(RecordUpsert(b, a.key, d), a.key, status)
               \/ /\ Honours(NoDoc, a)
                  /\ next = Respond(RecordDelete(b, a.key), a.key, 200)
               \/ \E status \in {400, 404} : next = Respond(b, a.key, status)
<1> DEFINE k == a.key
           next == ApplyAction(s, stored, b, a)
           Effect == \/ \E d \in Document, status \in {200, 201} :
                          /\ Outcomes(s, stored, b, a, d)
                          /\ next = Respond(RecordUpsert(b, k, d), k, status)
                     \/ Honours(NoDoc, a) /\ next = Respond(RecordDelete(b, k), k, 200)
                     \/ \E status \in {400, 404} : next = Respond(b, k, status)
<1>1. /\ a.kind \in {"upload", "merge", "mergeOrUpload", "delete"}
      /\ k \in Keys /\ a.doc \in Document /\ a.doc # NoDoc
  BY NoDocAssumption DEF Action, Kinds
<1>2. ASSUME NEW d \in Document, NEW status \in {200, 201},
             ValidDocument(s, d) => /\ Generated(s, d) \in Document
                                    /\ Outcomes(s, stored, b, a, Generated(s, d)),
             next = UpsertIfValid(s, b, k, d, status)
      PROVE  Effect
  BY <1>2 DEF UpsertIfValid
<1>3. ASSUME a.kind # "delete", ValidDocument(s, a.doc)
      PROVE  /\ Generated(s, a.doc) \in Document
             /\ Outcomes(s, stored, b, a, Generated(s, a.doc))
  BY <1>1, <1>3, GeneratedOutcome
<1>4. CASE a.kind = "upload"
  <2>1. next = UpsertIfValid(s, b, k, a.doc, 201)
    BY <1>4 DEF ApplyAction, ApplyUpload
  <2>2. QED
    BY <1>1, <1>2, <1>3, <1>4, <2>1
<1>5. CASE a.kind \in {"merge", "mergeOrUpload"}
  <2> DEFINE old == MergeTarget(stored, b, k)
             new == MergeFields(old, a.doc)
  <2>1. next = ApplyMerge(s, stored, b, a)
    BY <1>5 DEF ApplyAction
  <2>2. CASE old # NoDoc
    <3>1. old \in Document
      BY <1>1, <2>2 DEF MergeTarget, Batch, DocMap
    <3>2. new \in Document /\ new # NoDoc
      BY <1>1, <3>1, NoDocAssumption DEF MergeFields, Document
    <3>3. ASSUME ValidDocument(s, new)
          PROVE  /\ Generated(s, new) \in Document
                 /\ Outcomes(s, stored, b, a, Generated(s, new))
      <4>1. /\ a.doc.text # Absent => new.text = a.doc.text
            /\ a.doc.parts # Absent => new.parts = a.doc.parts
            /\ a.doc.vec # Absent => new.vec = a.doc.vec
            /\ a.doc.vec = Absent => new.vec = old.vec
        BY DEF MergeFields
      <4> HIDE DEF new, old
      <4>2. new.vec = Null => a.doc.vec = Null \/ old.vec = Null
        BY <4>1
      <4>3. QED
        BY <1>5, <2>2, <3>2, <3>3, <4>1, <4>2, GeneratedOutcome DEF old
    <3>4. next = UpsertIfValid(s, b, k, new, 200)
      BY <2>1, <2>2 DEF ApplyMerge
    <3> HIDE DEF new
    <3>5. QED
      BY <1>2, <3>2, <3>3, <3>4
  <2>3. CASE old = NoDoc /\ a.kind = "merge"
    BY <2>1, <2>3 DEF ApplyMerge
  <2>4. CASE old = NoDoc /\ a.kind = "mergeOrUpload"
    <3>1. next = UpsertIfValid(s, b, k, a.doc, 201)
      BY <2>1, <2>4 DEF ApplyMerge, ApplyUpload
    <3>2. QED
      BY <1>1, <1>2, <1>3, <2>4, <3>1
  <2>5. QED
    BY <1>5, <2>2, <2>3, <2>4
<1>6. CASE a.kind = "delete"
  <2>1. next = ApplyDelete(stored, b, a)
    BY <1>6 DEF ApplyAction
  <2>2. Honours(NoDoc, a)
    BY <1>6 DEF Honours
  <2>3. QED
    BY <2>1, <2>2 DEF ApplyDelete
<1>7. QED
  BY <1>1, <1>4, <1>5, <1>6

\* While a batch has more actions, the next one is one of its request's.
LEMMA NextActionIsItsOwn ==
    ASSUME ThreadsOK, NEW c \in Clients, pc[c] = "apply_action", MoreActions(c)
    PROVE  /\ job[c].req.op = "index"
           /\ NextAction(c) \in Action
           /\ NextAction(c).key \in Touches(job[c].req)
           /\ \E i \in DOMAIN job[c].req.actions : NextAction(c) = job[c].req.actions[i]
<1>1. Fits(job[c], pc[c]) /\ job[c].req \in Request /\ job[c].batch \in Batch
  BY InFlightParts
<1>2. job[c].req.op = "index"
  BY <1>1, LabelKinds
<1>3. job[c].req.actions \in Seq(Action) /\ job[c].batch.results \in Seq(Result)
  BY <1>1, <1>2, RequestParts DEF Batch
<1> DEFINE acts == job[c].req.actions
           i == Len(job[c].batch.results) + 1
<1>4. /\ Len(job[c].batch.results) \in Nat /\ Len(acts) \in Nat
      /\ DOMAIN acts = 1..Len(acts)
      /\ \A k \in DOMAIN acts : acts[k] \in Action
  BY <1>3
<1>5. i <= Len(acts) /\ NextAction(c) = acts[i]
  BY <1>4 DEF MoreActions, NextAction
<1> HIDE DEF acts
<1>6. i \in DOMAIN acts
  BY <1>4, <1>5
<1>7. QED
  BY <1>2, <1>4, <1>5, <1>6 DEF Touches, acts

\* A batch that may be written stays one.
LEMMA ActionWritable ==
    ASSUME NEW r, NEW s \in Schemas, NEW stored \in DocMap, NEW b \in Batch, NEW a \in Action,
           r.op = "index", \E i \in DOMAIN r.actions : a = r.actions[i],
           IndexableDocs(s, stored),
           a.key \in Touches(r), WritableBatch(r, s, b)
    PROVE  /\ WritableBatch(r, s, ApplyAction(s, stored, b, a))
           /\ \A status : WritableBatch(r, s, Respond(b, a.key, status))
<1>1. a.key \in Keys /\ b.upserts \in DocMap
  BY DEF Action, Batch
<1>0. ASSUME NullCause(s, stored, b, a)
      PROVE  NullRequest(r)
  <2>1. CASE MayStayNull(a.doc)
    BY <1>0, <2>1 DEF NullCause, NullRequest
  <2>2. CASE MergeTarget(stored, b, a.key) # NoDoc /\ MergeTarget(stored, b, a.key).vec = Null
    <3>1. stored[a.key] # NoDoc => stored[a.key].vec # Null
      BY <1>1 DEF IndexableDocs, Indexable
    <3>2. b.upserts[a.key] # NoDoc /\ b.upserts[a.key].vec = Null
      BY <2>2, <3>1 DEF MergeTarget
    <3>3. QED
      BY <1>1, <3>2 DEF WritableBatch, Admitted
  <2>3. QED
    BY <1>0, <2>1, <2>2 DEF NullCause
<1>2. ASSUME NEW d \in Document, NEW status, Outcomes(s, stored, b, a, d)
      PROVE  WritableBatch(r, s, Respond(RecordUpsert(b, a.key, d), a.key, status))
  <2> DEFINE next == Respond(RecordUpsert(b, a.key, d), a.key, status)
  <2>1. next.upserts = [b.upserts EXCEPT ![a.key] = d] /\ next.deletes = b.deletes \ {a.key}
    BY <1>1 DEF Respond, RecordUpsert, Batch
  <2> HIDE DEF next
  <2>2. Admitted(r, s, d)
    BY <1>0, <1>2 DEF Admitted, Outcomes, ValidDocument, NullCause
  <2>3. WritableBatch(r, s, next)
    BY <1>1, <2>1, <2>2 DEF WritableBatch, DocMap
  <2>4. QED
    BY <2>3 DEF next
<1>3. ASSUME NEW status
      PROVE  WritableBatch(r, s, Respond(RecordDelete(b, a.key), a.key, status))
  <2> DEFINE next == Respond(RecordDelete(b, a.key), a.key, status)
  <2>1. /\ next.upserts = [b.upserts EXCEPT ![a.key] = NoDoc]
        /\ next.deletes = b.deletes \cup {a.key}
    BY <1>1 DEF Respond, RecordDelete, Batch
  <2> HIDE DEF next
  <2>2. WritableBatch(r, s, next)
    BY <1>1, <2>1 DEF WritableBatch, DocMap
  <2>3. QED
    BY <2>2 DEF next
<1>4. ASSUME NEW status
      PROVE  WritableBatch(r, s, Respond(b, a.key, status))
  <2>1. /\ Respond(b, a.key, status).upserts = b.upserts
        /\ Respond(b, a.key, status).deletes = b.deletes
    BY DEF Respond, Batch
  <2>2. QED
    BY <2>1 DEF WritableBatch
<1>5. QED
  BY <1>2, <1>3, <1>4, ActionEffect

-----------------------------------------------------------------------------
(* Steps that change no store *)

\* What has to be known at the labels before a request changes anything.
Checked(label, j, st, al) ==
    \/ label \in {"create_storage", "read_old"} /\ al = NoAlias
    \/ /\ label = "read_preserved" /\ al = NoAlias
       /\ st # NoIndex /\ SchemaCompatible(st.schema, j.schema)
    \/ label = "replace_storage" /\ al = NoAlias /\ IndexableDocs(j.schema, j.docs)
    \/ label = "store_alias" /\ st = NoIndex
    \/ /\ label = "apply_action" /\ st # NoIndex /\ st.schema = j.schema
       /\ WritableBatch(j.req, j.schema, j.batch)

\* There is nothing else to know there.
LEMMA ChecksKnow ==
    ASSUME NEW label, NEW j, NEW st, NEW en, NEW ve, NEW al, Checked(label, j, st, al)
    PROVE  /\ LifecycleKnows(label, j, st, en, ve, al)
           /\ RemovalKnows(label, st, en)
           /\ BatchKnows(label, j, st, en, ve)
           /\ label \notin Clearing
           /\ label \notin BusyLabels
<1>1. label \in {"create_storage", "read_old", "read_preserved", "replace_storage",
                 "store_alias", "apply_action"}
  BY DEF Checked
<1>2. /\ label \notin Updating /\ label \notin Clearing /\ label \notin WriteLabels
      /\ label \notin Rollback /\ label \notin BusyLabels
  BY <1>1 DEF BusyLabels, Rebuilding, Updating, Rollback, Clearing, WriteLabels
<1>3. \A i \in 1..7 : Phases[i] \in WriteLabels
  BY DEF Phases, WriteLabels
<1>4. BatchKnows(label, j, st, en, ve)
  BY <1>2, <1>3 DEF BatchKnows, Checked
<1>5. label # "create_engine" /\ label \notin {"drop_vectors", "create_vectors", "refill_engine",
                              "refill_trim", "refill_vectors", "refill_storage"}
  BY <1>1
<1>6. LifecycleKnows(label, j, st, en, ve, al)
  BY <1>2, <1>5 DEF LifecycleKnows, Checked
<1>7. RemovalKnows(label, st, en)
  BY <1>1 DEF RemovalKnows, Checked
<1>8. QED
  BY <1>2, <1>4, <1>6, <1>7

\* A step to one of them that changes no store, before the request has
\* changed any.
LEMMA ChecksKeep ==
    ASSUME OrderlyInv, Steady', NEW c \in Clients, OthersStay(c), UNCHANGED stores,
           pc[c] \notin BusyLabels, NEW t, job'[c].target = t,
           Checked(pc'[c], job'[c], storage[t], alias[t])
    PROVE  OrderlyInv'
<1>1. storage' = storage /\ engine' = engine /\ vectors' = vectors /\ alias' = alias
  BY DEF stores
<1>2. /\ LifecycleKnows(pc'[c], job'[c], storage[t], engine[t], vectors[t], alias[t])
      /\ RemovalKnows(pc'[c], storage[t], engine[t])
      /\ BatchKnows(pc'[c], job'[c], storage[t], engine[t], vectors[t])
      /\ pc'[c] \notin Clearing /\ pc'[c] \notin BusyLabels
  BY ChecksKnow
<1>3. ResetKnows(pc[c])'
  BY <1>2 DEF ResetKnows, Clearing
<1>4. Knows(c)'
  BY <1>1, <1>2, <1>3 DEF Knows
<1>5. QED
  BY <1>2, <1>4, QuietKeeps

\* Checks, reads and answers.
LEMMA QuietSteps ==
    ASSUME OrderlyInv, Steady', NEW c \in Clients, OthersStay(c),
           \/ Start(c) \/ ResolveName(c) \/ RequireIndex(c) \/ ReadStep(c)
           \/ CheckAlias(c) \/ ReadOld(c) \/ ReadPreserved(c) \/ CheckIndex(c)
    PROVE  OrderlyInv'
<1> DEFINE t == job[c].target
<1>1. Inv /\ ThreadsOK /\ StoresOK /\ Fresh
  BY DEF OrderlyInv, Steady, Inv
<1>2. \A l : l \in {"idle", "resolve", "require", "parse_resolve", "parse_require",
                    "search_documents", "search_vectors", "search_engine", "read_documents",
                    "check_alias", "read_old", "read_preserved", "check_index"}
               => l \notin BusyLabels
  BY DEF BusyLabels, Rebuilding, Updating, Rollback, Clearing, WriteLabels
<1>3. \A l : l \in {"idle", "resolve", "require", "parse_resolve", "parse_require",
                    "search_documents", "search_vectors", "search_engine", "read_documents",
                    "check_alias", "check_index", "delete_alias", "delete_storage",
                    "reset_storage"}
               => l \notin KnowingLabels /\ l \notin BusyLabels
  BY DEF KnowingLabels, BusyLabels, Rebuilding, Updating, Rollback, Clearing, WriteLabels
<1>4. ASSUME NEW l, pc'[c] = l, l \notin KnowingLabels, l \notin BusyLabels,
             pc[c] \notin BusyLabels, UNCHANGED stores
      PROVE  OrderlyInv'
  BY <1>4, NothingToKnow, QuietKeeps
<1>5. ASSUME NEW x, Return(c, x), pc[c] \notin BusyLabels, UNCHANGED stores
      PROVE  OrderlyInv'
  BY <1>1, <1>3, <1>4, <1>5 DEF Return, Answer, ThreadsOK
<1>6. ASSUME NEW docs, Answer(c, 200, <<>>, docs), pc[c] \notin BusyLabels, UNCHANGED stores
      PROVE  OrderlyInv'
  BY <1>1, <1>3, <1>4, <1>6 DEF Answer, ThreadsOK
<1>7. ASSUME NEW l, Goto(c, l), l \notin KnowingLabels, l \notin BusyLabels,
             pc[c] \notin BusyLabels, UNCHANGED stores
      PROVE  OrderlyInv'
  BY <1>1, <1>4, <1>7 DEF Goto, ThreadsOK
<1>8. CASE Start(c)
  <2>1. PICK r \in Workload[c] : pc' = [pc EXCEPT ![c] = Entry(r.op)]
    BY <1>8 DEF Start
  <2>2. r \in Request
    BY WorkloadAssumption
  <2>3. r.op \in {"create", "put", "delete", "index", "search", "get", "count",
                  "createAlias", "putAlias", "deleteAlias", "reset"}
    BY <2>2, RequestParts
  <2>4. Entry(r.op) \in {"check_alias", "resolve", "parse_resolve", "check_index",
                         "delete_alias", "reset_storage"}
    BY <2>3 DEF Entry
  <2>5. pc'[c] = Entry(r.op) /\ pc[c] = "idle" /\ UNCHANGED stores
    BY <1>1, <1>8, <2>1 DEF Start, At, ThreadsOK
  <2>6. QED
    BY <1>2, <1>3, <1>4, <2>4, <2>5
<1>9. CASE ResolveName(c)
  <2> DEFINE l == CASE job[c].req.op = "put"    -> "check_alias"
                    [] job[c].req.op = "delete" -> "delete_storage"
                    [] OTHER                    -> "require"
  <2>1. Goto(c, l) /\ pc[c] = "resolve" /\ UNCHANGED stores
    BY <1>9 DEF ResolveName, At
  <2>2. l \in {"check_alias", "delete_storage", "require"}
    OBVIOUS
  <2> HIDE DEF l
  <2>3. QED
    BY <1>2, <1>3, <1>7, <2>1, <2>2
<1>10. CASE RequireIndex(c)
  <2>1. pc[c] = "require" /\ pc[c] \notin BusyLabels /\ UNCHANGED stores
    BY <1>2, <1>10 DEF RequireIndex, At
  <2>2. CASE Return(c, 404)
    BY <1>5, <2>1, <2>2
  <2>3. CASE /\ storage[t] # NoIndex
             /\ job' = [job EXCEPT ![c].schema = storage[t].schema]
             /\ Goto(c, "apply_action")
    <3>1. job[c] \in Job /\ job[c].batch = EmptyBatch /\ t \in Names
      <4>1. Fits(job[c], "require")
        BY <1>1, <2>1, InFlightParts
      <4>2. job[c].req.op # "reset"
        BY <4>1, LabelKinds
      <4>3. QED
        BY <1>1, <2>1, <4>2, InFlightParts DEF Fresh, FreshLabels
    <3>2. /\ job'[c].schema = storage[t].schema /\ job'[c].batch = EmptyBatch
          /\ job'[c].target = t /\ pc'[c] = "apply_action"
      BY <1>1, <2>3, <3>1 DEF Goto, ThreadsOK, Job
    <3>3. WritableBatch(job'[c].req, job'[c].schema, EmptyBatch)
      BY DEF WritableBatch, EmptyBatch, NoDocs
    <3>4. Checked(pc'[c], job'[c], storage[t], alias[t])
      BY <2>3, <3>2, <3>3 DEF Checked
    <3>5. QED
      BY <2>1, <3>2, <3>4, ChecksKeep
  <2>4. CASE Goto(c, "search_documents") \/ Goto(c, "read_documents")
    BY <1>3, <1>7, <2>1, <2>4
  <2>5. QED
    BY <1>10, <2>2, <2>3, <2>4 DEF RequireIndex
<1>11. CASE CheckAlias(c)
  <2>1. pc[c] = "check_alias" /\ pc[c] \notin BusyLabels /\ UNCHANGED stores
    BY <1>2, <1>11 DEF CheckAlias, At
  <2>2. CASE Return(c, 409)
    BY <1>5, <2>1, <2>2
  <2>3. CASE /\ alias[t] = NoAlias /\ UNCHANGED job
             /\ Goto(c, "create_storage") \/ Goto(c, "read_old")
    <3>1. pc'[c] \in {"create_storage", "read_old"} /\ job'[c] = job[c]
      BY <1>1, <2>3 DEF Goto, ThreadsOK
    <3>2. QED
      BY <2>1, <2>3, <3>1, ChecksKeep DEF Checked
  <2>4. QED
    BY <1>11, <2>2, <2>3 DEF CheckAlias
<1>12. CASE ReadOld(c)
  <2> DEFINE old == storage[t]
             keep == old # NoIndex /\ SchemaCompatible(old.schema, job[c].schema)
  <2>1. /\ pc[c] = "read_old" /\ pc[c] \notin BusyLabels /\ UNCHANGED stores
        /\ UNCHANGED job /\ Goto(c, IF keep THEN "read_preserved" ELSE "replace_storage")
    BY <1>2, <1>12 DEF ReadOld, At, stores
  <2>2. job'[c] = job[c] /\ pc'[c] = IF keep THEN "read_preserved" ELSE "replace_storage"
    BY <1>1, <2>1 DEF Goto, ThreadsOK
  <2>3. alias[t] = NoAlias
    BY <2>1 DEF OrderlyInv, Knows, LifecycleKnows
  <2>4. IndexableDocs(job[c].schema, job[c].docs)
    BY <1>1, <2>1 DEF Fresh, FreshLabels, IndexableDocs, NoDocs
  <2>5. Checked(pc'[c], job'[c], storage[t], alias[t])
    BY <2>2, <2>3, <2>4 DEF Checked
  <2>6. QED
    BY <2>1, <2>2, <2>5, ChecksKeep
<1>13. CASE ReadPreserved(c)
  <2>1. /\ pc[c] = "read_preserved" /\ pc[c] \notin BusyLabels /\ UNCHANGED stores
        /\ Goto(c, "replace_storage")
        /\ job' = [job EXCEPT ![c].docs = IF storage[t] = NoIndex THEN NoDocs ELSE storage[t].docs]
    BY <1>2, <1>13 DEF ReadPreserved, At
  <2>2. job[c] \in Job /\ job[c].req.op = "put" /\ t \in Names /\ pc[c] # "idle"
    <3>1. Fits(job[c], "read_preserved")
      BY <1>1, <2>1, InFlightParts
    <3>2. job[c].req.op = "put"
      BY <3>1, LabelKinds
    <3>3. QED
      BY <1>1, <2>1, <3>2, InFlightParts
  <2>3. /\ alias[t] = NoAlias /\ storage[t] # NoIndex
        /\ SchemaCompatible(storage[t].schema, job[c].schema)
    BY <2>1 DEF OrderlyInv, Knows, LifecycleKnows
  <2>4. /\ job'[c].docs = storage[t].docs /\ job'[c].schema = job[c].schema
        /\ job'[c].target = t /\ pc'[c] = "replace_storage"
    BY <1>1, <2>1, <2>2, <2>3 DEF Goto, ThreadsOK, Job
  <2>5. IndexableDocs(storage[t].schema, storage[t].docs)
    <3>1. ~Holds(c, t)
      BY <2>1 DEF Holds, Rebuilding, Updating, Rollback, Clearing
    <3>2. Whole(t)
      BY <2>2, <3>1, ElsewhereWhole DEF Exclusive
    <3>3. QED
      BY <2>3, <3>2 DEF Whole, Agreed, SameIndex
  <2>6. IndexableDocs(job[c].schema, storage[t].docs)
    BY <2>3, <2>5 DEF IndexableDocs, Indexable, SchemaCompatible
  <2>7. Checked(pc'[c], job'[c], storage[t], alias[t])
    BY <2>3, <2>4, <2>6 DEF Checked
  <2>8. QED
    BY <2>1, <2>4, <2>7, ChecksKeep
<1>14. CASE CheckIndex(c)
  <2>1. pc[c] = "check_index" /\ pc[c] \notin BusyLabels /\ UNCHANGED stores
    BY <1>2, <1>14 DEF CheckIndex, At
  <2>2. CASE Return(c, 409)
    BY <1>5, <2>1, <2>2
  <2>3. CASE storage[t] = NoIndex /\ Goto(c, "store_alias") /\ UNCHANGED job
    <3>1. pc'[c] = "store_alias" /\ job'[c] = job[c]
      BY <1>1, <2>3 DEF Goto, ThreadsOK
    <3>2. QED
      BY <2>1, <2>3, <3>1, ChecksKeep DEF Checked
  <2>4. QED
    BY <1>14, <2>2, <2>3 DEF CheckIndex
<1>15. CASE ReadStep(c)
  <2>1. /\ UNCHANGED stores
        /\ pc[c] \in {"parse_resolve", "parse_require", "search_documents", "search_vectors",
                      "search_engine", "read_documents"}
    BY <1>15 DEF ReadStep, ParseResolve, ParseRequire, SearchDocuments, SearchVectors,
                 SearchEngine, ReadDocuments, At
  <2>2. pc[c] \notin BusyLabels
    BY <1>2, <2>1
  <2>3. ASSUME NEW l \in {"parse_require", "resolve", "search_vectors", "search_engine"},
               Goto(c, l)
        PROVE  OrderlyInv'
    BY <1>3, <1>7, <2>1, <2>2, <2>3
  <2>4. CASE ParseResolve(c) \/ ParseRequire(c)
    BY <1>5, <2>1, <2>2, <2>3, <2>4 DEF ParseResolve, ParseRequire
  <2>5. CASE SearchDocuments(c)
    BY <1>5, <2>1, <2>2, <2>3, <2>5 DEF SearchDocuments
  <2>6. CASE SearchVectors(c)
    BY <1>6, <2>1, <2>2, <2>3, <2>6 DEF SearchVectors
  <2>7. CASE SearchEngine(c)
    BY <1>5, <1>6, <2>1, <2>2, <2>7 DEF SearchEngine
  <2>8. CASE ReadDocuments(c)
    BY <1>5, <1>6, <2>1, <2>2, <2>8 DEF ReadDocuments
  <2>9. QED
    BY <1>15, <2>4, <2>5, <2>6, <2>7, <2>8 DEF ReadStep
<1>16. QED
  BY <1>8, <1>9, <1>10, <1>11, <1>12, <1>13, <1>14, <1>15

\* One action is folded into the batch.
LEMMA FoldSteps ==
    ASSUME OrderlyInv, Steady', NEW c \in Clients, OthersStay(c), FoldAction(c)
    PROVE  OrderlyInv'
<1> DEFINE t == job[c].target
           b == job[c].batch
           a == NextAction(c)
           next == ApplyAction(job[c].schema, storage[t].docs, b, a)
<1>1. /\ Inv /\ ThreadsOK /\ StoresOK
      /\ pc[c] = "apply_action" /\ MoreActions(c) /\ UNCHANGED stores
  BY DEF OrderlyInv, Steady, Inv, FoldAction, At
<1>2. pc[c] \notin BusyLabels
  BY <1>1 DEF BusyLabels, Rebuilding, Updating, Rollback, Clearing, WriteLabels
<1>3. job[c] \in Job /\ job[c].req.op = "index" /\ t \in Names /\ b \in Batch
  <2>1. Fits(job[c], "apply_action")
    BY <1>1, InFlightParts
  <2>2. job[c].req.op = "index"
    BY <2>1, LabelKinds
  <2>3. QED
    BY <1>1, <2>2, InFlightParts
<1>4. /\ storage[t] # NoIndex /\ storage[t].schema = job[c].schema
      /\ WritableBatch(job[c].req, job[c].schema, b)
  BY <1>1 DEF OrderlyInv, Knows, BatchKnows
<1>5. a \in Action /\ a.key \in Touches(job[c].req)
  BY <1>1, NextActionIsItsOwn
<1>6. storage[t].docs \in DocMap
  BY <1>1, <1>3, <1>4 DEF StoresOK, Storage, IndexEntry
<1>7. WritableBatch(job[c].req, job[c].schema, next)
  <2>1. job[c].schema \in Schemas
    BY <1>1, InFlightParts DEF Fits, NoSchemaLabels
  <2>2. \E i \in DOMAIN job[c].req.actions : a = job[c].req.actions[i]
    BY <1>1, NextActionIsItsOwn
  <2>3. IndexableDocs(job[c].schema, storage[t].docs)
    BY <1>1, <1>4, WriterParts DEF SameIndex
  <2> HIDE DEF a, b, t
  <2>4. QED
    BY <1>3, <1>4, <1>5, <1>6, <2>1, <2>2, <2>3, ActionWritable
<1>8. job' = [job EXCEPT ![c].batch = next] /\ Goto(c, "apply_action")
  BY <1>4 DEF FoldAction
<1> HIDE DEF next
<1>9. /\ job'[c].batch = next /\ job'[c].req = job[c].req /\ job'[c].schema = job[c].schema
      /\ job'[c].target = t /\ pc'[c] = "apply_action"
  BY <1>1, <1>3, <1>8 DEF Goto, ThreadsOK, Job
<1>10. Checked(pc'[c], job'[c], storage[t], alias[t])
  BY <1>4, <1>7, <1>9 DEF Checked
<1>11. QED
  BY <1>1, <1>2, <1>9, <1>10, ChecksKeep

-----------------------------------------------------------------------------
(* Steps that take an index apart or put it together *)

\* What has to be known while that is done.
Rebuilt(label, j, st, en, ve, al) ==
    LET s == j.schema
    IN  \/ /\ EmptyEntry(st, s) /\ al = NoAlias /\ IndexableDocs(s, j.docs)
           /\ \/ label = "drop_engine"
              \/ label = "create_engine" /\ en = NoIndex /\ (j.req.op = "create" => ve = NoIndex)
              \/ label = "drop_vectors" /\ EngineHolds(en, NoDocs)
              \/ label = "create_vectors" /\ EngineHolds(en, NoDocs) /\ ve = NoIndex
              \/ /\ label = "refill_engine"
                 /\ EngineHolds(en, NoDocs) /\ VectorsHold(ve, s.dim, NoDocs)
              \/ /\ label \in {"refill_trim", "refill_vectors"} /\ s.dim # 0
                 /\ EngineHolds(en, j.docs) /\ VectorsHold(ve, s.dim, NoDocs)
              \/ /\ label = "refill_storage"
                 /\ EngineHolds(en, j.docs) /\ VectorsHold(ve, s.dim, j.docs)
        \/ label = "rollback_storage" /\ st # NoIndex /\ st.docs = NoDocs
        \/ label \in {"rollback_engine", "delete_engine"} /\ st = NoIndex
        \/ label \in {"rollback_vectors", "delete_vectors"} /\ st = NoIndex /\ en = NoIndex

\* There is nothing else to know there.
LEMMA RebuiltKnows ==
    ASSUME NEW label, NEW j, NEW st, NEW en, NEW ve, NEW al, Rebuilt(label, j, st, en, ve, al)
    PROVE  /\ LifecycleKnows(label, j, st, en, ve, al)
           /\ RemovalKnows(label, st, en)
           /\ BatchKnows(label, j, st, en, ve)
           /\ label \in Rebuilding /\ label \notin Clearing /\ label \notin WriteLabels
<1>1. label \in {"drop_engine", "create_engine", "drop_vectors", "create_vectors",
                 "refill_engine", "refill_trim", "refill_vectors", "refill_storage",
                 "rollback_storage", "rollback_engine", "rollback_vectors",
                 "delete_engine", "delete_vectors"}
  BY DEF Rebuilt
<1>2. label \in Rebuilding /\ label \notin Clearing /\ label \notin WriteLabels
  BY <1>1 DEF Rebuilding, Updating, Rollback, Clearing, WriteLabels
<1>3. label # "apply_action" /\ \A i \in 1..7 : Phases[i] \in WriteLabels
  BY <1>1 DEF Phases, WriteLabels
<1>4. BatchKnows(label, j, st, en, ve)
  BY <1>2, <1>3 DEF BatchKnows
<1>5. RemovalKnows(label, st, en)
  BY DEF RemovalKnows, Rebuilt
<1>6. LifecycleKnows(label, j, st, en, ve, al)
  BY DEF LifecycleKnows, Rebuilt, Updating
<1>7. QED
  BY <1>2, <1>4, <1>5, <1>6

\* A request that has to do with one index or name takes a step; when it is
\* answered, the stores agree about the index.
LEMMA RebuildKeeps ==
    ASSUME OrderlyInv, Steady', NEW c \in Clients, OthersStay(c),
           pc[c] # "idle", job[c].req.op \in Exclusive, pc[c] \notin Clearing,
           NEW t \in Names, t = job[c].target,
           \A m \in Names : m # t => /\ storage'[m] = storage[m] /\ engine'[m] = engine[m]
                                     /\ vectors'[m] = vectors[m] /\ alias'[m] = alias[m],
           storage'[t] = NoIndex \/ alias'[t] = NoAlias,
           \/ pc'[c] = "idle" /\ Agreed(storage'[t], engine'[t], vectors'[t])
           \/ /\ job'[c].target = t
              /\ Rebuilt(pc'[c], job'[c], storage'[t], engine'[t], vectors'[t], alias'[t])
    PROVE  OrderlyInv'
<1>1. NamespaceDisjoint'
  BY DEF OrderlyInv, NamespaceDisjoint
<1>2. ASSUME NEW m \in Names, m # t
      PROVE  Whole(m)'
  <2>1. ~Holds(c, m)
    BY <1>2 DEF Holds
  <2>2. Whole(m)
    BY <2>1, ElsewhereWhole
  <2>3. QED
    BY <1>2, <2>2 DEF Whole, Agreed
<1>3. CASE pc'[c] = "idle" /\ Agreed(storage'[t], engine'[t], vectors'[t])
  BY <1>1, <1>2, <1>3, ExclusiveKeeps DEF Whole
<1>4. CASE /\ job'[c].target = t
           /\ Rebuilt(pc'[c], job'[c], storage'[t], engine'[t], vectors'[t], alias'[t])
  <2>1. /\ LifecycleKnows(pc'[c], job'[c], storage'[t], engine'[t], vectors'[t], alias'[t])
        /\ RemovalKnows(pc'[c], storage'[t], engine'[t])
        /\ BatchKnows(pc'[c], job'[c], storage'[t], engine'[t], vectors'[t])
        /\ pc'[c] \in Rebuilding /\ pc'[c] \notin Clearing /\ pc'[c] \notin WriteLabels
    BY <1>4, RebuiltKnows
  <2>2. ResetKnows(pc[c])'
    BY <2>1 DEF ResetKnows, Clearing
  <2>3. Knows(c)'
    BY <1>4, <2>1, <2>2 DEF Knows
  <2>4. Holds(c, t)'
    BY <1>4, <2>1 DEF Holds
  <2>5. QED
    BY <1>1, <1>2, <2>1, <2>3, <2>4, ExclusiveKeeps
<1>5. QED
  BY <1>3, <1>4

\* What such a request holds.
LEMMA RebuilderParts ==
    ASSUME OrderlyInv, NEW c \in Clients,
           pc[c] \in {"create_storage", "replace_storage", "delete_storage"} \cup Rebuilding
    PROVE  /\ pc[c] # "idle" /\ pc[c] \notin Clearing
           /\ job[c].req.op \in Exclusive /\ job[c].target \in Names
           /\ job[c] \in Job /\ job[c].docs \in DocMap
           /\ job[c].req.op \in {"create", "put"} => job[c].schema \in Schemas
           /\ storage \in Storage /\ engine \in Engine /\ vectors \in Vectors
           /\ ThreadsOK /\ Knows(c)
<1>1. StoresOK /\ ThreadsOK
  BY DEF OrderlyInv, Steady, Inv
<1>2. pc[c] \in {"create_storage", "replace_storage", "delete_storage", "drop_engine",
                 "create_engine", "drop_vectors", "create_vectors", "refill_engine",
                 "refill_trim", "refill_vectors", "refill_storage", "rollback_storage",
                 "rollback_engine", "rollback_vectors", "delete_engine", "delete_vectors"}
  BY DEF Rebuilding, Updating, Rollback
<1>3. pc[c] # "idle" /\ pc[c] \notin Clearing
  BY <1>2 DEF Clearing
<1>4. Fits(job[c], pc[c])
  BY <1>1, <1>3, InFlightParts
<1>5. job[c].req.op \in {"create", "put", "delete"}
  BY <1>2, <1>4, LabelKinds
<1>6. job[c].target \in Names /\ job[c] \in Job /\ job[c].docs \in DocMap
  BY <1>1, <1>3, <1>5, InFlightParts
<1>7. job[c].req.op \in {"create", "put"} => job[c].schema \in Schemas
  BY <1>4 DEF Fits
<1>8. Knows(c)
  BY <1>3 DEF OrderlyInv
<1>9. QED
  BY <1>1, <1>3, <1>5, <1>6, <1>7, <1>8 DEF StoresOK, Exclusive

\* Where the thread is after an answer or a move, and with which job.
LEMMA ThreadIsAt ==
    ASSUME ThreadsOK, NEW c \in Clients
    PROVE  /\ \A x : Return(c, x) => pc'[c] = "idle"
           /\ \A l : Goto(c, l) => pc'[c] = l
           /\ UNCHANGED job => job'[c] = job[c]
           /\ \A x : job[c] \in Job /\ RollBack(c, x) =>
                pc'[c] = "rollback_storage" /\ job'[c].target = job[c].target
<1>1. \A x : Return(c, x) => pc'[c] = "idle"
  BY DEF Return, Answer, ThreadsOK
<1>2. \A l : Goto(c, l) => pc'[c] = l
  BY DEF Goto, ThreadsOK
<1>3. ASSUME NEW x, job[c] \in Job, RollBack(c, x)
      PROVE  pc'[c] = "rollback_storage" /\ job'[c].target = job[c].target
  BY <1>2, <1>3 DEF RollBack, ThreadsOK, Job
<1>4. QED
  BY <1>1, <1>2, <1>3

\* create_index, and the two steps it shares with create_or_update_index.
LEMMA CreateSteps ==
    ASSUME OrderlyInv, Steady', NEW c \in Clients, OthersStay(c),
           CreateStorage(c) \/ CreateEngine(c) \/ CreateVectors(c)
    PROVE  OrderlyInv'
<1> DEFINE t == job[c].target
           s == job[c].schema
<1>1. pc[c] \in {"create_storage", "create_engine", "create_vectors"}
  BY DEF CreateStorage, CreateEngine, CreateVectors, At
<1>2. pc[c] \in {"create_storage", "replace_storage", "delete_storage"} \cup Rebuilding
  BY <1>1 DEF Rebuilding, Updating
<1>3. /\ pc[c] # "idle" /\ pc[c] \notin Clearing /\ job[c].req.op \in Exclusive
      /\ t \in Names /\ job[c] \in Job
      /\ storage \in Storage /\ engine \in Engine /\ vectors \in Vectors /\ ThreadsOK /\ Knows(c)
  BY <1>2, RebuilderParts
<1>4. Fits(job[c], pc[c])
  BY <1>3, InFlightParts
<1>5. job[c].req.op \in {"create", "put"} /\ s \in Schemas
  <2>1. job[c].req.op \in {"create", "put"}
    BY <1>1, <1>4, LabelKinds
  <2>2. QED
    BY <1>2, <2>1, RebuilderParts
<1>6. CASE CreateStorage(c)
  <2>1. /\ pc[c] = "create_storage" /\ alias[t] = NoAlias /\ job[c].docs = NoDocs
        /\ job[c].req.op = "create" /\ Whole(t)
    <3>1. pc[c] = "create_storage"
      BY <1>6 DEF CreateStorage, At
    <3>2. alias[t] = NoAlias
      BY <1>3, <3>1 DEF Knows, LifecycleKnows
    <3>3. job[c].req.op = "create"
      BY <1>4, <3>1, LabelKinds
    <3>4. job[c].docs = NoDocs
      BY <1>4, <3>3 DEF Fits
    <3>5. ~Holds(c, t)
      BY <3>1 DEF Holds, Rebuilding, Updating, Rollback, Clearing
    <3>6. QED
      BY <1>3, <3>1, <3>2, <3>3, <3>4, <3>5, ElsewhereWhole
  <2>2. CASE Return(c, 409) /\ UNCHANGED stores
    <3>1. /\ pc'[c] = "idle" /\ alias'[t] = NoAlias
          /\ Agreed(storage'[t], engine'[t], vectors'[t])
      BY <1>3, <2>1, <2>2, ThreadIsAt DEF Whole, Agreed, stores
    <3>2. QED
      BY <1>3, <2>2, <3>1, RebuildKeeps DEF stores
  <2>3. CASE /\ storage[t] = NoIndex /\ storage' = StorageInsert(storage, t, s)
             /\ Goto(c, "create_engine") /\ UNCHANGED <<engine, vectors, alias, job>>
    <3>1. engine[t] = NoIndex /\ vectors[t] = NoIndex
      BY <2>1, <2>3 DEF Whole, Agreed, SameIndex
    <3>2. EmptyEntry(storage'[t], s) /\ \A m \in Names : m # t => storage'[m] = storage[m]
      BY <1>3, <1>5, <2>3, StorageEffects DEF EmptyEntry
    <3>3. IndexableDocs(s, job[c].docs)
      BY <2>1 DEF IndexableDocs, NoDocs
    <3>4. pc'[c] = "create_engine" /\ job'[c] = job[c]
      BY <1>3, <2>3, ThreadIsAt
    <3>5. Rebuilt(pc'[c], job'[c], storage'[t], engine'[t], vectors'[t], alias'[t])
      BY <2>1, <2>3, <3>1, <3>2, <3>3, <3>4 DEF Rebuilt
    <3>6. QED
      BY <1>3, <2>1, <2>3, <3>2, <3>4, <3>5, RebuildKeeps
  <2>4. QED
    BY <1>6, <2>2, <2>3 DEF CreateStorage
<1>7. CASE CreateEngine(c)
  <2>1. /\ pc[c] = "create_engine" /\ EmptyEntry(storage[t], s) /\ alias[t] = NoAlias
        /\ IndexableDocs(s, job[c].docs) /\ engine[t] = NoIndex
        /\ job[c].req.op = "create" => vectors[t] = NoIndex
    <3>1. pc[c] = "create_engine" /\ pc[c] \in Updating
      BY <1>7 DEF CreateEngine, At, Updating
    <3>2. QED
      BY <1>3, <3>1 DEF Knows, LifecycleKnows
  <2> DEFINE l == IF job[c].req.op = "create" THEN "create_vectors" ELSE "drop_vectors"
  <2>2. /\ engine' = EngineCreateIndex(engine, t) /\ Goto(c, l)
        /\ UNCHANGED <<storage, vectors, alias, job>>
    BY <1>7, <2>1 DEF CreateEngine
  <2>3. engine'[t] = NoDocs /\ engine'[t] # NoIndex /\ \A m \in Names : m # t => engine'[m] = engine[m]
    BY <1>3, <2>2, EngineEffects
  <2>4. EngineHolds(engine'[t], NoDocs)
    BY <2>3 DEF EngineHolds, TextOf, NoDocs
  <2>5. pc'[c] = l /\ job'[c] = job[c]
    BY <1>3, <2>2, ThreadIsAt
  <2>6. Rebuilt(pc'[c], job'[c], storage'[t], engine'[t], vectors'[t], alias'[t])
    BY <2>1, <2>2, <2>4, <2>5 DEF Rebuilt
  <2>7. QED
    BY <1>3, <2>1, <2>2, <2>3, <2>5, <2>6, RebuildKeeps
<1>8. CASE CreateVectors(c)
  <2>1. /\ pc[c] = "create_vectors" /\ EmptyEntry(storage[t], s) /\ alias[t] = NoAlias
        /\ IndexableDocs(s, job[c].docs) /\ EngineHolds(engine[t], NoDocs) /\ vectors[t] = NoIndex
    <3>1. pc[c] = "create_vectors" /\ pc[c] \in Updating
      BY <1>8 DEF CreateVectors, At, Updating
    <3>2. QED
      BY <1>3, <3>1 DEF Knows, LifecycleKnows
  <2>2. UNCHANGED <<storage, engine, alias>>
    BY <1>8 DEF CreateVectors
  <2>3. CASE RollBack(c, 400) /\ vectors' = vectors
    <3>1. pc'[c] = "rollback_storage" /\ job'[c].target = t
      BY <1>3, <2>3, ThreadIsAt
    <3>2. Rebuilt(pc'[c], job'[c], storage'[t], engine'[t], vectors'[t], alias'[t])
      BY <2>1, <2>2, <3>1 DEF Rebuilt, EmptyEntry
    <3>3. QED
      BY <1>3, <2>1, <2>2, <2>3, <3>1, <3>2, RebuildKeeps
  <2>4. CASE vectors' = VectorsCreateIndex(vectors, t, s)
    <3>1. /\ s.dim = 0 => vectors' = vectors
          /\ s.dim # 0 => vectors'[t] # NoIndex /\ vectors'[t].dim = s.dim /\ vectors'[t].vecs = NoDocs
          /\ \A m \in Names : m # t => vectors'[m] = vectors[m]
      BY <1>3, <1>5, <2>4, VectorEffects
    <3>2. VectorsHold(vectors'[t], s.dim, NoDocs)
      BY <2>1, <3>1 DEF VectorsHold, Dimensioned, VectorOf, NoDocs
    <3>3. CASE job[c].docs = NoDocs /\ Return(c, 201)
      <4>1. Agreed(storage'[t], engine'[t], vectors'[t])
        BY <2>1, <2>2, <3>2 DEF Whole, Agreed, SameIndex, SameKey, EmptyEntry, EngineHolds, VectorsHold, IndexableDocs, NoDocs
      <4>2. pc'[c] = "idle"
        BY <1>3, <3>3, ThreadIsAt
      <4>3. QED
        BY <1>3, <2>1, <2>2, <3>1, <4>1, <4>2, RebuildKeeps
    <3>4. CASE Goto(c, "refill_engine") /\ UNCHANGED job
      <4>1. pc'[c] = "refill_engine" /\ job'[c] = job[c]
        BY <1>3, <3>4, ThreadIsAt
      <4>2. Rebuilt(pc'[c], job'[c], storage'[t], engine'[t], vectors'[t], alias'[t])
        BY <2>1, <2>2, <3>2, <4>1 DEF Rebuilt
      <4>3. QED
        BY <1>3, <2>1, <2>2, <3>1, <4>1, <4>2, RebuildKeeps
    <3>5. s.malformed => RollBack(c, 400) /\ vectors' = vectors
      BY <1>8 DEF CreateVectors
    <3>6. QED
      BY <1>8, <2>3, <3>3, <3>4, <3>5 DEF CreateVectors
  <2>5. QED
    BY <1>8, <2>3, <2>4 DEF CreateVectors
<1>9. QED
  BY <1>6, <1>7, <1>8

\* create_or_update_index takes the old index apart.
LEMMA ReplaceSteps ==
    ASSUME OrderlyInv, Steady', NEW c \in Clients, OthersStay(c),
           ReplaceStorage(c) \/ DropEngine(c) \/ DropVectors(c)
    PROVE  OrderlyInv'
<1> DEFINE t == job[c].target
           s == job[c].schema
<1>1. pc[c] \in {"replace_storage", "drop_engine", "drop_vectors"}
  BY DEF ReplaceStorage, DropEngine, DropVectors, At
<1>2. pc[c] \in {"create_storage", "replace_storage", "delete_storage"} \cup Rebuilding
  BY <1>1 DEF Rebuilding, Updating
<1>3. /\ pc[c] # "idle" /\ pc[c] \notin Clearing /\ job[c].req.op \in Exclusive
      /\ t \in Names
      /\ storage \in Storage /\ engine \in Engine /\ vectors \in Vectors /\ ThreadsOK /\ Knows(c)
  BY <1>2, RebuilderParts
<1>4. job[c].req.op = "put" /\ s \in Schemas
  <2>1. Fits(job[c], pc[c])
    BY <1>3, InFlightParts
  <2>2. job[c].req.op = "put"
    BY <1>1, <2>1, LabelKinds
  <2>3. QED
    BY <1>2, <2>2, RebuilderParts
<1>5. alias[t] = NoAlias /\ IndexableDocs(s, job[c].docs)
  <2>1. CASE pc[c] = "replace_storage"
    BY <1>3, <2>1 DEF Knows, LifecycleKnows
  <2>2. CASE pc[c] \in {"drop_engine", "drop_vectors"}
    <3>1. pc[c] \in Updating
      BY <2>2 DEF Updating
    <3>2. QED
      BY <1>3, <3>1 DEF Knows, LifecycleKnows
  <2>3. QED
    BY <1>1, <2>1, <2>2
<1>6. CASE ReplaceStorage(c)
  <2>1. /\ storage' = StorageInsert(storage, t, s) /\ Goto(c, "drop_engine")
        /\ UNCHANGED <<engine, vectors, alias, job>>
    BY <1>6 DEF ReplaceStorage
  <2>2. EmptyEntry(storage'[t], s) /\ \A m \in Names : m # t => storage'[m] = storage[m]
    BY <1>3, <1>4, <2>1, StorageEffects DEF EmptyEntry
  <2>3. pc'[c] = "drop_engine" /\ job'[c] = job[c]
    BY <1>3, <2>1, ThreadIsAt
  <2>4. Rebuilt(pc'[c], job'[c], storage'[t], engine'[t], vectors'[t], alias'[t])
    BY <1>5, <2>1, <2>2, <2>3 DEF Rebuilt
  <2>5. QED
    BY <1>3, <1>5, <2>1, <2>2, <2>3, <2>4, RebuildKeeps
<1>7. CASE DropEngine(c)
  <2>1. pc[c] = "drop_engine" /\ EmptyEntry(storage[t], s)
    <3>1. pc[c] = "drop_engine" /\ pc[c] \in Updating
      BY <1>7 DEF DropEngine, At, Updating
    <3>2. QED
      BY <1>3, <3>1 DEF Knows, LifecycleKnows
  <2>2. /\ engine' = EngineDeleteIndex(engine, t) /\ Goto(c, "create_engine")
        /\ UNCHANGED <<storage, vectors, alias, job>>
    BY <1>7 DEF DropEngine
  <2>3. engine'[t] = NoIndex /\ \A m \in Names : m # t => engine'[m] = engine[m]
    BY <1>3, <2>2, EngineEffects
  <2>4. pc'[c] = "create_engine" /\ job'[c] = job[c]
    BY <1>3, <2>2, ThreadIsAt
  <2>5. Rebuilt(pc'[c], job'[c], storage'[t], engine'[t], vectors'[t], alias'[t])
    BY <1>4, <1>5, <2>1, <2>2, <2>3, <2>4 DEF Rebuilt
  <2>6. QED
    BY <1>3, <1>5, <2>2, <2>3, <2>4, <2>5, RebuildKeeps
<1>8. CASE DropVectors(c)
  <2>1. pc[c] = "drop_vectors" /\ EmptyEntry(storage[t], s) /\ EngineHolds(engine[t], NoDocs)
    <3>1. pc[c] = "drop_vectors" /\ pc[c] \in Updating
      BY <1>8 DEF DropVectors, At, Updating
    <3>2. QED
      BY <1>3, <3>1 DEF Knows, LifecycleKnows
  <2>2. /\ vectors' = VectorsDeleteIndex(vectors, t) /\ Goto(c, "create_vectors")
        /\ UNCHANGED <<storage, engine, alias, job>>
    BY <1>8 DEF DropVectors
  <2>3. vectors'[t] = NoIndex /\ \A m \in Names : m # t => vectors'[m] = vectors[m]
    BY <1>3, <2>2, VectorEffects
  <2>4. pc'[c] = "create_vectors" /\ job'[c] = job[c]
    BY <1>3, <2>2, ThreadIsAt
  <2>5. Rebuilt(pc'[c], job'[c], storage'[t], engine'[t], vectors'[t], alias'[t])
    BY <1>5, <2>1, <2>2, <2>3, <2>4 DEF Rebuilt
  <2>6. QED
    BY <1>3, <1>5, <2>2, <2>3, <2>4, <2>5, RebuildKeeps
<1>9. QED
  BY <1>6, <1>7, <1>8

\* create_or_update_index puts the preserved documents back.
LEMMA RefillSteps ==
    ASSUME OrderlyInv, Steady', NEW c \in Clients, OthersStay(c),
           RefillEngine(c) \/ RefillTrim(c) \/ RefillVectors(c) \/ RefillStorage(c)
    PROVE  OrderlyInv'
<1> DEFINE t == job[c].target
           s == job[c].schema
           docs == job[c].docs
<1>1. pc[c] \in {"refill_engine", "refill_trim", "refill_vectors", "refill_storage"}
  BY DEF RefillEngine, RefillTrim, RefillVectors, RefillStorage, At
<1>2. pc[c] \in Updating /\ pc[c] \in Rebuilding
  BY <1>1 DEF Rebuilding, Updating
<1>3. /\ pc[c] # "idle" /\ pc[c] \notin Clearing /\ job[c].req.op \in Exclusive
      /\ t \in Names /\ docs \in DocMap
      /\ storage \in Storage /\ engine \in Engine /\ vectors \in Vectors /\ ThreadsOK /\ Knows(c)
  BY <1>2, RebuilderParts
<1>4. EmptyEntry(storage[t], s) /\ alias[t] = NoAlias /\ IndexableDocs(s, docs)
  BY <1>2, <1>3 DEF Knows, LifecycleKnows
<1>5. CASE RefillEngine(c)
  <2>1. EngineHolds(engine[t], NoDocs) /\ VectorsHold(vectors[t], s.dim, NoDocs)
    BY <1>3, <1>5 DEF RefillEngine, At, Knows, LifecycleKnows
  <2> DEFINE l == IF s.dim = 0 THEN "refill_storage" ELSE "refill_trim"
  <2>2. /\ engine' = EngineIndexDocuments(engine, t, docs) /\ Goto(c, l)
        /\ UNCHANGED <<storage, vectors, alias, job>>
    BY <1>5, <2>1 DEF RefillEngine, EngineHolds
  <2>3. /\ engine'[t] # NoIndex /\ \A m \in Names : m # t => engine'[m] = engine[m]
        /\ \A k \in Keys : engine'[t][k] = IF docs[k] # NoDoc THEN TextOf(docs[k]) ELSE engine[t][k]
    BY <1>3, <2>1, <2>2, EngineEffects DEF EngineHolds
  <2>4. EngineHolds(engine'[t], docs)
    BY <2>1, <2>3 DEF EngineHolds, TextOf, NoDocs
  <2>5. s.dim = 0 => VectorsHold(vectors[t], s.dim, docs)
    BY <2>1 DEF VectorsHold
  <2>6. pc'[c] = l /\ job'[c] = job[c]
    BY <1>3, <2>2, ThreadIsAt
  <2>7. Rebuilt(pc'[c], job'[c], storage'[t], engine'[t], vectors'[t], alias'[t])
    BY <1>4, <2>1, <2>2, <2>4, <2>5, <2>6 DEF Rebuilt
  <2>8. QED
    BY <1>3, <1>4, <2>2, <2>3, <2>6, <2>7, RebuildKeeps
<1>6. CASE RefillTrim(c)
  <2> DEFINE ks == {k \in Keys : docs[k] # NoDoc /\ docs[k].vec = Absent}
  <2>1. /\ s.dim # 0 /\ EngineHolds(engine[t], docs) /\ VectorsHold(vectors[t], s.dim, NoDocs)
        /\ vectors' = VectorsRemove(vectors, t, ks) /\ Goto(c, "refill_vectors")
        /\ UNCHANGED <<storage, engine, alias, job>>
    BY <1>3, <1>6 DEF RefillTrim, At, Knows, LifecycleKnows
  <2> HIDE DEF ks
  <2>2. vectors[t] # NoIndex
    BY <2>1 DEF VectorsHold, Dimensioned
  <2>3. /\ vectors'[t] # NoIndex /\ vectors'[t].dim = vectors[t].dim
        /\ \A k \in Keys : vectors'[t].vecs[k] = IF k \in ks THEN NoDoc ELSE vectors[t].vecs[k]
        /\ \A m \in Names : m # t => vectors'[m] = vectors[m]
    BY <1>3, <2>1, <2>2, VectorEffects
  <2>4. VectorsHold(vectors'[t], s.dim, NoDocs)
    BY <2>1, <2>3 DEF VectorsHold, Dimensioned, VectorOf, NoDocs
  <2>5. pc'[c] = "refill_vectors" /\ job'[c] = job[c]
    BY <1>3, <2>1, ThreadIsAt
  <2>6. Rebuilt(pc'[c], job'[c], storage'[t], engine'[t], vectors'[t], alias'[t])
    BY <1>4, <2>1, <2>4, <2>5 DEF Rebuilt
  <2>7. QED
    BY <1>3, <1>4, <2>1, <2>3, <2>5, <2>6, RebuildKeeps
<1>7. CASE RefillVectors(c)
  <2>1. /\ s.dim # 0 /\ EngineHolds(engine[t], docs) /\ VectorsHold(vectors[t], s.dim, NoDocs)
        /\ vectors' = VectorsUpsert(vectors, t, docs) /\ UNCHANGED <<storage, engine, alias>>
    BY <1>3, <1>7 DEF RefillVectors, At, Knows, LifecycleKnows
  <2>2. vectors[t] # NoIndex /\ vectors[t].dim = s.dim
    BY <2>1 DEF VectorsHold, Dimensioned
  <2>3. VectorsAccept(vectors, t, docs)
    BY <1>4, <2>2 DEF VectorsAccept, IndexableDocs, Indexable
  <2>4. Goto(c, "refill_storage") /\ UNCHANGED job
    BY <1>7, <2>3 DEF RefillVectors
  <2>5. /\ vectors'[t] # NoIndex /\ vectors'[t].dim = s.dim
        /\ \A k \in Keys : vectors'[t].vecs[k] =
             IF docs[k] # NoDoc /\ HasVector(docs[k]) THEN docs[k].vec ELSE vectors[t].vecs[k]
        /\ \A m \in Names : m # t => vectors'[m] = vectors[m]
    BY <1>3, <2>1, <2>2, <2>3, VectorEffects
  <2>6. VectorsHold(vectors'[t], s.dim, docs)
    BY <2>1, <2>5 DEF VectorsHold, Dimensioned, VectorOf, NoDocs
  <2>7. pc'[c] = "refill_storage" /\ job'[c] = job[c]
    BY <1>3, <2>4, ThreadIsAt
  <2>8. Rebuilt(pc'[c], job'[c], storage'[t], engine'[t], vectors'[t], alias'[t])
    BY <1>4, <2>1, <2>6, <2>7 DEF Rebuilt
  <2>9. QED
    BY <1>3, <1>4, <2>1, <2>5, <2>7, <2>8, RebuildKeeps
<1>8. CASE RefillStorage(c)
  <2>1. EngineHolds(engine[t], docs) /\ VectorsHold(vectors[t], s.dim, docs)
    BY <1>3, <1>8 DEF RefillStorage, At, Knows, LifecycleKnows
  <2>2. /\ storage' = StoragePutDocuments(storage, t, docs) /\ Return(c, 201)
        /\ UNCHANGED <<engine, vectors, alias>>
    BY <1>4, <1>8 DEF RefillStorage, EmptyEntry
  <2>3. /\ storage'[t] # NoIndex /\ storage'[t].schema = s
        /\ \A k \in Keys : storage'[t].docs[k] =
             IF docs[k] # NoDoc THEN docs[k] ELSE storage[t].docs[k]
        /\ \A m \in Names : m # t => storage'[m] = storage[m]
    BY <1>3, <1>4, <2>2, StorageEffects DEF EmptyEntry
  <2>4. \A k \in Keys : storage'[t].docs[k] = docs[k]
    BY <1>4, <2>3 DEF EmptyEntry, NoDocs
  <2>5. Agreed(storage'[t], engine'[t], vectors'[t])
    BY <1>4, <2>1, <2>2, <2>3, <2>4 DEF Agreed, SameIndex, SameKey, EngineHolds, VectorsHold, IndexableDocs
  <2>6. pc'[c] = "idle"
    BY <1>3, <2>2, ThreadIsAt
  <2>7. QED
    BY <1>3, <1>4, <2>2, <2>3, <2>5, <2>6, RebuildKeeps
<1>9. QED
  BY <1>5, <1>6, <1>7, <1>8

\* rollback_index and delete_index.
LEMMA RemovalSteps ==
    ASSUME OrderlyInv, Steady', NEW c \in Clients, OthersStay(c),
           \/ RollbackStorage(c) \/ RollbackEngine(c) \/ RollbackVectors(c)
           \/ DeleteStorage(c) \/ DeleteEngine(c) \/ DeleteVectors(c)
    PROVE  OrderlyInv'
<1> DEFINE t == job[c].target
<1>1. pc[c] \in {"rollback_storage", "rollback_engine", "rollback_vectors",
                 "delete_storage", "delete_engine", "delete_vectors"}
  BY DEF RollbackStorage, RollbackEngine, RollbackVectors, DeleteStorage, DeleteEngine,
         DeleteVectors, At
<1>2. pc[c] \in {"create_storage", "replace_storage", "delete_storage"} \cup Rebuilding
  BY <1>1 DEF Rebuilding, Rollback
<1>3. /\ pc[c] # "idle" /\ pc[c] \notin Clearing /\ job[c].req.op \in Exclusive
      /\ t \in Names
      /\ storage \in Storage /\ engine \in Engine /\ vectors \in Vectors /\ ThreadsOK /\ Knows(c)
  BY <1>2, RebuilderParts
<1>4. ASSUME storage' = StorageDeleteIndex(storage, t), UNCHANGED <<engine, vectors, alias, job>>,
             Goto(c, "rollback_engine") \/ Goto(c, "delete_engine")
      PROVE  OrderlyInv'
  <2>1. storage'[t] = NoIndex /\ \A m \in Names : m # t => storage'[m] = storage[m]
    BY <1>3, <1>4, StorageEffects
  <2>2. pc'[c] \in {"rollback_engine", "delete_engine"} /\ job'[c] = job[c]
    BY <1>3, <1>4, ThreadIsAt
  <2>3. Rebuilt(pc'[c], job'[c], storage'[t], engine'[t], vectors'[t], alias'[t])
    BY <2>1, <2>2 DEF Rebuilt
  <2>4. QED
    BY <1>3, <1>4, <2>1, <2>2, <2>3, RebuildKeeps
<1>5. CASE RollbackStorage(c)
  BY <1>4, <1>5 DEF RollbackStorage
<1>6. CASE DeleteStorage(c)
  <2>1. CASE storage[t] = NoIndex /\ Return(c, 404) /\ UNCHANGED stores
    <3>1. ~Holds(c, t)
      BY <1>3, <1>6 DEF DeleteStorage, At, Holds, Rebuilding, Updating, Rollback
    <3>2. Agreed(storage'[t], engine'[t], vectors'[t])
      BY <1>3, <2>1, <3>1, ElsewhereWhole DEF Whole, stores
    <3>3. pc'[c] = "idle"
      BY <1>3, <2>1, ThreadIsAt
    <3>4. QED
      BY <1>3, <2>1, <3>2, <3>3, RebuildKeeps DEF stores
  <2>2. QED
    BY <1>4, <1>6, <2>1 DEF DeleteStorage
<1>7. CASE RollbackEngine(c) \/ DeleteEngine(c)
  <2>1. /\ storage[t] = NoIndex /\ engine' = EngineDeleteIndex(engine, t)
        /\ Goto(c, "rollback_vectors") \/ Goto(c, "delete_vectors")
        /\ UNCHANGED <<storage, vectors, alias, job>>
    BY <1>3, <1>7 DEF RollbackEngine, DeleteEngine, At, Knows, RemovalKnows
  <2>2. engine'[t] = NoIndex /\ \A m \in Names : m # t => engine'[m] = engine[m]
    BY <1>3, <2>1, EngineEffects
  <2>3. pc'[c] \in {"rollback_vectors", "delete_vectors"} /\ job'[c] = job[c]
    BY <1>3, <2>1, ThreadIsAt
  <2>4. Rebuilt(pc'[c], job'[c], storage'[t], engine'[t], vectors'[t], alias'[t])
    BY <2>1, <2>2, <2>3 DEF Rebuilt
  <2>5. QED
    BY <1>3, <2>1, <2>2, <2>3, <2>4, RebuildKeeps
<1>8. CASE RollbackVectors(c) \/ DeleteVectors(c)
  <2>1. /\ storage[t] = NoIndex /\ engine[t] = NoIndex
        /\ vectors' = VectorsDeleteIndex(vectors, t)
        /\ UNCHANGED <<storage, engine, alias>>
    BY <1>3, <1>8 DEF RollbackVectors, DeleteVectors, At, Knows, RemovalKnows
  <2>2. vectors'[t] = NoIndex /\ \A m \in Names : m # t => vectors'[m] = vectors[m]
    BY <1>3, <2>1, VectorEffects
  <2>3. Agreed(storage'[t], engine'[t], vectors'[t])
    BY <2>1, <2>2 DEF Agreed, SameIndex, SameKey
  <2>4. pc'[c] = "idle"
    BY <1>3, <1>8, ThreadIsAt DEF RollbackVectors, DeleteVectors
  <2>5. QED
    BY <1>3, <2>1, <2>2, <2>3, <2>4, RebuildKeeps
<1>9. QED
  BY <1>5, <1>6, <1>7, <1>8

\* reset clears one store after the other.
LEMMA ResetSteps ==
    ASSUME OrderlyInv, Steady', NEW c \in Clients, OthersStay(c),
           ResetStorage(c) \/ ResetEngine(c) \/ ResetVectors(c) \/ ResetAliases(c)
    PROVE  OrderlyInv'
<1>1. ThreadsOK
  BY DEF OrderlyInv, Steady, Inv
<1>2. pc[c] \in {"reset_storage", "reset_engine", "reset_vectors", "reset_alias"}
  BY DEF ResetStorage, ResetEngine, ResetVectors, ResetAliases, At
<1>3. pc[c] # "idle" /\ job[c].req.op \in Exclusive
  <2>1. Fits(job[c], pc[c])
    BY <1>1, <1>2, InFlightParts
  <2>2. QED
    BY <1>2, <2>1, LabelKinds DEF Exclusive
<1>4. Knows(c)
  BY <1>3 DEF OrderlyInv
<1>5. ASSUME NEW l \in Clearing, Goto(c, l), \A n \in Names : storage'[n] = NoIndex,
             l \in {"reset_vectors", "reset_alias"} => \A n \in Names : engine'[n] = NoIndex,
             l = "reset_alias" => \A n \in Names : vectors'[n] = NoIndex
      PROVE  OrderlyInv'
  <2>1. pc'[c] = l
    BY <1>1, <1>5, ThreadIsAt
  <2>2. l \in {"reset_engine", "reset_vectors", "reset_alias"}
    BY DEF Clearing
  <2>3. /\ l \notin {"create_storage", "read_old", "read_preserved", "replace_storage",
                     "store_alias", "apply_action", "rollback_storage", "rollback_engine", "rollback_vectors",
                     "delete_engine", "delete_vectors"}
        /\ l \notin Updating /\ l \notin WriteLabels
    BY <2>2 DEF Updating, WriteLabels
  <2>4. \A i \in 1..7 : Phases[i] \in WriteLabels
    BY DEF Phases, WriteLabels
  <2>5. \A j, st, en, ve, al : /\ LifecycleKnows(l, j, st, en, ve, al)
                               /\ RemovalKnows(l, st, en)
                               /\ BatchKnows(l, j, st, en, ve)
    BY <2>3, <2>4 DEF LifecycleKnows, RemovalKnows, BatchKnows, Updating
  <2>6. ResetKnows(pc[c])'
    BY <1>5, <2>1 DEF ResetKnows
  <2>7. Knows(c)'
    BY <2>1, <2>5, <2>6 DEF Knows
  <2>8. NamespaceDisjoint'
    BY <1>5 DEF NamespaceDisjoint
  <2>9. \A n \in Names : Holds(c, n)'
    BY <2>1 DEF Holds
  <2>10. QED
    BY <1>3, <2>1, <2>3, <2>7, <2>8, <2>9, ExclusiveKeeps
<1>6. CASE ResetStorage(c)
  <2>1. Goto(c, "reset_engine") /\ \A n \in Names : storage'[n] = NoIndex
    BY <1>6 DEF ResetStorage
  <2>2. QED
    BY <1>5, <2>1 DEF Clearing
<1>7. CASE ResetEngine(c)
  <2>1. /\ pc[c] \in Clearing /\ Goto(c, "reset_vectors") /\ storage' = storage
        /\ \A n \in Names : engine'[n] = NoIndex
    BY <1>7 DEF ResetEngine, At, Clearing
  <2>2. \A n \in Names : storage'[n] = NoIndex
    BY <1>4, <2>1 DEF Knows, ResetKnows
  <2>3. QED
    BY <1>5, <2>1, <2>2 DEF Clearing
<1>8. CASE ResetVectors(c)
  <2>1. /\ pc[c] = "reset_vectors" /\ Goto(c, "reset_alias")
        /\ storage' = storage /\ engine' = engine /\ \A n \in Names : vectors'[n] = NoIndex
    BY <1>8 DEF ResetVectors, At
  <2>2. \A n \in Names : storage'[n] = NoIndex /\ engine'[n] = NoIndex
    BY <1>4, <2>1 DEF Knows, ResetKnows, Clearing
  <2>3. QED
    BY <1>5, <2>1, <2>2 DEF Clearing
<1>9. CASE ResetAliases(c)
  <2>1. /\ pc[c] = "reset_alias" /\ Return(c, 200)
        /\ UNCHANGED <<storage, engine, vectors>>
    BY <1>9 DEF ResetAliases, At
  <2>2. \A n \in Names : storage[n] = NoIndex /\ engine[n] = NoIndex /\ vectors[n] = NoIndex
    BY <1>4, <2>1 DEF Knows, ResetKnows, Clearing
  <2>3. \A n \in Names : Whole(n)'
    BY <2>1, <2>2 DEF Whole, Agreed, SameIndex, SameKey
  <2>4. pc'[c] = "idle"
    BY <1>1, <2>1, ThreadIsAt
  <2>5. NamespaceDisjoint'
    BY <2>1, <2>2 DEF NamespaceDisjoint
  <2>6. QED
    BY <1>3, <2>3, <2>4, <2>5, ExclusiveKeeps
<1>10. QED
  BY <1>6, <1>7, <1>8, <1>9

\* The alias handlers write.
LEMMA AliasSteps ==
    ASSUME OrderlyInv, Steady', NEW c \in Clients, OthersStay(c),
           StoreAlias(c) \/ DeleteAlias(c)
    PROVE  OrderlyInv'
<1> DEFINE t == job[c].target
<1>1. ThreadsOK /\ StoresOK /\ NamespaceDisjoint
  BY DEF OrderlyInv, Steady, Inv
<1>2. pc[c] \in {"store_alias", "delete_alias"} /\ UNCHANGED <<storage, engine, vectors>>
  BY DEF StoreAlias, DeleteAlias, At
<1>3. /\ pc[c] # "idle" /\ job[c].req.op \in Exclusive /\ pc[c] \notin Clearing
      /\ t \in Names /\ Knows(c)
  <2>1. Fits(job[c], pc[c])
    BY <1>1, <1>2, InFlightParts
  <2>2. job[c].req.op \in {"createAlias", "putAlias", "deleteAlias"}
    BY <1>2, <2>1, LabelKinds
  <2>3. t \in Names
    BY <1>1, <1>2, <2>2, InFlightParts
  <2>4. QED
    BY <1>2, <2>2, <2>3 DEF Exclusive, Clearing, OrderlyInv
<1>4. Whole(t)
  <2>1. ~Holds(c, t)
    BY <1>2 DEF Holds, Rebuilding, Updating, Rollback, Clearing
  <2>2. QED
    BY <1>3, <2>1, ElsewhereWhole
<1>5. ASSUME NEW x, Return(c, x), \A m \in Names : m # t => alias'[m] = alias[m],
             storage[t] = NoIndex \/ alias'[t] = NoAlias
      PROVE  OrderlyInv'
  <2>1. pc'[c] = "idle"
    BY <1>1, <1>5, ThreadIsAt
  <2>2. Agreed(storage'[t], engine'[t], vectors'[t])
    BY <1>2, <1>4 DEF Whole
  <2>3. QED
    BY <1>2, <1>3, <1>5, <2>1, <2>2, RebuildKeeps
<1>6. CASE StoreAlias(c)
  <2>1. storage[t] = NoIndex
    BY <1>3, <1>6 DEF StoreAlias, At, Knows, RemovalKnows
  <2>2. \A m \in Names : m # t => alias'[m] = alias[m]
    BY <1>1, <1>6 DEF StoreAlias, StoresOK, Aliases
  <2>3. QED
    BY <1>5, <1>6, <2>1, <2>2 DEF StoreAlias
<1>7. CASE DeleteAlias(c)
  <2>1. \A m \in Names : m # t => alias'[m] = alias[m]
    BY <1>1, <1>7 DEF DeleteAlias, StoresOK, Aliases
  <2>2. alias'[t] = NoAlias
    BY <1>1, <1>3, <1>7 DEF DeleteAlias, StoresOK, Aliases
  <2>3. QED
    BY <1>5, <1>7, <2>1, <2>2 DEF DeleteAlias
<1>8. QED
  BY <1>6, <1>7

-----------------------------------------------------------------------------
(* The steps of a batch *)

\* After the i-th phase wrote to its index, under its keys only.
LEMMA WriteKeeps ==
    ASSUME OrderlyInv, Steady', NEW c \in Clients, OthersStay(c),
           pc[c] \in WriteLabels \cup {"apply_action"}, alias' = alias,
           NEW t \in Names, t = job[c].target,
           \A m \in Names : m # t => /\ storage'[m] = storage[m] /\ engine'[m] = engine[m]
                                     /\ vectors'[m] = vectors[m],
           storage'[t] # NoIndex, storage'[t].schema = job[c].schema, engine'[t] # NoIndex,
           Dimensioned(vectors'[t], job[c].schema.dim), IndexableDocs(job[c].schema, storage'[t].docs),
           \A k \in Keys : k \notin Touches(job[c].req) => Untouched(t, k),
           NEW i \in 0..7, Proceed(c, i),
           \A k \in Touches(job[c].req) :
             Progress(i + 1, job[c].batch, storage'[t], engine'[t], vectors'[t], k)
    PROVE  OrderlyInv'
<1>1. /\ ThreadsOK /\ pc[c] # "idle" /\ Touches(job[c].req) \in SUBSET Keys
      /\ storage[t] # NoIndex /\ storage[t].schema = job[c].schema
      /\ WritableBatch(job[c].req, job[c].schema, job[c].batch)
  BY WriterParts
<1>2. ASSUME NEW n \in Names
      PROVE  /\ storage'[n] = NoIndex <=> storage[n] = NoIndex
             /\ storage[n] # NoIndex => storage'[n].schema = storage[n].schema
             /\ SameIndex(storage[n], engine[n], vectors[n])
                  => SameIndex(storage'[n], engine'[n], vectors'[n])
  <2>1. CASE n = t
    BY <1>1, <2>1 DEF SameIndex
  <2>2. CASE n # t
    BY <2>2
  <2>3. QED
    BY <2>1, <2>2
<1>3. \A n \in Names, k \in Keys : n # t \/ k \notin Touches(job[c].req) => Untouched(n, k)
  BY DEF Untouched
<1>4. \/ /\ pc'[c] = "idle"
         /\ \A k \in Touches(job[c].req) : SameKey(storage'[t], engine'[t], vectors'[t], k)
      \/ /\ pc'[c] \in WriteLabels /\ job'[c] = job[c]
         /\ BatchKnows(pc'[c], job[c], storage'[t], engine'[t], vectors'[t])
  BY <1>1, ProceedKnows
<1>5. QED
  BY <1>2, <1>3, <1>4, BatchKeeps

\* Nothing has been written when a batch begins to write.
LEMMA BeginSteps ==
    ASSUME OrderlyInv, Steady', NEW c \in Clients, OthersStay(c), BeginWrites(c)
    PROVE  OrderlyInv'
<1> DEFINE t == job[c].target
           first == 0
<1>1. pc[c] = "apply_action" /\ Proceed(c, first) /\ UNCHANGED stores
  BY DEF BeginWrites, At
<1>2. /\ Orderly /\ ThreadsOK /\ Settled /\ pc[c] # "idle" /\ job[c].req.op = "index"
      /\ t \in Names /\ Touches(job[c].req) \subseteq Keys
      /\ \A d \in Clients : pc[d] \notin Rebuilding \cup Clearing
      /\ SameIndex(storage[t], engine[t], vectors[t])
      /\ storage[t] # NoIndex /\ storage[t].schema = job[c].schema
  BY <1>1, WriterParts
<1>3. ASSUME NEW k \in Touches(job[c].req)
      PROVE  Progress(first + 1, job[c].batch, storage[t], engine[t], vectors[t], k)
  <2>1. ASSUME NEW d \in Clients, Writes(d, t, k) PROVE FALSE
    <3>1. pc[d] \in WriteLabels /\ k \in Touches(job[d].req)
      BY <2>1 DEF Writes
    <3>2. d # c
      BY <1>1, <3>1 DEF WriteLabels
    <3>3. pc[d] # "idle"
      BY <3>1 DEF WriteLabels
    <3>4. job[d].req.op = "index"
      BY <1>2, <3>1, <3>3, InFlightParts, LabelKinds DEF WriteLabels
    <3>5. QED
      BY <1>2, <3>1, <3>2, <3>3, <3>4, Neighbours
  <2>2. SameKey(storage[t], engine[t], vectors[t], k)
    BY <1>2, <2>1 DEF Settled, Holds
  <2>3. QED
    BY <1>2, <2>2, ProgressEnds
<1>4. /\ engine[t] # NoIndex /\ Dimensioned(vectors[t], job[c].schema.dim)
      /\ IndexableDocs(job[c].schema, storage[t].docs)
  BY <1>2 DEF SameIndex
<1>5. storage' = storage /\ engine' = engine /\ vectors' = vectors /\ alias' = alias
  BY <1>1 DEF stores
<1>6. first \in 0..7
  OBVIOUS
<1>7. \A k \in Keys : Untouched(t, k)
  BY <1>5 DEF Untouched
<1> HIDE DEF first
<1>8. QED
  BY <1>1, <1>2, <1>3, <1>4, <1>5, <1>6, <1>7, WriteKeeps

\* The engine is written.
LEMMA EngineSteps ==
    ASSUME OrderlyInv, Steady', NEW c \in Clients, OthersStay(c),
           WriteEngineDelete(c) \/ WriteEngineIndex(c)
    PROVE  OrderlyInv'
<1> DEFINE t == job[c].target
           b == job[c].batch
<1>1. pc[c] \in WriteLabels /\ UNCHANGED <<storage, vectors, alias>>
  BY DEF WriteEngineDelete, WriteEngineIndex, At, WriteLabels
<1>2. /\ engine \in Engine /\ t \in Names /\ b \in Batch /\ Touches(job[c].req) \subseteq Keys
      /\ SameIndex(storage[t], engine[t], vectors[t])
      /\ storage[t] # NoIndex /\ storage[t].schema = job[c].schema
      /\ WritableBatch(job[c].req, job[c].schema, b) /\ Knows(c)
  BY <1>1, WriterParts
<1>3. /\ engine[t] # NoIndex /\ Dimensioned(vectors[t], job[c].schema.dim)
      /\ IndexableDocs(job[c].schema, storage[t].docs)
  BY <1>2 DEF SameIndex
<1>4. ASSUME NEW i \in 0..7, Proceed(c, i), engine'[t] # NoIndex,
             \A m \in Names : m # t => engine'[m] = engine[m],
             \A k \in Keys : k \notin Touches(job[c].req) => engine'[t][k] = engine[t][k],
             \A k \in Touches(job[c].req) :
               Progress(i + 1, b, storage[t], engine'[t], vectors[t], k)
      PROVE  OrderlyInv'
  <2>1. \A k \in Keys : k \notin Touches(job[c].req) => Untouched(t, k)
    BY <1>1, <1>4 DEF Untouched
  <2>2. QED
    BY <1>1, <1>2, <1>3, <1>4, <2>1, WriteKeeps
<1>5. CASE WriteEngineDelete(c)
  <2> DEFINE i == 1
  <2>1. /\ pc[c] = Phases[i] /\ i \in 1..7 /\ Proceed(c, i)
        /\ engine' = EngineDeleteDocuments(engine, t, b.deletes)
    BY <1>3, <1>5 DEF WriteEngineDelete, At, Phases
  <2>2. /\ engine'[t] # NoIndex /\ \A m \in Names : m # t => engine'[m] = engine[m]
        /\ \A k \in Keys : engine'[t][k] = IF k \in b.deletes THEN NoDoc ELSE engine[t][k]
    BY <1>2, <1>3, <2>1, EngineEffects
  <2>3. ASSUME NEW k \in Touches(job[c].req)
        PROVE  Progress(i + 1, b, storage[t], engine'[t], vectors[t], k)
    <3>1. Progress(i, b, storage[t], engine[t], vectors[t], k)
      BY <1>2, <2>1 DEF Knows, BatchKnows
    <3>2. QED
      BY <1>2, <2>2, <3>1 DEF Progress, EngineAt, VectorAt
  <2> HIDE DEF i
  <2>4. i \in 0..7
    BY <2>1
  <2>5. QED
    BY <1>2, <1>4, <2>1, <2>2, <2>3, <2>4 DEF WritableBatch
<1>6. CASE WriteEngineIndex(c)
  <2> DEFINE i == 2
  <2>1. /\ pc[c] = Phases[i] /\ i \in 1..7 /\ Proceed(c, i)
        /\ engine' = EngineIndexDocuments(engine, t, b.upserts)
    BY <1>3, <1>6 DEF WriteEngineIndex, At, Phases
  <2>2. b.upserts \in DocMap
    BY <1>2 DEF Batch
  <2>3. /\ engine'[t] # NoIndex /\ \A m \in Names : m # t => engine'[m] = engine[m]
        /\ \A k \in Keys : engine'[t][k] =
             IF b.upserts[k] # NoDoc THEN TextOf(b.upserts[k]) ELSE engine[t][k]
    BY <1>2, <1>3, <2>1, <2>2, EngineEffects
  <2>4. ASSUME NEW k \in Touches(job[c].req)
        PROVE  Progress(i + 1, b, storage[t], engine'[t], vectors[t], k)
    <3>1. Progress(i, b, storage[t], engine[t], vectors[t], k)
      BY <1>2, <2>1 DEF Knows, BatchKnows
    <3>2. k \notin NullKeys => engine'[t][k] = TextOf(Final(b, k, storage[t].docs[k]))
      BY <1>2, <2>3, <3>1 DEF Progress, EngineAt, Final, TextOf
    <3>3. QED
      BY <3>1, <3>2 DEF Progress, EngineAt, VectorAt
  <2> HIDE DEF i
  <2>5. i \in 0..7
    BY <2>1
  <2>6. QED
    BY <1>2, <1>4, <2>1, <2>3, <2>4, <2>5 DEF WritableBatch
<1>7. QED
  BY <1>5, <1>6

\* The vector store is written.
LEMMA VectorSteps ==
    ASSUME OrderlyInv, Steady', NEW c \in Clients, OthersStay(c),
           WriteVectorsDelete(c) \/ WriteVectorsTrim(c) \/ WriteVectorsUpsert(c)
    PROVE  OrderlyInv'
<1> DEFINE t == job[c].target
           b == job[c].batch
           dim == job[c].schema.dim
<1>1. pc[c] \in WriteLabels /\ UNCHANGED <<storage, engine, alias>>
  BY DEF WriteVectorsDelete, WriteVectorsTrim, WriteVectorsUpsert, At, WriteLabels
<1>2. /\ vectors \in Vectors /\ t \in Names /\ b \in Batch /\ Touches(job[c].req) \subseteq Keys
      /\ SameIndex(storage[t], engine[t], vectors[t])
      /\ storage[t] # NoIndex /\ storage[t].schema = job[c].schema
      /\ WritableBatch(job[c].req, job[c].schema, b) /\ Knows(c)
  BY <1>1, WriterParts
<1>3. engine[t] # NoIndex /\ Dimensioned(vectors[t], dim) /\ IndexableDocs(job[c].schema, storage[t].docs)
  BY <1>2 DEF SameIndex
<1>4. ASSUME NEW i \in 0..7, Proceed(c, i), vectors[t] = NoIndex => vectors'[t] = NoIndex,
             vectors[t] # NoIndex => vectors'[t] # NoIndex /\ vectors'[t].dim = vectors[t].dim,
             \A m \in Names : m # t => vectors'[m] = vectors[m],
             \A k \in Keys : vectors[t] # NoIndex /\ k \notin Touches(job[c].req)
               => vectors'[t].vecs[k] = vectors[t].vecs[k],
             \A k \in Touches(job[c].req) :
               Progress(i + 1, b, storage[t], engine[t], vectors'[t], k)
      PROVE  OrderlyInv'
  <2>1. \A k \in Keys : k \notin Touches(job[c].req) => Untouched(t, k)
    BY <1>1, <1>4 DEF Untouched
  <2>2. Dimensioned(vectors'[t], dim)
    BY <1>3, <1>4 DEF Dimensioned
  <2>3. QED
    BY <1>1, <1>2, <1>3, <1>4, <2>1, <2>2, WriteKeeps
<1>5. ASSUME NEW ks
      PROVE  LET ve2 == VectorsRemove(vectors, t, ks)
             IN  /\ vectors[t] = NoIndex => ve2[t] = NoIndex
                 /\ vectors[t] # NoIndex =>
                      /\ ve2[t] # NoIndex /\ ve2[t].dim = vectors[t].dim
                      /\ \A k \in Keys : ve2[t].vecs[k] =
                           IF k \in ks THEN NoDoc ELSE vectors[t].vecs[k]
                 /\ \A m \in Names : m # t => ve2[m] = vectors[m]
  BY <1>2, VectorEffects
<1>6. dim # 0 => vectors[t] # NoIndex
  BY <1>3 DEF Dimensioned
<1>7. CASE WriteVectorsDelete(c)
  <2> DEFINE i == 3
  <2>1. /\ pc[c] = Phases[i] /\ i \in 1..7 /\ Proceed(c, i)
        /\ vectors' = VectorsRemove(vectors, t, b.deletes)
    BY <1>7 DEF WriteVectorsDelete, At, Phases
  <2>2. ASSUME NEW k \in Touches(job[c].req)
        PROVE  Progress(i + 1, b, storage[t], engine[t], vectors'[t], k)
    <3>1. Progress(i, b, storage[t], engine[t], vectors[t], k)
      BY <1>2, <2>1 DEF Knows, BatchKnows
    <3>2. dim # 0 => vectors'[t].vecs[k] = IF k \in b.deletes THEN NoDoc ELSE vectors[t].vecs[k]
      BY <1>2, <1>5, <1>6, <2>1
    <3>3. QED
      BY <1>2, <3>1, <3>2 DEF Progress, EngineAt, VectorAt
  <2> HIDE DEF i
  <2>3. i \in 0..7
    BY <2>1
  <2>4. \A k \in Keys : k \in b.deletes => k \in Touches(job[c].req)
    BY <1>2 DEF WritableBatch
  <2>5. /\ vectors[t] = NoIndex => vectors'[t] = NoIndex
        /\ vectors[t] # NoIndex =>
             /\ vectors'[t] # NoIndex /\ vectors'[t].dim = vectors[t].dim
             /\ \A k \in Keys : vectors'[t].vecs[k] =
                  IF k \in b.deletes THEN NoDoc ELSE vectors[t].vecs[k]
        /\ \A m \in Names : m # t => vectors'[m] = vectors[m]
    BY <1>5, <2>1
  <2>6. QED
    BY <1>4, <2>1, <2>2, <2>3, <2>4, <2>5
<1>8. CASE WriteVectorsTrim(c)
  <2> DEFINE i == 4
             none == NullVectors(b)
  <2>0. CASE none # {}
    <3>1. \E x \in Keys : b.upserts[x] # NoDoc /\ b.upserts[x].vec = Null
      BY <2>0 DEF NullVectors, Upserted
    <3>2. NullRequest(job[c].req)
      BY <1>2, <3>1 DEF WritableBatch, Admitted
    <3>3. Touches(job[c].req) \subseteq NullKeys
      BY <1>1, <3>2, WriterParts, NullRequestKeys
    <3>4. Return(c, 500) /\ UNCHANGED vectors
      BY <1>8, <2>0 DEF WriteVectorsTrim
    <3>5. pc'[c] = "idle"
      BY <1>1, <3>4, WriterParts, ThreadIsAt
    <3>6. storage' = storage /\ engine' = engine /\ vectors' = vectors /\ alias' = alias
      BY <1>1, <3>4
    <3>7. \A x \in Touches(job[c].req) : SameKey(storage'[t], engine'[t], vectors'[t], x)
      BY <3>3 DEF SameKey
    <3>8. \A n \in Names, x \in Keys : Untouched(n, x)
      BY <3>6 DEF Untouched
    <3>9. QED
      BY <1>1, <3>5, <3>6, <3>7, <3>8, BatchKeeps
  <2> SUFFICES ASSUME none = {}
               PROVE  OrderlyInv'
    BY <2>0
  <2>1. /\ pc[c] = Phases[i] /\ i \in 1..7 /\ Proceed(c, i)
        /\ vectors' = VectorsRemove(vectors, t, VectorRemovals(b))
    BY <1>8 DEF WriteVectorsTrim, At, Phases
  <2>2. ASSUME NEW k \in Touches(job[c].req)
        PROVE  Progress(i + 1, b, storage[t], engine[t], vectors'[t], k)
    <3>1. Progress(i, b, storage[t], engine[t], vectors[t], k)
      BY <1>2, <2>1 DEF Knows, BatchKnows
    <3>2. dim # 0 => vectors'[t].vecs[k] =
                       IF k \in VectorRemovals(b) THEN NoDoc ELSE vectors[t].vecs[k]
      BY <1>2, <1>5, <1>6, <2>1
    <3>3. b.upserts[k] # NoDoc => b.upserts[k].vec # Null
      BY <1>2 DEF NullVectors, Upserted
    <3>4. QED
      BY <1>2, <3>1, <3>2, <3>3 DEF Progress, EngineAt, VectorAt
  <2> HIDE DEF i
  <2>3. i \in 0..7
    BY <2>1
  <2>4. \A k \in VectorRemovals(b) : k \in Touches(job[c].req)
    BY <1>2 DEF VectorRemovals, Upserted, WritableBatch
  <2>5. /\ vectors[t] = NoIndex => vectors'[t] = NoIndex
        /\ vectors[t] # NoIndex =>
             /\ vectors'[t] # NoIndex /\ vectors'[t].dim = vectors[t].dim
             /\ \A k \in Keys : vectors'[t].vecs[k] =
                  IF k \in VectorRemovals(b) THEN NoDoc ELSE vectors[t].vecs[k]
        /\ \A m \in Names : m # t => vectors'[m] = vectors[m]
    BY <1>5, <2>1
  <2>6. QED
    BY <1>4, <2>1, <2>2, <2>3, <2>4, <2>5
<1>9. CASE WriteVectorsUpsert(c)
  <2> DEFINE i == 5
  <2>1. /\ pc[c] = Phases[i] /\ i \in 1..7
        /\ vectors' = VectorsUpsert(vectors, t, b.upserts)
    BY <1>9 DEF WriteVectorsUpsert, At, Phases
  <2>2. b.upserts \in DocMap
    BY <1>2 DEF Batch
  <2>3. VectorsAccept(vectors, t, b.upserts)
    BY <1>2, <1>3 DEF VectorsAccept, Dimensioned, WritableBatch, Admitted
  <2>4. Proceed(c, i)
    BY <1>9, <2>3 DEF WriteVectorsUpsert
  <2>5. /\ vectors[t] = NoIndex => vectors'[t] = NoIndex
        /\ vectors[t] # NoIndex =>
             /\ vectors'[t] # NoIndex /\ vectors'[t].dim = vectors[t].dim
             /\ \A k \in Keys : vectors'[t].vecs[k] =
                  IF b.upserts[k] # NoDoc /\ HasVector(b.upserts[k])
                  THEN b.upserts[k].vec ELSE vectors[t].vecs[k]
        /\ \A m \in Names : m # t => vectors'[m] = vectors[m]
    <3>1. vectors' = VectorsUpsert(vectors, t, b.upserts)
      BY <2>1
    <3>2. vectors \in Vectors /\ t \in Names
      BY <1>2
    <3> HIDE DEF t, b, i
    <3>3. QED
      BY <2>2, <2>3, <3>1, <3>2, VectorEffects
  <2>6. ASSUME NEW k \in Touches(job[c].req)
        PROVE  Progress(i + 1, b, storage[t], engine[t], vectors'[t], k)
    <3>1. Progress(i, b, storage[t], engine[t], vectors[t], k)
      BY <1>2, <2>1 DEF Knows, BatchKnows
    <3>2. k \notin NullKeys /\ dim # 0
            => vectors'[t].vecs[k] = VectorOf(Final(b, k, storage[t].docs[k]))
      <4>1. ASSUME k \notin NullKeys, dim # 0
            PROVE  /\ k \in VectorRemovals(b) <=> b.upserts[k] # NoDoc /\ ~HasVector(b.upserts[k])
                   /\ vectors[t].vecs[k] = IF k \in b.deletes \cup VectorRemovals(b)
                                           THEN NoDoc ELSE VectorOf(storage[t].docs[k])
                   /\ vectors'[t].vecs[k] = IF b.upserts[k] # NoDoc /\ HasVector(b.upserts[k])
                                            THEN b.upserts[k].vec ELSE vectors[t].vecs[k]
        <5>1. k \in Keys /\ storage[t].schema.dim # 0 /\ vectors[t] # NoIndex
          BY <1>2, <1>6, <4>1
        <5>2. k \in VectorRemovals(b) <=> b.upserts[k] # NoDoc /\ ~HasVector(b.upserts[k])
          <6>1. b.upserts[k] # NoDoc => /\ b.upserts[k].vec # Null
                                        /\ b.upserts[k].vec \in {Absent, Null} \cup Vecs
            BY <2>2, <3>1, <5>1 DEF Progress, DocMap, Document
          <6>2. b.upserts[k] # NoDoc => (HasVector(b.upserts[k]) <=> b.upserts[k].vec # Absent)
            BY <6>1, AbsentAssumption DEF HasVector
          <6>3. QED
            BY <5>1, <6>2 DEF VectorRemovals, Upserted
        <5>3. vectors[t].vecs[k] = VectorAt(i, b, k, storage[t].docs[k])
          BY <3>1, <4>1, <5>1 DEF Progress
        <5>4. QED
          BY <2>5, <5>1, <5>2, <5>3 DEF VectorAt
      <4>2. b.upserts[k] = NoDoc \/ k \notin b.deletes
        BY <1>2 DEF WritableBatch
      <4>3. QED
        BY <4>1, <4>2 DEF Final, VectorOf
    <3>3. QED
      BY <1>2, <3>1, <3>2 DEF Progress, EngineAt, VectorAt
  <2> HIDE DEF i
  <2>7. i \in 0..7
    BY <2>1
  <2>8. QED
    BY <1>2, <1>4, <2>4, <2>5, <2>6, <2>7 DEF WritableBatch
<1>10. QED
  BY <1>7, <1>8, <1>9

\* Storage is written.
LEMMA StorageSteps ==
    ASSUME OrderlyInv, Steady', NEW c \in Clients, OthersStay(c),
           WriteStoragePut(c) \/ WriteStorageDelete(c)
    PROVE  OrderlyInv'
<1> DEFINE t == job[c].target
           b == job[c].batch
<1>1. pc[c] \in WriteLabels /\ UNCHANGED <<engine, vectors, alias>>
  BY DEF WriteStoragePut, WriteStorageDelete, At, WriteLabels
<1>2. /\ storage \in Storage /\ t \in Names /\ b \in Batch /\ Touches(job[c].req) \subseteq Keys
      /\ SameIndex(storage[t], engine[t], vectors[t])
      /\ storage[t] # NoIndex /\ storage[t].schema = job[c].schema
      /\ WritableBatch(job[c].req, job[c].schema, b) /\ Knows(c)
  BY <1>1, WriterParts
<1>3. /\ engine[t] # NoIndex /\ Dimensioned(vectors[t], job[c].schema.dim)
      /\ IndexableDocs(job[c].schema, storage[t].docs)
  BY <1>2 DEF SameIndex
<1>4. ASSUME NEW i \in 0..7, Proceed(c, i),
             storage'[t] # NoIndex, storage'[t].schema = storage[t].schema,
             \A m \in Names : m # t => storage'[m] = storage[m],
             IndexableDocs(job[c].schema, storage'[t].docs),
             \A k \in Keys : k \notin Touches(job[c].req)
               => storage'[t].docs[k] = storage[t].docs[k],
             \A k \in Touches(job[c].req) :
               Progress(i + 1, b, storage'[t], engine[t], vectors[t], k)
      PROVE  OrderlyInv'
  <2>1. \A k \in Keys : k \notin Touches(job[c].req) => Untouched(t, k)
    BY <1>1, <1>4 DEF Untouched
  <2>2. QED
    BY <1>1, <1>2, <1>3, <1>4, <2>1, WriteKeeps
<1>5. CASE WriteStoragePut(c)
  <2> DEFINE i == 6
  <2>1. /\ pc[c] = Phases[i] /\ i \in 1..7 /\ Proceed(c, i)
        /\ storage' = StoragePutDocuments(storage, t, b.upserts)
    BY <1>2, <1>5 DEF WriteStoragePut, At, Phases
  <2>2. b.upserts \in DocMap
    BY <1>2 DEF Batch
  <2>3. /\ storage'[t] # NoIndex /\ storage'[t].schema = storage[t].schema
        /\ \A m \in Names : m # t => storage'[m] = storage[m]
        /\ \A k \in Keys : storage'[t].docs[k] =
             IF b.upserts[k] # NoDoc THEN b.upserts[k] ELSE storage[t].docs[k]
    BY <1>2, <2>1, <2>2, StorageEffects
  <2>4. IndexableDocs(job[c].schema, storage'[t].docs)
    <3>1. ASSUME NEW k \in Keys, b.upserts[k] # NoDoc
          PROVE  Indexable(job[c].schema, b.upserts[k])
      <4>1. k \in Touches(job[c].req) /\ Admitted(job[c].req, job[c].schema, b.upserts[k])
        BY <1>2, <3>1 DEF WritableBatch
      <4>2. Progress(i, b, storage[t], engine[t], vectors[t], k)
        BY <1>2, <2>1, <4>1 DEF Knows, BatchKnows
      <4>3. b.upserts[k].vec # Null
        BY <3>1, <4>2 DEF Progress
      <4>4. QED
        BY <4>1, <4>3 DEF Admitted, Indexable
    <3>2. QED
      BY <1>3, <2>3, <3>1 DEF IndexableDocs
  <2>5. ASSUME NEW k \in Touches(job[c].req)
        PROVE  Progress(i + 1, b, storage'[t], engine[t], vectors[t], k)
    <3>1. Progress(i, b, storage[t], engine[t], vectors[t], k)
      BY <1>2, <2>1 DEF Knows, BatchKnows
    <3>2. Final(b, k, storage'[t].docs[k]) = Final(b, k, storage[t].docs[k])
      BY <1>2, <2>3 DEF Final
    <3>3. QED
      BY <1>2, <2>3, <3>1, <3>2 DEF Progress, EngineAt, VectorAt
  <2> HIDE DEF i
  <2>6. i \in 0..7
    BY <2>1
  <2>7. QED
    BY <1>2, <1>4, <2>1, <2>3, <2>4, <2>5, <2>6 DEF WritableBatch
<1>6. CASE WriteStorageDelete(c)
  <2> DEFINE i == 7
  <2>1. /\ pc[c] = Phases[i] /\ i \in 1..7 /\ Proceed(c, i)
        /\ storage' = StorageDeleteDocuments(storage, t, b.deletes)
    BY <1>2, <1>6 DEF WriteStorageDelete, At, Phases
  <2>2. /\ storage'[t] # NoIndex /\ storage'[t].schema = storage[t].schema
        /\ \A m \in Names : m # t => storage'[m] = storage[m]
        /\ \A k \in Keys : storage'[t].docs[k] =
             IF k \in b.deletes THEN NoDoc ELSE storage[t].docs[k]
    BY <1>2, <2>1, StorageEffects
  <2>3. IndexableDocs(job[c].schema, storage'[t].docs)
    BY <1>3, <2>2 DEF IndexableDocs
  <2>4. ASSUME NEW k \in Touches(job[c].req)
        PROVE  Progress(i + 1, b, storage'[t], engine[t], vectors[t], k)
    <3>1. Progress(i, b, storage[t], engine[t], vectors[t], k)
      BY <1>2, <2>1 DEF Knows, BatchKnows
    <3>2. /\ storage'[t].docs[k] = IF k \in b.deletes THEN NoDoc ELSE storage[t].docs[k]
          /\ b.upserts[k] = NoDoc \/ k \notin b.deletes
      BY <1>2, <2>2 DEF WritableBatch
    <3>3. Final(b, k, storage'[t].docs[k]) = Final(b, k, storage[t].docs[k])
      BY <3>2 DEF Final
    <3>4. QED
      BY <1>2, <2>2, <3>1, <3>2, <3>3 DEF Progress, EngineAt, VectorAt
  <2> HIDE DEF i
  <2>5. i \in 0..7
    BY <2>1
  <2>6. QED
    BY <1>2, <1>4, <2>1, <2>2, <2>3, <2>4, <2>5 DEF WritableBatch
<1>7. QED
  BY <1>5, <1>6

-----------------------------------------------------------------------------
(* The invariant is inductive *)

\* Every step of the service that keeps the clients out of each other's way
\* keeps the invariant.
LEMMA StepsKeepOrderlyInv ==
    ASSUME OrderlyInv, Next, Orderly'
    PROVE  OrderlyInv'
<1>1. Inv /\ ThreadsOK /\ Fresh
  BY DEF OrderlyInv, Steady, Inv
<1>2. PICK c \in Clients : Start(c) \/ Step(c)
  BY DEF Next
<1>3. OthersStay(c)
  BY <1>1, <1>2, StepsAreOfOne
<1>4. Steady'
  <2>1. Fresh'
    BY <1>1, <1>2, FreshKept
  <2>2. Inv'
    BY <1>1, NextKeepsInv
  <2>3. Asked'
    BY <1>1, <1>2, AskedKept DEF OrderlyInv, Steady
  <2>4. QED
    BY <2>1, <2>2, <2>3 DEF Steady
<1>5. CASE LifecycleStep(c)
  <2>1. CASE CheckAlias(c) \/ ReadOld(c) \/ ReadPreserved(c)
    BY <1>3, <1>4, <2>1, QuietSteps
  <2>2. CASE CreateStorage(c) \/ CreateEngine(c) \/ CreateVectors(c)
    BY <1>3, <1>4, <2>2, CreateSteps
  <2>3. CASE ReplaceStorage(c) \/ DropEngine(c) \/ DropVectors(c)
    BY <1>3, <1>4, <2>3, ReplaceSteps
  <2>4. CASE RefillEngine(c) \/ RefillTrim(c) \/ RefillVectors(c) \/ RefillStorage(c)
    BY <1>3, <1>4, <2>4, RefillSteps
  <2>5. CASE \/ RollbackStorage(c) \/ RollbackEngine(c) \/ RollbackVectors(c)
             \/ DeleteStorage(c) \/ DeleteEngine(c) \/ DeleteVectors(c)
    BY <1>3, <1>4, <2>5, RemovalSteps
  <2>6. CASE ResetStorage(c) \/ ResetEngine(c) \/ ResetVectors(c) \/ ResetAliases(c)
    BY <1>3, <1>4, <2>6, ResetSteps
  <2>7. QED
    BY <1>5, <2>1, <2>2, <2>3, <2>4, <2>5, <2>6 DEF LifecycleStep
<1>6. CASE IngestStep(c)
  <2>1. CASE FoldAction(c)
    BY <1>3, <1>4, <2>1, FoldSteps
  <2>2. CASE BeginWrites(c)
    BY <1>3, <1>4, <2>2, BeginSteps
  <2>3. CASE WriteEngineDelete(c) \/ WriteEngineIndex(c)
    BY <1>3, <1>4, <2>3, EngineSteps
  <2>4. CASE WriteVectorsDelete(c) \/ WriteVectorsTrim(c) \/ WriteVectorsUpsert(c)
    BY <1>3, <1>4, <2>4, VectorSteps
  <2>5. CASE WriteStoragePut(c) \/ WriteStorageDelete(c)
    BY <1>3, <1>4, <2>5, StorageSteps
  <2>6. QED
    BY <1>6, <2>1, <2>2, <2>3, <2>4, <2>5 DEF IngestStep
<1>7. CASE AliasStep(c)
  <2>1. CASE CheckIndex(c)
    BY <1>3, <1>4, <2>1, QuietSteps
  <2>2. CASE StoreAlias(c) \/ DeleteAlias(c)
    BY <1>3, <1>4, <2>2, AliasSteps
  <2>3. QED
    BY <1>7, <2>1, <2>2 DEF AliasStep
<1>8. CASE Start(c) \/ ResolveName(c) \/ RequireIndex(c) \/ ReadStep(c)
  BY <1>3, <1>4, <1>8, QuietSteps
<1>9. QED
  BY <1>2, <1>5, <1>6, <1>7, <1>8 DEF Step

\* When nothing changes the invariant stays.
LEMMA StutterKeepsOrderlyInv == OrderlyInv /\ UNCHANGED vars => OrderlyInv'
<1> SUFFICES ASSUME OrderlyInv, UNCHANGED vars
             PROVE  OrderlyInv'
  OBVIOUS
<1>1. /\ storage' = storage /\ engine' = engine /\ vectors' = vectors /\ alias' = alias
      /\ pc' = pc /\ job' = job /\ reply' = reply
  BY DEF vars
<1>2. Inv'
  BY NextKeepsInv DEF OrderlyInv, Steady
<1>3. Orderly' /\ Fresh' /\ Asked' /\ NamespaceDisjoint'
  BY <1>1 DEF OrderlyInv, Steady, Orderly, Claims, Fresh, Asked, NamespaceDisjoint
<1>4. Settled'
  BY <1>1 DEF OrderlyInv, Settled, Holds, Writes
<1>5. \A c \in Clients : Knows(c) => Knows(c)'
  BY <1>1 DEF Knows, ResetKnows
<1>6. QED
  BY <1>1, <1>2, <1>3, <1>4, <1>5 DEF OrderlyInv, Steady

\* It holds when the run begins: every index is as create_index leaves it.
LEMMA InitOrderlyInv == Init => OrderlyInv
<1> SUFFICES ASSUME Init
             PROVE  OrderlyInv
  OBVIOUS
<1>1. Inv
  BY InitInv
<1>2. \A c \in Clients : pc[c] = "idle" /\ reply[c] = NoReply
  BY DEF Init
<1>3. Orderly
  BY <1>2 DEF Orderly, Claims
<1>4. Fresh /\ Asked
  BY <1>2 DEF Fresh, FreshLabels, Asked
<1>5. NamespaceDisjoint
  BY DEF Init, NamespaceDisjoint
<1>6. ASSUME NEW n \in Names
      PROVE  Agreed(storage[n], engine[n], vectors[n])
  <2>1. CASE Boot[n] = NoIndex
    <3>1. storage[n] = NoIndex /\ engine[n] = NoIndex /\ vectors[n] = NoIndex
      BY <2>1 DEF Init
    <3>2. QED
      BY <3>1 DEF Agreed, SameIndex, SameKey
  <2>2. CASE Boot[n] # NoIndex
    <3> DEFINE st == [schema |-> Boot[n], docs |-> NoDocs]
               ve == IF Boot[n].dim = 0 THEN NoIndex ELSE [dim |-> Boot[n].dim, vecs |-> NoDocs]
    <3>1. storage[n] = st /\ engine[n] = NoDocs /\ vectors[n] = ve
      BY <2>2 DEF Init
    <3>2. Boot[n] \in Schemas
      BY <2>2, BootAssumption
    <3>3. st # NoIndex /\ NoDocs # NoIndex
      BY <3>2, NoDocsTyped, NoIndexAssumption DEF IndexEntry
    <3>4. st.schema = Boot[n] /\ st.docs = NoDocs /\ \A k \in Keys : NoDocs[k] = NoDoc
      BY DEF NoDocs
    <3>5. Dimensioned(ve, Boot[n].dim) /\ \A k \in Keys : Boot[n].dim # 0 => ve.vecs[k] = NoDoc
      <4>1. Boot[n].dim \in Nat
        BY <3>2, DimsAssumption DEF Schemas
      <4>2. [dim |-> Boot[n].dim, vecs |-> NoDocs] \in VectorIndex
        BY <4>1, NoDocsTyped DEF VectorIndex
      <4>3. QED
        BY <4>2, NoIndexAssumption DEF Dimensioned, NoDocs
    <3> HIDE DEF st, ve
    <3>6. QED
      BY <3>1, <3>3, <3>4, <3>5
      DEF Agreed, SameIndex, SameKey, IndexableDocs, TextOf, VectorOf
  <2>3. QED
    BY <2>1, <2>2
<1>7. Settled
  BY <1>6 DEF Settled, Agreed
<1>8. QED
  BY <1>1, <1>2, <1>3, <1>4, <1>5, <1>7 DEF OrderlyInv, Steady

\* OrderlyInv holds of every run in which no two requests in flight write the
\* same thing.
THEOREM OrderlyInvHolds == OrderlySpec => []OrderlyInv
<1>1. Init => OrderlyInv
  BY InitOrderlyInv
<1>2. OrderlyInv /\ [Next /\ Orderly']_vars => OrderlyInv'
  BY StepsKeepOrderlyInv, StutterKeepsOrderlyInv
<1>3. QED
  BY <1>1, <1>2, PTL DEF OrderlySpec

-----------------------------------------------------------------------------
(* What follows *)

\* A request that has an index apart may write every key.
LEMMA HeldIsBusy ==
    ASSUME ThreadsOK, NEW c \in Clients, NEW n \in Names, NEW k \in Keys,
           Holds(c, n) \/ Writes(c, n, k)
    PROVE  k \in BusyKeys
<1>1. pc[c] # "idle"
  BY DEF Holds, Writes, Rebuilding, Updating, Rollback, Clearing, WriteLabels
<1>2. k \in Touches(job[c].req)
  <2>1. CASE Writes(c, n, k)
    BY <2>1 DEF Writes
  <2>2. CASE Holds(c, n)
    <3>1. pc[c] \in Rebuilding \cup Clearing
      BY <2>2 DEF Holds
    <3>2. Fits(job[c], pc[c])
      BY <1>1, InFlightParts
    <3>3. job[c].req.op \in {"create", "put", "delete", "reset"}
      BY <3>1, <3>2, LabelKinds DEF Rebuilding, Updating, Rollback, Clearing
    <3>4. QED
      BY <3>3 DEF Touches
  <2>3. QED
    BY <2>1, <2>2
<1>3. QED
  BY <1>1, <1>2 DEF BusyKeys, InFlight

\* check_alias_collision and reject_alias_index_collision keep the names of
\* indexes and aliases apart as long as requests that write names do not
\* overlap.
THEOREM NamesStayApart == OrderlySpec => []NamespaceDisjoint
<1>1. OrderlyInv => NamespaceDisjoint
  BY DEF OrderlyInv
<1>2. QED
  BY <1>1, OrderlyInvHolds, PTL

\* Storage, engine and vectors agree on every key that no request in flight may
\* be writing and no batch of the workload may leave a null vector under:
\* index_documents, create_index, create_or_update_index, delete_index and
\* reset leave them with one outcome.
THEOREM StoresConverge == OrderlySpec => []StoresAgreeAtRest
<1>1. ASSUME OrderlyInv, NEW n \in Names, NEW k \in Keys \ (BusyKeys \cup NullKeys)
      PROVE  AgreeOn(n, k)
  <2>1. ThreadsOK /\ Settled
    BY <1>1 DEF OrderlyInv, Steady, Inv
  <2>2. \A c \in Clients : ~Holds(c, n) /\ ~Writes(c, n, k)
    BY <2>1, HeldIsBusy
  <2>3. SameIndex(storage[n], engine[n], vectors[n]) /\ SameKey(storage[n], engine[n], vectors[n], k)
    BY <2>1, <2>2 DEF Settled
  <2>4. QED
    BY <2>3 DEF AgreeOn, SameIndex, SameKey, Dimensioned
<1>2. OrderlyInv => StoresAgreeAtRest
  BY <1>1 DEF StoresAgreeAtRest
<1>3. QED
  BY <1>2, OrderlyInvHolds, PTL

=============================================================================
