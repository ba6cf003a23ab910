---------------------------- MODULE PromiseProofs ----------------------------
(***************************************************************************)
(* What the clients are told.  While no two requests in flight write the   *)
(* same thing, an acknowledged batch stays acknowledged by the documents,  *)
(* no request fails half way, and seen from its writers the service is one *)
(* catalog of indexes, changed by whole requests.  Whatever the clients    *)
(* do, a search is exact on the keys nobody could write while it ran, and  *)
(* an update that has the service to itself makes the stores agree.        *)
(***************************************************************************)
EXTENDS RequestHistory, ServiceProofs, FiniteSetTheorems, WellFoundedInduction

-----------------------------------------------------------------------------
(* The kinds of steps *)

\* The steps of each part of the service are those of its own requests.
LEMMA StepKinds ==
    ASSUME ThreadsOK, NEW c \in Clients, Step(c)
    PROVE  /\ pc[c] # "idle"
           /\ LifecycleStep(c) => job[c].req.op \in {"create", "put", "delete", "reset"}
           /\ IngestStep(c) => pc[c] \in WriteLabels \cup {"apply_action"}
           /\ ReadStep(c) => job[c].req.op \in Reads
           /\ AliasStep(c) => job[c].req.op \in {"createAlias", "putAlias", "deleteAlias"}
<1>1. ASSUME LifecycleStep(c)
      PROVE  pc[c] \in {"check_alias", "create_storage", "create_engine", "create_vectors",
                        "read_old", "read_preserved", "replace_storage", "drop_engine",
                        "drop_vectors", "refill_engine", "refill_trim", "refill_vectors",
                        "refill_storage", "rollback_storage", "rollback_engine",
                        "rollback_vectors", "delete_storage", "delete_engine",
                        "delete_vectors", "reset_storage", "reset_engine", "reset_vectors",
                        "reset_alias"}
  BY <1>1, SMTT(30)
  DEF LifecycleStep, At, CheckAlias, CreateStorage, CreateEngine, CreateVectors, ReadOld,
      ReadPreserved, ReplaceStorage, DropEngine, DropVectors, RefillEngine, RefillTrim,
      RefillVectors, RefillStorage, RollbackStorage, RollbackEngine, RollbackVectors,
      DeleteStorage, DeleteEngine, DeleteVectors, ResetStorage, ResetEngine, ResetVectors,
      ResetAliases
<1>2. ASSUME IngestStep(c)
      PROVE  pc[c] \in WriteLabels \cup {"apply_action"}
  BY <1>2, SMTT(30)
  DEF IngestStep, At, WriteLabels, FoldAction, BeginWrites, WriteEngineDelete,
      WriteEngineIndex, WriteVectorsDelete, WriteVectorsTrim, WriteVectorsUpsert,
      WriteStoragePut, WriteStorageDelete
<1>3. ASSUME ReadStep(c)
      PROVE  pc[c] \in {"parse_resolve", "parse_require", "search_documents",
                        "search_vectors", "search_engine", "read_documents"}
  BY <1>3 DEF ReadStep, At, ParseResolve, ParseRequire, SearchDocuments, SearchVectors,
              SearchEngine, ReadDocuments
<1>4. ASSUME AliasStep(c)
      PROVE  pc[c] \in {"check_index", "store_alias", "delete_alias"}
  BY <1>4 DEF AliasStep, At, CheckIndex, StoreAlias, DeleteAlias
<1>5. ASSUME ResolveName(c) \/ RequireIndex(c)
      PROVE  pc[c] \in {"resolve", "require"}
  BY <1>5 DEF At, ResolveName, RequireIndex
<1>6. pc[c] # "idle"
  BY <1>1, <1>2, <1>3, <1>4, <1>5 DEF Step, WriteLabels
<1>7. Fits(job[c], pc[c])
  BY <1>6, InFlightParts
<1>8. LifecycleStep(c) => job[c].req.op \in {"create", "put", "delete", "reset"}
  BY <1>1, <1>7, LabelKinds
<1>9. ReadStep(c) => job[c].req.op \in Reads
  BY <1>3, <1>7, LabelKinds DEF Reads
<1>10. AliasStep(c) => job[c].req.op \in {"createAlias", "putAlias", "deleteAlias"}
  BY <1>4, <1>7, LabelKinds
<1>11. QED
  BY <1>2, <1>6, <1>8, <1>9, <1>10

-----------------------------------------------------------------------------
(* No request fails half way *)

\* The definitions clients send have a vectorSearch section that parses.
WellFormed ==
    \A c \in Clients : \A r \in Workload[c] : r.op \in {"create", "put"} => ~r.schema.malformed

\* A create or an update in flight has such a definition.
Sound(c) == pc[c] # "idle" /\ job[c].req.op \in {"create", "put"} => ~job[c].schema.malformed

Smooth == NoRollback /\ \A c \in Clients : Sound(c)

\* Where the stores let a lifecycle request or a batch down, they do not: the
\* engine has the index just when it should, and the vectors fit.
LEMMA NothingFails ==
    ASSUME OrderlyInv, NEW c \in Clients
    PROVE  LET t == job[c].target
           IN  /\ pc[c] = "create_engine" => engine[t] = NoIndex
               /\ pc[c] = "refill_engine" => engine[t] # NoIndex
               /\ pc[c] = "refill_vectors" => VectorsAccept(vectors, t, job[c].docs)
               /\ pc[c] = "refill_storage" => storage[t] # NoIndex
               /\ pc[c] = "vectors_upsert" => VectorsAccept(vectors, t, job[c].batch.upserts)
<1> DEFINE t == job[c].target
           s == job[c].schema
<1>1. CASE pc[c] \in Updating
  <2>1. Knows(c)
    BY <1>1 DEF OrderlyInv, Updating
  <2>2. EmptyEntry(storage[t], s) /\ IndexableDocs(s, job[c].docs)
    BY <1>1, <2>1 DEF Knows, LifecycleKnows
  <2>3. /\ pc[c] = "create_engine" => engine[t] = NoIndex
        /\ pc[c] = "refill_engine" => EngineHolds(engine[t], NoDocs)
        /\ pc[c] = "refill_vectors" => s.dim # 0 /\ VectorsHold(vectors[t], s.dim, NoDocs)
    BY <2>1 DEF Knows, LifecycleKnows
  <2>4. pc[c] = "refill_vectors" => VectorsAccept(vectors, t, job[c].docs)
    BY <2>2, <2>3 DEF VectorsAccept, IndexableDocs, Indexable, VectorsHold, Dimensioned
  <2>5. pc[c] # "vectors_upsert"
    BY <1>1 DEF Updating
  <2>6. QED
    BY <2>2, <2>3, <2>4, <2>5 DEF EmptyEntry, EngineHolds
<1>2. CASE pc[c] = "vectors_upsert"
  <2>1. pc[c] \in WriteLabels
    BY <1>2 DEF WriteLabels
  <2>2. /\ SameIndex(storage[t], engine[t], vectors[t])
        /\ storage[t] # NoIndex /\ storage[t].schema = s
        /\ WritableBatch(job[c].req, s, job[c].batch)
    BY <2>1, WriterParts
  <2>3. VectorsAccept(vectors, t, job[c].batch.upserts)
    BY <2>2 DEF VectorsAccept, SameIndex, Dimensioned, WritableBatch, Admitted
  <2>4. QED
    BY <1>2, <2>3
<1>3. QED
  BY <1>1, <1>2 DEF Updating

\* Every step of a well-formed workload keeps it so.
LEMMA SmoothKept ==
    ASSUME WellFormed, OrderlyInv, Smooth, NEW c \in Clients, Start(c) \/ Step(c)
    PROVE  Smooth'
<1> DEFINE SmoothAt == /\ pc'[c] \notin Rollback /\ Sound(c)'
                       /\ reply'[c] # NoReply /\ reply'[c].status = 500
                            => NullRequest(reply'[c].req)
<1>1. ThreadsOK /\ OthersStay(c)
  BY StepsAreOfOne DEF OrderlyInv, Steady, Inv
<1>2. /\ pc[c] \notin Rollback /\ Sound(c)
      /\ reply[c] # NoReply /\ reply[c].status = 500 => NullRequest(reply[c].req)
  BY DEF Smooth, NoRollback
<1>3. SUFFICES SmoothAt
  BY <1>1 DEF Smooth, NoRollback, Sound, OthersStay
<1>4. ASSUME NEW s, NEW rs, NEW ds, s # 500, Answer(c, s, rs, ds)
      PROVE  SmoothAt
  BY <1>1, <1>4 DEF Answer, ThreadsOK, Rollback, Sound
<1>5. ASSUME NEW x, x # 500, Return(c, x)
      PROVE  SmoothAt
  BY <1>4, <1>5 DEF Return
<1>6. ASSUME NEW l, Goto(c, l), l \notin Rollback, pc[c] # "idle",
             job'[c].req = job[c].req,
             job[c].req.op \in {"create", "put"} => job'[c].schema = job[c].schema
      PROVE  SmoothAt
  BY <1>1, <1>2, <1>6 DEF Goto, ThreadsOK, Rollback, Sound
<1>7. ASSUME NEW l, Goto(c, l), l \notin Rollback, pc[c] # "idle", UNCHANGED job
      PROVE  SmoothAt
  BY <1>6, <1>7
<1>8. ASSUME NEW l, NEW x, Goto(c, l), l \notin Rollback, pc[c] # "idle",
             \/ job' = [job EXCEPT ![c].target = x] \/ job' = [job EXCEPT ![c].docs = x]
             \/ job' = [job EXCEPT ![c].found = x] \/ job' = [job EXCEPT ![c].batch = x]
      PROVE  SmoothAt
  <2>1. job[c] \in Job
    BY <1>1, <1>8, InFlightParts
  <2>2. job'[c].req = job[c].req /\ job'[c].schema = job[c].schema
    BY <1>1, <1>8, <2>1 DEF ThreadsOK, Job
  <2>3. QED
    BY <1>6, <1>8, <2>2
<1>9. ASSUME NEW i, Proceed(c, i), pc[c] # "idle"
      PROVE  SmoothAt
  <2>1. \A j \in NeededAfter(c, i) : Phases[j] \notin Rollback
    BY DEF NeededAfter, Phases, Rollback
  <2>2. CASE Answer(c, 200, job[c].batch.results, NoDocs)
    BY <1>4, <2>2
  <2>3. QED
    BY <1>7, <1>9, <2>1, <2>2 DEF Proceed
<1> HIDE DEF SmoothAt
<1>10. CASE Start(c)
  <2>1. PICK r \in Workload[c] : /\ job' = [job EXCEPT ![c] = NewJob(r)]
                                 /\ pc' = [pc EXCEPT ![c] = Entry(r.op)]
                                 /\ reply' = [reply EXCEPT ![c] = NoReply]
    BY <1>10 DEF Start
  <2>2. r \in Request
    BY WorkloadAssumption
  <2>3. r.op \in {"create", "put", "delete", "index", "search", "get", "count",
                  "createAlias", "putAlias", "deleteAlias", "reset"}
    BY <2>2, RequestParts
  <2>4. Entry(r.op) \notin Rollback
    BY <2>3 DEF Entry, Rollback
  <2>5. job'[c].req = r /\ (r.op \in {"create", "put"} => job'[c].schema = r.schema)
    BY <1>1, <2>1 DEF NewJob, ThreadsOK
  <2>6. pc'[c] = Entry(r.op) /\ reply'[c] = NoReply
    BY <1>1, <2>1 DEF ThreadsOK
  <2>7. QED
    BY <2>4, <2>5, <2>6 DEF SmoothAt, Sound, WellFormed
<1>11. ASSUME Step(c)
       PROVE  pc[c] # "idle"
  BY <1>1, <1>11, StepKinds
<1>12. CASE ResolveName(c)
  <2>1. pc[c] # "idle"
    BY <1>11, <1>12 DEF Step
  <2>2. QED
    BY <1>8, <1>12, <2>1 DEF ResolveName, Rollback
<1>13. CASE RequireIndex(c)
  <2>1. pc[c] = "require"
    BY <1>13 DEF RequireIndex, At
  <2>2. job[c].req.op \in {"index", "search", "get", "count"} /\ job[c] \in Job
    BY <1>1, <2>1, InFlightParts, LabelKinds
  <2>3. CASE Return(c, 404)
    BY <1>5, <2>3
  <2>4. ASSUME NEW l, Goto(c, l), l \notin Rollback, NEW x, job' = [job EXCEPT ![c].schema = x]
        PROVE  SmoothAt
    <3>1. job'[c].req = job[c].req
      BY <1>1, <2>2, <2>4 DEF ThreadsOK, Job
    <3>2. QED
      BY <1>6, <2>1, <2>2, <2>4, <3>1
  <2>5. QED
    BY <1>13, <2>3, <2>4 DEF RequireIndex, Rollback
<1>14. CASE LifecycleStep(c)
  <2>1. pc[c] # "idle"
    BY <1>11, <1>14 DEF Step
  <2>2. CASE CheckAlias(c) \/ CreateStorage(c)
    BY <1>5, <1>7, <2>1, <2>2 DEF CheckAlias, CreateStorage, Rollback
  <2>3. CASE CreateEngine(c)
    <3>1. engine[job[c].target] = NoIndex
      BY <2>3, NothingFails DEF CreateEngine, At
    <3>2. QED
      BY <1>7, <2>1, <2>3, <3>1 DEF CreateEngine, Rollback
  <2>4. CASE CreateVectors(c)
    <3>1. job[c].req.op \in {"create", "put"}
      BY <1>1, <2>1, <2>4, InFlightParts, LabelKinds DEF CreateVectors, At
    <3>2. ~job[c].schema.malformed
      BY <1>2, <2>1, <3>1 DEF Sound
    <3>3. QED
      BY <1>5, <1>7, <2>1, <2>4, <3>2 DEF CreateVectors, Rollback
  <2>5. CASE ReadOld(c) \/ ReplaceStorage(c) \/ DropEngine(c) \/ DropVectors(c)
    BY <1>7, <2>1, <2>5 DEF ReadOld, ReplaceStorage, DropEngine, DropVectors, Rollback
  <2>6. CASE ReadPreserved(c)
    BY <1>8, <2>1, <2>6 DEF ReadPreserved, Rollback
  <2>7. CASE RefillEngine(c)
    <3>1. engine[job[c].target] # NoIndex
      BY <2>7, NothingFails DEF RefillEngine, At
    <3>2. QED
      BY <1>7, <2>1, <2>7, <3>1 DEF RefillEngine, Rollback
  <2>8. CASE RefillTrim(c)
    BY <1>7, <2>1, <2>8 DEF RefillTrim, Rollback
  <2>9. CASE RefillVectors(c)
    <3>1. VectorsAccept(vectors, job[c].target, job[c].docs)
      BY <2>9, NothingFails DEF RefillVectors, At
    <3>2. QED
      BY <1>7, <2>1, <2>9, <3>1 DEF RefillVectors, Rollback
  <2>10. CASE RefillStorage(c)
    <3>1. storage[job[c].target] # NoIndex
      BY <2>10, NothingFails DEF RefillStorage, At
    <3>2. QED
      BY <1>5, <2>10, <3>1 DEF RefillStorage
  <2>11. ~(RollbackStorage(c) \/ RollbackEngine(c) \/ RollbackVectors(c))
    BY <1>2 DEF RollbackStorage, RollbackEngine, RollbackVectors, Rollback, At
  <2>12. CASE DeleteStorage(c) \/ DeleteEngine(c) \/ DeleteVectors(c)
    BY <1>5, <1>7, <2>1, <2>12 DEF DeleteStorage, DeleteEngine, DeleteVectors, Rollback
  <2>13. CASE ResetStorage(c) \/ ResetEngine(c) \/ ResetVectors(c) \/ ResetAliases(c)
    BY <1>5, <1>7, <2>1, <2>13
    DEF ResetStorage, ResetEngine, ResetVectors, ResetAliases, Rollback
  <2>14. QED
    BY <1>14, <2>2, <2>3, <2>4, <2>5, <2>6, <2>7, <2>8, <2>9, <2>10, <2>11, <2>12, <2>13
    DEF LifecycleStep
<1>15. CASE IngestStep(c)
  <2>1. pc[c] # "idle"
    BY <1>11, <1>15 DEF Step
  <2>2. CASE FoldAction(c)
    BY <1>5, <1>8, <2>1, <2>2 DEF FoldAction, Rollback
  <2>3. CASE BeginWrites(c) \/ WriteEngineDelete(c) \/ WriteEngineIndex(c)
               \/ WriteVectorsDelete(c)
    BY <1>5, <1>9, <2>1, <2>3
    DEF BeginWrites, WriteEngineDelete, WriteEngineIndex, WriteVectorsDelete
  <2>4. CASE WriteVectorsTrim(c)
    <3>1. CASE NullVectors(job[c].batch) = {}
      BY <1>9, <2>1, <2>4, <3>1 DEF WriteVectorsTrim
    <3>2. CASE NullVectors(job[c].batch) # {} /\ Return(c, 500)
      <4>1. pc[c] \in WriteLabels
        BY <2>4 DEF WriteVectorsTrim, At, WriteLabels
      <4>2. \E k \in Keys : job[c].batch.upserts[k] # NoDoc /\ job[c].batch.upserts[k].vec = Null
        BY <3>2 DEF NullVectors, Upserted
      <4>3. NullRequest(job[c].req)
        BY <4>1, <4>2, WriterParts DEF WritableBatch, Admitted
      <4>4. pc'[c] = "idle" /\ reply'[c].req = job[c].req
        BY <1>1, <3>2 DEF Return, Answer, ThreadsOK
      <4>5. QED
        BY <4>3, <4>4 DEF SmoothAt, Rollback, Sound
    <3>3. QED
      BY <2>4, <3>1, <3>2 DEF WriteVectorsTrim
  <2>5. CASE WriteVectorsUpsert(c)
    <3>1. VectorsAccept(vectors, job[c].target, job[c].batch.upserts)
      BY <2>5, NothingFails DEF WriteVectorsUpsert, At
    <3>2. QED
      BY <1>9, <2>1, <2>5, <3>1 DEF WriteVectorsUpsert
  <2>6. CASE WriteStoragePut(c) \/ WriteStorageDelete(c)
    BY <1>5, <1>9, <2>1, <2>6 DEF WriteStoragePut, WriteStorageDelete
  <2>7. QED
    BY <1>15, <2>2, <2>3, <2>5, <2>6, <2>4 DEF IngestStep
<1>16. CASE ReadStep(c)
  <2>1. pc[c] # "idle"
    BY <1>11, <1>16 DEF Step
  <2>2. ASSUME NEW docs, Answer(c, 200, <<>>, docs) PROVE SmoothAt
    BY <1>4, <2>2
  <2>3. CASE ParseResolve(c) \/ ParseRequire(c)
    BY <1>5, <1>7, <1>8, <2>1, <2>3 DEF ParseResolve, ParseRequire, Rollback
  <2>4. CASE SearchDocuments(c)
    BY <1>5, <1>8, <2>1, <2>4 DEF SearchDocuments, Rollback
  <2>5. CASE SearchVectors(c)
    BY <1>8, <2>1, <2>2, <2>5 DEF SearchVectors, Rollback
  <2>6. CASE SearchEngine(c) \/ ReadDocuments(c)
    BY <1>5, <2>2, <2>6 DEF SearchEngine, ReadDocuments
  <2>7. QED
    BY <1>16, <2>3, <2>4, <2>5, <2>6 DEF ReadStep
<1>17. CASE AliasStep(c)
  <2>1. pc[c] # "idle"
    BY <1>11, <1>17 DEF Step
  <2>2. QED
    BY <1>5, <1>7, <1>17, <2>1 DEF AliasStep, CheckIndex, StoreAlias, DeleteAlias, Rollback
<1>18. QED
  BY <1>10, <1>12, <1>13, <1>14, <1>15, <1>16, <1>17 DEF Step

LEMMA StutterKeepsSmooth == Smooth /\ UNCHANGED vars => Smooth'
BY DEF Smooth, NoRollback, Sound, vars

LEMMA InitSmooth == Init => Smooth
BY DEF Init, Smooth, NoRollback, Sound, Rollback

\* When no lifecycle request overlaps another writer and every definition sent
\* parses, no index is ever rolled back, and the only request answered 500 is
\* a batch that sends a null vector without a text to fill it in from: the
\* other error paths of create_index, create_or_update_index and
\* apply_vector_changes are reached through races and malformed definitions.
THEOREM NothingRollsBack ==
    ASSUME WellFormed
    PROVE  OrderlySpec => []NoRollback
<1>1. Init => Smooth
  BY InitSmooth
<1>2. OrderlyInv /\ Smooth /\ [Next /\ Orderly']_vars => Smooth'
  BY SmoothKept, StutterKeepsSmooth DEF Next
<1>3. Smooth => NoRollback
  BY DEF Smooth
<1>4. QED
  BY <1>1, <1>2, <1>3, OrderlyInvHolds, PTL DEF OrderlySpec

-----------------------------------------------------------------------------
(* What a batch has told its client *)

\* The result that counts for key k: that of the last action that succeeded.
Latest(results, k) ==
    LET good == {i \in DOMAIN results : results[i].key = k /\ results[i].status \in {200, 201}}
    IN  {i \in good : \A j \in good : j <= i}

\* The results answer the first actions, in order.
OneEach(actions, results) ==
    /\ Len(results) <= Len(actions)
    /\ \A i \in DOMAIN results : results[i].key = actions[i].key

\* The document pending under key k has a null vector: it is never stored.
Stuck(b, k) == b.upserts[k] # NoDoc /\ b.upserts[k].vec = Null

\* Once batch b of request r is written over the stored documents, they honour
\* what it has answered so far.
Pending(r, b, stored) ==
    /\ OneEach(r.actions, b.results)
    /\ \A k \in Keys : \A i \in Latest(b.results, k) :
           Stuck(b, k) \/ Honours(Final(b, k, stored[k]), r.actions[i])

\* The documents of entry st honour the results of answer p.
Told(p, st) ==
    /\ OneEach(p.req.actions, p.results)
    /\ \A k \in Keys : \A i \in Latest(p.results, k) :
           st # NoIndex /\ Honours(st.docs[k], p.req.actions[i])

\* A batch in flight works on the index its name stands for, and will keep the
\* promises it has made so far; one that was answered has kept them.
Promises(c) ==
    /\ pc[c] # "idle" => reply[c] = NoReply
    /\ pc[c] # "idle" /\ job[c].req.op = "index" =>
         /\ pc[c] # "resolve" => job[c].target = Resolve(alias, job[c].req.name)
         /\ pc[c] \in WriteLabels \cup {"apply_action"} =>
              Pending(job[c].req, job[c].batch, storage[job[c].target].docs)
    /\ reply[c] # NoReply /\ reply[c].req.op = "index" /\ reply[c].status = 200 =>
         Told(reply[c], storage[Resolve(alias, reply[c].req.name)])

PromisesInv == \A c \in Clients : Promises(c)

\* A result appended for a key counts from then on when it is a success, and
\* no other result starts or stops to count.
LEMMA LatestAppend ==
    ASSUME NEW rs \in Seq(Result), NEW r \in Result, NEW k
    PROVE  IF r.key = k /\ r.status \in {200, 201}
           THEN Latest(Append(rs, r), k) = {Len(rs) + 1}
           ELSE Latest(Append(rs, r), k) = Latest(rs, k)
<1> DEFINE n == Len(rs)
           new == Append(rs, r)
           good(s) == {i \in DOMAIN s : s[i].key = k /\ s[i].status \in {200, 201}}
<1>1. /\ n \in Nat /\ DOMAIN rs = 1..n /\ DOMAIN new = 1..(n + 1)
      /\ \A i \in 1..n : new[i] = rs[i]
      /\ new[n + 1] = r
  OBVIOUS
<1>2. \A s : Latest(s, k) = {i \in good(s) : \A j \in good(s) : j <= i}
  BY DEF Latest
<1> HIDE DEF n, new
<1>3. CASE r.key = k /\ r.status \in {200, 201}
  <2>1. good(new) = good(rs) \cup {n + 1}
    BY <1>1, <1>3
  <2>2. \A i \in good(rs) : i \in 1..n
    BY <1>1
  <2> HIDE DEF good
  <2>3. {i \in good(new) : \A j \in good(new) : j <= i} = {n + 1}
    BY <1>1, <2>1, <2>2
  <2>4. QED
    BY <1>2, <1>3, <2>3 DEF n, new
<1>4. CASE ~(r.key = k /\ r.status \in {200, 201})
  <2>1. good(new) = good(rs)
    BY <1>1, <1>4
  <2> HIDE DEF good
  <2>2. QED
    BY <1>2, <1>4, <2>1 DEF n, new
<1>5. QED
  BY <1>3, <1>4

\* An action of the batch keeps the promises: the one that succeeds is
\* honoured by what it records, and every other key is left alone.
LEMMA ActionPending ==
    ASSUME NEW r \in Request, r.op = "index", NEW s \in Schemas, NEW stored \in DocMap,
           NEW b \in Batch, Pending(r, b, stored), Len(b.results) < Len(r.actions)
    PROVE  Pending(r, ApplyAction(s, stored, b, r.actions[Len(b.results) + 1]), stored)
<1> DEFINE n == Len(b.results)
           a == r.actions[n + 1]
           next == ApplyAction(s, stored, b, a)
<1>1. /\ r.actions \in Seq(Action) /\ b.results \in Seq(Result) /\ n \in Nat
      /\ DOMAIN b.results = 1..n /\ DOMAIN r.actions = 1..Len(r.actions)
  BY RequestParts DEF Batch
<1>2. a \in Action /\ a.key \in Keys
  <2>1. n + 1 \in DOMAIN r.actions
    BY <1>1
  <2>2. \A i \in DOMAIN r.actions : r.actions[i] \in Action
    BY <1>1
  <2>3. a \in Action
    BY <2>1, <2>2
  <2>4. QED
    BY <2>3 DEF Action
<1>3. b.upserts \in DocMap
  BY DEF Batch
<1>4. /\ OneEach(r.actions, b.results)
      /\ \A k \in Keys : \A i \in Latest(b.results, k) :
           Stuck(b, k) \/ Honours(Final(b, k, stored[k]), r.actions[i])
  BY DEF Pending
<1> HIDE DEF a, next
<1>5. ASSUME NEW status \in Statuses, NEW x,
             x.results = Append(b.results, [key |-> a.key, status |-> status]),
             \A k \in Keys : k # a.key => /\ Final(x, k, stored[k]) = Final(b, k, stored[k])
                                          /\ Stuck(b, k) => Stuck(x, k),
             IF status \in {200, 201}
             THEN Stuck(x, a.key) \/ Honours(Final(x, a.key, stored[a.key]), a)
             ELSE /\ Final(x, a.key, stored[a.key]) = Final(b, a.key, stored[a.key])
                  /\ Stuck(b, a.key) => Stuck(x, a.key)
      PROVE  Pending(r, x, stored)
  <2> DEFINE res == [key |-> a.key, status |-> status]
  <2>1. res \in Result /\ res.key = a.key /\ res.status = status
    BY <1>2 DEF Result
  <2> HIDE DEF res
  <2>2. x.results = Append(b.results, res)
    BY <1>5 DEF res
  <2>3. OneEach(r.actions, x.results)
    BY <1>1, <1>4, <2>1, <2>2 DEF OneEach, a
  <2>4. ASSUME NEW k \in Keys, NEW i \in Latest(x.results, k)
        PROVE  Stuck(x, k) \/ Honours(Final(x, k, stored[k]), r.actions[i])
    <3>1. CASE res.key = k /\ res.status \in {200, 201}
      <4>1. i = n + 1
        BY <1>1, <2>1, <2>2, <2>4, <3>1, LatestAppend
      <4>2. QED
        BY <1>5, <2>1, <3>1, <4>1 DEF a
    <3>2. CASE ~(res.key = k /\ res.status \in {200, 201})
      <4>1. i \in Latest(b.results, k)
        BY <1>1, <2>1, <2>2, <2>4, <3>2, LatestAppend
      <4>2. Final(x, k, stored[k]) = Final(b, k, stored[k]) /\ (Stuck(b, k) => Stuck(x, k))
        BY <1>5, <2>1, <3>2
      <4>3. QED
        BY <1>4, <4>1, <4>2
    <3>3. QED
      BY <3>1, <3>2
  <2>5. QED
    BY <2>3, <2>4 DEF Pending
<1>6. ASSUME NEW d \in Document, NEW status \in {200, 201}, d.vec # Null => Honours(d, a),
             next = Respond(RecordUpsert(b, a.key, d), a.key, status)
      PROVE  Pending(r, next, stored)
  <2>1. /\ next.upserts = [b.upserts EXCEPT ![a.key] = d]
        /\ next.deletes = b.deletes \ {a.key}
        /\ next.results = Append(b.results, [key |-> a.key, status |-> status])
    BY <1>6 DEF Respond, RecordUpsert, Batch
  <2>2. /\ next.upserts[a.key] = d
        /\ \A k \in Keys : k # a.key => next.upserts[k] = b.upserts[k]
    BY <1>2, <1>3, <2>1 DEF DocMap
  <2>3. Final(next, a.key, stored[a.key]) = d /\ (d.vec = Null => Stuck(next, a.key))
    BY <2>2, NoDocAssumption DEF Final, Stuck
  <2>4. \A k \in Keys : k # a.key => /\ Final(next, k, stored[k]) = Final(b, k, stored[k])
                                     /\ Stuck(b, k) => Stuck(next, k)
    BY <2>1, <2>2 DEF Final, Stuck
  <2>5. status \in Statuses
    BY DEF Statuses
  <2>6. QED
    BY <1>5, <1>6, <2>1, <2>3, <2>4, <2>5
<1>7. ASSUME Honours(NoDoc, a), next = Respond(RecordDelete(b, a.key), a.key, 200)
      PROVE  Pending(r, next, stored)
  <2>1. /\ next.upserts = [b.upserts EXCEPT ![a.key] = NoDoc]
        /\ next.deletes = b.deletes \cup {a.key}
        /\ next.results = Append(b.results, [key |-> a.key, status |-> 200])
    BY <1>7 DEF Respond, RecordDelete, Batch
  <2>2. /\ next.upserts[a.key] = NoDoc
        /\ \A k \in Keys : k # a.key => next.upserts[k] = b.upserts[k]
    BY <1>2, <1>3, <2>1 DEF DocMap
  <2>3. Final(next, a.key, stored[a.key]) = NoDoc
    BY <2>1, <2>2 DEF Final
  <2>4. \A k \in Keys : k # a.key => /\ Final(next, k, stored[k]) = Final(b, k, stored[k])
                                     /\ Stuck(b, k) => Stuck(next, k)
    BY <2>1, <2>2 DEF Final, Stuck
  <2>5. 200 \in Statuses
    BY DEF Statuses
  <2>6. QED
    BY <1>5, <1>7, <2>1, <2>3, <2>4, <2>5
<1>8. ASSUME NEW status \in {400, 404}, next = Respond(b, a.key, status)
      PROVE  Pending(r, next, stored)
  <2>1. /\ next.upserts = b.upserts /\ next.deletes = b.deletes
        /\ next.results = Append(b.results, [key |-> a.key, status |-> status])
    BY <1>8 DEF Respond, Batch
  <2>2. \A k \in Keys : /\ Final(next, k, stored[k]) = Final(b, k, stored[k])
                        /\ Stuck(b, k) => Stuck(next, k)
    BY <2>1 DEF Final, Stuck
  <2>3. status \in Statuses /\ status \notin {200, 201}
    BY DEF Statuses
  <2>4. QED
    BY <1>2, <1>5, <2>1, <2>2, <2>3
<1>9. Pending(r, next, stored)
  BY <1>2, <1>6, <1>7, <1>8, ActionEffect DEF next, Outcomes
<1>10. QED
  BY <1>9 DEF a, next

-----------------------------------------------------------------------------
(* Keeping the promises *)

\* Writing a batch leaves what it will leave under each key, and once it has
\* answered 200 that is what storage holds.
LEMMA WriteSettles ==
    ASSUME OrderlyInv, NEW c \in Clients, IngestStep(c), ~FoldAction(c),
           NEW t, t = job[c].target, NEW b, b = job[c].batch
    PROVE  /\ alias' = alias
           /\ storage[t] # NoIndex /\ storage'[t] # NoIndex
           /\ \A n \in Names : n # t => storage'[n] = storage[n]
           /\ \A k \in Keys : k \notin Touches(job[c].req)
                => storage'[t].docs[k] = storage[t].docs[k]
           /\ \A k \in Keys : Final(b, k, storage'[t].docs[k]) = Final(b, k, storage[t].docs[k])
           /\ \/ \E l : Goto(c, l) /\ l \in WriteLabels /\ UNCHANGED job
              \/ /\ Answer(c, 200, b.results, NoDocs)
                 /\ \A k \in Keys : /\ storage'[t].docs[k] = Final(b, k, storage[t].docs[k])
                                   /\ ~Stuck(b, k)
              \/ \E s : s # 200 /\ Return(c, s)
<1>1. pc[c] \in WriteLabels \cup {"apply_action"}
  BY StepKinds DEF Step, OrderlyInv, Steady, Inv
<1>2. /\ storage \in Storage /\ t \in Names /\ b \in Batch /\ storage[t] # NoIndex
      /\ WritableBatch(job[c].req, job[c].schema, b) /\ Knows(c)
  BY <1>1, WriterParts
<1>3. b.upserts \in DocMap /\ b.deletes \subseteq Keys
  BY <1>2 DEF Batch
<1>4. ASSUME NEW i \in 0..7, Proceed(c, i)
      PROVE  \/ \E l : Goto(c, l) /\ l \in WriteLabels /\ UNCHANGED job
             \/ /\ Answer(c, 200, b.results, NoDocs)
                /\ i < 6 => \A k \in Keys : b.upserts[k] = NoDoc
                /\ i < 7 => b.deletes = {}
  <2>1. CASE NeededAfter(c, i) = {} /\ Answer(c, 200, job[c].batch.results, NoDocs)
    <3>1. i < 6 => ~Needed(c, "storage_put")
      <4>1. 6 \in DOMAIN Phases /\ Phases[6] = "storage_put"
        BY DEF Phases
      <4>2. QED
        BY <2>1, <4>1 DEF NeededAfter
    <3>2. i < 7 => ~Needed(c, "storage_delete")
      <4>1. 7 \in DOMAIN Phases /\ Phases[7] = "storage_delete"
        BY DEF Phases
      <4>2. QED
        BY <2>1, <4>1 DEF NeededAfter
    <3>3. Needed(c, "storage_put") <=> Upserted(b) # {}
      BY DEF Needed
    <3>4. Needed(c, "storage_delete") <=> b.deletes # {}
      BY DEF Needed
    <3>5. QED
      BY <2>1, <3>1, <3>2, <3>3, <3>4 DEF Upserted
  <2>2. \A j \in NeededAfter(c, i) : Phases[j] \in WriteLabels
    BY DEF NeededAfter, Phases, WriteLabels
  <2>3. QED
    BY <1>4, <2>1, <2>2 DEF Proceed
<1> DEFINE Moves == \E l : Goto(c, l) /\ l \in WriteLabels /\ UNCHANGED job
           Settles == /\ Answer(c, 200, b.results, NoDocs)
                      /\ \A k \in Keys : /\ storage'[t].docs[k] = Final(b, k, storage[t].docs[k])
                                        /\ ~Stuck(b, k)
           Fails == \E s : s # 200 /\ Return(c, s)
           Kept == \A k \in Keys : Final(b, k, storage'[t].docs[k]) = Final(b, k, storage[t].docs[k])
           Rest == \A k \in Keys : k \notin Touches(job[c].req)
                     => storage'[t].docs[k] = storage[t].docs[k]
<1>5. ASSUME NEW i \in 0..5, Proceed(c, i), storage' = storage
      PROVE  Moves \/ Settles
  <2>1. i \in 0..7 /\ i < 6 /\ i < 7
    OBVIOUS
  <2>2. (\A k \in Keys : b.upserts[k] = NoDoc) /\ b.deletes = {} =>
          \A k \in Keys : /\ storage'[t].docs[k] = Final(b, k, storage[t].docs[k])
                         /\ ~Stuck(b, k)
    BY <1>5 DEF Final, Stuck
  <2>3. QED
    BY <1>4, <1>5, <2>1, <2>2
<1>6. ASSUME NEW s, s # 200, Return(c, s) PROVE Fails
  BY <1>6
<1> DEFINE Ends == Moves \/ Settles \/ Fails
<1> HIDE DEF Moves, Settles, Fails
<1>7. ASSUME NEW i \in 6..7, pc[c] = Phases[i], NEW k \in Keys
       PROVE  ~Stuck(b, k)
  <2>1. SUFFICES ASSUME b.upserts[k] # NoDoc
                 PROVE  b.upserts[k].vec # Null
    BY DEF Stuck
  <2>2. k \in Touches(job[c].req)
    BY <1>2, <2>1 DEF WritableBatch
  <2>3. Progress(i, b, storage[t], engine[t], vectors[t], k)
    BY <1>2, <1>7, <2>2 DEF Knows, BatchKnows
  <2>4. QED
    BY <2>1, <2>3 DEF Progress
<1>8. CASE ~(WriteStoragePut(c) \/ WriteStorageDelete(c))
  <2>1. storage' = storage /\ alias' = alias /\ Ends
    <3>1. CASE BeginWrites(c)
      BY <1>5, <3>1 DEF BeginWrites, stores
    <3>2. CASE WriteEngineDelete(c) \/ WriteEngineIndex(c)
      BY <1>5, <1>6, <3>2 DEF WriteEngineDelete, WriteEngineIndex
    <3>3. CASE WriteVectorsDelete(c) \/ WriteVectorsTrim(c)
      BY <1>5, <1>6, <3>3 DEF WriteVectorsDelete, WriteVectorsTrim
    <3>4. CASE WriteVectorsUpsert(c)
      BY <1>5, <1>6, <3>4 DEF WriteVectorsUpsert
    <3>5. QED
      BY <1>8, <3>1, <3>2, <3>3, <3>4 DEF IngestStep
  <2>2. QED
    BY <1>2, <2>1 DEF Moves, Settles, Fails
<1>9. CASE WriteStoragePut(c)
  <2> DEFINE i == 6
  <2>1. /\ Proceed(c, i) /\ i \in 0..7 /\ i < 7 /\ UNCHANGED <<engine, vectors, alias>>
        /\ pc[c] = Phases[i] /\ i \in 6..7
        /\ storage' = StoragePutDocuments(storage, t, b.upserts)
    BY <1>2, <1>9 DEF WriteStoragePut, At, Phases
  <2>2. /\ storage'[t] # NoIndex
        /\ \A n \in Names : n # t => storage'[n] = storage[n]
        /\ \A k \in Keys : storage'[t].docs[k] =
             IF b.upserts[k] # NoDoc THEN b.upserts[k] ELSE storage[t].docs[k]
    BY <1>2, <1>3, <2>1, StorageEffects
  <2>3. Kept /\ (b.deletes = {} =>
          \A k \in Keys : storage'[t].docs[k] = Final(b, k, storage[t].docs[k]))
    BY <2>2 DEF Final
  <2>4. Rest
    BY <1>2, <2>2 DEF WritableBatch
  <2> HIDE DEF i
  <2>5. Moves \/ Settles
    BY <1>4, <1>7, <2>1, <2>3 DEF Moves, Settles
  <2>6. QED
    BY <1>2, <2>1, <2>2, <2>3, <2>4, <2>5 DEF Moves, Settles
<1>10. CASE WriteStorageDelete(c)
  <2> DEFINE i == 7
  <2>1. /\ Proceed(c, i) /\ i \in 0..7 /\ pc[c] = Phases[i] /\ i \in 1..7 /\ i \in 6..7
        /\ UNCHANGED <<engine, vectors, alias>>
        /\ storage' = StorageDeleteDocuments(storage, t, b.deletes)
    BY <1>2, <1>10 DEF WriteStorageDelete, At, Phases
  <2>2. /\ storage'[t] # NoIndex
        /\ \A n \in Names : n # t => storage'[n] = storage[n]
        /\ \A k \in Keys : storage'[t].docs[k] =
             IF k \in b.deletes THEN NoDoc ELSE storage[t].docs[k]
    BY <1>2, <2>1, StorageEffects
  <2>3. \A k \in Keys : b.upserts[k] # NoDoc => storage[t].docs[k] = b.upserts[k]
    <3>1. ASSUME NEW k \in Keys, b.upserts[k] # NoDoc
          PROVE  storage[t].docs[k] = b.upserts[k]
      <4>1. k \in Touches(job[c].req)
        BY <1>2, <3>1 DEF WritableBatch
      <4>2. Progress(i, b, storage[t], engine[t], vectors[t], k)
        BY <1>2, <2>1, <4>1 DEF Knows, BatchKnows
      <4>3. QED
        BY <3>1, <4>2 DEF Progress
    <3>2. QED
      BY <3>1
  <2>4. \A k \in Keys : b.upserts[k] = NoDoc \/ k \notin b.deletes
    BY <1>2 DEF WritableBatch
  <2>5. Kept /\ \A k \in Keys : storage'[t].docs[k] = Final(b, k, storage[t].docs[k])
    BY <2>2, <2>3, <2>4 DEF Final
  <2>6. Rest
    BY <1>2, <2>2 DEF WritableBatch
  <2> HIDE DEF i
  <2>7. Moves \/ Settles
    BY <1>4, <1>7, <2>1, <2>5 DEF Moves, Settles
  <2>8. QED
    BY <1>2, <2>1, <2>2, <2>5, <2>6, <2>7 DEF Moves, Settles
<1>11. QED
  BY <1>8, <1>9, <1>10

\* A result counts for a key of the request only.
LEMMA LatestTouched ==
    ASSUME NEW r \in Request, r.op = "index", NEW rs \in Seq(Result),
           OneEach(r.actions, rs), NEW k, NEW i \in Latest(rs, k)
    PROVE  k \in Touches(r)
<1>1. r.actions \in Seq(Action)
  BY RequestParts
<1>2. i \in DOMAIN rs /\ rs[i].key = k
  BY DEF Latest
<1>3. i \in DOMAIN r.actions /\ r.actions[i].key = k
  BY <1>1, <1>2 DEF OneEach
<1>4. QED
  BY <1>3 DEF Touches

\* So the promises only depend on the documents of those keys.
LEMMA PendingKept ==
    ASSUME NEW r \in Request, r.op = "index", NEW b \in Batch, NEW old, NEW new,
           Pending(r, b, old),
           \A k \in Keys : k \in Touches(r) => Final(b, k, new[k]) = Final(b, k, old[k])
    PROVE  Pending(r, b, new)
<1>1. b.results \in Seq(Result)
  BY DEF Batch
<1>2. QED
  BY <1>1, LatestTouched DEF Pending

LEMMA ToldKept ==
    ASSUME NEW p \in Reply, p.req.op = "index", NEW old, NEW new, Told(p, old),
           old # NoIndex => /\ new # NoIndex
                            /\ \A k \in Keys : k \in Touches(p.req) => new.docs[k] = old.docs[k]
    PROVE  Told(p, new)
<1>1. p.req \in Request /\ p.results \in Seq(Result)
  BY DEF Reply
<1>2. QED
  BY <1>1, LatestTouched DEF Told

\* Next to a batch, or to one that was answered and counts, the other clients
\* leave the aliases, the indexes and the documents of its keys alone.
LEMMA OthersLeave ==
    ASSUME OrderlyInv, NEW c \in Clients, NEW d \in Clients, c # d, Start(d) \/ Step(d),
           NEW r \in Claims(c), r.op = "index", NEW n \in Names
    PROVE  /\ alias' = alias
           /\ storage[n] # NoIndex =>
                /\ storage'[n] # NoIndex
                /\ \A k \in Keys : k \in Touches(r) => storage'[n].docs[k] = storage[n].docs[k]
<1> DEFINE Leaves == /\ alias' = alias
                     /\ storage[n] # NoIndex =>
                          /\ storage'[n] # NoIndex
                          /\ \A k \in Keys : k \in Touches(r)
                               => storage'[n].docs[k] = storage[n].docs[k]
<1>1. ThreadsOK /\ Orderly
  BY DEF OrderlyInv, Steady, Inv
<1>2. UNCHANGED stores => Leaves
  BY DEF stores
<1> HIDE DEF Leaves
<1>3. CASE Start(d)
  BY <1>2, <1>3 DEF Start, Leaves
<1>4. CASE Step(d)
  <2>1. pc[d] # "idle"
    BY <1>1, <1>4, StepKinds
  <2>2. job[d].req \in Claims(d)
    BY <2>1 DEF Claims
  <2>3. Compatible(r, job[d].req)
    BY <1>1, <2>2 DEF Orderly
  <2>4. \/ job[d].req.op \in Reads
        \/ job[d].req.op = "index" /\ Touches(r) \cap Touches(job[d].req) = {}
    BY <2>3 DEF Compatible, Reads
  <2>5. ~LifecycleStep(d) /\ ~AliasStep(d)
    BY <1>1, <1>4, <2>4, StepKinds DEF Reads
  <2>6. CASE ReadStep(d) \/ ResolveName(d) \/ RequireIndex(d)
    <3>1. UNCHANGED stores
      BY <2>6 DEF ReadStep, ResolveName, RequireIndex, ParseResolve, ParseRequire,
                  SearchDocuments, SearchVectors, SearchEngine, ReadDocuments
    <3>2. QED
      BY <1>2, <3>1 DEF Leaves
  <2>7. CASE FoldAction(d)
    BY <1>2, <2>7 DEF FoldAction, Leaves
  <2>8. CASE IngestStep(d) /\ ~FoldAction(d)
    <3>1. pc[d] \in WriteLabels \cup {"apply_action"}
      BY <1>1, <1>4, <2>8, StepKinds
    <3>2. job[d].req.op = "index"
      BY <3>1, WriterParts
    <3>3. Touches(r) \cap Touches(job[d].req) = {}
      BY <2>4, <3>2 DEF Reads
    <3> DEFINE t == job[d].target
               b == job[d].batch
    <3>4. /\ alias' = alias /\ storage'[t] # NoIndex
          /\ \A m \in Names : m # t => storage'[m] = storage[m]
          /\ \A k \in Keys : k \notin Touches(job[d].req)
               => storage'[t].docs[k] = storage[t].docs[k]
      BY <2>8, WriteSettles
    <3>5. QED
      BY <3>3, <3>4
  <2>9. QED
    BY <1>4, <2>5, <2>6, <2>7, <2>8 DEF Step
<1>5. QED
  BY <1>3, <1>4

\* A step of another client.
LEMMA OthersKeepPromises ==
    ASSUME OrderlyInv, NEW c \in Clients, NEW d \in Clients, c # d, Start(d) \/ Step(d),
           Promises(c)
    PROVE  Promises(c)'
<1>1. ThreadsOK /\ alias \in Aliases
  BY DEF OrderlyInv, Steady, Inv, StoresOK
<1>2. pc'[c] = pc[c] /\ job'[c] = job[c] /\ reply'[c] = reply[c]
  BY <1>1, StepsAreOfOne DEF OthersStay
<1>3. CASE pc[c] # "idle" /\ job[c].req.op = "index"
  <2> DEFINE r == job[c].req
             t == job[c].target
  <2>1. r \in Claims(c)
    BY <1>3 DEF Claims
  <2>2. /\ r \in Request /\ t \in Names /\ job[c].batch \in Batch
    BY <1>1, <1>3, InFlightParts
  <2>3. /\ alias' = alias
        /\ storage[t] # NoIndex =>
             /\ storage'[t] # NoIndex
             /\ \A k \in Keys : k \in Touches(r) => storage'[t].docs[k] = storage[t].docs[k]
    BY <1>3, <2>1, <2>2, OthersLeave
  <2>4. ASSUME pc[c] \in WriteLabels \cup {"apply_action"}
        PROVE  Pending(r, job[c].batch, storage'[t].docs)
    <3>1. storage[t] # NoIndex
      BY <2>4, WriterParts
    <3>2. Pending(r, job[c].batch, storage[t].docs)
      BY <1>3, <2>4 DEF Promises
    <3>3. QED
      BY <1>3, <2>2, <2>3, <3>1, <3>2, PendingKept
  <2>5. QED
    BY <1>2, <1>3, <2>3, <2>4 DEF Promises
<1>4. CASE pc[c] = "idle" /\ reply[c] # NoReply /\ reply[c].req.op = "index"
             /\ reply[c].status = 200
  <2> DEFINE p == reply[c]
             n == Resolve(alias, p.req.name)
  <2>1. p \in Reply /\ p.req \in Request /\ p.req.name \in Names
    BY <1>1, <1>4, RequestParts DEF ThreadsOK, Reply
  <2>2. n \in Names
    BY <1>1, <2>1 DEF Resolve, Aliases
  <2>3. p.req \in Claims(c)
    BY <1>4 DEF Claims
  <2>4. /\ alias' = alias
        /\ storage[n] # NoIndex =>
             /\ storage'[n] # NoIndex
             /\ \A k \in Keys : k \in Touches(p.req) => storage'[n].docs[k] = storage[n].docs[k]
    BY <1>4, <2>2, <2>3, OthersLeave
  <2>5. Told(p, storage[n])
    BY <1>4 DEF Promises
  <2> DEFINE new == storage'[n]
  <2>6. Told(p, new)
    BY <1>4, <2>1, <2>4, <2>5, ToldKept
  <2>7. QED
    BY <1>2, <1>4, <2>4, <2>6 DEF Promises
<1>5. CASE pc[c] # "idle" /\ job[c].req.op # "index"
  BY <1>2, <1>5 DEF Promises
<1>6. CASE pc[c] = "idle" /\ ~(reply[c] # NoReply /\ reply[c].req.op = "index"
                                 /\ reply[c].status = 200)
  BY <1>2, <1>6 DEF Promises
<1>7. QED
  BY <1>3, <1>4, <1>5, <1>6

\* Where an answer or a move leaves the client, and what it is promised then.
LEMMA PromisesAfter ==
    ASSUME ThreadsOK, NEW c \in Clients, pc[c] # "idle", Promises(c)
    PROVE  /\ \A s, rs, ds : Answer(c, s, rs, ds) =>
                /\ pc'[c] = "idle" /\ reply'[c].req = job[c].req
                /\ reply'[c].status = s /\ reply'[c].results = rs
           /\ \A l : Goto(c, l) => pc'[c] = l /\ reply'[c] = NoReply
           /\ \A s : s # 200 /\ Return(c, s) => Promises(c)'
<1>1. ASSUME NEW s, NEW rs, NEW ds, Answer(c, s, rs, ds)
      PROVE  /\ pc'[c] = "idle" /\ reply'[c].req = job[c].req
             /\ reply'[c].status = s /\ reply'[c].results = rs
  BY <1>1 DEF Answer, ThreadsOK
<1>2. reply[c] = NoReply
  BY DEF Promises
<1>3. ASSUME NEW l, Goto(c, l)
      PROVE  pc'[c] = l /\ reply'[c] = NoReply
  BY <1>2, <1>3 DEF Goto, ThreadsOK
<1>4. ASSUME NEW s, s # 200, Return(c, s)
      PROVE  Promises(c)'
  BY <1>1, <1>4 DEF Return, Promises
<1>5. QED
  BY <1>1, <1>3, <1>4

\* An action folded into the batch.
LEMMA FoldPromises ==
    ASSUME OrderlyInv, NEW c \in Clients, FoldAction(c), Promises(c)
    PROVE  Promises(c)'
<1> DEFINE r == job[c].req
           t == job[c].target
           b == job[c].batch
           next == ApplyAction(job[c].schema, storage[t].docs, b, NextAction(c))
<1>1. pc[c] = "apply_action" /\ MoreActions(c) /\ UNCHANGED stores
  BY DEF FoldAction, At
<1>2. /\ ThreadsOK /\ storage \in Storage /\ pc[c] # "idle"
      /\ r.op = "index" /\ r \in Request /\ t \in Names /\ b \in Batch
      /\ storage[t] # NoIndex
  BY <1>1, WriterParts
<1>3. storage[t].docs \in DocMap /\ job[c].schema \in Schemas
  BY <1>1, <1>2, InFlightParts DEF Storage, IndexEntry, Fits, NoSchemaLabels
<1>4. job' = [job EXCEPT ![c].batch = next] /\ Goto(c, "apply_action")
  BY <1>2 DEF FoldAction
<1>5. t = Resolve(alias, r.name) /\ Pending(r, b, storage[t].docs)
  BY <1>1, <1>2 DEF Promises
<1>6. Pending(r, next, storage[t].docs)
  BY <1>1, <1>2, <1>3, <1>5, ActionPending DEF NextAction, MoreActions
<1> HIDE DEF next
<1>7. job'[c].req = r /\ job'[c].target = t /\ job'[c].batch = next
  <2>1. job[c] \in Job
    BY <1>2, InFlightParts
  <2>2. QED
    BY <1>2, <1>4, <2>1 DEF ThreadsOK, Job
<1>8. pc'[c] = "apply_action" /\ reply'[c] = NoReply
  BY <1>2, <1>4, PromisesAfter
<1>9. storage' = storage /\ alias' = alias
  BY <1>1 DEF stores
<1>10. QED
  BY <1>5, <1>6, <1>7, <1>8, <1>9 DEF Promises

\* A step of the write phase.
LEMMA WritePromises ==
    ASSUME OrderlyInv, NEW c \in Clients, IngestStep(c), ~FoldAction(c), Promises(c)
    PROVE  Promises(c)'
<1> DEFINE r == job[c].req
           t == job[c].target
           b == job[c].batch
           new == storage'[t]
<1>1. pc[c] \in WriteLabels \cup {"apply_action"}
  BY StepKinds DEF Step, OrderlyInv, Steady, Inv
<1>2. /\ ThreadsOK /\ pc[c] # "idle" /\ r.op = "index" /\ r \in Request
      /\ t \in Names /\ b \in Batch
  BY <1>1, WriterParts
<1>3. t = Resolve(alias, r.name) /\ Pending(r, b, storage[t].docs)
  BY <1>1, <1>2 DEF Promises, WriteLabels
<1>4. /\ alias' = alias /\ new # NoIndex
      /\ \A k \in Keys : Final(b, k, new.docs[k]) = Final(b, k, storage[t].docs[k])
      /\ \/ \E l : Goto(c, l) /\ l \in WriteLabels /\ UNCHANGED job
         \/ /\ Answer(c, 200, b.results, NoDocs)
            /\ \A k \in Keys : /\ new.docs[k] = Final(b, k, storage[t].docs[k])
                              /\ ~Stuck(b, k)
         \/ \E s : s # 200 /\ Return(c, s)
  BY WriteSettles
<1>5. Pending(r, b, new.docs)
  <2> DEFINE docs == new.docs
  <2>1. \A k \in Keys : Final(b, k, docs[k]) = Final(b, k, storage[t].docs[k])
    BY <1>4
  <2> HIDE DEF docs
  <2>2. Pending(r, b, docs)
    BY <1>2, <1>3, <2>1, PendingKept
  <2>3. QED
    BY <2>2 DEF docs
<1>6. ASSUME NEW l \in WriteLabels, Goto(c, l), UNCHANGED job
      PROVE  Promises(c)'
  <2>1. pc'[c] = l /\ reply'[c] = NoReply /\ job'[c] = job[c]
    BY <1>2, <1>6, PromisesAfter
  <2>2. QED
    BY <1>3, <1>4, <1>5, <2>1 DEF Promises
<1>7. ASSUME Answer(c, 200, b.results, NoDocs),
             \A k \in Keys : new.docs[k] = Final(b, k, storage[t].docs[k]) /\ ~Stuck(b, k)
      PROVE  Promises(c)'
  <2>1. /\ pc'[c] = "idle" /\ reply'[c].req = r
        /\ reply'[c].status = 200 /\ reply'[c].results = b.results
    BY <1>2, <1>7, PromisesAfter
  <2>2. OneEach(r.actions, b.results)
        /\ \A k \in Keys : \A i \in Latest(b.results, k) :
             new # NoIndex /\ Honours(new.docs[k], r.actions[i])
    BY <1>3, <1>4, <1>7 DEF Pending
  <2>3. Told(reply'[c], new)
    BY <2>1, <2>2 DEF Told
  <2>4. QED
    BY <1>3, <1>4, <2>1, <2>3 DEF Promises
<1>8. QED
  BY <1>2, <1>4, <1>6, <1>7, PromisesAfter

\* A step of the client's own.
LEMMA OwnPromises ==
    ASSUME OrderlyInv, NEW c \in Clients, Start(c) \/ Step(c), Promises(c)
    PROVE  Promises(c)'
<1>1. ThreadsOK /\ Fresh
  BY DEF OrderlyInv, Steady, Inv
<1>2. CASE Start(c)
  <2>1. PICK r \in Workload[c] : /\ job' = [job EXCEPT ![c] = NewJob(r)]
                                 /\ pc' = [pc EXCEPT ![c] = Entry(r.op)]
                                 /\ reply' = [reply EXCEPT ![c] = NoReply]
    BY <1>2 DEF Start
  <2>2. job'[c].req = r /\ pc'[c] = Entry(r.op) /\ reply'[c] = NoReply
    BY <1>1, <2>1 DEF NewJob, ThreadsOK
  <2>3. r.op = "index" => Entry(r.op) = "resolve"
    BY DEF Entry
  <2>4. QED
    BY <2>2, <2>3 DEF Promises, WriteLabels
<1>3. ASSUME Step(c), job[c].req.op # "index"
      PROVE  Promises(c)'
  <2>1. pc[c] # "idle"
    BY <1>1, <1>3, StepKinds
  <2>2. CASE \E s, rs, ds : Answer(c, s, rs, ds)
    BY <1>1, <1>3, <2>1, <2>2, PromisesAfter DEF Promises
  <2>3. CASE \E l : Goto(c, l) /\ job'[c].req = job[c].req
    BY <1>1, <1>3, <2>1, <2>3, PromisesAfter DEF Promises
  <2>4. QED
    BY <1>1, <1>3, <2>1, <2>2, <2>3, StepShape
<1>4. ASSUME ResolveName(c), job[c].req.op = "index"
      PROVE  Promises(c)'
  <2>1. pc[c] # "idle" /\ job[c] \in Job
    BY <1>1, <1>4, InFlightParts DEF ResolveName, At
  <2>2. Goto(c, "require") /\ alias' = alias
    BY <1>4 DEF ResolveName, stores
  <2>3. job'[c].req = job[c].req /\ job'[c].target = Resolve(alias, job[c].req.name)
    BY <1>1, <1>4, <2>1 DEF ResolveName, ThreadsOK, Job
  <2>4. pc'[c] = "require" /\ reply'[c] = NoReply
    BY <1>1, <2>1, <2>2, PromisesAfter
  <2>5. QED
    BY <2>2, <2>3, <2>4 DEF Promises, WriteLabels
<1>5. ASSUME RequireIndex(c), job[c].req.op = "index"
      PROVE  Promises(c)'
  <2>1. pc[c] = "require" /\ job[c] \in Job
    BY <1>1, <1>5, InFlightParts DEF RequireIndex, At
  <2>2. CASE Return(c, 404)
    BY <1>1, <2>1, <2>2, PromisesAfter
  <2>3. CASE ~Return(c, 404)
    <3>1. /\ Goto(c, "apply_action") /\ UNCHANGED stores
          /\ job' = [job EXCEPT ![c].schema = storage[job[c].target].schema]
      BY <1>5, <2>3 DEF RequireIndex
    <3>2. /\ job'[c].req = job[c].req /\ job'[c].target = job[c].target
          /\ job'[c].batch = job[c].batch
      BY <1>1, <2>1, <3>1 DEF ThreadsOK, Job
    <3>3. pc'[c] = "apply_action" /\ reply'[c] = NoReply
      BY <1>1, <2>1, <3>1, PromisesAfter
    <3>4. job[c].batch = EmptyBatch
      BY <1>1, <2>1 DEF Fresh, FreshLabels
    <3>5. job[c].target = Resolve(alias, job[c].req.name)
      BY <1>5, <2>1 DEF Promises
    <3>6. job[c].req.actions \in Seq(Action)
      BY <1>5, <2>1, RequestParts DEF Job
    <3>7. \A docs : Pending(job[c].req, EmptyBatch, docs)
      BY <3>6 DEF Pending, OneEach, Latest, EmptyBatch
    <3>8. QED
      BY <3>1, <3>2, <3>3, <3>4, <3>5, <3>7 DEF Promises, stores
  <2>4. QED
    BY <2>2, <2>3
<1>6. ASSUME Step(c), job[c].req.op = "index"
      PROVE  Promises(c)'
  <2>1. ~LifecycleStep(c) /\ ~ReadStep(c) /\ ~AliasStep(c)
    BY <1>1, <1>6, StepKinds DEF Reads
  <2>2. QED
    BY <1>4, <1>5, <1>6, <2>1, FoldPromises, WritePromises DEF Step
<1>7. QED
  BY <1>2, <1>3, <1>6

LEMMA StepsKeepPromises ==
    OrderlyInv /\ PromisesInv /\ [Next /\ Orderly']_vars => PromisesInv'
<1> SUFFICES ASSUME OrderlyInv, PromisesInv, [Next /\ Orderly']_vars
             PROVE  PromisesInv'
  OBVIOUS
<1>1. CASE UNCHANGED vars
  BY <1>1 DEF PromisesInv, Promises, vars
<1>2. ASSUME NEW d \in Clients, Start(d) \/ Step(d), NEW c \in Clients
      PROVE  Promises(c)'
  BY <1>2, OwnPromises, OthersKeepPromises DEF PromisesInv
<1>3. QED
  BY <1>1, <1>2 DEF Next, PromisesInv

LEMMA InitPromises == Init => PromisesInv
BY DEF Init, PromisesInv, Promises

\* An acknowledged batch stays acknowledged by the documents: until its client
\* sends something else, storage holds under each key what the last successful
\* action on it said, whatever the other clients do next to it.
THEOREM AcknowledgedWritesStay == OrderlySpec => []AcknowledgedWritesHold
<1>1. Init => PromisesInv
  BY InitPromises
<1>2. OrderlyInv /\ PromisesInv /\ [Next /\ Orderly']_vars => PromisesInv'
  BY StepsKeepPromises
<1>3. PromisesInv => AcknowledgedWritesHold
  <2> SUFFICES ASSUME PromisesInv, NEW c \in Clients, reply[c] # NoReply,
                      reply[c].req.op = "index", reply[c].status = 200,
                      NEW k \in Keys, NEW a \in LastWrite(c, k)
               PROVE  LET n == Resolve(alias, reply[c].req.name)
                      IN  storage[n] # NoIndex /\ Honours(storage[n].docs[k], a)
    BY DEF AcknowledgedWritesHold
  <2>1. Told(reply[c], storage[Resolve(alias, reply[c].req.name)])
    BY DEF PromisesInv, Promises
  <2>2. PICK i \in Latest(reply[c].results, k) : a = reply[c].req.actions[i]
    BY DEF LastWrite, Latest
  <2>3. QED
    BY <2>1, <2>2 DEF Told
<1>4. QED
  BY <1>1, <1>2, <1>3, OrderlyInvHolds, PTL DEF OrderlySpec

-----------------------------------------------------------------------------
(* Folding a batch *)

\* A set of natural numbers up to n has a least one: the sets 1..i are ordered
\* by inclusion as the numbers i are by size.
LEMMA LeastExists ==
    ASSUME NEW n \in Nat, NEW B, B \subseteq 0..n, B # {}
    PROVE  \E i \in B : \A j \in B : i <= j
<1> DEFINE R == StrictSubsetOrdering(1..n)
           T == {1..i : i \in B}
<1>1. IsFiniteSet(1..n)
  BY FS_Interval
<1>2. FiniteSubsetsOf(1..n) = SUBSET (1..n)
  BY <1>1, FS_FiniteSubsetsOfFinite
<1>3. IsWellFoundedOn(R, SUBSET (1..n))
  BY <1>2, FS_StrictSubsetOrderingWellFounded
<1>4. T \subseteq SUBSET (1..n) /\ T # {}
  <2>1. \A i \in 0..n : 1..i \subseteq 1..n
    OBVIOUS
  <2>2. QED
    BY <2>1
<1> HIDE DEF R, T
<1>5. PICK x \in T : \A y \in T : ~(<<y, x>> \in R)
  BY <1>3, <1>4, WFMin
<1>6. PICK i \in B : x = 1..i
  BY DEF T
<1>7. ASSUME NEW j \in B, j < i
      PROVE  FALSE
  <2>1. i \in 1..i /\ i \notin 1..j /\ 1..j \subseteq 1..i
    BY <1>7
  <2>2. 1..j \in T /\ 1..j \in SUBSET (1..n) /\ 1..i \in SUBSET (1..n)
    BY <1>4, <1>6 DEF T
  <2>3. <<1..j, 1..i>> \in R
    BY <2>1, <2>2 DEF R, StrictSubsetOrdering
  <2>4. QED
    BY <1>5, <1>6, <2>2, <2>3
<1>8. \A j \in B : i <= j
  BY <1>7
<1>9. QED
  BY <1>8

\* Of the stored documents an action reads the one under its key only.
LEMMA ActionReads ==
    ASSUME NEW s, NEW b, NEW a, NEW stored, NEW other, stored[a.key] = other[a.key]
    PROVE  ApplyAction(s, stored, b, a) = ApplyAction(s, other, b, a)
BY DEF ApplyAction, ApplyMerge, ApplyDelete, MergeTarget

\* The stages of a batch are what their definition says: they exist as far as
\* every action, or there would be a first one they do not reach.
LEMMA StagesDefined ==
    ASSUME NEW s, NEW docs, NEW actions \in Seq(Action)
    PROVE  LET f == Stages(s, docs, actions)
           IN  f = [i \in 0..Len(actions) |->
                      IF i = 0 THEN EmptyBatch ELSE ApplyAction(s, docs, f[i - 1], actions[i])]
<1> DEFINE n == Len(actions)
           After(b, i) == ApplyAction(s, docs, b, actions[i])
           Reach(f, m) == f = [i \in 0..m |-> IF i = 0 THEN EmptyBatch ELSE After(f[i - 1], i)]
           B == {m \in 0..n : ~\E f : Reach(f, m)}
<1>1. n \in Nat
  OBVIOUS
<1>2. Stages(s, docs, actions) = CHOOSE f : Reach(f, n)
  BY DEF Stages
<1>3. ASSUME B # {}
      PROVE  FALSE
  <2>1. PICK m \in B : \A j \in B : m <= j
    BY <1>1, <1>3, LeastExists
  <2>2. m # 0
    <3> DEFINE f == [i \in 0..0 |-> EmptyBatch]
    <3>1. Reach(f, 0)
      OBVIOUS
    <3>2. QED
      BY <2>1, <3>1
  <2>3. m \in 0..n /\ m - 1 \in 0..n /\ m - 1 \notin B
    <3>1. m \in 0..n
      BY <2>1
    <3>2. m - 1 \in 0..n /\ ~(m <= m - 1)
      BY <1>1, <2>2, <3>1
    <3> HIDE DEF B
    <3>3. m - 1 \notin B
      BY <2>1, <3>2
    <3>4. QED
      BY <3>1, <3>2, <3>3
  <2>4. PICK f : Reach(f, m - 1)
    BY <2>3
  <2> HIDE DEF After
  <2> DEFINE g == [i \in 0..m |-> IF i = m THEN After(f[m - 1], m) ELSE f[i]]
  <2>5. Reach(g, m)
    <3>1. \A i \in 0..m : i # 0 => i - 1 \in 0..(m - 1) /\ i - 1 \in 0..m /\ i - 1 # m
      BY <2>3
    <3>2. \A i \in 0..(m - 1) : g[i] = f[i]
      BY <2>3
    <3>3. g[m] = After(f[m - 1], m)
      BY <2>3
    <3>4. \A i \in 0..(m - 1) : f[i] = IF i = 0 THEN EmptyBatch ELSE After(f[i - 1], i)
      BY <2>4
    <3> HIDE DEF g
    <3>5. ASSUME NEW i \in 0..m
          PROVE  g[i] = IF i = 0 THEN EmptyBatch ELSE After(g[i - 1], i)
      <4>1. CASE i = m
        BY <2>2, <2>3, <3>1, <3>2, <3>3, <4>1
      <4>2. CASE i # m
        <5>1. i \in 0..(m - 1)
          BY <2>3, <4>2
        <5>2. i # 0 => i - 1 \in 0..(m - 1)
          BY <3>1
        <5>3. QED
          BY <3>2, <3>4, <5>1, <5>2
      <4>3. QED
        BY <4>1, <4>2
    <3>6. g = [i \in 0..m |-> g[i]]
      BY DEF g
    <3>7. QED
      BY <3>5, <3>6
  <2>6. QED
    BY <2>1, <2>5
<1>4. \E f : Reach(f, n)
  BY <1>1, <1>3
<1> HIDE DEF Reach
<1>5. Reach(CHOOSE f : Reach(f, n), n)
  BY <1>4
<1>6. QED
  BY <1>2, <1>5 DEF Reach

\* So they depend on the documents under the keys of the actions only.
LEMMA StagesDepend ==
    ASSUME NEW s, NEW actions \in Seq(Action), NEW docs, NEW other,
           \A i \in DOMAIN actions : docs[actions[i].key] = other[actions[i].key]
    PROVE  Stages(s, docs, actions) = Stages(s, other, actions)
<1> DEFINE n == Len(actions)
           f == Stages(s, docs, actions)
           g == Stages(s, other, actions)
           B == {i \in 0..n : f[i] # g[i]}
<1>1. n \in Nat /\ DOMAIN actions = 1..n
  OBVIOUS
<1>2. /\ f = [i \in 0..n |-> IF i = 0 THEN EmptyBatch
                             ELSE ApplyAction(s, docs, f[i - 1], actions[i])]
      /\ g = [i \in 0..n |-> IF i = 0 THEN EmptyBatch
                             ELSE ApplyAction(s, other, g[i - 1], actions[i])]
  BY StagesDefined
<1> HIDE DEF f, g
<1>3. ASSUME B # {}
      PROVE  FALSE
  <2>1. PICK i \in B : \A j \in B : i <= j
    BY <1>1, <1>3, LeastExists
  <2>2. i # 0
    BY <1>1, <1>2, <2>1
  <2>3. i \in 1..n /\ i - 1 \in 0..n /\ i - 1 \notin B
    BY <1>1, <2>1, <2>2
  <2>4. f[i - 1] = g[i - 1]
    BY <2>3
  <2>5. ApplyAction(s, docs, f[i - 1], actions[i]) = ApplyAction(s, other, f[i - 1], actions[i])
    BY <1>1, <2>3, ActionReads
  <2>6. f[i] = g[i]
    BY <1>2, <2>2, <2>3, <2>4, <2>5
  <2>7. QED
    BY <2>1, <2>6
<1>4. \A i \in 0..n : f[i] = g[i]
  BY <1>3
<1>5. f = [i \in 0..n |-> f[i]] /\ g = [i \in 0..n |-> g[i]]
  BY <1>2
<1>6. f = g
  BY <1>4, <1>5
<1>7. QED
  BY <1>6 DEF f, g

\* For a request these are the keys it may write.
LEMMA StagesOfRequest ==
    ASSUME NEW r \in Request, r.op = "index", NEW s, NEW docs, NEW other,
           \A k \in Keys : k \in Touches(r) => docs[k] = other[k]
    PROVE  Stages(s, docs, r.actions) = Stages(s, other, r.actions)
<1> DEFINE actions == r.actions
<1>1. actions \in Seq(Action)
  BY RequestParts
<1>2. \A m \in DOMAIN actions : actions[m].key \in Touches(r)
  BY DEF Touches
<1> HIDE DEF actions
<1>3. ASSUME NEW m \in DOMAIN actions
      PROVE  docs[actions[m].key] = other[actions[m].key]
  <2>1. actions[m] \in Action
    BY <1>1
  <2>2. actions[m].key \in Keys
    BY <2>1 DEF Action
  <2>3. QED
    BY <1>2, <2>2
<1>4. Stages(s, docs, actions) = Stages(s, other, actions)
  BY <1>1, <1>3, StagesDepend
<1>5. QED
  BY <1>4 DEF actions

-----------------------------------------------------------------------------
(* What a request in flight will have done to the catalog *)

\* It is one of its client's, and an update or a create works with the
\* definition it was sent with.
Requested(c) ==
    pc[c] # "idle" =>
        /\ job[c].req \in Workload[c]
        /\ job[c].req.op \in {"create", "put"} => job[c].schema = job[c].req.schema

\* An update about to discard the stored documents holds those it will keep.
Preserves(c) ==
    pc[c] = "replace_storage" =>
        LET old == storage[job[c].target]
        IN  job[c].docs = IF old # NoIndex /\ SchemaCompatible(old.schema, job[c].schema)
                          THEN old.docs ELSE NoDocs

\* A batch that has not been stored yet is what its actions make of the
\* documents stored now.
Folded(c) ==
    pc[c] \in (WriteLabels \cup {"apply_action"}) \ {"storage_delete"} =>
        LET done == Len(job[c].batch.results)
            actions == job[c].req.actions
        IN  /\ done <= Len(actions)
            /\ pc[c] # "apply_action" => done = Len(actions)
            /\ job[c].batch =
                 Stages(job[c].schema, storage[job[c].target].docs, actions)[done]

CatalogInv == \A c \in Clients : Requested(c) /\ Preserves(c) /\ Folded(c)

\* A request that only reads changes no store.
LEMMA ReadersChangeNothing ==
    ASSUME ThreadsOK, NEW c \in Clients, Step(c), job[c].req.op \in Reads
    PROVE  UNCHANGED stores
<1>1. pc[c] # "idle" /\ ~LifecycleStep(c) /\ ~AliasStep(c)
  BY StepKinds DEF Reads
<1>2. ~IngestStep(c)
  BY <1>1, StepKinds, LabelsByKind DEF KnowingLabels
<1>3. QED
  BY <1>1, <1>2 DEF Step, ReadStep, ResolveName, RequireIndex, ParseResolve, ParseRequire,
                    SearchDocuments, SearchVectors, SearchEngine, ReadDocuments

\* Next to a request that writes whole indexes or names nothing is written.
LEMMA OthersChangeNothing ==
    ASSUME Orderly, ThreadsOK, NEW c \in Clients, NEW d \in Clients, c # d,
           pc[c] # "idle", job[c].req.op \in Exclusive, Start(d) \/ Step(d)
    PROVE  UNCHANGED stores
<1>1. CASE Start(d)
  BY <1>1 DEF Start
<1>2. CASE Step(d)
  BY <1>2, StepKinds, Neighbours, ReadersChangeNothing
<1>3. QED
  BY <1>1, <1>2

\* A step of another client.
LEMMA OthersKeepCatalogInv ==
    ASSUME OrderlyInv, NEW c \in Clients, NEW d \in Clients, c # d, Start(d) \/ Step(d),
           Requested(c), Preserves(c), Folded(c)
    PROVE  (Requested(c) /\ Preserves(c) /\ Folded(c))'
<1>1. ThreadsOK /\ Orderly
  BY DEF OrderlyInv, Steady, Inv
<1>2. pc'[c] = pc[c] /\ job'[c] = job[c]
  BY <1>1, StepsAreOfOne DEF OthersStay
<1>3. Requested(c)'
  BY <1>2 DEF Requested
<1>4. Preserves(c)'
  <2>1. CASE pc[c] = "replace_storage"
    <3>1. job[c].req.op \in Exclusive
      BY <1>1, <2>1, InFlightParts, LabelKinds DEF Exclusive
    <3>2. storage' = storage
      BY <1>1, <2>1, <3>1, OthersChangeNothing DEF stores
    <3>3. QED
      BY <1>2, <3>2 DEF Preserves
  <2>2. QED
    BY <1>2, <2>1 DEF Preserves
<1>5. Folded(c)'
  <2> DEFINE Open == (WriteLabels \cup {"apply_action"}) \ {"storage_delete"}
             t == job[c].target
             s == job[c].schema
             actions == job[c].req.actions
             done == Len(job[c].batch.results)
             old == storage[t].docs
             new == storage'[t].docs
  <2>1. CASE pc[c] \in Open
    <3>1. /\ pc[c] # "idle" /\ job[c].req.op = "index" /\ t \in Names /\ storage[t] # NoIndex
          /\ job[c].req \in Request /\ job[c].batch \in Batch
      BY <2>1, WriterParts
    <3>2. actions \in Seq(Action) /\ done \in Nat
      BY <3>1, RequestParts DEF Batch
    <3>3. job[c].req \in Claims(c)
      BY <3>1 DEF Claims
    <3>4. \A k \in Keys : k \in Touches(job[c].req) => new[k] = old[k]
      BY <3>1, <3>3, OthersLeave
    <3>5. /\ done <= Len(actions)
          /\ pc[c] # "apply_action" => done = Len(actions)
          /\ job[c].batch = Stages(s, old, actions)[done]
      BY <2>1 DEF Folded
    <3> HIDE DEF old, new, done
    <3>6. Stages(s, old, actions) = Stages(s, new, actions)
      BY <3>1, <3>4, StagesOfRequest
    <3>7. QED
      BY <1>2, <3>5, <3>6 DEF Folded, done, new
  <2>2. QED
    BY <1>2, <2>1 DEF Folded
<1>6. QED
  BY <1>3, <1>4, <1>5

\* An action records a document, or a deletion, or only answers.
LEMMA ActionShape ==
    ASSUME NEW s, NEW stored, NEW b, NEW a, a.kind \in Kinds
    PROVE  LET next == ApplyAction(s, stored, b, a)
           IN  \/ \E d, status : next = Respond(RecordUpsert(b, a.key, d), a.key, status)
               \/ \E status : next = Respond(RecordDelete(b, a.key), a.key, status)
               \/ \E status : next = Respond(b, a.key, status)
BY DEF ApplyAction, ApplyUpload, ApplyMerge, ApplyDelete, UpsertIfValid, Kinds

\* Every action gets one result.
LEMMA ActionAnswers ==
    ASSUME NEW s, NEW stored \in DocMap, NEW b \in Batch, NEW a \in Action
    PROVE  Len(ApplyAction(s, stored, b, a).results) = Len(b.results) + 1
<1> DEFINE next == ApplyAction(s, stored, b, a)
<1>1. b.results \in Seq(Result)
  BY DEF Batch
<1>2. ASSUME NEW x, NEW status, x.results = b.results, DOMAIN x = DOMAIN b
      PROVE  Len(Respond(x, a.key, status).results) = Len(b.results) + 1
  <2> DEFINE res == [key |-> a.key, status |-> status]
  <2>1. Respond(x, a.key, status).results = Append(b.results, res)
    BY <1>2 DEF Respond, Batch
  <2> HIDE DEF res
  <2>2. QED
    BY <1>1, <2>1
<1>3. \A d : RecordUpsert(b, a.key, d).results = b.results
             /\ DOMAIN RecordUpsert(b, a.key, d) = DOMAIN b
  BY DEF RecordUpsert, Batch
<1>4. RecordDelete(b, a.key).results = b.results /\ DOMAIN RecordDelete(b, a.key) = DOMAIN b
  BY DEF RecordDelete, Batch
<1>5. \/ \E d, status : next = Respond(RecordUpsert(b, a.key, d), a.key, status)
      \/ \E status : next = Respond(RecordDelete(b, a.key), a.key, status)
      \/ \E status : next = Respond(b, a.key, status)
  BY ActionShape DEF Action
<1> HIDE DEF next
<1>6. Len(next.results) = Len(b.results) + 1
  BY <1>2, <1>3, <1>4, <1>5
<1>7. QED
  BY <1>6 DEF next

\* The first action of a batch is still to come.
LEMMA RequireFolded ==
    ASSUME OrderlyInv, NEW c \in Clients, RequireIndex(c), job[c].req.op = "index"
    PROVE  Folded(c)'
<1>1. ThreadsOK /\ Fresh
  BY DEF OrderlyInv, Steady, Inv
<1>2. pc[c] = "require" /\ job[c] \in Job /\ job[c].req \in Request
  BY <1>1, InFlightParts DEF RequireIndex, At
<1>3. CASE Return(c, 404)
  <2>1. pc'[c] = "idle"
    BY <1>1, <1>3 DEF Return, Answer, ThreadsOK
  <2>2. QED
    BY <2>1 DEF Folded, WriteLabels
<1>4. CASE ~Return(c, 404)
  <2> DEFINE actions == job[c].req.actions
             f == Stages(job'[c].schema, storage'[job'[c].target].docs, actions)
  <2>1. /\ Goto(c, "apply_action")
        /\ job' = [job EXCEPT ![c].schema = storage[job[c].target].schema]
    BY <1>4 DEF RequireIndex
  <2>2. pc'[c] = "apply_action" /\ job'[c].req = job[c].req /\ job'[c].batch = job[c].batch
    BY <1>1, <1>2, <2>1 DEF ThreadsOK, Job, Goto
  <2>3. job[c].batch = EmptyBatch
    BY <1>1, <1>2 DEF Fresh, FreshLabels
  <2>4. actions \in Seq(Action)
    BY <1>2, RequestParts
  <2>5. Len(EmptyBatch.results) = 0 /\ Len(actions) \in Nat
    BY <2>4 DEF EmptyBatch
  <2> HIDE DEF actions
  <2>6. f = [i \in 0..Len(actions) |->
               IF i = 0 THEN EmptyBatch
               ELSE ApplyAction(job'[c].schema, storage'[job'[c].target].docs,
                                f[i - 1], actions[i])]
    BY <2>4, StagesDefined
  <2> HIDE DEF f
  <2>7. f[0] = EmptyBatch
    BY <2>5, <2>6
  <2>8. QED
    BY <2>2, <2>3, <2>5, <2>7 DEF Folded, f, actions
<1>5. QED
  BY <1>3, <1>4

\* An action folded into the batch takes it to its next stage.
LEMMA FoldFolded ==
    ASSUME OrderlyInv, NEW c \in Clients, FoldAction(c), Folded(c)
    PROVE  Folded(c)'
<1> DEFINE r == job[c].req
           t == job[c].target
           b == job[c].batch
           s == job[c].schema
           actions == r.actions
           done == Len(b.results)
           docs == storage[t].docs
           f == Stages(s, docs, actions)
           next == ApplyAction(s, docs, b, actions[done + 1])
<1>1. pc[c] = "apply_action" /\ MoreActions(c) /\ UNCHANGED stores
  BY DEF FoldAction, At
<1>2. /\ ThreadsOK /\ storage \in Storage /\ pc[c] # "idle"
      /\ r.op = "index" /\ r \in Request /\ t \in Names /\ b \in Batch
      /\ storage[t] # NoIndex /\ job[c] \in Job
  BY <1>1, WriterParts, InFlightParts
<1>3. docs \in DocMap /\ actions \in Seq(Action) /\ b.results \in Seq(Result)
  BY <1>2, RequestParts DEF Storage, IndexEntry, Batch
<1>4. job' = [job EXCEPT ![c].batch = next] /\ Goto(c, "apply_action")
  BY <1>2 DEF FoldAction, NextAction
<1>5. done < Len(actions) /\ b = f[done]
  BY <1>1 DEF Folded, MoreActions
<1>6. actions[done + 1] \in Action
  BY <1>1, <1>2, NextActionIsItsOwn DEF NextAction
<1>7. Len(next.results) = done + 1
  BY <1>2, <1>3, <1>6, ActionAnswers
<1> HIDE DEF actions
<1>8. f = [i \in 0..Len(actions) |->
             IF i = 0 THEN EmptyBatch ELSE ApplyAction(s, docs, f[i - 1], actions[i])]
  BY <1>3, StagesDefined
<1>9. done \in Nat /\ Len(actions) \in Nat
  BY <1>3
<1> HIDE DEF f, done
<1>10. next = f[done + 1]
  <2>1. done + 1 \in 0..Len(actions) /\ done + 1 # 0 /\ (done + 1) - 1 = done
    BY <1>5, <1>9
  <2>2. f[done + 1] = ApplyAction(s, docs, f[done], actions[done + 1])
    BY <1>8, <2>1
  <2>3. QED
    BY <1>5, <2>2
<1> HIDE DEF next
<1>11. /\ pc'[c] = "apply_action" /\ storage' = storage
       /\ job'[c].req = r /\ job'[c].target = t /\ job'[c].schema = s /\ job'[c].batch = next
  BY <1>1, <1>2, <1>4 DEF ThreadsOK, Job, Goto, stores
<1>12. Len(next.results) <= Len(actions)
  BY <1>5, <1>7, <1>9
<1>13. QED
  BY <1>7, <1>10, <1>11, <1>12 DEF Folded, f, actions

\* The write phase keeps the batch.
LEMMA WriteFolded ==
    ASSUME OrderlyInv, NEW c \in Clients, IngestStep(c), ~FoldAction(c), Folded(c)
    PROVE  Folded(c)'
<1> DEFINE Open == (WriteLabels \cup {"apply_action"}) \ {"storage_delete"}
           actions == job[c].req.actions
           done == Len(job[c].batch.results)
<1>1. pc[c] \in WriteLabels \cup {"apply_action"}
  BY StepKinds DEF Step, OrderlyInv, Steady, Inv
<1>2. /\ ThreadsOK /\ pc[c] # "idle" /\ job[c].req.op = "index" /\ job[c].req \in Request
      /\ job[c].batch \in Batch
  BY <1>1, WriterParts
<1>3. done \in Nat /\ Len(actions) \in Nat
  BY <1>2, RequestParts DEF Batch
<1>4. ASSUME NEW st, NEW rs, NEW ds, Answer(c, st, rs, ds) PROVE Folded(c)'
  <2>1. pc'[c] = "idle"
    BY <1>2, <1>4 DEF Answer, ThreadsOK
  <2>2. QED
    BY <2>1 DEF Folded, WriteLabels
<1>5. ASSUME NEW st, Return(c, st) PROVE Folded(c)'
  BY <1>4, <1>5 DEF Return
<1>6. ASSUME NEW l, Goto(c, l), UNCHANGED job, l # "apply_action",
             l \notin Open \/ (storage' = storage /\ pc[c] \in Open /\ done = Len(actions))
      PROVE  Folded(c)'
  <2>1. pc'[c] = l
    BY <1>2, <1>6 DEF Goto, ThreadsOK
  <2>2. QED
    BY <1>3, <1>6, <2>1 DEF Folded
<1>7. ASSUME NEW i \in 0..7, Proceed(c, i),
             i >= 6 \/ (storage' = storage /\ pc[c] \in Open /\ done = Len(actions))
      PROVE  Folded(c)'
  <2>1. CASE \E rs : Answer(c, 200, rs, NoDocs)
    BY <1>4, <2>1
  <2>2. ASSUME NEW j \in NeededAfter(c, i), Goto(c, Phases[j]), UNCHANGED job
        PROVE  Folded(c)'
    <3>1. Phases[j] # "apply_action"
      BY DEF NeededAfter, Phases
    <3>2. i >= 6 => Phases[j] = "storage_delete"
      BY DEF NeededAfter, Phases
    <3>3. QED
      BY <1>6, <1>7, <2>2, <3>1, <3>2
  <2>3. QED
    BY <1>7, <2>1, <2>2 DEF Proceed
<1>8. pc[c] \in Open \ {"apply_action"} => done = Len(actions)
  BY DEF Folded
<1>9. CASE BeginWrites(c)
  <2>1. pc[c] = "apply_action" /\ ~MoreActions(c) /\ storage' = storage
    BY <1>9 DEF BeginWrites, At, stores
  <2>2. done = Len(actions)
    BY <1>3, <2>1 DEF Folded, MoreActions
  <2>3. QED
    BY <1>7, <1>9, <2>1, <2>2 DEF BeginWrites
<1>10. CASE WriteEngineDelete(c)
  BY <1>5, <1>7, <1>8, <1>10 DEF WriteEngineDelete, At, WriteLabels
<1>11. CASE WriteEngineIndex(c)
  BY <1>5, <1>7, <1>8, <1>11 DEF WriteEngineIndex, At, WriteLabels
<1>12. CASE WriteVectorsDelete(c)
  BY <1>5, <1>7, <1>8, <1>12 DEF WriteVectorsDelete, At, WriteLabels
<1>13. CASE WriteVectorsTrim(c)
  BY <1>5, <1>7, <1>8, <1>13 DEF WriteVectorsTrim, At, WriteLabels
<1>14. CASE WriteVectorsUpsert(c)
  BY <1>5, <1>7, <1>8, <1>14 DEF WriteVectorsUpsert, At, WriteLabels
<1>15. CASE WriteStoragePut(c)
  BY <1>5, <1>7, <1>15 DEF WriteStoragePut
<1>16. CASE WriteStorageDelete(c)
  BY <1>5, <1>7, <1>16 DEF WriteStorageDelete
<1>17. QED
  BY <1>9, <1>10, <1>11, <1>12, <1>13, <1>14, <1>15, <1>16 DEF IngestStep

\* A step of the client's own.
LEMMA OwnCatalogInv ==
    ASSUME OrderlyInv, NEW c \in Clients, Start(c) \/ Step(c),
           Requested(c), Preserves(c), Folded(c)
    PROVE  (Requested(c) /\ Preserves(c) /\ Folded(c))'
<1> DEFINE All == Requested(c)' /\ Preserves(c)' /\ Folded(c)'
<1> SUFFICES All
  OBVIOUS
<1>1. ThreadsOK /\ Fresh /\ Inv
  BY DEF OrderlyInv, Steady, Inv
<1>2. ASSUME NEW x, NEW rs, NEW ds, Answer(c, x, rs, ds) PROVE All
  <2>1. pc'[c] = "idle"
    BY <1>1, <1>2 DEF Answer, ThreadsOK
  <2>2. QED
    BY <2>1 DEF Requested, Preserves, Folded, WriteLabels
<1> HIDE DEF All
<1>3. CASE Start(c)
  <2>1. PICK r \in Workload[c] : /\ job' = [job EXCEPT ![c] = NewJob(r)]
                                 /\ pc' = [pc EXCEPT ![c] = Entry(r.op)]
    BY <1>3 DEF Start
  <2>2. r \in Request
    BY WorkloadAssumption
  <2>3. r.op \in {"create", "put", "delete", "index", "search", "get", "count",
                  "createAlias", "putAlias", "deleteAlias", "reset"}
    BY <2>2, RequestParts
  <2>4. Entry(r.op) \notin WriteLabels \cup {"apply_action", "replace_storage"}
    BY <2>3 DEF Entry, WriteLabels
  <2>5. /\ job'[c].req = r /\ pc'[c] = Entry(r.op)
        /\ r.op \in {"create", "put"} => job'[c].schema = r.schema
    BY <1>1, <2>1 DEF NewJob, ThreadsOK
  <2>6. QED
    BY <2>4, <2>5 DEF All, Requested, Preserves, Folded
<1>4. CASE Step(c)
  <2>1. pc[c] # "idle" /\ job[c] \in Job /\ Fits(job[c], pc[c])
    BY <1>1, <1>4, StepKinds, InFlightParts
  <2> DEFINE Move(l) ==
               /\ Goto(c, l) /\ job'[c].req = job[c].req
               /\ job[c].req.op \in {"create", "put"} => job'[c].schema = job[c].schema
               /\ l = "replace_storage" => ReadOld(c) \/ ReadPreserved(c)
  <2>2. ASSUME NEW l, Move(l)
        PROVE  All
    <3>1. pc'[c] = l
      BY <1>1, <2>2 DEF Goto, ThreadsOK
    <3>2. Requested(c)'
      BY <2>1, <2>2 DEF Requested
    <3>3. Preserves(c)'
      <4>1. CASE ReadOld(c) /\ l = "replace_storage"
        <5>1. /\ pc[c] = "read_old" /\ job' = job /\ storage' = storage
              /\ Goto(c, IF /\ storage[job[c].target] # NoIndex
                            /\ SchemaCompatible(storage[job[c].target].schema, job[c].schema)
                         THEN "read_preserved" ELSE "replace_storage")
          BY <4>1 DEF ReadOld, At, stores
        <5>2. ~(storage[job[c].target] # NoIndex
                  /\ SchemaCompatible(storage[job[c].target].schema, job[c].schema))
          BY <1>1, <3>1, <4>1, <5>1 DEF Goto, ThreadsOK
        <5>3. job[c].docs = NoDocs
          BY <1>1, <5>1 DEF Fresh, FreshLabels
        <5>4. QED
          BY <5>1, <5>2, <5>3 DEF Preserves
      <4>2. CASE ReadPreserved(c)
        <5> DEFINE t == job[c].target
        <5>1. /\ pc[c] = "read_preserved" /\ storage' = storage
              /\ job' = [job EXCEPT ![c].docs = IF storage[t] = NoIndex THEN NoDocs
                                                ELSE storage[t].docs]
          BY <4>2 DEF ReadPreserved, At, stores
        <5>2. Knows(c)
          BY <2>1 DEF OrderlyInv
        <5>3. storage[t] # NoIndex /\ SchemaCompatible(storage[t].schema, job[c].schema)
          BY <5>1, <5>2 DEF Knows, LifecycleKnows
        <5>4. /\ job'[c].docs = storage[t].docs /\ job'[c].target = t
              /\ job'[c].schema = job[c].schema
          BY <1>1, <2>1, <5>1, <5>3 DEF ThreadsOK, Job
        <5>5. QED
          BY <5>1, <5>3, <5>4 DEF Preserves
      <4>3. QED
        BY <2>2, <3>1, <4>1, <4>2 DEF Preserves
    <3>4. Folded(c)'
      <4>1. CASE job[c].req.op = "index"
        <5>1. ~LifecycleStep(c) /\ ~ReadStep(c) /\ ~AliasStep(c)
          BY <1>1, <1>4, <4>1, StepKinds DEF Reads
        <5>2. CASE ResolveName(c)
          <6>1. pc'[c] = "require"
            BY <1>1, <4>1, <5>2 DEF ResolveName, Goto, ThreadsOK
          <6>2. QED
            BY <6>1 DEF Folded, WriteLabels
        <5>3. QED
          BY <1>4, <4>1, <5>1, <5>2, RequireFolded, FoldFolded, WriteFolded DEF Step
      <4>2. CASE job[c].req.op # "index"
        <5>1. Inv'
          BY <1>1, <1>4, NextKeepsInv DEF Next
        <5>2. l # "idle" => Fits(job'[c], l)
          BY <3>1, <5>1 DEF Inv, ThreadsOK
        <5>3. l \notin WriteLabels \cup {"apply_action"}
          BY <2>2, <4>2, <5>2, LabelKinds DEF WriteLabels
        <5>4. QED
          BY <3>1, <5>3 DEF Folded
      <4>3. QED
        BY <4>1, <4>2
    <3>5. QED
      BY <3>2, <3>3, <3>4 DEF All
  <2> DEFINE Answers == \E x, rs, ds : Answer(c, x, rs, ds)
             Moves == \E l : Move(l)
  <2>3. Answers \/ Moves
    BY <1>1, <1>4, <2>1, StepShape
  <2>4. Answers => All
    BY <1>2
  <2> HIDE DEF Move
  <2>5. Moves => All
    BY <2>2
  <2> HIDE DEF Answers, Moves
  <2>6. QED
    BY <2>3, <2>4, <2>5
<1>5. QED
  BY <1>3, <1>4

LEMMA StepsKeepCatalogInv ==
    OrderlyInv /\ CatalogInv /\ [Next /\ Orderly']_vars => CatalogInv'
<1> SUFFICES ASSUME OrderlyInv, CatalogInv, [Next /\ Orderly']_vars
             PROVE  CatalogInv'
  OBVIOUS
<1>1. CASE UNCHANGED vars
  BY <1>1 DEF CatalogInv, Requested, Preserves, Folded, vars
<1>2. ASSUME NEW d \in Clients, Start(d) \/ Step(d), NEW c \in Clients
      PROVE  (Requested(c) /\ Preserves(c) /\ Folded(c))'
  BY <1>2, OwnCatalogInv, OthersKeepCatalogInv DEF CatalogInv
<1>3. QED
  BY <1>1, <1>2 DEF Next, CatalogInv

LEMMA InitCatalogInv == Init => CatalogInv
BY DEF Init, CatalogInv, Requested, Preserves, Folded, WriteLabels

-----------------------------------------------------------------------------
(* The catalog seen in the labels p, the threads j and the storage st *)

Deletes(l, q, n, k) == l = "storage_delete" /\ q.target = n /\ k \in q.batch.deletes

CarriesKey(l, q, n, k) == l \in Carrying /\ q.target = n /\ q.docs[k] # NoDoc

DocsIn(p, j, docs, n) ==
    [k \in Keys |->
        IF \E c \in Clients : Deletes(p[c], j[c], n, k)
        THEN NoDoc
        ELSE IF \E c \in Clients : CarriesKey(p[c], j[c], n, k)
             THEN j[CHOOSE c \in Clients : CarriesKey(p[c], j[c], n, k)].docs[k]
             ELSE docs[k]]

ViewIn(p, j, st) ==
    [n \in Names |-> IF st[n] = NoIndex THEN NoIndex
                     ELSE [schema |-> st[n].schema, docs |-> DocsIn(p, j, st[n].docs, n)]]

LEMMA ViewNow == CatalogView = ViewIn(pc, job, storage)
BY DEF CatalogView, CatalogDocs, ViewIn, DocsIn, Deletes, CarriesKey

LEMMA ViewThen == CatalogView' = ViewIn(pc', job', storage')
BY DEF CatalogView, CatalogDocs, ViewIn, DocsIn, Deletes, CarriesKey

\* What a client alone with an index makes of its entry e.
Seen(l, q, e, n) ==
    IF e = NoIndex THEN NoIndex
    ELSE [schema |-> e.schema, docs |-> IF l \in Carrying /\ q.target = n THEN q.docs ELSE e.docs]

\* While nobody else writes, the catalog is storage with what the client
\* carries over put back.
LEMMA ViewAlone ==
    ASSUME NEW p, NEW j, NEW st \in Storage, NEW c \in Clients,
           \A d \in Clients : d # c => p[d] \notin Carrying \cup {"storage_delete"},
           p[c] # "storage_delete",
           p[c] \in Carrying => /\ j[c].docs \in DocMap
                                /\ st[j[c].target] # NoIndex => st[j[c].target].docs = NoDocs
    PROVE  ViewIn(p, j, st) = [n \in Names |-> Seen(p[c], j[c], st[n], n)]
<1>1. ASSUME NEW n \in Names, st[n] # NoIndex
      PROVE  DocsIn(p, j, st[n].docs, n)
               = IF p[c] \in Carrying /\ j[c].target = n THEN j[c].docs ELSE st[n].docs
  <2> DEFINE docs == st[n].docs
             mine == p[c] \in Carrying /\ j[c].target = n
  <2>1. docs \in DocMap
    BY <1>1 DEF Storage, IndexEntry
  <2>2. \A k \in Keys, d \in Clients : ~Deletes(p[d], j[d], n, k)
    BY DEF Deletes
  <2>3. \A k \in Keys, d \in Clients : CarriesKey(p[d], j[d], n, k)
                                         <=> d = c /\ mine /\ j[c].docs[k] # NoDoc
    BY DEF CarriesKey
  <2>4. mine => j[c].docs \in DocMap /\ docs = NoDocs
    BY <1>1
  <2> HIDE DEF docs, mine
  <2>5. ASSUME NEW k \in Keys
        PROVE  (IF \E d \in Clients : Deletes(p[d], j[d], n, k)
                THEN NoDoc
                ELSE IF \E d \in Clients : CarriesKey(p[d], j[d], n, k)
                     THEN j[CHOOSE d \in Clients : CarriesKey(p[d], j[d], n, k)].docs[k]
                     ELSE docs[k]) = IF mine THEN j[c].docs[k] ELSE docs[k]
    <3>1. ~\E d \in Clients : Deletes(p[d], j[d], n, k)
      BY <2>2
    <3>2. CASE mine /\ j[c].docs[k] # NoDoc
      <4> DEFINE pick == CHOOSE d \in Clients : CarriesKey(p[d], j[d], n, k)
      <4>1. CarriesKey(p[c], j[c], n, k)
        BY <2>3, <3>2
      <4>2. pick \in Clients /\ CarriesKey(p[pick], j[pick], n, k)
        BY <4>1
      <4>3. pick = c
        BY <2>3, <4>2
      <4> HIDE DEF pick
      <4>4. j[pick].docs[k] = j[c].docs[k]
        BY <4>3
      <4>5. QED
        BY <3>1, <3>2, <4>1, <4>4 DEF pick
    <3>3. CASE ~(mine /\ j[c].docs[k] # NoDoc)
      <4>1. ~\E d \in Clients : CarriesKey(p[d], j[d], n, k)
        BY <2>3, <3>3
      <4>2. mine => docs[k] = NoDoc /\ j[c].docs[k] = NoDoc
        BY <2>4, <3>3 DEF NoDocs
      <4>3. QED
        BY <3>1, <3>3, <4>1, <4>2
    <3>4. QED
      BY <3>2, <3>3
  <2>6. DocsIn(p, j, docs, n) = [k \in Keys |-> IF mine THEN j[c].docs[k] ELSE docs[k]]
    BY <2>5 DEF DocsIn
  <2>7. CASE mine
    BY <2>4, <2>6, <2>7 DEF DocMap, docs, mine
  <2>8. CASE ~mine
    BY <2>1, <2>6, <2>8 DEF DocMap, docs, mine
  <2>9. QED
    BY <2>7, <2>8
<1>2. QED
  BY <1>1 DEF ViewIn, Seen

\* While only batches write, it is storage without what they still have to
\* delete.
LEMMA ViewOfBatches ==
    ASSUME NEW p, NEW j, NEW st, \A d \in Clients : p[d] \notin Carrying
    PROVE  ViewIn(p, j, st) =
             [n \in Names |->
                IF st[n] = NoIndex THEN NoIndex
                ELSE [schema |-> st[n].schema,
                      docs |-> [k \in Keys |-> IF \E d \in Clients : Deletes(p[d], j[d], n, k)
                                               THEN NoDoc ELSE st[n].docs[k]]]]
<1>1. \A n \in Names, k \in Keys, d \in Clients : ~CarriesKey(p[d], j[d], n, k)
  BY DEF CarriesKey
<1>2. ASSUME NEW n \in Names
      PROVE  DocsIn(p, j, st[n].docs, n) =
               [k \in Keys |-> IF \E d \in Clients : Deletes(p[d], j[d], n, k)
                               THEN NoDoc ELSE st[n].docs[k]]
  BY <1>1 DEF DocsIn
<1>3. QED
  BY <1>2 DEF ViewIn

\* The labels at which a request makes the catalog differ from storage.
LEMMA QuietLabels ==
    ASSUME ThreadsOK, NEW c \in Clients, pc[c] # "idle" => job[c].req.op \in Reads
    PROVE  pc[c] \notin Carrying \cup {"storage_delete"}
<1>1. CASE pc[c] = "idle"
  BY <1>1 DEF Carrying, Updating
<1>2. CASE pc[c] # "idle"
  BY <1>2, LabelsByKind DEF Carrying, KnowingLabels, WriteLabels
<1>3. QED
  BY <1>1, <1>2

\* Around a step of a request that writes whole indexes or names.
LEMMA ViewsOfExclusive ==
    ASSUME OrderlyInv, OrderlyInv', NEW c \in Clients, OthersStay(c),
           pc[c] # "idle", job[c].req.op \in Exclusive,
           pc'[c] # "idle" => job'[c].req = job[c].req
    PROVE  /\ CatalogView = [n \in Names |-> Seen(pc[c], job[c], storage[n], n)]
           /\ CatalogView' = [n \in Names |-> Seen(pc'[c], job'[c], storage'[n], n)]
<1>1. /\ ThreadsOK /\ Orderly /\ storage \in Storage /\ Knows(c)
  BY DEF OrderlyInv, Steady, Inv, StoresOK
<1>2. /\ storage' \in Storage /\ ThreadsOK' /\ (pc'[c] # "idle" => Knows(c)')
  BY DEF OrderlyInv, Steady, Inv, StoresOK
<1>3. \A d \in Clients : d # c => pc[d] \notin Carrying \cup {"storage_delete"}
  BY <1>1, Neighbours, QuietLabels
<1>4. \A d \in Clients : d # c => pc'[d] \notin Carrying \cup {"storage_delete"}
  BY <1>3 DEF OthersStay
<1>5. /\ pc[c] # "storage_delete"
      /\ pc[c] \in Carrying => /\ job[c].docs \in DocMap
                               /\ storage[job[c].target].docs = NoDocs
  <2>1. pc[c] # "storage_delete"
    BY <1>1, LabelsByKind DEF WriteLabels
  <2>2. pc[c] \in Carrying => job[c].docs \in DocMap
    BY <1>1, InFlightParts
  <2>3. pc[c] \in Carrying => storage[job[c].target].docs = NoDocs
    BY <1>1 DEF Carrying, Knows, LifecycleKnows, RemovalKnows, EmptyEntry
  <2>4. QED
    BY <2>1, <2>2, <2>3
<1>6. /\ pc'[c] # "storage_delete"
      /\ pc'[c] \in Carrying => /\ job'[c].docs \in DocMap
                                /\ storage'[job'[c].target].docs = NoDocs
  <2>1. CASE pc'[c] = "idle"
    BY <2>1 DEF Carrying, Updating
  <2>2. CASE pc'[c] # "idle"
    <3>1. Fits(job'[c], pc'[c]) /\ job'[c].docs \in DocMap
      BY <1>2, <2>2 DEF ThreadsOK, Fits, Job
    <3>2. job'[c].req.op \in Exclusive
      BY <2>2
    <3>3. pc'[c] # "storage_delete"
      BY <3>1, <3>2, LabelKinds DEF Exclusive
    <3>4. pc'[c] \in Carrying => storage'[job'[c].target].docs = NoDocs
      BY <1>2, <2>2 DEF Carrying, Knows, LifecycleKnows, RemovalKnows, EmptyEntry
    <3>5. QED
      BY <3>1, <3>3, <3>4
  <2>3. QED
    BY <2>1, <2>2
<1>7. ViewIn(pc, job, storage) = [n \in Names |-> Seen(pc[c], job[c], storage[n], n)]
  BY <1>1, <1>3, <1>5, ViewAlone
<1> DEFINE p == pc'
           j == job'
           st == storage'
<1>8. ViewIn(p, j, st) = [n \in Names |-> Seen(p[c], j[c], st[n], n)]
  <2>1. /\ st \in Storage
        /\ \A d \in Clients : d # c => p[d] \notin Carrying \cup {"storage_delete"}
        /\ p[c] # "storage_delete"
        /\ p[c] \in Carrying => /\ j[c].docs \in DocMap
                                /\ st[j[c].target].docs = NoDocs
    BY <1>2, <1>4, <1>6
  <2> HIDE DEF p, j, st
  <2>2. QED
    BY <2>1, ViewAlone
<1>9. QED
  BY <1>7, <1>8, ViewNow, ViewThen

\* A step that leaves storage alone, of a client that neither carries documents
\* nor has some to delete, before or after.
LEMMA ViewStays ==
    ASSUME OrderlyInv, NEW c \in Clients, OthersStay(c), storage' = storage,
           pc[c] \notin Carrying \cup {"storage_delete"},
           pc'[c] \notin Carrying \cup {"storage_delete"}
    PROVE  CatalogView' = CatalogView
<1> DEFINE p == pc'
           j == job'
<1>1. ThreadsOK /\ Orderly /\ storage \in Storage
  BY DEF OrderlyInv, Steady, Inv, StoresOK
<1>2. \A d \in Clients : d # c => p[d] = pc[d] /\ j[d] = job[d]
  BY DEF OthersStay
<1>3. p[c] \notin Carrying \cup {"storage_delete"}
  OBVIOUS
<1>4. CatalogView = ViewIn(pc, job, storage) /\ CatalogView' = ViewIn(p, j, storage)
  BY ViewNow, ViewThen
<1> HIDE DEF p, j
<1>5. ViewIn(p, j, storage) = ViewIn(pc, job, storage)
  <2>1. CASE \E d \in Clients : pc[d] \in Carrying
    <3>1. PICK d \in Clients : pc[d] \in Carrying
      BY <2>1
    <3>2. d # c /\ p[d] = pc[d] /\ j[d] = job[d]
      BY <1>2, <3>1
    <3>3. pc[d] # "idle" /\ pc[d] # "storage_delete"
      BY <3>1 DEF Carrying, Updating
    <3>4. Fits(job[d], pc[d]) /\ job[d].docs \in DocMap
      BY <1>1, <3>3, InFlightParts
    <3>5. job[d].req.op \in Exclusive
      BY <3>1, <3>4, LabelKinds DEF Carrying, Updating, Exclusive
    <3>6. \A e \in Clients : e # d => pc[e] \notin Carrying \cup {"storage_delete"}
      BY <1>1, <3>3, <3>5, Neighbours, QuietLabels
    <3>7. \A e \in Clients : e # d => p[e] \notin Carrying \cup {"storage_delete"}
      BY <1>2, <1>3, <3>6
    <3>8. Knows(d)
      BY <3>3 DEF OrderlyInv
    <3>9. storage[job[d].target].docs = NoDocs
      BY <3>1, <3>8 DEF Carrying, Knows, LifecycleKnows, RemovalKnows, EmptyEntry
    <3>10. ViewIn(pc, job, storage) = [n \in Names |-> Seen(pc[d], job[d], storage[n], n)]
      BY <1>1, <3>3, <3>4, <3>6, <3>9, ViewAlone
    <3>11. ViewIn(p, j, storage) = [n \in Names |-> Seen(p[d], j[d], storage[n], n)]
      BY <1>1, <3>2, <3>3, <3>4, <3>7, <3>9, ViewAlone
    <3>12. QED
      BY <3>2, <3>10, <3>11
  <2>2. CASE \A d \in Clients : pc[d] \notin Carrying
    <3>1. \A d \in Clients : p[d] \notin Carrying
      BY <1>2, <1>3, <2>2
    <3>2. \A n, k : \A d \in Clients : Deletes(p[d], j[d], n, k) <=> Deletes(pc[d], job[d], n, k)
      BY <1>2, <1>3 DEF Deletes
    <3>3. \A n, k : (\E d \in Clients : Deletes(p[d], j[d], n, k))
                      <=> (\E d \in Clients : Deletes(pc[d], job[d], n, k))
      BY <3>2
    <3> DEFINE Docs(q, i, n) == [k \in Keys |-> IF \E d \in Clients : Deletes(q[d], i[d], n, k)
                                               THEN NoDoc ELSE storage[n].docs[k]]
    <3>4. \A n : Docs(p, j, n) = Docs(pc, job, n)
      BY <3>3
    <3>5. ViewIn(p, j, storage) = [n \in Names |-> IF storage[n] = NoIndex THEN NoIndex
                                     ELSE [schema |-> storage[n].schema, docs |-> Docs(p, j, n)]]
      BY <3>1, ViewOfBatches
    <3>6. ViewIn(pc, job, storage) = [n \in Names |-> IF storage[n] = NoIndex THEN NoIndex
                                     ELSE [schema |-> storage[n].schema, docs |-> Docs(pc, job, n)]]
      BY <2>2, ViewOfBatches
    <3> HIDE DEF Docs
    <3>7. QED
      BY <3>4, <3>5, <3>6
  <2>3. QED
    BY <2>1, <2>2
<1>6. QED
  BY <1>4, <1>5

-----------------------------------------------------------------------------
(* What each step is in the catalog *)

\* The catalog's own definitions are those of the service.
LEMMA SameOperators ==
    /\ Catalog!NoDocs = NoDocs
    /\ \A s, docs, actions : Catalog!FoldBatch(s, docs, actions)
                               = Stages(s, docs, actions)[Len(actions)]
    /\ \A docs, b : Catalog!Outcome(docs, b) = Outcome(docs, b)
    /\ \A s, r : Catalog!SchemaCompatible(s, r) <=> SchemaCompatible(s, r)
BY DEF Catalog!NoDocs, NoDocs, Catalog!FoldBatch, Catalog!Stages, Stages, Catalog!EmptyBatch,
       EmptyBatch, Catalog!ApplyAction, ApplyAction, Catalog!ApplyUpload, ApplyUpload,
       Catalog!ApplyMerge, ApplyMerge, Catalog!ApplyDelete, ApplyDelete, Catalog!UpsertIfValid,
       UpsertIfValid, Catalog!Respond, Respond, Catalog!RecordUpsert, RecordUpsert,
       Catalog!RecordDelete, RecordDelete, Catalog!MergeTarget, MergeTarget,
       Catalog!MergeFields, MergeFields, Catalog!ValidDocument, ValidDocument,
       Catalog!HasVector, HasVector, Catalog!Embeds, Embeds, Catalog!Generated, Generated,
       Catalog!Outcome, Outcome, Catalog!SchemaCompatible, SchemaCompatible

\* A request in flight stays the request it is.
LEMMA RequestStays ==
    ASSUME ThreadsOK, NEW c \in Clients, pc[c] # "idle", Step(c), pc'[c] # "idle"
    PROVE  job'[c].req = job[c].req
<1> DEFINE Move(l) == /\ Goto(c, l) /\ job'[c].req = job[c].req
                      /\ job[c].req.op \in {"create", "put"} => job'[c].schema = job[c].schema
                      /\ l = "replace_storage" => ReadOld(c) \/ ReadPreserved(c)
           Answers == \E x, rs, ds : Answer(c, x, rs, ds)
           Moves == \E l : Move(l)
<1>1. Answers \/ Moves
  BY StepShape
<1>2. Answers => pc'[c] = "idle"
  BY DEF Answer, ThreadsOK
<1>3. Moves => job'[c].req = job[c].req
  OBVIOUS
<1> HIDE DEF Answers, Moves
<1>4. QED
  BY <1>1, <1>2, <1>3

\* The definitions and the batches of the requests in flight are the catalog's.
LEMMA RequestedOnes ==
    ASSUME OrderlyInv, CatalogInv, NEW c \in Clients, pc[c] # "idle"
    PROVE  /\ job[c].req.op \in {"create", "put"} =>
                job[c].schema \in {r.schema : r \in {r \in AllRequests : r.op \in {"create", "put"}}}
           /\ job[c].req.op = "index" =>
                job[c].req.actions \in {r.actions : r \in {r \in AllRequests : r.op = "index"}}
<1>1. Requested(c)
  BY DEF CatalogInv
<1>2. job[c].req \in AllRequests
  BY <1>1 DEF Requested, AllRequests
<1>3. QED
  BY <1>1, <1>2 DEF Requested

\* An entry with documents is one.
LEMMA SeenEntries ==
    ASSUME NEW l, NEW q, NEW n, NEW e \in IndexEntry, q.docs \in DocMap
    PROVE  /\ Seen(l, q, e, n) # NoIndex
           /\ Seen(l, q, e, n) = [schema |-> e.schema,
                docs |-> IF l \in Carrying /\ q.target = n THEN q.docs ELSE e.docs]
<1>1. e # NoIndex
  BY NoIndexAssumption
<1>2. [schema |-> e.schema, docs |-> IF l \in Carrying /\ q.target = n THEN q.docs ELSE e.docs]
        \in IndexEntry
  BY DEF IndexEntry
<1>3. QED
  BY <1>1, <1>2, NoIndexAssumption DEF Seen

\* create_index, create_or_update_index, delete_index and reset: the first step
\* that reaches storage is where the request takes effect, what follows is not
\* seen, and a rollback is a removal.
LEMMA LifecycleMoves ==
    ASSUME OrderlyInv, CatalogInv, OrderlyInv', NEW c \in Clients, OthersStay(c), LifecycleStep(c)
    PROVE  Catalog!CatalogNext \/ CatalogView' = CatalogView
<1> DEFINE t == job[c].target
           s == job[c].schema
           q == job[c]
           docs == job[c].docs
           V == CatalogView
           W == CatalogView'
           Done == Catalog!CatalogNext \/ W = V
           Old(n) == Seen(pc[c], job[c], storage[n], n)
           New(n) == Seen(pc'[c], job'[c], storage'[n], n)
<1> SUFFICES Done
  OBVIOUS
<1>1. /\ ThreadsOK /\ storage \in Storage /\ storage' \in Storage /\ pc[c] # "idle" /\ job[c] \in Job
      /\ job[c].req.op \in Exclusive /\ Knows(c) /\ docs \in DocMap
  <2>1. ThreadsOK /\ storage \in Storage
    BY DEF OrderlyInv, Steady, Inv, StoresOK
  <2>2. pc[c] # "idle" /\ job[c].req.op \in {"create", "put", "delete", "reset"}
    BY <2>1, StepKinds DEF Step
  <2>3. QED
    BY <2>1, <2>2, InFlightParts DEF OrderlyInv, Steady, Inv, StoresOK, Exclusive
<1>2. pc'[c] # "idle" => job'[c].req = job[c].req
  BY <1>1, RequestStays DEF Step
<1>3. V = [n \in Names |-> Old(n)] /\ W = [n \in Names |-> New(n)]
  BY <1>1, <1>2, ViewsOfExclusive
<1>4. (\A n \in Names : New(n) = Old(n)) => Done
  BY <1>3
<1>5. ASSUME storage' = storage, pc[c] \notin Carrying, pc'[c] \notin Carrying
      PROVE  Done
  BY <1>4, <1>5 DEF Seen
<1>6. ASSUME storage' = storage, pc[c] \in Carrying, pc'[c] \in Carrying,
             job'[c].target = t, job'[c].docs = docs
      PROVE  Done
  BY <1>4, <1>6 DEF Seen
<1>7. \A n \in Names : storage[n] = NoIndex \/ storage[n] \in IndexEntry
  BY <1>1 DEF Storage
<1>8. \A n \in Names : Old(n) = NoIndex <=> storage[n] = NoIndex
  <2>1. \A n \in Names : storage[n] = NoIndex => Old(n) = NoIndex
    BY DEF Seen
  <2>2. \A n \in Names : storage[n] \in IndexEntry => Old(n) # NoIndex
    BY <1>1, SeenEntries
  <2>3. QED
    BY <1>7, <2>1, <2>2
<1>9. ASSUME NEW x, Return(c, x), UNCHANGED storage, pc[c] \notin Carrying
      PROVE  Done
  BY <1>1, <1>5, <1>9, ThreadIsAt DEF Carrying, Updating
<1>10. ASSUME NEW x, RollBack(c, x), UNCHANGED storage, pc[c] \in Carrying
       PROVE  Done
  <2>1. pc'[c] = "rollback_storage" /\ job'[c].target = t
    BY <1>1, <1>10, ThreadIsAt
  <2>2. job'[c].docs = docs
    BY <1>1, <1>10 DEF RollBack, ThreadsOK, Job
  <2>3. QED
    BY <1>6, <1>10, <2>1, <2>2 DEF Carrying
<1>11. ASSUME NEW l, Goto(c, l), UNCHANGED <<storage, job>>, pc[c] \in Carrying <=> l \in Carrying
       PROVE  Done
  <2>1. pc'[c] = l
    BY <1>1, <1>11, ThreadIsAt
  <2>2. QED
    BY <1>5, <1>6, <1>11, <2>1
<1>12. ASSUME t \in Names, storage' = [storage EXCEPT ![t] = NoIndex], pc'[c] \notin Carrying
       PROVE  Done
  <2>1. \A n \in Names : New(n) = IF n = t THEN NoIndex ELSE Old(n)
    BY <1>1, <1>12 DEF Seen, Storage
  <2>2. W = [V EXCEPT ![t] = NoIndex]
    BY <1>3, <2>1
  <2>3. QED
    BY <1>12, <2>2 DEF Catalog!CatalogNext, Catalog!Drop
<1>13. ASSUME t \in Names, s \in Schemas, pc[c] \notin Carrying, pc'[c] \in Carrying,
              UNCHANGED job, storage' = StorageInsert(storage, t, s)
       PROVE  W = [V EXCEPT ![t] = [schema |-> s, docs |-> docs]]
  <2>1. [schema |-> s, docs |-> NoDocs] # NoIndex
    BY <1>13, NoIndexAssumption DEF IndexEntry, DocMap, NoDocs
  <2>2. \A n \in Names : New(n) = IF n = t THEN [schema |-> s, docs |-> docs] ELSE Old(n)
    BY <1>1, <1>13, <2>1 DEF Seen, StorageInsert, Storage
  <2>3. QED
    BY <1>3, <2>2
<1> HIDE DEF Done, V, W, Old, New
<1>14. CASE CheckAlias(c)
  BY <1>9, <1>11, <1>14 DEF CheckAlias, At, stores, Carrying, Updating
<1>15. CASE CreateStorage(c)
  <2>1. pc[c] = "create_storage"
    BY <1>15 DEF CreateStorage, At
  <2>2. pc[c] \notin Carrying
    BY <2>1 DEF Carrying, Updating
  <2>3. CASE Return(c, 409) /\ UNCHANGED stores
    BY <1>9, <2>2, <2>3 DEF stores
  <2>4. CASE /\ storage[t] = NoIndex /\ storage' = StorageInsert(storage, t, s)
             /\ Goto(c, "create_engine") /\ UNCHANGED job
    <3>1. job[c].req.op = "create" /\ t \in Names /\ s \in Schemas
      BY <1>1, <2>1, InFlightParts, LabelKinds DEF Fits
    <3>2. docs = NoDocs
      BY <2>1 DEF OrderlyInv, Steady, Fresh, FreshLabels
    <3>3. pc'[c] \in Carrying
      BY <1>1, <2>4, ThreadIsAt DEF Carrying, Updating
    <3>4. W = [V EXCEPT ![t] = [schema |-> s, docs |-> NoDocs]]
      BY <1>13, <2>2, <2>4, <3>1, <3>2, <3>3
    <3>5. V[t] = NoIndex
      BY <1>3, <1>8, <2>4, <3>1
    <3>6. s \in {r.schema : r \in {r \in AllRequests : r.op \in {"create", "put"}}}
      BY <1>1, <3>1, RequestedOnes
    <3>7. Catalog!Create(t)
      BY <3>4, <3>5, <3>6, SameOperators DEF Catalog!Create, V, W
    <3>8. QED
      BY <3>1, <3>7 DEF Done, Catalog!CatalogNext
  <2>5. QED
    BY <1>15, <2>3, <2>4 DEF CreateStorage
<1>16. CASE ReplaceStorage(c)
  <2>1. pc[c] = "replace_storage" /\ storage' = StorageInsert(storage, t, s)
        /\ Goto(c, "drop_engine") /\ UNCHANGED job
    BY <1>16 DEF ReplaceStorage, At
  <2>2. pc[c] \notin Carrying
    BY <2>1 DEF Carrying, Updating
  <2>3. job[c].req.op = "put" /\ t \in Names /\ s \in Schemas
    BY <1>1, <2>1, InFlightParts, LabelKinds DEF Fits
  <2>4. pc'[c] \in Carrying
    BY <1>1, <2>1, ThreadIsAt DEF Carrying, Updating
  <2>5. W = [V EXCEPT ![t] = [schema |-> s, docs |-> docs]]
    BY <1>13, <2>1, <2>2, <2>3, <2>4
  <2>6. Preserves(c)
    BY DEF CatalogInv
  <2>7. docs = IF storage[t] # NoIndex /\ SchemaCompatible(storage[t].schema, s)
               THEN storage[t].docs ELSE NoDocs
    BY <2>1, <2>6 DEF Preserves
  <2>8. V[t] = Old(t) /\ (Old(t) = NoIndex <=> storage[t] = NoIndex)
    BY <1>3, <1>8, <2>3
  <2>9. storage[t] # NoIndex => Old(t).schema = storage[t].schema /\ Old(t).docs = storage[t].docs
    BY <2>2 DEF Old, Seen
  <2>10. docs = IF V[t] # NoIndex /\ SchemaCompatible(V[t].schema, s) THEN V[t].docs ELSE NoDocs
    BY <2>7, <2>8, <2>9
  <2>11. s \in {r.schema : r \in {r \in AllRequests : r.op \in {"create", "put"}}}
    BY <1>1, <2>3, RequestedOnes
  <2>12. Catalog!Put(t)
    BY <2>5, <2>10, <2>11, SameOperators DEF Catalog!Put, V, W
  <2>13. QED
    BY <2>3, <2>12 DEF Done, Catalog!CatalogNext
<1>17. CASE RefillStorage(c)
  <2>1. pc[c] = "refill_storage" /\ pc[c] \in Carrying
    BY <1>17 DEF RefillStorage, At, Carrying, Updating
  <2>2. CASE RollBack(c, 404) /\ UNCHANGED storage
    BY <1>10, <2>1, <2>2
  <2>3. CASE storage' = StoragePutDocuments(storage, t, docs) /\ Return(c, 201)
    <3>1. t \in Names
      BY <1>1, <2>1, InFlightParts, LabelKinds
    <3>2. storage[t] # NoIndex /\ storage[t].docs = NoDocs
      BY <1>1, <2>1 DEF Knows, LifecycleKnows, Updating, EmptyEntry
    <3>3. storage'[t] = [storage[t] EXCEPT !.docs = docs]
      BY <1>1, <2>3, <3>1, <3>2 DEF StoragePutDocuments, Storage, DocMap, NoDocs
    <3>4. \A n \in Names : n # t => storage'[n] = storage[n]
      BY <1>1, <2>3 DEF StoragePutDocuments, Storage
    <3>5. pc'[c] = "idle"
      BY <1>1, <2>3, ThreadIsAt
    <3>6. storage[t] \in IndexEntry
      BY <1>7, <3>1, <3>2
    <3>7. storage'[t] = [schema |-> storage[t].schema, docs |-> docs] /\ storage'[t] \in IndexEntry
      BY <1>1, <3>3, <3>6 DEF IndexEntry
    <3>8. storage'[t] # NoIndex
      BY <3>7, NoIndexAssumption
    <3>9. New(t) = Old(t)
      BY <2>1, <3>2, <3>5, <3>7, <3>8 DEF New, Old, Seen, Carrying, Updating
    <3>10. \A n \in Names : n # t => New(n) = Old(n)
      BY <3>4, <3>5 DEF New, Old, Seen, Carrying, Updating
    <3>11. QED
      BY <1>4, <3>9, <3>10
  <2>4. QED
    BY <1>17, <2>2, <2>3 DEF RefillStorage
<1>18. CASE CreateVectors(c)
  <2>1. pc[c] = "create_vectors" /\ pc[c] \in Carrying /\ storage' = storage
    BY <1>18 DEF CreateVectors, At, Carrying, Updating
  <2>2. CASE RollBack(c, 400)
    BY <1>10, <2>1, <2>2
  <2>3. CASE docs = NoDocs /\ Return(c, 201)
    <3>1. storage[t].docs = NoDocs
      BY <1>1, <2>1 DEF Knows, LifecycleKnows, Updating, EmptyEntry
    <3>2. pc'[c] = "idle"
      BY <1>1, <2>3, ThreadIsAt
    <3>3. \A n \in Names : New(n) = Old(n)
      BY <2>1, <2>3, <3>1, <3>2 DEF New, Old, Seen, Carrying, Updating
    <3>4. QED
      BY <1>4, <3>3
  <2>4. CASE Goto(c, "refill_engine") /\ UNCHANGED job
    BY <1>11, <2>1, <2>4 DEF Carrying, Updating
  <2>5. QED
    BY <1>18, <2>2, <2>3, <2>4 DEF CreateVectors
<1>19. CASE CreateEngine(c) \/ DropEngine(c) \/ DropVectors(c)
  BY <1>10, <1>11, <1>19 DEF CreateEngine, DropEngine, DropVectors, At, Carrying, Updating
<1>20. CASE RefillEngine(c) \/ RefillTrim(c) \/ RefillVectors(c)
  BY <1>10, <1>11, <1>20 DEF RefillEngine, RefillTrim, RefillVectors, At, Carrying, Updating
<1>21. CASE ReadOld(c)
  <2>1. pc[c] = "read_old" /\ storage' = storage
        /\ \E l : Goto(c, l) /\ l \in {"read_preserved", "replace_storage"}
    BY <1>21 DEF ReadOld, At, stores
  <2>2. QED
    BY <1>1, <1>5, <2>1, ThreadIsAt DEF Carrying, Updating
<1>22. CASE ReadPreserved(c)
  <2>1. pc[c] = "read_preserved" /\ storage' = storage /\ Goto(c, "replace_storage")
    BY <1>22 DEF ReadPreserved, At, stores
  <2>2. QED
    BY <1>1, <1>5, <2>1, ThreadIsAt DEF Carrying, Updating
<1>23. CASE RollbackStorage(c) \/ DeleteStorage(c)
  <2>1. pc[c] \in {"rollback_storage", "delete_storage"}
    BY <1>23 DEF RollbackStorage, DeleteStorage, At
  <2>2. t \in Names
    BY <1>1, <2>1, InFlightParts, LabelKinds
  <2>3. CASE Return(c, 404) /\ UNCHANGED stores /\ pc[c] = "delete_storage"
    BY <1>9, <2>3 DEF stores, Carrying, Updating
  <2>4. CASE /\ storage' = [storage EXCEPT ![t] = NoIndex]
             /\ Goto(c, "rollback_engine") \/ Goto(c, "delete_engine")
    <3>1. pc'[c] \notin Carrying
      BY <1>1, <2>4, ThreadIsAt DEF Carrying, Updating
    <3>2. QED
      BY <1>12, <2>2, <2>4, <3>1
  <2>5. QED
    BY <1>23, <2>3, <2>4 DEF RollbackStorage, DeleteStorage, StorageDeleteIndex, At
<1>24. CASE RollbackEngine(c) \/ RollbackVectors(c) \/ DeleteEngine(c) \/ DeleteVectors(c)
  BY <1>9, <1>11, <1>24
  DEF RollbackEngine, RollbackVectors, DeleteEngine, DeleteVectors, At, Carrying, Updating
<1>25. CASE ResetStorage(c)
  <2>1. storage' = [n \in Names |-> NoIndex]
    BY <1>25 DEF ResetStorage
  <2>2. W = [n \in Names |-> NoIndex]
    BY <1>3, <2>1 DEF New, Seen
  <2>3. QED
    BY <2>2 DEF Done, W, Catalog!CatalogNext, Catalog!Clear
<1>26. CASE ResetEngine(c) \/ ResetVectors(c) \/ ResetAliases(c)
  BY <1>9, <1>11, <1>26 DEF ResetEngine, ResetVectors, ResetAliases, At, Carrying, Updating
<1>27. QED
  BY <1>14, <1>15, <1>16, <1>17, <1>18, <1>19, <1>20, <1>21, <1>22, <1>23, <1>24, <1>25, <1>26
  DEF LifecycleStep

\* While a batch is in flight every index shows what storage has for it,
\* without what batches still have to delete.
Shown(p, j, e, n) ==
    IF e = NoIndex THEN NoIndex
    ELSE [schema |-> e.schema,
          docs |-> [k \in Keys |-> IF \E d \in Clients : Deletes(p[d], j[d], n, k)
                                   THEN NoDoc ELSE e.docs[k]]]

LEMMA ViewsOfBatches ==
    ASSUME OrderlyInv, NEW c \in Clients, pc[c] \in WriteLabels \cup {"apply_action"},
           OthersStay(c), pc'[c] \notin Carrying
    PROVE  /\ CatalogView = [n \in Names |-> Shown(pc, job, storage[n], n)]
           /\ CatalogView' = [n \in Names |-> Shown(pc', job', storage'[n], n)]
<1>1. \A d \in Clients : pc[d] \notin Rebuilding \cup Clearing
  BY WriterParts
<1>2. \A d \in Clients : pc[d] \notin Carrying
  BY <1>1 DEF Rebuilding, Carrying, Rollback
<1>3. \A d \in Clients : pc'[d] \notin Carrying
  BY <1>2 DEF OthersStay
<1>4. ViewIn(pc, job, storage) = [n \in Names |-> Shown(pc, job, storage[n], n)]
  BY <1>2, ViewOfBatches DEF Shown
<1> DEFINE p == pc'
           j == job'
           st == storage'
<1>5. ViewIn(p, j, st) = [n \in Names |-> Shown(p, j, st[n], n)]
  <2>1. \A d \in Clients : p[d] \notin Carrying
    BY <1>3
  <2> HIDE DEF p, j, st
  <2>2. QED
    BY <2>1, ViewOfBatches DEF Shown
<1>6. QED
  BY <1>4, <1>5, ViewNow, ViewThen

\* No other batch is about to delete what this one may write.
LEMMA OthersDelete ==
    ASSUME OrderlyInv, NEW c \in Clients, pc[c] \in WriteLabels \cup {"apply_action"},
           NEW d \in Clients, d # c, NEW n, NEW k \in Keys, Deletes(pc[d], job[d], n, k)
    PROVE  k \notin Touches(job[c].req)
<1>1. pc[d] = "storage_delete" /\ k \in job[d].batch.deletes
  BY DEF Deletes
<1>2. /\ job[d].req.op = "index" /\ WritableBatch(job[d].req, job[d].schema, job[d].batch)
      /\ pc[d] # "idle"
  BY <1>1, WriterParts DEF WriteLabels
<1>3. k \in Touches(job[d].req)
  BY <1>1, <1>2 DEF WritableBatch
<1>4. job[c].req.op = "index" /\ pc[c] # "idle" /\ Orderly /\ ThreadsOK
  BY WriterParts
<1>5. QED
  BY <1>2, <1>3, <1>4, Neighbours

\* The documents d of an index after a batch, in the view: its upserts are
\* stored, its deletes still are to come or there are none.
LEMMA CommitTakesEffect ==
    ASSUME OrderlyInv, CatalogInv, NEW c \in Clients, OthersStay(c),
           pc[c] \in (WriteLabels \cup {"apply_action"}) \ {"storage_delete"},
           Len(job[c].batch.results) = Len(job[c].req.actions),
           \/ pc'[c] = "storage_delete" /\ job'[c] = job[c]
           \/ pc'[c] = "idle" /\ job[c].batch.deletes = {},
           NEW t \in Names, t = job[c].target,
           \A n \in Names : n # t => storage'[n] = storage[n],
           storage'[t] # NoIndex, storage'[t].schema = storage[t].schema,
           \A k \in Keys : storage'[t].docs[k] = IF job[c].batch.upserts[k] # NoDoc
                                                 THEN job[c].batch.upserts[k]
                                                 ELSE storage[t].docs[k]
    PROVE  Catalog!Apply(t)
<1> DEFINE b == job[c].batch
           s == job[c].schema
           actions == job[c].req.actions
           old == storage[t].docs
           gone(k) == \E d \in Clients : Deletes(pc[d], job[d], t, k)
           left(k) == \E d \in Clients : Deletes(pc'[d], job'[d], t, k)
           now == [k \in Keys |-> IF gone(k) THEN NoDoc ELSE old[k]]
           V == CatalogView
           W == CatalogView'
<1>1. /\ job[c].req.op = "index" /\ job[c].req \in Request /\ b \in Batch
      /\ storage[t] # NoIndex /\ storage[t].schema = s /\ pc[c] # "idle"
      /\ WritableBatch(job[c].req, s, b) /\ storage \in Storage
  BY WriterParts
<1>2. /\ V = [n \in Names |-> Shown(pc, job, storage[n], n)]
      /\ W = [n \in Names |-> Shown(pc', job', storage'[n], n)]
  BY ViewsOfBatches DEF Carrying, Updating
<1>3. \A k \in Keys : k \in Touches(job[c].req) => ~gone(k)
  <2>1. \A n, k : ~Deletes(pc[c], job[c], n, k)
    BY DEF Deletes
  <2>2. QED
    BY <2>1, OthersDelete
<1>4. \A k \in Keys : left(k) <=> k \in b.deletes \/ gone(k)
  <2>1. \A k : Deletes(pc'[c], job'[c], t, k) <=> k \in b.deletes
    BY DEF Deletes
  <2>2. \A k : \A d \in Clients : d # c => (Deletes(pc'[d], job'[d], t, k) <=> Deletes(pc[d], job[d], t, k))
    BY DEF OthersStay
  <2>3. \A k : ~Deletes(pc[c], job[c], t, k)
    BY DEF Deletes
  <2>4. QED
    BY <2>1, <2>2, <2>3
<1>5. b = Stages(s, old, actions)[Len(actions)]
  <2>1. Folded(c)
    BY DEF CatalogInv
  <2>2. QED
    BY <2>1 DEF Folded
<1>6. \A k \in Keys : k \in Touches(job[c].req) => now[k] = old[k]
  BY <1>3
<1>7. actions \in {r.actions : r \in {r \in AllRequests : r.op = "index"}}
  BY <1>1, RequestedOnes
<1> HIDE DEF gone, left, now, V, W, old
<1>8. Stages(s, old, actions) = Stages(s, now, actions)
  <2>1. \A k \in Keys : k \in Touches(job[c].req) => old[k] = now[k]
    BY <1>6
  <2>2. job[c].req \in Request /\ job[c].req.op = "index"
    BY <1>1
  <2> DEFINE r == job[c].req
  <2>3. r \in Request /\ r.op = "index" /\ \A k \in Keys : k \in Touches(r) => old[k] = now[k]
    BY <2>1, <2>2
  <2> HIDE DEF s, r
  <2>4. Stages(s, old, r.actions) = Stages(s, now, r.actions)
    BY <2>3, StagesOfRequest
  <2>5. QED
    BY <2>4 DEF r
<1>9. b = Stages(s, now, actions)[Len(actions)]
  BY <1>5, <1>8
<1>10. V[t] = [schema |-> s, docs |-> now]
  BY <1>1, <1>2 DEF Shown, now, gone, old
<1>11. W[t] = [schema |-> s, docs |-> Outcome(now, b)]
  <2>1. ASSUME NEW k \in Keys
        PROVE  (IF left(k) THEN NoDoc ELSE storage'[t].docs[k])
                 = IF b.upserts[k] # NoDoc THEN b.upserts[k]
                   ELSE IF k \in b.deletes THEN NoDoc ELSE now[k]
    <3>1. CASE b.upserts[k] # NoDoc
      <4>1. k \notin b.deletes /\ k \in Touches(job[c].req)
        BY <1>1, <3>1 DEF WritableBatch
      <4>2. ~left(k)
        BY <1>3, <1>4, <4>1
      <4>3. QED
        BY <3>1, <4>2
    <3>2. CASE b.upserts[k] = NoDoc /\ k \in b.deletes
      BY <1>4, <3>2
    <3>3. CASE b.upserts[k] = NoDoc /\ k \notin b.deletes
      <4>1. storage'[t].docs[k] = old[k]
        BY <3>3 DEF old
      <4>2. now[k] = IF gone(k) THEN NoDoc ELSE old[k]
        BY DEF now
      <4>3. QED
        BY <1>4, <3>3, <4>1, <4>2
    <3>4. QED
      BY <3>1, <3>2, <3>3
  <2>2. Outcome(now, b) = [k \in Keys |-> IF left(k) THEN NoDoc ELSE storage'[t].docs[k]]
    BY <2>1 DEF Outcome
  <2>3. W[t] = [schema |-> storage'[t].schema,
                docs |-> [k \in Keys |-> IF left(k) THEN NoDoc ELSE storage'[t].docs[k]]]
    BY <1>2 DEF Shown, left
  <2>4. QED
    BY <1>1, <2>2, <2>3
<1>12. \A n \in Names : n # t => W[n] = V[n]
  <2>1. \A n, k : \A d \in Clients : d # c =>
          (Deletes(pc'[d], job'[d], n, k) <=> Deletes(pc[d], job[d], n, k))
    BY DEF OthersStay
  <2>2. \A n, k : n # t => ~Deletes(pc[c], job[c], n, k) /\ ~Deletes(pc'[c], job'[c], n, k)
    BY DEF Deletes
  <2>3. \A n \in Names : n # t => \A k :
          (\E d \in Clients : Deletes(pc'[d], job'[d], n, k))
             <=> (\E d \in Clients : Deletes(pc[d], job[d], n, k))
    BY <2>1, <2>2
  <2>4. ASSUME NEW n \in Names, n # t
        PROVE  Shown(pc', job', storage'[n], n) = Shown(pc, job, storage[n], n)
    BY <2>3, <2>4 DEF Shown
  <2>5. QED
    BY <1>2, <2>4
<1>13. V[t].docs = now /\ V[t].schema = s /\ V[t] # NoIndex
  <2>1. V[t] \in IndexEntry
    <3>1. storage[t] \in IndexEntry
      BY <1>1 DEF Storage
    <3>2. now \in DocMap
      BY <3>1 DEF now, old, DocMap, IndexEntry
    <3>3. QED
      BY <1>1, <1>10, <3>1, <3>2 DEF IndexEntry
  <2>2. QED
    BY <1>10, <2>1, NoIndexAssumption
<1>14. W = [V EXCEPT ![t].docs = Outcome(now, b)]
  BY <1>2, <1>10, <1>11, <1>12, <1>13
<1>15. QED
  BY <1>7, <1>9, <1>13, <1>14, SameOperators DEF Catalog!Apply, V, W

\* The last step of a batch that deletes: what it deletes was gone already.
LEMMA DeletesWereGone ==
    ASSUME OrderlyInv, NEW c \in Clients, OthersStay(c), WriteStorageDelete(c)
    PROVE  CatalogView' = CatalogView
<1> DEFINE t == job[c].target
           b == job[c].batch
           V == CatalogView
           W == CatalogView'
           others(n, k) == \E d \in Clients : d # c /\ Deletes(pc[d], job[d], n, k)
<1>1. pc[c] = "storage_delete"
  BY DEF WriteStorageDelete, At
<1>2. /\ ThreadsOK /\ storage \in Storage /\ t \in Names /\ storage[t] # NoIndex
  BY <1>1, WriterParts DEF WriteLabels
<1>3. /\ storage' = StorageDeleteDocuments(storage, t, b.deletes)
      /\ Proceed(c, 7)
  BY <1>2 DEF WriteStorageDelete
<1>4. pc'[c] = "idle"
  <2>1. NeededAfter(c, 7) = {}
    BY DEF NeededAfter, Phases
  <2>2. QED
    BY <1>2, <1>3, <2>1 DEF Proceed, Answer, ThreadsOK
<1>5. /\ V = [n \in Names |-> Shown(pc, job, storage[n], n)]
      /\ W = [n \in Names |-> Shown(pc', job', storage'[n], n)]
  BY <1>1, <1>4, ViewsOfBatches DEF Carrying, Updating, WriteLabels
<1>6. \A n, k : (\E d \in Clients : Deletes(pc'[d], job'[d], n, k)) <=> others(n, k)
  <2>1. \A n, k : ~Deletes(pc'[c], job'[c], n, k)
    BY <1>4 DEF Deletes
  <2>2. \A n, k : \A d \in Clients : d # c =>
          (Deletes(pc'[d], job'[d], n, k) <=> Deletes(pc[d], job[d], n, k))
    BY DEF OthersStay
  <2>3. QED
    BY <2>1, <2>2
<1>7. \A n, k : (\E d \in Clients : Deletes(pc[d], job[d], n, k))
                  <=> (n = t /\ k \in b.deletes) \/ others(n, k)
  <2>1. \A n, k : Deletes(pc[c], job[c], n, k) <=> t = n /\ k \in b.deletes
    BY <1>1 DEF Deletes
  <2>2. QED
    BY <2>1
<1> HIDE DEF others
<1>8. /\ \A n \in Names : n # t => storage'[n] = storage[n]
      /\ storage'[t] = [schema |-> storage[t].schema,
                        docs |-> [k \in Keys |-> IF k \in b.deletes THEN NoDoc
                                                 ELSE storage[t].docs[k]]]
  <2>1. storage[t] \in IndexEntry
    BY <1>2 DEF Storage
  <2>2. QED
    BY <1>2, <1>3, <2>1 DEF StorageDeleteDocuments, Storage, IndexEntry
<1>9. storage'[t] # NoIndex
  <2>1. storage[t] \in IndexEntry
    BY <1>2 DEF Storage
  <2>2. storage'[t] \in IndexEntry
    BY <1>8, <2>1 DEF IndexEntry, DocMap
  <2>3. QED
    BY <2>2, NoIndexAssumption
<1>10. Shown(pc', job', storage'[t], t) = Shown(pc, job, storage[t], t)
  <2> DEFINE x == storage'[t]
  <2>1. /\ x # NoIndex /\ x.schema = storage[t].schema
        /\ \A k \in Keys : x.docs[k] = IF k \in b.deletes THEN NoDoc ELSE storage[t].docs[k]
    BY <1>8, <1>9
  <2> HIDE DEF x
  <2>2. ASSUME NEW k \in Keys
        PROVE  (IF \E d \in Clients : Deletes(pc'[d], job'[d], t, k) THEN NoDoc ELSE x.docs[k])
                 = IF \E d \in Clients : Deletes(pc[d], job[d], t, k) THEN NoDoc
                   ELSE storage[t].docs[k]
    BY <1>6, <1>7, <2>1
  <2>3. Shown(pc', job', x, t) = Shown(pc, job, storage[t], t)
    BY <1>2, <2>1, <2>2 DEF Shown
  <2>4. QED
    BY <2>3 DEF x
<1>11. \A n \in Names : n # t => Shown(pc', job', storage'[n], n) = Shown(pc, job, storage[n], n)
  <2>1. \A n, k : n # t => ((\E d \in Clients : Deletes(pc'[d], job'[d], n, k))
                              <=> (\E d \in Clients : Deletes(pc[d], job[d], n, k)))
    BY <1>6, <1>7
  <2>2. QED
    BY <1>8, <2>1 DEF Shown
<1>12. W = V
  BY <1>5, <1>10, <1>11
<1>13. QED
  BY <1>12

\* index_documents: the batch takes effect when its upserts reach storage, or
\* when its deletes are next and it has no upserts; nothing else it does is
\* seen.
LEMMA IngestMoves ==
    ASSUME OrderlyInv, CatalogInv, NEW c \in Clients, OthersStay(c), IngestStep(c)
    PROVE  Catalog!CatalogNext \/ CatalogView' = CatalogView
<1> DEFINE Done == Catalog!CatalogNext \/ CatalogView' = CatalogView
           Open == (WriteLabels \cup {"apply_action"}) \ {"storage_delete"}
           t == job[c].target
           b == job[c].batch
           actions == job[c].req.actions
           full == Len(b.results) = Len(actions)
<1> SUFFICES Done
  OBVIOUS
<1>1. pc[c] \in WriteLabels \cup {"apply_action"}
  BY StepKinds DEF Step, OrderlyInv, Steady, Inv
<1>2. /\ ThreadsOK /\ t \in Names /\ storage[t] # NoIndex /\ b \in Batch /\ storage \in Storage
      /\ job[c].req.op = "index" /\ job[c].req \in Request
  BY <1>1, WriterParts
<1>3. ASSUME storage' = storage, pc[c] \in Open, pc'[c] \notin Carrying \cup {"storage_delete"}
      PROVE  Done
  BY <1>3, ViewStays DEF Carrying, Updating, WriteLabels
<1>4. ASSUME NEW x, NEW rs, NEW ds, Answer(c, x, rs, ds), storage' = storage, pc[c] \in Open
      PROVE  Done
  <2>1. pc'[c] = "idle"
    BY <1>2, <1>4 DEF Answer, ThreadsOK
  <2>2. QED
    BY <1>3, <1>4, <2>1 DEF Carrying, Updating
<1>5. ASSUME NEW x, Return(c, x), storage' = storage, pc[c] \in Open
      PROVE  Done
  BY <1>4, <1>5 DEF Return
<1>6. Catalog!Apply(t) => Done
  BY <1>2 DEF Catalog!CatalogNext
<1>7. pc[c] \in Open \ {"apply_action"} => full
  BY DEF CatalogInv, Folded
<1>8. ASSUME NEW i \in 0..5, Proceed(c, i), storage' = storage, pc[c] \in Open, full
      PROVE  Done
  <2>1. CASE NeededAfter(c, i) = {} /\ Answer(c, 200, b.results, NoDocs)
    BY <1>4, <1>8, <2>1
  <2>2. ASSUME NEW j \in NeededAfter(c, i), \A k \in NeededAfter(c, i) : j <= k,
               Goto(c, Phases[j]), UNCHANGED job
        PROVE  Done
    <3>1. pc'[c] = Phases[j] /\ job'[c] = job[c]
      BY <1>2, <2>2, ThreadIsAt
    <3>2. CASE j # 7
      <4>1. Phases[j] \notin Carrying \cup {"storage_delete"}
        BY <3>2 DEF NeededAfter, Phases, Carrying, Updating
      <4>2. QED
        BY <1>3, <1>8, <3>1, <4>1
    <3>3. CASE j = 7
      <4>1. 6 \notin NeededAfter(c, i)
        BY <2>2, <3>3
      <4>2. ~Needed(c, "storage_put")
        BY <1>8, <4>1 DEF NeededAfter, Phases
      <4>3. \A k \in Keys : b.upserts[k] = NoDoc
        BY <4>2 DEF Needed, Upserted
      <4>4. pc'[c] = "storage_delete"
        BY <3>1, <3>3 DEF Phases
      <4>5. Catalog!Apply(t)
        BY <1>2, <1>8, <3>1, <4>3, <4>4, CommitTakesEffect
      <4>6. QED
        BY <1>6, <4>5
    <3>4. QED
      BY <3>2, <3>3
  <2>3. QED
    BY <1>8, <2>1, <2>2 DEF Proceed
<1> HIDE DEF Done
<1>9. CASE FoldAction(c)
  <2>1. pc[c] = "apply_action" /\ storage' = storage
    BY <1>9 DEF FoldAction, At, stores
  <2>2. pc[c] \in Open
    BY <2>1 DEF WriteLabels
  <2>3. Return(c, 404) \/ Goto(c, "apply_action")
    BY <1>9 DEF FoldAction
  <2>4. CASE Goto(c, "apply_action")
    BY <1>2, <1>3, <2>1, <2>2, <2>4, ThreadIsAt DEF Carrying, Updating
  <2>5. QED
    BY <1>5, <2>1, <2>2, <2>3, <2>4
<1>10. CASE BeginWrites(c)
  <2>1. pc[c] = "apply_action" /\ ~MoreActions(c) /\ storage' = storage /\ Proceed(c, 0)
    BY <1>10 DEF BeginWrites, At, stores
  <2>2. pc[c] \in Open
    BY <2>1 DEF WriteLabels
  <2>3. Len(b.results) \in Nat /\ Len(actions) \in Nat
    BY <1>2, RequestParts DEF Batch
  <2>4. Len(b.results) <= Len(actions)
    BY <2>2 DEF CatalogInv, Folded
  <2>5. full
    BY <2>1, <2>3, <2>4 DEF MoreActions
  <2>6. QED
    BY <1>8, <2>1, <2>2, <2>5
<1>11. CASE WriteEngineDelete(c)
  BY <1>5, <1>7, <1>8, <1>11 DEF WriteEngineDelete, At, WriteLabels
<1>12. CASE WriteEngineIndex(c)
  BY <1>5, <1>7, <1>8, <1>12 DEF WriteEngineIndex, At, WriteLabels
<1>13. CASE WriteVectorsDelete(c)
  BY <1>5, <1>7, <1>8, <1>13 DEF WriteVectorsDelete, At, WriteLabels
<1>14. CASE WriteVectorsTrim(c)
  BY <1>5, <1>7, <1>8, <1>14 DEF WriteVectorsTrim, At, WriteLabels
<1>15. CASE WriteVectorsUpsert(c)
  BY <1>5, <1>7, <1>8, <1>15 DEF WriteVectorsUpsert, At, WriteLabels
<1>16. CASE WriteStoragePut(c)
  <2>1. pc[c] = "storage_put" /\ pc[c] \in Open
    BY <1>16 DEF WriteStoragePut, At, WriteLabels
  <2>2. storage' = StoragePutDocuments(storage, t, b.upserts) /\ Proceed(c, 6)
    BY <1>2, <1>16 DEF WriteStoragePut
  <2>3. full
    BY <1>7, <2>1
  <2>4. storage[t] \in IndexEntry
    BY <1>2 DEF Storage
  <2>5. /\ \A n \in Names : n # t => storage'[n] = storage[n]
        /\ storage'[t] = [schema |-> storage[t].schema,
                          docs |-> [k \in Keys |-> IF b.upserts[k] # NoDoc THEN b.upserts[k]
                                                   ELSE storage[t].docs[k]]]
    BY <1>2, <2>2, <2>4 DEF StoragePutDocuments, Storage, IndexEntry
  <2>6. storage'[t] # NoIndex
    <3>1. storage'[t] \in IndexEntry
      BY <1>2, <2>4, <2>5 DEF IndexEntry, DocMap, Batch
    <3>2. QED
      BY <3>1, NoIndexAssumption
  <2>7. \/ pc'[c] = "storage_delete" /\ job'[c] = job[c]
        \/ pc'[c] = "idle" /\ b.deletes = {}
    <3>1. CASE NeededAfter(c, 6) = {} /\ Answer(c, 200, b.results, NoDocs)
      <4>1. ~Needed(c, "storage_delete")
        BY <3>1 DEF NeededAfter, Phases
      <4>2. QED
        BY <1>2, <3>1, <4>1 DEF Needed, Answer, ThreadsOK
    <3>2. ASSUME NEW j \in NeededAfter(c, 6), Goto(c, Phases[j]), UNCHANGED job
          PROVE  pc'[c] = "storage_delete" /\ job'[c] = job[c]
      <4>1. Phases[j] = "storage_delete"
        BY DEF NeededAfter, Phases
      <4>2. QED
        BY <1>2, <3>2, <4>1, ThreadIsAt
    <3>3. QED
      BY <2>2, <3>1, <3>2 DEF Proceed
  <2>8. /\ storage'[t].schema = storage[t].schema
        /\ \A k \in Keys : storage'[t].docs[k] = IF b.upserts[k] # NoDoc THEN b.upserts[k]
                                                 ELSE storage[t].docs[k]
    BY <2>5
  <2>9. Catalog!Apply(t)
    BY <1>2, <2>1, <2>3, <2>5, <2>6, <2>7, <2>8, CommitTakesEffect
  <2>10. QED
    BY <1>6, <2>9
<1>17. CASE WriteStorageDelete(c)
  BY <1>17, DeletesWereGone DEF Done
<1>18. QED
  BY <1>9, <1>10, <1>11, <1>12, <1>13, <1>14, <1>15, <1>16, <1>17 DEF IngestStep

\* What a request does before it writes, and one that only reads or names.
LEMMA OtherMoves ==
    ASSUME OrderlyInv, OrderlyInv', NEW c \in Clients, OthersStay(c),
           \/ Start(c) \/ ResolveName(c) \/ RequireIndex(c) \/ ReadStep(c) \/ AliasStep(c)
    PROVE  CatalogView' = CatalogView
<1>1. ThreadsOK /\ ThreadsOK'
  BY DEF OrderlyInv, Steady, Inv
<1>2. pc[c] \in {"idle", "resolve", "require", "parse_resolve", "parse_require",
                 "search_documents", "search_vectors", "search_engine", "read_documents",
                 "check_index", "store_alias", "delete_alias"} /\ storage' = storage
  <2>1. CASE Start(c) \/ ResolveName(c) \/ RequireIndex(c)
    BY <2>1 DEF Start, ResolveName, RequireIndex, At, stores
  <2>2. CASE ReadStep(c)
    BY <2>2 DEF ReadStep, ParseResolve, ParseRequire, SearchDocuments, SearchVectors,
                SearchEngine, ReadDocuments, At, stores
  <2>3. CASE AliasStep(c)
    BY <2>3 DEF AliasStep, CheckIndex, StoreAlias, DeleteAlias, At, stores
  <2>4. QED
    BY <2>1, <2>2, <2>3
<1>3. pc'[c] \notin Carrying \cup {"storage_delete"}
  <2> DEFINE Quiet == pc'[c] \notin Carrying \cup {"storage_delete"}
  <2> SUFFICES Quiet
    OBVIOUS
  <2>1. ASSUME NEW x, NEW rs, NEW ds, Answer(c, x, rs, ds) PROVE Quiet
    BY <1>1, <2>1 DEF Answer, ThreadsOK, Carrying, Updating
  <2>2. ASSUME NEW l, Goto(c, l), l \notin Carrying \cup {"storage_delete"} PROVE Quiet
    BY <1>1, <2>2, ThreadIsAt
  <2>3. \A x : Return(c, x) => Quiet
    BY <2>1 DEF Return
  <2> HIDE DEF Quiet
  <2>4. CASE Start(c)
    <3>1. PICK r \in Workload[c] : pc' = [pc EXCEPT ![c] = Entry(r.op)]
      BY <2>4 DEF Start
    <3>2. r \in Request
      BY WorkloadAssumption
    <3>3. r.op \in {"create", "put", "delete", "index", "search", "get", "count",
                    "createAlias", "putAlias", "deleteAlias", "reset"}
      BY <3>2, RequestParts
    <3>4. Entry(r.op) \notin Carrying \cup {"storage_delete"}
      BY <3>3 DEF Entry, Carrying, Updating
    <3>5. QED
      BY <1>1, <3>1, <3>4 DEF ThreadsOK, Quiet
  <2>5. CASE ResolveName(c)
    BY <2>2, <2>5 DEF ResolveName, Carrying, Updating
  <2>6. CASE RequireIndex(c)
    BY <2>2, <2>3, <2>6 DEF RequireIndex, Carrying, Updating
  <2>7. CASE ParseResolve(c) \/ ParseRequire(c)
    BY <2>2, <2>3, <2>7 DEF ParseResolve, ParseRequire, Carrying, Updating
  <2>8. CASE SearchDocuments(c) \/ SearchVectors(c) \/ SearchEngine(c) \/ ReadDocuments(c)
    BY <2>1, <2>2, <2>3, <2>8
    DEF SearchDocuments, SearchVectors, SearchEngine, ReadDocuments, Carrying, Updating
  <2>9. CASE AliasStep(c)
    BY <2>2, <2>3, <2>9 DEF AliasStep, CheckIndex, StoreAlias, DeleteAlias, Carrying, Updating
  <2>10. QED
    BY <2>4, <2>5, <2>6, <2>7, <2>8, <2>9 DEF ReadStep
<1>4. QED
  BY <1>2, <1>3, ViewStays DEF Carrying, Updating

LEMMA StepsImplement ==
    ASSUME OrderlyInv, CatalogInv, OrderlyInv', [Next /\ Orderly']_vars
    PROVE  [Catalog!CatalogNext]_CatalogView
<1>1. CASE UNCHANGED vars
  <2>1. pc' = pc /\ job' = job /\ storage' = storage
    BY <1>1 DEF vars
  <2>2. QED
    BY <2>1, ViewNow, ViewThen
<1>2. ASSUME NEW c \in Clients, Start(c) \/ Step(c)
      PROVE  Catalog!CatalogNext \/ CatalogView' = CatalogView
  <2>1. OthersStay(c)
    BY <1>2, StepsAreOfOne DEF OrderlyInv, Steady, Inv
  <2>2. QED
    BY <1>2, <2>1, LifecycleMoves, IngestMoves, OtherMoves DEF Step
<1>3. QED
  BY <1>1, <1>2 DEF Next

\* The boot indexes are in the catalog, without documents.
LEMMA InitImplements == Init => Catalog!CatalogInit
<1> SUFFICES ASSUME Init PROVE Catalog!CatalogInit
  OBVIOUS
<1>1. \A c \in Clients : pc[c] = "idle"
  BY DEF Init
<1>2. \A d \in Clients : pc[d] \notin Carrying
  BY <1>1 DEF Carrying, Updating
<1>3. \A n, k : ~\E d \in Clients : Deletes(pc[d], job[d], n, k)
  BY <1>1 DEF Deletes
<1>4. storage = [n \in Names |-> IF Boot[n] = NoIndex THEN NoIndex
                                 ELSE [schema |-> Boot[n], docs |-> NoDocs]]
  BY DEF Init
<1>5. CatalogView = [n \in Names |->
         IF storage[n] = NoIndex THEN NoIndex
         ELSE [schema |-> storage[n].schema, docs |-> [k \in Keys |-> storage[n].docs[k]]]]
  <2> DEFINE shown(n) == [k \in Keys |-> IF \E d \in Clients : Deletes(pc[d], job[d], n, k)
                                         THEN NoDoc ELSE storage[n].docs[k]]
  <2>1. CatalogView = [n \in Names |-> IF storage[n] = NoIndex THEN NoIndex
                                       ELSE [schema |-> storage[n].schema, docs |-> shown(n)]]
    BY <1>2, ViewNow, ViewOfBatches
  <2>2. \A n \in Names : shown(n) = [k \in Keys |-> storage[n].docs[k]]
    BY <1>3
  <2> HIDE DEF shown
  <2>3. QED
    BY <2>1, <2>2
<1>6. \A n \in Names : Boot[n] # NoIndex => [schema |-> Boot[n], docs |-> NoDocs] # NoIndex
  BY NoIndexAssumption, BootAssumption DEF IndexEntry, DocMap, NoDocs
<1>7. \A n \in Names : storage[n] # NoIndex =>
         storage[n].schema = Boot[n] /\ [k \in Keys |-> storage[n].docs[k]] = NoDocs
  BY <1>4 DEF NoDocs
<1>8. CatalogView = [n \in Names |-> IF Boot[n] = NoIndex THEN NoIndex
                                     ELSE [schema |-> Boot[n], docs |-> NoDocs]]
  BY <1>4, <1>5, <1>6, <1>7
<1>9. QED
  BY <1>8 DEF Catalog!CatalogInit

\* Seen from its writers the service is one catalog of indexes changed by whole
\* requests: every create, update, delete, batch and reset takes effect at one
\* step, an update in place that fails removes the index, and no other step
\* changes a document (create_index, create_or_update_index, delete_index,
\* index_documents and reset in service/mod.rs).
THEOREM ServiceImplementsCatalog == OrderlySpec => ImplementsCatalog
<1>1. Init => CatalogInv
  BY InitCatalogInv
<1>2. OrderlyInv /\ CatalogInv /\ [Next /\ Orderly']_vars => CatalogInv'
  BY StepsKeepCatalogInv
<1>3. Init => Catalog!CatalogInit
  BY InitImplements
<1>4. OrderlyInv /\ CatalogInv /\ OrderlyInv' /\ [Next /\ Orderly']_vars
        => [Catalog!CatalogNext]_CatalogView
  BY StepsImplement
<1>5. OrderlySpec => []OrderlyInv
  BY OrderlyInvHolds
<1>6. QED
  BY <1>1, <1>2, <1>3, <1>4, <1>5, PTL DEF OrderlySpec, ImplementsCatalog, Catalog!CatalogSpec

-----------------------------------------------------------------------------
historyVars == <<vars, quiet, alone>>

-----------------------------------------------------------------------------
(* What holds of every request, whatever the others do *)

\* The labels of a search before it has asked the vector store.
Unsearched == {"parse_resolve", "parse_require", "resolve", "require",
               "search_documents", "search_vectors"}

\* A batch keeps to the keys of its request; a search that has not come to the
\* vectors has found nothing.
Contained ==
    \A c \in Clients : pc[c] # "idle" =>
        /\ job[c].req.op = "index" =>
             \A k \in Keys : job[c].batch.upserts[k] # NoDoc \/ k \in job[c].batch.deletes
                               => k \in Touches(job[c].req)
        /\ job[c].req.op = "search" /\ pc[c] \in Unsearched => job[c].found = {}

\* Quiet keys are keys, and nobody's.
Undisturbed == \A c \in Clients : quiet[c] \subseteq Keys \ Disturbed

-----------------------------------------------------------------------------
(* A search, seen from a quiet key *)

\* What a search has seen so far of the entries of its index is what they
\* still are under key k.
SearchKnows(c, k) ==
    LET n == Resolve(alias, job[c].req.name)
        q == job[c].req.query
        label == pc[c]
    IN  /\ label # "parse_resolve" => job[c].target = n
        /\ label \notin {"parse_resolve", "parse_require"} =>
             storage[n] # NoIndex /\ q.vector \in {0, storage[n].schema.dim}
        /\ label \in {"search_vectors", "search_engine"} => job[c].docs[k] = storage[n].docs[k]
        /\ label = "search_vectors" => q.vector # 0
        /\ label = "search_engine" =>
             /\ q.text = Absent => q.vector = 0
             /\ k \in job[c].found <=>
                  q.vector # 0 /\ vectors[n] # NoIndex /\ vectors[n].vecs[k] # NoDoc

\* What it has answered is right of key k, if the stores agree about it.
SearchTold(p, k) ==
    LET n == Resolve(alias, p.req.name)
    IN  AgreeOn(n, k) =>
          CASE p.status = 200 ->
                 /\ storage[n] # NoIndex
                 /\ p.docs[k] = IF Matches(p.req.query, storage[n].docs[k])
                                THEN storage[n].docs[k] ELSE NoDoc
            [] p.status = 404 -> storage[n] = NoIndex
            [] OTHER -> storage[n] # NoIndex /\ storage[n].schema.dim # p.req.query.vector

SearchInv ==
    \A c \in Clients : \A k \in quiet[c] :
        /\ pc[c] # "idle" /\ job[c].req.op = "search" => SearchKnows(c, k)
        /\ reply[c] # NoReply /\ reply[c].req.op = "search" => SearchTold(reply[c], k)

-----------------------------------------------------------------------------
(* An update that is alone *)

\* What an update knows of the entries st, en and ve of its index when nobody
\* else is there, at each of its labels.  The documents it carries over may be
\* invalid: they come from stores that had drifted apart.
UpdateKnows(label, j, st, en, ve) ==
    LET s == j.schema
    IN  /\ label \in Updating => EmptyEntry(st, s)
        /\ label = "create_engine" => en = NoIndex
        /\ label \in {"drop_vectors", "create_vectors", "refill_engine"} => EngineHolds(en, NoDocs)
        /\ label = "create_vectors" => ve = NoIndex
        /\ label \in {"refill_engine", "refill_trim", "refill_vectors"}
             => VectorsHold(ve, s.dim, NoDocs)
        /\ label \in {"refill_trim", "refill_vectors"} => s.dim # 0
        /\ label \in {"refill_trim", "refill_vectors", "refill_storage"} => EngineHolds(en, j.docs)
        /\ label = "refill_storage" => VectorsHold(ve, s.dim, j.docs)
        /\ label \in {"rollback_engine", "rollback_vectors"} => st = NoIndex
        /\ label = "rollback_vectors" => en = NoIndex

AloneInv ==
    \A c \in Clients : alone[c] =>
        /\ \A d \in Clients \ {c} : pc[d] = "idle"
        /\ pc[c] # "idle" => reply[c] = NoReply
        /\ pc[c] # "idle" /\ job[c].req.op = "put" =>
             LET n == Resolve(alias, job[c].req.name)
             IN  /\ pc[c] # "resolve" => job[c].target = n
                 /\ UpdateKnows(pc[c], job[c], storage[n], engine[n], vectors[n])
        /\ reply[c] # NoReply /\ reply[c].req.op = "put" /\ reply[c].status # 409 =>
             \A k \in Keys : AgreeOn(Resolve(alias, reply[c].req.name), k)

-----------------------------------------------------------------------------
(* Quiet keys *)

\* The entries of index n in the three stores, as far as key k goes.
EntryStays(n, k) ==
    /\ storage'[n] = NoIndex <=> storage[n] = NoIndex
    /\ storage[n] # NoIndex => /\ storage'[n].schema = storage[n].schema
                               /\ storage'[n].docs[k] = storage[n].docs[k]
    /\ engine'[n] = NoIndex <=> engine[n] = NoIndex
    /\ engine[n] # NoIndex => engine'[n][k] = engine[n][k]
    /\ vectors'[n] = NoIndex <=> vectors[n] = NoIndex
    /\ vectors[n] # NoIndex => /\ vectors'[n].dim = vectors[n].dim
                               /\ vectors'[n].vecs[k] = vectors[n].vecs[k]

\* Where a batch leaves key k alone, so do its writes.
LEMMA WritesLeave ==
    ASSUME StoresOK, NEW t \in Names, NEW b \in Batch, NEW k \in Keys,
           b.upserts[k] = NoDoc, k \notin b.deletes,
           \/ storage' = storage
           \/ storage[t] # NoIndex /\ storage' = StoragePutDocuments(storage, t, b.upserts)
           \/ storage[t] # NoIndex /\ storage' = StorageDeleteDocuments(storage, t, b.deletes),
           \/ engine' = engine
           \/ engine[t] # NoIndex /\ engine' = EngineIndexDocuments(engine, t, b.upserts)
           \/ engine[t] # NoIndex /\ engine' = EngineDeleteDocuments(engine, t, b.deletes),
           \/ vectors' = vectors
           \/ vectors' = VectorsRemove(vectors, t, b.deletes)
           \/ vectors' = VectorsRemove(vectors, t, VectorRemovals(b))
           \/ vectors' = VectorsUpsert(vectors, t, b.upserts)
    PROVE  \A n \in Names : EntryStays(n, k)
<1>1. /\ storage \in Storage /\ engine \in Engine /\ vectors \in Vectors
      /\ b.upserts \in DocMap /\ k \notin VectorRemovals(b)
  BY DEF StoresOK, Batch, VectorRemovals, Upserted
<1>2. ASSUME NEW n \in Names
      PROVE  /\ storage'[n] = NoIndex <=> storage[n] = NoIndex
             /\ storage[n] # NoIndex => /\ storage'[n].schema = storage[n].schema
                                        /\ storage'[n].docs[k] = storage[n].docs[k]
  BY <1>1, StorageEffects
<1>3. ASSUME NEW n \in Names
      PROVE  /\ engine'[n] = NoIndex <=> engine[n] = NoIndex
             /\ engine[n] # NoIndex => engine'[n][k] = engine[n][k]
  BY <1>1, EngineEffects
<1>4. ASSUME NEW n \in Names
      PROVE  /\ vectors'[n] = NoIndex <=> vectors[n] = NoIndex
             /\ vectors[n] # NoIndex => /\ vectors'[n].dim = vectors[n].dim
                                        /\ vectors'[n].vecs[k] = vectors[n].vecs[k]
  <2>1. CASE vectors' = vectors
    BY <2>1
  <2>2. CASE vectors' = VectorsRemove(vectors, t, b.deletes)
    BY <1>1, <2>2, VectorEffects
  <2>3. CASE vectors' = VectorsRemove(vectors, t, VectorRemovals(b))
    BY <1>1, <2>3, VectorEffects
  <2>4. CASE vectors' = VectorsUpsert(vectors, t, b.upserts)
    <3>1. ~VectorsAccept(vectors, t, b.upserts) => vectors' = vectors
      BY <2>4 DEF VectorsUpsert
    <3>2. QED
      BY <1>1, <2>4, <3>1, VectorEffects
  <2>5. QED
    BY <2>1, <2>2, <2>3, <2>4
<1>5. QED
  BY <1>2, <1>3, <1>4 DEF EntryStays

\* No step changes what the stores hold under a key that nobody may write,
\* nor what its index is.
LEMMA QuietKeysStay ==
    ASSUME Inv, Contained, NEW k \in Keys, k \notin Disturbed,
           NEW d \in Clients, Start(d) \/ Step(d)
    PROVE  alias' = alias /\ \A n \in Names : EntryStays(n, k)
<1> DEFINE Stays == alias' = alias /\ \A n \in Names : EntryStays(n, k)
<1> SUFFICES Stays
  OBVIOUS
<1>1. StoresOK /\ ThreadsOK
  BY DEF Inv
<1>2. UNCHANGED stores => Stays
  BY DEF stores, EntryStays
<1>3. CASE Start(d)
  BY <1>2, <1>3 DEF Start
<1>4. CASE Step(d)
  <2> DEFINE r == job[d].req
  <2>1. pc[d] # "idle" /\ r.op \in Exclusive \cup Reads \cup {"index"}
    BY <1>1, <1>4, StepKinds, LabelsByKind
  <2>2. r.op \notin Exclusive /\ (r.op = "index" => k \notin Touches(r))
    BY <2>1 DEF Disturbed, BusyKeys, Touches, InFlight, Exclusive
  <2>3. ~LifecycleStep(d) /\ ~AliasStep(d)
    BY <1>1, <1>4, <2>2, StepKinds DEF Exclusive
  <2>4. CASE ReadStep(d) \/ ResolveName(d) \/ RequireIndex(d)
    BY <1>2, <2>4
    DEF ReadStep, ResolveName, RequireIndex, ParseResolve, ParseRequire,
        SearchDocuments, SearchVectors, SearchEngine, ReadDocuments
  <2>5. CASE FoldAction(d) \/ BeginWrites(d)
    BY <1>2, <2>5 DEF FoldAction, BeginWrites
  <2>6. CASE IngestStep(d) /\ ~FoldAction(d) /\ ~BeginWrites(d)
    <3> DEFINE t == job[d].target
               b == job[d].batch
    <3>1. pc[d] \in WriteLabels \cup {"apply_action"}
      BY <1>1, <1>4, <2>6, StepKinds
    <3>2. r.op = "index"
      BY <1>1, <2>1, <3>1, InFlightParts, LabelKinds DEF WriteLabels
    <3>3. t \in Names /\ b \in Batch
      BY <1>1, <2>1, <3>2, InFlightParts
    <3>4. b.upserts[k] = NoDoc /\ k \notin b.deletes
      BY <2>1, <2>2, <3>2 DEF Contained
    <3>5. /\ alias' = alias
          /\ \/ storage' = storage
             \/ storage[t] # NoIndex /\ storage' = StoragePutDocuments(storage, t, b.upserts)
             \/ storage[t] # NoIndex /\ storage' = StorageDeleteDocuments(storage, t, b.deletes)
          /\ \/ engine' = engine
             \/ engine[t] # NoIndex /\ engine' = EngineIndexDocuments(engine, t, b.upserts)
             \/ engine[t] # NoIndex /\ engine' = EngineDeleteDocuments(engine, t, b.deletes)
          /\ \/ vectors' = vectors
             \/ vectors' = VectorsRemove(vectors, t, b.deletes)
             \/ vectors' = VectorsRemove(vectors, t, VectorRemovals(b))
             \/ vectors' = VectorsUpsert(vectors, t, b.upserts)
      BY <2>6 DEF IngestStep, WriteEngineDelete, WriteEngineIndex, WriteVectorsDelete,
                  WriteVectorsTrim, WriteVectorsUpsert, WriteStoragePut, WriteStorageDelete
    <3> HIDE DEF t, b
    <3>6. \A n \in Names : EntryStays(n, k)
      BY <1>1, <3>3, <3>4, <3>5, WritesLeave
    <3>7. QED
      BY <3>5, <3>6
  <2>7. QED
    BY <1>4, <2>3, <2>4, <2>5, <2>6 DEF Step
<1>5. QED
  BY <1>3, <1>4

\* Every step keeps the batches to their keys.
LEMMA ContainedKept ==
    ASSUME Inv, Contained, NEW c \in Clients, Start(c) \/ Step(c)
    PROVE  Contained'
<1> DEFINE j == job'[c]
           Keeps == pc'[c] # "idle" =>
             /\ j.req.op = "index" =>
                  \A k \in Keys : j.batch.upserts[k] # NoDoc \/ k \in j.batch.deletes
                                    => k \in Touches(j.req)
             /\ j.req.op = "search" /\ pc'[c] \in Unsearched => j.found = {}
<1>1. ThreadsOK /\ OthersStay(c)
  BY StepsAreOfOne DEF Inv
<1>2. SUFFICES Keeps
  BY <1>1 DEF Contained, OthersStay
<1>3. ASSUME NEW s, NEW rs, NEW ds, Answer(c, s, rs, ds) PROVE Keeps
  BY <1>1, <1>3 DEF Answer, ThreadsOK
<1>4. ASSUME NEW l, Goto(c, l), l \in Unsearched => pc[c] \in Unsearched, pc[c] # "idle",
             j.req = job[c].req, j.batch = job[c].batch, j.found = job[c].found
      PROVE  Keeps
  BY <1>1, <1>4 DEF Goto, ThreadsOK, Contained
<1>5. ASSUME Step(c) PROVE pc[c] # "idle" /\ job[c] \in Job
  BY <1>1, <1>5, StepKinds, InFlightParts
<1>6. ASSUME NEW l, NEW x, Step(c), Goto(c, l), l \in Unsearched => pc[c] \in Unsearched,
             \/ job' = [job EXCEPT ![c].target = x] \/ job' = [job EXCEPT ![c].schema = x]
             \/ job' = [job EXCEPT ![c].docs = x] \/ UNCHANGED job
      PROVE  Keeps
  <2>1. j.req = job[c].req /\ j.batch = job[c].batch /\ j.found = job[c].found
    BY <1>1, <1>5, <1>6 DEF ThreadsOK, Job
  <2>2. QED
    BY <1>4, <1>5, <1>6, <2>1
<1>7. CASE Start(c)
  <2>1. PICK r \in Workload[c] : job' = [job EXCEPT ![c] = NewJob(r)]
    BY <1>7 DEF Start
  <2>2. j.batch = EmptyBatch /\ j.found = {}
    BY <1>1, <2>1 DEF NewJob, ThreadsOK
  <2>3. QED
    BY <2>2 DEF EmptyBatch, NoDocs
<1>8. CASE Step(c) /\ job[c].req.op \notin {"index", "search"}
  <2>1. CASE \E s, rs, ds : Answer(c, s, rs, ds)
    BY <1>3, <2>1
  <2>2. CASE j.req = job[c].req
    BY <1>8, <2>2
  <2>3. QED
    BY <1>1, <1>5, <1>8, <2>1, <2>2, StepShape
<1>9. CASE ResolveName(c)
  <2>1. pc[c] \in Unsearched
    BY <1>9 DEF ResolveName, At, Unsearched
  <2>2. QED
    BY <1>6, <1>9, <2>1 DEF ResolveName, Step
<1>10. CASE RequireIndex(c)
  <2>1. pc[c] \in Unsearched
    BY <1>10 DEF RequireIndex, At, Unsearched
  <2>2. QED
    BY <1>3, <1>6, <1>10, <2>1 DEF RequireIndex, Return, Step
<1>11. CASE ReadStep(c)
  <2>1. Step(c)
    BY <1>11 DEF Step
  <2>2. CASE ParseResolve(c) \/ ParseRequire(c) \/ SearchDocuments(c)
    <3>1. pc[c] \in Unsearched
      BY <2>2 DEF ParseResolve, ParseRequire, SearchDocuments, At, Unsearched
    <3>2. ASSUME NEW x, Return(c, x) PROVE Keeps
      BY <1>3, <3>2 DEF Return
    <3>3. CASE ParseResolve(c)
      BY <1>6, <2>1, <3>1, <3>3 DEF ParseResolve
    <3>4. CASE ParseRequire(c)
      BY <1>6, <2>1, <3>1, <3>2, <3>4 DEF ParseRequire
    <3>5. CASE SearchDocuments(c)
      BY <1>6, <2>1, <3>1, <3>2, <3>5 DEF SearchDocuments
    <3>6. QED
      BY <2>2, <3>3, <3>4, <3>5
  <2>3. CASE SearchVectors(c)
    <3>1. ASSUME NEW x, job' = [job EXCEPT ![c].found = x], Goto(c, "search_engine")
          PROVE  Keeps
      <4>1. pc'[c] = "search_engine" /\ j.req = job[c].req
        BY <1>1, <1>5, <2>1, <3>1 DEF Goto, ThreadsOK, Job
      <4>2. j.req.op # "index"
        BY <1>1, <1>11, <2>1, <4>1, StepKinds DEF Reads
      <4>3. QED
        BY <4>1, <4>2 DEF Unsearched
    <3>2. QED
      BY <1>3, <2>3, <3>1 DEF SearchVectors
  <2>4. CASE SearchEngine(c) \/ ReadDocuments(c)
    BY <1>3, <2>4 DEF SearchEngine, ReadDocuments, Return
  <2>5. QED
    BY <1>11, <2>2, <2>3, <2>4 DEF ReadStep
<1>12. CASE FoldAction(c)
  <2> DEFINE r == job[c].req
             b == job[c].batch
             a == NextAction(c)
  <2>1. pc[c] = "apply_action" /\ pc[c] # "idle" /\ MoreActions(c)
    BY <1>12 DEF FoldAction, At
  <2>2. Fits(job[c], pc[c]) /\ b \in Batch /\ r \in Request /\ job[c] \in Job
    BY <1>1, <2>1, InFlightParts
  <2>3. r.op = "index"
    BY <2>1, <2>2, LabelKinds
  <2>4. a \in Action /\ a.key \in Touches(r)
    BY <1>1, <2>1, NextActionIsItsOwn
  <2>5. ASSUME NEW x, job' = [job EXCEPT ![c].batch = x], Goto(c, "apply_action"),
               \A k \in Keys : k # a.key /\ (x.upserts[k] # NoDoc \/ k \in x.deletes)
                 => b.upserts[k] # NoDoc \/ k \in b.deletes
        PROVE  Keeps
    <3>1. j.batch = x /\ j.req = r
      BY <1>1, <2>2, <2>5 DEF ThreadsOK, Job
    <3>2. QED
      BY <2>1, <2>3, <2>4, <2>5, <3>1 DEF Contained
  <2>6. ASSUME NEW x, NEW k \in Keys, k # a.key, x.upserts[k] # NoDoc \/ k \in x.deletes,
               \/ \E d : \E s : x = Respond(RecordUpsert(b, a.key, d), a.key, s)
               \/ \E s : x = Respond(RecordDelete(b, a.key), a.key, s)
               \/ \E s : x = Respond(b, a.key, s)
        PROVE  b.upserts[k] # NoDoc \/ k \in b.deletes
    <3>1. b.upserts \in DocMap /\ b.results \in Seq(Result)
      BY <2>2 DEF Batch
    <3>2. ASSUME NEW d, x.upserts = [b.upserts EXCEPT ![a.key] = d] \/ x.upserts = b.upserts
          PROVE  x.upserts[k] = b.upserts[k]
      BY <2>6, <3>1, <3>2 DEF DocMap
    <3>3. /\ x.upserts = b.upserts \/ \E d : x.upserts = [b.upserts EXCEPT ![a.key] = d]
          /\ x.deletes \subseteq b.deletes \cup {a.key}
      <4>1. ASSUME NEW d, NEW s, x = Respond(RecordUpsert(b, a.key, d), a.key, s)
            PROVE  x.upserts = [b.upserts EXCEPT ![a.key] = d] /\ x.deletes = b.deletes \ {a.key}
        BY <2>2, <4>1 DEF Respond, RecordUpsert, Batch
      <4>2. ASSUME NEW s, x = Respond(RecordDelete(b, a.key), a.key, s)
            PROVE  /\ x.upserts = [b.upserts EXCEPT ![a.key] = NoDoc]
                   /\ x.deletes = b.deletes \cup {a.key}
        BY <2>2, <4>2 DEF Respond, RecordDelete, Batch
      <4>3. ASSUME NEW s, x = Respond(b, a.key, s)
            PROVE  x.upserts = b.upserts /\ x.deletes = b.deletes
        BY <2>2, <4>3 DEF Respond, Batch
      <4> HIDE DEF a, b
      <4>4. QED
        BY <2>6, <4>1, <4>2, <4>3
    <3>4. QED
      BY <2>6, <3>2, <3>3
  <2>7. CASE job' = [job EXCEPT ![c].batch = Respond(b, a.key, 400)] /\ Goto(c, "apply_action")
    <3> DEFINE x == Respond(b, a.key, 400)
    <3>1. \E s : x = Respond(b, a.key, s)
      OBVIOUS
    <3>2. job' = [job EXCEPT ![c].batch = x] /\ Goto(c, "apply_action")
      BY <2>7
    <3> HIDE DEF x
    <3>3. \A k \in Keys : k # a.key /\ (x.upserts[k] # NoDoc \/ k \in x.deletes)
            => b.upserts[k] # NoDoc \/ k \in b.deletes
      BY <2>6, <3>1
    <3>4. QED
      BY <2>5, <3>2, <3>3
  <2>8. ASSUME NEW stored \in DocMap, Goto(c, "apply_action"),
               job' = [job EXCEPT ![c].batch = ApplyAction(job[c].schema, stored, b, a)]
        PROVE  Keeps
    <3> DEFINE x == ApplyAction(job[c].schema, stored, b, a)
    <3>1. \/ \E d : \E s : x = Respond(RecordUpsert(b, a.key, d), a.key, s)
          \/ \E s : x = Respond(RecordDelete(b, a.key), a.key, s)
          \/ \E s : x = Respond(b, a.key, s)
      <4> HIDE DEF a, b
      <4>1. QED
        BY <2>4, ActionShape DEF Action
    <3>2. job' = [job EXCEPT ![c].batch = x]
      BY <2>8
    <3> HIDE DEF x
    <3>3. \A k \in Keys : k # a.key /\ (x.upserts[k] # NoDoc \/ k \in x.deletes)
            => b.upserts[k] # NoDoc \/ k \in b.deletes
      BY <2>6, <3>1
    <3>4. QED
      BY <2>5, <2>8, <3>2, <3>3
  <2>9. storage[job[c].target] # NoIndex => storage[job[c].target].docs \in DocMap
    BY <1>1, <2>1, <2>2, <2>3, InFlightParts DEF Inv, StoresOK, Storage, IndexEntry
  <2>10. QED
    BY <1>3, <1>12, <2>7, <2>8, <2>9, NoDocsTyped DEF FoldAction, Return
<1>13. CASE IngestStep(c) /\ ~FoldAction(c)
  <2>1. ASSUME NEW i, Proceed(c, i) PROVE Keeps
    <3>1. \A m \in NeededAfter(c, i) : Phases[m] \notin Unsearched
      BY DEF NeededAfter, Phases, Unsearched
    <3>2. QED
      BY <1>3, <1>6, <1>13, <2>1, <3>1 DEF Proceed, Step
  <2>2. QED
    BY <1>3, <1>13, <2>1
    DEF IngestStep, BeginWrites, WriteEngineDelete, WriteEngineIndex, WriteVectorsDelete,
        WriteVectorsTrim, WriteVectorsUpsert, WriteStoragePut, WriteStorageDelete, Return
<1>14. CASE LifecycleStep(c) \/ AliasStep(c)
  BY <1>1, <1>8, <1>14, StepKinds DEF Step
<1>15. QED
  BY <1>7, <1>9, <1>10, <1>11, <1>12, <1>13, <1>14 DEF Step

-----------------------------------------------------------------------------
(* A search keeps seeing what there is *)

\* What the stores agree about under key k they go on agreeing about.
LEMMA AgreementStays ==
    ASSUME NEW n \in Names, NEW k \in Keys, EntryStays(n, k)
    PROVE  AgreeOn(n, k)' <=> AgreeOn(n, k)
BY DEF AgreeOn, EntryStays

\* Where the stores agree, the documents the vector store and the engine find
\* are those that match.
LEMMA FoundMatches ==
    ASSUME StoresOK, NEW n \in Names, NEW k \in Keys, NEW q \in Query,
           AgreeOn(n, k), storage[n] # NoIndex, q.vector \in {0, storage[n].schema.dim},
           NEW found, k \in found <=> q.vector # 0 /\ k \in VectorHits(vectors, n)
    PROVE  LET d == storage[n].docs[k]
           IN  /\ q.text = Absent /\ q.vector # 0 => (k \in found <=> Matches(q, d))
               /\ q.text # Absent \/ q.vector = 0
                    => (k \in found \cup EngineMatches(engine, n, q.text) <=> Matches(q, d))
<1> DEFINE d == storage[n].docs[k]
<1>1. d \in Document \cup {NoDoc} /\ q.text \in Texts \cup {Absent}
  BY DEF StoresOK, Storage, IndexEntry, DocMap, Query
<1>2. /\ d # NoDoc => d.text # NoDoc /\ (HasVector(d) => d.vec # NoDoc)
      /\ q.text # NoDoc
  BY <1>1, NoDocAssumption DEF Document, HasVector
<1>3. k \in found <=> q.vector # 0 /\ d # NoDoc /\ HasVector(d)
  BY <1>2 DEF AgreeOn, VectorOf, VectorHits
<1>4. k \in EngineMatches(engine, n, q.text)
        <=> d # NoDoc /\ (q.text = Absent \/ d.text = q.text)
  BY <1>2 DEF AgreeOn, TextOf, EngineMatches
<1> HIDE DEF d
<1>5. QED
  BY <1>3, <1>4 DEF Matches, d

\* An answer stays right of a key that stays.
LEMMA SearchToldStays ==
    ASSUME ThreadsOK, alias \in Aliases, alias' = alias, NEW k \in Keys,
           \A n \in Names : EntryStays(n, k),
           NEW c \in Clients, reply'[c] = reply[c],
           reply[c] # NoReply, reply[c].req.op = "search", SearchTold(reply[c], k)
    PROVE  SearchTold(reply[c], k)'
<1> DEFINE p == reply[c]
           n == Resolve(alias, p.req.name)
<1>1. p.req \in Request /\ p.req.name \in Names
  BY RequestParts DEF ThreadsOK, Reply
<1>2. n \in Names /\ EntryStays(n, k) /\ Resolve(alias', reply'[c].req.name) = n
  BY <1>1 DEF Resolve, Aliases
<1>3. AgreeOn(n, k)' <=> AgreeOn(n, k)
  BY <1>2, AgreementStays
<1>4. SearchTold(reply[c], k)' <=>
        (AgreeOn(n, k)' =>
          CASE p.status = 200 ->
                 /\ storage'[n] # NoIndex
                 /\ p.docs[k] = IF Matches(p.req.query, storage'[n].docs[k])
                                THEN storage'[n].docs[k] ELSE NoDoc
            [] p.status = 404 -> storage'[n] = NoIndex
            [] OTHER -> storage'[n] # NoIndex /\ storage'[n].schema.dim # p.req.query.vector)
  BY <1>2 DEF SearchTold, AgreeOn, Matches
<1>5. QED
  BY <1>2, <1>3, <1>4 DEF SearchTold, EntryStays

\* A step of another client.
LEMMA OthersKeepSearches ==
    ASSUME Inv, Contained, NEW k \in Keys, k \notin Disturbed,
           NEW c \in Clients, NEW d \in Clients, c # d, Start(d) \/ Step(d)
    PROVE  /\ pc[c] # "idle" /\ job[c].req.op = "search" /\ SearchKnows(c, k)
                => SearchKnows(c, k)'
           /\ reply[c] # NoReply /\ reply[c].req.op = "search" /\ SearchTold(reply[c], k)
                => SearchTold(reply[c], k)'
<1>1. /\ alias' = alias /\ alias \in Aliases /\ ThreadsOK
      /\ \A n \in Names : EntryStays(n, k)
  BY QuietKeysStay DEF Inv, StoresOK
<1>2. pc'[c] = pc[c] /\ job'[c] = job[c] /\ reply'[c] = reply[c]
  BY <1>1, StepsAreOfOne DEF OthersStay
<1>3. ASSUME pc[c] # "idle", job[c].req.op = "search", SearchKnows(c, k)
      PROVE  SearchKnows(c, k)'
  <2> DEFINE n == Resolve(alias, job[c].req.name)
  <2>1. n \in Names /\ Resolve(alias', job'[c].req.name) = n
    BY <1>1, <1>2, <1>3, InFlightParts DEF Resolve, Aliases
  <2>2. EntryStays(n, k)
    BY <1>1, <2>1
  <2> HIDE DEF n
  <2>3. SearchKnows(c, k)' <=>
          LET q == job[c].req.query
              label == pc[c]
          IN  /\ label # "parse_resolve" => job[c].target = n
              /\ label \notin {"parse_resolve", "parse_require"} =>
                   storage'[n] # NoIndex /\ q.vector \in {0, storage'[n].schema.dim}
              /\ label \in {"search_vectors", "search_engine"} =>
                   job[c].docs[k] = storage'[n].docs[k]
              /\ label = "search_vectors" => q.vector # 0
              /\ label = "search_engine" =>
                   /\ q.text = Absent => q.vector = 0
                   /\ k \in job[c].found <=>
                        q.vector # 0 /\ vectors'[n] # NoIndex /\ vectors'[n].vecs[k] # NoDoc
    BY <1>2, <2>1 DEF SearchKnows
  <2>4. QED
    BY <1>3, <2>2, <2>3 DEF SearchKnows, EntryStays, n
<1>4. ASSUME reply[c] # NoReply, reply[c].req.op = "search", SearchTold(reply[c], k)
      PROVE  SearchTold(reply[c], k)'
  BY <1>1, <1>2, <1>4, SearchToldStays
<1>5. QED
  BY <1>3, <1>4

\* A step of the search itself.
LEMMA OwnSearchSteps ==
    ASSUME Inv, Contained, NEW c \in Clients, NEW k \in Keys, Step(c),
           job[c].req.op = "search", SearchKnows(c, k)
    PROVE  /\ pc'[c] # "idle" => SearchKnows(c, k)'
           /\ pc'[c] = "idle" => SearchTold(reply[c], k)'
<1> DEFINE r == job[c].req
           q == r.query
           n == Resolve(alias, r.name)
           t == job[c].target
           Goes == /\ pc'[c] # "idle" => SearchKnows(c, k)'
                   /\ pc'[c] = "idle" => SearchTold(reply[c], k)'
<1>1. StoresOK /\ ThreadsOK /\ pc[c] # "idle"
  BY StepKinds DEF Inv
<1>2. /\ Fits(job[c], pc[c]) /\ job[c] \in Job /\ r \in Request /\ job[c].docs \in DocMap
      /\ q \in Query /\ n \in Names
  <2>1. Fits(job[c], pc[c]) /\ job[c] \in Job /\ r \in Request /\ job[c].docs \in DocMap
    BY <1>1, InFlightParts
  <2>2. q \in Query /\ r.name \in Names
    BY <2>1, RequestParts
  <2>3. QED
    BY <1>1, <2>1, <2>2 DEF Resolve, Aliases, StoresOK
<1>3. pc[c] \in {"parse_resolve", "parse_require", "resolve", "require",
                 "search_documents", "search_vectors", "search_engine"}
  BY <1>2 DEF Fits, Labels
<1>4. ReadStep(c) \/ ResolveName(c) \/ RequireIndex(c)
  <2>1. pc[c] \notin WriteLabels \cup {"apply_action"}
    BY <1>3 DEF WriteLabels
  <2>2. QED
    BY <1>1, <2>1, StepKinds DEF Step
<1>5. UNCHANGED stores
  BY <1>4 DEF ReadStep, ResolveName, RequireIndex, ParseResolve, ParseRequire,
              SearchDocuments, SearchVectors, SearchEngine, ReadDocuments
<1>6. /\ pc[c] # "parse_resolve" => t = n
      /\ pc[c] \notin {"parse_resolve", "parse_require"} =>
           storage[n] # NoIndex /\ q.vector \in {0, storage[n].schema.dim}
      /\ pc[c] \in {"search_vectors", "search_engine"} => job[c].docs[k] = storage[n].docs[k]
      /\ pc[c] = "search_vectors" => q.vector # 0
      /\ pc[c] = "search_engine" =>
           /\ q.text = Absent => q.vector = 0
           /\ k \in job[c].found <=> q.vector # 0 /\ k \in VectorHits(vectors, n)
  BY DEF SearchKnows, VectorHits
<1>7. ASSUME NEW l, Goto(c, l), l # "idle", NEW j, job'[c] = j, j.req = r,
             l # "parse_resolve" => j.target = n,
             l \notin {"parse_resolve", "parse_require"} =>
               storage[n] # NoIndex /\ q.vector \in {0, storage[n].schema.dim},
             l \in {"search_vectors", "search_engine"} => j.docs[k] = storage[n].docs[k],
             l = "search_vectors" => q.vector # 0,
             l = "search_engine" =>
               /\ q.text = Absent => q.vector = 0
               /\ k \in j.found <=> q.vector # 0 /\ k \in VectorHits(vectors, n)
      PROVE  Goes
  <2>1. pc'[c] = l
    BY <1>1, <1>7 DEF Goto, ThreadsOK
  <2>2. SearchKnows(c, k)'
    BY <1>5, <1>7, <2>1 DEF SearchKnows, VectorHits, stores
  <2>3. QED
    BY <1>7, <2>1, <2>2
<1>8. ASSUME NEW s, NEW docs, Answer(c, s, <<>>, docs),
             AgreeOn(n, k) =>
               CASE s = 200 -> /\ storage[n] # NoIndex
                               /\ docs[k] = IF Matches(q, storage[n].docs[k])
                                            THEN storage[n].docs[k] ELSE NoDoc
                 [] s = 404 -> storage[n] = NoIndex
                 [] OTHER -> storage[n] # NoIndex /\ storage[n].schema.dim # q.vector
      PROVE  Goes
  <2>1. /\ pc'[c] = "idle" /\ reply'[c].req = r
        /\ reply'[c].status = s /\ reply'[c].docs = docs
    BY <1>1, <1>8 DEF Answer, ThreadsOK
  <2>2. PICK m \in Names : m = n
    BY <1>2
  <2>3. AgreeOn(m, k)' <=> AgreeOn(m, k)
    BY <1>5 DEF AgreeOn, stores
  <2>4. SearchTold(reply[c], k)' <=>
          (AgreeOn(m, k)' =>
            CASE s = 200 ->
                   /\ storage'[m] # NoIndex
                   /\ docs[k] = IF Matches(q, storage'[m].docs[k])
                                THEN storage'[m].docs[k] ELSE NoDoc
              [] s = 404 -> storage'[m] = NoIndex
              [] OTHER -> storage'[m] # NoIndex /\ storage'[m].schema.dim # q.vector)
    <3>1. Resolve(alias', reply'[c].req.name) = m
      BY <1>5, <2>1, <2>2 DEF stores
    <3>2. QED
      BY <2>1, <3>1 DEF SearchTold, AgreeOn, Matches
  <2>5. QED
    BY <1>5, <1>8, <2>1, <2>2, <2>3, <2>4 DEF stores
<1>9. \A x : [job[c] EXCEPT !.target = x].req = r /\ [job[c] EXCEPT !.schema = x].req = r
              /\ [job[c] EXCEPT !.docs = x].req = r /\ [job[c] EXCEPT !.found = x].req = r
              /\ [job[c] EXCEPT !.target = x].target = x
              /\ [job[c] EXCEPT !.docs = x].docs = x
              /\ [job[c] EXCEPT !.docs = x].target = t
              /\ [job[c] EXCEPT !.docs = x].found = job[c].found
              /\ [job[c] EXCEPT !.schema = x].target = t
              /\ [job[c] EXCEPT !.found = x].target = t
              /\ [job[c] EXCEPT !.found = x].found = x
              /\ [job[c] EXCEPT !.found = x].docs = job[c].docs
  BY <1>2 DEF Job
<1>10. \A j : job' = [job EXCEPT ![c] = j] => job'[c] = j
  BY <1>1 DEF ThreadsOK
<1> HIDE DEF Goes, r, q, n, t
<1> SUFFICES Goes
  BY DEF Goes
<1>11. CASE ParseResolve(c)
  <2> DEFINE j == [job[c] EXCEPT !.target = n]
  <2>1. job' = [job EXCEPT ![c] = j] /\ Goto(c, "parse_require")
    BY <1>11 DEF ParseResolve, n, r
  <2>2. j.req = r /\ j.target = n
    BY <1>9
  <2> HIDE DEF j
  <2>3. job'[c] = j
    BY <1>10, <2>1
  <2>4. QED
    BY <1>7, <2>1, <2>2, <2>3
<1>12. CASE ParseRequire(c)
  <2>1. pc[c] = "parse_require" /\ t = n
    BY <1>6, <1>12 DEF ParseRequire, At
  <2>2. CASE storage[n] = NoIndex /\ Return(c, 404)
    BY <1>8, <2>2 DEF Return
  <2>3. CASE storage[n] # NoIndex /\ q.vector # storage[n].schema.dim /\ Return(c, 400)
    BY <1>8, <2>3 DEF Return
  <2>4. CASE storage[n] # NoIndex /\ q.vector \in {0, storage[n].schema.dim}
              /\ Goto(c, "resolve") /\ UNCHANGED job
    BY <1>7, <2>1, <2>4 DEF r, t
  <2>5. QED
    BY <1>12, <2>1, <2>2, <2>3, <2>4 DEF ParseRequire, q, r, t
<1>13. CASE ResolveName(c)
  <2> DEFINE j == [job[c] EXCEPT !.target = n]
  <2>1. job' = [job EXCEPT ![c] = j] /\ Goto(c, "require") /\ pc[c] = "resolve"
    BY <1>13 DEF ResolveName, At, n, r
  <2>2. j.req = r /\ j.target = n
    BY <1>9
  <2> HIDE DEF j
  <2>3. job'[c] = j
    BY <1>10, <2>1
  <2>4. QED
    BY <1>6, <1>7, <2>1, <2>2, <2>3
<1>14. CASE RequireIndex(c)
  <2> DEFINE j == [job[c] EXCEPT !.schema = storage[t].schema]
  <2>1. pc[c] = "require" /\ t = n /\ storage[n] # NoIndex
    BY <1>6, <1>14 DEF RequireIndex, At
  <2>2. job' = [job EXCEPT ![c] = j] /\ Goto(c, "search_documents")
    BY <1>14, <2>1 DEF RequireIndex, t
  <2>3. j.req = r /\ j.target = t
    BY <1>9
  <2> HIDE DEF j
  <2>4. job'[c] = j
    BY <1>10, <2>2
  <2>5. QED
    BY <1>6, <1>7, <2>1, <2>2, <2>3, <2>4
<1>15. CASE SearchDocuments(c)
  <2> DEFINE j == [job[c] EXCEPT !.docs = storage[n].docs]
             l == IF q.vector = 0 THEN "search_engine" ELSE "search_vectors"
  <2>1. pc[c] = "search_documents" /\ t = n /\ storage[n] # NoIndex
    BY <1>6, <1>15 DEF SearchDocuments, At
  <2>2. job' = [job EXCEPT ![c] = j] /\ Goto(c, l)
    BY <1>15, <2>1 DEF SearchDocuments, t, q, r
  <2>3. j.req = r /\ j.target = t /\ j.docs = storage[n].docs /\ j.found = job[c].found
    BY <1>9
  <2>4. job[c].found = {}
    BY <1>1, <2>1 DEF Contained, Unsearched
  <2>5. /\ l \in {"search_engine", "search_vectors"}
        /\ l = "search_engine" => q.vector = 0
        /\ l = "search_vectors" => q.vector # 0
    OBVIOUS
  <2> HIDE DEF j, l
  <2>6. job'[c] = j
    BY <1>10, <2>2
  <2>7. QED
    BY <1>6, <1>7, <2>1, <2>2, <2>3, <2>4, <2>5, <2>6
<1>16. CASE SearchVectors(c)
  <2> DEFINE hits == VectorHits(vectors, n)
             j == [job[c] EXCEPT !.found = hits]
  <2>1. pc[c] = "search_vectors" /\ t = n
    BY <1>6, <1>16 DEF SearchVectors, At
  <2>2. CASE q.text # Absent /\ job' = [job EXCEPT ![c] = j] /\ Goto(c, "search_engine")
    <3>1. j.req = r /\ j.target = t /\ j.docs = job[c].docs /\ j.found = hits
      BY <1>9
    <3> HIDE DEF j
    <3>2. job'[c] = j
      BY <1>10, <2>2
    <3>3. QED
      BY <1>6, <1>7, <2>1, <2>2, <3>1, <3>2
  <2>3. CASE q.text = Absent /\ Answer(c, 200, <<>>, OnlyKeys(job[c].docs, hits))
    <3>1. AgreeOn(n, k) => (k \in hits <=> Matches(q, storage[n].docs[k]))
      BY <1>1, <1>2, <1>6, <2>1, <2>3, FoundMatches
    <3>2. OnlyKeys(job[c].docs, hits)[k] = IF k \in hits THEN storage[n].docs[k] ELSE NoDoc
      BY <1>6, <2>1 DEF OnlyKeys
    <3>3. QED
      BY <1>6, <1>8, <2>1, <2>3, <3>1, <3>2
  <2>4. QED
    BY <1>16, <2>1, <2>2, <2>3 DEF SearchVectors, q, r, t
<1>17. CASE SearchEngine(c)
  <2> DEFINE hits == job[c].found \cup EngineMatches(engine, n, q.text)
  <2>1. pc[c] = "search_engine" /\ t = n
    BY <1>6, <1>17 DEF SearchEngine, At
  <2>2. CASE engine[n] = NoIndex /\ Return(c, 404)
    BY <1>6, <1>8, <2>1, <2>2 DEF Return, AgreeOn
  <2>3. CASE Answer(c, 200, <<>>, OnlyKeys(job[c].docs, hits))
    <3>1. AgreeOn(n, k) => (k \in hits <=> Matches(q, storage[n].docs[k]))
      BY <1>1, <1>2, <1>6, <2>1, FoundMatches
    <3>2. OnlyKeys(job[c].docs, hits)[k] = IF k \in hits THEN storage[n].docs[k] ELSE NoDoc
      BY <1>6, <2>1 DEF OnlyKeys
    <3>3. QED
      BY <1>6, <1>8, <2>1, <2>3, <3>1, <3>2
  <2>4. QED
    BY <1>17, <2>1, <2>2, <2>3 DEF SearchEngine, q, r, t
<1>18. ~ReadDocuments(c)
  BY <1>3 DEF ReadDocuments, At
<1>19. QED
  BY <1>4, <1>11, <1>12, <1>13, <1>14, <1>15, <1>16, <1>17, <1>18 DEF ReadStep

\* Quiet keys stay so while the search runs and until its client begins again.
LEMMA SearchesKept ==
    ASSUME Inv, Contained, Undisturbed, SearchInv, HistoryNext
    PROVE  Undisturbed' /\ SearchInv'
<1>1. \A c \in Clients :
        quiet'[c] = (IF Begins(c) THEN Keys ELSE quiet[c]) \ Disturbed'
  BY DEF HistoryNext
<1>2. Undisturbed'
  BY <1>1 DEF Undisturbed
<1>3. PICK d \in Clients : Start(d) \/ Step(d)
  BY DEF HistoryNext, Next
<1>4. ThreadsOK /\ OthersStay(d)
  BY <1>3, StepsAreOfOne DEF Inv
<1>5. ASSUME NEW c \in Clients, NEW k \in quiet'[c]
      PROVE  /\ pc'[c] # "idle" /\ job'[c].req.op = "search" => SearchKnows(c, k)'
             /\ reply'[c] # NoReply /\ reply'[c].req.op = "search" => SearchTold(reply[c], k)'
  <2>1. CASE c = d /\ Start(c)
    <3>1. PICK r \in Workload[c] : /\ job' = [job EXCEPT ![c] = NewJob(r)]
                                   /\ pc' = [pc EXCEPT ![c] = Entry(r.op)]
                                   /\ reply' = [reply EXCEPT ![c] = NoReply]
      BY <2>1 DEF Start
    <3>2. pc'[c] = Entry(r.op) /\ job'[c].req = r /\ reply'[c] = NoReply
      BY <1>4, <3>1 DEF ThreadsOK, NewJob
    <3>3. r.op = "search" => SearchKnows(c, k)'
      BY <3>2 DEF SearchKnows, Entry
    <3>4. QED
      BY <3>2, <3>3
  <2>2. CASE ~(c = d /\ Start(c))
    <3>1. ~Begins(c)
      <4>1. CASE c # d
        BY <1>4, <4>1 DEF Begins, OthersStay
      <4>2. CASE c = d
        BY <1>3, <1>4, <2>2, <4>2, StepKinds DEF Begins
      <4>3. QED
        BY <4>1, <4>2
    <3>2. k \in quiet[c]
      BY <1>1, <1>5, <3>1
    <3>3. k \in Keys /\ k \notin Disturbed
      BY <3>2 DEF Undisturbed
    <3>4. /\ pc[c] # "idle" /\ job[c].req.op = "search" => SearchKnows(c, k)
          /\ reply[c] # NoReply /\ reply[c].req.op = "search" => SearchTold(reply[c], k)
      BY <3>2 DEF SearchInv
    <3>5. CASE c # d
      <4>1. pc'[c] = pc[c] /\ job'[c] = job[c] /\ reply'[c] = reply[c]
        BY <1>4, <3>5 DEF OthersStay
      <4>2. QED
        BY <1>3, <3>3, <3>4, <3>5, <4>1, OthersKeepSearches
    <3>6. CASE c = d
      <4>1. Step(c) /\ pc[c] # "idle"
        BY <1>3, <1>4, <2>2, <3>6, StepKinds
      <4>2. CASE \E s, rs, ds : Answer(c, s, rs, ds)
        <5>1. pc'[c] = "idle" /\ reply'[c].req = job[c].req
          BY <1>4, <4>2 DEF Answer, ThreadsOK
        <5>2. QED
          BY <3>3, <3>4, <4>1, <5>1, OwnSearchSteps
      <4>3. CASE \E l : Goto(c, l) /\ job'[c].req = job[c].req
        <5>1. reply'[c] = reply[c]
          BY <4>3 DEF Goto
        <5>2. reply[c] # NoReply /\ reply[c].req.op = "search" => SearchTold(reply[c], k)'
          BY <1>3, <1>4, <3>3, <3>4, <3>6, <5>1, QuietKeysStay, SearchToldStays
          DEF Inv, StoresOK
        <5>3. QED
          BY <3>3, <3>4, <4>1, <4>3, <5>1, <5>2, OwnSearchSteps
      <4>4. QED
        BY <1>4, <4>1, <4>2, <4>3, StepShape
    <3>7. QED
      BY <3>5, <3>6
  <2>3. QED
    BY <2>1, <2>2
<1>6. QED
  BY <1>2, <1>5 DEF SearchInv

HistoryInv == Inv /\ Contained /\ Undisturbed /\ SearchInv

LEMMA HistoryInvHolds ==
    /\ HistoryInit => HistoryInv
    /\ HistoryInv /\ [HistoryNext]_historyVars => HistoryInv'
<1>1. HistoryInit => HistoryInv
  BY InitInv DEF HistoryInit, HistoryInv, Init, Contained, Undisturbed, SearchInv
<1>2. ASSUME HistoryInv, HistoryNext
      PROVE  HistoryInv'
  <2>1. Inv'
    BY <1>2, NextKeepsInv DEF HistoryInv, HistoryNext
  <2>2. Contained'
    BY <1>2, ContainedKept DEF HistoryInv, HistoryNext, Next
  <2>3. QED
    BY <1>2, <2>1, <2>2, SearchesKept DEF HistoryInv
<1>3. ASSUME HistoryInv, UNCHANGED historyVars
      PROVE  HistoryInv'
  <2>1. Inv'
    BY <1>3, NextKeepsInv DEF HistoryInv, historyVars
  <2>2. (Contained /\ Undisturbed)'
    <3>1. Contained'
      BY <1>3 DEF HistoryInv, Contained, historyVars, vars
    <3>2. Disturbed' = Disturbed /\ quiet' = quiet
      BY <1>3 DEF Disturbed, BusyKeys, InFlight, historyVars, vars
    <3>3. Undisturbed'
      BY <1>3, <3>2 DEF HistoryInv, Undisturbed
    <3>4. QED
      BY <3>1, <3>3
  <2>3. SearchInv'
    BY <1>3 DEF HistoryInv, SearchInv, SearchKnows, SearchTold, AgreeOn, historyVars, vars
  <2>4. QED
    BY <2>1, <2>2, <2>3 DEF HistoryInv
<1>4. QED
  BY <1>1, <1>2, <1>3

\* However its five locks interleave with other requests, a search answers
\* rightly about every key that nobody wrote meanwhile and about which the
\* stores agree: the document is in the answer just when it is stored and
\* matches (execute_plan; nothing is missed, invented or stale).
THEOREM SearchesAreExact == HistorySpec => []SearchExact
<1>1. HistoryInv => SearchExact
  BY DEF HistoryInv, SearchInv, SearchTold, SearchExact
<1>2. QED
  BY <1>1, HistoryInvHolds, PTL DEF HistorySpec, historyVars

-----------------------------------------------------------------------------
(* An update rebuilds its index *)

\* The stores, whose entries for an index are st, en and ve, agree about it.
Repaired(st, en, ve) ==
    IF st = NoIndex THEN en = NoIndex /\ ve = NoIndex
    ELSE EngineHolds(en, st.docs) /\ VectorsHold(ve, st.schema.dim, st.docs)

\* From one operation to the next an update knows what it has rebuilt; when it
\* returns, the stores agree, or an alias had taken the name.
LEMMA UpdateSteps ==
    ASSUME Inv, NEW c \in Clients, LifecycleStep(c), job[c].req.op = "put",
           NEW n \in Names, n = job[c].target,
           UpdateKnows(pc[c], job[c], storage[n], engine[n], vectors[n])
    PROVE  /\ alias' = alias
           /\ \/ /\ pc'[c] # "idle" /\ job'[c].target = n
                 /\ UpdateKnows(pc'[c], job'[c], storage'[n], engine'[n], vectors'[n])
              \/ /\ pc'[c] = "idle"
                 /\ reply'[c].status = 409 \/ Repaired(storage'[n], engine'[n], vectors'[n])
<1> DEFINE s == job[c].schema
           docs == job[c].docs
           Knows2 == UpdateKnows(pc'[c], job'[c], storage'[n], engine'[n], vectors'[n])
           Goal == /\ alias' = alias
                   /\ \/ pc'[c] # "idle" /\ job'[c].target = n /\ Knows2
                      \/ /\ pc'[c] = "idle"
                         /\ reply'[c].status = 409 \/ Repaired(storage'[n], engine'[n], vectors'[n])
<1>1. /\ ThreadsOK /\ storage \in Storage /\ engine \in Engine /\ vectors \in Vectors
      /\ pc[c] # "idle"
  BY StepKinds DEF Inv, StoresOK, Step
<1>2. Fits(job[c], pc[c]) /\ job[c] \in Job /\ docs \in DocMap /\ s \in Schemas
  BY <1>1, InFlightParts DEF Fits
<1>3. EmptyEntry(storage[n], s) \/ pc[c] \notin Updating
  BY DEF UpdateKnows
<1>4. /\ \A x : Return(c, x) => pc'[c] = "idle" /\ reply'[c].status = x
      /\ \A l : Goto(c, l) => pc'[c] = l
      /\ UNCHANGED job => job'[c] = job[c]
      /\ \A x : RollBack(c, x) => pc'[c] = "rollback_storage" /\ job'[c].target = n
  <2>1. \A x : Return(c, x) => reply'[c].status = x
    BY <1>1 DEF Return, Answer, ThreadsOK
  <2>2. QED
    BY <1>1, <1>2, <2>1, ThreadIsAt
\* Some labels know nothing.
<1>5. ASSUME alias' = alias, job'[c].target = n,
             pc'[c] \in {"read_old", "read_preserved", "replace_storage", "rollback_storage"}
      PROVE  Goal
  <2>1. Knows2
    BY <1>5 DEF UpdateKnows, Updating
  <2>2. QED
    BY <1>5, <2>1
<1>6. ASSUME NEW x, RollBack(c, x), alias' = alias
      PROVE  Goal
  BY <1>4, <1>5, <1>6
<1> HIDE DEF s, docs, Goal
<1> SUFFICES Goal
  BY DEF Goal
<1>7. CASE CheckAlias(c)
  <2>1. alias' = alias /\ pc[c] = "check_alias"
    BY <1>7 DEF CheckAlias, At, stores
  <2>2. CASE Return(c, 409)
    BY <1>4, <2>1, <2>2 DEF Goal
  <2>3. CASE Goto(c, "read_old") /\ UNCHANGED job
    BY <1>4, <1>5, <2>1, <2>3
  <2>4. QED
    BY <1>7, <2>2, <2>3 DEF CheckAlias
<1>8. CASE ReadOld(c)
  <2>1. pc'[c] \in {"read_preserved", "replace_storage"} /\ alias' = alias /\ job'[c] = job[c]
    BY <1>4, <1>8 DEF ReadOld, stores
  <2>2. QED
    BY <1>5, <2>1
<1>9. CASE ReadPreserved(c)
  <2>1. PICK x : job' = [job EXCEPT ![c].docs = x]
    BY <1>9 DEF ReadPreserved
  <2>2. job'[c].target = n
    BY <1>1, <1>2, <2>1 DEF ThreadsOK, Job
  <2>3. pc'[c] = "replace_storage" /\ alias' = alias
    BY <1>4, <1>9 DEF ReadPreserved, stores
  <2>4. QED
    BY <1>5, <2>2, <2>3
<1>10. CASE ReplaceStorage(c)
  <2>1. /\ storage' = StorageInsert(storage, n, s) /\ alias' = alias
        /\ pc'[c] = "drop_engine" /\ job'[c] = job[c]
    BY <1>4, <1>10 DEF ReplaceStorage, s
  <2>2. storage'[n] # NoIndex /\ storage'[n].schema = s /\ storage'[n].docs = NoDocs
    BY <1>1, <1>2, <2>1, StorageEffects DEF s
  <2>3. Knows2
    BY <2>1, <2>2 DEF UpdateKnows, EmptyEntry, s
  <2>4. QED
    BY <2>1, <2>3 DEF Goal
<1>11. CASE DropEngine(c)
  <2>1. /\ engine' = EngineDeleteIndex(engine, n) /\ storage' = storage /\ alias' = alias
        /\ pc[c] = "drop_engine" /\ pc'[c] = "create_engine" /\ job'[c] = job[c]
    BY <1>4, <1>11 DEF DropEngine, At
  <2>2. engine'[n] = NoIndex /\ EmptyEntry(storage[n], s)
    BY <1>1, <1>3, <2>1, EngineEffects DEF Updating
  <2>3. Knows2
    BY <2>1, <2>2 DEF UpdateKnows, s
  <2>4. QED
    BY <2>1, <2>3 DEF Goal
<1>12. CASE CreateEngine(c)
  <2>1. pc[c] = "create_engine" /\ engine[n] = NoIndex /\ EmptyEntry(storage[n], s)
    BY <1>3, <1>12 DEF CreateEngine, At, UpdateKnows, Updating
  <2>2. /\ engine' = EngineCreateIndex(engine, n) /\ storage' = storage /\ alias' = alias
        /\ pc'[c] = "drop_vectors" /\ job'[c] = job[c]
    BY <1>4, <1>12, <2>1 DEF CreateEngine
  <2>3. EngineHolds(engine'[n], NoDocs)
    <3>1. engine'[n] = NoDocs /\ NoDocs # NoIndex
      BY <1>1, <2>2, EngineEffects
    <3>2. QED
      BY <3>1 DEF EngineHolds, NoDocs, TextOf
  <2>4. Knows2
    BY <2>1, <2>2, <2>3 DEF UpdateKnows, s
  <2>5. QED
    BY <2>2, <2>4 DEF Goal
<1>13. CASE DropVectors(c)
  <2>1. /\ vectors' = VectorsDeleteIndex(vectors, n) /\ UNCHANGED <<storage, engine, alias>>
        /\ pc[c] = "drop_vectors" /\ pc'[c] = "create_vectors" /\ job'[c] = job[c]
    BY <1>4, <1>13 DEF DropVectors, At
  <2>2. vectors'[n] = NoIndex /\ EmptyEntry(storage[n], s) /\ EngineHolds(engine[n], NoDocs)
    BY <1>1, <1>3, <2>1, VectorEffects DEF Updating, UpdateKnows
  <2>3. Knows2
    BY <2>1, <2>2 DEF UpdateKnows, s
  <2>4. QED
    BY <2>1, <2>3 DEF Goal
<1>14. CASE CreateVectors(c)
  <2>1. /\ pc[c] = "create_vectors" /\ UNCHANGED <<storage, engine, alias>>
        /\ EmptyEntry(storage[n], s) /\ EngineHolds(engine[n], NoDocs) /\ vectors[n] = NoIndex
    BY <1>3, <1>14 DEF CreateVectors, At, Updating, UpdateKnows
  <2>2. CASE s.malformed
    BY <1>6, <1>14, <2>1, <2>2 DEF CreateVectors, s
  <2>3. CASE ~s.malformed
    <3>1. vectors' = VectorsCreateIndex(vectors, n, s)
      BY <1>14, <2>3 DEF CreateVectors, s
    <3>2. /\ s.dim = 0 => vectors' = vectors
          /\ s.dim # 0 => vectors'[n] # NoIndex /\ vectors'[n].dim = s.dim /\ vectors'[n].vecs = NoDocs
      BY <1>1, <1>2, <3>1, VectorEffects
    <3>3. VectorsHold(vectors'[n], s.dim, NoDocs)
      BY <2>1, <3>2 DEF VectorsHold, Dimensioned, NoDocs, VectorOf
    <3>4. CASE docs = NoDocs /\ Return(c, 201)
      <4>1. Repaired(storage'[n], engine'[n], vectors'[n])
        BY <2>1, <3>3 DEF Repaired, EmptyEntry
      <4>2. QED
        BY <1>4, <2>1, <3>4, <4>1 DEF Goal
    <3>5. CASE Goto(c, "refill_engine") /\ UNCHANGED job
      <4>1. pc'[c] = "refill_engine" /\ job'[c] = job[c]
        BY <1>4, <3>5
      <4>2. Knows2
        BY <2>1, <3>3, <4>1 DEF UpdateKnows, s
      <4>3. QED
        BY <2>1, <4>1, <4>2 DEF Goal
    <3>6. QED
      BY <1>14, <2>3, <3>4, <3>5 DEF CreateVectors, s, docs
  <2>4. QED
    BY <2>2, <2>3
<1>15. CASE RefillEngine(c)
  <2>1. /\ pc[c] = "refill_engine" /\ UNCHANGED <<storage, vectors, alias>>
        /\ EmptyEntry(storage[n], s) /\ EngineHolds(engine[n], NoDocs)
        /\ VectorsHold(vectors[n], s.dim, NoDocs)
    BY <1>3, <1>15 DEF RefillEngine, At, Updating, UpdateKnows, s
  <2> DEFINE l == IF s.dim = 0 THEN "refill_storage" ELSE "refill_trim"
  <2>2. engine' = EngineIndexDocuments(engine, n, docs) /\ pc'[c] = l /\ job'[c] = job[c]
    BY <1>4, <1>15, <2>1 DEF RefillEngine, EngineHolds, s, docs
  <2>3. /\ engine'[n] # NoIndex
        /\ \A k \in Keys : engine'[n][k] = IF docs[k] # NoDoc THEN TextOf(docs[k]) ELSE engine[n][k]
    BY <1>1, <1>2, <2>1, <2>2, EngineEffects DEF EngineHolds
  <2>4. EngineHolds(engine'[n], docs)
    BY <2>1, <2>3 DEF EngineHolds, TextOf, NoDocs
  <2>5. s.dim = 0 => VectorsHold(vectors[n], s.dim, docs)
    BY <2>1 DEF VectorsHold
  <2>6. Knows2
    BY <2>1, <2>2, <2>4, <2>5 DEF UpdateKnows, s, docs
  <2>7. QED
    BY <2>1, <2>2, <2>6 DEF Goal
<1>16. CASE RefillTrim(c)
  <2> DEFINE ks == {k \in Keys : docs[k] # NoDoc /\ docs[k].vec = Absent}
  <2>1. /\ pc[c] = "refill_trim" /\ EmptyEntry(storage[n], s) /\ s.dim # 0
        /\ EngineHolds(engine[n], docs) /\ VectorsHold(vectors[n], s.dim, NoDocs)
        /\ vectors' = VectorsRemove(vectors, n, ks) /\ UNCHANGED <<storage, engine, alias>>
        /\ pc'[c] = "refill_vectors" /\ job'[c] = job[c]
    BY <1>3, <1>4, <1>16 DEF RefillTrim, At, Updating, UpdateKnows, s, docs
  <2> HIDE DEF ks
  <2>2. vectors[n] # NoIndex
    BY <2>1 DEF VectorsHold, Dimensioned
  <2>3. /\ vectors'[n] # NoIndex /\ vectors'[n].dim = vectors[n].dim
        /\ \A k \in Keys : vectors'[n].vecs[k] = IF k \in ks THEN NoDoc ELSE vectors[n].vecs[k]
    BY <1>1, <2>1, <2>2, VectorEffects
  <2>4. VectorsHold(vectors'[n], s.dim, NoDocs)
    BY <2>1, <2>3 DEF VectorsHold, Dimensioned, VectorOf, NoDocs
  <2>5. Knows2
    BY <2>1, <2>4 DEF UpdateKnows, s, docs
  <2>6. QED
    BY <2>1, <2>5 DEF Goal
<1>17. CASE RefillVectors(c)
  <2>1. /\ pc[c] = "refill_vectors" /\ EmptyEntry(storage[n], s) /\ s.dim # 0
        /\ EngineHolds(engine[n], docs) /\ VectorsHold(vectors[n], s.dim, NoDocs)
        /\ vectors' = VectorsUpsert(vectors, n, docs) /\ UNCHANGED <<storage, engine, alias>>
    BY <1>3, <1>17 DEF RefillVectors, At, Updating, UpdateKnows, s, docs
  <2>2. CASE RollBack(c, 500)
    BY <1>6, <2>1, <2>2
  <2>3. CASE VectorsAccept(vectors, n, docs) /\ Goto(c, "refill_storage") /\ UNCHANGED job
    <3>1. vectors[n] # NoIndex /\ vectors[n].dim = s.dim
      BY <2>1 DEF VectorsHold, Dimensioned
    <3>2. /\ vectors'[n] # NoIndex /\ vectors'[n].dim = s.dim
          /\ \A k \in Keys : vectors'[n].vecs[k] =
               IF docs[k] # NoDoc /\ HasVector(docs[k]) THEN docs[k].vec ELSE vectors[n].vecs[k]
      BY <1>1, <1>2, <2>1, <2>3, <3>1, VectorEffects
    <3>3. VectorsHold(vectors'[n], s.dim, docs)
      BY <2>1, <3>2 DEF VectorsHold, Dimensioned, VectorOf, NoDocs
    <3>4. pc'[c] = "refill_storage" /\ job'[c] = job[c]
      BY <1>4, <2>3
    <3>5. Knows2
      BY <2>1, <3>3, <3>4 DEF UpdateKnows, s, docs
    <3>6. QED
      BY <2>1, <3>4, <3>5 DEF Goal
  <2>4. QED
    BY <1>17, <2>2, <2>3 DEF RefillVectors, docs
<1>18. CASE RefillStorage(c)
  <2>1. /\ pc[c] = "refill_storage" /\ EmptyEntry(storage[n], s)
        /\ EngineHolds(engine[n], docs) /\ VectorsHold(vectors[n], s.dim, docs)
    BY <1>3, <1>18 DEF RefillStorage, At, Updating, UpdateKnows, s, docs
  <2>2. /\ storage' = StoragePutDocuments(storage, n, docs) /\ Return(c, 201)
        /\ UNCHANGED <<engine, vectors, alias>>
    BY <1>18, <2>1 DEF RefillStorage, EmptyEntry, docs
  <2>3. /\ storage'[n] # NoIndex /\ storage'[n].schema = s
        /\ \A k \in Keys : storage'[n].docs[k] =
             IF docs[k] # NoDoc THEN docs[k] ELSE storage[n].docs[k]
    BY <1>1, <1>2, <2>1, <2>2, StorageEffects DEF EmptyEntry
  <2>4. \A k \in Keys : storage'[n].docs[k] = docs[k]
    BY <2>1, <2>3 DEF EmptyEntry, NoDocs
  <2>5. Repaired(storage'[n], engine'[n], vectors'[n])
    BY <2>1, <2>2, <2>3, <2>4 DEF Repaired, EngineHolds, VectorsHold
  <2>6. QED
    BY <1>4, <2>2, <2>5 DEF Goal
<1>19. CASE RollbackStorage(c)
  <2>1. /\ storage' = StorageDeleteIndex(storage, n) /\ alias' = alias
        /\ pc'[c] = "rollback_engine" /\ job'[c] = job[c]
    BY <1>4, <1>19 DEF RollbackStorage
  <2>2. storage'[n] = NoIndex
    BY <1>1, <2>1, StorageEffects
  <2>3. Knows2
    BY <2>1, <2>2 DEF UpdateKnows, Updating
  <2>4. QED
    BY <2>1, <2>3 DEF Goal
<1>20. CASE RollbackEngine(c)
  <2>1. /\ engine' = EngineDeleteIndex(engine, n) /\ storage' = storage /\ alias' = alias
        /\ storage[n] = NoIndex /\ pc'[c] = "rollback_vectors" /\ job'[c] = job[c]
    BY <1>4, <1>20 DEF RollbackEngine, At, UpdateKnows
  <2>2. engine'[n] = NoIndex
    BY <1>1, <2>1, EngineEffects
  <2>3. Knows2
    BY <2>1, <2>2 DEF UpdateKnows, Updating
  <2>4. QED
    BY <2>1, <2>3 DEF Goal
<1>21. CASE RollbackVectors(c)
  <2>1. /\ vectors' = VectorsDeleteIndex(vectors, n) /\ UNCHANGED <<storage, engine, alias>>
        /\ storage[n] = NoIndex /\ engine[n] = NoIndex /\ pc'[c] = "idle"
    BY <1>4, <1>21 DEF RollbackVectors, At, UpdateKnows
  <2>2. vectors'[n] = NoIndex
    BY <1>1, <2>1, VectorEffects
  <2>3. QED
    BY <2>1, <2>2 DEF Goal, Repaired
<1>22. pc[c] \notin {"create_storage", "delete_storage", "delete_engine", "delete_vectors",
                     "reset_storage", "reset_engine", "reset_vectors", "reset_alias"}
  BY <1>2, LabelKinds
<1>23. ~(CreateStorage(c) \/ DeleteStorage(c) \/ DeleteEngine(c) \/ DeleteVectors(c)
          \/ ResetStorage(c) \/ ResetEngine(c) \/ ResetVectors(c) \/ ResetAliases(c))
  BY <1>22 DEF CreateStorage, DeleteStorage, DeleteEngine, DeleteVectors,
               ResetStorage, ResetEngine, ResetVectors, ResetAliases, At
<1>24. QED
  BY <1>7, <1>8, <1>9, <1>10, <1>11, <1>12, <1>13, <1>14, <1>15, <1>16, <1>17, <1>18, <1>19,
     <1>20, <1>21, <1>23
  DEF LifecycleStep

-----------------------------------------------------------------------------
(* An update that has the service to itself *)

\* A request that was alone before a step and still is has taken that step.
LEMMA AloneSteps ==
    ASSUME ThreadsOK, AloneInv, HistoryNext, NEW c \in Clients, alone'[c]
    PROVE  /\ \A d \in Clients \ {c} : pc'[d] = "idle"
           /\ Start(c) \/ (Step(c) /\ alone[c])
<1>1. /\ alone[c] \/ Begins(c)
      /\ \A d \in Clients \ {c} : pc'[d] = "idle"
  BY DEF HistoryNext
<1>2. PICK d \in Clients : Start(d) \/ Step(d)
  BY DEF HistoryNext, Next
<1>3. OthersStay(d)
  BY <1>2, StepsAreOfOne
<1>4. CASE c # d
  <2>1. pc'[d] = "idle" /\ alone[c]
    BY <1>1, <1>3, <1>4 DEF Begins, OthersStay
  <2>2. pc[d] = "idle"
    BY <1>4, <2>1 DEF AloneInv
  <2>3. Start(d)
    BY <1>2, <2>2, StepKinds
  <2>4. PICK r \in Workload[d] : pc' = [pc EXCEPT ![d] = Entry(r.op)]
    BY <2>3 DEF Start
  <2>5. r \in Request
    BY WorkloadAssumption
  <2>6. Entry(r.op) # "idle"
    BY <2>5, RequestParts DEF Entry
  <2>7. pc'[d] = Entry(r.op)
    BY <2>4 DEF ThreadsOK
  <2>8. QED
    BY <2>1, <2>6, <2>7
<1>5. CASE c = d /\ Step(c)
  <2>1. pc[c] # "idle"
    BY <1>5, StepKinds
  <2>2. QED
    BY <1>1, <1>5, <2>1 DEF Begins
<1>6. QED
  BY <1>1, <1>2, <1>4, <1>5

\* A request in flight that has been alone goes on, or is answered.
LEMMA AloneAnswers ==
    ASSUME ThreadsOK, AloneInv, NEW c \in Clients, Step(c), alone[c]
    PROVE  \/ pc'[c] = "idle" /\ reply'[c].req = job[c].req
           \/ job'[c].req = job[c].req /\ reply'[c] = NoReply
<1>1. pc[c] # "idle"
  BY StepKinds
<1>2. reply[c] = NoReply
  BY <1>1 DEF AloneInv
<1>3. CASE \E s, rs, ds : Answer(c, s, rs, ds)
  BY <1>3 DEF Answer, ThreadsOK
<1>4. CASE \E l : Goto(c, l) /\ job'[c].req = job[c].req
  BY <1>2, <1>4 DEF Goto
<1>5. QED
  BY <1>1, <1>3, <1>4, StepShape

\* An update that has been alone knows what it has rebuilt so far; its answer
\* leaves the stores in agreement, or says that an alias has the name.
LEMMA AloneUpdates ==
    ASSUME Inv, AloneInv, NEW c \in Clients, Step(c), alone[c], job[c].req.op = "put"
    PROVE  /\ pc'[c] # "idle" =>
                /\ job'[c].req = job[c].req
                /\ LET n == Resolve(alias', job'[c].req.name)
                   IN  /\ pc'[c] # "resolve" => job'[c].target = n
                       /\ UpdateKnows(pc'[c], job'[c], storage'[n], engine'[n], vectors'[n])
           /\ reply'[c] # NoReply =>
                LET n == Resolve(alias', reply'[c].req.name)
                IN  /\ n \in Names /\ reply'[c].req = job[c].req
                    /\ reply'[c].status # 409 => Repaired(storage'[n], engine'[n], vectors'[n])
<1>1. ThreadsOK /\ pc[c] # "idle" /\ alias \in Aliases
  BY StepKinds DEF Inv, StoresOK
<1>2. PICK n \in Names : n = Resolve(alias, job[c].req.name)
  <2>1. job[c].req.name \in Names
    BY <1>1, InFlightParts
  <2>2. QED
    BY <1>1, <2>1 DEF Resolve, Aliases
<1>3. /\ pc[c] # "resolve" => job[c].target = n
      /\ UpdateKnows(pc[c], job[c], storage[n], engine[n], vectors[n])
  BY <1>1, <1>2 DEF AloneInv
<1>4. \/ pc'[c] = "idle" /\ reply'[c].req = job[c].req
      \/ job'[c].req = job[c].req /\ reply'[c] = NoReply
  BY <1>1, AloneAnswers
<1>5. Fits(job[c], pc[c])
  BY <1>1, InFlightParts
<1>6. ResolveName(c) \/ LifecycleStep(c)
  <2>1. pc[c] \notin WriteLabels \cup {"apply_action", "require"}
    BY <1>5, LabelKinds DEF WriteLabels
  <2>2. ~RequireIndex(c)
    BY <2>1 DEF RequireIndex, At
  <2>3. QED
    BY <1>1, <2>1, <2>2, StepKinds DEF Step, Reads
<1>7. CASE ResolveName(c)
  <2>1. alias' = alias /\ pc'[c] = "check_alias" /\ job'[c] = [job[c] EXCEPT !.target = n]
    BY <1>1, <1>2, <1>7 DEF ResolveName, Goto, stores, ThreadsOK
  <2>2. job'[c].target = n /\ job'[c].req = job[c].req
    BY <1>1, <2>1, InFlightParts DEF Job
  <2>3. UpdateKnows(pc'[c], job'[c], storage'[n], engine'[n], vectors'[n])
    BY <2>1 DEF UpdateKnows, Updating
  <2>4. reply'[c] = NoReply
    BY <1>1, <1>7 DEF ResolveName, Goto, AloneInv
  <2>5. QED
    BY <1>2, <2>1, <2>2, <2>3, <2>4
<1>8. CASE LifecycleStep(c)
  <2>1. pc[c] # "resolve"
    BY <1>8 DEF LifecycleStep, CheckAlias, CreateStorage, CreateEngine, CreateVectors, ReadOld,
      ReadPreserved, ReplaceStorage, DropEngine, DropVectors, RefillEngine, RefillTrim,
      RefillVectors, RefillStorage, RollbackStorage, RollbackEngine, RollbackVectors,
      DeleteStorage, DeleteEngine, DeleteVectors, ResetStorage, ResetEngine, ResetVectors,
      ResetAliases, At
  <2>2. /\ alias' = alias
        /\ \/ /\ pc'[c] # "idle" /\ job'[c].target = n
              /\ UpdateKnows(pc'[c], job'[c], storage'[n], engine'[n], vectors'[n])
           \/ /\ pc'[c] = "idle"
              /\ reply'[c].status = 409 \/ Repaired(storage'[n], engine'[n], vectors'[n])
    BY <1>3, <1>8, <2>1, UpdateSteps
  <2>3. CASE pc'[c] # "idle"
    BY <1>2, <1>4, <2>2, <2>3
  <2>4. CASE pc'[c] = "idle"
    BY <1>2, <1>4, <2>2, <2>4
  <2>5. QED
    BY <2>3, <2>4
<1>9. QED
  BY <1>6, <1>7, <1>8

\* Whatever an alone request knows, it still knows after a step.
LEMMA AloneKept ==
    ASSUME Inv, AloneInv, HistoryNext
    PROVE  AloneInv'
<1>1. ThreadsOK /\ WorkloadAssumption
  BY WorkloadAssumption DEF Inv
<1>2. ASSUME NEW c \in Clients, alone'[c]
      PROVE  /\ \A d \in Clients \ {c} : pc'[d] = "idle"
             /\ pc'[c] # "idle" => reply'[c] = NoReply
             /\ pc'[c] # "idle" /\ job'[c].req.op = "put" =>
                  LET n == Resolve(alias', job'[c].req.name)
                  IN  /\ pc'[c] # "resolve" => job'[c].target = n
                      /\ UpdateKnows(pc'[c], job'[c], storage'[n], engine'[n], vectors'[n])
             /\ reply'[c] # NoReply /\ reply'[c].req.op = "put" /\ reply'[c].status # 409 =>
                  LET n == Resolve(alias', reply'[c].req.name)
                  IN  n \in Names /\ Repaired(storage'[n], engine'[n], vectors'[n])
  <2>1. \A d \in Clients \ {c} : pc'[d] = "idle"
    BY <1>1, <1>2, AloneSteps
  <2>2. CASE Start(c)
    <3>1. PICK r \in Workload[c] : /\ job' = [job EXCEPT ![c] = NewJob(r)]
                                   /\ pc' = [pc EXCEPT ![c] = Entry(r.op)]
                                   /\ reply' = [reply EXCEPT ![c] = NoReply]
      BY <2>2 DEF Start
    <3>2. pc'[c] = Entry(r.op) /\ job'[c].req = r /\ reply'[c] = NoReply
      BY <1>1, <3>1 DEF ThreadsOK, NewJob
    <3>3. r.op = "put" => pc'[c] = "resolve"
      BY <3>2 DEF Entry
    <3>4. \A j, st, en, ve : UpdateKnows("resolve", j, st, en, ve)
      BY DEF UpdateKnows, Updating
    <3>5. QED
      BY <2>1, <3>2, <3>3, <3>4
  <2>3. CASE Step(c) /\ alone[c]
    <3>1. \/ pc'[c] = "idle" /\ reply'[c].req = job[c].req
          \/ job'[c].req = job[c].req /\ reply'[c] = NoReply
      BY <1>1, <2>3, AloneAnswers
    <3>2. CASE job[c].req.op # "put"
      BY <2>1, <3>1, <3>2
    <3>3. CASE job[c].req.op = "put"
      BY <2>1, <2>3, <3>1, <3>3, AloneUpdates
    <3>4. QED
      BY <3>2, <3>3
  <2>4. QED
    BY <1>1, <1>2, <2>2, <2>3, AloneSteps
<1>3. ASSUME NEW c \in Clients, NEW n \in Names, n = Resolve(alias', reply'[c].req.name),
             Repaired(storage'[n], engine'[n], vectors'[n])
      PROVE  \A k \in Keys : AgreeOn(Resolve(alias, reply[c].req.name), k)'
  BY <1>3 DEF Repaired, EngineHolds, VectorsHold, Dimensioned, AgreeOn
<1>4. QED
  BY <1>2, <1>3 DEF AloneInv

\* An update that has the service to itself ends with the three stores in
\* agreement about its index, whatever state it found them in: rebuilt, or
\* gone everywhere (create_or_update_index, rollback_index_state).
THEOREM UpdatesRepair == HistorySpec => []UpdateRepairs
<1>1. HistoryInit => HistoryInv /\ AloneInv
  BY HistoryInvHolds DEF HistoryInit, AloneInv
<1>2. HistoryInv /\ AloneInv /\ [HistoryNext]_historyVars => (HistoryInv /\ AloneInv)'
  <2>1. HistoryInv /\ AloneInv /\ HistoryNext => AloneInv'
    BY AloneKept DEF HistoryInv
  <2>2. AloneInv /\ UNCHANGED historyVars => AloneInv'
    BY DEF AloneInv, AgreeOn, historyVars, vars
  <2>3. QED
    BY <2>1, <2>2, HistoryInvHolds
<1>3. AloneInv => UpdateRepairs
  BY DEF AloneInv, UpdateRepairs
<1>4. QED
  BY <1>1, <1>2, <1>3, PTL DEF HistorySpec, historyVars

=============================================================================
