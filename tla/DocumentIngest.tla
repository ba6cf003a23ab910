--------------------------- MODULE DocumentIngest ---------------------------
(***************************************************************************)
(* index_documents: the batch is folded action by action against storage,  *)
(* then applied to the engine, the vector store and storage, in that order *)
(* and under a separate lock each time.                                    *)
(***************************************************************************)
EXTENDS ServiceState

\* The action after those that already have a result.
NextAction(c) == job[c].req.actions[Len(job[c].batch.results) + 1]

\* Every action appends one result, so the results say which action is next.
MoreActions(c) == Len(job[c].batch.results) < Len(job[c].req.actions)

\* The operations of the write phase that the batch needs, in the order the
\* handler performs them: the engine's deletions and additions, the vector
\* store's deletions, trims and additions (only when the definition has a
\* vector field), storage's additions and deletions.  Trims and additions
\* are collected first, and a null vector ends the request there.
Phases == <<"engine_delete", "engine_index", "vectors_delete", "vectors_trim",
            "vectors_upsert", "storage_put", "storage_delete">>

\* The documents that bring no vector: they lose the old one, or end the
\* request with their null.
Unindexed(b) == VectorRemovals(b) \cup NullVectors(b)

\* Mutant of Needed: storage keeps the documents the batch deletes.
NeededWithoutStorageDelete(c, phase) ==
    LET b == job[c].batch
    IN  CASE phase = "engine_delete"  -> b.deletes # {}
          [] phase = "vectors_delete" -> job[c].schema.dim # 0 /\ b.deletes # {}
          [] phase = "vectors_trim"   -> job[c].schema.dim # 0 /\ Unindexed(b) # {}
          [] phase = "vectors_upsert" -> job[c].schema.dim # 0 /\ VectorEntries(b) # {}
          [] phase = "storage_delete" -> FALSE
          [] OTHER                    -> Upserted(b) # {}

Needed(c, phase) ==
    LET b == job[c].batch
    IN  CASE phase = "engine_delete"  -> b.deletes # {}
          [] phase = "engine_index"   -> Upserted(b) # {}
          [] phase = "vectors_delete" -> job[c].schema.dim # 0 /\ b.deletes # {}
          [] phase = "vectors_trim"   -> job[c].schema.dim # 0 /\ Unindexed(b) # {}
          [] phase = "vectors_upsert" -> job[c].schema.dim # 0 /\ VectorEntries(b) # {}
          [] phase = "storage_put"    -> Upserted(b) # {}
          [] phase = "storage_delete" -> b.deletes # {}

\* Mutant of NeededAfter: the phase just done counts as still to do.
NeededAgain(c, i) == {j \in DOMAIN Phases : j >= i /\ Needed(c, Phases[j])}

NeededAfter(c, i) == {j \in DOMAIN Phases : j > i /\ Needed(c, Phases[j])}

\* Continue with the first needed phase after the i-th, or answer 200 with
\* one result per action.
Proceed(c, i) ==
    \/ /\ NeededAfter(c, i) = {}
       /\ Answer(c, 200, job[c].batch.results, NoDocs)
    \/ \E j \in NeededAfter(c, i) :
         /\ \A k \in NeededAfter(c, i) : j <= k
         /\ Goto(c, Phases[j])
         /\ UNCHANGED job

-----------------------------------------------------------------------------

\* One action of the batch.  Only merges and deletes of a key that is not
\* pending read storage; if the index is gone by then a delete fails the
\* request, a merge gets a 400 result and an upload does not notice.
FoldAction(c) ==
    /\ At(c, "apply_action")
    /\ MoreActions(c)
    /\ UNCHANGED stores
    /\ LET a == NextAction(c)
           b == job[c].batch
           entry == storage[job[c].target]
           lost == entry = NoIndex /\ a.kind # "upload" /\ b.upserts[a.key] = NoDoc
       IN  \/ /\ lost /\ a.kind = "delete"
              /\ Return(c, 404)
           \/ /\ lost /\ a.kind # "delete"
              /\ job' = [job EXCEPT ![c].batch = Respond(b, a.key, 400)]
              /\ Goto(c, "apply_action")
           \/ /\ ~lost
              /\ job' = [job EXCEPT ![c].batch =
                            ApplyAction(job[c].schema,
                                        IF entry = NoIndex THEN NoDocs ELSE entry.docs,
                                        b, a)]
              /\ Goto(c, "apply_action")

\* The batch is complete; an empty one touches no store.
BeginWrites(c) ==
    /\ At(c, "apply_action")
    /\ ~MoreActions(c)
    /\ Proceed(c, 0)
    /\ UNCHANGED stores

\* The engine reports an index it does not have; storage is untouched then.
WriteEngineDelete(c) ==
    /\ At(c, "engine_delete")
    /\ UNCHANGED <<storage, vectors, alias>>
    /\ \/ /\ engine[job[c].target] = NoIndex
          /\ Return(c, 404)
          /\ UNCHANGED engine
       \/ /\ engine[job[c].target] # NoIndex
          /\ engine' = EngineDeleteDocuments(engine, job[c].target, job[c].batch.deletes)
          /\ Proceed(c, 1)

WriteEngineIndex(c) ==
    /\ At(c, "engine_index")
    /\ UNCHANGED <<storage, vectors, alias>>
    /\ \/ /\ engine[job[c].target] = NoIndex
          /\ Return(c, 404)
          /\ UNCHANGED engine
       \/ /\ engine[job[c].target] # NoIndex
          /\ engine' = EngineIndexDocuments(engine, job[c].target, job[c].batch.upserts)
          /\ Proceed(c, 2)

WriteVectorsDelete(c) ==
    /\ At(c, "vectors_delete")
    /\ vectors' = VectorsRemove(vectors, job[c].target, job[c].batch.deletes)
    /\ Proceed(c, 3)
    /\ UNCHANGED <<storage, engine, alias>>

\* A null vector fails the request after the engine has been changed: nothing
\* is trimmed, and no store is written any more.
WriteVectorsTrim(c) ==
    /\ At(c, "vectors_trim")
    /\ UNCHANGED <<storage, engine, alias>>
    /\ \/ /\ NullVectors(job[c].batch) # {}
          /\ Return(c, 500)
          /\ UNCHANGED vectors
       \/ /\ NullVectors(job[c].batch) = {}
          /\ vectors' = VectorsRemove(vectors, job[c].target, VectorRemovals(job[c].batch))
          /\ Proceed(c, 4)

\* A vector of the wrong length (the definition changed meanwhile) fails the
\* request after the engine has been changed.
WriteVectorsUpsert(c) ==
    /\ At(c, "vectors_upsert")
    /\ vectors' = VectorsUpsert(vectors, job[c].target, job[c].batch.upserts)
    /\ UNCHANGED <<storage, engine, alias>>
    /\ \/ /\ ~VectorsAccept(vectors, job[c].target, job[c].batch.upserts)
          /\ Return(c, 500)
       \/ /\ VectorsAccept(vectors, job[c].target, job[c].batch.upserts)
          /\ Proceed(c, 5)

WriteStoragePut(c) ==
    /\ At(c, "storage_put")
    /\ UNCHANGED <<engine, vectors, alias>>
    /\ \/ /\ storage[job[c].target] = NoIndex
          /\ Return(c, 404)
          /\ UNCHANGED storage
       \/ /\ storage[job[c].target] # NoIndex
          /\ storage' = StoragePutDocuments(storage, job[c].target, job[c].batch.upserts)
          /\ Proceed(c, 6)

WriteStorageDelete(c) ==
    /\ At(c, "storage_delete")
    /\ UNCHANGED <<engine, vectors, alias>>
    /\ \/ /\ storage[job[c].target] = NoIndex
          /\ Return(c, 404)
          /\ UNCHANGED storage
       \/ /\ storage[job[c].target] # NoIndex
          /\ storage' = StorageDeleteDocuments(storage, job[c].target, job[c].batch.deletes)
          /\ Proceed(c, 7)

IngestStep(c) ==
    \/ FoldAction(c) \/ BeginWrites(c)
    \/ WriteEngineDelete(c) \/ WriteEngineIndex(c)
    \/ WriteVectorsDelete(c) \/ WriteVectorsTrim(c) \/ WriteVectorsUpsert(c)
    \/ WriteStoragePut(c) \/ WriteStorageDelete(c)

=============================================================================
