--------------------------- MODULE IndexLifecycle ---------------------------
(***************************************************************************)
(* create_index, create_or_update_index, delete_index and reset, each as   *)
(* the sequence of store operations the service performs.                  *)
(***************************************************************************)
EXTENDS ServiceState

\* An operation on a derived store failed: remove the index, then report it.
RollBack(c, status) ==
    /\ job' = [job EXCEPT ![c].failure = status]
    /\ Goto(c, "rollback_storage")

\* check_alias_collision: an index may not take the name of an alias.
CheckAlias(c) ==
    /\ At(c, "check_alias")
    /\ UNCHANGED stores
    /\ \/ /\ alias[job[c].target] # NoAlias
          /\ Return(c, 409)
       \/ /\ alias[job[c].target] = NoAlias
          /\ Goto(c, IF job[c].req.op = "create" THEN "create_storage" ELSE "read_old")
          /\ UNCHANGED job

-----------------------------------------------------------------------------
(* create_index *)

CreateStorage(c) ==
    /\ At(c, "create_storage")
    /\ \/ /\ storage[job[c].target] # NoIndex
          /\ Return(c, 409)
          /\ UNCHANGED stores
       \/ /\ storage[job[c].target] = NoIndex
          /\ storage' = StorageInsert(storage, job[c].target, job[c].schema)
          /\ Goto(c, "create_engine")
          /\ UNCHANGED <<engine, vectors, alias, job>>

\* The engine refuses a name it already has; the index is then rolled back
\* by name, whoever created the entries that go.
CreateEngine(c) ==
    /\ At(c, "create_engine")
    /\ UNCHANGED <<storage, vectors, alias>>
    /\ \/ /\ engine[job[c].target] # NoIndex
          /\ RollBack(c, 500)
          /\ UNCHANGED engine
       \/ /\ engine[job[c].target] = NoIndex
          /\ engine' = EngineCreateIndex(engine, job[c].target)
          /\ UNCHANGED job
          /\ Goto(c, IF job[c].req.op = "create" THEN "create_vectors" ELSE "drop_vectors")

\* create_vector_indexes parses the section whether or not there is a vector
\* field.  It ends create_index and, when there are no documents to carry
\* over, create_or_update_index.
CreateVectors(c) ==
    /\ At(c, "create_vectors")
    /\ UNCHANGED <<storage, engine, alias>>
    /\ vectors' = IF job[c].schema.malformed THEN vectors
                  ELSE VectorsCreateIndex(vectors, job[c].target, job[c].schema)
    /\ \/ /\ job[c].schema.malformed
          /\ RollBack(c, 400)
       \/ /\ ~job[c].schema.malformed /\ job[c].docs = NoDocs
          /\ Return(c, 201)
       \/ /\ ~job[c].schema.malformed /\ job[c].docs # NoDocs
          /\ Goto(c, "refill_engine")
          /\ UNCHANGED job

-----------------------------------------------------------------------------
(* create_or_update_index *)

\* get_index, then schema_compatible decides whether documents are kept.
ReadOld(c) ==
    /\ At(c, "read_old")
    /\ LET old == storage[job[c].target]
       IN  Goto(c, IF old # NoIndex /\ SchemaCompatible(old.schema, job[c].schema)
                   THEN "read_preserved"
                   ELSE "replace_storage")
    /\ UNCHANGED <<stores, job>>

\* Mutant of ReadPreserved: the documents are forgotten.
ReadPreservedNothing(c) ==
    /\ At(c, "read_preserved")
    /\ Goto(c, "replace_storage")
    /\ UNCHANGED <<stores, job>>

\* get_documents is a second read: the index may be gone by now, and then
\* nothing is preserved.
ReadPreserved(c) ==
    /\ At(c, "read_preserved")
    /\ LET old == storage[job[c].target]
       IN  job' = [job EXCEPT ![c].docs = IF old = NoIndex THEN NoDocs ELSE old.docs]
    /\ Goto(c, "replace_storage")
    /\ UNCHANGED stores

\* upsert_index discards the stored documents; they return at the very end.
ReplaceStorage(c) ==
    /\ At(c, "replace_storage")
    /\ storage' = StorageInsert(storage, job[c].target, job[c].schema)
    /\ Goto(c, "drop_engine")
    /\ UNCHANGED <<engine, vectors, alias, job>>

\* Mutant of DropEngine: the old engine index stays.
DropEngineForgotten(c) ==
    /\ At(c, "drop_engine")
    /\ Goto(c, "create_engine")
    /\ UNCHANGED <<stores, job>>

DropEngine(c) ==
    /\ At(c, "drop_engine")
    /\ engine' = EngineDeleteIndex(engine, job[c].target)
    /\ Goto(c, "create_engine")
    /\ UNCHANGED <<storage, vectors, alias, job>>

\* Mutant of DropVectors: the old vectors stay.
DropVectorsForgotten(c) ==
    /\ At(c, "drop_vectors")
    /\ Goto(c, "create_vectors")
    /\ UNCHANGED <<stores, job>>

DropVectors(c) ==
    /\ At(c, "drop_vectors")
    /\ vectors' = VectorsDeleteIndex(vectors, job[c].target)
    /\ Goto(c, "create_vectors")
    /\ UNCHANGED <<storage, engine, alias, job>>

RefillEngine(c) ==
    /\ At(c, "refill_engine")
    /\ UNCHANGED <<storage, vectors, alias>>
    /\ \/ /\ engine[job[c].target] = NoIndex
          /\ RollBack(c, 404)
          /\ UNCHANGED engine
       \/ /\ engine[job[c].target] # NoIndex
          /\ engine' = EngineIndexDocuments(engine, job[c].target, job[c].docs)
          /\ UNCHANGED job
          /\ Goto(c, IF job[c].schema.dim = 0 THEN "refill_storage" ELSE "refill_trim")

\* apply_vector_changes: the vectors of documents without one go first.  A
\* null among the documents would be refused here, but no batch that leaves
\* one reaches storage.
RefillTrim(c) ==
    /\ At(c, "refill_trim")
    /\ vectors' = VectorsRemove(vectors, job[c].target,
                    {k \in Keys : job[c].docs[k] # NoDoc /\ job[c].docs[k].vec = Absent})
    /\ Goto(c, "refill_vectors")
    /\ UNCHANGED <<storage, engine, alias, job>>

RefillVectors(c) ==
    /\ At(c, "refill_vectors")
    /\ vectors' = VectorsUpsert(vectors, job[c].target, job[c].docs)
    /\ UNCHANGED <<storage, engine, alias>>
    /\ \/ /\ ~VectorsAccept(vectors, job[c].target, job[c].docs)
          /\ RollBack(c, 500)
       \/ /\ VectorsAccept(vectors, job[c].target, job[c].docs)
          /\ Goto(c, "refill_storage")
          /\ UNCHANGED job

RefillStorage(c) ==
    /\ At(c, "refill_storage")
    /\ UNCHANGED <<engine, vectors, alias>>
    /\ \/ /\ storage[job[c].target] = NoIndex
          /\ RollBack(c, 404)
          /\ UNCHANGED storage
       \/ /\ storage[job[c].target] # NoIndex
          /\ storage' = StoragePutDocuments(storage, job[c].target, job[c].docs)
          /\ Return(c, 201)

-----------------------------------------------------------------------------
(* rollback_index *)

RollbackStorage(c) ==
    /\ At(c, "rollback_storage")
    /\ storage' = StorageDeleteIndex(storage, job[c].target)
    /\ Goto(c, "rollback_engine")
    /\ UNCHANGED <<engine, vectors, alias, job>>

RollbackEngine(c) ==
    /\ At(c, "rollback_engine")
    /\ engine' = EngineDeleteIndex(engine, job[c].target)
    /\ Goto(c, "rollback_vectors")
    /\ UNCHANGED <<storage, vectors, alias, job>>

\* The error that caused the rollback is reported once all three are gone.
RollbackVectors(c) ==
    /\ At(c, "rollback_vectors")
    /\ vectors' = VectorsDeleteIndex(vectors, job[c].target)
    /\ Return(c, job[c].failure)
    /\ UNCHANGED <<storage, engine, alias>>

-----------------------------------------------------------------------------
(* delete_index *)

DeleteStorage(c) ==
    /\ At(c, "delete_storage")
    /\ \/ /\ storage[job[c].target] = NoIndex
          /\ Return(c, 404)
          /\ UNCHANGED stores
       \/ /\ storage[job[c].target] # NoIndex
          /\ storage' = StorageDeleteIndex(storage, job[c].target)
          /\ Goto(c, "delete_engine")
          /\ UNCHANGED <<engine, vectors, alias, job>>

DeleteEngine(c) ==
    /\ At(c, "delete_engine")
    /\ engine' = EngineDeleteIndex(engine, job[c].target)
    /\ Goto(c, "delete_vectors")
    /\ UNCHANGED <<storage, vectors, alias, job>>

DeleteVectors(c) ==
    /\ At(c, "delete_vectors")
    /\ vectors' = VectorsDeleteIndex(vectors, job[c].target)
    /\ Return(c, 204)
    /\ UNCHANGED <<storage, engine, alias>>

-----------------------------------------------------------------------------
(* reset clears the stores one lock at a time. *)

ResetStorage(c) ==
    /\ At(c, "reset_storage")
    /\ storage' = [n \in Names |-> NoIndex]
    /\ Goto(c, "reset_engine")
    /\ UNCHANGED <<engine, vectors, alias, job>>

ResetEngine(c) ==
    /\ At(c, "reset_engine")
    /\ engine' = [n \in Names |-> NoIndex]
    /\ Goto(c, "reset_vectors")
    /\ UNCHANGED <<storage, vectors, alias, job>>

ResetVectors(c) ==
    /\ At(c, "reset_vectors")
    /\ vectors' = [n \in Names |-> NoIndex]
    /\ Goto(c, "reset_alias")
    /\ UNCHANGED <<storage, engine, alias, job>>

ResetAliases(c) ==
    /\ At(c, "reset_alias")
    /\ alias' = [n \in Names |-> NoAlias]
    /\ Return(c, 200)
    /\ UNCHANGED <<storage, engine, vectors>>

-----------------------------------------------------------------------------

LifecycleStep(c) ==
    \/ CheckAlias(c)
    \/ CreateStorage(c) \/ CreateEngine(c) \/ CreateVectors(c)
    \/ ReadOld(c) \/ ReadPreserved(c) \/ ReplaceStorage(c)
    \/ DropEngine(c) \/ DropVectors(c)
    \/ RefillEngine(c) \/ RefillTrim(c) \/ RefillVectors(c) \/ RefillStorage(c)
    \/ RollbackStorage(c) \/ RollbackEngine(c) \/ RollbackVectors(c)
    \/ DeleteStorage(c) \/ DeleteEngine(c) \/ DeleteVectors(c)
    \/ ResetStorage(c) \/ ResetEngine(c) \/ ResetVectors(c) \/ ResetAliases(c)

=============================================================================
