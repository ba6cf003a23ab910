---------------------------- MODULE SearchService ----------------------------
(***************************************************************************)
(* The whole service: every client's requests, interleaved at the store    *)
(* operations, and what holds of the stores and of the answers.            *)
(***************************************************************************)
EXTENDS IndexLifecycle, DocumentIngest, DocumentReads, AliasNamespace

\* One store operation of the request client c has in flight.
Step(c) == \/ ResolveName(c) \/ RequireIndex(c)
           \/ LifecycleStep(c) \/ IngestStep(c) \/ ReadStep(c) \/ AliasStep(c)

Next == \E c \in Clients : Start(c) \/ Step(c)

Spec == Init /\ [][Next]_vars

\* A worker thread that runs a handler keeps running it: every store lock is
\* held for one operation only, and no handler waits for another.  Clients
\* send requests when they like.
Fairness == \A c \in Clients : WF_vars(Step(c))

-----------------------------------------------------------------------------
(* Type invariant *)

Rollback == {"rollback_storage", "rollback_engine", "rollback_vectors"}

\* The store operations a request of each kind goes through.
Labels(op) ==
    CASE op = "create" -> {"check_alias", "create_storage", "create_engine",
                           "create_vectors"} \cup Rollback
      [] op = "put"    -> {"resolve", "check_alias", "read_old", "read_preserved",
                           "replace_storage", "drop_engine", "create_engine",
                           "drop_vectors", "create_vectors", "refill_engine",
                           "refill_trim", "refill_vectors", "refill_storage"} \cup Rollback
      [] op = "delete" -> {"resolve", "delete_storage", "delete_engine", "delete_vectors"}
      [] op = "index"  -> {"resolve", "require", "apply_action", "engine_delete",
                           "engine_index", "vectors_delete", "vectors_trim",
                           "vectors_upsert", "storage_put", "storage_delete"}
      [] op = "search" -> {"parse_resolve", "parse_require", "resolve", "require",
                           "search_documents", "search_vectors", "search_engine"}
      [] op \in {"get", "count"} -> {"resolve", "require", "read_documents"}
      [] op \in {"createAlias", "putAlias"} -> {"check_index", "store_alias"}
      [] op = "deleteAlias" -> {"delete_alias"}
      [] op = "reset" -> {"reset_storage", "reset_engine", "reset_vectors", "reset_alias"}

\* The labels at which the thread holds no definition yet, or never needs one.
NoSchemaLabels == {"parse_resolve", "parse_require", "resolve", "require",
                   "delete_storage", "delete_engine", "delete_vectors",
                   "check_index", "store_alias", "delete_alias",
                   "reset_storage", "reset_engine", "reset_vectors", "reset_alias"}

\* Request j may be about to perform the operation label: it is one of its
\* own, and the thread holds the name and the definition the operation reads.
Fits(j, label) ==
    /\ j \in Job
    /\ label \in Labels(j.req.op)
    /\ j.req.op # "reset" => j.target \in Names
    /\ label \notin NoSchemaLabels \/ j.req.op \in {"create", "put"} => j.schema \in Schemas
    /\ j.req.op = "create" => j.docs = NoDocs

StoresOK ==
    /\ storage \in Storage
    /\ engine \in Engine
    /\ vectors \in Vectors
    /\ alias \in Aliases

ThreadsOK ==
    /\ pc = [c \in Clients |-> pc[c]]
    /\ job \in [Clients -> Job \cup {NoJob}]
    /\ reply \in [Clients -> Reply \cup {NoReply}]
    /\ \A c \in Clients : pc[c] # "idle" => Fits(job[c], pc[c])

\* Each store maps names to entries of its own kind, and each request in
\* flight is at an operation of its own kind and holds what it reads next.
TypeOK == StoresOK /\ ThreadsOK

=============================================================================
