-------------------------- MODULE ServiceProperties --------------------------
(***************************************************************************)
(* What must hold of the stores and of the answers.  Some of it holds      *)
(* whatever the clients do, some only while no two requests write the same *)
(* thing at once: the runs say which, and under which workload.            *)
(***************************************************************************)
EXTENDS SearchService

\* The three stores tell the same story about index n and key k.
AgreeOn(n, k) ==
    IF storage[n] = NoIndex
    THEN engine[n] = NoIndex /\ vectors[n] = NoIndex
    ELSE /\ engine[n] # NoIndex
         /\ engine[n][k] = TextOf(storage[n].docs[k])
         /\ IF storage[n].schema.dim = 0
            THEN vectors[n] = NoIndex
            ELSE /\ vectors[n] # NoIndex
                 /\ vectors[n].dim = storage[n].schema.dim
                 /\ vectors[n].vecs[k] = VectorOf(storage[n].docs[k])

\* The keys a request may change the documents of.
Touches(r) == IF r.op = "index" THEN {r.actions[i].key : i \in DOMAIN r.actions}
              ELSE IF r.op \in {"create", "put", "delete", "reset"} THEN Keys
              ELSE {}

InFlight == {c \in Clients : pc[c] # "idle"}

BusyKeys == UNION {Touches(job[c].req) : c \in InFlight}

AllRequests == UNION {Workload[c] : c \in Clients}

\* Document d of an action leaves its vector null unless its text, whatever
\* the dimension of the field, yields a vector to fill in.
MayStayNull(d) == d.vec = Null /\ \E n \in Dims \ {0} : ~Embeds(d.text, n)

\* Request r may fail for a null vector, after the engine has taken it.
NullRequest(r) ==
    r.op = "index" /\ \E i \in DOMAIN r.actions :
        r.actions[i].kind # "delete" /\ MayStayNull(r.actions[i].doc)

\* The keys of the batches that may.
NullKeys == UNION {Touches(r) : r \in {r \in AllRequests : NullRequest(r)}}

\* Storage, engine and vectors agree on every key no request in flight may
\* be writing: every handler that touched the key left the three stores with
\* the same outcome (index_documents, "every backend converges on the same
\* outcome"; create_or_update_index, "so storage/engine/vectors never diverge").
\* Left out are the keys of batches that may fail for a null vector: those
\* the engine may have and the other stores not, until they are written again.
StoresAgreeAtRest == \A n \in Names, k \in Keys \ (BusyKeys \cup NullKeys) : AgreeOn(n, k)

\* No stored vector has another length than its vector index declares,
\* whatever requests race: upsert_many checks the length under the lock that
\* the index is replaced under (VectorIndex::upsert_many).
VectorLengthsFit ==
    \A n \in Names : vectors[n] # NoIndex =>
        \A k \in Keys : vectors[n].vecs[k] # NoDoc => VecLen[vectors[n].vecs[k]] = vectors[n].dim

\* No name is both an index and an alias (check_alias_collision and
\* reject_alias_index_collision, "neither may shadow the other").
NamespaceDisjoint == \A n \in Names : storage[n] = NoIndex \/ alias[n] = NoAlias

\* No request fails half way while lifecycle requests do not overlap: no
\* index is rolled back, and 500 is answered only to a batch that sends a
\* null vector without a text to fill it in from (create_vector_indexes, "a
\* failure here is defensive"; apply_vector_changes, "Vectors are validated
\* before this point").
NoRollback ==
    \A c \in Clients :
        /\ pc[c] \notin Rollback
        /\ reply[c] # NoReply /\ reply[c].status = 500 => NullRequest(reply[c].req)

-----------------------------------------------------------------------------
(* Acknowledged writes *)

\* The last action of an answered batch that succeeded on key k.
LastWrite(c, k) ==
    LET good == {i \in DOMAIN reply[c].results :
                    /\ reply[c].results[i].key = k
                    /\ reply[c].results[i].status \in {200, 201}}
    IN  {reply[c].req.actions[i] : i \in {i \in good : \A j \in good : j <= i}}

\* The vectors that may be generated for document d.
VectorsFor(d) == {Embedding[d.text][n] : n \in {n \in Dims : Embeds(d.text, n)}}

\* Document d holds what sent says: a vector that was sent stays, one sent as
\* null has been filled in from the text.
Carries(d, sent) ==
    /\ sent.text # Absent => d.text = sent.text
    /\ sent.parts # Absent => d.parts = sent.parts
    /\ HasVector(sent) => d.vec = sent.vec
    /\ sent.vec = Null => d.vec \in VectorsFor(d)

\* d is what a successful action leaves under its key.  An upload leaves
\* nothing else in the document, but for a vector generated from its text.
Honours(d, a) ==
    CASE a.kind = "delete" -> d = NoDoc
      [] a.kind = "upload" -> /\ d # NoDoc /\ Carries(d, a.doc)
                              /\ d.text = a.doc.text /\ d.parts = a.doc.parts
                              /\ d.vec \in {a.doc.vec} \cup VectorsFor(d)
      [] OTHER -> d # NoDoc /\ Carries(d, a.doc)

\* Once a batch is answered its results stay true: until the client that sent
\* it sends something else, storage holds what the last successful action on
\* each key said, for every key no request in flight may be writing
\* (index_documents, one result per action).
AcknowledgedWritesHold ==
    \A c \in Clients :
        (reply[c] # NoReply /\ reply[c].req.op = "index" /\ reply[c].status = 200) =>
            \A k \in Keys \ BusyKeys : \A a \in LastWrite(c, k) :
                LET n == Resolve(alias, reply[c].req.name)
                IN  storage[n] # NoIndex /\ Honours(storage[n].docs[k], a)

-----------------------------------------------------------------------------
(* The service as one catalog *)

\* The labels of an update in place between discarding the documents and
\* putting them back: the thread's stack is where they live.
Updating == {"drop_engine", "create_engine", "drop_vectors", "create_vectors",
             "refill_engine", "refill_trim", "refill_vectors", "refill_storage"}

\* Also when such an update fails, until the index is gone.
Carrying == Updating \cup {"rollback_storage"}

\* The documents an index has, seen as a whole: those an update in place is
\* carrying over count as present, those a batch is about to delete (its
\* additions are in) as gone.
CatalogDocs(n) ==
    [k \in Keys |->
        IF \E c \in Clients : pc[c] = "storage_delete" /\ job[c].target = n
                                /\ k \in job[c].batch.deletes
        THEN NoDoc
        ELSE IF \E c \in Clients : pc[c] \in Carrying /\ job[c].target = n
                                     /\ job[c].docs[k] # NoDoc
             THEN job[CHOOSE c \in Clients : pc[c] \in Carrying /\ job[c].target = n
                                               /\ job[c].docs[k] # NoDoc].docs[k]
             ELSE storage[n].docs[k]]

CatalogView ==
    [n \in Names |-> IF storage[n] = NoIndex THEN NoIndex
                     ELSE [schema |-> storage[n].schema, docs |-> CatalogDocs(n)]]

Catalog == INSTANCE IndexCatalog WITH
    catalog     <- CatalogView,
    Definitions <- {r.schema : r \in {r \in AllRequests : r.op \in {"create", "put"}}},
    Batches     <- {r.actions : r \in {r \in AllRequests : r.op = "index"}},
    Initial     <- [n \in Names |-> IF Boot[n] = NoIndex THEN NoIndex
                                    ELSE [schema |-> Boot[n], docs |-> NoDocs]]

\* The service implements the catalog: seen from its writers, every request
\* takes effect as a whole and nothing else changes a document.
ImplementsCatalog == Catalog!CatalogSpec

-----------------------------------------------------------------------------
(* Liveness *)

\* Every request in flight is answered.
RequestsAnswered == \A c \in Clients : pc[c] # "idle" ~> pc[c] = "idle"

=============================================================================
