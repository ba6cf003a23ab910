---------------------------- MODULE ServiceState ----------------------------
(***************************************************************************)
(* The state of the emulator while requests run.  Handlers run in parallel *)
(* on the worker threads and call SearchService synchronously; there is no *)
(* lock above the stores, so a request is a sequence of atomic store       *)
(* operations and other requests' operations fall between any two of them. *)
(*                                                                         *)
(* A client has at most one request in flight.  job[c] is what the thread  *)
(* that serves it holds on its stack; pc[c] names the store operation it   *)
(* performs next.                                                          *)
(***************************************************************************)
EXTENDS DocumentBatch, FiniteSets

CONSTANTS
    Clients,    \* concurrent request issuers
    Workload,   \* the requests each client may send
    Boot,       \* the indexes that exist, empty, when the run begins
    NoSchema, NoName, NoJob, NoReply

VARIABLES
    storage, engine, vectors, alias,    \* the stores
    pc, job,                            \* the requests in flight
    reply                               \* the last answer each client got

stores == <<storage, engine, vectors, alias>>
vars   == <<storage, engine, vectors, alias, pc, job, reply>>

-----------------------------------------------------------------------------
(* Requests *)

\* text Absent is a match-all search; vector is the length of the query
\* vector, 0 when the search has no vector query.
Query == [text : Texts \cup {Absent}, vector : Dims]

DefineRequest == [op : {"create", "put"}, name : Names, schema : Schemas]
NameRequest   == [op : {"delete", "count", "deleteAlias"}, name : Names]
IndexRequest  == [op : {"index"}, name : Names, actions : Seq(Action)]
GetRequest    == [op : {"get"}, name : Names, key : Keys]
SearchRequest == [op : {"search"}, name : Names, query : Query]
AliasRequest  == [op : {"createAlias", "putAlias"}, name : Names, target : Names]
ResetRequest  == [op : {"reset"}]

Request == DefineRequest \cup NameRequest \cup IndexRequest \cup GetRequest
             \cup SearchRequest \cup AliasRequest \cup ResetRequest

ASSUME WorkloadAssumption ==
    /\ DOMAIN Workload = Clients
    /\ \A c \in Clients : \A r \in Workload[c] : r \in Request
ASSUME BootAssumption == Boot \in [Names -> Schemas \cup {NoIndex}]
ASSUME SentinelAssumption == /\ NoSchema \notin Schemas
                             /\ NoName \notin Names
                             /\ NoIndex \notin Schemas

\* The first store operation of each kind of request.
Entry(op) ==
    CASE op = "create"                    -> "check_alias"
      [] op \in {"put", "delete", "index", "get", "count"} -> "resolve"
      [] op = "search"                    -> "parse_resolve"
      [] op \in {"createAlias", "putAlias"} -> "check_index"
      [] op = "deleteAlias"               -> "delete_alias"
      [] op = "reset"                     -> "reset_storage"

\* What the serving thread holds: the request; the index name it resolved;
\* the definition it works with; the batch it builds; documents it read
\* (preserved by an update, or the snapshot a search filters); keys it
\* matched; the status it will fail with once it has rolled back.
Job == [req : Request, target : Names \cup {NoName}, schema : Schemas \cup {NoSchema},
        batch : Batch, docs : DocMap, found : SUBSET Keys, failure : Statuses]

NewJob(r) ==
    [req    |-> r,
     target |-> IF r.op = "reset" THEN NoName ELSE r.name,
     schema |-> IF r.op \in {"create", "put"} THEN r.schema ELSE NoSchema,
     batch  |-> EmptyBatch,
     docs   |-> NoDocs,
     found  |-> {},
     failure |-> 500]

Reply == [req : Request, status : Statuses, results : Seq(Result), docs : DocMap]

-----------------------------------------------------------------------------
(* Building blocks of the actions *)

At(c, label)   == pc[c] = label
Goto(c, label) == pc' = [pc EXCEPT ![c] = label] /\ UNCHANGED reply

\* The handler returns: the answer leaves, the stack is gone.
Answer(c, status, results, docs) ==
    /\ reply' = [reply EXCEPT ![c] = [req |-> job[c].req, status |-> status,
                                      results |-> results, docs |-> docs]]
    /\ pc' = [pc EXCEPT ![c] = "idle"]
    /\ job' = [job EXCEPT ![c] = NoJob]

Return(c, status) == Answer(c, status, <<>>, NoDocs)

\* A client sends one of its requests.
Start(c) ==
    /\ At(c, "idle")
    /\ \E r \in Workload[c] :
         /\ job' = [job EXCEPT ![c] = NewJob(r)]
         /\ pc' = [pc EXCEPT ![c] = Entry(r.op)]
    /\ reply' = [reply EXCEPT ![c] = NoReply]
    /\ UNCHANGED stores

\* resolve_index_name: one read of the alias store.
ResolveName(c) ==
    /\ At(c, "resolve")
    /\ job' = [job EXCEPT ![c].target = Resolve(alias, job[c].req.name)]
    /\ Goto(c, CASE job[c].req.op = "put"    -> "check_alias"
                 [] job[c].req.op = "delete" -> "delete_storage"
                 [] OTHER                    -> "require")
    /\ UNCHANGED stores

\* require_index: the definition is cloned out of storage, and the rest of
\* the request works with the clone.
RequireIndex(c) ==
    /\ At(c, "require")
    /\ UNCHANGED stores
    /\ \/ /\ storage[job[c].target] = NoIndex
          /\ Return(c, 404)
       \/ /\ storage[job[c].target] # NoIndex
          /\ job' = [job EXCEPT ![c].schema = storage[job[c].target].schema]
          /\ Goto(c, CASE job[c].req.op = "index"  -> "apply_action"
                       [] job[c].req.op = "search" -> "search_documents"
                       [] OTHER                    -> "read_documents")

\* No request has run yet; each boot index is as create_index leaves it.
Init ==
    /\ storage = [n \in Names |-> IF Boot[n] = NoIndex THEN NoIndex
                                  ELSE [schema |-> Boot[n], docs |-> NoDocs]]
    /\ engine = [n \in Names |-> IF Boot[n] = NoIndex THEN NoIndex ELSE NoDocs]
    /\ vectors = [n \in Names |-> IF Boot[n] = NoIndex \/ Boot[n].dim = 0 THEN NoIndex
                                  ELSE [dim |-> Boot[n].dim, vecs |-> NoDocs]]
    /\ alias = [n \in Names |-> NoAlias]
    /\ pc = [c \in Clients |-> "idle"]
    /\ job = [c \in Clients |-> NoJob]
    /\ reply = [c \in Clients |-> NoReply]

=============================================================================
