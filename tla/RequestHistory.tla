--------------------------- MODULE RequestHistory ---------------------------
(***************************************************************************)
(* The service with two history variables.  They let a property speak of   *)
(* what happened while a request ran: which keys nobody could write, and   *)
(* whether the request had the service to itself.                          *)
(***************************************************************************)
EXTENDS ServiceProperties

VARIABLES
    quiet,  \* the keys no request could write since the client's last began
    alone   \* no other request has been in flight since it began

\* An alias that moves disturbs every key of whoever uses it.
Disturbed ==
    BusyKeys \cup (IF \E c \in InFlight : job[c].req.op \in
                                {"createAlias", "putAlias", "deleteAlias"}
                   THEN Keys ELSE {})

Begins(c) == pc[c] = "idle" /\ pc'[c] # "idle"

HistoryInit ==
    /\ Init
    /\ quiet = [c \in Clients |-> {}]
    /\ alone = [c \in Clients |-> FALSE]

HistoryNext ==
    /\ Next
    /\ quiet' = [c \in Clients |-> (IF Begins(c) THEN Keys ELSE quiet[c]) \ Disturbed']
    /\ alone' = [c \in Clients |-> /\ alone[c] \/ Begins(c)
                                   /\ \A d \in Clients \ {c} : pc'[d] = "idle"]

HistorySpec == HistoryInit /\ [][HistoryNext]_<<vars, quiet, alone>>

HistoryFairSpec == HistorySpec /\ Fairness

-----------------------------------------------------------------------------

\* Whether a search of the given query returns document d.
Matches(q, d) ==
    /\ d # NoDoc
    /\ \/ q.vector # 0 /\ HasVector(d)
       \/ q.text # Absent /\ d.text = q.text
       \/ q.text = Absent /\ q.vector = 0

\* A search takes five locks one after the other, yet it is exact on every
\* key that nobody wrote since it began and about which the stores agree: the
\* key is in the answer, with the stored document, just when that document
\* matches (engine commit and reload, "immediately searchable"; execute_plan).
SearchExact ==
    \A c \in Clients : (reply[c] # NoReply /\ reply[c].req.op = "search") =>
        LET r == reply[c].req
            n == Resolve(alias, r.name)
        IN  \A k \in {k \in quiet[c] : AgreeOn(n, k)} :
              CASE reply[c].status = 200 ->
                     /\ storage[n] # NoIndex
                     /\ reply[c].docs[k] = IF Matches(r.query, storage[n].docs[k])
                                           THEN storage[n].docs[k] ELSE NoDoc
                [] reply[c].status = 404 -> storage[n] = NoIndex
                [] OTHER -> storage[n] # NoIndex /\ storage[n].schema.dim # r.query.vector

\* An update of an index that runs alone makes the three stores agree about
\* it again, however they had drifted apart: it is answered 201 with the
\* stores rebuilt from the preserved documents, or with an error and the
\* index gone everywhere (create_or_update_index, "so storage/engine/vectors
\* never diverge").  A create does not have this: it leaves the vector store
\* alone when its definition has no vector field.
UpdateRepairs ==
    \A c \in Clients :
        (alone[c] /\ reply[c] # NoReply /\ reply[c].req.op = "put" /\ reply[c].status # 409) =>
            \A k \in Keys : AgreeOn(Resolve(alias, reply[c].req.name), k)

=============================================================================
