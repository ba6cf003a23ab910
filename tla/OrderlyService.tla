--------------------------- MODULE OrderlyService ---------------------------
(***************************************************************************)
(* The service with clients that keep out of each other's way: no two      *)
(* requests in flight write the same documents or names.  The stores have  *)
(* no lock that spans two of them, so this is what the service's promises  *)
(* to its writers rest on.                                                 *)
(***************************************************************************)
EXTENDS ServiceProperties

Reads == {"search", "get", "count"}

\* Two requests may be in flight together when one of them only reads or both
\* are batches without a key in common.
Compatible(r, q) ==
    \/ r.op \in Reads \/ q.op \in Reads
    \/ r.op = "index" /\ q.op = "index" /\ Touches(r) \cap Touches(q) = {}

\* What others must not write: what client c is writing, or has written last
\* and still counts on.
Claims(c) ==
    IF pc[c] # "idle" THEN {job[c].req}
    ELSE IF reply[c] # NoReply /\ reply[c].req.op = "index" THEN {reply[c].req} ELSE {}

Orderly ==
    \A c, d \in Clients : c # d => \A r \in Claims(c), q \in Claims(d) : Compatible(r, q)

OrderlySpec == Init /\ [][Next /\ Orderly']_vars

=============================================================================
