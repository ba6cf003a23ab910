------------------------------- MODULE MCBatch -------------------------------
(***************************************************************************)
(* BatchOrder over every short sequence of actions on two keys.            *)
(***************************************************************************)
EXTENDS BatchOrder

CONSTANTS n1, k1, k2, t1, t2, v1, v2

MCVecLen == [v \in Vecs |-> IF v = v1 THEN 1 ELSE 2]

\* The text t2 is made of stop words.
MCEmbedding == [t \in Texts |-> [n \in Dims |-> IF t = t1 /\ n = 1 THEN v1 ELSE Absent]]

MCDefinition ==
    [fields |-> {}, subfields |-> {}, dim |-> 1, vectorizer |-> TRUE, malformed |-> FALSE]

Doc(t, v) == [text |-> t, vec |-> v, parts |-> Absent]

Updates == {Doc(t1, v1), Doc(t2, Absent), Doc(Absent, v1), Doc(t1, v2)}

Offers(updates) ==
    [kind : {"upload", "merge", "mergeOrUpload"}, key : Keys, doc : updates]
      \cup [kind : {"delete"}, key : Keys, doc : {Doc(Absent, Absent)}]

MCOffered == Offers(Updates \cup {Doc(Absent, Null)})

\* Actions that no request is refused for.
MCOfferedVectors == Offers(Updates)

=============================================================================
