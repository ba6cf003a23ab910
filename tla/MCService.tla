------------------------------ MODULE MCService ------------------------------
(***************************************************************************)
(* Instances of the service for TLC: one set of names, keys, texts and     *)
(* vectors, and a workload per question.                                   *)
(***************************************************************************)
EXTENDS OrderlyService

CONSTANTS n1, n2, k1, k2, k3, t1, t2, v1, v2, p1, p2, w1, w2

MCVecLen == [v \in Vecs |-> IF v = v1 THEN 1 ELSE 2]

\* The text t2 is made of stop words.
MCEmbedding == [t \in Texts |-> [n \in Dims |->
    IF t = t1 /\ n = 1 THEN v1 ELSE IF t = t1 /\ n = 2 THEN v2 ELSE Absent]]

Plain   == [fields |-> {}, subfields |-> {}, dim |-> 0, vectorizer |-> FALSE, malformed |-> FALSE]
Vector1 == [Plain EXCEPT !.dim = 1, !.vectorizer = TRUE]
Vector2 == [Plain EXCEPT !.dim = 2]
Broken  == [Plain EXCEPT !.malformed = TRUE]

\* A definition with a complex field, and one that declares less of it.
Wide   == [Vector1 EXCEPT !.subfields = {p1, p2}]
Narrow == [Vector1 EXCEPT !.subfields = {p1}, !.vectorizer = FALSE]

NoFields == [text |-> Absent, vec |-> Absent, parts |-> Absent]
DocA == [NoFields EXCEPT !.text = t1, !.vec = v1]
DocB == [NoFields EXCEPT !.text = t2]
DocC == [NoFields EXCEPT !.text = t2, !.vec = v1]
DocP == [NoFields EXCEPT !.text = t2, !.parts = {p2}]
DocNull == [NoFields EXCEPT !.vec = Null]

Upload(k, d)        == [kind |-> "upload", key |-> k, doc |-> d]
Merge(k, d)         == [kind |-> "merge", key |-> k, doc |-> d]
MergeOrUpload(k, d) == [kind |-> "mergeOrUpload", key |-> k, doc |-> d]
Delete(k)           == [kind |-> "delete", key |-> k, doc |-> NoFields]

Index(n, actions) == [op |-> "index", name |-> n, actions |-> actions]
Create(n, s)      == [op |-> "create", name |-> n, schema |-> s]
Put(n, s)         == [op |-> "put", name |-> n, schema |-> s]
Drop(n)           == [op |-> "delete", name |-> n]
Get(n, k)         == [op |-> "get", name |-> n, key |-> k]
Count(n)          == [op |-> "count", name |-> n]
Search(n, t, v)   == [op |-> "search", name |-> n, query |-> [text |-> t, vector |-> v]]
CreateAlias(n, t) == [op |-> "createAlias", name |-> n, target |-> t]
PutAlias(n, t)    == [op |-> "putAlias", name |-> n, target |-> t]
DropAlias(n)      == [op |-> "deleteAlias", name |-> n]
Reset             == [op |-> "reset"]

BootNone    == [n \in Names |-> NoIndex]
BootPlain   == [n \in Names |-> IF n = n1 THEN Plain ELSE NoIndex]
BootVector1 == [n \in Names |-> IF n = n1 THEN Vector1 ELSE NoIndex]

-----------------------------------------------------------------------------
(* Writes that do not touch the same documents.  Null vectors are sent     *)
(* with a text that fills them in and, under k3 alone, without one.        *)

OrderlyWorkload == [c \in Clients |->
    IF c = w1
    THEN {Create(n1, Wide), Create(n2, Plain), Put(n1, Plain), Put(n1, Narrow),
          Drop(n1), CreateAlias(n2, n1), PutAlias(n2, n1), DropAlias(n2), Reset,
          Index(n1, <<Upload(k1, DocA), Upload(k2, DocP)>>),
          Index(n2, <<Delete(k1), MergeOrUpload(k2, DocC)>>),
          Index(n1, <<Upload(k1, DocC), Merge(k1, [DocNull EXCEPT !.text = t1])>>),
          Index(n1, <<Upload(k1, [DocA EXCEPT !.vec = v2]), Delete(k1)>>)}
    ELSE {Search(n2, Absent, 1), Get(n1, k1), Count(n2),
          Index(n1, <<Merge(k2, DocC)>>), Index(n1, <<Upload(k3, DocNull)>>),
          Index(n1, <<Delete(k2), MergeOrUpload(k2, [NoFields EXCEPT !.vec = v1])>>)}]

-----------------------------------------------------------------------------
(* Two clients that do anything at any time. *)

AnythingWorkload == [c \in Clients |->
    {Create(n1, Vector1), Put(n1, Vector2), Put(n1, Plain), Drop(n1), Reset,
     Index(n1, <<Upload(k1, DocA)>>),
     Index(n1, <<Merge(k1, DocB), Delete(k1)>>), Index(n1, <<Merge(k1, DocNull)>>),
     Put(n1, Broken), Search(n1, t2, 1)}]

-----------------------------------------------------------------------------
(* Pairs of requests that overlap. *)

\* Two writers of one document.
SameKeyWorkload == [c \in Clients |->
    {Index(n1, <<Upload(k1, IF c = w1 THEN DocA ELSE DocB)>>)}]

\* An update in place that changes nothing, and an upload.
UpdateWorkload == [c \in Clients |->
    IF c = w1 THEN {Put(n1, Vector1)} ELSE {Index(n1, <<Upload(k1, DocA)>>)}]

\* An update in place with a vectorSearch section that does not parse.
MalformedWorkload == [c \in Clients |->
    IF c = w1 THEN {Put(n1, Broken)} ELSE {Index(n1, <<Upload(k1, DocB)>>)}]

\* An index and an alias of the same name.
NamespaceWorkload == [c \in Clients |->
    IF c = w1 THEN {Create(n2, Vector1)} ELSE {CreateAlias(n2, n1)}]

=============================================================================
