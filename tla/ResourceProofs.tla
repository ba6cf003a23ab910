--------------------------- MODULE ResourceProofs ---------------------------
(***************************************************************************)
(* What the resource stores and the requests that read several of them     *)
(* promise, for any names, words, boot resources and workload.             *)
(*                                                                         *)
(* Etags: the counter of a store is never below an etag it has handed out. *)
(*                                                                         *)
(* Answers: what a request may rest on only grows while it is served (what *)
(* was true at some moment), what it must not miss only shrinks (what was  *)
(* true at all moments), and the facts of the moment lie between the two.  *)
(* So what is known of a request at one operation is still known when it   *)
(* reaches the next, whatever the others do in between; each kind of       *)
(* request has its invariant, what it knows at each of its operations.     *)
(***************************************************************************)
EXTENDS ResourceHistory, FiniteSetTheorems, TLAPS

\* The stores and counters have their shape, and no counter is below an etag
\* its store has handed out.
CountersInv ==
    /\ etags \in [Kinds -> Nat]
    /\ DOMAIN items = Kinds
    /\ \A kind \in Kinds :
        /\ DOMAIN items[kind] = Names
        /\ EtagsOf(items[kind]) \subseteq issued[kind]
        /\ issued[kind] \subseteq 0..etags[kind]

\* What a step may do to the stores of the resources.
StoreStep ==
    \/ UNCHANGED <<items, etags>>
    \/ \E kind, n, body : InsertItem(kind, n, body)
    \/ \E kind, n : RemoveItem(kind, n)
    \/ \E kind : ClearItems(kind)

Record == issued' = [kind \in Kinds |-> issued[kind] \cup EtagsOf(items'[kind])]

-----------------------------------------------------------------------------

\* At start-up each counter stands at the number of the resources it numbered.
LEMMA CountersStart == HistoryInit => CountersInv
<1> SUFFICES ASSUME HistoryInit PROVE CountersInv
    OBVIOUS
<1>1. items = BootItems /\ etags = [kind \in Kinds |-> Cardinality(Listed(kind))]
      /\ issued = [kind \in Kinds |-> EtagsOf(items[kind])]
    BY DEF HistoryInit, ResourceInit
<1>2. ASSUME NEW kind \in Kinds PROVE Cardinality(Listed(kind)) \in Nat
  <2>1. IsFiniteSet(Listed(kind))
      BY NamesAssumption, FS_Subset DEF Listed
  <2> QED BY <2>1, FS_CardinalityType
<1>3. ASSUME NEW kind \in Kinds PROVE issued[kind] \subseteq 0..etags[kind]
  <2>1. ASSUME NEW n \in Names, items[kind][n] # NoItem
        PROVE items[kind][n].etag \in 0..etags[kind]
      BY <1>1, <1>2, <2>1, BootItemsAssumption DEF Listed
  <2> QED BY <1>1, <2>1 DEF EtagsOf
<1> QED BY <1>1, <1>2, <1>3, BootItemsAssumption DEF CountersInv

\* Only three requests touch the stores of the resources, each in one way.
LEMMA StepsKeepToStores == HistoryNext => StoreStep /\ Record
<1>1. HistoryNext => Record
    BY DEF HistoryNext, Serve, Follow, Record
<1> SUFFICES ASSUME HistoryNext PROVE StoreStep
    BY <1>1
<1>2. PICK c \in Clients :
        Start(c) \/ ResourceStep(c) \/ IndexStep(c) \/ RetrieveStep(c) \/ ServiceWideStep(c)
    BY DEF HistoryNext, Serve, ResourceStep, IndexStep, RetrieveStep, ServiceWideStep
<1>3. CASE Start(c)
    BY <1>3 DEF Start, resourceStores, StoreStep
<1>4. CASE ResourceStep(c)
  <2>1. CASE StoreItem(c)
      BY <2>1 DEF StoreItem, StoreStep
  <2>2. CASE DeleteItem(c)
      BY <2>2 DEF DeleteItem, StoreStep
  <2>3. CASE Reject(c) \/ CheckIndexName(c) \/ GetItem(c) \/ ListItems(c)
      BY <2>3 DEF Reject, CheckIndexName, GetItem, ListItems, resourceStores, StoreStep
  <2> QED BY <1>4, <2>1, <2>2, <2>3 DEF ResourceStep
<1>5. CASE IndexStep(c)
  <2>1. UNCHANGED <<items, etags>>
      BY <1>5 DEF IndexStep, CheckAliasName, CheckMap, CreateIndex, ResolveIndex, DeleteIndex,
            UploadDocument, RequireMaps, ExpandWord, FinishSearch, resourceStores
  <2> QED BY <2>1 DEF StoreStep
<1>6. CASE RetrieveStep(c)
  <2>1. UNCHANGED <<items, etags>>
      BY <1>6 DEF RetrieveStep, GetBase, GetSource, ResolveSource, CheckSource, NextSource,
            ParseSource, ResolveAgain, SearchSource, resourceStores
  <2> QED BY <2>1 DEF StoreStep
<1>7. CASE ServiceWideStep(c)
  <2>1. CASE ResetItems(c)
      BY <2>1 DEF ResetItems, StoreStep
  <2>2. CASE ~ResetItems(c)
    <3>1. UNCHANGED <<items, etags>>
        BY <1>7, <2>2 DEF ServiceWideStep, ListNames, LookUpIndex, FinishListing, CountItems,
              ResetIndexes, resourceStores
    <3> QED BY <3>1 DEF StoreStep
  <2> QED BY <2>1, <2>2
<1> QED BY <1>2, <1>3, <1>4, <1>5, <1>6, <1>7

\* A step hands out no etag but the one after the counter, and counts it.
LEMMA NewEtagsAreNext ==
    ASSUME CountersInv, StoreStep
    PROVE  /\ etags' \in [Kinds -> Nat]
           /\ DOMAIN items' = Kinds
           /\ \A kind \in Kinds :
               /\ DOMAIN items'[kind] = Names
               /\ etags'[kind] >= etags[kind]
               /\ \A n \in Names : items'[kind][n] # items[kind][n] /\ items'[kind][n] # NoItem =>
                    items'[kind][n].etag = etags[kind] + 1 /\ etags'[kind] = etags[kind] + 1
<1> USE DEF CountersInv
<1>1. CASE UNCHANGED <<items, etags>>
    BY <1>1
<1>2. ASSUME NEW kind, NEW n, NEW body, InsertItem(kind, n, body)
      PROVE  /\ etags' \in [Kinds -> Nat]
             /\ DOMAIN items' = Kinds
             /\ \A k \in Kinds :
                 /\ DOMAIN items'[k] = Names
                 /\ etags'[k] >= etags[k]
                 /\ \A m \in Names : items'[k][m] # items[k][m] /\ items'[k][m] # NoItem =>
                      items'[k][m].etag = etags[k] + 1 /\ etags'[k] = etags[k] + 1
  <2>1. /\ items' = [items EXCEPT ![kind] = [items[kind] EXCEPT ![n] =
                        [body |-> body, etag |-> etags[kind] + 1]]]
        /\ etags' = [etags EXCEPT ![kind] = etags[kind] + 1]
      BY <1>2 DEF InsertItem
  <2>2. etags' \in [Kinds -> Nat] /\ DOMAIN items' = Kinds
    <3>1. CASE kind \in Kinds
        BY <2>1, <3>1
    <3>2. CASE kind \notin Kinds
      <4>1. etags' = etags
          BY <2>1, <3>2
      <4> QED BY <2>1, <4>1
    <3> QED BY <3>1, <3>2
  <2>3. ASSUME NEW k \in Kinds, k # kind
        PROVE items'[k] = items[k] /\ etags'[k] = etags[k]
      BY <2>1, <2>3
  <2>4. ASSUME kind \in Kinds
        PROVE  /\ items'[kind] = [items[kind] EXCEPT ![n] =
                                    [body |-> body, etag |-> etags[kind] + 1]]
               /\ etags'[kind] = etags[kind] + 1
      BY <2>1, <2>4
  <2>5. ASSUME kind \in Kinds, NEW m \in Names, items'[kind][m] # items[kind][m]
        PROVE items'[kind][m].etag = etags[kind] + 1
      BY <2>4, <2>5
  <2>6. ASSUME NEW k \in Kinds PROVE etags[k] \in Nat /\ DOMAIN items'[k] = Names
      BY <2>3, <2>4, <2>6
  <2> QED BY <2>2, <2>3, <2>4, <2>5, <2>6
<1>3. ASSUME NEW kind, NEW n, RemoveItem(kind, n)
      PROVE  /\ UNCHANGED etags
             /\ DOMAIN items' = Kinds
             /\ \A k \in Kinds :
                 /\ DOMAIN items'[k] = Names
                 /\ \A m \in Names : items'[k][m] \in {items[k][m], NoItem}
    BY <1>3 DEF RemoveItem
<1>4. ASSUME NEW kind, ClearItems(kind)
      PROVE  /\ UNCHANGED etags
             /\ DOMAIN items' = Kinds
             /\ \A k \in Kinds :
                 /\ DOMAIN items'[k] = Names
                 /\ \A m \in Names : items'[k][m] \in {items[k][m], NoItem}
    BY <1>4 DEF ClearItems
<1> QED BY <1>1, <1>2, <1>3, <1>4 DEF StoreStep

LEMMA CountersHold == CountersInv /\ [HistoryNext]_historyVars => CountersInv'
<1>1. ASSUME CountersInv, HistoryNext PROVE CountersInv'
  <2>1. StoreStep /\ Record
      BY <1>1, StepsKeepToStores
  <2>2. ASSUME NEW kind \in Kinds, NEW n \in Names, items'[kind][n] # NoItem
        PROVE items'[kind][n].etag \in 0..etags'[kind]
    <3>1. etags[kind] \in Nat /\ etags'[kind] \in Nat /\ etags'[kind] >= etags[kind]
        BY <1>1, <2>1, NewEtagsAreNext DEF CountersInv
    <3>2. CASE items'[kind][n] = items[kind][n]
      <4>1. items[kind][n].etag \in 0..etags[kind]
          BY <1>1, <2>2, <3>2 DEF CountersInv, EtagsOf
      <4> QED BY <3>1, <3>2, <4>1
    <3>3. CASE items'[kind][n] # items[kind][n]
        BY <1>1, <2>1, <2>2, <3>1, <3>3, NewEtagsAreNext
    <3> QED BY <3>2, <3>3
  <2>3. ASSUME NEW kind \in Kinds
        PROVE EtagsOf(items'[kind]) \subseteq issued'[kind] /\ issued'[kind] \subseteq 0..etags'[kind]
    <3>1. issued'[kind] = issued[kind] \cup EtagsOf(items'[kind])
        BY <2>1 DEF Record
    <3>2. EtagsOf(items'[kind]) \subseteq 0..etags'[kind]
        BY <2>2 DEF EtagsOf
    <3>3. issued[kind] \subseteq 0..etags'[kind]
        BY <1>1, <2>1, NewEtagsAreNext DEF CountersInv
    <3> QED BY <3>1, <3>2, <3>3
  <2> QED BY <1>1, <2>1, <2>3, NewEtagsAreNext DEF CountersInv, EtagsOf
<1>2. ASSUME CountersInv, UNCHANGED historyVars PROVE CountersInv'
    BY <1>2 DEF CountersInv, historyVars, EtagsOf
<1> QED BY <1>1, <1>2

\* No counter is ever below an etag its store has handed out, even when the
\* resource is deleted or the store cleared (ResourceStore, AtomicU64).
THEOREM CountersNeverBehind == HistorySpec => []CountersInv
    BY CountersStart, CountersHold, PTL DEF HistorySpec

\* A resource that is created or replaced gets an etag its store never gave
\* before, whatever was deleted, cleared or loaded at start-up
\* (ResourceStore::insert).
THEOREM EtagsNeverReusedAlways == HistorySpec => EtagsNeverReused
<1>1. ASSUME CountersInv, [HistoryNext]_historyVars,
             NEW kind \in Kinds, NEW n \in Names,
             items'[kind][n] # items[kind][n], items'[kind][n] # NoItem,
             NEW e \in issued[kind]
      PROVE  items'[kind][n].etag > e
  <2>1. HistoryNext
      BY <1>1 DEF historyVars
  <2>2. items'[kind][n].etag = etags[kind] + 1
      BY <1>1, <2>1, StepsKeepToStores, NewEtagsAreNext
  <2>3. e \in 0..etags[kind] /\ etags[kind] \in Nat
      BY <1>1 DEF CountersInv
  <2> QED BY <2>2, <2>3
<1>2. CountersInv /\ [HistoryNext]_historyVars =>
        [\A kind \in Kinds : \A n \in Names :
            (items'[kind][n] # items[kind][n] /\ items'[kind][n] # NoItem) =>
              \A e \in issued[kind] : items'[kind][n].etag > e]_items
    BY <1>1
<1> QED BY <1>2, CountersNeverBehind, PTL DEF HistorySpec, EtagsNeverReused

-----------------------------------------------------------------------------
(* What the stores and the requests in flight hold *)

\* A stored body is one that was checked, and an index refers to maps by name.
StoresInv ==
    /\ DOMAIN items = Kinds /\ DOMAIN indexes = Names
    /\ \A kind \in Kinds :
        /\ DOMAIN items[kind] = Names
        /\ \A n \in Names : items[kind][n] # NoItem =>
             items[kind][n].body \in BodyOf(kind) /\ ValidBody(kind, items[kind][n].body)
    /\ \A n \in Names : indexes[n] # NoIndex =>
         indexes[n] \in IndexRecord /\ IsFiniteSet(indexes[n].docs)

\* The operations a request goes through.
LabelsOf(r) ==
    CASE r.op \in {"create", "put"} ->
            IF ValidBody(r.kind, r.body) THEN {"check_index", "store"} ELSE {"reject"}
      [] r.op = "delete"      -> {"delete"}
      [] r.op = "get"         -> {"get"}
      [] r.op = "list"        -> {"list"}
      [] r.op = "createIndex" -> {"check_alias", "check_map"}
      [] r.op = "deleteIndex" -> {"resolve", "delete_index"}
      [] r.op = "search"      -> {"resolve", "require", "expand"}
      [] r.op = "upload"      -> {"upload"}
      [] r.op = "listIndexes" -> {"list_names", "look_up"}
      [] r.op = "stats"       -> {"list_names", "look_up", "count"}
      [] r.op = "retrieve"    -> {"get_base", "get_source", "resolve_source", "check_source",
                                  "next_source", "parse_source", "research_source",
                                  "search_source"}
      [] r.op = "reset"       -> {"reset_indexes", "reset_items"}

IsJob(j) ==
    /\ j.req \in Request
    /\ j = [part \in {"req", "target", "todo", "sources", "out"} |-> j[part]]

ThreadsInv ==
    /\ DOMAIN pc = Clients /\ DOMAIN job = Clients
    /\ \A c \in Clients : pc[c] # "idle" => IsJob(job[c]) /\ pc[c] \in LabelsOf(job[c].req)

\* Client c's job becomes j, and nobody else's changes.
Holds(c, j) ==
    DOMAIN job' = Clients /\ \A d \in Clients : job'[d] = IF d = c THEN j ELSE job[d]

\* The kinds of requests and what each carries.
LEMMA RequestParts ==
    ASSUME NEW r \in Request
    PROVE  /\ r.op \in {"create", "put", "delete", "get", "list", "createIndex", "deleteIndex",
                        "upload", "search", "retrieve", "listIndexes", "stats", "reset"}
           /\ r.op \in {"create", "put"} =>
                r.kind \in Kinds /\ r.name \in Names /\ r.body \in BodyOf(r.kind)
           /\ r.op \in {"delete", "get"} => r.kind \in Kinds /\ r.name \in Names
           /\ r.op = "list" => r.kind \in Kinds
           /\ r.op = "createIndex" => r.name \in Names /\ r.maps \in Seq(Names)
           /\ r.op \in {"deleteIndex", "upload", "search", "retrieve"} => r.name \in Names
           /\ r.op = "upload" => r.doc \in Nat
           /\ r.op = "search" => r.words \in Seq(Words)
           /\ r.op = "retrieve" => r.top \in Nat
BY DEF Request, SaveRequest, Kinds

\* A request is nowhere but at an operation of its kind.
LEMMA LabelsTell ==
    ASSUME NEW r \in Request, NEW label \in LabelsOf(r)
    PROVE  /\ label # "idle"
           /\ label = "reject" => r.op \in {"create", "put"} /\ LabelsOf(r) = {"reject"}
           /\ label \in {"check_index", "store"} =>
                /\ r.op \in {"create", "put"} /\ ValidBody(r.kind, r.body)
                /\ LabelsOf(r) = {"check_index", "store"}
           /\ label = "delete" => r.op = "delete"
           /\ label = "get" => r.op = "get"
           /\ label = "list" => r.op = "list"
           /\ label \in {"check_alias", "check_map"} => r.op = "createIndex"
           /\ label = "resolve" => r.op \in {"deleteIndex", "search"}
           /\ label = "delete_index" => r.op = "deleteIndex"
           /\ label \in {"require", "expand"} => r.op = "search"
           /\ label = "upload" => r.op = "upload"
           /\ label \in {"list_names", "look_up"} => r.op \in {"listIndexes", "stats"}
           /\ label = "count" => r.op = "stats"
           /\ label \in {"get_base", "get_source", "resolve_source", "check_source", "next_source",
                         "parse_source", "research_source", "search_source"} => r.op = "retrieve"
           /\ label \in {"reset_indexes", "reset_items"} => r.op = "reset"
<1>1. r.op \in {"create", "put", "delete", "get", "list", "createIndex", "deleteIndex",
                "upload", "search", "retrieve", "listIndexes", "stats", "reset"}
  BY RequestParts
<1>2. CASE r.op \in {"create", "put"}
  BY <1>2 DEF LabelsOf
<1>3. CASE r.op \notin {"create", "put"}
  BY <1>1, <1>3 DEF LabelsOf
<1>4. QED
  BY <1>2, <1>3

\* A request starts at one of its operations.
LEMMA EntryFits ==
    ASSUME NEW r \in Request
    PROVE  EntryLabel(r) \in LabelsOf(r)
<1>1. r.op \in {"create", "put", "delete", "get", "list", "createIndex", "deleteIndex",
                "upload", "search", "retrieve", "listIndexes", "stats", "reset"}
  BY RequestParts
<1>2. CASE r.op \in {"create", "put"}
  BY <1>2 DEF LabelsOf, EntryLabel
<1>3. CASE r.op \notin {"create", "put"}
  BY <1>1, <1>3 DEF LabelsOf, EntryLabel
<1>4. QED
  BY <1>2, <1>3

\* A step is one client's, and the facts of the moment are recorded.
LEMMA StepsAreOfOne ==
    ASSUME HistoryNext
    PROVE  Follow /\ \E c \in Clients : Start(c) \/ ServeStep(c)
<1>1. Follow
  BY DEF HistoryNext, Serve
<1>2. PICK c \in Clients :
        Start(c) \/ ResourceStep(c) \/ IndexStep(c) \/ RetrieveStep(c) \/ ServiceWideStep(c)
  BY DEF HistoryNext, Serve, ResourceStep, IndexStep, RetrieveStep, ServiceWideStep
<1>3. QED
  BY <1>1, <1>2 DEF ServeStep

\* A step answers the request, or goes on with it at another of its operations.
LEMMA StepForm ==
    ASSUME ThreadsInv, NEW c \in Clients, ServeStep(c)
    PROVE  /\ pc[c] # "idle"
           /\ \/ \E status, out : Answer(c, status, out)
              \/ \E label \in LabelsOf(job[c].req) : \E j :
                   /\ Goto(c, label) /\ Holds(c, j)
                   /\ IsJob(j) /\ j.req = job[c].req
<1> DEFINE Goal == \/ \E status, out : Answer(c, status, out)
                   \/ \E label \in LabelsOf(job[c].req) : \E j :
                        /\ Goto(c, label) /\ Holds(c, j)
                        /\ IsJob(j) /\ j.req = job[c].req
           ops == LabelsOf(job[c].req)
<1>1. pc[c] # "idle"
  BY DEF ServeStep, ResourceStep, IndexStep, RetrieveStep, ServiceWideStep, Reject,
    CheckIndexName, StoreItem, DeleteItem, GetItem, ListItems, CheckAliasName, CheckMap,
    CreateIndex, ResolveIndex, DeleteIndex, UploadDocument, RequireMaps, ExpandWord,
    FinishSearch, GetBase, GetSource, ResolveSource, CheckSource, NextSource, SourcesChecked,
    ParseSource, ResolveAgain, SearchSource, ListNames, LookUpIndex, FinishListing, CountItems,
    ResetIndexes, ResetItems
<1>2. IsJob(job[c]) /\ job[c].req \in Request /\ pc[c] \in ops
  BY <1>1 DEF ThreadsInv, IsJob
<1>3. ASSUME NEW status, NEW out, Answer(c, status, out) PROVE Goal
  BY <1>3
<1>4. ASSUME NEW label \in ops, Goto(c, label), UNCHANGED job PROVE Goal
  <2>1. Holds(c, job[c])
    BY <1>4 DEF ThreadsInv, Holds
  <2>2. QED
    BY <1>2, <1>4, <2>1
<1>5. ASSUME NEW label \in ops, Goto(c, label), NEW x, NEW y,
             \/ job' = [job EXCEPT ![c].target = x]
             \/ job' = [job EXCEPT ![c].todo = x]
             \/ job' = [job EXCEPT ![c].sources = x]
             \/ job' = [job EXCEPT ![c].todo = x, ![c].out = y]
             \/ job' = [job EXCEPT ![c].sources = x, ![c].out = y]
      PROVE  Goal
  <2>1. \/ Holds(c, [job[c] EXCEPT !.target = x])
        \/ Holds(c, [job[c] EXCEPT !.todo = x])
        \/ Holds(c, [job[c] EXCEPT !.sources = x])
        \/ Holds(c, [job[c] EXCEPT !.todo = x, !.out = y])
        \/ Holds(c, [job[c] EXCEPT !.sources = x, !.out = y])
    BY <1>5 DEF ThreadsInv, Holds
  <2>2. /\ IsJob([job[c] EXCEPT !.target = x]) /\ [job[c] EXCEPT !.target = x].req = job[c].req
        /\ IsJob([job[c] EXCEPT !.todo = x]) /\ [job[c] EXCEPT !.todo = x].req = job[c].req
        /\ IsJob([job[c] EXCEPT !.sources = x]) /\ [job[c] EXCEPT !.sources = x].req = job[c].req
        /\ IsJob([job[c] EXCEPT !.todo = x, !.out = y])
        /\ [job[c] EXCEPT !.todo = x, !.out = y].req = job[c].req
        /\ IsJob([job[c] EXCEPT !.sources = x, !.out = y])
        /\ [job[c] EXCEPT !.sources = x, !.out = y].req = job[c].req
    BY <1>2 DEF IsJob
  <2>3. \E j : Holds(c, j) /\ IsJob(j) /\ j.req = job[c].req
    BY <2>1, <2>2
  <2>4. QED
    BY <1>5, <2>3
<1> SUFFICES Goal
  BY <1>1
<1> HIDE DEF Goal
<1>6. CASE ResourceStep(c)
  <2>1. CASE CheckIndexName(c)
    <3>1. pc[c] = "check_index" => "store" \in ops
      BY <1>2, LabelsTell
    <3>2. QED
      BY <1>3, <1>4, <2>1, <3>1 DEF CheckIndexName
  <2>2. CASE ~CheckIndexName(c)
    BY <1>3, <1>6, <2>2 DEF ResourceStep, Reject, StoreItem, DeleteItem, GetItem, ListItems
  <2>3. QED
    BY <2>1, <2>2
<1>7. CASE IndexStep(c)
  <2>1. /\ pc[c] \in {"check_alias", "check_map"} => "check_map" \in ops
        /\ pc[c] = "resolve" => (IF job[c].req.op = "search" THEN "require" ELSE "delete_index") \in ops
        /\ pc[c] \in {"require", "expand"} => "expand" \in ops
    BY <1>2, LabelsTell DEF LabelsOf
  <2>2. CASE CheckAliasName(c)
    BY <1>3, <1>5, <2>1, <2>2 DEF CheckAliasName
  <2>3. CASE CheckMap(c)
    BY <1>3, <1>5, <2>1, <2>3 DEF CheckMap
  <2>4. CASE ResolveIndex(c)
    BY <1>5, <2>1, <2>4 DEF ResolveIndex
  <2>5. CASE RequireMaps(c)
    BY <1>3, <1>5, <2>1, <2>5 DEF RequireMaps
  <2>6. CASE ExpandWord(c)
    <3>1. PICK x, y : job' = [job EXCEPT ![c].todo = x, ![c].out = y]
      <4> DEFINE word == Head(job[c].todo)[1]
                 maps == Head(job[c].todo)[2]
                 map == items["synonymMap"][Head(maps)]
                 more == IF map = NoItem THEN {} ELSE RuleOutputs(map.body, word) \ {word}
                 todo == IF Len(maps) = 1 THEN Tail(job[c].todo)
                         ELSE [job[c].todo EXCEPT ![1][2] = Tail(maps)]
                 out == [job[c].out EXCEPT ![1][word] = @ \cup more]
      <4>1. job' = [job EXCEPT ![c].todo = todo, ![c].out = out]
        <5> HIDE DEF more
        <5>1. job' = [job EXCEPT ![c].todo = IF Len(maps) = 1 THEN Tail(@)
                                             ELSE [@ EXCEPT ![1][2] = Tail(maps)],
                                 ![c].out[1][word] = @ \cup more]
          BY <2>6 DEF ExpandWord, more
        <5>2. QED
          BY <5>1
      <4>2. QED
        BY <4>1
    <3>2. QED
      BY <1>5, <2>1, <2>6, <3>1 DEF ExpandWord
  <2>7. CASE CreateIndex(c) \/ DeleteIndex(c) \/ UploadDocument(c) \/ FinishSearch(c)
    BY <1>3, <2>7 DEF CreateIndex, DeleteIndex, UploadDocument, FinishSearch
  <2>8. QED
    BY <1>7, <2>2, <2>3, <2>4, <2>5, <2>6, <2>7 DEF IndexStep
<1>8. CASE RetrieveStep(c)
  <2>1. pc[c] \in {"get_base", "get_source", "resolve_source", "check_source", "next_source",
                   "parse_source", "research_source", "search_source"}
          => {"get_source", "resolve_source", "check_source", "next_source", "parse_source",
              "research_source", "search_source"} \subseteq ops
    BY <1>2, LabelsTell, ZenonT(40) DEF LabelsOf
  <2>2. CASE GetBase(c)
    BY <1>3, <1>5, <2>1, <2>2 DEF GetBase
  <2>3. CASE GetSource(c)
    BY <1>5, <2>1, <2>3 DEF GetSource
  <2>4. CASE ResolveSource(c)
    BY <1>5, <2>1, <2>4 DEF ResolveSource
  <2>5. CASE CheckSource(c)
    BY <1>3, <1>5, <2>1, <2>5 DEF CheckSource
  <2>6. CASE NextSource(c)
    BY <1>3, <1>5, <2>1, <2>6 DEF NextSource, SourcesChecked
  <2>7. CASE ParseSource(c)
    BY <1>3, <1>4, <2>1, <2>7 DEF ParseSource
  <2>8. CASE ResolveAgain(c)
    BY <1>5, <2>1, <2>8 DEF ResolveAgain
  <2>9. CASE SearchSource(c)
    BY <1>3, <1>5, <2>1, <2>9 DEF SearchSource
  <2>10. QED
    BY <1>8, <2>2, <2>3, <2>4, <2>5, <2>6, <2>7, <2>8, <2>9 DEF RetrieveStep
<1>9. CASE ServiceWideStep(c)
  <2>1. /\ pc[c] \in {"list_names", "look_up"} => "look_up" \in ops
        /\ pc[c] = "look_up" /\ job[c].req.op = "stats" => "count" \in ops
        /\ pc[c] = "count" => "count" \in ops
        /\ pc[c] \in {"reset_indexes", "reset_items"} => "reset_items" \in ops
    BY <1>2, LabelsTell DEF LabelsOf
  <2>2. CASE ListNames(c)
    BY <1>5, <2>1, <2>2 DEF ListNames
  <2>3. CASE LookUpIndex(c)
    BY <1>5, <2>1, <2>3 DEF LookUpIndex
  <2>4. CASE FinishListing(c)
    BY <1>3, <1>5, <2>1, <2>4 DEF FinishListing
  <2>5. CASE CountItems(c)
    BY <1>3, <1>5, <2>1, <2>5 DEF CountItems
  <2>6. CASE ResetIndexes(c)
    BY <1>5, <2>1, <2>6 DEF ResetIndexes
  <2>7. CASE ResetItems(c)
    BY <1>3, <1>5, <2>1, <2>7 DEF ResetItems
  <2>8. QED
    BY <1>9, <2>2, <2>3, <2>4, <2>5, <2>6, <2>7 DEF ServiceWideStep
<1>10. QED
  BY <1>6, <1>7, <1>8, <1>9 DEF ServeStep

LEMMA ThreadsKept ==
    ASSUME ThreadsInv, NEW c \in Clients, Start(c) \/ ServeStep(c)
    PROVE  /\ ThreadsInv'
           /\ \A d \in Clients \ {c} : pc'[d] = pc[d] /\ job'[d] = job[d]
           /\ reply' # NoReply => reply'.client = c
<1>1. CASE Start(c)
  <2>1. PICK r \in Workload[c] : /\ job' = [job EXCEPT ![c] = FreshJob(r)]
                                 /\ pc' = [pc EXCEPT ![c] = EntryLabel(r)]
    BY <1>1 DEF Start
  <2>2. r \in Request
    BY WorkloadAssumption
  <2>3. IsJob(FreshJob(r)) /\ FreshJob(r).req = r
    BY <2>2 DEF IsJob, FreshJob
  <2>4. EntryLabel(r) \in LabelsOf(r)
    BY <2>2, EntryFits
  <2>5. reply' = NoReply
    BY <1>1 DEF Start
  <2>6. QED
    BY <2>1, <2>3, <2>4, <2>5 DEF ThreadsInv
<1>2. CASE \E status, out : Answer(c, status, out)
  BY <1>2 DEF Answer, ThreadsInv
<1>3. CASE \E label \in LabelsOf(job[c].req) : \E j :
             /\ Goto(c, label) /\ Holds(c, j)
             /\ IsJob(j) /\ j.req = job[c].req
  BY <1>3 DEF Goto, Holds, ThreadsInv
<1>4. QED
  BY <1>1, <1>2, <1>3, StepForm

LEMMA ItemsKept ==
    ASSUME StoresInv, ThreadsInv, NEW c \in Clients, Start(c) \/ ServeStep(c)
    PROVE  /\ DOMAIN items' = Kinds
           /\ \A kind \in Kinds :
               /\ DOMAIN items'[kind] = Names
               /\ \A n \in Names : items'[kind][n] # NoItem =>
                    items'[kind][n].body \in BodyOf(kind) /\ ValidBody(kind, items'[kind][n].body)
<1>1. CASE UNCHANGED items
  BY <1>1 DEF StoresInv
<1>2. CASE StoreItem(c)
  <2> DEFINE r == job[c].req
  <2>1. pc[c] = "store"
    BY <1>2 DEF StoreItem
  <2>2. r \in Request /\ pc[c] \in LabelsOf(r)
    BY <2>1 DEF ThreadsInv, IsJob
  <2>3. r.kind \in Kinds /\ r.name \in Names /\ r.body \in BodyOf(r.kind) /\ ValidBody(r.kind, r.body)
    BY <2>1, <2>2, LabelsTell, RequestParts
  <2>4. UNCHANGED items \/ InsertItem(r.kind, r.name, r.body)
    BY <1>2 DEF StoreItem
  <2> HIDE DEF r
  <2>5. CASE InsertItem(r.kind, r.name, r.body)
    <3> DEFINE item == [body |-> r.body, etag |-> etags[r.kind] + 1]
    <3>1. items' = [items EXCEPT ![r.kind][r.name] = item] /\ item.body = r.body
      BY <2>5 DEF InsertItem
    <3> HIDE DEF item
    <3>2. /\ DOMAIN items' = Kinds
          /\ \A kind \in Kinds :
               /\ DOMAIN items'[kind] = Names
               /\ \A n \in Names : items'[kind][n] =
                    IF kind = r.kind /\ n = r.name THEN item ELSE items[kind][n]
      BY <2>3, <3>1 DEF StoresInv
    <3>3. QED
      BY <2>3, <3>1, <3>2 DEF StoresInv
  <2>6. QED
    BY <1>1, <2>4, <2>5
<1>3. ASSUME NEW kind, NEW n, RemoveItem(kind, n)
      PROVE  /\ DOMAIN items' = Kinds
             /\ \A k \in Kinds :
                 /\ DOMAIN items'[k] = Names
                 /\ \A m \in Names : items'[k][m] \in {items[k][m], NoItem}
  BY <1>3 DEF RemoveItem, StoresInv
<1>4. ASSUME NEW kind, ClearItems(kind)
      PROVE  /\ DOMAIN items' = Kinds
             /\ \A k \in Kinds :
                 /\ DOMAIN items'[k] = Names
                 /\ \A m \in Names : items'[k][m] \in {items[k][m], NoItem}
  BY <1>4 DEF ClearItems, StoresInv
<1>5. CASE DeleteItem(c) \/ ResetItems(c)
  <2>1. UNCHANGED items \/ (\E kind, n : RemoveItem(kind, n)) \/ (\E kind : ClearItems(kind))
    BY <1>5 DEF DeleteItem, ResetItems
  <2>2. CASE (\E kind, n : RemoveItem(kind, n)) \/ (\E kind : ClearItems(kind))
    BY <1>3, <1>4, <2>2 DEF StoresInv
  <2>3. QED
    BY <1>1, <2>1, <2>2
<1>6. UNCHANGED items \/ StoreItem(c) \/ DeleteItem(c) \/ ResetItems(c)
  <2>1. CASE Start(c) \/ ResourceStep(c)
    BY <2>1 DEF Start, ResourceStep, Reject, CheckIndexName, GetItem, ListItems, resourceStores
  <2>2. CASE IndexStep(c)
    BY <2>2 DEF IndexStep, CheckAliasName, CheckMap, CreateIndex, ResolveIndex, DeleteIndex,
          UploadDocument, RequireMaps, ExpandWord, FinishSearch, resourceStores
  <2>3. CASE RetrieveStep(c)
    BY <2>3 DEF RetrieveStep, GetBase, GetSource, ResolveSource, CheckSource, NextSource,
          ParseSource, ResolveAgain, SearchSource, resourceStores
  <2>4. CASE ServiceWideStep(c)
    BY <2>4 DEF ServiceWideStep, ListNames, LookUpIndex, FinishListing, CountItems,
          ResetIndexes, resourceStores
  <2>5. QED
    BY <2>1, <2>2, <2>3, <2>4 DEF ServeStep
<1>7. QED
  BY <1>1, <1>2, <1>5, <1>6

LEMMA IndexesKept ==
    ASSUME StoresInv, ThreadsInv, NEW c \in Clients, Start(c) \/ ServeStep(c)
    PROVE  /\ DOMAIN indexes' = Names
           /\ \A n \in Names : indexes'[n] # NoIndex =>
                indexes'[n] \in IndexRecord /\ IsFiniteSet(indexes'[n].docs)
<1> DEFINE r == job[c].req
<1>1. CASE UNCHANGED indexes
  BY <1>1 DEF StoresInv
<1>2. pc[c] # "idle" => r \in Request /\ pc[c] \in LabelsOf(r)
  BY DEF ThreadsInv, IsJob
<1>3. CASE CreateIndex(c)
  <2>1. pc[c] = "check_map"
    BY <1>3 DEF CreateIndex
  <2>2. r.name \in Names /\ r.maps \in Seq(Names)
    BY <1>2, <2>1, LabelsTell, RequestParts
  <2>3. CASE indexes' = [indexes EXCEPT ![r.name] = [docs |-> {}, maps |-> r.maps]]
    <3>1. [docs |-> {}, maps |-> r.maps] \in IndexRecord
      BY <2>2 DEF IndexRecord
    <3>2. QED
      BY <2>2, <2>3, <3>1, FS_EmptySet DEF StoresInv
  <2>4. QED
    BY <1>1, <1>3, <2>3 DEF CreateIndex
<1>4. CASE UploadDocument(c)
  <2>1. pc[c] = "upload"
    BY <1>4 DEF UploadDocument
  <2>2. r.name \in Names /\ r.doc \in Nat
    <3>1. r.op = "upload" /\ r \in Request
      BY <1>2, <2>1, LabelsTell
    <3>2. QED
      BY <3>1, RequestParts
  <2>3. CASE indexes[r.name] # NoIndex
    <3>1. indexes' = [indexes EXCEPT ![r.name].docs = @ \cup {r.doc}]
      BY <1>4, <2>3 DEF UploadDocument
    <3>2. indexes[r.name] \in IndexRecord /\ IsFiniteSet(indexes[r.name].docs)
      BY <2>2, <2>3 DEF StoresInv
    <3>3. IsFiniteSet(indexes[r.name].docs \cup {r.doc})
      BY <3>2, FS_AddElement
    <3>4. indexes'[r.name] \in IndexRecord /\ indexes'[r.name].docs = indexes[r.name].docs \cup {r.doc}
      BY <2>2, <3>1, <3>2 DEF IndexRecord, StoresInv
    <3>5. \A n \in Names \ {r.name} : indexes'[n] = indexes[n]
      BY <3>1 DEF StoresInv
    <3>6. DOMAIN indexes' = Names
      BY <3>1 DEF StoresInv
    <3>7. QED
      BY <3>3, <3>4, <3>5, <3>6 DEF StoresInv
  <2>4. QED
    BY <1>1, <1>4, <2>3 DEF UploadDocument
<1>5. CASE DeleteIndex(c) \/ ResetIndexes(c)
  <2>1. \/ UNCHANGED indexes
        \/ \E n : indexes' = [indexes EXCEPT ![n] = NoIndex]
        \/ indexes' = [n \in Names |-> NoIndex]
    BY <1>5 DEF DeleteIndex, ResetIndexes
  <2>2. QED
    BY <2>1 DEF StoresInv
<1>6. UNCHANGED indexes \/ CreateIndex(c) \/ UploadDocument(c) \/ DeleteIndex(c) \/ ResetIndexes(c)
  <2>1. CASE Start(c) \/ ResourceStep(c)
    BY <2>1 DEF Start, ResourceStep, Reject, CheckIndexName, StoreItem, DeleteItem, GetItem,
          ListItems, resourceStores
  <2>2. CASE IndexStep(c)
    BY <2>2 DEF IndexStep, CheckAliasName, CheckMap, ResolveIndex,
          RequireMaps, ExpandWord, FinishSearch, resourceStores
  <2>3. CASE RetrieveStep(c)
    BY <2>3 DEF RetrieveStep, GetBase, GetSource, ResolveSource, CheckSource, NextSource,
          ParseSource, ResolveAgain, SearchSource, resourceStores
  <2>4. CASE ServiceWideStep(c)
    BY <2>4 DEF ServiceWideStep, ListNames, LookUpIndex, FinishListing, CountItems,
          ResetItems, resourceStores
  <2>5. QED
    BY <2>1, <2>2, <2>3, <2>4 DEF ServeStep
<1>7. QED
  BY <1>1, <1>3, <1>4, <1>5, <1>6

-----------------------------------------------------------------------------
(* What is recorded of a request *)

\* The request of a watched client in flight has seen what is true now.
Followed ==
    \A c \in Watched : pc[c] # "idle" => always[c] \subseteq Facts /\ Facts \subseteq ever[c]

\* What a name leads to, for a request that saw the facts ev at some moment and
\* the facts al at all moments.
Toward(ev, al, n) == Targets(ev, n, <<"stored", "alias", n>> \notin al)

\* The facts of the moment, kind by kind.
LEMMA FactKinds ==
    ASSUME NEW f
    PROVE  f \in Facts <=>
             \/ \E n \in Names : indexes[n] # NoIndex /\ f = <<"index", n>>
             \/ \E n \in Names : indexes[n] # NoIndex /\ f = <<"maps", n, indexes[n].maps>>
             \/ \E n \in Names : indexes[n] # NoIndex /\ \E d \in indexes[n].docs : f = <<"doc", n, d>>
             \/ \E kind \in Kinds, n \in Names :
                  items[kind][n] # NoItem /\ f = <<"stored", kind, n>>
             \/ \E kind \in Kinds, n \in Names :
                  items[kind][n] # NoItem /\ f = <<"item", kind, n, items[kind][n]>>
<1>1. /\ f \in IndexFacts <=> \E n \in Names : indexes[n] # NoIndex /\ f = <<"index", n>>
      /\ f \in MapsFacts <=> \E n \in Names : indexes[n] # NoIndex /\ f = <<"maps", n, indexes[n].maps>>
  BY DEF IndexFacts, MapsFacts, StandingIndexes
<1>2. f \in DocFacts <=> \E n \in Names : indexes[n] # NoIndex /\ \E d \in indexes[n].docs : f = <<"doc", n, d>>
  BY DEF DocFacts, StandingIndexes
<1>3. \A at \in StoredItems : at[1] \in Kinds /\ at[2] \in Names /\ items[at[1]][at[2]] # NoItem
  BY DEF StoredItems
<1>4. \A kind \in Kinds, n \in Names : items[kind][n] # NoItem =>
        <<kind, n>> \in StoredItems /\ <<kind, n>>[1] = kind /\ <<kind, n>>[2] = n
  BY DEF StoredItems
<1>5. f \in StoredFacts <=> \E kind \in Kinds, n \in Names :
                              items[kind][n] # NoItem /\ f = <<"stored", kind, n>>
  <2>1. f \in StoredFacts <=> \E at \in StoredItems : f = <<"stored", at[1], at[2]>>
    BY DEF StoredFacts
  <2>2. ASSUME NEW at \in StoredItems, f = <<"stored", at[1], at[2]>>
        PROVE  \E kind \in Kinds, n \in Names :
                 items[kind][n] # NoItem /\ f = <<"stored", kind, n>>
    BY <1>3, <2>2
  <2>3. ASSUME NEW kind \in Kinds, NEW n \in Names, items[kind][n] # NoItem,
               f = <<"stored", kind, n>>
        PROVE  \E at \in StoredItems : f = <<"stored", at[1], at[2]>>
    <3>1. f = <<"stored", <<kind, n>>[1], <<kind, n>>[2]>>
      BY <2>3
    <3>2. QED
      BY <1>4, <2>3, <3>1
  <2>4. QED
    BY <2>1, <2>2, <2>3
<1>6. f \in ItemFacts <=> \E kind \in Kinds, n \in Names :
                            items[kind][n] # NoItem /\ f = <<"item", kind, n, items[kind][n]>>
  <2>1. f \in ItemFacts <=> \E at \in StoredItems : f = <<"item", at[1], at[2], items[at[1]][at[2]]>>
    BY DEF ItemFacts
  <2>2. ASSUME NEW at \in StoredItems, f = <<"item", at[1], at[2], items[at[1]][at[2]]>>
        PROVE  \E kind \in Kinds, n \in Names :
                 items[kind][n] # NoItem /\ f = <<"item", kind, n, items[kind][n]>>
    BY <1>3, <2>2
  <2>3. ASSUME NEW kind \in Kinds, NEW n \in Names, items[kind][n] # NoItem,
               f = <<"item", kind, n, items[kind][n]>>
        PROVE  \E at \in StoredItems : f = <<"item", at[1], at[2], items[at[1]][at[2]]>>
    <3> DEFINE at == <<kind, n>>
    <3>1. at \in StoredItems /\ at[1] = kind /\ at[2] = n
      BY <1>4, <2>3
    <3> HIDE DEF at
    <3>2. f = <<"item", at[1], at[2], items[at[1]][at[2]]>>
      BY <2>3, <3>1
    <3>3. QED
      BY <3>1, <3>2
  <2>4. QED
    BY <2>1, <2>2, <2>3
<1>7. f \in Facts <=> \/ f \in IndexFacts \/ f \in MapsFacts \/ f \in DocFacts
                    \/ f \in StoredFacts \/ f \in ItemFacts
  BY DEF Facts
<1>8. QED
  BY <1>1, <1>2, <1>5, <1>6, <1>7

\* Reading the facts of the moment.
LEMMA FactsOfIndexes ==
    ASSUME NEW n
    PROVE  /\ <<"index", n>> \in Facts <=> n \in Names /\ indexes[n] # NoIndex
           /\ n \in Names /\ indexes[n] # NoIndex =>
                <<"maps", n, indexes[n].maps>> \in Facts /\ MapsOf(Facts, n) = {indexes[n].maps}
<1>1. ASSUME NEW f \in Facts, f[1] = "index"
      PROVE  \E m \in Names : indexes[m] # NoIndex /\ f = <<"index", m>>
  BY <1>1, FactKinds
<1>2. ASSUME NEW f \in Facts, f[1] = "maps"
      PROVE  \E m \in Names : indexes[m] # NoIndex /\ f = <<"maps", m, indexes[m].maps>>
  BY <1>2, FactKinds
<1>3. <<"index", n>> \in Facts <=> n \in Names /\ indexes[n] # NoIndex
  <2>1. ASSUME <<"index", n>> \in Facts PROVE n \in Names /\ indexes[n] # NoIndex
    <3>1. <<"index", n>>[1] = "index"
      OBVIOUS
    <3>2. PICK m \in Names : indexes[m] # NoIndex /\ <<"index", n>> = <<"index", m>>
      BY <1>1, <2>1, <3>1
    <3>3. QED
      BY <3>2
  <2>2. QED
    BY <2>1, FactKinds
<1>4. ASSUME n \in Names, indexes[n] # NoIndex
      PROVE  <<"maps", n, indexes[n].maps>> \in Facts /\ MapsOf(Facts, n) = {indexes[n].maps}
  <2>1. <<"maps", n, indexes[n].maps>> \in Facts
    BY <1>4, FactKinds
  <2>2. ASSUME NEW f \in Facts, f[1] = "maps", f[2] = n PROVE f[3] = indexes[n].maps
    BY <1>2, <2>2
  <2>3. QED
    BY <2>1, <2>2 DEF MapsOf
<1>5. QED
  BY <1>3, <1>4

LEMMA FactsOfItems ==
    ASSUME NEW kind, NEW n
    PROVE  /\ <<"stored", kind, n>> \in Facts <=>
                kind \in Kinds /\ n \in Names /\ items[kind][n] # NoItem
           /\ kind \in Kinds /\ n \in Names /\ items[kind][n] # NoItem =>
                Bodies(Facts, kind, n) = {items[kind][n].body}
           /\ ~(kind \in Kinds /\ n \in Names /\ items[kind][n] # NoItem) =>
                Bodies(Facts, kind, n) = {}
<1>1. ASSUME NEW f \in Facts, f[1] = "stored"
      PROVE  \E k \in Kinds, m \in Names : items[k][m] # NoItem /\ f = <<"stored", k, m>>
  BY <1>1, FactKinds
<1>2. ASSUME NEW f \in Facts, f[1] = "item", f[2] = kind, f[3] = n
      PROVE  kind \in Kinds /\ n \in Names /\ items[kind][n] # NoItem /\ f[4] = items[kind][n]
  <2>1. PICK k \in Kinds, m \in Names : items[k][m] # NoItem /\ f = <<"item", k, m, items[k][m]>>
    BY <1>2, FactKinds
  <2>2. k = kind /\ m = n /\ f[4] = items[k][m]
    BY <1>2, <2>1
  <2>3. QED
    BY <2>1, <2>2
<1>3. <<"stored", kind, n>> \in Facts <=> kind \in Kinds /\ n \in Names /\ items[kind][n] # NoItem
  <2>1. ASSUME <<"stored", kind, n>> \in Facts
        PROVE  kind \in Kinds /\ n \in Names /\ items[kind][n] # NoItem
    <3>1. <<"stored", kind, n>>[1] = "stored"
      OBVIOUS
    <3>2. PICK k \in Kinds, m \in Names :
            items[k][m] # NoItem /\ <<"stored", kind, n>> = <<"stored", k, m>>
      BY <1>1, <2>1, <3>1
    <3>3. QED
      BY <3>2
  <2>2. QED
    BY <2>1, FactKinds
<1>4. ASSUME kind \in Kinds, n \in Names, items[kind][n] # NoItem
      PROVE  Bodies(Facts, kind, n) = {items[kind][n].body}
  <2>1. <<"item", kind, n, items[kind][n]>> \in Facts
    BY <1>4, FactKinds
  <2>2. QED
    BY <1>2, <2>1 DEF Bodies
<1>5. QED
  BY <1>2, <1>3, <1>4 DEF Bodies

LEMMA ItemSeen ==
    ASSUME NEW kind \in Kinds, NEW n \in Names
    PROVE  Bodies(Facts, kind, n) = IF items[kind][n] = NoItem THEN {} ELSE {items[kind][n].body}
BY FactsOfItems

\* The more was true at some moment, and the less at all moments, the more an
\* answer may rest on.
LEMMA FactsGrow ==
    ASSUME NEW ev, NEW al, NEW ev2, NEW al2, ev \subseteq ev2, al2 \subseteq al
    PROVE  /\ \A kind, n : Bodies(ev, kind, n) \subseteq Bodies(ev2, kind, n)
           /\ \A n : MapsOf(ev, n) \subseteq MapsOf(ev2, n)
           /\ \A n : Toward(ev, al, n) \subseteq Toward(ev2, al2, n)
           /\ \A entry : Sources(ev, entry) \subseteq Sources(ev2, entry)
<1>1. \A kind, n : Bodies(ev, kind, n) \subseteq Bodies(ev2, kind, n)
  BY DEF Bodies
<1>2. \A n : MapsOf(ev, n) \subseteq MapsOf(ev2, n)
  BY DEF MapsOf
<1>3. \A n : Toward(ev, al, n) \subseteq Toward(ev2, al2, n)
  BY <1>1 DEF Toward, Targets
<1>4. \A entry : Sources(ev, entry) \subseteq Sources(ev2, entry)
  BY <1>1 DEF Sources
<1>5. QED
  BY <1>1, <1>2, <1>3, <1>4

\* Following a request from step to step.
LEMMA FollowSteps ==
    ASSUME Followed, Follow, NEW c \in Watched
    PROVE  /\ pc[c] # "idle" => /\ ever[c] \subseteq ever'[c] /\ always'[c] \subseteq always[c]
                                /\ always[c] \subseteq Facts /\ Facts \subseteq ever[c]
           /\ pc[c] # "idle" \/ pc'[c] # "idle" =>
                always'[c] \subseteq Facts' /\ Facts' \subseteq ever'[c]
BY DEF Followed, Follow

LEMMA FollowedKept ==
    ASSUME Followed, Follow
    PROVE  Followed'
BY FollowSteps DEF Followed

\* A resolved name is one the request may have been led to.
LEMMA NamesLead ==
    ASSUME StoresInv, NEW n \in Names, NEW ev, NEW al, al \subseteq Facts, Facts \subseteq ev
    PROVE  ResolveName(n) \in Names /\ ResolveName(n) \in Toward(ev, al, n)
<1>1. "alias" \in Kinds
  BY DEF Kinds
<1>2. CASE items["alias"][n] = NoItem
  <2>1. <<"stored", "alias", n>> \notin al
    BY <1>2, FactsOfItems
  <2>2. QED
    BY <1>2, <2>1 DEF ResolveName, Toward, Targets
<1>3. CASE items["alias"][n] # NoItem
  <2> DEFINE body == items["alias"][n].body
  <2>1. body \in AliasBody /\ body.indexes # <<>>
    BY <1>1, <1>3 DEF StoresInv, BodyOf, ValidBody, ValidAlias
  <2>2. Head(body.indexes) = body.indexes[1] /\ Head(body.indexes) \in Names
    BY <2>1 DEF AliasBody
  <2>3. body \in Bodies(Facts, "alias", n)
    <3>1. Bodies(Facts, "alias", n) = {body}
      BY <1>1, <1>3, FactsOfItems
    <3>2. QED
      BY <3>1
  <2>4. body \in Bodies(ev, "alias", n)
    BY <2>3 DEF Bodies
  <2>5. QED
    BY <1>3, <2>2, <2>4 DEF ResolveName, Toward, Targets
<1>4. QED
  BY <1>2, <1>3

\* What holds of every request, and is needed for each kind of answer.
BaseInv == StoresInv /\ ThreadsInv /\ Followed

LEMMA BaseHolds ==
    /\ HistoryInit => BaseInv
    /\ BaseInv /\ [HistoryNext]_historyVars => BaseInv'
<1>1. HistoryInit => BaseInv
  <2> SUFFICES ASSUME HistoryInit PROVE BaseInv
    OBVIOUS
  <2>1. StoresInv
    BY BootItemsAssumption, BootIndexesAssumption DEF HistoryInit, ResourceInit, StoresInv
  <2>2. ThreadsInv /\ Followed
    BY WatchedAssumption DEF HistoryInit, ResourceInit, ThreadsInv, Followed
  <2>3. QED
    BY <2>1, <2>2 DEF BaseInv
<1>2. ASSUME BaseInv, HistoryNext PROVE BaseInv'
  <2>1. PICK c \in Clients : Start(c) \/ ServeStep(c)
    BY <1>2, StepsAreOfOne
  <2>2. Follow
    BY <1>2, StepsAreOfOne
  <2>3. StoresInv'
    BY <1>2, <2>1, ItemsKept, IndexesKept DEF BaseInv, StoresInv
  <2>4. ThreadsInv'
    BY <1>2, <2>1, ThreadsKept DEF BaseInv
  <2>5. Followed'
    BY <1>2, <2>2, FollowedKept DEF BaseInv
  <2>6. QED
    BY <2>3, <2>4, <2>5 DEF BaseInv
<1>3. ASSUME BaseInv, UNCHANGED historyVars PROVE BaseInv'
  BY <1>3 DEF historyVars, BaseInv, StoresInv, ThreadsInv, Followed, Facts, IndexFacts, MapsFacts,
    DocFacts, StoredFacts, ItemFacts, StandingIndexes, StoredItems
<1>4. QED
  BY <1>1, <1>2, <1>3

\* The steps of the requests that read several stores.
LEMMA StepsByRequest ==
    ASSUME ThreadsInv, NEW c \in Clients, ServeStep(c)
    PROVE  LET op == job[c].req.op
           IN  /\ op = "createIndex" => CheckAliasName(c) \/ CheckMap(c) \/ CreateIndex(c)
               /\ op = "search" =>
                    ResolveIndex(c) \/ RequireMaps(c) \/ ExpandWord(c) \/ FinishSearch(c)
               /\ op = "retrieve" => RetrieveStep(c)
               /\ op \in {"listIndexes", "stats"} =>
                    ListNames(c) \/ LookUpIndex(c) \/ FinishListing(c) \/ CountItems(c)
<1>1. pc[c] # "idle" /\ job[c].req \in Request /\ pc[c] \in LabelsOf(job[c].req)
  BY StepForm DEF ThreadsInv, IsJob
<1>2. CASE ResourceStep(c)
  <2>1. pc[c] \in {"reject", "check_index", "store", "delete", "get", "list"}
    BY <1>2 DEF ResourceStep, Reject, CheckIndexName, StoreItem, DeleteItem, GetItem, ListItems
  <2>2. job[c].req.op \in {"create", "put", "delete", "get", "list"}
    BY <1>1, <2>1, LabelsTell
  <2>3. QED
    BY <2>2
<1>3. CASE IndexStep(c)
  <2>1. CASE DeleteIndex(c) \/ UploadDocument(c)
    <3>1. pc[c] \in {"delete_index", "upload"}
      BY <2>1 DEF DeleteIndex, UploadDocument
    <3>2. job[c].req.op \in {"deleteIndex", "upload"}
      BY <1>1, <3>1, LabelsTell
    <3>3. QED
      BY <3>2
  <2>2. CASE CheckAliasName(c) \/ CheckMap(c) \/ CreateIndex(c)
    <3>1. pc[c] \in {"check_alias", "check_map"}
      BY <2>2 DEF CheckAliasName, CheckMap, CreateIndex
    <3>2. job[c].req.op = "createIndex"
      BY <1>1, <3>1, LabelsTell
    <3>3. QED
      BY <2>2, <3>2
  <2>3. CASE ResolveIndex(c) \/ RequireMaps(c) \/ ExpandWord(c) \/ FinishSearch(c)
    <3>1. pc[c] \in {"resolve", "require", "expand"}
      BY <2>3 DEF ResolveIndex, RequireMaps, ExpandWord, FinishSearch
    <3>2. job[c].req.op \in {"deleteIndex", "search"}
      BY <1>1, <3>1, LabelsTell
    <3>3. QED
      BY <2>3, <3>2
  <2>4. QED
    BY <1>3, <2>1, <2>2, <2>3 DEF IndexStep
<1>4. CASE RetrieveStep(c)
  <2>1. pc[c] \in {"get_base", "get_source", "resolve_source", "check_source", "next_source",
                   "parse_source", "research_source", "search_source"}
    BY <1>4 DEF RetrieveStep, GetBase, GetSource, ResolveSource, CheckSource, NextSource,
      SourcesChecked, ParseSource, ResolveAgain, SearchSource
  <2>2. job[c].req.op = "retrieve"
    BY <1>1, <2>1, LabelsTell
  <2>3. QED
    BY <1>4, <2>2
<1>5. CASE ServiceWideStep(c)
  <2>1. CASE ResetIndexes(c) \/ ResetItems(c)
    <3>1. pc[c] \in {"reset_indexes", "reset_items"}
      BY <2>1 DEF ResetIndexes, ResetItems
    <3>2. job[c].req.op = "reset"
      BY <1>1, <3>1, LabelsTell
    <3>3. QED
      BY <3>2
  <2>2. CASE ListNames(c) \/ LookUpIndex(c) \/ FinishListing(c) \/ CountItems(c)
    <3>1. pc[c] \in {"list_names", "look_up", "count"}
      BY <2>2 DEF ListNames, LookUpIndex, FinishListing, CountItems
    <3>2. job[c].req.op \in {"listIndexes", "stats"}
      BY <1>1, <3>1, LabelsTell
    <3>3. QED
      BY <2>2, <3>2
  <2>3. QED
    BY <1>5, <2>1, <2>2 DEF ServiceWideStep
<1>6. QED
  BY <1>2, <1>3, <1>4, <1>5 DEF ServeStep

\* What a step does to the request of a watched client: nothing, or begins it,
\* or takes it to another operation, or answers it.
LEMMA WatchedSteps ==
    ASSUME BaseInv, HistoryNext, NEW c \in Watched
    PROVE  \/ /\ pc'[c] = pc[c] /\ job'[c] = job[c]
              /\ reply' # NoReply => reply'.client # c
           \/ \E r \in Request :
                pc'[c] = EntryLabel(r) /\ job'[c] = FreshJob(r) /\ reply' = NoReply
           \/ /\ ServeStep(c) /\ pc[c] # "idle"
              /\ \/ pc'[c] = "idle" /\ reply'.req = job[c].req
                 \/ pc'[c] # "idle" /\ reply' = NoReply /\ job'[c].req = job[c].req
<1>1. c \in Clients
  BY WatchedAssumption
<1>2. PICK d \in Clients : Start(d) \/ ServeStep(d)
  BY StepsAreOfOne
<1>3. ThreadsInv
  BY DEF BaseInv
<1>4. CASE c # d
  BY <1>1, <1>2, <1>3, <1>4, ThreadsKept
<1>5. CASE Start(c)
  <2>1. PICK r \in Workload[c] : /\ job' = [job EXCEPT ![c] = FreshJob(r)]
                                 /\ pc' = [pc EXCEPT ![c] = EntryLabel(r)]
    BY <1>5 DEF Start
  <2>2. r \in Request
    BY <1>1, WorkloadAssumption
  <2>3. pc'[c] = EntryLabel(r) /\ job'[c] = FreshJob(r)
    BY <1>1, <1>3, <2>1 DEF ThreadsInv
  <2>4. reply' = NoReply
    BY <1>5 DEF Start
  <2>5. QED
    BY <2>2, <2>3, <2>4
<1>6. CASE ServeStep(c)
  <2>1. pc[c] # "idle"
    BY <1>1, <1>3, <1>6, StepForm
  <2>2. CASE \E status, out : Answer(c, status, out)
    <3>1. pc'[c] = "idle" /\ reply'.req = job[c].req
      BY <1>1, <1>3, <2>2 DEF Answer, ThreadsInv
    <3>2. QED
      BY <1>6, <2>1, <3>1
  <2>3. CASE \E label \in LabelsOf(job[c].req) : \E j :
               Goto(c, label) /\ Holds(c, j) /\ IsJob(j) /\ j.req = job[c].req
    <3>1. job[c].req \in Request
      BY <1>1, <1>3, <2>1 DEF ThreadsInv, IsJob
    <3>2. pc'[c] \in LabelsOf(job[c].req) /\ reply' = NoReply /\ job'[c].req = job[c].req
      BY <1>1, <1>3, <2>3 DEF Goto, Holds, ThreadsInv
    <3>3. pc'[c] # "idle"
      BY <3>1, <3>2, LabelsTell
    <3>4. QED
      BY <1>6, <2>1, <3>2, <3>3
  <2>4. QED
    BY <1>1, <1>3, <1>6, <2>2, <2>3, StepForm
<1>7. QED
  BY <1>2, <1>4, <1>5, <1>6

\* What a list names, and what is left to visit after its head.
LEMMA HeadAndTail ==
    ASSUME NEW S, NEW s \in Seq(S), s # <<>>
    PROVE  /\ Head(s) \in S /\ Head(s) \in ToSet(s) /\ Head(s) = s[1]
           /\ Tail(s) \in Seq(S) /\ Len(Tail(s)) = Len(s) - 1 /\ Len(s) \in Nat \ {0}
           /\ \A i \in 1..Len(s) - 1 : Tail(s)[i] = s[i + 1]
           /\ ToSet(s) = {Head(s)} \cup ToSet(Tail(s))
           /\ Tail(s) = <<>> <=> Len(s) = 1
<1> DEFINE t == Tail(s)
<1>1. /\ Len(s) \in Nat \ {0} /\ Head(s) = s[1] /\ Head(s) \in S
      /\ t \in Seq(S) /\ Len(t) = Len(s) - 1
      /\ \A i \in 1..Len(s) - 1 : t[i] = s[i + 1]
  OBVIOUS
<1>2. DOMAIN s = 1..Len(s) /\ DOMAIN t = 1..Len(t)
  BY <1>1
<1> HIDE DEF t
<1>3. Head(s) \in ToSet(s)
  BY <1>1, <1>2 DEF ToSet
<1>4. ASSUME NEW i \in DOMAIN t PROVE t[i] \in ToSet(s)
  <2>1. i + 1 \in DOMAIN s /\ t[i] = s[i + 1]
    BY <1>1, <1>2
  <2>2. QED
    BY <2>1 DEF ToSet
<1>5. ASSUME NEW i \in DOMAIN s PROVE s[i] = Head(s) \/ s[i] \in ToSet(t)
  <2>1. CASE i = 1
    BY <1>1, <2>1
  <2>2. CASE i # 1
    <3>1. i - 1 \in DOMAIN t /\ t[i - 1] = s[i]
      BY <1>1, <1>2, <2>2
    <3>2. QED
      BY <3>1 DEF ToSet
  <2>3. QED
    BY <2>1, <2>2
<1>6. ToSet(s) = {Head(s)} \cup ToSet(t)
  BY <1>3, <1>4, <1>5 DEF ToSet
<1>7. t = <<>> <=> Len(s) = 1
  <2>1. t = <<>> <=> Len(t) = 0
    BY <1>1
  <2>2. QED
    BY <1>1, <2>1
<1>8. QED
  BY <1>1, <1>3, <1>6, <1>7 DEF t

LEMMA EmptyNamesNone == ToSet(<<>>) = {}
BY DEF ToSet

\* The fields of the request's job after a step.
Becomes(c, target, todo, sources, out) ==
    /\ job'[c].req = job[c].req /\ job'[c].target = target /\ job'[c].todo = todo
    /\ job'[c].sources = sources /\ job'[c].out = out

LEMMA JobFields ==
    ASSUME ThreadsInv, NEW c \in Clients, pc[c] # "idle", NEW x, NEW y
    PROVE  /\ UNCHANGED job =>
                Becomes(c, job[c].target, job[c].todo, job[c].sources, job[c].out)
           /\ job' = [job EXCEPT ![c].target = x] =>
                Becomes(c, x, job[c].todo, job[c].sources, job[c].out)
           /\ job' = [job EXCEPT ![c].todo = x] =>
                Becomes(c, job[c].target, x, job[c].sources, job[c].out)
           /\ job' = [job EXCEPT ![c].sources = x] =>
                Becomes(c, job[c].target, job[c].todo, x, job[c].out)
           /\ job' = [job EXCEPT ![c].todo = x, ![c].out = y] =>
                Becomes(c, job[c].target, x, job[c].sources, y)
           /\ job' = [job EXCEPT ![c].sources = x, ![c].out = y] =>
                Becomes(c, job[c].target, job[c].todo, x, y)
<1>1. c \in DOMAIN job /\ IsJob(job[c])
  BY DEF ThreadsInv
<1>2. /\ job' = [job EXCEPT ![c].target = x] => job'[c] = [job[c] EXCEPT !.target = x]
      /\ job' = [job EXCEPT ![c].todo = x] => job'[c] = [job[c] EXCEPT !.todo = x]
      /\ job' = [job EXCEPT ![c].sources = x] => job'[c] = [job[c] EXCEPT !.sources = x]
      /\ job' = [job EXCEPT ![c].todo = x, ![c].out = y] =>
           job'[c] = [job[c] EXCEPT !.todo = x, !.out = y]
      /\ job' = [job EXCEPT ![c].sources = x, ![c].out = y] =>
           job'[c] = [job[c] EXCEPT !.sources = x, !.out = y]
  BY <1>1
<1>3. QED
  BY <1>1, <1>2 DEF IsJob, Becomes

\* What the names lead to for an answer that must not miss it.
Surely(ev, al, n) == Targets(al, n, <<"stored", "alias", n>> \notin ev)

LEMMA SurelyLeads ==
    ASSUME NEW n \in Names, NEW ev, NEW al, al \subseteq Facts, Facts \subseteq ev
    PROVE  Surely(ev, al, n) \subseteq {ResolveName(n)}
<1>1. "alias" \in Kinds /\ Bodies(al, "alias", n) \subseteq Bodies(Facts, "alias", n)
  BY DEF Kinds, Bodies
<1>2. CASE items["alias"][n] = NoItem
  BY <1>1, <1>2, FactsOfItems DEF Surely, Targets, ResolveName
<1>3. CASE items["alias"][n] # NoItem
  <2>1. /\ <<"stored", "alias", n>> \in ev
        /\ Bodies(al, "alias", n) \subseteq {items["alias"][n].body}
    BY <1>1, <1>3, FactsOfItems
  <2>2. ResolveName(n) = items["alias"][n].body.indexes[1]
    BY <1>3 DEF ResolveName
  <2>3. QED
    BY <2>1, <2>2 DEF Surely, Targets
<1>4. QED
  BY <1>2, <1>3

-----------------------------------------------------------------------------
(* The first documents of an index *)

\* The place of a key is the number of keys up to it.
UpTo(docs, d) == {e \in docs : e <= d}

LEMMA PlacesGrow ==
    ASSUME NEW docs \in SUBSET Nat, IsFiniteSet(docs), NEW d \in docs
    PROVE  /\ Cardinality(UpTo(docs, d)) \in 1..Cardinality(docs)
           /\ \A e \in docs : d < e => Cardinality(UpTo(docs, d)) < Cardinality(UpTo(docs, e))
<1>1. \A k \in docs : UpTo(docs, k) \subseteq docs /\ k \in UpTo(docs, k)
  BY DEF UpTo
<1>2. \A k \in docs : /\ IsFiniteSet(UpTo(docs, k)) /\ Cardinality(UpTo(docs, k)) \in Nat
                      /\ Cardinality(UpTo(docs, k)) <= Cardinality(docs)
  BY <1>1, FS_Subset, FS_CardinalityType
<1>3. Cardinality(UpTo(docs, d)) # 0
  BY <1>1, <1>2, FS_EmptySet
<1>4. Cardinality(docs) \in Nat
  BY FS_CardinalityType
<1>5. ASSUME NEW e \in docs, d < e PROVE Cardinality(UpTo(docs, d)) < Cardinality(UpTo(docs, e))
  <2> DEFINE S == UpTo(docs, d)
             T == UpTo(docs, e)
  <2>1. \A h \in docs : h <= d => h <= e
    BY <1>5
  <2>2. ~(e <= d)
    BY <1>5
  <2>3. S \subseteq T /\ e \notin S /\ e \in T
    BY <1>1, <2>1, <2>2 DEF UpTo
  <2>4. IsFiniteSet(T) /\ Cardinality(S) \in Nat /\ Cardinality(T) \in Nat
    BY <1>2
  <2> HIDE DEF S, T
  <2>5. Cardinality(S) <= Cardinality(T) /\ Cardinality(S) # Cardinality(T)
    BY <2>3, <2>4, FS_Subset
  <2>6. Cardinality(S) < Cardinality(T)
    BY <2>4, <2>5
  <2>7. QED
    BY <2>6 DEF S, T
<1>6. QED
  BY <1>2, <1>3, <1>4, <1>5

\* A finite set of keys can be put in order, and then stands as InKeyOrder says.
LEMMA KeyOrder ==
    ASSUME NEW docs \in SUBSET Nat, IsFiniteSet(docs)
    PROVE  LET s == InKeyOrder(docs)
               n == Cardinality(docs)
           IN  /\ n \in Nat /\ s \in [1..n -> docs]
               /\ \A i, j \in 1..n : i < j => s[i] < s[j]
               /\ \A d \in docs : \E i \in 1..n : s[i] = d
<1> DEFINE n == Cardinality(docs)
           Sorted(s) == \A i, j \in DOMAIN s : i < j => s[i] < s[j]
<1>1. n \in Nat
  BY FS_CardinalityType
<1>2. IsFiniteSet(1..n) /\ Cardinality(1..n) = n
  BY <1>1, FS_Interval
<1>3. \E s \in [1..n -> docs] : Sorted(s)
  <2> DEFINE place == [d \in docs |-> Cardinality(UpTo(docs, d))]
  <2>1. place \in [docs -> 1..n] /\ \A d, e \in docs : d < e => place[d] < place[e]
    BY PlacesGrow
  <2> HIDE DEF place
  <2>2. place \in Injection(docs, 1..n)
    BY <2>1 DEF Injection, IsInjective
  <2>3. place \in Surjection(docs, 1..n)
    BY <1>2, <2>2, FS_Injection
  <2>4. \A i \in 1..n : \E d \in docs : place[d] = i
    BY <2>3 DEF Surjection
  <2> DEFINE s == [i \in 1..n |-> CHOOSE d \in docs : place[d] = i]
  <2>5. s \in [1..n -> docs] /\ \A i \in 1..n : place[s[i]] = i
    BY <2>4
  <2> HIDE DEF s
  <2>6. ASSUME NEW i \in 1..n, NEW j \in 1..n, i < j PROVE s[i] < s[j]
    <3>1. s[i] \in Nat /\ s[j] \in Nat /\ s[i] \in docs /\ s[j] \in docs
      BY <2>5
    <3>2. ~(s[j] < s[i]) /\ s[i] # s[j]
      <4>1. place[s[i]] = i /\ place[s[j]] = j
        BY <2>5
      <4>2. QED
        BY <1>1, <2>1, <2>6, <3>1, <4>1
    <3>3. QED
      BY <3>1, <3>2
  <2>7. QED
    BY <2>5, <2>6
<1> DEFINE s == InKeyOrder(docs)
<1>4. s \in [1..n -> docs] /\ Sorted(s)
  BY <1>3 DEF InKeyOrder
<1> HIDE DEF s
<1>5. s \in Injection(1..n, docs)
  <2>1. ASSUME NEW i \in 1..n, NEW j \in 1..n, s[i] = s[j] PROVE i = j
    <3>1. s[i] \in Nat /\ s[j] \in Nat
      BY <1>4
    <3>2. QED
      BY <1>1, <1>4, <2>1, <3>1
  <2>2. QED
    BY <1>4, <2>1 DEF Injection, IsInjective
<1>6. s \in Surjection(1..n, docs)
  BY <1>2, <1>5, FS_Injection
<1>7. QED
  BY <1>1, <1>4, <1>6 DEF Surjection, s

\* The documents with fewer than top before them.
FirstDocs(docs, top) == {d \in docs : Cardinality({e \in docs : e < d}) < top}

LEMMA TopIsFirst ==
    ASSUME NEW docs \in SUBSET Nat, IsFiniteSet(docs), NEW top \in Nat
    PROVE  /\ TopDocuments(docs, top) \in Seq(docs)
           /\ ToSet(TopDocuments(docs, top)) = FirstDocs(docs, top)
<1> DEFINE s == InKeyOrder(docs)
           n == Cardinality(docs)
           m == IF top < n THEN top ELSE n
           hits == SubSeq(s, 1, m)
<1>1. /\ n \in Nat /\ s \in [1..n -> docs]
      /\ \A i, j \in 1..n : i < j => s[i] < s[j]
      /\ \A d \in docs : \E i \in 1..n : s[i] = d
  BY KeyOrder
<1> HIDE DEF s
<1>2. ASSUME NEW i \in 1..n PROVE Cardinality({e \in docs : e < s[i]}) = i - 1
  <2> DEFINE less == {e \in docs : e < s[i]}
             f == [j \in 1..(i - 1) |-> s[j]]
  <2>1. i - 1 \in Nat /\ \A j \in 1..(i - 1) : j \in 1..n /\ s[j] \in docs /\ s[j] < s[i]
    BY <1>1
  <2>2. \A j, k \in 1..n : s[j] = s[k] => j = k
    <3>1. \A j \in 1..n : s[j] \in Nat
      BY <1>1
    <3>2. QED
      BY <1>1, <3>1
  <2>3. f \in Injection(1..(i - 1), less)
    BY <2>1, <2>2 DEF Injection, IsInjective
  <2>4. ASSUME NEW e \in less PROVE \E j \in 1..(i - 1) : f[j] = e
    <3>1. PICK j \in 1..n : s[j] = e
      BY <1>1
    <3>2. s[i] \in Nat /\ s[j] \in Nat /\ s[j] < s[i]
      BY <1>1, <3>1
    <3>3. j < i
      BY <1>1, <3>2
    <3>4. j \in 1..(i - 1)
      BY <3>3
    <3>5. QED
      BY <3>1, <3>4
  <2>5. ExistsBijection(1..(i - 1), less)
    BY <2>3, <2>4 DEF ExistsBijection, Bijection, Injection, Surjection
  <2>6. QED
    BY <2>1, <2>5, FS_CountingElements
<1>3. m \in Nat /\ m <= n /\ \A i \in 1..n : i <= m <=> i - 1 < top
  BY <1>1
<1>4. s \in Seq(docs) /\ Len(s) = n
  BY <1>1
<1>5. hits \in Seq(docs) /\ Len(hits) = m /\ \A i \in 1..m : hits[i] = s[i]
  BY <1>3, <1>4
<1>6. hits = TopDocuments(docs, top)
  BY DEF TopDocuments, s
<1> HIDE DEF hits, m
<1>7. ToSet(hits) \subseteq FirstDocs(docs, top)
  <2>1. ASSUME NEW i \in 1..m PROVE hits[i] \in FirstDocs(docs, top)
    <3>1. i \in 1..n /\ hits[i] = s[i] /\ s[i] \in docs
      BY <1>1, <1>3, <1>5
    <3>2. Cardinality({e \in docs : e < s[i]}) < top
      BY <1>2, <1>3, <3>1
    <3>3. QED
      BY <3>1, <3>2 DEF FirstDocs
  <2>2. DOMAIN hits = 1..m
    BY <1>5
  <2>3. QED
    BY <2>1, <2>2 DEF ToSet
<1>8. FirstDocs(docs, top) \subseteq ToSet(hits)
  <2>1. ASSUME NEW d \in FirstDocs(docs, top) PROVE \E i \in DOMAIN hits : hits[i] = d
    <3>1. d \in docs /\ Cardinality({e \in docs : e < d}) < top
      BY DEF FirstDocs
    <3>2. PICK i \in 1..n : s[i] = d
      BY <1>1, <3>1
    <3>3. i - 1 < top
      BY <1>2, <3>1, <3>2
    <3>4. i \in 1..m
      BY <1>3, <3>3
    <3>5. QED
      BY <1>3, <1>5, <3>2, <3>4
  <2>2. QED
    BY <2>1 DEF ToSet
<1>9. QED
  BY <1>5, <1>6, <1>7, <1>8

-----------------------------------------------------------------------------
(* The definition of an index over synonym maps *)

\* A definition under way has found every map that it is not still to look up.
DefineKnows(label, j, ev) ==
    label = "check_map" =>
      /\ j.todo \in Seq(Names)
      /\ ToSet(j.todo) \subseteq ToSet(j.req.maps)
      /\ \A m \in ToSet(j.req.maps) \ ToSet(j.todo) : <<"stored", "synonymMap", m>> \in ev

DefineInv ==
    \A c \in Watched : pc[c] # "idle" /\ job[c].req.op = "createIndex" =>
        DefineKnows(pc[c], job[c], ever[c])

DefineAnswer(r, status, ev, al) ==
    /\ status \in {201, 400, 409}
    /\ status = 201 => \A m \in ToSet(r.maps) : <<"stored", "synonymMap", m>> \in ev
    /\ status = 400 => \E m \in ToSet(r.maps) : <<"stored", "synonymMap", m>> \notin al
    /\ status = 409 => <<"index", r.name>> \in ev \/ <<"stored", "alias", r.name>> \in ev

LEMMA DefineSteps ==
    ASSUME StoresInv, ThreadsInv, NEW c \in Clients, ServeStep(c), job[c].req.op = "createIndex",
           NEW ev, NEW al, al \subseteq Facts, Facts \subseteq ev,
           DefineKnows(pc[c], job[c], ev)
    PROVE  \/ pc'[c] # "idle" /\ DefineKnows(pc'[c], job'[c], ev)
           \/ pc'[c] = "idle" /\ DefineAnswer(job[c].req, reply'.status, ev, al)
<1> DEFINE r == job[c].req
<1>1. r \in Request /\ r.name \in Names /\ r.maps \in Seq(Names)
  BY StepForm, RequestParts DEF ThreadsInv, IsJob
<1>2. CheckAliasName(c) \/ CheckMap(c) \/ CreateIndex(c)
  BY StepsByRequest
<1>3. c \in DOMAIN pc /\ c \in DOMAIN job /\ "alias" \in Kinds /\ "synonymMap" \in Kinds
  BY DEF ThreadsInv, Kinds
<1>4. pc[c] # "idle" /\ IsJob(job[c])
  BY StepForm DEF ThreadsInv
<1>5. ASSUME NEW x, job' = [job EXCEPT ![c].todo = x]
      PROVE  job'[c].todo = x /\ job'[c].req = r
  <2>1. job'[c] = [job[c] EXCEPT !.todo = x]
    BY <1>3, <1>5
  <2>2. QED
    BY <1>4, <2>1 DEF IsJob
<1>6. ASSUME NEW status, NEW out, Answer(c, status, out)
      PROVE  pc'[c] = "idle" /\ reply'.status = status
  BY <1>3, <1>6 DEF Answer
<1> HIDE DEF r
<1>7. CASE CheckAliasName(c)
  <2>1. CASE items["alias"][r.name] # NoItem /\ Answer(c, 409, <<>>)
    <3>1. <<"stored", "alias", r.name>> \in ev
      BY <1>1, <1>3, <2>1, FactsOfItems
    <3>2. QED
      BY <1>6, <2>1, <3>1 DEF DefineAnswer, r
  <2>2. CASE job' = [job EXCEPT ![c].todo = r.maps] /\ Goto(c, "check_map")
    BY <1>1, <1>3, <1>5, <2>2 DEF DefineKnows, Goto
  <2>3. QED
    BY <1>7, <2>1, <2>2 DEF CheckAliasName, r
<1>8. CASE CheckMap(c)
  <2> DEFINE todo == job[c].todo
  <2>1. pc[c] = "check_map" /\ todo # <<>>
    BY <1>8 DEF CheckMap
  <2>2. /\ todo \in Seq(Names) /\ ToSet(todo) \subseteq ToSet(r.maps)
        /\ \A m \in ToSet(r.maps) \ ToSet(todo) : <<"stored", "synonymMap", m>> \in ev
    BY <2>1 DEF DefineKnows, r
  <2> HIDE DEF todo
  <2>3. Head(todo) \in Names /\ Head(todo) \in ToSet(todo)
    BY <2>1, <2>2, HeadAndTail
  <2>4. CASE items["synonymMap"][Head(todo)] = NoItem /\ Answer(c, 400, <<>>)
    <3>1. <<"stored", "synonymMap", Head(todo)>> \notin al
      BY <2>4, FactsOfItems
    <3>2. QED
      BY <1>6, <2>2, <2>3, <2>4, <3>1 DEF DefineAnswer, r
  <2>5. CASE /\ items["synonymMap"][Head(todo)] # NoItem
             /\ job' = [job EXCEPT ![c].todo = Tail(@)] /\ Goto(c, "check_map")
    <3>1. <<"stored", "synonymMap", Head(todo)>> \in ev
      BY <1>3, <2>3, <2>5, FactsOfItems
    <3>2. Tail(todo) \in Seq(Names) /\ ToSet(todo) = {Head(todo)} \cup ToSet(Tail(todo))
      BY <2>1, <2>2, HeadAndTail
    <3>3. job'[c].todo = Tail(todo) /\ job'[c].req = r
      BY <1>5, <2>5 DEF todo
    <3>4. DefineKnows(pc'[c], job'[c], ev)
      BY <2>2, <3>1, <3>2, <3>3 DEF DefineKnows
    <3>5. QED
      BY <1>3, <2>5, <3>4 DEF Goto
  <2>6. QED
    BY <1>8, <2>4, <2>5 DEF CheckMap, todo
<1>9. CASE CreateIndex(c)
  <2>1. pc[c] = "check_map" /\ job[c].todo = <<>>
    BY <1>9 DEF CreateIndex
  <2>2. \A m \in ToSet(r.maps) : <<"stored", "synonymMap", m>> \in ev
    BY <2>1, EmptyNamesNone DEF DefineKnows, r
  <2>3. CASE indexes[r.name] # NoIndex /\ Answer(c, 409, <<>>)
    <3>1. <<"index", r.name>> \in ev
      BY <1>1, <2>3, FactsOfIndexes
    <3>2. QED
      BY <1>6, <2>3, <3>1 DEF DefineAnswer, r
  <2>4. CASE Answer(c, 201, <<>>)
    BY <1>6, <2>2, <2>4 DEF DefineAnswer, r
  <2>5. QED
    BY <1>9, <2>3, <2>4 DEF CreateIndex, r
<1>10. QED
  BY <1>2, <1>7, <1>8, <1>9

LEMMA DefineHolds ==
    /\ HistoryInit => DefineInv /\ IndexesDefinedOverMaps
    /\ BaseInv /\ DefineInv /\ HistoryNext => DefineInv' /\ IndexesDefinedOverMaps'
<1>1. ASSUME HistoryInit PROVE DefineInv /\ IndexesDefinedOverMaps
  BY <1>1, WatchedAssumption DEF HistoryInit, ResourceInit, DefineInv, IndexesDefinedOverMaps, Answered
<1>2. ASSUME BaseInv, DefineInv, HistoryNext, NEW c \in Watched
      PROVE  /\ pc'[c] # "idle" /\ job'[c].req.op = "createIndex" =>
                  DefineKnows(pc'[c], job'[c], ever'[c])
             /\ reply' # NoReply /\ reply'.client = c /\ reply'.req.op = "createIndex" =>
                  DefineAnswer(reply'.req, reply'.status, ever'[c], always'[c])
  <2>1. /\ pc[c] # "idle" => /\ ever[c] \subseteq ever'[c] /\ always'[c] \subseteq always[c]
                             /\ always[c] \subseteq Facts /\ Facts \subseteq ever[c]
    BY <1>2, StepsAreOfOne, FollowSteps DEF BaseInv
  <2>2. CASE pc'[c] = pc[c] /\ job'[c] = job[c] /\ (reply' # NoReply => reply'.client # c)
    BY <1>2, <2>1, <2>2 DEF DefineInv, DefineKnows
  <2>3. CASE \E r \in Request : pc'[c] = EntryLabel(r) /\ job'[c] = FreshJob(r) /\ reply' = NoReply
    <3>1. PICK r \in Request : pc'[c] = EntryLabel(r) /\ job'[c] = FreshJob(r)
      BY <2>3
    <3>2. job'[c].req = r
      BY <3>1 DEF FreshJob
    <3>3. QED
      BY <2>3, <3>1, <3>2 DEF EntryLabel, DefineKnows
  <2>4. CASE /\ ServeStep(c) /\ pc[c] # "idle"
             /\ \/ pc'[c] = "idle" /\ reply'.req = job[c].req
                \/ pc'[c] # "idle" /\ reply' = NoReply /\ job'[c].req = job[c].req
    <3>1. SUFFICES ASSUME job[c].req.op = "createIndex"
                   PROVE  \/ pc'[c] # "idle" /\ DefineKnows(pc'[c], job'[c], ever[c])
                          \/ pc'[c] = "idle" /\ DefineAnswer(job[c].req, reply'.status, ever[c], always[c])
      BY <2>1, <2>4, ZenonT(40) DEF DefineKnows, DefineAnswer
    <3>2. DefineKnows(pc[c], job[c], ever[c])
      BY <1>2, <2>4, <3>1 DEF DefineInv
    <3>3. QED
      BY <1>2, <2>1, <2>4, <3>1, <3>2, DefineSteps, WatchedAssumption DEF BaseInv
  <2>5. QED
    BY <1>2, <2>2, <2>3, <2>4, WatchedSteps
<1>3. ASSUME BaseInv, DefineInv, HistoryNext PROVE DefineInv' /\ IndexesDefinedOverMaps'
  BY <1>2, <1>3, ZenonT(40) DEF DefineInv, IndexesDefinedOverMaps, Answered, DefineAnswer
<1>4. QED
  BY <1>1, <1>3

\* A definition of an index is accepted only over synonym maps that were each
\* there at some moment, and refused only for a map that was missing or a name
\* that was taken at some moment (create_index).
THEOREM IndexesDefinedOverMapsAlways == HistorySpec => []IndexesDefinedOverMaps
<1>1. BaseInv /\ DefineInv /\ IndexesDefinedOverMaps /\ [HistoryNext]_historyVars
        => DefineInv' /\ IndexesDefinedOverMaps'
  <2>1. ASSUME DefineInv, IndexesDefinedOverMaps, UNCHANGED historyVars
        PROVE  DefineInv' /\ IndexesDefinedOverMaps'
    BY <2>1, ZenonT(40) DEF historyVars, DefineInv, IndexesDefinedOverMaps, Answered
  <2>2. QED
    BY <2>1, DefineHolds
<1>2. QED
  BY <1>1, BaseHolds, DefineHolds, PTL DEF HistorySpec

-----------------------------------------------------------------------------
(* Retrieval over a knowledge base *)

\* What is to be searched comes from the base.
Queued(base, sources, ev) ==
    /\ sources \in Seq(Names \X Names)
    /\ \A pair \in ToSet(sources) : \E entry \in ToSet(base.entries) :
         entry.name = pair[1] /\ \E s \in Sources(ev, entry) : s.index = pair[2]

\* What is to be answered was in an index of one of the sources of the base.
Grounded(base, hit, ev, al) ==
    \E entry \in ToSet(base.entries) :
      /\ entry.name = hit[1]
      /\ \E s \in Sources(ev, entry) : \E n \in Toward(ev, al, s.index) : hit[2] \in Docs(ev, n)

Shown(base, out, ev, al) ==
    out \in Seq(Names \X Nat) /\ \A i \in DOMAIN out : Grounded(base, out[i], ev, al)

\* The answer has the first documents of a source whose index stood still.
Complete(name, index, out, top, ev, al) ==
    \A n \in Surely(ev, al, index) : Docs(ev, n) = Docs(al, n) =>
        \A d \in FirstDocs(Docs(al, n), top) : <<name, d>> \in ToSet(out)

\* An entry whose source was found, and has been or is still to be searched.
Checked(entry, sources, out, top, ev, al) ==
    \A s \in Sources(al, entry) :
      /\ \A n \in Surely(ev, al, s.index) : <<"index", n>> \in ev
      /\ \/ <<entry.name, s.index>> \in ToSet(sources)
         \/ Complete(entry.name, s.index, out, top, ev, al)

CheckingSources  == {"get_source", "resolve_source", "check_source"}
SearchingSources == {"next_source", "parse_source", "research_source", "search_source"}

\* What a retrieval knows at each of its operations.
RetrieveKnows(label, j, base, ev, al) ==
    /\ base \in BaseBody
    /\ Queued(base, j.sources, ev)
    /\ Shown(base, j.out, ev, al)
    /\ label \in CheckingSources =>
         /\ j.todo \in Seq(ToSet(base.entries))
         /\ \A entry \in ToSet(base.entries) \ ToSet(j.todo) :
              Checked(entry, j.sources, j.out, j.req.top, ev, al)
    /\ label \in CheckingSources \ {"get_source"} =>
         /\ j.todo # <<>> /\ j.sources # <<>>
         /\ Last(j.sources)[1] = Head(j.todo).name
         /\ \A s \in Sources(al, Head(j.todo)) : s.index = Last(j.sources)[2]
    /\ label = "check_source" =>
         /\ j.target \in Names
         /\ j.target \in Toward(ev, al, Last(j.sources)[2])
         /\ Surely(ev, al, Last(j.sources)[2]) \subseteq {j.target}
    /\ label \in SearchingSources =>
         \A entry \in ToSet(base.entries) :
           Checked(entry, j.sources, j.out, j.req.top, ev, al)
    /\ label \in SearchingSources \ {"next_source"} => j.sources # <<>>
    /\ label \in {"parse_source", "search_source"} =>
         /\ j.target \in Names
         /\ j.target \in Toward(ev, al, Head(j.sources)[2])
         /\ Surely(ev, al, Head(j.sources)[2]) \subseteq {j.target}

RetrieveUnderWay(label, j, ev, al) ==
    IF label = "get_base" THEN j.sources = <<>> /\ j.out = <<>>
    ELSE \E base \in Bodies(ev, "knowledgeBase", j.req.name) : RetrieveKnows(label, j, base, ev, al)

RetrieveInv ==
    \A c \in Watched : pc[c] # "idle" /\ job[c].req.op = "retrieve" =>
        RetrieveUnderWay(pc[c], job[c], ever[c], always[c])

\* Why a retrieval is refused, and what one that is not answers.
Refused(r, ev, al) ==
    \/ <<"stored", "knowledgeBase", r.name>> \notin al
    \/ \E base \in Bodies(ev, "knowledgeBase", r.name) :
       \E entry \in ToSet(base.entries) : \E s \in Sources(ev, entry) :
       \E n \in Toward(ev, al, s.index) : <<"index", n>> \notin al

Retrieved(r, out, ev, al) ==
    \E base \in Bodies(ev, "knowledgeBase", r.name) :
      /\ Shown(base, out, ev, al)
      /\ \A entry \in ToSet(base.entries) : Checked(entry, <<>>, out, r.top, ev, al)

RetrieveAnswer(r, status, out, ev, al) ==
    /\ status = 404 => Refused(r, ev, al)
    /\ status = 200 => Retrieved(r, out, ev, al)

-----------------------------------------------------------------------------

\* What was known stays known as the request goes on.
LEMMA KnowledgeStays ==
    ASSUME NEW ev, NEW al, NEW ev2, NEW al2, ev \subseteq ev2, al2 \subseteq al, al \subseteq ev
    PROVE  /\ \A n : Surely(ev2, al2, n) \subseteq Surely(ev, al, n)
           /\ \A base, sources : Queued(base, sources, ev) => Queued(base, sources, ev2)
           /\ \A base, out : Shown(base, out, ev, al) => Shown(base, out, ev2, al2)
           /\ \A entry, sources, out, top :
                Checked(entry, sources, out, top, ev, al) => Checked(entry, sources, out, top, ev2, al2)
<1>1. \A entry : Sources(ev, entry) \subseteq Sources(ev2, entry)
  BY FactsGrow
<1>2. \A n : Toward(ev, al, n) \subseteq Toward(ev2, al2, n)
  BY FactsGrow
<1>3. /\ \A entry : Sources(al2, entry) \subseteq Sources(al, entry)
      /\ \A kind, n : Bodies(al2, kind, n) \subseteq Bodies(al, kind, n)
  BY FactsGrow
<1>4. \A n : Surely(ev2, al2, n) \subseteq Surely(ev, al, n)
  BY <1>3 DEF Surely, Targets
<1>5. \A n : Docs(al2, n) \subseteq Docs(al, n) /\ Docs(al, n) \subseteq Docs(ev, n)
             /\ Docs(ev, n) \subseteq Docs(ev2, n)
  BY DEF Docs
<1>6. ASSUME NEW base, NEW sources, Queued(base, sources, ev) PROVE Queued(base, sources, ev2)
  BY <1>1, <1>6 DEF Queued
<1>7. ASSUME NEW base, NEW hit, Grounded(base, hit, ev, al) PROVE Grounded(base, hit, ev2, al2)
  BY <1>1, <1>2, <1>5, <1>7 DEF Grounded
<1>8. ASSUME NEW name, NEW index, NEW out, NEW top, Complete(name, index, out, top, ev, al)
      PROVE  Complete(name, index, out, top, ev2, al2)
  <2>1. SUFFICES ASSUME NEW n \in Surely(ev2, al2, index), Docs(ev2, n) = Docs(al2, n),
                        NEW d \in FirstDocs(Docs(al2, n), top)
                 PROVE  <<name, d>> \in ToSet(out)
    BY DEF Complete
  <2>2. Docs(ev, n) = Docs(al, n) /\ Docs(al2, n) = Docs(al, n)
    BY <1>5, <2>1
  <2>3. QED
    BY <1>4, <1>8, <2>1, <2>2 DEF Complete
<1>9. ASSUME NEW entry, NEW sources, NEW out, NEW top, Checked(entry, sources, out, top, ev, al)
      PROVE  Checked(entry, sources, out, top, ev2, al2)
  BY <1>3, <1>4, <1>8, <1>9 DEF Checked
<1>10. QED
  BY <1>4, <1>6, <1>7, <1>9 DEF Shown

LEMMA RetrieveStays ==
    ASSUME NEW ev, NEW al, NEW ev2, NEW al2, ev \subseteq ev2, al2 \subseteq al, al \subseteq ev
    PROVE  /\ \A label, j : RetrieveUnderWay(label, j, ev, al) => RetrieveUnderWay(label, j, ev2, al2)
           /\ \A r, status, out :
                RetrieveAnswer(r, status, out, ev, al) => RetrieveAnswer(r, status, out, ev2, al2)
<1>1. /\ \A n : Surely(ev2, al2, n) \subseteq Surely(ev, al, n)
      /\ \A base, sources : Queued(base, sources, ev) => Queued(base, sources, ev2)
      /\ \A base, out : Shown(base, out, ev, al) => Shown(base, out, ev2, al2)
      /\ \A entry, sources, out, top :
           Checked(entry, sources, out, top, ev, al) => Checked(entry, sources, out, top, ev2, al2)
  BY KnowledgeStays
<1>2. /\ \A kind, n : Bodies(ev, kind, n) \subseteq Bodies(ev2, kind, n)
      /\ \A n : Toward(ev, al, n) \subseteq Toward(ev2, al2, n)
      /\ \A entry : Sources(ev, entry) \subseteq Sources(ev2, entry)
      /\ \A entry : Sources(al2, entry) \subseteq Sources(al, entry)
  BY FactsGrow
<1>3. ASSUME NEW label, NEW j, NEW base, RetrieveKnows(label, j, base, ev, al)
      PROVE  RetrieveKnows(label, j, base, ev2, al2)
  BY <1>1, <1>2, <1>3 DEF RetrieveKnows
<1>4. ASSUME NEW r, Refused(r, ev, al) PROVE Refused(r, ev2, al2)
  BY <1>2, <1>4 DEF Refused
<1>5. ASSUME NEW r, NEW out, Retrieved(r, out, ev, al) PROVE Retrieved(r, out, ev2, al2)
  BY <1>1, <1>2, <1>5 DEF Retrieved
<1>6. QED
  BY <1>2, <1>3, <1>4, <1>5 DEF RetrieveUnderWay, RetrieveAnswer

\* The source an entry of a base stands for now.
LEMMA SourceSeen ==
    ASSUME StoresInv, NEW entry, entry.name \in Names, entry.inline \in SourceBody \cup {NoSource},
           NEW ev, NEW al, al \subseteq Facts, Facts \subseteq ev
    PROVE  LET source == SourceOf(entry)
           IN  /\ Searchable(source) =>
                    /\ source \in Sources(ev, entry) /\ source.index \in Names
                    /\ \A s \in Sources(al, entry) : s = source
               /\ ~Searchable(source) => Sources(al, entry) = {}
<1> DEFINE source == SourceOf(entry)
<1>1. /\ Sources(al, entry) \subseteq Sources(Facts, entry)
      /\ Sources(Facts, entry) \subseteq Sources(ev, entry)
  BY FactsGrow
<1>2. /\ "knowledgeSource" \in Kinds
      /\ Bodies(Facts, "knowledgeSource", entry.name) =
           IF items["knowledgeSource"][entry.name] = NoItem THEN {}
           ELSE {items["knowledgeSource"][entry.name].body}
  <2>1. "knowledgeSource" \in Kinds
    BY DEF Kinds
  <2> DEFINE n == entry.name
             kind == "knowledgeSource"
  <2>2. n \in Names /\ kind \in Kinds
    BY <2>1
  <2> HIDE DEF n, kind
  <2>3. Bodies(Facts, kind, n) = IF items[kind][n] = NoItem THEN {} ELSE {items[kind][n].body}
    BY <2>2, FactsOfItems
  <2>4. QED
    BY <2>1, <2>3 DEF n, kind
<1>3. source \in SourceBody \cup {NoSource}
  BY <1>2 DEF SourceOf, StoresInv, BodyOf
<1>4. Searchable(source) => source \in Sources(Facts, entry) /\ source.index \in Names
  <2>1. SUFFICES ASSUME Searchable(source)
                 PROVE  source \in Sources(Facts, entry) /\ source.index \in Names
    OBVIOUS
  <2>2. source \in SourceBody /\ source.kind = "searchIndex" /\ source.index # NoName
    BY <1>3, <2>1 DEF Searchable
  <2>3. entry.inline # NoSource => source = entry.inline
    BY DEF SourceOf
  <2>4. entry.inline = NoSource => source \in Bodies(Facts, "knowledgeSource", entry.name)
    BY <1>2, <2>1 DEF SourceOf, Searchable
  <2>5. QED
    BY <2>2, <2>3, <2>4 DEF Sources, SourceBody
<1>5. ASSUME NEW s \in Sources(Facts, entry) PROVE s = source /\ Searchable(source)
  <2>1. s.kind = "searchIndex" /\ s.index # NoName
    BY DEF Sources
  <2>2. CASE entry.inline # NoSource
    BY <2>1, <2>2 DEF Sources, SourceOf, Searchable
  <2>3. CASE entry.inline = NoSource
    <3>1. s \in Bodies(Facts, "knowledgeSource", entry.name)
      BY <2>3 DEF Sources
    <3>2. items["knowledgeSource"][entry.name] # NoItem /\ s = items["knowledgeSource"][entry.name].body
      BY <1>2, <3>1
    <3>3. s \in SourceBody /\ s = source
      BY <1>2, <2>3, <3>2 DEF StoresInv, BodyOf, SourceOf
    <3>4. QED
      BY <2>1, <3>3, SourceAssumption DEF Searchable
  <2>4. QED
    BY <2>2, <2>3
<1>6. QED
  BY <1>1, <1>4, <1>5

LEMMA DocsSeen ==
    ASSUME NEW n \in Names, indexes[n] # NoIndex
    PROVE  Docs(Facts, n) = indexes[n].docs
<1>1. ASSUME NEW f \in Facts, f[1] = "doc", f[2] = n PROVE f[3] \in indexes[n].docs
  <2>1. PICK m \in Names : indexes[m] # NoIndex /\ \E d \in indexes[m].docs : f = <<"doc", m, d>>
    BY <1>1, FactKinds
  <2>2. QED
    BY <1>1, <2>1
<1>2. ASSUME NEW d \in indexes[n].docs PROVE d \in Docs(Facts, n)
  <2> DEFINE f == <<"doc", n, d>>
  <2>1. f \in Facts
    BY FactKinds
  <2>2. f[1] = "doc" /\ f[2] = n /\ f[3] = d
    OBVIOUS
  <2> HIDE DEF f
  <2>3. QED
    BY <2>1, <2>2 DEF Docs
<1>3. QED
  BY <1>1, <1>2 DEF Docs

\* The parts of an entry of a base, and what more to search or answer changes.
LEMMA EntriesTyped ==
    ASSUME NEW base \in BaseBody, NEW entry \in ToSet(base.entries)
    PROVE  entry.name \in Names /\ entry.inline \in SourceBody \cup {NoSource}
<1> DEFINE Entry == [name : Names, inline : SourceBody \cup {NoSource}]
<1>1. base.entries \in Seq(Entry)
  BY DEF BaseBody
<1> HIDE DEF Entry
<1>2. entry \in Entry
  BY <1>1 DEF ToSet
<1>3. QED
  BY <1>2 DEF Entry

LEMMA CheckedGrows ==
    ASSUME NEW entry, NEW sources, NEW out, NEW top, NEW ev, NEW al,
           NEW sources2, NEW out2, ToSet(sources) \subseteq ToSet(sources2),
           ToSet(out) \subseteq ToSet(out2), Checked(entry, sources, out, top, ev, al)
    PROVE  Checked(entry, sources2, out2, top, ev, al)
BY DEF Checked, Complete

LEMMA AppendNames ==
    ASSUME NEW S, NEW s \in Seq(S), NEW x \in S
    PROVE  /\ Append(s, x) \in Seq(S) /\ Append(s, x) # <<>> /\ Last(Append(s, x)) = x
           /\ ToSet(Append(s, x)) = ToSet(s) \cup {x}
<1> DEFINE t == Append(s, x)
<1>1. /\ t \in Seq(S) /\ Len(s) \in Nat /\ Len(t) = Len(s) + 1 /\ t[Len(s) + 1] = x
      /\ \A i \in 1..Len(s) : t[i] = s[i]
      /\ DOMAIN t = 1..Len(s) + 1 /\ DOMAIN s = 1..Len(s)
  OBVIOUS
<1> HIDE DEF t
<1>2. t # <<>> /\ Last(t) = x
  BY <1>1 DEF Last
<1>3. ToSet(t) = ToSet(s) \cup {x}
  <2>1. \A i \in DOMAIN t : t[i] = x \/ (i \in DOMAIN s /\ t[i] = s[i])
    BY <1>1
  <2>2. \A i \in DOMAIN s : i \in DOMAIN t /\ t[i] = s[i]
    BY <1>1
  <2>3. Len(s) + 1 \in DOMAIN t
    BY <1>1
  <2>4. QED
    BY <1>1, <2>1, <2>2, <2>3 DEF ToSet
<1>4. QED
  BY <1>1, <1>2, <1>3 DEF t

LEMMA LastNames ==
    ASSUME NEW S, NEW s \in Seq(S), s # <<>>
    PROVE  Last(s) \in ToSet(s) /\ Last(s) \in S
<1>1. Len(s) \in DOMAIN s /\ s[Len(s)] \in S
  OBVIOUS
<1>2. QED
  BY <1>1 DEF Last, ToSet

LEMMA SameSeq ==
    ASSUME NEW S, NEW s \in Seq(S)
    PROVE  s \in Seq(ToSet(s)) /\ ToSet(s) \subseteq S
<1>1. Len(s) \in Nat /\ s \in [1..Len(s) -> S]
  OBVIOUS
<1>2. \A i \in 1..Len(s) : s[i] \in ToSet(s) /\ s[i] \in S
  BY <1>1 DEF ToSet
<1>3. s \in [1..Len(s) -> ToSet(s)]
  BY <1>1, <1>2
<1>4. ToSet(s) \subseteq S
  BY <1>1 DEF ToSet
<1>5. QED
  BY <1>1, <1>3, <1>4

LEMMA JoinedNames ==
    ASSUME NEW S, NEW s \in Seq(S), NEW t \in Seq(S)
    PROVE  s \o t \in Seq(S) /\ ToSet(s \o t) = ToSet(s) \cup ToSet(t)
<1> DEFINE u == s \o t
<1>1. /\ u \in Seq(S) /\ Len(s) \in Nat /\ Len(t) \in Nat /\ Len(u) = Len(s) + Len(t)
      /\ \A i \in 1..Len(s) : u[i] = s[i]
      /\ \A i \in 1..Len(t) : u[i + Len(s)] = t[i]
      /\ DOMAIN u = 1..Len(u) /\ DOMAIN s = 1..Len(s) /\ DOMAIN t = 1..Len(t)
  OBVIOUS
<1> HIDE DEF u
<1>2. ASSUME NEW i \in DOMAIN u PROVE u[i] \in ToSet(s) \cup ToSet(t)
  <2>1. CASE i <= Len(s)
    <3>1. i \in DOMAIN s /\ u[i] = s[i]
      BY <1>1, <2>1
    <3>2. QED
      BY <3>1 DEF ToSet
  <2>2. CASE ~(i <= Len(s))
    <3>1. i - Len(s) \in DOMAIN t /\ u[(i - Len(s)) + Len(s)] = t[i - Len(s)] /\ (i - Len(s)) + Len(s) = i
      BY <1>1, <2>2
    <3>2. QED
      BY <3>1 DEF ToSet
  <2>3. QED
    BY <2>1, <2>2
<1>3. ASSUME NEW i \in DOMAIN s PROVE s[i] \in ToSet(u)
  <2>1. i \in DOMAIN u /\ u[i] = s[i]
    BY <1>1
  <2>2. QED
    BY <2>1 DEF ToSet
<1>4. ASSUME NEW i \in DOMAIN t PROVE t[i] \in ToSet(u)
  <2>1. i + Len(s) \in DOMAIN u /\ u[i + Len(s)] = t[i]
    BY <1>1
  <2>2. QED
    BY <2>1 DEF ToSet
<1>5. ToSet(u) = ToSet(s) \cup ToSet(t)
  BY <1>2, <1>3, <1>4 DEF ToSet
<1>6. QED
  BY <1>1, <1>5 DEF u

\* The steps that check the sources of the base.
LEMMA CheckingSteps ==
    ASSUME StoresInv, ThreadsInv, NEW c \in Clients, pc[c] # "idle", job[c].req.op = "retrieve",
           NEW ev, NEW al, al \subseteq Facts, Facts \subseteq ev,
           RetrieveUnderWay(pc[c], job[c], ev, al),
           GetBase(c) \/ GetSource(c) \/ ResolveSource(c) \/ CheckSource(c)
    PROVE  \/ pc'[c] # "idle" /\ RetrieveUnderWay(pc'[c], job'[c], ev, al)
           \/ pc'[c] = "idle" /\ RetrieveAnswer(job[c].req, reply'.status, reply'.out, ev, al)
<1> DEFINE j == job[c]
           r == j.req
           k == job'[c]
<1>1. r \in Request /\ r.name \in Names /\ r.top \in Nat
  BY RequestParts DEF ThreadsInv, IsJob
<1>2. c \in DOMAIN pc /\ c \in DOMAIN job /\ "knowledgeBase" \in Kinds
  BY DEF ThreadsInv, Kinds
<1>3. ASSUME NEW status, NEW out, Answer(c, status, out)
      PROVE  pc'[c] = "idle" /\ reply'.status = status /\ reply'.out = out
  BY <1>2, <1>3 DEF Answer
<1>4. ASSUME NEW label, Goto(c, label) PROVE pc'[c] = label
  BY <1>2, <1>4 DEF Goto
<1>5. CASE GetBase(c)
  <2> DEFINE item == items["knowledgeBase"][r.name]
  <2>1. pc[c] = "get_base" /\ j.sources = <<>> /\ j.out = <<>>
    BY <1>5 DEF GetBase, RetrieveUnderWay
  <2>2. CASE item = NoItem /\ Answer(c, 404, <<>>)
    <3>1. <<"stored", "knowledgeBase", r.name>> \notin al
      BY <2>2, FactsOfItems
    <3>2. QED
      BY <1>3, <2>2, <3>1 DEF RetrieveAnswer, Refused
  <2>3. CASE /\ item # NoItem /\ job' = [job EXCEPT ![c].todo = item.body.entries]
             /\ Goto(c, "get_source")
    <3> DEFINE base == item.body
    <3>1. base \in BaseBody
      BY <1>1, <1>2, <2>3 DEF StoresInv, BodyOf
    <3>2. base \in Bodies(ev, "knowledgeBase", r.name)
      <4>1. base \in Bodies(Facts, "knowledgeBase", r.name)
        BY <1>1, <1>2, <2>3, ItemSeen
      <4>2. QED
        BY <4>1, FactsGrow
    <3>3. k.req = r /\ k.todo = base.entries /\ k.sources = <<>> /\ k.out = <<>>
      BY <2>1, <2>3, JobFields DEF Becomes
    <3>4. base.entries \in Seq(ToSet(base.entries))
      BY <3>1, SameSeq DEF BaseBody
    <3> HIDE DEF base, k, r, j
    <3>5. RetrieveKnows("get_source", k, base, ev, al)
      BY <3>1, <3>3, <3>4, EmptyNamesNone DEF RetrieveKnows, Queued, Shown, CheckingSources, SearchingSources
    <3>6. QED
      BY <1>4, <2>3, <3>2, <3>3, <3>5 DEF RetrieveUnderWay, k
  <2>4. QED
    BY <1>5, <2>2, <2>3 DEF GetBase
<1>6. CASE GetSource(c) \/ ResolveSource(c) \/ CheckSource(c)
  <2>1. pc[c] \in CheckingSources
    BY <1>6 DEF GetSource, ResolveSource, CheckSource, CheckingSources
  <2>2. PICK base \in Bodies(ev, "knowledgeBase", r.name) : RetrieveKnows(pc[c], j, base, ev, al)
    BY <2>1 DEF RetrieveUnderWay, CheckingSources
  <2> DEFINE entries == ToSet(base.entries)
             todo == j.todo
             entry == Head(j.todo)
             sources == j.sources
  <2>3. ASSUME NEW label, label \in CheckingSources, Goto(c, label),
               k.req = r, RetrieveKnows(label, k, base, ev, al)
        PROVE  pc'[c] # "idle" /\ RetrieveUnderWay(pc'[c], k, ev, al)
    <3>1. pc'[c] = label /\ label \notin {"idle", "get_base"}
      BY <1>4, <2>3 DEF CheckingSources
    <3>2. QED
      BY <2>3, <3>1 DEF RetrieveUnderWay
  <2> HIDE DEF j, r, k
  <2>4. /\ base \in BaseBody /\ Queued(base, sources, ev) /\ Shown(base, j.out, ev, al)
        /\ todo \in Seq(entries)
        /\ \A e \in entries \ ToSet(todo) : Checked(e, sources, j.out, j.req.top, ev, al)
        /\ sources \in Seq(Names \X Names)
    BY <2>1, <2>2 DEF RetrieveKnows, Queued
  <2>5. todo # <<>> => /\ entry \in entries /\ entry.name \in Names
                       /\ entry.inline \in SourceBody \cup {NoSource}
                       /\ Tail(todo) \in Seq(entries) /\ ToSet(todo) = {entry} \cup ToSet(Tail(todo))
    BY <2>4, HeadAndTail, EntriesTyped
  <2> HIDE DEF entries, todo, sources, entry
  <2>6. CASE GetSource(c)
    <3> DEFINE source == SourceOf(entry)
    <3>1. pc[c] = "get_source" /\ todo # <<>>
      BY <2>6 DEF GetSource, todo, j
    <3>2. /\ Searchable(source) =>
               /\ source \in Sources(ev, entry) /\ source.index \in Names
               /\ \A s \in Sources(al, entry) : s = source
          /\ ~Searchable(source) => Sources(al, entry) = {}
      BY <2>5, <3>1, SourceSeen
    <3> HIDE DEF source
    <3>3. CASE /\ Searchable(source) /\ Goto(c, "resolve_source")
               /\ job' = [job EXCEPT ![c].sources = Append(@, <<entry.name, source.index>>)]
      <4> DEFINE pair == <<entry.name, source.index>>
      <4>1. pair \in Names \X Names /\ pair[1] = entry.name /\ pair[2] = source.index
        BY <2>5, <3>1, <3>2, <3>3
      <4>2. k.req = r /\ k.todo = todo /\ k.sources = Append(sources, pair) /\ k.out = j.out
        BY <3>3, JobFields DEF Becomes, j, r, k, todo, sources
      <4> HIDE DEF pair
      <4>3. /\ Append(sources, pair) \in Seq(Names \X Names) /\ Append(sources, pair) # <<>>
            /\ Last(Append(sources, pair)) = pair
            /\ ToSet(Append(sources, pair)) = ToSet(sources) \cup {pair}
        BY <2>4, <4>1, AppendNames
      <4>4. Queued(base, k.sources, ev)
        BY <2>4, <2>5, <3>1, <3>2, <3>3, <4>1, <4>2, <4>3 DEF Queued, entries
      <4>5. \A e \in entries \ ToSet(todo) : Checked(e, k.sources, k.out, r.top, ev, al)
        BY <2>4, <4>2, <4>3, CheckedGrows DEF r
      <4>6. /\ k.todo # <<>> /\ k.sources # <<>> /\ Last(k.sources)[1] = Head(k.todo).name
            /\ \A s \in Sources(al, Head(k.todo)) : s.index = Last(k.sources)[2]
        BY <3>1, <3>2, <3>3, <4>1, <4>2, <4>3 DEF entry, todo
      <4>7. RetrieveKnows("resolve_source", k, base, ev, al)
        BY <2>4, <4>2, <4>4, <4>5, <4>6 DEF RetrieveKnows, CheckingSources, SearchingSources, entries
      <4>8. QED
        BY <2>3, <3>3, <4>2, <4>7 DEF CheckingSources, k, j, r
    <3>4. CASE /\ ~Searchable(source) /\ Goto(c, "get_source")
               /\ job' = [job EXCEPT ![c].todo = Tail(@)]
      <4>1. k.req = r /\ k.todo = Tail(todo) /\ k.sources = sources /\ k.out = j.out
        BY <3>4, JobFields DEF Becomes, j, r, k, todo, sources
      <4>2. Checked(entry, sources, j.out, r.top, ev, al)
        BY <3>2, <3>4 DEF Checked
      <4>3. \A e \in entries \ ToSet(Tail(todo)) : Checked(e, k.sources, k.out, r.top, ev, al)
        BY <2>4, <2>5, <3>1, <4>1, <4>2 DEF r
      <4>4. RetrieveKnows("get_source", k, base, ev, al)
        BY <2>4, <2>5, <3>1, <4>1, <4>3 DEF RetrieveKnows, CheckingSources, SearchingSources, entries
      <4>5. QED
        BY <2>3, <3>4, <4>1, <4>4 DEF CheckingSources, k, j, r
    <3>5. QED
      BY <2>6, <3>3, <3>4 DEF GetSource, source, entry, j
  <2>7. pc[c] # "get_source" =>
          /\ todo # <<>> /\ sources # <<>> /\ Last(sources)[1] = entry.name
          /\ \A s \in Sources(al, entry) : s.index = Last(sources)[2]
          /\ Last(sources) \in ToSet(sources) /\ Last(sources) \in Names \X Names
    <3>1. SUFFICES ASSUME pc[c] # "get_source"
                   PROVE  /\ todo # <<>> /\ sources # <<>> /\ Last(sources)[1] = entry.name
                          /\ \A s \in Sources(al, entry) : s.index = Last(sources)[2]
                          /\ Last(sources) \in ToSet(sources) /\ Last(sources) \in Names \X Names
      OBVIOUS
    <3>2. /\ todo # <<>> /\ sources # <<>> /\ Last(sources)[1] = entry.name
          /\ \A s \in Sources(al, entry) : s.index = Last(sources)[2]
      BY <2>1, <2>2, <3>1 DEF RetrieveKnows, todo, sources, entry
    <3>3. QED
      BY <2>4, <3>2, LastNames
  <2> DEFINE name == Last(sources)[2]
  <2>8. CASE ResolveSource(c)
    <3>1. /\ pc[c] = "resolve_source" /\ Goto(c, "check_source")
          /\ job' = [job EXCEPT ![c].target = ResolveName(name)]
      BY <2>8 DEF ResolveSource, sources, j
    <3>2. name \in Names
      BY <2>7, <3>1
    <3> HIDE DEF name
    <3>3. /\ ResolveName(name) \in Names /\ ResolveName(name) \in Toward(ev, al, name)
          /\ Surely(ev, al, name) \subseteq {ResolveName(name)}
      BY <3>2, NamesLead, SurelyLeads
    <3>4. /\ k.req = r /\ k.todo = todo /\ k.sources = sources /\ k.out = j.out
          /\ k.target = ResolveName(name)
      BY <3>1, JobFields DEF Becomes, j, r, k, todo, sources
    <3>5. RetrieveKnows("check_source", k, base, ev, al)
      BY <2>4, <2>7, <3>1, <3>3, <3>4
        DEF RetrieveKnows, CheckingSources, SearchingSources, entries, name, entry, todo, r
    <3>6. QED
      BY <2>3, <3>1, <3>4, <3>5 DEF CheckingSources, k, j, r
  <2>9. CASE CheckSource(c)
    <3> DEFINE n == j.target
    <3>1. pc[c] = "check_source"
      BY <2>9 DEF CheckSource
    <3>2. n \in Names /\ n \in Toward(ev, al, name) /\ Surely(ev, al, name) \subseteq {n}
      BY <2>2, <3>1 DEF RetrieveKnows, sources
    <3> HIDE DEF n
    <3>3. CASE indexes[n] = NoIndex /\ Answer(c, 404, <<>>)
      <4>1. <<"index", n>> \notin al
        BY <3>3, FactsOfIndexes
      <4>2. PICK e \in entries : e.name = Last(sources)[1] /\ \E s \in Sources(ev, e) : s.index = name
        BY <2>4, <2>7, <3>1 DEF Queued, entries
      <4>3. Refused(r, ev, al)
        BY <2>2, <3>2, <4>1, <4>2 DEF Refused, entries
      <4>4. QED
        BY <1>3, <3>3, <4>3 DEF RetrieveAnswer, r, j
    <3>4. CASE /\ indexes[n] # NoIndex /\ Goto(c, "get_source")
               /\ job' = [job EXCEPT ![c].todo = Tail(@)]
      <4>1. k.req = r /\ k.todo = Tail(todo) /\ k.sources = sources /\ k.out = j.out
        BY <3>4, JobFields DEF Becomes, j, r, k, todo, sources
      <4>2. <<"index", n>> \in ev
        BY <3>2, <3>4, FactsOfIndexes
      <4>3. <<entry.name, name>> \in ToSet(sources)
        BY <2>7, <3>1
      <4>4. Checked(entry, sources, j.out, r.top, ev, al)
        BY <2>7, <3>1, <3>2, <4>2, <4>3 DEF Checked
      <4>5. \A e \in entries \ ToSet(Tail(todo)) : Checked(e, k.sources, k.out, r.top, ev, al)
        BY <2>4, <2>5, <2>7, <3>1, <4>1, <4>4 DEF r
      <4>6. RetrieveKnows("get_source", k, base, ev, al)
        BY <2>4, <2>5, <2>7, <3>1, <4>1, <4>5 DEF RetrieveKnows, CheckingSources, SearchingSources, entries
      <4>7. QED
        BY <2>3, <3>4, <4>1, <4>6 DEF CheckingSources, k, j, r
    <3>5. QED
      BY <2>9, <3>3, <3>4 DEF CheckSource, n, j
  <2>10. QED
    BY <1>6, <2>6, <2>8, <2>9 DEF k, j, r
<1>7. QED
  BY <1>5, <1>6

\* The steps that search them.
LEMMA SearchingSteps ==
    ASSUME StoresInv, ThreadsInv, NEW c \in Clients, pc[c] # "idle", job[c].req.op = "retrieve",
           NEW ev, NEW al, al \subseteq Facts, Facts \subseteq ev,
           RetrieveUnderWay(pc[c], job[c], ev, al),
           NextSource(c) \/ ParseSource(c) \/ ResolveAgain(c) \/ SearchSource(c)
    PROVE  \/ pc'[c] # "idle" /\ RetrieveUnderWay(pc'[c], job'[c], ev, al)
           \/ pc'[c] = "idle" /\ RetrieveAnswer(job[c].req, reply'.status, reply'.out, ev, al)
<1> DEFINE j == job[c]
           r == j.req
           k == job'[c]
<1>1. r \in Request /\ r.name \in Names /\ r.top \in Nat
  BY RequestParts DEF ThreadsInv, IsJob
<1>2. c \in DOMAIN pc /\ c \in DOMAIN job
  BY DEF ThreadsInv
<1>3. ASSUME NEW status, NEW out, Answer(c, status, out)
      PROVE  pc'[c] = "idle" /\ reply'.status = status /\ reply'.out = out
  BY <1>2, <1>3 DEF Answer
<1>4. ASSUME NEW label, Goto(c, label) PROVE pc'[c] = label
  BY <1>2, <1>4 DEF Goto
<1>5. pc[c] \in SearchingSources \/ (pc[c] = "get_source" /\ j.todo = <<>>)
  BY DEF NextSource, SourcesChecked, ParseSource, ResolveAgain, SearchSource, SearchingSources
<1>6. PICK base \in Bodies(ev, "knowledgeBase", r.name) : RetrieveKnows(pc[c], j, base, ev, al)
  BY <1>5 DEF RetrieveUnderWay, SearchingSources
<1> DEFINE entries == ToSet(base.entries)
           sources == j.sources
           pair == Head(j.sources)
<1>7. ASSUME NEW label, label \in SearchingSources, Goto(c, label),
             k.req = r, RetrieveKnows(label, k, base, ev, al)
      PROVE  pc'[c] # "idle" /\ RetrieveUnderWay(pc'[c], k, ev, al)
  <2>1. pc'[c] = label /\ label \notin {"idle", "get_base"}
    BY <1>4, <1>7 DEF SearchingSources
  <2>2. QED
    BY <1>6, <1>7, <2>1 DEF RetrieveUnderWay
<1> HIDE DEF j, r, k
<1>8. /\ base \in BaseBody /\ Queued(base, sources, ev) /\ Shown(base, j.out, ev, al)
      /\ j.out \in Seq(Names \X Nat) /\ sources \in Seq(Names \X Names)
  BY <1>6 DEF RetrieveKnows, Queued, Shown
<1>9. \A e \in entries : Checked(e, sources, j.out, r.top, ev, al)
  <2>1. CASE pc[c] \in SearchingSources
    BY <1>6, <2>1 DEF RetrieveKnows, r
  <2>2. CASE pc[c] = "get_source" /\ j.todo = <<>>
    BY <1>6, <2>2, EmptyNamesNone DEF RetrieveKnows, CheckingSources, r
  <2>3. QED
    BY <1>5, <2>1, <2>2
<1>10. sources # <<>> => /\ pair \in ToSet(sources) /\ pair \in Names \X Names
                         /\ Tail(sources) \in Seq(Names \X Names)
                         /\ ToSet(sources) = {pair} \cup ToSet(Tail(sources))
  BY <1>8, HeadAndTail
<1>11. sources # <<>> => \E e \in entries : /\ e.name = pair[1]
                                            /\ \E s \in Sources(ev, e) : s.index = pair[2]
  BY <1>8, <1>10 DEF Queued
<1> DEFINE name == pair[2]
           n == j.target
<1> HIDE DEF entries, sources, pair
<1>12. pc[c] \in {"parse_source", "search_source"} =>
         /\ sources # <<>> /\ n \in Names /\ n \in Toward(ev, al, name)
         /\ Surely(ev, al, name) \subseteq {n}
  BY <1>6 DEF RetrieveKnows, SearchingSources, sources, pair
<1>13. sources # <<>> => /\ ResolveName(name) \in Names /\ ResolveName(name) \in Toward(ev, al, name)
                         /\ Surely(ev, al, name) \subseteq {ResolveName(name)}
  <2>1. SUFFICES ASSUME sources # <<>>
                 PROVE  /\ ResolveName(name) \in Names /\ ResolveName(name) \in Toward(ev, al, name)
                        /\ Surely(ev, al, name) \subseteq {ResolveName(name)}
    OBVIOUS
  <2>2. name \in Names
    BY <1>10, <2>1
  <2> HIDE DEF name
  <2>3. QED
    BY <2>2, NamesLead, SurelyLeads
<1> HIDE DEF n, name
<1>14. ASSUME indexes[n] = NoIndex, pc[c] \in {"parse_source", "search_source"}
       PROVE  Refused(r, ev, al)
  <2>1. <<"index", n>> \notin al
    BY <1>14, FactsOfIndexes
  <2>2. PICK e \in entries : e.name = pair[1] /\ \E s \in Sources(ev, e) : s.index = name
    BY <1>11, <1>12, <1>14 DEF name
  <2>3. QED
    BY <1>6, <1>12, <1>14, <2>1, <2>2 DEF Refused, entries
<1>15. ASSUME NEW label \in {"parse_source", "search_source"}, sources # <<>>, Goto(c, label),
              job' = [job EXCEPT ![c].target = ResolveName(name)]
       PROVE  pc'[c] # "idle" /\ RetrieveUnderWay(pc'[c], k, ev, al)
  <2>1. k.req = r /\ k.sources = sources /\ k.out = j.out /\ k.target = ResolveName(name)
    BY <1>15, JobFields DEF Becomes, j, r, k, sources
  <2>2. label \in SearchingSources
    BY DEF SearchingSources
  <2>3. RetrieveKnows(label, k, base, ev, al)
    BY <1>8, <1>9, <1>13, <1>15, <2>1
      DEF RetrieveKnows, CheckingSources, SearchingSources, entries, name, pair, sources
  <2>4. QED
    BY <1>7, <1>15, <2>1, <2>2, <2>3
<1>16. CASE NextSource(c)
  <2>1. CASE sources = <<>> /\ Answer(c, 200, j.out)
    <3>1. Retrieved(r, j.out, ev, al)
      BY <1>6, <1>8, <1>9, <2>1 DEF Retrieved, entries
    <3>2. QED
      BY <1>3, <2>1, <3>1 DEF RetrieveAnswer, j, r
  <2>2. CASE /\ sources # <<>> /\ Goto(c, "parse_source")
             /\ job' = [job EXCEPT ![c].target = ResolveName(name)]
    BY <1>15, <2>2 DEF k, j, r
  <2>3. QED
    BY <1>16, <2>1, <2>2 DEF NextSource, j, sources, name, pair
<1>17. CASE ParseSource(c)
  <2>1. pc[c] = "parse_source"
    BY <1>17 DEF ParseSource
  <2>2. CASE indexes[n] = NoIndex /\ Answer(c, 404, <<>>)
    BY <1>3, <1>14, <2>1, <2>2 DEF RetrieveAnswer, j, r
  <2>3. CASE Goto(c, "research_source") /\ UNCHANGED job
    <3>1. k.req = r /\ k.sources = sources /\ k.out = j.out
      BY <2>3, JobFields DEF Becomes, j, r, k, sources
    <3>2. RetrieveKnows("research_source", k, base, ev, al)
      BY <1>8, <1>9, <1>12, <2>1, <3>1 DEF RetrieveKnows, CheckingSources, SearchingSources, entries
    <3>3. QED
      BY <1>7, <2>3, <3>1, <3>2 DEF SearchingSources, k, j, r
  <2>4. QED
    BY <1>17, <2>2, <2>3 DEF ParseSource, n, j
<1>18. CASE ResolveAgain(c)
  <2>1. /\ pc[c] = "research_source" /\ Goto(c, "search_source")
        /\ job' = [job EXCEPT ![c].target = ResolveName(name)]
    BY <1>18 DEF ResolveAgain, name, pair, j
  <2>2. sources # <<>>
    BY <1>6, <2>1 DEF RetrieveKnows, SearchingSources, sources
  <2>3. QED
    BY <1>15, <2>1, <2>2 DEF k, j, r
<1>19. CASE SearchSource(c)
  <2> DEFINE docs == indexes[n].docs
             hits == TopDocuments(docs, r.top)
             more == [i \in DOMAIN hits |-> <<pair[1], hits[i]>>]
  <2>1. pc[c] = "search_source"
    BY <1>19 DEF SearchSource
  <2>2. CASE indexes[n] = NoIndex /\ Answer(c, 404, <<>>)
    BY <1>3, <1>14, <2>1, <2>2 DEF RetrieveAnswer, j, r
  <2>3. CASE /\ indexes[n] # NoIndex /\ Goto(c, "next_source")
             /\ job' = [job EXCEPT ![c].sources = Tail(@), ![c].out = @ \o more]
    <3>1. docs \in SUBSET Nat /\ IsFiniteSet(docs) /\ docs = Docs(Facts, n)
      BY <1>12, <2>1, <2>3, DocsSeen DEF StoresInv, IndexRecord
    <3>2. Docs(al, n) \subseteq docs /\ docs \subseteq Docs(ev, n)
      BY <3>1 DEF Docs
    <3>3. k.req = r /\ k.sources = Tail(sources) /\ k.out = j.out \o more
      <4> HIDE DEF more
      <4> DEFINE x == Tail(sources)
                 y == j.out \o more
      <4>1. job' = [job EXCEPT ![c].sources = x, ![c].out = y]
        BY <2>3 DEF j, sources
      <4> HIDE DEF x, y
      <4>2. Becomes(c, job[c].target, job[c].todo, x, y)
        BY <4>1, JobFields
      <4>3. QED
        BY <4>2 DEF Becomes, j, r, k, x, y
    <3>4. <<"index", n>> \in ev
      BY <1>12, <2>1, <2>3, FactsOfIndexes
    <3> HIDE DEF docs
    <3>5. hits \in Seq(docs) /\ ToSet(hits) = FirstDocs(docs, r.top)
      BY <1>1, <3>1, TopIsFirst DEF r
    <3> HIDE DEF hits
    <3>6. /\ more \in Seq(Names \X Nat)
          /\ \A d \in FirstDocs(docs, r.top) : <<pair[1], d>> \in ToSet(more)
          /\ \A hit \in ToSet(more) : hit[1] = pair[1] /\ hit[2] \in docs
      <4>1. /\ Len(hits) \in Nat /\ DOMAIN hits = 1..Len(hits)
            /\ \A i \in DOMAIN hits : hits[i] \in docs /\ hits[i] \in Nat
        BY <3>1, <3>5
      <4>2. pair[1] \in Names
        BY <1>10, <1>12, <2>1
      <4>3. more \in [1..Len(hits) -> Names \X Nat]
        BY <4>1, <4>2
      <4>4. DOMAIN more = DOMAIN hits /\ \A i \in DOMAIN hits : more[i] = <<pair[1], hits[i]>>
        OBVIOUS
      <4> HIDE DEF more
      <4>5. more \in Seq(Names \X Nat)
        BY <4>1, <4>3
      <4>6. ASSUME NEW d \in FirstDocs(docs, r.top) PROVE <<pair[1], d>> \in ToSet(more)
        <5>1. PICK i \in DOMAIN hits : hits[i] = d
          BY <3>5 DEF ToSet
        <5>2. QED
          BY <4>4, <5>1 DEF ToSet
      <4>7. ASSUME NEW hit \in ToSet(more) PROVE hit[1] = pair[1] /\ hit[2] \in docs
        <5>1. PICK i \in DOMAIN hits : hit = <<pair[1], hits[i]>>
          BY <4>4 DEF ToSet
        <5>2. QED
          BY <4>1, <5>1
      <4>8. QED
        BY <4>5, <4>6, <4>7
    <3> HIDE DEF more
    <3>7. k.out \in Seq(Names \X Nat) /\ ToSet(k.out) = ToSet(j.out) \cup ToSet(more)
      BY <1>8, <3>3, <3>6, JoinedNames
    <3>8. Shown(base, k.out, ev, al)
      <4>1. ASSUME NEW hit \in ToSet(j.out) PROVE Grounded(base, hit, ev, al)
        BY <1>8 DEF Shown, ToSet
      <4>2. ASSUME NEW hit \in ToSet(more) PROVE Grounded(base, hit, ev, al)
        <5>1. hit[1] = pair[1] /\ hit[2] \in Docs(ev, n) /\ n \in Toward(ev, al, name)
          BY <1>12, <2>1, <3>2, <3>6
        <5>2. PICK e \in entries : e.name = pair[1] /\ \E s \in Sources(ev, e) : s.index = name
          BY <1>11, <1>12, <2>1 DEF name
        <5>3. QED
          BY <5>1, <5>2 DEF Grounded, entries
      <4>3. \A hit \in ToSet(k.out) : Grounded(base, hit, ev, al)
        BY <3>7, <4>1, <4>2
      <4>4. \A i \in DOMAIN k.out : k.out[i] \in ToSet(k.out)
        BY DEF ToSet
      <4>5. QED
        BY <3>7, <4>3, <4>4 DEF Shown
    <3>9. Queued(base, k.sources, ev)
      BY <1>8, <1>10, <1>12, <2>1, <3>3 DEF Queued
    <3>10. ASSUME NEW e \in entries PROVE Checked(e, k.sources, k.out, r.top, ev, al)
      <4>1. Checked(e, sources, j.out, r.top, ev, al)
        BY <1>9
      <4>2. ASSUME NEW s \in Sources(al, e), <<e.name, s.index>> = pair
            PROVE  Complete(e.name, s.index, k.out, r.top, ev, al)
        <5>1. e.name = pair[1] /\ s.index = name
          BY <4>2 DEF name
        <5>2. ASSUME Docs(ev, n) = Docs(al, n), NEW d \in FirstDocs(Docs(al, n), r.top)
              PROVE  <<e.name, d>> \in ToSet(k.out)
          <6>1. Docs(al, n) = docs
            BY <3>2, <5>2
          <6>2. QED
            BY <3>6, <3>7, <5>1, <5>2, <6>1
        <5>3. QED
          BY <1>12, <2>1, <5>1, <5>2 DEF Complete
      <4>3. ASSUME NEW s \in Sources(al, e), Complete(e.name, s.index, j.out, r.top, ev, al)
            PROVE  Complete(e.name, s.index, k.out, r.top, ev, al)
        BY <3>7, <4>3 DEF Complete
      <4>4. ASSUME NEW s \in Sources(al, e), <<e.name, s.index>> \in ToSet(sources)
            PROVE  <<e.name, s.index>> = pair \/ <<e.name, s.index>> \in ToSet(k.sources)
        BY <1>10, <1>12, <2>1, <3>3, <4>4
      <4>5. QED
        BY <4>1, <4>2, <4>3, <4>4 DEF Checked
    <3>11. RetrieveKnows("next_source", k, base, ev, al)
      BY <1>8, <3>3, <3>8, <3>9, <3>10 DEF RetrieveKnows, CheckingSources, SearchingSources, entries
    <3>12. QED
      BY <1>7, <2>3, <3>3, <3>11 DEF SearchingSources, k, j, r
  <2>4. QED
    BY <1>19, <2>2, <2>3 DEF SearchSource, n, j, r, pair
<1>20. QED
  BY <1>16, <1>17, <1>18, <1>19 DEF k, j, r

LEMMA RetrieveSteps ==
    ASSUME StoresInv, ThreadsInv, NEW c \in Clients, ServeStep(c), job[c].req.op = "retrieve",
           NEW ev, NEW al, al \subseteq Facts, Facts \subseteq ev,
           RetrieveUnderWay(pc[c], job[c], ev, al)
    PROVE  \/ pc'[c] # "idle" /\ RetrieveUnderWay(pc'[c], job'[c], ev, al)
           \/ pc'[c] = "idle" /\ RetrieveAnswer(job[c].req, reply'.status, reply'.out, ev, al)
<1>1. pc[c] # "idle"
  BY StepForm
<1>2. RetrieveStep(c)
  BY StepsByRequest
<1>3. CASE GetBase(c) \/ GetSource(c) \/ ResolveSource(c) \/ CheckSource(c)
  BY <1>1, <1>3, CheckingSteps
<1>4. CASE NextSource(c) \/ ParseSource(c) \/ ResolveAgain(c) \/ SearchSource(c)
  BY <1>1, <1>4, SearchingSteps
<1>5. QED
  BY <1>2, <1>3, <1>4 DEF RetrieveStep

\* The answers of the retrievals, as the properties of ResourceHistory judge
\* them.
RetrievalsAnswered ==
    \A c \in Watched : Answered(c, "retrieve") =>
        RetrieveAnswer(reply.req, reply.status, reply.out, ever[c], always[c])

LEMMA RetrieveHolds ==
    /\ HistoryInit => RetrieveInv /\ RetrievalsAnswered
    /\ BaseInv /\ RetrieveInv /\ HistoryNext => RetrieveInv' /\ RetrievalsAnswered'
<1>1. ASSUME HistoryInit PROVE RetrieveInv /\ RetrievalsAnswered
  BY <1>1, WatchedAssumption DEF HistoryInit, ResourceInit, RetrieveInv, RetrievalsAnswered, Answered
<1>2. ASSUME BaseInv, RetrieveInv, HistoryNext, NEW c \in Watched
      PROVE  /\ pc'[c] # "idle" /\ job'[c].req.op = "retrieve" =>
                  RetrieveUnderWay(pc'[c], job'[c], ever'[c], always'[c])
             /\ reply' # NoReply /\ reply'.client = c /\ reply'.req.op = "retrieve" =>
                  RetrieveAnswer(reply'.req, reply'.status, reply'.out, ever'[c], always'[c])
  <2>1. /\ pc[c] # "idle" => /\ ever[c] \subseteq ever'[c] /\ always'[c] \subseteq always[c]
                             /\ always[c] \subseteq Facts /\ Facts \subseteq ever[c]
    BY <1>2, StepsAreOfOne, FollowSteps DEF BaseInv
  <2>2. pc[c] # "idle" =>
          /\ \A label, j : RetrieveUnderWay(label, j, ever[c], always[c]) =>
                             RetrieveUnderWay(label, j, ever'[c], always'[c])
          /\ \A r, status, out : RetrieveAnswer(r, status, out, ever[c], always[c]) =>
                                   RetrieveAnswer(r, status, out, ever'[c], always'[c])
    <3>1. SUFFICES ASSUME pc[c] # "idle"
                   PROVE  /\ \A label, j : RetrieveUnderWay(label, j, ever[c], always[c]) =>
                                            RetrieveUnderWay(label, j, ever'[c], always'[c])
                          /\ \A r, status, out : RetrieveAnswer(r, status, out, ever[c], always[c]) =>
                                                  RetrieveAnswer(r, status, out, ever'[c], always'[c])
      OBVIOUS
    <3>2. /\ ever[c] \subseteq ever'[c] /\ always'[c] \subseteq always[c]
          /\ always[c] \subseteq ever[c]
      BY <2>1, <3>1
    <3>3. QED
      BY <3>2, RetrieveStays
  <2>3. CASE pc'[c] = pc[c] /\ job'[c] = job[c] /\ (reply' # NoReply => reply'.client # c)
    BY <1>2, <2>2, <2>3 DEF RetrieveInv
  <2>4. CASE \E r \in Request : pc'[c] = EntryLabel(r) /\ job'[c] = FreshJob(r) /\ reply' = NoReply
    <3>1. PICK r \in Request : pc'[c] = EntryLabel(r) /\ job'[c] = FreshJob(r)
      BY <2>4
    <3>2. job'[c].req = r /\ job'[c].sources = <<>> /\ job'[c].out = <<>>
      BY <3>1 DEF FreshJob
    <3>3. r.op = "retrieve" => pc'[c] = "get_base"
      BY <3>1 DEF EntryLabel
    <3>4. QED
      BY <2>4, <3>2, <3>3 DEF RetrieveUnderWay
  <2>5. CASE /\ ServeStep(c) /\ pc[c] # "idle"
             /\ \/ pc'[c] = "idle" /\ reply'.req = job[c].req
                \/ pc'[c] # "idle" /\ reply' = NoReply /\ job'[c].req = job[c].req
    <3>1. SUFFICES ASSUME job[c].req.op = "retrieve"
                   PROVE  \/ /\ pc'[c] # "idle"
                             /\ RetrieveUnderWay(pc'[c], job'[c], ever[c], always[c])
                          \/ /\ pc'[c] = "idle"
                             /\ RetrieveAnswer(job[c].req, reply'.status, reply'.out, ever[c], always[c])
      BY <2>2, <2>5
    <3>2. RetrieveUnderWay(pc[c], job[c], ever[c], always[c])
      BY <1>2, <2>5, <3>1 DEF RetrieveInv
    <3>3. QED
      BY <1>2, <2>1, <2>5, <3>1, <3>2, RetrieveSteps, WatchedAssumption DEF BaseInv
  <2>6. QED
    BY <1>2, <2>3, <2>4, <2>5, WatchedSteps
<1>3. ASSUME BaseInv, RetrieveInv, HistoryNext PROVE RetrieveInv' /\ RetrievalsAnswered'
  BY <1>2, <1>3 DEF RetrieveInv, RetrievalsAnswered, Answered
<1>4. QED
  BY <1>1, <1>3

LEMMA RetrievalsAlwaysAnswered == HistorySpec => []RetrievalsAnswered
<1>1. BaseInv /\ RetrieveInv /\ RetrievalsAnswered /\ [HistoryNext]_historyVars
        => RetrieveInv' /\ RetrievalsAnswered'
  <2>1. ASSUME RetrieveInv, RetrievalsAnswered, UNCHANGED historyVars
        PROVE  RetrieveInv' /\ RetrievalsAnswered'
    BY <2>1 DEF historyVars, RetrieveInv, RetrievalsAnswered, Answered
  <2>2. QED
    BY <2>1, RetrieveHolds
<1>2. QED
  BY <1>1, BaseHolds, RetrieveHolds, PTL DEF HistorySpec

\* A retrieval is refused only if the base, or the index one of its sources led
\* to, was missing at some moment (retrieve_knowledge_base).
THEOREM RetrievalRefusalAlwaysJustified == HistorySpec => []RetrievalRefusalJustified
<1>1. ASSUME RetrievalsAnswered PROVE RetrievalRefusalJustified
  <2>1. ASSUME NEW c \in Watched, Answered(c, "retrieve"), reply.status = 404
        PROVE  Refused(reply.req, ever[c], always[c])
    BY <1>1, <2>1 DEF RetrievalsAnswered, RetrieveAnswer
  <2>2. ASSUME NEW c \in Watched, NEW n
        PROVE  EverTargets(c, n) = Toward(ever[c], always[c], n)
    BY DEF EverTargets, Toward
  <2>3. SUFFICES ASSUME NEW c \in Watched, Answered(c, "retrieve"), reply.status = 404
                 PROVE  \/ <<"stored", "knowledgeBase", reply.req.name>> \notin always[c]
                        \/ \E base \in Bodies(ever[c], "knowledgeBase", reply.req.name) :
                           \E entry \in ToSet(base.entries) : \E s \in Sources(ever[c], entry) :
                           \E n \in EverTargets(c, s.index) : <<"index", n>> \notin always[c]
    BY SMTT(90) DEF RetrievalRefusalJustified
  <2> DEFINE ev == ever[c]
             al == always[c]
  <2>4. \A n : EverTargets(c, n) = Toward(ev, al, n)
    BY <2>2
  <2>5. Refused(reply.req, ev, al)
    BY <2>1, <2>3
  <2> HIDE DEF ev, al
  <2>6. \/ <<"stored", "knowledgeBase", reply.req.name>> \notin al
        \/ \E base \in Bodies(ev, "knowledgeBase", reply.req.name) :
           \E entry \in ToSet(base.entries) : \E s \in Sources(ev, entry) :
           \E n \in EverTargets(c, s.index) : <<"index", n>> \notin al
    BY <2>4, <2>5 DEF Refused
  <2>7. QED
    BY <2>6 DEF ev, al
<1>2. QED
  BY <1>1, RetrievalsAlwaysAnswered, PTL

\* Every document a retrieval answers was in an index one of its sources led
\* to, and a source whose index stood still has its first documents in the
\* answer (retrieve_knowledge_base).
THEOREM RetrievalAlwaysComplete == HistorySpec => []RetrievalComplete
<1>1. ASSUME RetrievalsAnswered PROVE RetrievalComplete
  <2>1. SUFFICES ASSUME NEW c \in Watched, Answered(c, "retrieve"), reply.status = 200
                 PROVE  \E base \in Bodies(ever[c], "knowledgeBase", reply.req.name) :
            /\ \A i \in DOMAIN reply.out : \E entry \in ToSet(base.entries) :
                 /\ entry.name = reply.out[i][1]
                 /\ \E s \in Sources(ever[c], entry) : \E n \in EverTargets(c, s.index) :
                      reply.out[i][2] \in Docs(ever[c], n)
            /\ \A entry \in ToSet(base.entries) : \A s \in Sources(always[c], entry) :
                 \A n \in AlwaysTargets(c, s.index) :
                   /\ <<"index", n>> \in ever[c]
                   /\ Docs(ever[c], n) = Docs(always[c], n) =>
                        \A d \in Docs(always[c], n) :
                          Cardinality({e \in Docs(always[c], n) : e < d}) < reply.req.top =>
                            <<entry.name, d>> \in ToSet(reply.out)
    BY ZenonT(40) DEF RetrievalComplete
  <2>2. PICK base \in Bodies(ever[c], "knowledgeBase", reply.req.name) :
          /\ Shown(base, reply.out, ever[c], always[c])
          /\ \A entry \in ToSet(base.entries) :
               Checked(entry, <<>>, reply.out, reply.req.top, ever[c], always[c])
    BY <1>1, <2>1 DEF RetrievalsAnswered, RetrieveAnswer, Retrieved
  <2>3. \A n : EverTargets(c, n) = Toward(ever[c], always[c], n)
               /\ AlwaysTargets(c, n) = Surely(ever[c], always[c], n)
    BY DEF EverTargets, AlwaysTargets, Toward, Surely
  <2>4. \A i \in DOMAIN reply.out : Grounded(base, reply.out[i], ever[c], always[c])
    BY <2>2 DEF Shown
  <2>5. ASSUME NEW entry \in ToSet(base.entries), NEW s \in Sources(always[c], entry)
        PROVE  /\ \A n \in Surely(ever[c], always[c], s.index) : <<"index", n>> \in ever[c]
               /\ Complete(entry.name, s.index, reply.out, reply.req.top, ever[c], always[c])
    BY <2>2, EmptyNamesNone DEF Checked
  <2>6. ASSUME NEW i \in DOMAIN reply.out
        PROVE  \E entry \in ToSet(base.entries) :
                 /\ entry.name = reply.out[i][1]
                 /\ \E s \in Sources(ever[c], entry) : \E n \in EverTargets(c, s.index) :
                      reply.out[i][2] \in Docs(ever[c], n)
    BY <2>3, <2>4 DEF Grounded
  <2>7. ASSUME NEW entry \in ToSet(base.entries), NEW s \in Sources(always[c], entry),
               NEW n \in AlwaysTargets(c, s.index)
        PROVE  /\ <<"index", n>> \in ever[c]
               /\ Docs(ever[c], n) = Docs(always[c], n) =>
                    \A d \in Docs(always[c], n) :
                      Cardinality({e \in Docs(always[c], n) : e < d}) < reply.req.top =>
                        <<entry.name, d>> \in ToSet(reply.out)
    <3>1. n \in Surely(ever[c], always[c], s.index)
      BY <2>3
    <3>2. ASSUME Docs(ever[c], n) = Docs(always[c], n), NEW d \in Docs(always[c], n),
                 Cardinality({e \in Docs(always[c], n) : e < d}) < reply.req.top
          PROVE  <<entry.name, d>> \in ToSet(reply.out)
      <4>1. d \in FirstDocs(Docs(always[c], n), reply.req.top)
        BY <3>2 DEF FirstDocs
      <4>2. QED
        BY <2>5, <3>1, <3>2, <4>1 DEF Complete
    <3>3. QED
      BY <2>5, <3>1, <3>2
  <2>8. QED
    BY <2>6, <2>7
<1>2. QED
  BY <1>1, RetrievalsAlwaysAnswered, PTL

-----------------------------------------------------------------------------
(* Expansion by synonyms *)

\* A word has still to be looked up in a map.
Pending(todo, word, m) == \E i \in DOMAIN todo : todo[i][1] = word /\ m \in ToSet(todo[i][2])

\* What has been found for the words so far: nothing but what some map that the
\* definition of the index referred to said, and all that the maps said that
\* were looked up.
Expanded(maps, j, ev, al) ==
    /\ maps \in Seq(Names) /\ MapsOf(al, j.target) \subseteq {maps}
    /\ j.todo \in Seq(Words \X (Seq(ToSet(maps)) \ {<<>>}))
    /\ Len(j.out) = 1 /\ j.out \in Seq([Words -> SUBSET Words])
    /\ \A word \in Words : j.out[1][word] \subseteq Rewrites(ev, {j.target}, word)
    /\ \A word \in ToSet(j.req.words) : \A m \in ToSet(maps) :
         \/ Pending(j.todo, word, m)
         \/ \A body \in Bodies(al, "synonymMap", m) :
              RuleOutputs(body, word) \ {word} \subseteq j.out[1][word]

ExpandKnows(label, j, ev, al) ==
    /\ label \in {"require", "expand"} =>
         /\ j.target \in Names
         /\ j.target \in Toward(ev, al, j.req.name)
         /\ Surely(ev, al, j.req.name) \subseteq {j.target}
    /\ label = "expand" => \E maps \in MapsOf(ev, j.target) : Expanded(maps, j, ev, al)

ExpandInv ==
    \A c \in Watched : pc[c] # "idle" /\ job[c].req.op = "search" =>
        ExpandKnows(pc[c], job[c], ever[c], always[c])

ExpandAnswer(r, status, out, ev, al) ==
    status = 200 =>
      \A word \in ToSet(r.words) :
        /\ Rewrites(al, Surely(ev, al, r.name), word) \subseteq out[1][word]
        /\ out[1][word] \subseteq Rewrites(ev, Toward(ev, al, r.name), word)

-----------------------------------------------------------------------------

LEMMA RewritesGrow ==
    ASSUME NEW ev, NEW ev2, ev \subseteq ev2, NEW targets, NEW targets2, targets \subseteq targets2,
           NEW word
    PROVE  Rewrites(ev, targets, word) \subseteq Rewrites(ev2, targets2, word)
<1>1. \A kind, n : Bodies(ev, kind, n) \subseteq Bodies(ev2, kind, n)
  BY FactsGrow
<1>2. \A n : MapsOf(ev, n) \subseteq MapsOf(ev2, n)
  BY FactsGrow
<1>3. QED
  BY <1>1, <1>2 DEF Rewrites

LEMMA ExpandStays ==
    ASSUME NEW ev, NEW al, NEW ev2, NEW al2, ev \subseteq ev2, al2 \subseteq al, al \subseteq ev
    PROVE  /\ \A label, j : ExpandKnows(label, j, ev, al) => ExpandKnows(label, j, ev2, al2)
           /\ \A r, status, out :
                ExpandAnswer(r, status, out, ev, al) => ExpandAnswer(r, status, out, ev2, al2)
<1>1. /\ \A n : MapsOf(ev, n) \subseteq MapsOf(ev2, n)
      /\ \A n : Toward(ev, al, n) \subseteq Toward(ev2, al2, n)
  BY FactsGrow
<1>2. /\ \A n : MapsOf(al2, n) \subseteq MapsOf(al, n)
      /\ \A kind, n : Bodies(al2, kind, n) \subseteq Bodies(al, kind, n)
  BY FactsGrow
<1>3. \A n : Surely(ev2, al2, n) \subseteq Surely(ev, al, n)
  BY KnowledgeStays
<1>4. \A target, word : Rewrites(ev, {target}, word) \subseteq Rewrites(ev2, {target}, word)
  BY RewritesGrow
<1>5. ASSUME NEW maps, NEW j, Expanded(maps, j, ev, al) PROVE Expanded(maps, j, ev2, al2)
  BY <1>2, <1>4, <1>5 DEF Expanded
<1>6. ASSUME NEW label, NEW j, ExpandKnows(label, j, ev, al) PROVE ExpandKnows(label, j, ev2, al2)
  BY <1>1, <1>3, <1>5, <1>6 DEF ExpandKnows
<1>7. ASSUME NEW r, NEW status, NEW out, ExpandAnswer(r, status, out, ev, al)
      PROVE  ExpandAnswer(r, status, out, ev2, al2)
  <2>1. \A word : /\ Rewrites(al2, Surely(ev2, al2, r.name), word)
                       \subseteq Rewrites(al, Surely(ev, al, r.name), word)
                  /\ Rewrites(ev, Toward(ev, al, r.name), word)
                       \subseteq Rewrites(ev2, Toward(ev2, al2, r.name), word)
    <3>1. Surely(ev2, al2, r.name) \subseteq Surely(ev, al, r.name)
      BY <1>3
    <3>2. Toward(ev, al, r.name) \subseteq Toward(ev2, al2, r.name)
      BY <1>1
    <3>3. QED
      BY <3>1, <3>2, RewritesGrow
  <2>2. QED
    BY <1>7, <2>1 DEF ExpandAnswer
<1>8. QED
  BY <1>6, <1>7

\* What a map says of a word now.
LEMMA MapSeen ==
    ASSUME StoresInv, NEW m \in Names, NEW ev, NEW al, al \subseteq Facts, Facts \subseteq ev
    PROVE  LET map == items["synonymMap"][m]
           IN  /\ map # NoItem => map.body \in Bodies(ev, "synonymMap", m) /\ map.body \in SynonymBody
               /\ \A body \in Bodies(al, "synonymMap", m) : map # NoItem /\ body = map.body
<1> DEFINE kind == "synonymMap"
<1>1. kind \in Kinds /\ BodyOf(kind) = SynonymBody
  BY DEF Kinds, BodyOf
<1> HIDE DEF kind
<1>2. /\ Bodies(al, kind, m) \subseteq Bodies(Facts, kind, m)
      /\ Bodies(Facts, kind, m) \subseteq Bodies(ev, kind, m)
  BY FactsGrow
<1>3. Bodies(Facts, kind, m) = IF items[kind][m] = NoItem THEN {} ELSE {items[kind][m].body}
  BY <1>1, ItemSeen
<1>4. items[kind][m] # NoItem => items[kind][m].body \in SynonymBody
  BY <1>1 DEF StoresInv
<1>5. QED
  BY <1>2, <1>3, <1>4 DEF kind

\* What the rules of a map in use rewrite a word to.
LEMMA OutputsRewrite ==
    ASSUME NEW body \in SynonymBody, NEW word \in Words, NEW n, NEW maps, NEW ev,
           maps \in MapsOf(ev, n), NEW m \in ToSet(maps), body \in Bodies(ev, "synonymMap", m)
    PROVE  RuleOutputs(body, word) \ {word} \subseteq Rewrites(ev, {n}, word) \cap Words
<1>1. ASSUME NEW v \in RuleOutputs(body, word), v # word
      PROVE  v \in Words /\ \E rule \in body.rules : word \in rule.inputs /\ v \in rule.outputs
  <2>1. PICK rule \in body.rules : word \in rule.inputs /\ v \in rule.outputs
    BY DEF RuleOutputs
  <2>2. rule \in Rule
    BY DEF SynonymBody
  <2>3. QED
    BY <2>1, <2>2 DEF Rule
<1>2. QED
  BY <1>1 DEF Rewrites

LEMMA RewritesOfOne ==
    ASSUME NEW al, NEW targets, NEW n, targets \subseteq {n}, NEW maps, MapsOf(al, n) \subseteq {maps},
           NEW word, NEW found,
           \A m \in ToSet(maps) : \A body \in Bodies(al, "synonymMap", m) :
             RuleOutputs(body, word) \ {word} \subseteq found
    PROVE  Rewrites(al, targets, word) \subseteq found
<1>1. ASSUME NEW v \in Rewrites(al, targets, word) PROVE v \in found
  <2>1. v # word
    BY DEF Rewrites
  <2>2. \E m \in ToSet(maps) : \E body \in Bodies(al, "synonymMap", m) :
        \E rule \in body.rules : word \in rule.inputs /\ v \in rule.outputs
    BY DEF Rewrites
  <2>3. PICK m \in ToSet(maps) : \E body \in Bodies(al, "synonymMap", m) :
          v \in RuleOutputs(body, word)
    BY <2>2 DEF RuleOutputs
  <2>4. QED
    BY <2>1, <2>3
<1>2. QED
  BY <1>1

\* Looking the first word up in its first map takes just that off the list.
LEMMA PendingStep ==
    ASSUME NEW S, NEW rows \in Seq(Words \X (Seq(S) \ {<<>>})), rows # <<>>
    PROVE  LET word == Head(rows)[1]
               ms   == Head(rows)[2]
               rest == IF Len(ms) = 1 THEN Tail(rows) ELSE [rows EXCEPT ![1][2] = Tail(ms)]
           IN  /\ word \in Words /\ ms \in Seq(S) /\ ms # <<>>
               /\ rest \in Seq(Words \X (Seq(S) \ {<<>>}))
               /\ \A w, m : Pending(rows, w, m) => Pending(rest, w, m) \/ (w = word /\ m = Head(ms))
<1> DEFINE Row == Words \X (Seq(S) \ {<<>>})
           word == Head(rows)[1]
           ms == Head(rows)[2]
<1>1. Head(rows) \in Row /\ word \in Words /\ ms \in Seq(S) /\ ms # <<>>
  BY HeadAndTail
<1>2. Head(rows) = <<word, ms>>
  BY <1>1
<1> HIDE DEF Row
<1>3. /\ Len(rows) \in Nat \ {0} /\ DOMAIN rows = 1..Len(rows) /\ rows[1] = Head(rows)
      /\ Tail(rows) \in Seq(Row) /\ Len(Tail(rows)) = Len(rows) - 1
      /\ DOMAIN Tail(rows) = 1..Len(rows) - 1
      /\ \A i \in 1..Len(rows) - 1 : Tail(rows)[i] = rows[i + 1]
  <2>1. rows \in Seq(Row)
    BY DEF Row
  <2>2. QED
    BY <2>1, HeadAndTail
<1> HIDE DEF word, ms
<1>4. /\ Len(ms) \in Nat \ {0} /\ Tail(ms) \in Seq(S) /\ Len(Tail(ms)) = Len(ms) - 1
      /\ ToSet(ms) = {Head(ms)} \cup ToSet(Tail(ms))
      /\ Tail(ms) = <<>> <=> Len(ms) = 1
  BY <1>1, HeadAndTail
<1>5. ASSUME NEW w, NEW m, Pending(rows, w, m)
      PROVE  \/ \E i \in 2..Len(rows) : rows[i][1] = w /\ m \in ToSet(rows[i][2])
             \/ w = word /\ (m = Head(ms) \/ m \in ToSet(Tail(ms)))
  <2>1. PICK i \in 1..Len(rows) : rows[i][1] = w /\ m \in ToSet(rows[i][2])
    BY <1>3, <1>5 DEF Pending
  <2>2. CASE i = 1
    <3>1. w = word /\ m \in ToSet(ms)
      BY <1>3, <2>1, <2>2 DEF word, ms
    <3>2. QED
      BY <1>4, <3>1
  <2>3. CASE i # 1
    BY <2>1, <2>3
  <2>4. QED
    BY <2>2, <2>3
<1>6. CASE Len(ms) = 1
  <2>1. ToSet(Tail(ms)) = {}
    BY <1>4, <1>6, EmptyNamesNone
  <2>2. ASSUME NEW w, NEW m, NEW i \in 2..Len(rows), rows[i][1] = w, m \in ToSet(rows[i][2])
        PROVE  Pending(Tail(rows), w, m)
    <3>1. i - 1 \in DOMAIN Tail(rows) /\ Tail(rows)[i - 1] = rows[i]
      BY <1>3
    <3>2. QED
      BY <2>2, <3>1 DEF Pending
  <2>3. QED
    BY <1>1, <1>3, <1>5, <1>6, <2>1, <2>2 DEF Row, word, ms
<1>7. CASE Len(ms) # 1
  <2> DEFINE rest == [rows EXCEPT ![1] = <<word, Tail(ms)>>]
  <2>1. Tail(ms) # <<>>
    BY <1>4, <1>7
  <2>2. [rows EXCEPT ![1][2] = Tail(ms)] = rest
    <3>1. [rows EXCEPT ![1][2] = Tail(ms)] = [rows EXCEPT ![1] = [rows[1] EXCEPT ![2] = Tail(ms)]]
      OBVIOUS
    <3>2. rows[1] = <<word, ms>>
      BY <1>2, <1>3 DEF word, ms
    <3>3. [<<word, ms>> EXCEPT ![2] = Tail(ms)] = <<word, Tail(ms)>>
      OBVIOUS
    <3>4. QED
      BY <3>1, <3>2, <3>3
  <2>3. <<word, Tail(ms)>> \in Row
    BY <1>1, <1>4, <2>1 DEF Row
  <2>4. rest \in Seq(Row) /\ DOMAIN rest = 1..Len(rows)
    <3>1. rows \in Seq(Row)
      BY DEF Row
    <3>2. QED
      BY <1>3, <2>3, <3>1
  <2>5. rest[1] = <<word, Tail(ms)>> /\ \A i \in 2..Len(rows) : rest[i] = rows[i]
    BY <1>3
  <2> HIDE DEF rest
  <2>6. ASSUME NEW w, NEW m, NEW i \in 2..Len(rows), rows[i][1] = w, m \in ToSet(rows[i][2])
        PROVE  Pending(rest, w, m)
    <3>1. i \in DOMAIN rest /\ rest[i] = rows[i]
      BY <1>3, <2>4, <2>5
    <3>2. QED
      BY <2>6, <3>1 DEF Pending
  <2>7. ASSUME NEW m \in ToSet(Tail(ms)) PROVE Pending(rest, word, m)
    <3>1. 1 \in DOMAIN rest /\ rest[1][1] = word /\ rest[1][2] = Tail(ms)
      BY <1>3, <2>4, <2>5
    <3>2. QED
      BY <3>1 DEF Pending
  <2>8. \A w, m : Pending(rows, w, m) => Pending(rest, w, m) \/ (w = word /\ m = Head(ms))
    BY <1>5, <2>6, <2>7
  <2>9. QED
    BY <1>1, <1>7, <2>2, <2>4, <2>8 DEF Row, word, ms
<1>8. QED
  BY <1>6, <1>7

\* A function on 1..1 is a sequence of one element.
LEMMA OneLong ==
    ASSUME NEW S, NEW x \in S
    PROVE  LET s == [i \in 1..1 |-> x] IN Len(s) = 1 /\ s \in Seq(S) /\ s = <<x>>
OBVIOUS

LEMMA ExpandSteps ==
    ASSUME StoresInv, ThreadsInv, NEW c \in Clients, ServeStep(c), job[c].req.op = "search",
           NEW ev, NEW al, al \subseteq Facts, Facts \subseteq ev,
           ExpandKnows(pc[c], job[c], ev, al)
    PROVE  \/ pc'[c] # "idle" /\ ExpandKnows(pc'[c], job'[c], ev, al)
           \/ pc'[c] = "idle" /\ ExpandAnswer(job[c].req, reply'.status, reply'.out, ev, al)
<1> DEFINE j == job[c]
           r == j.req
           k == job'[c]
           n == j.target
<1>1. r \in Request /\ r.name \in Names /\ r.words \in Seq(Words) /\ pc[c] # "idle"
  BY StepForm, RequestParts DEF ThreadsInv, IsJob
<1>2. c \in DOMAIN pc /\ c \in DOMAIN job
  BY DEF ThreadsInv
<1>3. ASSUME NEW status, NEW out, Answer(c, status, out)
      PROVE  pc'[c] = "idle" /\ reply'.status = status /\ reply'.out = out
  BY <1>2, <1>3 DEF Answer
<1>4. ASSUME NEW label, Goto(c, label) PROVE pc'[c] = label
  BY <1>2, <1>4 DEF Goto
<1>5. pc[c] \in {"require", "expand"} =>
        n \in Names /\ n \in Toward(ev, al, r.name) /\ Surely(ev, al, r.name) \subseteq {n}
  BY DEF ExpandKnows
<1>6. ResolveIndex(c) \/ RequireMaps(c) \/ ExpandWord(c) \/ FinishSearch(c)
  BY StepsByRequest
<1>7. CASE ResolveIndex(c)
  <2> DEFINE name == r.name
  <2>1. /\ job' = [job EXCEPT ![c].target = ResolveName(name)]
        /\ Goto(c, "require")
    BY <1>7 DEF ResolveIndex
  <2>2. k.req = r /\ k.target = ResolveName(name)
    BY <1>1, <2>1, JobFields DEF Becomes
  <2>3. name \in Names
    BY <1>1
  <2> HIDE DEF name
  <2>4. /\ ResolveName(name) \in Names /\ ResolveName(name) \in Toward(ev, al, name)
        /\ Surely(ev, al, name) \subseteq {ResolveName(name)}
    BY <2>3, NamesLead, SurelyLeads
  <2>5. ExpandKnows("require", k, ev, al)
    BY <2>2, <2>4 DEF ExpandKnows, name
  <2>6. QED
    BY <1>4, <2>1, <2>5
<1> HIDE DEF n, r, j, k
<1>8. CASE RequireMaps(c)
  <2> DEFINE maps == indexes[n].maps
             rows == IF maps = <<>> THEN <<>> ELSE [i \in DOMAIN r.words |-> <<r.words[i], maps>>]
             out == <<[w \in Words |-> {}]>>
  <2>1. pc[c] = "require"
    BY <1>8 DEF RequireMaps
  <2>2. CASE Answer(c, 404, <<>>)
    BY <1>3, <2>2 DEF ExpandAnswer
  <2>3. CASE /\ indexes[n] # NoIndex /\ Goto(c, "expand")
             /\ job' = [job EXCEPT ![c].todo = rows, ![c].out = out]
    <3> HIDE DEF rows, out
    <3>1. k.req = r /\ k.target = n /\ k.todo = rows /\ k.out = out
      <4>1. Becomes(c, job[c].target, rows, job[c].sources, out)
        BY <1>1, <2>3, JobFields
      <4>2. QED
        BY <4>1 DEF Becomes, k, r, j, n
    <3>2. maps \in Seq(Names) /\ maps \in Seq(ToSet(maps))
      BY <1>5, <2>1, <2>3, SameSeq DEF StoresInv, IndexRecord
    <3>3. maps \in MapsOf(ev, n) /\ MapsOf(al, n) \subseteq {maps}
      <4>1. MapsOf(Facts, n) = {maps}
        BY <1>5, <2>1, <2>3, FactsOfIndexes
      <4>2. MapsOf(al, n) \subseteq MapsOf(Facts, n) /\ MapsOf(Facts, n) \subseteq MapsOf(ev, n)
        BY FactsGrow
      <4>3. QED
        BY <4>1, <4>2
    <3> HIDE DEF maps
    <3>4. Len(out) = 1 /\ out \in Seq([Words -> SUBSET Words]) /\ \A word \in Words : out[1][word] = {}
      BY DEF out
    <3>5. /\ rows \in Seq(Words \X (Seq(ToSet(maps)) \ {<<>>}))
          /\ \A word \in ToSet(r.words) : \A m \in ToSet(maps) : Pending(rows, word, m)
      <4>1. CASE maps = <<>>
        BY <4>1, EmptyNamesNone DEF rows
      <4>2. CASE maps # <<>>
        <5>1. rows = [i \in DOMAIN r.words |-> <<r.words[i], maps>>]
          BY <4>2 DEF rows
        <5>2. /\ Len(r.words) \in Nat /\ DOMAIN r.words = 1..Len(r.words)
              /\ \A i \in DOMAIN r.words : r.words[i] \in Words
          BY <1>1
        <5>3. rows \in [1..Len(r.words) -> Words \X (Seq(ToSet(maps)) \ {<<>>})]
          BY <3>2, <4>2, <5>1, <5>2
        <5>4. ASSUME NEW word \in ToSet(r.words), NEW m \in ToSet(maps) PROVE Pending(rows, word, m)
          <6>1. PICK i \in DOMAIN r.words : r.words[i] = word
            BY DEF ToSet
          <6>2. i \in DOMAIN rows /\ rows[i] = <<word, maps>>
            BY <5>1, <6>1
          <6>3. rows[i][1] = word /\ rows[i][2] = maps
            BY <6>2
          <6>4. QED
            BY <6>2, <6>3 DEF Pending
        <5>5. QED
          BY <5>2, <5>3, <5>4
      <4>3. QED
        BY <4>1, <4>2
    <3>6. Expanded(maps, k, ev, al)
      BY <3>1, <3>2, <3>3, <3>4, <3>5 DEF Expanded
    <3>7. ExpandKnows("expand", k, ev, al)
      BY <1>5, <2>1, <3>1, <3>3, <3>6 DEF ExpandKnows
    <3>8. QED
      BY <1>4, <2>3, <3>7 DEF k
  <2>4. QED
    BY <1>8, <2>2, <2>3 DEF RequireMaps, n, r, j, k
<1>9. pc[c] = "expand" => \E maps \in MapsOf(ev, n) : Expanded(maps, j, ev, al)
  BY DEF ExpandKnows, n, j
<1>10. CASE ExpandWord(c)
  <2>1. pc[c] = "expand" /\ j.todo # <<>> /\ Goto(c, "expand")
    BY <1>10 DEF ExpandWord, j
  <2>2. PICK maps \in MapsOf(ev, n) : Expanded(maps, j, ev, al)
    BY <1>9, <2>1
  <2> DEFINE todo == j.todo
             word == Head(todo)[1]
             ms == Head(todo)[2]
             m == Head(ms)
             map == items["synonymMap"][m]
             more == IF map = NoItem THEN {} ELSE RuleOutputs(map.body, word) \ {word}
             rest == IF Len(ms) = 1 THEN Tail(todo) ELSE [todo EXCEPT ![1][2] = Tail(ms)]
             out == [j.out EXCEPT ![1][word] = @ \cup more]
  <2>3. k.req = r /\ k.target = n /\ k.todo = rest /\ k.out = out
    <3>1. job' = [job EXCEPT ![c].todo = rest, ![c].out = out]
      <4> HIDE DEF more
      <4>1. job' = [job EXCEPT ![c].todo = IF Len(ms) = 1 THEN Tail(@) ELSE [@ EXCEPT ![1][2] = Tail(ms)],
                               ![c].out[1][word] = @ \cup more]
        BY <1>10 DEF ExpandWord, more, j
      <4>2. QED
        BY <4>1 DEF j
    <3> HIDE DEF rest, out
    <3>2. Becomes(c, job[c].target, rest, job[c].sources, out)
      BY <1>1, <3>1, JobFields
    <3>3. QED
      BY <3>2 DEF Becomes, k, r, j, n
  <2>4. /\ maps \in Seq(Names) /\ MapsOf(al, n) \subseteq {maps}
        /\ todo \in Seq(Words \X (Seq(ToSet(maps)) \ {<<>>}))
        /\ Len(j.out) = 1 /\ j.out \in Seq([Words -> SUBSET Words])
        /\ \A w \in Words : j.out[1][w] \subseteq Rewrites(ev, {n}, w)
        /\ \A w \in ToSet(r.words) : \A m2 \in ToSet(maps) :
             \/ Pending(todo, w, m2)
             \/ \A body \in Bodies(al, "synonymMap", m2) :
                  RuleOutputs(body, w) \ {w} \subseteq j.out[1][w]
    BY <2>2 DEF Expanded, n, r
  <2> HIDE DEF todo
  <2>5. /\ word \in Words /\ ms \in Seq(ToSet(maps)) /\ ms # <<>>
        /\ rest \in Seq(Words \X (Seq(ToSet(maps)) \ {<<>>}))
        /\ \A w, m2 : Pending(todo, w, m2) => Pending(rest, w, m2) \/ (w = word /\ m2 = m)
    BY <2>1, <2>4, PendingStep DEF todo
  <2> HIDE DEF rest, word, ms
  <2>6. m \in ToSet(maps) /\ m \in Names
    BY <2>4, <2>5, HeadAndTail, SameSeq
  <2> HIDE DEF m
  <2>7. /\ map # NoItem => map.body \in Bodies(ev, "synonymMap", m) /\ map.body \in SynonymBody
        /\ \A body \in Bodies(al, "synonymMap", m) : map # NoItem /\ body = map.body
    BY <2>6, MapSeen
  <2> HIDE DEF map
  <2>8. more \subseteq Rewrites(ev, {n}, word) \cap Words
    BY <2>2, <2>5, <2>6, <2>7, OutputsRewrite
  <2>9. \A body \in Bodies(al, "synonymMap", m) : RuleOutputs(body, word) \ {word} \subseteq more
    BY <2>7
  <2> HIDE DEF more
  <2>10. /\ Len(out) = 1 /\ out \in Seq([Words -> SUBSET Words])
         /\ \A w \in Words : out[1][w] = IF w = word THEN j.out[1][w] \cup more ELSE j.out[1][w]
    <3>1. j.out[1] \in [Words -> SUBSET Words] /\ DOMAIN j.out = 1..1
      BY <2>4
    <3> DEFINE f == [j.out[1] EXCEPT ![word] = @ \cup more]
    <3>2. f \in [Words -> SUBSET Words]
      BY <2>8, <3>1
    <3>3. \A w \in Words : f[w] = IF w = word THEN j.out[1][w] \cup more ELSE j.out[1][w]
      BY <3>1
    <3>4. out = [j.out EXCEPT ![1] = f]
      BY <3>1
    <3> HIDE DEF f, out
    <3>5. out \in [1..1 -> [Words -> SUBSET Words]] /\ out[1] = f
      BY <2>4, <3>1, <3>2, <3>4
    <3>6. Len(out) = 1 /\ out \in Seq([Words -> SUBSET Words])
      <4>1. out = [i \in 1..1 |-> f]
        BY <3>5
      <4>2. QED
        BY <3>2, <4>1, OneLong
    <3>7. QED
      BY <3>3, <3>5, <3>6
  <2> HIDE DEF out
  <2>11. \A w \in Words : out[1][w] \subseteq Rewrites(ev, {n}, w)
    BY <2>4, <2>8, <2>10
  <2>12. ASSUME NEW w \in ToSet(r.words), NEW m2 \in ToSet(maps)
         PROVE  \/ Pending(rest, w, m2)
                \/ \A body \in Bodies(al, "synonymMap", m2) :
                     RuleOutputs(body, w) \ {w} \subseteq out[1][w]
    <3>1. w \in Words
      BY <1>1, SameSeq
    <3>2. CASE Pending(todo, w, m2)
      BY <2>5, <2>9, <2>10, <3>1, <3>2
    <3>3. CASE ~Pending(todo, w, m2)
      BY <2>4, <2>10, <3>1, <3>3
    <3>4. QED
      BY <3>2, <3>3
  <2>13. Expanded(maps, k, ev, al)
    BY <2>3, <2>4, <2>5, <2>10, <2>11, <2>12 DEF Expanded
  <2>14. ExpandKnows("expand", k, ev, al)
    BY <1>5, <2>1, <2>2, <2>3, <2>13 DEF ExpandKnows
  <2>15. QED
    BY <1>4, <2>1, <2>14 DEF k
<1>11. CASE FinishSearch(c)
  <2>1. pc[c] = "expand" /\ j.todo = <<>> /\ Answer(c, 200, j.out)
    BY <1>11 DEF FinishSearch, j
  <2>2. PICK maps \in MapsOf(ev, n) : Expanded(maps, j, ev, al)
    BY <1>9, <2>1
  <2>3. ASSUME NEW word \in ToSet(r.words)
        PROVE  /\ Rewrites(al, Surely(ev, al, r.name), word) \subseteq j.out[1][word]
               /\ j.out[1][word] \subseteq Rewrites(ev, Toward(ev, al, r.name), word)
    <3>1. word \in Words
      BY <1>1, SameSeq
    <3>2. /\ MapsOf(al, n) \subseteq {maps}
          /\ j.out[1][word] \subseteq Rewrites(ev, {n}, word)
          /\ \A m \in ToSet(maps) : \A body \in Bodies(al, "synonymMap", m) :
               RuleOutputs(body, word) \ {word} \subseteq j.out[1][word]
      <4>1. \A m : ~Pending(j.todo, word, m)
        BY <2>1 DEF Pending
      <4>2. word \in ToSet(j.req.words) /\ j.target = n
        BY DEF r, n
      <4>3. QED
        BY <2>2, <3>1, <4>1, <4>2 DEF Expanded
    <3>3. Surely(ev, al, r.name) \subseteq {n} /\ {n} \subseteq Toward(ev, al, r.name)
      BY <1>5, <2>1
    <3>4. Rewrites(al, Surely(ev, al, r.name), word) \subseteq j.out[1][word]
      BY <3>2, <3>3, RewritesOfOne
    <3>5. Rewrites(ev, {n}, word) \subseteq Rewrites(ev, Toward(ev, al, r.name), word)
      BY <3>3, RewritesGrow
    <3>6. QED
      BY <3>2, <3>4, <3>5
  <2>4. QED
    BY <1>3, <2>1, <2>3 DEF ExpandAnswer, r, j
<1>12. QED
  BY <1>6, <1>7, <1>8, <1>10, <1>11 DEF k, r, j

\* The answers of the searches, as the properties of ResourceHistory judge
\* them.
ExpansionsAnswered ==
    \A c \in Watched : Answered(c, "search") =>
        ExpandAnswer(reply.req, reply.status, reply.out, ever[c], always[c])

LEMMA ExpandHolds ==
    /\ HistoryInit => ExpandInv /\ ExpansionsAnswered
    /\ BaseInv /\ ExpandInv /\ HistoryNext => ExpandInv' /\ ExpansionsAnswered'
<1>1. ASSUME HistoryInit PROVE ExpandInv /\ ExpansionsAnswered
  BY <1>1, WatchedAssumption DEF HistoryInit, ResourceInit, ExpandInv, ExpansionsAnswered, Answered
<1>2. ASSUME BaseInv, ExpandInv, HistoryNext, NEW c \in Watched
      PROVE  /\ pc'[c] # "idle" /\ job'[c].req.op = "search" =>
                  ExpandKnows(pc'[c], job'[c], ever'[c], always'[c])
             /\ reply' # NoReply /\ reply'.client = c /\ reply'.req.op = "search" =>
                  ExpandAnswer(reply'.req, reply'.status, reply'.out, ever'[c], always'[c])
  <2>1. /\ pc[c] # "idle" => /\ ever[c] \subseteq ever'[c] /\ always'[c] \subseteq always[c]
                             /\ always[c] \subseteq Facts /\ Facts \subseteq ever[c]
    BY <1>2, StepsAreOfOne, FollowSteps DEF BaseInv
  <2>2. pc[c] # "idle" =>
          /\ \A label, j : ExpandKnows(label, j, ever[c], always[c]) =>
                             ExpandKnows(label, j, ever'[c], always'[c])
          /\ \A r, status, out : ExpandAnswer(r, status, out, ever[c], always[c]) =>
                                   ExpandAnswer(r, status, out, ever'[c], always'[c])
    <3>1. SUFFICES ASSUME pc[c] # "idle"
                   PROVE  /\ \A label, j : ExpandKnows(label, j, ever[c], always[c]) =>
                                            ExpandKnows(label, j, ever'[c], always'[c])
                          /\ \A r, status, out : ExpandAnswer(r, status, out, ever[c], always[c]) =>
                                                  ExpandAnswer(r, status, out, ever'[c], always'[c])
      OBVIOUS
    <3>2. /\ ever[c] \subseteq ever'[c] /\ always'[c] \subseteq always[c]
          /\ always[c] \subseteq ever[c]
      BY <2>1, <3>1
    <3>3. QED
      BY <3>2, ExpandStays
  <2>3. CASE pc'[c] = pc[c] /\ job'[c] = job[c] /\ (reply' # NoReply => reply'.client # c)
    BY <1>2, <2>2, <2>3 DEF ExpandInv
  <2>4. CASE \E r \in Request : pc'[c] = EntryLabel(r) /\ job'[c] = FreshJob(r) /\ reply' = NoReply
    <3>1. PICK r \in Request : pc'[c] = EntryLabel(r) /\ job'[c] = FreshJob(r)
      BY <2>4
    <3>2. job'[c].req = r
      BY <3>1 DEF FreshJob
    <3>3. r.op = "search" => pc'[c] = "resolve"
      BY <3>1 DEF EntryLabel
    <3>4. QED
      BY <2>4, <3>2, <3>3 DEF ExpandKnows
  <2>5. CASE /\ ServeStep(c) /\ pc[c] # "idle"
             /\ \/ pc'[c] = "idle" /\ reply'.req = job[c].req
                \/ pc'[c] # "idle" /\ reply' = NoReply /\ job'[c].req = job[c].req
    <3>1. SUFFICES ASSUME job[c].req.op = "search"
                   PROVE  \/ /\ pc'[c] # "idle"
                             /\ ExpandKnows(pc'[c], job'[c], ever[c], always[c])
                          \/ /\ pc'[c] = "idle"
                             /\ ExpandAnswer(job[c].req, reply'.status, reply'.out, ever[c], always[c])
      BY <2>2, <2>5
    <3>2. ExpandKnows(pc[c], job[c], ever[c], always[c])
      BY <1>2, <2>5, <3>1 DEF ExpandInv
    <3>3. QED
      BY <1>2, <2>1, <2>5, <3>1, <3>2, ExpandSteps, WatchedAssumption DEF BaseInv
  <2>6. QED
    BY <1>2, <2>3, <2>4, <2>5, WatchedSteps
<1>3. ASSUME BaseInv, ExpandInv, HistoryNext PROVE ExpandInv' /\ ExpansionsAnswered'
  BY <1>2, <1>3 DEF ExpandInv, ExpansionsAnswered, Answered
<1>4. QED
  BY <1>1, <1>3

\* Every word of a search is rewritten by all the rules that were stored
\* throughout the request, and by none that never were (synonym_expansions,
\* SynonymMap::expand).
THEOREM ExpansionsAlwaysFromStoredRules == HistorySpec => []ExpansionsFromStoredRules
<1>1. ASSUME ExpansionsAnswered PROVE ExpansionsFromStoredRules
  <2>1. SUFFICES ASSUME NEW c \in Watched, Answered(c, "search"), reply.status = 200,
                        NEW word \in ToSet(reply.req.words)
                 PROVE  /\ Rewrites(always[c], AlwaysTargets(c, reply.req.name), word)
                             \subseteq reply.out[1][word]
                        /\ reply.out[1][word]
                             \subseteq Rewrites(ever[c], EverTargets(c, reply.req.name), word)
    BY DEF ExpansionsFromStoredRules
  <2>2. \A n : EverTargets(c, n) = Toward(ever[c], always[c], n)
               /\ AlwaysTargets(c, n) = Surely(ever[c], always[c], n)
    BY DEF EverTargets, AlwaysTargets, Toward, Surely
  <2>3. ExpandAnswer(reply.req, reply.status, reply.out, ever[c], always[c])
    BY <1>1, <2>1 DEF ExpansionsAnswered
  <2>4. QED
    BY <2>1, <2>2, <2>3 DEF ExpandAnswer
<1>2. BaseInv /\ ExpandInv /\ ExpansionsAnswered /\ [HistoryNext]_historyVars
        => ExpandInv' /\ ExpansionsAnswered'
  <2>1. ASSUME ExpandInv, ExpansionsAnswered, UNCHANGED historyVars
        PROVE  ExpandInv' /\ ExpansionsAnswered'
    BY <2>1 DEF historyVars, ExpandInv, ExpansionsAnswered, Answered
  <2>2. QED
    BY <2>1, ExpandHolds
<1>3. QED
  BY <1>1, <1>2, BaseHolds, ExpandHolds, PTL DEF HistorySpec

-----------------------------------------------------------------------------
(* Listings and statistics *)

\* A count lies between the sizes of what was there throughout and of what was
\* there at some moment.
Bounded(count, least, most) ==
    count \in Nat /\ Cardinality(least) <= count /\ count <= Cardinality(most)

\* The documents of the indexes that are not in the list.
DocsPast(facts, todo) == {f \in AllDocs(facts) : f[2] \notin ToSet(todo)}

\* What an enumeration of indexes has found: it has missed none that stood
\* throughout and is not still to be visited.
LookingUp(j, ev, al) ==
    /\ j.todo \in Seq(Names)
    /\ \A p, q \in DOMAIN j.todo : j.todo[p] = j.todo[q] => p = q
    /\ j.req.op = "listIndexes" =>
         /\ j.out[1] \subseteq Standing(ev)
         /\ Standing(al) \ ToSet(j.todo) \subseteq j.out[1]
    /\ j.req.op = "stats" =>
         /\ j.out \in Seq(Nat) /\ Len(j.out) = 2
         /\ Bounded(j.out[1], Standing(al), Standing(ev))
         /\ Bounded(j.out[2], DocsPast(al, j.todo), DocsPast(ev, j.todo))

\* What the statistics have counted: the stores still to be counted are the
\* last of CountedKinds.
Counting(j, ev, al) ==
    /\ j.out \in Seq(Nat) /\ j.todo \in Seq(Kinds)
    /\ Len(j.out) \in 2..6 /\ Len(j.todo) = 6 - Len(j.out)
    /\ \A i \in 1..Len(j.todo) : j.todo[i] = CountedKinds[Len(j.out) - 2 + i]
    /\ Bounded(j.out[1], Standing(al), Standing(ev))
    /\ Bounded(j.out[2], AllDocs(al), AllDocs(ev))
    /\ \A i \in 1..Len(j.out) - 2 :
         Bounded(j.out[2 + i], StoredOf(al, CountedKinds[i]), StoredOf(ev, CountedKinds[i]))

ListKnows(label, j, ev, al) ==
    /\ label = "look_up" => LookingUp(j, ev, al)
    /\ label = "count" => Counting(j, ev, al)

ListInv ==
    \A c \in Watched : pc[c] # "idle" /\ job[c].req.op \in {"listIndexes", "stats"} =>
        ListKnows(pc[c], job[c], ever[c], always[c])

\* Only finitely many facts are ever recorded.
FiniteInv == \A c \in Watched : IsFiniteSet(ever[c])

ListAnswer(r, out, ev, al) ==
    /\ r.op = "listIndexes" => Standing(al) \subseteq out[1] /\ out[1] \subseteq Standing(ev)
    /\ r.op = "stats" =>
         /\ Bounded(out[1], Standing(al), Standing(ev))
         /\ Bounded(out[2], AllDocs(al), AllDocs(ev))
         /\ \A i \in 1..4 :
              Bounded(out[2 + i], StoredOf(al, CountedKinds[i]), StoredOf(ev, CountedKinds[i]))

-----------------------------------------------------------------------------

\* The values of a function on a finite set.
LEMMA FiniteImage ==
    ASSUME NEW S, IsFiniteSet(S), NEW R, NEW f \in [S -> R]
    PROVE  IsFiniteSet({f[x] : x \in S})
<1> DEFINE T == {f[x] : x \in S}
<1>1. f \in Surjection(S, T)
  BY DEF Surjection
<1>2. QED
  BY <1>1, FS_Surjection

LEMMA KindsFinite == IsFiniteSet(Kinds)
<1>1. IsFiniteSet({"synonymMap"})
  BY FS_Singleton
<1>2. IsFiniteSet({"synonymMap"} \cup {"alias"})
  BY <1>1, FS_AddElement
<1>3. IsFiniteSet({"synonymMap"} \cup {"alias"} \cup {"knowledgeSource"})
  BY <1>2, FS_AddElement
<1>4. IsFiniteSet({"synonymMap"} \cup {"alias"} \cup {"knowledgeSource"} \cup {"knowledgeBase"})
  BY <1>3, FS_AddElement
<1>5. Kinds = {"synonymMap"} \cup {"alias"} \cup {"knowledgeSource"} \cup {"knowledgeBase"}
  BY DEF Kinds
<1>6. QED
  BY <1>4, <1>5

\* The elements of a finite set, each once.
LEMMA SetInSequence ==
    ASSUME NEW S, IsFiniteSet(S)
    PROVE  /\ SetToSeq(S) \in Seq(S) /\ ToSet(SetToSeq(S)) = S
           /\ \A p, q \in DOMAIN SetToSeq(S) : SetToSeq(S)[p] = SetToSeq(S)[q] => p = q
<1> DEFINE k == Cardinality(S)
           s == SetToSeq(S)
<1>1. k \in Nat /\ \E f : f \in Bijection(1..k, S)
  BY FS_CardinalityType DEF ExistsBijection
<1>2. \E f \in [1..k -> S] : IsInjective(f)
  BY <1>1 DEF Bijection, Injection
<1>3. s \in [1..k -> S] /\ IsInjective(s)
  BY <1>2 DEF SetToSeq
<1> HIDE DEF s
<1>4. s \in Injection(1..k, S)
  BY <1>3 DEF Injection
<1>5. Cardinality(1..k) = k /\ IsFiniteSet(1..k)
  BY <1>1, FS_Interval
<1>6. s \in Surjection(1..k, S)
  BY <1>4, <1>5, FS_Injection
<1>7. ToSet(s) = S
  BY <1>3, <1>6 DEF ToSet, Surjection
<1>8. s \in Seq(S)
  BY <1>1, <1>3
<1>9. QED
  BY <1>3, <1>7, <1>8 DEF IsInjective, s

\* Larger sets have no fewer elements.
LEMMA SizesGrow ==
    ASSUME NEW T, IsFiniteSet(T), NEW S, S \subseteq T
    PROVE  /\ IsFiniteSet(S) /\ Cardinality(S) \in Nat /\ Cardinality(T) \in Nat
           /\ Cardinality(S) <= Cardinality(T)
BY FS_Subset, FS_CardinalityType

LEMMA BoundsWiden ==
    ASSUME NEW least, NEW most, NEW least2, NEW most2, least2 \subseteq least, most \subseteq most2,
           least \subseteq most2, IsFiniteSet(most2)
    PROVE  \A count : Bounded(count, least, most) => Bounded(count, least2, most2)
<1>1. IsFiniteSet(least)
  BY SizesGrow
<1>2. /\ Cardinality(least) \in Nat /\ Cardinality(least2) \in Nat
      /\ Cardinality(most) \in Nat /\ Cardinality(most2) \in Nat
      /\ Cardinality(least2) <= Cardinality(least) /\ Cardinality(most) <= Cardinality(most2)
  BY <1>1, SizesGrow
<1>3. QED
  BY <1>2 DEF Bounded

LEMMA FactsFinite ==
    ASSUME StoresInv
    PROVE  IsFiniteSet(Facts)
<1>1. IsFiniteSet(StandingIndexes) /\ StandingIndexes \subseteq Names
  BY NamesAssumption, SizesGrow DEF StandingIndexes
<1>2. IsFiniteSet(IndexFacts)
  <2> DEFINE f == [n \in StandingIndexes |-> <<"index", n>>]
             R == {<<"index", n>> : n \in StandingIndexes}
  <2>1. f \in [StandingIndexes -> R]
    OBVIOUS
  <2>2. \A n \in StandingIndexes : f[n] = <<"index", n>>
    OBVIOUS
  <2> HIDE DEF f, R
  <2>3. IsFiniteSet({f[n] : n \in StandingIndexes})
    BY <1>1, <2>1, FiniteImage
  <2>4. IndexFacts = {f[n] : n \in StandingIndexes}
    BY <2>2 DEF IndexFacts
  <2>5. QED
    BY <2>3, <2>4
<1>3. IsFiniteSet(MapsFacts)
  <2> DEFINE f == [n \in StandingIndexes |-> <<"maps", n, indexes[n].maps>>]
             R == {<<"maps", n, indexes[n].maps>> : n \in StandingIndexes}
  <2>1. f \in [StandingIndexes -> R]
    OBVIOUS
  <2>2. \A n \in StandingIndexes : f[n] = <<"maps", n, indexes[n].maps>>
    OBVIOUS
  <2> HIDE DEF f, R
  <2>3. IsFiniteSet({f[n] : n \in StandingIndexes})
    BY <1>1, <2>1, FiniteImage
  <2>4. MapsFacts = {f[n] : n \in StandingIndexes}
    BY <2>2 DEF MapsFacts
  <2>5. QED
    BY <2>3, <2>4
<1>4. IsFiniteSet(DocFacts)
  <2>1. ASSUME NEW n \in StandingIndexes PROVE IsFiniteSet({<<"doc", n, d>> : d \in indexes[n].docs})
    <3> DEFINE docs == indexes[n].docs
    <3>1. IsFiniteSet(docs)
      BY DEF StandingIndexes, StoresInv
    <3> HIDE DEF docs
    <3> DEFINE f == [d \in docs |-> <<"doc", n, d>>]
               R == {<<"doc", n, d>> : d \in docs}
    <3>2. f \in [docs -> R] /\ \A d \in docs : f[d] = <<"doc", n, d>>
      OBVIOUS
    <3>3. R = {f[d] : d \in docs}
      OBVIOUS
    <3> HIDE DEF f, R
    <3>4. IsFiniteSet(R)
      <4>1. IsFiniteSet({f[d] : d \in docs})
        BY <3>1, <3>2, FiniteImage
      <4>2. QED
        BY <3>3, <4>1
    <3>5. QED
      BY <3>4 DEF R, docs
  <2> DEFINE D == [n \in StandingIndexes |-> {<<"doc", n, d>> : d \in indexes[n].docs}]
             R == {D[n] : n \in StandingIndexes}
  <2>2. \A n \in StandingIndexes : D[n] = {<<"doc", n, d>> : d \in indexes[n].docs}
    OBVIOUS
  <2>3. D \in [StandingIndexes -> R]
    OBVIOUS
  <2>4. DocFacts = UNION R
    BY DEF DocFacts
  <2>5. \A T \in R : IsFiniteSet(T)
    BY <2>1, <2>2
  <2> HIDE DEF D
  <2>6. IsFiniteSet(R)
    <3>1. IsFiniteSet({D[n] : n \in StandingIndexes})
      <4> HIDE DEF R
      <4>1. QED
        BY <1>1, <2>3, FiniteImage
    <3>2. QED
      BY <3>1
  <2>7. QED
    BY <2>4, <2>5, <2>6, FS_UNION
<1>5. IsFiniteSet(StoredItems)
  <2>1. IsFiniteSet(Kinds \X Names)
    BY KindsFinite, NamesAssumption, FS_Product
  <2>2. QED
    BY <2>1, SizesGrow DEF StoredItems
<1>6. IsFiniteSet(StoredFacts)
  <2> DEFINE f == [at \in StoredItems |-> <<"stored", at[1], at[2]>>]
             R == {<<"stored", at[1], at[2]>> : at \in StoredItems}
  <2>1. f \in [StoredItems -> R]
    OBVIOUS
  <2>2. \A at \in StoredItems : f[at] = <<"stored", at[1], at[2]>>
    OBVIOUS
  <2> HIDE DEF f, R
  <2>3. IsFiniteSet({f[at] : at \in StoredItems})
    BY <1>5, <2>1, FiniteImage
  <2>4. StoredFacts = {f[at] : at \in StoredItems}
    BY <2>2 DEF StoredFacts
  <2>5. QED
    BY <2>3, <2>4
<1>7. IsFiniteSet(ItemFacts)
  <2> DEFINE f == [at \in StoredItems |-> <<"item", at[1], at[2], items[at[1]][at[2]]>>]
             R == {<<"item", at[1], at[2], items[at[1]][at[2]]>> : at \in StoredItems}
  <2>1. f \in [StoredItems -> R]
    OBVIOUS
  <2>2. \A at \in StoredItems : f[at] = <<"item", at[1], at[2], items[at[1]][at[2]]>>
    OBVIOUS
  <2> HIDE DEF f, R
  <2>3. IsFiniteSet({f[at] : at \in StoredItems})
    BY <1>5, <2>1, FiniteImage
  <2>4. ItemFacts = {f[at] : at \in StoredItems}
    BY <2>2 DEF ItemFacts
  <2>5. QED
    BY <2>3, <2>4
<1>8. IsFiniteSet(IndexFacts \cup MapsFacts \cup DocFacts)
  BY <1>2, <1>3, <1>4, FS_Union
<1>9. IsFiniteSet((IndexFacts \cup MapsFacts \cup DocFacts) \cup StoredFacts)
  BY <1>6, <1>8, FS_Union
<1>10. IsFiniteSet(((IndexFacts \cup MapsFacts \cup DocFacts) \cup StoredFacts) \cup ItemFacts)
  BY <1>7, <1>9, FS_Union
<1>11. QED
  BY <1>10 DEF Facts

\* What is counted grows with the facts, and stays finite.
LEMMA CountsGrow ==
    ASSUME NEW ev, NEW ev2, ev \subseteq ev2, IsFiniteSet(ev2)
    PROVE  /\ Standing(ev) \subseteq Standing(ev2) /\ IsFiniteSet(Standing(ev2))
           /\ AllDocs(ev) \subseteq AllDocs(ev2) /\ IsFiniteSet(AllDocs(ev2))
           /\ \A todo : DocsPast(ev, todo) \subseteq DocsPast(ev2, todo)
                        /\ IsFiniteSet(DocsPast(ev2, todo))
           /\ \A kind : StoredOf(ev, kind) \subseteq StoredOf(ev2, kind)
                        /\ IsFiniteSet(StoredOf(ev2, kind))
<1>1. /\ Standing(ev) \subseteq Standing(ev2) /\ AllDocs(ev) \subseteq AllDocs(ev2)
      /\ \A todo : DocsPast(ev, todo) \subseteq DocsPast(ev2, todo)
      /\ \A kind : StoredOf(ev, kind) \subseteq StoredOf(ev2, kind)
  BY DEF Standing, AllDocs, DocsPast, StoredOf
<1>2. IsFiniteSet(Standing(ev2))
  <2> DEFINE S == {f \in ev2 : f[1] = "index"}
             g == [f \in S |-> f[2]]
             R == {f[2] : f \in S}
  <2>1. IsFiniteSet(S)
    BY SizesGrow
  <2>2. g \in [S -> R]
    OBVIOUS
  <2>3. Standing(ev2) = {g[f] : f \in S}
    BY DEF Standing
  <2> HIDE DEF g, R, S
  <2>4. IsFiniteSet({g[f] : f \in S})
    BY <2>1, <2>2, FiniteImage
  <2>5. QED
    BY <2>3, <2>4
<1>3. IsFiniteSet(AllDocs(ev2))
  BY SizesGrow DEF AllDocs
<1>4. ASSUME NEW todo PROVE IsFiniteSet(DocsPast(ev2, todo))
  BY <1>3, SizesGrow DEF DocsPast
<1>5. ASSUME NEW kind PROVE IsFiniteSet(StoredOf(ev2, kind))
  BY SizesGrow DEF StoredOf
<1>6. QED
  BY <1>1, <1>2, <1>3, <1>4, <1>5

\* What is counted now.
LEMMA StandingNow ==
    ASSUME NEW x
    PROVE  x \in Standing(Facts) <=> x \in Names /\ indexes[x] # NoIndex
<1>1. ASSUME NEW f \in Facts, f[1] = "index" PROVE f[2] \in Names /\ indexes[f[2]] # NoIndex
  <2>1. PICK n \in Names : indexes[n] # NoIndex /\ f = <<"index", n>>
    BY <1>1, FactKinds
  <2>2. f[2] = n
    BY <2>1
  <2>3. QED
    BY <2>1, <2>2
<1>2. ASSUME x \in Names, indexes[x] # NoIndex PROVE x \in Standing(Facts)
  <2> DEFINE f == <<"index", x>>
  <2>1. f \in Facts /\ f[1] = "index" /\ f[2] = x
    BY <1>2, FactKinds
  <2> HIDE DEF f
  <2>2. QED
    BY <2>1 DEF Standing
<1>3. QED
  BY <1>1, <1>2 DEF Standing

LEMMA StoredNow ==
    ASSUME NEW kind \in Kinds
    PROVE  Cardinality(StoredOf(Facts, kind)) = Cardinality(Listed(kind))
<1> DEFINE S == Listed(kind)
           T == StoredOf(Facts, kind)
           g == [n \in S |-> <<"stored", kind, n>>]
<1>1. IsFiniteSet(S) /\ \A n : n \in S <=> n \in Names /\ items[kind][n] # NoItem
  BY NamesAssumption, SizesGrow DEF Listed
<1>2. ASSUME NEW n \in S PROVE g[n] \in T /\ g[n][3] = n
  <2> DEFINE f == <<"stored", kind, n>>
  <2>1. f \in Facts
    BY <1>1, FactsOfItems
  <2>2. f[1] = "stored" /\ f[2] = kind /\ f[3] = n /\ g[n] = f
    OBVIOUS
  <2> HIDE DEF f, g
  <2>3. QED
    BY <2>1, <2>2 DEF StoredOf
<1>3. ASSUME NEW f \in T PROVE \E n \in S : g[n] = f
  <2>1. f \in Facts /\ f[1] = "stored" /\ f[2] = kind
    BY <1>3 DEF StoredOf
  <2>2. PICK k \in Kinds, n \in Names : items[k][n] # NoItem /\ f = <<"stored", k, n>>
    BY <2>1, FactKinds
  <2>3. k = kind
    BY <2>1, <2>2
  <2>4. n \in S
    BY <1>1, <2>2, <2>3
  <2>5. g[n] = f
    BY <2>2, <2>3, <2>4
  <2>6. QED
    BY <2>4, <2>5
<1>4. DOMAIN g = S /\ g = [n \in S |-> g[n]]
  OBVIOUS
<1> HIDE DEF g, S, T
<1>5. g \in [S -> T]
  BY <1>2, <1>4
<1>6. g \in Injection(S, T)
  BY <1>2, <1>4, <1>5 DEF Injection, IsInjective
<1>7. g \in Surjection(S, T)
  BY <1>3, <1>5 DEF Surjection
<1>8. ExistsBijection(S, T)
  BY <1>6, <1>7 DEF ExistsBijection, Bijection
<1>9. Cardinality(T) = Cardinality(S)
  BY <1>1, <1>8, FS_Bijection
<1>10. QED
  BY <1>9 DEF S, T

\* The facts about the documents of one index.
OwnDocs(facts, n) == {f \in AllDocs(facts) : f[2] = n}

LEMMA DocsNow ==
    ASSUME StoresInv, NEW n \in Names
    PROVE  /\ indexes[n] = NoIndex => OwnDocs(Facts, n) = {}
           /\ indexes[n] # NoIndex => Cardinality(OwnDocs(Facts, n)) = Cardinality(indexes[n].docs)
<1>1. ASSUME NEW f \in OwnDocs(Facts, n)
      PROVE  indexes[n] # NoIndex /\ \E d \in indexes[n].docs : f = <<"doc", n, d>>
  <2>1. f \in Facts /\ f[1] = "doc" /\ f[2] = n
    BY <1>1 DEF OwnDocs, AllDocs
  <2>2. PICK m \in Names : indexes[m] # NoIndex /\ \E d \in indexes[m].docs : f = <<"doc", m, d>>
    BY <2>1, FactKinds
  <2>3. m = n
    BY <2>1, <2>2
  <2>4. QED
    BY <2>2, <2>3
<1>2. ASSUME indexes[n] # NoIndex
      PROVE  Cardinality(OwnDocs(Facts, n)) = Cardinality(indexes[n].docs)
  <2> DEFINE S == indexes[n].docs
             T == OwnDocs(Facts, n)
             g == [d \in S |-> <<"doc", n, d>>]
  <2>1. IsFiniteSet(S)
    BY <1>2 DEF StoresInv
  <2>2. ASSUME NEW d \in S PROVE g[d] \in T /\ g[d][3] = d
    <3> DEFINE f == <<"doc", n, d>>
    <3>1. f \in Facts
      BY <1>2, FactKinds
    <3>2. f[1] = "doc" /\ f[2] = n /\ f[3] = d /\ g[d] = f
      OBVIOUS
    <3> HIDE DEF f, g
    <3>3. QED
      BY <3>1, <3>2 DEF OwnDocs, AllDocs
  <2>3. ASSUME NEW f \in T PROVE \E d \in S : g[d] = f
    BY <1>1, <2>3
  <2>4. DOMAIN g = S /\ g = [d \in S |-> g[d]]
    OBVIOUS
  <2> HIDE DEF g, S, T
  <2>5. g \in [S -> T]
    BY <2>2, <2>4
  <2>6. g \in Injection(S, T)
    BY <2>2, <2>4, <2>5 DEF Injection, IsInjective
  <2>7. g \in Surjection(S, T)
    BY <2>3, <2>5 DEF Surjection
  <2>8. ExistsBijection(S, T)
    BY <2>6, <2>7 DEF ExistsBijection, Bijection
  <2>9. Cardinality(T) = Cardinality(S)
    BY <2>1, <2>8, FS_Bijection
  <2>10. QED
    BY <2>9 DEF S, T
<1>3. QED
  BY <1>1, <1>2

\* Counting the documents of the next index.
LEMMA DocsCounted ==
    ASSUME StoresInv, NEW ev, NEW al, al \subseteq Facts, Facts \subseteq ev, IsFiniteSet(ev),
           NEW todo \in Seq(Names), todo # <<>>,
           \A p, q \in DOMAIN todo : todo[p] = todo[q] => p = q,
           NEW count, Bounded(count, DocsPast(al, todo), DocsPast(ev, todo))
    PROVE  LET n == Head(todo)
               more == IF indexes[n] = NoIndex THEN 0 ELSE Cardinality(indexes[n].docs)
           IN  /\ more \in Nat
               /\ Bounded(count + more, DocsPast(al, Tail(todo)), DocsPast(ev, Tail(todo)))
<1> DEFINE n == Head(todo)
           rest == Tail(todo)
           more == IF indexes[n] = NoIndex THEN 0 ELSE Cardinality(indexes[n].docs)
           low == DocsPast(al, todo)
           high == DocsPast(ev, todo)
           own == OwnDocs(Facts, n)
           low2 == DocsPast(al, rest)
           high2 == DocsPast(ev, rest)
<1>1. n \in Names /\ ToSet(todo) = {n} \cup ToSet(rest) /\ n \notin ToSet(rest)
  <2>1. /\ n \in Names /\ n = todo[1] /\ Len(todo) \in Nat \ {0} /\ Len(rest) = Len(todo) - 1
        /\ \A i \in 1..Len(todo) - 1 : rest[i] = todo[i + 1]
        /\ ToSet(todo) = {n} \cup ToSet(rest) /\ rest \in Seq(Names)
    BY HeadAndTail
  <2> HIDE DEF n, rest
  <2>2. DOMAIN todo = 1..Len(todo) /\ DOMAIN rest = 1..Len(rest)
    BY <2>1
  <2>3. ASSUME NEW i \in DOMAIN rest PROVE rest[i] # n
    <3>1. i \in 1..Len(todo) - 1 /\ i + 1 \in DOMAIN todo /\ 1 \in DOMAIN todo /\ i + 1 # 1
      BY <2>1, <2>2
    <3>2. todo[i + 1] # todo[1]
      BY <3>1
    <3>3. QED
      BY <2>1, <3>1, <3>2
  <2>4. QED
    BY <2>1, <2>3 DEF ToSet
<1>2. IsFiniteSet(own) /\ Cardinality(own) = more
  <2>1. IsFiniteSet(Facts)
    BY FactsFinite
  <2>2. IsFiniteSet(own)
    BY <2>1, SizesGrow DEF OwnDocs, AllDocs
  <2>3. QED
    BY <1>1, <2>2, DocsNow, FS_EmptySet
<1>3. low2 \subseteq low \cup own /\ high \cup own \subseteq high2 /\ high \cap own = {}
  BY <1>1 DEF DocsPast, OwnDocs, AllDocs
<1>4. IsFiniteSet(high) /\ IsFiniteSet(high2) /\ IsFiniteSet(low)
  <2>1. al \subseteq ev
    OBVIOUS
  <2>2. IsFiniteSet(al)
    BY <2>1, SizesGrow
  <2>3. QED
    BY <2>2, CountsGrow
<1> HIDE DEF n, rest, more, low, high, own, low2, high2
<1>5. /\ IsFiniteSet(low \cup own) /\ Cardinality(low \cup own) <= Cardinality(low) + more
      /\ Cardinality(low) \in Nat /\ more \in Nat
  <2>1. Cardinality(low \cup own) = Cardinality(low) + Cardinality(own) - Cardinality(low \cap own)
    BY <1>2, <1>4, FS_Union
  <2>2. IsFiniteSet(low \cup own)
    BY <1>2, <1>4, FS_Union
  <2>3. Cardinality(low \cap own) \in Nat /\ Cardinality(low) \in Nat /\ Cardinality(own) \in Nat
    BY <1>2, <1>4, SizesGrow
  <2>4. QED
    BY <1>2, <2>1, <2>2, <2>3
<1>6. /\ Cardinality(high \cup own) = Cardinality(high) + more
      /\ Cardinality(high) \in Nat
  <2>1. Cardinality(high \cup own) = Cardinality(high) + Cardinality(own) - Cardinality(high \cap own)
    BY <1>2, <1>4, FS_Union
  <2>2. Cardinality(high \cap own) = 0 /\ Cardinality(high) \in Nat
    BY <1>3, <1>4, FS_EmptySet, FS_CardinalityType
  <2>3. QED
    BY <1>2, <1>5, <2>1, <2>2
<1>7. Cardinality(low2) \in Nat /\ Cardinality(low2) <= Cardinality(low) + more
  <2>1. Cardinality(low2) \in Nat /\ Cardinality(low2) <= Cardinality(low \cup own)
    BY <1>3, <1>5, SizesGrow
  <2>2. Cardinality(low \cup own) \in Nat
    BY <1>5, FS_CardinalityType
  <2>3. QED
    BY <1>5, <2>1, <2>2
<1>8. Cardinality(high2) \in Nat /\ Cardinality(high) + more <= Cardinality(high2)
  BY <1>3, <1>4, <1>6, SizesGrow
<1>9. count \in Nat /\ Cardinality(low) <= count /\ count <= Cardinality(high)
  BY DEF Bounded, low, high
<1>10. Bounded(count + more, low2, high2)
  BY <1>5, <1>6, <1>7, <1>8, <1>9 DEF Bounded
<1>11. QED
  BY <1>5, <1>10 DEF n, rest, more, low2, high2

LEMMA ListStays ==
    ASSUME NEW ev, NEW al, NEW ev2, NEW al2, ev \subseteq ev2, al2 \subseteq al, al \subseteq ev,
           IsFiniteSet(ev2)
    PROVE  /\ \A label, j : ListKnows(label, j, ev, al) => ListKnows(label, j, ev2, al2)
           /\ \A r, out : ListAnswer(r, out, ev, al) => ListAnswer(r, out, ev2, al2)
<1>1. IsFiniteSet(al) /\ al \subseteq ev2
  BY SizesGrow
<1>2. /\ Standing(ev) \subseteq Standing(ev2) /\ Standing(al2) \subseteq Standing(al)
      /\ \A count : Bounded(count, Standing(al), Standing(ev)) =>
                      Bounded(count, Standing(al2), Standing(ev2))
      /\ \A count : Bounded(count, AllDocs(al), AllDocs(ev)) =>
                      Bounded(count, AllDocs(al2), AllDocs(ev2))
  <2>1. /\ Standing(ev) \subseteq Standing(ev2) /\ Standing(al2) \subseteq Standing(al)
        /\ Standing(al) \subseteq Standing(ev2) /\ IsFiniteSet(Standing(ev2))
        /\ AllDocs(ev) \subseteq AllDocs(ev2) /\ AllDocs(al2) \subseteq AllDocs(al)
        /\ AllDocs(al) \subseteq AllDocs(ev2) /\ IsFiniteSet(AllDocs(ev2))
    BY <1>1, CountsGrow
  <2>2. QED
    BY <2>1, BoundsWiden
<1>3. \A count, todo : Bounded(count, DocsPast(al, todo), DocsPast(ev, todo)) =>
                         Bounded(count, DocsPast(al2, todo), DocsPast(ev2, todo))
  <2>1. SUFFICES ASSUME NEW count, NEW todo, Bounded(count, DocsPast(al, todo), DocsPast(ev, todo))
                 PROVE  Bounded(count, DocsPast(al2, todo), DocsPast(ev2, todo))
    OBVIOUS
  <2>2. /\ DocsPast(ev, todo) \subseteq DocsPast(ev2, todo)
        /\ DocsPast(al2, todo) \subseteq DocsPast(al, todo)
        /\ DocsPast(al, todo) \subseteq DocsPast(ev2, todo) /\ IsFiniteSet(DocsPast(ev2, todo))
    BY <1>1, CountsGrow
  <2>3. QED
    BY <2>1, <2>2, BoundsWiden
<1>4. \A count, kind : Bounded(count, StoredOf(al, kind), StoredOf(ev, kind)) =>
                         Bounded(count, StoredOf(al2, kind), StoredOf(ev2, kind))
  <2>1. SUFFICES ASSUME NEW count, NEW kind, Bounded(count, StoredOf(al, kind), StoredOf(ev, kind))
                 PROVE  Bounded(count, StoredOf(al2, kind), StoredOf(ev2, kind))
    OBVIOUS
  <2>2. /\ StoredOf(ev, kind) \subseteq StoredOf(ev2, kind)
        /\ StoredOf(al2, kind) \subseteq StoredOf(al, kind)
        /\ StoredOf(al, kind) \subseteq StoredOf(ev2, kind) /\ IsFiniteSet(StoredOf(ev2, kind))
    BY <1>1, CountsGrow
  <2>3. QED
    BY <2>1, <2>2, BoundsWiden
<1>5. ASSUME NEW j, LookingUp(j, ev, al) PROVE LookingUp(j, ev2, al2)
  BY <1>2, <1>3, <1>5 DEF LookingUp
<1>6. ASSUME NEW j, Counting(j, ev, al) PROVE Counting(j, ev2, al2)
  BY <1>2, <1>4, <1>6 DEF Counting
<1>7. ASSUME NEW r, NEW out, ListAnswer(r, out, ev, al) PROVE ListAnswer(r, out, ev2, al2)
  BY <1>2, <1>4, <1>7 DEF ListAnswer
<1>8. QED
  BY <1>5, <1>6, <1>7 DEF ListKnows

LEMMA ListSteps ==
    ASSUME StoresInv, ThreadsInv, NEW c \in Clients, ServeStep(c),
           job[c].req.op \in {"listIndexes", "stats"},
           NEW ev, NEW al, al \subseteq Facts, Facts \subseteq ev, IsFiniteSet(ev),
           ListKnows(pc[c], job[c], ev, al)
    PROVE  \/ pc'[c] # "idle" /\ ListKnows(pc'[c], job'[c], ev, al)
           \/ pc'[c] = "idle" /\ ListAnswer(job[c].req, reply'.out, ev, al)
<1> DEFINE j == job[c]
           r == j.req
           k == job'[c]
<1>1. pc[c] # "idle" /\ r.op \in {"listIndexes", "stats"}
  BY StepForm
<1>2. c \in DOMAIN pc /\ c \in DOMAIN job
  BY DEF ThreadsInv
<1>3. ASSUME NEW status, NEW out, Answer(c, status, out)
      PROVE  pc'[c] = "idle" /\ reply'.out = out
  BY <1>2, <1>3 DEF Answer
<1>4. ASSUME NEW label, Goto(c, label) PROVE pc'[c] = label
  BY <1>2, <1>4 DEF Goto
<1>5. ListNames(c) \/ LookUpIndex(c) \/ FinishListing(c) \/ CountItems(c)
  BY StepsByRequest
<1>6. /\ Standing(al) \subseteq Standing(Facts) /\ Standing(Facts) \subseteq Standing(ev)
      /\ IsFiniteSet(Standing(ev)) /\ IsFiniteSet(Standing(Facts)) /\ IsFiniteSet(al)
      /\ IsFiniteSet(Facts)
  <2>1. IsFiniteSet(Facts)
    BY SizesGrow
  <2>2. IsFiniteSet(al)
    BY <2>1, SizesGrow
  <2>3. QED
    BY <2>1, <2>2, CountsGrow
<1> HIDE DEF r, j, k
<1>7. CASE ListNames(c)
  <2> DEFINE names == {n \in Names : indexes[n] # NoIndex}
             todo == SetToSeq(names)
             out == IF r.op = "stats" THEN <<Cardinality(names), 0>> ELSE <<{}>>
  <2>1. job' = [job EXCEPT ![c].todo = todo, ![c].out = out] /\ Goto(c, "look_up")
    BY <1>7 DEF ListNames, r, j
  <2>2. IsFiniteSet(names) /\ Standing(Facts) = names /\ names \subseteq Names
    BY <1>6, StandingNow
  <2> HIDE DEF out, names
  <2>3. /\ todo \in Seq(names) /\ ToSet(todo) = names
        /\ \A p, q \in DOMAIN todo : todo[p] = todo[q] => p = q
    BY <2>2, SetInSequence
  <2> HIDE DEF todo
  <2>4. k.req = r /\ k.todo = todo /\ k.out = out
    <3>1. Becomes(c, job[c].target, todo, job[c].sources, out)
      BY <1>1, <2>1, JobFields
    <3>2. QED
      BY <3>1 DEF Becomes, k, r, j
  <2>5. todo \in Seq(Names)
    BY <2>2, <2>3
  <2>6. CASE r.op = "listIndexes"
    <3>1. out[1] = {}
      BY <2>6 DEF out
    <3>2. LookingUp(k, ev, al)
      BY <1>6, <2>2, <2>3, <2>4, <2>5, <2>6, <3>1 DEF LookingUp
    <3>3. QED
      BY <1>4, <2>1, <3>2 DEF ListKnows, k
  <2>7. CASE r.op = "stats"
    <3>1. Cardinality(names) \in Nat
      BY <2>2, FS_CardinalityType
    <3>2. out \in Seq(Nat) /\ Len(out) = 2 /\ out[1] = Cardinality(names) /\ out[2] = 0
      BY <2>7, <3>1 DEF out
    <3>3. Bounded(out[1], Standing(al), Standing(ev))
      <4>1. /\ Cardinality(Standing(al)) <= Cardinality(names)
            /\ Cardinality(names) <= Cardinality(Standing(ev))
        BY <1>6, <2>2, SizesGrow
      <4>2. QED
        BY <3>1, <3>2, <4>1 DEF Bounded
    <3>4. Bounded(out[2], DocsPast(al, todo), DocsPast(ev, todo))
      <4>1. ASSUME NEW f \in AllDocs(Facts) PROVE f[2] \in names
        <5>1. PICK n \in Names : indexes[n] # NoIndex /\ \E d \in indexes[n].docs : f = <<"doc", n, d>>
          BY FactKinds DEF AllDocs
        <5>2. f[2] = n
          BY <5>1
        <5>3. QED
          BY <5>1, <5>2 DEF names
      <4>2. DocsPast(al, todo) = {}
        BY <2>3, <4>1 DEF DocsPast, AllDocs
      <4>3. Cardinality(DocsPast(ev, todo)) \in Nat
        BY CountsGrow, FS_CardinalityType
      <4>4. QED
        BY <3>2, <4>2, <4>3, FS_EmptySet DEF Bounded
    <3>5. LookingUp(k, ev, al)
      BY <2>3, <2>4, <2>5, <2>7, <3>2, <3>3, <3>4 DEF LookingUp
    <3>6. QED
      BY <1>4, <2>1, <3>5 DEF ListKnows, k
  <2>8. QED
    BY <1>1, <2>6, <2>7
<1>8. CASE LookUpIndex(c)
  <2> DEFINE n == Head(j.todo)
             todo == Tail(j.todo)
             out == IF indexes[n] = NoIndex THEN j.out
                    ELSE IF r.op = "stats" THEN <<j.out[1], j.out[2] + Cardinality(indexes[n].docs)>>
                    ELSE <<j.out[1] \cup {n}>>
  <2>1. pc[c] = "look_up" /\ j.todo # <<>> /\ Goto(c, "look_up")
    BY <1>8 DEF LookUpIndex, j
  <2>2. job' = [job EXCEPT ![c].todo = todo, ![c].out = out]
    BY <1>8 DEF LookUpIndex, j, r
  <2>3. LookingUp(j, ev, al)
    BY <2>1 DEF ListKnows, j
  <2>4. k.req = r /\ k.todo = todo /\ k.out = out
    <3> HIDE DEF todo, out
    <3>1. Becomes(c, job[c].target, todo, job[c].sources, out)
      BY <1>1, <2>2, JobFields
    <3>2. QED
      BY <3>1 DEF Becomes, k, r, j
  <2>5. /\ j.todo \in Seq(Names) /\ r = j.req
        /\ \A p, q \in DOMAIN j.todo : j.todo[p] = j.todo[q] => p = q
    BY <2>3 DEF LookingUp, r
  <2>6. /\ n \in Names /\ todo \in Seq(Names) /\ ToSet(j.todo) = {n} \cup ToSet(todo)
        /\ \A p, q \in DOMAIN todo : todo[p] = todo[q] => p = q
    <3>1. /\ n \in Names /\ todo \in Seq(Names) /\ Len(todo) = Len(j.todo) - 1
          /\ Len(j.todo) \in Nat \ {0} /\ ToSet(j.todo) = {n} \cup ToSet(todo)
          /\ \A i \in 1..Len(j.todo) - 1 : todo[i] = j.todo[i + 1]
      BY <2>1, <2>5, HeadAndTail
    <3> HIDE DEF n, todo
    <3>2. ASSUME NEW p \in DOMAIN todo, NEW q \in DOMAIN todo, todo[p] = todo[q] PROVE p = q
      <4>1. /\ p \in 1..Len(j.todo) - 1 /\ q \in 1..Len(j.todo) - 1
            /\ p + 1 \in DOMAIN j.todo /\ q + 1 \in DOMAIN j.todo
        BY <2>5, <3>1
      <4>2. p + 1 = q + 1
        BY <2>5, <3>1, <3>2, <4>1
      <4>3. QED
        BY <4>1, <4>2
    <3>3. QED
      BY <3>1, <3>2
  <2>7. CASE r.op = "listIndexes"
    <3>1. /\ j.out[1] \subseteq Standing(ev)
          /\ Standing(al) \ ToSet(j.todo) \subseteq j.out[1]
      BY <2>3, <2>5, <2>7 DEF LookingUp
    <3>2. indexes[n] = NoIndex => n \notin Standing(al) /\ out[1] = j.out[1]
      BY <1>6, StandingNow
    <3>3. indexes[n] # NoIndex => n \in Standing(ev) /\ out[1] = j.out[1] \cup {n}
      BY <1>6, <2>6, <2>7, StandingNow
    <3> HIDE DEF n, todo, out
    <3>4. out[1] \subseteq Standing(ev) /\ Standing(al) \ ToSet(todo) \subseteq out[1]
      BY <2>6, <3>1, <3>2, <3>3
    <3>5. LookingUp(k, ev, al)
      BY <2>4, <2>6, <2>7, <3>4 DEF LookingUp
    <3>6. QED
      BY <1>4, <2>1, <3>5 DEF ListKnows, k
  <2>8. CASE r.op = "stats"
    <3> DEFINE more == IF indexes[n] = NoIndex THEN 0 ELSE Cardinality(indexes[n].docs)
    <3>1. /\ j.out \in Seq(Nat) /\ Len(j.out) = 2
          /\ Bounded(j.out[1], Standing(al), Standing(ev))
          /\ Bounded(j.out[2], DocsPast(al, j.todo), DocsPast(ev, j.todo))
      BY <2>3, <2>5, <2>8 DEF LookingUp
    <3>2. more \in Nat /\ Bounded(j.out[2] + more, DocsPast(al, todo), DocsPast(ev, todo))
      BY <2>1, <2>5, <3>1, DocsCounted
    <3>3. out \in Seq(Nat) /\ Len(out) = 2 /\ out[1] = j.out[1] /\ out[2] = j.out[2] + more
      <4>1. CASE indexes[n] = NoIndex
        <5>1. out = j.out /\ more = 0 /\ j.out[2] \in Nat
          BY <3>1, <4>1
        <5> HIDE DEF out, more
        <5>2. QED
          BY <3>1, <5>1
      <4>2. CASE indexes[n] # NoIndex
        <5>1. out = <<j.out[1], j.out[2] + more>>
          BY <2>8, <4>2
        <5> HIDE DEF out, more
        <5>2. j.out[1] \in Nat /\ j.out[2] + more \in Nat
          BY <3>1, <3>2
        <5>3. QED
          BY <5>1, <5>2
      <4>3. QED
        BY <4>1, <4>2
    <3> HIDE DEF n, todo, out, more
    <3>4. LookingUp(k, ev, al)
      BY <2>4, <2>6, <2>8, <3>1, <3>2, <3>3 DEF LookingUp
    <3>5. QED
      BY <1>4, <2>1, <3>4 DEF ListKnows, k
  <2>9. QED
    BY <1>1, <2>7, <2>8
<1>9. CASE FinishListing(c)
  <2>1. pc[c] = "look_up" /\ j.todo = <<>>
    BY <1>9 DEF FinishListing, j
  <2>2. LookingUp(j, ev, al)
    BY <2>1 DEF ListKnows, j
  <2>3. CASE r.op = "listIndexes" /\ Answer(c, 200, j.out)
    <3>1. Standing(al) \subseteq j.out[1] /\ j.out[1] \subseteq Standing(ev)
      BY <2>1, <2>2, <2>3, EmptyNamesNone DEF LookingUp, r
    <3>2. ListAnswer(r, j.out, ev, al)
      BY <2>3, <3>1 DEF ListAnswer
    <3>3. QED
      BY <1>3, <2>3, <3>2 DEF r, j
  <2>4. CASE r.op = "stats" /\ job' = [job EXCEPT ![c].todo = CountedKinds] /\ Goto(c, "count")
    <3>1. k.req = r /\ k.todo = CountedKinds /\ k.out = j.out
      <4>1. Becomes(c, job[c].target, CountedKinds, job[c].sources, job[c].out)
        BY <1>1, <2>4, JobFields
      <4>2. QED
        BY <4>1 DEF Becomes, k, r, j
    <3>2. /\ j.out \in Seq(Nat) /\ Len(j.out) = 2
          /\ Bounded(j.out[1], Standing(al), Standing(ev))
          /\ Bounded(j.out[2], DocsPast(al, j.todo), DocsPast(ev, j.todo))
      BY <2>2, <2>4 DEF LookingUp, r
    <3>3. /\ DocsPast(al, j.todo) = AllDocs(al) /\ DocsPast(ev, j.todo) = AllDocs(ev)
      BY <2>1, EmptyNamesNone DEF DocsPast
    <3>4. CountedKinds \in Seq(Kinds) /\ Len(CountedKinds) = 4
      BY DEF CountedKinds, Kinds
    <3>5. \A i \in 1..4 : CountedKinds[i] = CountedKinds[2 - 2 + i]
      OBVIOUS
    <3>6. Counting(k, ev, al)
      BY <3>1, <3>2, <3>3, <3>4, <3>5 DEF Counting
    <3>7. QED
      BY <1>4, <2>4, <3>6 DEF ListKnows, k
  <2>5. QED
    BY <1>9, <2>3, <2>4 DEF FinishListing, CountedKinds, j, r
<1>10. CASE CountItems(c)
  <2>1. pc[c] = "count"
    BY <1>10 DEF CountItems
  <2>2. Counting(j, ev, al)
    BY <2>1 DEF ListKnows, j
  <2>3. /\ j.out \in Seq(Nat) /\ j.todo \in Seq(Kinds)
        /\ Len(j.out) \in 2..6 /\ Len(j.todo) = 6 - Len(j.out)
        /\ \A i \in 1..Len(j.todo) : j.todo[i] = CountedKinds[Len(j.out) - 2 + i]
        /\ Bounded(j.out[1], Standing(al), Standing(ev))
        /\ Bounded(j.out[2], AllDocs(al), AllDocs(ev))
        /\ \A i \in 1..Len(j.out) - 2 :
             Bounded(j.out[2 + i], StoredOf(al, CountedKinds[i]), StoredOf(ev, CountedKinds[i]))
    BY <2>2 DEF Counting
  <2>4. CASE j.todo = <<>> /\ Answer(c, 200, j.out)
    <3>1. Len(j.out) = 6
      BY <2>3, <2>4
    <3>2. ListAnswer(r, j.out, ev, al) \/ r.op # "stats"
      BY <2>3, <3>1 DEF ListAnswer
    <3>3. r.op = "stats"
      <4>1. r \in Request /\ pc[c] \in LabelsOf(r)
        BY <1>1 DEF ThreadsInv, IsJob, r, j
      <4>2. QED
        BY <1>1, <2>1, <4>1 DEF LabelsOf
    <3>4. QED
      BY <1>3, <2>4, <3>2, <3>3 DEF r, j
  <2>5. CASE /\ j.todo # <<>> /\ Goto(c, "count")
             /\ job' = [job EXCEPT ![c].todo = Tail(j.todo),
                                   ![c].out = Append(j.out, Cardinality(Listed(Head(j.todo))))]
    <3> DEFINE kind == Head(j.todo)
               todo == Tail(j.todo)
               count == Cardinality(Listed(kind))
               out == Append(j.out, count)
               len == Len(j.out)
    <3>1. k.req = r /\ k.todo = todo /\ k.out = out
      <4> HIDE DEF todo, out
      <4>1. Becomes(c, job[c].target, todo, job[c].sources, out)
        <5>1. job' = [job EXCEPT ![c].todo = todo, ![c].out = out]
          BY <2>5 DEF todo, out
        <5>2. QED
          BY <1>1, <5>1, JobFields
      <4>2. QED
        BY <4>1 DEF Becomes, k, r, j
    <3>2. /\ kind \in Kinds /\ kind = j.todo[1] /\ todo \in Seq(Kinds)
          /\ Len(j.todo) \in Nat \ {0} /\ Len(todo) = Len(j.todo) - 1
          /\ \A i \in 1..Len(j.todo) - 1 : todo[i] = j.todo[i + 1]
      BY <2>3, <2>5, HeadAndTail
    <3> HIDE DEF kind, todo
    <3>3. count \in Nat /\ Bounded(count, StoredOf(al, kind), StoredOf(ev, kind))
      <4>1. count = Cardinality(StoredOf(Facts, kind))
        BY <3>2, StoredNow
      <4>2. /\ StoredOf(al, kind) \subseteq StoredOf(Facts, kind)
            /\ StoredOf(Facts, kind) \subseteq StoredOf(ev, kind)
            /\ IsFiniteSet(StoredOf(Facts, kind)) /\ IsFiniteSet(StoredOf(ev, kind))
        BY <1>6, CountsGrow
      <4>3. QED
        BY <4>1, <4>2, SizesGrow DEF Bounded
    <3> HIDE DEF count
    <3>4. /\ out \in Seq(Nat) /\ Len(out) = len + 1 /\ out[len + 1] = count
          /\ \A i \in 1..len : out[i] = j.out[i]
      BY <2>3, <3>3
    <3>5. len \in 2..5 /\ kind = CountedKinds[len - 1]
      BY <2>3, <3>2
    <3> HIDE DEF out
    <3>6. ASSUME NEW i \in 1..Len(out) - 2
          PROVE  Bounded(out[2 + i], StoredOf(al, CountedKinds[i]), StoredOf(ev, CountedKinds[i]))
      <4>1. CASE i = len - 1
        BY <3>3, <3>4, <3>5, <4>1
      <4>2. CASE i # len - 1
        <5>1. i \in 1..len - 2 /\ 2 + i \in 1..len
          BY <3>4, <3>5, <4>2
        <5>2. QED
          BY <2>3, <3>4, <5>1
      <4>3. QED
        BY <4>1, <4>2
    <3>7. ASSUME NEW i \in 1..Len(todo) PROVE todo[i] = CountedKinds[Len(out) - 2 + i]
      <4>1. i \in 1..Len(j.todo) - 1 /\ i + 1 \in 1..Len(j.todo)
        BY <3>2
      <4>2. todo[i] = CountedKinds[len - 2 + (i + 1)]
        <5>1. todo[i] = j.todo[i + 1]
          BY <3>2, <4>1
        <5>2. j.todo[i + 1] = CountedKinds[len - 2 + (i + 1)]
          BY <2>3, <4>1
        <5>3. QED
          BY <5>1, <5>2
      <4>3. len - 2 + (i + 1) = Len(out) - 2 + i
        <5>1. i \in Int /\ len \in Int /\ Len(out) = len + 1
          BY <3>2, <3>4, <3>5, <4>1
        <5> HIDE DEF len
        <5>2. QED
          BY <5>1
      <4>4. QED
        BY <4>2, <4>3
    <3>8. /\ Len(out) \in 2..6 /\ Len(todo) = 6 - Len(out)
          /\ out[1] = j.out[1] /\ out[2] = j.out[2]
      <4>1. Len(j.todo) = 6 - len
        BY <2>3
      <4> HIDE DEF len
      <4>2. Len(out) \in 2..6 /\ Len(todo) = 6 - Len(out)
        BY <3>2, <3>4, <3>5, <4>1
      <4>3. 1 \in 1..len /\ 2 \in 1..len
        BY <3>5
      <4>4. QED
        BY <3>4, <4>2, <4>3
    <3>9. Counting(k, ev, al)
      BY <2>3, <3>1, <3>2, <3>4, <3>6, <3>7, <3>8 DEF Counting
    <3>10. QED
      BY <1>4, <2>5, <3>9 DEF ListKnows, k
  <2>6. QED
    BY <1>10, <2>4, <2>5 DEF CountItems, j
<1>11. QED
  BY <1>5, <1>7, <1>8, <1>9, <1>10 DEF k, r, j

\* The answers of the listings and the statistics.
ListsAnswered ==
    \A c \in Watched : reply # NoReply /\ reply.client = c =>
        ListAnswer(reply.req, reply.out, ever[c], always[c])

LEMMA FiniteHolds ==
    /\ HistoryInit => FiniteInv
    /\ BaseInv /\ FiniteInv /\ [HistoryNext]_historyVars => FiniteInv'
<1>1. HistoryInit => FiniteInv
  BY FS_EmptySet DEF HistoryInit, FiniteInv
<1>2. ASSUME BaseInv, FiniteInv, HistoryNext PROVE FiniteInv'
  <2>1. Follow
    BY <1>2, StepsAreOfOne
  <2>2. StoresInv'
    BY <1>2, BaseHolds DEF BaseInv
  <2>3. IsFiniteSet(Facts)'
    BY <2>2, FactsFinite, PTL
  <2>4. ASSUME NEW c \in Watched PROVE IsFiniteSet(ever'[c])
    <3>1. IsFiniteSet(ever[c])
      BY <1>2 DEF FiniteInv
    <3>2. IsFiniteSet(ever[c] \cup Facts') /\ IsFiniteSet(Facts') /\ IsFiniteSet({})
      BY <2>3, <3>1, FS_Union, FS_EmptySet
    <3>3. ever'[c] \in {ever[c] \cup Facts', Facts', {}}
      BY <2>1 DEF Follow
    <3>4. QED
      BY <3>2, <3>3
  <2>5. QED
    BY <2>4 DEF FiniteInv
<1>3. ASSUME FiniteInv, UNCHANGED historyVars PROVE FiniteInv'
  BY <1>3 DEF historyVars, FiniteInv
<1>4. QED
  BY <1>1, <1>2, <1>3

LEMMA ListHolds ==
    /\ HistoryInit => ListInv /\ ListsAnswered
    /\ BaseInv /\ FiniteInv /\ FiniteInv' /\ ListInv /\ HistoryNext => ListInv' /\ ListsAnswered'
<1>1. ASSUME HistoryInit PROVE ListInv /\ ListsAnswered
  BY <1>1, WatchedAssumption DEF HistoryInit, ResourceInit, ListInv, ListsAnswered
<1>2. ASSUME BaseInv, FiniteInv, FiniteInv', ListInv, HistoryNext, NEW c \in Watched
      PROVE  /\ pc'[c] # "idle" /\ job'[c].req.op \in {"listIndexes", "stats"} =>
                  ListKnows(pc'[c], job'[c], ever'[c], always'[c])
             /\ reply' # NoReply /\ reply'.client = c =>
                  ListAnswer(reply'.req, reply'.out, ever'[c], always'[c])
  <2>1. /\ pc[c] # "idle" => /\ ever[c] \subseteq ever'[c] /\ always'[c] \subseteq always[c]
                             /\ always[c] \subseteq Facts /\ Facts \subseteq ever[c]
    BY <1>2, StepsAreOfOne, FollowSteps DEF BaseInv
  <2>2. pc[c] # "idle" =>
          /\ \A label, j : ListKnows(label, j, ever[c], always[c]) =>
                             ListKnows(label, j, ever'[c], always'[c])
          /\ \A r, out : ListAnswer(r, out, ever[c], always[c]) =>
                           ListAnswer(r, out, ever'[c], always'[c])
    <3>1. SUFFICES ASSUME pc[c] # "idle"
                   PROVE  /\ \A label, j : ListKnows(label, j, ever[c], always[c]) =>
                                            ListKnows(label, j, ever'[c], always'[c])
                          /\ \A r, out : ListAnswer(r, out, ever[c], always[c]) =>
                                          ListAnswer(r, out, ever'[c], always'[c])
      OBVIOUS
    <3>2. /\ ever[c] \subseteq ever'[c] /\ always'[c] \subseteq always[c]
          /\ always[c] \subseteq ever[c]
      BY <2>1, <3>1
    <3>3. IsFiniteSet(ever'[c])
      BY <1>2 DEF FiniteInv
    <3>4. QED
      BY <3>2, <3>3, ListStays
  <2>3. CASE pc'[c] = pc[c] /\ job'[c] = job[c] /\ (reply' # NoReply => reply'.client # c)
    BY <1>2, <2>2, <2>3 DEF ListInv
  <2>4. CASE \E r \in Request : pc'[c] = EntryLabel(r) /\ job'[c] = FreshJob(r) /\ reply' = NoReply
    <3>1. PICK r \in Request : pc'[c] = EntryLabel(r) /\ job'[c] = FreshJob(r)
      BY <2>4
    <3>2. job'[c].req = r
      BY <3>1 DEF FreshJob
    <3>3. r.op \in {"listIndexes", "stats"} => pc'[c] = "list_names"
      BY <3>1 DEF EntryLabel
    <3>4. QED
      BY <2>4, <3>2, <3>3 DEF ListKnows
  <2>5. CASE /\ ServeStep(c) /\ pc[c] # "idle"
             /\ \/ pc'[c] = "idle" /\ reply'.req = job[c].req
                \/ pc'[c] # "idle" /\ reply' = NoReply /\ job'[c].req = job[c].req
    <3>1. CASE job[c].req.op \in {"listIndexes", "stats"}
      <4>1. ListKnows(pc[c], job[c], ever[c], always[c])
        BY <1>2, <2>5, <3>1 DEF ListInv
      <4>2. IsFiniteSet(ever[c])
        BY <1>2 DEF FiniteInv
      <4>3. \/ /\ pc'[c] # "idle"
               /\ ListKnows(pc'[c], job'[c], ever[c], always[c])
            \/ /\ pc'[c] = "idle"
               /\ ListAnswer(job[c].req, reply'.out, ever[c], always[c])
        BY <1>2, <2>1, <2>5, <3>1, <4>1, <4>2, ListSteps, WatchedAssumption DEF BaseInv
      <4>4. QED
        BY <2>2, <2>5, <4>3
    <3>2. CASE job[c].req.op \notin {"listIndexes", "stats"}
      BY <2>5, <3>2 DEF ListAnswer
    <3>3. QED
      BY <3>1, <3>2
  <2>6. QED
    BY <1>2, <2>3, <2>4, <2>5, WatchedSteps
<1>3. ASSUME BaseInv, FiniteInv, FiniteInv', ListInv, HistoryNext PROVE ListInv' /\ ListsAnswered'
  BY <1>2, <1>3 DEF ListInv, ListsAnswered
<1>4. QED
  BY <1>1, <1>3

\* A listing of indexes and the statistics, which visit the stores one lock at
\* a time, leave out nothing that was there all the time and show nothing that
\* never was (list_indexes, service_stats).
THEOREM ListingsAlwaysBounded == HistorySpec => []ListingsBounded
<1>1. ASSUME ListsAnswered PROVE ListingsBounded
  <2>1. ASSUME NEW c \in Watched, Answered(c, "listIndexes")
        PROVE  /\ Standing(always[c]) \subseteq reply.out[1]
               /\ reply.out[1] \subseteq Standing(ever[c])
    BY <1>1, <2>1 DEF ListsAnswered, ListAnswer, Answered
  <2>2. ASSUME NEW c \in Watched, Answered(c, "stats")
        PROVE  /\ Bounded(reply.out[1], Standing(always[c]), Standing(ever[c]))
               /\ Bounded(reply.out[2], AllDocs(always[c]), AllDocs(ever[c]))
               /\ \A i \in 1..4 : Bounded(reply.out[2 + i], StoredOf(always[c], CountedKinds[i]),
                                                            StoredOf(ever[c], CountedKinds[i]))
    BY <1>1, <2>2 DEF ListsAnswered, ListAnswer, Answered
  <2>3. QED
    BY <2>1, <2>2 DEF ListingsBounded, Bounded
<1>2. BaseInv /\ FiniteInv /\ ListInv /\ ListsAnswered /\ [HistoryNext]_historyVars
        => FiniteInv' /\ ListInv' /\ ListsAnswered'
  <2>1. ASSUME ListInv, ListsAnswered, UNCHANGED historyVars
        PROVE  ListInv' /\ ListsAnswered'
    BY <2>1 DEF historyVars, ListInv, ListsAnswered
  <2>2. QED
    BY <2>1, FiniteHolds, ListHolds
<1>3. QED
  BY <1>1, <1>2, BaseHolds, FiniteHolds, ListHolds, PTL DEF HistorySpec

=============================================================================
