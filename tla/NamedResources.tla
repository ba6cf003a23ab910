--------------------------- MODULE NamedResources ---------------------------
(***************************************************************************)
(* The service-level resources: synonym maps, aliases, knowledge sources   *)
(* and knowledge bases, each kind in a ResourceStore of its own, and the   *)
(* requests that read several stores one after the other: definition of an *)
(* index with synonym maps, synonym expansion, retrieval over a knowledge  *)
(* base, listings and statistics.                                          *)
(*                                                                         *)
(* Every action is one acquisition of one store's lock.  The indexes are   *)
(* those of storage, reduced to their documents and their synonym maps;    *)
(* what a write of theirs does to the other stores is in SearchService.    *)
(***************************************************************************)
EXTENDS Naturals, Sequences, FiniteSets, SequencesExt

CONSTANTS
    Clients,        \* concurrent request issuers
    Workload,       \* the requests each client may send
    Names,          \* names of resources and indexes
    Words,          \* query words and synonym terms
    BootIndexes,    \* the indexes that exist when the run begins
    BootItems,      \* the resources that exist when the run begins
    MaxRequests,    \* how many requests each client sends
    NoItem, NoIndex, NoName, NoSource, NoJob, NoReply

Kinds == {"synonymMap", "alias", "knowledgeSource", "knowledgeBase"}

\* A rule of a synonym map; `a, b` has the same terms on both sides.
Rule == [inputs : SUBSET Words, outputs : SUBSET Words]

\* The parts of a resource's body that the service reads.  A source of another
\* kind than searchIndex is stored without being looked at.
SynonymBody == [rules : SUBSET Rule]
AliasBody   == [indexes : Seq(Names)]
SourceBody  == [kind : {"searchIndex", "other"}, index : Names \cup {NoName}]
BaseBody    == [entries : Seq([name : Names, inline : SourceBody \cup {NoSource}])]

ValidSynonymMap(body) ==
    body.rules # {} /\ \A rule \in body.rules : rule.inputs # {} /\ rule.outputs # {}
ValidAlias(body)           == body.indexes # <<>>
ValidKnowledgeSource(body) == body.kind = "searchIndex" => body.index # NoName
ValidKnowledgeBase(body)   == body.entries # <<>>

ValidBody(kind, body) ==
    CASE kind = "synonymMap"      -> ValidSynonymMap(body)
      [] kind = "alias"           -> ValidAlias(body)
      [] kind = "knowledgeSource" -> ValidKnowledgeSource(body)
      [] kind = "knowledgeBase"   -> ValidKnowledgeBase(body)

\* The parts of an index that matter here: its documents, the maps it names.
IndexRecord == [docs : SUBSET Nat, maps : Seq(Names)]

BodyOf(kind) ==
    CASE kind = "synonymMap"      -> SynonymBody
      [] kind = "alias"           -> AliasBody
      [] kind = "knowledgeSource" -> SourceBody
      [] kind = "knowledgeBase"   -> BaseBody

\* What a client may ask for.
SaveRequest(kind) == [op : {"create", "put"}, kind : {kind}, name : Names, body : BodyOf(kind)]
Request ==
    SaveRequest("synonymMap") \cup SaveRequest("alias") \cup SaveRequest("knowledgeSource")
      \cup SaveRequest("knowledgeBase")
      \cup [op : {"delete", "get"}, kind : Kinds, name : Names]
      \cup [op : {"list"}, kind : Kinds]
      \cup [op : {"createIndex"}, name : Names, maps : Seq(Names)]
      \cup [op : {"deleteIndex"}, name : Names]
      \cup [op : {"upload"}, name : Names, doc : Nat]
      \cup [op : {"search"}, name : Names, words : Seq(Words)]
      \cup [op : {"retrieve"}, name : Names, top : Nat]
      \cup [op : {"listIndexes", "stats", "reset"}]

\* What stands for no source is not a source.
ASSUME SourceAssumption == NoSource \notin SourceBody
ASSUME NamesAssumption == IsFiniteSet(Names)
ASSUME WorkloadAssumption == \A c \in Clients : \A r \in Workload[c] : r \in Request

\* The resources loaded at start-up were checked like any other and were given
\* etags by the same counters.
ASSUME BootItemsAssumption ==
    /\ DOMAIN BootItems = Kinds
    /\ \A kind \in Kinds :
        /\ DOMAIN BootItems[kind] = Names
        /\ \A n \in Names : BootItems[kind][n] # NoItem =>
             /\ BootItems[kind][n].body \in BodyOf(kind)
             /\ ValidBody(kind, BootItems[kind][n].body)
             /\ BootItems[kind][n].etag \in
                  1..Cardinality({m \in Names : BootItems[kind][m] # NoItem})
ASSUME BootIndexesAssumption ==
    /\ DOMAIN BootIndexes = Names
    /\ \A n \in Names : BootIndexes[n] # NoIndex =>
         BootIndexes[n] \in IndexRecord /\ IsFiniteSet(BootIndexes[n].docs)

VARIABLES
    items,      \* items[kind][name], a resource [body, etag] or NoItem
    etags,      \* the etag counter of each kind's store
    indexes,    \* indexes[name], an index [docs, maps] or NoIndex
    pc, job,    \* the requests in flight
    left,       \* the requests each client may still send
    reply       \* the answer the last step sent, if it sent one

resourceStores == <<items, etags, indexes>>
resourceVars == <<items, etags, indexes, pc, job, left, reply>>

-----------------------------------------------------------------------------
(* ResourceStore *)

\* Mutant of InsertItem: replacing a resource keeps its etag.
InsertKeepsEtag(kind, n, body) ==
    /\ items' = [items EXCEPT ![kind][n] =
                    [body |-> body, etag |-> IF items[kind][n] = NoItem
                                             THEN etags[kind] + 1 ELSE items[kind][n].etag]]
    /\ etags' = [etags EXCEPT ![kind] = @ + 1]

\* insert draws the next etag while it holds the write lock.
InsertItem(kind, n, body) ==
    /\ items' = [items EXCEPT ![kind][n] = [body |-> body, etag |-> etags[kind] + 1]]
    /\ etags' = [etags EXCEPT ![kind] = @ + 1]

\* delete
RemoveItem(kind, n) == items' = [items EXCEPT ![kind][n] = NoItem] /\ UNCHANGED etags

\* clear leaves the counter alone.
ClearItems(kind) ==
    /\ items' = [items EXCEPT ![kind] = [n \in Names |-> NoItem]]
    /\ UNCHANGED etags

\* list: the names of a kind.
Listed(kind) == {n \in Names : items[kind][n] # NoItem}

\* resolve_index_name: the first index of the alias of that name, or the name.
ResolveName(n) ==
    IF items["alias"][n] = NoItem THEN n ELSE Head(items["alias"][n].body.indexes)

-----------------------------------------------------------------------------
(* Requests *)

\* The first store operation of each kind of request.
EntryLabel(r) ==
    CASE r.op \in {"create", "put"} ->
            IF ~ValidBody(r.kind, r.body) THEN "reject"
            ELSE IF r.kind = "alias" THEN "check_index" ELSE "store"
      [] r.op = "delete"                       -> "delete"
      [] r.op = "get"                          -> "get"
      [] r.op = "list"                         -> "list"
      [] r.op = "createIndex"                  -> "check_alias"
      [] r.op \in {"deleteIndex", "search"}    -> "resolve"
      [] r.op = "upload"                       -> "upload"
      [] r.op \in {"listIndexes", "stats"}     -> "list_names"
      [] r.op = "retrieve"                     -> "get_base"
      [] r.op = "reset"                        -> "reset_indexes"

\* What the serving thread holds: the request, the index it works on, what it
\* has still to visit, the (source, index) pairs it will search, and what it
\* has collected for the answer.
FreshJob(r) ==
    [req |-> r, target |-> NoName, todo |-> <<>>, sources |-> <<>>, out |-> <<>>]

Goto(c, label) == pc' = [pc EXCEPT ![c] = label] /\ reply' = NoReply

Answer(c, status, out) ==
    /\ reply' = [client |-> c, req |-> job[c].req, status |-> status, out |-> out]
    /\ pc' = [pc EXCEPT ![c] = "idle"]
    /\ job' = [job EXCEPT ![c] = NoJob]

Start(c) ==
    /\ pc[c] = "idle"
    /\ left[c] > 0
    /\ left' = [left EXCEPT ![c] = @ - 1]
    /\ \E r \in Workload[c] :
         /\ job' = [job EXCEPT ![c] = FreshJob(r)]
         /\ pc' = [pc EXCEPT ![c] = EntryLabel(r)]
    /\ reply' = NoReply
    /\ UNCHANGED resourceStores

\* A body that is not valid is refused before any store is read.
Reject(c) ==
    /\ pc[c] = "reject"
    /\ Answer(c, 400, <<>>)
    /\ UNCHANGED resourceStores

-----------------------------------------------------------------------------
(* Writing and reading one resource *)

\* reject_alias_index_collision
CheckIndexName(c) ==
    /\ pc[c] = "check_index"
    /\ \/ indexes[job[c].req.name] # NoIndex /\ Answer(c, 409, <<>>)
       \/ indexes[job[c].req.name] = NoIndex /\ Goto(c, "store") /\ UNCHANGED job
    /\ UNCHANGED resourceStores

\* ResourceStore::create and create_or_update; the answer carries the etag.
StoreItem(c) ==
    LET r == job[c].req
    IN  /\ pc[c] = "store"
        /\ \/ /\ r.op = "create" /\ items[r.kind][r.name] # NoItem
              /\ Answer(c, 409, <<>>)
              /\ UNCHANGED <<items, etags>>
           \/ /\ r.op = "put" \/ items[r.kind][r.name] = NoItem
              /\ InsertItem(r.kind, r.name, r.body)
              /\ Answer(c, 201, <<etags[r.kind] + 1>>)
        /\ UNCHANGED indexes

DeleteItem(c) ==
    LET r == job[c].req
    IN  /\ pc[c] = "delete"
        /\ \/ /\ items[r.kind][r.name] = NoItem
              /\ Answer(c, 404, <<>>)
              /\ UNCHANGED <<items, etags>>
           \/ /\ items[r.kind][r.name] # NoItem
              /\ RemoveItem(r.kind, r.name)
              /\ Answer(c, 204, <<>>)
        /\ UNCHANGED indexes

GetItem(c) ==
    LET r == job[c].req
    IN  /\ pc[c] = "get"
        /\ \/ items[r.kind][r.name] = NoItem /\ Answer(c, 404, <<>>)
           \/ items[r.kind][r.name] # NoItem /\ Answer(c, 200, <<items[r.kind][r.name]>>)
        /\ UNCHANGED resourceStores

ListItems(c) ==
    /\ pc[c] = "list"
    /\ Answer(c, 200, <<Listed(job[c].req.kind)>>)
    /\ UNCHANGED resourceStores

ResourceStep(c) ==
    Reject(c) \/ CheckIndexName(c) \/ StoreItem(c) \/ DeleteItem(c) \/ GetItem(c) \/ ListItems(c)

-----------------------------------------------------------------------------
(* Indexes and the synonym maps they refer to *)

CheckAliasName(c) ==
    /\ pc[c] = "check_alias"
    /\ \/ items["alias"][job[c].req.name] # NoItem /\ Answer(c, 409, <<>>)
       \/ /\ items["alias"][job[c].req.name] = NoItem
          /\ job' = [job EXCEPT ![c].todo = job[c].req.maps]
          /\ Goto(c, "check_map")
    /\ UNCHANGED resourceStores

\* Mutant of CheckMap: only the first map is looked up.
CheckFirstMap(c) ==
    /\ pc[c] = "check_map"
    /\ job[c].todo # <<>>
    /\ \/ items["synonymMap"][Head(job[c].todo)] = NoItem /\ Answer(c, 400, <<>>)
       \/ /\ items["synonymMap"][Head(job[c].todo)] # NoItem
          /\ job' = [job EXCEPT ![c].todo = <<>>]
          /\ Goto(c, "check_map")
    /\ UNCHANGED resourceStores

\* validate_synonym_maps looks the maps up one at a time.
CheckMap(c) ==
    /\ pc[c] = "check_map"
    /\ job[c].todo # <<>>
    /\ \/ items["synonymMap"][Head(job[c].todo)] = NoItem /\ Answer(c, 400, <<>>)
       \/ /\ items["synonymMap"][Head(job[c].todo)] # NoItem
          /\ job' = [job EXCEPT ![c].todo = Tail(@)]
          /\ Goto(c, "check_map")
    /\ UNCHANGED resourceStores

CreateIndex(c) ==
    LET r == job[c].req
    IN  /\ pc[c] = "check_map"
        /\ job[c].todo = <<>>
        /\ \/ indexes[r.name] # NoIndex /\ Answer(c, 409, <<>>) /\ UNCHANGED indexes
           \/ /\ indexes[r.name] = NoIndex
              /\ indexes' = [indexes EXCEPT ![r.name] = [docs |-> {}, maps |-> r.maps]]
              /\ Answer(c, 201, <<>>)
        /\ UNCHANGED <<items, etags>>

\* resolve_index_name, before an index is deleted or searched.
ResolveIndex(c) ==
    /\ pc[c] = "resolve"
    /\ job' = [job EXCEPT ![c].target = ResolveName(job[c].req.name)]
    /\ Goto(c, IF job[c].req.op = "search" THEN "require" ELSE "delete_index")
    /\ UNCHANGED resourceStores

DeleteIndex(c) ==
    /\ pc[c] = "delete_index"
    /\ \/ indexes[job[c].target] = NoIndex /\ Answer(c, 404, <<>>) /\ UNCHANGED indexes
       \/ /\ indexes[job[c].target] # NoIndex
          /\ indexes' = [indexes EXCEPT ![job[c].target] = NoIndex]
          /\ Answer(c, 204, <<>>)
    /\ UNCHANGED <<items, etags>>

\* The effect of a whole batch on storage, one document here.
UploadDocument(c) ==
    LET r == job[c].req
    IN  /\ pc[c] = "upload"
        /\ \/ indexes[r.name] = NoIndex /\ Answer(c, 404, <<>>) /\ UNCHANGED indexes
           \/ /\ indexes[r.name] # NoIndex
              /\ indexes' = [indexes EXCEPT ![r.name].docs = @ \cup {r.doc}]
              /\ Answer(c, 200, <<>>)
        /\ UNCHANGED <<items, etags>>

\* A search clones the definition and with it the names of the index's maps;
\* it looks each map up again for each word.  todo holds, for each word to come,
\* the maps it is still to be looked up in.
RequireMaps(c) ==
    LET r == job[c].req
        index == indexes[job[c].target]
    IN  /\ pc[c] = "require"
        /\ \/ index = NoIndex /\ Answer(c, 404, <<>>)
           \/ /\ index # NoIndex
              /\ job' = [job EXCEPT
                   ![c].todo = IF index.maps = <<>> THEN <<>>
                               ELSE [i \in DOMAIN r.words |-> <<r.words[i], index.maps>>],
                   ![c].out  = <<[w \in Words |-> {}]>>]
              /\ Goto(c, "expand")
        /\ UNCHANGED resourceStores

\* Mutant of RuleOutputs: a mapping `a => b` also rewrites b.
RuleOutputsBothWays(body, word) ==
    UNION {rule.outputs : rule \in {rule \in body.rules : word \in rule.inputs \cup rule.outputs}}

\* The outputs of the rules of one map that a word matches.
RuleOutputs(body, word) ==
    UNION {rule.outputs : rule \in {rule \in body.rules : word \in rule.inputs}}

\* synonym_expansions: a map that is gone by now contributes nothing.
ExpandWord(c) ==
    LET word == Head(job[c].todo)[1]
        maps == Head(job[c].todo)[2]
        map  == items["synonymMap"][Head(maps)]
    IN  /\ pc[c] = "expand"
        /\ job[c].todo # <<>>
        /\ job' = [job EXCEPT
             ![c].todo = IF Len(maps) = 1 THEN Tail(@) ELSE [@ EXCEPT ![1][2] = Tail(maps)],
             ![c].out[1][word] = @ \cup (IF map = NoItem THEN {}
                                         ELSE RuleOutputs(map.body, word) \ {word})]
        /\ Goto(c, "expand")
        /\ UNCHANGED resourceStores

\* The answer stands for the expansions the query is built from.
FinishSearch(c) ==
    /\ pc[c] = "expand"
    /\ job[c].todo = <<>>
    /\ Answer(c, 200, job[c].out)
    /\ UNCHANGED resourceStores

IndexStep(c) ==
    \/ CheckAliasName(c) \/ CheckMap(c) \/ CreateIndex(c)
    \/ ResolveIndex(c) \/ DeleteIndex(c) \/ UploadDocument(c)
    \/ RequireMaps(c) \/ ExpandWord(c) \/ FinishSearch(c)

-----------------------------------------------------------------------------
(* retrieve_knowledge_base *)

GetBase(c) ==
    LET base == items["knowledgeBase"][job[c].req.name]
    IN  /\ pc[c] = "get_base"
        /\ \/ base = NoItem /\ Answer(c, 404, <<>>)
           \/ /\ base # NoItem
              /\ job' = [job EXCEPT ![c].todo = base.body.entries]
              /\ Goto(c, "get_source")
        /\ UNCHANGED resourceStores

\* Only searchIndex sources that name an index are searched.
Searchable(source) ==
    source # NoSource /\ source.kind = "searchIndex" /\ source.index # NoName

\* An inline source carries its own definition, another names a stored one.
SourceOf(entry) ==
    LET stored == items["knowledgeSource"][entry.name]
    IN  IF entry.inline # NoSource THEN entry.inline
        ELSE IF stored # NoItem THEN stored.body ELSE NoSource

\* Mutant of GetSource: a source that is not stored refuses the retrieval.
GetSourceRefuses(c) ==
    LET entry  == Head(job[c].todo)
        source == SourceOf(entry)
    IN  /\ pc[c] = "get_source"
        /\ job[c].todo # <<>>
        /\ \/ source = NoSource /\ Answer(c, 404, <<>>)
           \/ /\ Searchable(source)
              /\ job' = [job EXCEPT ![c].sources = Append(@, <<entry.name, source.index>>)]
              /\ Goto(c, "resolve_source")
           \/ /\ source # NoSource /\ ~Searchable(source)
              /\ job' = [job EXCEPT ![c].todo = Tail(@)]
              /\ Goto(c, "get_source")
        /\ UNCHANGED resourceStores

\* What is not searchable, a name nothing is stored under included, is skipped.
GetSource(c) ==
    LET entry  == Head(job[c].todo)
        source == SourceOf(entry)
    IN  /\ pc[c] = "get_source"
        /\ job[c].todo # <<>>
        /\ \/ /\ Searchable(source)
              /\ job' = [job EXCEPT ![c].sources = Append(@, <<entry.name, source.index>>)]
              /\ Goto(c, "resolve_source")
           \/ /\ ~Searchable(source)
              /\ job' = [job EXCEPT ![c].todo = Tail(@)]
              /\ Goto(c, "get_source")
        /\ UNCHANGED resourceStores

ResolveSource(c) ==
    /\ pc[c] = "resolve_source"
    /\ job' = [job EXCEPT ![c].target = ResolveName(Last(job[c].sources)[2])]
    /\ Goto(c, "check_source")
    /\ UNCHANGED resourceStores

\* Mutant of CheckSource: the sources before a missing one are answered.
CheckSourceStops(c) ==
    /\ pc[c] = "check_source"
    /\ job' = [job EXCEPT ![c].todo = IF indexes[job[c].target] = NoIndex THEN <<>> ELSE Tail(@),
                           ![c].sources = IF indexes[job[c].target] = NoIndex THEN Front(@) ELSE @]
    /\ Goto(c, "get_source")
    /\ UNCHANGED resourceStores

\* A source without its index fails the whole retrieval.
CheckSource(c) ==
    /\ pc[c] = "check_source"
    /\ \/ indexes[job[c].target] = NoIndex /\ Answer(c, 404, <<>>)
       \/ /\ indexes[job[c].target] # NoIndex
          /\ job' = [job EXCEPT ![c].todo = Tail(@)]
          /\ Goto(c, "get_source")
    /\ UNCHANGED resourceStores

\* Every source is checked: they are searched in turn, and the alias and the
\* index are looked up again by parse_search and by search.
SourcesChecked(c) == pc[c] = "get_source" /\ job[c].todo = <<>>

NextSource(c) ==
    /\ SourcesChecked(c) \/ pc[c] = "next_source"
    /\ \/ /\ job[c].sources = <<>>
          /\ Answer(c, 200, job[c].out)
       \/ /\ job[c].sources # <<>>
          /\ job' = [job EXCEPT ![c].target = ResolveName(Head(job[c].sources)[2])]
          /\ Goto(c, "parse_source")
    /\ UNCHANGED resourceStores

ParseSource(c) ==
    /\ pc[c] = "parse_source"
    /\ \/ indexes[job[c].target] = NoIndex /\ Answer(c, 404, <<>>)
       \/ indexes[job[c].target] # NoIndex /\ Goto(c, "research_source") /\ UNCHANGED job
    /\ UNCHANGED resourceStores

ResolveAgain(c) ==
    /\ pc[c] = "research_source"
    /\ job' = [job EXCEPT ![c].target = ResolveName(Head(job[c].sources)[2])]
    /\ Goto(c, "search_source")
    /\ UNCHANGED resourceStores

\* The first `top` documents; with a match-all text, in the order of their keys.
InKeyOrder(docs) ==
    CHOOSE s \in [1..Cardinality(docs) -> docs] : \A i, j \in DOMAIN s : i < j => s[i] < s[j]

TopDocuments(docs, top) ==
    SubSeq(InKeyOrder(docs), 1, IF top < Cardinality(docs) THEN top ELSE Cardinality(docs))

\* The documents of one source, each tagged with the source's name.  What the
\* search of one index does between its locks is in DocumentReads.
SearchSource(c) ==
    LET source == Head(job[c].sources)
        hits   == TopDocuments(indexes[job[c].target].docs, job[c].req.top)
    IN  /\ pc[c] = "search_source"
        /\ \/ indexes[job[c].target] = NoIndex /\ Answer(c, 404, <<>>)
           \/ /\ indexes[job[c].target] # NoIndex
              /\ job' = [job EXCEPT
                   ![c].sources = Tail(@),
                   ![c].out = @ \o [i \in DOMAIN hits |-> <<source[1], hits[i]>>]]
              /\ Goto(c, "next_source")
        /\ UNCHANGED resourceStores

RetrieveStep(c) ==
    \/ GetBase(c) \/ GetSource(c) \/ ResolveSource(c) \/ CheckSource(c)
    \/ NextSource(c) \/ ParseSource(c) \/ ResolveAgain(c) \/ SearchSource(c)

-----------------------------------------------------------------------------
(* Listings, statistics and reset *)

\* list_indexes and service_stats read the names first; an index is looked up
\* later, by its name.
ListNames(c) ==
    LET names == {n \in Names : indexes[n] # NoIndex}
    IN  /\ pc[c] = "list_names"
        /\ job' = [job EXCEPT ![c].todo = SetToSeq(names),
                               ![c].out  = IF job[c].req.op = "stats"
                                           THEN <<Cardinality(names), 0>> ELSE <<{}>>]
        /\ Goto(c, "look_up")
        /\ UNCHANGED resourceStores

\* Mutant of LookUpIndex: the walk ends at an index that is gone.
LookUpStops(c) ==
    LET n == Head(job[c].todo)
    IN  /\ pc[c] = "look_up"
        /\ job[c].todo # <<>>
        /\ job' = [job EXCEPT
             ![c].todo = IF indexes[n] = NoIndex THEN <<>> ELSE Tail(@),
             ![c].out  = IF indexes[n] = NoIndex THEN @
                         ELSE IF job[c].req.op = "stats"
                         THEN <<@[1], @[2] + Cardinality(indexes[n].docs)>>
                         ELSE <<@[1] \cup {n}>>]
        /\ Goto(c, "look_up")
        /\ UNCHANGED resourceStores

\* An index that is gone is left out of a listing and counts no documents.
LookUpIndex(c) ==
    LET n == Head(job[c].todo)
    IN  /\ pc[c] = "look_up"
        /\ job[c].todo # <<>>
        /\ job' = [job EXCEPT
             ![c].todo = Tail(@),
             ![c].out  = IF indexes[n] = NoIndex THEN @
                         ELSE IF job[c].req.op = "stats"
                         THEN <<@[1], @[2] + Cardinality(indexes[n].docs)>>
                         ELSE <<@[1] \cup {n}>>]
        /\ Goto(c, "look_up")
        /\ UNCHANGED resourceStores

FinishListing(c) ==
    /\ pc[c] = "look_up"
    /\ job[c].todo = <<>>
    /\ \/ job[c].req.op = "listIndexes" /\ Answer(c, 200, job[c].out)
       \/ /\ job[c].req.op = "stats"
          /\ job' = [job EXCEPT ![c].todo = <<"synonymMap", "alias", "knowledgeBase",
                                              "knowledgeSource">>]
          /\ Goto(c, "count")
    /\ UNCHANGED resourceStores

CountItems(c) ==
    /\ pc[c] = "count"
    /\ \/ job[c].todo = <<>> /\ Answer(c, 200, job[c].out)
       \/ /\ job[c].todo # <<>>
          /\ job' = [job EXCEPT ![c].todo = Tail(@),
                                 ![c].out  = Append(@, Cardinality(Listed(Head(job[c].todo))))]
          /\ Goto(c, "count")
    /\ UNCHANGED resourceStores

\* reset clears storage and then one resource store after the other.
ResetIndexes(c) ==
    /\ pc[c] = "reset_indexes"
    /\ indexes' = [n \in Names |-> NoIndex]
    /\ job' = [job EXCEPT ![c].todo = <<"synonymMap", "alias", "knowledgeSource",
                                        "knowledgeBase">>]
    /\ Goto(c, "reset_items")
    /\ UNCHANGED <<items, etags>>

ResetItems(c) ==
    /\ pc[c] = "reset_items"
    /\ ClearItems(Head(job[c].todo))
    /\ \/ Len(job[c].todo) = 1 /\ Answer(c, 204, <<>>)
       \/ /\ Len(job[c].todo) > 1
          /\ job' = [job EXCEPT ![c].todo = Tail(@)]
          /\ Goto(c, "reset_items")
    /\ UNCHANGED indexes

ServiceWideStep(c) ==
    ListNames(c) \/ LookUpIndex(c) \/ FinishListing(c) \/ CountItems(c)
      \/ ResetIndexes(c) \/ ResetItems(c)

-----------------------------------------------------------------------------

\* The run begins with the boot indexes, and with the boot resources stored
\* under etags the counters have already issued.
ResourceInit ==
    /\ items = BootItems
    /\ etags = [kind \in Kinds |-> Cardinality(Listed(kind))]
    /\ indexes = BootIndexes
    /\ pc = [c \in Clients |-> "idle"]
    /\ job = [c \in Clients |-> NoJob]
    /\ left = MaxRequests
    /\ reply = NoReply

ServeStep(c) == ResourceStep(c) \/ IndexStep(c) \/ RetrieveStep(c) \/ ServiceWideStep(c)

ResourceNext == \E c \in Clients : Start(c) \/ (ServeStep(c) /\ UNCHANGED left)

ResourceSpec == ResourceInit /\ [][ResourceNext]_resourceVars

=============================================================================
