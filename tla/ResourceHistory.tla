--------------------------- MODULE ResourceHistory ---------------------------
(***************************************************************************)
(* What the multi-step requests of NamedResources promise, said with three *)
(* history variables: the facts that held at some moment of a request in   *)
(* flight, those that held at every such moment, and the etags each        *)
(* resource store has handed out.                                          *)
(***************************************************************************)
EXTENDS NamedResources

CONSTANT Watched    \* the clients whose requests are followed

ASSUME WatchedAssumption == Watched \subseteq Clients

VARIABLES
    ever,       \* ever[c]: what was true at some moment of c's request
    always,     \* always[c]: what was true at all of them
    issued      \* issued[kind]: every etag a resource of the kind has had

historyVars == <<items, etags, indexes, pc, job, left, reply, ever, always, issued>>

\* What can be true of the stores: an index exists, its definition refers to
\* the maps, it holds a document; a resource exists, with this body and etag.
StandingIndexes == {n \in Names : indexes[n] # NoIndex}
StoredItems     == {at \in Kinds \X Names : items[at[1]][at[2]] # NoItem}

IndexFacts  == {<<"index", n>> : n \in StandingIndexes}
MapsFacts   == {<<"maps", n, indexes[n].maps>> : n \in StandingIndexes}
DocFacts    == UNION {{<<"doc", n, d>> : d \in indexes[n].docs} : n \in StandingIndexes}
StoredFacts == {<<"stored", at[1], at[2]>> : at \in StoredItems}
ItemFacts   == {<<"item", at[1], at[2], items[at[1]][at[2]]>> : at \in StoredItems}

Facts == IndexFacts \cup MapsFacts \cup DocFacts \cup StoredFacts \cup ItemFacts

\* The etags of the resources in a store.
EtagsOf(store) == {store[n].etag : n \in {n \in Names : store[n] # NoItem}}

HistoryInit ==
    /\ ResourceInit
    /\ ever = [c \in Watched |-> {}]
    /\ always = [c \in Watched |-> {}]
    /\ issued = [kind \in Kinds |-> EtagsOf(items[kind])]

\* A request is followed from its first step to the one that answers it.
Follow ==
    /\ ever' = [c \in Watched |->
         CASE pc[c] # "idle"                      -> ever[c] \cup Facts'
           [] pc[c] = "idle" /\ pc'[c] # "idle" -> Facts'
           [] OTHER                              -> {}]
    /\ always' = [c \in Watched |->
         CASE pc[c] # "idle"                      -> always[c] \cap Facts'
           [] pc[c] = "idle" /\ pc'[c] # "idle" -> Facts'
           [] OTHER                              -> {}]
    /\ issued' = [kind \in Kinds |-> issued[kind] \cup EtagsOf(items'[kind])]

Serve(Step(_), c) == Step(c) /\ Follow /\ UNCHANGED left

HistoryNext ==
    \E c \in Clients :
        \/ Start(c) /\ Follow
        \/ Serve(Reject, c)        \/ Serve(CheckIndexName, c) \/ Serve(StoreItem, c)
        \/ Serve(DeleteItem, c)    \/ Serve(GetItem, c)        \/ Serve(ListItems, c)
        \/ Serve(CheckAliasName, c) \/ Serve(CheckMap, c)      \/ Serve(CreateIndex, c)
        \/ Serve(ResolveIndex, c)  \/ Serve(DeleteIndex, c)    \/ Serve(UploadDocument, c)
        \/ Serve(RequireMaps, c)   \/ Serve(ExpandWord, c)     \/ Serve(FinishSearch, c)
        \/ Serve(GetBase, c)       \/ Serve(GetSource, c)      \/ Serve(ResolveSource, c)
        \/ Serve(CheckSource, c)   \/ Serve(NextSource, c)     \/ Serve(ParseSource, c)
        \/ Serve(ResolveAgain, c)  \/ Serve(SearchSource, c)
        \/ Serve(ListNames, c)     \/ Serve(LookUpIndex, c)    \/ Serve(FinishListing, c)
        \/ Serve(CountItems, c)    \/ Serve(ResetIndexes, c)   \/ Serve(ResetItems, c)

HistorySpec ==
    HistoryInit /\ [][HistoryNext]_historyVars

-----------------------------------------------------------------------------
(* What the answers are judged by *)

Answered(c, op) == reply # NoReply /\ reply.client = c /\ reply.req.op = op

\* What these operators take from `ever` an answer may rest on; what they take
\* from `always` it must not miss.
Bodies(facts, kind, n) == {f[4].body : f \in {f \in facts : f[1] = "item" /\ f[2] = kind /\ f[3] = n}}
Docs(facts, n)         == {f[3] : f \in {f \in facts : f[1] = "doc" /\ f[2] = n}}
MapsOf(facts, n)       == {f[3] : f \in {f \in facts : f[1] = "maps" /\ f[2] = n}}

\* The indexes a name led to, given whether it may have been no alias.
Targets(facts, n, plain) ==
    {body.indexes[1] : body \in Bodies(facts, "alias", n)} \cup (IF plain THEN {n} ELSE {})

EverTargets(c, n)   == Targets(ever[c], n, <<"stored", "alias", n>> \notin always[c])
AlwaysTargets(c, n) == Targets(always[c], n, <<"stored", "alias", n>> \notin ever[c])

\* The searchable definitions of an entry of a knowledge base.
Sources(facts, entry) ==
    {s \in (IF entry.inline # NoSource THEN {entry.inline}
            ELSE Bodies(facts, "knowledgeSource", entry.name)) :
        s.kind = "searchIndex" /\ s.index # NoName}

\* What a word is rewritten to by the maps of these indexes.
Rewrites(facts, targets, word) ==
    {v \in Words \ {word} : \E n \in targets : \E maps \in MapsOf(facts, n) :
       \E m \in ToSet(maps) : \E body \in Bodies(facts, "synonymMap", m) :
       \E rule \in body.rules : word \in rule.inputs /\ v \in rule.outputs}

\* The indexes that exist, all documents, the resources of a kind.
Standing(facts)      == {f[2] : f \in {f \in facts : f[1] = "index"}}
AllDocs(facts)       == {f \in facts : f[1] = "doc"}
StoredOf(facts, kind) == {f \in facts : f[1] = "stored" /\ f[2] = kind}

\* The order in which the statistics count the resources.
CountedKinds == <<"synonymMap", "alias", "knowledgeBase", "knowledgeSource">>

-----------------------------------------------------------------------------

\* An etag names one content: a resource that is created or replaced gets an
\* etag its store never gave before, to any name, not even before a deletion
\* or a reset (ResourceStore::insert, "Replacing issues a new etag"; clear).
EtagsNeverReused ==
    [][\A kind \in Kinds : \A n \in Names :
          (items'[kind][n] # items[kind][n] /\ items'[kind][n] # NoItem) =>
              \A e \in issued[kind] : items'[kind][n].etag > e]_items

\* A listing of indexes and the statistics visit the stores one lock at a time
\* and may show no state the service was ever in; still they leave out nothing
\* that was there all the time and show nothing that never was (list_indexes,
\* service_stats).
ListingsBounded ==
    \A c \in Watched :
      LET Within(count, least, most) == Cardinality(least) <= count /\ count <= Cardinality(most)
      IN  /\ Answered(c, "listIndexes") =>
               /\ Standing(always[c]) \subseteq reply.out[1]
               /\ reply.out[1] \subseteq Standing(ever[c])
          /\ Answered(c, "stats") =>
               /\ Within(reply.out[1], Standing(always[c]), Standing(ever[c]))
               /\ Within(reply.out[2], AllDocs(always[c]), AllDocs(ever[c]))
               /\ \A i \in 1..4 : Within(reply.out[2 + i], StoredOf(always[c], CountedKinds[i]),
                                                           StoredOf(ever[c], CountedKinds[i]))

\* A retrieval that answers 200 checked its sources first and searched them
\* later, through aliases that may move and indexes that may be replaced in
\* between: for the base as it was at some moment, every document it answers is
\* one an index of that source held, a source whose index stood still
\* contributes its first documents, and no source was without its index
\* throughout (retrieve_knowledge_base, "A missing source index fails the whole
\* call").
RetrievalComplete ==
    \A c \in Watched : (Answered(c, "retrieve") /\ reply.status = 200) =>
      LET r == reply.req
          out == reply.out
      IN  \E base \in Bodies(ever[c], "knowledgeBase", r.name) :
            /\ \A i \in DOMAIN out : \E entry \in ToSet(base.entries) :
                 /\ entry.name = out[i][1]
                 /\ \E s \in Sources(ever[c], entry) : \E n \in EverTargets(c, s.index) :
                      out[i][2] \in Docs(ever[c], n)
            /\ \A entry \in ToSet(base.entries) : \A s \in Sources(always[c], entry) :
                 \A n \in AlwaysTargets(c, s.index) :
                   /\ <<"index", n>> \in ever[c]
                   /\ Docs(ever[c], n) = Docs(always[c], n) =>
                        \A d \in Docs(always[c], n) :
                          Cardinality({e \in Docs(always[c], n) : e < d}) < r.top =>
                            <<entry.name, d>> \in ToSet(out)

\* A retrieval is refused only if the base or the index of one of its sources
\* was missing at some moment: a source that is not stored, or that is of
\* another kind, is passed over (retrieve_knowledge_base).
RetrievalRefusalJustified ==
    \A c \in Watched : (Answered(c, "retrieve") /\ reply.status = 404) =>
      LET r == reply.req
      IN  \/ <<"stored", "knowledgeBase", r.name>> \notin always[c]
          \/ \E base \in Bodies(ever[c], "knowledgeBase", r.name) :
             \E entry \in ToSet(base.entries) : \E s \in Sources(ever[c], entry) :
             \E n \in EverTargets(c, s.index) : <<"index", n>> \notin always[c]

\* A search reads the names of its synonym maps with the definition and the
\* maps one lock at a time afterwards, when they may have been replaced or
\* deleted: a word is expanded by rules that were stored at some moment, and by
\* all that were stored throughout; a mapping `a => b` rewrites a to b and
\* leaves b alone (synonym_expansions, SynonymMap::expand).
ExpansionsFromStoredRules ==
    \A c \in Watched : (Answered(c, "search") /\ reply.status = 200) =>
      LET r == reply.req
      IN  \A word \in ToSet(r.words) :
            /\ Rewrites(always[c], AlwaysTargets(c, r.name), word) \subseteq reply.out[1][word]
            /\ reply.out[1][word] \subseteq Rewrites(ever[c], EverTargets(c, r.name), word)

\* The definition of an index is checked against the synonym maps one at a time
\* and stored later: it is accepted only if each map was there at some moment,
\* and refused only if one was missing, or the name taken, at some moment
\* (create_index, validate_synonym_maps, check_alias_collision).
IndexesDefinedOverMaps ==
    \A c \in Watched : Answered(c, "createIndex") =>
      LET r == reply.req
      IN  CASE reply.status = 201 ->
                 \A m \in ToSet(r.maps) : <<"stored", "synonymMap", m>> \in ever[c]
            [] reply.status = 400 ->
                 \E m \in ToSet(r.maps) : <<"stored", "synonymMap", m>> \notin always[c]
            [] reply.status = 409 ->
                 <<"index", r.name>> \in ever[c] \/ <<"stored", "alias", r.name>> \in ever[c]

=============================================================================
