--------------------------- MODULE DocumentReads ---------------------------
(***************************************************************************)
(* search, get_document and count_documents.  A search reads the           *)
(* definition twice (once to parse the body, once to run), then takes a    *)
(* snapshot of the stored documents, then asks the vector store, then the  *)
(* engine: five locks, released in between.                                *)
(***************************************************************************)
EXTENDS ServiceState

\* The documents of a map under some keys.
OnlyKeys(docs, ks) == [k \in Keys |-> IF k \in ks THEN docs[k] ELSE NoDoc]

\* parse_search resolves the name and requires the index ...
ParseResolve(c) ==
    /\ At(c, "parse_resolve")
    /\ job' = [job EXCEPT ![c].target = Resolve(alias, job[c].req.name)]
    /\ Goto(c, "parse_require")
    /\ UNCHANGED stores

\* ... and checks the query vector against it; search then resolves and
\* requires once more.
ParseRequire(c) ==
    /\ At(c, "parse_require")
    /\ UNCHANGED stores
    /\ LET entry == storage[job[c].target]
           length == job[c].req.query.vector
       IN  \/ /\ entry = NoIndex
              /\ Return(c, 404)
           \/ /\ entry # NoIndex /\ length # 0 /\ length # entry.schema.dim
              /\ Return(c, 400)
           \/ /\ entry # NoIndex /\ length \in {0, entry.schema.dim}
              /\ Goto(c, "resolve")
              /\ UNCHANGED job

\* resolve_plan: the snapshot every later hit is looked up in.
SearchDocuments(c) ==
    /\ At(c, "search_documents")
    /\ UNCHANGED stores
    /\ \/ /\ storage[job[c].target] = NoIndex
          /\ Return(c, 404)
       \/ /\ storage[job[c].target] # NoIndex
          /\ job' = [job EXCEPT ![c].docs = storage[job[c].target].docs]
          /\ Goto(c, IF job[c].req.query.vector = 0 THEN "search_engine" ELSE "search_vectors")

\* Mutant of SearchVectors: a hybrid search loses its vector hits.
SearchVectorsForgotten(c) ==
    /\ At(c, "search_vectors")
    /\ Goto(c, "search_engine")
    /\ UNCHANGED <<stores, job>>

\* vector_side_score_lists; the full-text side is skipped when the query is
\* vector-only.
SearchVectors(c) ==
    /\ At(c, "search_vectors")
    /\ UNCHANGED stores
    /\ LET hits == VectorHits(vectors, job[c].target)
       IN  \/ /\ job[c].req.query.text # Absent
              /\ job' = [job EXCEPT ![c].found = hits]
              /\ Goto(c, "search_engine")
           \/ /\ job[c].req.query.text = Absent
              /\ Answer(c, 200, <<>>, OnlyKeys(job[c].docs, hits))

\* full_text_side_scores, then execute_plan: a hit that is not in the
\* snapshot is dropped.
SearchEngine(c) ==
    /\ At(c, "search_engine")
    /\ UNCHANGED stores
    /\ \/ /\ engine[job[c].target] = NoIndex
          /\ Return(c, 404)
       \/ /\ engine[job[c].target] # NoIndex
          /\ Answer(c, 200, <<>>,
                OnlyKeys(job[c].docs,
                    job[c].found
                      \cup EngineMatches(engine, job[c].target, job[c].req.query.text)))

\* get_document reads one document, count_documents reads them all.
ReadDocuments(c) ==
    /\ At(c, "read_documents")
    /\ UNCHANGED stores
    /\ LET entry == storage[job[c].target]
           r == job[c].req
       IN  \/ /\ entry = NoIndex
              /\ Return(c, 404)
           \/ /\ entry # NoIndex /\ r.op = "count"
              /\ Answer(c, 200, <<>>, entry.docs)
           \/ /\ entry # NoIndex /\ r.op = "get"
              /\ IF entry.docs[r.key] = NoDoc
                 THEN Return(c, 404)
                 ELSE Answer(c, 200, <<>>, OnlyKeys(entry.docs, {r.key}))

ReadStep(c) ==
    \/ ParseResolve(c) \/ ParseRequire(c)
    \/ SearchDocuments(c) \/ SearchVectors(c) \/ SearchEngine(c)
    \/ ReadDocuments(c)

=============================================================================
