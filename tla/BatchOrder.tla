----------------------------- MODULE BatchOrder -----------------------------
(***************************************************************************)
(* One batch folded action by action, next to the same actions sent as     *)
(* requests of their own.  The documentation says that the actions of one  *)
(* batch apply in request order with the last action winning per key; this *)
(* module compares the batch with that reference.                          *)
(***************************************************************************)
EXTENDS DocumentBatch

CONSTANTS
    Definition,     \* the index definition the request works with
    Offered,        \* the actions a batch may contain
    MaxActions      \* bound on the length of a batch

ASSUME DefinitionAssumption == Definition \in Schemas
ASSUME OfferedAssumption == \A a \in Offered : a \in Action
ASSUME MaxActionsAssumption == MaxActions \in Nat

VARIABLES
    stored,         \* the documents of the index, unchanged while folding
    batch,          \* DocumentBatch
    replayed,       \* the documents after the same actions, one request each
    statuses,       \* the statuses those requests are answered with
    revived,        \* an action found a stored document its batch had deleted
    refused         \* one of those requests was refused for its null vector

batchVars == <<stored, batch, replayed, statuses, revived, refused>>

BatchInit ==
    /\ stored \in [Keys -> {d \in Document : /\ ValidDocument(Definition, d)
                                             /\ d.vec # Null} \cup {NoDoc}]
    /\ batch = EmptyBatch
    /\ replayed = stored
    /\ statuses = <<>>
    /\ revived = FALSE
    /\ refused = FALSE

\* The action as the only one of a request.
Single(docs, a) == ApplyAction(Definition, docs, EmptyBatch, a)

\* The documents after a request with this batch: as they were, when a null
\* vector fails it.
Applied(docs, b) == IF NullVectors(b) = {} THEN Outcome(docs, b) ELSE docs

Fold(a) ==
    /\ Len(statuses) < MaxActions
    /\ batch' = ApplyAction(Definition, stored, batch, a)
    /\ replayed' = Applied(replayed, Single(replayed, a))
    /\ statuses' = Append(statuses, IF NullVectors(Single(replayed, a)) = {}
                                    THEN Single(replayed, a).results[1].status ELSE 500)
    /\ refused' = (refused \/ NullVectors(Single(replayed, a)) # {})
    /\ revived' = (revived \/ (a.kind # "upload" /\ a.key \in batch.deletes
                                                 /\ stored[a.key] # NoDoc))
    /\ UNCHANGED stored

BatchNext == \E a \in Offered : Fold(a)

BatchSpec == BatchInit /\ [][BatchNext]_batchVars

-----------------------------------------------------------------------------
\* A key is never both to be written and to be deleted, so the order in which
\* the write phase applies the two sets does not matter (DocumentBatch, "a key
\* appears in at most one of upserts / deletes").
OutcomeSetsDisjoint == \A k \in Keys : batch.upserts[k] = NoDoc \/ k \notin batch.deletes

BatchStatuses == [i \in DOMAIN batch.results |-> batch.results[i].status]

\* The batch has the outcome and the per-action statuses of its actions sent
\* one request at a time (supported_operations.md, "Actions in one batch apply
\* in request order").
ActionsApplyInOrder == Applied(stored, batch) = replayed /\ BatchStatuses = statuses

\* It does, unless an action looked at a key the batch had already deleted or
\* one of the requests fails for a null vector, which in a batch another
\* action may have replaced, or may fail the rest with it.
ActionsApplyInOrderUnlessRevived == ~revived /\ ~refused => ActionsApplyInOrder

\* An index of the given documents, as each store holds it.
StorageOf(docs) == [n \in Names |-> [schema |-> Definition, docs |-> docs]]
EngineOf(docs)  == [n \in Names |-> [k \in Keys |-> TextOf(docs[k])]]
VectorsOf(docs) == [n \in Names |-> [dim  |-> Definition.dim,
                                     vecs |-> [k \in Keys |-> VectorOf(docs[k])]]]

\* The write phase brings stores that agree to stores that agree on the
\* outcome, and no vector is refused (index_documents, "every backend
\* converges on the same outcome"), unless a vector of the batch is null: and
\* then the field has a vectorizer and the text of the document, as it would
\* be stored, yields no vector (apply_vectorizer_generation).
WritePhaseConverges ==
    IF NullVectors(batch) # {}
    THEN \A k \in NullVectors(batch) :
            Definition.vectorizer /\ ~Embeds(batch.upserts[k].text, Definition.dim)
    ELSE \A n \in Names :
            LET final   == Outcome(stored, batch)
                put     == StoragePutDocuments(StorageOf(stored), n, batch.upserts)
                removed == EngineDeleteDocuments(EngineOf(stored), n, batch.deletes)
                trimmed == VectorsRemove(VectorsRemove(VectorsOf(stored), n, batch.deletes),
                                         n, VectorRemovals(batch))
            IN  /\ StorageDeleteDocuments(put, n, batch.deletes)[n] = StorageOf(final)[n]
                /\ EngineIndexDocuments(removed, n, batch.upserts)[n] = EngineOf(final)[n]
                /\ VectorsAccept(trimmed, n, batch.upserts)
                /\ VectorsUpsert(trimmed, n, batch.upserts)[n] = VectorsOf(final)[n]

=============================================================================
