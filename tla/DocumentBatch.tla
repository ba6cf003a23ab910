---------------------------- MODULE DocumentBatch ----------------------------
(***************************************************************************)
(* The working state of one index_documents request and what one action of *)
(* the request does to it (service/mod.rs, DocumentBatch and               *)
(* apply_document_action).  Nothing is written to a store until every      *)
(* action has been folded into the batch; merges and deletes look at the   *)
(* pending upserts first and at the stored documents otherwise.            *)
(***************************************************************************)
EXTENDS Stores, Sequences

Kinds == {"upload", "merge", "mergeOrUpload", "delete"}

\* For a delete only the key is meaningful.
Action == [kind : Kinds, key : Keys, doc : Document]

Statuses == {200, 201, 204, 400, 404, 409, 500}

Result == [key : Keys, status : Statuses]

Batch == [upserts : DocMap, deletes : SUBSET Keys, results : Seq(Result)]

EmptyBatch == [upserts |-> NoDocs, deletes |-> {}, results |-> <<>>]

\* merge_fields: the fields the update carries overwrite the existing ones.
MergeFields(old, update) ==
    [text  |-> IF update.text # Absent THEN update.text ELSE old.text,
     vec   |-> IF update.vec # Absent THEN update.vec ELSE old.vec,
     parts |-> IF update.parts # Absent THEN update.parts ELSE old.parts]

\* Appends the result of the action on key k.
Respond(b, k, status) ==
    [b EXCEPT !.results = Append(@, [key |-> k, status |-> status])]

\* Mutant of RecordUpsert: an earlier delete of the key stays pending.
RecordUpsertKeepsDelete(b, k, d) == [b EXCEPT !.upserts = [@ EXCEPT ![k] = d]]

\* DocumentBatch::record_upsert supersedes an earlier delete of the key.
RecordUpsert(b, k, d) ==
    [b EXCEPT !.upserts = [@ EXCEPT ![k] = d], !.deletes = @ \ {k}]

RecordDelete(b, k) ==
    [b EXCEPT !.upserts = [@ EXCEPT ![k] = NoDoc], !.deletes = @ \cup {k}]

\* Mutant of MergeTarget: pending upserts are not looked at.
MergeTargetStoredOnly(stored, b, k) == stored[k]

\* What merge_one merges into.  It does not look at batch.deletes, so a key
\* deleted earlier in the batch still shows its stored document.
MergeTarget(stored, b, k) == IF b.upserts[k] # NoDoc THEN b.upserts[k] ELSE stored[k]

\* A document the action uploads or the merge produces is recorded only when
\* it is valid for the definition the request started with, and with the
\* vector generated for it.
UpsertIfValid(s, b, k, d, status) ==
    IF ValidDocument(s, d)
    THEN Respond(RecordUpsert(b, k, Generated(s, d)), k, status)
    ELSE Respond(b, k, 400)

ApplyUpload(s, b, a) == UpsertIfValid(s, b, a.key, a.doc, 201)

\* merge_or_fallback: an absent document is a 404 for merge and an upload
\* for mergeOrUpload.
ApplyMerge(s, stored, b, a) ==
    LET existing == MergeTarget(stored, b, a.key)
    IN  IF existing # NoDoc
        THEN UpsertIfValid(s, b, a.key, MergeFields(existing, a.doc), 200)
        ELSE IF a.kind = "merge"
             THEN Respond(b, a.key, 404)
             ELSE ApplyUpload(s, b, a)

ApplyDelete(stored, b, a) ==
    IF b.upserts[a.key] # NoDoc \/ stored[a.key] # NoDoc
    THEN Respond(RecordDelete(b, a.key), a.key, 200)
    ELSE Respond(b, a.key, 404)

\* apply_document_action against the documents the index stores right now.
ApplyAction(s, stored, b, a) ==
    CASE a.kind = "upload" -> ApplyUpload(s, b, a)
      [] a.kind \in {"merge", "mergeOrUpload"} -> ApplyMerge(s, stored, b, a)
      [] a.kind = "delete" -> ApplyDelete(stored, b, a)

\* The batch after each of its actions, folded in request order against fixed
\* documents.
Stages(s, stored, actions) ==
    LET stage[i \in 0..Len(actions)] ==
            IF i = 0 THEN EmptyBatch ELSE ApplyAction(s, stored, stage[i - 1], actions[i])
    IN  stage

\* The documents of the index once the batch is applied.
Outcome(stored, b) ==
    [k \in Keys |-> IF b.upserts[k] # NoDoc THEN b.upserts[k]
                    ELSE IF k \in b.deletes THEN NoDoc ELSE stored[k]]

Upserted(b) == {k \in Keys : b.upserts[k] # NoDoc}

\* Mutant of VectorRemovals: stale vectors are never trimmed.
VectorRemovalsForgotten(b) == {}

\* The upserted keys whose document carries no vector: their stale vectors go.
VectorRemovals(b) == {k \in Upserted(b) : b.upserts[k].vec = Absent}

\* The upserted keys whose document carries a vector.
VectorEntries(b) == {k \in Upserted(b) : HasVector(b.upserts[k])}

\* The upserted keys whose vector is null: validation let it pass and the
\* text did not fill it in, but it is no array.
NullVectors(b) == {k \in Upserted(b) : b.upserts[k].vec = Null}

=============================================================================
