----------------------------- MODULE BatchProofs -----------------------------
(***************************************************************************)
(* A batch of any length, of any actions, over any stored documents: its   *)
(* outcome sets are disjoint, it is its actions in order unless one of     *)
(* them looked at a deleted key, and its write phase converges.            *)
(***************************************************************************)
EXTENDS BatchOrder, StoreLemmas, TLAPS

-----------------------------------------------------------------------------
(* The inductive invariant *)

\* The documents the batch started from and those it wants to write are valid
\* for the definition it works with.
AllValid(docs) == \A k \in Keys : docs[k] # NoDoc => ValidDocument(Definition, docs[k])

\* What validation records: a vector left null has no text to fill it in.
Recordable(d) ==
    /\ ValidDocument(Definition, d)
    /\ d.vec = Null => Definition.vectorizer /\ ~Embeds(d.text, Definition.dim)

AllRecordable(docs) == \A k \in Keys : docs[k] # NoDoc => Recordable(docs[k])

NoNulls(docs) == \A k \in Keys : docs[k] # NoDoc => docs[k].vec # Null

BatchTyped ==
    /\ stored \in DocMap /\ AllValid(stored) /\ NoNulls(stored)
    /\ batch \in Batch /\ AllRecordable(batch.upserts)
    /\ replayed \in DocMap /\ NoNulls(replayed)
    /\ statuses \in Seq(Statuses)
    /\ revived \in BOOLEAN /\ refused \in BOOLEAN

\* The batch and the requests have gone the same way, so that the batch has
\* no null vector either.
InStep == ~revived /\ ~refused => Outcome(stored, batch) = replayed /\ BatchStatuses = statuses

BatchInv == BatchTyped /\ OutcomeSetsDisjoint /\ InStep

-----------------------------------------------------------------------------
(* What one action does *)

\* The action records document d under its key, ...
Upserts(b, k, d, status, next) == next = Respond(RecordUpsert(b, k, d), k, status)

\* ... records the deletion of its key, ...
Deletes(b, k, next) == next = Respond(RecordDelete(b, k), k, 200)

\* ... or only answers.
Refuses(b, k, status, next) == next = Respond(b, k, status)

\* An action has the same effect on any two batches in which it finds the
\* same document under its key (apply_document_action reads nothing else).
LEMMA SameEffect ==
    ASSUME NEW a \in Action, NEW b1 \in Batch, NEW b2 \in Batch,
           NEW docs1 \in DocMap, NEW docs2 \in DocMap,
           a.kind = "upload" \/ MergeTarget(docs1, b1, a.key) = MergeTarget(docs2, b2, a.key)
    PROVE  LET next1 == ApplyAction(Definition, docs1, b1, a)
               next2 == ApplyAction(Definition, docs2, b2, a)
           IN  \/ \E d \in Document, status \in Statuses :
                    /\ Recordable(d)
                    /\ Upserts(b1, a.key, d, status, next1)
                    /\ Upserts(b2, a.key, d, status, next2)
               \/ Deletes(b1, a.key, next1) /\ Deletes(b2, a.key, next2)
               \/ \E status \in Statuses :
                    Refuses(b1, a.key, status, next1) /\ Refuses(b2, a.key, status, next2)
<1> DEFINE k == a.key
           next1 == ApplyAction(Definition, docs1, b1, a)
           next2 == ApplyAction(Definition, docs2, b2, a)
           Same == \/ \E d \in Document, status \in Statuses :
                        /\ Recordable(d)
                        /\ Upserts(b1, k, d, status, next1)
                        /\ Upserts(b2, k, d, status, next2)
                   \/ Deletes(b1, k, next1) /\ Deletes(b2, k, next2)
                   \/ \E status \in Statuses :
                        Refuses(b1, k, status, next1) /\ Refuses(b2, k, status, next2)
<1>0. /\ k \in Keys /\ a.doc \in Document
      /\ a.kind \in {"upload", "merge", "mergeOrUpload", "delete"}
      /\ 200 \in Statuses /\ 201 \in Statuses /\ 400 \in Statuses /\ 404 \in Statuses
  BY DEF Action, Kinds, Statuses
<1>1. ASSUME NEW d \in Document, NEW status \in Statuses,
             next1 = UpsertIfValid(Definition, b1, k, d, status),
             next2 = UpsertIfValid(Definition, b2, k, d, status)
      PROVE  Same
  <2>1. CASE ValidDocument(Definition, d)
    <3> DEFINE g == Generated(Definition, d)
    <3>1. g \in Document /\ Recordable(g)
      BY <2>1, DefinitionAssumption, GeneratedValid DEF Recordable
    <3>2. Upserts(b1, k, g, status, next1) /\ Upserts(b2, k, g, status, next2)
      BY <1>1, <2>1 DEF UpsertIfValid, Upserts
    <3> HIDE DEF g
    <3>3. QED
      BY <3>1, <3>2
  <2>2. CASE ~ValidDocument(Definition, d)
    BY <1>0, <1>1, <2>2 DEF UpsertIfValid, Refuses
  <2>3. QED
    BY <2>1, <2>2
<1>2. CASE a.kind = "upload"
  <2>1. next1 = UpsertIfValid(Definition, b1, k, a.doc, 201)
    BY <1>2 DEF ApplyAction, ApplyUpload
  <2>2. next2 = UpsertIfValid(Definition, b2, k, a.doc, 201)
    BY <1>2 DEF ApplyAction, ApplyUpload
  <2>3. QED
    BY <1>0, <1>1, <2>1, <2>2
<1>3. CASE a.kind \in {"merge", "mergeOrUpload"}
  <2> DEFINE t == MergeTarget(docs1, b1, k)
  <2>1. /\ MergeTarget(docs2, b2, k) = t
        /\ next1 = ApplyMerge(Definition, docs1, b1, a)
        /\ next2 = ApplyMerge(Definition, docs2, b2, a)
    BY <1>3 DEF ApplyAction
  <2>2. CASE t # NoDoc
    <3>1. t \in Document
      BY <1>0, <2>2 DEF MergeTarget, Batch, DocMap
    <3>2. MergeFields(t, a.doc) \in Document
      BY <1>0, <3>1 DEF MergeFields, Document
    <3>3. /\ next1 = UpsertIfValid(Definition, b1, k, MergeFields(t, a.doc), 200)
          /\ next2 = UpsertIfValid(Definition, b2, k, MergeFields(t, a.doc), 200)
      BY <2>1, <2>2 DEF ApplyMerge
    <3>4. QED
      BY <1>0, <1>1, <3>2, <3>3
  <2>3. CASE t = NoDoc /\ a.kind = "merge"
    <3>1. next1 = Respond(b1, k, 404) /\ next2 = Respond(b2, k, 404)
      BY <2>1, <2>3 DEF ApplyMerge
    <3>2. QED
      BY <1>0, <3>1 DEF Refuses
  <2>4. CASE t = NoDoc /\ a.kind # "merge"
    <3>1. /\ next1 = UpsertIfValid(Definition, b1, k, a.doc, 201)
          /\ next2 = UpsertIfValid(Definition, b2, k, a.doc, 201)
      BY <2>1, <2>4 DEF ApplyMerge, ApplyUpload
    <3>2. QED
      BY <1>0, <1>1, <3>1
  <2>5. QED
    BY <2>2, <2>3, <2>4
<1>4. CASE a.kind = "delete"
  <2>1. next1 = ApplyDelete(docs1, b1, a) /\ next2 = ApplyDelete(docs2, b2, a)
    BY <1>4 DEF ApplyAction
  <2>2. (b1.upserts[k] # NoDoc \/ docs1[k] # NoDoc) <=> (b2.upserts[k] # NoDoc \/ docs2[k] # NoDoc)
    BY <1>4 DEF MergeTarget
  <2>3. CASE b1.upserts[k] # NoDoc \/ docs1[k] # NoDoc
    <3>1. next1 = Respond(RecordDelete(b1, k), k, 200) /\ next2 = Respond(RecordDelete(b2, k), k, 200)
      BY <2>1, <2>2, <2>3 DEF ApplyDelete
    <3>2. QED
      BY <3>1 DEF Deletes
  <2>4. CASE ~(b1.upserts[k] # NoDoc \/ docs1[k] # NoDoc)
    <3>1. next1 = Respond(b1, k, 404) /\ next2 = Respond(b2, k, 404)
      BY <2>1, <2>2, <2>4 DEF ApplyDelete
    <3>2. QED
      BY <1>0, <3>1 DEF Refuses
  <2>5. QED
    BY <2>3, <2>4
<1>5. QED
  BY <1>0, <1>2, <1>3, <1>4

-----------------------------------------------------------------------------
(* What the effects do to the outcome, the answers and the invariant *)

\* The batch answers the action on k, and document d (NoDoc for none) is its
\* outcome for k.
Recorded(docs, b, k, d, status, next) ==
    /\ next \in Batch
    /\ next.upserts = [b.upserts EXCEPT ![k] = d]
    /\ next.deletes = IF d = NoDoc THEN b.deletes \cup {k} ELSE b.deletes \ {k}
    /\ next.results = Append(b.results, [key |-> k, status |-> status])
    /\ Outcome(docs, next) = [Outcome(docs, b) EXCEPT ![k] = d]

\* The batch answers the action on k and is otherwise as it was.
Answered(docs, b, k, status, next) ==
    /\ next \in Batch
    /\ next.upserts = b.upserts
    /\ next.deletes = b.deletes
    /\ next.results = Append(b.results, [key |-> k, status |-> status])
    /\ Outcome(docs, next) = Outcome(docs, b)

\* Recording a document changes the outcome under its key only.
LEMMA UpsertEffect ==
    ASSUME NEW docs \in DocMap, NEW b \in Batch, NEW k \in Keys, NEW next,
           NEW d \in Document, NEW status \in Statuses,
           Upserts(b, k, d, status, next)
    PROVE  Recorded(docs, b, k, d, status, next)
<1>0. b.upserts \in [Keys -> Document \cup {NoDoc}] /\ b.deletes \subseteq Keys
  BY DEF Batch, DocMap
<1>1. next \in Batch
  BY RecordTyped, RespondTyped DEF Upserts
<1>2. /\ next.upserts = [b.upserts EXCEPT ![k] = d]
      /\ next.deletes = b.deletes \ {k}
      /\ next.results = Append(b.results, [key |-> k, status |-> status])
  BY DEF Upserts, Respond, RecordUpsert, Batch
<1>3. d # NoDoc
  BY NoDocAssumption
<1>4. Outcome(docs, next) = [Outcome(docs, b) EXCEPT ![k] = d]
  BY <1>0, <1>2, <1>3 DEF Outcome
<1>5. QED
  BY <1>1, <1>2, <1>3, <1>4 DEF Recorded

\* Recording a deletion empties the outcome under its key only.
LEMMA DeleteEffect ==
    ASSUME NEW docs \in DocMap, NEW b \in Batch, NEW k \in Keys, NEW next,
           Deletes(b, k, next)
    PROVE  Recorded(docs, b, k, NoDoc, 200, next)
<1>0. /\ b.upserts \in [Keys -> Document \cup {NoDoc}] /\ b.deletes \subseteq Keys
      /\ 200 \in Statuses
  BY DEF Batch, DocMap, Statuses
<1>1. next \in Batch
  BY <1>0, RecordTyped, RespondTyped DEF Deletes
<1>2. /\ next.upserts = [b.upserts EXCEPT ![k] = NoDoc]
      /\ next.deletes = b.deletes \cup {k}
      /\ next.results = Append(b.results, [key |-> k, status |-> 200])
  BY DEF Deletes, Respond, RecordDelete, Batch
<1>3. Outcome(docs, next) = [Outcome(docs, b) EXCEPT ![k] = NoDoc]
  BY <1>0, <1>2 DEF Outcome
<1>4. QED
  BY <1>1, <1>2, <1>3 DEF Recorded

\* A refused action changes nothing but the answers.
LEMMA RefuseEffect ==
    ASSUME NEW docs \in DocMap, NEW b \in Batch, NEW k \in Keys, NEW next,
           NEW status \in Statuses, Refuses(b, k, status, next)
    PROVE  Answered(docs, b, k, status, next)
<1>1. next \in Batch
  BY RespondTyped DEF Refuses
<1>2. /\ next.upserts = b.upserts
      /\ next.deletes = b.deletes
      /\ next.results = Append(b.results, [key |-> k, status |-> status])
  BY DEF Refuses, Respond, Batch
<1>3. Outcome(docs, next) = Outcome(docs, b)
  BY <1>2 DEF Outcome
<1>4. QED
  BY <1>1, <1>2, <1>3 DEF Answered

\* The empty batch changes nothing.
LEMMA EmptyBatchTyped ==
    /\ EmptyBatch \in Batch
    /\ EmptyBatch.results = <<>>
    /\ \A k \in Keys : EmptyBatch.upserts[k] = NoDoc /\ k \notin EmptyBatch.deletes
    /\ \A docs \in DocMap : Outcome(docs, EmptyBatch) = docs
<1>1. <<>> \in Seq(Result)
  OBVIOUS
<1>2. EmptyBatch \in Batch
  BY <1>1, NoDocsTyped DEF EmptyBatch, Batch
<1>3. /\ EmptyBatch.results = <<>>
      /\ \A k \in Keys : EmptyBatch.upserts[k] = NoDoc /\ k \notin EmptyBatch.deletes
  BY DEF EmptyBatch, NoDocs
<1>4. \A docs \in DocMap : Outcome(docs, EmptyBatch) = docs
  BY <1>3 DEF Outcome, DocMap
<1>5. QED
  BY <1>2, <1>3, <1>4

\* The statuses of a batch with one more result.
LEMMA StatusesAppend ==
    ASSUME NEW rs \in Seq(Result), NEW r \in Result
    PROVE  [i \in DOMAIN Append(rs, r) |-> Append(rs, r)[i].status]
             = Append([i \in DOMAIN rs |-> rs[i].status], r.status)
<1> DEFINE n == Len(rs)
           old == [i \in DOMAIN rs |-> rs[i].status]
           new == [i \in DOMAIN Append(rs, r) |-> Append(rs, r)[i].status]
<1>1. /\ n \in Nat /\ DOMAIN rs = 1..n /\ DOMAIN Append(rs, r) = 1..(n + 1)
      /\ \A i \in 1..n : Append(rs, r)[i] = rs[i]
      /\ Append(rs, r)[n + 1] = r
  OBVIOUS
<1>2. old \in Seq(Statuses) /\ Len(old) = n
  <2>0. \A i \in 1..n : rs[i] \in Result
    OBVIOUS
  <2>1. \A i \in 1..n : rs[i].status \in Statuses
    BY <2>0 DEF Result
  <2>2. old \in [1..n -> Statuses]
    BY <1>1, <2>1
  <2>3. QED
    BY <1>1, <2>2
<1>3. /\ DOMAIN Append(old, r.status) = 1..(n + 1)
      /\ \A i \in 1..n : Append(old, r.status)[i] = old[i]
      /\ Append(old, r.status)[n + 1] = r.status
      /\ Append(old, r.status) = [i \in 1..(n + 1) |-> Append(old, r.status)[i]]
  <2>1. r.status \in Statuses
    BY DEF Result
  <2> HIDE DEF old
  <2>2. QED
    BY <1>1, <1>2, <2>1
<1>4. \A i \in 1..(n + 1) : new[i] = Append(old, r.status)[i]
  <2>1. TAKE i \in 1..(n + 1)
  <2>2. CASE i \in 1..n
    BY <1>1, <1>3, <2>2
  <2>3. CASE i = n + 1
    BY <1>1, <1>3, <2>3
  <2>4. QED
    BY <1>1, <2>2, <2>3
<1>5. QED
  BY <1>1, <1>3, <1>4

-----------------------------------------------------------------------------
(* The step *)

\* Folding one action keeps the invariant.  An action that finds no key its
\* batch has deleted finds the document that the replay has stored by then.
LEMMA FoldKeepsInv ==
    ASSUME BatchInv, NEW a \in Offered, Fold(a)
    PROVE  BatchInv'
<1> DEFINE k == a.key
           single == Single(replayed, a)
<1>0. /\ a \in Action /\ k \in Keys /\ a.doc \in Document
      /\ stored \in DocMap /\ AllValid(stored) /\ NoNulls(stored)
      /\ batch \in Batch /\ AllRecordable(batch.upserts)
      /\ replayed \in DocMap /\ NoNulls(replayed) /\ statuses \in Seq(Statuses)
      /\ revived \in BOOLEAN /\ refused \in BOOLEAN
      /\ OutcomeSetsDisjoint
      /\ ~revived /\ ~refused => Outcome(stored, batch) = replayed /\ BatchStatuses = statuses
  BY OfferedAssumption DEF BatchInv, BatchTyped, InStep, Action
<1>1. /\ stored' = stored
      /\ batch' = ApplyAction(Definition, stored, batch, a)
      /\ replayed' = IF NullVectors(single) = {} THEN Outcome(replayed, single) ELSE replayed
      /\ statuses' = Append(statuses, IF NullVectors(single) = {}
                                      THEN single.results[1].status ELSE 500)
      /\ refused' = (refused \/ NullVectors(single) # {})
      /\ revived' = (revived \/ (a.kind # "upload" /\ k \in batch.deletes
                                                   /\ stored[k] # NoDoc))
  BY DEF Fold, Applied
<1>2. single = ApplyAction(Definition, replayed, EmptyBatch, a)
  BY DEF Single
<1> HIDE DEF single
<1>3. /\ batch.upserts \in [Keys -> Document \cup {NoDoc}]
      /\ batch.results \in Seq(Result)
  BY <1>0 DEF Batch, DocMap
\* One action on its own batch and on an empty one: what each step needs.
<1>4. \/ \E d \in Document, status \in Statuses :
            /\ Recordable(d)
            /\ Upserts(batch, k, d, status, batch')
      \/ Deletes(batch, k, batch')
      \/ \E status \in Statuses : Refuses(batch, k, status, batch')
  BY <1>0, <1>1, SameEffect
<1>5. \/ \E d \in Document, status \in Statuses : Upserts(EmptyBatch, k, d, status, single)
      \/ Deletes(EmptyBatch, k, single)
      \/ \E status \in Statuses : Refuses(EmptyBatch, k, status, single)
  BY <1>0, <1>2, EmptyBatchTyped, SameEffect
<1>6. batch' \in Batch /\ AllRecordable(batch'.upserts) /\ OutcomeSetsDisjoint'
  <2>1. ASSUME NEW d \in Document, NEW status \in Statuses, Recordable(d),
               Upserts(batch, k, d, status, batch')
        PROVE  batch' \in Batch /\ AllRecordable(batch'.upserts) /\ OutcomeSetsDisjoint'
    <3>0. Recorded(stored, batch, k, d, status, batch')
      BY <1>0, <2>1, UpsertEffect
    <3>1. /\ batch' \in Batch
          /\ batch'.upserts = [batch.upserts EXCEPT ![k] = d]
          /\ batch'.deletes = batch.deletes \ {k}
      BY <3>0, NoDocAssumption DEF Recorded
    <3>2. QED
      BY <1>0, <1>3, <2>1, <3>1 DEF AllRecordable, OutcomeSetsDisjoint
  <2>2. CASE Deletes(batch, k, batch')
    <3>0. Recorded(stored, batch, k, NoDoc, 200, batch')
      BY <1>0, <2>2, DeleteEffect
    <3>1. /\ batch' \in Batch
          /\ batch'.upserts = [batch.upserts EXCEPT ![k] = NoDoc]
          /\ batch'.deletes = batch.deletes \cup {k}
      BY <3>0 DEF Recorded
    <3>2. QED
      BY <1>0, <1>3, <3>1 DEF AllRecordable, OutcomeSetsDisjoint
  <2>3. ASSUME NEW status \in Statuses, Refuses(batch, k, status, batch')
        PROVE  batch' \in Batch /\ AllRecordable(batch'.upserts) /\ OutcomeSetsDisjoint'
    <3>0. Answered(stored, batch, k, status, batch')
      BY <1>0, <2>3, RefuseEffect
    <3>1. batch' \in Batch /\ batch'.upserts = batch.upserts /\ batch'.deletes = batch.deletes
      BY <3>0 DEF Answered
    <3>2. QED
      BY <1>0, <3>1 DEF AllRecordable, OutcomeSetsDisjoint
  <2>4. QED
    BY <1>4, <2>1, <2>2, <2>3
<1>7. /\ replayed' \in DocMap /\ NoNulls(replayed')
      /\ \E status \in Statuses : single.results = <<[key |-> k, status |-> status]>>
  <2>1. /\ single \in Batch
        /\ \E status \in Statuses : single.results = <<[key |-> k, status |-> status]>>
    <3>1. /\ EmptyBatch \in Batch /\ 200 \in Statuses
          /\ \A r : Append(EmptyBatch.results, r) = <<r>>
      BY EmptyBatchTyped DEF Statuses
    <3>2. ASSUME NEW d \in Document, NEW status \in Statuses,
                 Upserts(EmptyBatch, k, d, status, single)
          PROVE  Recorded(replayed, EmptyBatch, k, d, status, single)
      BY <1>0, <3>1, <3>2, UpsertEffect
    <3>3. Deletes(EmptyBatch, k, single)
            => Recorded(replayed, EmptyBatch, k, NoDoc, 200, single)
      BY <1>0, <3>1, DeleteEffect
    <3>4. ASSUME NEW status \in Statuses, Refuses(EmptyBatch, k, status, single)
          PROVE  Answered(replayed, EmptyBatch, k, status, single)
      BY <1>0, <3>1, <3>4, RefuseEffect
    <3>5. QED
      BY <1>5, <3>1, <3>2, <3>3, <3>4 DEF Recorded, Answered
  <2>2. single.upserts \in [Keys -> Document \cup {NoDoc}]
    BY <2>1 DEF Batch, DocMap
  <2>3. Outcome(replayed, single) \in DocMap
    BY <1>0, <2>2 DEF Outcome, DocMap
  <2>4. NullVectors(single) = {} => NoNulls(Outcome(replayed, single))
    BY <1>0 DEF NullVectors, Upserted, NoNulls, Outcome
  <2>5. QED
    BY <1>0, <1>1, <2>1, <2>3, <2>4
<1>8. statuses' \in Seq(Statuses) /\ revived' \in BOOLEAN /\ refused' \in BOOLEAN
  <2>1. single.results[1].status \in Statuses /\ 500 \in Statuses
    BY <1>7 DEF Statuses
  <2>2. statuses' \in Seq(Statuses)
    BY <1>0, <1>1, <2>1
  <2>3. QED
    BY <1>1, <2>2
<1>9. ASSUME ~revived', ~refused'
      PROVE  Outcome(stored, batch)' = replayed' /\ BatchStatuses' = statuses'
  <2>1. /\ ~revived
        /\ a.kind = "upload" \/ k \notin batch.deletes \/ stored[k] = NoDoc
        /\ Outcome(stored, batch) = replayed /\ BatchStatuses = statuses
        /\ replayed' = Outcome(replayed, single)
        /\ statuses' = Append(statuses, single.results[1].status)
    BY <1>0, <1>1, <1>9
  <2>2. a.kind = "upload" \/ MergeTarget(stored, batch, k) = MergeTarget(replayed, EmptyBatch, k)
    <3>1. replayed[k] = IF batch.upserts[k] # NoDoc THEN batch.upserts[k]
                        ELSE IF k \in batch.deletes THEN NoDoc ELSE stored[k]
      BY <1>0, <2>1 DEF Outcome
    <3>2. MergeTarget(replayed, EmptyBatch, k) = replayed[k]
      BY <1>0, EmptyBatchTyped DEF MergeTarget
    <3>3. QED
      BY <2>1, <3>1, <3>2 DEF MergeTarget
  \* The batch answers what the request of one action answers, and changes
  \* its outcome as that request changes the documents.
  <2> DEFINE Alike == \E status \in Statuses :
                 /\ batch'.results = Append(batch.results, [key |-> k, status |-> status])
                 /\ single.results = <<[key |-> k, status |-> status]>>
                 /\ Outcome(stored, batch') = Outcome(replayed, single)
  <2>3. Alike
    <3>0. /\ EmptyBatch \in Batch /\ EmptyBatch.results = <<>> /\ 200 \in Statuses
          /\ \A r : Append(<<>>, r) = <<r>>
          /\ Outcome(replayed, EmptyBatch) = replayed
      BY <1>0, EmptyBatchTyped DEF Statuses
    <3>1. \/ \E d \in Document, status \in Statuses :
                /\ Upserts(batch, k, d, status, batch')
                /\ Upserts(EmptyBatch, k, d, status, single)
          \/ Deletes(batch, k, batch') /\ Deletes(EmptyBatch, k, single)
          \/ \E status \in Statuses :
                Refuses(batch, k, status, batch') /\ Refuses(EmptyBatch, k, status, single)
      BY <1>0, <1>1, <1>2, <2>2, <3>0, SameEffect
    <3>2. ASSUME NEW d \in Document, NEW status \in Statuses,
                 Upserts(batch, k, d, status, batch'),
                 Upserts(EmptyBatch, k, d, status, single)
          PROVE  Alike
      <4>1. /\ Recorded(stored, batch, k, d, status, batch')
            /\ Recorded(replayed, EmptyBatch, k, d, status, single)
        BY <1>0, <3>0, <3>2, UpsertEffect
      <4>2. QED
        BY <2>1, <3>0, <4>1 DEF Recorded
    <3>3. CASE Deletes(batch, k, batch') /\ Deletes(EmptyBatch, k, single)
      <4>1. /\ Recorded(stored, batch, k, NoDoc, 200, batch')
            /\ Recorded(replayed, EmptyBatch, k, NoDoc, 200, single)
        BY <1>0, <3>0, <3>3, DeleteEffect
      <4>2. QED
        BY <2>1, <3>0, <4>1 DEF Recorded
    <3>4. ASSUME NEW status \in Statuses,
                 Refuses(batch, k, status, batch'), Refuses(EmptyBatch, k, status, single)
          PROVE  Alike
      <4>1. /\ Answered(stored, batch, k, status, batch')
            /\ Answered(replayed, EmptyBatch, k, status, single)
        BY <1>0, <3>0, <3>4, RefuseEffect
      <4>2. QED
        BY <2>1, <3>0, <4>1 DEF Answered
    <3>5. QED
      BY <3>1, <3>2, <3>3, <3>4
  <2>4. PICK status \in Statuses :
            /\ batch'.results = Append(batch.results, [key |-> k, status |-> status])
            /\ single.results = <<[key |-> k, status |-> status]>>
            /\ Outcome(stored, batch') = Outcome(replayed, single)
    BY <2>3
  <2> DEFINE r == [key |-> k, status |-> status]
  <2>5. /\ r \in Result /\ r.status = status /\ single.results[1].status = status
        /\ batch'.results = Append(batch.results, r)
    BY <1>0, <2>4 DEF Result
  <2>6. BatchStatuses = [i \in DOMAIN batch.results |-> batch.results[i].status]
    BY DEF BatchStatuses
  <2>7. BatchStatuses' = [i \in DOMAIN batch'.results |-> batch'.results[i].status]
    BY DEF BatchStatuses
  <2> HIDE DEF r
  <2>8. BatchStatuses' = Append(BatchStatuses, status)
    BY <1>3, <2>5, <2>6, <2>7, StatusesAppend
  <2>9. QED
    BY <1>1, <2>1, <2>4, <2>5, <2>8
<1>10. AllValid(stored)' /\ NoNulls(stored)' /\ NoNulls(replayed)'
  BY <1>0, <1>1, <1>7 DEF AllValid, NoNulls
<1>11. AllRecordable(batch.upserts)'
  BY <1>6 DEF AllRecordable
<1>12. QED
  BY <1>0, <1>1, <1>6, <1>7, <1>8, <1>9, <1>10, <1>11
     DEF BatchInv, BatchTyped, InStep

\* The invariant gives the property: documents of the requests are never
\* null, so a batch in step with them is not refused.
LEMMA InvInOrder == BatchInv => ActionsApplyInOrderUnlessRevived
<1> SUFFICES ASSUME BatchInv, ~revived, ~refused PROVE ActionsApplyInOrder
  BY DEF ActionsApplyInOrderUnlessRevived
<1>1. NoNulls(replayed) /\ Outcome(stored, batch) = replayed /\ BatchStatuses = statuses
  BY DEF BatchInv, BatchTyped, InStep
<1>2. \A k \in Keys : batch.upserts[k] # NoDoc => replayed[k] = batch.upserts[k]
  BY <1>1 DEF Outcome
<1>3. NullVectors(batch) = {}
  BY <1>1, <1>2 DEF NullVectors, Upserted, NoNulls
<1>4. QED
  BY <1>1, <1>3 DEF ActionsApplyInOrder, Applied

-----------------------------------------------------------------------------
(* The write phase *)

\* A batch of valid documents whose outcome sets are disjoint writes the same
\* outcome to the storage, the text index and the vector index, unless one of
\* its vectors is null for want of a text.
LEMMA InvConverges == BatchInv => WritePhaseConverges
<1>null. ASSUME BatchInv
      PROVE  \A k \in NullVectors(batch) :
                Definition.vectorizer /\ ~Embeds(batch.upserts[k].text, Definition.dim)
  BY <1>null DEF BatchInv, BatchTyped, AllRecordable, Recordable, NullVectors, Upserted
<1> SUFFICES ASSUME BatchInv, NullVectors(batch) = {}, NEW n \in Names
             PROVE  LET final   == Outcome(stored, batch)
                        put     == StoragePutDocuments(StorageOf(stored), n, batch.upserts)
                        removed == EngineDeleteDocuments(EngineOf(stored), n, batch.deletes)
                        trimmed == VectorsRemove(
                                       VectorsRemove(VectorsOf(stored), n, batch.deletes),
                                       n, VectorRemovals(batch))
                    IN  /\ StorageDeleteDocuments(put, n, batch.deletes)[n] = StorageOf(final)[n]
                        /\ EngineIndexDocuments(removed, n, batch.upserts)[n] = EngineOf(final)[n]
                        /\ VectorsAccept(trimmed, n, batch.upserts)
                        /\ VectorsUpsert(trimmed, n, batch.upserts)[n] = VectorsOf(final)[n]
  BY <1>null DEF WritePhaseConverges
<1> DEFINE final   == Outcome(stored, batch)
           put     == StoragePutDocuments(StorageOf(stored), n, batch.upserts)
           removed == EngineDeleteDocuments(EngineOf(stored), n, batch.deletes)
           cleared == VectorsRemove(VectorsOf(stored), n, batch.deletes)
           trimmed == VectorsRemove(cleared, n, VectorRemovals(batch))
           upserts == batch.upserts
           deletes == batch.deletes
<1>0. /\ stored \in [Keys -> Document \cup {NoDoc}]
      /\ upserts \in [Keys -> Document \cup {NoDoc}] /\ AllRecordable(upserts)
      /\ deletes \subseteq Keys
      /\ \A k \in Keys : upserts[k] = NoDoc \/ k \notin deletes
  BY DEF BatchInv, BatchTyped, OutcomeSetsDisjoint, Batch, DocMap
<1>1. /\ final \in [Keys -> Document \cup {NoDoc}]
      /\ \A k \in Keys : final[k] = IF upserts[k] # NoDoc THEN upserts[k]
                                   ELSE IF k \in deletes THEN NoDoc ELSE stored[k]
  BY <1>0 DEF Outcome
<1> HIDE DEF final, upserts, deletes
<1>2. StorageDeleteDocuments(put, n, deletes)[n] = StorageOf(final)[n]
  <2>1. /\ put \in [Names -> {put[m] : m \in Names}]
        /\ put[n] = [schema |-> Definition,
                     docs |-> [k \in Keys |-> IF upserts[k] # NoDoc THEN upserts[k]
                                                                  ELSE stored[k]]]
    BY DEF StoragePutDocuments, StorageOf, upserts
  <2>2. StorageDeleteDocuments(put, n, deletes)[n]
          = [schema |-> Definition,
             docs |-> [k \in Keys |-> IF k \in deletes THEN NoDoc ELSE put[n].docs[k]]]
    BY <2>1 DEF StorageDeleteDocuments
  <2>3. [k \in Keys |-> IF k \in deletes THEN NoDoc ELSE put[n].docs[k]] = final
    BY <1>0, <1>1, <2>1
  <2>4. StorageOf(final)[n] = [schema |-> Definition, docs |-> final]
    BY DEF StorageOf
  <2>5. QED
    BY <2>2, <2>3, <2>4
<1>3. EngineIndexDocuments(removed, n, upserts)[n] = EngineOf(final)[n]
  <2>1. /\ DOMAIN removed = Names
        /\ removed[n] = [k \in Keys |-> IF k \in deletes THEN NoDoc ELSE TextOf(stored[k])]
    BY DEF EngineDeleteDocuments, EngineOf, deletes
  <2>2. EngineIndexDocuments(removed, n, upserts)[n]
          = [k \in Keys |-> IF upserts[k] # NoDoc THEN upserts[k].text ELSE removed[n][k]]
    BY <2>1 DEF EngineIndexDocuments
  <2>3. \A k \in Keys : (IF upserts[k] # NoDoc THEN upserts[k].text ELSE removed[n][k])
                          = TextOf(final[k])
    BY <1>0, <1>1, <2>1 DEF TextOf
  <2>4. EngineOf(final)[n] = [k \in Keys |-> TextOf(final[k])]
    BY DEF EngineOf
  <2>5. QED
    BY <2>2, <2>3, <2>4
<1>4. /\ DOMAIN trimmed = Names /\ trimmed[n] # NoIndex
      /\ trimmed[n].dim = Definition.dim
      /\ trimmed[n] = [dim |-> trimmed[n].dim, vecs |-> trimmed[n].vecs]
      /\ \A k \in Keys : trimmed[n].vecs[k] =
             IF k \in deletes \/ k \in VectorRemovals(batch) THEN NoDoc ELSE VectorOf(stored[k])
  <2>1. Definition.dim \in Nat
    BY DefinitionAssumption, DimsAssumption DEF Schemas
  <2>2. \A k \in Keys : VectorOf(stored[k]) \in Vecs \cup {NoDoc}
    BY DEF VectorOf, HasVector
  <2>3. /\ DOMAIN VectorsOf(stored) = Names
        /\ VectorsOf(stored)[n] = [dim |-> Definition.dim,
                                   vecs |-> [k \in Keys |-> VectorOf(stored[k])]]
    BY DEF VectorsOf
  <2>4. VectorsOf(stored)[n] # NoIndex
    BY <2>1, <2>2, <2>3, NoIndexAssumption DEF VectorIndex
  <2> DEFINE vecs1 == [k \in Keys |-> IF k \in deletes THEN NoDoc ELSE VectorOf(stored[k])]
  <2>5. /\ DOMAIN cleared = Names
        /\ cleared[n] = [dim |-> Definition.dim, vecs |-> vecs1]
    BY <2>3, <2>4 DEF VectorsRemove, deletes
  <2>6. vecs1 \in [Keys -> Vecs \cup {NoDoc}]
    BY <2>2
  <2>7. cleared[n] # NoIndex
    BY <2>1, <2>5, <2>6, NoIndexAssumption DEF VectorIndex
  <2> DEFINE vecs2 == [k \in Keys |-> IF k \in VectorRemovals(batch) THEN NoDoc
                                      ELSE cleared[n].vecs[k]]
  <2>8. /\ DOMAIN trimmed = Names
        /\ trimmed[n] = [dim |-> Definition.dim, vecs |-> vecs2]
    <3> HIDE DEF cleared
    <3>1. QED
      BY <2>5, <2>7 DEF VectorsRemove
  <2>9. vecs2 \in [Keys -> Vecs \cup {NoDoc}]
    BY <2>5, <2>6
  <2>10. trimmed[n] # NoIndex
    BY <2>1, <2>8, <2>9, NoIndexAssumption DEF VectorIndex
  <2>11. \A k \in Keys : vecs2[k] =
             IF k \in deletes \/ k \in VectorRemovals(batch) THEN NoDoc ELSE VectorOf(stored[k])
    BY <2>5
  <2> HIDE DEF cleared, trimmed, vecs2
  <2>12. QED
    BY <2>8, <2>10, <2>11
<1> HIDE DEF trimmed
<1>5. VectorsAccept(trimmed, n, upserts)
  BY <1>0, <1>4 DEF VectorsAccept, AllRecordable, Recordable, ValidDocument
<1>6. VectorsUpsert(trimmed, n, upserts)[n] = VectorsOf(final)[n]
  <2> DEFINE new == [k \in Keys |-> IF upserts[k] # NoDoc /\ HasVector(upserts[k])
                                    THEN upserts[k].vec ELSE trimmed[n].vecs[k]]
  <2>1. VectorsUpsert(trimmed, n, upserts)[n] = [dim |-> Definition.dim, vecs |-> new]
    BY <1>4, <1>5 DEF VectorsUpsert
  <2>2. \A k \in Keys : k \in VectorRemovals(batch)
                          <=> upserts[k] # NoDoc /\ ~HasVector(upserts[k])
    <3>1. \A k \in Keys : upserts[k] # NoDoc => /\ upserts[k].vec # Null
                                              /\ upserts[k].vec \in {Absent, Null} \cup Vecs
      BY <1>0 DEF NullVectors, Upserted, upserts, Document
    <3>2. QED
      BY <3>1, AbsentAssumption DEF VectorRemovals, Upserted, upserts, HasVector
  <2>3. \A k \in Keys : new[k] = VectorOf(final[k])
    BY <1>0, <1>1, <1>4, <2>2 DEF VectorOf
  <2>4. VectorsOf(final)[n] = [dim |-> Definition.dim,
                               vecs |-> [k \in Keys |-> VectorOf(final[k])]]
    BY DEF VectorsOf
  <2> HIDE DEF new
  <2>5. new = [k \in Keys |-> VectorOf(final[k])]
    BY <2>3 DEF new
  <2>6. QED
    BY <2>1, <2>4, <2>5
<1>7. QED
  BY <1>2, <1>3, <1>5, <1>6 DEF final, upserts, deletes, trimmed

-----------------------------------------------------------------------------
(* The theorems *)

\* Every batch the folding reaches satisfies the inductive invariant.
LEMMA BatchInvHolds == BatchSpec => []BatchInv
<1>1. BatchInit => BatchInv
  <2> SUFFICES ASSUME BatchInit PROVE BatchInv
    OBVIOUS
  <2>1. stored \in DocMap /\ AllValid(stored) /\ NoNulls(stored)
    <3>1. /\ stored \in [Keys -> {d \in Document : /\ ValidDocument(Definition, d)
                                                  /\ d.vec # Null} \cup {NoDoc}]
          /\ NoDoc \notin Document
      BY NoDocAssumption DEF BatchInit
    <3>2. QED
      BY <3>1 DEF DocMap, AllValid, NoNulls
  <2>2. /\ batch = EmptyBatch /\ replayed = stored /\ statuses = <<>>
        /\ revived = FALSE /\ refused = FALSE
    BY DEF BatchInit
  <2>3. batch \in Batch /\ AllRecordable(batch.upserts) /\ OutcomeSetsDisjoint
    BY <2>2, EmptyBatchTyped DEF AllRecordable, OutcomeSetsDisjoint
  <2>4. BatchStatuses = <<>>
    BY <2>2, EmptyBatchTyped DEF BatchStatuses
  <2>5. Outcome(stored, batch) = replayed
    BY <2>1, <2>2, EmptyBatchTyped
  <2>6. /\ replayed \in DocMap /\ NoNulls(replayed) /\ statuses \in Seq(Statuses)
        /\ revived \in BOOLEAN /\ refused \in BOOLEAN
    <3>1. <<>> \in Seq(Statuses)
      OBVIOUS
    <3>2. QED
      BY <2>1, <2>2, <3>1
  <2>7. BatchTyped
    BY <2>1, <2>3, <2>6 DEF BatchTyped
  <2>8. InStep
    BY <2>2, <2>4, <2>5 DEF InStep
  <2>9. QED
    BY <2>3, <2>7, <2>8 DEF BatchInv
<1>2. BatchInv /\ [BatchNext]_batchVars => BatchInv'
  <2>1. ASSUME BatchInv, BatchNext PROVE BatchInv'
    BY <2>1, FoldKeepsInv DEF BatchNext
  <2>2. ASSUME BatchInv, UNCHANGED batchVars PROVE BatchInv'
    BY <2>2 DEF BatchInv, BatchTyped, AllValid, NoNulls, AllRecordable, OutcomeSetsDisjoint,
                InStep, BatchStatuses, batchVars
  <2>3. QED
    BY <2>1, <2>2
<1>3. QED
  BY <1>1, <1>2, PTL DEF BatchSpec

\* In every batch, no key is both to be written and to be deleted
\* (DocumentBatch::record_upsert and record_delete supersede each other).
THEOREM BatchSetsDisjoint == BatchSpec => []OutcomeSetsDisjoint
<1>1. BatchInv => OutcomeSetsDisjoint
  BY DEF BatchInv
<1>2. QED
  BY <1>1, BatchInvHolds, PTL

\* Every batch, of whatever length, is its actions one request at a time, in
\* the documents it leaves and in the statuses it answers, unless one of its
\* actions looked at a stored document that the batch had deleted
\* (apply_document_action and merge_or_fallback do not consult the deletes)
\* or one of those requests fails for a null vector.
THEOREM BatchIsItsActions == BatchSpec => []ActionsApplyInOrderUnlessRevived
BY InvInOrder, BatchInvHolds, PTL

\* The write phase of every batch, over stores that agree, ends with stores
\* that agree on its outcome and refuses no vector, unless one is null: and
\* then for want of a text to fill it in from (index_documents).
THEOREM BatchWritesConverge == BatchSpec => []WritePhaseConverges
BY InvConverges, BatchInvHolds, PTL

=============================================================================
