---------------------------- MODULE IndexCatalog ----------------------------
(***************************************************************************)
(* What the service promises its writers: one catalog of indexes, changed  *)
(* by whole requests.  A batch is applied at once to the documents the     *)
(* index has, an update in place keeps them when the new definition is     *)
(* compatible, and nothing else ever changes a document.                   *)
(***************************************************************************)
EXTENDS DocumentBatch

CONSTANTS
    Definitions,    \* the definitions clients may create or put
    Batches,        \* the action sequences clients may send
    Initial         \* the catalog at the start

VARIABLE catalog    \* the indexes with their documents

\* All actions of a batch, in request order, against fixed documents.
FoldBatch(s, docs, actions) == Stages(s, docs, actions)[Len(actions)]

Create(n) ==
    /\ catalog[n] = NoIndex
    /\ \E s \in Definitions : catalog' = [catalog EXCEPT ![n] = [schema |-> s, docs |-> NoDocs]]

Put(n) ==
    \E s \in Definitions :
        LET keep == catalog[n] # NoIndex /\ SchemaCompatible(catalog[n].schema, s)
        IN  catalog' = [catalog EXCEPT ![n] =
                [schema |-> s, docs |-> IF keep THEN catalog[n].docs ELSE NoDocs]]

Drop(n) == catalog' = [catalog EXCEPT ![n] = NoIndex]

Apply(n) ==
    /\ catalog[n] # NoIndex
    /\ \E actions \in Batches :
         LET docs == catalog[n].docs
         IN  catalog' = [catalog EXCEPT ![n].docs =
                Outcome(docs, FoldBatch(catalog[n].schema, docs, actions))]

Clear == catalog' = [n \in Names |-> NoIndex]

CatalogInit == catalog = Initial

CatalogNext == Clear \/ \E n \in Names : Create(n) \/ Put(n) \/ Drop(n) \/ Apply(n)

CatalogSpec == CatalogInit /\ [][CatalogNext]_catalog

=============================================================================
