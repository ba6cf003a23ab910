--------------------------- MODULE AliasNamespace ---------------------------
(***************************************************************************)
(* The alias handlers.  Index and alias names share one namespace; the two *)
(* sides check each other's store before writing their own, without a lock *)
(* that spans the check and the write.                                     *)
(***************************************************************************)
EXTENDS ServiceState

\* Mutant of CheckIndex: an alias may take the name of an index.
CheckIndexForgotten(c) ==
    /\ At(c, "check_index")
    /\ Goto(c, "store_alias")
    /\ UNCHANGED <<stores, job>>

\* reject_alias_index_collision
CheckIndex(c) ==
    /\ At(c, "check_index")
    /\ UNCHANGED stores
    /\ \/ /\ storage[job[c].target] # NoIndex
          /\ Return(c, 409)
       \/ /\ storage[job[c].target] = NoIndex
          /\ Goto(c, "store_alias")
          /\ UNCHANGED job

\* ResourceStore::create refuses a taken name, create_or_update replaces it.
StoreAlias(c) ==
    /\ At(c, "store_alias")
    /\ UNCHANGED <<storage, engine, vectors>>
    /\ \/ /\ job[c].req.op = "createAlias" /\ alias[job[c].target] # NoAlias
          /\ Return(c, 409)
          /\ UNCHANGED alias
       \/ /\ job[c].req.op = "putAlias" \/ alias[job[c].target] = NoAlias
          /\ alias' = [alias EXCEPT ![job[c].target] = job[c].req.target]
          /\ Return(c, 201)

DeleteAlias(c) ==
    /\ At(c, "delete_alias")
    /\ UNCHANGED <<storage, engine, vectors>>
    /\ \/ /\ alias[job[c].target] = NoAlias
          /\ Return(c, 404)
          /\ UNCHANGED alias
       \/ /\ alias[job[c].target] # NoAlias
          /\ alias' = [alias EXCEPT ![job[c].target] = NoAlias]
          /\ Return(c, 204)

AliasStep(c) == CheckIndex(c) \/ StoreAlias(c) \/ DeleteAlias(c)

=============================================================================
