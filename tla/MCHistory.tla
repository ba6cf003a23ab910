------------------------------ MODULE MCHistory ------------------------------
(***************************************************************************)
(* The instances of MCService, with the history variables of               *)
(* RequestHistory.                                                         *)
(***************************************************************************)
EXTENDS MCService, RequestHistory

=============================================================================
