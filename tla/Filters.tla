------------------------------- MODULE Filters -------------------------------
(***************************************************************************)
(* Filter expressions: comparisons and the like, see Comparisons, and      *)
(*                                                                         *)
(*   And, Or        clauses                                                *)
(*   Not            inner                                                  *)
(***************************************************************************)
EXTENDS Comparisons

RECURSIVE Matches(_, _)
Matches(expr, fields) ==
    CASE expr.kind = "And" -> \A i \in DOMAIN expr.clauses : Matches(expr.clauses[i], fields)
      [] expr.kind = "Or"  -> \E i \in DOMAIN expr.clauses : Matches(expr.clauses[i], fields)
      [] expr.kind = "Not" -> ~Matches(expr.inner, fields)
      [] OTHER             -> LeafMatches(expr, fields)

RECURSIVE ValidFilter(_, _)
ValidFilter(expr, definition) ==
    CASE expr.kind \in {"And", "Or"} ->
            \A i \in DOMAIN expr.clauses : ValidFilter(expr.clauses[i], definition)
      [] expr.kind = "Not" -> ValidFilter(expr.inner, definition)
      [] OTHER             -> ValidLeaf(expr, definition)

=============================================================================
