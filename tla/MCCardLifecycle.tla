--------------------------- MODULE MCCardLifecycle ---------------------------
(***************************************************************************)
(* Small instances of CardLifecycle.                                       *)
(***************************************************************************)
EXTENDS CardLifecycle, TLC

Symmetry == Permutations(Requests)
=============================================================================
