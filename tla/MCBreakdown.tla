---------------------------- MODULE MCBreakdown ----------------------------
(***************************************************************************)
(* Breakdown for TLC.  The creates are interchangeable: no action and no   *)
(* invariant tells one from another.                                       *)
(***************************************************************************)
EXTENDS Breakdown, TLC

Symmetry == Permutations(Creates)
=============================================================================
