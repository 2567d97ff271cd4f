------------------------------ MODULE MCTracker ------------------------------
(***************************************************************************)
(* The tracker on small instances.                                         *)
(***************************************************************************)
EXTENDS Tracker, TLC

Symmetry == Permutations(Workers) \cup Permutations(Updates)

=============================================================================
