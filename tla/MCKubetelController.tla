-------------------------- MODULE MCKubetelController --------------------------
(***************************************************************************)
(* The controller's process on a small instance.                           *)
(***************************************************************************)
EXTENDS KubetelController, TLC

CONSTANTS k1, k2

\* KCDs of different names, and of different apps in one namespace.
OwnNames == [k \in KCDs |-> k]
OwnApps == [k \in KCDs |-> <<"ns", k>>]

Symmetry == Permutations(Workers)

===============================================================================
