------------------------------- MODULE MCSystem -------------------------------
(***************************************************************************)
(* The controller and its trackers on small instances.                     *)
(***************************************************************************)
EXTENDS System

CONSTANTS k1, k2

\* KCDs of different names, and of different apps in one namespace.
OwnNames == [k \in KCDs |-> k]
OwnApps == [k \in KCDs |-> <<"ns", k>>]

===============================================================================
