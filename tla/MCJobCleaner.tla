----------------------------- MODULE MCJobCleaner -----------------------------
(***************************************************************************)
(* The job cleaner on a small instance.                                    *)
(***************************************************************************)
EXTENDS JobCleaner

CONSTANTS a1, a2

\* Jobs of one name in different namespaces.
SameName == [j \in JobIds |-> "deploy-tracker-a"]

===============================================================================
