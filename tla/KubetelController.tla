--------------------------- MODULE KubetelController ---------------------------
(***************************************************************************)
(* The whole process of "kubetel controller": the controller of            *)
(* controller/controller.go together with the job cleaner NewController    *)
(* gives it.  They share the jobs at the API server, which both delete by  *)
(* name, and die together.  Each has its own listener at the job informer: *)
(* deleteJob handles removals, the cleaner's handlers the rest, and        *)
(* neither waits for the other.                                            *)
(*                                                                         *)
(* To the controller the cleaner is one of the others who delete jobs      *)
(* (OpenSpec); to the cleaner the controller is the cluster.               *)
(***************************************************************************)
EXTENDS Controller

VARIABLES stored, deletionSlate, cleanerPc      \* see JobCleaner

CleanerName == [j \in JobIds |-> JobName(j)]

JC == INSTANCE JobCleaner WITH Name <- CleanerName

cleaner == <<stored, deletionSlate, cleanerPc>>
controller == <<kcd, rollouts, untracked, informers, listener, worker, confirm>>
allVars == <<vars, cleaner>>

StartBoth == Init /\ JC!Init

ControllerStep == Step /\ UNCHANGED cleaner

CleanerStep(j) == JC!Clean(j) /\ UNCHANGED controller

CrashBoth == Crash /\ JC!Crash

NextOfBoth ==
    \/ ControllerStep
    \/ \E j \in JobIds : CleanerStep(j)
    \/ CrashBoth

SpecOfBoth == StartBoth /\ [][NextOfBoth]_allVars

-----------------------------------------------------------------------------
(* Properties. *)

AllTypeOK == TypeOK /\ JC!TypeOK

\* Whatever the cleaner does, the controller behaves as the controller does
\* among others who delete its jobs: so that what is proved of OpenSpec holds
\* of the process.
ImplementsController == OpenSpec

\* The controller changes the jobs in no other ways than JobCleaner's cluster
\* does: so that the cleaner's slate is exact in the process.
ImplementsCleaner == JC!Spec

===============================================================================
