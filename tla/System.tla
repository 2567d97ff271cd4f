-------------------------------- MODULE System --------------------------------
(***************************************************************************)
(* The controller together with the trackers it starts, from the start of  *)
(* a deployment to the report of its end.                                  *)
(*                                                                         *)
(* The tracker that runs in a job is abstracted to what Tracker promises   *)
(* (FinishReported, DeliversLive): it starts some time after its job was   *)
(* created, reads the KCD (trackAddKcd) or watches it (trackKcd) until it  *)
(* is finished, reports that end as the end of the version it was started  *)
(* for, and ends, whatever the KCD does from then on.                      *)
(***************************************************************************)
EXTENDS Controller

CONSTANT Redeploys  \* may a version be deployed again while the tracker of
                    \* its last deployment is about to end?

ASSUME SystemAssumption == Redeploys \in BOOLEAN

VARIABLES
    tracker,        \* running job -> "starting", "watching" or "ending"
    unreported      \* history: KCDs whose last rollout has ended and no
                    \* tracker of its version has noticed

trackers == <<tracker, unreported>>
systemVars == <<vars, trackers>>

SystemInit ==
    /\ Init
    /\ tracker = [j \in JobIds |-> "starting"]
    /\ unreported = {}

Begin(k, v) ==
    /\ Redeploys \/ tracker[JobOf(k, v)] # "ending"
    /\ StartRollout(k, v)
    /\ unreported' = unreported \ {k}
    /\ UNCHANGED tracker

Finish(k) ==
    /\ EndRollout(k)
    /\ unreported' = unreported \cup {k}
    /\ UNCHANGED tracker

Remove(k) ==
    /\ Withdraw(k)
    /\ unreported' = unreported \ {k}
    /\ UNCHANGED tracker

Finished(k) == kcd[k] # NoKCD /\ kcd[k].status = "Finished"

\* The KCDs that the tracker in a job takes for its own: trackers know their
\* namespace and their kcdapp.
Own(j) == {k \in KCDs : App[k] = j[1]}

\* Mutant: the status of an update is not tested.
NoticeEveryUpdate(j, k) ==
    /\ kcd[k] # NoKCD
    /\ tracker' = [tracker EXCEPT ![j] = "ending"]
    /\ unreported' = IF kcd[k].version = j[2] THEN unreported \ {k} ELSE unreported

\* The end that the tracker has seen is reported, whatever version it is of.
Notice(j, k) ==
    /\ Finished(k)
    /\ tracker' = [tracker EXCEPT ![j] = "ending"]
    /\ unreported' = IF kcd[k].version = j[2] THEN unreported \ {k} ELSE unreported

\* Mutant: an Add of a finished KCD is noted only.
ReadUnfinished(j) ==
    /\ jobs[j] = "running" /\ tracker[j] = "starting"
    /\ \A k \in Own(j) : ~Finished(k)
    /\ tracker' = [tracker EXCEPT ![j] = "watching"]
    /\ UNCHANGED <<vars, unreported>>

\* The tracker's listener gets its KCDs as Adds.
ReadKcd(j) ==
    /\ jobs[j] = "running" /\ tracker[j] = "starting"
    /\ \/ \E k \in Own(j) : Notice(j, k)
       \/ /\ \A k \in Own(j) : ~Finished(k)
          /\ tracker' = [tracker EXCEPT ![j] = "watching"]
          /\ UNCHANGED unreported
    /\ UNCHANGED vars

\* It gets an update.
SeeKcd(j) ==
    /\ jobs[j] = "running" /\ tracker[j] = "watching"
    /\ \E k \in Own(j) : Notice(j, k)
    /\ UNCHANGED vars

Stop(j) ==
    /\ tracker[j] = "ending"
    /\ TrackerEnds(j)
    /\ tracker' = [tracker EXCEPT ![j] = "starting"]
    /\ UNCHANGED unreported

Vanish(j) ==
    /\ JobRemoved(j)
    /\ tracker' = [tracker EXCEPT ![j] = "starting"]
    /\ UNCHANGED unreported

SystemNext ==
    \/ \E k \in KCDs : \/ \E v \in Versions : Begin(k, v)
                       \/ Finish(k) \/ Remove(k)
    \/ \E j \in JobIds : ReadKcd(j) \/ SeeKcd(j) \/ Stop(j) \/ Vanish(j)
    \/ Work /\ UNCHANGED trackers

SystemSpec == SystemInit /\ [][SystemNext]_systemVars

(***************************************************************************)
(* Fairness.  That of the controller, and a tracker makes progress: its    *)
(* pod starts, its informer follows the KCD and, by Tracker's liveness, it *)
(* ends.                                                                   *)
(***************************************************************************)
SystemFairness ==
    /\ Fairness
    /\ \A j \in JobIds : /\ WF_systemVars(ReadKcd(j)) /\ WF_systemVars(SeeKcd(j))
                         /\ WF_systemVars(Stop(j))

SystemFairSpec == SystemSpec /\ SystemFairness

-----------------------------------------------------------------------------
(* Properties. *)

\* A rollout that goes on, and one that has ended unnoticed, has a tracker of
\* its version that has not yet seen an end, or is to get one.
Due == {k \in KCDs \ Skipped : kcd[k] \in Progressing \/ k \in unreported}

EndComing ==
    \A k \in Due :
        LET j == JobOf(k, kcd[k].version) IN
        (jobs[j] = "running" /\ tracker[j] # "ending") \/ StartComing(k)

\* README.md:16: "Creates a tracker job when KCD starts a deploy", so that
\* its end is reported: the end of a KCD's last rollout is noticed by a
\* tracker of its version, also when the controller or the tracker's pod is
\* so slow that the rollout has ended before the tracker starts.
EndReported ==
    \A k \in KCDs \ Skipped : k \in unreported ~> k \notin unreported

===============================================================================
