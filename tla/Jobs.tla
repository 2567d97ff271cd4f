--------------------------------- MODULE Jobs ---------------------------------
(***************************************************************************)
(* The jobs the API server holds, as the controller and the job cleaner    *)
(* see them through their batch client.  Everything here is outside the    *)
(* repository: it is modelled from how controller/ uses it.                *)
(*                                                                         *)
(* A tracker job is running until it is finished ("Complete" or "Failed"). *)
(* Both deleters ask for foreground deletion, so an accepted Delete marks  *)
(* the job, which Get still returns and Create still finds in the way,     *)
(* until its pods are gone and it is removed.                              *)
(***************************************************************************)
CONSTANT JobIds             \* namespaced names of tracker jobs

VARIABLES jobs,             \* JobIds -> "absent", "running" or "finished"
          deleting          \* jobs whose deletion has been accepted

JobsTypeOK ==
    /\ jobs \in [JobIds -> {"absent", "running", "finished"}]
    /\ deleting \subseteq {j \in JobIds : jobs[j] # "absent"}

\* jobsClient.Create when the name is free.
CreateJob(j) ==
    /\ jobs[j] = "absent"
    /\ jobs' = [jobs EXCEPT ![j] = "running"]
    /\ UNCHANGED deleting

\* jobsClient.Delete when the job is there.
DeleteJob(j) ==
    /\ jobs[j] # "absent"
    /\ deleting' = deleting \cup {j}
    /\ UNCHANGED jobs

\* The tracker in the job ends, or the job gives up restarting it.
FinishJob(j) ==
    /\ jobs[j] = "running"
    /\ jobs' = [jobs EXCEPT ![j] = "finished"]
    /\ UNCHANGED deleting

\* The pods of a job being deleted are gone.
RemoveJob(j) ==
    /\ j \in deleting
    /\ deleting' = deleting \ {j}
    /\ jobs' = [jobs EXCEPT ![j] = "absent"]

===============================================================================
