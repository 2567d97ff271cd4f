------------------------------ MODULE JobCleaner ------------------------------
(***************************************************************************)
(* The job cleaner of controller/jobcleaner.go: it deletes tracker jobs    *)
(* some time after they have ended.                                        *)
(*                                                                         *)
(* The job informer's listener (cleanAddJob, for Add and Update) slates a  *)
(* finished job by name and starts a goroutine that sleeps, asks the API   *)
(* server whether the job is finished still, deletes it by name, and takes *)
(* the name off the slate.  The informer replays its store every 30        *)
(* seconds.                                                                *)
(***************************************************************************)
EXTENDS Naturals

CONSTANTS
    JobIds,         \* namespaced names of tracker jobs
    Name,           \* job -> its name, without the namespace
    MaxCrashes      \* bound: crashes of the process

ASSUME CleanerAssumption ==
    /\ DOMAIN Name = JobIds
    /\ MaxCrashes \in Nat

Names == {Name[j] : j \in JobIds}

VARIABLES
    jobs, deleting,     \* the API server: see Jobs
    crashes,
    stored,             \* the job informer's store: each job as last seen
    deletionSlate,      \* names slated for deletion
    cleanerPc           \* job -> where its goroutine of deleteJobAfter is

INSTANCE Jobs

cluster == <<jobs, deleting, crashes>>
cleaner == <<deletionSlate, cleanerPc>>
vars == <<cluster, stored, cleaner>>

Init ==
    /\ jobs \in [JobIds -> {"absent", "running", "finished"}]
    /\ deleting = {}
    /\ crashes = 0
    /\ stored = [j \in JobIds |-> "absent"]
    /\ deletionSlate = {}
    /\ cleanerPc = [j \in JobIds |-> "none"]

-----------------------------------------------------------------------------
(* The cluster: the controller creates jobs again and deletes them, and    *)
(* the informer follows.                                                   *)

JobStarts(j) ==
    /\ CreateJob(j)
    /\ UNCHANGED <<crashes, stored, cleaner>>

JobEnds(j) ==
    /\ FinishJob(j)
    /\ UNCHANGED <<crashes, stored, cleaner>>

ControllerDeletes(j) ==
    /\ j \notin deleting
    /\ DeleteJob(j)
    /\ UNCHANGED <<crashes, stored, cleaner>>

JobRemoved(j) ==
    /\ RemoveJob(j)
    /\ UNCHANGED <<crashes, stored, cleaner>>

-----------------------------------------------------------------------------
(* The job informer's listener. *)

\* A goroutine runs deleteJobAfter for the job.
Pending(j) == cleanerPc[j] # "none"

\* Mutants: the slate is keyed by the namespaced name, which the deferred
\* function does not know; the slate is not looked at.
SlateByKey(j, status) ==
    IF status = "finished" /\ j \notin deletionSlate
    THEN /\ deletionSlate' = deletionSlate \cup {j}
         /\ cleanerPc' = [cleanerPc EXCEPT ![j] = "sleep"]
    ELSE UNCHANGED cleaner
SlateAlways(j, status) ==
    IF status = "finished"
    THEN /\ deletionSlate' = deletionSlate \cup {Name[j]}
         /\ cleanerPc' = [cleanerPc EXCEPT ![j] = "sleep"]
    ELSE UNCHANGED cleaner

\* cleanAddJob on an object of the store: a finished job is slated unless
\* its name is.
Slate(j, status) ==
    IF status = "finished" /\ Name[j] \notin deletionSlate
    THEN /\ deletionSlate' = deletionSlate \cup {Name[j]}
         /\ cleanerPc' = [cleanerPc EXCEPT ![j] = "sleep"]
    ELSE UNCHANGED cleaner

\* An event: the store follows the API server and the listener handles it.
\* There is no handler for a removal.
CleanAddJob(j) ==
    /\ stored[j] # jobs[j]
    /\ stored' = [stored EXCEPT ![j] = jobs[j]]
    /\ Slate(j, jobs[j])
    /\ UNCHANGED cluster

\* A resync replays the store.
Resync(j) ==
    /\ stored[j] # "absent"
    /\ Slate(j, stored[j])
    /\ UNCHANGED <<cluster, stored>>

-----------------------------------------------------------------------------
(* The goroutines of deleteJobAfter. *)

Go(j, from, to) ==
    /\ cleanerPc[j] = from
    /\ cleanerPc' = [cleanerPc EXCEPT ![j] = to]

\* After the sleep: jobsClient.Get and the test of the job's conditions.
\* Either call to the API server may fail.
FindFinished(j) ==
    /\ Go(j, "sleep", "delete")
    /\ jobs[j] = "finished"
    /\ UNCHANGED <<cluster, stored, deletionSlate>>

\* Mutant: the slate is cleared after a deletion only.
FindNothingKeepSlate(j) ==
    /\ Go(j, "sleep", "none")
    /\ UNCHANGED <<cluster, stored, deletionSlate>>

FindNothing(j) ==
    /\ Go(j, "sleep", "clear")
    /\ UNCHANGED <<cluster, stored, deletionSlate>>

\* Mutant: without foreground deletion the job is gone at once.
DeleteInBackground(j) ==
    /\ Go(j, "delete", "clear")
    /\ jobs[j] # "absent"
    /\ jobs' = [jobs EXCEPT ![j] = "absent"]
    /\ deleting' = deleting \ {j}
    /\ UNCHANGED <<crashes, stored, deletionSlate>>

\* jobsClient.Delete; an error is only logged.
Delete(j) ==
    /\ Go(j, "delete", "clear")
    /\ DeleteJob(j)
    /\ UNCHANGED <<crashes, stored, deletionSlate>>

DeleteFails(j) ==
    /\ Go(j, "delete", "clear")
    /\ UNCHANGED <<cluster, stored, deletionSlate>>

\* The deferred function.
Clear(j) ==
    /\ Go(j, "clear", "none")
    /\ deletionSlate' = deletionSlate \ {Name[j]}
    /\ UNCHANGED <<cluster, stored>>

\* The process dies and a new one starts with none of its memory.
Crash ==
    /\ crashes < MaxCrashes
    /\ crashes' = crashes + 1
    /\ stored' = [j \in JobIds |-> "absent"]
    /\ deletionSlate' = {}
    /\ cleanerPc' = [j \in JobIds |-> "none"]
    /\ UNCHANGED <<jobs, deleting>>

-----------------------------------------------------------------------------
\* A step of the process, or of the cluster.
Clean(j) == \/ CleanAddJob(j) \/ Resync(j)
            \/ FindFinished(j) \/ FindNothing(j)
            \/ Delete(j) \/ DeleteFails(j) \/ Clear(j)
ClusterStep(j) ==
    JobStarts(j) \/ JobEnds(j) \/ ControllerDeletes(j) \/ JobRemoved(j)

Next ==
    \/ \E j \in JobIds : ClusterStep(j) \/ Clean(j)
    \/ Crash

Spec == Init /\ [][Next]_vars

(***************************************************************************)
(* Fairness.  The informer follows the API server and resyncs every 30     *)
(* seconds, sleeps end, goroutines run, and the API server removes what it *)
(* was asked to delete and does not refuse every call for ever.  Weak      *)
(* fairness of Resync asks no more than that a finished job whose name     *)
(* stays free is slated at some replay.                                    *)
(***************************************************************************)
Fairness ==
    \A j \in JobIds :
        /\ WF_vars(CleanAddJob(j)) /\ WF_vars(Resync(j))
        /\ WF_vars(FindFinished(j) \/ FindNothing(j)) /\ SF_vars(FindFinished(j))
        /\ WF_vars(Delete(j) \/ DeleteFails(j)) /\ SF_vars(Delete(j))
        /\ WF_vars(Clear(j))
        /\ WF_vars(JobRemoved(j))

FairSpec == Spec /\ Fairness

-----------------------------------------------------------------------------
(* Properties. *)

\* The variables have the shapes the Go declarations give them.
TypeOK ==
    /\ JobsTypeOK
    /\ crashes \in 0 .. MaxCrashes
    /\ stored \in [JobIds -> {"absent", "running", "finished"}]
    /\ deletionSlate \subseteq Names
    /\ cleanerPc \in [JobIds -> {"none", "sleep", "delete", "clear"}]

\* A name is on the slate exactly while a goroutine is at work for a job of
\* that name, and never two are, whatever events, replays, removals and
\* re-creations of jobs of that name come in between.
SlateExact ==
    /\ deletionSlate = {Name[j] : j \in {i \in JobIds : Pending(i)}}
    /\ \A i, j \in JobIds :
          Pending(i) /\ Pending(j) /\ Name[i] = Name[j] => i = j

\* README.md:17: "Clean old jobs from the API server".  A job that has ended
\* is removed in the end, also one that was found running by the goroutine
\* that had been started for it or that waits for another job of its name.
\* If jobs of that name were started for ever it might wait for ever, so the
\* starts are to stop.
StartsCease == <>[][\A j \in JobIds : ~JobStarts(j)]_vars
CleanedUp ==
    StartsCease =>
        \A j \in JobIds : (jobs[j] = "finished") ~> (jobs[j] # "finished")

===============================================================================
