------------------------ MODULE KubetelControllerProofs ------------------------
(***************************************************************************)
(* The controller's process implements both of its parts, for every set of *)
(* KCDs, versions and workers and any bound: what is proved of the         *)
(* controller among others and of the job cleaner holds of the process.    *)
(***************************************************************************)
EXTENDS KubetelController, ControllerStateProofs

\* The cleaner touches the controller's variables only by deleting a job.
LEMMA CleanerIsAnother ==
    ASSUME NEW j \in JobIds, CleanerStep(j)
    PROVE  OtherDeletes(j) \/ UNCHANGED vars
<1>1. UNCHANGED controller
  BY DEF CleanerStep
<1>2. CASE JC!Delete(j)
  <2>1. JC!DeleteJob(j) /\ crashes' = crashes
    BY <1>2 DEF JC!Delete
  <2>2. CASE j \in deleting
    BY <1>1, <2>1, <2>2 DEF JC!DeleteJob, vars, cluster, controller
  <2>3. CASE j \notin deleting
    BY <1>1, <2>1, <2>3 DEF JC!DeleteJob, OtherDeletes, DeleteJob, controller
  <2>4. QED
    BY <2>2, <2>3
<1>3. CASE \/ JC!CleanAddJob(j) \/ JC!Resync(j) \/ JC!FindFinished(j)
           \/ JC!FindNothing(j) \/ JC!DeleteFails(j) \/ JC!Clear(j)
  <2>1. UNCHANGED <<jobs, deleting, crashes>>
    BY <1>3 DEF JC!CleanAddJob, JC!Resync, JC!FindFinished, JC!FindNothing,
                JC!DeleteFails, JC!Clear, JC!cluster
  <2>2. QED
    BY <1>1, <2>1 DEF vars, cluster, controller
<1>4. QED
  BY <1>2, <1>3 DEF CleanerStep, JC!Clean

\* The process implements the controller among others who delete its jobs.
THEOREM ControllerImplemented == SpecOfBoth => ImplementsController
<1>1. StartBoth => Init
  BY DEF StartBoth
<1>2. [NextOfBoth]_allVars => [OpenNext]_vars
  <2> SUFFICES ASSUME [NextOfBoth]_allVars PROVE [OpenNext]_vars
    OBVIOUS
  <2>1. CASE ControllerStep
    BY <2>1 DEF ControllerStep, OpenNext, Next
  <2>2. ASSUME NEW j \in JobIds, CleanerStep(j) PROVE [OpenNext]_vars
    BY <2>2, CleanerIsAnother DEF OpenNext
  <2>3. CASE CrashBoth
    BY <2>3 DEF CrashBoth, OpenNext, Next
  <2>4. CASE UNCHANGED allVars
    BY <2>4 DEF allVars
  <2>5. QED
    BY <2>1, <2>2, <2>3, <2>4 DEF NextOfBoth
<1>3. QED
  BY <1>1, <1>2, PTL DEF SpecOfBoth, ImplementsController, OpenSpec

\* In the process, with the cleaner deleting the same jobs, deleteJob sends on
\* open channels only, and no mapped confirmation is missed.
THEOREM ProcessConfirms == SpecOfBoth => [](ConfirmChannelOpen /\ ConfirmationComing)
BY ControllerImplemented, NeverSendsOnClosed, ConfirmationNotMissed, PTL
DEF ImplementsController

\* In the process, with its workers, its cleaner and its crashes, the start of
\* a rollout that the listener has heard of is not forgotten before a worker
\* that has found its version is through with it.
THEOREM ProcessKeepsStarts == SpecOfBoth => []StartKept
BY ControllerImplemented, StartsKept, PTL DEF ImplementsController

\* The process ignores no start, also when it has crashed with notifications
\* pending.
THEOREM ProcessHearsStarts == SeenAndNamed /\ SpecOfBoth => []StartHeard
BY ControllerImplemented, StartsHeard DEF ImplementsController

\* The cleaner has no part in what the listener remembers.
THEOREM ProcessStateKnown == SeenAndNamed /\ SpecOfBoth => []LastKnownState
BY ControllerImplemented, StateKnown DEF ImplementsController

-----------------------------------------------------------------------------
(* The controller changes the jobs in ways the cleaner expects. *)

LEMMA WorkerIsCluster ==
    ASSUME TypeOK, NEW w \in Workers, Delete(w) \/ Create(w), UNCHANGED cleaner
    PROVE  JC!ClusterStep(Job(w)) \/ UNCHANGED JC!vars
<1>1. crashes' = crashes
  BY DEF Delete, Create
<1>2. CASE Delete(w)
  <2>1. CASE DeleteJob(Job(w)) /\ Job(w) \notin deleting
    BY <1>1, <2>1 DEF DeleteJob, JC!ClusterStep, JC!ControllerDeletes,
                      JC!DeleteJob, JC!cleaner, cleaner
  <2>2. CASE DeleteJob(Job(w)) /\ Job(w) \in deleting
    BY <1>1, <2>2 DEF DeleteJob, JC!vars, JC!cluster, JC!cleaner, cleaner
  <2>3. CASE UNCHANGED <<jobs, deleting>>
    BY <1>1, <2>3 DEF JC!vars, JC!cluster, JC!cleaner, cleaner
  <2>4. DeleteJob(Job(w)) \/ UNCHANGED <<jobs, deleting>>
    BY <1>2 DEF Delete
  <2>5. QED
    BY <2>1, <2>2, <2>3, <2>4
<1>3. CASE Create(w)
  <2>1. CASE CreateJob(Job(w))
    BY <1>1, <2>1 DEF CreateJob, JC!ClusterStep, JC!JobStarts, JC!CreateJob,
                      JC!cleaner, cleaner
  <2>2. CASE UNCHANGED <<jobs, deleting>>
    BY <1>1, <2>2 DEF JC!vars, JC!cluster, JC!cleaner, cleaner
  <2>3. QED
    BY <1>3, <2>1, <2>2 DEF Create, CreateTracker
<1>4. QED
  BY <1>2, <1>3

LEMMA ControllerIsCluster ==
    ASSUME TypeOK, ControllerStep
    PROVE  (\E j \in JobIds : JC!ClusterStep(j)) \/ UNCHANGED JC!vars
<1>1. UNCHANGED cleaner
  BY DEF ControllerStep
<1>2. ASSUME UNCHANGED <<jobs, deleting, crashes>> PROVE UNCHANGED JC!vars
  BY <1>1, <1>2 DEF JC!vars, JC!cluster, JC!cleaner, cleaner
<1>3. ASSUME NEW j \in JobIds, TrackerEnds(j) PROVE JC!ClusterStep(j)
  BY <1>1, <1>3 DEF TrackerEnds, FinishJob, JC!ClusterStep, JC!JobEnds,
                    JC!FinishJob, JC!cleaner, cleaner
<1>4. ASSUME NEW j \in JobIds, JobRemoved(j) PROVE JC!ClusterStep(j)
  BY <1>1, <1>4 DEF JobRemoved, RemoveJob, JC!ClusterStep, JC!JobRemoved,
                    JC!RemoveJob, JC!cleaner, cleaner
<1>5. ASSUME NEW w \in Workers, Delete(w) \/ Create(w)
      PROVE  (\E j \in JobIds : JC!ClusterStep(j)) \/ UNCHANGED JC!vars
  <2>1. Job(w) \in JobIds
    BY <1>5, RegisteredJob DEF Delete, Create, Go
  <2>2. QED
    BY <1>1, <1>5, <2>1, WorkerIsCluster
<1>6. ASSUME NEW w \in Workers,
             \/ Dequeue(w) \/ Lookup(w) \/ GetJob(w) \/ Register(w)
             \/ Confirm(w) \/ Cleanup(w)
      PROVE  UNCHANGED <<jobs, deleting, crashes>>
  BY <1>6 DEF Dequeue, Lookup, GetJob, Register, Confirm, Cleanup, cluster
<1>7. ASSUME NEW k \in KCDs,
             \/ \E v \in Versions : StartRollout(k, v)
             \/ EndRollout(k) \/ Withdraw(k) \/ Sync(k) \/ Release(k)
      PROVE  UNCHANGED <<jobs, deleting, crashes>>
  BY <1>7 DEF StartRollout, EndRollout, Withdraw, Change, Sync, Release, cluster
<1>8. ASSUME TrackAddKcd \/ TrackKcd \/ HandleDeletion
      PROVE  UNCHANGED <<jobs, deleting, crashes>>
  BY <1>8 DEF TrackAddKcd, TrackKcd, HandleNote, HandleDeletion, cluster
<1>9. QED
  BY <1>2, <1>3, <1>4, <1>5, <1>6, <1>7, <1>8 DEF ControllerStep, Step, Work

\* The process implements the job cleaner.
THEOREM CleanerImplemented == SpecOfBoth => ImplementsCleaner
<1>1. StartBoth => JC!Init
  BY DEF StartBoth
<1>2. TypeOK /\ [NextOfBoth]_allVars => [JC!Next]_(JC!vars)
  <2> SUFFICES ASSUME TypeOK, [NextOfBoth]_allVars PROVE [JC!Next]_(JC!vars)
    OBVIOUS
  <2>1. CASE ControllerStep
    BY <2>1, ControllerIsCluster DEF JC!Next
  <2>2. ASSUME NEW j \in JobIds, CleanerStep(j) PROVE [JC!Next]_(JC!vars)
    BY <2>2 DEF CleanerStep, JC!Next
  <2>3. CASE CrashBoth
    BY <2>3 DEF CrashBoth, JC!Next
  <2>4. CASE UNCHANGED allVars
    BY <2>4 DEF allVars, vars, cluster, cleaner, JC!vars, JC!cluster, JC!cleaner
  <2>5. QED
    BY <2>1, <2>2, <2>3, <2>4 DEF NextOfBoth
<1>3. SpecOfBoth => []TypeOK
  BY ControllerImplemented, TypeCorrect, PTL DEF ImplementsController
<1>4. QED
  BY <1>1, <1>2, <1>3, PTL DEF SpecOfBoth, ImplementsCleaner, JC!Spec

-----------------------------------------------------------------------------
(* What JobCleanerProofs shows of the cleaner holds of the process.  JC is *)
(* its specification in KubetelController, JP the same with its theorems.  *)

JP == INSTANCE JobCleanerProofs WITH Name <- CleanerName

LEMMA CleanerAssumed == JP!CleanerAssumption
BY ControllerAssumption DEF JP!CleanerAssumption, CleanerName

LEMMA SameCleaner == JC!Spec => JP!Spec
<1>1. JC!Init => JP!Init
  BY DEF JC!Init, JP!Init
<1>2. [JC!Next]_(JC!vars) => [JP!Next]_(JP!vars)
  BY Zenon
     DEF JC!Next, JC!Clean, JC!ClusterStep, JC!JobStarts, JC!JobEnds,
         JC!ControllerDeletes, JC!JobRemoved, JC!CleanAddJob, JC!Resync,
         JC!FindFinished, JC!FindNothing, JC!Delete, JC!DeleteFails, JC!Clear,
         JC!Crash, JC!Go, JC!Slate, JC!CreateJob, JC!FinishJob, JC!DeleteJob,
         JC!RemoveJob, JC!vars, JC!cluster, JC!cleaner,
         JP!Next, JP!Clean, JP!ClusterStep, JP!JobStarts, JP!JobEnds,
         JP!ControllerDeletes, JP!JobRemoved, JP!CleanAddJob, JP!Resync,
         JP!FindFinished, JP!FindNothing, JP!Delete, JP!DeleteFails, JP!Clear,
         JP!Crash, JP!Go, JP!Slate, JP!CreateJob, JP!FinishJob, JP!DeleteJob,
         JP!RemoveJob, JP!vars, JP!cluster, JP!cleaner
<1>3. QED
  BY <1>1, <1>2, PTL DEF JC!Spec, JP!Spec

\* Both parts of the process keep their types.
THEOREM ProcessTypes == SpecOfBoth => []AllTypeOK
<1>1. JP!Spec => []JP!TypeOK
  BY JP!TypeCorrect, CleanerAssumed, PTL
<1>2. JP!TypeOK => JC!TypeOK
  BY Zenon DEF JP!TypeOK, JP!JobsTypeOK, JP!Names,
               JC!TypeOK, JC!JobsTypeOK, JC!Names
<1>3. QED
  BY <1>1, <1>2, SameCleaner, CleanerImplemented, ControllerImplemented,
     TypeCorrect, PTL DEF AllTypeOK, ImplementsController, ImplementsCleaner

\* In the process too the slate holds exactly the names with a goroutine, one
\* each, whatever the controller does to the jobs meanwhile.
THEOREM ProcessSlate == SpecOfBoth => []JC!SlateExact
<1>1. JP!Spec => []JP!SlateExact
  BY JP!SlateCorrect, CleanerAssumed, PTL
<1>2. JP!SlateExact => JC!SlateExact
  BY Zenon DEF JP!SlateExact, JP!Pending, JC!SlateExact, JC!Pending
<1>3. QED
  BY <1>1, <1>2, SameCleaner, CleanerImplemented, PTL DEF ImplementsCleaner

===============================================================================
