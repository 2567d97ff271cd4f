--------------------------- MODULE JobCleanerProofs ---------------------------
(***************************************************************************)
(* The slate of the job cleaner is exact, for every set of jobs, naming    *)
(* and bound.                                                              *)
(***************************************************************************)
EXTENDS JobCleaner, TLAPS

\* The part of the type invariant that the argument rests on.
SlateTypeOK == cleanerPc \in [JobIds -> {"none", "sleep", "delete", "clear"}]

Inv == SlateTypeOK /\ SlateExact

\* The steps of one goroutine between its start and its deferred function
\* leave both the slate and the set of goroutines alone.
LEMMA GoKeepsSlate ==
    ASSUME Inv, NEW j \in JobIds, NEW to \in {"delete", "clear"},
           cleanerPc[j] # "none", UNCHANGED deletionSlate,
           cleanerPc' = [cleanerPc EXCEPT ![j] = to]
    PROVE  Inv'
<1>1. SlateTypeOK'
  BY DEF Inv, SlateTypeOK
<1>2. \A i \in JobIds : Pending(i)' <=> Pending(i)
  BY DEF Inv, SlateTypeOK, Pending
<1>3. {Name[i] : i \in {k \in JobIds : Pending(k)}}'
        = {Name[i] : i \in {k \in JobIds : Pending(k)}}
  BY <1>2
<1>4. QED
  BY <1>1, <1>2, <1>3 DEF Inv, SlateExact

\* Slate starts a goroutine only for a name that is not on the slate, and
\* puts the name there in the same step.
LEMMA SlateKeepsInv ==
    ASSUME Inv, NEW j \in JobIds, NEW status, Slate(j, status)
    PROVE  Inv'
<1>1. CASE UNCHANGED cleaner
  BY <1>1 DEF Inv, SlateTypeOK, SlateExact, Pending, cleaner
<1>2. CASE /\ Name[j] \notin deletionSlate
           /\ deletionSlate' = deletionSlate \cup {Name[j]}
           /\ cleanerPc' = [cleanerPc EXCEPT ![j] = "sleep"]
  <2>1. SlateTypeOK'
    BY <1>2 DEF Inv, SlateTypeOK
  <2>2. \A i \in JobIds : Pending(i) => Name[i] # Name[j]
    BY <1>2 DEF Inv, SlateExact
  <2>3. \A i \in JobIds : Pending(i)' <=> (Pending(i) \/ i = j)
    BY <1>2 DEF Inv, SlateTypeOK, Pending
  <2>4. deletionSlate' = {Name[i] : i \in {k \in JobIds : Pending(k)}}'
    BY <1>2, <2>3 DEF Inv, SlateExact
  <2>5. QED
    BY <2>1, <2>2, <2>3, <2>4 DEF Inv, SlateExact
<1>3. QED
  BY <1>1, <1>2 DEF Slate

\* The deferred function takes the name off with its only goroutine.
LEMMA ClearKeepsInv ==
    ASSUME Inv, NEW j \in JobIds, Clear(j)
    PROVE  Inv'
<1>1. SlateTypeOK'
  BY DEF Inv, SlateTypeOK, Clear, Go
<1>2. \A i \in JobIds : Pending(i)' <=> (Pending(i) /\ i # j)
  BY DEF Inv, SlateTypeOK, Clear, Go, Pending
<1>3. Pending(j)
  BY DEF Clear, Go, Pending
<1>4. \A i \in JobIds : Pending(i) /\ i # j => Name[i] # Name[j]
  BY <1>3 DEF Inv, SlateExact
<1>5. deletionSlate' = {Name[i] : i \in {k \in JobIds : Pending(k)}}'
  BY <1>2, <1>4 DEF Inv, SlateExact, Clear
<1>6. QED
  BY <1>1, <1>2, <1>5 DEF Inv, SlateExact

LEMMA InvInductive == Spec => []Inv
<1>1. Init => Inv
  BY DEF Init, Inv, SlateTypeOK, SlateExact, Pending
<1>2. Inv /\ [Next]_vars => Inv'
  <2> SUFFICES ASSUME Inv, [Next]_vars PROVE Inv'
    OBVIOUS
  <2>1. ASSUME UNCHANGED cleaner PROVE Inv'
    BY <2>1 DEF Inv, SlateTypeOK, SlateExact, Pending, cleaner
  <2>2. ASSUME NEW j \in JobIds,
               JobStarts(j) \/ JobEnds(j) \/ ControllerDeletes(j) \/ JobRemoved(j)
        PROVE  Inv'
    BY <2>1, <2>2 DEF JobStarts, JobEnds, ControllerDeletes, JobRemoved
  <2>3. ASSUME NEW j \in JobIds, CleanAddJob(j) PROVE Inv'
    BY <2>3, SlateKeepsInv DEF CleanAddJob
  <2>4. ASSUME NEW j \in JobIds, Resync(j) PROVE Inv'
    BY <2>4, SlateKeepsInv DEF Resync
  <2>5. ASSUME NEW j \in JobIds,
               FindFinished(j) \/ FindNothing(j) \/ Delete(j) \/ DeleteFails(j)
        PROVE  Inv'
    BY <2>5, GoKeepsSlate DEF FindFinished, FindNothing, Delete, DeleteFails, Go
  <2>6. ASSUME NEW j \in JobIds, Clear(j) PROVE Inv'
    BY <2>6, ClearKeepsInv
  <2>7. CASE Crash
    BY <2>7 DEF Crash, Inv, SlateTypeOK, SlateExact, Pending
  <2>8. CASE UNCHANGED vars
    BY <2>1, <2>8 DEF vars
  <2>9. QED
    BY <2>2, <2>3, <2>4, <2>5, <2>6, <2>7, <2>8
    DEF Next, ClusterStep, Clean
<1>3. QED
  BY <1>1, <1>2, PTL DEF Spec

\* The slate says exactly which names have a goroutine at work, and none has
\* two: so no job is checked and deleted twice for one ending, and a name
\* cannot stay on the slate, which would keep its jobs from being cleaned.
THEOREM SlateCorrect == Spec => []SlateExact
<1>1. Inv => SlateExact
  BY DEF Inv
<1>2. QED
  BY <1>1, InvInductive, PTL

-----------------------------------------------------------------------------
(* Type correctness. *)

LEMMA SlateType ==
    ASSUME TypeOK, NEW j \in JobIds, NEW status, Slate(j, status)
    PROVE  /\ deletionSlate' \subseteq Names
           /\ cleanerPc' \in [JobIds -> {"none", "sleep", "delete", "clear"}]
<1>1. Name[j] \in Names
  BY DEF Names
<1>2. QED
  BY <1>1 DEF TypeOK, Slate, cleaner

\* The steps of the cluster leave the cleaner alone.
LEMMA ClusterType ==
    ASSUME TypeOK, NEW j \in JobIds,
           JobStarts(j) \/ JobEnds(j) \/ ControllerDeletes(j) \/ JobRemoved(j)
    PROVE  TypeOK'
BY DEF TypeOK, JobsTypeOK, JobStarts, JobEnds, ControllerDeletes, JobRemoved,
       CreateJob, FinishJob, DeleteJob, RemoveJob, cleaner

LEMMA GoroutineType ==
    ASSUME TypeOK, NEW j \in JobIds,
           \/ FindFinished(j) \/ FindNothing(j)
           \/ Delete(j) \/ DeleteFails(j) \/ Clear(j)
    PROVE  TypeOK'
BY DEF TypeOK, JobsTypeOK, FindFinished, FindNothing, Delete, DeleteFails,
       Clear, Go, DeleteJob, cluster

LEMMA ListenerType ==
    ASSUME TypeOK, NEW j \in JobIds, CleanAddJob(j) \/ Resync(j)
    PROVE  TypeOK'
<1>1. \E status : Slate(j, status)
  BY DEF CleanAddJob, Resync
<1>2. /\ deletionSlate' \subseteq Names
      /\ cleanerPc' \in [JobIds -> {"none", "sleep", "delete", "clear"}]
  BY <1>1, SlateType
<1>3. stored' \in [JobIds -> {"absent", "running", "finished"}]
  BY DEF CleanAddJob, Resync, TypeOK, JobsTypeOK
<1>4. UNCHANGED cluster
  BY DEF CleanAddJob, Resync
<1>5. QED
  BY <1>2, <1>3, <1>4 DEF TypeOK, JobsTypeOK, cluster

LEMMA CrashType == ASSUME TypeOK, Crash PROVE TypeOK'
BY CleanerAssumption DEF TypeOK, JobsTypeOK, Crash, Names

\* The variables keep their types, for any jobs and names.
THEOREM TypeCorrect == Spec => []TypeOK
<1>1. Init => TypeOK
  BY CleanerAssumption DEF Init, TypeOK, JobsTypeOK, Names
<1>2. TypeOK /\ UNCHANGED vars => TypeOK'
  BY DEF TypeOK, JobsTypeOK, vars, cluster, cleaner
<1>3. TypeOK /\ [Next]_vars => TypeOK'
  BY <1>2, ClusterType, ListenerType, GoroutineType, CrashType
  DEF Next, ClusterStep, Clean
<1>4. QED
  BY <1>1, <1>3, PTL DEF Spec

===============================================================================
