--------------------------- MODULE ControllerProofs ---------------------------
(***************************************************************************)
(* The controller, for every set of KCDs, versions and workers, any naming *)
(* and any bound: type correctness, and the confirmation protocol between  *)
(* the workers and deleteJob.                                              *)
(***************************************************************************)
EXTENDS Controller, TLAPS

\* Facts on sequences, in the form the steps below need them.
LEMMA EmptySeqType == ASSUME NEW S PROVE <<>> \in Seq(S)
OBVIOUS

LEMMA AppendType ==
    ASSUME NEW S, NEW s \in Seq(S), NEW x \in S
    PROVE  /\ Append(s, x) \in Seq(S)
           /\ Len(Append(s, x)) = Len(s) + 1
           /\ \A n \in 1 .. Len(s) : Append(s, x)[n] = s[n]
           /\ Append(s, x)[Len(s) + 1] = x
OBVIOUS

LEMMA HeadTailType ==
    ASSUME NEW S, NEW s \in Seq(S), s # <<>>
    PROVE  /\ Head(s) \in S /\ Tail(s) \in Seq(S)
           /\ Head(s) = s[1] /\ Len(Tail(s)) = Len(s) - 1 /\ Len(s) \in Nat
           /\ \A n \in 2 .. Len(s) : s[n] = Tail(s)[n - 1]
OBVIOUS

-----------------------------------------------------------------------------
(* Type correctness, one group of variables at a time. *)

ClusterTypeOK ==
    /\ JobsTypeOK
    /\ kcd \in [KCDs -> KCD \cup {NoKCD}]
    /\ rollouts \in [KCDs -> 0 .. MaxRollouts]
    /\ untracked \subseteq {k \in KCDs : kcd[k] \in Progressing}
    /\ crashes \in 0 .. MaxCrashes

Note == [key : KCDs, old : KCD \cup {NoKCD}, new : KCD]

InformersTypeOK ==
    /\ cached \in [KCDs -> KCD \cup {NoKCD}]
    /\ notes \in Seq(Note)
    /\ deletions \in Seq(JobIds)

ListenerTypeOK ==
    /\ kcdStates \in [{Name[k] : k \in KCDs} -> Status \cup {""}]
    /\ waiting \subseteq KCDs /\ ready \subseteq KCDs
    /\ requeues \in [KCDs -> 0 .. MaxRetries]
    /\ start \in [KCDs -> {"none", "unseen", "queued"}]

PcValues == {"idle", "lookup", "get", "register", "delete", "wait", "cleanup",
             "create"}

WorkerTypeOK ==
    /\ workerPc \in [Workers -> PcValues]
    /\ workerKey \in [Workers -> KCDs \cup {NoKCD}]
    /\ workerVersion \in [Workers -> Versions \cup {NoKCD}]
    /\ \A w \in Workers : workerPc[w] # "idle" => workerKey[w] \in KCDs
    /\ \A w \in Workers : workerPc[w] \notin {"idle", "lookup"} =>
                             workerVersion[w] \in Versions

ConfirmTypeOK ==
    /\ jobDeleteStatus \in [JobNames -> Workers \cup {NoOne}]
    /\ sending \in Workers \cup {NoOne}

LEMMA TypeParts ==
    TypeOK <=> /\ ClusterTypeOK /\ InformersTypeOK /\ ListenerTypeOK
               /\ WorkerTypeOK /\ ConfirmTypeOK
BY DEF TypeOK, ClusterTypeOK, InformersTypeOK, ListenerTypeOK, WorkerTypeOK,
       ConfirmTypeOK, Note, PcValues

LEMMA InitType == Init => TypeOK
<1> SUFFICES ASSUME Init PROVE TypeOK
  OBVIOUS
<1>1. ClusterTypeOK
  <2>1. JobsTypeOK
    BY DEF Init, JobsTypeOK
  <2>2. 0 \in 0 .. MaxRollouts /\ 0 \in 0 .. MaxCrashes
    BY ControllerAssumption
  <2>3. untracked \subseteq {k \in KCDs : kcd[k] \in Progressing}
    BY DEF Init
  <2>4. rollouts \in [KCDs -> 0 .. MaxRollouts] /\ crashes \in 0 .. MaxCrashes
    BY <2>2 DEF Init
  <2>5. kcd \in [KCDs -> KCD \cup {NoKCD}]
    BY DEF Init
  <2>6. QED
    BY <2>1, <2>3, <2>4, <2>5 DEF ClusterTypeOK
<1>2. InformersTypeOK
  <2>1. cached \in [KCDs -> KCD \cup {NoKCD}]
    BY DEF Init
  <2>2. notes \in Seq(Note)
    BY EmptySeqType DEF Init
  <2>3. deletions \in Seq(JobIds)
    BY EmptySeqType DEF Init
  <2>4. QED
    BY <2>1, <2>2, <2>3 DEF InformersTypeOK
<1>3. ListenerTypeOK
  <2>1. 0 \in 0 .. MaxRetries
    BY ControllerAssumption
  <2>2. requeues \in [KCDs -> 0 .. MaxRetries]
    BY <2>1 DEF Init
  <2>3. kcdStates \in [{Name[k] : k \in KCDs} -> Status \cup {""}]
    BY DEF Init
  <2>4. start \in [KCDs -> {"none", "unseen", "queued"}]
    BY DEF Init, AllUnseen
  <2>5. QED
    BY <2>2, <2>3, <2>4 DEF Init, ListenerTypeOK
<1>4. WorkerTypeOK
  BY DEF Init, WorkerTypeOK, PcValues
<1>5. ConfirmTypeOK
  BY DEF Init, ConfirmTypeOK
<1>6. QED
  BY <1>1, <1>2, <1>3, <1>4, <1>5, TypeParts

\* The groups of variables a step leaves alone keep their types.
LEMMA FrameType ==
    ASSUME TypeOK
    PROVE  /\ UNCHANGED cluster => ClusterTypeOK'
           /\ UNCHANGED informers => InformersTypeOK'
           /\ UNCHANGED listener => ListenerTypeOK'
           /\ UNCHANGED worker => WorkerTypeOK'
           /\ UNCHANGED confirm => ConfirmTypeOK'
<1> USE TypeParts
<1>1. UNCHANGED cluster => ClusterTypeOK'
  BY DEF ClusterTypeOK, JobsTypeOK, cluster
<1>2. UNCHANGED informers => InformersTypeOK'
  BY DEF InformersTypeOK, informers
<1>3. UNCHANGED listener => ListenerTypeOK'
  BY DEF ListenerTypeOK, listener
<1>4. UNCHANGED worker => WorkerTypeOK'
  BY DEF WorkerTypeOK, worker
<1>5. UNCHANGED confirm => ConfirmTypeOK'
  BY DEF ConfirmTypeOK, confirm
<1>6. QED
  BY <1>1, <1>2, <1>3, <1>4, <1>5

LEMMA TypePartsNext ==
    ASSUME ClusterTypeOK', InformersTypeOK', ListenerTypeOK', WorkerTypeOK',
           ConfirmTypeOK'
    PROVE  TypeOK'
BY DEF TypeOK, ClusterTypeOK, InformersTypeOK, ListenerTypeOK, WorkerTypeOK,
       ConfirmTypeOK, Note, PcValues

\* The steps of the cluster.
LEMMA ClusterStepType ==
    ASSUME TypeOK,
           \/ \E k \in KCDs : \/ \E v \in Versions : StartRollout(k, v)
                              \/ EndRollout(k) \/ Withdraw(k)
           \/ \E j \in JobIds : TrackerEnds(j) \/ OtherDeletes(j)
    PROVE  TypeOK'
<1>1. ClusterTypeOK
  BY TypeParts
<1>2. ASSUME NEW k \in KCDs, NEW v \in Versions, StartRollout(k, v)
      PROVE  ClusterTypeOK'
  <2>1. Rollout(v) \in KCD /\ Rollout(v) \in Progressing
    BY DEF Rollout, KCD, Status, Progressing
  <2>2. rollouts' \in [KCDs -> 0 .. MaxRollouts]
    BY <1>1, <1>2, ControllerAssumption DEF StartRollout, ClusterTypeOK
  <2>3. kcd' = [kcd EXCEPT ![k] = Rollout(v)]
    BY <1>2 DEF StartRollout, Change
  <2>4. untracked' \subseteq untracked \cup {k}
    BY <1>2 DEF StartRollout
  <2>5. QED
    BY <1>1, <1>2, <2>1, <2>2, <2>3, <2>4
    DEF StartRollout, Change, ClusterTypeOK, JobsTypeOK
<1>3. ASSUME NEW k \in KCDs, EndRollout(k) PROVE ClusterTypeOK'
  <2>1. kcd[k] \in KCD
    BY <1>3 DEF EndRollout, Progressing, Rollout, KCD, Status
  <2>2. [kcd[k] EXCEPT !.status = "Finished"] \in KCD
    BY <2>1 DEF KCD, Status
  <2>3. QED
    BY <1>1, <1>3, <2>2 DEF EndRollout, Change, ClusterTypeOK, JobsTypeOK
<1>4. ASSUME NEW k \in KCDs, Withdraw(k) PROVE ClusterTypeOK'
  BY <1>1, <1>4 DEF Withdraw, Change, ClusterTypeOK, JobsTypeOK
<1>5. ASSUME NEW j \in JobIds, TrackerEnds(j) PROVE ClusterTypeOK'
  BY <1>1, <1>5 DEF TrackerEnds, FinishJob, ClusterTypeOK, JobsTypeOK
<1>6. ASSUME NEW j \in JobIds, OtherDeletes(j) PROVE ClusterTypeOK'
  BY <1>1, <1>6 DEF OtherDeletes, DeleteJob, ClusterTypeOK, JobsTypeOK
<1>7. ClusterTypeOK'
  BY <1>2, <1>3, <1>4, <1>5, <1>6
<1>8. ListenerTypeOK'
  <2>1. ListenerTypeOK
    BY TypeParts
  <2>2. CASE UNCHANGED listener
    BY <2>2, FrameType
  <2>3. ASSUME NEW k \in KCDs, NEW c, Change(k, c) PROVE ListenerTypeOK'
    BY <2>1, <2>3 DEF Change, ListenerTypeOK
  <2>4. QED
    BY <2>2, <2>3
    DEF StartRollout, EndRollout, Withdraw, TrackerEnds, OtherDeletes
<1>9. UNCHANGED <<informers, worker, confirm>>
  BY DEF StartRollout, EndRollout, Withdraw, Change, TrackerEnds, OtherDeletes
<1>10. QED
  BY <1>7, <1>8, <1>9, FrameType, TypePartsNext

\* A job is removed, or its removal handled.
LEMMA JobInformerType ==
    ASSUME TypeOK, (\E j \in JobIds : JobRemoved(j)) \/ HandleDeletion
    PROVE  TypeOK'
<1> USE TypeParts
<1>1. CASE \E j \in JobIds : JobRemoved(j)
  <2> PICK j \in JobIds : JobRemoved(j)
    BY <1>1
  <2>1. ClusterTypeOK'
    BY DEF JobRemoved, RemoveJob, ClusterTypeOK, JobsTypeOK
  <2>2. InformersTypeOK'
    <3>1. deletions' \in Seq(JobIds)
      BY AppendType DEF JobRemoved, InformersTypeOK
    <3>2. QED
      BY <3>1 DEF JobRemoved, InformersTypeOK
  <2>3. UNCHANGED <<listener, worker, confirm>>
    BY DEF JobRemoved
  <2>4. QED
    BY <2>1, <2>2, <2>3, FrameType, TypePartsNext
<1>2. CASE HandleDeletion
  <2>1. Head(deletions) \in JobIds /\ deletions' \in Seq(JobIds)
    BY <1>2, HeadTailType DEF HandleDeletion, InformersTypeOK
  <2>2. InformersTypeOK'
    BY <1>2, <2>1 DEF HandleDeletion, InformersTypeOK
  <2>3. JobName(Head(deletions)) \in JobNames
    BY <2>1 DEF JobNames
  <2>4. ConfirmTypeOK'
    BY <1>2, <2>3 DEF HandleDeletion, ConfirmTypeOK
  <2>5. UNCHANGED <<cluster, listener, worker>>
    BY <1>2 DEF HandleDeletion
  <2>6. QED
    BY <2>2, <2>4, <2>5, FrameType, TypePartsNext
<1>3. QED
  BY <1>1, <1>2

\* The KCD informer follows the API server.
LEMMA SyncType ==
    ASSUME TypeOK, NEW k \in KCDs, Sync(k)
    PROVE  TypeOK'
<1> USE TypeParts
<1>1. kcd[k] \in KCD \cup {NoKCD} /\ cached[k] \in KCD \cup {NoKCD}
  BY DEF ClusterTypeOK, InformersTypeOK
<1>2. notes' \in Seq(Note)
  <2>1. CASE kcd[k] = NoKCD
    BY <2>1 DEF Sync, InformersTypeOK
  <2>2. CASE kcd[k] # NoKCD
    <3>1. PICK old \in {cached[k]}
                         \cup {c \in {kcd[k]} : Bundling /\ cached[k] # NoKCD} :
             notes' = Append(notes, [key |-> k, old |-> old, new |-> kcd[k]])
      BY <2>2 DEF Sync
    <3>2. [key |-> k, old |-> old, new |-> kcd[k]] \in Note
      BY <1>1, <2>2 DEF Note
    <3>3. QED
      BY <3>1, <3>2, AppendType DEF InformersTypeOK
  <2>3. QED
    BY <2>1, <2>2
<1>3. InformersTypeOK'
  BY <1>1, <1>2 DEF Sync, InformersTypeOK
<1>4. UNCHANGED <<cluster, listener, worker, confirm>>
  BY DEF Sync
<1>5. QED
  BY <1>3, <1>4, FrameType, TypePartsNext

\* The helpers of the rate limited queue.
LEMMA QueueType ==
    ASSUME ListenerTypeOK, NEW k \in KCDs,
           AddRateLimited(k) \/ Forget(k)
    PROVE  waiting' \subseteq KCDs /\ requeues' \in [KCDs -> 0 .. MaxRetries]
<1>1. requeues[k] \in 0 .. MaxRetries /\ 0 \in 0 .. MaxRetries
  <2>1. requeues[k] \in 0 .. MaxRetries
    BY DEF ListenerTypeOK
  <2>2. 0 \in 0 .. MaxRetries
    BY ControllerAssumption
  <2>3. QED
    BY <2>1, <2>2
<1>2. requeues[k] < MaxRetries => requeues[k] + 1 \in 0 .. MaxRetries
  BY <1>1, ControllerAssumption
<1>3. QED
  BY <1>1, <1>2 DEF AddRateLimited, Forget, ListenerTypeOK

\* A worker succeeds or fails with its key.
LEMMA EndType ==
    ASSUME TypeOK, NEW w \in Workers, workerKey[w] \in KCDs,
           Conclude(w) \/ Fail(w), UNCHANGED <<kcdStates, ready>>
    PROVE  ListenerTypeOK'
<1> DEFINE k == workerKey[w]
<1>1. ListenerTypeOK
  BY TypeParts
<1>2. AddRateLimited(k) \/ Forget(k)
  BY DEF Fail, Conclude
<1>3. waiting' \subseteq KCDs /\ requeues' \in [KCDs -> 0 .. MaxRetries]
  BY <1>1, <1>2, QueueType
<1>4. start' \in [KCDs -> {"none", "unseen", "queued"}]
  <2>1. CASE Conclude(w)
    BY <1>1, <2>1 DEF Conclude, ListenerTypeOK
  <2>2. CASE UNCHANGED start
    BY <1>1, <2>2 DEF ListenerTypeOK
  <2>3. QED
    BY <2>1, <2>2 DEF Fail
<1>5. QED
  BY <1>1, <1>3, <1>4 DEF ListenerTypeOK

\* The KCD listener and the delays of the queue.
LEMMA ListenerStepType ==
    ASSUME TypeOK, TrackAddKcd \/ TrackKcd \/ \E k \in KCDs : Release(k)
    PROVE  TypeOK'
<1> USE TypeParts
<1>1. CASE TrackAddKcd \/ TrackKcd
  <2> DEFINE k == NextNote.key
             s == NextNote.new.status
  <2>1. HandleNote
    BY <1>1 DEF TrackAddKcd, TrackKcd
  <2>2. NextNote \in Note /\ notes' \in Seq(Note)
    BY <2>1, HeadTailType DEF HandleNote, InformersTypeOK, NextNote
  <2>3. k \in KCDs /\ s \in Status
    BY <2>2 DEF Note, KCD
  <2>4. InformersTypeOK'
    BY <2>1, <2>2 DEF HandleNote, InformersTypeOK
  <2>5. \/ AddRateLimited(k)
        \/ UNCHANGED <<waiting, requeues>>
    BY <1>1 DEF TrackAddKcd, TrackKcd, Enqueue
  <2>6. waiting' \subseteq KCDs /\ requeues' \in [KCDs -> 0 .. MaxRetries]
    BY <2>3, <2>5, QueueType DEF ListenerTypeOK
  <2>7. \/ kcdStates' = kcdStates
        \/ kcdStates' = [kcdStates EXCEPT ![Name[k]] = s]
    BY <1>1 DEF TrackAddKcd, TrackKcd
  <2>8. start' \in [KCDs -> {"none", "unseen", "queued"}]
    BY <1>1 DEF TrackAddKcd, TrackKcd, Enqueue, ListenerTypeOK
  <2>9. ListenerTypeOK'
    BY <2>1, <2>3, <2>6, <2>7, <2>8 DEF HandleNote, ListenerTypeOK
  <2>10. UNCHANGED <<cluster, worker, confirm>>
    BY <2>1 DEF HandleNote
  <2>11. QED
    BY <2>4, <2>9, <2>10, FrameType, TypePartsNext
<1>2. CASE \E k \in KCDs : Release(k)
  <2>1. ListenerTypeOK'
    BY <1>2 DEF Release, ListenerTypeOK
  <2>2. UNCHANGED <<cluster, informers, worker, confirm>>
    BY <1>2 DEF Release
  <2>3. QED
    BY <2>1, <2>2, FrameType, TypePartsNext
<1>3. QED
  BY <1>1, <1>2

-----------------------------------------------------------------------------
(* The workers. *)

LEMMA RegisteredJob ==
    ASSUME TypeOK, NEW w \in Workers, workerPc[w] \notin {"idle", "lookup"}
    PROVE  Job(w) \in JobIds /\ JobName(Job(w)) \in JobNames
<1>1. workerKey[w] \in KCDs /\ workerVersion[w] \in Versions
  BY DEF TypeOK
<1>2. Job(w) \in JobIds
  BY <1>1 DEF Job, JobOf, JobIds
<1>3. QED
  BY <1>2 DEF JobNames

LEMMA DequeueType ==
    ASSUME TypeOK, NEW w \in Workers, Dequeue(w)
    PROVE  TypeOK'
<1> USE TypeParts
<1>1. PICK k \in ready : /\ workerKey' = [workerKey EXCEPT ![w] = k]
                         /\ ready' = ready \ {k}
                         /\ Go(w, "idle", "lookup")
                         /\ UNCHANGED <<cluster, informers, kcdStates, waiting,
                                        requeues, start, workerVersion, confirm>>
  BY DEF Dequeue
<1>2. k \in KCDs
  BY DEF ListenerTypeOK
<1>3. WorkerTypeOK'
  BY <1>1, <1>2 DEF WorkerTypeOK, PcValues, Go
<1>4. ListenerTypeOK'
  BY <1>1 DEF ListenerTypeOK
<1>5. QED
  BY <1>1, <1>3, <1>4, FrameType, TypePartsNext

LEMMA LookupType ==
    ASSUME TypeOK, NEW w \in Workers, Lookup(w)
    PROVE  TypeOK'
<1> USE TypeParts
<1> DEFINE k == workerKey[w]
<1>1. k \in KCDs
  BY DEF Lookup, Go, WorkerTypeOK
<1>2. cached[k] # NoKCD => cached[k].version \in Versions
  BY <1>1 DEF InformersTypeOK, KCD
<1>3. WorkerTypeOK'
  <2>1. CASE Go(w, "lookup", "idle") /\ workerKey' = [workerKey EXCEPT ![w] = NoKCD]
                                    /\ UNCHANGED workerVersion
    BY <2>1 DEF WorkerTypeOK, PcValues, Go
  <2>2. CASE /\ Go(w, "lookup", "get") /\ cached[k] # NoKCD
             /\ workerVersion' = [workerVersion EXCEPT ![w] = cached[k].version]
             /\ UNCHANGED workerKey
    BY <1>2, <2>2 DEF WorkerTypeOK, PcValues, Go
  <2>3. QED
    BY <2>1, <2>2 DEF Lookup
<1>4. ListenerTypeOK'
  <2>1. CASE Fail(w) /\ UNCHANGED <<kcdStates, ready>>
    BY <1>1, <2>1, EndType
  <2>2. CASE UNCHANGED <<kcdStates, waiting, ready, requeues, start>>
    BY <2>2 DEF ListenerTypeOK
  <2>3. QED
    BY <2>1, <2>2 DEF Lookup
<1>5. UNCHANGED <<cluster, informers, confirm>>
  BY DEF Lookup
<1>6. QED
  BY <1>3, <1>4, <1>5, FrameType, TypePartsNext

\* The steps that move a worker and leave its key and version alone.
LEMMA GoType ==
    ASSUME TypeOK, NEW w \in Workers, NEW from, NEW to \in PcValues,
           from \notin {"idle", "lookup"}, Go(w, from, to),
           UNCHANGED <<workerKey, workerVersion>>
    PROVE  WorkerTypeOK'
BY TypeParts DEF WorkerTypeOK, PcValues, Go

LEMMA WorkerStepType ==
    ASSUME TypeOK, NEW w \in Workers,
           GetJob(w) \/ Register(w) \/ Delete(w) \/ Confirm(w) \/ Cleanup(w)
    PROVE  TypeOK'
<1> USE TypeParts
<1>1. WorkerTypeOK'
  BY GoType DEF PcValues, GetJob, Register, Delete, Confirm, Cleanup
<1>2. UNCHANGED <<informers, listener>>
  BY DEF GetJob, Register, Delete, Confirm, Cleanup
<1>3. ClusterTypeOK'
  <2>1. CASE UNCHANGED cluster
    BY <2>1, FrameType
  <2>2. CASE Delete(w) /\ DeleteJob(Job(w))
    <3>1. Job(w) \in JobIds
      BY <2>2, RegisteredJob DEF Delete, Go
    <3>2. QED
      BY <2>2, <3>1 DEF Delete, DeleteJob, ClusterTypeOK, JobsTypeOK
  <2>3. QED
    BY <2>1, <2>2 DEF GetJob, Register, Delete, Confirm, Cleanup, cluster
<1>4. ConfirmTypeOK'
  BY DEF GetJob, Register, Delete, Confirm, Cleanup, ConfirmTypeOK, confirm
<1>5. QED
  BY <1>1, <1>2, <1>3, <1>4, FrameType, TypePartsNext

LEMMA CreateType ==
    ASSUME TypeOK, NEW w \in Workers, Create(w)
    PROVE  TypeOK'
<1> USE TypeParts
<1> DEFINE k == workerKey[w]
<1>1. k \in KCDs /\ Job(w) \in JobIds
  BY RegisteredJob DEF Create, Go, WorkerTypeOK
<1>2. WorkerTypeOK'
  BY DEF Create, Go, WorkerTypeOK, PcValues
<1>3. JobsTypeOK'
  BY <1>1 DEF Create, CreateTracker, CreateJob, ClusterTypeOK, JobsTypeOK
<1>4. untracked' \subseteq untracked /\ UNCHANGED <<kcd, rollouts, crashes>>
  BY DEF Create, CreateTracker
<1>5. ClusterTypeOK'
  BY <1>3, <1>4 DEF ClusterTypeOK
<1>6. Fail(w) \/ Conclude(w)
  BY DEF Create
<1>7. ListenerTypeOK'
  BY <1>1, <1>6, EndType DEF Create
<1>8. UNCHANGED <<informers, confirm>>
  BY DEF Create
<1>9. QED
  BY <1>2, <1>5, <1>7, <1>8, FrameType, TypePartsNext

LEMMA CrashType == TypeOK /\ Crash => TypeOK'
<1> SUFFICES ASSUME TypeOK, Crash PROVE TypeOK'
  OBVIOUS
<1> USE TypeParts
<1>1. ClusterTypeOK'
  <2>1. crashes' \in 0 .. MaxCrashes
    <3>1. crashes \in 0 .. MaxCrashes
      BY DEF ClusterTypeOK
    <3>2. crashes < MaxCrashes /\ crashes' = crashes + 1
      BY DEF Crash
    <3>3. MaxCrashes \in Nat
      BY ControllerAssumption
    <3>4. QED
      BY <3>1, <3>2, <3>3
  <2>2. QED
    BY <2>1 DEF Crash, ClusterTypeOK, JobsTypeOK
<1>2. InformersTypeOK'
  <2>1. notes' \in Seq(Note) /\ deletions' \in Seq(JobIds)
    BY EmptySeqType DEF Crash
  <2>2. QED
    BY <2>1 DEF Crash, InformersTypeOK
<1>3. ListenerTypeOK'
  <2>1. 0 \in 0 .. MaxRetries
    BY ControllerAssumption
  <2>2. DOMAIN kcdStates = {Name[k] : k \in KCDs}
    BY DEF ListenerTypeOK
  <2>3. kcdStates' \in [{Name[k] : k \in KCDs} -> Status \cup {""}]
    BY <2>2 DEF Crash
  <2>4. start' \in [KCDs -> {"none", "unseen", "queued"}]
    BY DEF Crash, AllUnseen
  <2>5. QED
    BY <2>1, <2>3, <2>4 DEF Crash, ListenerTypeOK
<1>4. WorkerTypeOK'
  BY DEF Crash, WorkerTypeOK, PcValues
<1>5. ConfirmTypeOK'
  BY DEF Crash, ConfirmTypeOK
<1>6. QED
  BY <1>1, <1>2, <1>3, <1>4, <1>5, TypePartsNext

LEMMA NextType == TypeOK /\ [OpenNext]_vars => TypeOK'
<1> SUFFICES ASSUME TypeOK, [OpenNext]_vars PROVE TypeOK'
  OBVIOUS
<1>1. CASE UNCHANGED vars
  BY <1>1, FrameType, TypePartsNext DEF vars
<1>2. CASE OpenNext
  BY <1>2, ClusterStepType, JobInformerType, SyncType, ListenerStepType,
     DequeueType, LookupType, WorkerStepType, CreateType, CrashType
  DEF OpenNext, Next, Step, Work
<1>3. QED
  BY <1>1, <1>2

\* Every variable keeps its shape, whatever KCDs, versions and workers there
\* are: a worker past its look-up never has an empty key or version in hand.
THEOREM TypeCorrect == OpenSpec => []TypeOK
BY InitType, NextType, PTL DEF OpenSpec

-----------------------------------------------------------------------------
(* The confirmation protocol.                                              *)
(*                                                                         *)
(* Both properties are inductive together with the types.  What makes them *)
(* so is that a worker puts its channel under the name of the job it works *)
(* for and takes whatever is there away before it leaves, that deleteJob   *)
(* keeps the mutex while it sends, and that a Delete event that has been   *)
(* handled while a channel was mapped turns into a send.                   *)

Inv == TypeOK /\ ConfirmChannelOpen /\ ConfirmationComing

\* What a step of the environment may do: add to the jobs being deleted.
LEMMA OutsideKeeps ==
    ASSUME Inv, TypeOK',
           UNCHANGED <<worker, confirm, deletions>>, deleting \subseteq deleting'
    PROVE  Inv'
<1>1. ConfirmChannelOpen'
  BY DEF Inv, ConfirmChannelOpen, Registered, Job, JobOf, JobName, worker, confirm
<1>2. ConfirmationComing'
  BY DEF Inv, ConfirmationComing, Job, JobOf, JobName, worker, confirm
<1>3. QED
  BY <1>1, <1>2 DEF Inv

\* A worker that is outside the protocol before and after the step.
LEMMA UnregisteredKeeps ==
    ASSUME Inv, TypeOK', NEW w \in Workers,
           ~Registered(w), ~Registered(w)',
           \A v \in Workers \ {w} : /\ workerPc'[v] = workerPc[v]
                                    /\ workerKey'[v] = workerKey[v]
                                    /\ workerVersion'[v] = workerVersion[v],
           UNCHANGED <<confirm, deletions, deleting>>
    PROVE  Inv'
<1>1. \A v \in Workers : Registered(v) =>
         /\ v # w
         /\ workerPc'[v] = workerPc[v] /\ Registered(v)'
         /\ Job(v)' = Job(v) /\ JobName(Job(v))' = JobName(Job(v))
  BY DEF Registered, Job, JobOf, JobName
<1>2. \A n \in JobNames : jobDeleteStatus[n] \in Workers \cup {NoOne}
  BY DEF Inv, TypeOK
<1>3. sending \in Workers \cup {NoOne}
  BY DEF Inv, TypeOK
<1>4. ConfirmChannelOpen'
  BY <1>1, <1>2, <1>3 DEF Inv, ConfirmChannelOpen, confirm
<1>5. \A v \in Workers : workerPc'[v] = "wait" => Registered(v)
  BY DEF Registered
<1>6. ConfirmationComing'
  BY <1>1, <1>5 DEF Inv, ConfirmationComing, confirm
<1>7. QED
  BY <1>4, <1>6 DEF Inv

\* A worker that moves keeps its job, and the others keep everything.
LEMMA GoKeepsJobs ==
    ASSUME TypeOK, NEW w \in Workers, NEW from, NEW to, Go(w, from, to),
           UNCHANGED <<workerKey, workerVersion>>
    PROVE  /\ workerPc[w] = from /\ workerPc'[w] = to
           /\ \A v \in Workers : v # w => workerPc'[v] = workerPc[v]
           /\ \A v \in Workers : /\ Job(v)' = Job(v)
                                 /\ JobName(Job(v))' = JobName(Job(v))
BY DEF TypeOK, Go, Job, JobOf, JobName

LEMMA RegisterKeeps ==
    ASSUME Inv, TypeOK', NEW w \in Workers, Register(w)
    PROVE  Inv'
<1> DEFINE name == JobName(Job(w))
<1>1. TypeOK /\ workerPc[w] = "register"
  BY DEF Inv, Register, Go
<1>2. name \in JobNames
  BY <1>1, RegisteredJob
<1>3. /\ workerPc'[w] = "delete"
      /\ \A v \in Workers : v # w => workerPc'[v] = workerPc[v]
      /\ \A v \in Workers : /\ Job(v)' = Job(v)
                            /\ JobName(Job(v))' = JobName(Job(v))
  BY <1>1, GoKeepsJobs DEF Register
<1>4. /\ jobDeleteStatus'[name] = w
      /\ \A n \in JobNames : n # name => jobDeleteStatus'[n] = jobDeleteStatus[n]
      /\ sending' = NoOne
  BY <1>1, <1>2 DEF TypeOK, Register, Unlocked
<1>5. \A n \in JobNames : jobDeleteStatus[n] \in Workers \cup {NoOne}
  BY <1>1 DEF TypeOK
<1>6. \A v \in Workers : Registered(v) => Registered(v)' /\ v # w
  BY <1>1, <1>3 DEF Registered
<1>7. Registered(w)'
  BY <1>3 DEF Registered
<1>8. ConfirmChannelOpen'
  BY <1>3, <1>4, <1>5, <1>6, <1>7 DEF Inv, ConfirmChannelOpen
<1>9. \A v \in Workers : workerPc'[v] = "wait" => v # w /\ workerPc[v] = "wait"
  BY <1>3
<1>10. \A v \in Workers : workerPc[v] = "wait" => JobName(Job(v)) \in JobNames
  BY <1>1, RegisteredJob
<1>11. sending = NoOne /\ NoOne \notin Workers
  BY ControllerAssumption DEF Register, Unlocked
<1>12. UNCHANGED <<deleting, deletions>>
  BY DEF Register, cluster, informers
<1>13. ConfirmationComing'
  BY <1>3, <1>4, <1>9, <1>10, <1>11, <1>12 DEF Inv, ConfirmationComing
<1>14. QED
  BY <1>8, <1>13 DEF Inv

LEMMA DeleteKeeps ==
    ASSUME Inv, TypeOK', NEW w \in Workers, Delete(w)
    PROVE  Inv'
<1>1. TypeOK /\ workerPc[w] = "delete"
  BY DEF Inv, Delete, Go
<1>2. /\ workerPc'[w] \in {"wait", "cleanup"}
      /\ \A v \in Workers : v # w => workerPc'[v] = workerPc[v]
      /\ \A v \in Workers : /\ Job(v)' = Job(v)
                            /\ JobName(Job(v))' = JobName(Job(v))
  BY <1>1, GoKeepsJobs DEF Delete
<1>3. UNCHANGED <<confirm, deletions>> /\ deleting \subseteq deleting'
  BY DEF Delete, DeleteJob, informers
<1>4. \A v \in Workers : Registered(v)' <=> Registered(v)
  BY <1>1, <1>2 DEF Registered
<1>5. \A n \in JobNames : jobDeleteStatus[n] \in Workers \cup {NoOne}
  BY <1>1 DEF TypeOK
<1>6. sending \in Workers \cup {NoOne}
  BY <1>1 DEF TypeOK
<1>7. ConfirmChannelOpen'
  BY <1>2, <1>3, <1>4, <1>5, <1>6 DEF Inv, ConfirmChannelOpen, confirm
<1>8. workerPc'[w] = "wait" => Job(w) \in deleting'
  BY <1>1 DEF Delete, DeleteJob, Go, TypeOK
<1>9. ConfirmationComing'
  BY <1>2, <1>3, <1>8 DEF Inv, ConfirmationComing, confirm
<1>10. QED
  BY <1>7, <1>9 DEF Inv

LEMMA ConfirmKeeps ==
    ASSUME Inv, TypeOK', NEW w \in Workers, Confirm(w)
    PROVE  Inv'
<1>1. TypeOK /\ workerPc[w] = "wait" /\ sending = w /\ sending' = NoOne
  BY DEF Inv, Confirm, Go
<1>2. /\ workerPc'[w] = "cleanup"
      /\ \A v \in Workers : v # w => workerPc'[v] = workerPc[v]
      /\ \A v \in Workers : /\ Job(v)' = Job(v)
                            /\ JobName(Job(v))' = JobName(Job(v))
  BY <1>1, GoKeepsJobs DEF Confirm
<1>3. UNCHANGED <<jobDeleteStatus, deletions, deleting>>
  BY DEF Confirm, cluster, informers
<1>4. \A v \in Workers : Registered(v)' <=> Registered(v)
  BY <1>1, <1>2 DEF Registered
<1>5. \A n \in JobNames : jobDeleteStatus[n] \in Workers \cup {NoOne}
  BY <1>1 DEF TypeOK
<1>6. ConfirmChannelOpen'
  BY <1>1, <1>2, <1>3, <1>4, <1>5 DEF Inv, ConfirmChannelOpen
<1>7. ConfirmationComing'
  BY <1>1, <1>2, <1>3 DEF Inv, ConfirmationComing
<1>8. QED
  BY <1>6, <1>7 DEF Inv

LEMMA CleanupKeeps ==
    ASSUME Inv, TypeOK', NEW w \in Workers, Cleanup(w)
    PROVE  Inv'
<1> DEFINE name == JobName(Job(w))
<1>1. TypeOK /\ workerPc[w] = "cleanup" /\ sending' = sending /\ sending = NoOne
  BY DEF Inv, Cleanup, Go, Unlocked
<1>2. name \in JobNames
  BY <1>1, RegisteredJob
<1>3. /\ workerPc'[w] = "create"
      /\ \A v \in Workers : v # w => workerPc'[v] = workerPc[v]
      /\ \A v \in Workers : /\ Job(v)' = Job(v)
                            /\ JobName(Job(v))' = JobName(Job(v))
  BY <1>1, GoKeepsJobs DEF Cleanup
<1>4. /\ jobDeleteStatus'[name] = NoOne
      /\ \A n \in JobNames : n # name => jobDeleteStatus'[n] = jobDeleteStatus[n]
  BY <1>1, <1>2 DEF TypeOK, Cleanup
<1>5. \A n \in JobNames : jobDeleteStatus[n] \in Workers \cup {NoOne}
  BY <1>1 DEF TypeOK
<1>6. \A n \in JobNames : n # name => jobDeleteStatus[n] # w
  BY <1>1, ControllerAssumption DEF Inv, ConfirmChannelOpen
<1>7. \A v \in Workers : v # w => (Registered(v)' <=> Registered(v))
  BY <1>3 DEF Registered
<1>8. ConfirmChannelOpen'
  BY <1>1, <1>3, <1>4, <1>5, <1>6, <1>7 DEF Inv, ConfirmChannelOpen
<1>9. \A v \in Workers : workerPc[v] = "wait" => JobName(Job(v)) \in JobNames
  BY <1>1, RegisteredJob
<1>10. UNCHANGED <<deleting, deletions>> /\ NoOne \notin Workers
  BY ControllerAssumption DEF Cleanup, cluster, informers
<1>11. ConfirmationComing'
  BY <1>1, <1>3, <1>4, <1>9, <1>10 DEF Inv, ConfirmationComing
<1>12. QED
  BY <1>8, <1>11 DEF Inv

\* A removed job leaves the set of jobs being deleted for the queue of
\* Delete events.
LEMMA JobRemovedKeeps ==
    ASSUME Inv, TypeOK', NEW j \in JobIds, JobRemoved(j)
    PROVE  Inv'
<1>1. UNCHANGED <<worker, confirm>>
  BY DEF JobRemoved
<1>2. ConfirmChannelOpen'
  BY <1>1 DEF Inv, ConfirmChannelOpen, Registered, Job, JobOf, JobName, worker, confirm
<1>3. deletions \in Seq(JobIds)
  BY DEF Inv, TypeOK
<1>4. Len(deletions) \in Nat
  BY <1>3
<1>5. /\ Len(deletions') = Len(deletions) + 1
      /\ \A n \in 1 .. Len(deletions) : deletions'[n] = deletions[n]
      /\ deletions'[Len(deletions) + 1] = j
  BY <1>3, AppendType DEF JobRemoved
<1>6. \A n \in 1 .. Len(deletions) : n \in 1 .. Len(deletions')
  BY <1>4, <1>5
<1>7. Len(deletions) + 1 \in 1 .. Len(deletions')
  BY <1>4, <1>5
<1>8. \A i \in deleting : i \in deleting' \/ i = j
  BY DEF JobRemoved, RemoveJob
<1>9. ASSUME NEW v \in Workers, workerPc'[v] = "wait",
             jobDeleteStatus'[JobName(Job(v))'] = v
      PROVE  \/ Job(v)' \in deleting'
             \/ \E n \in 1 .. Len(deletions') : deletions'[n] = Job(v)'
             \/ sending' = v
  <2>1. Job(v)' = Job(v) /\ JobName(Job(v))' = JobName(Job(v))
    BY <1>1 DEF Job, JobOf, JobName, worker
  <2>2. \/ Job(v) \in deleting
        \/ \E n \in 1 .. Len(deletions) : deletions[n] = Job(v)
        \/ sending = v
    BY <1>1, <1>9, <2>1 DEF Inv, ConfirmationComing, worker, confirm
  <2>3. QED
    BY <1>1, <1>5, <1>6, <1>7, <1>8, <2>1, <2>2 DEF confirm
<1>10. ConfirmationComing'
  BY <1>9 DEF ConfirmationComing
<1>11. QED
  BY <1>2, <1>10 DEF Inv

\* A Delete event that is handled while a channel is mapped to its name
\* becomes a send on that channel.
LEMMA HandleDeletionKeeps ==
    ASSUME Inv, TypeOK', HandleDeletion
    PROVE  Inv'
<1> DEFINE j == Head(deletions)
<1>1. TypeOK /\ deletions \in Seq(JobIds) /\ deletions # <<>>
  BY DEF Inv, TypeOK, HandleDeletion
<1>2. /\ j \in JobIds /\ j = deletions[1]
      /\ Len(deletions') = Len(deletions) - 1 /\ Len(deletions) \in Nat
      /\ \A n \in 2 .. Len(deletions) : deletions[n] = deletions'[n - 1]
  BY <1>1, HeadTailType DEF HandleDeletion
<1>3. JobName(j) \in JobNames
  BY <1>2 DEF JobNames
<1>4. sending = NoOne /\ sending' = jobDeleteStatus[JobName(j)]
  BY DEF HandleDeletion, Unlocked
<1>5. UNCHANGED <<worker, jobDeleteStatus, deleting>>
  BY DEF HandleDeletion, cluster
<1>6. ConfirmChannelOpen'
  BY <1>3, <1>4, <1>5
  DEF Inv, ConfirmChannelOpen, Registered, Job, JobOf, JobName, worker
<1>7. ASSUME NEW v \in Workers, workerPc'[v] = "wait",
             jobDeleteStatus'[JobName(Job(v))'] = v
      PROVE  \/ Job(v)' \in deleting'
             \/ \E n \in 1 .. Len(deletions') : deletions'[n] = Job(v)'
             \/ sending' = v
  <2>1. Job(v)' = Job(v) /\ JobName(Job(v))' = JobName(Job(v))
    BY <1>5 DEF Job, JobOf, JobName, worker
  <2>2. \/ Job(v) \in deleting
        \/ \E n \in 1 .. Len(deletions) : deletions[n] = Job(v)
    BY <1>4, <1>5, <1>7, <2>1, ControllerAssumption
    DEF Inv, ConfirmationComing, worker
  <2>3. CASE Job(v) \in deleting
    BY <1>5, <2>1, <2>3
  <2>4. ASSUME NEW n \in 1 .. Len(deletions), deletions[n] = Job(v)
        PROVE  \/ \E m \in 1 .. Len(deletions') : deletions'[m] = Job(v)'
               \/ sending' = v
    <3>1. CASE n = 1
      BY <1>2, <1>4, <1>5, <1>7, <2>1, <2>4, <3>1
    <3>2. CASE n # 1
      <4>1. n \in 2 .. Len(deletions) /\ n - 1 \in 1 .. Len(deletions')
        BY <1>2, <3>2
      <4>2. QED
        BY <1>2, <2>1, <2>4, <4>1
    <3>3. QED
      BY <3>1, <3>2
  <2>5. QED
    BY <2>2, <2>3, <2>4
<1>8. ConfirmationComing'
  BY <1>7 DEF ConfirmationComing
<1>9. QED
  BY <1>6, <1>8 DEF Inv

LEMMA InitProtocol == Init => ConfirmChannelOpen /\ ConfirmationComing
<1> SUFFICES ASSUME Init PROVE ConfirmChannelOpen /\ ConfirmationComing
  OBVIOUS
<1>1. ConfirmChannelOpen
  BY DEF Init, ConfirmChannelOpen
<1>2. ConfirmationComing
  BY DEF Init, ConfirmationComing
<1>3. QED
  BY <1>1, <1>2

LEMMA NextProtocol == Inv /\ [OpenNext]_vars => Inv'
<1> SUFFICES ASSUME Inv, [OpenNext]_vars PROVE Inv'
  OBVIOUS
<1>1. TypeOK'
  BY NextType DEF Inv
<1>2. CASE UNCHANGED vars
  BY <1>1, <1>2, OutsideKeeps DEF vars, informers, cluster
<1>3. ASSUME NEW k \in KCDs,
             \/ \E v \in Versions : StartRollout(k, v)
             \/ EndRollout(k) \/ Withdraw(k) \/ Sync(k) \/ Release(k)
      PROVE  Inv'
  BY <1>1, <1>3, OutsideKeeps
  DEF StartRollout, EndRollout, Withdraw, Change, Sync, Release, cluster, informers
<1>4. ASSUME NEW j \in JobIds, TrackerEnds(j) \/ OtherDeletes(j) PROVE Inv'
  BY <1>1, <1>4, OutsideKeeps
  DEF TrackerEnds, FinishJob, OtherDeletes, DeleteJob, informers
<1>5. ASSUME NEW j \in JobIds, JobRemoved(j) PROVE Inv'
  BY <1>1, <1>5, JobRemovedKeeps
<1>6. CASE TrackAddKcd \/ TrackKcd
  BY <1>1, <1>6, OutsideKeeps DEF TrackAddKcd, TrackKcd, HandleNote, cluster
<1>7. CASE HandleDeletion
  BY <1>1, <1>7, HandleDeletionKeeps
<1>8. ASSUME NEW w \in Workers, Dequeue(w) \/ Lookup(w) \/ GetJob(w) \/ Create(w)
      PROVE  Inv'
  <2>1. TypeOK
    BY DEF Inv
  <2>2. ~Registered(w) /\ ~Registered(w)'
    BY <1>8, <2>1 DEF TypeOK, Dequeue, Lookup, GetJob, Create, Go, Registered
  <2>3. \A v \in Workers \ {w} : /\ workerPc'[v] = workerPc[v]
                                 /\ workerKey'[v] = workerKey[v]
                                 /\ workerVersion'[v] = workerVersion[v]
    BY <1>8, <2>1 DEF TypeOK, Dequeue, Lookup, GetJob, Create, Go
  <2>4. UNCHANGED <<confirm, deletions, deleting>>
    BY <1>8 DEF Dequeue, Lookup, GetJob, Create, CreateTracker, CreateJob, cluster,
                informers
  <2>5. QED
    BY <1>1, <2>2, <2>3, <2>4, UnregisteredKeeps
<1>9. ASSUME NEW w \in Workers, Register(w) \/ Delete(w) \/ Confirm(w) \/ Cleanup(w)
      PROVE  Inv'
  BY <1>1, <1>9, RegisterKeeps, DeleteKeeps, ConfirmKeeps, CleanupKeeps
<1>10. CASE Crash
  <2>1. ConfirmChannelOpen'
    BY <1>10 DEF Crash, ConfirmChannelOpen
  <2>2. ConfirmationComing'
    BY <1>10 DEF Crash, ConfirmationComing
  <2>3. QED
    BY <1>1, <2>1, <2>2 DEF Inv
<1>11. QED
  BY <1>2, <1>3, <1>4, <1>5, <1>6, <1>7, <1>8, <1>9, <1>10 DEF OpenNext, Next, Step, Work

LEMMA InvInductive == OpenSpec => []Inv
<1>1. Init => Inv
  BY InitType, InitProtocol DEF Inv
<1>2. QED
  BY <1>1, NextProtocol, PTL DEF OpenSpec

\* deleteJob sends on open channels only: it cannot panic, whatever workers
\* share a name, whoever else deletes jobs and wherever the process crashes.
THEOREM NeverSendsOnClosed == OpenSpec => []ConfirmChannelOpen
<1>1. Inv => ConfirmChannelOpen
  BY DEF Inv
<1>2. QED
  BY <1>1, InvInductive, PTL

\* No worker misses the confirmation it waits for while its channel is the
\* one in the map: the Delete event is still to come, or in hand.
THEOREM ConfirmationNotMissed == OpenSpec => []ConfirmationComing
<1>1. Inv => ConfirmationComing
  BY DEF Inv
<1>2. QED
  BY <1>1, InvInductive, PTL

===============================================================================
