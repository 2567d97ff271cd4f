------------------------------ MODULE Controller ------------------------------
(***************************************************************************)
(* The controller of controller/controller.go: one process that creates a  *)
(* tracker job for every deployment KCD starts.                            *)
(*                                                                         *)
(* The KCD informer's listener (trackAddKcd, trackKcd) puts the keys of    *)
(* KCDs that are progressing on a rate limited queue; workers take a key,  *)
(* look the KCD up in the informer's cache, delete the job of the same     *)
(* name when it has ended, wait for the job informer's listener            *)
(* (deleteJob) to confirm the deletion, and create the job.  Workers and   *)
(* that listener share the map jobDeleteStatus of unbuffered channels      *)
(* under one mutex; the listener sends while it holds the mutex.           *)
(***************************************************************************)
EXTENDS Integers, Sequences, FiniteSets

CONSTANTS
    KCDs,           \* keys (namespace/name) of KCD resources
    Versions,       \* versions they may deploy
    Name,           \* KCD -> its name, by which kcdStates knows it
    App,            \* KCD -> <<its namespace, its kcdapp>>
    Blacklisted,    \* kcdapps that are in tracker.appendpoints
    Workers,        \* worker goroutines (2 in cmd/controller.go)
    MaxRetries,     \* controller.maxretries
    Bundling,       \* may the API server bundle several KCD updates into one?
    ApiErrors,      \* may calls to the API server fail?
    MaxRollouts,    \* bound: deployments a KCD starts
    MaxCrashes,     \* bound: crashes of the controller
    NoKCD, NoOne    \* absent values

ASSUME ControllerAssumption ==
    /\ DOMAIN Name = KCDs /\ DOMAIN App = KCDs
    /\ MaxRetries \in Nat /\ MaxRollouts \in Nat /\ MaxCrashes \in Nat
    /\ Bundling \in BOOLEAN /\ ApiErrors \in BOOLEAN
    /\ NoOne \notin Workers

\* The job for a KCD and a version.  KCDs of one namespace and one kcdapp
\* share it; jobName leaves the namespace out.
JobOf(k, v) == <<App[k], v>>
JobIds == {App[k] : k \in KCDs} \X Versions
JobName(j) == <<j[1][2], j[2]>>
JobNames == {JobName(j) : j \in JobIds}

\* The KCDs for which processItem creates no job.
Skipped == {k \in KCDs : App[k][2] \in Blacklisted}

\* The controller treats "Success" and "Failed" alike: they are "Finished".
Status == {"Progressing", "Finished"}
KCD == [status : Status, version : Versions]
Rollout(v) == [status |-> "Progressing", version |-> v]
Progressing == {Rollout(v) : v \in Versions}
ASSUME NoKCDAssumption == NoKCD \notin KCD

VARIABLES
    \* the API server
    jobs, deleting,     \* see Jobs
    kcd,                \* the KCD resources
    rollouts,           \* deployments each has started
    untracked,          \* history: KCDs in a rollout no tracker has run in
    crashes,
    \* the informers
    cached,             \* the KCD informer's indexer
    notes,              \* KCD notifications not yet handled
    deletions,          \* job deletions not yet handled
    \* the KCD listener and the queue
    kcdStates,          \* last status handled, by name
    waiting,            \* keys AddRateLimited holds back
    ready,              \* keys a worker can Get
    requeues,           \* NumRequeues, up to MaxRetries
    start,              \* history: how the rollout of each KCD stands with
                        \* this process: "unseen", "queued" or "none" to do
    \* workers and the job listener
    workerPc, workerKey, workerVersion,
    jobDeleteStatus,    \* job name -> the worker whose channel is mapped
    sending             \* worker whose channel deleteJob is sending on

INSTANCE Jobs

cluster == <<jobs, deleting, kcd, rollouts, untracked, crashes>>
informers == <<cached, notes, deletions>>
listener == <<kcdStates, waiting, ready, requeues, start>>
worker == <<workerPc, workerKey, workerVersion>>
confirm == <<jobDeleteStatus, sending>>
vars == <<cluster, informers, listener, worker, confirm>>

\* deleteJob keeps the mutex while it sends.
Unlocked == sending = NoOne

\* A process that has just started has seen no rollout.
AllUnseen == [k \in KCDs |-> IF kcd[k] \in Progressing THEN "unseen" ELSE "none"]

Init ==
    /\ jobs \in [JobIds -> {"absent", "running", "finished"}]
    /\ deleting = {}
    /\ kcd \in [KCDs -> KCD \cup {NoKCD}]
    /\ rollouts = [k \in KCDs |-> 0]
    /\ untracked = {k \in KCDs : /\ kcd[k] \in Progressing
                                /\ jobs[JobOf(k, kcd[k].version)] # "running"}
    /\ crashes = 0
    /\ cached = [k \in KCDs |-> NoKCD] /\ notes = <<>> /\ deletions = <<>>
    /\ kcdStates = [n \in {Name[k] : k \in KCDs} |-> ""]
    /\ waiting = {} /\ ready = {} /\ requeues = [k \in KCDs |-> 0]
    /\ start = AllUnseen
    /\ workerPc = [w \in Workers |-> "idle"]
    /\ workerKey = [w \in Workers |-> NoKCD]
    /\ workerVersion = [w \in Workers |-> NoKCD]
    /\ jobDeleteStatus = [n \in JobNames |-> NoOne] /\ sending = NoOne

-----------------------------------------------------------------------------
(* The cluster. *)

\* Without bundling the informer sees every change of a KCD.
Seen(k) == Bundling \/ cached[k] = kcd[k]

Change(k, c) ==
    /\ Seen(k)
    /\ kcd' = [kcd EXCEPT ![k] = c]
    /\ start' = [start EXCEPT ![k] = IF c \in Progressing THEN "unseen" ELSE "none"]
    /\ UNCHANGED <<jobs, deleting, crashes, informers, kcdStates, waiting, ready,
                   requeues, worker, confirm>>

StartRollout(k, v) ==
    /\ rollouts[k] < MaxRollouts
    /\ kcd[k] \notin Progressing
    /\ rollouts' = [rollouts EXCEPT ![k] = @ + 1]
    /\ untracked' = IF jobs[JobOf(k, v)] = "running" THEN untracked
                                                    ELSE untracked \cup {k}
    /\ Change(k, Rollout(v))

EndRollout(k) ==
    /\ kcd[k] \in Progressing
    /\ Change(k, [kcd[k] EXCEPT !.status = "Finished"])
    /\ untracked' = untracked \ {k}
    /\ UNCHANGED rollouts

Withdraw(k) ==
    /\ kcd[k] # NoKCD
    /\ Change(k, NoKCD)
    /\ untracked' = untracked \ {k}
    /\ UNCHANGED rollouts

TrackerEnds(j) ==
    /\ FinishJob(j)
    /\ UNCHANGED <<kcd, rollouts, untracked, crashes, informers, listener,
                   worker, confirm>>

\* Somebody else deletes a tracker job: the job cleaner, or a user.
OtherDeletes(j) ==
    /\ j \notin deleting
    /\ DeleteJob(j)
    /\ UNCHANGED <<kcd, rollouts, untracked, crashes, informers, listener,
                   worker, confirm>>

\* The job informer gets the Delete event.
JobRemoved(j) ==
    /\ RemoveJob(j)
    /\ deletions' = Append(deletions, j)
    /\ UNCHANGED <<kcd, rollouts, untracked, crashes, cached, notes, listener,
                   worker, confirm>>

\* The KCD informer updates its indexer and notifies its listener, of an Add
\* (old = NoKCD) or an update.  A bundled update may carry the new object
\* twice (controller.go:329).
Sync(k) ==
    /\ cached[k] # kcd[k]
    /\ cached' = [cached EXCEPT ![k] = kcd[k]]
    /\ IF kcd[k] = NoKCD
       THEN UNCHANGED notes
       ELSE \E old \in {cached[k]}
                          \cup {c \in {kcd[k]} : Bundling /\ cached[k] # NoKCD} :
               notes' = Append(notes, [key |-> k, old |-> old, new |-> kcd[k]])
    /\ UNCHANGED <<cluster, deletions, listener, worker, confirm>>

-----------------------------------------------------------------------------
(* The rate limited queue. *)

\* AddRateLimited.  NumRequeues is counted up to MaxRetries only.
AddRateLimited(k) ==
    /\ waiting' = waiting \cup {k}
    /\ requeues' = [requeues EXCEPT ![k] = IF @ < MaxRetries THEN @ + 1 ELSE @]

\* Mutant: the key is taken off the queue too.
ForgetQueued(k) ==
    /\ requeues' = [requeues EXCEPT ![k] = 0]
    /\ waiting' = waiting \ {k}

Forget(k) ==
    /\ requeues' = [requeues EXCEPT ![k] = 0]
    /\ UNCHANGED waiting

\* The delay of a key is over.
Release(k) ==
    /\ k \in waiting
    /\ waiting' = waiting \ {k}
    /\ ready' = ready \cup {k}
    /\ UNCHANGED <<cluster, informers, kcdStates, requeues, start, worker, confirm>>

-----------------------------------------------------------------------------
(* The KCD listener: trackAddKcd and trackKcd. *)

NextNote == Head(notes)

\* enqueue.  The start counts as heard of when the notification is of the
\* rollout that the KCD is in and that a worker would find in the cache.
Enqueue(k, started) ==
    IF started
    THEN /\ AddRateLimited(k)
         /\ start' = [start EXCEPT ![k] =
                         IF NextNote.new = kcd[k] /\ cached[k] = kcd[k]
                         THEN "queued" ELSE @]
    ELSE UNCHANGED <<waiting, requeues, start>>

HandleNote ==
    /\ notes # <<>>
    /\ notes' = Tail(notes)
    /\ UNCHANGED <<cluster, cached, deletions, ready, worker, confirm>>

\* Mutant: an Add does not note the status.
TrackAddKcdUnnoted ==
    /\ HandleNote
    /\ NextNote.old = NoKCD
    /\ Enqueue(NextNote.key, NextNote.new.status = "Progressing")
    /\ UNCHANGED kcdStates

TrackAddKcd ==
    LET k == NextNote.key  s == NextNote.new.status IN
    /\ HandleNote
    /\ NextNote.old = NoKCD
    /\ kcdStates' = [kcdStates EXCEPT ![Name[k]] = s]
    /\ Enqueue(k, s = "Progressing")

\* Mutant: only a status that leads to a job is noted.
TrackKcdUnnoted ==
    LET k == NextNote.key  s == NextNote.new.status IN
    /\ HandleNote
    /\ NextNote.old # NoKCD
    /\ IF s \in {NextNote.old.status, kcdStates[Name[k]]} \/ s # "Progressing"
       THEN UNCHANGED <<kcdStates, waiting, requeues, start>>
       ELSE /\ Enqueue(k, TRUE)
            /\ kcdStates' = [kcdStates EXCEPT ![Name[k]] = s]

TrackKcd ==
    LET k == NextNote.key  s == NextNote.new.status IN
    /\ HandleNote
    /\ NextNote.old # NoKCD
    /\ IF s \in {NextNote.old.status, kcdStates[Name[k]]}
       THEN UNCHANGED <<kcdStates, waiting, requeues, start>>
       ELSE /\ Enqueue(k, s = "Progressing")
            /\ kcdStates' = [kcdStates EXCEPT ![Name[k]] = s]

-----------------------------------------------------------------------------
(* The job listener. *)

\* Mutant: the send is in a select with a default case, which loses the
\* confirmation when the worker has not yet reached its receive.
HandleDeletionOrDrop ==
    /\ deletions # <<>> /\ Unlocked
    /\ deletions' = Tail(deletions)
    /\ sending' \in {NoOne, jobDeleteStatus[JobName(Head(deletions))]}
    /\ UNCHANGED <<cluster, cached, notes, listener, worker, jobDeleteStatus>>

\* deleteJob: take the mutex and, when a channel is mapped to the name, send
\* on it.
HandleDeletion ==
    /\ deletions # <<>> /\ Unlocked
    /\ deletions' = Tail(deletions)
    /\ sending' = jobDeleteStatus[JobName(Head(deletions))]
    /\ UNCHANGED <<cluster, cached, notes, listener, worker, jobDeleteStatus>>

-----------------------------------------------------------------------------
(* Workers: processNextItem and processItem. *)

Job(w) == JobOf(workerKey[w], workerVersion[w])
Go(w, from, to) ==
    /\ workerPc[w] = from
    /\ workerPc' = [workerPc EXCEPT ![w] = to]

\* Get, and Done at once: the key may be added and taken again meanwhile.
Dequeue(w) ==
    \E k \in ready :
        /\ Go(w, "idle", "lookup")
        /\ ready' = ready \ {k}
        /\ workerKey' = [workerKey EXCEPT ![w] = k]
        /\ UNCHANGED <<cluster, informers, kcdStates, waiting, requeues, start,
                       workerVersion, confirm>>

\* The worker is done with its key: with the start too, if it has worked for
\* the version the KCD deploys.
Conclude(w) ==
    LET k == workerKey[w] IN
    /\ Forget(k)
    /\ start' = [start EXCEPT ![k] =
                    IF @ = "queued" /\ kcd[k].version = workerVersion[w]
                    THEN "none" ELSE @]

\* Mutant: an error is logged and the key not put back.
FailUnretried(w) ==
    LET k == workerKey[w] IN
    IF requeues[k] < MaxRetries THEN Forget(k) /\ UNCHANGED start ELSE Conclude(w)

\* processItem has returned an error: retry or give up.
Fail(w) ==
    LET k == workerKey[w] IN
    IF requeues[k] < MaxRetries
    THEN AddRateLimited(k) /\ UNCHANGED start
    ELSE Conclude(w)

\* Mutant: a KCD that is gone is not noticed.
LookupUnchecked(w) ==
    LET k == workerKey[w] IN
    /\ Go(w, "lookup", "get")
    /\ workerVersion' = [workerVersion EXCEPT ![w] =
                            IF cached[k] = NoKCD THEN NoKCD
                                                 ELSE cached[k].version]
    /\ UNCHANGED <<cluster, informers, listener, workerKey, confirm>>

Lookup(w) ==
    LET k == workerKey[w] IN
    /\ \/ /\ Go(w, "lookup", "idle")
          /\ cached[k] = NoKCD
          /\ Fail(w)
          /\ workerKey' = [workerKey EXCEPT ![w] = NoKCD]
          /\ UNCHANGED workerVersion
       \/ /\ Go(w, "lookup", "get")
          /\ cached[k] # NoKCD
          /\ workerVersion' = [workerVersion EXCEPT ![w] = cached[k].version]
          /\ UNCHANGED <<workerKey, waiting, requeues, start>>
    /\ UNCHANGED <<cluster, informers, kcdStates, ready, confirm>>

\* Mutant: the job is left there.
GetJobLeave(w) ==
    /\ Go(w, "get", "create")
    /\ UNCHANGED <<cluster, informers, listener, workerKey, workerVersion, confirm>>

\* jobsClient.Get and the test of the job's conditions.
GetJob(w) ==
    /\ \/ /\ Go(w, "get", "register")
          /\ jobs[Job(w)] = "finished"
       \/ /\ Go(w, "get", "create")
          /\ jobs[Job(w)] # "finished" \/ ApiErrors
    /\ UNCHANGED <<cluster, informers, listener, workerKey, workerVersion, confirm>>

Register(w) ==
    /\ Unlocked
    /\ Go(w, "register", "delete")
    /\ jobDeleteStatus' = [jobDeleteStatus EXCEPT ![JobName(Job(w))] = w]
    /\ UNCHANGED <<cluster, informers, listener, workerKey, workerVersion, sending>>

\* jobsClient.Delete: wait for the confirmation if it was accepted.  A call
\* that reports an error may have been accepted too.
Delete(w) ==
    /\ \/ Go(w, "delete", "wait") /\ DeleteJob(Job(w))
       \/ /\ Go(w, "delete", "cleanup")
          /\ \/ jobs[Job(w)] = "absent" /\ UNCHANGED <<jobs, deleting>>
             \/ ApiErrors /\ (DeleteJob(Job(w)) \/ UNCHANGED <<jobs, deleting>>)
    /\ UNCHANGED <<kcd, rollouts, untracked, crashes, informers, listener,
                   workerKey, workerVersion, confirm>>

\* The send of deleteJob meets the receive of the worker.
Confirm(w) ==
    /\ sending = w
    /\ Go(w, "wait", "cleanup")
    /\ sending' = NoOne
    /\ UNCHANGED <<cluster, informers, listener, workerKey, workerVersion,
                   jobDeleteStatus>>

\* Mutant: the channel is closed and the map's entry stays.
CleanupKeepEntry(w) ==
    /\ Unlocked
    /\ Go(w, "cleanup", "create")
    /\ UNCHANGED <<cluster, informers, listener, workerKey, workerVersion, confirm>>

\* Delete the map's entry, whoever's it is, and close the channel.
Cleanup(w) ==
    /\ Unlocked
    /\ Go(w, "cleanup", "create")
    /\ jobDeleteStatus' = [jobDeleteStatus EXCEPT ![JobName(Job(w))] = NoOne]
    /\ UNCHANGED <<cluster, informers, listener, workerKey, workerVersion, sending>>

\* The job is created: the tracker of every KCD that is in its rollout.
CreateTracker(j) ==
    /\ CreateJob(j)
    /\ untracked' = {k \in untracked : JobOf(k, kcd[k].version) # j}

\* jobsClient.Create, unless the app is blacklisted; "already exists" is
\* success, and a call that reports an error may have created the job.
Create(w) ==
    LET k == workerKey[w] IN
    /\ Go(w, "create", "idle")
    /\ \/ /\ k \notin Skipped
          /\ CreateTracker(Job(w))
          /\ Conclude(w) \/ (ApiErrors /\ Fail(w))
       \/ /\ k \in Skipped \/ jobs[Job(w)] # "absent"
          /\ Conclude(w)
          /\ UNCHANGED <<jobs, deleting, untracked>>
       \/ /\ k \notin Skipped /\ ApiErrors
          /\ Fail(w)
          /\ UNCHANGED <<jobs, deleting, untracked>>
    /\ workerKey' = [workerKey EXCEPT ![w] = NoKCD]
    /\ workerVersion' = [workerVersion EXCEPT ![w] = NoKCD]
    /\ UNCHANGED <<kcd, rollouts, crashes, informers, kcdStates, ready, confirm>>

\* The process dies and a new one starts with none of its memory.
Crash ==
    /\ crashes < MaxCrashes
    /\ crashes' = crashes + 1
    /\ cached' = [k \in KCDs |-> NoKCD] /\ notes' = <<>> /\ deletions' = <<>>
    /\ kcdStates' = [n \in DOMAIN kcdStates |-> ""]
    /\ waiting' = {} /\ ready' = {} /\ requeues' = [k \in KCDs |-> 0]
    /\ start' = AllUnseen
    /\ workerPc' = [w \in Workers |-> "idle"]
    /\ workerKey' = [w \in Workers |-> NoKCD]
    /\ workerVersion' = [w \in Workers |-> NoKCD]
    /\ jobDeleteStatus' = [n \in JobNames |-> NoOne] /\ sending' = NoOne
    /\ UNCHANGED <<jobs, deleting, kcd, rollouts, untracked>>

-----------------------------------------------------------------------------
\* The process and its informers.
Work ==
    \/ \E k \in KCDs : Sync(k) \/ Release(k)
    \/ TrackAddKcd \/ TrackKcd
    \/ HandleDeletion
    \/ \E w \in Workers : \/ Dequeue(w) \/ Lookup(w) \/ GetJob(w)
                          \/ Register(w) \/ Delete(w) \/ Confirm(w)
                          \/ Cleanup(w) \/ Create(w)

Step ==
    \/ \E k \in KCDs : \/ \E v \in Versions : StartRollout(k, v)
                       \/ EndRollout(k) \/ Withdraw(k)
    \/ \E j \in JobIds : TrackerEnds(j) \/ JobRemoved(j)
    \/ Work

Next == Step \/ Crash

Spec == Init /\ [][Next]_vars

\* The controller among others who delete tracker jobs.
OpenNext == Next \/ \E j \in JobIds : OtherDeletes(j)
OpenSpec == Init /\ [][OpenNext]_vars

(***************************************************************************)
(* Fairness.  The informers keep their caches up to date, the API server   *)
(* removes the jobs it was asked to delete, delays end, and the Go         *)
(* scheduler runs what can run; a goroutine waiting for the mutex or for   *)
(* a key gets it if it is free again and again.                            *)
(***************************************************************************)
Fairness ==
    /\ \A k \in KCDs : WF_vars(Sync(k)) /\ WF_vars(Release(k))
    /\ \A j \in JobIds : WF_vars(JobRemoved(j))
    /\ WF_vars(TrackAddKcd) /\ WF_vars(TrackKcd)
    /\ SF_vars(HandleDeletion)
    /\ \A w \in Workers :
          /\ SF_vars(Dequeue(w))
          /\ WF_vars(Lookup(w)) /\ WF_vars(GetJob(w)) /\ WF_vars(Delete(w))
          /\ WF_vars(Confirm(w)) /\ WF_vars(Create(w))
          /\ SF_vars(Register(w)) /\ SF_vars(Cleanup(w))

FairSpec == Spec /\ Fairness

-----------------------------------------------------------------------------
(* Properties. *)

\* The variables have the shapes the Go declarations give them, and a worker
\* past its lookup has a key and a version in hand.
TypeOK ==
    /\ JobsTypeOK
    /\ kcd \in [KCDs -> KCD \cup {NoKCD}]
    /\ rollouts \in [KCDs -> 0 .. MaxRollouts]
    /\ untracked \subseteq {k \in KCDs : kcd[k] \in Progressing}
    /\ crashes \in 0 .. MaxCrashes
    /\ cached \in [KCDs -> KCD \cup {NoKCD}]
    /\ notes \in Seq([key : KCDs, old : KCD \cup {NoKCD}, new : KCD])
    /\ deletions \in Seq(JobIds)
    /\ kcdStates \in [{Name[k] : k \in KCDs} -> Status \cup {""}]
    /\ waiting \subseteq KCDs /\ ready \subseteq KCDs
    /\ requeues \in [KCDs -> 0 .. MaxRetries]
    /\ start \in [KCDs -> {"none", "unseen", "queued"}]
    /\ workerPc \in [Workers -> {"idle", "lookup", "get", "register", "delete",
                                 "wait", "cleanup", "create"}]
    /\ workerKey \in [Workers -> KCDs \cup {NoKCD}]
    /\ workerVersion \in [Workers -> Versions \cup {NoKCD}]
    /\ \A w \in Workers : workerPc[w] # "idle" => workerKey[w] \in KCDs
    /\ \A w \in Workers : workerPc[w] \notin {"idle", "lookup"} =>
                             workerVersion[w] \in Versions
    /\ jobDeleteStatus \in [JobNames -> Workers \cup {NoOne}]
    /\ sending \in Workers \cup {NoOne}

\* deleteJob never sends on a closed channel: a channel that it sends on, or
\* could find in the map, belongs to a worker that has registered it and has
\* not yet closed it, whatever workers, other deleters and crashes do.
Registered(w) == workerPc[w] \in {"delete", "wait", "cleanup"}
ConfirmChannelOpen ==
    /\ sending # NoOne => Registered(sending)
    /\ \A n \in JobNames :
          jobDeleteStatus[n] # NoOne =>
             /\ Registered(jobDeleteStatus[n])
             /\ JobName(Job(jobDeleteStatus[n])) = n

\* A worker that waits for a confirmation and whose channel is still mapped
\* will be confirmed: the job is still being deleted, or its Delete event is
\* still to be handled, or deleteJob is sending.  The Delete event cannot
\* slip between the worker's Delete call and its receive.
ConfirmationComing ==
    \A w \in Workers :
        workerPc[w] = "wait" /\ jobDeleteStatus[JobName(Job(w))] = w =>
            \/ Job(w) \in deleting
            \/ \E n \in 1 .. Len(deletions) : deletions[n] = Job(w)
            \/ sending = w

\* controller.go:329: "We need to keep track of the last known state".  Once
\* a KCD's notifications are handled, kcdStates is what the cache says.
LastKnownState ==
    \A k \in KCDs :
        cached[k] # NoKCD /\ (\A n \in 1 .. Len(notes) : notes[n].key # k) =>
            kcdStates[Name[k]] = cached[k].status

\* controller.go:184: "Delete existing job if it already completed".  The
\* test is made on the answer of Get, the deletion later and by name.
DeletesOnlyFinished ==
    [][\A w \in Workers :
          workerPc[w] = "delete" /\ workerPc'[w] = "wait" =>
              jobs[Job(w)] = "finished"]_vars

\* controller.go:359: "If there is a chan mapped to this jobname it then a
\* worker thread is waiting": the worker deleteJob sends to receives, or is
\* about to.
MappedWorkerWaits ==
    sending # NoOne => workerPc[sending] \in {"delete", "wait"}

\* README.md:16: "Creates a tracker job when KCD starts a deploy".  A rollout
\* in progress that the listener has heard of is not forgotten, whatever other
\* workers, deleters, failing calls and crashes do: its key is on the queue, or
\* with a worker that has not yet looked it up or has found its version, until
\* one that has found it comes to the end of processItem or gives up retrying.
StartKept ==
    \A k \in KCDs :
        start[k] = "queued" =>
            \/ k \in waiting \cup ready
            \/ \E w \in Workers :
                  /\ workerKey[w] = k
                  /\ \/ workerPc[w] = "lookup"
                     \/ workerPc[w] # "idle" /\ workerVersion[w] = kcd[k].version

\* A rollout in progress that the listener has not heard of is one it is going
\* to hear of: the informer has not seen it, or its notification is pending.
\* The filters of trackKcd (controller.go:318-325) ignore no start.
StartHeard ==
    \A k \in KCDs :
        start[k] = "unseen" =>
            \/ cached[k] # kcd[k]
            \/ \E n \in 1 .. Len(notes) : notes[n].key = k /\ notes[n].new = kcd[k]

\* README.md:16: "Creates a tracker job when KCD starts a deploy".  A rollout
\* that has no tracker yet is never lost on its way through informer,
\* listener, queue and worker.  Creates(w, v) says that the worker is going to
\* create a job of version v, that it does not wait in vain (its channel is
\* mapped while it waits), and that no job of that name will be in its way.
Creates(w, v) ==
    \/ workerPc[w] = "lookup"
    \/ /\ workerPc[w] \in {"get", "register", "delete", "wait", "cleanup"}
       /\ workerVersion[w] = v
       /\ workerPc[w] = "wait" => jobDeleteStatus[JobName(Job(w))] = w
    \/ /\ workerPc[w] = "create" /\ workerVersion[w] = v
       /\ jobs[Job(w)] = "absent"

StartComing(k) ==
    LET started == Rollout(kcd[k].version) IN
    \/ kcd[k] = started /\ cached[k] # started
    \/ \E n \in 1 .. Len(notes) : notes[n].key = k /\ notes[n].new = started
    \/ k \in waiting \cup ready
    \/ \E w \in Workers : workerKey[w] = k /\ Creates(w, kcd[k].version)

TrackerComing == \A k \in untracked \ Skipped : StartComing(k)

\* controller.go:193: a worker that waits for the confirmation of a deletion
\* gets it.
WaitEnds == \A w \in Workers : workerPc[w] = "wait" ~> workerPc[w] # "wait"

\* README.md:16: "Creates a tracker job when KCD starts a deploy".  In every
\* rollout of a KCD that lasts, there comes a time when a tracker for it
\* runs, past jobs that earlier rollouts of the version have left over.
TrackerStarted ==
    \A k \in KCDs \ Skipped : k \in untracked ~> k \notin untracked

===============================================================================
