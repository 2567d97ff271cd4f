# kubetel in TLA+

A verification project for [kubetel](../src/README.md). Kubetel follows the
deployments that KCD starts in a Kubernetes cluster: a *controller* creates one
*tracker* job per deployment, the tracker reports the deployment's progress and
its end to an HTTP endpoint or to two SQS queues, and a *job cleaner* deletes
the jobs that have ended. All three are Go programs whose goroutines meet in
bounded channels, mutexes, a wait group, informer callbacks and calls to the
API server that may fail, and all three may die at any step.

    cd tla
    tlasany Tracker.tla                          # parse
    tlc -config TrackerHttp.cfg MCTracker.tla    # model-check
    tlapm TrackerRefinementProofs.tla            # check the proofs

Contents: [inventory](#inventory), [modules](#modules-and-the-code),
[runs](#runs), [bounds](#bounds), [fairness](#fairness),
[proofs](#proofs), [disagreements](#where-code-and-comments-disagree),
[what is left out](#what-is-not-modelled), [further work](#further-work).

## Inventory

| Component | Source | State it keeps | Operations |
|---|---|---|---|
| Deployment tracker | `tracker/tracker.go`, `tracker/status.go` | two informer queues, the main queue, its wait group, the flag `deployMessageQueueDone`, `kcdStates` | `trackAddKcd`, `trackKcd`, `kcdFinish`, `deployFinishHandler`, `trackDeployment`, `enqueue`, `InformerQueueMerger`, `runWorker`, `processNextItem`, `Run` |
| Controller | `controller/controller.go` | a rate limited queue of KCD keys, `kcdStates`, the map `jobDeleteStatus` of channels and its mutex | `trackAddKcd`, `trackKcd`, `enqueue`, `processNextItem`, `processItem`, `deleteJob`, `Run` |
| Job cleaner | `controller/jobcleaner.go` | `deletionSlate`, one sleeping goroutine per slated name | `cleanAddJob`, `trackUpdateJob`, `deleteJobAfter` |
| Jobs at the API server | outside the repository | jobs and their deletions | Create, Get, foreground Delete; the job controller |
| Signals | `signals/signals.go` | the stop channel | closes it at the first SIGINT |
| Health monitor | `healthmonitor/server.go` | an HTTP server | closes the stop channel when it cannot listen; holds the command until it is closed |
| Commands and configuration | `cmd/`, `config/`, `main.go` | viper's values, fixed after the start | |
| KCD types and their generated client | `gok8s/` | | |
| Build and deployment scripts | `deploy/`, `Makefile`, ... | | |

**How they interact.** The KCD informer calls the controller's `trackAddKcd`
and `trackKcd`, which put keys on the queue; two workers take keys, and create
jobs. Workers and the job informer's callback `deleteJob` synchronise on
unbuffered channels found in `jobDeleteStatus`. The job cleaner hangs on the same
job informer and deletes the same jobs. In a tracker process the KCD callback
and the Deployment callback send on one informer queue each; one merger per
informer queue moves messages to the main queue; workers take them from there,
push them, and send them back to the same queue when the push fails. When the
KCD has finished, the KCD callback sends one finish event per Deployment, sets
the flag and closes the informer queues; the mergers end, a goroutine waits for
the wait group and closes the main queue, the workers end, and `Run` sends
SIGINT to its own process. In either process the signal handler and the health
server close the stop channel, and `main`, inside `NewServer`, and `Run` wait
for it; a tracker's `main` and `Run` wait for its workers too.

**What is hard, and what makes each part correct.**

- *Tracker*: the order in which flag, queues, wait group and workers end, with
  refused pushes going round again meanwhile. Nothing accepted may be lost or
  acknowledged twice; no send may meet a closed main queue; the process must
  end, and not before everything is acknowledged; a process killed half way must
  not lose the end of the deployment for good.
- *Controller*: confirmation by an unbuffered channel under a mutex, map entries
  shared by workers of one job name, `Done` before the item is processed, tests
  whose outcome is stale when used, remembered statuses. No send on a closed
  channel, no missed confirmation, no start ignored or forgotten, no deadlock, no
  running job deleted, a tracker for every deployment.
- *Job cleaner*: callbacks racing with goroutines over the slate, keyed by name
  alone. At most one goroutine per name, no name left on the slate, every
  finished job removed in the end.
- *Life of a process*: two goroutines may close one channel, three wait on one
  wait group that may still be zero, two assign the `err` that `main` tests, and a
  tracker interrupts itself and stops its own informers. The stop channel is closed
  once; success means that everything was delivered; a process that has nothing left
  to do ends.
- *The parts together*: controller and cleaner delete the same jobs by name, and a
  tracker may start after its deployment has ended or after the next has begun.
  The end of every deployment is reported by a tracker of its version.

The `hazards` of `PROJECT.json` list these line by line with the properties that
would catch each one.

## Modules and the code

| Module | What it is |
|---|---|
| `Delivery` | abstract specification: what one tracker process promises about its messages |
| `Tracker` | the tracker process, its job's restarts, the KCD and the endpoints; states that it implements `Delivery` |
| `Jobs` | jobs at the API server, instanced by the next two |
| `Controller` | the controller process with its informers; `OpenSpec` is the controller among others who delete its jobs |
| `JobCleaner` | the job cleaner with its informer |
| `KubetelController` | the process of `kubetel controller`: `Controller` and `JobCleaner` over the same jobs; states that it implements each of them |
| `System` | the controller with the trackers it starts, abstracted to what `Tracker` promises |
| `Lifecycle` | one process of either command, from its flags to its end |
| `MCTracker`, `MCController`, `MCKubetelController`, `MCJobCleaner`, `MCSystem` | symmetry and the names used by TLC's configurations |
| `TrackerProofs`, `TrackerRefinementProofs` | theorems about `Tracker`, the second extending the first |
| `ControllerProofs`, `ControllerStateProofs`, `KubetelControllerProofs` | theorems about the controller, and its process |
| `SystemProofs` | theorems about the controller with the trackers it starts |
| `JobCleanerProofs`, `LifecycleProofs` | theorems about the cleaner and the life of a process |

Definitions whose comment begins with "Mutant" are not part of any
specification: each is a plausible wrong version of the definition beside it.
Replacing the one by the other makes a property fail, which shows that the
property depends on that code.

### Tracker

`kcdPc`, `kcdTodo` are the KCD callback inside `kcdFinish`: `"finish"` while
`deployFinishHandler` enqueues `kcdTodo`, then the name of the informer queue
closed next (`informerList` is `kcd`, `deployment`). `depMsg` is the message of
the Deployment callback between `enqueue`'s test of the flag and its send. A
merger is `"receive"`, `"send"` (message in hand, `Add(1)` done) or `"stopped"`; a
worker is `"off"`, `"receive"`, `"process"`, `"retry"` (asleep, or blocked in
its send) or `"stopped"`. `answer[w]` is what the endpoints have answered to the pushes
of the message the worker has in hand: `kdSuccess` and `robbieSuccess` of the code.

| Code | Actions |
|---|---|
| `trackKcd` 237-260, `trackAddKcd` 262-282 | `TrackAddKcd`, `TrackKcd` with `NoteStatus`, `FinishEvents` |
| `deployFinishHandler`, `deployFailureHandler`, `enqueue` 297-413 | `EnqueueFinish` |
| `kcdFinish` 284-294 | `SetDone`, `CloseInformer` |
| `trackDeployment` 171-202, `enqueue` 409-413 | `TrackDeployment` (test of the flag), `SendStatus` |
| `InformerQueueMerger` 416-434 | `MergerReceive`, `MergerSend`, `MergerStop`, `CloseMain` |
| `Run` 437-472 | `StartWorkers`, `Exit` |
| `runWorker`, `processNextItem` 474-526 | `WorkerReceive`, `Deliver` and `FailToDeliver` (the decision `AllAccepted`), `Requeue`, `WorkerStop` |
| the pushes 529-588 | `PushAccepted`, `PushRefused` |
| the kubelet, the job's `backoffLimit` | `Evict`, `Restart` |

A send blocks while its buffer is full and kills the process when the channel is
closed (`SendInformer`, `SendMain`). The one panic of this kind that the code can
really run into is the Deployment callback's send on a closed informer queue
(`proc = "sendOnClosedInformer"`): it is part of the model, the job restarts the
process, and `FinishReported` shows that the end of the deployment is reported
all the same. A refused push of an SQS tracker panics too, because `t.rand` is
only set for the `http` endpoint type (`"nilRand"`).

Abstractions. A message is its type and the object it is about. The KCD callback
is given the present status of the KCD: nothing else in the process reads it, and
any number of changes may be skipped, as the API server bundles them.
A resync that repeats a Deployment is one more element of `Updates`.
`ListCanFail` says whether listing the Deployments may fail. A push to one endpoint is
one step, and pushes of several workers interleave; an endpoint that reports an error may
have the message nevertheless (`PushRefused`). The stop channel is left to `Lifecycle`: here
nobody stops the informers.

### Controller

`notes` and `deletions` are the notifications the informers have queued for
their listeners; `cached` is the KCD informer's indexer. `jobDeleteStatus` maps
a job name to the worker whose channel it holds, and `sending` is the worker
that `deleteJob` is sending to: while it is somebody, the mutex is taken.

| Code | Actions |
|---|---|
| `enqueue` 91-101, `trackKcd` 303-334, `trackAddKcd` 338-348 | `TrackAddKcd`, `TrackKcd` with `Enqueue`, `AddRateLimited` |
| `processNextItem` 139-162 | `Dequeue`, `Fail`, `Forget` |
| `processItem` 165-300 | `Lookup`, `GetJob`, `Register`, `Delete`, `Confirm`, `Cleanup`, `Create` with `Conclude` |
| `deleteJob` 351-368 | `HandleDeletion`, `Confirm` |
| the cluster, client-go's queue and informers | `StartRollout`, `EndRollout`, `Withdraw`, `TrackerEnds`, `OtherDeletes`, `JobRemoved`, `Sync`, `Release` |
| the process dies and is restarted | `Crash` |

`Work` is the process and its informers, `Step` adds the cluster, `Next` crashes,
and `OpenNext` the deletions of others (`OtherDeletes`).

A KCD has two names. Its own (`Name`) is the key of `kcdStates`; its namespace and kcdapp
(`App`), with the version, are the job (`JobOf`), which two KCDs of one namespace and one
kcdapp share. The map of channels knows a job without its namespace (`JobName`). The
theorems are for any `Name` and `App`, where they do not say otherwise. `Get` may find a
finished job that is being deleted already: a foreground deletion leaves it there.
`Create` treats "already exists" as success. A `Delete` or `Create` that reports an error
may have taken effect (`ApiErrors`). `NumRequeues` also counts the listener's own
`AddRateLimited`, so `controller.maxretries = 2` retries once.

Two variables are history. `untracked` is the KCDs in a deployment for which no tracker has
run yet. `start` says how the deployment a KCD is in stands with this process: `"unseen"`
until the listener has queued it (or, when the update is bundled or the name shared,
perhaps ignored it), `"queued"` until a worker that has found its version is through with it or
has given up, then `"none"`. A crash makes it unseen again.

### Job cleaner

`stored` is the informer's store; `cleanerPc[j]` is the goroutine of
`deleteJobAfter` for job `j`: sleeping, about to delete, or in its deferred
function. The time to live is abstracted to a sleep of any length. `CleanAddJob` is
the Add and Update callback, `Resync` the replay of the store every 30 seconds
that lets the cleaner come back to a job it has skipped. `Get` and `Delete` may
fail (`FindNothing`, `DeleteFails`).

### The process of the controller

`NewController` gives its job informer two listeners, its own `deleteJob` and the
cleaner's; `KubetelController` conjoins the two modules over `jobs`, `deleting` and
`crashes`. A step is one of the controller or its cluster (`ControllerStep`), one of
the cleaner (`CleanerStep`), or the death of both (`CrashBoth`). To the controller the
cleaner is an `OtherDeletes`; to the cleaner the controller's worker is
`JobStarts` and `ControllerDeletes`. `ImplementsController` (checked and proved) and
`ImplementsCleaner` (proved) say just that, so that what is proved of each alone holds of
the process.

### The system

`tracker[j]` is the tracker in job `j`, which knows its namespace and kcdapp (`Own`): it is
about to read the KCD (`trackAddKcd`, 262-282), watches it (`trackKcd`, 237-260), or has seen the end, which it reports and
which ends it whatever the KCD does next. That it does report and end is
`FinishReported` and `DeliversLive` of `Tracker`, used here as an assumption
(fairness of `ReadKcd`, `SeeKcd` and `Stop`). A tracker never compares the KCD's
version with its own, so `Notice` counts the end of a deployment as reported only when
the two happen to agree. `unreported` is history: the KCDs whose last deployment
has ended and whose end no tracker of that version has noticed.

### The life of a process

`main` is the step the main goroutine is about to take; a start-up step that fails
ends the process with exit code 1 ("error") or a panic. `signals` is the handler's
channel of two. `CloseStop` is the close of the stop channel, which panics the
second time ("doubleClose").

| Code | Actions |
|---|---|
| `main.go`, `cmd/root.go` 21-47, 61-138 | `ParseFlags`, `InitConfig`, `ConfigureLogging` |
| `cmd/tracker.go` 29-88, `cmd/controller.go` 33-78 | `BuildClusterConfig`, `SetupSignalHandler`, `New`, `StartRun`, `NewServer`, `WaitForWorkers`, `Return` |
| `signals.go` 9-18 | `Interrupt` with `Notify`, `HandleSignal` |
| `healthmonitor/server.go` 18-48 | `NewServer`, `Listen`, `ListenFails`, `Shutdown` |
| `Run` of tracker 437-472 and controller 104-130 | `SyncCaches`, `Spawn`, `Spawned`, `RunReturns`, `WorkerEnds`, `Watch` |
| the end of `main` in `cmd/` | `TestErr`, `WaitForWorkers`, `Return` |
| the informers on `stopCh` (`tracker.go` 442-443), `kcdFinish` 284-294 | `StopInformers`, `KcdFinish` |
| `InformerQueueMerger` 429-433 | `Drain` |

What workers do is in the other modules: here a tracker's worker ends when the main
queue is closed and empty, a controller's when the queue is shut down. `Drain`
is `CloseMain` of `Tracker`, which only a `kcdFinish` leads to; and once the stop channel is
closed and the informers have seen it, no listener begins a `kcdFinish` any more (`listener =
"gone"`), while one that has begun goes on. So a tracker that is stopped before the end of
its deployment, with workers that are counted, hangs for ever (`Hung`): its `main` and its
`Run` wait for workers that nothing lets end. `err` is the variable that `main` and the
goroutine of `Run` share (`cmd/tracker.go` 76 and 82, `cmd/controller.go` 67 and 73): whoever
assigns it last before `TestErr` decides between exit code 0 and 1. `early` is history: the
stop channel was closed before any worker was counted.

## Runs

Passing runs:

| Run | Question | Properties |
|---|---|---|
| `tracker_http` | One process pushing over HTTP, with full queues, refused pushes, updates racing the end and a kill at any step: can it lose, duplicate or misplace a message, close a queue wrongly, or get stuck below its full load? | `TypeOK`, `WaitGroupCounts`, `ChannelDiscipline`, `AcceptedTracked`, `NoResend`, `FinishAcceptedBeforeClose`, `SendAllFinishEvents`, `SealedGoesOn`, and `Delivers`: the process implements `Delivery` |
| `tracker_sqs` | Two SQS queues, of which each may refuse or take a message in any order with other workers' pushes, `List` calls that fail, a restart: what may be called sent? | `DrainedBeforeClose`, `SettledReceived` |
| `tracker_live` | Does a process whose queues are closed end, and is the end of a deployment reported whatever crashes happen? | `DeliversLive`, `FinishReported` |
| `kubetel_faults` | The whole process of the controller as it is shipped, with two workers and its cleaner, failing API calls, bundled updates and a crash: is the confirmation protocol safe, is a start that was heard of kept, and is the process the controller of `OpenSpec`? | `AllTypeOK`, `ConfirmChannelOpen`, `ConfirmationComing`, `StartKept`, `ImplementsController` |
| `system_live` | From the start of a deployment to the report of its end, with one worker that nobody disturbs: does every step on the way follow? | `LastKnownState`, `StartHeard`, `StartKept`, `TrackerComing`, `EndComing`, `WaitEnds`, `TrackerStarted`, `EndReported` |
| `job_cleaner` | Two jobs of one name in two namespaces, created again any number of times, deleted by the controller too, with failing calls and a crash. | `TypeOK`, `SlateExact`, `CleanedUp` |
| `lifecycle` | Interrupts at any moment, a port that is taken, a kill: who closes the stop channel, who waits for whom, and what does exit code 0 mean? | `TypeOK`, `ClosedOnce`, `SuccessMeansDrained`, `StopComing`, `DrainedEnds`, `StoppedEnds` |

Runs that show a statement of the repository violated, one property each:
`tracker_list_fails`, `tracker_gridlock`, `controller_lock`,
`controller_replaced`, `controller_bundled`; see
[below](#where-code-and-comments-disagree).

`system_live` is **not** the shipped program. `cmd/controller.go:67` starts two workers and
`NewController` always installs the cleaner; the run has one worker and nobody else who
deletes, every update seen, no failing call, no crash, and no redeployment of a version whose
last tracker is ending. It shows that in this setting the chain informer, listener, queue,
worker, job, tracker, report has no gap of its own. What the shipped program adds
breaks some of it, and the violations show how: with the cleaner, a crash, or a second
worker on the same key, `deleteJob` and a worker wait for each other (`controller_lock`) and
no start is served any more; with a second worker a running tracker is
deleted (`controller_replaced`); with bundled updates a start is ignored
(`controller_bundled`). With a second worker TLC also finds `WaitEnds` and `EndComing` violated, and with
`Redeploys = TRUE` `EndComing` and `EndReported`: a version is deployed again while the
tracker of its last deployment, which has seen the end, is still there; the worker's `Create`
answers "already exists", which `controller.go:291` calls "fine", and the new deployment ends
with nobody to report it.

What does hold of the shipped program is in `kubetel_faults`, and is proved for every
instance: the confirmations are safe, and no start is forgotten between the listener
and the end of the worker that takes it. `LastKnownState` and `StartHeard` are checked in
`system_live`, and proved of the whole process with any workers, deleters and crashes.

Sizes: `tracker_http` 2.3 million distinct states, `kubetel_faults` 1.0 million,
`tracker_sqs` 0.4 million, `tracker_live` 116,000, `system_live` 52,000, `lifecycle` 29,000;
each within three minutes on two cores.

Deadlock is not checked (`CHECK_DEADLOCK FALSE`) in the controller and system
runs, where the bounds on rollouts and crashes let everything come to rest, nor in
`lifecycle`, where processes end. In the tracker runs the KCD can always
change its status, so the absence of a global deadlock says little; the
statements about getting stuck are `DeliversLive` and `QueuesEmptied`.

## Bounds

- *Queues* of capacity 1 (2 in `tracker_live`) for 100: every queue fills up.
  In `tracker_live` there are fewer messages than the main queue and one worker
  and merger can hold, so it never blocks everybody: that case is a violation, and
  is what `tracker_gridlock` shows. What
  `tracker_live` shows is therefore said of processes whose main queue has room,
  and `GridlockNeedsLoad` proves that there is no other way to get stuck.
- *Messages*: one Deployment's finish event, up to two updates, at most one
  log. Two messages on the same informer queue, two informer queues and two workers are
  enough for every pair of goroutines to compete for every channel. The
  gridlock needs four updates: one held by the worker, one in the main queue, one
  held by the merger, one waiting.
- *KCDs of a tracker*: one in the passing runs; `tracker_list_fails` has one of another app
  besides, whose status is noted and nothing else.
- *Restarts* (`BackoffLimit`): 0 or 1 for 10. `tracker_http` has none, so that it is
  `FinishesAccepted` and `NoResendCorrect`, not the run, that speak of a restarted process. Every process starts from the same
  empty memory and an arbitrary status of the KCD, so a second restart adds no
  state of the process that the first did not reach.
- `MaxRetries` caps the counter `Retries` of the tracker, 0 in the runs: the code
  only uses it for the length of a sleep, and pushes may be refused any number of
  times in every run.
- *Controller*: one KCD and one version in `kubetel_faults`: two workers, as in
  `cmd/controller.go`, that have the same key meet over one job and one map entry, and with
  another name they would not meet at all. (That two KCDs may share a job or a status entry is
  in the theorems, which are for any `App` and `Name`.) Jobs and KCDs start in any state, and one
  rollout beyond the initial one and one crash are enough to go round the
  protocol again with what is left over from before. `system_live` has two versions, so that
  trackers of the last and of another version are met.
- *Lifecycle*: two workers, so that one may be counted while the other is not;
  three interrupts, one more than the handler's channel holds.
- *Job cleaner*: two jobs of one name are the smallest instance in which the
  slate's key matters; the number of times they are created again is not bounded.

The safety theorems below hold for every value of these constants.

## Fairness

Each `FairSpec` states it next to the specification.

- *Goroutines*: the Go scheduler runs each goroutine that can run: weak
  fairness. Channels and mutexes serve their waiters in FIFO order, so a
  goroutine that competes with others for a channel, a lock or a key is served if
  it is possible again and again: strong fairness, only for those.
- *Endpoints*: `SF(PushAccepted(w, e))`: an endpoint does not refuse every push of a
  worker for ever. Without it the code retries for ever. There is no fairness of
  `PushRefused`; what the worker does with the answers, `Deliver` and `FailToDeliver`, is
  its own step and weakly fair.
- *Cluster*: the kubelet restarts a failed process, informers follow the API
  server, a job asked to be deleted is removed, delays and sleeps end.
- *Job cleaner*: `SF(FindFinished)` and `SF(Delete)`: the API server does not
  fail every call for ever. `CleanedUp` assumes that jobs of the cleaner's names
  are not started for ever (`StartsCease`).
- *Trackers* in `System`: a started job's pod comes up, and the tracker ends after it has
  seen the end, by `DeliversLive` of `Tracker`.
- *Lifecycle*: goroutines only, that caches are synced in the end, that stopped informers
  stop, and that what `kcdFinish` has set off is drained while there are workers
  (`DeliversLive` of `Tracker`). `ListenAndServe` either listens or fails, but a server
  that listens need not fail later; nothing makes a `kcdFinish` begin.
- Nothing is assumed of KCD, of updates, of a tracker's end, of kills and
  crashes, of interrupts, nor of `OtherDeletes`.

## Proofs

`TLAPS` proves, for every value of the constants that satisfies the assumptions
named in the modules (`TrackerAssumption`, `NoMsgAssumption`,
`ControllerAssumption`, `NoKCDAssumption`, `CleanerAssumption`,
`LifecycleAssumption`; TLC evaluates them in the runs):

| Theorem | Statement |
|---|---|
| `TrackerProofs!TypeCorrect` | `Spec => []TypeOK` |
| `TrackerProofs!WaitGroupCorrect` | `Spec => []WaitGroupCounts` |
| `TrackerProofs!ChannelsCorrect` | `Spec => []ChannelDiscipline` |
| `TrackerProofs!NothingLost` | `Spec => []AcceptedTracked` |
| `TrackerProofs!Drained` | `Spec => []DrainedBeforeClose` |
| `TrackerProofs!GridlockNeedsLoad` | `Spec => []SealedGoesOn` |
| `TrackerRefinementProofs!NoResendCorrect` | `Spec => []NoResend` |
| `TrackerRefinementProofs!FinishesAccepted` | `Spec => []FinishAcceptedBeforeClose` |
| `TrackerRefinementProofs!SettledIsReceived` | `Spec => []SettledReceived` |
| `TrackerRefinementProofs!AllFinishesSent` | `~ListCanFail /\ Spec => []SendAllFinishEvents` |
| `TrackerRefinementProofs!ImplementsDelivery` | `Spec => Delivers` |
| `ControllerProofs!TypeCorrect` | `OpenSpec => []TypeOK` |
| `ControllerProofs!NeverSendsOnClosed` | `OpenSpec => []ConfirmChannelOpen` |
| `ControllerProofs!ConfirmationNotMissed` | `OpenSpec => []ConfirmationComing` |
| `ControllerStateProofs!StateKnown` | `SeenAndNamed /\ OpenSpec => []LastKnownState` |
| `ControllerStateProofs!StartsKept` | `OpenSpec => []StartKept` |
| `ControllerStateProofs!StartsHeard` | `SeenAndNamed /\ OpenSpec => []StartHeard` |
| `SystemProofs!SystemImplementsController` | `SystemSpec => Spec` |
| `SystemProofs!SystemKeepsPromises` | `SystemSpec => [](ConfirmChannelOpen /\ ConfirmationComing /\ StartKept)` |
| `KubetelControllerProofs!ControllerImplemented` | `SpecOfBoth => ImplementsController` |
| `KubetelControllerProofs!ProcessConfirms` | `SpecOfBoth => [](ConfirmChannelOpen /\ ConfirmationComing)` |
| `KubetelControllerProofs!ProcessKeepsStarts` | `SpecOfBoth => []StartKept` |
| `KubetelControllerProofs!ProcessHearsStarts` | `SeenAndNamed /\ SpecOfBoth => []StartHeard` |
| `KubetelControllerProofs!ProcessStateKnown` | `SeenAndNamed /\ SpecOfBoth => []LastKnownState` |
| `KubetelControllerProofs!CleanerImplemented` | `SpecOfBoth => ImplementsCleaner` |
| `KubetelControllerProofs!ProcessTypes` | `SpecOfBoth => []AllTypeOK` |
| `KubetelControllerProofs!ProcessSlate` | `SpecOfBoth => []JC!SlateExact` |
| `JobCleanerProofs!SlateCorrect` | `Spec => []SlateExact` |
| `JobCleanerProofs!TypeCorrect` | `Spec => []TypeOK` |
| `LifecycleProofs!TypeCorrect` | `Spec => []TypeOK` |
| `LifecycleProofs!StopClosedOnce` | `Spec => []ClosedOnce` |
| `LifecycleProofs!SuccessDrained` | `Spec => []SuccessMeansDrained` |
| `LifecycleProofs!StopIsComing` | `Spec => []StopComing` |

Two hypotheses on the constants occur. `SeenAndNamed`: no update is bundled, and KCDs have
distinct names. It is what a cluster with one namespace of applications and an API server that
does not bundle gives, and both parts are needed: with bundling, or with two KCDs of one
name, TLC finds `StartHeard` and `LastKnownState` violated. `~ListCanFail`: the call that
lists the Deployments succeeds; `tracker_list_fails` is what happens otherwise. No theorem
assumes anything of the number of workers, of other deleters, of failing calls or of crashes.

**Tracker.** `ChannelDiscipline` is about one variable and far from inductive.
A send on the closed main queue is impossible because a merger or worker that
holds a message is counted by the wait group, the main queue is closed only at
zero, and no message can come in afterwards because by then the mergers have
stopped. Each clause of the inductive invariant is one step of this argument:

- `WaitGroupCounts`: the counter is the number of messages held by mergers, by
  workers, and in the main queue. It needs the workers to be finitely many.
- `ClosingOrder`: where `kcdFinish` stands determines which informer queues are
  closed, and the flag is what keeps it from closing them twice.
- `StopOrder`: a stopped merger has seen its queue closed and empty; with the
  main queue closed, all mergers have stopped, the queue is empty, no worker
  has a message; a worker stops only then. With `WaitGroupCounts` this makes
  `CloseMain` safe.
- `AcceptedTracked`: what is accepted is settled or in the pipeline, and
  `StopOrder` says that the pipeline is empty when the main queue is closed; hence
  `DrainedBeforeClose`, and `ExitDrained`, the same for a process that has ended.

**When the tracker gets stuck.** `tracker_gridlock` shows that it can.
`SealedGoesOn` says how much that takes: once the informer queues are closed, some
goroutine can take its next step as long as fewer messages are in flight than the main queue
and the workers hold together. `StuckIsGridlock` is the argument. If the main queue has
room, no merger and no worker is held up; then all mergers have stopped and
no worker has a message, so by `WaitGroupCounts` the counter is the length of the main
queue; that is zero, for otherwise a worker could receive; so the main queue can be or
is closed, and the workers can stop. If it is full, a worker that cannot go on is one
about to requeue, and all of them are. Besides `Inv` this needs `Together`: `Run` starts
all workers at once. The bound is exact: with `<=` for `<` TLC finds the gridlock.

**The tracker implements `Delivery`.** `Delivery` accepts a message once, settles it
once, seals, closes when everything accepted is settled, and starts again after a
crash. The steps with content are the push that succeeds (a `Settle`), which needs that
the message was not settled before, and the send of a listener (an `Accept`), which needs
that it was not accepted before. `NoResend` alone is not inductive: it says nothing of
two copies of one message in the pipeline, of which one is settled first. `Inv2`
strengthens it, on top of `Inv` of `TrackerProofs`:

- `Unique`: a message occurs once in the place it is in (`OnceInPlace`), and is in one place
  of queue, merger, main queue, worker, settled (`OnePlace`). Each step moves one message
  to the next place; a refused push moves it back.
- `Unsent`: what a listener has still to send was not sent by this process before, because
  updates are taken from `pending` and finish events are enqueued before the flag is set.
- `FinishOrder`, when `List` cannot fail: at the time the flag is set each finish event has been
  accepted; with `ClosingOrder` of `Inv` this is `FinishAcceptedBeforeClose`.
- `SettledReceived`, with `Acknowledged`: an endpoint that has answered "ok" to a worker has
  received the message that the worker still has in hand. Pushes of other workers, refused
  ones and `Requeue` leave that true; `Deliver`, whose guard is the decision of
  `processNextItem`, then turns it into `SettledReceived`.
- `ExitShut`: a process that exits by itself has closed its informer queues. What was
  accepted then includes every finish event, by `DrainedBeforeClose` it is settled, and by
  `SettledReceived` it is at every endpoint: `AllFinishesSent`, the statement that
  `tracker_list_fails` shows to be false when the `List` call fails.

`StepDelivers` then maps each step, with one lemma per step of `Delivery`.

**Controller.** `ConfirmChannelOpen` says that each mapped channel, and the
one `deleteJob` sends on, belongs to a worker between `Register` and
`Cleanup`. The second would not survive `Cleanup` if the mutex were not
held during the send. `ConfirmationComing` needs it: a worker that cleans up
must not take away another worker's entry *and* its confirmation, which holds
because the statement is about workers still mapped. The two and `TypeOK` are
inductive together. `JobRemoved` and `HandleDeletion` are the steps with content:
one turns a deletion under way into an event, the other turns the event into a
send, because the map is keyed by the job's name.

All this is proved of `OpenSpec`, where anybody may delete any job at any time. So
the process of controller and cleaner has it too as soon as `ControllerImplemented` shows
that a step of the cleaner is an `OtherDeletes` or a stutter of the controller's
variables (`CleanerIsAnother`). The other way round, `CleanerImplemented` needs
the controller's `TypeOK`: a worker's `Create` and `Delete` are steps of the cleaner's
cluster because the worker has a job of the model in hand. `ProcessTypes`,
`ProcessConfirms` and `ProcessSlate` then carry the theorems of the parts over.

`StateKnown` is about a chain: the notifications of one KCD that are not handled yet start
at the status in `kcdStates`, continue each where the last ended, and end at
what the cache says (`Chain` = `FirstKnown`, `NextKnown`, `LastKnown`, `NoneLeft`).
`LastKnownState` is its last clause. Its two assumptions
(`SeenAndNamed`) are the two things that break it in the code: bundled updates, and KCDs
of one name in two namespaces, which share one entry (`controller.go:332`, `344`).

**No start is forgotten.** `StartKept` follows a start that the listener has queued: its key waits
or is ready, or a worker has it and has either not looked at the cache yet or found there the
version that the KCD deploys. It is not inductive alone: a worker's `Lookup` must find
that version and not an older one. `KeptInv` adds that a queued start is of a KCD that is
progressing and that the cache shows, so `Lookup` takes up the right version, and a `Conclude` that forgets
the key of a *different* version leaves the start queued. There is one lemma for each kind of step:
`ListenerKept`, `DequeueKept`, `LookupKept`, `CreateKept`, and `WorkKept` for the places
in between. `StartKept` needs no assumption on updates, names, calls, deleters or crashes, so it holds of the
whole process (`ProcessKeepsStarts`) and with trackers (`SystemKeepsPromises`). What it does
not say is that the job is created: the worker may give up after `maxRetries`, find a job
of that name that is about to go, or hang in the deadlock of `controller_lock`.

**No start is ignored.** `StartHeard` is the part before: a start is unseen only while the cache or a
notification is still to bring it. `HeardInv` adds that each rollout is seen to start: a cache that is
behind a progressing KCD is not progressing itself (`StartSeen`), nor is the old object of a notification of a
rollout (`StartNoted`). With `Chain` this makes `trackKcd`'s two filters pass it
(`StartTaken`): the old status differs, and so does the remembered one.

**Controller and trackers.** `SystemImplementsController` maps each step of `System` to one
of `Controller` or a stutter: trackers restrict when jobs end and rollouts start,
and their own steps are invisible to it. `AloneIsOpen` makes `Spec` an `OpenSpec`, and
`SystemKeepsPromises` carries the theorems about the controller over.

**Job cleaner.** `SlateExact` is inductive with the types of the two variables it
is about: `Slate` is the only way onto the slate and starts the goroutine in the
same callback.

**Life of a process.** `ClosedOnce` holds because the handler serves one signal and is
gone, and the health server's goroutine closes the channel only when it fails:
`CloserKnown` says that a closed stop channel has one of these two closers, of which
the second close adds the other. `SuccessMeansDrained` rests on
the wait group: `main` gets past it only if all counted workers are done, which they are
only when the queue is drained (`DoneDrained`), or if none was ever counted
(by `LateAdded` the stop was then an early one).
`StopComing` says that a tracker with nothing left to push is not left
alone: whatever interrupts came before, the stop channel is closed or its close is under way. The
clauses of `StopInv` put the start-up in order (the handler is set up before `Run`
starts, the watcher with the last worker), so that the watcher's signal
finds a handler that waits or one that has served a signal already (`WatcherHeard`).

### Only model-checked

All liveness (`DeliversLive`, `FinishReported`, `WaitEnds`, `TrackerStarted`, `EndReported`,
`CleanedUp`, `DrainedEnds`, `StoppedEnds`), since ENABLED and fairness are outside the
prover's reach. For much of it a safety part is proved instead, that what should
happen is always still under way: `SealedGoesOn` for `DeliversLive`, `ConfirmationComing` for
`WaitEnds` while the channel is mapped, `StartHeard` and `StartKept` for `TrackerStarted`,
`StopComing` for `DrainedEnds`. What the runs add is that each place on the way is left in the
end.

`TrackerComing` and `EndComing` are checked in `system_live` only. They hold where nobody
disturbs the worker, which is not the program as it is shipped, and are therefore not among the theorems.

## Where code and comments disagree

Each is a finding of `PROJECT.json`, with the run that shows it.

1. `tracker_list_fails`: *"Send all finish events"* (`tracker.go:296`). When the
   one `List` call fails, none is sent, the queues are closed all the same, the
   process exits 0 and its job is Complete.
2. `tracker_gridlock`: *"InformerQueueMerger empties the informer queues into the
   main work queue"* (`tracker.go:415`). Workers requeue on the bounded queue they
   alone empty; when it is full and each has a refused message, nothing moves
   again. `GridlockNeedsLoad` proves that nothing less stops them.
3. `controller_lock`: *"a worker thread is waiting"* (`controller.go:359`).
   `deleteJob` sends while it holds the mutex; a worker whose `Delete` failed does
   not receive but asks for the mutex.
   One worker is enough: the process's own job cleaner deletes the job between the
   worker's registration and its `Delete`.
4. `controller_replaced`: *"Delete existing job if it already completed"*
   (`controller.go:184`). Two workers with one key: the second deletes the job the
   first has just created.
5. `controller_bundled`: the comment at `controller.go:329` explains that a bundled
   update carries the same object twice and that `kcdStates` is there for it, but
   such an update returns at 318-321, before `kcdStates` is read.

Met while reading, and not a property of a run:

- `tracker/tracker.go:186` declares `curImage` and does not use it. Go rejects
  that; the models describe the package as it behaves with the declaration removed.
- KCDs of one name in two namespaces share an entry of `kcdStates`, "the last known
  state" (`controller.go:329`): `LastKnownState` fails for two such KCDs, and the theorem
  `StateKnown` assumes distinct names.
- `SuccessMeansDrained` has an exception (`early`) that the code really reaches: an
  interrupt, or a port that is taken, before the caches are synced, and the tracker
  exits with 0, which completes its job without having tracked anything.
- `ClosedOnce` has one too: a tracker that could not listen, whose end was already under way
  (`kcdFinish` had begun), panics at that end, when its own SIGINT closes the stop channel
  again; its job runs it once more.
- `StoppedEnds` excepts a tracker that hangs (`Hung`): an interrupt, or a port that is taken,
  after the first worker is counted and before `kcdFinish` stops the informers
  (`tracker.go:442-443`), and `main` and `Run` wait for ever for workers that only `kcdFinish`
  lets end. Its health server is down by then.
- `cmd/tracker.go:76` and `cmd/controller.go:67` assign `err` in a goroutine while `main` goes on
  to assign and test it (82-84, 73-75): whether a process stopped before its caches are synced exits
  with 0 or 1 is a race. `Lifecycle` has both outcomes.
- `cmd/root.go:102` reads `crash_logging.enabled` in `init`, before flags and
  configuration are read: crash logging is never set up by them.
- `config/config.go:43` says of `appendpoints` that it overwrites an app's
  endpoint; `controller.go:218-224` skips such an app ("Blacklisted"), and the
  model follows the code (`Blacklisted`).
- `tracker.maxretries`, "number of times to retry pushing to endpoint"
  (`cmd/tracker.go:100`), is read by nobody: refused messages are retried for ever.
- An SQS tracker panics at its first refused push: `t.rand` is nil.

## What is not modelled

- *Which tracker reports what*: a tracker that notices the end of another version
  reports it under its own (`tracker.go:279`). `System` keeps such reports apart, and `EndReported`
  says that the right one is made too; whether the wrong one does harm is up to the
  receiver.
- *KCD jumping from one version to the next* without finishing (`controller.go:322`
  compares statuses only): the model's KCD ends a rollout before it starts the next.
- *A KCD withdrawn while its tracker waits*: there is no delete handler, and the tracker
  waits for ever. `EndReported` speaks of KCDs that still exist.
- *A tracker without endpoints*: an empty http endpoint leaves its client nil.
- *Contents of messages*, pod snapshots and log collection: read-only calls whose
  results are only formatted.
- *Values of flags and configuration*: `Lifecycle` has the order of the start-up and its
  failures; the values are constants. `config/config.go` is imported by nobody.
- *Generated client, informers and listers* (`gok8s/client`, deep copies): generated by
  client-gen; what informers do is modelled where they are used.
- *Build and deployment scripts*: not part of the program.
- *Data race on `t.rand`*: it affects the length of a sleep.
- *Missed Delete events* (tombstones), which `deleteJob` ignores: the model's job
  informer misses none.

## Further work

- `System` with a crash of the controller and with its cleaner: which of its properties
  survive, beyond what `kubetel_faults` shows of the safety ones.
- The stop channel in `Tracker`, so that a stop interleaves with the pipeline as a kill does.
- `System` with `Tracker` in place of its abstraction: a refinement from the composition of both
  processes, which is too large for TLC.
- Which part of `TrackerComing` survives two workers whose KCDs have distinct apps, so that
  they share no job.
