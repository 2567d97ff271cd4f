------------------------------- MODULE Tracker -------------------------------
(***************************************************************************)
(* The deployment tracker of tracker/tracker.go: one process, started by a *)
(* Kubernetes job for one application (kcdapp), that turns KCD and         *)
(* Deployment notifications into deployment messages and pushes them to    *)
(* its endpoints.  Its goroutines are                                      *)
(*                                                                         *)
(*   - the KCD informer's listener, which runs trackAddKcd, trackKcd and   *)
(*     through them kcdFinish;                                             *)
(*   - the Deployment informer's listener, which runs trackDeployment;     *)
(*   - one merger per informer queue and the goroutine that closes the     *)
(*     main queue (InformerQueueMerger);                                   *)
(*   - the workers (runWorker), which push, and requeue what was refused.  *)
(*                                                                         *)
(* They share bounded Go channels, a WaitGroup and an atomic flag.  A send *)
(* on a closed channel panics and takes the whole process down; the job    *)
(* restarts it (RestartPolicyOnFailure) up to BackoffLimit times.          *)
(***************************************************************************)
EXTENDS Integers, Sequences, FiniteSets

CONSTANTS
    KCDs,           \* KCD resources of the watched namespace
    Tracked,        \* those whose selector names this tracker's kcdapp
    Deployments,    \* Deployments that selector matches
    FailedLogs,     \* containers of pods that may be found not ready
    Updates,        \* updates of those Deployments still to happen
    Workers,        \* worker goroutines (tracker.workercount)
    InformerCap,    \* capacity of an informer queue (100 in the code)
    MainCap,        \* capacity of the main queue (100 in the code)
    EndpointType,   \* "http" or "sqs"
    ListCanFail,    \* may listing the Deployments fail at the API server?
    MaxRetries,     \* bound: DeployMessage.Retries is counted up to here
    BackoffLimit,   \* restarts the job allows (10 in the code)
    NoMsg           \* "no message in hand"

ASSUME TrackerAssumption ==
    /\ Tracked \subseteq KCDs
    /\ IsFiniteSet(Workers) /\ Workers # {}
    /\ InformerCap \in Nat \ {0} /\ MainCap \in Nat \ {0}
    /\ EndpointType \in {"http", "sqs"}
    /\ ListCanFail \in BOOLEAN
    /\ MaxRetries \in Nat
    /\ BackoffLimit \in Nat

-----------------------------------------------------------------------------
(* Messages and statuses. *)

\* What a message says: its Type and the object it is about.
Payload ==
    [type : {"deployStatus"}, key : Updates]
        \cup [type : {"deployFailedLogs"}, key : FailedLogs]
        \cup [type : {"deployFinished"}, key : Deployments]

\* Retries is counted up to MaxRetries + 1 only: the code uses it for the
\* length of its sleep and compares it with nothing, tracker.maxretries
\* included.
DeployMessage == [body : Payload, retries : 0 .. MaxRetries + 1]

ASSUME NoMsgAssumption == NoMsg \notin Payload /\ NoMsg \notin DeployMessage

Finished == {"Success", "Failed"}
Status == Finished \cup {"Progressing", ""}     \* "" is Go's zero value

Informers == {"kcd", "deployment"}

Endpoints == IF EndpointType = "http" THEN {"kubedeploy"}
                                      ELSE {"kubedeploy", "robbie"}

\* What a worker knows of its push to an endpoint: not made yet, accepted, or
\* refused; a time-out counts as refused.
Answers == {"none", "ok", "error"}

\* Ways the process can die.
Crashes == {"evicted", "sendOnClosedInformer", "sendOnClosedMain",
            "doubleClose", "nilRand"}

-----------------------------------------------------------------------------
VARIABLES
    \* outside the process
    cluster,        \* KCD -> its status at the API server
    pending,        \* Deployment updates not yet notified
    received,       \* endpoint -> payloads it has received
    restarts,       \* times the job has restarted the process
    proc,           \* "up", "exited" or a member of Crashes
    \* the KCD listener
    added,          \* KCDs whose Add has been handled
    kcdStates,      \* last status handled, by KCD name
    kcdPc,          \* "idle", "finish", or the informer queue to close next
    kcdTodo,        \* payloads deployFinishHandler has still to enqueue
    \* the Deployment listener
    depMsg,         \* payload it is sending, past the check of the flag
    \* shared
    done,           \* deployMessageQueueDone
    queue,          \* informerQueues
    closed,         \* which of them are closed
    mainQ,          \* deployMessageQueue
    mainClosed,     \* is it closed?
    wg,             \* deployMessageQueueWG
    \* mergers and workers
    mergerPc, mergerMsg, workerPc, workerMsg,
    answer,         \* worker -> endpoint -> its answer to the message in hand
    \* history of this process, for the properties
    accepted,       \* payloads put on an informer queue
    settled         \* payloads whose processNextItem has succeeded

outside == <<cluster, pending, received, restarts>>
kcdSide == <<added, kcdStates, kcdPc, kcdTodo>>
mergers == <<mergerPc, mergerMsg>>
workers == <<workerPc, workerMsg, answer>>
mainQueue == <<mainQ, mainClosed, wg>>
history == <<accepted, settled>>

vars == <<outside, proc, kcdSide, depMsg, done, queue, closed,
          mainQueue, mergers, workers, history>>

Up == proc = "up"
Down == proc \in Crashes

\* What NewTracker and Run have just set up.
NoStates == [k \in KCDs |-> ""]
EmptyQueues == [i \in Informers |-> <<>>]
AllOpen == [i \in Informers |-> FALSE]
NewMergers == [i \in Informers |-> "receive"]
NewWorkers == [w \in Workers |-> "off"]
NoAnswers == [e \in Endpoints |-> "none"]

Init ==
    /\ cluster \in [KCDs -> Status]
    /\ pending = Updates
    /\ received = [e \in Endpoints |-> {}]
    /\ restarts = 0
    /\ proc = "up"
    /\ added = {} /\ kcdStates = NoStates
    /\ kcdPc = "idle" /\ kcdTodo = {}
    /\ depMsg = NoMsg
    /\ done = FALSE
    /\ queue = EmptyQueues /\ closed = AllOpen
    /\ mainQ = <<>> /\ mainClosed = FALSE /\ wg = 0
    /\ mergerPc = NewMergers /\ mergerMsg = [i \in Informers |-> NoMsg]
    /\ workerPc = NewWorkers /\ workerMsg = [w \in Workers |-> NoMsg]
    /\ answer = [w \in Workers |-> NoAnswers]
    /\ accepted = {} /\ settled = {}

-----------------------------------------------------------------------------
(* Outside the process. *)

\* KCD starts a deployment, or ends the one in progress.
SetStatus(k, s) ==
    /\ \/ s = "Progressing" /\ cluster[k] # "Progressing"
       \/ s \in Finished /\ cluster[k] = "Progressing"
    /\ cluster' = [cluster EXCEPT ![k] = s]
    /\ UNCHANGED <<pending, received, restarts, proc, kcdSide, depMsg, done,
                   queue, closed, mainQueue, mergers, workers, history>>

\* The kubelet kills the process: only SIGINT is handled.
Evict ==
    /\ Up
    /\ proc' = "evicted"
    /\ UNCHANGED <<outside, kcdSide, depMsg, done, queue, closed, mainQueue,
                   mergers, workers, history>>

\* The job's pod starts the process again, with none of its memory.
Restart ==
    /\ Down
    /\ restarts < BackoffLimit
    /\ restarts' = restarts + 1
    /\ proc' = "up"
    /\ added' = {} /\ kcdStates' = NoStates
    /\ kcdPc' = "idle" /\ kcdTodo' = {}
    /\ depMsg' = NoMsg
    /\ done' = FALSE
    /\ queue' = EmptyQueues /\ closed' = AllOpen
    /\ mainQ' = <<>> /\ mainClosed' = FALSE /\ wg' = 0
    /\ mergerPc' = NewMergers /\ mergerMsg' = [i \in Informers |-> NoMsg]
    /\ workerPc' = NewWorkers /\ workerMsg' = [w \in Workers |-> NoMsg]
    /\ answer' = [w \in Workers |-> NoAnswers]
    /\ accepted' = {} /\ settled' = {}
    /\ UNCHANGED <<cluster, pending, received>>

-----------------------------------------------------------------------------
(* Sends on the two kinds of channel: blocked while the buffer is full, a  *)
(* panic when the channel is closed.                                       *)

SendInformer(i, b) ==
    /\ closed[i] \/ Len(queue[i]) < InformerCap
    /\ IF closed[i]
       THEN /\ proc' = "sendOnClosedInformer"
            /\ UNCHANGED <<queue, accepted>>
       ELSE /\ queue' = [queue EXCEPT ![i] =
                            Append(@, [body |-> b, retries |-> 0])]
            /\ accepted' = accepted \cup {b}
            /\ UNCHANGED proc

\* Mutant: a select with a default case drops the message when it is full.
SendMainOrDrop(m) ==
    /\ mainQ' = IF Len(mainQ) < MainCap THEN Append(mainQ, m) ELSE mainQ
    /\ UNCHANGED proc

SendMain(m) ==
    /\ mainClosed \/ Len(mainQ) < MainCap
    /\ IF mainClosed
       THEN proc' = "sendOnClosedMain" /\ UNCHANGED mainQ
       ELSE mainQ' = Append(mainQ, m) /\ UNCHANGED proc

-----------------------------------------------------------------------------
(* The KCD listener. *)

\* Mutant: finish events are sent for successful deployments only.
FinishEventsOfSuccess(s) ==
    {{d \in [type : {"deployFinished"}, key : Deployments] : s = "Success"}}

\* What deployFinishHandler may have to enqueue: nothing when the List call
\* fails, otherwise one deployFinished per Deployment and, when the KCD has
\* failed, the logs of the containers whose pod is not ready.
FinishEvents(s) ==
    LET finishes == [type : {"deployFinished"}, key : Deployments]
        logs == [type : {"deployFailedLogs"}, key : FailedLogs]
    IN  (IF ListCanFail THEN {{}} ELSE {})
            \cup {finishes \cup l : l \in IF s = "Failed" THEN SUBSET logs
                                                          ELSE {{}}}

\* The common tail of trackAddKcd and trackKcd.
NoteStatus(k) ==
    /\ kcdStates' = [kcdStates EXCEPT ![k] = cluster[k]]
    /\ IF k \in Tracked /\ cluster[k] \in Finished
       THEN kcdPc' = "finish" /\ kcdTodo' \in FinishEvents(cluster[k])
       ELSE UNCHANGED <<kcdPc, kcdTodo>>
    /\ UNCHANGED <<outside, proc, depMsg, done, queue, closed, mainQueue,
                   mergers, workers, history>>

TrackAddKcd(k) ==
    /\ Up /\ kcdPc = "idle"
    /\ k \notin added
    /\ added' = added \cup {k}
    /\ NoteStatus(k)

\* The update carries the status at the API server: earlier ones may have
\* been bundled into it.
TrackKcd(k) ==
    /\ Up /\ kcdPc = "idle"
    /\ k \in added
    /\ cluster[k] # kcdStates[k]
    /\ UNCHANGED added
    /\ NoteStatus(k)

\* One iteration of deployFinishHandler's loops; logs go before finishes.
EnqueueFinish(b) ==
    /\ Up /\ kcdPc = "finish"
    /\ b \in kcdTodo
    /\ b.type = "deployFinished" =>
          \A c \in kcdTodo : c.type = "deployFinished"
    /\ IF done THEN UNCHANGED <<proc, queue, accepted>>
               ELSE SendInformer("kcd", b)
    /\ kcdTodo' = kcdTodo \ {b}
    /\ UNCHANGED <<outside, added, kcdStates, kcdPc, depMsg, done, closed,
                   mainQueue, mergers, workers, settled>>

\* Mutant: kcdFinish does not wait for deployFinishHandler.
SetDoneAtOnce ==
    /\ Up /\ kcdPc = "finish"
    /\ done' = TRUE
    /\ kcdPc' = IF done THEN "idle" ELSE "kcd"
    /\ UNCHANGED <<outside, proc, added, kcdStates, kcdTodo, depMsg, queue,
                   closed, mainQueue, mergers, workers, history>>

\* kcdFinish after deployFinishHandler has returned.
SetDone ==
    /\ Up /\ kcdPc = "finish"
    /\ kcdTodo = {}
    /\ done' = TRUE
    /\ kcdPc' = IF done THEN "idle" ELSE "kcd"
    /\ UNCHANGED <<outside, proc, added, kcdStates, kcdTodo, depMsg, queue,
                   closed, mainQueue, mergers, workers, history>>

\* It closes the informer queues in the order of informerList.
CloseInformer(i) ==
    /\ Up /\ kcdPc = i
    /\ proc' = IF closed[i] THEN "doubleClose" ELSE proc
    /\ closed' = [closed EXCEPT ![i] = TRUE]
    /\ kcdPc' = IF i = "kcd" THEN "deployment" ELSE "idle"
    /\ UNCHANGED <<outside, added, kcdStates, kcdTodo, depMsg, done, queue,
                   mainQueue, mergers, workers, history>>

-----------------------------------------------------------------------------
(* The Deployment listener: enqueue's check of the flag and its send are   *)
(* two steps.                                                              *)

TrackDeployment(u) ==
    /\ Up /\ depMsg = NoMsg
    /\ u \in pending
    /\ pending' = pending \ {u}
    /\ depMsg' = IF done THEN NoMsg ELSE [type |-> "deployStatus", key |-> u]
    /\ UNCHANGED <<cluster, received, restarts, proc, kcdSide, done, queue,
                   closed, mainQueue, mergers, workers, history>>

SendStatus ==
    /\ Up /\ depMsg # NoMsg
    /\ SendInformer("deployment", depMsg)
    /\ depMsg' = NoMsg
    /\ UNCHANGED <<outside, kcdSide, done, closed, mainQueue, mergers, workers,
                   settled>>

-----------------------------------------------------------------------------
(* InformerQueueMerger. *)

MergerReceive(i) ==
    /\ Up /\ mergerPc[i] = "receive"
    /\ queue[i] # <<>>
    /\ queue' = [queue EXCEPT ![i] = Tail(@)]
    /\ mergerMsg' = [mergerMsg EXCEPT ![i] = Head(queue[i])]
    /\ mergerPc' = [mergerPc EXCEPT ![i] = "send"]
    /\ wg' = wg + 1
    /\ UNCHANGED <<outside, proc, kcdSide, depMsg, done, closed, mainQ,
                   mainClosed, workers, history>>

MergerSend(i) ==
    /\ Up /\ mergerPc[i] = "send"
    /\ SendMain(mergerMsg[i])
    /\ mergerMsg' = [mergerMsg EXCEPT ![i] = NoMsg]
    /\ mergerPc' = [mergerPc EXCEPT ![i] = "receive"]
    /\ UNCHANGED <<outside, kcdSide, depMsg, done, queue, closed, mainClosed,
                   wg, workers, history>>

MergerStop(i) ==
    /\ Up /\ mergerPc[i] = "receive"
    /\ closed[i] /\ queue[i] = <<>>
    /\ mergerPc' = [mergerPc EXCEPT ![i] = "stopped"]
    /\ UNCHANGED <<outside, proc, kcdSide, depMsg, done, queue, closed,
                   mainQueue, mergerMsg, workers, history>>

\* Mutant: without the wait for deployMessageQueueWG.
CloseMainAtOnce ==
    /\ Up /\ ~mainClosed
    /\ \A i \in Informers : mergerPc[i] = "stopped"
    /\ mainClosed' = TRUE
    /\ UNCHANGED <<outside, proc, kcdSide, depMsg, done, queue, closed, mainQ,
                   wg, mergers, workers, history>>

CloseMain ==
    /\ Up /\ ~mainClosed
    /\ \A i \in Informers : mergerPc[i] = "stopped"
    /\ wg = 0
    /\ mainClosed' = TRUE
    /\ UNCHANGED <<outside, proc, kcdSide, depMsg, done, queue, closed, mainQ,
                   wg, mergers, workers, history>>

-----------------------------------------------------------------------------
(* The workers. *)

\* Run starts them once the informers' caches are synced.
StartWorkers ==
    /\ Up
    /\ \A w \in Workers : workerPc[w] = "off"
    /\ workerPc' = [w \in Workers |-> "receive"]
    /\ UNCHANGED <<outside, proc, kcdSide, depMsg, done, queue, closed,
                   mainQueue, mergers, workerMsg, answer, history>>

WorkerReceive(w) ==
    /\ Up /\ workerPc[w] = "receive"
    /\ mainQ # <<>>
    /\ mainQ' = Tail(mainQ)
    /\ workerMsg' = [workerMsg EXCEPT ![w] = Head(mainQ)]
    /\ workerPc' = [workerPc EXCEPT ![w] = "process"]
    /\ UNCHANGED <<outside, proc, kcdSide, depMsg, done, queue, closed,
                   mainClosed, wg, mergers, answer, history>>

\* processNextItem pushes to its endpoints one after the other, and makes the
\* second push whatever the first one's answer was.
Pushing(w, e) ==
    /\ Up /\ workerPc[w] = "process"
    /\ answer[w][e] = "none"
    /\ e = "robbie" => answer[w]["kubedeploy"] # "none"

\* The endpoint takes the message and says so.
PushAccepted(w, e) ==
    /\ Pushing(w, e)
    /\ received' = [received EXCEPT ![e] = @ \cup {workerMsg[w].body}]
    /\ answer' = [answer EXCEPT ![w][e] = "ok"]
    /\ UNCHANGED <<cluster, pending, restarts, proc, kcdSide, depMsg, done,
                   queue, closed, mainQueue, mergers, workerPc, workerMsg,
                   history>>

\* The push fails.  The endpoint may have the message all the same: a
\* time-out or an error status says nothing about it.
PushRefused(w, e) ==
    /\ Pushing(w, e)
    /\ \/ received' = [received EXCEPT ![e] = @ \cup {workerMsg[w].body}]
       \/ UNCHANGED received
    /\ answer' = [answer EXCEPT ![w][e] = "error"]
    /\ UNCHANGED <<cluster, pending, restarts, proc, kcdSide, depMsg, done,
                   queue, closed, mainQueue, mergers, workerPc, workerMsg,
                   history>>

Push(w, e) == PushAccepted(w, e) \/ PushRefused(w, e)

\* Mutant: "kdSuccess || robbieSuccess".
SomeAccepted(w) ==
    /\ \A e \in Endpoints : answer[w][e] # "none"
    /\ \E e \in Endpoints : answer[w][e] = "ok"

\* What processNextItem makes of the answers.
AllAccepted(w) == \A e \in Endpoints : answer[w][e] = "ok"
SomeRefused(w) ==
    /\ \A e \in Endpoints : answer[w][e] # "none"
    /\ \E e \in Endpoints : answer[w][e] = "error"

\* Mutant: runWorker requeues without looking at the result.
DeliverAndRetry(w) ==
    /\ Up /\ workerPc[w] = "process"
    /\ AllAccepted(w)
    /\ wg' = wg - 1
    /\ settled' = settled \cup {workerMsg[w].body}
    /\ workerPc' = [workerPc EXCEPT ![w] = "retry"]
    /\ answer' = [answer EXCEPT ![w] = NoAnswers]
    /\ UNCHANGED <<outside, proc, kcdSide, depMsg, done, queue, closed, mainQ,
                   mainClosed, mergers, workerMsg, accepted>>

\* The end of processNextItem when it has been successful: Done.
Deliver(w) ==
    /\ Up /\ workerPc[w] = "process"
    /\ AllAccepted(w)
    /\ wg' = wg - 1
    /\ settled' = settled \cup {workerMsg[w].body}
    /\ workerPc' = [workerPc EXCEPT ![w] = "receive"]
    /\ workerMsg' = [workerMsg EXCEPT ![w] = NoMsg]
    /\ answer' = [answer EXCEPT ![w] = NoAnswers]
    /\ UNCHANGED <<outside, proc, kcdSide, depMsg, done, queue, closed, mainQ,
                   mainClosed, mergers, accepted>>

\* When it has not, runWorker counts one more retry.
FailToDeliver(w) ==
    /\ Up /\ workerPc[w] = "process"
    /\ SomeRefused(w)
    /\ workerMsg' = [workerMsg EXCEPT ![w].retries =
                        IF @ > MaxRetries THEN @ ELSE @ + 1]
    /\ workerPc' = [workerPc EXCEPT ![w] = "retry"]
    /\ answer' = [answer EXCEPT ![w] = NoAnswers]
    /\ UNCHANGED <<outside, proc, kcdSide, depMsg, done, queue, closed,
                   mainQueue, mergers, history>>

\* Mutant: a message refused too often is dropped, without its Done.
RequeueOrGiveUp(w) ==
    /\ Up /\ workerPc[w] = "retry"
    /\ IF workerMsg[w].retries > MaxRetries THEN UNCHANGED <<proc, mainQ>>
                                            ELSE SendMain(workerMsg[w])
    /\ workerPc' = [workerPc EXCEPT ![w] = "receive"]
    /\ workerMsg' = [workerMsg EXCEPT ![w] = NoMsg]
    /\ UNCHANGED <<outside, kcdSide, depMsg, done, queue, closed, mainClosed,
                   wg, mergers, answer, history>>

\* runWorker sleeps and sends the message again.  sleepDuration uses t.rand,
\* which NewTracker sets for the "http" endpoint type only.
Requeue(w) ==
    /\ Up /\ workerPc[w] = "retry"
    /\ IF EndpointType = "sqs" THEN proc' = "nilRand" /\ UNCHANGED mainQ
                               ELSE SendMain(workerMsg[w])
    /\ workerPc' = [workerPc EXCEPT ![w] = "receive"]
    /\ workerMsg' = [workerMsg EXCEPT ![w] = NoMsg]
    /\ UNCHANGED <<outside, kcdSide, depMsg, done, queue, closed, mainClosed,
                   wg, mergers, answer, history>>

\* Mutants: the zero message a closed channel yields is processed; the worker
\* stops as soon as the queue is empty.
WorkerReceiveZero(w) ==
    /\ Up /\ workerPc[w] = "receive"
    /\ mainClosed /\ mainQ = <<>>
    /\ workerPc' = [workerPc EXCEPT ![w] = "process"]
    /\ UNCHANGED <<outside, proc, kcdSide, depMsg, done, queue, closed,
                   mainQueue, mergers, workerMsg, answer, history>>
WorkerStopEmpty(w) ==
    /\ Up /\ workerPc[w] = "receive"
    /\ mainQ = <<>>
    /\ workerPc' = [workerPc EXCEPT ![w] = "stopped"]
    /\ UNCHANGED <<outside, proc, kcdSide, depMsg, done, queue, closed,
                   mainQueue, mergers, workerMsg, answer, history>>

WorkerStop(w) ==
    /\ Up /\ workerPc[w] = "receive"
    /\ mainClosed /\ mainQ = <<>>
    /\ workerPc' = [workerPc EXCEPT ![w] = "stopped"]
    /\ UNCHANGED <<outside, proc, kcdSide, depMsg, done, queue, closed,
                   mainQueue, mergers, workerMsg, answer, history>>

\* Run interrupts the process when its workers are done, and it returns.
Exit ==
    /\ Up
    /\ \A w \in Workers : workerPc[w] = "stopped"
    /\ proc' = "exited"
    /\ UNCHANGED <<outside, kcdSide, depMsg, done, queue, closed, mainQueue,
                   mergers, workers, history>>

-----------------------------------------------------------------------------
Next ==
    \/ \E k \in KCDs : TrackAddKcd(k) \/ TrackKcd(k)
    \/ \E k \in KCDs, s \in Status : SetStatus(k, s)
    \/ \E b \in Payload : EnqueueFinish(b)
    \/ SetDone
    \/ \E i \in Informers :
          CloseInformer(i) \/ MergerReceive(i) \/ MergerSend(i) \/ MergerStop(i)
    \/ \E u \in Updates : TrackDeployment(u)
    \/ SendStatus
    \/ CloseMain
    \/ StartWorkers
    \/ \E w \in Workers : \/ WorkerReceive(w) \/ WorkerStop(w)
                          \/ Deliver(w) \/ FailToDeliver(w) \/ Requeue(w)
    \/ \E w \in Workers, e \in Endpoints : Push(w, e)
    \/ Exit
    \/ Evict
    \/ Restart

Spec == Init /\ [][Next]_vars

(***************************************************************************)
(* Fairness.  The Go scheduler runs every goroutine that can run, and a    *)
(* blocked channel operation is served in FIFO order: weak fairness for    *)
(* the goroutines that are alone at their channel, strong fairness for     *)
(* those that compete for the main queue.  The kubelet restarts the        *)
(* process, and an endpoint does not refuse every push for ever.           *)
(***************************************************************************)
Fairness ==
    /\ \A k \in KCDs : WF_vars(TrackAddKcd(k)) /\ WF_vars(TrackKcd(k))
    /\ WF_vars(\E b \in Payload : EnqueueFinish(b))
    /\ WF_vars(SetDone)
    /\ \A i \in Informers :
          /\ WF_vars(CloseInformer(i))
          /\ WF_vars(MergerReceive(i))
          /\ SF_vars(MergerSend(i))
          /\ WF_vars(MergerStop(i))
    /\ WF_vars(SendStatus)
    /\ WF_vars(CloseMain)
    /\ WF_vars(StartWorkers)
    /\ \A w \in Workers :
          /\ SF_vars(WorkerReceive(w))
          /\ \A e \in Endpoints : SF_vars(PushAccepted(w, e))
          /\ WF_vars(Deliver(w)) /\ WF_vars(FailToDeliver(w))
          /\ SF_vars(Requeue(w))
          /\ WF_vars(WorkerStop(w))
    /\ WF_vars(Exit)
    /\ WF_vars(Restart)

FairSpec == Spec /\ Fairness

-----------------------------------------------------------------------------
(* Properties. *)

MsgOrNone == DeployMessage \cup {NoMsg}

\* Who has a message in hand.
Merging == {i \in Informers : mergerPc[i] = "send"}
Working == {w \in Workers : workerPc[w] \in {"process", "retry"}}

\* The variables have the shapes the Go declarations give them, and a
\* goroutine between its receive and its send has a message in hand.
TypeOK ==
    /\ cluster \in [KCDs -> Status]
    /\ pending \subseteq Updates
    /\ received \in [Endpoints -> SUBSET Payload]
    /\ restarts \in 0 .. BackoffLimit
    /\ proc \in {"up", "exited"} \cup Crashes
    /\ added \subseteq KCDs
    /\ kcdStates \in [KCDs -> Status]
    /\ kcdPc \in {"idle", "finish"} \cup Informers
    /\ kcdTodo \subseteq Payload
    /\ depMsg \in Payload \cup {NoMsg}
    /\ done \in BOOLEAN
    /\ queue \in [Informers -> Seq(DeployMessage)]
    /\ closed \in [Informers -> BOOLEAN]
    /\ mainQ \in Seq(DeployMessage)
    /\ mainClosed \in BOOLEAN
    /\ wg \in Int
    /\ mergerPc \in [Informers -> {"receive", "send", "stopped"}]
    /\ mergerMsg \in [Informers -> MsgOrNone]
    /\ workerPc \in
          [Workers -> {"off", "receive", "process", "retry", "stopped"}]
    /\ workerMsg \in [Workers -> MsgOrNone]
    /\ answer \in [Workers -> [Endpoints -> Answers]]
    /\ \A i \in Merging : mergerMsg[i] # NoMsg
    /\ \A w \in Working : workerMsg[w] # NoMsg
    /\ accepted \subseteq Payload
    /\ settled \subseteq Payload

\* Payloads past an informer queue, or still in one, that are not settled.
InSeq(b, q) == \E n \in 1 .. Len(q) : q[n].body = b
InPipeline(b) ==
    \/ \E i \in Informers : InSeq(b, queue[i])
    \/ \E i \in Merging : mergerMsg[i].body = b
    \/ InSeq(b, mainQ)
    \/ \E w \in Working : workerMsg[w].body = b

\* The counter of deployMessageQueueWG is the number of messages that a
\* merger has taken and no worker has finished with: each retry keeps its
\* count, so Wait cannot return early and Done cannot drive it negative.
WaitGroupCounts ==
    Up => wg = Len(mainQ) + Cardinality(Merging) + Cardinality(Working)

\* No step ever sends on the closed main queue or closes a queue twice,
\* however the listeners, mergers, retries and the closing interleave.
ChannelDiscipline == proc \notin {"sendOnClosedMain", "doubleClose"}

\* When the main queue is closed, and when the process has exited on its
\* own, every message ever put on an informer queue has been acknowledged.
DrainedBeforeClose ==
    (mainClosed /\ Up) \/ proc = "exited" => accepted = settled

\* A message is neither lost nor duplicated inside the process: what was
\* accepted is either settled or in exactly the queues, not both.
AcceptedTracked ==
    Up => \A b \in Payload :
             (b \in accepted) <=> (b \in settled \/ InPipeline(b))
NoResend == Up => \A b \in settled : ~InPipeline(b)

\* processNextItem calls a message done only when every endpoint has it: a
\* refusal by one queue is not outweighed by the other's answer, whichever
\* comes first.
SettledReceived == \A e \in Endpoints : settled \subseteq received[e]

\* kcdFinish closes the KCD queue only after it has enqueued a finish event
\* for every Deployment (when the List call works), in whatever order KCD
\* updates happen and whatever the other goroutines do meanwhile.
FinishAcceptedBeforeClose ==
    closed["kcd"] /\ ~ListCanFail =>
        [type : {"deployFinished"}, key : Deployments] \subseteq accepted

\* tracker.go:429-433 and 467-471: mergers, closing goroutine and workers wait
\* for each other, and once both informer queues are closed one of them can go
\* on until Run returns.  What could keep all of them waiting is a full main
\* queue and every worker about to requeue; that takes as many messages in
\* flight as the main queue has room for, and one more per worker.
CanGoOn ==
    LET room == Len(mainQ) < MainCap IN
    \/ \E i \in Informers : \/ mergerPc[i] = "receive"
                            \/ mergerPc[i] = "send" /\ room
    \/ \E w \in Workers : \/ workerPc[w] = "process"
                          \/ workerPc[w] = "receive" /\ (mainQ # <<>> \/ mainClosed)
                          \/ workerPc[w] = "retry" /\ room
    \/ wg = 0 /\ ~mainClosed /\ \A i \in Informers : mergerPc[i] = "stopped"
    \/ \A w \in Workers : workerPc[w] = "off"
    \/ \A w \in Workers : workerPc[w] = "stopped"

SealedGoesOn ==
    /\ Up /\ \A i \in Informers : closed[i]
    /\ wg < MainCap + Cardinality(Workers)
    => CanGoOn

\* The tracker keeps the promise of Delivery, queues, goroutines, retries and
\* the closing of the channels included: it takes nothing in once the last
\* informer queue is closed, settles nothing twice, exits only when all it
\* took in is settled and, in LiveSpec, does exit.
Phase ==
    IF Down THEN "lost"
    ELSE IF proc = "exited" THEN "closed"
    ELSE IF \A i \in Informers : closed[i] THEN "sealed"
    ELSE "open"

D == INSTANCE Delivery WITH phase <- Phase

Delivers == D!Spec
DeliversLive == D!LiveSpec

\* When a tracked KCD has finished for good, every endpoint is told so for
\* every Deployment, through crashes and refused pushes, unless the job has
\* used up its restarts.
FinishesReceived ==
    \A e \in Endpoints, d \in Deployments :
        [type |-> "deployFinished", key |-> d] \in received[e]
FinishReported ==
    (\E k \in Tracked : <>[](cluster[k] \in Finished)) =>
        <>(FinishesReceived \/ (Down /\ restarts = BackoffLimit))

-----------------------------------------------------------------------------
(* What comments of the repository say and the code does not keep.         *)

\* tracker.go:296, of deployFinishHandler: "Send all finish events".  A
\* process that ends by itself has sent them.
SendAllFinishEvents == proc = "exited" => FinishesReceived

\* tracker.go:415: "InformerQueueMerger empties the informer queues into the
\* main work queue".
QueuesEmptied ==
    \A i \in Informers :
        (Up /\ queue[i] # <<>>) ~> (~Up \/ queue[i] = <<>>)

=============================================================================
