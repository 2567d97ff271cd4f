----------------------- MODULE TrackerRefinementProofs -----------------------
(***************************************************************************)
(* The tracker implements Delivery: a message is in one place at a time,   *)
(* no message is enqueued twice by one process, and the finish events are  *)
(* all enqueued before the KCD queue is closed.                            *)
(***************************************************************************)
EXTENDS TrackerProofs

Finishes == [type : {"deployFinished"}, key : Deployments]

\* No two messages of a queue say the same.
NoDup(q) == \A m, n \in 1 .. Len(q) : q[m].body = q[n].body => m = n

\* The places a message can be in, besides the main queue.
Queued(b) == \E i \in Informers : InSeq(b, queue[i])
Held(b) == \E i \in Merging : mergerMsg[i].body = b
Taken(b) == \E w \in Working : workerMsg[w].body = b

\* A message occurs once in the place it is in ...
OnceInPlace ==
    /\ \A i \in Informers : NoDup(queue[i])
    /\ \A b \in Payload, i, j \in Informers :
          InSeq(b, queue[i]) /\ InSeq(b, queue[j]) => i = j
    /\ NoDup(mainQ)
    /\ \A i, j \in Merging : mergerMsg[i].body = mergerMsg[j].body => i = j
    /\ \A v, w \in Working : workerMsg[v].body = workerMsg[w].body => v = w

\* ... and in one place, which it leaves for good when it is settled.
OnePlace(b) ==
    /\ Queued(b) => ~Held(b) /\ ~InSeq(b, mainQ) /\ ~Taken(b) /\ b \notin settled
    /\ Held(b) => ~InSeq(b, mainQ) /\ ~Taken(b) /\ b \notin settled
    /\ InSeq(b, mainQ) => ~Taken(b) /\ b \notin settled
    /\ Taken(b) => b \notin settled

Unique == Up => OnceInPlace /\ \A b \in Payload : OnePlace(b)

\* What the listeners have still to send has not been sent.
Unsent ==
    Up =>
      /\ depMsg # NoMsg => /\ depMsg.type = "deployStatus"
                           /\ depMsg.key \notin pending
                           /\ depMsg \notin accepted
      /\ \A b \in accepted : b.type = "deployStatus" => b.key \notin pending
      /\ \A b \in kcdTodo : b.type # "deployStatus"
      /\ kcdPc = "idle" /\ ~done => \A b \in accepted : b.type = "deployStatus"
      /\ kcdPc = "finish" /\ ~done => kcdTodo \cap accepted = {}

\* A finish event is sent, or about to be, before the flag is set.
FinishOrder ==
    ~ListCanFail =>
      /\ kcdPc = "finish" /\ ~done => Finishes \subseteq kcdTodo \cup accepted
      /\ done => Finishes \subseteq accepted

\* A process that has ended by itself had closed its informer queues.
ExitShut == proc = "exited" => closed["kcd"]

\* A worker remembers answers to the message it is processing only, and what
\* was acknowledged has been received.
Acknowledged ==
    \A w \in Workers, e \in Endpoints :
        /\ answer[w][e] # "none" => workerPc[w] = "process"
        /\ answer[w][e] = "ok" => workerMsg[w].body \in received[e]

\* The inductive invariant of this module; Inv is that of TrackerProofs.
Inv2 ==
    /\ Unique
    /\ Unsent
    /\ FinishOrder
    /\ FinishAcceptedBeforeClose
    /\ Acknowledged
    /\ SettledReceived
    /\ ExitShut

USE DEF Up, outside, kcdSide, mainQueue, mergers, workers, history

-----------------------------------------------------------------------------
(* Queues without duplicates. *)

LEMMA NoDupEmpty == NoDup(<<>>)
<1>1. Len(<<>>) = 0
  OBVIOUS
<1>. QED
  BY <1>1 DEF NoDup

LEMMA NoDupAppend ==
    ASSUME NEW q \in Seq(DeployMessage), NEW m \in DeployMessage,
           NoDup(q), ~InSeq(m.body, q)
    PROVE  NoDup(Append(q, m))
<1>. DEFINE r == Append(q, m)
<1>1. /\ Len(q) \in Nat /\ Len(r) = Len(q) + 1
      /\ \A n \in 1 .. Len(q) : r[n] = q[n]
      /\ r[Len(q) + 1] = m
  OBVIOUS
<1>2. \A n \in 1 .. Len(q) : q[n].body # m.body
  BY DEF InSeq
<1>. HIDE DEF r
<1>3. ASSUME NEW k \in 1 .. Len(r), NEW n \in 1 .. Len(r),
             r[k].body = r[n].body
      PROVE  k = n
  <2>1. CASE k \in 1 .. Len(q) /\ n \in 1 .. Len(q)
    BY <1>1, <1>3, <2>1 DEF NoDup
  <2>2. CASE k = Len(q) + 1 \/ n = Len(q) + 1
    BY <1>1, <1>2, <1>3, <2>2
  <2>. QED
    BY <1>1, <2>1, <2>2
<1>4. NoDup(r)
  BY <1>3 DEF NoDup
<1>. QED
  BY <1>4 DEF r

LEMMA NoDupTail ==
    ASSUME NEW q \in Seq(DeployMessage), q # <<>>, NoDup(q)
    PROVE  NoDup(Tail(q)) /\ ~InSeq(Head(q).body, Tail(q))
<1>. DEFINE r == Tail(q)
<1>1. /\ Len(q) \in Nat \ {0} /\ Len(r) = Len(q) - 1
      /\ \A n \in 1 .. Len(r) : r[n] = q[n + 1]
      /\ Head(q) = q[1]
  OBVIOUS
<1>. HIDE DEF r
<1>2. NoDup(r)
  <2>. SUFFICES ASSUME NEW k \in 1 .. Len(r), NEW n \in 1 .. Len(r),
                       r[k].body = r[n].body
                PROVE  k = n
    BY DEF NoDup
  <2>1. k + 1 \in 1 .. Len(q) /\ n + 1 \in 1 .. Len(q)
    BY <1>1
  <2>2. k + 1 = n + 1
    BY <1>1, <2>1 DEF NoDup
  <2>. QED
    BY <2>2
<1>3. ~InSeq(Head(q).body, r)
  <2>. SUFFICES ASSUME NEW n \in 1 .. Len(r), r[n].body = Head(q).body
                PROVE  FALSE
    BY DEF InSeq
  <2>1. n + 1 \in 1 .. Len(q) /\ 1 \in 1 .. Len(q)
    BY <1>1
  <2>2. n + 1 = 1
    BY <1>1, <2>1 DEF NoDup
  <2>. QED
    BY <2>2
<1>. QED
  BY <1>2, <1>3 DEF r

-----------------------------------------------------------------------------
(* What is settled has been received. *)

\* What a push does to them.
LEMMA PushStep ==
    ASSUME TypeOK, NEW w \in Workers, NEW e \in Endpoints, Push(w, e)
    PROVE  /\ workerPc[w] = "process"
           /\ \A f \in Endpoints : received[f] \subseteq received'[f]
           /\ \A v \in Workers, f \in Endpoints :
                 v # w \/ f # e => answer'[v][f] = answer[v][f]
           /\ answer'[w][e] = "ok" => workerMsg[w].body \in received'[e]
           /\ UNCHANGED <<workerPc, workerMsg, settled>>
<1>1. received \in [Endpoints -> SUBSET Payload]
  BY DEF TypeOK
<1>2. answer \in [Workers -> [Endpoints -> Answers]]
  BY DEF TypeOK
<1>3. CASE PushAccepted(w, e)
  <2>1. /\ received' = [received EXCEPT ![e] =
                            received[e] \cup {workerMsg[w].body}]
        /\ answer' = [answer EXCEPT ![w][e] = "ok"]
    BY <1>3 DEF PushAccepted
  <2>. QED
    BY <1>1, <1>2, <1>3, <2>1 DEF PushAccepted, Pushing
<1>4. CASE PushRefused(w, e)
  <2>1. /\ \/ received' = received
           \/ received' = [received EXCEPT ![e] =
                               received[e] \cup {workerMsg[w].body}]
        /\ answer' = [answer EXCEPT ![w][e] = "error"]
    BY <1>4 DEF PushRefused
  <2>. QED
    BY <1>1, <1>2, <1>4, <2>1 DEF PushRefused, Pushing
<1>. QED
  BY <1>3, <1>4 DEF Push

LEMMA NextAcknowledged ==
    TypeOK /\ Acknowledged /\ [Next]_vars => Acknowledged'
<1>. SUFFICES ASSUME TypeOK, Acknowledged, [Next]_vars PROVE Acknowledged'
  OBVIOUS
<1>1. ASSUME UNCHANGED <<received, answer, workerPc, workerMsg>>
      PROVE  Acknowledged'
  BY <1>1 DEF Acknowledged
<1>2. ASSUME NEW w \in Workers, answer'[w] = NoAnswers, UNCHANGED received,
             \A v \in Workers \ {w} : /\ answer'[v] = answer[v]
                                     /\ workerPc'[v] = workerPc[v]
                                     /\ workerMsg'[v] = workerMsg[v]
      PROVE  Acknowledged'
  BY <1>2 DEF Acknowledged, NoAnswers
<1>3. ASSUME NEW w \in Workers,
             \/ WorkerReceive(w) \/ WorkerStop(w) \/ Requeue(w)
      PROVE  Acknowledged'
  <2>1. \A e \in Endpoints : answer[w][e] = "none"
    BY <1>3 DEF Acknowledged, WorkerReceive, WorkerStop, Requeue
  <2>2. answer[w] = NoAnswers
    BY <2>1 DEF TypeOK, NoAnswers
  <2>. QED
    BY <1>2, <1>3, <2>2 DEF TypeOK, WorkerReceive, WorkerStop, Requeue
<1>4. ASSUME NEW w \in Workers, Deliver(w) \/ FailToDeliver(w)
      PROVE  Acknowledged'
  BY <1>2, <1>4 DEF TypeOK, Deliver, FailToDeliver
<1>5. ASSUME NEW w \in Workers, NEW e \in Endpoints, Push(w, e)
      PROVE  Acknowledged'
  BY <1>5, PushStep DEF Acknowledged
<1>6. ASSUME StartWorkers PROVE Acknowledged'
  BY <1>6 DEF StartWorkers, Acknowledged
<1>7. ASSUME Restart PROVE Acknowledged'
  BY <1>7 DEF Restart, Acknowledged, NoAnswers
<1>8. CASE \/ \E k \in KCDs : \/ TrackAddKcd(k) \/ TrackKcd(k)
                              \/ \E s \in Status : SetStatus(k, s)
           \/ \E b \in Payload : EnqueueFinish(b)
           \/ \E i \in Informers : \/ CloseInformer(i) \/ MergerReceive(i)
                                   \/ MergerSend(i) \/ MergerStop(i)
           \/ \E u \in Updates : TrackDeployment(u)
           \/ SetDone \/ SendStatus \/ CloseMain \/ Exit \/ Evict
           \/ UNCHANGED vars
  BY <1>1, <1>8
  DEF TrackAddKcd, TrackKcd, NoteStatus, SetStatus, EnqueueFinish,
      CloseInformer, MergerReceive, MergerSend, MergerStop, TrackDeployment,
      SetDone, SendStatus, CloseMain, Exit, Evict, vars
<1>. QED
  BY <1>3, <1>4, <1>5, <1>6, <1>7, <1>8 DEF Next

LEMMA NextSettledReceived ==
    TypeOK /\ Acknowledged /\ SettledReceived /\ [Next]_vars
        => SettledReceived'
<1>. SUFFICES ASSUME TypeOK, Acknowledged, SettledReceived, [Next]_vars
              PROVE  SettledReceived'
  OBVIOUS
<1>1. ASSUME settled' \subseteq settled, UNCHANGED received
      PROVE  SettledReceived'
  BY <1>1 DEF SettledReceived
<1>2. ASSUME NEW w \in Workers, Deliver(w) PROVE SettledReceived'
  <2>1. \A e \in Endpoints : workerMsg[w].body \in received[e]
    BY <1>2 DEF Deliver, AllAccepted, Acknowledged
  <2>2. settled' = settled \cup {workerMsg[w].body} /\ UNCHANGED received
    BY <1>2 DEF Deliver
  <2>. QED
    BY <2>1, <2>2 DEF SettledReceived
<1>3. ASSUME NEW w \in Workers, NEW e \in Endpoints, Push(w, e)
      PROVE  SettledReceived'
  BY <1>3, PushStep DEF SettledReceived
<1>4. CASE \/ \E k \in KCDs : \/ TrackAddKcd(k) \/ TrackKcd(k)
                              \/ \E s \in Status : SetStatus(k, s)
           \/ \E b \in Payload : EnqueueFinish(b)
           \/ \E i \in Informers : \/ CloseInformer(i) \/ MergerReceive(i)
                                   \/ MergerSend(i) \/ MergerStop(i)
           \/ \E u \in Updates : TrackDeployment(u)
           \/ SetDone \/ SendStatus
  BY <1>1, <1>4
  DEF TrackAddKcd, TrackKcd, NoteStatus, SetStatus, EnqueueFinish,
      CloseInformer, MergerReceive, MergerSend, MergerStop, TrackDeployment,
      SetDone, SendStatus
<1>5. CASE \/ \E w \in Workers : \/ WorkerReceive(w) \/ WorkerStop(w)
                                 \/ Requeue(w) \/ FailToDeliver(w)
           \/ CloseMain \/ StartWorkers \/ Exit \/ Evict \/ Restart
           \/ UNCHANGED vars
  BY <1>1, <1>5
  DEF WorkerReceive, WorkerStop, Requeue, FailToDeliver, CloseMain,
      StartWorkers, Exit, Evict, Restart, vars
<1>. QED
  BY <1>2, <1>3, <1>4, <1>5 DEF Next

-----------------------------------------------------------------------------
(* The finish events are enqueued before the KCD queue is closed. *)

LEMMA FinishEventsComplete ==
    ASSUME NEW s, NEW f \in FinishEvents(s), ~ListCanFail
    PROVE  Finishes \subseteq f
BY DEF FinishEvents, Finishes

LEMMA FinishEventsNoStatus ==
    ASSUME NEW s, NEW f \in FinishEvents(s)
    PROVE  \A b \in f : b.type # "deployStatus"
<1>. DEFINE logs == [type : {"deployFailedLogs"}, key : FailedLogs]
            finishes == [type : {"deployFinished"}, key : Deployments]
<1>1. f = {} \/ \E l \in SUBSET logs : f = finishes \cup l
  BY DEF FinishEvents
<1>2. \A b \in logs \cup finishes : b.type # "deployStatus"
  OBVIOUS
<1>. HIDE DEF logs, finishes
<1>. QED
  BY <1>1, <1>2

\* The effect of a send on an informer queue that is open.
LEMMA OpenSend ==
    ASSUME NEW i \in Informers, NEW b, SendInformer(i, b), ~closed[i]
    PROVE  accepted' = accepted \cup {b} /\ UNCHANGED proc
BY DEF SendInformer

LEMMA NextFinishOrder ==
    TypeOK /\ ClosingOrder /\ FinishOrder /\ [Next]_vars => FinishOrder'
<1>. SUFFICES ASSUME TypeOK, ClosingOrder, FinishOrder, ~ListCanFail,
                     [Next]_vars
              PROVE  FinishOrder'
  BY DEF FinishOrder
<1>1. ASSUME accepted \subseteq accepted', UNCHANGED <<kcdPc, kcdTodo, done>>
      PROVE  FinishOrder'
  BY <1>1 DEF FinishOrder
<1>2. ASSUME NEW k \in KCDs, TrackAddKcd(k) \/ TrackKcd(k) PROVE FinishOrder'
  <2>1. UNCHANGED <<done, accepted>> /\ kcdPc = "idle"
    BY <1>2 DEF TrackAddKcd, TrackKcd, NoteStatus
  <2>2. kcdPc' = "finish" => Finishes \subseteq kcdTodo'
    BY <1>2, FinishEventsComplete DEF TrackAddKcd, TrackKcd, NoteStatus
  <2>. QED
    BY <2>1, <2>2 DEF FinishOrder
<1>3. ASSUME NEW b \in Payload, EnqueueFinish(b) PROVE FinishOrder'
  <2>1. CASE done
    BY <1>3, <2>1 DEF EnqueueFinish, FinishOrder
  <2>2. CASE ~done
    <3>1. ~closed["kcd"]
      BY <1>3, <2>2 DEF EnqueueFinish, ClosingOrder, Informers
    <3>2. accepted' = accepted \cup {b} /\ kcdTodo' = kcdTodo \ {b}
      BY <1>3, <2>2, <3>1, OpenSend DEF EnqueueFinish, Informers
    <3>3. UNCHANGED <<kcdPc, done>>
      BY <1>3 DEF EnqueueFinish
    <3>. QED
      BY <3>2, <3>3 DEF FinishOrder
  <2>. QED
    BY <2>1, <2>2
<1>4. ASSUME SetDone PROVE FinishOrder'
  BY <1>4 DEF SetDone, FinishOrder
<1>5. ASSUME NEW i \in Informers, CloseInformer(i) PROVE FinishOrder'
  BY <1>5 DEF CloseInformer, FinishOrder, Informers
<1>6. ASSUME SendStatus PROVE FinishOrder'
  <2>1. accepted \subseteq accepted'
    BY <1>6 DEF SendStatus, SendInformer
  <2>. QED
    BY <1>1, <1>6, <2>1 DEF SendStatus
<1>7. ASSUME Restart PROVE FinishOrder'
  <2>1. kcdPc' = "idle" /\ done' = FALSE
    BY <1>7 DEF Restart
  <2>. QED
    BY <2>1 DEF FinishOrder
<1>8. CASE \/ \E k \in KCDs, s \in Status : SetStatus(k, s)
           \/ \E i \in Informers :
                 MergerReceive(i) \/ MergerSend(i) \/ MergerStop(i)
           \/ \E u \in Updates : TrackDeployment(u)
           \/ CloseMain \/ StartWorkers \/ Exit \/ Evict \/ UNCHANGED vars
  BY <1>1, <1>8
  DEF SetStatus, MergerReceive, MergerSend, MergerStop, TrackDeployment,
      CloseMain, StartWorkers, Exit, Evict, vars
<1>9. CASE \/ \E w \in Workers : \/ WorkerReceive(w) \/ WorkerStop(w)
                                 \/ Deliver(w) \/ FailToDeliver(w) \/ Requeue(w)
           \/ \E w \in Workers, e \in Endpoints : Push(w, e)
  BY <1>1, <1>9
  DEF WorkerReceive, WorkerStop, Deliver, FailToDeliver, Requeue,
      Push, PushAccepted, PushRefused
<1>. QED
  BY <1>2, <1>3, <1>4, <1>5, <1>6, <1>7, <1>8, <1>9 DEF Next

LEMMA NextFinishAccepted ==
    TypeOK /\ ClosingOrder /\ FinishOrder /\ FinishAcceptedBeforeClose
        /\ [Next]_vars => FinishAcceptedBeforeClose'
<1>. SUFFICES ASSUME TypeOK, ClosingOrder, FinishOrder, ~ListCanFail,
                     FinishAcceptedBeforeClose, [Next]_vars
              PROVE  FinishAcceptedBeforeClose'
  BY DEF FinishAcceptedBeforeClose
<1>1. ASSUME accepted \subseteq accepted', UNCHANGED closed
      PROVE  FinishAcceptedBeforeClose'
  BY <1>1 DEF FinishAcceptedBeforeClose
<1>2. ASSUME NEW i \in Informers, CloseInformer(i)
      PROVE  FinishAcceptedBeforeClose'
  <2>1. done
    BY <1>2 DEF CloseInformer, ClosingOrder, Informers
  <2>. QED
    BY <1>2, <2>1
    DEF CloseInformer, FinishOrder, FinishAcceptedBeforeClose, Finishes
<1>3. ASSUME Restart PROVE FinishAcceptedBeforeClose'
  BY <1>3 DEF Restart, AllOpen, Informers, FinishAcceptedBeforeClose
<1>4. ASSUME (\E b \in Payload : EnqueueFinish(b)) \/ SendStatus
      PROVE  FinishAcceptedBeforeClose'
  <2>1. UNCHANGED closed /\ accepted \subseteq accepted'
    BY <1>4 DEF EnqueueFinish, SendStatus, SendInformer
  <2>. QED
    BY <1>1, <2>1
<1>5. CASE \/ \E k \in KCDs : \/ TrackAddKcd(k) \/ TrackKcd(k)
                              \/ \E s \in Status : SetStatus(k, s)
           \/ \E i \in Informers :
                 MergerReceive(i) \/ MergerSend(i) \/ MergerStop(i)
           \/ \E u \in Updates : TrackDeployment(u)
           \/ SetDone \/ CloseMain \/ StartWorkers \/ Exit \/ Evict
           \/ UNCHANGED vars
  BY <1>1, <1>5
  DEF TrackAddKcd, TrackKcd, NoteStatus, SetStatus, MergerReceive, MergerSend,
      MergerStop, TrackDeployment, SetDone, CloseMain, StartWorkers, Exit,
      Evict, vars
<1>6. CASE \/ \E w \in Workers : \/ WorkerReceive(w) \/ WorkerStop(w)
                                 \/ Deliver(w) \/ FailToDeliver(w) \/ Requeue(w)
           \/ \E w \in Workers, e \in Endpoints : Push(w, e)
  BY <1>1, <1>6
  DEF WorkerReceive, WorkerStop, Deliver, FailToDeliver, Requeue,
      Push, PushAccepted, PushRefused
<1>. QED
  BY <1>2, <1>3, <1>4, <1>5, <1>6 DEF Next

-----------------------------------------------------------------------------
(* No listener sends a message twice. *)

LEMMA NextUnsent ==
    TypeOK /\ ClosingOrder /\ Unsent /\ [Next]_vars => Unsent'
<1>. SUFFICES ASSUME TypeOK, ClosingOrder, Unsent, [Next]_vars PROVE Unsent'
  OBVIOUS
<1>1. ASSUME Up' => Up,
             UNCHANGED <<pending, accepted, depMsg, kcdPc, kcdTodo, done>>
      PROVE  Unsent'
  BY <1>1 DEF Unsent
<1>2. ASSUME NEW k \in KCDs, TrackAddKcd(k) \/ TrackKcd(k) PROVE Unsent'
  <2>1. /\ UNCHANGED <<pending, accepted, depMsg, done>>
        /\ kcdPc = "idle" /\ Up
    BY <1>2 DEF TrackAddKcd, TrackKcd, NoteStatus
  <2>2. \/ UNCHANGED <<kcdPc, kcdTodo>>
        \/ kcdPc' = "finish" /\ kcdTodo' \in FinishEvents(cluster[k])
    BY <1>2 DEF TrackAddKcd, TrackKcd, NoteStatus
  <2>3. CASE UNCHANGED <<kcdPc, kcdTodo>>
    BY <2>1, <2>3 DEF Unsent
  <2>4. CASE kcdPc' = "finish" /\ kcdTodo' \in FinishEvents(cluster[k])
    <3>1. \A b \in kcdTodo' : b.type # "deployStatus"
      BY <2>4, FinishEventsNoStatus
    <3>2. ~done => kcdTodo' \cap accepted = {}
      BY <2>1, <3>1 DEF Unsent
    <3>. QED
      BY <2>1, <2>4, <3>1, <3>2 DEF Unsent
  <2>. QED
    BY <2>2, <2>3, <2>4
<1>3. ASSUME NEW b \in Payload, EnqueueFinish(b) PROVE Unsent'
  <2>0. Up /\ b \in kcdTodo /\ kcdPc = "finish" /\ kcdTodo' = kcdTodo \ {b}
    BY <1>3 DEF EnqueueFinish
  <2>1. UNCHANGED <<pending, depMsg, kcdPc, done>>
    BY <1>3 DEF EnqueueFinish
  <2>2. CASE done
    <3>1. UNCHANGED <<proc, accepted>>
      BY <1>3, <2>2 DEF EnqueueFinish
    <3>. QED
      BY <2>0, <2>1, <2>2, <3>1 DEF Unsent
  <2>3. CASE ~done
    <3>1. ~closed["kcd"]
      BY <2>0, <2>3 DEF ClosingOrder, Informers
    <3>2. accepted' = accepted \cup {b}
      BY <1>3, <2>3, <3>1, OpenSend DEF EnqueueFinish, Informers
    <3>3. b.type # "deployStatus"
      BY <2>0 DEF Unsent
    <3>. QED
      BY <2>0, <2>1, <2>3, <3>2, <3>3 DEF Unsent
  <2>. QED
    BY <2>2, <2>3
<1>4. ASSUME SetDone PROVE Unsent'
  BY <1>4 DEF SetDone, Unsent
<1>5. ASSUME NEW i \in Informers, CloseInformer(i) PROVE Unsent'
  <2>1. done /\ UNCHANGED <<pending, accepted, depMsg, done, kcdTodo>> /\ Up
    BY <1>5 DEF CloseInformer, ClosingOrder, Informers
  <2>. QED
    BY <2>1 DEF Unsent
<1>6. ASSUME NEW u \in Updates, TrackDeployment(u) PROVE Unsent'
  <2>. DEFINE m == [type |-> "deployStatus", key |-> u]
  <2>1. /\ u \in pending /\ pending' = pending \ {u}
        /\ depMsg' = NoMsg \/ depMsg' = m
        /\ UNCHANGED <<accepted, kcdPc, kcdTodo, done>> /\ Up
    BY <1>6 DEF TrackDeployment
  <2>2. m.type = "deployStatus" /\ m.key = u
    OBVIOUS
  <2>. HIDE DEF m
  <2>3. m \notin accepted
    BY <2>1, <2>2 DEF Unsent
  <2>. QED
    BY <2>1, <2>2, <2>3 DEF Unsent
<1>7. ASSUME SendStatus PROVE Unsent'
  <2>1. /\ depMsg # NoMsg /\ depMsg' = NoMsg /\ Up
        /\ accepted' = accepted \/ accepted' = accepted \cup {depMsg}
        /\ UNCHANGED <<pending, kcdPc, kcdTodo, done>>
    BY <1>7 DEF SendStatus, SendInformer
  <2>. QED
    BY <2>1 DEF Unsent
<1>8. ASSUME Restart PROVE Unsent'
  <2>1. depMsg' = NoMsg /\ accepted' = {} /\ kcdTodo' = {}
    BY <1>8 DEF Restart
  <2>. QED
    BY <2>1 DEF Unsent
<1>9. ASSUME NEW w \in Workers, Deliver(w) \/ FailToDeliver(w) PROVE Unsent'
  <2>1. UNCHANGED <<pending, accepted, depMsg, kcdPc, kcdTodo, done, proc>>
    BY <1>9 DEF Deliver, FailToDeliver
  <2>. QED
    BY <1>1, <2>1
<1>10. CASE \/ \E k \in KCDs, s \in Status : SetStatus(k, s)
            \/ \E i \in Informers :
                  MergerReceive(i) \/ MergerSend(i) \/ MergerStop(i)
            \/ \E w \in Workers : WorkerReceive(w) \/ WorkerStop(w) \/ Requeue(w)
            \/ \E w \in Workers, e \in Endpoints : Push(w, e)
            \/ CloseMain \/ StartWorkers \/ Exit \/ Evict \/ UNCHANGED vars
  BY <1>1, <1>10
  DEF SetStatus, MergerReceive, MergerSend, MergerStop, WorkerReceive,
      WorkerStop, Requeue, Push, PushAccepted, PushRefused, CloseMain, StartWorkers, Exit,
      Evict, vars
<1>. QED
  BY <1>2, <1>3, <1>4, <1>5, <1>6, <1>7, <1>8, <1>9, <1>10 DEF Next

\* So what SendStatus and EnqueueFinish put on a queue is new to it.
LEMMA SendsAreNew ==
    ASSUME TypeOK, ClosingOrder, Unsent
    PROVE  /\ SendStatus => depMsg \in Payload /\ depMsg \notin accepted
           /\ \A b \in Payload :
                 EnqueueFinish(b) /\ ~done => b \notin accepted /\ ~closed["kcd"]
<1>1. SendStatus => depMsg \in Payload /\ depMsg \notin accepted
  BY DEF SendStatus, Unsent, TypeOK
<1>2. ASSUME NEW b \in Payload, EnqueueFinish(b), ~done
      PROVE  b \notin accepted /\ ~closed["kcd"]
  BY <1>2 DEF EnqueueFinish, Unsent, ClosingOrder, Informers
<1>. QED
  BY <1>1, <1>2

-----------------------------------------------------------------------------
(* A message is in one place. *)

LEMMA InitUnique == Init => Unique
<1>. SUFFICES ASSUME Init PROVE OnceInPlace /\ \A b \in Payload : OnePlace(b)
  BY DEF Unique
<1>1. /\ mergerPc = NewMergers /\ workerPc = NewWorkers /\ mainQ = <<>>
      /\ queue = EmptyQueues
  BY DEF Init
<1>2. Merging = {} /\ Working = {}
  BY <1>1, FreshIdle
<1>. QED
  BY <1>1, <1>2, NoDupEmpty, InSeqEmpty
  DEF OnceInPlace, OnePlace, Queued, Held, Taken, EmptyQueues

\* A new message on an informer queue.
LEMMA SendUnique ==
    ASSUME TypeOK, AcceptedTracked, Unique, Up,
           NEW i \in Informers, NEW x \in Payload, x \notin accepted,
           SendInformer(i, x),
           UNCHANGED <<settled, mergerPc, mergerMsg, mainQ, workerPc, workerMsg>>
    PROVE  Unique'
<1>. DEFINE m == [body |-> x, retries |-> 0]
<1>1. CASE closed[i]
  BY <1>1 DEF SendInformer, Unique
<1>2. CASE ~closed[i]
  <2>1. m \in DeployMessage /\ m.body = x
    BY NewMessage
  <2>2. queue' = [queue EXCEPT ![i] = Append(queue[i], m)]
    BY <1>2 DEF SendInformer
  <2>. HIDE DEF m
  <2>3. x \notin settled /\ ~Queued(x) /\ ~Held(x) /\ ~InSeq(x, mainQ) /\ ~Taken(x)
    BY DEF AcceptedTracked, InPipeline, Queued, Held, Taken
  <2>4. /\ Merging' = Merging /\ Working' = Working
        /\ \A b : /\ Held(b)' <=> Held(b)
                  /\ Taken(b)' <=> Taken(b)
                  /\ InSeq(b, mainQ') <=> InSeq(b, mainQ)
    BY DEF Held, Taken, Merging, Working
  <2>5. \A b : InSeq(b, queue'[i]) <=> (InSeq(b, queue[i]) \/ b = x)
    BY <2>1, <2>2, InSeqAppend DEF TypeOK
  <2>6. \A j \in Informers \ {i} : queue'[j] = queue[j]
    BY <2>2 DEF TypeOK
  <2>7. \A b : Queued(b)' <=> (Queued(b) \/ b = x)
    BY <2>5, <2>6 DEF Queued
  <2>8. \A b \in Payload : OnePlace(b)'
    BY <2>3, <2>4, <2>7 DEF Unique, OnePlace
  <2>9. NoDup(queue'[i])
    <3>1. queue[i] \in Seq(DeployMessage) /\ NoDup(queue[i])
      BY DEF TypeOK, Unique, OnceInPlace
    <3>2. ~InSeq(m.body, queue[i])
      BY <2>1, <2>3 DEF Queued
    <3>3. queue'[i] = Append(queue[i], m)
      BY <2>2 DEF TypeOK
    <3>. QED
      BY <2>1, <3>1, <3>2, <3>3, NoDupAppend
  <2>10. ASSUME NEW b \in Payload, NEW j \in Informers, NEW k \in Informers,
                InSeq(b, queue'[j]), InSeq(b, queue'[k])
         PROVE  j = k
    BY <2>3, <2>5, <2>6, <2>10 DEF Unique, OnceInPlace, Queued
  <2>11. OnceInPlace'
    BY <2>4, <2>6, <2>9, <2>10 DEF Unique, OnceInPlace
  <2>. QED
    BY <2>8, <2>11 DEF Unique
<1>. QED
  BY <1>1, <1>2

LEMMA ReceiveUnique ==
    ASSUME TypeOK, Unique, NEW i \in Informers, MergerReceive(i)
    PROVE  Unique'
<1>. DEFINE x == Head(queue[i]).body
<1>1. /\ queue[i] \in Seq(DeployMessage) /\ queue[i] # <<>>
      /\ queue'[i] = Tail(queue[i]) /\ mergerMsg'[i] = Head(queue[i])
      /\ \A j \in Informers \ {i} : /\ queue'[j] = queue[j]
                                    /\ mergerMsg'[j] = mergerMsg[j]
      /\ i \notin Merging /\ Merging' = Merging \cup {i}
      /\ Working' = Working
  BY DEF MergerReceive, TypeOK, Merging, Working
<1>2. UNCHANGED <<settled, mainQ, workerMsg>> /\ Up
  BY DEF MergerReceive
<1>3. OnceInPlace /\ \A b \in Payload : OnePlace(b)
  BY <1>2 DEF Unique
<1>4. x \in Payload /\ mergerMsg'[i].body = x
  BY <1>1, TailType, BodyType
<1>5. NoDup(queue'[i]) /\ ~InSeq(x, queue'[i])
  BY <1>1, <1>3, NoDupTail DEF OnceInPlace
<1>6. \A b : InSeq(b, queue[i]) <=> (x = b \/ InSeq(b, queue'[i]))
  BY <1>1, InSeqTail
<1>. HIDE DEF x
<1>7. \A b \in Payload : Queued(b) <=> (x = b \/ Queued(b)')
  BY <1>1, <1>6 DEF Queued
<1>8. \A b \in Payload : b = x => ~Queued(b)'
  BY <1>1, <1>3, <1>4, <1>5, <1>6 DEF Queued, OnceInPlace
<1>9. \A b : Held(b)' <=> (x = b \/ Held(b))
  BY <1>1, <1>4 DEF Held, Merging
<1>10. \A b : Taken(b)' <=> Taken(b)
  BY <1>1, <1>2 DEF Taken
<1>11. \A b : InSeq(b, mainQ') <=> InSeq(b, mainQ)
  BY <1>2
<1>12. \A b \in Payload : OnePlace(b)'
  <2>. SUFFICES ASSUME NEW b \in Payload PROVE OnePlace(b)'
    OBVIOUS
  <2>1. OnePlace(b)
    BY <1>3
  <2>. QED
    BY <2>1, <1>2, <1>4, <1>7, <1>8, <1>9, <1>10, <1>11 DEF OnePlace
<1>13. \A j, k \in Merging' : mergerMsg'[j].body = mergerMsg'[k].body => j = k
  <2>1. ~Held(x)
    BY <1>3, <1>4, <1>7 DEF OnePlace
  <2>. QED
    BY <1>1, <1>3, <1>4, <2>1 DEF OnceInPlace, Held, Merging
<1>14. OnceInPlace'
  BY <1>1, <1>2, <1>3, <1>5, <1>6, <1>13 DEF OnceInPlace
<1>. QED
  BY <1>12, <1>14 DEF Unique

\* A message that moves to the end of the main queue, from a merger or from
\* a worker that requeues it.
LEMMA MainUnique ==
    ASSUME TypeOK, Unique, Up, NEW m \in DeployMessage,
           Held(m.body) \/ Taken(m.body),
           mainQ' = Append(mainQ, m), UNCHANGED <<queue, settled>>,
           Merging' \subseteq Merging, Working' \subseteq Working,
           \A i \in Merging' : mergerMsg'[i] = mergerMsg[i],
           \A w \in Working' : workerMsg'[w] = workerMsg[w],
           \A b \in Payload : b = m.body => ~Held(b)' /\ ~Taken(b)'
    PROVE  Unique'
<1>. DEFINE x == m.body
<1>1. OnceInPlace /\ \A b \in Payload : OnePlace(b)
  BY DEF Unique
<1>2. x \in Payload
  BY BodyType
<1>3. ~InSeq(x, mainQ) /\ ~Queued(x) /\ x \notin settled
  BY <1>1, <1>2 DEF OnePlace
<1>4. mainQ \in Seq(DeployMessage)
  BY DEF TypeOK
<1>5. NoDup(mainQ')
  BY <1>1, <1>3, <1>4, NoDupAppend DEF OnceInPlace
<1>6. \A b : InSeq(b, mainQ') <=> (InSeq(b, mainQ) \/ x = b)
  BY <1>4, InSeqAppend
<1>. HIDE DEF x
<1>7. \A b : Queued(b)' <=> Queued(b)
  BY DEF Queued
<1>8. \A b : (Held(b)' => Held(b)) /\ (Taken(b)' => Taken(b))
  BY DEF Held, Taken
<1>9. \A b \in Payload : b = x => ~Held(b)' /\ ~Taken(b)'
  BY DEF x
<1>10. ASSUME NEW b \in Payload PROVE OnePlace(b)'
  <2>1. OnePlace(b)
    BY <1>1
  <2>. QED
    BY <2>1, <1>3, <1>6, <1>7, <1>8, <1>9 DEF OnePlace
<1>11. OnceInPlace'
  BY <1>1, <1>5 DEF OnceInPlace
<1>. QED
  BY <1>10, <1>11 DEF Unique

LEMMA MergerSendUnique ==
    ASSUME TypeOK, StopOrder, Unique, NEW i \in Informers, MergerSend(i)
    PROVE  Unique'
<1>1. ~mainClosed /\ Up
  BY DEF MergerSend, StopOrder
<1>2. /\ mainQ' = Append(mainQ, mergerMsg[i])
      /\ mergerMsg[i] \in DeployMessage
      /\ i \in Merging /\ Merging' = Merging \ {i} /\ Working' = Working
      /\ \A j \in Informers \ {i} : mergerMsg'[j] = mergerMsg[j]
      /\ UNCHANGED <<settled, queue, workerMsg>>
  BY <1>1 DEF MergerSend, SendMain, TypeOK, Merging, Working, MsgOrNone
<1>3. OnceInPlace /\ \A b \in Payload : OnePlace(b)
  BY <1>1 DEF Unique
<1>4. Held(mergerMsg[i].body) /\ mergerMsg[i].body \in Payload
  BY <1>2, BodyType DEF Held
<1>5. ASSUME NEW b \in Payload, b = mergerMsg[i].body
      PROVE  ~Held(b)' /\ ~Taken(b)'
  <2>1. ~Held(b)'
    BY <1>2, <1>3, <1>5 DEF Held, OnceInPlace, Merging
  <2>2. ~Taken(b)
    BY <1>3, <1>4, <1>5 DEF OnePlace
  <2>. QED
    BY <1>2, <2>1, <2>2 DEF Taken
<1>6. \A j \in Merging' : mergerMsg'[j] = mergerMsg[j]
  BY <1>2 DEF Merging
<1>. QED
  BY <1>1, <1>2, <1>4, <1>5, <1>6, MainUnique

LEMMA RequeueUnique ==
    ASSUME TypeOK, StopOrder, Unique, NEW w \in Workers, Requeue(w)
    PROVE  Unique'
<1>1. ~mainClosed /\ Up
  BY DEF Requeue, StopOrder, Working
<1>2. CASE EndpointType = "sqs"
  BY <1>2 DEF Requeue, Unique
<1>3. CASE EndpointType # "sqs"
  <2>2. /\ mainQ' = Append(mainQ, workerMsg[w])
        /\ workerMsg[w] \in DeployMessage
        /\ w \in Working /\ Working' = Working \ {w} /\ Merging' = Merging
        /\ \A v \in Workers \ {w} : workerMsg'[v] = workerMsg[v]
        /\ UNCHANGED <<settled, queue, mergerMsg>>
    BY <1>1, <1>3 DEF Requeue, SendMain, TypeOK, Merging, Working, MsgOrNone
  <2>3. OnceInPlace /\ \A b \in Payload : OnePlace(b)
    BY <1>1 DEF Unique
  <2>4. Taken(workerMsg[w].body) /\ workerMsg[w].body \in Payload
    BY <2>2, BodyType DEF Taken
  <2>5. ASSUME NEW b \in Payload, b = workerMsg[w].body
        PROVE  ~Held(b)' /\ ~Taken(b)'
    <3>1. ~Taken(b)'
      BY <2>2, <2>3, <2>5 DEF Taken, OnceInPlace, Working
    <3>2. ~Held(b)
      BY <2>3, <2>4, <2>5 DEF OnePlace
    <3>. QED
      BY <2>2, <3>1, <3>2 DEF Held
  <2>6. \A v \in Working' : workerMsg'[v] = workerMsg[v]
    BY <2>2 DEF Working
  <2>. QED
    BY <1>1, <2>2, <2>4, <2>5, <2>6, MainUnique
<1>. QED
  BY <1>2, <1>3

LEMMA WorkerReceiveUnique ==
    ASSUME TypeOK, Unique, NEW w \in Workers, WorkerReceive(w)
    PROVE  Unique'
<1>. DEFINE x == Head(mainQ).body
<1>1. /\ mainQ \in Seq(DeployMessage) /\ mainQ # <<>> /\ mainQ' = Tail(mainQ)
      /\ workerMsg'[w] = Head(mainQ)
      /\ \A v \in Workers \ {w} : workerMsg'[v] = workerMsg[v]
      /\ w \notin Working /\ Working' = Working \cup {w}
      /\ Merging' = Merging
  BY DEF WorkerReceive, TypeOK, Merging, Working
<1>2. UNCHANGED <<settled, queue, mergerMsg>> /\ Up
  BY DEF WorkerReceive
<1>3. OnceInPlace /\ \A b \in Payload : OnePlace(b)
  BY <1>2 DEF Unique
<1>4. x \in Payload /\ workerMsg'[w].body = x
  BY <1>1, TailType, BodyType
<1>5. NoDup(mainQ') /\ ~InSeq(x, mainQ')
  BY <1>1, <1>3, NoDupTail DEF OnceInPlace
<1>6. \A b : InSeq(b, mainQ) <=> (x = b \/ InSeq(b, mainQ'))
  BY <1>1, InSeqTail
<1>. HIDE DEF x
<1>7. \A b : Queued(b)' <=> Queued(b)
  BY <1>2 DEF Queued
<1>8. \A b : Held(b)' <=> Held(b)
  BY <1>1, <1>2 DEF Held
<1>9. \A b : Taken(b)' <=> (x = b \/ Taken(b))
  BY <1>1, <1>4 DEF Taken, Working
<1>10. ASSUME NEW b \in Payload PROVE OnePlace(b)'
  <2>1. OnePlace(b)
    BY <1>3
  <2>. QED
    BY <2>1, <1>2, <1>5, <1>6, <1>7, <1>8, <1>9 DEF OnePlace
<1>11. \A u, v \in Working' : workerMsg'[u].body = workerMsg'[v].body => u = v
  <2>1. ~Taken(x)
    BY <1>3, <1>4, <1>6 DEF OnePlace
  <2>. QED
    BY <1>1, <1>3, <1>4, <2>1 DEF OnceInPlace, Taken, Working
<1>12. OnceInPlace'
  BY <1>1, <1>2, <1>3, <1>5, <1>11 DEF OnceInPlace
<1>. QED
  BY <1>10, <1>12 DEF Unique

\* A message that is settled leaves the worker.
LEMMA DeliverUnique ==
    ASSUME TypeOK, Unique, NEW w \in Workers, Deliver(w)
    PROVE  Unique'
<1>. DEFINE x == workerMsg[w].body
<1>1. /\ w \in Working /\ Working' = Working \ {w} /\ Merging' = Merging
      /\ \A v \in Workers \ {w} : workerMsg'[v] = workerMsg[v]
      /\ workerMsg[w] \in DeployMessage
  BY DEF Deliver, TypeOK, Merging, Working, MsgOrNone
<1>2. /\ settled' = settled \cup {x}
      /\ UNCHANGED <<queue, mergerMsg, mainQ>> /\ Up
  BY DEF Deliver
<1>3. OnceInPlace /\ \A b \in Payload : OnePlace(b)
  BY <1>2 DEF Unique
<1>4. Taken(x) /\ x \in Payload
  BY <1>1, BodyType DEF Taken
<1>5. \A b \in Payload : b = x => ~Taken(b)'
  BY <1>1, <1>3 DEF Taken, OnceInPlace, Working
<1>6. \A b : Taken(b)' => Taken(b)
  BY <1>1 DEF Taken, Working
<1>. HIDE DEF x
<1>7. \A b : /\ Queued(b)' <=> Queued(b)
             /\ Held(b)' <=> Held(b)
             /\ InSeq(b, mainQ') <=> InSeq(b, mainQ)
  BY <1>1, <1>2 DEF Queued, Held
<1>8. ASSUME NEW b \in Payload PROVE OnePlace(b)'
  <2>1. OnePlace(b) /\ OnePlace(x)
    BY <1>3, <1>4
  <2>. QED
    BY <2>1, <1>2, <1>4, <1>5, <1>6, <1>7 DEF OnePlace
<1>9. OnceInPlace'
  BY <1>1, <1>2, <1>3 DEF OnceInPlace, Working
<1>. QED
  BY <1>8, <1>9 DEF Unique

\* Steps that leave every message where it is.
LEMMA StillUnique ==
    ASSUME Unique, Up' => Up, UNCHANGED <<settled, queue, mainQ>>,
           Merging' = Merging, Working' = Working,
           \A i \in Merging : mergerMsg'[i] = mergerMsg[i],
           \A w \in Working : workerMsg'[w].body = workerMsg[w].body
    PROVE  Unique'
<1>1. \A b : /\ Queued(b)' <=> Queued(b)
             /\ Held(b)' <=> Held(b)
             /\ Taken(b)' <=> Taken(b)
             /\ InSeq(b, mainQ') <=> InSeq(b, mainQ)
  BY DEF Queued, Held, Taken
<1>2. OnceInPlace => OnceInPlace'
  BY DEF OnceInPlace
<1>3. \A b : OnePlace(b) => OnePlace(b)'
  BY <1>1 DEF OnePlace
<1>. QED
  BY <1>2, <1>3 DEF Unique

LEMMA FailUnique ==
    ASSUME TypeOK, Unique, NEW w \in Workers, FailToDeliver(w)
    PROVE  Unique'
<1>1. /\ workerMsg[w] \in DeployMessage /\ workerMsg'[w].body = workerMsg[w].body
      /\ \A v \in Workers \ {w} : workerMsg'[v] = workerMsg[v]
      /\ Working' = Working /\ Merging' = Merging
  BY DEF FailToDeliver, TypeOK, Merging, Working, MsgOrNone, DeployMessage
<1>2. UNCHANGED <<settled, queue, mergerMsg, mainQ>> /\ Up
  BY DEF FailToDeliver
<1>3. \A v \in Working : workerMsg'[v].body = workerMsg[v].body
  BY <1>1 DEF Working
<1>. QED
  BY <1>1, <1>2, <1>3, StillUnique

LEMMA NextUnique ==
    TypeOK /\ ClosingOrder /\ StopOrder /\ AcceptedTracked /\ Unsent /\ Unique
        /\ [Next]_vars => Unique'
<1>. SUFFICES ASSUME TypeOK, ClosingOrder, StopOrder, AcceptedTracked, Unsent,
                     Unique, [Next]_vars
              PROVE  Unique'
  OBVIOUS
<1>1. ASSUME Up' => Up,
             UNCHANGED <<settled, queue, mergerPc, mergerMsg, mainQ, workerPc,
                         workerMsg>>
      PROVE  Unique'
  BY <1>1, StillUnique DEF Merging, Working
<1>2. ASSUME NEW b \in Payload, EnqueueFinish(b) PROVE Unique'
  <2>1. CASE done
    BY <1>1, <1>2, <2>1 DEF EnqueueFinish
  <2>2. CASE ~done
    <3>1. b \notin accepted
      BY <1>2, <2>2, SendsAreNew
    <3>2. /\ SendInformer("kcd", b) /\ Up /\ "kcd" \in Informers
          /\ UNCHANGED <<settled, mergerPc, mergerMsg, mainQ, workerPc,
                         workerMsg>>
      BY <1>2, <2>2 DEF EnqueueFinish, Informers
    <3>. QED
      BY <3>1, <3>2, SendUnique
  <2>. QED
    BY <2>1, <2>2
<1>3. ASSUME SendStatus PROVE Unique'
  <2>1. depMsg \in Payload /\ depMsg \notin accepted
    BY <1>3, SendsAreNew
  <2>2. /\ SendInformer("deployment", depMsg) /\ Up /\ "deployment" \in Informers
        /\ UNCHANGED <<settled, mergerPc, mergerMsg, mainQ, workerPc, workerMsg>>
    BY <1>3 DEF SendStatus, Informers
  <2>. QED
    BY <2>1, <2>2, SendUnique
<1>4. ASSUME NEW i \in Informers, MergerStop(i) PROVE Unique'
  <2>1. Merging' = Merging /\ Working' = Working
    BY <1>4 DEF MergerStop, TypeOK, Merging, Working
  <2>2. UNCHANGED <<settled, queue, mergerMsg, mainQ, workerMsg>> /\ Up
    BY <1>4 DEF MergerStop
  <2>. QED
    BY <2>1, <2>2, StillUnique
<1>5. ASSUME StartWorkers PROVE Unique'
  <2>1. Merging' = Merging /\ Working' = Working
    BY <1>5 DEF StartWorkers, TypeOK, Merging, Working
  <2>2. UNCHANGED <<settled, queue, mergerMsg, mainQ, workerMsg>> /\ Up
    BY <1>5 DEF StartWorkers
  <2>. QED
    BY <2>1, <2>2, StillUnique
<1>6. ASSUME NEW w \in Workers, WorkerStop(w) PROVE Unique'
  <2>1. Merging' = Merging /\ Working' = Working
    BY <1>6 DEF WorkerStop, TypeOK, Merging, Working
  <2>2. UNCHANGED <<settled, queue, mergerMsg, mainQ, workerMsg>> /\ Up
    BY <1>6 DEF WorkerStop
  <2>. QED
    BY <2>1, <2>2, StillUnique
<1>7. ASSUME Restart PROVE Unique'
  <2>1. /\ mergerPc' = NewMergers /\ workerPc' = NewWorkers /\ mainQ' = <<>>
        /\ queue' = EmptyQueues
    BY <1>7 DEF Restart
  <2>2. Merging' = {} /\ Working' = {}
    BY <2>1 DEF Merging, Working, NewMergers, NewWorkers
  <2>. QED
    BY <2>1, <2>2, NoDupEmpty, InSeqEmpty
    DEF Unique, OnceInPlace, OnePlace, Queued, Held, Taken, EmptyQueues
<1>8. CASE \/ \E k \in KCDs : \/ TrackAddKcd(k) \/ TrackKcd(k)
                              \/ \E s \in Status : SetStatus(k, s)
           \/ \E i \in Informers : CloseInformer(i)
           \/ \E u \in Updates : TrackDeployment(u)
           \/ SetDone \/ CloseMain \/ Exit \/ Evict \/ UNCHANGED vars
           \/ \E w \in Workers, e \in Endpoints : Push(w, e)
  BY <1>1, <1>8
  DEF TrackAddKcd, TrackKcd, NoteStatus, SetStatus, CloseInformer,
      TrackDeployment, SetDone, CloseMain, Exit, Evict,
      Push, PushAccepted, PushRefused, vars
<1>. QED
  BY <1>2, <1>3, <1>4, <1>5, <1>6, <1>7, <1>8, ReceiveUnique, MergerSendUnique,
     RequeueUnique, WorkerReceiveUnique, DeliverUnique, FailUnique
  DEF Next

\* A worker has stopped, so the main queue is closed, so the mergers have
\* stopped, so the informer queues are closed.
LEMMA NextExitShut == Inv /\ ExitShut /\ [Next]_vars => ExitShut'
<1>. SUFFICES ASSUME Inv, ExitShut, [Next]_vars, proc' = "exited"
              PROVE  closed'["kcd"]
  BY DEF ExitShut
<1>1. CASE proc = "exited"
  BY <1>1, ExitOnly DEF ExitShut, Exit
<1>2. CASE Exit
  <2>1. closed["kcd"]
    BY <1>2, ExitClosed DEF Inv, StopOrder, Informers
  <2>. QED
    BY <1>2, <2>1 DEF Exit
<1>. QED
  BY <1>1, <1>2, ExitOnly

-----------------------------------------------------------------------------
(* The invariants. *)

LEMMA InitInv2 == Init => Inv2
<1>. SUFFICES ASSUME Init PROVE Inv2
  OBVIOUS
<1>1. /\ kcdPc = "idle" /\ kcdTodo = {} /\ depMsg = NoMsg /\ done = FALSE
      /\ accepted = {} /\ settled = {} /\ closed = AllOpen
  BY DEF Init
<1>2. Unsent /\ FinishOrder /\ ExitShut
  BY <1>1 DEF Unsent, FinishOrder, ExitShut, Init
<1>3. answer = [w \in Workers |-> NoAnswers]
  BY DEF Init
<1>4. Acknowledged
  BY <1>3 DEF Acknowledged, NoAnswers
<1>5. FinishAcceptedBeforeClose /\ SettledReceived
  BY <1>1
  DEF FinishAcceptedBeforeClose, SettledReceived, AllOpen, Informers, Init
<1>. QED
  BY <1>2, <1>4, <1>5, InitUnique DEF Inv2

LEMMA InductiveInv2 == Spec => [](Inv /\ Inv2)
<1>1. Inv /\ Inv2 /\ [Next]_vars => Inv2'
  BY NextUnique, NextUnsent, NextFinishOrder, NextFinishAccepted,
     NextAcknowledged, NextSettledReceived, NextExitShut
  DEF Inv, Inv2
<1>. QED
  BY <1>1, InitInv2, InductiveInv, PTL DEF Spec

\* A worker that has settled a message leaves no copy of it in the process:
\* a retry is never raced by the same message from another place.
THEOREM NoResendCorrect == Spec => []NoResend
<1>1. Inv /\ Inv2 => NoResend
  <2>. SUFFICES ASSUME Inv, Inv2, Up, NEW b \in settled, InPipeline(b)
                PROVE  FALSE
    BY DEF NoResend
  <2>1. b \in Payload
    BY DEF Inv, TypeOK
  <2>2. OnePlace(b)
    BY <2>1 DEF Inv2, Unique
  <2>. QED
    BY <2>2 DEF InPipeline, OnePlace, Queued, Held, Taken
<1>. QED
  BY <1>1, InductiveInv2, PTL

\* kcdFinish closes the KCD queue only when it has enqueued a finish event
\* for every Deployment, through updates, restarts and evictions.
THEOREM FinishesAccepted == Spec => []FinishAcceptedBeforeClose
<1>1. Inv /\ Inv2 => FinishAcceptedBeforeClose
  BY DEF Inv2
<1>. QED
  BY <1>1, InductiveInv2, PTL

\* tracker.go:505-521: whatever answers a worker gets, in whichever order and
\* through any number of retries, and wherever the process dies between two
\* pushes, what processNextItem counts as done has reached every endpoint.
THEOREM SettledIsReceived == Spec => []SettledReceived
<1>1. Inv /\ Inv2 => SettledReceived
  BY DEF Inv2
<1>. QED
  BY <1>1, InductiveInv2, PTL

\* tracker.go:296, "Send all finish events": if every List call succeeds, a
\* tracker that ends by itself has got a finish event of each Deployment to
\* every endpoint, past refused pushes, evictions and restarts.
THEOREM AllFinishesSent == ~ListCanFail /\ Spec => []SendAllFinishEvents
<1>. SUFFICES ASSUME ~ListCanFail PROVE Spec => []SendAllFinishEvents
  OBVIOUS
<1>1. Inv /\ Inv2 => SendAllFinishEvents
  <2>. SUFFICES ASSUME Inv, Inv2, proc = "exited",
                       NEW e \in Endpoints, NEW d \in Deployments
                PROVE  [type |-> "deployFinished", key |-> d] \in received[e]
    BY DEF SendAllFinishEvents, FinishesReceived
  <2>1. [type |-> "deployFinished", key |-> d] \in accepted
    BY DEF Inv2, ExitShut, FinishAcceptedBeforeClose
  <2>. QED
    BY <2>1 DEF Inv, ExitDrained, Inv2, SettledReceived
<1>. QED
  BY <1>1, InductiveInv2, PTL

-----------------------------------------------------------------------------
(* The tracker implements Delivery: each step is a step of Delivery or a   *)
(* stuttering step.                                                        *)

LEMMA SamePhase ==
    ASSUME UNCHANGED <<accepted, settled, proc, closed>>
    PROVE  UNCHANGED D!vars
BY DEF D!vars, Phase, Down

\* A step that kills the process.
LEMMA CrashStep ==
    ASSUME Up, proc' \in Crashes, UNCHANGED <<accepted, settled>>
    PROVE  D!Next
<1>1. Phase # "lost" /\ Phase' = "lost"
  BY DEF Phase, Down, Crashes
<1>. QED
  BY <1>1 DEF D!Next, D!Crash

LEMMA SendStep ==
    ASSUME Up, NEW i \in Informers, NEW b \in Payload, b \notin accepted,
           SendInformer(i, b), UNCHANGED <<closed, settled>>
    PROVE  D!Next
<1>1. CASE closed[i]
  <2>1. proc' = "sendOnClosedInformer" /\ UNCHANGED accepted
    BY <1>1 DEF SendInformer
  <2>. QED
    BY <2>1, CrashStep DEF Crashes
<1>2. CASE ~closed[i]
  <2>1. accepted' = accepted \cup {b} /\ UNCHANGED proc
    BY <1>2, OpenSend
  <2>2. Phase = "open" /\ Phase' = "open"
    BY <1>2, <2>1 DEF Phase, Down, Crashes
  <2>. QED
    BY <2>1, <2>2 DEF D!Next, D!Accept
<1>. QED
  BY <1>1, <1>2

LEMMA DeliverStep ==
    ASSUME Inv, Inv2, NEW w \in Workers, Deliver(w)
    PROVE  D!Next
<1>. DEFINE x == workerMsg[w].body
<1>1. /\ Up /\ w \in Working /\ settled' = settled \cup {x}
      /\ UNCHANGED <<proc, closed, accepted>>
  BY DEF Deliver, Working
<1>2. x \in Payload /\ Taken(x) /\ InPipeline(x)
  BY <1>1, BodyType DEF Inv, TypeOK, MsgOrNone, Taken, InPipeline, Working
<1>3. x \in accepted \ settled
  BY <1>1, <1>2 DEF Inv, AcceptedTracked, Inv2, Unique, OnePlace
<1>4. Phase \in {"open", "sealed"} /\ Phase' = Phase
  BY <1>1 DEF Phase, Down, Crashes
<1>. HIDE DEF x
<1>. QED
  BY <1>1, <1>2, <1>3, <1>4 DEF D!Next, D!Settle

LEMMA CloseStep ==
    ASSUME Inv, NEW i \in Informers, CloseInformer(i)
    PROVE  [D!Next]_D!vars
<1>1. Up /\ UNCHANGED <<proc, accepted, settled>> /\ ~closed[i]
  BY DEF CloseInformer, Inv, ClosingOrder, Informers
<1>2. closed' = [closed EXCEPT ![i] = TRUE] /\ closed \in [Informers -> BOOLEAN]
  BY DEF CloseInformer, Inv, TypeOK
<1>3. Phase = "open"
  BY <1>1 DEF Phase, Down, Crashes
<1>4. Phase' \in {"open", "sealed"}
  BY <1>1 DEF Phase, Down, Crashes
<1>. QED
  BY <1>1, <1>3, <1>4 DEF D!Next, D!Seal, D!vars

LEMMA ExitStep ==
    ASSUME Inv, Exit
    PROVE  D!Next
<1>1. mainClosed /\ Up /\ proc' = "exited" /\ UNCHANGED <<accepted, settled>>
  BY TrackerAssumption DEF Exit, Inv, StopOrder
<1>2. accepted = settled
  BY <1>1, ClosedMeansSettled DEF Inv
<1>3. \A i \in Informers : closed[i]
  BY <1>1 DEF Inv, StopOrder
<1>4. Phase = "sealed" /\ Phase' = "closed"
  BY <1>1, <1>3 DEF Phase, Down, Crashes
<1>. QED
  BY <1>1, <1>2, <1>4 DEF D!Next, D!Close

LEMMA RestartStep ==
    ASSUME Restart
    PROVE  D!Next
<1>1. Phase = "lost"
  BY DEF Restart, Phase
<1>2. proc' = "up" /\ closed' = AllOpen /\ accepted' = {} /\ settled' = {}
  BY DEF Restart
<1>3. Phase' = "open"
  BY <1>2 DEF Phase, Down, Crashes, AllOpen, Informers
<1>. QED
  BY <1>1, <1>2, <1>3 DEF D!Next, D!Restart

LEMMA StepDelivers == Inv /\ Inv2 /\ [Next]_vars => [D!Next]_D!vars
<1>. SUFFICES ASSUME Inv, Inv2, [Next]_vars PROVE [D!Next]_D!vars
  OBVIOUS
<1>1. ASSUME UNCHANGED <<accepted, settled, closed>>, Up,
             proc' \in Crashes \cup {proc}
      PROVE  [D!Next]_D!vars
  BY <1>1, CrashStep, SamePhase
<1>2. ASSUME NEW b \in Payload, EnqueueFinish(b) PROVE [D!Next]_D!vars
  <2>1. CASE done
    BY <1>2, <2>1, SamePhase DEF EnqueueFinish
  <2>2. CASE ~done
    <3>1. b \notin accepted
      BY <1>2, <2>2, SendsAreNew DEF Inv, Inv2
    <3>2. /\ SendInformer("kcd", b) /\ Up /\ "kcd" \in Informers
          /\ UNCHANGED <<closed, settled>>
      BY <1>2, <2>2 DEF EnqueueFinish, Informers
    <3>. QED
      BY <3>1, <3>2, SendStep
  <2>. QED
    BY <2>1, <2>2
<1>3. ASSUME SendStatus PROVE [D!Next]_D!vars
  <2>1. depMsg \in Payload /\ depMsg \notin accepted
    BY <1>3, SendsAreNew DEF Inv, Inv2
  <2>2. /\ SendInformer("deployment", depMsg) /\ Up /\ "deployment" \in Informers
        /\ UNCHANGED <<closed, settled>>
    BY <1>3 DEF SendStatus, Informers
  <2>. QED
    BY <2>1, <2>2, SendStep
<1>4. ASSUME \/ \E i \in Informers : MergerSend(i)
             \/ \E w \in Workers : Requeue(w)
             \/ Evict
      PROVE  [D!Next]_D!vars
  BY <1>1, <1>4 DEF MergerSend, Requeue, Evict, SendMain, Crashes
<1>5. CASE \/ \E k \in KCDs : \/ TrackAddKcd(k) \/ TrackKcd(k)
                              \/ \E s \in Status : SetStatus(k, s)
           \/ \E i \in Informers : MergerReceive(i) \/ MergerStop(i)
           \/ \E u \in Updates : TrackDeployment(u)
           \/ SetDone \/ CloseMain \/ StartWorkers \/ UNCHANGED vars
  BY <1>5, SamePhase
  DEF TrackAddKcd, TrackKcd, NoteStatus, SetStatus, MergerReceive, MergerStop,
      TrackDeployment, SetDone, CloseMain, StartWorkers, vars
<1>6. CASE \/ \E w \in Workers :
                 WorkerReceive(w) \/ WorkerStop(w) \/ FailToDeliver(w)
           \/ \E w \in Workers, e \in Endpoints : Push(w, e)
  BY <1>6, SamePhase
  DEF WorkerReceive, WorkerStop, FailToDeliver, Push, PushAccepted, PushRefused
<1>. QED
  BY <1>2, <1>3, <1>4, <1>5, <1>6, DeliverStep, CloseStep, ExitStep, RestartStep
  DEF Next

\* However its goroutines interleave and wherever it dies, the tracker's
\* process keeps the promise of Delivery: it settles what it accepted, once,
\* and closes only when all of it is settled.
THEOREM ImplementsDelivery == Spec => Delivers
<1>1. Init => D!Init
  BY DEF Init, D!Init, Phase, Down, Crashes, AllOpen, Informers
<1>. QED
  BY <1>1, StepDelivers, InductiveInv2, PTL DEF Spec, Delivers, D!Spec

=============================================================================
