---------------------------- MODULE TrackerProofs ----------------------------
(***************************************************************************)
(* Theorems about the tracker, for every set of KCDs, Deployments, updates *)
(* and workers and every capacity of the queues: its types, the wait       *)
(* group's count, and how it drains its queues and closes them.            *)
(***************************************************************************)
EXTENDS Tracker, FiniteSetTheorems, TLAPS

USE DEF Up

(* Queues. *)

LEMMA EmptySeqType == ASSUME NEW S PROVE <<>> \in Seq(S)
OBVIOUS

LEMMA AppendType ==
    ASSUME NEW S, NEW s \in Seq(S), NEW x \in S
    PROVE  Append(s, x) \in Seq(S)
OBVIOUS

LEMMA TailType ==
    ASSUME NEW S, NEW s \in Seq(S), s # <<>>
    PROVE  Head(s) \in S /\ Tail(s) \in Seq(S)
OBVIOUS

(* Messages. *)

LEMMA NewMessage ==
    ASSUME NEW b \in Payload
    PROVE  [body |-> b, retries |-> 0] \in DeployMessage
BY TrackerAssumption DEF DeployMessage

LEMMA BodyType ==
    ASSUME NEW m \in DeployMessage
    PROVE  m.body \in Payload
BY DEF DeployMessage

LEMMA RetryType ==
    ASSUME NEW m \in DeployMessage
    PROVE  [m EXCEPT !.retries = IF @ > MaxRetries THEN @ ELSE @ + 1]
              \in DeployMessage
BY TrackerAssumption DEF DeployMessage

LEMMA FinishEventsType ==
    ASSUME NEW s, NEW f \in FinishEvents(s)
    PROVE  f \subseteq Payload
<1>. DEFINE logs == [type : {"deployFailedLogs"}, key : FailedLogs]
            finishes == [type : {"deployFinished"}, key : Deployments]
<1>1. f = {} \/ \E l \in SUBSET logs : f = finishes \cup l
  BY DEF FinishEvents
<1>2. logs \subseteq Payload /\ finishes \subseteq Payload
  BY DEF Payload
<1>. QED
  BY <1>1, <1>2

-----------------------------------------------------------------------------
(* Type correctness. *)

\* What a new process starts from has the right types.
LEMMA FreshTypes ==
    /\ NoStates \in [KCDs -> Status]
    /\ EmptyQueues \in [Informers -> Seq(DeployMessage)]
    /\ AllOpen \in [Informers -> BOOLEAN]
    /\ NewMergers \in [Informers -> {"receive", "send", "stopped"}]
    /\ NewWorkers \in
          [Workers -> {"off", "receive", "process", "retry", "stopped"}]
    /\ [i \in Informers |-> NoMsg] \in [Informers -> MsgOrNone]
    /\ [w \in Workers |-> NoMsg] \in [Workers -> MsgOrNone]
    /\ [w \in Workers |-> NoAnswers] \in [Workers -> [Endpoints -> Answers]]
<1>1. NoStates \in [KCDs -> Status]
  BY DEF NoStates, Status
<1>2. EmptyQueues \in [Informers -> Seq(DeployMessage)]
  BY EmptySeqType DEF EmptyQueues
<1>3. AllOpen \in [Informers -> BOOLEAN]
  BY DEF AllOpen
<1>4. NewMergers \in [Informers -> {"receive", "send", "stopped"}]
  BY DEF NewMergers
<1>5. NewWorkers \in
          [Workers -> {"off", "receive", "process", "retry", "stopped"}]
  BY DEF NewWorkers
<1>6. NoMsg \in MsgOrNone
  BY DEF MsgOrNone
<1>7. NoAnswers \in [Endpoints -> Answers]
  BY DEF NoAnswers, Answers
<1>. QED
  BY <1>1, <1>2, <1>3, <1>4, <1>5, <1>6, <1>7

LEMMA FreshIdle ==
    ASSUME mergerPc = NewMergers, workerPc = NewWorkers
    PROVE  Merging = {} /\ Working = {}
BY DEF Merging, Working, NewMergers, NewWorkers

LEMMA InitTypeOK == Init => TypeOK
<1>. SUFFICES ASSUME Init PROVE TypeOK
  OBVIOUS
<1>1. /\ mergerPc = NewMergers /\ workerPc = NewWorkers
      /\ kcdStates = NoStates /\ queue = EmptyQueues /\ closed = AllOpen
      /\ mergerMsg = [i \in Informers |-> NoMsg]
      /\ workerMsg = [w \in Workers |-> NoMsg]
  BY DEF Init
<1>2. received \in [Endpoints -> SUBSET Payload] /\ cluster \in [KCDs -> Status]
  BY DEF Init
<1>3. mainQ \in Seq(DeployMessage)
  BY EmptySeqType DEF Init
<1>4. restarts = 0 /\ wg = 0 /\ proc = "up" /\ kcdPc = "idle"
  BY DEF Init
<1>5. restarts \in 0 .. BackoffLimit
  BY <1>4, TrackerAssumption
<1>6. /\ pending = Updates /\ added = {} /\ kcdTodo = {} /\ depMsg = NoMsg
      /\ done = FALSE /\ mainClosed = FALSE /\ accepted = {} /\ settled = {}
  BY DEF Init
<1>7. kcdStates \in [KCDs -> Status] /\ queue \in [Informers -> Seq(DeployMessage)]
  BY <1>1, FreshTypes
<1>8. closed \in [Informers -> BOOLEAN]
  BY <1>1, FreshTypes
<1>9. /\ mergerPc \in [Informers -> {"receive", "send", "stopped"}]
      /\ workerPc \in
            [Workers -> {"off", "receive", "process", "retry", "stopped"}]
  BY <1>1, FreshTypes
<1>10. /\ mergerMsg \in [Informers -> MsgOrNone]
       /\ workerMsg \in [Workers -> MsgOrNone]
  BY <1>1, FreshTypes
<1>11. Merging = {} /\ Working = {}
  BY <1>1, FreshIdle
<1>12. /\ pending \subseteq Updates /\ added \subseteq KCDs
       /\ kcdTodo \subseteq Payload /\ depMsg \in Payload \cup {NoMsg}
       /\ accepted \subseteq Payload /\ settled \subseteq Payload
  BY <1>6
<1>13. /\ proc \in {"up", "exited"} \cup Crashes /\ wg \in Int
       /\ kcdPc \in {"idle", "finish"} \cup Informers
  BY <1>4
<1>14. done \in BOOLEAN /\ mainClosed \in BOOLEAN
  BY <1>6
<1>15. answer \in [Workers -> [Endpoints -> Answers]]
  BY FreshTypes DEF Init
<1>. QED
  BY <1>2, <1>3, <1>5, <1>7, <1>8, <1>9, <1>10, <1>11, <1>12, <1>13,
     <1>14, <1>15
  DEF TypeOK

\* The two kinds of send keep the types.
LEMMA SendInformerType ==
    ASSUME TypeOK, NEW i \in Informers, NEW b \in Payload, SendInformer(i, b)
    PROVE  /\ proc' \in {"up", "exited"} \cup Crashes
           /\ queue' \in [Informers -> Seq(DeployMessage)]
           /\ accepted' \subseteq Payload
<1>. DEFINE m == [body |-> b, retries |-> 0]
<1>1. m \in DeployMessage
  BY NewMessage
<1>. HIDE DEF m
<1>2. CASE closed[i]
  BY <1>2 DEF SendInformer, TypeOK, Crashes
<1>3. CASE ~closed[i]
  <2>1. /\ queue' = [queue EXCEPT ![i] = Append(queue[i], m)]
        /\ accepted' = accepted \cup {b} /\ UNCHANGED proc
    BY <1>3 DEF SendInformer, m
  <2>2. Append(queue[i], m) \in Seq(DeployMessage)
    BY <1>1, AppendType DEF TypeOK
  <2>. QED
    BY <2>1, <2>2 DEF TypeOK
<1>. QED
  BY <1>2, <1>3

LEMMA SendMainType ==
    ASSUME TypeOK, NEW m \in DeployMessage, SendMain(m)
    PROVE  /\ mainQ' \in Seq(DeployMessage)
           /\ proc' \in {"up", "exited"} \cup Crashes
<1>1. CASE mainClosed
  BY <1>1 DEF SendMain, TypeOK, Crashes
<1>2. CASE ~mainClosed
  <2>1. mainQ' = Append(mainQ, m) /\ UNCHANGED proc
    BY <1>2 DEF SendMain
  <2>. QED
    BY <2>1, AppendType DEF TypeOK
<1>. QED
  BY <1>1, <1>2

\* A push tells an endpoint something, and the worker what it said.
LEMMA PushType ==
    ASSUME TypeOK, NEW w \in Workers, NEW e \in Endpoints, Push(w, e)
    PROVE  /\ received' \in [Endpoints -> SUBSET Payload]
           /\ answer' \in [Workers -> [Endpoints -> Answers]]
           /\ UNCHANGED <<cluster, pending, restarts, proc, kcdSide, depMsg,
                          done, queue, closed, mainQueue, mergers, workerPc,
                          workerMsg, history>>
<1>1. workerMsg[w].body \in Payload
  BY BodyType DEF TypeOK, Push, PushAccepted, PushRefused, Pushing, Working,
                  MsgOrNone
<1>2. received' \in [Endpoints -> SUBSET Payload]
  <2>1. CASE UNCHANGED received
    BY <2>1 DEF TypeOK
  <2>2. CASE received' = [received EXCEPT ![e] =
                             received[e] \cup {workerMsg[w].body}]
    BY <1>1, <2>2 DEF TypeOK
  <2>. QED
    BY <2>1, <2>2 DEF Push, PushAccepted, PushRefused
<1>3. PICK a \in {"ok", "error"} : answer' = [answer EXCEPT ![w][e] = a]
  BY DEF Push, PushAccepted, PushRefused
<1>4. answer' \in [Workers -> [Endpoints -> Answers]]
  BY <1>3 DEF TypeOK, Answers
<1>. QED
  BY <1>2, <1>4 DEF Push, PushAccepted, PushRefused

LEMMA NextTypeOK == TypeOK /\ [Next]_vars => TypeOK'
<1>. SUFFICES ASSUME TypeOK, [Next]_vars PROVE TypeOK'
  OBVIOUS
<1>. USE DEF outside, kcdSide, mainQueue, mergers, workers, history
<1>1. ASSUME NEW k \in KCDs, TrackAddKcd(k) \/ TrackKcd(k) PROVE TypeOK'
  <2>1. /\ kcdPc' \in {"finish", kcdPc}
        /\ kcdTodo' = kcdTodo \/ kcdTodo' \in FinishEvents(cluster[k])
        /\ kcdStates' = [kcdStates EXCEPT ![k] = cluster[k]]
        /\ added' \subseteq KCDs
    BY <1>1 DEF TypeOK, TrackAddKcd, TrackKcd, NoteStatus
  <2>2. kcdTodo' \subseteq Payload
    BY <2>1, FinishEventsType DEF TypeOK
  <2>3. UNCHANGED <<outside, proc, depMsg, done, queue, closed, mainQueue,
                    mergers, workers, history>>
    BY <1>1 DEF TrackAddKcd, TrackKcd, NoteStatus
  <2>. QED
    BY <2>1, <2>2, <2>3 DEF TypeOK, Merging, Working
<1>2. ASSUME NEW k \in KCDs, NEW s \in Status, SetStatus(k, s) PROVE TypeOK'
  BY <1>2, TypeOK DEF TypeOK, Merging, Working, SetStatus
<1>3. ASSUME NEW b \in Payload, EnqueueFinish(b) PROVE TypeOK'
  <2>1. kcdTodo' \subseteq Payload
    BY <1>3 DEF TypeOK, EnqueueFinish
  <2>2. SendInformer("kcd", b) \/ UNCHANGED <<proc, queue, accepted>>
    BY <1>3 DEF EnqueueFinish
  <2>3. /\ proc' \in {"up", "exited"} \cup Crashes
        /\ queue' \in [Informers -> Seq(DeployMessage)]
        /\ accepted' \subseteq Payload
    BY <2>2, SendInformerType DEF TypeOK, Informers
  <2>4. UNCHANGED <<outside, added, kcdStates, kcdPc, depMsg, done, closed,
                    mainQueue, mergers, workers, settled>>
    BY <1>3 DEF EnqueueFinish
  <2>. QED
    BY <2>1, <2>3, <2>4 DEF TypeOK, Merging, Working
<1>4. ASSUME SetDone PROVE TypeOK'
  BY <1>4 DEF TypeOK, Merging, Working, SetDone, Informers
<1>5. ASSUME NEW i \in Informers, CloseInformer(i) PROVE TypeOK'
  BY <1>5 DEF TypeOK, Merging, Working, CloseInformer, Informers, Crashes
<1>6. ASSUME NEW i \in Informers, MergerReceive(i) PROVE TypeOK'
  <2>1. Head(queue[i]) \in DeployMessage /\ Tail(queue[i]) \in Seq(DeployMessage)
    BY <1>6, TailType DEF TypeOK, MergerReceive
  <2>2. /\ queue' = [queue EXCEPT ![i] = Tail(queue[i])]
        /\ mergerMsg' = [mergerMsg EXCEPT ![i] = Head(queue[i])]
        /\ mergerPc' = [mergerPc EXCEPT ![i] = "send"]
        /\ wg' = wg + 1
    BY <1>6 DEF MergerReceive
  <2>3. UNCHANGED <<outside, proc, kcdSide, depMsg, done, closed, mainQ,
                    mainClosed, workers, history>>
    BY <1>6 DEF MergerReceive
  <2>4. /\ queue' \in [Informers -> Seq(DeployMessage)]
        /\ mergerMsg' \in [Informers -> MsgOrNone]
        /\ mergerPc' \in [Informers -> {"receive", "send", "stopped"}]
        /\ wg' \in Int
    BY <2>1, <2>2 DEF TypeOK, MsgOrNone
  <2>5. \A j \in Merging' : mergerMsg'[j] # NoMsg
    BY <2>1, <2>2, NoMsgAssumption DEF TypeOK, Merging
  <2>. QED
    BY <2>3, <2>4, <2>5 DEF TypeOK, Working
<1>7. ASSUME NEW i \in Informers, MergerSend(i) PROVE TypeOK'
  <2>1. mergerMsg[i] \in DeployMessage
    BY <1>7 DEF TypeOK, MergerSend, Merging, MsgOrNone
  <2>2. /\ mainQ' \in Seq(DeployMessage)
        /\ proc' \in {"up", "exited"} \cup Crashes
    BY <1>7, <2>1, SendMainType DEF MergerSend
  <2>3. /\ mergerMsg' = [mergerMsg EXCEPT ![i] = NoMsg]
        /\ mergerPc' = [mergerPc EXCEPT ![i] = "receive"]
        /\ UNCHANGED <<outside, kcdSide, depMsg, done, queue, closed,
                       mainClosed, wg, workers, history>>
    BY <1>7 DEF MergerSend
  <2>. QED
    BY <2>2, <2>3 DEF TypeOK, MsgOrNone, Merging, Working
<1>8. ASSUME NEW i \in Informers, MergerStop(i) PROVE TypeOK'
  BY <1>8 DEF TypeOK, Merging, Working, MergerStop
<1>9. ASSUME NEW u \in Updates, TrackDeployment(u) PROVE TypeOK'
  <2>1. depMsg' \in Payload \cup {NoMsg}
    BY <1>9 DEF TrackDeployment, Payload
  <2>. QED
    BY <1>9, <2>1 DEF TypeOK, Merging, Working, TrackDeployment
<1>10. ASSUME SendStatus PROVE TypeOK'
  <2>1. depMsg \in Payload /\ SendInformer("deployment", depMsg)
    BY <1>10 DEF TypeOK, SendStatus
  <2>2. /\ proc' \in {"up", "exited"} \cup Crashes
        /\ queue' \in [Informers -> Seq(DeployMessage)]
        /\ accepted' \subseteq Payload
    BY <2>1, SendInformerType DEF Informers
  <2>3. /\ depMsg' = NoMsg
        /\ UNCHANGED <<outside, kcdSide, done, closed, mainQueue, mergers,
                       workers, settled>>
    BY <1>10 DEF SendStatus
  <2>. QED
    BY <2>2, <2>3 DEF TypeOK, Merging, Working
<1>11. ASSUME CloseMain PROVE TypeOK'
  BY <1>11 DEF TypeOK, Merging, Working, CloseMain
<1>12. ASSUME StartWorkers PROVE TypeOK'
  BY <1>12 DEF TypeOK, Merging, Working, StartWorkers
<1>13. ASSUME NEW w \in Workers, WorkerReceive(w) PROVE TypeOK'
  <2>1. Head(mainQ) \in DeployMessage /\ Tail(mainQ) \in Seq(DeployMessage)
    BY <1>13, TailType DEF TypeOK, WorkerReceive
  <2>2. /\ mainQ' = Tail(mainQ)
        /\ workerMsg' = [workerMsg EXCEPT ![w] = Head(mainQ)]
        /\ workerPc' = [workerPc EXCEPT ![w] = "process"]
        /\ UNCHANGED <<outside, proc, kcdSide, depMsg, done, queue, closed,
                       mainClosed, wg, mergers, answer, history>>
    BY <1>13 DEF WorkerReceive
  <2>. QED
    BY <2>1, <2>2, NoMsgAssumption DEF TypeOK, MsgOrNone, Merging, Working
<1>14. ASSUME NEW w \in Workers, WorkerStop(w) PROVE TypeOK'
  BY <1>14 DEF TypeOK, Merging, Working, WorkerStop
<1>15. ASSUME NEW w \in Workers, Deliver(w) PROVE TypeOK'
  <2>1. workerMsg[w].body \in Payload
    BY <1>15, BodyType DEF TypeOK, Deliver, Working, MsgOrNone
  <2>2. answer' \in [Workers -> [Endpoints -> Answers]]
    BY <1>15 DEF TypeOK, Deliver, NoAnswers, Answers
  <2>3. /\ settled' = settled \cup {workerMsg[w].body}
        /\ wg' = wg - 1
        /\ workerPc' = [workerPc EXCEPT ![w] = "receive"]
        /\ workerMsg' = [workerMsg EXCEPT ![w] = NoMsg]
        /\ UNCHANGED <<outside, proc, kcdSide, depMsg, done, queue, closed,
                       mainQ, mainClosed, mergers, accepted>>
    BY <1>15 DEF Deliver
  <2>. QED
    BY <2>1, <2>2, <2>3 DEF TypeOK, MsgOrNone, Merging, Working
<1>16. ASSUME NEW w \in Workers, FailToDeliver(w) PROVE TypeOK'
  <2>1. workerMsg[w] \in DeployMessage
    BY <1>16 DEF TypeOK, FailToDeliver, Working, MsgOrNone
  <2>2. answer' \in [Workers -> [Endpoints -> Answers]]
    BY <1>16 DEF TypeOK, FailToDeliver, NoAnswers, Answers
  <2>. DEFINE m == [workerMsg[w] EXCEPT !.retries =
                       IF @ > MaxRetries THEN @ ELSE @ + 1]
  <2>3. m \in DeployMessage
    BY <2>1, RetryType
  <2>4. /\ workerMsg' = [workerMsg EXCEPT ![w] = m]
        /\ workerPc' = [workerPc EXCEPT ![w] = "retry"]
        /\ UNCHANGED <<outside, proc, kcdSide, depMsg, done, queue, closed,
                       mainQueue, mergers, history>>
    BY <1>16 DEF FailToDeliver, TypeOK
  <2>. HIDE DEF m
  <2>. QED
    BY <2>2, <2>3, <2>4, NoMsgAssumption
    DEF TypeOK, MsgOrNone, Merging, Working
<1>17. ASSUME NEW w \in Workers, Requeue(w) PROVE TypeOK'
  <2>1. workerMsg[w] \in DeployMessage
    BY <1>17 DEF TypeOK, Requeue, Working, MsgOrNone
  <2>2. /\ mainQ' \in Seq(DeployMessage)
        /\ proc' \in {"up", "exited"} \cup Crashes
    BY <1>17, <2>1, SendMainType DEF Requeue, TypeOK, Crashes
  <2>3. /\ workerPc' = [workerPc EXCEPT ![w] = "receive"]
        /\ workerMsg' = [workerMsg EXCEPT ![w] = NoMsg]
        /\ UNCHANGED <<outside, kcdSide, depMsg, done, queue, closed,
                       mainClosed, wg, mergers, answer, history>>
    BY <1>17 DEF Requeue
  <2>. QED
    BY <2>2, <2>3 DEF TypeOK, MsgOrNone, Merging, Working
<1>18. ASSUME Exit PROVE TypeOK'
  BY <1>18 DEF TypeOK, Merging, Working, Exit
<1>19. ASSUME Evict PROVE TypeOK'
  BY <1>19 DEF TypeOK, Merging, Working, Evict, Crashes
<1>20. ASSUME Restart PROVE TypeOK'
  <2>1. mergerPc' = NewMergers /\ workerPc' = NewWorkers
    BY <1>20 DEF Restart
  <2>2. Merging' = {} /\ Working' = {}
    BY <2>1 DEF Merging, Working, NewMergers, NewWorkers
  <2>3. restarts' \in 0 .. BackoffLimit
    BY <1>20, TrackerAssumption DEF TypeOK, Restart
  <2>4. mainQ' \in Seq(DeployMessage)
    BY <1>20, EmptySeqType DEF Restart
  <2>5. /\ kcdStates' = NoStates /\ queue' = EmptyQueues /\ closed' = AllOpen
        /\ mergerMsg' = [i \in Informers |-> NoMsg]
        /\ workerMsg' = [v \in Workers |-> NoMsg]
        /\ proc' = "up" /\ wg' = 0 /\ kcdPc' = "idle"
        /\ UNCHANGED <<cluster, pending, received>>
    BY <1>20 DEF Restart
  <2>6. /\ added' = {} /\ kcdTodo' = {} /\ depMsg' = NoMsg
        /\ done' = FALSE /\ mainClosed' = FALSE
        /\ accepted' = {} /\ settled' = {}
    BY <1>20 DEF Restart
  <2>7. /\ kcdStates' \in [KCDs -> Status]
        /\ queue' \in [Informers -> Seq(DeployMessage)]
        /\ closed' \in [Informers -> BOOLEAN]
    BY <1>20, FreshTypes DEF Restart
  <2>8. /\ mergerPc' \in [Informers -> {"receive", "send", "stopped"}]
        /\ workerPc' \in
              [Workers -> {"off", "receive", "process", "retry", "stopped"}]
    BY <2>1, FreshTypes
  <2>9. /\ mergerMsg' \in [Informers -> MsgOrNone]
        /\ workerMsg' \in [Workers -> MsgOrNone]
    BY <2>5, FreshTypes
  <2>10. /\ added' \subseteq KCDs /\ kcdTodo' \subseteq Payload
         /\ depMsg' \in Payload \cup {NoMsg}
         /\ accepted' \subseteq Payload /\ settled' \subseteq Payload
    BY <2>6
  <2>11. /\ cluster' \in [KCDs -> Status] /\ pending' \subseteq Updates
         /\ received' \in [Endpoints -> SUBSET Payload]
    BY <2>5 DEF TypeOK
  <2>12. /\ proc' \in {"up", "exited"} \cup Crashes /\ wg' \in Int
         /\ kcdPc' \in {"idle", "finish"} \cup Informers
    BY <2>5
  <2>13. done' \in BOOLEAN /\ mainClosed' \in BOOLEAN
    BY <2>6
  <2>14. answer' \in [Workers -> [Endpoints -> Answers]]
    BY <1>20, FreshTypes DEF Restart
  <2>. QED
    BY <2>2, <2>3, <2>4, <2>7, <2>8, <2>9, <2>10, <2>11, <2>12, <2>13, <2>14
    DEF TypeOK
<1>21. ASSUME NEW w \in Workers, NEW e \in Endpoints, Push(w, e) PROVE TypeOK'
  BY <1>21, PushType DEF TypeOK, Merging, Working
<1>22. ASSUME UNCHANGED vars PROVE TypeOK'
  BY <1>22 DEF TypeOK, Merging, Working, vars
<1>. QED
  BY <1>1, <1>2, <1>3, <1>4, <1>5, <1>6, <1>7, <1>8, <1>9, <1>10, <1>11,
     <1>12, <1>13, <1>14, <1>15, <1>16, <1>17, <1>18, <1>19, <1>20, <1>21,
     <1>22
  DEF Next

\* Every variable keeps the shape its Go declaration gives it.
THEOREM TypeCorrect == Spec => []TypeOK
BY InitTypeOK, NextTypeOK, PTL DEF Spec

-----------------------------------------------------------------------------
(* The wait group.                                                         *)

LEMMA HoldersFinite == IsFiniteSet(Merging) /\ IsFiniteSet(Working)
<1>1. IsFiniteSet(Informers)
  <2>1. IsFiniteSet({"kcd"})
    BY FS_Singleton
  <2>2. IsFiniteSet({"kcd"} \cup {"deployment"})
    BY <2>1, FS_AddElement
  <2>3. Informers = {"kcd"} \cup {"deployment"}
    BY DEF Informers
  <2>. QED
    BY <2>2, <2>3
<1>2. Merging \subseteq Informers /\ Working \subseteq Workers
  BY DEF Merging, Working
<1>. QED
  BY <1>1, <1>2, TrackerAssumption, FS_Subset

LEMMA InitCounts == Init => WaitGroupCounts
<1>. SUFFICES ASSUME Init PROVE WaitGroupCounts
  OBVIOUS
<1>1. mergerPc = NewMergers /\ workerPc = NewWorkers /\ wg = 0 /\ mainQ = <<>>
  BY DEF Init
<1>2. Merging = {} /\ Working = {}
  BY <1>1, FreshIdle
<1>3. Len(mainQ) = 0
  BY <1>1
<1>. QED
  BY <1>1, <1>2, <1>3, FS_EmptySet DEF WaitGroupCounts

\* Each message taken from an informer queue is counted once, whoever holds
\* it, until a worker is done with it.
LEMMA NextCounts ==
    TypeOK /\ WaitGroupCounts /\ [Next]_vars => WaitGroupCounts'
<1>. SUFFICES ASSUME TypeOK, WaitGroupCounts, [Next]_vars
              PROVE  WaitGroupCounts'
  OBVIOUS
<1>. USE DEF mainQueue, mergers, workers
<1>. DEFINE M == Cardinality(Merging)
            W == Cardinality(Working)
<1>1. /\ IsFiniteSet(Merging) /\ IsFiniteSet(Working)
      /\ M \in Nat /\ W \in Nat /\ Len(mainQ) \in Nat /\ wg \in Int
  BY HoldersFinite, FS_CardinalityType DEF TypeOK
<1>2. ASSUME Up' => Up, UNCHANGED <<mainQ, wg, mergerPc, workerPc>>
      PROVE  WaitGroupCounts'
  BY <1>2 DEF WaitGroupCounts, Merging, Working
<1>3. ASSUME NEW i \in Informers, MergerReceive(i) PROVE WaitGroupCounts'
  <2>1. i \notin Merging /\ Merging' = Merging \cup {i} /\ Working' = Working
    BY <1>3 DEF MergerReceive, Merging, Working, TypeOK
  <2>2. Cardinality(Merging') = M + 1
    BY <1>1, <2>1, FS_AddElement
  <2>. QED
    BY <1>1, <1>3, <2>1, <2>2 DEF MergerReceive, WaitGroupCounts
<1>4. ASSUME NEW i \in Informers, MergerSend(i) PROVE WaitGroupCounts'
  <2>1. i \in Merging /\ Merging' = Merging \ {i} /\ Working' = Working
    BY <1>4 DEF MergerSend, Merging, Working, TypeOK
  <2>2. Cardinality(Merging') = M - 1
    BY <1>1, <2>1, FS_RemoveElement
  <2>3. CASE mainClosed
    BY <1>4, <2>3 DEF MergerSend, SendMain, WaitGroupCounts
  <2>4. CASE ~mainClosed
    <3>1. Len(mainQ') = Len(mainQ) + 1
      BY <1>4, <2>4 DEF MergerSend, SendMain, TypeOK
    <3>. QED
      BY <1>1, <1>4, <2>1, <2>2, <3>1 DEF MergerSend, WaitGroupCounts
  <2>. QED
    BY <2>3, <2>4
<1>5. ASSUME NEW i \in Informers, MergerStop(i) PROVE WaitGroupCounts'
  <2>1. Merging' = Merging /\ Working' = Working
    BY <1>5 DEF MergerStop, Merging, Working, TypeOK
  <2>. QED
    BY <1>5, <2>1 DEF MergerStop, WaitGroupCounts
<1>6. ASSUME StartWorkers PROVE WaitGroupCounts'
  <2>1. Merging' = Merging /\ Working' = Working
    BY <1>6 DEF StartWorkers, Merging, Working, TypeOK
  <2>. QED
    BY <1>6, <2>1 DEF StartWorkers, WaitGroupCounts
<1>7. ASSUME NEW w \in Workers, WorkerReceive(w) PROVE WaitGroupCounts'
  <2>1. w \notin Working /\ Working' = Working \cup {w} /\ Merging' = Merging
    BY <1>7 DEF WorkerReceive, Merging, Working, TypeOK
  <2>2. Cardinality(Working') = W + 1
    BY <1>1, <2>1, FS_AddElement
  <2>3. Len(mainQ') = Len(mainQ) - 1
    BY <1>7 DEF WorkerReceive, TypeOK
  <2>. QED
    BY <1>1, <1>7, <2>1, <2>2, <2>3 DEF WorkerReceive, WaitGroupCounts
<1>8. ASSUME NEW w \in Workers, Deliver(w) PROVE WaitGroupCounts'
  <2>1. w \in Working /\ Working' = Working \ {w} /\ Merging' = Merging
    BY <1>8 DEF Deliver, Merging, Working, TypeOK
  <2>2. Cardinality(Working') = W - 1
    BY <1>1, <2>1, FS_RemoveElement
  <2>. QED
    BY <1>1, <1>8, <2>1, <2>2 DEF Deliver, WaitGroupCounts
<1>9. ASSUME NEW w \in Workers, FailToDeliver(w) PROVE WaitGroupCounts'
  <2>1. Working' = Working /\ Merging' = Merging
    BY <1>9 DEF FailToDeliver, Merging, Working, TypeOK
  <2>. QED
    BY <1>9, <2>1 DEF FailToDeliver, WaitGroupCounts
<1>10. ASSUME NEW w \in Workers, Requeue(w) PROVE WaitGroupCounts'
  <2>1. w \in Working /\ Working' = Working \ {w} /\ Merging' = Merging
    BY <1>10 DEF Requeue, Merging, Working, TypeOK
  <2>2. Cardinality(Working') = W - 1
    BY <1>1, <2>1, FS_RemoveElement
  <2>3. CASE proc' # "up"
    BY <2>3 DEF WaitGroupCounts
  <2>4. CASE proc' = "up"
    <3>1. Len(mainQ') = Len(mainQ) + 1
      BY <1>10, <2>4 DEF Requeue, SendMain, TypeOK
    <3>. QED
      BY <1>1, <1>10, <2>1, <2>2, <3>1 DEF Requeue, WaitGroupCounts
  <2>. QED
    BY <2>3, <2>4
<1>11. ASSUME NEW w \in Workers, WorkerStop(w) PROVE WaitGroupCounts'
  <2>1. Merging' = Merging /\ Working' = Working
    BY <1>11 DEF WorkerStop, Merging, Working, TypeOK
  <2>. QED
    BY <1>11, <2>1 DEF WorkerStop, WaitGroupCounts
<1>12. ASSUME Restart PROVE WaitGroupCounts'
  <2>1. /\ mergerPc' = NewMergers /\ workerPc' = NewWorkers
        /\ wg' = 0 /\ mainQ' = <<>>
    BY <1>12 DEF Restart
  <2>2. Merging' = {} /\ Working' = {}
    BY <2>1 DEF Merging, Working, NewMergers, NewWorkers
  <2>3. Len(mainQ') = 0
    BY <2>1
  <2>. QED
    BY <2>1, <2>2, <2>3, FS_EmptySet DEF WaitGroupCounts
<1>13. CASE UNCHANGED vars
  BY <1>2, <1>13 DEF vars
<1>14. CASE \/ \E k \in KCDs : \/ TrackAddKcd(k) \/ TrackKcd(k)
                               \/ \E s \in Status : SetStatus(k, s)
            \/ \E b \in Payload : EnqueueFinish(b)
            \/ SetDone
            \/ \E i \in Informers : CloseInformer(i)
            \/ \E u \in Updates : TrackDeployment(u)
            \/ SendStatus \/ CloseMain \/ Exit \/ Evict
            \/ \E w \in Workers, e \in Endpoints : Push(w, e)
  <2>1. UNCHANGED <<mainQ, wg, mergerPc, workerPc>>
    BY <1>14
    DEF TrackAddKcd, TrackKcd, NoteStatus, SetStatus, EnqueueFinish, SetDone,
        CloseInformer, TrackDeployment, SendStatus, CloseMain, Exit, Evict,
        Push, PushAccepted, PushRefused
  <2>2. Up' => Up
    BY <1>14
    DEF TrackAddKcd, TrackKcd, NoteStatus, SetStatus, EnqueueFinish, SetDone,
        CloseInformer, TrackDeployment, SendStatus, CloseMain, Exit, Evict,
        Push, PushAccepted, PushRefused
  <2>. QED
    BY <1>2, <2>1, <2>2
<1>. QED
  BY <1>3, <1>4, <1>5, <1>6, <1>7, <1>8, <1>9, <1>10, <1>11, <1>12, <1>13,
     <1>14
  DEF Next

\* deployMessageQueueWG never disagrees with the messages in flight.
THEOREM WaitGroupCorrect == Spec => []WaitGroupCounts
BY InitTypeOK, NextTypeOK, InitCounts, NextCounts, PTL DEF Spec

-----------------------------------------------------------------------------
(* The order in which the tracker closes its channels, and what it has     *)
(* done by then: no send on a closed main queue, no channel closed twice,  *)
(* and nothing accepted that is not settled when the main queue closes.    *)

\* Where kcdFinish stands in closing the informer queues.
ClosingOrder ==
    Up =>
      /\ kcdPc \in {"idle", "finish"} => \A i \in Informers : closed[i] = done
      /\ kcdPc = "kcd" => done /\ \A i \in Informers : ~closed[i]
      /\ kcdPc = "deployment" =>
            done /\ closed["kcd"] /\ ~closed["deployment"]

\* A goroutine that has stopped has seen its channel closed and empty, and
\* the main queue is closed when nobody holds a message any more.
StopOrder ==
    Up =>
      /\ \A i \in Informers :
            mergerPc[i] = "stopped" => closed[i] /\ queue[i] = <<>>
      /\ mainClosed =>
            /\ \A i \in Informers : mergerPc[i] = "stopped"
            /\ mainQ = <<>>
            /\ Working = {}
      /\ \A w \in Workers : workerPc[w] = "stopped" => mainClosed

\* A process that has ended by itself had settled everything.
ExitDrained == proc = "exited" => accepted = settled

\* The inductive invariant.
Inv ==
    /\ TypeOK
    /\ WaitGroupCounts
    /\ ClosingOrder
    /\ StopOrder
    /\ ChannelDiscipline
    /\ AcceptedTracked
    /\ ExitDrained

USE DEF Up, outside, kcdSide, mainQueue, mergers, workers, history

-----------------------------------------------------------------------------
(* The order of closing. *)

LEMMA InitOrder == Init => ClosingOrder /\ StopOrder /\ ChannelDiscipline
<1>. SUFFICES ASSUME Init
              PROVE  ClosingOrder /\ StopOrder /\ ChannelDiscipline
  OBVIOUS
<1>1. /\ kcdPc = "idle" /\ closed = AllOpen /\ mergerPc = NewMergers
      /\ workerPc = NewWorkers /\ proc = "up"
  BY DEF Init
<1>2. done = FALSE /\ mainClosed = FALSE
  BY DEF Init
<1>3. ClosingOrder
  BY <1>1, <1>2 DEF ClosingOrder, AllOpen
<1>4. StopOrder
  BY <1>1, <1>2 DEF StopOrder, NewMergers, NewWorkers
<1>5. ChannelDiscipline
  BY <1>1 DEF ChannelDiscipline
<1>. QED
  BY <1>3, <1>4, <1>5

LEMMA NextClosing ==
    TypeOK /\ ClosingOrder /\ [Next]_vars => ClosingOrder'
<1>. SUFFICES ASSUME TypeOK, ClosingOrder, [Next]_vars PROVE ClosingOrder'
  OBVIOUS
<1>1. ASSUME Up' => Up, UNCHANGED <<kcdPc, closed, done>> PROVE ClosingOrder'
  BY <1>1 DEF ClosingOrder
<1>2. ASSUME NEW k \in KCDs, TrackAddKcd(k) \/ TrackKcd(k)
      PROVE  ClosingOrder'
  BY <1>2 DEF ClosingOrder, TrackAddKcd, TrackKcd, NoteStatus
<1>3. ASSUME SetDone PROVE ClosingOrder'
  <2>1. \A i \in Informers : closed'[i] = done
    BY <1>3 DEF ClosingOrder, SetDone
  <2>2. CASE done
    BY <1>3, <2>1, <2>2 DEF ClosingOrder, SetDone
  <2>3. CASE ~done
    BY <1>3, <2>1, <2>3 DEF ClosingOrder, SetDone
  <2>. QED
    BY <2>2, <2>3
<1>4. ASSUME CloseInformer("kcd") PROVE ClosingOrder'
  BY <1>4 DEF ClosingOrder, CloseInformer, TypeOK, Informers
<1>5. ASSUME CloseInformer("deployment") PROVE ClosingOrder'
  BY <1>5 DEF ClosingOrder, CloseInformer, TypeOK, Informers
<1>6. ASSUME Restart PROVE ClosingOrder'
  <2>1. kcdPc' = "idle" /\ closed' = AllOpen
    BY <1>6 DEF Restart
  <2>2. done' = FALSE
    BY <1>6 DEF Restart
  <2>. QED
    BY <2>1, <2>2 DEF ClosingOrder, AllOpen
<1>7. CASE \/ \E k \in KCDs, s \in Status : SetStatus(k, s)
           \/ \E b \in Payload : EnqueueFinish(b)
           \/ \E u \in Updates : TrackDeployment(u)
           \/ SendStatus \/ CloseMain \/ StartWorkers \/ Exit \/ Evict
           \/ UNCHANGED vars
  BY <1>1, <1>7
  DEF SetStatus, EnqueueFinish, TrackDeployment, SendStatus, CloseMain,
      StartWorkers, Exit, Evict, vars
<1>8. CASE \/ \E i \in Informers :
                 MergerReceive(i) \/ MergerSend(i) \/ MergerStop(i)
           \/ \E w \in Workers : \/ WorkerReceive(w) \/ WorkerStop(w)
                                 \/ Deliver(w) \/ FailToDeliver(w) \/ Requeue(w)
           \/ \E w \in Workers, e \in Endpoints : Push(w, e)
  BY <1>1, <1>8
  DEF MergerReceive, MergerSend, MergerStop, WorkerReceive, WorkerStop,
      Deliver, FailToDeliver, Requeue, Push, PushAccepted, PushRefused
<1>. QED
  BY <1>2, <1>3, <1>4, <1>5, <1>6, <1>7, <1>8 DEF Next, Informers

LEMMA NextStopping ==
    TypeOK /\ WaitGroupCounts /\ StopOrder /\ [Next]_vars => StopOrder'
<1>. SUFFICES ASSUME TypeOK, WaitGroupCounts, StopOrder, [Next]_vars
              PROVE  StopOrder'
  OBVIOUS
<1>1. ASSUME Up' => Up,
             UNCHANGED <<queue, closed, mainQ, mainClosed, mergerPc, workerPc>>
      PROVE  StopOrder'
  BY <1>1 DEF StopOrder, Working
<1>2. ASSUME NEW i \in Informers, NEW b \in Payload, SendInformer(i, b),
             UNCHANGED <<closed, mainQ, mainClosed, mergerPc, workerPc>>, Up
      PROVE  StopOrder'
  <2>1. CASE closed[i]
    BY <1>2, <2>1 DEF SendInformer, StopOrder
  <2>2. CASE ~closed[i]
    <3>1. \A j \in Informers : mergerPc[j] = "stopped" => queue'[j] = queue[j]
      BY <1>2, <2>2 DEF SendInformer, StopOrder, TypeOK
    <3>. QED
      BY <1>2, <3>1 DEF StopOrder, Working
  <2>. QED
    BY <2>1, <2>2
<1>3. ASSUME NEW b \in Payload, EnqueueFinish(b) PROVE StopOrder'
  BY <1>1, <1>2, <1>3 DEF EnqueueFinish, Informers
<1>4. ASSUME SendStatus PROVE StopOrder'
  BY <1>2, <1>4 DEF SendStatus, TypeOK, Informers
<1>5. ASSUME NEW i \in Informers, CloseInformer(i) PROVE StopOrder'
  BY <1>5 DEF CloseInformer, StopOrder, TypeOK, Working
<1>6. ASSUME NEW i \in Informers, MergerReceive(i) PROVE StopOrder'
  BY <1>6 DEF MergerReceive, StopOrder, TypeOK, Working
<1>7. ASSUME NEW i \in Informers, MergerSend(i) PROVE StopOrder'
  BY <1>7 DEF MergerSend, SendMain, StopOrder, TypeOK, Working
<1>8. ASSUME NEW i \in Informers, MergerStop(i) PROVE StopOrder'
  BY <1>8 DEF MergerStop, StopOrder, TypeOK, Working
<1>9. ASSUME CloseMain PROVE StopOrder'
  <2>1. Merging = {}
    BY <1>9 DEF CloseMain, Merging
  <2>2. Len(mainQ) + Cardinality(Working) = 0
    BY <1>9, <2>1, FS_EmptySet, HoldersFinite, FS_CardinalityType
    DEF CloseMain, WaitGroupCounts, TypeOK
  <2>3. Len(mainQ) \in Nat /\ Cardinality(Working) \in Nat
    BY HoldersFinite, FS_CardinalityType DEF TypeOK
  <2>4. Len(mainQ) = 0 /\ Cardinality(Working) = 0
    BY <2>2, <2>3
  <2>5. mainQ = <<>>
    BY <2>4 DEF TypeOK
  <2>6. Working = {}
    BY <2>4, HoldersFinite, FS_EmptySet
  <2>. QED
    BY <1>9, <2>5, <2>6 DEF CloseMain, StopOrder, Working
<1>10. ASSUME StartWorkers PROVE StopOrder'
  BY <1>10 DEF StartWorkers, StopOrder, TypeOK, Working
<1>11. ASSUME NEW w \in Workers, WorkerReceive(w) PROVE StopOrder'
  BY <1>11 DEF WorkerReceive, StopOrder, TypeOK, Working
<1>12. ASSUME NEW w \in Workers, WorkerStop(w) PROVE StopOrder'
  BY <1>12 DEF WorkerStop, StopOrder, TypeOK, Working
<1>13. ASSUME NEW w \in Workers, Deliver(w) PROVE StopOrder'
  BY <1>13 DEF Deliver, StopOrder, TypeOK, Working
<1>14. ASSUME NEW w \in Workers, FailToDeliver(w) PROVE StopOrder'
  BY <1>14 DEF FailToDeliver, StopOrder, TypeOK, Working
<1>15. ASSUME NEW w \in Workers, Requeue(w) PROVE StopOrder'
  <2>1. Up /\ ~mainClosed
    BY <1>15 DEF Requeue, StopOrder, Working
  <2>. QED
    BY <1>15, <2>1 DEF Requeue, SendMain, StopOrder, TypeOK, Working
<1>16. ASSUME Restart PROVE StopOrder'
  <2>1. mergerPc' = NewMergers /\ workerPc' = NewWorkers
    BY <1>16 DEF Restart
  <2>2. mainClosed' = FALSE
    BY <1>16 DEF Restart
  <2>. QED
    BY <2>1, <2>2 DEF StopOrder, NewMergers, NewWorkers
<1>17. CASE \/ \E k \in KCDs : \/ TrackAddKcd(k) \/ TrackKcd(k)
                               \/ \E s \in Status : SetStatus(k, s)
            \/ \E u \in Updates : TrackDeployment(u)
            \/ SetDone \/ Exit \/ Evict \/ UNCHANGED vars
            \/ \E w \in Workers, e \in Endpoints : Push(w, e)
  BY <1>1, <1>17
  DEF TrackAddKcd, TrackKcd, NoteStatus, SetStatus, TrackDeployment, SetDone,
      Exit, Evict, Push, PushAccepted, PushRefused, vars
<1>. QED
  BY <1>3, <1>4, <1>5, <1>6, <1>7, <1>8, <1>9, <1>10, <1>11, <1>12, <1>13,
     <1>14, <1>15, <1>16, <1>17
  DEF Next

LEMMA NextDiscipline ==
    TypeOK /\ ClosingOrder /\ StopOrder /\ ChannelDiscipline /\ [Next]_vars
        => ChannelDiscipline'
<1>. SUFFICES ASSUME TypeOK, ClosingOrder, StopOrder, ChannelDiscipline,
                     [Next]_vars
              PROVE  ChannelDiscipline'
  OBVIOUS
<1>1. ASSUME proc' \in {proc, "up", "exited", "evicted",
                        "sendOnClosedInformer", "nilRand"}
      PROVE  ChannelDiscipline'
  BY <1>1 DEF ChannelDiscipline
<1>2. ASSUME NEW i \in Informers, CloseInformer(i) PROVE ChannelDiscipline'
  <2>1. ~closed[i]
    BY <1>2 DEF CloseInformer, ClosingOrder, Informers
  <2>. QED
    BY <1>1, <1>2, <2>1 DEF CloseInformer
<1>3. ASSUME NEW i \in Informers, MergerSend(i) PROVE ChannelDiscipline'
  <2>1. ~mainClosed
    BY <1>3 DEF MergerSend, StopOrder
  <2>. QED
    BY <1>1, <1>3, <2>1 DEF MergerSend, SendMain
<1>4. ASSUME NEW w \in Workers, Requeue(w) PROVE ChannelDiscipline'
  <2>1. ~mainClosed
    BY <1>4 DEF Requeue, StopOrder, Working
  <2>. QED
    BY <1>1, <1>4, <2>1 DEF Requeue, SendMain
<1>5. CASE \/ \E k \in KCDs : \/ TrackAddKcd(k) \/ TrackKcd(k)
                              \/ \E s \in Status : SetStatus(k, s)
           \/ \E b \in Payload : EnqueueFinish(b)
           \/ SetDone
           \/ \E i \in Informers : MergerReceive(i) \/ MergerStop(i)
           \/ \E u \in Updates : TrackDeployment(u)
           \/ SendStatus \/ CloseMain \/ StartWorkers
  BY <1>1, <1>5
  DEF TrackAddKcd, TrackKcd, NoteStatus, SetStatus, EnqueueFinish,
      SendInformer, SetDone, MergerReceive, MergerStop, TrackDeployment,
      SendStatus, CloseMain, StartWorkers
<1>6. CASE \/ \E w \in Workers : \/ WorkerReceive(w) \/ WorkerStop(w)
                                 \/ Deliver(w) \/ FailToDeliver(w)
           \/ \E w \in Workers, e \in Endpoints : Push(w, e)
           \/ Exit \/ Evict \/ Restart \/ UNCHANGED vars
  BY <1>1, <1>6
  DEF WorkerReceive, WorkerStop, Deliver, FailToDeliver, Exit, Evict, Restart,
      Push, PushAccepted, PushRefused, vars
<1>. QED
  BY <1>2, <1>3, <1>4, <1>5, <1>6 DEF Next

-----------------------------------------------------------------------------
(* Where a message is. *)

LEMMA InSeqAppend ==
    ASSUME NEW q \in Seq(DeployMessage), NEW m \in DeployMessage, NEW b
    PROVE  InSeq(b, Append(q, m)) <=> (InSeq(b, q) \/ m.body = b)
<1>. DEFINE r == Append(q, m)
<1>1. /\ Len(q) \in Nat /\ Len(r) = Len(q) + 1
      /\ \A n \in 1 .. Len(q) : r[n] = q[n]
      /\ r[Len(q) + 1] = m
  OBVIOUS
<1>. HIDE DEF r
<1>2. ASSUME InSeq(b, q) PROVE InSeq(b, r)
  <2>1. PICK n \in 1 .. Len(q) : q[n].body = b
    BY <1>2 DEF InSeq
  <2>. n \in 1 .. Len(r) /\ r[n].body = b
    BY <1>1, <2>1
  <2>. QED
    BY DEF InSeq
<1>3. ASSUME m.body = b PROVE InSeq(b, r)
  <2>. Len(q) + 1 \in 1 .. Len(r) /\ r[Len(q) + 1].body = b
    BY <1>1, <1>3
  <2>. QED
    BY DEF InSeq
<1>4. ASSUME InSeq(b, r), m.body # b PROVE InSeq(b, q)
  <2>1. PICK n \in 1 .. Len(r) : r[n].body = b
    BY <1>4 DEF InSeq
  <2>. n \in 1 .. Len(q) /\ q[n].body = b
    BY <1>1, <1>4, <2>1
  <2>. QED
    BY DEF InSeq
<1>. QED
  BY <1>2, <1>3, <1>4 DEF r

LEMMA InSeqTail ==
    ASSUME NEW q \in Seq(DeployMessage), q # <<>>, NEW b
    PROVE  InSeq(b, q) <=> (Head(q).body = b \/ InSeq(b, Tail(q)))
<1>. DEFINE r == Tail(q)
<1>1. /\ Len(q) \in Nat \ {0} /\ Len(r) = Len(q) - 1
      /\ \A n \in 1 .. Len(r) : r[n] = q[n + 1]
      /\ Head(q) = q[1]
  OBVIOUS
<1>. HIDE DEF r
<1>2. ASSUME InSeq(b, q), Head(q).body # b PROVE InSeq(b, r)
  <2>1. PICK n \in 1 .. Len(q) : q[n].body = b
    BY <1>2 DEF InSeq
  <2>2. n - 1 \in 1 .. Len(r)
    BY <1>1, <1>2, <2>1
  <2>3. r[n - 1] = q[n]
    BY <1>1, <2>2
  <2>. QED
    BY <2>1, <2>2, <2>3 DEF InSeq
<1>3. ASSUME Head(q).body = b PROVE InSeq(b, q)
  <2>. 1 \in 1 .. Len(q) /\ q[1].body = b
    BY <1>1, <1>3
  <2>. QED
    BY DEF InSeq
<1>4. ASSUME InSeq(b, r) PROVE InSeq(b, q)
  <2>1. PICK n \in 1 .. Len(r) : r[n].body = b
    BY <1>4 DEF InSeq
  <2>2. n + 1 \in 1 .. Len(q) /\ q[n + 1].body = b
    BY <1>1, <2>1
  <2>. QED
    BY <2>2 DEF InSeq
<1>. QED
  BY <1>2, <1>3, <1>4 DEF r

LEMMA InSeqEmpty == ASSUME NEW b PROVE ~InSeq(b, <<>>)
<1>1. Len(<<>>) = 0
  OBVIOUS
<1>. QED
  BY <1>1 DEF InSeq

\* An empty tracker holds no message.
LEMMA EmptyPipeline ==
    ASSUME NEW b, Merging = {}, Working = {}, mainQ = <<>>,
           \A i \in Informers : queue[i] = <<>>
    PROVE  ~InPipeline(b)
BY InSeqEmpty DEF InPipeline

-----------------------------------------------------------------------------
(* No message is lost or invented. *)

LEMMA InitTracked == Init => AcceptedTracked /\ ExitDrained
<1>. SUFFICES ASSUME Init PROVE AcceptedTracked /\ ExitDrained
  OBVIOUS
<1>1. /\ mergerPc = NewMergers /\ workerPc = NewWorkers /\ mainQ = <<>>
      /\ queue = EmptyQueues /\ accepted = {} /\ settled = {}
  BY DEF Init
<1>2. Merging = {} /\ Working = {}
  BY <1>1, FreshIdle
<1>3. \A b \in Payload : ~InPipeline(b)
  BY <1>1, <1>2, EmptyPipeline DEF EmptyQueues
<1>. QED
  BY <1>1, <1>3 DEF AcceptedTracked, ExitDrained

\* A send on an open informer queue.
LEMMA SendTracked ==
    ASSUME TypeOK, AcceptedTracked, Up,
           NEW i \in Informers, NEW x \in Payload, SendInformer(i, x),
           UNCHANGED <<settled, mergerPc, mergerMsg, mainQ, workerPc, workerMsg>>
    PROVE  AcceptedTracked'
<1>. DEFINE m == [body |-> x, retries |-> 0]
<1>1. CASE closed[i]
  BY <1>1 DEF SendInformer, AcceptedTracked
<1>2. CASE ~closed[i]
  <2>1. m \in DeployMessage /\ m.body = x
    BY NewMessage
  <2>2. /\ queue' = [queue EXCEPT ![i] = Append(queue[i], m)]
        /\ accepted' = accepted \cup {x}
        /\ UNCHANGED proc
    BY <1>2 DEF SendInformer
  <2>. HIDE DEF m
  <2>3. SUFFICES ASSUME NEW b \in Payload
                 PROVE  InPipeline(b)' <=> (InPipeline(b) \/ b = x)
    BY <2>2 DEF AcceptedTracked
  <2>4. InSeq(b, queue'[i]) <=> (InSeq(b, queue[i]) \/ b = x)
    BY <2>1, <2>2, InSeqAppend DEF TypeOK
  <2>5. \A j \in Informers \ {i} : queue'[j] = queue[j]
    BY <2>2 DEF TypeOK
  <2>. QED
    BY <2>4, <2>5 DEF InPipeline, InSeq, Merging, Working
<1>. QED
  BY <1>1, <1>2

LEMMA NextTracked ==
    TypeOK /\ StopOrder /\ AcceptedTracked /\ [Next]_vars => AcceptedTracked'
<1>. SUFFICES ASSUME TypeOK, StopOrder, AcceptedTracked, [Next]_vars
              PROVE  AcceptedTracked'
  OBVIOUS
<1>1. ASSUME Up' => Up,
             UNCHANGED <<accepted, settled, queue, mergerPc, mergerMsg, mainQ,
                         workerPc, workerMsg>>
      PROVE  AcceptedTracked'
  BY <1>1 DEF AcceptedTracked, InPipeline, InSeq, Merging, Working
<1>2. ASSUME UNCHANGED <<accepted, settled>>, Up,
             \A b \in Payload : InPipeline(b)' <=> InPipeline(b)
      PROVE  AcceptedTracked'
  BY <1>2 DEF AcceptedTracked
<1>3. ASSUME NEW b \in Payload, EnqueueFinish(b) PROVE AcceptedTracked'
  BY <1>1, <1>3, SendTracked DEF EnqueueFinish, Informers
<1>4. ASSUME SendStatus PROVE AcceptedTracked'
  BY <1>4, SendTracked DEF SendStatus, TypeOK, Informers
<1>5. ASSUME NEW i \in Informers, MergerReceive(i) PROVE AcceptedTracked'
  <2>1. /\ queue[i] \in Seq(DeployMessage) /\ queue[i] # <<>>
        /\ queue'[i] = Tail(queue[i]) /\ mergerMsg'[i] = Head(queue[i])
        /\ \A j \in Informers \ {i} : /\ queue'[j] = queue[j]
                                      /\ mergerMsg'[j] = mergerMsg[j]
        /\ i \notin Merging /\ Merging' = Merging \cup {i}
        /\ Working' = Working
    BY <1>5 DEF MergerReceive, TypeOK, Merging, Working
  <2>2. UNCHANGED <<accepted, settled, mainQ, workerMsg>> /\ Up
    BY <1>5 DEF MergerReceive
  <2>3. ASSUME NEW b \in Payload PROVE InPipeline(b)' <=> InPipeline(b)
    <3>1. InSeq(b, queue[i]) <=>
             (Head(queue[i]).body = b \/ InSeq(b, Tail(queue[i])))
      BY <2>1, InSeqTail
    <3>2. InSeq(b, mainQ') <=> InSeq(b, mainQ)
      BY <2>2
    <3>3. (\E j \in Informers : InSeq(b, queue'[j])) <=>
             \/ InSeq(b, Tail(queue[i]))
             \/ \E j \in Informers \ {i} : InSeq(b, queue[j])
      BY <2>1
    <3>4. (\E j \in Merging' : mergerMsg'[j].body = b) <=>
             \/ Head(queue[i]).body = b
             \/ \E j \in Merging : mergerMsg[j].body = b
      BY <2>1 DEF Merging
    <3>5. (\E w \in Working' : workerMsg'[w].body = b) <=>
             (\E w \in Working : workerMsg[w].body = b)
      BY <2>1, <2>2
    <3>. QED
      BY <3>1, <3>2, <3>3, <3>4, <3>5 DEF InPipeline
  <2>. QED
    BY <1>2, <2>2, <2>3
<1>6. ASSUME NEW i \in Informers, MergerSend(i) PROVE AcceptedTracked'
  <2>1. ~mainClosed /\ Up
    BY <1>6 DEF MergerSend, StopOrder
  <2>2. /\ mainQ' = Append(mainQ, mergerMsg[i]) /\ mainQ \in Seq(DeployMessage)
        /\ mergerMsg[i] \in DeployMessage
        /\ i \in Merging /\ Merging' = Merging \ {i} /\ Working' = Working
        /\ \A j \in Informers \ {i} : mergerMsg'[j] = mergerMsg[j]
        /\ UNCHANGED <<accepted, settled, queue, workerMsg>>
    BY <1>6, <2>1
    DEF MergerSend, SendMain, TypeOK, Merging, Working, MsgOrNone
  <2>3. ASSUME NEW b \in Payload PROVE InPipeline(b)' <=> InPipeline(b)
    <3>1. InSeq(b, mainQ') <=> (InSeq(b, mainQ) \/ mergerMsg[i].body = b)
      BY <2>2, InSeqAppend
    <3>2. (\E j \in Merging : mergerMsg[j].body = b) <=>
             \/ mergerMsg[i].body = b
             \/ \E j \in Merging' : mergerMsg'[j].body = b
      BY <2>2 DEF Merging
    <3>3. (\E j \in Informers : InSeq(b, queue'[j])) <=>
             (\E j \in Informers : InSeq(b, queue[j]))
      BY <2>2
    <3>4. (\E w \in Working' : workerMsg'[w].body = b) <=>
             (\E w \in Working : workerMsg[w].body = b)
      BY <2>2
    <3>. QED
      BY <3>1, <3>2, <3>3, <3>4 DEF InPipeline
  <2>. QED
    BY <1>2, <2>1, <2>2, <2>3
<1>7. ASSUME NEW i \in Informers, MergerStop(i) PROVE AcceptedTracked'
  <2>1. Merging' = Merging /\ Working' = Working
    BY <1>7 DEF MergerStop, TypeOK, Merging, Working
  <2>2. /\ UNCHANGED <<accepted, settled, queue, mergerMsg, mainQ, workerMsg>>
        /\ Up
    BY <1>7 DEF MergerStop
  <2>. QED
    BY <1>2, <2>1, <2>2 DEF InPipeline, InSeq
<1>8. ASSUME StartWorkers PROVE AcceptedTracked'
  <2>1. Merging' = Merging /\ Working' = Working
    BY <1>8 DEF StartWorkers, TypeOK, Merging, Working
  <2>2. /\ UNCHANGED <<accepted, settled, queue, mergerMsg, mainQ, workerMsg>>
        /\ Up
    BY <1>8 DEF StartWorkers
  <2>. QED
    BY <1>2, <2>1, <2>2 DEF InPipeline, InSeq
<1>9. ASSUME NEW w \in Workers, WorkerReceive(w) PROVE AcceptedTracked'
  <2>1. /\ mainQ \in Seq(DeployMessage) /\ mainQ # <<>> /\ mainQ' = Tail(mainQ)
        /\ workerMsg'[w] = Head(mainQ)
        /\ \A v \in Workers \ {w} : workerMsg'[v] = workerMsg[v]
        /\ w \notin Working /\ Working' = Working \cup {w}
        /\ Merging' = Merging
    BY <1>9 DEF WorkerReceive, TypeOK, Merging, Working
  <2>2. UNCHANGED <<accepted, settled, queue, mergerMsg>> /\ Up
    BY <1>9 DEF WorkerReceive
  <2>3. ASSUME NEW b \in Payload PROVE InPipeline(b)' <=> InPipeline(b)
    <3>1. InSeq(b, mainQ) <=> (Head(mainQ).body = b \/ InSeq(b, mainQ'))
      BY <2>1, InSeqTail
    <3>2. (\E v \in Working' : workerMsg'[v].body = b) <=>
             \/ Head(mainQ).body = b
             \/ \E v \in Working : workerMsg[v].body = b
      BY <2>1 DEF Working
    <3>3. (\E j \in Informers : InSeq(b, queue'[j])) <=>
             (\E j \in Informers : InSeq(b, queue[j]))
      BY <2>2
    <3>4. (\E j \in Merging' : mergerMsg'[j].body = b) <=>
             (\E j \in Merging : mergerMsg[j].body = b)
      BY <2>1, <2>2
    <3>. QED
      BY <3>1, <3>2, <3>3, <3>4 DEF InPipeline
  <2>. QED
    BY <1>2, <2>2, <2>3
<1>10. ASSUME NEW w \in Workers, Deliver(w) PROVE AcceptedTracked'
  <2>. DEFINE x == workerMsg[w].body
  <2>1. /\ w \in Working /\ Working' = Working \ {w} /\ Merging' = Merging
        /\ \A v \in Workers \ {w} : workerMsg'[v] = workerMsg[v]
    BY <1>10 DEF Deliver, TypeOK, Merging, Working
  <2>2. /\ settled' = settled \cup {x}
        /\ UNCHANGED <<accepted, queue, mergerMsg, mainQ>> /\ Up
    BY <1>10 DEF Deliver
  <2>3. ASSUME NEW b \in Payload
        PROVE  (b = x \/ InPipeline(b)') <=> InPipeline(b)
    <3>1. (\E v \in Working : workerMsg[v].body = b) <=>
             (b = x \/ \E v \in Working' : workerMsg'[v].body = b)
      BY <2>1 DEF Working
    <3>2. (\E j \in Informers : InSeq(b, queue'[j])) <=>
             (\E j \in Informers : InSeq(b, queue[j]))
      BY <2>2
    <3>3. (\E j \in Merging' : mergerMsg'[j].body = b) <=>
             (\E j \in Merging : mergerMsg[j].body = b)
      BY <2>1, <2>2
    <3>4. InSeq(b, mainQ') <=> InSeq(b, mainQ)
      BY <2>2
    <3>. QED
      BY <3>1, <3>2, <3>3, <3>4 DEF InPipeline
  <2>. HIDE DEF x
  <2>. QED
    BY <2>2, <2>3 DEF AcceptedTracked
<1>11. ASSUME NEW w \in Workers, FailToDeliver(w) PROVE AcceptedTracked'
  <2>1. /\ workerMsg[w] \in DeployMessage /\ workerMsg'[w].body = workerMsg[w].body
        /\ \A v \in Workers \ {w} : workerMsg'[v] = workerMsg[v]
        /\ w \in Working /\ Working' = Working /\ Merging' = Merging
    BY <1>11
    DEF FailToDeliver, TypeOK, Merging, Working, MsgOrNone, DeployMessage
  <2>2. UNCHANGED <<accepted, settled, queue, mergerMsg, mainQ>> /\ Up
    BY <1>11 DEF FailToDeliver
  <2>3. \A v \in Working : workerMsg'[v].body = workerMsg[v].body
    BY <2>1 DEF Working
  <2>. QED
    BY <1>2, <2>1, <2>2, <2>3 DEF InPipeline, InSeq
<1>12. ASSUME NEW w \in Workers, Requeue(w) PROVE AcceptedTracked'
  <2>1. ~mainClosed /\ Up
    BY <1>12 DEF Requeue, StopOrder, Working
  <2>2. CASE EndpointType = "sqs"
    BY <1>12, <2>2 DEF Requeue, AcceptedTracked
  <2>3. CASE EndpointType # "sqs"
    <3>1. /\ mainQ' = Append(mainQ, workerMsg[w])
          /\ mainQ \in Seq(DeployMessage) /\ workerMsg[w] \in DeployMessage
          /\ w \in Working /\ Working' = Working \ {w} /\ Merging' = Merging
          /\ \A v \in Workers \ {w} : workerMsg'[v] = workerMsg[v]
          /\ UNCHANGED <<accepted, settled, queue, mergerMsg>>
      BY <1>12, <2>1, <2>3
      DEF Requeue, SendMain, TypeOK, Merging, Working, MsgOrNone
    <3>2. ASSUME NEW b \in Payload PROVE InPipeline(b)' <=> InPipeline(b)
      <4>1. InSeq(b, mainQ') <=> (InSeq(b, mainQ) \/ workerMsg[w].body = b)
        BY <3>1, InSeqAppend
      <4>2. (\E v \in Working : workerMsg[v].body = b) <=>
               \/ workerMsg[w].body = b
               \/ \E v \in Working' : workerMsg'[v].body = b
        BY <3>1 DEF Working
      <4>3. (\E j \in Informers : InSeq(b, queue'[j])) <=>
               (\E j \in Informers : InSeq(b, queue[j]))
        BY <3>1
      <4>4. (\E j \in Merging' : mergerMsg'[j].body = b) <=>
               (\E j \in Merging : mergerMsg[j].body = b)
        BY <3>1
      <4>. QED
        BY <4>1, <4>2, <4>3, <4>4 DEF InPipeline
    <3>. QED
      BY <1>2, <2>1, <3>1, <3>2
  <2>. QED
    BY <2>2, <2>3
<1>13. ASSUME NEW w \in Workers, WorkerStop(w) PROVE AcceptedTracked'
  <2>1. Merging' = Merging /\ Working' = Working
    BY <1>13 DEF WorkerStop, TypeOK, Merging, Working
  <2>2. /\ UNCHANGED <<accepted, settled, queue, mergerMsg, mainQ, workerMsg>>
        /\ Up
    BY <1>13 DEF WorkerStop
  <2>. QED
    BY <1>2, <2>1, <2>2 DEF InPipeline, InSeq
<1>14. ASSUME Restart PROVE AcceptedTracked'
  <2>1. /\ mergerPc' = NewMergers /\ workerPc' = NewWorkers /\ mainQ' = <<>>
        /\ queue' = EmptyQueues /\ accepted' = {} /\ settled' = {}
    BY <1>14 DEF Restart
  <2>2. Merging' = {} /\ Working' = {}
    BY <2>1 DEF Merging, Working, NewMergers, NewWorkers
  <2>3. \A b \in Payload : ~InPipeline(b)'
    BY <2>1, <2>2, InSeqEmpty DEF InPipeline, EmptyQueues
  <2>. QED
    BY <2>1, <2>3 DEF AcceptedTracked
<1>15. CASE \/ \E k \in KCDs : \/ TrackAddKcd(k) \/ TrackKcd(k)
                               \/ \E s \in Status : SetStatus(k, s)
            \/ \E i \in Informers : CloseInformer(i)
            \/ \E u \in Updates : TrackDeployment(u)
            \/ SetDone \/ CloseMain \/ Exit \/ Evict \/ UNCHANGED vars
            \/ \E w \in Workers, e \in Endpoints : Push(w, e)
  BY <1>1, <1>15
  DEF TrackAddKcd, TrackKcd, NoteStatus, SetStatus, CloseInformer,
      TrackDeployment, SetDone, CloseMain, Exit, Evict,
      Push, PushAccepted, PushRefused, vars
<1>. QED
  BY <1>3, <1>4, <1>5, <1>6, <1>7, <1>8, <1>9, <1>10, <1>11, <1>12, <1>13,
     <1>14, <1>15
  DEF Next

-----------------------------------------------------------------------------
(* Nothing accepted is left unsettled when the main queue is closed.       *)

\* With the main queue closed nobody holds a message.
LEMMA ClosedMeansSettled ==
    ASSUME TypeOK, StopOrder, AcceptedTracked, Up, mainClosed
    PROVE  accepted = settled
<1>1. /\ Merging = {} /\ Working = {} /\ mainQ = <<>>
      /\ \A i \in Informers : queue[i] = <<>>
  BY DEF StopOrder, Merging
<1>2. \A b \in Payload : ~InPipeline(b)
  BY <1>1, EmptyPipeline
<1>. QED
  BY <1>2 DEF AcceptedTracked, TypeOK

\* Only Run's return ends a process by itself, and then nothing moves.
LEMMA ExitOnly ==
    ASSUME [Next]_vars, proc' = "exited"
    PROVE  \/ proc # "exited" /\ Exit
           \/ proc = "exited" /\ UNCHANGED <<accepted, settled, closed>>
<1>1. CASE proc = "exited"
  BY <1>1
  DEF Next, TrackAddKcd, TrackKcd, SetStatus, EnqueueFinish, SetDone,
      CloseInformer, MergerReceive, MergerSend, MergerStop, TrackDeployment,
      SendStatus, CloseMain, StartWorkers, WorkerReceive, WorkerStop,
      Deliver, FailToDeliver, Requeue, Push, PushAccepted, PushRefused, Pushing,
      Exit, Evict, Restart, vars
<1>2. CASE proc # "exited"
  BY <1>2
  DEF Next, TrackAddKcd, TrackKcd, NoteStatus, SetStatus, EnqueueFinish,
      SendInformer, SendMain, SetDone, CloseInformer, MergerReceive,
      MergerSend, MergerStop, TrackDeployment, SendStatus, CloseMain,
      StartWorkers, WorkerReceive, WorkerStop, Deliver, FailToDeliver,
      Requeue, Push, PushAccepted, PushRefused, Evict, Restart, vars
<1>. QED
  BY <1>1, <1>2

\* Run returns when a worker has stopped: the main queue is closed by then.
LEMMA ExitClosed == Inv /\ Exit => mainClosed /\ Up
BY TrackerAssumption DEF Exit, Inv, StopOrder

LEMMA NextDrained == Inv /\ [Next]_vars => ExitDrained'
<1>. SUFFICES ASSUME Inv, [Next]_vars, proc' = "exited"
              PROVE  accepted' = settled'
  BY DEF ExitDrained
<1>1. CASE proc = "exited"
  BY <1>1, ExitOnly DEF Inv, ExitDrained, Exit
<1>2. CASE Exit
  <2>1. accepted = settled
    BY <1>2, ExitClosed, ClosedMeansSettled DEF Inv
  <2>. QED
    BY <1>2, <2>1 DEF Exit
<1>. QED
  BY <1>1, <1>2, ExitOnly

LEMMA InductiveInv == Spec => []Inv
<1>1. Init => Inv
  BY InitTypeOK, InitCounts, InitOrder, InitTracked DEF Inv
<1>2. Inv /\ [Next]_vars => Inv'
  BY NextTypeOK, NextCounts, NextClosing, NextStopping, NextDiscipline,
     NextTracked, NextDrained
  DEF Inv
<1>. QED
  BY <1>1, <1>2, PTL DEF Spec

\* However listeners, mergers, retries and the closing interleave, no step
\* sends on the closed main queue or closes an informer queue twice.
THEOREM ChannelsCorrect == Spec => []ChannelDiscipline
<1>1. Inv => ChannelDiscipline
  BY DEF Inv
<1>. QED
  BY <1>1, InductiveInv, PTL

\* No accepted message is lost inside the process, and none is invented.
THEOREM NothingLost == Spec => []AcceptedTracked
<1>1. Inv => AcceptedTracked
  BY DEF Inv
<1>. QED
  BY <1>1, InductiveInv, PTL

\* The process closes its main queue, and ends by itself, only when all it
\* has accepted is settled.
THEOREM Drained == Spec => []DrainedBeforeClose
<1>1. Inv => DrainedBeforeClose
  BY ClosedMeansSettled DEF Inv, ExitDrained, DrainedBeforeClose
<1>. QED
  BY <1>1, InductiveInv, PTL

-----------------------------------------------------------------------------
(* Mergers, closing goroutine and workers do not wait for each other in a  *)
(* circle, unless the main queue is full and every worker has a message to *)
(* put back on it.                                                         *)

\* Run starts all workers at once.
Together ==
    (\E w \in Workers : workerPc[w] = "off") => \A w \in Workers : workerPc[w] = "off"

LEMMA NextTogether == TypeOK /\ Together /\ [Next]_vars => Together'
<1>. SUFFICES ASSUME TypeOK, Together, [Next]_vars PROVE Together'
  OBVIOUS
<1>1. CASE UNCHANGED workerPc
  BY <1>1 DEF Together
<1>2. CASE StartWorkers \/ Restart
  BY <1>2 DEF Together, StartWorkers, Restart, NewWorkers
<1>3. ASSUME NEW w \in Workers,
             \/ WorkerReceive(w) \/ WorkerStop(w) \/ Deliver(w)
             \/ FailToDeliver(w) \/ Requeue(w)
      PROVE  Together'
  <2>1. /\ workerPc[w] # "off" /\ workerPc'[w] # "off"
        /\ \A v \in Workers : v # w => workerPc'[v] = workerPc[v]
    BY <1>3 DEF TypeOK, WorkerReceive, WorkerStop, Deliver, FailToDeliver, Requeue
  <2>. QED
    BY <2>1 DEF Together
<1>. QED
  BY <1>1, <1>2, <1>3
  DEF Next, TrackAddKcd, TrackKcd, NoteStatus, SetStatus, EnqueueFinish, SetDone,
      CloseInformer, MergerReceive, MergerSend, MergerStop, TrackDeployment,
      SendStatus, CloseMain, Push, PushAccepted, PushRefused, Exit, Evict, vars

\* A sealed process in which nobody can go on is one in which every worker is
\* about to put its message back on the full main queue.
LEMMA StuckIsGridlock ==
    ASSUME Inv, Together, Up, \A i \in Informers : closed[i], ~CanGoOn
    PROVE  /\ MainCap <= Len(mainQ)
           /\ \A w \in Workers : workerPc[w] = "retry"
<1>1. /\ \A i \in Informers : mergerPc[i] \in {"receive", "send", "stopped"}
      /\ \A w \in Workers :
            workerPc[w] \in {"off", "receive", "process", "retry", "stopped"}
      /\ mainQ \in Seq(DeployMessage) /\ Len(mainQ) \in Nat /\ MainCap \in Nat \ {0}
  BY TrackerAssumption DEF Inv, TypeOK
<1>2. \A w \in Workers : workerPc[w] # "off"
  BY DEF CanGoOn, Together
<1>3. ASSUME Len(mainQ) < MainCap PROVE FALSE
  <2>1. Merging = {} /\ Working = {}
    BY <1>3 DEF CanGoOn, Merging, Working
  <2>2. wg = Len(mainQ)
    BY <1>1, <2>1, FS_EmptySet DEF Inv, WaitGroupCounts
  <2>3. \A i \in Informers : mergerPc[i] = "stopped"
    BY <1>1, <1>3 DEF CanGoOn
  <2>4. mainClosed \/ mainQ # <<>>
    BY <1>1, <2>2, <2>3 DEF CanGoOn
  <2>5. \A w \in Workers : workerPc[w] = "stopped"
    BY <1>1, <1>2, <1>3, <2>4 DEF CanGoOn
  <2>. QED
    BY <2>5 DEF CanGoOn
<1>4. MainCap <= Len(mainQ) /\ mainQ # <<>>
  BY <1>1, <1>3
<1>5. ~mainClosed
  BY <1>4 DEF Inv, StopOrder
<1>6. \A w \in Workers : workerPc[w] # "stopped"
  BY <1>5 DEF Inv, StopOrder
<1>. QED
  BY <1>1, <1>2, <1>4, <1>6 DEF CanGoOn

\* tracker.go:429-433 and 467-471: once its informer queues are closed a
\* tracker gets stuck with a full main queue and a message in the hands of
\* each worker only, for any number of workers and any capacities; with less
\* in flight it goes on to its end, whatever pushes are refused.
THEOREM GridlockNeedsLoad == Spec => []SealedGoesOn
<1>1. Init => Together
  BY DEF Init, Together, NewWorkers
<1>2. Inv /\ Together => SealedGoesOn
  <2>. SUFFICES ASSUME Inv, Together, Up, \A i \in Informers : closed[i],
                       ~CanGoOn
                PROVE  ~(wg < MainCap + Cardinality(Workers))
    BY DEF SealedGoesOn
  <2>1. MainCap <= Len(mainQ) /\ \A w \in Workers : workerPc[w] = "retry"
    BY StuckIsGridlock
  <2>2. Working = Workers
    BY <2>1 DEF Working
  <2>3. /\ Cardinality(Merging) \in Nat /\ Cardinality(Workers) \in Nat
        /\ Len(mainQ) \in Nat /\ MainCap \in Nat
    BY HoldersFinite, TrackerAssumption, FS_CardinalityType DEF Inv, TypeOK
  <2>4. wg = Len(mainQ) + Cardinality(Merging) + Cardinality(Workers)
    BY <2>2 DEF Inv, WaitGroupCounts
  <2>. QED
    BY <2>1, <2>3, <2>4
<1>3. Spec => []Together
  BY <1>1, NextTogether, TypeCorrect, PTL DEF Spec
<1>. QED
  BY <1>2, <1>3, InductiveInv, PTL

=============================================================================
