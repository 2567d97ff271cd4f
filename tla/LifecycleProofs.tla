---------------------------- MODULE LifecycleProofs ----------------------------
(***************************************************************************)
(* The life of a process, for any number of workers and interrupts: type   *)
(* correctness, who may close stopCh twice, what a tracker's success       *)
(* means, and that its end is coming when it has pushed everything.        *)
(***************************************************************************)
EXTENDS Lifecycle, TLAPS

LEMMA InitType == Init => TypeOK
<1>1. 0 \in 0 .. MaxInterrupts /\ 0 \in 0 .. 2
  BY LifecycleAssumption
<1>2. QED
  BY <1>1 DEF Init, TypeOK

\* Steps of the main goroutine, of the signals and the server, and of Run.
LEMMA MainType == ASSUME TypeOK, Main PROVE TypeOK'
BY DEF TypeOK, Main, Step, Leave, ParseFlags, InitConfig, ConfigureLogging,
       BuildClusterConfig, SetupSignalHandler, New, StartRun, NewServer,
       Shutdown, TestErr, WaitForWorkers, Return, outside, stop, running

LEMMA SignalType ==
    ASSUME TypeOK, Interrupt \/ Kill \/ Inform \/ HandleSignal \/ Serve
    PROVE  TypeOK'
<1>1. CASE Interrupt
  BY <1>1, LifecycleAssumption DEF TypeOK, Interrupt, Notify, running
<1>2. CASE Kill \/ Inform
  BY <1>2 DEF TypeOK, Kill, Inform, KcdFinish, StopInformers, Drain, outside, stop,
              running
<1>3. CASE HandleSignal
  <2>1. signals' \in 0 .. 2
    BY <1>3 DEF TypeOK, HandleSignal
  <2>2. NoneAdded \in BOOLEAN
    BY DEF NoneAdded
  <2>3. early' \in BOOLEAN /\ stopped' \in BOOLEAN
    BY <1>3, <2>2 DEF TypeOK, HandleSignal, CloseStop
  <2>4. QED
    BY <1>3, <2>1, <2>3 DEF TypeOK, HandleSignal, CloseStop, outside, running
<1>4. CASE Serve
  BY <1>4 DEF TypeOK, Serve, Listen, ListenFails, CloseStop, NoneAdded,
              outside, stop, running
<1>5. QED
  BY <1>1, <1>2, <1>3, <1>4

LEMMA RunType ==
    ASSUME TypeOK, Run \/ Watch \/ \E w \in Workers : WorkerEnds(w)
    PROVE  TypeOK'
<1>1. CASE Run
  BY <1>1 DEF TypeOK, Run, SyncCaches, Spawn, Spawned, RunReturns, outside, stop
<1>2. CASE Watch
  BY <1>2 DEF TypeOK, Watch, Notify, outside
<1>3. CASE \E w \in Workers : WorkerEnds(w)
  BY <1>3 DEF TypeOK, WorkerEnds, outside, stop
<1>4. QED
  BY <1>1, <1>2, <1>3

\* The variables keep their types.
THEOREM TypeCorrect == Spec => []TypeOK
<1>1. TypeOK /\ UNCHANGED vars => TypeOK'
  BY DEF TypeOK, vars, outside, stop, running
<1>2. TypeOK /\ [Next]_vars => TypeOK'
  BY <1>1, MainType, SignalType, RunType DEF Next
<1>3. QED
  BY <1>2, InitType, PTL DEF Spec

-----------------------------------------------------------------------------
(* stopCh is closed by the handler, which is then gone, or by the server,  *)
(* which has then failed: a second close needs both.                       *)

CloserKnown == stopped => handler = "gone" \/ server = "failed"

\* Neither exists before main has started it.
Unstarted == {"flags", "config", "logging", "cluster", "signals"}
HandlerOff == main \in Unstarted => handler = "off" /\ ~stopped
ServerOff == main \in Unstarted \cup {"new", "run", "server"} => server = "off"

CloseInv == CloserKnown /\ HandlerOff /\ ServerOff /\ ClosedOnce

LEMMA CloseInductive == CloseInv /\ [Next]_vars => CloseInv'
<1> SUFFICES ASSUME CloseInv, [Next]_vars PROVE CloseInv'
  OBVIOUS
<1> USE DEF CloseInv, CloserKnown, HandlerOff, ServerOff, Unstarted, ClosedOnce
<1>1. CASE Main
  <2>1. UNCHANGED <<stopped, signals, early>>
    BY <1>1 DEF Main, ParseFlags, InitConfig, ConfigureLogging,
                BuildClusterConfig, SetupSignalHandler, New, StartRun,
                NewServer, Shutdown, TestErr, WaitForWorkers, Return, stop
  <2>2. exit' # "doubleClose" /\ Alive
    BY <1>1 DEF Main, Step, Leave, ParseFlags, InitConfig, ConfigureLogging,
                BuildClusterConfig, SetupSignalHandler, New, StartRun,
                NewServer, Shutdown, TestErr, WaitForWorkers, Return, Alive
  <2>3. CASE SetupSignalHandler
    BY <2>1, <2>2, <2>3 DEF SetupSignalHandler, Step
  <2>4. CASE NewServer
    BY <2>1, <2>2, <2>4 DEF NewServer, Step, stop
  <2>5. CASE Shutdown \/ TestErr \/ WaitForWorkers \/ Return
    BY <2>1, <2>2, <2>5
    DEF Shutdown, TestErr, WaitForWorkers, Return, Step, Leave, stop
  <2>6. CASE \/ ParseFlags \/ InitConfig \/ ConfigureLogging
             \/ BuildClusterConfig \/ New \/ StartRun
    BY <2>1, <2>2, <2>6
    DEF ParseFlags, InitConfig, ConfigureLogging, BuildClusterConfig, New,
        StartRun, Step, Leave, stop
  <2>7. QED
    BY <1>1, <2>3, <2>4, <2>5, <2>6 DEF Main
<1>2. CASE Interrupt \/ Kill \/ Inform
  BY <1>2 DEF Interrupt, Kill, Inform, KcdFinish, StopInformers, Drain, Alive,
              stop
<1>3. CASE HandleSignal
  BY <1>3 DEF HandleSignal, CloseStop, Alive
<1>4. CASE Serve
  BY <1>4 DEF Serve, Listen, ListenFails, CloseStop, stop
<1>5. CASE Run \/ Watch \/ \E w \in Workers : WorkerEnds(w)
  BY <1>5 DEF Run, SyncCaches, Spawn, Spawned, RunReturns, Watch, WorkerEnds, stop
<1>6. CASE UNCHANGED vars
  BY <1>6 DEF vars, stop
<1>7. QED
  BY <1>1, <1>2, <1>3, <1>4, <1>5, <1>6 DEF Next

\* Only a failed ListenAndServe can make a second close of stopCh happen, for
\* any number of interrupts.
THEOREM StopClosedOnce == Spec => []ClosedOnce
<1>1. Init => CloseInv
  BY DEF Init, CloseInv, CloserKnown, HandlerOff, ServerOff, ClosedOnce
<1>2. CloseInv => ClosedOnce
  BY DEF CloseInv
<1>3. QED
  BY <1>1, <1>2, CloseInductive, PTL DEF Spec

-----------------------------------------------------------------------------
(* A tracker's main goroutine passes its wait with no worker counted: none *)
(* was added yet, or all are done, which takes a drained queue.            *)

DoneDrained == Tracker => \A w \in Workers : worker[w] = "done" => drained
LateAdded == stopped /\ ~early => \E w \in Workers : worker[w] # "off"
WaitStopped == main \in {"test", "wait", "return"} => stopped
ReturnDrained == main = "return" /\ Tracker => drained \/ early
SuccessReturned == exit = "success" => main = "return"

DrainInv == /\ TypeOK /\ DoneDrained /\ LateAdded /\ WaitStopped
            /\ ReturnDrained /\ SuccessReturned

LEMMA DrainMain == ASSUME DrainInv, Main PROVE DrainInv'
<1> USE DEF DrainInv
<1>1. TypeOK'
  BY MainType
<1>2. UNCHANGED <<command, stopped, early, drained, worker>>
  BY DEF Main, ParseFlags, InitConfig, ConfigureLogging, BuildClusterConfig,
         SetupSignalHandler, New, StartRun, NewServer, Shutdown, TestErr,
         WaitForWorkers, Return, outside, stop, running
<1>3. DoneDrained' /\ LateAdded'
  BY <1>2 DEF DoneDrained, LateAdded, Tracker
<1>4. WaitStopped'
  BY <1>2 DEF Main, Step, Leave, ParseFlags, InitConfig, ConfigureLogging,
         BuildClusterConfig, SetupSignalHandler, New, StartRun, NewServer,
         Shutdown, TestErr, WaitForWorkers, Return, WaitStopped
<1>5. ReturnDrained'
  <2>1. CASE WaitForWorkers
    <3>1. Tracker => \A w \in Workers : worker[w] \in {"off", "done"}
      BY <2>1 DEF WaitForWorkers, Counted, TypeOK
    <3>2. stopped
      BY <2>1 DEF WaitForWorkers, Step, WaitStopped
    <3>3. Tracker => drained \/ early
      BY <3>1, <3>2 DEF LateAdded, DoneDrained
    <3>4. QED
      BY <1>2, <3>3 DEF ReturnDrained, Tracker
  <2>2. CASE ~WaitForWorkers
    <3>1. main' = "return" => main = "return"
      BY <2>2 DEF Main, Step, Leave, ParseFlags, InitConfig, ConfigureLogging,
         BuildClusterConfig, SetupSignalHandler, New, StartRun, NewServer,
         Shutdown, TestErr, Return
    <3>2. QED
      BY <1>2, <3>1 DEF ReturnDrained, Tracker
  <2>3. QED
    BY <2>1, <2>2
<1>6. SuccessReturned'
  BY DEF Main, Step, Leave, Alive, ParseFlags, InitConfig, ConfigureLogging,
         BuildClusterConfig, SetupSignalHandler, New, StartRun, NewServer,
         Shutdown, TestErr, WaitForWorkers, Return, SuccessReturned
<1>7. QED
  BY <1>1, <1>3, <1>4, <1>5, <1>6

LEMMA DrainInductive == DrainInv /\ [Next]_vars => DrainInv'
<1> SUFFICES ASSUME DrainInv, [Next]_vars PROVE DrainInv'
  OBVIOUS
<1> USE DEF DrainInv
<1>1. CASE Main
  BY <1>1, DrainMain
<1>2. CASE Interrupt \/ Kill \/ Inform
  <2>1. TypeOK'
    BY <1>2, SignalType
  <2>2. UNCHANGED <<command, stopped, early, worker, main>> /\ drained => drained'
    BY <1>2 DEF Interrupt, Kill, Inform, KcdFinish, StopInformers, Drain,
                stop, running, outside
  <2>3. exit' = "success" => exit = "success"
    BY <1>2 DEF Interrupt, Kill, Inform, KcdFinish, StopInformers, Drain,
                Alive
  <2>4. QED
    BY <2>1, <2>2, <2>3, <1>2
    DEF DoneDrained, LateAdded, WaitStopped, ReturnDrained, SuccessReturned,
        Tracker, Interrupt, Kill, Inform, KcdFinish, StopInformers, Drain, stop,
        running, outside
<1>3. CASE HandleSignal \/ Serve
  <2>1. TypeOK'
    BY <1>3, SignalType
  <2>2. UNCHANGED <<command, worker, main, drained>>
    BY <1>3 DEF HandleSignal, Serve, Listen, ListenFails, outside, running
  <2>3. \/ CloseStop
        \/ UNCHANGED <<stopped, early, exit>>
    BY <1>3 DEF HandleSignal, Serve, Listen, ListenFails, stop
  <2>4. stopped => stopped'
    BY <2>3 DEF CloseStop
  <2>5. ~stopped => early' = NoneAdded \/ stopped' = stopped
    BY <2>3 DEF CloseStop
  <2>6. (stopped \/ stopped' = stopped) => early' = early
    BY <2>3 DEF CloseStop, TypeOK
  <2>7. LateAdded'
    BY <2>2, <2>4, <2>5, <2>6 DEF LateAdded, NoneAdded
  <2>8. ReturnDrained' /\ WaitStopped'
    BY <2>2, <2>4, <2>6 DEF ReturnDrained, WaitStopped, Tracker
  <2>9. exit' = "success" => exit = "success"
    BY <2>3 DEF CloseStop
  <2>10. QED
    BY <2>1, <2>2, <2>7, <2>8, <2>9 DEF DoneDrained, SuccessReturned, Tracker
<1>4. CASE Run \/ Watch \/ \E w \in Workers : WorkerEnds(w)
  <2>1. TypeOK'
    BY <1>4, RunType
  <2>2. UNCHANGED <<command, stopped, early, main, drained, exit>>
    BY <1>4 DEF Run, SyncCaches, Spawn, Spawned, RunReturns, Watch, WorkerEnds,
                stop, outside
  <2>3. \A w \in Workers : worker[w] # "off" => worker'[w] # "off"
    BY <1>4 DEF Run, SyncCaches, Spawn, Spawned, RunReturns, Watch, WorkerEnds,
                TypeOK
  <2>4. \A w \in Workers : Tracker /\ worker'[w] = "done"
                              => worker[w] = "done" \/ drained
    BY <1>4 DEF Run, SyncCaches, Spawn, Spawned, RunReturns, Watch, WorkerEnds,
                TypeOK
  <2>5. QED
    BY <2>1, <2>2, <2>3, <2>4
    DEF DoneDrained, LateAdded, WaitStopped, ReturnDrained, SuccessReturned,
        Tracker
<1>5. CASE UNCHANGED vars
  BY <1>5 DEF vars, stop, running, outside, TypeOK, DoneDrained, LateAdded,
              WaitStopped, ReturnDrained, SuccessReturned, Tracker
<1>6. QED
  BY <1>1, <1>2, <1>3, <1>4, <1>5 DEF Next

\* A tracker's job is completed only after everything was pushed, unless the
\* process was stopped before its first worker was counted.
THEOREM SuccessDrained == Spec => []SuccessMeansDrained
<1>1. Init => DrainInv
  BY InitType
  DEF Init, DrainInv, DoneDrained, LateAdded, WaitStopped, ReturnDrained,
      SuccessReturned
<1>2. DrainInv => SuccessMeansDrained
  BY DEF DrainInv, SuccessReturned, ReturnDrained, SuccessMeansDrained
<1>3. QED
  BY <1>1, <1>2, DrainInductive, PTL DEF Spec

-----------------------------------------------------------------------------
(* The watcher interrupts a process whose handler was set up before Run    *)
(* started: the signal is served, or one before it was.                    *)

HandlerSet == handler = "off" => main \in Unstarted
RunStarted == run # "off" => main \notin Unstarted \cup {"new", "run"}
HandlerServed == handler = "gone" => stopped
RunReturned == run = "returned" => stopped
WatcherStarted == run = "serve" /\ Tracker => watcher # "off"
WatcherHeard ==
    watcher = "gone" => stopped \/ (handler = "waiting" /\ signals > 0)
DrainStarted ==
    /\ listener = "finish" \/ drained => Tracker
    /\ listener # "off" \/ drained => run # "off"

\* Run starts the watcher when it has started the workers.
WatcherOfRun == watcher # "off" => run \in {"serve", "returned"}

StopInv ==
    /\ TypeOK /\ HandlerSet /\ RunStarted /\ HandlerServed /\ RunReturned
    /\ WatcherStarted /\ WatcherHeard /\ DrainStarted /\ WatcherOfRun

LEMMA StopMain == ASSUME StopInv, Main PROVE StopInv'
<1> USE DEF StopInv
<1>1. TypeOK'
  BY MainType
<1>2. UNCHANGED <<command, stopped, signals, drained, watcher>>
  BY DEF Main, ParseFlags, InitConfig, ConfigureLogging, BuildClusterConfig,
         SetupSignalHandler, New, StartRun, NewServer, Shutdown, TestErr,
         WaitForWorkers, Return, outside, stop, running
<1>3. CASE SetupSignalHandler
  <2>1. /\ handler' = "waiting" /\ main' = "new" /\ main = "signals"
        /\ UNCHANGED <<run, listener>>
    BY <1>3 DEF SetupSignalHandler, Step, running, outside
  <2>2. run = "off" /\ watcher = "off"
    BY <2>1 DEF RunStarted, WatcherOfRun, Unstarted
  <2>3. QED
    BY <1>1, <1>2, <2>1, <2>2
    DEF HandlerSet, RunStarted, HandlerServed, RunReturned, WatcherStarted,
        WatcherHeard, DrainStarted, WatcherOfRun, Unstarted, Tracker
<1>4. CASE StartRun
  <2>1. /\ main = "run" /\ main' = "server" /\ run' = "sync"
        /\ listener' = "on" /\ UNCHANGED handler
    BY <1>4 DEF StartRun, Step, stop
  <2>2. run = "off" /\ watcher = "off" /\ handler # "off" /\ ~drained
    BY <2>1 DEF RunStarted, WatcherOfRun, HandlerSet, DrainStarted, Unstarted
  <2>3. QED
    BY <1>1, <1>2, <2>1, <2>2
    DEF HandlerSet, RunStarted, HandlerServed, RunReturned, WatcherStarted,
        WatcherHeard, DrainStarted, WatcherOfRun, Unstarted, Tracker
<1>5. CASE \/ ParseFlags \/ InitConfig \/ ConfigureLogging
           \/ BuildClusterConfig \/ New \/ NewServer
           \/ Shutdown \/ TestErr \/ WaitForWorkers \/ Return
  <2>1. UNCHANGED <<handler, run, listener>>
    BY <1>5 DEF ParseFlags, InitConfig, ConfigureLogging, BuildClusterConfig,
                New, NewServer, Shutdown, TestErr, WaitForWorkers, Return, stop,
                running, outside
  <2>2. /\ main' \in Unstarted => main \in Unstarted
        /\ main' \in {"new", "run"} => main \in Unstarted \cup {"new", "run"}
        /\ main \in Unstarted => main' \in Unstarted
    BY <1>5 DEF Step, Leave, ParseFlags, InitConfig, ConfigureLogging,
                BuildClusterConfig, New, NewServer, Shutdown, TestErr,
                WaitForWorkers, Return, Unstarted
  <2>3. QED
    BY <1>1, <1>2, <2>1, <2>2
    DEF HandlerSet, RunStarted, HandlerServed, RunReturned, WatcherStarted,
        WatcherHeard, DrainStarted, WatcherOfRun, Tracker
<1>6. QED
  BY <1>3, <1>4, <1>5 DEF Main

LEMMA StopInductive == StopInv /\ [Next]_vars => StopInv'
<1> SUFFICES ASSUME StopInv, [Next]_vars PROVE StopInv'
  OBVIOUS
<1> USE DEF StopInv, HandlerSet, RunStarted, HandlerServed, RunReturned,
            WatcherStarted, WatcherHeard, DrainStarted, WatcherOfRun
<1>1. CASE Main
  BY <1>1, StopMain
<1>2. CASE Interrupt \/ Kill \/ Inform
  <2>1. TypeOK'
    BY <1>2, SignalType
  <2>2. signals > 0 => signals' > 0
    BY <1>2 DEF TypeOK, Interrupt, Notify, Kill, Inform, KcdFinish, StopInformers,
                Drain, stop
  <2>3. UNCHANGED <<command, main, handler, stopped, run, watcher>>
    BY <1>2 DEF Interrupt, Kill, Inform, KcdFinish, StopInformers, Drain,
                stop, running
  <2>4. /\ listener' = "finish" \/ drained' =>
              listener = "finish" \/ drained \/ Tracker
        /\ listener' # "off" \/ drained' => listener # "off" \/ drained
    BY <1>2 DEF Interrupt, Kill, Inform, KcdFinish, StopInformers, Drain,
                outside
  <2>5. QED
    BY <2>1, <2>2, <2>3, <2>4 DEF Tracker
<1>3. CASE HandleSignal \/ Serve
  <2>1. TypeOK'
    BY <1>3, SignalType
  <2>2. UNCHANGED <<command, main, run, watcher, listener, drained>>
    BY <1>3 DEF HandleSignal, Serve, Listen, ListenFails, outside, running
  <2>3. \/ stopped' /\ HandleSignal /\ handler' = "gone"
        \/ UNCHANGED <<handler, signals>> /\ (stopped => stopped')
    BY <1>3 DEF HandleSignal, Serve, Listen, ListenFails, CloseStop, stop
  <2>4. HandleSignal => handler = "waiting"
    BY DEF HandleSignal
  <2>5. QED
    BY <2>1, <2>2, <2>3, <2>4 DEF Tracker
<1>4. CASE Run \/ \E w \in Workers : WorkerEnds(w)
  <2>1. TypeOK'
    BY <1>4, RunType
  <2>2. UNCHANGED <<command, main, handler, stopped, signals, listener, drained>>
    BY <1>4 DEF Run, SyncCaches, Spawn, Spawned, RunReturns, WorkerEnds,
                stop, outside
  <2>3. UNCHANGED watcher \/ (Spawned /\ run = "spawn")
    BY <1>4 DEF Run, SyncCaches, Spawn, Spawned, RunReturns, WorkerEnds
  <2>4. Spawned => /\ run' = "serve"
                   /\ watcher' = IF Tracker THEN "waiting" ELSE "off"
    BY DEF Spawned
  <2>5. /\ run' = "returned" => stopped
        /\ run' = "serve" /\ ~Spawned => run = "serve"
        /\ run' = "off" <=> run = "off"
        /\ ~Spawned /\ run \in {"serve", "returned"}
              => run' \in {"serve", "returned"}
    BY <1>4 DEF Run, SyncCaches, Spawn, Spawned, RunReturns, WorkerEnds
  <2>6. QED
    BY <2>1, <2>2, <2>3, <2>4, <2>5 DEF Tracker
<1>5. CASE Watch
  <2>1. TypeOK'
    BY <1>5, RunType
  <2>2. /\ UNCHANGED <<command, main, handler, stopped, run, listener, drained>>
        /\ watcher = "waiting" /\ watcher' = "gone"
    BY <1>5 DEF Watch, outside
  <2>3. signals' > 0
    BY <1>5 DEF TypeOK, Watch, Notify
  <2>4. handler # "off"
    BY <2>2
  <2>5. QED
    BY <2>1, <2>2, <2>3, <2>4 DEF TypeOK, Tracker
<1>6. CASE UNCHANGED vars
  BY <1>6 DEF vars, stop, running, outside, TypeOK, Tracker
<1>7. QED
  BY <1>1, <1>2, <1>3, <1>4, <1>5, <1>6 DEF Next

\* When a tracker has pushed everything its stop channel is closed or going
\* to be, for any number of workers and of interrupts at any moment.
THEOREM StopIsComing == Spec => []StopComing
<1>1. Init => StopInv
  BY InitType
  DEF Init, StopInv, HandlerSet, RunStarted, HandlerServed, RunReturned,
      WatcherStarted, WatcherHeard, DrainStarted, WatcherOfRun, Unstarted
<1>2. StopInv => StopComing
  BY DEF StopInv, TypeOK, HandlerSet, HandlerServed, RunReturned,
         WatcherStarted, WatcherHeard, DrainStarted, StopComing
<1>3. QED
  BY <1>1, <1>2, StopInductive, PTL DEF Spec

===============================================================================
