------------------------------ MODULE Lifecycle ------------------------------
(***************************************************************************)
(* The life of one kubetel process, "kubetel controller" or "kubetel       *)
(* tracker": the start-up of cmd/, the stop channel of signals/, the       *)
(* health server of healthmonitor/, and the Run method of the controller   *)
(* or the tracker.                                                         *)
(*                                                                         *)
(* Five kinds of goroutine meet at stopCh, which may be closed once only:  *)
(* main, which waits for it in NewServer; the signal handler and the       *)
(* health server, which close it; Run, which waits for it; and, in a       *)
(* tracker, the watcher that Run leaves behind, which interrupts its own   *)
(* process when the workers are done.  What workers do is in Tracker and   *)
(* Controller; here a tracker's workers end when the main queue is closed  *)
(* and empty ("drained"), a controller's when the queue is shut down.      *)
(*                                                                         *)
(* The informers run on stopCh too: once it is closed their listeners are  *)
(* taken away, and a tracker whose KCD listener has not begun kcdFinish    *)
(* never begins it.                                                        *)
(***************************************************************************)
EXTENDS Naturals

CONSTANTS
    Workers,        \* worker goroutines
    MaxInterrupts   \* bound: SIGINTs from outside the process

ASSUME LifecycleAssumption == MaxInterrupts \in Nat

VARIABLES
    command,        \* "controller" or "tracker"
    useConfig,      \* --use-config; false in the jobs the controller creates
    interrupts,     \* SIGINTs sent from outside
    listener,       \* the KCD informer's: "off", "on", in or past "finish"
                    \* (kcdFinish), or "gone" with its informer
    drained,        \* the tracker's main queue is closed and empty
    exit,           \* how the process ended, or "running"
    main,           \* main goroutine: the step it is about to take
    signals,        \* SIGINTs in the handler's channel
    handler,        \* its goroutine: "off", "waiting" or "gone"
    stopped,        \* stopCh is closed
    early,          \* history: it was, before a worker was counted
    server,         \* goroutine of ListenAndServe
    run,            \* goroutine of Run
    err,            \* is err, which main and that goroutine share, an error?
    worker,         \* worker -> "off", "running" or "done"
    watcher         \* "off", "waiting" or "gone"

outside == <<interrupts, listener, drained>>
stop == <<signals, handler, stopped, early>>
running == <<run, err, worker, watcher>>
vars == <<command, useConfig, outside, exit, main, stop, server, running>>

Alive == exit = "running"
Tracker == command = "tracker"

\* The counter of the wait group that main, Run and the watcher wait on.
Counted == {w \in Workers : worker[w] = "running"}
NoneAdded == \A w \in Workers : worker[w] = "off"

Init ==
    /\ command \in {"controller", "tracker"} /\ useConfig \in BOOLEAN
    /\ interrupts = 0 /\ listener = "off" /\ drained = FALSE
    /\ exit = "running" /\ main = "flags"
    /\ signals = 0 /\ handler = "off"
    /\ stopped = FALSE /\ early = FALSE
    /\ server = "off" /\ run = "off" /\ err = FALSE
    /\ worker = [w \in Workers |-> "off"] /\ watcher = "off"

-----------------------------------------------------------------------------
(* stopCh: the second close panics and takes the process down. *)

CloseStop ==
    /\ stopped' = TRUE
    /\ IF stopped THEN exit' = "doubleClose" /\ UNCHANGED early
                  ELSE early' = NoneAdded /\ UNCHANGED exit

-----------------------------------------------------------------------------
(* Signals.  The channel holds two; Notify drops what does not fit. *)

\* Mutant: the channel is unbounded.
NotifyAll == signals' = signals + 1

\* Mutant: the channel has no buffer, and a signal that finds the handler not
\* yet at its receive is lost.
NotifyUnbuffered == signals' \in {signals, 1}

Notify == signals' = IF signals < 2 THEN signals + 1 ELSE signals

\* Until Notify is called, and for other signals for ever, the default
\* disposition applies.
Interrupt ==
    /\ Alive
    /\ interrupts < MaxInterrupts
    /\ interrupts' = interrupts + 1
    /\ IF handler = "off" THEN exit' = "killed" /\ UNCHANGED signals
                          ELSE Notify /\ UNCHANGED exit
    /\ UNCHANGED <<command, useConfig, listener, drained, main, handler, stopped,
                   early, server, running>>

Kill ==
    /\ Alive
    /\ exit' = "killed"
    /\ UNCHANGED <<command, useConfig, outside, main, stop, server, running>>

\* Mutant: the handler goes on to the next signal.
HandleEverySignal ==
    /\ Alive /\ handler = "waiting" /\ signals > 0
    /\ signals' = signals - 1
    /\ CloseStop
    /\ UNCHANGED <<command, useConfig, outside, main, handler, server, running>>

\* The handler serves one signal; later ones stay in the channel.
HandleSignal ==
    /\ Alive /\ handler = "waiting" /\ signals > 0
    /\ signals' = signals - 1
    /\ handler' = "gone"
    /\ CloseStop
    /\ UNCHANGED <<command, useConfig, outside, main, server, running>>

-----------------------------------------------------------------------------
(* Start-up, in the main goroutine.  Execute turns an error into exit code *)
(* 1; an error after the signal handler is set up is a panic.              *)

Step(from, to) == Alive /\ main = from /\ main' = to
Leave(from, how) == Alive /\ main = from /\ exit' = how /\ UNCHANGED main

ParseFlags ==
    /\ (Step("flags", "config") /\ UNCHANGED exit) \/ Leave("flags", "error")
    /\ UNCHANGED <<command, useConfig, outside, stop, server, running>>

\* initConfig: without --use-config nothing is read.
InitConfig ==
    /\ \/ Step("config", "logging") /\ UNCHANGED exit
       \/ useConfig /\ Leave("config", "error")
    /\ UNCHANGED <<command, useConfig, outside, stop, server, running>>

ConfigureLogging ==
    /\ \/ Step("logging", "cluster") /\ UNCHANGED exit
       \/ Leave("logging", "error")
    /\ UNCHANGED <<command, useConfig, outside, stop, server, running>>

BuildClusterConfig ==
    /\ \/ Step("cluster", "signals") /\ UNCHANGED exit
       \/ Leave("cluster", "error")
    /\ UNCHANGED <<command, useConfig, outside, stop, server, running>>

SetupSignalHandler ==
    /\ Step("signals", "new")
    /\ handler' = "waiting"
    /\ UNCHANGED <<command, useConfig, outside, exit, signals, stopped, early,
                   server, running>>

\* The clients, and NewController or NewTracker.
New ==
    /\ (Step("new", "run") /\ UNCHANGED exit) \/ Leave("new", "panic")
    /\ UNCHANGED <<command, useConfig, outside, stop, server, running>>

StartRun ==
    /\ Step("run", "server")
    /\ run' = "sync" /\ listener' = "on"
    /\ UNCHANGED <<command, useConfig, interrupts, drained, exit, stop, server,
                   err, worker, watcher>>

-----------------------------------------------------------------------------
(* The health server. *)

NewServer ==
    /\ Step("server", "serve")
    /\ server' = "starting"
    /\ UNCHANGED <<command, useConfig, outside, exit, stop, running>>

ShuttingDown == main \in {"test", "wait", "return"}

Listen ==
    /\ Alive /\ server = "starting"
    /\ server' = IF ShuttingDown THEN "closed" ELSE "listening"
    /\ UNCHANGED <<command, useConfig, outside, exit, main, stop, running>>

\* Mutant: the error is logged only.
ListenFailsLogged ==
    /\ Alive
    /\ server = "starting" \/ (server = "listening" /\ ~ShuttingDown)
    /\ server' = "failed"
    /\ UNCHANGED <<command, useConfig, outside, exit, main, stop, running>>

\* ListenAndServe cannot listen, or cannot accept: any error but "http:
\* Server closed".
ListenFails ==
    /\ Alive
    /\ server = "starting" \/ (server = "listening" /\ ~ShuttingDown)
    /\ server' = "failed"
    /\ CloseStop
    /\ UNCHANGED <<command, useConfig, outside, main, signals, handler, running>>

\* NewServer sees stopCh closed, shuts the server down and returns nil, which
\* main assigns to err.
Shutdown ==
    /\ stopped
    /\ Step("serve", "test")
    /\ server' = IF server = "listening" THEN "closed" ELSE server
    /\ err' = FALSE
    /\ UNCHANGED <<command, useConfig, outside, exit, stop, run, worker, watcher>>

-----------------------------------------------------------------------------
(* The end of main. *)

\* The test of NewServer's result, which finds Run's if that came in between.
TestErr ==
    /\ IF err THEN Leave("test", "error") ELSE Step("test", "wait") /\ UNCHANGED exit
    /\ UNCHANGED <<command, useConfig, outside, stop, server, running>>

\* Mutant: the tracker's command does not wait either.
WaitForNobody ==
    /\ Step("wait", "return")
    /\ UNCHANGED <<command, useConfig, outside, exit, stop, server, running>>

\* The tracker's command waits for its workers, the controller's does not.
WaitForWorkers ==
    /\ Tracker => Counted = {}
    /\ Step("wait", "return")
    /\ UNCHANGED <<command, useConfig, outside, exit, stop, server, running>>

Return ==
    /\ Leave("return", "success")
    /\ UNCHANGED <<command, useConfig, outside, stop, server, running>>

-----------------------------------------------------------------------------
(* Run, of the controller and of the tracker. *)

\* WaitForCacheSync fails when stopCh is closed, and may just miss it.  The
\* error goes to err.
SyncCaches ==
    /\ Alive /\ run = "sync"
    /\ \/ run' = "spawn" /\ UNCHANGED err
       \/ stopped /\ run' = "returned" /\ err' = TRUE
    /\ UNCHANGED <<command, useConfig, outside, exit, main, stop, server,
                   worker, watcher>>

\* One iteration of the loop: Add and go.
Spawn ==
    /\ Alive /\ run = "spawn"
    /\ \E w \in Workers : worker[w] = "off"
                          /\ worker' = [worker EXCEPT ![w] = "running"]
    /\ UNCHANGED <<command, useConfig, outside, exit, main, stop, server, run, err,
                   watcher>>

Spawned ==
    /\ Alive /\ run = "spawn"
    /\ \A w \in Workers : worker[w] # "off"
    /\ run' = "serve"
    /\ watcher' = IF Tracker THEN "waiting" ELSE "off"
    /\ UNCHANGED <<command, useConfig, outside, exit, main, stop, server, err,
                   worker>>

\* After stopCh a tracker's Run waits for the workers, a controller's returns
\* and shuts the queue down; either returns nil.
RunReturns ==
    /\ Alive /\ run = "serve"
    /\ stopped
    /\ Tracker => Counted = {}
    /\ run' = "returned" /\ err' = FALSE
    /\ UNCHANGED <<command, useConfig, outside, exit, main, stop, server,
                   worker, watcher>>

WorkerEnds(w) ==
    /\ Alive /\ worker[w] = "running"
    /\ IF Tracker THEN drained ELSE stopped /\ run = "returned"
    /\ worker' = [worker EXCEPT ![w] = "done"]
    /\ UNCHANGED <<command, useConfig, outside, exit, main, stop, server, run, err,
                   watcher>>

\* Mutant: the watcher does not interrupt the process.
WatchQuietly ==
    /\ Alive /\ watcher = "waiting"
    /\ Counted = {}
    /\ watcher' = "gone"
    /\ UNCHANGED <<command, useConfig, outside, exit, main, stop, server, run, err,
                   worker>>

\* The watcher's syscall.Kill of its own process.
Watch ==
    /\ Alive /\ watcher = "waiting"
    /\ Counted = {}
    /\ watcher' = "gone"
    /\ Notify
    /\ UNCHANGED <<command, useConfig, outside, exit, main, handler, stopped,
                   early, server, run, err, worker>>

-----------------------------------------------------------------------------
(* The KCD informer of a tracker, and what its listener sets off. *)

\* The listener begins kcdFinish.
KcdFinish ==
    /\ Alive /\ Tracker
    /\ listener = "on" /\ listener' = "finish"
    /\ UNCHANGED <<command, useConfig, interrupts, drained, exit, main, stop,
                   server, running>>

\* The informers see stopCh closed.  A handler that has begun is not stopped;
\* what is pending is not handled any more.
StopInformers ==
    /\ Alive /\ stopped
    /\ listener = "on" /\ listener' = "gone"
    /\ UNCHANGED <<command, useConfig, interrupts, drained, exit, main, stop,
                   server, running>>

\* The informer queues that kcdFinish closes run empty, all is acknowledged,
\* InformerQueueMerger closes the main queue (CloseMain of Tracker).
Drain ==
    /\ Alive /\ listener = "finish"
    /\ ~drained /\ drained' = TRUE
    /\ UNCHANGED <<command, useConfig, interrupts, listener, exit, main, stop,
                   server, running>>

-----------------------------------------------------------------------------
Main ==
    \/ ParseFlags \/ InitConfig \/ ConfigureLogging \/ BuildClusterConfig
    \/ SetupSignalHandler \/ New \/ StartRun \/ NewServer
    \/ Shutdown \/ TestErr \/ WaitForWorkers \/ Return
Run == SyncCaches \/ Spawn \/ Spawned \/ RunReturns
Serve == Listen \/ ListenFails
Inform == KcdFinish \/ StopInformers \/ Drain

Next ==
    \/ Interrupt \/ Kill \/ Inform
    \/ Main \/ HandleSignal \/ Serve \/ Run \/ Watch
    \/ \E w \in Workers : WorkerEnds(w)

Spec == Init /\ [][Next]_vars

(***************************************************************************)
(* Fairness.  The Go scheduler runs every goroutine that can run, the      *)
(* informers' caches are synced in the end, and stopped informers stop.    *)
(* What kcdFinish sets off comes to its end with workers to push it, as    *)
(* DeliversLive of Tracker says of a main queue that does not fill up.     *)
(* Nothing is assumed of signals and of the deployment's end, and a server *)
(* that listens need not fail.                                             *)
(***************************************************************************)
Fairness ==
    /\ WF_vars(Main) /\ WF_vars(HandleSignal)
    /\ WF_vars(server = "starting" /\ Serve)
    /\ WF_vars(Run) /\ WF_vars(Watch)
    /\ WF_vars(StopInformers) /\ WF_vars(Counted # {} /\ Drain)
    /\ \A w \in Workers : WF_vars(WorkerEnds(w))

FairSpec == Spec /\ Fairness

-----------------------------------------------------------------------------
(* Properties. *)

TypeOK ==
    /\ command \in {"controller", "tracker"} /\ useConfig \in BOOLEAN
    /\ interrupts \in 0 .. MaxInterrupts /\ drained \in BOOLEAN
    /\ listener \in {"off", "on", "finish", "gone"}
    /\ exit \in {"running", "success", "error", "panic", "killed",
                 "doubleClose"}
    /\ main \in {"flags", "config", "logging", "cluster", "signals", "new",
                 "run", "server", "serve", "test", "wait", "return"}
    /\ signals \in 0 .. 2 /\ handler \in {"off", "waiting", "gone"}
    /\ stopped \in BOOLEAN /\ early \in BOOLEAN
    /\ server \in {"off", "starting", "listening", "failed", "closed"}
    /\ run \in {"off", "sync", "spawn", "serve", "returned"} /\ err \in BOOLEAN
    /\ worker \in [Workers -> {"off", "running", "done"}]
    /\ watcher \in {"off", "waiting", "gone"}

\* However interrupts from outside, the watcher's own and the shutdown of the
\* server interleave, stopCh is closed a second time only if ListenAndServe
\* has failed: a tracker whose server listens does not panic at its end,
\* which would make the job run it again.
ClosedOnce == exit = "doubleClose" => server = "failed"

\* A tracker that exits with success, which completes its job, has pushed
\* everything, or was stopped before Run counted its first worker: then the
\* wait group is zero and main does not wait.
SuccessMeansDrained ==
    exit = "success" /\ Tracker => drained \/ early

\* While a tracker that has pushed everything lives, stopCh is closed or is
\* going to be: Run is still on its way to start the watcher, the watcher is
\* to interrupt the process, or a signal is kept for the handler.  Neither a
\* full channel nor an earlier interrupt makes the watcher's signal useless.
StopComing ==
    Alive /\ drained =>
        \/ stopped
        \/ handler = "waiting" /\ signals > 0
        \/ watcher = "waiting"
        \/ run \in {"sync", "spawn"}

\* When all is pushed a tracker ends by itself, also when it was interrupted
\* or its health server failed at any moment before.
DrainedEnds == drained ~> ~Alive

\* An interrupt or a failed health server ends the process, if need be after
\* all that kcdFinish has set off, but for a tracker that it has stopped too
\* early: one that has counted workers and whose listener is gone before
\* kcdFinish hangs for ever, for Run (tracker.go:442-443) gives the informers
\* the channel on whose closing it goes on to wait for the workers (468-469).
Hung == Tracker /\ Counted # {} /\ listener = "gone" /\ ~drained
StoppedEnds == (stopped \/ server = "failed") ~> (~Alive \/ Hung)

===============================================================================
