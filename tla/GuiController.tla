---------------------------- MODULE GuiController ----------------------------
(***************************************************************************)
(* A capture session of the desktop program: GuiController and its session *)
(* thread (src/gui/gui_controller.cpp), the trace sessions with their      *)
(* flush and consumer threads (src/etw_session.cpp), and the target of the *)
(* engine with its watcher (EtwSession, TargetAttachment).                 *)
(*                                                                         *)
(* What the threads do with events and reports is left to other modules:   *)
(* here a thread uses the engine or it does not.  The window's thread is   *)
(* the only one that starts, stops and retargets a session; what it would  *)
(* refuse, such as a start while a session is busy, is not offered.        *)
(***************************************************************************)
EXTENDS EtwSession

CONSTANT Scenarios   \* what the user and the world may do: how often, and with what

VARIABLES
    budget,          \* what is left of the scenario
    state,           \* state_
    stop_requested,  \* stop_worker_requested_
    gui,             \* the window's thread: next step
    worker,          \* session_worker_loop: next step, whether it unwinds, or never ran
    options,         \* of the session: names a target, its process, the sessions asked for
    wanted,          \* target_process_name_ is not empty
    scan,            \* the thread that lists processes with a window: next step
    cancel_enumeration   \* cancel_enumeration_

control     == <<state, stop_requested, gui, worker, options, wanted, scan, cancel_enumeration>>
scanVars    == <<scan, cancel_enumeration>>
Watched     == <<processes, call, watcher, stop_flag, watcher_lock, targetVars, benchmark, posted>>
Windows     == <<budget, stop_requested, gui, options, wanted, scanVars>>
vars        == <<attachmentVars, budget, control, sessionVars>>

Capturing == state \in {"STARTING", "RUNNING", "DEGRADED_USER_ONLY", "DEGRADED_KERNEL_ONLY"}

NoWorker  == [step |-> "ended", unwinds |-> FALSE, quick |-> FALSE]

Init ==
    /\ budget \in Scenarios /\ AttachmentInit /\ live \in budget.live /\ past = live /\ SessionInit
    /\ state = "IDLE" /\ stop_requested = FALSE /\ gui = "ready"
    /\ worker = NoWorker /\ options = [named |-> FALSE, pid |-> 0, asked |-> {}] /\ wanted = FALSE
    /\ scan = "none" /\ cancel_enumeration = FALSE

Spend(what) == budget[what] > 0 /\ budget' = [budget EXCEPT ![what] = @ - 1]

-----------------------------------------------------------------------------
(* The window's thread handles what is posted to it before the user's      *)
(* input.                                                                  *)
Listens == gui = "ready" /\ posted = {}

(* start_session_async joins the thread of the last session first; the new *)
(* one may fail to start.  The process is picked from a list that may be   *)
(* old; the provider tier "minimal" asks for no kernel session.            *)
Start ==
    /\ Listens /\ state = "IDLE" /\ worker.step = "ended" /\ Spend("starts")
    /\ stop_requested' = FALSE
    /\ options' \in [named : budget.names, pid : {0} \cup (past \cap budget.picks), asked : budget.asked]
    /\ wanted' = options'.named
    /\ \/ state' = "STARTING" /\ worker' = [NoWorker EXCEPT !.step = "engine"]
       \/ UNCHANGED <<state, worker>>
    /\ UNCHANGED <<attachmentVars, gui, scanVars, sessionVars>>

(* stop_session_async looks at the state first.                            *)
StopCheck(next) ==
    /\ gui' = IF Capturing THEN "request" ELSE next
    /\ UNCHANGED <<processes, targetVars, call, benchmark, engine_lock, watcherVars,
                   state, stop_requested, worker, options, wanted, sessionVars>>

Stop == Listens /\ Capturing /\ Spend("stops") /\ StopCheck("ready") /\ UNCHANGED <<posted, scanVars>>

(* The session ends with its target.                                       *)
TargetDetached ==
    /\ gui = "ready" /\ "detached" \in posted
    /\ posted' = posted \ {"detached"} /\ StopCheck("ready")
    /\ UNCHANGED <<budget, scanVars>>

StopRequest ==
    /\ gui = "request"
    /\ stop_requested' = TRUE /\ gui' = "store"
    /\ UNCHANGED <<attachmentVars, budget, state, worker, options, wanted, scanVars, sessionVars>>

StopStore ==
    /\ gui = "store"
    /\ state' = "STOPPING" /\ gui' = IF budget.shutdown = "begun" THEN "join" ELSE "ready"
    /\ UNCHANGED <<attachmentVars, budget, stop_requested, worker, options, wanted, scanVars, sessionVars>>

(* update_target_filter: the engine and the benchmark are retargeted under *)
(* the mutex, the watcher is changed after it has been released.           *)
Retarget(all, pid) ==
    LET new == IF all THEN 0 ELSE pid IN
    /\ engine_lock = Nobody
    /\ IF engine THEN UpdateTarget(new, ~all /\ pid = 0) ELSE UNCHANGED target
    /\ benchmark' = new /\ wanted' = ~all
    /\ change' = IF all THEN [change EXCEPT ![GUI] = "stop"]
                 ELSE IF Capturing THEN [change EXCEPT ![GUI] = "start"] ELSE change
    /\ gui' = "watcher"
    /\ UNCHANGED <<processes, engine, named, last_detached_pid, call, engine_lock, watcher, stop_flag,
                   watcher_lock, state, stop_requested, worker, options, cancel_enumeration, sessionVars>>

(* enumerate_graphical_processes_async, called while no session runs.  A   *)
(* scan under way is left alone, the thread of an earlier one is joined.   *)
StartScan == ~Capturing /\ scan # "found" /\ scan' = "scanning"

(* The user picks a target, and mostly that renews the list of processes.  *)
UpdateFilter ==
    /\ Listens /\ Spend("updates")
    /\ \E all \in BOOLEAN, pid \in {0} \cup (past \cap budget.picks) : Retarget(all, pid)
    /\ StartScan \/ UNCHANGED scan
    /\ UNCHANGED posted

(* A new list of processes retargets a running session to what the window  *)
(* has selected then (read_gui_config), if that is on the list: a process  *)
(* that ran when the list was made, also if the session began without a    *)
(* name.                                                                   *)
ProcessesUpdated ==
    /\ gui = "ready" /\ "processes" \in posted /\ posted' = posted \ {"processes"}
    /\ \/ Capturing /\ Spend("updates") /\ (\E pid \in past : Retarget(FALSE, pid)) /\ UNCHANGED scan
       \/ UNCHANGED <<processes, targetVars, call, benchmark, engine_lock, watcherVars, budget, control,
                      sessionVars>>

WatcherChanged ==
    /\ gui \in {"watcher", "shutdown"} /\ change[GUI] \in {"none", "done"}
    /\ gui' = IF gui = "watcher" THEN "ready" ELSE "check"
    /\ change' = [change EXCEPT ![GUI] = "none"]
    /\ UNCHANGED <<Watched, engine_lock, budget, state, stop_requested, worker, options, wanted, scanVars, sessionVars>>

(* shutdown: stop the watcher, stop the session, join both threads.        *)
Shutdown ==
    /\ gui = "ready" /\ budget.shutdown = "offered" /\ budget' = [budget EXCEPT !.shutdown = "begun"]
    /\ gui' = "shutdown" /\ change' = [change EXCEPT ![GUI] = "stop"]
    /\ UNCHANGED <<Watched, engine_lock, state, stop_requested, worker, options, wanted, scanVars, sessionVars>>

ShutdownCheck ==
    /\ gui = "check"
    /\ cancel_enumeration' = TRUE /\ StopCheck("join")
    /\ UNCHANGED <<budget, posted, scan>>

ShutdownJoined ==
    /\ gui = "join" /\ worker.step = "ended" /\ scan = "none"
    /\ gui' = "over"
    /\ UNCHANGED <<attachmentVars, budget, state, stop_requested, worker, options, wanted, scanVars, sessionVars>>

Enumerate ==
    /\ Listens /\ Spend("scans") /\ StartScan
    /\ UNCHANGED <<attachmentVars, state, stop_requested, gui, worker, options, wanted, cancel_enumeration,
                   sessionVars>>

Scanned ==
    /\ scan = "scanning"
    /\ scan' = IF cancel_enumeration THEN "none" ELSE "found"
    /\ UNCHANGED posted

PostProcesses ==
    /\ scan = "found"
    /\ scan' = "none"
    /\ posted' = IF cancel_enumeration THEN posted ELSE posted \cup {"processes"}

ScanStep ==
    /\ Scanned \/ PostProcesses
    /\ UNCHANGED <<processes, targetVars, call, benchmark, engine_lock, watcherVars, budget, state,
                   stop_requested, gui, worker, options, wanted, cancel_enumeration, sessionVars>>

OfGui == \/ TargetDetached \/ ProcessesUpdated \/ StopRequest \/ StopStore
         \/ WatcherChanged \/ ShutdownCheck \/ ShutdownJoined
         \/ (ChangeWatcher(GUI) \/ WatcherJoined(GUI)) /\ UNCHANGED <<budget, control, sessionVars>>

-----------------------------------------------------------------------------
(* session_worker_loop.                                                    *)

Go(step)  == worker' = [worker EXCEPT !.step = step]
Private   == <<processes, call, watcherVars, Windows>>

(* The new engine is set up and then published under the mutex.            *)
MakeEngine ==
    /\ worker.step = "engine" /\ engine_lock = Nobody
    /\ engine' = TRUE /\ named' = options.named
    /\ target' = [pid |-> options.pid, waiting |-> options.named /\ options.pid = 0]
    /\ last_detached_pid' = 0 /\ benchmark' = options.pid
    /\ Go("etw")
    /\ UNCHANGED <<Private, posted, engine_lock, state, sessionVars>>

StartEtw ==
    /\ worker.step = "etw" /\ \E started \in budget.sessions : StartUser(USER \in started)
    /\ Go("kernel")
    /\ UNCHANGED <<live, past, call, watcherVars, Windows, targetVars, benchmark, posted, engine_lock, state>>

Outside == <<Private, targetVars, benchmark, posted, engine_lock, state>>

StartEtwKernel ==
    /\ worker.step = "kernel"
    /\ \E started \in budget.sessions :
         started \ {KERNEL} = handles /\ StartKernel(KERNEL \in started \cap options.asked)
    /\ Go("threads") /\ UNCHANGED Outside

StartEtwThreads == worker.step = "threads" /\ StartThreads /\ Go("started") /\ UNCHANGED Outside

(* What EtwSessionManager::start returns, given that a session started.    *)
StartResult == IF USER \notin handles THEN "DEGRADED_KERNEL_ONLY"
               ELSE IF options.asked \subseteq handles THEN "RUNNING" ELSE "DEGRADED_USER_ONLY"

(* No session, or a stop asked for meanwhile: IDLE at once, then clean up. *)
Started ==
    /\ worker.step = "started"
    /\ IF handles = {} \/ stop_requested
       THEN state' = "IDLE" /\ worker' = [worker EXCEPT !.step = "stopEtw", !.quick = TRUE]
       ELSE Go("announce") /\ UNCHANGED state
    /\ UNCHANGED <<Private, targetVars, benchmark, posted, engine_lock, sessionVars>>

Announce ==
    /\ worker.step = "announce"
    /\ state' = StartResult /\ Go("watcher")
    /\ UNCHANGED <<Private, targetVars, benchmark, posted, engine_lock, sessionVars>>

StartWatcher ==
    /\ worker.step = "watcher" /\ change[WORKER] \in {"none", "done"}
    /\ IF options.named /\ change[WORKER] = "none"
       THEN change' = [change EXCEPT ![WORKER] = "start"] /\ UNCHANGED worker
       ELSE change' = [change EXCEPT ![WORKER] = "none"] /\ Go("loop")
    /\ UNCHANGED <<Watched, Windows, engine_lock, state, sessionVars>>

(* The loop closes the session of a failed consumer.  It ends when both    *)
(* have failed, or the one that was left; a session that was RUNNING goes  *)
(* on as one with the other trace only, whether or not it has that.        *)
AllFailed == \/ Sessions \subseteq consumer_failed
             \/ state = "DEGRADED_USER_ONLY" /\ USER \in consumer_failed
             \/ state = "DEGRADED_KERNEL_ONLY" /\ KERNEL \in consumer_failed

Degrade ==
    /\ worker.step = "loop" /\ ~stop_requested /\ consumer_failed \cap handles # {}
    /\ StopSessions(consumer_failed)
    /\ stop_requested' = AllFailed
    /\ state' = IF state # "RUNNING" \/ AllFailed THEN state
                ELSE IF KERNEL \in consumer_failed THEN "DEGRADED_USER_ONLY" ELSE "DEGRADED_KERNEL_ONLY"
    /\ UNCHANGED <<attachmentVars, budget, gui, options, wanted, scanVars, worker, manager, running, threadVars>>

(* Something throws: what the block owns is destroyed first, and           *)
(* the watcher is stopped after that.                                      *)
Throw ==
    /\ worker.step \in {"etw", "loop"} /\ Spend("throws")
    /\ worker' = [worker EXCEPT !.step = "stopEtw", !.unwinds = TRUE]
    /\ UNCHANGED <<attachmentVars, state, stop_requested, gui, options, wanted, scanVars, sessionVars>>

(* A report takes time and may fail; the engine is told in any case.       *)
BeginReport ==
    /\ worker.step = "loop" /\ ~stop_requested /\ engine_lock = Nobody
    /\ Go("report")
    /\ UNCHANGED <<Outside, sessionVars>>

EndReport ==
    /\ worker.step = "report" /\ engine_lock = Nobody
    /\ Go("loop")
    /\ UNCHANGED <<Outside, sessionVars>>

Leave ==
    /\ worker.step = "loop" /\ stop_requested
    /\ Go("stopWatcher")
    /\ UNCHANGED <<Private, targetVars, benchmark, posted, engine_lock, state, sessionVars>>

StopWatcherLocked ==   \* Mutant: with the engine's mutex held.
    /\ worker.step = "stopWatcher"
    /\ \/ /\ change[WORKER] = "none" /\ engine_lock = Nobody /\ engine_lock' = WORKER
          /\ change' = [change EXCEPT ![WORKER] = "stop"] /\ UNCHANGED worker
       \/ /\ change[WORKER] = "done" /\ engine_lock' = Nobody
          /\ change' = [change EXCEPT ![WORKER] = "none"]
          /\ Go(IF worker.unwinds THEN "dropEngine" ELSE "stopEtw")
    /\ UNCHANGED <<Watched, Windows, state, sessionVars>>

StopWatcher ==
    /\ worker.step = "stopWatcher" /\ change[WORKER] \in {"none", "done"}
    /\ IF change[WORKER] = "none"
       THEN change' = [change EXCEPT ![WORKER] = "stop"] /\ UNCHANGED worker
       ELSE /\ change' = [change EXCEPT ![WORKER] = "none"]
            /\ Go(IF worker.unwinds THEN "dropEngine" ELSE "stopEtw")
    /\ UNCHANGED <<Watched, Windows, engine_lock, state, sessionVars>>

StopEtw == worker.step = "stopEtw" /\ EtwStopAsked /\ Go("joinFlusher") /\ UNCHANGED Outside

JoinFlusher == worker.step = "joinFlusher" /\ FlusherJoined /\ Go("joinConsumers") /\ UNCHANGED Outside

DropManager ==
    /\ worker.step = "joinConsumers" /\ ConsumersJoined
    /\ Go(IF worker.unwinds THEN "stopWatcher" ELSE "dropEngine")
    /\ UNCHANGED Outside

(* A session that never ran has stored IDLE before, and does not again.    *)
DropEngine ==
    /\ worker.step = "dropEngine" /\ engine_lock = Nobody
    /\ engine' = FALSE
    /\ Go(IF worker.quick THEN "ended" ELSE "idle")
    /\ UNCHANGED <<Private, named, target, last_detached_pid, benchmark, posted, engine_lock, state,
                   sessionVars>>

StoreIdle ==
    /\ worker.step = "idle"
    /\ state' = "IDLE" /\ Go("ended")
    /\ UNCHANGED <<Private, targetVars, benchmark, posted, engine_lock, sessionVars>>

OfWorker == \/ MakeEngine \/ StartEtw \/ StartEtwKernel \/ StartEtwThreads \/ Started \/ Announce
            \/ StartWatcher \/ Degrade \/ EndReport \/ Leave
            \/ StopWatcher \/ StopEtw \/ JoinFlusher \/ DropManager \/ DropEngine \/ StoreIdle
            \/ (ChangeWatcher(WORKER) \/ WatcherJoined(WORKER)) /\ UNCHANGED <<budget, control, sessionVars>>

-----------------------------------------------------------------------------
OfWorld ==
    \/ /\ Spend("processes")
       /\ \/ Launch(USER \in handles)
          \/ Terminate(USER \in handles)
       /\ UNCHANGED <<control, sessionVars>>
    \/ Spend("failures") /\ (\E c \in Sessions : ConsumerFail(c)) /\ UNCHANGED control
    \/ Spend("blind") /\ WatcherBlind /\ UNCHANGED <<control, sessionVars>>

WatcherStep    == OfWatcher /\ UNCHANGED <<budget, control, sessionVars>>
ConsumerStep(c) == OfConsumer(c) /\ UNCHANGED <<budget, control>>
CallbackStep(c) == /\ \/ CallbackDone(c)
                      \/ c = USER /\ (ProcessEvent \/ ProcessEventDone)
                      \/ c = USER /\ OfCall(c) /\ UNCHANGED sessionVars
                   /\ UNCHANGED <<budget, control>>
FlusherStep    == (FlushDone \/ FlusherExit) /\ UNCHANGED <<budget, control>>
Optional       == /\ budget.traffic
                  /\ \/ BeginReport
                     \/ (Flush \/ \E c \in Sessions : Callback(c)) /\ UNCHANGED <<budget, control>>

Next == \/ Start \/ Stop \/ UpdateFilter \/ Enumerate \/ ScanStep \/ Shutdown \/ OfGui \/ OfWorker \/ Throw
        \/ OfWorld \/ WatcherStep \/ FlusherStep \/ Optional
        \/ \E c \in Sessions : ConsumerStep(c) \/ CallbackStep(c)

(* Every thread goes on when it can.  The watcher sleeps between two turns *)
(* with the mutex free, so that who waits for it gets it.                  *)
Fairness ==
    /\ SF_vars(OfWorker) /\ SF_vars(OfGui) /\ SF_vars(WatcherStep)
    /\ WF_vars(FlusherStep) /\ WF_vars(ScanStep)
    /\ \A c \in Sessions : WF_vars(ConsumerStep(c)) /\ WF_vars(CallbackStep(c))

Spec == Init /\ [][Next]_vars /\ Fairness

-----------------------------------------------------------------------------
(* A consumer, the flush thread or the watcher uses the engine only while  *)
(* it exists, and no thread or trace outlives the EtwSessionManager it     *)
(* belongs to (the order of the clean-up in session_worker_loop, on every  *)
(* path out of it; the callbacks of make_watcher_callbacks).               *)
NoUseAfterFree ==
    /\ UsesEngine # {} => engine
    /\ ~manager => ~Outlived
    /\ worker.step = "ended" => ~engine /\ ~manager

(* A session that is asked to stop ends, with its threads joined and its   *)
(* traces closed, and the program gets through its shutdown, whatever the  *)
(* window's thread, the watcher, the scan and the consumers do meanwhile:  *)
(* nobody waits for ever for a thread or a mutex (stop_session_async,      *)
(* shutdown).  The window is told that its target is gone only to the same *)
(* end, and a worker that has not stored IDLE by the time the state is     *)
(* STOPPING does so later (WM_STUTTO_TARGET_DETACHED, session_worker_loop).*)
StopEnds ==
    /\ stop_requested ~> (worker.step = "ended" /\ ~manager)
    /\ (gui = "shutdown") ~> (gui = "over" /\ watcher.step = "off")
    /\ ("detached" \in posted) ~> (worker.step = "ended")
    /\ (state = "STOPPING" /\ worker.step # "ended" /\ ~worker.quick) ~> (state = "IDLE")

(* Once processes stop coming and going, the engine of a session that      *)
(* waits for a process by its name and has both ways to hear of it is      *)
(* attached to one that runs, and waits if none does; with one process,    *)
(* the benchmark shows it (try_attach_pid, try_detach_pid, the watcher).   *)
(* With none it may still show the one that is gone: see SessionEnds.      *)
Following == /\ engine /\ named /\ wanted /\ watcher.step # "off" /\ ~stop_flag
             /\ consumer[USER] \in {"process", "callback", "calling"}
OnTarget  == /\ IF live = {} THEN target.waiting ELSE target.pid \in live
             /\ Cardinality(live) = 1 => benchmark \in live

TargetSettles == <>[](Following => OnTarget)

(* A session that is stopping becomes IDLE, so that another can be started *)
(* ("Thread joins will complete on background worker and post IDLE").      *)
StopSettles == (state = "STOPPING") ~> (state = "IDLE")

(* A session whose target the watcher had and that is gone is stopped      *)
(* ("Auto-finish the capture session on target exit"), whether the watcher *)
(* or the trace session sees it first: the second detach of one process    *)
(* succeeds like the first ("Idempotent success", try_detach_pid).         *)
TargetGone == /\ engine /\ named /\ wanted /\ watcher.step # "off"
              /\ watcher.attached # 0 /\ watcher.attached \notin live

ExitEndsSession == TargetGone ~> (stop_flag \/ ~engine)

(* Sessions end as the comments promise: each half fails by a race.        *)
SessionEnds == StopSettles /\ ExitEndsSession
=============================================================================
