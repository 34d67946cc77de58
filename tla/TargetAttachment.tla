--------------------------- MODULE TargetAttachment ---------------------------
(***************************************************************************)
(* Which process the engine watches (src/trigger_engine.cpp,               *)
(* try_attach_pid and try_detach_pid; target_state_), and the thread that  *)
(* keeps it to a process of a given name (src/process_watcher.cpp).  The   *)
(* engine hears of processes twice: from the trace session, in order but   *)
(* late, and from the snapshots the watcher takes, which are stale when it *)
(* acts on them.  The watcher reaches the engine through the callbacks of  *)
(* GuiController, which hold its mutex.                                    *)
(*                                                                         *)
(* The reset of the frame and DXGI state that follows a change of target   *)
(* is left out here, and of the messages to the window all but the one     *)
(* that the target is gone.  All processes that come and go bear the name  *)
(* that is looked for.                                                     *)
(***************************************************************************)
EXTENDS Naturals, FiniteSets, Sequences

CONSTANTS
    Pids,                  \* processes that may run under the name
    GUI, WORKER, WATCHER,  \* the window's thread, the session's, the watcher's
    USER, KERNEL,          \* the consumer threads of the two trace sessions
    Nobody                 \* a mutex that is free

ASSUME AttachmentAssumption == IsFiniteSet(Pids) /\ Pids \subseteq Nat \ {0}

ASSUME ThreadsDiffer ==
    /\ USER # KERNEL /\ WATCHER \notin {USER, KERNEL, Nobody}
    /\ GUI # WORKER /\ Nobody \notin {GUI, WORKER}

VARIABLES
    live, past,         \* the processes that run, and that have run
    events,             \* process events the trace session has not delivered
    engine,             \* active_trigger_engine_ is not null
    named,              \* config_.target_process_name of the engine is not empty
    target,             \* target_state_: a process, and whether the engine waits for one
    last_detached_pid,
    call,               \* per caller: attach or detach under way
    benchmark,          \* the process the benchmark shows
    posted,             \* messages to the window that it has not handled
    engine_lock,        \* trigger_engine_mutex_: its holder
    watcher,            \* the watcher's thread: next step, found_pid, attached_pid_
    stop_flag,          \* stop_flag_ of the watcher
    watcher_lock,       \* watcher_mutex_: its holder
    change              \* per caller: start or stop of the watcher under way

processes      == <<live, past, events>>
targetVars     == <<engine, named, target, last_detached_pid>>
watcherVars    == <<watcher, stop_flag, watcher_lock, change>>
attachmentVars == <<processes, targetVars, call, benchmark, posted, engine_lock, watcherVars>>

Callers == {USER, WATCHER}
NoCall  == [op |-> "none", step |-> "idle", pid |-> 0, ok |-> FALSE]
Waiting == [pid |-> 0, waiting |-> TRUE]
NoWatcher == [step |-> "off", found |-> 0, attached |-> 0]

AttachmentInit ==
    /\ events = <<>>
    /\ engine = FALSE /\ named = FALSE /\ target = Waiting /\ last_detached_pid = 0
    /\ call = [t \in Callers |-> NoCall]
    /\ benchmark = 0 /\ posted = {} /\ engine_lock = Nobody
    /\ watcher = NoWatcher /\ stop_flag = FALSE /\ watcher_lock = Nobody
    /\ change = [t \in {GUI, WORKER} |-> "none"]

-----------------------------------------------------------------------------
(* Processes come and go.  No pid is given twice.                          *)

Launch(traced) ==
    \E pid \in Pids \ past :
      /\ past' = past \cup {pid} /\ live' = live \cup {pid}
      /\ events' = IF traced THEN Append(events, [kind |-> "launched", pid |-> pid]) ELSE events
      /\ UNCHANGED <<targetVars, call, benchmark, posted, engine_lock, watcherVars>>

Terminate(traced) ==
    \E pid \in live :
      /\ live' = live \ {pid} /\ UNCHANGED past
      /\ events' = IF traced THEN Append(events, [kind |-> "terminated", pid |-> pid]) ELSE events
      /\ UNCHANGED <<targetVars, call, benchmark, posted, engine_lock, watcherVars>>

-----------------------------------------------------------------------------
(* try_attach_pid and try_detach_pid, called by t.  The compare-exchange   *)
(* and the stores after it are steps of their own.                         *)

Call(t, op, pid) == call' = [call EXCEPT ![t] = [op |-> op, step |-> "exchange", pid |-> pid, ok |-> FALSE]]
Return(t, ok)    == call' = [call EXCEPT ![t].step = "returned", ![t].ok = ok]
Proceed(t, step) == call' = [call EXCEPT ![t].step = step]

TryAttach(t) ==
    LET pid == call[t].pid IN
    /\ call[t].op = "attach" /\ call[t].step = "exchange"
    /\ \/ target.waiting /\ target' = [pid |-> pid, waiting |-> FALSE] /\ Proceed(t, "exchanged")
       \/ ~target.waiting /\ Return(t, target.pid = pid) /\ UNCHANGED target
    /\ UNCHANGED <<processes, engine, named, last_detached_pid, benchmark, posted, engine_lock, watcherVars>>

TryDetachAny(t) ==   \* Mutant: whichever process is attached.
    /\ call[t].op = "detach" /\ call[t].step = "exchange"
    /\ \/ ~named /\ Return(t, FALSE) /\ UNCHANGED target
       \/ named /\ target.waiting /\ Proceed(t, "compare") /\ UNCHANGED target
       \/ named /\ ~target.waiting /\ target' = Waiting /\ Proceed(t, "exchanged")
    /\ UNCHANGED <<processes, engine, named, last_detached_pid, benchmark, posted, engine_lock, watcherVars>>

TryDetach(t) ==
    LET pid == call[t].pid IN
    /\ call[t].op = "detach" /\ call[t].step = "exchange"
    /\ \/ ~named /\ Return(t, FALSE) /\ UNCHANGED target
       \/ named /\ target.waiting /\ Proceed(t, "compare") /\ UNCHANGED target
       \/ named /\ ~target.waiting /\ target.pid # pid /\ Return(t, FALSE) /\ UNCHANGED target
       \/ named /\ ~target.waiting /\ target.pid = pid /\ target' = Waiting /\ Proceed(t, "exchanged")
    /\ UNCHANGED <<processes, engine, named, last_detached_pid, benchmark, posted, engine_lock, watcherVars>>

(* Detached already: was it from this process?                             *)
CompareDetached(t) ==
    /\ call[t].step = "compare"
    /\ Return(t, last_detached_pid = call[t].pid)
    /\ UNCHANGED <<processes, targetVars, benchmark, posted, engine_lock, watcherVars>>

StoreDetached(t) ==
    /\ call[t].step = "exchanged"
    /\ last_detached_pid' = IF call[t].op = "detach" THEN call[t].pid ELSE 0
    /\ Return(t, TRUE)
    /\ UNCHANGED <<processes, engine, named, target, benchmark, posted, engine_lock, watcherVars>>

OfCall(t) == TryAttach(t) \/ TryDetach(t) \/ CompareDetached(t) \/ StoreDetached(t)

(* update_target_pid.                                                      *)
UpdateTarget(pid, waiting) == target' = [pid |-> pid, waiting |-> waiting]

-----------------------------------------------------------------------------
(* ProcessWatcher::worker_loop.                                            *)

First(pids) == IF pids = {} THEN 0 ELSE CHOOSE p \in pids : \A q \in pids : p <= q

(* Take a snapshot and find a process there, or leave once asked to stop.  *)
WatcherSees(found) ==
    LET next == IF watcher.attached \notin {0, found} THEN "detach"
                ELSE IF found # 0 /\ watcher.attached = 0 THEN "attach" ELSE "rest"
    IN  /\ watcher.step = "poll"
        /\ watcher' = IF stop_flag THEN [watcher EXCEPT !.step = "off"]
                      ELSE [watcher EXCEPT !.step = next, !.found = found]
        /\ UNCHANGED <<processes, targetVars, call, benchmark, posted, engine_lock, stop_flag, watcher_lock,
                       change>>

(* A process stays at its place in the snapshots.                          *)
WatcherPoll == WatcherSees(First(live))

(* A snapshot that cannot be taken shows no process.                       *)
WatcherBlind == WatcherSees(0)

AfterDetach == [watcher EXCEPT !.attached = 0, !.step = IF watcher.found = 0 THEN "rest" ELSE "attach"]

(* A callback takes the mutex and does nothing without an engine.          *)
WatcherDetach ==
    /\ watcher.step = "detach" /\ engine_lock = Nobody
    /\ \/ /\ engine
          /\ engine_lock' = WATCHER /\ Call(WATCHER, "detach", watcher.attached)
          /\ watcher' = [watcher EXCEPT !.step = "detaching"]
       \/ ~engine /\ watcher' = AfterDetach /\ UNCHANGED <<engine_lock, call>>
    /\ UNCHANGED <<processes, targetVars, benchmark, posted, stop_flag, watcher_lock, change>>

WatcherDetached ==
    /\ watcher.step = "detaching" /\ call[WATCHER].step = "returned"
    /\ benchmark' = IF call[WATCHER].ok THEN 0 ELSE benchmark
    /\ posted' = IF call[WATCHER].ok THEN posted \cup {"detached"} ELSE posted
    /\ call' = [call EXCEPT ![WATCHER] = NoCall] /\ engine_lock' = Nobody
    /\ watcher' = AfterDetach
    /\ UNCHANGED <<processes, targetVars, stop_flag, watcher_lock, change>>

WatcherAttach ==
    /\ watcher.step = "attach" /\ engine_lock = Nobody
    /\ \/ /\ engine
          /\ engine_lock' = WATCHER /\ Call(WATCHER, "attach", watcher.found)
          /\ watcher' = [watcher EXCEPT !.step = "attaching"]
       \/ /\ ~engine
          /\ watcher' = [watcher EXCEPT !.step = "rest"] /\ UNCHANGED <<engine_lock, call>>
    /\ UNCHANGED <<processes, targetVars, benchmark, posted, stop_flag, watcher_lock, change>>

WatcherAttached ==
    LET ok == call[WATCHER].ok IN
    /\ watcher.step = "attaching" /\ call[WATCHER].step = "returned"
    /\ benchmark' = IF ok THEN watcher.found ELSE benchmark
    /\ call' = [call EXCEPT ![WATCHER] = NoCall] /\ engine_lock' = Nobody
    /\ watcher' = [watcher EXCEPT !.step = "rest", !.attached = IF ok THEN watcher.found ELSE 0]
    /\ UNCHANGED <<processes, targetVars, posted, stop_flag, watcher_lock, change>>

(* Ask the engine how long to sleep, under the mutex again.                *)
WatcherRest ==
    /\ watcher.step = "rest" /\ engine_lock = Nobody
    /\ watcher' = [watcher EXCEPT !.step = "poll", !.found = 0]
    /\ UNCHANGED <<processes, targetVars, call, benchmark, posted, engine_lock, stop_flag, watcher_lock, change>>

OfWatcher == \/ WatcherPoll \/ WatcherDetach \/ WatcherDetached
             \/ WatcherAttach \/ WatcherAttached \/ WatcherRest \/ OfCall(WATCHER)

-----------------------------------------------------------------------------
(* ProcessWatcher::start and stop, called by t: the thread that runs is    *)
(* asked to leave and joined, and for a start another one is created.      *)

ChangeWatcher(t) ==
    /\ change[t] \in {"start", "stop"} /\ watcher_lock = Nobody
    /\ watcher_lock' = t /\ stop_flag' = TRUE
    /\ UNCHANGED <<processes, targetVars, call, benchmark, posted, engine_lock, watcher, change>>

WatcherJoined(t) ==
    /\ watcher_lock = t /\ watcher.step = "off"
    /\ watcher_lock' = Nobody
    /\ change' = [change EXCEPT ![t] = "done"]
    /\ \/ change[t] = "start" /\ stop_flag' = FALSE /\ watcher' = [NoWatcher EXCEPT !.step = "poll"]
       \/ change[t] = "stop" /\ watcher' = NoWatcher /\ UNCHANGED stop_flag
    /\ UNCHANGED <<processes, targetVars, call, benchmark, posted, engine_lock>>
=============================================================================
