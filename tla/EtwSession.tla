------------------------------ MODULE EtwSession ------------------------------
(***************************************************************************)
(* The two trace sessions of a capture and their threads                   *)
(* (src/etw_session.cpp): the flush thread, and for each session that      *)
(* could be started a consumer thread that opens a trace, is called back   *)
(* with its events and must let go when the trace is closed under it.      *)
(* What a callback or the flush thread does with the engine is that it     *)
(* uses it; the callbacks for process events also attach and detach the    *)
(* target.                                                                 *)
(***************************************************************************)
EXTENDS TargetAttachment

Sessions == {USER, KERNEL}

VARIABLES
    manager,         \* the EtwSessionManager exists
    running,         \* running_
    handles,         \* the trace sessions that run
    trace,           \* per session: its trace handle
    consumer,        \* per session: next step of its consumer thread
    consumer_failed,
    flusher          \* next step of the flush thread

sessionVars == <<manager, running, handles, trace, consumer, consumer_failed, flusher>>
threadVars  == <<consumer, consumer_failed, flusher>>
untouched   == <<live, past, targetVars, benchmark, posted, engine_lock, watcherVars, manager, running, handles>>

SessionInit ==
    /\ manager = FALSE /\ running = FALSE /\ handles = {}
    /\ trace = [c \in Sessions |-> "none"] /\ consumer = [c \in Sessions |-> "none"]
    /\ consumer_failed = {} /\ flusher = "none"

-----------------------------------------------------------------------------
(* start, stop and their parts, called by the thread that owns the manager *)

(* One session after the other may start, and then its threads are made.   *)
StartUser(starts) ==
    /\ manager' = TRUE /\ running' = FALSE /\ handles' = IF starts THEN {USER} ELSE {}
    /\ trace' = [c \in Sessions |-> "none"] /\ consumer' = [c \in Sessions |-> "none"]
    /\ consumer_failed' = {} /\ flusher' = "none" /\ events' = <<>>

StartKernel(starts) ==
    /\ handles' = IF starts THEN handles \cup {KERNEL} ELSE handles
    /\ UNCHANGED <<manager, running, trace, threadVars>>

StartThreads ==
    /\ running' = (handles # {})
    /\ consumer' = [c \in Sessions |-> IF c \in handles THEN "begin" ELSE "none"]
    /\ flusher' = IF handles = {} THEN "none" ELSE "on"
    /\ UNCHANGED <<manager, handles, trace, consumer_failed>>

(* stop_user_session, stop_kernel_session: close the trace, then stop.     *)
StopSessions(cs) ==
    /\ handles' = handles \ cs
    /\ trace' = [c \in Sessions |-> IF c \in cs /\ trace[c] = "open" THEN "closed" ELSE trace[c]]

EtwStopAsked == running' = FALSE /\ UNCHANGED <<manager, handles, trace, threadVars>>

(* The flush thread is joined before the traces are closed.                *)
FlusherJoined ==
    /\ flusher \in {"none", "exited"}
    /\ StopSessions(Sessions)
    /\ UNCHANGED <<manager, running, threadVars>>

ConsumersUnjoined ==   \* Mutant: the consumers are left behind.
    manager' = FALSE /\ UNCHANGED <<running, handles, trace, threadVars>>

ConsumersJoined ==
    /\ \A c \in Sessions : consumer[c] \in {"none", "exited"}
    /\ manager' = FALSE /\ UNCHANGED <<running, handles, trace, threadVars>>

-----------------------------------------------------------------------------
(* user_trace_consumer_loop, kernel_trace_consumer_loop.                   *)

To(c, step) == consumer' = [consumer EXCEPT ![c] = step]

ConsumerBegin(c) ==
    /\ consumer[c] = "begin"
    /\ To(c, IF running THEN "open" ELSE "exited")
    /\ UNCHANGED <<untouched, events, call, trace, consumer_failed, flusher>>

ConsumerOpen(c) ==
    /\ consumer[c] = "open"
    /\ To(c, "opened") /\ trace' = [trace EXCEPT ![c] = "open"]
    /\ UNCHANGED <<untouched, events, call, consumer_failed, flusher>>

(* A stop may have come before the handle was stored, or after.            *)
ConsumerCheck(c) ==
    /\ consumer[c] = "opened"
    /\ \/ running /\ trace[c] = "open" /\ To(c, "process") /\ UNCHANGED trace
       \/ /\ (~running \/ trace[c] # "open")
          /\ To(c, "exited") /\ trace' = [trace EXCEPT ![c] = "closed"]
    /\ UNCHANGED <<untouched, events, call, consumer_failed, flusher>>

(* ProcessTrace calls on_event_record, which does nothing after a stop.    *)
Callback(c) ==
    /\ consumer[c] = "process" /\ trace[c] = "open" /\ running
    /\ To(c, "callback")
    /\ UNCHANGED <<untouched, events, call, trace, consumer_failed, flusher>>

CallbackDone(c) ==
    /\ consumer[c] = "callback"
    /\ To(c, "process")
    /\ UNCHANGED <<untouched, events, call, trace, consumer_failed, flusher>>

(* handle_process_event, on_process_launched and on_process_terminated.    *)
ProcessEvent ==
    LET event == Head(events) IN
    /\ consumer[USER] = "process" /\ trace[USER] = "open" /\ events # <<>>
    /\ events' = Tail(events)
    /\ \/ running /\ event.kind = "terminated" /\ Call(USER, "detach", event.pid) /\ To(USER, "calling")
       \/ /\ running /\ event.kind = "launched" /\ target.waiting /\ named
          /\ Call(USER, "attach", event.pid) /\ To(USER, "calling")
       \/ /\ running => event.kind = "launched" /\ ~(target.waiting /\ named)
          /\ UNCHANGED <<call, consumer>>
    /\ UNCHANGED <<untouched, trace, consumer_failed, flusher>>

ProcessEventDone ==
    /\ consumer[USER] = "calling" /\ call[USER].step = "returned"
    /\ call' = [call EXCEPT ![USER] = NoCall] /\ To(USER, "process")
    /\ UNCHANGED <<untouched, events, trace, consumer_failed, flusher>>

(* ProcessTrace returns once the trace is closed or its session stopped.   *)
ConsumerExit(c) ==
    /\ consumer[c] = "process" /\ (trace[c] # "open" \/ c \notin handles)
    /\ To(c, "exited")
    /\ UNCHANGED <<untouched, events, call, trace, consumer_failed, flusher>>

(* OpenTrace or ProcessTrace fails.                                        *)
ConsumerFail(c) ==
    /\ consumer[c] = "open" \/ (consumer[c] = "process" /\ running)
    /\ To(c, "exited") /\ consumer_failed' = consumer_failed \cup {c}
    /\ UNCHANGED <<untouched, events, call, trace, flusher>>

OfConsumer(c) == ConsumerBegin(c) \/ ConsumerOpen(c) \/ ConsumerCheck(c) \/ ConsumerExit(c)

-----------------------------------------------------------------------------
(* active_flush_worker_loop: evicts stale entries of the engine now and    *)
(* then.                                                                   *)

Flush ==
    /\ flusher = "on" /\ running
    /\ flusher' = "evicting"
    /\ UNCHANGED <<untouched, events, call, trace, consumer, consumer_failed>>

FlushDone ==
    /\ flusher = "evicting"
    /\ flusher' = "on"
    /\ UNCHANGED <<untouched, events, call, trace, consumer, consumer_failed>>

FlusherExit ==
    /\ flusher = "on" /\ ~running
    /\ flusher' = "exited"
    /\ UNCHANGED <<untouched, events, call, trace, consumer, consumer_failed>>

-----------------------------------------------------------------------------
(* A thread that uses the engine does so while it exists, the threads of   *)
(* the sessions do so while their manager exists too, and nothing of a     *)
(* session outlives its manager.                                           *)
UsesEngine == {c \in Sessions : consumer[c] \in {"callback", "calling"}}
              \cup {t \in {"flusher"} : flusher = "evicting"}
              \cup {t \in {WATCHER} : call[t].op # "none"}

Outlived == \/ \E c \in Sessions : consumer[c] \notin {"none", "exited"}
            \/ flusher \notin {"none", "exited"} \/ handles # {}
=============================================================================
