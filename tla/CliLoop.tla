------------------------------- MODULE CliLoop -------------------------------
(***************************************************************************)
(* A capture session of the command-line program: the event callback of    *)
(* the two trace sessions (src/etw_session.cpp, on_event_record), the loop *)
(* of src/main.cpp that polls the engine and makes the report, and its     *)
(* shutdown, with the event stream written through NdjsonWriter.  The      *)
(* recorder, the engine and the ring of filtered events are here what      *)
(* their own modules show them to be: a recorder that returns what was     *)
(* published in a window, an engine that hands a trigger out once its      *)
(* post-window has passed, a queue.  A session delivers its events one at  *)
(* a time, in the order they were logged, after any delay.                 *)
(***************************************************************************)
EXTENDS NdjsonWriter

CONSTANTS
    USER, KERNEL, MAIN,   \* the consumer threads, and the thread of main
    PRE, POST,            \* the window of a report, in clock ticks
    COOLDOWN,
    DRAIN_LIMIT,          \* filtered events taken in one turn of the loop
    Scenarios             \* what the world may do, and the options

ASSUME LoopAssumption ==
    /\ Threads = {USER, KERNEL, MAIN} /\ MAIN \notin {USER, KERNEL}
    /\ PRE \in Nat /\ POST \in Nat /\ COOLDOWN \in Nat /\ DRAIN_LIMIT \in Nat \ {0}

(* A file has room for a line, and the constructor keeps at least one.     *)
ASSUME LimitsAssumption ==
    \A s \in Scenarios : s.limits.bytes \in Nat \ {0} /\ s.limits.files \in Nat \ {0}

Consumers == {USER, KERNEL}

VARIABLES
    scene,           \* the scenario of this behaviour
    clock,
    buffers,         \* per session: the events logged, not delivered
    consumer,        \* per consumer thread: next step of on_event_record, event
    running,         \* EtwSessionManager::running_
    last_processed,  \* last_processed_qpc_
    recorder,        \* flight recorder: the events published
    engine,          \* state, timestamp of the trigger, end of the cooldown
    filtered,        \* filtered_events_
    stop_requested,  \* g_stop_requested
    loop,            \* main: next step, current_qpc, filtered events drained, reports
    report,          \* main: window and snapshot of the report, whether it timed out
    logged,          \* history: the events of each session
    reached          \* history: the last event each session has finished

world    == <<scene, clock, buffers, logged>>
mainVars == <<loop, report>>
vars     == <<writerVars, world, consumer, running, last_processed, recorder, engine, filtered,
              stop_requested, mainVars, reached>>

NoEvent  == [ts |-> 0, kind |-> "NONE"]
NoReport == [from |-> 0, to |-> 0, snapshot |-> {}, timely |-> FALSE, reached |-> [c \in {} |-> 0]]
Larger(a, b) == IF a > b THEN a ELSE b

Init ==
    /\ scene \in Scenarios /\ WriterInit(scene.limits)
    /\ clock = 0 /\ buffers = [c \in Consumers |-> <<>>]
    /\ consumer = [c \in Consumers |-> [step |-> "idle", event |-> NoEvent]]
    /\ running = TRUE /\ last_processed = 0 /\ recorder = {} /\ filtered = <<>>
    /\ engine = [state |-> "ARMED", ts |-> 0]
    /\ stop_requested = FALSE
    /\ loop = [step |-> "head", now |-> 0, drained |-> 0, reports |-> 0] /\ report = NoReport
    /\ reached = [c \in Consumers |-> 0] /\ logged = [c \in Consumers |-> {}]

-----------------------------------------------------------------------------
(* The world: an event is logged, the user asks to stop.  Time is counted  *)
(* in events.                                                              *)

Log(c) ==
    /\ clock < scene.ticks /\ running /\ c \in scene.sessions
    /\ \E kind \in scene.kinds :
         buffers' = [buffers EXCEPT ![c] = Append(@, [ts |-> clock + 1, kind |-> kind])]
    /\ logged' = [logged EXCEPT ![c] = @ \cup {clock + 1}]
    /\ clock' = clock + 1
    /\ UNCHANGED <<writerVars, scene, consumer, running, last_processed, recorder, engine, filtered,
                   stop_requested, mainVars, reached>>

(* console_ctrl_handler.                                                   *)
CtrlC ==
    /\ ~stop_requested /\ running
    /\ stop_requested' = TRUE
    /\ UNCHANGED <<writerVars, world, consumer, running, last_processed, recorder, engine, filtered,
                   mainVars, reached>>

-----------------------------------------------------------------------------
(* on_event_record: the handler publishes the event to the recorder and to *)
(* the stream, tells the engine, and then raises last_processed_qpc_.      *)

StepTo(c, step) == consumer' = [consumer EXCEPT ![c].step = step]

DeliverRaising(c) ==   \* Mutant: last_processed_qpc_ is raised before the event is handled.
    LET event == Head(buffers[c]) IN
    /\ consumer[c].step = "idle" /\ buffers[c] # <<>> /\ running
    /\ buffers' = [buffers EXCEPT ![c] = Tail(@)]
    /\ consumer' = [consumer EXCEPT ![c] = [step |-> "record", event |-> event]]
    /\ last_processed' = Larger(last_processed, event.ts)
    /\ reached' = [reached EXCEPT ![c] = event.ts]
    /\ UNCHANGED <<writerVars, scene, clock, logged, running, recorder, engine, filtered,
                   stop_requested, mainVars>>

Deliver(c) ==
    /\ consumer[c].step = "idle" /\ buffers[c] # <<>>
    /\ buffers' = [buffers EXCEPT ![c] = Tail(@)]
    /\ consumer' = IF running THEN [consumer EXCEPT ![c] = [step |-> "record", event |-> Head(buffers[c])]]
                              ELSE consumer
    /\ UNCHANGED <<writerVars, scene, clock, logged, running, last_processed, recorder, engine,
                   filtered, stop_requested, mainVars, reached>>

EmitRecord(c) ==
    /\ consumer[c].step = "record"
    /\ recorder' = recorder \cup {consumer[c].event.ts}
    /\ StepTo(c, IF scene.stream THEN "stream" ELSE "engine")
    /\ UNCHANGED <<writerVars, world, running, last_processed, engine, filtered, stop_requested,
                   mainVars, reached>>

EmitLine(c) ==
    /\ consumer[c].step = "stream"
    /\ PushStart(c, [from |-> c, ts |-> consumer[c].event.ts])
    /\ StepTo(c, "engine")
    /\ UNCHANGED <<world, running, last_processed, recorder, engine, filtered, stop_requested,
                   mainVars, reached>>

Trigger(event) == IF engine.state = "ARMED" THEN [state |-> "COLLECTING", ts |-> event.ts] ELSE engine

TellEngine(c) ==
    LET event == consumer[c].event IN
    /\ consumer[c].step = "engine" /\ Idle(c)
    /\ StepTo(c, "processed")
    /\ \/ event.kind = "PLAIN" /\ UNCHANGED <<engine, filtered>>
       \/ event.kind = "MILD" /\ filtered' = Append(filtered, event.ts) /\ UNCHANGED engine
       \/ event.kind = "STUTTER" /\ engine' = Trigger(event) /\ UNCHANGED filtered
    /\ UNCHANGED <<writerVars, world, running, last_processed, recorder, stop_requested, mainVars,
                   reached>>

RaiseProcessed(c) ==
    LET event == consumer[c].event IN
    /\ consumer[c].step = "processed"
    /\ last_processed' = Larger(last_processed, event.ts)
    /\ reached' = [reached EXCEPT ![c] = event.ts]
    /\ StepTo(c, "idle")
    /\ UNCHANGED <<writerVars, world, running, recorder, engine, filtered, stop_requested, mainVars>>

(* ProcessTrace returns once its trace is closed.                          *)
ConsumerExit(c) ==
    /\ consumer[c].step = "idle" /\ loop.step = "join"
    /\ StepTo(c, "exited")
    /\ UNCHANGED <<writerVars, world, running, last_processed, recorder, engine, filtered,
                   stop_requested, mainVars, reached>>

-----------------------------------------------------------------------------
(* One turn of the loop of main.                                           *)

Go(step) == loop' = [loop EXCEPT !.step = step, !.now = 0, !.drained = 0]
Outside  == <<world, consumer, running, last_processed, recorder, stop_requested, reached>>

LoopHead ==
    /\ loop.step = "head"
    /\ loop' = IF stop_requested THEN [loop EXCEPT !.step = "stop"]
               ELSE [loop EXCEPT !.step = "drain", !.now = clock]
    /\ UNCHANGED <<Outside, writerVars, engine, filtered, report>>

PopFiltered ==
    /\ PushStart(MAIN, [from |-> MAIN, ts |-> Head(filtered)])
    /\ filtered' = Tail(filtered)

Drain ==
    /\ loop.step = "drain" /\ loop.drained < DRAIN_LIMIT /\ filtered # <<>> /\ scene.stream
    /\ PopFiltered
    /\ loop' = [loop EXCEPT !.drained = @ + 1]
    /\ UNCHANGED <<Outside, engine, report>>

(* poll_state, with the time read at the head of the turn.                 *)
Poll ==
    /\ loop.step = "drain" /\ Idle(MAIN)
    /\ loop.drained = DRAIN_LIMIT \/ filtered = <<>> \/ ~scene.stream
    /\ \/ /\ engine.state = "COLLECTING" /\ loop.now >= engine.ts + POST
          /\ engine' = [engine EXCEPT !.state = "FROZEN"]
          /\ report' = [NoReport EXCEPT !.from = Larger(0, engine.ts - PRE), !.to = engine.ts + POST]
          /\ Go("wait")
       \/ /\ engine.state = "COOLDOWN" /\ loop.now >= engine.ts
          /\ engine' = [state |-> "ARMED", ts |-> 0]
          /\ Go("head") /\ UNCHANGED report
       \/ /\ \/ engine.state = "ARMED"
             \/ engine.state = "COLLECTING" /\ loop.now < engine.ts + POST
             \/ engine.state = "COOLDOWN" /\ loop.now < engine.ts
          /\ Go("head") /\ UNCHANGED <<engine, report>>
    /\ UNCHANGED <<Outside, writerVars, filtered>>

(* flush_buffers makes the sessions deliver; the wait for it is bounded.   *)
Wait ==
    /\ loop.step = "wait"
    /\ \E timely \in BOOLEAN :
         /\ timely => last_processed >= report.to
         /\ report' = [report EXCEPT !.timely = timely]
    /\ Go("snapshot")
    /\ UNCHANGED <<Outside, writerVars, engine, filtered>>

Snapshot ==
    /\ loop.step = "snapshot"
    /\ report' = [report EXCEPT !.snapshot = {ts \in recorder : report.from <= ts /\ ts <= report.to},
                                !.reached = reached]
    /\ Go("report")
    /\ UNCHANGED <<Outside, writerVars, engine, filtered>>

(* The report is correlated and saved, and the engine released.  An        *)
(* exception on the way leaves the report uncounted.                       *)
Report ==
    /\ loop.step = "report"
    /\ engine' = [state |-> "COOLDOWN", ts |-> clock + COOLDOWN]
    /\ \E saved \in BOOLEAN :
         LET reports == loop.reports + (IF saved THEN 1 ELSE 0)
             enough  == saved /\ reports = scene.maxReports
         IN  loop' = [loop EXCEPT !.reports = reports, !.step = IF enough THEN "stop" ELSE "head"]
    /\ UNCHANGED <<Outside, writerVars, filtered, report>>

-----------------------------------------------------------------------------
(* Shutdown: EtwSessionManager::stop, the last drain, NdjsonWriter::stop.  *)

SessionStopUnjoined ==   \* Mutant: the consumers are not joined.
    /\ loop.step = "stop"
    /\ running' = FALSE /\ Go("drainLast")
    /\ UNCHANGED <<world, writerVars, consumer, last_processed, recorder, engine, filtered,
                   stop_requested, report, reached>>

SessionStop ==
    /\ loop.step = "stop"
    /\ running' = FALSE /\ Go("join")
    /\ UNCHANGED <<world, writerVars, consumer, last_processed, recorder, engine, filtered,
                   stop_requested, report, reached>>

JoinConsumers ==
    /\ loop.step = "join" /\ \A c \in Consumers : consumer[c].step = "exited"
    /\ Go("drainLast")
    /\ UNCHANGED <<Outside, writerVars, engine, filtered, report>>

DrainLast ==
    /\ loop.step = "drainLast" /\ filtered # <<>> /\ scene.stream
    /\ PopFiltered
    /\ UNCHANGED <<Outside, engine, mainVars>>

StopWriter ==
    /\ loop.step = "drainLast" /\ Idle(MAIN) /\ filtered = <<>> /\ scene.stream
    /\ StopAsked /\ Go("joinWriter")
    /\ UNCHANGED <<Outside, engine, filtered, report>>

Finish ==
    /\ \/ loop.step = "joinWriter" /\ StopJoined
       \/ loop.step = "drainLast" /\ ~scene.stream /\ UNCHANGED writerVars
    /\ Go("done")
    /\ UNCHANGED <<Outside, engine, filtered, report>>

Done == loop.step = "done" /\ UNCHANGED vars

-----------------------------------------------------------------------------
OfWriter ==
    /\ \/ \E t \in Threads : PushCell(t) \/ PushPublish(t)
       \/ WorkerTake \/ WorkerWrite \/ WorkerExit
    /\ UNCHANGED <<world, consumer, running, last_processed, recorder, engine, filtered,
                   stop_requested, mainVars, reached>>

OfConsumer(c) == \/ Deliver(c) \/ EmitRecord(c) \/ EmitLine(c) \/ TellEngine(c)
                 \/ RaiseProcessed(c) \/ ConsumerExit(c)

OfMain == \/ LoopHead \/ Drain \/ Poll \/ Wait \/ Snapshot \/ Report
          \/ SessionStop \/ JoinConsumers \/ DrainLast \/ StopWriter \/ Finish

Next == \/ CtrlC \/ OfWriter \/ OfMain \/ Done
        \/ \E c \in Consumers : Log(c) \/ OfConsumer(c)

Spec == Init /\ [][Next]_vars

-----------------------------------------------------------------------------
(* The event stream: every record offered to it is written once, counted   *)
(* as dropped for want of room or of a file, or still on its way; lines    *)
(* are in the order their records drew positions; the files hold lines of  *)
(* the stream in its order, and all of its end while no file operation     *)
(* fails; and nobody pushes once the writer has been told to stop, so that *)
(* a stopped writer has left nothing behind (NdjsonWriter::push,           *)
(* worker_loop, rotate_files, stop; the shutdown of main).                 *)
StreamIntact ==
    /\ AccountedOnce /\ RoomIsUsable /\ WrittenInOrder /\ FilesInOrder /\ FilesHoldTheEnd
    /\ refused = {} /\ (stopped => \A t \in Threads : Idle(t))
    /\ loop.step = "done" => Queued \cup Taken = {} /\ (scene.stream => filtered = <<>>)

InWindow(ts) == report.from <= ts /\ ts <= report.to

(* A report holds every event of its window that a session has logged up   *)
(* to the last one it has finished, for each session, the one that lags    *)
(* too; and if the wait did not time out, a session has finished an event  *)
(* past the end of the window, so that of this session the report lacks    *)
(* nothing (EtwSessionManager::last_processed_qpc, the wait of main).      *)
WindowInReport ==
    loop.step = "report" =>
      /\ report.timely => \E c \in Consumers : report.reached[c] >= report.to
      /\ \A c \in Consumers :
           {ts \in logged[c] : InWindow(ts) /\ ts <= report.reached[c]} \subseteq report.snapshot

(* Once the wait has ended in time, what the sessions have delivered of    *)
(* the window is published ("to guarantee all delivered events with        *)
(* timestamp <= to_qpc are published", on_event_record; "deterministically *)
(* drain post-trigger window", main).                                      *)
Delivered(c) == logged[c] \ {buffers[c][i].ts : i \in DOMAIN buffers[c]}

DeliveredInReport ==
    loop.step = "snapshot" /\ report.timely =>
      \A c \in Consumers : {ts \in Delivered(c) : InWindow(ts)} \subseteq recorder
=============================================================================
