----------------------------- MODULE CliLoopProofs -----------------------------
(***************************************************************************)
(* What the loop of main promises of a report and of the event stream, for *)
(* every scenario, number of sessions and capacity of the writer's queue.  *)
(*                                                                         *)
(* The report: it holds what each session had logged of its window up to   *)
(* the last event the session finished, and the wait for                   *)
(* last_processed_qpc_, which knows nothing of the sessions, ends in time  *)
(* only when for one of them that is the whole window.  The argument       *)
(* follows an event from its session's buffer through the consumer to the  *)
(* recorder.                                                               *)
(*                                                                         *)
(* The stream: each record offered is written, counted as dropped or under *)
(* way, the lines are in order in and across the files, and the shutdown   *)
(* leaves none behind.  The argument follows a record from its thread      *)
(* through the queue's cells to the worker and its files.                  *)
(***************************************************************************)
EXTENDS CliLoop, FiniteSetTheorems, TLAPS

Kinds  == (UNION {s.kinds : s \in Scenarios}) \cup {"NONE"}
Events == [ts : Nat, kind : Kinds]

ConsumerSteps == {"idle", "record", "stream", "engine", "processed", "exited"}
LoopSteps     == {"head", "drain", "wait", "snapshot", "report", "stop", "join", "drainLast",
                  "joinWriter", "done"}

(* The part of the state that the window depends on.                       *)
WorldTypes ==
    /\ scene \in Scenarios /\ clock \in Nat /\ running \in BOOLEAN
    /\ buffers \in [Consumers -> Seq(Events)]
    /\ consumer \in [Consumers -> [step : ConsumerSteps, event : Events]]
    /\ last_processed \in Nat /\ recorder \subseteq Nat
    /\ reached \in [Consumers -> Nat]
    /\ logged \in [Consumers -> SUBSET Nat]

MainTypes ==
    /\ engine \in [state : {"ARMED", "COLLECTING", "FROZEN", "COOLDOWN"}, ts : Nat]
    /\ loop \in [step : LoopSteps, now : Nat, drained : Nat, reports : Nat]
    /\ report \in [from : Int, to : Nat, snapshot : SUBSET Nat, timely : BOOLEAN,
                   reached : [Consumers -> Nat] \cup {NoReport.reached}]

LoopTypes == WorldTypes /\ MainTypes

Holding(c) == consumer[c].step \in {"record", "stream", "engine", "processed"}

(* A session's events are finished in the order they were logged.          *)
OrderOf(c) ==
    /\ \A i \in DOMAIN buffers[c] : reached[c] < buffers[c][i].ts /\ buffers[c][i].ts <= clock
    /\ \A i, j \in DOMAIN buffers[c] : i < j => buffers[c][i].ts < buffers[c][j].ts
    /\ Holding(c) => /\ reached[c] < consumer[c].event.ts /\ consumer[c].event.ts <= clock
                     /\ \A i \in DOMAIN buffers[c] : consumer[c].event.ts < buffers[c][i].ts
    /\ reached[c] <= clock /\ \A ts \in logged[c] : ts <= clock

InOrder == \A c \in Consumers : OrderOf(c)

Buffered(c, ts) == \E i \in DOMAIN buffers[c] : buffers[c][i].ts = ts

(* Until the sessions are stopped, nothing logged is lost on the way.      *)
NothingLost ==
    /\ running <=> loop.step \notin {"join", "drainLast", "joinWriter", "done"}
    /\ running => \A c \in Consumers : \A ts \in logged[c] :
         \/ ts \in recorder \/ Buffered(c, ts)
         \/ consumer[c].step = "record" /\ consumer[c].event.ts = ts

Within(S) == {ts \in S : report.from <= ts /\ ts <= report.to}

-----------------------------------------------------------------------------
(* Types.                                                                  *)

LEMMA WorldTypesInit == Init => WorldTypes
<1> SUFFICES ASSUME Init PROVE WorldTypes
  OBVIOUS
<1>1. NoEvent \in Events
  <2>1. "NONE" \in Kinds
    BY Zenon DEF Kinds
  <2> QED
    BY <2>1 DEF NoEvent, Events
<1>2. <<>> \in Seq(Events)
  OBVIOUS
<1> QED
  BY <1>1, <1>2 DEF Init, WorldTypes, ConsumerSteps

LEMMA MainTypesInit == Init => MainTypes
<1> SUFFICES ASSUME Init PROVE MainTypes
  OBVIOUS
<1>1. NoReport \in [from : Int, to : Nat, snapshot : SUBSET Nat, timely : BOOLEAN,
                    reached : [Consumers -> Nat] \cup {NoReport.reached}]
  BY DEF NoReport
<1> QED
  BY <1>1 DEF Init, MainTypes, LoopSteps

LEMMA LargerType ==
  ASSUME NEW a \in Int, NEW b \in Int
  PROVE  /\ Larger(a, b) \in {a, b} /\ Larger(a, b) >= a /\ Larger(a, b) >= b
         /\ Larger(a, b) \in Int /\ (a \in Nat => Larger(a, b) \in Nat)
  BY DEF Larger

(* What a step of a consumer does to it.                                   *)
LEMMA StepToType ==
  ASSUME WorldTypes, NEW c \in Consumers, NEW step \in ConsumerSteps, StepTo(c, step)
  PROVE  /\ consumer' \in [Consumers -> [step : ConsumerSteps, event : Events]]
         /\ consumer'[c].step = step /\ consumer'[c].event = consumer[c].event
         /\ \A d \in Consumers : d # c => consumer'[d] = consumer[d]
<1>1. consumer[c] \in [step : ConsumerSteps, event : Events]
  BY DEF WorldTypes
<1>2. [consumer[c] EXCEPT !.step = step] \in [step : ConsumerSteps, event : Events]
  BY <1>1
<1>3. consumer' = [consumer EXCEPT ![c] = [consumer[c] EXCEPT !.step = step]]
  BY DEF StepTo
<1> QED
  BY <1>1, <1>2, <1>3 DEF WorldTypes

(* The steps of the consumers, one of which each is a change to the world. *)
LEMMA WorldTypesNext == WorldTypes /\ [Next]_vars => WorldTypes'
<1> SUFFICES ASSUME WorldTypes, [Next]_vars PROVE WorldTypes'
  OBVIOUS
<1> USE DEF world
<1>1. CASE UNCHANGED <<world, consumer, last_processed, recorder, reached>> /\ running' \in BOOLEAN
  BY <1>1 DEF WorldTypes
<1>2. CASE CtrlC \/ OfWriter \/ Done \/ UNCHANGED vars
  BY <1>1, <1>2 DEF CtrlC, OfWriter, Done, vars, WorldTypes
<1>3. CASE OfMain
  BY <1>1, <1>3 DEF OfMain, Outside, LoopHead, Drain, Poll, Wait, Snapshot, Report, SessionStop,
                   JoinConsumers, DrainLast, StopWriter, Finish, WorldTypes
<1>4. ASSUME NEW c \in Consumers, Log(c) PROVE WorldTypes'
  <2>1. PICK kind \in scene.kinds :
          buffers' = [buffers EXCEPT ![c] = Append(@, [ts |-> clock + 1, kind |-> kind])]
    BY <1>4 DEF Log
  <2>2. [ts |-> clock + 1, kind |-> kind] \in Events
    BY DEF WorldTypes, Events, Kinds
  <2>3. buffers' \in [Consumers -> Seq(Events)] /\ logged' \in [Consumers -> SUBSET Nat]
    BY <1>4, <2>1, <2>2 DEF Log, WorldTypes
  <2> QED
    BY <1>4, <2>3 DEF Log, WorldTypes
<1>5. ASSUME NEW c \in Consumers, Deliver(c) PROVE WorldTypes'
  <2>1. Head(buffers[c]) \in Events /\ Tail(buffers[c]) \in Seq(Events)
    BY <1>5 DEF Deliver, WorldTypes
  <2>2. [step |-> "record", event |-> Head(buffers[c])] \in [step : ConsumerSteps, event : Events]
    BY <2>1 DEF ConsumerSteps
  <2> QED
    BY <1>5, <2>1, <2>2 DEF Deliver, WorldTypes
<1>6. ASSUME NEW c \in Consumers, EmitRecord(c) \/ EmitLine(c) \/ TellEngine(c) \/ ConsumerExit(c)
      PROVE  WorldTypes'
  <2>1. consumer' \in [Consumers -> [step : ConsumerSteps, event : Events]]
    BY <1>6, StepToType DEF EmitRecord, EmitLine, TellEngine, ConsumerExit, ConsumerSteps
  <2>2. consumer[c].event.ts \in Nat
    BY DEF WorldTypes, Events
  <2>3. recorder' \subseteq Nat
    BY <1>6, <2>2 DEF WorldTypes, EmitRecord, EmitLine, TellEngine, ConsumerExit
  <2> QED
    BY <1>6, <2>1, <2>3 DEF WorldTypes, EmitRecord, EmitLine, TellEngine, ConsumerExit
<1>7. ASSUME NEW c \in Consumers, RaiseProcessed(c) PROVE WorldTypes'
  <2>1. consumer' \in [Consumers -> [step : ConsumerSteps, event : Events]]
    BY <1>7, StepToType DEF RaiseProcessed, ConsumerSteps
  <2>2. consumer[c].event.ts \in Nat
    BY DEF WorldTypes, Events
  <2>3. last_processed' \in Nat
    BY <1>7, <2>2 DEF RaiseProcessed, Larger, WorldTypes
  <2>4. reached' \in [Consumers -> Nat]
    BY <1>7, <2>2 DEF RaiseProcessed, WorldTypes
  <2> QED
    BY <1>7, <2>1, <2>3, <2>4 DEF RaiseProcessed, WorldTypes
<1> QED
  BY <1>2, <1>3, <1>4, <1>5, <1>6, <1>7 DEF Next, OfConsumer

(* Go moves the loop and clears its locals.                                *)
LEMMA GoType ==
  ASSUME MainTypes, NEW step \in LoopSteps, Go(step)
  PROVE  /\ loop' \in [step : LoopSteps, now : Nat, drained : Nat, reports : Nat]
         /\ loop'.step = step
  BY DEF MainTypes, Go

LEMMA MainTypesNext == WorldTypes /\ MainTypes /\ [Next]_vars => MainTypes'
<1> SUFFICES ASSUME WorldTypes, MainTypes, [Next]_vars PROVE MainTypes'
  OBVIOUS
<1> USE DEF mainVars
<1>1. CASE UNCHANGED <<engine, loop, report>>
  BY <1>1 DEF MainTypes
<1>2. ASSUME NEW c \in Consumers, TellEngine(c) PROVE MainTypes'
  <2>1. consumer[c].event.ts \in Nat
    BY DEF WorldTypes, Events
  <2>2. engine' \in [state : {"ARMED", "COLLECTING", "FROZEN", "COOLDOWN"}, ts : Nat]
    BY <1>2, <2>1 DEF TellEngine, Trigger, MainTypes
  <2> QED
    BY <1>2, <2>2 DEF TellEngine, MainTypes
<1>3. ASSUME NEW c \in Consumers, Log(c) \/ OfConsumer(c), ~TellEngine(c) PROVE MainTypes'
  BY <1>1, <1>3 DEF Log, OfConsumer, Deliver, EmitRecord, EmitLine, RaiseProcessed, ConsumerExit
<1>4. CASE CtrlC \/ OfWriter \/ Done \/ UNCHANGED vars
  BY <1>1, <1>4 DEF CtrlC, OfWriter, Done, vars
<1>5. CASE LoopHead
  <2>1. loop' \in [step : LoopSteps, now : Nat, drained : Nat, reports : Nat]
    <3>1. CASE loop' = [loop EXCEPT !.step = "stop"]
      BY <3>1 DEF MainTypes, LoopSteps
    <3>2. CASE loop' = [loop EXCEPT !.step = "drain", !.now = clock]
      BY <3>2 DEF MainTypes, WorldTypes, LoopSteps
    <3> QED
      BY <1>5, <3>1, <3>2 DEF LoopHead
  <2> QED
    BY <1>5, <2>1 DEF LoopHead, MainTypes
<1>11. CASE Drain
  BY <1>11 DEF Drain, MainTypes, LoopSteps
<1>6. CASE Poll
  <2>1. loop' \in [step : LoopSteps, now : Nat, drained : Nat, reports : Nat]
    BY <1>6, GoType DEF Poll, LoopSteps
  <2>2. engine' \in [state : {"ARMED", "COLLECTING", "FROZEN", "COOLDOWN"}, ts : Nat]
    BY <1>6 DEF Poll, MainTypes
  <2>3. CASE UNCHANGED report
    BY <2>1, <2>2, <2>3 DEF MainTypes
  <2>4. CASE report' = [NoReport EXCEPT !.from = Larger(0, engine.ts - PRE), !.to = engine.ts + POST]
    <3>1. Larger(0, engine.ts - PRE) \in Int /\ engine.ts + POST \in Nat
      BY LoopAssumption DEF MainTypes, Larger
    <3>2. report' = [from |-> Larger(0, engine.ts - PRE), to |-> engine.ts + POST, snapshot |-> {},
                     timely |-> FALSE, reached |-> NoReport.reached]
      BY <2>4 DEF NoReport
    <3> QED
      BY <2>1, <2>2, <3>1, <3>2 DEF MainTypes
  <2> QED
    BY <1>6, <2>3, <2>4 DEF Poll
<1>7. CASE Wait
  <2>1. loop' \in [step : LoopSteps, now : Nat, drained : Nat, reports : Nat]
    BY <1>7, GoType DEF Wait, LoopSteps
  <2> QED
    BY <1>7, <2>1 DEF Wait, MainTypes
<1>8. CASE Snapshot
  <2>1. loop' \in [step : LoopSteps, now : Nat, drained : Nat, reports : Nat]
    BY <1>8, GoType DEF Snapshot, LoopSteps
  <2>2. {ts \in recorder : report.from <= ts /\ ts <= report.to} \in SUBSET Nat
        /\ reached \in [Consumers -> Nat]
    BY DEF WorldTypes
  <2> QED
    BY <1>8, <2>1, <2>2 DEF Snapshot, MainTypes
<1>9. CASE Report
  <2>1. engine' \in [state : {"ARMED", "COLLECTING", "FROZEN", "COOLDOWN"}, ts : Nat]
    BY <1>9, LoopAssumption DEF Report, WorldTypes
  <2>2. loop' \in [step : LoopSteps, now : Nat, drained : Nat, reports : Nat]
    <3>1. PICK saved \in BOOLEAN :
            loop' = [loop EXCEPT !.reports = loop.reports + (IF saved THEN 1 ELSE 0),
                                 !.step = IF saved /\ loop.reports + (IF saved THEN 1 ELSE 0) = scene.maxReports
                                          THEN "stop" ELSE "head"]
      BY <1>9 DEF Report
    <3>2. ASSUME NEW n \in Nat, NEW step \in LoopSteps, loop' = [loop EXCEPT !.reports = n, !.step = step]
          PROVE  loop' \in [step : LoopSteps, now : Nat, drained : Nat, reports : Nat]
      BY <3>2 DEF MainTypes
    <3>3. loop.reports + (IF saved THEN 1 ELSE 0) \in Nat
      BY DEF MainTypes
    <3> QED
      BY <3>1, <3>2, <3>3 DEF LoopSteps
  <2> QED
    BY <1>9, <2>1, <2>2 DEF Report, MainTypes
<1>10. CASE SessionStop \/ JoinConsumers \/ DrainLast \/ StopWriter \/ Finish
  <2>1. loop' \in [step : LoopSteps, now : Nat, drained : Nat, reports : Nat]
    BY <1>10, GoType
       DEF SessionStop, JoinConsumers, DrainLast, StopWriter, Finish, MainTypes, LoopSteps
  <2> QED
    BY <1>10, <2>1 DEF SessionStop, JoinConsumers, DrainLast, StopWriter, Finish, MainTypes
<1> QED
  BY <1>2, <1>3, <1>4, <1>5, <1>6, <1>7, <1>8, <1>9, <1>10, <1>11 DEF Next, OfMain

-----------------------------------------------------------------------------
(* The order of a session's events.                                        *)

LEMMA SessionTypes ==
  ASSUME WorldTypes, NEW c \in Consumers
  PROVE  /\ clock \in Nat /\ reached[c] \in Nat /\ logged[c] \subseteq Nat
         /\ buffers[c] \in Seq(Events) /\ Len(buffers[c]) \in Nat
         /\ DOMAIN buffers[c] = 1 .. Len(buffers[c])
         /\ \A i \in DOMAIN buffers[c] : buffers[c][i] \in Events /\ buffers[c][i].ts \in Nat
         /\ consumer[c].step \in ConsumerSteps /\ consumer[c].event.ts \in Nat
<1>1. buffers[c] \in Seq(Events) /\ Len(buffers[c]) \in Nat /\ DOMAIN buffers[c] = 1 .. Len(buffers[c])
  BY DEF WorldTypes
<1>2. \A i \in DOMAIN buffers[c] : buffers[c][i] \in Events
  BY <1>1
<1> QED
  BY <1>1, <1>2 DEF WorldTypes, Events

(* A session that nothing is done to stays in order.                       *)
LEMMA OrderKept ==
  ASSUME WorldTypes, WorldTypes', NEW c \in Consumers, OrderOf(c), clock <= clock',
         buffers'[c] = buffers[c], reached'[c] = reached[c], logged'[c] = logged[c],
         Holding(c)' => Holding(c) /\ consumer'[c].event = consumer[c].event
  PROVE  OrderOf(c)'
<1>1. clock \in Nat /\ clock' \in Nat /\ reached[c] \in Nat /\ consumer[c].event.ts \in Nat
  BY SessionTypes DEF WorldTypes
<1>2. \A i \in DOMAIN buffers[c] : buffers[c][i].ts \in Nat /\ buffers[c][i].ts <= clock'
  BY <1>1, SessionTypes DEF OrderOf
<1>3. \A ts \in logged[c] : ts \in Nat /\ ts <= clock'
  BY <1>1, SessionTypes DEF OrderOf
<1>4. Holding(c) => consumer[c].event.ts <= clock'
  BY <1>1 DEF OrderOf
<1>5. reached[c] <= clock'
  BY <1>1 DEF OrderOf
<1> QED
  BY <1>2, <1>3, <1>4, <1>5 DEF OrderOf

LEMMA InOrderNext ==
  ASSUME WorldTypes, InOrder, [Next]_vars
  PROVE  InOrder'
<1> USE DEF world
<1>1. WorldTypes'
  BY WorldTypesNext
<1>2. CASE UNCHANGED <<world, consumer, reached>>
  <2>1. ASSUME NEW c \in Consumers PROVE OrderOf(c)'
    BY <1>1, <1>2, OrderKept DEF InOrder, Holding, WorldTypes
  <2> QED
    BY <2>1 DEF InOrder
<1>3. CASE CtrlC \/ OfWriter \/ Done \/ UNCHANGED vars
  BY <1>2, <1>3 DEF CtrlC, OfWriter, Done, vars
<1>4. CASE OfMain
  BY <1>2, <1>4 DEF OfMain, Outside, LoopHead, Drain, Poll, Wait, Snapshot, Report, SessionStop,
                   JoinConsumers, DrainLast, StopWriter, Finish
<1>5. ASSUME NEW c \in Consumers, NEW d \in Consumers, d # c, Log(c) \/ OfConsumer(c)
      PROVE  OrderOf(d)'
  <2>1. /\ clock <= clock' /\ buffers'[d] = buffers[d] /\ reached'[d] = reached[d]
        /\ logged'[d] = logged[d] /\ consumer'[d] = consumer[d]
    <3>1. CASE Log(c)
      BY <1>5, <3>1, SessionTypes DEF Log, WorldTypes
    <3>2. CASE Deliver(c)
      BY <1>5, <3>2, SessionTypes DEF Deliver, WorldTypes
    <3>3. CASE EmitRecord(c) \/ EmitLine(c) \/ TellEngine(c) \/ ConsumerExit(c)
      BY <1>5, <3>3, SessionTypes, StepToType
         DEF EmitRecord, EmitLine, TellEngine, ConsumerExit, ConsumerSteps
    <3>4. CASE RaiseProcessed(c)
      BY <1>5, <3>4, SessionTypes, StepToType DEF RaiseProcessed, ConsumerSteps, WorldTypes
    <3> QED
      BY <1>5, <3>1, <3>2, <3>3, <3>4 DEF OfConsumer
  <2> QED
    BY <1>1, <2>1, OrderKept DEF InOrder, Holding
<1>6. ASSUME NEW c \in Consumers, Log(c) PROVE OrderOf(c)'
  <2>1. PICK kind \in scene.kinds :
          buffers' = [buffers EXCEPT ![c] = Append(@, [ts |-> clock + 1, kind |-> kind])]
    BY <1>6 DEF Log
  <2> DEFINE new == [ts |-> clock + 1, kind |-> kind]
  <2>2. /\ clock' = clock + 1 /\ reached' = reached /\ consumer' = consumer
        /\ logged'[c] = logged[c] \cup {clock + 1}
        /\ buffers'[c] = Append(buffers[c], new) /\ new.ts = clock + 1
    BY <1>6, <2>1 DEF Log, WorldTypes
  <2> HIDE DEF new
  <2>3. /\ DOMAIN buffers'[c] = DOMAIN buffers[c] \cup {Len(buffers[c]) + 1}
        /\ \A i \in DOMAIN buffers[c] : buffers'[c][i] = buffers[c][i] /\ i < Len(buffers[c]) + 1
        /\ buffers'[c][Len(buffers[c]) + 1] = new
    BY <2>2, SessionTypes
  <2>4. OrderOf(c)
    BY DEF InOrder
  <2>5. clock \in Nat /\ reached[c] \in Nat /\ consumer[c].event.ts \in Nat
    BY SessionTypes
  <2>6. \A i \in DOMAIN buffers'[c] : reached'[c] < buffers'[c][i].ts /\ buffers'[c][i].ts <= clock'
    BY <2>2, <2>3, <2>4, <2>5, SessionTypes DEF OrderOf
  <2>7. ASSUME NEW i \in DOMAIN buffers'[c], NEW j \in DOMAIN buffers'[c], i < j
        PROVE  buffers'[c][i].ts < buffers'[c][j].ts
    <3>1. i \in DOMAIN buffers[c]
      BY <2>3, <2>7, SessionTypes
    <3> QED
      BY <2>2, <2>3, <2>4, <2>5, <2>7, <3>1, SessionTypes DEF OrderOf
  <2>8. Holding(c)' => /\ reached'[c] < consumer'[c].event.ts /\ consumer'[c].event.ts <= clock'
                       /\ \A i \in DOMAIN buffers'[c] : consumer'[c].event.ts < buffers'[c][i].ts
    BY <2>2, <2>3, <2>4, <2>5, SessionTypes DEF OrderOf, Holding
  <2>9. reached'[c] <= clock' /\ \A ts \in logged'[c] : ts <= clock'
    BY <2>2, <2>4, <2>5, SessionTypes DEF OrderOf
  <2> QED
    BY <2>6, <2>7, <2>8, <2>9 DEF OrderOf
<1>7. ASSUME NEW c \in Consumers, Deliver(c) PROVE OrderOf(c)'
  <2>1. /\ clock' = clock /\ reached' = reached /\ logged' = logged /\ ~Holding(c)
        /\ buffers'[c] = Tail(buffers[c]) /\ buffers[c] # <<>>
        /\ Holding(c)' => consumer'[c].event = Head(buffers[c])
    BY <1>7 DEF Deliver, WorldTypes, Holding
  <2>2. /\ Len(buffers[c]) > 0 /\ Head(buffers[c]) = buffers[c][1] /\ 1 \in DOMAIN buffers[c]
        /\ DOMAIN buffers'[c] = 1 .. Len(buffers[c]) - 1
        /\ \A i \in DOMAIN buffers'[c] : i + 1 \in DOMAIN buffers[c] /\ i \in Nat
                                         /\ 1 < i + 1 /\ buffers'[c][i] = buffers[c][i + 1]
    BY <2>1, SessionTypes
  <2>3. OrderOf(c)
    BY DEF InOrder
  <2>4. \A i, j \in DOMAIN buffers'[c] : i < j => buffers'[c][i].ts < buffers'[c][j].ts
    BY <2>2, <2>3, SMTT(30) DEF OrderOf
  <2> QED
    BY <2>1, <2>2, <2>3, <2>4 DEF OrderOf
<1>8. ASSUME NEW c \in Consumers, EmitRecord(c) \/ EmitLine(c) \/ TellEngine(c) \/ ConsumerExit(c)
      PROVE  OrderOf(c)'
  <2>1. /\ UNCHANGED <<world, reached>>
        /\ Holding(c)' => Holding(c) /\ consumer'[c].event = consumer[c].event
    BY <1>8, StepToType
       DEF EmitRecord, EmitLine, TellEngine, ConsumerExit, Holding, ConsumerSteps
  <2> QED
    BY <1>1, <2>1, OrderKept DEF InOrder, WorldTypes
<1>9. ASSUME NEW c \in Consumers, RaiseProcessed(c) PROVE OrderOf(c)'
  <2>1. /\ UNCHANGED world /\ reached'[c] = consumer[c].event.ts /\ Holding(c) /\ ~Holding(c)'
    BY <1>9, StepToType DEF RaiseProcessed, Holding, ConsumerSteps, WorldTypes
  <2>2. OrderOf(c)
    BY DEF InOrder
  <2> QED
    BY <2>1, <2>2 DEF OrderOf
<1>10. ASSUME NEW c \in Consumers, Log(c) \/ OfConsumer(c) PROVE InOrder'
  BY <1>5, <1>6, <1>7, <1>8, <1>9, <1>10 DEF InOrder, OfConsumer
<1> QED
  BY <1>3, <1>4, <1>10 DEF Next

-----------------------------------------------------------------------------
(* What was logged reaches the recorder.                                   *)

Tracked(c, ts) ==
    \/ ts \in recorder \/ Buffered(c, ts)
    \/ consumer[c].step = "record" /\ consumer[c].event.ts = ts

Shutdown == {"join", "drainLast", "joinWriter", "done"}

LEMMA RunningNext ==
  ASSUME WorldTypes, MainTypes, NothingLost, [Next]_vars
  PROVE  (running <=> loop.step \notin Shutdown)' /\ (running' => running)
<1> USE DEF mainVars, Shutdown
<1>1. CASE UNCHANGED <<running, loop>>
  BY <1>1 DEF NothingLost
<1>2. CASE CtrlC \/ OfWriter \/ Done \/ UNCHANGED vars
  BY <1>1, <1>2 DEF CtrlC, OfWriter, Done, vars
<1>3. ASSUME NEW c \in Consumers, Log(c) \/ OfConsumer(c) PROVE UNCHANGED <<running, loop>>
  BY <1>3 DEF Log, OfConsumer, Deliver, EmitRecord, EmitLine, TellEngine, RaiseProcessed, ConsumerExit
<1>4. ASSUME NEW step \in LoopSteps, Go(step) PROVE loop'.step = step
  BY <1>4, GoType
<1>5. CASE LoopHead \/ Drain
  BY <1>5, ZenonT(30) DEF LoopHead, Drain, Outside, NothingLost, MainTypes
<1>6. CASE Poll \/ Wait \/ Snapshot
  <2>1. loop'.step \in {"wait", "head", "snapshot", "report"}
    BY <1>4, <1>6 DEF Poll, Wait, Snapshot, LoopSteps
  <2>2. loop.step \in {"drain", "wait", "snapshot"} /\ UNCHANGED running
    BY <1>6 DEF Poll, Wait, Snapshot, Outside
  <2> QED
    BY <2>1, <2>2 DEF NothingLost
<1>7. CASE Report
  <2>1. loop'.step \in {"stop", "head"}
    BY <1>7 DEF Report, MainTypes
  <2>2. loop.step = "report" /\ UNCHANGED running
    BY <1>7 DEF Report, Outside
  <2> QED
    BY <2>1, <2>2 DEF NothingLost
<1>8. CASE SessionStop
  BY <1>4, <1>8 DEF SessionStop, LoopSteps, NothingLost
<1>9. CASE JoinConsumers \/ StopWriter \/ Finish
  <2>1. loop'.step \in Shutdown /\ loop.step \in Shutdown /\ UNCHANGED running
    BY <1>4, <1>9 DEF JoinConsumers, StopWriter, Finish, Outside, LoopSteps
  <2> QED
    BY <2>1 DEF NothingLost
<1>10. CASE DrainLast
  BY <1>1, <1>10 DEF DrainLast, Outside
<1> QED
  BY <1>1, <1>2, <1>3, <1>5, <1>6, <1>7, <1>8, <1>9, <1>10 DEF Next, OfMain

LEMMA TrackedNext ==
  ASSUME WorldTypes, NothingLost, [Next]_vars, running, NEW c \in Consumers, NEW ts \in logged'[c]
  PROVE  Tracked(c, ts)'
<1> USE DEF world
<1>1. ts \in logged[c] => Tracked(c, ts)
  BY DEF NothingLost, Tracked
<1>2. CASE UNCHANGED <<buffers, consumer, recorder, logged>>
  BY <1>1, <1>2 DEF Tracked, Buffered
<1>3. CASE CtrlC \/ OfWriter \/ Done \/ UNCHANGED vars
  BY <1>2, <1>3 DEF CtrlC, OfWriter, Done, vars
<1>4. CASE OfMain
  BY <1>2, <1>4 DEF OfMain, Outside, LoopHead, Drain, Poll, Wait, Snapshot, Report, SessionStop,
                   JoinConsumers, DrainLast, StopWriter, Finish
<1>5. ASSUME NEW d \in Consumers, Log(d) PROVE Tracked(c, ts)'
  <2>1. PICK kind \in scene.kinds :
          buffers' = [buffers EXCEPT ![d] = Append(@, [ts |-> clock + 1, kind |-> kind])]
    BY <1>5 DEF Log
  <2> DEFINE new == [ts |-> clock + 1, kind |-> kind]
  <2>2. UNCHANGED <<consumer, recorder>> /\ new.ts = clock + 1
    BY <1>5 DEF Log
  <2>3. CASE c # d
    <3>1. buffers'[c] = buffers[c] /\ logged'[c] = logged[c]
      BY <1>5, <2>1, <2>3 DEF Log, WorldTypes
    <3> QED
      BY <1>1, <2>2, <3>1 DEF Tracked, Buffered
  <2>4. CASE c = d
    <3>1. logged'[c] = logged[c] \cup {new.ts} /\ buffers'[c] = Append(buffers[c], new)
      BY <1>5, <2>1, <2>4 DEF Log, WorldTypes
    <3> HIDE DEF new
    <3>2. /\ DOMAIN buffers'[c] = DOMAIN buffers[c] \cup {Len(buffers[c]) + 1}
          /\ \A i \in DOMAIN buffers[c] : buffers'[c][i] = buffers[c][i]
          /\ buffers'[c][Len(buffers[c]) + 1] = new
      BY <3>1, SessionTypes
    <3>3. CASE ts = new.ts
      BY <3>2, <3>3 DEF Tracked, Buffered
    <3>4. CASE ts \in logged[c]
      BY <1>1, <2>2, <3>2, <3>4 DEF Tracked, Buffered
    <3> QED
      BY <3>1, <3>3, <3>4
  <2> QED
    BY <2>3, <2>4
<1>6. ASSUME NEW d \in Consumers, Deliver(d) PROVE Tracked(c, ts)'
  <2>1. /\ logged' = logged /\ recorder' = recorder
        /\ buffers' = [buffers EXCEPT ![d] = Tail(@)] /\ consumer[d].step = "idle" /\ buffers[d] # <<>>
        /\ consumer' = [consumer EXCEPT ![d] = [step |-> "record", event |-> Head(buffers[d])]]
    BY <1>6 DEF Deliver
  <2>2. CASE c # d
    <3>1. buffers'[c] = buffers[c] /\ consumer'[c] = consumer[c]
      BY <2>1, <2>2 DEF WorldTypes
    <3> QED
      BY <1>1, <2>1, <3>1 DEF Tracked, Buffered
  <2>3. CASE c = d
    <3>1. /\ consumer'[c].step = "record" /\ consumer'[c].event = Head(buffers[c])
          /\ buffers'[c] = Tail(buffers[c]) /\ buffers[c] # <<>> /\ consumer[c].step = "idle"
      BY <2>1, <2>3 DEF WorldTypes
    <3>2. /\ Head(buffers[c]) = buffers[c][1]
          /\ \A i \in DOMAIN buffers[c] :
               i # 1 => i - 1 \in DOMAIN buffers'[c] /\ buffers'[c][i - 1] = buffers[c][i]
      BY <3>1, SessionTypes
    <3>3. ts \in recorder \/ Buffered(c, ts)
      BY <1>1, <2>1, <3>1 DEF Tracked
    <3>4. CASE Buffered(c, ts)
      <4>1. PICK i \in DOMAIN buffers[c] : buffers[c][i].ts = ts
        BY <3>4 DEF Buffered
      <4> QED
        BY <3>1, <3>2, <4>1 DEF Tracked, Buffered
    <3> QED
      BY <2>1, <3>3, <3>4 DEF Tracked
  <2> QED
    BY <2>2, <2>3
<1>7. ASSUME NEW d \in Consumers, EmitRecord(d) PROVE Tracked(c, ts)'
  <2>1. /\ logged' = logged /\ buffers' = buffers /\ recorder' = recorder \cup {consumer[d].event.ts}
        /\ \A e \in Consumers : e # d => consumer'[e] = consumer[e]
    BY <1>7, StepToType DEF EmitRecord, ConsumerSteps
  <2> QED
    BY <1>1, <2>1 DEF Tracked, Buffered
<1>8. ASSUME NEW d \in Consumers,
             EmitLine(d) \/ TellEngine(d) \/ RaiseProcessed(d) \/ ConsumerExit(d)
      PROVE  Tracked(c, ts)'
  <2>1. /\ logged' = logged /\ buffers' = buffers /\ recorder' = recorder
        /\ consumer[d].step # "record"
        /\ \A e \in Consumers : e # d => consumer'[e] = consumer[e]
    BY <1>8, StepToType DEF EmitLine, TellEngine, RaiseProcessed, ConsumerExit, ConsumerSteps
  <2> QED
    BY <1>1, <2>1 DEF Tracked, Buffered
<1> QED
  BY <1>3, <1>4, <1>5, <1>6, <1>7, <1>8 DEF Next, OfConsumer

LEMMA NothingLostNext ==
  ASSUME WorldTypes, MainTypes, NothingLost, [Next]_vars
  PROVE  NothingLost'
<1>1. (running <=> loop.step \notin Shutdown)' /\ (running' => running)
  BY RunningNext
<1>2. ASSUME running', NEW c \in Consumers, NEW ts \in logged'[c] PROVE Tracked(c, ts)'
  BY <1>1, <1>2, TrackedNext
<1> QED
  BY <1>1, <1>2 DEF NothingLost, Tracked, Shutdown

-----------------------------------------------------------------------------
(* The wait and the snapshot of a report.                                  *)

AfterAMark == \E c \in Consumers : last_processed <= reached[c]

LEMMA MarksNext ==
  ASSUME WorldTypes, InOrder, AfterAMark, [Next]_vars
  PROVE  AfterAMark' /\ last_processed <= last_processed'
<1> USE DEF world
<1>1. last_processed \in Nat /\ \A c \in Consumers : reached[c] \in Nat
  BY DEF WorldTypes
<1>2. CASE UNCHANGED <<last_processed, reached>>
  BY <1>1, <1>2 DEF AfterAMark
<1>3. CASE CtrlC \/ OfWriter \/ Done \/ UNCHANGED vars
  BY <1>2, <1>3 DEF CtrlC, OfWriter, Done, vars
<1>4. CASE OfMain
  BY <1>2, <1>4 DEF OfMain, Outside, LoopHead, Drain, Poll, Wait, Snapshot, Report, SessionStop,
                   JoinConsumers, DrainLast, StopWriter, Finish
<1>5. ASSUME NEW d \in Consumers, Log(d) \/ OfConsumer(d), ~RaiseProcessed(d)
      PROVE  UNCHANGED <<last_processed, reached>>
  BY <1>5 DEF Log, OfConsumer, Deliver, EmitRecord, EmitLine, TellEngine, ConsumerExit
<1>6. ASSUME NEW d \in Consumers, RaiseProcessed(d)
      PROVE  AfterAMark' /\ last_processed <= last_processed'
  <2>1. /\ last_processed' = Larger(last_processed, consumer[d].event.ts)
        /\ reached'[d] = consumer[d].event.ts /\ consumer[d].event.ts \in Nat
        /\ reached[d] < consumer[d].event.ts
        /\ \A c \in Consumers : c # d => reached'[c] = reached[c]
    BY <1>6, SessionTypes DEF RaiseProcessed, WorldTypes, InOrder, OrderOf, Holding
  <2>2. last_processed <= last_processed' /\ last_processed' \in {last_processed, reached'[d]}
    BY <1>1, <2>1, LargerType
  <2>3. PICK c \in Consumers : last_processed <= reached[c]
    BY DEF AfterAMark
  <2>4. last_processed <= reached'[c]
    <3>1. CASE c = d
      BY <1>1, <2>1, <2>3, <3>1
    <3>2. CASE c # d
      BY <2>1, <2>3, <3>2
    <3> QED
      BY <3>1, <3>2
  <2>5. CASE last_processed' = last_processed
    BY <2>2, <2>4, <2>5 DEF AfterAMark
  <2>6. CASE last_processed' = reached'[d]
    <3>1. last_processed' <= reached'[d]
      BY <2>1, <2>6
    <3> QED
      BY <2>2, <3>1 DEF AfterAMark
  <2> QED
    BY <2>2, <2>5, <2>6
<1> QED
  BY <1>2, <1>3, <1>4, <1>5, <1>6 DEF Next

(* Between the wait and the snapshot the mark only rises; the snapshot     *)
(* takes all that lies behind the marks.  What is logged later is newer    *)
(* than every mark.                                                        *)
WaitedFor == loop.step = "snapshot" /\ report.timely => last_processed >= report.to

Finished(c) == {ts \in logged[c] : InWindow(ts) /\ ts <= report.reached[c]}

Complete(c) == Finished(c) \subseteq report.snapshot /\ report.reached[c] <= clock

SnapshotFull ==
    loop.step = "report" =>
      /\ report.reached \in [Consumers -> Nat]
      /\ report.timely => \E c \in Consumers : report.reached[c] >= report.to
      /\ \A c \in Consumers : Complete(c)

LEMMA SnapshotTaken ==
  ASSUME LoopTypes, LoopTypes', InOrder, NothingLost, AfterAMark, WaitedFor, Snapshot
  PROVE  SnapshotFull'
<1> USE DEF LoopTypes, world
<1>1. /\ report' = [report EXCEPT !.snapshot = {ts \in recorder : report.from <= ts /\ ts <= report.to},
                                  !.reached = reached]
      /\ loop.step = "snapshot" /\ running /\ UNCHANGED <<logged, clock>>
  BY DEF Snapshot, NothingLost, Outside
<1>2. /\ report'.snapshot = Within(recorder) /\ report'.reached = reached
      /\ report'.from = report.from /\ report'.to = report.to /\ report'.timely = report.timely
      /\ report.to \in Nat /\ last_processed \in Nat /\ reached \in [Consumers -> Nat]
  BY <1>1 DEF MainTypes, WorldTypes, Within
<1>3. report.timely => \E c \in Consumers : reached[c] >= report.to
  <2>1. PICK c \in Consumers : last_processed <= reached[c]
    BY DEF AfterAMark
  <2>2. report.timely => reached[c] >= report.to
    BY <1>1, <1>2, <2>1 DEF WaitedFor
  <2> QED
    BY <2>2
<1>4. ASSUME NEW c \in Consumers, NEW ts \in logged[c], ts <= reached[c]
      PROVE  ts \in recorder
  <2>1. ts \in logged[c] /\ ts \in Nat /\ reached[c] \in Nat
    BY <1>2, <1>4, SessionTypes
  <2>2. ts <= reached[c]
    BY <1>4
  <2>3. ~ Buffered(c, ts)
    BY <2>1, <2>2, SessionTypes DEF InOrder, OrderOf, Buffered
  <2>4. ~ (consumer[c].step = "record" /\ consumer[c].event.ts = ts)
    BY <2>1, <2>2, SessionTypes DEF InOrder, OrderOf, Holding
  <2> QED
    BY <1>1, <2>1, <2>3, <2>4 DEF NothingLost
<1>5. ASSUME NEW c \in Consumers PROVE Complete(c)'
  <2>1. \A ts \in logged[c] : ts <= reached[c] => ts \in recorder
    BY <1>4, <1>5
  <2>2. reached[c] <= clock
    BY DEF InOrder, OrderOf
  <2> QED
    BY <1>1, <1>2, <2>1, <2>2 DEF Complete, Finished, InWindow, Within
<1> QED
  BY <1>2, <1>3, <1>5 DEF SnapshotFull

LEMMA WindowNext ==
  ASSUME LoopTypes, LoopTypes', InOrder, NothingLost, AfterAMark, WaitedFor, SnapshotFull, [Next]_vars
  PROVE  WaitedFor' /\ SnapshotFull'
<1> USE DEF LoopTypes, world, mainVars
<1>1. last_processed <= last_processed' /\ last_processed \in Nat /\ last_processed' \in Nat
      /\ report.to \in Nat /\ clock \in Nat
  BY MarksNext DEF WorldTypes, MainTypes
<1>2. CASE UNCHANGED <<loop, report, clock, logged>>
  <2>1. WaitedFor'
    BY <1>1, <1>2 DEF WaitedFor
  <2>2. SnapshotFull'
    BY <1>2 DEF SnapshotFull, Complete, Finished, InWindow
  <2> QED
    BY <2>1, <2>2
<1>3. CASE CtrlC \/ OfWriter \/ Done \/ UNCHANGED vars
  BY <1>2, <1>3 DEF CtrlC, OfWriter, Done, vars
<1>4. ASSUME NEW d \in Consumers, OfConsumer(d) PROVE WaitedFor' /\ SnapshotFull'
  BY <1>2, <1>4
     DEF OfConsumer, Deliver, EmitRecord, EmitLine, TellEngine, RaiseProcessed, ConsumerExit
<1>5. ASSUME NEW d \in Consumers, Log(d) PROVE WaitedFor' /\ SnapshotFull'
  <2>1. /\ UNCHANGED <<loop, report, last_processed>> /\ clock' = clock + 1
        /\ \A c \in Consumers : logged'[c] \subseteq logged[c] \cup {clock + 1}
    BY <1>5 DEF Log, WorldTypes
  <2>2. ASSUME loop.step = "report", NEW c \in Consumers PROVE Complete(c)'
    <3>1. Complete(c) /\ report.reached[c] \in Nat
      BY <2>2 DEF SnapshotFull
    <3>2. clock + 1 > report.reached[c]
      BY <1>1, <3>1 DEF Complete
    <3>3. Finished(c) \subseteq report.snapshot /\ report.reached[c] <= clock'
      BY <1>1, <2>1, <3>1 DEF Complete
    <3>4. ~ clock + 1 <= report.reached[c] /\ report' = report
      BY <1>1, <2>1, <3>1, <3>2
    <3>5. Finished(c)' \subseteq Finished(c)
      BY <2>1, <3>4 DEF Finished, InWindow
    <3> QED
      BY <2>1, <3>3, <3>5 DEF Complete
  <2> QED
    BY <2>1, <2>2 DEF WaitedFor, SnapshotFull
<1>6. ASSUME loop'.step \notin {"snapshot", "report"} PROVE WaitedFor' /\ SnapshotFull'
  BY <1>6 DEF WaitedFor, SnapshotFull
<1>7. ASSUME NEW step \in LoopSteps, Go(step) PROVE loop'.step = step
  BY <1>7, GoType
<1>8. CASE LoopHead \/ Drain
  BY <1>6, <1>8 DEF LoopHead, Drain, MainTypes
<1>9. CASE Poll
  BY <1>6, <1>7, <1>9 DEF Poll, LoopSteps
<1>10. CASE Wait
  <2>1. loop'.step = "snapshot" /\ last_processed' = last_processed
    BY <1>7, <1>10 DEF Wait, Outside, LoopSteps
  <2>2. report'.timely => last_processed >= report'.to
    BY <1>10 DEF Wait, MainTypes
  <2> QED
    BY <2>1, <2>2 DEF WaitedFor, SnapshotFull
<1>11. CASE Snapshot
  <2>1. loop'.step = "report"
    BY <1>7, <1>11 DEF Snapshot, LoopSteps
  <2> QED
    BY <1>11, <2>1, SnapshotTaken DEF WaitedFor
<1>12. CASE Report
  BY <1>6, <1>12 DEF Report, MainTypes
<1>13. CASE SessionStop \/ JoinConsumers \/ StopWriter \/ Finish
  BY <1>6, <1>7, <1>13 DEF SessionStop, JoinConsumers, StopWriter, Finish, LoopSteps
<1>14. CASE DrainLast
  BY <1>6, <1>14 DEF DrainLast
<1> QED
  BY <1>3, <1>4, <1>5, <1>8, <1>9, <1>10, <1>11, <1>12, <1>13, <1>14 DEF Next, OfMain

LoopInv == LoopTypes /\ InOrder /\ NothingLost /\ AfterAMark /\ WaitedFor /\ SnapshotFull

LEMMA LoopInvInit == Init => LoopInv
<1> SUFFICES ASSUME Init PROVE LoopInv
  OBVIOUS
<1>1. LoopTypes
  BY WorldTypesInit, MainTypesInit DEF LoopTypes
<1>2. InOrder
  BY DEF Init, InOrder, OrderOf, Holding
<1>3. NothingLost /\ WaitedFor /\ SnapshotFull
  BY DEF Init, NothingLost, WaitedFor, SnapshotFull
<1>4. AfterAMark
  BY DEF Init, AfterAMark, Consumers
<1> QED
  BY <1>1, <1>2, <1>3, <1>4 DEF LoopInv

LEMMA LoopInvNext == LoopInv /\ [Next]_vars => LoopInv'
<1> SUFFICES ASSUME LoopInv, [Next]_vars PROVE LoopInv'
  OBVIOUS
<1>1. LoopTypes'
  BY WorldTypesNext, MainTypesNext DEF LoopInv, LoopTypes
<1> QED
  BY <1>1, InOrderNext, NothingLostNext, MarksNext, WindowNext DEF LoopInv, LoopTypes

(* A report holds all that each session had logged of the window up to the *)
(* last event it finished, and one that did not time out holds all of the  *)
(* window for at least one session (on_event_record, the wait for          *)
(* last_processed_qpc_ in main).                                           *)
THEOREM WindowAlwaysInReport == Spec => []WindowInReport
<1>1. LoopInv => WindowInReport
  BY DEF LoopInv, SnapshotFull, Complete, Finished, WindowInReport
<1> QED
  BY <1>1, LoopInvInit, LoopInvNext, PTL DEF Spec

-----------------------------------------------------------------------------
(* The event stream.  The invariant, part by part: the positions of the    *)
(* queue and who holds each, where every record is, what the files hold,   *)
(* which records are still to be offered, and the order of the shutdown.   *)

Records      == [from : Threads, ts : Nat]
PushStates   == [step : {"idle", "cell", "publish"}, pos : Nat, rec : Records \cup {NoRecord}]
WorkerStates == [step : {"take", "write", "exited"}, pos : Nat]

(* The oldest position that is not free again.                             *)
Low == IF worker.step = "write" THEN dequeue_pos - 1 ELSE dequeue_pos

QueueTypes ==
    /\ cells \in [0 .. RING_CAPACITY - 1 -> [sequence : Nat, record : Records \cup {NoRecord}]]
    /\ enqueue_pos \in Nat /\ dequeue_pos \in Nat
    /\ pushing \in [Threads -> PushStates] /\ worker \in WorkerStates
    /\ tickets \in Seq(Records)

(* The positions from Low on are in use, up to enqueue_pos, and then free; *)
(* a thread that publishes has a position in use to itself.                *)
Positions ==
    /\ Len(tickets) = enqueue_pos /\ Low \in Nat
    /\ dequeue_pos <= enqueue_pos /\ enqueue_pos <= Low + RING_CAPACITY
    /\ worker.step = "write" => worker.pos = Low /\ Cell(Low).sequence = Low + 1

InUse ==
    \A p \in Low .. enqueue_pos - 1 :
       \/ Cell(p).sequence = p
       \/ Cell(p).sequence = p + 1 /\ Cell(p).record = tickets[p + 1]

Free == \A p \in enqueue_pos .. Low + RING_CAPACITY - 1 : Cell(p).sequence = p

Publishing ==
    /\ \A t \in Threads : pushing[t].step = "publish" =>
         /\ pushing[t].pos \in Low .. enqueue_pos - 1
         /\ Cell(pushing[t].pos).sequence = pushing[t].pos
         /\ pushing[t].rec = tickets[pushing[t].pos + 1]
    /\ \A t, u \in Threads :
         pushing[t].step = "publish" /\ pushing[u].step = "publish" /\ t # u
           => pushing[t].pos # pushing[u].pos

QueueInv == QueueTypes /\ Positions /\ InUse /\ Free /\ Publishing

(* Where the records are: a record under way is of its thread and new; the *)
(* records past Low are not lost, and those before it are written or lost. *)
AccountTypes ==
    /\ written \in Seq(Records) /\ lost \subseteq Records /\ IsFiniteSet(lost)
    /\ dropped_records = Cardinality(lost) /\ refused = {}

Offered ==
    /\ \A i, j \in DOMAIN tickets : i # j => tickets[i] # tickets[j]
    /\ \A t \in Threads : pushing[t].step = "cell" =>
         /\ pushing[t].rec \in Records /\ pushing[t].rec.from = t
         /\ pushing[t].rec \notin ToSet(tickets) \cup lost

Gone ==
    /\ \A i \in DOMAIN tickets : i > Low => tickets[i] \notin lost
    /\ \A i \in DOMAIN written : written[i] \notin lost
    /\ \A i \in DOMAIN written : \E k \in 1 .. Low : tickets[k] = written[i]
    /\ \A i, j \in DOMAIN written : i < j => Before(tickets, written[i], written[j])
    /\ IsFiniteSet(ToSet(written)) /\ Cardinality(ToSet(written)) = Len(written)

AccountInv == AccountTypes /\ Offered /\ Gone

(* What the files hold, whatever has failed, and what they hold otherwise. *)
FilesTyped(f) == \A i \in DOMAIN f : f[i] \in Seq(Records)

FileTypes ==
    /\ limits.bytes \in Nat \ {0} /\ limits.files \in Nat \ {0} /\ mishaps \in Nat
    /\ FilesTyped(files) /\ (opened => 0 \in DOMAIN files)

Ordered(f, s) ==
    /\ DOMAIN f \subseteq 0 .. Oldest
    /\ \A i \in DOMAIN f : Len(f[i]) <= limits.bytes /\ ToSet(f[i]) \subseteq ToSet(s)
    /\ \A i, j \in DOMAIN f : \A k \in DOMAIN f[i], l \in DOMAIN f[j] :
          i > j \/ (i = j /\ k < l) => Before(s, f[i][k], f[j][l])

HoldsEnd(f, s) ==
    LET held(i) == Len(f[0]) + i * limits.bytes IN
    /\ 0 \in DOMAIN f
    /\ DOMAIN f = {i \in 0 .. Oldest : i = 0 \/ held(i - 1) < Len(s)}
    /\ \A i \in DOMAIN f : i > 0 => Len(f[i]) = limits.bytes
    /\ \A i \in DOMAIN f : held(i) <= Len(s)
    /\ \A i \in DOMAIN f : \A k \in DOMAIN f[i] : f[i][k] = s[Len(s) - held(i) + k]

FilesInv == FileTypes /\ FilesInOrder /\ FilesHoldTheEnd

(* The records still to be offered are new: a consumer's is past what it   *)
(* has finished, and what an event tells the ring of filtered events is    *)
(* told once.                                                              *)
Seen == ToSet(tickets) \cup lost \cup UnderWay

Told == {filtered[i] : i \in DOMAIN filtered} \cup {r.ts : r \in {q \in Seen : q.from = MAIN}}

Pending(c) ==
    {buffers[c][i].ts : i \in DOMAIN buffers[c]} \cup
    {ts \in {consumer[c].event.ts} : consumer[c].step \in {"record", "stream", "engine"}}

OfferedBefore(c, ts) ==
    \/ ts <= reached[c]
    \/ consumer[c].step \in {"engine", "processed"} /\ ts = consumer[c].event.ts

Feed ==
    /\ filtered \in Seq(Nat)
    /\ \A c \in Consumers : \A r \in Seen : r.from = c => OfferedBefore(c, r.ts)
    /\ \A i, j \in DOMAIN filtered : i # j => filtered[i] # filtered[j]
    /\ \A i \in DOMAIN filtered : [from |-> MAIN, ts |-> filtered[i]] \notin Seen
    /\ \A ts \in Told : ts <= clock /\ \A c \in Consumers : ts \notin Pending(c)
    /\ \A c, d \in Consumers : c # d => Pending(c) \cap Pending(d) = {}

(* The order of the shutdown: the consumers are joined before the last     *)
(* drain, the drain is over before the writer is stopped, and the writer   *)
(* leaves an empty queue.                                                  *)
ShutdownOrder ==
    /\ limits = scene.limits /\ stopped \in BOOLEAN /\ writing = ~stopped
    /\ stopped <=> scene.stream /\ loop.step \in {"joinWriter", "done"}
    /\ ~scene.stream => /\ tickets = <<>> /\ (\A t \in Threads : Idle(t)) /\ loop.step # "joinWriter"
                        /\ \A c \in Consumers : consumer[c].step # "stream"
    /\ loop.step \in {"drainLast", "joinWriter", "done"} =>
         \A c \in Consumers : consumer[c].step = "exited"
    /\ \A c \in Consumers : ~Idle(c) => consumer[c].step = "engine"
    /\ ~Idle(MAIN) => loop.step \in {"drain", "drainLast"}
    /\ stopped => filtered = <<>>
    /\ worker.step = "exited" => stopped /\ enqueue_pos = dequeue_pos
    /\ stopped /\ loop.step = "done" => worker.step = "exited"

WriterInv == QueueInv /\ AccountInv /\ FilesInv
StreamInv == LoopInv /\ WriterInv /\ Feed /\ ShutdownOrder

-----------------------------------------------------------------------------
(* Remainders: which positions share a cell.                               *)

LEMMA Division ==
  ASSUME NEW n \in Nat \ {0}, NEW p \in Int
  PROVE  p = n * (p \div n) + (p % n) /\ p \div n \in Int /\ p % n \in 0 .. n - 1
  OBVIOUS

LEMMA Multiple ==
  ASSUME NEW n \in Nat \ {0}, NEW k \in Int
  PROVE  /\ n * k \in Int /\ (k = 0 => n * k = 0)
         /\ (k >= 1 => n * k >= n) /\ (k <= -1 => n * k <= -n)
  OBVIOUS

LEMMA Remainders ==
  ASSUME NEW n \in Nat \ {0}, NEW p \in Int, NEW q \in Int
  PROVE  \E a, b \in 0 .. n - 1, k, m \in Int :
            /\ a = p % n /\ b = q % n /\ m = n * k /\ q - p = m + (b - a)
            /\ (k = 0 => m = 0) /\ (k >= 1 => m >= n) /\ (k <= -1 => m <= -n)
<1> DEFINE k == (q \div n) - (p \div n)
           a == p % n
           b == q % n
<1>1. n * k = n * (q \div n) - n * (p \div n)
  BY Division
<1>2. k \in Int /\ a \in 0 .. n - 1 /\ b \in 0 .. n - 1 /\ q - p = n * k + (b - a)
  BY <1>1, Division
<1>3. a = p % n /\ b = q % n
  OBVIOUS
<1> HIDE DEF k, a, b
<1>4. n * k \in Int /\ (k = 0 => n * k = 0) /\ (k >= 1 => n * k >= n) /\ (k <= -1 => n * k <= -n)
  BY <1>2, Multiple
<1> QED
  BY <1>2, <1>3, <1>4, Zenon

LEMMA CellsDiffer ==
  ASSUME NEW n \in Nat \ {0}, NEW p \in Int, NEW q \in Int, p < q, q < p + n
  PROVE  p % n # q % n
<1>1. PICK a, b \in 0 .. n - 1, k, m \in Int :
            /\ a = p % n /\ b = q % n /\ m = n * k /\ q - p = m + (b - a)
            /\ (k = 0 => m = 0) /\ (k >= 1 => m >= n) /\ (k <= -1 => m <= -n)
  BY Remainders
<1>2. a # b
  BY <1>1
<1> QED
  BY <1>1, <1>2

LEMMA CellRepeats ==
  ASSUME NEW n \in Nat \ {0}, NEW p \in Int
  PROVE  (p + n) % n = p % n
<1>1. PICK a, b \in 0 .. n - 1, k, m \in Int :
            /\ a = p % n /\ b = (p + n) % n /\ m = n * k /\ (p + n) - p = m + (b - a)
            /\ (k = 0 => m = 0) /\ (k >= 1 => m >= n) /\ (k <= -1 => m <= -n)
  BY Remainders, p + n \in Int
<1>2. PICK d \in Int : d = k - 1
  OBVIOUS
<1>3. n * k = n * d + n
  BY <1>2
<1>4. n * d = a - b
  BY <1>1, <1>3
<1>5. d = 0
  BY <1>4, Multiple
<1>6. a = b
  BY <1>4, <1>5
<1> QED
  BY <1>1, <1>6

LEMMA FirstLap == ASSUME NEW n \in Nat \ {0}, NEW p \in 0 .. n - 1 PROVE p % n = p
  OBVIOUS

LEMMA Capacity == RING_CAPACITY \in Nat \ {0} /\ RING_CAPACITY >= 2
  BY WriterAssumption

(* A write to the cell of one position leaves the cells of the others.     *)
LEMMA OtherCells ==
  ASSUME QueueTypes, NEW pos \in Nat, NEW v, cells' = [cells EXCEPT ![pos % RING_CAPACITY] = v]
  PROVE  /\ Cell(pos)' = v
         /\ \A p \in Nat : p # pos /\ p < pos + RING_CAPACITY /\ pos < p + RING_CAPACITY
              => Cell(p)' = Cell(p)
<1>1. \A p \in Nat : p % RING_CAPACITY \in 0 .. RING_CAPACITY - 1
  BY Division, Capacity
<1>2. cells'[pos % RING_CAPACITY] = v
  BY <1>1 DEF QueueTypes
<1>3. ASSUME NEW p \in Nat, p # pos, p < pos + RING_CAPACITY, pos < p + RING_CAPACITY
      PROVE  cells'[p % RING_CAPACITY] = cells[p % RING_CAPACITY]
  <2>1. p % RING_CAPACITY # pos % RING_CAPACITY
    <3>1. p \in Int /\ pos \in Int /\ (p < pos \/ pos < p)
      BY <1>3
    <3>2. CASE p < pos
      BY <1>3, <3>1, <3>2, CellsDiffer, Capacity, Zenon
    <3>3. CASE pos < p
      BY <1>3, <3>1, <3>3, CellsDiffer, Capacity, Zenon
    <3> QED
      BY <3>1, <3>2, <3>3
  <2> QED
    BY <1>1, <2>1 DEF QueueTypes
<1> QED
  BY <1>2, <1>3 DEF Cell

-----------------------------------------------------------------------------
(* The queue.                                                              *)

LEMMA QueueInit == Init => QueueInv
<1> SUFFICES ASSUME Init PROVE QueueInv
  OBVIOUS
<1> USE DEF Init, WriterInit
<1>1. NotPushing \in PushStates /\ worker \in WorkerStates /\ tickets \in Seq(Records)
  BY DEF NotPushing, PushStates, WorkerStates
<1>2. QueueTypes
  <2>1. \A i \in 0 .. RING_CAPACITY - 1 :
          [sequence |-> i, record |-> NoRecord] \in [sequence : Nat, record : Records \cup {NoRecord}]
    BY Capacity
  <2> QED
    BY <1>1, <2>1 DEF QueueTypes
<1>3. Low = 0 /\ Positions /\ InUse
  BY Capacity DEF Low, Positions, InUse
<1>4. Free
  <2>0. cells = [i \in 0 .. RING_CAPACITY - 1 |-> [sequence |-> i, record |-> NoRecord]] /\ enqueue_pos = 0
    OBVIOUS
  <2>1. \A p \in 0 .. RING_CAPACITY - 1 : p % RING_CAPACITY = p
    BY Capacity, FirstLap
  <2> HIDE DEF Init, WriterInit
  <2>2. \A p \in 0 .. RING_CAPACITY - 1 : Cell(p).sequence = p
    BY <2>0, <2>1 DEF Cell
  <2> QED
    BY <1>3, <2>0, <2>2, Capacity DEF Free
<1>5. Publishing
  BY DEF Publishing, NotPushing
<1> QED
  BY <1>2, <1>3, <1>4, <1>5 DEF QueueInv

(* A step that leaves the queue alone and publishes nothing.               *)
LEMMA QueueKept ==
  ASSUME QueueInv, UNCHANGED <<cells, enqueue_pos, dequeue_pos, tickets>>,
         pushing' \in [Threads -> PushStates], worker' \in WorkerStates,
         worker'.step = "write" <=> worker.step = "write", worker'.pos = worker.pos,
         \A t \in Threads : pushing'[t].step = "publish" => pushing'[t] = pushing[t]
  PROVE  QueueInv' /\ Low' = Low
<1>1. Low' = Low /\ QueueTypes'
  BY DEF Low, QueueInv, QueueTypes
<1>2. \A p : Cell(p)' = Cell(p)
  BY DEF Cell
<1>3. Positions' /\ InUse' /\ Free'
  BY <1>1, <1>2 DEF QueueInv, Positions, InUse, Free
<1>4. Publishing'
  BY <1>1, <1>2 DEF QueueInv, Publishing
<1> QED
  BY <1>1, <1>3, <1>4 DEF QueueInv

LEMMA PushStartQueue ==
  ASSUME QueueInv, NEW t \in Threads, NEW rec \in Records, PushStart(t, rec)
  PROVE  QueueInv' /\ Low' = Low
<1>1. [step |-> "cell", pos |-> enqueue_pos, rec |-> rec] \in PushStates
  BY DEF PushStates, QueueInv, QueueTypes
<1>2. pushing' \in [Threads -> PushStates]
  BY <1>1 DEF PushStart, QueueInv, QueueTypes
<1>3. \A u \in Threads : pushing'[u].step = "publish" => pushing'[u] = pushing[u]
  BY DEF PushStart, QueueInv, QueueTypes
<1> QED
  BY <1>2, <1>3, QueueKept DEF PushStart, queue, QueueInv, QueueTypes

(* The thread draws the next position, whose cell is free.                 *)
Draws(t) ==
    /\ PushCell(t) /\ enqueue_pos' = enqueue_pos + 1
    /\ tickets' = Append(tickets, pushing[t].rec)

(* A thread that draws no position keeps trying, or has lost its record.   *)
LEMMA PushCellCases ==
  ASSUME NEW t \in Threads, PushCell(t)
  PROVE  \/ Draws(t) /\ UNCHANGED <<dropped_records, lost>>
         \/ /\ UNCHANGED <<enqueue_pos, tickets>>
            /\ \/ Lose(pushing[t].rec) /\ pushing' = [pushing EXCEPT ![t] = NotPushing]
               \/ /\ pushing' = [pushing EXCEPT ![t].pos = enqueue_pos]
                  /\ UNCHANGED <<dropped_records, lost>>
  BY DEF PushCell, Draws

LEMMA NotDrawnQueue ==
  ASSUME QueueInv, NEW t \in Threads, PushCell(t), UNCHANGED <<enqueue_pos, tickets>>
  PROVE  QueueInv' /\ Low' = Low
<1>1. /\ enqueue_pos \in Nat /\ pushing[t] \in PushStates /\ pushing[t].step = "cell"
      /\ pushing \in [Threads -> PushStates]
  BY DEF QueueInv, QueueTypes, PushCell
<1>2. NotPushing \in PushStates /\ [pushing[t] EXCEPT !.pos = enqueue_pos] \in PushStates
  BY <1>1 DEF NotPushing, PushStates
<1>3. \/ pushing' = [pushing EXCEPT ![t] = NotPushing]
      \/ pushing' = [pushing EXCEPT ![t] = [pushing[t] EXCEPT !.pos = enqueue_pos]]
  BY <1>1 DEF PushCell
<1>4. pushing' \in [Threads -> PushStates]
  BY <1>1, <1>2, <1>3
<1>5. \A u \in Threads : pushing'[u].step = "publish" => pushing'[u] = pushing[u]
  BY <1>1, <1>3 DEF NotPushing, PushStates
<1> QED
  BY <1>4, <1>5, QueueKept DEF PushCell, QueueInv, QueueTypes

(* What drawing a position relies on and does.                             *)
LEMMA Drawing ==
  ASSUME QueueInv, NEW t \in Threads, Draws(t), pushing[t].rec \in Records
  PROVE  /\ Low' = Low /\ enqueue_pos < Low + RING_CAPACITY
         /\ pushing[t].step = "cell" /\ pushing[t].pos = enqueue_pos /\ Cell(enqueue_pos).sequence = enqueue_pos
         /\ pushing' = [pushing EXCEPT ![t].step = "publish"]
         /\ UNCHANGED <<cells, dequeue_pos, worker>>
         /\ tickets' \in Seq(Records) /\ Len(tickets') = Len(tickets) + 1
         /\ \A i \in 1 .. Len(tickets) : tickets'[i] = tickets[i]
         /\ tickets'[Len(tickets) + 1] = pushing[t].rec
<1>1. enqueue_pos \in Nat /\ tickets \in Seq(Records) /\ Len(tickets) = enqueue_pos
  BY DEF QueueInv, QueueTypes, Positions
<1>2. /\ pushing[t].step = "cell" /\ pushing[t].pos = enqueue_pos
      /\ Cell(enqueue_pos).sequence = enqueue_pos
      /\ pushing' = [pushing EXCEPT ![t].step = "publish"]
      /\ UNCHANGED <<cells, dequeue_pos, worker>>
  BY <1>1 DEF Draws, PushCell
<1>3. enqueue_pos # Low + RING_CAPACITY
  <2> SUFFICES ASSUME enqueue_pos = Low + RING_CAPACITY PROVE FALSE
    OBVIOUS
  <2>1. Low \in Nat /\ Low \in Low .. enqueue_pos - 1
    BY <1>1, Capacity DEF QueueInv, Positions
  <2>2. enqueue_pos % RING_CAPACITY = Low % RING_CAPACITY
    <3>1. PICK low \in Nat : low = Low
      BY <2>1
    <3>2. (low + RING_CAPACITY) % RING_CAPACITY = low % RING_CAPACITY
      BY low \in Int, CellRepeats, Capacity, Zenon
    <3> QED
      BY <3>1, <3>2
  <2>3. Cell(Low).sequence \in {Low, Low + 1}
    BY <2>1 DEF QueueInv, InUse
  <2> QED
    BY <1>2, <2>1, <2>2, <2>3, Capacity DEF Cell
<1> QED
  BY <1>1, <1>2, <1>3, Capacity DEF Draws, QueueInv, Positions, Low

LEMMA DrawsQueue ==
  ASSUME QueueInv, NEW t \in Threads, Draws(t), pushing[t].rec \in Records
  PROVE  QueueInv'
<1>0. /\ Low' = Low /\ enqueue_pos < Low + RING_CAPACITY
      /\ pushing[t].pos = enqueue_pos /\ Cell(enqueue_pos).sequence = enqueue_pos
      /\ UNCHANGED <<cells, dequeue_pos, worker>>
      /\ tickets' \in Seq(Records) /\ Len(tickets') = Len(tickets) + 1
      /\ \A i \in 1 .. Len(tickets) : tickets'[i] = tickets[i]
      /\ tickets'[Len(tickets) + 1] = pushing[t].rec
  BY Drawing
<1>1. /\ enqueue_pos \in Nat /\ Len(tickets) = enqueue_pos /\ Low \in Nat
      /\ pushing \in [Threads -> PushStates] /\ enqueue_pos' = enqueue_pos + 1
      /\ RING_CAPACITY \in Nat /\ dequeue_pos \in Nat /\ Low <= enqueue_pos
  BY Capacity DEF QueueInv, QueueTypes, Positions, Draws, Low
<1>2. [pushing[t] EXCEPT !.step = "publish"] \in PushStates
  BY <1>1 DEF PushStates
<1>3. /\ pushing' \in [Threads -> PushStates]
      /\ pushing'[t] = [pushing[t] EXCEPT !.step = "publish"]
      /\ \A u \in Threads : u # t => pushing'[u] = pushing[u]
  <2>1. pushing' = [pushing EXCEPT ![t] = [pushing[t] EXCEPT !.step = "publish"]]
    BY Drawing
  <2> QED
    BY <1>1, <1>2, <2>1
<1>4. pushing'[t].pos = enqueue_pos /\ pushing'[t].rec = pushing[t].rec
  BY <1>0, <1>1, <1>3 DEF PushStates
<1>5. QueueTypes'
  BY <1>0, <1>1, <1>3 DEF QueueInv, QueueTypes
<1>6. \A p : Cell(p)' = Cell(p)
  BY <1>0 DEF Cell
<1>7. Positions'
  <2>1. Cell(Low)' = Cell(Low)
    BY <1>0 DEF Cell
  <2> QED
    BY <1>0, <1>1, <2>1 DEF QueueInv, Positions
<1>8. InUse' /\ Free'
  BY <1>0, <1>1, <1>6, SMTT(30) DEF QueueInv, InUse, Free
<1>9. Publishing'
  <2>1. ASSUME NEW u \in Threads, pushing'[u].step = "publish"
        PROVE  /\ pushing'[u].pos \in Low .. enqueue_pos /\ (u # t => pushing'[u].pos < enqueue_pos)
               /\ Cell(pushing'[u].pos).sequence = pushing'[u].pos
               /\ pushing'[u].rec = tickets'[pushing'[u].pos + 1]
    <3>1. CASE u = t
      BY <1>0, <1>1, <1>4, <3>1
    <3>2. CASE u # t
      BY <1>0, <1>1, <1>3, <2>1, <3>2 DEF QueueInv, Publishing
    <3> QED
      BY <3>1, <3>2
  <2>2. \A u, v \in Threads :
          pushing'[u].step = "publish" /\ pushing'[v].step = "publish" /\ u # v
            => pushing'[u].pos # pushing'[v].pos
    <3> SUFFICES ASSUME NEW u \in Threads, NEW v \in Threads, u # v,
                        pushing'[u].step = "publish", pushing'[v].step = "publish"
                 PROVE  pushing'[u].pos # pushing'[v].pos
      OBVIOUS
    <3>1. CASE u # t /\ v # t
      BY <1>3, <3>1 DEF QueueInv, Publishing
    <3>2. CASE u = t \/ v = t
      BY <1>1, <1>4, <2>1, <3>2
    <3> QED
      BY <3>1, <3>2
  <2> QED
    BY <1>0, <1>1, <1>6, <2>1, <2>2 DEF Publishing
<1> QED
  BY <1>5, <1>7, <1>8, <1>9 DEF QueueInv

LEMMA PublishQueue ==
  ASSUME QueueInv, NEW t \in Threads, PushPublish(t)
  PROVE  QueueInv' /\ Low' = Low
<1>1. /\ pushing[t] \in PushStates /\ pushing[t].step = "publish" /\ pushing \in [Threads -> PushStates]
      /\ enqueue_pos \in Nat /\ dequeue_pos \in Nat /\ Low \in Nat /\ Low <= enqueue_pos
      /\ enqueue_pos <= Low + RING_CAPACITY /\ RING_CAPACITY \in Nat
  BY Capacity DEF QueueInv, QueueTypes, Positions, Low, PushPublish
<1>2. PICK pos \in Nat, rec \in Records \cup {NoRecord} : pos = pushing[t].pos /\ rec = pushing[t].rec
  BY <1>1 DEF PushStates
<1>3. pos \in Low .. enqueue_pos - 1 /\ Cell(pos).sequence = pos /\ rec = tickets[pos + 1]
  BY <1>1, <1>2 DEF QueueInv, Publishing
<1>4. /\ cells' = [cells EXCEPT ![pos % RING_CAPACITY] = [sequence |-> pos + 1, record |-> rec]]
      /\ pushing' = [pushing EXCEPT ![t] = NotPushing]
      /\ UNCHANGED <<enqueue_pos, dequeue_pos, worker, tickets>> /\ Low' = Low
  BY <1>2 DEF PushPublish, Low
<1>5. /\ Cell(pos)' = [sequence |-> pos + 1, record |-> rec]
      /\ \A p \in Low .. Low + RING_CAPACITY - 1 : p # pos => Cell(p)' = Cell(p)
  <2>1. /\ Cell(pos)' = [sequence |-> pos + 1, record |-> rec]
        /\ \A p \in Nat : p # pos /\ p < pos + RING_CAPACITY /\ pos < p + RING_CAPACITY
              => Cell(p)' = Cell(p)
    BY <1>4, OtherCells, Zenon DEF QueueInv
  <2> QED
    BY <1>1, <1>3, <2>1
<1>6. QueueTypes'
  <2>1. [sequence |-> pos + 1, record |-> rec] \in [sequence : Nat, record : Records \cup {NoRecord}]
    OBVIOUS
  <2>2. NotPushing \in PushStates
    BY DEF NotPushing, PushStates
  <2> QED
    BY <1>4, <2>1, <2>2 DEF QueueInv, QueueTypes
<1>7. Positions'
  <2>1. CASE worker.step = "write"
    <3>1. Cell(Low).sequence = Low + 1 /\ worker.pos = Low
      BY <2>1 DEF QueueInv, Positions
    <3>2. Low # pos
      BY <1>1, <1>3, <3>1
    <3>3. PICK low \in Nat : low = Low
      BY <1>1
    <3>4. low \in Low .. Low + RING_CAPACITY - 1
      BY <1>1, <3>3, Capacity
    <3>5. Cell(low)' = Cell(low)
      BY <1>5, <3>2, <3>3, <3>4
    <3>6. Cell(Low)' = Cell(Low)
      BY <1>4, <3>3, <3>5 DEF Cell
    <3> QED
      BY <1>1, <1>4, <3>1, <3>6 DEF QueueInv, Positions
  <2>2. CASE worker.step # "write"
    BY <1>1, <1>4, <2>2 DEF QueueInv, Positions
  <2> QED
    BY <2>1, <2>2
<1>8. InUse'
  <2> SUFFICES ASSUME NEW p \in Low .. enqueue_pos - 1
               PROVE  \/ Cell(p)'.sequence = p
                      \/ Cell(p)'.sequence = p + 1 /\ Cell(p)'.record = tickets[p + 1]
    BY <1>4 DEF InUse
  <2>1. CASE p = pos
    BY <1>3, <1>5, <2>1
  <2>2. CASE p # pos
    BY <1>1, <1>5, <2>2 DEF QueueInv, InUse
  <2> QED
    BY <2>1, <2>2
<1>9. Free'
  <2> SUFFICES ASSUME NEW p \in enqueue_pos .. Low + RING_CAPACITY - 1 PROVE Cell(p)'.sequence = p
    BY <1>4 DEF Free
  <2> QED
    BY <1>1, <1>3, <1>5 DEF QueueInv, Free
<1>10. Publishing'
  <2>1. \A u \in Threads : pushing'[u].step = "publish" => u # t /\ pushing'[u] = pushing[u]
    BY <1>1, <1>4 DEF NotPushing
  <2>2. ASSUME NEW u \in Threads, pushing'[u].step = "publish"
        PROVE  /\ pushing[u].pos \in Low .. enqueue_pos - 1
               /\ cells'[pushing[u].pos % RING_CAPACITY].sequence = pushing[u].pos
               /\ pushing[u].rec = tickets[pushing[u].pos + 1]
    <3>1. u # t /\ pushing[u].step = "publish"
      BY <2>1, <2>2
    <3>2. /\ pushing[u].pos \in Low .. enqueue_pos - 1 /\ pushing[u].pos # pos
          /\ Cell(pushing[u].pos).sequence = pushing[u].pos
          /\ pushing[u].rec = tickets[pushing[u].pos + 1]
      BY <1>1, <1>2, <3>1 DEF QueueInv, Publishing
    <3>3. PICK p \in Nat : p = pushing[u].pos
      BY <1>1, <3>2
    <3>4. p \in Low .. Low + RING_CAPACITY - 1 /\ p # pos
      BY <1>1, <3>2, <3>3
    <3>5. Cell(p)'.sequence = p
      BY <1>5, <3>2, <3>3, <3>4
    <3> QED
      BY <3>2, <3>3, <3>5 DEF Cell
  <2> QED
    BY <1>4, <2>1, <2>2 DEF QueueInv, Publishing, Cell
<1> QED
  BY <1>4, <1>6, <1>7, <1>8, <1>9, <1>10 DEF QueueInv

LEMMA WorkerTakeQueue ==
  ASSUME QueueInv, WorkerTake
  PROVE  QueueInv' /\ Low' = Low
<1>1. /\ worker.step = "take" /\ worker' = [step |-> "write", pos |-> dequeue_pos]
      /\ dequeue_pos' = dequeue_pos + 1 /\ UNCHANGED <<cells, enqueue_pos, pushing, tickets>>
      /\ Cell(dequeue_pos).sequence = dequeue_pos + 1
  BY DEF WorkerTake
<1>2. /\ Low = dequeue_pos /\ dequeue_pos \in Nat /\ enqueue_pos \in Nat
      /\ dequeue_pos <= enqueue_pos
  BY <1>1 DEF Low, QueueInv, QueueTypes, Positions
<1>3. dequeue_pos # enqueue_pos
  <2>1. PICK p \in Nat : p = enqueue_pos
    BY <1>2
  <2>2. dequeue_pos = enqueue_pos => Cell(p).sequence = p
    BY <1>2, <2>1, Capacity DEF QueueInv, Free
  <2> QED
    BY <1>1, <2>1, <2>2
<1>4. Low' = Low
  BY <1>1, <1>2 DEF Low
<1>5. QueueTypes'
  BY <1>1, <1>2 DEF QueueInv, QueueTypes, WorkerStates
<1>6. Positions'
  <2>1. Cell(Low)' = Cell(Low)
    BY <1>1, <1>4 DEF Cell
  <2> QED
    BY <1>1, <1>2, <1>3, <1>4, <2>1 DEF QueueInv, Positions
<1>7. \A p : Cell(p)' = Cell(p)
  BY <1>1 DEF Cell
<1>8. InUse' /\ Free'
  BY <1>1, <1>4, <1>7 DEF QueueInv, InUse, Free
<1>9. Publishing'
  BY <1>1, <1>4, <1>7 DEF QueueInv, Publishing
<1> QED
  BY <1>4, <1>5, <1>6, <1>8, <1>9 DEF QueueInv

(* The record that the worker writes is that of the oldest position.       *)
LEMMA WorkerRecord ==
  ASSUME QueueInv, worker.step = "write"
  PROVE  /\ worker.pos = Low /\ dequeue_pos = Low + 1 /\ Low \in Nat /\ Low + 1 \in DOMAIN tickets
         /\ Cell(Low).sequence = Low + 1 /\ Cell(worker.pos).record = tickets[Low + 1]
<1>1. /\ worker.pos = Low /\ Low = dequeue_pos - 1 /\ Low \in Nat /\ Cell(Low).sequence = Low + 1
      /\ dequeue_pos \in Nat /\ enqueue_pos \in Nat /\ dequeue_pos <= enqueue_pos
      /\ Len(tickets) = enqueue_pos /\ tickets \in Seq(Records)
  BY DEF QueueInv, QueueTypes, Positions, Low
<1>2. PICK low \in Nat : low = Low
  BY <1>1
<1>3. low \in Low .. enqueue_pos - 1
  BY <1>1, <1>2
<1>4. Cell(low).record = tickets[low + 1]
  BY <1>1, <1>2, <1>3 DEF QueueInv, InUse
<1> QED
  BY <1>1, <1>2, <1>4

LEMMA WorkerWriteQueue ==
  ASSUME QueueInv, WorkerWrite
  PROVE  QueueInv' /\ Low' = Low + 1
<1>1. worker.step = "write"
  BY DEF WorkerWrite
<1>2. /\ worker.pos = Low /\ dequeue_pos = Low + 1 /\ Cell(Low).sequence = Low + 1
      /\ Low \in Nat /\ dequeue_pos \in Nat /\ enqueue_pos \in Nat /\ RING_CAPACITY \in Nat
      /\ dequeue_pos <= enqueue_pos /\ enqueue_pos <= Low + RING_CAPACITY
      /\ worker \in WorkerStates
  BY <1>1, WorkerRecord, Capacity DEF QueueInv, QueueTypes, Positions
<1>3. PICK pos \in Nat : pos = Low
  BY <1>2
<1>4. /\ worker' = [worker EXCEPT !.step = "take"]
      /\ UNCHANGED <<enqueue_pos, dequeue_pos, pushing, tickets>>
      /\ cells' = [cells EXCEPT ![pos % RING_CAPACITY].sequence = pos + RING_CAPACITY]
  BY <1>2, <1>3 DEF WorkerWrite
<1>5. Low' = Low + 1 /\ worker'.step = "take" /\ worker' \in WorkerStates
  BY <1>2, <1>4 DEF Low, WorkerStates
<1>6. pos % RING_CAPACITY \in 0 .. RING_CAPACITY - 1
  BY <1>3, Division, Capacity
<1>7. PICK v \in [sequence : Nat, record : Records \cup {NoRecord}] :
        /\ v.sequence = pos + RING_CAPACITY
        /\ cells' = [cells EXCEPT ![pos % RING_CAPACITY] = v]
  <2>1. PICK i \in 0 .. RING_CAPACITY - 1 : i = pos % RING_CAPACITY
    BY <1>6
  <2>2. PICK old \in [sequence : Nat, record : Records \cup {NoRecord}] : old = cells[i]
    BY DEF QueueInv, QueueTypes
  <2>3. PICK next \in Nat : next = pos + RING_CAPACITY
    BY <1>2
  <2>4. /\ [old EXCEPT !.sequence = next] \in [sequence : Nat, record : Records \cup {NoRecord}]
        /\ [old EXCEPT !.sequence = next].sequence = next
    OBVIOUS
  <2>5. cells' = [cells EXCEPT ![i] = [old EXCEPT !.sequence = next]]
    BY <1>4, <2>1, <2>2, <2>3
  <2> QED
    BY <2>1, <2>3, <2>4, <2>5
<1>8. /\ Cell(pos)' = v
      /\ \A p \in Low + 1 .. Low + RING_CAPACITY - 1 : Cell(p)' = Cell(p)
  <2>1. /\ Cell(pos)' = v
        /\ \A p \in Nat : p # pos /\ p < pos + RING_CAPACITY /\ pos < p + RING_CAPACITY
              => Cell(p)' = Cell(p)
    BY <1>7, OtherCells, Zenon DEF QueueInv
  <2> QED
    BY <1>2, <1>3, <2>1
<1>9. Cell(pos + RING_CAPACITY)'.sequence = pos + RING_CAPACITY
  <2>1. (pos + RING_CAPACITY) % RING_CAPACITY = pos % RING_CAPACITY
    BY pos \in Int, CellRepeats, Capacity, Zenon
  <2> QED
    BY <1>7, <1>8, <2>1 DEF Cell
<1>10. QueueTypes'
  BY <1>4, <1>5, <1>6, <1>7 DEF QueueInv, QueueTypes
<1>11. Positions'
  BY <1>2, <1>4, <1>5 DEF QueueInv, Positions
<1>12. InUse'
  <2> SUFFICES ASSUME NEW p \in Low + 1 .. enqueue_pos - 1
               PROVE  \/ Cell(p)'.sequence = p
                      \/ Cell(p)'.sequence = p + 1 /\ Cell(p)'.record = tickets[p + 1]
    BY <1>4, <1>5 DEF InUse
  <2> QED
    BY <1>2, <1>8 DEF QueueInv, InUse
<1>13. Free'
  <2> SUFFICES ASSUME NEW p \in enqueue_pos .. Low + RING_CAPACITY PROVE Cell(p)'.sequence = p
    BY <1>2, <1>4, <1>5 DEF Free
  <2>1. CASE p = pos + RING_CAPACITY
    BY <1>9, <2>1
  <2>2. CASE p # pos + RING_CAPACITY
    BY <1>2, <1>3, <1>8, <2>2 DEF QueueInv, Free
  <2> QED
    BY <2>1, <2>2
<1>14. Publishing'
  <2>1. ASSUME NEW u \in Threads, pushing[u].step = "publish"
        PROVE  /\ pushing[u].pos \in Low + 1 .. enqueue_pos - 1
               /\ cells'[pushing[u].pos % RING_CAPACITY].sequence = pushing[u].pos
               /\ pushing[u].rec = tickets[pushing[u].pos + 1]
    <3>1. /\ pushing[u].pos \in Low .. enqueue_pos - 1
          /\ Cell(pushing[u].pos).sequence = pushing[u].pos
          /\ pushing[u].rec = tickets[pushing[u].pos + 1]
      BY <2>1 DEF QueueInv, Publishing
    <3>2. PICK p \in Nat : p = pushing[u].pos
      BY <1>2, <3>1
    <3>3. p # Low
      BY <1>2, <3>1, <3>2
    <3>4. p \in Low + 1 .. Low + RING_CAPACITY - 1 /\ p \in Low + 1 .. enqueue_pos - 1
      BY <1>2, <3>1, <3>2, <3>3
    <3>5. Cell(p)'.sequence = p
      BY <1>8, <3>1, <3>2, <3>4
    <3> QED
      BY <3>1, <3>2, <3>4, <3>5 DEF Cell
  <2> QED
    BY <1>4, <1>5, <2>1 DEF QueueInv, Publishing, Cell
<1> QED
  BY <1>5, <1>10, <1>11, <1>12, <1>13, <1>14 DEF QueueInv
-----------------------------------------------------------------------------
(* The accounts.                                                           *)

LEMMA AccountInit == Init => AccountInv
<1> SUFFICES ASSUME Init PROVE AccountInv
  OBVIOUS
<1> USE DEF Init, WriterInit
<1>1. IsFiniteSet({}) /\ Cardinality({}) = 0
  BY FS_EmptySet
<1>2. ToSet(written) = {}
  BY DEF ToSet
<1>3. AccountTypes
  BY <1>1 DEF AccountTypes
<1>4. Gone
  <2>1. DOMAIN written = {} /\ DOMAIN tickets = {} /\ Len(written) = 0
    OBVIOUS
  <2> QED
    BY <1>1, <1>2, <2>1, Zenon DEF Gone
<1>5. Offered
  BY DEF Offered, NotPushing
<1> QED
  BY <1>3, <1>4, <1>5 DEF AccountInv

(* What is in a sequence after an element is added at its end.             *)
LEMMA Appended ==
  ASSUME NEW S, NEW s \in Seq(S), NEW e \in S
  PROVE  LET t == Append(s, e) IN
         /\ t \in Seq(S) /\ Len(t) = Len(s) + 1 /\ t[Len(s) + 1] = e
         /\ DOMAIN s = 1 .. Len(s) /\ DOMAIN t = 1 .. Len(s) + 1 /\ Len(s) \in Nat
         /\ \A i \in DOMAIN s : t[i] = s[i]
         /\ ToSet(t) = ToSet(s) \cup {e}
         /\ \A a, b : Before(s, a, b) => Before(t, a, b)
         /\ \A a : a \in ToSet(s) => Before(t, a, e)
<1> DEFINE t == Append(s, e)
<1>1. /\ t \in Seq(S) /\ Len(t) = Len(s) + 1 /\ t[Len(s) + 1] = e /\ Len(s) \in Nat
      /\ DOMAIN s = 1 .. Len(s) /\ DOMAIN t = 1 .. Len(s) + 1
      /\ \A i \in DOMAIN s : t[i] = s[i]
  OBVIOUS
<1>2. ToSet(t) = ToSet(s) \cup {e}
  BY <1>1 DEF ToSet
<1>3. \A a, b : Before(s, a, b) => Before(t, a, b)
  BY <1>1 DEF Before
<1>4. \A a : a \in ToSet(s) => Before(t, a, e)
  BY <1>1 DEF Before, ToSet
<1> QED
  BY <1>1, <1>2, <1>3, <1>4

(* Giving a record up counts it, once.                                     *)
LEMMA Losing ==
  ASSUME AccountTypes, NEW rec \in Records, rec \notin lost, Lose(rec), UNCHANGED <<written, refused>>
  PROVE  AccountTypes' /\ lost' = lost \cup {rec}
<1>1. lost' = lost \cup {rec} /\ dropped_records' = dropped_records + 1
  BY DEF Lose
<1>2. IsFiniteSet(lost') /\ Cardinality(lost') = Cardinality(lost) + 1
  BY <1>1, FS_AddElement DEF AccountTypes
<1> QED
  BY <1>1, <1>2 DEF AccountTypes

(* A step that leaves the accounts alone and sends no record on its way.   *)
LEMMA AccountKept ==
  ASSUME AccountInv, UNCHANGED <<tickets, written, lost, dropped_records, refused>>, Low' = Low,
         \A t \in Threads : pushing'[t].step = "cell" =>
            pushing[t].step = "cell" /\ pushing'[t].rec = pushing[t].rec
  PROVE  AccountInv'
<1>1. AccountTypes'
  BY DEF AccountInv, AccountTypes
<1>2. Offered'
  BY DEF AccountInv, Offered
<1>3. Gone'
  BY DEF AccountInv, Gone
<1> QED
  BY <1>1, <1>2, <1>3 DEF AccountInv

(* A record is offered once, by the thread it names.                       *)
LEMMA PushStartAccount ==
  ASSUME QueueInv, AccountInv, NEW t \in Threads, NEW rec \in Records, PushStart(t, rec), ~stopped,
         rec.from = t, rec \notin ToSet(tickets) \cup lost
  PROVE  AccountInv'
<1>1. /\ UNCHANGED <<tickets, written, lost, dropped_records, refused>> /\ Low' = Low
      /\ pushing' = [pushing EXCEPT ![t] = [step |-> "cell", pos |-> enqueue_pos, rec |-> rec]]
  BY DEF PushStart, queue, output, Low
<1>2. AccountTypes' /\ Gone'
  BY <1>1 DEF AccountInv, AccountTypes, Gone
<1>3. Offered'
  BY <1>1 DEF AccountInv, Offered, QueueInv, QueueTypes
<1> QED
  BY <1>2, <1>3 DEF AccountInv

(* The record of a push that draws a position becomes the newest ticket.   *)
LEMMA DrawsAccount ==
  ASSUME QueueInv, AccountInv, NEW t \in Threads, Draws(t), UNCHANGED <<dropped_records, lost>>
  PROVE  AccountInv'
<1>1. /\ pushing[t].step = "cell" /\ UNCHANGED <<written, refused, cells, dequeue_pos, worker>>
      /\ tickets' = Append(tickets, pushing[t].rec)
  BY DEF Draws, PushCell, output
<1>2. /\ pushing[t].rec \in Records /\ pushing[t].rec.from = t
      /\ pushing[t].rec \notin ToSet(tickets) \cup lost
  BY <1>1 DEF AccountInv, Offered
<1>3. /\ Low' = Low /\ Low \in Nat /\ Low <= Len(tickets) /\ tickets \in Seq(Records)
      /\ enqueue_pos \in Nat
  BY <1>1 DEF QueueInv, QueueTypes, Positions, Low
<1>4. pushing' = [pushing EXCEPT ![t].step = "publish"]
  BY <1>1, <1>2, Drawing
<1>5. \A u \in Threads : pushing'[u].step = "cell" => u # t /\ pushing'[u] = pushing[u]
  BY <1>4 DEF QueueInv, QueueTypes, PushStates
<1>6. /\ Len(tickets') = Len(tickets) + 1 /\ tickets'[Len(tickets) + 1] = pushing[t].rec
      /\ DOMAIN tickets = 1 .. Len(tickets) /\ DOMAIN tickets' = 1 .. Len(tickets) + 1
      /\ Len(tickets) \in Nat
      /\ \A i \in DOMAIN tickets : tickets'[i] = tickets[i]
      /\ ToSet(tickets') = ToSet(tickets) \cup {pushing[t].rec}
      /\ \A a, b : Before(tickets, a, b) => Before(tickets', a, b)
  BY <1>1, <1>2, <1>3, Appended
<1>7. AccountTypes'
  BY <1>1 DEF AccountInv, AccountTypes
<1>8. Offered'
  <2>1. \A i \in DOMAIN tickets : tickets[i] # pushing[t].rec
    BY <1>2 DEF ToSet
  <2>2. \A i, j \in DOMAIN tickets' : i # j => tickets'[i] # tickets'[j]
    BY <1>6, <2>1 DEF AccountInv, Offered
  <2>3. ASSUME NEW u \in Threads, pushing'[u].step = "cell"
        PROVE  /\ pushing'[u].rec \in Records /\ pushing'[u].rec.from = u
               /\ pushing'[u].rec \notin ToSet(tickets') \cup lost
    <3>1. /\ u # t /\ pushing'[u] = pushing[u] /\ pushing[u].rec \in Records
          /\ pushing[u].rec.from = u /\ pushing[u].rec \notin ToSet(tickets) \cup lost
      BY <1>5, <2>3 DEF AccountInv, Offered
    <3> QED
      BY <1>2, <1>6, <3>1
  <2> QED
    BY <2>2, <2>3 DEF Offered
<1>9. Gone'
  <2>1. \A i \in DOMAIN tickets' : i > Low => tickets'[i] \notin lost
    BY <1>2, <1>6 DEF AccountInv, Gone
  <2>2. \A i \in DOMAIN written : \E k \in 1 .. Low : tickets'[k] = written[i]
    BY <1>3, <1>6 DEF AccountInv, Gone
  <2>3. \A i, j \in DOMAIN written : i < j => Before(tickets', written[i], written[j])
    BY <1>6 DEF AccountInv, Gone
  <2> QED
    BY <1>1, <1>3, <2>1, <2>2, <2>3 DEF AccountInv, Gone
<1> QED
  BY <1>7, <1>8, <1>9 DEF AccountInv

(* A push that draws no position.                                          *)
LEMMA NotDrawnAccount ==
  ASSUME QueueInv, AccountInv, NEW t \in Threads, PushCell(t), UNCHANGED <<enqueue_pos, tickets>>
  PROVE  AccountInv'
<1>1. /\ pushing[t].step = "cell" /\ UNCHANGED <<written, refused>> /\ Low' = Low
      /\ enqueue_pos \in Nat /\ pushing \in [Threads -> PushStates]
  BY DEF PushCell, output, Low, QueueInv, QueueTypes
<1>2. /\ pushing[t].rec \in Records /\ pushing[t].rec.from = t
      /\ pushing[t].rec \notin ToSet(tickets) \cup lost
  BY <1>1 DEF AccountInv, Offered
<1>3. CASE pushing' = [pushing EXCEPT ![t].pos = enqueue_pos] /\ UNCHANGED <<dropped_records, lost>>
  <2>1. pushing' = [pushing EXCEPT ![t] = [pushing[t] EXCEPT !.pos = enqueue_pos]]
    BY <1>3
  <2>2. /\ [pushing[t] EXCEPT !.pos = enqueue_pos].rec = pushing[t].rec
        /\ [pushing[t] EXCEPT !.pos = enqueue_pos].step = pushing[t].step
    BY <1>1 DEF PushStates
  <2>3. \A u \in Threads : pushing'[u].step = pushing[u].step /\ pushing'[u].rec = pushing[u].rec
    BY <1>1, <2>1, <2>2
  <2> QED
    BY <1>1, <1>3, <2>3, AccountKept
<1>4. CASE Lose(pushing[t].rec) /\ pushing' = [pushing EXCEPT ![t] = NotPushing]
  <2>1. AccountTypes' /\ lost' = lost \cup {pushing[t].rec}
    BY <1>1, <1>2, <1>4, Losing DEF AccountInv
  <2>2. \A u \in Threads : pushing'[u].step = "cell" => u # t /\ pushing'[u] = pushing[u]
    BY <1>1, <1>4 DEF NotPushing
  <2>3. Offered'
    <3>1. ASSUME NEW u \in Threads, pushing'[u].step = "cell"
          PROVE  /\ pushing'[u].rec \in Records /\ pushing'[u].rec.from = u
                 /\ pushing'[u].rec \notin ToSet(tickets) \cup lost'
      <4>1. /\ u # t /\ pushing'[u] = pushing[u] /\ pushing[u].rec \in Records
            /\ pushing[u].rec.from = u /\ pushing[u].rec \notin ToSet(tickets) \cup lost
        BY <2>2, <3>1 DEF AccountInv, Offered
      <4> QED
        BY <1>2, <2>1, <4>1
    <3> QED
      BY <3>1 DEF AccountInv, Offered
  <2>4. Gone'
    <3>1. \A i \in DOMAIN tickets : tickets[i] # pushing[t].rec
      BY <1>2 DEF ToSet
    <3>2. \A i \in DOMAIN written : written[i] # pushing[t].rec
      <4>1. \A k \in 1 .. Low : k \in DOMAIN tickets
        BY DEF QueueInv, QueueTypes, Positions, Low
      <4> QED
        BY <3>1, <4>1 DEF AccountInv, Gone
    <3> QED
      BY <1>1, <2>1, <3>1, <3>2 DEF AccountInv, Gone
  <2> QED
    BY <2>1, <2>3, <2>4 DEF AccountInv
<1>5. \/ Lose(pushing[t].rec) /\ pushing' = [pushing EXCEPT ![t] = NotPushing]
      \/ pushing' = [pushing EXCEPT ![t].pos = enqueue_pos] /\ UNCHANGED <<dropped_records, lost>>
  BY PushCellCases, <1>1 DEF Draws
<1> QED
  BY <1>3, <1>4, <1>5

(* The worker writes the record of the oldest position, or gives it up.    *)
Writes(rec) == /\ written' = Append(written, rec) /\ UNCHANGED <<dropped_records, lost>>
GivesUp(rec) == Lose(rec) /\ UNCHANGED written

LEMMA WorkerWriteCases ==
  ASSUME WorkerWrite
  PROVE  /\ Writes(Cell(worker.pos).record) \/ GivesUp(Cell(worker.pos).record)
         /\ UNCHANGED <<tickets, pushing, refused>> /\ worker.step = "write"
  BY DEF WorkerWrite, Writes, GivesUp, WriteLine, Rotate, output

LEMMA WorkerWriteAccount ==
  ASSUME QueueInv, AccountInv, WorkerWrite
  PROVE  AccountInv'
<1>1. worker.step = "write" /\ UNCHANGED <<tickets, pushing, refused>>
  BY WorkerWriteCases
<1>2. /\ Low' = Low + 1 /\ Low \in Nat /\ Low + 1 \in DOMAIN tickets
      /\ Cell(worker.pos).record = tickets[Low + 1]
  BY <1>1, WorkerRecord, WorkerWriteQueue
<1>3. PICK rec \in Records : rec = tickets[Low + 1]
  BY <1>2 DEF QueueInv, QueueTypes
<1>4. Writes(rec) \/ GivesUp(rec)
  BY <1>2, <1>3, WorkerWriteCases
<1>5. /\ \A i \in DOMAIN tickets : i # Low + 1 => tickets[i] # rec
      /\ rec \in ToSet(tickets) /\ rec \notin lost /\ Low + 1 > Low
      /\ DOMAIN tickets = 1 .. Len(tickets)
  BY <1>2, <1>3 DEF AccountInv, Offered, Gone, ToSet, QueueInv, QueueTypes
<1>6. \A i \in DOMAIN written : written[i] # rec /\ \E k \in 1 .. Low : tickets[k] = written[i]
  <2>1. \A k \in 1 .. Low : k \in DOMAIN tickets /\ k # Low + 1
    BY <1>2, <1>5 DEF QueueInv, QueueTypes
  <2> QED
    BY <1>5, <2>1 DEF AccountInv, Gone
<1>7. CASE Writes(rec)
  <2>1. AccountTypes'
    BY <1>1, <1>7 DEF Writes, AccountInv, AccountTypes
  <2>2. Offered'
    BY <1>1, <1>7 DEF Writes, AccountInv, Offered
  <2>3. /\ Len(written') = Len(written) + 1 /\ written'[Len(written) + 1] = rec
        /\ DOMAIN written = 1 .. Len(written) /\ DOMAIN written' = 1 .. Len(written) + 1
        /\ Len(written) \in Nat /\ \A i \in DOMAIN written : written'[i] = written[i]
        /\ ToSet(written') = ToSet(written) \cup {rec}
    BY <1>7, Appended DEF Writes, AccountInv, AccountTypes
  <2>4. \A i \in DOMAIN tickets : i > Low + 1 => tickets[i] \notin lost
    BY <1>2, <1>5 DEF AccountInv, Gone
  <2>5. \A i \in DOMAIN written' : written'[i] \notin lost
    BY <1>5, <2>3 DEF AccountInv, Gone
  <2>6. \A i \in DOMAIN written' : \E k \in 1 .. Low + 1 : tickets[k] = written'[i]
    <3> SUFFICES ASSUME NEW i \in DOMAIN written' PROVE \E k \in 1 .. Low + 1 : tickets[k] = written'[i]
      OBVIOUS
    <3>1. CASE i \in DOMAIN written
      BY <1>2, <1>6, <2>3, <3>1
    <3>2. CASE i = Len(written) + 1
      <4>1. Low + 1 \in 1 .. Low + 1
        BY <1>2
      <4> QED
        BY <1>3, <2>3, <3>2, <4>1
    <3> QED
      BY <2>3, <3>1, <3>2
  <2>7. \A i, j \in DOMAIN written' : i < j => Before(tickets, written'[i], written'[j])
    <3> SUFFICES ASSUME NEW i \in DOMAIN written', NEW j \in DOMAIN written', i < j
                 PROVE  Before(tickets, written'[i], written'[j])
      OBVIOUS
    <3>1. CASE j \in DOMAIN written
      BY <2>3, <3>1 DEF AccountInv, Gone
    <3>2. CASE j = Len(written) + 1
      <4>1. i \in DOMAIN written /\ written'[j] = rec
        BY <2>3, <3>2
      <4>2. PICK k \in 1 .. Low : tickets[k] = written'[i]
        BY <1>6, <2>3, <4>1
      <4>3. k \in DOMAIN tickets /\ k < Low + 1
        BY <1>2, <1>5 DEF QueueInv, QueueTypes
      <4> QED
        BY <1>2, <1>3, <4>1, <4>2, <4>3 DEF Before
    <3> QED
      BY <2>3, <3>1, <3>2
  <2>8. IsFiniteSet(ToSet(written')) /\ Cardinality(ToSet(written')) = Len(written')
    <3>1. rec \notin ToSet(written)
      BY <1>6 DEF ToSet
    <3>2. IsFiniteSet(ToSet(written)) /\ Cardinality(ToSet(written)) = Len(written)
      BY DEF AccountInv, Gone
    <3> QED
      BY <2>3, <3>1, <3>2, FS_AddElement
  <2>9. Gone'
    BY <1>1, <1>2, <1>7, <2>4, <2>5, <2>6, <2>7, <2>8 DEF Gone, Writes
  <2> QED
    BY <2>1, <2>2, <2>9 DEF AccountInv
<1>8. CASE GivesUp(rec)
  <2>1. AccountTypes' /\ lost' = lost \cup {rec} /\ written' = written
    BY <1>1, <1>5, <1>8, Losing DEF GivesUp, AccountInv
  <2>2. Offered'
    BY <1>1, <1>5, <2>1 DEF AccountInv, Offered
  <2>3. \A i \in DOMAIN tickets : i > Low + 1 => tickets[i] \notin lost'
    BY <1>2, <1>5, <2>1 DEF AccountInv, Gone
  <2>4. \A i \in DOMAIN written : written[i] \notin lost'
    BY <1>6, <2>1 DEF AccountInv, Gone
  <2>5. \A i \in DOMAIN written : \E k \in 1 .. Low + 1 : tickets[k] = written[i]
    BY <1>2, <1>6
  <2>6. Gone'
    BY <1>1, <1>2, <2>1, <2>3, <2>4, <2>5 DEF AccountInv, Gone
  <2> QED
    BY <2>1, <2>2, <2>6 DEF AccountInv
<1> QED
  BY <1>4, <1>7, <1>8

-----------------------------------------------------------------------------
(* What the invariant says of the records.                                 *)

(* A push gives a record up only when the queue is full.                   *)
LEMMA RoomFollows == QueueInv => RoomIsUsable
<1> SUFFICES ASSUME QueueInv,
                    enqueue_pos - dequeue_pos + (IF worker.step = "write" THEN 1 ELSE 0) < RING_CAPACITY
             PROVE  Cell(enqueue_pos).sequence = enqueue_pos
  BY DEF RoomIsUsable
<1>1. PICK p \in Nat : p = enqueue_pos
  BY DEF QueueInv, QueueTypes
<1>2. p \in enqueue_pos .. Low + RING_CAPACITY - 1
  BY <1>1, Capacity DEF QueueInv, QueueTypes, Positions, Low
<1> QED
  BY <1>1, <1>2 DEF QueueInv, Free

LEMMA OrderFollows == QueueInv /\ AccountInv => WrittenInOrder
<1> SUFFICES ASSUME QueueInv, AccountInv PROVE WrittenInOrder
  OBVIOUS
<1>1. \A k \in 1 .. Low : k \in DOMAIN tickets
  BY DEF QueueInv, QueueTypes, Positions, Low
<1>2. ToSet(written) \subseteq ToSet(tickets)
  BY <1>1 DEF ToSet, AccountInv, Gone
<1> QED
  BY <1>2 DEF WrittenInOrder, AccountInv, Gone

(* A record is in one place.                                               *)
LEMMA PlacesFollow == QueueInv /\ AccountInv => AccountedOnce
<1> SUFFICES ASSUME QueueInv, AccountInv PROVE AccountedOnce
  OBVIOUS
<1>1. /\ tickets \in Seq(Records) /\ Low \in Nat /\ Low <= dequeue_pos /\ dequeue_pos \in Nat
      /\ dequeue_pos <= Len(tickets) /\ enqueue_pos \in Nat
      /\ worker.step = "write" => dequeue_pos = Low + 1
  BY DEF QueueInv, QueueTypes, Positions, Low
<1>2. \A r \in Queued : \E i \in DOMAIN tickets : r = tickets[i] /\ i > dequeue_pos
  BY <1>1 DEF Queued
<1>3. \A r \in Taken : worker.step = "write" /\ dequeue_pos \in DOMAIN tickets /\ r = tickets[dequeue_pos]
  BY <1>1 DEF Taken
<1>4. \A r \in ToSet(written) : \E i \in DOMAIN tickets : r = tickets[i] /\ i <= Low
  <2>1. \A k \in 1 .. Low : k \in DOMAIN tickets /\ k <= Low
    BY <1>1
  <2> QED
    BY <2>1 DEF ToSet, AccountInv, Gone
<1>5. \A r \in UnderWay : r \notin ToSet(tickets) /\ r \notin lost
  BY DEF UnderWay, AccountInv, Offered
<1>6. \A i, j \in DOMAIN tickets : tickets[i] = tickets[j] => i = j
  BY DEF AccountInv, Offered
<1>7. \A i \in DOMAIN tickets : tickets[i] \in ToSet(tickets) /\ (i > Low => tickets[i] \notin lost) /\ i \in Nat
  BY <1>1 DEF ToSet, AccountInv, Gone
<1>8. ToSet(written) \cap lost = {}
  BY DEF ToSet, AccountInv, Gone
<1>9. ToSet(written) \cap Queued = {}
  BY <1>1, <1>2, <1>4, <1>6, <1>7
<1>10. ToSet(written) \cap Taken = {}
  BY <1>1, <1>3, <1>4, <1>6, <1>7
<1>11. Queued \cap Taken = {}
  BY <1>1, <1>2, <1>3, <1>6, <1>7
<1>12. lost \cap Queued = {} /\ lost \cap Taken = {}
  BY <1>1, <1>2, <1>3, <1>7
<1>13. /\ ToSet(written) \cap UnderWay = {} /\ Queued \cap UnderWay = {} /\ Taken \cap UnderWay = {}
       /\ lost \cap UnderWay = {}
  BY <1>2, <1>3, <1>4, <1>5, <1>7
<1>14. refused = {} /\ dropped_records = Cardinality(lost) /\ Cardinality(ToSet(written)) = Len(written)
  BY DEF AccountInv, AccountTypes, Gone
<1> DEFINE places == <<ToSet(written), lost, Queued, Taken, UnderWay, refused>>
<1>15. \A i, j \in DOMAIN places : i # j => places[i] \cap places[j] = {}
  BY <1>8, <1>9, <1>10, <1>11, <1>12, <1>13, <1>14
<1> QED
  BY <1>14, <1>15 DEF AccountedOnce
-----------------------------------------------------------------------------
(* The files.                                                              *)

LEMMA FilesOrdered == FilesInOrder <=> Ordered(files, written)
  BY Zenon DEF FilesInOrder, Ordered

LEMMA FilesInit == Init => FilesInv
<1> SUFFICES ASSUME Init PROVE FilesInv
  OBVIOUS
<1>1. /\ limits.bytes \in Nat \ {0} /\ limits.files \in Nat \ {0} /\ Oldest \in Nat
  BY LimitsAssumption DEF Init, WriterInit, Oldest
<1>2. DOMAIN files = {0} /\ files[0] = <<>> /\ written = <<>> /\ opened /\ mishaps = 0
  BY DEF Init, WriterInit
<1>3. FileTypes
  <2>1. <<>> \in Seq(Records)
    OBVIOUS
  <2>2. FilesTyped(files)
    BY <1>2, <2>1 DEF FilesTyped
  <2> QED
    BY <1>1, <1>2, <2>2 DEF FileTypes
<1>4. FilesInOrder
  <2>1. ToSet(files[0]) = {}
    BY <1>2 DEF ToSet
  <2> QED
    BY <1>1, <1>2, <2>1 DEF FilesInOrder
<1>5. FilesHoldTheEnd
  <2>1. \A i \in 0 .. Oldest : i > 0 => ~(Held(i - 1) < Len(written))
    BY <1>1, <1>2 DEF Held
  <2>2. Held(0) = 0
    BY <1>1, <1>2 DEF Held
  <2> QED
    <3>1. DOMAIN files = {i \in 0 .. Oldest : i = 0 \/ Held(i - 1) < Len(written)}
      BY <1>1, <1>2, <2>1
    <3>2. DOMAIN files[0] = {} /\ Len(written) = 0
      BY <1>2
    <3> QED
      BY <1>2, <2>2, <3>1, <3>2 DEF FilesHoldTheEnd
<1> QED
  BY <1>3, <1>4, <1>5 DEF FilesInv

(* A rotation, whatever fails of it, leaves an older file the older lines. *)
LEMMA RotatedOrdered ==
  ASSUME NEW f, NEW s, FilesTyped(f), Ordered(f, s), Oldest \in Nat, NEW stuck \in SUBSET DOMAIN f
  PROVE  FilesTyped(Rotated(f, stuck)) /\ Ordered(Rotated(f, stuck), s)
<1> DEFINE moved == {i \in DOMAIN f : i < Oldest /\ i \notin stuck}
           kept  == IF Oldest = 0 THEN DOMAIN f ELSE DOMAIN f \cap stuck
           g     == Rotated(f, stuck)
           origin(i) == IF i - 1 \in moved THEN i - 1 ELSE i
<1>1. DOMAIN f \subseteq 0 .. Oldest
  BY DEF Ordered
<1>2. /\ DOMAIN g = kept \cup {j + 1 : j \in moved}
      /\ \A i \in DOMAIN g : g[i] = IF i - 1 \in moved THEN f[i - 1] ELSE f[i]
  BY DEF Rotated
<1>3. ASSUME NEW i \in DOMAIN g
      PROVE  i \in 0 .. Oldest /\ origin(i) \in DOMAIN f /\ g[i] = f[origin(i)]
    <2>1. CASE i \in kept
      BY <1>1, <1>2, <2>1
    <2>2. CASE i \in {j + 1 : j \in moved}
      BY <1>1, <1>2, <2>2
    <2> QED
      BY <1>2, <2>1, <2>2
<1>4. ASSUME NEW i \in DOMAIN g, NEW j \in DOMAIN g, i > j
      PROVE  origin(i) > origin(j)
  <2>1. i \in Nat /\ j \in Nat /\ j <= Oldest /\ i <= Oldest
    BY <1>3
  <2>2. CASE i - 1 \notin moved
    BY <1>4, <2>1, <2>2
  <2>3. CASE i - 1 \in moved /\ j < i - 1
    BY <1>4, <2>1, <2>3
  <2>4. CASE i - 1 \in moved /\ j = i - 1
    <3>1. j \notin kept
      BY <2>1, <2>4
    <3>2. j - 1 \in moved
      BY <1>1, <1>2, <3>1
    <3> QED
      BY <2>1, <2>4, <3>2
  <2> QED
    BY <1>4, <2>1, <2>2, <2>3, <2>4
<1> HIDE DEF g, origin, moved, kept
<1>5. FilesTyped(g)
  BY <1>3 DEF FilesTyped
<1>6. ASSUME NEW i \in DOMAIN g, NEW j \in DOMAIN g, NEW k \in DOMAIN g[i], NEW l \in DOMAIN g[j],
             i > j \/ (i = j /\ k < l)
      PROVE  Before(s, g[i][k], g[j][l])
  <2>1. origin(i) > origin(j) \/ (origin(i) = origin(j) /\ k < l)
    BY <1>4, <1>6
  <2>2. /\ origin(i) \in DOMAIN f /\ g[i] = f[origin(i)]
        /\ origin(j) \in DOMAIN f /\ g[j] = f[origin(j)]
    BY <1>3
  <2> QED
    BY <2>1, <2>2 DEF Ordered
<1>7. Ordered(g, s)
  BY <1>3, <1>6 DEF Ordered
<1> QED
  BY <1>5, <1>7 DEF g

LEMMA ReopenedOrdered ==
  ASSUME NEW f, NEW s, FilesTyped(f), Ordered(f, s), Oldest \in Nat, limits.bytes \in Nat
  PROVE  FilesTyped(Reopened(f)) /\ Ordered(Reopened(f), s)
<1> DEFINE g == Reopened(f)
<1>1. /\ DOMAIN g = DOMAIN f \cup {0} /\ g[0] = <<>>
      /\ \A i \in DOMAIN f : i # 0 => g[i] = f[i]
  BY DEF Reopened
<1> HIDE DEF g
<1>2. FilesTyped(g)
  <2>1. <<>> \in Seq(Records)
    OBVIOUS
  <2>2. \A i \in DOMAIN g : i # 0 => i \in DOMAIN f
    BY <1>1
  <2> QED
    BY <1>1, <2>1, <2>2 DEF FilesTyped
<1>3. ToSet(g[0]) = {} /\ Len(g[0]) = 0 /\ DOMAIN g[0] = {}
  BY <1>1 DEF ToSet
<1>4. DOMAIN g \subseteq 0 .. Oldest
  BY <1>1 DEF Ordered
<1>5. \A i \in DOMAIN g : Len(g[i]) <= limits.bytes /\ ToSet(g[i]) \subseteq ToSet(s)
  BY <1>1, <1>3 DEF Ordered
<1>6. ASSUME NEW i \in DOMAIN g, NEW j \in DOMAIN g, NEW k \in DOMAIN g[i], NEW l \in DOMAIN g[j],
             i > j \/ (i = j /\ k < l)
      PROVE  Before(s, g[i][k], g[j][l])
  <2>1. i \in DOMAIN f /\ j \in DOMAIN f /\ g[i] = f[i] /\ g[j] = f[j]
    BY <1>1, <1>3
  <2> QED
    BY <1>6, <2>1 DEF Ordered
<1>7. Ordered(g, s)
  BY <1>4, <1>5, <1>6 DEF Ordered
<1> QED
  BY <1>2, <1>7 DEF g

(* A line that is written last goes to the end of the youngest file.       *)
LEMMA WriteOrdered ==
  ASSUME NEW f, NEW s \in Seq(Records), NEW rec \in Records, FilesTyped(f), Ordered(f, s),
         0 \in DOMAIN f, Len(f[0]) < limits.bytes, limits.bytes \in Nat, Oldest \in Nat
  PROVE  /\ FilesTyped([f EXCEPT ![0] = Append(@, rec)])
         /\ Ordered([f EXCEPT ![0] = Append(@, rec)], Append(s, rec))
<1> DEFINE g == [f EXCEPT ![0] = Append(@, rec)]
           t == Append(s, rec)
           n == Len(f[0]) + 1
<1>1. DOMAIN g = DOMAIN f /\ g[0] = Append(f[0], rec) /\ \A i \in DOMAIN f : i # 0 => g[i] = f[i]
  OBVIOUS
<1>2. f[0] \in Seq(Records)
  BY DEF FilesTyped
<1>3. /\ g[0] \in Seq(Records) /\ Len(g[0]) = n /\ g[0][n] = rec /\ n \in Nat
      /\ DOMAIN g[0] = 1 .. n /\ DOMAIN f[0] = 1 .. n - 1
      /\ \A k \in DOMAIN f[0] : g[0][k] = f[0][k]
      /\ ToSet(g[0]) = ToSet(f[0]) \cup {rec}
  BY <1>1, <1>2, Appended
<1>4. /\ ToSet(t) = ToSet(s) \cup {rec}
      /\ \A a, b : Before(s, a, b) => Before(t, a, b)
      /\ \A a : a \in ToSet(s) => Before(t, a, rec)
  BY Appended
<1>5. \A i \in DOMAIN f : DOMAIN f[i] \subseteq Nat
  BY DEF FilesTyped
<1>6. n <= limits.bytes /\ n \in Nat
  BY <1>2
<1> HIDE DEF g, t, n
<1>7. FilesTyped(g)
  BY <1>1, <1>3 DEF FilesTyped
<1>8. \A i \in DOMAIN g : Len(g[i]) <= limits.bytes /\ ToSet(g[i]) \subseteq ToSet(t)
  <2> SUFFICES ASSUME NEW i \in DOMAIN g
               PROVE  Len(g[i]) <= limits.bytes /\ ToSet(g[i]) \subseteq ToSet(t)
    OBVIOUS
  <2>1. CASE i = 0
    BY <1>1, <1>3, <1>4, <1>6, <2>1 DEF Ordered
  <2>2. CASE i # 0
    BY <1>1, <1>4, <2>2 DEF Ordered
  <2> QED
    BY <2>1, <2>2
<1>9. ASSUME NEW i \in DOMAIN g, NEW k \in DOMAIN g[i]
      PROVE  \/ k \in DOMAIN f[i] /\ g[i][k] = f[i][k] /\ g[i][k] \in ToSet(s) /\ (i = 0 => k < n)
             \/ i = 0 /\ k = n /\ g[i][k] = rec
  <2>1. CASE i = 0 /\ k = n
    BY <1>3, <2>1
  <2>2. CASE i = 0 /\ k # n
    <3>1. k \in DOMAIN f[0] /\ g[0][k] = f[0][k] /\ k < n
      BY <1>3, <2>2
    <3> QED
      BY <1>1, <2>2, <3>1 DEF Ordered, ToSet
  <2>3. CASE i # 0
    BY <1>1, <2>3 DEF Ordered, ToSet
  <2> QED
    BY <2>1, <2>2, <2>3
<1>10. ASSUME NEW i \in DOMAIN g, NEW j \in DOMAIN g, NEW k \in DOMAIN g[i], NEW l \in DOMAIN g[j],
              i > j \/ (i = j /\ k < l)
       PROVE  Before(t, g[i][k], g[j][l])
  <2>1. i \in Nat /\ j \in Nat /\ k \in Nat /\ l \in Nat
    <3>1. \A h \in DOMAIN g : h \in Nat /\ DOMAIN g[h] \subseteq Nat
      <4>1. DOMAIN g[0] \subseteq Nat
        BY <1>3
      <4> QED
        BY <1>1, <1>5, <4>1 DEF Ordered
    <3> QED
      BY <3>1
  <2>2. CASE j = 0 /\ l = n
    <3>1. g[j][l] = rec
      BY <1>3, <2>2
    <3>2. ~(i = 0 /\ k = n)
      BY <1>10, <2>1, <2>2, <1>6
    <3>3. g[i][k] \in ToSet(s)
      BY <1>9, <3>2
    <3> QED
      BY <1>4, <3>1, <3>3
  <2>3. CASE ~(j = 0 /\ l = n)
    <3>1. l \in DOMAIN f[j] /\ g[j][l] = f[j][l] /\ (j = 0 => l < n)
      BY <1>9, <2>3
    <3>2. ~(i = 0 /\ k = n)
      BY <1>6, <1>10, <2>1, <3>1
    <3>3. k \in DOMAIN f[i] /\ g[i][k] = f[i][k]
      BY <1>9, <3>2
    <3>4. Before(s, f[i][k], f[j][l])
      BY <1>1, <1>10, <3>1, <3>3 DEF Ordered
    <3> QED
      BY <1>4, <3>1, <3>3, <3>4
  <2> QED
    BY <2>2, <2>3
<1>11. Ordered(g, t)
  BY <1>1, <1>8, <1>10 DEF Ordered
<1> QED
  BY <1>7, <1>11 DEF g, t

LEMMA EndHeld == FilesHoldTheEnd <=> (mishaps = 0 => HoldsEnd(files, written))
  BY Zenon DEF FilesHoldTheEnd, HoldsEnd, Held

LEMMA WriteHoldsEnd ==
  ASSUME NEW f, NEW s \in Seq(Records), NEW rec \in Records, FilesTyped(f), HoldsEnd(f, s),
         Len(f[0]) < limits.bytes, limits.bytes \in Nat \ {0}, Oldest \in Nat
  PROVE  HoldsEnd([f EXCEPT ![0] = Append(@, rec)], Append(s, rec))
<1> DEFINE g == [f EXCEPT ![0] = Append(@, rec)]
           t == Append(s, rec)
<1>1. PICK b \in Nat \ {0}, n \in Nat, w \in Nat : b = limits.bytes /\ n = Len(f[0]) /\ w = Len(s)
  <2>1. f[0] \in Seq(Records)
    BY DEF FilesTyped, HoldsEnd
  <2> QED
    BY <2>1
<1>2. /\ 0 \in DOMAIN f /\ DOMAIN f = {i \in 0 .. Oldest : i = 0 \/ n + (i - 1) * b < w}
      /\ \A i \in DOMAIN f : i > 0 => Len(f[i]) = b
      /\ \A i \in DOMAIN f : n + i * b <= w
      /\ \A i \in DOMAIN f : \A k \in DOMAIN f[i] : f[i][k] = s[w - (n + i * b) + k]
  BY <1>1 DEF HoldsEnd
<1>3. DOMAIN g = DOMAIN f /\ g[0] = Append(f[0], rec) /\ \A i \in DOMAIN f : i # 0 => g[i] = f[i]
  BY <1>2
<1>4. /\ Len(g[0]) = n + 1 /\ g[0][n + 1] = rec /\ DOMAIN g[0] = 1 .. n + 1 /\ DOMAIN f[0] = 1 .. n
      /\ \A k \in 1 .. n : g[0][k] = f[0][k]
  <2>1. f[0] \in Seq(Records)
    BY DEF FilesTyped, HoldsEnd
  <2> QED
    BY <1>1, <1>3, <2>1
<1>5. Len(t) = w + 1 /\ t[w + 1] = rec /\ \A k \in 1 .. w : t[k] = s[k]
  BY <1>1
<1> HIDE DEF g, t
<1>6. \A i \in DOMAIN f : (n + 1) + i * b <= w + 1 /\ i * b \in Nat /\ i \in Nat
  BY <1>2
<1>7. DOMAIN g = {i \in 0 .. Oldest : i = 0 \/ (n + 1) + (i - 1) * b < w + 1}
  BY <1>2, <1>3, SMTT(30)
<1>8. ASSUME NEW i \in DOMAIN g, NEW k \in DOMAIN g[i]
      PROVE  g[i][k] = t[(w + 1) - ((n + 1) + i * b) + k]
  <2>1. CASE i = 0 /\ k = n + 1
    BY <1>4, <1>5, <2>1
  <2>2. CASE i = 0 /\ k # n + 1
    <3>1. k \in 1 .. n /\ k \in DOMAIN f[0]
      BY <1>4, <2>2
    <3>2. w - (n + i * b) + k = w - n + k /\ n <= w
      <4>1. i * b = 0
        BY <2>2
      <4> QED
        BY <1>2, <2>2, <3>1, <4>1
    <3>3. f[0][k] = s[w - n + k]
      BY <1>2, <2>2, <3>1, <3>2
    <3>4. w - n + k \in 1 .. w /\ (w + 1) - ((n + 1) + i * b) + k = w - n + k
      BY <2>2, <3>1, <3>2
    <3> QED
      BY <1>4, <1>5, <2>2, <3>1, <3>3, <3>4
  <2>3. CASE i # 0
    <3>1. g[i] = f[i] /\ i \in DOMAIN f /\ i > 0
      BY <1>2, <1>3, <2>3
    <3>2. Len(f[i]) = b /\ n + i * b <= w /\ f[i] \in Seq(Records)
      BY <1>2, <3>1 DEF FilesTyped
    <3>3. k \in 1 .. b
      BY <3>1, <3>2
    <3>4. i * b >= b
      BY <1>2, <3>1, SMTT(30)
    <3>5. PICK m \in Int : m = i * b
      BY <1>6, <3>1
    <3>6. w - (n + m) + k \in 1 .. w /\ (w + 1) - ((n + 1) + m) + k = w - (n + m) + k
      BY <3>2, <3>3, <3>4, <3>5, SMTT(30)
    <3>7. f[i][k] = s[w - (n + m) + k]
      BY <1>2, <3>1, <3>5
    <3> QED
      BY <1>5, <3>1, <3>5, <3>6, <3>7
  <2> QED
    BY <2>1, <2>2, <2>3
<1>9. \A i \in DOMAIN g : i > 0 => Len(g[i]) = b
  BY <1>2, <1>3
<1>10. HoldsEnd(g, t)
  BY <1>1, <1>2, <1>3, <1>4, <1>5, <1>6, <1>7, <1>8, <1>9, SMTT(30) DEF HoldsEnd
<1> QED
  BY <1>10 DEF g, t

(* A rotation that fails nowhere moves every file on and loses the oldest. *)
LEMMA RotateHoldsEnd ==
  ASSUME NEW f, NEW s \in Seq(Records), NEW rec \in Records, FilesTyped(f), HoldsEnd(f, s),
         Len(f[0]) = limits.bytes, limits.bytes \in Nat \ {0}, Oldest \in Nat
  PROVE  HoldsEnd([Reopened(Rotated(f, {})) EXCEPT ![0] = Append(@, rec)], Append(s, rec))
<1> DEFINE h == Reopened(Rotated(f, {}))
           g == [h EXCEPT ![0] = Append(@, rec)]
           t == Append(s, rec)
<1>1. PICK b \in Nat \ {0}, w \in Nat : b = limits.bytes /\ b = Len(f[0]) /\ w = Len(s)
  OBVIOUS
<1>2. /\ 0 \in DOMAIN f /\ DOMAIN f = {i \in 0 .. Oldest : i = 0 \/ b + (i - 1) * b < w}
      /\ \A i \in DOMAIN f : i > 0 => Len(f[i]) = b
      /\ \A i \in DOMAIN f : b + i * b <= w
      /\ \A i \in DOMAIN f : \A k \in DOMAIN f[i] : f[i][k] = s[w - (b + i * b) + k]
  BY <1>1 DEF HoldsEnd
<1>3. /\ h[0] = <<>> /\ 0 \in DOMAIN h
      /\ \A i : i \in DOMAIN h /\ i # 0 <=> i - 1 \in DOMAIN f /\ i - 1 < Oldest /\ i \in 1 .. Oldest
      /\ \A i \in DOMAIN h : i # 0 => h[i] = f[i - 1]
  <2> DEFINE r == Rotated(f, {})
             moved == {i \in DOMAIN f : i < Oldest}
  <2>1. /\ DOMAIN r = (IF Oldest = 0 THEN DOMAIN f ELSE {}) \cup {j + 1 : j \in moved}
        /\ \A i \in DOMAIN r : r[i] = IF i - 1 \in moved THEN f[i - 1] ELSE f[i]
    BY DEF Rotated
  <2>2. /\ DOMAIN h = DOMAIN r \cup {0} /\ h[0] = <<>>
        /\ \A i \in DOMAIN r : i # 0 => h[i] = r[i]
    BY DEF Reopened
  <2>3. DOMAIN f \subseteq 0 .. Oldest
    BY <1>2
  <2> HIDE DEF r, h
  <2>4. \A i : i \in DOMAIN r /\ i # 0 <=> i - 1 \in moved /\ i \in 1 .. Oldest
    BY <2>1, <2>3
  <2> QED
    BY <2>1, <2>2, <2>4
<1>4. /\ DOMAIN g = DOMAIN h /\ g[0] = <<rec>> /\ \A i \in DOMAIN h : i # 0 => g[i] = h[i]
  <2>1. g[0] = Append(h[0], rec) /\ DOMAIN g = DOMAIN h /\ \A i \in DOMAIN h : i # 0 => g[i] = h[i]
    BY <1>3
  <2>2. Append(<<>>, rec) = <<rec>>
    OBVIOUS
  <2> QED
    BY <1>3, <2>1, <2>2, Zenon
<1>5. Len(t) = w + 1 /\ t[w + 1] = rec /\ \A k \in 1 .. w : t[k] = s[k]
  BY <1>1
<1> HIDE DEF g, h, t
<1>6. \A i \in 1 .. Oldest : i \in DOMAIN g <=> i - 1 \in DOMAIN f
  BY <1>3, <1>4
<1>7. DOMAIN g = {i \in 0 .. Oldest : i = 0 \/ 1 + (i - 1) * b < w + 1}
  <2>1. b <= w
    BY <1>2
  <2>2. ASSUME NEW i \in 1 .. Oldest PROVE i \in DOMAIN g <=> 1 + (i - 1) * b < w + 1
    <3>1. CASE i = 1
      BY <1>2, <1>6, <2>1, <3>1
    <3>2. CASE i > 1
      <4>1. b + ((i - 1) - 1) * b = (i - 1) * b
        OBVIOUS
      <4>2. i - 1 \in DOMAIN f <=> (i - 1) * b < w
        BY <1>2, <3>2, <4>1
      <4> QED
        BY <1>6, <4>2
    <3> QED
      BY <3>1, <3>2
  <2>3. \A i \in DOMAIN g : i = 0 \/ i \in 1 .. Oldest
    BY <1>3, <1>4
  <2>4. 0 \in DOMAIN g /\ \A i \in 0 .. Oldest : i = 0 \/ i \in 1 .. Oldest
    BY <1>3, <1>4
  <2>5. \A i \in 1 .. Oldest : i \in 0 .. Oldest
    OBVIOUS
  <2>6. 0 \in 0 .. Oldest
    OBVIOUS
  <2> QED
    BY <2>2, <2>3, <2>4, <2>5, <2>6, Zenon
<1>8. ASSUME NEW i \in DOMAIN g, i > 0
      PROVE  /\ i - 1 \in DOMAIN f /\ g[i] = f[i - 1] /\ Len(g[i]) = b /\ 1 + i * b <= w + 1
             /\ \A k \in DOMAIN g[i] : g[i][k] = t[(w + 1) - (1 + i * b) + k]
  <2>1. i \in 1 .. Oldest /\ i - 1 \in DOMAIN f /\ g[i] = f[i - 1]
    BY <1>3, <1>4, <1>8
  <2>2. PICK j \in Nat : j = i - 1
    BY <2>1
  <2>3. j \in DOMAIN f /\ g[i] = f[j] /\ i = j + 1
    BY <2>1, <2>2
  <2>4. PICK m \in Nat : m = j * b
    OBVIOUS
  <2>5. i * b = m + b
    BY <2>3, <2>4
  <2>6. /\ b + m <= w /\ Len(f[j]) = b /\ f[j] \in Seq(Records)
        /\ \A k \in DOMAIN f[j] : f[j][k] = s[w - (b + m) + k]
    <3>1. CASE j = 0
      BY <1>1, <1>2, <2>3, <2>4, <3>1 DEF FilesTyped
    <3>2. CASE j > 0
      BY <1>2, <2>3, <2>4, <3>2 DEF FilesTyped
    <3> QED
      BY <3>1, <3>2
  <2>7. \A k \in 1 .. b : w - (b + m) + k \in 1 .. w /\ (w + 1) - (1 + (m + b)) + k = w - (b + m) + k
    BY <2>6
  <2>8. ASSUME NEW k \in DOMAIN g[i] PROVE g[i][k] = t[(w + 1) - (1 + (m + b)) + k]
    <3>1. k \in DOMAIN f[j] /\ k \in 1 .. b
      BY <2>3, <2>6, <2>8
    <3>2. g[i][k] = s[w - (b + m) + k]
      BY <2>3, <2>6, <3>1
    <3>3. t[w - (b + m) + k] = s[w - (b + m) + k]
      BY <1>5, <2>7, <3>1
    <3> QED
      BY <2>7, <3>1, <3>2, <3>3, Zenon
  <2>9. 1 + (m + b) <= w + 1
    BY <2>6
  <2> QED
    BY <2>1, <2>3, <2>5, <2>6, <2>8, <2>9
<1>9. Len(g[0]) = 1 /\ \A k \in DOMAIN g[0] : g[0][k] = t[(w + 1) - (1 + 0 * b) + k]
  BY <1>4, <1>5
<1>10. \A i \in DOMAIN g : i = 0 \/ i > 0
  BY <1>7
<1>11. HoldsEnd(g, t)
  <2>1. Len(g[0]) = 1 /\ Len(t) = w + 1 /\ limits.bytes = b
    BY <1>1, <1>5, <1>9
  <2>2. 0 \in DOMAIN g /\ \A i \in DOMAIN g : i > 0 => Len(g[i]) = b
    BY <1>3, <1>4, <1>8
  <2>3. \A i \in DOMAIN g : 1 + i * b <= w + 1
    <3>1. 1 + 0 * b <= w + 1
      OBVIOUS
    <3> QED
      BY <1>8, <1>10, <3>1, Zenon
  <2>4. \A i \in DOMAIN g : \A k \in DOMAIN g[i] : g[i][k] = t[(w + 1) - (1 + i * b) + k]
    BY <1>8, <1>9, <1>10, Zenon
  <2>5. DOMAIN g = {i \in 0 .. Oldest : i = 0 \/ Len(g[0]) + (i - 1) * limits.bytes < Len(t)}
    BY <1>7, <2>1
  <2>6. \A i \in DOMAIN g : Len(g[0]) + i * limits.bytes <= Len(t)
    BY <2>1, <2>3
  <2>7. \A i \in DOMAIN g : \A k \in DOMAIN g[i] :
          g[i][k] = t[Len(t) - (Len(g[0]) + i * limits.bytes) + k]
    BY <2>1, <2>4
  <2>8. \A i \in DOMAIN g : i > 0 => Len(g[i]) = limits.bytes
    BY <2>1, <2>2
  <2> QED
    BY <2>2, <2>5, <2>6, <2>7, <2>8, Zenon DEF HoldsEnd
<1> QED
  BY <1>11 DEF g, h, t

(* The steps of the worker and of the stop that touch the files.           *)
LEMMA FilesKept ==
  ASSUME FilesInv, UNCHANGED <<limits, files, written, mishaps>>, opened' => opened
  PROVE  FilesInv'
<1>1. FileTypes'
  BY DEF FilesInv, FileTypes, FilesTyped
<1>2. FilesInOrder'
  BY DEF FilesInv, FilesInOrder, Before, Oldest
<1>3. FilesHoldTheEnd'
  BY DEF FilesInv, FilesHoldTheEnd, Held, Oldest
<1> QED
  BY <1>1, <1>2, <1>3 DEF FilesInv

LEMMA FilesChanged ==
  ASSUME UNCHANGED limits, limits.bytes \in Nat \ {0}, limits.files \in Nat \ {0}, mishaps' \in Nat,
         NEW f, NEW s, files' = f, written' = s, FilesTyped(f), opened' => 0 \in DOMAIN f,
         Ordered(f, s), mishaps' = 0 => HoldsEnd(f, s)
  PROVE  FilesInv'
<1>1. FileTypes'
  BY DEF FileTypes, FilesTyped
<1>2. FilesInOrder'
  BY DEF FilesInOrder, Ordered, Before, Oldest
<1>3. FilesHoldTheEnd'
  BY DEF FilesHoldTheEnd, HoldsEnd, Held, Oldest
<1> QED
  BY <1>1, <1>2, <1>3 DEF FilesInv

(* The three ways of the worker with a record.                             *)
LEMMA WorkerWriteFiles ==
  ASSUME QueueInv, AccountInv, FilesInv, WorkerWrite
  PROVE  FilesInv'
<1>1. UNCHANGED limits
  BY DEF WorkerWrite
<1>2. PICK rec \in Records : rec = Cell(worker.pos).record
  <2>1. worker.step = "write"
    BY DEF WorkerWrite
  <2> QED
    BY <2>1, WorkerRecord DEF QueueInv, QueueTypes
<1>3. PICK f, s : f = files /\ s = written
  OBVIOUS
<1>4. /\ limits.bytes \in Nat \ {0} /\ limits.files \in Nat \ {0} /\ Oldest \in Nat /\ mishaps \in Nat
      /\ FilesTyped(f) /\ (opened => 0 \in DOMAIN f) /\ s \in Seq(Records)
      /\ Ordered(f, s) /\ DOMAIN f \subseteq 0 .. Oldest /\ (mishaps = 0 => HoldsEnd(f, s))
  BY <1>3, FilesOrdered, EndHeld
     DEF FilesInv, FileTypes, AccountInv, AccountTypes, Oldest, Ordered
<1>5. CASE ~opened /\ UNCHANGED output
  BY <1>1, <1>5, FilesKept DEF output
<1>6. CASE opened /\ Len(files[0]) < limits.bytes /\ WriteLine(files, rec) /\ UNCHANGED mishaps
  <2>1. PICK g, t : g = [f EXCEPT ![0] = Append(@, rec)] /\ t = Append(s, rec)
    OBVIOUS
  <2>2. files' = g /\ written' = t /\ mishaps' = mishaps /\ 0 \in DOMAIN g
    BY <1>3, <1>4, <1>6, <2>1 DEF WriteLine
  <2>3. Len(f[0]) < limits.bytes /\ 0 \in DOMAIN f
    BY <1>3, <1>4, <1>6
  <2>4. FilesTyped(g) /\ Ordered(g, t)
    BY <1>4, <2>1, <2>3, WriteOrdered
  <2>5. mishaps = 0 => HoldsEnd(g, t)
    BY <1>4, <2>1, <2>3, WriteHoldsEnd
  <2> QED
    BY <1>1, <1>4, <2>2, <2>4, <2>5, FilesChanged
<1>7. CASE opened /\ Len(files[0]) >= limits.bytes /\ Rotate(rec)
  <2>1. PICK stuck \in SUBSET DOMAIN f, reopens \in BOOLEAN :
          LET failures == Cardinality(stuck) + (IF reopens THEN 0 ELSE 1)
              r == Rotated(f, stuck)
          IN  /\ mishaps' = mishaps + failures
              /\ \/ reopens /\ WriteLine(Reopened(r), rec)
                 \/ ~reopens /\ Lose(rec) /\ files' = r /\ opened' = FALSE /\ UNCHANGED written
    BY <1>3, <1>7, Zenon DEF Rotate
  <2>2. PICK r : r = Rotated(f, stuck)
    OBVIOUS
  <2>3. FilesTyped(r) /\ Ordered(r, s)
    BY <1>4, <2>2, RotatedOrdered
  <2>4. IsFiniteSet(stuck) /\ Cardinality(stuck) \in Nat /\ (Cardinality(stuck) = 0 => stuck = {})
    <3>1. IsFiniteSet(0 .. Oldest)
      BY <1>4, FS_Interval
    <3>2. stuck \subseteq 0 .. Oldest
      BY <1>4
    <3>3. IsFiniteSet(stuck)
      BY <3>1, <3>2, FS_Subset
    <3> QED
      BY <3>3, FS_CardinalityType, FS_EmptySet
  <2>5. CASE ~reopens
    <3>1. files' = r /\ written' = s /\ ~opened' /\ mishaps' \in Nat /\ mishaps' # 0
      BY <1>3, <1>4, <2>1, <2>2, <2>4, <2>5
    <3> QED
      BY <1>1, <1>4, <2>3, <3>1, FilesChanged
  <2>6. CASE reopens
    <3>1. PICK h : h = Reopened(r)
      OBVIOUS
    <3>2. PICK g, t : g = [h EXCEPT ![0] = Append(@, rec)] /\ t = Append(s, rec)
      OBVIOUS
    <3>3. FilesTyped(h) /\ Ordered(h, s)
      BY <1>4, <2>3, <3>1, ReopenedOrdered
    <3>4. 0 \in DOMAIN h /\ Len(h[0]) < limits.bytes /\ 0 \in DOMAIN g
      BY <1>4, <3>1, <3>2 DEF Reopened
    <3>5. FilesTyped(g) /\ Ordered(g, t)
      BY <1>4, <3>2, <3>3, <3>4, WriteOrdered
    <3>6. files' = g /\ written' = t /\ mishaps' = mishaps + Cardinality(stuck) /\ mishaps' \in Nat
      BY <1>3, <1>4, <2>1, <2>2, <2>4, <2>6, <3>1, <3>2 DEF WriteLine
    <3>7. ASSUME mishaps' = 0 PROVE HoldsEnd(g, t)
      <4>1. mishaps = 0 /\ stuck = {}
        BY <1>4, <2>4, <3>6, <3>7
      <4>2. HoldsEnd(f, s) /\ Len(f[0]) = limits.bytes
        <5>1. HoldsEnd(f, s) /\ 0 \in DOMAIN f /\ f[0] \in Seq(Records)
          BY <1>4, <1>7, <4>1 DEF FilesTyped
        <5>2. Len(f[0]) <= limits.bytes /\ Len(f[0]) >= limits.bytes /\ Len(f[0]) \in Nat
          BY <1>3, <1>4, <1>7, <5>1 DEF Ordered
        <5> QED
          BY <1>4, <5>1, <5>2
      <4>3. g = [Reopened(Rotated(f, {})) EXCEPT ![0] = Append(@, rec)]
        BY <2>2, <3>1, <3>2, <4>1
      <4>4. HoldsEnd([Reopened(Rotated(f, {})) EXCEPT ![0] = Append(@, rec)], Append(s, rec))
        BY <1>4, <4>2, RotateHoldsEnd
      <4> QED
        BY <3>2, <4>3, <4>4, Zenon
    <3> QED
      BY <1>1, <1>4, <3>4, <3>5, <3>6, <3>7, FilesChanged
  <2> QED
    BY <2>5, <2>6
<1> QED
  BY <1>2, <1>5, <1>6, <1>7 DEF WorkerWrite
-----------------------------------------------------------------------------
(* The queue, the accounts and the files together.                         *)

LEMMA WriterInvInit == Init => WriterInv
  BY QueueInit, AccountInit, FilesInit DEF WriterInv

LEMMA FilesApart ==
  ASSUME FilesInv, UNCHANGED <<limits, output>>
  PROVE  FilesInv'
  BY FilesKept DEF output

(* A push of a record that was not seen.                                   *)
LEMMA WriterPush ==
  ASSUME WriterInv, NEW t \in Threads, NEW rec \in Records, PushStart(t, rec), ~stopped,
         rec.from = t, rec \notin Seen
  PROVE  WriterInv' /\ Seen' \subseteq Seen \cup {rec}
<1>1. QueueInv' /\ AccountInv'
  BY PushStartQueue, PushStartAccount DEF WriterInv, Seen
<1>2. FilesInv'
  BY FilesApart DEF WriterInv, PushStart
<1>3. /\ UNCHANGED <<tickets, lost>> /\ pushing \in [Threads -> PushStates]
      /\ pushing' = [pushing EXCEPT ![t] = [step |-> "cell", pos |-> enqueue_pos, rec |-> rec]]
  BY DEF PushStart, WriterInv, QueueInv, QueueTypes
<1>4. UnderWay' \subseteq UnderWay \cup {rec}
  BY <1>3 DEF UnderWay
<1> QED
  BY <1>1, <1>2, <1>3, <1>4 DEF WriterInv, Seen

LEMMA WriterCell ==
  ASSUME WriterInv, NEW t \in Threads, PushCell(t)
  PROVE  WriterInv' /\ Seen' \subseteq Seen
<1>1. FilesInv'
  BY FilesApart DEF WriterInv, PushCell
<1>2. /\ pushing[t].step = "cell" /\ pushing \in [Threads -> PushStates] /\ enqueue_pos \in Nat
      /\ tickets \in Seq(Records) /\ pushing[t].rec \in Records /\ pushing[t].rec \in UnderWay
  BY DEF PushCell, WriterInv, QueueInv, QueueTypes, AccountInv, Offered, UnderWay
<1>3. CASE Draws(t) /\ UNCHANGED <<dropped_records, lost>>
  <2>1. QueueInv' /\ AccountInv'
    BY <1>2, <1>3, DrawsQueue, DrawsAccount DEF WriterInv
  <2>2. ToSet(tickets') = ToSet(tickets) \cup {pushing[t].rec}
    BY <1>2, <1>3, Appended DEF Draws
  <2>3. pushing' = [pushing EXCEPT ![t].step = "publish"]
    BY <1>2, <1>3, Drawing DEF WriterInv
  <2>4. \A u \in Threads : pushing'[u].step = "cell" => pushing'[u] = pushing[u]
    BY <1>2, <2>3 DEF PushStates
  <2>5. UnderWay' \subseteq UnderWay
    BY <2>4 DEF UnderWay
  <2> QED
    BY <1>1, <1>2, <1>3, <2>1, <2>2, <2>5 DEF WriterInv, Seen
<1>4. CASE UNCHANGED <<enqueue_pos, tickets>>
  <2>1. QueueInv' /\ AccountInv'
    BY <1>4, NotDrawnQueue, NotDrawnAccount DEF WriterInv
  <2>2. /\ \/ lost' = lost \cup {pushing[t].rec} /\ pushing' = [pushing EXCEPT ![t] = NotPushing]
           \/ lost' = lost /\ pushing' = [pushing EXCEPT ![t] = [pushing[t] EXCEPT !.pos = enqueue_pos]]
    BY <1>2, <1>4, PushCellCases DEF Draws, Lose
  <2>3. [pushing[t] EXCEPT !.pos = enqueue_pos].rec = pushing[t].rec
    BY <1>2 DEF PushStates
  <2>4. UnderWay' \subseteq UnderWay
    <3>1. \A u \in Threads : pushing'[u].step = "cell" =>
            pushing[u].step = "cell" /\ pushing'[u].rec = pushing[u].rec
      <4>1. CASE pushing' = [pushing EXCEPT ![t] = NotPushing]
        BY <1>2, <4>1 DEF NotPushing
      <4>2. CASE pushing' = [pushing EXCEPT ![t] = [pushing[t] EXCEPT !.pos = enqueue_pos]]
        BY <1>2, <2>3, <4>2
      <4> QED
        BY <2>2, <4>1, <4>2
    <3> QED
      BY <3>1 DEF UnderWay
  <2> QED
    BY <1>1, <1>2, <1>4, <2>1, <2>2, <2>4 DEF WriterInv, Seen
<1> QED
  BY <1>3, <1>4, PushCellCases

LEMMA WriterPublish ==
  ASSUME WriterInv, NEW t \in Threads, PushPublish(t)
  PROVE  WriterInv' /\ Seen' \subseteq Seen
<1>1. FilesInv'
  BY FilesApart DEF WriterInv, PushPublish
<1>2. QueueInv' /\ Low' = Low
  BY PublishQueue DEF WriterInv
<1>3. /\ UNCHANGED <<tickets, written, lost, dropped_records, refused>>
      /\ \A u \in Threads : pushing'[u].step = "cell" =>
            pushing[u].step = "cell" /\ pushing'[u].rec = pushing[u].rec
  BY DEF PushPublish, output, NotPushing, WriterInv, QueueInv, QueueTypes
<1>4. AccountInv'
  BY <1>2, <1>3, AccountKept DEF WriterInv
<1>5. UnderWay' \subseteq UnderWay
  BY <1>3 DEF UnderWay
<1> QED
  BY <1>1, <1>2, <1>3, <1>4, <1>5 DEF WriterInv, Seen

(* Steps that neither push nor write.                                      *)
LEMMA WriterKept ==
  ASSUME WriterInv, UNCHANGED <<limits, queue, pushing, files, written, mishaps, dropped_records,
                                tickets, lost, refused>>,
         worker' \in WorkerStates, worker'.step = "write" <=> worker.step = "write",
         worker'.pos = worker.pos, opened' => opened
  PROVE  WriterInv' /\ Seen' = Seen
<1>1. QueueInv' /\ Low' = Low
  BY QueueKept DEF WriterInv, queue, QueueInv, QueueTypes
<1>2. AccountInv'
  BY <1>1, AccountKept DEF WriterInv
<1>3. FilesInv'
  BY FilesKept DEF WriterInv
<1>4. UnderWay' = UnderWay
  BY DEF UnderWay
<1> QED
  BY <1>1, <1>2, <1>3, <1>4 DEF WriterInv, Seen

LEMMA WriterUnchanged == WriterInv /\ UNCHANGED writerVars => WriterInv' /\ Seen' = Seen
  BY WriterKept DEF writerVars, output, queue, WriterInv, QueueInv, QueueTypes

LEMMA WriterTake ==
  ASSUME WriterInv, WorkerTake
  PROVE  WriterInv' /\ Seen' \subseteq Seen
<1>1. QueueInv' /\ Low' = Low
  BY WorkerTakeQueue DEF WriterInv
<1>2. UNCHANGED <<tickets, written, lost, dropped_records, refused, pushing>> /\ UNCHANGED <<limits, output>>
  BY DEF WorkerTake, output
<1>3. AccountInv' /\ FilesInv'
  BY <1>1, <1>2, AccountKept, FilesApart DEF WriterInv
<1>4. UnderWay' = UnderWay
  BY <1>2 DEF UnderWay
<1> QED
  BY <1>1, <1>2, <1>3, <1>4 DEF WriterInv, Seen

LEMMA WriterWrite ==
  ASSUME WriterInv, WorkerWrite
  PROVE  WriterInv' /\ Seen' \subseteq Seen
<1>1. WriterInv'
  BY WorkerWriteQueue, WorkerWriteAccount, WorkerWriteFiles DEF WriterInv
<1>2. UNCHANGED <<tickets, pushing>> /\ worker.step = "write"
  BY WorkerWriteCases
<1>3. Cell(worker.pos).record \in ToSet(tickets)
  BY <1>2, WorkerRecord DEF WriterInv, ToSet
<1>4. lost' \subseteq lost \cup {Cell(worker.pos).record}
  BY WorkerWriteCases DEF Writes, GivesUp, Lose
<1>5. UnderWay' = UnderWay
  BY <1>2 DEF UnderWay
<1> QED
  BY <1>1, <1>2, <1>3, <1>4, <1>5 DEF Seen

(* Every step of the writer's threads.                                     *)
LEMMA OfWriterStep ==
  ASSUME WriterInv, OfWriter
  PROVE  WriterInv' /\ Seen' \subseteq Seen
<1>1. ASSUME NEW t \in Threads, PushCell(t) \/ PushPublish(t) PROVE WriterInv' /\ Seen' \subseteq Seen
  BY <1>1, WriterCell, WriterPublish
<1>2. CASE WorkerTake \/ WorkerWrite
  BY <1>2, WriterTake, WriterWrite
<1>3. CASE WorkerExit
  <2>1. worker' \in WorkerStates /\ worker'.step = "exited" /\ worker'.pos = worker.pos
    BY <1>3 DEF WorkerExit, WriterInv, QueueInv, QueueTypes, WorkerStates
  <2>2. WriterInv' /\ Seen' = Seen
    BY <1>3, <2>1, WriterKept DEF WorkerExit, output
  <2> QED
    BY <2>2
<1> QED
  BY <1>1, <1>2, <1>3 DEF OfWriter
-----------------------------------------------------------------------------
(* What is offered to the stream.                                          *)

LEMMA ThreadsApart == /\ MAIN \in Threads /\ MAIN \notin Consumers /\ Consumers \subseteq Threads
                      /\ Threads = Consumers \cup {MAIN}
  BY LoopAssumption DEF Consumers

LEMMA FeedInit == Init => Feed /\ ShutdownOrder
<1> SUFFICES ASSUME Init PROVE Feed /\ ShutdownOrder
  OBVIOUS
<1>1. /\ filtered = <<>> /\ tickets = <<>> /\ lost = {} /\ clock = 0
      /\ pushing = [t \in Threads |-> NotPushing]
      /\ \A c \in Consumers : buffers[c] = <<>> /\ consumer[c].step = "idle"
  BY DEF Init, WriterInit
<1>2. Seen = {}
  BY <1>1 DEF Seen, UnderWay, ToSet, NotPushing
<1>3. Told = {}
  BY <1>1, <1>2 DEF Told
<1>4. \A c \in Consumers : Pending(c) = {}
  BY <1>1 DEF Pending
<1>5. Feed
  <2>1. filtered \in Seq(Nat) /\ DOMAIN filtered = {}
    BY <1>1
  <2> QED
    BY <1>2, <1>3, <1>4, <2>1 DEF Feed
<1>6. ShutdownOrder
  BY ThreadsApart DEF Init, WriterInit, ShutdownOrder, Idle, NotPushing
<1> QED
  BY <1>5, <1>6

(* Facts about a consumer and its event that the steps below rely on.      *)
LEMMA EventFacts ==
  ASSUME WorldTypes, InOrder, NEW c \in Consumers
  PROVE  /\ consumer[c] \in [step : ConsumerSteps, event : Events] /\ consumer[c].event.ts \in Nat
         /\ buffers[c] \in Seq(Events) /\ clock \in Nat /\ reached[c] \in Nat
         /\ \A ts \in Pending(c) : ts \in Nat /\ ts <= clock /\ reached[c] < ts
         /\ Holding(c) => /\ consumer[c].event.ts <= clock /\ reached[c] < consumer[c].event.ts
                          /\ \A i \in DOMAIN buffers[c] : buffers[c][i].ts # consumer[c].event.ts
<1>1. /\ consumer[c] \in [step : ConsumerSteps, event : Events] /\ consumer[c].event.ts \in Nat
      /\ buffers[c] \in Seq(Events) /\ clock \in Nat /\ reached[c] \in Nat
      /\ \A i \in DOMAIN buffers[c] : buffers[c][i].ts \in Nat
  BY SessionTypes DEF WorldTypes
<1>2. OrderOf(c)
  BY DEF InOrder
<1>3. Holding(c) => /\ consumer[c].event.ts <= clock /\ reached[c] < consumer[c].event.ts
                    /\ \A i \in DOMAIN buffers[c] : buffers[c][i].ts # consumer[c].event.ts
  BY <1>1, <1>2 DEF OrderOf
<1>4. \A ts \in Pending(c) : ts \in Nat /\ ts <= clock /\ reached[c] < ts
  BY <1>1, <1>2, <1>3 DEF Pending, OrderOf, Holding
<1> QED
  BY <1>1, <1>3, <1>4

(* A step that tells nothing, offers nothing and holds nothing back.       *)
LEMMA FeedShrinks ==
  ASSUME Feed, UNCHANGED filtered, Seen' \subseteq Seen, clock' = clock, clock \in Nat,
         \A c \in Consumers : Pending(c)' \subseteq Pending(c),
         \A c \in Consumers : reached'[c] = reached[c],
         \A c \in Consumers : consumer[c].step \in {"engine", "processed"} =>
            consumer'[c].step \in {"engine", "processed"} /\ consumer'[c].event.ts = consumer[c].event.ts
  PROVE  Feed'
<1>1. \A c \in Consumers : \A r \in Seen' : r.from = c => OfferedBefore(c, r.ts)'
  BY DEF Feed, OfferedBefore
<1>2. Told' \subseteq Told
  BY DEF Told
<1>3. \A i \in DOMAIN filtered' : [from |-> MAIN, ts |-> filtered'[i]] \notin Seen'
  BY DEF Feed
<1>4. \A ts \in Told' : ts <= clock' /\ \A c \in Consumers : ts \notin Pending(c)'
  BY <1>2 DEF Feed
<1>5. \A c, d \in Consumers : c # d => Pending(c)' \cap Pending(d)' = {}
  BY DEF Feed
<1> QED
  BY <1>1, <1>3, <1>4, <1>5 DEF Feed

LEMMA FeedUnchanged ==
  ASSUME Feed, clock \in Nat, UNCHANGED <<filtered, world, consumer, reached>>, Seen' \subseteq Seen
  PROVE  Feed'
<1>1. \A c \in Consumers : Pending(c)' = Pending(c)
  BY DEF Pending, world
<1> QED
  BY <1>1, FeedShrinks DEF world

LEMMA SeenTypes == WriterInv => Seen \subseteq Records /\ \A r \in Seen : r.ts \in Nat
<1> SUFFICES ASSUME WriterInv PROVE Seen \subseteq Records
  BY DEF Records
<1>1. ToSet(tickets) \subseteq Records
  BY DEF WriterInv, QueueInv, QueueTypes, ToSet
<1>2. lost \subseteq Records
  BY DEF WriterInv, AccountInv, AccountTypes
<1>3. UnderWay \subseteq Records
  BY DEF WriterInv, AccountInv, Offered, UnderWay
<1> QED
  BY <1>1, <1>2, <1>3 DEF Seen

LEMMA ToldTypes == WriterInv /\ Feed => Told \subseteq Nat
<1> SUFFICES ASSUME WriterInv, Feed PROVE Told \subseteq Nat
  OBVIOUS
<1>1. \A i \in DOMAIN filtered : filtered[i] \in Nat
  BY DEF Feed
<1>2. \A r \in Seen : r.ts \in Nat
  BY SeenTypes
<1> QED
  BY <1>1, <1>2 DEF Told

(* An event is logged, with a time of its own.                             *)
LEMMA FeedLog ==
  ASSUME WriterInv, Feed, WorldTypes, InOrder, NEW c \in Consumers, Log(c), Seen' \subseteq Seen
  PROVE  Feed'
<1>1. PICK kind : buffers' = [buffers EXCEPT ![c] = Append(@, [ts |-> clock + 1, kind |-> kind])]
  BY DEF Log
<1>2. clock' = clock + 1 /\ clock \in Nat /\ UNCHANGED <<filtered, consumer, reached>>
  BY DEF Log, WorldTypes
<1>3. Pending(c)' \subseteq Pending(c) \cup {clock + 1}
  <2>1. buffers'[c] = Append(buffers[c], [ts |-> clock + 1, kind |-> kind]) /\ buffers[c] \in Seq(Events)
    BY <1>1 DEF WorldTypes
  <2>2. \A i \in DOMAIN buffers'[c] : \/ i \in DOMAIN buffers[c] /\ buffers'[c][i] = buffers[c][i]
                                      \/ buffers'[c][i] = [ts |-> clock + 1, kind |-> kind]
    BY <2>1
  <2>3. \A i \in DOMAIN buffers'[c] : \/ i \in DOMAIN buffers[c] /\ buffers'[c][i].ts = buffers[c][i].ts
                                      \/ buffers'[c][i].ts = clock + 1
    BY <2>2
  <2> QED
    BY <1>2, <2>3 DEF Pending
<1>4. \A d \in Consumers : d # c => Pending(d)' = Pending(d)
  BY <1>1, <1>2 DEF Pending, WorldTypes
<1>5. \A d \in Consumers : \A ts \in Pending(d) : ts <= clock /\ ts \in Nat
  BY EventFacts
<1>6. Told' \subseteq Told /\ \A ts \in Told : ts <= clock /\ ts \in Nat
  BY <1>2, ToldTypes DEF Told, Feed
<1>7. \A d \in Consumers : \A r \in Seen' : r.from = d => OfferedBefore(d, r.ts)'
  BY <1>2 DEF Feed, OfferedBefore
<1>8. \A i \in DOMAIN filtered' : [from |-> MAIN, ts |-> filtered'[i]] \notin Seen'
  BY <1>2 DEF Feed
<1>9. ASSUME NEW ts \in Told' PROVE ts <= clock' /\ \A d \in Consumers : ts \notin Pending(d)'
  <2>1. ts \in Told /\ ts <= clock' /\ ts # clock + 1
    BY <1>2, <1>6
  <2>2. \A d \in Consumers : ts \notin Pending(d)
    BY <2>1 DEF Feed
  <2> QED
    BY <1>3, <1>4, <2>1, <2>2
<1>10. ASSUME NEW d \in Consumers, NEW e \in Consumers, d # e PROVE Pending(d)' \cap Pending(e)' = {}
  <2>1. Pending(d) \cap Pending(e) = {}
    BY <1>10 DEF Feed
  <2>2. clock + 1 \notin Pending(d) /\ clock + 1 \notin Pending(e)
    BY <1>2, <1>5
  <2> QED
    BY <1>3, <1>4, <1>10, <2>1, <2>2
<1> QED
  BY <1>2, <1>7, <1>8, <1>9, <1>10 DEF Feed

(* A session's next event is delivered, or dropped after the stop.         *)
LEMMA FeedDeliver ==
  ASSUME Feed, WorldTypes, NEW c \in Consumers, Deliver(c), Seen' \subseteq Seen
  PROVE  Feed'
<1>1. /\ consumer[c].step = "idle" /\ buffers[c] # <<>> /\ buffers' = [buffers EXCEPT ![c] = Tail(@)]
      /\ UNCHANGED <<filtered, clock, reached>> /\ clock \in Nat
      /\ \/ consumer' = consumer
         \/ consumer' = [consumer EXCEPT ![c] = [step |-> "record", event |-> Head(buffers[c])]]
  BY DEF Deliver, WorldTypes
<1>2. Pending(c)' \subseteq Pending(c)
  <2>1. buffers'[c] = Tail(buffers[c]) /\ buffers[c] \in Seq(Events) /\ buffers[c] # <<>>
    BY <1>1 DEF WorldTypes
  <2>2. /\ \A i \in DOMAIN buffers'[c] : i + 1 \in DOMAIN buffers[c] /\ buffers'[c][i] = buffers[c][i + 1]
        /\ 1 \in DOMAIN buffers[c] /\ Head(buffers[c]) = buffers[c][1]
    BY <2>1
  <2>3. \/ consumer'[c].step = "idle"
        \/ consumer'[c].event.ts = buffers[c][1].ts
    BY <1>1, <2>2 DEF WorldTypes
  <2> QED
    BY <2>2, <2>3 DEF Pending
<1>3. \A d \in Consumers : d # c => buffers'[d] = buffers[d] /\ consumer'[d] = consumer[d]
  BY <1>1 DEF WorldTypes
<1>4. \A d \in Consumers : Pending(d)' \subseteq Pending(d)
  BY <1>2, <1>3 DEF Pending
<1>5. \A d \in Consumers : consumer[d].step \in {"engine", "processed"} => consumer'[d] = consumer[d]
  BY <1>1, <1>3
<1> QED
  BY <1>1, <1>4, <1>5, FeedShrinks

(* The steps of a consumer that change neither its event nor what is told. *)
LEMMA FeedStepTo ==
  ASSUME Feed, WorldTypes, NEW c \in Consumers, NEW step \in ConsumerSteps, StepTo(c, step),
         UNCHANGED <<buffers, clock, reached, filtered>>, Seen' \subseteq Seen,
         step \in {"record", "stream", "engine"} => consumer[c].step \in {"record", "stream", "engine"},
         consumer[c].step \in {"engine", "processed"} => step \in {"engine", "processed"}
  PROVE  Feed'
<1>1. /\ consumer'[c].step = step /\ consumer'[c].event = consumer[c].event
      /\ \A d \in Consumers : d # c => consumer'[d] = consumer[d]
  BY StepToType
<1>2. \A d \in Consumers : Pending(d)' \subseteq Pending(d)
  <2>1. Pending(c)' \subseteq Pending(c)
    BY <1>1 DEF Pending
  <2>2. \A d \in Consumers : d # c => Pending(d)' = Pending(d)
    BY <1>1 DEF Pending
  <2> QED
    BY <2>1, <2>2
<1>3. \A d \in Consumers : consumer[d].step \in {"engine", "processed"} =>
            consumer'[d].step \in {"engine", "processed"} /\ consumer'[d].event.ts = consumer[d].event.ts
  BY <1>1
<1> QED
  BY <1>2, <1>3, FeedShrinks DEF WorldTypes

(* A consumer offers the line of its event.                                *)
LEMMA FeedLine ==
  ASSUME Feed, WorldTypes, InOrder, NEW c \in Consumers, EmitLine(c),
         Seen' \subseteq Seen \cup {[from |-> c, ts |-> consumer[c].event.ts]}
  PROVE  Feed'
<1> DEFINE rec == [from |-> c, ts |-> consumer[c].event.ts]
<1>1. /\ consumer[c].step = "stream" /\ StepTo(c, "engine") /\ "engine" \in ConsumerSteps
      /\ UNCHANGED <<buffers, clock, reached, filtered>> /\ c # MAIN
  BY ThreadsApart DEF EmitLine, world, ConsumerSteps
<1>2. /\ consumer'[c].step = "engine" /\ consumer'[c].event = consumer[c].event
      /\ \A d \in Consumers : d # c => consumer'[d] = consumer[d]
  BY <1>1, StepToType
<1>3. \A d \in Consumers : Pending(d)' = Pending(d)
  BY <1>1, <1>2 DEF Pending
<1>4. \A d \in Consumers : \A r \in Seen' : r.from = d => OfferedBefore(d, r.ts)'
  <2> SUFFICES ASSUME NEW d \in Consumers, NEW r \in Seen', r.from = d PROVE OfferedBefore(d, r.ts)'
    OBVIOUS
  <2>1. CASE r = rec
    BY <1>2, <2>1 DEF OfferedBefore
  <2>2. CASE r # rec
    <3>1. OfferedBefore(d, r.ts)
      BY <2>2 DEF Feed
    <3> QED
      BY <1>1, <1>2, <3>1 DEF OfferedBefore
  <2> QED
    BY <2>1, <2>2
<1>5. \A r \in Seen' : r.from = MAIN => r \in Seen
  BY <1>1
<1>6. \A i \in DOMAIN filtered' : [from |-> MAIN, ts |-> filtered'[i]] \notin Seen'
  BY <1>1, <1>5 DEF Feed
<1>7. Told' \subseteq Told
  BY <1>1, <1>5 DEF Told
<1>8. \A ts \in Told' : ts <= clock' /\ \A d \in Consumers : ts \notin Pending(d)'
  BY <1>1, <1>3, <1>7 DEF Feed
<1> QED
  BY <1>1, <1>3, <1>4, <1>6, <1>8 DEF Feed

(* A mild event is told to the ring of filtered events.                    *)
LEMMA FeedMild ==
  ASSUME Feed, WorldTypes, InOrder, NEW c \in Consumers, consumer[c].step = "engine",
         StepTo(c, "processed"), filtered' = Append(filtered, consumer[c].event.ts),
         UNCHANGED <<buffers, clock, reached>>, Seen' \subseteq Seen
  PROVE  Feed'
<1>1. PICK ts \in Nat : ts = consumer[c].event.ts
  BY EventFacts
<1>2. /\ ts <= clock /\ ts \in Pending(c) /\ \A i \in DOMAIN buffers[c] : buffers[c][i].ts # ts
  BY <1>1, EventFacts DEF Holding, Pending
<1>3. ts \notin Told /\ \A d \in Consumers : d # c => ts \notin Pending(d)
  BY <1>2 DEF Feed
<1>4. /\ consumer'[c].step = "processed" /\ consumer'[c].event = consumer[c].event
      /\ \A d \in Consumers : d # c => consumer'[d] = consumer[d]
  BY StepToType DEF ConsumerSteps
<1>5. Pending(c)' \subseteq Pending(c) /\ ts \notin Pending(c)'
  BY <1>2, <1>4 DEF Pending
<1>6. \A d \in Consumers : d # c => Pending(d)' = Pending(d)
  BY <1>4 DEF Pending
<1>7. /\ filtered' \in Seq(Nat) /\ DOMAIN filtered' = 1 .. Len(filtered) + 1
      /\ DOMAIN filtered = 1 .. Len(filtered) /\ filtered'[Len(filtered) + 1] = ts
      /\ \A i \in DOMAIN filtered : filtered'[i] = filtered[i]
  BY <1>1 DEF Feed
<1>8. \A i \in DOMAIN filtered' : filtered'[i] = ts \/ (i \in DOMAIN filtered /\ filtered'[i] = filtered[i])
  BY <1>7
<1>9. \A i, j \in DOMAIN filtered' : i # j => filtered'[i] # filtered'[j]
  <2>1. \A i \in DOMAIN filtered : filtered[i] # ts
    BY <1>3 DEF Told
  <2> QED
    BY <1>7, <2>1 DEF Feed
<1>10. \A i \in DOMAIN filtered' : [from |-> MAIN, ts |-> filtered'[i]] \notin Seen'
  <2>1. [from |-> MAIN, ts |-> ts] \notin Seen
    BY <1>3 DEF Told
  <2> QED
    BY <1>8, <2>1 DEF Feed
<1>11. Told' \subseteq Told \cup {ts}
  BY <1>8 DEF Told
<1>12. \A u \in Told' : u <= clock' /\ \A d \in Consumers : u \notin Pending(d)'
  BY <1>2, <1>3, <1>5, <1>6, <1>11 DEF Feed
<1>13. \A d, e \in Consumers : d # e => Pending(d)' \cap Pending(e)' = {}
  BY <1>5, <1>6 DEF Feed
<1>14. \A d \in Consumers : \A r \in Seen' : r.from = d => OfferedBefore(d, r.ts)'
  BY <1>4 DEF Feed, OfferedBefore
<1> QED
  BY <1>7, <1>9, <1>10, <1>12, <1>13, <1>14 DEF Feed

(* An event is finished.                                                   *)
LEMMA FeedFinish ==
  ASSUME WriterInv, Feed, WorldTypes, InOrder, NEW c \in Consumers, RaiseProcessed(c),
         Seen' \subseteq Seen
  PROVE  Feed'
<1>1. /\ consumer[c].step = "processed" /\ StepTo(c, "idle")
      /\ reached' = [reached EXCEPT ![c] = consumer[c].event.ts]
      /\ UNCHANGED <<buffers, clock, filtered>> /\ clock \in Nat
  BY DEF RaiseProcessed, world, WorldTypes
<1>2. /\ consumer'[c].step = "idle" /\ consumer'[c].event = consumer[c].event
      /\ \A d \in Consumers : d # c => consumer'[d] = consumer[d]
  BY <1>1, StepToType DEF ConsumerSteps
<1>3. \A d \in Consumers : Pending(d)' = Pending(d)
  BY <1>1, <1>2 DEF Pending
<1>4. /\ reached'[c] = consumer[c].event.ts /\ reached[c] < consumer[c].event.ts
      /\ \A d \in Consumers : d # c => reached'[d] = reached[d]
      /\ reached[c] \in Nat /\ consumer[c].event.ts \in Nat
  BY <1>1, EventFacts DEF WorldTypes, Holding
<1>5. ASSUME NEW d \in Consumers, NEW r \in Seen', r.from = d PROVE OfferedBefore(d, r.ts)'
  <2>1. OfferedBefore(d, r.ts) /\ r.ts \in Nat
    BY <1>5, SeenTypes DEF Feed
  <2>2. CASE d = c
    BY <1>1, <1>4, <2>1, <2>2 DEF OfferedBefore
  <2>3. CASE d # c
    BY <1>2, <1>4, <2>1, <2>3 DEF OfferedBefore
  <2> QED
    BY <2>2, <2>3
<1>6. \A i \in DOMAIN filtered' : [from |-> MAIN, ts |-> filtered'[i]] \notin Seen'
  BY <1>1 DEF Feed
<1>7. Told' \subseteq Told
  BY <1>1 DEF Told
<1>8. \A ts \in Told' : ts <= clock' /\ \A d \in Consumers : ts \notin Pending(d)'
  BY <1>1, <1>3, <1>7 DEF Feed
<1> QED
  BY <1>1, <1>3, <1>5, <1>6, <1>8 DEF Feed

(* The main thread offers the line of a filtered event.                    *)
LEMMA FeedPop ==
  ASSUME Feed, WorldTypes, filtered # <<>>, filtered' = Tail(filtered),
         UNCHANGED <<buffers, consumer, clock, reached>>,
         Seen' \subseteq Seen \cup {[from |-> MAIN, ts |-> Head(filtered)]}
  PROVE  Feed'
<1>1. /\ filtered' \in Seq(Nat) /\ 1 \in DOMAIN filtered /\ Head(filtered) = filtered[1]
      /\ DOMAIN filtered' \subseteq Nat
      /\ \A i \in DOMAIN filtered' :
            i + 1 \in DOMAIN filtered /\ i + 1 # 1 /\ filtered'[i] = filtered[i + 1]
  BY DEF Feed
<1>2. \A d \in Consumers : Pending(d)' = Pending(d)
  BY DEF Pending
<1>3. \A i, j \in DOMAIN filtered' : i # j => filtered'[i] # filtered'[j]
  BY <1>1 DEF Feed
<1>4. \A i \in DOMAIN filtered' : [from |-> MAIN, ts |-> filtered'[i]] \notin Seen'
  <2> SUFFICES ASSUME NEW i \in DOMAIN filtered' PROVE [from |-> MAIN, ts |-> filtered'[i]] \notin Seen'
    OBVIOUS
  <2>1. filtered'[i] # Head(filtered) /\ [from |-> MAIN, ts |-> filtered'[i]] \notin Seen
    BY <1>1 DEF Feed
  <2> QED
    BY <2>1
<1>5. Told' \subseteq Told
  <2>1. \A i \in DOMAIN filtered' : filtered'[i] \in Told
    BY <1>1 DEF Told
  <2>2. \A r \in Seen' : r.from = MAIN => r.ts \in Told
    <3>1. filtered[1] \in Told
      BY <1>1 DEF Told
    <3>2. \A r \in Seen : r.from = MAIN => r.ts \in Told
      BY DEF Told
    <3> QED
      BY <1>1, <3>1, <3>2
  <2> QED
    BY <2>1, <2>2 DEF Told
<1>6. \A ts \in Told' : ts <= clock' /\ \A d \in Consumers : ts \notin Pending(d)'
  BY <1>2, <1>5 DEF Feed
<1>7. \A d \in Consumers : \A r \in Seen' : r.from = d => OfferedBefore(d, r.ts)'
  <2>1. \A d \in Consumers : \A r \in Seen' : r.from = d => r \in Seen
    BY ThreadsApart
  <2> QED
    BY <2>1 DEF Feed, OfferedBefore
<1> QED
  BY <1>1, <1>2, <1>3, <1>4, <1>6, <1>7 DEF Feed
-----------------------------------------------------------------------------
(* The order of the shutdown.                                              *)

LEMMA StoppedIdle == ShutdownOrder /\ stopped => \A t \in Threads : Idle(t)
  BY ThreadsApart DEF ShutdownOrder

(* The threads of the writer.                                              *)
LEMMA ShutdownWriter ==
  ASSUME WriterInv, ShutdownOrder, OfWriter
  PROVE  ShutdownOrder'
<1>1. UNCHANGED <<limits, scene, stopped, writing, loop, consumer, filtered>>
  BY DEF OfWriter, PushCell, PushPublish, WorkerTake, WorkerWrite, WorkerExit, world, mainVars
<1>2. ASSUME NEW t \in Threads, PushCell(t) \/ PushPublish(t) PROVE ShutdownOrder'
  <2>1. ~Idle(t) /\ ~stopped /\ scene.stream /\ UNCHANGED <<worker, dequeue_pos>>
    BY <1>2, StoppedIdle DEF PushCell, PushPublish, Idle, ShutdownOrder
  <2>2. \A u \in Threads : u # t => pushing'[u] = pushing[u]
    BY <1>2 DEF PushCell, PushPublish, WriterInv, QueueInv, QueueTypes
  <2>3. \A u \in Threads : Idle(u) => Idle(u)'
    BY <2>1, <2>2 DEF Idle
  <2> QED
    BY <1>1, <2>1, <2>3, ThreadsApart DEF ShutdownOrder
<1>3. CASE WorkerTake \/ WorkerWrite \/ WorkerExit
  <2>1. UNCHANGED <<pushing, tickets>> /\ worker.step \in {"take", "write"}
    BY <1>3, WorkerWriteCases DEF WorkerTake, WorkerWrite, WorkerExit
  <2>2. \A t \in Threads : Idle(t)' = Idle(t)
    BY <2>1 DEF Idle
  <2>3. worker'.step = "exited" => stopped /\ enqueue_pos' = dequeue_pos'
    <3>1. worker \in WorkerStates /\ writing = ~stopped
      BY DEF WriterInv, QueueInv, QueueTypes, ShutdownOrder
    <3>2. CASE WorkerTake
      BY <3>2 DEF WorkerTake
    <3>3. CASE WorkerWrite
      <4>1. worker' = [worker EXCEPT !.step = "take"]
        BY <3>3 DEF WorkerWrite
      <4> QED
        BY <3>1, <4>1 DEF WorkerStates
    <3>4. CASE WorkerExit
      <4>1. ~writing /\ enqueue_pos = dequeue_pos /\ UNCHANGED <<enqueue_pos, dequeue_pos>>
        BY <3>4 DEF WorkerExit, queue
      <4> QED
        BY <3>1, <4>1
    <3> QED
      BY <1>3, <3>2, <3>3, <3>4
  <2> QED
    BY <1>1, <2>1, <2>2, <2>3, ThreadsApart DEF ShutdownOrder
<1> QED
  BY <1>2, <1>3 DEF OfWriter

(* The consumers: one that has not exited keeps the writer from its stop.  *)
LEMMA ConsumerBusy ==
  ASSUME ShutdownOrder, NEW c \in Consumers, consumer[c].step # "exited"
  PROVE  ~stopped /\ loop.step \notin {"drainLast", "joinWriter", "done"} /\ worker.step # "exited"
  BY DEF ShutdownOrder

LEMMA ShutdownConsumer ==
  ASSUME WorldTypes, WriterInv, ShutdownOrder, NEW c \in Consumers, OfConsumer(c)
  PROVE  ShutdownOrder'
<1>1. /\ UNCHANGED <<limits, scene, stopped, writing, loop, worker, enqueue_pos, dequeue_pos, tickets>>
      /\ consumer[c].step # "exited"
  BY DEF OfConsumer, Deliver, EmitRecord, EmitLine, TellEngine, RaiseProcessed, ConsumerExit, PushStart,
         world, mainVars, writerVars, queue
<1>2. ~stopped /\ loop.step \notin {"drainLast", "joinWriter", "done"} /\ worker.step # "exited"
  BY <1>1, ConsumerBusy
<1>3. \A d \in Consumers : d # c => consumer'[d] = consumer[d]
  BY StepToType DEF OfConsumer, Deliver, EmitRecord, EmitLine, TellEngine, RaiseProcessed, ConsumerExit,
                    ConsumerSteps, StepTo, WorldTypes
<1>4. \A t \in Threads : t # c => (Idle(t)' <=> Idle(t))
  BY DEF OfConsumer, Deliver, EmitRecord, EmitLine, TellEngine, RaiseProcessed, ConsumerExit, PushStart,
         Idle, writerVars, WriterInv, QueueInv, QueueTypes
<1>5. Idle(c)' \/ consumer'[c].step = "engine"
  <2>1. CASE EmitLine(c)
    BY <2>1, StepToType DEF EmitLine, ConsumerSteps
  <2>2. CASE ~EmitLine(c)
    <3>1. Idle(c)
      BY <2>2 DEF OfConsumer, Deliver, EmitRecord, TellEngine, RaiseProcessed, ConsumerExit, ShutdownOrder
    <3> QED
      BY <2>2, <3>1 DEF OfConsumer, Deliver, EmitRecord, TellEngine, RaiseProcessed, ConsumerExit,
                        writerVars, Idle
  <2> QED
    BY <2>1, <2>2
<1>6. consumer'[c].step = "stream" => scene.stream
  <2>1. CASE EmitRecord(c)
    BY <2>1, StepToType DEF EmitRecord, ConsumerSteps
  <2>2. CASE Deliver(c)
    BY <2>2 DEF Deliver, WorldTypes, ShutdownOrder
  <2>3. CASE EmitLine(c) \/ TellEngine(c) \/ RaiseProcessed(c) \/ ConsumerExit(c)
    BY <2>3, StepToType DEF EmitLine, TellEngine, RaiseProcessed, ConsumerExit, ConsumerSteps
  <2> QED
    BY <2>1, <2>2, <2>3 DEF OfConsumer
<1>7. ~scene.stream => Idle(c)'
  <2>1. ~scene.stream => ~EmitLine(c) /\ Idle(c)
    BY ThreadsApart DEF ShutdownOrder, EmitLine
  <2> QED
    BY <2>1 DEF OfConsumer, Deliver, EmitRecord, TellEngine, RaiseProcessed, ConsumerExit, writerVars, Idle
<1> QED
  BY <1>1, <1>2, <1>3, <1>4, <1>5, <1>6, <1>7, ThreadsApart DEF ShutdownOrder

(* The main thread.                                                        *)
LEMMA LoopStep ==
  ASSUME MainTypes, NEW step \in LoopSteps, Go(step)
  PROVE  loop'.step = step
  BY GoType

LEMMA ShutdownMain ==
  ASSUME MainTypes, WorldTypes, WriterInv, ShutdownOrder, OfMain
  PROVE  ShutdownOrder'
<1> USE DEF LoopSteps
<1>1. UNCHANGED <<limits, scene, worker, enqueue_pos, dequeue_pos, tickets, consumer>>
  BY DEF OfMain, Outside, LoopHead, Drain, Poll, Wait, Snapshot, Report, SessionStop, JoinConsumers,
         DrainLast, StopWriter, Finish, PopFiltered, PushStart, StopAsked, StopJoined, world, writerVars, queue
<1>2. \A c \in Consumers : Idle(c)' <=> Idle(c)
  BY ThreadsApart
     DEF OfMain, LoopHead, Drain, Poll, Wait, Snapshot, Report, SessionStop, JoinConsumers,
         DrainLast, StopWriter, Finish, PopFiltered, PushStart, StopAsked, StopJoined, writerVars, Idle,
         WriterInv, QueueInv, QueueTypes
<1>3. CASE LoopHead \/ Poll \/ Wait \/ Snapshot \/ Report \/ SessionStop
  <2>1. /\ loop.step \in {"head", "drain", "wait", "snapshot", "report", "stop"}
        /\ UNCHANGED <<stopped, writing, pushing, filtered>>
    BY <1>3 DEF LoopHead, Poll, Wait, Snapshot, Report, SessionStop, writerVars
  <2>2. loop'.step \notin {"drainLast", "joinWriter", "done"}
    <3>1. CASE LoopHead
      BY <3>1 DEF LoopHead, MainTypes
    <3>2. CASE Report
      BY <3>2 DEF Report, MainTypes
    <3>3. CASE Poll \/ Wait \/ Snapshot \/ SessionStop
      BY <3>3, LoopStep DEF Poll, Wait, Snapshot, SessionStop
    <3> QED
      BY <1>3, <3>1, <3>2, <3>3
  <2>3. loop'.step \in {"drain", "drainLast"} \/ Idle(MAIN)'
    <3>1. loop.step # "drain" \/ Poll
      BY <1>3 DEF LoopHead, Wait, Snapshot, Report, SessionStop
    <3>2. Idle(MAIN)
      BY <2>1, <3>1 DEF ShutdownOrder, Poll
    <3> QED
      BY <2>1, <3>2 DEF Idle
  <2> QED
    BY <1>1, <1>2, <2>1, <2>2, <2>3, ThreadsApart DEF ShutdownOrder, Idle
<1>4. CASE Drain \/ DrainLast
  <2>1. /\ loop.step \in {"drain", "drainLast"} /\ scene.stream /\ loop'.step = loop.step
        /\ UNCHANGED <<stopped, writing>>
    BY <1>4 DEF Drain, DrainLast, MainTypes, mainVars, PopFiltered, PushStart
  <2> QED
    BY <1>1, <1>2, <2>1, ThreadsApart DEF ShutdownOrder
<1>5. CASE JoinConsumers
  <2>1. /\ loop.step = "join" /\ loop'.step = "drainLast" /\ UNCHANGED <<stopped, writing, pushing, filtered>>
        /\ \A c \in Consumers : consumer[c].step = "exited"
    BY <1>5, LoopStep DEF JoinConsumers, writerVars
  <2> QED
    BY <1>1, <1>2, <2>1, ThreadsApart DEF ShutdownOrder, Idle
<1>6. CASE StopWriter
  <2>1. /\ loop.step = "drainLast" /\ loop'.step = "joinWriter" /\ stopped' /\ ~writing' /\ filtered = <<>>
        /\ scene.stream /\ Idle(MAIN) /\ UNCHANGED <<pushing, filtered>>
    BY <1>6, LoopStep DEF StopWriter, StopAsked
  <2>2. stopped' = TRUE /\ writing' = FALSE
    BY <1>6 DEF StopWriter, StopAsked
  <2>3. worker.step # "exited"
    BY <2>1 DEF ShutdownOrder
  <2> QED
    BY <1>1, <1>2, <2>1, <2>2, <2>3, ThreadsApart DEF ShutdownOrder, Idle
<1>7. CASE Finish
  <2>1. loop'.step = "done" /\ UNCHANGED <<stopped, writing, pushing, filtered>>
    BY <1>7, LoopStep DEF Finish, StopJoined, writerVars
  <2>2. \/ loop.step = "joinWriter" /\ stopped /\ worker.step = "exited"
        \/ loop.step = "drainLast" /\ ~scene.stream
    BY <1>7 DEF Finish, StopJoined
  <2> QED
    BY <1>1, <1>2, <2>1, <2>2, ThreadsApart DEF ShutdownOrder, Idle
<1> QED
  BY <1>3, <1>4, <1>5, <1>6, <1>7 DEF OfMain

-----------------------------------------------------------------------------
(* The invariant of the stream.                                            *)

LEMMA StreamInvInit == Init => StreamInv
  BY LoopInvInit, WriterInvInit, FeedInit DEF StreamInv

(* The steps that push.                                                    *)
LEMMA LinePush ==
  ASSUME StreamInv, NEW c \in Consumers, EmitLine(c)
  PROVE  WriterInv' /\ Feed'
<1>1. WorldTypes /\ InOrder /\ WriterInv /\ Feed /\ ShutdownOrder
  BY DEF StreamInv, LoopInv, LoopTypes
<1>2. PICK rec : rec = [from |-> c, ts |-> consumer[c].event.ts]
  OBVIOUS
<1>3. consumer[c].step = "stream" /\ PushStart(c, rec) /\ ~stopped
  BY <1>1, <1>2, ConsumerBusy DEF EmitLine
<1>4. /\ reached[c] < consumer[c].event.ts /\ reached[c] \in Nat /\ consumer[c].event.ts \in Nat
      /\ c \in Threads
  BY <1>1, <1>3, EventFacts, ThreadsApart DEF Holding
<1>5. rec \in Records /\ rec.from = c /\ rec.ts = consumer[c].event.ts
  BY <1>2, <1>4 DEF Records
<1>6. rec \notin Seen
  <2>1. ~OfferedBefore(c, rec.ts)
    BY <1>3, <1>4, <1>5 DEF OfferedBefore
  <2> QED
    BY <1>1, <1>5, <2>1 DEF Feed
<1>7. WriterInv' /\ Seen' \subseteq Seen \cup {rec}
  BY <1>1, <1>3, <1>4, <1>5, <1>6, WriterPush
<1>8. Feed'
  BY <1>1, <1>2, <1>7, FeedLine
<1> QED
  BY <1>7, <1>8

LEMMA FilteredPush ==
  ASSUME StreamInv, Drain \/ DrainLast
  PROVE  WriterInv' /\ Feed'
<1>1. WorldTypes /\ InOrder /\ WriterInv /\ Feed /\ ShutdownOrder
  BY DEF StreamInv, LoopInv, LoopTypes
<1>2. PICK rec : rec = [from |-> MAIN, ts |-> Head(filtered)]
  OBVIOUS
<1>3. /\ PushStart(MAIN, rec) /\ filtered' = Tail(filtered) /\ filtered # <<>> /\ ~stopped
      /\ UNCHANGED <<buffers, consumer, clock, reached>>
  BY <1>1, <1>2 DEF Drain, DrainLast, PopFiltered, Outside, world, ShutdownOrder
<1>4. 1 \in DOMAIN filtered /\ Head(filtered) = filtered[1] /\ filtered[1] \in Nat
  BY <1>1, <1>3 DEF Feed
<1>5. rec \in Records /\ rec.from = MAIN /\ rec \notin Seen
  BY <1>1, <1>2, <1>4, ThreadsApart DEF Records, Feed
<1>6. WriterInv' /\ Seen' \subseteq Seen \cup {rec}
  BY <1>1, <1>3, <1>5, ThreadsApart, WriterPush
<1>7. Feed'
  BY <1>1, <1>2, <1>3, <1>6, FeedPop
<1> QED
  BY <1>6, <1>7

(* The other steps of a consumer.                                          *)
LEMMA ConsumerFeed ==
  ASSUME StreamInv, NEW c \in Consumers, OfConsumer(c), ~EmitLine(c)
  PROVE  WriterInv' /\ Feed'
<1>1. WorldTypes /\ InOrder /\ WriterInv /\ Feed /\ ShutdownOrder
  BY DEF StreamInv, LoopInv, LoopTypes
<1>2. UNCHANGED writerVars
  BY DEF OfConsumer, Deliver, EmitRecord, TellEngine, RaiseProcessed, ConsumerExit
<1>3. WriterInv' /\ Seen' \subseteq Seen
  BY <1>1, <1>2, WriterUnchanged
<1>4. CASE Deliver(c)
  BY <1>1, <1>3, <1>4, FeedDeliver
<1>5. CASE EmitRecord(c)
  <2>1. PICK step \in ConsumerSteps : StepTo(c, step) /\ step \in {"stream", "engine"}
    BY <1>5 DEF EmitRecord, ConsumerSteps
  <2>2. consumer[c].step = "record" /\ UNCHANGED <<buffers, clock, reached, filtered>>
    BY <1>5 DEF EmitRecord, world
  <2> QED
    BY <1>1, <1>3, <2>1, <2>2, FeedStepTo
<1>6. CASE TellEngine(c)
  <2>1. /\ consumer[c].step = "engine" /\ StepTo(c, "processed") /\ "processed" \in ConsumerSteps
        /\ UNCHANGED <<buffers, clock, reached>>
        /\ filtered' = filtered \/ filtered' = Append(filtered, consumer[c].event.ts)
    BY <1>6 DEF TellEngine, world, ConsumerSteps
  <2>2. CASE filtered' = filtered
    BY <1>1, <1>3, <2>1, <2>2, FeedStepTo
  <2>3. CASE filtered' = Append(filtered, consumer[c].event.ts)
    BY <1>1, <1>3, <2>1, <2>3, FeedMild
  <2> QED
    BY <2>1, <2>2, <2>3
<1>7. CASE RaiseProcessed(c)
  BY <1>1, <1>3, <1>7, FeedFinish
<1>8. CASE ConsumerExit(c)
  <2>1. /\ consumer[c].step = "idle" /\ StepTo(c, "exited") /\ "exited" \in ConsumerSteps
        /\ UNCHANGED <<buffers, clock, reached, filtered>>
    BY <1>8 DEF ConsumerExit, world, ConsumerSteps
  <2> QED
    BY <1>1, <1>3, <2>1, FeedStepTo
<1> QED
  BY <1>3, <1>4, <1>5, <1>6, <1>7, <1>8 DEF OfConsumer

LEMMA StreamInvNext == StreamInv /\ [Next]_vars => StreamInv'
<1> SUFFICES ASSUME StreamInv, [Next]_vars PROVE StreamInv'
  OBVIOUS
<1>1. /\ WorldTypes /\ MainTypes /\ InOrder /\ WriterInv /\ Feed /\ ShutdownOrder /\ clock \in Nat
      /\ worker \in WorkerStates
  BY DEF StreamInv, LoopInv, LoopTypes, WorldTypes, WriterInv, QueueInv, QueueTypes
<1>2. LoopInv'
  BY LoopInvNext DEF StreamInv
<1>3. CASE UNCHANGED <<writerVars, world, consumer, reached, filtered, loop>>
  <2>1. WriterInv' /\ Seen' = Seen
    BY <1>1, <1>3, WriterUnchanged
  <2>2. Feed'
    BY <1>1, <1>3, <2>1, FeedUnchanged
  <2>3. ShutdownOrder'
    BY <1>1, <1>3 DEF ShutdownOrder, Idle, writerVars, world, queue
  <2> QED
    BY <1>2, <2>1, <2>2, <2>3 DEF StreamInv
<1>4. CASE CtrlC \/ Done \/ UNCHANGED vars
  BY <1>3, <1>4 DEF CtrlC, Done, vars, mainVars
<1>5. CASE OfWriter
  <2>1. WriterInv' /\ Seen' \subseteq Seen
    BY <1>1, <1>5, OfWriterStep
  <2>2. Feed'
    BY <1>1, <1>5, <2>1, FeedUnchanged DEF OfWriter
  <2>3. ShutdownOrder'
    BY <1>1, <1>5, ShutdownWriter
  <2> QED
    BY <1>2, <2>1, <2>2, <2>3 DEF StreamInv
<1>6. ASSUME NEW c \in Consumers, Log(c) PROVE StreamInv'
  <2>1. UNCHANGED <<writerVars, consumer, filtered, loop, scene>>
    BY <1>6 DEF Log, mainVars
  <2>2. WriterInv' /\ Seen' = Seen
    BY <1>1, <2>1, WriterUnchanged
  <2>3. Feed'
    BY <1>1, <1>6, <2>2, FeedLog
  <2>4. ShutdownOrder'
    BY <1>1, <2>1 DEF ShutdownOrder, Idle, writerVars, queue
  <2> QED
    BY <1>2, <2>2, <2>3, <2>4 DEF StreamInv
<1>7. ASSUME NEW c \in Consumers, OfConsumer(c) PROVE StreamInv'
  <2>1. WriterInv' /\ Feed'
    BY <1>7, LinePush, ConsumerFeed
  <2>2. ShutdownOrder'
    BY <1>1, <1>7, ShutdownConsumer
  <2> QED
    BY <1>2, <2>1, <2>2 DEF StreamInv
<1>8. CASE OfMain
  <2>1. ShutdownOrder'
    BY <1>1, <1>8, ShutdownMain
  <2>2. CASE Drain \/ DrainLast
    BY <1>2, <2>1, <2>2, FilteredPush DEF StreamInv
  <2>3. CASE ~(Drain \/ DrainLast)
    <3>1. UNCHANGED <<filtered, world, consumer, reached>>
      BY <1>8, <2>3 DEF OfMain, Outside, LoopHead, Poll, Wait, Snapshot, Report, SessionStop,
                       JoinConsumers, StopWriter, Finish
    <3>2. WriterInv' /\ Seen' = Seen
      <4>1. CASE StopWriter \/ (Finish /\ StopJoined)
        <5>1. /\ UNCHANGED <<limits, queue, pushing, files, written, mishaps, dropped_records,
                             tickets, lost, refused, worker>>
              /\ opened' => opened
          BY <4>1 DEF StopWriter, StopAsked, StopJoined, output
        <5> QED
          BY <1>1, <5>1, WriterKept
      <4>2. CASE ~(StopWriter \/ (Finish /\ StopJoined))
        <5>1. UNCHANGED writerVars
          BY <1>8, <2>3, <4>2 DEF OfMain, LoopHead, Poll, Wait, Snapshot, Report, SessionStop,
                                 JoinConsumers, Finish
        <5> QED
          BY <1>1, <5>1, WriterUnchanged
      <4> QED
        BY <4>1, <4>2
    <3>3. Feed'
      BY <1>1, <3>1, <3>2, FeedUnchanged
    <3> QED
      BY <1>2, <2>1, <3>2, <3>3 DEF StreamInv
  <2> QED
    BY <2>2, <2>3
<1> QED
  BY <1>4, <1>5, <1>6, <1>7, <1>8 DEF Next

(* The event stream is intact: every record that was offered is in one     *)
(* place, the lines are in order, in the files and between them, and none  *)
(* is left behind by the shutdown (NdjsonWriter, the shutdown of main).    *)
THEOREM StreamAlwaysIntact == Spec => []StreamIntact
<1>1. StreamInv => StreamIntact
  <2> SUFFICES ASSUME StreamInv PROVE StreamIntact
    OBVIOUS
  <2>1. QueueInv /\ AccountInv /\ FilesInv /\ ShutdownOrder
    BY DEF StreamInv, WriterInv
  <2>2. AccountedOnce /\ RoomIsUsable /\ WrittenInOrder /\ FilesInOrder /\ FilesHoldTheEnd
    BY <2>1, PlacesFollow, RoomFollows, OrderFollows DEF FilesInv
  <2>3. refused = {} /\ (stopped => \A t \in Threads : Idle(t))
    BY <2>1, StoppedIdle DEF AccountInv, AccountTypes
  <2>4. loop.step = "done" => Queued \cup Taken = {} /\ (scene.stream => filtered = <<>>)
    <3> SUFFICES ASSUME loop.step = "done" PROVE Queued \cup Taken = {} /\ (scene.stream => filtered = <<>>)
      OBVIOUS
    <3>1. CASE scene.stream
      <4>1. stopped /\ filtered = <<>> /\ worker.step = "exited" /\ enqueue_pos = dequeue_pos
        BY <2>1, <3>1 DEF ShutdownOrder
      <4>2. Len(tickets) = dequeue_pos /\ dequeue_pos \in Nat
        BY <2>1, <4>1 DEF QueueInv, QueueTypes, Positions
      <4> QED
        BY <4>1, <4>2 DEF Queued, Taken
    <3>2. CASE ~scene.stream
      <4>1. tickets = <<>> /\ enqueue_pos = 0
        BY <2>1, <3>2 DEF ShutdownOrder, QueueInv, Positions
      <4>2. dequeue_pos = 0 /\ worker.step # "write"
        BY <2>1, <4>1 DEF QueueInv, QueueTypes, Positions, Low
      <4> QED
        BY <3>2, <4>1, <4>2 DEF Queued, Taken
    <3> QED
      BY <3>1, <3>2
  <2> QED
    BY <2>2, <2>3, <2>4 DEF StreamIntact
<1> QED
  BY <1>1, StreamInvInit, StreamInvNext, PTL DEF Spec

=============================================================================
