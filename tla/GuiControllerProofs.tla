------------------------- MODULE GuiControllerProofs -------------------------
(***************************************************************************)
(* No thread of a capture session uses the engine or the manager of the    *)
(* trace sessions after session_worker_loop has destroyed it: for every    *)
(* set of processes, every scenario of what the user and the world do, and *)
(* every interleaving of the six threads.                                  *)
(***************************************************************************)
EXTENDS GuiController, TLAPS

(* Where session_worker_loop owns an engine, and where a manager too.  In  *)
(* its clean-up a manager may be missing: what threw was its creation.     *)
Managing    == {"kernel", "threads", "started", "announce", "watcher", "loop", "report"}
Closing     == {"stopEtw", "joinFlusher", "joinConsumers"}
OwnsEngine  == Managing \cup Closing \cup {"etw", "stopWatcher", "dropEngine"}
WorkerSteps == OwnsEngine \cup {"ended", "engine", "idle"}

ConsumerSteps == {"none", "begin", "open", "opened", "process", "callback", "calling", "exited"}

OwnerTypes ==
    /\ worker \in [step : WorkerSteps, unwinds : BOOLEAN, quick : BOOLEAN]
    /\ engine \in BOOLEAN /\ manager \in BOOLEAN
    /\ handles \in SUBSET Sessions
    /\ consumer \in [Sessions -> ConsumerSteps]
    /\ flusher \in {"none", "on", "evicting", "exited"}
    /\ DOMAIN call = Callers /\ \A t \in Callers : {"op", "step"} \subseteq DOMAIN call[t]

(* The worker's place says what exists; a thread of the sessions that has  *)
(* not left keeps its manager in existence, since the flusher is joined    *)
(* before the consumers and both before the manager is dropped; and the    *)
(* watcher's call holds the mutex the engine is dropped under.             *)
OwnerInv ==
    /\ engine <=> worker.step \in OwnsEngine
    /\ manager => \/ worker.step \in Managing \cup Closing
                  \/ worker.step = "stopWatcher" /\ ~worker.unwinds
    /\ worker.step \in Managing => manager /\ ~worker.unwinds
    /\ worker.step \in {"engine", "etw"} => ~worker.unwinds
    /\ ~manager => ~Outlived
    /\ worker.step = "joinConsumers" => flusher \in {"none", "exited"} /\ handles = {}
    /\ call[WATCHER].op # "none" => engine /\ engine_lock = WATCHER

Inv == OwnerTypes /\ OwnerInv

-----------------------------------------------------------------------------
(* What the parts of other modules leave alone.                            *)

Owned == <<worker, engine, manager, handles>>

(* A step of attach or detach changes the step of its call only.           *)
LEMMA CallMoves ==
  ASSUME OwnerTypes, NEW t \in Callers, OfCall(t)
  PROVE  /\ UNCHANGED <<engine, engine_lock>>
         /\ DOMAIN call' = Callers
         /\ \A u \in Callers : {"op", "step"} \subseteq DOMAIN call'[u] /\ call'[u].op = call[u].op
<1> DEFINE Kept == /\ DOMAIN call' = Callers
                   /\ \A u \in Callers : {"op", "step"} \subseteq DOMAIN call'[u] /\ call'[u].op = call[u].op
<1>1. Kept
  <2> USE DEF OwnerTypes
  <2>1. ASSUME NEW step, Proceed(t, step) PROVE Kept
    <3> QED
      BY <2>1 DEF Proceed
  <2>2. ASSUME NEW ok, Return(t, ok) PROVE Kept
    <3> QED
      BY <2>2 DEF Return
  <2> HIDE DEF Kept
  <2>3. CASE TryAttach(t)
    BY <2>1, <2>2, <2>3 DEF TryAttach
  <2>4. CASE TryDetach(t)
    BY <2>1, <2>2, <2>4 DEF TryDetach
  <2>5. CASE CompareDetached(t)
    BY <2>2, <2>5 DEF CompareDetached
  <2>6. CASE StoreDetached(t)
    BY <2>2, <2>6 DEF StoreDetached
  <2> QED
    BY <2>3, <2>4, <2>5, <2>6 DEF OfCall
<1>2. UNCHANGED <<engine, engine_lock>>
  BY DEF OfCall, TryAttach, TryDetach, CompareDetached, StoreDetached, targetVars
<1> QED
  BY <1>1, <1>2 DEF OwnerTypes

(* Starting and stopping the watcher leaves the engine and its callers     *)
(* alone.                                                                  *)
LEMMA ChangeMoves ==
  ASSUME NEW t, ChangeWatcher(t) \/ WatcherJoined(t)
  PROVE  UNCHANGED <<engine, call, engine_lock>>
BY DEF ChangeWatcher, WatcherJoined, targetVars

-----------------------------------------------------------------------------
(* Nothing changes that the invariant speaks of.                           *)
LEMMA InvQuiet ==
  ASSUME Inv, UNCHANGED <<Owned, consumer, flusher, call, engine_lock>>
  PROVE  Inv'
BY DEF Inv, OwnerTypes, OwnerInv, Outlived, Owned

LEMMA InvInit == Init => Inv
<1> SUFFICES ASSUME Init PROVE Inv
  OBVIOUS
<1> USE DEF Init, AttachmentInit, SessionInit, NoWorker
<1>1. OwnerTypes
  BY DEF OwnerTypes, WorkerSteps, ConsumerSteps, NoCall
<1>2. OwnerInv
  BY ThreadsDiffer DEF OwnerInv, OwnsEngine, Managing, Closing, Outlived, NoCall, Callers
<1> QED
  BY <1>1, <1>2 DEF Inv

-----------------------------------------------------------------------------
(* session_worker_loop: every step of its way in and out.                  *)

LEMMA InvSetUp ==
  ASSUME Inv, MakeEngine \/ StartEtw \/ StartEtwKernel \/ StartEtwThreads
  PROVE  Inv'
<1> USE DEF Inv, OwnerTypes, OwnerInv, WorkerSteps, OwnsEngine, Managing, Closing, ConsumerSteps, Outlived,
            Go, Private, targetVars, processes
<1>1. CASE MakeEngine
  BY <1>1 DEF MakeEngine, sessionVars, threadVars
<1>2. CASE StartEtw
  BY <1>2 DEF StartEtw, StartUser, Sessions
<1>3. CASE StartEtwKernel
  BY <1>3 DEF StartEtwKernel, StartKernel, Outside, threadVars, Sessions
<1>4. CASE StartEtwThreads
  BY <1>4 DEF StartEtwThreads, StartThreads, Outside, Sessions
<1> QED
  BY <1>1, <1>2, <1>3, <1>4

LEMMA InvRunning ==
  ASSUME Inv, Started \/ Announce \/ StartWatcher \/ Degrade \/ BeginReport \/ EndReport \/ Leave \/ Throw
  PROVE  Inv'
<1> USE DEF Inv, OwnerTypes, OwnerInv, WorkerSteps, OwnsEngine, Managing, Closing, Outlived,
            Go, Private, targetVars, sessionVars, threadVars, attachmentVars
<1>1. CASE Started
  <2>1. worker.step = "started"
        /\ \/ worker' = [worker EXCEPT !.step = "stopEtw", !.quick = TRUE]
           \/ worker' = [worker EXCEPT !.step = "announce"]
    BY <1>1 DEF Started
  <2>2. worker'.unwinds = worker.unwinds /\ worker'.step \in {"stopEtw", "announce"}
        /\ worker' \in [step : WorkerSteps, unwinds : BOOLEAN, quick : BOOLEAN]
    BY <2>1
  <2>3. UNCHANGED <<engine, manager, handles, consumer, flusher, call, engine_lock>>
    BY <1>1 DEF Started
  <2> QED
    BY <2>1, <2>2, <2>3
<1>2. CASE Announce
  BY <1>2 DEF Announce
<1>3. CASE StartWatcher
  BY <1>3 DEF StartWatcher, Watched
<1>4. CASE Degrade
  BY <1>4 DEF Degrade, StopSessions
<1>5. CASE BeginReport \/ EndReport
  BY <1>5 DEF BeginReport, EndReport, Outside
<1>6. CASE Leave
  BY <1>6 DEF Leave
<1>7. CASE Throw
  BY <1>7 DEF Throw
<1> QED
  BY <1>1, <1>2, <1>3, <1>4, <1>5, <1>6, <1>7

LEMMA InvCleanUp ==
  ASSUME Inv, \/ StopWatcher \/ StopEtw \/ JoinFlusher \/ DropManager \/ DropEngine \/ StoreIdle
  PROVE  Inv'
<1> USE DEF Inv, OwnerTypes, OwnerInv, WorkerSteps, OwnsEngine, Managing, Closing, Outlived,
            Go, Private, Outside, targetVars, sessionVars, threadVars
<1>1. CASE StopWatcher
  BY <1>1 DEF StopWatcher, Watched
<1>2. CASE StopEtw
  BY <1>2 DEF StopEtw, EtwStopAsked
<1>3. CASE JoinFlusher
  BY <1>3 DEF JoinFlusher, FlusherJoined, StopSessions
<1>4. CASE DropManager
  BY <1>4 DEF DropManager, ConsumersJoined
<1>5. CASE DropEngine
  BY <1>5, ThreadsDiffer DEF DropEngine
<1>6. CASE StoreIdle
  BY <1>6 DEF StoreIdle
<1> QED
  BY <1>1, <1>2, <1>3, <1>4, <1>5, <1>6

-----------------------------------------------------------------------------
(* The threads of the trace sessions: a thread that takes a step has not   *)
(* left, and so has its manager.                                           *)

LEMMA InvConsumer ==
  ASSUME Inv, NEW c \in Sessions,
         OfConsumer(c) \/ Callback(c) \/ CallbackDone(c) \/ ConsumerFail(c), UNCHANGED worker
  PROVE  Inv'
<1>1. PICK step \in ConsumerSteps : consumer[c] \notin {"none", "exited"} /\ To(c, step)
  BY DEF OfConsumer, ConsumerBegin, ConsumerOpen, ConsumerCheck, ConsumerExit, Callback, CallbackDone,
         ConsumerFail, To, ConsumerSteps
<1>2. UNCHANGED <<engine, manager, handles, call, engine_lock, flusher>>
  BY DEF OfConsumer, ConsumerBegin, ConsumerOpen, ConsumerCheck, ConsumerExit, Callback, CallbackDone,
         ConsumerFail, untouched, targetVars
<1>3. manager
  BY <1>1 DEF Inv, OwnerInv, Outlived
<1> QED
  BY <1>1, <1>2, <1>3 DEF Inv, OwnerTypes, OwnerInv, Outlived, To

LEMMA InvProcessEvent ==
  ASSUME Inv, ProcessEvent \/ ProcessEventDone, UNCHANGED worker
  PROVE  Inv'
<1>1. UNCHANGED <<engine, manager, handles, engine_lock, flusher>>
  BY DEF ProcessEvent, ProcessEventDone, untouched, targetVars
<1>2. manager
  BY DEF ProcessEvent, ProcessEventDone, Inv, OwnerInv, Outlived, Sessions
<1>3. consumer' \in [Sessions -> ConsumerSteps]
  BY DEF ProcessEvent, ProcessEventDone, To, Inv, OwnerTypes, ConsumerSteps
<1>4. /\ DOMAIN call' = Callers /\ \A t \in Callers : {"op", "step"} \subseteq DOMAIN call'[t]
      /\ call'[WATCHER] = call[WATCHER]
  BY ThreadsDiffer DEF ProcessEvent, ProcessEventDone, Call, NoCall, Inv, OwnerTypes, Callers
<1> QED
  BY <1>1, <1>2, <1>3, <1>4 DEF Inv, OwnerTypes, OwnerInv

LEMMA InvFlusher ==
  ASSUME Inv, Flush \/ FlushDone \/ FlusherExit, UNCHANGED worker
  PROVE  Inv'
<1>1. UNCHANGED <<engine, manager, handles, call, engine_lock, consumer>>
  BY DEF Flush, FlushDone, FlusherExit, untouched, targetVars
<1>2. flusher \notin {"none", "exited"} /\ flusher' \in {"on", "evicting", "exited"}
  BY DEF Flush, FlushDone, FlusherExit
<1>3. manager /\ worker.step # "joinConsumers"
  BY <1>2 DEF Inv, OwnerInv, Outlived
<1> QED
  BY <1>1, <1>2, <1>3 DEF Inv, OwnerTypes, OwnerInv

(* attach and detach, called by the consumer or by the watcher.            *)
LEMMA InvCall ==
  ASSUME Inv, NEW t \in Callers, OfCall(t), UNCHANGED <<worker, sessionVars>>
  PROVE  Inv'
BY CallMoves DEF Inv, OwnerTypes, OwnerInv, Outlived, sessionVars, threadVars, Callers

-----------------------------------------------------------------------------
(* The watcher enters the engine under the mutex, and only if there is     *)
(* one.                                                                    *)
LEMMA InvWatcher ==
  ASSUME Inv, WatcherStep
  PROVE  Inv'
<1> USE DEF WatcherStep, control, sessionVars, threadVars, Callers
<1>1. CASE OfCall(WATCHER)
  BY <1>1, InvCall
<1>2. CASE WatcherPoll \/ WatcherRest
  BY <1>2, InvQuiet DEF WatcherPoll, WatcherSees, WatcherRest, Owned, targetVars
<1>3. CASE WatcherDetach \/ WatcherAttach
  BY <1>3 DEF WatcherDetach, WatcherAttach, Call, Inv, OwnerTypes, OwnerInv, Outlived, targetVars
<1>4. CASE WatcherDetached \/ WatcherAttached
  BY <1>4 DEF WatcherDetached, WatcherAttached, NoCall, Inv, OwnerTypes, OwnerInv, Outlived, targetVars
<1> QED
  BY <1>1, <1>2, <1>3, <1>4 DEF OfWatcher

-----------------------------------------------------------------------------
(* The window's thread and its scan: a new session starts only when the    *)
(* thread of the last one has ended.                                       *)
LEMMA InvWindow ==
  ASSUME Inv, Start \/ Stop \/ UpdateFilter \/ Enumerate \/ ScanStep \/ Shutdown \/ OfGui
  PROVE  Inv'
<1> USE InvQuiet DEF Owned, sessionVars, threadVars, targetVars, attachmentVars, Watched
<1>1. CASE Start
  BY <1>1 DEF Start, NoWorker, Inv, OwnerTypes, OwnerInv, Outlived, WorkerSteps, OwnsEngine, Managing, Closing
<1>2. CASE Stop \/ TargetDetached \/ ShutdownCheck
  BY <1>2 DEF Stop, TargetDetached, ShutdownCheck, StopCheck
<1>3. CASE UpdateFilter
  BY <1>3 DEF UpdateFilter, Retarget, UpdateTarget
<1>4. CASE Enumerate
  BY <1>4 DEF Enumerate
<1>5. CASE ScanStep
  BY <1>5 DEF ScanStep
<1>6. CASE Shutdown \/ WatcherChanged
  BY <1>6 DEF Shutdown, WatcherChanged
<1>7. CASE ProcessesUpdated
  BY <1>7 DEF ProcessesUpdated, Retarget, UpdateTarget, control
<1>8. CASE StopRequest \/ StopStore \/ ShutdownJoined
  BY <1>8 DEF StopRequest, StopStore, ShutdownJoined
<1>9. CASE (ChangeWatcher(GUI) \/ WatcherJoined(GUI)) /\ UNCHANGED <<budget, control, sessionVars>>
  BY <1>9, ChangeMoves DEF control
<1> QED
  BY <1>1, <1>2, <1>3, <1>4, <1>5, <1>6, <1>7, <1>8, <1>9 DEF OfGui

LEMMA InvWorld ==
  ASSUME Inv, OfWorld
  PROVE  Inv'
<1>1. CASE (Launch(USER \in handles) \/ Terminate(USER \in handles)) /\ UNCHANGED <<control, sessionVars>>
  BY <1>1, InvQuiet DEF Launch, Terminate, Owned, control, sessionVars, threadVars, targetVars
<1>2. CASE (\E c \in Sessions : ConsumerFail(c)) /\ UNCHANGED control
  BY <1>2, InvConsumer DEF control
<1>3. CASE WatcherBlind /\ UNCHANGED <<control, sessionVars>>
  BY <1>3, InvQuiet DEF WatcherBlind, WatcherSees, Owned, control, sessionVars, threadVars, targetVars
<1> QED
  BY <1>1, <1>2, <1>3 DEF OfWorld

LEMMA InvNext == Inv /\ [Next]_vars => Inv'
<1> SUFFICES ASSUME Inv, [Next]_vars PROVE Inv'
  OBVIOUS
<1>1. CASE Start \/ Stop \/ UpdateFilter \/ Enumerate \/ ScanStep \/ Shutdown \/ OfGui
  BY <1>1, InvWindow
<1>2. CASE OfWorker \/ Throw
  <2>1. CASE (ChangeWatcher(WORKER) \/ WatcherJoined(WORKER)) /\ UNCHANGED <<budget, control, sessionVars>>
    BY <2>1, ChangeMoves, InvQuiet DEF Owned, control, sessionVars, threadVars
  <2> QED
    BY <1>2, <2>1, InvSetUp, InvRunning, InvCleanUp DEF OfWorker
<1>3. CASE OfWorld
  BY <1>3, InvWorld
<1>4. CASE WatcherStep
  BY <1>4, InvWatcher
<1>5. CASE FlusherStep
  BY <1>5, InvFlusher DEF FlusherStep, control
<1>6. CASE Optional
  BY <1>6, InvRunning, InvFlusher, InvConsumer DEF Optional, control
<1>7. ASSUME NEW c \in Sessions, ConsumerStep(c) \/ CallbackStep(c) PROVE Inv'
  BY <1>7, InvConsumer, InvProcessEvent, InvCall DEF ConsumerStep, CallbackStep, control, Sessions, Callers
<1>8. CASE UNCHANGED vars
  BY <1>8, InvQuiet DEF vars, Owned, attachmentVars, control, sessionVars, threadVars, targetVars
<1> QED
  BY <1>1, <1>2, <1>3, <1>4, <1>5, <1>6, <1>7, <1>8 DEF Next

(* What exists is as the place of session_worker_loop says, on every path  *)
(* through it, also when it unwinds.                                       *)
THEOREM SessionOwnership == Spec => []Inv
<1>1. Init => Inv
  BY InvInit
<1>2. Inv /\ [Next]_vars => Inv'
  BY InvNext
<1> QED
  BY <1>1, <1>2, PTL DEF Spec

(* A consumer, the flush thread or the watcher uses the engine only while  *)
(* it exists, and nothing of a session outlives its EtwSessionManager, on  *)
(* every path out of session_worker_loop.                                  *)
THEOREM NoUseAfterFreeHolds == Spec => []NoUseAfterFree
<1>1. Inv => NoUseAfterFree
  <2> SUFFICES ASSUME Inv PROVE NoUseAfterFree
    OBVIOUS
  <2> USE DEF Inv, OwnerInv
  <2>1. manager => engine
    BY DEF OwnsEngine
  <2>2. UsesEngine # {} => engine
    BY <2>1 DEF UsesEngine, Outlived
  <2>3. worker.step = "ended" => ~engine /\ ~manager
    BY DEF OwnsEngine, Managing, Closing
  <2> QED
    BY <2>2, <2>3 DEF NoUseAfterFree
<1> QED
  BY <1>1, SessionOwnership, PTL
=============================================================================
