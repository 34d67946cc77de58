# Stuttometer in TLA+

Stuttometer watches Windows trace events for frame stutters, audio dropouts and
compositor glitches, and when one happens it freezes a window of recent kernel
and GPU events into a report.  Events arrive on ETW consumer threads that must
never block, so the core is built from lock-free structures: a trigger state
machine, a ring of recent events, rings and queues for what is filtered or
streamed, hash tables that pair start and end events.  These modules describe
that core step by step, and around it the path of an event from its handler to
the diagnosis, the capture session of the command-line program with its event
stream, and the sessions of the desktop program.  TLC checks all of it on small
instances; TLAPS proves the invariants of the lock-free structures, of the event
stream and of the sessions' clean-up for every instance.

Paths below are relative to the repository.

## The system

| component | state | operations | what makes it correct |
|---|---|---|---|
| **Trigger life cycle** `src/trigger_engine.cpp` | `state_`, `claim_generation_`, `writer_lock_`, the seqlocked `active_trigger_`, four deadlines, `report_consumed_`, `staged_gpu_duration_us_` | `on_dxgi_present`, `on_kernel_frame_stall`, `on_dwm_glitch`, `on_audio_glitch` (ETW threads); `poll_state`, `on_report_completed` (monitoring thread) | one report per accepted trigger, never a torn one; no event lost from the counters; never wedged |
| **Target attachment** `src/trigger_engine.cpp`, `src/process_watcher.cpp` | `target_state_` (pid and waiting flag), `last_detached_pid_`, `last_target_pid_`, the watcher's `attached_pid_` | `try_attach_pid`, `try_detach_pid` from the ETW process events and from the polling watcher | engine and watcher agree in the end; idempotent for the same pid; no stale attachment |
| **FlightRecorder** `src/flight_recorder.cpp` | `head_`, slots of sequence and record | `push` (ETW threads), `snapshot` (monitoring thread) | snapshots whole, ordered, complete; nobody waits for a stalled thread |
| **FilteredEventRing** `include/stuttometer/filtered_event_ring.hpp` | the same ring with a `read_pos_` | `push`, `pop` | events in order, none twice, drops bounded and counted |
| **FixedInFlightTable** `include/stuttometer/fixed_table.hpp` | slots EMPTY, WRITING, VALID, TOMBSTONE with key and value | `insert`, `update`, `upsert`, `find_and_erase`, `lookup`, `evict_stale` | a slot has one owner; a found value is whole and the key's own; a key is there once and can be reached |
| **NdjsonWriter** `src/ndjson_writer.cpp` | bounded queue, worker thread, file, rotation | `push`, worker loop, `stop` | every record written or counted; stop drains the queue |
| **EtwSessionManager** `src/etw_session.cpp` | two trace sessions, consumer and flush threads, `last_processed_qpc_` | `start`, `stop`, event callbacks | half-started sessions are undone; no thread outlives the manager; a report waits for its window |
| **ETW handlers** `src/etw_handlers_*.cpp` | the in-flight tables, the last present and flip, recent glitches | one handler per event kind | a duration belongs to the process and the pair of events it is charged to |
| **CLI loop** `src/main.cpp` | `g_stop_requested`, report counter | drain, poll, snapshot, correlate, save; shutdown | events filtered before the stop reach the file |
| **Frame pacing** `include/stuttometer/frame_pacing_tracker.hpp` | rolling window, warm-up, candidate cadence, judder episode | `evaluate_frame_pacing` | the sums are those of the window; a new cadence is adopted |
| **SessionBenchmark** `src/session_benchmark.cpp` | frame ring with epochs, attribution counters | `ingest_frame`, `retarget`, `reset`, `get_summary` | no frame counted for a target it does not belong to; every incident counted once, but for mild compositor glitches under a target |
| **GuiController** `src/gui/gui_controller.cpp` | session state, worker, watcher | start, stop, retarget, shutdown | never stuck between states; engine not used after it is gone |
| **CorrelationEngine** `src/correlator.cpp` | none | snapshot and trigger to diagnoses, attribution, timeline | what it diagnoses happened, and what happened is diagnosed |
| Reports, configuration, windows | - | formatting, parsing, painting | not modelled (see the end) |

**How they interact.**  ETW consumer threads decode an event, `push` it into the
FlightRecorder and the NDJSON queue, and call the trigger engine.  The engine
claims, publishes and moves to its post-window.  The monitoring thread polls
the engine every few milliseconds; when a trigger is frozen it flushes the
sessions, waits until `last_processed_qpc_` passes the window, takes a snapshot
of the FlightRecorder, correlates it, writes the report and completes the
trigger, which starts a cooldown.  Meanwhile the process watcher and the ETW
process events attach and detach the target.  Filtered events go through their
own ring to the NDJSON queue.  Everything between the threads is atomics; only
the GUI controller, the benchmark and the writer's idle wait use mutexes.

**What is hard.**  Seqlocks with several writers; a claim superseded by a
watchdog while its thread sleeps; check-then-act pairs on two atomics; rings
that wrap under a sleeping producer or reader; spin budgets that end in
silence; timestamps from two sessions out of order; shutdown orders.
`PROJECT.json` lists each such place with its line and the property on it.

## The modules

| module | what it is |
|---|---|
| `TriggerCycle` | abstract specification of the engine: ready, held, reported, cooldown |
| `TriggerEngine` | the engine in single atomic operations; refines `TriggerCycle` |
| `TriggerEngineProofs` | its TLAPS theorems |
| `TicketRing` | producers' side of the lock-free ring (a component: no `Spec` of its own) |
| `FlightRecorder` | `TicketRing` plus the snapshot reader |
| `MCFlightRecorder` | small snapshot windows for TLC |
| `TicketRingProofs` | lemmas about the producers, for any reader |
| `FlightRecorderProofs` | theorems of `FlightRecorder`, from those lemmas |
| `FilteredEventRing` | `TicketRing` plus the consumer that pops |
| `FilteredEventRingProofs` | its theorems, from the same lemmas |
| `InFlightTable` | the hash table, every operation step by step |
| `MCInFlightTable` | two colliding keys and their callers for TLC |
| `InFlightTableProofs` | its theorems |
| `FramePacing` | the frame pacing detector as operators on the statistics of one stream |
| `EtwHandlers` | the event handlers: tables and event to tables, records and a call of the engine |
| `Correlator` | the correlation engine as operators: snapshot and trigger to a report |
| `SessionBenchmark` | the benchmark as operators on its ring and its attribution |
| `EventPath` | composes the four with the engine's handlers and a world in which things stall |
| `MCEventPath` | its scenarios for TLC |
| `EventPathProofs` | its theorems: the benchmark's frames, the statistics of the streams, how a stream settles on a cadence, what the summary counts |
| `NdjsonWriter` | the event stream writer: queue, worker, rotation (a component) |
| `CliLoop` | `NdjsonWriter` with two trace consumers and the loop and shutdown of `main` |
| `MCCliLoop` | its scenarios for TLC |
| `CliLoopProofs` | theorems of `CliLoop` and, within it, of `NdjsonWriter` |
| `TargetAttachment` | the engine's target, process events and the process watcher (a component) |
| `EtwSession` | `TargetAttachment` with the session manager's threads (a component) |
| `GuiController` | `EtwSession` with the window's thread, the session worker and the process scan |
| `MCGuiController` | its scenarios for TLC |
| `GuiControllerProofs` | its theorem, over `EtwSession` and `TargetAttachment` |

A definition named like `ClaimSlotBlind`, marked *Mutant* in its comment, is a
deliberately wrong version of the action next to it; the property named with it
in `PROJECT.json` fails when it takes that action's place.

### TriggerEngine

A producer `p` has a program counter `pc[p]`, the local candidate `cand[p]` and
`my_gen` as `gen[p]`; the monitoring thread has `cpc`, `rseq`, `rcopy`.  Each
load, store or compare-exchange that another thread can observe is an action:
`ClaimState` and `BumpGeneration` are Phase 1 of `initiate_trigger_atomic`,
`Store...` Phase 2, `CheckGeneration` to `PublishEnd` Phase 3,
`RecheckGeneration` and `CommitTrigger` Phase 4.  `PollState` loads `state_`
once and the `Poll...` actions act on that copy, as the code does.

* *Time.*  A deadline is unset, pending or expired, and `Elapse` expires a
  pending one.  With `ClaimsMayStall = FALSE` no claim outlives the five-second
  watchdog; with `TRUE` any claim may.
* *Payloads.*  The 64-byte copy of `active_trigger_` is torn in between; a
  reader in that moment sees `TornTrigger`.
* *Open choices.*  Process filter, severity gate, vblank floor, recency of the
  last present and the pacing verdict are nondeterministic.  `OTHER` stands for
  audio, compositor and judder triggers, which the state machine treats alike.
* *Merged stores.*  Stores next to each other that only one other thread reads,
  and reads in an order that cannot tell, are one step: the post-window target
  with `report_consumed_`; the three timestamps in `on_report_completed`; the
  freeze in `poll_state`.
* *Clients.*  The test clients of the engine poll again before they complete a
  report, and the watchdog may complete it for them; both are in the model.

### TicketRing and FlightRecorder

`ClaimTicket`, `LapCheck`, `LoadSeq`, `Overtaken`, `AwaitWriter`, `ClaimSlot`,
`BeginCopy` and `Publish` are the steps of `push`.  A record is torn between
`BeginCopy` and `Publish`; its timestamp, the first word, is already there.
The reader's actions follow `snapshot`: the sequence (`ReadSeq1`), the
timestamp and its check (`ReadStamp`, `VerifyStamp` with the decision
`Triage`), the copy and its check (`ReadRecord`, `VerifyRecord`), and
`EndSnapshot` for reversal and stable sort.  Both retry budgets, both cushion
limits and the skew limit are constants.  `PushEvent` bounds the disorder of
timestamps by `MaxSkew`: the source's comment at `src/flight_recorder.cpp:123`
promises exactly that of the two sessions.

### FilteredEventRing

The producers are those of `TicketRing`: `push` of `filtered_event_ring.hpp` is
line for line `FlightRecorder::push` with other constants, and `map` names both.
The consumer has `cpc` and the locals of `pop`: `LoadSeq1` decides between
copying, waiting (`AwaitEvent`, up to `MaxReadSpins`) and counting the ticket as
dropped (`SkipLapped`); `CopyEvent` and the second look at the sequence end in
`ReturnEvent` or `SkipTorn`.  History variables record the events popped and the
tickets skipped.  `pop` that finds nothing returns to `idle` and may be called again.

### InFlightTable

A slot is `sequence`, `key`, `state` and `value`; a thread has its next step
`pc[t]` and its locals `me[t]`.  Five operations share the search for a key:
`insert`, `upsert`, `update`, `find_and_erase`, `lookup`.  The actions are
grouped by what a thread is doing; the operators at the end (`insert`, ...,
`evict_stale`) say which of them an operation consists of.

* *Search.*  `SeeValid`, `SeeEmpty`, `PassTombstone`, `PassWriter`,
  `CompareKey` are one visit to a slot; `Again` is the retry loop,
  `EndOfChain` what follows the last probe.  A wait for a WRITING slot is the
  thread taking its time, and giving up after `MAX_SLOT_SPINS` is the choice to
  pass on, which the code remembers in `saw_writing`.
* *Claim.*  `ClaimFound` is the compare-exchange VALID to WRITING, `Recheck` the
  second look at the key (or, for the eviction, at the sequence);
  `ClaimEmpty` and `ClaimTombstone` take a free slot.
* *Write.*  `Write`, `Seal`, `Release`: sequence odd and data, sequence even,
  state.  A value is torn between the first two.
* *Read.*  `ReadSeq1`, `CopyValue`, `VerifySeq`, `Confirm` are `lookup`'s, and
  the eviction's scan uses them too.

A value is its key and the number of the call that stored it, which is also its
timestamp for the eviction.  `clear` is only the initial state: the sessions
call it while no callback runs.

### EventPath and its four parts

`EtwHandlers`, `FramePacing`, `Correlator` and `SessionBenchmark` are sequential
code and are operators: a handler takes the tables and an event to
`[tables, emit, call]`, `Evaluate` takes the statistics of a stream and a frame
to new statistics and a verdict, `Correlate` a snapshot and a trigger to a
report, `IngestReport` and `Summary` work on the benchmark.  `EventPath` runs
them in the order of the code.  `Deliver` is one call of `on_event_record`; the
call it makes into the engine is a step of its own (`OnDxgiPresent`,
`OnKernelFrameStall`, `OnAudioGlitch`, `OnDwmGlitch`), and so are `ClaimTicket`
and `WriteFrame` of `ingest_frame`, between which `BeginRestart` and
`EndRestart` of a retarget or a reset may come.  `Report` is the session worker
that takes the held trigger, correlates and tells the benchmark.

* *The world.*  Variables `open`, `stalls`, `incidents` and `shown` describe what
  happens in the machine: spans of disk I/O, preemption, scans, shader
  compilation and trims begin and end, points (DPCs, faults, glitches) happen,
  frames are shown.  Each makes the kernel log what ETW logs for it, in order;
  the session may lose an event and counts that it did.  The properties compare
  the summary and the report with this world, and never with the program.
* *Units.*  Times are ticks of 0.1 ms, thresholds microseconds, sizes megabytes,
  ratios percent, confidences ten-thousandths; doubles are rounded down, which
  the ranks of the scenarios do not depend on.
* *One clock.*  The conversion between FILETIME and QPC is left out.
* *One trigger.*  The engine holds one from the claim to the report, as
  `TriggerCycle` says; its cooldown is left out here.
* `AdaptsToCadence` speaks of each stream: of a run of frames of one length, the
  first few may be called stutters and no more.  A run ends at a gap after which
  a candidate could not outlive its samples (`Runs`).  Two lengths are exempt,
  because the code never settles on them.  Frames of which
  `PROMOTION_MIN_SAMPLES` take longer than a candidate lives: with the code's 60
  frames and 10 s, a steady 167 to 200 ms per frame is never adopted.  And frames
  exactly as long as the static threshold: `frame_pacing_tracker.hpp:580` lifts
  it above a mean it is below, not above one it equals, while firing asks for
  `>=`; in HYBRID mode one frame in each candidate is then reported.
* A compositor glitch is an incident unless an earlier one lies within 50 ms,
  which is what `handle_dwm_event` promises, and unless it is below
  `dwm_min_missed_vblanks` and the session follows a target (`Felt`):
  `on_dwm_glitch` passes such a glitch to the benchmark with the pid of the
  compositor, and the benchmark leaves other processes out
  (`src/session_benchmark.cpp:319`).  A frame is one if it is
  `Late`: the gap to the frame before reaches the static threshold, is neither
  that of a duplicate nor above 2 s, and does not end a pause.  The gap is taken
  from the same time stamps as in the program; that the frame gets through
  handler, target check, detector, gate and benchmark is what is checked.
* `IncidentsOnce` speaks of `Undisturbed` sessions: a static threshold, because
  a relative one has no fixed answer to which frames are late; DXGI frames,
  because flips count only at the engine's choice; no restart, which forgets
  what was counted.  `ReportsShared` speaks of all sessions.

### NdjsonWriter and CliLoop

A cell is its `sequence` and record; `push` is `PushStart` (the `stopped_` check
and the load of `enqueue_pos_`), `PushCell` (look at the cell's sequence: take
the position, try again, or give the record up) and `PushPublish`.  The worker
is `WorkerTake`, `WorkerWrite` (a line, or first a rotation whose removals,
renames and reopening may each fail) and `WorkerExit`; `StopAsked` and
`StopJoined` are `stop`.  A line counts as one byte of `max_bytes_`.

`CliLoop` adds the consumer threads, which handle an event in the order of
`on_event_record`: recorder, stream, engine, and `last_processed_qpc_` at the
end (`RaiseProcessed`, a maximum over both consumers as in the code); the loop of
`main` (`Drain`, `Poll`, `Wait`, `Snapshot`, `Report`) and its shutdown
(`SessionStop`, `JoinConsumers`, `DrainLast`, `StopWriter`, `Finish`).  The
clock ticks with each logged event, `CtrlC` may come at any time, and the stream
may be off.  Recorder, engine and filtered ring are what their own modules show
them to be.

### GuiController, EtwSession, TargetAttachment

`TargetAttachment` has the two ways in which the engine hears of a process: the
`events` of the trace session, in order but late, and the watcher's snapshots,
stale when it acts on them.  `TryAttach` and `TryDetach` are the
compare-exchanges on `target_state_`, `CompareDetached` the look at
`last_detached_pid_`, `StoreDetached` its store: steps of their own, for both
callers.  The watcher's callbacks hold `trigger_engine_mutex_` (`engine_lock`)
and `watcher_mutex_` is `watcher_lock`.  `EtwSession` has `start` in its three
stages, each of which may fail, the consumers from the check of `running_`
through `OpenTrace`, the stored handle and `ProcessTrace` to their end, the flush
thread and `stop`.  `GuiController` has the window's thread, the thread of
`session_worker_loop` with every way out of it, and the process scan.

* *Window's thread.*  It handles posted messages (`posted`) before input; the
  user starts, stops, retargets, picks and closes.  What its handlers would
  refuse, such as a start while busy, is not offered.
* *Merged.*  Both traces are closed in one step; `Degrade` loads and stores the
  state at once; the join in `start_session_async` is the guard that the worker
  has ended.  Messages that only show something are left out.
* *World.*  All processes bear the name that is looked for, pids are not used
  again, snapshots list the smallest first, and a trace session that runs loses
  no process event.  An exception is offered where the worker starts the trace
  sessions and in its loop; not between the two `StartTrace` calls, where an
  allocation failure would leave the user session behind.  A snapshot of the
  processes may fail, which the watcher takes for one without the target
  (`WatcherBlind`).  The list from which the user picks a process may be old.
* *Tiers.*  `asked` is what a session asks for; the minimal tier leaves the kernel
  trace out, and is RUNNING all the same.
* `Following`, the premise of `TargetSettles`, asks for a target name: with
  "monitor all" chosen while the session starts, the worker's watcher keeps
  running without one.


## The runs

| run | instance | shows |
|---|---|---|
| `engine_cycle` | 2 producers, 2 events, post-window, no stalled claims | types; a held trigger is a published, accepted one; refinement of `TriggerCycle`; accepted triggers are reported |
| `engine_stall` | 2 producers, 2 events, no post-window, stalled claims, reports left open | no torn report, only the newest claim publishes, exact accounting, the engine always re-arms |
| `engine_steal` | stalled claims | a counterexample: see findings |
| `engine_upgrade_leak` | 1 producer, 3 events | a counterexample: see findings |
| `recorder` | 2 producers, 2 slots, 3 tickets, 1 snapshot, stamps 1..3, skew 1 | published slots intact, tickets accounted, snapshots whole, ordered and complete, slots only advance, calls return |
| `filtered` | 2 producers, 2 cells, 5 tickets, 1 consumer | popped events whole, in order, once; only lapped tickets are dropped; tickets are resolved (types are proved) |
| `table` | 2 threads and the evictor, 2 keys that collide, 2 slots, 4 calls | slots owned by one; found values whole, own, taken once; eviction spares fresh entries; chains unbroken; no false miss; keys once; calls return |
| `diagnosis` | 21 scenarios of 2 to 7 events and frames, one or two processes | sums and candidates of the pacing detector consistent; a steady cadence adopted; the summary shows the frames of its target; incidents counted once; diagnoses match what happened |
| `pipeline` | 2 consumers and `main`, 2 cells, 2 to 4 events, files of 1 or 2 lines with up to 2 failing operations | every record of the stream written or counted, in order, none left behind by the shutdown; a report holds what each session had finished of its window |
| `pipeline_drain` | the scenarios of `pipeline` that report | a counterexample: see findings |
| `session` | 13 scenarios of one or two sessions, up to 2 processes coming or going, one retarget, scan, failed snapshot or exception, 1 or 2 failed consumers | nothing used after it is gone; stop and shutdown end, and so does a session told that its target has gone; the engine settles on a live process |
| `session_end` | one session, stopped once or following a process that may end | a counterexample: see findings |

*Bounds.*  Two producers are enough for every race of the engine, which is
between one writer and one superseder or between a writer and the reader; two
events let a second claim supersede the first, and three let a value leak from
one trigger to the next.  In the ring, three tickets over two slots lap a slot
once, so that a producer or the reader meets an older and a newer generation;
one retry and a cushion of one or two records reach every branch of the
budgets; five tickets lap a cell twice under a sleeping consumer.  In the table
both keys have the same home, so that every search crosses the other key's slot,
and two slots make the table full; with four calls a slot goes through EMPTY,
VALID, TOMBSTONE and VALID again under a thread that sleeps.  Two retries are the
least at which a thread can retry and still give up.  Each key is stored by one
thread, as each table's start events come from one consumer thread; the other
thread erases it and looks it up.  Without that restriction keys may be stored
twice (finding 6).
The engine, recorder and table runs switch deadlock checking off: with the
bounded events used up and everything reported the model rightly stops.

`diagnosis` scales the detector's windows down (4 samples, promotion after 3)
so that warm-up, promotion, judder and pauses of two seconds all happen within
seven frames, and the benchmark's ring to two frames so that it wraps; spans and
delays are chosen around the thresholds of the code, which are unscaled.  In
`pipeline` two cells are the least a Vyukov queue needs, and three threads push
into them; with lines of one byte a file of one line rotates at every line, and
three files with two failures reach every failing removal, rename and reopen.
Two sessions, one after the other, and two processes that come or go are enough
for a stale snapshot, a late event and a retarget to meet in `session`; it takes
small scenarios instead of one large one, because each adds one kind of trouble.
`session` and `diagnosis` switch deadlock checking off: users and events run out.

*Fairness.*  `TriggerEngine`: each producer's own steps, the polling loop and
the passage of time; nothing forces an event to arrive or a client to complete
its report.  `FlightRecorder`: the reader and the producers in `Live`; the
others may stop for ever, also inside a write, and `CallsReturn` holds
nevertheless because all waiting is bounded.  `FilteredEventRing`: all threads,
since `TicketsResolved` asks what becomes of tickets whose producers go on.
`InFlightTable`: only the threads in `Live`; the others may stop inside a slot,
and `CallsReturn` says that a live thread's call ends all the same.
`GuiController`: every thread takes its next step when it can; no user, no
process and no failure is forced to act, and neither is an optional event or
report.  The steps that take a mutex have strong fairness: its other holders
are the watcher, which sleeps 250 ms or more with the mutex free between two
turns, and calls that return, so that a waiter does get it.  `EventPath` and
`CliLoop` state no fairness; their properties are invariants, and the deadlock
check of `pipeline` says that the shutdown of `main` never hangs for want of an
enabled step.

## Findings

Behaviours that the repository's comments, tests or messages rule out.  Each of
the first four has a run that TLC ends with a counterexample.

1. `engine_steal`: between the second generation check
   (`src/trigger_engine.cpp:200`) and the compare-exchange (`:214`) a claim can
   be abandoned by the watchdog and taken over; the compare-exchange then
   succeeds on the *new* claim, which is not yet published.  The stall must
   outlast the watchdog, and production has one triggering thread, so it is
   a gap in the class's multi-producer contract rather than a field failure.
2. `engine_upgrade_leak`: a stall staged (`:443`) after the report was completed
   (`:638`) stays behind and upgrades the next trigger, whatever its source, to
   `KERNEL_FRAME_STALL`.  One producer thread suffices.
3. `pipeline_drain`: `last_processed_qpc_` (`src/etw_session.cpp:674`) is one
   maximum over both trace sessions, so the wait in `main` ends when the faster
   one has passed the window.  An event of the other that was delivered before
   may not be in the recorder yet, although `:673` guarantees that "all delivered
   events with timestamp <= to_qpc are published".  The sleep of one more step
   after the wait makes this rare, not impossible.
4. `session_end`: `SessionEnds` has two halves, and each fails when it is checked
   alone; the counterexample printed for both is that of the first.
   * `StopSettles`: the worker may store IDLE between the look at the state
     (`src/gui/gui_controller.cpp:237`) and the store of STOPPING (`:240`), the
     state is then STOPPING for good, and every further start is refused.  The
     comment at `:243` says the worker will post IDLE.  Threads still end and the
     shutdown works, which is `StopEnds` (run `session`).
   * `ExitEndsSession`: `try_detach_pid` stores `last_detached_pid_`
     (`src/trigger_engine.cpp:682`) after its compare-exchange (`:679`).  When the
     watcher detaches the process that the trace session is just detaching, it is
     refused between the two, though `:674` promises success, and nobody tells
     the window: the session runs on and its benchmark stays with a dead process.

Three more have no run of their own; they show in what a property excepts.

5. A producer of the filtered ring gives its ticket up at
   `include/stuttometer/filtered_event_ring.hpp:49` when the *next* ticket, not
   the newest, is a lap ahead.  Nobody has the cell then ("if we've been lapped",
   says `:47`), so `pop` waits at the ticket until something else is pushed.  A
   drain at the end stops there with the events behind it unread, and the loop
   of `tests/test_report_filtering.cpp:175`, which asserts at `:204` that nothing
   is left, would not end.  The spin limit (`:68`) has the same effect.
   `TicketsResolved` excepts exactly this state (`Abandoned`).
6. Two threads that store one key in a table may both succeed, one on a
   remembered tombstone and one on the EMPTY slot behind it, although the comment
   at `include/stuttometer/fixed_table.hpp:169` says that probing again prevents
   duplicates.  Today's callers store a key from one thread, and then `KeyOnce`
   holds: in the run, and as a theorem under `OneStorer`.
7. In the minimal tier, which never asked for the kernel trace, the loss of the
   user consumer leads to DEGRADED_KERNEL_ONLY (`src/gui/gui_controller.cpp:491`)
   and no stop: a session with no trace left, shown as "Kernel-Only"
   (`src/gui/main_gui.cpp:658`).  The run `session` has it (`Degrade`); no
   property is about it.

The proof of `FoundIsOwn` showed one more limit, which is written into the
property.  `lookup` verifies the sequence (`fixed_table.hpp:606`) before it
looks at state and key (`:608`).  If the slot held another key while the value
was copied and is refilled with the wanted key just after the sequence was
verified, `lookup` returns the other key's value.  It takes a slot recycled
twice within one lookup and another thread that stores the wanted key
meanwhile, which today's callers do not do; loading the sequence last would
close it.

Other limits met while modelling, of which no comment or test we found says
otherwise; the properties state what the code does:

* The session hypothesis totals of the benchmark include minor reports, its net
  stall does not; a report pending at a reset is counted after it; telemetry of
  the old target may arrive after a retarget and is shown until the next frame
  (`src/session_benchmark.cpp:655`).
* A compositor glitch below `dwm_min_missed_vblanks` is not even a minor stutter
  of a session that follows a target: it bears dwm.exe's pid.
* A snapshot of the processes that fails counts as the end of the target
  (`src/process_watcher.cpp:103`), and the window then ends the session.
* A process picked from an old list may be gone; the watcher, which never saw it,
  does not detach it.
* A flip-only target with `min_missed_vblanks` above one records ordinary frames
  as filtered and never feeds the benchmark (`src/trigger_engine.cpp:387`, `:400`).
* A frame after a pause of two seconds is never judged; a disk request of more
  than three seconds has no duration.
* `update_target_filter` may start the watcher after the worker has stopped its
  own (`:281`).  It runs on while the controller is idle and does nothing.
* The name by which `on_process_terminated` and the watcher detach is that of the
  session's start (`src/trigger_engine.cpp:668`): a session started in
  "monitor all" and retargeted later, or started with the pid of a process that
  is gone, never detaches.  A lost termination event has the same effect if the
  watcher has not seen the process.  `TargetSettles` is about sessions that
  follow a name; once no process is left it asks that the engine waits, and
  leaves open what the benchmark shows (finding 4).
* If a rename of a rotation fails, the reopened base file is truncated.

## What is proved

For every number of threads, capacity, bound and scenario, from the named
assumptions of the modules.  Most say what a constant is (`EngineAssumption`,
`RingAssumption`, `RecorderAssumption`, `ReaderAssumption`, `TableAssumption`,
`LoopAssumption`, `ThreadsDiffer`: the thread names are different;
`PacingAssumption`, `PathAssumption`: the order of the detector's limits and the
process numbers).  `ScenarioAssumption` says that time does not run backwards:
presents come from one trace session, which delivers in order of time, and time
stamps are positive; and that `present_threshold_ms` and `min_spike_delta_ms` are
positive, as `cli_parser.cpp:402` and 404 and `src/gui_config.cpp:155` and 319 demand.  `CandidateAssumption` says that of frames slower
than the sanity ceiling not enough come for a promotion before their candidate
is stale: 60 times 200 ms are 12 s, a candidate lives 10 s.
`LimitsAssumption` says that a file of the stream holds a line and that there is
a file: the constructor raises `max_files_` to 1, and the model counts
`max_bytes_` in lines.

*The engine* (`TriggerEngineProofs`).

* `TypeCorrect`, `AccountingAlways`, `NewestPublishesAlways`,
  `NoTornReportAlways`.  Accounting is not inductive: it needs that event
  numbers are unique and that no accepted event is under way (`CountInv`).
  `NewestPublishes` needs that the writer lock excludes and that nobody's
  generation exceeds `claim_generation_`.  `NoTornReport` needs that the
  sequence is odd exactly while the lock's holder publishes, that it only grows,
  and that an unchanged even sequence therefore means an unchanged payload.
* `HeldIsPublishedAlways` and `CycleImplemented`, under the hypothesis
  `~ClaimsMayStall`: no claimer is preempted for the five seconds after which
  another may take its claim over.  Without it both are false, which is the
  finding of `engine_steal`.  With it `ClaimInv` holds: one producer at a time is
  between its claim and its commit, the engine is CLAIMED meanwhile, and from the
  end of the copy the payload is its own.  `PollInv` says that what the polling
  thread loaded of `state_` still holds.  The refinement maps each step to one
  of `TriggerCycle` or to a stutter; claim to commit are a single step there.

*The recorder and the filtered ring* (`TicketRingProofs`,
`FlightRecorderProofs`, `FilteredEventRingProofs`).

* `PublishedAlwaysIntact`, `WritersExclude`, `PushesAccounted` and
  `SlotsAlwaysAdvance`.  `PublishedIntact` is not inductive: a writer's step
  keeps it only if the slot is still its own.  `RingInv` adds that no two
  producers hold the same ticket (`TicketsOwned`) and that a writer's slot
  carries the odd sequence of its ticket (`WritersMarked`); as sequences name
  tickets, exclusion follows.  The lemmas speak of `RingNext` alone;
  `RecorderRefinesRing` shows that the reader leaves the ring alone.
* `RecorderTypes` and `SnapshotAlwaysIntact`.  `ReadInv`: a slot the reader
  works on was published when it looked first, and while the sequence is the
  same, the copy in hand is the slot's record and the stamp it judged is that
  record's stamp.
* `SnapshotAlwaysOrdered`.  `ScanInv`: what the scan has taken lies past the slot
  it looks at, newest first.  The stable sort is stated without recursion, by the
  place each record goes to: the number of records that precede it.  That two
  records never go to one place and that every place is taken is a counting
  argument (`PlacesDiffer`, `PlacesTaken`).
* `SnapshotAlwaysComplete`.  `SkewBounded`: an event is offered at most `MaxSkew`
  behind any with a smaller ticket.  `CompleteInv`: each record that must be in
  the snapshot is in it, or its slot went to a newer ticket, or the scan has yet
  to get there; the scan stops early only at a record so old that by
  `SkewBounded` nothing wanted lies before it (`FarEnough`).
* `PoppedAlwaysIntact`, `PoppedAlwaysInOrder` and `SkippedAlwaysLapped` of the
  filtered ring, from the same lemmas.  What a consumer has copied is whole if
  the sequence is still the one it saw, because an unchanged published sequence
  means an unchanged record (`UnchangedRecord`); the order follows since every
  ticket below `read_pos` is popped or skipped and none above.

*The table* (`InFlightTableProofs`), for any capacity, hash and limits.

* `TypeCorrect`, `OneOwnerAlways`, `ValidAlwaysWhole`, `FoundIsAlwaysOwn` and
  `ChainAlwaysUnbroken`.  `StepEffect` reduces what a thread does to a slot to a
  few cases, so that each invariant looks at those and not at every action.
  `SlotInv` adds to `OneOwner` what a settled slot holds and how far an owner has
  filled its own.  `FindInv` says what a reader knows of a slot whose sequence is
  still the one it saw.  `ChainInv` says of a thread that probes for a place that
  all slots behind it were used (`Path`), of an owner that its slot can be
  reached (`Reached`): as no slot ever becomes EMPTY again, both last.
* `EvictionOnlyOfStale`.  `EvictInv`: a slot owned with the sequence the scan
  read before copying holds the value that was judged.
* `TakenAtMostOnce`.  `TakeInv`: each call's value is in one place, with its
  thread, in one slot or among those taken.
* `MissesOnlyTheAbsent`.  `MissInv`: while nobody erases the key, some slot of
  its chain holds it or is in the hands of a thread that will put it back, and a
  search that has passed no writer has that slot before it.
* `KeyAtMostOnce`, under the hypothesis `OneStorer`: each key has one thread
  that inserts it, as each table's start events come from one consumer.  `OnceInv`
  says that a thread that found its key nowhere is the only one that could put it
  anywhere.  Without the hypothesis the property fails (finding 6).

*The session of the command-line program* (`CliLoopProofs`), for any number of
sessions.

* `WindowAlwaysInReport`.  `LoopInv` follows an event from its session's buffer
  through the consumer to the recorder: times grow along this way (`InOrder`),
  nothing on it is lost, a session's mark is at or past what it has finished,
  and a snapshot holds all that each session had logged in its window up to its
  mark.  The theorem claims no more than the wait gives: of the slower session
  it promises what that session had finished, and finding 3 shows that
  "delivered" would be too much.
* `StreamAlwaysIntact`, with `StreamInv` in four parts.  *The queue*: the positions from the
  oldest not yet free (`Low`) to `enqueue_pos` are in use, by a thread that
  publishes or by the record of that ticket, and the rest of the lap is free;
  positions less than a capacity apart have different cells, which needs the
  remainders of division, and two cells at least, or a cell published in one lap
  would look free in the next.  *The accounts*: records past `Low` are not lost,
  those before it are written or counted, a record under way is new.  *The
  files*: lines in order whatever operation of a rotation failed; if none did,
  the files hold the end of what was written and only the oldest lines are gone.
  *What is to come* (`Feed`): no event is offered twice, since a consumer's
  next is later than all it has finished and an event told to the filtered ring
  is told once.  `ShutdownOrder` says where each thread is once the
  consumers are joined, the last drain is over and the writer stopped, so that no push
  finds a writer that has left.

*The sessions of the desktop program* (`GuiControllerProofs`), for any set of
processes and any scenario.

* `SessionOwnership` and `NoUseAfterFreeHolds`.  `OwnerInv` says which steps of
  `session_worker_loop` own an engine and a manager, on every way out of it; that
  the flush thread is joined before the consumers and both before the manager is
  dropped; and that a watcher that calls the engine holds the mutex under
  which the engine is dropped.

*The frames of the benchmark* (`EventPathProofs`), for any scenario, capacity
and number of restarts.

* `SummaryShowsTarget`.  `FrameInv` follows a frame through `ingest_frame`: it is
  stamped with the epoch read together with the target (`FrameUnderWay`), and an
  epoch that is over does not come back, so what is written under the present
  epoch is a frame of the present target.  A slot is odd while its ticket is
  claimed, and no other ticket has it until the ring has gone round
  (`FramesKept`), so the last frames shown are all there.  `FromStart` is what
  makes `start` safe to read from: between the halves of a restart the first
  ticket has moved and the epoch has not, and the property makes no claim.

*The statistics of the streams* (`EventPathProofs`), for any scenario, window
and limits of the detector.

* `PacingAlwaysConsistent`.  The sums of a window are recursive functions; that
  they exist and what replacing one sample does to them (`TotalsAdd`,
  `SumReplaced`) takes an induction, drawn from the least number principle: of
  the slots where a sum is wrong there would be a first.  `StatsOK` adds what the
  phases of `evaluate_frame_pacing` rely on, above all that a candidate's
  samples last a tick or more each and that its variance, whose square root is
  taken, is not negative after a new one either (`VarianceGrows`).  Every phase takes sound statistics to sound ones
  (`PushOK` to `EvaluateCommonOK`).  `StreamInv` is the same for the path: the
  times in the handlers' tables are numbers, and a frame that reaches the
  detector lasts a tick or more and is not older than its stream (`Fit`).
* `CadenceAlwaysAdapts`.  The bound is not inductive: it holds because the
  detector runs out of ways to fire.  `BeatInv` counts the stutters of a run and
  says what each has changed (`RunOK`).  While the stream warms up there is at most
  one for each sample it is short of.  Past that a stutter begins a candidate,
  which from then on holds this length only (`OneLength`).  It is steady, so
  its variance keeps no promotion from it; it does not go stale (`Lives`), with
  room for the one frame that a report of judder keeps from it (`Slack`).  Once
  promoted the window holds this length only (`Uniform`), and a frame as long as
  the mean is neither a spike nor above the lifted threshold.

*What the summary counts* (`EventPathProofs`), for any scenario.

* `IncidentsAlwaysCounted`, of two parts.  *Incidents.*  `CountInv` says where an
  incident is at every moment (`Balance`): counted by the benchmark (`Tally`),
  suppressed, held, or in the call under way (`Due`).  Each step moves it on and
  loses none.  That the handlers call for exactly the incidents needs
  `GlitchesKnown` (of the glitches that counted the table's first is the last,
  so looking at eight is enough) and `OnePresent` (a Present begins after all
  that ended, so the gap decides alone, `PresentHandled`).  That the detector's verdict is
  the threshold's (`StaticVerdict`) needs that the engine's streams end where the
  world's do, which is part of `BeatInv`; that no filter of the benchmark rejects
  what the engine let through needs that a frame under way and a held trigger are
  the target's (`CallsHeard`, `HeldHeard`) and that a filtered event lasts
  (`VerdictKnown`, `GlitchMeasured`).  After an event was lost only the parts
  that do not count hold.
* *Reports.*  `Charged`: a report adds one under a hypothesis and one under a tag,
  so both tables count the same.  That the culprits count all of it needs that a
  sum over a set of names is the sum over two parts of it; the sums are folds, and
  are shown to be the number of (name, report) pairs (`SumCounts`), again by a
  least counterexample.  `Leading` is a choice, so it is also shown that there is
  one to choose, for any number of names (`LeadingCulprits`).

Only model-checked: liveness (`EngineRearms`, `AcceptedIsReported`,
`TicketsResolved`, `CallsReturn`, `StopEnds`, `TargetSettles`), which the prover
cannot state with ENABLED, and one invariant of `diagnosis`:
`DiagnosisMatchesWorld` compares what the correlator makes of the recorded events
with all that happened.  Its evidence is found by folds over the snapshot, one
for each hypothesis, and what a fold finds takes an induction over the snapshot
for each of them; the prover has no induction rule it can instantiate, and a
least counterexample for every one of twelve would be longer than the correlator.

## Not modelled

* *Weak memory.*  Steps interleave sequentially consistently.  What the
  acquire and release annotations allow beyond that is not explored; on x86 the
  code's seqlocks compile to the order written.
* *Payloads.*  Decoding of trace payloads and clocks; the handlers start from
  decoded events.  Events that a report only counts (vertical blanks, memory
  budgets, paging transfers, sampled profile) have no handler in the model.
* *Windows.*  Which providers a session enables, privileges, display queries,
  and whether ETW delivers: it is assumed to deliver in order or to lose.
* *Presentation.*  JSON, CSV and Markdown output, percentiles and frame rates,
  options and configuration files, settings, painting, toasts, sounds: sequential
  code without shared state, except the log redirector of the window.

## Plan

The modules planned at the outset are written, and of the invariants the runs
check one, `DiagnosisMatchesWorld`, is unproved.  What is left is proof:

1. `Correlator`: for each hypothesis, that its fold over the snapshot finds a
   record that none exceeds; from that and the records each handler emits,
   `DiagnosisMatchesWorld`.
2. `TargetAttachment`: type correctness, and that `last_detached_pid_` names the
   process the waiting state came from whenever no call is under way.
