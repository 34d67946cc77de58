----------------------------- MODULE EventPath -----------------------------
(***************************************************************************)
(* The path of an event through a capture session: on_event_record runs    *)
(* its handler (EtwHandlers), which records it and may call the trigger    *)
(* engine; the engine feeds the benchmark (SessionBenchmark), judges the   *)
(* frame (FramePacing) and may hold a trigger; the session worker turns    *)
(* the trigger into a report (Correlator) and the benchmark counts it.     *)
(*                                                                         *)
(* Three threads act: the consumer of the user session, the session worker *)
(* and whoever restarts the benchmark, the process watcher (retarget) or   *)
(* the user (reset).  The engine holds at most one trigger from its claim  *)
(* to its report, as TriggerCycle says; the cooldown is left out.          *)
(*                                                                         *)
(* Around the program stands a world of stalls: things that really happen  *)
(* to a process for some time, and make the kernel and the runtimes log    *)
(* the events the handlers see.  The properties relate reports to them.    *)
(***************************************************************************)
EXTENDS FramePacing, EtwHandlers, Correlator, SessionBenchmark

CONSTANTS
  GAME, PEER,       \* two processes
  PRE, GPU_PRE, POST,  \* the capture window around a trigger, in ticks
  RETENTION,         \* ticks the flight recorder goes back
  STALL, SPELL,      \* duration of a short and of a long stall reported by one event
  MINOR, MAJOR,      \* size of a small and of a large allocation, trim or demotion
  Scenarios          \* what the world may do, and how the program is configured

ASSUME PathAssumption ==
  /\ GAME \in Nat \ {0, SYSTEM_PID} /\ PEER \in Nat \ {0, SYSTEM_PID, GAME}
  /\ {PRE, GPU_PRE, POST} \subseteq Nat
  /\ RETENTION > GPU_PRE + POST

(* Time has begun and does not run backwards; the detector runs in one of    *)
(* its modes, a threshold is positive, and a spike exceeds the mean: as      *)
(* cli_parser.cpp and gui_config.cpp demand, min_spike_delta_ms is 1.0 or    *)
(* more and present_threshold_ms 2.0 or more.                                *)
ASSUME ScenarioAssumption ==
  \A s \in Scenarios :
    /\ s.begin \in Nat \ {0} /\ s.delays \subseteq Nat /\ s.frameDelays \subseteq Nat
    /\ s.cfg.mode \in {"STATIC_ONLY", "HYBRID", "DYNAMIC_ONLY"}
    /\ s.cfg.delta \in Nat \ {0} /\ s.cfg.static \in Nat \ {0}

VARIABLES
  scene,      \* the scenario
  now,        \* time stamp of the last event
  left,       \* what the world may still do
  tables,     \* the tables of the session manager
  recorder,   \* the flight recorder
  lost,       \* whether the trace sessions lost an event
  call,       \* the consumer's call into the engine
  engine,     \* target and DXGI latch of the engine, suppressed_triggers_
  pacing,     \* pacing_table_: stream -> RollingFrameStats
  held,       \* the trigger from its claim to its report
  bench,      \* the benchmark
  restart,    \* the restart of the benchmark under way
  report,     \* the last report
  open, stalls, incidents, shown, session, beat   \* the world: see below

program == <<tables, recorder, lost, call, engine, pacing, held, bench, restart, report>>
world == <<open, stalls, incidents, shown, session, beat>>
vars == <<scene, now, left, program, world>>

NoTrigger == [source |-> "NONE"]
NoReport == [from |-> 0]
Idle == [pc |-> "IDLE"]
Thread(pid) == IF pid = 0 THEN 0 ELSE pid + 1

Init ==
  /\ scene \in Scenarios
  /\ now = scene.begin
  /\ left = [frames |-> scene.frames, events |-> scene.events, losses |-> scene.losses,
             restarts |-> scene.restarts]
  /\ tables = EmptyTables /\ recorder = <<>> /\ lost = FALSE /\ call = Idle
  /\ engine = [pid |-> scene.target, waiting |-> FALSE, observed |-> FALSE, lastDxgi |-> 0,
               attached |-> 0, suppressed |-> 0]
  /\ pacing = <<>> /\ held = NoTrigger
  /\ bench = NewBenchmark(scene.target)
  /\ restart = [pc |-> "IDLE", pid |-> scene.target]
  /\ report = NoReport
  /\ open = {} /\ stalls = {} /\ incidents = 0 /\ shown = <<>> /\ session = 0
  /\ beat = <<>>

-----------------------------------------------------------------------------
(* What happens in the world, and the raw events it makes. *)

Core(pid) == IF pid = GAME THEN 0 ELSE 1
Raw(kind, pid, ts) ==
  [kind |-> kind, pid |-> pid, tid |-> Thread(pid), core |-> Core(pid),
   ts |-> ts, key |-> 0, start |-> 0, size |-> 0, old |-> 0, waiting |-> FALSE]

(* A third process takes a core for a while, or runs when a request ends. *)
BYSTANDER == SCANNER_PID
Switch(from, to, core, waits, ts) ==
  [Raw("CSWITCH", to, ts) EXCEPT !.core = core, !.old = Thread(from), !.waiting = waits]

(* Spans begin with one event and end with another.  A disk request ends in  *)
(* the context of some other process; a preempted or waiting process gives   *)
(* its core to the bystander and gets it back.                               *)
SpanKinds == {"DISK", "SCAN", "PSO", "TRIM", "PREEMPTION", "WAIT"}

SpanStart(kind, pid, ts) ==
  CASE kind = "DISK" -> [Raw("DISK_INIT", pid, ts) EXCEPT !.key = pid]
    [] kind = "SCAN" -> [Raw("SCAN_START", pid, ts) EXCEPT !.key = pid]
    [] kind = "PSO" -> [Raw("PSO_START", pid, ts) EXCEPT !.key = pid]
    [] kind = "TRIM" -> [Raw("TRIM_START", SYSTEM_PID, ts) EXCEPT !.key = pid]
    [] kind = "PREEMPTION" -> Switch(pid, BYSTANDER, Core(pid), FALSE, ts)
    [] kind = "WAIT" -> Switch(pid, BYSTANDER, Core(pid), TRUE, ts)

SpanStop(kind, pid, ts) ==
  CASE kind = "DISK" -> [Raw("DISK_DONE", BYSTANDER, ts) EXCEPT !.key = pid]
    [] kind = "SCAN" -> [Raw("SCAN_STOP", pid, ts) EXCEPT !.key = pid]
    [] kind = "PSO" -> [Raw("PSO_STOP", pid, ts) EXCEPT !.key = pid]
    [] kind = "TRIM" -> [Raw("TRIM_STOP", SYSTEM_PID, ts) EXCEPT !.key = pid, !.size = MAJOR]
    [] kind \in {"PREEMPTION", "WAIT"} -> Switch(BYSTANDER, pid, Core(pid), TRUE, ts)

(* Everything else is told by one event when it is over. *)
PointKinds == {"DPC", "ISR", "FAULT", "PHYS", "ALLOC", "VRAM", "THERMAL", "DWM", "AUDIO",
               "KERNEL_PRESENT"}

Point(kind, pid, big, ts) ==
  LET dur == IF big THEN SPELL ELSE STALL
      amount == IF big THEN MAJOR ELSE MINOR
  IN CASE kind \in {"DPC", "ISR", "FAULT"} -> [Raw(kind, pid, ts) EXCEPT !.start = ts - dur]
       [] kind = "PHYS" -> [Raw(kind, pid, ts) EXCEPT !.start = dur]
       [] kind \in {"ALLOC", "VRAM"} -> [Raw(kind, pid, ts) EXCEPT !.key = pid, !.size = amount]
       [] kind = "DWM" -> [Raw(kind, RESOLVED_DWM_PID, ts) EXCEPT !.size = IF big THEN 3 ELSE 1]
       [] OTHER -> Raw(kind, pid, ts)

(* A stall as the properties see it: the hypothesis it makes true, whose it  *)
(* was, when it ended, how long and how large it was.                        *)
Stall(kind, pid, big, from, to) ==
  LET dur == IF big THEN SPELL ELSE STALL
      amount == IF big THEN MAJOR ELSE MINOR
      S(h, p, d, n) == {[of |-> h, pid |-> p, ts |-> to, dur |-> d, size |-> n]}
  IN CASE kind = "DISK" -> S("disk_io_stall", pid, to - from, 0)
       [] kind = "SCAN" -> S("antimalware_interference", pid, to - from, 0)
       [] kind = "PSO" -> S("d3d12_shader_pso_compilation_stall", pid, to - from, 0)
       [] kind = "TRIM" -> S("low_memory_working_set_trim_stall", pid, to - from, MAJOR)
       [] kind = "PREEMPTION" -> S("context_switch_interference", pid, to - from, 0)
       [] kind \in {"DPC", "ISR"} -> S("dpc_isr_spike", pid, dur, 0)
       [] kind = "FAULT" -> S("page_fault_stall", pid, dur, 0)
       [] kind = "PHYS" -> S("physical_memory_allocation_latency", pid, dur, 0)
       [] kind = "ALLOC" -> S("virtual_memory_allocation_stall", pid, 0, amount)
       [] kind = "VRAM" -> S("vram_exhaustion_paging_stall", pid, 0, amount)
       [] kind = "DWM" -> S("dwm_compositor_stall", RESOLVED_DWM_PID,
                            VBLANK * (IF big THEN 3 ELSE 1), 0)
       [] kind = "THERMAL" -> S("thermal_throttle", 0, 0, 0)
       [] OTHER -> {}

-----------------------------------------------------------------------------
(* on_event_record.  The recorder keeps what a snapshot may still ask for.   *)
(* An event the trace session loses is never delivered, but counted.         *)

Recent(r, ts) ==
  LET since == IF held = NoTrigger THEN ts ELSE Min2(ts, held.ts) IN
    SelectSeq(r, LAMBDA e : e.ts + RETENTION >= since)

Deliver(e) ==
  LET h == Handle(tables, e) IN
    /\ call.pc = "IDLE"
    /\ now' = e.ts
    /\ tables' = h.tables
    /\ recorder' = Recent(recorder \o h.emit, e.ts)
    /\ call' = IF h.call.fn = "NONE" THEN Idle ELSE [pc |-> "CALL", arg |-> h.call]
    /\ UNCHANGED <<lost, engine, pacing, held, bench, restart, report>>

Lose(e) ==
  /\ call.pc = "IDLE"
  /\ left.losses > 0
  /\ now' = e.ts
  /\ lost' = TRUE
  /\ UNCHANGED <<tables, recorder, call, engine, pacing, held, bench, restart, report>>

(* The first or last event of a span, or a point event, happens after a      *)
(* delay, and is delivered or lost.                                          *)
Happens(e) ==
  \/ Deliver(e) /\ left' = [left EXCEPT !.events = @ - 1]
  \/ Lose(e) /\ left' = [left EXCEPT !.events = @ - 1, !.losses = @ - 1]

BeginSpan ==
  \E d \in scene.delays, kind \in scene.kinds \cap SpanKinds, pid \in scene.pids :
    /\ left.events > 1
    /\ \A s \in open : s.kind # kind /\ {s.kind, kind} # {"PREEMPTION", "WAIT"}
    /\ Happens(SpanStart(kind, pid, now + d))
    /\ open' = open \cup {[kind |-> kind, pid |-> pid, from |-> now + d]}
    /\ stalls' = stalls \cup
         (IF kind # "PREEMPTION" THEN {}
          ELSE {[of |-> "switch_out", pid |-> pid, ts |-> now + d, dur |-> 0, size |-> 0]})
    /\ UNCHANGED <<scene, incidents, shown, session, beat>>

EndSpan ==
  \E d \in scene.delays, s \in open :
    /\ left.events > 0
    /\ Happens(SpanStop(s.kind, s.pid, now + d))
    /\ open' = open \ {s}
    /\ stalls' = stalls \cup Stall(s.kind, s.pid, FALSE, s.from, now + d)
    /\ UNCHANGED <<scene, incidents, shown, session, beat>>

(* For 50 ms after a glitch of the compositor that counts, others do not.    *)
NewGlitch(kind, ts) ==
  /\ kind = "DWM"
  /\ \A s \in stalls : s.of = "glitch" => ts - s.ts >= DWM_DEDUP_WINDOW

(* A glitch too mild for a trigger is noted with the pid of the compositor,  *)
(* and a benchmark that follows a target leaves other processes out.         *)
Felt(missed, pid) ==
  missed < scene.minMissed => scene.target = 0 \/ pid \in {0, scene.target}

PointEvent ==
  \E d \in scene.delays, kind \in scene.kinds \cap PointKinds, pid \in scene.pids,
     big \in BOOLEAN :
    LET ts == now + d
        e == Point(kind, pid, big, ts)
        new == NewGlitch(kind, ts)
    IN
    /\ left.events > 0
    /\ Happens(e)
    /\ stalls' = stalls \cup Stall(kind, pid, big, ts, ts)
         \cup (IF new
               THEN {[of |-> "glitch", pid |-> 0, ts |-> ts, dur |-> 0, size |-> 0]} ELSE {})
    /\ incidents' = incidents + (IF kind = "AUDIO" \/ (new /\ Felt(e.size, e.pid)) THEN 1 ELSE 0)
    /\ UNCHANGED <<scene, open, shown, session, beat>>

OnCore(pid) == \A s \in open : s.pid = pid => s.kind \notin {"PREEMPTION", "WAIT"}

(* A process shows a frame, with DXGI (two events) or by a flip. *)
PresentBegins ==
  \E d \in scene.frameDelays, pid \in scene.presenters :
    /\ left.frames > 0 /\ "PRESENT" \in scene.frameKinds
    /\ tables.present = <<>> /\ OnCore(pid)
    /\ Deliver([Raw("PRESENT_START", pid, now + d) EXCEPT !.key = 1])
    /\ UNCHANGED <<scene, left, world>>

(* A frame that the target, or anybody if there is none, shows too long      *)
(* after the one before.  Two very close to each other are one; a pause of   *)
(* two seconds is no late frame, nor is the frame that ends it.              *)
Late(pid, chain, gap) ==
  /\ scene.target \in {0, pid}
  /\ gap * TICK >= scene.cfg.static
  /\ gap \in DuplicateBelow..PAUSE
  /\ ~(chain \in DOMAIN beat /\ now - beat[chain].last >= PAUSE_CEILING)

PresentEnds ==
  \E thread \in DOMAIN tables.present :
    LET pid == thread[1]
        chain == <<pid, 1>>
        gap == now - (IF chain \in DOMAIN tables.last THEN tables.last[chain] ELSE now)
    IN /\ OnCore(pid)
       /\ Deliver([Raw("PRESENT_STOP", pid, now) EXCEPT !.key = 1])
       /\ left' = [left EXCEPT !.frames = @ - 1]
       /\ incidents' = incidents +
            (IF Late(pid, chain, gap) THEN 1 ELSE 0)
       /\ UNCHANGED <<scene, open, stalls, shown, session, beat>>

FlipHappens ==
  \E d \in scene.frameDelays, pid \in scene.presenters :
    /\ left.frames > 0 /\ "FLIP" \in scene.frameKinds /\ OnCore(pid)
    /\ Deliver([Raw("FLIP", pid, now + d) EXCEPT !.key = 1])
    /\ left' = [left EXCEPT !.frames = @ - 1]
    /\ UNCHANGED <<scene, world>>

-----------------------------------------------------------------------------
(* The trigger engine. *)

ShouldTriggerOn(pid) == ~engine.waiting /\ engine.pid \in {0, pid}

TriggerInfo(source, reason, pid, tid, core, ts, dur, baseline, ratio) ==
  [source |-> source, reason |-> reason, pid |-> pid, tid |-> tid, core |-> core, ts |-> ts,
   dur |-> dur, baseline |-> baseline, ratio |-> ratio, alternations |-> 0, swing |-> 0,
   staged |-> 0]

(* record_filtered_event; its ring is FilteredEventRing. *)
RecordFiltered(t) ==
  /\ bench' = IngestFiltered(bench, t.pid, t.dur, t.reason)
  /\ UNCHANGED <<held, engine>>

PassesGate(t) == ClassifySeverity(t) >= scene.minSeverity

(* initiate_trigger_atomic: a trigger too mild is filtered, one that comes   *)
(* while another is held is suppressed.                                      *)
Hold(t) ==
  \/ held = NoTrigger /\ held' = t /\ UNCHANGED engine
  \/ held # NoTrigger /\ engine' = [engine EXCEPT !.suppressed = @ + 1] /\ UNCHANGED held

Initiate(t) ==
  \/ ~PassesGate(t) /\ RecordFiltered(t)
  \/ PassesGate(t) /\ Hold(t) /\ UNCHANGED bench

Return == call' = Idle
Calls(pc, fns) == call.pc = pc /\ call.arg.fn \in fns
Hand(pc) ==
  call' = [pc |-> pc, arg |-> call.arg, epoch |-> bench.epoch, ticket |-> 0,
           session |-> session]

(* ingest_frame up to the target check; a frame not counted is judged next. *)
IngestFrame ==
  IF Ingestible(bench, call.arg.pid, call.arg.dur)
  THEN Hand("STAMPED") ELSE Hand("EVALUATE")

(* on_dxgi_present: the first frame of the target settles who is heard. *)
OnDxgiPresent ==
  /\ Calls("CALL", {"PRESENT"})
  /\ IF ShouldTriggerOn(call.arg.pid)
     THEN /\ engine' = [engine EXCEPT !.observed = TRUE, !.lastDxgi = call.arg.ts]
          /\ bench' = CountPause(bench, call.arg.dur)
          /\ IngestFrame
     ELSE Return /\ UNCHANGED <<engine, bench>>
  /\ UNCHANGED <<scene, now, left, tables, recorder, lost, pacing, held, restart, report, world>>

(* on_kernel_frame_stall: flips count only while DXGI is silent, or to make  *)
(* a held DXGI trigger worse.                                                *)
CollectingDxgi == held.source = "DXGI_PRESENT_STUTTER"
DxgiAuthoritative(ts) ==
  engine.lastDxgi > 0 /\ ts - engine.lastDxgi < 10000 /\ engine.lastDxgi - ts < 10000
MissedVblanks(dur) == (2 * dur + VBLANK) \div (2 * VBLANK)

OnKernelFrameStall ==
  LET c == call.arg IN
  /\ Calls("CALL", {"FLIP"})
  /\ \/ /\ \/ ~ShouldTriggerOn(c.pid)
           \/ ~CollectingDxgi /\ DxgiAuthoritative(c.ts)
        /\ Return /\ UNCHANGED <<bench, held, engine>>
     \/ /\ ShouldTriggerOn(c.pid)
        /\ CollectingDxgi \/ ~DxgiAuthoritative(c.ts)
        /\ MissedVblanks(c.dur) < scene.minMissed
        /\ RecordFiltered(TriggerInfo("KERNEL_FRAME_STALL", "NONE", c.pid, c.tid, c.core, c.ts,
                                      c.dur, 0, 100))
        /\ Return
     \/ /\ ShouldTriggerOn(c.pid)
        /\ CollectingDxgi \/ ~DxgiAuthoritative(c.ts)
        /\ MissedVblanks(c.dur) >= scene.minMissed
        /\ IF ~engine.observed /\ c.ts - engine.attached > 10000
           THEN bench' = CountPause(bench, c.dur) /\ IngestFrame
           ELSE Hand("EVALUATE") /\ UNCHANGED bench
        /\ UNCHANGED <<held, engine>>
  /\ UNCHANGED <<scene, now, left, tables, recorder, lost, pacing, restart, report, world>>

ClaimTicket ==
  /\ call.pc = "STAMPED"
  /\ bench' = ClaimFrame(bench)
  /\ call' = [call EXCEPT !.pc = "CLAIMED", !.ticket = bench.head]
  /\ UNCHANGED <<scene, now, left, tables, recorder, lost, engine, pacing, held, restart,
                 report, world>>

WriteFrame ==
  /\ call.pc = "CLAIMED"
  /\ bench' = PublishFrame(bench, call.ticket, call.arg.dur, call.epoch)
  /\ call' = [call EXCEPT !.pc = "EVALUATE"]
  /\ shown' = Put(shown, call.ticket,
                  [pid |-> call.arg.pid, dur |-> call.arg.dur, session |-> call.session])
  /\ UNCHANGED <<scene, now, left, tables, recorder, lost, engine, pacing, held, restart,
                 report, open, stalls, incidents, session, beat>>

(* evaluate_frame_pacing_common, and what its caller does with a stutter.    *)
(* The telemetry of the target's stream goes to the benchmark first.         *)
Stats(c) == IF c.key \in DOMAIN pacing THEN pacing[c.key] ELSE FreshStats(c.ts)
Judged(c) == EvaluateCommon(Stats(c), c.dur, c.ts, scene.cfg)

StutterOf(c, r) ==
  [TriggerInfo(IF r.reason = "CADENCE_JUDDER" THEN "FRAME_PACING_JUDDER"
               ELSE IF c.fn = "PRESENT" THEN "DXGI_PRESENT_STUTTER" ELSE "KERNEL_FRAME_STALL",
               r.reason, c.pid, c.tid, c.core, IF r.ts > 0 THEN r.ts ELSE c.ts,
               IF r.dur > 0 THEN r.dur ELSE c.dur, r.baseline, r.ratio)
     EXCEPT !.alternations = r.alternations, !.swing = r.swing]

StageStall(dur) == held' = [held EXCEPT !.staged = Max({@, Clamp(dur, 1, DEFENSIVE_CLAMP)})]

Telemetered(c, r) ==
  IF engine.pid # 0 /\ c.pid = engine.pid /\ r.s.n >= POST_WARMUP_MIN_SAMPLES
  THEN UpdateTelemetry(bench, EffectiveMean(r)) ELSE bench

(* How often a run of frames of one length has been called a stutter.  It    *)
(* ends where so few frames come that no candidate could outlive it.         *)
Runs(gap) == gap * PROMOTION_MIN_SAMPLES <= STALE_CANDIDATE
Beat(c, r) ==
  LET same == /\ c.key \in DOMAIN beat
              /\ c.dur = beat[c.key].dur /\ Runs(c.ts - beat[c.key].last)
      fired == IF r.reason \in {"STATIC_THRESHOLD", "RELATIVE_SPIKE"} THEN 1 ELSE 0
  IN [dur |-> c.dur, last |-> c.ts,
      fired |-> IF same THEN beat[c.key].fired + fired ELSE fired]

EvaluateFrame ==
  LET c == call.arg
      r == Judged(c)
      t == StutterOf(c, r)
  IN
  /\ call.pc = "EVALUATE"
  /\ Return
  /\ \/ ~ShouldTriggerOn(c.pid) /\ UNCHANGED <<pacing, bench, held, engine, beat>>
     \/ /\ ShouldTriggerOn(c.pid)
        /\ pacing' = Put(pacing, c.key, r.s)
        /\ beat' = Put(beat, c.key, Beat(c, r))
        /\ \/ /\ r.reason = "NONE"
              /\ bench' = Telemetered(c, r) /\ UNCHANGED <<held, engine>>
           \/ /\ r.reason # "NONE" /\ PassesGate(t) /\ held = NoTrigger
              /\ held' = t
              /\ bench' = Telemetered(c, r) /\ UNCHANGED engine
           \/ /\ r.reason # "NONE" /\ ~PassesGate(t) /\ (c.fn = "PRESENT" \/ held = NoTrigger)
              /\ bench' = IngestFiltered(Telemetered(c, r), c.pid, t.dur, t.reason)
              /\ UNCHANGED <<held, engine>>
           \/ /\ r.reason # "NONE" /\ c.fn = "FLIP" /\ CollectingDxgi
              /\ StageStall(c.dur)
              /\ bench' = Telemetered(c, r) /\ UNCHANGED engine
           \/ /\ r.reason # "NONE" /\ held # NoTrigger
              /\ IF c.fn = "PRESENT" THEN PassesGate(t) ELSE ~CollectingDxgi
              /\ engine' = [engine EXCEPT !.suppressed = @ + 1]
              /\ bench' = Telemetered(c, r) /\ UNCHANGED held
  /\ UNCHANGED <<scene, now, left, tables, recorder, lost, restart, report, open, stalls,
                 incidents, shown, session>>

(* on_audio_glitch and on_dwm_glitch: the trigger is the target's, but a     *)
(* compositor glitch too mild for one is noted as the compositor's.  An      *)
(* audio glitch passes every gate, its severity is the highest.              *)
OnAudioGlitch ==
  /\ Calls("CALL", {"AUDIO"})
  /\ IF engine.waiting THEN UNCHANGED <<bench, held, engine>>
     ELSE /\ Hold(TriggerInfo("AUDIO_GLITCH", "AUDIO_BUFFER_UNDERRUN", engine.pid, 0,
                              call.arg.core, call.arg.ts, 0, 0, 0))
          /\ UNCHANGED bench
  /\ Return
  /\ UNCHANGED <<scene, now, left, tables, recorder, lost, pacing, restart, report, world>>

DwmThreshold == Max2(10, VBLANK - Max2(5, VBLANK \div 20))

OnDwmGlitch ==
  LET c == call.arg
      Glitch(pid, baseline, ratio) ==
        TriggerInfo("DWM_GLITCH", "DWM_COMPOSITOR_GLITCH", pid, 0, c.core, c.ts, c.dur,
                    baseline, ratio)
      mild == c.missed < scene.minMissed \/ c.dur < DwmThreshold
  IN
  /\ Calls("CALL", {"DWM"})
  /\ \/ mild /\ RecordFiltered(Glitch(c.pid, 0, 100))
     \/ ~mild /\ engine.waiting /\ UNCHANGED <<bench, held, engine>>
     \/ ~mild /\ ~engine.waiting
        /\ Initiate(Glitch(engine.pid, VBLANK * TICK, (100 * c.dur) \div VBLANK))
  /\ Return
  /\ UNCHANGED <<scene, now, left, tables, recorder, lost, pacing, restart, report, world>>

-----------------------------------------------------------------------------
(* The session worker: poll_state yields the trigger once its window is      *)
(* over, with the staged stall if that is worse; snapshot, correlate and     *)
(* ingest_report follow.                                                     *)

Upgraded(t) ==
  IF t.staged > t.dur
  THEN [t EXCEPT !.source = "KERNEL_FRAME_STALL", !.dur = t.staged,
                 !.ratio = IF t.baseline > 0 THEN Ratio(t.baseline, t.staged) ELSE @]
  ELSE t

Active == {"dpc", "cswitch", "disk", "dwm", "vram", "pagefault", "memory"}

Report ==
  LET t == Upgraded(held)
      pre == IF t.source = "KERNEL_FRAME_STALL" THEN GPU_PRE ELSE PRE
      from == Max2(0, t.ts - pre)
      to == t.ts + POST
      snapshot == SelectSeq(recorder, LAMBDA e : e.ts \in from..to)
      r == Correlate(snapshot, t, [active |-> Active, lost |-> lost])
      top == TopDiagnosis(r.diagnoses)
  IN
  /\ held # NoTrigger /\ restart.pc # "STARTED"
  /\ now' = Max2(now, to)
  /\ held' = NoTrigger
  /\ report' = [from |-> from, to |-> to] @@ r
  /\ bench' = IngestReport(bench,
       [pid |-> t.pid, audio |-> t.source = "AUDIO_GLITCH", severity |-> ClassifySeverity(t),
        judder |-> Judder(t), stall |-> t.dur, hypothesis |-> top.hypothesis,
        tag |-> r.attribution.tag])
  /\ UNCHANGED <<scene, left, tables, recorder, lost, call, engine, pacing, restart, world>>

-----------------------------------------------------------------------------
(* Targets.  The watcher's callbacks move the engine to its new target and   *)
(* then restart the benchmark; the user restarts it for the same target.     *)

MoveTarget(pid) ==
  /\ restart.pc = "IDLE" /\ left.restarts > 0
  /\ left' = [left EXCEPT !.restarts = @ - 1]
  /\ engine' = [engine EXCEPT !.pid = pid, !.waiting = pid = 0, !.observed = FALSE,
                              !.lastDxgi = 0, !.attached = now]
  /\ restart' = [pc |-> "MOVED", pid |-> pid]
  /\ UNCHANGED <<scene, now, tables, recorder, lost, call, pacing, held, bench, report, world>>

DetachTarget == engine.pid # 0 /\ MoveTarget(0)
AttachTarget == engine.waiting /\ \E pid \in scene.presenters : MoveTarget(pid)

ResetByUser ==
  /\ restart.pc = "IDLE" /\ left.restarts > 0
  /\ left' = [left EXCEPT !.restarts = @ - 1]
  /\ restart' = [pc |-> "STARTED", pid |-> bench.pid]
  /\ bench' = BeginRestart(bench)
  /\ UNCHANGED <<scene, now, tables, recorder, lost, call, engine, pacing, held, report, world>>

Retarget ==
  /\ restart.pc = "MOVED"
  /\ restart' = [restart EXCEPT !.pc = "STARTED"]
  /\ bench' = BeginRestart(bench)
  /\ UNCHANGED <<scene, now, left, tables, recorder, lost, call, engine, pacing, held, report,
                 world>>

FinishRestart ==
  /\ restart.pc = "STARTED"
  /\ restart' = [restart EXCEPT !.pc = "IDLE"]
  /\ bench' = EndRestart(bench, restart.pid)
  /\ session' = session + 1
  /\ UNCHANGED <<scene, now, left, tables, recorder, lost, call, engine, pacing, held, report,
                 open, stalls, incidents, shown, beat>>

-----------------------------------------------------------------------------
Next ==
  \/ BeginSpan \/ EndSpan \/ PointEvent \/ PresentBegins \/ PresentEnds \/ FlipHappens
  \/ OnDxgiPresent \/ OnKernelFrameStall \/ ClaimTicket \/ WriteFrame \/ EvaluateFrame
  \/ OnAudioGlitch \/ OnDwmGlitch \/ Report
  \/ DetachTarget \/ AttachTarget \/ ResetByUser \/ Retarget \/ FinishRestart

Spec == Init /\ [][Next]_vars

-----------------------------------------------------------------------------
(* Pacing: whatever frames come, the running sums of a stream are those of   *)
(* its window, a candidate is one that still may be promoted, and an open    *)
(* episode has alternations and an age (frame_pacing_tracker.hpp).           *)

(* The sums of the first values that f holds from 0 on.                      *)
Totals(f) ==
  LET sum[n \in 0..WINDOW] == IF n = 0 THEN 0 ELSE sum[n - 1] + f[n - 1] IN sum

WindowExact(s) ==
  /\ s.n < WINDOW => s.idx = s.n
  /\ s.sum = Totals(s.dur)[s.n]
  /\ s.sq = Totals([i \in DOMAIN s.dur |-> s.dur[i] * s.dur[i]])[s.n]
  /\ \A i \in 0..s.n - 1 : s.dur[i] > 0

CandidateOpen(c) ==
  /\ c.n = 0 => c = NoCandidate
  /\ c.n \in 0..CANDIDATE_MAX_SAMPLES
  /\ c.skips <= MAX_CONSECUTIVE_SKIPS /\ c.clean <= MAX_CLEAN_FRAMES
  /\ Variance(c) >= 0
  /\ c.n >= PROMOTION_MIN_SAMPLES => ~Steady(c)

EpisodeOpen(s) ==
  /\ s.ep.active <=> s.ep.alternations > 0
  /\ s.ep.active => s.ep.start <= s.ep.last /\ s.ep.last <= s.last
  /\ ~s.ep.active => s.ep = NoEpisode

PacingConsistent ==
  \A k \in DOMAIN pacing :
    LET s == pacing[k] IN WindowExact(s) /\ CandidateOpen(s.cand) /\ EpisodeOpen(s)

(* A game that settles on a slower, steady frame rate is not reported frame  *)
(* after frame: of a run of frames of one length at most a few are stutters, *)
(* then the baseline follows (process_cadence_candidate), unless so many of  *)
(* them take longer than a candidate lives.  Frames exactly as long as the   *)
(* static threshold are exempt: it is lifted above a mean it is below,       *)
(* not above one it equals, and `>=` then fires once in every candidate.     *)
MAX_REPEATS == 1 + Max({1, POST_WARMUP_MIN_SAMPLES - INITIAL_WARMUP_SAMPLES})
AdaptsToCadence ==
  scene.cfg.mode # "STATIC_ONLY" =>
    \A k \in DOMAIN beat :
      (Runs(beat[k].dur) /\ beat[k].dur * TICK # scene.cfg.static) => beat[k].fired <= MAX_REPEATS

(* The summary shows exactly the frames the present target has shown since   *)
(* the last retarget or reset, as far as the ring reaches, whatever frames   *)
(* of the old target were under way meanwhile (ingest_frame, retarget).      *)
FramesOfTarget ==
  restart.pc # "STARTED" =>
    LET mine == {k \in DOMAIN shown : /\ shown[k].session = session
                                      /\ k + FRAME_CAPACITY >= bench.head}
    IN /\ Summary(bench).frames = Listed([k \in mine |-> shown[k].dur])
       /\ \A k \in mine : bench.pid \in {0, shown[k].pid}

(* With a static threshold every late frame of the target, audio glitch and  *)
(* compositor glitch is counted once: as a stutter, as a minor one, or as    *)
(* suppressed by the trigger held.  A compositor glitch too mild for a       *)
(* trigger is counted only while no target is followed.                      *)
Undisturbed ==
  scene.cfg.mode = "STATIC_ONLY" /\ scene.frameKinds = {"PRESENT"} /\ scene.restarts = 0

IncidentsOnce ==
  Undisturbed /\ call.pc = "IDLE" /\ ~lost =>
    LET sum == Summary(bench) IN
      incidents = sum.stutters + sum.minor + sum.audio + engine.suppressed
                  + (IF held = NoTrigger THEN 0 ELSE 1)

(* And the summary distributes all reports over its culprits, judder apart.  *)
Counted(stats) == SumOf(stats, DOMAIN stats, "count")

ReportsShared ==
  LET sum == Summary(bench)
      all == bench.attr.hypotheses
      judder == DOMAIN all \cap {"frame_pacing_judder"}
  IN Counted(sum.culprits.named) + sum.culprits.other.count + SumOf(all, judder, "count")
       = Counted(sum.tags)

IncidentsCounted == IncidentsOnce /\ ReportsShared

(* What a report says is what happened.  A stall that matters is one of at   *)
(* least the engine's threshold that ended in the window of the report.      *)
Matters(s, t) ==
  CASE s.of = "disk_io_stall" -> s.dur \in 200..DISK_CAP
    [] s.of \in {"antimalware_interference", "d3d12_shader_pso_compilation_stall"} -> s.dur >= 50
    [] s.of = "context_switch_interference" -> s.dur >= 50 /\ (t.tid = 0 \/ s.pid = t.pid)
    [] s.of = "switch_out" -> t.tid # 0 /\ s.pid = t.pid
    [] s.of \in {"dpc_isr_spike", "page_fault_stall", "physical_memory_allocation_latency"} ->
         s.dur >= 10
    [] s.of = "low_memory_working_set_trim_stall" -> s.size >= 4
    [] s.of = "vram_exhaustion_paging_stall" -> s.size >= 8
    [] s.of = "virtual_memory_allocation_stall" -> s.size >= 16
    [] OTHER -> s.of \in {"dwm_compositor_stall", "thermal_throttle"}

StallsOf(h) ==
  LET names == IF h = "context_switch_interference" THEN {h, "switch_out"} ELSE {h} IN
    {s \in stalls : /\ s.of \in names /\ s.ts \in report.from..report.to
                    /\ Matters(s, report.trigger)}

StallHypotheses ==
  {"dpc_isr_spike", "disk_io_stall", "context_switch_interference", "dwm_compositor_stall",
   "page_fault_stall", "thermal_throttle", "antimalware_interference",
   "d3d12_shader_pso_compilation_stall", "vram_exhaustion_paging_stall",
   "virtual_memory_allocation_stall", "low_memory_working_set_trim_stall",
   "physical_memory_allocation_latency"}

(* A diagnosis names a stall that happened, and none told of was worse. *)
TrueDiagnosis(d) ==
  \E s \in StallsOf(d.hypothesis) :
    \/ d.hypothesis = "thermal_throttle"
    \/ /\ s.ts = d.evidence.ts
       /\ s.of # "switch_out" => s.pid = d.evidence.pid
       /\ lost \/ \A o \in StallsOf(d.hypothesis) :
                    IF s.size > 0 THEN o.size <= s.size ELSE o.dur <= s.dur

Diagnosed(h) == \E i \in DOMAIN report.diagnoses : report.diagnoses[i].hypothesis = h
DiagnosisMatchesWorld ==
  report # NoReport =>
    /\ \A i \in DOMAIN report.diagnoses :
         report.diagnoses[i].hypothesis \in StallHypotheses => TrueDiagnosis(report.diagnoses[i])
    /\ ~lost =>
         /\ \A h \in StallHypotheses : StallsOf(h) # {} => Diagnosed(h)
         /\ (\E h \in {"gpu_pipeline_stall", "unprofiled_hardware_or_smi_stall"} : Diagnosed(h))
              => \A h \in {"dpc_isr_spike", "dwm_compositor_stall"} : StallsOf(h) = {}
         /\ Diagnosed("unprofiled_hardware_or_smi_stall") =>
              \A h \in StallHypotheses : StallsOf(h) = {}
    /\ report.trigger.source = "DXGI_PRESENT_STUTTER" =>
         \E i \in DOMAIN report.timeline : report.timeline[i].ts = report.trigger.ts

=============================================================================
