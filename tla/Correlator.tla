----------------------------- MODULE Correlator -----------------------------
(***************************************************************************)
(* The correlation engine of src/correlator.cpp as pure operators: from    *)
(* the snapshot of the flight recorder and the trigger to the diagnoses,   *)
(* their confidence, the attribution and the frame timeline of a report.   *)
(*                                                                         *)
(* An event is an EtwEventRecord with the fields the engine reads; times   *)
(* and durations are ticks of 0.1 ms, sizes megabytes, confidences         *)
(* ten-thousandths (0.40 is 4000) and every weighted term is rounded down. *)
(* Summaries, addresses and driver names are left out.  Equal worst        *)
(* candidates keep the order of the snapshot.                              *)
(***************************************************************************)
EXTENDS Integers, Sequences, SequencesExt, FiniteSetsExt, TLC

CONSTANTS
  MAX_TIMELINE_POINTS,     \* frames in the timeline of a report (1024 in the code)
  PRESENT_THRESHOLD,       \* present_threshold_ms, in ticks
  RESOLVED_DWM_PID,        \* cached_dwm_pid_ of the engine
  SCANNER_PID              \* the process resolve_process_name_to_pid finds for MsMpEng.exe

ASSUME CorrelatorAssumption ==
  /\ MAX_TIMELINE_POINTS \in Nat \ {0}
  /\ MAX_TIMELINE_POINTS % 2 = 0
  /\ PRESENT_THRESHOLD \in Nat \ {0}

SYSTEM_PID == 4
MIN_ATTRIBUTION_CONFIDENCE == 3000
Max2(a, b) == IF a >= b THEN a ELSE b
Min2(a, b) == IF a <= b THEN a ELSE b
Within(x, lo, hi) == Max2(lo, Min2(x, hi))

-----------------------------------------------------------------------------
(* Scoring primitives: a weight times a severity or a proximity. *)

Severity(weight, value, scale) == (weight * Min2(value, scale)) \div scale
Offset(e, trigger) == IF e.ts >= trigger.ts THEN e.ts - trigger.ts ELSE trigger.ts - e.ts
Proximity(weight, e, trigger, window) ==
  (weight * Max2(0, window - Offset(e, trigger))) \div window

(* target_pid_affinity: a match, monitor-all mode, or another process. *)
Affinity(e, trigger, match, monitorAll, mismatch) ==
  IF trigger.pid = 0 THEN monitorAll ELSE IF e.pid = trigger.pid THEN match ELSE mismatch

-----------------------------------------------------------------------------
(* classify_severity, on the severities NORMAL 0, WARNING 1, DANGER 2. *)

JudderSeverity(t) ==
  CASE t.alternations >= 30 \/ t.dur >= 5000 \/ (t.swing >= 60 /\ t.alternations >= 5) -> 2
    [] t.alternations >= 10 \/ t.dur >= 1500 \/ (t.swing >= 40 /\ t.alternations >= 3) -> 1
    [] OTHER -> 0

Judder(t) == t.reason = "CADENCE_JUDDER" \/ t.source = "FRAME_PACING_JUDDER"

ClassifySeverity(t) ==
  CASE t.source = "AUDIO_GLITCH" -> 2
    [] t.source # "AUDIO_GLITCH" /\ Judder(t) -> JudderSeverity(t)
    [] t.source # "AUDIO_GLITCH" /\ ~Judder(t) /\ t.ratio > 0 /\ t.baseline > 0 ->
         IF t.ratio >= 300 THEN 2 ELSE IF t.ratio >= 200 THEN 1 ELSE 0
    [] OTHER ->
         IF t.dur >= 3 * PRESENT_THRESHOLD THEN 2
         ELSE IF 2 * t.dur >= 3 * PRESENT_THRESHOLD THEN 1 ELSE 0

-----------------------------------------------------------------------------
(* Which events of the snapshot are candidates (CorrelatorThresholds).  A    *)
(* context switch counts when the target comes back after an involuntary     *)
(* absence, or is taken off a core.                                          *)

CSWITCH_PREEMPT == 50    \* ticks

SwitchOut(e, t) == t.tid # 0 /\ e.tid # t.tid /\ e.prevTid = t.tid /\ "OUT_VOLUNTARY" \notin e.flags

Resumption(e, t) ==
  /\ "VOLUNTARY" \notin e.flags
  /\ e.dur >= CSWITCH_PREEMPT
  /\ IF t.tid # 0 THEN e.tid = t.tid ELSE t.pid # 0 => t.pid \in {e.pid, e.prevPid}

Candidate(e, t) ==
  CASE e.cat = "DPC" -> e.dur >= 10
    [] e.cat = "ISR" -> e.dur >= 5
    [] e.cat = "DISK" -> e.dur >= 200
    [] e.cat = "CSWITCH" -> Resumption(e, t) \/ SwitchOut(e, t)
    [] e.cat = "DWM_GLITCH" -> e.dur > 0
    [] e.cat = "PAGE_FAULT" -> e.dur >= 10
    [] e.cat = "ANTIMALWARE_SCAN" -> e.dur >= 50
    [] e.cat = "D3D12_PSO_CREATE" -> e.dur >= 50
    [] e.cat = "VRAM_PAGING" -> e.size >= 8 /\ "DEMOTED" \in e.flags
    [] e.cat = "MEM_VIRTUAL_ALLOC" -> e.size >= 16
    [] e.cat = "MEM_WORKING_SET_TRIM" -> e.size >= 4
    [] e.cat = "MEM_PHYSICAL_ALLOC" -> e.dur >= 10
    [] OTHER -> e.cat = "THERMAL_THROTTLE"

(* A switch-out is kept as a candidate without a duration. *)
AsCandidate(e, t) == IF e.cat = "CSWITCH" /\ ~Resumption(e, t) THEN [e EXCEPT !.dur = 0] ELSE e

Candidates(snapshot, t, cats) ==
  SelectSeq([i \in DOMAIN snapshot |-> AsCandidate(snapshot[i], t)],
            LAMBDA e : e.cat \in cats /\ Candidate(e, t))

(* The candidate of greatest duration ("dur") or size ("size"). *)
Worst(s, measure) ==
  s[Min({i \in DOMAIN s : \A j \in DOMAIN s : s[j][measure] <= s[i][measure]})]

(* Twice the threshold vetoes the blame on the GPU; any glitch of the        *)
(* compositor does.                                                          *)
Dominant(e) ==
  CASE e.cat \in {"DPC", "ISR"} -> e.dur >= 10
    [] e.cat \in {"MEM_PHYSICAL_ALLOC", "PAGE_FAULT"} -> e.dur >= 20
    [] e.cat = "DISK" -> e.dur >= 400
    [] e.cat \in {"CSWITCH", "ANTIMALWARE_SCAN", "D3D12_PSO_CREATE"} -> e.dur >= 100
    [] e.cat = "VRAM_PAGING" -> e.size >= 16
    [] e.cat = "MEM_VIRTUAL_ALLOC" -> e.size >= 32
    [] e.cat = "MEM_WORKING_SET_TRIM" -> e.size >= 8
    [] OTHER -> e.cat = "DWM_GLITCH"

(* Involuntary absences add up, per thread of the target or per core. *)
Preempted(snapshot, t) ==
  LET mine == SelectSeq(snapshot, LAMBDA e :
        /\ e.cat = "CSWITCH" /\ "VOLUNTARY" \notin e.flags
        /\ IF t.tid # 0 THEN e.tid = t.tid ELSE e.core = t.core)
  IN FoldLeft(LAMBDA acc, e : acc + e.dur, 0, mine)

NoCumulativePreemption(snapshot, t, ctx) ==
  "cswitch" \notin ctx.active \/ Preempted(snapshot, t) < CSWITCH_PREEMPT

(* software_coverage: nothing is known once events were lost. *)
Coverage(ctx) ==
  IF ctx.lost THEN 0
  ELSE 2000 * Cardinality(ctx.active \cap {"dpc", "cswitch", "disk", "dwm", "vram"})

-----------------------------------------------------------------------------
(* The hypotheses.  Each is a sequence of at most one diagnosis, so that      *)
(* their order in the code is the order of a concatenation.                   *)

NoEvidence == [pid |-> 0, prevPid |-> 0]
Diagnosis(h, conf, e) == << [hypothesis |-> h, confidence |-> conf, evidence |-> e] >>

DpcIsrSpike(s, t) ==
  LET cands == Candidates(s, t, {"DPC", "ISR"})
      w == Worst(cands, "dur")
  IN IF cands = <<>> THEN <<>> ELSE
       Diagnosis("dpc_isr_spike",
         4000 + Severity(3500, w.dur, 30) + Proximity(1500, w, t, 1500)
              + (IF w.core = t.core THEN 800 ELSE 400), w)

DiskIoStall(s, t) ==
  LET cands == Candidates(s, t, {"DISK"})
      w == Worst(cands, "dur")
  IN IF cands = <<>> THEN <<>> ELSE
       Diagnosis("disk_io_stall",
         Min2(9500, 4000 + Severity(3500, w.dur, 600) + Affinity(w, t, 1500, 750, 0)
                         + Proximity(1000, w, t, 2000)), w)

ContextSwitchInterference(s, t) ==
  LET cands == Candidates(s, t, {"CSWITCH"})
      w == Worst(cands, "dur")
  IN IF cands = <<>> THEN <<>> ELSE
       Diagnosis("context_switch_interference",
         (IF t.tid # 0 THEN 4000 ELSE 3500) + Severity(3000, w.dur, 200)
           + Proximity(1000, w, t, 1000)
           + (IF w.core = t.core THEN 500 ELSE IF t.tid # 0 THEN 250 ELSE 200), w)

(* A late frame is blamed on the GPU when nothing else explains it. *)
GpuPipelineStall(s, t, ctx) ==
  LET gpu == \/ t.source = "KERNEL_FRAME_STALL"
             \/ /\ t.source = "DXGI_PRESENT_STUTTER"
                /\ t.reason \in {"STATIC_THRESHOLD", "RELATIVE_SPIKE"}
      dominated == \E i \in DOMAIN s : Candidate(s[i], t) /\ Dominant(AsCandidate(s[i], t))
      raw == 6000 + Min2(10 * t.dur, 3000)
      base == IF t.source = "DXGI_PRESENT_STUTTER" /\ t.reason = "RELATIVE_SPIKE"
              THEN (raw * 9) \div 10 ELSE raw
  IN IF gpu /\ "dpc" \in ctx.active /\ NoCumulativePreemption(s, t, ctx) /\ ~dominated
     THEN Diagnosis("gpu_pipeline_stall",
            Within((base * (10000 + Coverage(ctx))) \div 20000, 5000, 9000),
            [NoEvidence EXCEPT !.pid = t.pid])
     ELSE <<>>

(* The cadence a delay is measured against: baseline_avg_ms, or the display. *)
Reference(t) == IF t.baseline > 0 THEN Max2(1, t.baseline \div 100) ELSE PRESENT_THRESHOLD

DwmCompositorStall(s, t) ==
  LET cands == Candidates(s, t, {"DWM_GLITCH"})
      dur == IF t.source = "DWM_GLITCH" \/ cands = <<>> THEN t.dur
             ELSE Worst(cands, "dur").dur
  IN IF t.source = "DWM_GLITCH" \/ cands # <<>>
     THEN Diagnosis("dwm_compositor_stall", 5000 + Severity(2500, dur, 3 * Reference(t)),
            IF cands = <<>> THEN NoEvidence ELSE Worst(cands, "dur"))
     ELSE <<>>

PageFaultStall(s, t) ==
  LET cands == Candidates(s, t, {"PAGE_FAULT"})
      w == Worst(cands, "dur")
  IN IF cands = <<>> THEN <<>> ELSE
       Diagnosis("page_fault_stall",
         Min2(9000, 4000 + Severity(3000, w.dur, 300) + Affinity(w, t, 2000, 1000, 0)
                         + Proximity(1000, w, t, 2000)), w)

(* The last throttling event of the snapshot counts. *)
ThermalThrottle(s, t) ==
  LET cands == Candidates(s, t, {"THERMAL_THROTTLE"}) IN
    IF cands = <<>> THEN <<>>
    ELSE Diagnosis("thermal_throttle",
           Min2(8000, 4000 + Severity(3500, Last(cands).size, 20)), NoEvidence)

AntimalwareInterference(s, t) ==
  LET cands == Candidates(s, t, {"ANTIMALWARE_SCAN"})
      w == Worst(cands, "dur")
  IN IF cands = <<>> THEN <<>> ELSE
       Diagnosis("antimalware_interference",
         Min2(8500, 3500 + Severity(2500, w.dur, 500) + Severity(1500, Len(cands), 5)
                         + Proximity(1000, w, t, 2000)), w)

PsoCompilationStall(s, t) ==
  LET cands == Candidates(s, t, {"D3D12_PSO_CREATE"})
      w == Worst(cands, "dur")
  IN IF cands = <<>> THEN <<>> ELSE
       Diagnosis("d3d12_shader_pso_compilation_stall",
         Min2(9500, 4000 + Severity(3500, w.dur, 300)
              + (IF t.tid # 0 /\ t.tid = w.tid THEN 1500 ELSE Affinity(w, t, 1200, 750, 150))
              + Proximity(1000, w, t, 2000)), w)

VramPagingStall(s, t, ctx) ==
  IF "vram" \notin ctx.active THEN <<>> ELSE
  LET cands == Candidates(s, t, {"VRAM_PAGING"})
      w == Worst(cands, "size")
  IN IF cands = <<>> THEN <<>> ELSE
       Diagnosis("vram_exhaustion_paging_stall",
         Min2(9500, 1500 + Severity(3500, w.size, 64) + Affinity(w, t, 3500, 2100, 0)
                         + Proximity(1500, w, t, 1000)), w)

VirtualAllocStall(s, t, ctx) ==
  IF "pagefault" \notin ctx.active THEN <<>> ELSE
  LET cands == Candidates(s, t, {"MEM_VIRTUAL_ALLOC"})
      w == Worst(cands, "size")
  IN IF cands = <<>> THEN <<>> ELSE
       Diagnosis("virtual_memory_allocation_stall",
         Min2(9500, 4500 + Severity(3000, w.size, 64) + Affinity(w, t, 1500, 900, 300)
                         + Proximity(1000, w, t, 2000)), w)

WorkingSetTrimStall(s, t, ctx) ==
  IF "memory" \notin ctx.active THEN <<>> ELSE
  LET cands == Candidates(s, t, {"MEM_WORKING_SET_TRIM"})
      w == Worst(cands, "size")
  IN IF cands = <<>> THEN <<>> ELSE
       Diagnosis("low_memory_working_set_trim_stall",
         Min2(9500, 4000 + Severity(2500, w.size, 32)
                         + (IF w.dur > 0 THEN Severity(1500, w.dur, 100) ELSE 750)
                         + Affinity(w, t, 1000, 600, 200) + Proximity(1000, w, t, 2000)), w)

PhysicalAllocLatency(s, t, ctx) ==
  IF "memory" \notin ctx.active THEN <<>> ELSE
  LET cands == Candidates(s, t, {"MEM_PHYSICAL_ALLOC"})
      w == Worst(cands, "dur")
  IN IF cands = <<>> THEN <<>> ELSE
       Diagnosis("physical_memory_allocation_latency",
         Min2(9500, 4000 + Severity(3500, w.dur, 100) + Severity(1500, w.size, 32)
                         + Proximity(1000, w, t, 2000)), w)

FramePacingJudder(t) ==
  IF Judder(t) THEN Diagnosis("frame_pacing_judder", 8000, NoEvidence) ELSE <<>>

(* Nothing at all was found: firmware, if the delay is severe, or no answer. *)
HardwareStall(s, t, ctx) ==
  LET severe == \/ t.source \in {"AUDIO_GLITCH", "KERNEL_FRAME_STALL"}
                \/ t.dur >= Max2(167, 2 * Reference(t))
      cap == IF "cswitch" \in ctx.active THEN 3500 ELSE 3000
  IN IF "dpc" \in ctx.active /\ severe /\ NoCumulativePreemption(s, t, ctx)
     THEN Diagnosis("unprofiled_hardware_or_smi_stall",
                    (cap * (10000 + Coverage(ctx))) \div 20000, NoEvidence)
     ELSE Diagnosis("insufficient_evidence", 1500, NoEvidence)

(* correlate: all hypotheses in the order of the code. *)
Diagnoses(s, t, ctx) ==
  LET found == DpcIsrSpike(s, t) \o DiskIoStall(s, t) \o ContextSwitchInterference(s, t)
               \o GpuPipelineStall(s, t, ctx) \o DwmCompositorStall(s, t)
               \o PageFaultStall(s, t) \o ThermalThrottle(s, t)
               \o AntimalwareInterference(s, t) \o PsoCompilationStall(s, t)
               \o VramPagingStall(s, t, ctx) \o VirtualAllocStall(s, t, ctx)
               \o WorkingSetTrimStall(s, t, ctx) \o PhysicalAllocLatency(s, t, ctx)
               \o FramePacingJudder(t)
  IN IF found = <<>> THEN HardwareStall(s, t, ctx) ELSE found

(* diagnoses[0] of the stable sort by confidence. *)
TopDiagnosis(ds) ==
  ds[Min({i \in DOMAIN ds : \A j \in DOMAIN ds : ds[j].confidence <= ds[i].confidence})]

-----------------------------------------------------------------------------
(* attribution_tag_for_hypothesis and compute_attribution: who is to blame. *)

TagOf(h) ==
  CASE h \in {"gpu_pipeline_stall", "d3d12_shader_pso_compilation_stall",
              "frame_pacing_judder", "page_fault_stall", "vram_exhaustion_paging_stall",
              "virtual_memory_allocation_stall"} -> "GAME_ENGINE"
    [] h = "dwm_compositor_stall" -> "DWM_COMPOSITION"
    [] h = "insufficient_evidence" -> "UNKNOWN"
    [] OTHER -> "EXTERNAL_CONTENTION"

Attribution(ds, t) ==
  LET top == TopDiagnosis(ds)
      h == top.hypothesis
      ev == top.evidence
      Blame(tag, pid) == [tag |-> tag, pid |-> pid]
  IN CASE top.confidence < MIN_ATTRIBUTION_CONFIDENCE -> Blame("UNKNOWN", 0)
       [] h \in {"page_fault_stall", "vram_exhaustion_paging_stall",
                 "virtual_memory_allocation_stall"} ->
            IF ev.pid # 0 /\ ev.pid = t.pid THEN Blame("GAME_ENGINE", t.pid)
            ELSE Blame("EXTERNAL_CONTENTION", ev.pid)
       [] h \in {"dpc_isr_spike", "low_memory_working_set_trim_stall",
                 "physical_memory_allocation_latency"} -> Blame(TagOf(h), SYSTEM_PID)
       [] h = "disk_io_stall" -> Blame(TagOf(h), IF ev.pid # 0 THEN ev.pid ELSE SYSTEM_PID)
       [] h = "antimalware_interference" ->
            Blame(TagOf(h), IF ev.pid # 0 THEN ev.pid ELSE SCANNER_PID)
       [] h = "context_switch_interference" ->
            Blame(TagOf(h), IF ev.prevPid # 0 THEN ev.prevPid ELSE ev.pid)
       [] h \in {"gpu_pipeline_stall", "d3d12_shader_pso_compilation_stall",
                 "frame_pacing_judder"} -> Blame(TagOf(h), t.pid)
       [] h = "dwm_compositor_stall" ->
            Blame(TagOf(h), IF RESOLVED_DWM_PID # 0 THEN RESOLVED_DWM_PID ELSE SYSTEM_PID)
       [] OTHER -> Blame(TagOf(h), 0)

-----------------------------------------------------------------------------
(* The frames of the target around the trigger. *)

FrameTrigger(t) ==
  t.source \in {"DXGI_PRESENT_STUTTER", "FRAME_PACING_JUDDER", "KERNEL_FRAME_STALL"}

PresentStops(s, t) ==
  SortSeq(SelectSeq(s, LAMBDA e : /\ e.cat = "DXGI" /\ e.pid = t.pid /\ e.dur > 0
                                  /\ "DUPLICATE" \notin e.flags),
          LAMBDA a, b : a.ts < b.ts)

(* The frame nearest to the trigger within 1 ms, or the last one before it. *)
Anchor(stops, t) ==
  LET near == {i \in DOMAIN stops : Offset(stops[i], t) < 10}
      before == {i \in DOMAIN stops : stops[i].ts <= t.ts}
      nearest == {i \in near : \A j \in near : Offset(stops[i], t) <= Offset(stops[j], t)}
  IN IF near # {} THEN Min(nearest) ELSE IF before # {} THEN Max(before) ELSE 1

(* At most MAX_TIMELINE_POINTS frames, half of them before the anchor unless *)
(* one side has fewer.                                                       *)
FrameTimeline(s, t) ==
  LET stops == PresentStops(s, t)
      half == MAX_TIMELINE_POINTS \div 2
      pre == Anchor(stops, t) - 1
      post == Len(stops) - pre
      takePre == IF pre < half THEN pre
                 ELSE IF post < half THEN Min2(pre, MAX_TIMELINE_POINTS - post) ELSE half
      takePost == IF pre < half THEN Min2(post, MAX_TIMELINE_POINTS - pre)
                  ELSE IF post < half THEN post ELSE half
  IN IF ~FrameTrigger(t) \/ t.pid = 0 \/ stops = <<>> THEN <<>>
     ELSE IF Len(stops) <= MAX_TIMELINE_POINTS THEN stops
     ELSE SubSeq(stops, pre - takePre + 1, pre + takePost)

Correlate(s, t, ctx) ==
  LET ds == Diagnoses(s, t, ctx) IN
    [trigger |-> t, diagnoses |-> ds, attribution |-> Attribution(ds, t),
     timeline |-> FrameTimeline(s, t)]

=============================================================================
