---------------------------- MODULE MCEventPath ----------------------------
(* Scenarios for TLC: what the world may do in a run of EventPath. *)
EXTENDS EventPath

Static == [mode |-> "STATIC_ONLY", profile |-> "STANDARD", mult |-> 200, delta |-> 4000,
           judder |-> FALSE, swing |-> 15, static |-> 17535, minAlternations |-> 2,
           relativeSpike |-> TRUE]
Hybrid == [Static EXCEPT !.mode = "HYBRID", !.judder = TRUE]
Dynamic == [Hybrid EXCEPT !.mode = "DYNAMIC_ONLY", !.profile = "AUTO_ADAPTIVE"]
Custom == [Hybrid EXCEPT !.profile = "CUSTOM", !.mult = 150, !.delta = 2000,
                         !.relativeSpike = FALSE]

Scene ==
  [begin |-> 20000, target |-> GAME, pids |-> {PEER}, presenters |-> {GAME},
   frameKinds |-> {"PRESENT"}, frames |-> 2, frameDelays |-> {240}, events |-> 0,
   delays |-> {60, 240}, kinds |-> {}, losses |-> 0, restarts |-> 0, cfg |-> Static,
   minSeverity |-> 0, minMissed |-> 1]

(* Only judder is reported. *)
Calm == [Hybrid EXCEPT !.relativeSpike = FALSE, !.static = 1000000]

(* Stalls around a late frame, and glitches while the target comes and goes. *)
Stalls ==
  { [Scene EXCEPT !.events = 4, !.delays = {240}, !.pids = {GAME},
                  !.kinds = {"DISK", "PREEMPTION", "WAIT"}],
    [Scene EXCEPT !.events = 2, !.delays = {240}, !.pids = {GAME},
                  !.kinds = {"DISK", "PREEMPTION", "DWM"}, !.losses = 1],
    [Scene EXCEPT !.events = 2, !.delays = {240},
                  !.kinds = {"DISK", "PREEMPTION", "DPC", "THERMAL"}, !.pids = {GAME, PEER}],
    [Scene EXCEPT !.events = 2, !.delays = {60}, !.kinds = {"SCAN", "ISR", "FAULT", "VRAM"}],
    [Scene EXCEPT !.events = 2, !.delays = {60}, !.kinds = {"PSO", "TRIM", "ALLOC", "PHYS"}],
    [Scene EXCEPT !.events = 2, !.delays = {300}, !.kinds = {"DWM", "AUDIO", "KERNEL_PRESENT"},
                  !.minMissed = 2, !.minSeverity = 1],
    [Scene EXCEPT !.events = 2, !.delays = {240}, !.kinds = {"DWM", "AUDIO"}, !.frames = 0,
                  !.minSeverity = 1, !.restarts = 1],
    [Scene EXCEPT !.events = 3, !.delays = {240, 300}, !.kinds = {"DWM", "AUDIO"}, !.frames = 0,
                  !.target = 0, !.minMissed = 2],
    [Scene EXCEPT !.frames = 4, !.frameDelays = {25, 240, 20000}, !.target = 0,
                  !.presenters = {GAME, PEER}, !.cfg = [Static EXCEPT !.static = 2500]] }

(* Frames of one stream, judged by the pacing detector. *)
Cadences ==
  { [Scene EXCEPT !.frames = 7, !.frameDelays = {120, 250}, !.cfg = Hybrid,
                  !.minSeverity = 2],
    [Scene EXCEPT !.frames = 5, !.frameDelays = {120, 300, 6000}, !.cfg = Hybrid],
    [Scene EXCEPT !.frames = 6, !.frameDelays = {120, 300, 6000}, !.cfg = Calm] }
  \cup
  { [Scene EXCEPT !.frames = 5, !.frameDelays = {120, 300, 21000}, !.cfg = c] :
      c \in {Static, Hybrid, Dynamic, [Hybrid EXCEPT !.profile = "HIGH_REFRESH"], Custom} }

(* A target that shows frames by flips, or by flips and by DXGI. *)
Flips ==
  { [Scene EXCEPT !.frames = 4, !.frameDelays = {170, 350}, !.frameKinds = {"FLIP"},
                  !.minMissed = 2, !.begin = 9000],
    [Scene EXCEPT !.frames = 4, !.frameDelays = {200}, !.target = 0,
                  !.frameKinds = {"FLIP", "PRESENT"}],
    [Scene EXCEPT !.frames = 3, !.frameDelays = {200, 10000}, !.target = 0,
                  !.frameKinds = {"FLIP", "PRESENT"}] }

(* Two processes show frames while the target changes under them. *)
Retargets ==
  { [Scene EXCEPT !.frames = 3, !.presenters = {GAME, PEER}, !.restarts = 2] }

MCScenarios == Stalls \cup Cadences \cup Flips \cup Retargets
=============================================================================
