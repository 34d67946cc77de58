---------------------------- MODULE FramePacing ----------------------------
(***************************************************************************)
(* The frame pacing detector of include/stuttometer/                       *)
(* frame_pacing_tracker.hpp as pure operators: the statistics of one       *)
(* present stream (RollingFrameStats) and evaluate_frame_pacing, which     *)
(* takes a frame into them and says whether it is a stutter.               *)
(*                                                                         *)
(* Durations and time stamps are counted in ticks of 0.1 ms, thresholds    *)
(* and means in microseconds, ratios in percent.  A mean is rounded down   *)
(* to the microsecond, where the code keeps a double.                      *)
(***************************************************************************)
EXTENDS Integers, FiniteSetsExt

CONSTANTS
  WINDOW,                    \* slots of durations_us (64 in the code)
  INITIAL_WARMUP_SAMPLES,    \* below it only catastrophic frames are singled out (4)
  POST_WARMUP_MIN_SAMPLES,   \* from here on the baseline is used (8)
  PROMOTION_MIN_SAMPLES,     \* a candidate of so many frames is promoted (60)
  CANDIDATE_MAX_SAMPLES,     \* a candidate of so many frames starts again (1000)
  MAX_CONSECUTIVE_SKIPS,     \* near misses in a row a candidate survives (10)
  MAX_CLEAN_FRAMES,          \* clean frames a candidate survives (10)
  STALE_CANDIDATE            \* ticks after which a candidate is dropped (10 s)

TICK == 100                       \* microseconds in a tick
CANDIDATE_SANITY_CEILING == 200000  \* us: no candidate this slow is promoted

ASSUME PacingAssumption ==
  /\ WINDOW \in Nat \ {0}
  /\ INITIAL_WARMUP_SAMPLES \in 0..POST_WARMUP_MIN_SAMPLES
  /\ POST_WARMUP_MIN_SAMPLES \in 1..WINDOW
  /\ CANDIDATE_MAX_SAMPLES \in Nat /\ PROMOTION_MIN_SAMPLES \in 2..CANDIDATE_MAX_SAMPLES
  /\ MAX_CONSECUTIVE_SKIPS \in Nat
  /\ MAX_CLEAN_FRAMES \in Nat
  /\ STALE_CANDIDATE \in Nat \ {0}

(* Of frames that slow a candidate goes stale before it may be promoted. *)
ASSUME CandidateAssumption ==
  STALE_CANDIDATE * TICK < PROMOTION_MIN_SAMPLES * CANDIDATE_SANITY_CEILING

PAUSE_CEILING == 20000            \* ticks: a pause of 2 s starts the statistics again
WARMUP_CLAMP == 1000              \* ticks: warm-up frames are clamped to 100 ms
DEFENSIVE_CLAMP == 100000         \* ticks: every other frame to 10 s
GAP_CLOSE == 5000                 \* ticks: an episode ends 500 ms after its last alternation
EPISODE_CAP == 50000              \* ticks: or when it has lasted 5 s

Clamp(x, lo, hi) == Max({lo, Min({x, hi})})
Abs(x) == IF x < 0 THEN -x ELSE x

-----------------------------------------------------------------------------
(* The statistics of a stream. *)

NoCandidate == [n |-> 0, sum |-> 0, sq |-> 0, first |-> 0, skips |-> 0, clean |-> 0]
NoEpisode == [active |-> FALSE, alternations |-> 0, swing |-> 0, start |-> 0, last |-> 0]

(* RollingFrameStats after reset_frame_stats(stats, ts). *)
FreshStats(ts) ==
  [dur |-> [i \in 0..WINDOW - 1 |-> 0], idx |-> 0, n |-> 0, sum |-> 0, sq |-> 0,
   last |-> ts, delta |-> 0, cand |-> NoCandidate, ep |-> NoEpisode]

(* calculate_mean_ms and resolve_candidate_mean_ms, in microseconds. *)
MeanOf(x) == IF x.n = 0 THEN 0 ELSE (TICK * x.sum) \div x.n

(* reset_cadence_state: the previous delta is kept while an episode is open. *)
ResetCadence(s) == IF s.ep.active THEN s ELSE [s EXCEPT !.delta = 0]

Forward(s, ts) == IF ts > s.last \/ s.last = 0 THEN [s EXCEPT !.last = ts] ELSE s

(* calculate_cadence_delta: a frame alternates when it swings by more than  *)
(* the given percentage of the mean, in the other direction than the frame  *)
(* before it.                                                               *)
CadenceDelta(s, d) == IF s.n = 0 THEN 0 ELSE d - s.dur[(s.idx + WINDOW - 1) % WINDOW]
IsAlternating(s, d, swing) ==
  LET delta == CadenceDelta(s, d) IN
    /\ s.n > 0
    /\ s.delta # 0
    /\ Abs(delta) * TICK * 100 >= MeanOf(s) * swing
    /\ (delta > 0) # (s.delta > 0)

(* Mutant: the duration that falls out of the window stays in the sums. *)
PushNoSubtract(s, d, ts) ==
  Forward([s EXCEPT !.n = Min({WINDOW, @ + 1}), !.dur[s.idx] = d, !.sum = @ + d,
                    !.sq = @ + d * d, !.idx = (@ + 1) % WINDOW,
                    !.delta = CadenceDelta(s, d)], ts)

(* push_clean_frame: the sums follow the window as the oldest falls out. *)
Push(s, d, ts) ==
  LET old == IF s.n = WINDOW THEN s.dur[s.idx] ELSE 0 IN
    Forward([s EXCEPT !.n = Min({WINDOW, @ + 1}), !.dur[s.idx] = d,
                      !.sum = @ - old + d, !.sq = @ - old * old + d * d,
                      !.idx = (@ + 1) % WINDOW, !.delta = CadenceDelta(s, d)], ts)

(* push_clamped_clean_frame with the warm-up clamp. *)
PushWarmup(s, d, ts) == Push(s, Clamp(d, 1, WARMUP_CLAMP), ts)

-----------------------------------------------------------------------------
(* process_cadence_candidate: slow frames of one length are, after the      *)
(* first, not stutters but a new cadence.  The result names what became of  *)
(* the candidate.                                                           *)

Seeded(d, ts) == [NoCandidate EXCEPT !.n = 1, !.sum = d, !.sq = d * d, !.first = ts]

(* The variance of the candidate stays below that of sigma_threshold_ms     *)
(* (a tenth of the mean, 0.5 to 5 ms), both times the square of the count.  *)
Variance(c) == c.n * c.sq - c.sum * c.sum
SigmaTicks(c) == Clamp(MeanOf(c) \div (10 * TICK), 5, 50)

Steady(c) ==
  /\ Variance(c) < (c.n * SigmaTicks(c)) * (c.n * SigmaTicks(c))
  /\ MeanOf(c) < CANDIDATE_SANITY_CEILING

Promoted(s, seed) ==
  [s EXCEPT !.dur = [i \in 0..WINDOW - 1 |-> seed], !.sum = seed * WINDOW,
            !.sq = seed * seed * WINDOW, !.n = WINDOW, !.idx = 0, !.cand = NoCandidate]

(* Mutant: a frame is compared with the old cadence. *)
DeviationOfBaseline(s, d) == Abs(d * TICK - MeanOf(s))
Deviation(s, d) == Abs(d * TICK - MeanOf(s.cand))

ProcessCandidate(s, d, ts) ==
  LET c == [s.cand EXCEPT !.clean = 0]
      dev == Deviation(s, d)
      tol == Max({1500, (MeanOf(c) * 15) \div 100})
      Outcome(o, cand) == [outcome |-> o, s |-> [s EXCEPT !.cand = cand]]
      grown == [c EXCEPT !.skips = 0, !.n = @ + 1, !.sum = @ + d, !.sq = @ + d * d]
  IN CASE c.n = 0 -> Outcome("SEEDED", Seeded(d, ts))
       [] c.n > 0 /\ dev > 2 * tol -> Outcome("RESET", NoCandidate)
       [] c.n > 0 /\ dev > tol /\ dev <= 2 * tol ->
            IF c.skips + 1 > MAX_CONSECUTIVE_SKIPS
            THEN Outcome("STALLED", NoCandidate)
            ELSE Outcome("SKIPPED", [c EXCEPT !.skips = @ + 1])
       [] c.n > 0 /\ dev <= tol /\ c.n >= CANDIDATE_MAX_SAMPLES ->
            Outcome("SEEDED", Seeded(d, ts))
       [] OTHER ->
            IF grown.n >= PROMOTION_MIN_SAMPLES /\ Steady(grown)
            THEN [outcome |-> "PROMOTED", s |-> Promoted(s, grown.sum \div grown.n)]
            ELSE Outcome("ACCUMULATED", grown)

-----------------------------------------------------------------------------
(* Thresholds. *)

(* calculate_effective_static_threshold and its inverse, in microseconds. *)
EffectiveStatic(t) == t + Max({500, t \div 20})
InvertStatic(e) == IF e <= 10500 THEN Max({0, e - 500}) ELSE (e * 20) \div 21

(* resolve_pacing_params: ratio in percent and least excess in microseconds  *)
(* of a spike; the adaptive profile goes from 240 to 60 frames a second.     *)
PacingParams(cfg, mean) ==
  CASE cfg.profile = "AUTO_ADAPTIVE" /\ mean > 0 ->
         [mult |-> 140 + (60 * (Clamp(mean, 4167, 16667) - 4167)) \div 12500,
          delta |-> Clamp((mean * 3) \div 10, 1500, 4000)]
    [] cfg.profile = "HIGH_REFRESH" -> [mult |-> 140, delta |-> 1500]
    [] cfg.profile = "CUSTOM" -> [mult |-> cfg.mult, delta |-> cfg.delta]
    [] OTHER -> [mult |-> 200, delta |-> 4000]

(* Once four samples are known a static threshold below the mean is lifted  *)
(* above it; other modes keep it as configured.                             *)
LiftedStatic(cfg, s) ==
  LET mean == MeanOf(s) IN
    IF cfg.mode = "HYBRID" /\ s.n >= INITIAL_WARMUP_SAMPLES /\ cfg.static < mean
    THEN Max({cfg.static, mean + PacingParams(cfg, mean).delta})
    ELSE cfg.static

Catastrophic(static) == Clamp(12 * InvertStatic(static), 50000, 500000)

-----------------------------------------------------------------------------
(* evaluate_frame_pacing, phase by phase.  A result carries the statistics   *)
(* after the frame and FramePacingResult.                                    *)

Result(s, reason, base, ratio) ==
  [s |-> s, reason |-> reason, baseline |-> base, ratio |-> ratio,
   alternations |-> 0, swing |-> 0, ts |-> 0, dur |-> 0]
NoStutter(s, base, ratio) == Result(s, "NONE", base, ratio)
Ratio(mean, d) == IF mean > 0 THEN (d * TICK * 100) \div mean ELSE 100

(* effective_mean_ms of a result, read from the statistics it leaves behind: *)
(* a report of judder gives the baseline, any other the candidate's mean.    *)
EffectiveMean(r) ==
  IF r.reason # "CADENCE_JUDDER" /\ r.s.cand.n >= 2 THEN MeanOf(r.s.cand) ELSE MeanOf(r.s)

(* A frame after a pause seeds new statistics; it is no stutter. *)
IsPause(s, ts) == s.last > 0 /\ ts > s.last /\ ts - s.last >= PAUSE_CEILING
AfterPause(d, ts) == NoStutter(PushWarmup(FreshStats(ts), d, ts), 0, 0)

(* The staleness sweep before the frame is looked at. *)
Swept(s, ts) ==
  IF s.cand.n \in 1..PROMOTION_MIN_SAMPLES - 1 /\ ts - s.cand.first > STALE_CANDIDATE
  THEN [s EXCEPT !.cand = NoCandidate] ELSE s

(* Fewer samples than POST_WARMUP_MIN_SAMPLES: each mode lets the baseline   *)
(* fill, and only a static threshold may fire.                               *)
Warmup(s, d, ts, cfg) ==
  LET mean == MeanOf(s)
      slow == d * TICK >= LiftedStatic(cfg, s)
      early == s.n < INITIAL_WARMUP_SAMPLES
      pushed == PushWarmup(s, d, ts)
      R(st, reason) == Result(st, reason, mean, Ratio(mean, d))
  IN CASE cfg.mode = "STATIC_ONLY" ->
            IF slow THEN R(ResetCadence(s), "STATIC_THRESHOLD") ELSE R(pushed, "NONE")
       [] cfg.mode = "HYBRID" /\ early ->
            IF d * TICK >= Catastrophic(LiftedStatic(cfg, s))
            THEN R(ResetCadence(pushed), "NONE") ELSE R(pushed, "NONE")
       [] cfg.mode = "HYBRID" /\ ~early ->
            IF slow THEN R(ResetCadence(pushed), "STATIC_THRESHOLD") ELSE R(pushed, "NONE")
       [] cfg.mode = "DYNAMIC_ONLY" ->
            R(IF slow THEN ResetCadence(pushed) ELSE pushed, "NONE")

(* A slow frame goes to the candidate; the first of a cadence, and one that  *)
(* breaks it, is a stutter for the reason given.                             *)
SlowFrame(s, d, ts, reason) ==
  LET p == ProcessCandidate(ResetCadence(s), d, ts)
      mean == MeanOf(s)
  IN CASE p.outcome = "PROMOTED" -> NoStutter(p.s, MeanOf(p.s), 100)
       [] p.outcome \in {"ACCUMULATED", "SKIPPED"} -> NoStutter(p.s, mean, Ratio(mean, d))
       [] OTHER -> Result(p.s, reason, mean, Ratio(mean, d))

IsSpike(s, d, cfg) ==
  LET mean == MeanOf(s)
      params == PacingParams(cfg, mean)
  IN /\ cfg.mode # "STATIC_ONLY"
     /\ Ratio(mean, d) >= params.mult
     /\ d * TICK - mean >= params.delta

(* The judder episode after a frame that may alternate. *)
Alternated(s, d, ts) ==
  LET e == s.ep
      swing == (100 * TICK * Abs(CadenceDelta(s, d))) \div MeanOf(s)
  IN [active |-> TRUE, alternations |-> e.alternations + 1, swing |-> Max({e.swing, swing}),
      start |-> IF e.alternations = 0 THEN ts ELSE e.start, last |-> ts]

EpisodeDone(e, alternating, ts) ==
  \/ e.last - e.start >= EPISODE_CAP
  \/ ~alternating /\ ts - e.last >= GAP_CLOSE

CloseEpisode(s) == [s EXCEPT !.ep = NoEpisode, !.delta = 0]

JudderReport(s, ts) ==
  [Result(CloseEpisode(s), "CADENCE_JUDDER", MeanOf(s), 100) EXCEPT
     !.alternations = s.ep.alternations, !.swing = s.ep.swing,
     !.ts = s.ep.last, !.dur = s.ep.last - s.ep.start]

(* A frame that is no stutter by itself. *)
CleanTail(s, d, ts) ==
  LET c == s.cand
      kept == IF c.n = 0 THEN c
              ELSE IF c.clean + 1 > MAX_CLEAN_FRAMES THEN NoCandidate
              ELSE [c EXCEPT !.clean = @ + 1]
      mean == MeanOf(s)
  IN NoStutter(Push([s EXCEPT !.cand = kept], Clamp(d, 1, DEFENSIVE_CLAMP), ts),
               mean, Ratio(mean, d))

StaticFallback(s, d, ts, cfg, static) ==
  CASE d * TICK >= static /\ cfg.mode = "STATIC_ONLY" ->
         Result([ResetCadence(s) EXCEPT !.cand = NoCandidate], "STATIC_THRESHOLD",
                MeanOf(s), Ratio(MeanOf(s), d))
    [] d * TICK >= static /\ cfg.mode = "HYBRID" -> SlowFrame(s, d, ts, "STATIC_THRESHOLD")
    [] OTHER -> CleanTail(s, d, ts)

Baseline(s, d, ts, cfg) ==
  LET alternating == IsAlternating(s, d, cfg.swing)
      t == IF alternating THEN [s EXCEPT !.ep = Alternated(s, d, ts)] ELSE s
      done == t.ep.active /\ EpisodeDone(t.ep, alternating, ts)
      rest == IF done THEN CloseEpisode(t) ELSE t
  IN CASE IsSpike(s, d, cfg) -> SlowFrame(s, d, ts, "RELATIVE_SPIKE")
       [] ~IsSpike(s, d, cfg) /\ (cfg.mode = "STATIC_ONLY" \/ ~cfg.judder) ->
            StaticFallback(s, d, ts, cfg, LiftedStatic(cfg, s))
       [] OTHER ->
            IF done /\ t.ep.alternations >= cfg.minAlternations
            THEN JudderReport(t, ts)
            ELSE StaticFallback(rest, d, ts, cfg, LiftedStatic(cfg, s))

Evaluate(s, d, ts, cfg) ==
  LET t == Swept(Forward(s, ts), ts) IN
    CASE IsPause(s, ts) -> AfterPause(d, ts)
      [] ~IsPause(s, ts) /\ s.n < POST_WARMUP_MIN_SAMPLES -> Warmup(t, d, ts, cfg)
      [] OTHER -> Baseline(t, d, ts, cfg)

(* evaluate_frame_pacing_common (trigger_engine.cpp): with relative spikes    *)
(* turned off such a frame may still be slow by the static threshold.        *)
EvaluateCommon(s, d, ts, cfg) ==
  LET r == Evaluate(s, d, ts, cfg) IN
    CASE r.reason = "RELATIVE_SPIKE" /\ ~cfg.relativeSpike ->
           IF cfg.mode # "DYNAMIC_ONLY" /\ d * TICK >= cfg.static
           THEN Result(r.s, "STATIC_THRESHOLD", MeanOf(r.s), Ratio(MeanOf(r.s), d))
           ELSE [r EXCEPT !.reason = "NONE"]
      [] OTHER -> r

=============================================================================
