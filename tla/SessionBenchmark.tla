-------------------------- MODULE SessionBenchmark --------------------------
(***************************************************************************)
(* The benchmark of a session (src/session_benchmark.cpp) as operators on  *)
(* its state: the ring of frame times, filled without a lock and filtered  *)
(* by target epoch, and the attribution kept under attribution_mutex_.     *)
(*                                                                         *)
(* ingest_frame and restart (retarget, reset) are given in the steps that  *)
(* other threads can see.  Durations are ticks of 0.1 ms.  Driver names,   *)
(* percentiles and frame rates are left out.                               *)
(***************************************************************************)
EXTENDS Integers, Sequences, SequencesExt, FiniteSetsExt, TLC

CONSTANTS
  FRAME_CAPACITY,          \* RING_CAPACITY (262144 in the code)
  FALLBACK_MIN_SAMPLES,    \* frames needed to guess a baseline (8)
  FALLBACK_WINDOW_SIZE,    \* frames it is guessed from (64)
  TOP_N                    \* culprits listed by name (5)

ASSUME BenchmarkAssumption ==
  /\ FRAME_CAPACITY \in Nat \ {0}
  /\ FALLBACK_MIN_SAMPLES \in 1..FALLBACK_WINDOW_SIZE
  /\ TOP_N \in Nat

PAUSE_CEILING_MS == 20000        \* ticks
PASS1_SANITY == 1000             \* ticks: FALLBACK_PASS1_SANITY_MS
PASS2_FACTOR == 14               \* tenths: FALLBACK_PASS2_MEDIAN_FACTOR

NoAttribution ==
  [stutters |-> 0, audio |-> 0, minor |-> 0, minorStall |-> 0, netStall |-> 0,
   worst |-> 0, worstOf |-> "", judders |-> 0, judderSpan |-> 0, worstJudder |-> 0,
   hypotheses |-> <<>>, tags |-> <<>>]

NewBenchmark(pid) ==
  [ring |-> [i \in 0..FRAME_CAPACITY - 1 |-> [odd |-> FALSE, dur |-> 0, epoch |-> 0]],
   head |-> 0, start |-> 0, pid |-> pid, epoch |-> 0,
   paused |-> 0, started |-> FALSE, live |-> 0, attr |-> NoAttribution]

-----------------------------------------------------------------------------
(* ingest_frame: read the target, claim a ticket, fill the slot. *)

Ingestible(b, pid, dur) == dur \in 1..PAUSE_CEILING_MS - 1 /\ b.pid \in {0, pid}

CountPause(b, dur) == IF dur >= PAUSE_CEILING_MS THEN [b EXCEPT !.paused = @ + 1] ELSE b

(* head_.fetch_add, and the slot's sequence becomes odd. *)
ClaimFrame(b) ==
  [b EXCEPT !.started = TRUE, !.head = @ + 1, !.ring[b.head % FRAME_CAPACITY].odd = ~@]

(* Mutant: the frame is stamped with the epoch of the moment it is written. *)
PublishFrameLate(b, ticket, dur, epoch) ==
  [b EXCEPT !.ring[ticket % FRAME_CAPACITY] = [odd |-> ~@.odd, dur |-> dur, epoch |-> b.epoch]]

(* The epoch is that read with the target, whatever the target is by now. *)
PublishFrame(b, ticket, dur, epoch) ==
  [b EXCEPT !.ring[ticket % FRAME_CAPACITY] = [odd |-> ~@.odd, dur |-> dur, epoch |-> epoch]]

-----------------------------------------------------------------------------
(* retarget and reset: first what belongs to the old session goes, and the   *)
(* first ticket of the new one is noted; the target and its epoch follow.    *)

BeginRestart(b) ==
  [b EXCEPT !.attr = NoAttribution, !.live = 0, !.paused = 0, !.start = b.head]

EndRestart(b, pid) == [b EXCEPT !.pid = pid, !.epoch = @ + 1, !.started = FALSE]

(* update_pacing_telemetry: the mean of the target's stream. *)
UpdateTelemetry(b, mean) == [b EXCEPT !.live = mean]

-----------------------------------------------------------------------------
(* Attribution. *)

IngestFiltered(b, pid, dur, reason) ==
  IF dur <= 0 \/ (b.pid # 0 /\ pid \notin {0, b.pid}) THEN b
  ELSE [b EXCEPT !.attr.minor = @ + 1,
                 !.attr.minorStall = IF reason = "CADENCE_JUDDER" THEN @ ELSE @ + dur]

(* One more report under a hypothesis or a tag. *)
Charge(stats, name, stall) ==
  LET old == IF name \in DOMAIN stats THEN stats[name] ELSE [count |-> 0, stall |-> 0] IN
    [h \in DOMAIN stats \cup {name} |->
       IF h = name THEN [count |-> old.count + 1, stall |-> old.stall + stall] ELSE stats[h]]

CountMinor(a, stall, judder) ==
  [a EXCEPT !.minor = @ + 1, !.minorStall = IF judder THEN @ ELSE @ + stall]

CountStutter(a, stall, judder, h) ==
  IF judder
  THEN [a EXCEPT !.stutters = @ + 1, !.judders = @ + 1, !.judderSpan = @ + stall,
                 !.worstJudder = Max({@, stall})]
  ELSE [a EXCEPT !.stutters = @ + 1, !.netStall = @ + stall, !.worst = Max({@, stall}),
                 !.worstOf = IF stall > a.worst THEN h ELSE @]

(* A report [pid, audio, severity, judder, stall, hypothesis, tag]. *)
IngestReport(b, r) ==
  LET a == IF r.severity < 1 THEN CountMinor(b.attr, r.stall, r.judder)
           ELSE CountStutter(b.attr, r.stall, r.judder, r.hypothesis)
      stall == IF r.judder THEN 0 ELSE r.stall
  IN CASE b.pid # 0 /\ r.pid \notin {0, b.pid} -> b
       [] (b.pid = 0 \/ r.pid \in {0, b.pid}) /\ r.audio -> [b EXCEPT !.attr.audio = @ + 1]
       [] OTHER -> [b EXCEPT !.attr = [a EXCEPT
                      !.hypotheses = Charge(@, r.hypothesis, stall),
                      !.tags = Charge(@, r.tag, stall)]]

-----------------------------------------------------------------------------
(* get_summary. *)

(* What f holds for its tickets, in their order. *)
Listed(f) ==
  LET order == SetToSortSeq(DOMAIN f, <) IN [i \in DOMAIN order |-> f[order[i]]]

(* The frames of the current epoch among the last FRAME_CAPACITY tickets. *)
ValidFrames(b) ==
  LET n == Min({b.head - b.start, FRAME_CAPACITY})
      slot(k) == b.ring[k % FRAME_CAPACITY]
      valid == {k \in b.head - n .. b.head - 1 :
                  ~slot(k).odd /\ slot(k).epoch = b.epoch /\ slot(k).dur > 0}
  IN Listed([k \in valid |-> slot(k).dur])

Median(s) == IF Len(s) % 2 = 1 THEN s[Len(s) \div 2 + 1]
             ELSE (s[Len(s) \div 2] + s[Len(s) \div 2 + 1]) \div 2

(* Without live telemetry the baseline (microseconds) is the median of the   *)
(* last frames; those above the sanity ceiling or far above it do not count. *)
FallbackBaseline(frames) ==
  LET recent == SubSeq(frames, Max({1, Len(frames) - FALLBACK_WINDOW_SIZE + 1}), Len(frames))
      sane == SortSeq(SelectSeq(recent, LAMBDA d : d < PASS1_SANITY), <)
      clean == SelectSeq(sane, LAMBDA d : d * 10 <= PASS2_FACTOR * Median(sane))
  IN IF Len(sane) < FALLBACK_MIN_SAMPLES
     THEN (100 * FoldLeft(+, 0, frames)) \div Len(frames)
     ELSE 100 * Median(IF Len(clean) < FALLBACK_MIN_SAMPLES THEN sane ELSE clean)

RollingBaseline(b, frames) ==
  CASE b.live > 0 -> b.live
    [] b.live = 0 /\ Len(frames) >= FALLBACK_MIN_SAMPLES -> FallbackBaseline(frames)
    [] OTHER -> 0

(* The culprits are the hypotheses but judder, which is listed elsewhere: by *)
(* name the TOP_N that cost the most time, and all others together.          *)
Culpable(stats) == DOMAIN stats \ {"frame_pacing_judder"}

Worse(a, b) == a.stall > b.stall \/ (a.stall = b.stall /\ a.count > b.count)

(* The sort may put any of two equal ones first.                             *)
Leading(stats) ==
  CHOOSE top \in SUBSET Culpable(stats) :
    /\ Cardinality(top) = Min({Cardinality(Culpable(stats)), TOP_N})
    /\ \A g \in Culpable(stats) \ top, h \in top : ~Worse(stats[g], stats[h])

SumOf(stats, names, field) == MapThenSumSet(LAMBDA h : stats[h][field], names)

(* Mutant: what does not fit under the first TOP_N is dropped. *)
CulpritsCut(stats) ==
  [named |-> Restrict(stats, Leading(stats)), other |-> [count |-> 0, stall |-> 0]]

Culprits(stats) ==
  LET rest == Culpable(stats) \ Leading(stats) IN
    [named |-> Restrict(stats, Leading(stats)),
     other |-> [count |-> SumOf(stats, rest, "count"), stall |-> SumOf(stats, rest, "stall")]]

Summary(b) ==
  LET frames == ValidFrames(b) IN
    [frames |-> frames, baseline |-> RollingBaseline(b, frames),
     dropped |-> b.paused, stutters |-> b.attr.stutters, minor |-> b.attr.minor,
     audio |-> b.attr.audio, netStall |-> b.attr.netStall,
     culprits |-> Culprits(b.attr.hypotheses), tags |-> b.attr.tags]

=============================================================================
