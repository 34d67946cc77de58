-------------------------- MODULE EventPathProofs --------------------------
(***************************************************************************)
(* The frames of the summary (FramesOfTarget), the statistics of the       *)
(* streams (PacingConsistent), how they settle (AdaptsToCadence) and what  *)
(* the summary counts (IncidentsCounted), for every scenario, every        *)
(* capacity of the ring and of the pacing window, and any number of        *)
(* restarts.                                                               *)
(*                                                                         *)
(* Pacing: the sums of a window are recursive functions, so what a frame   *)
(* does to them takes an induction over the slots; it is drawn from the    *)
(* least number principle.  Then every phase of evaluate_frame_pacing is   *)
(* shown to take sound statistics to sound ones, and the path to feed it   *)
(* frames of a positive duration that are not older than their stream.     *)
(*                                                                         *)
(* Cadence: the statistics do not say how often frames of one length have  *)
(* been called stutters, but they bound it.  A stutter past the warm-up    *)
(* begins a candidate.  As long as frames of that length come often enough *)
(* the candidate has nothing else in it (OneLength), so it is steady, and  *)
(* it does not go stale before it has enough of them (Lives); then the     *)
(* window is made of it (Uniform), and a window of one length calls no     *)
(* frame of that length slow.                                              *)
(*                                                                         *)
(* Frames: the invariant follows a frame through ingest_frame.  A frame is *)
(* stamped with the epoch read with the target, and an epoch, once over,   *)
(* does not come back; so whatever is written under the present epoch is a *)
(* frame of the present target.  A slot is written by the ticket that      *)
(* claimed it and by no other until the ring has gone round, so the last   *)
(* frames shown are all in it.  Only the window between the two halves of  *)
(* a restart, when the first ticket has moved and the epoch has not, is    *)
(* exempt.                                                                 *)
(*                                                                         *)
(* Incidents: an incident is either counted by the benchmark, suppressed,  *)
(* held, or in the call under way (Balance).  So each step must move it    *)
(* from one of these to the next and lose none: the handlers must call for *)
(* exactly the frames and glitches that count, the verdict on a frame must *)
(* be the threshold's, and no filter of the benchmark may reject what the  *)
(* engine let through.  Reports: a charge adds one to a hypothesis and to  *)
(* a tag (Charged), and the culprits divide the hypotheses in two parts.   *)
(***************************************************************************)
EXTENDS EventPath, FiniteSetTheorems, WellFoundedInduction, TLAPS

-----------------------------------------------------------------------------
(* Sums of a window.                                                       *)

Below == {p \in Nat \X Nat : p[1] < p[2]}

LEMMA BelowWellFounded == IsWellFoundedOn(Below, Nat)
  BY NatLessThanWellFounded DEF OpToRel, Below

(* What fails for some number fails for a least one.                       *)
LEMMA LeastNat ==
  ASSUME NEW T \in SUBSET Nat, T # {}
  PROVE  \E x \in T : \A y \in T : x <= y
<1>1. PICK x \in T : \A y \in T : ~(<<y, x>> \in Below)
  BY BelowWellFounded, WFMin
<1>2. \A y \in T : ~(y < x)
  BY <1>1 DEF Below
<1> QED
  BY <1>2

LEMMA UpTo ==
  ASSUME NEW W \in Nat, NEW T, 0 \in T, \A i \in 0 .. W - 1 : i \in T => i + 1 \in T
  PROVE  0 .. W \subseteq T
<1> DEFINE Rest == {i \in 0 .. W : i \notin T}
<1> SUFFICES ASSUME Rest # {} PROVE FALSE
  OBVIOUS
<1>1. PICK m \in Rest : \A y \in Rest : m <= y
  <2>1. Rest \in SUBSET Nat
    OBVIOUS
  <2> QED
    BY <2>1, LeastNat
<1>2. m \in 1 .. W /\ m \notin T
  OBVIOUS
<1>3. m - 1 \notin Rest /\ m - 1 \in 0 .. W - 1
  BY <1>1, <1>2
<1>4. m - 1 \in T
  BY <1>3
<1>5. (m - 1) + 1 \in T
  BY <1>3, <1>4
<1> QED
  BY <1>2, <1>5

(* g holds the sums of f up to m.                                          *)
Adds(f, g, m) ==
  /\ g \in [0 .. m -> Int] /\ g[0] = 0
  /\ \A i \in 0 .. m - 1 : g[i + 1] = g[i] + f[i]

LEMMA SumsExist ==
  ASSUME NEW W \in Nat, NEW f, \A i \in 0 .. W - 1 : f[i] \in Int
  PROVE  \E g : Adds(f, g, W)
<1> DEFINE T == {m \in 0 .. W : \E g : Adds(f, g, m)}
<1>1. 0 \in T
  <2>1. Adds(f, [i \in 0 .. 0 |-> 0], 0)
    BY DEF Adds
  <2> QED
    BY <2>1
<1>2. ASSUME NEW m \in 0 .. W - 1, m \in T PROVE m + 1 \in T
  <2>1. PICK g : Adds(f, g, m)
    BY <1>2
  <2> DEFINE h == [i \in 0 .. m + 1 |-> IF i = m + 1 THEN g[m] + f[m] ELSE g[i]]
  <2>2. h \in [0 .. m + 1 -> Int] /\ h[0] = 0
    BY <2>1 DEF Adds
  <2>3. ASSUME NEW i \in 0 .. (m + 1) - 1 PROVE h[i + 1] = h[i] + f[i]
    <3>1. CASE i = m
      BY <3>1
    <3>2. CASE i # m
      <4>1. i \in 0 .. m - 1 /\ i + 1 # m + 1 /\ i # m + 1
        BY <3>2
      <4> QED
        BY <4>1, <2>1 DEF Adds
    <3> QED
      BY <3>1, <3>2
  <2>4. Adds(f, h, m + 1)
    BY <2>2, <2>3 DEF Adds
  <2> QED
    BY <2>4
<1> HIDE DEF T
<1>3. W \in T
  BY <1>1, <1>2, UpTo
<1> QED
  BY <1>3 DEF T

(* Totals are such sums, whatever else could be.                           *)
LEMMA TotalsAdd ==
  ASSUME NEW f, \A i \in 0 .. WINDOW - 1 : f[i] \in Int
  PROVE  Adds(f, Totals(f), WINDOW)
<1>1. WINDOW \in Nat \ {0}
  BY PacingAssumption
<1> DEFINE Sum(g) == [n \in 0 .. WINDOW |-> IF n = 0 THEN 0 ELSE g[n - 1] + f[n - 1]]
           t == Totals(f)
<1>2. t = CHOOSE g : g = Sum(g)
  BY DEF Totals
<1>3. PICK g : Adds(f, g, WINDOW)
  BY <1>1, SumsExist
<1>4. g = Sum(g)
  <2>1. \A n \in 1 .. WINDOW : n - 1 \in 0 .. WINDOW - 1 /\ (n - 1) + 1 = n
    BY <1>1
  <2>2. \A n \in 1 .. WINDOW : g[n] = g[n - 1] + f[n - 1]
    BY <1>3, <2>1 DEF Adds
  <2>3. \A n \in 0 .. WINDOW : g[n] = Sum(g)[n]
    BY <1>1, <1>3, <2>2 DEF Adds
  <2> QED
    BY <1>3, <2>3 DEF Adds
<1>5. t = Sum(t)
  BY <1>2, <1>4
<1> HIDE DEF t
<1> DEFINE T == {n \in 0 .. WINDOW : t[n] = g[n]}
<1>6. 0 \in T
  BY <1>1, <1>3, <1>5 DEF Adds
<1>7. ASSUME NEW n \in 0 .. WINDOW - 1, n \in T PROVE n + 1 \in T
  <2>1. n + 1 \in 0 .. WINDOW /\ n + 1 # 0 /\ (n + 1) - 1 = n
    BY <1>1
  <2>2. t[n + 1] = t[n] + f[n]
    BY <1>5, <2>1
  <2> QED
    BY <1>3, <1>7, <2>1, <2>2 DEF Adds
<1> HIDE DEF T
<1>8. 0 .. WINDOW \subseteq T
  BY <1>1, <1>6, <1>7, UpTo
<1>9. t = [n \in 0 .. WINDOW |-> t[n]]
  BY <1>5
<1>10. t = g
  <2>1. g = [n \in 0 .. WINDOW |-> g[n]]
    BY <1>3 DEF Adds
  <2>2. \A n \in 0 .. WINDOW : t[n] = g[n]
    BY <1>8 DEF T
  <2> QED
    BY <1>9, <2>1, <2>2
<1> QED
  BY <1>3, <1>10 DEF t

(* A value that changes moves the sums that have it by the difference.     *)
LEMMA TotalsChange ==
  ASSUME NEW f, \A i \in 0 .. WINDOW - 1 : f[i] \in Int,
         NEW h, \A i \in 0 .. WINDOW - 1 : h[i] \in Int,
         NEW j \in 0 .. WINDOW - 1, \A i \in 0 .. WINDOW - 1 : i # j => h[i] = f[i],
         NEW n \in 0 .. WINDOW
  PROVE  Totals(h)[n] = Totals(f)[n] + (IF j < n THEN h[j] - f[j] ELSE 0)
<1>1. WINDOW \in Nat \ {0}
  BY PacingAssumption
<1> DEFINE a == Totals(f)
           b == Totals(h)
           T == {m \in 0 .. WINDOW : b[m] = a[m] + (IF j < m THEN h[j] - f[j] ELSE 0)}
<1>2. Adds(f, a, WINDOW) /\ Adds(h, b, WINDOW)
  BY TotalsAdd
<1> HIDE DEF a, b
<1>3. 0 \in T
  BY <1>1, <1>2 DEF Adds
<1>4. ASSUME NEW m \in 0 .. WINDOW - 1, m \in T PROVE m + 1 \in T
  <2>1. a[m + 1] = a[m] + f[m] /\ b[m + 1] = b[m] + h[m]
    BY <1>2 DEF Adds
  <2>2. /\ a[m] \in Int /\ b[m] \in Int /\ f[m] \in Int /\ h[m] \in Int
        /\ f[j] \in Int /\ h[j] \in Int /\ m \in 0 .. WINDOW /\ m + 1 \in 0 .. WINDOW
    BY <1>1, <1>2 DEF Adds
  <2>3. b[m] = a[m] + (IF j < m THEN h[j] - f[j] ELSE 0)
    BY <1>4
  <2>4. CASE m = j
    BY <2>1, <2>2, <2>3, <2>4
  <2>5. CASE m # j
    BY <2>1, <2>2, <2>3, <2>5
  <2> QED
    BY <2>4, <2>5
<1> HIDE DEF T
<1>5. n \in T
  BY <1>1, <1>3, <1>4, UpTo
<1> QED
  BY <1>5 DEF T, a, b

LEMMA TotalsOfOne ==
  ASSUME NEW f, NEW c \in Int, \A i \in 0 .. WINDOW - 1 : f[i] = c
  PROVE  \A n \in 0 .. WINDOW : Totals(f)[n] = c * n
<1>1. WINDOW \in Nat \ {0}
  BY PacingAssumption
<1> DEFINE a == Totals(f)
           T == {m \in 0 .. WINDOW : a[m] = c * m}
<1>2. Adds(f, a, WINDOW)
  BY TotalsAdd
<1> HIDE DEF a
<1>3. 0 \in T
  BY <1>1, <1>2 DEF Adds
<1>4. ASSUME NEW m \in 0 .. WINDOW - 1, m \in T PROVE m + 1 \in T
  <2>1. a[m + 1] = a[m] + c /\ a[m] = c * m /\ m \in Int
    BY <1>2, <1>4 DEF Adds
  <2>2. c * (m + 1) = c * m + c
    BY <2>1
  <2> QED
    BY <1>1, <2>1, <2>2
<1> HIDE DEF T
<1>5. 0 .. WINDOW \subseteq T
  BY <1>1, <1>3, <1>4, UpTo
<1> QED
  BY <1>5 DEF T, a

-----------------------------------------------------------------------------
(* The statistics of a stream, part by part.                               *)

StatFields == {"dur", "idx", "n", "sum", "sq", "last", "delta", "cand", "ep"}

Squares(f) == [i \in DOMAIN f |-> f[i] * f[i]]

WindowOK(s) ==
    /\ s.dur \in [0 .. WINDOW - 1 -> Int] /\ s.idx \in 0 .. WINDOW - 1 /\ s.n \in 0 .. WINDOW
    /\ s.sum \in Int /\ s.sq \in Int
    /\ WindowExact(s)

(* A frame of a candidate takes a tick at least.                           *)
CandOK(c) ==
    /\ c \in [n : Nat, sum : Int, sq : Int, first : Int, skips : Nat, clean : Nat]
    /\ c.sum >= c.n
    /\ CandidateOpen(c)

EpisodeOK(e, last) ==
    /\ DOMAIN e = {"active", "alternations", "swing", "start", "last"}
    /\ e.active \in BOOLEAN /\ e.alternations \in Nat /\ e.start \in Int /\ e.last \in Int
    /\ e.active <=> e.alternations > 0
    /\ e.active => e.start <= e.last /\ e.last <= last
    /\ ~e.active => e = NoEpisode

StatsOK(s) ==
    /\ DOMAIN s = StatFields /\ s.last \in Int
    /\ WindowOK(s) /\ CandOK(s.cand) /\ EpisodeOK(s.ep, s.last)

LEMMA Window == WINDOW \in Nat \ {0}
  BY PacingAssumption

LEMMA Extremes ==
  ASSUME NEW a \in Int, NEW b \in Int
  PROVE  /\ Min({a, b}) \in {a, b} /\ Min({a, b}) <= a /\ Min({a, b}) <= b
         /\ Max({a, b}) \in {a, b} /\ Max({a, b}) >= a /\ Max({a, b}) >= b
<1>1. \E x \in {a, b} : \A y \in {a, b} : x <= y
  <2>1. CASE a <= b
    BY <2>1
  <2>2. CASE b <= a
    BY <2>2
  <2> QED
    BY <2>1, <2>2
<1>2. Min({a, b}) \in {a, b} /\ \A y \in {a, b} : Min({a, b}) <= y
  BY <1>1 DEF Min
<1>3. \E x \in {a, b} : \A y \in {a, b} : x >= y
  <2>1. CASE a <= b
    BY <2>1
  <2>2. CASE b <= a
    BY <2>2
  <2> QED
    BY <2>1, <2>2
<1>4. Max({a, b}) \in {a, b} /\ \A y \in {a, b} : Max({a, b}) >= y
  BY <1>3 DEF Max
<1> QED
  BY <1>2, <1>4

LEMMA Clamped ==
  ASSUME NEW d \in Int, NEW hi \in Int
  PROVE  Clamp(d, 1, hi) \in Int /\ Clamp(d, 1, hi) >= 1
<1>1. PICK m \in Int : m = Min({d, hi})
  BY Extremes
<1>2. Clamp(d, 1, hi) = Max({1, m})
  BY <1>1 DEF Clamp
<1> QED
  BY <1>1, <1>2, Extremes

LEMMA NoCandidateOK == CandOK(NoCandidate)
<1>1. NoCandidate.n = 0 /\ Variance(NoCandidate) = 0
  BY DEF NoCandidate, Variance
<1>2. PROMOTION_MIN_SAMPLES \in Nat /\ PROMOTION_MIN_SAMPLES >= 2 /\ CANDIDATE_MAX_SAMPLES \in Nat
      /\ MAX_CONSECUTIVE_SKIPS \in Nat /\ MAX_CLEAN_FRAMES \in Nat
  BY PacingAssumption
<1>3. NoCandidate \in [n : Nat, sum : Int, sq : Int, first : Int, skips : Nat, clean : Nat]
  BY DEF NoCandidate
<1>4. NoCandidate.skips = 0 /\ NoCandidate.clean = 0 /\ NoCandidate.sum = 0
  BY DEF NoCandidate
<1>5. CandidateOpen(NoCandidate)
  BY <1>1, <1>2, <1>4 DEF CandidateOpen
<1> QED
  BY <1>1, <1>3, <1>4, <1>5 DEF CandOK

LEMMA NoEpisodeOK == \A last : EpisodeOK(NoEpisode, last)
  BY DEF EpisodeOK, NoEpisode

(* A field at a time.                                                      *)
SameWindow(s, t) ==
  t.dur = s.dur /\ t.idx = s.idx /\ t.n = s.n /\ t.sum = s.sum /\ t.sq = s.sq

LEMMA WindowKept ==
  ASSUME NEW s, NEW t, WindowOK(s), SameWindow(s, t)
  PROVE  WindowOK(t)
  BY DEF WindowOK, WindowExact, SameWindow

LEMMA CandidateSet ==
  ASSUME NEW s, StatsOK(s), NEW c, CandOK(c)
  PROVE  StatsOK([s EXCEPT !.cand = c]) /\ [s EXCEPT !.cand = c].last = s.last
<1> DEFINE t == [s EXCEPT !.cand = c]
<1>1. /\ SameWindow(s, t) /\ t.last = s.last /\ t.ep = s.ep /\ t.cand = c
      /\ DOMAIN t = StatFields
  BY DEF StatsOK, StatFields, SameWindow
<1> HIDE DEF t
<1>2. StatsOK(t)
  BY <1>1, WindowKept DEF StatsOK
<1> QED
  BY <1>1, <1>2 DEF t

LEMMA EpisodeSet ==
  ASSUME NEW s, StatsOK(s), NEW e, EpisodeOK(e, s.last)
  PROVE  /\ StatsOK([s EXCEPT !.ep = e]) /\ [s EXCEPT !.ep = e].last = s.last
         /\ [s EXCEPT !.ep = e].ep = e
<1> DEFINE t == [s EXCEPT !.ep = e]
<1>1. /\ SameWindow(s, t) /\ t.last = s.last /\ t.ep = e /\ t.cand = s.cand
      /\ DOMAIN t = StatFields
  BY DEF StatsOK, StatFields, SameWindow
<1> HIDE DEF t
<1>2. StatsOK(t)
  BY <1>1, WindowKept DEF StatsOK
<1> QED
  BY <1>1, <1>2 DEF t

LEMMA DeltaSet ==
  ASSUME NEW s, StatsOK(s), NEW x
  PROVE  StatsOK([s EXCEPT !.delta = x]) /\ [s EXCEPT !.delta = x].last = s.last
<1> DEFINE t == [s EXCEPT !.delta = x]
<1>1. /\ SameWindow(s, t) /\ t.last = s.last /\ t.ep = s.ep /\ t.cand = s.cand
      /\ DOMAIN t = StatFields
  BY DEF StatsOK, StatFields, SameWindow
<1> HIDE DEF t
<1>2. StatsOK(t)
  BY <1>1, WindowKept DEF StatsOK
<1> QED
  BY <1>1, <1>2 DEF t

LEMMA ForwardOK ==
  ASSUME NEW s, StatsOK(s), NEW ts \in Int, s.last <= ts
  PROVE  StatsOK(Forward(s, ts))
         /\ Forward(s, ts).last = ts
<1> DEFINE t == [s EXCEPT !.last = ts]
<1>1. /\ SameWindow(s, t) /\ t.last = ts /\ t.ep = s.ep /\ t.cand = s.cand
      /\ DOMAIN t = StatFields
  BY DEF StatsOK, StatFields, SameWindow
<1>2. Forward(s, ts) = IF ts > s.last \/ s.last = 0 THEN t ELSE s
  BY DEF Forward
<1> HIDE DEF t
<1>3. EpisodeOK(s.ep, ts)
  BY DEF StatsOK, EpisodeOK
<1>4. StatsOK(t)
  BY <1>1, <1>3, WindowKept DEF StatsOK
<1>5. s.last \in Int
  BY DEF StatsOK
<1> QED
  BY <1>1, <1>2, <1>4, <1>5

-----------------------------------------------------------------------------
(* The window.                                                             *)

LEMMA SquaresInt ==
  ASSUME NEW f \in [0 .. WINDOW - 1 -> Int]
  PROVE  /\ Squares(f) \in [0 .. WINDOW - 1 -> Int]
         /\ \A i \in 0 .. WINDOW - 1 : Squares(f)[i] = f[i] * f[i]
  BY DEF Squares

LEMMA FreshOK ==
  ASSUME NEW ts \in Int
  PROVE  StatsOK(FreshStats(ts)) /\ FreshStats(ts).last = ts
<1> DEFINE s == FreshStats(ts)
<1>1. /\ DOMAIN s = StatFields /\ s.dur = [i \in 0 .. WINDOW - 1 |-> 0] /\ s.idx = 0 /\ s.n = 0
      /\ s.sum = 0 /\ s.sq = 0 /\ s.last = ts /\ s.cand = NoCandidate /\ s.ep = NoEpisode
  BY DEF FreshStats, StatFields
<1> HIDE DEF s
<1>2. s.dur \in [0 .. WINDOW - 1 -> Int] /\ \A i \in 0 .. WINDOW - 1 : s.dur[i] = 0
  BY <1>1
<1>3. Totals(s.dur)[0] = 0 /\ Totals(Squares(s.dur))[0] = 0
  <2>1. \A i \in 0 .. WINDOW - 1 : s.dur[i] \in Int /\ Squares(s.dur)[i] \in Int
    BY <1>2, SquaresInt
  <2>2. Adds(s.dur, Totals(s.dur), WINDOW) /\ Adds(Squares(s.dur), Totals(Squares(s.dur)), WINDOW)
    BY <2>1, TotalsAdd
  <2> QED
    BY <2>2 DEF Adds
<1>4. WindowExact(s)
  BY <1>1, <1>3 DEF WindowExact, Squares
<1>5. WindowOK(s)
  BY <1>1, <1>2, <1>4, Window DEF WindowOK
<1> QED
  BY <1>1, <1>5, NoCandidateOK, NoEpisodeOK DEF StatsOK, s

(* The sums of a window that takes a value for another.                    *)
LEMMA SumReplaced ==
  ASSUME NEW f, NEW h, \A i \in 0 .. WINDOW - 1 : f[i] \in Int /\ h[i] \in Int,
         NEW j \in 0 .. WINDOW - 1, \A i \in 0 .. WINDOW - 1 : i # j => h[i] = f[i]
  PROVE  /\ Totals(h)[WINDOW] = Totals(f)[WINDOW] - f[j] + h[j]
         /\ Totals(h)[j + 1] = Totals(f)[j] + h[j]
         /\ \A i \in 0 .. WINDOW : Totals(f)[i] \in Int
<1>1. \A n \in 0 .. WINDOW :
        Totals(h)[n] = Totals(f)[n] + (IF j < n THEN h[j] - f[j] ELSE 0)
  BY TotalsChange
<1>2. Adds(f, Totals(f), WINDOW)
  BY TotalsAdd
<1>3. \A i \in 0 .. WINDOW : Totals(f)[i] \in Int
  BY <1>2 DEF Adds
<1>4. /\ WINDOW \in 0 .. WINDOW /\ j \in 0 .. WINDOW /\ j + 1 \in 0 .. WINDOW
      /\ j < WINDOW /\ j < j + 1 /\ j \in Int /\ f[j] \in Int /\ h[j] \in Int
  BY Window
<1>5. Totals(f)[j + 1] = Totals(f)[j] + f[j]
  BY <1>2 DEF Adds
<1>6. Totals(h)[WINDOW] = Totals(f)[WINDOW] + (h[j] - f[j])
  BY <1>1, <1>4
<1>7. Totals(h)[j + 1] = Totals(f)[j + 1] + (h[j] - f[j])
  BY <1>1, <1>4
<1>8. Totals(f)[WINDOW] \in Int /\ Totals(f)[j] \in Int
  BY <1>3, <1>4
<1>9. Totals(h)[WINDOW] = Totals(f)[WINDOW] - f[j] + h[j]
  BY <1>4, <1>6, <1>8
<1>10. Totals(h)[j + 1] = Totals(f)[j] + h[j]
  BY <1>4, <1>5, <1>7, <1>8
<1> QED
  BY <1>3, <1>9, <1>10

(* What a frame does to the sums of a window and of its squares.           *)
Pushed(f, h, j, d) ==
  /\ Totals(h)[WINDOW] = Totals(f)[WINDOW] - f[j] + d
  /\ Totals(h)[j + 1] = Totals(f)[j] + d
  /\ Totals(Squares(h))[WINDOW] = Totals(Squares(f))[WINDOW] - f[j] * f[j] + d * d
  /\ Totals(Squares(h))[j + 1] = Totals(Squares(f))[j] + d * d

LEMMA SumsPushed ==
  ASSUME NEW f \in [0 .. WINDOW - 1 -> Int], NEW j \in 0 .. WINDOW - 1, NEW d \in Int
  PROVE  Pushed(f, [f EXCEPT ![j] = d], j, d)
<1> DEFINE h == [f EXCEPT ![j] = d]
<1>1. /\ h \in [0 .. WINDOW - 1 -> Int] /\ h[j] = d
      /\ \A i \in 0 .. WINDOW - 1 : i # j => h[i] = f[i]
  OBVIOUS
<1> HIDE DEF h
<1>2. \A i \in 0 .. WINDOW - 1 : f[i] \in Int /\ h[i] \in Int
  BY <1>1
<1>3. /\ Totals(h)[WINDOW] = Totals(f)[WINDOW] - f[j] + h[j]
      /\ Totals(h)[j + 1] = Totals(f)[j] + h[j]
  <2> DEFINE a == f
             b == h
  <2>1. /\ \A i \in 0 .. WINDOW - 1 : a[i] \in Int /\ b[i] \in Int
        /\ \A i \in 0 .. WINDOW - 1 : i # j => b[i] = a[i]
    BY <1>1, <1>2
  <2> HIDE DEF a, b
  <2>2. /\ Totals(b)[WINDOW] = Totals(a)[WINDOW] - a[j] + b[j]
        /\ Totals(b)[j + 1] = Totals(a)[j] + b[j]
    BY <2>1, SumReplaced
  <2> QED
    BY <2>2 DEF a, b
<1>4. /\ \A i \in 0 .. WINDOW - 1 : Squares(f)[i] \in Int /\ Squares(h)[i] \in Int
      /\ \A i \in 0 .. WINDOW - 1 : Squares(f)[i] = f[i] * f[i]
      /\ \A i \in 0 .. WINDOW - 1 : Squares(h)[i] = h[i] * h[i]
  <2>1. Squares(f) \in [0 .. WINDOW - 1 -> Int] /\ Squares(h) \in [0 .. WINDOW - 1 -> Int]
    BY <1>1, SquaresInt
  <2>2. /\ \A i \in 0 .. WINDOW - 1 : Squares(f)[i] = f[i] * f[i]
        /\ \A i \in 0 .. WINDOW - 1 : Squares(h)[i] = h[i] * h[i]
    BY <1>1, SquaresInt
  <2> QED
    BY <2>1, <2>2
<1>5. \A i \in 0 .. WINDOW - 1 : i # j => Squares(h)[i] = Squares(f)[i]
  BY <1>1, <1>4
<1> DEFINE a == Squares(f)
           b == Squares(h)
<1>6. a[j] = f[j] * f[j] /\ b[j] = d * d
  BY <1>1, <1>4
<1>7. /\ \A i \in 0 .. WINDOW - 1 : a[i] \in Int /\ b[i] \in Int
      /\ \A i \in 0 .. WINDOW - 1 : i # j => b[i] = a[i]
  BY <1>4, <1>5
<1> HIDE DEF a, b
<1>8. /\ Totals(b)[WINDOW] = Totals(a)[WINDOW] - a[j] + b[j]
      /\ Totals(b)[j + 1] = Totals(a)[j] + b[j]
  BY <1>7, SumReplaced
<1> QED
  BY <1>1, <1>3, <1>6, <1>8 DEF a, b, h, Pushed

LEMMA SumsInt ==
  ASSUME NEW f \in [0 .. WINDOW - 1 -> Int], NEW n \in 0 .. WINDOW
  PROVE  Totals(f)[n] \in Int /\ Totals(Squares(f))[n] \in Int
<1>1. Adds(f, Totals(f), WINDOW)
  BY TotalsAdd
<1>2. \A i \in 0 .. WINDOW - 1 : Squares(f)[i] \in Int
  BY SquaresInt
<1>3. Adds(Squares(f), Totals(Squares(f)), WINDOW)
  BY <1>2, TotalsAdd
<1> QED
  BY <1>1, <1>3 DEF Adds

LEMMA PushOK ==
  ASSUME NEW s, StatsOK(s), NEW d \in Int, d >= 1, NEW ts \in Int, s.last <= ts
  PROVE  StatsOK(Push(s, d, ts)) /\ Push(s, d, ts).last = ts
<1> DEFINE old == IF s.n = WINDOW THEN s.dur[s.idx] ELSE 0
           n == Min({WINDOW, s.n + 1})
           dur == [s.dur EXCEPT ![s.idx] = d]
           sum == s.sum - old + d
           sq == s.sq - old * old + d * d
           idx == (s.idx + 1) % WINDOW
           t == [s EXCEPT !.n = n, !.dur = dur, !.sum = sum, !.sq = sq, !.idx = idx,
                          !.delta = CadenceDelta(s, d)]
<1>1. Push(s, d, ts) = Forward(t, ts)
  BY DEF Push, StatsOK, StatFields
<1>2. /\ DOMAIN t = StatFields /\ t.n = n /\ t.dur = dur /\ t.sum = sum /\ t.sq = sq
      /\ t.idx = idx /\ t.last = s.last /\ t.cand = s.cand /\ t.ep = s.ep
  BY DEF StatsOK, StatFields
<1>3. /\ s.dur \in [0 .. WINDOW - 1 -> Int] /\ s.idx \in 0 .. WINDOW - 1 /\ s.n \in 0 .. WINDOW
      /\ s.sum \in Int /\ s.sq \in Int
      /\ s.n < WINDOW => s.idx = s.n
      /\ s.sum = Totals(s.dur)[s.n] /\ s.sq = Totals(Squares(s.dur))[s.n]
      /\ \A i \in 0 .. s.n - 1 : s.dur[i] > 0
  BY DEF StatsOK, WindowOK, WindowExact, Squares
<1>4. dur \in [0 .. WINDOW - 1 -> Int] /\ dur[s.idx] = d
      /\ \A i \in 0 .. WINDOW - 1 : i # s.idx => dur[i] = s.dur[i]
  BY <1>3
<1> HIDE DEF dur, t
<1>5. d * d \in Int /\ s.dur[s.idx] \in Int /\ s.dur[s.idx] * s.dur[s.idx] \in Int
  <2>1. PICK o \in Int : o = s.dur[s.idx]
    BY <1>3
  <2>2. d * d \in Int /\ o * o \in Int
    OBVIOUS
  <2> QED
    BY <2>1, <2>2
<1>6. /\ Totals(dur)[WINDOW] = Totals(s.dur)[WINDOW] - s.dur[s.idx] + d
      /\ Totals(dur)[s.idx + 1] = Totals(s.dur)[s.idx] + d
      /\ Totals(Squares(dur))[WINDOW]
           = Totals(Squares(s.dur))[WINDOW] - s.dur[s.idx] * s.dur[s.idx] + d * d
      /\ Totals(Squares(dur))[s.idx + 1] = Totals(Squares(s.dur))[s.idx] + d * d
  <2> DEFINE f == s.dur
             j == s.idx
  <2>1. f \in [0 .. WINDOW - 1 -> Int] /\ j \in 0 .. WINDOW - 1
        /\ dur = [f EXCEPT ![j] = d]
    BY <1>3 DEF dur
  <2> HIDE DEF f, j
  <2>2. Pushed(f, dur, j, d)
    BY <2>1, SumsPushed
  <2> QED
    BY <2>2 DEF f, j, Pushed
<1>7. /\ n \in 0 .. WINDOW /\ (s.n < WINDOW => n = s.n + 1) /\ (s.n = WINDOW => n = WINDOW)
      /\ (n < WINDOW => s.n < WINDOW)
  <2>1. s.n + 1 \in Int /\ WINDOW \in Int
    BY <1>3, Window
  <2>2. n \in {WINDOW, s.n + 1} /\ n <= WINDOW /\ n <= s.n + 1
    BY <2>1, Extremes
  <2> HIDE DEF n
  <2> QED
    BY <1>3, <2>2, Window
<1> HIDE DEF n
<1>8. idx \in 0 .. WINDOW - 1 /\ (s.idx + 1 < WINDOW => idx = s.idx + 1)
  <2>1. PICK w \in Nat \ {0} : w = WINDOW
    BY Window
  <2>2. PICK x \in Nat : x = s.idx + 1
    BY <1>3
  <2>3. idx = x % w
    BY <2>1, <2>2
  <2>4. x % w \in 0 .. w - 1 /\ (x < w => x % w = x)
    OBVIOUS
  <2> QED
    BY <2>1, <2>2, <2>3, <2>4
<1> HIDE DEF idx
<1>9. n < WINDOW => idx = n
  BY <1>3, <1>7, <1>8, Window
<1>10. sum \in Int /\ sum = Totals(dur)[n] /\ sq \in Int /\ sq = Totals(Squares(dur))[n]
  <2> DEFINE x == d * d
             o == s.dur[s.idx]
             y == o * o
  <2>1. x \in Int /\ o \in Int /\ y \in Int
    BY <1>5
  <2>2. CASE s.n = WINDOW
    <3>1. sum = s.sum - o + d /\ sq = s.sq - y + x
      BY <2>2
    <3> HIDE DEF sum, sq
    <3>2. n = WINDOW /\ s.sum = Totals(s.dur)[WINDOW] /\ s.sq = Totals(Squares(s.dur))[WINDOW]
      BY <1>3, <1>7, <2>2
    <3>3. /\ Totals(dur)[WINDOW] = Totals(s.dur)[WINDOW] - o + d
          /\ Totals(Squares(dur))[WINDOW] = Totals(Squares(s.dur))[WINDOW] - y + x
      BY <1>6
    <3>4. s.sum \in Int /\ s.sq \in Int
      BY <1>3
    <3> HIDE DEF x, o, y
    <3> QED
      BY <2>1, <3>1, <3>2, <3>3, <3>4
  <2>3. CASE s.n < WINDOW
    <3>1. sum = s.sum + d /\ sq = s.sq + x
      <4>1. old = 0 /\ old * old = 0
        BY <1>3, <2>3, Window
      <4> DEFINE p == old * old
      <4>2. sum = s.sum - old + d /\ sq = s.sq - p + x
        OBVIOUS
      <4>3. p = 0
        BY <4>1
      <4> HIDE DEF sum, sq, old, x, p
      <4> QED
        BY <1>3, <2>1, <4>1, <4>2, <4>3
    <3> HIDE DEF sum, sq
    <3>2. /\ n = s.idx + 1 /\ s.sum = Totals(s.dur)[s.idx] /\ s.sq = Totals(Squares(s.dur))[s.idx]
      BY <1>3, <1>7, <2>3
    <3>3. /\ Totals(dur)[s.idx + 1] = Totals(s.dur)[s.idx] + d
          /\ Totals(Squares(dur))[s.idx + 1] = Totals(Squares(s.dur))[s.idx] + x
      BY <1>6
    <3>4. s.sum \in Int /\ s.sq \in Int
      BY <1>3
    <3> HIDE DEF x, o, y
    <3> QED
      BY <2>1, <3>1, <3>2, <3>3, <3>4
  <2> QED
    BY <1>3, <2>2, <2>3, Window
<1> HIDE DEF sum, sq
<1>11. \A i \in 0 .. n - 1 : dur[i] > 0
  <2> TAKE i \in 0 .. n - 1
  <2>1. CASE i = s.idx
    BY <1>4, <2>1
  <2>2. CASE i # s.idx
    <3>1. i \in 0 .. s.n - 1 /\ i \in 0 .. WINDOW - 1
      <4>1. CASE s.n = WINDOW
        BY <1>7, <4>1, Window
      <4>2. CASE s.n < WINDOW
        BY <1>3, <1>7, <2>2, <4>2, Window
      <4> QED
        BY <1>3, <4>1, <4>2, Window
    <3> QED
      BY <1>3, <1>4, <2>2, <3>1
  <2> QED
    BY <2>1, <2>2
<1>12. WindowExact(t)
  BY <1>2, <1>9, <1>10, <1>11 DEF WindowExact, Squares
<1>13. StatsOK(t)
  BY <1>2, <1>4, <1>7, <1>8, <1>10, <1>12 DEF StatsOK, WindowOK
<1> QED
  BY <1>1, <1>2, <1>13, ForwardOK

-----------------------------------------------------------------------------
(* Candidates.                                                             *)

(* n times the sum of squares is at least the square of the sum: the       *)
(* growth of the difference, n times over, is that difference and a square. *)
LEMMA VarianceGrows ==
  ASSUME NEW n \in Nat \ {0}, NEW a \in Int, NEW q \in Int, NEW d \in Int, n * q - a * a >= 0
  PROVE  (n + 1) * (q + d * d) - (a + d) * (a + d) >= 0
<1> DEFINE v == n * q - a * a
           g == q + n * (d * d) - 2 * (a * d)
           x == n * d - a
<1>1. v \in Int /\ g \in Int /\ x \in Int /\ x * x \in Int /\ n * g \in Int
  OBVIOUS
<1>2. (n + 1) * (q + d * d) - (a + d) * (a + d) = v + g
  OBVIOUS
<1>3. n * g = v + x * x
  OBVIOUS
<1>4. x * x >= 0
  <2>1. PICK y \in Int : y = x
    BY <1>1
  <2>2. y * y >= 0
    OBVIOUS
  <2> QED
    BY <2>1, <2>2
<1> HIDE DEF v, g, x
<1>5. v >= 0
  BY DEF v
<1>6. n * g >= 0
  BY <1>1, <1>3, <1>4, <1>5
<1>7. g >= 0
  <2> SUFFICES ASSUME g <= -1 PROVE FALSE
    BY <1>1
  <2>1. n * g <= -n
    BY <1>1
  <2> QED
    BY <1>1, <1>6, <2>1
<1> QED
  BY <1>1, <1>2, <1>5, <1>7

LEMMA Quotient ==
  ASSUME NEW a \in Int, NEW n \in Nat \ {0}, a >= n
  PROVE  a \div n \in Int /\ a \div n >= 1
  OBVIOUS

LEMMA CandidateBounds ==
  /\ PROMOTION_MIN_SAMPLES \in Nat /\ PROMOTION_MIN_SAMPLES >= 2
  /\ CANDIDATE_MAX_SAMPLES \in Nat /\ PROMOTION_MIN_SAMPLES <= CANDIDATE_MAX_SAMPLES
  /\ MAX_CONSECUTIVE_SKIPS \in Nat /\ MAX_CLEAN_FRAMES \in Nat
  BY PacingAssumption

LEMMA SteadyKept ==
  ASSUME NEW c, NEW e, e.n = c.n, e.sum = c.sum, e.sq = c.sq
  PROVE  Variance(e) = Variance(c) /\ (Steady(e) <=> Steady(c))
<1>1. Variance(e) = Variance(c) /\ MeanOf(e) = MeanOf(c)
  BY DEF Variance, MeanOf
<1>2. SigmaTicks(e) = SigmaTicks(c)
  BY <1>1 DEF SigmaTicks
<1> QED
  BY <1>1, <1>2 DEF Steady

(* A candidate keeps its frames while near misses and clean ones count.    *)
LEMMA CandidateKept ==
  ASSUME NEW c, CandOK(c), c.n # 0, NEW skips \in Nat, NEW clean \in Nat,
         skips <= MAX_CONSECUTIVE_SKIPS, clean <= MAX_CLEAN_FRAMES
  PROVE  CandOK([c EXCEPT !.skips = skips, !.clean = clean])
<1> DEFINE e == [c EXCEPT !.skips = skips, !.clean = clean]
<1>1. /\ e \in [n : Nat, sum : Int, sq : Int, first : Int, skips : Nat, clean : Nat]
      /\ e.n = c.n /\ e.sum = c.sum /\ e.sq = c.sq /\ e.skips = skips /\ e.clean = clean
  BY DEF CandOK
<1> HIDE DEF e
<1>2. Variance(e) = Variance(c) /\ (Steady(e) <=> Steady(c))
  BY <1>1, SteadyKept
<1>3. CandidateOpen(e)
  BY <1>1, <1>2 DEF CandOK, CandidateOpen
<1> QED
  BY <1>1, <1>3 DEF CandOK, e

LEMMA SeededOK ==
  ASSUME NEW d \in Int, d >= 1, NEW ts \in Int
  PROVE  CandOK(Seeded(d, ts))
<1> DEFINE q == d * d
           e == [n |-> 1, sum |-> d, sq |-> q, first |-> ts, skips |-> 0, clean |-> 0]
<1>1. q \in Int
  OBVIOUS
<1>2. Seeded(d, ts) = [NoCandidate EXCEPT !.n = 1, !.sum = d, !.sq = q, !.first = ts]
  BY DEF Seeded
<1>3. Variance(e) = 1 * q - q
  BY DEF Variance
<1> HIDE DEF q
<1>4. Seeded(d, ts) = e
  BY <1>2 DEF NoCandidate
<1>5. /\ e \in [n : Nat, sum : Int, sq : Int, first : Int, skips : Nat, clean : Nat]
      /\ e.n = 1 /\ e.sum = d /\ e.skips = 0 /\ e.clean = 0
  BY <1>1
<1> HIDE DEF e
<1>6. Variance(e) >= 0
  BY <1>1, <1>3
<1>7. CandidateOpen(e)
  BY <1>5, <1>6, CandidateBounds DEF CandidateOpen
<1> QED
  BY <1>4, <1>5, <1>7 DEF CandOK

(* A frame more, unless the candidate is full.                             *)
Grown(c, d) ==
  [n |-> c.n + 1, sum |-> c.sum + d, sq |-> c.sq + d * d, first |-> c.first,
   skips |-> 0, clean |-> 0]

LEMMA GrownOK ==
  ASSUME NEW c, CandOK(c), c.n # 0, c.n < CANDIDATE_MAX_SAMPLES, NEW d \in Int, d >= 1
  PROVE  LET e == Grown(c, d) IN
         /\ e.n \in Nat \ {0} /\ e.sum \in Int /\ e.sum >= e.n
         /\ ~(e.n >= PROMOTION_MIN_SAMPLES /\ Steady(e)) => CandOK(e)
<1> DEFINE q == d * d
           e == [n |-> c.n + 1, sum |-> c.sum + d, sq |-> c.sq + q, first |-> c.first,
                 skips |-> 0, clean |-> 0]
<1>1. q \in Int
  OBVIOUS
<1>2. /\ c \in [n : Nat, sum : Int, sq : Int, first : Int, skips : Nat, clean : Nat]
      /\ c.sum >= c.n /\ CandidateOpen(c)
  BY DEF CandOK
<1>3. Grown(c, d) = e
  BY DEF Grown
<1> HIDE DEF q
<1>4. /\ e \in [n : Nat, sum : Int, sq : Int, first : Int, skips : Nat, clean : Nat]
      /\ e.n = c.n + 1 /\ e.sum = c.sum + d /\ e.sq = c.sq + q /\ e.skips = 0 /\ e.clean = 0
  BY <1>1, <1>2
<1> HIDE DEF e
<1>5. Variance(e) >= 0
  <2>1. c.n * c.sq - c.sum * c.sum >= 0
    BY <1>2 DEF CandidateOpen, Variance
  <2>2. PICK n \in Nat \ {0}, a \in Int, b \in Int : n = c.n /\ a = c.sum /\ b = c.sq
    BY <1>2
  <2>3. (n + 1) * (b + d * d) - (a + d) * (a + d) >= 0
    BY <2>1, <2>2, VarianceGrows
  <2>4. Variance(e) = (n + 1) * (b + d * d) - (a + d) * (a + d)
    BY <1>4, <2>2 DEF Variance, q
  <2> QED
    BY <2>3, <2>4
<1>6. e.n \in 1 .. CANDIDATE_MAX_SAMPLES /\ e.sum >= e.n
  BY <1>2, <1>4, CandidateBounds
<1>7. ASSUME ~(e.n >= PROMOTION_MIN_SAMPLES /\ Steady(e)) PROVE CandOK(e)
  <2>1. CandidateOpen(e)
    BY <1>4, <1>5, <1>6, <1>7, CandidateBounds DEF CandidateOpen
  <2> QED
    BY <1>4, <1>6, <2>1 DEF CandOK
<1>8. e.n \in Nat \ {0} /\ e.sum \in Int
  BY <1>2, <1>4, <1>6
<1> QED
  BY <1>3, <1>6, <1>7, <1>8

LEMMA PromotedOK ==
  ASSUME NEW s, StatsOK(s), NEW seed \in Int, seed >= 1
  PROVE  StatsOK(Promoted(s, seed)) /\ Promoted(s, seed).last = s.last
<1> DEFINE q == seed * seed
           dur == [i \in 0 .. WINDOW - 1 |-> seed]
           t == [s EXCEPT !.dur = dur, !.sum = seed * WINDOW, !.sq = q * WINDOW, !.n = WINDOW,
                          !.idx = 0, !.cand = NoCandidate]
<1>1. q \in Int
  OBVIOUS
<1>2. Promoted(s, seed) = t
  BY DEF Promoted
<1>3. /\ DOMAIN t = StatFields /\ t.dur = dur /\ t.sum = seed * WINDOW /\ t.sq = q * WINDOW
      /\ t.n = WINDOW /\ t.idx = 0 /\ t.cand = NoCandidate /\ t.last = s.last /\ t.ep = s.ep
  BY DEF StatsOK, StatFields
<1> HIDE DEF t
<1>4. /\ dur \in [0 .. WINDOW - 1 -> Int]
      /\ \A i \in 0 .. WINDOW - 1 : dur[i] = seed
  OBVIOUS
<1>5. \A i \in 0 .. WINDOW - 1 : Squares(dur)[i] = q
  BY <1>4 DEF Squares
<1> HIDE DEF dur, q
<1>6. Totals(dur)[WINDOW] = seed * WINDOW
  BY <1>4, TotalsOfOne, Window
<1>7. Totals(Squares(dur))[WINDOW] = q * WINDOW
  <2> DEFINE f == Squares(dur)
  <2>1. \A i \in 0 .. WINDOW - 1 : f[i] = q
    BY <1>5
  <2> HIDE DEF f
  <2>2. Totals(f)[WINDOW] = q * WINDOW
    BY <1>1, <2>1, TotalsOfOne, Window
  <2> QED
    BY <2>2 DEF f
<1>8. seed * WINDOW \in Int /\ q * WINDOW \in Int
  BY <1>1, Window
<1>9. WindowExact(t)
  <2>1. \A i \in 0 .. t.n - 1 : t.dur[i] > 0
    BY <1>3, <1>4
  <2>2. t.sum = Totals(t.dur)[t.n] /\ t.sq = Totals(Squares(t.dur))[t.n]
    BY <1>3, <1>6, <1>7
  <2>3. ~(t.n < WINDOW)
    BY <1>3, Window
  <2> QED
    BY <2>1, <2>2, <2>3 DEF WindowExact, Squares
<1>10. WindowOK(t)
  <2>1. t.idx \in 0 .. WINDOW - 1 /\ t.n \in 0 .. WINDOW
    BY <1>3, Window
  <2> QED
    BY <1>3, <1>4, <1>8, <1>9, <2>1 DEF WindowOK
<1> QED
  BY <1>2, <1>3, <1>10, NoCandidateOK DEF StatsOK

(* process_cadence_candidate keeps the window, or replaces it whole.       *)
LEMMA ProcessOK ==
  ASSUME NEW s, StatsOK(s), NEW d \in Int, d >= 1, NEW ts \in Int
  PROVE  LET p == ProcessCandidate(s, d, ts) IN StatsOK(p.s) /\ p.s.last = s.last
<1> DEFINE b == s.cand
           c == [s.cand EXCEPT !.clean = 0]
           dev == Deviation(s, d)
           tol == Max({1500, (MeanOf(c) * 15) \div 100})
           p == ProcessCandidate(s, d, ts)
           With(e) == [s EXCEPT !.cand = e]
           Becomes(e) == p.s = With(e)
<1> SUFFICES StatsOK(p.s) /\ p.s.last = s.last
  OBVIOUS
<1>1. /\ CandOK(b) /\ b \in [n : Nat, sum : Int, sq : Int, first : Int, skips : Nat, clean : Nat]
      /\ b.sum >= b.n /\ b.skips <= MAX_CONSECUTIVE_SKIPS
  BY DEF StatsOK, CandOK, CandidateOpen
<1>2. /\ c \in [n : Nat, sum : Int, sq : Int, first : Int, skips : Nat, clean : Nat]
      /\ c.n = b.n /\ c.sum = b.sum /\ c.skips = b.skips
  BY <1>1
<1>3. [c EXCEPT !.skips = 0, !.n = @ + 1, !.sum = @ + d, !.sq = @ + d * d] = Grown(b, d)
  <2> DEFINE Rec == [n : Nat, sum : Int, sq : Int, first : Int, skips : Nat, clean : Nat]
  <2>1. ASSUME NEW q \in Int
        PROVE  [c EXCEPT !.skips = 0, !.n = @ + 1, !.sum = @ + d, !.sq = @ + q]
                 = [n |-> b.n + 1, sum |-> b.sum + d, sq |-> b.sq + q, first |-> b.first,
                    skips |-> 0, clean |-> 0]
    <3> DEFINE e == [c EXCEPT !.skips = 0, !.n = @ + 1, !.sum = @ + d, !.sq = @ + q]
               g == [n |-> b.n + 1, sum |-> b.sum + d, sq |-> b.sq + q, first |-> b.first,
                     skips |-> 0, clean |-> 0]
    <3>1. /\ c \in Rec /\ b \in Rec /\ c.n = b.n /\ c.sum = b.sum /\ c.sq = b.sq
          /\ c.first = b.first /\ c.clean = 0
      BY <1>1
    <3> HIDE DEF b, c
    <3>2. /\ e \in Rec /\ e.n = c.n + 1 /\ e.sum = c.sum + d /\ e.sq = c.sq + q
          /\ e.first = c.first /\ e.skips = 0 /\ e.clean = c.clean
      <4>1. e \in Rec
        <5>1. ASSUME NEW n \in Nat, NEW sum \in Int, NEW sq \in Int
              PROVE  [c EXCEPT !.skips = 0, !.n = n, !.sum = sum, !.sq = sq] \in Rec
          BY <3>1
        <5>2. c.n + 1 \in Nat /\ c.sum + d \in Int /\ c.sq + q \in Int
          BY <3>1
        <5> HIDE DEF Rec
        <5> QED
          BY <5>1, <5>2, Zenon
      <4>2. /\ e.n = c.n + 1 /\ e.sum = c.sum + d /\ e.sq = c.sq + q
            /\ e.first = c.first /\ e.skips = 0 /\ e.clean = c.clean
        BY <3>1
      <4> QED
        BY <4>1, <4>2
    <3>3. g \in Rec
      BY <3>1
    <3>4. /\ g.n = b.n + 1 /\ g.sum = b.sum + d /\ g.sq = b.sq + q
          /\ g.first = b.first /\ g.skips = 0 /\ g.clean = 0
      OBVIOUS
    <3> HIDE DEF e, g
    <3>5. e = g
      BY <3>1, <3>2, <3>3, <3>4
    <3> QED
      BY <3>5 DEF e, g
  <2>2. d * d \in Int
    OBVIOUS
  <2> QED
    BY <2>1, <2>2 DEF Grown
<1>4. [c EXCEPT !.skips = c.skips + 1] = [b EXCEPT !.skips = b.skips + 1, !.clean = 0]
  BY <1>1, <1>2
<1>5. c.n > 0 => dev \in Int /\ tol \in Int
  <2> SUFFICES ASSUME c.n > 0 PROVE dev \in Int /\ tol \in Int
    OBVIOUS
  <2>1. MeanOf(c) \in Int /\ MeanOf(s.cand) \in Int
    <3>1. PICK n \in Nat \ {0}, a \in Int : n = c.n /\ a = TICK * c.sum
      BY <1>2 DEF TICK
    <3>2. a \div n \in Int
      OBVIOUS
    <3> QED
      BY <1>2, <3>1, <3>2 DEF MeanOf
  <2>2. dev \in Int
    BY <2>1 DEF Deviation, Abs, TICK
  <2>3. PICK m \in Int : m = (MeanOf(c) * 15) \div 100
    BY <2>1
  <2>4. Max({1500, m}) \in Int
    BY Extremes
  <2> QED
    BY <2>2, <2>3, <2>4
<1> HIDE DEF dev, tol
<1>6. \/ Becomes(Seeded(d, ts))
      \/ Becomes(NoCandidate)
      \/ c.n > 0 /\ ~(c.skips + 1 > MAX_CONSECUTIVE_SKIPS)
         /\ Becomes([c EXCEPT !.skips = c.skips + 1])
      \/ /\ c.n # 0 /\ ~(dev > 2 * tol) /\ ~(dev > tol /\ dev <= 2 * tol)
         /\ ~(dev <= tol /\ c.n >= CANDIDATE_MAX_SAMPLES)
         /\ LET g == Grown(b, d) IN
              IF g.n >= PROMOTION_MIN_SAMPLES /\ Steady(g)
              THEN p.s = Promoted(s, g.sum \div g.n) ELSE Becomes(g)
  <2> DEFINE g == [c EXCEPT !.skips = 0, !.n = @ + 1, !.sum = @ + d, !.sq = @ + d * d]
             u == [c EXCEPT !.skips = @ + 1]
             sd == Seeded(d, ts)
             Outcome(o, cand) == [outcome |-> o, s |-> With(cand)]
  <2>1. p = CASE c.n = 0 -> Outcome("SEEDED", sd)
              [] c.n > 0 /\ dev > 2 * tol -> Outcome("RESET", NoCandidate)
              [] c.n > 0 /\ dev > tol /\ dev <= 2 * tol ->
                   IF c.skips + 1 > MAX_CONSECUTIVE_SKIPS
                   THEN Outcome("STALLED", NoCandidate) ELSE Outcome("SKIPPED", u)
              [] c.n > 0 /\ dev <= tol /\ c.n >= CANDIDATE_MAX_SAMPLES ->
                   Outcome("SEEDED", sd)
              [] OTHER ->
                   IF g.n >= PROMOTION_MIN_SAMPLES /\ Steady(g)
                   THEN [outcome |-> "PROMOTED", s |-> Promoted(s, g.sum \div g.n)]
                   ELSE Outcome("ACCUMULATED", g)
    BY DEF ProcessCandidate, dev, tol
  <2>2. u = [c EXCEPT !.skips = c.skips + 1]
    OBVIOUS
  <2>3. g = Grown(b, d) /\ c.n \in Nat
    BY <1>2, <1>3
  <2> HIDE DEF g, u, c, p, b, With
  <2>4. c.n # 0 => dev \in Int /\ tol \in Int
    BY <1>5, <2>3
  <2>5. CASE c.n = 0
    BY <2>1, <2>3, <2>5
  <2>6. CASE c.n # 0 /\ dev > 2 * tol
    BY <2>1, <2>3, <2>4, <2>6
  <2>7. CASE c.n # 0 /\ ~(dev > 2 * tol) /\ dev > tol /\ dev <= 2 * tol
    BY <2>1, <2>2, <2>3, <2>7
  <2>8. CASE c.n # 0 /\ ~(dev > 2 * tol) /\ ~(dev > tol /\ dev <= 2 * tol)
    BY <2>1, <2>3, <2>8
  <2> QED
    BY <2>6, <2>7, <2>8, <2>5
<1>7. ASSUME NEW e, CandOK(e), Becomes(e) PROVE StatsOK(p.s) /\ p.s.last = s.last
  BY <1>7, CandidateSet
<1> HIDE DEF p, With
<1>8. CASE Becomes(Seeded(d, ts))
  BY <1>7, <1>8, SeededOK
<1>9. CASE Becomes(NoCandidate)
  BY <1>7, <1>9, NoCandidateOK
<1>10. CASE c.n > 0 /\ ~(c.skips + 1 > MAX_CONSECUTIVE_SKIPS)
            /\ Becomes([c EXCEPT !.skips = c.skips + 1])
  <2>1. b.n # 0 /\ b.skips + 1 \in Nat /\ b.skips + 1 <= MAX_CONSECUTIVE_SKIPS
    BY <1>1, <1>2, <1>10, CandidateBounds
  <2>2. CandOK([b EXCEPT !.skips = b.skips + 1, !.clean = 0])
    <3>1. CandOK(b) /\ b.n # 0 /\ b.skips + 1 \in Nat /\ 0 \in Nat
          /\ b.skips + 1 <= MAX_CONSECUTIVE_SKIPS /\ 0 <= MAX_CLEAN_FRAMES
      BY <1>1, <2>1, CandidateBounds
    <3> DEFINE k == b.skips + 1
    <3> HIDE DEF b, k
    <3>2. CandOK([b EXCEPT !.skips = k, !.clean = 0])
      BY <3>1, CandidateKept DEF k
    <3> QED
      BY <3>2 DEF k
  <2> QED
    BY <1>4, <1>7, <1>10, <2>2
<1>11. CASE /\ c.n # 0 /\ ~(dev > 2 * tol) /\ ~(dev > tol /\ dev <= 2 * tol)
            /\ ~(dev <= tol /\ c.n >= CANDIDATE_MAX_SAMPLES)
            /\ LET g == Grown(b, d) IN
                 IF g.n >= PROMOTION_MIN_SAMPLES /\ Steady(g)
                 THEN p.s = Promoted(s, g.sum \div g.n) ELSE Becomes(g)
  <2> DEFINE g == Grown(b, d)
  <2>1. b.n # 0 /\ b.n < CANDIDATE_MAX_SAMPLES
    BY <1>2, <1>5, <1>11, CandidateBounds
  <2>2. /\ g.n \in Nat \ {0} /\ g.sum \in Int /\ g.sum >= g.n
        /\ ~(g.n >= PROMOTION_MIN_SAMPLES /\ Steady(g)) => CandOK(g)
    BY <1>1, <2>1, GrownOK
  <2> HIDE DEF g
  <2>3. CASE g.n >= PROMOTION_MIN_SAMPLES /\ Steady(g)
    <3>1. g.sum \div g.n \in Int /\ g.sum \div g.n >= 1
      BY <2>2, Quotient
    <3>2. p.s = Promoted(s, g.sum \div g.n)
      BY <1>11, <2>3 DEF g
    <3> QED
      BY <3>1, <3>2, PromotedOK
  <2>4. CASE ~(g.n >= PROMOTION_MIN_SAMPLES /\ Steady(g))
    BY <1>7, <1>11, <2>2, <2>4 DEF g
  <2> QED
    BY <2>3, <2>4
<1> QED
  BY <1>6, <1>8, <1>9, <1>10, <1>11

-----------------------------------------------------------------------------
(* A frame, phase by phase.                                                *)

(* Statistics that a frame of time ts may meet.                            *)
Fit(s, ts) == StatsOK(s) /\ s.last <= ts

ResultFields == {"s", "reason", "baseline", "ratio", "alternations", "swing", "ts", "dur"}

JudgedOK(r, ts) ==
  DOMAIN r = ResultFields /\ r.ts \in Int /\ r.dur \in Int /\ Fit(r.s, ts)

LEMMA ResultOK ==
  ASSUME NEW s, NEW ts, Fit(s, ts), NEW reason, NEW base, NEW ratio
  PROVE  JudgedOK(Result(s, reason, base, ratio), ts)
  BY DEF JudgedOK, Result, ResultFields

LEMMA NoStutterOK ==
  ASSUME NEW s, NEW ts, Fit(s, ts), NEW base, NEW ratio
  PROVE  JudgedOK(NoStutter(s, base, ratio), ts)
  BY ResultOK, Zenon DEF NoStutter

LEMMA ResetFit ==
  ASSUME NEW s, NEW ts, Fit(s, ts)
  PROVE  Fit(ResetCadence(s), ts)
<1>1. CASE s.ep.active
  BY <1>1 DEF ResetCadence
<1>2. CASE ~s.ep.active
  <2>1. StatsOK([s EXCEPT !.delta = 0]) /\ [s EXCEPT !.delta = 0].last = s.last
    BY DeltaSet DEF Fit
  <2> QED
    BY <1>2, <2>1 DEF Fit, ResetCadence
<1> QED
  BY <1>1, <1>2

LEMMA CandidateFit ==
  ASSUME NEW s, NEW ts, Fit(s, ts), NEW c, CandOK(c)
  PROVE  Fit([s EXCEPT !.cand = c], ts)
  BY CandidateSet DEF Fit

LEMMA SweptFit ==
  ASSUME NEW s, NEW ts, Fit(s, ts)
  PROVE  Fit(Swept(s, ts), ts) /\ Swept(s, ts).last = s.last
<1>1. Fit([s EXCEPT !.cand = NoCandidate], ts) /\ [s EXCEPT !.cand = NoCandidate].last = s.last
  BY CandidateSet, NoCandidateOK DEF Fit
<1> QED
  BY <1>1 DEF Swept

LEMMA PushFit ==
  ASSUME NEW s, NEW ts \in Int, Fit(s, ts), NEW d \in Int, d >= 1
  PROVE  Fit(Push(s, d, ts), ts)
<1>1. StatsOK(Push(s, d, ts)) /\ Push(s, d, ts).last = ts
  BY PushOK DEF Fit
<1> QED
  BY <1>1 DEF Fit

LEMMA PushWarmupFit ==
  ASSUME NEW s, NEW ts \in Int, Fit(s, ts), NEW d \in Int
  PROVE  Fit(PushWarmup(s, d, ts), ts)
<1>1. PICK x \in Int : x = Clamp(d, 1, WARMUP_CLAMP) /\ x >= 1
  BY Clamped DEF WARMUP_CLAMP
<1>2. Fit(Push(s, x, ts), ts)
  BY <1>1, PushFit
<1> QED
  BY <1>1, <1>2 DEF PushWarmup

LEMMA SlowFrameOK ==
  ASSUME NEW s, NEW ts \in Int, Fit(s, ts), NEW d \in Int, d >= 1, NEW reason
  PROVE  JudgedOK(SlowFrame(s, d, ts, reason), ts)
<1> DEFINE t == ResetCadence(s)
           p == ProcessCandidate(t, d, ts)
           mean == MeanOf(s)
           r == SlowFrame(s, d, ts, reason)
<1>1. Fit(t, ts)
  BY ResetFit
<1> HIDE DEF t
<1>2. Fit(p.s, ts)
  <2>1. StatsOK(p.s) /\ p.s.last = t.last
    BY <1>1, ProcessOK DEF Fit
  <2> QED
    BY <1>1, <2>1 DEF Fit
<1>3. \/ r = NoStutter(p.s, MeanOf(p.s), 100) \/ r = NoStutter(p.s, mean, Ratio(mean, d))
      \/ r = Result(p.s, reason, mean, Ratio(mean, d))
  BY DEF SlowFrame, t
<1> HIDE DEF p, r, mean
<1>4. JudgedOK(r, ts)
  BY <1>2, <1>3, ResultOK, NoStutterOK, Zenon
<1> QED
  BY <1>4 DEF r

LEMMA CleanTailOK ==
  ASSUME NEW s, NEW ts \in Int, Fit(s, ts), NEW d \in Int
  PROVE  JudgedOK(CleanTail(s, d, ts), ts)
<1> DEFINE c == s.cand
           kept == IF c.n = 0 THEN c
                   ELSE IF c.clean + 1 > MAX_CLEAN_FRAMES THEN NoCandidate
                   ELSE [c EXCEPT !.clean = @ + 1]
           mean == MeanOf(s)
           t == [s EXCEPT !.cand = kept]
           x == Clamp(d, 1, DEFENSIVE_CLAMP)
<1>1. CleanTail(s, d, ts) = NoStutter(Push(t, x, ts), mean, Ratio(mean, d))
  BY DEF CleanTail
<1>2. CandOK(c)
  BY DEF Fit, StatsOK
<1> HIDE DEF c
<1>3. CandOK(kept)
  <2>1. CASE c.n = 0
    BY <1>2, <2>1
  <2>2. CASE c.n # 0 /\ c.clean + 1 > MAX_CLEAN_FRAMES
    BY <2>2, NoCandidateOK
  <2>3. CASE c.n # 0 /\ ~(c.clean + 1 > MAX_CLEAN_FRAMES)
    <3>1. /\ c.clean \in Nat /\ c.skips \in Nat /\ c.skips <= MAX_CONSECUTIVE_SKIPS
          /\ c.clean + 1 <= MAX_CLEAN_FRAMES
      BY <1>2, <2>3, CandidateBounds DEF CandOK, CandidateOpen
    <3> DEFINE k == c.clean + 1
    <3>2. k \in Nat /\ k <= MAX_CLEAN_FRAMES
      BY <3>1
    <3>3. kept = [c EXCEPT !.clean = k]
      BY <2>3
    <3> HIDE DEF k
    <3>4. CandOK([c EXCEPT !.skips = c.skips, !.clean = k])
      BY <1>2, <2>3, <3>1, <3>2, CandidateKept
    <3>5. [c EXCEPT !.skips = c.skips, !.clean = k] = [c EXCEPT !.clean = k]
      BY <1>2 DEF CandOK
    <3> QED
      BY <3>3, <3>4, <3>5
  <2> QED
    BY <2>1, <2>2, <2>3
<1> HIDE DEF kept
<1>4. Fit(t, ts)
  BY <1>3, CandidateFit
<1> HIDE DEF t
<1>5. x \in Int /\ x >= 1
  <2>1. DEFENSIVE_CLAMP \in Int
    BY DEF DEFENSIVE_CLAMP
  <2> QED
    BY <2>1, Clamped
<1> HIDE DEF x, mean
<1>6. Fit(Push(t, x, ts), ts)
  BY <1>4, <1>5, PushFit
<1> QED
  BY <1>1, <1>6, NoStutterOK

LEMMA StaticFallbackOK ==
  ASSUME NEW s, NEW ts \in Int, Fit(s, ts), NEW d \in Int, d >= 1, NEW cfg, NEW static
  PROVE  JudgedOK(StaticFallback(s, d, ts, cfg, static), ts)
<1> DEFINE t == [ResetCadence(s) EXCEPT !.cand = NoCandidate]
           r == StaticFallback(s, d, ts, cfg, static)
<1>1. Fit(t, ts)
  BY ResetFit, CandidateFit, NoCandidateOK
<1>2. \/ r = Result(t, "STATIC_THRESHOLD", MeanOf(s), Ratio(MeanOf(s), d))
      \/ r = SlowFrame(s, d, ts, "STATIC_THRESHOLD")
      \/ r = CleanTail(s, d, ts)
  BY DEF StaticFallback
<1> HIDE DEF t, r
<1>3. JudgedOK(r, ts)
  BY <1>1, <1>2, ResultOK, SlowFrameOK, CleanTailOK, Zenon
<1> QED
  BY <1>3 DEF r

LEMMA AlternatedOK ==
  ASSUME NEW s, NEW ts \in Int, StatsOK(s), s.last = ts, NEW d
  PROVE  EpisodeOK(Alternated(s, d, ts), ts)
<1> DEFINE e == s.ep
           a == Alternated(s, d, ts)
<1>1. /\ e.active \in BOOLEAN /\ e.alternations \in Nat /\ e.start \in Int /\ e.last \in Int
      /\ e.active <=> e.alternations > 0
      /\ e.active => e.start <= e.last /\ e.last <= ts
  BY DEF StatsOK, EpisodeOK
<1>2. /\ DOMAIN a = {"active", "alternations", "swing", "start", "last"}
      /\ a.active = TRUE /\ a.alternations = e.alternations + 1 /\ a.last = ts
      /\ a.start = IF e.alternations = 0 THEN ts ELSE e.start
  BY DEF Alternated
<1> HIDE DEF e, a
<1>3. a.alternations \in Nat /\ a.alternations > 0
  BY <1>1, <1>2
<1>4. a.start \in Int /\ a.start <= ts
  BY <1>1, <1>2
<1>5. a.active \in BOOLEAN /\ a.active
  BY <1>2
<1>6. a.last \in Int /\ a.last <= ts /\ a.start <= a.last
  BY <1>2, <1>4
<1>7. a.active <=> a.alternations > 0
  BY <1>3, <1>5
<1>8. DOMAIN a = {"active", "alternations", "swing", "start", "last"}
  BY <1>2
<1> QED
  BY <1>3, <1>4, <1>5, <1>6, <1>7, <1>8, Zenon DEF EpisodeOK, a

LEMMA CloseFit ==
  ASSUME NEW s, NEW ts, Fit(s, ts)
  PROVE  Fit(CloseEpisode(s), ts)
<1> DEFINE t == [s EXCEPT !.ep = NoEpisode]
<1>1. StatsOK(t) /\ t.last = s.last
  BY EpisodeSet, NoEpisodeOK DEF Fit
<1>2. CloseEpisode(s) = [t EXCEPT !.delta = 0]
  BY DEF CloseEpisode
<1> HIDE DEF t
<1>3. StatsOK([t EXCEPT !.delta = 0]) /\ [t EXCEPT !.delta = 0].last = t.last
  BY <1>1, DeltaSet
<1> QED
  BY <1>1, <1>2, <1>3 DEF Fit

LEMMA JudderOK ==
  ASSUME NEW s, NEW ts, Fit(s, ts)
  PROVE  JudgedOK(JudderReport(s, ts), ts)
<1> DEFINE c == CloseEpisode(s)
           r == Result(c, "CADENCE_JUDDER", MeanOf(s), 100)
           j == JudderReport(s, ts)
<1>1. Fit(c, ts)
  BY CloseFit
<1> HIDE DEF c
<1>2. JudgedOK(r, ts)
  BY <1>1, ResultOK
<1>3. j = [r EXCEPT !.alternations = s.ep.alternations, !.swing = s.ep.swing,
                    !.ts = s.ep.last, !.dur = s.ep.last - s.ep.start]
  BY DEF JudderReport, c
<1>4. s.ep.last \in Int /\ s.ep.last - s.ep.start \in Int
  BY DEF Fit, StatsOK, EpisodeOK
<1> HIDE DEF r, j
<1>5. DOMAIN j = DOMAIN r /\ j.s = r.s /\ j.ts = s.ep.last /\ j.dur = s.ep.last - s.ep.start
  BY <1>2, <1>3 DEF JudgedOK, ResultFields
<1> QED
  BY <1>2, <1>4, <1>5 DEF JudgedOK, j

LEMMA BaselineOK ==
  ASSUME NEW s, NEW ts \in Int, StatsOK(s), s.last = ts, NEW d \in Int, d >= 1, NEW cfg
  PROVE  JudgedOK(Baseline(s, d, ts, cfg), ts)
<1> DEFINE alternating == IsAlternating(s, d, cfg.swing)
           a == [s EXCEPT !.ep = Alternated(s, d, ts)]
           t == IF alternating THEN a ELSE s
           done == t.ep.active /\ EpisodeDone(t.ep, alternating, ts)
           rest == IF done THEN CloseEpisode(t) ELSE t
           lifted == LiftedStatic(cfg, s)
           r == Baseline(s, d, ts, cfg)
<1>1. Fit(s, ts)
  BY DEF Fit
<1>2. Fit(a, ts)
  BY AlternatedOK, EpisodeSet DEF Fit
<1>3. Fit(t, ts)
  BY <1>1, <1>2
<1>4. Fit(rest, ts)
  BY <1>3, CloseFit
<1>5. \/ r = SlowFrame(s, d, ts, "RELATIVE_SPIKE")
      \/ r = StaticFallback(s, d, ts, cfg, lifted)
      \/ r = JudderReport(t, ts)
      \/ r = StaticFallback(rest, d, ts, cfg, lifted)
  BY DEF Baseline
<1> HIDE DEF t, rest, r, lifted
<1>6. JudgedOK(r, ts)
  BY <1>1, <1>3, <1>4, <1>5, SlowFrameOK, StaticFallbackOK, JudderOK, Zenon
<1> QED
  BY <1>6 DEF r

Modes == {"STATIC_ONLY", "HYBRID", "DYNAMIC_ONLY"}

LEMMA WarmupOK ==
  ASSUME NEW s, NEW ts \in Int, Fit(s, ts), NEW d \in Int, NEW cfg, cfg.mode \in Modes
  PROVE  JudgedOK(Warmup(s, d, ts, cfg), ts)
<1> DEFINE mean == MeanOf(s)
           pushed == PushWarmup(s, d, ts)
           r == Warmup(s, d, ts, cfg)
           base == mean
           ratio == Ratio(mean, d)
<1>1. Fit(pushed, ts) /\ Fit(ResetCadence(pushed), ts) /\ Fit(ResetCadence(s), ts)
  BY PushWarmupFit, ResetFit
<1>2. \/ r = Result(ResetCadence(s), "STATIC_THRESHOLD", base, ratio)
      \/ r = Result(pushed, "NONE", base, ratio)
      \/ r = Result(ResetCadence(pushed), "NONE", base, ratio)
      \/ r = Result(ResetCadence(pushed), "STATIC_THRESHOLD", base, ratio)
  <2> DEFINE slow == d * TICK >= LiftedStatic(cfg, s)
             early == s.n < INITIAL_WARMUP_SAMPLES
             sudden == d * TICK >= Catastrophic(LiftedStatic(cfg, s))
             R(st, reason) == Result(st, reason, base, ratio)
  <2>1. r = CASE cfg.mode = "STATIC_ONLY" ->
                   IF slow THEN R(ResetCadence(s), "STATIC_THRESHOLD") ELSE R(pushed, "NONE")
              [] cfg.mode = "HYBRID" /\ early ->
                   IF sudden THEN R(ResetCadence(pushed), "NONE") ELSE R(pushed, "NONE")
              [] cfg.mode = "HYBRID" /\ ~early ->
                   IF slow THEN R(ResetCadence(pushed), "STATIC_THRESHOLD")
                   ELSE R(pushed, "NONE")
              [] cfg.mode = "DYNAMIC_ONLY" ->
                   R(IF slow THEN ResetCadence(pushed) ELSE pushed, "NONE")
    BY DEF Warmup
  <2> HIDE DEF slow, early, sudden, r, base, ratio, pushed
  <2>2. CASE cfg.mode = "STATIC_ONLY"
    BY <2>1, <2>2
  <2>3. CASE cfg.mode = "HYBRID"
    BY <2>1, <2>3
  <2>4. CASE cfg.mode = "DYNAMIC_ONLY"
    BY <2>1, <2>4
  <2> QED
    BY <2>2, <2>3, <2>4 DEF Modes
<1> HIDE DEF pushed, r, base, ratio
<1>3. JudgedOK(r, ts)
  BY <1>1, <1>2, ResultOK, Zenon
<1> QED
  BY <1>3 DEF r

LEMMA EvaluateOK ==
  ASSUME NEW s, NEW ts \in Int, Fit(s, ts), NEW d \in Int, d >= 1, NEW cfg, cfg.mode \in Modes
  PROVE  JudgedOK(Evaluate(s, d, ts, cfg), ts)
<1> DEFINE f == Forward(s, ts)
           t == Swept(f, ts)
           fresh == FreshStats(ts)
           r == Evaluate(s, d, ts, cfg)
<1>1. StatsOK(f) /\ f.last = ts
  BY ForwardOK DEF Fit
<1> HIDE DEF f
<1>2. StatsOK(t) /\ t.last = ts /\ Fit(t, ts)
  BY <1>1, SweptFit DEF Fit
<1>3. Fit(fresh, ts)
  BY FreshOK DEF Fit
<1>4. \/ r = AfterPause(d, ts) \/ r = Warmup(t, d, ts, cfg) \/ r = Baseline(t, d, ts, cfg)
  BY DEF Evaluate, f
<1> HIDE DEF t, fresh, r
<1>5. JudgedOK(AfterPause(d, ts), ts)
  <2>1. AfterPause(d, ts) = NoStutter(PushWarmup(fresh, d, ts), 0, 0)
    BY DEF AfterPause, fresh
  <2>2. Fit(PushWarmup(fresh, d, ts), ts)
    BY <1>3, PushWarmupFit
  <2> QED
    BY <2>1, <2>2, NoStutterOK
<1>6. JudgedOK(Warmup(t, d, ts, cfg), ts)
  BY <1>2, WarmupOK
<1>7. JudgedOK(Baseline(t, d, ts, cfg), ts)
  BY <1>2, BaselineOK
<1> QED
  BY <1>4, <1>5, <1>6, <1>7 DEF r

LEMMA EvaluateCommonOK ==
  ASSUME NEW s, NEW ts \in Int, Fit(s, ts), NEW d \in Int, d >= 1, NEW cfg, cfg.mode \in Modes
  PROVE  JudgedOK(EvaluateCommon(s, d, ts, cfg), ts)
<1> DEFINE r == Evaluate(s, d, ts, cfg)
           u == EvaluateCommon(s, d, ts, cfg)
           ratio == Ratio(MeanOf(r.s), d)
<1>1. JudgedOK(r, ts)
  BY EvaluateOK
<1>2. \/ u = Result(r.s, "STATIC_THRESHOLD", MeanOf(r.s), ratio)
      \/ u = [r EXCEPT !.reason = "NONE"]
      \/ u = r
  BY DEF EvaluateCommon
<1> HIDE DEF r, u, ratio
<1>3. JudgedOK(Result(r.s, "STATIC_THRESHOLD", MeanOf(r.s), ratio), ts)
  BY <1>1, ResultOK DEF JudgedOK
<1>4. JudgedOK([r EXCEPT !.reason = "NONE"], ts)
  <2> DEFINE e == [r EXCEPT !.reason = "NONE"]
  <2>1. DOMAIN e = DOMAIN r /\ e.s = r.s /\ e.ts = r.ts /\ e.dur = r.dur
    BY <1>1 DEF JudgedOK, ResultFields
  <2> HIDE DEF e
  <2>2. JudgedOK(e, ts)
    BY <1>1, <2>1 DEF JudgedOK
  <2> QED
    BY <2>2 DEF e
<1>5. JudgedOK(u, ts)
  BY <1>1, <1>2, <1>3, <1>4
<1> QED
  BY <1>5 DEF u

-----------------------------------------------------------------------------
(* The handlers: times stay numbers, and a frame has a duration.           *)

TableFields ==
  {"present", "last", "flip", "pso", "scan", "disk", "trim", "thread", "owner", "glitch"}

TimesKnown(t) ==
  /\ DOMAIN t = TableFields
  /\ \A x \in DOMAIN t.present : t.present[x].start \in Int
  /\ \A x \in DOMAIN t.last : t.last[x] \in Int
  /\ \A x \in DOMAIN t.flip : t.flip[x] \in Int

FrameFns == {"PRESENT", "FLIP"}

CallTimed(c, ts) ==
  c.fn # "NONE" => c.ts = ts /\ (c.fn \in FrameFns => c.dur \in Nat \ {0})

HandledOK(h, ts) == TimesKnown(h.tables) /\ CallTimed(h.call, ts)

LEMMA NoCallOK ==
  ASSUME NEW t, TimesKnown(t), NEW rec, NEW ok, NEW ts
  PROVE  /\ HandledOK(Emit(t, rec), ts) /\ HandledOK(Silent(t), ts)
         /\ HandledOK(EmitIf(ok, t, rec), ts)
<1>1. CallTimed(NoCall, ts)
  BY DEF CallTimed, NoCall
<1>2. \A emit : HandledOK(Handled(t, emit, NoCall), ts)
  BY <1>1 DEF HandledOK, Handled
<1> QED
  BY <1>2 DEF Emit, Silent, EmitIf

LEMMA OtherTables ==
  ASSUME NEW t, TimesKnown(t), NEW v
  PROVE  /\ TimesKnown([t EXCEPT !.pso = v]) /\ TimesKnown([t EXCEPT !.scan = v])
         /\ TimesKnown([t EXCEPT !.disk = v]) /\ TimesKnown([t EXCEPT !.trim = v])
         /\ TimesKnown([t EXCEPT !.thread = v]) /\ TimesKnown([t EXCEPT !.owner = v])
         /\ TimesKnown([t EXCEPT !.glitch = v])
<1>1. ASSUME NEW u, DOMAIN u = DOMAIN t, u.present = t.present, u.last = t.last, u.flip = t.flip
      PROVE  TimesKnown(u)
  BY <1>1 DEF TimesKnown
<1>2. DOMAIN t = TableFields
  BY DEF TimesKnown
<1>3. TimesKnown([t EXCEPT !.pso = v])
  BY <1>1, <1>2 DEF TableFields
<1>4. TimesKnown([t EXCEPT !.scan = v])
  BY <1>1, <1>2 DEF TableFields
<1>5. TimesKnown([t EXCEPT !.disk = v])
  BY <1>1, <1>2 DEF TableFields
<1>6. TimesKnown([t EXCEPT !.trim = v])
  BY <1>1, <1>2 DEF TableFields
<1>7. TimesKnown([t EXCEPT !.thread = v])
  BY <1>1, <1>2 DEF TableFields
<1>8. TimesKnown([t EXCEPT !.owner = v])
  BY <1>1, <1>2 DEF TableFields
<1>9. TimesKnown([t EXCEPT !.glitch = v])
  BY <1>1, <1>2 DEF TableFields
<1> QED
  BY <1>3, <1>4, <1>5, <1>6, <1>7, <1>8, <1>9

LEMMA PutTime ==
  ASSUME NEW f, \A x \in DOMAIN f : f[x] \in Int, NEW k, NEW v \in Int
  PROVE  \A x \in DOMAIN Put(f, k, v) : Put(f, k, v)[x] \in Int
  BY DEF Put

LEMMA PresentStartOK ==
  ASSUME NEW t, TimesKnown(t), NEW e, e.ts \in Int
  PROVE  HandledOK(PresentStart(t, e), e.ts)
<1> DEFINE thread == <<e.pid, e.tid>>
           v == [start |-> e.ts, chain |-> e.key]
           p == Put(t.present, thread, v)
           u == [t EXCEPT !.present = p]
<1>1. PresentStart(t, e) = Silent(u)
  BY DEF PresentStart
<1>2. \A x \in DOMAIN p : p[x].start \in Int
  <2>1. v.start \in Int
    OBVIOUS
  <2> HIDE DEF v, thread
  <2>2. DOMAIN p = DOMAIN t.present \cup {thread}
        /\ \A x \in DOMAIN p : p[x] = IF x = thread THEN v ELSE t.present[x]
    BY DEF Put
  <2> HIDE DEF p
  <2> QED
    BY <2>1, <2>2 DEF TimesKnown
<1> HIDE DEF p
<1>3. DOMAIN u = DOMAIN t /\ u.present = p /\ u.last = t.last /\ u.flip = t.flip
  BY DEF TimesKnown, TableFields
<1> HIDE DEF u
<1>4. TimesKnown(u)
  BY <1>2, <1>3 DEF TimesKnown
<1> QED
  BY <1>1, <1>4, NoCallOK

LEMMA PresentStopOK ==
  ASSUME NEW t, TimesKnown(t), NEW e, e.ts \in Int
  PROVE  HandledOK(PresentStop(t, e), e.ts)
<1> DEFINE thread == <<e.pid, e.tid>>
           start == t.present[thread].start
           chain == <<e.pid, t.present[thread].chain>>
           previous == IF Has(t.last, chain) THEN t.last[chain] ELSE 0
           delta == PresentDelta(e.ts, previous, start)
           shown1 == IF delta.dur > PAUSE THEN PAUSE ELSE delta.dur
           p == Drop(t.present, thread)
           l == Put(t.last, chain, e.ts)
           u == [t EXCEPT !.present = p, !.last = l]
           emit == << [Record(e, "DXGI", shown1) EXCEPT
                         !.flags = IF delta.duplicate THEN {"DUPLICATE"} ELSE {}] >>
           call1 == [fn |-> "PRESENT", pid |-> e.pid, tid |-> e.tid, dur |-> delta.dur,
                     ts |-> e.ts, key |-> chain, core |-> e.core]
           none == delta.reset \/ delta.dur = 0 \/ delta.duplicate
<1>1. CASE ~Has(t.present, thread)
  <2>1. PresentStop(t, e) = Emit(t, Record(e, "DXGI", 0))
    BY <1>1 DEF PresentStop
  <2> QED
    BY <2>1, NoCallOK
<1>2. CASE Has(t.present, thread)
  <2>1. PresentStop(t, e) = Handled(u, emit, IF none THEN NoCall ELSE call1)
    BY <1>2 DEF PresentStop
  <2>2. start \in Int /\ previous \in Int
    BY <1>2 DEF TimesKnown, Has
  <2> HIDE DEF emit
  <2>3. ~none => delta.dur \in Nat \ {0}
    <3> SUFFICES ASSUME ~none PROVE delta.dur \in Nat \ {0}
      OBVIOUS
    <3> HIDE DEF start, previous
    <3> DEFINE api == IF e.ts >= start THEN e.ts - start ELSE 0
               frame == e.ts - previous
               reset == api > PAUSE \/ previous = 0 \/ e.ts <= previous \/ frame > PAUSE
    <3>1. api \in Int /\ frame \in Int
      BY <2>2
    <3>2. delta.reset = reset /\ delta.dur = IF reset \/ api > frame THEN api ELSE frame
      BY DEF PresentDelta
    <3>3. ~reset
      BY <3>2
    <3>4. frame >= 1
      BY <2>2, <3>3
    <3>5. delta.dur = IF api > frame THEN api ELSE frame
      BY <3>2, <3>3
    <3> HIDE DEF api, frame, delta
    <3> QED
      BY <3>1, <3>4, <3>5
  <2> HIDE DEF delta, none
  <2>4. CallTimed(IF none THEN NoCall ELSE call1, e.ts)
    <3>1. CASE none
      BY <3>1 DEF CallTimed, NoCall
    <3>2. CASE ~none
      BY <2>3, <3>2 DEF CallTimed
    <3> QED
      BY <3>1, <3>2
  <2> HIDE DEF call1
  <2>5. \A x \in DOMAIN p : p[x].start \in Int
    <3>1. DOMAIN p = DOMAIN t.present \ {thread} /\ \A x \in DOMAIN p : p[x] = t.present[x]
      BY DEF Drop, Restrict
    <3> HIDE DEF p, thread
    <3> QED
      BY <3>1 DEF TimesKnown
  <2>6. \A x \in DOMAIN l : l[x] \in Int
    <3>1. \A x \in DOMAIN t.last : t.last[x] \in Int
      BY DEF TimesKnown
    <3> DEFINE f == t.last
    <3> HIDE DEF f, chain
    <3>2. \A x \in DOMAIN Put(f, chain, e.ts) : Put(f, chain, e.ts)[x] \in Int
      BY <3>1, PutTime DEF f
    <3> QED
      BY <3>2 DEF f
  <2> HIDE DEF p, l
  <2>7. DOMAIN u = DOMAIN t /\ u.present = p /\ u.last = l /\ u.flip = t.flip
    BY DEF TimesKnown, TableFields
  <2> HIDE DEF u
  <2>8. TimesKnown(u)
    BY <2>5, <2>6, <2>7 DEF TimesKnown
  <2> QED
    BY <2>1, <2>4, <2>8 DEF HandledOK, Handled
<1> QED
  BY <1>1, <1>2

LEMMA FlipTable ==
  ASSUME NEW t, TimesKnown(t), NEW k, NEW ts \in Int
  PROVE  /\ TimesKnown([t EXCEPT !.flip = Put(t.flip, k, ts)])
         /\ FlipDelta(t, k, ts) \in Nat
<1> DEFINE f == t.flip
           p == Put(f, k, ts)
           u == [t EXCEPT !.flip = p]
<1>1. \A x \in DOMAIN f : f[x] \in Int
  BY DEF TimesKnown
<1>2. FlipDelta(t, k, ts) \in Nat
  BY <1>1 DEF FlipDelta, Has
<1> HIDE DEF f
<1>3. \A x \in DOMAIN p : p[x] \in Int
  BY <1>1, PutTime
<1> HIDE DEF p
<1>4. DOMAIN u = DOMAIN t /\ u.present = t.present /\ u.last = t.last /\ u.flip = p
  BY DEF TimesKnown, TableFields
<1> HIDE DEF u
<1>5. TimesKnown(u)
  BY <1>3, <1>4 DEF TimesKnown
<1> QED
  BY <1>2, <1>5 DEF u, p, f

LEMMA FlipsOK ==
  ASSUME NEW t, TimesKnown(t), NEW e, e.ts \in Int
  PROVE  HandledOK(Flip(t, e), e.ts) /\ HandledOK(KernelPresent(t, e), e.ts)
<1>1. HandledOK(KernelPresent(t, e), e.ts)
  <2> DEFINE key == <<"THREAD", e.pid, e.tid>>
             u == [t EXCEPT !.flip = Put(t.flip, key, e.ts)]
             rec == Record(e, "KERNEL_PRESENT", FlipDelta(t, key, e.ts))
  <2>1. KernelPresent(t, e) = Emit(u, rec)
    BY DEF KernelPresent
  <2>2. TimesKnown(u)
    BY FlipTable
  <2> HIDE DEF u, rec
  <2> QED
    BY <2>1, <2>2, NoCallOK
<1>2. HandledOK(Flip(t, e), e.ts)
  <2> DEFINE key == <<"FLIP", e.key, e.pid>>
             dur1 == FlipDelta(t, key, e.ts)
             u == [t EXCEPT !.flip = Put(t.flip, key, e.ts)]
             none == dur1 = 0 \/ e.pid = 4 \/ (DWM_PID # 0 /\ e.pid = DWM_PID)
             emit == << Record(e, "MMIOFLIP", dur1) >>
             call1 == [fn |-> "FLIP", pid |-> e.pid, tid |-> e.tid, dur |-> dur1, ts |-> e.ts,
                       key |-> key, core |-> e.core]
  <2>1. Flip(t, e) = Handled(u, emit, IF none THEN NoCall ELSE call1)
    BY DEF Flip
  <2>2. TimesKnown(u) /\ dur1 \in Nat
    BY FlipTable
  <2> HIDE DEF u, emit, dur1
  <2>3. CallTimed(IF none THEN NoCall ELSE call1, e.ts)
    <3>1. CASE none
      BY <3>1 DEF CallTimed, NoCall
    <3>2. CASE ~none
      <4>1. dur1 \in Nat \ {0}
        BY <2>2, <3>2
      <4> QED
        BY <3>2, <4>1 DEF CallTimed
    <3> QED
      BY <3>1, <3>2
  <2> HIDE DEF call1, none
  <2> QED
    BY <2>1, <2>2, <2>3 DEF HandledOK, Handled
<1> QED
  BY <1>1, <1>2

(* The other handlers touch none of those tables, and call for no frame.   *)
LEMMA QuietHandlersOK ==
  ASSUME NEW t, TimesKnown(t), NEW e
  PROVE  /\ HandledOK(VramDemoted(t, e), e.ts) /\ \A cat : HandledOK(DpcIsr(t, e, cat), e.ts)
         /\ HandledOK(CSwitch(t, e), e.ts) /\ HandledOK(DiskInit(t, e), e.ts)
         /\ HandledOK(DiskDone(t, e), e.ts) /\ HandledOK(HardFault(t, e), e.ts)
         /\ HandledOK(VirtualAlloc(t, e), e.ts) /\ HandledOK(TrimStart(t, e), e.ts)
         /\ HandledOK(TrimStop(t, e), e.ts) /\ HandledOK(PhysicalAlloc(t, e), e.ts)
         /\ HandledOK(PsoStart(t, e), e.ts) /\ HandledOK(PsoStop(t, e), e.ts)
         /\ HandledOK(ScanStart(t, e), e.ts) /\ HandledOK(ScanStop(t, e), e.ts)
         /\ HandledOK(Thermal(t, e), e.ts)
<1> DEFINE Quiet(h) == \E u, rec, ok :
              TimesKnown(u) /\ h \in {Emit(u, rec), Silent(u), EmitIf(ok, u, rec)}
<1>1. ASSUME NEW h, Quiet(h) PROVE HandledOK(h, e.ts)
  BY <1>1, NoCallOK
<1>2. Quiet(VramDemoted(t, e))
  BY DEF VramDemoted
<1>3. \A cat : Quiet(DpcIsr(t, e, cat))
  BY DEF DpcIsr
<1>4. Quiet(CSwitch(t, e))
  <2>1. \E o, w, rec : CSwitch(t, e) = Emit([t EXCEPT !.owner = o, !.thread = w], rec)
    <3> DEFINE owner == Put(t.owner, e.tid, e.pid)
               oldPid == IF Has(owner, e.old) THEN owner[e.old] ELSE 0
               gone == IF e.old = 0 THEN t.thread
                       ELSE Put(t.thread, e.old,
                                [ts |-> e.ts, pid |-> oldPid, waiting |-> e.waiting])
               back == Has(gone, e.tid)
               known == back /\ gone[e.tid].pid \in {0, e.pid}
               away == e.ts - gone[e.tid].ts
               thread == IF back THEN Drop(gone, e.tid) ELSE gone
               rec == [Record(e, "CSWITCH", IF ~known THEN 0
                                            ELSE IF away <= KERNEL_CAP THEN away
                                            ELSE KERNEL_CAP) EXCEPT
                         !.prevTid = e.old, !.prevPid = oldPid,
                         !.flags = (IF known /\ gone[e.tid].waiting THEN {"VOLUNTARY"} ELSE {})
                                   \cup (IF e.waiting THEN {"OUT_VOLUNTARY"} ELSE {})]
    <3>1. CSwitch(t, e) = Emit([t EXCEPT !.owner = owner, !.thread = thread], rec)
      BY DEF CSwitch
    <3> HIDE DEF owner, thread, rec
    <3> QED
      BY <3>1
  <2>2. PICK o, w, rec : CSwitch(t, e) = Emit([t EXCEPT !.owner = o, !.thread = w], rec)
    BY <2>1
  <2>3. TimesKnown([t EXCEPT !.owner = o])
    BY OtherTables
  <2> DEFINE u == [t EXCEPT !.owner = o]
  <2> HIDE DEF u
  <2>4. TimesKnown([u EXCEPT !.thread = w])
    BY <2>3, OtherTables DEF u
  <2>5. [t EXCEPT !.owner = o, !.thread = w] = [u EXCEPT !.thread = w]
    BY DEF u
  <2> QED
    BY <2>2, <2>4, <2>5
<1>5. Quiet(DiskInit(t, e)) /\ Quiet(PsoStart(t, e)) /\ Quiet(ScanStart(t, e))
  <2>1. \E v : DiskInit(t, e) = Silent([t EXCEPT !.disk = v])
    BY DEF DiskInit
  <2>2. \E v : PsoStart(t, e) = Silent([t EXCEPT !.pso = v])
    BY DEF PsoStart
  <2>3. \E v : ScanStart(t, e) = Silent([t EXCEPT !.scan = v])
    BY DEF ScanStart
  <2> QED
    BY <2>1, <2>2, <2>3, OtherTables
<1>6. Quiet(DiskDone(t, e))
  <2>1. \E v, rec, ok :
          DiskDone(t, e) \in {EmitIf(ok, t, rec), EmitIf(ok, [t EXCEPT !.disk = v], rec)}
    BY DEF DiskDone
  <2> QED
    BY <2>1, OtherTables
<1>7. Quiet(HardFault(t, e)) /\ Quiet(VirtualAlloc(t, e)) /\ Quiet(PhysicalAlloc(t, e))
      /\ Quiet(Thermal(t, e))
  BY DEF HardFault, VirtualAlloc, PhysicalAlloc, Thermal
<1>8. Quiet(TrimStart(t, e)) /\ Quiet(TrimStop(t, e))
  <2>1. \E v : TrimStart(t, e) \in {Silent(t), Silent([t EXCEPT !.trim = v])}
    BY DEF TrimStart
  <2>2. \E v, rec : TrimStop(t, e) \in {Emit(t, rec), Emit([t EXCEPT !.trim = v], rec)}
    BY DEF TrimStop
  <2> QED
    BY <2>1, <2>2, OtherTables
<1>9. Quiet(PsoStop(t, e)) /\ Quiet(ScanStop(t, e))
  <2>1. \E v, rec, ok : PsoStop(t, e) = EmitIf(ok, [t EXCEPT !.pso = v], rec)
    BY DEF PsoStop
  <2>2. \E v, rec, ok : ScanStop(t, e) = EmitIf(ok, [t EXCEPT !.scan = v], rec)
    BY DEF ScanStop
  <2> QED
    BY <2>1, <2>2, OtherTables
<1> QED
  BY <1>1, <1>2, <1>3, <1>4, <1>5, <1>6, <1>7, <1>8, <1>9

LEMMA GlitchesOK ==
  ASSUME NEW t, TimesKnown(t), NEW e
  PROVE  HandledOK(AudioGlitch(t, e), e.ts) /\ HandledOK(DwmGlitch(t, e), e.ts)
<1>1. HandledOK(AudioGlitch(t, e), e.ts)
  BY DEF AudioGlitch, HandledOK, Handled, CallTimed, FrameFns
<1>2. HandledOK(DwmGlitch(t, e), e.ts)
  <2>1. \/ \E rec : DwmGlitch(t, e) = Emit(t, rec)
        \/ \E v, emit, d :
             DwmGlitch(t, e) = Handled([t EXCEPT !.glitch = v], emit,
               [fn |-> "DWM", pid |-> e.pid, ts |-> e.ts, core |-> e.core, missed |-> e.size,
                dur |-> d])
    BY DEF DwmGlitch
  <2>2. ASSUME NEW v, NEW emit, NEW d,
               DwmGlitch(t, e) = Handled([t EXCEPT !.glitch = v], emit,
                 [fn |-> "DWM", pid |-> e.pid, ts |-> e.ts, core |-> e.core, missed |-> e.size,
                  dur |-> d])
        PROVE  HandledOK(DwmGlitch(t, e), e.ts)
    <3> DEFINE u == [t EXCEPT !.glitch = v]
               c == [fn |-> "DWM", pid |-> e.pid, ts |-> e.ts, core |-> e.core,
                     missed |-> e.size, dur |-> d]
    <3>1. TimesKnown(u)
      BY OtherTables
    <3>2. CallTimed(c, e.ts)
      BY DEF CallTimed, FrameFns
    <3>3. DwmGlitch(t, e) = Handled(u, emit, c)
      BY <2>2
    <3> HIDE DEF u, c
    <3> QED
      BY <3>1, <3>2, <3>3 DEF HandledOK, Handled
  <2> QED
    BY <2>1, <2>2, NoCallOK
<1> QED
  BY <1>1, <1>2

FrameKinds == {"PRESENT_START", "PRESENT_STOP", "FLIP", "KERNEL_PRESENT"}
CallKinds == {"AUDIO", "DWM"}
QuietKinds ==
  {"VRAM", "DPC", "ISR", "CSWITCH", "DISK_INIT", "DISK_DONE", "FAULT", "ALLOC", "TRIM_START",
   "TRIM_STOP", "PHYS", "PSO_START", "PSO_STOP", "SCAN_START", "SCAN_STOP", "THERMAL"}

LEMMA HandleOK ==
  ASSUME NEW t, TimesKnown(t), NEW e, e.ts \in Int,
         e.kind \in FrameKinds \cup CallKinds \cup QuietKinds
  PROVE  HandledOK(Handle(t, e), e.ts)
<1>1. CASE e.kind \in FrameKinds
  <2>1. Handle(t, e) \in {PresentStart(t, e), PresentStop(t, e), Flip(t, e), KernelPresent(t, e)}
    BY <1>1 DEF Handle, FrameKinds
  <2> QED
    BY <2>1, PresentStartOK, PresentStopOK, FlipsOK
<1>2. CASE e.kind \in CallKinds
  <2>1. Handle(t, e) \in {AudioGlitch(t, e), DwmGlitch(t, e)}
    BY <1>2 DEF Handle, CallKinds
  <2> QED
    BY <2>1, GlitchesOK
<1>3. CASE e.kind \in QuietKinds
  <2>1. Handle(t, e) \in {VramDemoted(t, e), DpcIsr(t, e, e.kind), CSwitch(t, e), DiskInit(t, e),
                          DiskDone(t, e), HardFault(t, e), VirtualAlloc(t, e), TrimStart(t, e),
                          TrimStop(t, e), PhysicalAlloc(t, e), PsoStart(t, e), PsoStop(t, e),
                          ScanStart(t, e), ScanStop(t, e), Thermal(t, e)}
    BY <1>3 DEF Handle, QuietKinds
  <2> QED
    BY <2>1, QuietHandlersOK
<1> QED
  BY <1>1, <1>2, <1>3

-----------------------------------------------------------------------------
(* The streams.                                                            *)

Kinds == FrameKinds \cup CallKinds \cup QuietKinds

WorldOK == scene \in Scenarios /\ \A s \in open : s.kind \in SpanKinds

Timed(t) == "ts" \in DOMAIN t /\ t.ts \in Int
HeldKnown == held # NoTrigger => Timed(held)

StreamsOK == \A k \in DOMAIN pacing : Fit(pacing[k], now)

(* The frame the consumer brings is not older than its stream.             *)
CallKnown ==
  call.pc # "IDLE" =>
    /\ {"pc", "arg"} \subseteq DOMAIN call
    /\ call.arg.ts \in Int /\ call.arg.ts <= now
    /\ call.arg.fn \in FrameFns => call.arg.dur \in Nat \ {0}
    /\ call.pc # "CALL" => call.arg.fn \in FrameFns
    /\ \A k \in DOMAIN pacing : pacing[k].last <= call.arg.ts

StreamInv ==
  now \in Int /\ TimesKnown(tables) /\ HeldKnown /\ StreamsOK /\ CallKnown

LEMMA FitLater ==
  ASSUME NEW s, NEW a \in Int, NEW b \in Int, Fit(s, a), a <= b
  PROVE  Fit(s, b)
  BY DEF Fit, StatsOK

LEMMA EventsReach ==
  ASSUME StreamInv, NEW e, e.ts \in Int, now <= e.ts, e.kind \in Kinds, Deliver(e) \/ Lose(e)
  PROVE  StreamInv'
<1> USE DEF StreamInv
<1>1. now' = e.ts /\ call.pc = "IDLE" /\ UNCHANGED <<pacing, held>>
  BY DEF Deliver, Lose
<1>2. HeldKnown'
  BY <1>1 DEF HeldKnown, Timed
<1>3. StreamsOK'
  <2> SUFFICES ASSUME NEW k \in DOMAIN pacing PROVE Fit(pacing[k], e.ts)
    BY <1>1 DEF StreamsOK
  <2>1. Fit(pacing[k], now)
    BY DEF StreamsOK
  <2> QED
    BY <2>1, FitLater
<1>4. \A k \in DOMAIN pacing : pacing[k].last <= e.ts
  BY <1>1, <1>3 DEF StreamsOK, Fit
<1>5. CASE Lose(e)
  <2>1. UNCHANGED <<tables, call>>
    BY <1>5 DEF Lose
  <2> QED
    BY <1>1, <1>2, <1>3, <2>1 DEF CallKnown
<1>6. CASE Deliver(e)
  <2> DEFINE h == Handle(tables, e)
  <2>1. tables' = h.tables
        /\ call' = IF h.call.fn = "NONE" THEN Idle ELSE [pc |-> "CALL", arg |-> h.call]
    BY <1>6 DEF Deliver
  <2>2. TimesKnown(h.tables) /\ CallTimed(h.call, e.ts)
    BY HandleOK DEF HandledOK, Kinds
  <2> HIDE DEF h
  <2>3. CASE h.call.fn = "NONE"
    <3>1. call'.pc = "IDLE"
      BY <2>1, <2>3 DEF Idle
    <3> QED
      BY <1>1, <1>2, <1>3, <2>1, <2>2, <3>1 DEF CallKnown
  <2>4. CASE h.call.fn # "NONE"
    <3> DEFINE c == h.call
    <3>1. c.ts = e.ts /\ (c.fn \in FrameFns => c.dur \in Nat \ {0})
      BY <2>2, <2>4 DEF CallTimed
    <3>2. call' = [pc |-> "CALL", arg |-> c]
      BY <2>1, <2>4
    <3> HIDE DEF c
    <3>3. DOMAIN call' = {"pc", "arg"} /\ call'.pc = "CALL" /\ call'.arg = c
      BY <3>2
    <3>4. CallKnown'
      BY <1>1, <1>4, <3>1, <3>3 DEF CallKnown
    <3> QED
      BY <1>1, <1>2, <1>3, <2>1, <2>2, <3>4
  <2> QED
    BY <2>3, <2>4
<1> QED
  BY <1>5, <1>6

LEMMA RawKnown ==
  ASSUME NEW kind, NEW pid, NEW ts
  PROVE  /\ Raw(kind, pid, ts).ts = ts /\ Raw(kind, pid, ts).kind = kind
         /\ \A x : [Raw(kind, pid, ts) EXCEPT !.key = x].ts = ts
                  /\ [Raw(kind, pid, ts) EXCEPT !.key = x].kind = kind
         /\ \A x, y : [Raw(kind, pid, ts) EXCEPT !.key = x, !.size = y].ts = ts
                     /\ [Raw(kind, pid, ts) EXCEPT !.key = x, !.size = y].kind = kind
  BY DEF Raw

LEMMA SwitchKnown ==
  ASSUME NEW from, NEW to, NEW core, NEW waits, NEW ts
  PROVE  LET e == Switch(from, to, core, waits, ts) IN e.ts = ts /\ e.kind \in QuietKinds
  BY DEF Raw, Switch, QuietKinds

LEMMA SpanKnown ==
  ASSUME NEW kind \in SpanKinds, NEW pid, NEW ts
  PROVE  /\ SpanStart(kind, pid, ts).ts = ts /\ SpanStart(kind, pid, ts).kind \in QuietKinds
         /\ SpanStop(kind, pid, ts).ts = ts /\ SpanStop(kind, pid, ts).kind \in QuietKinds
<1> DEFINE a == SpanStart(kind, pid, ts)
           b == SpanStop(kind, pid, ts)
           Known(e) == e.ts = ts /\ e.kind \in QuietKinds
           Form(e) == \/ \E k \in QuietKinds : \E p, x : e = [Raw(k, p, ts) EXCEPT !.key = x]
                      \/ \E k \in QuietKinds : \E p, x, y :
                           e = [Raw(k, p, ts) EXCEPT !.key = x, !.size = y]
                      \/ \E from, to, core, waits : e = Switch(from, to, core, waits, ts)
<1>1. ASSUME NEW e, Form(e) PROVE Known(e)
  <2>1. CASE \E k \in QuietKinds : \E p, x : e = [Raw(k, p, ts) EXCEPT !.key = x]
    BY <2>1, RawKnown
  <2>2. CASE \E k \in QuietKinds : \E p, x, y : e = [Raw(k, p, ts) EXCEPT !.key = x, !.size = y]
    BY <2>2, RawKnown
  <2>3. CASE \E from, to, core, waits : e = Switch(from, to, core, waits, ts)
    BY <2>3, SwitchKnown
  <2> QED
    BY <1>1, <2>1, <2>2, <2>3
<1>2. {"DISK_INIT", "DISK_DONE", "SCAN_START", "SCAN_STOP", "PSO_START", "PSO_STOP", "TRIM_START",
       "TRIM_STOP"} \subseteq QuietKinds
  BY DEF QuietKinds
<1>3. Form(a)
  <2>1. \/ a \in {[Raw("DISK_INIT", pid, ts) EXCEPT !.key = pid],
                  [Raw("SCAN_START", pid, ts) EXCEPT !.key = pid],
                  [Raw("PSO_START", pid, ts) EXCEPT !.key = pid],
                  [Raw("TRIM_START", SYSTEM_PID, ts) EXCEPT !.key = pid]}
        \/ \E waits : a = Switch(pid, BYSTANDER, Core(pid), waits, ts)
    BY DEF SpanStart, SpanKinds
  <2> HIDE DEF a
  <2> QED
    BY <1>2, <2>1
<1>4. Form(b)
  <2>1. \/ b \in {[Raw("DISK_DONE", BYSTANDER, ts) EXCEPT !.key = pid],
                  [Raw("SCAN_STOP", pid, ts) EXCEPT !.key = pid],
                  [Raw("PSO_STOP", pid, ts) EXCEPT !.key = pid]}
        \/ b = [Raw("TRIM_STOP", SYSTEM_PID, ts) EXCEPT !.key = pid, !.size = MAJOR]
        \/ b = Switch(BYSTANDER, pid, Core(pid), TRUE, ts)
    BY DEF SpanStop, SpanKinds
  <2> HIDE DEF b
  <2> QED
    BY <1>2, <2>1
<1> HIDE DEF Form
<1> QED
  BY <1>1, <1>3, <1>4

LEMMA PointKnown ==
  ASSUME NEW kind \in PointKinds, NEW big \in BOOLEAN, NEW pid, NEW ts
  PROVE  LET e == Point(kind, pid, big, ts) IN
           e.ts = ts /\ e.kind = kind /\ kind \in Kinds /\ (kind = "DWM" => e.size \in Int)
<1> DEFINE p == Point(kind, pid, big, ts)
           r == Raw(kind, pid, ts)
           w == Raw(kind, RESOLVED_DWM_PID, ts)
<1>1. \/ \E x : p = [r EXCEPT !.start = x]
      \/ \E x, y : p = [r EXCEPT !.key = x, !.size = y]
      \/ \E x : p = [w EXCEPT !.size = x]
      \/ p = r
  <2> DEFINE dur == IF big THEN SPELL ELSE STALL
             amount == IF big THEN MAJOR ELSE MINOR
  <2>1. p = CASE kind \in {"DPC", "ISR", "FAULT"} -> [r EXCEPT !.start = ts - dur]
              [] kind = "PHYS" -> [r EXCEPT !.start = dur]
              [] kind \in {"ALLOC", "VRAM"} -> [r EXCEPT !.key = pid, !.size = amount]
              [] kind = "DWM" -> [w EXCEPT !.size = IF big THEN 3 ELSE 1]
              [] OTHER -> r
    BY DEF Point
  <2> HIDE DEF p, r, w, dur, amount
  <2> QED
    BY <2>1
<1>2. r.ts = ts /\ r.kind = kind /\ w.ts = ts /\ w.kind = kind
  BY DEF Raw
<1>3. DOMAIN r = {"kind", "pid", "tid", "core", "ts", "key", "start", "size", "old", "waiting"}
      /\ DOMAIN w = DOMAIN r
  BY DEF Raw
<1>4. kind = "DWM" => p.size \in Int
  <2>1. kind = "DWM" => p = [w EXCEPT !.size = IF big THEN 3 ELSE 1]
    BY DEF Point
  <2> HIDE DEF p, r, w
  <2> QED
    BY <1>3, <2>1
<1> HIDE DEF p, r, w
<1>5. p.ts = ts /\ p.kind = kind
  BY <1>1, <1>2, <1>3
<1>6. kind \in Kinds
  BY DEF PointKinds, Kinds, QuietKinds, CallKinds, FrameKinds
<1> QED
  BY <1>5, <1>6, <1>4 DEF p

LEMMA WorldStep ==
  ASSUME WorldOK, StreamInv,
         BeginSpan \/ EndSpan \/ PointEvent \/ PresentBegins \/ PresentEnds \/ FlipHappens
  PROVE  WorldOK' /\ StreamInv'
<1>1. now \in Int /\ scene.delays \subseteq Nat /\ scene.frameDelays \subseteq Nat
  BY ScenarioAssumption DEF WorldOK, StreamInv
<1>2. ASSUME NEW e, e.kind \in Kinds, NEW d \in Nat, e.ts = now + d, Deliver(e) \/ Lose(e)
      PROVE  StreamInv'
  <2>1. e.ts \in Int /\ now <= e.ts
    BY <1>1, <1>2
  <2> QED
    BY <1>2, <2>1, EventsReach
<1>3. CASE BeginSpan
  <2>1. PICK d \in scene.delays, kind \in scene.kinds \cap SpanKinds, pid \in scene.pids :
          /\ Happens(SpanStart(kind, pid, now + d))
          /\ open' = open \cup {[kind |-> kind, pid |-> pid, from |-> now + d]}
          /\ scene' = scene
    BY <1>3 DEF BeginSpan
  <2> DEFINE ts == now + d
             e == SpanStart(kind, pid, ts)
  <2>2. e.kind \in Kinds /\ e.ts = ts
    <3> HIDE DEF ts
    <3> QED
      BY SpanKnown DEF Kinds
  <2>3. Deliver(e) \/ Lose(e)
    BY <2>1 DEF Happens
  <2> HIDE DEF e
  <2>4. StreamInv'
    BY <1>1, <1>2, <2>2, <2>3
  <2>5. WorldOK'
    BY <2>1 DEF WorldOK
  <2> QED
    BY <2>4, <2>5
<1>4. CASE EndSpan
  <2>1. PICK d \in scene.delays, s \in open :
          /\ Happens(SpanStop(s.kind, s.pid, now + d))
          /\ open' = open \ {s} /\ scene' = scene
    BY <1>4 DEF EndSpan
  <2> DEFINE ts == now + d
             e == SpanStop(s.kind, s.pid, ts)
  <2>2. e.kind \in Kinds /\ e.ts = ts
    <3> HIDE DEF ts
    <3> QED
      BY SpanKnown DEF WorldOK, Kinds
  <2>3. Deliver(e) \/ Lose(e)
    BY <2>1 DEF Happens
  <2> HIDE DEF e
  <2>4. StreamInv'
    BY <1>1, <1>2, <2>2, <2>3
  <2>5. WorldOK'
    BY <2>1 DEF WorldOK
  <2> QED
    BY <2>4, <2>5
<1>5. CASE PointEvent
  <2>1. PICK d \in scene.delays, kind \in scene.kinds \cap PointKinds, pid \in scene.pids,
             big \in BOOLEAN :
          /\ Happens(Point(kind, pid, big, now + d))
          /\ UNCHANGED <<scene, open>>
    BY <1>5 DEF PointEvent
  <2> DEFINE ts == now + d
             e == Point(kind, pid, big, ts)
  <2>2. e.kind \in Kinds /\ e.ts = ts
    <3> HIDE DEF ts
    <3> QED
      BY PointKnown
  <2>3. Deliver(e) \/ Lose(e)
    BY <2>1 DEF Happens
  <2> HIDE DEF e
  <2>4. StreamInv'
    BY <1>1, <1>2, <2>2, <2>3
  <2> QED
    BY <2>1, <2>4 DEF WorldOK
<1>6. CASE PresentBegins \/ FlipHappens
  <2>1. UNCHANGED <<scene, open>>
    BY <1>6 DEF PresentBegins, FlipHappens, world
  <2> DEFINE Comes(kind) == \E d \in scene.frameDelays : \E pid :
                              Deliver([Raw(kind, pid, now + d) EXCEPT !.key = 1])
  <2>2. PICK kind \in {"PRESENT_START", "FLIP"} : Comes(kind)
    <3>1. PresentBegins => Comes("PRESENT_START")
      BY DEF PresentBegins
    <3>2. FlipHappens => Comes("FLIP")
      BY DEF FlipHappens
    <3> HIDE DEF Comes
    <3> QED
      BY <1>6, <3>1, <3>2
  <2>3. PICK d \in scene.frameDelays :
          \E pid : Deliver([Raw(kind, pid, now + d) EXCEPT !.key = 1])
    BY <2>2
  <2>4. PICK pid : Deliver([Raw(kind, pid, now + d) EXCEPT !.key = 1])
    BY <2>3
  <2> DEFINE ts == now + d
             e == [Raw(kind, pid, ts) EXCEPT !.key = 1]
  <2>5. e.kind \in Kinds /\ e.ts = ts
    <3>1. kind \in Kinds
      BY DEF Kinds, FrameKinds
    <3> HIDE DEF ts
    <3> QED
      BY <3>1, RawKnown
  <2>6. Deliver(e)
    BY <2>4
  <2> HIDE DEF e
  <2>7. StreamInv'
    BY <1>1, <1>2, <2>5, <2>6
  <2> QED
    BY <2>1, <2>7 DEF WorldOK
<1>7. CASE PresentEnds
  <2>1. UNCHANGED <<scene, open>>
    BY <1>7 DEF PresentEnds
  <2>2. PICK pid : Deliver([Raw("PRESENT_STOP", pid, now) EXCEPT !.key = 1])
    BY <1>7 DEF PresentEnds
  <2> DEFINE e == [Raw("PRESENT_STOP", pid, now) EXCEPT !.key = 1]
  <2>3. e.kind \in Kinds /\ e.ts = now
    <3>1. "PRESENT_STOP" \in Kinds
      BY DEF Kinds, FrameKinds
    <3> QED
      BY <3>1, RawKnown
  <2>4. Deliver(e)
    BY <2>2
  <2> HIDE DEF e
  <2>5. e.ts \in Int /\ now <= e.ts
    BY <1>1, <2>3
  <2>6. StreamInv'
    BY <2>3, <2>4, <2>5, EventsReach
  <2> QED
    BY <2>1, <2>6 DEF WorldOK
<1> QED
  BY <1>3, <1>4, <1>5, <1>6, <1>7

(* The engine's steps take neither time nor streams further.               *)
SameStreams == UNCHANGED <<now, tables, pacing>>

(* The consumer keeps its frame, or brings it to the end.                  *)
SameFrame ==
  \/ call' = call \/ call'.pc = "IDLE"
  \/ /\ call.pc # "IDLE" /\ {"pc", "arg"} \subseteq DOMAIN call' /\ call'.arg = call.arg
     /\ call'.pc # "CALL" => call.arg.fn \in FrameFns

LEMMA StreamsKept ==
  ASSUME StreamInv, SameStreams, SameFrame, HeldKnown'
  PROVE  StreamInv'
<1> USE DEF StreamInv, SameStreams
<1>1. now' \in Int /\ TimesKnown(tables)' /\ StreamsOK'
  BY DEF StreamsOK
<1>2. CallKnown'
  <2>1. CASE call' = call \/ call'.pc = "IDLE"
    BY <2>1 DEF CallKnown
  <2>2. CASE /\ call.pc # "IDLE" /\ {"pc", "arg"} \subseteq DOMAIN call' /\ call'.arg = call.arg
             /\ call'.pc # "CALL" => call.arg.fn \in FrameFns
    BY <2>2 DEF CallKnown
  <2> QED
    BY <2>1, <2>2 DEF SameFrame
<1> QED
  BY <1>1, <1>2

LEMMA HeldSame ==
  ASSUME HeldKnown, held' = held \/ held' = NoTrigger \/ Timed(held')
  PROVE  HeldKnown'
  BY DEF HeldKnown, Timed

LEMMA TriggerTimed ==
  ASSUME NEW source, NEW reason, NEW pid, NEW tid, NEW core, NEW ts \in Int, NEW dur,
         NEW baseline, NEW ratio
  PROVE  Timed(TriggerInfo(source, reason, pid, tid, core, ts, dur, baseline, ratio))
  BY DEF Timed, TriggerInfo

LEMMA HandledFrame ==
  ASSUME StreamInv, call.pc = "CALL", call.arg.fn \in FrameFns,
         Hand("STAMPED") \/ Hand("EVALUATE") \/ IngestFrame \/ Return
  PROVE  SameFrame
<1>1. CASE Return
  BY <1>1 DEF Return, Idle, SameFrame
<1>2. CASE Hand("STAMPED") \/ Hand("EVALUATE") \/ IngestFrame
  <2>1. PICK pc \in {"STAMPED", "EVALUATE"} : Hand(pc)
    BY <1>2 DEF IngestFrame
  <2>2. {"pc", "arg"} \subseteq DOMAIN call' /\ call'.arg = call.arg
    BY <2>1 DEF Hand
  <2> QED
    BY <2>2 DEF SameFrame
<1> QED
  BY <1>1, <1>2

LEMMA EngineSteps ==
  ASSUME StreamInv,
         OnDxgiPresent \/ OnKernelFrameStall \/ ClaimTicket \/ WriteFrame \/ OnAudioGlitch
           \/ OnDwmGlitch
  PROVE  StreamInv'
<1>1. SameStreams
  BY DEF SameStreams, OnDxgiPresent, OnKernelFrameStall, ClaimTicket, WriteFrame, OnAudioGlitch,
         OnDwmGlitch
<1>2. HeldKnown
  BY DEF StreamInv
<1>3. CASE OnDxgiPresent
  <2>1. call.pc = "CALL" /\ call.arg.fn \in FrameFns /\ held' = held /\ (IngestFrame \/ Return)
    BY <1>3 DEF OnDxgiPresent, Calls, FrameFns
  <2> QED
    BY <1>1, <1>2, <2>1, HandledFrame, HeldSame, StreamsKept
<1>4. CASE OnKernelFrameStall
  <2>1. /\ call.pc = "CALL" /\ call.arg.fn \in FrameFns /\ held' = held
        /\ IngestFrame \/ Return \/ Hand("EVALUATE")
    BY <1>4 DEF OnKernelFrameStall, Calls, FrameFns, RecordFiltered
  <2> QED
    BY <1>1, <1>2, <2>1, HandledFrame, HeldSame, StreamsKept
<1>5. CASE ClaimTicket \/ WriteFrame
  <2>1. held' = held /\ call.pc \in {"STAMPED", "CLAIMED"}
    BY <1>5 DEF ClaimTicket, WriteFrame
  <2>2. /\ \/ call' = [call EXCEPT !.pc = "CLAIMED", !.ticket = bench.head]
           \/ call' = [call EXCEPT !.pc = "EVALUATE"]
    BY <1>5 DEF ClaimTicket, WriteFrame
  <2>3. {"pc", "arg"} \subseteq DOMAIN call /\ call.arg.fn \in FrameFns
    BY <2>1 DEF StreamInv, CallKnown
  <2>4. {"pc", "arg"} \subseteq DOMAIN call' /\ call'.arg = call.arg
    BY <2>2, <2>3
  <2>5. SameFrame
    BY <2>1, <2>3, <2>4 DEF SameFrame
  <2> QED
    BY <1>1, <1>2, <2>1, <2>5, HeldSame, StreamsKept
<1>6. CASE OnAudioGlitch \/ OnDwmGlitch
  <2>1. Return /\ call.pc = "CALL"
    BY <1>6 DEF OnAudioGlitch, OnDwmGlitch, Calls
  <2>2. SameFrame
    BY <2>1 DEF Return, Idle, SameFrame
  <2>3. call.arg.ts \in Int
    BY <2>1 DEF StreamInv, CallKnown
  <2>4. held' = held \/ Timed(held')
    <3>1. ASSUME NEW t, Hold(t), Timed(t) PROVE held' = held \/ Timed(held')
      BY <3>1 DEF Hold
    <3>2. CASE OnAudioGlitch
      <4> DEFINE t == TriggerInfo("AUDIO_GLITCH", "AUDIO_BUFFER_UNDERRUN", engine.pid, 0,
                                  call.arg.core, call.arg.ts, 0, 0, 0)
      <4>1. held' = held \/ Hold(t)
        BY <3>2 DEF OnAudioGlitch
      <4>2. Timed(t)
        BY <2>3, TriggerTimed
      <4> HIDE DEF t
      <4> QED
        BY <3>1, <4>1, <4>2
    <3>3. CASE OnDwmGlitch
      <4>1. \/ held' = held
            \/ \E pid, core, dur, base, ratio :
                 Hold(TriggerInfo("DWM_GLITCH", "DWM_COMPOSITOR_GLITCH", pid, 0, core,
                                  call.arg.ts, dur, base, ratio))
        BY <3>3 DEF OnDwmGlitch, Initiate, RecordFiltered
      <4>2. CASE \E pid, core, dur, base, ratio :
                 Hold(TriggerInfo("DWM_GLITCH", "DWM_COMPOSITOR_GLITCH", pid, 0, core,
                                  call.arg.ts, dur, base, ratio))
        BY <2>3, <3>1, <4>2, TriggerTimed
      <4> QED
        BY <4>1, <4>2
    <3> QED
      BY <1>6, <3>2, <3>3
  <2> QED
    BY <1>1, <1>2, <2>2, <2>4, HeldSame, StreamsKept
<1> QED
  BY <1>3, <1>4, <1>5, <1>6

LEMMA StutterTimed ==
  ASSUME NEW c, NEW r, c.ts \in Int, r.ts \in Int
  PROVE  Timed(StutterOf(c, r))
<1> DEFINE source == IF r.reason = "CADENCE_JUDDER" THEN "FRAME_PACING_JUDDER"
                     ELSE IF c.fn = "PRESENT" THEN "DXGI_PRESENT_STUTTER"
                     ELSE "KERNEL_FRAME_STALL"
           ts == IF r.ts > 0 THEN r.ts ELSE c.ts
           dur == IF r.dur > 0 THEN r.dur ELSE c.dur
           t == TriggerInfo(source, r.reason, c.pid, c.tid, c.core, ts, dur, r.baseline, r.ratio)
<1>1. StutterOf(c, r) = [t EXCEPT !.alternations = r.alternations, !.swing = r.swing]
  BY DEF StutterOf
<1>2. ts \in Int
  OBVIOUS
<1> HIDE DEF source, ts, dur
<1>3. Timed(t)
  BY <1>2, TriggerTimed
<1> HIDE DEF t
<1> QED
  BY <1>1, <1>3 DEF Timed

LEMMA EvaluateKept ==
  ASSUME WorldOK, StreamInv, EvaluateFrame
  PROVE  StreamInv'
<1> DEFINE c == call.arg
           r == Judged(c)
           t == StutterOf(c, r)
           s == Stats(c)
<1>1. /\ now \in Int /\ c.ts \in Int /\ c.ts <= now /\ c.dur \in Nat \ {0}
      /\ \A k \in DOMAIN pacing : Fit(pacing[k], now) /\ pacing[k].last <= c.ts
  BY DEF StreamInv, CallKnown, StreamsOK, EvaluateFrame
<1>2. call'.pc = "IDLE" /\ UNCHANGED <<now, tables>>
  BY DEF EvaluateFrame, Return, Idle
<1>3. Fit(s, c.ts)
  <2>1. CASE c.key \in DOMAIN pacing
    BY <1>1, <2>1 DEF Stats, Fit
  <2>2. CASE c.key \notin DOMAIN pacing
    <3>1. StatsOK(FreshStats(c.ts)) /\ FreshStats(c.ts).last = c.ts
      BY <1>1, FreshOK
    <3> QED
      BY <1>1, <2>2, <3>1 DEF Stats, Fit
  <2> QED
    BY <2>1, <2>2
<1> HIDE DEF s
<1>4. JudgedOK(r, c.ts)
  <2>1. r = EvaluateCommon(s, c.dur, c.ts, scene.cfg)
    BY DEF Judged, s
  <2>2. scene.cfg.mode \in Modes
    BY ScenarioAssumption DEF WorldOK, Modes
  <2>3. c.dur \in Int /\ c.dur >= 1
    BY <1>1
  <2> HIDE DEF c, r
  <2> QED
    BY <1>1, <1>3, <2>1, <2>2, <2>3, EvaluateCommonOK
<1>5. Fit(r.s, now) /\ Timed(t)
  <2>1. Fit(r.s, c.ts) /\ r.ts \in Int
    BY <1>4 DEF JudgedOK
  <2> HIDE DEF c, r
  <2>2. Fit(r.s, now)
    BY <1>1, <2>1, FitLater
  <2> QED
    BY <1>1, <2>1, <2>2, StutterTimed
<1>6. \/ pacing' = pacing
      \/ pacing' = Put(pacing, c.key, r.s)
  BY DEF EvaluateFrame
<1>7. \/ held' = held \/ held' = t
      \/ CollectingDxgi /\ \E x : held' = [held EXCEPT !.staged = x]
  BY DEF EvaluateFrame, StageStall
<1> HIDE DEF c, r, t
<1>8. StreamsOK'
  <2>1. CASE pacing' = pacing
    BY <1>1, <1>2, <2>1 DEF StreamsOK
  <2>2. CASE pacing' = Put(pacing, c.key, r.s)
    BY <1>1, <1>2, <1>5, <2>2 DEF StreamsOK, Put
  <2> QED
    BY <1>6, <2>1, <2>2
<1>9. HeldKnown'
  <2>1. HeldKnown
    BY DEF StreamInv
  <2>2. CASE held' = held \/ held' = t
    BY <1>5, <2>1, <2>2, HeldSame
  <2>3. CASE CollectingDxgi /\ \E x : held' = [held EXCEPT !.staged = x]
    <3>1. held # NoTrigger
      BY <2>3 DEF CollectingDxgi, NoTrigger
    <3>2. Timed(held)
      BY <2>1, <3>1 DEF HeldKnown
    <3>3. PICK x : held' = [held EXCEPT !.staged = x]
      BY <2>3
    <3>4. Timed(held')
      BY <3>2, <3>3 DEF Timed
    <3> QED
      BY <2>1, <3>4, HeldSame
  <2> QED
    BY <1>7, <2>2, <2>3
<1> QED
  BY <1>1, <1>2, <1>8, <1>9 DEF StreamInv, CallKnown

LEMMA ReportLater ==
  ASSUME StreamInv, Report
  PROVE  StreamInv'
<1> DEFINE t == Upgraded(held)
           to == t.ts + POST
<1>1. held # NoTrigger /\ now' = Max2(now, to) /\ held' = NoTrigger
      /\ UNCHANGED <<tables, call, pacing>>
  BY DEF Report
<1>2. Timed(held) /\ now \in Int
  BY <1>1 DEF StreamInv, HeldKnown
<1>3. t.ts = held.ts
  <2>1. t = held \/ \E x, y, z : t = [held EXCEPT !.source = x, !.dur = y, !.ratio = z]
    BY DEF Upgraded
  <2> QED
    BY <1>2, <2>1 DEF Timed
<1> HIDE DEF t
<1>4. to \in Int
  BY <1>2, <1>3, PathAssumption DEF Timed
<1> HIDE DEF to
<1>5. now' \in Int /\ now <= now'
  BY <1>1, <1>2, <1>4 DEF Max2
<1>6. StreamsOK'
  <2> SUFFICES ASSUME NEW k \in DOMAIN pacing PROVE Fit(pacing[k], now')
    BY <1>1 DEF StreamsOK
  <2>1. Fit(pacing[k], now)
    BY DEF StreamInv, StreamsOK
  <2> QED
    BY <1>2, <1>5, <2>1, FitLater
<1>7. HeldKnown'
  BY <1>1 DEF HeldKnown
<1>8. CallKnown'
  BY <1>1, <1>2, <1>5 DEF StreamInv, CallKnown
<1> QED
  BY <1>1, <1>5, <1>6, <1>7, <1>8 DEF StreamInv

LEMMA StreamStep ==
  ASSUME WorldOK, StreamInv, [Next]_vars
  PROVE  WorldOK' /\ StreamInv'
<1>1. CASE BeginSpan \/ EndSpan \/ PointEvent \/ PresentBegins \/ PresentEnds \/ FlipHappens
  BY <1>1, WorldStep
<1>2. CASE OnDxgiPresent \/ OnKernelFrameStall \/ ClaimTicket \/ WriteFrame \/ OnAudioGlitch
             \/ OnDwmGlitch
  <2>1. UNCHANGED <<scene, open>>
    BY <1>2 DEF OnDxgiPresent, OnKernelFrameStall, ClaimTicket, WriteFrame, OnAudioGlitch,
                OnDwmGlitch, world
  <2> QED
    BY <1>2, <2>1, EngineSteps DEF WorldOK
<1>3. CASE EvaluateFrame
  <2>1. UNCHANGED <<scene, open>>
    BY <1>3 DEF EvaluateFrame
  <2> QED
    BY <1>3, <2>1, EvaluateKept DEF WorldOK
<1>4. CASE Report
  <2>1. UNCHANGED <<scene, open>>
    BY <1>4 DEF Report, world
  <2> QED
    BY <1>4, <2>1, ReportLater DEF WorldOK
<1>5. CASE DetachTarget \/ AttachTarget \/ ResetByUser \/ Retarget \/ FinishRestart
            \/ UNCHANGED vars
  <2>1. UNCHANGED <<scene, open, now, tables, pacing, held, call>>
    <3>1. CASE DetachTarget \/ AttachTarget
      <4>1. \E pid : MoveTarget(pid)
        BY <3>1 DEF DetachTarget, AttachTarget
      <4> QED
        BY <4>1 DEF MoveTarget, world
    <3>2. CASE ResetByUser \/ Retarget \/ FinishRestart
      BY <3>2 DEF ResetByUser, Retarget, FinishRestart, world
    <3>3. CASE UNCHANGED vars
      BY <3>3 DEF vars, program, world
    <3> QED
      BY <1>5, <3>1, <3>2, <3>3
  <2>2. SameStreams /\ SameFrame
    BY <2>1 DEF SameStreams, SameFrame
  <2>3. HeldKnown'
    BY <2>1, HeldSame DEF StreamInv
  <2> QED
    BY <2>1, <2>2, <2>3, StreamsKept DEF WorldOK
<1> QED
  BY <1>1, <1>2, <1>3, <1>4, <1>5 DEF Next

LEMMA StreamInit ==
  ASSUME Init
  PROVE  WorldOK /\ StreamInv
<1>1. /\ scene \in Scenarios /\ now = scene.begin /\ tables = EmptyTables /\ call.pc = "IDLE"
      /\ pacing = <<>> /\ held = NoTrigger /\ open = {}
  BY DEF Init, Idle
<1>2. now \in Int
  BY <1>1, ScenarioAssumption
<1>3. /\ DOMAIN tables = TableFields /\ tables.present = <<>> /\ tables.last = <<>>
      /\ tables.flip = <<>>
  BY <1>1 DEF EmptyTables, TableFields
<1>4. TimesKnown(tables)
  BY <1>3 DEF TimesKnown
<1> QED
  BY <1>1, <1>2, <1>4 DEF WorldOK, StreamInv, HeldKnown, StreamsOK, CallKnown

LEMMA StreamsConsistent ==
  ASSUME StreamInv
  PROVE  PacingConsistent
<1> SUFFICES ASSUME NEW k \in DOMAIN pacing
             PROVE  LET s == pacing[k] IN
                    WindowExact(s) /\ CandidateOpen(s.cand) /\ EpisodeOpen(s)
  BY DEF PacingConsistent
<1> DEFINE s == pacing[k]
<1>1. StatsOK(s)
  BY DEF StreamInv, StreamsOK, Fit
<1> HIDE DEF s
<1>2. WindowExact(s) /\ CandidateOpen(s.cand)
  BY <1>1 DEF StatsOK, WindowOK, CandOK
<1>3. EpisodeOpen(s)
  BY <1>1 DEF StatsOK, EpisodeOK, EpisodeOpen
<1> QED
  BY <1>2, <1>3 DEF s

(* PacingConsistent for every window, warm-up, candidate and pacing        *)
(* configuration: whatever frames come, the running sums of a stream are   *)
(* those of the window they were taken from, a candidate is still open     *)
(* and an episode has its age (evaluate_frame_pacing and the handlers that *)
(* feed it).                                                               *)
THEOREM PacingAlwaysConsistent == Spec => []PacingConsistent
<1>1. Init => WorldOK /\ StreamInv
  BY StreamInit
<1>2. WorldOK /\ StreamInv /\ [Next]_vars => (WorldOK /\ StreamInv)'
  BY StreamStep
<1>3. StreamInv => PacingConsistent
  BY StreamsConsistent
<1> QED
  BY <1>1, <1>2, <1>3, PTL DEF Spec

-----------------------------------------------------------------------------
(* The cadence.  Frames of one length are told apart by their stream: they *)
(* are in its window, or in its candidate, and nothing else is there.      *)

(* Quotients, of tickets too.                                              *)
LEMMA Division ==
  ASSUME NEW n \in Nat \ {0}, NEW p \in Int
  PROVE  p = n * (p \div n) + (p % n) /\ p \div n \in Int /\ p % n \in 0 .. n - 1
  OBVIOUS

LEMMA Multiple ==
  ASSUME NEW n \in Nat \ {0}, NEW k \in Int
  PROVE  /\ n * k \in Int /\ (k = 0 => n * k = 0)
         /\ (k >= 1 => n * k >= n) /\ (k <= -1 => n * k <= -n)
  OBVIOUS

LEMMA ExactQuotient ==
  ASSUME NEW n \in Nat \ {0}, NEW y \in Int
  PROVE  (n * y) \div n = y
<1>1. PICK p \in Int : p = n * y
  OBVIOUS
<1>2. PICK q \in Int : q = p \div n
  BY Division
<1>3. p - n * q \in 0 .. n - 1
  <2>1. p = n * q + (p % n) /\ p % n \in 0 .. n - 1
    BY <1>2, Division
  <2>2. PICK r \in 0 .. n - 1 : r = p % n
    BY <2>1
  <2>3. n * q \in Int
    OBVIOUS
  <2> QED
    BY <2>1, <2>2, <2>3
<1>4. n * (y - q) = p - n * q
  BY <1>1
<1>5. y - q = 0
  <2>1. PICK k \in Int : k = y - q
    OBVIOUS
  <2>2. n * k \in 0 .. n - 1
    BY <1>3, <1>4, <2>1
  <2> QED
    BY <2>1, <2>2, Multiple
<1> QED
  BY <1>1, <1>2, <1>5

(* The mean of values that are all the same.                               *)
LEMMA MeanOfEquals ==
  ASSUME NEW x, NEW n \in Nat \ {0}, NEW d \in Int, x.n = n, x.sum = n * d
  PROVE  MeanOf(x) = TICK * d
<1>1. TICK * (n * d) = n * (TICK * d) /\ TICK * d \in Int
  BY DEF TICK
<1>2. (n * (TICK * d)) \div n = TICK * d
  BY <1>1, ExactQuotient
<1> QED
  BY <1>1, <1>2 DEF MeanOf

LEMMA Aging ==
  ASSUME NEW p \in Nat \ {0}, NEW s \in Nat, NEW k \in Int, k < p,
         NEW first \in Int, NEW last \in Int, NEW ts \in Int,
         (last - first) * p <= k * s, (ts - last) * p <= s
  PROVE  (ts - first) * p <= (k + 1) * s /\ ts - first <= s
<1>1. (ts - first) * p = (ts - last) * p + (last - first) * p
  OBVIOUS
<1>2. (k + 1) * s = k * s + s
  OBVIOUS
<1>3. (ts - first) * p <= (k + 1) * s
  <2>1. PICK a \in Int, b \in Int, c \in Int, e \in Int :
          a = (ts - first) * p /\ b = (ts - last) * p /\ c = (last - first) * p /\ e = k * s
    OBVIOUS
  <2> QED
    BY <1>1, <1>2, <2>1
<1>4. (k + 1) * s <= p * s
  <2>1. PICK m \in Nat : p = k + 1 + m
    <3>1. p - (k + 1) \in Nat /\ p = k + 1 + (p - (k + 1))
      OBVIOUS
    <3> QED
      BY <3>1
  <2>2. p * s = (k + 1) * s + m * s /\ m * s \in Nat /\ (k + 1) * s \in Int
    BY <2>1
  <2> QED
    BY <2>2
<1>5. (ts - first) * p <= p * s
  <2>1. PICK a \in Int, b \in Int, c \in Int :
          a = (ts - first) * p /\ b = (k + 1) * s /\ c = p * s
    OBVIOUS
  <2> QED
    BY <1>3, <1>4, <2>1
<1>6. ts - first <= s
  <2> SUFFICES ASSUME ts - first > s PROVE FALSE
    OBVIOUS
  <2>1. PICK m \in Nat : ts - first = s + 1 + m
    <3>1. ts - first - (s + 1) \in Nat /\ ts - first = s + 1 + (ts - first - (s + 1))
      OBVIOUS
    <3> QED
      BY <3>1
  <2>2. (ts - first) * p = p * s + p + m * p /\ m * p \in Nat /\ p * s \in Int
    BY <2>1
  <2> QED
    BY <1>5, <2>2
<1> QED
  BY <1>3, <1>6

-----------------------------------------------------------------------------
(* A frame of a length that can settle.                                    *)

Alarms == Max({1, POST_WARMUP_MIN_SAMPLES - INITIAL_WARMUP_SAMPLES})

LEMMA AlarmsBound ==
  /\ Alarms \in Nat /\ Alarms >= 1
  /\ POST_WARMUP_MIN_SAMPLES - INITIAL_WARMUP_SAMPLES <= Alarms
  /\ MAX_REPEATS = 1 + Alarms
<1>1. POST_WARMUP_MIN_SAMPLES - INITIAL_WARMUP_SAMPLES \in Int
  BY PacingAssumption
<1> QED
  <2>1. PICK k \in Int : k = POST_WARMUP_MIN_SAMPLES - INITIAL_WARMUP_SAMPLES
    BY <1>1
  <2>2. Max({1, k}) \in {1, k} /\ Max({1, k}) >= 1 /\ Max({1, k}) >= k
    BY Extremes
  <2>3. Alarms = Max({1, k}) /\ MAX_REPEATS = 1 + Max({1, k})
    BY <2>1 DEF Alarms, MAX_REPEATS
  <2> QED
    BY <2>1, <2>2, <2>3

CanSettle(d, cfg) ==
  /\ d \in Nat \ {0} /\ Runs(d)
  /\ cfg.mode \in Modes \ {"STATIC_ONLY"}
  /\ cfg.delta \in Nat \ {0} /\ cfg.static \in Nat
  /\ d * TICK # cfg.static

(* It is below the ceiling of a candidate, the clamp and a pause.          *)
LEMMA SettlesBelow ==
  ASSUME NEW gap \in Int, Runs(gap)
  PROVE  gap * TICK < CANDIDATE_SANITY_CEILING /\ gap < 2000
<1>1. PICK p \in Nat \ {0}, s \in Nat : p = PROMOTION_MIN_SAMPLES /\ s = STALE_CANDIDATE
  BY PacingAssumption
<1>2. gap * p <= s /\ s * 100 < p * 200000
  BY <1>1, CandidateAssumption DEF Runs, TICK, CANDIDATE_SANITY_CEILING
<1>3. gap < 2000
  <2> SUFFICES ASSUME gap >= 2000 PROVE FALSE
    OBVIOUS
  <2>1. PICK m \in Nat : gap = 2000 + m
    <3>1. gap - 2000 \in Nat /\ gap = 2000 + (gap - 2000)
      OBVIOUS
    <3> QED
      BY <3>1
  <2>2. gap * p = 2000 * p + m * p /\ m * p \in Nat
    BY <2>1
  <2> QED
    BY <1>2, <2>2
<1> QED
  BY <1>3 DEF TICK, CANDIDATE_SANITY_CEILING

(* It is slow, so a candidate gets to see it.                              *)
IsSlow(s, d, cfg) ==
  IsSpike(s, d, cfg) \/ (cfg.mode = "HYBRID" /\ d * TICK >= LiftedStatic(cfg, s))

LEMMA SlowSame ==
  ASSUME NEW s, NEW t, SameWindow(s, t), NEW d, NEW cfg
  PROVE  MeanOf(t) = MeanOf(s) /\ (IsSlow(t, d, cfg) <=> IsSlow(s, d, cfg))
<1>1. MeanOf(t) = MeanOf(s) /\ t.n = s.n
  BY DEF SameWindow, MeanOf
<1>2. IsSpike(t, d, cfg) <=> IsSpike(s, d, cfg)
  BY <1>1 DEF IsSpike
<1>3. LiftedStatic(cfg, t) = LiftedStatic(cfg, s)
  BY <1>1 DEF LiftedStatic
<1> QED
  BY <1>1, <1>2, <1>3 DEF IsSlow

LEMMA ExcessPositive ==
  ASSUME NEW cfg, cfg.delta \in Nat \ {0}, NEW mean \in Int
  PROVE  PacingParams(cfg, mean).delta \in Nat /\ PacingParams(cfg, mean).delta >= 1
<1> DEFINE mult == 140 + (60 * (Clamp(mean, 4167, 16667) - 4167)) \div 12500
           delta == Clamp((mean * 3) \div 10, 1500, 4000)
           P(m, e) == [mult |-> m, delta |-> e]
           auto == cfg.profile = "AUTO_ADAPTIVE" /\ mean > 0
           p == PacingParams(cfg, mean)
<1>1. p = CASE auto -> P(mult, delta)
            [] cfg.profile = "HIGH_REFRESH" -> P(140, 1500)
            [] cfg.profile = "CUSTOM" -> P(cfg.mult, cfg.delta)
            [] OTHER -> P(200, 4000)
  BY DEF PacingParams
<1>2. delta \in Int /\ delta >= 1500
  <2>1. PICK y \in Int : y = (mean * 3) \div 10
    OBVIOUS
  <2>2. PICK hi \in Int, lo \in Int : hi = 4000 /\ lo = 1500
    OBVIOUS
  <2>3. PICK x \in Int : x = Min({y, hi})
    BY Extremes
  <2>4. Max({lo, x}) \in Int /\ Max({lo, x}) >= lo
    BY Extremes
  <2>5. delta = Max({lo, x})
    BY <2>1, <2>2, <2>3 DEF Clamp
  <2> QED
    BY <2>2, <2>4, <2>5
<1> HIDE DEF mult, delta, p
<1>3. \/ p = P(mult, delta) \/ p = P(140, 1500) \/ p = P(cfg.mult, cfg.delta)
      \/ p = P(200, 4000)
  <2> HIDE DEF P
  <2>1. CASE auto
    BY <1>1, <2>1
  <2>2. CASE ~auto /\ cfg.profile = "HIGH_REFRESH"
    BY <1>1, <2>2
  <2>3. CASE ~auto /\ cfg.profile = "CUSTOM"
    BY <1>1, <2>3
  <2>4. CASE ~auto /\ cfg.profile # "HIGH_REFRESH" /\ cfg.profile # "CUSTOM"
    BY <1>1, <2>4
  <2> QED
    BY <2>1, <2>2, <2>3, <2>4
<1>4. p.delta \in {delta, 1500, cfg.delta, 4000}
  BY <1>3
<1> QED
  BY <1>2, <1>4 DEF p

(* The window knows nothing but frames of this length.                     *)
Uniform(s, d) ==
  s.n = WINDOW /\ s.sum = WINDOW * d /\ s.cand.n = 0 /\ \A i \in 0 .. WINDOW - 1 : s.dur[i] = d

LEMMA UniformNotSlow ==
  ASSUME NEW s, NEW d, NEW cfg, CanSettle(d, cfg), Uniform(s, d)
  PROVE  ~IsSlow(s, d, cfg)
<1> DEFINE excess == PacingParams(cfg, MeanOf(s)).delta
           mean == TICK * d
<1>1. MeanOf(s) = mean /\ mean \in Int /\ mean = d * TICK /\ d \in Nat /\ WINDOW \in Nat \ {0}
  <2>1. d \in Nat /\ WINDOW \in Nat \ {0}
    BY Window DEF CanSettle
  <2>2. MeanOf(s) = TICK * d
    BY <2>1, MeanOfEquals DEF Uniform
  <2> QED
    BY <2>1, <2>2 DEF TICK
<1>2. excess \in Nat /\ excess >= 1
  BY <1>1, ExcessPositive DEF CanSettle
<1> HIDE DEF excess, mean
<1>3. ~IsSpike(s, d, cfg)
  <2>1. IsSpike(s, d, cfg) => d * TICK - MeanOf(s) >= excess
    BY DEF IsSpike, excess
  <2> QED
    BY <1>1, <1>2, <2>1
<1>4. cfg.mode = "HYBRID" => ~(d * TICK >= LiftedStatic(cfg, s))
  <2> SUFFICES ASSUME cfg.mode = "HYBRID" PROVE ~(mean >= LiftedStatic(cfg, s))
    BY <1>1
  <2>1. s.n >= INITIAL_WARMUP_SAMPLES
    BY PacingAssumption DEF Uniform
  <2>2. LiftedStatic(cfg, s) = IF cfg.static < mean THEN Max({cfg.static, mean + excess})
                               ELSE cfg.static
    BY <1>1, <2>1 DEF LiftedStatic, excess
  <2>3. cfg.static \in Nat /\ cfg.static # mean
    BY <1>1 DEF CanSettle
  <2>4. PICK a \in Int, b \in Int : a = cfg.static /\ b = mean + excess
    BY <1>1, <1>2, <2>3
  <2>5. Max({a, b}) \in Int /\ Max({a, b}) >= b
    BY Extremes
  <2> QED
    BY <1>1, <1>2, <2>2, <2>3, <2>4, <2>5
<1> QED
  BY <1>3, <1>4 DEF IsSlow

CandidateRecords == [n : Nat, sum : Int, sq : Int, first : Int, skips : Nat, clean : Nat]

LEMMA MeanInt ==
  ASSUME NEW c, c.n \in Nat, c.sum \in Int
  PROVE  MeanOf(c) \in Int
<1>1. CASE c.n = 0
  BY <1>1 DEF MeanOf
<1>2. CASE c.n # 0
  <2>1. PICK n \in Nat \ {0}, a \in Int : n = c.n /\ a = TICK * c.sum
    BY <1>2 DEF TICK
  <2>2. a \div n \in Int
    OBVIOUS
  <2> QED
    BY <1>2, <2>1, <2>2 DEF MeanOf
<1> QED
  BY <1>1, <1>2

LEMMA CandidateGrows ==
  ASSUME NEW b \in CandidateRecords, NEW d \in Int
  PROVE  [[b EXCEPT !.clean = 0] EXCEPT !.skips = 0, !.n = @ + 1, !.sum = @ + d, !.sq = @ + d * d]
           = Grown(b, d)
<1> DEFINE c == [b EXCEPT !.clean = 0]
           Rec == CandidateRecords
<1>1. ASSUME NEW q \in Int
      PROVE  [c EXCEPT !.skips = 0, !.n = @ + 1, !.sum = @ + d, !.sq = @ + q]
               = [n |-> b.n + 1, sum |-> b.sum + d, sq |-> b.sq + q, first |-> b.first,
                  skips |-> 0, clean |-> 0]
  <2> DEFINE e == [c EXCEPT !.skips = 0, !.n = @ + 1, !.sum = @ + d, !.sq = @ + q]
             g == [n |-> b.n + 1, sum |-> b.sum + d, sq |-> b.sq + q, first |-> b.first,
                   skips |-> 0, clean |-> 0]
  <2>1. /\ c \in Rec /\ b \in Rec /\ c.n = b.n /\ c.sum = b.sum /\ c.sq = b.sq
        /\ c.first = b.first /\ c.clean = 0
    BY DEF CandidateRecords
  <2> HIDE DEF c
  <2>2. /\ e \in Rec /\ e.n = c.n + 1 /\ e.sum = c.sum + d /\ e.sq = c.sq + q
        /\ e.first = c.first /\ e.skips = 0 /\ e.clean = c.clean
    <3>1. e \in Rec
      <4>1. ASSUME NEW n \in Nat, NEW sum \in Int, NEW sq \in Int
            PROVE  [c EXCEPT !.skips = 0, !.n = n, !.sum = sum, !.sq = sq] \in Rec
        BY <2>1 DEF CandidateRecords
      <4>2. c.n + 1 \in Nat /\ c.sum + d \in Int /\ c.sq + q \in Int
        BY <2>1 DEF CandidateRecords
      <4> HIDE DEF Rec
      <4> QED
        BY <4>1, <4>2, Zenon
    <3>2. /\ e.n = c.n + 1 /\ e.sum = c.sum + d /\ e.sq = c.sq + q
          /\ e.first = c.first /\ e.skips = 0 /\ e.clean = c.clean
      BY <2>1 DEF CandidateRecords
    <3> QED
      BY <3>1, <3>2
  <2>3. g \in Rec
    BY <2>1 DEF CandidateRecords
  <2>4. /\ g.n = b.n + 1 /\ g.sum = b.sum + d /\ g.sq = b.sq + q
        /\ g.first = b.first /\ g.skips = 0 /\ g.clean = 0
    OBVIOUS
  <2> HIDE DEF e, g
  <2>5. e = g
    BY <2>1, <2>2, <2>3, <2>4 DEF CandidateRecords
  <2> QED
    BY <2>5 DEF e, g
<1>2. d * d \in Int
  OBVIOUS
<1> QED
  BY <1>1, <1>2 DEF Grown

(* What becomes of the candidate, told by the outcome.                     *)
Tolerance(c) == Max({1500, (MeanOf(c) * 15) \div 100})

Strays(s, d) == Deviation(s, d) > Tolerance([s.cand EXCEPT !.clean = 0])
Replaced(s, outcome, c) == [outcome |-> outcome, s |-> [s EXCEPT !.cand = c]]
Settles(c) == c.n >= PROMOTION_MIN_SAMPLES /\ Steady(c)

Processed(s, d, ts, p) ==
  \/ /\ s.cand.n = 0 \/ s.cand.n >= CANDIDATE_MAX_SAMPLES
     /\ p = Replaced(s, "SEEDED", Seeded(d, ts))
  \/ /\ s.cand.n # 0 /\ Strays(s, d)
     /\ \E o \in {"RESET", "STALLED"} : p = Replaced(s, o, NoCandidate)
  \/ /\ s.cand.n # 0 /\ Strays(s, d)
     /\ \E e : p = Replaced(s, "SKIPPED", e)
  \/ /\ s.cand.n # 0 /\ ~Settles(Grown(s.cand, d))
     /\ p = Replaced(s, "ACCUMULATED", Grown(s.cand, d))
  \/ /\ s.cand.n # 0 /\ Settles(Grown(s.cand, d))
     /\ p = [outcome |-> "PROMOTED",
             s |-> Promoted(s, Grown(s.cand, d).sum \div Grown(s.cand, d).n)]

LEMMA Outcomes ==
  ASSUME NEW s, StatsOK(s), NEW d \in Int, d >= 1, NEW ts \in Int
  PROVE  Processed(s, d, ts, ProcessCandidate(s, d, ts))
<1> DEFINE b == s.cand
           c == [s.cand EXCEPT !.clean = 0]
           dev == Deviation(s, d)
           tol == Max({1500, (MeanOf(c) * 15) \div 100})
           p == ProcessCandidate(s, d, ts)
           With(e) == [s EXCEPT !.cand = e]
           g == [c EXCEPT !.skips = 0, !.n = @ + 1, !.sum = @ + d, !.sq = @ + d * d]
           u == [c EXCEPT !.skips = @ + 1]
           sd == Seeded(d, ts)
           gb == Grown(b, d)
           Outcome(o, cand) == [outcome |-> o, s |-> With(cand)]
           grows == gb.n >= PROMOTION_MIN_SAMPLES /\ Steady(gb)
           promoted == [outcome |-> "PROMOTED", s |-> Promoted(s, gb.sum \div gb.n)]
<1>1. b \in CandidateRecords /\ c.n = b.n /\ c.sum = b.sum
  BY DEF StatsOK, CandOK, CandidateRecords
<1>2. g = gb /\ c.n \in Nat
  BY <1>1, CandidateGrows DEF CandidateRecords
<1>3. c.n # 0 => dev \in Int /\ tol \in Int /\ tol >= 1500
  <2>1. b.n \in Nat /\ b.sum \in Int
    BY <1>1 DEF CandidateRecords
  <2>2. MeanOf(c) \in Int /\ MeanOf(b) \in Int
    BY <1>1, <2>1, MeanInt
  <2>3. dev \in Int
    BY <2>2 DEF Deviation, Abs, TICK
  <2>4. PICK m \in Int, lo \in Int : m = (MeanOf(c) * 15) \div 100 /\ lo = 1500
    BY <2>2
  <2>5. Max({lo, m}) \in Int /\ Max({lo, m}) >= lo
    BY Extremes
  <2> QED
    BY <2>3, <2>4, <2>5
<1>4. p = CASE c.n = 0 -> Outcome("SEEDED", sd)
            [] c.n > 0 /\ dev > 2 * tol -> Outcome("RESET", NoCandidate)
            [] c.n > 0 /\ dev > tol /\ dev <= 2 * tol ->
                 IF c.skips + 1 > MAX_CONSECUTIVE_SKIPS
                 THEN Outcome("STALLED", NoCandidate) ELSE Outcome("SKIPPED", u)
            [] c.n > 0 /\ dev <= tol /\ c.n >= CANDIDATE_MAX_SAMPLES ->
                 Outcome("SEEDED", sd)
            [] OTHER ->
                 IF g.n >= PROMOTION_MIN_SAMPLES /\ Steady(g)
                 THEN [outcome |-> "PROMOTED", s |-> Promoted(s, g.sum \div g.n)]
                 ELSE Outcome("ACCUMULATED", g)
  BY DEF ProcessCandidate
<1> HIDE DEF g, u, c, p, b, With, sd, gb, dev, tol
<1>5. \/ p = Outcome("SEEDED", sd) /\ (b.n = 0 \/ b.n >= CANDIDATE_MAX_SAMPLES)
      \/ b.n # 0 /\ dev > tol /\ \E o \in {"RESET", "STALLED"} : p = Outcome(o, NoCandidate)
      \/ b.n # 0 /\ dev > tol /\ p = Outcome("SKIPPED", u)
      \/ b.n # 0 /\ ~grows /\ p = Outcome("ACCUMULATED", gb)
      \/ b.n # 0 /\ grows /\ p = promoted
  <2> HIDE DEF Outcome
  <2>1. CASE c.n = 0
    BY <1>1, <1>4, <2>1
  <2>2. CASE c.n # 0 /\ dev > 2 * tol
    <3>1. dev > tol /\ c.n > 0
      BY <1>2, <1>3, <2>2
    <3> QED
      BY <1>1, <1>4, <2>2, <3>1
  <2>3. CASE c.n # 0 /\ ~(dev > 2 * tol) /\ dev > tol
    <3>1. dev <= 2 * tol /\ c.n > 0
      BY <1>2, <1>3, <2>3
    <3> QED
      BY <1>1, <1>4, <2>3, <3>1
  <2>4. CASE c.n # 0 /\ ~(dev > 2 * tol) /\ ~(dev > tol)
    <3> DEFINE full == c.n > 0 /\ dev <= tol /\ c.n >= CANDIDATE_MAX_SAMPLES
    <3>1. CASE full
      BY <1>1, <1>4, <2>4, <3>1
    <3>2. CASE ~full
      BY <1>1, <1>2, <1>4, <2>4, <3>2
    <3> QED
      BY <3>1, <3>2
  <2> QED
    BY <2>1, <2>2, <2>3, <2>4
<1> QED
  BY <1>5 DEF b, c, p, With, sd, gb, dev, tol, Processed, Strays, Tolerance, Replaced, Settles

-----------------------------------------------------------------------------
(* What the phases leave of the statistics.                                *)

LEMMA CandidateFields ==
  ASSUME NEW s, DOMAIN s = StatFields, NEW c
  PROVE  LET t == [s EXCEPT !.cand = c] IN
         SameWindow(s, t) /\ t.cand = c /\ t.ep = s.ep /\ t.last = s.last /\ t.delta = s.delta
  BY DEF StatFields, SameWindow

(* 1 once an episode has been closed, and no new one begun.                *)
Slack(s) == IF s.delta = 0 /\ ~s.ep.active THEN 1 ELSE 0

LEMMA ResetFields ==
  ASSUME NEW s, StatsOK(s)
  PROVE  LET t == ResetCadence(s) IN
         /\ SameWindow(s, t) /\ t.cand = s.cand /\ t.ep = s.ep /\ t.last = s.last
         /\ Slack(t) >= Slack(s)
<1>1. DOMAIN s = StatFields
  BY DEF StatsOK
<1>2. CASE s.ep.active
  BY <1>2 DEF ResetCadence, SameWindow, Slack
<1>3. CASE ~s.ep.active
  <2> DEFINE t == [s EXCEPT !.delta = 0]
  <2>1. ResetCadence(s) = t
    BY <1>3 DEF ResetCadence
  <2>2. SameWindow(s, t) /\ t.cand = s.cand /\ t.ep = s.ep /\ t.last = s.last /\ t.delta = 0
    BY <1>1 DEF StatFields, SameWindow
  <2> HIDE DEF t
  <2>3. Slack(t) >= Slack(s)
    BY <1>3, <2>2 DEF Slack
  <2> QED
    BY <2>1, <2>2, <2>3
<1> QED
  BY <1>2, <1>3

LEMMA CloseFields ==
  ASSUME NEW s, StatsOK(s)
  PROVE  LET t == CloseEpisode(s) IN
         SameWindow(s, t) /\ t.cand = s.cand /\ t.last = s.last /\ Slack(t) = 1
<1> DEFINE t == CloseEpisode(s)
<1>1. DOMAIN s = StatFields
  BY DEF StatsOK
<1>2. /\ SameWindow(s, t) /\ t.cand = s.cand /\ t.last = s.last /\ t.delta = 0
      /\ t.ep = NoEpisode
  BY <1>1 DEF CloseEpisode, StatFields, SameWindow
<1> HIDE DEF t
<1>3. Slack(t) = 1
  BY <1>2 DEF Slack, NoEpisode
<1> QED
  BY <1>2, <1>3 DEF t

AfterPush(s, x, ts, t) ==
  /\ DOMAIN t = StatFields /\ t.last = ts /\ t.cand = s.cand /\ t.ep = s.ep
  /\ t.n = IF s.n = WINDOW THEN WINDOW ELSE s.n + 1
  /\ t.dur = [s.dur EXCEPT ![s.idx] = x]
  /\ t.sum = s.sum - (IF s.n = WINDOW THEN s.dur[s.idx] ELSE 0) + x

LEMMA PushFields ==
  ASSUME NEW s, StatsOK(s), NEW x \in Int, NEW ts \in Int, s.last <= ts
  PROVE  AfterPush(s, x, ts, Push(s, x, ts))
<1> DEFINE old == IF s.n = WINDOW THEN s.dur[s.idx] ELSE 0
           n == Min({WINDOW, s.n + 1})
           dur == [s.dur EXCEPT ![s.idx] = x]
           sum == s.sum - old + x
           sq == s.sq - old * old + x * x
           idx == (s.idx + 1) % WINDOW
           delta == CadenceDelta(s, x)
           t == [s EXCEPT !.n = n, !.dur = dur, !.sum = sum, !.sq = sq, !.idx = idx,
                          !.delta = delta]
           u == [t EXCEPT !.last = ts]
<1>1. Push(s, x, ts) = Forward(t, ts)
  BY DEF Push, StatsOK, StatFields
<1>2. n = IF s.n = WINDOW THEN WINDOW ELSE s.n + 1
  <2>1. WINDOW \in Int /\ s.n \in 0 .. WINDOW /\ s.n + 1 \in Int
    BY Window DEF StatsOK, WindowOK
  <2>2. PICK a \in Int, b \in Int : a = WINDOW /\ b = s.n + 1
    BY <2>1
  <2>3. Min({a, b}) \in {a, b} /\ Min({a, b}) <= a /\ Min({a, b}) <= b
    BY Extremes
  <2>4. n = Min({a, b})
    BY <2>2
  <2> HIDE DEF n
  <2> QED
    BY <2>1, <2>2, <2>3, <2>4
<1>3. DOMAIN s = StatFields /\ s.last \in Int
  BY DEF StatsOK
<1> HIDE DEF n, dur, sum, sq, idx, delta
<1>4. /\ DOMAIN t = StatFields /\ t.n = n /\ t.dur = dur /\ t.sum = sum
      /\ t.last = s.last /\ t.cand = s.cand /\ t.ep = s.ep
  BY <1>3 DEF StatFields
<1>5. /\ DOMAIN u = StatFields /\ u.n = n /\ u.dur = dur /\ u.sum = sum
      /\ u.last = ts /\ u.cand = s.cand /\ u.ep = s.ep
  BY <1>4 DEF StatFields
<1>6. Forward(t, ts) = IF ts > t.last \/ t.last = 0 THEN u ELSE t
  BY DEF Forward
<1> HIDE DEF t, u
<1>7. Forward(t, ts) = u \/ (Forward(t, ts) = t /\ t.last = ts)
  BY <1>3, <1>4, <1>6
<1>8. \/ Push(s, x, ts) = u
      \/ Push(s, x, ts) = t /\ t.last = ts
  BY <1>1, <1>7
<1> QED
  BY <1>2, <1>4, <1>5, <1>8 DEF dur, sum, old, AfterPush

(* A frame past the warm-up leaves the stream past it, and on time.        *)
Past(s, ts) == s.last = ts /\ s.n >= POST_WARMUP_MIN_SAMPLES

LEMMA PastSame ==
  ASSUME NEW s, NEW t, NEW ts, Past(s, ts), SameWindow(s, t), t.last = s.last
  PROVE  Past(t, ts)
  BY DEF Past, SameWindow

LEMMA WindowPast == WINDOW >= POST_WARMUP_MIN_SAMPLES /\ POST_WARMUP_MIN_SAMPLES \in Nat \ {0}
  BY PacingAssumption

LEMMA PushPast ==
  ASSUME NEW s, NEW ts \in Int, StatsOK(s), Past(s, ts), NEW x \in Int
  PROVE  Past(Push(s, x, ts), ts)
<1> DEFINE t == Push(s, x, ts)
<1>1. s.last <= ts /\ s.n \in 0 .. WINDOW
  BY DEF Past, StatsOK, WindowOK
<1>2. t.last = ts /\ t.n = IF s.n = WINDOW THEN WINDOW ELSE s.n + 1
  <2>1. AfterPush(s, x, ts, t)
    BY <1>1, PushFields
  <2> HIDE DEF t
  <2> QED
    BY <2>1 DEF AfterPush
<1> HIDE DEF t
<1>3. Past(t, ts)
  BY <1>1, <1>2, Window, WindowPast DEF Past
<1> QED
  BY <1>3 DEF t

LEMMA PromotedFields ==
  ASSUME NEW s, DOMAIN s = StatFields, NEW seed \in Int
  PROVE  LET t == Promoted(s, seed) IN
         /\ t.n = WINDOW /\ t.sum = WINDOW * seed /\ t.cand = NoCandidate /\ t.last = s.last
         /\ \A i \in 0 .. WINDOW - 1 : t.dur[i] = seed
<1> DEFINE dur == [i \in 0 .. WINDOW - 1 |-> seed]
           sum == seed * WINDOW
           sq == seed * seed * WINDOW
           t == [s EXCEPT !.dur = dur, !.sum = sum, !.sq = sq, !.n = WINDOW,
                          !.idx = 0, !.cand = NoCandidate]
<1>1. Promoted(s, seed) = t
  BY DEF Promoted
<1>2. sum = WINDOW * seed
  BY Window
<1>3. \A i \in 0 .. WINDOW - 1 : dur[i] = seed
  OBVIOUS
<1> HIDE DEF dur, sum, sq
<1>4. t.n = WINDOW /\ t.sum = sum /\ t.cand = NoCandidate /\ t.last = s.last /\ t.dur = dur
  BY DEF StatFields
<1> HIDE DEF t
<1> QED
  BY <1>1, <1>2, <1>3, <1>4

LEMMA SlowFramePast ==
  ASSUME NEW s, NEW ts \in Int, StatsOK(s), Past(s, ts), NEW d \in Int, d >= 1, NEW reason
  PROVE  Past(SlowFrame(s, d, ts, reason).s, ts)
<1> DEFINE t == ResetCadence(s)
           p == ProcessCandidate(t, d, ts)
           r == SlowFrame(s, d, ts, reason)
           g == Grown(t.cand, d)
<1>1. StatsOK(t) /\ Past(t, ts)
  <2>1. Fit(s, ts)
    BY DEF Fit, Past, StatsOK
  <2>2. Fit(t, ts)
    BY <2>1, ResetFit
  <2> QED
    BY <2>2, ResetFields, PastSame DEF Fit
<1>2. r.s = p.s
  <2>1. r \in {NoStutter(p.s, MeanOf(p.s), 100), NoStutter(p.s, MeanOf(s), Ratio(MeanOf(s), d)),
               Result(p.s, reason, MeanOf(s), Ratio(MeanOf(s), d))}
    BY DEF SlowFrame
  <2> HIDE DEF p, r
  <2> QED
    BY <2>1 DEF NoStutter, Result
<1> HIDE DEF t
<1>3. \/ \E e : p.s = [t EXCEPT !.cand = e]
      \/ g.n \in Nat \ {0} /\ g.sum \in Int /\ p.s = Promoted(t, g.sum \div g.n)
  <2>1. t.cand \in CandidateRecords
    BY <1>1 DEF StatsOK, CandOK, CandidateRecords
  <2>2. g.n \in Nat \ {0} /\ g.sum \in Int
    BY <2>1 DEF Grown, CandidateRecords
  <2>3. Processed(t, d, ts, p)
    BY <1>1, Outcomes
  <2> HIDE DEF p
  <2>4. \/ \E o, e : p = Replaced(t, o, e)
        \/ p = [outcome |-> "PROMOTED", s |-> Promoted(t, g.sum \div g.n)]
    BY <2>3, Zenon DEF Processed
  <2> HIDE DEF g
  <2>5. CASE \E o, e : p = Replaced(t, o, e)
    <3>1. PICK o, e : p = Replaced(t, o, e)
      BY <2>5
    <3>2. p.s = [t EXCEPT !.cand = e]
      BY <3>1 DEF Replaced
    <3> QED
      BY <3>2
  <2>6. CASE p = [outcome |-> "PROMOTED", s |-> Promoted(t, g.sum \div g.n)]
    BY <2>2, <2>6
  <2> QED
    BY <2>4, <2>5, <2>6
<1> HIDE DEF p, r, g
<1>4. CASE \E e : p.s = [t EXCEPT !.cand = e]
  <2>1. PICK e : p.s = [t EXCEPT !.cand = e]
    BY <1>4
  <2>2. SameWindow(t, p.s) /\ p.s.last = t.last
    BY <1>1, <2>1, CandidateFields DEF StatsOK
  <2> QED
    BY <1>1, <1>2, <2>2, PastSame DEF r
<1>5. CASE g.n \in Nat \ {0} /\ g.sum \in Int /\ p.s = Promoted(t, g.sum \div g.n)
  <2>1. PICK x \in Int : x = g.sum \div g.n
    BY <1>5, Division
  <2>2. p.s.n = WINDOW /\ p.s.last = t.last
    BY <1>1, <1>5, <2>1, PromotedFields DEF StatsOK
  <2>3. Past(p.s, ts)
    BY <1>1, <2>2, WindowPast DEF Past
  <2> QED
    BY <1>2, <2>3 DEF r
<1> QED
  BY <1>3, <1>4, <1>5

-----------------------------------------------------------------------------
(* A candidate of frames of one length only: it is steady, and no further  *)
(* frame of that length strays from it.                                    *)

Pure(c, d) == c.sum = c.n * d /\ c.sq = c.n * (d * d)

LEMMA PureGrows ==
  ASSUME NEW c \in CandidateRecords, NEW d \in Int, Pure(c, d)
  PROVE  Pure(Grown(c, d), d) /\ Grown(c, d).n = c.n + 1 /\ Grown(c, d).first = c.first
<1>1. PICK n \in Nat, q \in Int : n = c.n /\ q = d * d
  BY DEF CandidateRecords
<1>2. n * d + d = (n + 1) * d /\ n * q + q = (n + 1) * q
  BY <1>1
<1>3. c.sum = n * d /\ c.sq = n * q
  BY <1>1 DEF Pure
<1> DEFINE g == Grown(c, d)
<1>4. g.n = n + 1 /\ g.sum = n * d + d /\ g.sq = n * q + q /\ g.first = c.first
  BY <1>1, <1>3 DEF Grown
<1> HIDE DEF g
<1>5. g.n = n + 1 /\ g.sum = (n + 1) * d /\ g.sq = (n + 1) * (d * d)
  BY <1>1, <1>2, <1>4
<1>6. Pure(g, d)
  BY <1>5 DEF Pure
<1> QED
  BY <1>1, <1>4, <1>6 DEF g

LEMMA SigmaAtLeast ==
  ASSUME NEW c, MeanOf(c) \in Int
  PROVE  SigmaTicks(c) \in Nat /\ SigmaTicks(c) >= 1
<1>1. PICK m \in Int, lo \in Int, hi \in Int :
        m = MeanOf(c) \div (10 * TICK) /\ lo = 5 /\ hi = 50
  BY DEF TICK
<1>2. PICK x \in Int : x = Min({m, hi})
  BY Extremes
<1>3. Max({lo, x}) \in Int /\ Max({lo, x}) >= lo
  BY Extremes
<1>4. SigmaTicks(c) = Max({lo, x})
  BY <1>1, <1>2 DEF SigmaTicks, Clamp
<1> QED
  BY <1>1, <1>3, <1>4

LEMMA PureSteady ==
  ASSUME NEW c, c.n \in Nat \ {0}, NEW d, NEW cfg, CanSettle(d, cfg), Pure(c, d)
  PROVE  Steady(c) /\ MeanOf(c) = TICK * d
<1>1. PICK n \in Nat \ {0} : n = c.n
  OBVIOUS
<1>2. d \in Nat
  BY DEF CanSettle
<1>3. MeanOf(c) = TICK * d
  BY <1>1, <1>2, MeanOfEquals DEF Pure
<1>4. MeanOf(c) \in Int /\ MeanOf(c) < CANDIDATE_SANITY_CEILING
  <2>1. d * TICK < CANDIDATE_SANITY_CEILING
    BY <1>2, SettlesBelow DEF CanSettle
  <2>2. d * TICK = TICK * d /\ TICK * d \in Int
    BY <1>2 DEF TICK
  <2> QED
    BY <1>3, <2>1, <2>2
<1>5. Variance(c) = 0
  <2>1. Variance(c) = n * (n * (d * d)) - (n * d) * (n * d)
    BY <1>1 DEF Pure, Variance
  <2>2. n * (n * (d * d)) = (n * d) * (n * d)
    BY <1>2
  <2>3. (n * d) * (n * d) \in Int
    BY <1>2
  <2> QED
    BY <2>1, <2>2, <2>3
<1>6. \E y \in Int : y >= 1 /\ (c.n * SigmaTicks(c)) * (c.n * SigmaTicks(c)) = y
  <2>1. PICK k \in Nat : k = SigmaTicks(c) /\ k >= 1
    BY <1>4, SigmaAtLeast
  <2>2. PICK x \in Int : x = n * k
    OBVIOUS
  <2>3. x >= 1
    BY <2>1, <2>2, Multiple
  <2>4. x * x \in Int /\ x * x >= 1
    BY <2>3
  <2> QED
    BY <1>1, <2>1, <2>2, <2>4
<1> QED
  <2>1. PICK y \in Int : y >= 1 /\ (c.n * SigmaTicks(c)) * (c.n * SigmaTicks(c)) = y
    BY <1>6
  <2> QED
    BY <1>3, <1>4, <1>5, <2>1 DEF Steady

LEMMA PureOnCourse ==
  ASSUME NEW s, s.cand \in CandidateRecords, s.cand.n # 0, NEW d, NEW cfg, CanSettle(d, cfg),
         Pure(s.cand, d)
  PROVE  ~Strays(s, d)
<1> DEFINE b == s.cand
           c == [s.cand EXCEPT !.clean = 0]
<1>1. b.n \in Nat \ {0} /\ b.sum \in Int /\ c.n = b.n /\ c.sum = b.sum /\ d \in Nat
  BY DEF CandidateRecords, CanSettle
<1>2. MeanOf(b) = TICK * d
  BY <1>1, PureSteady
<1> HIDE DEF c, b
<1>3. Deviation(s, d) = 0
  <2>1. d * TICK - TICK * d = 0
    BY <1>1 DEF TICK
  <2>2. d * TICK - MeanOf(s.cand) = 0
    BY <1>2, <2>1 DEF b
  <2> QED
    BY <2>2 DEF Deviation, Abs
<1>4. Tolerance(c) \in Int /\ Tolerance(c) >= 0
  <2>1. MeanOf(c) \in Int
    BY <1>1, MeanInt
  <2>2. PICK m \in Int, lo \in Int : m = (MeanOf(c) * 15) \div 100 /\ lo = 1500
    BY <2>1
  <2>3. Max({lo, m}) \in Int /\ Max({lo, m}) >= lo
    BY Extremes
  <2>4. Tolerance(c) = Max({lo, m})
    BY <2>2 DEF Tolerance
  <2> QED
    BY <2>2, <2>3, <2>4
<1>5. ~(Deviation(s, d) > Tolerance(c))
  BY <1>3, <1>4
<1> QED
  BY <1>5 DEF Strays, c

-----------------------------------------------------------------------------
(* The candidate of a run: frames of its length, and each of them is slow. *)

OneLength(s, d, cfg) ==
  s.cand.n \in 1 .. PROMOTION_MIN_SAMPLES - 1 /\ Pure(s.cand, d) /\ IsSlow(s, d, cfg)

(* It has not gone stale: it has all the frames that the run had  *)
(* time for, but one that a judder report may have kept from it.           *)
Lives(s, frames) ==
  (s.last - s.cand.first) * PROMOTION_MIN_SAMPLES <= (frames + Slack(s)) * STALE_CANDIDATE

(* How often a run has been called a stutter, as far as its stream tells:  *)
(* not at all, as often as it came while the stream warmed up, or, past    *)
(* that, once more when a candidate of its frames was begun.  Here late is *)
(* 1 from the time a frame comes until the stream has it.                  *)
FewAlarms(s, d, f, cfg, late) ==
  \/ f = 0
  \/ s.n < POST_WARMUP_MIN_SAMPLES /\ f <= s.n - INITIAL_WARMUP_SAMPLES
  \/ s.n >= POST_WARMUP_MIN_SAMPLES /\ s.cand.n = 0 /\ f <= Alarms
  \/ /\ s.n >= POST_WARMUP_MIN_SAMPLES /\ f <= Alarms + 1
     /\ Uniform(s, d) \/ (OneLength(s, d, cfg) /\ Lives(s, s.cand.n - 1 + late))

LEMMA FewerAlarms ==
  ASSUME NEW s, s.n \in Nat, NEW d, NEW cfg, NEW late, NEW f \in Nat, NEW g \in Nat, f <= g,
         FewAlarms(s, d, g, cfg, late)
  PROVE  FewAlarms(s, d, f, cfg, late)
<1>1. INITIAL_WARMUP_SAMPLES \in Int
  BY PacingAssumption
<1>2. CASE g = 0
  BY <1>2 DEF FewAlarms
<1>3. CASE s.n < POST_WARMUP_MIN_SAMPLES /\ g <= s.n - INITIAL_WARMUP_SAMPLES
  BY <1>1, <1>3 DEF FewAlarms
<1>4. CASE s.n >= POST_WARMUP_MIN_SAMPLES /\ s.cand.n = 0 /\ g <= Alarms
  BY <1>4, AlarmsBound DEF FewAlarms
<1>5. CASE /\ s.n >= POST_WARMUP_MIN_SAMPLES /\ g <= Alarms + 1
           /\ Uniform(s, d) \/ (OneLength(s, d, cfg) /\ Lives(s, s.cand.n - 1 + late))
  <2>1. f <= Alarms + 1
    BY <1>5, AlarmsBound
  <2> QED
    BY <1>5, <2>1 DEF FewAlarms
<1> QED
  BY <1>2, <1>3, <1>4, <1>5 DEF FewAlarms

Alarm(reason) == IF reason \in {"STATIC_THRESHOLD", "RELATIVE_SPIKE"} THEN 1 ELSE 0

LEMMA AlarmNone == Alarm("NONE") = 0 /\ Alarm("CADENCE_JUDDER") = 0
  BY DEF Alarm

LEMMA SlackBit ==
  ASSUME NEW s
  PROVE  Slack(s) \in {0, 1}
  BY DEF Slack

(* A slow frame of a run goes to the candidate of the run.                 *)
LEMMA SlowFrameFew ==
  ASSUME NEW s, NEW ts \in Int, StatsOK(s), Past(s, ts), NEW d, NEW cfg, CanSettle(d, cfg),
         IsSlow(s, d, cfg), NEW f \in Nat, FewAlarms(s, d, f, cfg, 1), NEW reason
  PROVE  LET r == SlowFrame(s, d, ts, reason) IN FewAlarms(r.s, d, f + Alarm(r.reason), cfg, 0)
<1> DEFINE t == ResetCadence(s)
           b == s.cand
           p == ProcessCandidate(t, d, ts)
           r == SlowFrame(s, d, ts, reason)
           u == p.s
           g == Grown(b, d)
           a == Alarm(r.reason)
           mean == MeanOf(s)
           ratio == Ratio(mean, d)
<1>1. /\ StatsOK(t) /\ SameWindow(s, t) /\ t.cand = b /\ t.last = ts /\ Slack(t) >= Slack(s)
      /\ DOMAIN t = StatFields
  <2>1. Fit(s, ts)
    BY DEF Fit, Past, StatsOK
  <2>2. StatsOK(t)
    BY <2>1, ResetFit DEF Fit
  <2> QED
    BY <2>2, ResetFields DEF Past, StatsOK
<1>2. s.n \in Nat /\ s.n >= POST_WARMUP_MIN_SAMPLES /\ b \in CandidateRecords /\ d \in Nat \ {0}
  BY Window DEF Past, StatsOK, WindowOK, CandOK, CandidateRecords, CanSettle
<1>3. \/ f = 0
      \/ b.n = 0 /\ f <= Alarms
      \/ b.n # 0 /\ f <= Alarms + 1 /\ OneLength(s, d, cfg) /\ Lives(s, b.n - 1 + 1)
  <2>1. ~Uniform(s, d)
    BY UniformNotSlow
  <2>2. OneLength(s, d, cfg) => b.n # 0
    BY CandidateBounds DEF OneLength
  <2>3. ~(s.n < POST_WARMUP_MIN_SAMPLES)
    BY <1>2, WindowPast
  <2> QED
    BY <2>1, <2>2, <2>3 DEF FewAlarms
<1>4. /\ r.s = u /\ r.reason \in {"NONE", reason}
      /\ p.outcome \in {"PROMOTED", "ACCUMULATED", "SKIPPED"} => r.reason = "NONE"
  <2>1. r = CASE p.outcome = "PROMOTED" -> NoStutter(p.s, MeanOf(p.s), 100)
              [] p.outcome \in {"ACCUMULATED", "SKIPPED"} -> NoStutter(p.s, mean, ratio)
              [] OTHER -> Result(p.s, reason, mean, ratio)
    BY DEF SlowFrame
  <2> HIDE DEF p, r, mean, ratio
  <2>2. CASE p.outcome = "PROMOTED"
    <3>1. r = NoStutter(p.s, MeanOf(p.s), 100)
      BY <2>1, <2>2
    <3> QED
      BY <2>2, <3>1 DEF NoStutter, Result
  <2>3. CASE p.outcome \in {"ACCUMULATED", "SKIPPED"}
    <3>1. r = NoStutter(p.s, mean, ratio)
      BY <2>1, <2>3
    <3> QED
      BY <2>3, <3>1 DEF NoStutter, Result
  <2>4. CASE p.outcome \notin {"PROMOTED", "ACCUMULATED", "SKIPPED"}
    <3>1. r = Result(p.s, reason, mean, ratio)
      BY <2>1, <2>4
    <3> QED
      BY <2>4, <3>1 DEF Result
  <2> QED
    BY <2>2, <2>3, <2>4
<1>5. a \in {0, 1} /\ (r.reason = "NONE" => a = 0)
  BY DEF Alarm
<1>6. Processed(t, d, ts, p)
  BY <1>1, <1>2, Outcomes
<1> HIDE DEF t, r, a, p, u
<1>7. \/ /\ b.n = 0 \/ b.n >= CANDIDATE_MAX_SAMPLES
         /\ u = [t EXCEPT !.cand = Seeded(d, ts)]
      \/ b.n # 0 /\ Strays(t, d) /\ u = [t EXCEPT !.cand = NoCandidate]
      \/ b.n # 0 /\ Strays(t, d) /\ r.reason = "NONE" /\ \E e : u = [t EXCEPT !.cand = e]
      \/ b.n # 0 /\ ~Settles(g) /\ u = [t EXCEPT !.cand = g] /\ r.reason = "NONE"
      \/ b.n # 0 /\ Settles(g) /\ u = Promoted(t, g.sum \div g.n) /\ r.reason = "NONE"
  <2> HIDE DEF b, g
  <2>1. ASSUME NEW o, NEW e, p = Replaced(t, o, e)
        PROVE  u = [t EXCEPT !.cand = e] /\ p.outcome = o
    BY <2>1 DEF Replaced, u
  <2>2. \/ /\ b.n = 0 \/ b.n >= CANDIDATE_MAX_SAMPLES
           /\ p = Replaced(t, "SEEDED", Seeded(d, ts))
        \/ b.n # 0 /\ Strays(t, d) /\ \E o : p = Replaced(t, o, NoCandidate)
        \/ b.n # 0 /\ Strays(t, d) /\ \E e : p = Replaced(t, "SKIPPED", e)
        \/ b.n # 0 /\ ~Settles(g) /\ p = Replaced(t, "ACCUMULATED", g)
        \/ /\ b.n # 0 /\ Settles(g)
           /\ p = [outcome |-> "PROMOTED", s |-> Promoted(t, g.sum \div g.n)]
    BY <1>1, <1>6, Zenon DEF Processed, g
  <2>3. CASE p = Replaced(t, "SEEDED", Seeded(d, ts)) /\ (b.n = 0 \/ b.n >= CANDIDATE_MAX_SAMPLES)
    BY <2>1, <2>3, Zenon
  <2>4. CASE b.n # 0 /\ Strays(t, d) /\ \E o : p = Replaced(t, o, NoCandidate)
    BY <2>1, <2>4, Zenon
  <2>5. CASE b.n # 0 /\ Strays(t, d) /\ \E e : p = Replaced(t, "SKIPPED", e)
    <3>1. PICK e : p = Replaced(t, "SKIPPED", e)
      BY <2>5
    <3>2. u = [t EXCEPT !.cand = e] /\ p.outcome = "SKIPPED"
      BY <2>1, <3>1
    <3> QED
      BY <1>4, <2>5, <3>2, Zenon
  <2>6. CASE b.n # 0 /\ ~Settles(g) /\ p = Replaced(t, "ACCUMULATED", g)
    <3>1. u = [t EXCEPT !.cand = g] /\ p.outcome = "ACCUMULATED"
      BY <2>1, <2>6
    <3> QED
      BY <1>4, <2>6, <3>1, Zenon
  <2>7. CASE b.n # 0 /\ Settles(g)
             /\ p = [outcome |-> "PROMOTED", s |-> Promoted(t, g.sum \div g.n)]
    <3>1. u = Promoted(t, g.sum \div g.n) /\ p.outcome = "PROMOTED"
      BY <2>7 DEF u
    <3> QED
      BY <1>4, <2>7, <3>1, Zenon
  <2> QED
    BY <2>2, <2>3, <2>4, <2>5, <2>6, <2>7
<1>8. OneLength(s, d, cfg) => ~Strays(t, d)
  <2> SUFFICES ASSUME OneLength(s, d, cfg) PROVE ~Strays(t, d)
    OBVIOUS
  <2>1. t.cand \in CandidateRecords /\ t.cand.n # 0 /\ Pure(t.cand, d)
    BY <1>1, <1>2, CandidateBounds DEF OneLength
  <2> QED
    BY <2>1, PureOnCourse
<1>9. ASSUME NEW e, u = [t EXCEPT !.cand = e]
      PROVE  /\ SameWindow(s, u) /\ u.cand = e /\ u.last = ts /\ Slack(u) >= Slack(s)
             /\ u.n >= POST_WARMUP_MIN_SAMPLES /\ u.n = s.n /\ IsSlow(u, d, cfg)
  <2>1. SameWindow(t, u) /\ u.cand = e /\ u.ep = t.ep /\ u.last = t.last /\ u.delta = t.delta
    BY <1>1, <1>9, CandidateFields
  <2>2. SameWindow(s, u) /\ u.n = s.n
    BY <1>1, <2>1 DEF SameWindow
  <2>3. Slack(u) = Slack(t)
    BY <2>1 DEF Slack
  <2>4. IsSlow(u, d, cfg)
    BY <2>2, SlowSame
  <2> QED
    BY <1>1, <1>2, <2>1, <2>2, <2>3, <2>4
<1>10. FewAlarms(u, d, f + a, cfg, 0)
  <2>1. CASE /\ b.n = 0 \/ b.n >= CANDIDATE_MAX_SAMPLES
             /\ u = [t EXCEPT !.cand = Seeded(d, ts)]
    <3>1. f + a <= Alarms + 1
      <4>1. OneLength(s, d, cfg) => b.n < CANDIDATE_MAX_SAMPLES /\ b.n # 0 /\ b.n \in Nat
        BY CandidateBounds DEF OneLength
      <4> QED
        BY <1>2, <1>3, <1>5, <2>1, <4>1, AlarmsBound, CandidateBounds
    <3>2. /\ SameWindow(s, u) /\ u.cand = Seeded(d, ts) /\ u.last = ts
          /\ u.n >= POST_WARMUP_MIN_SAMPLES /\ IsSlow(u, d, cfg)
      BY <1>9, <2>1
    <3>3. u.cand.n = 1 /\ u.cand.sum = d /\ u.cand.sq = d * d /\ u.cand.first = ts
      BY <3>2 DEF Seeded, NoCandidate
    <3>4. Pure(u.cand, d)
      <4>1. d = 1 * d /\ d * d = 1 * (d * d)
        BY <1>2
      <4> QED
        BY <3>3, <4>1 DEF Pure
    <3>5. OneLength(u, d, cfg)
      BY <3>2, <3>3, <3>4, CandidateBounds DEF OneLength
    <3>6. Lives(u, u.cand.n - 1 + 0)
      <4>1. PICK x \in Nat, q \in Nat, k \in Nat :
              x = PROMOTION_MIN_SAMPLES /\ q = STALE_CANDIDATE /\ k = Slack(u)
        BY SlackBit, PacingAssumption
      <4>2. u.last - u.cand.first = 0 /\ u.cand.n - 1 + 0 = 0
        BY <3>2, <3>3
      <4>3. 0 * x <= (0 + k) * q
        OBVIOUS
      <4> QED
        BY <4>1, <4>2, <4>3 DEF Lives
    <3> QED
      BY <3>1, <3>2, <3>5, <3>6 DEF FewAlarms
  <2>2. CASE b.n # 0 /\ Strays(t, d) /\ u = [t EXCEPT !.cand = NoCandidate]
    <3>1. f = 0
      BY <1>3, <1>8, <2>2
    <3>2. f + a <= Alarms
      BY <1>5, <3>1, AlarmsBound
    <3>3. u.n >= POST_WARMUP_MIN_SAMPLES /\ u.cand = NoCandidate
      BY <1>9, <2>2
    <3> QED
      BY <3>2, <3>3 DEF FewAlarms, NoCandidate
  <2>3. CASE b.n # 0 /\ Strays(t, d) /\ r.reason = "NONE" /\ \E e : u = [t EXCEPT !.cand = e]
    <3>1. f + a = 0
      BY <1>3, <1>5, <1>8, <2>3
    <3> QED
      BY <3>1 DEF FewAlarms
  <2>4. CASE b.n # 0 /\ ~Settles(g) /\ u = [t EXCEPT !.cand = g] /\ r.reason = "NONE"
    <3>1. f + a = f
      BY <1>5, <2>4
    <3>2. CASE f = 0
      BY <3>1, <3>2 DEF FewAlarms
    <3>3. CASE f <= Alarms + 1 /\ OneLength(s, d, cfg) /\ Lives(s, b.n - 1 + 1)
      <4>1. /\ u.cand = g /\ u.last = ts /\ Slack(u) >= Slack(s)
            /\ u.n >= POST_WARMUP_MIN_SAMPLES /\ IsSlow(u, d, cfg)
        BY <1>9, <2>4
      <4>2. Pure(g, d) /\ g.n = b.n + 1 /\ g.first = b.first /\ b.n \in Nat
        BY <1>2, <3>3, PureGrows DEF OneLength, CandidateRecords
      <4>3. g.n < PROMOTION_MIN_SAMPLES
        <5> SUFFICES ASSUME ~(g.n < PROMOTION_MIN_SAMPLES) PROVE FALSE
          OBVIOUS
        <5>1. g.n >= PROMOTION_MIN_SAMPLES /\ g.n \in Nat \ {0}
          BY <4>2, CandidateBounds
        <5>2. Steady(g)
          BY <4>2, <5>1, PureSteady
        <5> QED
          BY <2>4, <5>1, <5>2 DEF Settles
      <4>4. OneLength(u, d, cfg)
        <5>1. g.n \in 1 .. PROMOTION_MIN_SAMPLES - 1
          BY <4>2, <4>3, CandidateBounds
        <5> QED
          BY <4>1, <4>2, <5>1 DEF OneLength
      <4>5. Lives(u, u.cand.n - 1 + 0)
        <5>1. PICK x \in Nat, q \in Nat, k \in Nat, m \in Nat, n \in Nat, first \in Int :
                /\ x = PROMOTION_MIN_SAMPLES /\ q = STALE_CANDIDATE /\ k = Slack(s) /\ m = Slack(u)
                /\ n = b.n /\ first = b.first
          BY <1>2, SlackBit, PacingAssumption DEF CandidateRecords
        <5>2. (ts - first) * x <= (n + k) * q
          <6>1. n - 1 + 1 = n /\ s.last = ts
            BY DEF Past
          <6> QED
            BY <3>3, <5>1, <6>1 DEF Lives
        <5>3. (n + k) * q <= (n + m) * q
          <6>1. PICK w \in Nat : m = k + w
            <7>1. m - k \in Nat /\ m = k + (m - k)
              BY <4>1, <5>1
            <7> QED
              BY <7>1
          <6>2. (n + m) * q = (n + k) * q + w * q /\ w * q \in Nat /\ (n + k) * q \in Int
            BY <6>1
          <6> QED
            BY <6>2
        <5>4. (ts - first) * x <= (n + m) * q
          <6>1. PICK z \in Int, v \in Int, w \in Int :
                  z = (ts - first) * x /\ v = (n + k) * q /\ w = (n + m) * q
            OBVIOUS
          <6> QED
            BY <5>2, <5>3, <6>1
        <5>5. u.cand.n - 1 + 0 = n /\ u.last = ts /\ u.cand.first = first
          BY <4>1, <4>2, <5>1
        <5> QED
          BY <5>1, <5>4, <5>5 DEF Lives
      <4> QED
        BY <3>1, <3>3, <4>1, <4>4, <4>5 DEF FewAlarms
    <3> QED
      BY <1>3, <2>4, <3>2, <3>3
  <2>5. CASE b.n # 0 /\ Settles(g) /\ u = Promoted(t, g.sum \div g.n) /\ r.reason = "NONE"
    <3>1. f + a = f
      BY <1>5, <2>5
    <3>2. CASE f = 0
      BY <3>1, <3>2 DEF FewAlarms
    <3>3. CASE f <= Alarms + 1 /\ OneLength(s, d, cfg)
      <4>1. Pure(g, d) /\ g.n = b.n + 1 /\ b.n \in Nat
        BY <1>2, <3>3, PureGrows DEF OneLength, CandidateRecords
      <4>2. g.sum \div g.n = d
        <5>1. PICK n \in Nat \ {0} : n = g.n
          BY <4>1
        <5>2. (n * d) \div n = d
          BY <1>2, ExactQuotient
        <5> QED
          BY <4>1, <5>1, <5>2 DEF Pure
      <4>3. /\ u.n = WINDOW /\ u.sum = WINDOW * d /\ u.cand = NoCandidate
            /\ \A i \in 0 .. WINDOW - 1 : u.dur[i] = d
        BY <1>1, <1>2, <2>5, <4>2, PromotedFields
      <4>4. Uniform(u, d) /\ u.n >= POST_WARMUP_MIN_SAMPLES
        BY <4>3, WindowPast DEF Uniform, NoCandidate
      <4> QED
        BY <3>1, <3>3, <4>4 DEF FewAlarms
    <3> QED
      BY <1>3, <2>5, <3>2, <3>3
  <2> QED
    BY <1>7, <2>1, <2>2, <2>3, <2>4, <2>5
<1> QED
  BY <1>4, <1>10 DEF r, a, u

KeptCandidate(c) ==
  IF c.n = 0 THEN c
  ELSE IF c.clean + 1 > MAX_CLEAN_FRAMES THEN NoCandidate
  ELSE [c EXCEPT !.clean = @ + 1]

LEMMA KeptOK ==
  ASSUME NEW c, CandOK(c)
  PROVE  CandOK(KeptCandidate(c))
<1> DEFINE kept == KeptCandidate(c)
<1>1. CASE c.n = 0
  BY <1>1 DEF KeptCandidate
<1>2. CASE c.n # 0 /\ c.clean + 1 > MAX_CLEAN_FRAMES
  BY <1>2, NoCandidateOK DEF KeptCandidate
<1>3. CASE c.n # 0 /\ ~(c.clean + 1 > MAX_CLEAN_FRAMES)
  <2>1. /\ c.clean \in Nat /\ c.skips \in Nat /\ c.skips <= MAX_CONSECUTIVE_SKIPS
        /\ c.clean + 1 <= MAX_CLEAN_FRAMES
    BY <1>3, CandidateBounds DEF CandOK, CandidateOpen
  <2> DEFINE k == c.clean + 1
  <2>2. k \in Nat /\ k <= MAX_CLEAN_FRAMES
    BY <2>1
  <2>3. kept = [c EXCEPT !.clean = k]
    BY <1>3 DEF KeptCandidate
  <2> HIDE DEF k, kept
  <2>4. CandOK([c EXCEPT !.skips = c.skips, !.clean = k])
    BY <1>3, <2>1, <2>2, CandidateKept
  <2>5. [c EXCEPT !.skips = c.skips, !.clean = k] = [c EXCEPT !.clean = k]
    BY DEF CandOK
  <2>6. CandOK(kept)
    BY <2>3, <2>4, <2>5
  <2> QED
    BY <2>6 DEF kept
<1> QED
  BY <1>1, <1>2, <1>3

(* A frame of a run that is not slow: the window takes it.                 *)
LEMMA CleanTailFew ==
  ASSUME NEW s, NEW ts \in Int, StatsOK(s), Past(s, ts), NEW d \in Int, d >= 1, NEW cfg,
         NEW f \in Nat
  PROVE  LET r == CleanTail(s, d, ts) IN
         /\ Past(r.s, ts) /\ r.reason = "NONE"
         /\ (CanSettle(d, cfg) /\ ~IsSlow(s, d, cfg) /\ FewAlarms(s, d, f, cfg, 1))
              => FewAlarms(r.s, d, f, cfg, 0)
<1> DEFINE c == KeptCandidate(s.cand)
           x == Clamp(d, 1, DEFENSIVE_CLAMP)
           t == [s EXCEPT !.cand = c]
           u == Push(t, x, ts)
           mean == MeanOf(s)
           ratio == Ratio(mean, d)
           r == CleanTail(s, d, ts)
<1>1. r = NoStutter(u, mean, ratio)
  BY DEF CleanTail, KeptCandidate
<1>2. CandOK(c) /\ (s.cand.n = 0 => c = s.cand)
  BY KeptOK DEF StatsOK, KeptCandidate
<1> HIDE DEF c, mean, ratio
<1>3. StatsOK(t) /\ t.last = s.last /\ t.cand = c /\ SameWindow(s, t) /\ Past(t, ts)
  <2>1. StatsOK(t)
    BY <1>2, CandidateSet
  <2>2. t.last = s.last /\ t.cand = c /\ SameWindow(s, t)
    BY CandidateFields DEF StatsOK
  <2> QED
    BY <2>1, <2>2, PastSame
<1> HIDE DEF t
<1>4. x \in Int /\ x >= 1
  <2>1. DEFENSIVE_CLAMP \in Int
    BY DEF DEFENSIVE_CLAMP
  <2> QED
    BY <2>1, Clamped
<1> HIDE DEF x
<1>5. Past(u, ts) /\ AfterPush(t, x, ts, u)
  <2>1. t.last <= ts
    BY <1>3 DEF Past
  <2> QED
    BY <1>3, <1>4, <2>1, PushPast, PushFields
<1> HIDE DEF u, r
<1>6. r.s = u /\ r.reason = "NONE"
  BY <1>1 DEF NoStutter, Result
<1>7. ASSUME CanSettle(d, cfg), ~IsSlow(s, d, cfg), FewAlarms(s, d, f, cfg, 1)
      PROVE  FewAlarms(u, d, f, cfg, 0)
  <2>1. /\ u.n >= POST_WARMUP_MIN_SAMPLES /\ u.cand = c
        /\ s.n >= POST_WARMUP_MIN_SAMPLES /\ s.n \in Nat
    BY <1>3, <1>5, Window DEF Past, AfterPush, StatsOK, WindowOK
  <2>2. CASE f = 0
    BY <2>2 DEF FewAlarms
  <2>3. CASE s.cand.n = 0 /\ f <= Alarms
    BY <1>2, <2>1, <2>3 DEF FewAlarms
  <2>4. CASE Uniform(s, d) /\ f <= Alarms + 1
    <3>1. x = d
      <4>1. d < 2000
        BY <1>7, SettlesBelow DEF CanSettle
      <4>2. PICK lo \in Int, hi \in Int : lo = 1 /\ hi = DEFENSIVE_CLAMP /\ hi >= 2000
        BY DEF DEFENSIVE_CLAMP
      <4>3. Min({d, hi}) = d
        <5>1. Min({d, hi}) \in {d, hi} /\ Min({d, hi}) <= d
          BY Extremes
        <5> QED
          BY <4>1, <4>2, <5>1
      <4>4. Max({lo, d}) = d
        <5>1. Max({lo, d}) \in {lo, d} /\ Max({lo, d}) >= d
          BY Extremes
        <5> QED
          BY <4>2, <5>1
      <4> QED
        BY <4>2, <4>3, <4>4 DEF x, Clamp
    <3>2. /\ t.n = WINDOW /\ t.sum = WINDOW * d /\ t.idx \in 0 .. WINDOW - 1
          /\ t.dur \in [0 .. WINDOW - 1 -> Int] /\ \A i \in 0 .. WINDOW - 1 : t.dur[i] = d
      BY <1>3, <2>4 DEF Uniform, SameWindow, StatsOK, WindowOK
    <3>3. u.n = WINDOW /\ u.sum = WINDOW * d
      <4>1. u.sum = t.sum - t.dur[t.idx] + x
        BY <1>5, <3>2 DEF AfterPush
      <4>2. WINDOW * d \in Int /\ t.dur[t.idx] = d
        BY <3>2, Window
      <4> QED
        BY <1>5, <3>1, <3>2, <4>1, <4>2 DEF AfterPush
    <3>4. \A i \in 0 .. WINDOW - 1 : u.dur[i] = d
      <4>1. u.dur = [t.dur EXCEPT ![t.idx] = d]
        BY <1>5, <3>1 DEF AfterPush
      <4> QED
        BY <3>2, <4>1
    <3>5. u.cand.n = 0
      BY <1>2, <2>1, <2>4 DEF Uniform
    <3> QED
      BY <2>1, <2>4, <3>3, <3>4, <3>5 DEF FewAlarms, Uniform
  <2>5. ~OneLength(s, d, cfg) /\ ~(s.n < POST_WARMUP_MIN_SAMPLES)
    BY <1>7, <2>1, WindowPast DEF OneLength
  <2> QED
    BY <1>7, <2>2, <2>3, <2>4, <2>5 DEF FewAlarms
<1> QED
  BY <1>5, <1>6, <1>7 DEF r

LEMMA StaticFallbackFew ==
  ASSUME NEW s, NEW ts \in Int, StatsOK(s), Past(s, ts), NEW d \in Int, d >= 1, NEW cfg,
         NEW f \in Nat, NEW static
  PROVE  LET r == StaticFallback(s, d, ts, cfg, static) IN
         /\ Past(r.s, ts)
         /\ (/\ CanSettle(d, cfg) /\ FewAlarms(s, d, f, cfg, 1)
             /\ ~IsSpike(s, d, cfg) /\ static = LiftedStatic(cfg, s))
              => FewAlarms(r.s, d, f + Alarm(r.reason), cfg, 0)
<1> DEFINE t == [ResetCadence(s) EXCEPT !.cand = NoCandidate]
           slow == d * TICK >= static
           r == StaticFallback(s, d, ts, cfg, static)
           mean == MeanOf(s)
           ratio == Ratio(mean, d)
<1>1. r = CASE slow /\ cfg.mode = "STATIC_ONLY" -> Result(t, "STATIC_THRESHOLD", mean, ratio)
            [] slow /\ cfg.mode = "HYBRID" -> SlowFrame(s, d, ts, "STATIC_THRESHOLD")
            [] OTHER -> CleanTail(s, d, ts)
  BY DEF StaticFallback
<1>2. Past(t, ts)
  <2> DEFINE e == ResetCadence(s)
  <2>1. SameWindow(s, e) /\ e.last = s.last
    BY ResetFields
  <2>2. StatsOK(e)
    <3>1. Fit(s, ts)
      BY DEF Fit, Past, StatsOK
    <3> QED
      BY <3>1, ResetFit DEF Fit
  <2> HIDE DEF e
  <2>3. SameWindow(e, t) /\ t.last = e.last
    BY <2>2, CandidateFields DEF StatsOK, e
  <2> QED
    BY <2>1, <2>3, PastSame
<1>3. IsSlow(s, d, cfg) <=>
        IsSpike(s, d, cfg) \/ (cfg.mode = "HYBRID" /\ d * TICK >= LiftedStatic(cfg, s))
  BY DEF IsSlow
<1> DEFINE Sure == /\ CanSettle(d, cfg) /\ FewAlarms(s, d, f, cfg, 1)
                   /\ ~IsSpike(s, d, cfg) /\ static = LiftedStatic(cfg, s)
<1> SUFFICES Past(r.s, ts) /\ (Sure => FewAlarms(r.s, d, f + Alarm(r.reason), cfg, 0))
  OBVIOUS
<1>4. CASE slow /\ cfg.mode = "STATIC_ONLY"
  <2>1. ~Sure
    BY <1>4 DEF CanSettle
  <2>2. r = Result(t, "STATIC_THRESHOLD", mean, ratio)
    BY <1>1, <1>4
  <2> HIDE DEF Sure, r, t, mean, ratio
  <2>3. r.s = t
    BY <2>2 DEF Result
  <2> QED
    BY <1>2, <2>1, <2>3
<1>5. CASE slow /\ cfg.mode = "HYBRID"
  <2>1. r = SlowFrame(s, d, ts, "STATIC_THRESHOLD")
    BY <1>1, <1>5
  <2>2. Sure => IsSlow(s, d, cfg)
    BY <1>3, <1>5
  <2>3. Past(r.s, ts)
    BY <2>1, SlowFramePast
  <2>4. ASSUME Sure PROVE FewAlarms(r.s, d, f + Alarm(r.reason), cfg, 0)
    BY <2>1, <2>2, <2>4, SlowFrameFew
  <2> QED
    BY <2>3, <2>4
<1>6. CASE ~(slow /\ cfg.mode = "STATIC_ONLY") /\ ~(slow /\ cfg.mode = "HYBRID")
  <2>1. r = CleanTail(s, d, ts)
    BY <1>1, <1>6
  <2>2. Sure => ~IsSlow(s, d, cfg)
    BY <1>3, <1>6
  <2>3. Past(r.s, ts) /\ r.reason = "NONE"
    BY <2>1, CleanTailFew
  <2>4. ASSUME Sure PROVE FewAlarms(r.s, d, f + Alarm(r.reason), cfg, 0)
    <3>1. FewAlarms(r.s, d, f, cfg, 0)
      BY <2>1, <2>2, <2>4, CleanTailFew
    <3>2. f + Alarm(r.reason) = f
      BY <2>3, AlarmNone
    <3> QED
      BY <3>1, <3>2
  <2> QED
    BY <2>3, <2>4
<1> QED
  BY <1>4, <1>5, <1>6

LEMMA TimesGrows ==
  ASSUME NEW a \in Int, NEW b \in Int, a <= b, NEW q \in Nat
  PROVE  a * q \in Int /\ b * q \in Int /\ a * q <= b * q
<1>1. PICK w \in Nat : b = a + w
  <2>1. b - a \in Nat /\ b = a + (b - a)
    OBVIOUS
  <2> QED
    BY <2>1
<1>2. b * q = a * q + w * q /\ w * q \in Nat /\ a * q \in Int
  BY <1>1
<1> QED
  BY <1>2

(* What a frame does to the judder episode may cost a run one frame.       *)
LEMMA FewKept ==
  ASSUME NEW s, StatsOK(s), NEW t, SameWindow(s, t), t.cand = s.cand, t.last = s.last,
         NEW d, NEW cfg, NEW f, NEW a \in {0, 1}, NEW b \in {0, 1},
         a + Slack(s) <= b + Slack(t), FewAlarms(s, d, f, cfg, a)
  PROVE  FewAlarms(t, d, f, cfg, b)
<1>1. t.n = s.n /\ (IsSlow(t, d, cfg) <=> IsSlow(s, d, cfg))
  BY SlowSame DEF SameWindow
<1>2. (Uniform(s, d) => Uniform(t, d)) /\ (OneLength(s, d, cfg) => OneLength(t, d, cfg))
  BY <1>1 DEF Uniform, OneLength, SameWindow
<1>3. Lives(s, s.cand.n - 1 + a) => Lives(t, t.cand.n - 1 + b)
  <2>1. PICK q \in Nat, k \in Nat, m \in Nat, n \in Nat, first \in Int, last \in Int, p \in Nat :
          /\ q = STALE_CANDIDATE /\ k = Slack(s) /\ m = Slack(t) /\ n = s.cand.n
          /\ first = s.cand.first /\ last = s.last /\ p = PROMOTION_MIN_SAMPLES
    <3>1. s.cand.n \in Nat /\ s.cand.first \in Int /\ s.last \in Int
      BY DEF StatsOK, CandOK
    <3>2. Slack(s) \in Nat /\ Slack(t) \in Nat
      BY DEF Slack
    <3>3. STALE_CANDIDATE \in Nat /\ PROMOTION_MIN_SAMPLES \in Nat
      BY PacingAssumption
    <3> QED
      BY <3>1, <3>2, <3>3
  <2>2. PICK x \in Int, y \in Int : x = n - 1 + a + k /\ y = n - 1 + b + m
    OBVIOUS
  <2>3. x <= y
    BY <2>1, <2>2
  <2>4. x * q \in Int /\ y * q \in Int /\ x * q <= y * q
    BY <2>3, TimesGrows
  <2>5. PICK z \in Int : z = (last - first) * p
    OBVIOUS
  <2>6. Lives(s, s.cand.n - 1 + a) <=> z <= x * q
    BY <2>1, <2>2, <2>5 DEF Lives
  <2>7. Lives(t, t.cand.n - 1 + b) <=> z <= y * q
    BY <2>1, <2>2, <2>5 DEF Lives
  <2> QED
    BY <2>4, <2>6, <2>7
<1>4. CASE f = 0
  BY <1>4 DEF FewAlarms
<1>5. CASE s.n < POST_WARMUP_MIN_SAMPLES /\ f <= s.n - INITIAL_WARMUP_SAMPLES
  BY <1>1, <1>5 DEF FewAlarms
<1>6. CASE s.n >= POST_WARMUP_MIN_SAMPLES /\ s.cand.n = 0 /\ f <= Alarms
  BY <1>1, <1>6 DEF FewAlarms
<1>7. CASE /\ s.n >= POST_WARMUP_MIN_SAMPLES /\ f <= Alarms + 1
           /\ Uniform(s, d) \/ (OneLength(s, d, cfg) /\ Lives(s, s.cand.n - 1 + a))
  BY <1>1, <1>2, <1>3, <1>7 DEF FewAlarms
<1> QED
  BY <1>4, <1>5, <1>6, <1>7 DEF FewAlarms

LEMMA BaselineFew ==
  ASSUME NEW s, NEW ts \in Int, StatsOK(s), Past(s, ts), NEW d \in Int, d >= 1, NEW cfg,
         NEW f \in Nat
  PROVE  LET r == Baseline(s, d, ts, cfg) IN
         /\ Past(r.s, ts)
         /\ CanSettle(d, cfg) /\ FewAlarms(s, d, f, cfg, 1)
              => FewAlarms(r.s, d, f + Alarm(r.reason), cfg, 0)
<1> DEFINE alternating == IsAlternating(s, d, cfg.swing)
           ep == Alternated(s, d, ts)
           alt == [s EXCEPT !.ep = ep]
           t == IF alternating THEN alt ELSE s
           done == t.ep.active /\ EpisodeDone(t.ep, alternating, ts)
           rest == IF done THEN CloseEpisode(t) ELSE t
           lifted == LiftedStatic(cfg, s)
           spike == IsSpike(s, d, cfg)
           r == Baseline(s, d, ts, cfg)
           Sure == CanSettle(d, cfg) /\ FewAlarms(s, d, f, cfg, 1)
           Like(v) == /\ StatsOK(v) /\ SameWindow(s, v) /\ v.cand = s.cand /\ v.last = s.last
                      /\ Slack(v) >= Slack(s)
<1> SUFFICES Past(r.s, ts) /\ (Sure => FewAlarms(r.s, d, f + Alarm(r.reason), cfg, 0))
  OBVIOUS
<1>1. /\ StatsOK(alt) /\ SameWindow(s, alt) /\ alt.cand = s.cand /\ alt.last = s.last
  <2>1. EpisodeOK(ep, s.last) /\ s.last = ts
    BY AlternatedOK DEF Past
  <2> HIDE DEF ep
  <2>2. StatsOK(alt)
    BY <2>1, EpisodeSet
  <2>3. SameWindow(s, alt) /\ alt.cand = s.cand /\ alt.last = s.last
    BY DEF StatsOK, StatFields, SameWindow
  <2> QED
    BY <2>2, <2>3
<1>2. Slack(s) \in {0, 1} /\ (alternating => Slack(s) = 0)
  BY SlackBit DEF IsAlternating, Slack
<1>3. Like(t)
  <2> HIDE DEF alt, alternating
  <2>1. CASE alternating
    BY <1>1, <1>2, <2>1, SlackBit
  <2>2. CASE ~alternating
    BY <1>2, <2>2 DEF SameWindow
  <2> QED
    BY <2>1, <2>2
<1>4. done => Slack(s) = 0
  <2> HIDE DEF alternating
  <2>1. CASE alternating
    BY <1>2, <2>1
  <2>2. CASE ~alternating
    BY <2>2 DEF Slack
  <2> QED
    BY <2>1, <2>2
<1> HIDE DEF t, alternating, alt, ep
<1>5. LET c == CloseEpisode(t) IN
      StatsOK(c) /\ SameWindow(s, c) /\ c.cand = s.cand /\ c.last = s.last /\ Slack(c) = 1
  <2>1. Fit(t, ts)
    BY <1>3 DEF Fit, Past, StatsOK
  <2>2. StatsOK(CloseEpisode(t))
    BY <2>1, CloseFit DEF Fit
  <2> DEFINE c == CloseEpisode(t)
  <2>3. SameWindow(t, c) /\ c.cand = t.cand /\ c.last = t.last /\ Slack(c) = 1
    BY <1>3, CloseFields
  <2> HIDE DEF c
  <2>4. SameWindow(s, c) /\ c.cand = s.cand /\ c.last = s.last
    BY <1>3, <2>3 DEF SameWindow
  <2> QED
    BY <2>2, <2>3, <2>4 DEF c
<1>6. Like(rest)
  <2> HIDE DEF done
  <2>1. CASE done
    BY <1>2, <1>5, <2>1
  <2>2. CASE ~done
    BY <1>3, <2>2
  <2> QED
    BY <2>1, <2>2
<1>7. r = CASE spike -> SlowFrame(s, d, ts, "RELATIVE_SPIKE")
            [] ~spike /\ (cfg.mode = "STATIC_ONLY" \/ ~cfg.judder) ->
                 StaticFallback(s, d, ts, cfg, lifted)
            [] OTHER ->
                 IF done /\ t.ep.alternations >= cfg.minAlternations THEN JudderReport(t, ts)
                 ELSE StaticFallback(rest, d, ts, cfg, lifted)
  BY DEF Baseline, t, alt, ep, alternating
<1> HIDE DEF rest, done, lifted, spike
<1>8. \/ spike /\ r = SlowFrame(s, d, ts, "RELATIVE_SPIKE")
      \/ ~spike /\ r = StaticFallback(s, d, ts, cfg, lifted)
      \/ ~spike /\ done /\ r = JudderReport(t, ts)
      \/ ~spike /\ r = StaticFallback(rest, d, ts, cfg, lifted)
  BY <1>7
<1> HIDE DEF r
<1>9. CASE spike /\ r = SlowFrame(s, d, ts, "RELATIVE_SPIKE")
  <2>1. IsSlow(s, d, cfg)
    BY <1>9 DEF IsSlow, spike
  <2>2. Past(r.s, ts)
    BY <1>9, SlowFramePast
  <2>3. ASSUME Sure PROVE FewAlarms(r.s, d, f + Alarm(r.reason), cfg, 0)
    BY <1>9, <2>1, <2>3, SlowFrameFew
  <2> QED
    BY <2>2, <2>3
<1>10. ASSUME NEW v, Like(v), ~spike, r = StaticFallback(v, d, ts, cfg, lifted)
       PROVE  Past(r.s, ts) /\ (Sure => FewAlarms(r.s, d, f + Alarm(r.reason), cfg, 0))
  <2>1. Past(v, ts)
    BY <1>10, PastSame
  <2>2. IsSpike(v, d, cfg) <=> IsSpike(s, d, cfg)
    <3>1. MeanOf(v) = MeanOf(s)
      BY <1>10, SlowSame
    <3> QED
      BY <3>1 DEF IsSpike
  <2>3. lifted = LiftedStatic(cfg, v)
    <3>1. MeanOf(v) = MeanOf(s) /\ v.n = s.n
      BY <1>10, SlowSame DEF SameWindow
    <3> QED
      BY <3>1 DEF LiftedStatic, lifted
  <2>4. Past(r.s, ts)
    BY <1>10, <2>1, StaticFallbackFew
  <2>5. ASSUME Sure PROVE FewAlarms(r.s, d, f + Alarm(r.reason), cfg, 0)
    <3>1. 1 + Slack(s) <= 1 + Slack(v)
      BY <1>10, SlackBit
    <3>2. FewAlarms(v, d, f, cfg, 1)
      BY <1>10, <2>5, <3>1, FewKept
    <3> QED
      BY <1>10, <2>1, <2>2, <2>3, <2>5, <3>2, StaticFallbackFew DEF spike
  <2> QED
    BY <2>4, <2>5
<1>11. CASE ~spike /\ done /\ r = JudderReport(t, ts)
  <2> DEFINE c == CloseEpisode(t)
  <2>1. StatsOK(c) /\ SameWindow(s, c) /\ c.cand = s.cand /\ c.last = s.last /\ Slack(c) = 1
    BY <1>5
  <2>2. r.s = c /\ r.reason = "CADENCE_JUDDER"
    BY <1>11 DEF JudderReport, Result
  <2> HIDE DEF c
  <2>3. Past(r.s, ts)
    BY <2>1, <2>2, PastSame
  <2>4. ASSUME Sure PROVE FewAlarms(r.s, d, f + Alarm(r.reason), cfg, 0)
    <3>1. 1 + Slack(s) <= 0 + Slack(c)
      BY <1>4, <1>11, <2>1
    <3>2. FewAlarms(c, d, f, cfg, 0)
      BY <2>1, <2>4, <3>1, FewKept
    <3>3. f + Alarm(r.reason) = f
      BY <2>2, AlarmNone
    <3> QED
      BY <2>2, <3>2, <3>3
  <2> QED
    BY <2>3, <2>4
<1>12. Like(s)
  BY <1>2 DEF SameWindow
<1> HIDE DEF Sure, Like
<1> QED
  BY <1>6, <1>8, <1>9, <1>10, <1>11, <1>12

(* A stream that warms up has no candidate.                                *)
Cold(s) == s.n < POST_WARMUP_MIN_SAMPLES => s.cand.n = 0

LEMMA PushWarmupFields ==
  ASSUME NEW s, NEW ts \in Int, StatsOK(s), s.last <= ts, NEW d \in Int
  PROVE  /\ StatsOK(PushWarmup(s, d, ts)) /\ PushWarmup(s, d, ts).last = ts
         /\ PushWarmup(s, d, ts).cand = s.cand
         /\ s.n < WINDOW => PushWarmup(s, d, ts).n = s.n + 1
<1>1. PICK x \in Int : x = Clamp(d, 1, WARMUP_CLAMP) /\ x >= 1
  BY Clamped DEF WARMUP_CLAMP
<1> DEFINE u == Push(s, x, ts)
<1>2. u = PushWarmup(s, d, ts)
  BY <1>1 DEF PushWarmup
<1>3. StatsOK(u)
  BY <1>1, PushOK
<1>4. AfterPush(s, x, ts, u)
  BY PushFields
<1> HIDE DEF u
<1>5. s.n < WINDOW => s.n # WINDOW
  BY Window DEF StatsOK, WindowOK
<1> QED
  BY <1>2, <1>3, <1>4, <1>5 DEF AfterPush

(* A frame while the stream warms up: no more of them can be stutters than *)
(* have come since single frames were looked at.                           *)
LEMMA WarmupFew ==
  ASSUME NEW s, NEW ts \in Int, StatsOK(s), s.last = ts, s.n < POST_WARMUP_MIN_SAMPLES,
         s.cand.n = 0, NEW d \in Int, NEW cfg, cfg.mode \in Modes, NEW f \in Nat
  PROVE  LET r == Warmup(s, d, ts, cfg) IN
         /\ r.s.last = ts /\ Cold(r.s)
         /\ CanSettle(d, cfg) /\ FewAlarms(s, d, f, cfg, 1)
              => FewAlarms(r.s, d, f + Alarm(r.reason), cfg, 0)
<1> DEFINE mean == MeanOf(s)
           ratio == Ratio(mean, d)
           pushed == PushWarmup(s, d, ts)
           reset == ResetCadence(pushed)
           slow == d * TICK >= LiftedStatic(cfg, s)
           early == s.n < INITIAL_WARMUP_SAMPLES
           sudden == d * TICK >= Catastrophic(LiftedStatic(cfg, s))
           R(st, reason) == Result(st, reason, mean, ratio)
           r == Warmup(s, d, ts, cfg)
           a == Alarm(r.reason)
           Sure == CanSettle(d, cfg) /\ FewAlarms(s, d, f, cfg, 1)
<1> SUFFICES r.s.last = ts /\ Cold(r.s) /\ (Sure => FewAlarms(r.s, d, f + a, cfg, 0))
  OBVIOUS
<1>1. s.n \in Nat /\ s.n < WINDOW /\ s.last \in Int /\ s.last <= ts
  BY Window, WindowPast DEF StatsOK, WindowOK
<1>2. StatsOK(pushed) /\ pushed.last = ts /\ pushed.cand.n = 0 /\ pushed.n = s.n + 1
  BY <1>1, PushWarmupFields
<1>3. reset.last = ts /\ reset.cand.n = 0 /\ reset.n = s.n + 1
  BY <1>2, ResetFields DEF SameWindow
<1>4. ResetCadence(s).last = ts /\ ResetCadence(s).cand.n = 0
  BY ResetFields
<1>5. r = CASE cfg.mode = "STATIC_ONLY" ->
                 IF slow THEN R(ResetCadence(s), "STATIC_THRESHOLD") ELSE R(pushed, "NONE")
            [] cfg.mode = "HYBRID" /\ early ->
                 IF sudden THEN R(reset, "NONE") ELSE R(pushed, "NONE")
            [] cfg.mode = "HYBRID" /\ ~early ->
                 IF slow THEN R(reset, "STATIC_THRESHOLD") ELSE R(pushed, "NONE")
            [] cfg.mode = "DYNAMIC_ONLY" ->
                 R(IF slow THEN reset ELSE pushed, "NONE")
  BY DEF Warmup
<1>6. \/ cfg.mode = "STATIC_ONLY" /\ r.s.last = ts /\ r.s.cand.n = 0
      \/ /\ r.s \in {pushed, reset}
         /\ r.reason = "NONE" \/ ~early
  <2> DEFINE Res(st, reason) == r.s = st /\ r.reason = reason
  <2>1. ASSUME NEW st, NEW reason, r = R(st, reason) PROVE Res(st, reason)
    BY <2>1 DEF Result
  <2> HIDE DEF slow, early, sudden, r, R, pushed, reset
  <2>2. \/ cfg.mode = "STATIC_ONLY"
           /\ (r = R(ResetCadence(s), "STATIC_THRESHOLD") \/ r = R(pushed, "NONE"))
        \/ r = R(reset, "NONE") \/ r = R(pushed, "NONE")
        \/ ~early /\ r = R(reset, "STATIC_THRESHOLD")
    <3>1. CASE cfg.mode = "STATIC_ONLY"
      BY <1>5, <3>1
    <3>2. CASE cfg.mode = "HYBRID" /\ early
      BY <1>5, <3>2
    <3>3. CASE cfg.mode = "HYBRID" /\ ~early
      BY <1>5, <3>3
    <3>4. CASE cfg.mode = "DYNAMIC_ONLY"
      BY <1>5, <3>4
    <3> QED
      BY <3>1, <3>2, <3>3, <3>4 DEF Modes
  <2>3. \/ cfg.mode = "STATIC_ONLY"
           /\ (Res(ResetCadence(s), "STATIC_THRESHOLD") \/ Res(pushed, "NONE"))
        \/ Res(reset, "NONE") \/ Res(pushed, "NONE")
        \/ ~early /\ Res(reset, "STATIC_THRESHOLD")
    <3> HIDE DEF Res
    <3> QED
      BY <2>1, <2>2, Zenon
  <2> QED
    BY <1>2, <1>4, <2>3
<1> HIDE DEF pushed, reset, r, a
<1>7. CASE cfg.mode = "STATIC_ONLY" /\ r.s.last = ts /\ r.s.cand.n = 0
  BY <1>7 DEF Cold, CanSettle
<1>8. CASE r.s \in {pushed, reset} /\ (r.reason = "NONE" \/ ~early)
  <2>1. r.s.last = ts /\ r.s.cand.n = 0 /\ r.s.n = s.n + 1
    BY <1>2, <1>3, <1>8
  <2>2. ASSUME Sure PROVE FewAlarms(r.s, d, f + a, cfg, 0)
    <3>1. f = 0 \/ f <= s.n - INITIAL_WARMUP_SAMPLES
      BY <1>1, <2>2, WindowPast DEF FewAlarms
    <3>2. a \in {0, 1} /\ (a = 1 => s.n >= INITIAL_WARMUP_SAMPLES)
      <4>1. a \in {0, 1} /\ (r.reason = "NONE" => a = 0)
        BY DEF a, Alarm
      <4>2. INITIAL_WARMUP_SAMPLES \in Int
        BY PacingAssumption
      <4> QED
        BY <1>1, <1>8, <4>1, <4>2
    <3>3. CASE f + a = 0
      BY <3>3 DEF FewAlarms
    <3>4. CASE f + a # 0
      <4>1. INITIAL_WARMUP_SAMPLES \in Int
        BY PacingAssumption
      <4>2. f + a <= (s.n + 1) - INITIAL_WARMUP_SAMPLES
        BY <1>1, <3>1, <3>2, <3>4, <4>1
      <4>3. CASE s.n + 1 < POST_WARMUP_MIN_SAMPLES
        BY <2>1, <4>2, <4>3 DEF FewAlarms
      <4>4. CASE ~(s.n + 1 < POST_WARMUP_MIN_SAMPLES)
        <5>1. s.n + 1 = POST_WARMUP_MIN_SAMPLES
          BY <1>1, <4>4, WindowPast
        <5>2. f + a <= Alarms
          BY <1>1, <3>2, <4>1, <4>2, <5>1, AlarmsBound
        <5>3. r.s.n >= POST_WARMUP_MIN_SAMPLES
          BY <2>1, <5>1, WindowPast
        <5> QED
          BY <2>1, <5>2, <5>3 DEF FewAlarms
      <4> QED
        BY <4>3, <4>4
    <3> QED
      BY <3>3, <3>4
  <2> QED
    BY <2>1, <2>2 DEF Cold
<1> QED
  BY <1>6, <1>7, <1>8

(* The next frame of a run finds its candidate, if there is one, alive.    *)
LEMMA EntersFew ==
  ASSUME NEW s, NEW ts \in Int, Fit(s, ts), NEW d, NEW cfg, NEW f \in Nat,
         FewAlarms(s, d, f, cfg, 0), f = 0 \/ Runs(ts - s.last)
  PROVE  FewAlarms(Swept(Forward(s, ts), ts), d, f, cfg, 1)
<1> DEFINE w == Forward(s, ts)
           t == Swept(w, ts)
           b == s.cand
<1> SUFFICES FewAlarms(t, d, f, cfg, 1)
  OBVIOUS
<1>1. CASE f = 0
  BY <1>1 DEF FewAlarms
<1>2. CASE f # 0
  <2>1. StatsOK(s) /\ s.last \in Int /\ s.last <= ts /\ Runs(ts - s.last) /\ s.n \in Nat
    BY <1>2, Window DEF Fit, StatsOK, WindowOK
  <2>2. SameWindow(s, w) /\ w.cand = b /\ w.last = ts /\ Slack(w) = Slack(s)
    <3> DEFINE v == [s EXCEPT !.last = ts]
    <3>1. SameWindow(s, v) /\ v.cand = b /\ v.last = ts /\ v.ep = s.ep /\ v.delta = s.delta
      BY <2>1 DEF StatsOK, StatFields, SameWindow
    <3>2. w = IF ts > s.last \/ s.last = 0 THEN v ELSE s
      BY DEF Forward
    <3> HIDE DEF v
    <3>3. w = v \/ (w = s /\ s.last = ts)
      BY <2>1, <3>2
    <3>4. Slack(v) = Slack(s)
      BY <3>1 DEF Slack
    <3> HIDE DEF w
    <3> QED
      BY <3>1, <3>3, <3>4 DEF SameWindow
  <2> HIDE DEF w
  <2>3. /\ w.n = s.n /\ (IsSlow(w, d, cfg) <=> IsSlow(s, d, cfg))
        /\ Uniform(s, d) => Uniform(w, d)
        /\ OneLength(s, d, cfg) => OneLength(w, d, cfg)
    <3>1. w.n = s.n /\ (IsSlow(w, d, cfg) <=> IsSlow(s, d, cfg))
      BY <2>2, SlowSame DEF SameWindow
    <3> QED
      BY <2>2, <3>1 DEF Uniform, OneLength, SameWindow
  <2>4. b.n = 0 => t = w
    BY <2>2 DEF Swept
  <2>5. CASE s.n < POST_WARMUP_MIN_SAMPLES /\ f <= s.n - INITIAL_WARMUP_SAMPLES
    <3>1. t.n = w.n
      <4>1. t = w \/ t = [w EXCEPT !.cand = NoCandidate]
        BY DEF Swept
      <4>2. StatsOK(w)
        BY <2>1, ForwardOK DEF w
      <4> HIDE DEF t
      <4>3. CASE t = [w EXCEPT !.cand = NoCandidate]
        BY <4>2, <4>3, CandidateFields DEF StatsOK, SameWindow
      <4> QED
        BY <4>1, <4>3
    <3> HIDE DEF t
    <3> QED
      BY <2>3, <2>5, <3>1 DEF FewAlarms
  <2>6. CASE s.n >= POST_WARMUP_MIN_SAMPLES /\ b.n = 0 /\ f <= Alarms
    <3>1. t = w
      BY <2>4, <2>6
    <3> HIDE DEF t
    <3> QED
      BY <2>2, <2>3, <2>6, <3>1 DEF FewAlarms
  <2>7. CASE s.n >= POST_WARMUP_MIN_SAMPLES /\ f <= Alarms + 1 /\ Uniform(s, d)
    <3>1. t = w
      BY <2>4, <2>7 DEF Uniform
    <3> HIDE DEF t
    <3> QED
      BY <2>3, <2>7, <3>1 DEF FewAlarms
  <2>8. CASE /\ s.n >= POST_WARMUP_MIN_SAMPLES /\ f <= Alarms + 1
             /\ OneLength(s, d, cfg) /\ Lives(s, b.n - 1 + 0)
    <3>1. PICK p \in Nat \ {0}, q \in Nat, k \in Int, n \in Nat, first \in Int, last \in Int :
            /\ p = PROMOTION_MIN_SAMPLES /\ q = STALE_CANDIDATE /\ n = b.n
            /\ k = n - 1 + Slack(s) /\ first = b.first /\ last = s.last
      <4>1. b.n \in Nat /\ b.first \in Int /\ s.last \in Int
        BY <2>1 DEF StatsOK, CandOK
      <4>2. Slack(s) \in Int
        BY DEF Slack
      <4>3. b.n - 1 + Slack(s) \in Int
        BY <4>1, <4>2
      <4>4. STALE_CANDIDATE \in Nat /\ PROMOTION_MIN_SAMPLES \in Nat \ {0}
        BY PacingAssumption
      <4> QED
        BY <4>1, <4>3, <4>4
    <3>2. (last - first) * p <= k * q /\ (ts - last) * p <= q
      <4>1. b.n - 1 + 0 + Slack(s) = k
        BY <3>1
      <4> QED
        BY <2>1, <2>8, <3>1, <4>1 DEF Lives, Runs
    <3>3. k < p
      <4>1. n <= p - 1
        BY <2>8, <3>1 DEF OneLength
      <4>2. Slack(s) \in {0, 1}
        BY SlackBit
      <4> QED
        BY <3>1, <4>1, <4>2
    <3>4. (ts - first) * p <= (k + 1) * q /\ ts - first <= q
      BY <3>2, <3>3, Aging
    <3>5. t = w
      BY <2>2, <3>1, <3>4 DEF Swept
    <3>6. Lives(w, w.cand.n - 1 + 1)
      <4>1. w.cand.n - 1 + 1 + Slack(w) = k + 1
        BY <2>2, <3>1, SlackBit
      <4>2. (ts - first) * p <= (w.cand.n - 1 + 1 + Slack(w)) * q
        BY <3>4, <4>1
      <4> QED
        BY <2>2, <3>1, <4>2 DEF Lives
    <3> HIDE DEF t
    <3> QED
      BY <2>3, <2>8, <3>5, <3>6 DEF FewAlarms
  <2> QED
    BY <1>2, <2>5, <2>6, <2>7, <2>8 DEF FewAlarms
<1> QED
  BY <1>1, <1>2

LEMMA AfterPauseFew ==
  ASSUME NEW ts \in Int, NEW d \in Int
  PROVE  LET r == AfterPause(d, ts) IN r.s.last = ts /\ Cold(r.s) /\ r.reason = "NONE"
<1> DEFINE fresh == FreshStats(ts)
           u == PushWarmup(fresh, d, ts)
           r == AfterPause(d, ts)
<1>1. StatsOK(fresh) /\ fresh.last = ts /\ fresh.cand.n = 0
  <2>1. fresh.cand = NoCandidate
    BY DEF FreshStats
  <2> QED
    BY <2>1, FreshOK DEF NoCandidate
<1>2. r = NoStutter(u, 0, 0)
  BY DEF AfterPause
<1> HIDE DEF fresh
<1>3. u.last = ts /\ u.cand.n = 0
  <2>1. fresh.last <= ts
    BY <1>1
  <2> QED
    BY <1>1, <2>1, PushWarmupFields
<1> HIDE DEF u, r
<1>4. r.s = u /\ r.reason = "NONE"
  BY <1>2 DEF NoStutter, Result
<1> QED
  BY <1>3, <1>4 DEF Cold, r

(* evaluate_frame_pacing on the next frame of a run, or on the first.      *)
LEMMA EvaluateFew ==
  ASSUME NEW s, NEW ts \in Int, Fit(s, ts), Cold(s), NEW d \in Int, d >= 1,
         NEW cfg, cfg.mode \in Modes, NEW f \in Nat
  PROVE  LET r == Evaluate(s, d, ts, cfg) IN
         /\ r.s.last = ts /\ Cold(r.s)
         /\ (/\ CanSettle(d, cfg) /\ FewAlarms(s, d, f, cfg, 0)
             /\ f = 0 \/ Runs(ts - s.last))
              => FewAlarms(r.s, d, f + Alarm(r.reason), cfg, 0)
<1> DEFINE w == Forward(s, ts)
           t == Swept(w, ts)
           r == Evaluate(s, d, ts, cfg)
           Sure == /\ CanSettle(d, cfg) /\ FewAlarms(s, d, f, cfg, 0)
                   /\ f = 0 \/ Runs(ts - s.last)
           Goal == /\ r.s.last = ts /\ Cold(r.s)
                   /\ Sure => FewAlarms(r.s, d, f + Alarm(r.reason), cfg, 0)
<1> SUFFICES Goal
  OBVIOUS
<1>1. s.n \in Nat /\ s.last \in Int /\ s.last <= ts
  BY Window DEF Fit, StatsOK, WindowOK
<1>2. StatsOK(t) /\ t.last = ts /\ t.n = s.n /\ (s.cand.n = 0 => t.cand.n = 0)
  <2>1. StatsOK(w) /\ w.last = ts
    BY <1>1, ForwardOK DEF Fit
  <2>2. w.n = s.n /\ w.cand = s.cand
    <3>1. w = s \/ w = [s EXCEPT !.last = ts]
      BY DEF Forward
    <3> HIDE DEF w
    <3>2. CASE w = [s EXCEPT !.last = ts]
      BY <3>2 DEF Fit, StatsOK, StatFields
    <3> QED
      BY <3>1, <3>2
  <2> HIDE DEF w
  <2>3. Fit(w, ts)
    BY <2>1 DEF Fit
  <2>4. StatsOK(t) /\ t.last = w.last
    BY <2>3, SweptFit DEF Fit
  <2>5. t.n = w.n /\ (w.cand.n = 0 => t.cand.n = 0)
    <3>1. t = w \/ t = [w EXCEPT !.cand = NoCandidate]
      BY DEF Swept
    <3> HIDE DEF t
    <3>2. CASE t = [w EXCEPT !.cand = NoCandidate]
      <4>1. SameWindow(w, t) /\ t.cand = NoCandidate
        BY <2>1, <3>2, CandidateFields DEF StatsOK
      <4> QED
        BY <4>1 DEF SameWindow, NoCandidate
    <3> QED
      BY <3>1, <3>2
  <2> QED
    BY <2>1, <2>2, <2>4, <2>5
<1>3. Sure => FewAlarms(t, d, f, cfg, 1)
  BY EntersFew
<1>4. \/ IsPause(s, ts) /\ r = AfterPause(d, ts)
      \/ s.n < POST_WARMUP_MIN_SAMPLES /\ r = Warmup(t, d, ts, cfg)
      \/ ~(s.n < POST_WARMUP_MIN_SAMPLES) /\ r = Baseline(t, d, ts, cfg)
  <2> DEFINE pause == IsPause(s, ts)
             warm == s.n < POST_WARMUP_MIN_SAMPLES
  <2>1. r = CASE pause -> AfterPause(d, ts)
              [] ~pause /\ warm -> Warmup(t, d, ts, cfg)
              [] OTHER -> Baseline(t, d, ts, cfg)
    BY DEF Evaluate
  <2> HIDE DEF pause, warm, r, t
  <2>2. \/ pause /\ r = AfterPause(d, ts)
        \/ warm /\ r = Warmup(t, d, ts, cfg)
        \/ ~warm /\ r = Baseline(t, d, ts, cfg)
    BY <2>1
  <2> QED
    BY <2>2 DEF pause, warm
<1> HIDE DEF t, w, r, Sure
<1>5. CASE IsPause(s, ts) /\ r = AfterPause(d, ts)
  <2>1. r.s.last = ts /\ Cold(r.s) /\ r.reason = "NONE"
    BY <1>5, AfterPauseFew
  <2>2. Sure => f = 0
    <3> SUFFICES ASSUME Runs(ts - s.last) PROVE FALSE
      BY DEF Sure
    <3>1. ts - s.last < 2000
      <4>1. PICK gap \in Int : gap = ts - s.last
        BY <1>1
      <4> QED
        BY <4>1, SettlesBelow
    <3>2. ts - s.last >= 20000
      BY <1>5 DEF IsPause, PAUSE_CEILING
    <3> QED
      BY <1>1, <3>1, <3>2
  <2>3. Sure => f + Alarm(r.reason) = 0
    BY <2>1, <2>2, AlarmNone
  <2> QED
    BY <2>1, <2>3 DEF FewAlarms
<1>6. CASE s.n < POST_WARMUP_MIN_SAMPLES /\ r = Warmup(t, d, ts, cfg)
  <2>1. t.n < POST_WARMUP_MIN_SAMPLES /\ t.cand.n = 0
    BY <1>2, <1>6 DEF Cold
  <2>2. /\ r.s.last = ts /\ Cold(r.s)
        /\ CanSettle(d, cfg) /\ FewAlarms(t, d, f, cfg, 1)
             => FewAlarms(r.s, d, f + Alarm(r.reason), cfg, 0)
    BY <1>2, <1>6, <2>1, WarmupFew
  <2> QED
    BY <1>3, <2>2 DEF Sure
<1>7. CASE ~(s.n < POST_WARMUP_MIN_SAMPLES) /\ r = Baseline(t, d, ts, cfg)
  <2>1. Past(t, ts)
    BY <1>1, <1>2, <1>7, WindowPast DEF Past
  <2>2. /\ Past(r.s, ts)
        /\ CanSettle(d, cfg) /\ FewAlarms(t, d, f, cfg, 1)
             => FewAlarms(r.s, d, f + Alarm(r.reason), cfg, 0)
    BY <1>2, <1>7, <2>1, BaselineFew
  <2>3. r.s.last = ts
    BY <2>2 DEF Past
  <2>4. Cold(r.s)
    <3>1. JudgedOK(r, ts)
      BY <1>2, <1>7, BaselineOK
    <3>2. r.s.n \in Int
      BY <3>1, Window DEF JudgedOK, Fit, StatsOK, WindowOK
    <3> QED
      BY <2>2, <3>2, WindowPast DEF Past, Cold
  <2> QED
    BY <1>3, <2>2, <2>3, <2>4 DEF Sure
<1> QED
  BY <1>4, <1>5, <1>6, <1>7

(* evaluate_frame_pacing_common calls no more frames a stutter.            *)
LEMMA CommonFew ==
  ASSUME NEW s, NEW ts \in Int, Fit(s, ts), Cold(s), NEW d \in Int, d >= 1,
         NEW cfg, cfg.mode \in Modes, NEW f \in Nat
  PROVE  LET u == EvaluateCommon(s, d, ts, cfg) IN
         /\ u.s.last = ts /\ Cold(u.s)
         /\ (/\ CanSettle(d, cfg) /\ FewAlarms(s, d, f, cfg, 0)
             /\ f = 0 \/ Runs(ts - s.last))
              => FewAlarms(u.s, d, f + Alarm(u.reason), cfg, 0)
<1> DEFINE r == Evaluate(s, d, ts, cfg)
           u == EvaluateCommon(s, d, ts, cfg)
           ratio == Ratio(MeanOf(r.s), d)
           mean == MeanOf(r.s)
           Sure == /\ CanSettle(d, cfg) /\ FewAlarms(s, d, f, cfg, 0)
                   /\ f = 0 \/ Runs(ts - s.last)
<1>1. /\ r.s.last = ts /\ Cold(r.s)
      /\ Sure => FewAlarms(r.s, d, f + Alarm(r.reason), cfg, 0)
  BY EvaluateFew
<1>2. JudgedOK(r, ts)
  BY EvaluateOK
<1>3. \/ r.reason = "RELATIVE_SPIKE" /\ u = Result(r.s, "STATIC_THRESHOLD", mean, ratio)
      \/ u = [r EXCEPT !.reason = "NONE"]
      \/ u = r
  BY DEF EvaluateCommon
<1> HIDE DEF r, u, ratio, mean, Sure
<1>4. u.s = r.s /\ Alarm(u.reason) <= Alarm(r.reason)
  <2>1. CASE r.reason = "RELATIVE_SPIKE" /\ u = Result(r.s, "STATIC_THRESHOLD", mean, ratio)
    BY <2>1 DEF Result, Alarm
  <2>2. CASE u = [r EXCEPT !.reason = "NONE"]
    <3>1. u.s = r.s /\ u.reason = "NONE"
      BY <1>2, <2>2 DEF JudgedOK, ResultFields
    <3> QED
      BY <3>1 DEF Alarm
  <2>3. CASE u = r
    BY <2>3 DEF Alarm
  <2> QED
    BY <1>3, <2>1, <2>2, <2>3
<1>5. Sure => FewAlarms(u.s, d, f + Alarm(u.reason), cfg, 0)
  <2> SUFFICES ASSUME Sure PROVE FewAlarms(r.s, d, f + Alarm(u.reason), cfg, 0)
    BY <1>4
  <2>1. r.s.n \in Nat
    BY <1>2, Window DEF JudgedOK, Fit, StatsOK, WindowOK
  <2>2. PICK a \in Nat, b \in Nat : a = Alarm(u.reason) /\ b = Alarm(r.reason)
    BY DEF Alarm
  <2>3. f + a \in Nat /\ f + b \in Nat /\ f + a <= f + b
    BY <1>4, <2>2
  <2>4. FewAlarms(r.s, d, f + b, cfg, 0)
    BY <1>1, <2>2
  <2>5. FewAlarms(r.s, d, f + a, cfg, 0)
    BY <2>1, <2>3, <2>4, FewerAlarms
  <2> QED
    BY <2>2, <2>5
<1> QED
  BY <1>1, <1>4, <1>5 DEF Sure, u

(* What a scenario lets a frame length be, for the baseline to follow it.  *)
LEMMA ConfigKnown ==
  ASSUME WorldOK
  PROVE  scene.cfg.mode \in Modes /\ scene.cfg.static \in Nat /\ scene.cfg.delta \in Nat \ {0}
  BY ScenarioAssumption DEF WorldOK, Modes

LEMMA SettleKnown ==
  ASSUME WorldOK, scene.cfg.mode # "STATIC_ONLY", NEW d \in Nat \ {0}, Runs(d),
         d * TICK # scene.cfg.static
  PROVE  CanSettle(d, scene.cfg)
  BY ConfigKnown DEF CanSettle

(* A stream's run ends with its last frame, and its stutters are few.      *)
RunOK(s, b) ==
  /\ b.last = s.last /\ b.dur \in Nat \ {0} /\ b.fired \in Nat
  /\ Cold(s)
  /\ CanSettle(b.dur, scene.cfg) => FewAlarms(s, b.dur, b.fired, scene.cfg, 0)

BeatInv ==
  /\ DOMAIN beat = DOMAIN pacing
  /\ \A k \in DOMAIN beat : RunOK(pacing[k], beat[k])

LEMMA EvaluateSettles ==
  ASSUME WorldOK, StreamInv, BeatInv, EvaluateFrame
  PROVE  BeatInv'
<1> DEFINE c == call.arg
           r == Judged(c)
           s == Stats(c)
           same == /\ c.key \in DOMAIN beat
                   /\ c.dur = beat[c.key].dur /\ Runs(c.ts - beat[c.key].last)
           f == IF same THEN beat[c.key].fired ELSE 0
           b == Beat(c, r)
<1>1. /\ c.ts \in Int /\ c.dur \in Nat \ {0} /\ c.dur \in Int /\ c.dur >= 1
      /\ \A k \in DOMAIN pacing : StatsOK(pacing[k]) /\ pacing[k].last <= c.ts
  BY DEF StreamInv, CallKnown, StreamsOK, Fit, EvaluateFrame
<1>2. scene' = scene
  BY DEF EvaluateFrame
<1>3. \/ UNCHANGED <<pacing, beat>>
      \/ pacing' = Put(pacing, c.key, r.s) /\ beat' = Put(beat, c.key, b)
  BY DEF EvaluateFrame
<1>4. r = EvaluateCommon(s, c.dur, c.ts, scene.cfg)
  BY DEF Judged
<1>5. b.dur = c.dur /\ b.last = c.ts /\ b.fired = f + Alarm(r.reason)
  <2>1. Alarm(r.reason) \in Nat
    BY DEF Alarm
  <2>2. b = [dur |-> c.dur, last |-> c.ts,
             fired |-> IF same THEN beat[c.key].fired + Alarm(r.reason) ELSE Alarm(r.reason)]
    BY DEF Beat, Alarm
  <2> HIDE DEF b, same, r, c
  <2> QED
    BY <2>1, <2>2
<1>6. c.key \in DOMAIN pacing =>
        /\ s = pacing[c.key] /\ RunOK(s, beat[c.key])
  BY DEF Stats, BeatInv
<1>7. c.key \notin DOMAIN pacing => s = FreshStats(c.ts) /\ f = 0
  BY DEF Stats, BeatInv
<1>8. Fit(s, c.ts) /\ Cold(s)
  <2>1. CASE c.key \in DOMAIN pacing
    BY <1>1, <1>6, <2>1 DEF Fit, RunOK
  <2>2. CASE c.key \notin DOMAIN pacing
    <3>1. StatsOK(FreshStats(c.ts)) /\ FreshStats(c.ts).last = c.ts
      BY <1>1, FreshOK
    <3>2. FreshStats(c.ts).cand.n = 0
      BY DEF FreshStats, NoCandidate
    <3> QED
      BY <1>1, <1>7, <2>2, <3>1, <3>2 DEF Fit, Cold
  <2> QED
    BY <2>1, <2>2
<1>9. f \in Nat
  BY <1>6 DEF RunOK, BeatInv
<1>10. CanSettle(c.dur, scene.cfg) =>
         FewAlarms(s, c.dur, f, scene.cfg, 0) /\ (f = 0 \/ Runs(c.ts - s.last))
  <2>1. CASE same
    <3>1. c.key \in DOMAIN pacing
      BY <2>1 DEF BeatInv
    <3> QED
      BY <1>6, <2>1, <3>1 DEF RunOK
  <2>2. CASE ~same
    BY <2>2 DEF FewAlarms
  <2> QED
    BY <2>1, <2>2
<1>11. scene.cfg.mode \in Modes
  BY ConfigKnown
<1> HIDE DEF c, r, s, same, f, b
<1>12. RunOK(r.s, b)
  <2> DEFINE u == EvaluateCommon(s, c.dur, c.ts, scene.cfg)
  <2>1. /\ u.s.last = c.ts /\ Cold(u.s)
        /\ (/\ CanSettle(c.dur, scene.cfg) /\ FewAlarms(s, c.dur, f, scene.cfg, 0)
            /\ f = 0 \/ Runs(c.ts - s.last))
             => FewAlarms(u.s, c.dur, f + Alarm(u.reason), scene.cfg, 0)
    BY <1>1, <1>8, <1>9, <1>11, CommonFew
  <2>2. u = r
    BY <1>4
  <2> HIDE DEF u
  <2>3. f + Alarm(r.reason) \in Nat
    BY <1>9 DEF Alarm
  <2> QED
    BY <1>1, <1>5, <1>10, <2>1, <2>2, <2>3 DEF RunOK
<1>13. CASE UNCHANGED <<pacing, beat>>
  BY <1>2, <1>13 DEF BeatInv, RunOK
<1>14. CASE pacing' = Put(pacing, c.key, r.s) /\ beat' = Put(beat, c.key, b)
  <2>1. DOMAIN beat' = DOMAIN pacing'
    BY <1>14 DEF Put, BeatInv
  <2>2. ASSUME NEW k \in DOMAIN beat'
        PROVE  \/ pacing'[k] = r.s /\ beat'[k] = b
               \/ k \in DOMAIN beat /\ pacing'[k] = pacing[k] /\ beat'[k] = beat[k]
    BY <1>14 DEF Put, BeatInv
  <2>3. ASSUME NEW k \in DOMAIN beat' PROVE RunOK(pacing'[k], beat'[k])
    BY <1>12, <2>2 DEF BeatInv
  <2>4. ASSUME NEW k \in DOMAIN beat' PROVE RunOK(pacing[k], beat[k])'
    BY <1>2, <2>3 DEF RunOK
  <2> QED
    BY <2>1, <2>4 DEF BeatInv
<1> QED
  BY <1>3, <1>13, <1>14

(* No other step judges a frame.                                           *)
LEMMA OthersJudgeNone ==
  ASSUME Next, ~EvaluateFrame
  PROVE  UNCHANGED <<scene, pacing, beat>>
<1>1. ASSUME NEW e, Deliver(e) \/ Lose(e) \/ Happens(e)
      PROVE  UNCHANGED pacing
  BY <1>1 DEF Deliver, Lose, Happens
<1>2. CASE BeginSpan \/ EndSpan \/ PointEvent
  BY <1>1, <1>2 DEF BeginSpan, EndSpan, PointEvent
<1>3. CASE PresentBegins \/ PresentEnds \/ FlipHappens
  BY <1>1, <1>3 DEF PresentBegins, PresentEnds, FlipHappens, world
<1>4. CASE OnDxgiPresent \/ OnKernelFrameStall \/ ClaimTicket \/ WriteFrame
  BY <1>4 DEF OnDxgiPresent, OnKernelFrameStall, ClaimTicket, WriteFrame, world
<1>5. CASE OnAudioGlitch \/ OnDwmGlitch \/ Report
  BY <1>5 DEF OnAudioGlitch, OnDwmGlitch, Report, world
<1>6. CASE DetachTarget \/ AttachTarget
  <2>1. \E pid : MoveTarget(pid)
    BY <1>6 DEF DetachTarget, AttachTarget
  <2> QED
    BY <2>1 DEF MoveTarget, world
<1>7. CASE ResetByUser \/ Retarget \/ FinishRestart
  BY <1>7 DEF ResetByUser, Retarget, FinishRestart, world
<1> QED
  BY <1>2, <1>3, <1>4, <1>5, <1>6, <1>7 DEF Next

LEMMA RunsStep ==
  ASSUME WorldOK, StreamInv, BeatInv, [Next]_vars
  PROVE  BeatInv'
<1>1. CASE EvaluateFrame
  BY <1>1, EvaluateSettles
<1>2. CASE ~EvaluateFrame
  <2>1. UNCHANGED <<scene, pacing, beat>>
    BY <1>2, OthersJudgeNone DEF vars, program, world
  <2> QED
    BY <2>1 DEF BeatInv, RunOK
<1> QED
  BY <1>1, <1>2

LEMMA RunsSettle ==
  ASSUME WorldOK, StreamInv, BeatInv
  PROVE  AdaptsToCadence
<1> SUFFICES ASSUME scene.cfg.mode # "STATIC_ONLY", NEW k \in DOMAIN beat,
                    Runs(beat[k].dur), beat[k].dur * TICK # scene.cfg.static
             PROVE  beat[k].fired <= MAX_REPEATS
  BY DEF AdaptsToCadence
<1> DEFINE s == pacing[k]
           f == beat[k].fired
<1>1. f \in Nat /\ FewAlarms(s, beat[k].dur, f, scene.cfg, 0)
  <2>1. RunOK(s, beat[k])
    BY DEF BeatInv
  <2>2. CanSettle(beat[k].dur, scene.cfg)
    BY <2>1, SettleKnown DEF RunOK
  <2> QED
    BY <2>1, <2>2 DEF RunOK
<1>2. s.n \in Nat
  BY Window DEF BeatInv, StreamInv, StreamsOK, Fit, StatsOK, WindowOK
<1> HIDE DEF s, f
<1>3. PICK i \in Int, p \in Int : i = INITIAL_WARMUP_SAMPLES /\ p = POST_WARMUP_MIN_SAMPLES
  BY PacingAssumption
<1>4. f <= Alarms + 1
  BY <1>1, <1>2, <1>3, AlarmsBound DEF FewAlarms
<1> QED
  BY <1>1, <1>4, AlarmsBound DEF f

(* AdaptsToCadence for every window, warm-up, candidate and configuration: *)
(* a game that settles on a steady frame length that a candidate outlives  *)
(* is called a stutterer a few times only, then the new length becomes the *)
(* baseline (process_cadence_candidate and evaluate_frame_pacing).         *)
THEOREM CadenceAlwaysAdapts == Spec => []AdaptsToCadence
<1>1. Init => WorldOK /\ StreamInv
  BY StreamInit
<1>2. WorldOK /\ StreamInv /\ [Next]_vars => (WorldOK /\ StreamInv)'
  BY StreamStep
<1>3. Init => BeatInv
  BY DEF Init, BeatInv
<1>4. WorldOK /\ StreamInv /\ BeatInv /\ [Next]_vars => BeatInv'
  BY RunsStep
<1>5. WorldOK /\ StreamInv /\ BeatInv => AdaptsToCadence
  BY RunsSettle
<1> QED
  BY <1>1, <1>2, <1>3, <1>4, <1>5, PTL DEF Spec

-----------------------------------------------------------------------------
(* The frames of the benchmark.                                            *)

Slots  == 0 .. FRAME_CAPACITY - 1
Slot(k) == bench.ring[k % FRAME_CAPACITY]

BenchFields == {"ring", "head", "start", "pid", "epoch", "paused", "started", "live", "attr"}

SlotType == [odd : BOOLEAN, dur : Nat, epoch : Nat]

BenchTypes ==
    /\ DOMAIN bench = BenchFields
    /\ bench.ring \in [Slots -> SlotType]
    /\ bench.head \in Nat /\ bench.start \in Nat /\ bench.epoch \in Nat
    /\ bench.start <= bench.head /\ session = bench.epoch

(* A frame of the target of an epoch, which is over or still the present.  *)
OfEpoch(b, epoch, pid) ==
    epoch \in Nat /\ epoch <= b.epoch /\ (epoch = b.epoch => b.pid \in {0, pid})

(* A frame under way in ingest_frame keeps the epoch it was stamped with;  *)
(* the consumer that has a ticket has the newest.                          *)
FrameUnderWay ==
    /\ call.pc \in {"STAMPED", "CLAIMED"} =>
         /\ DOMAIN call = {"pc", "arg", "epoch", "ticket", "session"}
         /\ call.session = call.epoch /\ OfEpoch(bench, call.epoch, call.arg.pid)
         /\ call.arg.dur \in Nat \ {0}
    /\ call.pc = "CLAIMED" => bench.head > 0 /\ call.ticket = bench.head - 1

Pending == IF call.pc = "CLAIMED" THEN {call.ticket} ELSE {}

(* The ring holds the last frames shown, under the epoch of each.          *)
FramesKept ==
    /\ DOMAIN shown = (0 .. bench.head - 1) \ Pending
    /\ \A k \in DOMAIN shown :
         /\ shown[k].dur \in Nat \ {0} /\ OfEpoch(bench, shown[k].session, shown[k].pid)
         /\ k + FRAME_CAPACITY >= bench.head =>
              Slot(k) = [odd |-> FALSE, dur |-> shown[k].dur, epoch |-> shown[k].session]
    /\ \A i \in Slots : bench.ring[i].odd <=> \E k \in Pending : i = k % FRAME_CAPACITY

(* Unless a restart is under way, the frames of the present epoch have     *)
(* tickets from its first on.                                              *)
FromStart ==
    restart.pc # "STARTED" =>
      /\ \A k \in DOMAIN shown : shown[k].session = bench.epoch => k >= bench.start
      /\ call.pc = "CLAIMED" /\ call.epoch = bench.epoch => call.ticket >= bench.start

RestartHasStep == "pc" \in DOMAIN restart

FrameInv == BenchTypes /\ FrameUnderWay /\ FramesKept /\ FromStart /\ RestartHasStep

LEMMA Capacity == FRAME_CAPACITY \in Nat \ {0} /\ \A k \in Nat : k % FRAME_CAPACITY \in Slots
<1>1. FRAME_CAPACITY \in Nat \ {0}
  BY BenchmarkAssumption
<1> QED
  BY <1>1 DEF Slots

(* Tickets less than a capacity apart have different slots.                *)
LEMMA Remainders ==
  ASSUME NEW n \in Nat \ {0}, NEW p \in Int, NEW q \in Int
  PROVE  \E a, b \in 0 .. n - 1, k, m \in Int :
            /\ a = p % n /\ b = q % n /\ m = n * k /\ q - p = m + (b - a)
            /\ (k = 0 => m = 0) /\ (k >= 1 => m >= n) /\ (k <= -1 => m <= -n)
<1> DEFINE k == (q \div n) - (p \div n)
           a == p % n
           b == q % n
<1>1. n * k = n * (q \div n) - n * (p \div n)
  BY Division
<1>2. k \in Int /\ a \in 0 .. n - 1 /\ b \in 0 .. n - 1 /\ q - p = n * k + (b - a)
  BY <1>1, Division
<1>3. a = p % n /\ b = q % n
  OBVIOUS
<1> HIDE DEF k, a, b
<1>4. n * k \in Int /\ (k = 0 => n * k = 0) /\ (k >= 1 => n * k >= n) /\ (k <= -1 => n * k <= -n)
  BY <1>2, Multiple
<1> QED
  BY <1>2, <1>3, <1>4, Zenon

LEMMA CellsDiffer ==
  ASSUME NEW n \in Nat \ {0}, NEW p \in Int, NEW q \in Int, p < q, q < p + n
  PROVE  p % n # q % n
<1>1. PICK a, b \in 0 .. n - 1, k, m \in Int :
            /\ a = p % n /\ b = q % n /\ m = n * k /\ q - p = m + (b - a)
            /\ (k = 0 => m = 0) /\ (k >= 1 => m >= n) /\ (k <= -1 => m <= -n)
  BY Remainders
<1>2. a # b
  BY <1>1
<1> QED
  BY <1>1, <1>2

LEMMA SlotsDiffer ==
  ASSUME NEW j \in Nat, NEW k \in Nat, j < k, k < j + FRAME_CAPACITY
  PROVE  j % FRAME_CAPACITY # k % FRAME_CAPACITY
<1>1. PICK n \in Nat \ {0} : n = FRAME_CAPACITY
  BY Capacity
<1>2. j \in Int /\ k \in Int /\ k < j + n
  BY <1>1
<1>3. j % n # k % n
  BY <1>2, CellsDiffer
<1> QED
  BY <1>1, <1>3

(* What the summary needs of the benchmark is left alone by a step that    *)
(* counts a pause, a filtered event, a report, or takes the telemetry.     *)
SameFrames(b, c) ==
    /\ DOMAIN c = BenchFields /\ c.ring = b.ring /\ c.head = b.head /\ c.start = b.start
    /\ c.pid = b.pid /\ c.epoch = b.epoch

LEMMA OtherFields ==
  ASSUME NEW b, DOMAIN b = BenchFields
  PROVE  /\ SameFrames(b, b)
         /\ \A d : SameFrames(b, CountPause(b, d))
         /\ \A m : SameFrames(b, UpdateTelemetry(b, m))
         /\ \A p, d, r : SameFrames(b, IngestFiltered(b, p, d, r))
         /\ \A r : SameFrames(b, IngestReport(b, r))
<1>1. \A x : /\ SameFrames(b, [b EXCEPT !.paused = x]) /\ SameFrames(b, [b EXCEPT !.live = x])
             /\ SameFrames(b, [b EXCEPT !.attr = x])
  BY DEF SameFrames, BenchFields
<1>2. SameFrames(b, b)
  BY DEF SameFrames
<1>3. \A d : SameFrames(b, CountPause(b, d))
  BY <1>1, <1>2 DEF CountPause
<1>4. \A m : SameFrames(b, UpdateTelemetry(b, m))
  BY <1>1 DEF UpdateTelemetry
<1>5. \A p, d, r : SameFrames(b, IngestFiltered(b, p, d, r))
  BY <1>1, <1>2 DEF IngestFiltered
<1>6. \A r : SameFrames(b, IngestReport(b, r))
  BY <1>1, <1>2 DEF IngestReport
<1> QED
  BY <1>2, <1>3, <1>4, <1>5, <1>6

-----------------------------------------------------------------------------
(* The steps that leave the frames alone.                                  *)

FramesSame == SameFrames(bench, bench') /\ UNCHANGED <<shown, session>>

(* The consumer keeps its place, or moves between two calls that hold no   *)
(* frame.                                                                  *)
NoFrameClaimed ==
  \/ call' = call
  \/ call.pc # "CLAIMED" /\ call'.pc \in {"IDLE", "CALL", "EVALUATE"}

LEMMA FrameKept ==
  ASSUME FrameInv, FramesSame, NoFrameClaimed,
         restart'.pc # "STARTED" => restart.pc # "STARTED", RestartHasStep'
  PROVE  FrameInv'
<1> USE DEF FrameInv, FramesSame
<1>1. /\ bench'.ring = bench.ring /\ bench'.head = bench.head /\ bench'.start = bench.start
      /\ bench'.pid = bench.pid /\ bench'.epoch = bench.epoch /\ DOMAIN bench' = BenchFields
      /\ shown' = shown /\ session' = session
  BY DEF SameFrames
<1>2. \A e, p : OfEpoch(bench', e, p) <=> OfEpoch(bench, e, p)
  BY <1>1 DEF OfEpoch
<1>3. \A k : Slot(k)' = Slot(k)
  BY <1>1 DEF Slot
<1>4. Pending' = Pending
  BY DEF Pending, NoFrameClaimed
<1>5. BenchTypes'
  BY <1>1 DEF BenchTypes
<1>6. FrameUnderWay'
  BY <1>1, <1>2 DEF FrameUnderWay, OfEpoch, NoFrameClaimed
<1>7. FramesKept'
  BY <1>1, <1>2, <1>3, <1>4 DEF FramesKept
<1>8. FromStart'
  BY <1>1 DEF FromStart, NoFrameClaimed
<1> QED
  BY <1>5, <1>6, <1>7, <1>8

-----------------------------------------------------------------------------
(* What ingest_frame does to the ring.                                     *)

LEMMA IngestibleFrame ==
  ASSUME NEW b, NEW pid, NEW dur, Ingestible(b, pid, dur)
  PROVE  dur \in Nat \ {0} /\ b.pid \in {0, pid}
<1>1. PAUSE_CEILING_MS - 1 \in Nat
  BY DEF PAUSE_CEILING_MS
<1>2. dur \in 1 .. PAUSE_CEILING_MS - 1 /\ b.pid \in {0, pid}
  BY DEF Ingestible
<1> QED
  BY <1>1, <1>2

LEMMA Claimed ==
  ASSUME NEW b, DOMAIN b = BenchFields, b.ring \in [Slots -> SlotType], b.head \in Nat,
         NEW s \in Slots, s = b.head % FRAME_CAPACITY, ~b.ring[s].odd
  PROVE  LET c == ClaimFrame(b) IN
         /\ DOMAIN c = BenchFields /\ c.head = b.head + 1 /\ c.start = b.start
         /\ c.pid = b.pid /\ c.epoch = b.epoch /\ c.ring \in [Slots -> SlotType]
         /\ c.ring[s].odd /\ \A i \in Slots : i # s => c.ring[i] = b.ring[i]
<1> DEFINE o == ~b.ring[s].odd
           x == [b.ring[s] EXCEPT !.odd = o]
           r == [b.ring EXCEPT ![s] = x]
           d == [b EXCEPT !.started = TRUE, !.head = b.head + 1]
<1>1. ClaimFrame(b) = [d EXCEPT !.ring = r]
  BY DEF ClaimFrame, BenchFields
<1>2. o = TRUE
  OBVIOUS
<1>3. x.odd /\ x \in SlotType
  <2>1. PICK q \in SlotType : q = b.ring[s]
    OBVIOUS
  <2>2. x = [q EXCEPT !.odd = TRUE]
    BY <1>2, <2>1
  <2> HIDE DEF x
  <2> QED
    BY <2>2 DEF SlotType
<1> HIDE DEF x
<1>4. DOMAIN r = Slots /\ r[s] = x /\ \A i \in Slots : i # s => r[i] = b.ring[i]
  OBVIOUS
<1>5. r \in [Slots -> SlotType]
  BY <1>3
<1>6. /\ DOMAIN d = BenchFields /\ d.head = b.head + 1 /\ d.start = b.start
      /\ d.pid = b.pid /\ d.epoch = b.epoch
  BY DEF BenchFields
<1> HIDE DEF d, r
<1>7. LET c == ClaimFrame(b) IN
      /\ DOMAIN c = BenchFields /\ c.head = b.head + 1 /\ c.start = b.start
      /\ c.pid = b.pid /\ c.epoch = b.epoch /\ c.ring = r
  BY <1>1, <1>6 DEF BenchFields
<1> QED
  BY <1>3, <1>4, <1>5, <1>7

LEMMA Published ==
  ASSUME NEW b, DOMAIN b = BenchFields, b.ring \in [Slots -> SlotType], b.head \in Nat,
         NEW k, NEW s \in Slots, s = k % FRAME_CAPACITY, b.ring[s].odd,
         NEW dur \in Nat, NEW epoch \in Nat
  PROVE  LET c == PublishFrame(b, k, dur, epoch) IN
         /\ DOMAIN c = BenchFields /\ c.head = b.head /\ c.start = b.start
         /\ c.pid = b.pid /\ c.epoch = b.epoch /\ c.ring \in [Slots -> SlotType]
         /\ c.ring[s] = [odd |-> FALSE, dur |-> dur, epoch |-> epoch]
         /\ \A i \in Slots : i # s => c.ring[i] = b.ring[i]
<1> DEFINE o == ~b.ring[s].odd
           x == [odd |-> o, dur |-> dur, epoch |-> epoch]
           r == [b.ring EXCEPT ![s] = x]
<1>1. PublishFrame(b, k, dur, epoch) = [b EXCEPT !.ring = r]
  BY DEF PublishFrame, BenchFields
<1>2. o = FALSE
  OBVIOUS
<1>3. x = [odd |-> FALSE, dur |-> dur, epoch |-> epoch]
  BY <1>2
<1>4. x \in SlotType
  BY <1>3 DEF SlotType
<1> HIDE DEF x
<1>5. DOMAIN r = Slots /\ r[s] = x /\ \A i \in Slots : i # s => r[i] = b.ring[i]
  OBVIOUS
<1>6. r \in [Slots -> SlotType]
  BY <1>4
<1> HIDE DEF r
<1>7. LET c == PublishFrame(b, k, dur, epoch) IN
      /\ DOMAIN c = BenchFields /\ c.head = b.head /\ c.start = b.start
      /\ c.pid = b.pid /\ c.epoch = b.epoch /\ c.ring = r
  BY <1>1 DEF BenchFields
<1> QED
  BY <1>3, <1>5, <1>6, <1>7

-----------------------------------------------------------------------------
(* The steps of a frame through ingest_frame.                              *)

LEMMA HandKept ==
  ASSUME FrameInv, FramesSame, restart' = restart, call.pc = "CALL",
         \/ Ingestible(bench, call.arg.pid, call.arg.dur) /\ Hand("STAMPED")
         \/ Hand("EVALUATE")
  PROVE  FrameInv'
<1> USE DEF FrameInv
<1>1. CASE Hand("EVALUATE")
  <2>1. call'.pc = "EVALUATE"
    BY <1>1 DEF Hand
  <2> QED
    BY <2>1, FrameKept DEF RestartHasStep, NoFrameClaimed
<1>2. CASE Ingestible(bench, call.arg.pid, call.arg.dur) /\ Hand("STAMPED")
  <2>1. /\ bench'.ring = bench.ring /\ bench'.head = bench.head /\ bench'.start = bench.start
        /\ bench'.pid = bench.pid /\ bench'.epoch = bench.epoch /\ DOMAIN bench' = BenchFields
        /\ shown' = shown /\ session' = session
    BY DEF SameFrames, FramesSame
  <2>2. call' = [pc |-> "STAMPED", arg |-> call.arg, epoch |-> bench.epoch, ticket |-> 0,
                 session |-> session]
    BY <1>2 DEF Hand
  <2>3. /\ DOMAIN call' = {"pc", "arg", "epoch", "ticket", "session"}
        /\ call'.pc = "STAMPED" /\ call'.arg = call.arg
        /\ call'.epoch = bench.epoch /\ call'.session = session
    BY <2>2
  <2>4. bench.epoch \in Nat /\ session = bench.epoch
    BY DEF BenchTypes
  <2>5. call.arg.dur \in Nat \ {0} /\ bench.pid \in {0, call.arg.pid}
    BY <1>2, IngestibleFrame
  <2>6. FrameUnderWay'
    BY <2>1, <2>3, <2>4, <2>5 DEF FrameUnderWay, OfEpoch
  <2>7. Pending' = Pending
    BY <2>3 DEF Pending
  <2>8. BenchTypes'
    BY <2>1 DEF BenchTypes
  <2>9. \A k : Slot(k)' = Slot(k)
    BY <2>1 DEF Slot
  <2>10. FramesKept'
    BY <2>1, <2>7, <2>9 DEF FramesKept, OfEpoch
  <2>11. FromStart'
    BY <2>1, <2>3 DEF FromStart
  <2> QED
    BY <2>6, <2>8, <2>10, <2>11 DEF RestartHasStep
<1> QED
  BY <1>1, <1>2

LEMMA ClaimKept ==
  ASSUME FrameInv, ClaimTicket
  PROVE  FrameInv'
<1> USE DEF FrameInv
<1> DEFINE h == bench.head
           s == h % FRAME_CAPACITY
<1>1. /\ h \in Nat /\ s \in Slots /\ bench.start \in Nat /\ bench.start <= h
      /\ bench.ring \in [Slots -> SlotType]
      /\ DOMAIN bench = BenchFields /\ call.pc = "STAMPED" /\ Pending = {}
  BY Capacity DEF BenchTypes, ClaimTicket, Pending
<1>2. ~bench.ring[s].odd
  BY <1>1 DEF FramesKept
<1>3. /\ DOMAIN bench' = BenchFields /\ bench'.head = h + 1 /\ bench'.start = bench.start
      /\ bench'.pid = bench.pid /\ bench'.epoch = bench.epoch
      /\ bench'.ring \in [Slots -> SlotType]
      /\ bench'.ring[s].odd /\ \A i \in Slots : i # s => bench'.ring[i] = bench.ring[i]
  <2>1. bench' = ClaimFrame(bench)
    BY DEF ClaimTicket
  <2> QED
    BY <1>1, <1>2, <2>1, Claimed
<1> UNCHANGED <<shown, session, restart>>
  BY DEF ClaimTicket, world
<1>4. /\ DOMAIN call = {"pc", "arg", "epoch", "ticket", "session"}
      /\ call.session = call.epoch /\ OfEpoch(bench, call.epoch, call.arg.pid)
      /\ call.arg.dur \in Nat \ {0}
  BY <1>1 DEF FrameUnderWay
<1>5. call' = [call EXCEPT !.pc = "CLAIMED", !.ticket = h]
  BY DEF ClaimTicket
<1>6. /\ DOMAIN call' = {"pc", "arg", "epoch", "ticket", "session"}
      /\ call'.session = call.session /\ call'.epoch = call.epoch /\ call'.arg = call.arg
      /\ call'.pc = "CLAIMED" /\ call'.ticket = h
  BY <1>4, <1>5
<1>7. Pending' = {h}
  BY <1>6 DEF Pending
<1> HIDE DEF h, s
<1>8. \A e, p : OfEpoch(bench', e, p) <=> OfEpoch(bench, e, p)
  BY <1>3 DEF OfEpoch
<1>9. BenchTypes'
  BY <1>1, <1>3 DEF BenchTypes
<1>10. FrameUnderWay'
  BY <1>1, <1>3, <1>4, <1>6, <1>8 DEF FrameUnderWay
<1>11. DOMAIN shown' = (0 .. bench'.head - 1) \ Pending'
  BY <1>1, <1>3, <1>7 DEF FramesKept, h
<1>12. ASSUME NEW i \in Slots
       PROVE  bench'.ring[i].odd <=> \E k \in Pending' : i = k % FRAME_CAPACITY
  <2>1. s = h % FRAME_CAPACITY
    BY DEF s
  <2>2. ~bench.ring[i].odd
    BY <1>1 DEF FramesKept
  <2> QED
    BY <1>3, <1>7, <2>1, <2>2
<1>13. ASSUME NEW k \in DOMAIN shown', k + FRAME_CAPACITY >= bench'.head
       PROVE  Slot(k)' = [odd |-> FALSE, dur |-> shown'[k].dur, epoch |-> shown'[k].session]
  <2>1. k \in DOMAIN shown /\ k \in Nat /\ k < h
    BY <1>1, <1>3 DEF FramesKept, h
  <2>2. h < k + FRAME_CAPACITY
    BY <1>1, <1>3, <1>13, <2>1, Capacity
  <2>3. k % FRAME_CAPACITY # s /\ k % FRAME_CAPACITY \in Slots
    BY <1>1, <2>1, <2>2, SlotsDiffer, Capacity DEF s
  <2>4. bench'.ring[k % FRAME_CAPACITY] = bench.ring[k % FRAME_CAPACITY]
    BY <1>1, <1>3, <2>3
  <2>5. h = bench.head /\ FRAME_CAPACITY \in Nat
    BY Capacity DEF h
  <2>6. k + FRAME_CAPACITY >= bench.head
    BY <2>1, <2>2, <2>5, <1>1
  <2> QED
    BY <1>3, <2>1, <2>4, <2>6 DEF FramesKept, Slot
<1>14. FramesKept'
  <2>1. \A k \in DOMAIN shown' :
          shown'[k].dur \in Nat \ {0} /\ OfEpoch(bench', shown'[k].session, shown'[k].pid)
    BY <1>3, <1>8 DEF FramesKept
  <2> QED
    BY <1>11, <1>12, <1>13, <2>1 DEF FramesKept
<1>15. FromStart'
  BY <1>1, <1>3, <1>6 DEF FromStart, h
<1> QED
  BY <1>9, <1>10, <1>14, <1>15 DEF RestartHasStep

LEMMA WriteKept ==
  ASSUME FrameInv, WriteFrame
  PROVE  FrameInv'
<1> USE DEF FrameInv
<1> DEFINE t == call.ticket
           s == t % FRAME_CAPACITY
           new == [pid |-> call.arg.pid, dur |-> call.arg.dur, session |-> call.session]
<1>1. /\ call.pc = "CLAIMED" /\ bench.head \in Nat /\ bench.head > 0 /\ t = bench.head - 1
      /\ DOMAIN call = {"pc", "arg", "epoch", "ticket", "session"}
      /\ call.session = call.epoch /\ OfEpoch(bench, call.epoch, call.arg.pid)
      /\ call.arg.dur \in Nat \ {0} /\ Pending = {t}
  BY DEF WriteFrame, FrameUnderWay, BenchTypes, Pending
<1>2. /\ bench.ring \in [Slots -> SlotType]
      /\ DOMAIN bench = BenchFields /\ t \in Nat /\ s \in Slots /\ call.epoch \in Nat
  BY <1>1, Capacity DEF BenchTypes, OfEpoch
<1>3. bench.ring[s].odd
  BY <1>1, <1>2 DEF FramesKept
<1>4. /\ DOMAIN bench' = BenchFields /\ bench'.head = bench.head /\ bench'.start = bench.start
      /\ bench'.pid = bench.pid /\ bench'.epoch = bench.epoch
      /\ bench'.ring \in [Slots -> SlotType]
      /\ bench'.ring[s] = [odd |-> FALSE, dur |-> call.arg.dur, epoch |-> call.epoch]
      /\ \A i \in Slots : i # s => bench'.ring[i] = bench.ring[i]
  <2>1. bench' = PublishFrame(bench, t, call.arg.dur, call.epoch)
    BY DEF WriteFrame
  <2> QED
    BY <1>1, <1>2, <1>3, <2>1, Published
<1> UNCHANGED <<session, restart>>
  BY DEF WriteFrame
<1>5. call'.pc = "EVALUATE" /\ Pending' = {}
  BY <1>1 DEF WriteFrame, Pending
<1>6. shown' = [k \in DOMAIN shown \cup {t} |-> IF k = t THEN new ELSE shown[k]]
  BY DEF WriteFrame, Put
<1> HIDE DEF new
<1>7. /\ DOMAIN shown' = DOMAIN shown \cup {t} /\ shown'[t] = new
       /\ \A k \in DOMAIN shown : k # t => shown'[k] = shown[k]
  BY <1>6
<1> HIDE DEF t, s
<1>8. \A e, p : OfEpoch(bench', e, p) <=> OfEpoch(bench, e, p)
  BY <1>4 DEF OfEpoch
<1>9. BenchTypes'
  BY <1>2, <1>4 DEF BenchTypes
<1>10. FrameUnderWay'
  BY <1>5 DEF FrameUnderWay
<1>11. DOMAIN shown = (0 .. bench.head - 1) \ {t}
  BY <1>1 DEF FramesKept
<1>12. DOMAIN shown' = (0 .. bench'.head - 1) \ Pending'
  BY <1>1, <1>4, <1>5, <1>7, <1>11
<1>13. ASSUME NEW k \in DOMAIN shown'
       PROVE  /\ shown'[k].dur \in Nat \ {0} /\ OfEpoch(bench', shown'[k].session, shown'[k].pid)
              /\ k + FRAME_CAPACITY >= bench'.head =>
                   Slot(k)' = [odd |-> FALSE, dur |-> shown'[k].dur, epoch |-> shown'[k].session]
  <2>1. CASE k = t
    <3>1. /\ shown'[k].dur = call.arg.dur /\ shown'[k].session = call.epoch
          /\ shown'[k].pid = call.arg.pid
      BY <1>1, <1>7, <2>1 DEF new
    <3>2. Slot(k)' = [odd |-> FALSE, dur |-> call.arg.dur, epoch |-> call.epoch]
      BY <1>4, <2>1 DEF Slot, s
    <3> QED
      BY <1>1, <1>8, <3>1, <3>2
  <2>2. CASE k # t
    <3>1. k \in DOMAIN shown /\ shown'[k] = shown[k] /\ k \in Nat /\ k < t
      BY <1>1, <1>7, <1>11, <2>2
    <3>2. ASSUME k + FRAME_CAPACITY >= bench'.head PROVE Slot(k)' = Slot(k)
      <4>1. t < k + FRAME_CAPACITY /\ k < t
        BY <1>1, <1>4, <3>1, <3>2, Capacity
      <4>2. k % FRAME_CAPACITY # s /\ k % FRAME_CAPACITY \in Slots
        BY <1>2, <3>1, <4>1, SlotsDiffer, Capacity DEF s
      <4> QED
        BY <1>4, <4>2 DEF Slot
    <3> QED
      BY <1>4, <1>8, <3>1, <3>2 DEF FramesKept
  <2> QED
    BY <2>1, <2>2
<1>14. \A i \in Slots : ~bench'.ring[i].odd
  BY <1>1, <1>4 DEF FramesKept, s
<1>15. FramesKept'
  BY <1>5, <1>12, <1>13, <1>14 DEF FramesKept
<1>16. FromStart'
  <2> SUFFICES ASSUME restart.pc # "STARTED", NEW k \in DOMAIN shown',
                      shown'[k].session = bench.epoch
               PROVE  k >= bench.start
    BY <1>4, <1>5 DEF FromStart
  <2>1. CASE k = t
    BY <1>1, <1>7, <2>1 DEF FromStart, new, t
  <2>2. CASE k # t
    BY <1>7, <2>2 DEF FromStart
  <2> QED
    BY <2>1, <2>2
<1> QED
  BY <1>9, <1>10, <1>15, <1>16 DEF RestartHasStep

-----------------------------------------------------------------------------
(* The steps of a restart: what was shown keeps its epoch and its slot.    *)

LEMMA RestartSteps ==
  /\ \A b : DOMAIN b = BenchFields =>
       LET c == BeginRestart(b) IN
       /\ DOMAIN c = BenchFields /\ c.ring = b.ring /\ c.head = b.head /\ c.start = b.head
       /\ c.pid = b.pid /\ c.epoch = b.epoch
  /\ \A b, pid : DOMAIN b = BenchFields =>
       LET c == EndRestart(b, pid) IN
       /\ DOMAIN c = BenchFields /\ c.ring = b.ring /\ c.head = b.head /\ c.start = b.start
       /\ c.pid = pid /\ c.epoch = b.epoch + 1
<1>1. ASSUME NEW b, DOMAIN b = BenchFields
      PROVE  LET c == BeginRestart(b) IN
             /\ DOMAIN c = BenchFields /\ c.ring = b.ring /\ c.head = b.head /\ c.start = b.head
             /\ c.pid = b.pid /\ c.epoch = b.epoch
  BY <1>1 DEF BeginRestart, BenchFields
<1>2. ASSUME NEW b, NEW pid, DOMAIN b = BenchFields
      PROVE  LET c == EndRestart(b, pid) IN
             /\ DOMAIN c = BenchFields /\ c.ring = b.ring /\ c.head = b.head /\ c.start = b.start
             /\ c.pid = pid /\ c.epoch = b.epoch + 1
  BY <1>2 DEF EndRestart, BenchFields
<1> QED
  BY <1>1, <1>2

LEMMA BeginKept ==
  ASSUME FrameInv, ResetByUser \/ Retarget
  PROVE  FrameInv'
<1> USE DEF FrameInv
<1>1. /\ UNCHANGED <<call, shown, session>> /\ bench' = BeginRestart(bench)
      /\ restart'.pc = "STARTED"
  <2>1. CASE ResetByUser
    BY <2>1 DEF ResetByUser, world
  <2>2. CASE Retarget
    <3>1. restart.pc = "MOVED" /\ restart' = [restart EXCEPT !.pc = "STARTED"]
      BY <2>2 DEF Retarget
    <3>2. "pc" \in DOMAIN restart
      BY DEF RestartHasStep
    <3> QED
      BY <2>2, <3>1, <3>2 DEF Retarget, world
  <2> QED
    BY <2>1, <2>2
<1>2. /\ DOMAIN bench' = BenchFields /\ bench'.ring = bench.ring /\ bench'.head = bench.head
      /\ bench'.start = bench.head /\ bench'.pid = bench.pid /\ bench'.epoch = bench.epoch
  BY <1>1, RestartSteps DEF BenchTypes
<1>3. \A e, p : OfEpoch(bench', e, p) <=> OfEpoch(bench, e, p)
  BY <1>2 DEF OfEpoch
<1>4. \A k : Slot(k)' = Slot(k)
  BY <1>2 DEF Slot
<1>5. Pending' = Pending
  BY <1>1 DEF Pending
<1>6. BenchTypes'
  BY <1>1, <1>2 DEF BenchTypes
<1>7. FrameUnderWay'
  BY <1>1, <1>2, <1>3 DEF FrameUnderWay
<1>8. FramesKept'
  BY <1>1, <1>2, <1>3, <1>4, <1>5 DEF FramesKept
<1>9. FromStart'
  BY <1>1 DEF FromStart
<1>10. RestartHasStep'
  BY <1>1 DEF RestartHasStep, ResetByUser, Retarget
<1> QED
  BY <1>6, <1>7, <1>8, <1>9, <1>10

LEMMA FinishKept ==
  ASSUME FrameInv, FinishRestart
  PROVE  FrameInv'
<1> USE DEF FrameInv
<1>1. /\ UNCHANGED <<call, shown>> /\ session' = session + 1
      /\ bench' = EndRestart(bench, restart.pid) /\ restart' = [restart EXCEPT !.pc = "IDLE"]
  BY DEF FinishRestart
<1>2. /\ DOMAIN bench' = BenchFields /\ bench'.ring = bench.ring /\ bench'.head = bench.head
      /\ bench'.start = bench.start /\ bench'.epoch = bench.epoch + 1 /\ bench.epoch \in Nat
  BY <1>1, RestartSteps DEF BenchTypes
<1>3. \A e, p : OfEpoch(bench, e, p) => OfEpoch(bench', e, p) /\ e # bench'.epoch
  BY <1>2 DEF OfEpoch
<1>4. \A k : Slot(k)' = Slot(k)
  BY <1>2 DEF Slot
<1>5. Pending' = Pending
  BY <1>1 DEF Pending
<1>6. BenchTypes'
  BY <1>1, <1>2 DEF BenchTypes
<1>7. FrameUnderWay'
  BY <1>1, <1>2, <1>3 DEF FrameUnderWay
<1>8. FramesKept'
  BY <1>1, <1>2, <1>3, <1>4, <1>5 DEF FramesKept
<1>9. FromStart'
  <2>1. \A k \in DOMAIN shown : shown[k].session # bench'.epoch
    BY <1>3 DEF FramesKept
  <2>2. call.pc = "CLAIMED" => call.epoch # bench'.epoch
    BY <1>3 DEF FrameUnderWay
  <2> QED
    BY <1>1, <2>1, <2>2 DEF FromStart
<1>10. RestartHasStep'
  BY <1>1 DEF RestartHasStep
<1> QED
  BY <1>6, <1>7, <1>8, <1>9, <1>10

-----------------------------------------------------------------------------
(* Every step.                                                             *)

LEMMA FramesUntouched ==
  ASSUME FrameInv, UNCHANGED <<bench, shown, session>>
  PROVE  FramesSame
  BY OtherFields DEF FrameInv, BenchTypes, FramesSame

(* The kernel and the world: what happens is handed to the engine or not.  *)
LEMMA HappensKept ==
  ASSUME FrameInv, NEW e, Deliver(e) \/ Lose(e), UNCHANGED <<shown, session>>
  PROVE  FramesSame /\ UNCHANGED restart
           /\ NoFrameClaimed
<1>1. CASE Deliver(e)
  <2>1. call.pc = "IDLE" /\ UNCHANGED <<bench, restart>>
    BY <1>1 DEF Deliver
  <2>2. call'.pc \in {"IDLE", "CALL"}
    BY <1>1 DEF Deliver, Idle
  <2> QED
    BY <2>1, <2>2, FramesUntouched DEF NoFrameClaimed
<1>2. CASE Lose(e)
  BY <1>2, FramesUntouched DEF Lose, NoFrameClaimed
<1> QED
  BY <1>1, <1>2

LEMMA WorldKept ==
  ASSUME FrameInv, \/ BeginSpan \/ EndSpan \/ PointEvent \/ PresentBegins \/ PresentEnds
                   \/ FlipHappens
  PROVE  FrameInv'
<1>1. \E e : (Deliver(e) \/ Lose(e)) /\ UNCHANGED <<shown, session>>
  <2>1. CASE BeginSpan
    BY <2>1 DEF BeginSpan, Happens
  <2>2. CASE EndSpan
    BY <2>2 DEF EndSpan, Happens
  <2>3. CASE PointEvent
    BY <2>3 DEF PointEvent, Happens
  <2>4. CASE PresentBegins
    BY <2>4 DEF PresentBegins, world
  <2>5. CASE PresentEnds
    BY <2>5 DEF PresentEnds
  <2>6. CASE FlipHappens
    BY <2>6 DEF FlipHappens, world
  <2> QED
    BY <2>1, <2>2, <2>3, <2>4, <2>5, <2>6
<1>2. PICK e : (Deliver(e) \/ Lose(e)) /\ UNCHANGED <<shown, session>>
  BY <1>1
<1>3. FramesSame /\ UNCHANGED restart
           /\ NoFrameClaimed
  BY <1>2, HappensKept
<1>4. RestartHasStep'
  BY <1>3 DEF FrameInv, RestartHasStep
<1> QED
  BY <1>3, <1>4, FrameKept

LEMMA ReturnKept ==
  ASSUME FrameInv, FramesSame, UNCHANGED restart, Return, call.pc # "CLAIMED"
  PROVE  FrameInv'
<1>1. call'.pc = "IDLE"
  BY DEF Return, Idle
<1>2. RestartHasStep'
  BY DEF FrameInv, RestartHasStep
<1> QED
  BY <1>1, <1>2, FrameKept DEF NoFrameClaimed

LEMMA HandlersKept ==
  ASSUME FrameInv, OnDxgiPresent \/ OnKernelFrameStall
  PROVE  FrameInv'
<1>1. /\ call.pc = "CALL" /\ UNCHANGED <<restart, shown, session>> /\ DOMAIN bench = BenchFields
  BY DEF OnDxgiPresent, OnKernelFrameStall, Calls, world, FrameInv, BenchTypes
<1>2. CASE bench' = CountPause(bench, call.arg.dur) /\ IngestFrame
  <2>1. FramesSame
    BY <1>1, <1>2, OtherFields DEF FramesSame
  <2>2. \/ Ingestible(bench, call.arg.pid, call.arg.dur) /\ Hand("STAMPED")
        \/ Hand("EVALUATE")
    BY <1>2 DEF IngestFrame
  <2> QED
    BY <1>1, <2>1, <2>2, HandKept
<1>3. CASE UNCHANGED bench /\ Hand("EVALUATE")
  BY <1>1, <1>3, FramesUntouched, HandKept
<1>4. CASE Return /\ FramesSame
  BY <1>1, <1>4, ReturnKept
<1>5. CASE OnDxgiPresent
  <2>1. CASE ShouldTriggerOn(call.arg.pid)
    BY <1>2, <1>5, <2>1 DEF OnDxgiPresent
  <2>2. CASE ~ShouldTriggerOn(call.arg.pid)
    <3>1. Return /\ UNCHANGED bench
      BY <1>5, <2>2 DEF OnDxgiPresent
    <3> QED
      BY <1>1, <1>4, <3>1, FramesUntouched
  <2> QED
    BY <2>1, <2>2
<1>6. CASE OnKernelFrameStall
  <2>1. \/ Return /\ UNCHANGED bench
        \/ Return /\ \E t : RecordFiltered(t)
        \/ bench' = CountPause(bench, call.arg.dur) /\ IngestFrame
        \/ UNCHANGED bench /\ Hand("EVALUATE")
    BY <1>6 DEF OnKernelFrameStall
  <2>2. CASE Return /\ UNCHANGED bench
    BY <1>1, <1>4, <2>2, FramesUntouched
  <2>3. CASE Return /\ \E t : RecordFiltered(t)
    BY <1>1, <1>4, <2>3, OtherFields DEF RecordFiltered, FramesSame
  <2> QED
    BY <1>2, <1>3, <2>1, <2>2, <2>3
<1> QED
  BY <1>5, <1>6

LEMMA JudgesKept ==
  ASSUME FrameInv, EvaluateFrame \/ OnAudioGlitch \/ OnDwmGlitch
  PROVE  FrameInv'
<1>1. /\ Return /\ call.pc # "CLAIMED" /\ UNCHANGED <<restart, shown, session>>
      /\ DOMAIN bench = BenchFields
  BY DEF EvaluateFrame, OnAudioGlitch, OnDwmGlitch, Calls, world, FrameInv, BenchTypes
<1>2. SUFFICES FramesSame
  BY <1>1, ReturnKept
<1>3. CASE UNCHANGED bench
  BY <1>1, <1>3, FramesUntouched
<1>4. CASE \E t : RecordFiltered(t)
  BY <1>1, <1>4, OtherFields DEF RecordFiltered, FramesSame
<1>5. CASE EvaluateFrame
  <2> DEFINE c == call.arg
             r == Judged(c)
             b == Telemetered(c, r)
  <2>1. SameFrames(bench, b)
    BY <1>1, OtherFields DEF Telemetered
  <2>2. \/ UNCHANGED bench \/ bench' = b
        \/ \E p, d, y : bench' = IngestFiltered(b, p, d, y)
    BY <1>5 DEF EvaluateFrame
  <2> HIDE DEF b
  <2>3. DOMAIN b = BenchFields
    BY <2>1 DEF SameFrames
  <2>4. CASE \E p, d, y : bench' = IngestFiltered(b, p, d, y)
    <3>1. SameFrames(b, bench')
      BY <2>3, <2>4, OtherFields
    <3>2. SameFrames(bench, bench')
      BY <2>1, <3>1 DEF SameFrames
    <3> QED
      BY <1>1, <3>2 DEF FramesSame
  <2> QED
    BY <1>1, <1>3, <2>1, <2>2, <2>4 DEF FramesSame
<1>6. CASE OnAudioGlitch
  BY <1>3, <1>6 DEF OnAudioGlitch
<1>7. CASE OnDwmGlitch
  <2>1. UNCHANGED bench \/ \E t : RecordFiltered(t)
    BY <1>7 DEF OnDwmGlitch, Initiate
  <2> QED
    BY <1>3, <1>4, <2>1
<1> QED
  BY <1>5, <1>6, <1>7

LEMMA ReportKept ==
  ASSUME FrameInv, Report
  PROVE  FrameInv'
<1>1. /\ UNCHANGED <<call, restart, shown, session>> /\ DOMAIN bench = BenchFields
      /\ \E x : bench' = IngestReport(bench, x)
  BY DEF Report, world, FrameInv, BenchTypes
<1>2. FramesSame
  BY <1>1, OtherFields DEF FramesSame
<1>3. RestartHasStep'
  BY <1>1 DEF FrameInv, RestartHasStep
<1> QED
  BY <1>1, <1>2, <1>3, FrameKept DEF NoFrameClaimed

LEMMA TargetsKept ==
  ASSUME FrameInv, DetachTarget \/ AttachTarget
  PROVE  FrameInv'
<1>1. \E pid : MoveTarget(pid)
  BY DEF DetachTarget, AttachTarget
<1>2. PICK pid : MoveTarget(pid)
  BY <1>1
<1>3. UNCHANGED <<bench, call, shown, session>> /\ restart.pc = "IDLE" /\ RestartHasStep'
  BY <1>2 DEF MoveTarget, world, RestartHasStep
<1> QED
  BY <1>3, FramesUntouched, FrameKept DEF NoFrameClaimed

LEMMA FrameStep ==
  ASSUME FrameInv, [Next]_vars
  PROVE  FrameInv'
<1>1. CASE UNCHANGED vars
  <2>1. UNCHANGED <<bench, call, restart, shown, session>>
    BY <1>1 DEF vars, program, world
  <2>2. RestartHasStep'
    BY <2>1 DEF FrameInv, RestartHasStep
  <2> QED
    BY <2>1, <2>2, FramesUntouched, FrameKept DEF NoFrameClaimed
<1>2. CASE \/ BeginSpan \/ EndSpan \/ PointEvent \/ PresentBegins \/ PresentEnds \/ FlipHappens
  BY <1>2, WorldKept
<1>3. CASE OnDxgiPresent \/ OnKernelFrameStall
  BY <1>3, HandlersKept
<1>4. CASE ClaimTicket
  BY <1>4, ClaimKept
<1>5. CASE WriteFrame
  BY <1>5, WriteKept
<1>6. CASE EvaluateFrame \/ OnAudioGlitch \/ OnDwmGlitch
  BY <1>6, JudgesKept
<1>7. CASE Report
  BY <1>7, ReportKept
<1>8. CASE DetachTarget \/ AttachTarget
  BY <1>8, TargetsKept
<1>9. CASE ResetByUser \/ Retarget
  BY <1>9, BeginKept
<1>10. CASE FinishRestart
  BY <1>10, FinishKept
<1> QED
  BY <1>1, <1>2, <1>3, <1>4, <1>5, <1>6, <1>7, <1>8, <1>9, <1>10 DEF Next

LEMMA FrameInit ==
  ASSUME Init
  PROVE  FrameInv
<1>1. /\ bench = NewBenchmark(scene.target) /\ call.pc = "IDLE" /\ shown = <<>> /\ session = 0
      /\ restart = [pc |-> "IDLE", pid |-> scene.target]
  BY DEF Init, Idle
<1>2. /\ DOMAIN bench = BenchFields /\ bench.head = 0 /\ bench.start = 0 /\ bench.epoch = 0
      /\ bench.ring = [i \in Slots |-> [odd |-> FALSE, dur |-> 0, epoch |-> 0]]
  BY <1>1 DEF NewBenchmark, BenchFields, Slots
<1>3. BenchTypes
  BY <1>1, <1>2 DEF BenchTypes, SlotType
<1>4. DOMAIN shown = {}
  BY <1>1
<1>5. Pending = {}
  BY <1>1 DEF Pending
<1>6. FramesKept
  BY <1>2, <1>4, <1>5 DEF FramesKept
<1> QED
  BY <1>1, <1>3, <1>4, <1>6 DEF FrameInv, FrameUnderWay, FromStart, RestartHasStep

-----------------------------------------------------------------------------
(* The summary.                                                            *)

(* The tickets the summary reads, and those of the frames of the target.   *)
Read == LET n == Min({bench.head - bench.start, FRAME_CAPACITY}) IN
  {k \in bench.head - n .. bench.head - 1 :
     ~Slot(k).odd /\ Slot(k).epoch = bench.epoch /\ Slot(k).dur > 0}

Mine == {k \in DOMAIN shown : shown[k].session = session /\ k + FRAME_CAPACITY >= bench.head}

LEMMA SummaryReads == Summary(bench).frames = Listed([k \in Read |-> Slot(k).dur])
<1>1. Summary(bench).frames = ValidFrames(bench)
  BY DEF Summary
<1>2. ValidFrames(bench) = Listed([k \in Read |-> Slot(k).dur])
  BY DEF ValidFrames, Read, Slot
<1> QED
  BY <1>1, <1>2

LEMMA ReadIsMine ==
  ASSUME FrameInv, restart.pc # "STARTED"
  PROVE  Read = Mine /\ \A k \in Mine : Slot(k).dur = shown[k].dur
<1> USE DEF FrameInv
<1> DEFINE n == Min({bench.head - bench.start, FRAME_CAPACITY})
<1>1. /\ bench.head \in Nat /\ bench.start \in Nat /\ bench.start <= bench.head
      /\ session = bench.epoch /\ FRAME_CAPACITY \in Nat \ {0}
  BY Capacity DEF BenchTypes
<1>2. /\ n \in Nat /\ n <= bench.head - bench.start /\ n <= FRAME_CAPACITY
      /\ n \in {bench.head - bench.start, FRAME_CAPACITY}
  <2>1. bench.head - bench.start \in Int /\ bench.head - bench.start >= 0 /\ FRAME_CAPACITY \in Int
    BY <1>1
  <2>2. /\ n <= bench.head - bench.start /\ n <= FRAME_CAPACITY
        /\ n \in {bench.head - bench.start, FRAME_CAPACITY}
    BY <2>1, Extremes
  <2> HIDE DEF n
  <2> QED
    BY <1>1, <2>1, <2>2
<1> HIDE DEF n
<1>3. DOMAIN shown = (0 .. bench.head - 1) \ Pending
  BY DEF FramesKept
<1>4. ASSUME NEW k \in Mine
      PROVE  k \in Read /\ Slot(k).dur = shown[k].dur
  <2>1. k \in DOMAIN shown /\ shown[k].session = bench.epoch /\ k + FRAME_CAPACITY >= bench.head
    BY <1>1 DEF Mine
  <2>2. Slot(k) = [odd |-> FALSE, dur |-> shown[k].dur, epoch |-> shown[k].session]
        /\ shown[k].dur \in Nat \ {0}
    BY <2>1 DEF FramesKept
  <2>3. k >= bench.start /\ k \in 0 .. bench.head - 1
    BY <1>3, <2>1 DEF FromStart
  <2>4. k \in bench.head - n .. bench.head - 1
    BY <1>1, <1>2, <2>1, <2>3
  <2>5. /\ ~Slot(k).odd /\ Slot(k).epoch = bench.epoch /\ Slot(k).dur > 0
        /\ Slot(k).dur = shown[k].dur
    BY <2>1, <2>2
  <2> QED
    BY <2>4, <2>5 DEF Read, n
<1>5. ASSUME NEW k \in Read
      PROVE  k \in Mine
  <2>1. /\ k \in bench.head - n .. bench.head - 1
        /\ ~Slot(k).odd /\ Slot(k).epoch = bench.epoch
    BY DEF Read, n
  <2>2. k \in 0 .. bench.head - 1 /\ k + FRAME_CAPACITY >= bench.head
    BY <1>1, <1>2, <2>1
  <2>3. k % FRAME_CAPACITY \in Slots
    BY <2>2, Capacity
  <2>4. k \notin Pending
    BY <2>1, <2>3 DEF FramesKept, Slot
  <2>5. k \in DOMAIN shown
    BY <1>3, <2>2, <2>4
  <2>6. Slot(k) = [odd |-> FALSE, dur |-> shown[k].dur, epoch |-> shown[k].session]
    BY <2>2, <2>5 DEF FramesKept
  <2>7. shown[k].session = session
    BY <1>1, <2>1, <2>6
  <2> QED
    BY <2>2, <2>5, <2>7 DEF Mine
<1> QED
  BY <1>4, <1>5

LEMMA FramesAreShown ==
  ASSUME FrameInv
  PROVE  FramesOfTarget
<1> SUFFICES ASSUME restart.pc # "STARTED"
             PROVE  /\ Summary(bench).frames = Listed([k \in Mine |-> shown[k].dur])
                    /\ \A k \in Mine : bench.pid \in {0, shown[k].pid}
  BY DEF FramesOfTarget, Mine
<1>1. [k \in Read |-> Slot(k).dur] = [k \in Mine |-> shown[k].dur]
  BY ReadIsMine
<1>2. Summary(bench).frames = Listed([k \in Mine |-> shown[k].dur])
  BY <1>1, SummaryReads
<1>3. ASSUME NEW k \in Mine PROVE bench.pid \in {0, shown[k].pid}
  <2>1. k \in DOMAIN shown /\ shown[k].session = bench.epoch
    BY DEF Mine, FrameInv, BenchTypes
  <2> QED
    BY <2>1 DEF FrameInv, FramesKept, OfEpoch
<1> QED
  BY <1>2, <1>3

(* FramesOfTarget for every scenario and capacity: whatever frames of an   *)
(* old target are under way while retarget or reset runs, get_summary      *)
(* shows exactly the frames of the present one (session_benchmark.cpp).    *)
THEOREM SummaryShowsTarget == Spec => []FramesOfTarget
<1>1. Init => FrameInv
  BY FrameInit
<1>2. FrameInv /\ [Next]_vars => FrameInv'
  BY FrameStep
<1>3. FrameInv => FramesOfTarget
  BY FramesAreShown
<1> QED
  BY <1>1, <1>2, <1>3, PTL DEF Spec

-----------------------------------------------------------------------------
(* Sums over names.                                                        *)

(* The reports that stats counts under the names, one by one.              *)
Entries(stats, names) == UNION {{h} \X (1 .. stats[h].count) : h \in names}

CountsKnown(stats) == IsFiniteSet(DOMAIN stats) /\ \A h \in DOMAIN stats : stats[h].count \in Nat

LEMMA EntriesFinite ==
  ASSUME NEW stats, CountsKnown(stats), NEW names \in SUBSET DOMAIN stats
  PROVE  IsFiniteSet(names) /\ IsFiniteSet(Entries(stats, names))
         /\ Cardinality(Entries(stats, names)) \in Nat
<1>1. IsFiniteSet(names)
  BY FS_Subset DEF CountsKnown
<1> DEFINE C == {{h} \X (1 .. stats[h].count) : h \in names}
<1>2. \A h \in names : IsFiniteSet({h} \X (1 .. stats[h].count))
  <2> TAKE h \in names
  <2>1. stats[h].count \in Int
    BY DEF CountsKnown
  <2>2. IsFiniteSet(1 .. stats[h].count)
    BY <2>1, FS_Interval
  <2>3. IsFiniteSet({h})
    BY FS_Singleton
  <2> QED
    BY <2>2, <2>3, FS_Product
<1>3. IsFiniteSet(C)
  <2> DEFINE f == [h \in names |-> {h} \X (1 .. stats[h].count)]
  <2>1. f \in Surjection(names, C)
    BY DEF Surjection
  <2> QED
    BY <1>1, <2>1, FS_Surjection
<1>4. IsFiniteSet(UNION C)
  BY <1>2, <1>3, FS_UNION
<1> QED
  BY <1>1, <1>4, FS_CardinalityType DEF Entries

LEMMA EntriesSplit ==
  ASSUME NEW stats, CountsKnown(stats), NEW a \in SUBSET DOMAIN stats,
         NEW b \in SUBSET DOMAIN stats, a \cap b = {}
  PROVE  Cardinality(Entries(stats, a \cup b))
           = Cardinality(Entries(stats, a)) + Cardinality(Entries(stats, b))
<1>1. Entries(stats, a \cup b) = Entries(stats, a) \cup Entries(stats, b)
  BY DEF Entries
<1>2. Entries(stats, a) \cap Entries(stats, b) = {}
  BY DEF Entries
<1>3. Cardinality(Entries(stats, a) \cap Entries(stats, b)) = 0
  BY <1>2, FS_EmptySet
<1> QED
  <2> DEFINE s == Entries(stats, a)
             t == Entries(stats, b)
  <2>1. /\ IsFiniteSet(s) /\ Cardinality(s) \in Nat
        /\ IsFiniteSet(t) /\ Cardinality(t) \in Nat
    BY EntriesFinite
  <2>2. Cardinality(s \cap t) = 0 /\ Entries(stats, a \cup b) = s \cup t
    BY <1>1, <1>3
  <2> HIDE DEF s, t
  <2>3. Cardinality(s \cup t) = Cardinality(s) + Cardinality(t) - Cardinality(s \cap t)
    BY <2>1, FS_Union
  <2>4. Cardinality(s \cup t) = Cardinality(s) + Cardinality(t)
    BY <2>1, <2>2, <2>3
  <2> QED
    BY <2>2, <2>4 DEF s, t

LEMMA EntriesOfOne ==
  ASSUME NEW stats, CountsKnown(stats), NEW h \in DOMAIN stats
  PROVE  Cardinality(Entries(stats, {h})) = stats[h].count
<1>1. Entries(stats, {h}) = {h} \X (1 .. stats[h].count)
  BY DEF Entries
<1>2. stats[h].count \in Nat
  BY DEF CountsKnown
<1>3. IsFiniteSet({h}) /\ Cardinality({h}) = 1
  BY FS_Singleton
<1> DEFINE n == stats[h].count
           t == 1 .. n
<1>4. n \in Nat
  BY <1>2
<1> HIDE DEF n
<1>5. IsFiniteSet(t) /\ Cardinality(t) = n
  <2>1. 1 \in Int /\ n \in Int /\ (1 > n => n = 0) /\ n - 1 + 1 = n
    BY <1>4
  <2>2. IsFiniteSet(1 .. n) /\ Cardinality(1 .. n) = IF 1 > n THEN 0 ELSE n - 1 + 1
    BY <2>1, FS_Interval
  <2> QED
    BY <2>1, <2>2
<1> HIDE DEF n, t
<1>6. Cardinality({h} \X t) = Cardinality({h}) * Cardinality(t)
  BY <1>3, <1>5, FS_Product
<1>7. Cardinality({h} \X t) = n
  BY <1>3, <1>4, <1>5, <1>6
<1> QED
  BY <1>1, <1>7 DEF n, t

(* The fold over a finite set counts the entries: a function that does so   *)
(* solves its recursion, and of the sets where another solution differs     *)
(* there would be a smallest.                                               *)
LEMMA SumCounts ==
  ASSUME NEW stats, CountsKnown(stats), NEW names \in SUBSET DOMAIN stats
  PROVE  SumOf(stats, names, "count") = Cardinality(Entries(stats, names))
<1> DEFINE Pick(s) == CHOOSE x \in s : TRUE
           Size(s) == Cardinality(Entries(stats, s))
           Solves(f) == f = [s \in SUBSET names |->
                              IF s = {} THEN 0
                              ELSE stats[Pick(s)].count + f[s \ {Pick(s)}]]
           w == [s \in SUBSET names |-> Size(s)]
           f == CHOOSE g : Solves(g)
<1>1. \A s \in SUBSET names : s # {} => Pick(s) \in s
  OBVIOUS
<1>2. ASSUME NEW s \in SUBSET names, s # {}
      PROVE  Size(s) = stats[Pick(s)].count + Size(s \ {Pick(s)})
  <2> DEFINE x == Pick(s)
  <2>1. x \in s /\ x \in DOMAIN stats /\ {x} \in SUBSET DOMAIN stats
    BY <1>1, <1>2
  <2> HIDE DEF x
  <2> DEFINE rest == s \ {x}
  <2>2. rest \in SUBSET DOMAIN stats /\ {x} \cap rest = {} /\ {x} \cup rest = s
    BY <2>1
  <2>3. Cardinality(Entries(stats, {x} \cup rest))
          = Cardinality(Entries(stats, {x})) + Cardinality(Entries(stats, rest))
    BY <2>1, <2>2, EntriesSplit
  <2>4. Cardinality(Entries(stats, {x})) = stats[x].count
    BY <2>1, EntriesOfOne
  <2>5. Size(s) = stats[x].count + Size(rest)
    BY <2>2, <2>3, <2>4
  <2> QED
    BY <2>5 DEF x
<1>3. Size({}) = 0
  <2>1. Entries(stats, {}) = {}
    BY DEF Entries
  <2> QED
    BY <2>1, FS_EmptySet
<1> HIDE DEF Pick, Size
<1>4. Solves(w)
  <2>1. ASSUME NEW s \in SUBSET names
        PROVE  w[s] = IF s = {} THEN 0 ELSE stats[Pick(s)].count + w[s \ {Pick(s)}]
    BY <2>1, <1>2, <1>3
  <2> QED
    BY <2>1
<1>5. Solves(f) /\ SumOf(stats, names, "count") = f[names]
  <2>1. Solves(f)
    BY <1>4
  <2>2. SumOf(stats, names, "count") = f[names]
    BY DEF SumOf, MapThenSumSet, MapThenFoldSet, Pick
  <2> QED
    BY <2>1, <2>2
<1> HIDE DEF w, f
<1>6. \A s \in SUBSET names : f[s] = IF s = {} THEN 0 ELSE stats[Pick(s)].count + f[s \ {Pick(s)}]
  BY <1>5
<1>7. \A s \in SUBSET names : IsFiniteSet(s) /\ Cardinality(s) \in Nat
  BY EntriesFinite, FS_Subset, FS_CardinalityType
<1> DEFINE Bad == {Cardinality(s) : s \in {t \in SUBSET names : f[t] # Size(t)}}
<1>8. Bad = {}
  <2> SUFFICES ASSUME Bad # {} PROVE FALSE
    OBVIOUS
  <2>1. Bad \in SUBSET Nat
    BY <1>7
  <2>2. PICK n \in Bad : \A m \in Bad : n <= m
    BY <2>1, LeastNat
  <2>3. PICK s \in SUBSET names : f[s] # Size(s) /\ Cardinality(s) = n
    BY <2>2
  <2>4. s # {}
    BY <2>3, <1>3, <1>6
  <2> DEFINE x == Pick(s)
  <2>5. x \in s
    BY <2>4, <1>1
  <2>6. Cardinality(s \ {x}) = Cardinality(s) - 1
    BY <2>5, <1>7, FS_RemoveElement
  <2>7. f[s \ {x}] # Size(s \ {x})
    BY <2>3, <2>4, <1>2, <1>6
  <2>8. Cardinality(s \ {x}) \in Bad
    BY <2>7
  <2>9. n \in Nat /\ n <= Cardinality(s \ {x})
    BY <2>1, <2>2, <2>8
  <2> HIDE DEF Bad, x
  <2> QED
    BY <2>3, <2>6, <2>9
<1>9. f[names] = Size(names)
  BY <1>8
<1> QED
  BY <1>5, <1>9 DEF Size

LEMMA SumSplit ==
  ASSUME NEW stats, CountsKnown(stats), NEW a \in SUBSET DOMAIN stats,
         NEW b \in SUBSET DOMAIN stats, a \cap b = {}
  PROVE  SumOf(stats, a \cup b, "count") = SumOf(stats, a, "count") + SumOf(stats, b, "count")
<1>1. a \cup b \in SUBSET DOMAIN stats
  OBVIOUS
<1>2. /\ SumOf(stats, a \cup b, "count") = Cardinality(Entries(stats, a \cup b))
      /\ SumOf(stats, a, "count") = Cardinality(Entries(stats, a))
      /\ SumOf(stats, b, "count") = Cardinality(Entries(stats, b))
  BY <1>1, SumCounts
<1> QED
  BY <1>2, EntriesSplit

(* What a restriction counts is what the whole counts under its names.     *)
LEMMA SumRestricted ==
  ASSUME NEW stats, CountsKnown(stats), NEW a \in SUBSET DOMAIN stats
  PROVE  Counted(Restrict(stats, a)) = SumOf(stats, a, "count")
<1> DEFINE r == Restrict(stats, a)
<1>1. DOMAIN r = a /\ \A h \in a : r[h] = stats[h]
  BY DEF Restrict
<1> HIDE DEF r
<1>2. CountsKnown(r)
  BY <1>1, EntriesFinite DEF CountsKnown
<1>3. Entries(r, a) = Entries(stats, a)
  BY <1>1 DEF Entries
<1>4. SumOf(r, a, "count") = Cardinality(Entries(r, a))
  BY <1>1, <1>2, SumCounts
<1>5. SumOf(stats, a, "count") = Cardinality(Entries(stats, a))
  BY SumCounts
<1> QED
  BY <1>1, <1>3, <1>4, <1>5 DEF Counted, r

(* One more report is one more entry.                                      *)
LEMMA ChargeCounts ==
  ASSUME NEW stats, CountsKnown(stats), NEW name, NEW stall
  PROVE  /\ CountsKnown(Charge(stats, name, stall))
         /\ Counted(Charge(stats, name, stall)) = Counted(stats) + 1
<1> DEFINE c == Charge(stats, name, stall)
           n == IF name \in DOMAIN stats THEN stats[name].count ELSE 0
           others == DOMAIN stats \ {name}
<1>1. /\ DOMAIN c = others \cup {name} /\ name \notin others
      /\ c[name].count = n + 1
      /\ \A h \in others : c[h] = stats[h]
  BY DEF Charge
<1>2. n \in Nat
  BY DEF CountsKnown
<1>3. others \in SUBSET DOMAIN stats /\ IsFiniteSet(others)
  BY FS_Difference DEF CountsKnown
<1> HIDE DEF c, n
<1>4. CountsKnown(c)
  <2>1. IsFiniteSet(DOMAIN c)
    BY <1>1, <1>3, FS_AddElement
  <2>2. \A h \in others : c[h].count \in Nat
    BY <1>1 DEF CountsKnown
  <2> QED
    BY <1>1, <1>2, <2>1, <2>2 DEF CountsKnown
<1>5. Entries(c, others) = Entries(stats, others)
  BY <1>1 DEF Entries
<1>6. SumOf(c, others, "count") = SumOf(stats, others, "count")
  <2>1. others \in SUBSET DOMAIN c
    BY <1>1
  <2> HIDE DEF others
  <2> QED
    BY <1>3, <1>4, <1>5, <2>1, SumCounts
<1>7. SumOf(c, {name}, "count") = n + 1
  BY <1>1, <1>4, SumCounts, EntriesOfOne
<1>8. Counted(c) = SumOf(stats, others, "count") + (n + 1)
  <2>1. others \in SUBSET DOMAIN c /\ {name} \in SUBSET DOMAIN c /\ others \cap {name} = {}
    BY <1>1
  <2> HIDE DEF others
  <2> QED
    BY <1>1, <1>4, <1>6, <1>7, <2>1, SumSplit DEF Counted
<1>9. SumOf(stats, others, "count") \in Nat
  <2> HIDE DEF others
  <2> QED
    BY <1>3, SumCounts, EntriesFinite
<1>10. Counted(stats) = SumOf(stats, others, "count") + n
  <2>1. CASE name \in DOMAIN stats
    <3>1. /\ {name} \in SUBSET DOMAIN stats /\ others \cap {name} = {}
          /\ DOMAIN stats = others \cup {name}
      BY <2>1
    <3>2. SumOf(stats, {name}, "count") = n
      BY <2>1, <3>1, SumCounts, EntriesOfOne DEF n
    <3> HIDE DEF others
    <3> QED
      BY <1>3, <3>1, <3>2, SumSplit DEF Counted
  <2>2. CASE name \notin DOMAIN stats
    <3>1. DOMAIN stats = others /\ n = 0
      BY <2>2 DEF n
    <3> QED
      BY <1>9, <3>1 DEF Counted
  <2> QED
    BY <2>1, <2>2
<1> HIDE DEF others
<1> QED
  BY <1>2, <1>4, <1>8, <1>9, <1>10 DEF c

-----------------------------------------------------------------------------
(* The leading culprits.                                                   *)

StatsKnown(stats) == CountsKnown(stats) /\ \A h \in DOMAIN stats : stats[h].stall \in Int

(* Of any names one is behind no other: take one with fewest before it.    *)
LEMMA WorstOfNames ==
  ASSUME NEW stats, StatsKnown(stats), NEW names \in SUBSET DOMAIN stats, names # {}
  PROVE  \E h \in names : \A g \in names : ~Worse(stats[g], stats[h])
<1> DEFINE Before(h) == {g \in names : Worse(stats[g], stats[h])}
           Sizes == {Cardinality(Before(h)) : h \in names}
<1>1. \A h \in names : stats[h].count \in Int /\ stats[h].stall \in Int
  BY DEF StatsKnown, CountsKnown
<1>2. IsFiniteSet(names)
  BY EntriesFinite DEF StatsKnown
<1>3. \A h \in names : IsFiniteSet(Before(h)) /\ Cardinality(Before(h)) \in Nat
  <2> TAKE h \in names
  <2>1. Before(h) \in SUBSET names
    OBVIOUS
  <2> QED
    BY <1>2, <2>1, FS_Subset, FS_CardinalityType
<1>4. PICK n \in Sizes : n \in Nat /\ \A m \in Sizes : n <= m
  <2>1. Sizes \in SUBSET Nat /\ Sizes # {}
    BY <1>3
  <2> HIDE DEF Sizes
  <2> QED
    BY <2>1, LeastNat
<1>5. PICK h \in names : Cardinality(Before(h)) = n
  OBVIOUS
<1>6. ASSUME NEW g \in names, Worse(stats[g], stats[h]) PROVE FALSE
  <2>1. Before(g) \in SUBSET Before(h) /\ g \in Before(h) /\ g \notin Before(g)
    BY <1>1, <1>6 DEF Worse
  <2>2. Cardinality(Before(g)) <= n /\ Cardinality(Before(g)) # n
    <3> HIDE DEF Before
    <3> QED
      BY <1>3, <1>5, <2>1, FS_Subset
  <2>3. n <= Cardinality(Before(g)) /\ Cardinality(Before(g)) \in Nat
    BY <1>3, <1>4
  <2> QED
    BY <1>4, <2>2, <2>3
<1> QED
  BY <1>6

(* There always are leading ones: add them one after the other.            *)
LEMMA LeadingCulprits ==
  ASSUME NEW stats, StatsKnown(stats)
  PROVE  Leading(stats) \in SUBSET Culpable(stats)
<1> DEFINE all == Culpable(stats)
           W == Min({Cardinality(all), TOP_N})
           Leads(top, k) == /\ Cardinality(top) = k
                            /\ \A g \in all \ top, h \in top : ~Worse(stats[g], stats[h])
           T == {k \in 0 .. W : \E top \in SUBSET all : Leads(top, k)}
<1>1. all \in SUBSET DOMAIN stats /\ IsFiniteSet(all) /\ Cardinality(all) \in Nat
  <2>1. all \in SUBSET DOMAIN stats
    BY DEF Culpable
  <2> QED
    BY <2>1, EntriesFinite, FS_CardinalityType DEF StatsKnown
<1>2. W \in Nat /\ W <= Cardinality(all)
  <2>1. Cardinality(all) \in Int /\ TOP_N \in Int /\ TOP_N >= 0
    BY <1>1, BenchmarkAssumption
  <2>2. W \in {Cardinality(all), TOP_N} /\ W <= Cardinality(all)
    BY <2>1, Extremes
  <2> QED
    BY <1>1, <2>1, <2>2
<1> HIDE DEF all, W
<1>3. 0 \in T
  <2>1. Leads({}, 0)
    BY FS_EmptySet
  <2> QED
    BY <1>2, <2>1
<1>4. ASSUME NEW k \in 0 .. W - 1, k \in T PROVE k + 1 \in T
  <2>1. PICK top \in SUBSET all : Leads(top, k)
    BY <1>4
  <2> DEFINE rest == all \ top
  <2>2. IsFiniteSet(top) /\ rest # {} /\ rest \in SUBSET DOMAIN stats
    BY <1>1, <1>2, <2>1, FS_Subset
  <2>3. PICK h \in rest : \A g \in rest : ~Worse(stats[g], stats[h])
    BY <2>2, WorstOfNames
  <2>4. Cardinality(top \cup {h}) = k + 1
    BY <2>1, <2>2, <2>3, FS_AddElement
  <2>5. Leads(top \cup {h}, k + 1)
    BY <2>1, <2>3, <2>4
  <2>6. k + 1 \in 0 .. W
    BY <1>2
  <2> QED
    BY <2>3, <2>5, <2>6
<1>5. W \in T
  <2> HIDE DEF T
  <2> QED
    BY <1>2, <1>3, <1>4, UpTo
<1>6. \E top \in SUBSET all : Leads(top, W)
  BY <1>5
<1>7. Leading(stats) = CHOOSE top \in SUBSET all : Leads(top, W)
  BY DEF Leading, all, W
<1> HIDE DEF Leads
<1> QED
  BY <1>6, <1>7 DEF all

(* The summary's culprits and the judder are all reports.                  *)
LEMMA SharesAdd ==
  ASSUME NEW stats, StatsKnown(stats)
  PROVE  Counted(Culprits(stats).named) + Culprits(stats).other.count
           + SumOf(stats, DOMAIN stats \cap {"frame_pacing_judder"}, "count")
         = Counted(stats)
<1> DEFINE top == Leading(stats)
           rest == Culpable(stats) \ top
           judder == DOMAIN stats \cap {"frame_pacing_judder"}
<1>1. /\ top \in SUBSET DOMAIN stats /\ rest \in SUBSET DOMAIN stats
      /\ judder \in SUBSET DOMAIN stats
      /\ top \cap rest = {} /\ (top \cup rest) \cap judder = {}
      /\ (top \cup rest) \cup judder = DOMAIN stats
  BY LeadingCulprits DEF Culpable
<1>2. CountsKnown(stats)
  BY DEF StatsKnown
<1>3. Culprits(stats).named = Restrict(stats, top)
      /\ Culprits(stats).other.count = SumOf(stats, rest, "count")
  BY DEF Culprits
<1> HIDE DEF top, rest, judder
<1>4. Counted(Culprits(stats).named) = SumOf(stats, top, "count")
  BY <1>1, <1>2, <1>3, SumRestricted
<1>5. SumOf(stats, top \cup rest, "count")
        = SumOf(stats, top, "count") + SumOf(stats, rest, "count")
  BY <1>1, <1>2, SumSplit
<1>6. SumOf(stats, (top \cup rest) \cup judder, "count")
        = SumOf(stats, top \cup rest, "count") + SumOf(stats, judder, "count")
  <2>1. top \cup rest \in SUBSET DOMAIN stats
    BY <1>1
  <2> QED
    BY <1>1, <1>2, <2>1, SumSplit
<1> QED
  BY <1>1, <1>3, <1>4, <1>5, <1>6 DEF Counted, judder

-----------------------------------------------------------------------------
(* What the handlers leave alone.                                          *)

(* u has the tables of t that Presents and glitches go through.            *)
Apart(t, u) ==
  /\ DOMAIN u = TableFields
  /\ u.present = t.present /\ u.last = t.last /\ u.glitch = t.glitch

Quietly(t, h) == h.call = NoCall /\ Apart(t, h.tables)

LEMMA ApartTables ==
  ASSUME NEW t, DOMAIN t = TableFields
  PROVE  /\ Apart(t, t)
         /\ \A v : /\ Apart(t, [t EXCEPT !.pso = v]) /\ Apart(t, [t EXCEPT !.scan = v])
                   /\ Apart(t, [t EXCEPT !.disk = v]) /\ Apart(t, [t EXCEPT !.trim = v])
                   /\ Apart(t, [t EXCEPT !.flip = v])
         /\ \A o, w : Apart(t, [t EXCEPT !.owner = o, !.thread = w])
<1>1. Apart(t, t)
  BY DEF Apart
<1>2. ASSUME NEW v
      PROVE  /\ Apart(t, [t EXCEPT !.pso = v]) /\ Apart(t, [t EXCEPT !.scan = v])
             /\ Apart(t, [t EXCEPT !.disk = v]) /\ Apart(t, [t EXCEPT !.trim = v])
             /\ Apart(t, [t EXCEPT !.flip = v])
  BY DEF Apart, TableFields
<1>3. ASSUME NEW o, NEW w PROVE Apart(t, [t EXCEPT !.owner = o, !.thread = w])
  BY DEF Apart, TableFields
<1> QED
  BY <1>1, <1>2, <1>3

LEMMA QuietForms ==
  ASSUME NEW t, NEW u, Apart(t, u)
  PROVE  \A rec, ok : Quietly(t, Emit(u, rec)) /\ Quietly(t, Silent(u))
                      /\ Quietly(t, EmitIf(ok, u, rec))
<1>1. \A emit : Quietly(t, Handled(u, emit, NoCall))
  BY DEF Quietly, Handled
<1> QED
  BY <1>1 DEF Emit, Silent, EmitIf

(* Of most handlers neither the tables of frames nor the engine hear.      *)
LEMMA QuietHandlers ==
  ASSUME NEW t, DOMAIN t = TableFields, NEW e
  PROVE  /\ Quietly(t, VramDemoted(t, e)) /\ \A cat : Quietly(t, DpcIsr(t, e, cat))
         /\ Quietly(t, CSwitch(t, e)) /\ Quietly(t, DiskInit(t, e))
         /\ Quietly(t, DiskDone(t, e)) /\ Quietly(t, HardFault(t, e))
         /\ Quietly(t, VirtualAlloc(t, e)) /\ Quietly(t, TrimStart(t, e))
         /\ Quietly(t, TrimStop(t, e)) /\ Quietly(t, PhysicalAlloc(t, e))
         /\ Quietly(t, PsoStart(t, e)) /\ Quietly(t, PsoStop(t, e))
         /\ Quietly(t, ScanStart(t, e)) /\ Quietly(t, ScanStop(t, e))
         /\ Quietly(t, Thermal(t, e)) /\ Quietly(t, KernelPresent(t, e))
<1> USE ApartTables
<1>1. \A u, rec, ok : Apart(t, u) => /\ Quietly(t, Emit(u, rec)) /\ Quietly(t, Silent(u))
                                     /\ Quietly(t, EmitIf(ok, u, rec))
  BY QuietForms
<1>2. Quietly(t, VramDemoted(t, e)) /\ (\A cat : Quietly(t, DpcIsr(t, e, cat)))
  BY <1>1 DEF VramDemoted, DpcIsr
<1>3. Quietly(t, CSwitch(t, e))
  <2>1. \E o, w, rec : CSwitch(t, e) = Emit([t EXCEPT !.owner = o, !.thread = w], rec)
    <3> DEFINE owner == Put(t.owner, e.tid, e.pid)
               oldPid == IF Has(owner, e.old) THEN owner[e.old] ELSE 0
               gone == IF e.old = 0 THEN t.thread
                       ELSE Put(t.thread, e.old,
                                [ts |-> e.ts, pid |-> oldPid, waiting |-> e.waiting])
               back == Has(gone, e.tid)
               known == back /\ gone[e.tid].pid \in {0, e.pid}
               away == e.ts - gone[e.tid].ts
               thread == IF back THEN Drop(gone, e.tid) ELSE gone
               rec == [Record(e, "CSWITCH", IF ~known THEN 0
                                            ELSE IF away <= KERNEL_CAP THEN away
                                            ELSE KERNEL_CAP) EXCEPT
                         !.prevTid = e.old, !.prevPid = oldPid,
                         !.flags = (IF known /\ gone[e.tid].waiting THEN {"VOLUNTARY"} ELSE {})
                                   \cup (IF e.waiting THEN {"OUT_VOLUNTARY"} ELSE {})]
    <3>1. CSwitch(t, e) = Emit([t EXCEPT !.owner = owner, !.thread = thread], rec)
      BY DEF CSwitch
    <3> HIDE DEF owner, thread, rec
    <3> QED
      BY <3>1
  <2>2. PICK o, w, rec : CSwitch(t, e) = Emit([t EXCEPT !.owner = o, !.thread = w], rec)
    BY <2>1
  <2> DEFINE u == [t EXCEPT !.owner = o, !.thread = w]
  <2>3. Apart(t, u)
    OBVIOUS
  <2> HIDE DEF u
  <2> QED
    BY <1>1, <2>2, <2>3 DEF u
<1>4. Quietly(t, DiskInit(t, e)) /\ Quietly(t, PsoStart(t, e)) /\ Quietly(t, ScanStart(t, e))
  <2>1. \E v : DiskInit(t, e) = Silent([t EXCEPT !.disk = v])
    BY DEF DiskInit
  <2>2. \E v : PsoStart(t, e) = Silent([t EXCEPT !.pso = v])
    BY DEF PsoStart
  <2>3. \E v : ScanStart(t, e) = Silent([t EXCEPT !.scan = v])
    BY DEF ScanStart
  <2> QED
    BY <1>1, <2>1, <2>2, <2>3
<1>5. Quietly(t, DiskDone(t, e))
  <2>1. \E v, rec, ok :
          DiskDone(t, e) \in {EmitIf(ok, t, rec), EmitIf(ok, [t EXCEPT !.disk = v], rec)}
    BY DEF DiskDone
  <2> QED
    BY <1>1, <2>1
<1>6. Quietly(t, HardFault(t, e)) /\ Quietly(t, VirtualAlloc(t, e))
      /\ Quietly(t, PhysicalAlloc(t, e)) /\ Quietly(t, Thermal(t, e))
      /\ Quietly(t, KernelPresent(t, e))
  <2>1. /\ \E rec : HardFault(t, e) = Emit(t, rec)
        /\ \E rec : PhysicalAlloc(t, e) = Emit(t, rec)
    BY DEF HardFault, PhysicalAlloc
  <2>2. \E rec, ok : VirtualAlloc(t, e) = EmitIf(ok, t, rec)
    BY DEF VirtualAlloc
  <2>3. \A ok, rec : Quietly(t, EmitIf(ok, t, rec))
    BY <1>1
  <2>4. Quietly(t, Thermal(t, e))
    BY ONLY <2>3 DEF Thermal
  <2>5. \E v, rec : KernelPresent(t, e) = Emit([t EXCEPT !.flip = v], rec)
    BY DEF KernelPresent
  <2> QED
    BY <1>1, <2>1, <2>2, <2>5, <2>4
<1>7. Quietly(t, TrimStart(t, e)) /\ Quietly(t, TrimStop(t, e))
  <2>1. \E v : TrimStart(t, e) \in {Silent(t), Silent([t EXCEPT !.trim = v])}
    BY DEF TrimStart
  <2>2. \E v, rec : TrimStop(t, e) \in {Emit(t, rec), Emit([t EXCEPT !.trim = v], rec)}
    BY DEF TrimStop
  <2> QED
    BY <1>1, <2>1, <2>2
<1>8. Quietly(t, PsoStop(t, e)) /\ Quietly(t, ScanStop(t, e))
  <2>1. \E v, rec, ok : PsoStop(t, e) = EmitIf(ok, [t EXCEPT !.pso = v], rec)
    BY DEF PsoStop
  <2>2. \E v, rec, ok : ScanStop(t, e) = EmitIf(ok, [t EXCEPT !.scan = v], rec)
    BY DEF ScanStop
  <2> QED
    BY <1>1, <2>1, <2>2
<1> QED
  BY <1>2, <1>3, <1>4, <1>5, <1>6, <1>7, <1>8

LEMMA QuietHandled ==
  ASSUME NEW t, DOMAIN t = TableFields, NEW e, e.kind \in QuietKinds \cup {"KERNEL_PRESENT"}
  PROVE  Quietly(t, Handle(t, e))
<1>1. Handle(t, e) \in {VramDemoted(t, e), DpcIsr(t, e, e.kind), CSwitch(t, e), DiskInit(t, e),
                        DiskDone(t, e), HardFault(t, e), VirtualAlloc(t, e), TrimStart(t, e),
                        TrimStop(t, e), PhysicalAlloc(t, e), PsoStart(t, e), PsoStop(t, e),
                        ScanStart(t, e), ScanStop(t, e), Thermal(t, e), KernelPresent(t, e)}
  BY DEF Handle, QuietKinds
<1> QED
  BY <1>1, QuietHandlers

(* What the handlers of glitches call for.                                 *)
GlitchAgain(t, ts) ==
  \E i \in DOMAIN t.glitch : ts - t.glitch[i] < DWM_DEDUP_WINDOW
                             /\ -(ts - t.glitch[i]) < DWM_DEDUP_WINDOW

LEMMA AudioHandled ==
  ASSUME NEW t, NEW e, e.kind = "AUDIO"
  PROVE  /\ Handle(t, e).tables = t /\ Handle(t, e).call.fn = "AUDIO"
         /\ Handle(t, e).call.ts = e.ts
<1>1. Handle(t, e) = AudioGlitch(t, e)
  BY DEF Handle
<1> QED
  BY <1>1 DEF AudioGlitch, Handled

LEMMA DwmHandled ==
  ASSUME NEW t, DOMAIN t = TableFields, NEW e, e.kind = "DWM", e.size \in Int
  PROVE  LET h == Handle(t, e) IN
         /\ GlitchAgain(t, e.ts) => h.tables = t /\ h.call.fn = "NONE"
         /\ ~GlitchAgain(t, e.ts) =>
              /\ h.call.fn = "DWM" /\ h.call.dur \in Nat \ {0} /\ h.call.ts = e.ts
              /\ h.call.missed = e.size /\ h.call.pid = e.pid /\ ~(h.call.dur < DwmThreshold)
              /\ h.tables = [t EXCEPT !.glitch = <<e.ts>> \o SubSeq(t.glitch, 1,
                                IF Len(t.glitch) < DWM_DEDUP_SLOTS THEN Len(t.glitch)
                                ELSE DWM_DEDUP_SLOTS - 1)]
<1> DEFINE h == Handle(t, e)
           d == VBLANK * (IF e.size >= 1 THEN e.size ELSE 1)
           dur == IF d < 10 THEN 10 ELSE d
           rec == Record(e, "DWM_GLITCH", dur)
           slots == IF Len(t.glitch) < DWM_DEDUP_SLOTS THEN Len(t.glitch) ELSE DWM_DEDUP_SLOTS - 1
           u == [t EXCEPT !.glitch = <<e.ts>> \o SubSeq(@, 1, slots)]
           c == [fn |-> "DWM", pid |-> e.pid, ts |-> e.ts, core |-> e.core,
                 missed |-> e.size, dur |-> rec.dur]
<1>1. h = DwmGlitch(t, e)
  BY DEF Handle
<1>2. h = IF GlitchAgain(t, e.ts) THEN Emit(t, [rec EXCEPT !.flags = {"DEDUPLICATED"}])
          ELSE Handled(u, <<rec>>, c)
  BY <1>1 DEF DwmGlitch, GlitchAgain
<1>3. rec.dur = dur
  BY DEF Record
<1>4. dur \in Nat \ {0} /\ ~(dur < DwmThreshold)
  <2>1. d \in Int /\ d >= VBLANK
    <3>1. CASE e.size >= 1
      <4>1. d = VBLANK * e.size
        BY <3>1
      <4> HIDE DEF d
      <4> QED
        BY <3>1, <4>1, HandlersAssumption
    <3>2. CASE ~(e.size >= 1)
      BY <3>2, HandlersAssumption
    <3> QED
      BY <3>1, <3>2
  <2>2. VBLANK \div 20 \in Nat
    BY HandlersAssumption
  <2>3. DwmThreshold \in Int /\ (DwmThreshold <= 10 \/ DwmThreshold <= VBLANK)
    BY <2>2, HandlersAssumption DEF DwmThreshold, Max2
  <2> HIDE DEF d
  <2> QED
    BY <2>1, <2>3, HandlersAssumption
<1> HIDE DEF dur, rec, slots
<1>5. ~GlitchAgain(t, e.ts) => h.call = c /\ h.tables = u
  BY <1>2 DEF Handled
<1>6. GlitchAgain(t, e.ts) => h.tables = t /\ h.call.fn = "NONE"
  BY <1>2 DEF Emit, Handled, NoCall
<1> QED
  BY <1>3, <1>4, <1>5, <1>6 DEF slots

-----------------------------------------------------------------------------
(* What the benchmark counts.                                              *)

AttrFields ==
  {"stutters", "audio", "minor", "minorStall", "netStall", "worst", "worstOf", "judders",
   "judderSpan", "worstJudder", "hypotheses", "tags"}

Tally(a) == a.stutters + a.minor + a.audio

CountersKnown(a) == a.stutters \in Nat /\ a.minor \in Nat /\ a.audio \in Nat

(* c counts the incidents of b, or n more of them, and the same reports.   *)
SameReports(b, c) ==
  /\ DOMAIN c.attr = AttrFields
  /\ c.attr.hypotheses = b.attr.hypotheses /\ c.attr.tags = b.attr.tags

Counts(b, c, n) ==
  CountersKnown(b.attr) => CountersKnown(c.attr) /\ Tally(c.attr) = Tally(b.attr) + n

LEMMA CountsSame ==
  ASSUME NEW b, NEW c, DOMAIN b.attr = AttrFields, c.attr = b.attr
  PROVE  SameReports(b, c) /\ Counts(b, c, 0)
<1>1. CountersKnown(b.attr) => Tally(b.attr) = Tally(b.attr) + 0
  BY DEF CountersKnown, Tally
<1> QED
  BY <1>1 DEF SameReports, Counts

LEMMA CountsNothing ==
  ASSUME NEW b, DOMAIN b = BenchFields, DOMAIN b.attr = AttrFields
  PROVE  /\ \A d : CountPause(b, d).attr = b.attr
         /\ \A m : UpdateTelemetry(b, m).attr = b.attr
         /\ ClaimFrame(b).attr = b.attr
         /\ \A k, d, e : PublishFrame(b, k, d, e).attr = b.attr
         /\ \A p : EndRestart(b, p).attr = b.attr
  BY DEF CountPause, UpdateTelemetry, ClaimFrame, PublishFrame, EndRestart, BenchFields

(* A filtered event that lasted and is the target's counts as a minor one. *)
LEMMA FilteredCounts ==
  ASSUME NEW b, DOMAIN b = BenchFields, DOMAIN b.attr = AttrFields, NEW p, NEW d, NEW r
  PROVE  LET c == IngestFiltered(b, p, d, r) IN
         /\ SameReports(b, c)
         /\ d \in Nat \ {0} /\ (b.pid = 0 \/ p \in {0, b.pid}) => Counts(b, c, 1)
         /\ ~(b.pid = 0 \/ p \in {0, b.pid}) => Counts(b, c, 0)
<1> DEFINE c == IngestFiltered(b, p, d, r)
           a == b.attr
<1>1. \/ c = b /\ ~(d \in Nat \ {0} /\ (b.pid = 0 \/ p \in {0, b.pid}))
      \/ /\ b.pid = 0 \/ p \in {0, b.pid}
         /\ \E y : c = [b EXCEPT !.attr.minor = a.minor + 1, !.attr.minorStall = y]
  <2> DEFINE skip == d <= 0 \/ (b.pid # 0 /\ p \notin {0, b.pid})
             y == IF r = "CADENCE_JUDDER" THEN a.minorStall ELSE a.minorStall + d
  <2>1. c = IF skip THEN b ELSE [b EXCEPT !.attr.minor = a.minor + 1, !.attr.minorStall = y]
    BY DEF IngestFiltered, BenchFields, AttrFields
  <2>2. /\ skip => ~(d \in Nat \ {0} /\ (b.pid = 0 \/ p \in {0, b.pid}))
        /\ ~skip => b.pid = 0 \/ p \in {0, b.pid}
    OBVIOUS
  <2> HIDE DEF skip, y, c
  <2> QED
    BY <2>1, <2>2
<1> HIDE DEF c, a
<1>2. CASE c = b /\ ~(d \in Nat \ {0} /\ (b.pid = 0 \/ p \in {0, b.pid}))
  BY <1>2, CountsSame DEF c
<1>3. CASE /\ b.pid = 0 \/ p \in {0, b.pid}
           /\ \E y : c = [b EXCEPT !.attr.minor = a.minor + 1, !.attr.minorStall = y]
  <2>1. /\ DOMAIN c.attr = AttrFields /\ c.attr.hypotheses = a.hypotheses
        /\ c.attr.tags = a.tags /\ c.attr.minor = a.minor + 1 /\ c.attr.stutters = a.stutters
        /\ c.attr.audio = a.audio
    <3>1. PICK y : c = [b EXCEPT !.attr.minor = a.minor + 1, !.attr.minorStall = y]
      BY <1>3
    <3> DEFINE x == a.minor + 1
               n == [b EXCEPT !.attr.minor = x, !.attr.minorStall = y]
    <3>2. /\ DOMAIN n.attr = AttrFields /\ n.attr.hypotheses = a.hypotheses
          /\ n.attr.tags = a.tags /\ n.attr.minor = x /\ n.attr.stutters = a.stutters
          /\ n.attr.audio = a.audio
      <4> HIDE DEF x
      <4> QED
        BY DEF BenchFields, AttrFields, a
    <3> QED
      BY <3>1, <3>2
  <2>2. Counts(b, c, 1)
    BY <2>1 DEF Counts, CountersKnown, Tally, a
  <2> QED
    BY <1>3, <2>1, <2>2 DEF SameReports, a, c
<1> QED
  BY <1>1, <1>2, <1>3

(* A report of the target is one more incident, and, unless it is of audio, *)
(* charged under its hypothesis and its tag.                               *)
LEMMA ReportCounts ==
  ASSUME NEW b, DOMAIN b = BenchFields, DOMAIN b.attr = AttrFields, NEW r, r.stall \in Int
  PROVE  LET c == IngestReport(b, r) IN
         /\ \/ SameReports(b, c)
            \/ /\ DOMAIN c.attr = AttrFields
               /\ \E stall \in Int :
                    /\ c.attr.hypotheses = Charge(b.attr.hypotheses, r.hypothesis, stall)
                    /\ c.attr.tags = Charge(b.attr.tags, r.tag, stall)
         /\ b.pid = 0 \/ r.pid \in {0, b.pid} => Counts(b, c, 1)
<1> DEFINE c == IngestReport(b, r)
           a == b.attr
           counted == IF r.severity < 1 THEN CountMinor(b.attr, r.stall, r.judder)
                      ELSE CountStutter(b.attr, r.stall, r.judder, r.hypothesis)
           stall == IF r.judder THEN 0 ELSE r.stall
           charged == [counted EXCEPT !.hypotheses = Charge(@, r.hypothesis, stall),
                                      !.tags = Charge(@, r.tag, stall)]
           mine == b.pid = 0 \/ r.pid \in {0, b.pid}
<1>1. \/ ~mine /\ c = b
      \/ mine /\ c = [b EXCEPT !.attr.audio = @ + 1]
      \/ mine /\ c = [b EXCEPT !.attr = charged]
  BY DEF IngestReport
<1>2. stall \in Int
  OBVIOUS
<1>3. /\ DOMAIN counted = AttrFields
      /\ counted.hypotheses = a.hypotheses /\ counted.tags = a.tags
      /\ counted.audio = a.audio
      /\ \/ counted.minor = a.minor + 1 /\ counted.stutters = a.stutters
         \/ counted.minor = a.minor /\ counted.stutters = a.stutters + 1
  <2> DEFINE stall0 == r.stall
             judder == r.judder
             h == r.hypothesis
  <2>1. CASE counted = CountMinor(a, stall0, judder)
    <3>1. \E x : counted = [a EXCEPT !.minor = a.minor + 1, !.minorStall = x]
      BY <2>1 DEF CountMinor, AttrFields
    <3> HIDE DEF counted, a
    <3> QED
      BY <3>1 DEF AttrFields, a
  <2>2. CASE counted = CountStutter(a, stall0, judder, h)
    <3>1. \/ \E x, y, z : counted = [a EXCEPT !.stutters = a.stutters + 1, !.judders = x,
                                              !.judderSpan = y, !.worstJudder = z]
          \/ \E x, y, z : counted = [a EXCEPT !.stutters = a.stutters + 1, !.netStall = x,
                                              !.worst = y, !.worstOf = z]
      BY <2>2 DEF CountStutter, AttrFields
    <3> HIDE DEF counted, a
    <3> QED
      BY <3>1 DEF AttrFields, a
  <2> QED
    BY <2>1, <2>2
<1> HIDE DEF counted, stall
<1>4. /\ DOMAIN charged = AttrFields
      /\ charged.hypotheses = Charge(a.hypotheses, r.hypothesis, stall)
      /\ charged.tags = Charge(a.tags, r.tag, stall)
      /\ charged.audio = counted.audio /\ charged.minor = counted.minor
      /\ charged.stutters = counted.stutters
  BY <1>3 DEF AttrFields
<1> HIDE DEF charged, c, mine
<1>5. CASE ~mine /\ c = b
  BY <1>5 DEF SameReports, c, mine
<1>6. CASE mine /\ c = [b EXCEPT !.attr.audio = @ + 1]
  <2>1. /\ DOMAIN c.attr = AttrFields /\ c.attr.hypotheses = a.hypotheses
        /\ c.attr.tags = a.tags /\ c.attr.minor = a.minor /\ c.attr.stutters = a.stutters
        /\ c.attr.audio = a.audio + 1
    BY <1>6 DEF BenchFields, AttrFields
  <2>2. Counts(b, c, 1)
    BY <2>1 DEF Counts, CountersKnown, Tally
  <2> QED
    BY <2>1, <2>2 DEF SameReports, c
<1>7. CASE mine /\ c = [b EXCEPT !.attr = charged]
  <2>1. c.attr = charged
    BY <1>7 DEF BenchFields
  <2>2. Counts(b, c, 1)
    BY <1>3, <1>4, <2>1 DEF Counts, CountersKnown, Tally
  <2> QED
    BY <1>2, <1>4, <2>1, <2>2 DEF c
<1> QED
  BY <1>1, <1>5, <1>6, <1>7

-----------------------------------------------------------------------------
(* Reports are charged under a hypothesis and under a tag alike.           *)

TriggerFields ==
  {"source", "reason", "pid", "tid", "core", "ts", "dur", "baseline", "ratio", "alternations",
   "swing", "staged"}

TriggerKnown(t) == DOMAIN t = TriggerFields /\ t.dur \in Int /\ t.staged \in Int
HeldMeasured == held # NoTrigger => TriggerKnown(held)

GlitchMeasured ==
  call.pc # "IDLE" /\ call.arg.fn = "DWM" => call.arg.dur \in Nat \ {0}

Charged ==
  LET a == bench.attr IN
    /\ DOMAIN a = AttrFields
    /\ StatsKnown(a.hypotheses) /\ StatsKnown(a.tags)
    /\ Counted(a.hypotheses) = Counted(a.tags)

ShareInv == HeldMeasured /\ GlitchMeasured /\ Charged

LEMMA InfoKnown ==
  ASSUME NEW source, NEW reason, NEW pid, NEW tid, NEW core, NEW ts, NEW dur \in Int,
         NEW baseline, NEW ratio
  PROVE  LET t == TriggerInfo(source, reason, pid, tid, core, ts, dur, baseline, ratio) IN
         TriggerKnown(t) /\ t.pid = pid /\ t.dur = dur
  BY DEF TriggerKnown, TriggerFields, TriggerInfo

LEMMA StutterKnown ==
  ASSUME NEW c, NEW r, c.dur \in Int, r.dur \in Int
  PROVE  LET t == StutterOf(c, r) IN
         /\ TriggerKnown(t) /\ t.pid = c.pid
         /\ t.dur = IF r.dur > 0 THEN r.dur ELSE c.dur
<1> DEFINE source == IF r.reason = "CADENCE_JUDDER" THEN "FRAME_PACING_JUDDER"
                     ELSE IF c.fn = "PRESENT" THEN "DXGI_PRESENT_STUTTER"
                     ELSE "KERNEL_FRAME_STALL"
           ts == IF r.ts > 0 THEN r.ts ELSE c.ts
           dur == IF r.dur > 0 THEN r.dur ELSE c.dur
           t == TriggerInfo(source, r.reason, c.pid, c.tid, c.core, ts, dur, r.baseline, r.ratio)
<1>1. StutterOf(c, r) = [t EXCEPT !.alternations = r.alternations, !.swing = r.swing]
  BY DEF StutterOf
<1>2. dur \in Int
  OBVIOUS
<1> HIDE DEF source, ts, dur
<1>3. TriggerKnown(t) /\ t.pid = c.pid /\ t.dur = dur
  BY <1>2, InfoKnown
<1> HIDE DEF t
<1> QED
  BY <1>1, <1>3 DEF TriggerKnown, TriggerFields, dur

(* The frame under judgement has a length, and so has what is found.       *)
LEMMA VerdictKnown ==
  ASSUME WorldOK, StreamInv, EvaluateFrame
  PROVE  /\ call.arg.dur \in Nat \ {0} /\ call.arg.ts \in Int
         /\ Fit(Stats(call.arg), call.arg.ts) /\ JudgedOK(Judged(call.arg), call.arg.ts)
<1> DEFINE c == call.arg
           r == Judged(c)
           s == Stats(c)
<1>1. /\ now \in Int /\ c.ts \in Int /\ c.ts <= now /\ c.dur \in Nat \ {0}
      /\ \A k \in DOMAIN pacing : Fit(pacing[k], now) /\ pacing[k].last <= c.ts
  BY DEF StreamInv, CallKnown, StreamsOK, EvaluateFrame
<1>2. Fit(s, c.ts)
  <2>1. CASE c.key \in DOMAIN pacing
    BY <1>1, <2>1 DEF Stats, Fit
  <2>2. CASE c.key \notin DOMAIN pacing
    <3>1. StatsOK(FreshStats(c.ts)) /\ FreshStats(c.ts).last = c.ts
      BY <1>1, FreshOK
    <3> QED
      BY <1>1, <2>2, <3>1 DEF Stats, Fit
  <2> QED
    BY <2>1, <2>2
<1>3. r = EvaluateCommon(s, c.dur, c.ts, scene.cfg)
  BY DEF Judged, s
<1> HIDE DEF s, r
<1>4. JudgedOK(r, c.ts)
  <2>1. scene.cfg.mode \in Modes
    BY ScenarioAssumption DEF WorldOK, Modes
  <2>2. c.dur \in Int /\ c.dur >= 1
    BY <1>1
  <2> HIDE DEF c
  <2> QED
    BY <1>1, <1>2, <1>3, <2>1, <2>2, EvaluateCommonOK
<1> QED
  BY <1>1, <1>2, <1>4 DEF s, r

LEMMA UpgradedKnown ==
  ASSUME NEW t, TriggerKnown(t)
  PROVE  TriggerKnown(Upgraded(t)) /\ Upgraded(t).pid = t.pid
<1>1. \/ Upgraded(t) = t
      \/ \E x, z : Upgraded(t) = [t EXCEPT !.source = x, !.dur = t.staged, !.ratio = z]
  BY DEF Upgraded
<1> QED
  BY <1>1 DEF TriggerKnown, TriggerFields

LEMMA HeldStep ==
  ASSUME WorldOK, StreamInv, HeldMeasured, GlitchMeasured, [Next]_vars
  PROVE  HeldMeasured'
<1>1. CASE held' = held \/ held' = NoTrigger \/ TriggerKnown(held')
  BY <1>1 DEF HeldMeasured, TriggerKnown
<1>2. CASE \/ BeginSpan \/ EndSpan \/ PointEvent \/ PresentBegins \/ PresentEnds \/ FlipHappens
  <2>1. ASSUME NEW e, Deliver(e) \/ Lose(e) \/ Happens(e) PROVE held' = held
    BY <2>1 DEF Deliver, Lose, Happens
  <2>2. CASE BeginSpan \/ EndSpan \/ PointEvent
    BY <1>1, <2>1, <2>2 DEF BeginSpan, EndSpan, PointEvent
  <2>3. CASE PresentBegins \/ PresentEnds \/ FlipHappens
    BY <1>1, <2>1, <2>3 DEF PresentBegins, PresentEnds, FlipHappens
  <2> QED
    BY <1>2, <2>2, <2>3
<1>3. CASE OnDxgiPresent \/ ClaimTicket \/ WriteFrame \/ Report \/ ResetByUser \/ Retarget
             \/ FinishRestart \/ UNCHANGED vars
  BY <1>1, <1>3 DEF OnDxgiPresent, ClaimTicket, WriteFrame, Report, ResetByUser, Retarget,
                    FinishRestart, vars, program
<1>4. CASE OnKernelFrameStall
  BY <1>1, <1>4 DEF OnKernelFrameStall, RecordFiltered
<1>5. CASE DetachTarget \/ AttachTarget
  <2>1. \E pid : MoveTarget(pid)
    BY <1>5 DEF DetachTarget, AttachTarget
  <2> QED
    BY <1>1, <2>1 DEF MoveTarget
<1>6. CASE OnAudioGlitch
  <2>1. \/ held' = held
        \/ held' = TriggerInfo("AUDIO_GLITCH", "AUDIO_BUFFER_UNDERRUN", engine.pid, 0,
                               call.arg.core, call.arg.ts, 0, 0, 0)
    BY <1>6 DEF OnAudioGlitch, Hold
  <2> QED
    BY <1>1, <2>1, InfoKnown
<1>7. CASE OnDwmGlitch
  <2>1. call.arg.dur \in Int
    BY <1>7 DEF OnDwmGlitch, Calls, GlitchMeasured
  <2>2. \/ held' = held
        \/ \E pid, core, ts, base, ratio :
             held' = TriggerInfo("DWM_GLITCH", "DWM_COMPOSITOR_GLITCH", pid, 0, core, ts,
                                 call.arg.dur, base, ratio)
    BY <1>7 DEF OnDwmGlitch, Initiate, RecordFiltered, Hold
  <2> QED
    BY <1>1, <2>1, <2>2, InfoKnown
<1>8. CASE EvaluateFrame
  <2> DEFINE c == call.arg
             r == Judged(c)
             t == StutterOf(c, r)
  <2>1. TriggerKnown(t)
    <3>1. c.dur \in Nat \ {0} /\ JudgedOK(r, c.ts)
      BY <1>8, VerdictKnown
    <3> HIDE DEF c, r
    <3>2. c.dur \in Int /\ r.dur \in Int
      BY <3>1 DEF JudgedOK
    <3> QED
      BY <3>2, StutterKnown
  <2>2. \/ held' = held \/ held' = t
        \/ CollectingDxgi /\ StageStall(c.dur)
    BY <1>8 DEF EvaluateFrame
  <2>3. CASE CollectingDxgi /\ StageStall(c.dur)
    <3>1. TriggerKnown(held)
      BY <2>3 DEF CollectingDxgi, NoTrigger, HeldMeasured
    <3>2. Max({held.staged, Clamp(c.dur, 1, DEFENSIVE_CLAMP)}) \in Int
      <4>1. c.dur \in Int
        BY <1>8, VerdictKnown
      <4> HIDE DEF c
      <4>2. Clamp(c.dur, 1, DEFENSIVE_CLAMP) \in Int
        <5>1. DEFENSIVE_CLAMP \in Int
          BY DEF DEFENSIVE_CLAMP
        <5>2. PICK d \in Int : d = c.dur
          BY <4>1
        <5> QED
          BY <5>1, <5>2, Clamped
      <4>3. held.staged \in Int
        BY <3>1 DEF TriggerKnown
      <4> QED
        BY <4>2, <4>3, Extremes
    <3> DEFINE x == Max({held.staged, Clamp(c.dur, 1, DEFENSIVE_CLAMP)})
    <3>3. held' = [held EXCEPT !.staged = x]
      BY <2>3, <3>1 DEF StageStall, TriggerKnown, TriggerFields
    <3> HIDE DEF x
    <3>4. TriggerKnown(held')
      BY <3>1, <3>2, <3>3 DEF TriggerKnown, TriggerFields, x
    <3> QED
      BY <1>1, <3>4
  <2> HIDE DEF t
  <2> QED
    BY <1>1, <2>1, <2>2, <2>3
<1> QED
  BY <1>2, <1>3, <1>4, <1>5, <1>6, <1>7, <1>8 DEF Next

-----------------------------------------------------------------------------
(* The events of the world, and what they call for.                        *)

(* Every step of the world brings an event of a known kind.                *)
WorldEvent(e) ==
  (Deliver(e) \/ Lose(e)) /\ e.kind \in Kinds /\ (e.kind = "DWM" => e.size \in Int)

LEMMA PointsBring ==
  ASSUME PointEvent
  PROVE  \E e : WorldEvent(e)
<1>1. PICK d \in scene.delays, kind \in scene.kinds \cap PointKinds, pid \in scene.pids,
           big \in BOOLEAN : Happens(Point(kind, pid, big, now + d))
  BY DEF PointEvent
<1> DEFINE ts == now + d
           e == Point(kind, pid, big, ts)
<1>2. e.kind = kind /\ kind \in Kinds /\ (kind = "DWM" => e.size \in Int)
  <2> HIDE DEF ts
  <2> QED
    BY PointKnown
<1>3. Deliver(e) \/ Lose(e)
  BY <1>1 DEF Happens
<1> HIDE DEF e
<1> QED
  BY <1>2, <1>3 DEF WorldEvent

LEMMA WorldBrings ==
  ASSUME WorldOK, BeginSpan \/ EndSpan \/ PointEvent \/ PresentBegins \/ PresentEnds \/ FlipHappens
  PROVE  \E e : WorldEvent(e)
<1>1. ASSUME NEW e, Happens(e), e.kind \in QuietKinds PROVE WorldEvent(e)
  <2>1. e.kind \in Kinds /\ e.kind # "DWM"
    BY <1>1 DEF Kinds, QuietKinds
  <2> QED
    BY <1>1, <2>1 DEF WorldEvent, Happens
<1>2. CASE BeginSpan
  <2>1. PICK d \in scene.delays, kind \in SpanKinds, pid \in scene.pids :
          Happens(SpanStart(kind, pid, now + d))
    BY <1>2 DEF BeginSpan
  <2> DEFINE ts == now + d
             e == SpanStart(kind, pid, ts)
  <2>2. e.kind \in QuietKinds
    <3> HIDE DEF ts
    <3> QED
      BY SpanKnown
  <2>3. Happens(e)
    BY <2>1
  <2> HIDE DEF e
  <2> QED
    BY <1>1, <2>2, <2>3
<1>3. CASE EndSpan
  <2>1. PICK d \in scene.delays, s \in open : Happens(SpanStop(s.kind, s.pid, now + d))
    BY <1>3 DEF EndSpan
  <2> DEFINE ts == now + d
             e == SpanStop(s.kind, s.pid, ts)
  <2>2. e.kind \in QuietKinds
    <3> HIDE DEF ts
    <3> QED
      BY SpanKnown DEF WorldOK
  <2>3. Happens(e)
    BY <2>1
  <2> HIDE DEF e
  <2> QED
    BY <1>1, <2>2, <2>3
<1>4. CASE PresentBegins \/ PresentEnds \/ FlipHappens
  <2>1. \E kind \in {"PRESENT_START", "PRESENT_STOP", "FLIP"} : \E pid, ts :
          Deliver([Raw(kind, pid, ts) EXCEPT !.key = 1])
    <3>1. PresentBegins => \E pid, ts : Deliver([Raw("PRESENT_START", pid, ts) EXCEPT !.key = 1])
      BY DEF PresentBegins
    <3>2. PresentEnds => \E pid, ts : Deliver([Raw("PRESENT_STOP", pid, ts) EXCEPT !.key = 1])
      BY DEF PresentEnds
    <3>3. FlipHappens => \E pid, ts : Deliver([Raw("FLIP", pid, ts) EXCEPT !.key = 1])
      BY DEF FlipHappens
    <3> QED
      BY <1>4, <3>1, <3>2, <3>3
  <2>2. PICK kind \in {"PRESENT_START", "PRESENT_STOP", "FLIP"} : \E pid, ts :
          Deliver([Raw(kind, pid, ts) EXCEPT !.key = 1])
    BY <2>1
  <2>3. PICK pid, ts : Deliver([Raw(kind, pid, ts) EXCEPT !.key = 1])
    BY <2>2
  <2> DEFINE e == [Raw(kind, pid, ts) EXCEPT !.key = 1]
  <2>4. e.kind = kind
    BY RawKnown
  <2>5. Deliver(e)
    BY <2>3
  <2> HIDE DEF e
  <2> QED
    BY <2>4, <2>5 DEF WorldEvent, Kinds, FrameKinds
<1> QED
  BY <1>2, <1>3, <1>4, PointsBring

LEMMA OtherCalls ==
  ASSUME NEW t, DOMAIN t = TableFields, NEW e, e.kind \in Kinds, e.kind # "DWM"
  PROVE  Handle(t, e).call.fn # "DWM"
<1>1. CASE e.kind \in QuietKinds \cup {"KERNEL_PRESENT"}
  BY <1>1, QuietHandled DEF Quietly, NoCall
<1>2. CASE e.kind = "AUDIO"
  BY <1>2, AudioHandled
<1>3. CASE e.kind = "PRESENT_START"
  <2>1. Handle(t, e) = PresentStart(t, e)
    BY <1>3 DEF Handle
  <2> QED
    BY <2>1 DEF PresentStart, Silent, Handled, NoCall
<1>4. CASE e.kind = "PRESENT_STOP"
  <2>1. Handle(t, e) = PresentStop(t, e)
    BY <1>4 DEF Handle
  <2>2. \/ \E rec : PresentStop(t, e) = Emit(t, rec)
        \/ \E u, rec : PresentStop(t, e) = Handled(u, rec, NoCall)
        \/ \E u, rec, d, k : PresentStop(t, e) =
             Handled(u, rec, [fn |-> "PRESENT", pid |-> e.pid, tid |-> e.tid, dur |-> d,
                              ts |-> e.ts, key |-> k, core |-> e.core])
    BY DEF PresentStop
  <2> QED
    BY <2>1, <2>2 DEF Emit, Handled, NoCall
<1>5. CASE e.kind = "FLIP"
  <2>1. Handle(t, e) = Flip(t, e)
    BY <1>5 DEF Handle
  <2>2. \/ \E u, rec : Flip(t, e) = Handled(u, rec, NoCall)
        \/ \E u, rec, d, k : Flip(t, e) =
             Handled(u, rec, [fn |-> "FLIP", pid |-> e.pid, tid |-> e.tid, dur |-> d,
                              ts |-> e.ts, key |-> k, core |-> e.core])
    BY DEF Flip
  <2> QED
    BY <2>1, <2>2 DEF Handled, NoCall
<1> QED
  BY <1>1, <1>2, <1>3, <1>4, <1>5 DEF Kinds, FrameKinds, CallKinds

LEMMA GlitchStep ==
  ASSUME WorldOK, StreamInv, GlitchMeasured, [Next]_vars
  PROVE  GlitchMeasured'
<1>1. CASE call' = call \/ call'.pc = "IDLE"
  BY <1>1 DEF GlitchMeasured
<1>2. CASE call.pc # "IDLE" /\ call'.arg = call.arg
  BY <1>2 DEF GlitchMeasured
<1>3. CASE BeginSpan \/ EndSpan \/ PointEvent \/ PresentBegins \/ PresentEnds \/ FlipHappens
  <2>1. PICK e : WorldEvent(e)
    BY <1>3, WorldBrings
  <2>2. CASE Lose(e)
    BY <1>1, <2>2 DEF Lose
  <2>3. CASE Deliver(e)
    <3> DEFINE h == Handle(tables, e)
    <3>1. call' = IF h.call.fn = "NONE" THEN Idle ELSE [pc |-> "CALL", arg |-> h.call]
      BY <2>3 DEF Deliver
    <3>2. DOMAIN tables = TableFields
      BY DEF StreamInv, TimesKnown
    <3>3. h.call.fn = "DWM" => h.call.dur \in Nat \ {0}
      <4>1. CASE e.kind = "DWM"
        <5>1. e.size \in Int
          BY <2>1, <4>1 DEF WorldEvent
        <5>2. GlitchAgain(tables, e.ts) => h.call.fn = "NONE"
          BY <3>2, <4>1, <5>1, DwmHandled
        <5>3. ~GlitchAgain(tables, e.ts) => h.call.dur \in Nat \ {0}
          BY <3>2, <4>1, <5>1, DwmHandled
        <5> HIDE DEF h
        <5> QED
          BY <5>2, <5>3
      <4>2. CASE e.kind # "DWM"
        BY <2>1, <3>2, <4>2, OtherCalls DEF WorldEvent
      <4> QED
        BY <4>1, <4>2
    <3> HIDE DEF h
    <3> QED
      BY <3>1, <3>3 DEF GlitchMeasured, Idle
  <2> QED
    BY <2>1, <2>2, <2>3 DEF WorldEvent
<1>4. CASE OnDxgiPresent \/ OnKernelFrameStall
  <2>1. call.pc # "IDLE"
    BY <1>4 DEF OnDxgiPresent, OnKernelFrameStall, Calls
  <2>2. Return \/ \E pc : Hand(pc)
    <3>1. Return \/ IngestFrame \/ Hand("EVALUATE")
      BY <1>4 DEF OnDxgiPresent, OnKernelFrameStall
    <3> QED
      BY <3>1 DEF IngestFrame
  <2>3. CASE Return
    BY <1>1, <2>3 DEF Return, Idle
  <2>4. CASE \E pc : Hand(pc)
    BY <1>2, <2>1, <2>4 DEF Hand
  <2> QED
    BY <2>2, <2>3, <2>4
<1>5. CASE ClaimTicket \/ WriteFrame
  <2>1. /\ call.pc \in {"STAMPED", "CLAIMED"}
        /\ \/ call' = [call EXCEPT !.pc = "CLAIMED", !.ticket = bench.head]
           \/ call' = [call EXCEPT !.pc = "EVALUATE"]
    BY <1>5 DEF ClaimTicket, WriteFrame
  <2>2. {"pc", "arg"} \subseteq DOMAIN call
    BY <2>1 DEF StreamInv, CallKnown
  <2>3. call'.arg = call.arg
    BY <2>1, <2>2
  <2> QED
    BY <1>2, <2>1, <2>3
<1>6. CASE EvaluateFrame \/ OnAudioGlitch \/ OnDwmGlitch
  BY <1>1, <1>6 DEF EvaluateFrame, OnAudioGlitch, OnDwmGlitch, Return, Idle
<1>7. CASE Report \/ ResetByUser \/ Retarget \/ FinishRestart \/ UNCHANGED vars
  BY <1>1, <1>7 DEF Report, ResetByUser, Retarget, FinishRestart, vars, program
<1>8. CASE DetachTarget \/ AttachTarget
  <2>1. \E pid : MoveTarget(pid)
    BY <1>8 DEF DetachTarget, AttachTarget
  <2> QED
    BY <1>1, <2>1 DEF MoveTarget
<1> QED
  BY <1>3, <1>4, <1>5, <1>6, <1>7, <1>8 DEF Next

LEMMA ReportsUntouched ==
  ASSUME FrameInv, Charged, [Next]_vars, ~Report, ~ResetByUser, ~Retarget
  PROVE  SameReports(bench, bench')
<1>1. DOMAIN bench = BenchFields /\ DOMAIN bench.attr = AttrFields
  BY DEF FrameInv, BenchTypes, Charged
<1>2. CASE bench'.attr = bench.attr
  BY <1>1, <1>2, CountsSame
<1>3. CASE BeginSpan \/ EndSpan \/ PointEvent \/ PresentBegins \/ PresentEnds \/ FlipHappens
  <2>1. ASSUME NEW e, Deliver(e) \/ Lose(e) \/ Happens(e) PROVE bench' = bench
    BY <2>1 DEF Deliver, Lose, Happens
  <2>2. CASE BeginSpan \/ EndSpan \/ PointEvent
    BY <1>2, <2>1, <2>2 DEF BeginSpan, EndSpan, PointEvent
  <2>3. CASE PresentBegins \/ PresentEnds \/ FlipHappens
    BY <1>2, <2>1, <2>3 DEF PresentBegins, PresentEnds, FlipHappens
  <2> QED
    BY <1>3, <2>2, <2>3
<1>4. CASE OnDxgiPresent
  BY <1>1, <1>2, <1>4, CountsNothing DEF OnDxgiPresent
<1>5. CASE OnKernelFrameStall
  <2>1. \/ bench' = bench \/ bench' = CountPause(bench, call.arg.dur)
        \/ \E p, d, r : bench' = IngestFiltered(bench, p, d, r)
    BY <1>5 DEF OnKernelFrameStall, RecordFiltered
  <2> QED
    BY <1>1, <1>2, <2>1, CountsNothing, FilteredCounts
<1>6. CASE ClaimTicket \/ WriteFrame \/ FinishRestart
  BY <1>1, <1>2, <1>6, CountsNothing DEF ClaimTicket, WriteFrame, FinishRestart
<1>7. CASE EvaluateFrame
  <2> DEFINE b == Telemetered(call.arg, Judged(call.arg))
  <2>1. \/ bench' = bench \/ bench' = b \/ \E p, d, r : bench' = IngestFiltered(b, p, d, r)
    BY <1>7 DEF EvaluateFrame
  <2>2. DOMAIN b = BenchFields
    BY <1>1, OtherFields DEF Telemetered, SameFrames
  <2>3. b.attr = bench.attr
    BY <1>1, CountsNothing DEF Telemetered
  <2> HIDE DEF b
  <2>4. \A p, d, r : SameReports(b, IngestFiltered(b, p, d, r))
    BY <1>1, <2>2, <2>3, FilteredCounts
  <2> QED
    BY <1>1, <1>2, <2>1, <2>3, <2>4 DEF SameReports
<1>8. CASE OnAudioGlitch
  BY <1>2, <1>8 DEF OnAudioGlitch
<1>9. CASE OnDwmGlitch
  <2>1. bench' = bench \/ \E p, d, r : bench' = IngestFiltered(bench, p, d, r)
    BY <1>9 DEF OnDwmGlitch, Initiate, RecordFiltered
  <2> QED
    BY <1>1, <1>2, <2>1, FilteredCounts
<1>10. CASE DetachTarget \/ AttachTarget
  <2>1. \E pid : MoveTarget(pid)
    BY <1>10 DEF DetachTarget, AttachTarget
  <2> QED
    BY <1>2, <2>1 DEF MoveTarget
<1>11. CASE UNCHANGED vars
  BY <1>2, <1>11 DEF vars, program
<1> QED
  BY <1>3, <1>4, <1>5, <1>6, <1>7, <1>8, <1>9, <1>10, <1>11 DEF Next

LEMMA ChargeKnown ==
  ASSUME NEW stats, StatsKnown(stats), NEW name, NEW stall \in Int
  PROVE  /\ StatsKnown(Charge(stats, name, stall))
         /\ Counted(Charge(stats, name, stall)) = Counted(stats) + 1
<1> DEFINE c == Charge(stats, name, stall)
<1>1. CountsKnown(stats) /\ \A h \in DOMAIN stats : stats[h].stall \in Int
  BY DEF StatsKnown
<1>2. CountsKnown(c) /\ Counted(c) = Counted(stats) + 1
  BY <1>1, ChargeCounts
<1>3. \A h \in DOMAIN c : c[h].stall \in Int
  BY <1>1 DEF Charge
<1> QED
  BY <1>2, <1>3 DEF StatsKnown

LEMMA ChargedStep ==
  ASSUME FrameInv, HeldMeasured, Charged, [Next]_vars
  PROVE  Charged'
<1>1. CASE SameReports(bench, bench')
  BY <1>1 DEF Charged, SameReports
<1>2. CASE Report
  <2>1. DOMAIN bench = BenchFields /\ DOMAIN bench.attr = AttrFields
    BY DEF FrameInv, BenchTypes, Charged
  <2>2. \E r : r.stall \in Int /\ bench' = IngestReport(bench, r)
    <3> DEFINE t == Upgraded(held)
    <3>1. t.dur \in Int
      BY <1>2, UpgradedKnown DEF Report, HeldMeasured, TriggerKnown
    <3>2. \E p, a, v, j, h, g : bench' = IngestReport(bench,
            [pid |-> p, audio |-> a, severity |-> v, judder |-> j, stall |-> t.dur,
             hypothesis |-> h, tag |-> g])
      BY <1>2 DEF Report
    <3> HIDE DEF t
    <3>3. PICK p, a, v, j, h, g : bench' = IngestReport(bench,
            [pid |-> p, audio |-> a, severity |-> v, judder |-> j, stall |-> t.dur,
             hypothesis |-> h, tag |-> g])
      BY <3>2
    <3> DEFINE r == [pid |-> p, audio |-> a, severity |-> v, judder |-> j, stall |-> t.dur,
                     hypothesis |-> h, tag |-> g]
    <3>4. r.stall \in Int
      BY <3>1
    <3>5. bench' = IngestReport(bench, r)
      BY <3>3
    <3> HIDE DEF r
    <3> QED
      BY <3>4, <3>5
  <2>3. PICK r : r.stall \in Int /\ bench' = IngestReport(bench, r)
    BY <2>2
  <2>4. \/ SameReports(bench, bench')
        \/ /\ DOMAIN bench'.attr = AttrFields
           /\ \E stall \in Int :
                /\ bench'.attr.hypotheses = Charge(bench.attr.hypotheses, r.hypothesis, stall)
                /\ bench'.attr.tags = Charge(bench.attr.tags, r.tag, stall)
    BY <2>1, <2>3, ReportCounts
  <2>5. ASSUME DOMAIN bench'.attr = AttrFields, NEW stall \in Int,
               bench'.attr.hypotheses = Charge(bench.attr.hypotheses, r.hypothesis, stall),
               bench'.attr.tags = Charge(bench.attr.tags, r.tag, stall)
        PROVE  Charged'
    <3> DEFINE a == bench.attr
    <3>1. StatsKnown(a.hypotheses) /\ StatsKnown(a.tags) /\ Counted(a.hypotheses) = Counted(a.tags)
      BY DEF Charged
    <3>2. /\ StatsKnown(Charge(a.hypotheses, r.hypothesis, stall))
          /\ Counted(Charge(a.hypotheses, r.hypothesis, stall)) = Counted(a.hypotheses) + 1
      BY <3>1, ChargeKnown
    <3>3. /\ StatsKnown(Charge(a.tags, r.tag, stall))
          /\ Counted(Charge(a.tags, r.tag, stall)) = Counted(a.tags) + 1
      BY <3>1, ChargeKnown
    <3> QED
      BY <2>5, <3>1, <3>2, <3>3 DEF Charged
  <2> QED
    BY <1>1, <2>4, <2>5
<1>3. CASE ResetByUser \/ Retarget
  <2>1. bench' = BeginRestart(bench) /\ DOMAIN bench = BenchFields
    BY <1>3 DEF ResetByUser, Retarget, FrameInv, BenchTypes
  <2>2. bench'.attr = NoAttribution
    BY <2>1 DEF BeginRestart, BenchFields
  <2>3. StatsKnown(<<>>)
    <3>1. DOMAIN <<>> = {}
      OBVIOUS
    <3>2. IsFiniteSet({})
      BY FS_EmptySet
    <3> QED
      BY <3>1, <3>2 DEF StatsKnown, CountsKnown
  <2>4. DOMAIN NoAttribution = AttrFields /\ NoAttribution.hypotheses = <<>>
        /\ NoAttribution.tags = <<>>
    BY DEF NoAttribution, AttrFields
  <2> QED
    BY <2>2, <2>3, <2>4 DEF Charged
<1> QED
  BY <1>1, <1>2, <1>3, ReportsUntouched

LEMMA ShareStep ==
  ASSUME WorldOK, StreamInv, FrameInv, ShareInv, [Next]_vars
  PROVE  ShareInv'
  BY HeldStep, GlitchStep, ChargedStep DEF ShareInv

LEMMA ShareInit ==
  ASSUME Init
  PROVE  ShareInv
<1>1. call.pc = "IDLE" /\ held = NoTrigger /\ bench = NewBenchmark(scene.target)
  BY DEF Init, Idle
<1>2. bench.attr = NoAttribution
  BY <1>1 DEF NewBenchmark
<1>3. StatsKnown(<<>>)
  <2>1. DOMAIN <<>> = {}
    OBVIOUS
  <2>2. IsFiniteSet({})
    BY FS_EmptySet
  <2> QED
    BY <2>1, <2>2 DEF StatsKnown, CountsKnown
<1>4. DOMAIN NoAttribution = AttrFields /\ NoAttribution.hypotheses = <<>>
      /\ NoAttribution.tags = <<>>
  BY DEF NoAttribution, AttrFields
<1> QED
  BY <1>1, <1>2, <1>3, <1>4 DEF ShareInv, HeldMeasured, GlitchMeasured, Charged

LEMMA SharesCounted ==
  ASSUME ShareInv
  PROVE  ReportsShared
<1> DEFINE all == bench.attr.hypotheses
           sum == Summary(bench)
<1>1. StatsKnown(all) /\ Counted(all) = Counted(bench.attr.tags)
  BY DEF ShareInv, Charged
<1>2. sum.culprits = Culprits(all) /\ sum.tags = bench.attr.tags
  BY DEF Summary
<1> HIDE DEF all, sum
<1>3. Counted(Culprits(all).named) + Culprits(all).other.count
        + SumOf(all, DOMAIN all \cap {"frame_pacing_judder"}, "count") = Counted(all)
  BY <1>1, SharesAdd
<1>4. Counted(sum.culprits.named) + sum.culprits.other.count
        + SumOf(all, DOMAIN all \cap {"frame_pacing_judder"}, "count") = Counted(sum.tags)
  BY <1>1, <1>2, <1>3
<1> QED
  BY <1>4 DEF ReportsShared, all, sum

-----------------------------------------------------------------------------
(* A static threshold decides alone, but for the frame that ends a pause.  *)

LEMMA StaticVerdict ==
  ASSUME NEW s, NEW d, NEW ts, NEW cfg, cfg.mode = "STATIC_ONLY"
  PROVE  EvaluateCommon(s, d, ts, cfg).reason
           = IF d * TICK >= cfg.static /\ ~IsPause(s, ts) THEN "STATIC_THRESHOLD" ELSE "NONE"
<1> DEFINE r == Evaluate(s, d, ts, cfg)
           t == Swept(Forward(s, ts), ts)
           slow == d * TICK >= cfg.static
           verdict == IF slow THEN "STATIC_THRESHOLD" ELSE "NONE"
<1>1. \A st, reason, base, ratio : Result(st, reason, base, ratio).reason = reason
  BY DEF Result
<1>2. \A st, base, ratio : NoStutter(st, base, ratio).reason = "NONE"
  BY <1>1 DEF NoStutter
<1>3. LiftedStatic(cfg, t) = cfg.static
  BY DEF LiftedStatic
<1>4. AfterPause(d, ts).reason = "NONE"
  BY <1>2 DEF AfterPause
<1> HIDE DEF t
<1>5. Warmup(t, d, ts, cfg).reason = verdict
  BY <1>1, <1>3 DEF Warmup
<1>6. Baseline(t, d, ts, cfg).reason = verdict
  <2>1. Baseline(t, d, ts, cfg) = StaticFallback(t, d, ts, cfg, cfg.static)
    BY <1>3 DEF Baseline, IsSpike
  <2>2. StaticFallback(t, d, ts, cfg, cfg.static) =
          IF slow THEN Result([ResetCadence(t) EXCEPT !.cand = NoCandidate], "STATIC_THRESHOLD",
                              MeanOf(t), Ratio(MeanOf(t), d))
          ELSE CleanTail(t, d, ts)
    BY DEF StaticFallback
  <2>3. CleanTail(t, d, ts).reason = "NONE"
    BY <1>2 DEF CleanTail
  <2> HIDE DEF slow
  <2> QED
    BY <1>1, <2>1, <2>2, <2>3
<1>7. r.reason = IF IsPause(s, ts) THEN "NONE" ELSE verdict
  <2>1. r = IF IsPause(s, ts) THEN AfterPause(d, ts)
            ELSE IF s.n < POST_WARMUP_MIN_SAMPLES THEN Warmup(t, d, ts, cfg)
            ELSE Baseline(t, d, ts, cfg)
    BY DEF Evaluate, t
  <2> HIDE DEF r, verdict
  <2> QED
    BY <1>4, <1>5, <1>6, <2>1
<1> HIDE DEF r, slow
<1>8. r.reason # "RELATIVE_SPIKE"
  BY <1>7
<1>9. EvaluateCommon(s, d, ts, cfg) = r
  BY <1>8 DEF EvaluateCommon, r
<1> QED
  BY <1>7, <1>9 DEF slow

-----------------------------------------------------------------------------
(* The end of a Present: the engine hears of a frame that is no duplicate   *)
(* of the one before and follows it within the pause ceiling.              *)

LEMMA Duplicates == DuplicateBelow \in 20 .. 30
<1>1. PICK half \in Int : half = VBLANK \div 2
  BY HandlersAssumption
<1> QED
  BY <1>1 DEF DuplicateBelow

LEMMA PresentHandled ==
  ASSUME NEW t, DOMAIN t = TableFields, NEW e, e.kind = "PRESENT_STOP", e.ts \in Int,
         NEW start \in Int, start <= e.ts,
         <<e.pid, e.tid>> \in DOMAIN t.present,
         t.present[<<e.pid, e.tid>>].start = start, t.present[<<e.pid, e.tid>>].chain = 1,
         \A k \in DOMAIN t.last : t.last[k] \in Int /\ 1 <= t.last[k] /\ t.last[k] <= start
  PROVE  LET h == Handle(t, e)
             chain == <<e.pid, 1>>
             gap == e.ts - (IF chain \in DOMAIN t.last THEN t.last[chain] ELSE e.ts)
         IN /\ h.tables = [t EXCEPT !.present = Drop(t.present, <<e.pid, e.tid>>),
                                    !.last = Put(t.last, chain, e.ts)]
            /\ gap \in Int
            /\ IF gap \in DuplicateBelow .. PAUSE
               THEN h.call = [fn |-> "PRESENT", pid |-> e.pid, tid |-> e.tid, dur |-> gap,
                              ts |-> e.ts, key |-> chain, core |-> e.core]
               ELSE h.call = NoCall
<1> DEFINE h == Handle(t, e)
           thread == <<e.pid, e.tid>>
           chain == <<e.pid, 1>>
           known == chain \in DOMAIN t.last
           previous == IF known THEN t.last[chain] ELSE 0
           delta == PresentDelta(e.ts, previous, start)
           gap == e.ts - (IF chain \in DOMAIN t.last THEN t.last[chain] ELSE e.ts)
           u == [t EXCEPT !.present = Drop(t.present, thread), !.last = Put(t.last, chain, e.ts)]
           c(d) == [fn |-> "PRESENT", pid |-> e.pid, tid |-> e.tid, dur |-> d,
                    ts |-> e.ts, key |-> chain, core |-> e.core]
<1>1. h = PresentStop(t, e)
  BY DEF Handle
<1>2. h.tables = u
      /\ h.call = IF delta.reset \/ delta.dur = 0 \/ delta.duplicate THEN NoCall ELSE c(delta.dur)
  BY <1>1 DEF PresentStop, Has, Handled
<1>3. /\ known => previous \in Int /\ 1 <= previous /\ previous <= start /\ gap = e.ts - previous
      /\ ~known => previous = 0 /\ gap = 0
  OBVIOUS
<1>4. PICK low \in 20 .. 30 : low = DuplicateBelow
  BY Duplicates
<1> DEFINE api == IF e.ts >= start THEN e.ts - start ELSE 0
           frame == e.ts - previous
           reset == api > PAUSE \/ previous = 0 \/ e.ts <= previous \/ frame > PAUSE
<1>5. /\ delta.dur = IF reset \/ api > frame THEN api ELSE frame
      /\ delta.reset = reset
      /\ delta.duplicate = (~reset /\ frame < low)
  BY <1>4 DEF PresentDelta
<1> HIDE DEF delta, known, previous, gap
<1>6. gap \in Int
  BY <1>3 DEF known, previous, gap
<1>7. CASE gap \in low .. PAUSE
  <2>1. known /\ ~reset /\ api <= frame /\ frame = gap /\ gap >= 20
    BY <1>3, <1>7 DEF PAUSE
  <2>2. delta.dur = gap /\ ~delta.reset /\ ~delta.duplicate
    <3>1. ~(api > frame) /\ ~(frame < low)
      BY <1>6, <1>7, <2>1, PAUSE \in Int DEF PAUSE
    <3> HIDE DEF api, frame, reset
    <3> QED
      BY <1>5, <2>1, <3>1
  <2> HIDE DEF c, h, u
  <2>3. h.call = c(gap)
    BY <1>2, <2>1, <2>2
  <2> QED
    BY <1>2, <1>4, <1>6, <1>7, <2>3 DEF c, h, u, gap
<1>8. CASE gap \notin low .. PAUSE
  <2>1. CASE ~known
    <3>1. reset
      BY <1>3, <2>1
    <3> QED
      BY <1>2, <1>4, <1>5, <1>6, <1>8, <3>1 DEF gap
  <2>2. CASE known
    <3>1. frame = gap
      BY <1>3, <2>2
    <3>2. reset \/ frame < low
      BY <1>3, <1>6, <1>8, <2>2, <3>1 DEF PAUSE
    <3> QED
      BY <1>2, <1>4, <1>5, <1>6, <1>8, <3>2 DEF gap
  <2> QED
    BY <2>1, <2>2
<1> QED
  BY <1>7, <1>8

-----------------------------------------------------------------------------
(* Incidents of an undisturbed session.                                    *)

(* Nobody moves the target.                                                *)
Settled ==
  /\ DOMAIN left = {"frames", "events", "losses", "restarts"} /\ left.restarts = 0
  /\ restart.pc = "IDLE"
  /\ DOMAIN engine = {"pid", "waiting", "observed", "lastDxgi", "attached", "suppressed"}
  /\ engine.pid = scene.target /\ ~engine.waiting
  /\ DOMAIN bench = BenchFields /\ bench.pid = scene.target

Heard(pid) == scene.target \in {0, pid}

(* No frame is older than time.                                            *)
Began ==
  /\ now \in Int /\ now >= 1
  /\ \A k \in DOMAIN beat : beat[k].last \in Int /\ beat[k].last >= 1
  /\ call.pc # "IDLE" => call.arg.ts \in Int /\ call.arg.ts >= 1

(* At most one Present is under way, and begun after all that ended.       *)
OnePresent ==
  /\ DOMAIN tables = TableFields
  /\ \A k \in DOMAIN tables.last : tables.last[k] \in 1 .. now
  /\ \A x \in DOMAIN tables.present :
       /\ x = <<x[1], Thread(x[1])>> /\ tables.present[x].chain = 1
       /\ \A y \in DOMAIN tables.present : x = y
       /\ tables.present[x].start \in Int /\ tables.present[x].start <= now
       /\ \A k \in DOMAIN tables.last : tables.last[k] <= tables.present[x].start

(* The engine goes on with frames of the target only; what is held is its. *)
CallsHeard ==
  call.pc # "IDLE" =>
    /\ {"pc", "arg"} \subseteq DOMAIN call
    /\ call.pc = "CALL" => call.arg.fn \in {"PRESENT", "AUDIO", "DWM"}
    /\ call.pc # "CALL" => call.arg.fn = "PRESENT" /\ Heard(call.arg.pid)
    /\ call.arg.fn = "DWM" => ~(call.arg.dur < DwmThreshold)

HeldHeard == held # NoTrigger => held.pid = 0 \/ Heard(held.pid)

CountersFit ==
  /\ DOMAIN bench.attr = AttrFields /\ CountersKnown(bench.attr) /\ engine.suppressed \in Nat

(* Of the glitches that count the table has the last.                      *)
GlitchTimes == {s.ts : s \in {x \in stalls : x.of = "glitch"}}
GlitchesKnown ==
  /\ tables.glitch \in Seq(Int) /\ GlitchTimes \subseteq Int
  /\ \/ tables.glitch = <<>> /\ GlitchTimes = {}
     \/ /\ 1 \in DOMAIN tables.glitch /\ tables.glitch[1] \in GlitchTimes
        /\ tables.glitch[1] <= now
        /\ \A i \in DOMAIN tables.glitch : tables.glitch[i] <= tables.glitch[1]
        /\ \A g \in GlitchTimes : g <= tables.glitch[1]

(* A call that will be an incident: all but frames of others, frames that  *)
(* are not late, those that end a pause, and glitches that nobody minds.   *)
EndsPause(c) == c.key \in DOMAIN beat /\ c.ts - beat[c.key].last >= PAUSE_CEILING
Due(c) ==
  IF \/ c.fn = "PRESENT"
        /\ ~(Heard(c.pid) /\ c.dur * TICK >= scene.cfg.static /\ ~EndsPause(c))
     \/ c.fn = "DWM" /\ ~Felt(c.missed, c.pid)
  THEN 0 ELSE 1

HeldOne == IF held = NoTrigger THEN 0 ELSE 1
DueNow == IF call.pc = "IDLE" THEN 0 ELSE Due(call.arg)
Balance == Tally(bench.attr) + engine.suppressed + HeldOne + DueNow
Accounted == incidents = Balance

Facts == Settled /\ Began /\ OnePresent /\ CallsHeard /\ HeldHeard /\ CountersFit
CountInv == Undisturbed => Facts /\ (~lost => GlitchesKnown /\ Accounted)

LEMMA BalanceInt ==
  ASSUME CountersFit
  PROVE  Tally(bench.attr) \in Nat /\ engine.suppressed \in Nat /\ HeldOne \in {0, 1}
         /\ DueNow \in {0, 1} /\ Balance \in Nat
  BY DEF CountersFit, CountersKnown, Tally, HeldOne, DueNow, Due, Balance

LEMMA IncidentsInt ==
  ASSUME Undisturbed, CountInv, ~lost
  PROVE  incidents \in Int
  BY BalanceInt DEF CountInv, Accounted, Facts

(* A step of the engine: time, tables and the world stand still.           *)
EngineStep ==
  /\ UNCHANGED <<scene, now, left, tables, lost, restart, stalls, incidents>>
  /\ DOMAIN engine' = DOMAIN engine /\ engine'.pid = engine.pid /\ engine'.waiting = engine.waiting
  /\ DOMAIN bench' = BenchFields /\ bench'.pid = bench.pid

LEMMA EngineKeeps ==
  ASSUME Undisturbed, CountInv, EngineStep, CallsHeard', HeldHeard', CountersFit',
         \A k \in DOMAIN beat' : beat'[k].last \in Int /\ beat'[k].last >= 1,
         call'.pc # "IDLE" => call.pc # "IDLE" /\ call'.arg = call.arg,
         Balance' = Balance
  PROVE  CountInv'
<1>1. Facts
  BY DEF CountInv
<1>2. Settled' /\ Began' /\ OnePresent'
  BY <1>1 DEF Facts, EngineStep, Settled, Began, OnePresent
<1>3. ~lost => (GlitchesKnown /\ Accounted)'
  <2>1. ~lost => GlitchesKnown /\ Accounted
    BY DEF CountInv
  <2>2. GlitchTimes' = GlitchTimes /\ tables' = tables /\ now' = now /\ incidents' = incidents
    BY DEF EngineStep, GlitchTimes
  <2> QED
    BY <2>1, <2>2 DEF GlitchesKnown, Accounted
<1>4. lost' = lost
  BY DEF EngineStep
<1> QED
  BY <1>2, <1>3, <1>4 DEF CountInv, Facts

(* A step of the world: an event comes while the consumer is idle.         *)
WorldCounts(e) ==
  /\ Deliver(e) \/ Lose(e)
  /\ e.ts \in Int /\ now <= e.ts /\ e.kind \in Kinds
  /\ DOMAIN left' = DOMAIN left /\ left'.restarts = left.restarts
  /\ UNCHANGED <<scene, beat>>

LEMMA WorldCounted ==
  ASSUME Undisturbed, CountInv, NEW e, WorldCounts(e)
  PROVE  /\ call.pc = "IDLE" /\ now' = e.ts /\ Settled' /\ HeldHeard' /\ CountersFit'
         /\ e.ts >= 1
         /\ \A k \in DOMAIN beat' : beat'[k].last \in Int /\ beat'[k].last >= 1
         /\ Tally(bench.attr)' = Tally(bench.attr) /\ engine' = engine /\ HeldOne' = HeldOne
         /\ DueNow = 0 /\ (call'.pc = "IDLE" => DueNow' = 0)
         /\ (Deliver(e) => lost' = lost) /\ (~Deliver(e) => lost' /\ UNCHANGED <<tables, call>>)
<1>1. Facts
  BY DEF CountInv
<1>2. call.pc = "IDLE" /\ now' = e.ts /\ UNCHANGED <<engine, pacing, held, bench, restart>>
  BY DEF WorldCounts, Deliver, Lose
<1>3. Settled' /\ HeldHeard' /\ CountersFit'
  BY <1>1, <1>2 DEF Facts, Settled, HeldHeard, Heard, CountersFit, WorldCounts
<1>4. /\ e.ts >= 1
      /\ \A k \in DOMAIN beat' : beat'[k].last \in Int /\ beat'[k].last >= 1
  BY <1>1 DEF Facts, Began, WorldCounts
<1>5. HeldOne' = HeldOne /\ Tally(bench.attr)' = Tally(bench.attr)
      /\ DueNow = 0 /\ (call'.pc = "IDLE" => DueNow' = 0)
  BY <1>2 DEF HeldOne, DueNow, Tally
<1>6. (Deliver(e) => lost' = lost) /\ (~Deliver(e) => lost' /\ UNCHANGED <<tables, call>>)
  BY DEF WorldCounts, Deliver, Lose
<1> QED
  BY <1>2, <1>3, <1>4, <1>5, <1>6

-----------------------------------------------------------------------------
(* The steps of the world count.                                           *)

(* Time goes on, and the tables of Presents and glitches stay.             *)
LEMMA ApartLater ==
  ASSUME OnePresent, now \in Int, now' \in Int, now <= now', Apart(tables, tables')
  PROVE  /\ OnePresent'
         /\ GlitchesKnown /\ GlitchTimes' = GlitchTimes => GlitchesKnown'
<1>1. /\ DOMAIN tables' = TableFields /\ tables'.present = tables.present
      /\ tables'.last = tables.last /\ tables'.glitch = tables.glitch
  BY DEF Apart
<1>2. OnePresent'
  BY <1>1 DEF OnePresent
<1>3. GlitchesKnown /\ GlitchTimes' = GlitchTimes => GlitchesKnown'
  BY <1>1 DEF GlitchesKnown
<1> QED
  BY <1>2, <1>3

LEMMA ApartSame ==
  ASSUME OnePresent, tables' = tables
  PROVE  Apart(tables, tables')
  BY DEF OnePresent, Apart

LEMMA LossCounted ==
  ASSUME Undisturbed, CountInv, NEW e, WorldCounts(e), ~Deliver(e)
  PROVE  CountInv'
<1>1. /\ call.pc = "IDLE" /\ now' = e.ts /\ Settled' /\ HeldHeard' /\ CountersFit' /\ e.ts >= 1
      /\ \A k \in DOMAIN beat' : beat'[k].last \in Int /\ beat'[k].last >= 1
      /\ lost' /\ UNCHANGED <<tables, call>>
  BY WorldCounted
<1>2. Facts /\ now <= e.ts /\ e.ts \in Int
  BY DEF CountInv, WorldCounts
<1>3. Began' /\ CallsHeard'
  BY <1>1, <1>2 DEF Began, CallsHeard
<1>4. OnePresent'
  BY <1>1, <1>2, ApartSame, ApartLater DEF Facts, Began
<1> QED
  BY <1>1, <1>3, <1>4 DEF CountInv, Facts

LEMMA ApartKeeps ==
  ASSUME Undisturbed, CountInv, NEW e, WorldCounts(e), Apart(tables, tables')
  PROVE  OnePresent' /\ (~lost /\ GlitchTimes' = GlitchTimes => GlitchesKnown')
<1>1. Facts /\ now \in Int /\ now' \in Int /\ now <= now' /\ (~lost => GlitchesKnown)
  BY WorldCounted DEF CountInv, Facts, Began, WorldCounts
<1> QED
  BY <1>1, ApartLater DEF Facts

(* An event that is no incident, and of which the engine does not hear.    *)
LEMMA NothingCounted ==
  ASSUME Undisturbed, CountInv, NEW e, WorldCounts(e), Deliver(e), OnePresent',
         call'.pc = "IDLE", ~lost => GlitchesKnown' /\ incidents' = incidents
  PROVE  CountInv'
<1>1. /\ call.pc = "IDLE" /\ now' = e.ts /\ Settled' /\ HeldHeard' /\ CountersFit' /\ e.ts >= 1
      /\ \A k \in DOMAIN beat' : beat'[k].last \in Int /\ beat'[k].last >= 1
      /\ Tally(bench.attr)' = Tally(bench.attr) /\ engine' = engine /\ HeldOne' = HeldOne
      /\ DueNow = 0 /\ DueNow' = 0 /\ lost' = lost
  BY WorldCounted
<1>2. Facts /\ e.ts \in Int /\ (~lost => Accounted)
  BY DEF CountInv, WorldCounts
<1>3. Began' /\ CallsHeard'
  BY <1>1, <1>2 DEF Began, CallsHeard
<1>4. Balance' = Balance
  BY <1>1 DEF Balance
<1>5. ~lost => Accounted'
  BY <1>2, <1>4 DEF Accounted
<1> QED
  BY <1>1, <1>3, <1>5 DEF CountInv, Facts

LEMMA Delivered ==
  ASSUME NEW e, Deliver(e)
  PROVE  LET h == Handle(tables, e) IN
         /\ tables' = h.tables
         /\ h.call.fn = "NONE" => call'.pc = "IDLE"
         /\ h.call.fn # "NONE" =>
              DOMAIN call' = {"pc", "arg"} /\ call'.pc = "CALL" /\ call'.arg = h.call
<1> DEFINE h == Handle(tables, e)
<1>1. tables' = h.tables
      /\ call' = IF h.call.fn = "NONE" THEN Idle ELSE [pc |-> "CALL", arg |-> h.call]
  BY DEF Deliver
<1> HIDE DEF h
<1>2. h.call.fn = "NONE" => call'.pc = "IDLE"
  BY <1>1 DEF Idle
<1>3. h.call.fn # "NONE" =>
        DOMAIN call' = {"pc", "arg"} /\ call'.pc = "CALL" /\ call'.arg = h.call
  BY <1>1
<1> QED
  BY <1>1, <1>2, <1>3 DEF h

LEMMA QuietCounted ==
  ASSUME Undisturbed, CountInv, NEW e, WorldCounts(e),
         e.kind \in QuietKinds \cup {"KERNEL_PRESENT"},
         GlitchTimes' = GlitchTimes, ~lost => incidents' = incidents
  PROVE  CountInv'
<1>1. CASE ~Deliver(e)
  BY <1>1, LossCounted
<1>2. CASE Deliver(e)
  <2> DEFINE h == Handle(tables, e)
  <2>1. Quietly(tables, h)
    BY QuietHandled DEF CountInv, Facts, OnePresent
  <2>2. h.call.fn = "NONE" /\ Apart(tables, h.tables)
    BY <2>1 DEF Quietly, NoCall
  <2>3. call'.pc = "IDLE" /\ tables' = h.tables
    <3>1. h.call.fn = "NONE"
      BY <2>2
    <3> QED
      BY <1>2, <3>1, Delivered
  <2> HIDE DEF h
  <2>4. Apart(tables, tables')
    BY <2>2, <2>3
  <2>5. OnePresent' /\ (~lost => GlitchesKnown')
    BY <2>4, ApartKeeps
  <2> QED
    BY <1>2, <2>3, <2>5, NothingCounted
<1> QED
  BY <1>1, <1>2

(* A call for an incident is under way.                                    *)
LEMMA OneMore ==
  ASSUME Undisturbed, CountInv, NEW e, WorldCounts(e), Deliver(e), OnePresent',
         NEW c, call'.pc = "CALL", call'.arg = c, DOMAIN call' = {"pc", "arg"},
         c.ts = e.ts, c.fn \in {"PRESENT", "AUDIO", "DWM"},
         c.fn = "DWM" => ~(c.dur < DwmThreshold),
         ~lost => GlitchesKnown', ~lost => incidents' = incidents + Due(c)
  PROVE  CountInv'
<1>1. /\ call.pc = "IDLE" /\ now' = e.ts /\ Settled' /\ HeldHeard' /\ CountersFit' /\ e.ts >= 1
      /\ \A k \in DOMAIN beat' : beat'[k].last \in Int /\ beat'[k].last >= 1
      /\ Tally(bench.attr)' = Tally(bench.attr) /\ engine' = engine /\ HeldOne' = HeldOne
      /\ DueNow = 0 /\ lost' = lost
  BY WorldCounted
<1>2. Facts /\ e.ts \in Int /\ (~lost => Accounted)
  BY DEF CountInv, WorldCounts
<1>3. Began' /\ CallsHeard'
  BY <1>1, <1>2 DEF Began, CallsHeard
<1>4. DueNow' = Due(c)
  <2>1. UNCHANGED <<scene, beat>>
    BY DEF WorldCounts
  <2>2. DueNow' = Due(call.arg)'
    BY DEF DueNow
  <2> QED
    BY <2>1, <2>2 DEF Due, Heard, Felt, EndsPause
<1>5. Balance' = Balance + Due(c)
  <2>1. Due(c) \in Int
    BY DEF Due
  <2>2. Tally(bench.attr) \in Nat /\ engine.suppressed \in Nat /\ HeldOne \in {0, 1}
    BY <1>2, BalanceInt DEF Facts
  <2>3. Balance' = Tally(bench.attr) + engine.suppressed + HeldOne + Due(c)
    BY <1>1, <1>4 DEF Balance
  <2> QED
    BY <1>1, <2>1, <2>2, <2>3 DEF Balance
<1>6. ~lost => Accounted'
  BY <1>2, <1>5 DEF Accounted
<1> QED
  BY <1>1, <1>3, <1>6 DEF CountInv, Facts

LEMMA AudioCounted ==
  ASSUME Undisturbed, CountInv, NEW e, WorldCounts(e), e.kind = "AUDIO",
         GlitchTimes' = GlitchTimes, incidents' = incidents + 1
  PROVE  CountInv'
<1>1. CASE ~Deliver(e)
  BY <1>1, LossCounted
<1>2. CASE Deliver(e)
  <2> DEFINE c == Handle(tables, e).call
  <2>1. Handle(tables, e).tables = tables /\ c.fn = "AUDIO" /\ c.ts = e.ts
    BY AudioHandled
  <2>2. tables' = tables /\ call'.pc = "CALL" /\ call'.arg = c /\ DOMAIN call' = {"pc", "arg"}
    BY <1>2, <2>1, Delivered
  <2> HIDE DEF c
  <2>3. Apart(tables, tables')
    BY <2>2, ApartSame DEF CountInv, Facts
  <2>4. OnePresent' /\ (~lost => GlitchesKnown')
    BY <2>3, ApartKeeps
  <2>5. Due(c) = 1
    BY <2>1 DEF Due
  <2> QED
    BY <1>2, <2>1, <2>2, <2>4, <2>5, OneMore
<1> QED
  BY <1>1, <1>2

(* The table of glitches is asked as the world is: only the last matters.  *)
LEMMA SameGlitches ==
  ASSUME GlitchesKnown, NEW ts \in Int, now \in Int, now <= ts
  PROVE  NewGlitch("DWM", ts) <=> ~GlitchAgain(tables, ts)
<1> DEFINE G == GlitchTimes
           g == tables.glitch
           Fresh == \A x \in G : ts - x >= DWM_DEDUP_WINDOW
<1>1. NewGlitch("DWM", ts) <=> Fresh
  BY DEF NewGlitch, GlitchTimes
<1>2. g \in Seq(Int) /\ G \subseteq Int
  BY DEF GlitchesKnown
<1>3. CASE g = <<>> /\ G = {}
  <2>1. DOMAIN g = {}
    BY <1>3
  <2>2. ~GlitchAgain(tables, ts)
    BY <2>1 DEF GlitchAgain
  <2> QED
    BY <1>1, <1>3, <2>2
<1>4. CASE /\ 1 \in DOMAIN g /\ g[1] \in G /\ g[1] <= now
           /\ \A i \in DOMAIN g : g[i] <= g[1]
           /\ \A x \in G : x <= g[1]
  <2>1. PICK last \in Int : last = g[1]
    BY <1>2, <1>4
  <2>2. \A i \in DOMAIN g : g[i] \in Int
    BY <1>2
  <2>3. Fresh <=> ts - last >= DWM_DEDUP_WINDOW
    <3> HIDE DEF G, g
    <3> QED
      BY <1>2, <1>4, <2>1 DEF DWM_DEDUP_WINDOW
  <2>4. GlitchAgain(tables, ts) <=> ts - last < DWM_DEDUP_WINDOW
    <3>1. GlitchAgain(tables, ts) <=>
            \E i \in DOMAIN g : ts - g[i] < DWM_DEDUP_WINDOW /\ -(ts - g[i]) < DWM_DEDUP_WINDOW
      BY DEF GlitchAgain
    <3>2. ASSUME ts - last < DWM_DEDUP_WINDOW PROVE GlitchAgain(tables, ts)
      <4>1. -(ts - last) < DWM_DEDUP_WINDOW
        BY <1>4, <2>1 DEF DWM_DEDUP_WINDOW
      <4> HIDE DEF g
      <4> QED
        BY <1>4, <2>1, <3>1, <3>2, <4>1
    <3>3. ASSUME NEW i \in DOMAIN g, ts - g[i] < DWM_DEDUP_WINDOW
          PROVE  ts - last < DWM_DEDUP_WINDOW
      <4>1. g[i] \in Int /\ g[i] <= last
        BY <1>4, <2>1, <2>2
      <4> HIDE DEF g
      <4> QED
        BY <3>3, <4>1 DEF DWM_DEDUP_WINDOW
    <3> HIDE DEF g
    <3> QED
      BY <3>1, <3>2, <3>3
  <2> HIDE DEF Fresh
  <2> QED
    BY <1>1, <2>3, <2>4 DEF DWM_DEDUP_WINDOW
<1> QED
  BY <1>3, <1>4 DEF GlitchesKnown

LEMMA NewestFirst ==
  ASSUME NEW g \in Seq(Int), NEW ts \in Int
  PROVE  LET f == <<ts>> \o SubSeq(g, 1, IF Len(g) < DWM_DEDUP_SLOTS THEN Len(g)
                                         ELSE DWM_DEDUP_SLOTS - 1)
         IN /\ f \in Seq(Int) /\ 1 \in DOMAIN f /\ f[1] = ts
            /\ \A i \in DOMAIN f : i # 1 => i - 1 \in DOMAIN g /\ f[i] = g[i - 1]
<1> DEFINE n == IF Len(g) < DWM_DEDUP_SLOTS THEN Len(g) ELSE DWM_DEDUP_SLOTS - 1
           h == SubSeq(g, 1, n)
<1>1. n \in Nat /\ n <= Len(g)
  BY HandlersAssumption
<1> HIDE DEF n
<1>2. h \in Seq(Int) /\ Len(h) = n /\ \A j \in 1 .. n : h[j] = g[j]
  BY <1>1
<1> HIDE DEF h
<1> DEFINE f == <<ts>> \o h
<1>3. f \in Seq(Int) /\ Len(f) = n + 1 /\ f[1] = ts
      /\ \A i \in 2 .. n + 1 : f[i] = h[i - 1]
  BY <1>1, <1>2
<1> HIDE DEF f
<1>4. DOMAIN f = 1 .. n + 1 /\ DOMAIN g = 1 .. Len(g)
  BY <1>3
<1>5. \A i \in DOMAIN f : i # 1 => i - 1 \in DOMAIN g /\ f[i] = g[i - 1]
  <2> SUFFICES ASSUME NEW i \in DOMAIN f, i # 1 PROVE i - 1 \in DOMAIN g /\ f[i] = g[i - 1]
    OBVIOUS
  <2>1. Len(g) \in Nat
    OBVIOUS
  <2>2. i \in 2 .. n + 1
    BY <1>1, <1>4
  <2>3. i - 1 \in 1 .. n /\ i - 1 \in 1 .. Len(g)
    BY <1>1, <2>1, <2>2
  <2> QED
    BY <1>2, <1>3, <1>4, <2>2, <2>3
<1>6. 1 \in DOMAIN f
  BY <1>1, <1>4
<1> QED
  BY <1>3, <1>5, <1>6 DEF f, h, n

LEMMA PresentsLater ==
  ASSUME OnePresent, now \in Int, now' \in Int, now <= now', DOMAIN tables' = TableFields,
         tables'.present = tables.present, tables'.last = tables.last
  PROVE  OnePresent'
  BY DEF OnePresent

LEMMA DwmCounted ==
  ASSUME Undisturbed, CountInv, NEW e, WorldCounts(e), e.kind = "DWM", e.size \in Int,
         GlitchTimes' = IF NewGlitch("DWM", e.ts) THEN GlitchTimes \cup {e.ts} ELSE GlitchTimes,
         ~lost => incidents' = incidents
                    + (IF NewGlitch("DWM", e.ts) /\ Felt(e.size, e.pid) THEN 1 ELSE 0)
  PROVE  CountInv'
<1>1. /\ Facts /\ now \in Int /\ now' = e.ts /\ e.ts \in Int /\ now <= e.ts
      /\ DOMAIN tables = TableFields
  BY WorldCounted DEF CountInv, Facts, Began, WorldCounts, OnePresent
<1>2. ~lost => (NewGlitch("DWM", e.ts) <=> ~GlitchAgain(tables, e.ts))
  BY <1>1, SameGlitches DEF CountInv
<1> DEFINE h == Handle(tables, e)
           g == tables.glitch
           f == <<e.ts>> \o SubSeq(g, 1, IF Len(g) < DWM_DEDUP_SLOTS THEN Len(g)
                                         ELSE DWM_DEDUP_SLOTS - 1)
<1>3. CASE ~Deliver(e)
  BY <1>3, LossCounted
<1>4. CASE Deliver(e) /\ GlitchAgain(tables, e.ts)
  <2>1. h.tables = tables /\ h.call.fn = "NONE"
    BY <1>1, <1>4, DwmHandled
  <2>2. tables' = tables /\ call'.pc = "IDLE"
    BY <1>4, <2>1, Delivered
  <2>3. Apart(tables, tables')
    BY <1>1, <2>2, ApartSame DEF Facts
  <2>4. ~lost => GlitchTimes' = GlitchTimes /\ incidents' = incidents
    BY <1>2, <1>4, IncidentsInt
  <2>5. OnePresent' /\ (~lost => GlitchesKnown')
    BY <2>3, <2>4, ApartKeeps
  <2> QED
    BY <1>4, <2>2, <2>4, <2>5, NothingCounted
<1>5. CASE Deliver(e) /\ ~GlitchAgain(tables, e.ts)
  <2> DEFINE c == h.call
  <2>1. /\ c.fn = "DWM" /\ c.ts = e.ts /\ h.tables = [tables EXCEPT !.glitch = f]
        /\ c.missed = e.size /\ c.pid = e.pid /\ ~(c.dur < DwmThreshold)
    BY <1>1, <1>5, DwmHandled
  <2>2. tables' = h.tables /\ call'.pc = "CALL" /\ call'.arg = c /\ DOMAIN call' = {"pc", "arg"}
    BY <1>5, <2>1, Delivered
  <2> HIDE DEF h, c, f
  <2>3. /\ DOMAIN tables' = TableFields /\ tables'.present = tables.present
        /\ tables'.last = tables.last /\ tables'.glitch = f
    BY <1>1, <2>1, <2>2 DEF TableFields
  <2>4. OnePresent'
    BY <1>1, <2>3, PresentsLater DEF Facts
  <2>5. ASSUME ~lost PROVE GlitchesKnown'
    <3>1. GlitchTimes' = GlitchTimes \cup {e.ts} /\ GlitchesKnown
      BY <1>2, <1>5, <2>5 DEF CountInv
    <3>2. /\ f \in Seq(Int) /\ 1 \in DOMAIN f /\ f[1] = e.ts
          /\ \A i \in DOMAIN f : i # 1 => i - 1 \in DOMAIN g /\ f[i] = g[i - 1]
      <4>1. g \in Seq(Int)
        BY <3>1 DEF GlitchesKnown
      <4> HIDE DEF g
      <4> QED
        BY <1>1, <4>1, NewestFirst DEF f
    <3>3. \A i \in DOMAIN g : g[i] \in Int /\ g[i] <= e.ts
      BY <1>1, <3>1 DEF GlitchesKnown
    <3>4. \A x \in GlitchTimes : x \in Int /\ x <= e.ts
      BY <1>1, <3>1 DEF GlitchesKnown
    <3>5. \A i \in DOMAIN f : f[i] <= f[1]
      <4> HIDE DEF g
      <4> QED
        BY <1>1, <3>2, <3>3
    <3> QED
      BY <1>1, <2>3, <3>1, <3>2, <3>4, <3>5 DEF GlitchesKnown
  <2>6. Due(c) = IF Felt(e.size, e.pid) THEN 1 ELSE 0
    BY <2>1 DEF Due
  <2>7. ~lost => incidents' = incidents + Due(c)
    BY <1>2, <1>5, <2>6
  <2> QED
    BY <1>5, <2>1, <2>2, <2>4, <2>5, <2>7, OneMore
<1> QED
  BY <1>3, <1>4, <1>5

(* A Present begins while none is under way.                               *)
LEMMA BeginsCounted ==
  ASSUME WorldOK, Undisturbed, CountInv, PresentBegins
  PROVE  CountInv'
<1>1. PICK d \in scene.frameDelays, pid \in scene.presenters :
        Deliver([Raw("PRESENT_START", pid, now + d) EXCEPT !.key = 1])
  BY DEF PresentBegins
<1> DEFINE e == [Raw("PRESENT_START", pid, now + d) EXCEPT !.key = 1]
           thread == <<pid, Thread(pid)>>
           v == [start |-> now + d, chain |-> 1]
<1>2. UNCHANGED <<scene, left, stalls, incidents, beat>> /\ tables.present = <<>>
  BY DEF PresentBegins, world
<1>3. Facts /\ now \in Int /\ d \in Nat
  BY ScenarioAssumption DEF WorldOK, CountInv, Facts, Began
<1>4. e.kind = "PRESENT_START" /\ e.pid = pid /\ e.tid = Thread(pid) /\ e.ts = now + d /\ e.key = 1
  BY DEF Raw
<1>5. Deliver(e)
  BY <1>1
<1> HIDE DEF e
<1>6. WorldCounts(e)
  BY <1>2, <1>3, <1>4, <1>5 DEF WorldCounts, Kinds, FrameKinds
<1> DEFINE h == Handle(tables, e)
<1>7. h = Silent([tables EXCEPT !.present = Put(tables.present, thread, v)])
  BY <1>4 DEF Handle, PresentStart
<1>8. h.call.fn = "NONE" /\ h.tables = [tables EXCEPT !.present = Put(tables.present, thread, v)]
  BY <1>7 DEF Silent, Handled, NoCall
<1>9. tables' = h.tables /\ call'.pc = "IDLE"
  BY <1>5, <1>8, Delivered
<1> HIDE DEF h
<1>10. /\ DOMAIN tables' = TableFields /\ tables'.last = tables.last
       /\ tables'.glitch = tables.glitch /\ tables'.present = Put(tables.present, thread, v)
  BY <1>3, <1>8, <1>9 DEF Facts, OnePresent, TableFields
<1>11. DOMAIN tables'.present = {thread} /\ tables'.present[thread] = v
  BY <1>2, <1>10 DEF Put
<1>12. now' = now + d
  BY <1>4, <1>6, WorldCounted
<1>13. OnePresent'
  <2>1. \A k \in DOMAIN tables.last : tables.last[k] \in 1 .. now
    BY <1>3 DEF Facts, OnePresent
  <2>2. \A k \in DOMAIN tables.last : tables.last[k] \in 1 .. now + d
    BY <1>3, <2>1
  <2> HIDE DEF thread
  <2>3. v.start = now + d /\ v.chain = 1
    OBVIOUS
  <2>4. thread = <<thread[1], Thread(thread[1])>>
    BY DEF thread
  <2> HIDE DEF v
  <2> QED
    BY <1>3, <1>10, <1>11, <1>12, <2>2, <2>3, <2>4 DEF OnePresent
<1>14. ~lost => GlitchesKnown'
  <2>1. ~lost => GlitchesKnown
    BY DEF CountInv
  <2>2. GlitchTimes' = GlitchTimes
    BY <1>2 DEF GlitchTimes
  <2> QED
    BY <1>3, <1>10, <1>12, <2>1, <2>2 DEF GlitchesKnown
<1> QED
  BY <1>2, <1>5, <1>6, <1>9, <1>13, <1>14, NothingCounted

(* A Present ends, and the engine hears of it if it may be late.           *)
LEMMA EndsCounted ==
  ASSUME WorldOK, Undisturbed, CountInv, PresentEnds
  PROVE  CountInv'
<1> DEFINE Gap(chain) == now - (IF chain \in DOMAIN tables.last THEN tables.last[chain] ELSE now)
<1>1. PICK thread \in DOMAIN tables.present :
        /\ Deliver([Raw("PRESENT_STOP", thread[1], now) EXCEPT !.key = 1])
        /\ left' = [left EXCEPT !.frames = @ - 1]
        /\ incidents' = incidents
             + (IF Late(thread[1], <<thread[1], 1>>, Gap(<<thread[1], 1>>)) THEN 1 ELSE 0)
        /\ UNCHANGED <<scene, stalls, beat>>
  BY DEF PresentEnds
<1> DEFINE pid == thread[1]
           chain == <<pid, 1>>
           gap == Gap(chain)
           e == [Raw("PRESENT_STOP", pid, now) EXCEPT !.key = 1]
<1>2. /\ Facts /\ now \in Int /\ now >= 1 /\ DOMAIN tables = TableFields
      /\ thread = <<pid, Thread(pid)>> /\ tables.present[thread].chain = 1
      /\ \A y \in DOMAIN tables.present : y = thread
      /\ tables.present[thread].start \in Int /\ tables.present[thread].start <= now
      /\ \A k \in DOMAIN tables.last : /\ tables.last[k] \in 1 .. now
                                      /\ tables.last[k] <= tables.present[thread].start
  BY DEF CountInv, Facts, Began, OnePresent
<1>3. e.kind = "PRESENT_STOP" /\ e.pid = pid /\ e.tid = Thread(pid) /\ e.ts = now
  BY DEF Raw
<1>4. Deliver(e)
  BY <1>1
<1> HIDE DEF e
<1>5. DOMAIN left' = DOMAIN left /\ left'.restarts = left.restarts
  BY <1>1, <1>2 DEF Facts, Settled
<1>6. WorldCounts(e)
  BY <1>1, <1>2, <1>3, <1>4, <1>5 DEF WorldCounts, Kinds, FrameKinds
<1>7. <<e.pid, e.tid>> = thread
  BY <1>2, <1>3
<1> DEFINE h == Handle(tables, e)
           c == [fn |-> "PRESENT", pid |-> e.pid, tid |-> e.tid, dur |-> gap, ts |-> e.ts,
                 key |-> chain, core |-> e.core]
<1>8. /\ h.tables = [tables EXCEPT !.present = Drop(tables.present, thread),
                                   !.last = Put(tables.last, chain, now)]
      /\ gap \in Int
      /\ IF gap \in DuplicateBelow .. PAUSE THEN h.call = c ELSE h.call = NoCall
  <2> DEFINE start == tables.present[thread].start
  <2>1. start \in Int /\ start <= e.ts
        /\ \A k \in DOMAIN tables.last :
             tables.last[k] \in Int /\ 1 <= tables.last[k] /\ tables.last[k] <= start
    BY <1>2, <1>3
  <2>2. <<e.pid, e.tid>> \in DOMAIN tables.present /\ tables.present[<<e.pid, e.tid>>].start = start
        /\ tables.present[<<e.pid, e.tid>>].chain = 1
    BY <1>2, <1>7
  <2> HIDE DEF start
  <2> DEFINE H == Handle(tables, e)
             ch == <<e.pid, 1>>
             gp == e.ts - (IF ch \in DOMAIN tables.last THEN tables.last[ch] ELSE e.ts)
  <2>3. /\ H.tables = [tables EXCEPT !.present = Drop(tables.present, <<e.pid, e.tid>>),
                                      !.last = Put(tables.last, ch, e.ts)]
        /\ gp \in Int
        /\ IF gp \in DuplicateBelow .. PAUSE
           THEN H.call = [fn |-> "PRESENT", pid |-> e.pid, tid |-> e.tid, dur |-> gp,
                          ts |-> e.ts, key |-> ch, core |-> e.core]
           ELSE H.call = NoCall
    BY <1>2, <1>3, <2>1, <2>2, PresentHandled
  <2>4. ch = chain /\ gp = gap
    BY <1>3
  <2> HIDE DEF H, ch, gp, gap, chain
  <2> QED
    BY <1>3, <1>7, <2>3, <2>4 DEF H
<1> HIDE DEF h
<1>9. tables' = h.tables
  BY <1>4, Delivered DEF h
<1>10. /\ DOMAIN tables' = TableFields /\ tables'.glitch = tables.glitch
       /\ tables'.present = Drop(tables.present, thread)
       /\ tables'.last = Put(tables.last, chain, now)
  BY <1>2, <1>8, <1>9 DEF TableFields
<1>11. now' = now
  BY <1>3, <1>6, WorldCounted
<1>12. OnePresent'
  <2>1. DOMAIN tables'.present = {}
    BY <1>2, <1>10 DEF Drop, Restrict
  <2>2. \A k \in DOMAIN tables'.last : tables'.last[k] \in 1 .. now
    BY <1>2, <1>10 DEF Put
  <2> QED
    BY <1>10, <1>11, <2>1, <2>2 DEF OnePresent
<1>13. ~lost => GlitchesKnown'
  <2>1. ~lost => GlitchesKnown
    BY DEF CountInv
  <2>2. GlitchTimes' = GlitchTimes
    BY <1>1 DEF GlitchTimes
  <2> QED
    BY <1>10, <1>11, <2>1, <2>2 DEF GlitchesKnown
<1>14. CASE gap \in DuplicateBelow .. PAUSE
  <2>1. h.call = c
    BY <1>8, <1>14
  <2>2. c.fn = "PRESENT" /\ c.pid = pid /\ c.dur = gap /\ c.ts = now /\ c.key = chain
    BY <1>3
  <2>3. Due(c) = IF Late(pid, chain, gap) THEN 1 ELSE 0
    <3> HIDE DEF c, gap, chain, pid
    <3> QED
      BY <1>14, <2>2 DEF Due, Late, Heard, EndsPause
  <2> HIDE DEF c
  <2>4. call'.pc = "CALL" /\ call'.arg = c /\ DOMAIN call' = {"pc", "arg"}
    BY <1>4, <2>1, <2>2, Delivered DEF h
  <2>5. incidents' = incidents + Due(c)
    BY <1>1, <2>3
  <2> QED
    BY <1>3, <1>4, <1>6, <1>12, <1>13, <2>2, <2>4, <2>5, OneMore
<1>15. CASE gap \notin DuplicateBelow .. PAUSE
  <2>1. h.call.fn = "NONE"
    BY <1>8, <1>15 DEF NoCall
  <2>2. call'.pc = "IDLE"
    BY <1>4, <2>1, Delivered DEF h
  <2>3. ~Late(pid, chain, gap)
    BY <1>15 DEF Late
  <2>4. ~lost => incidents' = incidents
    <3>1. ~lost => incidents \in Int
      BY <1>2, BalanceInt DEF CountInv, Accounted, Facts
    <3> QED
      BY <1>1, <2>3, <3>1
  <2> QED
    BY <1>4, <1>6, <1>12, <1>13, <2>2, <2>4, NothingCounted
<1> QED
  BY <1>14, <1>15

LEMMA HappensCounted ==
  ASSUME WorldOK, Undisturbed, CountInv, NEW d \in Nat, NEW e, e.ts = now + d,
         e.kind \in Kinds, Happens(e), UNCHANGED <<scene, beat>>
  PROVE  WorldCounts(e)
<1>1. now \in Int /\ DOMAIN left = {"frames", "events", "losses", "restarts"}
  BY DEF CountInv, Facts, Began, Settled
<1>2. DOMAIN left' = DOMAIN left /\ left'.restarts = left.restarts
  BY <1>1 DEF Happens
<1>3. Deliver(e) \/ Lose(e)
  BY DEF Happens
<1> QED
  BY <1>1, <1>2, <1>3 DEF WorldCounts

(* Of all that happens only a glitch of the compositor is one.             *)
LEMMA StallsAreNone ==
  ASSUME NEW kind, NEW pid, NEW big, NEW from, NEW to, NEW x \in Stall(kind, pid, big, from, to)
  PROVE  x.of # "glitch"
<1> DEFINE S(h, p, d, n) == {[of |-> h, pid |-> p, ts |-> to, dur |-> d, size |-> n]}
           all == Stall(kind, pid, big, from, to)
<1>1. all = {} \/ \E h \in StallHypotheses : \E p, d, n : all = S(h, p, d, n)
  BY DEF Stall, StallHypotheses
<1>2. \A h \in StallHypotheses : h # "glitch"
  BY DEF StallHypotheses
<1> HIDE DEF all
<1>3. x \in all
  BY DEF all
<1> QED
  BY <1>1, <1>2, <1>3

LEMMA SameTimes ==
  ASSUME NEW X, stalls' = stalls \cup X, \A x \in X : x.of # "glitch"
  PROVE  GlitchTimes' = GlitchTimes
  BY DEF GlitchTimes

LEMMA SpansCounted ==
  ASSUME WorldOK, Undisturbed, CountInv, BeginSpan \/ EndSpan
  PROVE  CountInv'
<1>1. scene.delays \subseteq Nat
  BY ScenarioAssumption DEF WorldOK
<1>2. CASE BeginSpan
  <2>1. PICK d \in scene.delays, kind \in scene.kinds \cap SpanKinds, pid \in scene.pids :
          /\ Happens(SpanStart(kind, pid, now + d))
          /\ stalls' = stalls \cup
               (IF kind # "PREEMPTION" THEN {}
                ELSE {[of |-> "switch_out", pid |-> pid, ts |-> now + d, dur |-> 0, size |-> 0]})
          /\ UNCHANGED <<scene, incidents, beat>>
    BY <1>2 DEF BeginSpan
  <2> DEFINE ts == now + d
             e == SpanStart(kind, pid, ts)
  <2>2. e.kind \in QuietKinds /\ e.ts = ts
    <3> HIDE DEF ts
    <3> QED
      BY SpanKnown
  <2>3. Happens(e)
    BY <2>1
  <2>4. GlitchTimes' = GlitchTimes
    <3> DEFINE out == [of |-> "switch_out", pid |-> pid, ts |-> ts, dur |-> 0, size |-> 0]
               X == IF kind # "PREEMPTION" THEN {} ELSE {out}
    <3>1. out.of # "glitch"
      OBVIOUS
    <3>2. stalls' = stalls \cup X
      BY <2>1
    <3> HIDE DEF out
    <3>3. \A x \in X : x.of # "glitch"
      BY <3>1
    <3> HIDE DEF X
    <3> QED
      BY <3>2, <3>3, SameTimes
  <2> HIDE DEF e
  <2>5. WorldCounts(e)
    BY <1>1, <2>1, <2>2, <2>3, HappensCounted DEF Kinds
  <2> QED
    BY <2>1, <2>2, <2>4, <2>5, QuietCounted
<1>3. CASE EndSpan
  <2>1. PICK d \in scene.delays, s \in open :
          /\ Happens(SpanStop(s.kind, s.pid, now + d))
          /\ stalls' = stalls \cup Stall(s.kind, s.pid, FALSE, s.from, now + d)
          /\ UNCHANGED <<scene, incidents, beat>>
    BY <1>3 DEF EndSpan
  <2> DEFINE ts == now + d
             e == SpanStop(s.kind, s.pid, ts)
  <2>2. e.kind \in QuietKinds /\ e.ts = ts
    <3> HIDE DEF ts
    <3> QED
      BY SpanKnown DEF WorldOK
  <2>3. Happens(e)
    BY <2>1
  <2>4. GlitchTimes' = GlitchTimes
    <3> DEFINE others == Stall(s.kind, s.pid, FALSE, s.from, ts)
    <3>1. \A x \in others : x.of # "glitch"
      BY StallsAreNone
    <3>2. stalls' = stalls \cup others
      BY <2>1
    <3> HIDE DEF others
    <3> QED
      BY <3>1, <3>2, SameTimes
  <2> HIDE DEF e
  <2>5. WorldCounts(e)
    BY <1>1, <2>1, <2>2, <2>3, HappensCounted DEF Kinds
  <2> QED
    BY <2>1, <2>2, <2>4, <2>5, QuietCounted
<1> QED
  BY <1>2, <1>3

LEMMA PointsCounted ==
  ASSUME WorldOK, Undisturbed, CountInv, PointEvent
  PROVE  CountInv'
<1>1. scene.delays \subseteq Nat
  BY ScenarioAssumption DEF WorldOK
<1>2. PICK d \in scene.delays, kind \in scene.kinds \cap PointKinds, pid \in scene.pids,
           big \in BOOLEAN :
        /\ Happens(Point(kind, pid, big, now + d))
        /\ stalls' = stalls \cup Stall(kind, pid, big, now + d, now + d)
             \cup (IF NewGlitch(kind, now + d)
                   THEN {[of |-> "glitch", pid |-> 0, ts |-> now + d, dur |-> 0, size |-> 0]}
                   ELSE {})
        /\ LET e == Point(kind, pid, big, now + d) IN
             incidents' = incidents
               + (IF kind = "AUDIO" \/ (NewGlitch(kind, now + d) /\ Felt(e.size, e.pid))
                  THEN 1 ELSE 0)
        /\ UNCHANGED <<scene, beat>>
  BY DEF PointEvent
<1> DEFINE ts == now + d
           e == Point(kind, pid, big, ts)
           new == NewGlitch(kind, ts)
           felt == Felt(e.size, e.pid)
<1>3. e.ts = ts /\ e.kind = kind /\ kind \in Kinds /\ (kind = "DWM" => e.size \in Int)
  <2> HIDE DEF ts
  <2> QED
    BY PointKnown
<1>4. Happens(e) /\ incidents' = incidents + (IF kind = "AUDIO" \/ (new /\ felt) THEN 1 ELSE 0)
  BY <1>2
<1> HIDE DEF e
<1>5. WorldCounts(e)
  BY <1>1, <1>2, <1>3, <1>4, HappensCounted
<1>6. GlitchTimes' = IF new THEN GlitchTimes \cup {ts} ELSE GlitchTimes
  <2> DEFINE others == Stall(kind, pid, big, ts, ts)
             g == [of |-> "glitch", pid |-> 0, ts |-> ts, dur |-> 0, size |-> 0]
  <2>1. stalls' = stalls \cup others \cup (IF new THEN {g} ELSE {})
    BY <1>2
  <2>2. \A x \in others : x.of # "glitch"
    BY StallsAreNone
  <2>3. g.of = "glitch" /\ g.ts = ts
    OBVIOUS
  <2> HIDE DEF others, g, new, ts
  <2> QED
    BY <2>1, <2>2, <2>3 DEF GlitchTimes
<1>7. incidents' = incidents + (IF kind = "AUDIO" \/ (new /\ felt) THEN 1 ELSE 0)
  BY <1>4
<1>8. new => kind = "DWM"
  BY DEF NewGlitch
<1>9. ~lost => incidents \in Int
  BY IncidentsInt
<1>10. CASE kind = "DWM"
  <2>1. /\ GlitchTimes' = IF NewGlitch("DWM", e.ts) THEN GlitchTimes \cup {e.ts} ELSE GlitchTimes
        /\ ~lost => incidents' = incidents
                      + (IF NewGlitch("DWM", e.ts) /\ Felt(e.size, e.pid) THEN 1 ELSE 0)
    <3>1. new <=> NewGlitch("DWM", e.ts)
      BY <1>3, <1>10
    <3> HIDE DEF new, ts
    <3> QED
      BY <1>3, <1>6, <1>7, <1>9, <1>10, <3>1
  <2> QED
    BY <1>3, <1>5, <1>10, <2>1, DwmCounted
<1>11. CASE kind # "DWM"
  <2>1. GlitchTimes' = GlitchTimes
    BY <1>6, <1>8, <1>11
  <2>2. CASE kind = "AUDIO"
    BY <1>3, <1>5, <1>7, <2>1, <2>2, AudioCounted
  <2>3. CASE kind # "AUDIO"
    <3>1. e.kind \in QuietKinds \cup {"KERNEL_PRESENT"}
      BY <1>3, <1>11, <2>3 DEF PointKinds, QuietKinds
    <3>2. ~lost => incidents' = incidents
      BY <1>7, <1>8, <1>9, <1>11, <2>3
    <3> QED
      BY <1>5, <2>1, <3>1, <3>2, QuietCounted
  <2> QED
    BY <2>2, <2>3
<1> QED
  BY <1>10, <1>11

LEMMA WorldKeepsCount ==
  ASSUME WorldOK, Undisturbed, CountInv,
         BeginSpan \/ EndSpan \/ PointEvent \/ PresentBegins \/ PresentEnds \/ FlipHappens
  PROVE  CountInv'
<1>1. ~FlipHappens
  BY DEF FlipHappens, Undisturbed
<1> QED
  BY <1>1, SpansCounted, PointsCounted, BeginsCounted, EndsCounted

-----------------------------------------------------------------------------
(* The steps of the engine count.                                          *)

(* What the engine does to the benchmark leaves its target.                *)
LEMMA BenchSettled ==
  ASSUME CountInv, Undisturbed, SameFrames(bench, bench')
  PROVE  DOMAIN bench' = BenchFields /\ bench'.pid = bench.pid
  BY DEF CountInv, Facts, Settled, SameFrames

LEMMA CountersSame ==
  ASSUME CountInv, Undisturbed, Counts(bench, bench', 0), SameReports(bench, bench'),
         engine'.suppressed = engine.suppressed
  PROVE  CountersFit' /\ Tally(bench.attr)' = Tally(bench.attr)
<1>1. CountersFit
  BY DEF CountInv, Facts
<1>2. Tally(bench.attr) \in Nat
  BY <1>1, BalanceInt
<1> QED
  BY <1>1, <1>2 DEF CountersFit, Counts, SameReports

(* on_dxgi_present: the target's frame goes on, another's is no incident.  *)
LEMMA DxgiCounted ==
  ASSUME Undisturbed, CountInv, OnDxgiPresent
  PROVE  CountInv'
<1> DEFINE c == call.arg
<1>1. /\ call.pc = "CALL" /\ c.fn = "PRESENT" /\ Facts
      /\ UNCHANGED <<scene, now, left, tables, lost, restart, stalls, incidents, held, beat>>
      /\ DOMAIN engine = {"pid", "waiting", "observed", "lastDxgi", "attached", "suppressed"}
      /\ DOMAIN bench = BenchFields /\ DOMAIN bench.attr = AttrFields
  BY DEF OnDxgiPresent, Calls, world, CountInv, Facts, Settled, CountersFit
<1>2. ShouldTriggerOn(c.pid) <=> Heard(c.pid)
  BY <1>1 DEF ShouldTriggerOn, Heard, Facts, Settled
<1>3. \A k \in DOMAIN beat' : beat'[k].last \in Int /\ beat'[k].last >= 1
  BY <1>1 DEF Facts, Began
<1>4. CASE Heard(c.pid)
  <2>1. /\ engine' = [engine EXCEPT !.observed = TRUE, !.lastDxgi = c.ts]
        /\ bench' = CountPause(bench, c.dur) /\ IngestFrame
    BY <1>2, <1>4 DEF OnDxgiPresent
  <2>2. SameFrames(bench, bench')
    BY <1>1, <2>1, OtherFields
  <2>3. SameReports(bench, bench') /\ Counts(bench, bench', 0)
    BY <1>1, <2>1, CountsNothing, CountsSame
  <2>4. DOMAIN engine' = DOMAIN engine /\ engine'.pid = engine.pid
        /\ engine'.waiting = engine.waiting /\ engine'.suppressed = engine.suppressed
    BY <1>1, <2>1
  <2>5. /\ call'.pc \in {"STAMPED", "EVALUATE"} /\ call'.arg = c
        /\ {"pc", "arg"} \subseteq DOMAIN call'
    BY <2>1 DEF IngestFrame, Hand
  <2>6. EngineStep
    BY <1>1, <2>2, <2>4, BenchSettled DEF EngineStep
  <2>7. CountersFit' /\ Tally(bench.attr)' = Tally(bench.attr)
    BY <2>3, <2>4, CountersSame
  <2>8. CallsHeard' /\ HeldHeard'
    BY <1>1, <1>4, <2>5 DEF CallsHeard, HeldHeard, Heard, Facts
  <2>9. DueNow' = DueNow
    <3>1. DueNow = Due(c) /\ DueNow' = Due(c)'
      BY <1>1, <2>5 DEF DueNow
    <3>2. call'.arg = call.arg /\ scene' = scene /\ beat' = beat
      BY <1>1, <2>5
    <3> QED
      BY <3>1, <3>2 DEF Due, Heard, Felt, EndsPause
  <2>10. Balance' = Balance
    BY <1>1, <2>4, <2>7, <2>9 DEF Balance, HeldOne
  <2> QED
    BY <1>1, <1>3, <2>5, <2>6, <2>7, <2>8, <2>10, EngineKeeps
<1>5. CASE ~Heard(c.pid)
  <2>1. call'.pc = "IDLE" /\ UNCHANGED <<engine, bench>>
    BY <1>2, <1>5 DEF OnDxgiPresent, Return, Idle
  <2>2. EngineStep
    BY <1>1, <2>1 DEF EngineStep
  <2>3. CallsHeard' /\ HeldHeard' /\ CountersFit'
    BY <1>1, <2>1 DEF CallsHeard, HeldHeard, Heard, CountersFit, Facts
  <2>4. DueNow = 0 /\ DueNow' = 0
    BY <1>1, <1>5, <2>1 DEF DueNow, Due
  <2>5. Balance' = Balance
    BY <1>1, <2>1, <2>4 DEF Balance, HeldOne
  <2> QED
    BY <1>3, <2>1, <2>2, <2>3, <2>5, EngineKeeps
<1> QED
  BY <1>4, <1>5

(* The two steps by which a frame enters the ring.                         *)
LEMMA IngestCounted ==
  ASSUME Undisturbed, CountInv, ClaimTicket \/ WriteFrame
  PROVE  CountInv'
<1>1. /\ call.pc \in {"STAMPED", "CLAIMED"} /\ Facts
      /\ UNCHANGED <<scene, now, left, tables, lost, restart, stalls, incidents, held, beat,
                     engine>>
      /\ DOMAIN bench = BenchFields /\ DOMAIN bench.attr = AttrFields
  BY DEF ClaimTicket, WriteFrame, world, CountInv, Facts, Settled, CountersFit
<1>2. \/ call' = [call EXCEPT !.pc = "CLAIMED", !.ticket = bench.head]
      \/ call' = [call EXCEPT !.pc = "EVALUATE"]
  BY DEF ClaimTicket, WriteFrame
<1>3. {"pc", "arg"} \subseteq DOMAIN call /\ call.arg.fn = "PRESENT" /\ Heard(call.arg.pid)
  BY <1>1 DEF Facts, CallsHeard
<1>4. call'.pc \in {"CLAIMED", "EVALUATE"} /\ call'.arg = call.arg
      /\ {"pc", "arg"} \subseteq DOMAIN call'
  BY <1>2, <1>3
<1>5. bench'.attr = bench.attr
  BY <1>1, CountsNothing DEF ClaimTicket, WriteFrame
<1>6. DOMAIN bench' = BenchFields /\ bench'.pid = bench.pid
  BY <1>1 DEF ClaimTicket, WriteFrame, ClaimFrame, PublishFrame, BenchFields
<1>7. EngineStep
  BY <1>1, <1>6 DEF EngineStep
<1>8. CallsHeard' /\ HeldHeard' /\ CountersFit'
  BY <1>1, <1>3, <1>4, <1>5 DEF CallsHeard, HeldHeard, Heard, CountersFit, Facts
<1>9. DueNow' = DueNow
  <2>1. DueNow = Due(call.arg) /\ DueNow' = Due(call.arg)'
    BY <1>1, <1>4 DEF DueNow
  <2>2. call'.arg = call.arg /\ scene' = scene /\ beat' = beat
    BY <1>1, <1>4
  <2> QED
    BY <2>1, <2>2 DEF Due, Heard, Felt, EndsPause
<1>10. Balance' = Balance
  BY <1>1, <1>5, <1>9 DEF Balance, HeldOne, Tally
<1>11. \A k \in DOMAIN beat' : beat'[k].last \in Int /\ beat'[k].last >= 1
  BY <1>1 DEF Facts, Began
<1> QED
  BY <1>1, <1>4, <1>7, <1>8, <1>10, <1>11, EngineKeeps

(* A call that is over has been counted once: by the benchmark, or because *)
(* its trigger is held or suppressed, unless nothing was due.              *)
LEMMA CallCounted ==
  ASSUME Undisturbed, CountInv, EngineStep, CountersFit', HeldHeard', call'.pc = "IDLE",
         \A k \in DOMAIN beat' : beat'[k].last \in Int /\ beat'[k].last >= 1,
         Tally(bench.attr)' + engine'.suppressed + HeldOne'
           = Tally(bench.attr) + engine.suppressed + HeldOne + DueNow
  PROVE  CountInv'
<1>1. DueNow' = 0
  BY DEF DueNow
<1>2. Balance' = Tally(bench.attr)' + engine'.suppressed + HeldOne'
  <2>1. CountersFit' => Tally(bench.attr)' \in Nat /\ engine'.suppressed \in Nat
    BY DEF CountersFit, CountersKnown, Tally
  <2>2. HeldOne' \in {0, 1}
    BY DEF HeldOne
  <2> QED
    BY <1>1, <2>1, <2>2 DEF Balance
<1>3. Balance' = Balance
  BY <1>2 DEF Balance
<1>4. CallsHeard'
  BY DEF CallsHeard
<1> QED
  BY <1>3, <1>4, EngineKeeps

(* A trigger of the target that is taken is held or suppressed.            *)
LEMMA HoldCounted ==
  ASSUME Undisturbed, CountInv, NEW t, Hold(t), t # NoTrigger,
         t.pid = 0 \/ Heard(t.pid), bench'.attr = bench.attr, UNCHANGED scene
  PROVE  /\ CountersFit' /\ HeldHeard'
         /\ DOMAIN engine' = DOMAIN engine /\ engine'.pid = engine.pid
         /\ engine'.waiting = engine.waiting
         /\ Tally(bench.attr)' = Tally(bench.attr)
         /\ engine'.suppressed + HeldOne' = engine.suppressed + HeldOne + 1
<1>1. /\ DOMAIN engine = {"pid", "waiting", "observed", "lastDxgi", "attached", "suppressed"}
      /\ CountersFit /\ HeldHeard
  BY DEF CountInv, Facts, Settled
<1>2. engine.suppressed \in Nat
  BY <1>1 DEF CountersFit
<1>3. CASE held = NoTrigger /\ held' = t /\ UNCHANGED engine
  BY <1>1, <1>2, <1>3 DEF CountersFit, HeldHeard, Heard, HeldOne, Tally
<1>4. CASE held # NoTrigger /\ engine' = [engine EXCEPT !.suppressed = @ + 1] /\ UNCHANGED held
  <2>1. /\ DOMAIN engine' = DOMAIN engine /\ engine'.pid = engine.pid
        /\ engine'.waiting = engine.waiting /\ engine'.suppressed = engine.suppressed + 1
    BY <1>1, <1>4
  <2> QED
    BY <1>1, <1>2, <1>4, <2>1 DEF CountersFit, HeldHeard, Heard, HeldOne, Tally
<1> QED
  BY <1>3, <1>4 DEF Hold

(* One more in the benchmark.                                              *)
LEMMA CountersGrow ==
  ASSUME Undisturbed, CountInv, NEW b, b.attr = bench.attr, Counts(b, bench', 1),
         SameReports(b, bench'), UNCHANGED engine
  PROVE  CountersFit' /\ Tally(bench.attr)' = Tally(bench.attr) + 1
  BY DEF CountInv, Facts, CountersFit, Counts, SameReports

LEMMA TriggersAre ==
  ASSUME NEW t, TriggerKnown(t)
  PROVE  t # NoTrigger
<1>1. DOMAIN NoTrigger = {"source"} /\ DOMAIN t = TriggerFields
  BY DEF NoTrigger, TriggerKnown
<1> QED
  BY <1>1 DEF TriggerFields

LEMMA AudioTaken ==
  ASSUME Undisturbed, CountInv, OnAudioGlitch
  PROVE  CountInv'
<1>1. /\ call.pc = "CALL" /\ call.arg.fn = "AUDIO" /\ call'.pc = "IDLE" /\ Facts
      /\ UNCHANGED <<scene, now, left, tables, lost, restart, stalls, incidents, beat, bench>>
      /\ DOMAIN bench = BenchFields /\ engine.pid = scene.target /\ ~engine.waiting
  BY DEF OnAudioGlitch, Calls, Return, Idle, world, CountInv, Facts, Settled
<1> DEFINE t == TriggerInfo("AUDIO_GLITCH", "AUDIO_BUFFER_UNDERRUN", engine.pid, 0,
                            call.arg.core, call.arg.ts, 0, 0, 0)
<1>2. TriggerKnown(t) /\ t.pid = engine.pid
  BY InfoKnown
<1>3. Hold(t)
  BY <1>1 DEF OnAudioGlitch
<1> HIDE DEF t
<1>4. /\ CountersFit' /\ HeldHeard'
      /\ DOMAIN engine' = DOMAIN engine /\ engine'.pid = engine.pid
      /\ engine'.waiting = engine.waiting
      /\ Tally(bench.attr)' = Tally(bench.attr)
      /\ engine'.suppressed + HeldOne' = engine.suppressed + HeldOne + 1
  <2>1. t.pid = 0 \/ Heard(t.pid)
    BY <1>1, <1>2 DEF Heard
  <2> QED
    BY <1>1, <1>2, <1>3, <2>1, HoldCounted, TriggersAre
<1>5. DueNow = 1
  BY <1>1 DEF DueNow, Due
<1>6. EngineStep
  BY <1>1, <1>4 DEF EngineStep
<1>7. \A k \in DOMAIN beat' : beat'[k].last \in Int /\ beat'[k].last >= 1
  BY <1>1 DEF Facts, Began
<1>8. Tally(bench.attr)' + engine'.suppressed + HeldOne'
        = Tally(bench.attr) + engine.suppressed + HeldOne + DueNow
  <2>1. Tally(bench.attr) \in Nat /\ engine.suppressed \in Nat /\ HeldOne \in {0, 1}
    BY <1>1, BalanceInt DEF Facts
  <2>2. engine'.suppressed \in Nat /\ HeldOne' \in {0, 1}
    BY <1>4 DEF CountersFit, HeldOne
  <2> QED
    BY <1>4, <1>5, <2>1, <2>2
<1> QED
  BY <1>1, <1>4, <1>6, <1>7, <1>8, CallCounted

LEMMA DwmTaken ==
  ASSUME Undisturbed, CountInv, GlitchMeasured, OnDwmGlitch
  PROVE  CountInv'
<1>1. /\ call.pc = "CALL" /\ call.arg.fn = "DWM" /\ call'.pc = "IDLE" /\ Facts
      /\ UNCHANGED <<scene, now, left, tables, lost, restart, stalls, incidents, beat>>
      /\ DOMAIN bench = BenchFields /\ DOMAIN bench.attr = AttrFields /\ bench.pid = scene.target
      /\ engine.pid = scene.target /\ ~engine.waiting
      /\ call.arg.dur \in Nat \ {0}
  BY DEF OnDwmGlitch, Calls, Return, Idle, world, CountInv, Facts, Settled, CountersFit,
         GlitchMeasured
<1> DEFINE c == call.arg
           mild == c.missed < scene.minMissed
<1>2. /\ DueNow = (IF Felt(c.missed, c.pid) THEN 1 ELSE 0) /\ (~mild => DueNow = 1)
      /\ DueNow = 1 <=> (mild => bench.pid = 0 \/ c.pid \in {0, bench.pid})
  BY <1>1 DEF DueNow, Due, Felt
<1>3. \A k \in DOMAIN beat' : beat'[k].last \in Int /\ beat'[k].last >= 1
  BY <1>1 DEF Facts, Began
<1>4. ~(c.dur < DwmThreshold)
  BY <1>1 DEF Facts, CallsHeard
<1> DEFINE T(pid, base, ratio) ==
             TriggerInfo("DWM_GLITCH", "DWM_COMPOSITOR_GLITCH", pid, 0, c.core, c.ts, c.dur,
                         base, ratio)
<1>5. \E pid, base, ratio :
        LET t == T(pid, base, ratio)
        IN \/ mild /\ pid = c.pid /\ RecordFiltered(t)
           \/ ~mild /\ pid = engine.pid /\ (RecordFiltered(t) \/ (Hold(t) /\ UNCHANGED bench))
  BY <1>1, <1>4 DEF OnDwmGlitch, Initiate
<1>6. PICK pid, base, ratio :
        LET t == T(pid, base, ratio)
        IN \/ mild /\ pid = c.pid /\ RecordFiltered(t)
           \/ ~mild /\ pid = engine.pid /\ (RecordFiltered(t) \/ (Hold(t) /\ UNCHANGED bench))
  BY <1>5
<1> DEFINE t == T(pid, base, ratio)
<1>7. TriggerKnown(t) /\ t.pid = pid /\ t.dur = c.dur
  BY <1>1, InfoKnown
<1>8. /\ RecordFiltered(t) \/ (~mild /\ pid = engine.pid /\ Hold(t) /\ UNCHANGED bench)
      /\ pid = (IF mild THEN c.pid ELSE bench.pid)
  BY <1>1, <1>6
<1> HIDE DEF t
<1>9. Tally(bench.attr) \in Nat /\ engine.suppressed \in Nat /\ HeldOne \in {0, 1}
  BY <1>1, BalanceInt DEF Facts
<1>10. CASE RecordFiltered(t)
  <2>1. bench' = IngestFiltered(bench, t.pid, t.dur, t.reason) /\ UNCHANGED <<held, engine>>
    BY <1>10 DEF RecordFiltered
  <2>2. SameReports(bench, bench') /\ Counts(bench, bench', DueNow)
    <3>1. CASE bench.pid = 0 \/ pid \in {0, bench.pid}
      <4>1. DueNow = 1
        BY <1>2, <1>8, <3>1
      <4> QED
        BY <1>1, <1>7, <2>1, <3>1, <4>1, FilteredCounts
    <3>2. CASE ~(bench.pid = 0 \/ pid \in {0, bench.pid})
      <4>1. DueNow = 0
        BY <1>2, <1>8, <3>2
      <4> QED
        BY <1>1, <1>7, <2>1, <3>2, <4>1, FilteredCounts
    <3> QED
      BY <3>1, <3>2
  <2>3. SameFrames(bench, bench')
    BY <1>1, <2>1, OtherFields
  <2>4. EngineStep
    BY <1>1, <2>1, <2>3, BenchSettled DEF EngineStep
  <2>5. CountersFit' /\ Tally(bench.attr)' = Tally(bench.attr) + DueNow
    <3>1. CountersKnown(bench.attr) /\ engine.suppressed \in Nat
      BY <1>1 DEF Facts, CountersFit
    <3> QED
      BY <2>1, <2>2, <3>1 DEF CountersFit, Counts, SameReports
  <2>6. HeldHeard' /\ HeldOne' = HeldOne
    BY <1>1, <2>1 DEF Facts, HeldHeard, Heard, HeldOne
  <2>7. Tally(bench.attr)' + engine'.suppressed + HeldOne'
          = Tally(bench.attr) + engine.suppressed + HeldOne + DueNow
    BY <1>2, <1>9, <2>1, <2>5, <2>6
  <2> QED
    BY <1>1, <1>3, <2>4, <2>5, <2>6, <2>7, CallCounted
<1>11. CASE ~mild /\ pid = engine.pid /\ Hold(t) /\ UNCHANGED bench
  <2>1. /\ CountersFit' /\ HeldHeard'
        /\ DOMAIN engine' = DOMAIN engine /\ engine'.pid = engine.pid
        /\ engine'.waiting = engine.waiting
        /\ Tally(bench.attr)' = Tally(bench.attr)
        /\ engine'.suppressed + HeldOne' = engine.suppressed + HeldOne + 1
    <3>1. t.pid = 0 \/ Heard(t.pid)
      BY <1>1, <1>7, <1>11 DEF Heard
    <3> QED
      BY <1>1, <1>7, <1>11, <3>1, HoldCounted, TriggersAre
  <2>2. EngineStep
    BY <1>1, <1>11, <2>1 DEF EngineStep
  <2>3. Tally(bench.attr)' + engine'.suppressed + HeldOne'
          = Tally(bench.attr) + engine.suppressed + HeldOne + DueNow
    <3>1. engine'.suppressed \in Nat /\ HeldOne' \in {0, 1}
      BY <2>1 DEF CountersFit, HeldOne
    <3> QED
      BY <1>2, <1>9, <1>11, <2>1, <3>1
  <2> QED
    BY <1>1, <1>3, <2>1, <2>2, <2>3, CallCounted
<1> QED
  BY <1>8, <1>10, <1>11

(* With a static threshold a frame is a stutter if it was due.             *)
LEMMA VerdictDue ==
  ASSUME WorldOK, StreamInv, BeatInv, Undisturbed, CountInv, EvaluateFrame
  PROVE  /\ Judged(call.arg).reason = "NONE" => DueNow = 0
         /\ Judged(call.arg).reason # "NONE" => DueNow = 1
<1> DEFINE c == call.arg
           slow == c.dur * TICK >= scene.cfg.static
<1>1. /\ call.pc = "EVALUATE" /\ c.fn = "PRESENT" /\ Heard(c.pid) /\ c.ts \in Int
      /\ \A k \in DOMAIN beat : beat[k].last \in Int /\ beat[k].last >= 1
  BY DEF EvaluateFrame, CountInv, Facts, CallsHeard, Began
<1>2. IsPause(Stats(c), c.ts) <=> EndsPause(c)
  <2>1. CASE c.key \in DOMAIN beat
    <3>1. Stats(c) = pacing[c.key] /\ pacing[c.key].last = beat[c.key].last
      BY <2>1 DEF Stats, BeatInv, RunOK
    <3>2. PICK last \in Int : last = beat[c.key].last /\ last >= 1
      BY <1>1, <2>1
    <3> QED
      BY <1>1, <2>1, <3>1, <3>2 DEF IsPause, EndsPause, PAUSE_CEILING
  <2>2. CASE c.key \notin DOMAIN beat
    <3>1. Stats(c) = FreshStats(c.ts)
      BY <2>2 DEF Stats, BeatInv
    <3>2. FreshStats(c.ts).last = c.ts
      BY <1>1, FreshOK
    <3> QED
      BY <1>1, <2>2, <3>1, <3>2 DEF IsPause, EndsPause
  <2> QED
    BY <2>1, <2>2
<1>3. Judged(c).reason
        = IF slow /\ ~IsPause(Stats(c), c.ts) THEN "STATIC_THRESHOLD" ELSE "NONE"
  BY StaticVerdict DEF Judged, Undisturbed
<1>4. DueNow = IF slow /\ ~EndsPause(c) THEN 1 ELSE 0
  BY <1>1 DEF DueNow, Due
<1> HIDE DEF slow
<1> QED
  BY <1>2, <1>3, <1>4

LEMMA FrameCounted ==
  ASSUME WorldOK, StreamInv, BeatInv, Undisturbed, CountInv, EvaluateFrame
  PROVE  CountInv'
<1> DEFINE c == call.arg
           r == Judged(c)
           t == StutterOf(c, r)
           b == Telemetered(c, r)
<1>1. /\ call.pc = "EVALUATE" /\ call'.pc = "IDLE" /\ Facts /\ c.fn = "PRESENT" /\ Heard(c.pid)
      /\ UNCHANGED <<scene, now, left, tables, lost, restart, stalls, incidents>>
      /\ DOMAIN bench = BenchFields /\ DOMAIN bench.attr = AttrFields /\ bench.pid = scene.target
      /\ engine.pid = scene.target /\ ~engine.waiting
      /\ c.ts \in Int /\ c.ts >= 1
  BY DEF EvaluateFrame, Return, Idle, CountInv, Facts, Settled, CountersFit, CallsHeard, Began
<1>2. (r.reason = "NONE" => DueNow = 0) /\ (r.reason # "NONE" => DueNow = 1)
  BY VerdictDue
<1>3. TriggerKnown(t) /\ t.pid = c.pid /\ t.dur \in Nat \ {0}
  <2>1. c.dur \in Nat \ {0} /\ JudgedOK(r, c.ts)
    BY VerdictKnown
  <2> HIDE DEF c, r
  <2>2. c.dur \in Int /\ r.dur \in Int
    BY <2>1 DEF JudgedOK
  <2>3. TriggerKnown(t) /\ t.pid = c.pid /\ t.dur = IF r.dur > 0 THEN r.dur ELSE c.dur
    BY <2>2, StutterKnown
  <2> HIDE DEF t
  <2> QED
    BY <2>1, <2>2, <2>3
<1>4. SameFrames(bench, b) /\ b.attr = bench.attr
  BY <1>1, OtherFields, CountsNothing DEF Telemetered
<1> HIDE DEF b
<1>5. /\ beat' = Put(beat, c.key, Beat(c, r))
      /\ \/ r.reason = "NONE" /\ bench' = b /\ UNCHANGED <<held, engine>>
         \/ r.reason # "NONE" /\ bench' = b /\ Hold(t)
         \/ /\ r.reason # "NONE" /\ bench' = IngestFiltered(b, c.pid, t.dur, t.reason)
            /\ UNCHANGED <<held, engine>>
  <2>1. ShouldTriggerOn(c.pid)
    BY <1>1 DEF ShouldTriggerOn, Heard
  <2> HIDE DEF r, t, c
  <2> QED
    BY <1>1, <2>1 DEF EvaluateFrame, Hold, r, t, c, b
<1> HIDE DEF r, t
<1>6. \A k \in DOMAIN beat' : beat'[k].last \in Int /\ beat'[k].last >= 1
  <2>1. Beat(c, r).last = c.ts
    BY DEF Beat
  <2>2. \A k \in DOMAIN beat : beat[k].last \in Int /\ beat[k].last >= 1
    BY <1>1 DEF Facts, Began
  <2> QED
    BY <1>1, <1>5, <2>1, <2>2 DEF Put
<1>7. Tally(bench.attr) \in Nat /\ engine.suppressed \in Nat /\ HeldOne \in {0, 1}
  BY <1>1, BalanceInt DEF Facts
<1>8. CASE r.reason = "NONE" /\ bench' = b /\ UNCHANGED <<held, engine>>
  <2>1. SameReports(bench, bench') /\ Counts(bench, bench', 0)
    BY <1>1, <1>4, <1>8, CountsSame
  <2>2. EngineStep
    BY <1>1, <1>4, <1>8, BenchSettled DEF EngineStep
  <2>3. CountersFit' /\ Tally(bench.attr)' = Tally(bench.attr)
    BY <1>8, <2>1, CountersSame
  <2>4. HeldHeard' /\ HeldOne' = HeldOne
    BY <1>1, <1>8 DEF Facts, HeldHeard, Heard, HeldOne
  <2>5. Tally(bench.attr)' + engine'.suppressed + HeldOne'
          = Tally(bench.attr) + engine.suppressed + HeldOne + DueNow
    BY <1>2, <1>7, <1>8, <2>3, <2>4
  <2> QED
    BY <1>1, <1>6, <2>2, <2>3, <2>4, <2>5, CallCounted
<1>9. CASE r.reason # "NONE" /\ bench' = b /\ Hold(t)
  <2>1. /\ CountersFit' /\ HeldHeard'
        /\ DOMAIN engine' = DOMAIN engine /\ engine'.pid = engine.pid
        /\ engine'.waiting = engine.waiting
        /\ Tally(bench.attr)' = Tally(bench.attr)
        /\ engine'.suppressed + HeldOne' = engine.suppressed + HeldOne + 1
    BY <1>1, <1>3, <1>4, <1>9, HoldCounted, TriggersAre
  <2>2. EngineStep
    BY <1>1, <1>4, <1>9, <2>1, BenchSettled DEF EngineStep
  <2>3. Tally(bench.attr)' + engine'.suppressed + HeldOne'
          = Tally(bench.attr) + engine.suppressed + HeldOne + DueNow
    <3>1. engine'.suppressed \in Nat /\ HeldOne' \in {0, 1}
      BY <2>1 DEF CountersFit, HeldOne
    <3> QED
      BY <1>2, <1>7, <1>9, <2>1, <3>1
  <2> QED
    BY <1>1, <1>6, <2>1, <2>2, <2>3, CallCounted
<1>10. CASE /\ r.reason # "NONE" /\ bench' = IngestFiltered(b, c.pid, t.dur, t.reason)
            /\ UNCHANGED <<held, engine>>
  <2>1. b.pid = 0 \/ c.pid \in {0, b.pid}
    BY <1>1, <1>4 DEF SameFrames, Heard
  <2>2. DOMAIN b = BenchFields /\ DOMAIN b.attr = AttrFields
    BY <1>1, <1>4 DEF SameFrames
  <2>3. SameReports(b, bench') /\ Counts(b, bench', 1)
    BY <1>3, <1>10, <2>1, <2>2, FilteredCounts
  <2>4. SameFrames(bench, bench')
    BY <1>4, <1>10, <2>2, OtherFields DEF SameFrames
  <2>5. EngineStep
    BY <1>1, <1>10, <2>4, BenchSettled DEF EngineStep
  <2>6. CountersFit' /\ Tally(bench.attr)' = Tally(bench.attr) + 1
    BY <1>4, <1>10, <2>3, CountersGrow
  <2>7. HeldHeard' /\ HeldOne' = HeldOne
    BY <1>1, <1>10 DEF Facts, HeldHeard, Heard, HeldOne
  <2>8. Tally(bench.attr)' + engine'.suppressed + HeldOne'
          = Tally(bench.attr) + engine.suppressed + HeldOne + DueNow
    BY <1>2, <1>7, <1>10, <2>6, <2>7
  <2> QED
    BY <1>1, <1>6, <2>5, <2>6, <2>7, <2>8, CallCounted
<1> QED
  BY <1>5, <1>8, <1>9, <1>10

(* A report turns what was held into one more counted.                     *)
LEMMA ReportCounted ==
  ASSUME StreamInv, Undisturbed, CountInv, HeldMeasured, Report
  PROVE  CountInv'
<1> DEFINE t == Upgraded(held)
<1>1. /\ held # NoTrigger /\ held' = NoTrigger /\ Facts
      /\ UNCHANGED <<scene, left, tables, lost, restart, stalls, incidents, call, engine, beat>>
      /\ DOMAIN bench = BenchFields /\ DOMAIN bench.attr = AttrFields /\ bench.pid = scene.target
  BY DEF Report, world, CountInv, Facts, Settled, CountersFit
<1>2. TriggerKnown(t) /\ (t.pid = 0 \/ Heard(t.pid))
  <2>1. TriggerKnown(held) /\ (held.pid = 0 \/ Heard(held.pid))
    BY <1>1 DEF HeldMeasured, Facts, HeldHeard
  <2> QED
    BY <2>1, UpgradedKnown
<1>3. now' = Max2(now, t.ts + POST) /\ t.ts \in Int
  <2>1. now' = Max2(now, t.ts + POST)
    BY DEF Report
  <2>2. Timed(held) /\ "ts" \in DOMAIN held
    BY <1>1 DEF StreamInv, HeldKnown, Timed
  <2>3. t.ts = held.ts
    <3>1. TriggerKnown(held)
      BY <1>1 DEF HeldMeasured
    <3> QED
      BY <3>1 DEF Upgraded, TriggerKnown, TriggerFields
  <2> QED
    BY <2>1, <2>2, <2>3 DEF Timed
<1>4. \E a, v, j, h, g : bench' = IngestReport(bench,
        [pid |-> t.pid, audio |-> a, severity |-> v, judder |-> j, stall |-> t.dur,
         hypothesis |-> h, tag |-> g])
  BY DEF Report
<1> HIDE DEF t
<1>5. now \in Int /\ now >= 1 /\ now' \in Int /\ now <= now'
  <2>1. now \in Int /\ now >= 1 /\ t.ts + POST \in Int
    BY <1>1, <1>3, PathAssumption DEF Facts, Began
  <2> QED
    BY <1>3, <2>1 DEF Max2
<1>6. PICK a, v, j, h, g : bench' = IngestReport(bench,
        [pid |-> t.pid, audio |-> a, severity |-> v, judder |-> j, stall |-> t.dur,
         hypothesis |-> h, tag |-> g])
  BY <1>4
<1> DEFINE r == [pid |-> t.pid, audio |-> a, severity |-> v, judder |-> j, stall |-> t.dur,
                 hypothesis |-> h, tag |-> g]
<1>7. bench' = IngestReport(bench, r) /\ r.stall \in Int /\ r.pid = t.pid
  BY <1>2, <1>6 DEF TriggerKnown
<1> HIDE DEF r
<1>8. SameFrames(bench, bench')
  BY <1>1, <1>7, OtherFields
<1>9. DOMAIN bench' = BenchFields /\ bench'.pid = bench.pid
  BY <1>1, <1>8 DEF SameFrames
<1>10. DOMAIN bench'.attr = AttrFields
  BY <1>1, <1>7, ReportCounts DEF SameReports
<1>11. Counts(bench, bench', 1)
  <2>1. bench.pid = 0 \/ r.pid \in {0, bench.pid}
    BY <1>1, <1>2, <1>7 DEF Heard
  <2> QED
    BY <1>1, <1>7, <2>1, ReportCounts
<1>12. CountersFit' /\ Tally(bench.attr)' = Tally(bench.attr) + 1
  BY <1>1, <1>10, <1>11 DEF Facts, CountersFit, Counts
<1>13. Settled' /\ Began' /\ CallsHeard' /\ HeldHeard'
  BY <1>1, <1>5, <1>9 DEF Facts, Settled, Began, CallsHeard, Heard, HeldHeard
<1>14. Apart(tables, tables')
  BY <1>1, ApartSame DEF Facts
<1>15. OnePresent' /\ (~lost => GlitchesKnown')
  <2>1. GlitchTimes' = GlitchTimes
    BY <1>1 DEF GlitchTimes
  <2> QED
    BY <1>1, <1>5, <1>14, <2>1, ApartLater DEF Facts, CountInv
<1>16. Balance' = Balance
  <2>1. DueNow' = DueNow
    BY <1>1 DEF DueNow, Due, Heard, Felt, EndsPause
  <2>2. HeldOne = 1 /\ HeldOne' = 0
    BY <1>1 DEF HeldOne
  <2>3. Tally(bench.attr) \in Nat /\ engine.suppressed \in Nat /\ DueNow \in {0, 1}
    BY <1>1, BalanceInt DEF Facts
  <2>4. Balance = Tally(bench.attr) + engine.suppressed + 1 + DueNow
    BY <2>2 DEF Balance
  <2>5. Balance' = Tally(bench.attr)' + engine.suppressed + 0 + DueNow
    BY <1>1, <2>1, <2>2 DEF Balance
  <2> QED
    BY <1>12, <2>3, <2>4, <2>5
<1>17. ~lost => Accounted'
  BY <1>1, <1>16 DEF CountInv, Accounted
<1> QED
  BY <1>1, <1>12, <1>13, <1>15, <1>17 DEF CountInv, Facts

-----------------------------------------------------------------------------
(* All steps.                                                              *)

LEMMA SceneStays ==
  ASSUME [Next]_vars
  PROVE  scene' = scene
<1>1. CASE EvaluateFrame
  BY <1>1 DEF EvaluateFrame
<1> QED
  BY <1>1, OthersJudgeNone DEF vars

LEMMA CountStep ==
  ASSUME WorldOK, StreamInv, BeatInv, ShareInv, CountInv, [Next]_vars
  PROVE  CountInv'
<1>1. CASE ~Undisturbed
  <2>1. ~Undisturbed'
    BY <1>1, SceneStays DEF Undisturbed
  <2> QED
    BY <2>1 DEF CountInv
<1>2. CASE Undisturbed
  <2>1. Facts
    BY <1>2 DEF CountInv
  <2>2. CASE BeginSpan \/ EndSpan \/ PointEvent \/ PresentBegins \/ PresentEnds \/ FlipHappens
    BY <1>2, <2>2, WorldKeepsCount
  <2>3. CASE OnDxgiPresent \/ ClaimTicket \/ WriteFrame
    BY <1>2, <2>3, DxgiCounted, IngestCounted
  <2>4. ~OnKernelFrameStall
    BY <2>1 DEF OnKernelFrameStall, Calls, Facts, CallsHeard
  <2>5. CASE EvaluateFrame \/ OnAudioGlitch \/ OnDwmGlitch \/ Report
    BY <1>2, <2>5, FrameCounted, AudioTaken, DwmTaken, ReportCounted DEF ShareInv
  <2>6. ~(DetachTarget \/ AttachTarget \/ ResetByUser \/ Retarget \/ FinishRestart)
    <3>1. left.restarts = 0 /\ restart.pc = "IDLE"
      BY <2>1 DEF Facts, Settled
    <3>2. \A pid : ~MoveTarget(pid)
      BY <3>1 DEF MoveTarget
    <3> QED
      BY <3>1, <3>2 DEF DetachTarget, AttachTarget, ResetByUser, Retarget, FinishRestart
  <2>7. CASE UNCHANGED vars
    <3>1. UNCHANGED <<scene, now, left, tables, lost, call, engine, held, bench, restart,
                      stalls, incidents, beat>>
      BY <2>7 DEF vars, program, world
    <3>2. Settled' /\ Began' /\ OnePresent' /\ CallsHeard' /\ HeldHeard' /\ CountersFit'
      BY <2>1, <3>1 DEF Facts, Settled, Began, OnePresent, CallsHeard, HeldHeard, Heard,
                        CountersFit
    <3>3. ~lost => GlitchesKnown' /\ Accounted'
      <4>1. ~lost => GlitchesKnown /\ Accounted
        BY <1>2 DEF CountInv
      <4>2. Balance' = Balance
        BY <3>1 DEF Balance, Tally, HeldOne, DueNow, Due, Heard, Felt, EndsPause
      <4>3. GlitchTimes' = GlitchTimes
        BY <3>1 DEF GlitchTimes
      <4> QED
        BY <3>1, <4>1, <4>2, <4>3 DEF GlitchesKnown, Accounted
    <3> QED
      BY <3>1, <3>2, <3>3 DEF CountInv, Facts
  <2> QED
    BY <2>2, <2>3, <2>4, <2>5, <2>6, <2>7 DEF Next
<1> QED
  BY <1>1, <1>2

LEMMA CountInit ==
  ASSUME Init
  PROVE  CountInv
<1> SUFFICES ASSUME Undisturbed PROVE Facts /\ GlitchesKnown /\ Accounted
  BY DEF CountInv
<1>1. /\ scene \in Scenarios /\ now = scene.begin /\ now \in Int /\ now >= 1
      /\ scene.restarts = 0
  BY ScenarioAssumption DEF Init, Undisturbed
<1>2. /\ call.pc = "IDLE" /\ held = NoTrigger /\ beat = <<>> /\ stalls = {} /\ incidents = 0
      /\ tables = EmptyTables /\ bench = NewBenchmark(scene.target)
  BY DEF Init, Idle
<1>3. Settled
  BY <1>1, <1>2 DEF Init, Settled, NewBenchmark, BenchFields
<1>4. Began
  BY <1>1, <1>2 DEF Began
<1>5. /\ DOMAIN tables = TableFields /\ DOMAIN tables.present = {} /\ DOMAIN tables.last = {}
      /\ tables.glitch = <<>>
  BY <1>2 DEF EmptyTables, TableFields
<1>6. OnePresent
  BY <1>5 DEF OnePresent
<1>7. bench.attr = NoAttribution /\ engine.suppressed = 0
  BY <1>2 DEF NewBenchmark, Init
<1>8. CountersFit /\ Tally(bench.attr) = 0
  <2> DEFINE a == NoAttribution
  <2>1. DOMAIN a = AttrFields
    BY DEF NoAttribution, AttrFields
  <2>2. a.stutters = 0 /\ a.minor = 0 /\ a.audio = 0
    BY DEF NoAttribution
  <2> HIDE DEF a
  <2>3. bench.attr = a
    BY <1>7 DEF a
  <2> QED
    BY <1>7, <2>1, <2>2, <2>3 DEF CountersFit, CountersKnown, Tally
<1>9. CallsHeard /\ HeldHeard
  BY <1>2 DEF CallsHeard, HeldHeard
<1>10. GlitchesKnown
  <2>1. GlitchTimes = {}
    BY <1>2 DEF GlitchTimes
  <2> QED
    BY <1>5, <2>1 DEF GlitchesKnown
<1>11. Accounted
  BY <1>2, <1>7, <1>8 DEF Accounted, Balance, HeldOne, DueNow
<1> QED
  BY <1>3, <1>4, <1>6, <1>8, <1>9, <1>10, <1>11 DEF Facts

LEMMA CountedOnce ==
  ASSUME CountInv
  PROVE  IncidentsOnce
<1> SUFFICES ASSUME Undisturbed, call.pc = "IDLE", ~lost
             PROVE  LET sum == Summary(bench) IN
                      incidents = sum.stutters + sum.minor + sum.audio + engine.suppressed
                                  + (IF held = NoTrigger THEN 0 ELSE 1)
  BY DEF IncidentsOnce
<1>1. incidents = Balance /\ DueNow = 0 /\ CountersFit
  BY DEF CountInv, Facts, Accounted, DueNow
<1>2. /\ Summary(bench).stutters = bench.attr.stutters /\ Summary(bench).minor = bench.attr.minor
      /\ Summary(bench).audio = bench.attr.audio
  BY DEF Summary
<1>3. Balance = bench.attr.stutters + bench.attr.minor + bench.attr.audio + engine.suppressed
                + HeldOne
  BY <1>1, BalanceInt DEF Balance, Tally, CountersFit, CountersKnown
<1> QED
  BY <1>1, <1>2, <1>3 DEF HeldOne

(* IncidentsCounted for every scenario: what happens to the target in an    *)
(* undisturbed session is counted once, as a stutter, a minor one or an     *)
(* audio glitch, or suppressed by a trigger held (handle_dwm_event,         *)
(* evaluate_frame_pacing, initiate_trigger_atomic, ingest_report); and of   *)
(* every session the culprits of get_summary are all reports but judder.    *)
THEOREM IncidentsAlwaysCounted == Spec => []IncidentsCounted
<1>1. Init => WorldOK /\ StreamInv
  BY StreamInit
<1>2. WorldOK /\ StreamInv /\ [Next]_vars => (WorldOK /\ StreamInv)'
  BY StreamStep
<1>3. Init => BeatInv
  BY DEF Init, BeatInv
<1>4. WorldOK /\ StreamInv /\ BeatInv /\ [Next]_vars => BeatInv'
  BY RunsStep
<1>5. Init => FrameInv
  BY FrameInit
<1>6. FrameInv /\ [Next]_vars => FrameInv'
  BY FrameStep
<1>7. Init => ShareInv
  BY ShareInit
<1>8. WorldOK /\ StreamInv /\ FrameInv /\ ShareInv /\ [Next]_vars => ShareInv'
  BY ShareStep
<1>9. Init => CountInv
  BY CountInit
<1>10. WorldOK /\ StreamInv /\ BeatInv /\ ShareInv /\ CountInv /\ [Next]_vars => CountInv'
  BY CountStep
<1>11. ShareInv /\ CountInv => IncidentsCounted
  BY SharesCounted, CountedOnce DEF IncidentsCounted
<1> QED
  BY <1>1, <1>2, <1>3, <1>4, <1>5, <1>6, <1>7, <1>8, <1>9, <1>10, <1>11, PTL DEF Spec

=============================================================================
