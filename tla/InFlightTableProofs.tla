------------------------- MODULE InFlightTableProofs -------------------------
(***************************************************************************)
(* What the table guarantees for every number of threads, every set of     *)
(* keys, every hash function and capacity, and all limits.                 *)
(***************************************************************************)
EXTENDS InFlightTable, FiniteSetTheorems, TLAPS

(* What is used of the assumption, one fact at a time.                     *)
LEMMA Sizes ==
  /\ Capacity \in Nat /\ Capacity > 0 /\ None \notin Slots
  /\ MaxProbes \in Nat /\ MaxProbes > 0
  /\ InsertRetries \in Nat /\ InsertRetries > 0
  /\ FindRetries \in Nat /\ FindRetries > 0
  /\ MaxCalls \in Nat /\ MaxAge \in Nat
  BY TableAssumption DEF Slots, None

LEMMA Names ==
  /\ NoKey \notin Keys /\ Home \in [Keys -> Slots]
  /\ Calls \subseteq [by : Threads, op : Operations, key : Keys]
  /\ Evictors \subseteq Threads
  BY TableAssumption

LEMMA Wrapped == ASSUME NEW n \in Nat PROVE n % Capacity \in Slots
  BY Sizes DEF Slots

(* Which operation may be where, and what its locals then mean.            *)
Looking == {"load", "key", "claimEmpty", "claimTomb", "found", "missed"}
Reading == {"seq1", "copy", "seq2", "confirm"}

Shape(t) ==
    /\ pc[t] # "idle" => \/ me[t].op = "evict"
                         \/ me[t].op \in Operations /\ me[t].want \in Keys /\ me[t].mine > 0
    /\ pc[t] = "scan" => me[t].op = "evict" /\ me[t].probe <= Capacity
    /\ pc[t] \in Looking => me[t].op # "evict"
    /\ pc[t] \in Reading => me[t].op \in {"lookup", "evict"}
    /\ pc[t] \in {"claimEmpty", "claimTomb"} => Placing(t)
    /\ pc[t] = "cas" \/ pc[t] \in Owners => me[t].op # "lookup"
    /\ me[t].op = "evict" /\ (pc[t] \in Reading \/ pc[t] \in Owners \/ pc[t] = "cas") =>
          me[t].probe < Capacity
    /\ me[t].op # "evict" /\ pc[t] = "load" => me[t].probe <= MaxProbes
    /\ me[t].op # "evict" /\ (pc[t] \in Reading \/ pc[t] \in {"key", "cas", "recheck", "claimEmpty"}) =>
          me[t].probe < MaxProbes
    /\ pc[t] \in Owners => me[t].cell \in Slots
    /\ pc[t] = "claimTomb" => me[t].tomb \in Slots

TypeInv == TypeOK /\ \A t \in Threads : Shape(t)

LEMMA HereSlot ==
  ASSUME TypeInv, NEW t \in Threads, pc[t] # "idle", Evicting(t) => me[t].probe < Capacity
  PROVE  Here(t) \in Slots
<1>1. me[t] \in Locals /\ Shape(t)
  BY DEF TypeInv, TypeOK
<1>2. CASE Evicting(t)
  BY <1>1, <1>2, Sizes DEF Here, Evicting, Locals, Slots
<1>3. CASE ~Evicting(t)
  <2>1. Home[me[t].want] \in Nat
    BY <1>1, <1>3, Names DEF Shape, Evicting, Slots
  <2> QED
    BY <1>1, <1>3, <2>1, Wrapped DEF Here, Locals
<1> QED
  BY <1>2, <1>3

LEMMA RetriesNat == ASSUME NEW t \in Threads PROVE Retries(t) \in Nat /\ Retries(t) > 0
  BY Sizes DEF Retries

-----------------------------------------------------------------------------
(* Type correctness.                                                       *)

LEMMA FreshType == Fresh \in Locals
  BY Sizes DEF Fresh, Locals, None, NoValue

LEMMA TypeInit == Init => TypeInv
<1> SUFFICES ASSUME Init PROVE TypeInv
  OBVIOUS
<1>1. TypeOK
  BY FreshType, Sizes DEF Init, TypeOK, States, Pcs, NoValue
<1>2. \A t \in Threads : pc[t] = "idle" /\ me[t] = Fresh
  BY DEF Init
<1>3. \A t \in Threads : Shape(t)
  BY <1>2 DEF Shape, Owners, Looking, Reading, Fresh
<1> QED
  BY <1>1, <1>3 DEF TypeInv

(* The updates of the locals that the actions make.                        *)
LEMMA Updates ==
  ASSUME NEW r \in Locals, NEW p \in Nat, NEW q \in Nat, NEW c \in Slots \cup {None},
         NEW g \in Values \cup {NoValue}
  PROVE  /\ [r EXCEPT !.probe = p] \in Locals
         /\ [r EXCEPT !.probe = p, !.saw = TRUE] \in Locals
         /\ [r EXCEPT !.probe = p, !.tomb = c] \in Locals
         /\ [r EXCEPT !.probe = p, !.s1 = 0, !.got = NoValue, !.cell = None] \in Locals
         /\ [r EXCEPT !.retry = q, !.probe = 0, !.saw = FALSE, !.tomb = None] \in Locals
         /\ [r EXCEPT !.s1 = 0, !.got = NoValue] \in Locals
         /\ [r EXCEPT !.cell = c] \in Locals
         /\ [r EXCEPT !.got = g] \in Locals
         /\ [r EXCEPT !.s1 = p] \in Locals
         /\ [r EXCEPT !.probe = p, !.s1 = 0, !.got = NoValue, !.cell = None, !.count = q] \in Locals
<1>1. [r EXCEPT !.probe = p] \in Locals
  BY Sizes DEF Locals, None, NoValue
<1>2. [r EXCEPT !.probe = p, !.saw = TRUE] \in Locals
  BY Sizes DEF Locals, None, NoValue
<1>3. [r EXCEPT !.probe = p, !.tomb = c] \in Locals
  BY Sizes DEF Locals, None, NoValue
<1>4. [r EXCEPT !.probe = p, !.s1 = 0, !.got = NoValue, !.cell = None] \in Locals
  BY Sizes DEF Locals, None, NoValue
<1>5. [r EXCEPT !.retry = q, !.probe = 0, !.saw = FALSE, !.tomb = None] \in Locals
  BY Sizes DEF Locals, None, NoValue
<1>6. [r EXCEPT !.s1 = 0, !.got = NoValue] \in Locals
  BY Sizes DEF Locals, None, NoValue
<1>7. [r EXCEPT !.cell = c] \in Locals
  BY Sizes DEF Locals, None, NoValue
<1>8. [r EXCEPT !.got = g] \in Locals
  BY Sizes DEF Locals, None, NoValue
<1>9. [r EXCEPT !.s1 = p] \in Locals
  BY Sizes DEF Locals, None, NoValue
<1>10. [r EXCEPT !.probe = p, !.s1 = 0, !.got = NoValue, !.cell = None, !.count = q] \in Locals
  BY Sizes DEF Locals, None, NoValue
<1> QED
  BY <1>1, <1>2, <1>3, <1>4, <1>5, <1>6, <1>7, <1>8, <1>9, <1>10

(* A step of t changes the locals and the next step of t only.             *)
Moves(t, m, to) == m \in Locals /\ me' = [me EXCEPT ![t] = m] /\ pc' = [pc EXCEPT ![t] = to]

(* The other threads notice nothing of a step but, perhaps, that a key is  *)
(* gone.                                                                   *)
Alone(t) ==
    \A u \in Threads \ {t} :
        /\ pc'[u] = pc[u]
        /\ me'[u].op = me[u].op /\ me'[u].want = me[u].want /\ me'[u].mine = me[u].mine
        /\ me'[u].probe = me[u].probe /\ me'[u].retry = me[u].retry /\ me'[u].saw = me[u].saw
        /\ me'[u].tomb = me[u].tomb /\ me'[u].cell = me[u].cell /\ me'[u].s1 = me[u].s1
        /\ me'[u].got = me[u].got /\ me'[u].cut = me[u].cut /\ me'[u].count = me[u].count

SharedTypes ==
    /\ sequence \in [Slots -> Nat] /\ key \in [Slots -> Keys \cup {NoKey}]
    /\ state \in [Slots -> States] /\ value \in [Slots -> Values \cup {NoValue}]
    /\ insertion_failures \in Nat /\ unpaired_evictions \in Nat
    /\ calls \in 0..MaxCalls /\ taken \subseteq Values \cup {NoValue} /\ takes \in Nat

LEMMA TypeFrom ==
  ASSUME TypeInv, NEW t \in Threads, NEW to \in Pcs, NEW m, Moves(t, m, to),
         SharedTypes', Shape(t)', to # "idle" => m.retry < Retries(t)'
  PROVE  TypeInv' /\ Alone(t) /\ me'[t] = m /\ pc'[t] = to
<1>1. me' \in [Threads -> Locals] /\ pc' \in [Threads -> Pcs] /\ me'[t] = m /\ pc'[t] = to
  BY DEF TypeInv, TypeOK, Moves
<1>2. \A u \in Threads \ {t} : pc'[u] = pc[u] /\ me'[u] = me[u]
  BY DEF TypeInv, TypeOK, Moves
<1>3. Alone(t)
  BY <1>2 DEF Alone
<1>4. \A u \in Threads \ {t} : Shape(u)'
  BY <1>2 DEF TypeInv, Shape, Placing
<1>5. \A u \in Threads : pc'[u] # "idle" => me'[u].retry < Retries(u)'
  BY <1>1, <1>2 DEF TypeInv, TypeOK, Retries, Placing
<1> QED
  BY <1>1, <1>3, <1>4, <1>5 DEF TypeInv, TypeOK, SharedTypes

LEMMA TypeNextProbe ==
  ASSUME TypeInv, NEW t \in Threads, pc[t] # "idle", NextProbe(t), SharedTypes',
         Evicting(t) => me[t].probe < Capacity, ~Evicting(t) => me[t].probe < MaxProbes
  PROVE  TypeInv' /\ Alone(t)
<1> DEFINE p == me[t].probe + 1
           m == [me[t] EXCEPT !.probe = p, !.s1 = 0, !.got = NoValue, !.cell = None]
           to == IF Evicting(t) THEN "scan" ELSE "load"
<1>1. me[t] \in Locals /\ Shape(t) /\ pc[t] \in Pcs /\ me[t].retry < Retries(t)
  BY DEF TypeInv, TypeOK
<1>2. p \in Nat /\ me[t].probe \in Nat
  BY <1>1 DEF Locals
<1>3. me' = [me EXCEPT ![t] = m] /\ pc' = [pc EXCEPT ![t] = to]
  BY DEF NextProbe, TypeInv, TypeOK
<1> HIDE DEF p
<1>4. m \in Locals /\ to \in Pcs
  BY <1>1, <1>2, Updates DEF Pcs
<1>5. /\ m.op = me[t].op /\ m.want = me[t].want /\ m.mine = me[t].mine
      /\ m.retry = me[t].retry /\ m.probe = p
      /\ me'[t] = m /\ pc'[t] = to
  BY <1>1, <1>3 DEF Locals, TypeInv, TypeOK
<1> HIDE DEF m
<1>6. Shape(t)'
  BY <1>1, <1>2, <1>5, Sizes DEF Shape, Evicting, Looking, Reading, Owners, p
<1> QED
  BY <1>1, <1>3, <1>4, <1>5, <1>6, TypeFrom DEF Moves, Retries, Placing

LEMMA TypeReconsider ==
  ASSUME TypeInv, NEW t \in Threads, pc[t] # "idle", Reconsider(t), SharedTypes',
         Evicting(t) => me[t].probe < Capacity, ~Evicting(t) => me[t].probe < MaxProbes
  PROVE  TypeInv' /\ Alone(t)
<1>1. CASE Evicting(t)
  BY <1>1, TypeNextProbe DEF Reconsider
<1>2. CASE ~Evicting(t)
  <2> DEFINE m == [me[t] EXCEPT !.s1 = 0, !.got = NoValue]
  <2>1. me[t] \in Locals /\ Shape(t) /\ me[t].retry < Retries(t)
    BY DEF TypeInv, TypeOK
  <2>2. me' = [me EXCEPT ![t] = m] /\ pc' = [pc EXCEPT ![t] = "load"]
    BY <1>2 DEF Reconsider, TypeInv, TypeOK
  <2>3. m \in Locals /\ "load" \in Pcs
    BY <2>1, Updates DEF Pcs
  <2>4. /\ m.op = me[t].op /\ m.want = me[t].want /\ m.mine = me[t].mine
        /\ m.retry = me[t].retry /\ m.probe = me[t].probe
        /\ me'[t] = m /\ pc'[t] = "load"
    BY <2>1, <2>2 DEF Locals, TypeInv, TypeOK
  <2> HIDE DEF m
  <2>5. Shape(t)'
    BY <1>2, <2>1, <2>4, Sizes DEF Shape, Evicting, Looking, Reading, Owners, Locals
  <2> QED
    BY <2>1, <2>2, <2>3, <2>4, <2>5, TypeFrom DEF Moves, Retries, Placing
<1> QED
  BY <1>1, <1>2

LEMMA TypeAgain ==
  ASSUME TypeInv, NEW t \in Threads, pc[t] # "idle", ~Evicting(t), Again(t),
         UNCHANGED <<sequence, key, state, value, unpaired_evictions, history>>
  PROVE  TypeInv' /\ Alone(t)
<1>1. me[t] \in Locals /\ Shape(t) /\ me[t].retry < Retries(t) /\ me[t].retry \in Nat
  BY DEF TypeInv, TypeOK, Locals
<1>2. SharedTypes'
  BY DEF TypeInv, TypeOK, SharedTypes, Again, history
<1>3. CASE me[t].retry + 1 < Retries(t)
  <2> DEFINE q == me[t].retry + 1
             m == [me[t] EXCEPT !.retry = q, !.probe = 0, !.saw = FALSE, !.tomb = None]
  <2>1. q \in Nat /\ q < Retries(t)
    BY <1>1, <1>3
  <2>2. me' = [me EXCEPT ![t] = m] /\ pc' = [pc EXCEPT ![t] = "load"]
    <3>1. ~(me[t].retry + 1 >= Retries(t))
      BY <1>1, <1>3, RetriesNat
    <3>2. /\ pc' = [pc EXCEPT ![t] = "load"]
          /\ me' = [me EXCEPT ![t].retry = @ + 1, ![t].probe = 0, ![t].saw = FALSE, ![t].tomb = None]
      BY <3>1, Zenon DEF Again
    <3> QED
      BY <3>2 DEF TypeInv, TypeOK
  <2> HIDE DEF q
  <2>3. m \in Locals /\ "load" \in Pcs
    BY <1>1, <2>1, Updates DEF Pcs
  <2>4. /\ m.op = me[t].op /\ m.want = me[t].want /\ m.mine = me[t].mine
        /\ m.retry = q /\ m.probe = 0
        /\ me'[t] = m /\ pc'[t] = "load"
    BY <1>1, <2>2 DEF Locals, TypeInv, TypeOK
  <2> HIDE DEF m
  <2>5. Shape(t)'
    BY <1>1, <2>4, Sizes DEF Shape, Evicting, Looking, Reading, Owners
  <2> QED
    BY <1>2, <2>1, <2>2, <2>3, <2>4, <2>5, TypeFrom DEF Moves, Retries, Placing
<1>4. CASE ~(me[t].retry + 1 < Retries(t))
  <2>1. me' = [me EXCEPT ![t] = me[t]] /\ pc' = [pc EXCEPT ![t] = "missed"]
    BY <1>4 DEF Again, TypeInv, TypeOK
  <2>2. me'[t] = me[t] /\ pc'[t] = "missed" /\ "missed" \in Pcs
    BY <2>1 DEF TypeInv, TypeOK, Pcs
  <2>3. Shape(t)'
    BY <1>1, <2>2, RetriesNat DEF Shape, Evicting, Looking, Reading, Owners
  <2> QED
    BY <1>1, <1>2, <2>1, <2>2, <2>3, TypeFrom DEF Moves, Retries, Placing
<1> QED
  BY <1>3, <1>4

(* A step that changes the next step only.                                 *)
LEMMA TypeGoto ==
  ASSUME TypeInv, NEW t \in Threads, NEW to \in Pcs, pc[t] # "idle", pc' = [pc EXCEPT ![t] = to],
         me' = me, SharedTypes', Shape(t)'
  PROVE  TypeInv' /\ Alone(t)
<1>1. me[t] \in Locals /\ me' = [me EXCEPT ![t] = me[t]] /\ me[t].retry < Retries(t)
  BY DEF TypeInv, TypeOK
<1> QED
  BY <1>1, TypeFrom DEF Moves, Retries, Placing

LEMMA TypeProbe ==
  ASSUME TypeInv, NEW t \in Threads, ~Evicting(t), Probe(t)
  PROVE  TypeInv' /\ Alone(t)
<1> USE DEF Goto
<1>1. /\ me[t] \in Locals /\ Shape(t) /\ me[t].retry < Retries(t)
      /\ me[t].op # "evict" /\ me[t].probe \in Nat
  <2>1. pc[t] # "idle"
    BY DEF Probe, PassWriter, PassTombstone, SeeValid, SeeEmpty, EndOfChain, CompareKey, Loads
  <2> QED
    BY <2>1 DEF TypeInv, TypeOK, Evicting, Locals
<1>2. UNCHANGED <<table, counters, history>> => SharedTypes'
  BY DEF TypeInv, TypeOK, SharedTypes, table, counters, history
<1>3. ASSUME PassWriter(t) PROVE TypeInv' /\ Alone(t)
  <2> DEFINE p == me[t].probe + 1
             m == [me[t] EXCEPT !.probe = p, !.saw = TRUE]
  <2>1. p \in Nat /\ p <= MaxProbes /\ pc[t] = "load"
    BY <1>1, <1>3, Sizes DEF PassWriter, Loads
  <2>2. me' = [me EXCEPT ![t] = m] /\ pc' = [pc EXCEPT ![t] = "load"]
    BY <1>3, <2>1 DEF PassWriter, TypeInv, TypeOK
  <2> HIDE DEF p
  <2>3. m \in Locals /\ "load" \in Pcs
    BY <1>1, <2>1, Updates DEF Pcs
  <2>4. /\ m.op = me[t].op /\ m.want = me[t].want /\ m.mine = me[t].mine
        /\ m.retry = me[t].retry /\ m.probe = p
        /\ me'[t] = m /\ pc'[t] = "load"
    BY <1>1, <2>2 DEF Locals, TypeInv, TypeOK
  <2> HIDE DEF m
  <2>5. Shape(t)'
    BY <1>1, <2>1, <2>4 DEF Shape, Looking, Reading, Owners
  <2>6. SharedTypes'
    BY <1>2, <1>3 DEF PassWriter
  <2> QED
    BY <1>1, <2>2, <2>3, <2>4, <2>5, <2>6, TypeFrom DEF Moves, Retries, Placing
<1>4. ASSUME PassTombstone(t) PROVE TypeInv' /\ Alone(t)
  <2> DEFINE p == me[t].probe + 1
             c == IF Placing(t) /\ me[t].tomb = None THEN Here(t) ELSE me[t].tomb
             m == [me[t] EXCEPT !.probe = p, !.tomb = c]
  <2>1. p \in Nat /\ p <= MaxProbes /\ pc[t] = "load"
    BY <1>1, <1>4, Sizes DEF PassTombstone, Loads
  <2>2. c \in Slots \cup {None}
    BY <1>1, <2>1, HereSlot DEF Locals
  <2>3. me' = [me EXCEPT ![t] = m] /\ pc' = [pc EXCEPT ![t] = "load"]
    BY <1>1, <1>4, <2>1 DEF PassTombstone, TypeInv, TypeOK
  <2> HIDE DEF p, c
  <2>4. m \in Locals /\ "load" \in Pcs
    BY <1>1, <2>1, <2>2, Updates DEF Pcs
  <2>5. /\ m.op = me[t].op /\ m.want = me[t].want /\ m.mine = me[t].mine
        /\ m.retry = me[t].retry /\ m.probe = p
        /\ me'[t] = m /\ pc'[t] = "load"
    BY <1>1, <2>3 DEF Locals, TypeInv, TypeOK
  <2> HIDE DEF m
  <2>6. Shape(t)'
    BY <1>1, <2>1, <2>5 DEF Shape, Looking, Reading, Owners
  <2>7. SharedTypes'
    BY <1>2, <1>4 DEF PassTombstone
  <2> QED
    BY <1>1, <2>3, <2>4, <2>5, <2>6, <2>7, TypeFrom DEF Moves, Retries, Placing
<1>5. ASSUME SeeValid(t) PROVE TypeInv' /\ Alone(t)
  <2>1. Shape(t)'
    BY <1>1, <1>5 DEF SeeValid, Loads, Shape, Looking, Reading, Owners, TypeInv, TypeOK
  <2> QED
    BY <1>2, <1>5, <2>1, TypeGoto DEF SeeValid, Loads, Pcs
<1>6. ASSUME SeeEmpty(t) PROVE TypeInv' /\ Alone(t)
  <2>1. pc[t] = "load" /\ me[t].probe < MaxProbes
        /\ UNCHANGED <<sequence, key, state, value, unpaired_evictions, history>>
    BY <1>6 DEF SeeEmpty, Loads, table
  <2>2. CASE Placing(t) /\ me[t].saw /\ Again(t)
    BY <2>1, <2>2, TypeAgain
  <2>3. CASE /\ Placing(t) /\ ~me[t].saw
             /\ Goto(t, "load", IF me[t].tomb # None THEN "claimTomb" ELSE "claimEmpty")
             /\ UNCHANGED <<me, insertion_failures>>
    <3>1. me[t].tomb # None => me[t].tomb \in Slots
      BY <1>1 DEF Locals
    <3>2. Shape(t)'
      BY <1>1, <2>1, <2>3, <3>1 DEF Shape, Placing, Looking, Reading, Owners, TypeInv, TypeOK
    <3> QED
      BY <1>2, <2>1, <2>3, <3>2, TypeGoto DEF Pcs, table, counters
  <2>4. CASE /\ ~Placing(t) /\ me[t].saw
             /\ pc' = pc /\ me' = [me EXCEPT ![t].probe = @ + 1] /\ UNCHANGED insertion_failures
    <3> DEFINE p == me[t].probe + 1
               m == [me[t] EXCEPT !.probe = p]
    <3>1. p \in Nat /\ p <= MaxProbes
      BY <1>1, <2>1, Sizes
    <3>2. me' = [me EXCEPT ![t] = m] /\ pc' = [pc EXCEPT ![t] = "load"]
      BY <2>1, <2>4 DEF TypeInv, TypeOK
    <3> HIDE DEF p
    <3>3. m \in Locals /\ "load" \in Pcs
      BY <1>1, <3>1, Updates DEF Pcs
    <3>4. /\ m.op = me[t].op /\ m.want = me[t].want /\ m.mine = me[t].mine
          /\ m.retry = me[t].retry /\ m.probe = p
          /\ me'[t] = m /\ pc'[t] = "load"
      BY <1>1, <3>2 DEF Locals, TypeInv, TypeOK
    <3> HIDE DEF m
    <3>5. Shape(t)'
      BY <1>1, <2>1, <3>1, <3>4 DEF Shape, Looking, Reading, Owners
    <3>6. SharedTypes'
      BY <1>2, <2>1, <2>4 DEF table, counters
    <3> QED
      BY <1>1, <3>2, <3>3, <3>4, <3>5, <3>6, TypeFrom DEF Moves, Retries, Placing
  <2>5. CASE ~Placing(t) /\ ~me[t].saw /\ Goto(t, "load", "missed") /\ UNCHANGED <<me, insertion_failures>>
    <3>1. Shape(t)'
      BY <1>1, <2>1, <2>5 DEF Shape, Looking, Reading, Owners, TypeInv, TypeOK
    <3> QED
      BY <1>2, <2>1, <2>5, <3>1, TypeGoto DEF Pcs, table, counters
  <2> QED
    BY <1>6, <2>2, <2>3, <2>4, <2>5, Zenon DEF SeeEmpty
<1>7. ASSUME EndOfChain(t) PROVE TypeInv' /\ Alone(t)
  <2>1. pc[t] = "load" /\ UNCHANGED <<sequence, key, state, value, unpaired_evictions, history>>
    BY <1>7 DEF EndOfChain, table
  <2>2. CASE Again(t)
    BY <2>1, <2>2, TypeAgain
  <2>3. CASE /\ Placing(t) /\ me[t].tomb # None
             /\ Goto(t, "load", "claimTomb") /\ UNCHANGED <<me, insertion_failures>>
    <3>1. me[t].tomb \in Slots
      BY <1>1, <2>3 DEF Locals
    <3>2. Shape(t)'
      BY <1>1, <2>1, <2>3, <3>1 DEF Shape, Placing, Looking, Reading, Owners, TypeInv, TypeOK
    <3> QED
      BY <1>2, <2>1, <2>3, <3>2, TypeGoto DEF Pcs, table, counters
  <2>4. CASE ~Placing(t) /\ Goto(t, "load", "missed") /\ UNCHANGED <<me, insertion_failures>>
    <3>1. Shape(t)'
      BY <1>1, <2>1, <2>4 DEF Shape, Looking, Reading, Owners, TypeInv, TypeOK
    <3> QED
      BY <1>2, <2>1, <2>4, <3>1, TypeGoto DEF Pcs, table, counters
  <2> QED
    BY <1>7, <2>2, <2>3, <2>4, Zenon DEF EndOfChain
<1>8. ASSUME CompareKey(t) PROVE TypeInv' /\ Alone(t)
  <2>1. SharedTypes' /\ pc[t] = "key"
    BY <1>2, <1>8 DEF CompareKey
  <2>2. CASE /\ Goto(t, "key", IF me[t].op = "lookup" THEN "seq1" ELSE "cas") /\ UNCHANGED me
    <3>1. Shape(t)'
      BY <1>1, <2>1, <2>2 DEF Shape, Looking, Reading, Owners, TypeInv, TypeOK
    <3> QED
      BY <2>1, <2>2, <3>1, TypeGoto DEF Pcs
  <2>3. CASE NextProbe(t)
    BY <1>1, <2>1, <2>3, TypeNextProbe DEF Shape
  <2> QED
    BY <1>8, <2>2, <2>3, Zenon DEF CompareKey
<1> QED
  BY <1>3, <1>4, <1>5, <1>6, <1>7, <1>8 DEF Probe

LEMMA TypeOwn ==
  ASSUME TypeInv, NEW t \in Threads, pc[t] # "idle", me[t].op # "lookup", NEW s \in Slots,
         NEW to \in {"recheck", "write"}, Own(t, s, to),
         Evicting(t) => me[t].probe < Capacity, ~Evicting(t) /\ to = "recheck" => me[t].probe < MaxProbes,
         UNCHANGED <<sequence, key, value, counters, history>>
  PROVE  TypeInv' /\ Alone(t)
<1> DEFINE m == [me[t] EXCEPT !.cell = s]
<1>1. /\ me[t] \in Locals /\ Shape(t) /\ me[t].retry < Retries(t)
  BY DEF TypeInv, TypeOK
<1>2. me' = [me EXCEPT ![t] = m] /\ pc' = [pc EXCEPT ![t] = to]
  BY DEF Own, TypeInv, TypeOK
<1>3. m \in Locals /\ to \in Pcs
  <2>1. m \in Locals
    BY <1>1 DEF Locals
  <2> QED
    BY <2>1 DEF Pcs
<1>4. /\ m.op = me[t].op /\ m.want = me[t].want /\ m.mine = me[t].mine
      /\ m.retry = me[t].retry /\ m.probe = me[t].probe /\ m.cell = s
      /\ me'[t] = m /\ pc'[t] = to
  BY <1>1, <1>2 DEF Locals, TypeInv, TypeOK
<1> HIDE DEF m
<1>5. Shape(t)'
  BY <1>1, <1>4 DEF Shape, Evicting, Looking, Reading, Owners
<1>6. SharedTypes'
  BY DEF TypeInv, TypeOK, SharedTypes, Own, States, counters, history
<1> QED
  BY <1>1, <1>2, <1>3, <1>4, <1>5, <1>6, TypeFrom DEF Moves, Retries, Placing

LEMMA TypeTake ==
  ASSUME TypeInv, NEW t \in Threads, Take(t)
  PROVE  TypeInv' /\ Alone(t)
<1> USE DEF Goto
<1>1. /\ pc[t] \in {"cas", "recheck"} /\ me[t] \in Locals /\ Shape(t) /\ me[t].probe \in Nat
      /\ me[t].op # "lookup" /\ me[t].probe < (IF Evicting(t) THEN Capacity ELSE MaxProbes)
  <2>1. pc[t] \in {"cas", "recheck"}
    BY DEF Take, ClaimFound, Recheck
  <2> QED
    BY <2>1 DEF TypeInv, TypeOK, Shape, Evicting, Locals, Owners
<1>2. ASSUME ClaimFound(t) PROVE TypeInv' /\ Alone(t)
  <2>1. Here(t) \in Slots /\ UNCHANGED <<sequence, key, value, counters, history>>
    BY <1>1, <1>2, HereSlot DEF ClaimFound
  <2>2. CASE Own(t, Here(t), "recheck")
    BY <1>1, <2>1, <2>2, TypeOwn
  <2>3. CASE Reconsider(t) /\ UNCHANGED state
    <3>1. SharedTypes'
      BY <2>1, <2>3 DEF TypeInv, TypeOK, SharedTypes, counters, history
    <3> QED
      BY <1>1, <2>3, <3>1, TypeReconsider
  <2> QED
    BY <1>2, <2>2, <2>3, Zenon DEF ClaimFound
<1>3. ASSUME Recheck(t) PROVE TypeInv' /\ Alone(t)
  <2>1. me[t].cell \in Slots /\ pc[t] = "recheck" /\ UNCHANGED <<sequence, key, value, counters, history>>
    BY <1>1, <1>3 DEF Recheck, Shape, Owners
  <2>2. CASE pc' = [pc EXCEPT ![t] = "write"] /\ UNCHANGED <<state, me>>
    <3>1. SharedTypes'
      BY <2>1, <2>2 DEF TypeInv, TypeOK, SharedTypes, counters, history
    <3>2. Shape(t)'
      BY <1>1, <2>1, <2>2 DEF Shape, Looking, Reading, Owners, TypeInv, TypeOK
    <3> QED
      BY <2>1, <2>2, <3>1, <3>2, TypeGoto DEF Pcs
  <2>3. CASE state' = [state EXCEPT ![me[t].cell] = "VALID"] /\ NextProbe(t)
    <3>1. SharedTypes'
      BY <2>1, <2>3 DEF TypeInv, TypeOK, SharedTypes, counters, history, States
    <3> QED
      BY <1>1, <2>3, <3>1, TypeNextProbe
  <2> QED
    BY <1>3, <2>2, <2>3, Zenon DEF Recheck
<1> QED
  BY <1>2, <1>3 DEF Take

LEMMA TypePlace ==
  ASSUME TypeInv, NEW t \in Threads, Place(t)
  PROVE  TypeInv' /\ Alone(t)
<1>1. /\ pc[t] \in {"claimEmpty", "claimTomb"} /\ me[t] \in Locals /\ Shape(t)
      /\ me[t].op # "lookup" /\ ~Evicting(t)
  <2>1. pc[t] \in {"claimEmpty", "claimTomb"}
    BY DEF Place, ClaimEmpty, ClaimTombstone
  <2> QED
    BY <2>1 DEF TypeInv, TypeOK, Shape, Placing, Evicting
<1>2. ASSUME ClaimEmpty(t) PROVE TypeInv' /\ Alone(t)
  <2>1. Here(t) \in Slots /\ me[t].probe < MaxProbes /\ UNCHANGED <<sequence, key, value, counters, history>>
    BY <1>1, <1>2, HereSlot DEF ClaimEmpty, Shape, Evicting
  <2>2. CASE Own(t, Here(t), "write")
    BY <1>1, <2>1, <2>2, TypeOwn
  <2>3. CASE Reconsider(t) /\ UNCHANGED state
    <3>1. SharedTypes'
      BY <2>1, <2>3 DEF TypeInv, TypeOK, SharedTypes, counters, history
    <3> QED
      BY <1>1, <2>1, <2>3, <3>1, TypeReconsider
  <2> QED
    BY <1>2, <2>2, <2>3, Zenon DEF ClaimEmpty
<1>3. ASSUME ClaimTombstone(t) PROVE TypeInv' /\ Alone(t)
  <2>1. me[t].tomb \in Slots /\ UNCHANGED <<sequence, key, value, unpaired_evictions, history>>
    BY <1>1, <1>3 DEF ClaimTombstone, Shape
  <2>2. CASE Own(t, me[t].tomb, "write") /\ UNCHANGED insertion_failures
    BY <1>1, <2>1, <2>2, TypeOwn DEF counters
  <2>3. CASE Again(t) /\ UNCHANGED state
    BY <1>1, <2>1, <2>3, TypeAgain
  <2> QED
    BY <1>3, <2>2, <2>3, Zenon DEF ClaimTombstone
<1> QED
  BY <1>2, <1>3 DEF Place

LEMMA TypeTransact ==
  ASSUME TypeInv, NEW t \in Threads, Transact(t)
  PROVE  TypeInv' /\ Alone(t)
<1> USE DEF Goto
<1>1. /\ pc[t] \in {"write", "seal", "release"} /\ me[t] \in Locals /\ Shape(t)
      /\ me[t].retry < Retries(t) /\ me[t].op # "lookup" /\ me[t].cell \in Slots /\ me[t].probe \in Nat
      /\ me[t].count \in Nat /\ (Evicting(t) => me[t].probe < Capacity)
      /\ (~Evicting(t) => me[t].op \in Operations)
  <2>1. pc[t] \in {"write", "seal", "release"}
    BY DEF Transact, Write, Seal, Release
  <2> QED
    BY <2>1 DEF TypeInv, TypeOK, Shape, Owners, Locals, Evicting
<1>2. ASSUME Write(t) PROVE TypeInv' /\ Alone(t)
  <2>1. /\ pc[t] = "write" /\ pc' = [pc EXCEPT ![t] = "seal"]
        /\ sequence' = [sequence EXCEPT ![me[t].cell] = @ + 1] /\ UNCHANGED <<state, counters, calls>>
    BY <1>2 DEF Write
  <2>2. CASE /\ me[t].op \in Storing
             /\ key' = [key EXCEPT ![me[t].cell] = me[t].want]
             /\ value' = [value EXCEPT ![me[t].cell] = NoValue]
             /\ UNCHANGED <<me, taken, takes>>
    <3>1. SharedTypes'
      BY <1>1, <2>1, <2>2 DEF TypeInv, TypeOK, SharedTypes, counters, Locals
    <3>2. Shape(t)'
      BY <1>1, <2>1, <2>2 DEF Shape, Looking, Reading, Owners, TypeInv, TypeOK
    <3> QED
      BY <2>1, <2>2, <3>1, <3>2, TypeGoto DEF Pcs
  <2>3. CASE /\ me[t].op \notin Storing
             /\ key' = [key EXCEPT ![me[t].cell] = NoKey]
             /\ me' = [u \in Threads |->
                          IF u = t THEN [me[t] EXCEPT !.got = value[me[t].cell]]
                          ELSE [me[u] EXCEPT !.there = @ /\ me[u].want # key[me[t].cell]]]
             /\ taken' = taken \cup {value[me[t].cell]} /\ takes' = takes + 1
             /\ UNCHANGED value
    <3> DEFINE g == value[me[t].cell]
               m == [me[t] EXCEPT !.got = g]
    <3>1. g \in Values \cup {NoValue} /\ SharedTypes'
      BY <1>1, <2>1, <2>3 DEF TypeInv, TypeOK, SharedTypes, counters
    <3>2. me'[t] = m /\ \A u \in Threads \ {t} : me'[u] = [me[u] EXCEPT !.there = @ /\ me[u].want # key[me[t].cell]]
      BY <2>3
    <3>3. m \in Locals
      <4> HIDE DEF g
      <4> QED
        BY <1>1, <3>1 DEF Locals
    <3>4. \A u \in Threads \ {t} : /\ me'[u] \in Locals
                                   /\ pc'[u] = pc[u] /\ me'[u].op = me[u].op
                                   /\ me'[u].want = me[u].want /\ me'[u].mine = me[u].mine
                                   /\ me'[u].probe = me[u].probe /\ me'[u].retry = me[u].retry
                                   /\ me'[u].saw = me[u].saw /\ me'[u].tomb = me[u].tomb
                                   /\ me'[u].cell = me[u].cell /\ me'[u].s1 = me[u].s1
                                   /\ me'[u].got = me[u].got /\ me'[u].cut = me[u].cut
                                   /\ me'[u].count = me[u].count
      <4> SUFFICES ASSUME NEW u \in Threads \ {t}
                   PROVE /\ me'[u] \in Locals
                         /\ pc'[u] = pc[u] /\ me'[u].op = me[u].op
                         /\ me'[u].want = me[u].want /\ me'[u].mine = me[u].mine
                         /\ me'[u].probe = me[u].probe /\ me'[u].retry = me[u].retry
                         /\ me'[u].saw = me[u].saw /\ me'[u].tomb = me[u].tomb
                         /\ me'[u].cell = me[u].cell /\ me'[u].s1 = me[u].s1
                         /\ me'[u].got = me[u].got /\ me'[u].cut = me[u].cut
                         /\ me'[u].count = me[u].count
        OBVIOUS
      <4> DEFINE h == me[u].there /\ me[u].want # key[me[t].cell]
      <4>1. me[u] \in Locals /\ h \in BOOLEAN /\ me'[u] = [me[u] EXCEPT !.there = h]
        BY <3>2 DEF TypeInv, TypeOK, Locals
      <4> HIDE DEF h
      <4>2. pc'[u] = pc[u]
        BY <2>1 DEF TypeInv, TypeOK
      <4> QED
        BY <4>1, <4>2 DEF Locals
    <3>5. /\ m.op = me[t].op /\ m.want = me[t].want /\ m.mine = me[t].mine
          /\ m.retry = me[t].retry /\ m.probe = me[t].probe /\ m.cell = me[t].cell /\ pc'[t] = "seal"
      BY <1>1, <2>1 DEF Locals, TypeInv, TypeOK
    <3> HIDE DEF m
    <3>6. me' \in [Threads -> Locals] /\ pc' \in [Threads -> Pcs]
      <4>1. me' = [u \in Threads |-> me'[u]]
        BY <2>3
      <4>2. \A u \in Threads : me'[u] \in Locals
        BY <3>2, <3>3, <3>4
      <4> QED
        BY <2>1, <4>1, <4>2 DEF TypeInv, TypeOK, Pcs
    <3>7. Alone(t)
      BY <3>4 DEF Alone
    <3>8. Shape(t)'
      BY <1>1, <3>2, <3>5 DEF Shape, Evicting, Looking, Reading, Owners
    <3>9. \A u \in Threads \ {t} : Shape(u)'
      BY <3>4 DEF TypeInv, Shape, Placing
    <3>10. \A u \in Threads : pc'[u] # "idle" => me'[u].retry < Retries(u)'
      BY <1>1, <3>2, <3>4, <3>5 DEF TypeInv, TypeOK, Retries, Placing
    <3> QED
      BY <3>1, <3>6, <3>7, <3>8, <3>9, <3>10 DEF TypeInv, TypeOK, SharedTypes
  <2> QED
    BY <1>2, <2>2, <2>3, Zenon DEF Write
<1>3. ASSUME Seal(t) PROVE TypeInv' /\ Alone(t)
  <2>1. /\ pc[t] = "seal" /\ pc' = [pc EXCEPT ![t] = "release"] /\ UNCHANGED <<key, state, counters, me, history>>
    BY <1>3 DEF Seal
  <2>2. me[t].op \in Storing => [key |-> me[t].want, id |-> me[t].mine] \in Values
    BY <1>1, <2>1 DEF Shape, Storing, Values, Locals
  <2>3. SharedTypes'
    BY <1>1, <1>3, <2>1, <2>2 DEF TypeInv, TypeOK, SharedTypes, counters, history, Seal
  <2>4. Shape(t)'
    BY <1>1, <2>1 DEF Shape, Looking, Reading, Owners, TypeInv, TypeOK
  <2> QED
    BY <2>1, <2>3, <2>4, TypeGoto DEF Pcs
<1>4. ASSUME Release(t) PROVE TypeInv' /\ Alone(t)
  <2>1. SharedTypes' /\ pc[t] = "release"
    BY <1>1, <1>4 DEF TypeInv, TypeOK, SharedTypes, counters, history, Release, States
  <2>2. CASE /\ Evicting(t) /\ pc' = [pc EXCEPT ![t] = "scan"]
             /\ me' = [me EXCEPT ![t].probe = @ + 1, ![t].s1 = 0, ![t].got = NoValue,
                                 ![t].cell = None, ![t].count = @ + 1]
    <3> DEFINE p == me[t].probe + 1
               q == me[t].count + 1
               m == [me[t] EXCEPT !.probe = p, !.s1 = 0, !.got = NoValue, !.cell = None, !.count = q]
    <3>1. p \in Nat /\ q \in Nat /\ p <= Capacity
      BY <1>1, <2>2, Sizes
    <3>2. me' = [me EXCEPT ![t] = m]
      BY <2>2 DEF TypeInv, TypeOK
    <3> HIDE DEF p, q
    <3>3. m \in Locals /\ "scan" \in Pcs
      BY <1>1, <3>1, Updates DEF Pcs
    <3>4. /\ m.op = "evict" /\ m.retry = me[t].retry /\ m.probe = p /\ me'[t] = m /\ pc'[t] = "scan"
      BY <1>1, <2>2, <3>2 DEF Locals, TypeInv, TypeOK, Evicting
    <3> HIDE DEF m
    <3>5. Shape(t)'
      BY <3>1, <3>4 DEF Shape, Looking, Reading, Owners
    <3> QED
      BY <1>1, <2>1, <2>2, <3>2, <3>3, <3>4, <3>5, TypeFrom DEF Moves, Retries, Placing, Evicting
  <2>3. CASE /\ me[t].op = "erase" /\ pc' = [pc EXCEPT ![t] = "found"]
             /\ me' = [me EXCEPT ![t].cell = None]
    <3> DEFINE m == [me[t] EXCEPT !.cell = None]
    <3>1. me' = [me EXCEPT ![t] = m] /\ "found" \in Pcs
      BY <2>3 DEF TypeInv, TypeOK, Pcs
    <3>2. m \in Locals
      BY <1>1 DEF Locals
    <3>3. /\ m.op = me[t].op /\ m.want = me[t].want /\ m.mine = me[t].mine
          /\ m.retry = me[t].retry /\ me'[t] = m /\ pc'[t] = "found"
      BY <1>1, <2>3, <3>1 DEF Locals, TypeInv, TypeOK
    <3> HIDE DEF m
    <3>4. Shape(t)'
      BY <1>1, <2>1, <2>3, <3>3 DEF Shape, Looking, Reading, Owners
    <3> QED
      BY <1>1, <2>1, <2>3, <3>1, <3>2, <3>3, <3>4, TypeFrom DEF Moves, Retries, Placing
  <2>4. CASE /\ me[t].op \in Storing /\ pc' = [pc EXCEPT ![t] = "idle"]
             /\ me' = [me EXCEPT ![t] = Fresh]
    <3>1. me'[t] = Fresh /\ pc'[t] = "idle" /\ "idle" \in Pcs
      BY <2>4 DEF TypeInv, TypeOK, Pcs
    <3>2. Shape(t)'
      BY <3>1 DEF Shape, Looking, Reading, Owners, Fresh
    <3> QED
      BY <2>1, <2>4, <3>1, <3>2, FreshType, TypeFrom DEF Moves
  <2> QED
    BY <1>4, <2>2, <2>3, <2>4, Zenon DEF Release, Released
<1> QED
  BY <1>2, <1>3, <1>4 DEF Transact

LEMMA TypeRead ==
  ASSUME TypeInv, NEW t \in Threads, Read(t)
  PROVE  TypeInv' /\ Alone(t)
<1> USE DEF Goto
<1>1. /\ pc[t] \in Reading /\ me[t] \in Locals /\ Shape(t) /\ me[t].retry < Retries(t)
      /\ me[t].op \in {"lookup", "evict"} /\ me[t].probe \in Nat
      /\ (Evicting(t) => me[t].probe < Capacity) /\ (~Evicting(t) => me[t].probe < MaxProbes)
      /\ Here(t) \in Slots
  <2>1. pc[t] \in Reading
    BY DEF Read, ReadSeq1, CopyValue, VerifySeq, Confirm, Reading
  <2>2. /\ me[t] \in Locals /\ Shape(t) /\ me[t].retry < Retries(t)
        /\ me[t].op \in {"lookup", "evict"} /\ me[t].probe \in Nat
        /\ (Evicting(t) => me[t].probe < Capacity) /\ (~Evicting(t) => me[t].probe < MaxProbes)
    BY <2>1 DEF TypeInv, TypeOK, Shape, Locals, Evicting, Reading
  <2> QED
    BY <2>1, <2>2, HereSlot DEF Reading
<1>2. SharedTypes'
  BY DEF TypeInv, TypeOK, SharedTypes, Read, ReadSeq1, CopyValue, VerifySeq, Confirm, table, counters, history
<1>3. CASE Reconsider(t)
  BY <1>1, <1>2, <1>3, TypeReconsider DEF Reading
<1>4. ASSUME NEW to \in Reading \cup {"cas", "found"}, pc' = [pc EXCEPT ![t] = to], me' = me,
             to = "cas" => Evicting(t), to = "found" => ~Evicting(t)
      PROVE  TypeInv' /\ Alone(t)
  <2>1. Shape(t)'
    BY <1>1, <1>4 DEF Shape, Evicting, Looking, Reading, Owners, TypeInv, TypeOK
  <2> QED
    BY <1>1, <1>2, <1>4, <2>1, TypeGoto DEF Reading, Pcs
<1>5. ASSUME NEW m \in Locals, NEW to \in Reading, pc' = [pc EXCEPT ![t] = to],
             me' = [me EXCEPT ![t] = m], m.op = me[t].op, m.want = me[t].want, m.mine = me[t].mine,
             m.retry = me[t].retry, m.probe = me[t].probe
      PROVE  TypeInv' /\ Alone(t)
  <2>1. me'[t] = m /\ pc'[t] = to
    BY <1>5 DEF TypeInv, TypeOK
  <2>2. Shape(t)'
    BY <1>1, <1>5, <2>1 DEF Shape, Evicting, Looking, Reading, Owners
  <2>3. to \in Pcs /\ pc[t] # "idle"
    BY <1>1 DEF Reading, Pcs
  <2>4. m.retry < Retries(t)'
    BY <1>1, <1>5, <2>1 DEF Retries, Placing
  <2> QED
    BY <1>2, <1>5, <2>2, <2>3, <2>4, TypeFrom DEF Moves
<1>6. ASSUME ReadSeq1(t) PROVE TypeInv' /\ Alone(t)
  <2>1. CASE /\ Goto(t, "seq1", "copy") /\ me' = [me EXCEPT ![t].s1 = sequence[Here(t)]]
    <3> DEFINE p == sequence[Here(t)]
               m == [me[t] EXCEPT !.s1 = p]
    <3>1. p \in Nat /\ me' = [me EXCEPT ![t] = m] /\ pc' = [pc EXCEPT ![t] = "copy"]
      BY <1>1, <2>1 DEF TypeInv, TypeOK
    <3> HIDE DEF p
    <3>2. /\ m \in Locals /\ m.op = me[t].op /\ m.want = me[t].want /\ m.mine = me[t].mine
          /\ m.retry = me[t].retry /\ m.probe = me[t].probe
      BY <1>1, <3>1 DEF Locals
    <3> HIDE DEF m
    <3> QED
      BY <1>5, <3>1, <3>2 DEF Reading
  <2> QED
    BY <1>3, <1>6, <2>1, Zenon DEF ReadSeq1
<1>7. ASSUME CopyValue(t) PROVE TypeInv' /\ Alone(t)
  <2> DEFINE g == value[Here(t)]
             m == [me[t] EXCEPT !.got = g]
  <2>1. g \in Values \cup {NoValue} /\ me' = [me EXCEPT ![t] = m] /\ pc' = [pc EXCEPT ![t] = "seq2"]
    BY <1>1, <1>7 DEF CopyValue, TypeInv, TypeOK
  <2> HIDE DEF g
  <2>2. /\ m \in Locals /\ m.op = me[t].op /\ m.want = me[t].want /\ m.mine = me[t].mine
        /\ m.retry = me[t].retry /\ m.probe = me[t].probe
    BY <1>1, <2>1 DEF Locals
  <2> HIDE DEF m
  <2> QED
    BY <1>5, <2>1, <2>2 DEF Reading
<1>8. ASSUME VerifySeq(t) PROVE TypeInv' /\ Alone(t)
  BY <1>3, <1>4, <1>8, "confirm" \in Reading DEF VerifySeq, Reading
<1>9. ASSUME Confirm(t) PROVE TypeInv' /\ Alone(t)
  <2>1. CASE Goto(t, "confirm", IF Evicting(t) THEN "cas" ELSE "found") /\ UNCHANGED me
    BY <1>4, <2>1
  <2> QED
    BY <1>3, <1>9, <2>1, Zenon DEF Confirm
<1> QED
  BY <1>6, <1>7, <1>8, <1>9 DEF Read

LEMMA TypeScan ==
  ASSUME TypeInv, NEW t \in Threads, Evicting(t), Scan(t) \/ EndScan(t)
  PROVE  TypeInv' /\ Alone(t)
<1> USE DEF Goto
<1>1. pc[t] = "scan" /\ me[t] \in Locals /\ me[t].op = "evict" /\ me[t].count \in Nat
  BY DEF Scan, EndScan, TypeInv, TypeOK, Evicting, Locals
<1>2. SharedTypes'
  BY <1>1 DEF TypeInv, TypeOK, SharedTypes, Scan, EndScan, table, counters, history
<1>3. CASE me[t].probe < Capacity /\ pc' = [pc EXCEPT ![t] = "seq1"] /\ me' = me
  <2>1. Shape(t)'
    BY <1>1, <1>3 DEF Shape, Looking, Reading, Owners, TypeInv, TypeOK
  <2> QED
    BY <1>1, <1>2, <1>3, <2>1, TypeGoto DEF Pcs
<1>4. CASE me[t].probe < Capacity /\ NextProbe(t)
  BY <1>1, <1>2, <1>4, TypeNextProbe
<1>5. CASE pc' = [pc EXCEPT ![t] = "idle"] /\ me' = [me EXCEPT ![t] = Fresh]
  <2>1. me'[t] = Fresh /\ pc'[t] = "idle" /\ "idle" \in Pcs
    BY <1>5 DEF TypeInv, TypeOK, Pcs
  <2>2. Shape(t)'
    BY <2>1 DEF Shape, Looking, Reading, Owners, Fresh
  <2> QED
    BY <1>2, <1>5, <2>1, <2>2, FreshType, TypeFrom DEF Moves
<1> QED
  BY <1>3, <1>4, <1>5 DEF Scan, EndScan

LEMMA TypeReturn ==
  ASSUME TypeInv, NEW t \in Threads, Return(t)
  PROVE  TypeInv' /\ Alone(t)
<1>1. SharedTypes'
  BY DEF TypeInv, TypeOK, SharedTypes, Return, table, counters, history
<1>2. me'[t] = Fresh /\ pc'[t] = "idle" /\ "idle" \in Pcs
  BY DEF Return, TypeInv, TypeOK, Pcs
<1>3. Shape(t)'
  BY <1>2 DEF Shape, Looking, Reading, Owners, Fresh
<1> QED
  BY <1>1, <1>2, <1>3, FreshType, TypeFrom DEF Moves, Return

LEMMA TypeBegin ==
  ASSUME TypeInv, NEW c \in Calls, Begin(c)
  PROVE  TypeInv' /\ c.by \in Threads /\ Alone(c.by)
<1> DEFINE t == c.by
           n == calls + 1
           h == Holds(c.key)
           m == [Fresh EXCEPT !.op = c.op, !.want = c.key, !.mine = n, !.there = h]
<1>1. t \in Threads /\ c.op \in Operations /\ c.key \in Keys
  BY Names
<1>2. n \in 1..MaxCalls /\ h \in BOOLEAN
  BY Sizes DEF Begin, TypeInv, TypeOK, Holds
<1>3. me' = [me EXCEPT ![t] = m] /\ pc' = [pc EXCEPT ![t] = "load"] /\ calls' = n
  BY DEF Begin, Goto
<1>4. SharedTypes'
  BY <1>2, <1>3, Sizes DEF Begin, TypeInv, TypeOK, SharedTypes, table, counters
<1> HIDE DEF n, h
<1>5. m \in Locals /\ "load" \in Pcs
  <2>1. n \in 0..MaxCalls
    BY <1>2
  <2>2. c.op \in Operations \cup {"evict", "none"} /\ c.key \in Keys \cup {NoKey}
    BY <1>1
  <2>3. ASSUME NEW o \in Operations \cup {"evict", "none"}, NEW k \in Keys \cup {NoKey}
        PROVE  [Fresh EXCEPT !.op = o, !.want = k, !.mine = n, !.there = h] \in Locals
    BY <1>2, <2>1, FreshType DEF Locals
  <2> QED
    BY <2>2, <2>3 DEF Pcs
<1>6. /\ m.op = c.op /\ m.want = c.key /\ m.mine = n /\ m.retry = 0 /\ m.probe = 0
      /\ me'[t] = m /\ pc'[t] = "load"
  BY <1>1, <1>3 DEF Fresh, TypeInv, TypeOK
<1> HIDE DEF m
<1>7. Shape(t)'
  BY <1>1, <1>2, <1>6, Sizes DEF Shape, Looking, Reading, Owners, Operations, Storing
<1>8. m.retry < Retries(t)'
  BY <1>6, Sizes DEF Retries
<1> QED
  BY <1>1, <1>3, <1>4, <1>5, <1>7, <1>8, TypeFrom DEF Moves

LEMMA TypeBeginEvict ==
  ASSUME TypeInv, NEW t \in Evictors, BeginEvict(t)
  PROVE  TypeInv' /\ t \in Threads /\ Alone(t)
<1> DEFINE n == IF calls > MaxAge THEN calls - MaxAge ELSE 0
           m == [Fresh EXCEPT !.op = "evict", !.cut = n]
<1>1. t \in Threads /\ n \in Nat
  BY Names, Sizes DEF TypeInv, TypeOK
<1>2. me' = [me EXCEPT ![t] = m] /\ pc' = [pc EXCEPT ![t] = "scan"]
  BY DEF BeginEvict, Goto
<1>3. SharedTypes'
  BY Sizes DEF BeginEvict, TypeInv, TypeOK, SharedTypes, table, counters
<1> HIDE DEF n
<1>4. m \in Locals /\ "scan" \in Pcs
  BY <1>1, FreshType DEF Locals, Pcs
<1>5. /\ m.op = "evict" /\ m.retry = 0 /\ m.probe = 0
      /\ me'[t] = m /\ pc'[t] = "scan"
  BY <1>1, <1>2 DEF Fresh, TypeInv, TypeOK
<1> HIDE DEF m
<1>6. Shape(t)'
  BY <1>5, Sizes DEF Shape, Looking, Reading, Owners
<1>7. m.retry < Retries(t)'
  BY <1>5, Sizes DEF Retries
<1> QED
  BY <1>1, <1>2, <1>3, <1>4, <1>6, <1>7, TypeFrom DEF Moves

(* The steps of a thread, each with what it may rely on.                   *)
LEMMA StepCases ==
  ASSUME NEW t \in Threads, Step(t)
  PROVE  \/ ~Evicting(t) /\ Probe(t)
         \/ Take(t) \/ Place(t) \/ Transact(t) \/ Read(t)
         \/ Evicting(t) /\ (Scan(t) \/ EndScan(t))
         \/ Return(t)
  BY DEF Step, insert, upsert, update, find_and_erase, lookup, evict_stale, Evicting

LEMMA TypeStep ==
  ASSUME TypeInv, NEW t \in Threads, Step(t)
  PROVE  TypeInv' /\ Alone(t)
  BY StepCases, TypeProbe, TypeTake, TypePlace, TypeTransact, TypeRead, TypeScan, TypeReturn

LEMMA TypeNext == TypeInv /\ [Next]_vars => TypeInv'
<1> SUFFICES ASSUME TypeInv, [Next]_vars PROVE TypeInv'
  OBVIOUS
<1>1. CASE UNCHANGED vars
  BY <1>1 DEF TypeInv, TypeOK, Shape, vars, table, counters, history, Retries, Placing
<1> QED
  BY <1>1, TypeBegin, TypeBeginEvict, TypeStep DEF Next

(* TypeOK: every operation keeps to its own steps, a slot that is owned    *)
(* exists, and no search begins more passes than its limit.                *)
THEOREM TypeCorrect == Spec => []TypeOK
<1>1. TypeInv => TypeOK
  BY DEF TypeInv
<1> QED
  BY <1>1, TypeInit, TypeNext, PTL DEF Spec

-----------------------------------------------------------------------------
(* What a step does to the slots: it leaves them alone, takes one that is  *)
(* not WRITING, gives one back unchanged, or is the write, seal or release *)
(* of a slot the thread owns.                                              *)
Same(t) == me'[t].op = me[t].op /\ me'[t].want = me[t].want /\ me'[t].mine = me[t].mine

Quiet(t) ==
    /\ UNCHANGED table
    /\ \/ pc'[t] \notin Owners
       \/ pc[t] = "recheck" /\ pc'[t] = "write" /\ StillMine(t) /\ me' = me

Takes(t, s) ==
    /\ state' = [state EXCEPT ![s] = "WRITING"] /\ UNCHANGED <<sequence, key, value>>
    /\ Same(t) /\ me'[t].cell = s
    /\ \/ pc[t] = "cas" /\ pc'[t] = "recheck" /\ state[s] = "VALID" /\ s = Here(t)
       \/ pc[t] = "claimEmpty" /\ pc'[t] = "write" /\ state[s] = "EMPTY" /\ s = Here(t)
       \/ /\ pc[t] = "claimTomb" /\ pc'[t] = "write" /\ state[s] \in {"EMPTY", "TOMBSTONE"}
          /\ s = me[t].tomb

GivesBack(t) ==
    /\ pc[t] = "recheck" /\ pc'[t] \notin Owners
    /\ state' = [state EXCEPT ![me[t].cell] = "VALID"] /\ UNCHANGED <<sequence, key, value>>

Transacts(t) == Transact(t) /\ (Release(t) => pc'[t] \notin Owners) /\ (~Release(t) => Same(t) /\ me'[t].cell = me[t].cell)

Effect(t) == Quiet(t) \/ (\E s \in Slots : Takes(t, s)) \/ GivesBack(t) \/ Transacts(t)

LEMMA NextProbeEffect ==
  ASSUME TypeInv, NEW t \in Threads, NextProbe(t) \/ Reconsider(t) \/ Again(t)
  PROVE  pc'[t] \notin Owners
  BY DEF NextProbe, Reconsider, Again, Owners, TypeInv, TypeOK

LEMMA OwnEffect ==
  ASSUME TypeInv, NEW t \in Threads, NEW s \in Slots, NEW to \in Pcs, Own(t, s, to)
  PROVE  Same(t) /\ me'[t].cell = s /\ pc'[t] = to
  BY DEF Own, Same, TypeInv, TypeOK, Locals

LEMMA StepEffect ==
  ASSUME TypeInv, NEW t \in Threads, Step(t)
  PROVE  Effect(t)
<1> USE DEF Goto
<1>1. pc \in [Threads -> Pcs] /\ Shape(t)
  BY DEF TypeInv, TypeOK
<1>2. ASSUME ~Evicting(t), Probe(t) PROVE Quiet(t)
  <2>1. UNCHANGED table
    BY <1>2 DEF Probe, PassWriter, PassTombstone, SeeValid, SeeEmpty, EndOfChain, CompareKey
  <2>2. pc'[t] \notin Owners
    BY <1>1, <1>2, NextProbeEffect DEF Probe, PassWriter, PassTombstone, SeeValid, SeeEmpty, EndOfChain, CompareKey, Loads, Owners
  <2> QED
    BY <2>1, <2>2 DEF Quiet
<1>3. ASSUME Read(t) PROVE Quiet(t)
  <2>1. UNCHANGED table
    BY <1>3 DEF Read, ReadSeq1, CopyValue, VerifySeq, Confirm
  <2>2. pc'[t] \notin Owners
    BY <1>1, <1>3, NextProbeEffect DEF Read, ReadSeq1, CopyValue, VerifySeq, Confirm, Owners
  <2> QED
    BY <2>1, <2>2 DEF Quiet
<1>4. ASSUME Scan(t) \/ EndScan(t) \/ Return(t) PROVE Quiet(t)
  BY <1>1, <1>4, NextProbeEffect DEF Quiet, Scan, EndScan, Return, Owners
<1>5. ASSUME ClaimFound(t) PROVE Effect(t)
  <2>1. Here(t) \in Slots /\ pc[t] = "cas" /\ UNCHANGED <<sequence, key, value>>
    BY <1>1, <1>5, HereSlot DEF ClaimFound, Shape, Evicting
  <2>2. CASE state[Here(t)] = "VALID" /\ Own(t, Here(t), "recheck")
    <3>1. Same(t) /\ me'[t].cell = Here(t) /\ pc'[t] = "recheck"
      BY <2>1, <2>2, OwnEffect DEF Pcs
    <3> QED
      BY <2>1, <2>2, <3>1 DEF Effect, Takes, Own
  <2>3. CASE Reconsider(t) /\ UNCHANGED state
    BY <2>1, <2>3, NextProbeEffect DEF Effect, Quiet, table
  <2> QED
    BY <1>5, <2>2, <2>3, Zenon DEF ClaimFound
<1>6. ASSUME Recheck(t) PROVE Effect(t)
  <2>1. pc[t] = "recheck" /\ UNCHANGED <<sequence, key, value>>
    BY <1>6 DEF Recheck
  <2>2. CASE StillMine(t) /\ pc' = [pc EXCEPT ![t] = "write"] /\ UNCHANGED <<state, me>>
    BY <1>1, <2>1, <2>2 DEF Effect, Quiet, table
  <2>3. CASE state' = [state EXCEPT ![me[t].cell] = "VALID"] /\ NextProbe(t)
    BY <2>1, <2>3, NextProbeEffect DEF Effect, GivesBack
  <2> QED
    BY <1>6, <2>2, <2>3, Zenon DEF Recheck
<1>7. ASSUME ClaimEmpty(t) PROVE Effect(t)
  <2>1. Here(t) \in Slots /\ pc[t] = "claimEmpty" /\ UNCHANGED <<sequence, key, value>>
    BY <1>1, <1>7, HereSlot DEF ClaimEmpty, Shape, Evicting, Placing
  <2>2. CASE state[Here(t)] = "EMPTY" /\ Own(t, Here(t), "write")
    <3>1. Same(t) /\ me'[t].cell = Here(t) /\ pc'[t] = "write"
      BY <2>1, <2>2, OwnEffect DEF Pcs
    <3> QED
      BY <2>1, <2>2, <3>1 DEF Effect, Takes, Own
  <2>3. CASE Reconsider(t) /\ UNCHANGED state
    BY <2>1, <2>3, NextProbeEffect DEF Effect, Quiet, table
  <2> QED
    BY <1>7, <2>2, <2>3, Zenon DEF ClaimEmpty
<1>8. ASSUME ClaimTombstone(t) PROVE Effect(t)
  <2>1. me[t].tomb \in Slots /\ pc[t] = "claimTomb" /\ UNCHANGED <<sequence, key, value>>
    BY <1>1, <1>8 DEF ClaimTombstone, Shape
  <2>2. CASE state[me[t].tomb] \in {"EMPTY", "TOMBSTONE"} /\ Own(t, me[t].tomb, "write")
    <3>1. Same(t) /\ me'[t].cell = me[t].tomb /\ pc'[t] = "write"
      BY <2>1, <2>2, OwnEffect DEF Pcs
    <3> QED
      BY <2>1, <2>2, <3>1 DEF Effect, Takes, Own
  <2>3. CASE Again(t) /\ UNCHANGED state
    BY <2>1, <2>3, NextProbeEffect DEF Effect, Quiet, table
  <2> QED
    BY <1>8, <2>2, <2>3, Zenon DEF ClaimTombstone
<1>9. ASSUME Transact(t) PROVE Transacts(t)
  <2>1. ASSUME Release(t) PROVE pc'[t] \notin Owners
    BY <1>1, <2>1 DEF Release, Released, Owners
  <2>2. ASSUME Write(t) PROVE Same(t) /\ me'[t].cell = me[t].cell
    <3>1. CASE UNCHANGED me
      BY <3>1 DEF Same
    <3>2. CASE me'[t] = [me[t] EXCEPT !.got = value[me[t].cell]]
      BY <3>2 DEF Same, TypeInv, TypeOK, Locals
    <3> QED
      BY <2>2, <3>1, <3>2 DEF Write
  <2>3. ASSUME Seal(t) PROVE Same(t) /\ me'[t].cell = me[t].cell
    BY <2>3 DEF Seal, Same
  <2> QED
    BY <1>9, <2>1, <2>2, <2>3 DEF Transact, Transacts
<1> QED
  BY <1>2, <1>3, <1>4, <1>5, <1>6, <1>7, <1>8, <1>9, StepCases DEF Effect, Take, Place

(* A thread stays with its call until it returns.                          *)
LEMMA StepCall ==
  ASSUME TypeInv, NEW t \in Threads, Step(t)
  PROVE  Same(t) \/ (pc'[t] = "idle" /\ me'[t] = Fresh)
<1> USE DEF Goto
<1>1. pc \in [Threads -> Pcs] /\ me \in [Threads -> Locals] /\ me[t] \in Locals
  BY DEF TypeInv, TypeOK
<1>2. ASSUME NextProbe(t) \/ Reconsider(t) \/ Again(t) PROVE Same(t)
  BY <1>1, <1>2 DEF NextProbe, Reconsider, Again, Same, Locals
<1>3. ASSUME Probe(t) PROVE Same(t)
  BY <1>1, <1>2, <1>3 DEF Probe, PassWriter, PassTombstone, SeeValid, SeeEmpty, EndOfChain, CompareKey, Same, Locals
<1>4. ASSUME NEW s, NEW to, Own(t, s, to) PROVE Same(t)
  BY <1>1, <1>4 DEF Own, Same, Locals
<1>5. ASSUME Take(t) \/ Place(t) PROVE Same(t)
  BY <1>2, <1>4, <1>5 DEF Take, Place, ClaimFound, Recheck, ClaimEmpty, ClaimTombstone, Same
<1>6. ASSUME Read(t) PROVE Same(t)
  BY <1>1, <1>2, <1>6 DEF Read, ReadSeq1, CopyValue, VerifySeq, Confirm, Same, Locals
<1>7. ASSUME Scan(t) \/ EndScan(t) \/ Return(t) PROVE Same(t) \/ (pc'[t] = "idle" /\ me'[t] = Fresh)
  BY <1>1, <1>2, <1>7 DEF Scan, EndScan, Return, Same
<1>8. ASSUME Transact(t), ~Release(t) PROVE Same(t)
  BY <1>8, StepEffect DEF Transacts, Transact, Write, Seal, Same, TypeInv, TypeOK, Locals
<1>9. ASSUME Release(t) PROVE Same(t) \/ (pc'[t] = "idle" /\ me'[t] = Fresh)
  BY <1>1, <1>9 DEF Release, Released, Same, Locals
<1> QED
  BY <1>3, <1>5, <1>6, <1>7, <1>8, <1>9, StepCases

-----------------------------------------------------------------------------
(* Ownership and the contents of slots.  A VALID slot stays whole because  *)
(* only its owner writes to it, from an even sequence over an odd one to   *)
(* the next even one, and what the owner writes is one key with its value. *)

Whole(s) == value[s] \in Values /\ value[s].key = key[s] /\ sequence[s] % 2 = 0

Settled(s) ==
    /\ state[s] = "VALID" => Whole(s)
    /\ state[s] \in {"EMPTY", "TOMBSTONE"} => sequence[s] % 2 = 0

Content(t) ==
    /\ pc[t] = "recheck" => Whole(me[t].cell)
    /\ pc[t] = "write" =>
          /\ sequence[me[t].cell] % 2 = 0
          /\ me[t].op \notin Storing => Whole(me[t].cell)
          /\ me[t].op = "erase" => key[me[t].cell] = me[t].want
    /\ pc[t] = "seal" =>
          /\ sequence[me[t].cell] % 2 = 1
          /\ IF me[t].op \in Storing THEN key[me[t].cell] = me[t].want ELSE value[me[t].cell] \in Values
    /\ pc[t] = "release" =>
          /\ sequence[me[t].cell] % 2 = 0
          /\ me[t].op \in Storing => Whole(me[t].cell)

SlotInv == OneOwner /\ (\A s \in Slots : Settled(s)) /\ (\A t \in Threads : Content(t))

LEMMA SlotInit == Init => SlotInv
<1> SUFFICES ASSUME Init PROVE SlotInv
  OBVIOUS
<1>1. OneOwner /\ \A t \in Threads : Content(t)
  BY DEF Init, OneOwner, Owners, Content
<1>2. \A s \in Slots : Settled(s)
  BY DEF Init, Settled
<1> QED
  BY <1>1, <1>2 DEF SlotInv

(* Slots that a step of another thread leaves alone keep their contents.   *)
LEMMA ContentStable ==
  ASSUME SlotInv, NEW t \in Threads, NEW u \in Threads \ {t}, Alone(t),
         pc[u] \in Owners => /\ sequence'[me[u].cell] = sequence[me[u].cell]
                             /\ key'[me[u].cell] = key[me[u].cell]
                             /\ value'[me[u].cell] = value[me[u].cell]
  PROVE  Content(u)'
  BY DEF SlotInv, Content, Whole, Alone, Owners

(* A thread that owns no slot, or the same as before, after a step that    *)
(* leaves the states of owned slots alone.                                 *)
LEMMA OwnerStable ==
  ASSUME TypeInv, SlotInv, NEW t \in Threads, Alone(t),
         \A u \in Threads \ {t} : pc[u] \in Owners => state'[me[u].cell] = "WRITING",
         pc'[t] \in Owners => /\ state'[me'[t].cell] = "WRITING"
                              /\ \A u \in Threads \ {t} : pc[u] \in Owners => me[u].cell # me'[t].cell
  PROVE  OneOwner'
  BY DEF SlotInv, OneOwner, Alone

LEMMA SlotStep ==
  ASSUME TypeInv, TypeInv', SlotInv, NEW t \in Threads, Alone(t), Effect(t)
  PROVE  SlotInv'
<1>1. /\ \A u \in Threads : pc[u] \in Owners => me[u].cell \in Slots /\ state[me[u].cell] = "WRITING"
      /\ \A u \in Threads \ {t} : pc[u] \in Owners /\ pc[t] \in Owners => me[u].cell # me[t].cell
  BY DEF TypeInv, Shape, SlotInv, OneOwner
<1>2. /\ sequence \in [Slots -> Nat] /\ key \in [Slots -> Keys \cup {NoKey}]
      /\ state \in [Slots -> States] /\ value \in [Slots -> Values \cup {NoValue}]
  BY DEF TypeInv, TypeOK
<1>3. CASE Quiet(t)
  <2>1. UNCHANGED <<sequence, key, state, value>>
    BY <1>3 DEF Quiet, table
  <2>2. OneOwner'
    BY <1>1, <1>3, <2>1, OwnerStable DEF Quiet, Owners
  <2>3. \A s \in Slots : Settled(s)'
    BY <2>1 DEF SlotInv, Settled, Whole
  <2>4. Content(t)'
    <3>1. CASE pc'[t] \notin Owners
      BY <3>1 DEF Content, Owners
    <3>2. CASE pc[t] = "recheck" /\ pc'[t] = "write" /\ StillMine(t) /\ me' = me
      <4>1. Whole(me[t].cell)
        BY <3>2 DEF SlotInv, Content
      <4>2. me[t].op = "erase" => key[me[t].cell] = me[t].want
        BY <3>2 DEF StillMine, Evicting
      <4> QED
        BY <2>1, <3>2, <4>1, <4>2 DEF Content, Whole
    <3> QED
      BY <1>3, <3>1, <3>2 DEF Quiet
  <2> QED
    BY <2>1, <2>2, <2>3, <2>4, ContentStable DEF SlotInv
<1>4. ASSUME NEW s \in Slots, Takes(t, s) PROVE SlotInv'
  <2>1. /\ UNCHANGED <<sequence, key, value>> /\ state' = [state EXCEPT ![s] = "WRITING"]
        /\ me'[t].cell = s /\ state[s] # "WRITING" /\ pc'[t] \in Owners
    BY <1>4 DEF Takes, Owners
  <2>2. OneOwner'
    BY <1>1, <1>2, <2>1, OwnerStable
  <2>3. \A r \in Slots : Settled(r)'
    BY <1>2, <2>1 DEF SlotInv, Settled, Whole
  <2>4. Content(t)'
    <3>1. Settled(s)
      BY DEF SlotInv
    <3>2. CASE pc'[t] = "recheck" /\ state[s] = "VALID"
      BY <2>1, <3>1, <3>2 DEF Settled, Content, Whole
    <3>3. CASE pc[t] \in {"claimEmpty", "claimTomb"} /\ pc'[t] = "write" /\ state[s] \in {"EMPTY", "TOMBSTONE"}
      <4>1. me'[t].op \in Storing \ {"erase"}
        BY <1>4, <3>3 DEF Takes, Same, TypeInv, Shape, Placing, Storing
      <4> QED
        BY <2>1, <3>1, <3>3, <4>1 DEF Settled, Content
    <3> QED
      BY <1>4, <3>2, <3>3 DEF Takes
  <2> QED
    BY <2>1, <2>2, <2>3, <2>4, ContentStable DEF SlotInv
<1>5. CASE GivesBack(t)
  <2>1. /\ UNCHANGED <<sequence, key, value>> /\ state' = [state EXCEPT ![me[t].cell] = "VALID"]
        /\ pc[t] = "recheck" /\ pc'[t] \notin Owners /\ pc[t] \in Owners /\ me[t].cell \in Slots
    BY <1>1, <1>5 DEF GivesBack, Owners
  <2>2. OneOwner'
    BY <1>1, <1>2, <2>1, OwnerStable
  <2>3. \A r \in Slots : Settled(r)'
    BY <1>2, <2>1 DEF SlotInv, Settled, Whole, Content
  <2>4. Content(t)'
    BY <2>1 DEF Content, Owners
  <2> QED
    BY <2>1, <2>2, <2>3, <2>4, ContentStable DEF SlotInv
<1>6. ASSUME Transacts(t), Write(t) PROVE SlotInv'
  <2> DEFINE c == me[t].cell
  <2>1. /\ pc[t] = "write" /\ pc'[t] = "seal" /\ pc[t] \in Owners /\ pc'[t] \in Owners
        /\ sequence' = [sequence EXCEPT ![c] = @ + 1] /\ state' = state
    BY <1>6 DEF Write, Goto, Owners, TypeInv, TypeOK
  <2>2. /\ Same(t) /\ me'[t].cell = c
    BY <1>6, <2>1 DEF Transacts, Release
  <2>3. /\ key' = [key EXCEPT ![c] = key'[c]] /\ value' = [value EXCEPT ![c] = value'[c]]
        /\ me[t].op \in Storing => key'[c] = me[t].want
    BY <1>1, <1>2, <1>6, <2>1 DEF Write
  <2>4. OneOwner'
    BY <1>1, <2>1, <2>2, OwnerStable
  <2>5. \A r \in Slots : Settled(r)'
    BY <1>1, <1>2, <2>1, <2>3 DEF SlotInv, Settled, Whole
  <2>6. Content(t)'
    <3>1. sequence[c] % 2 = 0 /\ sequence[c] \in Nat /\ c \in Slots
      BY <1>1, <1>2, <2>1 DEF SlotInv, Content
    <3>2. sequence'[c] % 2 = 1
      BY <1>2, <2>1, <3>1
    <3>3. me[t].op \notin Storing => value'[c] \in Values
      BY <1>6, <2>1 DEF Write, SlotInv, Content, Whole
    <3> QED
      BY <2>1, <2>2, <2>3, <3>2, <3>3 DEF Content, Same
  <2>7. \A u \in Threads \ {t} : Content(u)'
    BY <1>1, <1>2, <2>1, <2>3, ContentStable
  <2> QED
    BY <2>4, <2>5, <2>6, <2>7 DEF SlotInv
<1>7. ASSUME Transacts(t), Seal(t) PROVE SlotInv'
  <2> DEFINE c == me[t].cell
  <2>1. /\ pc[t] = "seal" /\ pc'[t] = "release" /\ pc[t] \in Owners /\ pc'[t] \in Owners
        /\ sequence' = [sequence EXCEPT ![c] = @ + 1] /\ state' = state /\ key' = key
    BY <1>7 DEF Seal, Goto, Owners, TypeInv, TypeOK
  <2>2. /\ Same(t) /\ me'[t].cell = c /\ c \in Slots
    BY <1>1, <1>7, <2>1 DEF Transacts, Release
  <2>3. /\ value' = [value EXCEPT ![c] = value'[c]]
        /\ me[t].op \in Storing => value'[c] = [key |-> me[t].want, id |-> me[t].mine]
    BY <1>2, <1>7, <2>2 DEF Seal
  <2>4. OneOwner'
    BY <1>1, <2>1, <2>2, OwnerStable
  <2>5. \A r \in Slots : Settled(r)'
    BY <1>1, <1>2, <2>1, <2>3 DEF SlotInv, Settled, Whole
  <2>6. Content(t)'
    <3>1. sequence[c] % 2 = 1 /\ sequence[c] \in Nat
      BY <1>2, <2>1, <2>2 DEF SlotInv, Content
    <3>2. sequence'[c] % 2 = 0
      BY <1>2, <2>1, <2>2, <3>1
    <3>3. ASSUME me[t].op \in Storing PROVE value'[c] \in Values /\ value'[c].key = key'[c]
      <4>1. me[t].want \in Keys /\ me[t].mine \in 1..MaxCalls
        BY <2>1, <3>3 DEF TypeInv, TypeOK, Shape, Storing, Locals
      <4>2. key[c] = me[t].want
        BY <2>1, <3>3 DEF SlotInv, Content
      <4> QED
        BY <2>1, <2>3, <3>3, <4>1, <4>2 DEF Values
    <3> QED
      BY <2>1, <2>2, <3>2, <3>3 DEF Content, Same, Whole
  <2>7. \A u \in Threads \ {t} : Content(u)'
    BY <1>1, <1>2, <2>1, <2>3, ContentStable
  <2> QED
    BY <2>4, <2>5, <2>6, <2>7 DEF SlotInv
<1>8. ASSUME Transacts(t), Release(t) PROVE SlotInv'
  <2>1. /\ UNCHANGED <<sequence, key, value>> /\ pc[t] = "release" /\ pc[t] \in Owners /\ pc'[t] \notin Owners
        /\ state' = [state EXCEPT ![me[t].cell] = IF me[t].op \in Storing THEN "VALID" ELSE "TOMBSTONE"]
        /\ me[t].cell \in Slots
    BY <1>1, <1>8 DEF Release, Transacts, Owners
  <2>2. OneOwner'
    BY <1>1, <1>2, <2>1, OwnerStable
  <2>3. \A r \in Slots : Settled(r)'
    BY <1>2, <2>1 DEF SlotInv, Settled, Whole, Content
  <2>4. Content(t)'
    BY <2>1 DEF Content, Owners
  <2> QED
    BY <2>1, <2>2, <2>3, <2>4, ContentStable DEF SlotInv
<1> QED
  BY <1>3, <1>4, <1>5, <1>6, <1>7, <1>8 DEF Effect, Transacts, Transact

LEMMA BeginQuiet ==
  /\ \A c \in Calls : TypeInv /\ Begin(c) => Quiet(c.by)
  /\ \A t \in Evictors : TypeInv /\ BeginEvict(t) => Quiet(t)
  BY Names DEF Begin, BeginEvict, Goto, Quiet, Owners, TypeInv, TypeOK

LEMMA SlotNext == TypeInv /\ SlotInv /\ [Next]_vars => SlotInv'
<1> SUFFICES ASSUME TypeInv, SlotInv, [Next]_vars PROVE SlotInv'
  OBVIOUS
<1>1. ASSUME NEW c \in Calls, Begin(c) PROVE SlotInv'
  <2>1. Quiet(c.by)
    BY <1>1, BeginQuiet
  <2> QED
    BY <1>1, <2>1, TypeBegin, SlotStep DEF Effect
<1>2. ASSUME NEW t \in Evictors, BeginEvict(t) PROVE SlotInv'
  <2>1. Quiet(t)
    BY <1>2, BeginQuiet
  <2> QED
    BY <1>2, <2>1, TypeBeginEvict, SlotStep DEF Effect
<1>3. ASSUME NEW t \in Threads, Step(t) PROVE SlotInv'
  BY <1>3, TypeStep, StepEffect, SlotStep
<1>4. CASE UNCHANGED vars
  BY <1>4 DEF SlotInv, OneOwner, Settled, Content, Whole, vars, table
<1> QED
  BY <1>1, <1>2, <1>3, <1>4 DEF Next

LEMMA SlotAlways == Spec => [](TypeInv /\ SlotInv)
<1>1. Init => TypeInv /\ SlotInv
  BY TypeInit, SlotInit
<1>2. TypeInv /\ SlotInv /\ [Next]_vars => (TypeInv /\ SlotInv)'
  BY TypeNext, SlotNext
<1> QED
  BY <1>1, <1>2, PTL DEF Spec

(* OneOwner: the compare-exchange of the state makes each slot the         *)
(* property of at most one thread until that thread releases it.           *)
THEOREM OneOwnerAlways == Spec => []OneOwner
<1>1. SlotInv => OneOwner
  BY DEF SlotInv
<1> QED
  BY <1>1, SlotAlways, PTL

(* ValidWhole: a VALID slot holds a whole value under its own key, with an *)
(* even sequence.                                                          *)
THEOREM ValidAlwaysWhole == Spec => []ValidWhole
<1>1. SlotInv => ValidWhole
  BY DEF SlotInv, Settled, Whole, ValidWhole
<1> QED
  BY <1>1, SlotAlways, PTL

-----------------------------------------------------------------------------
(* What find_and_erase and lookup return.  A slot's value changes only     *)
(* together with its sequence, which never goes back; so while the         *)
(* sequence is what lookup read, the copy is what the slot holds.          *)

Written(s) ==
    /\ sequence[s] = 0 => key[s] = NoKey
    /\ sequence[s] > 0 /\ sequence[s] % 2 = 0 => value[s] \in Values

Erased(t) ==
    pc[t] \in {"seal", "release", "found"} /\ me[t].op = "erase" =>
        me[t].got \in Values /\ me[t].got.key = me[t].want

Seen(t) ==
    me[t].op = "lookup" =>
        /\ pc[t] \in Reading \cup {"found"} => sequence[Here(t)] > 0
        /\ pc[t] \in {"copy", "seq2", "confirm", "found"} =>
              me[t].s1 % 2 = 0 /\ me[t].s1 <= sequence[Here(t)]
        /\ pc[t] \in {"seq2", "confirm", "found"} =>
              (sequence[Here(t)] = me[t].s1 => me[t].got = value[Here(t)])
        /\ pc[t] \in {"confirm", "found"} => me[t].got \in Values
        /\ pc[t] = "found" => me[t].got.key = me[t].want \/ sequence[Here(t)] # me[t].s1

FindInv ==
    /\ \A s \in Slots : Written(s)
    /\ \A t \in Threads : Erased(t) /\ Seen(t)

LEMMA FindInit == Init => FindInv
<1> SUFFICES ASSUME Init PROVE FindInv
  OBVIOUS
<1>1. \A s \in Slots : Written(s)
  BY DEF Init, Written
<1>2. \A t \in Threads : Erased(t) /\ Seen(t)
  BY DEF Init, Erased, Seen, Fresh
<1> QED
  BY <1>1, <1>2 DEF FindInv

LEMMA Generations ==
  ASSUME TypeInv, TypeInv', SlotInv, FindInv, NEW t \in Threads, Effect(t), NEW s \in Slots
  PROVE  /\ sequence[s] <= sequence'[s] /\ Written(s)'
         /\ sequence'[s] = sequence[s] => value'[s] = value[s] /\ key'[s] = key[s]
<1>1. /\ sequence \in [Slots -> Nat] /\ key \in [Slots -> Keys \cup {NoKey}]
      /\ value \in [Slots -> Values \cup {NoValue}] /\ sequence'[s] \in Nat /\ Written(s)
      /\ pc[t] \in Owners => me[t].cell \in Slots
  BY DEF TypeInv, TypeOK, FindInv, Shape
<1>2. CASE sequence'[s] = sequence[s] /\ value'[s] = value[s] /\ key'[s] = key[s]
  BY <1>1, <1>2 DEF Written
<1>3. ASSUME Transact(t), ~Release(t) PROVE sequence' = [sequence EXCEPT ![me[t].cell] = @ + 1] /\ pc[t] \in Owners
  BY <1>3 DEF Transact, Write, Seal, Goto, Owners
<1>4. ASSUME Transact(t), ~Release(t), s # me[t].cell PROVE value'[s] = value[s] /\ key'[s] = key[s]
  BY <1>1, <1>4 DEF Transact, Write, Seal
<1>5. CASE Transact(t) /\ ~Release(t) /\ s = me[t].cell
  <2>1. sequence'[s] = sequence[s] + 1 /\ sequence[s] \in Nat
    BY <1>1, <1>3, <1>5
  <2>2. CASE Write(t)
    <3>1. sequence[s] % 2 = 0
      BY <1>5, <2>2 DEF SlotInv, Content, Write, Goto
    <3>2. sequence'[s] % 2 # 0
      BY <2>1, <3>1
    <3> QED
      BY <2>1, <3>2 DEF Written
  <2>3. CASE Seal(t)
    <3>1. pc[t] = "seal" /\ pc'[t] = "release"
      BY <2>3 DEF Seal, Goto, TypeInv, TypeOK
    <3>2. CASE me[t].op \in Storing
      <4>1. [key |-> me[t].want, id |-> me[t].mine] \in Values
        BY <3>1, <3>2 DEF TypeInv, TypeOK, Shape, Storing, Locals, Values
      <4>2. value'[s] = [key |-> me[t].want, id |-> me[t].mine]
        BY <1>1, <1>5, <2>3, <3>2 DEF Seal
      <4> QED
        BY <2>1, <4>1, <4>2 DEF Written
    <3>3. CASE me[t].op \notin Storing
      BY <1>5, <2>1, <2>3, <3>1, <3>3 DEF Seal, SlotInv, Content, Written
    <3> QED
      BY <3>2, <3>3
  <2> QED
    BY <1>5, <2>2, <2>3 DEF Transact
<1>6. CASE Quiet(t) \/ (\E r \in Slots : Takes(t, r)) \/ GivesBack(t) \/ Release(t)
  BY <1>2, <1>6 DEF Quiet, Takes, GivesBack, Release, table
<1> QED
  BY <1>1, <1>2, <1>3, <1>4, <1>5, <1>6 DEF Effect, Transacts

LEMMA SeenStable ==
  ASSUME TypeInv, TypeInv', SlotInv, FindInv, NEW t \in Threads, Effect(t),
         NEW u \in Threads \ {t}, Alone(t)
  PROVE  Erased(u)' /\ Seen(u)'
<1>1. Erased(u)'
  BY DEF FindInv, Erased, Alone
<1>2. CASE me[u].op = "lookup" /\ pc[u] \in Reading \cup {"found"}
  <2>1. Here(u)' = Here(u)
    BY DEF Here, Evicting, Alone
  <2>2. Here(u) \in Slots
    <3>1. pc[u] # "idle" /\ ~Evicting(u)
      BY <1>2 DEF Reading, Evicting
    <3> QED
      BY <3>1, HereSlot
  <2>3. /\ sequence[Here(u)] <= sequence'[Here(u)] /\ sequence[Here(u)] \in Nat /\ sequence'[Here(u)] \in Nat
        /\ sequence'[Here(u)] = sequence[Here(u)] => value'[Here(u)] = value[Here(u)]
    BY <2>2, Generations DEF TypeInv, TypeOK
  <2>4. me[u].s1 \in Nat
    BY DEF TypeInv, TypeOK, Locals
  <2> QED
    BY <1>1, <1>2, <2>1, <2>3, <2>4 DEF FindInv, Seen, Alone, Reading
<1>3. CASE ~(me[u].op = "lookup" /\ pc[u] \in Reading \cup {"found"})
  BY <1>1, <1>3 DEF Seen, Alone, Reading
<1> QED
  BY <1>2, <1>3

LEMMA SeenStep ==
  ASSUME TypeInv, TypeInv', SlotInv, FindInv, NEW t \in Threads, Step(t)
  PROVE  Erased(t)' /\ Seen(t)'
<1> USE DEF Goto
<1>1. /\ pc \in [Threads -> Pcs] /\ me \in [Threads -> Locals] /\ me[t] \in Locals
      /\ Shape(t) /\ Erased(t) /\ Seen(t)
  BY DEF TypeInv, TypeOK, FindInv
<1>2. CASE pc'[t] \notin Reading \cup {"seal", "release", "found"}
  BY <1>2 DEF Erased, Seen, Reading
<1>3. ASSUME NextProbe(t) \/ Reconsider(t) \/ Again(t) PROVE Erased(t)' /\ Seen(t)'
  <2>1. pc'[t] \notin Reading \cup {"seal", "release", "found"}
    BY <1>1, <1>3 DEF NextProbe, Reconsider, Again, Reading
  <2> QED
    BY <1>2, <2>1
<1>4. ASSUME ~Evicting(t), Probe(t) PROVE Erased(t)' /\ Seen(t)'
  <2>1. CASE CompareKey(t) /\ key[Here(t)] = me[t].want /\ me' = me /\ pc'[t] \in {"seq1", "cas"}
    <3>1. pc[t] = "key" /\ me[t].want \in Keys /\ Here(t)' = Here(t) /\ sequence' = sequence
      BY <1>1, <1>4, <2>1 DEF CompareKey, Shape, Evicting, Here, table
    <3>2. Here(t) \in Slots
      BY <1>4, <3>1, HereSlot
    <3>3. sequence[Here(t)] > 0
      BY <2>1, <3>1, <3>2, Names DEF FindInv, Written, TypeInv, TypeOK
    <3> QED
      BY <2>1, <3>1, <3>3 DEF Erased, Seen, Reading
  <2>2. CASE pc'[t] \notin Reading \cup {"seal", "release", "found"}
    BY <1>2, <2>2
  <2>3. CASE CompareKey(t)
    BY <1>1, <1>3, <2>1, <2>3 DEF CompareKey
  <2>4. CASE ~CompareKey(t)
    <3>1. pc'[t] \notin Reading \cup {"seal", "release", "found"}
      BY <1>1, <1>4, <2>4 DEF Probe, PassWriter, PassTombstone, SeeValid, SeeEmpty, EndOfChain, Again, Loads, Reading
    <3> QED
      BY <2>2, <3>1
  <2> QED
    BY <2>3, <2>4
<1>5. ASSUME Take(t) \/ Place(t) \/ Scan(t) \/ EndScan(t) \/ Return(t) PROVE Erased(t)' /\ Seen(t)'
  <2>1. pc'[t] \notin Reading \cup {"seal", "release", "found"} \/ pc[t] = "scan"
    BY <1>1, <1>5 DEF Take, Place, ClaimFound, Recheck, ClaimEmpty, ClaimTombstone, EndScan, Scan, Return,
         Own, NextProbe, Reconsider, Again, Reading
  <2>2. CASE pc[t] = "scan"
    <3>1. (pc'[t] = "seq1" /\ me' = me) \/ pc'[t] \notin Reading \cup {"seal", "release", "found"}
      BY <1>1, <1>5, <2>2 DEF Take, Place, ClaimFound, Recheck, ClaimEmpty, ClaimTombstone, Scan, EndScan, Return,
           NextProbe, Reading
    <3> QED
      BY <1>1, <1>2, <2>2, <3>1 DEF Shape, Erased, Seen
  <2> QED
    BY <1>2, <2>1, <2>2
<1>6. ASSUME Transact(t) PROVE Erased(t)' /\ Seen(t)'
  <2>1. me[t].op # "lookup" /\ me[t].cell \in Slots
    BY <1>1, <1>6 DEF Transact, Write, Seal, Release, Shape, Owners
  <2>2. CASE Write(t)
    <3>1. pc[t] = "write" /\ pc'[t] = "seal"
      BY <1>1, <2>2 DEF Write
    <3>2. CASE me' = me /\ me[t].op \in Storing
      BY <2>1, <3>1, <3>2 DEF Erased, Seen, Storing
    <3>3. CASE me'[t] = [me[t] EXCEPT !.got = value[me[t].cell]] /\ me[t].op \notin Storing
      <4>1. value[me[t].cell] \in Values /\ (me[t].op = "erase" => value[me[t].cell].key = me[t].want)
        BY <3>1, <3>3 DEF SlotInv, Content, Whole
      <4>2. me'[t].op = me[t].op /\ me'[t].want = me[t].want /\ me'[t].got = value[me[t].cell]
        BY <1>1, <3>3 DEF Locals
      <4> QED
        BY <2>1, <3>1, <4>1, <4>2 DEF Erased, Seen
    <3> QED
      BY <2>2, <3>2, <3>3 DEF Write
  <2>3. CASE Seal(t)
    BY <1>1, <2>1, <2>3 DEF Seal, Erased, Seen
  <2>4. CASE Release(t)
    <3>1. CASE me[t].op = "erase" /\ pc'[t] = "found" /\ me' = [me EXCEPT ![t].cell = None] /\ pc[t] = "release"
      <4>1. me'[t].op = me[t].op /\ me'[t].want = me[t].want /\ me'[t].got = me[t].got
        BY <1>1, <3>1 DEF Locals
      <4> QED
        BY <1>1, <2>1, <3>1, <4>1 DEF Erased, Seen
    <3>2. CASE pc'[t] \in {"scan", "idle"}
      BY <1>2, <3>2 DEF Reading
    <3> QED
      BY <1>1, <2>4, <3>1, <3>2 DEF Release, Released
  <2> QED
    BY <1>6, <2>2, <2>3, <2>4 DEF Transact
<1>7. ASSUME Read(t) PROVE Erased(t)' /\ Seen(t)'
  <2>1. pc[t] \in Reading /\ UNCHANGED <<sequence, key, state, value>>
    BY <1>7 DEF Read, ReadSeq1, CopyValue, VerifySeq, Confirm, Reading, table
  <2>2. CASE me[t].op # "lookup"
    <3>1. me[t].op = "evict" /\ (me'[t].op = "evict" \/ NextProbe(t) \/ Reconsider(t))
      BY <1>1, <1>7, <2>1, <2>2 DEF Shape, Read, ReadSeq1, CopyValue, VerifySeq, Confirm, Locals
    <3> QED
      BY <1>3, <3>1 DEF Erased, Seen
  <2>3. CASE me[t].op = "lookup"
    <3> USE DEF Seen, Erased, Reading
    <3>1. Here(t) \in Slots /\ sequence[Here(t)] \in Nat /\ sequence[Here(t)] > 0
      <4>1. Here(t) \in Slots
        BY <2>1, <2>3, HereSlot DEF Evicting
      <4> QED
        BY <1>1, <2>1, <2>3, <4>1 DEF TypeInv, TypeOK
    <3>2. ASSUME ReadSeq1(t), ~Reconsider(t) PROVE Erased(t)' /\ Seen(t)'
      <4>1. /\ sequence[Here(t)] % 2 = 0 /\ pc'[t] = "copy"
            /\ me' = [me EXCEPT ![t].s1 = sequence[Here(t)]]
        BY <1>1, <3>2 DEF ReadSeq1
      <4>2. /\ me'[t].op = me[t].op /\ me'[t].want = me[t].want /\ me'[t].probe = me[t].probe
            /\ me'[t].s1 = sequence[Here(t)]
        BY <1>1, <4>1 DEF Locals
      <4>3. Here(t)' = Here(t)
        BY <4>2 DEF Here, Evicting
      <4> QED
        BY <2>1, <2>3, <3>1, <4>1, <4>2, <4>3
    <3>3. ASSUME CopyValue(t) PROVE Erased(t)' /\ Seen(t)'
      <4>1. pc[t] = "copy" /\ pc'[t] = "seq2" /\ me' = [me EXCEPT ![t].got = value[Here(t)]]
        BY <1>1, <3>3 DEF CopyValue
      <4>2. /\ me'[t].op = me[t].op /\ me'[t].want = me[t].want /\ me'[t].probe = me[t].probe
            /\ me'[t].s1 = me[t].s1 /\ me'[t].got = value[Here(t)]
        BY <1>1, <4>1 DEF Locals
      <4>3. Here(t)' = Here(t)
        BY <4>2 DEF Here, Evicting
      <4> QED
        BY <1>1, <2>1, <2>3, <4>1, <4>2, <4>3
    <3>4. ASSUME VerifySeq(t), ~Reconsider(t) PROVE Erased(t)' /\ Seen(t)'
      <4>1. pc[t] = "seq2" /\ pc'[t] = "confirm" /\ me' = me /\ sequence[Here(t)] = me[t].s1
        BY <1>1, <3>4 DEF VerifySeq
      <4>2. me[t].got \in Values
        BY <1>1, <2>3, <3>1, <4>1 DEF FindInv, Written
      <4>3. Here(t)' = Here(t)
        BY <4>1 DEF Here, Evicting
      <4> QED
        BY <1>1, <2>1, <2>3, <4>1, <4>2, <4>3
    <3>5. ASSUME Confirm(t), ~Reconsider(t) PROVE Erased(t)' /\ Seen(t)'
      <4>1. /\ pc[t] = "confirm" /\ pc'[t] = "found" /\ me' = me
            /\ state[Here(t)] = "VALID" /\ key[Here(t)] = me[t].want
        BY <1>1, <2>3, <3>5 DEF Confirm, Confirmed, Evicting
      <4>2. value[Here(t)].key = me[t].want
        BY <3>1, <4>1 DEF SlotInv, Settled, Whole
      <4>3. Here(t)' = Here(t)
        BY <4>1 DEF Here, Evicting
      <4> QED
        BY <1>1, <2>1, <2>3, <4>1, <4>2, <4>3
    <3> QED
      BY <1>3, <1>7, <3>2, <3>3, <3>4, <3>5 DEF Read
  <2> QED
    BY <2>2, <2>3
<1> QED
  BY <1>4, <1>5, <1>6, <1>7, StepCases

LEMMA FindNext == TypeInv /\ SlotInv /\ FindInv /\ [Next]_vars => FindInv'
<1> SUFFICES ASSUME TypeInv, SlotInv, FindInv, [Next]_vars PROVE FindInv'
  OBVIOUS
<1>1. TypeInv'
  BY TypeNext
<1>2. ASSUME NEW t \in Threads, Alone(t), Effect(t), Erased(t)' /\ Seen(t)' PROVE FindInv'
  BY <1>1, <1>2, Generations, SeenStable DEF FindInv
<1>3. ASSUME NEW t \in Threads, Alone(t), Quiet(t), pc'[t] \in {"load", "scan"} PROVE FindInv'
  <2>1. Erased(t)' /\ Seen(t)'
    BY <1>3 DEF Erased, Seen, Reading
  <2> QED
    BY <1>2, <1>3, <2>1 DEF Effect
<1>4. ASSUME NEW c \in Calls, Begin(c) PROVE FindInv'
  <2>1. c.by \in Threads /\ Alone(c.by) /\ Quiet(c.by) /\ pc'[c.by] = "load"
    BY <1>4, BeginQuiet, TypeBegin DEF Begin, Goto, TypeInv, TypeOK
  <2> QED
    BY <1>3, <2>1
<1>5. ASSUME NEW t \in Evictors, BeginEvict(t) PROVE FindInv'
  <2>1. t \in Threads /\ Alone(t) /\ Quiet(t) /\ pc'[t] = "scan"
    BY <1>5, BeginQuiet, TypeBeginEvict DEF BeginEvict, Goto, TypeInv, TypeOK
  <2> QED
    BY <1>3, <2>1
<1>6. ASSUME NEW t \in Threads, Step(t) PROVE FindInv'
  BY <1>1, <1>2, <1>6, TypeStep, StepEffect, SeenStep
<1>7. CASE UNCHANGED vars
  BY <1>7 DEF FindInv, Written, Erased, Seen, Here, Evicting, vars, table
<1> QED
  BY <1>4, <1>5, <1>6, <1>7 DEF Next

(* FoundIsOwn: an erased value was stored under the key asked for; so was  *)
(* one looked up, if the slot has not been rewritten since it was copied.  *)
THEOREM FoundIsAlwaysOwn == Spec => []FoundIsOwn
<1>1. TypeInv /\ FindInv => FoundIsOwn
  BY DEF FindInv, Erased, Seen, FoundIsOwn
<1>2. Init => TypeInv /\ SlotInv /\ FindInv
  BY TypeInit, SlotInit, FindInit
<1>3. TypeInv /\ SlotInv /\ FindInv /\ [Next]_vars => (TypeInv /\ SlotInv /\ FindInv)'
  BY TypeNext, SlotNext, FindNext
<1> QED
  BY <1>1, <1>2, <1>3, PTL DEF Spec

-----------------------------------------------------------------------------
(* Collision chains.  A slot once used is never EMPTY again, so what a     *)
(* search has passed on its way to the slot it claims stays used.          *)

Behind(t) == \A n \in 0..(me[t].probe - 1) : state[(Home[me[t].want] + n) % Capacity] # "EMPTY"

Path(t) ==
    Placing(t) =>
        /\ pc[t] \in {"load", "key", "cas", "recheck", "claimEmpty"} => Behind(t)
        /\ pc[t] \in {"key", "cas", "recheck"} => state[Here(t)] # "EMPTY"
        /\ pc[t] \in {"load", "key", "cas", "recheck", "claimEmpty", "claimTomb"} /\ me[t].tomb # None =>
              Reaches(me[t].want, me[t].tomb)

Reached(t) ==
    /\ pc[t] = "recheck" => Reaches(key[me[t].cell], me[t].cell)
    /\ pc[t] \in {"write", "seal"} /\ me[t].op \in Storing => Reaches(me[t].want, me[t].cell)
    /\ pc[t] = "release" /\ me[t].op \in Storing => Reaches(key[me[t].cell], me[t].cell)

ChainInv == ChainUnbroken /\ \A t \in Threads : Path(t) /\ Reached(t)

LEMMA ChainInit == Init => ChainInv
<1> SUFFICES ASSUME Init PROVE ChainInv
  OBVIOUS
<1>1. ChainUnbroken
  BY DEF Init, ChainUnbroken
<1>2. \A t \in Threads : Path(t) /\ Reached(t)
  BY DEF Init, Path, Reached, Placing, Fresh
<1> QED
  BY <1>1, <1>2 DEF ChainInv

LEMMA UsedForEver ==
  ASSUME TypeInv, NEW t \in Threads, Effect(t), NEW s \in Slots, state[s] # "EMPTY"
  PROVE  state'[s] # "EMPTY"
  BY DEF TypeInv, TypeOK, Effect, Quiet, Takes, GivesBack, Transacts, Transact, Write, Seal, Release, table

LEMMA ReachesStable ==
  ASSUME TypeInv, NEW t \in Threads, Effect(t), NEW k \in Keys, NEW s \in Slots, Reaches(k, s)
  PROVE  Reaches(k, s)'
<1>1. PICK n \in 0..(MaxProbes - 1) :
         /\ s = (Home[k] + n) % Capacity
         /\ \A m \in 0..n : state[(Home[k] + m) % Capacity] # "EMPTY"
  BY DEF Reaches
<1>2. ASSUME NEW m \in 0..n PROVE state'[(Home[k] + m) % Capacity] # "EMPTY"
  <2>1. (Home[k] + m) % Capacity \in Slots
    <3>1. Home[k] \in Nat /\ m \in Nat
      BY Names, Sizes DEF Slots
    <3> QED
      BY <3>1, Wrapped
  <2> QED
    BY <1>1, <2>1, UsedForEver
<1> QED
  BY <1>1, <1>2 DEF Reaches

LEMMA WholeKey == ASSUME NEW s, Whole(s) PROVE key[s] \in Keys
  BY DEF Whole, Values

(* The keys of the slots that ChainInv speaks of are keys.                 *)
LEMMA ReachedKeys ==
  ASSUME TypeInv, SlotInv, NEW t \in Threads
  PROVE  /\ pc[t] = "recheck" => key[me[t].cell] \in Keys
         /\ pc[t] = "release" /\ me[t].op \in Storing => key[me[t].cell] \in Keys
         /\ pc[t] # "idle" /\ ~Evicting(t) => me[t].want \in Keys
         /\ pc[t] \in Owners => me[t].cell \in Slots
         /\ me[t].tomb # None => me[t].tomb \in Slots
         /\ Placing(t) => pc[t] = "idle" \/ ~Evicting(t)
  BY WholeKey DEF TypeInv, TypeOK, SlotInv, Content, Shape, Evicting, Placing, Locals

LEMMA BehindStable ==
  ASSUME TypeInv, NEW t \in Threads, Effect(t), NEW u \in Threads, Behind(u), me[u].want \in Keys,
         me'[u].want = me[u].want, me'[u].probe = me[u].probe
  PROVE  Behind(u)'
<1> SUFFICES ASSUME NEW n \in 0..(me[u].probe - 1)
             PROVE  state'[(Home[me[u].want] + n) % Capacity] # "EMPTY"
  BY DEF Behind
<1>1. state[(Home[me[u].want] + n) % Capacity] # "EMPTY"
  BY DEF Behind
<1>2. Home[me[u].want] \in Nat /\ n \in Nat
  BY Names DEF Slots, TypeInv, TypeOK, Locals
<1> QED
  BY <1>1, <1>2, Wrapped, UsedForEver

LEMMA PathStable ==
  ASSUME TypeInv, SlotInv, ChainInv, NEW t \in Threads, Effect(t), NEW u \in Threads, pc[u] # "idle",
         pc'[u] = pc[u], me'[u].op = me[u].op, me'[u].want = me[u].want, me'[u].probe = me[u].probe,
         me'[u].tomb = me[u].tomb
  PROVE  Path(u)'
<1> SUFFICES ASSUME Placing(u) PROVE Path(u)'
  BY DEF Path, Placing
<1>1. Path(u) /\ me[u].want \in Keys /\ (me[u].tomb # None => me[u].tomb \in Slots) /\ ~Evicting(u)
  BY ReachedKeys DEF ChainInv
<1>2. Here(u)' = Here(u) /\ Here(u) \in Slots
  BY <1>1, HereSlot DEF Here, Evicting
<1>3. Behind(u) => Behind(u)'
  BY <1>1, BehindStable
<1>4. state[Here(u)] # "EMPTY" => state'[Here(u)] # "EMPTY"
  BY <1>2, UsedForEver
<1>5. me[u].tomb # None /\ Reaches(me[u].want, me[u].tomb) => Reaches(me[u].want, me[u].tomb)'
  <2> SUFFICES ASSUME me[u].tomb # None, Reaches(me[u].want, me[u].tomb)
               PROVE  Reaches(me[u].want, me[u].tomb)'
    OBVIOUS
  <2>1. \A k \in Keys, s \in Slots : Reaches(k, s) => Reaches(k, s)'
    BY ReachesStable
  <2>2. PICK k \in Keys, s \in Slots : k = me[u].want /\ s = me[u].tomb
    BY <1>1
  <2>3. Reaches(k, s)'
    BY <2>1, <2>2
  <2> QED
    BY <2>2, <2>3 DEF Reaches
<1> QED
  BY <1>1, <1>2, <1>3, <1>4, <1>5 DEF Path, Placing

(* A slot that was reached with a key before the step still is.            *)
LEMMA StillReached ==
  ASSUME TypeInv, NEW t \in Threads, Effect(t), NEW u \in Threads, NEW k \in Keys, NEW s \in Slots, Reaches(k, s)
  PROVE  /\ me'[u].want = k /\ me'[u].cell = s => Reaches(me[u].want, me[u].cell)'
         /\ me'[u].want = k /\ me'[u].tomb = s => Reaches(me[u].want, me[u].tomb)'
         /\ me'[u].cell = s /\ key'[s] = k => Reaches(key[me[u].cell], me[u].cell)'
         /\ key'[s] = k => Reaches(key[s], s)'
<1>1. Reaches(k, s)'
  BY ReachesStable
<1> QED
  BY <1>1 DEF Reaches

LEMMA ReachedStable ==
  ASSUME TypeInv, SlotInv, ChainInv, NEW t \in Threads, Effect(t), NEW u \in Threads, pc'[u] = pc[u],
         me'[u].op = me[u].op, me'[u].want = me[u].want, me'[u].cell = me[u].cell,
         pc[u] \in Owners => key'[me[u].cell] = key[me[u].cell]
  PROVE  Reached(u)'
<1>1. Reached(u)
  BY DEF ChainInv
<1>2. CASE pc[u] = "recheck"
  <2>1. key[me[u].cell] \in Keys /\ me[u].cell \in Slots /\ Reaches(key[me[u].cell], me[u].cell)
    BY <1>1, <1>2, ReachedKeys DEF Reached, Owners
  <2>2. Reaches(key[me[u].cell], me[u].cell)'
    BY <1>2, <2>1, StillReached DEF Owners
  <2> QED
    BY <1>2, <2>2 DEF Reached
<1>3. CASE pc[u] \in {"write", "seal"} /\ me[u].op \in Storing
  <2>1. me[u].want \in Keys /\ me[u].cell \in Slots /\ Reaches(me[u].want, me[u].cell)
    BY <1>1, <1>3, ReachedKeys DEF Reached, Owners, Evicting, Storing
  <2>2. Reaches(me[u].want, me[u].cell)'
    BY <2>1, StillReached
  <2> QED
    BY <1>3, <2>2 DEF Reached
<1>4. CASE pc[u] = "release" /\ me[u].op \in Storing
  <2>1. key[me[u].cell] \in Keys /\ me[u].cell \in Slots /\ Reaches(key[me[u].cell], me[u].cell)
    BY <1>1, <1>4, ReachedKeys DEF Reached, Owners
  <2>2. Reaches(key[me[u].cell], me[u].cell)'
    BY <1>4, <2>1, StillReached DEF Owners
  <2> QED
    BY <1>4, <2>2 DEF Reached
<1>5. CASE ~(pc[u] = "recheck" \/ (pc[u] \in {"write", "seal", "release"} /\ me[u].op \in Storing))
  BY <1>5 DEF Reached
<1> QED
  BY <1>2, <1>3, <1>4, <1>5

(* The keys of slots that others own stay.                                 *)
LEMMA KeyStable ==
  ASSUME TypeInv, SlotInv, NEW t \in Threads, Effect(t), NEW s \in Slots,
         pc[t] \in {"write"} => s # me[t].cell
  PROVE  key'[s] = key[s]
  BY DEF TypeInv, TypeOK, Shape, Owners, Effect, Quiet, Takes, GivesBack, Transacts, Transact, Write, Seal,
         Release, Goto, table

LEMMA ChainOthers ==
  ASSUME TypeInv, SlotInv, ChainInv, NEW t \in Threads, Effect(t), Alone(t), NEW u \in Threads \ {t}
  PROVE  Path(u)' /\ Reached(u)'
<1>1. Path(u)'
  <2>1. CASE pc[u] = "idle"
    BY <2>1 DEF Path, Alone
  <2>2. CASE pc[u] # "idle"
    BY <2>2, PathStable DEF Alone
  <2> QED
    BY <2>1, <2>2
<1>2. ASSUME pc[u] \in Owners PROVE key'[me[u].cell] = key[me[u].cell]
  BY <1>2, KeyStable, ReachedKeys DEF SlotInv, OneOwner, Owners
<1>3. Reached(u)'
  BY <1>2, ReachedStable DEF Alone
<1> QED
  BY <1>1, <1>3

LEMMA ChainKept ==
  ASSUME TypeInv, SlotInv, ChainInv, NEW t \in Threads, Effect(t)
  PROVE  ChainUnbroken'
<1> SUFFICES ASSUME NEW s \in Slots, state'[s] = "VALID" PROVE Reaches(key[s], s)'
  BY DEF ChainUnbroken
<1>1. ASSUME key[s] \in Keys, Reaches(key[s], s), key'[s] = key[s] PROVE Reaches(key[s], s)'
  BY <1>1, StillReached
<1>2. state \in [Slots -> States] /\ (pc[t] \in Owners => me[t].cell \in Slots /\ state[me[t].cell] = "WRITING")
  BY ReachedKeys DEF TypeInv, TypeOK, SlotInv, OneOwner
<1>3. CASE state[s] = "VALID"
  <2>1. key[s] \in Keys /\ Reaches(key[s], s)
    BY <1>3, WholeKey DEF SlotInv, Settled, ChainInv, ChainUnbroken
  <2>2. key'[s] = key[s]
    BY <1>2, <1>3, KeyStable DEF Owners
  <2> QED
    BY <1>1, <2>1, <2>2
<1>4. CASE state[s] # "VALID" /\ GivesBack(t)
  <2>1. s = me[t].cell /\ pc[t] = "recheck"
    BY <1>2, <1>4 DEF GivesBack
  <2>2. key[s] \in Keys /\ Reaches(key[s], s) /\ key'[s] = key[s]
    BY <1>4, <2>1, ReachedKeys DEF ChainInv, Reached, GivesBack
  <2> QED
    BY <1>1, <2>2
<1>5. CASE state[s] # "VALID" /\ Release(t)
  <2>1. s = me[t].cell /\ pc[t] = "release" /\ me[t].op \in Storing
    BY <1>2, <1>5 DEF Release
  <2>2. key[s] \in Keys /\ Reaches(key[s], s) /\ key'[s] = key[s]
    BY <1>5, <2>1, ReachedKeys DEF ChainInv, Reached, Release
  <2> QED
    BY <1>1, <2>2
<1>6. CASE state[s] # "VALID" /\ ~GivesBack(t) /\ ~Release(t)
  BY <1>2, <1>6 DEF Effect, Quiet, Takes, Transacts, Transact, Write, Seal, table
<1> QED
  BY <1>3, <1>4, <1>5, <1>6

(* A used slot at the end of a path of used slots is reached.              *)
LEMMA PathReaches ==
  ASSUME TypeInv, NEW t \in Threads, pc[t] # "idle", ~Evicting(t), Behind(t), me[t].probe < MaxProbes,
         state[Here(t)] # "EMPTY"
  PROVE  Reaches(me[t].want, Here(t))
<1>1. me[t].probe \in 0..(MaxProbes - 1)
  BY Sizes DEF TypeInv, TypeOK, Locals
<1>2. Here(t) = (Home[me[t].want] + me[t].probe) % Capacity
  BY DEF Here
<1>3. \A n \in 0..me[t].probe : state[(Home[me[t].want] + n) % Capacity] # "EMPTY"
  BY <1>1, <1>2 DEF Behind
<1> QED
  BY <1>1, <1>2, <1>3 DEF Reaches

LEMMA BehindNext ==
  ASSUME TypeInv, NEW t \in Threads, Effect(t), pc[t] # "idle", ~Evicting(t), Behind(t),
         state[Here(t)] # "EMPTY", me'[t].want = me[t].want, me'[t].probe = me[t].probe + 1
  PROVE  Behind(t)'
<1>1. me[t].probe \in Nat /\ me[t].want \in Keys /\ Here(t) \in Slots
  BY HereSlot DEF TypeInv, TypeOK, Locals, Shape, Evicting
<1> SUFFICES ASSUME NEW n \in 0..me[t].probe
             PROVE  state'[(Home[me[t].want] + n) % Capacity] # "EMPTY"
  BY <1>1 DEF Behind
<1>2. state[(Home[me[t].want] + n) % Capacity] # "EMPTY"
  BY <1>1 DEF Behind, Here
<1>3. Home[me[t].want] \in Nat /\ n \in Nat
  BY <1>1, Names DEF Slots
<1> QED
  BY <1>2, <1>3, Wrapped, UsedForEver

(* The path after a step that stays at the slot, or goes on from a used    *)
(* one.                                                                    *)
LEMMA PathMove ==
  ASSUME TypeInv, SlotInv, ChainInv, NEW t \in Threads, Effect(t), Placing(t), pc[t] # "idle",
         Same(t), Behind(t),
         me'[t].tomb = me[t].tomb /\ (me[t].tomb # None => Reaches(me[t].want, me[t].tomb)),
         \/ me'[t].probe = me[t].probe /\ (pc'[t] \in {"key", "cas", "recheck"} => state[Here(t)] # "EMPTY")
         \/ me'[t].probe = me[t].probe + 1 /\ state[Here(t)] # "EMPTY" /\ pc'[t] = "load"
  PROVE  Path(t)'
<1>1. ~Evicting(t) /\ me[t].want \in Keys /\ (me[t].tomb # None => me[t].tomb \in Slots)
  BY ReachedKeys
<1>2. Here(t) \in Slots
  BY <1>1, HereSlot
<1>3. Behind(t)'
  BY <1>1, BehindStable, BehindNext DEF Same
<1>4. me[t].tomb # None => Reaches(me[t].want, me[t].tomb)'
  BY <1>1, StillReached DEF Same
<1>5. pc'[t] \in {"key", "cas", "recheck"} => Here(t)' = Here(t) /\ state'[Here(t)] # "EMPTY"
  BY <1>1, <1>2, UsedForEver DEF Here, Evicting, Same
<1> QED
  BY <1>3, <1>4, <1>5 DEF Path

LEMMA NextProbeLocals ==
  ASSUME TypeInv, NEW t \in Threads, NextProbe(t)
  PROVE  /\ Same(t) /\ me'[t].probe = me[t].probe + 1 /\ me'[t].tomb = me[t].tomb
         /\ me'[t].saw = me[t].saw /\ me'[t].there = me[t].there
         /\ pc'[t] = IF Evicting(t) THEN "scan" ELSE "load"
  BY DEF NextProbe, Same, TypeInv, TypeOK, Locals

LEMMA ReconsiderLocals ==
  ASSUME TypeInv, NEW t \in Threads, Reconsider(t), ~Evicting(t)
  PROVE  /\ Same(t) /\ me'[t].probe = me[t].probe /\ me'[t].tomb = me[t].tomb /\ pc'[t] = "load"
         /\ me'[t].saw = me[t].saw /\ me'[t].there = me[t].there
  BY DEF Reconsider, Same, TypeInv, TypeOK, Locals

LEMMA AgainPath ==
  ASSUME TypeInv, NEW t \in Threads, Again(t)
  PROVE  Path(t)' /\ Reached(t)'
<1>1. CASE pc'[t] = "missed"
  BY <1>1 DEF Path, Reached
<1>2. CASE pc'[t] = "load" /\ me'[t].probe = 0 /\ me'[t].tomb = None
  BY <1>2 DEF Path, Reached, Behind
<1> QED
  BY <1>1, <1>2 DEF Again, TypeInv, TypeOK, Locals

LEMMA ChainProbe ==
  ASSUME TypeInv, SlotInv, ChainInv, NEW t \in Threads, Effect(t), ~Evicting(t), Probe(t)
  PROVE  Path(t)' /\ Reached(t)'
<1> USE DEF Goto
<1>1. /\ pc \in [Threads -> Pcs] /\ me \in [Threads -> Locals] /\ me[t] \in Locals /\ Path(t)
      /\ pc[t] \in {"load", "key"} /\ me[t].probe \in Nat
  <2>1. pc[t] \in {"load", "key"}
    BY DEF Probe, PassWriter, PassTombstone, SeeValid, SeeEmpty, EndOfChain, CompareKey, Loads
  <2> QED
    BY <2>1 DEF TypeInv, TypeOK, ChainInv, Locals
<1>2. CASE Again(t)
  BY <1>2, AgainPath
<1>3. CASE ~Again(t)
  <2>1. pc'[t] \notin Owners
    BY <1>1, NextProbeEffect DEF Probe, PassWriter, PassTombstone, SeeValid, SeeEmpty, EndOfChain, CompareKey, Loads, Owners
  <2>2. Reached(t)'
    BY <2>1 DEF Reached, Owners
  <2>3. Same(t)
    BY <1>1, <1>3, NextProbeLocals DEF Probe, PassWriter, PassTombstone, SeeValid, SeeEmpty, EndOfChain, CompareKey,
         Same, Locals
  <2>4. CASE ~Placing(t)
    BY <2>2, <2>3, <2>4 DEF Path, Placing, Same
  <2>5. ASSUME Placing(t) PROVE Path(t)'
    <3>1. Behind(t) /\ (me[t].tomb # None => Reaches(me[t].want, me[t].tomb))
      BY <1>1, <2>5 DEF Path
    <3>2. ASSUME PassWriter(t) PROVE Path(t)'
      <4>1. /\ me'[t].probe = me[t].probe + 1 /\ me'[t].tomb = me[t].tomb /\ pc'[t] = "load"
            /\ state[Here(t)] # "EMPTY"
        BY <1>1, <3>2 DEF PassWriter, Loads, Locals
      <4> QED
        BY <1>1, <2>3, <2>5, <3>1, <4>1, PathMove
    <3>3. ASSUME PassTombstone(t) PROVE Path(t)'
      <4>1. /\ me'[t].probe = me[t].probe + 1 /\ pc'[t] = "load" /\ me[t].probe < MaxProbes
            /\ me'[t].tomb = IF me[t].tomb = None THEN Here(t) ELSE me[t].tomb
            /\ state[Here(t)] # "EMPTY"
        BY <1>1, <2>5, <3>3 DEF PassTombstone, Loads, Locals
      <4>2. Here(t) \in Slots /\ me[t].want \in Keys /\ (me[t].tomb # None => me[t].tomb \in Slots)
        BY <1>1, HereSlot, ReachedKeys
      <4>3. Reaches(me[t].want, Here(t))
        BY <1>1, <3>1, <4>1, PathReaches
      <4>4. Reaches(me[t].want, me[t].tomb)'
        <5>1. CASE me[t].tomb = None
          BY <2>3, <4>1, <4>2, <4>3, <5>1, StillReached DEF Same
        <5>2. CASE me[t].tomb # None
          BY <2>3, <3>1, <4>1, <4>2, <5>2, StillReached DEF Same
        <5> QED
          BY <5>1, <5>2
      <4>5. Behind(t)'
        BY <1>1, <2>3, <3>1, <4>1, BehindNext DEF Same
      <4> QED
        BY <4>1, <4>4, <4>5 DEF Path
    <3>4. ASSUME me' = me, pc[t] = "load", pc'[t] = "key" => state[Here(t)] = "VALID",
                 pc'[t] \in {"key", "claimTomb", "claimEmpty", "missed"}
          PROVE  Path(t)'
      BY <1>1, <2>3, <2>5, <3>1, <3>4, PathMove
    <3>5. ASSUME SeeValid(t) PROVE Path(t)'
      BY <1>1, <3>4, <3>5 DEF SeeValid, Loads
    <3>6. ASSUME SeeEmpty(t) \/ EndOfChain(t) PROVE Path(t)'
      BY <1>1, <1>3, <2>5, <3>4, <3>6 DEF SeeEmpty, EndOfChain, Loads
    <3>7. ASSUME CompareKey(t) PROVE Path(t)'
      <4>1. pc[t] = "key" /\ state[Here(t)] # "EMPTY"
        BY <1>1, <2>5, <3>7 DEF CompareKey, Path
      <4>2. CASE me' = me /\ pc'[t] = "cas"
        BY <2>3, <2>5, <3>1, <4>1, <4>2, PathMove
      <4>3. CASE NextProbe(t)
        BY <2>3, <2>5, <3>1, <4>1, <4>3, NextProbeLocals, PathMove
      <4> QED
        BY <1>1, <2>5, <3>7, <4>2, <4>3 DEF CompareKey, Placing
    <3> QED
      BY <3>2, <3>3, <3>5, <3>6, <3>7 DEF Probe
  <2> QED
    BY <2>2, <2>4, <2>5
<1> QED
  BY <1>2, <1>3

LEMMA ChainTake ==
  ASSUME TypeInv, SlotInv, ChainInv, NEW t \in Threads, Effect(t), Take(t)
  PROVE  Path(t)' /\ Reached(t)'
<1> USE DEF Goto
<1>1. /\ pc \in [Threads -> Pcs] /\ me \in [Threads -> Locals] /\ me[t] \in Locals /\ Path(t) /\ Reached(t)
      /\ pc[t] \in {"cas", "recheck"}
      /\ (Placing(t) => Behind(t) /\ state[Here(t)] # "EMPTY"
                        /\ (me[t].tomb # None => Reaches(me[t].want, me[t].tomb)))
  <2>1. pc[t] \in {"cas", "recheck"}
    BY DEF Take, ClaimFound, Recheck
  <2> QED
    BY <2>1 DEF TypeInv, TypeOK, ChainInv, Path
<1>2. ASSUME NextProbe(t) PROVE Path(t)' /\ Reached(t)'
  <2>1. Same(t) /\ me'[t].probe = me[t].probe + 1 /\ me'[t].tomb = me[t].tomb
        /\ pc'[t] = IF Evicting(t) THEN "scan" ELSE "load"
    BY <1>2, NextProbeLocals
  <2>2. Placing(t) => Path(t)'
    BY <1>1, <2>1, PathMove DEF Placing, Evicting
  <2> QED
    BY <2>1, <2>2 DEF Path, Reached, Placing, Same
<1>3. ASSUME Reconsider(t), ~Evicting(t) PROVE Path(t)' /\ Reached(t)'
  <2>1. Same(t) /\ me'[t].probe = me[t].probe /\ me'[t].tomb = me[t].tomb /\ pc'[t] = "load"
    BY <1>3, ReconsiderLocals
  <2>2. Placing(t) => Path(t)'
    BY <1>1, <2>1, PathMove
  <2> QED
    BY <2>1, <2>2 DEF Path, Reached, Placing, Same
<1>4. ASSUME ClaimFound(t), state[Here(t)] = "VALID", Own(t, Here(t), "recheck") PROVE Path(t)' /\ Reached(t)'
  <2>1. /\ Same(t) /\ me'[t].probe = me[t].probe /\ me'[t].tomb = me[t].tomb /\ pc'[t] = "recheck"
        /\ me'[t].cell = Here(t) /\ key' = key
    BY <1>1, <1>4 DEF ClaimFound, Own, Same, Locals
  <2>0. pc[t] = "cas" /\ Shape(t)
    BY <1>4 DEF TypeInv, ClaimFound
  <2>2. Here(t) \in Slots
    BY <1>1, <2>0, HereSlot DEF TypeInv, TypeOK, Shape, Evicting
  <2>3. key[Here(t)] \in Keys /\ Reaches(key[Here(t)], Here(t))
    BY <1>4, <2>2, WholeKey DEF SlotInv, Settled, ChainInv, ChainUnbroken
  <2>4. Reaches(key[me[t].cell], me[t].cell)'
    BY <2>1, <2>2, <2>3, StillReached
  <2>5. Placing(t) => Path(t)'
    BY <1>1, <2>1, PathMove
  <2> QED
    BY <2>1, <2>4, <2>5 DEF Path, Reached, Placing, Same
<1>5. ASSUME Recheck(t), StillMine(t), pc' = [pc EXCEPT ![t] = "write"], UNCHANGED <<state, me>>
      PROVE  Path(t)' /\ Reached(t)'
  <2>1. pc[t] = "recheck" /\ pc'[t] = "write"
    BY <1>1, <1>5 DEF Recheck
  <2>2. key[me[t].cell] \in Keys /\ me[t].cell \in Slots /\ Reaches(key[me[t].cell], me[t].cell)
    BY <1>1, <2>1, ReachedKeys DEF Reached, Owners
  <2>3. me[t].op \in Storing => Reaches(me[t].want, me[t].cell)'
    BY <1>5, <2>2, StillReached DEF StillMine, Evicting, Storing
  <2> QED
    BY <1>5, <2>1, <2>3 DEF Path, Reached
<1> QED
  BY <1>1, <1>2, <1>3, <1>4, <1>5 DEF Take, ClaimFound, Recheck, Reconsider

LEMMA ChainPlace ==
  ASSUME TypeInv, SlotInv, ChainInv, NEW t \in Threads, Effect(t), Place(t)
  PROVE  Path(t)' /\ Reached(t)'
<1>1. /\ pc \in [Threads -> Pcs] /\ me \in [Threads -> Locals] /\ me[t] \in Locals /\ Path(t)
      /\ pc[t] \in {"claimEmpty", "claimTomb"} /\ Placing(t) /\ ~Evicting(t) /\ Shape(t)
      /\ me[t].want \in Keys
  <2>1. pc[t] \in {"claimEmpty", "claimTomb"}
    BY DEF Place, ClaimEmpty, ClaimTombstone
  <2> QED
    BY <2>1, ReachedKeys DEF TypeInv, TypeOK, ChainInv, Shape, Placing, Evicting
<1>2. CASE Again(t)
  BY <1>2, AgainPath
<1>3. ASSUME pc[t] = "claimEmpty", Reconsider(t) PROVE Path(t)' /\ Reached(t)'
  <2>1. Same(t) /\ me'[t].probe = me[t].probe /\ me'[t].tomb = me[t].tomb /\ pc'[t] = "load"
    BY <1>1, <1>3, ReconsiderLocals
  <2>2. Path(t)'
    BY <1>1, <1>3, <2>1, PathMove DEF Path
  <2> QED
    BY <2>1, <2>2 DEF Reached
<1>4. ASSUME ClaimEmpty(t), Own(t, Here(t), "write") PROVE Path(t)' /\ Reached(t)'
  <2>1. /\ Same(t) /\ me'[t].probe = me[t].probe /\ pc'[t] = "write" /\ me'[t].cell = Here(t)
        /\ state' = [state EXCEPT ![Here(t)] = "WRITING"] /\ me[t].probe < MaxProbes
    BY <1>1, <1>4 DEF ClaimEmpty, Own, Same, Locals, Shape, Evicting
  <2>2. me[t].probe \in 0..(MaxProbes - 1)
    BY <1>1, <2>1, Sizes DEF Locals
  <2>3. Here(t) = (Home[me[t].want] + me[t].probe) % Capacity /\ Here(t) \in Slots
    BY <1>1, HereSlot DEF Here
  <2>4. Behind(t)'
    BY <1>1, <1>4, <2>1, BehindStable DEF ClaimEmpty, Path, Same
  <2>5. state'[Here(t)] # "EMPTY"
    BY <2>1, <2>3 DEF TypeInv, TypeOK
  <2>6. \A n \in 0..me[t].probe : state'[(Home[me[t].want] + n) % Capacity] # "EMPTY"
    BY <2>1, <2>2, <2>3, <2>4, <2>5 DEF Behind, Same
  <2>7. Reaches(me[t].want, me[t].cell)'
    BY <2>1, <2>2, <2>3, <2>6 DEF Reaches, Same
  <2> QED
    BY <2>1, <2>7 DEF Path, Reached
<1>5. ASSUME ClaimTombstone(t), Own(t, me[t].tomb, "write") PROVE Path(t)' /\ Reached(t)'
  <2>1. /\ Same(t) /\ pc'[t] = "write" /\ me'[t].cell = me[t].tomb /\ pc[t] = "claimTomb"
    BY <1>1, <1>5 DEF ClaimTombstone, Own, Same, Locals
  <2>2. me[t].tomb \in Slots /\ Reaches(me[t].want, me[t].tomb)
    BY <1>1, <2>1, Sizes DEF Shape, Path
  <2>3. Reaches(me[t].want, me[t].cell)'
    BY <1>1, <2>1, <2>2, StillReached DEF Same
  <2> QED
    BY <2>1, <2>3 DEF Path, Reached
<1> QED
  BY <1>2, <1>3, <1>4, <1>5 DEF Place, ClaimEmpty, ClaimTombstone

LEMMA ChainTransact ==
  ASSUME TypeInv, SlotInv, ChainInv, NEW t \in Threads, Effect(t), Transact(t)
  PROVE  Path(t)' /\ Reached(t)'
<1> USE DEF Goto
<1>1. /\ pc \in [Threads -> Pcs] /\ me \in [Threads -> Locals] /\ me[t] \in Locals /\ Reached(t)
      /\ pc[t] \in {"write", "seal", "release"} /\ me[t].cell \in Slots
  <2>1. pc[t] \in {"write", "seal", "release"}
    BY DEF Transact, Write, Seal, Release
  <2> QED
    BY <2>1, ReachedKeys DEF TypeInv, TypeOK, ChainInv, Owners
<1>2. pc'[t] \in {"seal", "release", "scan", "found", "idle"}
  BY <1>1 DEF Transact, Write, Seal, Release, Released
<1>3. Path(t)'
  BY <1>2 DEF Path
<1>4. ASSUME Write(t) PROVE Reached(t)'
  <2>1. /\ me'[t].op = me[t].op /\ me'[t].want = me[t].want /\ me'[t].cell = me[t].cell
        /\ pc[t] = "write" /\ pc'[t] = "seal"
    BY <1>1, <1>4 DEF Write, Locals
  <2>2. me[t].op \in Storing => me[t].want \in Keys /\ Reaches(me[t].want, me[t].cell)
    BY <1>1, <2>1, ReachedKeys DEF Reached, Evicting, Storing
  <2>3. me[t].op \in Storing => Reaches(me[t].want, me[t].cell)'
    BY <1>1, <2>1, <2>2, StillReached
  <2> QED
    BY <2>1, <2>3 DEF Reached
<1>5. ASSUME Seal(t) PROVE Reached(t)'
  <2>1. me' = me /\ key' = key /\ pc[t] = "seal" /\ pc'[t] = "release"
    BY <1>1, <1>5 DEF Seal
  <2>2. me[t].op \in Storing => /\ me[t].want \in Keys /\ Reaches(me[t].want, me[t].cell)
                                /\ key[me[t].cell] = me[t].want
    BY <1>1, <2>1, ReachedKeys DEF Reached, Evicting, Storing, SlotInv, Content
  <2>3. me[t].op \in Storing => Reaches(key[me[t].cell], me[t].cell)'
    BY <1>1, <2>1, <2>2, StillReached
  <2> QED
    BY <2>1, <2>3 DEF Reached
<1>6. ASSUME Release(t) PROVE Reached(t)'
  <2>1. pc'[t] \in {"scan", "found", "idle"}
    BY <1>1, <1>6 DEF Release, Released
  <2> QED
    BY <2>1 DEF Reached
<1> QED
  BY <1>3, <1>4, <1>5, <1>6 DEF Transact

LEMMA ChainRest ==
  ASSUME TypeInv, NEW t \in Threads, Read(t) \/ (Evicting(t) /\ (Scan(t) \/ EndScan(t))) \/ Return(t)
  PROVE  Path(t)' /\ Reached(t)'
<1> USE DEF Goto
<1>1. pc \in [Threads -> Pcs] /\ me \in [Threads -> Locals] /\ me[t] \in Locals /\ Shape(t)
  BY DEF TypeInv, TypeOK
<1>2. pc'[t] \notin Owners
  BY <1>1, NextProbeEffect DEF Read, ReadSeq1, CopyValue, VerifySeq, Confirm, Scan, EndScan, Return, Owners
<1>3. ~Placing(t)'
  <2>1. CASE Return(t) \/ EndScan(t)
    BY <1>1, <2>1 DEF Return, EndScan, Placing, Fresh
  <2>2. CASE Read(t) \/ (Evicting(t) /\ Scan(t))
    <3>1. me[t].op \in {"lookup", "evict"}
      BY <1>1, <2>2 DEF Read, ReadSeq1, CopyValue, VerifySeq, Confirm, Evicting, Shape, Reading
    <3>2. me'[t].op = me[t].op
      <4>1. ASSUME NextProbe(t) \/ Reconsider(t) PROVE me'[t].op = me[t].op
        BY <1>1, <4>1 DEF NextProbe, Reconsider, Locals
      <4>2. CASE ReadSeq1(t)
        BY <1>1, <4>1, <4>2 DEF ReadSeq1, Locals
      <4>3. CASE CopyValue(t)
        BY <1>1, <4>3 DEF CopyValue, Locals
      <4>4. CASE VerifySeq(t) \/ Confirm(t) \/ Scan(t)
        BY <4>1, <4>4 DEF VerifySeq, Confirm, Scan
      <4> QED
        BY <2>2, <4>2, <4>3, <4>4 DEF Read
    <3> QED
      BY <3>1, <3>2 DEF Placing
  <2> QED
    BY <2>1, <2>2
<1> QED
  BY <1>2, <1>3 DEF Path, Reached, Owners

LEMMA ChainNext == TypeInv /\ SlotInv /\ ChainInv /\ [Next]_vars => ChainInv'
<1> SUFFICES ASSUME TypeInv, SlotInv, ChainInv, [Next]_vars PROVE ChainInv'
  OBVIOUS
<1>1. ASSUME NEW t \in Threads, Alone(t), Effect(t), Path(t)' /\ Reached(t)' PROVE ChainInv'
  BY <1>1, ChainOthers, ChainKept DEF ChainInv
<1>2. ASSUME NEW c \in Calls, Begin(c) PROVE ChainInv'
  <2>1. c.by \in Threads /\ Alone(c.by) /\ Quiet(c.by)
    BY <1>2, BeginQuiet, TypeBegin
  <2>2. /\ pc'[c.by] = "load" /\ me'[c.by].probe = 0 /\ me'[c.by].tomb = None
    BY <1>2, <2>1 DEF Begin, Goto, Fresh, TypeInv, TypeOK
  <2>3. Path(c.by)' /\ Reached(c.by)'
    BY <2>2 DEF Path, Reached, Behind
  <2> QED
    BY <1>1, <2>1, <2>3 DEF Effect
<1>3. ASSUME NEW t \in Evictors, BeginEvict(t) PROVE ChainInv'
  <2>1. t \in Threads /\ Alone(t) /\ Quiet(t) /\ pc'[t] = "scan"
    BY <1>3, BeginQuiet, TypeBeginEvict DEF BeginEvict, Goto, TypeInv, TypeOK
  <2>2. Path(t)' /\ Reached(t)'
    BY <2>1 DEF Path, Reached
  <2> QED
    BY <1>1, <2>1, <2>2 DEF Effect
<1>4. ASSUME NEW t \in Threads, Step(t) PROVE ChainInv'
  <2>1. Alone(t) /\ Effect(t)
    BY <1>4, TypeStep, StepEffect
  <2>2. Path(t)' /\ Reached(t)'
    BY <1>4, <2>1, StepCases, ChainProbe, ChainTake, ChainPlace, ChainTransact, ChainRest
  <2> QED
    BY <1>1, <2>1, <2>2
<1>5. CASE UNCHANGED vars
  BY <1>5 DEF ChainInv, ChainUnbroken, Path, Reached, Reaches, Behind, Placing, Here, Evicting, vars, table
<1> QED
  BY <1>2, <1>3, <1>4, <1>5 DEF Next

(* ChainUnbroken: from its home on, a key is reached over used slots, so a *)
(* search that ends at an EMPTY slot has not passed it by.                 *)
THEOREM ChainAlwaysUnbroken == Spec => []ChainUnbroken
<1>1. ChainInv => ChainUnbroken
  BY DEF ChainInv
<1>2. Init => TypeInv /\ SlotInv /\ ChainInv
  BY TypeInit, SlotInit, ChainInit
<1>3. TypeInv /\ SlotInv /\ ChainInv /\ [Next]_vars => (TypeInv /\ SlotInv /\ ChainInv)'
  BY TypeNext, SlotNext, ChainNext
<1> QED
  BY <1>1, <1>2, <1>3, PTL DEF Spec

-----------------------------------------------------------------------------
(* Eviction.  The scan judges a copy.  While the sequence is the one it    *)
(* read before copying, the copy is what the slot holds, so a slot that is *)
(* owned with that sequence holds the value that was judged.               *)

Judged(t) ==
    Evicting(t) =>
        /\ pc[t] \in {"copy", "seq2", "confirm", "cas", "recheck"} => me[t].s1 <= sequence[Here(t)]
        /\ pc[t] \in {"seq2", "confirm", "cas", "recheck"} =>
              (sequence[Here(t)] = me[t].s1 => me[t].got = value[Here(t)])
        /\ pc[t] \in {"cas", "recheck"} => me[t].got.id <= me[t].cut
        /\ pc[t] = "recheck" => me[t].cell = Here(t)
        /\ pc[t] = "write" => value[me[t].cell].id <= me[t].cut

EvictInv == \A t \in Threads : Judged(t)

LEMMA EvictInit == Init => EvictInv
  BY DEF Init, EvictInv, Judged, Evicting, Fresh

(* A step of t writes to the slot that t owns, and to no other.            *)
LEMMA OthersKept ==
  ASSUME TypeInv, SlotInv, NEW t \in Threads, Effect(t), NEW s \in Slots,
         pc[t] \in {"write", "seal"} => s # me[t].cell
  PROVE  sequence'[s] = sequence[s] /\ key'[s] = key[s] /\ value'[s] = value[s]
  BY DEF TypeInv, TypeOK, Shape, Owners, Effect, Quiet, Takes, GivesBack, Transacts, Transact, Write, Seal,
         Release, Goto, table

LEMMA JudgedStable ==
  ASSUME TypeInv, TypeInv', SlotInv, FindInv, EvictInv, NEW t \in Threads, Effect(t),
         NEW u \in Threads \ {t}, Alone(t)
  PROVE  Judged(u)'
<1> SUFFICES ASSUME Evicting(u) PROVE Judged(u)'
  BY DEF Judged, Evicting, Alone
<1>1. Judged(u) /\ Here(u)' = Here(u) /\ me[u].s1 \in Nat
  BY DEF EvictInv, Here, Evicting, Alone, TypeInv, TypeOK, Locals
<1>2. CASE pc[u] \in {"copy", "seq2", "confirm", "cas", "recheck"}
  <2>1. Here(u) \in Slots
    BY <1>2, HereSlot DEF TypeInv, Shape, Evicting, Reading, Owners
  <2>2. /\ sequence[Here(u)] <= sequence'[Here(u)] /\ sequence[Here(u)] \in Nat /\ sequence'[Here(u)] \in Nat
        /\ sequence'[Here(u)] = sequence[Here(u)] => value'[Here(u)] = value[Here(u)]
    BY <2>1, Generations DEF TypeInv, TypeOK
  <2> QED
    BY <1>1, <1>2, <2>2 DEF Judged, Evicting, Alone
<1>3. CASE pc[u] = "write"
  <2>1. me[u].cell \in Slots /\ (pc[t] \in {"write", "seal"} => me[u].cell # me[t].cell)
    BY <1>3 DEF TypeInv, Shape, SlotInv, OneOwner, Owners
  <2>2. value'[me[u].cell] = value[me[u].cell]
    BY <2>1, OthersKept
  <2> QED
    BY <1>1, <1>3, <2>2 DEF Judged, Evicting, Alone
<1>4. CASE pc[u] \notin {"copy", "seq2", "confirm", "cas", "recheck", "write"}
  BY <1>4 DEF Judged, Alone
<1> QED
  BY <1>2, <1>3, <1>4

LEMMA JudgedStep ==
  ASSUME TypeInv, TypeInv', SlotInv, EvictInv, NEW t \in Threads, Step(t)
  PROVE  Judged(t)'
<1> USE DEF Goto
<1>1. /\ pc \in [Threads -> Pcs] /\ me \in [Threads -> Locals] /\ me[t] \in Locals
      /\ Shape(t) /\ Judged(t)
  BY DEF TypeInv, TypeOK, EvictInv
<1>2. CASE pc'[t] \notin {"copy", "seq2", "confirm", "cas", "recheck", "write"} \/ ~Evicting(t)'
  BY <1>2 DEF Judged
<1>3. ASSUME NextProbe(t) \/ Reconsider(t) PROVE Judged(t)'
  <2>1. pc'[t] \in {"scan", "load"}
    BY <1>1, <1>3 DEF NextProbe, Reconsider
  <2> QED
    BY <1>2, <2>1
<1>4. ASSUME ~Evicting(t) PROVE Judged(t)'
  <2>1. CASE pc'[t] = "idle"
    BY <1>2, <2>1
  <2>2. CASE Same(t)
    BY <1>2, <1>4, <2>2 DEF Evicting, Same
  <2> QED
    BY <2>1, <2>2, StepCall
<1>5. ASSUME Read(t), Evicting(t) PROVE Judged(t)'
  <2>1. /\ pc[t] \in Reading /\ UNCHANGED <<sequence, key, state, value>>
        /\ Here(t) \in Slots /\ sequence[Here(t)] \in Nat
    <3>1. pc[t] \in Reading /\ UNCHANGED <<sequence, key, state, value>>
      BY <1>5 DEF Read, ReadSeq1, CopyValue, VerifySeq, Confirm, Reading, table
    <3> QED
      BY <1>1, <1>5, <3>1, HereSlot DEF Shape, Evicting, Reading, TypeInv, TypeOK
  <2>2. ASSUME ReadSeq1(t), ~Reconsider(t) PROVE Judged(t)'
    <3>1. pc'[t] = "copy" /\ me' = [me EXCEPT ![t].s1 = sequence[Here(t)]]
      BY <1>1, <2>2 DEF ReadSeq1
    <3>2. me'[t].op = me[t].op /\ me'[t].probe = me[t].probe /\ me'[t].s1 = sequence[Here(t)]
      BY <1>1, <3>1 DEF Locals
    <3>3. Here(t)' = Here(t)
      BY <1>5, <3>2 DEF Here, Evicting
    <3> QED
      BY <2>1, <3>1, <3>2, <3>3 DEF Judged
  <2>3. ASSUME CopyValue(t) PROVE Judged(t)'
    <3>1. pc[t] = "copy" /\ pc'[t] = "seq2" /\ me' = [me EXCEPT ![t].got = value[Here(t)]]
      BY <1>1, <2>3 DEF CopyValue
    <3>2. /\ me'[t].op = me[t].op /\ me'[t].probe = me[t].probe /\ me'[t].s1 = me[t].s1
          /\ me'[t].got = value[Here(t)]
      BY <1>1, <3>1 DEF Locals
    <3>3. Here(t)' = Here(t)
      BY <1>5, <3>2 DEF Here, Evicting
    <3> QED
      BY <1>1, <1>5, <2>1, <3>1, <3>2, <3>3 DEF Judged
  <2>4. ASSUME VerifySeq(t), ~Reconsider(t) PROVE Judged(t)'
    <3>1. pc[t] = "seq2" /\ pc'[t] = "confirm" /\ me' = me
      BY <1>1, <2>4 DEF VerifySeq
    <3> QED
      BY <1>1, <1>5, <2>1, <3>1 DEF Judged, Here, Evicting
  <2>5. ASSUME Confirm(t), ~Reconsider(t) PROVE Judged(t)'
    <3>1. pc[t] = "confirm" /\ pc'[t] = "cas" /\ me' = me /\ me[t].got.id <= me[t].cut
      BY <1>1, <1>5, <2>5 DEF Confirm, Confirmed
    <3> QED
      BY <1>1, <1>5, <2>1, <3>1 DEF Judged, Here, Evicting
  <2> QED
    BY <1>3, <1>5, <2>2, <2>3, <2>4, <2>5 DEF Read
<1>6. ASSUME ClaimFound(t), Evicting(t) PROVE Judged(t)'
  <2>1. pc[t] = "cas" /\ UNCHANGED <<sequence, key, value>>
    BY <1>6 DEF ClaimFound
  <2>2. CASE Own(t, Here(t), "recheck")
    <3>1. /\ me'[t].op = me[t].op /\ me'[t].probe = me[t].probe /\ me'[t].s1 = me[t].s1
          /\ me'[t].got = me[t].got /\ me'[t].cut = me[t].cut /\ me'[t].cell = Here(t) /\ pc'[t] = "recheck"
      BY <1>1, <2>2 DEF Own, Locals
    <3>2. Here(t)' = Here(t)
      BY <1>6, <3>1 DEF Here, Evicting
    <3> QED
      BY <1>1, <1>6, <2>1, <3>1, <3>2 DEF Judged
  <2> QED
    BY <1>3, <1>6, <2>2, Zenon DEF ClaimFound
<1>7. ASSUME Recheck(t), Evicting(t) PROVE Judged(t)'
  <2>1. CASE StillMine(t) /\ pc[t] = "recheck" /\ pc'[t] = "write" /\ me' = me /\ value' = value
    BY <1>1, <1>7, <2>1 DEF Judged, StillMine, Evicting
  <2> QED
    BY <1>1, <1>3, <1>7, <2>1 DEF Recheck
<1>8. ASSUME Transact(t) \/ Scan(t) \/ EndScan(t) \/ Return(t) PROVE Judged(t)'
  <2>1. pc'[t] \notin {"copy", "seq2", "confirm", "cas", "recheck", "write"}
    BY <1>1, <1>8 DEF Transact, Write, Seal, Release, Released, Scan, EndScan, Return, NextProbe
  <2> QED
    BY <1>2, <2>1
<1>9. ASSUME Place(t) PROVE ~Evicting(t)
  BY <1>1, <1>9 DEF Place, ClaimEmpty, ClaimTombstone, Shape, Placing, Evicting
<1> QED
  BY <1>4, <1>5, <1>6, <1>7, <1>8, <1>9, StepCases DEF Take

LEMMA EvictNext == TypeInv /\ SlotInv /\ FindInv /\ EvictInv /\ [Next]_vars => EvictInv'
<1> SUFFICES ASSUME TypeInv, SlotInv, FindInv, EvictInv, [Next]_vars PROVE EvictInv'
  OBVIOUS
<1>1. TypeInv'
  BY TypeNext
<1>2. ASSUME NEW t \in Threads, Alone(t), Effect(t), Judged(t)' PROVE EvictInv'
  BY <1>1, <1>2, JudgedStable DEF EvictInv
<1>3. ASSUME NEW c \in Calls, Begin(c) PROVE EvictInv'
  <2>1. c.by \in Threads /\ Alone(c.by) /\ Quiet(c.by) /\ pc'[c.by] = "load"
    BY <1>3, BeginQuiet, TypeBegin DEF Begin, Goto, TypeInv, TypeOK
  <2>2. Judged(c.by)'
    BY <2>1 DEF Judged
  <2> QED
    BY <1>2, <2>1, <2>2 DEF Effect
<1>4. ASSUME NEW t \in Evictors, BeginEvict(t) PROVE EvictInv'
  <2>1. t \in Threads /\ Alone(t) /\ Quiet(t) /\ pc'[t] = "scan"
    BY <1>4, BeginQuiet, TypeBeginEvict DEF BeginEvict, Goto, TypeInv, TypeOK
  <2>2. Judged(t)'
    BY <2>1 DEF Judged
  <2> QED
    BY <1>2, <2>1, <2>2 DEF Effect
<1>5. ASSUME NEW t \in Threads, Step(t) PROVE EvictInv'
  BY <1>1, <1>2, <1>5, TypeStep, StepEffect, JudgedStep
<1>6. CASE UNCHANGED vars
  BY <1>6 DEF EvictInv, Judged, Here, Evicting, vars, table
<1> QED
  BY <1>3, <1>4, <1>5, <1>6 DEF Next

(* EvictsOnlyStale: evict_stale erases the value it judged too old; one    *)
(* that is stored in the slot after the copy makes the sequence differ.    *)
THEOREM EvictionOnlyOfStale == Spec => []EvictsOnlyStale
<1>1. EvictInv => EvictsOnlyStale
  BY DEF EvictInv, Judged, EvictsOnlyStale
<1>2. Init => TypeInv /\ SlotInv /\ FindInv /\ EvictInv
  BY TypeInit, SlotInit, FindInit, EvictInit
<1>3. TypeInv /\ SlotInv /\ FindInv /\ EvictInv /\ [Next]_vars => (TypeInv /\ SlotInv /\ FindInv /\ EvictInv)'
  BY TypeNext, SlotNext, FindNext, EvictNext
<1> QED
  BY <1>1, <1>2, <1>3, PTL DEF Spec

-----------------------------------------------------------------------------
(* Erasure.  Each call's value is in one place only: with its thread until *)
(* the seal, then in one slot, then among those taken; so none is taken    *)
(* twice.                                                                  *)

Carries(t) ==
    \/ pc[t] = "recheck"
    \/ pc[t] = "write" /\ me[t].op \notin Storing
    \/ pc[t] = "release" /\ me[t].op \in Storing

Stored(s) == state[s] = "VALID" \/ \E t \in Threads : Carries(t) /\ me[t].cell = s

Pending(t) == pc[t] \notin {"idle", "release"} /\ me[t].op \in Storing

Numbered ==
    /\ \A s \in Slots : Stored(s) => value[s].id <= calls
    /\ \A t \in Threads : Pending(t) => me[t].mine <= calls
    /\ \A v \in taken : v.id <= calls

InOnePlace ==
    /\ \A r, s \in Slots : Stored(r) /\ Stored(s) /\ r # s => value[r].id # value[s].id
    /\ \A t, u \in Threads : Pending(t) /\ Pending(u) /\ t # u => me[t].mine # me[u].mine
    /\ \A t \in Threads, s \in Slots : Pending(t) /\ Stored(s) => me[t].mine # value[s].id
    /\ \A v \in taken : /\ \A s \in Slots : Stored(s) => v.id # value[s].id
                        /\ \A t \in Threads : Pending(t) => v.id # me[t].mine

TakeInv == Numbered /\ InOnePlace /\ IsFiniteSet(taken) /\ TakenOnce

LEMMA TakeInit == Init => TakeInv
<1> SUFFICES ASSUME Init PROVE TakeInv
  OBVIOUS
<1>1. /\ \A s \in Slots : ~Stored(s)
      /\ \A t \in Threads : ~Pending(t)
      /\ taken = {} /\ takes = 0
  BY DEF Init, Stored, Carries, Pending
<1> QED
  BY <1>1, FS_EmptySet DEF TakeInv, Numbered, InOnePlace, TakenOnce

(* What is stored after a step of t was stored before it, or is the value  *)
(* that t has sealed.                                                      *)
Sealed(t, s) == Seal(t) /\ me[t].op \in Storing /\ s = me[t].cell

LEMMA StoredStep ==
  ASSUME TypeInv, SlotInv, NEW t \in Threads, Alone(t), Effect(t), NEW s \in Slots, Stored(s)'
  PROVE  \/ Stored(s) /\ value'[s] = value[s]
         \/ Sealed(t, s) /\ value'[s].id = me[t].mine
<1> USE DEF Goto
<1>1. /\ pc \in [Threads -> Pcs] /\ state \in [Slots -> States] /\ value \in [Slots -> Values \cup {NoValue}]
      /\ pc[t] \in Owners => me[t].cell \in Slots /\ state[me[t].cell] = "WRITING"
      /\ \A u \in Threads \ {t} : pc[u] \in Owners => state[me[u].cell] = "WRITING"
      /\ \A u \in Threads \ {t} : pc[t] \in Owners /\ pc[u] \in Owners => me[u].cell # me[t].cell
  BY DEF TypeInv, TypeOK, Shape, SlotInv, OneOwner
<1>2. ASSUME NEW u \in Threads \ {t} PROVE Carries(u)' = Carries(u) /\ me'[u].cell = me[u].cell
  BY DEF Carries, Alone
<1>3. \/ state'[s] = "VALID"
      \/ Carries(t)' /\ me'[t].cell = s
      \/ \E u \in Threads \ {t} : Carries(u) /\ me[u].cell = s
  BY <1>2 DEF Stored
<1>4. ASSUME NEW u \in Threads, Carries(u) PROVE pc[u] \in Owners
  BY <1>4 DEF Carries, Owners
<1>5. CASE Quiet(t)
  <2>1. UNCHANGED <<state, value>>
    BY <1>5 DEF Quiet, table
  <2>2. Carries(t)' => Carries(t) /\ me'[t].cell = me[t].cell
    BY <1>5 DEF Quiet, Carries, Owners
  <2> QED
    BY <1>3, <2>1, <2>2 DEF Stored
<1>6. ASSUME NEW r \in Slots, Takes(t, r) PROVE Stored(s) /\ value'[s] = value[s]
  <2>1. state' = [state EXCEPT ![r] = "WRITING"] /\ value' = value /\ me'[t].cell = r
    BY <1>6 DEF Takes
  <2>2. ASSUME Carries(t)' PROVE state[r] = "VALID"
    BY <1>6, <2>2 DEF Takes, Carries, Same, TypeInv, Shape, Placing, Storing
  <2> QED
    BY <1>1, <1>3, <2>1, <2>2 DEF Stored
<1>7. CASE GivesBack(t)
  <2>1. /\ state' = [state EXCEPT ![me[t].cell] = "VALID"] /\ value' = value
        /\ Carries(t) /\ ~Carries(t)'
    BY <1>7 DEF GivesBack, Carries, Owners
  <2> QED
    BY <1>1, <1>3, <2>1 DEF Stored
<1>8. ASSUME Transacts(t), Write(t) PROVE Stored(s) /\ value'[s] = value[s]
  <2>1. /\ pc[t] = "write" /\ pc'[t] = "seal" /\ state' = state
        /\ value' = value \/ value' = [value EXCEPT ![me[t].cell] = NoValue]
    BY <1>1, <1>8 DEF Write
  <2>2. ~Carries(t)'
    BY <2>1 DEF Carries
  <2>3. s # me[t].cell
    BY <1>1, <1>3, <1>4, <2>1, <2>2 DEF Owners
  <2> QED
    BY <1>1, <1>3, <2>1, <2>2, <2>3 DEF Stored
<1>9. ASSUME Transacts(t), Seal(t), ~Sealed(t, s) PROVE Stored(s) /\ value'[s] = value[s]
  <2>1. /\ pc[t] = "seal" /\ pc'[t] = "release" /\ state' = state /\ Same(t) /\ me'[t].cell = me[t].cell
        /\ value' = value \/ value' = [value EXCEPT ![me[t].cell] = [key |-> me[t].want, id |-> me[t].mine]]
    BY <1>1, <1>9 DEF Seal, Same
  <2>2. s # me[t].cell
    BY <1>1, <1>3, <1>4, <1>9, <2>1 DEF Owners, Carries, Sealed, Same
  <2> QED
    BY <1>1, <1>3, <2>1, <2>2 DEF Stored
<1>10. ASSUME Transacts(t), Release(t) PROVE Stored(s) /\ value'[s] = value[s]
  <2>1. /\ pc[t] = "release" /\ pc'[t] \notin Owners /\ value' = value
        /\ state' = [state EXCEPT ![me[t].cell] = IF me[t].op \in Storing THEN "VALID" ELSE "TOMBSTONE"]
    BY <1>10 DEF Release, Transacts
  <2>2. ~Carries(t)' /\ (me[t].op \in Storing => Carries(t))
    BY <2>1 DEF Carries, Owners
  <2> QED
    BY <1>1, <1>3, <2>1, <2>2 DEF Stored, Owners
<1>11. ASSUME Sealed(t, s) PROVE value'[s].id = me[t].mine
  BY <1>1, <1>11 DEF Sealed, Seal
<1> QED
  BY <1>5, <1>6, <1>7, <1>8, <1>9, <1>10, <1>11 DEF Effect, Transacts, Transact

LEMMA PendingStep ==
  ASSUME TypeInv, NEW t \in Threads, Step(t), Alone(t), NEW u \in Threads, Pending(u)'
  PROVE  Pending(u) /\ me'[u].mine = me[u].mine
<1>1. CASE u # t
  BY <1>1 DEF Pending, Alone
<1>2. CASE u = t
  <2>1. Same(t) /\ pc'[t] # "idle"
    BY <1>2, StepCall DEF Pending, Same
  <2>2. pc[t] # "idle"
    BY StepCases DEF Probe, PassWriter, PassTombstone, SeeValid, SeeEmpty, EndOfChain, CompareKey, Loads, Take,
       ClaimFound, Recheck, Place, ClaimEmpty, ClaimTombstone, Transact, Write, Seal, Release, Read, ReadSeq1,
       CopyValue, VerifySeq, Confirm, Scan, EndScan, Return, Goto
  <2>3. ASSUME pc[t] = "release" PROVE Release(t)
    BY <2>3, StepCases DEF Probe, PassWriter, PassTombstone, SeeValid, SeeEmpty, EndOfChain, CompareKey, Loads, Take,
       ClaimFound, Recheck, Place, ClaimEmpty, ClaimTombstone, Transact, Write, Seal, Read, ReadSeq1,
       CopyValue, VerifySeq, Confirm, Scan, EndScan, Return, Goto
  <2>4. ASSUME Release(t), me[t].op \in Storing PROVE pc'[t] = "idle"
    BY <2>4 DEF Release, Released, Evicting, Storing, TypeInv, TypeOK
  <2> QED
    BY <1>2, <2>1, <2>2, <2>3, <2>4 DEF Pending, Same
<1> QED
  BY <1>1, <1>2

(* The only step that takes a value is the write of an erasure.            *)
Erases(t) == Write(t) /\ me[t].op \notin Storing

LEMMA TakenStep ==
  ASSUME NEW t \in Threads, Step(t)
  PROVE  /\ calls' = calls
         /\ ~Erases(t) => taken' = taken /\ takes' = takes
         /\ Erases(t) => taken' = taken \cup {value[me[t].cell]} /\ takes' = takes + 1
<1>1. CASE ~Transact(t)
  BY <1>1, StepCases DEF Erases, Transact, Probe, PassWriter, PassTombstone, SeeValid, SeeEmpty, EndOfChain, CompareKey,
     Take, Place, ClaimFound, Recheck, ClaimEmpty, ClaimTombstone, Read, ReadSeq1, CopyValue, VerifySeq, Confirm,
     Scan, EndScan, Return, history
<1>2. CASE Transact(t)
  BY <1>2 DEF Erases, Transact, Write, Seal, Release, history, Goto
<1> QED
  BY <1>1, <1>2

LEMMA TakeStep ==
  ASSUME TypeInv, TypeInv', SlotInv, TakeInv, NEW t \in Threads, Step(t), Alone(t), Effect(t)
  PROVE  TakeInv'
<1>1. /\ \A s \in Slots : Stored(s)' =>
            (Stored(s) /\ value'[s] = value[s]) \/ (Sealed(t, s) /\ value'[s].id = me[t].mine)
      /\ \A u \in Threads : Pending(u)' => Pending(u) /\ me'[u].mine = me[u].mine
      /\ calls' = calls
  BY StoredStep, PendingStep, TakenStep
<1>2. ASSUME NEW s \in Slots, Sealed(t, s) PROVE Pending(t) /\ ~Pending(t)' /\ ~Erases(t)
  BY <1>2 DEF Sealed, Seal, Erases, Write, Goto, Pending, TypeInv, TypeOK
<1>3. \A r, s \in Slots : Sealed(t, r) /\ Sealed(t, s) => r = s
  BY DEF Sealed
<1>4. CASE ~Erases(t)
  <2>1. taken' = taken /\ takes' = takes
    BY <1>4, TakenStep
  <2>2. Numbered'
    BY <1>1, <1>2, <2>1 DEF TakeInv, Numbered
  <2>3. InOnePlace'
    <3>1. ASSUME NEW r \in Slots, NEW s \in Slots, Stored(r)', Stored(s)', r # s PROVE value'[r].id # value'[s].id
      BY <1>1, <1>2, <1>3, <3>1 DEF TakeInv, InOnePlace
    <3>2. \A u, v \in Threads : Pending(u)' /\ Pending(v)' /\ u # v => me'[u].mine # me'[v].mine
      BY <1>1 DEF TakeInv, InOnePlace
    <3>3. ASSUME NEW u \in Threads, NEW s \in Slots, Pending(u)', Stored(s)' PROVE me'[u].mine # value'[s].id
      BY <1>1, <1>2, <3>3 DEF TakeInv, InOnePlace
    <3>4. ASSUME NEW v \in taken
          PROVE  /\ \A s \in Slots : Stored(s)' => v.id # value'[s].id
                 /\ \A u \in Threads : Pending(u)' => v.id # me'[u].mine
      BY <1>1, <1>2 DEF TakeInv, InOnePlace
    <3> QED
      BY <2>1, <3>1, <3>2, <3>3, <3>4 DEF InOnePlace
  <2> QED
    BY <2>1, <2>2, <2>3 DEF TakeInv, TakenOnce
<1>5. CASE Erases(t)
  <2>0. PICK c, e : c \in Slots /\ c = me[t].cell /\ e = value[c]
    BY <1>5 DEF Erases, Write, Goto, TypeInv, Shape, Owners
  <2>1. /\ taken' = taken \cup {e} /\ takes' = takes + 1
        /\ \A s \in Slots : Stored(s)' => Stored(s) /\ value'[s] = value[s]
    BY <1>1, <1>2, <1>5, <2>0, TakenStep
  <2>2. Stored(c) /\ ~Stored(c)'
    <3>1. /\ pc[t] = "write" /\ pc'[t] = "seal" /\ me[t].op \notin Storing /\ state' = state
          /\ state[c] = "WRITING"
      BY <1>5, <2>0 DEF Erases, Write, Goto, TypeInv, TypeOK, Shape, SlotInv, OneOwner, Owners
    <3>2. Stored(c) /\ ~Carries(t)'
      BY <2>0, <3>1 DEF Stored, Carries
    <3>3. \A u \in Threads \ {t} : Carries(u)' => me'[u].cell # c
      BY <2>0, <3>1 DEF Carries, Alone, SlotInv, OneOwner, Owners
    <3> QED
      BY <3>1, <3>2, <3>3 DEF Stored
  <2>3. e \notin taken
    BY <2>0, <2>2 DEF TakeInv, InOnePlace
  <2>4. Numbered'
    BY <1>1, <2>0, <2>1, <2>2 DEF TakeInv, Numbered
  <2>5. InOnePlace'
    <3>1. \A r, s \in Slots : Stored(r)' /\ Stored(s)' /\ r # s => value'[r].id # value'[s].id
      BY <2>1 DEF TakeInv, InOnePlace
    <3>2. \A u, v \in Threads : Pending(u)' /\ Pending(v)' /\ u # v => me'[u].mine # me'[v].mine
      BY <1>1 DEF TakeInv, InOnePlace
    <3>3. \A u \in Threads, s \in Slots : Pending(u)' /\ Stored(s)' => me'[u].mine # value'[s].id
      BY <1>1, <2>1 DEF TakeInv, InOnePlace
    <3>4. ASSUME NEW v \in taken \cup {e}
          PROVE  /\ \A s \in Slots : Stored(s)' => v.id # value'[s].id
                 /\ \A u \in Threads : Pending(u)' => v.id # me'[u].mine
      BY <1>1, <2>0, <2>1, <2>2 DEF TakeInv, InOnePlace
    <3> QED
      BY <2>1, <3>1, <3>2, <3>3, <3>4 DEF InOnePlace
  <2>6. IsFiniteSet(taken)' /\ TakenOnce'
    <3>1. IsFiniteSet(taken) /\ takes = Cardinality(taken)
      BY DEF TakeInv, TakenOnce
    <3> QED
      BY <2>1, <2>3, <3>1, FS_AddElement DEF TakenOnce
  <2> QED
    BY <2>4, <2>5, <2>6 DEF TakeInv
<1> QED
  BY <1>4, <1>5

(* A call that begins brings a new number.                                 *)
LEMMA TakeBegin ==
  ASSUME TypeInv, TypeInv', SlotInv, TakeInv, NEW t \in Threads, Alone(t), Quiet(t), pc'[t] \notin Owners,
         calls' = calls + 1, UNCHANGED <<taken, takes>>,
         me'[t].op \in Storing => me'[t].mine = calls + 1
  PROVE  TakeInv'
<1>1. calls \in Nat
  BY DEF TypeInv, TypeOK
<1>2. /\ \A s \in Slots : Stored(s)' => Stored(s) /\ value'[s] = value[s]
      /\ \A u \in Threads \ {t} : Pending(u)' => Pending(u) /\ me'[u].mine = me[u].mine
      /\ Pending(t)' => me'[t].mine = calls + 1
  <2>1. value' = value
    BY DEF Quiet, table
  <2>2. Effect(t) /\ \A s \in Slots : Stored(s)' => Stored(s)
    BY <2>1 DEF Effect, Stored, Carries, Owners, Alone, Quiet, table
  <2> QED
    BY <2>1, <2>2 DEF Pending, Alone
<1>3. /\ \A s \in Slots : Stored(s) => value[s].id \in Nat /\ value[s].id <= calls
      /\ \A u \in Threads : Pending(u) => me[u].mine \in Nat /\ me[u].mine <= calls
      /\ \A v \in taken : v.id \in Nat /\ v.id <= calls
  BY DEF TakeInv, Numbered, TypeInv, TypeOK, Values, NoValue, Locals
<1>4. Numbered'
  BY <1>1, <1>2, <1>3 DEF Numbered
<1>5. InOnePlace'
  <2>1. \A r, s \in Slots : Stored(r)' /\ Stored(s)' /\ r # s => value'[r].id # value'[s].id
    BY <1>2 DEF TakeInv, InOnePlace
  <2>2. ASSUME NEW u \in Threads, NEW v \in Threads, Pending(u)', Pending(v)', u # v PROVE me'[u].mine # me'[v].mine
    BY <1>1, <1>2, <1>3, <2>2 DEF TakeInv, InOnePlace
  <2>3. ASSUME NEW u \in Threads, NEW s \in Slots, Pending(u)', Stored(s)' PROVE me'[u].mine # value'[s].id
    BY <1>1, <1>2, <1>3, <2>3 DEF TakeInv, InOnePlace
  <2>4. ASSUME NEW v \in taken
        PROVE  /\ \A s \in Slots : Stored(s)' => v.id # value'[s].id
               /\ \A u \in Threads : Pending(u)' => v.id # me'[u].mine
    BY <1>1, <1>2, <1>3 DEF TakeInv, InOnePlace
  <2> QED
    BY <2>1, <2>2, <2>3, <2>4 DEF InOnePlace
<1> QED
  BY <1>4, <1>5 DEF TakeInv, TakenOnce

LEMMA TakeNext == TypeInv /\ SlotInv /\ TakeInv /\ [Next]_vars => TakeInv'
<1> SUFFICES ASSUME TypeInv, SlotInv, TakeInv, [Next]_vars PROVE TakeInv'
  OBVIOUS
<1>1. TypeInv'
  BY TypeNext
<1>2. ASSUME NEW c \in Calls, Begin(c) PROVE TakeInv'
  <2>1. c.by \in Threads /\ Alone(c.by) /\ Quiet(c.by) /\ pc'[c.by] = "load"
    BY <1>2, BeginQuiet, TypeBegin DEF Begin, Goto, TypeInv, TypeOK
  <2>2. calls' = calls + 1 /\ UNCHANGED <<taken, takes>> /\ me'[c.by].mine = calls + 1
    BY <1>2, <2>1 DEF Begin, TypeInv, TypeOK, Fresh
  <2> QED
    BY <1>1, <2>1, <2>2, TakeBegin DEF Owners
<1>3. ASSUME NEW t \in Evictors, BeginEvict(t) PROVE TakeInv'
  <2>1. t \in Threads /\ Alone(t) /\ Quiet(t) /\ pc'[t] = "scan"
    BY <1>3, BeginQuiet, TypeBeginEvict DEF BeginEvict, Goto, TypeInv, TypeOK
  <2>2. calls' = calls + 1 /\ UNCHANGED <<taken, takes>> /\ me'[t].op = "evict"
    BY <1>3, <2>1 DEF BeginEvict, TypeInv, TypeOK, Fresh
  <2> QED
    BY <1>1, <2>1, <2>2, TakeBegin DEF Owners, Storing
<1>4. ASSUME NEW t \in Threads, Step(t) PROVE TakeInv'
  BY <1>1, <1>4, TypeStep, StepEffect, TakeStep
<1>5. CASE UNCHANGED vars
  BY <1>5 DEF TakeInv, Numbered, InOnePlace, TakenOnce, Stored, Carries, Pending, vars, table, history
<1> QED
  BY <1>2, <1>3, <1>4, <1>5 DEF Next

(* TakenOnce: no value is erased or evicted twice, whoever competes for    *)
(* its slot: a start event is paired once.                                 *)
THEOREM TakenAtMostOnce == Spec => []TakenOnce
<1>1. TakeInv => TakenOnce
  BY DEF TakeInv
<1>2. Init => TypeInv /\ SlotInv /\ TakeInv
  BY TypeInit, SlotInit, TakeInit
<1>3. TypeInv /\ SlotInv /\ TakeInv /\ [Next]_vars => (TypeInv /\ SlotInv /\ TakeInv)'
  BY TypeNext, SlotNext, TakeNext
<1> QED
  BY <1>1, <1>2, <1>3, PTL DEF Spec

-----------------------------------------------------------------------------
(* The keys of slots.  A slot without a value has no key; the key of an    *)
(* owned one changes from none to the owner's, or from a key to none.      *)

Unkeyed(s) == state[s] \in {"EMPTY", "TOMBSTONE"} => key[s] = NoKey

Keyed(t) ==
    /\ pc[t] = "recheck" => me[t].cell = Here(t)
    /\ pc[t] = "write" /\ me[t].op \in Storing => key[me[t].cell] \in {NoKey, me[t].want}
    /\ pc[t] \in {"seal", "release"} =>
          key[me[t].cell] = IF me[t].op \in Storing THEN me[t].want ELSE NoKey

KeyInv == (\A s \in Slots : Unkeyed(s)) /\ (\A t \in Threads : Keyed(t))

LEMMA KeyInit == Init => KeyInv
<1> SUFFICES ASSUME Init PROVE KeyInv
  OBVIOUS
<1>1. \A s \in Slots : Unkeyed(s)
  BY DEF Init, Unkeyed
<1>2. \A t \in Threads : Keyed(t)
  BY DEF Init, Keyed
<1> QED
  BY <1>1, <1>2 DEF KeyInv

LEMMA OwnHere ==
  ASSUME TypeInv, NEW t \in Threads, Step(t), pc'[t] = "recheck"
  PROVE  /\ pc[t] = "cas" /\ me'[t].cell = Here(t) /\ Same(t) /\ Here(t)' = Here(t)
         /\ me'[t].there = me[t].there /\ me'[t].saw = me[t].saw /\ me'[t].probe = me[t].probe
<1> USE DEF Goto
<1>1. pc \in [Threads -> Pcs] /\ me \in [Threads -> Locals] /\ me[t] \in Locals
  BY DEF TypeInv, TypeOK
<1>2. ASSUME NextProbe(t) \/ Reconsider(t) \/ Again(t) PROVE FALSE
  BY <1>2, NextProbeEffect DEF Owners
<1>3. ASSUME ~Take(t) PROVE FALSE
  BY <1>1, <1>2, <1>3, StepCases DEF Probe, PassWriter, PassTombstone, SeeValid, SeeEmpty, EndOfChain, CompareKey,
     Loads, Place, ClaimEmpty, ClaimTombstone, Own, Transact, Write, Seal, Release, Released, Read, ReadSeq1,
     CopyValue, VerifySeq, Confirm, Scan, EndScan, Return
<1>4. pc[t] = "cas" /\ Own(t, Here(t), "recheck")
  BY <1>1, <1>2, <1>3 DEF Take, ClaimFound, Recheck
<1>5. /\ me'[t].cell = Here(t) /\ Same(t) /\ me'[t].probe = me[t].probe
      /\ me'[t].there = me[t].there /\ me'[t].saw = me[t].saw
  BY <1>1, <1>4 DEF Own, Same, Locals
<1> QED
  BY <1>4, <1>5 DEF Here, Evicting, Same

LEMMA KeyedStable ==
  ASSUME TypeInv, SlotInv, KeyInv, NEW t \in Threads, Effect(t), Alone(t), NEW u \in Threads \ {t}
  PROVE  Keyed(u)'
<1>1. Keyed(u) /\ Here(u)' = Here(u)
  BY DEF KeyInv, Here, Evicting, Alone
<1>2. ASSUME pc[u] \in Owners PROVE key'[me[u].cell] = key[me[u].cell]
  <2>1. me[u].cell \in Slots /\ (pc[t] \in Owners => me[u].cell # me[t].cell)
    BY <1>2 DEF TypeInv, Shape, SlotInv, OneOwner
  <2> QED
    BY <2>1, OthersKept DEF Owners
<1> QED
  BY <1>1, <1>2 DEF Keyed, Alone, Owners

(* What a step does to the key of the slot it works on.                    *)
LEMMA KeyStep ==
  ASSUME TypeInv, SlotInv, KeyInv, NEW t \in Threads, Effect(t), Alone(t),
         pc'[t] = "recheck" => me'[t].cell = Here(t)'
  PROVE  KeyInv'
<1> USE DEF Goto
<1>1. /\ key \in [Slots -> Keys \cup {NoKey}] /\ state \in [Slots -> States] /\ pc \in [Threads -> Pcs]
      /\ pc[t] \in Owners => me[t].cell \in Slots /\ state[me[t].cell] = "WRITING"
      /\ Keyed(t) /\ \A s \in Slots : Unkeyed(s)
  BY DEF TypeInv, TypeOK, Shape, SlotInv, OneOwner, KeyInv
<1>2. ASSUME \A s \in Slots : Unkeyed(s)', Keyed(t)' PROVE KeyInv'
  BY <1>2, KeyedStable DEF KeyInv
<1>3. CASE Quiet(t)
  <2>1. \A s \in Slots : Unkeyed(s)'
    BY <1>1, <1>3 DEF Quiet, Unkeyed, table
  <2>2. ASSUME pc[t] = "recheck", pc'[t] = "write", StillMine(t), me' = me PROVE Keyed(t)'
    BY <1>1, <1>3, <2>2 DEF Keyed, StillMine, Evicting, Storing, Quiet, table
  <2>3. ASSUME pc'[t] \notin Owners PROVE Keyed(t)'
    BY <2>3 DEF Keyed, Owners
  <2> QED
    BY <1>2, <1>3, <2>1, <2>2, <2>3 DEF Quiet
<1>4. ASSUME NEW r \in Slots, Takes(t, r) PROVE KeyInv'
  <2>1. state' = [state EXCEPT ![r] = "WRITING"] /\ key' = key /\ me'[t].cell = r
    BY <1>4 DEF Takes
  <2>2. \A s \in Slots : Unkeyed(s)'
    BY <1>1, <2>1 DEF Unkeyed
  <2>3. Keyed(t)'
    BY <1>1, <1>4, <2>1 DEF Keyed, Takes, Unkeyed
  <2> QED
    BY <1>2, <2>2, <2>3
<1>5. CASE GivesBack(t)
  <2>1. \A s \in Slots : Unkeyed(s)'
    BY <1>1, <1>5 DEF Unkeyed, GivesBack
  <2>2. Keyed(t)'
    BY <1>5 DEF Keyed, GivesBack, Owners
  <2> QED
    BY <1>2, <2>1, <2>2
<1>6. ASSUME Transacts(t), Write(t) PROVE KeyInv'
  <2>1. /\ pc[t] = "write" /\ pc'[t] = "seal" /\ state' = state /\ Same(t) /\ me'[t].cell = me[t].cell
        /\ key' = [key EXCEPT ![me[t].cell] = IF me[t].op \in Storing THEN me[t].want ELSE NoKey]
    BY <1>1, <1>6 DEF Write, Transacts, Release
  <2>2. \A s \in Slots : Unkeyed(s)'
    BY <1>1, <2>1 DEF Unkeyed, Owners
  <2>3. Keyed(t)'
    BY <1>1, <2>1 DEF Keyed, Same, Owners
  <2> QED
    BY <1>2, <2>2, <2>3
<1>7. ASSUME Transacts(t), Seal(t) PROVE KeyInv'
  <2>1. pc[t] = "seal" /\ pc'[t] = "release" /\ state' = state /\ key' = key /\ me' = me
    BY <1>1, <1>7 DEF Seal
  <2>2. (\A s \in Slots : Unkeyed(s)') /\ Keyed(t)'
    BY <1>1, <2>1 DEF Unkeyed, Keyed
  <2> QED
    BY <1>2, <2>2
<1>8. ASSUME Transacts(t), Release(t) PROVE KeyInv'
  <2>1. /\ pc[t] = "release" /\ pc'[t] \notin Owners /\ key' = key
        /\ state' = [state EXCEPT ![me[t].cell] = IF me[t].op \in Storing THEN "VALID" ELSE "TOMBSTONE"]
    BY <1>8 DEF Release, Transacts
  <2>2. \A s \in Slots : Unkeyed(s)'
    BY <1>1, <2>1 DEF Unkeyed, Keyed
  <2>3. Keyed(t)'
    BY <2>1 DEF Keyed, Owners
  <2> QED
    BY <1>2, <2>2, <2>3
<1> QED
  BY <1>3, <1>4, <1>5, <1>6, <1>7, <1>8 DEF Effect, Transacts, Transact

LEMMA KeyNext == TypeInv /\ SlotInv /\ KeyInv /\ [Next]_vars => KeyInv'
<1> SUFFICES ASSUME TypeInv, SlotInv, KeyInv, [Next]_vars PROVE KeyInv'
  OBVIOUS
<1>1. ASSUME NEW c \in Calls, Begin(c) PROVE KeyInv'
  <2>1. c.by \in Threads /\ Alone(c.by) /\ Quiet(c.by) /\ pc'[c.by] = "load"
    BY <1>1, BeginQuiet, TypeBegin DEF Begin, Goto, TypeInv, TypeOK
  <2> QED
    BY <2>1, KeyStep DEF Effect
<1>2. ASSUME NEW t \in Evictors, BeginEvict(t) PROVE KeyInv'
  <2>1. t \in Threads /\ Alone(t) /\ Quiet(t) /\ pc'[t] = "scan"
    BY <1>2, BeginQuiet, TypeBeginEvict DEF BeginEvict, Goto, TypeInv, TypeOK
  <2> QED
    BY <2>1, KeyStep DEF Effect
<1>3. ASSUME NEW t \in Threads, Step(t) PROVE KeyInv'
  BY <1>3, TypeStep, StepEffect, OwnHere, KeyStep
<1>4. CASE UNCHANGED vars
  BY <1>4 DEF KeyInv, Unkeyed, Keyed, Here, Evicting, vars, table
<1> QED
  BY <1>1, <1>2, <1>3, <1>4 DEF Next

-----------------------------------------------------------------------------
(* Misses.  While nobody erases the key, some slot of its chain holds it,  *)
(* VALID or in the hands of a thread that will put it back; a search that  *)
(* has passed no writer has that slot before it.                           *)

At(k, n) == (Home[k] + n) % Capacity

Leads(k, n) ==
    /\ key[At(k, n)] = k /\ state[At(k, n)] \in {"VALID", "WRITING"}
    /\ \A m \in 0..n : state[At(k, m)] # "EMPTY"

Onward(t, n) == me[t].saw \/ me[t].probe <= n

Ahead(t) == \E n \in 0..(MaxProbes - 1) : Leads(me[t].want, n) /\ Onward(t, n)

Searching == {"load", "key", "cas", "recheck"} \cup Reading

Findable(t) ==
    ~Placing(t) /\ me[t].there =>
        /\ pc[t] \in Searching /\ ~Evicting(t) => Ahead(t)
        /\ pc[t] = "missed" => me[t].saw /\ me[t].retry + 1 = FindRetries

MissInv == \A t \in Threads : Findable(t)

LEMMA MissInit == Init => MissInv
  BY DEF Init, MissInv, Findable, Fresh

LEMMA AtSlot == ASSUME NEW k \in Keys, NEW n \in Nat PROVE At(k, n) \in Slots
<1>1. Home[k] \in Nat
  BY Names DEF Slots
<1> QED
  BY <1>1, Wrapped DEF At

LEMMA LeadsStable ==
  ASSUME TypeInv, SlotInv, KeyInv, NEW t \in Threads, Effect(t), NEW k \in Keys,
         NEW n \in 0..(MaxProbes - 1), Leads(k, n), Erases(t) => key[me[t].cell] # k
  PROVE  Leads(k, n)'
<1> USE DEF Goto
<1>1. PICK s \in Slots : s = At(k, n) /\ key[s] = k /\ state[s] \in {"VALID", "WRITING"}
  BY AtSlot, Sizes DEF Leads
<1>2. /\ key \in [Slots -> Keys \cup {NoKey}] /\ state \in [Slots -> States]
      /\ pc[t] \in Owners => me[t].cell \in Slots
      /\ Keyed(t) /\ k # NoKey
  BY Names DEF TypeInv, TypeOK, Shape, KeyInv
<1>3. ASSUME NEW m \in 0..n PROVE state'[At(k, m)] # "EMPTY"
  <2>1. At(k, m) \in Slots /\ state[At(k, m)] # "EMPTY"
    BY AtSlot, Sizes DEF Leads
  <2> QED
    BY <2>1, UsedForEver
<1>4. key'[s] = k
  <2>1. CASE Write(t) /\ s = me[t].cell
    BY <1>1, <1>2, <2>1 DEF Write, Erases, Keyed, Owners
  <2>2. CASE ~(Write(t) /\ s = me[t].cell)
    BY <1>1, <1>2, <2>2 DEF Effect, Quiet, Takes, GivesBack, Transacts, Transact, Write, Seal, Release, table
  <2> QED
    BY <2>1, <2>2
<1>5. state'[s] \in {"VALID", "WRITING"}
  <2>1. CASE Release(t)
    BY <1>1, <1>2, <2>1 DEF Release, Keyed, Owners
  <2>2. CASE ~Release(t)
    BY <1>1, <1>2, <2>2 DEF Effect, Quiet, Takes, GivesBack, Transacts, Transact, Write, Seal, table
  <2> QED
    BY <2>1, <2>2
<1> QED
  BY <1>1, <1>3, <1>4, <1>5 DEF Leads, At

(* A key that another thread erases is no longer there.                    *)
LEMMA ThereStep ==
  ASSUME TypeInv, NEW t \in Threads, Step(t), NEW u \in Threads \ {t}, me'[u].there
  PROVE  me[u].there /\ (Erases(t) => key[me[t].cell] # me[u].want)
<1> USE DEF Goto
<1>1. me \in [Threads -> Locals] /\ me[u] \in Locals
  BY DEF TypeInv, TypeOK
<1>2. CASE Erases(t)
  <2> DEFINE h == me[u].there /\ me[u].want # key[me[t].cell]
  <2>1. me'[u] = [me[u] EXCEPT !.there = h]
    BY <1>2 DEF Erases, Write
  <2>2. h \in BOOLEAN
    BY <1>1 DEF Locals
  <2>3. me'[u].there = h
    <3> HIDE DEF h
    <3> QED
      BY <1>1, <2>1, <2>2 DEF Locals
  <2> QED
    BY <2>3
<1>3. CASE ~Erases(t)
  <2>1. ASSUME NextProbe(t) \/ Reconsider(t) \/ Again(t) PROVE me'[u] = me[u]
    BY <1>1, <2>1 DEF NextProbe, Reconsider, Again
  <2>2. ASSUME Probe(t) PROVE me'[u] = me[u]
    BY <1>1, <2>1, <2>2 DEF Probe, PassWriter, PassTombstone, SeeValid, SeeEmpty, EndOfChain, CompareKey
  <2>3. ASSUME Take(t) \/ Place(t) PROVE me'[u] = me[u]
    BY <1>1, <2>1, <2>3 DEF Take, Place, ClaimFound, Recheck, ClaimEmpty, ClaimTombstone, Own
  <2>4. ASSUME Read(t) PROVE me'[u] = me[u]
    BY <1>1, <2>1, <2>4 DEF Read, ReadSeq1, CopyValue, VerifySeq, Confirm
  <2>5. ASSUME Scan(t) \/ EndScan(t) \/ Return(t) PROVE me'[u] = me[u]
    BY <1>1, <2>1, <2>5 DEF Scan, EndScan, Return
  <2>6. ASSUME Transact(t) PROVE me'[u] = me[u]
    BY <1>1, <1>3, <2>6 DEF Transact, Write, Seal, Release, Released, Erases
  <2> QED
    BY <1>3, <2>2, <2>3, <2>4, <2>5, <2>6, StepCases
<1> QED
  BY <1>2, <1>3

LEMMA FindableStable ==
  ASSUME TypeInv, SlotInv, KeyInv, MissInv, NEW t \in Threads, Effect(t), Alone(t), NEW u \in Threads \ {t},
         me'[u].there => me[u].there /\ (Erases(t) => key[me[t].cell] # me[u].want)
  PROVE  Findable(u)'
<1> SUFFICES ASSUME me'[u].there, ~Placing(u) PROVE Findable(u)'
  BY DEF Findable, Placing, Alone
<1>1. Findable(u) /\ me[u].there
  BY DEF MissInv
<1>2. ASSUME pc[u] \in Searching, ~Evicting(u) PROVE Ahead(u)'
  <2>1. PICK n \in 0..(MaxProbes - 1) : Leads(me[u].want, n) /\ Onward(u, n)
    BY <1>1, <1>2 DEF Findable, Ahead
  <2>2. PICK k \in Keys : k = me[u].want
    BY <1>2, ReachedKeys DEF Searching, Reading
  <2>3. Leads(k, n)'
    BY <2>1, <2>2, LeadsStable
  <2>4. Leads(me[u].want, n)'
    BY <2>2, <2>3 DEF Leads, At, Alone
  <2> QED
    BY <2>1, <2>4 DEF Ahead, Onward, Alone
<1> QED
  BY <1>1, <1>2 DEF Findable, Alone, Evicting

LEMMA AheadNext ==
  ASSUME TypeInv, SlotInv, KeyInv, NEW t \in Threads, Effect(t), ~Erases(t), Same(t), me[t].want \in Keys,
         NEW n \in 0..(MaxProbes - 1), Leads(me[t].want, n), Onward(t, n)'
  PROVE  Ahead(t)'
<1>1. PICK k \in Keys : k = me[t].want
  OBVIOUS
<1>2. Leads(k, n)'
  BY <1>1, LeadsStable
<1> QED
  BY <1>1, <1>2 DEF Ahead, Leads, At, Same

(* The slot under the probe is not the one the key is in: it lies ahead.   *)
LEMMA NotHere ==
  ASSUME TypeInv, NEW t \in Threads, ~Evicting(t), NEW n \in 0..(MaxProbes - 1), Leads(me[t].want, n), Onward(t, n),
         state[Here(t)] \notin {"VALID", "WRITING"} \/ key[Here(t)] # me[t].want
  PROVE  /\ me[t].saw \/ me[t].probe + 1 <= n
         /\ state[Here(t)] = "EMPTY" => me[t].saw
<1>1. me[t].probe \in Nat /\ n \in Nat /\ Here(t) = At(me[t].want, me[t].probe)
  BY Sizes DEF TypeInv, TypeOK, Locals, Here, At
<1> QED
  BY <1>1 DEF Leads, Onward

(* What a search knows about its key changes with its next call only.      *)
LEMMA OwnThere ==
  ASSUME TypeInv, NEW t \in Threads, ~Evicting(t), Probe(t) \/ Take(t) \/ Read(t)
  PROVE  me'[t].there = me[t].there
<1>1. me \in [Threads -> Locals] /\ me[t] \in Locals
  BY DEF TypeInv, TypeOK
<1>2. ASSUME NextProbe(t) \/ Reconsider(t) PROVE me'[t].there = me[t].there
  BY <1>2, NextProbeLocals, ReconsiderLocals
<1>3. ASSUME Again(t) PROVE me'[t].there = me[t].there
  <2>1. CASE me' = [me EXCEPT ![t].retry = @ + 1, ![t].probe = 0, ![t].saw = FALSE, ![t].tomb = None]
    BY <1>1, <2>1 DEF Locals
  <2> QED
    BY <1>3, <2>1 DEF Again
<1>4. ASSUME PassWriter(t) PROVE me'[t].there = me[t].there
  BY <1>1, <1>4 DEF PassWriter, Locals
<1>5. ASSUME PassTombstone(t) PROVE me'[t].there = me[t].there
  BY <1>1, <1>5 DEF PassTombstone, Locals
<1>6. ASSUME SeeEmpty(t) \/ EndOfChain(t) PROVE me'[t].there = me[t].there
  <2>1. CASE me' = [me EXCEPT ![t].probe = @ + 1]
    BY <1>1, <2>1 DEF Locals
  <2> QED
    BY <1>3, <1>6, <2>1 DEF SeeEmpty, EndOfChain
<1>7. ASSUME SeeValid(t) \/ CompareKey(t) PROVE me'[t].there = me[t].there
  BY <1>2, <1>7 DEF SeeValid, CompareKey
<1>8. ASSUME NEW s, NEW to, Own(t, s, to) PROVE me'[t].there = me[t].there
  BY <1>1, <1>8 DEF Own, Locals
<1>9. ASSUME Take(t) PROVE me'[t].there = me[t].there
  BY <1>2, <1>8, <1>9 DEF Take, ClaimFound, Recheck
<1>10. ASSUME ReadSeq1(t) PROVE me'[t].there = me[t].there
  <2>1. CASE me' = [me EXCEPT ![t].s1 = sequence[Here(t)]]
    BY <1>1, <2>1 DEF Locals
  <2> QED
    BY <1>2, <1>10, <2>1 DEF ReadSeq1
<1>11. ASSUME CopyValue(t) PROVE me'[t].there = me[t].there
  BY <1>1, <1>11 DEF CopyValue, Locals
<1>12. ASSUME VerifySeq(t) \/ Confirm(t) PROVE me'[t].there = me[t].there
  BY <1>2, <1>12 DEF VerifySeq, Confirm
<1> QED
  BY <1>4, <1>5, <1>6, <1>7, <1>9, <1>10, <1>11, <1>12 DEF Probe, Read

(* A search goes on with the key before it until it has it, or passes a    *)
(* writer and runs out of retries.                                         *)
LEMMA SearchStep ==
  ASSUME TypeInv, KeyInv, NEW t \in Threads, Step(t), Same(t), ~Evicting(t), pc[t] \in Searching,
         NEW n \in 0..(MaxProbes - 1), Leads(me[t].want, n), Onward(t, n)
  PROVE  \/ pc'[t] \in Searching /\ Onward(t, n)'
         \/ pc'[t] = "missed" /\ me'[t].saw /\ me'[t].retry + 1 = Retries(t)
         \/ pc'[t] \in {"write", "found"}
<1> DEFINE Goes  == pc'[t] \in Searching /\ Onward(t, n)'
           Fails == pc'[t] = "missed" /\ me'[t].saw /\ me'[t].retry + 1 = Retries(t)
<1> USE DEF Goto
<1>1. /\ pc \in [Threads -> Pcs] /\ me \in [Threads -> Locals] /\ me[t] \in Locals /\ Keyed(t)
      /\ me[t].probe \in Nat /\ me[t].retry \in Nat /\ me[t].retry < Retries(t) /\ Retries(t) \in Nat
      /\ n \in Nat /\ n < MaxProbes
  BY RetriesNat, Sizes DEF TypeInv, TypeOK, Locals, KeyInv, Searching, Reading
<1>2. ASSUME me'[t].probe = me[t].probe, me'[t].saw = me[t].saw PROVE Onward(t, n)'
  BY <1>2 DEF Onward
<1>3. ASSUME Reconsider(t) PROVE Goes
  BY <1>2, <1>3, ReconsiderLocals DEF Searching
<1>4. ASSUME NextProbe(t), key[Here(t)] # me[t].want PROVE Goes
  BY <1>4, NextProbeLocals, NotHere DEF Onward, Searching
<1>5. ASSUME Again(t), me[t].saw PROVE Goes \/ Fails
  <2>1. CASE me[t].retry + 1 < Retries(t)
    <3>1. pc'[t] = "load" /\ me'[t].probe = 0
      BY <1>1, <1>5, <2>1 DEF Again, Locals
    <3> QED
      BY <1>1, <3>1 DEF Onward, Searching
  <2>2. CASE ~(me[t].retry + 1 < Retries(t))
    <3>1. pc'[t] = "missed" /\ me' = me
      BY <1>1, <1>5, <2>2 DEF Again
    <3>2. me[t].retry + 1 = Retries(t)
      BY <1>1, <2>2
    <3> QED
      BY <1>5, <3>1, <3>2
  <2> QED
    BY <2>1, <2>2
<1>6. ASSUME PassWriter(t) PROVE Goes
  BY <1>1, <1>6 DEF PassWriter, Loads, Locals, Onward, Searching
<1>7. ASSUME PassTombstone(t) PROVE Goes
  <2>1. /\ state[Here(t)] = "TOMBSTONE" /\ pc'[t] = "load"
        /\ me'[t].probe = me[t].probe + 1 /\ me'[t].saw = me[t].saw
    BY <1>1, <1>7 DEF PassTombstone, Loads, Locals
  <2> QED
    BY <2>1, NotHere DEF Onward, Searching
<1>8. ASSUME SeeValid(t) PROVE Goes
  BY <1>1, <1>2, <1>8 DEF SeeValid, Searching
<1>9. ASSUME SeeEmpty(t) PROVE Goes \/ Fails
  <2>1. state[Here(t)] = "EMPTY" /\ me[t].saw
    BY <1>9, NotHere DEF SeeEmpty, Loads
  <2>2. CASE me' = [me EXCEPT ![t].probe = @ + 1] /\ pc' = pc
    BY <1>1, <1>9, <2>1, <2>2 DEF Locals, Onward
  <2> QED
    BY <1>5, <1>9, <2>1, <2>2 DEF SeeEmpty
<1>10. ASSUME EndOfChain(t) PROVE Goes \/ Fails
  BY <1>1, <1>5, <1>10 DEF EndOfChain, Onward
<1>11. ASSUME CompareKey(t) PROVE Goes
  BY <1>1, <1>2, <1>4, <1>11 DEF CompareKey, Searching, Reading
<1>12. ASSUME ClaimFound(t) PROVE Goes
  <2>1. CASE Own(t, Here(t), "recheck")
    <3>1. pc'[t] = "recheck"
      BY <1>1, <2>1 DEF Own
    <3> QED
      BY <1>2, <3>1, OwnHere DEF Searching
  <2> QED
    BY <1>3, <1>12, <2>1 DEF ClaimFound
<1>13. ASSUME Recheck(t), pc'[t] # "write" PROVE Goes
  <2>1. ~StillMine(t) /\ NextProbe(t) /\ pc[t] = "recheck"
    BY <1>1, <1>13 DEF Recheck
  <2> QED
    BY <1>1, <1>4, <2>1 DEF StillMine, Keyed
<1>14. ASSUME Read(t), pc'[t] # "found" PROVE Goes
  <2>1. CASE ~Reconsider(t)
    <3>1. me'[t].probe = me[t].probe /\ me'[t].saw = me[t].saw /\ pc'[t] \in Searching
      BY <1>1, <1>14, <2>1 DEF Read, ReadSeq1, CopyValue, VerifySeq, Confirm, Locals, Searching, Reading
    <3> QED
      BY <1>2, <3>1
  <2> QED
    BY <1>3, <2>1
<1>15. Probe(t) \/ Take(t) \/ Read(t)
  BY StepCases DEF Place, ClaimEmpty, ClaimTombstone, Transact, Write, Seal, Release, Return, Searching, Reading
<1> QED
  BY <1>6, <1>7, <1>8, <1>9, <1>10, <1>11, <1>12, <1>13, <1>14, <1>15 DEF Probe, Take

LEMMA FindableStep ==
  ASSUME TypeInv, TypeInv', SlotInv, KeyInv, MissInv, NEW t \in Threads, Step(t), Effect(t)
  PROVE  Findable(t)'
<1> USE DEF Goto
<1> SUFFICES ASSUME me'[t].there, ~Placing(t)', ~Evicting(t)', pc'[t] \in Searching \cup {"missed"}
             PROVE  /\ pc'[t] \in Searching => Ahead(t)'
                    /\ pc'[t] = "missed" => me'[t].saw /\ me'[t].retry + 1 = FindRetries
  BY DEF Findable, TypeInv, Shape, Looking, Evicting
<1>1. /\ pc \in [Threads -> Pcs] /\ me \in [Threads -> Locals] /\ me[t] \in Locals
      /\ Same(t) /\ ~Placing(t) /\ ~Evicting(t) /\ Findable(t) /\ Shape(t)
  <2>1. Same(t)
    BY StepCall DEF Fresh
  <2> QED
    BY <2>1 DEF TypeInv, TypeOK, MissInv, Same, Placing, Evicting
<1>2. pc[t] \in Searching
  BY <1>1, StepCases, ZenonT(30) DEF Probe, PassWriter, PassTombstone, SeeValid, SeeEmpty, EndOfChain, CompareKey, Loads, Take,
     ClaimFound, Recheck, Place, ClaimEmpty, ClaimTombstone, Shape, Transact, Write, Seal, Release, Released,
     Read, ReadSeq1, CopyValue, VerifySeq, Confirm, Return, Searching, Reading
<1>3. ~Transact(t) /\ ~Place(t) /\ ~Erases(t) /\ me[t].want \in Keys
  BY <1>1, <1>2, ReachedKeys DEF Transact, Write, Seal, Release, Place, ClaimEmpty, ClaimTombstone, Shape, Erases,
     Searching, Reading
<1>4. me'[t].there = me[t].there
  BY <1>1, <1>2, <1>3, OwnThere, StepCases DEF Return, Searching, Reading
<1>5. PICK n \in 0..(MaxProbes - 1) : Leads(me[t].want, n) /\ Onward(t, n)
  BY <1>1, <1>2, <1>4 DEF Findable, Ahead
<1>6. ASSUME Onward(t, n)' PROVE Ahead(t)'
  BY <1>1, <1>3, <1>5, <1>6, AheadNext
<1>7. Retries(t) = FindRetries
  BY <1>1 DEF Retries
<1> QED
  BY <1>1, <1>2, <1>5, <1>6, <1>7, SearchStep DEF Searching, Reading

LEMMA MissNext == TypeInv /\ SlotInv /\ ChainInv /\ KeyInv /\ MissInv /\ [Next]_vars => MissInv'
<1> SUFFICES ASSUME TypeInv, SlotInv, ChainInv, KeyInv, MissInv, [Next]_vars PROVE MissInv'
  OBVIOUS
<1>1. TypeInv'
  BY TypeNext
<1>2. ASSUME NEW t \in Threads, Alone(t), Quiet(t), ~Erases(t), Findable(t)',
             \A u \in Threads \ {t} : me'[u] = me[u]
      PROVE  MissInv'
  BY <1>2, FindableStable DEF MissInv, Effect
<1>3. ASSUME NEW c \in Calls, Begin(c) PROVE MissInv'
  <2>1. /\ c.by \in Threads /\ Alone(c.by) /\ Quiet(c.by) /\ pc'[c.by] = "load" /\ ~Erases(c.by)
        /\ c.key \in Keys /\ \A u \in Threads \ {c.by} : me'[u] = me[u]
    BY <1>3, BeginQuiet, TypeBegin, Names DEF Begin, Goto, TypeInv, TypeOK, Erases, Write
  <2>2. /\ me'[c.by].want = c.key /\ me'[c.by].there = Holds(c.key) /\ me'[c.by].probe = 0
        /\ UNCHANGED <<key, state>>
    BY <1>3, <2>1 DEF Begin, TypeInv, TypeOK, Fresh, table
  <2>3. ASSUME Holds(c.key) PROVE Ahead(c.by)'
    <3>1. PICK s \in Slots : state[s] = "VALID" /\ key[s] = c.key
      BY <2>3 DEF Holds
    <3>2. PICK n \in 0..(MaxProbes - 1) : s = At(c.key, n) /\ \A m \in 0..n : state[At(c.key, m)] # "EMPTY"
      BY <3>1 DEF ChainInv, ChainUnbroken, Reaches, At
    <3>3. Leads(me[c.by].want, n)'
      BY <2>2, <3>1, <3>2 DEF Leads, At
    <3>4. 0 <= n
      BY Sizes
    <3> QED
      BY <2>2, <3>3, <3>4 DEF Ahead, Onward
  <2>4. Findable(c.by)'
    BY <2>1, <2>2, <2>3 DEF Findable
  <2> QED
    BY <1>2, <2>1, <2>4
<1>4. ASSUME NEW t \in Evictors, BeginEvict(t) PROVE MissInv'
  <2>1. /\ t \in Threads /\ Alone(t) /\ Quiet(t) /\ pc'[t] = "scan" /\ ~Erases(t)
        /\ \A u \in Threads \ {t} : me'[u] = me[u]
    BY <1>4, BeginQuiet, TypeBeginEvict, Names DEF BeginEvict, Goto, TypeInv, TypeOK, Erases, Write
  <2>2. Findable(t)'
    BY <2>1 DEF Findable, Searching, Reading
  <2> QED
    BY <1>2, <2>1, <2>2
<1>5. ASSUME NEW t \in Threads, Step(t) PROVE MissInv'
  <2>1. Alone(t) /\ Effect(t)
    BY <1>5, TypeStep, StepEffect
  <2>2. \A u \in Threads \ {t} : Findable(u)'
    BY <1>5, <2>1, ThereStep, FindableStable
  <2> QED
    BY <1>1, <1>5, <2>1, <2>2, FindableStep DEF MissInv
<1>6. CASE UNCHANGED vars
  BY <1>6 DEF MissInv, Findable, Ahead, Onward, Leads, Placing, Evicting, vars, table
<1> QED
  BY <1>3, <1>4, <1>5, <1>6 DEF Next

(* MissOnlyWhenAbsent: a search for a key that was in the table all the    *)
(* time fails only after its last retry, and only if that one passed a     *)
(* slot that stayed WRITING.                                               *)
THEOREM MissesOnlyTheAbsent == Spec => []MissOnlyWhenAbsent
<1>1. MissInv => MissOnlyWhenAbsent
  BY DEF MissInv, Findable, MissOnlyWhenAbsent
<1>2. Init => TypeInv /\ SlotInv /\ ChainInv /\ KeyInv /\ MissInv
  BY TypeInit, SlotInit, ChainInit, KeyInit, MissInit
<1>3. TypeInv /\ SlotInv /\ ChainInv /\ KeyInv /\ MissInv /\ [Next]_vars
      => (TypeInv /\ SlotInv /\ ChainInv /\ KeyInv /\ MissInv)'
  BY TypeNext, SlotNext, ChainNext, KeyNext, MissNext
<1> QED
  BY <1>1, <1>2, <1>3, PTL DEF Spec

-----------------------------------------------------------------------------
(* Duplicates.  If each key has one thread that inserts it, a thread that  *)
(* finds its key nowhere is the only one that could put it anywhere.       *)

Inserting == {"insert", "upsert"}

OneStorer ==
    \A c, d \in Calls : c.op \in Inserting /\ d.op \in Inserting /\ c.key = d.key => c.by = d.by

Present(k) == \E s \in Slots : key[s] = k

Single == \A r, s \in Slots : key[r] = key[s] /\ key[r] # NoKey => r = s

KeysReached == \A s \in Slots : key[s] \in Keys => Reaches(key[s], s)

Called(t) ==
    pc[t] # "idle" /\ ~Evicting(t) => \E c \in Calls : c.by = t /\ c.op = me[t].op /\ c.key = me[t].want

Placed(t) ==
    /\ Placing(t) /\ pc[t] \in Searching /\ Present(me[t].want) => Ahead(t)
    /\ pc[t] \in {"claimEmpty", "claimTomb"} => ~Present(me[t].want)
    /\ pc[t] = "write" /\ me[t].op \in Storing =>
          key[me[t].cell] = me[t].want \/ (Placing(t) /\ ~Present(me[t].want))

OnceInv == Single /\ KeysReached /\ \A t \in Threads : Called(t) /\ Placed(t)

LEMMA OnceInit == Init => OnceInv
<1> SUFFICES ASSUME Init PROVE OnceInv
  OBVIOUS
<1>1. Single /\ KeysReached
  BY Names DEF Init, Single, KeysReached
<1>2. \A t \in Threads : Called(t) /\ Placed(t)
  BY DEF Init, Called, Placed, Searching, Reading
<1> QED
  BY <1>1, <1>2 DEF OnceInv

(* The key of a slot changes in the write of its owner only.               *)
LEMMA KeyChange ==
  ASSUME TypeInv, SlotInv, NEW t \in Threads, Effect(t), NEW s \in Slots
  PROVE  \/ key'[s] = key[s]
         \/ /\ Write(t) /\ s = me[t].cell /\ pc[t] = "write"
            /\ key'[s] = IF me[t].op \in Storing THEN me[t].want ELSE NoKey
<1>1. CASE Write(t) /\ s = me[t].cell
  BY <1>1 DEF Write, Goto, TypeInv, TypeOK
<1>2. CASE pc[t] = "seal" \/ ~Write(t)
  BY <1>2 DEF Effect, Quiet, Takes, GivesBack, Transacts, Transact, Write, Seal, Release, Goto, table
<1>3. CASE s # me[t].cell
  BY <1>3, OthersKept
<1> QED
  BY <1>1, <1>2, <1>3

(* A key comes into the table with an insert or upsert of it.              *)
LEMMA NewKey ==
  ASSUME TypeInv, SlotInv, OnceInv, NEW t \in Threads, Effect(t), NEW k \in Keys, ~Present(k), Present(k)'
  PROVE  Placing(t) /\ me[t].want = k /\ pc[t] = "write"
<1>1. PICK s \in Slots : key'[s] = k
  BY DEF Present
<1>2. key[s] # k /\ k # NoKey
  BY Names DEF Present
<1>3. pc[t] = "write" /\ me[t].op \in Storing /\ me[t].want = k /\ s = me[t].cell
  BY <1>1, <1>2, KeyChange
<1> QED
  BY <1>2, <1>3 DEF OnceInv, Placed

LEMMA SingleStep ==
  ASSUME TypeInv, SlotInv, OnceInv, NEW t \in Threads, Effect(t)
  PROVE  Single'
<1> SUFFICES ASSUME NEW r \in Slots, NEW s \in Slots, key'[r] = key'[s], key'[r] # NoKey, r # s PROVE FALSE
  BY DEF Single
<1>1. ASSUME NEW x \in Slots, NEW y \in Slots, x # y, key'[x] = key'[y], key'[x] # NoKey, key'[x] # key[x]
      PROVE  FALSE
  <2>1. /\ pc[t] = "write" /\ me[t].op \in Storing /\ x = me[t].cell /\ key'[x] = me[t].want
        /\ key[y] = me[t].want
    BY <1>1, KeyChange
  <2>2. Present(me[t].want)
    BY <2>1 DEF Present
  <2> QED
    BY <1>1, <2>1, <2>2 DEF OnceInv, Placed
<1> QED
  BY <1>1 DEF OnceInv, Single

LEMMA KeysReachedStep ==
  ASSUME TypeInv, SlotInv, ChainInv, OnceInv, NEW t \in Threads, Effect(t)
  PROVE  KeysReached'
<1> SUFFICES ASSUME NEW s \in Slots, key'[s] \in Keys PROVE Reaches(key[s], s)'
  BY DEF KeysReached
<1>1. CASE key'[s] = key[s]
  BY <1>1, StillReached DEF OnceInv, KeysReached
<1>2. CASE key'[s] # key[s]
  <2>1. pc[t] = "write" /\ me[t].op \in Storing /\ s = me[t].cell /\ key'[s] = me[t].want
    BY <1>2, KeyChange, Names
  <2>2. Reaches(me[t].want, s)
    BY <2>1 DEF ChainInv, Reached
  <2> QED
    BY <2>1, <2>2, StillReached
<1> QED
  BY <1>1, <1>2

LEMMA PlacedStable ==
  ASSUME OneStorer, TypeInv, SlotInv, KeyInv, OnceInv, NEW t \in Threads, Effect(t), Alone(t),
         NEW u \in Threads \ {t}
  PROVE  Placed(u)'
<1>1. Placed(u) /\ Called(u) /\ Called(t)
  BY DEF OnceInv
<1>2. ASSUME Placing(u), pc[u] # "idle", Present(me[u].want)' PROVE Present(me[u].want) /\ me[u].want \in Keys
  <2>1. PICK k \in Keys : k = me[u].want /\ me'[u].want = k
    BY <1>2, ReachedKeys DEF Alone
  <2>2. ASSUME ~Present(k) PROVE FALSE
    <3>1. Placing(t) /\ me[t].want = k /\ pc[t] # "idle"
      BY <1>2, <2>1, <2>2, NewKey DEF Present
    <3> QED
      BY <1>1, <1>2, <2>1, <3>1 DEF Called, OneStorer, Placing, Inserting, Evicting
  <2> QED
    BY <2>1, <2>2
<1>3. ASSUME Placing(u), pc[u] \in Searching, Present(me[u].want)' PROVE Ahead(u)'
  <2>1. Present(me[u].want) /\ me[u].want \in Keys
    BY <1>2, <1>3 DEF Searching, Reading
  <2>2. PICK n \in 0..(MaxProbes - 1) : Leads(me[u].want, n) /\ Onward(u, n)
    BY <1>1, <1>3, <2>1 DEF Placed, Ahead
  <2>3. PICK k \in Keys : k = me[u].want /\ me'[u].want = k
    BY <2>1 DEF Alone
  <2>4. ASSUME Erases(t), key[me[t].cell] = k PROVE FALSE
    <3>1. PICK s \in Slots : key'[s] = k
      BY <1>3, <2>3 DEF Present
    <3>2. me[t].cell \in Slots /\ key'[me[t].cell] = NoKey /\ k # NoKey
      BY <2>4, Names DEF Erases, Write, Goto, TypeInv, TypeOK, Shape, Owners
    <3>3. key[s] = k
      BY <2>4, <3>1, <3>2, KeyChange DEF Erases
    <3> QED
      BY <2>4, <3>1, <3>2, <3>3 DEF OnceInv, Single
  <2>5. Leads(k, n)'
    BY <2>2, <2>3, <2>4, LeadsStable
  <2> QED
    BY <2>2, <2>3, <2>5, ZenonT(30) DEF Ahead, Leads, At, Onward, Alone
<1>4. ASSUME pc[u] = "write" PROVE key'[me[u].cell] = key[me[u].cell]
  <2>1. me[u].cell \in Slots /\ (pc[t] \in Owners => me[u].cell # me[t].cell)
    BY <1>4 DEF TypeInv, Shape, SlotInv, OneOwner, Owners
  <2> QED
    BY <2>1, OthersKept DEF Owners
<1>5. pc[u] \in {"claimEmpty", "claimTomb"} => Placing(u)
  BY DEF TypeInv, Shape
<1>6. pc'[u] = pc[u] /\ Placing(u)' = Placing(u) /\ me'[u].op = me[u].op /\ me'[u].want = me[u].want
      /\ me'[u].cell = me[u].cell
  BY DEF Alone, Placing
<1> QED
  BY <1>1, <1>2, <1>3, <1>4, <1>5, <1>6 DEF Placed, Searching, Reading

(* A search ends at the slot of its key.                                   *)
LEMMA FoundSlot ==
  ASSUME TypeInv, NEW t \in Threads, Effect(t), pc[t] \in Searching, pc'[t] = "write", ~Evicting(t)
  PROVE  me' = me /\ key' = key /\ key[me[t].cell] = me[t].want
<1>1. ~Transact(t)
  BY DEF Transact, Write, Seal, Release, Goto, Searching, Reading
<1> QED
  BY <1>1 DEF Effect, Quiet, Takes, GivesBack, Transacts, StillMine, Owners, Searching, Reading, table

LEMMA PlacedStep ==
  ASSUME TypeInv, TypeInv', SlotInv, KeyInv, OnceInv, NEW t \in Threads, Step(t), Effect(t)
  PROVE  Placed(t)' /\ Called(t)'
<1> USE DEF Goto
<1>1. /\ pc \in [Threads -> Pcs] /\ me \in [Threads -> Locals] /\ me[t] \in Locals
      /\ Shape(t) /\ Shape(t)' /\ Placed(t) /\ Called(t)
  BY DEF TypeInv, TypeOK, OnceInv
<1>2. CASE pc'[t] = "idle"
  BY <1>2 DEF Placed, Called, Searching, Reading
<1>3. ASSUME Same(t) PROVE Called(t)'
  <2>1. pc[t] # "idle"
    BY StepCases DEF Probe, PassWriter, PassTombstone, SeeValid, SeeEmpty, EndOfChain, CompareKey, Loads, Take,
       ClaimFound, Recheck, Place, ClaimEmpty, ClaimTombstone, Transact, Write, Seal, Release, Read, ReadSeq1,
       CopyValue, VerifySeq, Confirm, Scan, EndScan, Return
  <2> QED
    BY <1>1, <1>3, <2>1 DEF Called, Evicting, Same
<1>4. ASSUME Same(t), Evicting(t) PROVE Placed(t)'
  BY <1>1, <1>4 DEF Placed, Placing, Evicting, Shape, Same, Storing
<1>5. ASSUME Same(t), ~Evicting(t), pc[t] \in Searching PROVE Placed(t)'
  <2>1. ~Transact(t) /\ ~Place(t) /\ ~Erases(t) /\ me[t].want \in Keys
    BY <1>1, <1>5, ReachedKeys DEF Transact, Write, Seal, Release, Place, ClaimEmpty, ClaimTombstone, Erases,
       Searching, Reading
  <2>2. key' = key /\ Present(me[t].want)' = Present(me[t].want)
    <3>1. key' = key
      BY <2>1 DEF Effect, Quiet, Takes, GivesBack, Transacts, table
    <3> QED
      BY <1>5, <3>1 DEF Present, Same
  <2>3. ASSUME Placing(t), Present(me[t].want)
        PROVE  (pc'[t] \in Searching => Ahead(t)') /\ pc'[t] \notin {"claimEmpty", "claimTomb"}
    <3>1. PICK n \in 0..(MaxProbes - 1) : Leads(me[t].want, n) /\ Onward(t, n)
      BY <1>1, <1>5, <2>3 DEF Placed, Ahead
    <3>2. ASSUME Onward(t, n)' PROVE Ahead(t)'
      BY <1>5, <2>1, <3>1, <3>2, AheadNext
    <3> QED
      BY <1>5, <3>1, <3>2, SearchStep DEF Searching, Reading
  <2>4. pc'[t] = "write" => me' = me /\ key[me[t].cell] = me[t].want
    BY <1>5, FoundSlot
  <2>5. Placing(t)' = Placing(t) /\ (pc'[t] \in {"claimEmpty", "claimTomb"} => Placing(t))
    BY <1>1, <1>5 DEF Placing, Same, Shape
  <2> QED
    BY <2>2, <2>3, <2>4, <2>5 DEF Placed
<1>6. ASSUME Same(t), pc[t] \in {"claimEmpty", "claimTomb"} PROVE Placed(t)'
  <2>1. ~Transact(t) /\ Placing(t) /\ ~Present(me[t].want)
    BY <1>1, <1>6 DEF Transact, Write, Seal, Release, Placed, Shape
  <2>2. key' = key
    BY <2>1 DEF Effect, Quiet, Takes, GivesBack, Transacts, table
  <2>3. Placing(t)' /\ ~Present(me[t].want)'
    BY <1>6, <2>1, <2>2 DEF Placing, Present, Same
  <2> QED
    BY <2>3 DEF Placed
<1>7. ASSUME Same(t), pc[t] \notin Searching \cup {"claimEmpty", "claimTomb"} PROVE Placed(t)' \/ Evicting(t)
  <2>1. Transact(t) \/ Return(t) \/ Evicting(t)
    BY <1>7, StepCases DEF Probe, PassWriter, PassTombstone, SeeValid, SeeEmpty, EndOfChain, CompareKey, Loads, Take,
       ClaimFound, Recheck, Place, ClaimEmpty, ClaimTombstone, Read, ReadSeq1, CopyValue, VerifySeq, Confirm,
       Searching, Reading
  <2>2. ASSUME ~Evicting(t) PROVE pc'[t] \in {"seal", "release", "found", "idle"}
    BY <1>1, <2>1, <2>2 DEF Transact, Write, Seal, Release, Released, Return
  <2> QED
    BY <2>2 DEF Placed, Searching, Reading
<1> QED
  BY <1>2, <1>3, <1>4, <1>5, <1>6, <1>7, StepCall

LEMMA OnceNext ==
  ASSUME OneStorer
  PROVE  TypeInv /\ SlotInv /\ ChainInv /\ KeyInv /\ OnceInv /\ [Next]_vars => OnceInv'
<1> SUFFICES ASSUME TypeInv, SlotInv, ChainInv, KeyInv, OnceInv, [Next]_vars PROVE OnceInv'
  OBVIOUS
<1>1. TypeInv'
  BY TypeNext
<1>2. ASSUME NEW t \in Threads, Alone(t), Effect(t), Placed(t)' /\ Called(t)' PROVE OnceInv'
  <2>1. \A u \in Threads \ {t} : Called(u)'
    BY <1>2 DEF OnceInv, Called, Alone, Evicting
  <2> QED
    BY <1>2, <2>1, SingleStep, KeysReachedStep, PlacedStable DEF OnceInv
<1>3. ASSUME NEW c \in Calls, Begin(c) PROVE OnceInv'
  <2>1. /\ c.by \in Threads /\ Alone(c.by) /\ Quiet(c.by) /\ pc'[c.by] = "load" /\ c.key \in Keys
    BY <1>3, BeginQuiet, TypeBegin, Names DEF Begin, Goto, TypeInv, TypeOK
  <2>2. /\ me'[c.by].want = c.key /\ me'[c.by].op = c.op /\ me'[c.by].probe = 0
        /\ UNCHANGED <<key, state>>
    BY <1>3, <2>1 DEF Begin, TypeInv, TypeOK, Fresh, table
  <2>3. ASSUME Present(c.key) PROVE Ahead(c.by)'
    <3>1. PICK s \in Slots : key[s] = c.key
      BY <2>3 DEF Present
    <3>2. PICK n \in 0..(MaxProbes - 1) : s = At(c.key, n) /\ \A m \in 0..n : state[At(c.key, m)] # "EMPTY"
      BY <2>1, <3>1 DEF OnceInv, KeysReached, Reaches, At
    <3>3. state[s] \in {"VALID", "WRITING"}
      BY <2>1, <3>1, Names DEF KeyInv, Unkeyed, TypeInv, TypeOK, States
    <3>4. Leads(me[c.by].want, n)'
      BY <2>2, <3>1, <3>2, <3>3 DEF Leads, At
    <3>5. 0 <= n
      BY Sizes
    <3> QED
      BY <2>2, <3>4, <3>5 DEF Ahead, Onward
  <2>4. Placed(c.by)'
    BY <2>1, <2>2, <2>3 DEF Placed, Present
  <2>5. Called(c.by)'
    BY <2>1, <2>2 DEF Called
  <2> QED
    BY <1>2, <2>1, <2>4, <2>5 DEF Effect
<1>4. ASSUME NEW t \in Evictors, BeginEvict(t) PROVE OnceInv'
  <2>1. t \in Threads /\ Alone(t) /\ Quiet(t) /\ pc'[t] = "scan" /\ me'[t].op = "evict"
    BY <1>4, BeginQuiet, TypeBeginEvict DEF BeginEvict, Goto, TypeInv, TypeOK, Fresh
  <2>2. Placed(t)' /\ Called(t)'
    BY <2>1 DEF Placed, Called, Evicting, Searching, Reading
  <2> QED
    BY <1>2, <2>1, <2>2 DEF Effect
<1>5. ASSUME NEW t \in Threads, Step(t) PROVE OnceInv'
  BY <1>1, <1>2, <1>5, TypeStep, StepEffect, PlacedStep
<1>6. CASE UNCHANGED vars
  BY <1>6 DEF OnceInv, Single, KeysReached, Reaches, Called, Placed, Present, Ahead, Onward, Leads, Placing, Evicting,
     vars, table
<1> QED
  BY <1>3, <1>4, <1>5, <1>6 DEF Next

(* KeyOnce: where each key is inserted by one thread only, as the events   *)
(* of a table come from one consumer thread, no key is in the table twice, *)
(* whoever else erases, updates and evicts.  Without the hypothesis two    *)
(* threads can both find the key missing and both insert it.               *)
THEOREM KeyAtMostOnce == OneStorer => (Spec => []KeyOnce)
<1> SUFFICES ASSUME OneStorer PROVE Spec => []KeyOnce
  OBVIOUS
<1>1. TypeInv /\ SlotInv /\ OnceInv => KeyOnce
  <2> SUFFICES ASSUME TypeInv, SlotInv, OnceInv PROVE KeyOnce
    OBVIOUS
  <2>1. \A s \in Slots : state[s] = "VALID" => key[s] # NoKey
    BY WholeKey, Names DEF SlotInv, Settled
  <2> QED
    BY <2>1 DEF OnceInv, Single, KeyOnce
<1>2. Init => TypeInv /\ SlotInv /\ ChainInv /\ KeyInv /\ OnceInv
  BY TypeInit, SlotInit, ChainInit, KeyInit, OnceInit
<1>3. TypeInv /\ SlotInv /\ ChainInv /\ KeyInv /\ OnceInv /\ [Next]_vars
      => (TypeInv /\ SlotInv /\ ChainInv /\ KeyInv /\ OnceInv)'
  BY TypeNext, SlotNext, ChainNext, KeyNext, OnceNext
<1> QED
  BY <1>1, <1>2, <1>3, PTL DEF Spec

=============================================================================
