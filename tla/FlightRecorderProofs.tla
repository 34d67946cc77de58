------------------------- MODULE FlightRecorderProofs -------------------------
(***************************************************************************)
(* What FlightRecorder guarantees for every number of producers and every  *)
(* capacity.  The reader does not touch the ring, so the guarantees of     *)
(* TicketRingProofs carry over; on them rests that a snapshot holds only   *)
(* whole, published records of its window.                                 *)
(***************************************************************************)
EXTENDS FlightRecorder, TicketRingProofs

(* A step of the recorder is a step of the ring, or leaves it alone.       *)
LEMMA RecorderRefinesRing == [Next]_vars => [RingNext]_pushState
<1> SUFFICES ASSUME [Next]_vars PROVE [RingNext]_pushState
  OBVIOUS
<1>1. ASSUME NEW p \in Producers, PushEvent(p) PROVE RingNext
  <2>1. PICK ts \in Stamps : ClaimTicket(p, ts)
    BY <1>1 DEF PushEvent
  <2> QED
    BY <2>1 DEF RingNext
<1>2. ASSUME NEW p \in Producers, Push(p) PROVE RingNext
  BY <1>2 DEF RingNext
<1>3. BeginSnapshot \/ Snapshot => UNCHANGED pushState
  BY DEF BeginSnapshot, Snapshot, NextSlot, ReadSeq1, ReadStamp, VerifyStamp,
         ReadRecord, VerifyRecord, EndSnapshot
<1>4. UNCHANGED vars => UNCHANGED pushState
  BY DEF vars
<1> QED
  BY <1>1, <1>2, <1>3, <1>4 DEF Next

(* The ring's types, its exclusion invariant and the accounting.           *)
Ring == RingTypeOK /\ RingInv /\ TicketsFresh /\ PushAccounting

LEMMA RingAlways == Spec => []Ring
<1>1. Init => Ring
  BY RingTypeInit, RingInvInit, TicketsFreshInit, PushAccountingInit DEF Init, Ring
<1>2. Ring /\ [Next]_vars => Ring'
  BY RecorderRefinesRing, RingTypeNext, RingInvNext, TicketsFreshNext, PushAccountingNext DEF Ring
<1> QED
  BY <1>1, <1>2, PTL DEF Spec

(* A slot marked as published holds that ticket's record, whole (push).    *)
THEOREM PublishedAlwaysIntact == Spec => []PublishedIntact
<1>1. Ring => PublishedIntact
  BY DEF Ring, RingInv
<1> QED
  BY <1>1, RingAlways, PTL

(* No two producers copy into one slot (the compare-exchange in push).     *)
THEOREM WritersExclude == Spec => []OneWriterPerSlot
<1>1. Ring => OneWriterPerSlot
  BY Exclusion DEF Ring
<1> QED
  BY <1>1, RingAlways, PTL

(* No ticket is lost without being counted in dropped_events_.             *)
THEOREM PushesAccounted == Spec => []PushAccounting
<1>1. Ring => PushAccounting
  BY DEF Ring
<1> QED
  BY <1>1, RingAlways, PTL

(* A stale producer never takes a slot back to an older generation.        *)
THEOREM SlotsAlwaysAdvance == Spec => SlotsOnlyAdvance
<1>1. Ring /\ [Next]_vars => [\A s \in Slots : seq'[s] >= seq[s]]_pushState
  BY RecorderRefinesRing, AdvanceStep DEF Ring
<1> QED
  BY <1>1, RingAlways, PTL DEF Spec, SlotsOnlyAdvance

-----------------------------------------------------------------------------
(* The sort of a snapshot.  Precedes is a strict total order of the        *)
(* positions, so that no two have the same place and every place is taken. *)

LEMMA RecordStamps == ASSUME NEW r \in Records PROVE r.ts \in Nat /\ r.id \in Nat
<1>1. r.id \in 0 .. MaxTickets /\ r.ts \in Stamps \cup {0}
  BY DEF Records
<1>2. Stamps \subseteq Nat /\ MaxTickets \in Nat
  BY RingAssumption
<1>3. r.ts \in Nat
  <2>1. Stamps \cup {0} \subseteq Nat
    BY <1>2
  <2> QED
    BY <1>1, <2>1, Zenon
<1>4. r.id \in Nat
  BY <1>1, <1>2
<1> QED
  BY <1>3, <1>4

LEMMA Positions ==
  ASSUME NEW s \in Seq(Records)
  PROVE  /\ DOMAIN s = 1 .. Len(s) /\ Len(s) \in Nat
         /\ IsFiniteSet(DOMAIN s) /\ Cardinality(DOMAIN s) = Len(s)
         /\ \A i \in DOMAIN s : i \in Nat /\ s[i] \in Records /\ s[i].ts \in Nat
<1>1. DOMAIN s = 1 .. Len(s) /\ Len(s) \in Nat
  OBVIOUS
<1>2. IsFiniteSet(1 .. Len(s)) /\ Cardinality(1 .. Len(s)) = Len(s)
  BY <1>1, FS_Interval
<1>3. ASSUME NEW i \in DOMAIN s PROVE i \in Nat /\ s[i] \in Records /\ s[i].ts \in Nat
  <2>1. i \in Nat /\ s[i] \in Records
    BY <1>1, <1>3
  <2> QED
    BY <2>1, RecordStamps
<1> QED
  BY <1>1, <1>2, <1>3

LEMMA PlaceBound ==
  ASSUME NEW s \in Seq(Records), NEW j \in DOMAIN s
  PROVE  /\ IsFiniteSet({i \in DOMAIN s : Precedes(s, i, j)})
         /\ Place(s, j) \in DOMAIN s
<1> DEFINE Below == {i \in DOMAIN s : Precedes(s, i, j)}
<1>1. ~ Precedes(s, j, j)
  BY Positions DEF Precedes
<1>2. Below \in SUBSET DOMAIN s /\ Below # DOMAIN s
  BY <1>1
<1> HIDE DEF Below
<1>3. IsFiniteSet(Below) /\ Cardinality(Below) <= Cardinality(DOMAIN s)
      /\ Cardinality(Below) # Cardinality(DOMAIN s)
  BY <1>2, Positions, FS_Subset
<1>4. Cardinality(Below) \in Nat /\ Cardinality(Below) < Len(s)
  BY <1>3, Positions, FS_CardinalityType
<1>5. Place(s, j) = 1 + Cardinality(Below)
  BY DEF Place, Below
<1>6. Place(s, j) \in DOMAIN s
  BY <1>4, <1>5, Positions
<1> QED
  BY <1>3, <1>6 DEF Below

LEMMA PlaceGrows ==
  ASSUME NEW s \in Seq(Records), NEW i \in DOMAIN s, NEW j \in DOMAIN s, Precedes(s, i, j)
  PROVE  Place(s, i) < Place(s, j)
<1> DEFINE Below(k) == {m \in DOMAIN s : Precedes(s, m, k)}
<1>1. \A m \in DOMAIN s : m \in Nat /\ s[m].ts \in Nat
  BY Positions
<1>2. Below(i) \in SUBSET Below(j) /\ i \in Below(j) /\ i \notin Below(i)
  BY <1>1 DEF Precedes
<1>3. IsFiniteSet(Below(i)) /\ IsFiniteSet(Below(j))
  BY PlaceBound
<1> HIDE DEF Below
<1>4. /\ Cardinality(Below(i)) < Cardinality(Below(j))
      /\ Cardinality(Below(i)) \in Nat /\ Cardinality(Below(j)) \in Nat
  BY <1>2, <1>3, FS_Subset, FS_CardinalityType
<1>5. Place(s, i) = 1 + Cardinality(Below(i)) /\ Place(s, j) = 1 + Cardinality(Below(j))
  BY DEF Place, Below
<1> QED
  BY <1>4, <1>5

LEMMA PlacesDiffer ==
  ASSUME NEW s \in Seq(Records), NEW i \in DOMAIN s, NEW j \in DOMAIN s, i # j
  PROVE  Place(s, i) # Place(s, j)
<1>1. Precedes(s, i, j) \/ Precedes(s, j, i)
  BY Positions DEF Precedes
<1>2. Place(s, i) \in Nat /\ Place(s, j) \in Nat
  BY PlaceBound, Positions
<1> QED
  BY <1>1, <1>2, PlaceGrows

(* Every place is some position's, so the sort loses and repeats nothing.  *)
LEMMA PlacesTaken ==
  ASSUME NEW s \in Seq(Records), NEW k \in DOMAIN s
  PROVE  \E j \in DOMAIN s : Place(s, j) = k
<1> DEFINE f == [j \in DOMAIN s |-> Place(s, j)]
<1>1. IsFiniteSet(DOMAIN s)
  BY Positions
<1>2. f \in [DOMAIN s -> DOMAIN s]
  BY PlaceBound
<1>3. ASSUME NEW i \in DOMAIN s, NEW j \in DOMAIN s, i # j PROVE f[i] # f[j]
  BY <1>3, PlacesDiffer
<1>4. f \in Injection(DOMAIN s, DOMAIN s)
  BY <1>2, <1>3 DEF Injection, IsInjective
<1>5. f \in Surjection(DOMAIN s, DOMAIN s)
  BY <1>1, <1>4, FS_Injection
<1> QED
  BY <1>5 DEF Surjection

(* What the sort returns: the same records, in the order of Precedes.      *)
LEMMA SortPlaces ==
  ASSUME NEW s \in Seq(Records)
  PROVE  /\ StableSort(s) \in Seq(Records) /\ DOMAIN StableSort(s) = DOMAIN s
         /\ \A k \in DOMAIN s : \E j \in DOMAIN s : Place(s, j) = k /\ StableSort(s)[k] = s[j]
         /\ \A j \in DOMAIN s : \E k \in DOMAIN s : Place(s, j) = k /\ StableSort(s)[k] = s[j]
<1> DEFINE from == [k \in DOMAIN s |-> CHOOSE j \in DOMAIN s : Place(s, j) = k]
<1>1. ASSUME NEW k \in DOMAIN s PROVE from[k] \in DOMAIN s /\ Place(s, from[k]) = k
  BY PlacesTaken
<1>2. StableSort(s) = [k \in DOMAIN s |-> s[from[k]]]
  BY DEF StableSort
<1> HIDE DEF from
<1>3. \A k \in DOMAIN s : StableSort(s)[k] = s[from[k]] /\ StableSort(s)[k] \in Records
  BY <1>1, <1>2, Positions
<1>4. StableSort(s) \in Seq(Records) /\ DOMAIN StableSort(s) = DOMAIN s
  <2>1. StableSort(s) \in [1 .. Len(s) -> Records]
    BY <1>2, <1>3, Positions
  <2> QED
    BY <2>1, Positions
<1>5. ASSUME NEW j \in DOMAIN s PROVE from[Place(s, j)] = j
  <2>1. Place(s, j) \in DOMAIN s
    BY PlaceBound
  <2>2. from[Place(s, j)] \in DOMAIN s /\ Place(s, from[Place(s, j)]) = Place(s, j)
    BY <1>1, <2>1
  <2> QED
    BY <2>2, PlacesDiffer
<1>6. ASSUME NEW j \in DOMAIN s
      PROVE  \E k \in DOMAIN s : Place(s, j) = k /\ StableSort(s)[k] = s[j]
  BY <1>3, <1>5, PlaceBound, ZenonT(30)
<1> QED
  BY <1>1, <1>3, <1>4, <1>6

LEMMA SortOrders ==
  ASSUME NEW s \in Seq(Records), \A i, j \in DOMAIN s : i < j => s[i].id < s[j].id,
         NEW k \in DOMAIN s, NEW l \in DOMAIN s, k < l
  PROVE  \/ StableSort(s)[k].ts < StableSort(s)[l].ts
         \/ /\ StableSort(s)[k].ts = StableSort(s)[l].ts
            /\ StableSort(s)[k].id < StableSort(s)[l].id
<1>1. PICK i \in DOMAIN s : Place(s, i) = k /\ StableSort(s)[k] = s[i]
  BY SortPlaces
<1>2. PICK j \in DOMAIN s : Place(s, j) = l /\ StableSort(s)[l] = s[j]
  BY SortPlaces
<1>3. i # j /\ ~ Precedes(s, j, i)
  BY <1>1, <1>2, PlaceGrows, Positions
<1>4. Precedes(s, i, j)
  BY <1>3, Positions DEF Precedes
<1> QED
  BY <1>1, <1>2, <1>4 DEF Precedes

-----------------------------------------------------------------------------
(* Type correctness.                                                       *)

LEMMA ReverseType ==
  ASSUME NEW s \in Seq(Records)
  PROVE  /\ Reverse(s) \in Seq(Records) /\ DOMAIN Reverse(s) = DOMAIN s
         /\ \A i \in DOMAIN s : Len(s) - i + 1 \in DOMAIN s /\ Reverse(s)[i] = s[Len(s) - i + 1]
<1>1. Len(s) \in Nat /\ DOMAIN s = 1 .. Len(s) /\ \A i \in 1 .. Len(s) : s[i] \in Records
  OBVIOUS
<1>2. \A i \in 1 .. Len(s) : Len(s) - i + 1 \in 1 .. Len(s)
  BY <1>1
<1>3. Reverse(s) = [i \in 1 .. Len(s) |-> s[Len(s) - i + 1]]
  BY DEF Reverse
<1>4. Reverse(s) \in [1 .. Len(s) -> Records]
  BY <1>1, <1>2, <1>3
<1> QED
  BY <1>1, <1>2, <1>3, <1>4

LEMMA ZeroedType == NoRecord \in Records
<1>1. 0 \in 0 .. MaxTickets
  BY RingAssumption
<1> QED
  BY <1>1 DEF NoRecord, Records

LEMMA TypeInit == Init => TypeOK
<1> SUFFICES ASSUME Init PROVE TypeOK
  OBVIOUS
<1>1. RingTypeOK /\ NoRecord \in Records
  BY RingTypeInit, ZeroedType DEF Init
<1>2. 0 \in 0 .. SlotRetries /\ 0 \in 0 .. AllRetries /\ <<>> \in Seq(Records)
  BY RecorderAssumption
<1> QED
  BY <1>1, <1>2 DEF Init, TypeOK

LEMMA TypeNext == TypeOK /\ [Next]_vars => TypeOK'
<1> SUFFICES ASSUME TypeOK, [Next]_vars PROVE TypeOK'
  OBVIOUS
<1>1. RingTypeOK'
  BY RecorderRefinesRing, RingTypeNext DEF TypeOK
<1>2. Slot \in Slots /\ NoRecord \in Records /\ rec[Slot] \in Records /\ seq[Slot] \in Nat
  BY SlotOfType, ZeroedType DEF TypeOK, RingTypeOK, Slot
<1> USE DEF cursor, budgets, request, result, reader, RGoto
<1>3. ASSUME NEW p \in Producers, PushEvent(p) PROVE TypeOK'
  <2>1. newest' \in Nat
    BY <1>3, RingAssumption DEF PushEvent, TypeOK
  <2> QED
    BY <1>1, <1>3, <2>1 DEF PushEvent, TypeOK
<1>4. ASSUME NEW p \in Producers, Push(p), UNCHANGED <<newest, reader>> PROVE TypeOK'
  BY <1>1, <1>4 DEF TypeOK
<1>5. CASE BeginSnapshot
  <2>1. head \in Nat /\ start' \in Nat /\ published \subseteq Records
    BY <1>5, RingAssumption DEF BeginSnapshot, TypeOK, RingTypeOK
  <2>2. 0 \in 0 .. AllRetries /\ out' \in Seq(Records)
    BY <1>5, RecorderAssumption DEF BeginSnapshot
  <2> QED
    BY <1>1, <1>5, <2>1, <2>2 DEF BeginSnapshot, TypeOK
<1>6. CASE NextSlot
  BY <1>1, <1>6 DEF NextSlot, TypeOK
<1>7. ASSUME LeaveSlot PROVE s1' \in Nat /\ hand' \in Records /\ retries' \in 0 .. SlotRetries /\ rpc' = "next"
  BY <1>2, <1>7, RecorderAssumption DEF LeaveSlot
<1>8. ASSUME CanRetry, Retry
      PROVE  /\ s1' \in Nat /\ hand' \in Records /\ rpc' = "seq1"
             /\ retries' \in 0 .. SlotRetries /\ spent' \in 0 .. AllRetries
  BY <1>2, <1>8, RecorderAssumption DEF CanRetry, Retry, TypeOK
<1>9. CASE ReadSeq1
  <2>1. /\ s1' \in Nat /\ hand' \in Records /\ lost' \in Nat /\ rpc' \in {"next", "seq1", "stamp"}
        /\ retries' \in 0 .. SlotRetries /\ spent' \in 0 .. AllRetries
    BY <1>2, <1>7, <1>8, <1>9 DEF ReadSeq1, TypeOK
  <2> QED
    BY <1>1, <1>9, <2>1 DEF ReadSeq1, TypeOK
<1>10. CASE ReadStamp
  BY <1>1, <1>2, <1>10 DEF ReadStamp, TypeOK
<1>11. CASE VerifyStamp
  <2>1. CASE seq[Slot] # s1
    <3>1. /\ s1' \in Nat /\ hand' \in Records /\ rpc' \in {"next", "seq1"}
          /\ retries' \in 0 .. SlotRetries /\ spent' \in 0 .. AllRetries
          /\ UNCHANGED <<outside, pos, cushioned>>
      BY <1>7, <1>8, <1>11, <2>1 DEF VerifyStamp, TypeOK
    <3> QED
      BY <1>1, <1>11, <3>1 DEF VerifyStamp, TypeOK
  <2>2. CASE seq[Slot] = s1
    <3>1. Triage(hand.ts) /\ UNCHANGED spent
      BY <1>11, <2>2 DEF VerifyStamp
    <3>2. /\ s1' \in Nat /\ hand' \in Records /\ rpc' \in {"next", "copy"}
          /\ retries' \in 0 .. SlotRetries
          /\ outside' \in Nat /\ pos' \in Nat /\ cushioned' \in BOOLEAN
      <4>1. CASE UNCHANGED <<outside, pos, cushioned, s1, hand, retries>> /\ rpc' = "copy"
        BY <4>1 DEF TypeOK
      <4>2. CASE LeaveSlot /\ UNCHANGED <<outside, pos, cushioned>>
        BY <1>7, <4>2 DEF TypeOK
      <4>3. CASE /\ LeaveSlot /\ outside' = outside + 1
                 /\ pos' \in {start, pos} /\ cushioned' \in BOOLEAN
        BY <1>7, <4>3 DEF TypeOK
      <4>4. \/ LeaveSlot /\ UNCHANGED <<outside, pos, cushioned>>
            \/ rpc' = "copy" /\ UNCHANGED <<outside, pos, cushioned, s1, hand, retries>>
            \/ /\ LeaveSlot /\ outside' = outside + 1
               /\ pos' \in {start, pos} /\ cushioned' \in BOOLEAN
        BY <3>1, Zenon DEF Triage
      <4> QED
        BY <4>1, <4>2, <4>3, <4>4
    <3> QED
      BY <1>1, <1>11, <3>1, <3>2 DEF VerifyStamp, TypeOK
  <2> QED
    BY <2>1, <2>2
<1>12. CASE ReadRecord
  BY <1>1, <1>2, <1>12 DEF ReadRecord, TypeOK
<1>13. CASE VerifyRecord
  <2>1. /\ s1' \in Nat /\ hand' \in Records /\ rpc' \in {"next", "seq1"}
        /\ retries' \in 0 .. SlotRetries /\ spent' \in 0 .. AllRetries
        /\ outside' \in Nat /\ lost' \in Nat
    BY <1>7, <1>8, <1>13 DEF VerifyRecord, TypeOK
  <2>2. out' \in Seq(Records)
    <3>1. out \in Seq(Records) /\ hand \in Records
      BY DEF TypeOK
    <3>2. out' = out \/ out' = Append(out, hand)
      BY <1>13, Zenon DEF VerifyRecord
    <3> QED
      BY <3>1, <3>2
  <2> QED
    BY <1>1, <1>13, <2>1, <2>2 DEF VerifyRecord, TypeOK
<1>14. CASE EndSnapshot
  <2>1. out' \in Seq(Records)
    BY <1>14, ReverseType, SortPlaces DEF EndSnapshot, TypeOK
  <2> QED
    BY <1>1, <1>14, <2>1, RecorderAssumption DEF EndSnapshot, TypeOK
<1>15. CASE UNCHANGED vars
  BY <1>1, <1>15 DEF vars, TypeOK
<1> QED
  BY <1>3, <1>4, <1>5, <1>6, <1>9, <1>10, <1>11, <1>12, <1>13, <1>14, <1>15 DEF Next, Snapshot

(* The reader and the ring keep their types.                               *)
THEOREM RecorderTypes == Spec => []TypeOK
<1> QED
  BY TypeInit, TypeNext, PTL DEF Spec

-----------------------------------------------------------------------------
(* How the reader's place relates to the ring.  SnapshotIntact is not      *)
(* inductive: that a record which passed both looks at the sequence is the *)
(* published one needs what the reader knows between the two looks.        *)

Looking == rpc \in {"stamp", "seq2", "copy", "seq3"}

(* The slot had been published when the reader first looked.  As long as   *)
(* its sequence is still the same, the copy in hand is the slot's record,  *)
(* and if the timestamp has been judged, it lies in the window.            *)
ReadInv ==
    /\ Looking => s1 = Ready(pos) /\ seq[Slot] >= s1
    /\ rpc \in {"seq2", "seq3"} /\ seq[Slot] = s1 => hand = rec[Slot]
    /\ rpc \in {"copy", "seq3"} /\ seq[Slot] = s1 => InWindow(rec[Slot])

IntactInv == Ring /\ PublishedOnce /\ TypeOK /\ ReadInv /\ SnapshotIntact

(* The record in the slot the reader looks at.                             *)
LEMMA SlotRecord ==
  ASSUME TypeOK, Ring, seq[Slot] = Ready(pos)
  PROVE  rec[Slot] \in published /\ rec[Slot].id = pos + 1
<1>1. pos \in Nat /\ Slot \in Slots
  BY SlotOfType DEF TypeOK, Slot
<1>2. rec[Slot] \in published /\ Ready(rec[Slot].id - 1) = Ready(pos)
  BY <1>1, Parity DEF Ring, RingInv, PublishedIntact
<1>3. rec[Slot].id \in Nat
  BY <1>2, RecordStamps DEF TypeOK, RingTypeOK
<1> QED
  BY <1>1, <1>2, <1>3 DEF Ready

(* A step of the producers leaves the reader's knowledge true.             *)
LEMMA ReadUndisturbed ==
  ASSUME TypeOK, Ring, ReadInv, [Next]_vars, UNCHANGED reader
  PROVE  ReadInv'
<1> USE DEF cursor, request, result, reader
<1>1. Slot \in Slots /\ Slot' = Slot /\ seq[Slot] \in Nat /\ seq'[Slot] \in Nat /\ pos \in Nat
  BY SlotOfType, TypeNext DEF TypeOK, RingTypeOK, Slot
<1>2. seq'[Slot] >= seq[Slot]
  BY <1>1, RecorderRefinesRing, AdvanceStep DEF Ring
<1>3. Ready(pos) \in Nat /\ Ready(pos) % 2 = 0
  BY <1>1, Parity
<1>4. ASSUME Looking, seq'[Slot] = s1 PROVE seq[Slot] = s1 /\ rec'[Slot] = rec[Slot]
  <2>1. seq[Slot] = s1 /\ s1 = Ready(pos)
    BY <1>1, <1>2, <1>3, <1>4 DEF ReadInv
  <2> QED
    BY <1>1, <1>3, <1>4, <2>1, RecorderRefinesRing, SteadyStep DEF Ring
<1>5. (Looking => s1 = Ready(pos) /\ seq[Slot] >= s1)'
  BY <1>1, <1>2, <1>3 DEF ReadInv, Looking
<1>6. (rpc \in {"seq2", "seq3"} /\ seq[Slot] = s1 => hand = rec[Slot])'
  BY <1>1, <1>4 DEF ReadInv, Looking
<1>7. (rpc \in {"copy", "seq3"} /\ seq[Slot] = s1 => InWindow(rec[Slot]))'
  BY <1>1, <1>4 DEF ReadInv, Looking, InWindow
<1> QED
  BY <1>5, <1>6, <1>7 DEF ReadInv

(* The steps of the reader.                                                *)
LEMMA ReadStep ==
  ASSUME TypeOK, Ring, ReadInv, BeginSnapshot \/ Snapshot
  PROVE  ReadInv'
<1> USE DEF RGoto, Looking, pushState, slots, request, budgets
<1>1. CASE rpc' \in {"idle", "next", "seq1"}
  BY <1>1 DEF ReadInv
<1>2. CASE ReadSeq1 /\ rpc' = "stamp"
  <2>1. seq[Slot] = Ready(pos) /\ s1' = seq[Slot] /\ Slot' = Slot /\ pos' = pos /\ seq' = seq
    BY <1>2 DEF ReadSeq1, LeaveSlot, Retry, Slot
  <2>2. seq[Slot] \in Nat
    BY SlotOfType DEF TypeOK, RingTypeOK, Slot
  <2> QED
    BY <1>2, <2>1, <2>2 DEF ReadInv
<1>3. CASE ReadStamp
  <2>1. /\ rpc = "stamp" /\ rpc' = "seq2" /\ hand' = rec[Slot] /\ Slot' = Slot
        /\ UNCHANGED <<s1, pos, seq, rec>>
    BY <1>3 DEF ReadStamp, Slot
  <2> QED
    BY <2>1 DEF ReadInv
<1>4. CASE VerifyStamp /\ rpc' = "copy"
  <2>1. seq[Slot] = s1 /\ Triage(hand.ts) /\ rpc = "seq2" /\ UNCHANGED <<seq, rec, window>>
    BY <1>4 DEF VerifyStamp, LeaveSlot, Retry
  <2>2. InWindow(hand) /\ UNCHANGED <<pos, s1>>
    BY <1>4, <2>1 DEF Triage, LeaveSlot, InWindow
  <2>3. Slot' = Slot /\ hand = rec[Slot] /\ s1 = Ready(pos) /\ seq[Slot] >= s1
    BY <2>1, <2>2 DEF Slot, ReadInv
  <2> QED
    BY <1>4, <2>1, <2>2, <2>3 DEF ReadInv, InWindow
<1>5. CASE ReadRecord
  <2>1. /\ rpc = "copy" /\ rpc' = "seq3" /\ hand' = rec[Slot] /\ Slot' = Slot
        /\ UNCHANGED <<s1, pos, seq, rec, window>>
    BY <1>5 DEF ReadRecord, Slot
  <2> QED
    BY <2>1 DEF ReadInv, InWindow
<1> QED
  BY <1>1, <1>2, <1>3, <1>4, <1>5
     DEF BeginSnapshot, Snapshot, NextSlot, ReadSeq1, VerifyStamp, Triage, VerifyRecord,
         EndSnapshot, LeaveSlot, Retry

(* The sort only permutes what it is given.                                *)
LEMMA SortedOut ==
  ASSUME NEW s \in Seq(Records), NEW k \in DOMAIN StableSort(Reverse(s))
  PROVE  \E i \in DOMAIN s : StableSort(Reverse(s))[k] = s[i]
  BY ReverseType, SortPlaces

LEMMA OutKept ==
  ASSUME NEW s \in Seq(Records)
  PROVE  ToSet(s) \subseteq ToSet(StableSort(Reverse(s)))
<1> SUFFICES ASSUME NEW i \in DOMAIN s PROVE s[i] \in ToSet(StableSort(Reverse(s)))
  BY DEF ToSet
<1> DEFINE back == Reverse(s)
<1>1. back \in Seq(Records) /\ DOMAIN back = DOMAIN s /\ DOMAIN s = 1 .. Len(s) /\ Len(s) \in Nat
  BY ReverseType, Positions
<1>2. Len(s) - i + 1 \in DOMAIN s /\ back[Len(s) - i + 1] = s[Len(s) - (Len(s) - i + 1) + 1]
  BY <1>1, ReverseType
<1>3. Len(s) - (Len(s) - i + 1) + 1 = i
  BY <1>1
<1> HIDE DEF back
<1>4. \E k \in DOMAIN back : StableSort(back)[k] = back[Len(s) - i + 1]
  BY <1>1, <1>2, SortPlaces
<1>5. DOMAIN StableSort(back) = DOMAIN back
  BY <1>1, SortPlaces
<1> QED
  BY <1>2, <1>3, <1>4, <1>5 DEF ToSet, back

LEMMA IntactStep ==
  ASSUME TypeOK, Ring, ReadInv, SnapshotIntact, [Next]_vars
  PROVE  SnapshotIntact'
<1> USE DEF cursor, request, result, reader, budgets
<1>1. published \subseteq published'
  BY RecorderRefinesRing, HistoryStep
<1>2. CASE UNCHANGED <<out, window>>
  BY <1>1, <1>2 DEF SnapshotIntact, InWindow
<1>3. CASE BeginSnapshot
  BY <1>3 DEF BeginSnapshot, SnapshotIntact
<1>4. CASE VerifyRecord /\ out' = Append(out, hand) /\ seq[Slot] = s1
  <2>1. hand \in published /\ InWindow(hand)
    BY <1>4, SlotRecord DEF VerifyRecord, ReadInv, Looking
  <2>2. out \in Seq(Records) /\ hand \in Records /\ window' = window
    BY <1>4 DEF TypeOK, VerifyRecord
  <2> QED
    BY <1>1, <1>4, <2>1, <2>2 DEF SnapshotIntact, InWindow
<1>5. CASE EndSnapshot
  <2>1. out' = StableSort(Reverse(out)) /\ out \in Seq(Records) /\ window' = window
    BY <1>5 DEF EndSnapshot, TypeOK
  <2> QED
    BY <1>1, <2>1, SortedOut DEF SnapshotIntact, InWindow
<1> QED
  BY <1>2, <1>3, <1>4, <1>5
     DEF Next, PushEvent, Snapshot, NextSlot, ReadSeq1, ReadStamp, VerifyStamp, ReadRecord,
         VerifyRecord, vars

LEMMA IntactInvInit == Init => IntactInv
<1> SUFFICES ASSUME Init PROVE IntactInv
  OBVIOUS
<1>1. Ring /\ PublishedOnce
  BY RingTypeInit, RingInvInit, TicketsFreshInit, PushAccountingInit, PublishedOnceInit
     DEF Init, Ring
<1>2. ReadInv /\ SnapshotIntact
  BY DEF Init, ReadInv, Looking, SnapshotIntact
<1> QED
  BY <1>1, <1>2, TypeInit DEF IntactInv

LEMMA IntactInvNext == IntactInv /\ [Next]_vars => IntactInv'
<1> SUFFICES ASSUME IntactInv, [Next]_vars PROVE IntactInv'
  OBVIOUS
<1>1. Ring' /\ PublishedOnce'
  BY RecorderRefinesRing, RingTypeNext, RingInvNext, TicketsFreshNext, PushAccountingNext,
     PublishedOnceNext DEF Ring, IntactInv
<1>2. ReadInv'
  <2>1. CASE UNCHANGED reader
    BY <2>1, ReadUndisturbed DEF IntactInv
  <2>2. CASE BeginSnapshot \/ Snapshot
    BY <2>2, ReadStep DEF IntactInv
  <2> QED
    BY <2>1, <2>2 DEF Next, PushEvent, vars
<1> QED
  BY <1>1, <1>2, TypeNext, IntactStep DEF IntactInv

(* Whatever the producers do meanwhile, a snapshot holds published records *)
(* alone, whole, and of its window (the two looks at the sequence and the  *)
(* triage in snapshot).                                                    *)
THEOREM SnapshotAlwaysIntact == Spec => []SnapshotIntact
<1>1. IntactInv => SnapshotIntact
  BY DEF IntactInv
<1> QED
  BY <1>1, IntactInvInit, IntactInvNext, PTL DEF Spec

-----------------------------------------------------------------------------
(* The order of a snapshot.  The scan goes back through the tickets, so    *)
(* what it has taken lies past the slot it looks at, newest first.         *)

Edge == IF rpc = "next" THEN pos ELSE pos + 1

ScanInv ==
    rpc # "idle" =>
      /\ start <= pos
      /\ \A i \in DOMAIN out : out[i].id > Edge
      /\ \A i, j \in DOMAIN out : i < j => out[i].id > out[j].id

OrderInv == IntactInv /\ ScanInv /\ SnapshotOrdered

LEMMA ScanStep ==
  ASSUME IntactInv, ScanInv, [Next]_vars
  PROVE  ScanInv'
<1> USE DEF cursor, request, result, reader, budgets, RGoto
<1>1. /\ pos \in Nat /\ start \in Nat /\ head \in Nat /\ out \in Seq(Records)
      /\ pos' \in Nat /\ start' \in Nat
      /\ \A i \in DOMAIN out : out[i].id \in Nat
  <2>1. pos \in Nat /\ start \in Nat /\ head \in Nat /\ out \in Seq(Records)
    BY DEF IntactInv, TypeOK, RingTypeOK
  <2>2. pos' \in Nat /\ start' \in Nat
    BY TypeNext DEF IntactInv, TypeOK
  <2>3. \A i \in DOMAIN out : out[i] \in Records
    BY <2>1
  <2> QED
    BY <2>1, <2>2, <2>3, RecordStamps
<1>2. CASE BeginSnapshot
  BY <1>1, <1>2, RingAssumption DEF BeginSnapshot, ScanInv
<1>3. CASE UNCHANGED <<out, start>> /\ rpc # "idle" /\ Edge' <= Edge /\ start <= pos'
  BY <1>1, <1>3 DEF ScanInv, Edge
<1>4. CASE NextSlot
  BY <1>1, <1>3, <1>4 DEF NextSlot, Edge
<1>5. CASE ReadSeq1 \/ ReadStamp \/ ReadRecord
  BY <1>1, <1>3, <1>5 DEF ReadSeq1, ReadStamp, ReadRecord, LeaveSlot, Retry, Edge, ScanInv
<1>6. CASE VerifyStamp
  <2>1. /\ UNCHANGED <<out, start>> /\ rpc = "seq2" /\ start <= pos
        /\ pos' \in {start, pos} /\ rpc' \in {"next", "seq1", "copy"}
    <3>1. pos' \in {start, pos} /\ rpc' \in {"next", "seq1", "copy"}
      BY <1>6, Zenon DEF VerifyStamp, Triage, LeaveSlot, Retry
    <3> QED
      BY <1>6, <3>1 DEF VerifyStamp, ScanInv
  <2>2. pos' = start => rpc' = "next" \/ pos = start
    BY <1>6, <2>1 DEF VerifyStamp, Triage, LeaveSlot, Retry
  <2>3. Edge = pos + 1 /\ Edge' \in {pos', pos' + 1} /\ (rpc' = "next" => Edge' = pos')
    BY <2>1 DEF Edge
  <2>4. Edge' <= Edge /\ start <= pos'
    <3>1. CASE pos' = pos
      BY <1>1, <2>1, <2>3, <3>1
    <3>2. CASE pos' = start /\ rpc' = "next"
      BY <1>1, <2>1, <2>3, <3>2
    <3> QED
      BY <2>1, <2>2, <3>1, <3>2
  <2> QED
    BY <1>3, <2>1, <2>4
<1>7. CASE VerifyRecord
  <2>1. rpc = "seq3" /\ UNCHANGED <<pos, start>> /\ rpc' \in {"next", "seq1"} /\ start <= pos
    BY <1>7 DEF VerifyRecord, LeaveSlot, Retry, ScanInv
  <2>2. CASE out' = out
    BY <1>1, <1>3, <2>1, <2>2 DEF Edge
  <2>3. CASE seq[Slot] = s1 /\ LeaveSlot /\ out' = Append(out, hand)
    <3>1. hand.id = pos + 1 /\ rpc' = "next"
      BY <2>1, <2>3, SlotRecord DEF IntactInv, ReadInv, Looking, LeaveSlot
    <3>2. \A k \in DOMAIN out : out[k].id > pos + 1
      BY <2>1 DEF ScanInv, Edge
    <3>3. hand \in Records /\ Len(out) \in Nat /\ DOMAIN out = 1 .. Len(out)
      BY <1>1 DEF IntactInv, TypeOK
    <3>4. /\ out' \in Seq(Records) /\ DOMAIN out' = DOMAIN out \cup {Len(out) + 1}
          /\ \A i \in DOMAIN out : out'[i] = out[i] /\ i < Len(out) + 1
          /\ out'[Len(out) + 1] = hand
      BY <1>1, <2>3, <3>3
    <3>5. \A i, j \in DOMAIN out : i < j => out[i].id > out[j].id
      BY <2>1 DEF ScanInv
    <3>6. \A i \in DOMAIN out' : out'[i].id > pos
      BY <1>1, <3>1, <3>2, <3>4
    <3>7. \A i, j \in DOMAIN out' : i < j => out'[i].id > out'[j].id
      BY <1>1, <3>1, <3>2, <3>3, <3>4, <3>5
    <3> QED
      BY <2>1, <3>1, <3>6, <3>7 DEF ScanInv, Edge
  <2> QED
    BY <1>7, <2>2, <2>3 DEF VerifyRecord
<1>8. CASE EndSnapshot
  BY <1>8 DEF EndSnapshot, ScanInv
<1>9. CASE UNCHANGED reader
  BY <1>9 DEF ScanInv, Edge
<1> QED
  BY <1>2, <1>4, <1>5, <1>6, <1>7, <1>8, <1>9 DEF Next, PushEvent, Snapshot, vars

LEMMA OrderedStep ==
  ASSUME IntactInv, ScanInv, SnapshotOrdered, [Next]_vars
  PROVE  SnapshotOrdered'
<1> USE DEF cursor, request, result, reader, budgets, RGoto
<1>1. CASE rpc' # "idle"
  BY <1>1 DEF SnapshotOrdered
<1>2. CASE BeginSnapshot
  BY <1>2 DEF BeginSnapshot, SnapshotOrdered
<1>3. CASE EndSnapshot
  <2>1. /\ out \in Seq(Records) /\ out' = StableSort(Reverse(out))
        /\ \A i, j \in DOMAIN out : i < j => out[i].id > out[j].id
    BY <1>3 DEF EndSnapshot, IntactInv, TypeOK, ScanInv
  <2> DEFINE back == Reverse(out)
  <2>2. back \in Seq(Records)
    BY <2>1, ReverseType
  <2>3. ASSUME NEW i \in DOMAIN back, NEW j \in DOMAIN back, i < j PROVE back[i].id < back[j].id
    <3>0. i \in DOMAIN out /\ j \in DOMAIN out /\ Len(out) \in Nat /\ DOMAIN out = 1 .. Len(out)
      BY <2>1, ReverseType, Positions
    <3>1. /\ i \in 1 .. Len(out) /\ j \in 1 .. Len(out) /\ Len(out) \in Nat
          /\ back[i] = out[Len(out) - i + 1] /\ back[j] = out[Len(out) - j + 1]
          /\ Len(out) - i + 1 \in DOMAIN out /\ Len(out) - j + 1 \in DOMAIN out
      BY <2>1, <3>0, ReverseType
    <3>2. out[Len(out) - j + 1].id > out[Len(out) - i + 1].id
      <4>1. Len(out) - j + 1 < Len(out) - i + 1
        BY <2>3, <3>1
      <4> QED
        BY <2>1, <3>1, <4>1
    <3>3. out[Len(out) - j + 1].id \in Nat /\ out[Len(out) - i + 1].id \in Nat
      BY <2>1, <3>1, RecordStamps
    <3> QED
      BY <3>1, <3>2, <3>3
  <2> HIDE DEF back
  <2>4. DOMAIN StableSort(back) = DOMAIN back
    BY <2>2, SortPlaces
  <2>5. \A i, j \in DOMAIN StableSort(back) : i < j =>
          \/ StableSort(back)[i].ts < StableSort(back)[j].ts
          \/ /\ StableSort(back)[i].ts = StableSort(back)[j].ts
             /\ StableSort(back)[i].id < StableSort(back)[j].id
    BY <2>2, <2>3, <2>4, SortOrders
  <2>6. out' = StableSort(back)
    BY <2>1 DEF back
  <2> QED
    BY <2>5, <2>6 DEF SnapshotOrdered
<1>4. CASE UNCHANGED reader
  BY <1>4 DEF SnapshotOrdered
<1> QED
  BY <1>1, <1>2, <1>3, <1>4
     DEF Next, PushEvent, Snapshot, NextSlot, ReadSeq1, ReadStamp, VerifyStamp, Triage, ReadRecord,
         VerifyRecord, LeaveSlot, Retry, vars

(* A finished snapshot is in the order of the timestamps, with the records *)
(* of one timestamp in the order of their tickets and none twice (the      *)
(* backward scan, std::reverse and std::stable_sort in snapshot).          *)
THEOREM SnapshotAlwaysOrdered == Spec => []SnapshotOrdered
<1>1. Init => OrderInv
  BY IntactInvInit DEF Init, OrderInv, ScanInv, SnapshotOrdered
<1>2. OrderInv /\ [Next]_vars => OrderInv'
  BY IntactInvNext, ScanStep, OrderedStep DEF OrderInv
<1>3. OrderInv => SnapshotOrdered
  BY DEF OrderInv
<1> QED
  BY <1>1, <1>2, <1>3, PTL DEF Spec

-----------------------------------------------------------------------------
(* The completeness of a snapshot.  The scan may stop at a record that is  *)
(* older than the window by more than MaxSkew, because timestamps fall     *)
(* behind those of earlier tickets by no more than that.                   *)

Offered == published \cup {event[p] : p \in Busy}

SkewBounded ==
    /\ \A e \in Offered : e.ts <= newest
    /\ \A e, f \in Offered : e.id < f.id => e.ts <= f.ts + MaxSkew

LEMMA OfferedType ==
  ASSUME RingTypeOK, NEW e \in Offered
  PROVE  e \in Records /\ e.ts \in Nat /\ e.id \in Nat
<1>1. e \in Records
  BY DEF RingTypeOK, Offered, Busy
<1> QED
  BY <1>1, RecordStamps

(* A push only moves its event, or drops it.                               *)
LEMMA PushOffers ==
  ASSUME RingTypeOK, NEW p \in Producers, Push(p)
  PROVE  Offered' \subseteq Offered
<1> USE DEF slots, locals, Goto
<1>1. CASE Publish(p)
  <2>1. /\ published' = published \cup {event[p]} /\ p \in Busy
        /\ \A q \in Busy' : q \in Busy /\ event'[q] = event[q]
    BY <1>1 DEF RingTypeOK, Publish, Return, Busy
  <2> QED
    BY <2>1 DEF Offered
<1>2. ASSUME published' = published, \A q \in Busy' : q \in Busy /\ event'[q] = event[q]
      PROVE  Offered' \subseteq Offered
  BY <1>2 DEF Offered
<1>3. CASE Return(p) /\ UNCHANGED published
  BY <1>2, <1>3 DEF RingTypeOK, Return, Busy
<1>4. CASE /\ ppc[p] # "idle" /\ UNCHANGED <<published, event>>
           /\ \A q \in Producers : q # p => ppc'[q] = ppc[q]
  BY <1>2, <1>4 DEF Busy
<1>5. CASE LapCheck(p) \/ LoadSeq(p)
  BY <1>3, <1>4, <1>5 DEF RingTypeOK, LapCheck, LoadSeq, Drop
<1>6. CASE Overtaken(p) \/ AwaitWriter(p)
  BY <1>3, <1>4, <1>6 DEF RingTypeOK, Overtaken, AwaitWriter, Drop
<1>7. CASE ClaimSlot(p) \/ BeginCopy(p)
  BY <1>4, <1>7 DEF RingTypeOK, ClaimSlot, BeginCopy
<1> QED
  BY <1>1, <1>5, <1>6, <1>7 DEF Push

LEMMA SkewStep ==
  ASSUME Ring, TypeOK, SkewBounded, [Next]_vars
  PROVE  SkewBounded'
<1> USE DEF cursor, request, result, reader, budgets, slots
<1>1. newest \in Nat /\ newest' \in Nat /\ MaxSkew \in Nat /\ RingTypeOK
  BY TypeNext, RecorderAssumption DEF TypeOK
<1>2. \A e \in Offered : e.ts \in Nat /\ e.id \in Nat
  BY <1>1, OfferedType
<1>3. ASSUME Offered' \subseteq Offered, newest' = newest PROVE SkewBounded'
  BY <1>3 DEF SkewBounded
<1>4. ASSUME NEW p \in Producers, PushEvent(p) PROVE SkewBounded'
  <2>1. PICK ts \in Stamps : /\ ts + MaxSkew >= newest
                             /\ newest' = IF ts > newest THEN ts ELSE newest
                             /\ ClaimTicket(p, ts)
    BY <1>4 DEF PushEvent
  <2> DEFINE new == [id |-> head + 1, ts |-> ts]
  <2>2. head \in Nat /\ ts \in Nat /\ new.id = head + 1 /\ new.ts = ts
    BY RingAssumption DEF TypeOK, RingTypeOK
  <2>3. \A e \in Offered : e.id <= head
    <3>1. \A e \in published : e.id <= head
      BY DEF Ring, TicketsFresh
    <3>2. ASSUME NEW q \in Busy PROVE event[q].id <= head
      <4>1. ticket[q] < head /\ event[q].id = ticket[q] + 1 /\ ticket[q] \in Nat
        BY DEF Ring, RingInv, TicketsOwned, TypeOK, RingTypeOK, Busy
      <4> QED
        BY <2>2, <4>1
    <3> QED
      BY <3>1, <3>2 DEF Offered
  <2> HIDE DEF new
  <2>4. Offered' \subseteq Offered \cup {new}
    <3>1. /\ published' = published /\ event'[p] = new
          /\ \A q \in Busy' : q # p => q \in Busy /\ event'[q] = event[q]
      BY <2>1 DEF ClaimTicket, Goto, TypeOK, RingTypeOK, Busy, new
    <3> QED
      BY <3>1 DEF Offered
  <2>5. newest <= newest' /\ ts <= newest' /\ newest <= ts + MaxSkew
    BY <1>1, <2>1, <2>2
  <2>6. ASSUME NEW e \in Offered' PROVE e.ts <= newest'
    <3>1. e \in Offered => e.ts <= newest /\ e.ts \in Nat
      BY <1>2 DEF SkewBounded
    <3> QED
      BY <1>1, <2>2, <2>4, <2>5, <2>6, <3>1
  <2>7. ASSUME NEW e \in Offered', NEW f \in Offered', e.id < f.id
        PROVE  e.ts <= f.ts + MaxSkew
    <3>1. CASE e \in Offered /\ f \in Offered
      BY <2>7, <3>1 DEF SkewBounded
    <3>2. CASE e \in Offered /\ f = new
      <4>1. e.ts <= newest /\ e.ts \in Nat
        BY <1>2, <3>2 DEF SkewBounded
      <4> QED
        BY <1>1, <2>2, <2>5, <3>2, <4>1
    <3>3. CASE e = new
      <4>1. f \in Offered => f.id <= head /\ f.id \in Nat
        BY <1>2, <2>3
      <4> QED
        BY <2>2, <2>4, <2>7, <3>3, <4>1
    <3> QED
      BY <2>4, <3>1, <3>2, <3>3
  <2> QED
    BY <2>6, <2>7 DEF SkewBounded
<1>5. ASSUME NEW p \in Producers, Push(p), UNCHANGED <<newest, reader>> PROVE SkewBounded'
  BY <1>1, <1>3, <1>5, PushOffers
<1>6. CASE UNCHANGED <<pushState, newest>>
  BY <1>3, <1>6 DEF pushState, locals, Offered, Busy
<1> QED
  BY <1>4, <1>5, <1>6
     DEF Next, BeginSnapshot, Snapshot, NextSlot, ReadSeq1, ReadStamp, VerifyStamp, ReadRecord,
         VerifyRecord, EndSnapshot, vars

(* What the snapshot must hold; each such record is in it, or its slot has *)
(* gone to a newer ticket, or the scan has yet to get there.               *)
Wanted == {r \in before : InWindow(r) /\ r.id > start}

NotMissed(r) == r \in ToSet(out) \/ seq[SlotOf(r.id - 1)] > Ready(r.id - 1)

Ahead(r) == rpc # "idle" /\ r.id <= Edge

CompleteInv ==
    /\ before \subseteq published
    /\ cushioned /\ rpc # "idle" => rpc = "next" /\ pos = start
    /\ ~cushioned => \A r \in Wanted : NotMissed(r) \/ Ahead(r)

ScanState == IntactInv /\ ScanInv /\ SkewBounded /\ CompleteInv

LEMMA PublishedType ==
  ASSUME IntactInv, NEW r \in published
  PROVE  /\ r.id \in Nat \ {0} /\ r.ts \in Nat \ {0} /\ r.id - 1 \in Nat
         /\ SlotOf(r.id - 1) \in Slots /\ Ready(r.id - 1) \in Nat
         /\ seq[SlotOf(r.id - 1)] \in Nat
<1>1. r.id \in 1 .. head /\ head \in Nat
  BY DEF IntactInv, Ring, TicketsFresh, TypeOK, RingTypeOK
<1>2. r.ts \in Stamps
  BY DEF IntactInv, PublishedOnce
<1>3. r.id \in Nat \ {0} /\ r.id - 1 \in Nat
  BY <1>1
<1>4. SlotOf(r.id - 1) \in Slots /\ Ready(r.id - 1) \in Nat
  BY <1>3, SlotOfType, Parity
<1>5. seq[SlotOf(r.id - 1)] \in Nat
  BY <1>4 DEF IntactInv, TypeOK, RingTypeOK
<1> QED
  BY <1>2, <1>3, <1>4, <1>5, RingAssumption

(* The record whose slot the reader looks at is in it or was overtaken.    *)
LEMMA Visited ==
  ASSUME IntactInv, NEW r \in published, r.id = pos + 1
  PROVE  \/ seq[Slot] = Ready(pos) /\ rec[Slot] = r
         \/ seq[SlotOf(r.id - 1)] > Ready(r.id - 1)
<1>1. pos \in Nat /\ r.id - 1 = pos
  BY DEF IntactInv, TypeOK
<1>2. seq[Slot] >= Ready(pos) /\ seq[Slot] \in Nat /\ Ready(pos) \in Nat
  BY <1>1, PublishedType DEF IntactInv, PublishedOnce, Slot
<1>3. CASE seq[Slot] = Ready(pos)
  BY <1>3, SlotRecord DEF IntactInv, PublishedOnce
<1>4. CASE seq[Slot] > Ready(pos)
  BY <1>1, <1>4 DEF Slot
<1> QED
  BY <1>2, <1>3, <1>4

(* A record once taken stays taken, and a slot once overtaken stays so.    *)
LEMMA NotMissedStep ==
  ASSUME IntactInv, [Next]_vars, NEW r \in published, NotMissed(r), ToSet(out) \subseteq ToSet(out')
  PROVE  NotMissed(r)'
<1>1. CASE r \in ToSet(out)
  BY <1>1 DEF NotMissed
<1>2. CASE seq[SlotOf(r.id - 1)] > Ready(r.id - 1)
  <2>1. SlotOf(r.id - 1) \in Slots /\ seq[SlotOf(r.id - 1)] \in Nat /\ Ready(r.id - 1) \in Nat
    BY PublishedType
  <2>2. seq'[SlotOf(r.id - 1)] >= seq[SlotOf(r.id - 1)]
    BY <2>1, RecorderRefinesRing, AdvanceStep DEF IntactInv, Ring
  <2>3. seq'[SlotOf(r.id - 1)] \in Nat
    BY <2>1, RecorderRefinesRing, RingTypeNext DEF IntactInv, Ring, RingTypeOK
  <2> QED
    BY <1>2, <2>1, <2>2, <2>3 DEF NotMissed
<1> QED
  BY <1>1, <1>2 DEF NotMissed

(* The records behind one that lies too far before the window do too.      *)
LEMMA FarEnough ==
  ASSUME IntactInv, SkewBounded, NEW r \in published, NEW q \in published,
         q.id < r.id \/ q = r, r.ts < window.from, window.from - r.ts > MaxSkew
  PROVE  ~ InWindow(q)
<1>1. q.ts \in Nat /\ r.ts \in Nat /\ MaxSkew \in Nat
  BY PublishedType, RecorderAssumption
<1>2. window.from \in Nat
  BY RecorderAssumption DEF IntactInv, TypeOK, NoWindow
<1>3. q.ts <= r.ts + MaxSkew
  <2>1. q.id < r.id => q.ts <= r.ts + MaxSkew
    BY DEF SkewBounded, Offered
  <2> QED
    BY <1>1, <2>1
<1> QED
  BY <1>1, <1>2, <1>3 DEF InWindow

(* A reader that goes on past a slot without its record misses nothing.    *)
LEMMA LeavesNothing ==
  ASSUME ScanState, NEW r \in Wanted, Ahead(r), rpc \in {"seq1", "seq2", "seq3"},
         \/ rpc = "seq1" /\ seq[Slot] # Ready(pos)
         \/ rpc \in {"seq2", "seq3"} /\ seq[Slot] # s1
         \/ rpc = "seq2" /\ seq[Slot] = s1 /\ (hand.ts > window.to \/ hand.ts < window.from \/ hand.ts = 0)
  PROVE  NotMissed(r) \/ r.id <= pos
<1>1. r \in published /\ InWindow(r) /\ r.id <= pos + 1
  BY DEF ScanState, CompleteInv, Wanted, Ahead, Edge
<1>2. r.id \in Nat /\ r.ts \in Nat \ {0} /\ pos \in Nat
  BY <1>1, PublishedType DEF ScanState, IntactInv, TypeOK
<1>3. CASE r.id = pos + 1 /\ seq[Slot] = Ready(pos) /\ rec[Slot] = r
  <2>1. s1 = Ready(pos) \/ rpc = "seq1"
    BY DEF ScanState, IntactInv, ReadInv, Looking
  <2>2. rpc = "seq2" /\ hand = r
    BY <1>3, <2>1 DEF ScanState, IntactInv, ReadInv
  <2>3. window.from <= r.ts /\ r.ts <= window.to /\ window.from \in Nat /\ window.to \in Nat
    BY <1>1, RecorderAssumption DEF InWindow, ScanState, IntactInv, TypeOK, NoWindow
  <2> QED
    BY <1>2, <1>3, <2>1, <2>2, <2>3
<1>4. CASE r.id = pos + 1 /\ seq[SlotOf(r.id - 1)] > Ready(r.id - 1)
  BY <1>4 DEF NotMissed
<1> QED
  BY <1>1, <1>2, <1>3, <1>4, Visited DEF ScanState

LEMMA CompleteStep ==
  ASSUME ScanState, [Next]_vars
  PROVE  CompleteInv'
<1> USE DEF cursor, request, result, reader, budgets, RGoto
<1>1. /\ before \subseteq published /\ published \subseteq published'
      /\ \A r \in before : r \in published /\ r.id \in Nat
      /\ pos \in Nat /\ start \in Nat /\ Edge \in {pos, pos + 1}
  <2>1. before \subseteq published /\ published \subseteq published'
    BY RecorderRefinesRing, HistoryStep DEF ScanState, CompleteInv
  <2> QED
    BY <2>1, PublishedType DEF ScanState, IntactInv, TypeOK, Edge
<1>2. CASE BeginSnapshot
  <2>1. /\ before' = published /\ published' = published /\ cushioned' = FALSE
        /\ rpc' = IF window'.from > window'.to THEN "idle" ELSE "next"
        /\ pos' = head /\ window' \in Windows
    BY <1>2 DEF BeginSnapshot, pushState
  <2>2. ASSUME NEW r \in Wanted' PROVE Ahead(r)'
    <3>1. /\ r \in published /\ window'.from <= r.ts /\ r.ts <= window'.to
          /\ window'.from \in Nat /\ window'.to \in Nat
      BY <2>1, RecorderAssumption DEF Wanted, InWindow
    <3>2. r.ts \in Nat /\ r.id <= head
      BY <3>1, PublishedType DEF ScanState, IntactInv, Ring, TicketsFresh
    <3>3. rpc' = "next"
      BY <2>1, <3>1, <3>2
    <3> QED
      BY <2>1, <3>2, <3>3 DEF Ahead, Edge
  <2> QED
    BY <2>1, <2>2 DEF CompleteInv
<1>3. ASSUME UNCHANGED request, ToSet(out) \subseteq ToSet(out'), ~cushioned' => ~cushioned,
             cushioned' /\ rpc' # "idle" => rpc' = "next" /\ pos' = start',
             ASSUME NEW r \in Wanted, Ahead(r), ~cushioned' PROVE NotMissed(r)' \/ Ahead(r)'
      PROVE  CompleteInv'
  <2>1. Wanted' = Wanted /\ before' = before
    BY <1>3 DEF Wanted, InWindow
  <2>2. ASSUME NEW r \in Wanted, ~cushioned' PROVE NotMissed(r)' \/ Ahead(r)'
    <3>1. NotMissed(r) \/ Ahead(r)
      BY <1>3, <2>2 DEF ScanState, CompleteInv
    <3>2. r \in published
      BY <1>1 DEF Wanted
    <3>3. NotMissed(r) => NotMissed(r)'
      BY <1>3, <3>2, NotMissedStep DEF ScanState
    <3> QED
      BY <1>3, <2>2, <3>1, <3>3
  <2> QED
    BY <1>1, <1>3, <2>1, <2>2 DEF CompleteInv
<1>4. CASE UNCHANGED reader
  <2>1. ASSUME NEW r \in Wanted, Ahead(r) PROVE Ahead(r)'
    BY <1>4, <2>1 DEF Ahead, Edge
  <2> QED
    BY <1>3, <1>4, <2>1 DEF ScanState, CompleteInv
<1>5. CASE NextSlot
  <2>1. ASSUME NEW r \in Wanted, Ahead(r) PROVE Ahead(r)'
    BY <1>1, <1>5, <2>1 DEF NextSlot, Ahead, Edge
  <2>2. /\ UNCHANGED <<request, out, cushioned>> /\ ~cushioned
    <3>1. rpc = "next" /\ pos # start
      BY <1>1, <1>5 DEF NextSlot
    <3> QED
      BY <1>5, <3>1 DEF NextSlot, ScanState, CompleteInv
  <2> QED
    BY <1>3, <2>1, <2>2
<1>6. CASE EndSnapshot
  <2>1. ASSUME NEW r \in Wanted, Ahead(r) PROVE FALSE
    BY <1>1, <1>6, <2>1 DEF EndSnapshot, Ahead, Edge, Wanted
  <2>2. ToSet(out) \subseteq ToSet(out')
    BY <1>6, OutKept DEF EndSnapshot, ScanState, IntactInv, TypeOK
  <2> QED
    BY <1>3, <1>6, <2>1, <2>2 DEF EndSnapshot
<1>7. CASE ReadStamp \/ ReadRecord
  <2>1. ASSUME NEW r \in Wanted, Ahead(r) PROVE Ahead(r)'
    BY <1>7, <2>1 DEF ReadStamp, ReadRecord, Ahead, Edge
  <2> QED
    BY <1>3, <1>7, <2>1 DEF ReadStamp, ReadRecord, ScanState, CompleteInv
<1>8. ASSUME NEW r \in Wanted, Ahead(r), ToSet(out) \subseteq ToSet(out'), pos' = pos,
             rpc \in {"seq1", "seq2", "seq3"}, rpc' \in {"next", "seq1", "stamp", "copy"},
             rpc' = "next" => NotMissed(r) \/ r.id <= pos
      PROVE  NotMissed(r)' \/ Ahead(r)'
  <2>1. NotMissed(r) => NotMissed(r)'
    BY <1>1, <1>8, NotMissedStep DEF ScanState, Wanted
  <2> QED
    BY <1>8, <2>1 DEF Ahead, Edge
<1>9. CASE ReadSeq1
  <2>1. /\ UNCHANGED <<request, out, pos, cushioned>>
        /\ rpc = "seq1" /\ rpc' \in {"next", "seq1", "stamp"}
        /\ rpc' = "next" => seq[Slot] # Ready(pos)
    <3>1. seq[Slot] \in Nat /\ Ready(pos) \in Nat /\ Ready(pos) % 2 = 0
      BY <1>1, SlotOfType, Parity DEF ScanState, IntactInv, TypeOK, RingTypeOK, Slot
    <3> QED
      BY <1>9, <3>1 DEF ReadSeq1, LeaveSlot, Retry
  <2>2. ASSUME NEW r \in Wanted, Ahead(r) PROVE NotMissed(r)' \/ Ahead(r)'
    BY <1>8, <2>1, <2>2, LeavesNothing
  <2> QED
    BY <1>3, <2>1, <2>2 DEF ScanState, CompleteInv
<1>10. CASE VerifyRecord /\ seq[Slot] # s1
  <2>1. /\ UNCHANGED <<request, out, pos, cushioned>>
        /\ rpc = "seq3" /\ rpc' \in {"next", "seq1"}
    BY <1>10 DEF VerifyRecord, LeaveSlot, Retry
  <2>2. ASSUME NEW r \in Wanted, Ahead(r) PROVE NotMissed(r)' \/ Ahead(r)'
    BY <1>8, <1>10, <2>1, <2>2, LeavesNothing
  <2> QED
    BY <1>3, <2>1, <2>2 DEF ScanState, CompleteInv
<1>11. CASE VerifyRecord /\ seq[Slot] = s1
  <2>1. /\ UNCHANGED <<request, pos, cushioned>> /\ out' = Append(out, hand)
        /\ rpc = "seq3" /\ rpc' = "next"
    BY <1>11 DEF VerifyRecord, LeaveSlot
  <2>2. out \in Seq(Records) /\ hand \in Records
    BY DEF ScanState, IntactInv, TypeOK
  <2>3. ToSet(out) \subseteq ToSet(out') /\ hand \in ToSet(out')
    BY <2>1, <2>2 DEF ToSet
  <2>4. hand = rec[Slot] /\ rec[Slot] \in published /\ rec[Slot].id = pos + 1
    BY <1>11, <2>1, SlotRecord DEF ScanState, IntactInv, ReadInv, Looking
  <2>5. ASSUME NEW r \in Wanted, Ahead(r) PROVE NotMissed(r)' \/ Ahead(r)'
    <3>1. r \in published /\ r.id \in Nat /\ r.id <= pos + 1
      BY <1>1, <2>1, <2>5 DEF Wanted, Ahead, Edge
    <3>2. CASE r.id = pos + 1
      <4>1. r = hand
        BY <2>4, <3>1, <3>2 DEF ScanState, IntactInv, PublishedOnce
      <4> QED
        BY <2>3, <4>1 DEF NotMissed
    <3>3. CASE r.id <= pos
      BY <1>8, <2>1, <2>3, <2>5, <3>3
    <3> QED
      BY <1>1, <3>1, <3>2, <3>3
  <2> QED
    BY <1>3, <2>1, <2>3, <2>5 DEF ScanState, CompleteInv
<1>12. CASE VerifyStamp /\ seq[Slot] # s1
  <2>1. /\ UNCHANGED <<request, out, pos, cushioned>>
        /\ rpc = "seq2" /\ rpc' \in {"next", "seq1"}
    BY <1>12 DEF VerifyStamp, LeaveSlot, Retry
  <2>2. ASSUME NEW r \in Wanted, Ahead(r) PROVE NotMissed(r)' \/ Ahead(r)'
    BY <1>8, <1>12, <2>1, <2>2, LeavesNothing
  <2> QED
    BY <1>3, <2>1, <2>2 DEF ScanState, CompleteInv
<1>13. CASE VerifyStamp /\ seq[Slot] = s1
  <2>1. /\ UNCHANGED <<request, out>> /\ rpc = "seq2" /\ ~cushioned /\ Triage(hand.ts)
    BY <1>13 DEF VerifyStamp, ScanState, CompleteInv
  <2>2. hand = rec[Slot] /\ hand \in published /\ hand.id = pos + 1
    BY <1>13, <2>1, SlotRecord DEF ScanState, IntactInv, ReadInv, Looking
  <2>3. CASE pos' = pos /\ ~cushioned' /\ rpc' = "copy"
    <3>1. ASSUME NEW r \in Wanted, Ahead(r) PROVE NotMissed(r)' \/ Ahead(r)'
      BY <1>8, <2>1, <2>3, <3>1
    <3> QED
      BY <1>3, <2>1, <2>3, <3>1
  <2>4. CASE /\ pos' = pos /\ ~cushioned' /\ rpc' = "next"
             /\ hand.ts > window.to \/ hand.ts < window.from \/ hand.ts = 0
    <3>1. ASSUME NEW r \in Wanted, Ahead(r) PROVE NotMissed(r)' \/ Ahead(r)'
      BY <1>8, <1>13, <2>1, <2>4, <3>1, LeavesNothing
    <3> QED
      BY <1>3, <2>1, <2>4, <3>1
  <2>5. CASE /\ pos' = start /\ rpc' = "next" /\ hand.ts < window.from
             /\ ~cushioned' => window.from - hand.ts > MaxSkew
    <3>1. ASSUME NEW r \in Wanted, Ahead(r), ~cushioned' PROVE FALSE
      <4>1. r \in published /\ InWindow(r) /\ r.id \in Nat /\ r.id <= hand.id
        BY <1>1, <2>1, <2>2, <3>1 DEF Wanted, Ahead, Edge
      <4>2. r.id < hand.id \/ r = hand
        BY <1>1, <2>2, <4>1 DEF ScanState, IntactInv, PublishedOnce
      <4> QED
        BY <2>2, <2>5, <3>1, <4>1, <4>2, FarEnough DEF ScanState
    <3> QED
      BY <1>3, <2>1, <2>5, <3>1
  <2>6. \/ pos' = pos /\ ~cushioned' /\ rpc' = "copy"
        \/ /\ pos' = pos /\ ~cushioned' /\ rpc' = "next"
           /\ hand.ts > window.to \/ hand.ts < window.from \/ hand.ts = 0
        \/ /\ pos' = start /\ rpc' = "next" /\ hand.ts < window.from
           /\ ~cushioned' => window.from - hand.ts > MaxSkew
    <3>2. CASE /\ rpc' = "next" /\ UNCHANGED <<outside, pos, cushioned>>
               /\ hand.ts > window.to \/ hand.ts = 0
      BY <2>1, <3>2
    <3>3. CASE rpc' = "copy" /\ UNCHANGED <<outside, pos, cushioned, s1, hand, retries>>
      BY <2>1, <3>3
    <3>4. CASE /\ rpc' = "next" /\ hand.ts < window.from
               /\ pos' = start \/ pos' = pos
               /\ pos' # pos \/ cushioned' => pos' = start
               /\ ~cushioned' => pos' = pos \/ window.from - hand.ts > MaxSkew
      BY <2>1, <3>4
    <3>5. ASSUME NEW far \in BOOLEAN, NEW many \in BOOLEAN, far => window.from - hand.ts > MaxSkew,
                 pos' = IF far \/ many THEN start ELSE pos, cushioned' = (many /\ ~far)
          PROVE  /\ pos' = start \/ pos' = pos
                 /\ pos' # pos \/ cushioned' => pos' = start
                 /\ ~cushioned' => pos' = pos \/ window.from - hand.ts > MaxSkew
      BY <3>5
    <3> QED
      BY <2>1, <3>2, <3>3, <3>4, <3>5 DEF Triage, LeaveSlot
  <2> QED
    BY <2>3, <2>4, <2>5, <2>6
<1> QED
  BY <1>2, <1>4, <1>5, <1>6, <1>7, <1>9, <1>10, <1>11, <1>12, <1>13
     DEF Next, PushEvent, Snapshot, vars

(* Nothing of the window that was published before the snapshot began is   *)
(* left out, except what newer tickets took the slot of and what lies past *)
(* MaxOutOfWindow older records (the limits of the scan in snapshot).      *)
THEOREM SnapshotAlwaysComplete == Spec => []SnapshotComplete
<1>1. Init => ScanState
  BY IntactInvInit DEF Init, RingInit, ScanState, ScanInv, SkewBounded, CompleteInv, Offered, Busy, Wanted
<1>2. ScanState /\ [Next]_vars => ScanState'
  BY IntactInvNext, ScanStep, SkewStep, CompleteStep DEF ScanState, IntactInv
<1>3. ScanState => SnapshotComplete
  BY DEF ScanState, CompleteInv, SnapshotComplete, NotMissed, Ahead, Wanted
<1> QED
  BY <1>1, <1>2, <1>3, PTL DEF Spec

=============================================================================
