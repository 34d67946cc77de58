------------------------ MODULE FilteredEventRingProofs ------------------------
(***************************************************************************)
(* What pop returns, for every number of producers, every capacity and     *)
(* every spin limit.  The ring's guarantees come from TicketRingProofs;    *)
(* here it is shown that an unchanged sequence means an unchanged cell.    *)
(***************************************************************************)
EXTENDS FilteredEventRing, TicketRingProofs

Reading == {"copy", "seq2"}

(* The consumer is behind the producers; once it has found its ticket      *)
(* ready, the cell can only go on to newer generations, and a copy is the  *)
(* cell's record as long as the sequence has not moved.                    *)
ConsumerInv ==
    /\ cpc \notin {"idle", "again"} => read_pos < head
    /\ cpc \in Reading => seq1 = Ready(read_pos) /\ seq[Cell] >= seq1
    /\ cpc = "seq2" /\ seq[Cell] = seq1 => tmp = rec[Cell]
    /\ \A i \in DOMAIN popped : popped[i].id <= read_pos

Ring == RingTypeOK /\ RingInv

Inv == TypeOK /\ RingInv /\ ConsumerInv /\ PoppedIntact /\ PoppedInOrder /\ SkippedOnlyLapped

(* A step of the program is a step of the producers or one of pop.         *)
LEMMA RingStep == [Next]_vars => [RingNext]_pushState
<1> SUFFICES ASSUME [Next]_vars PROVE [RingNext]_pushState
  OBVIOUS
<1>1. ASSUME NEW p \in Producers, PushFiltered(p) PROVE RingNext
  BY <1>1 DEF PushFiltered, RingNext
<1>2. PopStep => UNCHANGED pushState
  BY DEF PopStep, Pop, LoadSeq1, SkipLapped, AwaitEvent, CopyEvent, SkipTorn, ReturnEvent, Skip
<1>3. UNCHANGED vars => UNCHANGED pushState
  BY DEF vars
<1> QED
  BY <1>1, <1>2, <1>3 DEF Next

(* Only the slot's writer changes its record, and with it the sequence.    *)
LEMMA UnchangedRecord ==
  ASSUME RingTypeOK, RingInv, [RingNext]_pushState, NEW s \in Slots,
         seq[s] % 2 = 0, seq'[s] = seq[s]
  PROVE  rec'[s] = rec[s]
<1> USE DEF Goto, slots, locals
<1>1. CASE rec' = rec
  BY <1>1
<1>2. ASSUME NEW p \in Producers, BeginCopy(p) \/ Publish(p) PROVE rec'[s] = rec[s]
  <2>1. /\ ppc[p] \in Writers /\ ticket[p] \in Nat
        /\ \A r \in Slots : r # SlotOf(ticket[p]) => rec'[r] = rec[r]
    BY <1>2 DEF RingTypeOK, BeginCopy, Publish, Writers
  <2>2. seq[SlotOf(ticket[p])] % 2 = 1
    BY <2>1, Parity DEF RingInv, WritersMarked
  <2> QED
    BY <2>1, <2>2
<1> QED
  BY <1>1, <1>2
     DEF RingNext, Push, pushState, ClaimTicket, LapCheck, LoadSeq, Overtaken, AwaitWriter, ClaimSlot

(* Initially nothing was pushed and nothing popped.                        *)
LEMMA InvInit == Init => Inv
<1> SUFFICES ASSUME Init PROVE Inv
  OBVIOUS
<1>1. RingTypeOK /\ RingInv
  BY RingTypeInit, RingInvInit DEF Init
<1>2. NoRecord \in Records /\ head = 0
  BY RingAssumption DEF NoRecord, Records, Init, RingInit
<1>3. popped = <<>> /\ DOMAIN popped = {} /\ popped \in Seq(Records) /\ Len(popped) = 0
  BY DEF Init
<1>4. TypeOK
  BY <1>1, <1>2, <1>3, ReaderAssumption DEF Init, TypeOK
<1> QED
  BY <1>1, <1>2, <1>3, <1>4
     DEF Init, Inv, ConsumerInv, Reading, PoppedIntact, PoppedInOrder, SkippedOnlyLapped

(* The producers' steps.                                                   *)
LEMMA InvPush == Inv /\ [RingNext]_pushState /\ UNCHANGED consumer => Inv'
<1> SUFFICES ASSUME Inv, [RingNext]_pushState, UNCHANGED consumer PROVE Inv'
  OBVIOUS
<1>1. RingTypeOK' /\ RingInv'
  BY RingTypeNext, RingInvNext DEF Inv, TypeOK
<1>2. TypeOK'
  BY <1>1 DEF Inv, TypeOK, consumer, popLocals
<1>3. head \in Nat /\ head' \in Nat /\ head <= head' /\ read_pos \in Nat
  <2>1. head' = head \/ head' = head + 1
    BY DEF RingNext, Push, pushState, ClaimTicket, LapCheck, LoadSeq, Overtaken, AwaitWriter,
           ClaimSlot, BeginCopy, Publish
  <2> QED
    BY <1>2, <2>1 DEF Inv, TypeOK, RingTypeOK
<1>4. published \subseteq published'
  BY DEF RingNext, Push, pushState, ClaimTicket, LapCheck, LoadSeq, Overtaken, AwaitWriter,
         ClaimSlot, BeginCopy, Publish
<1>5. \A s \in Slots : seq[s] \in Nat /\ seq'[s] \in Nat /\ seq'[s] >= seq[s]
  BY <1>1, AdvanceStep DEF Inv, TypeOK, RingTypeOK
<1>6. PoppedIntact' /\ PoppedInOrder'
  BY <1>3, <1>4 DEF Inv, PoppedIntact, PoppedInOrder, consumer, popLocals
<1>7. SkippedOnlyLapped'
  <2> SUFFICES ASSUME NEW t \in skipped PROVE seq'[SlotOf(t)] > Ready(t)
    BY DEF SkippedOnlyLapped, consumer
  <2>1. t \in Nat /\ SlotOf(t) \in Slots /\ seq[SlotOf(t)] > Ready(t) /\ Ready(t) \in Nat
    BY SlotOfType, Parity DEF Inv, TypeOK, SkippedOnlyLapped
  <2> QED
    BY <1>5, <2>1
<1>8. ConsumerInv'
  <2>1. Cell' = Cell /\ Cell \in Slots /\ UNCHANGED <<cpc, read_pos, seq1, tmp, popped>>
    BY <1>3, SlotOfType DEF Cell, consumer, popLocals
  <2>2. cpc \in Reading => seq1 = Ready(read_pos) /\ seq'[Cell] >= seq1
    BY <1>3, <1>5, <2>1, Parity DEF Inv, ConsumerInv
  <2>3. ASSUME cpc = "seq2", seq'[Cell] = seq1 PROVE tmp = rec'[Cell]
    <3>1. seq[Cell] >= seq1 /\ seq1 = Ready(read_pos)
      BY <2>3 DEF Inv, ConsumerInv, Reading
    <3>2. seq[Cell] = seq1 /\ seq[Cell] % 2 = 0
      BY <1>3, <1>5, <2>1, <2>3, <3>1, Parity
    <3> QED
      BY <2>1, <2>3, <3>2, UnchangedRecord DEF Inv, TypeOK, ConsumerInv
  <2> QED
    BY <1>3, <2>1, <2>2, <2>3 DEF Inv, ConsumerInv, Reading
<1> QED
  BY <1>1, <1>2, <1>6, <1>7, <1>8 DEF Inv

(* Giving up a ticket that a newer generation has overwritten.             *)
LEMMA InvSkip ==
  ASSUME Inv, Skip, read_pos < head, seq[Cell] > Ready(read_pos)
  PROVE  Inv'
<1>1. /\ read_pos \in Nat /\ dropped_filtered \in Nat /\ head \in Nat
      /\ popped \in Seq(Records) /\ Len(popped) \in Nat
  BY DEF Inv, TypeOK, RingTypeOK
<1>2. NoRecord \in Records
  BY RingAssumption DEF NoRecord, Records
<1>3. RingTypeOK' /\ RingInv'
  BY RingTypeNext, RingInvNext DEF Inv, TypeOK, Skip
<1>4. TypeOK'
  BY <1>1, <1>2, <1>3 DEF Inv, TypeOK, Skip
<1>5. PoppedIntact' /\ PoppedInOrder'
  BY <1>1 DEF Inv, PoppedIntact, PoppedInOrder, Skip, pushState
<1>6. SkippedOnlyLapped'
  BY DEF Inv, SkippedOnlyLapped, Skip, pushState, slots, Cell
<1>7. ConsumerInv'
  <2>1. \A i \in DOMAIN popped : popped[i] \in Records
    BY <1>1
  <2>2. \A i \in DOMAIN popped : popped[i].id \in 0..MaxTickets
    BY <2>1 DEF Records
  <2> QED
    BY <1>1, <2>2, RingAssumption DEF Inv, ConsumerInv, Reading, Skip
<1> QED
  BY <1>3, <1>4, <1>5, <1>6, <1>7 DEF Inv

(* Returning a verified copy: it is the record published for the ticket.   *)
LEMMA InvReturn == ASSUME Inv, ReturnEvent PROVE Inv'
<1>1. /\ read_pos \in Nat /\ dropped_filtered \in Nat /\ head \in Nat /\ tmp \in Records
      /\ popped \in Seq(Records) /\ Len(popped) \in Nat /\ Cell \in Slots
      /\ cpc = "seq2" /\ read_pos < head
  BY SlotOfType DEF Inv, TypeOK, RingTypeOK, ReturnEvent, CGoto, Cell, ConsumerInv
<1>2. tmp \in published /\ tmp.id = read_pos + 1
  <2>1. seq[Cell] = Ready(read_pos) /\ tmp = rec[Cell]
    BY <1>1 DEF Inv, ConsumerInv, Reading, ReturnEvent
  <2>2. tmp \in published /\ Ready(tmp.id - 1) = Ready(read_pos)
    BY <1>1, <2>1, Parity DEF Inv, RingInv, PublishedIntact
  <2>3. tmp.id \in Int
    BY <1>1, RingAssumption DEF Records
  <2> QED
    BY <1>1, <2>2, <2>3 DEF Ready
<1>3. /\ popped' = Append(popped, tmp) /\ read_pos' = read_pos + 1 /\ cpc' = "idle"
      /\ popped' \in Seq(Records) /\ Len(popped') = Len(popped) + 1
      /\ \A i \in DOMAIN popped' : \/ i \in DOMAIN popped /\ popped'[i] = popped[i]
                                   \/ i = Len(popped) + 1 /\ popped'[i] = tmp
  BY <1>1 DEF ReturnEvent, CGoto
<1>4. NoRecord \in Records
  BY RingAssumption DEF NoRecord, Records
<1>5. RingTypeOK' /\ RingInv'
  BY RingTypeNext, RingInvNext DEF Inv, TypeOK, ReturnEvent
<1>6. TypeOK'
  BY <1>1, <1>3, <1>4, <1>5 DEF Inv, TypeOK, ReturnEvent
<1>7. PoppedIntact'
  BY <1>2, <1>3 DEF Inv, PoppedIntact, ReturnEvent, pushState
<1>8. \A i \in DOMAIN popped : popped[i].id \in 0..MaxTickets /\ popped[i].id <= read_pos
  <2>1. \A i \in DOMAIN popped : popped[i] \in Records
    BY <1>1
  <2> QED
    BY <2>1 DEF Records, Inv, ConsumerInv
<1>9. PoppedInOrder'
  <2>1. \A i, j \in DOMAIN popped' : i < j => popped'[i].id < popped'[j].id
    <3> SUFFICES ASSUME NEW i \in DOMAIN popped', NEW j \in DOMAIN popped', i < j
                 PROVE  popped'[i].id < popped'[j].id
      OBVIOUS
    <3>1. i \in DOMAIN popped /\ popped'[i] = popped[i]
      BY <1>1, <1>3
    <3>2. CASE j \in DOMAIN popped /\ popped'[j] = popped[j]
      BY <3>1, <3>2 DEF Inv, PoppedInOrder
    <3>3. CASE j = Len(popped) + 1 /\ popped'[j] = tmp
      BY <1>1, <1>2, <1>8, <3>1, <3>3
    <3> QED
      BY <1>3, <3>2, <3>3
  <2>2. UNCHANGED <<head, dropped_filtered>> /\ read_pos = Len(popped) + dropped_filtered
    BY DEF Inv, PoppedInOrder, ReturnEvent, pushState
  <2>3. read_pos' <= head'
    BY <1>1, <1>3, <2>2
  <2>4. read_pos' = Len(popped') + dropped_filtered'
    BY <1>1, <1>3, <2>2
  <2> QED
    BY <2>1, <2>3, <2>4 DEF PoppedInOrder
<1>10. SkippedOnlyLapped'
  BY DEF Inv, SkippedOnlyLapped, ReturnEvent, pushState, slots
<1>11. ConsumerInv'
  BY <1>1, <1>2, <1>3, <1>8 DEF ConsumerInv, Reading
<1> QED
  BY <1>5, <1>6, <1>7, <1>9, <1>10, <1>11 DEF Inv

LEMMA InvNext == Inv /\ [Next]_vars => Inv'
<1> SUFFICES ASSUME Inv, [Next]_vars PROVE Inv'
  OBVIOUS
<1>1. ASSUME NEW p \in Producers, PushFiltered(p), UNCHANGED consumer PROVE Inv'
  <2>1. RingNext
    BY <1>1 DEF PushFiltered, RingNext
  <2> QED
    BY <1>1, <2>1, InvPush
<1>2. CASE UNCHANGED vars
  BY <1>2, InvPush DEF vars
<1> DEFINE Quiet == UNCHANGED <<pushState, read_pos, dropped_filtered, popped, skipped>>
<1>3. ASSUME Quiet, TypeOK', ConsumerInv' PROVE Inv'
  <2>1. RingInv'
    BY <1>3, RingInvNext DEF Inv, TypeOK
  <2>2. PoppedIntact' /\ PoppedInOrder' /\ SkippedOnlyLapped'
    BY <1>3 DEF Inv, PoppedIntact, PoppedInOrder, SkippedOnlyLapped, pushState, slots
  <2> QED
    BY <1>3, <2>1, <2>2 DEF Inv
<1>4. ASSUME Quiet PROVE RingTypeOK' /\ UNCHANGED <<head, seq, rec>> /\ Cell' = Cell
  BY <1>4, RingTypeNext DEF Inv, TypeOK, pushState, slots, Cell
<1>5. ASSUME Pop \/ LoadSeq1 \/ AwaitEvent PROVE Inv'
  <2>1. Quiet
    BY <1>5 DEF Pop, LoadSeq1, AwaitEvent, popLocals
  <2>2. read_pos \in Nat /\ head \in Nat /\ Cell \in Slots /\ seq[Cell] \in Nat
    BY SlotOfType DEF Inv, TypeOK, RingTypeOK, Cell
  <2>3. TypeOK'
    BY <1>4, <1>5, <2>1, <2>2, ReaderAssumption
       DEF Inv, TypeOK, Pop, LoadSeq1, AwaitEvent, popLocals
  <2>4. ConsumerInv'
    BY <1>4, <1>5, <2>1, <2>2 DEF Inv, ConsumerInv, Reading, Pop, LoadSeq1, AwaitEvent
  <2> QED
    BY <1>3, <2>1, <2>3, <2>4
<1>6. CASE CopyEvent
  <2>1. Quiet
    BY <1>6 DEF CopyEvent
  <2>2. Cell \in Slots /\ rec[Cell] \in Records
    BY SlotOfType DEF Inv, TypeOK, RingTypeOK, Cell
  <2>3. TypeOK'
    BY <1>4, <1>6, <2>1, <2>2 DEF Inv, TypeOK, CopyEvent, CGoto
  <2>4. ConsumerInv'
    BY <1>4, <1>6, <2>1, <2>2 DEF Inv, ConsumerInv, Reading, CopyEvent, CGoto
  <2> QED
    BY <1>3, <2>1, <2>3, <2>4
<1>7. CASE SkipLapped
  BY <1>7, InvSkip DEF SkipLapped, Inv, ConsumerInv
<1>8. CASE SkipTorn
  <2>1. read_pos \in Nat /\ Cell \in Slots /\ seq[Cell] \in Nat
    BY SlotOfType DEF Inv, TypeOK, RingTypeOK, Cell
  <2>2. seq[Cell] > Ready(read_pos) /\ read_pos < head /\ Skip
    BY <1>8, <2>1, Parity DEF SkipTorn, Inv, ConsumerInv, Reading
  <2> QED
    BY <2>2, InvSkip
<1>9. CASE ReturnEvent
  BY <1>9, InvReturn
<1> QED
  BY <1>1, <1>2, <1>5, <1>6, <1>7, <1>8, <1>9 DEF Next, PopStep

LEMMA InvAlways == Spec => []Inv
  BY InvInit, InvNext, PTL DEF Spec

(* pop returns only whole events that some push published.                 *)
THEOREM PoppedAlwaysIntact == Spec => []PoppedIntact
<1>1. Inv => PoppedIntact
  BY DEF Inv
<1> QED
  BY <1>1, InvAlways, PTL

(* pop returns events in ticket order, none twice, and accounts for every  *)
(* ticket it passes.                                                       *)
THEOREM PoppedAlwaysInOrder == Spec => []PoppedInOrder
<1>1. Inv => PoppedInOrder
  BY DEF Inv
<1> QED
  BY <1>1, InvAlways, PTL

(* pop counts an event as dropped only if a newer one has its cell.        *)
THEOREM SkippedAlwaysLapped == Spec => []SkippedOnlyLapped
<1>1. Inv => SkippedOnlyLapped
  BY DEF Inv
<1> QED
  BY <1>1, InvAlways, PTL

=============================================================================
