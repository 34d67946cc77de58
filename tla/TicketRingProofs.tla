--------------------------- MODULE TicketRingProofs ---------------------------
(***************************************************************************)
(* What the ring guarantees to its readers, for every number of producers, *)
(* every capacity and every spin limit.  The lemmas are about the steps of *)
(* the producers, RingNext; a module that adds a reader shows that its own *)
(* steps leave the ring alone and takes over the conclusions.              *)
(***************************************************************************)
EXTENDS TicketRing, FiniteSetTheorems, TLAPS

LEMMA SlotOfType == ASSUME NEW t \in Nat PROVE SlotOf(t) \in Slots
  BY RingAssumption DEF SlotOf, Slots

-----------------------------------------------------------------------------
(* Type correctness.                                                       *)

LEMMA RingTypeInit == RingInit => RingTypeOK
<1> SUFFICES ASSUME RingInit PROVE RingTypeOK
  OBVIOUS
<1>1. NoRecord \in Records
  BY RingAssumption DEF NoRecord, Records
<1> QED
  BY <1>1, RingAssumption DEF RingInit, RingTypeOK, PushPcs

LEMMA ReturnType ==
  ASSUME RingTypeOK, NEW p \in Producers, Return(p)
  PROVE  /\ ppc' \in [Producers -> PushPcs] /\ ticket' \in [Producers -> Nat]
         /\ event' \in [Producers -> Records] /\ seen' \in [Producers -> Nat]
         /\ spins' \in [Producers -> 0..MaxSpins]
<1>1. NoRecord \in Records
  BY RingAssumption DEF NoRecord, Records
<1> QED
  BY <1>1, RingAssumption DEF RingTypeOK, Return, PushPcs

LEMMA RingTypeNext == RingTypeOK /\ [RingNext]_pushState => RingTypeOK'
<1> SUFFICES ASSUME RingTypeOK, [RingNext]_pushState PROVE RingTypeOK'
  OBVIOUS
<1> USE DEF Goto, PushPcs, slots, locals
<1>1. ASSUME NEW p \in Producers, NEW ts \in Stamps, ClaimTicket(p, ts) PROVE RingTypeOK'
  <2>1. head' \in 0..MaxTickets /\ [id |-> head + 1, ts |-> ts] \in Records
    BY <1>1, RingAssumption DEF RingTypeOK, ClaimTicket, Records
  <2> QED
    BY <1>1, <2>1 DEF RingTypeOK, ClaimTicket
<1>2. ASSUME NEW p \in Producers, LapCheck(p) PROVE RingTypeOK'
  <2>1. CASE Drop(p)
    BY <1>2, <2>1, ReturnType DEF RingTypeOK, LapCheck, Drop
  <2>2. CASE ~Drop(p)
    BY <1>2, <2>2 DEF RingTypeOK, LapCheck
  <2> QED
    BY <2>1, <2>2
<1>3. ASSUME NEW p \in Producers, LoadSeq(p) PROVE RingTypeOK'
  BY <1>3, SlotOfType DEF RingTypeOK, LoadSeq
<1>4. ASSUME NEW p \in Producers, Overtaken(p) PROVE RingTypeOK'
  BY <1>4, ReturnType DEF RingTypeOK, Overtaken, Drop
<1>5. ASSUME NEW p \in Producers, AwaitWriter(p) PROVE RingTypeOK'
  <2>1. CASE Drop(p)
    BY <1>5, <2>1, ReturnType DEF RingTypeOK, AwaitWriter, Drop
  <2>2. CASE ~Drop(p)
    BY <1>5, <2>2, RingAssumption DEF RingTypeOK, AwaitWriter
  <2> QED
    BY <2>1, <2>2
<1>6. ASSUME NEW p \in Producers, ClaimSlot(p) PROVE RingTypeOK'
  <2>1. SlotOf(ticket[p]) \in Slots
    BY SlotOfType DEF RingTypeOK
  <2> QED
    BY <1>6, <2>1 DEF RingTypeOK, ClaimSlot, Writing
<1>7. ASSUME NEW p \in Producers, BeginCopy(p) PROVE RingTypeOK'
  <2>1. Torn(event[p]) \in Records
    BY RingAssumption DEF RingTypeOK, Torn, Records
  <2> QED
    BY <1>7, <2>1 DEF RingTypeOK, BeginCopy
<1>8. ASSUME NEW p \in Producers, Publish(p) PROVE RingTypeOK'
  <2>1. Ready(ticket[p]) \in Nat /\ event[p] \in Records
    BY DEF RingTypeOK, Ready
  <2>2. /\ seq' \in [Slots -> Nat] /\ rec' \in [Slots -> Records]
        /\ published' \subseteq Records
    BY <1>8, <2>1 DEF RingTypeOK, Publish
  <2>3. Return(p)
    BY <1>8 DEF Publish
  <2> QED
    BY <1>8, <2>2, <2>3, ReturnType DEF RingTypeOK, Publish
<1>9. CASE UNCHANGED pushState
  BY <1>9 DEF RingTypeOK, pushState
<1> QED
  BY <1>1, <1>2, <1>3, <1>4, <1>5, <1>6, <1>7, <1>8, <1>9 DEF RingNext, Push

-----------------------------------------------------------------------------
(* PublishedIntact is not inductive: a step of a writer keeps it only if   *)
(* the slot is still the writer's own.  It is, because the slot's sequence *)
(* carries the writer's ticket and no two producers hold the same ticket.  *)

TicketsOwned ==
    /\ \A p \in Busy : ticket[p] < head /\ event[p].id = ticket[p] + 1
    /\ \A p, q \in Busy : ticket[p] = ticket[q] => p = q

WritersMarked ==
    \A p \in Producers : ppc[p] \in Writers => seq[SlotOf(ticket[p])] = Writing(ticket[p])

RingInv == TicketsOwned /\ WritersMarked /\ PublishedIntact

(* At first the ring is empty and nobody is in push.                       *)
LEMMA RingInvInit == RingInit => RingInv
  BY DEF RingInit, RingInv, TicketsOwned, WritersMarked, PublishedIntact, Busy, Writers

(* The sequence of a slot names its one writer.                            *)
LEMMA Exclusion == RingTypeOK /\ RingInv => OneWriterPerSlot
<1> SUFFICES ASSUME RingTypeOK, RingInv, NEW p \in Producers, NEW q \in Producers,
                    ppc[p] \in Writers, ppc[q] \in Writers,
                    SlotOf(ticket[p]) = SlotOf(ticket[q])
             PROVE  p = q
  BY DEF OneWriterPerSlot
<1>1. Writing(ticket[p]) = Writing(ticket[q])
  BY DEF RingInv, WritersMarked
<1>2. ticket[p] = ticket[q]
  BY <1>1 DEF RingTypeOK, Writing
<1> QED
  BY <1>2 DEF RingInv, TicketsOwned, Busy, Writers

(* A sequence is odd while its slot is written and even otherwise.         *)
LEMMA Parity ==
  ASSUME NEW t \in Nat
  PROVE  /\ Writing(t) % 2 = 1 /\ Ready(t) % 2 = 0 /\ Writing(t) < Ready(t)
         /\ Writing(t) \in Nat /\ Ready(t) \in Nat /\ Ready(t) > 0
  BY DEF Writing, Ready

(* A producer that leaves push disturbs nobody.                            *)
LEMMA ReturnInv ==
  ASSUME RingTypeOK, RingInv, NEW p \in Producers, Return(p), UNCHANGED <<head, slots, published>>
  PROVE  RingInv'
<1>1. TicketsOwned'
  BY DEF RingTypeOK, RingInv, TicketsOwned, Return, Busy
<1>2. WritersMarked'
  BY DEF RingTypeOK, RingInv, WritersMarked, Return, Writers, slots
<1>3. PublishedIntact'
  BY DEF RingInv, PublishedIntact, slots
<1> QED
  BY <1>1, <1>2, <1>3 DEF RingInv

(* Nor does one that goes on inside push without writing.                  *)
LEMMA MoveInv ==
  ASSUME RingTypeOK, RingInv, NEW p \in Producers, NEW to \in {"load", "try"},
         ppc[p] # "idle", ppc[p] \notin Writers, ppc' = [ppc EXCEPT ![p] = to],
         UNCHANGED <<head, slots, published, ticket, event>>
  PROVE  RingInv'
<1>1. TicketsOwned'
  BY DEF RingTypeOK, RingInv, TicketsOwned, Busy
<1>2. WritersMarked'
  BY DEF RingTypeOK, RingInv, WritersMarked, Writers, slots
<1>3. PublishedIntact'
  BY DEF RingInv, PublishedIntact, slots
<1> QED
  BY <1>1, <1>2, <1>3 DEF RingInv

LEMMA RingInvNext == RingTypeOK /\ RingInv /\ [RingNext]_pushState => RingInv'
<1> SUFFICES ASSUME RingTypeOK, RingInv, [RingNext]_pushState PROVE RingInv'
  OBVIOUS
<1> USE DEF Goto, slots, locals
<1>1. ASSUME NEW p \in Producers, NEW ts \in Stamps, ClaimTicket(p, ts) PROVE RingInv'
  <2>1. TicketsOwned'
    <3>1. /\ head \in Nat /\ head' = head + 1 /\ p \notin Busy
          /\ Busy' = Busy \cup {p}
          /\ ticket'[p] = head /\ event'[p].id = head + 1
          /\ \A q \in Busy : ticket'[q] = ticket[q] /\ event'[q] = event[q]
      BY <1>1 DEF RingTypeOK, ClaimTicket, Busy
    <3>2. \A q \in Busy : ticket[q] \in Nat /\ ticket[q] < head /\ event[q].id = ticket[q] + 1
      BY DEF RingTypeOK, RingInv, TicketsOwned, Busy
    <3>3. \A q \in Busy' : ticket'[q] < head' /\ event'[q].id = ticket'[q] + 1
      BY <3>1, <3>2
    <3>4. \A q, r \in Busy' : ticket'[q] = ticket'[r] => q = r
      BY <3>1, <3>2 DEF RingInv, TicketsOwned
    <3> QED
      BY <3>3, <3>4 DEF TicketsOwned
  <2>2. WritersMarked'
    BY <1>1 DEF RingTypeOK, RingInv, WritersMarked, Writers, ClaimTicket
  <2>3. PublishedIntact'
    BY <1>1 DEF RingInv, PublishedIntact, ClaimTicket
  <2> QED
    BY <2>1, <2>2, <2>3 DEF RingInv
<1>2. ASSUME NEW p \in Producers, LapCheck(p) PROVE RingInv'
  <2>1. CASE Drop(p)
    BY <1>2, <2>1, ReturnInv DEF LapCheck, Drop
  <2>2. CASE ~Drop(p)
    BY <1>2, <2>2, MoveInv DEF LapCheck, Writers
  <2> QED
    BY <2>1, <2>2
<1>3. ASSUME NEW p \in Producers, LoadSeq(p) PROVE RingInv'
  BY <1>3, MoveInv DEF LoadSeq, Writers
<1>4. ASSUME NEW p \in Producers, Overtaken(p) PROVE RingInv'
  BY <1>4, ReturnInv DEF Overtaken, Drop
<1>5. ASSUME NEW p \in Producers, AwaitWriter(p) PROVE RingInv'
  <2>1. CASE Drop(p)
    BY <1>5, <2>1, ReturnInv DEF AwaitWriter, Drop
  <2>2. CASE ~Drop(p)
    BY <1>5, <2>2, MoveInv DEF AwaitWriter, Writers
  <2> QED
    BY <2>1, <2>2
<1>6. ASSUME NEW p \in Producers, ClaimSlot(p) PROVE RingInv'
  <2> DEFINE s == SlotOf(ticket[p])
  <2>1. /\ ticket[p] \in Nat /\ s \in Slots /\ ppc[p] = "try"
        /\ UNCHANGED <<head, rec, published, ticket, event>>
    BY <1>6, SlotOfType DEF RingTypeOK, ClaimSlot
  <2>2. CASE seq[s] = seen[p]
    <3>1. /\ seq' = [seq EXCEPT ![s] = Writing(ticket[p])]
          /\ seq[s] % 2 = 0 /\ ppc' = [ppc EXCEPT ![p] = "copy"]
      BY <1>6, <2>2 DEF ClaimSlot
    <3>2. TicketsOwned'
      BY <2>1, <3>1 DEF RingTypeOK, RingInv, TicketsOwned, Busy
    <3>3. ASSUME NEW q \in Producers, ppc'[q] \in Writers
          PROVE  seq'[SlotOf(ticket'[q])] = Writing(ticket'[q])
      <4>1. CASE q = p
        BY <2>1, <3>1, <4>1 DEF RingTypeOK
      <4>2. CASE q # p
        <5>1. ppc[q] \in Writers /\ ticket[q] \in Nat /\ SlotOf(ticket[q]) \in Slots
          BY <3>1, <3>3, <4>2, SlotOfType DEF RingTypeOK
        <5>2. seq[SlotOf(ticket[q])] = Writing(ticket[q])
          BY <5>1 DEF RingInv, WritersMarked
        <5>3. SlotOf(ticket[q]) # s
          BY <3>1, <5>1, <5>2, Parity
        <5> QED
          BY <2>1, <3>1, <5>1, <5>2, <5>3 DEF RingTypeOK
      <4> QED
        BY <4>1, <4>2
    <3>4. PublishedIntact'
      <4>1. \A r \in Slots : seq'[r] = IF r = s THEN Writing(ticket[p]) ELSE seq[r]
        BY <2>1, <3>1 DEF RingTypeOK
      <4> QED
        BY <2>1, <4>1, Parity DEF RingInv, PublishedIntact
    <3> QED
      BY <3>2, <3>3, <3>4 DEF RingInv, WritersMarked
  <2>3. CASE seq[s] # seen[p]
    <3>1. UNCHANGED <<seq, ppc>>
      BY <1>6, <2>3 DEF ClaimSlot
    <3> QED
      BY <2>1, <3>1 DEF RingInv, TicketsOwned, WritersMarked, PublishedIntact, Busy
  <2> QED
    BY <2>2, <2>3
<1>7. ASSUME NEW p \in Producers, BeginCopy(p) PROVE RingInv'
  <2>1. /\ ticket[p] \in Nat /\ SlotOf(ticket[p]) \in Slots /\ ppc[p] = "copy"
        /\ ppc' = [ppc EXCEPT ![p] = "publish"]
        /\ UNCHANGED <<head, seq, published, ticket, event>>
    BY <1>7, SlotOfType DEF RingTypeOK, BeginCopy
  <2>2. TicketsOwned'
    BY <2>1 DEF RingTypeOK, RingInv, TicketsOwned, Busy
  <2>3. WritersMarked'
    BY <2>1 DEF RingTypeOK, RingInv, WritersMarked, Writers
  <2>4. seq[SlotOf(ticket[p])] % 2 = 1
    BY <2>1, Parity DEF RingInv, WritersMarked, Writers
  <2>5. \A r \in Slots : r # SlotOf(ticket[p]) => rec'[r] = rec[r]
    BY <1>7 DEF RingTypeOK, BeginCopy
  <2>6. PublishedIntact'
    BY <2>1, <2>4, <2>5 DEF RingInv, PublishedIntact
  <2> QED
    BY <2>2, <2>3, <2>6 DEF RingInv
<1>8. ASSUME NEW p \in Producers, Publish(p) PROVE RingInv'
  <2> DEFINE s == SlotOf(ticket[p])
  <2>1. /\ ticket[p] \in Nat /\ s \in Slots /\ ppc[p] = "publish"
        /\ seq' = [seq EXCEPT ![s] = Ready(ticket[p])]
        /\ rec' = [rec EXCEPT ![s] = event[p]]
        /\ published' = published \cup {event[p]}
        /\ Return(p) /\ head' = head
    BY <1>8, SlotOfType DEF RingTypeOK, Publish
  <2>2. TicketsOwned'
    BY <2>1 DEF RingTypeOK, RingInv, TicketsOwned, Return, Busy
  <2>3. ASSUME NEW q \in Producers, ppc'[q] \in Writers
        PROVE  seq'[SlotOf(ticket'[q])] = Writing(ticket'[q])
    <3>1. /\ q # p /\ ppc[q] \in Writers /\ ticket'[q] = ticket[q]
          /\ ticket[q] \in Nat /\ SlotOf(ticket[q]) \in Slots
      BY <2>1, <2>3, SlotOfType DEF RingTypeOK, Return, Writers
    <3>2. SlotOf(ticket[q]) # s
      BY <2>1, <3>1, Exclusion DEF OneWriterPerSlot, Writers
    <3> QED
      BY <2>1, <3>1, <3>2 DEF RingTypeOK, RingInv, WritersMarked
  <2>4. event[p].id = ticket[p] + 1
    BY <2>1 DEF RingInv, TicketsOwned, Busy
  <2>5. \A r \in Slots : /\ seq'[r] = IF r = s THEN Ready(ticket[p]) ELSE seq[r]
                         /\ rec'[r] = IF r = s THEN event[p] ELSE rec[r]
    BY <2>1 DEF RingTypeOK
  <2>6. ASSUME NEW r \in Slots, seq'[r] > 0, seq'[r] % 2 = 0
        PROVE  rec'[r] \in published' /\ Ready(rec'[r].id - 1) = seq'[r]
    <3>1. CASE r = s
      <4>1. rec'[r].id - 1 = ticket[p]
        BY <2>1, <2>4, <2>5, <3>1
      <4> QED
        BY <2>1, <2>5, <3>1, <4>1
    <3>2. CASE r # s
      BY <2>1, <2>5, <2>6, <3>2 DEF RingInv, PublishedIntact
    <3> QED
      BY <3>1, <3>2
  <2> QED
    BY <2>2, <2>3, <2>6 DEF RingInv, WritersMarked, PublishedIntact
<1>9. CASE UNCHANGED pushState
  BY <1>9 DEF pushState, RingInv, TicketsOwned, WritersMarked, PublishedIntact, Busy
<1> QED
  BY <1>1, <1>2, <1>3, <1>4, <1>5, <1>6, <1>7, <1>8, <1>9 DEF RingNext, Push

-----------------------------------------------------------------------------
(* No step takes a slot back: it is claimed from an older generation only, *)
(* and published by the producer that claimed it.                          *)
LEMMA AdvanceStep ==
  RingTypeOK /\ RingInv /\ [RingNext]_pushState => \A r \in Slots : seq'[r] >= seq[r]
<1> SUFFICES ASSUME RingTypeOK, RingInv, [RingNext]_pushState, NEW r \in Slots
             PROVE  seq'[r] >= seq[r]
  OBVIOUS
<1> USE DEF slots, locals
<1>1. seq[r] \in Nat
  BY DEF RingTypeOK
<1>2. CASE seq' = seq
  BY <1>1, <1>2
<1>3. ASSUME NEW p \in Producers, ClaimSlot(p), seq' # seq PROVE seq'[r] >= seq[r]
  <2>1. /\ seq[SlotOf(ticket[p])] < Writing(ticket[p])
        /\ seq' = [seq EXCEPT ![SlotOf(ticket[p])] = Writing(ticket[p])]
    BY <1>3 DEF ClaimSlot
  <2>2. ticket[p] \in Nat
    BY DEF RingTypeOK
  <2> QED
    BY <1>1, <2>1, <2>2, Parity DEF RingTypeOK
<1>4. ASSUME NEW p \in Producers, Publish(p) PROVE seq'[r] >= seq[r]
  <2>1. /\ seq[SlotOf(ticket[p])] = Writing(ticket[p]) /\ ticket[p] \in Nat
        /\ seq' = [seq EXCEPT ![SlotOf(ticket[p])] = Ready(ticket[p])]
    BY <1>4 DEF RingTypeOK, RingInv, WritersMarked, Writers, Publish
  <2> QED
    BY <1>1, <2>1, Parity DEF RingTypeOK
<1> QED
  BY <1>2, <1>3, <1>4
     DEF RingNext, Push, pushState, ClaimTicket, LapCheck, LoadSeq, Overtaken, AwaitWriter, BeginCopy

-----------------------------------------------------------------------------
(* Accounting of the tickets.                                              *)

(* A ticket under way is not yet among the published records, and no       *)
(* record is published under a ticket that was not drawn.                  *)
TicketsFresh ==
    /\ IsFiniteSet(published)
    /\ \A r \in published : r.id \in 1..head
    /\ \A p \in Busy : event[p] \notin published

LEMMA TicketsFreshInit == RingInit => TicketsFresh
<1>1. IsFiniteSet({})
  BY FS_EmptySet
<1> QED
  BY <1>1 DEF RingInit, TicketsFresh, Busy

LEMMA TicketsFreshNext ==
  RingTypeOK /\ RingInv /\ TicketsFresh /\ [RingNext]_pushState => TicketsFresh'
<1> SUFFICES ASSUME RingTypeOK, RingInv, TicketsFresh, [RingNext]_pushState PROVE TicketsFresh'
  OBVIOUS
<1> USE DEF Goto, slots, locals
<1>1. ASSUME NEW p \in Producers, NEW ts \in Stamps, ClaimTicket(p, ts) PROVE TicketsFresh'
  <2>1. /\ published' = published /\ head \in Nat /\ head' = head + 1
        /\ event'[p].id = head + 1
        /\ \A q \in Busy' : q # p => q \in Busy /\ event'[q] = event[q]
    BY <1>1 DEF RingTypeOK, ClaimTicket, Busy
  <2> QED
    BY <2>1 DEF TicketsFresh
<1>2. ASSUME NEW p \in Producers, Publish(p) PROVE TicketsFresh'
  <2>1. /\ published' = published \cup {event[p]} /\ head' = head /\ head \in Nat
        /\ p \in Busy /\ Return(p)
        /\ ticket[p] \in Nat /\ ticket[p] < head /\ event[p].id = ticket[p] + 1
    BY <1>2 DEF RingTypeOK, RingInv, TicketsOwned, Publish, Busy
  <2>2. IsFiniteSet(published')
    BY <2>1, FS_AddElement DEF TicketsFresh
  <2>3. ASSUME NEW q \in Busy' PROVE event'[q] \notin published'
    <3>1. q # p /\ q \in Busy /\ event'[q] = event[q]
      BY <2>1 DEF RingTypeOK, Return, Busy
    <3>2. event[q].id # event[p].id
      BY <2>1, <3>1 DEF RingTypeOK, RingInv, TicketsOwned, Busy
    <3> QED
      BY <2>1, <3>1, <3>2 DEF TicketsFresh
  <2> QED
    BY <2>1, <2>2, <2>3 DEF TicketsFresh
<1>3. ASSUME NEW p \in Producers, Return(p), UNCHANGED <<head, published>> PROVE TicketsFresh'
  BY <1>3 DEF RingTypeOK, TicketsFresh, Return, Busy
<1>4. ASSUME NEW p \in Producers, ppc[p] # "idle",
             \A q \in Producers : q # p => ppc'[q] = ppc[q],
             UNCHANGED <<head, published, event>>
      PROVE  TicketsFresh'
  BY <1>4 DEF TicketsFresh, Busy
<1>5. ASSUME NEW p \in Producers, LapCheck(p) \/ LoadSeq(p) PROVE TicketsFresh'
  BY <1>3, <1>4, <1>5 DEF RingTypeOK, LapCheck, LoadSeq, Drop
<1>6. ASSUME NEW p \in Producers, Overtaken(p) \/ AwaitWriter(p) PROVE TicketsFresh'
  BY <1>3, <1>4, <1>6 DEF RingTypeOK, Overtaken, AwaitWriter, Drop
<1>7. ASSUME NEW p \in Producers, ClaimSlot(p) \/ BeginCopy(p) PROVE TicketsFresh'
  BY <1>4, <1>7 DEF RingTypeOK, ClaimSlot, BeginCopy
<1>8. CASE UNCHANGED pushState
  BY <1>8 DEF pushState, TicketsFresh, Busy
<1> QED
  BY <1>1, <1>2, <1>5, <1>6, <1>7, <1>8 DEF RingNext, Push

LEMMA PushAccountingInit == RingInit => PushAccounting
<1> SUFFICES ASSUME RingInit PROVE PushAccounting
  OBVIOUS
<1>1. Busy = {}
  BY DEF RingInit, Busy
<1> QED
  BY <1>1, FS_EmptySet DEF RingInit, PushAccounting

LEMMA PushAccountingNext ==
  RingTypeOK /\ RingInv /\ TicketsFresh /\ PushAccounting /\ [RingNext]_pushState
    => PushAccounting'
<1> SUFFICES ASSUME RingTypeOK, RingInv, TicketsFresh, PushAccounting, [RingNext]_pushState
             PROVE  PushAccounting'
  OBVIOUS
<1> USE DEF Goto, slots, locals
<1>1. IsFiniteSet(Busy) /\ Cardinality(Busy) \in Nat
  BY RingAssumption, FS_Subset, FS_CardinalityType DEF Busy
<1>2. IsFiniteSet(published) /\ Cardinality(published) \in Nat
  BY FS_CardinalityType DEF TicketsFresh
<1>3. head \in Nat /\ dropped \in Nat
  BY DEF RingTypeOK
<1>4. ASSUME NEW p \in Producers, NEW ts \in Stamps, ClaimTicket(p, ts) PROVE PushAccounting'
  <2>1. /\ Busy' = Busy \cup {p} /\ p \notin Busy
        /\ head' = head + 1 /\ UNCHANGED <<dropped, published>>
    BY <1>4 DEF RingTypeOK, ClaimTicket, Busy
  <2>2. Cardinality(Busy') = Cardinality(Busy) + 1
    BY <1>1, <2>1, FS_AddElement
  <2> QED
    BY <1>1, <1>2, <1>3, <2>1, <2>2 DEF PushAccounting
<1>5. ASSUME NEW p \in Producers, ppc[p] # "idle", Return(p)
      PROVE  Cardinality(Busy') = Cardinality(Busy) - 1
  <2>1. Busy' = Busy \ {p} /\ p \in Busy
    BY <1>5 DEF RingTypeOK, Return, Busy
  <2> QED
    BY <1>1, <2>1, FS_RemoveElement
<1>6. ASSUME NEW p \in Producers, ppc[p] # "idle", Drop(p), UNCHANGED <<head, published>>
      PROVE  PushAccounting'
  <2>1. Cardinality(Busy') = Cardinality(Busy) - 1 /\ dropped' = dropped + 1
    BY <1>5, <1>6 DEF Drop
  <2> QED
    BY <1>1, <1>2, <1>3, <1>6, <2>1 DEF PushAccounting
<1>7. ASSUME NEW p \in Producers, Publish(p) PROVE PushAccounting'
  <2>1. /\ ppc[p] # "idle" /\ Return(p) /\ event[p] \notin published
        /\ published' = published \cup {event[p]} /\ UNCHANGED <<head, dropped>>
    BY <1>7 DEF Publish, TicketsFresh, Busy
  <2>2. Cardinality(published') = Cardinality(published) + 1
    BY <1>2, <2>1, FS_AddElement
  <2>3. Cardinality(Busy') = Cardinality(Busy) - 1
    BY <1>5, <2>1
  <2> QED
    BY <1>1, <1>2, <1>3, <2>1, <2>2, <2>3 DEF PushAccounting
<1>8. ASSUME NEW p \in Producers, ppc[p] # "idle", ppc'[p] # "idle",
             \A q \in Producers : q # p => ppc'[q] = ppc[q],
             UNCHANGED <<head, published, dropped>>
      PROVE  PushAccounting'
  <2>1. Busy' = Busy
    BY <1>8 DEF Busy
  <2> QED
    BY <1>8, <2>1 DEF PushAccounting
<1>9. ASSUME NEW p \in Producers, LapCheck(p) \/ LoadSeq(p) PROVE PushAccounting'
  BY <1>6, <1>8, <1>9 DEF RingTypeOK, LapCheck, LoadSeq
<1>10. ASSUME NEW p \in Producers, Overtaken(p) \/ AwaitWriter(p) PROVE PushAccounting'
  BY <1>6, <1>8, <1>10 DEF RingTypeOK, Overtaken, AwaitWriter
<1>11. ASSUME NEW p \in Producers, ClaimSlot(p) \/ BeginCopy(p) PROVE PushAccounting'
  BY <1>8, <1>11 DEF RingTypeOK, ClaimSlot, BeginCopy
<1>12. CASE UNCHANGED pushState
  <2>1. Busy' = Busy
    BY <1>12 DEF pushState, Busy
  <2> QED
    BY <1>12, <2>1 DEF pushState, PushAccounting
<1> QED
  BY <1>4, <1>7, <1>9, <1>10, <1>11, <1>12 DEF RingNext, Push

-----------------------------------------------------------------------------
(* What a reader relies on.                                                *)

(* A record stays in its slot as long as the sequence says so.             *)
LEMMA SteadyStep ==
  RingTypeOK /\ RingInv /\ [RingNext]_pushState =>
    \A r \in Slots : seq[r] % 2 = 0 /\ seq'[r] = seq[r] => rec'[r] = rec[r]
<1> SUFFICES ASSUME RingTypeOK, RingInv, [RingNext]_pushState, NEW r \in Slots,
                    seq[r] % 2 = 0, seq'[r] = seq[r]
             PROVE  rec'[r] = rec[r]
  OBVIOUS
<1> USE DEF slots, locals
<1>1. ASSUME NEW p \in Producers, BeginCopy(p) \/ Publish(p) PROVE SlotOf(ticket[p]) # r
  <2>1. seq[SlotOf(ticket[p])] = Writing(ticket[p]) /\ ticket[p] \in Nat
    BY <1>1 DEF RingTypeOK, RingInv, WritersMarked, Writers, BeginCopy, Publish, Goto
  <2> QED
    BY <2>1, Parity
<1>2. CASE \E p \in Producers : BeginCopy(p) \/ Publish(p)
  BY <1>1, <1>2 DEF RingTypeOK, BeginCopy, Publish
<1>3. CASE rec' = rec
  BY <1>3
<1> QED
  BY <1>2, <1>3
     DEF RingNext, Push, pushState, ClaimTicket, LapCheck, LoadSeq, Overtaken, AwaitWriter, ClaimSlot

LEMMA HistoryStep == [RingNext]_pushState => published \subseteq published'
  BY DEF RingNext, Push, pushState, slots, ClaimTicket, LapCheck, LoadSeq, Overtaken, AwaitWriter,
         ClaimSlot, BeginCopy, Publish

(* A ticket is published once, and its slot never goes back behind it.     *)
PublishedOnce ==
    /\ \A r \in published : r.ts \in Stamps /\ seq[SlotOf(r.id - 1)] >= Ready(r.id - 1)
    /\ \A r, q \in published : r.id = q.id => r = q
    /\ \A p \in Busy : event[p].ts \in Stamps /\ \A r \in published : r.id # event[p].id

LEMMA PublishedOnceInit == RingInit => PublishedOnce
  BY DEF RingInit, PublishedOnce, Busy

LEMMA PublishedOnceNext ==
  RingTypeOK /\ RingInv /\ TicketsFresh /\ PublishedOnce /\ [RingNext]_pushState => PublishedOnce'
<1> SUFFICES ASSUME RingTypeOK, RingInv, TicketsFresh, PublishedOnce, [RingNext]_pushState
             PROVE  PublishedOnce'
  OBVIOUS
<1> USE DEF Goto, slots, locals
<1>1. ASSUME NEW r \in published, r.ts \in Stamps
      PROVE  seq'[SlotOf(r.id - 1)] >= Ready(r.id - 1)
  <2>1. r.id - 1 \in Nat /\ Ready(r.id - 1) \in Nat
    <3>1. r.id \in 1 .. head /\ head \in Nat
      BY DEF TicketsFresh, RingTypeOK
    <3> QED
      BY <3>1 DEF Ready
  <2>2. SlotOf(r.id - 1) \in Slots
    BY <2>1, SlotOfType
  <2>3. /\ seq'[SlotOf(r.id - 1)] >= seq[SlotOf(r.id - 1)]
        /\ seq[SlotOf(r.id - 1)] >= Ready(r.id - 1)
    BY <2>2, AdvanceStep DEF PublishedOnce
  <2>4. seq[SlotOf(r.id - 1)] \in Nat /\ seq'[SlotOf(r.id - 1)] \in Nat
    BY <2>2, RingTypeNext DEF RingTypeOK
  <2> QED
    BY <2>1, <2>3, <2>4
<1>2. ASSUME published' = published, Busy' \subseteq Busy, \A p \in Busy' : event'[p] = event[p]
      PROVE  PublishedOnce'
  BY <1>1, <1>2 DEF PublishedOnce
<1>3. ASSUME NEW p \in Producers, NEW ts \in Stamps, ClaimTicket(p, ts) PROVE PublishedOnce'
  <2>1. /\ published' = published /\ head \in Nat /\ seq' = seq
        /\ event'[p].id = head + 1 /\ event'[p].ts = ts
        /\ \A q \in Busy' : q # p => q \in Busy /\ event'[q] = event[q]
    BY <1>3 DEF RingTypeOK, ClaimTicket, Busy
  <2>2. \A r \in published : r.id # event'[p].id
    BY <2>1 DEF TicketsFresh
  <2> QED
    BY <2>1, <2>2 DEF PublishedOnce
<1>4. ASSUME NEW p \in Producers, Publish(p) PROVE PublishedOnce'
  <2>1. /\ published' = published \cup {event[p]} /\ p \in Busy /\ Return(p)
        /\ ticket[p] \in Nat /\ event[p].id = ticket[p] + 1
        /\ seq' = [seq EXCEPT ![SlotOf(ticket[p])] = Ready(ticket[p])]
    BY <1>4 DEF RingTypeOK, RingInv, TicketsOwned, Publish, Busy
  <2>2. /\ event[p].id - 1 = ticket[p] /\ event[p].ts \in Stamps
        /\ seq'[SlotOf(event[p].id - 1)] >= Ready(event[p].id - 1)
    <3>1. event[p].id - 1 = ticket[p]
      BY <2>1
    <3>2. seq'[SlotOf(ticket[p])] = Ready(ticket[p]) /\ Ready(ticket[p]) \in Nat
      BY <2>1, SlotOfType, Parity DEF RingTypeOK
    <3> QED
      BY <2>1, <3>1, <3>2 DEF PublishedOnce
  <2>3. ASSUME NEW q \in Busy' PROVE /\ q # p /\ q \in Busy /\ event'[q] = event[q]
                                      /\ event[q].id # event[p].id
    <3>1. q # p /\ q \in Busy /\ event'[q] = event[q]
      BY <2>1 DEF RingTypeOK, Return, Busy
    <3> QED
      BY <2>1, <3>1 DEF RingTypeOK, RingInv, TicketsOwned, Busy
  <2>4. \A r \in published' : r.ts \in Stamps /\ seq'[SlotOf(r.id - 1)] >= Ready(r.id - 1)
    BY <1>1, <2>1, <2>2 DEF PublishedOnce
  <2>5. \A r, q \in published' : r.id = q.id => r = q
    BY <2>1 DEF PublishedOnce
  <2>6. \A q \in Busy' : event'[q].ts \in Stamps /\ \A r \in published' : r.id # event'[q].id
    BY <2>1, <2>3 DEF PublishedOnce
  <2> QED
    BY <2>4, <2>5, <2>6 DEF PublishedOnce
<1>5. ASSUME NEW p \in Producers, Return(p), UNCHANGED published PROVE PublishedOnce'
  BY <1>2, <1>5 DEF RingTypeOK, Return, Busy
<1>6. ASSUME NEW p \in Producers, ppc[p] # "idle",
             \A q \in Producers : q # p => ppc'[q] = ppc[q],
             UNCHANGED <<published, event>>
      PROVE  PublishedOnce'
  BY <1>2, <1>6 DEF Busy
<1>7. ASSUME NEW p \in Producers, LapCheck(p) \/ LoadSeq(p) PROVE PublishedOnce'
  BY <1>5, <1>6, <1>7 DEF RingTypeOK, LapCheck, LoadSeq, Drop
<1>8. ASSUME NEW p \in Producers, Overtaken(p) \/ AwaitWriter(p) PROVE PublishedOnce'
  BY <1>5, <1>6, <1>8 DEF RingTypeOK, Overtaken, AwaitWriter, Drop
<1>9. ASSUME NEW p \in Producers, ClaimSlot(p) \/ BeginCopy(p) PROVE PublishedOnce'
  BY <1>6, <1>9 DEF RingTypeOK, ClaimSlot, BeginCopy
<1>10. CASE UNCHANGED pushState
  BY <1>2, <1>10 DEF pushState, Busy
<1> QED
  BY <1>3, <1>4, <1>7, <1>8, <1>9, <1>10 DEF RingNext, Push

=============================================================================
