------------------------------ MODULE TicketRing ------------------------------
(***************************************************************************)
(* The lock-free multi-producer ring on which FlightRecorder               *)
(* (src/flight_recorder.cpp) and FilteredEventRing                         *)
(* (include/stuttometer/filtered_event_ring.hpp) are both built.           *)
(*                                                                         *)
(* A producer draws a ticket from head; ticket t belongs in slot           *)
(* t % Capacity.  A slot's sequence is 2t+1 while ticket t is written into *)
(* it and 2t+2 once it is.  A producer that was overtaken, or that waits   *)
(* too long for an older writer of its slot, drops its event.              *)
(*                                                                         *)
(* The modules that extend this one add the reader.                        *)
(***************************************************************************)
EXTENDS Naturals, FiniteSets

CONSTANTS
    Producers,   \* threads that push
    Capacity,    \* slots of the ring, a power of two
    MaxTickets,  \* bound: events pushed in a behaviour
    MaxSpins,    \* MAX_SPINS of push
    Stamps       \* timestamps an event may carry

ASSUME RingAssumption ==
    /\ IsFiniteSet(Producers)
    /\ Capacity \in Nat \ {0} /\ \E k \in 0..Capacity : Capacity = 2^k
    /\ MaxTickets \in Nat /\ MaxSpins \in Nat
    /\ Stamps \subseteq Nat \ {0}

VARIABLES
    head,       \* head_ / write_pos_: the next ticket
    seq, rec,   \* per slot: sequence, and the record stored
    dropped,    \* events dropped by their producer
    published,  \* history: the records published, by ticket
    ppc, ticket, event, seen, spins   \* per producer: its locals in push

slots     == <<seq, rec>>
locals    == <<ticket, event, seen, spins>>
pushState == <<head, slots, dropped, published, ppc, locals>>

Slots      == 0..(Capacity - 1)
SlotOf(t)  == t % Capacity
Writing(t) == 2 * t + 1
Ready(t)   == 2 * t + 2

(* id is the ticket plus one; a zeroed slot has id 0 and timestamp 0.  The *)
(* timestamp is the first field copied, so a half-written record already   *)
(* has it.                                                                 *)
Records   == [id : 0..MaxTickets, ts : Stamps \cup {0}]
NoRecord  == [id |-> 0, ts |-> 0]
Torn(ev)  == [ev EXCEPT !.id = 0]

RingInit ==
    /\ head = 0 /\ dropped = 0 /\ published = {}
    /\ seq = [s \in Slots |-> 0] /\ rec = [s \in Slots |-> NoRecord]
    /\ ppc = [p \in Producers |-> "idle"]
    /\ ticket = [p \in Producers |-> 0]
    /\ event = [p \in Producers |-> NoRecord]
    /\ seen = [p \in Producers |-> 0] /\ spins = [p \in Producers |-> 0]

Goto(p, from, to) == ppc[p] = from /\ ppc' = [ppc EXCEPT ![p] = to]

(* const uint64_t seq = head_.fetch_add(1);                                *)
ClaimTicket(p, ts) ==
    /\ head < MaxTickets
    /\ Goto(p, "idle", "lapCheck")
    /\ head' = head + 1
    /\ ticket' = [ticket EXCEPT ![p] = head]
    /\ event' = [event EXCEPT ![p] = [id |-> head + 1, ts |-> ts]]
    /\ UNCHANGED <<slots, dropped, published, seen, spins>>

(* push returns: its locals are gone.                                      *)
Return(p) ==
    /\ ppc' = [ppc EXCEPT ![p] = "idle"]
    /\ ticket' = [ticket EXCEPT ![p] = 0] /\ event' = [event EXCEPT ![p] = NoRecord]
    /\ seen' = [seen EXCEPT ![p] = 0] /\ spins' = [spins EXCEPT ![p] = 0]

Drop(p) == Return(p) /\ dropped' = dropped + 1

(* Overtaken before the write began: "do not overwrite newer generation".  *)
LapCheck(p) ==
    /\ ppc[p] = "lapCheck"
    /\ \/ head - ticket[p] >= Capacity /\ Drop(p)
       \/ /\ head - ticket[p] < Capacity
          /\ Goto(p, "lapCheck", "load")
          /\ UNCHANGED <<dropped, locals>>
    /\ UNCHANGED <<head, slots, published>>

LoadSeq(p) ==
    /\ Goto(p, "load", "try")
    /\ seen' = [seen EXCEPT ![p] = seq[SlotOf(ticket[p])]]
    /\ UNCHANGED <<head, slots, dropped, published, ticket, event, spins>>

OvertakenUncounted(p) ==   \* Mutant: the event is dropped in silence.
    /\ ppc[p] = "try"
    /\ seen[p] >= Writing(ticket[p])
    /\ Return(p)
    /\ UNCHANGED <<head, slots, dropped, published>>

(* A newer generation owns the slot.                                       *)
Overtaken(p) ==
    /\ ppc[p] = "try"
    /\ seen[p] >= Writing(ticket[p])
    /\ Drop(p)
    /\ UNCHANGED <<head, slots, published>>

AwaitWriterForever(p) ==   \* Mutant: the spins are not counted.
    /\ ppc[p] = "try"
    /\ seen[p] < Writing(ticket[p]) /\ seen[p] % 2 = 1
    /\ Goto(p, "try", "load")
    /\ UNCHANGED <<head, slots, dropped, published, locals>>

AwaitWriterOneMore(p) ==   \* Mutant: the limit is tested after the count.
    /\ ppc[p] = "try"
    /\ seen[p] < Writing(ticket[p]) /\ seen[p] % 2 = 1
    /\ \/ spins[p] > MaxSpins /\ Drop(p)
       \/ /\ spins[p] <= MaxSpins
          /\ Goto(p, "try", "load")
          /\ spins' = [spins EXCEPT ![p] = @ + 1]
          /\ UNCHANGED <<dropped, ticket, event, seen>>
    /\ UNCHANGED <<head, slots, published>>

(* An older writer is in the slot: wait for it, up to MaxSpins times.      *)
AwaitWriter(p) ==
    /\ ppc[p] = "try"
    /\ seen[p] < Writing(ticket[p]) /\ seen[p] % 2 = 1
    /\ \/ spins[p] >= MaxSpins /\ Drop(p)
       \/ /\ spins[p] < MaxSpins
          /\ Goto(p, "try", "load")
          /\ spins' = [spins EXCEPT ![p] = @ + 1]
          /\ UNCHANGED <<dropped, ticket, event, seen>>
    /\ UNCHANGED <<head, slots, published>>

ClaimSlotBlind(p) ==   \* Mutant: a store instead of the compare-exchange.
    /\ ppc[p] = "try"
    /\ seen[p] < Writing(ticket[p]) /\ seen[p] % 2 = 0
    /\ seq' = [seq EXCEPT ![SlotOf(ticket[p])] = Writing(ticket[p])]
    /\ Goto(p, "try", "copy")
    /\ UNCHANGED <<head, rec, dropped, published, locals>>

ClaimSlotUnmarked(p) ==   \* Mutant: the slot is marked ready, then written.
    LET s == SlotOf(ticket[p]) IN
    /\ ppc[p] = "try"
    /\ seen[p] < Writing(ticket[p]) /\ seen[p] % 2 = 0
    /\ seq[s] = seen[p]
    /\ seq' = [seq EXCEPT ![s] = Ready(ticket[p])]
    /\ Goto(p, "try", "copy")
    /\ UNCHANGED <<head, rec, dropped, published, locals>>

(* slot.sequence.compare_exchange_weak(seq_val, writing_seq).  A failure,  *)
(* spurious ones apart, leaves the current value in seq_val.               *)
ClaimSlot(p) ==
    LET s == SlotOf(ticket[p]) IN
    /\ ppc[p] = "try"
    /\ seen[p] < Writing(ticket[p]) /\ seen[p] % 2 = 0
    /\ \/ /\ seq[s] = seen[p]
          /\ seq' = [seq EXCEPT ![s] = Writing(ticket[p])]
          /\ Goto(p, "try", "copy")
          /\ UNCHANGED seen
       \/ /\ seq[s] # seen[p]
          /\ seen' = [seen EXCEPT ![p] = seq[s]]
          /\ UNCHANGED <<seq, ppc>>
    /\ UNCHANGED <<head, rec, dropped, published, ticket, event, spins>>

(* The record is copied: torn until the last word is in.                   *)
BeginCopy(p) ==
    /\ Goto(p, "copy", "publish")
    /\ rec' = [rec EXCEPT ![SlotOf(ticket[p])] = Torn(event[p])]
    /\ UNCHANGED <<head, seq, dropped, published, locals>>

(* The last word of the copy and slot.sequence.store(ready_seq).           *)
Publish(p) ==
    /\ ppc[p] = "publish"
    /\ rec' = [rec EXCEPT ![SlotOf(ticket[p])] = event[p]]
    /\ seq' = [seq EXCEPT ![SlotOf(ticket[p])] = Ready(ticket[p])]
    /\ published' = published \cup {event[p]}
    /\ Return(p)
    /\ UNCHANGED <<head, dropped>>

Push(p) ==
    \/ LapCheck(p) \/ LoadSeq(p) \/ Overtaken(p) \/ AwaitWriter(p)
    \/ ClaimSlot(p) \/ BeginCopy(p) \/ Publish(p)

(* What the producers do to the ring, whatever the reader does.            *)
RingNext == \E p \in Producers : Push(p) \/ \E ts \in Stamps : ClaimTicket(p, ts)

-----------------------------------------------------------------------------

PushPcs == {"idle", "lapCheck", "load", "try", "copy", "publish"}
Writers == {"copy", "publish"}
Busy    == {p \in Producers : ppc[p] # "idle"}

RingTypeOK ==
    /\ head \in 0..MaxTickets
    /\ seq \in [Slots -> Nat] /\ rec \in [Slots -> Records]
    /\ dropped \in Nat /\ published \subseteq Records
    /\ ppc \in [Producers -> PushPcs]
    /\ ticket \in [Producers -> Nat] /\ event \in [Producers -> Records]
    /\ seen \in [Producers -> Nat] /\ spins \in [Producers -> 0..MaxSpins]

(* A slot whose sequence says "published" holds that ticket's record,      *)
(* whole: no other producer is copying into it.                            *)
PublishedIntact ==
    \A s \in Slots : seq[s] > 0 /\ seq[s] % 2 = 0 =>
        rec[s] \in published /\ Ready(rec[s].id - 1) = seq[s]

(* Two producers never copy into the same slot.                            *)
OneWriterPerSlot ==
    \A p, q \in Producers :
        ppc[p] \in Writers /\ ppc[q] \in Writers /\ SlotOf(ticket[p]) = SlotOf(ticket[q]) => p = q

(* A slot never goes back to an older generation, whatever stale producer  *)
(* wakes up.                                                               *)
SlotsOnlyAdvance == [][\A s \in Slots : seq'[s] >= seq[s]]_pushState

(* Every ticket drawn was published, dropped and counted, or is under way. *)
PushAccounting == head = Cardinality(published) + dropped + Cardinality(Busy)

=============================================================================
