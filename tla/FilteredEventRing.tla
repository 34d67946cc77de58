--------------------------- MODULE FilteredEventRing ---------------------------
(***************************************************************************)
(* FilteredEventRing (include/stuttometer/filtered_event_ring.hpp): the    *)
(* ring that carries the triggers held back by the severity gate or the    *)
(* vblank floor from the ETW threads to the one thread that writes the     *)
(* event stream.  Producers push as in TicketRing, except that an event    *)
(* dropped by its producer is counted nowhere: dropped is a history        *)
(* variable here.  pop follows the tickets in order from read_pos.         *)
(***************************************************************************)
EXTENDS TicketRing, Sequences, SequencesExt

CONSTANT MaxReadSpins   \* MAX_READ_SPINS of pop

ASSUME ReaderAssumption == MaxReadSpins \in Nat

VARIABLES
    read_pos,   \* the next ticket to pop
    dropped_filtered,
    cpc,        \* the consumer: next step of pop
    seq1, tmp,  \* locals of pop: the sequence, and the copy not yet verified
    reads,      \* spins
    popped,     \* history: the events pop returned, in order
    skipped     \* history: the tickets pop counted as dropped

popLocals == <<seq1, tmp, reads>>
consumer  == <<read_pos, dropped_filtered, cpc, popLocals, popped, skipped>>
vars      == <<pushState, consumer>>

Init ==
    /\ RingInit
    /\ read_pos = 0 /\ dropped_filtered = 0 /\ cpc = "idle"
    /\ seq1 = 0 /\ tmp = NoRecord /\ reads = 0
    /\ popped = <<>> /\ skipped = {}

PushFiltered(p) == \/ Push(p)
                   \/ \E ts \in Stamps : ClaimTicket(p, ts)

-----------------------------------------------------------------------------
(* pop(out).                                                               *)

Cell == SlotOf(read_pos)

CGoto(from, to) == cpc = from /\ cpc' = to

(* The head of the loop: nothing was pushed beyond read_pos, or look at    *)
(* its cell.  A pop that returns false leaves nothing behind.              *)
Pop ==
    /\ \/ read_pos >= head /\ cpc \in {"idle", "again"} /\ cpc' = "idle"
       \/ read_pos < head /\ cpc \in {"idle", "again"} /\ cpc' = "seq1"
    /\ UNCHANGED <<pushState, read_pos, dropped_filtered, popLocals, popped, skipped>>

SkipUncounted ==   \* Mutant: the ticket is given up in silence.
    /\ read_pos' = read_pos + 1
    /\ skipped' = skipped \cup {read_pos}
    /\ cpc' = "again" /\ seq1' = 0 /\ tmp' = NoRecord
    /\ UNCHANGED <<pushState, dropped_filtered, reads, popped>>

(* Give the ticket up and go on with the next one.                         *)
Skip ==
    /\ read_pos' = read_pos + 1
    /\ dropped_filtered' = dropped_filtered + 1
    /\ skipped' = skipped \cup {read_pos}
    /\ cpc' = "again" /\ seq1' = 0 /\ tmp' = NoRecord
    /\ UNCHANGED <<pushState, reads, popped>>

LoadSeq1 ==
    /\ cpc = "seq1"
    /\ \/ /\ seq[Cell] = Writing(read_pos) /\ cpc' = "written" /\ UNCHANGED seq1
       \/ /\ seq[Cell] < Writing(read_pos) /\ cpc' = "drawn" /\ UNCHANGED seq1
       \/ /\ seq[Cell] = Ready(read_pos) /\ cpc' = "copy" /\ seq1' = seq[Cell]
    /\ UNCHANGED <<pushState, read_pos, dropped_filtered, tmp, reads, popped, skipped>>

SkipLappedWaiting ==   \* Mutant: a lapped cell is taken for an unwritten one.
    /\ seq[Cell] > Ready(read_pos)
    /\ CGoto("seq1", "idle")
    /\ UNCHANGED <<pushState, read_pos, dropped_filtered, popLocals, popped, skipped>>

(* A later generation has the cell: the event is gone.                     *)
SkipLapped == cpc = "seq1" /\ seq[Cell] > Ready(read_pos) /\ Skip

Unpublished ==
    \/ cpc = "written" /\ seq[Cell] = Writing(read_pos)
    \/ cpc = "drawn" /\ seq[Cell] < Writing(read_pos)

AwaitEventSkipping ==   \* Mutant: the ticket that takes too long is skipped.
    /\ cpc \in {"written", "drawn"}
    /\ \/ reads >= MaxReadSpins /\ Skip
       \/ /\ reads < MaxReadSpins
          /\ IF Unpublished THEN reads' = reads + 1 /\ UNCHANGED cpc
                            ELSE cpc' = "again" /\ reads' = 0
          /\ UNCHANGED <<pushState, read_pos, dropped_filtered, seq1, tmp, popped, skipped>>

(* The ticket is drawn but its event not yet written, or half-written:     *)
(* spin, and return false if that takes too long.                          *)
AwaitEvent ==
    /\ cpc \in {"written", "drawn"}
    /\ \/ /\ reads >= MaxReadSpins /\ cpc' = "idle" /\ reads' = 0
       \/ /\ reads < MaxReadSpins /\ Unpublished
          /\ reads' = reads + 1 /\ UNCHANGED cpc
       \/ /\ reads < MaxReadSpins /\ ~Unpublished
          /\ cpc' = "again" /\ reads' = 0
    /\ UNCHANGED <<pushState, read_pos, dropped_filtered, seq1, tmp, popped, skipped>>

CopyEvent ==
    /\ CGoto("copy", "seq2")
    /\ tmp' = rec[Cell]
    /\ UNCHANGED <<pushState, read_pos, dropped_filtered, seq1, reads, popped, skipped>>

(* The cell was taken while it was read: the copy may be torn.             *)
SkipTorn == cpc = "seq2" /\ seq[Cell] # seq1 /\ Skip

ReturnUnverified ==   \* Mutant: the sequence is not read again.
    /\ CGoto("seq2", "idle")
    /\ popped' = Append(popped, tmp)
    /\ read_pos' = read_pos + 1
    /\ seq1' = 0 /\ tmp' = NoRecord
    /\ UNCHANGED <<pushState, dropped_filtered, reads, skipped>>

ReturnEvent ==
    /\ seq[Cell] = seq1
    /\ CGoto("seq2", "idle")
    /\ popped' = Append(popped, tmp)
    /\ read_pos' = read_pos + 1
    /\ seq1' = 0 /\ tmp' = NoRecord
    /\ UNCHANGED <<pushState, dropped_filtered, reads, skipped>>

PopStep ==
    \/ Pop \/ LoadSeq1 \/ SkipLapped \/ AwaitEvent
    \/ CopyEvent \/ SkipTorn \/ ReturnEvent

Next ==
    \/ \E p \in Producers : PushFiltered(p) /\ UNCHANGED consumer
    \/ PopStep

Spec == Init /\ [][Next]_vars

(* Every thread is scheduled, a push once begun goes on, and the loop of   *)
(* main.cpp pops for ever.  Nothing forces an event to be pushed.          *)
FairSpec ==
    /\ Spec
    /\ \A p \in Producers : WF_vars(Push(p) /\ UNCHANGED consumer)
    /\ WF_vars(PopStep)

-----------------------------------------------------------------------------
(* Properties.                                                             *)

TypeOK ==
    /\ RingTypeOK
    /\ read_pos \in Nat /\ dropped_filtered \in Nat /\ seq1 \in Nat
    /\ cpc \in {"idle", "again", "seq1", "written", "drawn", "copy", "seq2"}
    /\ tmp \in Records /\ reads \in 0..MaxReadSpins
    /\ popped \in Seq(Records) /\ skipped \subseteq Nat

(* Every event popped was published, whole, however the producers lap the  *)
(* consumer.                                                               *)
PoppedIntact == \A i \in DOMAIN popped : popped[i] \in published

(* Events come out in ticket order, none twice, and every ticket passed    *)
(* was either returned or counted, once.                                   *)
PoppedInOrder ==
    /\ \A i, j \in DOMAIN popped : i < j => popped[i].id < popped[j].id
    /\ read_pos <= head
    /\ read_pos = Len(popped) + dropped_filtered

(* pop gives up a ticket only when a newer generation has its cell, never  *)
(* because it is slow to be written.                                       *)
SkippedOnlyLapped == \A t \in skipped : seq[SlotOf(t)] > Ready(t)

(* The producer of ticket t has left without publishing it, and nobody has *)
(* drawn the next ticket of its cell and written there.                    *)
Abandoned(t) ==
    /\ t < head /\ seq[SlotOf(t)] < Writing(t)
    /\ \A p \in Busy : ticket[p] # t

(* Every ticket drawn is in the end returned or counted, or pop stands at  *)
(* an abandoned ticket: there it waits until the ring has gone round.  The *)
(* last drain of tests/test_report_filtering.cpp:175 has no such exception *)
(* (see the README's findings).                                            *)
TicketsResolved ==
    \A t \in 0..(MaxTickets - 1) : head > t ~> read_pos > t \/ Abandoned(read_pos)

=============================================================================
