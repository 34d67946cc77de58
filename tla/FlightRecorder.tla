---------------------------- MODULE FlightRecorder ----------------------------
(***************************************************************************)
(* FlightRecorder (src/flight_recorder.cpp): a ticket ring of ETW records  *)
(* and the snapshot that the reporting thread takes of it.  The snapshot   *)
(* walks the tickets backwards from head, reads each slot as a seqlock     *)
(* with bounded retries, keeps what lies in its time window and stops      *)
(* early once it has seen enough records older than the window.            *)
(***************************************************************************)
EXTENDS TicketRing, Sequences, SequencesExt

CONSTANTS
    Windows,         \* [from, to] pairs a snapshot may be asked for
    MaxSkew,         \* cross-session disorder of timestamps, max_skew_qpc
    MinOutOfWindow,  \* MIN_OUT_OF_WINDOW_SLOTS
    MaxOutOfWindow,  \* MAX_OUT_OF_WINDOW_SLOTS
    SlotRetries,     \* MAX_SLOT_SPINS of snapshot
    AllRetries,      \* GLOBAL_SNAPSHOT_RETRY_BUDGET
    MaxSnapshots,    \* bound: snapshots taken in a behaviour
    Live             \* producers that the scheduler is fair to

ASSUME RecorderAssumption ==
    /\ Windows \subseteq [from : Nat, to : Nat]
    /\ MaxSkew \in Nat /\ MinOutOfWindow \in Nat \ {0}
    /\ MaxOutOfWindow \in Nat /\ SlotRetries \in Nat /\ AllRetries \in Nat
    /\ MaxSnapshots \in Nat
    /\ Live \subseteq Producers

VARIABLES
    newest,     \* history: the newest timestamp pushed
    rpc,        \* the reader: next step
    window,     \* from_qpc and to_qpc
    pos,        \* seq, the ticket whose slot is read
    start,      \* start_seq
    s1,         \* seq1
    hand,       \* the record read, not yet verified
    outside,    \* out_of_window_count
    retries,    \* slot_spins
    spent,      \* global_retries
    out,        \* out_records
    lost,       \* local_dropped
    before,     \* history: what was published when the snapshot began
    cushioned,  \* history: the scan stopped at MaxOutOfWindow
    snapshots   \* history: snapshots begun

budgets == <<retries, spent>>
cursor  == <<rpc, pos, s1, hand, outside, budgets>>
request == <<window, start, before, snapshots>>
result  == <<out, lost, cushioned>>
reader  == <<cursor, request, result>>
vars    == <<pushState, newest, reader>>

NoWindow == [from |-> 0, to |-> 0]

Init ==
    /\ RingInit
    /\ newest = 0
    /\ rpc = "idle" /\ window = NoWindow /\ pos = 0 /\ start = 0 /\ s1 = 0
    /\ hand = NoRecord /\ outside = 0 /\ retries = 0 /\ spent = 0 /\ out = <<>> /\ lost = 0
    /\ before = {} /\ cushioned = FALSE /\ snapshots = 0

(* Two trace sessions feed the recorder: timestamps arrive out of order,   *)
(* but by no more than MaxSkew.                                            *)
PushEvent(p) ==
    /\ \E ts \in Stamps :
          /\ ts + MaxSkew >= newest
          /\ newest' = IF ts > newest THEN ts ELSE newest
          /\ ClaimTicket(p, ts)
    /\ UNCHANGED reader

-----------------------------------------------------------------------------
(* snapshot(from_qpc, to_qpc).                                             *)

Slot == SlotOf(pos)

RGoto(from, to) == rpc = from /\ rpc' = to

(* An inverted window yields an empty snapshot; else the scan covers the   *)
(* last Capacity tickets.                                                  *)
BeginSnapshot ==
    /\ snapshots < MaxSnapshots
    /\ snapshots' = snapshots + 1
    /\ window' \in Windows
    /\ RGoto("idle", IF window'.from > window'.to THEN "idle" ELSE "next")
    /\ pos' = head
    /\ start' = IF head > Capacity THEN head - Capacity ELSE 0
    /\ before' = published
    /\ out' = <<>> /\ lost' = 0 /\ outside' = 0 /\ spent' = 0 /\ cushioned' = FALSE
    /\ UNCHANGED <<pushState, newest, s1, hand, retries>>

NextSlot ==
    /\ pos > start
    /\ RGoto("next", "seq1")
    /\ pos' = pos - 1
    /\ UNCHANGED <<pushState, newest, request, result, s1, hand, outside, budgets>>

(* Done with this slot.                                                    *)
LeaveSlot == rpc' = "next" /\ s1' = 0 /\ hand' = NoRecord /\ retries' = 0

(* A writer is in the slot: try again, or give the slot up.                *)
CanRetry == retries < SlotRetries /\ spent < AllRetries

Retry == rpc' = "seq1" /\ s1' = 0 /\ hand' = NoRecord /\ retries' = retries + 1 /\ spent' = spent + 1

(* A ticket not yet published, or whose slot stays busy, is skipped; one   *)
(* lapped by a newer generation is counted as lost.                        *)
ReadSeq1 ==
    /\ rpc = "seq1"
    /\ \/ seq[Slot] % 2 = 1 /\ CanRetry /\ Retry /\ UNCHANGED lost
       \/ seq[Slot] % 2 = 1 /\ ~CanRetry /\ LeaveSlot /\ UNCHANGED <<spent, lost>>
       \/ seq[Slot] % 2 = 0 /\ seq[Slot] < Ready(pos) /\ LeaveSlot /\ UNCHANGED <<spent, lost>>
       \/ seq[Slot] % 2 = 0 /\ seq[Slot] > Ready(pos) /\ LeaveSlot /\ lost' = lost + 1 /\ UNCHANGED spent
       \/ /\ seq[Slot] = Ready(pos) /\ s1' = seq[Slot] /\ RGoto("seq1", "stamp")
          /\ UNCHANGED <<hand, budgets, lost>>
    /\ UNCHANGED <<pushState, newest, request, pos, outside, out, cushioned>>

(* The timestamp is read alone first and verified by a second look at the  *)
(* sequence.                                                               *)
ReadStamp ==
    /\ RGoto("stamp", "seq2")
    /\ hand' = rec[Slot]
    /\ UNCHANGED <<pushState, newest, request, result, pos, s1, outside, budgets>>

TriageUnskewed(ts) ==   \* Mutant: the scan stops at the first older record.
    \/ ts > window.to /\ LeaveSlot /\ UNCHANGED <<outside, pos, cushioned>>
    \/ /\ ts >= window.from /\ ts <= window.to
       /\ rpc' = "copy"
       /\ UNCHANGED <<outside, pos, cushioned, s1, hand, retries>>
    \/ /\ ts < window.from
       /\ LeaveSlot
       /\ pos' = start
       /\ UNCHANGED <<outside, cushioned>>

(* Then, newer than the window (or never stamped): skip.  In the window:   *)
(* copy.  Older: once MinOutOfWindow such records are behind and one lies  *)
(* more than the possible skew before the window, nothing older can be in  *)
(* it; after MaxOutOfWindow the scan stops whatever the clock says.        *)
Triage(ts) ==
    LET far  == outside + 1 >= MinOutOfWindow /\ MaxSkew > 0 /\ window.from - ts > MaxSkew
        many == outside + 1 >= MaxOutOfWindow
    IN  \/ /\ ts > window.to \/ ts = 0
           /\ LeaveSlot
           /\ UNCHANGED <<outside, pos, cushioned>>
        \/ /\ ts >= window.from /\ ts <= window.to
           /\ rpc' = "copy"
           /\ UNCHANGED <<outside, pos, cushioned, s1, hand, retries>>
        \/ /\ ts > 0 /\ ts < window.from
           /\ LeaveSlot
           /\ outside' = outside + 1
           /\ pos' = IF far \/ many THEN start ELSE pos
           /\ cushioned' = (many /\ ~far)

VerifyStamp ==
    /\ rpc = "seq2"
    /\ \/ seq[Slot] # s1 /\ CanRetry /\ Retry /\ UNCHANGED <<outside, pos, cushioned>>
       \/ seq[Slot] # s1 /\ ~CanRetry /\ LeaveSlot /\ UNCHANGED <<spent, outside, pos, cushioned>>
       \/ seq[Slot] = s1 /\ Triage(hand.ts) /\ UNCHANGED spent
    /\ UNCHANGED <<pushState, newest, request, out, lost>>

ReadRecord ==
    /\ RGoto("copy", "seq3")
    /\ hand' = rec[Slot]
    /\ UNCHANGED <<pushState, newest, request, result, pos, s1, outside, budgets>>

VerifyRecordTrusting ==   \* Mutant: the sequence is not read again.
    /\ rpc = "seq3"
    /\ LeaveSlot
    /\ out' = Append(out, hand) /\ outside' = 0
    /\ UNCHANGED <<pushState, newest, request, pos, cushioned, spent, lost>>

(* A copy torn by a writer is rolled back, and lost once the retries are   *)
(* used up.                                                                *)
VerifyRecord ==
    /\ rpc = "seq3"
    /\ \/ seq[Slot] # s1 /\ CanRetry /\ Retry /\ UNCHANGED <<lost, out, outside>>
       \/ seq[Slot] # s1 /\ ~CanRetry /\ LeaveSlot /\ lost' = lost + 1 /\ UNCHANGED <<spent, out, outside>>
       \/ /\ seq[Slot] = s1 /\ LeaveSlot
          /\ out' = Append(out, hand) /\ outside' = 0
          /\ UNCHANGED <<spent, lost>>
    /\ UNCHANGED <<pushState, newest, request, pos, cushioned>>

(* std::stable_sort by timestamp: equal timestamps keep their order.  Each *)
(* record goes where as many are as it has to follow.                      *)
Precedes(s, i, j) == s[i].ts < s[j].ts \/ (s[i].ts = s[j].ts /\ i < j)

Place(s, j) == 1 + Cardinality({i \in DOMAIN s : Precedes(s, i, j)})

StableSort(s) == [k \in DOMAIN s |-> s[CHOOSE j \in DOMAIN s : Place(s, j) = k]]

EndSnapshotUnreversed ==   \* Mutant: the scan's order is not turned round.
    /\ pos <= start
    /\ RGoto("next", "idle")
    /\ out' = StableSort(out)
    /\ pos' = 0 /\ outside' = 0 /\ spent' = 0
    /\ UNCHANGED <<pushState, newest, request, s1, hand, retries, lost, cushioned>>

EndSnapshot ==
    /\ pos <= start
    /\ RGoto("next", "idle")
    /\ out' = StableSort(Reverse(out))
    /\ pos' = 0 /\ outside' = 0 /\ spent' = 0
    /\ UNCHANGED <<pushState, newest, request, s1, hand, retries, lost, cushioned>>

Snapshot ==
    \/ NextSlot \/ ReadSeq1 \/ ReadStamp \/ VerifyStamp
    \/ ReadRecord \/ VerifyRecord \/ EndSnapshot

Next ==
    \/ \E p \in Producers : PushEvent(p) \/ (Push(p) /\ UNCHANGED <<newest, reader>>)
    \/ BeginSnapshot
    \/ Snapshot

Spec == Init /\ [][Next]_vars

(* Fair to the reader and to the producers in Live alone: the others may   *)
(* be preempted for ever, in the middle of a write too.                    *)
FairSpec ==
    /\ Spec
    /\ \A p \in Live : WF_vars(Push(p) /\ UNCHANGED <<newest, reader>>)
    /\ WF_vars(Snapshot)

-----------------------------------------------------------------------------
(* Properties.                                                             *)

TypeOK ==
    /\ RingTypeOK
    /\ newest \in Nat /\ lost \in Nat /\ s1 \in Nat /\ pos \in Nat /\ start \in Nat
    /\ rpc \in {"idle", "next", "seq1", "stamp", "seq2", "copy", "seq3"}
    /\ window \in Windows \cup {NoWindow}
    /\ hand \in Records /\ out \in Seq(Records) /\ before \subseteq Records
    /\ outside \in Nat /\ retries \in 0..SlotRetries /\ spent \in 0..AllRetries /\ cushioned \in BOOLEAN

InWindow(r) == window.from <= r.ts /\ r.ts <= window.to

(* A snapshot holds records that were published, whole, and lie in the     *)
(* window it was asked for, however the producers lap the reader.          *)
SnapshotIntact ==
    \A i \in DOMAIN out : out[i] \in published /\ InWindow(out[i])

(* A finished snapshot is chronological, records with equal timestamps are *)
(* in the order they were pushed, and none is there twice.                 *)
SnapshotOrdered ==
    rpc = "idle" => \A i, j \in DOMAIN out : i < j =>
        out[i].ts < out[j].ts \/ (out[i].ts = out[j].ts /\ out[i].id < out[j].id)

(* A record in the window, published before the snapshot began, is in the  *)
(* snapshot unless a newer ticket took its slot (or MaxOutOfWindow older   *)
(* ones stopped the scan): skew never makes the scan stop short.           *)
SnapshotComplete ==
    rpc = "idle" /\ ~cushioned =>
        \A r \in before : InWindow(r) /\ r.id > start =>
            r \in ToSet(out) \/ seq[SlotOf(r.id - 1)] > Ready(r.id - 1)

(* Nobody waits for anybody: a push by a producer that runs, and a         *)
(* snapshot, end even if another producer never finishes its write.        *)
CallsReturn ==
    /\ \A p \in Live : ppc[p] # "idle" ~> ppc[p] = "idle"
    /\ rpc # "idle" ~> rpc = "idle"

=============================================================================
