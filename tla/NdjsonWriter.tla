----------------------------- MODULE NdjsonWriter -----------------------------
(***************************************************************************)
(* The event stream writer of src/ndjson_writer.cpp: a bounded queue that  *)
(* several threads push records into without a lock, one worker that       *)
(* takes them out and writes a line for each, and the rotation of the      *)
(* files it writes to.  A line has length 1.  What the worker does with a  *)
(* record after it has given the cell back touches nothing another thread  *)
(* sees, so it is part of that step.  Pausing the worker for a test and    *)
(* the intervals it sleeps for are left out.                               *)
(***************************************************************************)
EXTENDS Integers, FiniteSets, SequencesExt

CONSTANTS
    Threads,         \* the threads that push
    RING_CAPACITY,   \* a power of two
    NoRecord         \* what a cell holds before its first record

ASSUME WriterAssumption ==
    /\ IsFiniteSet(Threads)
    /\ RING_CAPACITY \in Nat /\ RING_CAPACITY > 1

VARIABLES
    limits,          \* max_bytes_ in lines, and max_files_
    cells,           \* ring_: a sequence number and a record each
    enqueue_pos, dequeue_pos,
    stopped, writing,   \* stopped_ and running_
    pushing,         \* per thread: next step of push, pos, record
    worker,          \* next step of worker_loop, and pos
    opened,          \* file_ is not null
    files,           \* the lines of base_path_ (0) and of its rotations (1, ...)
    dropped_records,
    tickets,         \* history: the records in the order they drew positions
    written,         \* history: the records written, in order
    lost,            \* history: the records a push or the worker gave up
    refused,         \* history: the records pushed after the stop
    mishaps          \* history: file operations that failed, at most limits.mishaps

queue      == <<cells, enqueue_pos, dequeue_pos>>
output     == <<opened, files, written, mishaps>>
writerVars == <<limits, queue, stopped, writing, pushing, worker, output, dropped_records,
                tickets, lost, refused>>

NotPushing == [step |-> "idle", pos |-> 0, rec |-> NoRecord]

WriterInit(lim) ==
    /\ limits = lim
    /\ cells = [i \in 0 .. RING_CAPACITY - 1 |-> [sequence |-> i, record |-> NoRecord]]
    /\ enqueue_pos = 0 /\ dequeue_pos = 0
    /\ stopped = FALSE /\ writing = TRUE
    /\ pushing = [t \in Threads |-> NotPushing]
    /\ worker = [step |-> "take", pos |-> 0]
    /\ opened = TRUE /\ files = [i \in {0} |-> <<>>] /\ dropped_records = 0
    /\ tickets = <<>> /\ written = <<>> /\ lost = {} /\ refused = {} /\ mishaps = 0

Cell(pos) == cells[pos % RING_CAPACITY]
Lose(rec) == dropped_records' = dropped_records + 1 /\ lost' = lost \cup {rec}

-----------------------------------------------------------------------------
(* push(record), called by thread t.                                       *)

Idle(t) == pushing[t].step = "idle"

(* A stopped writer takes nothing; else push aims at the next position.    *)
PushStart(t, rec) ==
    /\ Idle(t)
    /\ IF stopped
       THEN refused' = refused \cup {rec} /\ UNCHANGED pushing
       ELSE /\ pushing' = [pushing EXCEPT ![t] = [step |-> "cell", pos |-> enqueue_pos, rec |-> rec]]
            /\ UNCHANGED refused
    /\ UNCHANGED <<limits, queue, stopped, writing, worker, output, dropped_records, tickets, lost>>

(* The cell is free for pos, or still holds a record of the lap before, or *)
(* another thread has drawn pos.                                           *)
PushCell(t) ==
    LET pos == pushing[t].pos  rec == pushing[t].rec IN
    /\ pushing[t].step = "cell"
    /\ \/ /\ Cell(pos).sequence = pos /\ enqueue_pos = pos
          /\ enqueue_pos' = pos + 1 /\ tickets' = Append(tickets, rec)
          /\ pushing' = [pushing EXCEPT ![t].step = "publish"]
          /\ UNCHANGED <<dropped_records, lost>>
       \/ /\ Cell(pos).sequence < pos
          /\ Lose(rec) /\ pushing' = [pushing EXCEPT ![t] = NotPushing]
          /\ UNCHANGED <<enqueue_pos, tickets>>
       \/ /\ Cell(pos).sequence >= pos /\ enqueue_pos # pos
          /\ pushing' = [pushing EXCEPT ![t].pos = enqueue_pos]
          /\ UNCHANGED <<enqueue_pos, tickets, dropped_records, lost>>
    /\ UNCHANGED <<limits, cells, dequeue_pos, stopped, writing, worker, output, refused>>

PushPublish(t) ==
    LET pos == pushing[t].pos IN
    /\ pushing[t].step = "publish"
    /\ cells' = [cells EXCEPT ![pos % RING_CAPACITY] =
                   [sequence |-> pos + 1, record |-> pushing[t].rec]]
    /\ pushing' = [pushing EXCEPT ![t] = NotPushing]
    /\ UNCHANGED <<limits, enqueue_pos, dequeue_pos, stopped, writing, worker, output,
                   dropped_records, tickets, lost, refused>>

-----------------------------------------------------------------------------
(* rotate_files.  stuck are the files whose removal or renaming fails; a   *)
(* rename replaces what is at its destination.  Nothing is looked at that  *)
(* failed, so a stuck base_path_ is truncated when it is opened again.     *)

Oldest == limits.files - 1

Rotated(f, stuck) ==
    LET moved == {i \in DOMAIN f : i < Oldest /\ i \notin stuck}
        kept  == IF Oldest = 0 THEN DOMAIN f ELSE DOMAIN f \cap stuck
    IN  [i \in kept \cup {j + 1 : j \in moved} |-> IF i - 1 \in moved THEN f[i - 1] ELSE f[i]]

Reopened(f) == [i \in DOMAIN f \cup {0} |-> IF i = 0 THEN <<>> ELSE f[i]]

WriteLine(f, rec) ==
    /\ files' = [f EXCEPT ![0] = Append(@, rec)]
    /\ written' = Append(written, rec)
    /\ opened' = TRUE
    /\ UNCHANGED <<dropped_records, lost>>

Rotate(rec) ==
    \E stuck \in SUBSET DOMAIN files, reopens \in BOOLEAN :
      LET failures == Cardinality(stuck) + (IF reopens THEN 0 ELSE 1)
          f == Rotated(files, stuck)
      IN  /\ mishaps + failures <= limits.mishaps
          /\ mishaps' = mishaps + failures
          /\ \/ reopens /\ WriteLine(Reopened(f), rec)
             \/ ~reopens /\ Lose(rec) /\ files' = f /\ opened' = FALSE /\ UNCHANGED written

-----------------------------------------------------------------------------
(* worker_loop.                                                            *)

WorkerTake ==
    /\ worker.step = "take"
    /\ writing \/ enqueue_pos # dequeue_pos
    /\ Cell(dequeue_pos).sequence = dequeue_pos + 1
    /\ dequeue_pos' = dequeue_pos + 1
    /\ worker' = [step |-> "write", pos |-> dequeue_pos]
    /\ UNCHANGED <<limits, cells, enqueue_pos, stopped, writing, pushing, output, dropped_records,
                   tickets, lost, refused>>

(* Copy the record, free its cell for the next lap, and write its line.    *)
WorkerWrite ==
    LET pos == worker.pos  rec == Cell(pos).record IN
    /\ worker.step = "write"
    /\ cells' = [cells EXCEPT ![pos % RING_CAPACITY].sequence = pos + RING_CAPACITY]
    /\ worker' = [worker EXCEPT !.step = "take"]
    /\ \/ ~opened /\ Lose(rec) /\ UNCHANGED output
       \/ opened /\ Len(files[0]) < limits.bytes /\ WriteLine(files, rec) /\ UNCHANGED mishaps
       \/ opened /\ Len(files[0]) >= limits.bytes /\ Rotate(rec)
    /\ UNCHANGED <<limits, enqueue_pos, dequeue_pos, stopped, writing, pushing, tickets, refused>>

WorkerExit ==
    /\ worker.step = "take" /\ ~writing /\ enqueue_pos = dequeue_pos
    /\ worker' = [worker EXCEPT !.step = "exited"]
    /\ UNCHANGED <<limits, queue, stopped, writing, pushing, output, dropped_records, tickets,
                   lost, refused>>

-----------------------------------------------------------------------------
(* stop, by the one thread that calls it: ask, then join and close.        *)

StopAsked ==
    /\ ~stopped
    /\ stopped' = TRUE /\ writing' = FALSE
    /\ UNCHANGED <<limits, queue, pushing, worker, output, dropped_records, tickets, lost, refused>>

StopJoined ==
    /\ stopped /\ worker.step = "exited"
    /\ opened' = FALSE
    /\ UNCHANGED <<limits, queue, stopped, writing, pushing, worker, files, written, mishaps,
                   dropped_records, tickets, lost, refused>>

-----------------------------------------------------------------------------
Queued    == {tickets[i] : i \in dequeue_pos + 1 .. Len(tickets)}
Taken     == IF worker.step = "write" THEN {tickets[dequeue_pos]} ELSE {}
UnderWay  == {pushing[t].rec : t \in {u \in Threads : pushing[u].step = "cell"}}

(* A record that was offered is in one place only, and what is not in the  *)
(* files is counted.                                                       *)
AccountedOnce ==
    LET places == <<ToSet(written), lost, Queued, Taken, UnderWay, refused>> IN
    /\ \A i, j \in DOMAIN places : i # j => places[i] \cap places[j] = {}
    /\ Cardinality(ToSet(written)) = Len(written)
    /\ dropped_records = Cardinality(lost)

(* A push gives a record up only when the queue is full: the cell of the   *)
(* next position is free as long as fewer records than there are cells are *)
(* queued or held by the worker.                                           *)
RoomIsUsable ==
    LET held == enqueue_pos - dequeue_pos + (IF worker.step = "write" THEN 1 ELSE 0)
    IN  held < RING_CAPACITY => Cell(enqueue_pos).sequence = enqueue_pos

Before(s, a, b) == \E p, q \in DOMAIN s : p < q /\ s[p] = a /\ s[q] = b

(* Lines are whole and in the order of their positions.                    *)
WrittenInOrder ==
    /\ ToSet(written) \subseteq ToSet(tickets)
    /\ \A i, j \in DOMAIN written : i < j => Before(tickets, written[i], written[j])

(* Whatever fails, the files are within their limits and hold lines that   *)
(* were written, in their order, an older file the earlier ones.           *)
FilesInOrder ==
    /\ DOMAIN files \subseteq 0 .. Oldest
    /\ \A i \in DOMAIN files : Len(files[i]) <= limits.bytes /\ ToSet(files[i]) \subseteq ToSet(written)
    /\ \A i, j \in DOMAIN files : \A k \in DOMAIN files[i], l \in DOMAIN files[j] :
          i > j \/ (i = j /\ k < l) => Before(written, files[i][k], files[j][l])

(* The lines in the files up to i, when every rotated file is full.        *)
Held(i) == Len(files[0]) + i * limits.bytes

(* While no file operation has failed the files hold the last lines        *)
(* written, all of them but what a full set of rotations has pushed out.   *)
FilesHoldTheEnd ==
    mishaps = 0 =>
      /\ 0 \in DOMAIN files
      /\ DOMAIN files = {i \in 0 .. Oldest : i = 0 \/ Held(i - 1) < Len(written)}
      /\ \A i \in DOMAIN files : i > 0 => Len(files[i]) = limits.bytes
      /\ \A i \in DOMAIN files : Held(i) <= Len(written)
      /\ \A i \in DOMAIN files : \A k \in DOMAIN files[i] :
            files[i][k] = written[Len(written) - Held(i) + k]
=============================================================================
