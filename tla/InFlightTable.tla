----------------------------- MODULE InFlightTable -----------------------------
(***************************************************************************)
(* FixedInFlightTable (include/stuttometer/fixed_table.hpp): the lock-free *)
(* open-addressing hash table that pairs start and end events.  A slot is  *)
(* EMPTY until its first use, WRITING while one thread owns it, VALID, or  *)
(* a TOMBSTONE.  A thread that erases, updates or evicts takes a VALID     *)
(* slot by compare-exchange and checks afterwards what it got; lookup      *)
(* reads the slot as a seqlock.                                            *)
(*                                                                         *)
(* Each action is one atomic operation that others can observe.  A wait    *)
(* for a WRITING slot is the thread taking its time before its next step;  *)
(* that it ends after MAX_SLOT_SPINS reads is the thread passing the slot. *)
(***************************************************************************)
EXTENDS Naturals, FiniteSets

CONSTANTS
    Threads, Keys,
    NoKey,          \* key 0, which no caller uses
    Capacity,       \* slots, a power of two
    Home,           \* hash_key(key) & MASK
    MaxProbes,      \* MAX_PROBES
    InsertRetries,  \* MAX_INSERT_RETRIES of insert and upsert
    FindRetries,    \* MAX_RETRIES of update, find_and_erase and lookup
    Calls,          \* the calls threads make: by, op and key
    Evictors,       \* threads that call evict_stale
    MaxAge,         \* max_age_qpc, in calls
    MaxCalls,       \* bound: calls in a behaviour
    Live            \* threads that the scheduler is fair to

Slots      == 0..(Capacity - 1)
Storing    == {"insert", "upsert", "update"}
Operations == Storing \cup {"erase", "lookup"}

ASSUME TableAssumption ==
    /\ Capacity \in Nat \ {0} /\ \E k \in 0..Capacity : Capacity = 2^k
    /\ NoKey \notin Keys /\ Home \in [Keys -> Slots]
    /\ MaxProbes \in Nat \ {0}
    /\ InsertRetries \in Nat \ {0} /\ FindRetries \in Nat \ {0}
    /\ Calls \subseteq [by : Threads, op : Operations, key : Keys]
    /\ Evictors \subseteq Threads /\ Live \subseteq Threads
    /\ MaxCalls \in Nat /\ MaxAge \in Nat

VARIABLES
    sequence, key, state, value,   \* per slot
    insertion_failures, unpaired_evictions,
    pc, me,         \* per thread: next step and locals
    calls,          \* history: calls made; a call's number names the value it stores
    taken, takes    \* history: values erased or evicted, and how often one was

table    == <<sequence, key, state, value>>
counters == <<insertion_failures, unpaired_evictions>>
history  == <<calls, taken, takes>>
vars     == <<table, counters, pc, me, history>>

Values  == [key : Keys, id : 1..MaxCalls]
NoValue == [key |-> NoKey, id |-> 0]   \* zeroed, or torn by a writer
None    == Capacity                    \* first_tombstone_idx = -1

(* op, want and mine are the call and the value it stores; probe, retry,   *)
(* saw (saw_writing) and tomb (first_tombstone_idx) the search; cell the   *)
(* slot owned; s1 and got a seqlock read; cut and count belong to eviction *)
(* (values up to cut are too old); there says, as history, that the key    *)
(* has been in the table since the call began.                             *)
Fresh == [op |-> "none", want |-> NoKey, mine |-> 0, probe |-> 0, retry |-> 0, saw |-> FALSE,
          tomb |-> None, cell |-> None, s1 |-> 0, got |-> NoValue, cut |-> 0, count |-> 0,
          there |-> FALSE]

Init ==
    /\ sequence = [s \in Slots |-> 0] /\ key = [s \in Slots |-> NoKey]
    /\ state = [s \in Slots |-> "EMPTY"] /\ value = [s \in Slots |-> NoValue]
    /\ insertion_failures = 0 /\ unpaired_evictions = 0
    /\ pc = [t \in Threads |-> "idle"] /\ me = [t \in Threads |-> Fresh]
    /\ calls = 0 /\ taken = {} /\ takes = 0

Placing(t)  == me[t].op \in {"insert", "upsert"}
Evicting(t) == me[t].op = "evict"
Retries(t)  == IF Placing(t) THEN InsertRetries ELSE FindRetries

(* The slot under the probe, or under the scan of evict_stale.             *)
Here(t) == IF Evicting(t) THEN me[t].probe ELSE (Home[me[t].want] + me[t].probe) % Capacity

Goto(t, from, to) == pc[t] = from /\ pc' = [pc EXCEPT ![t] = to]

Holds(k) == \E s \in Slots : state[s] = "VALID" /\ key[s] = k

(* A call begins.  (Key 0 is refused before the table is touched.)         *)
Begin(c) ==
    /\ calls < MaxCalls
    /\ Goto(c.by, "idle", "load")
    /\ me' = [me EXCEPT ![c.by] = [Fresh EXCEPT !.op = c.op, !.want = c.key, !.mine = calls + 1,
                                                !.there = Holds(c.key)]]
    /\ calls' = calls + 1
    /\ UNCHANGED <<table, counters, taken, takes>>

(* A value is too old if MaxAge further calls had begun before the scan.   *)
BeginEvict(t) ==
    /\ calls < MaxCalls
    /\ Goto(t, "idle", "scan")
    /\ me' = [me EXCEPT ![t] = [Fresh EXCEPT !.op = "evict",
                                             !.cut = IF calls > MaxAge THEN calls - MaxAge ELSE 0]]
    /\ calls' = calls + 1
    /\ UNCHANGED <<table, counters, taken, takes>>

(* find_and_erase and lookup return what they found, and a failed call     *)
(* returns false; a store returns with its release.                        *)
Return(t) ==
    /\ pc[t] \in {"found", "missed"}
    /\ pc' = [pc EXCEPT ![t] = "idle"]
    /\ me' = [me EXCEPT ![t] = Fresh]
    /\ UNCHANGED <<table, counters, history>>

-----------------------------------------------------------------------------
(* Probing.                                                                *)

NextProbe(t) ==
    /\ pc' = [pc EXCEPT ![t] = IF Evicting(t) THEN "scan" ELSE "load"]
    /\ me' = [me EXCEPT ![t].probe = @ + 1, ![t].s1 = 0, ![t].got = NoValue, ![t].cell = None]

(* The slot changed under the thread: a probe looks at it again, the scan  *)
(* of evict_stale leaves it for next time.                                 *)
Reconsider(t) ==
    IF Evicting(t) THEN NextProbe(t)
    ELSE /\ pc' = [pc EXCEPT ![t] = "load"]
         /\ me' = [me EXCEPT ![t].s1 = 0, ![t].got = NoValue]

AgainOnceMore(t) ==   \* Mutant: the limit is tested after the count.
    \/ /\ me[t].retry < Retries(t)
       /\ pc' = [pc EXCEPT ![t] = "load"]
       /\ me' = [me EXCEPT ![t].retry = @ + 1, ![t].probe = 0, ![t].saw = FALSE, ![t].tomb = None]
       /\ UNCHANGED insertion_failures
    \/ /\ me[t].retry >= Retries(t)
       /\ pc' = [pc EXCEPT ![t] = "missed"]
       /\ insertion_failures' = IF Placing(t) THEN insertion_failures + 1 ELSE insertion_failures
       /\ UNCHANGED me

(* Probe again from the start, or fail.                                    *)
Again(t) ==
    \/ /\ me[t].retry + 1 < Retries(t)
       /\ pc' = [pc EXCEPT ![t] = "load"]
       /\ me' = [me EXCEPT ![t].retry = @ + 1, ![t].probe = 0, ![t].saw = FALSE, ![t].tomb = None]
       /\ UNCHANGED insertion_failures
    \/ /\ me[t].retry + 1 >= Retries(t)
       /\ pc' = [pc EXCEPT ![t] = "missed"]
       /\ insertion_failures' = IF Placing(t) THEN insertion_failures + 1 ELSE insertion_failures
       /\ UNCHANGED me

Loads(t, s) == pc[t] = "load" /\ me[t].probe < MaxProbes /\ state[Here(t)] = s

PassWriterForever(t) ==   \* Mutant: the spins are not counted.
    /\ Loads(t, "WRITING")
    /\ UNCHANGED vars

(* A writer stays in the slot too long: remember that the key may be there *)
(* and go on.                                                              *)
PassWriter(t) ==
    /\ Loads(t, "WRITING")
    /\ pc' = pc
    /\ me' = [me EXCEPT ![t].probe = @ + 1, ![t].saw = TRUE]
    /\ UNCHANGED <<table, counters, history>>

PassTombstone(t) ==
    /\ Loads(t, "TOMBSTONE")
    /\ pc' = pc
    /\ me' = [me EXCEPT ![t].probe = @ + 1,
                        ![t].tomb = IF Placing(t) /\ @ = None THEN Here(t) ELSE @]
    /\ UNCHANGED <<table, counters, history>>

SeeValid(t) ==
    /\ Loads(t, "VALID")
    /\ Goto(t, "load", "key")
    /\ UNCHANGED <<table, counters, me, history>>

SeeEmptyHasty(t) ==   \* Mutant: a writer passed on the way is forgotten.
    /\ Loads(t, "EMPTY")
    /\ \/ Placing(t) /\ me[t].tomb # None /\ Goto(t, "load", "claimTomb")
       \/ Placing(t) /\ me[t].tomb = None /\ Goto(t, "load", "claimEmpty")
       \/ ~Placing(t) /\ Goto(t, "load", "missed")
    /\ UNCHANGED <<table, counters, me, history>>

(* The end of the collision chain: the key is not in the table, unless a   *)
(* writer was passed on the way.                                           *)
SeeEmpty(t) ==
    /\ Loads(t, "EMPTY")
    /\ \/ Placing(t) /\ me[t].saw /\ Again(t)
       \/ /\ Placing(t) /\ ~me[t].saw
          /\ Goto(t, "load", IF me[t].tomb # None THEN "claimTomb" ELSE "claimEmpty")
          /\ UNCHANGED <<me, insertion_failures>>
       \/ /\ ~Placing(t) /\ me[t].saw
          /\ pc' = pc /\ me' = [me EXCEPT ![t].probe = @ + 1]
          /\ UNCHANGED insertion_failures
       \/ ~Placing(t) /\ ~me[t].saw /\ Goto(t, "load", "missed") /\ UNCHANGED <<me, insertion_failures>>
    /\ UNCHANGED <<table, unpaired_evictions, history>>

(* All probes made.                                                        *)
EndOfChain(t) ==
    /\ pc[t] = "load" /\ me[t].probe = MaxProbes
    /\ \/ /\ Placing(t) /\ me[t].tomb # None /\ ~me[t].saw
          /\ Goto(t, "load", "claimTomb") /\ UNCHANGED <<me, insertion_failures>>
       \/ Placing(t) /\ (me[t].tomb = None \/ me[t].saw) /\ Again(t)
       \/ ~Placing(t) /\ me[t].saw /\ Again(t)
       \/ ~Placing(t) /\ ~me[t].saw /\ Goto(t, "load", "missed") /\ UNCHANGED <<me, insertion_failures>>
    /\ UNCHANGED <<table, unpaired_evictions, history>>

(* The key of a slot seen VALID; it may be another generation's by now.    *)
CompareKey(t) ==
    /\ pc[t] = "key"
    /\ \/ /\ key[Here(t)] = me[t].want
          /\ Goto(t, "key", IF me[t].op = "lookup" THEN "seq1" ELSE "cas")
          /\ UNCHANGED me
       \/ key[Here(t)] # me[t].want /\ NextProbe(t)
    /\ UNCHANGED <<table, counters, history>>

-----------------------------------------------------------------------------
(* Taking a slot.  Own: the compare-exchange of the state succeeded.       *)

Own(t, s, to) ==
    /\ state' = [state EXCEPT ![s] = "WRITING"]
    /\ pc' = [pc EXCEPT ![t] = to]
    /\ me' = [me EXCEPT ![t].cell = s]

ClaimFoundBlind(t) ==   \* Mutant: a store instead of the compare-exchange.
    /\ pc[t] = "cas"
    /\ Own(t, Here(t), "recheck")
    /\ UNCHANGED <<sequence, key, value, counters, history>>

ClaimFound(t) ==
    /\ pc[t] = "cas"
    /\ \/ state[Here(t)] = "VALID" /\ Own(t, Here(t), "recheck")
       \/ state[Here(t)] # "VALID" /\ Reconsider(t) /\ UNCHANGED state
    /\ UNCHANGED <<sequence, key, value, counters, history>>

(* The slot is ours, but is it still the one we chose?  Probes compare the *)
(* key, eviction the sequence.                                             *)
StillMine(t) ==
    IF Evicting(t) THEN sequence[me[t].cell] = me[t].s1 ELSE key[me[t].cell] = me[t].want

RecheckTrusting(t) ==   \* Mutant: nothing is checked again.
    /\ Goto(t, "recheck", "write")
    /\ UNCHANGED <<table, me, counters, history>>

Recheck(t) ==
    /\ pc[t] = "recheck"
    /\ \/ StillMine(t) /\ Goto(t, "recheck", "write") /\ UNCHANGED <<state, me>>
       \/ ~StillMine(t) /\ state' = [state EXCEPT ![me[t].cell] = "VALID"] /\ NextProbe(t)
    /\ UNCHANGED <<sequence, key, value, counters, history>>

ClaimEmptyBlind(t) ==   \* Mutant: a store instead of the compare-exchange.
    /\ pc[t] = "claimEmpty"
    /\ Own(t, Here(t), "write")
    /\ UNCHANGED <<sequence, key, value, counters, history>>

ClaimEmpty(t) ==
    /\ pc[t] = "claimEmpty"
    /\ \/ state[Here(t)] = "EMPTY" /\ Own(t, Here(t), "write")
       \/ state[Here(t)] # "EMPTY" /\ Reconsider(t) /\ UNCHANGED state
    /\ UNCHANGED <<sequence, key, value, counters, history>>

(* The load of target_state and the compare-exchange.  Losing means that   *)
(* another thread took the tombstone, with our key perhaps.                *)
ClaimTombstone(t) ==
    /\ pc[t] = "claimTomb"
    /\ \/ /\ state[me[t].tomb] \in {"EMPTY", "TOMBSTONE"} /\ Own(t, me[t].tomb, "write")
          /\ UNCHANGED insertion_failures
       \/ state[me[t].tomb] \notin {"EMPTY", "TOMBSTONE"} /\ Again(t) /\ UNCHANGED state
    /\ UNCHANGED <<sequence, key, value, unpaired_evictions, history>>

-----------------------------------------------------------------------------
(* The transaction on an owned slot.                                       *)

(* sequence odd; then the key, and the value, torn until it is all there.  *)
(* Erasure and eviction leave the value's bytes where they are.            *)
Write(t) ==
    LET c == me[t].cell IN
    /\ Goto(t, "write", "seal")
    /\ sequence' = [sequence EXCEPT ![c] = @ + 1]
    /\ \/ /\ me[t].op \in Storing
          /\ key' = [key EXCEPT ![c] = me[t].want]
          /\ value' = [value EXCEPT ![c] = NoValue]
          /\ UNCHANGED <<me, taken, takes>>
       \/ /\ me[t].op \notin Storing
          /\ key' = [key EXCEPT ![c] = NoKey]
          /\ me' = [u \in Threads |->
                      IF u = t THEN [me[t] EXCEPT !.got = value[c]]
                      ELSE [me[u] EXCEPT !.there = @ /\ me[u].want # key[c]]]
          /\ taken' = taken \cup {value[c]} /\ takes' = takes + 1
          /\ UNCHANGED value
    /\ UNCHANGED <<state, counters, calls>>

(* The last word of the value, and the sequence even again.                *)
Seal(t) ==
    LET c == me[t].cell IN
    /\ Goto(t, "seal", "release")
    /\ sequence' = [sequence EXCEPT ![c] = @ + 1]
    /\ value' = IF me[t].op \in Storing
                THEN [value EXCEPT ![c] = [key |-> me[t].want, id |-> me[t].mine]] ELSE value
    /\ UNCHANGED <<key, state, counters, me, history>>

(* What follows the release: evict_stale counts and scans on, the others   *)
(* return.                                                                 *)
Released(t) ==
    \/ /\ Evicting(t)
       /\ pc' = [pc EXCEPT ![t] = "scan"]
       /\ me' = [me EXCEPT ![t].probe = @ + 1, ![t].s1 = 0, ![t].got = NoValue,
                           ![t].cell = None, ![t].count = @ + 1]
    \/ /\ me[t].op = "erase"
       /\ pc' = [pc EXCEPT ![t] = "found"]
       /\ me' = [me EXCEPT ![t].cell = None]
    \/ /\ me[t].op \in Storing
       /\ pc' = [pc EXCEPT ![t] = "idle"]
       /\ me' = [me EXCEPT ![t] = Fresh]

ReleaseEmpty(t) ==   \* Mutant: an erased slot is made EMPTY.
    /\ pc[t] = "release"
    /\ state' = [state EXCEPT ![me[t].cell] = IF me[t].op \in Storing THEN "VALID" ELSE "EMPTY"]
    /\ Released(t)
    /\ UNCHANGED <<sequence, key, value, counters, history>>

(* The state goes last.                                                    *)
Release(t) ==
    /\ pc[t] = "release"
    /\ state' = [state EXCEPT ![me[t].cell] = IF me[t].op \in Storing THEN "VALID" ELSE "TOMBSTONE"]
    /\ Released(t)
    /\ UNCHANGED <<sequence, key, value, counters, history>>

-----------------------------------------------------------------------------
(* Reading a slot as a seqlock, in lookup and evict_stale.                 *)

ReadSeq1(t) ==
    /\ pc[t] = "seq1"
    /\ \/ /\ sequence[Here(t)] % 2 = 0
          /\ Goto(t, "seq1", "copy") /\ me' = [me EXCEPT ![t].s1 = sequence[Here(t)]]
       \/ sequence[Here(t)] % 2 # 0 /\ Reconsider(t)
    /\ UNCHANGED <<table, counters, history>>

CopyValue(t) ==
    /\ Goto(t, "copy", "seq2")
    /\ me' = [me EXCEPT ![t].got = value[Here(t)]]
    /\ UNCHANGED <<table, counters, history>>

VerifySeqTrusting(t) ==   \* Mutant: the sequence is not compared.
    /\ Goto(t, "seq2", "confirm")
    /\ UNCHANGED <<table, me, counters, history>>

VerifySeq(t) ==
    /\ pc[t] = "seq2"
    /\ \/ sequence[Here(t)] = me[t].s1 /\ Goto(t, "seq2", "confirm") /\ UNCHANGED me
       \/ sequence[Here(t)] # me[t].s1 /\ Reconsider(t)
    /\ UNCHANGED <<table, counters, history>>

(* State and key still what they were; for eviction, the value too old.    *)
Confirmed(t) ==
    /\ state[Here(t)] = "VALID"
    /\ IF Evicting(t) THEN me[t].got.id <= me[t].cut ELSE key[Here(t)] = me[t].want

Confirm(t) ==
    /\ pc[t] = "confirm"
    /\ \/ Confirmed(t) /\ Goto(t, "confirm", IF Evicting(t) THEN "cas" ELSE "found") /\ UNCHANGED me
       \/ ~Confirmed(t) /\ Reconsider(t)
    /\ UNCHANGED <<table, counters, history>>

-----------------------------------------------------------------------------
(* evict_stale walks all slots and looks at the VALID ones.                *)
Scan(t) ==
    /\ pc[t] = "scan" /\ me[t].probe < Capacity
    /\ \/ state[Here(t)] = "VALID" /\ Goto(t, "scan", "seq1") /\ UNCHANGED me
       \/ state[Here(t)] # "VALID" /\ NextProbe(t)
    /\ UNCHANGED <<table, counters, history>>

EndScan(t) ==
    /\ pc[t] = "scan" /\ me[t].probe = Capacity
    /\ unpaired_evictions' = unpaired_evictions + me[t].count
    /\ Goto(t, "scan", "idle") /\ me' = [me EXCEPT ![t] = Fresh]
    /\ UNCHANGED <<table, insertion_failures, history>>

Probe(t) ==
    \/ PassWriter(t) \/ PassTombstone(t) \/ SeeValid(t) \/ SeeEmpty(t)
    \/ EndOfChain(t) \/ CompareKey(t)
Place(t)    == ClaimEmpty(t) \/ ClaimTombstone(t)
Take(t)     == ClaimFound(t) \/ Recheck(t)
Transact(t) == Write(t) \/ Seal(t) \/ Release(t)
Read(t)     == ReadSeq1(t) \/ CopyValue(t) \/ VerifySeq(t) \/ Confirm(t)

insert(t)         == me[t].op = "insert" /\ (Probe(t) \/ Take(t) \/ Place(t) \/ Transact(t))
upsert(t)         == me[t].op = "upsert" /\ (Probe(t) \/ Take(t) \/ Place(t) \/ Transact(t))
update(t)         == me[t].op = "update" /\ (Probe(t) \/ Take(t) \/ Transact(t))
find_and_erase(t) == me[t].op = "erase" /\ (Probe(t) \/ Take(t) \/ Transact(t))
lookup(t)         == me[t].op = "lookup" /\ (Probe(t) \/ Read(t))
evict_stale(t)    == Evicting(t) /\ (Scan(t) \/ Read(t) \/ Take(t) \/ Transact(t) \/ EndScan(t))

Step(t) ==
    \/ insert(t) \/ upsert(t) \/ update(t) \/ find_and_erase(t)
    \/ lookup(t) \/ evict_stale(t) \/ Return(t)

Next ==
    \/ \E c \in Calls : Begin(c)
    \/ \E t \in Evictors : BeginEvict(t)
    \/ \E t \in Threads : Step(t)

Spec == Init /\ [][Next]_vars

(* Only the threads in Live are scheduled fairly: the others may stop      *)
(* inside a write.                                                         *)
FairSpec == Spec /\ \A t \in Live : WF_vars(Step(t))

-----------------------------------------------------------------------------
(* Properties.                                                             *)

States == {"EMPTY", "WRITING", "VALID", "TOMBSTONE"}
Pcs    == {"idle", "load", "key", "cas", "recheck", "claimEmpty", "claimTomb", "write", "seal",
           "release", "seq1", "copy", "seq2", "confirm", "scan", "found", "missed"}
Locals == [op : Operations \cup {"evict", "none"}, want : Keys \cup {NoKey}, mine : 0..MaxCalls,
           probe : Nat, retry : Nat, saw : BOOLEAN,
           tomb : Slots \cup {None}, cell : Slots \cup {None}, s1 : Nat,
           got : Values \cup {NoValue}, cut : Nat, count : Nat, there : BOOLEAN]

TypeOK ==
    /\ sequence \in [Slots -> Nat] /\ key \in [Slots -> Keys \cup {NoKey}]
    /\ state \in [Slots -> States] /\ value \in [Slots -> Values \cup {NoValue}]
    /\ insertion_failures \in Nat /\ unpaired_evictions \in Nat
    /\ pc \in [Threads -> Pcs] /\ me \in [Threads -> Locals]
    /\ calls \in 0..MaxCalls /\ taken \subseteq Values \cup {NoValue} /\ takes \in Nat
    /\ \A t \in Threads : pc[t] # "idle" => me[t].retry < Retries(t)

Owners == {"recheck", "write", "seal", "release"}

(* A slot is WRITING exactly while one thread owns it: no two threads are  *)
(* ever inside the same slot.                                              *)
OneOwner ==
    /\ \A t \in Threads : pc[t] \in Owners => state[me[t].cell] = "WRITING"
    /\ \A t, u \in Threads :
          pc[t] \in Owners /\ pc[u] \in Owners /\ me[t].cell = me[u].cell => t = u

(* A VALID slot holds a whole value, stored under its own key.             *)
ValidWhole ==
    \A s \in Slots : state[s] = "VALID" =>
        value[s] \in Values /\ value[s].key = key[s] /\ sequence[s] % 2 = 0

(* What find_and_erase returns was stored under the key asked for, whole,  *)
(* however the slot is recycled meanwhile.  So is what lookup returns,     *)
(* unless the slot has been rewritten since lookup verified the sequence:  *)
(* only then it looks at the key, which may be a later generation's.       *)
FoundIsOwn ==
    \A t \in Threads : pc[t] = "found" /\ me[t].op \in {"erase", "lookup"} =>
        /\ me[t].got \in Values
        /\ \/ me[t].got.key = me[t].want
           \/ me[t].op = "lookup" /\ sequence[Here(t)] # me[t].s1

(* A start event is paired once: no value is erased or evicted twice.      *)
TakenOnce == takes = Cardinality(taken)

(* Eviction removes the value it judged too old, never one stored later.   *)
EvictsOnlyStale ==
    \A t \in Threads : Evicting(t) /\ pc[t] = "write" => value[me[t].cell].id <= me[t].cut

(* The slots from a key's home to its place were all used before: a probe  *)
(* that stops at an EMPTY slot has not stopped short of the key.           *)
Reaches(k, s) ==
    \E n \in 0..(MaxProbes - 1) :
        /\ s = (Home[k] + n) % Capacity
        /\ \A m \in 0..n : state[(Home[k] + m) % Capacity] # "EMPTY"

ChainUnbroken == \A s \in Slots : state[s] = "VALID" => Reaches(key[s], s)

(* A search misses a key that was in the table all the time only if every  *)
(* retry met a slot that stayed WRITING.                                   *)
MissOnlyWhenAbsent ==
    \A t \in Threads : pc[t] = "missed" /\ ~Placing(t) /\ me[t].there =>
        me[t].saw /\ me[t].retry + 1 = FindRetries

(* A key is in the table once.                                             *)
KeyOnce ==
    \A r, s \in Slots : state[r] = "VALID" /\ state[s] = "VALID" /\ key[r] = key[s] => r = s

(* Nobody waits for ever for a slot that another thread does not give up.  *)
CallsReturn == \A t \in Live : pc[t] # "idle" ~> pc[t] = "idle"

=============================================================================
