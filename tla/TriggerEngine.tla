---------------------------- MODULE TriggerEngine ----------------------------
(***************************************************************************)
(* The lock-free trigger state machine of src/trigger_engine.cpp.          *)
(*                                                                         *)
(* Producers are the threads that deliver ETW events to the engine.  A     *)
(* producer that sees a stutter claims the engine, publishes the trigger's *)
(* payload through a seqlock and moves the engine on.  One consumer thread *)
(* polls the engine, copies the payload out, reports it and releases the   *)
(* engine into a cooldown.  Every load, store and compare-exchange on      *)
(* which two threads can race is an action of its own.                     *)
(*                                                                         *)
(* Time is abstracted to deadlines: a stored timestamp is "pending" until  *)
(* the interval the code compares it with has passed, then "expired".      *)
(***************************************************************************)
EXTENDS Naturals, Sequences, FiniteSets

CONSTANTS
    Producers,       \* threads that call the on_* entry points
    MaxEvents,       \* bound: stutter events offered in a behaviour
    Durations,       \* durations a present or a stall may have
    HasPostWindow,   \* config_.window_post_ms > 0.0
    ClaimsMayStall,  \* a claim may stay unpublished past the 5 s watchdog
    NoThread         \* writer_lock_ is clear

ASSUME EngineAssumption ==
    /\ IsFiniteSet(Producers) /\ NoThread \notin Producers
    /\ MaxEvents \in Nat
    /\ Durations \subseteq Nat \ {0}
    /\ HasPostWindow \in BOOLEAN
    /\ ClaimsMayStall \in BOOLEAN

(* "OTHER" stands for AUDIO_GLITCH, DWM_GLITCH and FRAME_PACING_JUDDER,    *)
(* which the state machine treats alike.                                   *)
Sources   == {"DXGI", "KERNEL", "OTHER"}
NoSource  == "NONE"
States    == {"ARMED", "CLAIMED", "COLLECTING_POST", "FROZEN", "COOLDOWN"}
Deadlines == {"unset", "pending", "expired"}

TriggerInfos == [id : 1..MaxEvents, source : Sources, dur : Durations \cup {0}]
NoTrigger    == [id |-> 0, source |-> NoSource, dur |-> 0]
(* What a reader sees of activeTrigger while a writer is copying into it.  *)
TornTrigger  == [id |-> 0, source |-> "TORN", dur |-> 0]

VARIABLES
    state,            \* state_
    claimGeneration,  \* claim_generation_
    writerLock,       \* writer_lock_: its holder, or NoThread
    activeSeq,        \* active_trigger_seq_
    activeTrigger,    \* active_trigger_
    activeSource,     \* active_source_
    stagedGpu,        \* staged_gpu_duration_us_
    claimedTs,        \* claimed_timestamp_qpc_ against watchdog_qpc_
    postTarget,       \* post_target_qpc_
    frozenTs,         \* frozen_timestamp_qpc_ against watchdog_qpc_
    cooldownTarget,   \* cooldown_target_qpc_
    reportConsumed,   \* report_consumed_
    suppressed,       \* suppressed_triggers_
    dxgiSeen,         \* last_dxgi_timestamp_qpc_ > 0
    pc, cand, gen,    \* per producer: next step, local candidate, my_gen
    cpc, rseq, rcopy, \* consumer: next step, s1, out_trigger
    reporting,        \* poll_state returned true, the report is not yet closed
    offered,          \* history: events offered so far
    settled,          \* history: events ended without a claim attempt
    accepted,         \* history: ids for which the entry point returned true
    reports           \* history: what poll_state handed out, in order

deadlines == <<claimedTs, postTarget, frozenTs, cooldownTarget>>
payload   == <<writerLock, activeSeq, activeTrigger>>
consumer  == <<cpc, rseq, rcopy, reporting, reports>>
stats     == <<suppressed, offered, settled, accepted>>
vars == <<state, claimGeneration, payload, activeSource, stagedGpu, deadlines,
          reportConsumed, dxgiSeen, pc, cand, gen, consumer, stats>>

Init ==
    /\ state = "ARMED" /\ claimGeneration = 0
    /\ writerLock = NoThread /\ activeSeq = 0 /\ activeTrigger = NoTrigger
    /\ activeSource = NoSource /\ stagedGpu = 0
    /\ claimedTs = "unset" /\ postTarget = "unset"
    /\ frozenTs = "unset" /\ cooldownTarget = "unset"
    /\ reportConsumed = FALSE /\ suppressed = 0 /\ dxgiSeen = FALSE
    /\ pc = [p \in Producers |-> "idle"]
    /\ cand = [p \in Producers |-> NoTrigger]
    /\ gen = [p \in Producers |-> 0]
    /\ cpc = "idle" /\ rseq = 0 /\ rcopy = NoTrigger /\ reporting = FALSE
    /\ offered = 0 /\ settled = 0 /\ accepted = {} /\ reports = <<>>

-----------------------------------------------------------------------------
(* Steps of a producer.                                                    *)

Goto(p, from, to) == pc[p] = from /\ pc' = [pc EXCEPT ![p] = to]

Offer(p, source, dur, next) ==
    /\ offered < MaxEvents
    /\ Goto(p, "idle", next)
    /\ offered' = offered + 1
    /\ cand' = [cand EXCEPT ![p] = [id |-> offered + 1, source |-> source, dur |-> dur]]
    /\ UNCHANGED <<state, claimGeneration, payload, activeSource, stagedGpu, deadlines,
                   reportConsumed, gen, consumer, suppressed, settled, accepted>>

(* on_dxgi_present latches DXGI activity before it evaluates the frame; a  *)
(* frame found to be a cadence judder triggers as FRAME_PACING_JUDDER.     *)
OnDxgiPresent(p) ==
    /\ \E source \in {"DXGI", "OTHER"}, dur \in Durations : Offer(p, source, dur, "gate")
    /\ dxgiSeen' = TRUE

(* on_audio_glitch has no duration, on_dwm_glitch has one.                 *)
OnOtherGlitch(p) ==
    /\ \E dur \in Durations \cup {0} : Offer(p, "OTHER", dur, "gate")
    /\ UNCHANGED dxgiSeen

OnKernelFrameStall(p) ==
    /\ \E source \in {"KERNEL", "OTHER"}, dur \in Durations : Offer(p, source, dur, "stallGate")
    /\ UNCHANGED dxgiSeen

Settle(p) ==
    /\ pc' = [pc EXCEPT ![p] = "idle"]
    /\ settled' = settled + 1
    /\ UNCHANGED <<suppressed, offered, accepted>>

Suppress(p) ==
    /\ pc' = [pc EXCEPT ![p] = "idle"]
    /\ suppressed' = suppressed + 1
    /\ UNCHANGED <<settled, offered, accepted>>

(* The staleness gate: a kernel stall is dropped while DXGI presents are   *)
(* recent, unless a DXGI trigger is collecting its post-window.  Whether   *)
(* the last present is recent, the vblank floor and the pacing verdict are *)
(* left open.                                                              *)
StallGate(p) ==
    /\ pc[p] = "stallGate"
    /\ \/ /\ Goto(p, "stallGate", "route")
          /\ UNCHANGED stats
       \/ /\ dxgiSeen
          /\ ~(state = "COLLECTING_POST" /\ activeSource = "DXGI")
          /\ Settle(p)
    /\ UNCHANGED <<state, claimGeneration, payload, activeSource, stagedGpu, deadlines,
                   reportConsumed, dxgiSeen, cand, gen, consumer>>

StallRoute(p) ==
    /\ pc[p] = "route"
    /\ \/ state = "ARMED" /\ Goto(p, "route", "gate") /\ UNCHANGED stats
       \/ state = "COLLECTING_POST" /\ Goto(p, "route", "routeSource") /\ UNCHANGED stats
       \/ state \notin {"ARMED", "COLLECTING_POST"} /\ Suppress(p)
    /\ UNCHANGED <<state, claimGeneration, payload, activeSource, stagedGpu, deadlines,
                   reportConsumed, dxgiSeen, cand, gen, consumer>>

StallRouteSource(p) ==
    /\ pc[p] = "routeSource"
    /\ \/ activeSource = "DXGI" /\ Goto(p, "routeSource", "stage") /\ UNCHANGED stats
       \/ activeSource # "DXGI" /\ Suppress(p)
    /\ UNCHANGED <<state, claimGeneration, payload, activeSource, stagedGpu, deadlines,
                   reportConsumed, dxgiSeen, cand, gen, consumer>>

(* Mutant: the staged duration is rounded up past what was measured.       *)
StallStageRoundsUp(p) ==
    /\ pc[p] = "stage"
    /\ stagedGpu' = cand[p].dur + 1
    /\ Settle(p)
    /\ UNCHANGED <<state, claimGeneration, payload, activeSource, deadlines,
                   reportConsumed, dxgiSeen, cand, gen, consumer>>

(* The compare-exchange loop leaves the larger of the two durations.       *)
StallStage(p) ==
    /\ pc[p] = "stage"
    /\ stagedGpu' = IF cand[p].dur > stagedGpu THEN cand[p].dur ELSE stagedGpu
    /\ Settle(p)
    /\ UNCHANGED <<state, claimGeneration, payload, activeSource, deadlines,
                   reportConsumed, dxgiSeen, cand, gen, consumer>>

(* initiate_trigger_atomic, before Phase 1: an event below the report      *)
(* severity goes to the filtered-event ring.                               *)
SeverityGate(p) ==
    /\ pc[p] = "gate"
    /\ \/ Goto(p, "gate", "claimLock") /\ UNCHANGED stats
       \/ Settle(p)
    /\ UNCHANGED <<state, claimGeneration, payload, activeSource, stagedGpu, deadlines,
                   reportConsumed, dxgiSeen, cand, gen, consumer>>

(* while (writer_lock_.test_and_set()) cpu_pause();  before Phases 1, 3.   *)
TakeWriterLock(p) ==
    /\ \/ Goto(p, "claimLock", "claim")
       \/ Goto(p, "publishLock", "checkGen")
    /\ writerLock = NoThread
    /\ writerLock' = p
    /\ UNCHANGED <<state, claimGeneration, activeSeq, activeTrigger, activeSource, stagedGpu,
                   deadlines, reportConsumed, dxgiSeen, cand, gen, consumer, stats>>

(* Phase 1: ARMED -> CLAIMED, else count a suppressed trigger.             *)
ClaimState(p) ==
    /\ pc[p] = "claim"
    /\ \/ /\ state = "ARMED"
          /\ state' = "CLAIMED"
          /\ Goto(p, "claim", "bumpGen")
          /\ UNCHANGED <<writerLock, stats>>
       \/ /\ state # "ARMED"
          /\ writerLock' = NoThread
          /\ Suppress(p)
          /\ UNCHANGED state
    /\ UNCHANGED <<claimGeneration, activeSeq, activeTrigger, activeSource, stagedGpu,
                   deadlines, reportConsumed, dxgiSeen, cand, gen, consumer>>

BumpGeneration(p) ==
    /\ Goto(p, "bumpGen", "metaTs")
    /\ claimGeneration' = claimGeneration + 1
    /\ gen' = [gen EXCEPT ![p] = claimGeneration + 1]
    /\ writerLock' = NoThread
    /\ UNCHANGED <<state, activeSeq, activeTrigger, activeSource, stagedGpu, deadlines,
                   reportConsumed, dxgiSeen, cand, consumer, stats>>

(* Phase 2: plain stores without the lock.  Only the consumer reads the    *)
(* post-window deadline and report_consumed_, so those two are one step.   *)
StoreClaimedTs(p) ==
    /\ Goto(p, "metaTs", "metaSource")
    /\ claimedTs' = "pending"
    /\ UNCHANGED <<state, claimGeneration, payload, activeSource, stagedGpu, postTarget,
                   frozenTs, cooldownTarget, reportConsumed, dxgiSeen, cand, gen, consumer, stats>>

StoreActiveSource(p) ==
    /\ Goto(p, "metaSource", "metaPost")
    /\ activeSource' = cand[p].source
    /\ UNCHANGED <<state, claimGeneration, payload, stagedGpu, deadlines,
                   reportConsumed, dxgiSeen, cand, gen, consumer, stats>>

(* Mutant: Phase 4 before Phase 3.                                         *)
StorePostTargetSkipsPublish(p) ==
    /\ Goto(p, "metaPost", "recheckGen")
    /\ postTarget' = "pending"
    /\ reportConsumed' = FALSE
    /\ UNCHANGED <<state, claimGeneration, payload, activeSource, stagedGpu, claimedTs,
                   frozenTs, cooldownTarget, dxgiSeen, cand, gen, consumer, stats>>

StorePostTarget(p) ==
    /\ Goto(p, "metaPost", "publishLock")
    /\ postTarget' = "pending"
    /\ reportConsumed' = FALSE
    /\ UNCHANGED <<state, claimGeneration, payload, activeSource, stagedGpu, claimedTs,
                   frozenTs, cooldownTarget, dxgiSeen, cand, gen, consumer, stats>>

CheckGenerationNever(p) ==   \* Mutant: a superseded claim publishes too.
    /\ Goto(p, "checkGen", "publishBegin")
    /\ UNCHANGED <<state, claimGeneration, payload, activeSource, stagedGpu,
                   deadlines, reportConsumed, dxgiSeen, cand, gen, consumer, stats>>

(* Phase 3: only the newest claim publishes, under the lock and inside an  *)
(* odd interval of the seqlock.                                            *)
CheckGeneration(p) ==
    /\ pc[p] = "checkGen"
    /\ \/ /\ claimGeneration = gen[p]
          /\ Goto(p, "checkGen", "publishBegin")
          /\ UNCHANGED <<writerLock, stats>>
       \/ /\ claimGeneration # gen[p]
          /\ writerLock' = NoThread
          /\ Suppress(p)
    /\ UNCHANGED <<state, claimGeneration, activeSeq, activeTrigger, activeSource, stagedGpu,
                   deadlines, reportConsumed, dxgiSeen, cand, gen, consumer>>

PublishBegin(p) ==
    /\ Goto(p, "publishBegin", "publishCopy")
    /\ activeSeq' = activeSeq + 1
    /\ UNCHANGED <<state, claimGeneration, writerLock, activeTrigger, activeSource, stagedGpu,
                   deadlines, reportConsumed, dxgiSeen, cand, gen, consumer, stats>>

(* active_trigger_ = candidate is a 64-byte copy: torn until it is over.   *)
PublishCopy(p) ==
    /\ \/ Goto(p, "publishCopy", "publishCopied") /\ activeTrigger' = TornTrigger
       \/ Goto(p, "publishCopied", "publishEnd")  /\ activeTrigger' = cand[p]
    /\ UNCHANGED <<state, claimGeneration, writerLock, activeSeq, activeSource, stagedGpu,
                   deadlines, reportConsumed, dxgiSeen, cand, gen, consumer, stats>>

PublishEnd(p) ==
    /\ Goto(p, "publishEnd", "recheckGen")
    /\ activeSeq' = activeSeq + 1
    /\ writerLock' = NoThread
    /\ UNCHANGED <<state, claimGeneration, activeTrigger, activeSource, stagedGpu,
                   deadlines, reportConsumed, dxgiSeen, cand, gen, consumer, stats>>

RecheckGenerationUncounted(p) ==   \* Mutant: a superseded claim is not counted.
    /\ pc[p] = "recheckGen"
    /\ \/ /\ claimGeneration = gen[p]
          /\ Goto(p, "recheckGen", "commit")
          /\ frozenTs' = IF HasPostWindow THEN frozenTs ELSE "pending"
       \/ claimGeneration # gen[p] /\ Goto(p, "recheckGen", "idle") /\ UNCHANGED frozenTs
    /\ UNCHANGED <<state, claimGeneration, payload, activeSource, stagedGpu, claimedTs,
                   postTarget, cooldownTarget, reportConsumed, dxgiSeen, cand, gen, consumer,
                   stats>>

(* Phase 4: check the generation again, then CLAIMED -> COLLECTING_POST or *)
(* FROZEN.  The check and the compare-exchange are two steps.              *)
RecheckGeneration(p) ==
    /\ pc[p] = "recheckGen"
    /\ \/ /\ claimGeneration = gen[p]
          /\ Goto(p, "recheckGen", "commit")
          /\ frozenTs' = IF HasPostWindow THEN frozenTs ELSE "pending"
          /\ UNCHANGED stats
       \/ claimGeneration # gen[p] /\ Suppress(p) /\ UNCHANGED frozenTs
    /\ UNCHANGED <<state, claimGeneration, payload, activeSource, stagedGpu, claimedTs,
                   postTarget, cooldownTarget, reportConsumed, dxgiSeen, cand, gen, consumer>>

CommitTrigger(p) ==
    /\ pc[p] = "commit"
    /\ \/ /\ state = "CLAIMED"
          /\ state' = IF HasPostWindow THEN "COLLECTING_POST" ELSE "FROZEN"
          /\ Goto(p, "commit", "idle")
          /\ accepted' = accepted \cup {cand[p].id}
          /\ UNCHANGED <<suppressed, offered, settled>>
       \/ state # "CLAIMED" /\ Suppress(p) /\ UNCHANGED state
    /\ UNCHANGED <<claimGeneration, payload, activeSource, stagedGpu, deadlines,
                   reportConsumed, dxgiSeen, cand, gen, consumer>>

Produce(p) ==
    \/ StallGate(p) \/ StallRoute(p) \/ StallRouteSource(p) \/ StallStage(p)
    \/ SeverityGate(p) \/ TakeWriterLock(p) \/ ClaimState(p) \/ BumpGeneration(p)
    \/ StoreClaimedTs(p) \/ StoreActiveSource(p) \/ StorePostTarget(p)
    \/ CheckGeneration(p) \/ PublishBegin(p) \/ PublishCopy(p) \/ PublishEnd(p)
    \/ RecheckGeneration(p) \/ CommitTrigger(p)

-----------------------------------------------------------------------------
(* Steps of the consumer.  poll_state acts on the state_ it loaded first.  *)

producers == <<pc, cand, gen, dxgiSeen, stats>>
CGoto(from, to) == cpc = from /\ cpc' = to

(* poll_state loads state_ once and acts on that copy.  ARMED returns.     *)
PollState ==
    /\ \/ state = "CLAIMED"         /\ CGoto("idle", "pollClaimed")
       \/ state = "COLLECTING_POST" /\ CGoto("idle", "pollPost")
       \/ state = "FROZEN"          /\ CGoto("idle", "pollFrozen")
       \/ state = "COOLDOWN"        /\ CGoto("idle", "pollCooldown")
    /\ UNCHANGED <<state, claimGeneration, payload, activeSource, stagedGpu, deadlines,
                   reportConsumed, producers, rseq, rcopy, reporting, reports>>

(* The watchdog on an abandoned claim.                                     *)
PollClaimed ==
    /\ IF claimedTs = "expired" THEN CGoto("pollClaimed", "releaseTimes")
                                ELSE CGoto("pollClaimed", "idle")
    /\ UNCHANGED <<state, claimGeneration, payload, activeSource, stagedGpu, deadlines,
                   reportConsumed, producers, rseq, rcopy, reporting, reports>>

PollPostConsumed ==   \* Mutant: report_consumed_ is set, not cleared.
    /\ \/ /\ postTarget = "expired"
          /\ CGoto("pollPost", "consume")
          /\ frozenTs' = "pending" /\ reportConsumed' = TRUE /\ state' = "FROZEN"
       \/ /\ postTarget # "expired"
          /\ CGoto("pollPost", "idle")
          /\ UNCHANGED <<frozenTs, reportConsumed, state>>
    /\ UNCHANGED <<claimGeneration, payload, activeSource, stagedGpu, claimedTs, postTarget,
                   cooldownTarget, producers, rseq, rcopy, reporting, reports>>

(* The post-window is over: freeze.  The frozen timestamp stored here is   *)
(* current_qpc itself, so the watchdog cannot fire in the same call.       *)
PollPost ==
    /\ \/ /\ postTarget = "expired"
          /\ CGoto("pollPost", "consume")
          /\ frozenTs' = "pending" /\ reportConsumed' = FALSE /\ state' = "FROZEN"
       \/ /\ postTarget # "expired"
          /\ CGoto("pollPost", "idle")
          /\ UNCHANGED <<frozenTs, reportConsumed, state>>
    /\ UNCHANGED <<claimGeneration, payload, activeSource, stagedGpu, claimedTs, postTarget,
                   cooldownTarget, producers, rseq, rcopy, reporting, reports>>

PollFrozenNoWatchdog ==   \* Mutant: an open report is never closed.
    /\ CGoto("pollFrozen", "consume")
    /\ UNCHANGED <<state, claimGeneration, payload, activeSource, stagedGpu, deadlines,
                   reportConsumed, producers, rseq, rcopy, reporting, reports>>

(* The watchdog on a report that was never closed.                         *)
PollFrozen ==
    /\ IF frozenTs = "expired" THEN CGoto("pollFrozen", "releaseTimes")
                               ELSE CGoto("pollFrozen", "consume")
    /\ frozenTs' = IF frozenTs = "unset" THEN "pending" ELSE frozenTs
    /\ UNCHANGED <<state, claimGeneration, payload, activeSource, stagedGpu, claimedTs,
                   postTarget, cooldownTarget, reportConsumed, producers, rseq, rcopy,
                   reporting, reports>>

PollConsumeUnmarked ==   \* Mutant: a load instead of the exchange.
    /\ IF reportConsumed THEN CGoto("consume", "idle") ELSE CGoto("consume", "readSeq")
    /\ UNCHANGED <<state, claimGeneration, payload, activeSource, stagedGpu, deadlines,
                   reportConsumed, producers, rseq, rcopy, reporting, reports>>

(* report_consumed_.exchange(true), the single-emission guard.             *)
PollConsume ==
    /\ IF reportConsumed THEN CGoto("consume", "idle") ELSE CGoto("consume", "readSeq")
    /\ reportConsumed' = TRUE
    /\ UNCHANGED <<state, claimGeneration, payload, activeSource, stagedGpu, deadlines,
                   producers, rseq, rcopy, reporting, reports>>

(* The seqlock read of active_trigger_.                                    *)
ReadSeq ==
    /\ activeSeq % 2 = 0
    /\ CGoto("readSeq", "readCopy")
    /\ rseq' = activeSeq
    /\ UNCHANGED <<state, claimGeneration, payload, activeSource, stagedGpu, deadlines,
                   reportConsumed, producers, rcopy, reporting, reports>>

ReadCopy ==
    /\ CGoto("readCopy", "readVerify")
    /\ rcopy' = activeTrigger
    /\ UNCHANGED <<state, claimGeneration, payload, activeSource, stagedGpu, deadlines,
                   reportConsumed, producers, rseq, reporting, reports>>

ReadVerifyTrusting ==   \* Mutant: the sequence is not read again.
    /\ CGoto("readVerify", "upgrade")
    /\ UNCHANGED <<state, claimGeneration, payload, activeSource, stagedGpu, deadlines,
                   reportConsumed, producers, rseq, rcopy, reporting, reports>>

ReadVerify ==
    /\ IF activeSeq = rseq THEN CGoto("readVerify", "upgrade") ELSE CGoto("readVerify", "readSeq")
    /\ UNCHANGED <<state, claimGeneration, payload, activeSource, stagedGpu, deadlines,
                   reportConsumed, producers, rseq, rcopy, reporting, reports>>

(* The local copy is upgraded by a larger staged GPU duration.             *)
Upgraded(trigger, staged) ==
    IF staged > trigger.dur THEN [trigger EXCEPT !.source = "KERNEL", !.dur = staged]
                            ELSE trigger

EmitReport ==
    /\ CGoto("upgrade", "idle")
    /\ reports' = Append(reports, Upgraded(rcopy, stagedGpu))
    /\ stagedGpu' = 0
    /\ reporting' = TRUE
    /\ UNCHANGED <<state, claimGeneration, payload, activeSource, deadlines,
                   reportConsumed, producers, rseq, rcopy>>

PollCooldown ==
    /\ CGoto("pollCooldown", "idle")
    /\ state' = IF cooldownTarget = "expired" THEN "ARMED" ELSE state
    /\ UNCHANGED <<claimGeneration, payload, activeSource, stagedGpu, deadlines,
                   reportConsumed, producers, rseq, rcopy, reporting, reports>>

(* The monitoring loop's scope guard calls on_report_completed.  It may    *)
(* poll again before that; a report the watchdog has closed stays closed.  *)
CompleteReport ==
    /\ reporting
    /\ CGoto("idle", "releaseTimes")
    /\ UNCHANGED <<state, claimGeneration, payload, activeSource, stagedGpu, deadlines,
                   reportConsumed, producers, rseq, rcopy, reporting, reports>>

(* on_report_completed: a store at a time, state_ last.                    *)
ReleaseTimes ==
    /\ CGoto("releaseTimes", "releaseSource")
    /\ cooldownTarget' = "pending" /\ frozenTs' = "unset" /\ claimedTs' = "unset"
    /\ reporting' = FALSE
    /\ UNCHANGED <<state, claimGeneration, payload, activeSource, stagedGpu, postTarget,
                   reportConsumed, producers, rseq, rcopy, reports>>

ReleaseSource ==
    /\ CGoto("releaseSource", "releaseStaged")
    /\ activeSource' = NoSource
    /\ UNCHANGED <<state, claimGeneration, payload, stagedGpu, deadlines,
                   reportConsumed, producers, rseq, rcopy, reporting, reports>>

ReleaseStaged ==
    /\ CGoto("releaseStaged", "releaseConsumed")
    /\ stagedGpu' = 0
    /\ UNCHANGED <<state, claimGeneration, payload, activeSource, deadlines,
                   reportConsumed, producers, rseq, rcopy, reporting, reports>>

ReleaseConsumed ==
    /\ CGoto("releaseConsumed", "releaseState")
    /\ reportConsumed' = FALSE
    /\ UNCHANGED <<state, claimGeneration, payload, activeSource, stagedGpu, deadlines,
                   producers, rseq, rcopy, reporting, reports>>

ReleaseState ==
    /\ CGoto("releaseState", "idle")
    /\ state' = "COOLDOWN"
    /\ UNCHANGED <<claimGeneration, payload, activeSource, stagedGpu, deadlines,
                   reportConsumed, producers, rseq, rcopy, reporting, reports>>

Poll ==
    \/ PollState \/ PollClaimed \/ PollPost \/ PollFrozen \/ PollConsume
    \/ ReadSeq \/ ReadCopy \/ ReadVerify \/ EmitReport \/ PollCooldown
    \/ ReleaseTimes \/ ReleaseSource \/ ReleaseStaged \/ ReleaseConsumed \/ ReleaseState

-----------------------------------------------------------------------------
(* The passage of time.  Without ClaimsMayStall every claim is published   *)
(* within the watchdog's five seconds.                                     *)
Elapse ==
    /\ \/ /\ ClaimsMayStall /\ claimedTs = "pending" /\ claimedTs' = "expired"
          /\ UNCHANGED <<postTarget, frozenTs, cooldownTarget>>
       \/ /\ postTarget = "pending" /\ postTarget' = "expired"
          /\ UNCHANGED <<claimedTs, frozenTs, cooldownTarget>>
       \/ /\ frozenTs = "pending" /\ frozenTs' = "expired"
          /\ UNCHANGED <<claimedTs, postTarget, cooldownTarget>>
       \/ /\ cooldownTarget = "pending" /\ cooldownTarget' = "expired"
          /\ UNCHANGED <<claimedTs, postTarget, frozenTs>>
    /\ UNCHANGED <<state, claimGeneration, payload, activeSource, stagedGpu,
                   reportConsumed, producers, consumer>>

Offers(p) == OnDxgiPresent(p) \/ OnOtherGlitch(p) \/ OnKernelFrameStall(p)

Next ==
    \/ \E p \in Producers : Offers(p) \/ Produce(p)
    \/ Poll
    \/ CompleteReport
    \/ Elapse

Spec == Init /\ [][Next]_vars

(* The operating system runs every thread, the monitoring loop polls       *)
(* forever and time passes.  Events need not arrive and a report need not  *)
(* be closed by its client.                                                *)
Fairness ==
    /\ \A p \in Producers : WF_vars(Produce(p))
    /\ WF_vars(Poll)
    /\ WF_vars(Elapse)

FairSpec == Spec /\ Fairness

-----------------------------------------------------------------------------
(* Properties.                                                             *)

LockHeld    == {"claim", "bumpGen", "checkGen", "publishBegin", "publishCopy",
                "publishCopied", "publishEnd"}
Publishing  == {"publishCopy", "publishCopied", "publishEnd"}
ProducerPcs == LockHeld \cup {"idle", "stallGate", "route", "routeSource", "stage", "gate",
                "claimLock", "metaTs", "metaSource", "metaPost", "publishLock",
                "recheckGen", "commit"}
ConsumerPcs == {"idle", "pollClaimed", "pollPost", "pollFrozen", "pollCooldown", "consume",
                "readSeq", "readCopy", "readVerify", "upgrade", "releaseTimes",
                "releaseSource", "releaseStaged", "releaseConsumed", "releaseState"}
Payloads    == [id : 0..MaxEvents, source : Sources \cup {NoSource, "TORN"},
                dur : Durations \cup {0}]

EngineTypes ==
    /\ state \in States
    /\ claimGeneration \in Nat
    /\ writerLock \in Producers \cup {NoThread}
    /\ activeSeq \in Nat
    /\ activeTrigger \in Payloads
    /\ activeSource \in Sources \cup {NoSource}
    /\ stagedGpu \in Durations \cup {0}
    /\ claimedTs \in Deadlines /\ postTarget \in Deadlines
    /\ frozenTs \in Deadlines /\ cooldownTarget \in Deadlines
    /\ reportConsumed \in BOOLEAN /\ dxgiSeen \in BOOLEAN

ThreadTypes ==
    /\ pc \in [Producers -> ProducerPcs]
    /\ cand \in [Producers -> Payloads]
    /\ \A p \in Producers : pc[p] # "idle" => cand[p] \in TriggerInfos
    /\ gen \in [Producers -> Nat]
    /\ cpc \in ConsumerPcs
    /\ rseq \in Nat
    /\ rcopy \in Payloads
    /\ reporting \in BOOLEAN

HistoryTypes ==
    /\ suppressed \in Nat /\ settled \in Nat /\ offered \in 0..MaxEvents
    /\ accepted \subseteq 1..MaxEvents
    /\ reports \in Seq(Payloads)

(* Every variable holds a value of its C++ type (or of its history).       *)
TypeOK == EngineTypes /\ ThreadTypes /\ HistoryTypes

(* No report carries a half-written payload, however many writers overlap  *)
(* the consumer's copy of active_trigger_.                                 *)
NoTornReport == \A i \in DOMAIN reports : reports[i].source # "TORN"

(* "Only the newest claim generation is permitted to publish": nobody      *)
(* claims while an older claim is writing active_trigger_.                 *)
NewestPublishes ==
    \A p \in Producers : pc[p] \in Publishing =>
        gen[p] = claimGeneration /\ \A q \in Producers : gen[q] <= gen[p]

Busy == {p \in Producers : pc[p] # "idle"}   \* in the middle of an event

(* Every event offered is accepted, suppressed, settled without a claim or *)
(* still under way: none is lost or counted twice.                         *)
Accounting ==
    offered = settled + suppressed + Cardinality(accepted) + Cardinality(Busy)

(* "When poll_state observes COLLECTING_POST or FROZEN, active_trigger_ is *)
(* fully published", and it is a trigger whose producer was told so.       *)
HeldIsPublished ==
    state \in {"COLLECTING_POST", "FROZEN"} =>
        activeSeq % 2 = 0 /\ activeTrigger.id \in accepted

(* A writer whose claim was superseded never moves the newer claim out of  *)
(* CLAIMED (Phase 4).                                                      *)
StaleWriterNeverSteals ==
    [][\A p \in Producers :
          CommitTrigger(p) /\ state' # state => gen[p] = claimGeneration]_vars

(* Only a DXGI trigger is ever upgraded by a staged kernel stall.          *)
UpgradeOnlyDxgi ==
    [][\A i \in DOMAIN reports' \ DOMAIN reports :
          reports'[i].source # rcopy.source => rcopy.source = "DXGI"]_vars

(* The engine always becomes ready for the next trigger: no claim, report  *)
(* or cooldown wedges it, even when a claim is abandoned to the watchdog   *)
(* or a client never closes its report.                                    *)
EngineRearms == state # "ARMED" ~> state = "ARMED"

(* A trigger whose producer was told "accepted" is eventually reported.    *)
AcceptedIsReported ==
    \A id \in 1..MaxEvents :
        id \in accepted ~> \E i \in DOMAIN reports : reports[i].id = id

(* The engine implements the abstract trigger cycle: what is accepted is   *)
(* what is reported, once, and nothing else is accepted until the engine   *)
(* is ready again.                                                         *)
Releasing  == {"releaseSource", "releaseStaged", "releaseConsumed", "releaseState"}
CyclePhase ==
    CASE cpc \in Releasing \/ state = "COOLDOWN" -> "cooldown"
      [] cpc \notin Releasing /\ state \in {"ARMED", "CLAIMED"} -> "ready"
      [] cpc \notin Releasing /\ state \in {"COLLECTING_POST", "FROZEN"} ->
             IF reporting THEN "reported" ELSE "held"

Cycle == INSTANCE TriggerCycle WITH
            Ids      <- 1..MaxEvents,
            phase    <- CyclePhase,
            held     <- IF CyclePhase \in {"held", "reported"} THEN activeTrigger.id ELSE 0,
            reported <- [i \in DOMAIN reports |-> reports[i].id]

ImplementsCycle == Cycle!Spec

=============================================================================
