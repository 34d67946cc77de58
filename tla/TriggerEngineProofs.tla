------------------------- MODULE TriggerEngineProofs -------------------------
(***************************************************************************)
(* Theorems about TriggerEngine, for every finite set of producers, every  *)
(* bound on events, every choice of durations and of the two switches.     *)
(***************************************************************************)
EXTENDS TriggerEngine, FiniteSetTheorems, TLAPS

-----------------------------------------------------------------------------
(* Type correctness.                                                       *)

LEMMA TypeInit == Init => TypeOK
<1> SUFFICES ASSUME Init PROVE TypeOK
  OBVIOUS
<1> USE EngineAssumption DEF Init
<1>1. NoTrigger \in Payloads
  BY DEF NoTrigger, Payloads, NoSource
<1>2. EngineTypes
  BY <1>1 DEF EngineTypes, States, Deadlines, NoSource
<1>3. ThreadTypes
  BY <1>1 DEF ThreadTypes, ProducerPcs, ConsumerPcs
<1>4. HistoryTypes
  BY DEF HistoryTypes
<1> QED
  BY <1>2, <1>3, <1>4 DEF TypeOK

LEMMA TypeOffer ==
  ASSUME TypeOK, NEW p \in Producers, Offers(p)
  PROVE  TypeOK'
<1>1. PICK source \in Sources, dur \in Durations \cup {0}, next \in ProducerPcs :
         next # "idle" /\ Offer(p, source, dur, next)
  BY DEF Offers, OnDxgiPresent, OnOtherGlitch, OnKernelFrameStall, Sources, ProducerPcs, LockHeld
<1>2. dxgiSeen' \in BOOLEAN
  BY DEF Offers, OnDxgiPresent, OnOtherGlitch, OnKernelFrameStall, TypeOK, EngineTypes
<1>3. EngineTypes'
  BY <1>1, <1>2 DEF Offer, TypeOK, EngineTypes, payload, deadlines
<1>4. offered \in 0..MaxEvents /\ offered < MaxEvents /\ offered' = offered + 1
  BY <1>1 DEF Offer, TypeOK, HistoryTypes
<1>5. cand'[p] \in TriggerInfos /\ cand' \in [Producers -> Payloads]
      /\ \A q \in Producers \ {p} : cand'[q] = cand[q]
  BY <1>1, <1>4, EngineAssumption DEF Offer, TypeOK, ThreadTypes, TriggerInfos, Payloads
<1>6. ThreadTypes'
  BY <1>1, <1>5 DEF Offer, Goto, TypeOK, ThreadTypes, consumer
<1>7. HistoryTypes'
  BY <1>1, <1>4, EngineAssumption DEF Offer, TypeOK, HistoryTypes, consumer
<1> QED
  BY <1>3, <1>6, <1>7 DEF TypeOK

(* A producer under way keeps its candidate; its step leaves the consumer  *)
(* alone and goes to a next step.                                          *)
LEMMA ProduceMoves ==
  ASSUME TypeOK, NEW p \in Producers, Produce(p)
  PROVE  /\ pc[p] # "idle"
         /\ \E to \in ProducerPcs : pc' = [pc EXCEPT ![p] = to]
         /\ UNCHANGED <<cand, dxgiSeen, cpc, rseq, rcopy, reporting, reports, offered>>
         /\ accepted' = accepted \/ accepted' = accepted \cup {cand[p].id}
<1> USE DEF Goto, Settle, Suppress, ProducerPcs, LockHeld, stats, consumer
<1>1. CASE StallGate(p)
  BY <1>1 DEF StallGate
<1>2. CASE StallRoute(p)
  BY <1>2 DEF StallRoute
<1>3. CASE StallRouteSource(p)
  BY <1>3 DEF StallRouteSource
<1>4. CASE StallStage(p)
  BY <1>4 DEF StallStage
<1>5. CASE SeverityGate(p)
  BY <1>5 DEF SeverityGate
<1>6. CASE TakeWriterLock(p)
  BY <1>6 DEF TakeWriterLock
<1>7. CASE ClaimState(p)
  BY <1>7 DEF ClaimState
<1>8. CASE BumpGeneration(p)
  BY <1>8 DEF BumpGeneration
<1>9. CASE StoreClaimedTs(p)
  BY <1>9 DEF StoreClaimedTs
<1>10. CASE StoreActiveSource(p)
  BY <1>10 DEF StoreActiveSource
<1>11. CASE StorePostTarget(p)
  BY <1>11 DEF StorePostTarget
<1>12. CASE CheckGeneration(p)
  BY <1>12 DEF CheckGeneration
<1>13. CASE PublishBegin(p)
  BY <1>13 DEF PublishBegin
<1>14. CASE PublishCopy(p)
  BY <1>14 DEF PublishCopy
<1>15. CASE PublishEnd(p)
  BY <1>15 DEF PublishEnd
<1>16. CASE RecheckGeneration(p)
  BY <1>16 DEF RecheckGeneration
<1>17. CASE CommitTrigger(p)
  BY <1>17 DEF CommitTrigger
<1> QED
  BY <1>1, <1>2, <1>3, <1>4, <1>5, <1>6, <1>7, <1>8, <1>9, <1>10, <1>11, <1>12, <1>13, <1>14, <1>15, <1>16, <1>17 DEF Produce

LEMMA TypeProduce ==
  ASSUME TypeOK, NEW p \in Producers, Produce(p)
  PROVE  TypeOK'
<1>1. EngineTypes'
  <2> USE EngineAssumption DEF TypeOK, EngineTypes, payload, deadlines
  <2>1. CASE StallGate(p)
    BY <2>1 DEF StallGate
  <2>2. CASE StallRoute(p)
    BY <2>2 DEF StallRoute
  <2>3. CASE StallRouteSource(p)
    BY <2>3 DEF StallRouteSource
  <2>4. CASE StallStage(p)
    BY <2>4 DEF StallStage, ThreadTypes, TriggerInfos
  <2>5. CASE SeverityGate(p)
    BY <2>5 DEF SeverityGate
  <2>6. CASE TakeWriterLock(p)
    BY <2>6 DEF TakeWriterLock
  <2>7. CASE ClaimState(p)
    BY <2>7 DEF ClaimState, States
  <2>8. CASE BumpGeneration(p)
    BY <2>8 DEF BumpGeneration
  <2>9. CASE StoreClaimedTs(p)
    BY <2>9 DEF StoreClaimedTs, Deadlines
  <2>10. CASE StoreActiveSource(p)
    BY <2>10 DEF StoreActiveSource, ThreadTypes, TriggerInfos, Goto
  <2>11. CASE StorePostTarget(p)
    BY <2>11 DEF StorePostTarget, Deadlines
  <2>12. CASE CheckGeneration(p)
    BY <2>12 DEF CheckGeneration
  <2>13. CASE PublishBegin(p)
    BY <2>13 DEF PublishBegin
  <2>14. CASE PublishCopy(p)
    BY <2>14 DEF PublishCopy, ThreadTypes, Payloads, TornTrigger
  <2>15. CASE PublishEnd(p)
    BY <2>15 DEF PublishEnd
  <2>16. CASE RecheckGeneration(p)
    BY <2>16 DEF RecheckGeneration, Deadlines
  <2>17. CASE CommitTrigger(p)
    BY <2>17 DEF CommitTrigger, States
  <2> QED
    BY <2>1, <2>2, <2>3, <2>4, <2>5, <2>6, <2>7, <2>8, <2>9, <2>10, <2>11, <2>12, <2>13, <2>14, <2>15, <2>16, <2>17 DEF Produce
<1>2. ThreadTypes'
  <2>1. gen' \in [Producers -> Nat]
    BY DEF Produce, StallGate, StallRoute, StallRouteSource, StallStage, SeverityGate,
       TakeWriterLock, ClaimState, BumpGeneration, StoreClaimedTs, StoreActiveSource,
       StorePostTarget, CheckGeneration, PublishBegin, PublishCopy, PublishEnd,
       RecheckGeneration, CommitTrigger, TypeOK, ThreadTypes, EngineTypes
  <2> QED
    BY <2>1, ProduceMoves DEF TypeOK, ThreadTypes
<1>3. HistoryTypes'
  <2>1. accepted' \subseteq 1..MaxEvents
    <3>1. cand[p] \in TriggerInfos
      BY ProduceMoves DEF TypeOK, ThreadTypes
    <3>2. cand[p].id \in 1..MaxEvents
      BY <3>1 DEF TriggerInfos
    <3> QED
      BY <3>2, ProduceMoves DEF TypeOK, HistoryTypes
  <2>2. suppressed' \in Nat /\ settled' \in Nat
    BY DEF Produce, StallGate, StallRoute, StallRouteSource, StallStage, SeverityGate,
       TakeWriterLock, ClaimState, BumpGeneration, StoreClaimedTs, StoreActiveSource,
       StorePostTarget, CheckGeneration, PublishBegin, PublishCopy, PublishEnd,
       RecheckGeneration, CommitTrigger, Suppress, Settle, stats, TypeOK, HistoryTypes
  <2> QED
    BY <2>1, <2>2, ProduceMoves DEF TypeOK, HistoryTypes
<1> QED
  BY <1>1, <1>2, <1>3 DEF TypeOK

(* A step of the consumer leaves every producer where it was.              *)
LEMMA PollMoves ==
  ASSUME Poll \/ CompleteReport
  PROVE  UNCHANGED <<producers, claimGeneration, payload>>
BY DEF CompleteReport, Poll, PollState, PollClaimed, PollPost, PollFrozen, PollConsume,
   ReadSeq, ReadCopy, ReadVerify, EmitReport, PollCooldown, ReleaseTimes, ReleaseSource,
   ReleaseStaged, ReleaseConsumed, ReleaseState

LEMMA TypePoll ==
  ASSUME TypeOK, Poll
  PROVE  TypeOK'
<1>1. UNCHANGED <<claimGeneration, writerLock, activeSeq, activeTrigger, dxgiSeen>>
      /\ UNCHANGED <<pc, cand, gen, suppressed, settled, offered, accepted>>
  BY PollMoves DEF producers, payload, stats
<1>2. EngineTypes'
  <2> USE <1>1 DEF TypeOK, EngineTypes, deadlines
  <2>1. CASE PollState
    BY <2>1 DEF PollState
  <2>2. CASE PollClaimed
    BY <2>2 DEF PollClaimed, CGoto
  <2>3. CASE PollPost
    <3>1. reportConsumed' \in BOOLEAN
      BY <2>3 DEF PollPost
    <3>2. state' \in States /\ frozenTs' \in Deadlines
      BY <2>3 DEF PollPost, Deadlines, States
    <3> QED
      BY <2>3, <3>1, <3>2 DEF PollPost
  <2>4. CASE PollFrozen
    BY <2>4 DEF PollFrozen, Deadlines, CGoto
  <2>5. CASE PollConsume
    BY <2>5 DEF PollConsume
  <2>6. CASE ReadSeq
    BY <2>6 DEF ReadSeq
  <2>7. CASE ReadCopy
    BY <2>7 DEF ReadCopy
  <2>8. CASE ReadVerify
    BY <2>8 DEF ReadVerify
  <2>9. CASE EmitReport
    BY <2>9 DEF EmitReport
  <2>10. CASE PollCooldown
    BY <2>10 DEF PollCooldown, States
  <2>11. CASE ReleaseTimes
    BY <2>11 DEF ReleaseTimes, Deadlines
  <2>12. CASE ReleaseSource
    BY <2>12 DEF ReleaseSource
  <2>13. CASE ReleaseStaged
    BY <2>13 DEF ReleaseStaged
  <2>14. CASE ReleaseConsumed
    BY <2>14 DEF ReleaseConsumed
  <2>15. CASE ReleaseState
    BY <2>15 DEF ReleaseState, States
  <2> QED
    BY <2>1, <2>2, <2>3, <2>4, <2>5, <2>6, <2>7, <2>8, <2>9, <2>10, <2>11, <2>12, <2>13, <2>14, <2>15 DEF Poll
<1>3. ThreadTypes' /\ reports' \in Seq(Payloads)
  <2> USE <1>1 DEF TypeOK, ThreadTypes, HistoryTypes, CGoto, ConsumerPcs
  <2>1. CASE PollState
    BY <2>1 DEF PollState
  <2>2. CASE PollClaimed
    BY <2>2 DEF PollClaimed
  <2>3. CASE PollPost
    BY <2>3 DEF PollPost
  <2>4. CASE PollFrozen
    BY <2>4 DEF PollFrozen
  <2>5. CASE PollConsume
    BY <2>5 DEF PollConsume
  <2>6. CASE ReadSeq
    BY <2>6 DEF ReadSeq, EngineTypes
  <2>7. CASE ReadCopy
    BY <2>7 DEF ReadCopy, EngineTypes
  <2>8. CASE ReadVerify
    BY <2>8 DEF ReadVerify
  <2>9. CASE EmitReport
    <3>1. Upgraded(rcopy, stagedGpu) \in Payloads
      BY DEF EngineTypes, Upgraded, Payloads, Sources
    <3> QED
      BY <2>9, <3>1 DEF EmitReport
  <2>10. CASE PollCooldown
    BY <2>10 DEF PollCooldown
  <2>11. CASE ReleaseTimes
    BY <2>11 DEF ReleaseTimes
  <2>12. CASE ReleaseSource
    BY <2>12 DEF ReleaseSource
  <2>13. CASE ReleaseStaged
    BY <2>13 DEF ReleaseStaged
  <2>14. CASE ReleaseConsumed
    BY <2>14 DEF ReleaseConsumed
  <2>15. CASE ReleaseState
    BY <2>15 DEF ReleaseState
  <2> QED
    BY <2>1, <2>2, <2>3, <2>4, <2>5, <2>6, <2>7, <2>8, <2>9, <2>10, <2>11, <2>12, <2>13, <2>14, <2>15 DEF Poll
<1> QED
  BY <1>1, <1>2, <1>3 DEF TypeOK, HistoryTypes

LEMMA TypeNext == TypeOK /\ [Next]_vars => TypeOK'
<1> SUFFICES ASSUME TypeOK, [Next]_vars PROVE TypeOK'
  OBVIOUS
<1>1. CASE \E p \in Producers : Offers(p) \/ Produce(p)
  BY <1>1, TypeOffer, TypeProduce
<1>2. CASE Poll
  BY <1>2, TypePoll
<1>3. CASE CompleteReport
  <2> USE <1>3 DEF CompleteReport, TypeOK, payload, deadlines, producers, stats
  <2>1. EngineTypes'
    BY DEF EngineTypes
  <2>2. ThreadTypes'
    BY DEF CGoto, ThreadTypes, ConsumerPcs
  <2>3. HistoryTypes'
    BY DEF HistoryTypes
  <2> QED
    BY <2>1, <2>2, <2>3
<1>4. CASE Elapse
  <2> USE <1>4 DEF Elapse, TypeOK, payload, producers, consumer, stats
  <2>1. EngineTypes'
    BY DEF EngineTypes, Deadlines
  <2>2. ThreadTypes'
    BY DEF ThreadTypes
  <2>3. HistoryTypes'
    BY DEF HistoryTypes
  <2> QED
    BY <2>1, <2>2, <2>3
<1>5. CASE UNCHANGED vars
  <2> USE <1>5 DEF vars, TypeOK, payload, deadlines, consumer, stats
  <2>1. EngineTypes'
    BY DEF EngineTypes
  <2>2. ThreadTypes'
    BY DEF ThreadTypes
  <2>3. HistoryTypes'
    BY DEF HistoryTypes
  <2> QED
    BY <2>1, <2>2, <2>3
<1> QED
  BY <1>1, <1>2, <1>3, <1>4, <1>5 DEF Next

(* Every reachable state is well typed.                                    *)
THEOREM TypeCorrect == Spec => []TypeOK
<1>1. Init => TypeOK
  BY TypeInit
<1>2. TypeOK /\ [Next]_vars => TypeOK'
  BY TypeNext
<1> QED
  BY <1>1, <1>2, PTL DEF Spec

-----------------------------------------------------------------------------
(* Every event is counted once.  Ids are the order in which events were    *)
(* offered, so an accepted id is never that of an event still under way.   *)

IdInv ==
    /\ accepted \subseteq 1..offered
    /\ \A p \in Busy : cand[p].id \in 1..offered \ accepted
    /\ \A p, q \in Busy : p # q => cand[p].id # cand[q].id

CountInv == IdInv /\ Accounting

(* An event under way continues, or ends in exactly one of three ways.     *)
LEMMA ProduceOutcome ==
  ASSUME NEW p \in Producers, Produce(p)
  PROVE  \/ (\E to \in ProducerPcs \ {"idle"} : pc' = [pc EXCEPT ![p] = to]) /\ UNCHANGED stats
         \/ Settle(p)
         \/ Suppress(p)
         \/ /\ pc' = [pc EXCEPT ![p] = "idle"]
            /\ accepted' = accepted \cup {cand[p].id}
            /\ UNCHANGED <<suppressed, offered, settled>>
<1> USE DEF Goto, ProducerPcs, LockHeld, stats
<1>1. CASE StallGate(p)
  BY <1>1 DEF StallGate
<1>2. CASE StallRoute(p)
  BY <1>2 DEF StallRoute
<1>3. CASE StallRouteSource(p)
  BY <1>3 DEF StallRouteSource
<1>4. CASE StallStage(p)
  BY <1>4 DEF StallStage
<1>5. CASE SeverityGate(p)
  BY <1>5 DEF SeverityGate
<1>6. CASE TakeWriterLock(p)
  BY <1>6 DEF TakeWriterLock
<1>7. CASE ClaimState(p)
  BY <1>7 DEF ClaimState
<1>8. CASE BumpGeneration(p)
  BY <1>8 DEF BumpGeneration
<1>9. CASE StoreClaimedTs(p)
  BY <1>9 DEF StoreClaimedTs
<1>10. CASE StoreActiveSource(p)
  BY <1>10 DEF StoreActiveSource
<1>11. CASE StorePostTarget(p)
  BY <1>11 DEF StorePostTarget
<1>12. CASE CheckGeneration(p)
  BY <1>12 DEF CheckGeneration
<1>13. CASE PublishBegin(p)
  BY <1>13 DEF PublishBegin
<1>14. CASE PublishCopy(p)
  BY <1>14 DEF PublishCopy
<1>15. CASE PublishEnd(p)
  BY <1>15 DEF PublishEnd
<1>16. CASE RecheckGeneration(p)
  BY <1>16 DEF RecheckGeneration
<1>17. CASE CommitTrigger(p)
  BY <1>17 DEF CommitTrigger
<1> QED
  BY <1>1, <1>2, <1>3, <1>4, <1>5, <1>6, <1>7, <1>8, <1>9, <1>10, <1>11, <1>12, <1>13, <1>14, <1>15, <1>16, <1>17 DEF Produce

LEMMA CountFinite ==
  ASSUME offered \in Nat, CountInv
  PROVE  IsFiniteSet(Busy) /\ IsFiniteSet(accepted)
<1>1. IsFiniteSet(1..offered)
  BY FS_Interval
<1> QED
  BY <1>1, EngineAssumption, FS_Subset DEF Busy, CountInv, IdInv

LEMMA CountProduce ==
  ASSUME TypeOK, CountInv, NEW p \in Producers, Produce(p)
  PROVE  CountInv'
<1> DEFINE id == cand[p].id
<1>1. /\ suppressed \in Nat /\ settled \in Nat /\ offered \in Nat
      /\ pc \in [Producers -> ProducerPcs]
  BY DEF TypeOK, HistoryTypes, ThreadTypes
<1>2. p \in Busy /\ UNCHANGED <<cand, offered>>
  BY ProduceMoves DEF Busy
<1>3. IsFiniteSet(Busy) /\ IsFiniteSet(accepted)
  BY <1>1, CountFinite
<1>4. /\ Cardinality(Busy) \in Nat /\ Cardinality(accepted) \in Nat
      /\ Cardinality(Busy \ {p}) = Cardinality(Busy) - 1
      /\ Cardinality(accepted \cup {id}) = Cardinality(accepted) + 1
  BY <1>2, <1>3, FS_CardinalityType, FS_RemoveElement, FS_AddElement DEF CountInv, IdInv
<1>5. ASSUME pc' = [pc EXCEPT ![p] = "idle"] PROVE Busy' = Busy \ {p}
  BY <1>1, <1>5 DEF Busy
<1>6. CASE (\E to \in ProducerPcs \ {"idle"} : pc' = [pc EXCEPT ![p] = to]) /\ UNCHANGED stats
  <2>1. Busy' = Busy
    BY <1>1, <1>2, <1>6 DEF Busy
  <2> QED
    BY <1>2, <1>6, <2>1 DEF CountInv, IdInv, Accounting, Busy, stats
<1>7. CASE Settle(p)
  <2>1. Busy' = Busy \ {p}
    BY <1>5, <1>7 DEF Settle
  <2>2. IdInv'
    BY <1>2, <1>7, <2>1 DEF Settle, CountInv, IdInv
  <2> QED
    BY <1>1, <1>2, <1>4, <1>7, <2>1, <2>2 DEF Settle, CountInv, Accounting
<1>8. CASE Suppress(p)
  <2>1. Busy' = Busy \ {p}
    BY <1>5, <1>8 DEF Suppress
  <2>2. IdInv'
    BY <1>2, <1>8, <2>1 DEF Suppress, CountInv, IdInv
  <2> QED
    BY <1>1, <1>2, <1>4, <1>8, <2>1, <2>2 DEF Suppress, CountInv, Accounting
<1>9. CASE /\ pc' = [pc EXCEPT ![p] = "idle"]
           /\ accepted' = accepted \cup {cand[p].id}
           /\ UNCHANGED <<suppressed, offered, settled>>
  <2>1. Busy' = Busy \ {p}
    BY <1>5, <1>9
  <2>2. IdInv'
    BY <1>2, <1>9, <2>1 DEF CountInv, IdInv
  <2> QED
    BY <1>1, <1>2, <1>4, <1>9, <2>1, <2>2 DEF CountInv, Accounting
<1> QED
  BY <1>6, <1>7, <1>8, <1>9, ProduceOutcome

LEMMA CountOffer ==
  ASSUME TypeOK, CountInv, NEW p \in Producers, Offers(p)
  PROVE  CountInv'
<1>1. PICK source \in Sources, dur \in Durations \cup {0}, next \in ProducerPcs :
         next # "idle" /\ Offer(p, source, dur, next)
  BY DEF Offers, OnDxgiPresent, OnOtherGlitch, OnKernelFrameStall, Sources, ProducerPcs, LockHeld
<1>2. /\ suppressed \in Nat /\ settled \in Nat /\ offered \in Nat
      /\ pc \in [Producers -> ProducerPcs] /\ cand \in [Producers -> Payloads]
  BY DEF TypeOK, HistoryTypes, ThreadTypes
<1>3. p \notin Busy /\ Busy' = Busy \cup {p} /\ offered' = offered + 1
      /\ UNCHANGED <<accepted, suppressed, settled>>
  BY <1>1, <1>2 DEF Busy, Offer, Goto
<1>4. cand'[p].id = offered + 1 /\ \A q \in Producers \ {p} : cand'[q] = cand[q]
  BY <1>1, <1>2 DEF Offer
<1>5. IdInv'
  BY <1>2, <1>3, <1>4 DEF CountInv, IdInv, Busy
<1>6. IsFiniteSet(Busy) /\ IsFiniteSet(accepted)
  BY <1>2, CountFinite
<1>7. /\ Cardinality(Busy) \in Nat /\ Cardinality(accepted) \in Nat
      /\ Cardinality(Busy \cup {p}) = Cardinality(Busy) + 1
  BY <1>3, <1>6, FS_CardinalityType, FS_AddElement
<1> QED
  BY <1>2, <1>3, <1>5, <1>7 DEF CountInv, Accounting

LEMMA CountNext == TypeOK /\ CountInv /\ [Next]_vars => CountInv'
<1> SUFFICES ASSUME TypeOK, CountInv, [Next]_vars PROVE CountInv'
  OBVIOUS
<1> USE DEF CountInv, IdInv, Accounting, Busy
<1>1. CASE \E p \in Producers : Offers(p) \/ Produce(p)
  BY <1>1, CountOffer, CountProduce
<1>2. CASE Poll \/ CompleteReport
  BY <1>2, PollMoves DEF producers, stats
<1>3. CASE Elapse
  BY <1>3 DEF Elapse, producers, stats
<1>4. CASE UNCHANGED vars
  BY <1>4 DEF vars, stats
<1> QED
  BY <1>1, <1>2, <1>3, <1>4 DEF Next

(* No event is lost or counted twice, for any number of producers.         *)
THEOREM AccountingAlways == Spec => []Accounting
<1>1. Init => CountInv
  <2>1. Init => Busy = {}
    BY DEF Init, Busy
  <2> QED
    BY <2>1, FS_EmptySet DEF Init, CountInv, IdInv, Accounting, Busy
<1>2. CountInv => Accounting
  BY DEF CountInv
<1> QED
  BY <1>1, <1>2, TypeInit, TypeNext, CountNext, PTL DEF Spec

-----------------------------------------------------------------------------
(* The writer lock excludes, and the generation of the one who holds it    *)
(* for publishing is the newest.                                           *)

LockInv == \A p \in Producers : pc[p] \in LockHeld => writerLock = p

GenInv ==
    \A p \in Producers :
        /\ gen[p] <= claimGeneration
        /\ pc[p] \in Publishing \cup {"publishBegin"} => gen[p] = claimGeneration

(* What a producer's step does to the lock and to the claim generation.    *)
LEMMA ProduceLocks ==
  ASSUME TypeOK, LockInv, GenInv, NEW p \in Producers, Produce(p)
  PROVE  /\ LockInv'
         /\ GenInv'
<1>1. NoThread # p /\ pc \in [Producers -> ProducerPcs] /\ gen \in [Producers -> Nat]
      /\ claimGeneration \in Nat /\ (\A q \in Producers : q # NoThread)
  BY EngineAssumption DEF TypeOK, ThreadTypes, EngineTypes
<1> USE <1>1 DEF LockInv, GenInv, LockHeld, Publishing, Goto, Settle, Suppress, payload
<1>2. CASE StallGate(p)
  BY <1>2 DEF StallGate
<1>3. CASE StallRoute(p)
  BY <1>3 DEF StallRoute
<1>4. CASE StallRouteSource(p)
  BY <1>4 DEF StallRouteSource
<1>5. CASE StallStage(p)
  BY <1>5 DEF StallStage
<1>6. CASE SeverityGate(p)
  BY <1>6 DEF SeverityGate
<1>7. CASE TakeWriterLock(p)
  BY <1>7 DEF TakeWriterLock
<1>8. CASE ClaimState(p)
  BY <1>8 DEF ClaimState
<1>9. CASE BumpGeneration(p)
  BY <1>9 DEF BumpGeneration
<1>10. CASE StoreClaimedTs(p)
  BY <1>10 DEF StoreClaimedTs
<1>11. CASE StoreActiveSource(p)
  BY <1>11 DEF StoreActiveSource
<1>12. CASE StorePostTarget(p)
  BY <1>12 DEF StorePostTarget
<1>13. CASE CheckGeneration(p)
  BY <1>13 DEF CheckGeneration
<1>14. CASE PublishBegin(p)
  BY <1>14 DEF PublishBegin
<1>15. CASE PublishCopy(p)
  BY <1>15 DEF PublishCopy
<1>16. CASE PublishEnd(p)
  BY <1>16 DEF PublishEnd
<1>17. CASE RecheckGeneration(p)
  BY <1>17 DEF RecheckGeneration
<1>18. CASE CommitTrigger(p)
  BY <1>18 DEF CommitTrigger
<1> QED
  BY <1>2, <1>3, <1>4, <1>5, <1>6, <1>7, <1>8, <1>9, <1>10, <1>11, <1>12, <1>13, <1>14, <1>15, <1>16, <1>17, <1>18 DEF Produce

LEMMA LockNext == TypeOK /\ LockInv /\ GenInv /\ [Next]_vars => LockInv' /\ GenInv'
<1> SUFFICES ASSUME TypeOK, LockInv, GenInv, [Next]_vars PROVE LockInv' /\ GenInv'
  OBVIOUS
<1>1. ASSUME NEW p \in Producers, Offers(p) PROVE LockInv' /\ GenInv'
  BY <1>1 DEF Offers, OnDxgiPresent, OnOtherGlitch, OnKernelFrameStall, Offer, Goto, TypeOK,
     ThreadTypes, LockInv, GenInv, LockHeld, Publishing, payload
<1>2. ASSUME NEW p \in Producers, Produce(p) PROVE LockInv' /\ GenInv'
  BY <1>2, ProduceLocks
<1>3. CASE Poll \/ CompleteReport
  BY <1>3, PollMoves DEF producers, payload, LockInv, GenInv
<1>4. CASE Elapse
  BY <1>4 DEF Elapse, producers, payload, LockInv, GenInv
<1>5. CASE UNCHANGED vars
  BY <1>5 DEF vars, payload, LockInv, GenInv
<1> QED
  BY <1>1, <1>2, <1>3, <1>4, <1>5 DEF Next

LEMMA LockInit == Init => LockInv /\ GenInv
  BY DEF Init, LockInv, GenInv, LockHeld, Publishing

LEMMA LockAlways == Spec => [](TypeOK /\ LockInv /\ GenInv)
  BY TypeInit, TypeNext, LockInit, LockNext, PTL DEF Spec

(* Only the newest claim publishes, for any number of producers.           *)
THEOREM NewestPublishesAlways == Spec => []NewestPublishes
<1>1. TypeOK /\ LockInv /\ GenInv => NewestPublishes
  BY DEF GenInv, NewestPublishes, Publishing
<1> QED
  BY <1>1, LockAlways, PTL

-----------------------------------------------------------------------------
(* The seqlock: odd exactly while the lock's holder copies the payload.    *)

SeqInv ==
    /\ activeSeq % 2 = 1 <=> \E p \in Producers : pc[p] \in Publishing
    /\ activeTrigger.source = "TORN" => \E p \in Producers : pc[p] = "publishCopied"

(* A consumer whose two reads of the sequence agree holds an intact copy.  *)
ReadInv ==
    /\ cpc \in {"readCopy", "readVerify"} => rseq % 2 = 0 /\ rseq <= activeSeq
    /\ cpc = "readVerify" /\ rseq = activeSeq => rcopy.source # "TORN"
    /\ cpc = "upgrade" => rcopy.source # "TORN"

TornInv == SeqInv /\ ReadInv /\ NoTornReport

LEMMA TornInit == Init => TornInv
  BY DEF Init, TornInv, SeqInv, ReadInv, NoTornReport, NoTrigger, NoSource, Publishing

(* Only the three steps of Phase 3 touch the seqlock and its payload.      *)
LEMMA ProduceKeepsPayload ==
  ASSUME NEW p \in Producers, Produce(p), ~PublishBegin(p), ~PublishCopy(p), ~PublishEnd(p)
  PROVE  /\ UNCHANGED <<activeSeq, activeTrigger>>
         /\ \E to \in ProducerPcs \ Publishing : pc' = [pc EXCEPT ![p] = to]
         /\ pc[p] \notin Publishing
BY DEF Produce, StallGate, StallRoute, StallRouteSource, StallStage, SeverityGate,
   TakeWriterLock, ClaimState, BumpGeneration, StoreClaimedTs, StoreActiveSource,
   StorePostTarget, CheckGeneration, RecheckGeneration, CommitTrigger, Settle, Suppress,
   Goto, payload, ProducerPcs, LockHeld, Publishing

LEMMA SeqProduce ==
  ASSUME TypeOK, LockInv, SeqInv, NEW p \in Producers, Produce(p)
  PROVE  SeqInv' /\ activeSeq' >= activeSeq
         /\ (activeTrigger' # activeTrigger => activeSeq % 2 = 1)
<1>1. pc \in [Producers -> ProducerPcs] /\ activeSeq \in Nat
  BY DEF TypeOK, ThreadTypes, EngineTypes
<1>2. \A q \in Producers : pc[p] \in LockHeld /\ pc[q] \in LockHeld => q = p
  BY DEF LockInv
<1> USE <1>1, <1>2 DEF Goto, SeqInv, Publishing, LockHeld
<1>3. CASE PublishBegin(p)
  BY <1>3 DEF PublishBegin
<1>4. CASE PublishCopy(p)
  <2>1. CASE pc[p] = "publishCopy"
    BY <1>4, <2>1 DEF PublishCopy
  <2>2. CASE pc[p] = "publishCopied"
    <3>1. cand[p].source # "TORN"
      BY <2>2 DEF TypeOK, ThreadTypes, TriggerInfos, Sources
    <3> QED
      BY <1>4, <2>2, <3>1 DEF PublishCopy
  <2> QED
    BY <1>4, <2>1, <2>2 DEF PublishCopy
<1>5. CASE PublishEnd(p)
  BY <1>5 DEF PublishEnd
<1>6. CASE ~PublishBegin(p) /\ ~PublishCopy(p) /\ ~PublishEnd(p)
  BY <1>6, ProduceKeepsPayload
<1> QED
  BY <1>3, <1>4, <1>5, <1>6

LEMMA ReadPoll ==
  ASSUME TypeOK, SeqInv, ReadInv, NoTornReport, Poll
  PROVE  ReadInv' /\ NoTornReport'
<1>1. activeSeq' = activeSeq /\ activeSeq \in Nat /\ reports \in Seq(Payloads)
  BY PollMoves DEF payload, TypeOK, EngineTypes, HistoryTypes
<1> USE <1>1 DEF CGoto, ReadInv, NoTornReport
<1>2. CASE ReadSeq
  BY <1>2 DEF ReadSeq
<1>3. CASE ReadCopy
  <2>1. activeSeq % 2 = 0 => activeTrigger.source # "TORN"
    BY DEF SeqInv, Publishing
  <2> QED
    BY <1>3, <2>1 DEF ReadCopy
<1>4. CASE ReadVerify
  BY <1>4 DEF ReadVerify
<1>5. CASE EmitReport
  <2>1. Upgraded(rcopy, stagedGpu).source # "TORN" /\ Upgraded(rcopy, stagedGpu) \in Payloads
    BY <1>5 DEF EmitReport, Upgraded, TypeOK, ThreadTypes, EngineTypes, Payloads, Sources
  <2>2. NoTornReport'
    BY <1>5, <2>1 DEF EmitReport
  <2> QED
    BY <1>5, <2>2 DEF EmitReport
<1>6. CASE cpc' \notin {"readCopy", "readVerify", "upgrade"} /\ UNCHANGED reports
  BY <1>6
<1>7. Poll => ReadSeq \/ ReadCopy \/ ReadVerify \/ EmitReport
              \/ (cpc' \notin {"readCopy", "readVerify", "upgrade"} /\ UNCHANGED reports)
  BY DEF Poll, PollState, PollClaimed, PollPost, PollFrozen, PollConsume, PollCooldown,
     ReleaseTimes, ReleaseSource, ReleaseStaged, ReleaseConsumed, ReleaseState
<1> QED
  BY <1>2, <1>3, <1>4, <1>5, <1>6, <1>7

LEMMA TornNext ==
  TypeOK /\ TypeOK' /\ LockInv /\ TornInv /\ [Next]_vars => TornInv'
<1> SUFFICES ASSUME TypeOK, TypeOK', LockInv, TornInv, [Next]_vars PROVE TornInv'
  OBVIOUS
<1> USE DEF TornInv
<1>1. ASSUME NEW p \in Producers, Offers(p) PROVE TornInv'
  BY <1>1, ZenonT(30) DEF Offers, OnDxgiPresent, OnOtherGlitch, OnKernelFrameStall, Offer, Goto, TypeOK,
     ThreadTypes, SeqInv, ReadInv, NoTornReport, Publishing, payload, consumer
<1>2. ASSUME NEW p \in Producers, Produce(p) PROVE TornInv'
  <2>1. UNCHANGED <<cpc, rseq, rcopy, reports>> /\ rseq \in Nat
        /\ activeSeq \in Nat /\ activeSeq' \in Nat
    BY <1>2, ProduceMoves DEF TypeOK, ThreadTypes, EngineTypes
  <2>2. SeqInv' /\ activeSeq' >= activeSeq
    BY <1>2, SeqProduce
  <2> QED
    BY <2>1, <2>2 DEF ReadInv, NoTornReport
<1>3. CASE Poll
  <2>1. SeqInv'
    BY <1>3, PollMoves DEF producers, payload, SeqInv
  <2> QED
    BY <1>3, <2>1, ReadPoll
<1>4. CASE CompleteReport
  BY <1>4 DEF CompleteReport, CGoto, producers, payload, SeqInv, ReadInv, NoTornReport
<1>5. CASE Elapse
  BY <1>5 DEF Elapse, producers, consumer, payload, SeqInv, ReadInv, NoTornReport
<1>6. CASE UNCHANGED vars
  BY <1>6 DEF vars, consumer, payload, SeqInv, ReadInv, NoTornReport
<1> QED
  BY <1>1, <1>2, <1>3, <1>4, <1>5, <1>6 DEF Next

(* No report carries a half-written payload, for any number of writers.    *)
THEOREM NoTornReportAlways == Spec => []NoTornReport
<1>1. Init => TornInv
  BY TornInit
<1>2. Spec => []TornInv
  BY <1>1, TornNext, LockAlways, PTL DEF Spec
<1>3. TornInv => NoTornReport
  BY DEF TornInv
<1> QED
  BY <1>2, <1>3, PTL

-----------------------------------------------------------------------------
(* The cycle of a trigger, when every claim is published within the        *)
(* watchdog's five seconds.  (With claims that outlive it a superseded     *)
(* writer commits the newer claim, and what follows does not hold.)        *)

(* From the claim of the engine to the end of initiate_trigger_atomic.     *)
Claiming == (LockHeld \ {"claim"}) \cup
            {"metaTs", "metaSource", "metaPost", "publishLock", "recheckGen", "commit"}

(* One producer at a time is in its claim, and while it is the engine is   *)
(* CLAIMED; past the copy active_trigger_ is its candidate.                *)
ClaimInv ==
    /\ claimedTs # "expired"
    /\ \A p \in Producers : pc[p] \in Claiming =>
          /\ state = "CLAIMED"
          /\ \A q \in Producers : pc[q] \in Claiming => q = p
          /\ pc[p] \in {"publishEnd", "recheckGen", "commit"} => activeTrigger = cand[p]

(* What the consumer loaded of state_ is what it still is, an open report  *)
(* is of a frozen trigger and marked consumed, and the copy a report is    *)
(* made of is the trigger that is held.                                    *)
Reading  == {"readSeq", "readCopy", "readVerify", "upgrade"}
OnFrozen == Reading \cup Releasing \cup {"pollFrozen", "consume", "releaseTimes"}

PollInv ==
    /\ cpc = "pollPost" => state = "COLLECTING_POST"
    /\ cpc = "pollCooldown" => state = "COOLDOWN"
    /\ cpc \in OnFrozen => state = "FROZEN"
    /\ reporting => state = "FROZEN" /\ reportConsumed /\ cpc \notin Reading \cup Releasing
    /\ cpc \in Reading => reportConsumed
    /\ cpc \in {"readVerify", "upgrade"} => rcopy = activeTrigger

HeldInv == state \in {"COLLECTING_POST", "FROZEN"} => activeTrigger.id \in accepted

CycleInv == ClaimInv /\ PollInv /\ HeldInv

LEMMA CycleInit == Init => CycleInv
  BY DEF Init, CycleInv, ClaimInv, PollInv, HeldInv, Claiming, LockHeld, OnFrozen, Reading, Releasing

LEMMA CycleOffer ==
  ASSUME TypeOK, CycleInv, NEW p \in Producers, Offers(p)
  PROVE  CycleInv'
<1>1. PICK source \in Sources, dur \in Durations \cup {0}, next \in ProducerPcs :
         next \in {"gate", "stallGate"} /\ Offer(p, source, dur, next)
  BY DEF Offers, OnDxgiPresent, OnOtherGlitch, OnKernelFrameStall, Sources, ProducerPcs, LockHeld
<1>2. UNCHANGED <<state, claimedTs, activeTrigger, reportConsumed, cpc, rcopy, reporting, accepted>>
  BY <1>1 DEF Offer, payload, deadlines, consumer
<1>3. pc' = [pc EXCEPT ![p] = next] /\ \A q \in Producers \ {p} : cand'[q] = cand[q]
  BY <1>1 DEF Offer, Goto, TypeOK, ThreadTypes
<1>4. next \notin Claiming
  BY <1>1 DEF Claiming, LockHeld
<1>5. \A q \in Producers : pc'[q] \in Claiming => q # p /\ pc'[q] = pc[q]
  BY <1>3, <1>4 DEF TypeOK, ThreadTypes
<1>6. ClaimInv'
  BY <1>2, <1>3, <1>5 DEF CycleInv, ClaimInv
<1> QED
  BY <1>2, <1>6 DEF CycleInv, PollInv, HeldInv

(* A producer claims an engine that is ready and commits the trigger that  *)
(* it has published.                                                       *)
LEMMA CycleProduce ==
  ASSUME TypeOK, CycleInv, NEW p \in Producers, Produce(p)
  PROVE  CycleInv'
<1>1. pc \in [Producers -> ProducerPcs] /\ UNCHANGED <<cand, cpc, rcopy, reporting>>
  BY ProduceMoves DEF TypeOK, ThreadTypes
<1> USE <1>1 DEF CycleInv, ClaimInv, PollInv, HeldInv, Claiming, LockHeld, OnFrozen, Reading, Releasing,
                 Goto, Settle, Suppress, payload, deadlines, stats
<1>2. CASE StallGate(p)
  BY <1>2 DEF StallGate
<1>3. CASE StallRoute(p)
  BY <1>3 DEF StallRoute
<1>4. CASE StallRouteSource(p)
  BY <1>4 DEF StallRouteSource
<1>5. CASE StallStage(p)
  BY <1>5 DEF StallStage
<1>6. CASE SeverityGate(p)
  BY <1>6 DEF SeverityGate
<1>7. CASE TakeWriterLock(p)
  BY <1>7 DEF TakeWriterLock
<1>8. CASE ClaimState(p)
  BY <1>8 DEF ClaimState
<1>9. CASE BumpGeneration(p)
  BY <1>9 DEF BumpGeneration
<1>10. CASE StoreClaimedTs(p)
  BY <1>10 DEF StoreClaimedTs
<1>11. CASE StoreActiveSource(p)
  BY <1>11 DEF StoreActiveSource
<1>12. CASE StorePostTarget(p)
  BY <1>12 DEF StorePostTarget
<1>13. CASE CheckGeneration(p)
  BY <1>13 DEF CheckGeneration
<1>14. CASE PublishBegin(p)
  BY <1>14 DEF PublishBegin
<1>15. CASE PublishCopy(p)
  BY <1>15 DEF PublishCopy
<1>16. CASE PublishEnd(p)
  BY <1>16 DEF PublishEnd
<1>17. CASE RecheckGeneration(p)
  BY <1>17 DEF RecheckGeneration
<1>18. CASE CommitTrigger(p)
  BY <1>18 DEF CommitTrigger
<1> QED
  BY <1>2, <1>3, <1>4, <1>5, <1>6, <1>7, <1>8, <1>9, <1>10, <1>11, <1>12, <1>13, <1>14, <1>15, <1>16, <1>17, <1>18 DEF Produce

(* The consumer acts on a state_ that nobody changes meanwhile, and hands  *)
(* out the trigger that is held.                                           *)
LEMMA CyclePoll ==
  ASSUME TypeOK, CycleInv, Poll \/ CompleteReport
  PROVE  CycleInv'
<1>1. UNCHANGED <<pc, cand, activeTrigger, accepted>>
  BY PollMoves DEF producers, payload, stats
<1> USE <1>1 DEF CycleInv, ClaimInv, PollInv, HeldInv, Claiming, LockHeld, OnFrozen, Reading, Releasing,
                 CGoto, deadlines
<1>2. CASE PollState
  BY <1>2 DEF PollState
<1>3. CASE PollClaimed
  BY <1>3 DEF PollClaimed
<1>4. CASE PollPost
  BY <1>4 DEF PollPost
<1>5. CASE PollFrozen
  BY <1>5 DEF PollFrozen
<1>6. CASE PollConsume
  BY <1>6 DEF PollConsume
<1>7. CASE ReadSeq
  BY <1>7 DEF ReadSeq
<1>8. CASE ReadCopy
  BY <1>8 DEF ReadCopy
<1>9. CASE ReadVerify
  BY <1>9 DEF ReadVerify
<1>10. CASE EmitReport
  BY <1>10 DEF EmitReport
<1>11. CASE PollCooldown
  BY <1>11 DEF PollCooldown
<1>12. CASE ReleaseTimes
  BY <1>12 DEF ReleaseTimes
<1>13. CASE ReleaseSource
  BY <1>13 DEF ReleaseSource
<1>14. CASE ReleaseStaged
  BY <1>14 DEF ReleaseStaged
<1>15. CASE ReleaseConsumed
  BY <1>15 DEF ReleaseConsumed
<1>16. CASE ReleaseState
  BY <1>16 DEF ReleaseState
<1>17. CASE CompleteReport
  BY <1>17 DEF CompleteReport
<1> QED
  BY <1>2, <1>3, <1>4, <1>5, <1>6, <1>7, <1>8, <1>9, <1>10, <1>11, <1>12, <1>13, <1>14, <1>15, <1>16, <1>17 DEF Poll

LEMMA CycleNext ==
  ASSUME ~ClaimsMayStall, TypeOK, CycleInv, [Next]_vars
  PROVE  CycleInv'
<1>1. CASE \E p \in Producers : Offers(p) \/ Produce(p)
  BY <1>1, CycleOffer, CycleProduce
<1>2. CASE Poll \/ CompleteReport
  BY <1>2, CyclePoll
<1>3. CASE Elapse
  BY <1>3 DEF Elapse, producers, payload, consumer, stats, CycleInv, ClaimInv, PollInv, HeldInv
<1>4. CASE UNCHANGED vars
  BY <1>4 DEF vars, payload, deadlines, consumer, stats, CycleInv, ClaimInv, PollInv, HeldInv
<1> QED
  BY <1>1, <1>2, <1>3, <1>4 DEF Next

LEMMA CycleAlways == ~ClaimsMayStall => (Spec => [](TypeOK /\ LockInv /\ SeqInv /\ CycleInv))
<1> SUFFICES ASSUME ~ClaimsMayStall PROVE Spec => [](TypeOK /\ LockInv /\ SeqInv /\ CycleInv)
  OBVIOUS
<1>1. TypeOK /\ CycleInv /\ [Next]_vars => CycleInv'
  BY CycleNext
<1>2. TornInv => SeqInv
  BY DEF TornInv
<1> QED
  BY <1>1, <1>2, CycleInit, TornInit, TornNext, LockAlways, PTL DEF Spec

(* While a trigger is held active_trigger_ is fully published and its      *)
(* producer was told so, when no claim outlives the watchdog.              *)
THEOREM HeldIsPublishedAlways == ~ClaimsMayStall => (Spec => []HeldIsPublished)
<1>1. TypeOK /\ SeqInv /\ CycleInv => HeldIsPublished
  BY DEF HeldIsPublished, SeqInv, CycleInv, HeldInv, ClaimInv, Claiming, LockHeld, Publishing, TypeOK,
         EngineTypes
<1> QED
  BY <1>1, CycleAlways, PTL
-----------------------------------------------------------------------------
(* The engine implements the abstract trigger cycle.                       *)

PhaseFacts ==
    /\ CyclePhase = "cooldown" <=> cpc \in Releasing \/ state = "COOLDOWN"
    /\ CyclePhase = "ready" <=> cpc \notin Releasing /\ state \in {"ARMED", "CLAIMED"}
    /\ CyclePhase = "held" <=>
         cpc \notin Releasing /\ state \in {"COLLECTING_POST", "FROZEN"} /\ ~reporting
    /\ CyclePhase = "reported" <=>
         cpc \notin Releasing /\ state \in {"COLLECTING_POST", "FROZEN"} /\ reporting
    /\ CyclePhase \in {"cooldown", "ready", "held", "reported"}

LEMMA PhaseOf == TypeOK => PhaseFacts
  BY DEF PhaseFacts, CyclePhase, TypeOK, EngineTypes, States

ReportedIds == [i \in DOMAIN reports |-> reports[i].id]

(* A step that changes neither the phase nor a trigger that is held.       *)
LEMMA CycleStutters ==
  ASSUME UNCHANGED <<CyclePhase, reports>>, CyclePhase \in {"held", "reported"} => UNCHANGED activeTrigger
  PROVE  UNCHANGED Cycle!vars
  BY DEF Cycle!vars

(* A producer's step before the last leaves what is held alone; the last   *)
(* is the acceptance of its trigger.                                       *)
LEMMA CycleStepProduce ==
  ASSUME TypeOK, TypeOK', CycleInv, PhaseFacts, PhaseFacts', NEW p \in Producers, Produce(p)
  PROVE  [Cycle!Next]_(Cycle!vars)
<1>1. UNCHANGED <<cand, cpc, reporting, reports>>
  BY ProduceMoves
<1>2. CASE CommitTrigger(p) /\ state = "CLAIMED"
  <2>1. cand[p].id \in 1..MaxEvents
    BY <1>2 DEF CommitTrigger, TypeOK, ThreadTypes, TriggerInfos
  <2>2. activeTrigger' = activeTrigger /\ activeTrigger = cand[p]
    BY <1>2 DEF CommitTrigger, payload, CycleInv, ClaimInv, Claiming
  <2>3. cpc \notin Releasing /\ ~reporting /\ state' \in {"COLLECTING_POST", "FROZEN"}
    BY <1>2 DEF CommitTrigger, CycleInv, PollInv, OnFrozen
  <2>4. CyclePhase = "ready" /\ CyclePhase' = "held"
    BY <1>1, <1>2, <2>3 DEF PhaseFacts
  <2>5. Cycle!Accept(cand[p].id)
    BY <1>1, <2>2, <2>4 DEF Cycle!Accept
  <2> QED
    BY <2>1, <2>5 DEF Cycle!Next
<1>3. CASE ~(CommitTrigger(p) /\ state = "CLAIMED")
  <2>1. state' = state \/ (state = "ARMED" /\ state' = "CLAIMED")
    BY <1>3 DEF Produce, StallGate, StallRoute, StallRouteSource, StallStage, SeverityGate,
       TakeWriterLock, ClaimState, BumpGeneration, StoreClaimedTs, StoreActiveSource,
       StorePostTarget, CheckGeneration, PublishBegin, PublishCopy, PublishEnd,
       RecheckGeneration, CommitTrigger
  <2>2. CyclePhase' = CyclePhase
    BY <1>1, <2>1 DEF PhaseFacts
  <2>3. activeTrigger' # activeTrigger => pc[p] \in Claiming
    BY ProduceKeepsPayload DEF PublishBegin, PublishCopy, PublishEnd, Goto, Claiming, LockHeld
  <2>4. CyclePhase \in {"held", "reported"} => UNCHANGED activeTrigger
    BY <2>3 DEF PhaseFacts, CycleInv, ClaimInv
  <2> QED
    BY <1>1, <2>2, <2>4, CycleStutters
<1> QED
  BY <1>2, <1>3

(* The consumer reports, closes and rearms; what else it does is not seen  *)
(* of the cycle.                                                           *)
LEMMA CycleStepPoll ==
  ASSUME TypeOK, TypeOK', CycleInv, PhaseFacts, PhaseFacts', Poll \/ CompleteReport
  PROVE  [Cycle!Next]_(Cycle!vars)
<1>1. UNCHANGED activeTrigger
  BY PollMoves DEF payload
<1>2. CASE EmitReport
  <2>1. /\ cpc = "upgrade" /\ cpc' = "idle" /\ state' = state /\ state = "FROZEN"
        /\ ~reporting /\ reporting' /\ rcopy = activeTrigger
    BY <1>2 DEF EmitReport, CGoto, CycleInv, PollInv, OnFrozen, Reading
  <2>2. CyclePhase = "held" /\ CyclePhase' = "reported"
    BY <2>1 DEF PhaseFacts, Releasing
  <2>3. Upgraded(rcopy, stagedGpu).id = activeTrigger.id /\ Upgraded(rcopy, stagedGpu) \in Payloads
    BY <2>1 DEF Upgraded, TypeOK, ThreadTypes, EngineTypes, Payloads, Sources
  <2>4. ReportedIds' = Append(ReportedIds, activeTrigger.id)
    BY <1>2, <2>3 DEF EmitReport, ReportedIds, TypeOK, HistoryTypes
  <2>5. Cycle!Report
    BY <1>1, <2>2, <2>4 DEF Cycle!Report, ReportedIds
  <2> QED
    BY <2>5 DEF Cycle!Next
<1>3. CASE ReleaseTimes
  <2>1. cpc = "releaseTimes" /\ cpc' = "releaseSource" /\ state' = state /\ state = "FROZEN" /\ reports' = reports
    BY <1>3 DEF ReleaseTimes, CGoto, CycleInv, PollInv, OnFrozen
  <2>2. CyclePhase \in {"held", "reported"} /\ CyclePhase' = "cooldown"
    BY <2>1 DEF PhaseFacts, Releasing, TypeOK, ThreadTypes
  <2>3. Cycle!Close
    BY <2>1, <2>2 DEF Cycle!Close, Cycle!NoId
  <2> QED
    BY <2>3 DEF Cycle!Next
<1>4. CASE PollCooldown /\ cooldownTarget = "expired"
  <2>1. cpc = "pollCooldown" /\ cpc' = "idle" /\ state = "COOLDOWN" /\ state' = "ARMED" /\ reports' = reports
    BY <1>4 DEF PollCooldown, CGoto, CycleInv, PollInv
  <2>2. CyclePhase = "cooldown" /\ CyclePhase' = "ready"
    BY <2>1 DEF PhaseFacts, Releasing
  <2>3. Cycle!Rearm
    BY <2>1, <2>2 DEF Cycle!Rearm
  <2> QED
    BY <2>3 DEF Cycle!Next
<1>5. CASE /\ ~EmitReport /\ ~ReleaseTimes /\ ~(PollCooldown /\ cooldownTarget = "expired")
  <2>1. UNCHANGED <<reporting, reports>>
    BY <1>5 DEF CompleteReport, Poll, PollState, PollClaimed, PollPost, PollFrozen, PollConsume,
       ReadSeq, ReadCopy, ReadVerify, PollCooldown, ReleaseSource, ReleaseStaged, ReleaseConsumed, ReleaseState
  <2>2. \/ state' = state /\ (cpc' \in Releasing <=> cpc \in Releasing)
        \/ state = "COLLECTING_POST" /\ state' = "FROZEN" /\ cpc = "pollPost" /\ cpc' = "consume"
        \/ cpc = "releaseState" /\ cpc' = "idle" /\ state' = "COOLDOWN"
    BY <1>5 DEF CompleteReport, Poll, PollState, PollClaimed, PollPost, PollFrozen, PollConsume,
       ReadSeq, ReadCopy, ReadVerify, PollCooldown, ReleaseSource, ReleaseStaged, ReleaseConsumed, ReleaseState,
       CGoto, Releasing, CycleInv, PollInv
  <2>3. CyclePhase' = CyclePhase
    BY <2>1, <2>2 DEF PhaseFacts, Releasing
  <2> QED
    BY <1>1, <2>1, <2>3, CycleStutters
<1> QED
  BY <1>2, <1>3, <1>4, <1>5

LEMMA CycleStep ==
  ASSUME TypeOK, TypeOK', CycleInv, PhaseFacts, PhaseFacts', [Next]_vars
  PROVE  [Cycle!Next]_(Cycle!vars)
<1>1. ASSUME NEW p \in Producers, Offers(p) PROVE [Cycle!Next]_(Cycle!vars)
  <2>1. UNCHANGED <<state, cpc, reporting, reports, activeTrigger>>
    BY <1>1 DEF Offers, OnDxgiPresent, OnOtherGlitch, OnKernelFrameStall, Offer, payload, consumer
  <2> QED
    BY <2>1, CycleStutters DEF PhaseFacts
<1>2. ASSUME NEW p \in Producers, Produce(p) PROVE [Cycle!Next]_(Cycle!vars)
  BY <1>2, CycleStepProduce
<1>3. CASE Poll \/ CompleteReport
  BY <1>3, CycleStepPoll
<1>4. CASE Elapse \/ UNCHANGED vars
  <2>1. UNCHANGED <<state, cpc, reporting, reports, activeTrigger>>
    BY <1>4 DEF Elapse, vars, payload, consumer
  <2> QED
    BY <2>1, CycleStutters DEF PhaseFacts
<1> QED
  BY <1>1, <1>2, <1>3, <1>4 DEF Next

LEMMA CycleStarts == Init => Cycle!Init
<1> SUFFICES ASSUME Init PROVE Cycle!Init
  OBVIOUS
<1>1. CyclePhase = "ready"
  BY PhaseOf, TypeInit DEF PhaseFacts, Init, Releasing
<1>2. ReportedIds = <<>>
  BY DEF Init, ReportedIds
<1> QED
  BY <1>1, <1>2 DEF Cycle!Init, Cycle!NoId, ReportedIds

(* The engine implements TriggerCycle: what is accepted is what is         *)
(* reported, at most once, and nothing else is accepted until a cooldown   *)
(* has passed, when no claim outlives the watchdog.                        *)
THEOREM CycleImplemented == ~ClaimsMayStall => (Spec => ImplementsCycle)
<1> SUFFICES ASSUME ~ClaimsMayStall PROVE Spec => ImplementsCycle
  OBVIOUS
<1>1. Spec => [](TypeOK /\ CycleInv)
  BY CycleAlways, PTL
<1>2. TypeOK /\ TypeOK' /\ CycleInv /\ PhaseFacts /\ PhaseFacts' /\ [Next]_vars => [Cycle!Next]_(Cycle!vars)
  BY CycleStep
<1> QED
  BY <1>1, <1>2, PhaseOf, CycleStarts, PTL DEF Spec, ImplementsCycle, Cycle!Spec

=============================================================================
