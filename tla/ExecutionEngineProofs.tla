------------------------ MODULE ExecutionEngineProofs ------------------------
(***************************************************************************)
(* Proofs about ExecutionEngine, for any number of orders, approvals and   *)
(* crashes, with or without a store.                                       *)
(***************************************************************************)
EXTENDS ExecutionEngine, TLAPS

\* What a handler relies on between its store write and the end of its broker
\* call: the snapshot it is about to send is an approval of this order and is the
\* one the store has, the broker has not seen the order, and the store has not
\* moved on.  A refusal not yet recorded is already in the book.
InSubmit == call.stage \in {"persisted", "acked", "refused", "timedout", "disconnected"}

HandlerInv ==
  /\ call.stage = "persisted" =>
       /\ snapshots[call.order] \in Approvals
       /\ snapshots[call.order].cid = call.order
       /\ HasStore => /\ storeSnapshot[call.order] = snapshots[call.order]
                      /\ calls[call.order] = 0
                      /\ book[call.order] = Absent
  /\ HasStore /\ InSubmit => store[call.order] = "SUBMITTED"
  /\ call.stage = "refused" => book[call.order] = "REJECTED"

\* An order the store does not have has left no trace at the broker; one it has
\* was sent at most once, as its snapshot says.
RecordInv ==
  HasStore => \A c \in Cid :
    /\ store[c] = Absent =>
         calls[c] = 0 /\ book[c] = Absent /\ bookPayload[c] = NoPayload
    /\ calls[c] <= 1
    /\ bookPayload[c] # NoPayload =>
         /\ storeSnapshot[c] \in Approvals
         /\ storeSnapshot[c].cid = c
         /\ storeSnapshot[c].payload = bookPayload[c]

\* The state machine has every order this process submitted.
KnownInv == \A c \in submitted : sm[c] # Absent

\* The inductive invariant.
IInv ==
  /\ TypeOK
  /\ HandlerInv
  /\ RecordInv
  /\ OutcomeAgrees
  /\ KnownInv
  /\ UnknownKeepsHalt

USE DEF Idle, At, NoOrder, Covers, MatchesIntent, RecordSubmission

\* The induction starts: a process with nothing submitted, an empty store and an
\* empty book satisfy every conjunct of the inductive invariant.
LEMMA InitIInv == Init => IInv
  BY ConstAssumption
  DEF Init, IInv, TypeOK, HandlerInv, InSubmit, RecordInv, OutcomeAgrees, KnownInv,
      UnknownKeepsHalt, Stage, OrderState, BrokerState, RiskState, Fault, Absent, TerminalStates

\* No step of engine.py, of the paper broker or of a crash leaves the types.
LEMMA TypeStep == ASSUME TypeOK, HandlerInv, [Next]_vars PROVE TypeOK'
<1> USE ConstAssumption DEF TypeOK, HandlerInv, Stage, engineVars, storeVars, brokerVars
<1>1. ASSUME NEW c \in Cid, NEW a \in Approvals, NEW i \in Payload, NEW s \in Approvals,
             Submit(c, a, i, s)
      PROVE  TypeOK'
  BY <1>1 DEF Submit, SyncStore, OrderState
<1>2. CASE BrokerSubmit
  BY <1>2 DEF BrokerSubmit, BrokerState, ExecuteOutcomes, RestingStates
<1>3. CASE BrokerRefuse
  BY <1>3 DEF BrokerRefuse, BrokerState
<1>4. CASE SubmitTimedOut
  BY <1>4 DEF SubmitTimedOut, SyncStore, OrderState, RiskState
<1>5. CASE SubmitDisconnected
  BY <1>5 DEF SubmitDisconnected, SyncStore, OrderState, RiskState
<1>6. CASE SubmitRefused
  BY <1>6 DEF SubmitRefused, SyncStore, OrderState
<1>7. CASE SubmitAcked
  BY <1>7 DEF SubmitAcked, SyncStore, OrderState
<1>8. CASE PollStep
  BY <1>8 DEF PollStep, PollEffect, PollActs, SyncStore, OrderState, PolledStates
<1>9. CASE SyncBegin
  BY <1>9 DEF SyncBegin, RiskState
<1>10. ASSUME NEW c \in Cid, SyncPoll(c) PROVE TypeOK'
  BY <1>10 DEF SyncPoll, PollEffect, PollActs, SyncStore, OrderState, PolledStates, RiskState
<1>11. ASSUME NEW old \in SUBSET Cid, StaleBegin(old) PROVE TypeOK'
  BY <1>11 DEF StaleBegin
<1>12. ASSUME NEW c \in Cid, StaleCancel(c) PROVE TypeOK'
  BY <1>12 DEF StaleCancel, OrderState, BrokerState
<1>13. ASSUME NEW c \in Cid, ResolveUnknown(c) PROVE TypeOK'
  BY <1>13 DEF ResolveUnknown, SyncStore, OrderState, BrokerState
<1>14. ASSUME NEW c \in Cid, PollOrder(c) PROVE TypeOK'
  BY <1>14 DEF PollOrder, PollEffect, PollActs, SyncStore, OrderState, PolledStates
<1>15. CASE RecoverFromStore
  BY <1>15 DEF RecoverFromStore
<1>16. CASE Crash
  BY <1>16 DEF Crash, RiskState
<1>17. ASSUME NEW f \in Fault, SetFault(f) PROVE TypeOK'
  BY <1>17 DEF SetFault
<1>18. CASE UNCHANGED vars
  BY <1>18 DEF vars
<1> QED
  BY <1>1, <1>2, <1>3, <1>4, <1>5, <1>6, <1>7, <1>8, <1>9, <1>10, <1>11, <1>12, <1>13,
     <1>14, <1>15, <1>16, <1>17, <1>18 DEF Next, EngineStep

\* What a half-run handler relies on (the local state of submit and of the two
\* sweeps) survives every step, those of the other actors included.
LEMMA HandlerStep == ASSUME IInv, [Next]_vars PROVE HandlerInv'
<1> USE ConstAssumption DEF IInv, TypeOK, Absent, HandlerInv, InSubmit, engineVars, storeVars, brokerVars
<1>1. ASSUME NEW c \in Cid, NEW a \in Approvals, NEW i \in Payload, NEW s \in Approvals,
             Submit(c, a, i, s)
      PROVE  HandlerInv'
  BY <1>1 DEF Submit, SyncStore, StoreKnows, RecordInv
<1>2. CASE BrokerSubmit
  BY <1>2 DEF BrokerSubmit, BrokerHas, ExecuteOutcomes, RestingStates
<1>3. CASE BrokerRefuse
  BY <1>3 DEF BrokerRefuse, BrokerHas
<1>4. CASE SubmitTimedOut
  BY <1>4 DEF SubmitTimedOut, SyncStore
<1>5. CASE SubmitDisconnected
  BY <1>5 DEF SubmitDisconnected, SyncStore
<1>6. CASE SubmitRefused
  BY <1>6 DEF SubmitRefused, SyncStore
<1>7. CASE SubmitAcked
  BY <1>7 DEF SubmitAcked, SyncStore
<1>8. CASE PollStep
  BY <1>8 DEF PollStep, PollEffect, PollActs, PolledStates, SyncStore
<1>9. CASE SyncBegin
  BY <1>9 DEF SyncBegin, ExecuteOutcomes, RestingStates
<1>10. ASSUME NEW c \in Cid, SyncPoll(c) PROVE HandlerInv'
  BY <1>10 DEF SyncPoll, PollEffect, PollActs, PolledStates, SyncStore
<1>11. ASSUME NEW old \in SUBSET Cid, StaleBegin(old) PROVE HandlerInv'
  BY <1>11 DEF StaleBegin
<1>12. ASSUME NEW c \in Cid, StaleCancel(c) PROVE HandlerInv'
  BY <1>12 DEF StaleCancel, RestingStates
<1>13. ASSUME NEW c \in Cid, ResolveUnknown(c) PROVE HandlerInv'
  BY <1>13 DEF ResolveUnknown, SyncStore
<1>14. ASSUME NEW c \in Cid, PollOrder(c) PROVE HandlerInv'
  BY <1>14 DEF PollOrder, PollEffect, PollActs, PolledStates, SyncStore
<1>15. CASE RecoverFromStore
  BY <1>15 DEF RecoverFromStore
<1>16. CASE Crash
  BY <1>16 DEF Crash
<1>17. ASSUME NEW f \in Fault, SetFault(f) PROVE HandlerInv'
  BY <1>17 DEF SetFault
<1>18. CASE UNCHANGED vars
  BY <1>18 DEF vars
<1> QED
  BY <1>1, <1>2, <1>3, <1>4, <1>5, <1>6, <1>7, <1>8, <1>9, <1>10, <1>11, <1>12, <1>13, <1>14, <1>15, <1>16, <1>17, <1>18 DEF Next, EngineStep

\* The store's rows stay ahead of the broker's book: record_submission runs
\* before broker.submit_order, and nothing deletes a row.
LEMMA RecordStep == ASSUME IInv, [Next]_vars PROVE RecordInv'
<1> USE ConstAssumption DEF IInv, TypeOK, Absent, HandlerInv, InSubmit, RecordInv, engineVars, storeVars, brokerVars
<1>1. ASSUME NEW c \in Cid, NEW a \in Approvals, NEW i \in Payload, NEW s \in Approvals,
             Submit(c, a, i, s)
      PROVE  RecordInv'
  BY <1>1 DEF Submit, SyncStore, StoreKnows
<1>2. CASE BrokerSubmit
  BY <1>2 DEF BrokerSubmit, BrokerHas, ExecuteOutcomes, RestingStates
<1>3. CASE BrokerRefuse
  BY <1>3 DEF BrokerRefuse, BrokerHas
<1>4. CASE SubmitTimedOut
  BY <1>4 DEF SubmitTimedOut, SyncStore
<1>5. CASE SubmitDisconnected
  BY <1>5 DEF SubmitDisconnected, SyncStore
<1>6. CASE SubmitRefused
  BY <1>6 DEF SubmitRefused, SyncStore
<1>7. CASE SubmitAcked
  BY <1>7 DEF SubmitAcked, SyncStore
<1>8. CASE PollStep
  BY <1>8 DEF PollStep, PollEffect, PollActs, PolledStates, SyncStore
<1>9. CASE SyncBegin
  BY <1>9 DEF SyncBegin, ExecuteOutcomes, RestingStates
<1>10. ASSUME NEW c \in Cid, SyncPoll(c) PROVE RecordInv'
  BY <1>10 DEF SyncPoll, PollEffect, PollActs, PolledStates, SyncStore
<1>11. ASSUME NEW old \in SUBSET Cid, StaleBegin(old) PROVE RecordInv'
  BY <1>11 DEF StaleBegin
<1>12. ASSUME NEW c \in Cid, StaleCancel(c) PROVE RecordInv'
  BY <1>12 DEF StaleCancel, RestingStates
<1>13. ASSUME NEW c \in Cid, ResolveUnknown(c) PROVE RecordInv'
  BY <1>13 DEF ResolveUnknown, SyncStore
<1>14. ASSUME NEW c \in Cid, PollOrder(c) PROVE RecordInv'
  BY <1>14 DEF PollOrder, PollEffect, PollActs, PolledStates, SyncStore
<1>15. CASE RecoverFromStore
  BY <1>15 DEF RecoverFromStore
<1>16. CASE Crash
  BY <1>16 DEF Crash
<1>17. ASSUME NEW f \in Fault, SetFault(f) PROVE RecordInv'
  BY <1>17 DEF SetFault
<1>18. CASE UNCHANGED vars
  BY <1>18 DEF vars
<1> QED
  BY <1>1, <1>2, <1>3, <1>4, <1>5, <1>6, <1>7, <1>8, <1>9, <1>10, <1>11, <1>12, <1>13, <1>14, <1>15, <1>16, <1>17, <1>18 DEF Next, EngineStep

\* No step makes the engine or the store report an end the broker's book does
\* not have.
LEMMA OutcomeStep == ASSUME IInv, [Next]_vars PROVE OutcomeAgrees'
<1> USE ConstAssumption DEF IInv, TypeOK, Absent, HandlerInv, InSubmit, OutcomeAgrees, TerminalStates, engineVars, storeVars, brokerVars
<1>1. ASSUME NEW c \in Cid, NEW a \in Approvals, NEW i \in Payload, NEW s \in Approvals,
             Submit(c, a, i, s)
      PROVE  OutcomeAgrees'
  BY <1>1 DEF Submit, SyncStore, StoreKnows
<1>2. CASE BrokerSubmit
  BY <1>2 DEF BrokerSubmit, BrokerHas, ExecuteOutcomes, RestingStates
<1>3. CASE BrokerRefuse
  BY <1>3 DEF BrokerRefuse, BrokerHas
<1>4. CASE SubmitTimedOut
  BY <1>4 DEF SubmitTimedOut, SyncStore
<1>5. CASE SubmitDisconnected
  BY <1>5 DEF SubmitDisconnected, SyncStore
<1>6. CASE SubmitRefused
  BY <1>6 DEF SubmitRefused, SyncStore
<1>7. CASE SubmitAcked
  BY <1>7 DEF SubmitAcked, SyncStore
<1>8. CASE PollStep
  BY <1>8 DEF PollStep, PollEffect, PollActs, PolledStates, SyncStore
<1>9. CASE SyncBegin
  BY <1>9 DEF SyncBegin, ExecuteOutcomes, RestingStates
<1>10. ASSUME NEW c \in Cid, SyncPoll(c) PROVE OutcomeAgrees'
  BY <1>10 DEF SyncPoll, PollEffect, PollActs, PolledStates, SyncStore
<1>11. ASSUME NEW old \in SUBSET Cid, StaleBegin(old) PROVE OutcomeAgrees'
  BY <1>11 DEF StaleBegin
<1>12. ASSUME NEW c \in Cid, StaleCancel(c) PROVE OutcomeAgrees'
  BY <1>12 DEF StaleCancel, RestingStates
<1>13. ASSUME NEW c \in Cid, ResolveUnknown(c) PROVE OutcomeAgrees'
  BY <1>13 DEF ResolveUnknown, SyncStore
<1>14. ASSUME NEW c \in Cid, PollOrder(c) PROVE OutcomeAgrees'
  BY <1>14 DEF PollOrder, PollEffect, PollActs, PolledStates, SyncStore
<1>15. CASE RecoverFromStore
  BY <1>15 DEF RecoverFromStore
<1>16. CASE Crash
  BY <1>16 DEF Crash
<1>17. ASSUME NEW f \in Fault, SetFault(f) PROVE OutcomeAgrees'
  BY <1>17 DEF SetFault
<1>18. CASE UNCHANGED vars
  BY <1>18 DEF vars
<1> QED
  BY <1>1, <1>2, <1>3, <1>4, <1>5, <1>6, <1>7, <1>8, <1>9, <1>10, <1>11, <1>12, <1>13, <1>14, <1>15, <1>16, <1>17, <1>18 DEF Next, EngineStep

\* The halt that submit's exception handlers set outlives every step while the
\* order it was set for is UNKNOWN.
LEMMA HaltStep == ASSUME IInv, [Next]_vars PROVE (KnownInv /\ UnknownKeepsHalt)'
<1> USE ConstAssumption DEF IInv, TypeOK, Absent, KnownInv, UnknownKeepsHalt, BrokerState, engineVars, storeVars, brokerVars
<1>1. ASSUME NEW c \in Cid, NEW a \in Approvals, NEW i \in Payload, NEW s \in Approvals,
             Submit(c, a, i, s)
      PROVE  (KnownInv /\ UnknownKeepsHalt)'
  BY <1>1 DEF Submit, SyncStore, StoreKnows
<1>2. CASE BrokerSubmit
  BY <1>2 DEF BrokerSubmit, BrokerHas, ExecuteOutcomes, RestingStates
<1>3. CASE BrokerRefuse
  BY <1>3 DEF BrokerRefuse, BrokerHas
<1>4. CASE SubmitTimedOut
  BY <1>4 DEF SubmitTimedOut, SyncStore
<1>5. CASE SubmitDisconnected
  BY <1>5 DEF SubmitDisconnected, SyncStore
<1>6. CASE SubmitRefused
  BY <1>6 DEF SubmitRefused, SyncStore
<1>7. CASE SubmitAcked
  BY <1>7 DEF SubmitAcked, SyncStore
<1>8. CASE PollStep
  BY <1>8 DEF PollStep, PollEffect, PollActs, PolledStates, SyncStore
<1>9. CASE SyncBegin
  BY <1>9 DEF SyncBegin, ExecuteOutcomes, RestingStates
<1>10. ASSUME NEW c \in Cid, SyncPoll(c) PROVE (KnownInv /\ UnknownKeepsHalt)'
  BY <1>10 DEF SyncPoll, PollEffect, PollActs, PolledStates, SyncStore
<1>11. ASSUME NEW old \in SUBSET Cid, StaleBegin(old) PROVE (KnownInv /\ UnknownKeepsHalt)'
  BY <1>11 DEF StaleBegin
<1>12. ASSUME NEW c \in Cid, StaleCancel(c) PROVE (KnownInv /\ UnknownKeepsHalt)'
  BY <1>12 DEF StaleCancel, RestingStates
<1>13. ASSUME NEW c \in Cid, ResolveUnknown(c) PROVE (KnownInv /\ UnknownKeepsHalt)'
  BY <1>13 DEF ResolveUnknown, SyncStore
<1>14. ASSUME NEW c \in Cid, PollOrder(c) PROVE (KnownInv /\ UnknownKeepsHalt)'
  BY <1>14 DEF PollOrder, PollEffect, PollActs, PolledStates, SyncStore
<1>15. CASE RecoverFromStore
  BY <1>15 DEF RecoverFromStore
<1>16. CASE Crash
  BY <1>16 DEF Crash
<1>17. ASSUME NEW f \in Fault, SetFault(f) PROVE (KnownInv /\ UnknownKeepsHalt)'
  BY <1>17 DEF SetFault
<1>18. CASE UNCHANGED vars
  BY <1>18 DEF vars
<1> QED
  BY <1>1, <1>2, <1>3, <1>4, <1>5, <1>6, <1>7, <1>8, <1>9, <1>10, <1>11, <1>12, <1>13, <1>14, <1>15, <1>16, <1>17, <1>18 DEF Next, EngineStep

\* The inductive step, put together from its conjuncts.
LEMMA InvStep == IInv /\ [Next]_vars => IInv'
<1> SUFFICES ASSUME IInv, [Next]_vars PROVE IInv'
  OBVIOUS
<1>1. TypeOK'
  BY TypeStep DEF IInv
<1>2. HandlerInv'
  BY HandlerStep
<1>3. RecordInv'
  BY RecordStep
<1>4. OutcomeAgrees'
  BY OutcomeStep
<1>5. KnownInv' /\ UnknownKeepsHalt'
  BY HaltStep
<1> QED
  BY <1>1, <1>2, <1>3, <1>4, <1>5 DEF IInv

\* Every reachable state of the engine, with crashes, outages and restarts at any
\* point, satisfies the inductive invariant.
THEOREM Invariance == Spec => []IInv
  BY InitIInv, InvStep, PTL DEF Spec

\* Type correctness of the engine, the store and the broker's book.
THEOREM TypeCorrect == Spec => []TypeOK
<1>1. IInv => TypeOK
  BY DEF IInv
<1> QED
  BY <1>1, Invariance, PTL

\* engine.submit writes the store before it calls the broker: no crash, outage
\* or retry leaves an order at the broker without a row.
THEOREM NoOrphan == Spec => []NoOrphanOrder
<1>1. IInv => NoOrphanOrder
  BY DEF IInv, RecordInv, NoOrphanOrder
<1> QED
  BY <1>1, Invariance, PTL

\* With a store, an order is sent at most once, however many crashes and
\* retries there are.
THEOREM AtMostOnce == Spec => []SubmittedOnce
<1>1. IInv => SubmittedOnce
  BY DEF IInv, RecordInv, SubmittedOnce
<1> QED
  BY <1>1, Invariance, PTL

\* With a store, what the broker works is what the risk controller approved for
\* this order.
THEOREM ApprovedOnly == Spec => []BrokerWorksApproved
<1>1. IInv => BrokerWorksApproved
  BY DEF IInv, RecordInv, BrokerWorksApproved
<1> QED
  BY <1>1, Invariance, PTL

\* An outcome the engine or the store reports is the broker's.
THEOREM OutcomesAgree == Spec => []OutcomeAgrees
<1>1. IInv => OutcomeAgrees
  BY DEF IInv
<1> QED
  BY <1>1, Invariance, PTL

\* An order left UNKNOWN by this process keeps entries halted.
THEOREM UnknownHalts == Spec => []UnknownKeepsHalt
<1>1. IInv => UnknownKeepsHalt
  BY DEF IInv
<1> QED
  BY <1>1, Invariance, PTL

-----------------------------------------------------------------------------
(* sync_open_orders is never cut short.                                    *)

\* What the broker may have made of an order somebody believes in state s.
Followed(s, c) ==
  /\ s \in RestingStates => book[c] \notin {Absent, "CANCELLED"}
  /\ s = "PARTIALLY_FILLED" => book[c] \in {"PARTIALLY_FILLED", "FILLED"}

\* The orders the engine believes open, those a restart would recover as open, and
\* the one whose acknowledgement is about to be recorded.  Only a cancellation by
\* check_stale_orders, which the store does not see, could break the second part.
FollowInv ==
  /\ \A c \in Cid : Followed(sm[c], c) /\ (HasStore => Followed(store[c], c))
  /\ call.stage = "acked" => book[call.order] \notin {Absent, "CANCELLED"}
  /\ call.stage = "stale" \/ (call.stage = "poll" /\ call.todo # {}) => StaleControl

\* Without stale-order control, or without a store, no step leaves an order believed
\* open in a state its record cannot follow.
LEMMA FollowStep ==
  ASSUME ~StaleControl \/ ~HasStore, IInv, FollowInv, [Next]_vars PROVE FollowInv'
<1> USE ConstAssumption DEF IInv, TypeOK, Absent, HandlerInv, InSubmit, FollowInv, Followed, RestingStates, engineVars, storeVars, brokerVars
<1>1. ASSUME NEW c \in Cid, NEW a \in Approvals, NEW i \in Payload, NEW s \in Approvals,
             Submit(c, a, i, s)
      PROVE  FollowInv'
  BY <1>1 DEF Submit, SyncStore, StoreKnows
<1>2. CASE BrokerSubmit
  BY <1>2 DEF BrokerSubmit, BrokerHas, ExecuteOutcomes
<1>3. CASE BrokerRefuse
  BY <1>3 DEF BrokerRefuse, BrokerHas
<1>4. CASE SubmitTimedOut
  BY <1>4 DEF SubmitTimedOut, SyncStore
<1>5. CASE SubmitDisconnected
  BY <1>5 DEF SubmitDisconnected, SyncStore
<1>6. CASE SubmitRefused
  BY <1>6 DEF SubmitRefused, SyncStore
<1>7. CASE SubmitAcked
  BY <1>7 DEF SubmitAcked, SyncStore
<1>8. CASE PollStep
  BY <1>8 DEF PollStep, PollEffect, PollActs, PolledStates, BrokerState, SyncStore
<1>9. CASE SyncBegin
  BY <1>9 DEF SyncBegin, ExecuteOutcomes
<1>10. ASSUME NEW c \in Cid, SyncPoll(c) PROVE FollowInv'
  BY <1>10 DEF SyncPoll, PollEffect, PollActs, PolledStates, BrokerState, SyncStore
<1>11. ASSUME NEW old \in SUBSET Cid, StaleBegin(old) PROVE FollowInv'
  BY <1>11 DEF StaleBegin
<1>12. ASSUME NEW c \in Cid, StaleCancel(c) PROVE FollowInv'
  BY <1>12 DEF StaleCancel
<1>13. ASSUME NEW c \in Cid, ResolveUnknown(c) PROVE FollowInv'
  BY <1>13 DEF ResolveUnknown, SyncStore, BrokerState
<1>14. ASSUME NEW c \in Cid, PollOrder(c) PROVE FollowInv'
  BY <1>14 DEF PollOrder, PollEffect, PollActs, PolledStates, BrokerState, SyncStore
<1>15. CASE RecoverFromStore
  BY <1>15 DEF RecoverFromStore
<1>16. CASE Crash
  BY <1>16 DEF Crash
<1>17. ASSUME NEW f \in Fault, SetFault(f) PROVE FollowInv'
  BY <1>17 DEF SetFault
<1>18. CASE UNCHANGED vars
  BY <1>18 DEF vars
<1> QED
  BY <1>1, <1>2, <1>3, <1>4, <1>5, <1>6, <1>7, <1>8, <1>9, <1>10, <1>11, <1>12, <1>13, <1>14, <1>15, <1>16, <1>17, <1>18 DEF Next, EngineStep

\* FollowInv is what poll_order's whitelist needs.
LEMMA FollowedIsPolled == IInv /\ FollowInv => SyncNeverAborts
<1> SUFFICES ASSUME IInv, FollowInv, NEW c \in Cid, sm[c] \in RestingStates PROVE ~PollRaises(c)
  BY DEF SyncNeverAborts
<1>1. book[c] \in BrokerState \ {"CANCELLED"}
  BY DEF IInv, TypeOK, FollowInv, Followed
<1>2. CASE sm[c] = "ACKNOWLEDGED"
  BY <1>1, <1>2 DEF PollRaises, PollActs, AllowedFrom, BrokerState, Absent
<1>3. CASE sm[c] = "PARTIALLY_FILLED"
  BY <1>1, <1>3 DEF FollowInv, Followed, PollRaises, PollActs, AllowedFrom, BrokerState, Absent
<1> QED
  BY <1>2, <1>3 DEF RestingStates

\* Whatever crashes, outages and partial fills there are, sync_open_orders never meets
\* an order whose status the whitelist cannot follow, as long as check_stale_orders is
\* not used together with a store (there a crash after the cancel breaks it).
THEOREM SyncCompletes ==
  ASSUME ~StaleControl \/ ~HasStore PROVE Spec => []SyncNeverAborts
<1>1. Init => FollowInv
  BY DEF Init, FollowInv, Followed, RestingStates, Absent, Idle
<1>2. IInv /\ FollowInv /\ [Next]_vars => FollowInv'
  BY FollowStep
<1>3. Spec => []FollowInv
  BY <1>1, <1>2, Invariance, PTL DEF Spec
<1> QED
  BY <1>3, Invariance, FollowedIsPolled, PTL

-----------------------------------------------------------------------------
\* The refinement of OrderOutcome.  Only a step that changes an order's status at
\* the broker or in the store is a step of the abstract specification.
Truth  == [c \in Cid |-> AsStatus(book[c])]
Record == [c \in Cid |-> AsStatus(store[c])]

\* The initial states map to initial states of OrderOutcome.
LEMMA InitRefines == Init => Outcomes!Init
  BY DEF Init, Outcomes!Init, AsStatus

\* A step that moves neither the store nor the book is a stutter of OrderOutcome.
LEMMA Stutters ==
  ASSUME UNCHANGED <<book, store>> PROVE UNCHANGED Outcomes!vars
  BY DEF Outcomes!vars

\* The store takes over the broker's state of one order: the record learns the
\* outcome, or nothing visible happens.
LEMMA LearnStep ==
  ASSUME HasStore, IInv, NEW c \in Cid, book[c] # Absent, UNCHANGED book,
         store' = [store EXCEPT ![c] = book[c]]
  PROVE  [Outcomes!Next]_(Outcomes!vars)
<1> USE DEF IInv, TypeOK, OutcomeAgrees, RecordInv, AsStatus, TerminalStates
<1>1. store[c] # Absent
  OBVIOUS
<1>2. CASE store[c] \in TerminalStates
  <2>1. store' = store
    BY <1>2
  <2> QED
    BY <2>1, Stutters
<1>3. CASE store[c] \notin TerminalStates /\ book[c] \notin TerminalStates
  <2>1. Record' = Record
    BY <1>1, <1>3 DEF Record
  <2> QED
    BY <2>1 DEF Outcomes!vars, Record
<1>4. CASE store[c] \notin TerminalStates /\ book[c] \in TerminalStates
  <2>1. Outcomes!Learn(c)
    BY <1>1, <1>4, ZenonT(60) DEF Outcomes!Learn, Outcomes!Outcome, BrokerState, Absent
  <2> QED
    BY <2>1 DEF Outcomes!Next
<1> QED
  BY <1>2, <1>3, <1>4

\* The store moves between two states that are no outcome.
LEMMA OpenStep ==
  ASSUME HasStore, IInv, NEW c \in Cid, UNCHANGED book, store[c] = "SUBMITTED",
         NEW s \in {"ACKNOWLEDGED", "UNKNOWN"}, store' = [store EXCEPT ![c] = s]
  PROVE  UNCHANGED Outcomes!vars
<1>1. Record' = Record
  BY DEF IInv, TypeOK, Record, AsStatus, TerminalStates, Absent
<1> QED
  BY <1>1 DEF Outcomes!vars, Record

\* An order reaches the broker, in whatever state that leaves it.
LEMMA PlaceStep ==
  ASSUME HasStore, IInv, NEW c \in Cid, call.stage = "persisted", call.order = c,
         NEW s \in BrokerState, book' = [book EXCEPT ![c] = s], UNCHANGED store
  PROVE  Outcomes!Next
<1>1. store[c] = "SUBMITTED" /\ book[c] = Absent
  BY DEF IInv, HandlerInv, InSubmit
<1>2. AsStatus(s) \in Outcomes!Status \ {"none"}
  BY DEF AsStatus, Absent, TerminalStates, BrokerState, Outcomes!Status, Outcomes!Outcome
<1>3. Truth' = [Truth EXCEPT ![c] = AsStatus(s)]
  BY DEF IInv, TypeOK, Truth
<1>4. AsStatus(store[c]) = "open" /\ AsStatus(book[c]) = "none"
  BY <1>1 DEF AsStatus, Absent, TerminalStates
<1>5. Outcomes!Place(c)
  BY <1>2, <1>3, <1>4 DEF Outcomes!Place, Truth
<1> QED
  BY <1>5 DEF Outcomes!Next

\* Broker-side changes of orders it works, by execution or by cancellation.
LEMMA SettleStep ==
  ASSUME IInv, UNCHANGED store, book' \in [Cid -> BrokerState \cup {Absent}],
         \A c \in Cid : book'[c] # book[c] => book[c] \in RestingStates /\ book'[c] # Absent
  PROVE  [Outcomes!Next]_(Outcomes!vars)
<1> USE DEF IInv, TypeOK, AsStatus, Absent, TerminalStates, BrokerState, RestingStates
<1>1. Truth' \in [Cid -> Outcomes!Status]
  BY DEF Truth, Outcomes!Status, Outcomes!Outcome
<1>2. \A c \in Cid : Truth'[c] # Truth[c] =>
                       Truth[c] = "open" /\ Truth'[c] \in Outcomes!Outcome
  BY DEF Truth, Outcomes!Outcome
<1>3. Outcomes!Settle
  BY <1>1, <1>2 DEF Outcomes!Settle, Truth
<1> QED
  BY <1>3 DEF Outcomes!Next

\* A poll that copies the book's state into the store is Learn, or a stutter.
LEMMA PollRefines ==
  ASSUME HasStore, IInv, NEW c \in Cid, PollEffect(c), UNCHANGED book
  PROVE  [Outcomes!Next]_(Outcomes!vars)
<1>1. CASE PollActs(c)
  BY <1>1, LearnStep DEF PollActs, PollEffect, SyncStore, PolledStates, Absent
<1>2. CASE ~PollActs(c)
  BY <1>2, Stutters DEF PollEffect
<1> QED
  BY <1>1, <1>2

\* Every step of the engine maps to a step or a stutter of OrderOutcome.
LEMMA StepRefines ==
  ASSUME HasStore, IInv, [Next]_vars
  PROVE  [Outcomes!Next]_(Outcomes!vars)
<1> USE DEF storeVars, brokerVars
<1>0. /\ call.stage = "persisted" => call.order \in Cid
      /\ InSubmit => call.order \in Cid /\ store[call.order] = "SUBMITTED"
      /\ call.stage = "poll" => call.order \in Cid
  BY DEF IInv, TypeOK, HandlerInv, InSubmit
<1>1. ASSUME NEW c \in Cid, NEW a \in Approvals, NEW i \in Payload, NEW s \in Approvals,
             Submit(c, a, i, s)
      PROVE  [Outcomes!Next]_(Outcomes!vars)
  <2>1. store[c] = Absent /\ store' = [store EXCEPT ![c] = "SUBMITTED"] /\ UNCHANGED book
    BY <1>1 DEF Submit, StoreKnows, SyncStore
  <2>2. Outcomes!Commit(c)
    BY <2>1 DEF Outcomes!Commit, IInv, TypeOK, AsStatus, Absent, TerminalStates
  <2> QED
    BY <2>2 DEF Outcomes!Next
<1>2. CASE BrokerSubmit
  <2>1. CASE UNCHANGED brokerVars
    BY <1>2, <2>1, Stutters DEF BrokerSubmit
  <2>2. CASE \E s \in ExecuteOutcomes("ACKNOWLEDGED") : book' = [book EXCEPT ![call.order] = s]
    <3>1. ExecuteOutcomes("ACKNOWLEDGED") \subseteq BrokerState
      BY DEF ExecuteOutcomes, BrokerState, RestingStates
    <3> QED
      BY <1>0, <1>2, <2>2, <3>1, PlaceStep DEF BrokerSubmit
  <2> QED
    BY <1>2, <2>1, <2>2 DEF BrokerSubmit
<1>3. CASE BrokerRefuse
  BY <1>0, <1>3, PlaceStep DEF BrokerRefuse, BrokerState
<1>4. CASE SubmitTimedOut
  BY <1>0, <1>4, OpenStep DEF SubmitTimedOut, SyncStore, InSubmit
<1>5. CASE SubmitDisconnected
  BY <1>0, <1>5, OpenStep DEF SubmitDisconnected, SyncStore, InSubmit
<1>6. CASE SubmitRefused
  <2>1. book[call.order] = "REJECTED"
    BY <1>6 DEF SubmitRefused, IInv, HandlerInv
  <2> QED
    BY <1>0, <1>6, <2>1, LearnStep DEF SubmitRefused, SyncStore, InSubmit, Absent
<1>7. CASE SubmitAcked
  BY <1>0, <1>7, OpenStep DEF SubmitAcked, SyncStore, InSubmit
<1>8. CASE PollStep
  BY <1>0, <1>8, PollRefines, Stutters DEF PollStep
<1>9. CASE SyncBegin
  <2>1. CASE UNCHANGED book
    BY <1>9, <2>1, Stutters DEF SyncBegin
  <2>2. CASE /\ book' \in [Cid -> BrokerState \cup {Absent}]
             /\ \A c \in Cid : book'[c] \in ExecuteOutcomes(book[c])
    <3>1. \A c \in Cid : book'[c] # book[c] => book[c] \in RestingStates /\ book'[c] # Absent
      BY <2>2 DEF ExecuteOutcomes, RestingStates, Absent
    <3> QED
      BY <1>9, <2>2, <3>1, SettleStep DEF SyncBegin
  <2> QED
    BY <1>9, <2>1, <2>2 DEF SyncBegin
<1>10. ASSUME NEW c \in Cid, SyncPoll(c) PROVE [Outcomes!Next]_(Outcomes!vars)
  BY <1>10, PollRefines, Stutters DEF SyncPoll
<1>11. ASSUME NEW old \in SUBSET Cid, StaleBegin(old) PROVE [Outcomes!Next]_(Outcomes!vars)
  BY <1>11, Stutters DEF StaleBegin
<1>12. ASSUME NEW c \in Cid, StaleCancel(c) PROVE [Outcomes!Next]_(Outcomes!vars)
  <2>1. /\ book' \in [Cid -> BrokerState \cup {Absent}]
        /\ \A d \in Cid : book'[d] # book[d] => book[d] \in RestingStates /\ book'[d] # Absent
    BY <1>12 DEF StaleCancel, IInv, TypeOK, BrokerState, Absent
  <2> QED
    BY <1>12, <2>1, SettleStep DEF StaleCancel
<1>13. ASSUME NEW c \in Cid, ResolveUnknown(c) PROVE [Outcomes!Next]_(Outcomes!vars)
  BY <1>13, LearnStep DEF ResolveUnknown, SyncStore
<1>14. ASSUME NEW c \in Cid, PollOrder(c) PROVE [Outcomes!Next]_(Outcomes!vars)
  BY <1>14, PollRefines DEF PollOrder
<1>15. CASE RecoverFromStore
  BY <1>15, Stutters DEF RecoverFromStore
<1>16. CASE Crash
  BY <1>16, Stutters DEF Crash
<1>17. ASSUME NEW f \in Fault, SetFault(f) PROVE [Outcomes!Next]_(Outcomes!vars)
  BY <1>17, Stutters DEF SetFault
<1>18. CASE UNCHANGED vars
  BY <1>18, Stutters DEF vars
<1> QED
  BY <1>1, <1>2, <1>3, <1>4, <1>5, <1>6, <1>7, <1>8, <1>9, <1>10, <1>11, <1>12, <1>13,
     <1>14, <1>15, <1>16, <1>17, <1>18 DEF Next, EngineStep

\* With a store, the engine, its handlers cut anywhere by crashes and outages,
\* implements the durable order record: recorded before placed, settled by the
\* broker alone, corrected only to the truth and never taken back.
THEOREM Refinement == ASSUME HasStore PROVE Spec => ImplementsOrderOutcome
<1>1. IInv /\ [Next]_vars => [Outcomes!Next]_(Outcomes!vars)
  BY StepRefines
<1> QED
  BY <1>1, InitRefines, Invariance, PTL DEF Spec, ImplementsOrderOutcome, Outcomes!Spec

=============================================================================
