--------------------------- MODULE ExecutionEngine ---------------------------
(***************************************************************************)
(* The Execution Engine with its order state machine and its durable       *)
(* order store, against a broker that outlives the process                 *)
(* (services/execution/engine.py, services/execution/state_machine.py,     *)
(* packages/common/durable_store.py and the order book of                  *)
(* packages/broker_adapters/paper.py).                                     *)
(*                                                                         *)
(* The engine is single threaded: one handler runs at a time.  A handler   *)
(* is cut into steps exactly where it calls the broker or writes the       *)
(* store, because those are the points between which a crash of the        *)
(* process, or a change of the broker's condition, can be told apart from  *)
(* one before or after.  `call' is the handler in progress.                *)
(*                                                                         *)
(* Prices, quantities and cash do not matter here (TradingSession has      *)
(* them): what an execution attempt at the broker does to an order is any  *)
(* of the outcomes _execute can have.  An order's execution-relevant       *)
(* fields are one opaque Payload, and a hash is equal exactly when the     *)
(* payloads are.  on_fill is None wherever the repository builds an        *)
(* engine, so routing fills through it has no effect to model.             *)
(***************************************************************************)
EXTENDS Naturals, FiniteSets, OrderStates

CONSTANTS
  Cid,           \* client_order_ids
  Protective,    \* those whose intent has is_protective_exit
  Payload,       \* what determines what the broker does: symbol, side, qty, ...
  Approvals,     \* signed approvals the risk controller has minted
  NoApproval,    \* no risk_approval_id
  NoPayload,     \* nothing at the broker
  HasStore,      \* is a DurableOrderStore configured?
  StaleControl,  \* does the owner of the engine call check_stale_orders()?
  MaxCrashes     \* bound on process crashes

ASSUME ConstAssumption ==
  /\ Protective \subseteq Cid
  /\ Approvals \subseteq [cid: Cid, payload: Payload, id: Nat]
  /\ \A a, b \in Approvals : a.id = b.id => a = b
  /\ NoApproval \notin Approvals
  /\ NoPayload \notin Payload
  /\ HasStore \in BOOLEAN
  /\ StaleControl \in BOOLEAN
  /\ MaxCrashes \in Nat

VARIABLES
  sm,            \* OrderStateMachine._orders: the state of each record
  submitted,     \* the keys of ExecutionEngine._submitted
  snapshots,     \* ExecutionEngine._snapshots
  store,         \* DurableOrderStore: column state
  storeSnapshot, \* DurableOrderStore: column snapshot_json
  book,          \* the broker's order book: state of each order
  bookPayload,   \* the broker's order book: the request it holds
  calls,         \* how often broker.submit_order was called for an id
  risk,          \* MasterRiskController.state
  fault,         \* the broker's present condition
  call,          \* the handler in progress
  crashes

engineVars == <<sm, submitted, snapshots, risk>>
storeVars  == <<store, storeSnapshot>>
brokerVars == <<book, bookPayload>>
vars == <<sm, submitted, snapshots, store, storeSnapshot, book, bookPayload,
          calls, risk, fault, call, crashes>>

-----------------------------------------------------------------------------
\* Handler stages.  `order' is the order being handled, `todo' the orders the
\* loop of sync_open_orders or check_stale_orders still has to visit.
NoOrder == "NO_ORDER"
Idle    == [stage |-> "idle", order |-> NoOrder, todo |-> {}]
At(stage, c, rest) == [stage |-> stage, order |-> c, todo |-> rest]

Stage ==
  {"idle", "persisted", "acked", "refused", "timedout", "disconnected", "poll",
   "sync", "stale"}

BrokerState ==
  {"ACKNOWLEDGED", "PARTIALLY_FILLED", "FILLED", "CANCELLED", "REJECTED"}

\* The tables of engine, store and broker have their types, and a handler that
\* works on an order has one.
TypeOK ==
  /\ sm \in [Cid -> OrderState \cup {Absent}]
  /\ submitted \subseteq Cid
  /\ snapshots \in [Cid -> Approvals \cup {NoApproval}]
  /\ store \in [Cid -> OrderState \cup {Absent}]
  /\ storeSnapshot \in [Cid -> Approvals \cup {NoApproval}]
  /\ book \in [Cid -> BrokerState \cup {Absent}]
  /\ bookPayload \in [Cid -> Payload \cup {NoPayload}]
  /\ calls \in [Cid -> Nat]
  /\ risk \in RiskState
  /\ fault \in Fault
  /\ call \in [stage: Stage, order: Cid \cup {NoOrder}, todo: SUBSET Cid]
  /\ call.stage \notin {"idle", "sync", "stale"} => call.order \in Cid
  /\ crashes \in 0..MaxCrashes

Init ==
  /\ sm = [c \in Cid |-> Absent]
  /\ submitted = {}
  /\ snapshots = [c \in Cid |-> NoApproval]
  /\ store = [c \in Cid |-> Absent]
  /\ storeSnapshot = [c \in Cid |-> NoApproval]
  /\ book = [c \in Cid |-> Absent]
  /\ bookPayload = [c \in Cid |-> NoPayload]
  /\ calls = [c \in Cid |-> 0]
  /\ risk = "NORMAL"
  /\ fault = "NONE"
  /\ call = Idle
  /\ crashes = 0

-----------------------------------------------------------------------------
\* Fault-injected variant: the broker marks an order UNKNOWN when it times out.
ExecuteOutcomesUnknown(s) == IF fault = "TIMEOUT" THEN {"UNKNOWN"} ELSE {s, "FILLED"}

\* PaperBroker._execute: what one execution attempt can leave an order in.
\* No price: it rests.  A partial-fill condition fills half of what is left.
\* Cash or position missing: rejected, unless the order already has fills.
ExecuteOutcomes(s) ==
  LET filled == IF fault = "PARTIAL_FILL" THEN "PARTIALLY_FILLED" ELSE "FILLED"
  IN  {s} \cup (IF s \in RestingStates THEN {filled} ELSE {})
          \cup (IF s = "ACKNOWLEDGED" THEN {"REJECTED"} ELSE {})

\* Fault-injected variant: rows are only updated, none is inserted on submission.
SyncStoreUpdateOnly(c, s) ==
  store' = IF HasStore /\ store[c] # Absent THEN [store EXCEPT ![c] = s] ELSE store

\* _sync_store: mirror a transition into the durable store, if there is one.
SyncStore(c, s) == store' = IF HasStore THEN [store EXCEPT ![c] = s] ELSE store

\* Fault-injected variant: the durable duplicate check is missing.
StoreKnowsNothing(c) == FALSE

\* is_known: the store has a row for the id.
StoreKnows(c) == HasStore /\ store[c] # Absent

\* RiskApprovedOrder: the approval covers exactly this order's fields.
Covers(a, c, intent) == a.cid = c /\ a.payload = intent

\* matches_intent: the intent re-hashes to what the snapshot froze.
MatchesIntent(snap, c, intent) == snap.cid = c /\ snap.payload = intent

\* record_submission: the row is inserted with the snapshot.
RecordSubmission(c, snap) ==
  /\ SyncStore(c, "SUBMITTED")
  /\ storeSnapshot' =
       IF HasStore THEN [storeSnapshot EXCEPT ![c] = snap] ELSE storeSnapshot

\* submit, up to the broker call: every check that raises comes before any
\* state changes.  The broker request is built from the snapshot.  The row is
\* inserted before the broker is called.
Submit(c, a, intent, snap) ==
  /\ call.stage = "idle"
  /\ Covers(a, c, intent)
  /\ c \notin submitted /\ ~StoreKnows(c)      \* DuplicateClientOrderIdError
  /\ snap.id = a.id                            \* frozen against this approval
  /\ MatchesIntent(snap, c, intent)            \* OrderTamperError
  /\ sm[c] = Absent                            \* sm.create
  /\ sm' = [sm EXCEPT ![c] = "SUBMITTED"]
  /\ submitted' = submitted \cup {c}
  /\ snapshots' = [snapshots EXCEPT ![c] = snap]
  /\ RecordSubmission(c, snap)
  /\ call' = At("persisted", c, {})
  /\ UNCHANGED <<brokerVars, calls, risk, fault, crashes>>

\* PaperBroker._orders has the id.
BrokerHas(c) == book[c] # Absent

\* PaperBroker.submit_order for the request built from the order's snapshot.
BrokerSubmit ==
  LET c == call.order
  IN  /\ call.stage = "persisted"
      /\ calls' = [calls EXCEPT ![c] = @ + 1]
      /\ \/ /\ fault = "DISCONNECT"
            /\ call' = At("disconnected", c, {})
            /\ UNCHANGED brokerVars
         \/ /\ fault # "DISCONNECT" /\ BrokerHas(c)
            /\ call' = Idle                    \* DuplicateClientOrderIdError
            /\ UNCHANGED brokerVars
         \/ /\ fault # "DISCONNECT" /\ ~BrokerHas(c)
            /\ \E s \in ExecuteOutcomes("ACKNOWLEDGED") : book' = [book EXCEPT ![c] = s]
            /\ bookPayload' = [bookPayload EXCEPT ![c] = snapshots[c].payload]
            /\ call' = At(IF fault = "TIMEOUT" THEN "timedout" ELSE "acked", c, {})
      /\ UNCHANGED <<engineVars, storeVars, fault, crashes>>

\* An adapter that answers accepted = False (the BrokerAdapter interface allows
\* it; the paper broker never does).
BrokerRefuse ==
  /\ call.stage = "persisted"
  /\ fault # "DISCONNECT" /\ ~BrokerHas(call.order)
  /\ calls' = [calls EXCEPT ![call.order] = @ + 1]
  /\ book' = [book EXCEPT ![call.order] = "REJECTED"]
  /\ call' = At("refused", call.order, {})
  /\ UNCHANGED <<engineVars, storeVars, bookPayload, fault, crashes>>

\* Fault-injected variant: a timeout is taken for a rejection.
SubmitTimedOutAsRejected ==
  /\ call.stage = "timedout"
  /\ sm' = [sm EXCEPT ![call.order] = "REJECTED"]
  /\ SyncStore(call.order, "REJECTED")
  /\ call' = Idle
  /\ UNCHANGED <<submitted, snapshots, storeSnapshot, brokerVars, calls, risk, fault, crashes>>

\* except BrokerTimeoutError: outcome unknown, never resubmit, halt entries.
SubmitTimedOut ==
  /\ call.stage = "timedout"
  /\ sm' = [sm EXCEPT ![call.order] = "UNKNOWN"]
  /\ SyncStore(call.order, "UNKNOWN")
  /\ risk' = "HALT_NEW_ENTRIES"
  /\ call' = Idle
  /\ UNCHANGED <<submitted, snapshots, storeSnapshot, brokerVars, calls, fault, crashes>>

\* Fault-injected variant: the risk state is left alone.
SubmitDisconnectedNoHalt ==
  /\ call.stage = "disconnected"
  /\ sm' = [sm EXCEPT ![call.order] = "UNKNOWN"]
  /\ SyncStore(call.order, "UNKNOWN")
  /\ call' = Idle
  /\ UNCHANGED <<submitted, snapshots, storeSnapshot, brokerVars, calls, risk, fault, crashes>>

\* except BrokerDisconnectedError.
SubmitDisconnected ==
  /\ call.stage = "disconnected"
  /\ sm' = [sm EXCEPT ![call.order] = "UNKNOWN"]
  /\ SyncStore(call.order, "UNKNOWN")
  /\ risk' = "FULL_BROKER_DISCONNECT"
  /\ call' = Idle
  /\ UNCHANGED <<submitted, snapshots, storeSnapshot, brokerVars, calls, fault, crashes>>

SubmitRefused ==
  /\ call.stage = "refused"
  /\ sm' = [sm EXCEPT ![call.order] = "REJECTED"]
  /\ SyncStore(call.order, "REJECTED")
  /\ call' = Idle
  /\ UNCHANGED <<submitted, snapshots, storeSnapshot, brokerVars, calls, risk, fault, crashes>>

\* The acknowledgement is recorded, then submit goes on to poll the order.
SubmitAcked ==
  /\ call.stage = "acked"
  /\ sm' = [sm EXCEPT ![call.order] = "ACKNOWLEDGED"]
  /\ SyncStore(call.order, "ACKNOWLEDGED")
  /\ call' = At("poll", call.order, {})
  /\ UNCHANGED <<submitted, snapshots, storeSnapshot, brokerVars, calls, risk, fault, crashes>>

-----------------------------------------------------------------------------
\* poll_order: does the broker's answer make it transition, and would the
\* whitelist refuse that transition?
PollActs(c)   == book[c] # sm[c] /\ book[c] \in PolledStates
PollRaises(c) == book[c] = Absent \/ (PollActs(c) /\ book[c] \notin AllowedFrom(sm[c]))

PollEffect(c) ==
  IF PollActs(c) THEN /\ sm' = [sm EXCEPT ![c] = book[c]]
                      /\ SyncStore(c, book[c])
                 ELSE UNCHANGED <<sm, store>>

\* The poll that ends submit, and the one after each cancel of
\* check_stale_orders.  A disconnect or an illegal transition raises out of the
\* handler; otherwise the handler goes on with the orders it has left.
PollStep ==
  LET c == call.order
  IN  /\ call.stage = "poll"
      /\ IF fault = "DISCONNECT" \/ PollRaises(c)
           THEN /\ UNCHANGED <<sm, store>>
                /\ call' = Idle
           ELSE /\ PollEffect(c)
                /\ call' = IF call.todo = {} THEN Idle
                           ELSE At("stale", NoOrder, call.todo)
      /\ UNCHANGED <<submitted, snapshots, storeSnapshot, brokerVars, calls, risk, fault, crashes>>

\* sync_open_orders, first half: poll_resting_orders re-evaluates every resting
\* order at the broker; the orders the engine believes open are then polled.
SyncBegin ==
  /\ call.stage = "idle"
  /\ \/ /\ fault = "DISCONNECT"
        /\ risk' = "FULL_BROKER_DISCONNECT"
        /\ UNCHANGED <<book, call>>
     \/ /\ fault # "DISCONNECT"
        /\ book' \in [Cid -> BrokerState \cup {Absent}]
        /\ \A c \in Cid : book'[c] \in ExecuteOutcomes(book[c])
        /\ LET open == {c \in Cid : sm[c] \in RestingStates}
           IN  call' = IF open = {} THEN Idle ELSE At("sync", NoOrder, open)
        /\ UNCHANGED risk
  /\ UNCHANGED <<sm, submitted, snapshots, storeVars, bookPayload, calls, fault, crashes>>

\* sync_open_orders, one iteration of its loop.
SyncPoll(c) ==
  /\ call.stage = "sync" /\ c \in call.todo
  /\ \/ /\ fault = "DISCONNECT"
        /\ risk' = "FULL_BROKER_DISCONNECT"
        /\ call' = Idle
        /\ UNCHANGED <<sm, store>>
     \/ /\ fault # "DISCONNECT" /\ PollRaises(c)
        /\ call' = Idle                        \* IllegalTransitionError escapes
        /\ UNCHANGED <<sm, store, risk>>
     \/ /\ fault # "DISCONNECT" /\ ~PollRaises(c)
        /\ PollEffect(c)
        /\ call' = IF call.todo = {c} THEN Idle
                   ELSE At("sync", NoOrder, call.todo \ {c})
        /\ UNCHANGED risk
  /\ UNCHANGED <<submitted, snapshots, storeSnapshot, brokerVars, calls, fault, crashes>>

\* check_stale_orders over the entries whose age exceeds the limit.  Age is not
\* modelled: any set of acknowledged entries may be stale.
StaleBegin(old) ==
  /\ StaleControl
  /\ call.stage = "idle"
  /\ old # {}
  /\ old \subseteq {c \in submitted \ Protective : sm[c] = "ACKNOWLEDGED"}
  /\ call' = At("stale", NoOrder, old)
  /\ UNCHANGED <<engineVars, storeVars, brokerVars, calls, fault, crashes>>

\* One iteration: cancel at the broker, then CANCEL_REQUESTED, which is not
\* mirrored into the store, then poll.
StaleCancel(c) ==
  /\ call.stage = "stale" /\ c \in call.todo
  /\ \/ /\ fault = "DISCONNECT"
        /\ call' = Idle
        /\ UNCHANGED <<sm, book>>
     \/ /\ fault # "DISCONNECT"
        /\ book' = IF book[c] \in RestingStates
                     THEN [book EXCEPT ![c] = "CANCELLED"] ELSE book
        /\ sm' = [sm EXCEPT ![c] = "CANCEL_REQUESTED"]
        /\ call' = At("poll", c, call.todo \ {c})
  /\ UNCHANGED <<submitted, snapshots, storeVars, bookPayload, calls, risk, fault, crashes>>

\* resolve_unknown(c): an outage, or an order the broker does not know, leaves
\* the order UNKNOWN.
ResolveUnknown(c) ==
  /\ call.stage = "idle"
  /\ sm[c] = "UNKNOWN"
  /\ fault # "DISCONNECT" /\ book[c] # Absent
  /\ sm' = [sm EXCEPT ![c] = book[c]]
  /\ SyncStore(c, book[c])
  /\ UNCHANGED <<submitted, snapshots, storeSnapshot, brokerVars, calls, risk, fault, call, crashes>>

\* poll_order(c) called from outside, for an order the engine has.
PollOrder(c) ==
  /\ call.stage = "idle"
  /\ sm[c] # Absent
  /\ fault # "DISCONNECT" /\ ~PollRaises(c)
  /\ PollActs(c)
  /\ PollEffect(c)
  /\ UNCHANGED <<submitted, snapshots, storeSnapshot, brokerVars, calls, risk, fault, call, crashes>>

\* recover_from_store: every row the state machine lacks is restored as stored.
RecoverFromStore ==
  /\ call.stage = "idle"
  /\ HasStore
  /\ \E c \in Cid : store[c] # Absent /\ sm[c] = Absent
  /\ sm' = [c \in Cid |-> IF sm[c] = Absent THEN store[c] ELSE sm[c]]
  /\ snapshots' = [c \in Cid |-> IF sm[c] = Absent THEN storeSnapshot[c] ELSE snapshots[c]]
  /\ UNCHANGED <<submitted, storeVars, brokerVars, calls, risk, fault, call, crashes>>

-----------------------------------------------------------------------------
\* The process dies and a new one starts: everything in memory is gone, the new
\* MasterRiskController starts NORMAL, the store and the broker remain.
Crash ==
  /\ crashes < MaxCrashes
  /\ crashes' = crashes + 1
  /\ sm' = [c \in Cid |-> Absent]
  /\ submitted' = {}
  /\ snapshots' = [c \in Cid |-> NoApproval]
  /\ risk' = "NORMAL"
  /\ call' = Idle
  /\ UNCHANGED <<storeVars, brokerVars, calls, fault>>

\* The broker's condition changes at any moment, also between two broker calls
\* of one handler.
SetFault(f) ==
  /\ f # fault
  /\ fault' = f
  /\ UNCHANGED <<engineVars, storeVars, brokerVars, calls, call, crashes>>

EngineStep ==
  \/ \E c \in Cid, a \in Approvals, i \in Payload, s \in Approvals : Submit(c, a, i, s)
  \/ BrokerSubmit \/ BrokerRefuse
  \/ SubmitTimedOut \/ SubmitDisconnected \/ SubmitRefused \/ SubmitAcked
  \/ PollStep
  \/ SyncBegin
  \/ \E c \in Cid : SyncPoll(c)
  \/ \E old \in SUBSET Cid : StaleBegin(old)
  \/ \E c \in Cid : StaleCancel(c)
  \/ \E c \in Cid : ResolveUnknown(c)
  \/ \E c \in Cid : PollOrder(c)
  \/ RecoverFromStore

Next == EngineStep \/ Crash \/ \E f \in Fault : SetFault(f)

Spec == Init /\ [][Next]_vars

\* What the code's scheduling gives: a handler that has begun runs to its end,
\* and every session starts with sync_open_orders (manage_open_positions is the
\* first thing run_session does).
Fairness ==
  /\ WF_vars(BrokerSubmit \/ BrokerRefuse)
  /\ WF_vars(SubmitTimedOut \/ SubmitDisconnected \/ SubmitRefused \/ SubmitAcked)
  /\ WF_vars(PollStep)
  /\ WF_vars(SyncBegin)
  /\ WF_vars(\E c \in Cid : SyncPoll(c))
  /\ WF_vars(\E c \in Cid : StaleCancel(c))

FairSpec == Spec /\ Fairness

-----------------------------------------------------------------------------
\* engine.submit persists before it calls the broker, so that a crash between
\* the two leaves a durable record: no order is ever at the broker without a
\* row in the store, whatever crashes and outages happen in between.
NoOrphanOrder ==
  HasStore => \A c \in Cid : book[c] # Absent => store[c] # Absent

\* Idempotency across restarts (INV-7, F3): however often the owner retries,
\* crashes and recovers, broker.submit_order is called at most once per
\* client_order_id.
SubmittedOnce == HasStore => \A c \in Cid : calls[c] <= 1

\* INV-17 and INV-18 end to end: the request the broker works is the one the
\* durably recorded snapshot froze, and that snapshot is an approval of this
\* very order, also after restarts.
BrokerWorksApproved ==
  HasStore =>
    \A c \in Cid : bookPayload[c] # NoPayload =>
      /\ storeSnapshot[c] \in Approvals
      /\ storeSnapshot[c].cid = c
      /\ storeSnapshot[c].payload = bookPayload[c]

\* What the engine, or after a restart the store, reports as over is over at the
\* broker, with that same outcome.
OutcomeAgrees ==
  \A c \in Cid :
    /\ sm[c] \in TerminalStates => book[c] = sm[c]
    /\ store[c] \in TerminalStates => book[c] = store[c]

\* Section 45: an order this process left UNKNOWN keeps new entries halted; no
\* later handler of the engine puts the risk state back to NORMAL.
UnknownKeepsHalt ==
  (\E c \in submitted : sm[c] = "UNKNOWN") => risk # "NORMAL"

\* sync_open_orders only polls orders whose broker status its whitelist can
\* follow: the loop is never cut short by IllegalTransitionError or KeyError,
\* which would leave the remaining stops unpolled.
SyncNeverAborts == \A c \in Cid : sm[c] \in RestingStates => ~PollRaises(c)

\* A protective stop that has ended at the broker is noticed by the engine, also
\* one recovered after a restart, whatever else the engine is asked to do, unless
\* the broker is unreachable or a restart forgets the order until it is recovered.
EndIsNoticed ==
  \A c \in Protective :
    (sm[c] \in RestingStates /\ book[c] \in TerminalStates)
      ~> (sm[c] = book[c] \/ fault = "DISCONNECT" \/ sm[c] = Absent)

\* With a store configured the engine implements OrderOutcome: the broker's book
\* is the truth, the store the record.  Every state that is not an outcome is an
\* open order.
AsStatus(s) ==
  IF s = Absent THEN "none" ELSE IF s \in TerminalStates THEN s ELSE "open"

Outcomes == INSTANCE OrderOutcome WITH
  Order  <- Cid,
  truth  <- [c \in Cid |-> AsStatus(book[c])],
  record <- [c \in Cid |-> AsStatus(store[c])]

ImplementsOrderOutcome == Outcomes!Spec

-----------------------------------------------------------------------------
\* recover_from_store's contract: a recovered order is visible to
\* resolve_unknown and poll_order again, so one of the two can settle it to what
\* the broker reports.
RecoveredOrderCanSettle ==
  \A c \in Cid \ submitted :
    (call.stage = "idle" /\ sm[c] # Absent /\ book[c] \in TerminalStates)
      => sm[c] = "UNKNOWN" \/ ~PollRaises(c)

=============================================================================
