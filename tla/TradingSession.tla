--------------------------- MODULE TradingSession ---------------------------
(***************************************************************************)
(* The daily trading session: TradingPipeline.run_session from the point   *)
(* where orders exist (services/pipeline.py) over the Execution Engine,    *)
(* the paper broker's matching and cash (packages/broker_adapters/         *)
(* paper.py), the accounting ledger (packages/common/ledger.py) and        *)
(* reconciliation (services/reconciliation/engine.py).                     *)
(*                                                                         *)
(* Everything before an order (scanner, Decision AI, skeptic, sizing,      *)
(* allocation, audit) only decides whether an entry is attempted, for      *)
(* which symbol and quantity: here any attempt may be made.  Of the risk   *)
(* review the checks on the risk state and on settled cash are kept; the   *)
(* others can only refuse more (module RiskGate has them).                 *)
(*                                                                         *)
(* A session is cut into steps at its broker calls, since the broker's     *)
(* condition and, with LivePrices, the quotes may change between them.     *)
(* An exception that escapes run_session ends the session where it is.     *)
(* With QuotesFail a quote may be missing when the broker matches an order *)
(* or when a stop is reviewed, which is such an exception.                 *)
(***************************************************************************)
EXTENDS Integers, FiniteSets, Sequences, OrderStates

CONSTANTS
  Sym,          \* symbols
  Prices,       \* quotes, in ticks
  Qtys,         \* sizes the sizing engine comes up with
  StopDistance, \* StopPlan.stop_distance
  Slip,         \* half the spread plus slippage
  FeeDiv,       \* a fee is 1/FeeDiv of the cost
  InitialCash,
  Faults,       \* the broker conditions that may occur
  LivePrices,   \* may quotes move while a session runs?
  QuotesFail,   \* may a quote be missing (quote_fn or market data raises)?
  MaxNew,       \* max_new_positions
  MaxOrders,    \* bound on orders
  MaxResets     \* bound on OperatorReset

ASSUME SessionAssumption ==
  /\ Prices \subseteq Nat \ {0} /\ Qtys \subseteq Nat \ {0}
  /\ StopDistance \in Nat \ {0} /\ Slip \in Nat /\ FeeDiv \in Nat \ {0}
  /\ InitialCash \in Nat \ {0}
  /\ {"NONE"} \subseteq Faults /\ Faults \subseteq Fault
  /\ LivePrices \in BOOLEAN /\ QuotesFail \in BOOLEAN
  /\ {MaxNew, MaxOrders, MaxResets} \subseteq Nat

VARIABLES
  broker,    \* PaperBroker: settled and unsettled cash, positions, last fills
  orders,    \* every order: the request, the broker's state, the engine's state
  ledger,    \* Ledger: cash and positions
  openStops, \* the keys of TradingPipeline.open_stops
  price, fault,
  risk,      \* MasterRiskController.state
  pc,        \* where run_session is
  resets

vars == <<broker, orders, ledger, openStops, price, fault, risk, pc, resets>>

-----------------------------------------------------------------------------
\* An order: `at' is its state at the broker, `sm' its state in the engine.
Order(s, kind, q, stop) ==
  [sym |-> s, kind |-> kind, qty |-> q, stop |-> stop, filled |-> 0,
   at |-> Absent, sm |-> "SUBMITTED"]
AtBroker(o, filled, at) ==
  [sym |-> o.sym, kind |-> o.kind, qty |-> o.qty, stop |-> o.stop, filled |-> filled,
   at |-> at, sm |-> o.sm]
AtEngine(o, sm) ==
  [sym |-> o.sym, kind |-> o.kind, qty |-> o.qty, stop |-> o.stop, filled |-> o.filled,
   at |-> o.at, sm |-> sm]

Ids == 1..Len(orders)
Left(o) == o.qty - o.filled
Working(o) == o.at \in RestingStates

\* The broker's account; `fills' are those of the broker call in hand.
Account(settled, unsettled, pos, fills) ==
  [settled |-> settled, unsettled |-> unsettled, pos |-> pos, fills |-> fills]
NoFills(book) == Account(book.settled, book.unsettled, book.pos, <<>>)

\* Where the session is: the entry being handled is the last order.
Place(at, left, s, q, stop) ==
  [at |-> at, left |-> left, sym |-> s, qty |-> q, stop |-> stop]
Between == Place("idle", 0, "none", 0, 0)
Entries(n) == Place("entries", n, "none", 0, 0)
GoOn(at) == Place(at, pc.left, pc.sym, pc.qty, pc.stop)
Stages == {"idle", "entries", "approved", "acked", "filled", "booked", "stopAcked"}

OrderType ==
  [sym : Sym, kind : {"entry", "stop"}, qty : Nat \ {0}, stop : Int, filled : Nat,
   at : OrderState \cup {Absent}, sm : OrderState]
FillType == [sym : Sym, qty : Int, cash : Int, fee : Nat]
AccountType ==
  [settled : Nat, unsettled : Nat, pos : [Sym -> Nat], fills : Seq(FillType)]
LedgerType == [cash : Nat, pos : [Sym -> Nat]]

\* Everything has its type: no order fills beyond its quantity, and no account
\* runs out of cash or goes short of shares.
TypeOK ==
  /\ broker \in AccountType
  /\ orders \in Seq(OrderType) /\ \A i \in Ids : orders[i].filled <= orders[i].qty
  /\ ledger \in LedgerType
  /\ openStops \subseteq Sym
  /\ price \in [Sym -> Prices]
  /\ fault \in Faults /\ risk \in RiskState
  /\ pc \in [at : Stages, left : 0..MaxNew, sym : Sym \cup {"none"}, qty : Nat, stop : Int]
  /\ resets \in 0..MaxResets

Init ==
  /\ broker = Account(InitialCash, 0, [s \in Sym |-> 0], <<>>)
  /\ orders = <<>>
  /\ ledger = [cash |-> InitialCash, pos |-> [s \in Sym |-> 0]]
  /\ openStops = {}
  /\ price \in [Sym -> Prices]
  /\ fault = "NONE"
  /\ risk = "NORMAL"
  /\ pc = Between
  /\ resets = 0

-----------------------------------------------------------------------------
\* _fill_price: an entry is a MARKET order and always has one; a stop has one
\* once the bid is at or under it.  0: none, the order rests.
Larger(a, b) == IF a > b THEN a ELSE b
FillPrice(o) ==
  IF o.kind = "entry" THEN price[o.sym] + Slip
  ELSE IF price[o.sym] <= o.stop THEN Larger(1, price[o.sym] - Slip) ELSE 0

Fees(cost) == cost \div FeeDiv

\* Half of what is left fills under PARTIAL_FILL.
FillQty(o) == IF fault = "PARTIAL_FILL" THEN Left(o) \div 2 ELSE Left(o)

\* Fault-injected variant: the fee is forgotten in the cash check.
LackingNoFee(book, o, q, cost) ==
  IF o.kind = "entry" THEN cost > book.settled ELSE book.pos[o.sym] < q

\* _execute's guards: settled cash for cost and fee, or the shares to sell.
Lacking(book, o, q, cost) ==
  IF o.kind = "entry" THEN cost + Fees(cost) > book.settled ELSE book.pos[o.sym] < q

\* A market: the broker's account and its order book.
Market(book, ords) == [book |-> book, ords |-> ords]
Rejected(m, i) ==
  Market(m.book, [m.ords EXCEPT ![i] = AtBroker(@, @.filled, "REJECTED")])

\* A purchase takes settled cash, the proceeds of a sale are unsettled.
Filled(m, i, q, cost) ==
  LET o   == m.ords[i]
      b   == m.book
      fee == Fees(cost)
      buy == o.kind = "entry"
      n   == IF buy THEN q ELSE -q
  IN  Market(Account(IF buy THEN b.settled - cost - fee ELSE b.settled,
                     IF buy THEN b.unsettled ELSE b.unsettled + cost - fee,
                     [b.pos EXCEPT ![o.sym] = @ + n],
                     Append(b.fills, [sym |-> o.sym, qty |-> n, fee |-> fee,
                                      cash |-> IF buy THEN -cost ELSE cost])),
             [m.ords EXCEPT ![i] = AtBroker(o, o.filled + q,
                IF o.filled + q = o.qty THEN "FILLED" ELSE "PARTIALLY_FILLED")])

\* _execute on order i of market m: no price, it rests; cash or shares missing,
\* it is rejected unless it has fills; else it fills.
Execute(m, i) ==
  LET o    == m.ords[i]
      q    == FillQty(o)
      cost == q * FillPrice(o)
  IN  IF FillPrice(o) = 0 \/ Left(o) = 0 THEN m
      ELSE IF Lacking(m.book, o, q, cost)
        THEN IF o.filled = 0 THEN Rejected(m, i) ELSE m
      ELSE Filled(m, i, q, cost)

\* The model's quantities are whole: a partial fill happens to even remainders.
Halvable(o) == fault = "PARTIAL_FILL" => Left(o) % 2 = 0

\* submit_order: the last order arrives at the broker and is tried at once.
Arrive(o) ==
  Execute(Market(NoFills(broker), Append(orders, AtBroker(o, 0, "ACKNOWLEDGED"))),
          Len(orders) + 1)

\* Fault-injected variant: stops are not tried again.
RetryEntries(m, i) ==
  IF Working(m.ords[i]) /\ m.ords[i].kind = "entry" THEN Execute(m, i) ELSE m

\* poll_resting_orders: every resting order is tried again, oldest first.
Retry(m, i) == IF Working(m.ords[i]) THEN Execute(m, i) ELSE m
Polls[i \in 0..Len(orders)] ==
  IF i = 0 THEN Market(NoFills(broker), orders) ELSE Retry(Polls[i - 1], i)
PollResting == Polls[Len(orders)]

\* poll_order for one order of ords: the engine takes over the broker's state.
Polled(o) == IF o.at \in PolledStates THEN AtEngine(o, o.at) ELSE o

\* Ledger.record_fill: refuses a short sale and negative cash; a refusal raises.
Bookable(l, f) ==
  /\ l.pos[f.sym] + f.qty >= 0
  /\ l.cash + f.cash - f.fee >= 0
Booked(l, f) ==
  [cash |-> l.cash + f.cash - f.fee, pos |-> [l.pos EXCEPT ![f.sym] = @ + f.qty]]

\* The books while the fills of a sync are booked; `ok' until one is refused.
Tally(ok, l, stops) == [ok |-> ok, ledger |-> l, stops |-> stops]
Refused(acc) == Tally(FALSE, acc.ledger, acc.stops)

\* Fault-injected variant: a late purchase does not reach the ledger.
ManageSale(acc, f) ==
  IF f.qty > 0 THEN acc
  ELSE IF ~acc.ok \/ ~Bookable(acc.ledger, f) THEN Refused(acc)
  ELSE Tally(TRUE, Booked(acc.ledger, f), acc.stops)

\* Fault-injected variant: any sale forgets the stop of its symbol.
ManageFillForgets(acc, f) ==
  IF ~acc.ok \/ ~Bookable(acc.ledger, f) THEN Refused(acc)
  ELSE Tally(TRUE, Booked(acc.ledger, f),
             IF f.qty < 0 THEN acc.stops \ {f.sym} ELSE acc.stops)

\* manage_open_positions: book one fill of the sync; once a sale has closed the
\* position the stop is forgotten.  A refused fill ends the loop.
ManageFill(acc, f) ==
  IF ~acc.ok \/ ~Bookable(acc.ledger, f) THEN Refused(acc)
  ELSE LET l == Booked(acc.ledger, f)
       IN  Tally(TRUE, l, IF f.qty < 0 /\ l.pos[f.sym] = 0
                            THEN acc.stops \ {f.sym} ELSE acc.stops)
Managed(fills) ==
  LET acc[k \in 0..Len(fills)] ==
        IF k = 0 THEN Tally(TRUE, ledger, openStops)
        ELSE ManageFill(acc[k - 1], fills[k])
  IN  acc
ManageFills(fills) == Managed(fills)[Len(fills)]

-----------------------------------------------------------------------------
\* run_session begins: sync_open_orders, then its fills are booked.  The engine
\* polls the orders it believes open.
PollOpen(os, n) ==
  [i \in DOMAIN os |-> IF i <= n /\ os[i].sm \in RestingStates THEN Polled(os[i]) ELSE os[i]]

SessionStart ==
  /\ pc.at = "idle"
  /\ fault # "DISCONNECT"
  /\ \A i \in Ids : Working(orders[i]) => Halvable(orders[i])
  /\ LET m == PollResting
         b == ManageFills(m.book.fills)
     IN  /\ broker' = NoFills(m.book)
         /\ orders' = PollOpen(m.ords, Len(orders))
         /\ ledger' = b.ledger
         /\ openStops' = b.stops
         /\ pc' = IF b.ok THEN Entries(MaxNew) ELSE Between
  /\ UNCHANGED <<price, fault, risk, resets>>

\* The broker is unreachable from the start: nothing is synced.
SessionStartOffline ==
  /\ pc.at = "idle"
  /\ fault = "DISCONNECT"
  /\ risk' = "FULL_BROKER_DISCONNECT"
  /\ pc' = Entries(MaxNew)
  /\ UNCHANGED <<broker, orders, ledger, openStops, price, fault, resets>>

\* The connection breaks after the resting orders were tried and n of them
\* polled: sync_open_orders returns no fills, those it got are not booked.
SessionStartCut(n) ==
  /\ pc.at = "idle"
  /\ fault # "DISCONNECT" /\ "DISCONNECT" \in Faults
  /\ \A i \in Ids : Working(orders[i]) => Halvable(orders[i])
  /\ n < Len(orders) /\ orders[n + 1].sm \in RestingStates
  /\ broker' = NoFills(PollResting.book)
  /\ orders' = PollOpen(PollResting.ords, n)
  /\ fault' = "DISCONNECT"
  /\ risk' = "FULL_BROKER_DISCONNECT"
  /\ pc' = Entries(MaxNew)
  /\ UNCHANGED <<ledger, openStops, price, resets>>

\* quote_fn raises when poll_resting_orders comes to order n + 1: the orders before
\* it were tried.  sync_open_orders catches disconnects only, so run_session ends:
\* the engine polls nothing and the fills made are not booked.
SessionStartBlind(n) ==
  /\ QuotesFail
  /\ pc.at = "idle"
  /\ fault # "DISCONNECT"
  /\ n < Len(orders) /\ Working(orders[n + 1])
  /\ \A i \in 1..n : Working(orders[i]) => Halvable(orders[i])
  /\ broker' = NoFills(Polls[n].book)
  /\ orders' = Polls[n].ords
  /\ UNCHANGED <<ledger, openStops, price, fault, risk, pc, resets>>

\* Fault-injected variant: only a full disconnect stops entries.
EntryAllowedWhenConnected == risk # "FULL_BROKER_DISCONNECT"

\* _entry_allowed_by_state
EntryAllowed == risk = "NORMAL"

\* A sized, allocated and audited BUY passes the risk review, which reads the
\* settled cash from the broker (0 when it cannot).
EntryApproved(s, q) ==
  /\ pc.at = "entries" /\ pc.left > 0
  /\ Len(orders) + 2 <= MaxOrders
  /\ EntryAllowed
  /\ fault # "DISCONNECT" /\ q * price[s] <= broker.settled
  /\ pc' = Place("approved", pc.left - 1, s, q, price[s] - StopDistance)
  /\ UNCHANGED <<broker, orders, ledger, openStops, price, fault, risk, resets>>

\* ExecutionEngine.submit up to the acknowledgement; `cont' is where the caller
\* goes on after an UNKNOWN outcome, `acked' after an acknowledgement.
SubmitOrder(o, acked, cont) ==
  /\ Halvable(o)
  /\ \/ /\ fault = "DISCONNECT"
        /\ orders' = Append(orders, AtEngine(o, "UNKNOWN"))
        /\ risk' = "FULL_BROKER_DISCONNECT"
        /\ pc' = cont
        /\ UNCHANGED broker
     \/ /\ fault = "TIMEOUT"
        /\ LET m == Arrive(AtEngine(o, "UNKNOWN"))
           IN  broker' = NoFills(m.book) /\ orders' = m.ords
        /\ risk' = "HALT_NEW_ENTRIES"
        /\ pc' = cont
     \/ /\ fault \notin {"DISCONNECT", "TIMEOUT"}
        /\ LET m == Arrive(AtEngine(o, "ACKNOWLEDGED"))
           IN  broker' = m.book /\ orders' = m.ords
        /\ pc' = GoOn(acked)
        /\ UNCHANGED risk

\* quote_fn raises inside the broker's submit_order, which has taken the order in:
\* it works there untried.  In the engine it stays SUBMITTED, a state that neither
\* sync_open_orders nor resolve_unknown looks at, and the risk state stays.
SubmitBlind(o) ==
  /\ QuotesFail
  /\ fault # "DISCONNECT"
  /\ broker' = NoFills(broker)
  /\ orders' = Append(orders, AtBroker(o, 0, "ACKNOWLEDGED"))
  /\ pc' = Between
  /\ UNCHANGED <<ledger, openStops, price, fault, risk, resets>>

EntrySubmitBlind ==
  /\ pc.at = "approved"
  /\ SubmitBlind(Order(pc.sym, "entry", pc.qty, 0))

EntrySubmit ==
  /\ pc.at = "approved"
  /\ SubmitOrder(Order(pc.sym, "entry", pc.qty, 0), "acked", Entries(pc.left))
  /\ UNCHANGED <<ledger, openStops, price, fault, resets>>

\* submit's poll.  A disconnect here escapes run_session: the order may have
\* filled, nobody books it, and the risk state stays as it was.
EntryPoll ==
  /\ pc.at = "acked"
  /\ LET i == Len(orders)
     IN  IF fault = "DISCONNECT"
           THEN pc' = Between /\ UNCHANGED orders
           ELSE /\ orders' = [orders EXCEPT ![i] = Polled(@)]
                /\ pc' = IF orders[i].at \in {"FILLED", "PARTIALLY_FILLED"}
                           THEN GoOn("filled") ELSE Entries(pc.left)
  /\ UNCHANGED <<broker, ledger, openStops, price, fault, risk, resets>>

\* Fault-injected variant: the stop is for what was ordered, not for what filled.
EntryBookOrderedQty ==
  /\ pc.at = "filled"
  /\ IF fault = "DISCONNECT" \/ ~Bookable(ledger, broker.fills[1])
       THEN pc' = Between /\ UNCHANGED ledger
       ELSE /\ ledger' = Booked(ledger, broker.fills[1])
            /\ pc' = GoOn("booked")
  /\ broker' = NoFills(broker)
  /\ UNCHANGED <<orders, openStops, price, fault, risk, resets>>

\* get_fills and _record_fill for the entry; a disconnect or a refusal of the
\* ledger escapes run_session.
EntryBook ==
  /\ pc.at = "filled"
  /\ LET f == broker.fills[1]
     IN  IF fault = "DISCONNECT" \/ ~Bookable(ledger, f)
           THEN pc' = Between /\ UNCHANGED ledger
           ELSE /\ ledger' = Booked(ledger, f)
                /\ pc' = Place("booked", pc.left, pc.sym, f.qty, pc.stop)
  /\ broker' = NoFills(broker)
  /\ UNCHANGED <<orders, openStops, price, fault, risk, resets>>

\* Fault-injected variant: one stop per symbol, added shares get none.
StopSubmitOncePerSymbol ==
  /\ pc.at = "booked"
  /\ IF pc.sym \in openStops
       THEN pc' = Entries(pc.left) /\ UNCHANGED <<broker, orders, openStops, risk>>
       ELSE /\ SubmitOrder(Order(pc.sym, "stop", pc.qty, pc.stop), "stopAcked", Entries(pc.left))
            /\ UNCHANGED openStops
  /\ UNCHANGED <<ledger, price, fault, resets>>

\* place_protective_stop for the shares just booked.  Its review can only fail
\* under FULL_BROKER_DISCONNECT, which the entry's own review excluded.  When
\* submit returns UNKNOWN the stop is recorded all the same.
StopSubmit ==
  /\ pc.at = "booked"
  /\ SubmitOrder(Order(pc.sym, "stop", pc.qty, pc.stop), "stopAcked", Entries(pc.left))
  /\ openStops' = IF pc'.at = "entries" THEN openStops \cup {pc.sym} ELSE openStops
  /\ UNCHANGED <<ledger, price, fault, resets>>

StopSubmitBlind ==
  /\ pc.at = "booked"
  /\ SubmitBlind(Order(pc.sym, "stop", pc.qty, pc.stop))

\* _exit_risk_view wants the marks of all holdings and the spread: without a quote
\* it raises, and the stop is never sent.
StopReviewBlind ==
  /\ QuotesFail
  /\ pc.at = "booked"
  /\ pc' = Between
  /\ UNCHANGED <<broker, orders, ledger, openStops, price, fault, risk, resets>>

\* The poll that ends the stop's submit.  A stop that filled on arrival is FILLED
\* from here on; its fill is not booked by anyone.
StopPoll ==
  /\ pc.at = "stopAcked"
  /\ IF fault = "DISCONNECT"
       THEN pc' = Between /\ UNCHANGED <<orders, openStops>>
       ELSE /\ orders' = [orders EXCEPT ![Len(orders)] = Polled(@)]
            /\ openStops' = openStops \cup {pc.sym}
            /\ pc' = Entries(pc.left)
  /\ broker' = NoFills(broker)
  /\ UNCHANGED <<ledger, price, fault, risk, resets>>

SessionEnd ==
  /\ pc.at = "entries"
  /\ pc' = Between
  /\ UNCHANGED <<broker, orders, ledger, openStops, price, fault, risk, resets>>

-----------------------------------------------------------------------------
\* PaperBroker.settle, between sessions (T+1).
Settle ==
  /\ pc.at = "idle" /\ broker.unsettled # 0
  /\ broker' = Account(broker.settled + broker.unsettled, 0, broker.pos, broker.fills)
  /\ UNCHANGED <<orders, ledger, openStops, price, fault, risk, pc, resets>>

\* reconcile() finds nothing to report: it compares cash and positions.
Consistent ==
  /\ ledger.cash = broker.settled + broker.unsettled
  /\ ledger.pos = broker.pos

Reconcile ==
  /\ pc.at = "idle"
  /\ risk' = IF fault = "DISCONNECT" THEN "FULL_BROKER_DISCONNECT"
             ELSE IF Consistent THEN risk ELSE "HALT_NEW_ENTRIES"
  /\ UNCHANGED <<broker, orders, ledger, openStops, price, fault, pc, resets>>

\* resolve_unknown; an order that never arrived stays UNKNOWN.
ResolveUnknown(i) ==
  /\ pc.at = "idle"
  /\ orders[i].sm = "UNKNOWN"
  /\ fault # "DISCONNECT" /\ orders[i].at # Absent
  /\ orders' = [orders EXCEPT ![i] = AtEngine(@, @.at)]
  /\ UNCHANGED <<broker, ledger, openStops, price, fault, risk, pc, resets>>

\* A human puts the risk controller back to NORMAL.
OperatorReset ==
  /\ pc.at = "idle" /\ risk # "NORMAL" /\ resets < MaxResets
  /\ risk' = "NORMAL"
  /\ resets' = resets + 1
  /\ UNCHANGED <<broker, orders, ledger, openStops, price, fault, pc>>

PriceMove(s, p) ==
  /\ LivePrices \/ pc.at = "idle"
  /\ p # price[s]
  /\ price' = [price EXCEPT ![s] = p]
  /\ UNCHANGED <<broker, orders, ledger, openStops, fault, risk, pc, resets>>

SetFault(f) ==
  /\ f # fault
  /\ fault' = f
  /\ UNCHANGED <<broker, orders, ledger, openStops, price, risk, pc, resets>>

QuoteMissing ==
  \/ \E n \in 0..MaxOrders : SessionStartBlind(n)
  \/ EntrySubmitBlind \/ StopSubmitBlind \/ StopReviewBlind

SessionStep ==
  \/ SessionStart \/ SessionStartOffline
  \/ \E n \in 0..MaxOrders : SessionStartCut(n)
  \/ \E s \in Sym, q \in Qtys : EntryApproved(s, q)
  \/ EntrySubmit \/ EntryPoll \/ EntryBook \/ StopSubmit \/ StopPoll \/ SessionEnd
  \/ QuoteMissing

Next ==
  \/ SessionStep
  \/ Settle \/ Reconcile \/ OperatorReset
  \/ \E i \in Ids : ResolveUnknown(i)
  \/ \E s \in Sym, p \in Prices : PriceMove(s, p)
  \/ \E f \in Faults : SetFault(f)

Spec == Init /\ [][Next]_vars

-----------------------------------------------------------------------------
\* The quantity of stops on s that the broker works, counted share by share.
Covers(o, s) == IF o.kind = "stop" /\ o.sym = s /\ Working(o) THEN Left(o) ELSE 0
CoveredShares(os, s) == UNION {{i} \X (1..Covers(os[i], s)) : i \in DOMAIN os}
Stopped(s) == Cardinality(CoveredShares(orders, s))

\* Adding to a position places a further stop beside the first.  Together the
\* working stops never cover more shares than the account holds, so that no
\* stop is rejected for want of shares, nor more than the ledger holds, so that
\* record_fill never refuses a stop's sale: whatever faults, partial fills,
\* timeouts, missing quotes and lost fills there have been.
StopsNeverOversell ==
  \A s \in Sym : Stopped(s) <= broker.pos[s] /\ Stopped(s) <= ledger.pos[s]

\* Section 48: as long as the broker answers (it may fill partially) and quotes are
\* there and do not move inside a session, between sessions the ledger has booked every
\* fill exactly once: its cash and positions are the broker's.
BooksAgree == pc.at = "idle" => Consistent

\* As long as the broker answers, the ledger never refuses a fill the broker
\* made (a refusal would escape run_session in the middle of booking): it can
\* sell what stops sell and pay for what the broker lets late remainders buy,
\* though the broker checks settled cash and the ledger all cash.
FillsAreBookable ==
  pc.at = "idle" /\ (\A i \in Ids : Working(orders[i]) => Halvable(orders[i]))
    => ManageFills(PollResting.book.fills).ok

\* The ledger follows the broker: it has booked every fill once, and can book those
\* that resting orders may still bring.
LedgerFollowsBroker == BooksAgree /\ FillsAreBookable

\* INV-15 (protective stops): between sessions every share held is covered by a
\* stop working at the broker.
EveryShareStopped == pc.at = "idle" => \A s \in Sym : Stopped(s) = broker.pos[s]

\* open_stops holds one entry per symbol however many stops work on it: between
\* sessions it has every symbol with a working stop, so the first of several
\* stop-outs does not drop the risk of those still working, and no symbol that
\* is not held.  (A remainder that fills after the stop-out of its first part is
\* held without an entry here, as it is without a stop.)
OpenStopsMatchHoldings ==
  pc.at = "idle" =>
    /\ {s \in Sym : Stopped(s) > 0} \subseteq openStops
    /\ openStops \subseteq {s \in Sym : ledger.pos[s] > 0}

\* After a timeout or a disconnect during a submit no further entry is sent
\* until a human resets the controller: at most one entry per reset is in doubt.  (A
\* missing quote during a submit halts nothing and leaves the order SUBMITTED: it is
\* not UNKNOWN, and not counted.)
UnknownEntriesBounded ==
  Cardinality({i \in Ids : orders[i].kind = "entry" /\ orders[i].sm = "UNKNOWN"}) <= 1 + resets

\* A stop whose price is reached is executed and booked, unless the quote
\* recovers first.
StopOutIsBooked ==
  \A i \in 1..MaxOrders :
    (i \in Ids /\ orders[i].kind = "stop" /\ Working(orders[i])
        /\ price[orders[i].sym] <= orders[i].stop)
      ~> (i \in Ids /\ (\/ orders[i].at = "FILLED" /\ Consistent
                        \/ price[orders[i].sym] > orders[i].stop))

=============================================================================
