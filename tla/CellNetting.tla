----------------------------- MODULE CellNetting -----------------------------
(***************************************************************************)
(* The life of a netted batch of cell orders: capital is reserved          *)
(* (services/capital_cells/reservation.py), the batch is netted and its    *)
(* crosses applied (netting.py, ledger.py), the residual is worked by the  *)
(* broker, and every fill is booked on the master ledger, allocated to the *)
(* cells (fill_allocation.py) and reconciled (reconciliation.py).          *)
(*                                                                         *)
(* The repository has these parts as a library; the order in which a       *)
(* caller uses them is the one their documentation describes.  One symbol; *)
(* fees are zero.  Orders of several batches may be in flight at once, and *)
(* nothing makes a cell's cash cover what it buys: the cells may refuse    *)
(* their shares of a fill that the master has booked.                      *)
(***************************************************************************)
EXTENDS CellAlgorithms, FiniteSets

CONSTANTS
  NCells,
  TransferPrices, FillPrices,
  InitCash,      \* each cell's first budget
  InitPos,       \* each cell's first position
  Unallocated,   \* master cash not handed to a cell at first
  Budgets,       \* amounts allocate_cash is called with
  MaxIntents,    \* bound on the intents of a batch
  MaxUnits,      \* bound on an intent's quantity
  MaxInFlight,   \* broker orders the caller has in flight when it nets again
  MaxOrders      \* bound on batches ever netted

ASSUME NettingAssumption ==
  /\ NCells \in Nat
  /\ TransferPrices \subseteq Nat \ {0} /\ FillPrices \subseteq Nat \ {0}
  /\ InitCash \in Nat /\ InitPos \in Nat /\ Unallocated \in Nat
  /\ Budgets \subseteq Int
  /\ MaxIntents \in Nat /\ MaxUnits \in Nat /\ MaxInFlight \in Nat /\ MaxOrders \in Nat

VARIABLES
  cash, pos,      \* the cells' virtual ledgers
  mcash, mpos,    \* the master ledger
  unallocated,    \* CellReconciliationEngine.unallocated_master_cash
  orders,         \* broker orders in flight: [id, side, cells, owed]
  reserved,       \* CapitalReservationLedger: cash reserved per order
  count,          \* batches netted so far
  halted,         \* reconcile set HALT_NEW_ENTRIES
  refused,        \* history: what fills the cells refused have moved on the master
  rivals          \* history: ids of the sales that claimed more than a cell held

cellvars   == <<cash, pos>>
mastervars == <<mcash, mpos>>
history    == <<refused, rivals>>
netvars    == <<cellvars, mastervars, unallocated, orders, reserved, count, halted, history>>

Cell   == 1..NCells
Intent == [cell: Cell, side: {"BUY", "SELL"}, qty: 1..MaxUnits]
Batch  == UNION {[1..n -> Intent] : n \in 1..MaxIntents}

\* What an order owes the intents it was netted from: cells and owed go by intent.
OrderOk(o) ==
  /\ o.id \in 1..count /\ o.side \in {"BUY", "SELL"}
  /\ \E n \in 1..MaxIntents : o.cells \in [1..n -> Cell] /\ o.owed \in [1..n -> 0..MaxUnits]
  /\ Total(o.owed) > 0

\* Ledgers, reservations and plans in flight have their types: no cell and not the
\* master is ever short of cash or shares, and an order in flight owes somebody something.
NettingTyped ==
  /\ cash \in [Cell -> Nat] /\ pos \in [Cell -> Nat]
  /\ mcash \in Nat /\ mpos \in Nat /\ unallocated \in Nat
  /\ \A o \in orders : OrderOk(o)
  /\ reserved \in [1..MaxOrders -> Nat]
  /\ count \in 0..MaxOrders
  /\ halted \in BOOLEAN
  /\ refused \in [fills : Nat, qty : Int, cash : Int] /\ rivals \subseteq 1..count

NettingInit ==
  /\ cash = [c \in Cell |-> InitCash] /\ pos = [c \in Cell |-> InitPos]
  /\ mcash = SumTo(cash, NCells) + Unallocated /\ mpos = SumTo(pos, NCells)
  /\ unallocated = Unallocated
  /\ orders = {} /\ reserved = [n \in 1..MaxOrders |-> 0] /\ count = 0
  /\ halted = FALSE
  /\ refused = [fills |-> 0, qty |-> 0, cash |-> 0] /\ rivals = {}

-----------------------------------------------------------------------------
\* A list of quantities, each of a cell, added up for every cell.
PerCell(cellOf, list) ==
  [c \in Cell |-> Total([k \in DOMAIN list |-> IF cellOf[k] = c THEN list[k] ELSE 0])]

CellsOf(batch) == [k \in DOMAIN batch |-> batch[k].cell]

\* Fault-injected variant: every SELL is checked on its own.
BatchValidEach(batch) ==
  \A k \in DOMAIN batch : Demand(batch, "SELL")[k] <= pos[batch[k].cell]

\* _validate_batch: a cell's total SELL demand is within its position.
BatchValid(batch) ==
  \A c \in Cell : PerCell(CellsOf(batch), Demand(batch, "SELL"))[c] <= pos[c]

\* Ledger legs at one price, added up for every cell, as apply_* posts them after
\* checking every one of them: sells first, then buys.
LegsOk(legs, p) ==
  \A c \in Cell :
    /\ legs.sold[c] <= pos[c]                              \* CellShortSellError
    /\ cash[c] + p * (legs.sold[c] - legs.bought[c]) >= 0  \* CellOverdrawError

PostLegs(legs, p) ==
  /\ pos' = [c \in Cell |-> pos[c] + legs.bought[c] - legs.sold[c]]
  /\ cash' = [c \in Cell |-> cash[c] + p * (legs.sold[c] - legs.bought[c])]

Crossed(crosses) == [x \in DOMAIN crosses |-> crosses[x].qty]

\* Fault-injected variant: the seller's leg is not posted.
CrossBuyLegs(batch, crosses) ==
  [bought |-> PerCell([x \in DOMAIN crosses |-> batch[crosses[x].buyer].cell], Crossed(crosses)),
   sold   |-> [c \in Cell |-> 0]]

\* An internal cross is a sale by one cell and a purchase by another.
CrossLegs(batch, crosses) ==
  [bought |-> PerCell([x \in DOMAIN crosses |-> batch[crosses[x].buyer].cell], Crossed(crosses)),
   sold   |-> PerCell([x \in DOMAIN crosses |-> batch[crosses[x].seller].cell], Crossed(crosses))]

\* The legs of a fill, all on the side of the order.
FillLegs(o, list) ==
  LET none == [c \in Cell |-> 0]
  IN  [bought |-> IF o.side = "BUY" THEN PerCell(o.cells, list) ELSE none,
       sold   |-> IF o.side = "BUY" THEN none ELSE PerCell(o.cells, list)]

\* What an open order still owes a cell.
OwedTo(o, c) == PerCell(o.cells, o.owed)[c]

\* What the open sales still owe a cell altogether, share by share.
ClaimedShares(os, c) ==
  {h \in os \X (1..(MaxIntents * MaxUnits)) : h[1].side = "SELL" /\ h[2] <= OwedTo(h[1], c)}
Claimed(c) == Cardinality(ClaimedShares(orders, c))

\* Cells that open sales and this batch together would have sell more than they hold:
\* net knows of no earlier batch.
Oversold(batch) ==
  {c \in Cell : /\ Claimed(c) > 0
                /\ Claimed(c) + PerCell(CellsOf(batch), Demand(batch, "SELL"))[c] > pos[c]}

\* The open sales that owe one of those cells.
Rivals(os, cells) == {o.id : o \in {s \in os : s.side = "SELL" /\ \E c \in cells : OwedTo(s, c) > 0}}

\* CapitalReservationLedger.available_cash, synced to the master's cash
AvailableCash == mcash - SumTo(reserved, MaxOrders)

\* reserve, net, apply_crosses_to_cells, and the residual goes to the broker.
\* A refusal anywhere leaves everything as it was.
NetBatch(batch, p) ==
  LET r    == NetSymbol(batch)
      legs == CrossLegs(batch, r.crosses)
      new  == count + 1
  IN  /\ count < MaxOrders /\ Cardinality(orders) < MaxInFlight
      /\ p * Total(Demand(batch, "BUY")) <= AvailableCash  \* InsufficientCapitalError
      /\ BatchValid(batch)
      /\ LegsOk(legs, p)
      /\ PostLegs(legs, p)
      /\ count' = new
      /\ IF r.side = "NONE"
           THEN UNCHANGED <<orders, reserved>>
           ELSE /\ orders' = orders \cup
                     {[id |-> new, side |-> r.side, cells |-> CellsOf(batch), owed |-> r.owed]}
                /\ reserved' = [reserved EXCEPT ![new] = IF r.side = "BUY" THEN p * r.qty ELSE 0]
      /\ rivals' = rivals \cup Rivals(orders', Oversold(batch))
      /\ UNCHANGED <<mastervars, unallocated, halted, refused>>

\* What an order still owes its intents once an allocation has been made.
StillOwed(owed, list) == [k \in DOMAIN owed |-> owed[k] - list[k]]

\* A fill of q units at price p: booked on the master (whose own ledger refuses a
\* short position or an overdraft), then allocated to the cells, all or nothing.
\* The reservation is released as a whole when the order is done.  What the cells
\* refuse stays booked on the master.
BrokerFill(o, q, p) ==
  LET list == Allocate(o.owed, q)
      legs == FillLegs(o, list)
      left == StillOwed(o.owed, list)
      sign == IF o.side = "BUY" THEN 1 ELSE -1
  IN  /\ AllocateAccepts(o.owed, q)
      /\ mpos + sign * q >= 0 /\ mcash - sign * p * q >= 0
      /\ mpos' = mpos + sign * q
      /\ mcash' = mcash - sign * p * q
      /\ IF LegsOk(legs, p)
           THEN PostLegs(legs, p) /\ UNCHANGED refused
           ELSE /\ refused' = [fills |-> refused.fills + 1, qty |-> refused.qty + sign * q,
                               cash |-> refused.cash - sign * p * q]
                /\ UNCHANGED cellvars
      /\ IF Total(left) = 0
           THEN orders' = orders \ {o} /\ reserved' = [reserved EXCEPT ![o.id] = 0]
           ELSE /\ orders' = (orders \ {o}) \cup
                     {[id |-> o.id, side |-> o.side, cells |-> o.cells, owed |-> left]}
                /\ UNCHANGED reserved
      /\ UNCHANGED <<unallocated, count, halted, rivals>>

\* The broker order is cancelled and its reservation released.
CancelOrder(o) ==
  /\ orders' = orders \ {o}
  /\ reserved' = [reserved EXCEPT ![o.id] = 0]
  /\ UNCHANGED <<cellvars, mastervars, unallocated, count, halted, history>>

\* allocate_cash: master hands a cell budget, or claws some back.
AllocateCash(c, amount) ==
  /\ cash[c] + amount >= 0                       \* CellOverdrawError
  /\ unallocated - amount >= 0
  /\ cash' = [cash EXCEPT ![c] = @ + amount]
  /\ unallocated' = unallocated - amount
  /\ UNCHANGED <<pos, mastervars, orders, reserved, count, halted, history>>

\* CellReconciliationEngine.reconcile
Consistent ==
  /\ SumTo(cash, NCells) + unallocated = mcash
  /\ SumTo(pos, NCells) = mpos

Reconcile ==
  /\ halted' = (halted \/ ~Consistent)
  /\ UNCHANGED <<cellvars, mastervars, unallocated, orders, reserved, count, history>>

NettingNext ==
  \/ \E b \in Batch, p \in TransferPrices : NetBatch(b, p)
  \/ \E o \in orders, q \in 1..(MaxIntents * MaxUnits), p \in FillPrices : BrokerFill(o, q, p)
  \/ \E o \in orders : CancelOrder(o)
  \/ \E c \in Cell, a \in Budgets : AllocateCash(c, a)
  \/ Reconcile

NettingSpec == NettingInit /\ [][NettingNext]_netvars

-----------------------------------------------------------------------------
\* Section 4: through crosses, partial fills, cancels, rebalances and claw-backs, with
\* several orders in flight, the cells and the master ledger differ by exactly the
\* fills that the cells refused after the master had booked them; without one,
\* reconcile never halts.
SumsAgree ==
  /\ SumTo(pos, NCells) + refused.qty = mpos
  /\ SumTo(cash, NCells) + unallocated + refused.cash = mcash
  /\ halted => refused.fills > 0

\* netting.py: a plan that would make a cell short is never drawn up, so the cells
\* accept whatever part of an open sale is filled next, at any price, whatever has
\* been crossed, filled or clawed back meanwhile.  The exception is the code's: net
\* does not know what earlier batches still have to sell, and two of them can claim
\* the same shares.
SalesStayFillable ==
  \A o \in orders, q \in 1..(MaxIntents * MaxUnits), p \in FillPrices :
    o.side = "SELL" /\ o.id \notin rivals /\ AllocateAccepts(o.owed, q) =>
      LegsOk(FillLegs(o, Allocate(o.owed, q)), p)

\* ledger.py:71-74: that a cell has no cash for a purchase "should be caught earlier
\* by the Capital Reservation Ledger", so that the cells can pay for any fill the
\* reserved money covers.  It does not hold: reserve compares with the cash of the
\* whole account, not with the cell's.
ReservedIsFunded ==
  \A o \in orders, q \in 1..(MaxIntents * MaxUnits), p \in FillPrices :
    o.side = "BUY" /\ p * Total(o.owed) <= reserved[o.id] /\ AllocateAccepts(o.owed, q) =>
      LegsOk(FillLegs(o, Allocate(o.owed, q)), p)

=============================================================================
