-------------------------------- MODULE Books --------------------------------
(***************************************************************************)
(* Keeping the books: cost basis, realized P&L and fees of the ledger      *)
(* (packages/common/ledger.py) under fills and corporate actions           *)
(* (services/market_data/corporate_actions.py), the two P&Ls of            *)
(* services/cost_manager/engine.py, T+1 settlement                         *)
(* (packages/common/settlement.py) and the point-in-time store             *)
(* (packages/common/pit_store.py).                                         *)
(*                                                                         *)
(* Money and quantities are exact fractions <<n, d>>; the code has floats  *)
(* and tolerances of 1e-9.  The three stores share no state: each has its  *)
(* own next-state relation.                                                *)
(***************************************************************************)
EXTENDS Arithmetic, Sequences

CONSTANTS
  NSymbols, Initial, \* symbols, which are numbered; initial_cash
  Quotes,           \* prices of fills and deals
  Fee,              \* fees of a fill
  Ratios,           \* split ratios, as fractions
  MaxBook,          \* bound: entries in the books
  MaxDay,           \* bound: days of settlement and of the point-in-time store
  MaxPut            \* bound: records put, and sales of a day

ASSUME BooksAssumption ==
  /\ NSymbols \in Nat /\ Initial \in Nat \ {0} /\ Quotes \subseteq Nat \ {0} /\ Fee \in Nat
  /\ Ratios \subseteq (Nat \ {0}) \X (Nat \ {0}) /\ MaxDay \in Nat \ {0}

Symbols == 1..NSymbols

VARIABLES
  cash, pos,     \* Ledger._cash, Ledger._positions: held symbols -> [qty, avg]
  realized,      \* Ledger._realized_pnl
  paid,          \* Ledger._fees_paid
  charged,       \* OperatingCostEngine.entries: sums by category
  divs, lost,    \* not in the code: dividends received, cost of lots overwritten
  booked,        \* number of entries, for the bound
  day,           \* the clock of the two stores below
  settled, pending, \* SettlementManager; the pending amounts, by the day they settle
  sold, spent,   \* not in the code: proceeds by day, all purchases
  records        \* PointInTimeStore: [event, received, value], in the order kept

ledger == <<cash, pos, realized, paid, charged, divs, lost, booked>>
settlement == <<settled, pending, sold, spent>>
bvars == <<ledger, settlement, day, records>>

Without(f, s) == [x \in DOMAIN f \ {s} |-> f[x]]
Put(f, s, v)  == [x \in DOMAIN f \cup {s} |-> IF x = s THEN v ELSE f[x]]
NoLot   == [qty |-> Whole(0), avg |-> Whole(0)]
Lot(s)  == IF s \in DOMAIN pos THEN pos[s] ELSE NoLot
Held(s) == Lot(s).qty

-----------------------------------------------------------------------------
\* Fault-injected variant: the cost basis of a sale is the price of the sale.
RecordFillAtPrice(s, qty, price, fee) ==
  LET left == Add(Held(s), qty)
      lot  == Lot(s)
      to   == Add(Add(cash, Neg(Mul(qty, price))), Neg(fee))
  IN  /\ NotBelow(left, Whole(0)) /\ NotBelow(to, Whole(0))
      /\ cash' = to
      /\ pos' = IF left[1] = 0 THEN Without(pos, s)
                ELSE Put(pos, s, [qty |-> left, avg |-> price])
      /\ realized' = IF qty[1] > 0 THEN realized
                     ELSE Add(realized, Mul(Neg(qty), Add(price, Neg(lot.avg))))
      /\ paid' = Add(paid, fee)

\* record_fill: qty is negative for a sale; it raises, and nothing changes, when
\* more is sold than held or cash does not cover the cost and the fee.
RecordFill(s, qty, price, fee) ==
  LET left == Add(Held(s), qty)
      lot  == Lot(s)
      to   == Add(Add(cash, Neg(Mul(qty, price))), Neg(fee))
      avg  == IF qty[1] > 0
              THEN Div(Add(Mul(lot.qty, lot.avg), Mul(qty, price)), left) ELSE lot.avg
  IN  /\ NotBelow(left, Whole(0)) /\ NotBelow(to, Whole(0))
      /\ cash' = to
      /\ pos' = IF left[1] = 0 THEN Without(pos, s)
                ELSE Put(pos, s, [qty |-> left, avg |-> avg])
      /\ realized' = IF qty[1] > 0 THEN realized
                     ELSE Add(realized, Mul(Neg(qty), Add(price, Neg(lot.avg))))
      /\ paid' = Add(paid, fee)

\* TradingPipeline._record_fill, which also shows the fee to the cost engine.
Fill(s, qty, price) ==
  /\ RecordFill(s, qty, Whole(price), Whole(Fee))
  /\ charged' = [fees |-> charged.fees + Fee, other |-> charged.other]
  /\ UNCHANGED <<divs, lost>>

Book == booked < MaxBook /\ booked' = booked + 1 /\ UNCHANGED <<settlement, day, records>>

Trade ==
  /\ Book
  /\ \E s \in Symbols, price \in Quotes :
       \/ \E n \in 1..2 : Fill(s, Whole(n), price)
       \/ s \in DOMAIN pos /\ \E part \in {1, 2} : Fill(s, Neg(Div(Held(s), Whole(part))), price)

\* OperatingCostEngine.record of anything but a fee
RecordCost ==
  /\ Book /\ charged' = [fees |-> charged.fees, other |-> charged.other + 1]
  /\ UNCHANGED <<cash, pos, realized, paid, divs, lost>>

\* CorporateActionEngine.apply.  Only what is held is affected; none of them tells
\* the broker or touches an order.
Split(s, ratio) ==
  /\ Book /\ s \in DOMAIN pos
  /\ pos' = Put(pos, s, [qty |-> Mul(pos[s].qty, ratio), avg |-> Div(pos[s].avg, ratio)])
  /\ UNCHANGED <<cash, realized, paid, charged, divs, lost>>

Dividend(s) ==
  /\ Book /\ s \in DOMAIN pos
  /\ cash' = Add(cash, Held(s)) /\ divs' = Add(divs, Held(s))
  /\ UNCHANGED <<pos, realized, paid, charged, lost>>

CashOut(s, price) ==
  /\ Book /\ s \in DOMAIN pos
  /\ RecordFill(s, Neg(Held(s)), Whole(price), Whole(0))
  /\ UNCHANGED <<charged, divs, lost>>

\* A lot already held under the new symbol is overwritten.
SymbolChange(s, new) ==
  /\ Book /\ s \in DOMAIN pos /\ new # s
  /\ pos' = Put(Without(pos, s), new, pos[s])
  /\ lost' = IF new \in DOMAIN pos THEN Add(lost, Mul(pos[new].qty, pos[new].avg)) ELSE lost
  /\ UNCHANGED <<cash, realized, paid, charged, divs>>

\* Fault-injected variant: fees are subtracted from the trading result once more.
TotalWithFees(c) == c.other + c.fees

\* total() and two_pnl: fees are in the ledger's result already.
OperatingCosts(c) == c.other
ProjectNet(equity, c) == Add(Add(equity, Neg(Whole(Initial))), Neg(Whole(OperatingCosts(c))))

BooksNext ==
  \/ Trade \/ RecordCost
  \/ \E s \in Symbols, r \in Ratios : Split(s, r)
  \/ \E s \in Symbols : Dividend(s)
  \/ \E s \in Symbols, p \in Quotes : CashOut(s, p)
  \/ \E s, new \in Symbols : SymbolChange(s, new)

-----------------------------------------------------------------------------
NextDay == day < MaxDay /\ day' = day + 1

\* on_buy raises for more than is settled.
OnBuy(cost) ==
  /\ cost <= settled
  /\ settled' = settled - cost /\ spent' = spent + cost
  /\ UNCHANGED <<ledger, pending, sold, day, records>>

OnSell(proceeds) ==
  /\ sold[day] < MaxPut
  /\ pending' = [pending EXCEPT ![day + 1] = @ + proceeds]
  /\ sold' = [sold EXCEPT ![day] = @ + proceeds]
  /\ UNCHANGED <<ledger, settled, spent, day, records>>

\* Fault-injected variant: everything pending settles.
DueAll(d) == TRUE

Due(d) == d <= day
Amounts(ds) == [d \in DOMAIN pending |-> IF d \in ds THEN pending[d] ELSE 0]

\* process_settlements, as late and as often as the caller likes
ProcessSettlements ==
  LET due == {d \in DOMAIN pending : Due(d)}
  IN  /\ settled' = settled + SumTo(Amounts(due), MaxDay + 1)
      /\ pending' = Amounts(DOMAIN pending \ due)
      /\ UNCHANGED <<ledger, sold, spent, day, records>>

SettlementNext ==
  \/ \E n \in 1..2 : OnBuy(n) \/ OnSell(n)
  \/ ProcessSettlements
  \/ NextDay /\ UNCHANGED <<ledger, settlement, records>>

-----------------------------------------------------------------------------
\* put: the sort by received time is stable, so a record goes behind all that were
\* received no later.
PutRecord(event, received, v) ==
  LET rec == [event |-> event, received |-> received, value |-> v]
      at  == 1 + Max({0} \cup {k \in DOMAIN records : records[k].received <= received})
  IN  /\ Len(records) < MaxPut
      /\ records' = [k \in 1..Len(records) + 1 |->
                       IF k < at THEN records[k] ELSE IF k = at THEN rec ELSE records[k - 1]]
      /\ UNCHANGED <<ledger, settlement, day>>

\* Fault-injected variant: the last record about a day up to asOf.
GetAsOfByEvent(rs, asOf) ==
  LET known == {k \in DOMAIN rs : \A j \in 1..k : rs[j].event <= asOf}
  IN  IF known = {} THEN <<>> ELSE <<rs[Max(known)]>>

\* get_as_of: the last one before the first that was received later, if any.
GetAsOf(rs, asOf) ==
  LET known == {k \in DOMAIN rs : \A j \in 1..k : rs[j].received <= asOf}
  IN  IF known = {} THEN <<>> ELSE <<rs[Max(known)]>>

\* The store's contract: a record is put when it is received, about a day up to then.
PitNext ==
  \/ \E event \in 0..day, v \in 0..1 : PutRecord(event, day, v)
  \/ NextDay /\ UNCHANGED <<ledger, settlement, records>>

-----------------------------------------------------------------------------
BInit ==
  /\ cash = Whole(Initial) /\ pos = [s \in {} |-> 0]
  /\ realized = Whole(0) /\ paid = Whole(0) /\ charged = [fees |-> 0, other |-> 0]
  /\ divs = Whole(0) /\ lost = Whole(0) /\ booked = 0 /\ day = 1
  /\ settled = Initial /\ spent = 0
  /\ pending = [d \in 1..MaxDay + 1 |-> 0] /\ sold = [d \in 1..MaxDay |-> 0]
  /\ records = <<>>

BooksSpec == BInit /\ [][BooksNext \/ SettlementNext \/ PitNext]_bvars

-----------------------------------------------------------------------------
\* What the lots held come to: at their cost, at a mark, and the difference.
Costs       == [s \in Symbols |-> Mul(Lot(s).qty, Lot(s).avg)]
Values(mark) == [s \in Symbols |-> Mul(Lot(s).qty, mark)]
Gains(mark) == [s \in Symbols |-> Mul(Lot(s).qty, Add(mark, Neg(Lot(s).avg)))]

\* The accounting identity (Section 49): through partial sales, splits, dividends, cash-outs
\* and renamings in any order, cash and the cost of what is held are the deposit, the
\* realized result and the dividends less the fees; cash stays above zero (INV-2).
\* What a renaming onto a held symbol overwrites is missing from it.
BooksBalance ==
  /\ Same(Add(Add(cash, AddTo(Costs, NSymbols)), lost),
          Add(Add(Add(Whole(Initial), realized), divs), Neg(paid)))
  /\ NotBelow(cash, Whole(0))

\* Section 81: the project's net result is the result of every position, open and closed, and
\* the dividends, less every fee and every cost, each counted exactly once, at whatever
\* marks; and the fees shown are the fees paid.
NetCountsOnce ==
  \A mark \in Quotes :
    LET value  == AddTo(Values(Whole(mark)), NSymbols)
        open   == AddTo(Gains(Whole(mark)), NSymbols)
        result == Add(Add(open, realized), Add(divs, Neg(lost)))
    IN  /\ Same(ProjectNet(Add(cash, value), charged),
                Add(result, Neg(Add(paid, Whole(charged.other)))))
        /\ Same(paid, Whole(charged.fees))

\* Section 14: settled and unsettled cash are the deposit and all sales less all purchases,
\* whenever settlements are processed, and no sale of the last day is spendable.
SettledIsOldMoney ==
  /\ settled + SumTo(pending, MaxDay + 1) = Initial + SumTo(sold, MaxDay) - spent
  /\ settled \in 0..(Initial + SumTo(sold, day - 1) - spent)

\* Keeping books makes no money and loses none, in the ledger, in the project's result
\* and in settlement, but for one loss the code has and BooksBalance accounts for: the
\* cost of the lot that a renaming overwrites.
MoneyAddsUp == BooksBalance /\ NetCountsOnce /\ SettledIsOldMoney

\* Section 10: what was known at a past moment never changes by what arrives later, whatever
\* day it is about, and it had arrived by that moment.
PastIsFixed ==
  [][\A t \in 0..(day - 1) : GetAsOf(records', t) = GetAsOf(records, t)]_bvars

=============================================================================
