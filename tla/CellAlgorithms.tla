--------------------------- MODULE CellAlgorithms ---------------------------
(***************************************************************************)
(* The two deterministic algorithms of the capital cells: the greedy cross *)
(* matching of services/capital_cells/netting.py and the pro-rata fill     *)
(* allocation of services/capital_cells/fill_allocation.py.                *)
(*                                                                         *)
(* An intent is [cell, side, qty]; a batch is a sequence of intents of one *)
(* symbol in intent_id order (ids are unique, or the batch is refused, so  *)
(* the order is total and the position in the sequence stands for the id). *)
(* A list of quantities has an entry for every intent of the batch; one    *)
(* that is not on the list (it is on the other side, or done) has a 0.     *)
(* A quantity counts units of 10^-6 share, the grain allocations are       *)
(* rounded to; differences below the 1e-9 tolerances do not exist here.    *)
(***************************************************************************)
EXTENDS Arithmetic, Sequences

Total(list) == SumTo(list, Len(list))

Demand(batch, side) == [k \in DOMAIN batch |-> IF batch[k].side = side THEN batch[k].qty ELSE 0]

\* _net_symbol's loop: two pointers, each step crosses what both heads can.
MatchStart(buys, sells) ==
  [bi |-> 1, si |-> 1, buys |-> buys, sells |-> sells, crosses |-> <<>>]

MatchStep(m) ==
  LET q     == IF m.buys[m.bi] <= m.sells[m.si] THEN m.buys[m.bi] ELSE m.sells[m.si]
      buys  == [m.buys EXCEPT ![m.bi] = @ - q]
      sells == [m.sells EXCEPT ![m.si] = @ - q]
  IN  [bi      |-> IF buys[m.bi] = 0 THEN m.bi + 1 ELSE m.bi,
       si      |-> IF sells[m.si] = 0 THEN m.si + 1 ELSE m.si,
       buys    |-> buys,
       sells   |-> sells,
       crosses |-> IF q > 0 THEN Append(m.crosses, [buyer |-> m.bi, seller |-> m.si, qty |-> q])
                   ELSE m.crosses]

\* Fault-injected variant: the last buy is never reached.
RunningShort(m) == m.bi < Len(m.buys) /\ m.si <= Len(m.sells)

Running(m) == m.bi <= Len(m.buys) /\ m.si <= Len(m.sells)

\* Every round moves a pointer on, so this many rounds reach the end.
Matching(buys, sells) ==
  LET m[r \in 0..(Len(buys) + Len(sells))] ==
        IF r = 0 THEN MatchStart(buys, sells)
        ELSE IF Running(m[r - 1]) THEN MatchStep(m[r - 1]) ELSE m[r - 1]
  IN  m
Match(buys, sells) == Matching(buys, sells)[Len(buys) + Len(sells)]

\* SymbolNetResult; a cross names its intents, owed is what the order owes each.
NetSymbol(batch) ==
  LET buys  == Demand(batch, "BUY")
      sells == Demand(batch, "SELL")
      m     == Match(buys, sells)
      net   == Total(buys) - Total(sells)
  IN  [crosses |-> m.crosses,
       side    |-> IF net > 0 THEN "BUY" ELSE IF net < 0 THEN "SELL" ELSE "NONE",
       qty     |-> IF net < 0 THEN -net ELSE net,
       owed    |-> IF net > 0 THEN m.buys ELSE m.sells]

-----------------------------------------------------------------------------
\* Fault-injected variant: shares are cut off instead of rounded.
TruncDiv(a, b) == a \div b

\* Python's round: to the nearest, halves to the even neighbour.
RoundDiv(a, b) ==
  LET q == a \div b
      r == a % b
  IN  IF 2 * r > b \/ (2 * r = b /\ q % 2 = 1) THEN q + 1 ELSE q

Rounded(owed, fill) == [k \in DOMAIN owed |-> RoundDiv(owed[k] * fill, Total(owed))]

\* Fault-injected variant: the last share is rounded like the others.
SharesAllRounded(owed, fill) == Rounded(owed, fill)

\* FillAllocationEngine.allocate: every intent but the last gets its rounded
\* share, the last what is left; shares that are not positive are dropped.
Shares(owed, fill) ==
  LET last == Max({k \in DOMAIN owed : owed[k] > 0})
  IN  [Rounded(owed, fill) EXCEPT ![last] = fill - SumTo(Rounded(owed, fill), last - 1)]

\* It refuses (ValueError) a fill larger than the demand.
AllocateAccepts(owed, fill) == fill <= Total(owed)

Allocate(owed, fill) ==
  IF Total(owed) <= 0 \/ fill <= 0 THEN [k \in DOMAIN owed |-> 0]
  ELSE LET share == Shares(owed, fill)
       IN  [k \in DOMAIN owed |-> IF share[k] > 0 THEN share[k] ELSE 0]

=============================================================================
