-------------------------- MODULE MCCellAlgorithms --------------------------
(***************************************************************************)
(* Checks the algorithms on every input up to a bound: each initial state  *)
(* is one input.                                                           *)
(***************************************************************************)
EXTENDS CellAlgorithms

CONSTANTS
  MatchIntents, MatchUnits,  \* bounds on a batch to be netted
  FillIntents, FillUnits     \* bounds on a residual to be filled

ASSUME MathAssumption ==
  MatchIntents \in Nat /\ MatchUnits \in Nat /\ FillIntents \in Nat /\ FillUnits \in Nat

Batches(maxIntents, sides, maxUnits) ==
  UNION {[1..n -> [side: sides, qty: 1..maxUnits]] : n \in 1..maxIntents}

VARIABLES batch, fill
mathvars == <<batch, fill>>

\* A batch to be netted (nothing is filled yet), or the residual of an order and
\* a fill of it.
MathInit ==
  \/ /\ batch \in Batches(MatchIntents, {"BUY", "SELL"}, MatchUnits)
     /\ fill = 0
  \/ /\ batch \in Batches(FillIntents, {"BUY"}, FillUnits)
     /\ fill \in 1..Total(Demand(batch, "BUY"))

MathNext == UNCHANGED mathvars

MathSpec == MathInit /\ [][MathNext]_mathvars

-----------------------------------------------------------------------------
\* The reference: lay the buys end to end on one line and the sells on another;
\* a buy and a sell cross exactly where their stretches overlap.
OverlapStart(buys, sells, i, j) == Max({SumTo(buys, i - 1), SumTo(sells, j - 1)})
OverlapEnd(buys, sells, i, j)   == Min({SumTo(buys, i), SumTo(sells, j)})

Before(x, y) == x.buyer < y.buyer \/ (x.buyer = y.buyer /\ x.seller < y.seller)

\* The two-pointer match crosses exactly the overlaps, each once and in order.
MatchIsOverlap ==
  LET buys    == Demand(batch, "BUY")
      sells   == Demand(batch, "SELL")
      crosses == Match(buys, sells).crosses
      Width(i, j) == OverlapEnd(buys, sells, i, j) - OverlapStart(buys, sells, i, j)
  IN  /\ \A x \in DOMAIN crosses :
           /\ crosses[x].buyer \in DOMAIN batch /\ crosses[x].seller \in DOMAIN batch
           /\ crosses[x].qty > 0 /\ crosses[x].qty = Width(crosses[x].buyer, crosses[x].seller)
      /\ \A i, j \in DOMAIN batch : Width(i, j) > 0 =>
           \E x \in DOMAIN crosses : crosses[x].buyer = i /\ crosses[x].seller = j
      /\ \A x, y \in DOMAIN crosses : x < y => Before(crosses[x], crosses[y])

\* SymbolNetResult.__post_init__ never raises: what the order owes the intents adds up to
\* the net broker order, and it owes only intents of its own side, whatever the batch.
ResidualIsNet ==
  LET r == NetSymbol(batch)
  IN  /\ Total(r.owed) = r.qty
      /\ \A k \in DOMAIN batch : r.owed[k] > 0 => batch[k].side = r.side

\* allocate's contract: the allocated shares add up to the fill exactly, none
\* lost and none invented.
AllocationIsExact == fill > 0 => Total(Allocate(Demand(batch, "BUY"), fill)) = fill

\* No intent is allocated more than it asked for.
AllocationWithinDemand ==
  fill > 0 => \A k \in DOMAIN batch : Shares(Demand(batch, "BUY"), fill)[k] \in 0..batch[k].qty

\* The arithmetic of the cells against its references: whatever the batch and the
\* fill, no share is crossed, sent or allocated twice, lost or invented.
CellMathIsExact ==
  MatchIsOverlap /\ ResidualIsNet /\ AllocationIsExact /\ AllocationWithinDemand

=============================================================================
