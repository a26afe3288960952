---------------------------- MODULE CellGovernor ----------------------------
(***************************************************************************)
(* Who gets capital (services/capital_cells/allocation_governor.py), how   *)
(* much of it the market carries (capacity_tail_risk.py) and what all      *)
(* cells depend on (common_mode.py).  Pure functions again: `bid' is one   *)
(* input.  Fractions of one are in halves, so 0..2 for [0, 1].             *)
(***************************************************************************)
EXTENDS Integers, FiniteSets

CONSTANTS
  Edges,     \* net edges, as small integers around zero
  Capitals,  \* total capital and requests
  Cells, Feeds,
  MinScore   \* min_score_to_fund

ASSUME GovernorAssumption ==
  /\ Edges \subseteq Int /\ Capitals \subseteq Nat /\ MinScore \in Int
  /\ Cells # {} /\ IsFiniteSet(Cells)

VARIABLE bid

Below(a, b) == a[1] * b[2] <= b[1] * a[2]

-----------------------------------------------------------------------------
\* A RangeEstimate (its high bound is used nowhere here) is trusted when its
\* confidence reaches the threshold; otherwise its low bound is used.
Bound(est) == IF est.trusted THEN est.base ELSE est.low

Quality(c) == c.stability * (2 - c.correlation) * (2 - c.drawdown)

\* Fault-injected variant: a loss is shrunk by the penalties, too.
ScoreShrunk(c) ==
  <<(Bound(c.edge) - c.cost) * Quality(c),
    8 * (1 + (IF c.shortfall > 0 THEN c.shortfall ELSE 0))>>

\* uncertainty_adjusted_score: a gain is scaled down, a loss up.
Score(c) ==
  LET net  == Bound(c.edge) - c.cost
      tail == 1 + (IF c.shortfall > 0 THEN c.shortfall ELSE 0)
  IN  IF net >= 0 THEN <<net * Quality(c), 8 * tail>>
                  ELSE <<net * (16 - Quality(c)) * tail, 8>>

\* rank_cells orders by this.
RankedBefore(c, d) == ~Below(Score(c), Score(d))

\* Fault-injected variant: with nobody to fund, what is left goes nowhere.
AllocateForgets(total, cash, risk, scores) ==
  LET q == {k \in DOMAIN scores : Below(<<MinScore, 1>>, scores[k])}
      a == 2 * total - total * cash - total * risk
  IN  [funded |-> q, each |-> <<a, 2 * (IF q = {} THEN 1 ELSE Cardinality(q))>>,
       unallocated |-> 0, cash |-> total * cash, risk |-> total * risk]

\* allocate_with_reserve: equal parts for every cell that clears the bar; amounts
\* are in halves, like the reserve fractions.
AllocateWithReserve(total, cash, risk, scores) ==
  LET q == {k \in DOMAIN scores : Below(<<MinScore, 1>>, scores[k])}
      a == 2 * total - total * cash - total * risk
  IN  [funded |-> q, each |-> <<a, 2 * (IF q = {} THEN 1 ELSE Cardinality(q))>>,
       unallocated |-> IF q = {} THEN a ELSE 0, cash |-> total * cash, risk |-> total * risk]

\* capacity_constrained_allocation
CapacityConstrained(request, capacity) ==
  IF request < Bound(capacity) THEN request ELSE Bound(capacity)

\* Fault-injected variant: an unsure value is taken at its base.
ReviewBase(p) ==
  p.distinct /\ p.available /\ p.independent /\ p.operational /\ p.value.base >= 0

\* CellCreationGovernor.review approves when no reason against is found.
Review(p) ==
  p.distinct /\ p.available /\ p.independent /\ p.operational /\ Bound(p.value) >= 0

-----------------------------------------------------------------------------
\* Fault-injected variant: a dependency is flagged only above the threshold.
ConcentratedAbove(deps, pct) ==
  {f \in Feeds : Cardinality({c \in DOMAIN deps : deps[c] = f}) * 100 > pct * Cardinality(DOMAIN deps)}

\* detect_dependency_concentration
Concentrated(deps, pct) ==
  {f \in Feeds : Cardinality({c \in DOMAIN deps : deps[c] = f}) * 100 >= pct * Cardinality(DOMAIN deps)}

-----------------------------------------------------------------------------
RangeEstimate == {r \in [low: Edges, base: Edges, trusted: BOOLEAN] : r.low <= r.base}
Inputs == [edge: RangeEstimate, stability: 0..2, correlation: 0..2, drawdown: 0..2,
           shortfall: {-1, 0, 1}, cost: 0..1]
Evidence == [distinct: BOOLEAN, available: BOOLEAN, independent: BOOLEAN,
             operational: BOOLEAN, value: RangeEstimate]

GInit ==
  \/ \E c \in Inputs : bid = [of |-> "cell", cell |-> c]
  \/ \E t \in Capitals, cash, risk \in 0..2, s \in [Cells -> Edges \X {2}] :
       cash + risk <= 2 /\ bid = [of |-> "capital", total |-> t, cash |-> cash, risk |-> risk,
                                  scores |-> s]
  \/ \E r \in Capitals, lo, b \in Capitals, tr \in BOOLEAN :
       lo <= b /\ bid = [of |-> "capacity", request |-> r,
                         capacity |-> [low |-> lo, base |-> b, trusted |-> tr]]
  \/ \E p \in Evidence : bid = [of |-> "new", proposal |-> p]
  \/ \E d \in [Cells -> Feeds] : bid = [of |-> "feeds", deps |-> d]

\* The functions are asked once: the input does not change.
GovernorSpec == GInit /\ [][UNCHANGED bid]_bid

Doubted(e) == [low |-> e.low, base |-> e.base, trusted |-> FALSE]
Lowered(e) == [low |-> e.low - 1, base |-> e.base - 1, trusted |-> e.trusted]

\* Everything like c or one step worse, in one respect or in several.
WorseCells(c) ==
  [edge: {c.edge, Doubted(c.edge), Lowered(c.edge)}, stability: {c.stability, c.stability - 1} \cap 0..2,
   correlation: {c.correlation, c.correlation + 1} \cap 0..2,
   drawdown: {c.drawdown, c.drawdown + 1} \cap 0..2,
   shortfall: {c.shortfall, c.shortfall + 1}, cost: {c.cost, c.cost + 1}]

\* Every proposal with the evidence of p or less.
LessEvidence(p) ==
  [distinct: {p.distinct, FALSE}, available: {p.available, FALSE},
   independent: {p.independent, FALSE}, operational: {p.operational, FALSE},
   value: {p.value, Doubted(p.value)}]

-----------------------------------------------------------------------------
\* Section 28: a cell that is worse in some respects (less certain, less stable, more
\* correlated, deeper in drawdown, fatter in the tail, dearer) never scores higher,
\* is never ranked before the better one and is never funded instead of it, on
\* whichever side of zero its edge is.
WorseNeverRanksHigher ==
  bid.of = "cell" =>
    \A w \in WorseCells(bid.cell) : ~RankedBefore(w, bid.cell)

\* Section 29: every unit of capital is in a cell, in a reserve or unallocated, and
\* reserves never take more than there is.
CapitalAddsUp ==
  bid.of = "capital" =>
    LET a == AllocateWithReserve(bid.total, bid.cash, bid.risk, bid.scores)
        n == Cardinality(a.funded)
    IN  /\ a.each[1] >= 0
        /\ n * a.each[1] * 2 + (a.unallocated + a.cash + a.risk) * a.each[2]
             = 2 * bid.total * a.each[2]

\* Sections 23 and 30: doubt never enlarges what a cell gets nor opens a new one, and
\* neither does less of any evidence.
DoubtIsConservative ==
  /\ bid.of = "capacity" =>
       LET give == CapacityConstrained(bid.request, bid.capacity)
       IN  /\ give <= bid.request /\ give <= bid.capacity.base
           /\ CapacityConstrained(bid.request, Doubted(bid.capacity)) <= give
  /\ bid.of = "new" /\ ~Review(bid.proposal) =>
       \A w \in LessEvidence(bid.proposal) : ~Review(w)
  /\ bid.of = "new" /\ Review(bid.proposal) =>
       bid.proposal.value.trusted \/ bid.proposal.value.low >= 0

\* Section 31: when all cells hang on k feeds and a share of 1/k is too much, at least
\* one common dependency is found.
ConcentrationIsFound ==
  bid.of = "feeds" =>
    \A k \in {1, 2, 4} :
      Cardinality({bid.deps[c] : c \in Cells}) <= k => Concentrated(bid.deps, 100 \div k) # {}

\* Sections 28 to 31 together: capital adds up and goes to the better cell, doubt
\* gets none, and what all cells hang on is found.
CapitalIsPrudent ==
  WorseNeverRanksHigher /\ CapitalAddsUp /\ DoubtIsConservative /\ ConcentrationIsFound

=============================================================================
