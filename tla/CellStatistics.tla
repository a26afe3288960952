--------------------------- MODULE CellStatistics ---------------------------
(***************************************************************************)
(* The numbers behind cell allocation (services/capital_cells):            *)
(* correlation.py, breadth.py, capacity_tail_risk.py, scale_simulation.py. *)
(* Pure functions; `sample' is the input of one of them, and a state is one*)
(* input.  Values are small integers and a quotient is a pair <<n, d>> with*)
(* d > 0, so that nothing is rounded that the code does not round.         *)
(***************************************************************************)
EXTENDS Arithmetic, FiniteSets, Sequences, Functions

CONSTANTS
  Days,      \* length of a return series
  Moves,     \* daily returns
  Ids,       \* cells whose independence is estimated
  StressPct, \* stress_quantile, in percent
  TailPcts,  \* 1 - confidence_level, in percent
  BlockCounts, LeastBlock, \* n_blocks of estimate_risk_contribution, days a block needs
  Factor     \* extrapolation_factor_threshold

ASSUME StatisticsAssumption ==
  /\ Days \in Nat \ {0} /\ Moves \subseteq Int /\ IsFiniteSet(Ids)
  /\ BlockCounts \subseteq 1..Days /\ LeastBlock \in Nat
  /\ StressPct \in 0..100 /\ TailPcts \subseteq 1..99 /\ Factor \in Nat \ {0}

VARIABLE sample

\* Quotients.
Leq(a, b)  == a[1] * b[2] <= b[1] * a[2]
LowestOf(S)  == CHOOSE a \in S : \A b \in S : Leq(a, b)
HighestOf(S) == CHOOSE a \in S : \A b \in S : Leq(b, a)

\* Python's round of a / b: halves go to the even neighbour.
Round(a, b) ==
  LET q == a \div b
      r == 2 * (a % b)
  IN  IF r > b \/ (r = b /\ q % 2 = 1) THEN q + 1 ELSE q
AtLeastOne(k) == IF k < 1 THEN 1 ELSE k
Plus(s) == SumTo(s, Len(s))

-----------------------------------------------------------------------------
\* CorrelationEngine.estimate: the days of each regime, a regime with too few of
\* them being left out.  sorted is stable, so ties go to the earlier day.
Worse(r, i, j) == r[i] < r[j] \/ (r[i] = r[j] /\ i < j)
WorseDays(r, i) == {j \in DOMAIN r : Worse(r, j, i)}
WorstFirst(r) ==
  [k \in DOMAIN r |-> CHOOSE i \in DOMAIN r : Cardinality(WorseDays(r, i)) = k - 1]

\* Fault-injected variant: every day tied with the cutoff is stress.
StressByValue(r) ==
  LET k == AtLeastOne(Round(StressPct * Len(r), 100))
  IN  {i \in DOMAIN r : r[i] <= r[WorstFirst(r)[k]]}

StressDays(r) ==
  LET k == AtLeastOne(Round(StressPct * Len(r), 100))
  IN  {WorstFirst(r)[i] : i \in 1..k}

RegimeDays(r) ==
  [NORMAL |-> DOMAIN r, DOWNSIDE |-> {i \in DOMAIN r : r[i] < 0}, STRESS |-> StressDays(r)]
Estimated(r, least) == {g \in DOMAIN RegimeDays(r) : Cardinality(RegimeDays(r)[g]) >= least}

-----------------------------------------------------------------------------
\* Fault-injected variant: the series is not sorted.
LossTailUnsorted(r, pct) == SubSeq(r, 1, AtLeastOne(Round(pct * Len(r), 100)))

\* compute_tail_risk: VaR and expected shortfall of a series, as losses.
LossTail(r, pct) ==
  LET worst == WorstFirst(r)
  IN  [i \in 1..AtLeastOne(Round(pct * Len(r), 100)) |-> r[worst[i]]]
ValueAtRisk(r, pct) == <<-LossTail(r, pct)[Len(LossTail(r, pct))], 1>>
Shortfall(r, pct)   == <<-Plus(LossTail(r, pct)), Len(LossTail(r, pct))>>

-----------------------------------------------------------------------------
\* _risk_contribution_point: Cov(cell, portfolio) / Var(portfolio) over days a..b,
\* zero for a portfolio that does not move.
Over(f, a, b) == SumTo([i \in 1..(b - a + 1) |-> f[a + i - 1]], b - a + 1)
Moment(x, y, a, b) ==
  (b - a + 1) * Over([i \in DOMAIN x |-> x[i] * y[i]], a, b) - Over(x, a, b) * Over(y, a, b)
Contribution(cell, book, a, b) ==
  IF Moment(book, book, a, b) = 0 THEN <<0, 1>>
  ELSE <<Moment(cell, book, a, b), Moment(book, book, a, b)>>

\* Fault-injected variant: the full sample is not among the block values.
BlockValuesOnly(cell, book, n) ==
  LET size == Days \div n
  IN  {Contribution(cell, book, (k - 1) * size + 1, IF k = n THEN Days ELSE k * size)
         : k \in 1..n}

\* The contribution of the whole series and of each of n blocks of days, the last
\* block taking what is left over.
BlockValues(cell, book, n) ==
  LET size == Days \div n
  IN  {Contribution(cell, book, 1, Days)} \cup
      {Contribution(cell, book, (k - 1) * size + 1, IF k = n THEN Days ELSE k * size)
         : k \in 1..n}

\* b - a <= 2 / 5
Near(a, b) == 5 * (b[1] * a[2] - a[1] * b[2]) <= 2 * a[2] * b[2]

\* estimate_risk_contribution: blocks too short give no range at all, and half the
\* confidence; otherwise confidence is one less the spread, at most one.
RiskRange(cell, book, n) ==
  LET thin == Days \div n < LeastBlock
      base == Contribution(cell, book, 1, Days)
      vs   == IF thin THEN {base} ELSE BlockValues(cell, book, n)
  IN  [low |-> LowestOf(vs), base |-> base, high |-> HighestOf(vs),
       sure |-> ~thin /\ Near(LowestOf(vs), HighestOf(vs))]

\* safe_side_risk_contribution (min_confidence 0.6)
SafeSide(range) == IF range.sure THEN range.base ELSE range.high

-----------------------------------------------------------------------------
\* _connected_component_count: union-find.  No way up is longer than there are items,
\* so this many steps reach the root.  (find also shortens the way it goes, which
\* moves no root.)
Up(parent, x) == LET y[k \in 0..Len(parent)] == IF k = 0 THEN x ELSE parent[y[k - 1]] IN y
Root(parent, x) == Up(parent, x)[Len(parent)]

\* Fault-injected variant: the item is hung on the other's root, not its root.
UnionItem(parent, x, y) == [parent EXCEPT ![x] = Root(parent, y)]

Union(parent, x, y) ==
  IF Root(parent, x) = Root(parent, y) THEN parent
  ELSE [parent EXCEPT ![Root(parent, x)] = Root(parent, y)]

\* The pairs are visited row by row; round k is about items Row(n, k) and Column(n, k).
Row(n, k)    == ((k - 1) \div n) + 1
Column(n, k) == ((k - 1) % n) + 1
Visit(parent, ids, similar, i, j) ==
  IF i < j /\ {ids[i], ids[j]} \in similar THEN Union(parent, i, j) ELSE parent
Merging(ids, similar) ==
  LET n == Len(ids)
      parent[k \in 0..(n * n)] ==
        IF k = 0 THEN [x \in 1..n |-> x]
        ELSE Visit(parent[k - 1], ids, similar, Row(n, k), Column(n, k))
  IN  parent
ClusterCount(ids, similar) ==
  LET n == Len(ids) IN Cardinality({Root(Merging(ids, similar)[n * n], x) : x \in 1..n})

\* _require_measured_pairs: an unmeasured pair is missing data (-1 stands for
\* InsufficientDataError), not a pair that is unlike.
CorrelationClusters(ids, measured, similar) ==
  IF \E i, j \in DOMAIN ids : i < j /\ {ids[i], ids[j]} \notin measured
  THEN -1 ELSE ClusterCount(ids, similar \cap measured)

-----------------------------------------------------------------------------
Magnitude(c) == IF c < 0 THEN -c ELSE c

\* Fault-injected variant: a negative correlation is diversification.
SignedOverlap(o) == <<o.overlap + o.corr, 4>>

\* composite_overlap of an overlap and a (signed) correlation, in halves; the code
\* has five of the one and two of the other.
CompositeOverlap(o) == <<o.overlap + Magnitude(o.corr), 4>>

\* effective_independent_alpha_count for n cells: 1 + (n - 1)(1 - mean overlap)
EffectiveAlphas(n, pairs) ==
  LET sum == Plus([k \in DOMAIN pairs |-> CompositeOverlap(pairs[k])[1]])
      den == 4 * Len(pairs)
  IN  <<den + (n - 1) * (den - sum), den>>

-----------------------------------------------------------------------------
\* Fault-injected variant: only targets above the observed range are far away.
ExcessAboveOnly(lo, hi, target) == IF target > hi THEN <<target, hi>> ELSE <<1, 1>>

\* simulate_scale: how far the target lies outside what was observed, and how
\* much the projection is trusted.
ExcessRatio(lo, hi, target) ==
  IF target > hi THEN <<target, hi>> ELSE IF target < lo THEN <<lo, target>> ELSE <<1, 1>>
ScaleConfidence(lo, hi, target) ==
  LET e == ExcessRatio(lo, hi, target)
  IN  IF Leq(e, <<Factor, 1>>) THEN <<8, 10>> ELSE <<e[2], e[1]>>

-----------------------------------------------------------------------------
Series == [1..Days -> Moves]
AllPairs(S) == {p \in SUBSET S : Cardinality(p) = 2}

CInit ==
  \/ \E r \in Series : sample = [of |-> "series", r |-> r]
  \/ \E c, d \in Series, n \in BlockCounts :
       sample = [of |-> "cells", c |-> c, d |-> d, blocks |-> n]
  \/ \E s \in SUBSET AllPairs(Ids), ids \in Bijection(1..Cardinality(Ids), Ids),
        missing \in AllPairs(Ids) \cup {{}} :
       sample = [of |-> "clusters", measured |-> AllPairs(Ids) \ {missing}, similar |-> s, ids |-> ids]
  \/ \E p \in [1..3 -> [overlap : {0, 2}, corr : {-2, 0, 1}]] :
       sample = [of |-> "alphas", pairs |-> p]
  \/ \E lo, hi, t \in 1..3 * Factor :
       lo <= hi /\ sample = [of |-> "scale", lo |-> lo, hi |-> hi, target |-> t]

\* Pure functions: the input is all there is.
StatisticsSpec == CInit /\ [][UNCHANGED sample]_sample

-----------------------------------------------------------------------------
\* Section 21: the stress regime is its share of the days, not more when days tie,
\* and no day outside it was worse; a regime is never estimated from days the
\* normal regime was too short for.
StressIsTheWorst ==
  sample.of = "series" =>
    LET r == sample.r
        s == StressDays(r)
    IN  /\ Cardinality(s) = 1 \/ Magnitude(100 * Cardinality(s) - StressPct * Len(r)) <= 50
        /\ \A i \in s, j \in DOMAIN r \ s : r[i] <= r[j]
        /\ \A least \in 1..Days : Estimated(r, least) # {} => "NORMAL" \in Estimated(r, least)

\* Section 20: expected shortfall is at least as severe as VaR and as the mean loss,
\* and looking further into the tail never makes it look milder.
ShortfallIsWorse ==
  sample.of = "series" =>
    \A p \in TailPcts :
      /\ Leq(ValueAtRisk(sample.r, p), Shortfall(sample.r, p))
      /\ Leq(<<-Plus(sample.r), Days>>, Shortfall(sample.r, p))
      /\ \A q \in TailPcts : q < p => Leq(Shortfall(sample.r, p), Shortfall(sample.r, q))

\* Section 22: the cells' contributions to the risk of their common book add up to
\* one; the range is ordered as RangeEstimate demands; and the bound used is never
\* below the estimate, nor far below what any part of the sample showed.
ContributionsAddUp ==
  sample.of = "cells" =>
    LET book == [i \in 1..Days |-> sample.c[i] + sample.d[i]]
        x == Contribution(sample.c, book, 1, Days)
        y == Contribution(sample.d, book, 1, Days)
        g == RiskRange(sample.c, book, sample.blocks)
    IN  /\ Moment(book, book, 1, Days) # 0 => x[2] = y[2] /\ x[1] + y[1] = x[2]
        /\ Leq(g.low, g.base) /\ Leq(g.base, g.high)
        /\ Leq(g.base, SafeSide(g)) /\ Near(SafeSide(g), g.high)

\* Section 18: the cluster count is the number of connected components, in whatever
\* order the ids come, and a pair nobody measured never counts as independent.
ClustersAreComponents ==
  sample.of = "clusters" =>
    LET joined(S) == \A T \in (SUBSET S) \ {{}, S} :
                       \E x \in T, y \in S \ T : {x, y} \in sample.similar
        apart(S)  == \A x \in S, y \in Ids \ S : {x, y} \notin sample.similar
        n == CorrelationClusters(sample.ids, sample.measured, sample.similar)
    IN  n = IF sample.measured # AllPairs(Ids) THEN -1
            ELSE Cardinality({S \in (SUBSET Ids) \ {{}} : joined(S) /\ apart(S)})

\* Section 19: there are never fewer than one nor more independent alphas than cells:
\* not even an inverse copy counts as diversification.
AlphasWithinBounds ==
  sample.of = "alphas" =>
    /\ Leq(<<1, 1>>, EffectiveAlphas(3, sample.pairs))
    /\ Leq(EffectiveAlphas(3, sample.pairs), <<3, 1>>)
    /\ \A k \in 1..3 : sample.pairs[k].corr # 0 => ~Leq(<<3, 1>>, EffectiveAlphas(3, sample.pairs))

\* Section 25: a projection further away from what was observed, on either side, is
\* never trusted more, and outside Factor times the range it is not in-sample.
FartherIsNeverSurer ==
  sample.of = "scale" =>
    LET c(t) == ScaleConfidence(sample.lo, sample.hi, t)
    IN  /\ sample.target > 1 /\ sample.target <= sample.lo => Leq(c(sample.target - 1), c(sample.target))
        /\ sample.target >= sample.hi => Leq(c(sample.target + 1), c(sample.target))
        /\ sample.target * Factor < sample.lo => ~Leq(<<8, 10>>, c(sample.target))

\* Sections 18 to 25 together: small samples, ties, inverse copies, pairs nobody
\* measured and projections never make a book look safer than the data do.
EstimatesArePrudent ==
  /\ StressIsTheWorst /\ ShortfallIsWorse /\ ContributionsAddUp
  /\ ClustersAreComponents /\ AlphasWithinBounds /\ FartherIsNeverSurer

=============================================================================
