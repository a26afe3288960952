-------------------------- MODULE EntryFunnelProofs --------------------------
(***************************************************************************)
(* What EntryFunnel promises, for any symbols, themes, prices, sizes,      *)
(* limits and number of price moves.                                       *)
(***************************************************************************)
EXTENDS EntryFunnel, Counting, SequenceTheorems

Worths  == [Sym -> Nat]
Order   == [sym: Sym, qty: Qtys]
Partial == [sym: Sym, qty: Nat]

\* The limits are numbers.
LEMMA Limits ==
  /\ MaxPositionPct \in Nat /\ MaxThemePct \in Nat /\ MaxTotalPct \in Nat /\ StagePct \in Nat
  /\ DdReducedAt \in Nat /\ DdNoNewEntryAt \in Nat /\ DdSafeModeAt \in Nat
BY RiskConfigAssumption

\* Sizes are numbers.
LEMMA Sizes == \A q \in {0} \cup Qtys : q \in Nat
BY FunnelAssumption

\* A total is the count of its ticks.
LEMMA TotalIsShares == ASSUME NEW w, NEW S PROVE Total(w, S) = Cardinality(SharesOf(w, S))
BY DEF Total, SharesOf

\* Finitely many symbols are worth finitely many ticks.
LEMMA TicksFinite ==
  ASSUME NEW w \in Worths, NEW S, S \subseteq Sym
  PROVE  IsFiniteSet(SharesOf(w, S))
<1> DEFINE T == {{s} \X (1..w[s]) : s \in S}
           f == [s \in S |-> {s} \X (1..w[s])]
<1>1. IsFiniteSet(S)
  BY FunnelAssumption, FS_Subset
<1>2. f \in [S -> T] /\ \A t \in T : \E s \in S : f[s] = t
  OBVIOUS
<1>3. \A t \in T : IsFiniteSet(t)
  <2> TAKE t \in T
  <2>1. PICK s \in S : t = {s} \X (1..w[s])
    OBVIOUS
  <2>2. w[s] \in Nat
    BY DEF Worths
  <2> QED
    BY <2>1, <2>2, FirstShares
<1>4. SharesOf(w, S) = UNION T
  BY DEF SharesOf
<1> HIDE DEF T, f
<1>5. IsFiniteSet(T)
  BY <1>1, <1>2, ImageFinite
<1> QED
  BY <1>3, <1>4, <1>5, FS_UNION

\* A total is a number.
LEMMA TotalType ==
  ASSUME NEW w \in Worths, NEW S, S \subseteq Sym
  PROVE  Total(w, S) \in Nat
BY TicksFinite, TotalIsShares, FS_CardinalityType

\* Totals over worths that agree.
LEMMA TotalSame ==
  ASSUME NEW w, NEW v, NEW S, \A s \in S : w[s] = v[s]
  PROVE  Total(w, S) = Total(v, S)
<1>1. SharesOf(w, S) = SharesOf(v, S)
  BY DEF SharesOf
<1> QED
  BY <1>1, TotalIsShares

\* Nothing is worth nothing.
LEMMA TotalZero ==
  ASSUME NEW w, NEW S, \A s \in S : w[s] = 0
  PROVE  Total(w, S) = 0
<1>1. SharesOf(w, S) = {}
  BY DEF SharesOf
<1> QED
  BY <1>1, TotalIsShares, FS_EmptySet

\* Only the worth of symbol j differs.
OnlyAt(w, v, j) == \A s \in Sym : s # j => v[s] = w[s]

\* A total when the worth of one of its symbols changes.
LEMMA TotalChange ==
  ASSUME NEW w \in Worths, NEW v \in Worths, NEW j \in Sym, OnlyAt(w, v, j),
         NEW S, S \subseteq Sym, j \in S
  PROVE  \E k \in Nat : Total(w, S) = k + w[j] /\ Total(v, S) = k + v[j]
<1> DEFINE R == S \ {j}
<1>1. S = R \cup {j} /\ j \notin R /\ R \subseteq Sym
  OBVIOUS
<1>2. SharesOf(w, R) = SharesOf(v, R)
  BY DEF SharesOf, OnlyAt
<1>3. w[j] \in Nat /\ v[j] \in Nat
  BY DEF Worths
<1> HIDE DEF R
<1>4. IsFiniteSet(SharesOf(w, R))
  BY <1>1, TicksFinite
<1>5. /\ Cardinality(SharesOf(w, S)) = Cardinality(SharesOf(w, R)) + w[j]
      /\ Cardinality(SharesOf(v, S)) = Cardinality(SharesOf(w, R)) + v[j]
  BY <1>1, <1>2, <1>3, <1>4, OwnerAdded
<1>6. Cardinality(SharesOf(w, R)) \in Nat
  BY <1>4, FS_CardinalityType
<1> QED
  BY <1>5, <1>6, TotalIsShares

-----------------------------------------------------------------------------
CheckNames ==
  {"priceable_order", "risk_state", "leverage", "cash_settled", "no_short",
   "total_exposure", "position_size", "liquidity", "stop_exists", "theme_concentration",
   "gap_risk", "broker_connected", "reconciliation", "market_open", "data_health",
   "no_margin", "duplicate_order", "stale_order", "spread"}

\* What an approval of a purchase says.
LEMMA ApprovedEntry ==
  ASSUME NEW o, NEW v, o.side = "BUY", Approved(o, v)
  PROVE  /\ EntryAllowedByState(v)
         /\ o.qty * o.px <= v.settled
         /\ (v.theme[o.sym] + o.qty * o.px) * 100 <= v.equity * MaxThemePct
<1> DEFINE c == Checks(o, v)
<1>1. \A name \in DOMAIN c : c[name]
  BY DEF Approved
<1>2. DOMAIN c = CheckNames
  BY DEF Checks, CheckNames
<1>3. c.risk_state /\ c.cash_settled /\ c.theme_concentration
  BY <1>1, <1>2 DEF CheckNames
<1>4. /\ c.cash_settled = (o.side = "BUY" => o.qty * o.px <= v.settled)
      /\ c.risk_state = IF o.side = "SELL" /\ o.protective
                          THEN ExitAllowedByState(v) ELSE EntryAllowedByState(v)
      /\ c.theme_concentration =
           (o.side = "BUY" => (v.theme[o.sym] + o.qty * o.px) * 100 <= v.equity * MaxThemePct)
  BY DEF Checks
<1> HIDE DEF c
<1> QED
  BY <1>3, <1>4

\* A protective sale of no more than is held passes every check but those of the
\* state, the connection, the margin, the halt and the id.
LEMMA ApprovedExit ==
  ASSUME NEW o, NEW v, o.side = "SELL", o.protective = TRUE, o.known = FALSE,
         o.qty <= v.held[o.sym], v.state # "FULL_BROKER_DISCONNECT",
         v.market \in {"OPEN", "CLOSED"},
         "disconnected" \notin v.trouble, "margin" \notin v.trouble
  PROVE  Approved(o, v)
<1>1. PICK c : c = Checks(o, v)
  OBVIOUS
<1>2. DOMAIN c = CheckNames
  BY <1>1 DEF Checks, CheckNames
<1>3. c.priceable_order
  <2> DEFINE Fits == o.px > 0
  <2>1. c.priceable_order = (o.side = "BUY" => Fits)
    BY <1>1 DEF Checks
  <2> HIDE DEF Fits
  <2> QED
    BY <2>1
<1>4. c.leverage
  <2> DEFINE Fits == /\ v.equity > 0
                     /\ (v.exposure + o.qty * o.px) * 100 <= MaxLeveragePct * v.equity
  <2>1. c.leverage = (o.side = "BUY" => Fits)
    BY <1>1 DEF Checks
  <2> HIDE DEF Fits
  <2> QED
    BY <2>1
<1>5. c.cash_settled
  <2> DEFINE Fits == o.qty * o.px <= v.settled
  <2>1. c.cash_settled = (o.side = "BUY" => Fits)
    BY <1>1 DEF Checks
  <2> HIDE DEF Fits
  <2> QED
    BY <2>1
<1>6. c.total_exposure
  <2> DEFINE Fits == (v.exposure + o.qty * o.px) * 10000 <= v.equity * MaxTotalPct * StagePct
  <2>1. c.total_exposure = (o.side = "BUY" => Fits)
    BY <1>1 DEF Checks
  <2> HIDE DEF Fits
  <2> QED
    BY <2>1
<1>7. c.position_size
  <2> DEFINE Fits == o.qty * o.px * 100 <= v.equity * MaxPositionPct
  <2>1. c.position_size = (o.side = "BUY" => Fits)
    BY <1>1 DEF Checks
  <2> HIDE DEF Fits
  <2> QED
    BY <2>1
<1>8. c.liquidity
  <2> DEFINE Fits == "illiquid" \notin v.trouble
  <2>1. c.liquidity = (o.side = "BUY" => Fits)
    BY <1>1 DEF Checks
  <2> HIDE DEF Fits
  <2> QED
    BY <2>1
<1>9. c.theme_concentration
  <2> DEFINE Fits == (v.theme[o.sym] + o.qty * o.px) * 100 <= v.equity * MaxThemePct
  <2>1. c.theme_concentration = (o.side = "BUY" => Fits)
    BY <1>1 DEF Checks
  <2> HIDE DEF Fits
  <2> QED
    BY <2>1
<1>10. c.risk_state
  <2> DEFINE Enters == EntryAllowedByState(v)
             Exits == ExitAllowedByState(v)
  <2>1. c.risk_state = IF o.side = "SELL" /\ o.protective THEN Exits ELSE Enters
    BY <1>1 DEF Checks
  <2>2. Exits
    BY DEF ExitAllowedByState
  <2> HIDE DEF Enters, Exits
  <2> QED
    BY <2>1, <2>2
<1>11. c.no_short
  <2> DEFINE Has == o.qty <= v.held[o.sym]
  <2>1. c.no_short = (~(o.side = "BUY") => Has)
    BY <1>1 DEF Checks
  <2>2. Has
    OBVIOUS
  <2> HIDE DEF Has
  <2> QED
    BY <2>1, <2>2
<1>12. /\ c.stop_exists = TRUE /\ c.gap_risk = TRUE /\ c.reconciliation = TRUE
       /\ c.data_health = TRUE /\ c.stale_order = TRUE /\ c.spread = TRUE
  <2>1. c.stop_exists = ((o.side = "SELL" /\ o.protective) \/ "no_stop_plan" \notin v.trouble)
    BY <1>1 DEF Checks
  <2>2. c.gap_risk = ((o.side = "SELL" /\ o.protective) \/ "gap" \notin v.trouble)
    BY <1>1 DEF Checks
  <2>3. c.reconciliation = ((o.side = "SELL" /\ o.protective) \/ "unreconciled" \notin v.trouble)
    BY <1>1 DEF Checks
  <2>4. c.data_health = ((o.side = "SELL" /\ o.protective) \/ "bad_data" \notin v.trouble)
    BY <1>1 DEF Checks
  <2>5. c.stale_order = ((o.side = "SELL" /\ o.protective) \/ "stale" \notin v.trouble)
    BY <1>1 DEF Checks
  <2>6. c.spread = ((o.side = "SELL" /\ o.protective) \/ "spread" \notin v.trouble)
    BY <1>1 DEF Checks
  <2> QED
    BY <2>1, <2>2, <2>3, <2>4, <2>5, <2>6
<1>13. /\ c.broker_connected = TRUE /\ c.market_open = TRUE
       /\ c.no_margin = TRUE /\ c.duplicate_order = TRUE
  <2>1. c.broker_connected = ("disconnected" \notin v.trouble)
    BY <1>1 DEF Checks
  <2>2. c.no_margin = ("margin" \notin v.trouble)
    BY <1>1 DEF Checks
  <2>3. c.duplicate_order = (~o.known)
    BY <1>1 DEF Checks
  <2>4. c.market_open = (v.market = "OPEN" \/
                         (o.side = "SELL" /\ o.protective /\ v.market # "HALTED"))
    BY <1>1 DEF Checks
  <2>5. v.market # "OPEN" => v.market # "HALTED"
    OBVIOUS
  <2> QED
    BY <2>1, <2>2, <2>3, <2>4, <2>5
<1>14. \A name \in DOMAIN c : c[name]
  BY <1>2, <1>3, <1>4, <1>5, <1>6, <1>7, <1>8, <1>9, <1>10, <1>11, <1>12, <1>13 DEF CheckNames
<1> QED
  BY <1>1, <1>14 DEF Approved
-----------------------------------------------------------------------------
\* The types of what the session keeps, as far as the loops need them.
HeldTypes ==
  /\ settled \in Nat /\ unsettled \in Nat /\ pos \in Worths /\ price \in [Sym -> Prices]
  /\ work \in Seq(Partial)

\* A price is a positive number and an order's value a number.
LEMMA ValueType ==
  ASSUME HeldTypes, NEW s \in Sym, NEW q \in Nat
  PROVE  price[s] \in Nat /\ price[s] > 0 /\ q * price[s] \in Nat
<1>1. price[s] \in Prices
  BY DEF HeldTypes
<1>2. price[s] \in Nat /\ price[s] # 0
  BY <1>1, FunnelAssumption
<1> QED
  BY <1>2

\* What an appended sequence has.
LEMMA Appended ==
  ASSUME NEW S, NEW q \in Seq(S), NEW x \in S
  PROVE  /\ Append(q, x) \in Seq(S) /\ Len(q) \in Nat /\ Len(Append(q, x)) = Len(q) + 1
         /\ \A i \in 1..Len(q) : Append(q, x)[i] = q[i]
         /\ Append(q, x)[Len(q) + 1] = x
BY AppendProperties, LenProperties

\* The worths of the positions are numbers, and so are their totals.
LEMMA ExposureType ==
  ASSUME HeldTypes
  PROVE  /\ Notionals \in Worths /\ Exposure \in Nat /\ Equity \in Nat
         /\ \A s \in Sym : Notional(s) \in Nat /\ ThemeNotional(s) \in Nat
         /\ \A s \in Sym : SameTheme(s) \subseteq Sym /\ s \in SameTheme(s)
<1>1. \A s \in Sym : Notional(s) \in Nat
  BY ValueType DEF HeldTypes, Worths, Notional
<1>2. Notionals \in Worths
  BY <1>1 DEF Notionals, Worths
<1>3. \A s \in Sym : SameTheme(s) \subseteq Sym /\ s \in SameTheme(s)
  BY DEF SameTheme
<1>4. Exposure \in Nat /\ \A s \in Sym : ThemeNotional(s) \in Nat
  BY <1>2, <1>3, TotalType DEF Exposure, ThemeNotional
<1> QED
  BY <1>1, <1>2, <1>3, <1>4 DEF Equity, HeldTypes

\* The books while remainders fill: cash is not overdrawn and positions grow.
RestType == {a \in [cash: Nat, pos: Worths, work: Seq(Partial)] : \A s \in Sym : a.pos[s] >= pos[s]}

\* One remainder fills or rests.
LEMMA RefillType ==
  ASSUME HeldTypes, NEW a \in RestType, NEW o \in Partial
  PROVE  Refill(a, o) \in RestType
<1>1. /\ a.cash \in Nat /\ a.pos \in Worths /\ a.work \in Seq(Partial)
      /\ \A s \in Sym : a.pos[s] >= pos[s] /\ a.pos[s] \in Nat /\ pos[s] \in Nat
  BY DEF RestType, HeldTypes, Worths
<1>2. o.sym \in Sym /\ o.qty \in Nat
  BY DEF Partial
<1>3. PICK value \in Nat : value = o.qty * price[o.sym]
  BY <1>2, ValueType
<1>4. CASE value > a.cash
  <2>1. Append(a.work, o) \in Seq(Partial)
    BY <1>1, Appended
  <2>2. Refill(a, o) = [cash |-> a.cash, pos |-> a.pos, work |-> Append(a.work, o)]
    BY <1>3, <1>4 DEF Refill, Rest
  <2> QED
    BY <1>1, <2>1, <2>2 DEF RestType
<1>5. CASE ~(value > a.cash)
  <2> DEFINE P == [a.pos EXCEPT ![o.sym] = @ + o.qty]
  <2>1. P \in Worths /\ \A s \in Sym : P[s] >= pos[s]
    BY <1>1, <1>2 DEF Worths
  <2>2. Refill(a, o) = [cash |-> a.cash - value, pos |-> P, work |-> a.work]
    BY <1>3, <1>5 DEF Refill, Rest
  <2>3. a.cash - value \in Nat
    BY <1>1, <1>3, <1>5
  <2> HIDE DEF P
  <2> QED
    BY <1>1, <2>1, <2>2, <2>3 DEF RestType
<1> QED
  BY <1>4, <1>5

\* What the remainders leave when manage_open_positions is through with them.
LEMMA Refilled ==
  ASSUME HeldTypes
  PROVE  /\ Refills[Len(work)] \in RestType
         /\ work = <<>> => Refills[Len(work)] = Rest(settled, pos, <<>>)
<1> DEFINE n == Len(work)
           T == RestType
           b == Rest(settled, pos, <<>>)
           step == [a \in T \X (1..n) |-> Refill(a[1], work[a[2]])]
<1>1. n \in Nat /\ b \in T
  <2>1. <<>> \in Seq(Partial)
    BY EmptySeq
  <2>2. \A s \in Sym : pos[s] >= pos[s]
    BY DEF HeldTypes, Worths
  <2> QED
    BY <2>1, <2>2, LenProperties DEF HeldTypes, Rest, RestType
<1>2. \A a \in T, k \in 1..n : Refill(a, work[k]) \in T
  <2> TAKE a \in T, k \in 1..n
  <2>1. work[k] \in Partial
    BY ElementOfSeq DEF HeldTypes
  <2> QED
    BY <2>1, RefillType
<1>3. \A a \in T, k \in 1..n : step[<<a, k>>] = Refill(a, work[k])
  OBVIOUS
<1>4. \E g : RunOf(g, T, b, n, step)
  <2>1. BodyOf(T, n, step)
    <3> HIDE DEF T, b, n, step
    <3> QED
      BY <1>2, <1>3 DEF BodyOf
  <2> HIDE DEF T, b, n, step
  <2> QED
    BY <1>1, <2>1, LoopExists
<1>5. PICK g : RunOf(g, T, b, n, step)
  BY <1>4
<1>6. g \in [0..n -> T] /\ g[0] = b /\ \A k \in 1..n : g[k] = step[<<g[k - 1], k>>]
  BY <1>5 DEF RunOf
<1> HIDE DEF T, b, n, step
<1>7. \A k \in 1..n : k - 1 \in 0..n /\ g[k - 1] \in T
  BY <1>1, <1>6
<1>8. \A k \in 1..n : g[k] = Refill(g[k - 1], work[k])
  BY <1>3, <1>6, <1>7
<1>9. g = [k \in 0..n |-> IF k = 0 THEN b ELSE Refill(g[k - 1], work[k])]
  BY <1>1, <1>6, <1>8
<1>10. \E h : h = [k \in 0..n |-> IF k = 0 THEN b ELSE Refill(h[k - 1], work[k])]
  BY <1>9
<1>11. PICK m : m = Refills
  OBVIOUS
<1>12. m = [k \in 0..n |-> IF k = 0 THEN b ELSE Refill(m[k - 1], work[k])]
  BY <1>10, <1>11 DEF Refills, n, b
<1>13. m[0] = b /\ \A k \in 1..n : m[k] = Refill(m[k - 1], work[k])
  BY <1>1, <1>12
<1> DEFINE S == {k \in 0..n : m[k] \in T}
<1>14. \A k \in 0..n : k \in S
  <2>1. 0 \in S
    BY <1>1, <1>13
  <2>2. ASSUME NEW k \in 0..n-1, k \in S PROVE k + 1 \in S
    <3>1. k + 1 \in 1..n /\ k + 1 \in 0..n /\ (k + 1) - 1 = k
      BY <1>1
    <3>2. m[k] \in T
      BY <2>2
    <3>3. m[k + 1] = Refill(m[k], work[k + 1])
      BY <1>13, <3>1
    <3>4. Refill(m[k], work[k + 1]) \in T
      BY <1>2, <3>1, <3>2
    <3> QED
      BY <3>1, <3>3, <3>4
  <2> HIDE DEF S
  <2> QED
    BY <1>1, <2>1, <2>2, CountUp
<1>15. m[n] \in T
  BY <1>1, <1>14
<1>16. work = <<>> => n = 0
  BY EmptySeq DEF n
<1> QED
  BY <1>11, <1>13, <1>15, <1>16 DEF T, b, n

-----------------------------------------------------------------------------
\* A ranking is a sequence of orders, one per symbol.
LEMMA RankingType ==
  ASSUME NEW r \in Rankings
  PROVE  /\ r \in Seq(Order) /\ Len(r) \in Nat /\ DOMAIN r = 1..Len(r)
         /\ \A i, j \in 1..Len(r) : r[i].sym = r[j].sym => i = j
<1>1. Cardinality(Sym) \in Nat
  BY FunnelAssumption, FS_CardinalityType
<1>2. PICK n \in 1..Cardinality(Sym) : r \in [1..n -> Order]
  BY DEF Rankings, Order
<1>3. n \in Nat
  BY <1>1, <1>2
<1>4. r \in Seq(Order) /\ Len(r) = n
  BY <1>2, <1>3, LenProperties, IsASeq
<1> QED
  BY <1>2, <1>3, <1>4 DEF Rankings

AllocationType == [cash: Int, exposure: Int, accepted: Seq(Order)]

\* One candidate is taken or skipped.
LEMMA AllocateCases ==
  ASSUME HeldTypes, NEW a \in AllocationType, NEW o \in Order
  PROVE  /\ Allocate(a, o) \in AllocationType
         /\ \/ Allocate(a, o) = a
            \/ Allocate(a, o).accepted = Append(a.accepted, o)
<1>1. a.cash \in Int /\ a.exposure \in Int /\ a.accepted \in Seq(Order)
  BY DEF AllocationType
<1>2. o.sym \in Sym /\ o.qty \in Nat
  BY FunnelAssumption DEF Order
<1>3. PICK value \in Nat : value = o.qty * price[o.sym]
  BY <1>2, ValueType
<1>4. Append(a.accepted, o) \in Seq(Order)
  BY <1>1, Appended
<1>5. Taken(a, o) = [cash |-> a.cash - value, exposure |-> a.exposure + value,
                     accepted |-> Append(a.accepted, o)]
  BY <1>3 DEF Taken, Room
<1>6. /\ Taken(a, o) \in AllocationType
      /\ Taken(a, o).accepted = Append(a.accepted, o)
  BY <1>1, <1>3, <1>4, <1>5 DEF AllocationType
<1>7. Allocate(a, o) = a \/ Allocate(a, o) = Taken(a, o)
  BY DEF Allocate
<1> QED
  BY <1>6, <1>7

\* Orders of the ranking's first k, in that order and one per symbol.
Picked(q, r, k) ==
  /\ \A i \in 1..Len(q) : \E j \in 1..k : q[i] = r[j]
  /\ \A i, j \in 1..Len(q) : i # j => q[i].sym # q[j].sym

\* Picking one more.
LEMMA PickedMore ==
  ASSUME NEW r \in Seq(Order), NEW k \in 0..Len(r) - 1, NEW q \in Seq(Order), Picked(q, r, k),
         \A i, j \in 1..Len(r) : r[i].sym = r[j].sym => i = j
  PROVE  Picked(q, r, k + 1) /\ Picked(Append(q, r[k + 1]), r, k + 1)
<1>1. Len(r) \in Nat /\ k \in Nat /\ k + 1 \in 1..Len(r) /\ r[k + 1] \in Order
  BY LenProperties, ElementOfSeq
<1>2. PICK p : p = Append(q, r[k + 1])
  OBVIOUS
<1>3. /\ Len(q) \in Nat /\ Len(p) = Len(q) + 1
      /\ \A i \in 1..Len(q) : p[i] = q[i]
      /\ p[Len(q) + 1] = r[k + 1]
  BY <1>1, <1>2, Appended
<1>4. \A i \in 1..Len(q) : \E j \in 1..k : q[i] = r[j]
  BY DEF Picked
<1>5. \A j \in 1..k : j \in 1..k + 1 /\ j \in 1..Len(r) /\ j # k + 1
  BY <1>1
<1>6. Picked(q, r, k + 1)
  BY <1>4, <1>5 DEF Picked
<1>7. \A i \in 1..Len(q) : q[i].sym # r[k + 1].sym
  BY <1>1, <1>4, <1>5
<1>8. \A i \in 1..Len(p) : i \in 1..Len(q) \/ i = Len(q) + 1
  BY <1>3
<1>9. \A i \in 1..Len(p) : \E j \in 1..k + 1 : p[i] = r[j]
  <2> TAKE i \in 1..Len(p)
  <2>1. CASE i \in 1..Len(q)
    BY <2>1, <1>3, <1>4, <1>5
  <2>2. CASE i = Len(q) + 1
    BY <2>2, <1>1, <1>3
  <2> QED
    BY <1>8, <2>1, <2>2
<1>10. \A i, j \in 1..Len(p) : i # j => p[i].sym # p[j].sym
  <2> SUFFICES ASSUME NEW i \in 1..Len(p), NEW j \in 1..Len(p), i # j PROVE p[i].sym # p[j].sym
    OBVIOUS
  <2>1. CASE i \in 1..Len(q) /\ j \in 1..Len(q)
    BY <2>1, <1>3 DEF Picked
  <2>2. CASE i = Len(q) + 1
    BY <2>2, <1>3, <1>7, <1>8
  <2>3. CASE j = Len(q) + 1
    BY <2>3, <1>3, <1>7, <1>8
  <2> QED
    BY <1>8, <2>1, <2>2, <2>3
<1> QED
  BY <1>2, <1>6, <1>9, <1>10 DEF Picked

\* allocate answers with some of the ranked orders.
LEMMA AllocatedPicks ==
  ASSUME HeldTypes, NEW ranked \in Rankings
  PROVE  /\ Allocated(ranked) \in Seq(Order)
         /\ Picked(Allocated(ranked), ranked, Len(ranked))
<1>0. /\ ranked \in Seq(Order) /\ Len(ranked) \in Nat
      /\ \A i, j \in 1..Len(ranked) : ranked[i].sym = ranked[j].sym => i = j
  BY RankingType
<1> DEFINE n == Len(ranked)
           T == AllocationType
           b == Room(settled, Exposure, <<>>)
           step == [a \in T \X (1..n) |-> Allocate(a[1], ranked[a[2]])]
<1>1. n \in Nat /\ b \in T
  <2>1. <<>> \in Seq(Order)
    BY EmptySeq
  <2>2. Exposure \in Nat
    BY ExposureType
  <2> QED
    BY <1>0, <2>1, <2>2 DEF HeldTypes, Room, AllocationType
<1>2. \A a \in T, k \in 1..n : Allocate(a, ranked[k]) \in T
  <2> TAKE a \in T, k \in 1..n
  <2>1. ranked[k] \in Order
    BY <1>0, ElementOfSeq
  <2> QED
    BY <2>1, AllocateCases
<1>3. \A a \in T, k \in 1..n : step[<<a, k>>] = Allocate(a, ranked[k])
  OBVIOUS
<1>4. \E g : RunOf(g, T, b, n, step)
  <2>1. BodyOf(T, n, step)
    <3> HIDE DEF T, b, n, step
    <3> QED
      BY <1>2, <1>3 DEF BodyOf
  <2> HIDE DEF T, b, n, step
  <2> QED
    BY <1>1, <2>1, LoopExists
<1>5. PICK g : RunOf(g, T, b, n, step)
  BY <1>4
<1>6. g \in [0..n -> T] /\ g[0] = b /\ \A k \in 1..n : g[k] = step[<<g[k - 1], k>>]
  BY <1>5 DEF RunOf
<1> HIDE DEF T, b, n, step
<1>7. \A k \in 1..n : k - 1 \in 0..n /\ g[k - 1] \in T
  BY <1>1, <1>6
<1>8. \A k \in 1..n : g[k] = Allocate(g[k - 1], ranked[k])
  BY <1>3, <1>6, <1>7
<1>9. g = [k \in 0..n |-> IF k = 0 THEN b ELSE Allocate(g[k - 1], ranked[k])]
  BY <1>1, <1>6, <1>8
<1>10. \E h : h = [k \in 0..n |-> IF k = 0 THEN b ELSE Allocate(h[k - 1], ranked[k])]
  BY <1>9
<1>11. PICK m : m = Allocations(ranked)
  OBVIOUS
<1>12. m = [k \in 0..n |-> IF k = 0 THEN b ELSE Allocate(m[k - 1], ranked[k])]
  BY <1>10, <1>11 DEF Allocations, n, b
<1>13. m[0] = b /\ \A k \in 1..n : m[k] = Allocate(m[k - 1], ranked[k])
  BY <1>1, <1>12
<1> DEFINE S == {k \in 0..n : m[k] \in T}
<1>14. \A k \in 0..n : k \in S
  <2>1. 0 \in S
    BY <1>1, <1>13
  <2>2. ASSUME NEW k \in 0..n-1, k \in S PROVE k + 1 \in S
    <3>1. k + 1 \in 1..n /\ k + 1 \in 0..n /\ (k + 1) - 1 = k
      BY <1>1
    <3>2. m[k] \in T
      BY <2>2
    <3>3. m[k + 1] = Allocate(m[k], ranked[k + 1])
      BY <1>13, <3>1
    <3>4. Allocate(m[k], ranked[k + 1]) \in T
      BY <1>2, <3>1, <3>2
    <3> QED
      BY <3>1, <3>3, <3>4
  <2> HIDE DEF S
  <2> QED
    BY <1>1, <2>1, <2>2, CountUp
<1> DEFINE P == {k \in 0..n : Picked(m[k].accepted, ranked, k)}
<1>15. \A k \in 0..n : k \in P
  <2>1. 0 \in P
    <3>1. b.accepted = <<>> /\ Len(<<>>) = 0
      BY EmptySeq DEF b, Room
    <3>2. Picked(b.accepted, ranked, 0)
      BY <3>1 DEF Picked
    <3> QED
      BY <1>1, <1>13, <3>2
  <2>2. ASSUME NEW k \in 0..n-1, k \in P PROVE k + 1 \in P
    <3>1. k + 1 \in 1..n /\ k \in 0..n /\ k + 1 \in 0..n /\ (k + 1) - 1 = k
      BY <1>1
    <3>2. m[k] \in T /\ Picked(m[k].accepted, ranked, k)
      BY <1>14, <2>2, <3>1
    <3>3. m[k + 1] = Allocate(m[k], ranked[k + 1])
      BY <1>13, <3>1
    <3>4. m[k].accepted \in Seq(Order) /\ ranked[k + 1] \in Order
      BY <1>0, <3>1, <3>2, ElementOfSeq DEF T, AllocationType, n
    <3>5. m[k + 1] = m[k] \/ m[k + 1].accepted = Append(m[k].accepted, ranked[k + 1])
      BY <3>2, <3>3, <3>4, AllocateCases DEF T
    <3>6. /\ Picked(m[k].accepted, ranked, k + 1)
          /\ Picked(Append(m[k].accepted, ranked[k + 1]), ranked, k + 1)
      BY <1>0, <3>2, <3>4, PickedMore DEF n
    <3> QED
      BY <3>1, <3>5, <3>6
  <2> HIDE DEF P
  <2> QED
    BY <1>1, <2>1, <2>2, CountUp
<1>16. m[n].accepted \in Seq(Order) /\ Picked(m[n].accepted, ranked, n)
  BY <1>1, <1>14, <1>15 DEF T, AllocationType
<1> QED
  BY <1>11, <1>16 DEF n, Allocated
-----------------------------------------------------------------------------
(* The orders still to be reviewed would keep their position within its cap,   *)
(* whatever becomes of the orders before them: no two are for one symbol.      *)
QueueFits ==
  /\ \A i \in 1..Len(queue) :
       (Notional(queue[i].sym) + queue[i].qty * price[queue[i].sym]) * 100
         <= Equity * MaxPositionPct
  /\ \A i, j \in 1..Len(queue) : i # j => queue[i].sym # queue[j].sym

\* Between sessions nothing is queued or counted as bought.
Between == ~inSession => queue = <<>> /\ entered = {}

\* The inductive invariant.
FunnelInv == TypeOK /\ Between /\ QueueFits /\ CapsHold

\* What the loops need of the types.
LEMMA TypesHeld == ASSUME TypeOK PROVE HeldTypes
BY DEF TypeOK, HeldTypes, Worths, Partial

\* Positions and prices that stay, and cash that only settles, change no worth.
LEMMA Frame ==
  ASSUME pos' = pos, price' = price, (settled + unsettled)' = settled + unsettled
  PROVE  /\ Equity' = Equity /\ Exposure' = Exposure
         /\ \A s : Notional(s)' = Notional(s) /\ ThemeNotional(s)' = ThemeNotional(s)
<1>1. \A s : Notional(s)' = Notional(s)
  BY DEF Notional
<1>2. Notionals' = Notionals
  BY <1>1 DEF Notionals
<1>3. Exposure' = Exposure
  BY <1>2 DEF Exposure, Total
<1>4. \A s : ThemeNotional(s)' = ThemeNotional(s)
  BY <1>2 DEF ThemeNotional, Total, SameTheme
<1> QED
  BY <1>1, <1>3, <1>4 DEF Equity

\* q shares of s are paid for.
Buys(s, q, paid) ==
  /\ price' = price /\ unsettled' = unsettled
  /\ settled' = settled - paid /\ pos' = [pos EXCEPT ![s] = @ + q]

\* A purchase turns cash into a position at its price: equity stays, and the
\* position's worth and its theme's grow by what was paid.
LEMMA Purchase ==
  ASSUME HeldTypes, NEW s \in Sym, NEW q \in Nat, NEW paid \in Nat,
         paid = q * price[s], Buys(s, q, paid)
  PROVE  /\ Equity' = Equity
         /\ \A t \in Sym : Notional(t)' = IF t = s THEN Notional(t) + paid ELSE Notional(t)
         /\ \A t \in Sym : ThemeNotional(t)' =
              IF s \in SameTheme(t) THEN ThemeNotional(t) + paid ELSE ThemeNotional(t)
<1> USE DEF Buys
<1>1. /\ pos \in Worths /\ pos[s] \in Nat /\ price[s] \in Nat
      /\ settled \in Nat /\ unsettled \in Nat
  BY ValueType DEF HeldTypes, Worths
<1>2. \A t \in Sym : Notional(t)' = IF t = s THEN Notional(t) + paid ELSE Notional(t)
  <2> TAKE t \in Sym
  <2>1. CASE t = s
    <3>1. pos'[s] = pos[s] + q
      BY <1>1 DEF Worths
    <3>2. (pos[s] + q) * price[s] = pos[s] * price[s] + q * price[s]
      BY <1>1
    <3> QED
      BY <2>1, <3>1, <3>2 DEF Notional
  <2>2. CASE t # s
    BY <1>1, <2>2 DEF Notional, Worths
  <2> QED
    BY <2>1, <2>2
<1>3. PICK w : w = Notionals
  OBVIOUS
<1>4. PICK v : v = Notionals'
  OBVIOUS
<1>5. w \in Worths /\ v \in Worths
  <2>1. \A t \in Sym : Notional(t) \in Nat
    BY ExposureType
  <2>2. \A t \in Sym : Notional(t)' \in Nat
    BY <1>2, <2>1
  <2>3. v = [t \in Sym |-> Notional(t)']
    BY <1>4 DEF Notionals
  <2> QED
    BY <1>3, <2>2, <2>3, ExposureType DEF Worths
<1>6. /\ \A t \in Sym : w[t] = Notional(t)
      /\ \A t \in Sym : v[t] = Notional(t)'
  BY <1>3, <1>4 DEF Notionals
<1>7. OnlyAt(w, v, s) /\ v[s] = w[s] + paid /\ w[s] \in Nat
  BY <1>2, <1>5, <1>6 DEF OnlyAt, Worths
<1>8. \A S \in SUBSET Sym : Total(v, S) = IF s \in S THEN Total(w, S) + paid ELSE Total(w, S)
  <2> TAKE S \in SUBSET Sym
  <2>1. CASE s \in S
    <3>1. PICK k \in Nat : Total(w, S) = k + w[s] /\ Total(v, S) = k + v[s]
      BY <1>5, <1>7, <2>1, TotalChange
    <3> QED
      BY <1>7, <2>1, <3>1
  <2>2. CASE s \notin S
    <3>1. \A t \in S : v[t] = w[t]
      BY <1>7, <2>2 DEF OnlyAt
    <3> QED
      BY <2>2, <3>1, TotalSame
  <2> QED
    BY <2>1, <2>2
<1>9. Exposure = Total(w, Sym) /\ Exposure' = Total(v, Sym)
  BY <1>3, <1>4 DEF Exposure, Total
<1>10. Exposure' = Exposure + paid /\ Exposure \in Nat
  BY <1>8, <1>9, ExposureType
<1>11. Equity' = Equity
  BY <1>1, <1>10 DEF Equity
<1>12. \A t \in Sym : /\ SameTheme(t) \in SUBSET Sym
                      /\ ThemeNotional(t) = Total(w, SameTheme(t))
                      /\ ThemeNotional(t)' = Total(v, SameTheme(t))
  BY <1>3, <1>4 DEF SameTheme, ThemeNotional, Total
<1> QED
  BY <1>2, <1>8, <1>11, <1>12

-----------------------------------------------------------------------------
\* Equity and worths of a step that neither trades nor moves a price.
LEMMA QuietStep ==
  ASSUME FunnelInv, pos' = pos, price' = price,
         (settled + unsettled)' = settled + unsettled
  PROVE  /\ queue' = queue => QueueFits'
         /\ entered' = entered => CapsHold'
<1>1. /\ Equity' = Equity
      /\ \A s : Notional(s)' = Notional(s) /\ ThemeNotional(s)' = ThemeNotional(s)
  BY Frame
<1>2. queue' = queue => QueueFits'
  BY <1>1 DEF FunnelInv, QueueFits
<1>3. entered' = entered => CapsHold'
  BY <1>1 DEF FunnelInv, CapsHold
<1> QED
  BY <1>2, <1>3

\* Without orders and purchases the caps say nothing.
LEMMA NoEntries ==
  ASSUME NEW q, q = queue', q = <<>>, entered' = {}
  PROVE  QueueFits' /\ CapsHold'
<1>1. Len(q) = 0
  BY EmptySeq
<1> QED
  BY <1>1 DEF QueueFits, CapsHold

\* manage_open_positions sells no more than is held and overdraws nothing.
LEMMA StartStep ==
  ASSUME FunnelInv, NEW sold \in [Sym -> {0} \cup Qtys], SessionStart(sold)
  PROVE  FunnelInv'
<1>1. TypeOK /\ HeldTypes /\ queue = <<>> /\ entered = {}
  BY TypesHeld DEF FunnelInv, Between, SessionStart
<1>2. PICK r : r = Refills[Len(work)]
  OBVIOUS
<1>3. /\ r.cash \in Nat /\ r.pos \in Worths /\ r.work \in Seq(Partial)
      /\ \A s \in Sym : r.pos[s] >= pos[s] /\ r.pos[s] \in Nat
  BY <1>1, <1>2, Refilled DEF RestType, Worths
<1>4. \A s \in Sym : sold[s] \in Nat /\ sold[s] <= pos[s] /\ pos[s] \in Nat
  <2> TAKE s \in Sym
  <2>1. sold[s] \in {0} \cup Qtys /\ sold[s] <= pos[s]
    BY DEF SessionStart
  <2>2. sold[s] \in Nat
    BY <2>1, Sizes
  <2> QED
    BY <1>1, <2>1, <2>2 DEF HeldTypes, Worths
<1>5. \A s \in Sym : r.pos[s] - sold[s] \in Nat
  BY <1>3, <1>4
<1>6. settled' = r.cash /\ work' = r.work /\ pos' = [s \in Sym |-> r.pos[s] - sold[s]]
  BY <1>2 DEF SessionStart
<1>7. pos' \in [Sym -> Nat]
  BY <1>5, <1>6
<1>8. [s \in Sym |-> sold[s] * price[s]] \in Worths
  BY <1>1, <1>4, ValueType DEF Worths
<1>9. unsettled' \in Nat
  BY <1>1, <1>8, TotalType DEF SessionStart, HeldTypes
<1>10. TypeOK'
  BY <1>1, <1>3, <1>6, <1>7, <1>9 DEF SessionStart, TypeOK, Partial
<1>11. queue' = <<>> /\ entered' = {} /\ inSession' = TRUE
  BY <1>1 DEF SessionStart
<1> QED
  BY <1>10, <1>11, NoEntries DEF FunnelInv, Between

\* The plan's orders were sized one by one against what is held.
LEMMA PlanStep ==
  ASSUME FunnelInv, NEW ranked \in Rankings, Plan(ranked)
  PROVE  FunnelInv'
<1>1. TypeOK /\ HeldTypes /\ Equity \in Nat /\ hwm \in Nat
  BY TypesHeld, ExposureType DEF FunnelInv, TypeOK
<1>2. /\ Len(ranked) \in Nat /\ DOMAIN ranked = 1..Len(ranked)
      /\ \A i \in 1..Len(ranked) : Sized(ranked[i])
  BY RankingType DEF Plan
<1>3. PICK q : q = queue'
  OBVIOUS
<1>4. q \in Seq(Order) /\ Picked(q, ranked, Len(ranked))
  BY <1>1, <1>3, AllocatedPicks DEF Plan
<1>5. \A i \in 1..Len(q) : Sized(q[i])
  BY <1>2, <1>4 DEF Picked
<1>6. \A i \in 1..Len(q) :
        (Notional(q[i].sym) + q[i].qty * price[q[i].sym]) * 100 <= Equity * MaxPositionPct
  BY <1>5 DEF Sized
<1>7. \A i, j \in 1..Len(q) : i # j => q[i].sym # q[j].sym
  BY <1>4 DEF Picked
<1>8. /\ pos' = pos /\ price' = price /\ settled' = settled /\ unsettled' = unsettled
      /\ entered' = entered
  BY DEF Plan
<1>9. Equity' = Equity /\ \A s : Notional(s)' = Notional(s)
  BY <1>8, Frame
<1>10. QueueFits'
  BY <1>3, <1>6, <1>7, <1>8, <1>9 DEF QueueFits
<1>11. CapsHold'
  BY <1>8, QuietStep
<1>12. TypeOK'
  BY <1>1, <1>3, <1>4 DEF Plan, TypeOK, Mark, Order
<1>13. Between'
  BY DEF Plan, Between
<1> QED
  BY <1>10, <1>11, <1>12, <1>13 DEF FunnelInv

\* The head of the queue and what follows it.
LEMMA QueueHead ==
  ASSUME TypeOK, queue # <<>>
  PROVE  /\ Head(queue) = queue[1] /\ Head(queue).sym \in Sym /\ Head(queue).qty \in Nat
         /\ Tail(queue) \in Seq(Order) /\ Len(Tail(queue)) \in Nat
         /\ \A i \in 1..Len(Tail(queue)) : /\ i + 1 \in 1..Len(queue) /\ i + 1 # 1
                                           /\ Tail(queue)[i] = queue[i + 1]
                                           /\ Tail(queue)[i].sym \in Sym
         /\ 1 \in 1..Len(queue)
<1>1. queue \in Seq(Order)
  BY DEF TypeOK, Order
<1>2. /\ Head(queue) \in Order /\ Tail(queue) \in Seq(Order)
      /\ Len(queue) \in Nat /\ Len(Tail(queue)) = Len(queue) - 1
      /\ Head(queue) = queue[1]
      /\ \A i \in 1..Len(Tail(queue)) : Tail(queue)[i] = queue[i + 1]
  BY <1>1, HeadTailProperties, LenProperties
<1>3. Len(queue) > 0
  BY <1>1, EmptySeq, LenProperties
<1>4. \A i \in 1..Len(Tail(queue)) : Tail(queue)[i] \in Order
  BY <1>2, ElementOfSeq
<1>5. Head(queue).sym \in Sym /\ Head(queue).qty \in Qtys
  BY <1>2 DEF Order
<1>6. \A i \in 1..Len(Tail(queue)) : Tail(queue)[i].sym \in Sym
  BY <1>4 DEF Order
<1>7. Head(queue).qty \in Nat
  BY <1>5, Sizes
<1>8. \A i \in 1..Len(Tail(queue)) : i + 1 \in 1..Len(queue) /\ i + 1 # 1
  BY <1>2
<1>9. Len(Tail(queue)) \in Nat /\ 1 \in 1..Len(queue)
  BY <1>2, <1>3
<1> QED
  BY <1>2, <1>5, <1>6, <1>7, <1>8, <1>9

\* An order that is approved and bought, in whole or by half.
LEMMA BuyStep ==
  ASSUME FunnelInv, queue # <<>>, NEW market, NEW trouble,
         NEW o, o = Head(queue), Approved(Entry(o), View(market, trouble)),
         NEW q \in Nat, q <= o.qty,
         settled' = settled - q * price[o.sym], pos' = [pos EXCEPT ![o.sym] = @ + q],
         price' = price, unsettled' = unsettled, queue' = Tail(queue),
         entered' = entered \cup {o.sym}
  PROVE  settled' \in Nat /\ QueueFits' /\ CapsHold'
<1>1. TypeOK /\ HeldTypes /\ settled \in Nat
  BY TypesHeld DEF FunnelInv, TypeOK
<1>2. o = queue[1] /\ o.sym \in Sym /\ o.qty \in Nat /\ 1 \in 1..Len(queue)
  BY <1>1, QueueHead
<1>3. PICK s \in Sym : s = o.sym
  BY <1>2
<1>4. PICK value \in Nat : value = o.qty * price[s]
  BY <1>1, <1>2, <1>3, ValueType
<1>5. PICK paid \in Nat : paid = q * price[s]
  BY <1>1, <1>3, ValueType
<1>6. paid <= value
  <2>1. PICK px \in Nat : px = price[s]
    BY <1>1, <1>3, ValueType
  <2>2. PICK n \in Nat : n = o.qty
    BY <1>2
  <2>3. q <= n
    BY <2>2
  <2>4. \A j, k, l \in Nat : j <= k => j * l <= k * l
    OBVIOUS
  <2>5. q * px <= n * px
    BY <2>3, <2>4
  <2> QED
    BY <1>4, <1>5, <2>1, <2>2, <2>5
<1>7. value <= settled /\ (ThemeNotional(s) + value) * 100 <= Equity * MaxThemePct
  <2>1. PICK e : e = Entry(o)
    OBVIOUS
  <2>2. e.side = "BUY" /\ e.sym = s /\ e.qty * e.px = value
    BY <1>3, <1>4, <2>1 DEF Entry
  <2>3. PICK v : v = View(market, trouble)
    OBVIOUS
  <2>4. v.settled = settled /\ v.equity = Equity /\ v.theme[s] = ThemeNotional(s)
    BY <1>3, <2>3 DEF View
  <2>5. Approved(e, v)
    BY <2>1, <2>3
  <2> QED
    BY <2>2, <2>4, <2>5, ApprovedEntry
<1>8. (Notional(s) + value) * 100 <= Equity * MaxPositionPct
  BY <1>2, <1>3, <1>4 DEF FunnelInv, QueueFits
<1>9. settled' = settled - paid /\ Buys(s, q, paid)
  BY <1>3, <1>5 DEF Buys
<1>10. /\ Equity' = Equity
       /\ \A t \in Sym : Notional(t)' = IF t = s THEN Notional(t) + paid ELSE Notional(t)
       /\ \A t \in Sym : ThemeNotional(t)' =
            IF s \in SameTheme(t) THEN ThemeNotional(t) + paid ELSE ThemeNotional(t)
  BY <1>1, <1>3, <1>5, <1>9, Purchase
<1>11. /\ Equity \in Nat /\ Equity * MaxPositionPct \in Nat /\ Equity * MaxThemePct \in Nat
       /\ \A t \in Sym : Notional(t) \in Nat /\ ThemeNotional(t) \in Nat
  BY <1>1, ExposureType, Limits
<1>12. settled' \in Nat
  BY <1>1, <1>4, <1>5, <1>6, <1>7, <1>9
<1>13. QueueFits'
  <2>1. PICK p : p = Tail(queue)
    OBVIOUS
  <2>2. \A i \in 1..Len(p) : /\ i + 1 \in 1..Len(queue) /\ p[i] = queue[i + 1]
                             /\ p[i].sym \in Sym /\ p[i].sym # s
    BY <1>1, <1>2, <1>3, <2>1, QueueHead DEF FunnelInv, QueueFits
  <2>3. \A i \in 1..Len(p) : (Notional(p[i].sym) + p[i].qty * price[p[i].sym]) * 100
                                <= Equity * MaxPositionPct
    BY <2>2 DEF FunnelInv, QueueFits
  <2>4. \A i \in 1..Len(p) : Notional(p[i].sym)' = Notional(p[i].sym)
    BY <1>10, <2>2
  <2>5. \A i, j \in 1..Len(p) : i # j => p[i].sym # p[j].sym
    <3> SUFFICES ASSUME NEW i \in 1..Len(p), NEW j \in 1..Len(p), i # j
                 PROVE  p[i].sym # p[j].sym
      OBVIOUS
    <3>1. i + 1 # j + 1
      OBVIOUS
    <3> QED
      BY <2>2, <3>1 DEF FunnelInv, QueueFits
  <2> QED
    BY <1>10, <2>1, <2>3, <2>4, <2>5 DEF QueueFits
<1>14. CapsHold'
  <2> SUFFICES ASSUME NEW t \in entered \cup {s}
               PROVE  /\ Notional(t)' * 100 <= Equity * MaxPositionPct
                      /\ ThemeNotional(t)' * 100 <= Equity * MaxThemePct
    BY <1>3, <1>10 DEF CapsHold
  <2>1. t \in Sym
    BY <1>1, <1>3 DEF TypeOK
  <2>2. t # s => /\ Notional(t) * 100 <= Equity * MaxPositionPct
                 /\ ThemeNotional(t) * 100 <= Equity * MaxThemePct
    BY DEF FunnelInv, CapsHold
  <2>3. Notional(t)' * 100 <= Equity * MaxPositionPct
    <3>1. CASE t = s
      <4>1. PICK cap \in Nat : cap = Equity * MaxPositionPct
        BY <1>11
      <4>2. PICK held \in Nat : held = Notional(s)
        BY <1>11
      <4>3. Notional(t)' = held + paid
        BY <1>10, <3>1, <4>2
      <4>4. (held + value) * 100 <= cap
        BY <1>8, <4>1, <4>2
      <4>5. (held + paid) * 100 <= cap
        BY <1>6, <4>4
      <4> QED
        BY <4>1, <4>3, <4>5
    <3>2. CASE t # s
      BY <1>10, <2>1, <2>2, <3>2
    <3> QED
      BY <3>1, <3>2
  <2>4. ThemeNotional(t)' * 100 <= Equity * MaxThemePct
    <3>1. CASE s \in SameTheme(t)
      <4>1. SameTheme(t) = SameTheme(s)
        BY <3>1 DEF SameTheme
      <4>2. ThemeNotional(t) = ThemeNotional(s)
        BY <4>1 DEF ThemeNotional
      <4>3. PICK cap \in Nat : cap = Equity * MaxThemePct
        BY <1>11
      <4>4. PICK held \in Nat : held = ThemeNotional(s)
        BY <1>11
      <4>5. ThemeNotional(t)' = held + paid
        BY <1>10, <2>1, <3>1, <4>2, <4>4
      <4>6. (held + value) * 100 <= cap
        BY <1>7, <4>3, <4>4
      <4>7. (held + paid) * 100 <= cap
        BY <1>6, <4>6
      <4> QED
        BY <4>3, <4>5, <4>7
    <3>2. CASE s \notin SameTheme(t)
      <4>1. t # s
        BY <1>3, <3>2 DEF SameTheme
      <4> QED
        BY <1>10, <2>1, <2>2, <3>2, <4>1
    <3> QED
      BY <3>1, <3>2
  <2> QED
    BY <2>3, <2>4
<1> QED
  BY <1>12, <1>13, <1>14

\* One review, approved or not.
LEMMA ReviewStep ==
  ASSUME FunnelInv, NEW market, NEW trouble, ReviewNext(market, trouble)
  PROVE  FunnelInv'
<1>1. TypeOK /\ HeldTypes /\ Equity \in Nat /\ hwm \in Nat
  BY TypesHeld, ExposureType DEF FunnelInv, TypeOK
<1>2. PICK o : o = Head(queue)
  OBVIOUS
<1>3. /\ queue # <<>> /\ queue' = Tail(queue) /\ inSession /\ inSession' = inSession
      /\ hwm' = Mark /\ price' = price /\ unsettled' = unsettled /\ risk' = risk
      /\ moves' = moves
  BY DEF ReviewNext
<1>4. /\ o = queue[1] /\ o.sym \in Sym /\ o.qty \in Nat /\ Tail(queue) \in Seq(Order)
  BY <1>1, <1>2, <1>3, QueueHead
<1>5. hwm' \in Nat
  BY <1>1, <1>3 DEF Mark
<1>6. Between'
  BY <1>3 DEF Between
<1>7. CASE Approved(Entry(o), View(market, trouble))
  <2>1. PICK q \in {o.qty} \cup (IF o.qty % 2 = 0 THEN {o.qty \div 2} ELSE {}) :
          /\ settled' = settled - q * price[o.sym]
          /\ pos' = [pos EXCEPT ![o.sym] = @ + q]
          /\ work' = IF q = o.qty THEN work ELSE Append(work, [sym |-> o.sym, qty |-> o.qty - q])
          /\ entered' = entered \cup {o.sym}
    BY <1>2, <1>7 DEF ReviewNext
  <2>2. q \in Nat /\ q <= o.qty
    BY <1>4, <2>1
  <2>3. settled' \in Nat /\ QueueFits' /\ CapsHold'
    BY <1>2, <1>3, <1>7, <2>1, <2>2, BuyStep
  <2>4. pos' \in [Sym -> Nat]
    BY <1>1, <1>4, <2>1, <2>2 DEF TypeOK
  <2>5. work' \in Seq(Partial)
    <3>1. [sym |-> o.sym, qty |-> o.qty - q] \in Partial
      BY <1>4, <2>2 DEF Partial
    <3> QED
      BY <1>1, <2>1, <3>1, Appended DEF HeldTypes
  <2>6. entered' \subseteq Sym
    BY <1>1, <1>4, <2>1 DEF TypeOK
  <2>7. TypeOK'
    BY <1>1, <1>3, <1>4, <1>5, <2>3, <2>4, <2>5, <2>6 DEF TypeOK, Order, Partial
  <2> QED
    BY <1>6, <2>3, <2>7 DEF FunnelInv
<1>8. CASE ~Approved(Entry(o), View(market, trouble))
  <2>1. UNCHANGED <<settled, pos, work, entered>>
    BY <1>2, <1>8 DEF ReviewNext
  <2>2. CapsHold'
    BY <1>3, <2>1, QuietStep
  <2>3. TypeOK'
    BY <1>1, <1>3, <1>4, <1>5, <2>1 DEF TypeOK, Order
  <2>4. QueueFits'
    <3>1. Equity' = Equity /\ \A s : Notional(s)' = Notional(s)
      BY <1>3, <2>1, Frame
    <3>2. PICK p : p = Tail(queue)
      OBVIOUS
    <3>3. \A i \in 1..Len(p) : i + 1 \in 1..Len(queue) /\ p[i] = queue[i + 1]
      BY <1>1, <1>3, <3>2, QueueHead
    <3>4. \A i \in 1..Len(p) : (Notional(p[i].sym) + p[i].qty * price[p[i].sym]) * 100
                                  <= Equity * MaxPositionPct
      BY <3>3 DEF FunnelInv, QueueFits
    <3>5. \A i, j \in 1..Len(p) : i # j => p[i].sym # p[j].sym
      <4> SUFFICES ASSUME NEW i \in 1..Len(p), NEW j \in 1..Len(p), i # j
                   PROVE  p[i].sym # p[j].sym
        OBVIOUS
      <4>1. i + 1 # j + 1
        OBVIOUS
      <4> QED
        BY <3>3, <4>1 DEF FunnelInv, QueueFits
    <3> QED
      BY <1>3, <3>1, <3>2, <3>4, <3>5 DEF QueueFits
  <2> QED
    BY <1>6, <2>2, <2>3, <2>4 DEF FunnelInv
<1> QED
  BY <1>7, <1>8

\* The account opens within the invariant.
LEMMA FunnelInit == Init => FunnelInv
<1> SUFFICES ASSUME Init PROVE FunnelInv
  OBVIOUS
<1>1. queue = <<>> /\ Len(<<>>) = 0 /\ entered = {}
  BY EmptySeq DEF Init
<1>2. <<>> \in Seq(Partial) /\ <<>> \in Seq(Order)
  BY EmptySeq
<1>3. settled \in Nat /\ unsettled \in Nat /\ hwm \in Nat /\ moves \in 0..MaxMoves
  BY FunnelAssumption DEF Init
<1>4. TypeOK
  BY <1>1, <1>2, <1>3 DEF Init, TypeOK, Partial, Order, RiskState
<1> QED
  BY <1>1, <1>4 DEF FunnelInv, Between, QueueFits, CapsHold

\* Every step keeps the invariant.
LEMMA FunnelStep == FunnelInv /\ [Next]_vars => FunnelInv'
<1> SUFFICES ASSUME FunnelInv, [Next]_vars PROVE FunnelInv'
  OBVIOUS
<1>0. TypeOK /\ Between
  BY DEF FunnelInv
<1>1. ASSUME NEW sold \in [Sym -> {0} \cup Qtys], SessionStart(sold) PROVE FunnelInv'
  BY <1>1, StartStep
<1>2. ASSUME NEW r \in Rankings, Plan(r) PROVE FunnelInv'
  BY <1>2, PlanStep
<1>3. ASSUME NEW m, NEW x, ReviewNext(m, x) PROVE FunnelInv'
  BY <1>3, ReviewStep
<1>4. CASE SessionEnd
  <2>1. queue' = <<>> /\ entered' = {}
    BY <1>4 DEF SessionEnd
  <2>2. QueueFits' /\ CapsHold'
    BY <2>1, NoEntries
  <2>3. TypeOK' /\ Between'
    BY <1>0, <1>4 DEF SessionEnd, TypeOK, Between
  <2> QED
    BY <2>2, <2>3 DEF FunnelInv
<1>5. CASE Settle
  <2>1. queue' = <<>> /\ entered' = {}
    BY <1>0, <1>5 DEF Settle, Between
  <2>2. QueueFits' /\ CapsHold'
    BY <2>1, NoEntries
  <2>3. TypeOK' /\ Between'
    BY <1>0, <1>5 DEF Settle, TypeOK, Between
  <2> QED
    BY <2>2, <2>3 DEF FunnelInv
<1>6. CASE RebaseHighWaterMark
  <2>1. queue' = <<>> /\ entered' = {}
    BY <1>0, <1>6 DEF RebaseHighWaterMark, Between
  <2>2. QueueFits' /\ CapsHold'
    BY <2>1, NoEntries
  <2>3. TypeOK' /\ Between'
    BY <1>0, <1>6 DEF RebaseHighWaterMark, TypeOK, Between
  <2> QED
    BY <2>2, <2>3 DEF FunnelInv
<1>7. ASSUME NEW s \in Sym, NEW p \in Prices, PriceMove(s, p) PROVE FunnelInv'
  <2>1. queue' = <<>> /\ entered' = {}
    BY <1>0, <1>7 DEF PriceMove, Between
  <2>2. QueueFits' /\ CapsHold'
    BY <2>1, NoEntries
  <2>3. price' \in [Sym -> Prices]
    BY <1>0, <1>7 DEF PriceMove, TypeOK
  <2>4. moves' \in 0..MaxMoves
    BY <1>0, <1>7, FunnelAssumption DEF PriceMove, TypeOK
  <2>5. TypeOK' /\ Between'
    BY <1>0, <1>7, <2>3, <2>4 DEF PriceMove, TypeOK, Between
  <2> QED
    BY <2>2, <2>5 DEF FunnelInv
<1>8. ASSUME NEW s \in RiskStates, SetState(s) PROVE FunnelInv'
  <2>1. /\ pos' = pos /\ price' = price /\ (settled + unsettled)' = settled + unsettled
        /\ queue' = queue /\ entered' = entered
    BY <1>8 DEF SetState
  <2>2. QueueFits' /\ CapsHold'
    BY <2>1, QuietStep
  <2>3. s \in RiskState
    BY FunnelAssumption
  <2>4. TypeOK' /\ Between'
    BY <1>0, <1>8, <2>3 DEF SetState, TypeOK, Between
  <2> QED
    BY <2>2, <2>4 DEF FunnelInv
<1>9. CASE UNCHANGED vars
  <2>1. /\ pos' = pos /\ price' = price /\ (settled + unsettled)' = settled + unsettled
        /\ queue' = queue /\ entered' = entered
    BY <1>9 DEF vars
  <2>2. QueueFits' /\ CapsHold'
    BY <2>1, QuietStep
  <2>3. TypeOK' /\ Between'
    BY <1>0, <1>9 DEF vars, TypeOK, Between
  <2> QED
    BY <2>2, <2>3 DEF FunnelInv
<1> QED
  BY <1>1, <1>2, <1>3, <1>4, <1>5, <1>6, <1>7, <1>8, <1>9 DEF Next

\* The invariant holds in every state of the funnel.
LEMMA FunnelAlways == Spec => []FunnelInv
<1> QED
  BY FunnelInit, FunnelStep, PTL DEF Spec

-----------------------------------------------------------------------------
\* Cash is never overdrawn and no position sold short, through remainders, stops
\* and purchases (services/pipeline.py, packages/common/ledger.py).
THEOREM FunnelTyped == Spec => []TypeOK
<1>1. FunnelInv => TypeOK
  BY DEF FunnelInv
<1> QED
  BY <1>1, FunnelAlways, PTL

\* Sections 35 and 38: what a session has bought is within its caps, for any
\* number of candidates sized against the same room.
THEOREM CapsAreKept == Spec => []CapsHold
<1>1. FunnelInv => CapsHold
  BY DEF FunnelInv
<1> QED
  BY <1>1, FunnelAlways, PTL

\* INV-12: a protective exit is approved whatever else is wrong.
LEMMA ExitIsApproved == TypeOK => ExitStaysOpen
<1> SUFFICES ASSUME TypeOK, risk # "FULL_BROKER_DISCONNECT", NEW s \in Sym,
                    NEW m \in {"OPEN", "CLOSED"}
             PROVE  Approved(Exit(s), View(m, Trouble \ {"disconnected", "margin"}))
  BY DEF ExitStaysOpen
<1>1. PICK x : x = Trouble \ {"disconnected", "margin"}
  OBVIOUS
<1>2. "disconnected" \notin x /\ "margin" \notin x
  BY <1>1
<1>3. PICK o : o = Exit(s)
  OBVIOUS
<1>4. PICK v : v = View(m, x)
  OBVIOUS
<1>5. /\ o.side = "SELL" /\ o.protective = TRUE /\ o.known = FALSE /\ o.sym = s
      /\ o.qty = pos[s]
  BY <1>3 DEF Exit
<1>6. v.held = pos /\ v.state = risk /\ v.market = m /\ v.trouble = x
  BY <1>4 DEF View
<1>7. o.qty <= v.held[o.sym]
  BY <1>5, <1>6 DEF TypeOK
<1>8. Approved(o, v)
  BY <1>2, <1>5, <1>6, <1>7, ApprovedExit
<1> QED
  BY <1>1, <1>3, <1>4, <1>8

\* Under every MASTER STOP and every drawdown, what is held can be sold
\* (MasterRiskController.review).
THEOREM ExitsStayOpen == Spec => []ExitStaysOpen
<1>1. FunnelInv => ExitStaysOpen
  BY ExitIsApproved DEF FunnelInv
<1> QED
  BY <1>1, FunnelAlways, PTL

-----------------------------------------------------------------------------
\* The ladder looks at equity and the high-water mark only.
LEMMA LadderSees ==
  ASSUME NEW v, NEW w, v.equity = w.equity, v.hwm = w.hwm
  PROVE  ThrottleLevel(v) = ThrottleLevel(w)
BY DEF ThrottleLevel, DrawdownAtLeast

\* Positions of no shares have no worth.
LEMMA NothingHeld ==
  ASSUME NEW p, NEW x \in [Sym -> Prices], \A s \in Sym : p[s] = 0
  PROVE  Total([s \in Sym |-> p[s] * x[s]], Sym) = 0
<1>1. \A s \in Sym : x[s] \in Nat
  BY FunnelAssumption
<1>2. \A s \in Sym : [t \in Sym |-> p[t] * x[t]][s] = 0
  BY <1>1
<1> QED
  BY <1>2, TotalZero

\* An account that holds nothing has its cash for equity.
AllCash == (\A s \in Sym : pos[s] = 0) /\ work = <<>>

\* While an account is all cash and its mark stays, it stays locked.
LEMMA LockKept ==
  ASSUME TypeOK, Locked, AllCash', price' \in [Sym -> Prices],
         settled' + unsettled' = settled + unsettled, hwm' = hwm \/ hwm' = Mark
  PROVE  Locked'
<1>1. settled \in Nat /\ unsettled \in Nat /\ hwm \in Nat
  BY DEF TypeOK
<1>2. Exposure = 0
  BY NothingHeld DEF TypeOK, Locked, Exposure, Notionals, Notional
<1>3. Exposure' = 0
  <2>1. \A s \in Sym : pos'[s] = 0
    BY DEF AllCash
  <2>2. Exposure' = Total([s \in Sym |-> pos'[s] * price'[s]], Sym)
    BY DEF Exposure, Notionals, Notional, Total
  <2> QED
    BY <2>1, <2>2, NothingHeld
<1>4. Equity' = Equity /\ Equity \in Nat
  BY <1>1, <1>2, <1>3 DEF Equity
<1>5. Mark' = Mark
  BY <1>1, <1>4 DEF Mark
<1>6. PICK v : v = View("OPEN", {})
  OBVIOUS
<1>7. PICK w : w = View("OPEN", {})'
  OBVIOUS
<1>8. v.equity = w.equity /\ v.hwm = w.hwm
  BY <1>4, <1>5, <1>6, <1>7 DEF View
<1>9. ThrottleLevel(w) = ThrottleLevel(v)
  BY <1>8, LadderSees
<1>10. ThrottleLevel(View("OPEN", {}))' = ThrottleLevel(w)
  BY <1>7 DEF ThrottleLevel, DrawdownAtLeast
<1> QED
  BY <1>6, <1>9, <1>10 DEF Locked, AllCash

\* A locked account gets no entry approved.
LEMMA LockRefuses ==
  ASSUME Locked, NEW o, NEW market, NEW trouble
  PROVE  ~Approved(Entry(o), View(market, trouble))
<1>1. PICK v : v = View(market, trouble)
  OBVIOUS
<1>2. PICK w : w = View("OPEN", {})
  OBVIOUS
<1>3. v.equity = w.equity /\ v.hwm = w.hwm
  BY <1>1, <1>2 DEF View
<1>4. ThrottleLevel(v) \in {"NO_NEW_ENTRY", "REVIEW_SAFE_MODE"}
  BY <1>2, <1>3, LadderSees DEF Locked
<1>5. ~EntryAllowedByState(v)
  BY <1>4 DEF EntryAllowedByState
<1>6. PICK e : e = Entry(o)
  OBVIOUS
<1>7. e.side = "BUY"
  BY <1>6 DEF Entry
<1> QED
  BY <1>1, <1>5, <1>6, <1>7, ApprovedEntry

\* A session that starts without positions and remainders changes no account.
LEMMA IdleStart ==
  ASSUME TypeOK, AllCash, NEW sold \in [Sym -> {0} \cup Qtys], SessionStart(sold)
  PROVE  AllCash' /\ settled' + unsettled' = settled + unsettled
<1>1. HeldTypes /\ settled \in Nat /\ unsettled \in Nat
  BY TypesHeld DEF TypeOK
<1>2. \A s \in Sym : sold[s] = 0
  <2> TAKE s \in Sym
  <2>1. sold[s] \in Nat
    BY Sizes
  <2>2. sold[s] <= pos[s] /\ pos[s] = 0
    BY DEF SessionStart, AllCash
  <2> QED
    BY <2>1, <2>2
<1>3. Refills[Len(work)] = [cash |-> settled, pos |-> pos, work |-> <<>>]
  BY <1>1, Refilled DEF AllCash, Rest
<1>4. /\ settled' = settled /\ work' = <<>>
      /\ pos' = [s \in Sym |-> pos[s] - sold[s]]
  BY <1>3 DEF SessionStart
<1>5. \A s \in Sym : pos'[s] = 0
  BY <1>2, <1>4 DEF AllCash
<1>6. Total([s \in Sym |-> sold[s] * price[s]], Sym) = 0
  BY <1>2, NothingHeld DEF TypeOK
<1>7. unsettled' = unsettled
  BY <1>1, <1>6 DEF SessionStart
<1> QED
  BY <1>4, <1>5, <1>7 DEF AllCash

\* A step out of the lock lowers the high-water mark.
LEMMA LockStep ==
  FunnelInv /\ [Next]_vars => [Locked => Locked' \/ hwm' < hwm]_vars
<1> SUFFICES ASSUME FunnelInv, [Next]_vars, Locked PROVE Locked' \/ hwm' < hwm
  BY DEF vars
<1>0. TypeOK /\ AllCash /\ hwm \in Nat /\ settled \in Nat /\ unsettled \in Nat
      /\ price \in [Sym -> Prices]
  BY DEF FunnelInv, TypeOK, Locked, AllCash
<1>1. ASSUME NEW sold \in [Sym -> {0} \cup Qtys], SessionStart(sold) PROVE Locked'
  <2>1. AllCash' /\ settled' + unsettled' = settled + unsettled
    BY <1>0, <1>1, IdleStart
  <2>2. price' = price /\ hwm' = hwm
    BY <1>1 DEF SessionStart
  <2> QED
    BY <1>0, <2>1, <2>2, LockKept
<1>2. ASSUME NEW r \in Rankings, Plan(r) PROVE Locked'
  <2>1. /\ price' = price /\ hwm' = Mark /\ settled' = settled /\ unsettled' = unsettled
        /\ pos' = pos /\ work' = work
    BY <1>2 DEF Plan
  <2>2. AllCash'
    BY <1>0, <2>1 DEF AllCash
  <2> QED
    BY <1>0, <2>1, <2>2, LockKept
<1>3. ASSUME NEW m, NEW x, ReviewNext(m, x) PROVE Locked'
  <2>1. ~Approved(Entry(Head(queue)), View(m, x))
    BY LockRefuses
  <2>2. /\ price' = price /\ hwm' = Mark /\ settled' = settled /\ unsettled' = unsettled
        /\ pos' = pos /\ work' = work
    BY <1>3, <2>1 DEF ReviewNext
  <2>3. AllCash'
    BY <1>0, <2>2 DEF AllCash
  <2> QED
    BY <1>0, <2>2, <2>3, LockKept
<1>4. ASSUME SessionEnd \/ Settle \/ (\E s \in RiskStates : SetState(s)) \/ UNCHANGED vars
      PROVE  Locked'
  <2>1. /\ price' = price /\ hwm' = hwm /\ pos' = pos /\ work' = work
        /\ settled' + unsettled' = settled + unsettled
    BY <1>0, <1>4 DEF SessionEnd, Settle, SetState, vars
  <2>2. AllCash'
    BY <1>0, <2>1 DEF AllCash
  <2> QED
    BY <1>0, <2>1, <2>2, LockKept
<1>5. ASSUME NEW s \in Sym, NEW p \in Prices, PriceMove(s, p) PROVE Locked'
  <2>1. /\ hwm' = hwm /\ pos' = pos /\ work' = work /\ settled' = settled
        /\ unsettled' = unsettled /\ price' \in [Sym -> Prices]
    BY <1>0, <1>5 DEF PriceMove
  <2>2. AllCash'
    BY <1>0, <2>1 DEF AllCash
  <2> QED
    BY <1>0, <2>1, <2>2, LockKept
<1>6. CASE RebaseHighWaterMark
  <2>1. /\ price' = price /\ hwm' = settled + unsettled /\ settled' = settled
        /\ unsettled' = unsettled /\ pos' = pos /\ work' = work
    BY <1>6 DEF RebaseHighWaterMark
  <2>2. Exposure = 0
    BY <1>0, NothingHeld DEF AllCash, Exposure, Notionals, Notional
  <2>3. Equity = settled + unsettled
    BY <1>0, <2>2 DEF Equity
  <2>4. CASE hwm > Equity
    BY <1>0, <2>1, <2>3, <2>4
  <2>5. CASE ~(hwm > Equity)
    <3>1. hwm' = Mark
      BY <1>0, <2>1, <2>3, <2>5 DEF Mark
    <3>2. AllCash'
      BY <1>0, <2>1 DEF AllCash
    <3> QED
      BY <1>0, <2>1, <3>1, <3>2, LockKept
  <2> QED
    BY <2>4, <2>5
<1> QED
  BY <1>1, <1>2, <1>3, <1>4, <1>5, <1>6 DEF Next

\* Sections 5 and 39: no step but a human's rebase lets a throttled account that
\* holds nothing trade again.
THEOREM LockoutHolds == Spec => LockedUntilRebase
<1> QED
  BY FunnelAlways, LockStep, PTL DEF Spec, LockedUntilRebase
=============================================================================
