----------------------------- MODULE CellProofs -----------------------------
(***************************************************************************)
(* Proofs about the cells' capital: the match of a batch and the           *)
(* allocation of a fill compute what their reference definitions say;      *)
(* through crosses, partial fills, cancels and rebalances the cells differ *)
(* from the master ledger by the fills they refused, and a sale that       *)
(* claims what no other does is never refused.                             *)
(***************************************************************************)
EXTENDS MCCellAlgorithms, CellNetting, Counting, SequenceTheorems

-----------------------------------------------------------------------------
(* The arithmetic of the cells: the match.                                 *)

\* A list by position is a sequence.
LEMMA ListIs ==
  ASSUME NEW n \in Nat, NEW S, NEW f \in [1..n -> S]
  PROVE  f \in Seq(S) /\ Len(f) = n /\ DOMAIN f = 1..n
OBVIOUS

\* An entry of a list is lowered.
LEMMA Lowered ==
  ASSUME NEW n \in Nat, NEW f \in [1..n -> Nat], NEW i \in 1..n, NEW q \in Nat, q <= f[i],
         NEW g, g = [f EXCEPT ![i] = @ - q]
  PROVE  /\ g \in [1..n -> Nat] /\ g[i] = f[i] - q /\ (g[i] = 0 <=> f[i] = q)
         /\ \A k \in 1..n : k # i => g[k] = f[k]
<1>1. f[i] \in Nat /\ f[i] - q \in Nat
  OBVIOUS
<1> QED
  BY <1>1

\* What a match of n intents is about.
CrossOf(n) == [buyer: 1..n, seller: 1..n, qty: Nat]
MatchOf(n) == [bi: 1..n+1, si: 1..n+1, buys: [1..n -> Nat], sells: [1..n -> Nat],
               crosses: Seq(CrossOf(n))]

\* What both heads can cross.
HeadQty(m) == IF m.buys[m.bi] <= m.sells[m.si] THEN m.buys[m.bi] ELSE m.sells[m.si]
HeadCross(m) == [buyer |-> m.bi, seller |-> m.si, qty |-> HeadQty(m)]

\* A step that crosses q, field by field.
StepOf(n, m, w, q) ==
  /\ m.bi \in 1..n /\ m.si \in 1..n /\ q \in Nat
  /\ q <= m.buys[m.bi] /\ q <= m.sells[m.si]
  /\ q = m.buys[m.bi] \/ q = m.sells[m.si]
  /\ w.buys = [m.buys EXCEPT ![m.bi] = @ - q]
  /\ w.sells = [m.sells EXCEPT ![m.si] = @ - q]
  /\ w.bi = IF m.buys[m.bi] = q THEN m.bi + 1 ELSE m.bi
  /\ w.si = IF m.sells[m.si] = q THEN m.si + 1 ELSE m.si
  /\ w.crosses = IF q > 0 THEN Append(m.crosses, HeadCross(m)) ELSE m.crosses
  /\ w \in MatchOf(n)

\* A running match crosses what both heads can.
LEMMA StepIs ==
  ASSUME NEW n \in Nat, NEW m \in MatchOf(n), Running(m), NEW w, w = MatchStep(m), NEW q, q = HeadQty(m)
  PROVE  StepOf(n, m, w, q)
<1>1. m.bi \in 1..n+1 /\ m.si \in 1..n+1 /\ m.buys \in [1..n -> Nat] /\ m.sells \in [1..n -> Nat]
      /\ m.crosses \in Seq(CrossOf(n))
  BY DEF MatchOf
<1>2. Len(m.buys) = n /\ Len(m.sells) = n
  BY <1>1, ListIs
<1>3. m.bi \in 1..n /\ m.si \in 1..n
  BY <1>1, <1>2 DEF Running
<1>4. q = HeadQty(m) /\ w = MatchStep(m)
  OBVIOUS
<1>5. m.buys[m.bi] \in Nat /\ m.sells[m.si] \in Nat
  BY <1>1, <1>3
<1>6. /\ q \in Nat /\ q <= m.buys[m.bi] /\ q <= m.sells[m.si]
      /\ q = m.buys[m.bi] \/ q = m.sells[m.si]
  BY <1>4, <1>5 DEF HeadQty
<1>7. PICK b : b = [m.buys EXCEPT ![m.bi] = @ - q]
  OBVIOUS
<1>8. PICK s : s = [m.sells EXCEPT ![m.si] = @ - q]
  OBVIOUS
<1>9. b \in [1..n -> Nat] /\ (b[m.bi] = 0 <=> m.buys[m.bi] = q)
  <2>1. \A f \in [1..n -> Nat], i \in 1..n : q <= f[i] /\ b = [f EXCEPT ![i] = @ - q] =>
          b \in [1..n -> Nat] /\ (b[i] = 0 <=> f[i] = q)
    BY <1>6, Lowered
  <2> QED
    BY <1>1, <1>3, <1>6, <1>7, <2>1
<1>10. s \in [1..n -> Nat] /\ (s[m.si] = 0 <=> m.sells[m.si] = q)
  <2>1. \A f \in [1..n -> Nat], i \in 1..n : q <= f[i] /\ s = [f EXCEPT ![i] = @ - q] =>
          s \in [1..n -> Nat] /\ (s[i] = 0 <=> f[i] = q)
    BY <1>6, Lowered
  <2> QED
    BY <1>1, <1>3, <1>6, <1>8, <2>1
<1>11. PICK x : x = HeadCross(m)
  OBVIOUS
<1>12. x = [buyer |-> m.bi, seller |-> m.si, qty |-> q] /\ x \in CrossOf(n)
  BY <1>3, <1>4, <1>6, <1>11 DEF HeadCross, CrossOf
<1>13. w = [bi |-> IF b[m.bi] = 0 THEN m.bi + 1 ELSE m.bi,
            si |-> IF s[m.si] = 0 THEN m.si + 1 ELSE m.si,
            buys |-> b, sells |-> s,
            crosses |-> IF q > 0 THEN Append(m.crosses, x) ELSE m.crosses]
  BY <1>4, <1>7, <1>8, <1>12 DEF MatchStep, HeadQty
<1>14. (b[m.bi] = 0 <=> m.buys[m.bi] = q) /\ (s[m.si] = 0 <=> m.sells[m.si] = q)
  BY <1>9, <1>10
<1>15. PICK cs : cs = IF q > 0 THEN Append(m.crosses, x) ELSE m.crosses
  OBVIOUS
<1>16. cs \in Seq(CrossOf(n))
  BY <1>1, <1>12, <1>15, AppendProperties
<1>17. PICK bi : bi = IF m.buys[m.bi] = q THEN m.bi + 1 ELSE m.bi
  OBVIOUS
<1>18. PICK si : si = IF m.sells[m.si] = q THEN m.si + 1 ELSE m.si
  OBVIOUS
<1>19. bi \in 1..n+1 /\ si \in 1..n+1
  BY <1>3, <1>17, <1>18
<1>20. w = [bi |-> bi, si |-> si, buys |-> b, sells |-> s, crosses |-> cs]
  BY <1>13, <1>14, <1>15, <1>17, <1>18
<1>21. w \in MatchOf(n)
  <2>1. PICK F, S : F = [1..n -> Nat] /\ S = Seq(CrossOf(n))
    OBVIOUS
  <2>2. b \in F /\ s \in F /\ cs \in S
    BY <1>9, <1>10, <1>16, <2>1
  <2>3. MatchOf(n) = [bi: 1..n+1, si: 1..n+1, buys: F, sells: F, crosses: S]
    BY <2>1 DEF MatchOf
  <2> QED
    BY <1>19, <1>20, <2>2, <2>3
<1>22. w.bi = bi /\ w.si = si /\ w.buys = b /\ w.sells = s /\ w.crosses = cs
  BY <1>20
<1> QED
  BY <1>3, <1>6, <1>7, <1>8, <1>11, <1>15, <1>17, <1>18, <1>21, <1>22 DEF StepOf

\* What a step does to the crosses.
CrossesStep(m, w) ==
  w.crosses = IF HeadQty(m) > 0 THEN Append(m.crosses, HeadCross(m)) ELSE m.crosses

\* A step of a running match appends the cross of the two heads, if there is one.
LEMMA StepCrosses ==
  ASSUME NEW n \in Nat, NEW m \in MatchOf(n), Running(m), NEW w, w = MatchStep(m)
  PROVE  CrossesStep(m, w)
<1>1. PICK q : q = HeadQty(m)
  OBVIOUS
<1>2. StepOf(n, m, w, q)
  BY <1>1, StepIs
<1>3. w.crosses = IF q > 0 THEN Append(m.crosses, HeadCross(m)) ELSE m.crosses
  BY <1>2 DEF StepOf
<1> QED
  BY <1>1, <1>3 DEF CrossesStep

\* The rounds of a match.
RoundOf(m) == IF Running(m) THEN MatchStep(m) ELSE m

\* Matching is well defined: it starts with the two sides and goes on by rounds, each of
\* them a match of n intents.
LEMMA MatchRuns ==
  ASSUME NEW n \in Nat, NEW buys \in [1..n -> Nat], NEW sells \in [1..n -> Nat]
  PROVE  LET g == Matching(buys, sells)
         IN  /\ \A r \in 0..n+n : g[r] \in MatchOf(n)
             /\ g[0] = MatchStart(buys, sells)
             /\ \A r \in 1..n+n : g[r] = RoundOf(g[r - 1])
<1> DEFINE T == MatchOf(n)
           b == MatchStart(buys, sells)
           step == [a \in T \X (1..n+n) |-> RoundOf(a[1])]
<1>0. Len(buys) = n /\ Len(sells) = n /\ n + n \in Nat
  BY ListIs
<1>1. b \in T
  <2>1. <<>> \in Seq(CrossOf(n)) /\ 1 \in 1..n+1
    OBVIOUS
  <2> QED
    BY <2>1 DEF MatchStart, MatchOf
<1>2. \A a \in T : RoundOf(a) \in T
  <2> SUFFICES ASSUME NEW a \in MatchOf(n) PROVE RoundOf(a) \in MatchOf(n)
    OBVIOUS
  <2>1. ASSUME Running(a) PROVE MatchStep(a) \in MatchOf(n)
    <3>1. PICK w, q : w = MatchStep(a) /\ q = HeadQty(a)
      OBVIOUS
    <3>2. StepOf(n, a, w, q)
      BY <2>1, <3>1, StepIs
    <3> QED
      BY <3>1, <3>2 DEF StepOf
  <2> QED
    BY <2>1 DEF RoundOf
<1>3. \A a \in T, k \in 1..n+n : step[<<a, k>>] = RoundOf(a)
  OBVIOUS
<1>4. \E g : RunOf(g, T, b, n + n, step)
  <2>1. BodyOf(T, n + n, step)
    <3> HIDE DEF T, step
    <3> QED
      BY <1>2, <1>3 DEF BodyOf
  <2> HIDE DEF T, step, b
  <2> QED
    BY <1>0, <1>1, <2>1, LoopExists
<1>5. PICK g : RunOf(g, T, b, n + n, step)
  BY <1>4
<1>6. g \in [0..n+n -> T] /\ g[0] = b /\ \A k \in 1..n+n : g[k] = step[<<g[k - 1], k>>]
  BY <1>5 DEF RunOf
<1> HIDE DEF T, step, b
<1>7. \A k \in 1..n+n : k - 1 \in 0..n+n /\ g[k - 1] \in T
  BY <1>6
<1>8. \A k \in 1..n+n : g[k] = RoundOf(g[k - 1])
  BY <1>3, <1>6, <1>7
<1>9. g = [k \in 0..n+n |-> IF k = 0 THEN b ELSE RoundOf(g[k - 1])]
  BY <1>6, <1>8
<1>10. \E h : h = [k \in 0..n+n |-> IF k = 0 THEN b ELSE RoundOf(h[k - 1])]
  BY <1>9
<1>11. PICK m : m = Matching(buys, sells)
  OBVIOUS
<1>12. m = [k \in 0..n+n |-> IF k = 0 THEN b ELSE RoundOf(m[k - 1])]
  BY <1>0, <1>10, <1>11 DEF Matching, RoundOf, b
<1>13. m[0] = b /\ \A k \in 1..n+n : m[k] = RoundOf(m[k - 1])
  BY <1>12
<1> DEFINE S == {k \in 0..n+n : m[k] \in T}
<1>14. \A k \in 0..n+n : k \in S
  <2>1. 0 \in S
    BY <1>1, <1>13
  <2>2. ASSUME NEW k \in 0..(n+n)-1, k \in S PROVE k + 1 \in S
    <3>1. k + 1 \in 1..n+n /\ k + 1 \in 0..n+n /\ (k + 1) - 1 = k
      OBVIOUS
    <3>2. m[k] \in T /\ m[k + 1] = RoundOf(m[k])
      BY <1>13, <2>2, <3>1
    <3> QED
      BY <1>2, <3>1, <3>2
  <2> HIDE DEF S
  <2> QED
    BY <1>0, <2>1, <2>2, CountUp
<1>15. \A k \in 0..n+n : m[k] \in T
  BY <1>14
<1> QED
  BY <1>11, <1>13, <1>15 DEF T, b

-----------------------------------------------------------------------------
\* P has the ends of the stretches of list D.
EndsOf(n, D, P) ==
  /\ P \in [0..n -> Nat] /\ P[0] = 0
  /\ \A k \in 1..n : P[k] = P[k - 1] + D[k]
  /\ \A j, k \in 0..n : j <= k => P[j] <= P[k]

\* The partial sums of a list are the ends of its stretches.
LEMMA EndsExist ==
  ASSUME NEW n \in Nat, NEW D \in [1..n -> Nat], NEW P, P = [k \in 0..n |-> SumTo(D, k)]
  PROVE  EndsOf(n, D, P)
<1>1. IntsTo(D, n)
  BY DEF IntsTo
<1>2. P[0] = 0 /\ (\A k \in 0..n : P[k] \in Int) /\ \A k \in 1..n : P[k] = P[k - 1] + D[k]
  <2>1. /\ SumTo(D, 0) = 0
        /\ \A k \in 0..n : SumTo(D, k) \in Int
        /\ \A k \in 1..n : SumTo(D, k) = SumTo(D, k - 1) + D[k]
    BY <1>1, SumIs
  <2>2. 0 \in 0..n /\ \A k \in 1..n : k \in 0..n /\ k - 1 \in 0..n
    OBVIOUS
  <2>3. \A k \in 0..n : P[k] = SumTo(D, k)
    OBVIOUS
  <2> QED
    BY <2>1, <2>2, <2>3
<1> DEFINE S == {k \in 0..n : P[k] \in Nat /\ \A j \in 0..k : P[j] <= P[k]}
<1>3. 0 \in S
  BY <1>2
<1>4. ASSUME NEW k \in 0..n-1, k \in S PROVE k + 1 \in S
  <2>1. k + 1 \in 1..n /\ k + 1 \in 0..n /\ (k + 1) - 1 = k /\ D[k + 1] \in Nat
    OBVIOUS
  <2>2. P[k + 1] = P[k] + D[k + 1] /\ P[k] \in Nat /\ \A j \in 0..k : P[j] <= P[k]
    BY <1>2, <1>4, <2>1
  <2>3. P[k + 1] \in Nat /\ P[k] <= P[k + 1]
    BY <2>1, <2>2
  <2>4. ASSUME NEW j \in 0..k+1 PROVE P[j] <= P[k + 1]
    <3>1. P[j] \in Int
      BY <1>2, <2>1
    <3>2. CASE j \in 0..k
      <4>1. P[j] <= P[k]
        BY <2>2, <3>2
      <4>2. P[k] \in Int /\ P[k + 1] \in Int
        BY <2>2, <2>3
      <4> QED
        BY <2>3, <3>1, <4>1, <4>2
    <3> QED
      BY <2>3, <3>2
  <2> QED
    BY <2>1, <2>3, <2>4
<1>5. \A k \in 0..n : k \in S
  <2> HIDE DEF S
  <2> QED
    BY <1>3, <1>4, CountUp
<1>6. P \in [0..n -> Nat]
  BY <1>5
<1>7. ASSUME NEW j \in 0..n, NEW k \in 0..n, j <= k PROVE P[j] <= P[k]
  <2>1. j \in 0..k
    BY <1>7
  <2>2. k \in S
    <3> HIDE DEF S
    <3> QED
      BY <1>5
  <2>3. \A i \in 0..k : P[i] <= P[k]
    BY <2>2
  <2> QED
    BY <2>1, <2>3
<1> QED
  BY <1>2, <1>6, <1>7 DEF EndsOf

\* Where the stretches of buy i and sell j begin and cease to overlap.
LineStart(P, Q, i, j) == IF P[i - 1] >= Q[j - 1] THEN P[i - 1] ELSE Q[j - 1]
LineEnd(P, Q, i, j)   == IF P[i] <= Q[j] THEN P[i] ELSE Q[j]

\* One side of a match that has come to t on the line: entries before the pointer are
\* done, those behind it untouched.
SideInv(n, P, D, ptr, left, t) ==
  /\ t <= P[n]
  /\ \A k \in 1..n : /\ k < ptr => left[k] = 0
                     /\ k > ptr => left[k] = D[k]
                     /\ k = ptr => left[k] = P[k] - t

\* The crosses so far are the overlaps that begin before t, in order.
AreOverlaps(P, Q, crosses, t) ==
  \A x \in DOMAIN crosses :
    LET c == crosses[x]
    IN  /\ c.qty > 0 /\ c.qty = LineEnd(P, Q, c.buyer, c.seller) - LineStart(P, Q, c.buyer, c.seller)
        /\ LineStart(P, Q, c.buyer, c.seller) < t
AllOverlaps(n, P, Q, crosses, t) ==
  \A i, j \in 1..n : LineStart(P, Q, i, j) < t /\ LineStart(P, Q, i, j) < LineEnd(P, Q, i, j) =>
    \E x \in DOMAIN crosses : crosses[x].buyer = i /\ crosses[x].seller = j
InOrder(crosses) == \A x, y \in DOMAIN crosses : x < y => Before(crosses[x], crosses[y])
CrossInv(n, P, Q, crosses, t) ==
  AreOverlaps(P, Q, crosses, t) /\ AllOverlaps(n, P, Q, crosses, t) /\ InOrder(crosses)

\* The match has come to the later of the two pointers' stretches.
Reached(P, Q, m) == LineStart(P, Q, m.bi, m.si)

MatchInv(n, P, Q, D, E, m) ==
  /\ m \in MatchOf(n)
  /\ SideInv(n, P, D, m.bi, m.buys, Reached(P, Q, m))
  /\ SideInv(n, Q, E, m.si, m.sells, Reached(P, Q, m))
  /\ CrossInv(n, P, Q, m.crosses, Reached(P, Q, m))

\* One side of a step: q is taken from the head, and a head that is done is left.
TakesFrom(left, ptr, q, after, new) ==
  /\ q <= left[ptr] /\ after = [left EXCEPT ![ptr] = @ - q]
  /\ new = IF left[ptr] = q THEN ptr + 1 ELSE ptr

SideAt(n, P, D, ptr, left, t, q) ==
  /\ D \in [1..n -> Nat] /\ EndsOf(n, D, P) /\ ptr \in 1..n /\ left \in [1..n -> Nat]
  /\ t \in Nat /\ q \in Nat /\ SideInv(n, P, D, ptr, left, t) /\ P[ptr - 1] <= t

\* Taking q from the head of a side moves the point reached along its line by q.
LEMMA SideStep ==
  ASSUME NEW n \in Nat, NEW D, NEW P, NEW ptr \in 1..n, NEW left, NEW t \in Nat, NEW q \in Nat,
         NEW after, NEW new \in 1..n+1,
         SideAt(n, P, D, ptr, left, t, q), TakesFrom(left, ptr, q, after, new)
  PROVE  SideInv(n, P, D, new, after, t + q) /\ P[new - 1] <= t + q /\ (new = ptr + 1 => t + q <= P[new - 1])
<1> D \in [1..n -> Nat] /\ EndsOf(n, D, P) /\ ptr \in 1..n /\ left \in [1..n -> Nat]
  BY DEF SideAt
<1> t \in Nat /\ q \in Nat /\ SideInv(n, P, D, ptr, left, t) /\ P[ptr - 1] <= t
  BY DEF SideAt
<1>0. q <= left[ptr] /\ after = [left EXCEPT ![ptr] = @ - q]
  BY DEF TakesFrom
<1>n. new = IF left[ptr] = q THEN ptr + 1 ELSE ptr
  BY DEF TakesFrom
<1>1. left[ptr] = P[ptr] - t /\ P[ptr] \in Nat /\ P[n] \in Nat /\ P[ptr] <= P[n] /\ P[ptr - 1] \in Nat
  BY DEF SideInv, EndsOf
<1>2. t + q <= P[ptr]
  BY <1>0, <1>1
<1>3. after \in [1..n -> Nat] /\ after[ptr] = left[ptr] - q /\ \A k \in 1..n : k # ptr => after[k] = left[k]
  BY <1>0, Lowered
<1>4. CASE left[ptr] = q
  <2>1. new = ptr + 1 /\ new - 1 = ptr /\ P[ptr] = t + q /\ after[ptr] = 0
    <3>1. new = ptr + 1 /\ new - 1 = ptr
      BY <1>n, <1>4
    <3>2. P[ptr] = t + q
      <4>1. \A x \in Nat : x - t = q => x = t + q
        OBVIOUS
      <4> QED
        BY <1>1, <1>4, <4>1
    <3>3. after[ptr] = 0
      <4>1. q - q = 0 /\ after[ptr] = left[ptr] - q
        BY <1>3
      <4> QED
        BY <1>4, <4>1
    <3> QED
      BY <3>1, <3>2, <3>3
  <2>2. ASSUME NEW k \in 1..n
        PROVE  /\ k < new => after[k] = 0
               /\ k > new => after[k] = D[k]
               /\ k = new => after[k] = P[k] - (t + q)
    <3>1. CASE k = ptr
      BY <2>1, <3>1
    <3>2. CASE k < ptr
      BY <1>3, <2>1, <3>2 DEF SideInv
    <3>3. CASE k > ptr
      <4>1. after[k] = D[k]
        BY <1>3, <3>3 DEF SideInv
      <4>2. k = new => k - 1 = ptr
        BY <2>1
      <4>3. P[k] = P[k - 1] + D[k] /\ D[k] \in Nat
        BY DEF EndsOf
      <4> QED
        <5>1. CASE k = new
          <6>1. P[k - 1] = t + q /\ P[k] = P[k - 1] + D[k]
            BY <2>1, <4>2, <4>3, <5>1
          <6>2. P[k] - (t + q) = D[k]
            BY <4>3, <6>1
          <6> QED
            BY <4>1, <5>1, <6>2
        <5>2. CASE k # new
          BY <2>1, <3>3, <4>1, <5>2
        <5> QED
          BY <5>1, <5>2
    <3> QED
      BY <3>1, <3>2, <3>3
  <2> QED
    BY <1>1, <1>2, <2>1, <2>2 DEF SideInv
<1>5. CASE left[ptr] # q
  <2>1. new = ptr /\ after[ptr] = P[ptr] - (t + q)
    <3>1. new = ptr
      BY <1>n, <1>5
    <3>2. \A x \in Nat : (x - t) - q = x - (t + q)
      OBVIOUS
    <3> QED
      BY <1>1, <1>3, <3>1, <3>2
  <2>2. \A k \in 1..n : /\ k < new => after[k] = 0
                        /\ k > new => after[k] = D[k]
    <3>1. \A k \in 1..n : /\ k < ptr => left[k] = 0
                          /\ k > ptr => left[k] = D[k]
      BY DEF SideInv
    <3>2. \A k \in 1..n : k < ptr \/ k > ptr => k # ptr
      OBVIOUS
    <3> QED
      BY <1>3, <2>1, <3>1, <3>2
  <2> QED
    <3>1. \A k \in 1..n : k = new => after[k] = P[k] - (t + q)
      BY <2>1
    <3>2. t + q <= P[n]
      <4>1. \A x, y \in Nat : t + q <= x /\ x <= y => t + q <= y
        OBVIOUS
      <4> QED
        BY <1>1, <1>2, <4>1
    <3>3. SideInv(n, P, D, new, after, t + q)
      BY <2>2, <3>1, <3>2 DEF SideInv
    <3>4. P[new - 1] <= t + q
      BY <1>1, <2>1
    <3> QED
      BY <2>1, <3>3, <3>4
<1> QED
  BY <1>4, <1>5


\* The stretch from t to u lies in that of ptr, the one from s to e in that of i, and s is
\* between t and u: then i is ptr.
Meets(P, ptr, t, u, i, s, e) ==
  /\ P[ptr - 1] <= t /\ t < u /\ u <= P[ptr]
  /\ P[i - 1] <= s /\ s < e /\ e <= P[i]
  /\ t <= s /\ s < u
\* No other stretch meets the one of the head there.
LEMMA HeadsOnly ==
  ASSUME NEW n \in Nat, NEW D \in [1..n -> Nat], NEW P, EndsOf(n, D, P), NEW ptr \in 1..n,
         NEW t \in Nat, NEW u \in Nat, NEW i \in 1..n, NEW s \in Nat, NEW e \in Nat,
         Meets(P, ptr, t, u, i, s, e)
  PROVE  i = ptr
<1>1. P[i - 1] \in Nat /\ P[i] \in Nat /\ P[ptr] \in Nat /\ P[ptr - 1] \in Nat
  BY DEF EndsOf
<1>2. ~(i < ptr)
  <2> SUFFICES ASSUME i < ptr PROVE FALSE
    OBVIOUS
  <2>1. i \in 0..n /\ ptr - 1 \in 0..n /\ i <= ptr - 1
    OBVIOUS
  <2>2. P[i] <= P[ptr - 1]
    BY <2>1 DEF EndsOf
  <2> QED
    BY <1>1, <2>2 DEF Meets
<1>3. ~(i > ptr)
  <2> SUFFICES ASSUME i > ptr PROVE FALSE
    OBVIOUS
  <2>1. ptr \in 0..n /\ i - 1 \in 0..n /\ ptr <= i - 1
    OBVIOUS
  <2>2. P[ptr] <= P[i - 1]
    BY <2>1 DEF EndsOf
  <2> QED
    BY <1>1, <2>2 DEF Meets
<1> QED
  BY <1>2, <1>3

\* An overlap that begins before t is of intents up to the head.
LEMMA EarlierHeads ==
  ASSUME NEW n \in Nat, NEW D \in [1..n -> Nat], NEW P, EndsOf(n, D, P), NEW ptr \in 1..n,
         NEW t \in Nat, t < P[ptr], NEW i \in 1..n, NEW s \in Nat, P[i - 1] <= s, s < t
  PROVE  i <= ptr
<1> SUFFICES ASSUME i > ptr PROVE FALSE
  OBVIOUS
<1>1. P[i - 1] \in Nat /\ P[ptr] \in Nat
  BY DEF EndsOf
<1>2. ptr \in 0..n /\ i - 1 \in 0..n /\ ptr <= i - 1
  OBVIOUS
<1>3. P[ptr] <= P[i - 1]
  BY <1>2 DEF EndsOf
<1> QED
  BY <1>1, <1>3

\* The overlap of two stretches begins at one of their starts and ends at one of their ends.
StartOf(P, Q, i, j) ==
  /\ P[i - 1] \in Nat /\ Q[j - 1] \in Nat /\ LineStart(P, Q, i, j) \in Nat
  /\ P[i - 1] <= LineStart(P, Q, i, j) /\ Q[j - 1] <= LineStart(P, Q, i, j)
  /\ LineStart(P, Q, i, j) = P[i - 1] \/ LineStart(P, Q, i, j) = Q[j - 1]
EndOf(P, Q, i, j) ==
  /\ P[i] \in Nat /\ Q[j] \in Nat /\ LineEnd(P, Q, i, j) \in Nat
  /\ LineEnd(P, Q, i, j) <= P[i] /\ LineEnd(P, Q, i, j) <= Q[j]
  /\ LineEnd(P, Q, i, j) = P[i] \/ LineEnd(P, Q, i, j) = Q[j]

\* The starts of overlaps; a pointer may be behind the last stretch.
LEMMA StartIs ==
  ASSUME NEW n \in Nat, NEW D, NEW E, NEW P, NEW Q, EndsOf(n, D, P), EndsOf(n, E, Q),
         NEW i \in 1..n+1, NEW j \in 1..n+1
  PROVE  StartOf(P, Q, i, j)
<1>1. P[i - 1] \in Nat /\ Q[j - 1] \in Nat
  BY DEF EndsOf
<1> QED
  BY <1>1 DEF StartOf, LineStart

\* The ends of overlaps.
LEMMA EndIs ==
  ASSUME NEW n \in Nat, NEW D, NEW E, NEW P, NEW Q, EndsOf(n, D, P), EndsOf(n, E, Q),
         NEW i \in 1..n, NEW j \in 1..n
  PROVE  EndOf(P, Q, i, j)
<1>1. P[i] \in Nat /\ Q[j] \in Nat
  BY DEF EndsOf
<1> QED
  BY <1>1 DEF EndOf, LineEnd

\* One more cross.
OneMore(n, old, new, l, bi, si, q) ==
  /\ DOMAIN old = 1..l /\ DOMAIN new = 1..l+1
  /\ \A x \in 1..l : /\ new[x] = old[x] /\ old[x].buyer \in 1..n /\ old[x].seller \in 1..n
                     /\ old[x].qty \in Nat
  /\ new[l + 1].buyer = bi /\ new[l + 1].seller = si /\ new[l + 1].qty = q

\* A cross of the heads is the next overlap.
LEMMA CrossStep ==
  ASSUME NEW n \in Nat, NEW D \in [1..n -> Nat], NEW E \in [1..n -> Nat], NEW P, NEW Q,
         EndsOf(n, D, P), EndsOf(n, E, Q), NEW bi \in 1..n, NEW si \in 1..n,
         NEW t \in Nat, t = LineStart(P, Q, bi, si), NEW q \in Nat, q > 0,
         t + q <= P[bi], t + q <= Q[si], t + q = P[bi] \/ t + q = Q[si],
         NEW old, NEW new, NEW l \in Nat, CrossInv(n, P, Q, old, t), OneMore(n, old, new, l, bi, si, q)
  PROVE  CrossInv(n, P, Q, new, t + q)
<1> DEFINE Start(i, j) == LineStart(P, Q, i, j)
           End(i, j)   == LineEnd(P, Q, i, j)
<1>1. /\ \A i, j \in 1..n : /\ Start(i, j) \in Nat /\ P[i - 1] <= Start(i, j) /\ Q[j - 1] <= Start(i, j)
                            /\ End(i, j) \in Nat /\ End(i, j) <= P[i] /\ End(i, j) <= Q[j]
                            /\ P[i] \in Nat /\ Q[j] \in Nat
      /\ End(bi, si) = P[bi] \/ End(bi, si) = Q[si]
  <2>1. ASSUME NEW i \in 1..n, NEW j \in 1..n PROVE StartOf(P, Q, i, j) /\ EndOf(P, Q, i, j)
    <3>1. i \in 1..n+1 /\ j \in 1..n+1
      OBVIOUS
    <3> QED
      BY <3>1, StartIs, EndIs
  <2>2. \A i, j \in 1..n : /\ Start(i, j) \in Nat /\ P[i - 1] <= Start(i, j)
                          /\ Q[j - 1] <= Start(i, j)
    BY <2>1 DEF StartOf
  <2>3. \A i, j \in 1..n : /\ End(i, j) \in Nat /\ End(i, j) <= P[i] /\ End(i, j) <= Q[j]
                          /\ P[i] \in Nat /\ Q[j] \in Nat
    BY <2>1 DEF EndOf
  <2>4. End(bi, si) = P[bi] \/ End(bi, si) = Q[si]
    BY <2>1 DEF EndOf
  <2> HIDE DEF Start, End
  <2> QED
    BY <2>2, <2>3, <2>4
<1>2. t \in Nat /\ P[bi - 1] <= t /\ Q[si - 1] <= t /\ t = Start(bi, si)
  BY <1>1
<1>a. /\ End(bi, si) \in Nat /\ End(bi, si) <= P[bi] /\ End(bi, si) <= Q[si]
      /\ P[bi] \in Nat /\ Q[si] \in Nat
  BY <1>1
<1>3. End(bi, si) = t + q
  <2>1. \A e, x, y, u \in Nat : /\ e <= x /\ e <= y /\ (e = x \/ e = y) /\ u <= x /\ u <= y
                               /\ (u = x \/ u = y) => e = u
    OBVIOUS
  <2>2. t + q \in Nat
    OBVIOUS
  <2> HIDE DEF End
  <2> QED
    BY <1>1, <1>a, <2>1, <2>2
<1>4. DOMAIN old = 1..l
  BY DEF OneMore
<1>5. DOMAIN new = 1..l+1 /\ \A x \in 1..l : new[x] = old[x]
  BY DEF OneMore
<1>6. new[l + 1].buyer = bi /\ new[l + 1].seller = si /\ new[l + 1].qty = q
  BY DEF OneMore
<1>7. \A x \in 1..l : old[x].buyer \in 1..n /\ old[x].seller \in 1..n /\ old[x].qty \in Nat
  BY DEF OneMore
<1>8. \A x \in 1..l : /\ old[x].qty > 0
                      /\ old[x].qty = End(old[x].buyer, old[x].seller) - Start(old[x].buyer, old[x].seller)
                      /\ Start(old[x].buyer, old[x].seller) < t
  BY <1>4 DEF CrossInv, AreOverlaps
<1>9. \A i, j \in 1..n : Start(i, j) < t /\ Start(i, j) < End(i, j) =>
        \E x \in 1..l : old[x].buyer = i /\ old[x].seller = j
  <2>1. \A i, j \in 1..n : Start(i, j) < t /\ Start(i, j) < End(i, j) =>
          \E x \in DOMAIN old : old[x].buyer = i /\ old[x].seller = j
    BY DEF CrossInv, AllOverlaps
  <2> HIDE DEF Start, End
  <2> SUFFICES ASSUME NEW i \in 1..n, NEW j \in 1..n, Start(i, j) < t, Start(i, j) < End(i, j)
               PROVE  \E x \in 1..l : old[x].buyer = i /\ old[x].seller = j
    OBVIOUS
  <2>2. PICK x \in DOMAIN old : old[x].buyer = i /\ old[x].seller = j
    BY <2>1
  <2> QED
    BY <1>4, <2>2
<1>10. \A x, y \in 1..l : x < y => Before(old[x], old[y])
  BY <1>4 DEF CrossInv, InOrder
<1> HIDE DEF Start, End
<1>11. ASSUME NEW x \in 1..l+1
       PROVE  /\ new[x].qty > 0
              /\ new[x].qty = End(new[x].buyer, new[x].seller) - Start(new[x].buyer, new[x].seller)
              /\ Start(new[x].buyer, new[x].seller) < t + q
  <2>1. CASE x = l + 1
    <3>1. new[x].buyer = bi /\ new[x].seller = si /\ new[x].qty = q
      BY <1>6, <2>1
    <3>2. q = End(bi, si) - Start(bi, si) /\ Start(bi, si) < t + q
      <4>1. q = (t + q) - t /\ t < t + q
        OBVIOUS
      <4>2. Start(bi, si) = t
        BY <1>2
      <4> QED
        BY <1>3, <4>1, <4>2
    <3> QED
      BY <3>1, <3>2
  <2>2. CASE x \in 1..l
    <3>1. PICK b \in 1..n, s \in 1..n : b = old[x].buyer /\ s = old[x].seller /\ new[x] = old[x]
      BY <1>5, <1>7, <2>2
    <3>2. old[x].qty > 0 /\ old[x].qty = End(b, s) - Start(b, s) /\ Start(b, s) < t
      BY <1>8, <2>2, <3>1
    <3>3. Start(b, s) < t + q
      <4>1. Start(b, s) \in Nat
        BY <1>1
      <4>2. \A u \in Nat : u < t => u < t + q
        OBVIOUS
      <4> QED
        BY <3>2, <4>1, <4>2
    <3> QED
      BY <3>1, <3>2, <3>3
  <2> QED
    BY <2>1, <2>2
<1>12. ASSUME NEW i \in 1..n, NEW j \in 1..n, Start(i, j) < t + q, Start(i, j) < End(i, j)
       PROVE  \E x \in 1..l+1 : new[x].buyer = i /\ new[x].seller = j
  <2>1. CASE Start(i, j) < t
    <3>1. PICK x \in 1..l : old[x].buyer = i /\ old[x].seller = j
      BY <1>9, <1>12, <2>1
    <3>2. x \in 1..l+1 /\ new[x] = old[x]
      BY <1>5
    <3> QED
      BY <3>1, <3>2
  <2>2. CASE t <= Start(i, j)
    <3>1. PICK s \in Nat, e \in Nat, u \in Nat : s = Start(i, j) /\ e = End(i, j) /\ u = t + q
      BY <1>1, <1>2
    <3>2. /\ P[i - 1] <= s /\ Q[j - 1] <= s /\ e <= P[i] /\ e <= Q[j]
          /\ s < u /\ s < e /\ t <= s /\ t < u /\ u <= P[bi] /\ u <= Q[si]
      <4>1. P[i - 1] <= s /\ Q[j - 1] <= s /\ e <= P[i] /\ e <= Q[j]
        BY <1>1, <3>1
      <4>2. s < u /\ s < e /\ t <= s
        BY <1>12, <2>2, <3>1
      <4>3. t < u /\ u <= P[bi] /\ u <= Q[si]
        BY <3>1
      <4> QED
        BY <4>1, <4>2, <4>3
    <3>3. i = bi
      <4>1. Meets(P, bi, t, u, i, s, e)
        BY <1>2, <3>2 DEF Meets
      <4> QED
        BY <4>1, HeadsOnly
    <3>4. j = si
      <4>1. Meets(Q, si, t, u, j, s, e)
        BY <1>2, <3>2 DEF Meets
      <4> QED
        BY <4>1, HeadsOnly
    <3>5. l + 1 \in 1..l+1
      OBVIOUS
    <3> QED
      BY <1>5, <1>6, <3>3, <3>4, <3>5
  <2>3. Start(i, j) \in Nat
    BY <1>1
  <2> QED
    BY <2>1, <2>2, <2>3
<1>13. ASSUME NEW x \in 1..l+1, NEW y \in 1..l+1, x < y PROVE Before(new[x], new[y])
  <2>1. CASE y \in 1..l
    <3>1. x \in 1..l
      BY <1>13, <2>1
    <3> QED
      BY <1>5, <1>10, <1>13, <2>1, <3>1
  <2>2. CASE y = l + 1
    <3>1. x \in 1..l
      BY <1>13, <2>2
    <3>2. PICK b \in 1..n, s \in 1..n : b = old[x].buyer /\ s = old[x].seller /\ new[x] = old[x]
      BY <1>5, <1>7, <3>1
    <3>3. PICK z \in Nat : z = Start(b, s)
      BY <1>1
    <3>4. z < t /\ P[b - 1] <= z /\ Q[s - 1] <= z
      BY <1>1, <1>8, <3>1, <3>2, <3>3
    <3>5. t < P[bi] /\ t < Q[si]
      <4>1. \A x1 \in Nat : t + q <= x1 => t < x1
        OBVIOUS
      <4> QED
        BY <1>a, <4>1
    <3>6. b <= bi
      BY <1>2, <3>4, <3>5, EarlierHeads
    <3>7. s <= si
      BY <1>2, <3>4, <3>5, EarlierHeads
    <3>8. ~(b = bi /\ s = si)
      BY <1>2, <3>3, <3>4
    <3>9. new[x].buyer = b /\ new[x].seller = s /\ new[y].buyer = bi /\ new[y].seller = si
      BY <1>5, <1>6, <2>2, <3>2
    <3>10. b < bi \/ (b = bi /\ s < si)
      BY <3>6, <3>7, <3>8
    <3> QED
      BY <3>9, <3>10 DEF Before
  <2> QED
    BY <2>1, <2>2
<1>14. AreOverlaps(P, Q, new, t + q)
  BY <1>5, <1>11 DEF AreOverlaps, Start, End
<1>15. AllOverlaps(n, P, Q, new, t + q)
  <2>1. \A i, j \in 1..n : Start(i, j) < t + q /\ Start(i, j) < End(i, j) =>
          \E x \in DOMAIN new : new[x].buyer = i /\ new[x].seller = j
    <3> SUFFICES ASSUME NEW i \in 1..n, NEW j \in 1..n, Start(i, j) < t + q, Start(i, j) < End(i, j)
                 PROVE  \E x \in DOMAIN new : new[x].buyer = i /\ new[x].seller = j
      OBVIOUS
    <3>1. PICK x \in 1..l+1 : new[x].buyer = i /\ new[x].seller = j
      BY <1>12
    <3> QED
      BY <1>5, <3>1
  <2> QED
    BY <2>1 DEF AllOverlaps, Start, End
<1>16. InOrder(new)
  BY <1>5, <1>13 DEF InOrder
<1> QED
  BY <1>14, <1>15, <1>16 DEF CrossInv


\* A step of the match keeps the invariant and moves a pointer on.
LEMMA MatchStepInv ==
  ASSUME NEW n \in Nat, NEW D \in [1..n -> Nat], NEW E \in [1..n -> Nat], NEW P, NEW Q,
         EndsOf(n, D, P), EndsOf(n, E, Q), NEW m, MatchInv(n, P, Q, D, E, m), Running(m),
         NEW w, w = MatchStep(m)
  PROVE  MatchInv(n, P, Q, D, E, w) /\ w.bi + w.si > m.bi + m.si
<1>1. m \in MatchOf(n)
  BY DEF MatchInv
<1>2. PICK q : q = HeadQty(m)
  OBVIOUS
<1>s. StepOf(n, m, w, q)
  BY <1>1, <1>2, StepIs
<1>3. /\ m.bi \in 1..n /\ m.si \in 1..n /\ q \in Nat
      /\ q <= m.buys[m.bi] /\ q <= m.sells[m.si] /\ (q = m.buys[m.bi] \/ q = m.sells[m.si])
  BY <1>s DEF StepOf
<1>4. /\ w.buys = [m.buys EXCEPT ![m.bi] = @ - q]
      /\ w.bi = IF m.buys[m.bi] = q THEN m.bi + 1 ELSE m.bi
  BY <1>s DEF StepOf
<1>5. /\ w.sells = [m.sells EXCEPT ![m.si] = @ - q]
      /\ w.si = IF m.sells[m.si] = q THEN m.si + 1 ELSE m.si
  BY <1>s DEF StepOf
<1>6. w.crosses = IF q > 0 THEN Append(m.crosses, HeadCross(m)) ELSE m.crosses
  BY <1>s DEF StepOf
<1>7. w \in MatchOf(n)
  BY <1>s DEF StepOf
<1>8. /\ m.buys \in [1..n -> Nat] /\ m.sells \in [1..n -> Nat] /\ m.crosses \in Seq(CrossOf(n))
      /\ w.bi \in 1..n+1 /\ w.si \in 1..n+1
  BY <1>1, <1>7 DEF MatchOf
<1>9. PICK bi \in 1..n, si \in 1..n, left \in [1..n -> Nat], rest \in [1..n -> Nat] :
         bi = m.bi /\ si = m.si /\ left = m.buys /\ rest = m.sells
  BY <1>3, <1>8
<1>10. PICK t : t = LineStart(P, Q, bi, si)
  OBVIOUS
<1>11. t \in Nat /\ P[bi - 1] <= t /\ Q[si - 1] <= t
  <2>1. bi \in 1..n+1 /\ si \in 1..n+1
    OBVIOUS
  <2>2. StartOf(P, Q, bi, si)
    BY <2>1, StartIs
  <2> QED
    BY <1>10, <2>2 DEF StartOf
<1>12. SideInv(n, P, D, bi, left, t) /\ SideInv(n, Q, E, si, rest, t) /\ CrossInv(n, P, Q, m.crosses, t)
  BY <1>9, <1>10 DEF MatchInv, Reached
<1>13. PICK nb \in 1..n+1, ns \in 1..n+1 : nb = w.bi /\ ns = w.si
  BY <1>8
<1>14. q <= left[bi] /\ q <= rest[si] /\ (q = left[bi] \/ q = rest[si])
  BY <1>3, <1>9
<1>15. /\ SideInv(n, P, D, nb, w.buys, t + q) /\ P[nb - 1] <= t + q /\ (nb = bi + 1 => t + q <= P[nb - 1])
       /\ nb = IF left[bi] = q THEN bi + 1 ELSE bi
  <2>1. w.buys = [left EXCEPT ![bi] = @ - q] /\ nb = IF left[bi] = q THEN bi + 1 ELSE bi
    BY <1>4, <1>9, <1>13
  <2>2. TakesFrom(left, bi, q, w.buys, nb)
    BY <1>14, <2>1 DEF TakesFrom
  <2>3. SideAt(n, P, D, bi, left, t, q)
    BY <1>3, <1>11, <1>12 DEF SideAt
  <2>a. PICK after : after = w.buys
    OBVIOUS
  <2>4. /\ SideInv(n, P, D, nb, after, t + q) /\ P[nb - 1] <= t + q
        /\ (nb = bi + 1 => t + q <= P[nb - 1])
    <3>1. TakesFrom(left, bi, q, after, nb)
      BY <2>a, <2>2
    <3> QED
      BY <1>3, <1>11, <2>3, <3>1, SideStep
  <2> QED
    BY <2>1, <2>4, <2>a
<1>16. /\ SideInv(n, Q, E, ns, w.sells, t + q) /\ Q[ns - 1] <= t + q /\ (ns = si + 1 => t + q <= Q[ns - 1])
       /\ ns = IF rest[si] = q THEN si + 1 ELSE si
  <2>1. w.sells = [rest EXCEPT ![si] = @ - q] /\ ns = IF rest[si] = q THEN si + 1 ELSE si
    BY <1>5, <1>9, <1>13
  <2>2. TakesFrom(rest, si, q, w.sells, ns)
    BY <1>14, <2>1 DEF TakesFrom
  <2>3. SideAt(n, Q, E, si, rest, t, q)
    BY <1>3, <1>11, <1>12 DEF SideAt
  <2>a. PICK after : after = w.sells
    OBVIOUS
  <2>4. /\ SideInv(n, Q, E, ns, after, t + q) /\ Q[ns - 1] <= t + q
        /\ (ns = si + 1 => t + q <= Q[ns - 1])
    <3>1. TakesFrom(rest, si, q, after, ns)
      BY <2>a, <2>2
    <3> QED
      BY <1>3, <1>11, <2>3, <3>1, SideStep
  <2> QED
    BY <2>1, <2>4, <2>a
<1>17. LineStart(P, Q, nb, ns) = t + q
  <2>1. P[nb - 1] \in Nat /\ Q[ns - 1] \in Nat /\ t + q \in Nat
    <3>1. P[nb - 1] \in Nat /\ Q[ns - 1] \in Nat
      BY StartIs DEF StartOf
    <3> QED
      BY <1>3, <1>11, <3>1
  <2>2. t + q <= P[nb - 1] \/ t + q <= Q[ns - 1]
    BY <1>14, <1>15, <1>16
  <2>3. P[nb - 1] <= t + q /\ Q[ns - 1] <= t + q
    BY <1>15, <1>16
  <2> QED
    BY <2>1, <2>2, <2>3 DEF LineStart
<1>18. CrossInv(n, P, Q, w.crosses, t + q)
  <2>1. CASE q = 0
    <3>1. w.crosses = m.crosses /\ t + q = t
      BY <1>6, <1>11, <2>1
    <3> QED
      BY <1>12, <3>1
  <2>2. CASE q > 0
    <3>1. PICK c : c = HeadCross(m)
      OBVIOUS
    <3>2. c.buyer = bi /\ c.seller = si /\ c.qty = q /\ c \in CrossOf(n)
      BY <1>2, <1>3, <1>9, <3>1 DEF HeadCross, CrossOf
    <3>3. PICK old \in Seq(CrossOf(n)) : old = m.crosses
      BY <1>8
    <3>4. PICK l \in Nat : l = Len(old)
      OBVIOUS
    <3>5. DOMAIN old = 1..l /\ \A x \in 1..l : old[x] \in CrossOf(n)
      BY <3>4
    <3>6. DOMAIN w.crosses = 1..l+1 /\ w.crosses[l + 1] = c /\ \A x \in 1..l : w.crosses[x] = old[x]
      <4>1. w.crosses = Append(old, c)
        BY <1>6, <2>2, <3>1, <3>3
      <4>2. /\ Len(Append(old, c)) = l + 1 /\ Append(old, c)[l + 1] = c
            /\ \A x \in 1..l : Append(old, c)[x] = old[x]
        BY <3>2, <3>4, AppendProperties
      <4>3. Append(old, c) \in Seq(CrossOf(n))
        BY <3>2, AppendProperties
      <4>4. DOMAIN Append(old, c) = 1..l+1
        BY <4>2, <4>3, LenProperties
      <4> QED
        BY <4>1, <4>2, <4>4
    <3>7. OneMore(n, old, w.crosses, l, bi, si, q)
      BY <3>2, <3>5, <3>6 DEF OneMore, CrossOf
    <3>8. t + q <= P[bi] /\ t + q <= Q[si] /\ (t + q = P[bi] \/ t + q = Q[si])
      <4>1. left[bi] = P[bi] - t /\ rest[si] = Q[si] - t
        BY <1>12 DEF SideInv
      <4>2. P[bi] \in Nat /\ Q[si] \in Nat
        BY EndIs DEF EndOf
      <4>3. \A x \in Nat : /\ (q <= x - t => t + q <= x)
                           /\ (q = x - t => t + q = x)
        <5>1. t \in Nat /\ q \in Nat
          BY <1>3, <1>11
        <5> QED
          BY <5>1
      <4> QED
        BY <1>14, <4>1, <4>2, <4>3
    <3>9. CrossInv(n, P, Q, old, t)
      BY <1>12, <3>3
    <3> QED
      BY <1>3, <1>10, <1>11, <2>2, <3>7, <3>8, <3>9, CrossStep
  <2> QED
    BY <1>3, <2>1, <2>2
<1>19. MatchInv(n, P, Q, D, E, w)
  BY <1>7, <1>13, <1>15, <1>16, <1>17, <1>18 DEF MatchInv, Reached
<1>20. w.bi + w.si > m.bi + m.si
  <2>1. nb + ns > bi + si
    BY <1>14, <1>15, <1>16
  <2> QED
    BY <1>9, <1>13, <2>1
<1> QED
  BY <1>19, <1>20


\* The match begins at the start of the line.
LEMMA MatchInitInv ==
  ASSUME NEW n \in Nat, NEW D \in [1..n -> Nat], NEW E \in [1..n -> Nat], NEW P, NEW Q,
         EndsOf(n, D, P), EndsOf(n, E, Q), NEW m, m = MatchStart(D, E)
  PROVE  MatchInv(n, P, Q, D, E, m) /\ m.bi = 1 /\ m.si = 1
<1>1. m.bi = 1 /\ m.si = 1 /\ m.buys = D /\ m.sells = E /\ m.crosses = <<>>
  BY DEF MatchStart
<1>2. m \in MatchOf(n)
  <2>1. <<>> \in Seq(CrossOf(n)) /\ 1 \in 1..n+1
    OBVIOUS
  <2> QED
    BY <2>1 DEF MatchStart, MatchOf
<1>3. Reached(P, Q, m) = 0
  <2>1. P[1 - 1] = 0 /\ Q[1 - 1] = 0
    BY DEF EndsOf
  <2> QED
    BY <1>1, <2>1 DEF Reached, LineStart
<1>4. ASSUME NEW F \in [1..n -> Nat], NEW R, EndsOf(n, F, R) PROVE SideInv(n, R, F, 1, F, 0)
  <2>1. R[n] \in Nat /\ R[0] = 0
    BY <1>4 DEF EndsOf
  <2>2. ASSUME 1 \in 1..n PROVE F[1] = R[1] - 0
    <3>1. R[1] = R[1 - 1] + F[1] /\ F[1] \in Nat /\ 1 - 1 = 0
      BY <1>4, <2>2 DEF EndsOf
    <3> QED
      BY <2>1, <3>1
  <2> QED
    BY <2>1, <2>2 DEF SideInv
<1>5. CrossInv(n, P, Q, <<>>, 0)
  <2>1. \A i, j \in 1..n : ~(LineStart(P, Q, i, j) < 0)
    <3>1. ASSUME NEW i \in 1..n, NEW j \in 1..n PROVE LineStart(P, Q, i, j) \in Nat
      <4>1. i \in 1..n+1 /\ j \in 1..n+1
        OBVIOUS
      <4> QED
        BY <4>1, StartIs DEF StartOf
    <3>2. \A x \in Nat : ~(x < 0)
      OBVIOUS
    <3> QED
      BY <3>1, <3>2
  <2> QED
    BY <2>1 DEF CrossInv, AreOverlaps, AllOverlaps, InOrder
<1> QED
  BY <1>1, <1>2, <1>3, <1>4, <1>5 DEF MatchInv

\* After n + n rounds the match is over.
LEMMA MatchEnds ==
  ASSUME NEW n \in Nat, NEW D \in [1..n -> Nat], NEW E \in [1..n -> Nat], NEW P, NEW Q,
         EndsOf(n, D, P), EndsOf(n, E, Q)
  PROVE  MatchInv(n, P, Q, D, E, Match(D, E)) /\ ~Running(Match(D, E))
<1>1. PICK g : g = Matching(D, E)
  OBVIOUS
<1>2. g[0] = MatchStart(D, E) /\ \A r \in 1..n+n : g[r] = RoundOf(g[r - 1])
  BY <1>1, MatchRuns
<1> DEFINE Ok(r) == MatchInv(n, P, Q, D, E, g[r]) /\ (Running(g[r]) => g[r].bi + g[r].si >= r + 2)
           S == {r \in 0..n+n : Ok(r)}
<1>3. n + n \in Nat /\ 0 \in 0..n+n /\ n + n \in 0..n+n
  OBVIOUS
<1>4. 0 \in S
  <2>1. MatchInv(n, P, Q, D, E, g[0]) /\ g[0].bi = 1 /\ g[0].si = 1
    BY <1>2, MatchInitInv
  <2> QED
    BY <1>3, <2>1
<1>5. ASSUME NEW r \in 0..(n+n)-1, r \in S PROVE r + 1 \in S
  <2>1. r + 1 \in 1..n+n /\ r + 1 \in 0..n+n /\ (r + 1) - 1 = r
    OBVIOUS
  <2>2. PICK m : m = g[r]
    OBVIOUS
  <2>3. PICK w : w = g[r + 1]
    OBVIOUS
  <2>4. w = RoundOf(m)
    BY <1>2, <2>1, <2>2, <2>3
  <2>5. MatchInv(n, P, Q, D, E, m) /\ (Running(m) => m.bi + m.si >= r + 2)
    BY <1>5, <2>2
  <2>6. CASE Running(m)
    <3>1. w = MatchStep(m)
      BY <2>4, <2>6 DEF RoundOf
    <3>2. MatchInv(n, P, Q, D, E, w) /\ w.bi + w.si > m.bi + m.si
      BY <2>5, <2>6, <3>1, MatchStepInv
    <3>3. PICK x \in Nat, y \in Nat : x = m.bi + m.si /\ y = w.bi + w.si
      BY <2>5, <3>2 DEF MatchInv, MatchOf
    <3>4. y >= (r + 1) + 2
      BY <2>5, <2>6, <3>2, <3>3
    <3>5. Ok(r + 1)
      BY <2>3, <3>2, <3>3, <3>4
    <3> HIDE DEF Ok
    <3> QED
      BY <2>1, <3>5
  <2>7. CASE ~Running(m)
    <3>1. w = m
      BY <2>4, <2>7 DEF RoundOf
    <3>2. Ok(r + 1)
      BY <2>3, <2>5, <2>7, <3>1
    <3> HIDE DEF Ok
    <3> QED
      BY <2>1, <3>2
  <2> QED
    BY <2>6, <2>7
<1>6. n + n \in S
  <2> HIDE DEF S
  <2>1. \A r \in 0..n+n : r \in S
    BY <1>3, <1>4, <1>5, CountUp
  <2> QED
    BY <1>3, <2>1
<1>7. PICK m : m = g[n + n]
  OBVIOUS
<1>8. Match(D, E) = m
  <2>1. Len(D) = n /\ Len(E) = n
    BY ListIs
  <2> QED
    BY <1>1, <1>7, <2>1 DEF Match
<1>9. MatchInv(n, P, Q, D, E, m) /\ (Running(m) => m.bi + m.si >= (n + n) + 2)
  BY <1>6, <1>7
<1>10. ~Running(m)
  <2> SUFFICES ASSUME Running(m) PROVE FALSE
    OBVIOUS
  <2>1. m \in MatchOf(n)
    BY <1>9 DEF MatchInv
  <2>2. PICK bi \in 1..n, si \in 1..n : bi = m.bi /\ si = m.si
    <3>1. PICK w, q : w = MatchStep(m) /\ q = HeadQty(m)
      OBVIOUS
    <3>2. StepOf(n, m, w, q)
      BY <2>1, <3>1, StepIs
    <3> QED
      BY <3>2 DEF StepOf
  <2>3. bi + si >= (n + n) + 2
    BY <1>9, <2>2
  <2> QED
    BY <2>3
<1> QED
  BY <1>8, <1>9, <1>10

\* A match that is over has come to the end of the shorter line.
OneSideDone(n, m) == (\A k \in 1..n : m.buys[k] = 0) \/ (\A k \in 1..n : m.sells[k] = 0)

\* A match that has stopped is done with one side, and has met every overlap.
LEMMA MatchOver ==
  ASSUME NEW n \in Nat, NEW D \in [1..n -> Nat], NEW E \in [1..n -> Nat], NEW P, NEW Q,
         EndsOf(n, D, P), EndsOf(n, E, Q), NEW m, MatchInv(n, P, Q, D, E, m), ~Running(m)
  PROVE  /\ m \in MatchOf(n)
         /\ OneSideDone(n, m)
         /\ \A i, j \in 1..n : LineStart(P, Q, i, j) < LineEnd(P, Q, i, j) =>
              LineStart(P, Q, i, j) < Reached(P, Q, m)
<1>1. m \in MatchOf(n)
  BY DEF MatchInv
<1>2. PICK bi \in 1..n+1, si \in 1..n+1, left \in [1..n -> Nat], rest \in [1..n -> Nat] :
        bi = m.bi /\ si = m.si /\ left = m.buys /\ rest = m.sells
  BY <1>1 DEF MatchOf
<1>3. Len(left) = n /\ Len(rest) = n
  BY ListIs
<1>4. bi = n + 1 \/ si = n + 1
  <2>1. ~(bi <= n /\ si <= n)
    BY <1>2, <1>3 DEF Running
  <2>2. \A x \in 1..n+1 : x <= n \/ x = n + 1
    OBVIOUS
  <2> QED
    BY <2>1, <2>2
<1>5. PICK t : t = Reached(P, Q, m)
  OBVIOUS
<1>6. t = LineStart(P, Q, bi, si)
  BY <1>2, <1>5 DEF Reached
<1>7. t \in Nat /\ P[bi - 1] <= t /\ Q[si - 1] <= t /\ P[n] \in Nat /\ Q[n] \in Nat
  <2>1. P[n] \in Nat /\ Q[n] \in Nat
    BY DEF EndsOf
  <2>2. StartOf(P, Q, bi, si)
    BY StartIs
  <2> QED
    BY <1>6, <2>1, <2>2 DEF StartOf
<1>8. SideInv(n, P, D, bi, left, t) /\ SideInv(n, Q, E, si, rest, t)
  BY <1>2, <1>5 DEF MatchInv
<1>9. (\A k \in 1..n : left[k] = 0) \/ (\A k \in 1..n : rest[k] = 0)
  <2>1. \A k \in 1..n : k < n + 1
    OBVIOUS
  <2>2. (\A k \in 1..n : k < bi => left[k] = 0) /\ (\A k \in 1..n : k < si => rest[k] = 0)
    BY <1>8 DEF SideInv
  <2> QED
    BY <1>4, <2>1, <2>2
<1>10. P[n] <= t \/ Q[n] <= t
  <2>1. bi = n + 1 => bi - 1 = n
    OBVIOUS
  <2>2. si = n + 1 => si - 1 = n
    OBVIOUS
  <2> QED
    BY <1>4, <1>7, <2>1, <2>2
<1>11. ASSUME NEW i \in 1..n, NEW j \in 1..n, LineStart(P, Q, i, j) < LineEnd(P, Q, i, j)
       PROVE  LineStart(P, Q, i, j) < t
  <2>1. i \in 1..n+1 /\ j \in 1..n+1 /\ i \in 0..n /\ j \in 0..n /\ n \in 0..n /\ i <= n /\ j <= n
    OBVIOUS
  <2>a. StartOf(P, Q, i, j) /\ EndOf(P, Q, i, j)
    BY <2>1, StartIs, EndIs
  <2>2. PICK s \in Nat, e \in Nat : s = LineStart(P, Q, i, j) /\ e = LineEnd(P, Q, i, j)
    BY <2>a DEF StartOf, EndOf
  <2>3. P[i] \in Nat /\ Q[j] \in Nat /\ e <= P[i] /\ e <= Q[j]
    BY <2>a, <2>2 DEF EndOf
  <2>4. P[i] <= P[n] /\ Q[j] <= Q[n]
    BY <2>1 DEF EndsOf
  <2>5. s < t
    <3>1. s < e
      BY <1>11, <2>2
    <3>a. \A a, b \in Nat : e <= a /\ a <= b /\ b <= t => s < t
      BY <1>7, <3>1
    <3>2. CASE P[n] <= t
      BY <1>7, <2>3, <2>4, <3>a, <3>2
    <3>3. CASE Q[n] <= t
      BY <1>7, <2>3, <2>4, <3>a, <3>3
    <3> QED
      BY <1>10, <3>2, <3>3
  <2> QED
    BY <2>2, <2>5
<1> QED
  BY <1>1, <1>2, <1>5, <1>9, <1>11 DEF OneSideDone


-----------------------------------------------------------------------------
(* What the match takes from each cell.                                    *)

\* The entries of a list that belong to cell c.
OfCell(of, c, list, n) == [k \in 1..n |-> IF of[k] = c THEN list[k] ELSE 0]
CellSum(of, c, list, n) == SumTo(OfCell(of, c, list, n), n)

\* What a quantity of cell d is for cell c.
OwnPart(d, c, q) == IF d = c THEN q ELSE 0

Naturals1(list, n) == \A k \in 1..n : list[k] \in Nat

\* A cell's part of a list is a list, and its sum a number.
LEMMA CellSumIs ==
  ASSUME NEW n \in Nat, NEW of, NEW c, NEW list, Naturals1(list, n)
  PROVE  /\ CellSum(of, c, list, n) \in Nat /\ IntsTo(OfCell(of, c, list, n), n)
         /\ \A k \in 1..n : OfCell(of, c, list, n)[k] = IF of[k] = c THEN list[k] ELSE 0
         /\ \A k \in 1..n : OfCell(of, c, list, n)[k] \in Nat
<1>1. PICK f : f = OfCell(of, c, list, n)
  OBVIOUS
<1>2. \A k \in 1..n : f[k] = IF of[k] = c THEN list[k] ELSE 0
  BY <1>1 DEF OfCell
<1>3. \A k \in 1..n : f[k] \in Nat
  BY <1>2 DEF Naturals1
<1>4. SumTo(f, n) \in Nat /\ IntsTo(f, n)
  BY <1>3, SumNatural DEF IntsTo
<1> QED
  BY <1>1, <1>2, <1>3, <1>4 DEF CellSum

\* An entry is lowered.
LoweredAt(f, g, n, i, q) == q <= f[i] /\ g[i] = f[i] - q /\ DifferAt(f, g, n, i)

SumDrops(of, c, f, g, n, i, q) ==
  CellSum(of, c, g, n) + OwnPart(of[i], c, q) = CellSum(of, c, f, n)

\* An entry lowered by q lowers the sum of its cell's part by q, and no other.
LEMMA CellSumLowered ==
  ASSUME NEW n \in Nat, NEW f \in [1..n -> Nat], NEW i \in 1..n, NEW q \in Nat,
         NEW g \in [1..n -> Nat], LoweredAt(f, g, n, i, q), NEW of, NEW c
  PROVE  SumDrops(of, c, f, g, n, i, q)
<1>1. g[i] = f[i] - q /\ \A k \in 1..n : k # i => g[k] = f[k]
  BY DEF LoweredAt, DifferAt
<1>2. Naturals1(f, n) /\ Naturals1(g, n)
  BY DEF Naturals1
<1>3. PICK F : F = OfCell(of, c, f, n)
  OBVIOUS
<1>4. PICK G : G = OfCell(of, c, g, n)
  OBVIOUS
<1>5. IntsTo(F, n) /\ \A k \in 1..n : F[k] = IF of[k] = c THEN f[k] ELSE 0
  BY <1>2, <1>3, CellSumIs
<1>6. IntsTo(G, n) /\ \A k \in 1..n : G[k] = IF of[k] = c THEN g[k] ELSE 0
  BY <1>2, <1>4, CellSumIs
<1>7. DifferAt(F, G, n, i)
  BY <1>1, <1>5, <1>6 DEF DifferAt
<1>8. SumTo(G, n) = SumTo(F, n) - F[i] + G[i]
  BY <1>5, <1>6, <1>7, SumChanged
<1>9. PICK x \in Int, y \in Int : x = SumTo(F, n) /\ y = SumTo(G, n)
  BY <1>5, <1>6, SumIs
<1>10. PICK a \in Nat : a = f[i]
  OBVIOUS
<1>11. y + (IF of[i] = c THEN q ELSE 0) = x
  <2>1. CASE of[i] = c
    <3>1. F[i] = a /\ G[i] = a - q
      BY <1>1, <1>5, <1>6, <1>10, <2>1
    <3>2. y = x - a + (a - q)
      BY <1>8, <1>9, <3>1
    <3> QED
      BY <2>1, <3>2
  <2>2. CASE of[i] # c
    <3>1. F[i] = 0 /\ G[i] = 0
      BY <1>5, <1>6, <2>2
    <3>2. y = x - 0 + 0
      BY <1>8, <1>9, <3>1
    <3> QED
      BY <2>2, <3>2
  <2> QED
    BY <2>1, <2>2
<1> QED
  BY <1>3, <1>4, <1>9, <1>11 DEF CellSum, OwnPart, SumDrops

\* A list grows by an entry.
GrowsBy(of, list, of2, list2, l, d, q) ==
  /\ \A x \in 1..l : of2[x] = of[x] /\ list2[x] = list[x] /\ list[x] \in Nat
  /\ of2[l + 1] = d /\ list2[l + 1] = q

\* A new entry adds to the sum of its cell's part, and to no other.
LEMMA CellSumMore ==
  ASSUME NEW l \in Nat, NEW of, NEW list, NEW of2, NEW list2, NEW d, NEW q \in Nat, NEW c,
         GrowsBy(of, list, of2, list2, l, d, q)
  PROVE  CellSum(of2, c, list2, l + 1) = CellSum(of, c, list, l) + OwnPart(d, c, q)
<1>0. /\ \A x \in 1..l : of2[x] = of[x] /\ list2[x] = list[x] /\ list[x] \in Nat
      /\ of2[l + 1] = d /\ list2[l + 1] = q
  BY DEF GrowsBy
<1>1. PICK F : F = OfCell(of, c, list, l)
  OBVIOUS
<1>2. PICK G : G = OfCell(of2, c, list2, l + 1)
  OBVIOUS
<1>3. Naturals1(list, l) /\ Naturals1(list2, l + 1) /\ l + 1 \in Nat /\ l + 1 \in 1..l+1
  <2>1. ASSUME NEW x \in 1..l+1 PROVE list2[x] \in Nat
    <3>1. CASE x = l + 1
      BY <1>0, <3>1
    <3>2. CASE x \in 1..l
      BY <1>0, <3>2
    <3> QED
      BY <3>1, <3>2
  <2> QED
    BY <1>0, <2>1 DEF Naturals1
<1>4. IntsTo(F, l) /\ \A x \in 1..l : F[x] = IF of[x] = c THEN list[x] ELSE 0
  BY <1>1, <1>3, CellSumIs
<1>5. IntsTo(G, l + 1) /\ \A x \in 1..l+1 : G[x] = IF of2[x] = c THEN list2[x] ELSE 0
  BY <1>2, <1>3, CellSumIs
<1>6. \A x \in 1..l : F[x] = G[x]
  <2>1. \A x \in 1..l : x \in 1..l+1
    OBVIOUS
  <2> QED
    BY <1>0, <1>4, <1>5, <2>1
<1>7. SumTo(F, l) = SumTo(G, l)
  BY <1>4, <1>6, SumSame
<1>8. SumTo(G, l + 1) = SumTo(G, l) + G[l + 1]
  BY <1>5, SumNext
<1>9. G[l + 1] = OwnPart(d, c, q)
  BY <1>0, <1>3, <1>5 DEF OwnPart
<1> QED
  BY <1>1, <1>2, <1>7, <1>8, <1>9 DEF CellSum


\* The cells of the buyers and of the sellers of the crosses.
BuyersOf(of, crosses)  == [x \in DOMAIN crosses |-> of[crosses[x].buyer]]
SellersOf(of, crosses) == [x \in DOMAIN crosses |-> of[crosses[x].seller]]

CrossSum(of, c, crosses) == CellSum(of, c, Crossed(crosses), Len(crosses))

\* What a cell has crossed and what it is left with are what it asked for.
LegInv(n, D, E, of, c, m) ==
  /\ CrossSum(BuyersOf(of, m.crosses), c, m.crosses) + CellSum(of, c, m.buys, n) = CellSum(of, c, D, n)
  /\ CrossSum(SellersOf(of, m.crosses), c, m.crosses) + CellSum(of, c, m.sells, n) = CellSum(of, c, E, n)

\* A sequence of crosses grows by one.
CrossAdds(of, c, old, new, x) ==
  /\ CrossSum(BuyersOf(of, new), c, new) =
       CrossSum(BuyersOf(of, old), c, old) + OwnPart(of[x.buyer], c, x.qty)
  /\ CrossSum(SellersOf(of, new), c, new) =
       CrossSum(SellersOf(of, old), c, old) + OwnPart(of[x.seller], c, x.qty)

\* A new cross adds to what its buyer's cell bought and its seller's cell sold.
LEMMA CrossSumMore ==
  ASSUME NEW n \in Nat, NEW old \in Seq(CrossOf(n)), NEW x \in CrossOf(n), NEW new,
         new = Append(old, x), NEW of, NEW c
  PROVE  CrossAdds(of, c, old, new, x)
<1>1. PICK l \in Nat : l = Len(old)
  OBVIOUS
<1>2. DOMAIN old = 1..l /\ \A k \in 1..l : old[k] \in CrossOf(n)
  BY <1>1
<1>3. /\ DOMAIN new = 1..l+1 /\ Len(new) = l + 1 /\ new[l + 1] = x
      /\ \A k \in 1..l : new[k] = old[k]
  BY <1>1, AppendProperties
<1>4. \A k \in 1..l : old[k].qty \in Nat
  BY <1>2 DEF CrossOf
<1>5. x.qty \in Nat
  BY DEF CrossOf
<1>6. l + 1 \in 1..l+1 /\ \A k \in 1..l : k \in 1..l+1
  OBVIOUS
<1>7. Crossed(new)[l + 1] = x.qty /\ \A k \in 1..l : Crossed(new)[k] = Crossed(old)[k] /\ Crossed(old)[k] \in Nat
  BY <1>2, <1>3, <1>4, <1>6 DEF Crossed
<1>8. /\ BuyersOf(of, new)[l + 1] = of[x.buyer]
      /\ \A k \in 1..l : BuyersOf(of, new)[k] = BuyersOf(of, old)[k]
  BY <1>2, <1>3, <1>6 DEF BuyersOf
<1>9. /\ SellersOf(of, new)[l + 1] = of[x.seller]
      /\ \A k \in 1..l : SellersOf(of, new)[k] = SellersOf(of, old)[k]
  BY <1>2, <1>3, <1>6 DEF SellersOf
<1>10. PICK q \in Nat : q = x.qty
  BY <1>5
<1>fg. PICK f, g : f = Crossed(old) /\ g = Crossed(new)
  OBVIOUS
<1>11. g[l + 1] = q /\ \A k \in 1..l : g[k] = f[k] /\ f[k] \in Nat
  BY <1>7, <1>10, <1>fg
<1>12. CellSum(BuyersOf(of, new), c, g, l + 1) =
         CellSum(BuyersOf(of, old), c, f, l) + OwnPart(of[x.buyer], c, q)
  <2>1. PICK u, v, d : u = BuyersOf(of, old) /\ v = BuyersOf(of, new) /\ d = of[x.buyer]
    OBVIOUS
  <2>2. v[l + 1] = d /\ \A k \in 1..l : v[k] = u[k]
    BY <1>8, <2>1
  <2>3. GrowsBy(u, f, v, g, l, d, q)
    BY <1>11, <2>2 DEF GrowsBy
  <2>4. CellSum(v, c, g, l + 1) = CellSum(u, c, f, l) + OwnPart(d, c, q)
    BY <2>3, CellSumMore
  <2> QED
    BY <2>1, <2>4
<1>13. CellSum(SellersOf(of, new), c, g, l + 1) =
         CellSum(SellersOf(of, old), c, f, l) + OwnPart(of[x.seller], c, q)
  <2>1. PICK u, v, d : u = SellersOf(of, old) /\ v = SellersOf(of, new) /\ d = of[x.seller]
    OBVIOUS
  <2>2. v[l + 1] = d /\ \A k \in 1..l : v[k] = u[k]
    BY <1>9, <2>1
  <2>3. GrowsBy(u, f, v, g, l, d, q)
    BY <1>11, <2>2 DEF GrowsBy
  <2>4. CellSum(v, c, g, l + 1) = CellSum(u, c, f, l) + OwnPart(d, c, q)
    BY <2>3, CellSumMore
  <2> QED
    BY <2>1, <2>4
<1> QED
  BY <1>1, <1>3, <1>10, <1>fg, <1>12, <1>13 DEF CrossSum, CrossAdds

\* The sums of crosses are numbers.
LEMMA CrossSumIs ==
  ASSUME NEW n \in Nat, NEW old \in Seq(CrossOf(n)), NEW of, NEW c
  PROVE  CrossSum(of, c, old) \in Nat
<1>1. PICK l \in Nat : l = Len(old) /\ DOMAIN old = 1..l
  OBVIOUS
<1>2. \A k \in 1..l : old[k] \in CrossOf(n)
  BY <1>1
<1>3. PICK f : f = Crossed(old)
  OBVIOUS
<1>4. Naturals1(f, l)
  BY <1>1, <1>2, <1>3 DEF Crossed, CrossOf, Naturals1
<1>5. CellSum(of, c, f, l) \in Nat
  BY <1>4, CellSumIs
<1> QED
  BY <1>1, <1>3, <1>5 DEF CrossSum

\* A step of the match keeps, for every cell, what was crossed plus what is left.
LEMMA LegStep ==
  ASSUME NEW n \in Nat, NEW D \in [1..n -> Nat], NEW E \in [1..n -> Nat], NEW of, NEW c,
         NEW m \in MatchOf(n), LegInv(n, D, E, of, c, m), Running(m), NEW w, w = MatchStep(m)
  PROVE  LegInv(n, D, E, of, c, w)
<1>1. PICK head : head = HeadQty(m)
  OBVIOUS
<1>s. StepOf(n, m, w, head)
  BY <1>1, StepIs
<1>2. PICK q \in Nat : q = HeadQty(m) /\ q = head
  BY <1>1, <1>s DEF StepOf
<1>3. m.bi \in 1..n /\ m.si \in 1..n /\ q \in Nat /\ q <= m.buys[m.bi] /\ q <= m.sells[m.si]
  BY <1>2, <1>s DEF StepOf
<1>4. w.buys = [m.buys EXCEPT ![m.bi] = @ - q]
  BY <1>2, <1>s DEF StepOf
<1>5. w.sells = [m.sells EXCEPT ![m.si] = @ - q]
  BY <1>2, <1>s DEF StepOf
<1>6. w.crosses = IF q > 0 THEN Append(m.crosses, HeadCross(m)) ELSE m.crosses
  BY <1>2, StepCrosses DEF CrossesStep
<1>7. w \in MatchOf(n)
  BY <1>s DEF StepOf
<1>8. PICK bi \in 1..n, si \in 1..n, left \in [1..n -> Nat], rest \in [1..n -> Nat],
           old \in Seq(CrossOf(n)), new \in Seq(CrossOf(n)),
           left2 \in [1..n -> Nat], rest2 \in [1..n -> Nat] :
         /\ bi = m.bi /\ si = m.si /\ left = m.buys /\ rest = m.sells /\ old = m.crosses
         /\ left2 = w.buys /\ rest2 = w.sells /\ new = w.crosses
  <2>1. /\ m.buys \in [1..n -> Nat] /\ m.sells \in [1..n -> Nat] /\ m.crosses \in Seq(CrossOf(n))
        /\ w.buys \in [1..n -> Nat] /\ w.sells \in [1..n -> Nat] /\ w.crosses \in Seq(CrossOf(n))
    BY <1>7 DEF MatchOf
  <2> QED
    BY <1>3, <2>1
<1>9. LoweredAt(left, left2, n, bi, q)
  <2>1. left2 = [left EXCEPT ![bi] = @ - q] /\ q <= left[bi]
    BY <1>3, <1>4, <1>8
  <2> QED
    BY <1>3, <2>1, Lowered DEF LoweredAt, DifferAt
<1>10. LoweredAt(rest, rest2, n, si, q)
  <2>1. rest2 = [rest EXCEPT ![si] = @ - q] /\ q <= rest[si]
    BY <1>3, <1>5, <1>8
  <2> QED
    BY <1>3, <2>1, Lowered DEF LoweredAt, DifferAt
<1>11. PICK b \in Nat, s \in Nat : b = OwnPart(of[bi], c, q) /\ s = OwnPart(of[si], c, q)
  BY <1>3 DEF OwnPart
<1>12. CellSum(of, c, left2, n) + b = CellSum(of, c, left, n)
  <2>1. q \in Nat
    BY <1>3
  <2>2. SumDrops(of, c, left, left2, n, bi, q)
    BY <1>9, <2>1, CellSumLowered
  <2> QED
    BY <1>11, <2>2 DEF SumDrops
<1>13. CellSum(of, c, rest2, n) + s = CellSum(of, c, rest, n)
  <2>1. q \in Nat
    BY <1>3
  <2>2. SumDrops(of, c, rest, rest2, n, si, q)
    BY <1>10, <2>1, CellSumLowered
  <2> QED
    BY <1>11, <2>2 DEF SumDrops
<1>14. PICK x1 \in Nat, x2 \in Nat, y1 \in Nat, y2 \in Nat :
         /\ x1 = CellSum(of, c, left, n) /\ x2 = CellSum(of, c, left2, n)
         /\ y1 = CellSum(of, c, rest, n) /\ y2 = CellSum(of, c, rest2, n)
  <2>1. Naturals1(left, n) /\ Naturals1(rest, n) /\ Naturals1(left2, n) /\ Naturals1(rest2, n)
    BY DEF Naturals1
  <2> QED
    BY <2>1, CellSumIs
<1>15. PICK u1 \in Nat, u2 \in Nat, v1 \in Nat, v2 \in Nat :
         /\ u1 = CrossSum(BuyersOf(of, old), c, old) /\ u2 = CrossSum(BuyersOf(of, new), c, new)
         /\ v1 = CrossSum(SellersOf(of, old), c, old) /\ v2 = CrossSum(SellersOf(of, new), c, new)
  BY CrossSumIs
<1>16. u2 = u1 + b /\ v2 = v1 + s
  <2>1. CASE q = 0
    <3>1. new = old /\ b = 0 /\ s = 0
      BY <1>6, <1>8, <1>11, <2>1 DEF OwnPart
    <3> QED
      BY <1>15, <3>1
  <2>2. CASE q > 0
    <3>a. HeadCross(m) \in CrossOf(n)
      BY <1>2, <1>3 DEF HeadCross, CrossOf
    <3>1. PICK h \in CrossOf(n) : h = HeadCross(m)
      BY <3>a
    <3>2. h.buyer = bi /\ h.seller = si /\ h.qty = q /\ h \in CrossOf(n)
      BY <1>2, <1>3, <1>8, <3>1 DEF HeadCross, CrossOf
    <3>3. new = Append(old, h)
      BY <1>6, <1>8, <2>2, <3>1
    <3>4. CrossAdds(of, c, old, new, h)
      BY <3>3, CrossSumMore
    <3> QED
      BY <1>11, <1>15, <3>2, <3>4 DEF CrossAdds
  <2> QED
    BY <1>3, <2>1, <2>2
<1>17. u1 + x1 = CellSum(of, c, D, n) /\ v1 + y1 = CellSum(of, c, E, n)
  BY <1>8, <1>14, <1>15 DEF LegInv
<1>18. u2 + x2 = u1 + x1 /\ v2 + y2 = v1 + y1
  <2>1. x2 + b = x1 /\ y2 + s = y1
    BY <1>12, <1>13, <1>14
  <2> QED
    BY <1>16, <2>1
<1>19. u2 + x2 = CellSum(of, c, D, n) /\ v2 + y2 = CellSum(of, c, E, n)
  BY <1>17, <1>18
<1> QED
  BY <1>8, <1>14, <1>15, <1>19 DEF LegInv

\* The match serves every cell.
LEMMA LegsMatch ==
  ASSUME NEW n \in Nat, NEW D \in [1..n -> Nat], NEW E \in [1..n -> Nat], NEW of, NEW c
  PROVE  LegInv(n, D, E, of, c, Match(D, E))
<1>1. PICK g : g = Matching(D, E)
  OBVIOUS
<1>2. /\ g[0] = MatchStart(D, E) /\ \A r \in 1..n+n : g[r] = RoundOf(g[r - 1])
      /\ \A r \in 0..n+n : g[r] \in MatchOf(n)
  BY <1>1, MatchRuns
<1> DEFINE Ok(r) == LegInv(n, D, E, of, c, g[r])
           S == {r \in 0..n+n : Ok(r)}
<1>3. n + n \in Nat /\ 0 \in 0..n+n /\ n + n \in 0..n+n
  OBVIOUS
<1>4. 0 \in S
  <2>1. PICK m : m = g[0]
    OBVIOUS
  <2>2. m.buys = D /\ m.sells = E /\ m.crosses = <<>>
    BY <1>2, <2>1 DEF MatchStart
  <2>3. \A v : CrossSum(v, c, <<>>) = 0
    <3>1. TAKE v
    <3>2. PICK f : f = OfCell(v, c, Crossed(<<>>), 0)
      OBVIOUS
    <3>3. SumTo(f, 0) = 0
      BY SumNone
    <3>4. Len(<<>>) = 0
      OBVIOUS
    <3> QED
      BY <3>2, <3>3, <3>4 DEF CrossSum, CellSum
  <2>4. CellSum(of, c, D, n) \in Nat /\ CellSum(of, c, E, n) \in Nat
    BY CellSumIs DEF Naturals1
  <2>5. Ok(0)
    BY <2>1, <2>2, <2>3, <2>4 DEF LegInv
  <2> HIDE DEF Ok
  <2> QED
    BY <1>3, <2>5
<1>5. ASSUME NEW r \in 0..(n+n)-1, r \in S PROVE r + 1 \in S
  <2>1. r + 1 \in 1..n+n /\ r + 1 \in 0..n+n /\ (r + 1) - 1 = r /\ r \in 0..n+n
    OBVIOUS
  <2>2. PICK m : m = g[r]
    OBVIOUS
  <2>3. PICK w : w = g[r + 1]
    OBVIOUS
  <2>4. w = RoundOf(m) /\ m \in MatchOf(n)
    BY <1>2, <2>1, <2>2, <2>3
  <2>5. LegInv(n, D, E, of, c, m)
    BY <1>5, <2>2
  <2>6. LegInv(n, D, E, of, c, w)
    <3>1. CASE Running(m)
      <4>1. w = MatchStep(m)
        BY <2>4, <3>1 DEF RoundOf
      <4> QED
        BY <2>4, <2>5, <3>1, <4>1, LegStep
    <3>2. CASE ~Running(m)
      BY <2>4, <2>5, <3>2 DEF RoundOf
    <3> QED
      BY <3>1, <3>2
  <2>7. Ok(r + 1)
    BY <2>3, <2>6
  <2> HIDE DEF Ok
  <2> QED
    BY <2>1, <2>7
<1>6. n + n \in S
  <2> HIDE DEF S
  <2>1. \A r \in 0..n+n : r \in S
    BY <1>3, <1>4, <1>5, CountUp
  <2> QED
    BY <1>3, <2>1
<1>7. Match(D, E) = g[n + n]
  <2>1. Len(D) = n /\ Len(E) = n
    BY ListIs
  <2> QED
    BY <1>1, <2>1 DEF Match
<1> QED
  BY <1>6, <1>7

\* Of two numbers.
LEMMA OfTwo ==
  ASSUME NEW a \in Int, NEW b \in Int
  PROVE  /\ Max({a, b}) = IF a >= b THEN a ELSE b
         /\ Min({a, b}) = IF a <= b THEN a ELSE b
<1>1. PICK x : x = IF a >= b THEN a ELSE b
  OBVIOUS
<1>2. x \in {a, b} /\ \A y \in {a, b} : x >= y
  BY <1>1
<1>3. Max({a, b}) \in {a, b} /\ \A y \in {a, b} : Max({a, b}) >= y
  BY <1>2 DEF Max
<1>4. PICK u : u = IF a <= b THEN a ELSE b
  OBVIOUS
<1>5. u \in {a, b} /\ \A y \in {a, b} : u <= y
  BY <1>4
<1>6. Min({a, b}) \in {a, b} /\ \A y \in {a, b} : Min({a, b}) <= y
  BY <1>5 DEF Min
<1>7. PICK v \in Int, w \in Int : v = Max({a, b}) /\ w = Min({a, b})
  BY <1>3, <1>6
<1>8. v = (IF a >= b THEN a ELSE b) /\ w = IF a <= b THEN a ELSE b
  BY <1>3, <1>6, <1>7
<1> QED
  BY <1>7, <1>8

\* The stretches by the sums and by their ends.
SumsOf(D, P, n) == P = [k \in 0..n |-> SumTo(D, k)]
SameStretch(D, E, P, Q, i, j) ==
  /\ OverlapStart(D, E, i, j) = LineStart(P, Q, i, j)
  /\ OverlapEnd(D, E, i, j) = LineEnd(P, Q, i, j)

\* The overlaps of the reference definition are those of the two lines.
LEMMA OverlapIsLine ==
  ASSUME NEW n \in Nat, NEW D \in [1..n -> Nat], NEW E \in [1..n -> Nat], NEW P, NEW Q,
         SumsOf(D, P, n), SumsOf(E, Q, n), NEW i \in 1..n, NEW j \in 1..n
  PROVE  SameStretch(D, E, P, Q, i, j)
<1>1. EndsOf(n, D, P) /\ EndsOf(n, E, Q)
  BY EndsExist DEF SumsOf
<1>2. i \in 0..n /\ i - 1 \in 0..n /\ j \in 0..n /\ j - 1 \in 0..n
  OBVIOUS
<1>3. P[i] \in Nat /\ P[i - 1] \in Nat /\ Q[j] \in Nat /\ Q[j - 1] \in Nat
  BY <1>1, <1>2 DEF EndsOf
<1>4. /\ P[i] = SumTo(D, i) /\ P[i - 1] = SumTo(D, i - 1)
      /\ Q[j] = SumTo(E, j) /\ Q[j - 1] = SumTo(E, j - 1)
  BY <1>2 DEF SumsOf
<1>a. PICK a \in Int : a = P[i - 1]
  BY <1>3
<1>b. PICK b \in Int : b = Q[j - 1]
  BY <1>3
<1>c. PICK c \in Int : c = P[i]
  BY <1>3
<1>d. PICK d \in Int : d = Q[j]
  BY <1>3
<1>6. OverlapStart(D, E, i, j) = Max({a, b}) /\ OverlapEnd(D, E, i, j) = Min({c, d})
  BY <1>4, <1>a, <1>b, <1>c, <1>d DEF OverlapStart, OverlapEnd
<1>7. Max({a, b}) = (IF a >= b THEN a ELSE b) /\ Min({c, d}) = IF c <= d THEN c ELSE d
  BY OfTwo
<1> QED
  BY <1>a, <1>b, <1>c, <1>d, <1>6, <1>7 DEF LineStart, LineEnd, SameStretch

\* The crosses of a match are the overlaps, each once and in order.
OverlapWidth(D, E, i, j) == OverlapEnd(D, E, i, j) - OverlapStart(D, E, i, j)
CrossesMatch(n, D, E, crosses) ==
  /\ \A x \in DOMAIN crosses :
       /\ crosses[x].buyer \in 1..n /\ crosses[x].seller \in 1..n
       /\ crosses[x].qty > 0
       /\ crosses[x].qty = OverlapWidth(D, E, crosses[x].buyer, crosses[x].seller)
  /\ \A i, j \in 1..n : OverlapWidth(D, E, i, j) > 0 =>
       \E x \in DOMAIN crosses : crosses[x].buyer = i /\ crosses[x].seller = j
  /\ \A x, y \in DOMAIN crosses : x < y => Before(crosses[x], crosses[y])

\* The crosses of a match are exactly the overlaps of the reference definition.
LEMMA MatchOverlaps ==
  ASSUME NEW n \in Nat, NEW D \in [1..n -> Nat], NEW E \in [1..n -> Nat]
  PROVE  CrossesMatch(n, D, E, Match(D, E).crosses)
<1>1. PICK P, Q : P = [k \in 0..n |-> SumTo(D, k)] /\ Q = [k \in 0..n |-> SumTo(E, k)]
  OBVIOUS
<1>2. EndsOf(n, D, P) /\ EndsOf(n, E, Q)
  BY <1>1, EndsExist
<1>s. SumsOf(D, P, n) /\ SumsOf(E, Q, n)
  BY <1>1 DEF SumsOf
<1>3. PICK m : m = Match(D, E)
  OBVIOUS
<1>4. MatchInv(n, P, Q, D, E, m) /\ ~Running(m)
  BY <1>2, <1>3, MatchEnds
<1>5. m \in MatchOf(n)
  BY <1>4 DEF MatchInv
<1>6. \A i, j \in 1..n : LineStart(P, Q, i, j) < LineEnd(P, Q, i, j) =>
        LineStart(P, Q, i, j) < Reached(P, Q, m)
  BY <1>2, <1>4, MatchOver
<1>7. PICK crosses \in Seq(CrossOf(n)) : crosses = m.crosses
  BY <1>5 DEF MatchOf
<1>8. PICK t : t = Reached(P, Q, m)
  OBVIOUS
<1>9. AreOverlaps(P, Q, crosses, t) /\ AllOverlaps(n, P, Q, crosses, t) /\ InOrder(crosses)
  BY <1>4, <1>7, <1>8 DEF MatchInv, CrossInv
<1>10. \A x \in DOMAIN crosses : crosses[x] \in CrossOf(n)
  OBVIOUS
<1>11. \A i, j \in 1..n : OverlapWidth(D, E, i, j) = LineEnd(P, Q, i, j) - LineStart(P, Q, i, j)
  <2> SUFFICES ASSUME NEW i \in 1..n, NEW j \in 1..n
               PROVE  OverlapWidth(D, E, i, j) = LineEnd(P, Q, i, j) - LineStart(P, Q, i, j)
    OBVIOUS
  <2>1. SameStretch(D, E, P, Q, i, j)
    BY <1>s, OverlapIsLine
  <2> QED
    BY <2>1 DEF OverlapWidth, SameStretch
<1>12. \A i, j \in 1..n : LineEnd(P, Q, i, j) \in Nat /\ LineStart(P, Q, i, j) \in Nat
  <2>1. \A i \in 1..n : i \in 1..n+1
    OBVIOUS
  <2>2. \A i, j \in 1..n+1 : LineStart(P, Q, i, j) \in Nat
    BY <1>2, StartIs DEF StartOf
  <2>3. \A i, j \in 1..n : LineEnd(P, Q, i, j) \in Nat
    BY <1>2, EndIs DEF EndOf
  <2> QED
    BY <2>1, <2>2, <2>3
<1>13. ASSUME NEW x \in DOMAIN crosses
       PROVE  /\ crosses[x].buyer \in 1..n /\ crosses[x].seller \in 1..n /\ crosses[x].qty > 0
              /\ crosses[x].qty = OverlapWidth(D, E, crosses[x].buyer, crosses[x].seller)
  <2>1. crosses[x].buyer \in 1..n /\ crosses[x].seller \in 1..n
    BY <1>10 DEF CrossOf
  <2> QED
    BY <1>9, <1>11, <2>1 DEF AreOverlaps
<1>14. ASSUME NEW i \in 1..n, NEW j \in 1..n, OverlapWidth(D, E, i, j) > 0
       PROVE  \E x \in DOMAIN crosses : crosses[x].buyer = i /\ crosses[x].seller = j
  <2>1. PICK s \in Nat, e \in Nat : s = LineStart(P, Q, i, j) /\ e = LineEnd(P, Q, i, j)
    BY <1>12
  <2>2. s < e
    BY <1>11, <1>14, <2>1
  <2>3. LineStart(P, Q, i, j) < t /\ LineStart(P, Q, i, j) < LineEnd(P, Q, i, j)
    BY <1>6, <1>8, <2>1, <2>2
  <2> QED
    BY <1>9, <2>3 DEF AllOverlaps
<1>15. \A x, y \in DOMAIN crosses : x < y => Before(crosses[x], crosses[y])
  BY <1>9 DEF InOrder
<1>16. CrossesMatch(n, D, E, crosses)
  BY <1>13, <1>14, <1>15 DEF CrossesMatch
<1> QED
  BY <1>3, <1>7, <1>16

\* All of a list belongs to one owner.
LEMMA OneOwner ==
  ASSUME NEW n \in Nat, NEW list, Naturals1(list, n), NEW of, NEW c, \A k \in 1..n : of[k] = c
  PROVE  CellSum(of, c, list, n) = SumTo(list, n)
<1>1. PICK f : f = OfCell(of, c, list, n)
  OBVIOUS
<1>2. IntsTo(f, n) /\ \A k \in 1..n : f[k] = list[k]
  BY <1>1, CellSumIs
<1>3. SumTo(f, n) = SumTo(list, n)
  BY <1>2, SumSame
<1> QED
  BY <1>1, <1>3 DEF CellSum

-----------------------------------------------------------------------------
(* What the broker order is for.                                           *)

\* What is left of each side of a match.
Leaves(n, D, E, m) ==
  /\ m.buys \in [1..n -> Nat] /\ m.sells \in [1..n -> Nat]
  /\ \A k \in 1..n : m.buys[k] <= D[k] /\ m.sells[k] <= E[k]
  /\ OneSideDone(n, m)

\* One side of it.
LEMMA SideLeaves ==
  ASSUME NEW n \in Nat, NEW D \in [1..n -> Nat], NEW P, EndsOf(n, D, P), NEW ptr \in 1..n+1,
         NEW left \in [1..n -> Nat], NEW t \in Nat, SideInv(n, P, D, ptr, left, t), P[ptr - 1] <= t
  PROVE  \A k \in 1..n : left[k] <= D[k]
<1> SUFFICES ASSUME NEW k \in 1..n PROVE left[k] <= D[k]
  OBVIOUS
<1>1. D[k] \in Nat /\ P[k] \in Nat /\ P[k - 1] \in Nat /\ P[k] = P[k - 1] + D[k]
  BY DEF EndsOf
<1>2. CASE k < ptr
  BY <1>1, <1>2 DEF SideInv
<1>3. CASE k > ptr
  BY <1>1, <1>3 DEF SideInv
<1>4. CASE k = ptr
  <2>1. left[k] = P[k] - t
    BY <1>4 DEF SideInv
  <2>2. PICK before \in Nat, asked \in Nat :
          before = P[k - 1] /\ asked = D[k] /\ P[k] = before + asked
    BY <1>1
  <2>3. before <= t
    BY <1>4, <2>2, Zenon
  <2>4. left[k] = before + asked - t
    BY <2>1, <2>2
  <2>5. left[k] <= asked
    BY <2>3, <2>4
  <2> QED
    BY <2>2, <2>5
<1> QED
  BY <1>2, <1>3, <1>4

\* A match leaves no more than was asked, and one of the sides is done.
LEMMA MatchLeaves ==
  ASSUME NEW n \in Nat, NEW D \in [1..n -> Nat], NEW E \in [1..n -> Nat]
  PROVE  Match(D, E) \in MatchOf(n) /\ Leaves(n, D, E, Match(D, E))
<1>1. PICK P, Q : P = [k \in 0..n |-> SumTo(D, k)] /\ Q = [k \in 0..n |-> SumTo(E, k)]
  OBVIOUS
<1>2. EndsOf(n, D, P) /\ EndsOf(n, E, Q)
  BY <1>1, EndsExist
<1>3. PICK m : m = Match(D, E)
  OBVIOUS
<1>4. MatchInv(n, P, Q, D, E, m) /\ ~Running(m)
  BY <1>2, <1>3, MatchEnds
<1>5. m \in MatchOf(n) /\ OneSideDone(n, m)
  BY <1>2, <1>4, MatchOver
<1>6. PICK bi \in 1..n+1, si \in 1..n+1, left \in [1..n -> Nat], rest \in [1..n -> Nat] :
        bi = m.bi /\ si = m.si /\ left = m.buys /\ rest = m.sells
  BY <1>5 DEF MatchOf
<1>7. PICK t : t = LineStart(P, Q, bi, si)
  OBVIOUS
<1>8. t \in Nat /\ P[bi - 1] <= t /\ Q[si - 1] <= t
  <2>1. StartOf(P, Q, bi, si)
    BY <1>2, StartIs
  <2> QED
    BY <1>7, <2>1 DEF StartOf
<1>9. SideInv(n, P, D, bi, left, t) /\ SideInv(n, Q, E, si, rest, t)
  BY <1>4, <1>6, <1>7 DEF MatchInv, Reached
<1>10. \A k \in 1..n : left[k] <= D[k]
  BY <1>2, <1>8, <1>9, SideLeaves
<1>11. \A k \in 1..n : rest[k] <= E[k]
  BY <1>2, <1>8, <1>9, SideLeaves
<1>12. Leaves(n, D, E, m)
  BY <1>5, <1>6, <1>10, <1>11 DEF Leaves
<1> QED
  BY <1>3, <1>5, <1>12

\* What the two sides have in common has been crossed.
MatchAdds(n, D, E, m) ==
  \E z \in Nat : /\ z + SumTo(m.buys, n) = SumTo(D, n)
                 /\ z + SumTo(m.sells, n) = SumTo(E, n)

\* The same quantity is taken from both sides by a match.
LEMMA MatchSums ==
  ASSUME NEW n \in Nat, NEW D \in [1..n -> Nat], NEW E \in [1..n -> Nat], NEW m, m = Match(D, E)
  PROVE  MatchAdds(n, D, E, m)
<1>1. PICK of : of = [k \in 1..n |-> 0]
  OBVIOUS
<1>2. LegInv(n, D, E, of, 0, m)
  BY LegsMatch
<1>3. m \in MatchOf(n) /\ Leaves(n, D, E, m)
  BY MatchLeaves
<1>4. PICK left \in [1..n -> Nat], rest \in [1..n -> Nat], crosses \in Seq(CrossOf(n)) :
        left = m.buys /\ rest = m.sells /\ crosses = m.crosses
  BY <1>3 DEF MatchOf
<1>5. \A x \in DOMAIN crosses : crosses[x] \in CrossOf(n)
  OBVIOUS
<1>6. \A x \in DOMAIN crosses : of[crosses[x].buyer] = 0 /\ of[crosses[x].seller] = 0
  BY <1>1, <1>5 DEF CrossOf
<1>7. BuyersOf(of, crosses) = SellersOf(of, crosses)
  BY <1>6 DEF BuyersOf, SellersOf
<1>8. PICK z \in Nat : z = CrossSum(BuyersOf(of, crosses), 0, crosses)
  BY CrossSumIs
<1>9. z + CellSum(of, 0, left, n) = CellSum(of, 0, D, n)
  BY <1>2, <1>4, <1>8 DEF LegInv
<1>10. z + CellSum(of, 0, rest, n) = CellSum(of, 0, E, n)
  BY <1>2, <1>4, <1>7, <1>8 DEF LegInv
<1>11. \A k \in 1..n : of[k] = 0
  BY <1>1
<1>12. \A f \in [1..n -> Nat] : CellSum(of, 0, f, n) = SumTo(f, n)
  <2> TAKE f \in [1..n -> Nat]
  <2>1. Naturals1(f, n)
    BY DEF Naturals1
  <2> QED
    BY <1>11, <2>1, OneOwner
<1>13. z + SumTo(left, n) = SumTo(D, n) /\ z + SumTo(rest, n) = SumTo(E, n)
  BY <1>9, <1>10, <1>12
<1> QED
  BY <1>4, <1>13 DEF MatchAdds

\* The order of a netted batch: on the side that is left, for what is left of it.
NetOf(n, D, E, m, r) ==
  /\ r.crosses = m.crosses /\ r.side \in {"BUY", "SELL", "NONE"}
  /\ r.owed \in [1..n -> Nat] /\ r.qty \in Nat /\ SumTo(r.owed, n) = r.qty
  /\ r.side = "BUY" => r.owed = m.buys /\ r.qty > 0 /\ \A k \in 1..n : m.sells[k] = 0
  /\ r.side # "BUY" => r.owed = m.sells /\ \A k \in 1..n : m.buys[k] = 0
  /\ r.side = "NONE" => \A k \in 1..n : m.sells[k] = 0
  /\ r.side # "NONE" => r.qty > 0

\* The order of a netted batch is for what the match has left.
LEMMA NetIs ==
  ASSUME NEW n \in Nat, NEW b, NEW D \in [1..n -> Nat], NEW E \in [1..n -> Nat],
         D = Demand(b, "BUY"), E = Demand(b, "SELL"), NEW m, m = Match(D, E)
  PROVE  NetOf(n, D, E, m, NetSymbol(b))
<1>1. m \in MatchOf(n) /\ Leaves(n, D, E, m)
  BY MatchLeaves
<1>2. MatchAdds(n, D, E, m)
  BY MatchSums
<1>3. PICK left \in [1..n -> Nat], rest \in [1..n -> Nat] : left = m.buys /\ rest = m.sells
  BY <1>1 DEF MatchOf
<1>4. (\A k \in 1..n : left[k] = 0) \/ (\A k \in 1..n : rest[k] = 0)
  BY <1>1, <1>3 DEF Leaves, OneSideDone
<1>5. /\ (\A k \in 1..n : left[k] \in Nat) /\ (\A k \in 1..n : rest[k] \in Nat)
      /\ (\A k \in 1..n : D[k] \in Nat) /\ (\A k \in 1..n : E[k] \in Nat)
  OBVIOUS
<1>6. PICK x \in Nat, y \in Nat, p \in Nat, q \in Nat :
        x = SumTo(left, n) /\ y = SumTo(rest, n) /\ p = SumTo(D, n) /\ q = SumTo(E, n)
  <2>1. SumTo(left, n) \in Nat /\ SumTo(rest, n) \in Nat
    BY <1>5, SumNatural
  <2>2. SumTo(D, n) \in Nat /\ SumTo(E, n) \in Nat
    BY <1>5, SumNatural
  <2> QED
    BY <2>1, <2>2
<1>7. PICK z \in Nat : z + x = p /\ z + y = q
  BY <1>2, <1>3, <1>6 DEF MatchAdds
<1>8. (x = 0 => \A k \in 1..n : left[k] = 0) /\ (y = 0 => \A k \in 1..n : rest[k] = 0)
  <2>1. \A a \in Nat : a <= 0 => a = 0
    OBVIOUS
  <2>2. \A k \in 1..n : left[k] <= x /\ left[k] \in Nat
    <3>1. \A k \in 1..n : left[k] <= SumTo(left, n)
      BY <1>5, SumNatural
    <3> QED
      BY <1>6, <3>1
  <2>3. \A k \in 1..n : rest[k] <= y /\ rest[k] \in Nat
    <3>1. \A k \in 1..n : rest[k] <= SumTo(rest, n)
      BY <1>5, SumNatural
    <3> QED
      BY <1>6, <3>1
  <2> QED
    BY <2>1, <2>2, <2>3
<1>9. x = 0 \/ y = 0
  <2>1. (\A k \in 1..n : left[k] = 0) => SumTo(left, n) = 0
    BY SumNone
  <2>2. (\A k \in 1..n : rest[k] = 0) => SumTo(rest, n) = 0
    BY SumNone
  <2> QED
    BY <1>4, <1>6, <2>1, <2>2
<1>10. PICK net \in Int : net = p - q
  OBVIOUS
<1>11. net = x - y
  BY <1>7, <1>10
<1>12. Total(D) = p /\ Total(E) = q
  BY <1>6, ListIs DEF Total
<1>13. PICK r : r = NetSymbol(b)
  OBVIOUS
<1>14. r = [crosses |-> m.crosses,
            side |-> IF net > 0 THEN "BUY" ELSE IF net < 0 THEN "SELL" ELSE "NONE",
            qty |-> IF net < 0 THEN -net ELSE net,
            owed |-> IF net > 0 THEN left ELSE rest]
  BY <1>3, <1>10, <1>12, <1>13 DEF NetSymbol
<1>15. CASE net > 0
  <2>1. y = 0 /\ x = net
    BY <1>9, <1>11, <1>15
  <2>2. r.crosses = m.crosses /\ r.side = "BUY" /\ r.qty = x /\ r.owed = left
    BY <1>14, <1>15, <2>1
  <2>3. r.qty > 0 /\ r.qty \in Nat /\ SumTo(r.owed, n) = r.qty
    BY <1>6, <1>15, <2>1, <2>2
  <2>4. NetOf(n, D, E, m, r)
    BY <1>3, <1>8, <2>1, <2>2, <2>3 DEF NetOf
  <2> QED
    BY <1>13, <2>4
<1>16. CASE net < 0
  <2>1. x = 0 /\ y = -net
    BY <1>9, <1>11, <1>16
  <2>2. r.crosses = m.crosses /\ r.side = "SELL" /\ r.qty = y /\ r.owed = rest
    BY <1>14, <1>16, <2>1
  <2>y. y > 0
    BY <1>16, <2>1
  <2>3. r.qty > 0 /\ r.qty \in Nat /\ SumTo(r.owed, n) = r.qty
    BY <1>6, <2>2, <2>y
  <2>4. NetOf(n, D, E, m, r)
    BY <1>3, <1>8, <2>1, <2>2, <2>3 DEF NetOf
  <2> QED
    BY <1>13, <2>4
<1>17. CASE net = 0
  <2>1. x = 0 /\ y = 0
    BY <1>9, <1>11, <1>17
  <2>2. r.crosses = m.crosses /\ r.side = "NONE" /\ r.qty = y /\ r.owed = rest
    BY <1>14, <1>17, <2>1
  <2>3. r.qty \in Nat /\ SumTo(r.owed, n) = r.qty
    BY <1>6, <2>1, <2>2
  <2>4. NetOf(n, D, E, m, r)
    BY <1>3, <1>8, <2>1, <2>2, <2>3 DEF NetOf
  <2> QED
    BY <1>13, <2>4
<1> QED
  BY <1>15, <1>16, <1>17

-----------------------------------------------------------------------------
(* The allocation of a fill.                                               *)

\* A rounded quotient is within a half.
Nearest(a, b, x) == x \in Nat /\ 2 * (b * x) <= 2 * a + b /\ 2 * a <= 2 * (b * x) + b

\* RoundDiv rounds to the nearest whole number.
LEMMA RoundIs ==
  ASSUME NEW a \in Nat, NEW b \in Nat \ {0}
  PROVE  Nearest(a, b, RoundDiv(a, b))
<1>1. PICK q : q = a \div b
  OBVIOUS
<1>2. PICK r : r = a % b
  OBVIOUS
<1>3. q \in Nat /\ r \in 0..b-1 /\ a = b * q + r
  BY <1>1, <1>2
<1>4. PICK x : x = IF 2 * r > b \/ (2 * r = b /\ q % 2 = 1) THEN q + 1 ELSE q
  OBVIOUS
<1>5. RoundDiv(a, b) = x
  BY <1>1, <1>2, <1>4 DEF RoundDiv
<1>6. PICK p \in Nat : p = b * q
  BY <1>3
<1>7. b * (q + 1) = p + b
  BY <1>3, <1>6
<1>8. CASE 2 * r > b \/ (2 * r = b /\ q % 2 = 1)
  <2>1. x = q + 1 /\ 2 * r >= b
    BY <1>3, <1>4, <1>8
  <2>2. b * x = p + b
    BY <1>7, <2>1
  <2> QED
    BY <1>3, <1>5, <1>6, <2>1, <2>2 DEF Nearest
<1>9. CASE ~(2 * r > b \/ (2 * r = b /\ q % 2 = 1))
  <2>1. x = q /\ 2 * r <= b
    BY <1>3, <1>4, <1>9
  <2>2. b * x = p
    BY <1>6, <2>1
  <2> QED
    BY <1>3, <1>5, <1>6, <2>1, <2>2 DEF Nearest
<1> QED
  BY <1>8, <1>9

\* A product grows with its factor.
LEMMA TimesGrows ==
  ASSUME NEW c \in Nat, NEW x \in Int, NEW y \in Int, x <= y
  PROVE  c * x <= c * y
<1>1. PICK d \in Nat : y = x + d
  <2>1. y - x \in Nat /\ y = x + (y - x)
    OBVIOUS
  <2> QED
    BY <2>1
<1>2. PICK u \in Int, v \in Nat, w \in Int : u = c * x /\ v = c * d /\ w = c * y
  OBVIOUS
<1>3. w = u + v
  <2>1. c * (x + d) = c * x + c * d
    OBVIOUS
  <2> QED
    BY <1>1, <1>2, <2>1
<1>4. u <= w
  BY <1>3
<1> QED
  BY <1>2, <1>4

\* A rounded share is no more than its claim.
LEMMA ShareWithin ==
  ASSUME NEW a \in Nat, NEW f \in Nat, NEW T \in Nat \ {0}, f <= T, NEW x, Nearest(a * f, T, x)
  PROVE  x \in 0..a
<1>1. x \in Nat
  BY DEF Nearest
<1>2. PICK p \in Nat, q \in Nat, r \in Nat : p = a * f /\ q = T * a /\ r = T * x
  BY <1>1
<1>3. p <= q
  <2>1. a * f <= a * T /\ a * T = T * a
    BY TimesGrows
  <2> QED
    BY <1>2, <2>1
<1>4. 2 * r <= 2 * p + T
  BY <1>2 DEF Nearest
<1>5. ~(x >= a + 1)
  <2> SUFFICES ASSUME a + 1 <= x PROVE FALSE
    BY <1>1
  <2>1. T * (a + 1) <= T * x /\ T * (a + 1) = T * a + T
    BY <1>1, TimesGrows
  <2>2. q + T <= r
    BY <1>2, <2>1
  <2> QED
    BY <1>3, <1>4, <2>2
<1> QED
  BY <1>1, <1>5

\* Three claims a, b and c, the last of which gets what the others leave.
SharesFit(a, b, c, f, x, y) ==
  /\ x \in 0..a /\ y \in 0..b /\ f - (x + y) \in 0..c

\* Of three claims, the first two rounded, none gets more than it claims.
LEMMA ThreeShares ==
  ASSUME NEW a \in Nat, NEW b \in Nat, NEW c \in Nat \ {0}, NEW T, T = a + b + c, NEW f \in 1..T,
         NEW x, NEW y, x = RoundDiv(a * f, T), y = RoundDiv(b * f, T)
  PROVE  SharesFit(a, b, c, f, x, y)
<1>1. T \in Nat \ {0} /\ f \in Nat /\ f <= T /\ a * f \in Nat /\ b * f \in Nat
  OBVIOUS
<1>2. Nearest(a * f, T, x) /\ Nearest(b * f, T, y)
  BY <1>1, RoundIs
<1>3. x \in 0..a /\ y \in 0..b
  BY <1>1, <1>2, ShareWithin
<1>4. PICK z \in Int : z = f - (x + y)
  BY <1>3
<1>5. PICK p \in Nat, q \in Nat, r \in Nat, u \in Nat, v \in Nat, w \in Int, t \in Nat :
        /\ p = a * f /\ q = b * f /\ r = c * f /\ u = T * x /\ v = T * y /\ w = T * z /\ t = T * f
  <2>1. a * f \in Nat /\ b * f \in Nat /\ c * f \in Nat /\ T * f \in Nat
    BY <1>1
  <2>2. T * x \in Nat /\ T * y \in Nat /\ T * z \in Int
    BY <1>1, <1>3
  <2> QED
    BY <2>1, <2>2
<1>6. t = p + q + r
  <2>1. (a + b + c) * f = a * f + b * f + c * f
    BY <1>1
  <2> QED
    BY <1>5, <2>1
<1>7. w = t - u - v
  <2>1. T * (f - (x + y)) = T * f - T * x - T * y
    BY <1>1, <1>3
  <2> QED
    BY <1>4, <1>5, <2>1
<1>8. 2 * u <= 2 * p + T /\ 2 * p <= 2 * u + T /\ 2 * v <= 2 * q + T /\ 2 * q <= 2 * v + T
  BY <1>2, <1>5 DEF Nearest
<1>9. r > 0
  <2>1. c * 1 <= c * f
    BY <1>1, TimesGrows
  <2> QED
    BY <1>5, <2>1
<1>10. z >= 0
  <2>1. w > -T
    BY <1>1, <1>6, <1>7, <1>8, <1>9
  <2>2. ~(z <= -1)
    <3> SUFFICES ASSUME z <= -1 PROVE FALSE
      OBVIOUS
    <3>1. T * z <= T * (-1) /\ T * (-1) = -T
      BY <1>1, TimesGrows
    <3> QED
      BY <1>1, <1>5, <2>1, <3>1
  <2> QED
    BY <2>2
<1>11. z <= c
  <2>1. CASE f = T
    \* Then nothing is rounded.
    <3>1. \A d \in Nat, s \in Nat : 2 * (T * s) <= 2 * (d * T) + T /\ 2 * (d * T) <= 2 * (T * s) + T => s = d
      <4> SUFFICES ASSUME NEW d \in Nat, NEW s \in Nat,
                          2 * (T * s) <= 2 * (d * T) + T, 2 * (d * T) <= 2 * (T * s) + T
                   PROVE  s = d
        OBVIOUS
      <4>1. PICK h \in Nat, k \in Nat : h = T * s /\ k = T * d
        BY <1>1
      <4>2. 2 * h <= 2 * k + T /\ 2 * k <= 2 * h + T
        <5>1. d * T = T * d
          BY <1>1
        <5> QED
          BY <4>1, <5>1
      <4>3. ~(s >= d + 1)
        <5> SUFFICES ASSUME d + 1 <= s PROVE FALSE
          OBVIOUS
        <5>1. T * (d + 1) <= T * s /\ T * (d + 1) = T * d + T
          BY <1>1, TimesGrows
        <5>2. k + T <= h
          BY <4>1, <5>1
        <5> QED
          BY <1>1, <4>2, <5>2
      <4>4. ~(d >= s + 1)
        <5> SUFFICES ASSUME s + 1 <= d PROVE FALSE
          OBVIOUS
        <5>1. T * (s + 1) <= T * d /\ T * (s + 1) = T * s + T
          BY <1>1, TimesGrows
        <5>2. h + T <= k
          BY <4>1, <5>1
        <5> QED
          BY <1>1, <4>2, <5>2
      <4> QED
        BY <4>3, <4>4
    <3>2. x = a
      BY <1>2, <2>1, <3>1 DEF Nearest
    <3>3. y = b
      BY <1>2, <2>1, <3>1 DEF Nearest
    <3> QED
      BY <1>4, <2>1, <3>2, <3>3
  <2>2. CASE f < T
    <3>1. PICK s \in Nat : s = T * c
      BY <1>1
    <3>2. r < s
      <4>1. c * (f + 1) <= c * T /\ c * (f + 1) = c * f + c /\ c * T = T * c
        BY <1>1, <2>2, TimesGrows
      <4> QED
        BY <1>5, <3>1, <4>1
    <3>3. w < s + T
      BY <1>1, <1>6, <1>7, <1>8, <3>2
    <3>4. ~(z >= c + 1)
      <4> SUFFICES ASSUME c + 1 <= z PROVE FALSE
        OBVIOUS
      <4>1. T * (c + 1) <= T * z /\ T * (c + 1) = T * c + T
        BY <1>1, TimesGrows
      <4> QED
        BY <1>1, <1>5, <3>1, <3>3, <4>1
    <3> QED
      BY <3>4
  <2> QED
    BY <1>1, <2>1, <2>2
<1> QED
  BY <1>3, <1>4, <1>10, <1>11 DEF SharesFit

\* A sum of up to three entries.
SumUpTo3(f, n) ==
  /\ n = 1 => SumTo(f, n) = f[1]
  /\ n = 2 => SumTo(f, n) = f[1] + f[2]
  /\ n = 3 => SumTo(f, n) = f[1] + f[2] + f[3]

\* SumTo, written out for up to three entries.
LEMMA SumOfThree ==
  ASSUME NEW n \in 1..3, NEW f, IntsTo(f, n)
  PROVE  SumUpTo3(f, n)
<1> DEFINE F(k) == SumTo(f, k)
<1>1. F(0) = 0 /\ \A k \in 1..n : F(k) = F(k - 1) + f[k]
  BY SumIs
<1> HIDE DEF F
<1>2. f[1] \in Int
  BY DEF IntsTo
<1>3. F(1) = f[1]
  <2>1. F(1) = F(1 - 1) + f[1] /\ 1 - 1 = 0
    BY <1>1
  <2> QED
    BY <1>1, <1>2, <2>1
<1>4. n >= 2 => F(2) = f[1] + f[2]
  <2>1. n >= 2 => F(2) = F(2 - 1) + f[2] /\ 2 - 1 = 1
    BY <1>1
  <2> QED
    BY <1>3, <2>1
<1>5. n = 3 => F(3) = f[1] + f[2] + f[3]
  <2>1. n = 3 => F(3) = F(3 - 1) + f[3] /\ 3 - 1 = 2
    BY <1>1
  <2> QED
    BY <1>4, <2>1
<1> QED
  BY <1>3, <1>4, <1>5 DEF F, SumUpTo3

\* The last entry that is not done.
LastOf(n, owed, last) ==
  /\ last \in 1..n /\ owed[last] > 0
  /\ \A k \in 1..n : k > last => owed[k] = 0

\* The last entry that is owed something is well defined.
LEMMA LastIs ==
  ASSUME NEW n \in Nat, NEW owed \in [1..n -> Nat], \E k \in 1..n : owed[k] > 0
  PROVE  LastOf(n, owed, Max({k \in DOMAIN owed : owed[k] > 0}))
<1> DEFINE S == {k \in DOMAIN owed : owed[k] > 0}
<1>1. S # {} /\ S \subseteq 1..n /\ \A k \in 1..n : owed[k] > 0 => k \in S
  OBVIOUS
<1>2. \A k \in S : owed[k] > 0
  OBVIOUS
<1>3. PICK m : m = Max(S)
  OBVIOUS
<1> HIDE DEF S
<1>4. IsFiniteSet(S)
  <2>1. IsFiniteSet(1..n)
    BY FS_Interval
  <2> QED
    BY <1>1, <2>1, FS_Subset
<1>5. \A k \in S : k \in Int
  <2>1. \A k \in 1..n : k \in Int
    OBVIOUS
  <2> QED
    BY <1>1, <2>1
<1>6. \E x \in S : \A y \in S : x >= y
  BY <1>1, <1>4, <1>5, GreatestExists
<1>7. m \in S /\ \A y \in S : m >= y
  BY <1>3, <1>6 DEF Max
<1>8. ASSUME NEW k \in 1..n, k > m PROVE owed[k] = 0
  <2>1. k \notin S
    BY <1>1, <1>7, <1>8
  <2>2. ~(owed[k] > 0) /\ owed[k] \in Nat
    BY <1>1, <2>1
  <2> QED
    BY <2>2
<1>9. LastOf(n, owed, m)
  BY <1>1, <1>2, <1>7, <1>8 DEF LastOf
<1> QED
  BY <1>3, <1>9 DEF S

\* The shares of a fill: whole, no more than is owed, and all of the fill.
ShareOk(n, owed, q, s) ==
  s \in [1..n -> Nat] /\ (\A k \in 1..n : s[k] <= owed[k]) /\ SumTo(s, n) = q

\* The shares of a fill are exact: whole, within what is owed, and all of the fill.
LEMMA SharesAre ==
  ASSUME NEW n \in 1..3, NEW owed \in [1..n -> Nat], NEW T, T = SumTo(owed, n), NEW q \in 1..T
  PROVE  ShareOk(n, owed, q, Shares(owed, q))
<1>1. n \in Nat /\ \A k \in 1..n : owed[k] \in Nat
  OBVIOUS
<1>2. T \in Nat
  BY <1>1, SumNatural
<1>3. T \in Nat \ {0} /\ q \in Nat /\ q <= T
  BY <1>2
<1>4. Total(owed) = T
  BY <1>1, ListIs DEF Total
<1>5. \E k \in 1..n : owed[k] > 0
  <2> SUFFICES ASSUME \A k \in 1..n : ~(owed[k] > 0) PROVE FALSE
    OBVIOUS
  <2>1. \A k \in 1..n : owed[k] = 0
    BY <1>1
  <2>2. SumTo(owed, n) = 0
    BY <1>1, <2>1, SumNone
  <2> QED
    BY <1>3, <2>2
<1>6. PICK last : last = Max({k \in DOMAIN owed : owed[k] > 0})
  OBVIOUS
<1>7. LastOf(n, owed, last)
  BY <1>1, <1>5, <1>6, LastIs
<1>8. last \in 1..n /\ owed[last] > 0 /\ \A k \in 1..n : k > last => owed[k] = 0
  BY <1>7 DEF LastOf
<1>9. PICK R : R = Rounded(owed, q)
  OBVIOUS
<1>10. R = [k \in 1..n |-> RoundDiv(owed[k] * q, T)]
  BY <1>4, <1>9 DEF Rounded
<1>11. ASSUME NEW k \in 1..n PROVE R[k] \in 0..owed[k]
  <2>1. PICK a \in Nat : a = owed[k]
    BY <1>1
  <2>2. a * q \in Nat
    BY <1>3
  <2>3. PICK x : x = RoundDiv(a * q, T)
    OBVIOUS
  <2>4. Nearest(a * q, T, x)
    BY <1>3, <2>2, <2>3, RoundIs
  <2>5. x \in 0..a
    BY <1>3, <2>4, ShareWithin
  <2> QED
    BY <1>10, <2>1, <2>3, <2>5
<1>12. \A k \in 1..n : R[k] \in Nat /\ R[k] <= owed[k]
  BY <1>1, <1>11
<1>13. R \in [1..n -> Nat]
  BY <1>10, <1>12
<1>14. PICK s : s = Shares(owed, q)
  OBVIOUS
<1>15. PICK v : v = q - SumTo(R, last - 1)
  OBVIOUS
<1>16. s = [R EXCEPT ![last] = v]
  BY <1>6, <1>9, <1>14, <1>15 DEF Shares
<1>17. s[last] = v /\ \A k \in 1..n : k # last => s[k] = R[k]
  BY <1>8, <1>13, <1>16
<1>18. SumUpTo3(owed, n)
  BY <1>1, SumOfThree DEF IntsTo
<1>19. \A k \in 1..n : k > last => R[k] = 0
  BY <1>8, <1>12
\* What is claimed before the last entry.
<1>20. PICK a \in Nat, b \in Nat, c \in Nat \ {0} :
         /\ a = (IF last > 1 THEN owed[1] ELSE 0) /\ b = (IF last > 2 THEN owed[2] ELSE 0)
         /\ c = owed[last]
  BY <1>1, <1>8
<1>21. T = a + b + c
  <2>1. CASE n = 1
    BY <1>8, <1>18, <1>20, <2>1 DEF SumUpTo3
  <2>2. CASE n = 2
    <3>1. T = owed[1] + owed[2]
      BY <1>18, <2>2 DEF SumUpTo3
    <3>2. CASE last = 1
      BY <1>1, <1>8, <1>20, <2>2, <3>1, <3>2
    <3>3. CASE last = 2
      BY <1>1, <1>20, <2>2, <3>1, <3>3
    <3> QED
      BY <1>8, <2>2, <3>2, <3>3
  <2>3. CASE n = 3
    <3>1. T = owed[1] + owed[2] + owed[3]
      BY <1>18, <2>3 DEF SumUpTo3
    <3>2. CASE last = 1
      BY <1>1, <1>8, <1>20, <2>3, <3>1, <3>2
    <3>3. CASE last = 2
      BY <1>1, <1>8, <1>20, <2>3, <3>1, <3>3
    <3>4. CASE last = 3
      BY <1>1, <1>20, <2>3, <3>1, <3>4
    <3> QED
      BY <1>8, <2>3, <3>2, <3>3, <3>4
  <2> QED
    BY <2>1, <2>2, <2>3
<1>22. PICK x, y : x = RoundDiv(a * q, T) /\ y = RoundDiv(b * q, T)
  OBVIOUS
<1>23. SharesFit(a, b, c, q, x, y)
  BY <1>21, <1>22, ThreeShares
<1>24. x \in 0..a /\ y \in 0..b /\ q - (x + y) \in 0..c
  BY <1>23 DEF SharesFit
<1>25. SumTo(R, last - 1) = x + y
  <2>1. CASE last = 1
    <3>1. SumTo(R, last - 1) = 0
      BY <2>1, SumNone
    <3>2. x = 0 /\ y = 0
      BY <1>20, <1>24, <2>1
    <3> QED
      BY <3>1, <3>2
  <2>2. CASE last = 2
    <3>1. IntsTo(R, 1) /\ last - 1 = 1 /\ 1 \in 1..3
      BY <1>8, <1>12, <2>2 DEF IntsTo
    <3>2. SumTo(R, 1) = R[1]
      BY <3>1, SumOfThree DEF SumUpTo3
    <3>3. y = 0 /\ R[1] = x /\ x \in Nat
      BY <1>8, <1>10, <1>20, <1>22, <1>24, <2>2
    <3> QED
      BY <3>1, <3>2, <3>3
  <2>3. CASE last = 3
    <3>1. IntsTo(R, 2) /\ last - 1 = 2 /\ 2 \in 1..3
      BY <1>8, <1>12, <2>3 DEF IntsTo
    <3>2. SumTo(R, 2) = R[1] + R[2]
      BY <3>1, SumOfThree DEF SumUpTo3
    <3>3. R[1] = x /\ R[2] = y
      BY <1>8, <1>10, <1>20, <1>22, <2>3
    <3> QED
      BY <3>1, <3>2, <3>3
  <2> QED
    BY <1>8, <2>1, <2>2, <2>3
<1>26. v \in Nat /\ v <= owed[last] /\ v = q - (x + y)
  BY <1>15, <1>20, <1>24, <1>25
<1>27. \A k \in 1..n : s[k] \in Nat /\ s[k] <= owed[k]
  BY <1>12, <1>17, <1>26
<1>28. s \in [1..n -> Nat]
  <2>1. DOMAIN s = 1..n /\ s = [k \in 1..n |-> s[k]]
    BY <1>13, <1>16
  <2> QED
    BY <1>27, <2>1
<1>29. SumUpTo3(s, n)
  BY <1>27, SumOfThree DEF IntsTo
<1>30. SumTo(s, n) = q
  <2>1. CASE last = 1
    <3>1. s[1] = q /\ x = 0 /\ y = 0
      BY <1>17, <1>20, <1>24, <1>26, <2>1
    <3>2. \A k \in 1..n : k > 1 => s[k] = 0
      BY <1>17, <1>19, <2>1
    <3> QED
      BY <1>29, <3>1, <3>2 DEF SumUpTo3
  <2>2. CASE last = 2
    <3>1. s[1] = x /\ y = 0 /\ s[2] = q - x /\ x \in Nat
      BY <1>8, <1>10, <1>17, <1>20, <1>22, <1>24, <1>26, <2>2
    <3>2. \A k \in 1..n : k > 2 => s[k] = 0
      BY <1>17, <1>19, <2>2
    <3> QED
      BY <1>8, <1>29, <2>2, <3>1, <3>2 DEF SumUpTo3
  <2>3. CASE last = 3
    <3>0. n = 3 /\ x \in Nat /\ y \in Nat /\ s[3] = q - (x + y)
      BY <1>8, <1>17, <1>24, <1>26, <2>3
    <3>a. s[1] = R[1] /\ s[2] = R[2]
      BY <1>17, <2>3, <3>0
    <3>b. a = owed[1] /\ b = owed[2]
      BY <1>20, <2>3
    <3>c. R[1] = x /\ R[2] = y
      BY <1>10, <1>22, <3>0, <3>b
    <3>1. s[1] = x /\ s[2] = y /\ s[3] = q - (x + y) /\ n = 3 /\ x \in Nat /\ y \in Nat
      BY <3>0, <3>a, <3>c
    <3> QED
      BY <1>29, <3>1 DEF SumUpTo3
  <2> QED
    BY <1>8, <2>1, <2>2, <2>3
<1>31. ShareOk(n, owed, q, s)
  BY <1>27, <1>28, <1>30 DEF ShareOk
<1> QED
  BY <1>14, <1>31

\* What is allocated are the shares.
LEMMA AllocatedAre ==
  ASSUME NEW n \in 1..3, NEW owed \in [1..n -> Nat], NEW T, T = SumTo(owed, n), NEW q \in 1..T
  PROVE  ShareOk(n, owed, q, Allocate(owed, q))
<1>1. PICK s : s = Shares(owed, q)
  OBVIOUS
<1>2. ShareOk(n, owed, q, s)
  BY <1>1, SharesAre
<1>3. s \in [1..n -> Nat]
  BY <1>2 DEF ShareOk
<1>4. Total(owed) = T /\ DOMAIN owed = 1..n /\ T \in Nat
  <2>1. n \in Nat /\ \A k \in 1..n : owed[k] \in Nat
    OBVIOUS
  <2>2. T \in Nat
    BY <2>1, SumNatural
  <2> QED
    BY <2>1, <2>2, ListIs DEF Total
<1>5. ~(Total(owed) <= 0 \/ q <= 0)
  BY <1>4
<1>6. Allocate(owed, q) = [k \in 1..n |-> IF s[k] > 0 THEN s[k] ELSE 0]
  BY <1>1, <1>4, <1>5 DEF Allocate
<1>7. \A k \in 1..n : (IF s[k] > 0 THEN s[k] ELSE 0) = s[k]
  BY <1>3
<1>8. Allocate(owed, q) = s
  BY <1>3, <1>6, <1>7
<1> QED
  BY <1>2, <1>8

\* A batch, by position.
AsksFor(n, D, b, side) == \A k \in 1..n : (D[k] > 0 => b[k].side = side) /\ D[k] <= b[k].qty

\* The demand of one side of a batch asks for what the intents of that side ask.
LEMMA DemandIs ==
  ASSUME NEW n \in Nat, NEW S, NEW u \in Nat, NEW b \in [1..n -> [side: S, qty: 1..u]], NEW side, NEW D,
         D = Demand(b, side)
  PROVE  D \in [1..n -> Nat] /\ DOMAIN b = 1..n /\ AsksFor(n, D, b, side)
<1>1. \A k \in 1..n : b[k].qty \in Nat
  OBVIOUS
<1>2. D = [k \in 1..n |-> IF b[k].side = side THEN b[k].qty ELSE 0]
  BY DEF Demand
<1> QED
  BY <1>1, <1>2 DEF AsksFor

\* A batch of any length is matched as the reference definition says.
LEMMA BatchOverlaps ==
  ASSUME NEW n \in Nat, NEW S, NEW u \in Nat, batch \in [1..n -> [side: S, qty: 1..u]]
  PROVE  MatchIsOverlap
<1> DEFINE D == Demand(batch, "BUY")
           E == Demand(batch, "SELL")
           crosses == Match(D, E).crosses
<1>1. D \in [1..n -> Nat] /\ E \in [1..n -> Nat] /\ DOMAIN batch = 1..n
  BY DemandIs
<1>2. CrossesMatch(n, D, E, crosses)
  <2> HIDE DEF D, E
  <2> QED
    BY <1>1, MatchOverlaps
<1> HIDE DEF D, E, crosses
<1>3. \A x \in DOMAIN crosses :
        /\ crosses[x].buyer \in DOMAIN batch /\ crosses[x].seller \in DOMAIN batch
        /\ crosses[x].qty > 0
        /\ crosses[x].qty = OverlapEnd(D, E, crosses[x].buyer, crosses[x].seller) -
                            OverlapStart(D, E, crosses[x].buyer, crosses[x].seller)
  <2>1. \A x \in DOMAIN crosses :
          /\ crosses[x].buyer \in 1..n /\ crosses[x].seller \in 1..n /\ crosses[x].qty > 0
          /\ crosses[x].qty = OverlapWidth(D, E, crosses[x].buyer, crosses[x].seller)
    BY <1>2 DEF CrossesMatch
  <2> QED
    BY <1>1, <2>1 DEF OverlapWidth
<1>4. \A x, y \in DOMAIN crosses : x < y => Before(crosses[x], crosses[y])
  BY <1>2 DEF CrossesMatch
<1>5. \A i, j \in DOMAIN batch : OverlapEnd(D, E, i, j) - OverlapStart(D, E, i, j) > 0 =>
        \E x \in DOMAIN crosses : crosses[x].buyer = i /\ crosses[x].seller = j
  <2>1. \A i, j \in 1..n : OverlapWidth(D, E, i, j) > 0 =>
          \E x \in DOMAIN crosses : crosses[x].buyer = i /\ crosses[x].seller = j
    BY <1>2 DEF CrossesMatch
  <2> QED
    BY <1>1, <2>1 DEF OverlapWidth
<1> QED
  BY <1>3, <1>4, <1>5 DEF MatchIsOverlap, D, E, crosses

\* The residual of a batch is its net demand.
LEMMA BatchNets ==
  ASSUME NEW n \in Nat, NEW S, NEW u \in Nat, batch \in [1..n -> [side: S, qty: 1..u]]
  PROVE  ResidualIsNet
<1>1. PICK D, E : D = Demand(batch, "BUY") /\ E = Demand(batch, "SELL")
  OBVIOUS
<1>2. D \in [1..n -> Nat] /\ E \in [1..n -> Nat] /\ DOMAIN batch = 1..n
  BY <1>1, DemandIs
<1>3. PICK m : m = Match(D, E)
  OBVIOUS
<1>4. PICK r : r = NetSymbol(batch)
  OBVIOUS
<1>5. NetOf(n, D, E, m, r)
  BY <1>1, <1>2, <1>3, <1>4, NetIs
<1>6. Leaves(n, D, E, m)
  BY <1>2, <1>3, MatchLeaves
<1>7. r.owed \in [1..n -> Nat] /\ SumTo(r.owed, n) = r.qty
  BY <1>5 DEF NetOf
<1>8. Total(r.owed) = r.qty
  BY <1>7, ListIs DEF Total
<1>9. ASSUME NEW k \in 1..n, r.owed[k] > 0 PROVE batch[k].side = r.side
  <2>1. CASE r.side = "BUY"
    <3>1. r.owed[k] <= D[k] /\ r.owed[k] \in Nat /\ D[k] \in Nat
      BY <1>2, <1>5, <1>6, <1>7, <2>1 DEF NetOf, Leaves
    <3>2. D[k] > 0
      BY <1>9, <3>1
    <3>3. AsksFor(n, D, batch, "BUY")
      BY <1>1, DemandIs
    <3>4. batch[k].side = "BUY"
      BY <3>2, <3>3 DEF AsksFor
    <3> QED
      BY <2>1, <3>4
  <2>2. CASE r.side = "SELL"
    <3>1. r.owed[k] <= E[k] /\ r.owed[k] \in Nat /\ E[k] \in Nat
      BY <1>2, <1>5, <1>6, <1>7, <2>2 DEF NetOf, Leaves
    <3>2. E[k] > 0
      BY <1>9, <3>1
    <3>3. AsksFor(n, E, batch, "SELL")
      BY <1>1, DemandIs
    <3>4. batch[k].side = "SELL"
      BY <3>2, <3>3 DEF AsksFor
    <3> QED
      BY <2>2, <3>4
  <2>3. CASE r.side = "NONE"
    <3>1. r.owed[k] = 0
      BY <1>5, <2>3 DEF NetOf
    <3> QED
      BY <1>9, <3>1
  <2> QED
    BY <1>5, <2>1, <2>2, <2>3 DEF NetOf
<1> QED
  BY <1>2, <1>4, <1>8, <1>9 DEF ResidualIsNet

\* A fill of a batch of up to three intents is allocated exactly.
LEMMA BatchAllocates ==
  ASSUME NEW n \in 1..3, NEW u \in Nat, batch \in [1..n -> [side: {"BUY"}, qty: 1..u]],
         fill \in 1..Total(Demand(batch, "BUY"))
  PROVE  AllocationIsExact /\ AllocationWithinDemand
<1>1. PICK D : D = Demand(batch, "BUY")
  OBVIOUS
<1>2. D \in [1..n -> Nat] /\ DOMAIN batch = 1..n /\ \A k \in 1..n : D[k] <= batch[k].qty
  <2>1. n \in Nat
    OBVIOUS
  <2>2. D \in [1..n -> Nat] /\ DOMAIN batch = 1..n /\ AsksFor(n, D, batch, "BUY")
    BY <1>1, <2>1, DemandIs
  <2> QED
    BY <2>2 DEF AsksFor
<1>3. PICK T : T = SumTo(D, n)
  OBVIOUS
<1>4. Total(D) = T
  BY <1>2, <1>3, ListIs DEF Total
<1>5. fill \in 1..T
  BY <1>1, <1>4
<1>6. ShareOk(n, D, fill, Shares(D, fill))
  BY <1>2, <1>3, <1>5, SharesAre
<1>7. ShareOk(n, D, fill, Allocate(D, fill))
  BY <1>2, <1>3, <1>5, AllocatedAre
<1>8. PICK w : w = Allocate(D, fill)
  OBVIOUS
<1>9. w \in [1..n -> Nat] /\ SumTo(w, n) = fill
  BY <1>7, <1>8 DEF ShareOk
<1>10. Total(w) = fill
  BY <1>9, ListIs DEF Total
<1>11. AllocationIsExact
  BY <1>1, <1>8, <1>10 DEF AllocationIsExact
<1>12. PICK s : s = Shares(D, fill)
  OBVIOUS
<1>13. s \in [1..n -> Nat] /\ \A k \in 1..n : s[k] <= D[k]
  BY <1>6, <1>12 DEF ShareOk
<1>14. ASSUME NEW k \in 1..n PROVE s[k] \in 0..batch[k].qty
  <2>1. s[k] \in Nat /\ D[k] \in Nat /\ batch[k].qty \in Nat /\ s[k] <= D[k] /\ D[k] <= batch[k].qty
    BY <1>2, <1>13
  <2> QED
    BY <2>1
<1>15. AllocationWithinDemand
  BY <1>1, <1>2, <1>12, <1>14 DEF AllocationWithinDemand
<1> QED
  BY <1>11, <1>15

\* netting.py and fill_allocation.py: whatever the batch, the match crosses what the two
\* sides have in common and the order is for the rest, owed to intents of its side; a fill
\* of it is allocated exactly and within what is owed, to up to three intents (with four
\* of them the rounded shares may exceed the fill: cell_allocate_many).
THEOREM CellMathAlwaysExact ==
  ASSUME FillIntents <= 3
  PROVE  MathSpec => []CellMathIsExact
<1>1. MathInit => CellMathIsExact
  <2> SUFFICES ASSUME MathInit PROVE CellMathIsExact
    OBVIOUS
  <2>1. MatchIntents \in Nat /\ MatchUnits \in Nat /\ FillIntents \in Nat /\ FillUnits \in Nat
    BY MathAssumption
  <2>2. CASE batch \in Batches(MatchIntents, {"BUY", "SELL"}, MatchUnits) /\ fill = 0
    <3>1. PICK n \in 1..MatchIntents : batch \in [1..n -> [side: {"BUY", "SELL"}, qty: 1..MatchUnits]]
      BY <2>2 DEF Batches
    <3>2. n \in Nat
      BY <2>1
    <3>3. MatchIsOverlap /\ ResidualIsNet
      BY <2>1, <3>1, <3>2, BatchOverlaps, BatchNets
    <3>4. AllocationIsExact /\ AllocationWithinDemand
      BY <2>2 DEF AllocationIsExact, AllocationWithinDemand
    <3> QED
      BY <3>3, <3>4 DEF CellMathIsExact
  <2>3. CASE batch \in Batches(FillIntents, {"BUY"}, FillUnits) /\ fill \in 1..Total(Demand(batch, "BUY"))
    <3>1. PICK n \in 1..FillIntents : batch \in [1..n -> [side: {"BUY"}, qty: 1..FillUnits]]
      BY <2>3 DEF Batches
    <3>2. n \in Nat /\ n \in 1..3
      BY <2>1
    <3>3. MatchIsOverlap /\ ResidualIsNet
      BY <2>1, <3>1, <3>2, BatchOverlaps, BatchNets
    <3>4. AllocationIsExact /\ AllocationWithinDemand
      BY <2>1, <2>3, <3>1, <3>2, BatchAllocates
    <3> QED
      BY <3>3, <3>4 DEF CellMathIsExact
  <2> QED
    BY <2>2, <2>3 DEF MathInit
<1>2. CellMathIsExact /\ [MathNext]_mathvars => CellMathIsExact'
  <2> SUFFICES ASSUME CellMathIsExact, [MathNext]_mathvars PROVE CellMathIsExact'
    OBVIOUS
  <2>1. batch' = batch /\ fill' = fill
    BY DEF MathNext, mathvars
  <2> QED
    BY <2>1 DEF CellMathIsExact, MatchIsOverlap, ResidualIsNet, AllocationIsExact, AllocationWithinDemand
<1> QED
  BY <1>1, <1>2, PTL DEF MathSpec

-----------------------------------------------------------------------------
(* Sums over the cells.                                                    *)

\* Scaled entries.
LEMMA SumScaled ==
  ASSUME NEW n \in Nat, NEW f, IntsTo(f, n), NEW p \in Int, NEW h, \A k \in 1..n : h[k] = p * f[k]
  PROVE  SumTo(h, n) = p * SumTo(f, n)
<1> DEFINE F(k) == SumTo(f, k)
           H(k) == SumTo(h, k)
           S == {k \in 0..n : H(k) = p * F(k)}
<1>0. IntsTo(h, n)
  BY DEF IntsTo
<1>1. F(0) = 0 /\ (\A k \in 0..n : F(k) \in Int) /\ \A k \in 1..n : F(k) = F(k - 1) + f[k]
  BY SumIs
<1>2. H(0) = 0 /\ \A k \in 1..n : H(k) = H(k - 1) + h[k]
  BY <1>0, SumIs
<1> HIDE DEF F, H
<1>3. 0 \in S
  BY <1>1, <1>2
<1>4. ASSUME NEW k \in 0..n-1, k \in S PROVE k + 1 \in S
  <2>1. k + 1 \in 1..n /\ k + 1 \in 0..n /\ (k + 1) - 1 = k /\ k \in 0..n
    OBVIOUS
  <2>2. F(k + 1) = F(k) + f[k + 1] /\ H(k + 1) = H(k) + h[k + 1] /\ H(k) = p * F(k)
    BY <1>1, <1>2, <1>4, <2>1
  <2>3. PICK x \in Int, y \in Int : x = F(k) /\ y = f[k + 1]
    BY <1>1, <2>1 DEF IntsTo
  <2>4. h[k + 1] = p * y
    BY <2>1, <2>3
  <2>5. p * (x + y) = p * x + p * y
    OBVIOUS
  <2>6. H(k + 1) = p * F(k + 1)
    BY <2>2, <2>3, <2>4, <2>5
  <2> QED
    BY <2>1, <2>6
<1>5. n \in S
  <2> HIDE DEF S
  <2>1. \A k \in 0..n : k \in S
    BY <1>3, <1>4, CountUp
  <2> QED
    BY <2>1
<1> QED
  BY <1>5 DEF F, H

\* Bounded entries.
LEMMA SumBounded ==
  ASSUME NEW n \in Nat, NEW u \in Nat, NEW f, \A k \in 1..n : f[k] \in 0..u
  PROVE  SumTo(f, n) \in 0..n*u
<1> DEFINE F(k) == SumTo(f, k)
           S == {k \in 0..n : F(k) \in 0..k*u}
<1>0. IntsTo(f, n)
  BY DEF IntsTo
<1>1. F(0) = 0 /\ \A k \in 1..n : F(k) = F(k - 1) + f[k]
  BY <1>0, SumIs
<1> HIDE DEF F
<1>2. 0 \in S
  BY <1>1
<1>3. ASSUME NEW k \in 0..n-1, k \in S PROVE k + 1 \in S
  <2>1. k + 1 \in 1..n /\ k + 1 \in 0..n /\ (k + 1) - 1 = k /\ k \in 0..n
    OBVIOUS
  <2>2. PICK w \in Nat : w = k * u
    OBVIOUS
  <2>3. (k + 1) * u = w + u
    BY <2>2
  <2>4. F(k + 1) = F(k) + f[k + 1] /\ F(k) \in 0..w /\ f[k + 1] \in 0..u
    BY <1>1, <1>3, <2>1, <2>2
  <2>5. F(k + 1) \in 0..(w + u)
    BY <2>4
  <2> QED
    BY <2>1, <2>3, <2>5
<1>4. n \in S
  <2> HIDE DEF S
  <2>1. \A k \in 0..n : k \in S
    BY <1>2, <1>3, CountUp
  <2> QED
    BY <2>1
<1> QED
  BY <1>4 DEF F

\* Only one entry.
LEMMA SumOfOne ==
  ASSUME NEW n \in Nat, NEW d \in 1..n, NEW q \in Nat, NEW f, \A k \in 1..n : f[k] = OwnPart(d, k, q)
  PROVE  SumTo(f, n) = q
<1>1. PICK z : z = [k \in 1..n |-> 0]
  OBVIOUS
<1>2. (\A k \in 1..n : z[k] = 0) /\ IntsTo(z, n)
  BY <1>1 DEF IntsTo
<1>3. IntsTo(f, n) /\ f[d] = q /\ DifferAt(z, f, n, d)
  BY <1>2 DEF IntsTo, OwnPart, DifferAt
<1>4. SumTo(f, n) = SumTo(z, n) - z[d] + f[d]
  BY <1>2, <1>3, SumChanged
<1>5. SumTo(z, n) = 0
  BY <1>2, SumNone
<1> QED
  BY <1>2, <1>3, <1>4, <1>5

\* What the cells have of a list, cell by cell.
ByCell(of, list, n) == [c \in Cell |-> CellSum(of, c, list, n)]

\* The cells' parts of a list add up to the list.
LEMMA CellsTotal ==
  ASSUME NEW n \in Nat, NEW list, Naturals1(list, n), NEW of, \A k \in 1..n : of[k] \in Cell
  PROVE  SumTo(ByCell(of, list, n), NCells) = SumTo(list, n)
<1>0. NCells \in Nat
  BY NettingAssumption
<1> DEFINE L(k) == SumTo(list, k)
           B(k) == ByCell(of, list, k)
           S == {k \in 0..n : SumTo(B(k), NCells) = L(k)}
<1>1. L(0) = 0 /\ (\A k \in 0..n : L(k) \in Int) /\ \A k \in 1..n : L(k) = L(k - 1) + list[k]
  <2>1. IntsTo(list, n)
    BY DEF IntsTo, Naturals1
  <2> QED
    BY <2>1, SumIs
<1>2. \A k \in 0..n, c \in Cell : B(k)[c] = CellSum(of, c, list, k)
  BY DEF ByCell
<1>3. \A k \in 0..n : Naturals1(list, k) /\ k \in Nat
  BY DEF Naturals1
<1>4. \A k \in 0..n : IntsTo(B(k), NCells)
  <2> SUFFICES ASSUME NEW k \in 0..n, NEW c \in Cell PROVE B(k)[c] \in Int
    BY DEF IntsTo, Cell
  <2>1. CellSum(of, c, list, k) \in Nat
    BY <1>3, CellSumIs
  <2> QED
    BY <1>2, <2>1
<1> HIDE DEF L, B
<1>5. 0 \in S
  <2>1. \A c \in Cell : B(0)[c] = 0
    <3> SUFFICES ASSUME NEW c \in Cell PROVE B(0)[c] = 0
      OBVIOUS
    <3>1. CellSum(of, c, list, 0) = 0
      <4>1. PICK f : f = OfCell(of, c, list, 0)
        OBVIOUS
      <4>2. SumTo(f, 0) = 0
        BY SumNone
      <4> QED
        BY <4>1, <4>2 DEF CellSum
    <3> QED
      BY <1>2, <3>1
  <2>2. SumTo(B(0), NCells) = 0
    BY <1>0, <2>1, SumNone DEF Cell
  <2> QED
    BY <1>1, <2>2
<1>6. ASSUME NEW k \in 0..n-1, k \in S PROVE k + 1 \in S
  <2>1. k + 1 \in 1..n /\ k + 1 \in 0..n /\ (k + 1) - 1 = k /\ k \in 0..n /\ k \in Nat
    OBVIOUS
  <2>2. PICK q \in Nat : q = list[k + 1]
    BY <2>1 DEF Naturals1
  <2>3. PICK d \in Cell : d = of[k + 1]
    BY <2>1
  <2>4. PICK g : g = [c \in Cell |-> OwnPart(d, c, q)]
    OBVIOUS
  <2>5. PICK x, y : x = B(k) /\ y = B(k + 1)
    OBVIOUS
  <2>6. \A c \in 1..NCells : y[c] = x[c] + g[c]
    <3> SUFFICES ASSUME NEW c \in Cell PROVE y[c] = x[c] + g[c]
      BY DEF Cell
    <3>1. GrowsBy(of, list, of, list, k, d, q)
      BY <2>1, <2>2, <2>3 DEF GrowsBy, Naturals1
    <3>2. CellSum(of, c, list, k + 1) = CellSum(of, c, list, k) + OwnPart(d, c, q)
      BY <2>1, <3>1, CellSumMore
    <3>3. g[c] = OwnPart(d, c, q)
      BY <2>4
    <3>4. x[c] = CellSum(of, c, list, k) /\ y[c] = CellSum(of, c, list, k + 1)
      BY <1>2, <2>1, <2>5
    <3> QED
      BY <3>2, <3>3, <3>4
  <2>7. IntsTo(x, NCells) /\ IntsTo(g, NCells)
    BY <1>4, <2>1, <2>4, <2>5 DEF IntsTo, OwnPart, Cell
  <2>8. SumTo(y, NCells) = SumTo(x, NCells) + SumTo(g, NCells)
    BY <1>0, <2>6, <2>7, SumAdds
  <2>9. SumTo(g, NCells) = q
    <3>1. d \in 1..NCells /\ \A c \in 1..NCells : g[c] = OwnPart(d, c, q)
      BY <2>3, <2>4 DEF Cell
    <3> QED
      BY <1>0, <3>1, SumOfOne
  <2>10. SumTo(x, NCells) = L(k)
    BY <1>6, <2>5
  <2>11. L(k + 1) = L(k) + q
    BY <1>1, <2>1, <2>2
  <2>12. SumTo(B(k + 1), NCells) = L(k + 1)
    BY <2>5, <2>8, <2>9, <2>10, <2>11
  <2> QED
    BY <2>1, <2>12
<1>7. n \in S
  <2> HIDE DEF S
  <2>1. \A k \in 0..n : k \in S
    BY <1>5, <1>6, CountUp
  <2> QED
    BY <2>1
<1> QED
  BY <1>7 DEF L, B

\* PerCell adds up every cell's part.
PerCellOk(n, of, list, w) ==
  w \in [Cell -> Nat] /\ (\A c \in Cell : w[c] = CellSum(of, c, list, n)) /\ SumTo(w, NCells) = SumTo(list, n)

\* PerCell gives every cell's part, and these add up to the list.
LEMMA PerCellIs ==
  ASSUME NEW n \in Nat, NEW list \in [1..n -> Nat], NEW of, \A k \in 1..n : of[k] \in Cell
  PROVE  PerCellOk(n, of, list, PerCell(of, list))
<1>1. Naturals1(list, n)
  BY DEF Naturals1
<1>2. ASSUME NEW c \in Cell PROVE PerCell(of, list)[c] = CellSum(of, c, list, n)
  <2>1. PICK f : f = OfCell(of, c, list, n)
    OBVIOUS
  <2>2. f \in [1..n -> Nat]
    BY <2>1 DEF OfCell
  <2>3. Len(f) = n
    BY <2>2, ListIs
  <2>4. PerCell(of, list)[c] = Total(f)
    BY <2>1 DEF PerCell, OfCell
  <2> QED
    BY <2>1, <2>3, <2>4 DEF Total, CellSum
<1>3. PICK w : w = PerCell(of, list)
  OBVIOUS
<1>4. w = [c \in Cell |-> w[c]]
  BY <1>3 DEF PerCell
<1>5. \A c \in Cell : w[c] = CellSum(of, c, list, n)
  BY <1>2, <1>3
<1>6. \A c \in Cell : w[c] \in Nat
  BY <1>1, <1>5, CellSumIs
<1>7. w = ByCell(of, list, n)
  BY <1>4, <1>5 DEF ByCell
<1>8. SumTo(w, NCells) = SumTo(list, n)
  BY <1>1, <1>7, CellsTotal
<1>9. w \in [Cell -> Nat]
  BY <1>4, <1>6
<1>10. PerCellOk(n, of, list, w)
  BY <1>5, <1>8, <1>9 DEF PerCellOk
<1> QED
  BY <1>3, <1>10

\* Legs of a posting, cell by cell.
LegsTyped(legs) == legs.bought \in [Cell -> Nat] /\ legs.sold \in [Cell -> Nat]

\* Ledger entries to which p times what is sold, less what is bought, is added.
AddsLegs(f, b, s, p, g, n) == \A c \in 1..n : g[c] = f[c] + p * (s[c] - b[c])
SumAddsLegs(f, b, s, p, g, n) == SumTo(g, n) = SumTo(f, n) + p * (SumTo(s, n) - SumTo(b, n))

\* A sum of entries to which legs are added.
LEMMA AddedUp ==
  ASSUME NEW n \in Nat, NEW f \in [1..n -> Nat], NEW b \in [1..n -> Nat], NEW s \in [1..n -> Nat],
         NEW p \in Int, NEW g, AddsLegs(f, b, s, p, g, n)
  PROVE  SumAddsLegs(f, b, s, p, g, n)
<1>1. \A c \in 1..n : f[c] \in Int /\ b[c] \in Int /\ s[c] \in Int
  OBVIOUS
<1>2. PICK d \in [1..n -> Int] : \A c \in 1..n : d[c] = s[c] - b[c]
  <2>1. PICK d : d = [c \in 1..n |-> s[c] - b[c]]
    OBVIOUS
  <2>2. d \in [1..n -> Int] /\ \A c \in 1..n : d[c] = s[c] - b[c]
    BY <1>1, <2>1
  <2> QED
    BY <2>2
<1>3. PICK e \in [1..n -> Int] : \A c \in 1..n : e[c] = p * d[c]
  <2>1. PICK e : e = [c \in 1..n |-> p * d[c]]
    OBVIOUS
  <2>2. e \in [1..n -> Int] /\ \A c \in 1..n : e[c] = p * d[c]
    BY <1>2, <2>1
  <2> QED
    BY <2>2
<1>4. \A c \in 1..n : s[c] = b[c] + d[c]
  <2> SUFFICES ASSUME NEW c \in 1..n PROVE s[c] = b[c] + d[c]
    OBVIOUS
  <2>1. d[c] = s[c] - b[c] /\ s[c] \in Int /\ b[c] \in Int
    BY <1>1, <1>2
  <2> QED
    BY <2>1
<1>5. \A c \in 1..n : g[c] = f[c] + e[c]
  <2> SUFFICES ASSUME NEW c \in 1..n PROVE g[c] = f[c] + e[c]
    OBVIOUS
  <2>1. g[c] = f[c] + p * (s[c] - b[c])
    BY DEF AddsLegs
  <2>2. d[c] = s[c] - b[c] /\ e[c] = p * d[c]
    BY <1>2, <1>3
  <2> QED
    BY <2>1, <2>2
<1>6. IntsTo(f, n) /\ IntsTo(b, n) /\ IntsTo(s, n) /\ IntsTo(d, n) /\ IntsTo(e, n)
  BY DEF IntsTo
<1>7. SumTo(s, n) = SumTo(b, n) + SumTo(d, n)
  BY <1>4, <1>6, SumAdds
<1>8. SumTo(e, n) = p * SumTo(d, n)
  BY <1>3, <1>6, SumScaled
<1>9. SumTo(g, n) = SumTo(f, n) + SumTo(e, n)
  BY <1>5, <1>6, SumAdds
<1>10. PICK x \in Int, y \in Int, z \in Int : x = SumTo(s, n) /\ y = SumTo(b, n) /\ z = SumTo(d, n)
  BY <1>6, SumIs
<1>11. z = x - y
  BY <1>7, <1>10
<1> QED
  BY <1>8, <1>9, <1>10, <1>11 DEF SumAddsLegs

\* Posting the legs.
Posted(legs, p) ==
  /\ cash' \in [Cell -> Nat] /\ pos' \in [Cell -> Nat]
  /\ SumTo(pos', NCells) = SumTo(pos, NCells) + (SumTo(legs.bought, NCells) - SumTo(legs.sold, NCells))
  /\ SumTo(cash', NCells) = SumTo(cash, NCells) + p * (SumTo(legs.sold, NCells) - SumTo(legs.bought, NCells))
  /\ \A c \in Cell : /\ pos'[c] = pos[c] + legs.bought[c] - legs.sold[c]
                     /\ cash'[c] = cash[c] + p * (legs.sold[c] - legs.bought[c])

\* A posting that is accepted leaves no ledger negative, and its sums are those of its legs.
LEMMA PostingIs ==
  ASSUME cash \in [Cell -> Nat], pos \in [Cell -> Nat], NEW legs, LegsTyped(legs), NEW p \in Nat,
         LegsOk(legs, p), PostLegs(legs, p)
  PROVE  Posted(legs, p)
<1>0. NCells \in Nat
  BY NettingAssumption
<1>1. PICK b \in [Cell -> Nat], s \in [Cell -> Nat] : b = legs.bought /\ s = legs.sold
  BY DEF LegsTyped
<1>2. PICK f \in [Cell -> Nat], g \in [Cell -> Nat] : f = cash /\ g = pos
  OBVIOUS
<1>3. PICK f2, g2 : f2 = cash' /\ g2 = pos'
  OBVIOUS
<1>4. /\ g2 = [c \in Cell |-> g[c] + b[c] - s[c]]
      /\ f2 = [c \in Cell |-> f[c] + p * (s[c] - b[c])]
  BY <1>1, <1>2, <1>3 DEF PostLegs
<1>5. \A c \in Cell : s[c] <= g[c] /\ f[c] + p * (s[c] - b[c]) >= 0
  BY <1>1, <1>2 DEF LegsOk
<1>6. \A c \in Cell : g2[c] = g[c] + b[c] - s[c] /\ f2[c] = f[c] + p * (s[c] - b[c])
  BY <1>4
<1>7. \A c \in Cell : /\ f[c] \in Nat /\ g[c] \in Nat /\ b[c] \in Nat /\ s[c] \in Nat
                      /\ p * (s[c] - b[c]) \in Int
  OBVIOUS
<1>8. \A c \in Cell : f2[c] \in Nat /\ g2[c] \in Nat
  BY <1>5, <1>6, <1>7
<1>9. f2 \in [Cell -> Nat] /\ g2 \in [Cell -> Nat]
  BY <1>4, <1>8
<1>10. SumTo(f2, NCells) = SumTo(f, NCells) + p * (SumTo(s, NCells) - SumTo(b, NCells))
  <2>1. AddsLegs(f, b, s, p, f2, NCells)
    BY <1>6 DEF AddsLegs, Cell
  <2>2. p \in Int
    OBVIOUS
  <2>3. SumAddsLegs(f, b, s, p, f2, NCells)
    BY <1>0, <2>1, <2>2, AddedUp DEF Cell
  <2> QED
    BY <2>3 DEF SumAddsLegs
<1>11. SumTo(g2, NCells) = SumTo(g, NCells) + (SumTo(b, NCells) - SumTo(s, NCells))
  <2>1. \A c \in 1..NCells : g2[c] = g[c] + 1 * (b[c] - s[c])
    BY <1>6, <1>7 DEF Cell
  <2>i. PICK one \in Int : one = 1
    OBVIOUS
  <2>a. AddsLegs(g, s, b, one, g2, NCells)
    BY <2>1, <2>i DEF AddsLegs
  <2>b. SumAddsLegs(g, s, b, one, g2, NCells)
    BY <1>0, <2>a, AddedUp DEF Cell
  <2>2. SumTo(g2, NCells) = SumTo(g, NCells) + 1 * (SumTo(b, NCells) - SumTo(s, NCells))
    BY <2>b, <2>i DEF SumAddsLegs
  <2>3. PICK x \in Int, y \in Int : x = SumTo(b, NCells) /\ y = SumTo(s, NCells)
    <3>1. IntsTo(b, NCells) /\ IntsTo(s, NCells)
      BY DEF IntsTo, Cell
    <3> QED
      BY <1>0, <3>1, SumIs
  <2>4. 1 * (x - y) = x - y
    OBVIOUS
  <2> QED
    BY <2>2, <2>3, <2>4
<1> QED
  BY <1>1, <1>2, <1>3, <1>6, <1>9, <1>10, <1>11 DEF Posted

-----------------------------------------------------------------------------
\* What a batch asks for, and what its crosses and its order make of it.
AskedBy(n, b, side, c) == CellSum(CellsOf(b), c, Demand(b, side), n)

NettedLegs(n, b, r, legs) ==
  /\ LegsTyped(legs) /\ SumTo(legs.bought, NCells) = SumTo(legs.sold, NCells)
  /\ \A c \in Cell :
       /\ AskedBy(n, b, "BUY", c) = legs.bought[c] +
            (IF r.side = "BUY" THEN PerCell(CellsOf(b), r.owed)[c] ELSE 0)
       /\ AskedBy(n, b, "SELL", c) = legs.sold[c] +
            (IF r.side = "BUY" THEN 0 ELSE PerCell(CellsOf(b), r.owed)[c])

\* Nothing left for anybody.
LEMMA NothingLeft ==
  ASSUME NEW n \in Nat, NEW f, \A k \in 1..n : f[k] = 0, NEW of, NEW c
  PROVE  CellSum(of, c, f, n) = 0
<1>1. PICK g : g = OfCell(of, c, f, n)
  OBVIOUS
<1>2. \A k \in 1..n : g[k] = 0
  BY <1>1 DEF OfCell
<1>3. SumTo(g, n) = 0
  BY <1>2, SumNone
<1> QED
  BY <1>1, <1>3 DEF CellSum

\* The two legs of the crosses.
BothLegs(of, crosses, legs) ==
  /\ LegsTyped(legs) /\ SumTo(legs.bought, NCells) = SumTo(legs.sold, NCells)
  /\ \A c \in Cell : /\ legs.bought[c] = CrossSum(BuyersOf(of, crosses), c, crosses)
                     /\ legs.sold[c] = CrossSum(SellersOf(of, crosses), c, crosses)

\* The legs of the crosses: what is bought across is what is sold across.
LEMMA CrossLegsAre ==
  ASSUME NEW n \in Nat, NEW b, DOMAIN b = 1..n, NEW crosses \in Seq(CrossOf(n)),
         NEW of, of = CellsOf(b), \A k \in 1..n : of[k] \in Cell, NEW legs, legs = CrossLegs(b, crosses)
  PROVE  BothLegs(of, crosses, legs)
<1>1. PICK l \in Nat : l = Len(crosses) /\ DOMAIN crosses = 1..l
  OBVIOUS
<1>2. \A x \in 1..l : crosses[x] \in CrossOf(n)
  BY <1>1
<1>3. \A x \in 1..l : crosses[x].buyer \in 1..n /\ crosses[x].seller \in 1..n /\ crosses[x].qty \in Nat
  BY <1>2 DEF CrossOf
<1>4. PICK f : f = Crossed(crosses)
  OBVIOUS
<1>5. f \in [1..l -> Nat]
  BY <1>1, <1>3, <1>4 DEF Crossed
<1>6. \A k \in 1..n : of[k] = b[k].cell
  BY DEF CellsOf
<1>7. PICK u, v : u = BuyersOf(of, crosses) /\ v = SellersOf(of, crosses)
  OBVIOUS
<1>8. /\ u = [x \in DOMAIN crosses |-> b[crosses[x].buyer].cell]
      /\ v = [x \in DOMAIN crosses |-> b[crosses[x].seller].cell]
  BY <1>1, <1>3, <1>6, <1>7 DEF BuyersOf, SellersOf
<1>9. \A x \in 1..l : u[x] \in Cell /\ v[x] \in Cell
  BY <1>1, <1>3, <1>7 DEF BuyersOf, SellersOf
<1>10. PICK bought, sold : bought = PerCell(u, f) /\ sold = PerCell(v, f)
  OBVIOUS
<1>11. legs.bought = bought /\ legs.sold = sold
  BY <1>4, <1>8, <1>10 DEF CrossLegs
<1>12. PerCellOk(l, u, f, bought)
  BY <1>5, <1>9, <1>10, PerCellIs
<1>13. PerCellOk(l, v, f, sold)
  BY <1>5, <1>9, <1>10, PerCellIs
<1>14. bought \in [Cell -> Nat] /\ sold \in [Cell -> Nat] /\ SumTo(bought, NCells) = SumTo(sold, NCells)
  BY <1>12, <1>13 DEF PerCellOk
<1>15. \A c \in Cell : bought[c] = CellSum(u, c, f, l) /\ sold[c] = CellSum(v, c, f, l)
  BY <1>12, <1>13 DEF PerCellOk
<1>16. ASSUME NEW c \in Cell
       PROVE  /\ legs.bought[c] = CrossSum(BuyersOf(of, crosses), c, crosses)
              /\ legs.sold[c] = CrossSum(SellersOf(of, crosses), c, crosses)
  BY <1>1, <1>4, <1>7, <1>11, <1>15 DEF CrossSum
<1> QED
  BY <1>11, <1>14, <1>16 DEF LegsTyped, BothLegs

\* For every cell, what it crosses and what it is owed is what it asked for.
LEMMA BatchLegs ==
  ASSUME NEW n \in Nat, NEW b \in [1..n -> Intent], NEW r, r = NetSymbol(b),
         NEW legs, legs = CrossLegs(b, r.crosses)
  PROVE  NettedLegs(n, b, r, legs)
<1>0. MaxUnits \in Nat
  BY NettingAssumption
<1>1. PICK D, E : D = Demand(b, "BUY") /\ E = Demand(b, "SELL")
  OBVIOUS
<1>2. \A k \in 1..n : b[k].qty \in Nat /\ b[k].cell \in Cell
  BY <1>0 DEF Intent
<1>3. D \in [1..n -> Nat] /\ E \in [1..n -> Nat] /\ DOMAIN b = 1..n
  BY <1>1, <1>2 DEF Demand
<1>4. PICK of : of = CellsOf(b)
  OBVIOUS
<1>5. \A k \in 1..n : of[k] \in Cell
  BY <1>2, <1>3, <1>4 DEF CellsOf
<1>6. PICK m : m = Match(D, E)
  OBVIOUS
<1>7. NetOf(n, D, E, m, r)
  BY <1>1, <1>3, <1>6, NetIs
<1>8. m \in MatchOf(n)
  BY <1>3, <1>6, MatchLeaves
<1>9. PICK crosses \in Seq(CrossOf(n)) : crosses = m.crosses
  BY <1>8 DEF MatchOf
<1>10. r.crosses = crosses /\ legs = CrossLegs(b, crosses)
  BY <1>7, <1>9 DEF NetOf
<1>b. BothLegs(of, crosses, legs)
  BY <1>3, <1>4, <1>5, <1>10, CrossLegsAre
<1>11. LegsTyped(legs) /\ SumTo(legs.bought, NCells) = SumTo(legs.sold, NCells)
  BY <1>b DEF BothLegs
<1>12. ASSUME NEW c \in Cell
       PROVE  /\ AskedBy(n, b, "BUY", c) = legs.bought[c] +
                   (IF r.side = "BUY" THEN PerCell(CellsOf(b), r.owed)[c] ELSE 0)
              /\ AskedBy(n, b, "SELL", c) = legs.sold[c] +
                   (IF r.side = "BUY" THEN 0 ELSE PerCell(CellsOf(b), r.owed)[c])
  <2>1. LegInv(n, D, E, of, c, m)
    BY <1>3, <1>6, LegsMatch
  <2>2. /\ legs.bought[c] = CrossSum(BuyersOf(of, crosses), c, crosses)
        /\ legs.sold[c] = CrossSum(SellersOf(of, crosses), c, crosses)
    BY <1>b DEF BothLegs
  <2>3. PICK x \in Nat, y \in Nat : x = legs.bought[c] /\ y = legs.sold[c]
    BY <1>11 DEF LegsTyped
  <2>4. /\ x + CellSum(of, c, m.buys, n) = CellSum(of, c, D, n)
        /\ y + CellSum(of, c, m.sells, n) = CellSum(of, c, E, n)
    BY <1>9, <2>1, <2>2, <2>3 DEF LegInv
  <2>5. PICK w : w = r.owed
    OBVIOUS
  <2>6. w \in [1..n -> Nat]
    BY <1>7, <2>5 DEF NetOf
  <2>7. PerCellOk(n, of, w, PerCell(of, w))
    BY <1>5, <2>6, PerCellIs
  <2>8. PerCell(of, w)[c] = CellSum(of, c, w, n)
    BY <2>7 DEF PerCellOk
  <2>9. AskedBy(n, b, "BUY", c) = CellSum(of, c, D, n) /\ AskedBy(n, b, "SELL", c) = CellSum(of, c, E, n)
    BY <1>1, <1>4 DEF AskedBy
  <2>10. CASE r.side = "BUY"
    <3>1. w = m.buys /\ CellSum(of, c, m.sells, n) = 0
      BY <1>7, <2>5, <2>10, NothingLeft DEF NetOf
    <3>2. x + PerCell(of, w)[c] = AskedBy(n, b, "BUY", c) /\ y + 0 = AskedBy(n, b, "SELL", c)
      BY <2>4, <2>8, <2>9, <3>1
    <3> QED
      BY <1>4, <2>3, <2>5, <2>10, <3>2
  <2>11. CASE r.side # "BUY"
    <3>1. w = m.sells /\ CellSum(of, c, m.buys, n) = 0
      BY <1>7, <2>5, <2>11, NothingLeft DEF NetOf
    <3>2. x + 0 = AskedBy(n, b, "BUY", c) /\ y + PerCell(of, w)[c] = AskedBy(n, b, "SELL", c)
      BY <2>4, <2>8, <2>9, <3>1
    <3> QED
      BY <1>4, <2>3, <2>5, <2>11, <3>2
  <2> QED
    BY <2>10, <2>11
<1> QED
  BY <1>11, <1>12 DEF NettedLegs

\* An order owes its intents this much, position by position.
Owing(n, cells, owed) ==
  n \in 1..MaxIntents /\ cells \in [1..n -> Cell] /\ owed \in [1..n -> 0..MaxUnits]

\* The order a batch leaves.
LEMMA BatchOrder ==
  ASSUME NEW n \in 1..MaxIntents, NEW b \in [1..n -> Intent], NEW r, r = NetSymbol(b)
  PROVE  /\ Owing(n, CellsOf(b), r.owed) /\ r.qty \in Nat /\ r.side \in {"BUY", "SELL", "NONE"}
         /\ r.side # "NONE" => Total(r.owed) > 0
<1>0. MaxUnits \in Nat /\ n \in Nat
  BY NettingAssumption
<1>1. PICK D, E : D = Demand(b, "BUY") /\ E = Demand(b, "SELL")
  OBVIOUS
<1>2. \A k \in 1..n : b[k].qty \in 0..MaxUnits /\ b[k].cell \in Cell
  BY <1>0 DEF Intent
<1>3. \A k \in 1..n : D[k] \in 0..MaxUnits /\ E[k] \in 0..MaxUnits
  BY <1>0, <1>1, <1>2 DEF Demand
<1>4. D \in [1..n -> Nat] /\ E \in [1..n -> Nat] /\ DOMAIN b = 1..n
  BY <1>0, <1>1, <1>2 DEF Demand
<1>5. PICK m : m = Match(D, E)
  OBVIOUS
<1>6. NetOf(n, D, E, m, r)
  BY <1>0, <1>1, <1>4, <1>5, NetIs
<1>7. Leaves(n, D, E, m)
  BY <1>0, <1>4, <1>5, MatchLeaves
<1>8. r.owed \in [1..n -> Nat] /\ r.qty \in Nat /\ r.side \in {"BUY", "SELL", "NONE"}
      /\ SumTo(r.owed, n) = r.qty /\ (r.side # "NONE" => r.qty > 0)
  BY <1>6 DEF NetOf
<1>9. r.owed = m.buys \/ r.owed = m.sells
  BY <1>6 DEF NetOf
<1>10. PICK w : w = r.owed
  OBVIOUS
<1>11. ASSUME NEW k \in 1..n PROVE w[k] \in 0..MaxUnits
  <2>1. w[k] \in Nat
    BY <1>8, <1>10
  <2>2. w[k] <= D[k] \/ w[k] <= E[k]
    BY <1>7, <1>9, <1>10 DEF Leaves
  <2>3. D[k] \in 0..MaxUnits /\ E[k] \in 0..MaxUnits
    BY <1>3
  <2> QED
    BY <1>0, <2>1, <2>2, <2>3
<1>12. w \in [1..n -> 0..MaxUnits]
  BY <1>8, <1>10, <1>11
<1>13. Total(w) = SumTo(w, n)
  BY <1>0, <1>8, <1>10, ListIs DEF Total
<1>14. CellsOf(b) \in [1..n -> Cell]
  BY <1>2, <1>4 DEF CellsOf
<1> QED
  BY <1>8, <1>10, <1>12, <1>13, <1>14 DEF Owing

\* A fill of an order: what is allocated and what is still owed.
FillOf(o, q, list, left, n) ==
  /\ Owing(n, o.cells, left) /\ Total(left) \in Nat
  /\ PerCell(o.cells, list) \in [Cell -> Nat] /\ SumTo(PerCell(o.cells, list), NCells) = q
  /\ \A c \in Cell : /\ PerCell(o.cells, left)[c] \in Nat
                     /\ PerCell(o.cells, left)[c] + PerCell(o.cells, list)[c] = OwedTo(o, c)

\* Parts of a list.
SplitsInto(f, g, h, n) == \A k \in 1..n : f[k] \in Nat /\ g[k] \in Nat /\ h[k] = f[k] + g[k]

\* The sum of a cell's part of two lists added up.
LEMMA CellSumAdds ==
  ASSUME NEW n \in Nat, NEW f, NEW g, NEW h, SplitsInto(f, g, h, n), NEW of, NEW c
  PROVE  CellSum(of, c, h, n) = CellSum(of, c, f, n) + CellSum(of, c, g, n)
<1>1. Naturals1(f, n) /\ Naturals1(g, n) /\ Naturals1(h, n)
  BY DEF SplitsInto, Naturals1
<1>2. PICK F, G, H : F = OfCell(of, c, f, n) /\ G = OfCell(of, c, g, n) /\ H = OfCell(of, c, h, n)
  OBVIOUS
<1>3. IntsTo(F, n) /\ \A k \in 1..n : F[k] = IF of[k] = c THEN f[k] ELSE 0
  BY <1>1, <1>2, CellSumIs
<1>4. IntsTo(G, n) /\ \A k \in 1..n : G[k] = IF of[k] = c THEN g[k] ELSE 0
  BY <1>1, <1>2, CellSumIs
<1>5. \A k \in 1..n : H[k] = IF of[k] = c THEN h[k] ELSE 0
  BY <1>1, <1>2, CellSumIs
<1>6. \A k \in 1..n : H[k] = F[k] + G[k]
  <2> SUFFICES ASSUME NEW k \in 1..n PROVE H[k] = F[k] + G[k]
    OBVIOUS
  <2>1. h[k] = f[k] + g[k]
    BY DEF SplitsInto
  <2>2. CASE of[k] = c
    BY <1>3, <1>4, <1>5, <2>1, <2>2
  <2>3. CASE of[k] # c
    BY <1>3, <1>4, <1>5, <2>3
  <2> QED
    BY <2>2, <2>3
<1>7. SumTo(H, n) = SumTo(F, n) + SumTo(G, n)
  BY <1>3, <1>4, <1>6, SumAdds
<1> QED
  BY <1>2, <1>7 DEF CellSum

\* An allocation splits what an order owes into what is filled and what is left.
LEMMA FillIs ==
  ASSUME MaxIntents <= 3, NEW o, NEW n, Owing(n, o.cells, o.owed), NEW q \in Nat \ {0}, q <= Total(o.owed)
  PROVE  FillOf(o, q, Allocate(o.owed, q), StillOwed(o.owed, Allocate(o.owed, q)), n)
<1>0. MaxUnits \in Nat /\ MaxIntents \in Nat
  BY NettingAssumption
<1>1. n \in 1..3 /\ n \in Nat
  BY <1>0 DEF Owing
<1>2. PICK owed, of : owed = o.owed /\ of = o.cells
  OBVIOUS
<1>3. owed \in [1..n -> Nat] /\ (\A k \in 1..n : owed[k] \in 0..MaxUnits) /\ \A k \in 1..n : of[k] \in Cell
  BY <1>0, <1>2 DEF Owing
<1>4. PICK T : T = SumTo(owed, n)
  OBVIOUS
<1>5. Total(owed) = T /\ DOMAIN owed = 1..n
  BY <1>1, <1>3, <1>4, ListIs DEF Total
<1>6. T \in Nat
  BY <1>1, <1>3, <1>4, SumNatural
<1>7. q \in 1..T
  BY <1>2, <1>5, <1>6
<1>8. PICK list : list = Allocate(owed, q)
  OBVIOUS
<1>9. ShareOk(n, owed, q, list)
  BY <1>1, <1>3, <1>4, <1>7, <1>8, AllocatedAre
<1>10. list \in [1..n -> Nat] /\ (\A k \in 1..n : list[k] <= owed[k]) /\ SumTo(list, n) = q
  BY <1>9 DEF ShareOk
<1>11. PICK left : left = StillOwed(owed, list)
  OBVIOUS
<1>12. left = [k \in 1..n |-> owed[k] - list[k]]
  BY <1>5, <1>11 DEF StillOwed
<1>13. ASSUME NEW k \in 1..n PROVE left[k] \in 0..MaxUnits /\ owed[k] = left[k] + list[k] /\ list[k] \in Nat
  <2>1. left[k] = owed[k] - list[k] /\ list[k] \in Nat /\ list[k] <= owed[k] /\ owed[k] \in 0..MaxUnits
    BY <1>3, <1>10, <1>12
  <2> QED
    BY <1>0, <2>1
<1>14. left \in [1..n -> 0..MaxUnits] /\ left \in [1..n -> Nat]
  BY <1>0, <1>12, <1>13
<1>15. SplitsInto(left, list, owed, n)
  BY <1>0, <1>13 DEF SplitsInto
<1>16. Total(left) \in Nat
  <2>1. Total(left) = SumTo(left, n)
    BY <1>1, <1>14, ListIs DEF Total
  <2>2. \A k \in 1..n : left[k] \in Nat
    BY <1>14
  <2>3. SumTo(left, n) \in Nat
    BY <1>1, <2>2, SumNatural
  <2> QED
    BY <2>1, <2>3
<1>17. PerCellOk(n, of, list, PerCell(of, list))
  BY <1>1, <1>3, <1>10, PerCellIs
<1>18. PerCellOk(n, of, left, PerCell(of, left))
  BY <1>1, <1>3, <1>14, PerCellIs
<1>19. PerCellOk(n, of, owed, PerCell(of, owed))
  BY <1>1, <1>3, PerCellIs
<1>20. ASSUME NEW c \in Cell
       PROVE  PerCell(of, left)[c] \in Nat /\ PerCell(of, left)[c] + PerCell(of, list)[c] = PerCell(of, owed)[c]
  <2>1. CellSum(of, c, owed, n) = CellSum(of, c, left, n) + CellSum(of, c, list, n)
    BY <1>1, <1>15, CellSumAdds
  <2>2. PerCell(of, list)[c] = CellSum(of, c, list, n)
    BY <1>17 DEF PerCellOk
  <2>3. PerCell(of, left)[c] = CellSum(of, c, left, n) /\ PerCell(of, left)[c] \in Nat
    BY <1>18 DEF PerCellOk
  <2>4. PerCell(of, owed)[c] = CellSum(of, c, owed, n)
    BY <1>19 DEF PerCellOk
  <2> QED
    BY <2>1, <2>2, <2>3, <2>4
<1>21. PerCell(of, list) \in [Cell -> Nat] /\ SumTo(PerCell(of, list), NCells) = q
  BY <1>10, <1>17 DEF PerCellOk
<1>22. Owing(n, of, left)
  BY <1>2, <1>14 DEF Owing
<1>23. FillOf(o, q, list, left, n)
  BY <1>2, <1>16, <1>20, <1>21, <1>22 DEF FillOf, OwedTo
<1> QED
  BY <1>2, <1>8, <1>11, <1>23

\* The legs of a fill.
FilledLegs(o, list, legs) ==
  /\ LegsTyped(legs)
  /\ SumTo(legs.bought, NCells) = (IF o.side = "BUY" THEN SumTo(PerCell(o.cells, list), NCells) ELSE 0)
  /\ SumTo(legs.sold, NCells) = (IF o.side = "BUY" THEN 0 ELSE SumTo(PerCell(o.cells, list), NCells))
  /\ \A c \in Cell : /\ legs.bought[c] = (IF o.side = "BUY" THEN PerCell(o.cells, list)[c] ELSE 0)
                     /\ legs.sold[c] = (IF o.side = "BUY" THEN 0 ELSE PerCell(o.cells, list)[c])

\* The legs of a fill are all on the side of its order.
LEMMA FillLegsAre ==
  ASSUME NEW o, NEW list, PerCell(o.cells, list) \in [Cell -> Nat]
  PROVE  FilledLegs(o, list, FillLegs(o, list))
<1>0. NCells \in Nat
  BY NettingAssumption
<1>1. PICK w \in [Cell -> Nat] : w = PerCell(o.cells, list)
  OBVIOUS
<1>2. PICK z : z = [c \in Cell |-> 0]
  OBVIOUS
<1>3. z \in [Cell -> Nat] /\ (\A c \in Cell : z[c] = 0) /\ SumTo(z, NCells) = 0
  <2>1. z \in [Cell -> Nat] /\ \A c \in Cell : z[c] = 0
    BY <1>2
  <2>2. SumTo(z, NCells) = 0
    BY <1>0, <2>1, SumNone DEF Cell
  <2> QED
    BY <2>1, <2>2
<1>4. PICK legs : legs = FillLegs(o, list)
  OBVIOUS
<1>5. CASE o.side = "BUY"
  <2>1. legs.bought = w /\ legs.sold = z
    BY <1>1, <1>2, <1>4, <1>5 DEF FillLegs
  <2>2. FilledLegs(o, list, legs)
    BY <1>1, <1>3, <1>5, <2>1 DEF FilledLegs, LegsTyped
  <2> QED
    BY <1>4, <2>2
<1>6. CASE o.side # "BUY"
  <2>1. legs.bought = z /\ legs.sold = w
    BY <1>1, <1>2, <1>4, <1>6 DEF FillLegs
  <2>2. FilledLegs(o, list, legs)
    BY <1>1, <1>3, <1>6, <2>1 DEF FilledLegs, LegsTyped
  <2> QED
    BY <1>4, <2>2
<1> QED
  BY <1>5, <1>6

-----------------------------------------------------------------------------
(* The life of a batch, action by action.                                  *)

\* What NetBatch does, with the batch by position.
NetBatchDone(b, p, n, r, legs) ==
  /\ n \in 1..MaxIntents /\ b \in [1..n -> Intent] /\ p \in Nat
  /\ r = NetSymbol(b) /\ legs = CrossLegs(b, r.crosses)
  /\ NettedLegs(n, b, r, legs) /\ Posted(legs, p)
  /\ Owing(n, CellsOf(b), r.owed) /\ r.qty \in Nat /\ r.side \in {"BUY", "SELL", "NONE"}
  /\ r.side # "NONE" => Total(r.owed) > 0
  /\ count' = count + 1 /\ count < MaxOrders
  /\ IF r.side = "NONE"
       THEN orders' = orders /\ reserved' = reserved
       ELSE /\ orders' = orders \cup
                 {[id |-> count + 1, side |-> r.side, cells |-> CellsOf(b), owed |-> r.owed]}
            /\ reserved' = [reserved EXCEPT ![count + 1] = IF r.side = "BUY" THEN p * r.qty ELSE 0]

\* What the netting of a batch does, in terms of its intents, its order and its legs.
LEMMA NetBatchIs ==
  ASSUME NettingTyped, NEW b \in Batch, NEW p \in TransferPrices, NetBatch(b, p)
  PROVE  \E n, r, legs : NetBatchDone(b, p, n, r, legs)
<1>0. MaxIntents \in Nat /\ p \in Nat
  BY NettingAssumption
<1>1. PICK n \in 1..MaxIntents : b \in [1..n -> Intent]
  BY DEF Batch
<1>2. PICK r : r = NetSymbol(b)
  OBVIOUS
<1>3. PICK legs : legs = CrossLegs(b, r.crosses)
  OBVIOUS
<1>4. /\ count < MaxOrders /\ LegsOk(legs, p) /\ PostLegs(legs, p) /\ count' = count + 1
      /\ IF r.side = "NONE"
           THEN orders' = orders /\ reserved' = reserved
           ELSE /\ orders' = orders \cup
                     {[id |-> count + 1, side |-> r.side, cells |-> CellsOf(b), owed |-> r.owed]}
                /\ reserved' = [reserved EXCEPT ![count + 1] = IF r.side = "BUY" THEN p * r.qty ELSE 0]
  BY <1>2, <1>3 DEF NetBatch
<1>5. NettedLegs(n, b, r, legs)
  BY <1>0, <1>1, <1>2, <1>3, BatchLegs
<1>6. Posted(legs, p)
  <2>1. LegsTyped(legs)
    BY <1>5 DEF NettedLegs
  <2>2. cash \in [Cell -> Nat] /\ pos \in [Cell -> Nat]
    BY DEF NettingTyped
  <2> QED
    BY <1>0, <1>4, <2>1, <2>2, PostingIs
<1>7. /\ Owing(n, CellsOf(b), r.owed) /\ r.qty \in Nat /\ r.side \in {"BUY", "SELL", "NONE"}
      /\ r.side # "NONE" => Total(r.owed) > 0
  BY <1>1, <1>2, BatchOrder
<1>8. NetBatchDone(b, p, n, r, legs)
  BY <1>0, <1>1, <1>2, <1>3, <1>4, <1>5, <1>6, <1>7 DEF NetBatchDone
<1> QED
  BY <1>8

\* What is on record once a fill of o has been refused.
WithRefusal(o, q, p) ==
  [fills |-> refused.fills + 1,
   qty   |-> refused.qty + (IF o.side = "BUY" THEN 1 ELSE -1) * q,
   cash  |-> refused.cash - (IF o.side = "BUY" THEN 1 ELSE -1) * p * q]

\* What BrokerFill does.
FillDone(o, q, p, n, list, left, legs) ==
  /\ Owing(n, o.cells, o.owed) /\ o.side \in {"BUY", "SELL"} /\ o.id \in 1..count /\ p \in Nat /\ q \in Nat \ {0}
  /\ q <= Total(o.owed)
  /\ list = Allocate(o.owed, q) /\ left = StillOwed(o.owed, list) /\ legs = FillLegs(o, list)
  /\ FillOf(o, q, list, left, n) /\ FilledLegs(o, list, legs)
  /\ IF Total(left) = 0
       THEN orders' = orders \ {o} /\ reserved' = [reserved EXCEPT ![o.id] = 0]
       ELSE /\ orders' = (orders \ {o}) \cup
                 {[id |-> o.id, side |-> o.side, cells |-> o.cells, owed |-> left]}
            /\ reserved' = reserved
  /\ \/ LegsOk(legs, p) /\ Posted(legs, p) /\ refused' = refused
     \/ ~LegsOk(legs, p) /\ cash' = cash /\ pos' = pos /\ refused' = WithRefusal(o, q, p)
  /\ count' = count

\* What a fill does, in terms of its allocation and its legs.
LEMMA BrokerFillIs ==
  ASSUME MaxIntents <= 3, NettingTyped, NEW o \in orders, NEW q \in 1..(MaxIntents * MaxUnits),
         NEW p \in FillPrices, BrokerFill(o, q, p)
  PROVE  \E n, list, left, legs : FillDone(o, q, p, n, list, left, legs)
<1>0. MaxIntents \in Nat /\ MaxUnits \in Nat /\ p \in Nat
  BY NettingAssumption
<1>1. MaxIntents * MaxUnits \in Nat
  BY <1>0
<1>2. q \in Nat \ {0}
  BY <1>1
<1>3. OrderOk(o)
  BY DEF NettingTyped
<1>4. PICK n \in 1..MaxIntents : o.cells \in [1..n -> Cell] /\ o.owed \in [1..n -> 0..MaxUnits]
  BY <1>3 DEF OrderOk
<1>5. Owing(n, o.cells, o.owed)
  BY <1>4 DEF Owing
<1>6. PICK list : list = Allocate(o.owed, q)
  OBVIOUS
<1>7. PICK left : left = StillOwed(o.owed, list)
  OBVIOUS
<1>8. PICK legs : legs = FillLegs(o, list)
  OBVIOUS
<1>9. q <= Total(o.owed)
  BY DEF BrokerFill, AllocateAccepts
<1>10. FillOf(o, q, list, left, n)
  BY <1>2, <1>5, <1>6, <1>7, <1>9, FillIs
<1>11. FilledLegs(o, list, legs)
  BY <1>8, <1>10, FillLegsAre DEF FillOf
<1>12. /\ IF Total(left) = 0
            THEN orders' = orders \ {o} /\ reserved' = [reserved EXCEPT ![o.id] = 0]
            ELSE /\ orders' = (orders \ {o}) \cup
                      {[id |-> o.id, side |-> o.side, cells |-> o.cells, owed |-> left]}
                 /\ reserved' = reserved
       /\ count' = count
  BY <1>6, <1>7 DEF BrokerFill
<1>13. IF LegsOk(legs, p) THEN PostLegs(legs, p) /\ refused' = refused
                          ELSE refused' = WithRefusal(o, q, p) /\ cash' = cash /\ pos' = pos
  BY <1>6, <1>8 DEF BrokerFill, cellvars, WithRefusal
<1>14. LegsOk(legs, p) => Posted(legs, p)
  <2>1. LegsTyped(legs)
    BY <1>11 DEF FilledLegs
  <2>2. cash \in [Cell -> Nat] /\ pos \in [Cell -> Nat]
    BY DEF NettingTyped
  <2> QED
    BY <1>0, <1>13, <2>1, <2>2, PostingIs
<1>15. o.id \in 1..count /\ o.side \in {"BUY", "SELL"}
  BY <1>3 DEF OrderOk
<1>16. FillDone(o, q, p, n, list, left, legs)
  BY <1>0, <1>2, <1>5, <1>6, <1>7, <1>8, <1>9, <1>10, <1>11, <1>12, <1>13, <1>14, <1>15 DEF FillDone
<1> QED
  BY <1>16

\* The orders in flight after a step.
OrdersTyped == \A o \in orders : OrderOk(o)

\* The netting of a batch keeps the types.
LEMMA NetBatchTyped ==
  ASSUME NettingTyped, NEW b \in Batch, NEW p \in TransferPrices, NetBatch(b, p)
  PROVE  NettingTyped'
<1>1. PICK n, r, legs : NetBatchDone(b, p, n, r, legs)
  BY NetBatchIs
<1>0. MaxOrders \in Nat /\ count \in Nat /\ count + 1 \in 1..MaxOrders
  BY <1>1, NettingAssumption DEF NettingTyped, NetBatchDone
<1>2. cash' \in [Cell -> Nat] /\ pos' \in [Cell -> Nat]
  BY <1>1 DEF NetBatchDone, Posted
<1>3. /\ mcash' = mcash /\ mpos' = mpos /\ unallocated' = unallocated
      /\ refused' = refused /\ halted' = halted
  BY DEF NetBatch, mastervars
<1>4. count' = count + 1 /\ count' \in 0..MaxOrders
  BY <1>0, <1>1 DEF NetBatchDone
<1>5. reserved' \in [1..MaxOrders -> Nat]
  <2>1. reserved \in [1..MaxOrders -> Nat]
    BY DEF NettingTyped
  <2>2. CASE r.side = "NONE"
    BY <1>1, <2>1, <2>2 DEF NetBatchDone
  <2>3. CASE r.side # "NONE"
    <3>1. p \in Nat /\ r.qty \in Nat
      BY <1>1 DEF NetBatchDone
    <3>2. PICK v : v = IF r.side = "BUY" THEN p * r.qty ELSE 0
      OBVIOUS
    <3>3. v \in Nat
      BY <3>1, <3>2
    <3>4. reserved' = [reserved EXCEPT ![count + 1] = v]
      BY <1>1, <2>3, <3>2 DEF NetBatchDone
    <3> QED
      BY <2>1, <3>3, <3>4
  <2> QED
    BY <2>2, <2>3
<1>6. OrdersTyped'
  <2> SUFFICES ASSUME NEW o \in orders' PROVE OrderOk(o)'
    BY DEF OrdersTyped
  <2>1. CASE o \in orders
    <3>1. OrderOk(o)
      BY <2>1 DEF NettingTyped
    <3>2. o.id \in 1..count'
      BY <1>0, <1>4, <3>1 DEF OrderOk
    <3> QED
      BY <3>1, <3>2 DEF OrderOk
  <2>2. CASE o \notin orders
    <3>1. r.side \in {"BUY", "SELL"} /\ Total(r.owed) > 0 /\ Owing(n, CellsOf(b), r.owed)
      BY <1>1, <2>2 DEF NetBatchDone
    <3>2. o = [id |-> count + 1, side |-> r.side, cells |-> CellsOf(b), owed |-> r.owed]
      BY <1>1, <2>2, <3>1 DEF NetBatchDone
    <3>3. o.id = count + 1 /\ o.side = r.side /\ o.cells = CellsOf(b) /\ o.owed = r.owed
      BY <3>2
    <3>4. o.id \in 1..count'
      BY <1>0, <1>4, <3>3
    <3> QED
      BY <3>1, <3>3, <3>4 DEF OrderOk, Owing
  <2> QED
    BY <2>1, <2>2
<1>7. rivals' \subseteq 1..count'
  <2>1. rivals' = rivals \cup Rivals(orders', Oversold(b))
    BY DEF NetBatch
  <2>2. rivals \subseteq 1..count /\ 1..count \subseteq 1..count'
    BY <1>0, <1>4 DEF NettingTyped
  <2>3. \A o \in orders' : o.id \in 1..count'
    BY <1>6 DEF OrdersTyped, OrderOk
  <2> QED
    BY <2>1, <2>2, <2>3 DEF Rivals
<1> QED
  BY <1>2, <1>3, <1>4, <1>5, <1>6, <1>7 DEF NettingTyped, OrdersTyped

\* A fill keeps the types.
LEMMA BrokerFillTyped ==
  ASSUME MaxIntents <= 3, NettingTyped, NEW o \in orders, NEW q \in 1..(MaxIntents * MaxUnits),
         NEW p \in FillPrices, BrokerFill(o, q, p)
  PROVE  NettingTyped'
<1>1. PICK n, list, left, legs : FillDone(o, q, p, n, list, left, legs)
  BY BrokerFillIs
<1>2. cash' \in [Cell -> Nat] /\ pos' \in [Cell -> Nat]
  BY <1>1 DEF FillDone, Posted, NettingTyped
<1>7. refused' \in [fills : Nat, qty : Int, cash : Int]
  <2>1. refused \in [fills : Nat, qty : Int, cash : Int]
    BY DEF NettingTyped
  <2>2. PICK sign \in {1, -1} : sign = IF o.side = "BUY" THEN 1 ELSE -1
    OBVIOUS
  <2>3. PICK x \in Int, y \in Int : x = sign * q /\ y = sign * p * q
    BY <1>1 DEF FillDone
  <2>4. refused' = refused \/ refused' = [fills |-> refused.fills + 1, qty |-> refused.qty + x, cash |-> refused.cash - y]
    BY <1>1, <2>2, <2>3 DEF FillDone, WithRefusal
  <2> QED
    BY <2>1, <2>4
<1>3. unallocated' = unallocated /\ count' = count /\ halted' = halted /\ rivals' = rivals
  BY DEF BrokerFill
<1>4. mpos' \in Nat /\ mcash' \in Nat
  <2>1. PICK sign \in {1, -1} : sign = IF o.side = "BUY" THEN 1 ELSE -1
    OBVIOUS
  <2>2. /\ mpos' = mpos + sign * q /\ mcash' = mcash - sign * p * q
        /\ mpos + sign * q >= 0 /\ mcash - sign * p * q >= 0
    BY <2>1 DEF BrokerFill
  <2>3. p \in Nat /\ q \in Nat /\ mpos \in Nat /\ mcash \in Nat
    BY <1>1 DEF FillDone, NettingTyped
  <2>4. sign * q \in Int /\ sign * p * q \in Int
    BY <2>3
  <2> QED
    BY <2>2, <2>3, <2>4
<1>5. reserved' \in [1..MaxOrders -> Nat]
  <2>1. reserved \in [1..MaxOrders -> Nat]
    BY DEF NettingTyped
  <2>2. reserved' = reserved \/ reserved' = [reserved EXCEPT ![o.id] = 0]
    BY <1>1 DEF FillDone
  <2> QED
    BY <2>1, <2>2
<1>6. OrdersTyped'
  <2> SUFFICES ASSUME NEW w \in orders' PROVE OrderOk(w)'
    BY DEF OrdersTyped
  <2>1. CASE w \in orders
    BY <1>3, <2>1 DEF NettingTyped, OrderOk
  <2>2. CASE w \notin orders
    <3>1. Total(left) # 0 /\ w = [id |-> o.id, side |-> o.side, cells |-> o.cells, owed |-> left]
      BY <1>1, <2>2 DEF FillDone
    <3>2. w.id = o.id /\ w.side = o.side /\ w.cells = o.cells /\ w.owed = left
      BY <3>1
    <3>3. Total(left) > 0 /\ Owing(n, o.cells, left)
      BY <1>1, <3>1 DEF FillDone, FillOf
    <3>4. o.id \in 1..count' /\ o.side \in {"BUY", "SELL"}
      BY <1>1, <1>3 DEF FillDone
    <3> QED
      BY <3>2, <3>3, <3>4 DEF OrderOk, Owing
  <2> QED
    BY <2>1, <2>2
<1> QED
  BY <1>2, <1>3, <1>4, <1>5, <1>6, <1>7 DEF NettingTyped, OrdersTyped

\* Whatever is netted, crossed, filled, cancelled and reallocated, to up to three intents
\* at a time, no ledger runs short and an order owes nobody less than nothing.
THEOREM NettingTypeCorrect ==
  ASSUME MaxIntents <= 3
  PROVE  NettingSpec => []NettingTyped
<1>1. NettingInit => NettingTyped
  <2> SUFFICES ASSUME NettingInit PROVE NettingTyped
    OBVIOUS
  <2>1. NCells \in Nat /\ InitCash \in Nat /\ InitPos \in Nat /\ Unallocated \in Nat /\ MaxOrders \in Nat
    BY NettingAssumption
  <2>2. cash \in [Cell -> Nat] /\ pos \in [Cell -> Nat]
    BY <2>1 DEF NettingInit
  <2>3. SumTo(cash, NCells) \in Nat /\ SumTo(pos, NCells) \in Nat
    <3>1. (\A c \in 1..NCells : cash[c] \in Nat) /\ \A c \in 1..NCells : pos[c] \in Nat
      BY <2>2 DEF Cell
    <3> QED
      BY <2>1, <3>1, SumNatural
  <2>4. mcash \in Nat /\ mpos \in Nat /\ unallocated \in Nat
    BY <2>1, <2>3 DEF NettingInit
  <2>5. reserved \in [1..MaxOrders -> Nat] /\ count \in 0..MaxOrders /\ orders = {}
    BY <2>1 DEF NettingInit
  <2>6. refused = [fills |-> 0, qty |-> 0, cash |-> 0] /\ rivals = {} /\ halted \in BOOLEAN
    BY DEF NettingInit
  <2>7. refused \in [fills : Nat, qty : Int, cash : Int]
    BY <2>6
  <2> QED
    BY <2>2, <2>4, <2>5, <2>6, <2>7 DEF NettingTyped
<1>2. NettingTyped /\ [NettingNext]_netvars => NettingTyped'
  <2> SUFFICES ASSUME NettingTyped, [NettingNext]_netvars PROVE NettingTyped'
    OBVIOUS
  <2>1. CASE \E b \in Batch, p \in TransferPrices : NetBatch(b, p)
    BY <2>1, NetBatchTyped
  <2>2. CASE \E o \in orders, q \in 1..(MaxIntents * MaxUnits), p \in FillPrices : BrokerFill(o, q, p)
    BY <2>2, BrokerFillTyped
  <2>3. ASSUME NEW o \in orders, CancelOrder(o) PROVE NettingTyped'
    <3>1. orders' = orders \ {o} /\ reserved' = [reserved EXCEPT ![o.id] = 0]
      BY <2>3 DEF CancelOrder
    <3>2. /\ cash' = cash /\ pos' = pos /\ mcash' = mcash /\ mpos' = mpos /\ unallocated' = unallocated
          /\ count' = count /\ history' = history /\ halted' = halted
      BY <2>3 DEF CancelOrder, cellvars, mastervars
    <3>3. reserved' \in [1..MaxOrders -> Nat]
      BY <3>1 DEF NettingTyped
    <3>4. OrdersTyped'
      BY <3>1, <3>2 DEF NettingTyped, OrdersTyped, OrderOk
    <3> QED
      BY <3>2, <3>3, <3>4 DEF NettingTyped, OrdersTyped, history
  <2>4. ASSUME NEW c \in Cell, NEW a \in Budgets, AllocateCash(c, a) PROVE NettingTyped'
    <3>1. /\ cash[c] + a >= 0 /\ unallocated - a >= 0 /\ cash' = [cash EXCEPT ![c] = @ + a]
          /\ unallocated' = unallocated - a
      BY <2>4 DEF AllocateCash
    <3>2. /\ pos' = pos /\ mcash' = mcash /\ mpos' = mpos /\ orders' = orders /\ reserved' = reserved
          /\ count' = count /\ history' = history /\ halted' = halted
      BY <2>4 DEF AllocateCash, mastervars
    <3>3. a \in Int /\ cash \in [Cell -> Nat] /\ unallocated \in Nat
      BY NettingAssumption DEF NettingTyped
    <3>4. PICK v : v = cash[c] + a
      OBVIOUS
    <3>5. v \in Nat /\ cash' = [cash EXCEPT ![c] = v]
      BY <3>1, <3>3, <3>4
    <3>6. cash' \in [Cell -> Nat] /\ unallocated' \in Nat
      BY <3>1, <3>3, <3>5
    <3>7. OrdersTyped'
      BY <3>2 DEF NettingTyped, OrdersTyped, OrderOk
    <3> QED
      BY <3>2, <3>6, <3>7 DEF NettingTyped, OrdersTyped, history
  <2>5. CASE Reconcile
    <3>1. /\ cash' = cash /\ pos' = pos /\ mcash' = mcash /\ mpos' = mpos /\ unallocated' = unallocated
          /\ orders' = orders /\ reserved' = reserved /\ count' = count /\ history' = history
          /\ halted' \in BOOLEAN
      BY <2>5 DEF Reconcile, cellvars, mastervars
    <3>2. OrdersTyped'
      BY <3>1 DEF NettingTyped, OrdersTyped, OrderOk
    <3> QED
      BY <3>1, <3>2 DEF NettingTyped, OrdersTyped, history
  <2>6. CASE UNCHANGED netvars
    <3>1. /\ cash' = cash /\ pos' = pos /\ mcash' = mcash /\ mpos' = mpos /\ unallocated' = unallocated
          /\ orders' = orders /\ reserved' = reserved /\ count' = count /\ history' = history
          /\ halted' = halted
      BY <2>6 DEF netvars, cellvars, mastervars
    <3>2. OrdersTyped'
      BY <3>1 DEF NettingTyped, OrdersTyped, OrderOk
    <3> QED
      BY <3>1, <3>2 DEF NettingTyped, OrdersTyped, history
  <2> QED
    BY <2>1, <2>2, <2>3, <2>4, <2>5, <2>6 DEF NettingNext
<1> QED
  BY <1>1, <1>2, PTL DEF NettingSpec

\* The sums over the cells are numbers.
LEMMA CellSumsAre ==
  ASSUME NEW f \in [Cell -> Nat]
  PROVE  SumTo(f, NCells) \in Nat
<1>1. NCells \in Nat /\ \A c \in 1..NCells : f[c] \in Nat
  BY NettingAssumption DEF Cell
<1> QED
  BY <1>1, SumNatural

\* A cross moves shares and cash between the cells only.
LEMMA NetBatchKeepsSums ==
  ASSUME NettingTyped, NEW b \in Batch, NEW p \in TransferPrices, NetBatch(b, p)
  PROVE  SumTo(pos', NCells) = SumTo(pos, NCells) /\ SumTo(cash', NCells) = SumTo(cash, NCells)
<1>1. PICK n, r, legs : NetBatchDone(b, p, n, r, legs)
  BY NetBatchIs
<1>2. LegsTyped(legs) /\ SumTo(legs.bought, NCells) = SumTo(legs.sold, NCells) /\ p \in Nat
  BY <1>1 DEF NetBatchDone, NettedLegs
<1>3. PICK x \in Nat : x = SumTo(legs.bought, NCells) /\ x = SumTo(legs.sold, NCells)
  BY <1>2, CellSumsAre DEF LegsTyped
<1>4. PICK u \in Nat, v \in Nat : u = SumTo(cash, NCells) /\ v = SumTo(pos, NCells)
  BY CellSumsAre DEF NettingTyped
<1>5. SumTo(pos', NCells) = v + (x - x) /\ SumTo(cash', NCells) = u + p * (x - x)
  BY <1>1, <1>3, <1>4 DEF NetBatchDone, Posted
<1>6. x - x = 0 /\ p * 0 = 0
  BY <1>2
<1> QED
  BY <1>4, <1>5, <1>6

\* What a fill of q at p moves: shares in, cash out for a purchase, the reverse for a sale.
Moved(o, q, p) == IF o.side = "BUY" THEN [qty |-> q, cash |-> -(p * q)] ELSE [qty |-> -q, cash |-> p * q]

\* A fill is booked on the master, and either on the cells or on the record of refusals.
LEMMA BrokerFillMoves ==
  ASSUME MaxIntents <= 3, NettingTyped, NEW o \in orders, NEW q \in 1..(MaxIntents * MaxUnits),
         NEW p \in FillPrices, BrokerFill(o, q, p), NEW dq, NEW dc, Moved(o, q, p) = [qty |-> dq, cash |-> dc]
  PROVE  /\ dq \in Int /\ dc \in Int /\ mpos' = mpos + dq /\ mcash' = mcash + dc
         /\ \/ /\ SumTo(pos', NCells) = SumTo(pos, NCells) + dq
               /\ SumTo(cash', NCells) = SumTo(cash, NCells) + dc
               /\ refused' = refused
            \/ /\ pos' = pos /\ cash' = cash
               /\ refused' = [fills |-> refused.fills + 1, qty |-> refused.qty + dq, cash |-> refused.cash + dc]
<1>1. PICK n, list, left, legs : FillDone(o, q, p, n, list, left, legs)
  BY BrokerFillIs
<1>2. p \in Nat /\ q \in Nat /\ o.side \in {"BUY", "SELL"} /\ LegsTyped(legs)
  BY <1>1 DEF FillDone, FilledLegs
<1>3. SumTo(PerCell(o.cells, list), NCells) = q
  BY <1>1 DEF FillDone, FillOf
<1>4. /\ SumTo(legs.bought, NCells) = (IF o.side = "BUY" THEN q ELSE 0)
      /\ SumTo(legs.sold, NCells) = (IF o.side = "BUY" THEN 0 ELSE q)
  BY <1>1, <1>3 DEF FillDone, FilledLegs
<1>5. PICK u \in Nat, v \in Nat : u = SumTo(cash, NCells) /\ v = SumTo(pos, NCells)
  BY CellSumsAre DEF NettingTyped
<1>6. PICK x \in Nat, y \in Nat : x = SumTo(legs.bought, NCells) /\ y = SumTo(legs.sold, NCells)
  BY <1>2, CellSumsAre DEF LegsTyped
<1>7. Posted(legs, p) => SumTo(pos', NCells) = v + (x - y) /\ SumTo(cash', NCells) = u + p * (y - x)
  BY <1>5, <1>6 DEF Posted
<1>8. (Posted(legs, p) /\ refused' = refused) \/ (pos' = pos /\ cash' = cash /\ refused' = WithRefusal(o, q, p))
  BY <1>1 DEF FillDone
<1>9. PICK w \in Nat : w = p * q
  BY <1>2
<1>10. mpos \in Nat /\ mcash \in Nat /\ refused.qty \in Int /\ refused.cash \in Int
  BY DEF NettingTyped
<1>11. CASE o.side = "BUY"
  <2>1. x = q /\ y = 0 /\ dq = q /\ dc = -w
    BY <1>4, <1>6, <1>9, <1>11 DEF Moved
  <2>2. mpos' = mpos + 1 * q /\ mcash' = mcash - 1 * p * q
    BY <1>11 DEF BrokerFill
  <2>3. 1 * q = q /\ 1 * p * q = w /\ p * (0 - q) = -w
    BY <1>2, <1>9
  <2>4. WithRefusal(o, q, p) = [fills |-> refused.fills + 1, qty |-> refused.qty + 1 * q, cash |-> refused.cash - 1 * p * q]
    BY <1>11 DEF WithRefusal
  <2>5. WithRefusal(o, q, p) = [fills |-> refused.fills + 1, qty |-> refused.qty + dq, cash |-> refused.cash + dc]
    BY <1>10, <2>1, <2>3, <2>4
  <2> QED
    BY <1>5, <1>7, <1>8, <1>10, <2>1, <2>2, <2>3, <2>5
<1>12. CASE o.side = "SELL"
  <2>1. x = 0 /\ y = q /\ dq = -q /\ dc = w
    BY <1>4, <1>6, <1>9, <1>12 DEF Moved
  <2>2. mpos' = mpos + (-1) * q /\ mcash' = mcash - (-1) * p * q
    BY <1>12 DEF BrokerFill
  <2>3. (-1) * q = -q /\ (-1) * p * q = -w /\ p * (q - 0) = w
    BY <1>2, <1>9
  <2>4. WithRefusal(o, q, p) = [fills |-> refused.fills + 1, qty |-> refused.qty + (-1) * q, cash |-> refused.cash - (-1) * p * q]
    BY <1>12 DEF WithRefusal
  <2>5. WithRefusal(o, q, p) = [fills |-> refused.fills + 1, qty |-> refused.qty + dq, cash |-> refused.cash + dc]
    BY <1>10, <2>1, <2>3, <2>4
  <2> QED
    BY <1>5, <1>7, <1>8, <1>10, <2>1, <2>2, <2>3, <2>5
<1> QED
  BY <1>2, <1>11, <1>12

\* Budget moves between the master's free cash and a cell.
LEMMA AllocateKeepsSums ==
  ASSUME NettingTyped, NEW c \in Cell, NEW a \in Budgets, AllocateCash(c, a)
  PROVE  SumTo(cash', NCells) + unallocated' = SumTo(cash, NCells) + unallocated
<1>0. NCells \in Nat /\ a \in Int /\ cash \in [Cell -> Nat] /\ unallocated \in Nat /\ c \in 1..NCells
  BY NettingAssumption DEF NettingTyped, Cell
<1>1. PICK f, g : f = cash /\ g = cash'
  OBVIOUS
<1>2. g = [f EXCEPT ![c] = @ + a]
  BY <1>1 DEF AllocateCash
<1>3. f \in [Cell -> Nat] /\ g[c] = f[c] + a /\ \A d \in Cell : d # c => g[d] = f[d]
  BY <1>0, <1>1, <1>2
<1>4. IntsTo(f, NCells) /\ DifferAt(f, g, NCells, c)
  BY <1>3 DEF IntsTo, DifferAt, Cell
<1>5. IntsTo(g, NCells)
  <2> SUFFICES ASSUME NEW d \in Cell PROVE g[d] \in Int
    BY DEF IntsTo, Cell
  <2>1. f[d] \in Nat /\ f[c] \in Nat
    BY <1>3
  <2> QED
    BY <1>0, <1>3, <2>1
<1>6. SumTo(g, NCells) = SumTo(f, NCells) - f[c] + g[c]
  BY <1>0, <1>4, <1>5, SumChanged
<1>7. PICK u \in Int, h \in Nat : u = SumTo(f, NCells) /\ h = f[c]
  <2>1. SumTo(f, NCells) \in Int
    BY <1>0, <1>4, SumIs
  <2> QED
    BY <1>3, <2>1
<1>8. SumTo(g, NCells) = u + a
  <2>1. SumTo(g, NCells) = u - h + (h + a)
    BY <1>3, <1>6, <1>7
  <2> QED
    BY <1>0, <2>1
<1>9. unallocated' = unallocated - a
  BY DEF AllocateCash
<1> QED
  BY <1>0, <1>1, <1>7, <1>8, <1>9

\* Without a refusal there is nothing on record.
DriftIsRecorded == SumsAgree /\ (refused.fills = 0 => refused.qty = 0 /\ refused.cash = 0)

\* Netting, crosses, partial fills, cancels, rebalances and claw-backs, of any number of
\* batches in flight: the cells and the master ledger (ledger.py, reconciliation.py)
\* differ by exactly what fills the cells refused have moved on the master, and reconcile
\* halts only after such a fill.
THEOREM CellsAddUp ==
  ASSUME MaxIntents <= 3
  PROVE  NettingSpec => []SumsAgree
<1>1. NettingInit => DriftIsRecorded
  <2> SUFFICES ASSUME NettingInit PROVE DriftIsRecorded
    OBVIOUS
  <2>1. cash \in [Cell -> Nat] /\ pos \in [Cell -> Nat] /\ Unallocated \in Nat
    BY NettingAssumption DEF NettingInit
  <2>2. SumTo(cash, NCells) \in Nat /\ SumTo(pos, NCells) \in Nat
    BY <2>1, CellSumsAre
  <2>3. refused.fills = 0 /\ refused.qty = 0 /\ refused.cash = 0 /\ ~halted
    BY DEF NettingInit
  <2>4. mcash = SumTo(cash, NCells) + unallocated /\ mpos = SumTo(pos, NCells) /\ unallocated = Unallocated
    BY DEF NettingInit
  <2> QED
    BY <2>1, <2>2, <2>3, <2>4 DEF SumsAgree, DriftIsRecorded
<1>2. NettingTyped /\ DriftIsRecorded /\ [NettingNext]_netvars => DriftIsRecorded'
  <2> SUFFICES ASSUME NettingTyped, DriftIsRecorded, [NettingNext]_netvars PROVE DriftIsRecorded'
    OBVIOUS
  <2>0. /\ refused.fills \in Nat /\ refused.qty \in Int /\ refused.cash \in Int
        /\ mpos \in Nat /\ mcash \in Nat /\ unallocated \in Nat /\ halted \in BOOLEAN
    BY DEF NettingTyped
  <2>u. PICK u \in Nat, v \in Nat : u = SumTo(cash, NCells) /\ v = SumTo(pos, NCells)
    BY CellSumsAre DEF NettingTyped
  <2>s. /\ v + refused.qty = mpos /\ u + unallocated + refused.cash = mcash
        /\ halted => refused.fills > 0
        /\ refused.fills = 0 => refused.qty = 0 /\ refused.cash = 0
    BY <2>u DEF SumsAgree, DriftIsRecorded
  <2>1. ASSUME NEW b \in Batch, NEW p \in TransferPrices, NetBatch(b, p) PROVE DriftIsRecorded'
    <3>1. /\ refused' = refused /\ halted' = halted /\ unallocated' = unallocated
          /\ mpos' = mpos /\ mcash' = mcash
      BY <2>1 DEF NetBatch, mastervars
    <3>2. SumTo(pos', NCells) = v /\ SumTo(cash', NCells) = u
      BY <2>1, <2>u, NetBatchKeepsSums
    <3> QED
      BY <2>s, <3>1, <3>2 DEF SumsAgree, DriftIsRecorded
  <2>2. ASSUME NEW o \in orders, NEW q \in 1..(MaxIntents * MaxUnits), NEW p \in FillPrices, BrokerFill(o, q, p)
        PROVE  DriftIsRecorded'
    <3>1. PICK dq, dc : Moved(o, q, p) = [qty |-> dq, cash |-> dc]
      BY DEF Moved
    <3>2. /\ dq \in Int /\ dc \in Int /\ mpos' = mpos + dq /\ mcash' = mcash + dc
          /\ \/ /\ SumTo(pos', NCells) = v + dq
                /\ SumTo(cash', NCells) = u + dc
                /\ refused' = refused
             \/ /\ pos' = pos /\ cash' = cash
                /\ refused' = [fills |-> refused.fills + 1, qty |-> refused.qty + dq, cash |-> refused.cash + dc]
      BY <2>2, <2>u, <3>1, BrokerFillMoves
    <3>3. halted' = halted /\ unallocated' = unallocated
      BY <2>2 DEF BrokerFill
    <3>4. CASE refused' = refused /\ SumTo(pos', NCells) = v + dq /\ SumTo(cash', NCells) = u + dc
      <4>1. v + dq + refused.qty = mpos + dq /\ u + dc + unallocated + refused.cash = mcash + dc
        BY <2>0, <2>s, <3>2
      <4> QED
        BY <2>s, <3>2, <3>3, <3>4, <4>1 DEF SumsAgree, DriftIsRecorded
    <3>5. CASE /\ pos' = pos /\ cash' = cash
               /\ refused' = [fills |-> refused.fills + 1, qty |-> refused.qty + dq, cash |-> refused.cash + dc]
      <4>1. v + (refused.qty + dq) = mpos + dq /\ u + unallocated + (refused.cash + dc) = mcash + dc
        BY <2>0, <2>s, <3>2
      <4>2. refused.fills + 1 > 0 /\ refused.fills + 1 # 0
        BY <2>0
      <4> QED
        BY <2>u, <3>2, <3>3, <3>5, <4>1, <4>2 DEF SumsAgree, DriftIsRecorded
    <3> QED
      BY <3>2, <3>4, <3>5
  <2>3. ASSUME NEW o \in orders, CancelOrder(o) PROVE DriftIsRecorded'
    BY <2>3 DEF CancelOrder, cellvars, mastervars, history, SumsAgree, DriftIsRecorded
  <2>4. ASSUME NEW c \in Cell, NEW a \in Budgets, AllocateCash(c, a) PROVE DriftIsRecorded'
    <3>1. /\ halted' = halted /\ refused' = refused /\ pos' = pos /\ mpos' = mpos /\ mcash' = mcash
      BY <2>4 DEF AllocateCash, mastervars, history
    <3>2. SumTo(cash', NCells) + unallocated' = SumTo(cash, NCells) + unallocated
      BY <2>4, AllocateKeepsSums
    <3> QED
      BY <3>1, <3>2 DEF SumsAgree, DriftIsRecorded
  <2>5. CASE Reconcile
    <3>1. /\ cash' = cash /\ pos' = pos /\ mcash' = mcash /\ mpos' = mpos /\ unallocated' = unallocated
          /\ refused' = refused
      BY <2>5 DEF Reconcile, cellvars, mastervars, history
    <3>2. halted' = (halted \/ ~Consistent)
      BY <2>5 DEF Reconcile
    <3>3. refused.fills = 0 => Consistent
      BY <2>0, <2>u, <2>s DEF Consistent
    <3>6. refused.fills = 0 => ~halted
      BY <2>0, <2>s
    <3>4. refused.fills = 0 => ~halted'
      BY <3>2, <3>3, <3>6, Zenon
    <3>5. halted' => refused.fills > 0
      BY <2>0, <3>4
    <3> QED
      BY <2>s, <2>u, <3>1, <3>5 DEF SumsAgree, DriftIsRecorded
  <2>6. CASE UNCHANGED netvars
    BY <2>6 DEF netvars, cellvars, mastervars, history, SumsAgree, DriftIsRecorded
  <2> QED
    BY <2>1, <2>2, <2>3, <2>4, <2>5, <2>6 DEF NettingNext
<1>3. NettingSpec => []NettingTyped
  BY NettingTypeCorrect
<1>4. DriftIsRecorded => SumsAgree
  BY DEF DriftIsRecorded
<1> QED
  BY <1>1, <1>2, <1>3, <1>4, PTL DEF NettingSpec

-----------------------------------------------------------------------------
(* Sales: what open orders claim of a cell's shares.                       *)

\* What one order owes a cell is bounded.
LEMMA OwedIs ==
  ASSUME NEW o, OrderOk(o), NEW c \in Cell
  PROVE  OwedTo(o, c) \in 0..(MaxIntents * MaxUnits)
<1>0. MaxUnits \in Nat /\ MaxIntents \in Nat
  BY NettingAssumption
<1>1. PICK n \in 1..MaxIntents : o.cells \in [1..n -> Cell] /\ o.owed \in [1..n -> 0..MaxUnits]
  BY DEF OrderOk
<1>2. n \in Nat /\ n <= MaxIntents /\ o.owed \in [1..n -> Nat] /\ \A k \in 1..n : o.cells[k] \in Cell
  BY <1>0, <1>1
<1>3. PerCellOk(n, o.cells, o.owed, PerCell(o.cells, o.owed))
  BY <1>2, PerCellIs
<1>4. OwedTo(o, c) = CellSum(o.cells, c, o.owed, n)
  BY <1>3 DEF PerCellOk, OwedTo
<1>5. PICK f : f = OfCell(o.cells, c, o.owed, n)
  OBVIOUS
<1>6. \A k \in 1..n : f[k] \in 0..MaxUnits
  BY <1>0, <1>1, <1>5 DEF OfCell
<1>7. SumTo(f, n) \in 0..n*MaxUnits
  BY <1>0, <1>2, <1>6, SumBounded
<1>8. n * MaxUnits <= MaxIntents * MaxUnits /\ n * MaxUnits \in Nat /\ MaxIntents * MaxUnits \in Nat
  <2>1. MaxUnits * n <= MaxUnits * MaxIntents
    BY <1>0, <1>2, TimesGrows
  <2>2. MaxUnits * n = n * MaxUnits /\ MaxUnits * MaxIntents = MaxIntents * MaxUnits
    BY <1>0, <1>2
  <2> QED
    BY <1>0, <1>2, <2>1, <2>2
<1> QED
  BY <1>4, <1>5, <1>7, <1>8 DEF CellSum

\* Finitely many orders claim finitely many shares, fewer orders no more.
LEMMA ClaimsAre ==
  ASSUME NEW os, IsFiniteSet(os), NEW c, NEW fewer, fewer \subseteq os
  PROVE  /\ IsFiniteSet(ClaimedShares(os, c)) /\ Cardinality(ClaimedShares(os, c)) \in Nat
         /\ IsFiniteSet(ClaimedShares(fewer, c)) /\ Cardinality(ClaimedShares(fewer, c)) \in Nat
         /\ Cardinality(ClaimedShares(fewer, c)) <= Cardinality(ClaimedShares(os, c))
<1>1. IsFiniteSet(os \X (1..(MaxIntents * MaxUnits)))
  <2>1. MaxIntents * MaxUnits \in Int
    BY NettingAssumption
  <2> QED
    BY <2>1, SharesFinite
<1>2. ClaimedShares(os, c) \subseteq os \X (1..(MaxIntents * MaxUnits))
  BY DEF ClaimedShares
<1>3. ClaimedShares(fewer, c) \subseteq ClaimedShares(os, c)
  BY DEF ClaimedShares
<1> QED
  BY <1>1, <1>2, <1>3, FS_Subset, FS_CardinalityType

\* One more order claims what it owes, a purchase nothing.
LEMMA ClaimAdded ==
  ASSUME NEW os, IsFiniteSet(os), NEW o, NEW c, NEW w \in Nat, OwedTo(o, c) = w
  PROVE  Cardinality(ClaimedShares(os \cup {o}, c)) <=
           Cardinality(ClaimedShares(os, c)) + (IF o.side = "SELL" THEN w ELSE 0)
<1>1. PICK S : S = ClaimedShares(os, c)
  OBVIOUS
<1>2. PICK T : T = ClaimedShares(os \cup {o}, c)
  OBVIOUS
<1>3. IsFiniteSet(S) /\ Cardinality(S) \in Nat
  BY <1>1, ClaimsAre
<1>4. CASE o.side = "SELL"
  <2>1. PICK J : J = {o} \X (1..w)
    OBVIOUS
  <2>2. IsFiniteSet(J) /\ Cardinality(J) = w
    BY <2>1, FirstShares
  <2>3. T \subseteq S \cup J
    <3> SUFFICES ASSUME NEW h \in T, h \notin S PROVE h \in J
      OBVIOUS
    <3>1. h \in (os \cup {o}) \X (1..(MaxIntents * MaxUnits)) /\ h[1].side = "SELL" /\ h[2] <= OwedTo(h[1], c)
      BY <1>2 DEF ClaimedShares
    <3>2. h[1] = o /\ h[2] <= w /\ h[2] \in 1..(MaxIntents * MaxUnits)
      BY <1>1, <3>1 DEF ClaimedShares
    <3>3. h = <<h[1], h[2]>>
      BY <3>1
    <3>4. h[2] \in 1..w
      BY <3>2, NettingAssumption
    <3> QED
      BY <2>1, <3>2, <3>3, <3>4
  <2>4. IsFiniteSet(S \cup J) /\ Cardinality(S \cup J) <= Cardinality(S) + w
    BY <1>3, <2>2, JoinCount
  <2>5. Cardinality(T) <= Cardinality(S \cup J) /\ Cardinality(T) \in Nat /\ Cardinality(S \cup J) \in Nat
    BY <2>3, <2>4, FS_Subset, FS_CardinalityType
  <2>6. Cardinality(T) <= Cardinality(S) + w
    BY <1>3, <2>4, <2>5
  <2> QED
    BY <1>1, <1>2, <1>4, <2>6
<1>5. CASE o.side # "SELL"
  <2>1. T = S
    BY <1>1, <1>2, <1>5 DEF ClaimedShares
  <2> QED
    BY <1>1, <1>2, <1>3, <1>5, <2>1
<1> QED
  BY <1>4, <1>5

\* A sale gone claims nothing any more.
LEMMA ClaimRemoved ==
  ASSUME NEW os, IsFiniteSet(os), NEW o \in os, o.side = "SELL", NEW c,
         NEW w \in 0..(MaxIntents * MaxUnits), OwedTo(o, c) = w
  PROVE  Cardinality(ClaimedShares(os \ {o}, c)) = Cardinality(ClaimedShares(os, c)) - w
<1>1. PICK S : S = ClaimedShares(os, c)
  OBVIOUS
<1>2. PICK T : T = ClaimedShares(os \ {o}, c)
  OBVIOUS
<1>3. PICK J : J = {o} \X (1..w)
  OBVIOUS
<1>0. w \in Nat
  BY NettingAssumption
<1>4. IsFiniteSet(J) /\ Cardinality(J) = w /\ w \in Nat
  BY <1>0, <1>3, FirstShares
<1>5. \A h : h \in S <=> /\ h \in os \X (1..(MaxIntents * MaxUnits))
                         /\ h[1].side = "SELL" /\ h[2] <= OwedTo(h[1], c)
  BY <1>1 DEF ClaimedShares
<1>6. \A h : h \in T <=> /\ h \in (os \ {o}) \X (1..(MaxIntents * MaxUnits))
                         /\ h[1].side = "SELL" /\ h[2] <= OwedTo(h[1], c)
  BY <1>2 DEF ClaimedShares
<1>7. J \subseteq S
  <2> SUFFICES ASSUME NEW k \in 1..w PROVE <<o, k>> \in S
    BY <1>3
  <2>1. k \in 1..(MaxIntents * MaxUnits) /\ k <= w
    BY NettingAssumption
  <2> QED
    BY <1>5, <2>1
<1>8. \A h \in S : h[1] = o => h \in J
  <2> SUFFICES ASSUME NEW h \in S, h[1] = o PROVE h \in J
    OBVIOUS
  <2>1. h = <<h[1], h[2]>> /\ h[2] \in 1..(MaxIntents * MaxUnits) /\ h[2] <= w
    BY <1>5
  <2>2. h[2] \in 1..w
    BY <2>1, NettingAssumption
  <2> QED
    BY <1>3, <2>1, <2>2
<1>9. T = S \ J
  <2>1. \A h \in J : h[1] = o
    BY <1>3
  <2>2. \A h \in T : h \in S /\ h \notin J
    BY <1>5, <1>6, <2>1
  <2>3. \A h \in S : h \notin J => h \in T
    <3> SUFFICES ASSUME NEW h \in S, h \notin J PROVE h \in T
      OBVIOUS
    <3>1. h[1] # o /\ h \in os \X (1..(MaxIntents * MaxUnits)) /\ h[1].side = "SELL" /\ h[2] <= OwedTo(h[1], c)
      BY <1>5, <1>8
    <3>2. h \in (os \ {o}) \X (1..(MaxIntents * MaxUnits))
      BY <3>1
    <3> QED
      BY <1>6, <3>1, <3>2
  <2> QED
    BY <2>2, <2>3
<1>10. IsFiniteSet(S)
  BY <1>1, ClaimsAre
<1>11. Cardinality(S \ J) = Cardinality(S) - w
  BY <1>4, <1>7, <1>10, TakeCount
<1> QED
  BY <1>1, <1>2, <1>9, <1>11

\* A cell holds what the open sales claim of it, unless every sale that owes it is one of
\* the rivals.
SalesHeld(os, known, held) ==
  /\ IsFiniteSet(os)
  /\ \A o \in os, c \in Cell :
       o.side = "SELL" /\ o.id \notin known /\ OwedTo(o, c) > 0 => Cardinality(ClaimedShares(os, c)) <= held[c]

\* Sales that are held are filled.
LEMMA HeldIsFillable ==
  ASSUME MaxIntents <= 3, NettingTyped, SalesHeld(orders, rivals, pos), NEW o \in orders,
         NEW q \in 1..(MaxIntents * MaxUnits), NEW p \in FillPrices, o.side = "SELL", o.id \notin rivals,
         AllocateAccepts(o.owed, q)
  PROVE  LegsOk(FillLegs(o, Allocate(o.owed, q)), p)
<1>0. p \in Nat /\ q \in Nat \ {0} /\ q <= Total(o.owed) /\ OrderOk(o)
  BY NettingAssumption DEF AllocateAccepts, NettingTyped
<1>1. PICK n \in 1..MaxIntents : o.cells \in [1..n -> Cell] /\ o.owed \in [1..n -> 0..MaxUnits]
  BY <1>0 DEF OrderOk
<1>2. Owing(n, o.cells, o.owed)
  BY <1>1 DEF Owing
<1>3. PICK list : list = Allocate(o.owed, q)
  OBVIOUS
<1>4. PICK left : left = StillOwed(o.owed, list)
  OBVIOUS
<1>5. FillOf(o, q, list, left, n)
  BY <1>0, <1>2, <1>3, <1>4, FillIs
<1>6. PICK legs : legs = FillLegs(o, list)
  OBVIOUS
<1>7. FilledLegs(o, list, legs)
  BY <1>5, <1>6, FillLegsAre DEF FillOf
<1>8. ASSUME NEW c \in Cell
      PROVE  legs.sold[c] <= pos[c] /\ cash[c] + p * (legs.sold[c] - legs.bought[c]) >= 0
  <2>1. PICK x \in Nat, w \in Nat : x = PerCell(o.cells, list)[c] /\ w = PerCell(o.cells, left)[c]
    BY <1>5 DEF FillOf
  <2>2. OwedTo(o, c) = w + x
    BY <1>5, <2>1 DEF FillOf
  <2>3. PICK h \in Nat, k \in Nat : h = cash[c] /\ k = pos[c]
    BY DEF NettingTyped
  <2>4. legs.bought[c] = 0 /\ legs.sold[c] = x
    BY <1>7, <2>1 DEF FilledLegs
  <2>5. x <= k
    <3>1. CASE w + x = 0
      BY <3>1
    <3>2. CASE w + x > 0
      <4>1. Cardinality(ClaimedShares(orders, c)) <= k
        BY <2>2, <2>3, <3>2 DEF SalesHeld
      <4>2. w + x \in 0..(MaxIntents * MaxUnits)
        BY <1>0, <2>2, OwedIs
      <4>3. Cardinality(ClaimedShares(orders \ {o}, c)) = Cardinality(ClaimedShares(orders, c)) - (w + x)
        BY <2>2, <4>2, ClaimRemoved DEF SalesHeld
      <4>4. Cardinality(ClaimedShares(orders \ {o}, c)) \in Nat /\ Cardinality(ClaimedShares(orders, c)) \in Nat
        BY ClaimsAre DEF SalesHeld
      <4> QED
        BY <4>1, <4>3, <4>4
    <3> QED
      BY <3>1, <3>2
  <2>6. p * (x - 0) \in Nat
    BY <1>0
  <2> QED
    BY <2>3, <2>4, <2>5, <2>6
<1>9. LegsOk(legs, p)
  BY <1>8 DEF LegsOk
<1> QED
  BY <1>3, <1>6, <1>9

\* The netting of a batch: what it leaves to sell is checked together with what is
\* claimed already, or the sales concerned become rivals.
LEMMA NetBatchHeld ==
  ASSUME NettingTyped, IsFiniteSet(orders), NEW b \in Batch, NEW p \in TransferPrices, NetBatch(b, p)
  PROVE  SalesHeld(orders', rivals', pos')
<1>1. PICK n, r, legs : NetBatchDone(b, p, n, r, legs)
  BY NetBatchIs
<1>2. n \in 1..MaxIntents /\ b \in [1..n -> Intent] /\ n \in Nat /\ Owing(n, CellsOf(b), r.owed)
  BY <1>1, NettingAssumption DEF NetBatchDone
<1>3. PICK new : new = [id |-> count + 1, side |-> r.side, cells |-> CellsOf(b), owed |-> r.owed]
  OBVIOUS
<1>4. orders' = orders \/ (orders' = orders \cup {new} /\ r.side \in {"BUY", "SELL"})
  BY <1>1, <1>3 DEF NetBatchDone
<1>5. new.side = r.side /\ new.cells = CellsOf(b) /\ new.owed = r.owed
  BY <1>3
<1>6. IsFiniteSet(orders')
  BY <1>4, FS_AddElement
<1>7. rivals' = rivals \cup Rivals(orders', Oversold(b)) /\ BatchValid(b)
  BY DEF NetBatch
<1>8. ASSUME NEW o \in orders', NEW c \in Cell, o.side = "SELL", o.id \notin rivals', OwedTo(o, c) > 0
      PROVE  Cardinality(ClaimedShares(orders', c)) <= pos'[c]
  <2>1. c \notin Oversold(b)
    BY <1>7, <1>8 DEF Rivals
  <2>2. LegsTyped(legs)
    BY <1>1 DEF NetBatchDone, NettedLegs
  <2>3. PICK x \in Nat, y \in Nat, k \in Nat : x = legs.bought[c] /\ y = legs.sold[c] /\ k = pos[c]
    BY <2>2 DEF LegsTyped, NettingTyped
  <2>4. pos'[c] = k + x - y
    BY <1>1, <2>3 DEF NetBatchDone, Posted
  <2>5. PICK w \in Nat : w = PerCell(CellsOf(b), r.owed)[c] /\ w = OwedTo(new, c)
    <3>1. r.owed \in [1..n -> Nat] /\ \A i \in 1..n : CellsOf(b)[i] \in Cell
      BY <1>2, NettingAssumption DEF Owing
    <3>2. PerCellOk(n, CellsOf(b), r.owed, PerCell(CellsOf(b), r.owed))
      BY <1>2, <3>1, PerCellIs
    <3> QED
      BY <1>5, <3>2 DEF PerCellOk, OwedTo
  <2>6. PICK A \in Nat : A = PerCell(CellsOf(b), Demand(b, "SELL"))[c] /\ A = AskedBy(n, b, "SELL", c)
    <3>1. PICK E : E = Demand(b, "SELL")
      OBVIOUS
    <3>2. E \in [1..n -> Nat] /\ \A i \in 1..n : CellsOf(b)[i] \in Cell
      <4>1. \A i \in 1..n : b[i].qty \in Nat /\ b[i].cell \in Cell
        BY <1>2, NettingAssumption DEF Intent
      <4> QED
        BY <1>2, <3>1, <4>1 DEF Demand, CellsOf
    <3>3. PerCellOk(n, CellsOf(b), E, PerCell(CellsOf(b), E))
      BY <1>2, <3>2, PerCellIs
    <3> QED
      BY <3>1, <3>3 DEF PerCellOk, AskedBy
  <2>7. A = y + (IF r.side = "BUY" THEN 0 ELSE w)
    BY <1>1, <2>3, <2>5, <2>6 DEF NetBatchDone, NettedLegs
  <2>8. A <= k
    BY <1>7, <2>3, <2>6 DEF BatchValid
  <2>9. PICK cl \in Nat : cl = Cardinality(ClaimedShares(orders, c))
    BY ClaimsAre
  <2>10. cl > 0 => cl + A <= k
    BY <2>1, <2>3, <2>6, <2>9 DEF Oversold, Claimed
  <2>11. Cardinality(ClaimedShares(orders', c)) \in Nat
    BY <1>6, ClaimsAre
  <2>12. CASE orders' = orders
    <3>1. cl <= k - A \/ cl = 0
      BY <2>3, <2>6, <2>9, <2>10
    <3>2. y <= A
      BY <2>3, <2>5, <2>7
    <3> QED
      BY <2>3, <2>4, <2>8, <2>9, <2>12, <3>1, <3>2
  <2>13. CASE orders' = orders \cup {new} /\ r.side \in {"BUY", "SELL"}
    <3>1. Cardinality(ClaimedShares(orders', c)) <= cl + (IF r.side = "SELL" THEN w ELSE 0)
      BY <1>5, <2>5, <2>9, <2>13, ClaimAdded
    <3>2. Cardinality(ClaimedShares(orders', c)) <= cl + (A - y)
      <4>1. CASE r.side = "SELL"
        BY <2>3, <2>5, <2>7, <2>9, <2>11, <3>1, <4>1
      <4>2. CASE r.side = "BUY"
        BY <2>3, <2>7, <2>9, <2>11, <3>1, <4>2
      <4> QED
        BY <2>13, <4>1, <4>2
    <3>3. y <= A
      BY <2>3, <2>5, <2>7
    <3>4. cl + (A - y) <= k - y
      BY <2>3, <2>6, <2>8, <2>9, <2>10, <3>3
    <3>5. cl + (A - y) <= pos'[c]
      BY <2>3, <2>4, <2>6, <2>9, <3>4
    <3> QED
      BY <2>3, <2>4, <2>6, <2>9, <2>11, <3>2, <3>5
  <2> QED
    BY <1>4, <2>12, <2>13
<1> QED
  BY <1>6, <1>8 DEF SalesHeld

\* A fill takes from the claims what it takes from the cells, and more when it is refused.
LEMMA BrokerFillHeld ==
  ASSUME MaxIntents <= 3, NettingTyped, SalesHeld(orders, rivals, pos), NEW o \in orders,
         NEW q \in 1..(MaxIntents * MaxUnits), NEW p \in FillPrices, BrokerFill(o, q, p)
  PROVE  SalesHeld(orders', rivals', pos')
<1>1. PICK n, list, left, legs : FillDone(o, q, p, n, list, left, legs)
  BY BrokerFillIs
<1>2. PICK new : new = [id |-> o.id, side |-> o.side, cells |-> o.cells, owed |-> left]
  OBVIOUS
<1>3. new.id = o.id /\ new.side = o.side /\ new.cells = o.cells /\ new.owed = left
  BY <1>2
<1>4. orders' = orders \ {o} \/ orders' = (orders \ {o}) \cup {new}
  BY <1>1, <1>2 DEF FillDone
<1>5. IsFiniteSet(orders) /\ IsFiniteSet(orders \ {o})
  BY FS_RemoveElement DEF SalesHeld
<1>6. IsFiniteSet(orders')
  <2>1. IsFiniteSet((orders \ {o}) \cup {new})
    BY <1>5, FS_AddElement
  <2> QED
    BY <1>4, <1>5, <2>1
<1>7. rivals' = rivals /\ o.side \in {"BUY", "SELL"} /\ OrderOk(o)
  BY <1>1 DEF BrokerFill, FillDone, NettingTyped
<1>8. ASSUME NEW v \in orders', NEW c \in Cell, v.side = "SELL", v.id \notin rivals', OwedTo(v, c) > 0
      PROVE  Cardinality(ClaimedShares(orders', c)) <= pos'[c]
  <2>1. PICK x \in Nat, w \in Nat, k \in Nat :
          x = PerCell(o.cells, list)[c] /\ w = OwedTo(new, c) /\ k = pos[c] /\ OwedTo(o, c) = w + x
    <3>1. PICK x \in Nat, w \in Nat : x = PerCell(o.cells, list)[c] /\ w = PerCell(o.cells, left)[c]
      BY <1>1 DEF FillDone, FillOf
    <3>2. OwedTo(o, c) = w + x
      BY <1>1, <3>1 DEF FillDone, FillOf
    <3>3. w = OwedTo(new, c)
      BY <1>3, <3>1 DEF OwedTo
    <3>4. PICK k \in Nat : k = pos[c]
      BY DEF NettingTyped
    <3> QED
      BY <3>1, <3>2, <3>3, <3>4
  <2>2. PICK cl \in Nat : cl = Cardinality(ClaimedShares(orders, c))
    BY <1>5, ClaimsAre
  <2>3. PICK less \in Nat : less = Cardinality(ClaimedShares(orders \ {o}, c)) /\ less <= cl
    BY <1>5, <2>2, ClaimsAre
  <2>4. PICK cn \in Nat : cn = Cardinality(ClaimedShares(orders', c))
    BY <1>6, ClaimsAre
  <2>5. cn <= less + (IF o.side = "SELL" THEN w ELSE 0)
    BY <1>3, <1>4, <1>5, <2>1, <2>3, <2>4, ClaimAdded
  <2>6. cl <= k
    <3>1. CASE v \in orders
      BY <1>7, <1>8, <2>1, <2>2, <3>1 DEF SalesHeld
    <3>2. CASE v = new
      <4>1. o.side = "SELL" /\ o.id \notin rivals /\ OwedTo(o, c) > 0
        BY <1>3, <1>7, <1>8, <2>1, <3>2
      <4> QED
        BY <2>1, <2>2, <4>1 DEF SalesHeld
    <3> QED
      BY <1>4, <3>1, <3>2
  <2>7. pos' = pos \/ (Posted(legs, p) /\ FilledLegs(o, list, legs))
    BY <1>1 DEF FillDone
  <2>8. CASE o.side = "SELL"
    <3>1. less = cl - (w + x)
      <4>1. w + x \in 0..(MaxIntents * MaxUnits)
        BY <1>7, <2>1, OwedIs
      <4> QED
        BY <1>5, <2>1, <2>2, <2>3, <2>8, <4>1, ClaimRemoved
    <3>2. cn <= cl - x
      BY <2>5, <2>8, <3>1
    <3>3. Posted(legs, p) /\ FilledLegs(o, list, legs) => pos'[c] = k + 0 - x
      BY <2>1, <2>8 DEF Posted, FilledLegs
    <3> QED
      BY <2>1, <2>4, <2>6, <2>7, <3>2, <3>3
  <2>9. CASE o.side = "BUY"
    <3>1. cn <= cl
      BY <2>3, <2>5, <2>9
    <3>2. Posted(legs, p) /\ FilledLegs(o, list, legs) => pos'[c] = k + x - 0
      BY <2>1, <2>9 DEF Posted, FilledLegs
    <3> QED
      BY <2>1, <2>4, <2>6, <2>7, <3>1, <3>2
  <2> QED
    BY <1>7, <2>8, <2>9
<1> QED
  BY <1>6, <1>8 DEF SalesHeld

\* A sale in flight can always be filled (netting.py's _validate_batch, ledger.py): with
\* any number of batches in flight, any budgets, claw-backs, refusals and prices, the
\* cells accept whatever part of it is filled next, unless it is one of several sales
\* that claimed more of a cell's shares than the cell held when one of them was netted.
THEOREM SalesAlwaysFillable ==
  ASSUME MaxIntents <= 3
  PROVE  NettingSpec => []SalesStayFillable
<1> DEFINE Inv == SalesHeld(orders, rivals, pos)
<1>1. NettingInit => Inv
  <2> SUFFICES ASSUME NettingInit PROVE Inv
    OBVIOUS
  <2>1. orders = {}
    BY DEF NettingInit
  <2> QED
    BY <2>1, FS_EmptySet DEF SalesHeld
<1>2. NettingTyped /\ Inv /\ [NettingNext]_netvars => Inv'
  <2> SUFFICES ASSUME NettingTyped, SalesHeld(orders, rivals, pos), [NettingNext]_netvars
               PROVE  SalesHeld(orders', rivals', pos')
    OBVIOUS
  <2>1. CASE \E b \in Batch, p \in TransferPrices : NetBatch(b, p)
    BY <2>1, NetBatchHeld DEF SalesHeld
  <2>2. CASE \E o \in orders, q \in 1..(MaxIntents * MaxUnits), p \in FillPrices : BrokerFill(o, q, p)
    BY <2>2, BrokerFillHeld
  <2>3. ASSUME NEW o \in orders, CancelOrder(o) PROVE SalesHeld(orders', rivals', pos')
    <3>1. orders' = orders \ {o} /\ pos' = pos /\ rivals' = rivals
      BY <2>3 DEF CancelOrder, cellvars, history
    <3>2. IsFiniteSet(orders) /\ IsFiniteSet(orders \ {o})
      BY FS_RemoveElement DEF SalesHeld
    <3>3. ASSUME NEW v \in orders \ {o}, NEW c \in Cell, v.side = "SELL", v.id \notin rivals, OwedTo(v, c) > 0
          PROVE  Cardinality(ClaimedShares(orders \ {o}, c)) <= pos[c]
      <4>1. Cardinality(ClaimedShares(orders, c)) <= pos[c]
        BY <3>3 DEF SalesHeld
      <4>2. /\ Cardinality(ClaimedShares(orders \ {o}, c)) <= Cardinality(ClaimedShares(orders, c))
            /\ Cardinality(ClaimedShares(orders \ {o}, c)) \in Nat /\ Cardinality(ClaimedShares(orders, c)) \in Nat
        BY <3>2, ClaimsAre
      <4>3. pos[c] \in Nat
        BY DEF NettingTyped
      <4> QED
        BY <4>1, <4>2, <4>3
    <3> QED
      BY <3>1, <3>2, <3>3 DEF SalesHeld
  <2>4. CASE (\E c \in Cell, a \in Budgets : AllocateCash(c, a)) \/ Reconcile \/ UNCHANGED netvars
    <3>1. orders' = orders /\ pos' = pos /\ rivals' = rivals
      BY <2>4 DEF AllocateCash, Reconcile, netvars, cellvars, history
    <3> QED
      BY <3>1
  <2> QED
    BY <2>1, <2>2, <2>3, <2>4 DEF NettingNext
<1>3. NettingTyped /\ Inv => SalesStayFillable
  BY HeldIsFillable DEF SalesStayFillable
<1>4. NettingSpec => []NettingTyped
  BY NettingTypeCorrect
<1> HIDE DEF Inv
<1> QED
  BY <1>1, <1>2, <1>3, <1>4, PTL DEF NettingSpec
=============================================================================
