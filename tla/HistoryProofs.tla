---------------------------- MODULE HistoryProofs ----------------------------
(***************************************************************************)
(* Proofs about what is recorded: the observations and verdicts of a       *)
(* decision (QualityTracking), the books, settlement and the point-in-time *)
(* store (Books), and both side by side (History).                         *)
(***************************************************************************)
EXTENDS History, Counting

-----------------------------------------------------------------------------
(* The observations of a decision.                                         *)

Labels == DOMAIN After \cup {"expected"}

\* The constants, as the steps below use them.
LEMMA Horizons ==
  /\ Len(Order) \in Nat /\ Len(Order) > 1 /\ Day \in Nat /\ LastDay \in Nat /\ Day <= LastDay
  /\ \A k \in 1..Len(Order) : Order[k] \in Labels
  /\ \A h \in DOMAIN After : After[h] \in Nat /\ Day + After[h] \in 0..LastDay
<1> USE QualityAssumption
<1>1. Len(Order) \in Nat /\ Order \in [1..Len(Order) -> DOMAIN After \cup {"expected"}]
  OBVIOUS
<1>2. PICK n \in Nat : n = Len(Order) /\ n > 1
  BY <1>1
<1>3. n - 1 \in 1..n /\ n - 1 # n
  BY <1>2
<1>4. Order[n - 1] \in DOMAIN After
  BY <1>1, <1>2, <1>3
<1>5. After[Order[n - 1]] \in Nat /\ LastDay = Day + After[Order[n - 1]]
  BY <1>2, <1>4 DEF LastDay
<1>6. ASSUME NEW h \in DOMAIN After PROVE After[h] <= After[Order[n - 1]]
  <2>1. PICK k \in 1..n : Order[k] = h
    BY <1>2
  <2>2. k # n
    BY <1>2, <2>1
  <2>3. k \in 1..n - 1 /\ n - 1 \in 1..n - 1
    BY <1>2, <2>2
  <2>4. k < n - 1 => After[Order[k]] < After[Order[n - 1]]
    BY <1>2, <2>3
  <2> QED
    BY <1>5, <2>1, <2>3, <2>4
<1>7. LastDay \in Nat /\ Day <= LastDay /\ Day \in Nat
  BY <1>5
<1>8. ASSUME NEW h \in DOMAIN After PROVE After[h] \in Nat /\ Day + After[h] \in 0..LastDay
  <2>1. PICK a, b \in Nat : a = After[h] /\ b = After[Order[n - 1]]
    BY <1>5
  <2>2. a <= b /\ LastDay = Day + b
    BY <1>5, <1>6, <2>1
  <2>3. Day + a \in 0..LastDay
    BY <1>7, <2>2
  <2> QED
    BY <2>1, <2>3
<1>9. \A k \in 1..Len(Order) : Order[k] \in Labels
  BY <1>1 DEF Labels
<1> QED
  BY <1>1, <1>7, <1>8, <1>9

MoveType == move \in [1..LastDay -> Int]

\* The price path is defined.
LEMMA PathIs ==
  ASSUME MoveType
  PROVE  /\ PriceOf \in [0..LastDay -> Nat] /\ PriceOf[0] = Base
         /\ \A d \in 1..LastDay : PriceOf[d] = Larger(Floor, PriceOf[d - 1] + move[d])
<1> DEFINE n == LastDay
           T == Nat
           b == Base
           step == [a \in T \X (1..n) |-> Larger(Floor, a[1] + move[a[2]])]
<1>1. n \in Nat /\ b \in T /\ Floor \in Nat
  BY QualityAssumption, Horizons
<1>2. \A a \in T, k \in 1..n : Larger(Floor, a + move[k]) \in T
  BY <1>1 DEF MoveType, Larger
<1>3. \A a \in T, k \in 1..n : step[<<a, k>>] = Larger(Floor, a + move[k])
  OBVIOUS
<1>4. \E g : RunOf(g, T, b, n, step)
  <2>1. BodyOf(T, n, step)
    <3> HIDE DEF T, b, n, step
    <3> QED
      BY <1>2, <1>3 DEF BodyOf
  <2> HIDE DEF T, b, n, step
  <2> QED
    BY <1>1, <2>1, LoopExists
<1>5. PICK g : RunOf(g, T, b, n, step)
  BY <1>4
<1>6. g \in [0..n -> T] /\ g[0] = b /\ \A k \in 1..n : g[k] = step[<<g[k - 1], k>>]
  BY <1>5 DEF RunOf
<1> HIDE DEF T, b, n, step
<1>7. \A k \in 1..n : k - 1 \in 0..n /\ g[k - 1] \in T
  BY <1>1, <1>6
<1>8. \A k \in 1..n : g[k] = Larger(Floor, g[k - 1] + move[k])
  BY <1>3, <1>6, <1>7
<1>9. g = [k \in 0..n |-> IF k = 0 THEN b ELSE Larger(Floor, g[k - 1] + move[k])]
  BY <1>1, <1>6, <1>8
<1>10. \E h : h = [k \in 0..n |-> IF k = 0 THEN b ELSE Larger(Floor, h[k - 1] + move[k])]
  BY <1>9
<1>11. PICK m : m = PriceOf
  OBVIOUS
<1>12. m = [k \in 0..n |-> IF k = 0 THEN b ELSE Larger(Floor, m[k - 1] + move[k])]
  BY <1>10, <1>11 DEF PriceOf, n, b
<1>13. m[0] = b /\ \A k \in 1..n : m[k] = Larger(Floor, m[k - 1] + move[k])
  BY <1>1, <1>12
<1> DEFINE S == {k \in 0..n : m[k] \in T}
<1>14. \A k \in 0..n : k \in S
  <2>1. 0 \in S
    BY <1>1, <1>13
  <2>2. ASSUME NEW k \in 0..n-1, k \in S PROVE k + 1 \in S
    <3>1. k + 1 \in 1..n /\ k + 1 \in 0..n /\ (k + 1) - 1 = k
      BY <1>1
    <3>2. m[k] \in T
      BY <2>2
    <3>3. m[k + 1] = Larger(Floor, m[k] + move[k + 1])
      BY <1>13, <3>1
    <3>4. Larger(Floor, m[k] + move[k + 1]) \in T
      BY <1>2, <3>1, <3>2
    <3> QED
      BY <3>1, <3>3, <3>4
  <2> HIDE DEF S
  <2> QED
    BY <1>1, <2>1, <2>2, CountUp
<1>15. DOMAIN m = 0..n /\ m = [k \in 0..n |-> m[k]]
  BY <1>12
<1>16. m \in [0..n -> T]
  <2>1. \A k \in 0..n : m[k] \in T
    BY <1>14
  <2> QED
    BY <1>15, <2>1
<1> QED
  BY <1>11, <1>13, <1>16 DEF T, b, n

\* What the memo holds is the path as far as it was walked.
WalkInv == \E m \in 0..LastDay : walk = [k \in 0..m |-> PriceOf[k]]

\* Walking on from the last known day gives the path.
LEMMA WalkGoesOn ==
  ASSUME MoveType, WalkInv, NEW d \in 0..LastDay
  PROVE  \E m \in 0..LastDay : m >= d /\ WalkTo(d) = [k \in 0..m |-> PriceOf[k]]
<1>0. LastDay \in Nat
  BY Horizons
<1>1. PICK m \in 0..LastDay : walk = [k \in 0..m |-> PriceOf[k]]
  BY DEF WalkInv
<1>2. DOMAIN walk = 0..m /\ \A k \in 0..m : walk[k] = PriceOf[k]
  BY <1>1
<1>3. Max(DOMAIN walk) = m
  <2>1. m \in DOMAIN walk /\ \A y \in DOMAIN walk : m >= y
    BY <1>2
  <2>2. \A x \in DOMAIN walk : (\A y \in DOMAIN walk : x >= y) => x = m
    BY <1>2
  <2> QED
    BY <2>1, <2>2 DEF Max
<1>4. PICK p : p = PriceOf
  OBVIOUS
<1>5. /\ p \in [0..LastDay -> Nat] /\ p[0] = Base
      /\ \A k \in 1..LastDay : p[k] = Larger(Floor, p[k - 1] + move[k])
  BY <1>4, PathIs
<1>6. p = [k \in 0..LastDay |-> IF k = 0 THEN Base
                               ELSE IF k <= m THEN walk[k] ELSE Larger(Floor, p[k - 1] + move[k])]
  <2>1. ASSUME NEW k \in 0..LastDay
        PROVE  p[k] = IF k = 0 THEN Base
                      ELSE IF k <= m THEN walk[k] ELSE Larger(Floor, p[k - 1] + move[k])
    <3>1. CASE k = 0
      BY <1>5, <3>1
    <3>2. CASE k # 0 /\ k <= m
      BY <1>2, <1>4, <3>2
    <3>3. CASE k # 0 /\ ~(k <= m)
      BY <1>5, <3>3
    <3> QED
      BY <3>1, <3>2, <3>3
  <2> QED
    BY <1>5, <2>1
<1>7. \E h : h = [k \in 0..LastDay |-> IF k = 0 THEN Base
                  ELSE IF k <= m THEN walk[k] ELSE Larger(Floor, h[k - 1] + move[k])]
  BY <1>6
<1>8. PICK on : on = WalkOn(m)
  OBVIOUS
<1>9. on = [k \in 0..LastDay |-> IF k = 0 THEN Base
            ELSE IF k <= m THEN walk[k] ELSE Larger(Floor, on[k - 1] + move[k])]
  BY <1>7, <1>8 DEF WalkOn
<1> DEFINE S == {k \in 0..LastDay : on[k] = p[k]}
<1>10. \A k \in 0..LastDay : k \in S
  <2>1. 0 \in S
    <3>1. on[0] = Base
      BY <1>0, <1>9
    <3> QED
      BY <1>0, <1>5, <3>1
  <2>2. ASSUME NEW k \in 0..LastDay - 1, k \in S PROVE k + 1 \in S
    <3>1. k + 1 \in 0..LastDay /\ k + 1 \in 1..LastDay /\ (k + 1) - 1 = k /\ k + 1 # 0
      BY <1>0
    <3>2. on[k + 1] = IF k + 1 <= m THEN walk[k + 1] ELSE Larger(Floor, on[k] + move[k + 1])
      BY <1>9, <3>1
    <3>3. on[k] = p[k]
      BY <2>2
    <3>4. p[k + 1] = Larger(Floor, p[k] + move[k + 1])
      BY <1>5, <3>1
    <3>5. k + 1 <= m => walk[k + 1] = p[k + 1]
      BY <1>2, <1>4, <3>1
    <3> QED
      BY <3>1, <3>2, <3>3, <3>4, <3>5
  <2> HIDE DEF S
  <2> QED
    BY <1>0, <2>1, <2>2, CountUp
<1>11. PICK e \in 0..LastDay : e = Larger(d, m) /\ e >= d
  BY <1>0 DEF Larger
<1>12. WalkTo(d) = [k \in 0..e |-> on[k]]
  BY <1>3, <1>8, <1>11 DEF WalkTo
<1>13. \A k \in 0..e : on[k] = PriceOf[k]
  BY <1>0, <1>4, <1>10, <1>11
<1>14. WalkTo(d) = [k \in 0..e |-> PriceOf[k]]
  BY <1>12, <1>13
<1> QED
  BY <1>11, <1>14

-----------------------------------------------------------------------------
OwnOf(s, h) == IF h = "expected" THEN s.expected ELSE h
Dir(s) == IF Direction(s.kind) = 0 THEN 1 ELSE Direction(s.kind)
GainAt(s, x) == Dir(s) * (PriceOf[Day + After[x]] - s.ref)

SnapOk(s) == s.kind \in Kind /\ s.expected \in DOMAIN After \cup {"none"} /\ s.ref = PriceOf[Day]

Observation == [price: Int, ret: Int, at: Int, mae: Int, mfe: Int]
ObsType == UNION {[D -> Observation] : D \in SUBSET Labels}

\* The excursions v.mae and v.mfe are those of the horizons up to `own'.
ExcursionsOk(s, v, own) ==
  /\ v.mae <= 0 /\ 0 <= v.mfe
  /\ v.mae <= GainAt(s, own) /\ GainAt(s, own) <= v.mfe
  /\ \A t \in Track : After[t] <= After[own] => v.mae <= GainAt(s, t) /\ GainAt(s, t) <= v.mfe
  /\ v.mae = 0 \/ \E x \in DOMAIN After : After[x] <= After[own] /\ v.mae = GainAt(s, x)
  /\ v.mfe = 0 \/ \E x \in DOMAIN After : After[x] <= After[own] /\ v.mfe = GainAt(s, x)

\* An observation v of horizon h is right.
RightOf(s, h, v) ==
  /\ OwnOf(s, h) \in DOMAIN After
  /\ v.at = Day + After[OwnOf(s, h)]
  /\ v.price = PriceOf[Day + After[OwnOf(s, h)]]
  /\ v.ret = PriceOf[Day + After[OwnOf(s, h)]] - s.ref
  /\ ExcursionsOk(s, v, OwnOf(s, h))

AllRight(s, o) == o \in ObsType /\ \A h \in DOMAIN o : RightOf(s, h, o[h])

\* There are finitely many horizons.
LEMMA LabelsFinite == IsFiniteSet(Labels)
<1>1. IsFiniteSet(1..Len(Order))
  BY Horizons, FS_Interval
<1>2. Order \in [1..Len(Order) -> Labels] /\ \A t \in Labels : \E k \in 1..Len(Order) : Order[k] = t
  BY QualityAssumption DEF Labels
<1> QED
  BY <1>1, <1>2, ImageFinite

\* Gains are integers.
LEMMA GainType ==
  ASSUME MoveType, NEW s, SnapOk(s)
  PROVE  /\ s.ref \in Int /\ Dir(s) \in {-1, 1} /\ Direction(s.kind) \in {-1, 0, 1}
         /\ \A x \in DOMAIN After : PriceOf[Day + After[x]] \in Int /\ GainAt(s, x) \in Int
<1>1. PriceOf \in [0..LastDay -> Nat] /\ Day \in 0..LastDay
  BY PathIs, Horizons
<1>2. s.ref \in Int
  BY <1>1 DEF SnapOk
<1>3. Direction(s.kind) \in {-1, 0, 1}
  BY DEF Direction
<1>4. Dir(s) \in {-1, 1}
  BY <1>3 DEF Dir
<1>5. ASSUME NEW x \in DOMAIN After PROVE PriceOf[Day + After[x]] \in Int /\ GainAt(s, x) \in Int
  <2>1. PriceOf[Day + After[x]] \in Int
    BY <1>1, Horizons
  <2> QED
    BY <1>2, <1>4, <2>1 DEF GainAt
<1> QED
  BY <1>2, <1>3, <1>4, <1>5

\* The least of a finite set of integers.
LEMMA MinIs ==
  ASSUME NEW S, IsFiniteSet(S), S # {}, \A x \in S : x \in Int
  PROVE  Min(S) \in S /\ Min(S) \in Int /\ \A y \in S : Min(S) <= y
<1>1. \E x \in S : \A y \in S : x <= y
  BY LeastExists
<1>2. Min(S) \in S /\ \A y \in S : Min(S) <= y
  BY <1>1 DEF Min
<1> QED
  BY <1>2

\* The greatest.
LEMMA MaxIs ==
  ASSUME NEW S, IsFiniteSet(S), S # {}, \A x \in S : x \in Int
  PROVE  Max(S) \in S /\ Max(S) \in Int /\ \A y \in S : Max(S) >= y
<1>1. \E x \in S : \A y \in S : x >= y
  BY GreatestExists
<1>2. Max(S) \in S /\ \A y \in S : Max(S) >= y
  BY <1>1 DEF Max
<1> QED
  BY <1>2

\* m is the least of the value x and the values f[p] before it, or of x and 0.
LeastOf(m, x, pr, f) ==
  /\ m \in Int /\ m <= x /\ (pr = {} => m <= 0) /\ (\A p \in pr : m <= f[p])
  /\ m = x \/ (pr = {} /\ m = 0) \/ \E p \in pr : m = f[p]
MostOf(m, x, pr, f) ==
  /\ m \in Int /\ m >= x /\ (pr = {} => m >= 0) /\ (\A p \in pr : m >= f[p])
  /\ m = x \/ (pr = {} /\ m = 0) \/ \E p \in pr : m = f[p]

LEMMA LeastWithPrior ==
  ASSUME NEW x \in Int, NEW pr, IsFiniteSet(pr), NEW f \in [pr -> Int]
  PROVE  /\ LeastOf(Min({x} \cup (IF pr = {} THEN {0} ELSE {f[p] : p \in pr})), x, pr, f)
         /\ MostOf(Max({x} \cup (IF pr = {} THEN {0} ELSE {f[p] : p \in pr})), x, pr, f)
<1> DEFINE F == {f[p] : p \in pr}
           A == {x} \cup (IF pr = {} THEN {0} ELSE F)
<1>1. IsFiniteSet(F)
  <2>1. f \in [pr -> F] /\ \A t \in F : \E p \in pr : f[p] = t
    OBVIOUS
  <2> HIDE DEF F
  <2> QED
    BY <2>1, ImageFinite
<1>2. IsFiniteSet(A)
  <2>1. IsFiniteSet({x}) /\ IsFiniteSet({0})
    BY FS_Singleton
  <2> HIDE DEF F
  <2> QED
    BY <1>1, <2>1, FS_Union
<1>3. A # {} /\ \A y \in A : y \in Int
  OBVIOUS
<1>4. x \in A /\ (pr = {} => 0 \in A) /\ (\A p \in pr : f[p] \in A)
  OBVIOUS
<1>5. \A y \in A : y = x \/ (pr = {} /\ y = 0) \/ \E p \in pr : y = f[p]
  OBVIOUS
<1> HIDE DEF A
<1>6. Min(A) \in A /\ Min(A) \in Int /\ \A y \in A : Min(A) <= y
  BY <1>2, <1>3, MinIs
<1>7. Max(A) \in A /\ Max(A) \in Int /\ \A y \in A : Max(A) >= y
  BY <1>2, <1>3, MaxIs
<1>8. LeastOf(Min(A), x, pr, f)
  BY <1>4, <1>5, <1>6 DEF LeastOf
<1>9. MostOf(Max(A), x, pr, f)
  BY <1>4, <1>5, <1>7 DEF MostOf
<1> QED
  BY <1>8, <1>9 DEF A

\* What one observation is.
LEMMA ObserveIs ==
  ASSUME NEW s, NEW o \in ObsType, NEW h, NEW px \in Int, s.ref \in Int,
         Dir(s) \in {-1, 1}, DueOf(s, h) \in Int
  PROVE  LET v == Observe(s, o, h, px)
             pr == Prior(o, DueOf(s, h))
         IN  /\ v \in Observation /\ v.price = px /\ v.ret = px - s.ref /\ v.at = DueOf(s, h)
             /\ LeastOf(v.mae, (px - s.ref) * Dir(s), pr, [p \in pr |-> o[p].mae])
             /\ MostOf(v.mfe, (px - s.ref) * Dir(s), pr, [p \in pr |-> o[p].mfe])
<1> DEFINE v == Observe(s, o, h, px)
           pr == Prior(o, DueOf(s, h))
           x == (px - s.ref) * Dir(s)
           lo == [p \in pr |-> o[p].mae]
           hi == [p \in pr |-> o[p].mfe]
<1>1. pr \subseteq DOMAIN o /\ DOMAIN o \subseteq Labels /\ \A p \in DOMAIN o : o[p] \in Observation
  BY DEF Prior, ObsType
<1>2. IsFiniteSet(pr)
  <2> HIDE DEF pr
  <2> QED
    BY <1>1, LabelsFinite, FS_Subset
<1>3. x \in Int
  OBVIOUS
<1>4. lo \in [pr -> Int] /\ hi \in [pr -> Int]
  <2>1. \A p \in pr : o[p].mae \in Int /\ o[p].mfe \in Int
    BY <1>1 DEF Observation
  <2> HIDE DEF pr
  <2> QED
    BY <2>1
<1>5. {lo[p] : p \in pr} = {o[p].mae : p \in pr} /\ {hi[p] : p \in pr} = {o[p].mfe : p \in pr}
  <2> HIDE DEF pr
  <2> QED
    OBVIOUS
<1> DEFINE A == {x} \cup (IF pr = {} THEN {0} ELSE {o[p].mae : p \in pr})
           B == {x} \cup (IF pr = {} THEN {0} ELSE {o[p].mfe : p \in pr})
<1>6. v = [price |-> px, ret |-> px - s.ref, at |-> DueOf(s, h), mae |-> Min(A), mfe |-> Max(B)]
  BY DEF Observe, Dir
<1>7. LeastOf(Min(A), x, pr, lo) /\ MostOf(Max(B), x, pr, hi)
  <2> HIDE DEF pr, x, lo, hi
  <2>1. LeastOf(Min({x} \cup (IF pr = {} THEN {0} ELSE {lo[p] : p \in pr})), x, pr, lo)
    BY <1>2, <1>3, <1>4, LeastWithPrior
  <2>2. MostOf(Max({x} \cup (IF pr = {} THEN {0} ELSE {hi[p] : p \in pr})), x, pr, hi)
    BY <1>2, <1>3, <1>4, LeastWithPrior
  <2> QED
    BY <1>5, <2>1, <2>2
<1> HIDE DEF A, B
<1>8. Min(A) \in Int /\ Max(B) \in Int
  BY <1>7 DEF LeastOf, MostOf
<1>9. v \in Observation /\ v.price = px /\ v.ret = px - s.ref /\ v.at = DueOf(s, h)
      /\ v.mae = Min(A) /\ v.mfe = Max(B)
  <2> HIDE DEF v
  <2> QED
    BY <1>6, <1>8 DEF Observation
<1> QED
  BY <1>7, <1>9

\* An observation made when those of the week up to it are there is right.
LEMMA ObserveRight ==
  ASSUME MoveType, NEW s, SnapOk(s), NEW o, AllRight(s, o), NEW h, OwnOf(s, h) \in DOMAIN After,
         \A t \in Track : After[t] <= After[OwnOf(s, h)] => t \in DOMAIN o \/ t = OwnOf(s, h)
  PROVE  LET v == Observe(s, o, h, PriceOf[DueOf(s, h)])
         IN  v \in Observation /\ RightOf(s, h, v)
<1> DEFINE own == OwnOf(s, h)
           px == PriceOf[DueOf(s, h)]
           v == Observe(s, o, h, px)
           pr == Prior(o, DueOf(s, h))
           x == (px - s.ref) * Dir(s)
<1>1. DueOf(s, h) = Day + After[own] /\ DueOf(s, h) \in Int
  BY Horizons DEF DueOf, OwnOf
<1>2. /\ s.ref \in Int /\ Dir(s) \in {-1, 1}
      /\ \A y \in DOMAIN After : PriceOf[Day + After[y]] \in Int /\ GainAt(s, y) \in Int
  BY GainType
<1>3. px \in Int
  BY <1>1, <1>2
<1>4. x = GainAt(s, own)
  <2>1. PICK a \in Int : a = px - s.ref
    BY <1>2, <1>3
  <2>2. PICK b \in Int : b = Dir(s)
    BY <1>2
  <2>3. a * b = b * a
    OBVIOUS
  <2> QED
    BY <1>1, <2>1, <2>2, <2>3 DEF GainAt
<1>5. /\ v \in Observation /\ v.price = px /\ v.ret = px - s.ref /\ v.at = DueOf(s, h)
      /\ LeastOf(v.mae, x, pr, [p \in pr |-> o[p].mae])
      /\ MostOf(v.mfe, x, pr, [p \in pr |-> o[p].mfe])
  BY <1>1, <1>2, <1>3, ObserveIs DEF AllRight
<1>6. ASSUME NEW p \in pr
      PROVE  /\ p \in DOMAIN o /\ RightOf(s, p, o[p]) /\ o[p].mae \in Int /\ o[p].mfe \in Int
             /\ OwnOf(s, p) \in DOMAIN After /\ After[OwnOf(s, p)] <= After[own]
  <2>1. p \in DOMAIN o /\ o[p].at <= DueOf(s, h)
    BY DEF Prior
  <2>2. RightOf(s, p, o[p]) /\ o[p] \in Observation
    BY <2>1 DEF AllRight, ObsType
  <2>3. OwnOf(s, p) \in DOMAIN After /\ Day + After[OwnOf(s, p)] <= Day + After[own]
    BY <1>1, <2>1, <2>2 DEF RightOf
  <2>4. After[OwnOf(s, p)] \in Nat /\ After[own] \in Nat /\ Day \in Nat
    BY <2>3, Horizons
  <2> QED
    BY <2>1, <2>2, <2>3, <2>4 DEF Observation
<1>7. ASSUME NEW t \in Track, After[t] <= After[own], t # own
      PROVE  t \in pr /\ OwnOf(s, t) = t /\ t \in DOMAIN After
  <2>1. t \in DOMAIN After /\ t # "expected" /\ t \in DOMAIN o
    BY <1>7, QualityAssumption
  <2>2. OwnOf(s, t) = t /\ o[t].at = Day + After[t]
    BY <2>1 DEF OwnOf, AllRight, RightOf
  <2>3. Day + After[t] <= Day + After[own]
    BY <1>7, <2>1, Horizons
  <2> QED
    BY <1>1, <2>1, <2>2, <2>3 DEF Prior
<1> DEFINE lo == [p \in pr |-> o[p].mae]
           hi == [p \in pr |-> o[p].mfe]
<1>8. (\A p \in pr : lo[p] = o[p].mae) /\ (\A p \in pr : hi[p] = o[p].mfe)
  <2> HIDE DEF pr
  <2> QED
    OBVIOUS
<1>9. /\ v.mae \in Int /\ v.mae <= x /\ (pr = {} => v.mae <= 0) /\ (\A p \in pr : v.mae <= o[p].mae)
      /\ v.mae = x \/ v.mae = 0 \/ \E p \in pr : v.mae = o[p].mae
  <2> HIDE DEF pr, v, x, lo, hi
  <2>1. LeastOf(v.mae, x, pr, lo)
    BY <1>5 DEF lo
  <2> QED
    BY <1>8, <2>1 DEF LeastOf
<1>10. /\ v.mfe \in Int /\ v.mfe >= x /\ (pr = {} => v.mfe >= 0) /\ (\A p \in pr : v.mfe >= o[p].mfe)
       /\ v.mfe = x \/ v.mfe = 0 \/ \E p \in pr : v.mfe = o[p].mfe
  <2> HIDE DEF pr, v, x, lo, hi
  <2>1. MostOf(v.mfe, x, pr, hi)
    BY <1>5 DEF hi
  <2> QED
    BY <1>8, <2>1 DEF MostOf
<1> HIDE DEF pr, v, x, lo, hi, px, own
<1>11. v.mae <= 0 /\ 0 <= v.mfe
  <2>1. CASE pr = {}
    BY <1>9, <1>10, <2>1
  <2>2. ASSUME NEW p \in pr PROVE v.mae <= 0 /\ 0 <= v.mfe
    <3>1. o[p].mae <= 0 /\ 0 <= o[p].mfe /\ o[p].mae \in Int /\ o[p].mfe \in Int
      BY <1>6 DEF RightOf, ExcursionsOk
    <3> QED
      BY <1>9, <1>10, <3>1
  <2> QED
    BY <2>1, <2>2
<1>12. own \in DOMAIN After /\ GainAt(s, own) \in Int
  BY <1>2 DEF own
<1>13. ASSUME NEW t \in Track, After[t] <= After[own]
       PROVE  v.mae <= GainAt(s, t) /\ GainAt(s, t) <= v.mfe
  <2>1. CASE t = own
    BY <1>4, <1>9, <1>10, <1>12, <2>1
  <2>2. CASE t # own
    <3>1. t \in pr /\ OwnOf(s, t) = t /\ t \in DOMAIN After
      BY <1>7, <1>13, <2>2
    <3>2. /\ o[t].mae <= GainAt(s, t) /\ GainAt(s, t) <= o[t].mfe
          /\ o[t].mae \in Int /\ o[t].mfe \in Int
      BY <1>6, <3>1 DEF RightOf, ExcursionsOk
    <3>3. GainAt(s, t) \in Int
      BY <1>2, <3>1
    <3> QED
      BY <1>9, <1>10, <3>1, <3>2, <3>3
  <2> QED
    BY <2>1, <2>2
<1>14. \A y \in DOMAIN After : After[y] \in Nat
  BY Horizons
<1>15. v.mae = 0 \/ \E y \in DOMAIN After : After[y] <= After[own] /\ v.mae = GainAt(s, y)
  <2>1. CASE v.mae = x
    BY <1>4, <1>12, <1>14, <2>1
  <2>2. ASSUME NEW p \in pr, v.mae = o[p].mae
        PROVE  v.mae = 0 \/ \E y \in DOMAIN After : After[y] <= After[own] /\ v.mae = GainAt(s, y)
    <3>1. \/ o[p].mae = 0
          \/ \E y \in DOMAIN After : After[y] <= After[OwnOf(s, p)] /\ o[p].mae = GainAt(s, y)
      BY <1>6 DEF RightOf, ExcursionsOk
    <3>2. OwnOf(s, p) \in DOMAIN After /\ After[OwnOf(s, p)] <= After[own]
      BY <1>6
    <3> QED
      BY <1>12, <1>14, <2>2, <3>1, <3>2
  <2> QED
    BY <1>9, <2>1, <2>2
<1>16. v.mfe = 0 \/ \E y \in DOMAIN After : After[y] <= After[own] /\ v.mfe = GainAt(s, y)
  <2>1. CASE v.mfe = x
    BY <1>4, <1>12, <1>14, <2>1
  <2>2. ASSUME NEW p \in pr, v.mfe = o[p].mfe
        PROVE  v.mfe = 0 \/ \E y \in DOMAIN After : After[y] <= After[own] /\ v.mfe = GainAt(s, y)
    <3>1. \/ o[p].mfe = 0
          \/ \E y \in DOMAIN After : After[y] <= After[OwnOf(s, p)] /\ o[p].mfe = GainAt(s, y)
      BY <1>6 DEF RightOf, ExcursionsOk
    <3>2. OwnOf(s, p) \in DOMAIN After /\ After[OwnOf(s, p)] <= After[own]
      BY <1>6
    <3> QED
      BY <1>12, <1>14, <2>2, <3>1, <3>2
  <2> QED
    BY <1>10, <2>1, <2>2
<1>17. ExcursionsOk(s, v, own)
  BY <1>4, <1>9, <1>10, <1>11, <1>12, <1>13, <1>15, <1>16 DEF ExcursionsOk
<1>18. RightOf(s, h, v)
  BY <1>1, <1>5, <1>12, <1>17 DEF RightOf, own, px
<1> QED
  BY <1>5, <1>18 DEF v, px

\* What the loop of track is handed: the horizons that are due, and a walk that has
\* their prices.
DueSet(s, hs, w) ==
  \A h \in hs : /\ h \in Labels /\ OwnOf(s, h) \in DOMAIN After
                 /\ w[DueOf(s, h)] = PriceOf[DueOf(s, h)]

\* One round adds at most the observation of its label.
LEMMA RoundType ==
  ASSUME MoveType, NEW s, SnapOk(s), NEW hs, NEW w, DueSet(s, hs, w), NEW h, NEW o \in ObsType
  PROVE  Observed(s, o, h, hs, w) \in ObsType
<1>1. CASE h \notin hs
  BY <1>1 DEF Observed
<1>2. CASE h \in hs
  <2> DEFINE px == w[DueOf(s, h)]
             v == Observe(s, o, h, px)
  <2>1. h \in Labels /\ OwnOf(s, h) \in DOMAIN After /\ px = PriceOf[DueOf(s, h)]
    BY <1>2 DEF DueSet
  <2>2. DueOf(s, h) = Day + After[OwnOf(s, h)] /\ DueOf(s, h) \in Int
    BY <2>1, Horizons DEF DueOf, OwnOf
  <2>3. px \in Int /\ s.ref \in Int /\ Dir(s) \in {-1, 1}
    BY <2>1, <2>2, GainType
  <2> HIDE DEF px
  <2>4. v \in Observation
    BY <2>2, <2>3, ObserveIs
  <2>5. PICK D \in SUBSET Labels : o \in [D -> Observation]
    BY DEF ObsType
  <2> HIDE DEF v
  <2>6. With(o, h, v) \in [D \cup {h} -> Observation]
    BY <2>4, <2>5 DEF With
  <2>7. D \cup {h} \in SUBSET Labels
    BY <2>1
  <2>8. With(o, h, v) \in ObsType
    BY <2>6, <2>7 DEF ObsType
  <2> QED
    BY <1>2, <2>8 DEF Observed, v, px
<1> QED
  BY <1>1, <1>2

\* The loop of track runs.
LEMMA LoopRuns ==
  ASSUME MoveType, NEW s, SnapOk(s), NEW hs, NEW w, DueSet(s, hs, w), NEW o \in ObsType
  PROVE  LET m == ObserveLoop(s, o, hs, w)
         IN  /\ m[0] = o
             /\ \A k \in 1..Len(Order) : m[k] = Observed(s, m[k - 1], Order[k], hs, w)
<1> DEFINE n == Len(Order)
           T == ObsType
           F(a, k) == Observed(s, a, Order[k], hs, w)
           step == [a \in T \X (1..n) |-> F(a[1], a[2])]
<1>1. n \in Nat /\ o \in T
  BY Horizons
<1>2. \A a \in T, k \in 1..n : F(a, k) \in T
  BY RoundType
<1> HIDE DEF F
<1>3. \A a \in T, k \in 1..n : step[<<a, k>>] = F(a, k)
  <2> HIDE DEF T, n
  <2> QED
    OBVIOUS
<1>4. \E g : RunOf(g, T, o, n, step)
  <2>1. BodyOf(T, n, step)
    <3> HIDE DEF T, n, step
    <3> QED
      BY <1>2, <1>3 DEF BodyOf
  <2> HIDE DEF T, n, step
  <2> QED
    BY <1>1, <2>1, LoopExists
<1>5. PICK g : RunOf(g, T, o, n, step)
  BY <1>4
<1>6. g \in [0..n -> T] /\ g[0] = o /\ \A k \in 1..n : g[k] = step[<<g[k - 1], k>>]
  BY <1>5 DEF RunOf
<1> HIDE DEF T, n, step
<1>7. \A k \in 1..n : k - 1 \in 0..n /\ g[k - 1] \in T
  BY <1>1, <1>6
<1>8. \A k \in 1..n : g[k] = F(g[k - 1], k)
  BY <1>3, <1>6, <1>7
<1>9. g = [k \in 0..n |-> IF k = 0 THEN o ELSE F(g[k - 1], k)]
  BY <1>1, <1>6, <1>8
<1>10. \E h : h = [k \in 0..n |-> IF k = 0 THEN o ELSE F(h[k - 1], k)]
  BY <1>9
<1>11. PICK m : m = ObserveLoop(s, o, hs, w)
  OBVIOUS
<1>12. m = [k \in 0..n |-> IF k = 0 THEN o ELSE F(m[k - 1], k)]
  BY <1>10, <1>11 DEF ObserveLoop, n, F
<1>13. m[0] = o /\ \A k \in 1..n : m[k] = F(m[k - 1], k)
  BY <1>1, <1>12
<1> QED
  BY <1>11, <1>13 DEF n, F

\* The horizons reached by round k.
Reached(hs, k) == {h \in hs : \E j \in 1..k : Order[j] = h}

\* Before an horizon is looked at, the ones of the week up to it have been.
LEMMA EarlierFirst ==
  ASSUME NEW s, NEW k \in 1..Len(Order), NEW t \in Track,
         OwnOf(s, Order[k]) \in DOMAIN After, After[t] <= After[OwnOf(s, Order[k])],
         t # OwnOf(s, Order[k])
  PROVE  \E j \in 1..(k - 1) : Order[j] = t
<1> USE QualityAssumption
<1>1. t \in DOMAIN After /\ t # "expected" /\ Len(Order) \in Nat
  BY Horizons
<1>2. PICK j \in 1..Len(Order) : Order[j] = t
  BY <1>1
<1>3. j # Len(Order)
  BY <1>1, <1>2
<1>4. CASE k = Len(Order)
  BY <1>1, <1>2, <1>3, <1>4
<1>5. CASE k # Len(Order)
  <2>1. k \in 1..Len(Order) - 1 /\ j \in 1..Len(Order) - 1
    BY <1>1, <1>3, <1>5
  <2>2. Order[k] # "expected" /\ OwnOf(s, Order[k]) = Order[k]
    BY <1>5 DEF OwnOf
  <2>3. k < j => After[Order[k]] < After[Order[j]]
    BY <2>1
  <2>4. k # j
    BY <1>2, <2>2
  <2>5. After[Order[k]] \in Nat /\ After[t] \in Nat
    BY <1>1, <2>2, Horizons
  <2>6. j < k
    BY <1>1, <1>2, <2>1, <2>2, <2>3, <2>4, <2>5
  <2> QED
    BY <1>2, <2>1, <2>6
<1> QED
  BY <1>4, <1>5

\* r is o with an observation of h.
Joined(s, o, h, r) ==
  AllRight(s, r) /\ DOMAIN r = DOMAIN o \cup {h} /\ \A x \in DOMAIN o : x # h => r[x] = o[x]

\* A right observation joins right ones.
LEMMA WithRight ==
  ASSUME NEW s, NEW o, AllRight(s, o), NEW h \in Labels, NEW v \in Observation, RightOf(s, h, v)
  PROVE  Joined(s, o, h, With(o, h, v))
<1>1. PICK D \in SUBSET Labels : o \in [D -> Observation]
  BY DEF AllRight, ObsType
<1>2. /\ With(o, h, v) \in [D \cup {h} -> Observation] /\ With(o, h, v)[h] = v
      /\ \A x \in D : x # h => With(o, h, v)[x] = o[x]
  BY <1>1 DEF With
<1>3. D \cup {h} \in SUBSET Labels
  OBVIOUS
<1>4. With(o, h, v) \in ObsType
  BY <1>2, <1>3 DEF ObsType
<1>5. \A x \in D \cup {h} : RightOf(s, x, With(o, h, v)[x])
  BY <1>1, <1>2 DEF AllRight
<1> QED
  BY <1>1, <1>2, <1>4, <1>5 DEF AllRight, Joined

\* One call of track adds right observations and keeps the others.
LEMMA ObserveAllRight ==
  ASSUME MoveType, NEW s, SnapOk(s), NEW hs, NEW w, DueSet(s, hs, w), NEW o, AllRight(s, o),
         hs \cap DOMAIN o = {},
         \A h \in hs, t \in Track : After[t] <= After[OwnOf(s, h)] => t \in hs \cup DOMAIN o
  PROVE  LET r == ObserveAll(s, o, hs, w)
         IN  /\ AllRight(s, r) /\ DOMAIN r = DOMAIN o \cup hs
             /\ \A x \in DOMAIN o : r[x] = o[x]
<1> DEFINE n == Len(Order)
<1>1. n \in Nat /\ n > 1 /\ \A k \in 1..n : Order[k] \in Labels
  BY Horizons
<1>2. PICK m : m = ObserveLoop(s, o, hs, w)
  OBVIOUS
<1>3. m[0] = o /\ \A k \in 1..n : m[k] = Observed(s, m[k - 1], Order[k], hs, w)
  BY <1>2, LoopRuns DEF AllRight
<1> DEFINE P(k) == /\ AllRight(s, m[k]) /\ DOMAIN m[k] = DOMAIN o \cup Reached(hs, k)
                   /\ \A x \in DOMAIN o : m[k][x] = o[x]
           S == {k \in 0..n : P(k)}
<1>4. 0 \in S
  <2>1. Reached(hs, 0) = {}
    BY DEF Reached
  <2> QED
    BY <1>1, <1>3, <2>1
<1>5. ASSUME NEW k \in 0..n-1, k \in S PROVE k + 1 \in S
  <2> DEFINE h == Order[k + 1]
  <2>1. k + 1 \in 1..n /\ k + 1 \in 0..n /\ (k + 1) - 1 = k
    BY <1>1
  <2>2. P(k)
    BY <1>5
  <2>3. m[k + 1] = Observed(s, m[k], h, hs, w)
    BY <1>3, <2>1
  <2>4. CASE h \notin hs
    <3>1. m[k + 1] = m[k]
      BY <2>3, <2>4 DEF Observed
    <3>2. Reached(hs, k + 1) = Reached(hs, k)
      BY <2>1, <2>4 DEF Reached
    <3> QED
      BY <2>1, <2>2, <3>1, <3>2
  <2>5. CASE h \in hs
    <3> DEFINE v == Observe(s, m[k], h, PriceOf[DueOf(s, h)])
    <3>1. /\ h \in Labels /\ OwnOf(s, h) \in DOMAIN After /\ w[DueOf(s, h)] = PriceOf[DueOf(s, h)]
      BY <2>5 DEF DueSet
    <3>2. m[k + 1] = With(m[k], h, v)
      BY <2>3, <2>5, <3>1 DEF Observed
    <3>3. ASSUME NEW t \in Track, After[t] <= After[OwnOf(s, h)]
          PROVE  t \in DOMAIN m[k] \/ t = OwnOf(s, h)
      <4>1. t \in hs \cup DOMAIN o
        BY <2>5, <3>3
      <4>2. SUFFICES ASSUME t # OwnOf(s, h), t \in hs PROVE t \in DOMAIN m[k]
        BY <2>2, <4>1
      <4>6. PICK i \in 1..Len(Order) : i = k + 1
        BY <2>1
      <4>7. OwnOf(s, Order[i]) \in DOMAIN After /\ After[t] <= After[OwnOf(s, Order[i])] /\ t # OwnOf(s, Order[i])
        BY <3>1, <3>3, <4>2, <4>6
      <4>3. \E j \in 1..(i - 1) : Order[j] = t
        BY <4>7, EarlierFirst
      <4>4. \E j \in 1..k : Order[j] = t
        BY <2>1, <4>3, <4>6
      <4>5. t \in Reached(hs, k)
        BY <4>2, <4>4 DEF Reached
      <4> QED
        BY <2>2, <4>5
    <3>4. v \in Observation /\ RightOf(s, h, v)
      BY <2>2, <3>1, <3>3, ObserveRight
    <3> HIDE DEF v, h
    <3>9. AllRight(s, m[k])
      BY <2>2
    <3>5. /\ AllRight(s, m[k + 1]) /\ DOMAIN m[k + 1] = DOMAIN m[k] \cup {h}
          /\ \A x \in DOMAIN m[k] : x # h => m[k + 1][x] = m[k][x]
      <4>1. PICK q : q = m[k]
        OBVIOUS
      <4>2. PICK y \in Labels : y = h
        BY <3>1
      <4>3. PICK z \in Observation : z = v
        BY <3>4
      <4>4. AllRight(s, q) /\ RightOf(s, y, z)
        BY <3>4, <3>9, <4>1, <4>2, <4>3
      <4>5. Joined(s, q, y, With(q, y, z))
        BY <4>4, WithRight
      <4>6. m[k + 1] = With(q, y, z)
        BY <3>2, <4>1, <4>2, <4>3
      <4> QED
        BY <4>1, <4>2, <4>5, <4>6 DEF Joined
    <3>6. Reached(hs, k + 1) = Reached(hs, k) \cup {h}
      <4>1. \A j \in 1..(k + 1) : j \in 1..k \/ j = k + 1
        BY <2>1
      <4>2. \A j \in 1..k : j \in 1..(k + 1)
        BY <2>1
      <4>3. k + 1 \in 1..(k + 1)
        BY <2>1
      <4> QED
        BY <2>5, <4>1, <4>2, <4>3 DEF Reached, h
    <3>7. h \notin DOMAIN o
      BY <2>5
    <3>8. P(k + 1)
      <4>1. DOMAIN m[k + 1] = DOMAIN o \cup Reached(hs, k + 1)
        BY <2>2, <3>5, <3>6
      <4>2. \A x \in DOMAIN o : m[k + 1][x] = o[x]
        BY <2>2, <3>5, <3>7
      <4> QED
        BY <3>5, <4>1, <4>2
    <3> QED
      BY <2>1, <3>8
  <2> QED
    BY <2>4, <2>5
<1>6. n \in S
  <2> HIDE DEF S
  <2>1. \A k \in 0..n : k \in S
    BY <1>1, <1>4, <1>5, CountUp
  <2> QED
    BY <1>1, <2>1
<1>7. Reached(hs, n) = hs
  <2>1. \A h \in hs : \E k \in 1..n : Order[k] = h
    BY QualityAssumption DEF DueSet, Labels
  <2> QED
    BY <2>1 DEF Reached
<1>8. ObserveAll(s, o, hs, w) = m[n]
  BY <1>2 DEF ObserveAll
<1> QED
  BY <1>6, <1>7, <1>8

-----------------------------------------------------------------------------
RetAt(s, h) == PriceOf[Day + After[h]] - s.ref
KeyHorizon(s, o) == IF "expected" \in DOMAIN o THEN s.expected ELSE "1w"
Avoided(r) == IF r <= -Thr THEN "GOOD_AVOIDANCE"
              ELSE IF r >= Thr THEN "MISSED_OPPORTUNITY" ELSE "none"
GainOf(d, r) == IF d = 0 THEN -r ELSE d * (r - index)

\* An expected horizon within the week is observed no later than the week.
Closed(s, o) == "1w" \in DOMAIN o /\ s.expected \in Track => "expected" \in DOMAIN o

\* The class and the score are those of return r for direction d.
ClassOk(d, r, e) ==
  /\ e.class # "PENDING"
  /\ e.class = "GOOD" <=> GainOf(d, r) >= Thr
  /\ e.class = "BAD" <=> d # 0 /\ GainOf(d, r) <= -Thr
  /\ e.class = "GOOD" => e.score > 0
  /\ e.class = "BAD" => e.score < 0
LabelOk(s, key, e) ==
  \/ e.label = Avoided(RetAt(s, key))
  \/ Avoided(RetAt(s, key)) = "none" /\ key \in Extended /\ e.label = Avoided(RetAt(s, "1w"))

Graded(s, o, e) ==
  IF DOMAIN o \cap {"expected", "1w"} = {} THEN e.class = "PENDING" /\ e.label = "none"
  ELSE /\ ClassOk(Direction(s.kind), RetAt(s, KeyHorizon(s, o)), e)
       /\ Direction(s.kind) = 0 => LabelOk(s, KeyHorizon(s, o), e)

\* Track and Extended have nothing in common.
LEMMA WeekIsTracked == "1w" \in Track /\ "1w" \in DOMAIN After /\ Track \cap Extended = {}
<1>1. "1w" \in Track /\ "1w" \in DOMAIN After
  BY QualityAssumption
<1>2. ASSUME NEW x \in Track, x \in Extended PROVE FALSE
  <2>1. x \in DOMAIN After /\ After[x] < After[x]
    BY <1>2, QualityAssumption
  <2>2. After[x] \in Nat
    BY <2>1, Horizons
  <2> QED
    BY <2>1, <2>2
<1> QED
  BY <1>1, <1>2

\* _evaluate, once the key horizon is observed with return r.
LEMMA EvaluateClass ==
  ASSUME NEW s, NEW o, NEW e, NEW r \in Int, index \in Int, Direction(s.kind) \in {-1, 0, 1},
         KeyOf(o) \in DOMAIN o, o[KeyOf(o)].ret = r
  PROVE  /\ ClassOk(Direction(s.kind), r, Evaluate(s, o, e))
         /\ Direction(s.kind) = 0 =>
              Evaluate(s, o, e).label = IF Avoided(r) = "none" THEN e.label ELSE Avoided(r)
<1>0. Thr \in Int /\ Thr > 0
  BY QualityAssumption
<1>1. PICK d \in {-1, 0, 1} : d = Direction(s.kind)
  OBVIOUS
<1>2. PICK v : v = Evaluate(s, o, e)
  OBVIOUS
<1>3. PICK a \in Int : a = r * d - index * d
  BY <1>1
<1>4. CASE d = 0
  <2>1. v = [class |-> IF r <= -Thr THEN "GOOD" ELSE "MIXED",
             label |-> IF r <= -Thr THEN "GOOD_AVOIDANCE"
                       ELSE IF r >= Thr THEN "MISSED_OPPORTUNITY" ELSE e.label,
             score |-> IF r <= -Thr \/ r >= Thr THEN -r ELSE 0]
    BY <1>1, <1>2, <1>4 DEF Evaluate
  <2>2. /\ v.class = IF r <= -Thr THEN "GOOD" ELSE "MIXED"
        /\ v.label = IF r <= -Thr THEN "GOOD_AVOIDANCE"
                      ELSE IF r >= Thr THEN "MISSED_OPPORTUNITY" ELSE e.label
        /\ v.score = IF r <= -Thr \/ r >= Thr THEN -r ELSE 0
    BY <2>1
  <2>3. ClassOk(d, r, v)
    BY <1>0, <1>4, <2>2 DEF ClassOk, GainOf
  <2>4. v.label = IF Avoided(r) = "none" THEN e.label ELSE Avoided(r)
    BY <1>0, <2>2 DEF Avoided
  <2> QED
    BY <1>1, <1>2, <2>3, <2>4
<1>5. CASE d # 0
  <2>1. v = [class |-> IF a >= Thr THEN "GOOD" ELSE IF a <= -Thr THEN "BAD" ELSE "MIXED",
             label |-> e.label, score |-> a]
    BY <1>1, <1>2, <1>3, <1>5 DEF Evaluate
  <2>2. /\ v.class = IF a >= Thr THEN "GOOD" ELSE IF a <= -Thr THEN "BAD" ELSE "MIXED"
        /\ v.score = a
    BY <2>1
  <2>3. a = d * (r - index)
    BY <1>1, <1>3
  <2>4. ClassOk(d, r, v)
    BY <1>0, <1>5, <2>2, <2>3 DEF ClassOk, GainOf
  <2> QED
    BY <1>1, <1>2, <1>5, <2>4
<1> QED
  BY <1>4, <1>5

\* A grade stays right when further observations are made.
LEMMA EvaluateGrades ==
  ASSUME MoveType, index \in Int, NEW s, SnapOk(s), NEW o, NEW q, AllRight(s, q),
         DOMAIN o \subseteq DOMAIN q, Closed(s, o), NEW e, Graded(s, o, e)
  PROVE  Graded(s, q, Evaluate(s, q, e))
<1> DEFINE K == {"expected", "1w"}
           key == KeyHorizon(s, q)
<1>0. Direction(s.kind) \in {-1, 0, 1} /\ s.ref \in Int
  BY GainType
<1>1. CASE DOMAIN q \cap K = {}
  <2>1. DOMAIN o \cap K = {} /\ KeyOf(q) \notin DOMAIN q
    BY <1>1 DEF KeyOf
  <2>2. e.label = "none"
    BY <2>1 DEF Graded
  <2>3. PICK v : v = Evaluate(s, q, e)
    OBVIOUS
  <2>4. v = [class |-> "PENDING", label |-> e.label, score |-> e.score]
    BY <2>1, <2>3 DEF Evaluate
  <2>5. v.class = "PENDING" /\ v.label = "none"
    BY <2>2, <2>4
  <2> QED
    BY <1>1, <2>3, <2>5 DEF Graded
<1>2. CASE DOMAIN q \cap K # {}
  <2>1. KeyOf(q) \in DOMAIN q /\ OwnOf(s, KeyOf(q)) = key
    BY <1>2 DEF KeyOf, OwnOf, KeyHorizon
  <2>2. key \in DOMAIN After /\ q[KeyOf(q)].ret = RetAt(s, key)
    BY <2>1 DEF AllRight, RightOf, RetAt
  <2>3. RetAt(s, key) \in Int
    BY <1>0, <2>2, GainType DEF RetAt
  <2>4. PICK r \in Int : r = RetAt(s, key)
    BY <2>3
  <2>5. PICK v : v = Evaluate(s, q, e)
    OBVIOUS
  <2>6. /\ ClassOk(Direction(s.kind), r, v)
        /\ Direction(s.kind) = 0 => v.label = IF Avoided(r) = "none" THEN e.label ELSE Avoided(r)
    BY <1>0, <2>1, <2>2, <2>4, <2>5, EvaluateClass
  <2>7. ASSUME Direction(s.kind) = 0, Avoided(r) = "none" PROVE LabelOk(s, key, v)
    <3>1. v.label = e.label
      BY <2>6, <2>7
    <3>2. CASE DOMAIN o \cap K = {}
      BY <2>4, <2>7, <3>1, <3>2 DEF Graded, LabelOk
    <3>3. CASE DOMAIN o \cap K # {}
      <4>1. LabelOk(s, KeyHorizon(s, o), e)
        BY <2>7, <3>3 DEF Graded
      <4>2. CASE KeyHorizon(s, o) = key
        BY <3>1, <4>1, <4>2 DEF LabelOk
      <4>3. CASE KeyHorizon(s, o) # key
        <5>1. "expected" \in DOMAIN q /\ "expected" \notin DOMAIN o /\ "1w" \in DOMAIN o
          BY <3>3, <4>3 DEF KeyHorizon
        <5>2. key = s.expected /\ KeyHorizon(s, o) = "1w"
          BY <5>1 DEF KeyHorizon
        <5>3. e.label = Avoided(RetAt(s, "1w"))
          BY <4>1, <5>2 DEF LabelOk
        <5>4. key \notin Track
          BY <5>1, <5>2 DEF Closed
        <5>5. key \in Extended
          BY <2>2, <5>4, QualityAssumption
        <5> QED
          BY <2>4, <2>7, <3>1, <5>3, <5>5 DEF LabelOk
      <4> QED
        BY <4>2, <4>3
    <3> QED
      BY <3>2, <3>3
  <2>8. ASSUME Direction(s.kind) = 0, Avoided(r) # "none" PROVE LabelOk(s, key, v)
    BY <2>4, <2>6, <2>8 DEF LabelOk
  <2> HIDE DEF key
  <2>9. ClassOk(Direction(s.kind), RetAt(s, key), v)
    BY <2>4, <2>6
  <2>10. Direction(s.kind) = 0 => LabelOk(s, key, v)
    BY <2>7, <2>8
  <2> QED
    BY <1>2, <2>5, <2>9, <2>10 DEF Graded, key
<1> QED
  BY <1>1, <1>2

-----------------------------------------------------------------------------
\* The prices after a stop-out, its grade and the forecast are of the path.
LaterOk == DOMAIN later \subseteq Track /\ \A h \in DOMAIN later : later[h] = PriceOf[Day + After[h]]
GradeOk ==
  IF "1w" \in DOMAIN later
  THEN grade # "none" /\ grade = StopGrade(PriceOf[Day], later)
  ELSE grade = "none"
ForecastOk == forecast.case # "none" => forecast.price = PriceOf[Day + After["1w"]]

DecisionOk ==
  \/ snap = NoSnap /\ obs = Empty /\ eval = Pending
  \/ SnapOk(snap) /\ AllRight(snap, obs) /\ Closed(snap, obs) /\ Graded(snap, obs, eval)

\* The inductive invariant.
QInv == /\ MoveType /\ index \in Int /\ now \in Int /\ WalkInv
        /\ DecisionOk /\ LaterOk /\ GradeOk /\ ForecastOk

LEMMA PathKept == ASSUME move' = move PROVE PriceOf' = PriceOf
  BY DEF PriceOf

LEMMA DecisionKept ==
  ASSUME move' = move, index' = index, UNCHANGED <<snap, obs, eval>>, DecisionOk
  PROVE  DecisionOk'
<1>1. PriceOf' = PriceOf
  BY PathKept
<1>2. CASE snap = NoSnap /\ obs = Empty /\ eval = Pending
  BY <1>2 DEF DecisionOk
<1>3. CASE SnapOk(snap) /\ AllRight(snap, obs) /\ Closed(snap, obs) /\ Graded(snap, obs, eval)
  <2>1. SnapOk(snap)'
    BY <1>1, <1>3 DEF SnapOk
  <2>2. AllRight(snap, obs)'
    BY <1>1, <1>3 DEF AllRight, RightOf, ExcursionsOk, GainAt, Dir, OwnOf
  <2>3. Closed(snap, obs)' /\ Graded(snap, obs, eval)'
    BY <1>1, <1>3 DEF Closed, Graded, ClassOk, LabelOk, KeyHorizon, RetAt, GainOf
  <2> QED
    BY <2>1, <2>2, <2>3 DEF DecisionOk
<1> QED
  BY <1>2, <1>3 DEF DecisionOk

LEMMA VerdictsKept ==
  ASSUME move' = move, UNCHANGED <<later, grade>>, LaterOk, GradeOk
  PROVE  LaterOk' /\ GradeOk'
<1>1. PriceOf' = PriceOf
  BY PathKept
<1> QED
  BY <1>1 DEF LaterOk, GradeOk, StopGrade

LEMMA ForecastKept ==
  ASSUME move' = move, UNCHANGED forecast, ForecastOk
  PROVE  ForecastOk'
<1>1. PriceOf' = PriceOf
  BY PathKept
<1> QED
  BY <1>1 DEF ForecastOk

\* Asking for a day: the memo is still of the path, and has that day.
LEMMA WalkedTo ==
  ASSUME MoveType, WalkInv, NEW d \in 0..LastDay, move' = move, walk' = WalkTo(d)
  PROVE  WalkInv' /\ \A k \in 0..d : WalkTo(d)[k] = PriceOf[k]
<1>1. PICK m \in 0..LastDay : m >= d /\ WalkTo(d) = [k \in 0..m |-> PriceOf[k]]
  BY WalkGoesOn
<1>2. PriceOf' = PriceOf
  BY PathKept
<1>3. LastDay \in Nat
  BY Horizons
<1>4. WalkInv'
  BY <1>1, <1>2 DEF WalkInv
<1>5. \A k \in 0..d : WalkTo(d)[k] = PriceOf[k]
  BY <1>1, <1>3
<1> QED
  BY <1>4, <1>5

\* The latest of a set of due days.
LEMMA LatestDue ==
  ASSUME NEW D, \A x \in D : x \in 0..LastDay
  PROVE  Max({0} \cup D) \in 0..LastDay /\ \A x \in D : x \in 0..Max({0} \cup D)
<1>0. LastDay \in Nat
  BY Horizons
<1>1. {0} \cup D \subseteq 0..LastDay
  BY <1>0
<1>2. IsFiniteSet({0} \cup D)
  <2>1. IsFiniteSet(0..LastDay)
    BY <1>0, FS_Interval
  <2> QED
    BY <1>1, <2>1, FS_Subset
<1> DEFINE A == {0} \cup D
<1>3. A # {} /\ \A x \in A : x \in Int
  BY <1>0
<1>4. \A x \in A : x \in 0..LastDay
  BY <1>0
<1>5. \A x \in D : x \in A
  OBVIOUS
<1> HIDE DEF A
<1>6. Max(A) \in A /\ Max(A) \in Int /\ \A y \in A : Max(A) >= y
  BY <1>2, <1>3, MaxIs DEF A
<1>7. Max(A) \in 0..LastDay /\ \A x \in D : x \in 0..Max(A)
  BY <1>0, <1>4, <1>5, <1>6
<1> QED
  BY <1>7 DEF A

LEMMA QInitOk == ASSUME QInit PROVE QInv
<1>0. Day \in Nat /\ LastDay \in Nat /\ Steps \subseteq Int /\ Index \subseteq Int
  BY Horizons, QualityAssumption
<1>1. MoveType /\ index \in Int /\ now \in Int
  <2>1. move \in [1..LastDay -> Steps] /\ index \in Index /\ now = Day
    BY DEF QInit
  <2>2. move \in [1..LastDay -> Int]
    <3> PICK n : n = 1..LastDay
      OBVIOUS
    <3> QED
      BY <1>0, <2>1
  <2> QED
    BY <1>0, <2>1, <2>2 DEF MoveType
<1>2. WalkInv
  <2>1. PriceOf[0] = Base
    BY <1>1, PathIs
  <2>2. 0..0 = {0} /\ 0 \in 0..LastDay
    BY <1>0
  <2>3. walk = [k \in {0} |-> Base]
    BY DEF QInit
  <2>4. [k \in {0} |-> Base] = [k \in {0} |-> PriceOf[k]]
    BY <2>1
  <2>5. walk = [k \in 0..0 |-> PriceOf[k]]
    BY <2>2, <2>3, <2>4
  <2> QED
    BY <2>2, <2>5 DEF WalkInv
<1>3. DecisionOk
  BY DEF QInit, DecisionOk
<1>4. LaterOk /\ GradeOk
  <2>1. DOMAIN later = {} /\ grade = "none"
    BY DEF QInit, Empty
  <2> QED
    BY <2>1 DEF LaterOk, GradeOk
<1>5. ForecastOk
  <2>1. forecast.case = "none"
    BY DEF QInit
  <2> QED
    BY <2>1 DEF ForecastOk
<1> QED
  BY <1>1, <1>2, <1>3, <1>4, <1>5 DEF QInv

LEMMA TickOk == ASSUME QInv, Tick PROVE QInv'
<1>1. UNCHANGED <<move, walk, snap, index, obs, eval, later, grade, forecast>> /\ now' = now + 1
  BY DEF Tick
<1>2. PriceOf' = PriceOf
  BY <1>1, PathKept
<1>3. MoveType' /\ index' \in Int /\ now' \in Int /\ WalkInv'
  BY <1>1, <1>2 DEF QInv, MoveType, WalkInv
<1> QED
  BY <1>1, <1>3, DecisionKept, VerdictsKept, ForecastKept DEF QInv

LEMMA GetQuoteOk == ASSUME QInv, NEW d \in 1..LastDay, GetQuote(d) PROVE QInv'
<1>1. UNCHANGED <<move, now, snap, index, obs, eval, later, grade, forecast>> /\ walk' = WalkTo(d)
  BY DEF GetQuote
<1>2. d \in 0..LastDay
  BY Horizons
<1>3. WalkInv'
  BY <1>1, <1>2, WalkedTo DEF QInv
<1>4. MoveType' /\ index' \in Int /\ now' \in Int
  BY <1>1 DEF QInv, MoveType
<1> QED
  BY <1>1, <1>3, <1>4, DecisionKept, VerdictsKept, ForecastKept DEF QInv

\* A fresh decision is in order.
LEMMA FreshDecision ==
  ASSUME MoveType, NEW s, SnapOk(s)
  PROVE  AllRight(s, Empty) /\ Closed(s, Empty) /\ Graded(s, Empty, Pending)
<1>1. DOMAIN Empty = {} /\ Empty \in [{} -> Observation]
  BY DEF Empty
<1>2. Empty \in ObsType
  BY <1>1 DEF ObsType
<1>3. Pending.class = "PENDING" /\ Pending.label = "none"
  BY DEF Pending
<1> QED
  BY <1>1, <1>2, <1>3 DEF AllRight, Closed, Graded

LEMMA RecordOk ==
  ASSUME QInv, NEW k \in Kind, NEW e \in DOMAIN After \cup {"none"}, Record(k, e)
  PROVE  QInv'
<1>1. UNCHANGED <<move, now, index, later, grade, forecast>> /\ walk' = WalkTo(Day)
  BY DEF Record
<1>2. Day \in 0..LastDay /\ Day \in 0..Day
  BY Horizons
<1>3. WalkInv' /\ WalkTo(Day)[Day] = PriceOf[Day]
  BY <1>1, <1>2, WalkedTo DEF QInv
<1>4. MoveType' /\ index' \in Int /\ now' \in Int
  BY <1>1 DEF QInv, MoveType
<1>5. CASE snap # NoSnap
  <2>1. UNCHANGED <<snap, obs, eval>>
    BY <1>5 DEF Record
  <2> QED
    BY <1>1, <1>3, <1>4, <2>1, DecisionKept, VerdictsKept, ForecastKept DEF QInv
<1>6. CASE snap = NoSnap
  <2>1. PICK s : s = [kind |-> k, expected |-> e, ref |-> WalkTo(Day)[Day]]
    OBVIOUS
  <2>2. snap' = s /\ obs' = Empty /\ eval' = Pending
    BY <1>6, <2>1 DEF Record
  <2>3. SnapOk(s)
    BY <1>3, <2>1 DEF SnapOk
  <2>4. PriceOf' = PriceOf
    BY <1>1, PathKept
  <2>5. SnapOk(snap)'
    BY <2>2, <2>3, <2>4 DEF SnapOk
  <2>6. AllRight(s, Empty) /\ Closed(s, Empty) /\ Graded(s, Empty, Pending)
    BY <2>3, FreshDecision DEF QInv
  <2>7. AllRight(snap, obs)'
    BY <2>2, <2>4, <2>6 DEF AllRight, RightOf, ExcursionsOk, GainAt, Dir, OwnOf
  <2>8. Closed(snap, obs)' /\ Graded(snap, obs, eval)'
    BY <1>1, <2>2, <2>4, <2>6 DEF Closed, Graded, ClassOk, LabelOk, KeyHorizon, RetAt, GainOf
  <2>9. DecisionOk'
    BY <2>5, <2>7, <2>8 DEF DecisionOk
  <2> QED
    BY <1>1, <1>3, <1>4, <2>9, VerdictsKept, ForecastKept DEF QInv
<1> QED
  BY <1>5, <1>6

\* What track records.
LEMMA TrackRecords ==
  ASSUME QInv, NEW ext \in BOOLEAN, TrackDecision(ext)
  PROVE  /\ SnapOk(snap) /\ WalkInv' /\ AllRight(snap, obs') /\ Closed(snap, obs')
         /\ DOMAIN obs \subseteq DOMAIN obs' /\ \A h \in DOMAIN obs : obs'[h] = obs[h]
<1> DEFINE due == {h \in Targets(snap, ext) \ DOMAIN obs : DueOf(snap, h) <= now}
           D == {DueOf(snap, h) : h \in due}
           d == Max({0} \cup D)
           w == WalkTo(d)
<1>1. /\ snap # NoSnap /\ walk' = w /\ move' = move
      /\ obs' = ObserveAll(snap, obs, due, w)
  BY DEF TrackDecision
<1>2. SnapOk(snap) /\ AllRight(snap, obs) /\ Closed(snap, obs) /\ MoveType /\ WalkInv /\ now \in Int
  BY <1>1 DEF QInv, DecisionOk
<1>3. Track \subseteq DOMAIN After /\ Extended \subseteq DOMAIN After /\ "expected" \notin DOMAIN After
  BY QualityAssumption
<1>4. ASSUME NEW h \in Targets(snap, ext)
      PROVE  /\ h \in Labels /\ OwnOf(snap, h) \in DOMAIN After
             /\ DueOf(snap, h) = Day + After[OwnOf(snap, h)] /\ DueOf(snap, h) \in 0..LastDay
  <2>1. h \in Labels /\ OwnOf(snap, h) \in DOMAIN After
    BY <1>3 DEF Targets, Labels, OwnOf
  <2>2. DueOf(snap, h) = Day + After[OwnOf(snap, h)]
    BY DEF DueOf, OwnOf
  <2> QED
    BY <2>1, <2>2, Horizons
<1>5. due \subseteq Targets(snap, ext) /\ due \cap DOMAIN obs = {} /\ \A x \in D : x \in 0..LastDay
  BY <1>4
<1>6. d \in 0..LastDay /\ \A x \in D : x \in 0..d
  <2> HIDE DEF D
  <2> QED
    BY <1>5, LatestDue
<1>7. WalkInv' /\ \A x \in 0..d : w[x] = PriceOf[x]
  <2> HIDE DEF d
  <2> QED
    BY <1>1, <1>2, <1>6, WalkedTo
<1>8. DueSet(snap, due, w)
  <2> SUFFICES ASSUME NEW h \in due
               PROVE  /\ h \in Labels /\ OwnOf(snap, h) \in DOMAIN After
                      /\ w[DueOf(snap, h)] = PriceOf[DueOf(snap, h)]
    BY DEF DueSet
  <2>1. h \in Targets(snap, ext) /\ DueOf(snap, h) \in D
    BY <1>5
  <2> HIDE DEF due, D, d, w
  <2> QED
    BY <1>4, <1>6, <1>7, <2>1
<1>9. ASSUME NEW h \in due, NEW t \in Track, After[t] <= After[OwnOf(snap, h)]
      PROVE  t \in due \cup DOMAIN obs
  <2>1. t \in Targets(snap, ext) /\ OwnOf(snap, t) = t
    BY <1>3 DEF Targets, OwnOf
  <2>2. DueOf(snap, t) = Day + After[t] /\ After[t] \in Nat
    BY <1>3, <1>4, <2>1, Horizons
  <2>3. DueOf(snap, h) = Day + After[OwnOf(snap, h)] /\ After[OwnOf(snap, h)] \in Nat
        /\ DueOf(snap, h) <= now
    BY <1>4, <1>5, Horizons
  <2>4. DueOf(snap, t) <= now
    BY <1>2, <1>9, <2>2, <2>3, Horizons
  <2> QED
    BY <2>1, <2>4
<1> HIDE DEF due, D, d, w
<1>10. PICK r : r = ObserveAll(snap, obs, due, w)
  OBVIOUS
<1>11. /\ AllRight(snap, r) /\ DOMAIN r = DOMAIN obs \cup due
       /\ \A x \in DOMAIN obs : r[x] = obs[x]
  BY <1>2, <1>5, <1>8, <1>9, <1>10, ObserveAllRight
<1>12. Closed(snap, r)
  <2> SUFFICES ASSUME "1w" \in DOMAIN r, snap.expected \in Track PROVE "expected" \in DOMAIN r
    BY DEF Closed
  <2>1. CASE "1w" \in DOMAIN obs
    BY <1>2, <1>11, <2>1 DEF Closed
  <2>2. CASE "1w" \in due
    <3>1. "expected" \in Targets(snap, ext) /\ OwnOf(snap, "expected") = snap.expected
      BY <1>3 DEF Targets, OwnOf
    <3>2. DueOf(snap, "expected") = Day + After[snap.expected] /\ After[snap.expected] \in Nat
      BY <1>3, <1>4, <3>1, Horizons
    <3>3. DueOf(snap, "1w") = Day + After["1w"] /\ DueOf(snap, "1w") <= now /\ After["1w"] \in Nat
      BY <2>2, WeekIsTracked, Horizons DEF due, DueOf
    <3>4. After[snap.expected] <= After["1w"]
      BY QualityAssumption
    <3>5. DueOf(snap, "expected") <= now
      BY <1>2, <3>2, <3>3, <3>4, Horizons
    <3>6. "expected" \in due \cup DOMAIN obs
      BY <3>1, <3>5 DEF due
    <3> QED
      BY <1>11, <3>6
  <2> QED
    BY <1>11, <2>1, <2>2
<1> QED
  BY <1>1, <1>2, <1>7, <1>10, <1>11, <1>12

LEMMA TrackOk == ASSUME QInv, NEW ext \in BOOLEAN, TrackDecision(ext) PROVE QInv'
<1>1. /\ UNCHANGED <<move, now, snap, index, later, grade, forecast>>
      /\ eval' = Evaluate(snap, obs', eval) /\ snap # NoSnap
  BY DEF TrackDecision
<1>2. /\ SnapOk(snap) /\ WalkInv' /\ AllRight(snap, obs') /\ Closed(snap, obs')
      /\ DOMAIN obs \subseteq DOMAIN obs'
  BY TrackRecords
<1>3. MoveType /\ index \in Int /\ Closed(snap, obs) /\ Graded(snap, obs, eval)
  BY <1>1 DEF QInv, DecisionOk
<1>4. PICK q : q = obs'
  OBVIOUS
<1>5. PICK e : e = eval
  OBVIOUS
<1>6. Graded(snap, q, Evaluate(snap, q, e))
  BY <1>2, <1>3, <1>4, <1>5, EvaluateGrades
<1>7. Graded(snap, obs', eval')
  BY <1>1, <1>4, <1>5, <1>6
<1>8. PriceOf' = PriceOf
  BY <1>1, PathKept
<1>9. SnapOk(snap)' /\ AllRight(snap, obs)'
  BY <1>1, <1>2, <1>8 DEF SnapOk, AllRight, RightOf, ExcursionsOk, GainAt, Dir, OwnOf
<1>10. Closed(snap, obs)' /\ Graded(snap, obs, eval)'
  BY <1>1, <1>2, <1>7, <1>8 DEF Closed, Graded, ClassOk, LabelOk, KeyHorizon, RetAt, GainOf
<1>11. DecisionOk'
  BY <1>9, <1>10 DEF DecisionOk
<1>12. MoveType' /\ index' \in Int /\ now' \in Int
  BY <1>1 DEF QInv, MoveType
<1> QED
  BY <1>1, <1>2, <1>11, <1>12, VerdictsKept, ForecastKept DEF QInv

LEMMA EvaluateStopOk == ASSUME QInv, EvaluateStop PROVE QInv'
<1> DEFINE due == {h \in Track \ DOMAIN later : Day + After[h] <= now}
           D == {Day + After[h] : h \in due}
           d == Max({0} \cup D)
           w == WalkTo(d)
<1>1. /\ UNCHANGED <<move, now, snap, index, obs, eval, forecast>> /\ walk' = w
      /\ later' = [h \in DOMAIN later \cup due |->
                     IF h \in due THEN w[Day + After[h]] ELSE later[h]]
      /\ grade' = IF grade = "none" /\ "1w" \in DOMAIN later'
                  THEN StopGrade(w[Day], later') ELSE grade
  BY DEF EvaluateStop
<1>2. Track \subseteq DOMAIN After /\ "1w" \in Track
  BY QualityAssumption
<1>3. \A x \in D : x \in 0..LastDay
  BY <1>2, Horizons
<1>4. d \in 0..LastDay /\ \A x \in D : x \in 0..d
  <2> HIDE DEF D
  <2> QED
    BY <1>3, LatestDue
<1>5. WalkInv' /\ \A x \in 0..d : w[x] = PriceOf[x]
  <2> HIDE DEF d
  <2> QED
    BY <1>1, <1>4, WalkedTo DEF QInv
<1>6. ASSUME NEW h \in due PROVE Day + After[h] \in 0..d /\ w[Day + After[h]] = PriceOf[Day + After[h]]
  <2>1. Day + After[h] \in D
    OBVIOUS
  <2> HIDE DEF D, d, w
  <2> QED
    BY <1>4, <1>5, <2>1
<1>7. PriceOf' = PriceOf
  BY <1>1, PathKept
<1>8. MoveType' /\ index' \in Int /\ now' \in Int
  BY <1>1 DEF QInv, MoveType
<1>9. due \subseteq Track /\ due \cap DOMAIN later = {}
  OBVIOUS
<1> HIDE DEF due, D, d, w
<1>10. DOMAIN later' = DOMAIN later \cup due /\ (\A h \in due : later'[h] = w[Day + After[h]])
       /\ (\A h \in DOMAIN later : later'[h] = later[h])
  BY <1>1, <1>9
<1>11. \A h \in DOMAIN later' : later'[h] = PriceOf[Day + After[h]]
  BY <1>6, <1>10 DEF QInv, LaterOk
<1>12. LaterOk'
  BY <1>7, <1>9, <1>10, <1>11 DEF QInv, LaterOk
<1>13. GradeOk'
  <2>1. CASE "1w" \in DOMAIN later
    <3>1. grade # "none" /\ grade = StopGrade(PriceOf[Day], later) /\ grade' = grade
      BY <1>1, <2>1 DEF QInv, GradeOk
    <3>2. later'["1w"] = later["1w"] /\ "1w" \in DOMAIN later'
      BY <1>10, <2>1
    <3> QED
      BY <1>7, <3>1, <3>2 DEF GradeOk, StopGrade
  <2>2. CASE "1w" \in due
    <3>1. grade = "none" /\ "1w" \in DOMAIN later'
      BY <1>9, <1>10, <2>2 DEF QInv, GradeOk
    <3>2. Day \in 0..d
      BY <1>2, <1>4, <1>6, <2>2, Horizons
    <3>3. grade' = StopGrade(PriceOf[Day], later')
      BY <1>1, <1>5, <3>1, <3>2
    <3>4. grade' # "none"
      BY <3>3 DEF StopGrade
    <3> QED
      BY <1>7, <3>1, <3>3, <3>4 DEF GradeOk, StopGrade
  <2>3. CASE "1w" \notin DOMAIN later \cup due
    <3>1. grade' = "none" /\ "1w" \notin DOMAIN later'
      BY <1>1, <1>10, <2>3 DEF QInv, GradeOk
    <3> QED
      BY <3>1 DEF GradeOk
  <2> QED
    BY <1>10, <2>1, <2>2, <2>3
<1> QED
  BY <1>1, <1>5, <1>8, <1>12, <1>13, DecisionKept, ForecastKept DEF QInv

LEMMA ResolveOk == ASSUME QInv, ResolveDue PROVE QInv'
<1> DEFINE due == Day + After["1w"]
           w == WalkTo(due)
<1>1. UNCHANGED <<move, now, snap, index, obs, eval, later, grade>> /\ walk' = w
  BY DEF ResolveDue
<1>2. due \in 0..LastDay /\ due \in 0..due
  BY WeekIsTracked, Horizons
<1>3. WalkInv' /\ w[due] = PriceOf[due]
  <2> HIDE DEF due
  <2> QED
    BY <1>1, <1>2, WalkedTo DEF QInv
<1>4. forecast'.price = w[due]
  <2> HIDE DEF w, due
  <2> QED
    BY DEF ResolveDue, w, due
<1>5. PriceOf' = PriceOf
  BY <1>1, PathKept
<1>6. ForecastOk'
  BY <1>3, <1>4, <1>5 DEF ForecastOk
<1>7. MoveType' /\ index' \in Int /\ now' \in Int
  BY <1>1 DEF QInv, MoveType
<1> QED
  BY <1>1, <1>3, <1>6, <1>7, DecisionKept, VerdictsKept DEF QInv

LEMMA QInvInductive == ASSUME QInv, [QNext]_qvars PROVE QInv'
<1>1. CASE UNCHANGED qvars
  <2>1. UNCHANGED <<move, walk, now, snap, index, obs, eval, later, grade, forecast>>
    BY <1>1 DEF qvars
  <2>2. PriceOf' = PriceOf
    BY <2>1, PathKept
  <2>3. MoveType' /\ index' \in Int /\ now' \in Int /\ WalkInv'
    BY <2>1, <2>2 DEF QInv, MoveType, WalkInv
  <2> QED
    BY <2>1, <2>3, DecisionKept, VerdictsKept, ForecastKept DEF QInv
<1> QED
  BY <1>1, TickOk, GetQuoteOk, RecordOk, TrackOk, EvaluateStopOk, ResolveOk DEF QNext

LEMMA PathOk == ASSUME QInv PROVE PriceIsOfTheDay
  BY DEF QInv, WalkInv, PriceIsOfTheDay

LEMMA LookAheadOk == ASSUME QInv PROVE NoLookAhead
<1>1. CASE snap = NoSnap /\ obs = Empty
  <2>1. DOMAIN obs = {}
    BY <1>1 DEF Empty
  <2> QED
    BY <2>1 DEF NoLookAhead
<1>2. CASE SnapOk(snap) /\ AllRight(snap, obs)
  <2> DEFINE dir == IF Direction(snap.kind) = 0 THEN 1 ELSE Direction(snap.kind)
             Exc(hs) == {0} \cup {dir * (PriceOf[Day + After[h]] - snap.ref) : h \in hs}
  <2> SUFFICES ASSUME NEW h \in DOMAIN obs
               PROVE  LET own  == IF h = "expected" THEN snap.expected ELSE h
                          all  == {x \in DOMAIN After : After[x] <= After[own]}
                          sure == (all \cap Track) \cup {own}
                      IN  /\ obs[h].price = PriceOf[Day + After[own]]
                          /\ (\E x \in Exc(all) : x <= obs[h].mae) /\ (\A x \in Exc(sure) : obs[h].mae <= x)
                          /\ (\E x \in Exc(all) : obs[h].mfe <= x) /\ (\A x \in Exc(sure) : x <= obs[h].mfe)
    BY DEF NoLookAhead
  <2> DEFINE own  == IF h = "expected" THEN snap.expected ELSE h
             all  == {x \in DOMAIN After : After[x] <= After[own]}
             sure == (all \cap Track) \cup {own}
             v == obs[h]
  <2>1. own = OwnOf(snap, h) /\ dir = Dir(snap)
    BY DEF OwnOf, Dir
  <2>2. RightOf(snap, h, v) /\ v \in Observation
    BY <1>2 DEF AllRight, ObsType
  <2>3. \A y \in DOMAIN After : GainAt(snap, y) \in Int
    BY <1>2, GainType DEF QInv
  <2>4. \A x : x \in Exc(all) <=> x = 0 \/ \E y \in all : x = GainAt(snap, y)
    BY <2>1 DEF GainAt
  <2>5. \A x : x \in Exc(sure) <=> x = 0 \/ \E y \in sure : x = GainAt(snap, y)
    BY <2>1 DEF GainAt
  <2>6. own \in DOMAIN After /\ v.price = PriceOf[Day + After[own]] /\ ExcursionsOk(snap, v, own)
    BY <2>1, <2>2 DEF RightOf
  <2>7. v.mae \in Int /\ v.mfe \in Int
    BY <2>2 DEF Observation
  <2> HIDE DEF Exc, dir, v
  <2>8. v.mae \in Exc(all) /\ v.mfe \in Exc(all)
    BY <2>4, <2>6 DEF ExcursionsOk
  <2>9. \A y \in sure : v.mae <= GainAt(snap, y) /\ GainAt(snap, y) <= v.mfe
    BY <2>6 DEF ExcursionsOk
  <2>10. v.mae <= 0 /\ 0 <= v.mfe
    BY <2>6 DEF ExcursionsOk
  <2> HIDE DEF all, sure, own
  <2>11. \A x \in Exc(sure) : v.mae <= x /\ x <= v.mfe
    BY <2>5, <2>9, <2>10
  <2>12. (\E x \in Exc(all) : x <= v.mae) /\ (\E x \in Exc(all) : v.mfe <= x)
    BY <2>7, <2>8
  <2> QED
    BY <2>6, <2>11, <2>12 DEF v, own, all, sure
<1> QED
  BY <1>1, <1>2 DEF QInv, DecisionOk

LEMMA KeyOk == ASSUME QInv PROVE GradeOfKey
<1>1. CASE snap = NoSnap /\ obs = Empty /\ eval = Pending
  <2>1. DOMAIN obs = {} /\ eval.class = "PENDING"
    BY <1>1 DEF Empty, Pending
  <2> QED
    BY <2>1 DEF GradeOfKey
<1>2. CASE SnapOk(snap) /\ Graded(snap, obs, eval)
  <2>1. CASE DOMAIN obs \cap {"expected", "1w"} = {}
    <3>1. eval.class = "PENDING"
      BY <1>2, <2>1 DEF Graded
    <3> QED
      BY <2>1, <3>1 DEF GradeOfKey
  <2>2. CASE DOMAIN obs \cap {"expected", "1w"} # {}
    <3>1. /\ ClassOk(Direction(snap.kind), RetAt(snap, KeyHorizon(snap, obs)), eval)
          /\ Direction(snap.kind) = 0 => LabelOk(snap, KeyHorizon(snap, obs), eval)
      BY <1>2, <2>2 DEF Graded
    <3> QED
      BY <2>2, <3>1 DEF GradeOfKey, ClassOk, LabelOk, RetAt, KeyHorizon, GainOf, Avoided
  <2> QED
    BY <2>1, <2>2
<1> QED
  BY <1>1, <1>2 DEF QInv, DecisionOk

LEMMA WeekOk == ASSUME QInv PROVE VerdictsOfTheWeek
<1> DEFINE px == PriceOf[Day]
           q == PriceOf[Day + After["1w"]]
           m == (q - px) * 100
<1>1. px \in Int /\ q \in Int
  <2>1. PriceOf \in [0..LastDay -> Nat]
    BY PathIs DEF QInv
  <2>2. Day \in 0..LastDay /\ Day + After["1w"] \in 0..LastDay
    BY Horizons, WeekIsTracked
  <2> QED
    BY <2>1, <2>2
<1>2. forecast.case # "none" => forecast.price = q
  BY DEF QInv, ForecastOk
<1>3. CASE "1w" \in DOMAIN later
  <2>1. grade = StopGrade(px, later) /\ later["1w"] = q
    BY <1>3 DEF QInv, GradeOk, LaterOk
  <2> HIDE DEF px, q
  <2>2. grade = IF m <= -3 * px THEN "GOOD_STOP" ELSE IF m >= 3 * px THEN "EARLY_STOP" ELSE "NEUTRAL"
    BY <2>1 DEF StopGrade
  <2>3. /\ grade # "none"
        /\ grade = "GOOD_STOP"  => m <= -3 * px
        /\ grade = "EARLY_STOP" => m >= 3 * px
        /\ grade = "NEUTRAL"    => m > -3 * px /\ m < 3 * px
    <3>1. PICK a \in Int : a = m
      BY <1>1
    <3>2. PICK b \in Int : b = 3 * px
      BY <1>1
    <3>3. -3 * px = -b
      BY <1>1, <3>2
    <3> HIDE DEF m
    <3> QED
      BY <2>2, <3>1, <3>2, <3>3
  <2> QED
    BY <1>2, <1>3, <2>3 DEF VerdictsOfTheWeek, px, q
<1>4. CASE "1w" \notin DOMAIN later
  <2>1. grade = "none"
    BY <1>4 DEF QInv, GradeOk
  <2> QED
    BY <1>2, <1>4, <2>1 DEF VerdictsOfTheWeek
<1> QED
  BY <1>3, <1>4

\* Prices, observations, grades and verdicts are those of the price path, for every
\* path, every set of horizons and every schedule of the calls.
THEOREM VerdictsAreOfThePath == QSpec => []VerdictsOfThePath
<1>1. QInit => QInv
  BY QInitOk
<1>2. QInv /\ [QNext]_qvars => QInv'
  BY QInvInductive
<1>3. QInv => VerdictsOfThePath
  BY PathOk, LookAheadOk, KeyOk, WeekOk DEF VerdictsOfThePath
<1> QED
  BY <1>1, <1>2, <1>3, PTL DEF QSpec

\* A step keeps every observation and the decision.
LEMMA ObservationsStep ==
  ASSUME QInv, [QNext]_qvars
  PROVE  /\ \A h \in DOMAIN obs : h \in DOMAIN obs' /\ obs'[h] = obs[h]
         /\ snap # NoSnap => snap' = snap
<1>1. ASSUME UNCHANGED <<snap, obs>>
      PROVE  /\ \A h \in DOMAIN obs : h \in DOMAIN obs' /\ obs'[h] = obs[h]
             /\ snap # NoSnap => snap' = snap
  BY <1>1
<1>2. ASSUME NEW ext \in BOOLEAN, TrackDecision(ext)
      PROVE  /\ \A h \in DOMAIN obs : h \in DOMAIN obs' /\ obs'[h] = obs[h]
             /\ snap # NoSnap => snap' = snap
  <2>1. snap' = snap
    BY <1>2 DEF TrackDecision
  <2> QED
    BY <1>2, <2>1, TrackRecords
<1>3. ASSUME NEW k \in Kind, NEW e \in DOMAIN After \cup {"none"}, Record(k, e)
      PROVE  /\ \A h \in DOMAIN obs : h \in DOMAIN obs' /\ obs'[h] = obs[h]
             /\ snap # NoSnap => snap' = snap
  <2>1. CASE snap = NoSnap
    <3>1. DOMAIN obs = {}
      <4>1. NoSnap.kind = "none"
        BY DEF NoSnap
      <4>2. ~SnapOk(snap)
        BY <2>1, <4>1 DEF SnapOk, Kind
      <4> QED
        BY <4>2 DEF QInv, DecisionOk, Empty
    <3> QED
      BY <2>1, <3>1
  <2>2. CASE snap # NoSnap
    <3>1. UNCHANGED <<snap, obs>>
      BY <1>3, <2>2 DEF Record
    <3> QED
      BY <3>1
  <2> QED
    BY <2>1, <2>2
<1>4. ASSUME UNCHANGED qvars PROVE UNCHANGED <<snap, obs>>
  BY <1>4 DEF qvars
<1>5. ASSUME Tick \/ (\E d \in 1..LastDay : GetQuote(d)) \/ EvaluateStop \/ ResolveDue
      PROVE  UNCHANGED <<snap, obs>>
  BY <1>5 DEF Tick, GetQuote, EvaluateStop, ResolveDue
<1> QED
  BY <1>1, <1>2, <1>3, <1>4, <1>5 DEF QNext

\* An observation of a decision, once made, is neither lost nor changed, however often
\* the decision is recorded or tracked again (DecisionQualityEngine.record, track).
THEOREM ObservationsAreKept == QSpec => ObservationsKept
<1>1. QInit => QInv
  BY QInitOk
<1>2. QInv /\ [QNext]_qvars => QInv'
  BY QInvInductive
<1>3. QInv /\ [QNext]_qvars =>
        [/\ \A h \in DOMAIN obs : h \in DOMAIN obs' /\ obs'[h] = obs[h]
         /\ snap # NoSnap => snap' = snap]_qvars
  BY ObservationsStep
<1> QED
  BY <1>1, <1>2, <1>3, PTL DEF QSpec, ObservationsKept

-----------------------------------------------------------------------------
(* The accounting identity over a common denominator.                      *)

\* A denominator that covers another does for the entries of a sum.
LEMMA CoversAll ==
  ASSUME NEW n \in Nat, NEW f, NEW F, NEW D, NEW E, ValsTo(f, F, n, D), IntsTo(F, n), Finer(E, D)
  PROVE  \E G : ValsTo(f, G, n, E)
<1>1. \A k \in 1..n : ValueOver(f[k], E)
  <2> SUFFICES ASSUME NEW k \in 1..n PROVE ValueOver(f[k], E)
    OBVIOUS
  <2>1. ValueOver(f[k], D)
    BY DEF ValsTo, ValueOver, IntsTo
  <2> QED
    BY <2>1 DEF Finer
<1> DEFINE G == [k \in 1..n |-> CHOOSE A \in Int : Val(f[k], A, E)]
<1>2. ASSUME NEW k \in 1..n PROVE Val(f[k], G[k], E)
  <2>1. \E A \in Int : Val(f[k], A, E)
    BY <1>1 DEF ValueOver
  <2>2. G[k] = CHOOSE A \in Int : Val(f[k], A, E)
    OBVIOUS
  <2> HIDE DEF G
  <2> QED
    BY <2>1, <2>2
<1>3. ValsTo(f, G, n, E)
  BY <1>2 DEF ValsTo
<1> HIDE DEF G
<1> QED
  BY <1>3

LEMMA ValsAreInts == ASSUME NEW n \in Nat, NEW f, NEW F, NEW D, ValsTo(f, F, n, D) PROVE IntsTo(F, n)
  BY DEF ValsTo, IntsTo, Val

\* A common denominator for m fractions and the entries of two sums.
LEMMA CommonThree ==
  ASSUME NEW m \in Nat, NEW n \in Nat, NEW x, NEW f, NEW g,
         FracsTo(x, m), FracsTo(f, n), FracsTo(g, n)
  PROVE  \E D \in Pos : (\E X : ValsTo(x, X, m, D)) /\ (\E F : ValsTo(f, F, n, D))
                        /\ (\E G : ValsTo(g, G, n, D))
<1>0. 1 \in Pos
  BY DEF Pos
<1>1. PICK B \in Pos : \E X : ValsTo(x, X, m, B)
  BY <1>0, CommonAll
<1>2. PICK X : ValsTo(x, X, m, B)
  BY <1>1
<1>3. PICK C \in Pos : Finer(C, B) /\ \E F : ValsTo(f, F, n, C)
  BY CommonAll
<1>4. PICK F : ValsTo(f, F, n, C)
  BY <1>3
<1>5. PICK D \in Pos : Finer(D, C) /\ \E G : ValsTo(g, G, n, D)
  BY CommonAll
<1>6. Finer(D, B)
  BY <1>3, <1>5 DEF Finer
<1>7. \E Y : ValsTo(x, Y, m, D)
  BY <1>2, <1>6, CoversAll, ValsAreInts
<1>8. \E Y : ValsTo(f, Y, n, D)
  BY <1>4, <1>5, CoversAll, ValsAreInts
<1> QED
  BY <1>5, <1>7, <1>8

\* Having the same value is transitive.
LEMMA SameTrans ==
  ASSUME NEW a \in Frac, NEW b \in Frac, NEW c \in Frac, Same(a, b), Same(b, c)
  PROVE  Same(a, c) /\ Same(b, a)
<1>1. PICK D \in Pos : ValueOver(a, D) /\ ValueOver(b, D)
  BY CommonTwo
<1>2. PICK E \in Pos : ValueOver(c, E) /\ ValueOver(a, E) /\ ValueOver(b, E)
  BY <1>1, Commoner
<1>3. PICK A \in Int : Val(a, A, E)
  BY <1>2 DEF ValueOver
<1>4. PICK B \in Int : Val(b, B, E)
  BY <1>2 DEF ValueOver
<1>5. PICK C \in Int : Val(c, C, E)
  BY <1>2 DEF ValueOver
<1>6. A = B /\ B = C
  BY <1>3, <1>4, <1>5, ValSame
<1> QED
  BY <1>3, <1>4, <1>5, <1>6, ValSame

\* Whole numbers over a denominator.
LEMMA WholeOver == ASSUME NEW n \in Int, NEW D \in Pos PROVE Val(Whole(n), n * D, D)
<1>1. Val(Whole(n), n, 1) /\ 1 \in Pos /\ D \in Int
  BY ValWhole DEF Pos
<1>2. n * D \in Int /\ n * D = (n * D) * 1
  BY <1>1
<1> QED
  BY <1>1, <1>2, Revalue

-----------------------------------------------------------------------------
\* The accounting identity for cash c, costs f of the lots, and so on.
Balance(c, f, l, r, d, p) ==
  Same(Add(Add(c, AddTo(f, NSymbols)), l), Add(Add(Add(Whole(Initial), r), d), Neg(p)))

ValsOf(c, l, r, d, p, C, L, R, V, P, D) ==
  Val(c, C, D) /\ Val(l, L, D) /\ Val(r, R, D) /\ Val(d, V, D) /\ Val(p, P, D)

\* The identity over a common denominator.
LEMMA BalanceVal ==
  ASSUME NEW c, NEW l, NEW r, NEW d, NEW p, NEW C, NEW L, NEW R, NEW V, NEW P, NEW D \in Pos,
         ValsOf(c, l, r, d, p, C, L, R, V, P, D), NEW f, NEW F, ValsTo(f, F, NSymbols, D)
  PROVE  Balance(c, f, l, r, d, p) <=> C + SumTo(F, NSymbols) + L = Initial * D + R + V - P
<1>0. NSymbols \in Nat /\ Initial \in Int
  BY BooksAssumption
<1>1. PICK S \in Int : S = SumTo(F, NSymbols) /\ Val(AddTo(f, NSymbols), S, D)
  BY <1>0, AddToVal DEF Val
<1>2. PICK I \in Int : I = Initial * D /\ Val(Whole(Initial), I, D)
  BY <1>0, WholeOver DEF Val
<1>3. /\ Val(c, C, D) /\ Val(l, L, D) /\ Val(r, R, D) /\ Val(d, V, D) /\ Val(p, P, D)
      /\ C \in Int /\ L \in Int /\ R \in Int /\ V \in Int /\ P \in Int
  BY DEF ValsOf, Val
<1>4. Val(Add(Add(c, AddTo(f, NSymbols)), l), (C + S) + L, D)
  BY <1>1, <1>3, ValAdd
<1>5. Val(Add(Add(Add(Whole(Initial), r), d), Neg(p)), ((I + R) + V) + (-P), D)
  BY <1>2, <1>3, ValAdd, ValNeg
<1>6. Balance(c, f, l, r, d, p) <=> (C + S) + L = ((I + R) + V) + (-P)
  BY <1>4, <1>5, ValSame DEF Balance
<1> QED
  BY <1>1, <1>2, <1>3, <1>6

\* A purchase of cost qp, or a sale, at price and fee: the cost of lot i grows by y,
\* cash falls by qp and the fee, the result grows by y - qp.
LEMMA FillBalances ==
  ASSUME NEW c \in Frac, NEW l \in Frac, NEW r \in Frac, NEW d \in Frac, NEW p \in Frac,
         NEW f, NEW g, FracsTo(f, NSymbols), FracsTo(g, NSymbols), NEW i \in Symbols,
         DifferAt(f, g, NSymbols, i), Balance(c, f, l, r, d, p),
         NEW qp \in Frac, NEW y \in Frac, NEW fee \in Frac, NEW gain \in Frac,
         Same(g[i], Add(f[i], y)), Same(gain, Add(Neg(qp), y))
  PROVE  Balance(Add(Add(c, Neg(qp)), Neg(fee)), g, l, Add(r, gain), d, Add(p, fee))
<1>0. NSymbols \in Nat /\ Initial \in Int /\ i \in 1..NSymbols
  BY BooksAssumption DEF Symbols
<1> DEFINE x == <<c, l, r, d, p, qp, y, fee, gain>>
<1>1. FracsTo(x, 9)
  BY DEF FracsTo
<1>2. PICK D \in Pos : (\E X : ValsTo(x, X, 9, D)) /\ (\E F : ValsTo(f, F, NSymbols, D))
                       /\ (\E G : ValsTo(g, G, NSymbols, D))
  <2> HIDE DEF x
  <2> QED
    BY <1>0, <1>1, CommonThree
<1>3. PICK X : ValsTo(x, X, 9, D)
  BY <1>2
<1>4. PICK F : ValsTo(f, F, NSymbols, D)
  BY <1>2
<1>5. PICK G : ValsTo(g, G, NSymbols, D)
  BY <1>2
<1>6. /\ Val(c, X[1], D) /\ Val(l, X[2], D) /\ Val(r, X[3], D) /\ Val(d, X[4], D) /\ Val(p, X[5], D)
      /\ Val(qp, X[6], D) /\ Val(y, X[7], D) /\ Val(fee, X[8], D) /\ Val(gain, X[9], D)
  BY <1>3 DEF ValsTo
<1> HIDE DEF x
<1>7. /\ X[1] \in Int /\ X[2] \in Int /\ X[3] \in Int /\ X[4] \in Int /\ X[5] \in Int
      /\ X[6] \in Int /\ X[7] \in Int /\ X[8] \in Int /\ X[9] \in Int
  BY <1>6 DEF Val
<1>8. Val(f[i], F[i], D) /\ Val(g[i], G[i], D) /\ F[i] \in Int /\ G[i] \in Int
  BY <1>0, <1>4, <1>5 DEF ValsTo, Val
<1>9. G[i] = F[i] + X[7]
  <2>1. Val(Add(f[i], y), F[i] + X[7], D)
    BY <1>6, <1>8, ValAdd
  <2> QED
    BY <1>8, <2>1, ValSame
<1>10. X[9] = -X[6] + X[7]
  <2>1. Val(Add(Neg(qp), y), -X[6] + X[7], D)
    BY <1>6, ValAdd, ValNeg
  <2> QED
    BY <1>6, <2>1, ValSame
<1>11. PICK S \in Int : S = SumTo(F, NSymbols)
  BY <1>0, <1>4, ValsAreInts, SumIs
<1>12. SumTo(G, NSymbols) = S - F[i] + G[i]
  <2>1. IntsTo(F, NSymbols) /\ IntsTo(G, NSymbols)
    BY <1>0, <1>4, <1>5, ValsAreInts
  <2>2. DifferAt(F, G, NSymbols, i)
    <3> SUFFICES ASSUME NEW k \in 1..NSymbols, k # i PROVE F[k] = G[k]
      BY DEF DifferAt
    <3>1. f[k] = g[k] /\ f[k] \in Frac
      BY DEF DifferAt, FracsTo
    <3>2. Val(f[k], F[k], D) /\ Val(f[k], G[k], D)
      BY <1>4, <1>5, <3>1 DEF ValsTo
    <3>3. Same(f[k], f[k])
      BY DEF Same
    <3> QED
      BY <3>2, <3>3, ValSame
  <2> QED
    BY <1>0, <1>11, <2>1, <2>2, SumChanged
<1>13. X[1] + S + X[2] = Initial * D + X[3] + X[4] - X[5]
  <2>1. ValsOf(c, l, r, d, p, X[1], X[2], X[3], X[4], X[5], D)
    BY <1>6 DEF ValsOf
  <2> QED
    BY <1>4, <1>11, <2>1, BalanceVal
<1>14. PICK c2, r2, p2 : c2 = Add(Add(c, Neg(qp)), Neg(fee)) /\ r2 = Add(r, gain) /\ p2 = Add(p, fee)
  OBVIOUS
<1>15. PICK C2, R2, P2 \in Int : /\ C2 = (X[1] + (-X[6])) + (-X[8])
                                 /\ R2 = X[3] + X[9] /\ P2 = X[5] + X[8]
  BY <1>7
<1>16. Val(c2, C2, D) /\ Val(r2, R2, D) /\ Val(p2, P2, D)
  BY <1>6, <1>14, <1>15, ValAdd, ValNeg
<1>17. PICK I \in Int : I = Initial * D
  BY <1>0 DEF Pos
<1>18. C2 + SumTo(G, NSymbols) + X[2] = Initial * D + R2 + X[4] - P2
  <2>1. X[1] + S + X[2] = I + X[3] + X[4] - X[5]
    BY <1>13, <1>17
  <2>2. PICK T \in Int : T = SumTo(G, NSymbols) /\ T = S - F[i] + G[i]
    BY <1>8, <1>12
  <2>3. C2 + T + X[2] = I + R2 + X[4] - P2
    BY <1>7, <1>8, <1>9, <1>10, <1>15, <2>1, <2>2
  <2> QED
    BY <1>17, <2>2, <2>3
<1>19. ValsOf(c2, l, r2, d, p2, C2, X[2], R2, X[4], P2, D)
  BY <1>6, <1>16 DEF ValsOf
<1>20. Balance(c2, g, l, r2, d, p2)
  BY <1>5, <1>18, <1>19, BalanceVal
<1> QED
  BY <1>14, <1>20

\* A result of nothing may be left out.
LEMMA NothingGained ==
  ASSUME NEW c \in Frac, NEW l \in Frac, NEW r \in Frac, NEW d \in Frac, NEW p \in Frac, NEW q \in Frac,
         NEW f, FracsTo(f, NSymbols), Balance(c, f, l, Add(r, Add(Neg(q), q)), d, p)
  PROVE  Balance(c, f, l, r, d, p)
<1>0. NSymbols \in Nat /\ Initial \in Int
  BY BooksAssumption
<1> DEFINE x == <<c, l, r, d, p, q>>
<1>1. FracsTo(x, 6)
  BY DEF FracsTo
<1>2. PICK D \in Pos : (\E X : ValsTo(x, X, 6, D)) /\ (\E F : ValsTo(f, F, NSymbols, D))
                       /\ (\E G : ValsTo(f, G, NSymbols, D))
  <2> HIDE DEF x
  <2> QED
    BY <1>0, <1>1, CommonThree
<1>3. PICK X : ValsTo(x, X, 6, D)
  BY <1>2
<1>4. PICK F : ValsTo(f, F, NSymbols, D)
  BY <1>2
<1>5. /\ Val(c, X[1], D) /\ Val(l, X[2], D) /\ Val(r, X[3], D) /\ Val(d, X[4], D) /\ Val(p, X[5], D)
      /\ Val(q, X[6], D)
  BY <1>3 DEF ValsTo
<1> HIDE DEF x
<1>6. X[3] \in Int /\ X[6] \in Int
  BY <1>5 DEF Val
<1>7. Val(Add(r, Add(Neg(q), q)), X[3] + (-X[6] + X[6]), D)
  BY <1>5, ValAdd, ValNeg
<1>8. X[3] + (-X[6] + X[6]) = X[3]
  BY <1>6
<1>9. Val(Add(r, Add(Neg(q), q)), X[3], D)
  BY <1>7, <1>8
<1>10. /\ ValsOf(c, l, Add(r, Add(Neg(q), q)), d, p, X[1], X[2], X[3], X[4], X[5], D)
       /\ ValsOf(c, l, r, d, p, X[1], X[2], X[3], X[4], X[5], D)
  BY <1>5, <1>9 DEF ValsOf
<1> QED
  BY <1>4, <1>10, BalanceVal

\* Equal fractions have equal values.
LEMMA SameVals ==
  ASSUME NEW n \in Nat, NEW f, NEW g, NEW F, NEW G, NEW D, ValsTo(f, F, n, D), ValsTo(g, G, n, D),
         NEW k \in 1..n, f[k] = g[k]
  PROVE  F[k] = G[k]
<1>1. Val(f[k], F[k], D) /\ Val(f[k], G[k], D)
  BY DEF ValsTo
<1>2. Same(f[k], f[k])
  BY DEF Same
<1> QED
  BY <1>1, <1>2, ValSame

\* A split: the lot costs what it cost.
LEMMA SplitBalances ==
  ASSUME NEW c \in Frac, NEW l \in Frac, NEW r \in Frac, NEW d \in Frac, NEW p \in Frac,
         NEW f, NEW g, FracsTo(f, NSymbols), FracsTo(g, NSymbols), NEW i \in Symbols,
         DifferAt(f, g, NSymbols, i), Balance(c, f, l, r, d, p), Same(g[i], f[i])
  PROVE  Balance(c, g, l, r, d, p)
<1>0. NSymbols \in Nat /\ i \in 1..NSymbols
  BY BooksAssumption DEF Symbols
<1> DEFINE x == <<c, l, r, d, p>>
<1>1. FracsTo(x, 5)
  BY DEF FracsTo
<1>2. PICK D \in Pos : (\E X : ValsTo(x, X, 5, D)) /\ (\E F : ValsTo(f, F, NSymbols, D))
                       /\ (\E G : ValsTo(g, G, NSymbols, D))
  <2> HIDE DEF x
  <2> QED
    BY <1>0, <1>1, CommonThree
<1>3. PICK X : ValsTo(x, X, 5, D)
  BY <1>2
<1>4. PICK F : ValsTo(f, F, NSymbols, D)
  BY <1>2
<1>5. PICK G : ValsTo(g, G, NSymbols, D)
  BY <1>2
<1>6. ValsOf(c, l, r, d, p, X[1], X[2], X[3], X[4], X[5], D)
  BY <1>3 DEF ValsTo, ValsOf
<1> HIDE DEF x
<1>7. \A k \in 1..NSymbols : F[k] = G[k]
  <2> SUFFICES ASSUME NEW k \in 1..NSymbols PROVE F[k] = G[k]
    OBVIOUS
  <2>1. CASE k = i
    <3>1. Val(f[i], F[i], D) /\ Val(g[i], G[i], D)
      BY <1>0, <1>4, <1>5 DEF ValsTo
    <3> QED
      BY <2>1, <3>1, ValSame
  <2>2. CASE k # i
    <3>1. f[k] = g[k]
      BY <2>2 DEF DifferAt
    <3> QED
      BY <1>0, <1>4, <1>5, <3>1, SameVals
  <2> QED
    BY <2>1, <2>2
<1>8. SumTo(F, NSymbols) = SumTo(G, NSymbols)
  BY <1>0, <1>4, <1>7, ValsAreInts, SumSame
<1>9. X[1] + SumTo(F, NSymbols) + X[2] = Initial * D + X[3] + X[4] - X[5]
  BY <1>4, <1>6, BalanceVal
<1>10. X[1] + SumTo(G, NSymbols) + X[2] = Initial * D + X[3] + X[4] - X[5]
  BY <1>8, <1>9
<1> QED
  BY <1>5, <1>6, <1>10, BalanceVal

\* A dividend h.
LEMMA DividendBalances ==
  ASSUME NEW c \in Frac, NEW l \in Frac, NEW r \in Frac, NEW d \in Frac, NEW p \in Frac,
         NEW f, FracsTo(f, NSymbols), Balance(c, f, l, r, d, p), NEW h \in Frac
  PROVE  Balance(Add(c, h), f, l, r, Add(d, h), p)
<1>0. NSymbols \in Nat /\ Initial \in Int
  BY BooksAssumption
<1> DEFINE x == <<c, l, r, d, p, h>>
<1>1. FracsTo(x, 6)
  BY DEF FracsTo
<1>2. PICK D \in Pos : (\E X : ValsTo(x, X, 6, D)) /\ (\E F : ValsTo(f, F, NSymbols, D))
                       /\ (\E G : ValsTo(f, G, NSymbols, D))
  <2> HIDE DEF x
  <2> QED
    BY <1>0, <1>1, CommonThree
<1>3. PICK X : ValsTo(x, X, 6, D)
  BY <1>2
<1>4. PICK F : ValsTo(f, F, NSymbols, D)
  BY <1>2
<1>5. ValsOf(c, l, r, d, p, X[1], X[2], X[3], X[4], X[5], D) /\ Val(h, X[6], D)
  BY <1>3 DEF ValsTo, ValsOf
<1> HIDE DEF x
<1>6. PICK S \in Int : S = SumTo(F, NSymbols)
  BY <1>0, <1>4, ValsAreInts, SumIs
<1>7. PICK I \in Int : I = Initial * D
  BY <1>0 DEF Pos
<1>8. X[1] \in Int /\ X[2] \in Int /\ X[3] \in Int /\ X[4] \in Int /\ X[5] \in Int /\ X[6] \in Int
  BY <1>5 DEF ValsOf, Val
<1>9. X[1] + S + X[2] = I + X[3] + X[4] - X[5]
  BY <1>4, <1>5, <1>6, <1>7, BalanceVal
<1>10. PICK c2, d2 : c2 = Add(c, h) /\ d2 = Add(d, h)
  OBVIOUS
<1>11. PICK C2, V2 \in Int : C2 = X[1] + X[6] /\ V2 = X[4] + X[6]
  BY <1>8
<1>12. ValsOf(c2, l, r, d2, p, C2, X[2], X[3], V2, X[5], D)
  BY <1>5, <1>10, <1>11, ValAdd DEF ValsOf
<1>13. C2 + S + X[2] = I + X[3] + V2 - X[5]
  <2>1. PICK x1, x2, x3, x4, x5, x6 \in Int :
          x1 = X[1] /\ x2 = X[2] /\ x3 = X[3] /\ x4 = X[4] /\ x5 = X[5] /\ x6 = X[6]
    BY <1>8
  <2>2. x1 + S + x2 = I + x3 + x4 - x5 /\ C2 = x1 + x6 /\ V2 = x4 + x6
    BY <1>9, <1>11, <2>1
  <2>3. C2 + S + x2 = I + x3 + V2 - x5
    BY <2>2
  <2> QED
    BY <2>1, <2>3
<1>14. Balance(c2, f, l, r, d2, p)
  <2>1. C2 + SumTo(F, NSymbols) + X[2] = Initial * D + X[3] + V2 - X[5]
    BY <1>6, <1>7, <1>13
  <2> QED
    BY <1>4, <1>12, <2>1, BalanceVal
<1> QED
  BY <1>10, <1>14

Elsewhere(f, g, i, j) == \A k \in Symbols : k # i /\ k # j => f[k] = g[k]

\* A renaming: lot i becomes lot j, and what lot j had cost is lost.
LEMMA RenameBalances ==
  ASSUME NEW c \in Frac, NEW l \in Frac, NEW r \in Frac, NEW d \in Frac, NEW p \in Frac, NEW l2 \in Frac,
         NEW f, NEW g, FracsTo(f, NSymbols), FracsTo(g, NSymbols),
         NEW i \in Symbols, NEW j \in Symbols, i # j,
         Elsewhere(f, g, i, j),
         Same(g[i], Whole(0)), g[j] = f[i], Same(l2, Add(l, f[j])), Balance(c, f, l, r, d, p)
  PROVE  Balance(c, g, l2, r, d, p)
<1> USE DEF Elsewhere
<1>0. NSymbols \in Nat /\ Initial \in Int /\ i \in 1..NSymbols /\ j \in 1..NSymbols
  BY BooksAssumption DEF Symbols
<1> DEFINE x == <<c, l, r, d, p, l2>>
<1>1. FracsTo(x, 6)
  BY DEF FracsTo
<1>2. PICK D \in Pos : (\E X : ValsTo(x, X, 6, D)) /\ (\E F : ValsTo(f, F, NSymbols, D))
                       /\ (\E G : ValsTo(g, G, NSymbols, D))
  <2> HIDE DEF x
  <2> QED
    BY <1>0, <1>1, CommonThree
<1>3. PICK X : ValsTo(x, X, 6, D)
  BY <1>2
<1>4. PICK F : ValsTo(f, F, NSymbols, D)
  BY <1>2
<1>5. PICK G : ValsTo(g, G, NSymbols, D)
  BY <1>2
<1>6. ValsOf(c, l, r, d, p, X[1], X[2], X[3], X[4], X[5], D) /\ Val(l2, X[6], D)
  BY <1>3 DEF ValsTo, ValsOf
<1> HIDE DEF x
<1>7. X[1] \in Int /\ X[2] \in Int /\ X[3] \in Int /\ X[4] \in Int /\ X[5] \in Int /\ X[6] \in Int
  BY <1>6 DEF ValsOf, Val
<1>8. /\ Val(f[i], F[i], D) /\ Val(f[j], F[j], D) /\ Val(g[i], G[i], D) /\ Val(g[j], G[j], D)
      /\ F[i] \in Int /\ F[j] \in Int /\ G[i] \in Int /\ G[j] \in Int
  BY <1>0, <1>4, <1>5 DEF ValsTo, Val
<1>9. G[i] = 0
  <2>1. Val(Whole(0), 0 * D, D) /\ 0 * D = 0
    BY WholeOver DEF Pos
  <2>2. Val(Whole(0), 0, D)
    BY <2>1
  <2> QED
    BY <1>8, <2>2, ValSame
<1>10. G[j] = F[i]
  <2>1. Val(f[i], G[j], D) /\ Same(f[i], f[i])
    BY <1>8 DEF Same
  <2> QED
    BY <1>8, <2>1, ValSame
<1>11. X[6] = X[2] + F[j]
  <2>1. Val(Add(l, f[j]), X[2] + F[j], D)
    BY <1>6, <1>8, ValAdd DEF ValsOf
  <2> QED
    BY <1>6, <2>1, ValSame
<1>12. IntsTo(F, NSymbols) /\ IntsTo(G, NSymbols)
  BY <1>0, <1>4, <1>5, ValsAreInts
<1>13. PICK S \in Int : S = SumTo(F, NSymbols)
  BY <1>0, <1>12, SumIs
<1>14. SumTo(G, NSymbols) = S - F[j]
  <2> DEFINE H == [k \in 1..NSymbols |-> IF k = i THEN 0 ELSE F[k]]
  <2>1. IntsTo(H, NSymbols) /\ H[i] = 0 /\ H[j] = F[j]
    BY <1>0, <1>12 DEF IntsTo
  <2>2. DifferAt(F, H, NSymbols, i)
    BY DEF DifferAt
  <2>3. DifferAt(H, G, NSymbols, j)
    <3> SUFFICES ASSUME NEW k \in 1..NSymbols, k # j PROVE H[k] = G[k]
      BY DEF DifferAt
    <3>1. CASE k = i
      BY <1>9, <2>1, <3>1
    <3>2. CASE k # i
      <4>1. f[k] = g[k]
        BY <3>2 DEF Symbols
      <4>2. F[k] = G[k]
        BY <1>0, <1>4, <1>5, <4>1, SameVals
      <4> QED
        BY <3>2, <4>2
    <3> QED
      BY <3>1, <3>2
  <2> HIDE DEF H
  <2>4. SumTo(H, NSymbols) = S - F[i] + H[i]
    BY <1>0, <1>12, <1>13, <2>1, <2>2, SumChanged
  <2>5. PICK T \in Int : T = SumTo(H, NSymbols) /\ T = S - F[i]
    BY <1>8, <2>1, <2>4
  <2>6. SumTo(G, NSymbols) = SumTo(H, NSymbols) - H[j] + G[j]
    BY <1>0, <1>12, <2>1, <2>3, SumChanged
  <2>7. SumTo(G, NSymbols) = T - F[j] + F[i]
    BY <1>10, <2>1, <2>5, <2>6
  <2>8. T - F[j] + F[i] = S - F[j]
    BY <1>8, <2>5
  <2> QED
    BY <2>7, <2>8
<1>15. PICK I \in Int : I = Initial * D
  BY <1>0 DEF Pos
<1>16. X[1] + S + X[2] = I + X[3] + X[4] - X[5]
  BY <1>4, <1>6, <1>13, <1>15, BalanceVal
<1>17. PICK T \in Int : T = SumTo(G, NSymbols) /\ T = S - F[j]
  BY <1>8, <1>14
<1>18. X[1] + T + X[6] = I + X[3] + X[4] - X[5]
  BY <1>7, <1>8, <1>11, <1>16, <1>17
<1>19. ValsOf(c, l2, r, d, p, X[1], X[6], X[3], X[4], X[5], D)
  BY <1>6 DEF ValsOf
<1>20. X[1] + SumTo(G, NSymbols) + X[6] = Initial * D + X[3] + X[4] - X[5]
  BY <1>15, <1>17, <1>18
<1> QED
  BY <1>5, <1>19, <1>20, BalanceVal

-----------------------------------------------------------------------------
(* The ledger.                                                             *)

LotIn(p, s) == IF s \in DOMAIN p THEN p[s] ELSE NoLot
CostsOf(p) == [s \in Symbols |-> Mul(LotIn(p, s).qty, LotIn(p, s).avg)]

\* What is held is held in positive quantities.
LotsOk(p) ==
  DOMAIN p \subseteq Symbols /\ \A s \in DOMAIN p : p[s].qty \in Frac /\ p[s].avg \in Frac /\ p[s].qty[1] > 0

LedgerInv ==
  /\ cash \in Frac /\ realized \in Frac /\ paid \in Frac /\ divs \in Frac /\ lost \in Frac
  /\ charged.fees \in Int /\ charged.other \in Int
  /\ LotsOk(pos)
  /\ Balance(cash, CostsOf(pos), lost, realized, divs, paid)
  /\ NotBelow(cash, Whole(0))
  /\ Same(paid, Whole(charged.fees))

\* The lots are of fractions.
LEMMA LotType ==
  ASSUME NEW p, LotsOk(p)
  PROVE  /\ \A s \in Symbols : LotIn(p, s).qty \in Frac /\ LotIn(p, s).avg \in Frac /\ LotIn(p, s).qty[1] >= 0
         /\ FracsTo(CostsOf(p), NSymbols)
         /\ \A s \in Symbols : CostsOf(p)[s] = Mul(LotIn(p, s).qty, LotIn(p, s).avg)
<1>0. Whole(0) \in Frac /\ Whole(0)[1] = 0
  BY ValWhole DEF Whole
<1>1. ASSUME NEW s \in Symbols
      PROVE  LotIn(p, s).qty \in Frac /\ LotIn(p, s).avg \in Frac /\ LotIn(p, s).qty[1] >= 0
  <2>1. CASE s \in DOMAIN p
    <3>1. LotIn(p, s) = p[s] /\ p[s].qty \in Frac /\ p[s].avg \in Frac /\ p[s].qty[1] > 0
      BY <2>1 DEF LotIn, LotsOk
    <3>2. p[s].qty[1] \in Int
      BY <3>1, FracIs
    <3> QED
      BY <3>1, <3>2
  <2>2. CASE s \notin DOMAIN p
    <3>1. LotIn(p, s) = NoLot
      BY <2>2 DEF LotIn
    <3>2. NoLot.qty = Whole(0) /\ NoLot.avg = Whole(0)
      BY DEF NoLot
    <3> QED
      BY <1>0, <3>1, <3>2
  <2> QED
    BY <2>1, <2>2
<1>2. \A s \in Symbols : CostsOf(p)[s] = Mul(LotIn(p, s).qty, LotIn(p, s).avg)
  BY DEF CostsOf
<1>3. \A s \in Symbols : CostsOf(p)[s] \in Frac
  BY <1>1, <1>2, FracOps
<1> QED
  BY <1>1, <1>2, <1>3 DEF FracsTo, Symbols

\* Putting a lot changes its cost only.
LEMMA PutLot ==
  ASSUME NEW p, LotsOk(p), NEW s \in Symbols, NEW v, v.qty \in Frac, v.avg \in Frac, v.qty[1] > 0
  PROVE  LET n == Put(p, s, v)
         IN  /\ LotsOk(n) /\ DifferAt(CostsOf(p), CostsOf(n), NSymbols, s)
             /\ CostsOf(n)[s] = Mul(v.qty, v.avg)
<1>2. PICK n : n = Put(p, s, v)
  OBVIOUS
<1>4. DOMAIN n = DOMAIN p \cup {s} /\ n[s] = v /\ \A x \in DOMAIN p : x # s => n[x] = p[x]
  BY <1>2 DEF Put
<1>5. LotsOk(n)
  BY <1>4 DEF LotsOk
<1>6. LotIn(n, s) = v /\ \A x \in Symbols : x # s => LotIn(n, x) = LotIn(p, x)
  BY <1>4 DEF LotIn
<1>7. DifferAt(CostsOf(p), CostsOf(n), NSymbols, s)
  BY <1>6 DEF DifferAt, CostsOf, Symbols
<1>8. CostsOf(n)[s] = Mul(v.qty, v.avg)
  BY <1>6 DEF CostsOf
<1> QED
  BY <1>2, <1>5, <1>7, <1>8

LEMMA PutCosts ==
  ASSUME NEW p, LotsOk(p), NEW s \in Symbols, NEW q \in Frac, NEW a \in Frac, q[1] > 0
  PROVE  LET n == Put(p, s, [qty |-> q, avg |-> a])
         IN  /\ LotsOk(n) /\ DifferAt(CostsOf(p), CostsOf(n), NSymbols, s)
             /\ CostsOf(n)[s] = Mul(q, a)
<1>1. PICK v : v = [qty |-> q, avg |-> a]
  OBVIOUS
<1>2. v.qty = q /\ v.avg = a
  BY <1>1
<1>3. v.qty \in Frac /\ v.avg \in Frac /\ v.qty[1] > 0
  BY <1>2
<1>4. PICK n : n = Put(p, s, v)
  OBVIOUS
<1>5. /\ LotsOk(n) /\ DifferAt(CostsOf(p), CostsOf(n), NSymbols, s)
      /\ CostsOf(n)[s] = Mul(v.qty, v.avg)
  BY <1>3, <1>4, PutLot
<1> QED
  BY <1>1, <1>2, <1>4, <1>5

\* Dropping a lot.
LEMMA WithoutCosts ==
  ASSUME NEW p, LotsOk(p), NEW s \in Symbols
  PROVE  LET n == Without(p, s)
         IN  /\ LotsOk(n) /\ DifferAt(CostsOf(p), CostsOf(n), NSymbols, s)
             /\ CostsOf(n)[s] = Mul(Whole(0), Whole(0))
<1>1. PICK n : n = Without(p, s)
  OBVIOUS
<1>2. DOMAIN n = DOMAIN p \ {s} /\ \A x \in DOMAIN n : n[x] = p[x]
  BY <1>1 DEF Without
<1>3. LotsOk(n)
  BY <1>2 DEF LotsOk
<1>4. LotIn(n, s) = NoLot /\ \A x \in Symbols : x # s => LotIn(n, x) = LotIn(p, x)
  BY <1>2 DEF LotIn
<1>5. NoLot.qty = Whole(0) /\ NoLot.avg = Whole(0)
  BY DEF NoLot
<1>6. DifferAt(CostsOf(p), CostsOf(n), NSymbols, s)
  BY <1>4 DEF DifferAt, CostsOf, Symbols
<1>7. CostsOf(n)[s] = Mul(Whole(0), Whole(0))
  BY <1>4, <1>5 DEF CostsOf
<1> QED
  BY <1>1, <1>3, <1>6, <1>7

\* Nothing costs nothing.
LEMMA NothingCosts ==
  ASSUME NEW q \in Frac, NEW a \in Frac, q[1] = 0
  PROVE  /\ Mul(q, a) \in Frac /\ Mul(Whole(0), Whole(0)) \in Frac
         /\ Same(Mul(Whole(0), Whole(0)), Mul(q, a)) /\ Same(Mul(q, a), Whole(0))
<1>0. 1 \in Pos
  BY DEF Pos
<1>1. PICK E \in Pos : ValueOver(a, E)
  BY CommonTwo
<1>2. PICK A \in Int : Val(a, A, E)
  BY <1>1 DEF ValueOver
<1>3. Val(q, 0, 1)
  BY <1>0, FracIs DEF Val, Pos
<1>4. Val(Mul(q, a), 0 * A, 1 * E)
  BY <1>2, <1>3, ValMul
<1>5. 0 * A = 0 /\ 1 * E = E /\ E \in Int
  BY DEF Pos
<1>6. Val(Mul(q, a), 0, E)
  BY <1>4, <1>5
<1>7. Val(Whole(0), 0, 1)
  BY ValWhole
<1>8. Val(Mul(Whole(0), Whole(0)), 0 * 0, 1 * 1)
  BY <1>7, ValMul
<1>9. Val(Mul(Whole(0), Whole(0)), 0, 1)
  BY <1>8
<1>10. Val(Mul(Whole(0), Whole(0)), 0 * E, 1 * E)
  BY <1>9, ValScale
<1>11. Val(Mul(Whole(0), Whole(0)), 0, E)
  BY <1>5, <1>10
<1>12. Val(Whole(0), 0 * E, E)
  BY WholeOver
<1>13. Val(Whole(0), 0, E)
  BY <1>5, <1>12
<1> QED
  BY <1>6, <1>11, <1>13, ValSame DEF Val

\* Adding a positive fraction to one that is not negative.
LEMMA PositiveSum ==
  ASSUME NEW a \in Frac, NEW b \in Frac, a[1] >= 0, b[1] > 0
  PROVE  Add(a, b)[1] > 0
<1>1. PICK p, q, s, t \in Int : p = a[1] /\ q = a[2] /\ s = b[1] /\ t = b[2]
  BY FracIs DEF Pos
<1>2. p >= 0 /\ q > 0 /\ s > 0 /\ t > 0
  BY <1>1, FracIs DEF Pos
<1>3. PICK n \in Int : n = p * t + s * q
  BY <1>1
<1>4. n > 0
  <2>1. p * t >= 0
    BY <1>2
  <2>2. s * q > 0
    BY <1>2
  <2> QED
    BY <1>3, <2>1, <2>2
<1>5. PICK d \in Pos : d = q * t
  BY <1>2, PosTimes DEF Pos
<1>6. Val(Add(a, b), n, d)
  BY <1>1, <1>3, <1>5, LowestIs DEF Add
<1>7. PICK x \in Int : x = Add(a, b)[1]
  BY <1>6, FracIs DEF Val
<1>8. PICK y \in Int : y = Add(a, b)[2] /\ y > 0
  BY <1>6, FracIs DEF Val, Pos
<1>9. x * d = n * y
  BY <1>6, <1>7, <1>8 DEF Val
<1>10. n * y > 0
  BY <1>4, <1>8
<1>11. x > 0
  <2>1. CASE x <= 0
    <3>1. x * d <= 0
      BY <2>1 DEF Pos
    <3> QED
      BY <1>9, <1>10, <3>1
  <2> QED
    BY <2>1
<1> QED
  BY <1>7, <1>11

\* record_fill keeps the identity, whatever is bought or sold.
LEMMA RecordFillOk ==
  ASSUME LedgerInv, NEW s \in Symbols, NEW qty \in Frac, NEW price \in Frac, NEW fee \in Frac,
         RecordFill(s, qty, price, fee)
  PROVE  /\ cash' \in Frac /\ realized' \in Frac /\ paid' = Add(paid, fee) /\ LotsOk(pos')
         /\ Balance(cash', CostsOf(pos'), lost, realized', divs, paid')
         /\ NotBelow(cash', Whole(0))
<1>1. PICK lot : lot = LotIn(pos, s)
  OBVIOUS
<1>2. Lot(s) = lot /\ Held(s) = lot.qty
  BY <1>1 DEF Lot, LotIn, Held
<1>3. lot.qty \in Frac /\ lot.avg \in Frac /\ lot.qty[1] >= 0
  BY <1>1, LotType DEF LedgerInv
<1>4. PICK left \in Frac : left = Add(lot.qty, qty)
  BY <1>3, FracOps
<1>5. PICK qp \in Frac : qp = Mul(qty, price)
  BY FracOps
<1>6. PICK m \in Frac : m = Add(Mul(lot.qty, lot.avg), qp)
  BY <1>3, FracOps
<1>7. PICK f : f = CostsOf(pos)
  OBVIOUS
<1>8. PICK g : g = CostsOf(pos')
  OBVIOUS
<1>9. FracsTo(f, NSymbols) /\ f[s] = Mul(lot.qty, lot.avg) /\ f[s] \in Frac
  <2>1. LotsOk(pos)
    BY DEF LedgerInv
  <2>2. FracsTo(f, NSymbols) /\ f[s] = Mul(lot.qty, lot.avg)
    BY <1>1, <1>7, <2>1, LotType
  <2> QED
    BY <2>2 DEF FracsTo, Symbols
<1>10. /\ NotBelow(left, Whole(0)) /\ NotBelow(cash', Whole(0))
       /\ cash' = Add(Add(cash, Neg(qp)), Neg(fee)) /\ paid' = Add(paid, fee)
       /\ pos' = IF left[1] = 0 THEN Without(pos, s)
                 ELSE Put(pos, s, [qty |-> left, avg |-> IF qty[1] > 0 THEN Div(m, left) ELSE lot.avg])
       /\ realized' = IF qty[1] > 0 THEN realized
                      ELSE Add(realized, Mul(Neg(qty), Add(price, Neg(lot.avg))))
  BY <1>2, <1>4, <1>5, <1>6 DEF RecordFill
<1>11. left[1] \in Int /\ left[1] >= 0
  <2>1. left[1] \in Int /\ left[2] \in Int
    BY FracIs DEF Pos
  <2>2. left[1] * Whole(0)[2] >= Whole(0)[1] * left[2]
    BY <1>10 DEF NotBelow
  <2>3. Whole(0)[1] = 0 /\ Whole(0)[2] = 1
    BY DEF Whole
  <2> QED
    BY <2>1, <2>2, <2>3
<1>12. cash' \in Frac /\ cash \in Frac /\ realized \in Frac /\ lost \in Frac /\ divs \in Frac /\ paid \in Frac
  BY <1>10, FracOps DEF LedgerInv
<1>13. Balance(cash, f, lost, realized, divs, paid) /\ LotsOk(pos)
  BY <1>7 DEF LedgerInv
<1>14. CASE qty[1] > 0
  <2>1. left[1] > 0
    BY <1>3, <1>4, <1>14, PositiveSum
  <2>2. PICK a \in Frac : a = Div(m, left)
    BY <2>1, FracOps
  <2>3. pos' = Put(pos, s, [qty |-> left, avg |-> a]) /\ realized' = realized
    BY <1>10, <1>14, <2>1, <2>2
  <2>4. LotsOk(pos') /\ DifferAt(f, g, NSymbols, s) /\ g[s] = Mul(left, a)
    BY <1>7, <1>8, <1>13, <2>1, <2>3, PutCosts
  <2>5. FracsTo(g, NSymbols)
    BY <1>8, <2>4, LotType
  <2>6. Same(g[s], Add(f[s], qp))
    BY <1>6, <1>9, <2>1, <2>2, <2>4, AverageIs
  <2>7. PICK gain \in Frac : gain = Add(Neg(qp), qp)
    BY FracOps
  <2>8. Same(gain, Add(Neg(qp), qp))
    BY <2>7 DEF Same
  <2>9. Balance(Add(Add(cash, Neg(qp)), Neg(fee)), g, lost, Add(realized, gain), divs, Add(paid, fee))
    BY <1>9, <1>12, <1>13, <2>4, <2>5, <2>6, <2>8, FillBalances
  <2>10. cash' \in Frac /\ paid' \in Frac
    BY <1>10, <1>12, FracOps
  <2>11. Balance(cash', g, lost, Add(realized, Add(Neg(qp), qp)), divs, paid')
    BY <1>10, <2>7, <2>9
  <2>12. Balance(cash', g, lost, realized, divs, paid')
    BY <1>12, <2>5, <2>10, <2>11, NothingGained
  <2> QED
    BY <1>8, <1>10, <1>12, <2>3, <2>4, <2>12
<1>15. CASE ~(qty[1] > 0)
  <2>1. PICK y \in Frac : y = Mul(qty, lot.avg)
    BY <1>3, FracOps
  <2>2. PICK gain \in Frac : gain = Mul(Neg(qty), Add(price, Neg(lot.avg)))
    BY <1>3, FracOps
  <2>3. realized' = Add(realized, gain) /\ realized' \in Frac
    BY <1>10, <1>12, <1>15, <2>2, FracOps
  <2>4. Same(gain, Add(Neg(qp), y))
    BY <1>3, <1>5, <2>1, <2>2, GainIs
  <2>5. Same(Mul(left, lot.avg), Add(f[s], y)) /\ Mul(left, lot.avg) \in Frac /\ Add(f[s], y) \in Frac
    BY <1>3, <1>4, <1>9, <2>1, Distributes, FracOps
  <2>6. LotsOk(pos') /\ DifferAt(f, g, NSymbols, s) /\ Same(g[s], Add(f[s], y))
    <3>1. CASE left[1] = 0
      <4>1. pos' = Without(pos, s)
        BY <1>10, <3>1
      <4>2. LotsOk(pos') /\ DifferAt(f, g, NSymbols, s) /\ g[s] = Mul(Whole(0), Whole(0))
        BY <1>7, <1>8, <1>13, <4>1, WithoutCosts
      <4>3. g[s] \in Frac /\ Same(g[s], Mul(left, lot.avg))
        BY <1>3, <3>1, <4>2, NothingCosts
      <4> QED
        BY <2>5, <4>2, <4>3, SameTrans
    <3>2. CASE left[1] # 0
      <4>1. pos' = Put(pos, s, [qty |-> left, avg |-> lot.avg]) /\ left[1] > 0
        BY <1>10, <1>11, <1>15, <3>2
      <4>2. LotsOk(pos') /\ DifferAt(f, g, NSymbols, s) /\ g[s] = Mul(left, lot.avg)
        BY <1>3, <1>7, <1>8, <1>13, <4>1, PutCosts
      <4> QED
        BY <2>5, <4>2
    <3> QED
      BY <3>1, <3>2
  <2>7. FracsTo(g, NSymbols)
    BY <1>8, <2>6, LotType
  <2>8. Balance(Add(Add(cash, Neg(qp)), Neg(fee)), g, lost, Add(realized, gain), divs, Add(paid, fee))
    BY <1>9, <1>12, <1>13, <2>4, <2>6, <2>7, FillBalances
  <2>9. Balance(cash', g, lost, realized', divs, paid')
    BY <1>10, <2>3, <2>8
  <2> QED
    BY <1>8, <1>10, <1>12, <2>3, <2>6, <2>9
<1> QED
  BY <1>14, <1>15

\* Comparing with nothing.
LEMMA NotNegative == ASSUME NEW a \in Frac PROVE NotBelow(a, Whole(0)) <=> a[1] >= 0
<1>1. a[1] \in Int /\ a[2] \in Int
  BY FracIs DEF Pos
<1>2. Whole(0)[1] = 0 /\ Whole(0)[2] = 1
  BY DEF Whole
<1>3. NotBelow(a, Whole(0)) <=> a[1] * 1 >= 0 * a[2]
  BY <1>2 DEF NotBelow
<1> QED
  BY <1>1, <1>3

\* A value is positive with its numerator.
LEMMA SignOf == ASSUME NEW a, NEW A, NEW D, Val(a, A, D) PROVE a[1] > 0 <=> A > 0
<1>1. PICK x \in Int : x = a[1]
  BY FracIs DEF Val
<1>2. PICK y \in Pos : y = a[2]
  BY FracIs DEF Val
<1>3. x * D = A * y /\ A \in Int /\ D \in Pos
  BY <1>1, <1>2 DEF Val
<1>4. ASSUME x > 0 PROVE A > 0
  <2>1. x * D > 0
    BY <1>3, <1>4 DEF Pos
  <2>2. ASSUME A <= 0 PROVE A * y <= 0
    BY <1>3, <2>2 DEF Pos
  <2> QED
    BY <1>3, <2>1, <2>2 DEF Pos
<1>5. ASSUME A > 0 PROVE x > 0
  <2>1. A * y > 0
    BY <1>3, <1>5 DEF Pos
  <2>2. ASSUME x <= 0 PROVE x * D <= 0
    BY <1>3, <2>2 DEF Pos
  <2> QED
    BY <1>3, <2>1, <2>2 DEF Pos
<1> QED
  BY <1>1, <1>4, <1>5

\* The product of two positive fractions is positive.
LEMMA PositiveProduct ==
  ASSUME NEW a \in Frac, NEW b \in Frac, a[1] > 0, b[1] > 0
  PROVE  Mul(a, b)[1] > 0
<1>1. PICK D \in Pos : ValueOver(a, D) /\ ValueOver(b, D)
  BY CommonTwo
<1>2. PICK A \in Int : Val(a, A, D)
  BY <1>1 DEF ValueOver
<1>3. PICK B \in Int : Val(b, B, D)
  BY <1>1 DEF ValueOver
<1>4. A > 0 /\ B > 0
  BY <1>2, <1>3, SignOf
<1>5. Val(Mul(a, b), A * B, D * D)
  BY <1>2, <1>3, ValMul
<1>6. A * B > 0
  BY <1>4
<1> QED
  BY <1>5, <1>6, SignOf

\* Whole amounts add up.
LEMMA WholeAdds ==
  ASSUME NEW p \in Frac, NEW n \in Int, NEW m \in Int, Same(p, Whole(n))
  PROVE  Same(Add(p, Whole(m)), Whole(n + m))
<1>1. PICK D \in Pos : ValueOver(p, D)
  BY CommonTwo
<1>2. PICK P \in Int : Val(p, P, D)
  BY <1>1 DEF ValueOver
<1>3. n + m \in Int /\ D \in Int
  BY DEF Pos
<1>4. PICK N, M, K \in Int : N = n * D /\ M = m * D /\ K = (n + m) * D
  BY <1>3
<1>5. Val(Whole(n), N, D) /\ Val(Whole(m), M, D) /\ Val(Whole(n + m), K, D)
  BY <1>3, <1>4, WholeOver
<1>6. P = N
  BY <1>2, <1>5, ValSame
<1>7. K = N + M
  BY <1>3, <1>4
<1>8. Val(Add(p, Whole(m)), P + M, D)
  BY <1>2, <1>5, ValAdd
<1> QED
  BY <1>5, <1>6, <1>7, <1>8, ValSame

\* Adding nothing.
LEMMA NothingAdded ==
  ASSUME NEW a \in Frac, NEW z \in Frac, Same(z, Whole(0))
  PROVE  Same(a, Add(a, z))
<1>1. PICK D \in Pos : ValueOver(a, D) /\ ValueOver(z, D)
  BY CommonTwo
<1>2. PICK A \in Int : Val(a, A, D)
  BY <1>1 DEF ValueOver
<1>3. PICK Z \in Int : Val(z, Z, D)
  BY <1>1 DEF ValueOver
<1>4. Val(Whole(0), 0 * D, D) /\ 0 * D = 0
  BY WholeOver DEF Pos
<1>5. Z = 0
  BY <1>3, <1>4, ValSame
<1>6. Val(Add(a, z), A + Z, D)
  BY <1>2, <1>3, ValAdd
<1> QED
  BY <1>2, <1>5, <1>6, ValSame

-----------------------------------------------------------------------------
\* A fill, whether the pipeline's or a cash-out's: fee is what the ledger is told, and the
\* cost engine's sum moves by as much.
LEMMA FillKeeps ==
  ASSUME LedgerInv, NEW s \in Symbols, NEW qty \in Frac, NEW price \in Int, NEW fee \in Int,
         RecordFill(s, qty, Whole(price), Whole(fee)),
         charged'.fees = charged.fees + fee, charged'.other = charged.other,
         UNCHANGED <<divs, lost>>
  PROVE  LedgerInv'
<1>1. Whole(price) \in Frac /\ Whole(fee) \in Frac
  BY ValWhole
<1>2. /\ cash' \in Frac /\ realized' \in Frac /\ paid' = Add(paid, Whole(fee)) /\ LotsOk(pos')
      /\ Balance(cash', CostsOf(pos'), lost, realized', divs, paid')
      /\ NotBelow(cash', Whole(0))
  BY <1>1, RecordFillOk
<1>3. paid \in Frac /\ charged.fees \in Int /\ charged.other \in Int /\ divs \in Frac /\ lost \in Frac
      /\ Same(paid, Whole(charged.fees))
  BY DEF LedgerInv
<1>4. paid' \in Frac
  BY <1>1, <1>2, <1>3, FracOps
<1>5. Same(paid', Whole(charged'.fees))
  BY <1>2, <1>3, WholeAdds
<1>6. charged'.fees \in Int /\ charged'.other \in Int /\ divs' = divs /\ lost' = lost
  BY <1>3
<1>7. Balance(cash', CostsOf(pos'), lost', realized', divs', paid')
  BY <1>2, <1>6
<1>8. CostsOf(pos)' = CostsOf(pos')
  BY DEF CostsOf, LotIn, NoLot
<1>9. LotsOk(pos)' = LotsOk(pos')
  BY DEF LotsOk
<1>10. Balance(cash, CostsOf(pos), lost, realized, divs, paid)' = Balance(cash', CostsOf(pos'), lost', realized', divs', paid')
  BY <1>8 DEF Balance
<1>11. NotBelow(cash, Whole(0))' = NotBelow(cash', Whole(0))
       /\ Same(paid, Whole(charged.fees))' = Same(paid', Whole(charged'.fees))
  BY DEF NotBelow, Same, Whole
<1> QED
  BY <1>2, <1>3, <1>4, <1>5, <1>6, <1>7, <1>9, <1>10, <1>11 DEF LedgerInv

\* The invariant of the next state, in terms of the primed variables.
LEMMA LedgerNext ==
  ASSUME cash' \in Frac, realized' \in Frac, paid' \in Frac, divs' \in Frac, lost' \in Frac,
         charged'.fees \in Int, charged'.other \in Int, LotsOk(pos'),
         Balance(cash', CostsOf(pos'), lost', realized', divs', paid'),
         NotBelow(cash', Whole(0)), Same(paid', Whole(charged'.fees))
  PROVE  LedgerInv'
<1>8. CostsOf(pos)' = CostsOf(pos')
  BY DEF CostsOf, LotIn, NoLot
<1>9. LotsOk(pos)' = LotsOk(pos')
  BY DEF LotsOk
<1>10. Balance(cash, CostsOf(pos), lost, realized, divs, paid)' = Balance(cash', CostsOf(pos'), lost', realized', divs', paid')
  BY <1>8 DEF Balance
<1>11. NotBelow(cash, Whole(0))' = NotBelow(cash', Whole(0))
       /\ Same(paid, Whole(charged.fees))' = Same(paid', Whole(charged'.fees))
  BY DEF NotBelow, Same, Whole
<1> QED
  BY <1>9, <1>10, <1>11 DEF LedgerInv

LEMMA SplitKeeps ==
  ASSUME LedgerInv, NEW s \in Symbols, NEW r \in Ratios, Split(s, r)
  PROVE  LedgerInv'
<1>1. r \in Frac /\ r[1] > 0
  BY BooksAssumption DEF Frac
<1>2. s \in DOMAIN pos /\ cash' = cash /\ realized' = realized /\ paid' = paid /\ charged' = charged /\ divs' = divs /\ lost' = lost
      /\ pos' = Put(pos, s, [qty |-> Mul(pos[s].qty, r), avg |-> Div(pos[s].avg, r)])
  BY DEF Split
<1>3. PICK q, a : q = pos[s].qty /\ a = pos[s].avg
  OBVIOUS
<1>4. LotsOk(pos) /\ q \in Frac /\ a \in Frac /\ q[1] > 0
  BY <1>2, <1>3 DEF LedgerInv, LotsOk
<1>5. PICK q2 \in Frac : q2 = Mul(q, r) /\ q2[1] > 0
  BY <1>1, <1>4, FracOps, PositiveProduct
<1>6. PICK a2 \in Frac : a2 = Div(a, r)
  BY <1>1, <1>4, FracOps
<1>7. pos' = Put(pos, s, [qty |-> q2, avg |-> a2])
  BY <1>2, <1>3, <1>5, <1>6
<1>8. LotsOk(pos') /\ DifferAt(CostsOf(pos), CostsOf(pos'), NSymbols, s) /\ CostsOf(pos')[s] = Mul(q2, a2)
  BY <1>4, <1>5, <1>7, PutCosts
<1>9. CostsOf(pos)[s] = Mul(q, a)
  BY <1>2, <1>3 DEF CostsOf, LotIn
<1>10. Same(CostsOf(pos')[s], CostsOf(pos)[s])
  BY <1>1, <1>4, <1>5, <1>6, <1>8, <1>9, SplitIs
<1>11. FracsTo(CostsOf(pos), NSymbols) /\ FracsTo(CostsOf(pos'), NSymbols)
  BY <1>4, <1>8, LotType
<1>12. /\ cash \in Frac /\ realized \in Frac /\ paid \in Frac /\ divs \in Frac /\ lost \in Frac
       /\ Balance(cash, CostsOf(pos), lost, realized, divs, paid)
  BY DEF LedgerInv
<1>13. Balance(cash, CostsOf(pos'), lost, realized, divs, paid)
  BY <1>8, <1>10, <1>11, <1>12, SplitBalances
<1>14. Balance(cash', CostsOf(pos'), lost', realized', divs', paid')
  BY <1>2, <1>13
<1>15. charged'.fees \in Int /\ charged'.other \in Int /\ NotBelow(cash', Whole(0)) /\ Same(paid', Whole(charged'.fees))
  BY <1>2 DEF LedgerInv
<1> QED
  BY <1>2, <1>8, <1>12, <1>14, <1>15, LedgerNext

LEMMA DividendKeeps ==
  ASSUME LedgerInv, NEW s \in Symbols, Dividend(s)
  PROVE  LedgerInv'
<1>1. PICK h : h = Held(s)
  OBVIOUS
<1>2. s \in DOMAIN pos /\ cash' = Add(cash, h) /\ realized' = realized /\ paid' = paid /\ charged' = charged
      /\ divs' = Add(divs, h) /\ lost' = lost /\ pos' = pos
  BY <1>1 DEF Dividend
<1>3. LotsOk(pos) /\ h \in Frac /\ h[1] > 0
  BY <1>1, <1>2 DEF LedgerInv, LotsOk, Held, Lot
<1>4. /\ cash \in Frac /\ realized \in Frac /\ paid \in Frac /\ divs \in Frac /\ lost \in Frac
      /\ Balance(cash, CostsOf(pos), lost, realized, divs, paid) /\ NotBelow(cash, Whole(0))
  BY DEF LedgerInv
<1>5. FracsTo(CostsOf(pos), NSymbols)
  BY <1>3, LotType
<1>6. Balance(Add(cash, h), CostsOf(pos), lost, realized, Add(divs, h), paid)
  BY <1>3, <1>4, <1>5, DividendBalances
<1>7. Balance(cash', CostsOf(pos'), lost', realized', divs', paid')
  BY <1>2, <1>6
<1>8. cash[1] >= 0
  BY <1>4, NotNegative
<1>9. cash' \in Frac /\ divs' \in Frac /\ cash'[1] > 0
  BY <1>2, <1>3, <1>4, <1>8, FracOps, PositiveSum
<1>10. cash'[1] \in Int
  BY <1>9, FracIs
<1>11. NotBelow(cash', Whole(0))
  BY <1>9, <1>10, NotNegative
<1>12. charged'.fees \in Int /\ charged'.other \in Int /\ Same(paid', Whole(charged'.fees)) /\ LotsOk(pos')
  BY <1>2 DEF LedgerInv
<1> QED
  BY <1>2, <1>4, <1>7, <1>9, <1>11, <1>12, LedgerNext

LEMMA RenameKeeps ==
  ASSUME LedgerInv, NEW s \in Symbols, NEW new \in Symbols, SymbolChange(s, new)
  PROVE  LedgerInv'
<1>1. PICK v, w, n : v = pos[s] /\ w = LotIn(pos, new) /\ n = Without(pos, s)
  OBVIOUS
<1>2. s \in DOMAIN pos /\ new # s /\ cash' = cash /\ realized' = realized /\ paid' = paid /\ charged' = charged
      /\ divs' = divs /\ pos' = Put(n, new, v)
      /\ lost' = IF new \in DOMAIN pos THEN Add(lost, Mul(w.qty, w.avg)) ELSE lost
  BY <1>1 DEF SymbolChange, LotIn
<1>3. LotsOk(pos) /\ v.qty \in Frac /\ v.avg \in Frac /\ v.qty[1] > 0
  BY <1>1, <1>2 DEF LedgerInv, LotsOk
<1>4. PICK f, e, g : f = CostsOf(pos) /\ e = CostsOf(n) /\ g = CostsOf(pos')
  OBVIOUS
<1>5. LotsOk(n) /\ DifferAt(f, e, NSymbols, s) /\ e[s] = Mul(Whole(0), Whole(0))
  BY <1>1, <1>3, <1>4, WithoutCosts
<1>6. LotsOk(pos') /\ DifferAt(e, g, NSymbols, new) /\ g[new] = Mul(v.qty, v.avg)
  BY <1>2, <1>3, <1>4, <1>5, PutLot
<1>7. FracsTo(f, NSymbols) /\ FracsTo(g, NSymbols)
  BY <1>3, <1>4, <1>6, LotType
<1>8. f[s] = Mul(v.qty, v.avg)
  BY <1>1, <1>2, <1>4 DEF CostsOf, LotIn
<1>9. f[new] = Mul(w.qty, w.avg) /\ w.qty \in Frac /\ w.avg \in Frac
  BY <1>1, <1>3, <1>4, LotType
<1>10. Whole(0) \in Frac /\ Whole(0)[1] = 0
  BY ValWhole DEF Whole
<1>11. Mul(Whole(0), Whole(0)) \in Frac /\ Same(Mul(Whole(0), Whole(0)), Whole(0))
  BY <1>10, NothingCosts
<1>12. Same(g[s], Whole(0))
  <2>1. g[s] = e[s]
    BY <1>2, <1>6 DEF DifferAt, Symbols
  <2> QED
    BY <1>5, <1>11, <2>1
<1>13. Elsewhere(f, g, s, new)
  BY <1>5, <1>6 DEF DifferAt, Symbols, Elsewhere
<1>14. /\ cash \in Frac /\ realized \in Frac /\ paid \in Frac /\ divs \in Frac /\ lost \in Frac
       /\ Balance(cash, f, lost, realized, divs, paid)
  BY <1>4 DEF LedgerInv
<1>15. lost' \in Frac /\ Same(lost', Add(lost, f[new]))
  <2>1. f[new] \in Frac /\ Add(lost, f[new]) \in Frac
    BY <1>7, <1>14, FracOps DEF FracsTo, Symbols
  <2>2. CASE new \in DOMAIN pos
    <3>1. lost' = Add(lost, f[new])
      BY <1>2, <1>9, <2>2
    <3> QED
      BY <2>1, <3>1 DEF Same
  <2>3. CASE new \notin DOMAIN pos
    <3>1. lost' = lost /\ w = NoLot
      BY <1>1, <1>2, <2>3 DEF LotIn
    <3>2. w.qty = Whole(0) /\ w.avg = Whole(0)
      BY <3>1 DEF NoLot
    <3>3. Same(f[new], Whole(0))
      BY <1>9, <1>11, <3>2
    <3> QED
      BY <1>14, <2>1, <3>1, <3>3, NothingAdded
  <2> QED
    BY <2>2, <2>3
<1>16. g[new] = f[s]
  BY <1>6, <1>8
<1>17. Balance(cash, g, lost', realized, divs, paid)
  <2>1. PICK l2 \in Frac : l2 = lost' /\ Same(l2, Add(lost, f[new]))
    BY <1>15
  <2>2. s # new
    BY <1>2
  <2>3. PICK c, l, r, d, p \in Frac : c = cash /\ l = lost /\ r = realized /\ d = divs /\ p = paid
    BY <1>14
  <2>4. Balance(c, f, l, r, d, p) /\ Same(l2, Add(l, f[new]))
    BY <1>14, <2>1, <2>3
  <2>5. Balance(c, g, l2, r, d, p)
    BY <1>7, <1>12, <1>13, <1>16, <2>2, <2>4, RenameBalances
  <2> QED
    BY <2>1, <2>3, <2>5
<1>18. Balance(cash', CostsOf(pos'), lost', realized', divs', paid')
  BY <1>2, <1>4, <1>17
<1>19. charged'.fees \in Int /\ charged'.other \in Int /\ NotBelow(cash', Whole(0)) /\ Same(paid', Whole(charged'.fees))
  BY <1>2 DEF LedgerInv
<1> QED
  BY <1>2, <1>6, <1>14, <1>15, <1>18, <1>19, LedgerNext

\* Every entry of the books keeps the invariant.
LEMMA BooksKeep ==
  ASSUME LedgerInv, BooksNext
  PROVE  LedgerInv'
<1>0. Fee \in Int /\ \A p \in Quotes : p \in Int
  BY BooksAssumption
<1>1. CASE Trade
  <2>1. PICK s \in Symbols, price \in Quotes :
          \/ \E n \in 1..2 : Fill(s, Whole(n), price)
          \/ s \in DOMAIN pos /\ \E part \in {1, 2} : Fill(s, Neg(Div(Held(s), Whole(part))), price)
    BY <1>1 DEF Trade
  <2>2. ASSUME NEW q \in Frac, Fill(s, q, price) PROVE LedgerInv'
    <3>1. /\ RecordFill(s, q, Whole(price), Whole(Fee)) /\ UNCHANGED <<divs, lost>>
          /\ charged' = [fees |-> charged.fees + Fee, other |-> charged.other]
      BY <2>2 DEF Fill
    <3>2. charged'.fees = charged.fees + Fee /\ charged'.other = charged.other
      BY <3>1
    <3> QED
      BY <1>0, <3>1, <3>2, FillKeeps
  <2>3. ASSUME NEW n \in 1..2 PROVE Whole(n) \in Frac
    BY ValWhole
  <2>4. ASSUME s \in DOMAIN pos, NEW part \in {1, 2} PROVE Neg(Div(Held(s), Whole(part))) \in Frac
    <3>1. Held(s) \in Frac
      BY <2>4 DEF LedgerInv, LotsOk, Held, Lot
    <3>2. Whole(part) \in Frac /\ Whole(part)[1] > 0
      BY ValWhole DEF Whole
    <3> QED
      BY <3>1, <3>2, FracOps
  <2> QED
    BY <2>1, <2>2, <2>3, <2>4
<1>2. CASE RecordCost
  <2>1. /\ cash' = cash /\ pos' = pos /\ realized' = realized /\ paid' = paid /\ divs' = divs /\ lost' = lost
        /\ charged' = [fees |-> charged.fees, other |-> charged.other + 1]
    BY <1>2 DEF RecordCost
  <2>2. charged'.fees = charged.fees /\ charged'.other = charged.other + 1
    BY <2>1
  <2>3. LotsOk(pos') /\ Balance(cash', CostsOf(pos'), lost', realized', divs', paid')
    BY <2>1 DEF LedgerInv
  <2> QED
    BY <2>1, <2>2, <2>3, LedgerNext DEF LedgerInv
<1>3. CASE \E s \in Symbols, r \in Ratios : Split(s, r)
  BY <1>3, SplitKeeps
<1>4. CASE \E s \in Symbols : Dividend(s)
  BY <1>4, DividendKeeps
<1>5. CASE \E s \in Symbols, p \in Quotes : CashOut(s, p)
  <2>1. PICK s \in Symbols, p \in Quotes : CashOut(s, p)
    BY <1>5
  <2>2. s \in DOMAIN pos /\ RecordFill(s, Neg(Held(s)), Whole(p), Whole(0)) /\ charged' = charged
        /\ UNCHANGED <<divs, lost>>
    BY <2>1 DEF CashOut
  <2>3. Held(s) \in Frac
    BY <2>2 DEF LedgerInv, LotsOk, Held, Lot
  <2>4. Neg(Held(s)) \in Frac
    BY <2>3, FracOps
  <2>5. charged'.fees = charged.fees + 0 /\ charged'.other = charged.other
    BY <2>2 DEF LedgerInv
  <2> QED
    BY <1>0, <2>2, <2>4, <2>5, FillKeeps
<1>6. CASE \E s, new \in Symbols : SymbolChange(s, new)
  BY <1>6, RenameKeeps
<1> QED
  BY <1>1, <1>2, <1>3, <1>4, <1>5, <1>6 DEF BooksNext

\* The books open balanced.
LEMMA BooksOpen == BInit => LedgerInv
<1> SUFFICES ASSUME BInit PROVE LedgerInv
  OBVIOUS
<1>0. NSymbols \in Nat /\ Initial \in Int /\ Initial >= 0 /\ Whole(0) \in Frac /\ Whole(Initial) \in Frac
  BY BooksAssumption, ValWhole
<1>1. cash = Whole(Initial) /\ pos = [s \in {} |-> 0] /\ realized = Whole(0) /\ paid = Whole(0)
      /\ charged = [fees |-> 0, other |-> 0] /\ divs = Whole(0) /\ lost = Whole(0)
  BY DEF BInit
<1>2. charged.fees = 0 /\ charged.other = 0
  BY <1>1
<1>3. LotsOk(pos)
  BY <1>1 DEF LotsOk
<1>4. PICK f : f = CostsOf(pos)
  OBVIOUS
<1>5. \A s \in Symbols : LotIn(pos, s) = NoLot
  BY <1>1 DEF LotIn
<1>6. NoLot.qty = Whole(0) /\ NoLot.avg = Whole(0)
  BY DEF NoLot
<1>7. \A s \in Symbols : f[s] = Mul(Whole(0), Whole(0))
  BY <1>4, <1>5, <1>6 DEF CostsOf
<1>8. Val(Whole(0), 0, 1)
  BY ValWhole
<1>9. Val(Mul(Whole(0), Whole(0)), 0, 1)
  <2>1. Val(Mul(Whole(0), Whole(0)), 0 * 0, 1 * 1)
    BY <1>8, ValMul
  <2> QED
    BY <2>1
<1> DEFINE F == [k \in 1..NSymbols |-> 0]
<1>10. ValsTo(f, F, NSymbols, 1)
  BY <1>7, <1>9 DEF ValsTo, Symbols
<1>11. SumTo(F, NSymbols) = 0
  <2>1. \A k \in 1..NSymbols : F[k] = 0
    OBVIOUS
  <2> HIDE DEF F
  <2> QED
    BY <1>0, <2>1, SumNone
<1>12. Val(Whole(Initial), Initial, 1) /\ 1 \in Pos
  BY <1>0, ValWhole DEF Pos
<1>13. ValsOf(cash, lost, realized, divs, paid, Initial, 0, 0, 0, 0, 1)
  BY <1>1, <1>8, <1>12 DEF ValsOf
<1> HIDE DEF F
<1>14. Initial + SumTo(F, NSymbols) + 0 = Initial * 1 + 0 + 0 - 0
  BY <1>0, <1>11
<1>15. Balance(cash, f, lost, realized, divs, paid)
  BY <1>10, <1>12, <1>13, <1>14, BalanceVal
<1>16. NotBelow(cash, Whole(0))
  <2>1. Whole(Initial)[1] = Initial
    BY DEF Whole
  <2> QED
    BY <1>0, <1>1, <2>1, NotNegative
<1>17. Same(paid, Whole(charged.fees))
  BY <1>1, <1>2 DEF Same
<1> QED
  BY <1>0, <1>1, <1>2, <1>3, <1>4, <1>15, <1>16, <1>17 DEF LedgerInv

\* Equal fractions have the same values.
LEMMA ValOfSame ==
  ASSUME NEW a \in Frac, NEW b, NEW B, NEW D, Val(b, B, D), Same(a, b)
  PROVE  Val(a, B, D)
<1>1. b[1] \in Int /\ b[2] \in Pos /\ B \in Int /\ D \in Pos /\ b[1] * D = B * b[2]
  BY FracIs DEF Val
<1>2. Val(a, b[1], b[2])
  BY <1>1 DEF Val, Same
<1> QED
  BY <1>1, <1>2, Revalue

\* The invariant is the accounting identity, and the result follows from it.
LEMMA LedgerGives == LedgerInv => BooksBalance /\ NetCountsOnce
<1> SUFFICES ASSUME LedgerInv PROVE BooksBalance /\ NetCountsOnce
  OBVIOUS
<1>0. NSymbols \in Nat /\ Initial \in Int /\ \A m \in Quotes : m \in Int
  BY BooksAssumption
<1>1. Costs = CostsOf(pos)
  BY DEF Costs, CostsOf, Lot, LotIn
<1>2. /\ cash \in Frac /\ realized \in Frac /\ paid \in Frac /\ divs \in Frac /\ lost \in Frac
      /\ charged.other \in Int /\ LotsOk(pos) /\ NotBelow(cash, Whole(0))
      /\ Balance(cash, CostsOf(pos), lost, realized, divs, paid) /\ Same(paid, Whole(charged.fees))
  BY DEF LedgerInv
<1>3. BooksBalance
  BY <1>1, <1>2 DEF BooksBalance, Balance
<1>4. PICK f : f = CostsOf(pos)
  OBVIOUS
<1>5. FracsTo(f, NSymbols)
  BY <1>2, <1>4, LotType
<1>6. ASSUME NEW mark \in Quotes
      PROVE  Same(ProjectNet(Add(cash, AddTo(Values(Whole(mark)), NSymbols)), charged),
                  Add(Add(Add(AddTo(Gains(Whole(mark)), NSymbols), realized), Add(divs, Neg(lost))),
                      Neg(Add(paid, Whole(charged.other)))))
  <2>1. PICK w \in Frac : w = Whole(mark)
    BY <1>0, ValWhole
  <2>2. PICK v, g : v = Values(w) /\ g = Gains(w)
    OBVIOUS
  <2>3. \A s \in Symbols : Lot(s) = LotIn(pos, s)
    BY DEF Lot, LotIn
  <2>4. \A s \in Symbols : Lot(s).qty \in Frac /\ Lot(s).avg \in Frac /\ f[s] = Mul(Lot(s).qty, Lot(s).avg)
    BY <1>2, <1>4, <2>3, LotType
  <2>5. \A s \in Symbols : v[s] = Mul(Lot(s).qty, w) /\ g[s] = Mul(Lot(s).qty, Add(w, Neg(Lot(s).avg)))
    BY <2>2 DEF Values, Gains
  <2>6. ASSUME NEW s \in Symbols
        PROVE  v[s] \in Frac /\ g[s] \in Frac /\ Same(g[s], Add(v[s], Neg(f[s])))
    <3>1. PICK q, a \in Frac : q = Lot(s).qty /\ a = Lot(s).avg
      BY <2>4
    <3>2. v[s] = Mul(q, w) /\ g[s] = Mul(q, Add(w, Neg(a))) /\ f[s] = Mul(q, a)
      BY <2>4, <2>5, <3>1
    <3>3. v[s] \in Frac /\ g[s] \in Frac
      BY <3>2, FracOps
    <3> QED
      BY <3>2, <3>3, GainIs
  <2>7. FracsTo(v, NSymbols)
    BY <2>6 DEF FracsTo, Symbols
  <2> DEFINE x == <<cash, lost, realized, divs, paid>>
  <2>8. FracsTo(x, 5)
    BY <1>2 DEF FracsTo
  <2>9. PICK D \in Pos : (\E X : ValsTo(x, X, 5, D)) /\ (\E F : ValsTo(f, F, NSymbols, D))
                         /\ (\E V : ValsTo(v, V, NSymbols, D))
    <3> HIDE DEF x
    <3> QED
      BY <1>0, <1>5, <2>7, <2>8, CommonThree
  <2>10. PICK X : ValsTo(x, X, 5, D)
    BY <2>9
  <2>11. PICK F : ValsTo(f, F, NSymbols, D)
    BY <2>9
  <2>12. PICK V : ValsTo(v, V, NSymbols, D)
    BY <2>9
  <2>13. /\ Val(cash, X[1], D) /\ Val(lost, X[2], D) /\ Val(realized, X[3], D) /\ Val(divs, X[4], D)
         /\ Val(paid, X[5], D)
    BY <2>10 DEF ValsTo
  <2> HIDE DEF x
  <2>14. PICK c, l, r, d, p \in Int : c = X[1] /\ l = X[2] /\ r = X[3] /\ d = X[4] /\ p = X[5]
    BY <2>13 DEF Val
  <2> DEFINE G == [k \in 1..NSymbols |-> V[k] + (-F[k])]
  <2>15. ValsTo(g, G, NSymbols, D) /\ \A k \in 1..NSymbols : V[k] = G[k] + F[k]
    <3> SUFFICES ASSUME NEW k \in 1..NSymbols PROVE Val(g[k], G[k], D) /\ V[k] = G[k] + F[k]
      BY DEF ValsTo
    <3>1. Val(v[k], V[k], D) /\ Val(f[k], F[k], D) /\ V[k] \in Int /\ F[k] \in Int
      BY <2>11, <2>12 DEF ValsTo, Val
    <3>2. Val(Add(v[k], Neg(f[k])), V[k] + (-F[k]), D)
      BY <3>1, ValAdd, ValNeg
    <3>3. g[k] \in Frac /\ Same(g[k], Add(v[k], Neg(f[k])))
      BY <2>6 DEF Symbols
    <3>4. Val(g[k], V[k] + (-F[k]), D)
      BY <3>2, <3>3, ValOfSame
    <3>5. G[k] = V[k] + (-F[k])
      OBVIOUS
    <3> QED
      BY <3>1, <3>4, <3>5
  <2> HIDE DEF G
  <2>16. IntsTo(F, NSymbols) /\ IntsTo(G, NSymbols)
    BY <1>0, <2>11, <2>15, ValsAreInts
  <2>17. SumTo(V, NSymbols) = SumTo(G, NSymbols) + SumTo(F, NSymbols)
    BY <1>0, <2>15, <2>16, SumAdds
  <2>18. PICK S, T, U \in Int : S = SumTo(F, NSymbols) /\ T = SumTo(G, NSymbols) /\ U = S + T
    BY <1>0, <2>16, SumIs
  <2>19. PICK i, o \in Int : i = Initial * D /\ o = charged.other * D
    BY <1>0, <1>2 DEF Pos
  <2>20. c + S + l = i + r + d - p
    <3>1. ValsOf(cash, lost, realized, divs, paid, c, l, r, d, p, D)
      BY <2>13, <2>14 DEF ValsOf
    <3>2. Balance(cash, f, lost, realized, divs, paid)
      BY <1>2, <1>4
    <3> QED
      BY <2>11, <2>18, <2>19, <3>1, <3>2, BalanceVal
  <2>21. PICK value, open : value = AddTo(v, NSymbols) /\ open = AddTo(g, NSymbols)
    OBVIOUS
  <2>22. Val(value, U, D) /\ Val(open, T, D)
    <3>1. U = SumTo(V, NSymbols)
      BY <2>17, <2>18
    <3> QED
      BY <1>0, <2>12, <2>15, <2>18, <2>21, <3>1, AddToVal
  <2>23. Val(Whole(Initial), i, D) /\ Val(Whole(charged.other), o, D)
    BY <1>0, <1>2, <2>19, WholeOver
  <2>24. Val(Add(Add(Add(cash, value), Neg(Whole(Initial))), Neg(Whole(charged.other))),
             ((c + U) + (-i)) + (-o), D)
    BY <2>13, <2>14, <2>22, <2>23, ValAdd, ValNeg
  <2>25. Val(Add(Add(open, realized), Add(divs, Neg(lost))), (T + r) + (d + (-l)), D)
    BY <2>13, <2>14, <2>22, ValAdd, ValNeg
  <2>26. Val(Neg(Add(paid, Whole(charged.other))), -(p + o), D)
    BY <2>13, <2>14, <2>23, ValAdd, ValNeg
  <2>27. Val(Add(Add(Add(open, realized), Add(divs, Neg(lost))), Neg(Add(paid, Whole(charged.other)))),
             ((T + r) + (d + (-l))) + (-(p + o)), D)
    BY <2>25, <2>26, ValAdd
  <2>28. ((c + U) + (-i)) + (-o) = ((T + r) + (d + (-l))) + (-(p + o))
    BY <2>18, <2>20
  <2>29. ProjectNet(Add(cash, value), charged) = Add(Add(Add(cash, value), Neg(Whole(Initial))), Neg(Whole(charged.other)))
    BY DEF ProjectNet, OperatingCosts
  <2>30. Same(ProjectNet(Add(cash, value), charged),
              Add(Add(Add(open, realized), Add(divs, Neg(lost))), Neg(Add(paid, Whole(charged.other)))))
    BY <2>24, <2>27, <2>28, <2>29, ValSame
  <2> QED
    BY <2>1, <2>2, <2>21, <2>30
<1>7. NetCountsOnce
  BY <1>2, <1>6 DEF NetCountsOnce
<1> QED
  BY <1>3, <1>7

\* Entries of nothing at the end add nothing.
LEMMA SumTail ==
  ASSUME NEW n \in Nat, NEW m \in 0..n, NEW f, IntsTo(f, n), \A k \in 1..n : k > m => f[k] = 0
  PROVE  SumTo(f, n) = SumTo(f, m)
<1> DEFINE F(k) == SumTo(f, k)
           S == {k \in 0..n - m : F(m + k) = F(m)}
<1>1. (\A k \in 0..n : F(k) \in Int) /\ \A k \in 1..n : F(k) = F(k - 1) + f[k]
  BY SumIs
<1> HIDE DEF F
<1>2. 0 \in S
  BY <1>1
<1>3. ASSUME NEW i \in 0..n - m - 1, i \in S PROVE i + 1 \in S
  <2>1. m + (i + 1) \in 1..n /\ m + (i + 1) - 1 = m + i /\ m + (i + 1) > m /\ m + i \in 0..n
    OBVIOUS
  <2>2. F(m + (i + 1)) = F(m + i) + f[m + (i + 1)] /\ f[m + (i + 1)] = 0 /\ F(m + i) \in Int
    BY <1>1, <2>1
  <2>3. F(m + (i + 1)) = F(m + i)
    BY <2>2
  <2> QED
    BY <1>3, <2>3
<1>4. n - m \in Nat
  OBVIOUS
<1> HIDE DEF S
<1>5. \A i \in 0..n - m : i \in S
  BY <1>2, <1>3, <1>4, CountUp
<1>6. n - m \in S /\ m + (n - m) = n
  BY <1>5
<1>7. F(n) = F(m)
  BY <1>6 DEF S
<1> QED
  BY <1>7 DEF F

-----------------------------------------------------------------------------
(* Settlement.                                                             *)

\* Money is conserved, and what was sold today is pending for tomorrow.
SettlementInv ==
  /\ day \in 1..MaxDay /\ settled \in Nat /\ spent \in Nat
  /\ pending \in [1..MaxDay + 1 -> Nat] /\ sold \in [1..MaxDay -> Nat]
  /\ settled + SumTo(pending, MaxDay + 1) = Initial + SumTo(sold, MaxDay) - spent
  /\ pending[day + 1] = sold[day]
  /\ \A d \in 1..MaxDay + 1 : d > day + 1 => pending[d] = 0
  /\ \A d \in 1..MaxDay : d > day => sold[d] = 0

LEMMA SettlementOpens == BInit => SettlementInv
<1> SUFFICES ASSUME BInit PROVE SettlementInv
  OBVIOUS
<1>0. MaxDay \in Nat /\ MaxDay >= 1 /\ Initial \in Nat /\ MaxDay + 1 \in Nat
  BY BooksAssumption
<1>1. day = 1 /\ settled = Initial /\ spent = 0
      /\ pending = [d \in 1..MaxDay + 1 |-> 0] /\ sold = [d \in 1..MaxDay |-> 0]
  BY DEF BInit
<1>2. (\A d \in 1..MaxDay + 1 : pending[d] = 0) /\ (\A d \in 1..MaxDay : sold[d] = 0)
  BY <1>1
<1>3. SumTo(pending, MaxDay + 1) = 0 /\ SumTo(sold, MaxDay) = 0
  BY <1>0, <1>2, SumNone
<1>4. pending \in [1..MaxDay + 1 -> Nat] /\ sold \in [1..MaxDay -> Nat]
  BY <1>1
<1>5. 1 \in 1..MaxDay /\ day + 1 \in 1..MaxDay + 1 /\ day \in 1..MaxDay
  BY <1>0, <1>1
<1>6. pending[day + 1] = 0 /\ sold[day] = 0
  BY <1>2, <1>5
<1> QED
  BY <1>0, <1>1, <1>2, <1>3, <1>4, <1>5, <1>6 DEF SettlementInv

\* The sums of the two histories.
LEMMA SumsTyped ==
  ASSUME SettlementInv
  PROVE  /\ IntsTo(pending, MaxDay + 1) /\ IntsTo(sold, MaxDay)
         /\ SumTo(pending, MaxDay + 1) \in Nat /\ SumTo(sold, MaxDay) \in Nat
         /\ \A d \in 1..MaxDay + 1 : pending[d] <= SumTo(pending, MaxDay + 1)
<1>0. MaxDay \in Nat /\ MaxDay + 1 \in Nat
  BY BooksAssumption
<1>1. (\A d \in 1..MaxDay + 1 : pending[d] \in Nat) /\ \A d \in 1..MaxDay : sold[d] \in Nat
  BY DEF SettlementInv
<1> QED
  BY <1>0, <1>1, SumNatural DEF IntsTo

LEMMA SettlementKeeps ==
  ASSUME SettlementInv, BooksNext \/ SettlementNext \/ PitNext
  PROVE  SettlementInv'
<1>0. MaxDay \in Nat /\ MaxDay + 1 \in Nat /\ Initial \in Int
  BY BooksAssumption
<1>1. /\ IntsTo(pending, MaxDay + 1) /\ IntsTo(sold, MaxDay)
      /\ SumTo(pending, MaxDay + 1) \in Nat /\ SumTo(sold, MaxDay) \in Nat
      /\ \A d \in 1..MaxDay + 1 : pending[d] <= SumTo(pending, MaxDay + 1)
  BY SumsTyped
<1>sums. PICK P, Q \in Int : P = SumTo(pending, MaxDay + 1) /\ Q = SumTo(sold, MaxDay)
  BY <1>1
<1>whole. settled \in Nat /\ spent \in Nat /\ settled + P = Initial + Q - spent
  BY <1>sums DEF SettlementInv
<1>2. ASSUME UNCHANGED <<settlement, day>> PROVE SettlementInv'
  BY <1>2 DEF SettlementInv, settlement
<1>3. CASE BooksNext
  BY <1>2, <1>3 DEF BooksNext, Trade, RecordCost, Split, Dividend, CashOut, SymbolChange, Book
<1>4. CASE \E event \in 0..day, v \in 0..1 : PutRecord(event, day, v)
  BY <1>2, <1>4 DEF PutRecord
<1>5. CASE NextDay /\ UNCHANGED <<ledger, settlement, records>>
  <2>1. day < MaxDay /\ day' = day + 1 /\ settled' = settled /\ pending' = pending /\ sold' = sold /\ spent' = spent
    BY <1>5 DEF NextDay, settlement
  <2>2. day' \in 1..MaxDay /\ day' + 1 \in 1..MaxDay + 1 /\ day' + 1 > day + 1 /\ day' > day
    BY <1>0, <2>1 DEF SettlementInv
  <2>3. pending[day' + 1] = 0 /\ sold[day'] = 0
    BY <2>2 DEF SettlementInv
  <2>4. \A d \in 1..MaxDay + 1 : d > day' + 1 => d > day + 1
    BY <1>0, <2>1 DEF SettlementInv
  <2>5. \A d \in 1..MaxDay : d > day' => d > day
    BY <1>0, <2>1 DEF SettlementInv
  <2> QED
    BY <2>1, <2>2, <2>3, <2>4, <2>5 DEF SettlementInv
<1>6. ASSUME NEW n \in 1..2, OnBuy(n) PROVE SettlementInv'
  <2>1. n <= settled /\ settled' = settled - n /\ spent' = spent + n
        /\ pending' = pending /\ sold' = sold /\ day' = day
    BY <1>6 DEF OnBuy
  <2>2. settled' \in Nat /\ spent' \in Nat
    BY <2>1 DEF SettlementInv
  <2>3. settled' + SumTo(pending, MaxDay + 1) = Initial + SumTo(sold, MaxDay) - spent'
    <3>1. settled' + P = Initial + Q - spent'
      BY <1>0, <1>whole, <2>1
    <3> QED
      BY <1>sums, <3>1
  <2> QED
    BY <2>1, <2>2, <2>3 DEF SettlementInv
<1>7. ASSUME NEW n \in 1..2, OnSell(n) PROVE SettlementInv'
  <2>1. /\ pending' = [pending EXCEPT ![day + 1] = @ + n] /\ sold' = [sold EXCEPT ![day] = @ + n]
        /\ settled' = settled /\ spent' = spent /\ day' = day
    BY <1>7 DEF OnSell
  <2>2. day \in 1..MaxDay /\ day + 1 \in 1..MaxDay + 1
    BY <1>0 DEF SettlementInv
  <2>3. pending' \in [1..MaxDay + 1 -> Nat] /\ sold' \in [1..MaxDay -> Nat]
    BY <2>1, <2>2 DEF SettlementInv
  <2>4. /\ pending'[day + 1] = pending[day + 1] + n /\ sold'[day] = sold[day] + n
        /\ DifferAt(pending, pending', MaxDay + 1, day + 1) /\ DifferAt(sold, sold', MaxDay, day)
    BY <2>1, <2>2 DEF SettlementInv, DifferAt
  <2>5. IntsTo(pending', MaxDay + 1) /\ IntsTo(sold', MaxDay)
    BY <2>3 DEF IntsTo
  <2>6. PICK p, s \in Int : p = pending[day + 1] /\ s = sold[day]
    BY <2>2 DEF SettlementInv
  <2>7. SumTo(pending', MaxDay + 1) = SumTo(pending, MaxDay + 1) - p + (p + n)
    BY <1>0, <1>1, <2>2, <2>4, <2>5, <2>6, SumChanged
  <2>8. SumTo(sold', MaxDay) = SumTo(sold, MaxDay) - s + (s + n)
    BY <1>0, <1>1, <2>2, <2>4, <2>5, <2>6, SumChanged
  <2>9. settled + SumTo(pending', MaxDay + 1) = Initial + SumTo(sold', MaxDay) - spent
    <3>1. settled + (P - p + (p + n)) = Initial + (Q - s + (s + n)) - spent
      BY <1>0, <1>whole
    <3> QED
      BY <1>sums, <2>7, <2>8, <3>1
  <2>10. \A d \in 1..MaxDay + 1 : d > day + 1 => pending'[d] = 0
    BY <2>2, <2>4 DEF SettlementInv, DifferAt
  <2>11. \A d \in 1..MaxDay : d > day => sold'[d] = 0
    BY <2>2, <2>4 DEF SettlementInv, DifferAt
  <2>12. pending'[day + 1] = sold'[day]
    BY <2>4 DEF SettlementInv
  <2> QED
    BY <2>1, <2>3, <2>9, <2>10, <2>11, <2>12 DEF SettlementInv
<1>8. ASSUME ProcessSettlements PROVE SettlementInv'
  <2>1. PICK due : due = {d \in DOMAIN pending : Due(d)}
    OBVIOUS
  <2>2. PICK a, b : a = Amounts(due) /\ b = Amounts(DOMAIN pending \ due)
    OBVIOUS
  <2>3. settled' = settled + SumTo(a, MaxDay + 1) /\ pending' = b /\ sold' = sold /\ spent' = spent /\ day' = day
    BY <1>8, <2>1, <2>2 DEF ProcessSettlements
  <2>4. DOMAIN pending = 1..MaxDay + 1 /\ \A d \in 1..MaxDay + 1 : pending[d] \in Nat
    BY DEF SettlementInv
  <2>5. \A d \in 1..MaxDay + 1 : /\ a[d] = IF d <= day THEN pending[d] ELSE 0
                                 /\ b[d] = IF d <= day THEN 0 ELSE pending[d]
    BY <2>1, <2>2, <2>4 DEF Amounts, Due
  <2>6. b \in [1..MaxDay + 1 -> Nat] /\ \A d \in 1..MaxDay + 1 : a[d] \in Nat
    BY <2>2, <2>4, <2>5 DEF Amounts
  <2>7. \A d \in 1..MaxDay + 1 : pending[d] = a[d] + b[d]
    BY <2>4, <2>5
  <2>8. IntsTo(a, MaxDay + 1) /\ IntsTo(b, MaxDay + 1)
    BY <2>6 DEF IntsTo
  <2>9. SumTo(pending, MaxDay + 1) = SumTo(a, MaxDay + 1) + SumTo(b, MaxDay + 1)
    BY <1>0, <2>7, <2>8, SumAdds
  <2>10. SumTo(a, MaxDay + 1) \in Nat /\ SumTo(b, MaxDay + 1) \in Int
    BY <1>0, <2>6, <2>8, SumNatural, SumIs
  <2>11. settled' \in Nat /\ settled' + SumTo(b, MaxDay + 1) = Initial + SumTo(sold, MaxDay) - spent
    <3>1. PICK A, B \in Int : A = SumTo(a, MaxDay + 1) /\ B = SumTo(b, MaxDay + 1) /\ A >= 0
      BY <2>10
    <3>2. P = A + B /\ settled' = settled + A
      BY <1>sums, <2>3, <2>9, <3>1
    <3>3. settled' \in Nat /\ settled' + B = Initial + Q - spent
      BY <1>0, <1>whole, <3>1, <3>2
    <3> QED
      BY <1>sums, <3>1, <3>3
  <2>12. day + 1 \in 1..MaxDay + 1 /\ ~(day + 1 <= day)
    BY <1>0 DEF SettlementInv
  <2>13. b[day + 1] = sold[day]
    BY <2>5, <2>12 DEF SettlementInv
  <2>14. \A d \in 1..MaxDay + 1 : d > day + 1 => b[d] = 0
    <3> SUFFICES ASSUME NEW d \in 1..MaxDay + 1, d > day + 1 PROVE b[d] = 0
      OBVIOUS
    <3>1. ~(d <= day) /\ pending[d] = 0
      BY DEF SettlementInv
    <3> QED
      BY <2>5, <3>1
  <2> QED
    BY <2>3, <2>6, <2>11, <2>13, <2>14 DEF SettlementInv
<1> QED
  BY <1>3, <1>4, <1>5, <1>6, <1>7, <1>8 DEF SettlementNext, PitNext

\* No sale of the last day is spendable.
LEMMA SettlementGives == SettlementInv => SettledIsOldMoney
<1> SUFFICES ASSUME SettlementInv PROVE SettledIsOldMoney
  OBVIOUS
<1>0. MaxDay \in Nat /\ MaxDay + 1 \in Nat /\ Initial \in Int
  BY BooksAssumption
<1>1. /\ IntsTo(pending, MaxDay + 1) /\ IntsTo(sold, MaxDay)
      /\ SumTo(pending, MaxDay + 1) \in Nat /\ SumTo(sold, MaxDay) \in Nat
      /\ \A d \in 1..MaxDay + 1 : pending[d] <= SumTo(pending, MaxDay + 1)
  BY SumsTyped
<1>2. /\ day \in 1..MaxDay /\ settled \in Nat /\ spent \in Nat /\ pending[day + 1] = sold[day]
      /\ settled + SumTo(pending, MaxDay + 1) = Initial + SumTo(sold, MaxDay) - spent
      /\ \A d \in 1..MaxDay : d > day => sold[d] = 0
  BY DEF SettlementInv
<1>3. day + 1 \in 1..MaxDay + 1 /\ day \in 0..MaxDay /\ day - 1 \in 0..MaxDay
  BY <1>0, <1>2
<1>4. SumTo(sold, MaxDay) = SumTo(sold, day)
  BY <1>0, <1>1, <1>2, <1>3, SumTail
<1>5. SumTo(sold, day) = SumTo(sold, day - 1) + sold[day] /\ SumTo(sold, day - 1) \in Int
  BY <1>0, <1>1, <1>2, <1>3, SumIs
<1>6. PICK x \in Int : x = sold[day]
  BY <1>1, <1>2 DEF IntsTo
<1>7. x <= SumTo(pending, MaxDay + 1)
  BY <1>1, <1>2, <1>3, <1>6
<1>8. settled <= Initial + SumTo(sold, day - 1) - spent
  BY <1>0, <1>1, <1>2, <1>4, <1>5, <1>6, <1>7
<1>9. Initial + SumTo(sold, day - 1) - spent \in Int
  BY <1>0, <1>2, <1>5
<1>10. settled \in 0..(Initial + SumTo(sold, day - 1) - spent)
  BY <1>2, <1>8, <1>9
<1> QED
  BY <1>2, <1>10 DEF SettledIsOldMoney

-----------------------------------------------------------------------------
\* Keeping books makes no money and loses none but the cost of a lot that a renaming
\* overwrites, at any time and for any deposit, prices, fees, ratios and number of symbols:
\* in the ledger (Ledger.record_fill, CorporateActionEngine.apply), in the project's result
\* (two_pnl) and in settlement (SettlementManager).
THEOREM MoneyAlwaysAddsUp == BooksSpec => []MoneyAddsUp
<1>1. BInit => LedgerInv /\ SettlementInv
  BY BooksOpen, SettlementOpens
<1>2. LedgerInv /\ SettlementInv /\ [BooksNext \/ SettlementNext \/ PitNext]_bvars
        => (LedgerInv /\ SettlementInv)'
  <2> SUFFICES ASSUME LedgerInv, SettlementInv, [BooksNext \/ SettlementNext \/ PitNext]_bvars
               PROVE  LedgerInv' /\ SettlementInv'
    OBVIOUS
  <2>1. ASSUME UNCHANGED ledger PROVE LedgerInv'
    <3>1. /\ cash' = cash /\ pos' = pos /\ realized' = realized /\ paid' = paid /\ divs' = divs /\ lost' = lost
          /\ charged' = charged
      BY <2>1 DEF ledger
    <3>2. LotsOk(pos') /\ Balance(cash', CostsOf(pos'), lost', realized', divs', paid')
      BY <3>1 DEF LedgerInv
    <3> QED
      BY <3>1, <3>2, LedgerNext DEF LedgerInv
  <2>2. CASE BooksNext
    BY <2>2, BooksKeep, SettlementKeeps
  <2>3. CASE SettlementNext \/ PitNext
    <3>1. UNCHANGED ledger
      BY <2>3 DEF SettlementNext, PitNext, OnBuy, OnSell, ProcessSettlements, PutRecord
    <3> QED
      BY <2>1, <2>3, <3>1, SettlementKeeps
  <2>4. CASE UNCHANGED bvars
    <3>1. UNCHANGED ledger /\ UNCHANGED settlement /\ UNCHANGED day
      BY <2>4 DEF bvars
    <3>2. SettlementInv'
      BY <3>1 DEF SettlementInv, settlement
    <3> QED
      BY <2>1, <3>1, <3>2
  <2> QED
    BY <2>2, <2>3, <2>4
<1>3. LedgerInv /\ SettlementInv => MoneyAddsUp
  BY LedgerGives, SettlementGives DEF MoneyAddsUp
<1> QED
  BY <1>1, <1>2, <1>3, PTL DEF BooksSpec

(* The point-in-time store.                                                *)

\* Nothing is kept that was received later than now.
Records == [event : Int, received : Int, value : Int]
StoreInv ==
  /\ day \in Int /\ records \in Seq(Records)
  /\ \A k \in 1..Len(records) : records[k].received <= day

\* A record received now goes to the end.
LEMMA PutAppends ==
  ASSUME StoreInv, NEW event \in Int, NEW v \in Int, PutRecord(event, day, v)
  PROVE  /\ records' = Append(records, [event |-> event, received |-> day, value |-> v])
         /\ UNCHANGED <<ledger, settlement, day>>
<1>1. PICK rec \in Records : rec = [event |-> event, received |-> day, value |-> v]
  BY DEF StoreInv, Records
<1>2. PICK n \in Nat : n = Len(records)
  BY DEF StoreInv
<1>3. records \in Seq(Records) /\ DOMAIN records = 1..n
  BY <1>2 DEF StoreInv
<1>4. {0} \cup {k \in DOMAIN records : records[k].received <= day} = 0..n
  BY <1>2, <1>3 DEF StoreInv
<1>5. Max(0..n) = n
  BY DEF Max
<1>6. records' = [k \in 1..n + 1 |-> IF k < 1 + n THEN records[k] ELSE IF k = 1 + n THEN rec ELSE records[k - 1]]
      /\ UNCHANGED <<ledger, settlement, day>>
  BY <1>1, <1>2, <1>4, <1>5 DEF PutRecord
<1>7. PICK a : a = Append(records, rec)
  OBVIOUS
<1>8. a \in Seq(Records) /\ Len(a) = n + 1 /\ a[n + 1] = rec /\ \A k \in 1..n : a[k] = records[k]
  BY <1>2, <1>3, <1>7
<1>9. a = [k \in 1..n + 1 |-> a[k]]
  BY <1>8
<1>10. \A k \in 1..n + 1 : a[k] = IF k < 1 + n THEN records[k] ELSE IF k = 1 + n THEN rec ELSE records[k - 1]
  BY <1>2, <1>8
<1>11. records' = a
  BY <1>6, <1>9, <1>10
<1> QED
  BY <1>1, <1>6, <1>7, <1>11

LEMMA StoreKeeps ==
  ASSUME StoreInv, [BooksNext \/ SettlementNext \/ PitNext]_bvars
  PROVE  StoreInv' /\ \A t \in 0..(day - 1) : GetAsOf(records', t) = GetAsOf(records, t)
<1>0. day \in Int /\ records \in Seq(Records) /\ \A k \in 1..Len(records) : records[k].received <= day
  BY DEF StoreInv
<1>1. ASSUME records' = records, day' = day \/ day' = day + 1
      PROVE  StoreInv' /\ \A t \in 0..(day - 1) : GetAsOf(records', t) = GetAsOf(records, t)
  <2>1. day' \in Int /\ day' >= day
    BY <1>0, <1>1
  <2>2. \A k \in 1..Len(records) : records[k].received \in Int
    <3>1. \A k \in 1..Len(records) : records[k] \in Records
      BY <1>0
    <3> QED
      BY <3>1 DEF Records
  <2>3. \A k \in 1..Len(records') : records'[k].received <= day'
    BY <1>0, <1>1, <2>1, <2>2
  <2> QED
    BY <1>0, <1>1, <2>1, <2>3 DEF StoreInv
<1>2. ASSUME NEW event \in 0..day, NEW v \in 0..1, PutRecord(event, day, v)
      PROVE  StoreInv' /\ \A t \in 0..(day - 1) : GetAsOf(records', t) = GetAsOf(records, t)
  <2>1. PICK rec : rec = [event |-> event, received |-> day, value |-> v]
    OBVIOUS
  <2>2. event \in Int /\ v \in Int
    BY <1>0
  <2>3. records' = Append(records, rec) /\ day' = day
    BY <1>2, <2>1, <2>2, PutAppends
  <2>4. rec \in Records /\ rec.received = day
    BY <1>0, <2>1, <2>2 DEF Records
  <2>5. PICK n \in Nat : n = Len(records)
    BY <1>0
  <2>6. PICK r, s : r = records /\ s = records'
    OBVIOUS
  <2>7. s \in Seq(Records) /\ Len(s) = n + 1 /\ s[n + 1] = rec /\ \A k \in 1..n : s[k] = r[k]
    BY <1>0, <2>3, <2>4, <2>5, <2>6
  <2>8. r \in Seq(Records) /\ Len(r) = n /\ DOMAIN r = 1..n /\ DOMAIN s = 1..n + 1
    BY <1>0, <2>5, <2>6, <2>7
  <2>9. StoreInv'
    <3>1. \A k \in 1..n + 1 : s[k].received <= day
      BY <1>0, <2>4, <2>5, <2>6, <2>7
    <3> QED
      BY <1>0, <2>3, <2>6, <2>7, <3>1 DEF StoreInv
  <2>10. ASSUME NEW t \in 0..(day - 1) PROVE GetAsOf(s, t) = GetAsOf(r, t)
    <3> DEFINE K == {k \in DOMAIN r : \A j \in 1..k : r[j].received <= t}
               L == {k \in DOMAIN s : \A j \in 1..k : s[j].received <= t}
    <3>then. GetAsOf(r, t) = IF K = {} THEN <<>> ELSE <<r[Max(K)]>>
      BY DEF GetAsOf
    <3>now. GetAsOf(s, t) = IF L = {} THEN <<>> ELSE <<s[Max(L)]>>
      BY DEF GetAsOf
    <3>1. /\ \A k : k \in K <=> k \in DOMAIN r /\ \A j \in 1..k : r[j].received <= t
          /\ \A k : k \in L <=> k \in DOMAIN s /\ \A j \in 1..k : s[j].received <= t
      OBVIOUS
    <3> HIDE DEF K, L
    <3>2. ~(rec.received <= t)
      BY <1>0, <2>4
    <3>3. n + 1 \notin L
      <4>1. n + 1 \in 1..n + 1
        OBVIOUS
      <4> QED
        BY <2>7, <3>1, <3>2, <4>1
    <3>4. \A k \in 1..n : k \in L <=> k \in K
      <4>1. \A k \in 1..n : \A j \in 1..k : s[j] = r[j]
        BY <2>7
      <4>2. \A k \in 1..n : k \in 1..n + 1
        OBVIOUS
      <4> QED
        BY <2>8, <3>1, <4>1, <4>2
    <3>5. K = L /\ K \subseteq 1..n
      <4>1. \A k \in L : k \in 1..n
        BY <2>8, <3>1, <3>3
      <4>2. \A k \in K : k \in 1..n
        BY <2>8, <3>1
      <4> QED
        BY <3>4, <4>1, <4>2
    <3>7. ASSUME K # {} PROVE Max(K) \in 1..n
      <4>1. IsFiniteSet(K)
        <5>1. IsFiniteSet(1..n)
          BY FS_Interval
        <5> QED
          BY <3>5, <5>1, FS_Subset
      <4>2. \E x \in K : \A y \in K : x >= y
        <5>1. \A x \in K : x \in Int
          BY <3>5
        <5> QED
          BY <3>7, <4>1, <5>1, GreatestExists
      <4> QED
        BY <3>5, <4>2 DEF Max
    <3> QED
      BY <2>7, <3>5, <3>7, <3>then, <3>now
  <2> QED
    BY <2>6, <2>9, <2>10
<1>3. CASE BooksNext
  BY <1>1, <1>3 DEF BooksNext, Trade, RecordCost, Split, Dividend, CashOut, SymbolChange, Book
<1>4. CASE SettlementNext
  BY <1>1, <1>4 DEF SettlementNext, OnBuy, OnSell, ProcessSettlements, NextDay
<1>5. CASE PitNext
  BY <1>1, <1>2, <1>5 DEF PitNext, NextDay
<1>6. CASE UNCHANGED bvars
  BY <1>1, <1>6 DEF bvars
<1> QED
  BY <1>3, <1>4, <1>5, <1>6

\* What the store knew at a past moment stays known, whatever is put later and about
\* whatever day (PointInTimeStore.put, get_as_of).
THEOREM PastIsAlwaysFixed == BooksSpec => PastIsFixed
<1>1. BInit => StoreInv
  BY DEF BInit, StoreInv
<1>2. StoreInv /\ [BooksNext \/ SettlementNext \/ PitNext]_bvars => StoreInv'
  BY StoreKeeps
<1>3. StoreInv /\ [BooksNext \/ SettlementNext \/ PitNext]_bvars
        => [\A t \in 0..(day - 1) : GetAsOf(records', t) = GetAsOf(records, t)]_bvars
  BY StoreKeeps
<1> QED
  BY <1>1, <1>2, <1>3, PTL DEF BooksSpec, PastIsFixed

-----------------------------------------------------------------------------
\* History is not rewritten, whatever the two do: no observation of a decision is lost or
\* changed (DecisionQualityEngine) and what was known stays known (PointInTimeStore).
THEOREM HistoryIsAlwaysKept == HistorySpec => HistoryIsKept
BY ObservationsAreKept, PastIsAlwaysFixed DEF HistorySpec, HistoryIsKept

==============================================================================
