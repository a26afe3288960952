------------------------------ MODULE Counting ------------------------------
(***************************************************************************)
(* What the proofs need of counts, sums and exact fractions.               *)
(*                                                                         *)
(* Sums of quantities as numbers of shares: the models add up quantities   *)
(* over the exits, cells or orders that own them by counting the pairs     *)
(* <<owner, n>>.  Sums of entries: the running sums of Arithmetic.         *)
(* Fractions: Val(a, n, d) says that a is worth n / d, so that an equation *)
(* of fractions becomes one of integers over a common denominator.         *)
(* Induction is over sets of numbers, since a lemma cannot be handed a     *)
(* predicate: it gives loops (recursive functions over 0..n) their values. *)
(***************************************************************************)
EXTENDS Arithmetic, FiniteSets, Functions, FiniteSetTheorems, FunctionTheorems,
        WellFoundedInduction, TLAPS

\* The shares of finitely many owners.
LEMMA SharesFinite ==
  ASSUME NEW S, IsFiniteSet(S), NEW n \in Int
  PROVE  IsFiniteSet(S \X (1..n))
<1>1. IsFiniteSet(1..n)
  BY FS_Interval
<1> QED
  BY <1>1, FS_Product

\* The first n shares of one owner.
LEMMA FirstShares ==
  ASSUME NEW x, NEW n \in Nat
  PROVE  IsFiniteSet({x} \X (1..n)) /\ Cardinality({x} \X (1..n)) = n
<1>1. IsFiniteSet({x}) /\ Cardinality({x}) = 1
  BY FS_Singleton
<1>2. IsFiniteSet(1..n) /\ Cardinality(1..n) = n
  BY FS_Interval
<1>3. /\ IsFiniteSet({x} \X (1..n))
      /\ Cardinality({x} \X (1..n)) = Cardinality({x}) * Cardinality(1..n)
  BY <1>1, <1>2, FS_Product
<1> QED
  BY <1>1, <1>2, <1>3

\* Shares told apart by a tag.
LEMMA Tagged ==
  ASSUME NEW x, NEW S, IsFiniteSet(S)
  PROVE  IsFiniteSet({x} \X S) /\ Cardinality({x} \X S) = Cardinality(S)
<1>1. IsFiniteSet({x}) /\ Cardinality({x}) = 1
  BY FS_Singleton
<1>2. /\ IsFiniteSet({x} \X S)
      /\ Cardinality({x} \X S) = Cardinality({x}) * Cardinality(S)
  BY <1>1, FS_Product
<1>3. Cardinality(S) \in Nat
  BY FS_CardinalityType
<1> QED
  BY <1>1, <1>2, <1>3

\* A set all of whose members are values of a function on a finite set.
LEMMA ImageFinite ==
  ASSUME NEW S, IsFiniteSet(S), NEW T, NEW f \in [S -> T],
         \A t \in T : \E x \in S : f[x] = t
  PROVE  IsFiniteSet(T)
<1>1. f \in Surjection(S, T)
  BY Fun_IsSurj
<1> QED
  BY <1>1, FS_Surjection

\* Shares joined to shares of somebody else.
LEMMA JoinCount ==
  ASSUME NEW S, IsFiniteSet(S), NEW T, IsFiniteSet(T)
  PROVE  /\ IsFiniteSet(S \cup T)
         /\ Cardinality(S \cup T) <= Cardinality(S) + Cardinality(T)
         /\ S \cap T = {} => Cardinality(S \cup T) = Cardinality(S) + Cardinality(T)
<1>1. /\ IsFiniteSet(S \cup T)
      /\ Cardinality(S \cup T) = Cardinality(S) + Cardinality(T) - Cardinality(S \cap T)
  BY FS_Union
<1>2. IsFiniteSet(S \cap T)
  BY FS_Intersection
<1>3. /\ Cardinality(S) \in Nat /\ Cardinality(T) \in Nat
      /\ Cardinality(S \cap T) \in Nat
  BY <1>2, FS_CardinalityType
<1>4. S \cap T = {} => Cardinality(S \cap T) = 0
  BY FS_EmptySet
<1> QED
  BY <1>1, <1>3, <1>4

\* Shares taken away.
LEMMA TakeCount ==
  ASSUME NEW S, IsFiniteSet(S), NEW T, T \subseteq S
  PROVE  /\ IsFiniteSet(S \ T) /\ IsFiniteSet(T)
         /\ Cardinality(S \ T) = Cardinality(S) - Cardinality(T)
<1>1. IsFiniteSet(T)
  BY FS_Subset
<1>2. S \cap T = T
  OBVIOUS
<1> QED
  BY <1>1, <1>2, FS_Difference

\* A set that is not larger than another one maps into it one to one.
LEMMA SmallerInjects ==
  ASSUME NEW S, IsFiniteSet(S), NEW T, IsFiniteSet(T),
         Cardinality(S) <= Cardinality(T)
  PROVE  Injection(S, T) # {}
<1> DEFINE m == Cardinality(S)
           n == Cardinality(T)
<1>1. m \in Nat /\ n \in Nat /\ m <= n
  BY FS_CardinalityType
<1>2. PICK f \in Bijection(1..m, S) : TRUE
  BY FS_CardinalityType, Fun_ExistsBij
<1>3. PICK g \in Bijection(1..n, T) : TRUE
  BY FS_CardinalityType, Fun_ExistsBij
<1> HIDE DEF m, n
<1>4. Inverse(f, 1..m, S) \in Bijection(S, 1..m)
  BY <1>2, Fun_BijInverse
<1>5. PICK h \in Bijection(S, 1..m) : TRUE
  BY <1>4
<1>6. /\ h \in [S -> 1..m]
      /\ \A a, b \in S : h[a] = h[b] => a = b
  BY <1>5, Fun_BijectionProperties
<1>7. /\ g \in [1..n -> T]
      /\ \A a, b \in 1..n : g[a] = g[b] => a = b
  BY <1>3, Fun_BijectionProperties
<1>8. \A k \in 1..m : k \in 1..n
  BY <1>1
<1> DEFINE j == [s \in S |-> g[h[s]]]
<1>9. j \in [S -> T]
  BY <1>6, <1>7, <1>8
<1>10. \A a, b \in S : j[a] = j[b] => a = b
  BY <1>6, <1>7, <1>8
<1> HIDE DEF j
<1> QED
  BY <1>9, <1>10, Fun_IsInj

\* Owners summed over: when every owner d has at most as many of the A shares,
\* oa[d], as of the B shares, ob[d], there are at most as many A as B shares.
LEMMA OwnerwiseCount ==
  ASSUME NEW D, NEW A, NEW B, IsFiniteSet(A), IsFiniteSet(B),
         NEW fa \in [A -> D], NEW fb \in [B -> D], NEW oa, NEW ob,
         \A d \in D : oa[d] = {a \in A : fa[a] = d} /\ ob[d] = {b \in B : fb[b] = d},
         \A d \in D : Cardinality(oa[d]) <= Cardinality(ob[d])
  PROVE  Cardinality(A) <= Cardinality(B)
<1> DEFINE Of(d) == {a \in A : fa[a] = d}
           In(d) == {b \in B : fb[b] = d}
<1>1. \A d \in D : Injection(Of(d), In(d)) # {}
  <2> TAKE d \in D
  <2>1. IsFiniteSet(Of(d)) /\ IsFiniteSet(In(d))
    BY FS_Subset
  <2>2. Cardinality(Of(d)) <= Cardinality(In(d))
    <3>1. Of(d) = oa[d] /\ In(d) = ob[d]
      OBVIOUS
    <3> HIDE DEF Of, In
    <3> QED
      BY <3>1
  <2> HIDE DEF Of, In
  <2> QED
    BY <2>1, <2>2, SmallerInjects
<1> DEFINE inj == [d \in D |-> CHOOSE f : f \in Injection(Of(d), In(d))]
<1>2. \A d \in D : inj[d] \in Injection(Of(d), In(d))
  <2> HIDE DEF Of, In
  <2> QED
    BY <1>1
<1>3. \A d \in D : /\ inj[d] \in [Of(d) -> In(d)]
                   /\ \A a, b \in Of(d) : inj[d][a] = inj[d][b] => a = b
  <2> TAKE d \in D
  <2>1. inj[d] \in Injection(Of(d), In(d))
    BY <1>2
  <2> HIDE DEF Of, In, inj
  <2> QED
    BY <2>1, Fun_InjectionProperties
<1> HIDE DEF inj
<1> DEFINE g == [a \in A |-> inj[fa[a]][a]]
<1>4. \A a \in A : g[a] \in B /\ fb[g[a]] = fa[a]
  <2> TAKE a \in A
  <2>1. fa[a] \in D /\ a \in Of(fa[a])
    OBVIOUS
  <2>2. inj[fa[a]] \in [Of(fa[a]) -> In(fa[a])]
    BY <1>3, <2>1
  <2>3. inj[fa[a]][a] \in In(fa[a])
    BY <2>1, <2>2
  <2> QED
    BY <2>3
<1>5. g \in [A -> B]
  BY <1>4
<1>6. \A a, b \in A : g[a] = g[b] => a = b
  <2> SUFFICES ASSUME NEW a \in A, NEW b \in A, g[a] = g[b]
               PROVE  a = b
    OBVIOUS
  <2>1. fa[a] = fa[b]
    BY <1>4
  <2>2. a \in Of(fa[a]) /\ b \in Of(fa[a]) /\ fa[a] \in D
    BY <2>1
  <2>3. inj[fa[a]][a] = inj[fa[a]][b]
    BY <2>1
  <2> QED
    BY <1>3, <2>2, <2>3
<1>7. g \in Injection(A, B)
  <2> HIDE DEF g
  <2> QED
    BY <1>5, <1>6, Fun_IsInj
<1> HIDE DEF g
<1> QED
  BY <1>7, FS_Injection

\* Induction up to n, for a set: what holds at 0 and is handed on holds throughout.
LEMMA CountUp ==
  ASSUME NEW n \in Nat, NEW S, 0 \in S, \A i \in 0..n-1 : i \in S => i+1 \in S
  PROVE  \A i \in 0..n : i \in S
<1> SUFFICES ASSUME NEW j \in 0..n, j \notin S PROVE FALSE
  OBVIOUS
<1> DEFINE R == OpToRel(<, Nat)
           T == {i \in 0..n : i \notin S}
<1>1. T \subseteq Nat /\ T # {}
  OBVIOUS
<1>2. IsWellFoundedOn(R, Nat)
  BY NatLessThanWellFounded
<1>3. PICK x \in T : \A y \in T : ~(<<y, x>> \in R)
  <2> HIDE DEF R, T
  <2> QED
  BY <1>1, <1>2, WFMin
<1>4. \A y, z \in Nat : y < z => <<y, z>> \in R
  BY DEF OpToRel
<1> HIDE DEF R
<1>5. x \in 0..n /\ x # 0 /\ x - 1 \in 0..n-1 /\ x - 1 \in 0..n /\ x - 1 < x
  BY <1>3
<1>6. x - 1 \notin T
  BY <1>1, <1>3, <1>4, <1>5
<1>7. x - 1 \in S /\ x \notin S
  BY <1>3, <1>5, <1>6
<1> QED
  BY <1>5, <1>7

\* A finite set of integers has a least member.
LEMMA LeastExists ==
  ASSUME NEW S, IsFiniteSet(S), S # {}, \A x \in S : x \in Int
  PROVE  \E x \in S : \A y \in S : x <= y
<1> DEFINE n == Cardinality(S)
<1>1. n \in Nat
  BY FS_CardinalityType
<1>2. PICK g \in Bijection(1..n, S) : TRUE
  BY FS_CardinalityType, Fun_ExistsBij
<1> HIDE DEF n
<1>3. g \in [1..n -> S]
  BY <1>2, Fun_BijectionProperties
<1>4. \A x \in S : \E i \in 1..n : g[i] = x
  <2>1. g \in Surjection(1..n, S)
    BY <1>2, Fun_BijectionProperties
  <2> QED
    BY <2>1 DEF Surjection
<1> DEFINE Low(k) == \E x \in S : \A i \in 1..k : x <= g[i]
           K == {k \in 0..n : Low(k)}
<1>5. 0 \in K
  BY <1>1
<1>6. ASSUME NEW k \in 0..n-1, k \in K PROVE k + 1 \in K
  <2>1. PICK x \in S : \A i \in 1..k : x <= g[i]
    BY <1>6
  <2>2. k + 1 \in 1..n /\ k + 1 \in 0..n /\ g[k + 1] \in S
    BY <1>1, <1>3
  <2>3. \A i \in 1..(k + 1) : i \in 1..k \/ i = k + 1
    OBVIOUS
  <2>4. CASE x <= g[k + 1]
    <3>1. \A i \in 1..(k + 1) : x <= g[i]
      BY <2>1, <2>3, <2>4
    <3> QED
      BY <2>2, <3>1
  <2>5. CASE ~(x <= g[k + 1])
    <3>1. g[k + 1] \in Int /\ x \in Int
      BY <2>2
    <3>2. ASSUME NEW i \in 1..(k + 1) PROVE g[k + 1] <= g[i]
      <4>1. i \in 1..n
        BY <1>1
      <4>2. g[i] \in Int
        BY <1>3, <4>1
      <4> QED
        BY <2>1, <2>3, <2>5, <3>1, <4>2
    <3> QED
      BY <2>2, <3>2
  <2> QED
    BY <2>4, <2>5
<1>7. n \in K
  <2> HIDE DEF K
  <2>1. \A k \in 0..n : k \in K
    BY <1>1, <1>5, <1>6, CountUp
  <2> QED
    BY <1>1, <2>1
<1>8. PICK x \in S : \A i \in 1..n : x <= g[i]
  BY <1>7
<1> QED
  BY <1>4, <1>8

\* And a greatest.
LEMMA GreatestExists ==
  ASSUME NEW S, IsFiniteSet(S), S # {}, \A x \in S : x \in Int
  PROVE  \E x \in S : \A y \in S : x >= y
<1> DEFINE f == [x \in S |-> -x]
           T == {-x : x \in S}
<1>1. IsFiniteSet(T)
  <2>1. f \in [S -> T] /\ \A t \in T : \E x \in S : f[x] = t
    OBVIOUS
  <2> HIDE DEF f, T
  <2> QED
    BY <2>1, ImageFinite
<1>2. T # {} /\ \A t \in T : t \in Int
  OBVIOUS
<1>3. PICK t \in T : \A u \in T : t <= u
  <2> HIDE DEF T
  <2> QED
    BY <1>1, <1>2, LeastExists
<1>4. PICK x \in S : t = -x
  OBVIOUS
<1>5. \A y \in S : -x <= -y
  BY <1>3, <1>4
<1>6. \A y \in S : y \in Int /\ x \in Int
  OBVIOUS
<1> QED
  BY <1>5, <1>6

-----------------------------------------------------------------------------
\* A loop over 1..n: g[i] is what it has computed after i rounds, step[<<x, i>>] the
\* effect of round i on x.
RunOf(g, T, b, n, step) ==
  g \in [0..n -> T] /\ g[0] = b /\ \A i \in 1..n : g[i] = step[<<g[i-1], i>>]

\* A loop body that stays within T.
BodyOf(T, n, step) == \A t \in T, i \in 1..n : step[<<t, i>>] \in T

\* Such a loop can be run: recursive functions over 0..n are defined.
LEMMA LoopExists ==
  ASSUME NEW T, NEW b \in T, NEW n \in Nat, NEW step, BodyOf(T, n, step)
  PROVE  \E g : RunOf(g, T, b, n, step)
<1> USE DEF RunOf, BodyOf
<1> DEFINE S == {k \in 0..n : \E g \in [0..k -> T] : g[0] = b /\ \A i \in 1..k : g[i] = step[<<g[i-1], i>>]}
<1>1. 0 \in S
  <2> DEFINE g == [i \in 0..0 |-> b]
  <2>1. g \in [0..0 -> T] /\ g[0] = b /\ \A i \in 1..0 : FALSE
    OBVIOUS
  <2> HIDE DEF g
  <2>2. \E w \in [0..0 -> T] : w[0] = b /\ \A i \in 1..0 : w[i] = step[<<w[i-1], i>>]
    BY <2>1
  <2> QED
    BY <2>2
<1>2. ASSUME NEW k \in 0..n-1, k \in S PROVE k + 1 \in S
  <2>1. PICK g \in [0..k -> T] : g[0] = b /\ \A i \in 1..k : g[i] = step[<<g[i-1], i>>]
    BY <1>2
  <2> DEFINE h == [i \in 0..k+1 |-> IF i = k + 1 THEN step[<<g[k], k+1>>] ELSE g[i]]
  <2>2. g[k] \in T /\ k + 1 \in 1..n /\ step[<<g[k], k+1>>] \in T
    BY <2>1
  <2>3. h \in [0..k+1 -> T]
    BY <2>1, <2>2
  <2>4. h[0] = b
    BY <2>1
  <2>5. ASSUME NEW i \in 1..k+1 PROVE h[i] = step[<<h[i-1], i>>]
    <3>1. CASE i = k + 1
      <4>1. h[k + 1] = step[<<g[k], k+1>>] /\ h[k] = g[k] /\ i - 1 = k
        BY <3>1
      <4> HIDE DEF h
      <4> QED
        BY <3>1, <4>1
    <3>2. CASE i # k + 1
      BY <2>1, <3>2
    <3> QED BY <3>1, <3>2
  <2>6. k + 1 \in 0..n
    OBVIOUS
  <2> HIDE DEF h
  <2>7. \E w \in [0..k+1 -> T] : w[0] = b /\ \A i \in 1..k+1 : w[i] = step[<<w[i-1], i>>]
    BY <2>3, <2>4, <2>5
  <2> QED
    BY <2>6, <2>7
<1>3. n \in S
  <2> HIDE DEF S
  <2>1. \A i \in 0..n : i \in S
    BY <1>1, <1>2, CountUp
  <2> QED
    BY <2>1
<1> QED
  BY <1>3

-----------------------------------------------------------------------------
\* The shares of owners S, the owner i having c[i] of them.
SharesOf(c, S) == UNION {{i} \X (1..c[i]) : i \in S}

\* One more owner adds its own shares.
LEMMA OwnerAdded ==
  ASSUME NEW S, NEW j, j \notin S, NEW c, IsFiniteSet(SharesOf(c, S)), c[j] \in Nat
  PROVE  /\ IsFiniteSet(SharesOf(c, S \cup {j}))
         /\ Cardinality(SharesOf(c, S \cup {j})) = Cardinality(SharesOf(c, S)) + c[j]
<1> DEFINE J == {j} \X (1..c[j])
           R == SharesOf(c, S)
<1>1. SharesOf(c, S \cup {j}) = R \cup J
  BY DEF SharesOf
<1>2. R \cap J = {}
  BY DEF SharesOf
<1>3. IsFiniteSet(J) /\ Cardinality(J) = c[j]
  BY FirstShares
<1> HIDE DEF J, R
<1>4. IsFiniteSet(R \cup J) /\ Cardinality(R \cup J) = Cardinality(R) + Cardinality(J)
  BY <1>2, <1>3, JoinCount DEF R
<1> QED
  BY <1>1, <1>3, <1>4 DEF R

\* Finitely many owners have finitely many shares.
LEMMA SharesOfFinite ==
  ASSUME NEW n \in Nat, NEW c, \A i \in 1..n : c[i] \in Nat
  PROVE  IsFiniteSet(SharesOf(c, 1..n))
<1> DEFINE S == {k \in 0..n : IsFiniteSet(SharesOf(c, 1..k))}
<1>1. 0 \in S
  <2>1. SharesOf(c, 1..0) = {}
    BY DEF SharesOf
  <2> QED
    BY <2>1, FS_EmptySet
<1>2. ASSUME NEW k \in 0..n-1, k \in S PROVE k + 1 \in S
  <2>1. 1..(k + 1) = (1..k) \cup {k + 1} /\ k + 1 \notin 1..k /\ k + 1 \in 1..n
    OBVIOUS
  <2>2. IsFiniteSet(SharesOf(c, 1..k)) /\ c[k + 1] \in Nat
    BY <1>2, <2>1
  <2>3. IsFiniteSet(SharesOf(c, (1..k) \cup {k + 1}))
    BY <2>1, <2>2, OwnerAdded
  <2>4. IsFiniteSet(SharesOf(c, 1..(k + 1)))
    BY <2>1, <2>3
  <2>5. k + 1 \in 0..n
    OBVIOUS
  <2> QED
    BY <2>4, <2>5
<1>3. n \in S
  <2> HIDE DEF S
  <2>1. \A i \in 0..n : i \in S
    BY <1>1, <1>2, CountUp
  <2> QED
    BY <2>1
<1> QED
  BY <1>3

\* Only the share of owner j changes.
OneChanged(c, d, n, j) ==
  /\ \A i \in 1..n : c[i] \in Nat /\ d[i] \in Nat
  /\ \A i \in 1..n : i # j => d[i] = c[i]

\* What the shares count when one owner's share changes.
LEMMA OwnerChanged ==
  ASSUME NEW n \in Nat, NEW c, NEW d, NEW j \in 1..n, OneChanged(c, d, n, j),
         NEW x \in Nat, c[j] = x, NEW y \in Nat, d[j] = y
  PROVE  \E k \in Nat : /\ Cardinality(SharesOf(c, 1..n)) = k + x
                        /\ Cardinality(SharesOf(d, 1..n)) = k + y
<1>0. /\ \A i \in 1..n : c[i] \in Nat /\ d[i] \in Nat
      /\ \A i \in 1..n : i # j => d[i] = c[i]
  BY DEF OneChanged
<1> DEFINE S == (1..n) \ {j}
<1>1. 1..n = S \cup {j} /\ j \notin S
  OBVIOUS
<1>2. SharesOf(d, S) = SharesOf(c, S)
  BY <1>0 DEF SharesOf
<1>3. IsFiniteSet(SharesOf(c, S))
  <2>1. SharesOf(c, S) \subseteq SharesOf(c, 1..n)
    BY DEF SharesOf
  <2>2. IsFiniteSet(SharesOf(c, 1..n))
    BY <1>0, SharesOfFinite
  <2> QED
    BY <2>1, <2>2, FS_Subset
<1> HIDE DEF S
<1>4. /\ IsFiniteSet(SharesOf(c, 1..n))
      /\ Cardinality(SharesOf(c, 1..n)) = Cardinality(SharesOf(c, S)) + x
  BY <1>0, <1>1, <1>3, OwnerAdded
<1>5. /\ IsFiniteSet(SharesOf(d, 1..n))
      /\ Cardinality(SharesOf(d, 1..n)) = Cardinality(SharesOf(c, S)) + y
  BY <1>0, <1>1, <1>2, <1>3, OwnerAdded
<1>6. Cardinality(SharesOf(c, S)) \in Nat
  BY <1>3, FS_CardinalityType
<1> QED
  BY <1>4, <1>5, <1>6

-----------------------------------------------------------------------------
(* Sums of integers.                                                       *)

IntsTo(f, n) == \A k \in 1..n : f[k] \in Int

\* The rounds of a sum.
LEMMA SumRuns ==
  ASSUME NEW n \in Nat, NEW f, IntsTo(f, n)
  PROVE  LET m == RunningSum(f, n)
         IN  m \in [0..n -> Int] /\ m[0] = 0 /\ \A k \in 1..n : m[k] = m[k - 1] + f[k]
<1> DEFINE T == Int
           step == [a \in T \X (1..n) |-> a[1] + f[a[2]]]
<1>1. 0 \in T /\ \A a \in T, k \in 1..n : a + f[k] \in T
  BY DEF IntsTo
<1>2. \A a \in T, k \in 1..n : step[<<a, k>>] = a + f[k]
  OBVIOUS
<1>3. \E g : RunOf(g, T, 0, n, step)
  <2>1. BodyOf(T, n, step)
    <3> HIDE DEF T, step
    <3> QED
      BY <1>1, <1>2 DEF BodyOf
  <2> HIDE DEF T, step
  <2> QED
    BY <1>1, <2>1, LoopExists
<1>4. PICK g : RunOf(g, T, 0, n, step)
  BY <1>3
<1>5. g \in [0..n -> T] /\ g[0] = 0 /\ \A k \in 1..n : g[k] = step[<<g[k - 1], k>>]
  BY <1>4 DEF RunOf
<1> HIDE DEF T, step
<1>6. \A k \in 1..n : k - 1 \in 0..n /\ g[k - 1] \in T
  BY <1>5
<1>7. \A k \in 1..n : g[k] = g[k - 1] + f[k]
  BY <1>2, <1>5, <1>6
<1>8. g = [k \in 0..n |-> IF k = 0 THEN 0 ELSE g[k - 1] + f[k]]
  BY <1>5, <1>7
<1>9. \E h : h = [k \in 0..n |-> IF k = 0 THEN 0 ELSE h[k - 1] + f[k]]
  BY <1>8
<1>10. PICK m : m = RunningSum(f, n)
  OBVIOUS
<1>11. m = [k \in 0..n |-> IF k = 0 THEN 0 ELSE m[k - 1] + f[k]]
  BY <1>9, <1>10 DEF RunningSum
<1>12. m[0] = 0 /\ \A k \in 1..n : m[k] = m[k - 1] + f[k]
  BY <1>11
<1> DEFINE S == {k \in 0..n : m[k] \in T}
<1>13. \A k \in 0..n : k \in S
  <2>1. 0 \in S
    BY <1>1, <1>12
  <2>2. ASSUME NEW k \in 0..n-1, k \in S PROVE k + 1 \in S
    <3>1. k + 1 \in 1..n /\ k + 1 \in 0..n /\ (k + 1) - 1 = k
      OBVIOUS
    <3>2. m[k] \in T /\ m[k + 1] = m[k] + f[k + 1]
      BY <1>12, <2>2, <3>1
    <3> QED
      BY <1>1, <3>1, <3>2
  <2> HIDE DEF S
  <2> QED
    BY <2>1, <2>2, CountUp
<1>14. m \in [0..n -> T]
  <2>1. \A k \in 0..n : m[k] \in T
    BY <1>13
  <2> QED
    BY <1>11, <2>1
<1> QED
  BY <1>10, <1>12, <1>14 DEF T

\* A sum over more entries goes through the sums over fewer.
LEMMA SumPrefix ==
  ASSUME NEW n \in Nat, NEW f, IntsTo(f, n), NEW j \in 0..n
  PROVE  RunningSum(f, n)[j] = SumTo(f, j)
<1>1. PICK m : m = RunningSum(f, n)
  OBVIOUS
<1>2. PICK p : p = RunningSum(f, j)
  OBVIOUS
<1>3. m[0] = 0 /\ \A k \in 1..n : m[k] = m[k - 1] + f[k]
  BY <1>1, SumRuns
<1>4. p[0] = 0 /\ \A k \in 1..j : p[k] = p[k - 1] + f[k]
  <2>1. IntsTo(f, j) /\ j \in Nat
    BY DEF IntsTo
  <2>2. \A k \in 1..j : RunningSum(f, j)[k] = RunningSum(f, j)[k - 1] + f[k]
    BY <2>1, SumRuns
  <2>3. RunningSum(f, j)[0] = 0
    BY <2>1, SumRuns
  <2> QED
    BY <1>2, <2>2, <2>3
<1> DEFINE S == {k \in 0..j : m[k] = p[k]}
<1>5. 0 \in S
  BY <1>3, <1>4
<1>6. ASSUME NEW k \in 0..j-1, k \in S PROVE k + 1 \in S
  <2>1. k + 1 \in 1..n /\ k + 1 \in 1..j /\ k + 1 \in 0..j /\ (k + 1) - 1 = k
    OBVIOUS
  <2>2. m[k + 1] = m[k] + f[k + 1] /\ p[k + 1] = p[k] + f[k + 1] /\ m[k] = p[k]
    BY <1>3, <1>4, <1>6, <2>1
  <2> QED
    BY <2>1, <2>2
<1>7. j \in S
  <2> HIDE DEF S
  <2>1. \A k \in 0..j : k \in S
    BY <1>5, <1>6, CountUp
  <2> QED
    BY <2>1
<1> QED
  BY <1>1, <1>2, <1>7 DEF SumTo

\* Sums are integers, and grow entry by entry.
LEMMA SumIs ==
  ASSUME NEW n \in Nat, NEW f, IntsTo(f, n)
  PROVE  /\ SumTo(f, 0) = 0 /\ SumTo(f, n) \in Int
         /\ \A k \in 0..n : SumTo(f, k) \in Int
         /\ \A k \in 1..n : SumTo(f, k) = SumTo(f, k - 1) + f[k]
<1>1. PICK m : m = RunningSum(f, n)
  OBVIOUS
<1>2. m \in [0..n -> Int] /\ m[0] = 0 /\ \A k \in 1..n : m[k] = m[k - 1] + f[k]
  BY <1>1, SumRuns
<1>3. \A k \in 0..n : m[k] = SumTo(f, k)
  BY <1>1, SumPrefix
<1>4. 0 \in 0..n /\ n \in 0..n /\ \A k \in 1..n : k \in 0..n /\ k - 1 \in 0..n
  OBVIOUS
<1> QED
  BY <1>2, <1>3, <1>4

\* The sum over one more entry.
LEMMA SumNext ==
  ASSUME NEW n \in Nat, NEW f, IntsTo(f, n + 1)
  PROVE  SumTo(f, n + 1) = SumTo(f, n) + f[n + 1] /\ SumTo(f, n) \in Int
<1>1. n + 1 \in Nat /\ n + 1 \in 1..n + 1 /\ (n + 1) - 1 = n /\ n \in 0..n + 1
  OBVIOUS
<1> QED
  BY <1>1, SumIs

\* Entries that add up, entry by entry, add up.
LEMMA SumAdds ==
  ASSUME NEW n \in Nat, NEW f, NEW g, NEW h, IntsTo(f, n), IntsTo(g, n),
         \A k \in 1..n : h[k] = f[k] + g[k]
  PROVE  SumTo(h, n) = SumTo(f, n) + SumTo(g, n)
<1>0. IntsTo(h, n)
  BY DEF IntsTo
<1> DEFINE F(k) == SumTo(f, k)
           G(k) == SumTo(g, k)
           H(k) == SumTo(h, k)
<1>1. F(0) = 0 /\ (\A k \in 0..n : F(k) \in Int) /\ \A k \in 1..n : F(k) = F(k - 1) + f[k]
  BY SumIs
<1>2. G(0) = 0 /\ (\A k \in 0..n : G(k) \in Int) /\ \A k \in 1..n : G(k) = G(k - 1) + g[k]
  BY SumIs
<1>3. H(0) = 0 /\ \A k \in 1..n : H(k) = H(k - 1) + h[k]
  BY <1>0, SumIs
<1> DEFINE S == {k \in 0..n : H(k) = F(k) + G(k)}
<1> HIDE DEF F, G, H
<1>4. 0 \in S
  BY <1>1, <1>2, <1>3
<1>5. ASSUME NEW k \in 0..n-1, k \in S PROVE k + 1 \in S
  <2>1. k + 1 \in 1..n /\ k + 1 \in 0..n /\ (k + 1) - 1 = k /\ k \in 0..n
    OBVIOUS
  <2>2. F(k + 1) = F(k) + f[k + 1] /\ G(k + 1) = G(k) + g[k + 1] /\ H(k + 1) = H(k) + h[k + 1]
    BY <1>1, <1>2, <1>3, <2>1
  <2>3. H(k) = F(k) + G(k) /\ F(k) \in Int /\ G(k) \in Int
    BY <1>1, <1>2, <1>5, <2>1
  <2>4. f[k + 1] \in Int /\ g[k + 1] \in Int /\ h[k + 1] = f[k + 1] + g[k + 1]
    BY <2>1 DEF IntsTo
  <2>5. H(k + 1) = F(k + 1) + G(k + 1)
    BY <2>2, <2>3, <2>4
  <2> QED
    BY <2>1, <2>5
<1>6. n \in S
  <2> HIDE DEF S
  <2>1. \A k \in 0..n : k \in S
    BY <1>4, <1>5, CountUp
  <2> QED
    BY <2>1
<1> QED
  BY <1>6 DEF F, G, H

\* Smaller entries have a smaller sum.
LEMMA SumGrows ==
  ASSUME NEW n \in Nat, NEW f, NEW g, IntsTo(f, n), IntsTo(g, n), \A k \in 1..n : f[k] <= g[k]
  PROVE  SumTo(f, n) <= SumTo(g, n)
<1> DEFINE F(k) == SumTo(f, k)
           G(k) == SumTo(g, k)
<1>1. F(0) = 0 /\ (\A k \in 0..n : F(k) \in Int) /\ \A k \in 1..n : F(k) = F(k - 1) + f[k]
  BY SumIs
<1>2. G(0) = 0 /\ (\A k \in 0..n : G(k) \in Int) /\ \A k \in 1..n : G(k) = G(k - 1) + g[k]
  BY SumIs
<1> DEFINE S == {k \in 0..n : F(k) <= G(k)}
<1> HIDE DEF F, G
<1>4. 0 \in S
  BY <1>1, <1>2
<1>5. ASSUME NEW k \in 0..n-1, k \in S PROVE k + 1 \in S
  <2>1. k + 1 \in 1..n /\ k + 1 \in 0..n /\ (k + 1) - 1 = k /\ k \in 0..n
    OBVIOUS
  <2>2. F(k + 1) = F(k) + f[k + 1] /\ G(k + 1) = G(k) + g[k + 1]
    BY <1>1, <1>2, <2>1
  <2>3. F(k) <= G(k) /\ F(k) \in Int /\ G(k) \in Int
    BY <1>1, <1>2, <1>5, <2>1
  <2>4. f[k + 1] \in Int /\ g[k + 1] \in Int /\ f[k + 1] <= g[k + 1]
    BY <2>1 DEF IntsTo
  <2>5. F(k + 1) <= G(k + 1)
    BY <2>2, <2>3, <2>4
  <2> QED
    BY <2>1, <2>5
<1>6. n \in S
  <2> HIDE DEF S
  <2>1. \A k \in 0..n : k \in S
    BY <1>4, <1>5, CountUp
  <2> QED
    BY <2>1
<1> QED
  BY <1>6 DEF F, G

\* Equal entries have equal sums.
LEMMA SumSame ==
  ASSUME NEW n \in Nat, NEW f, NEW g, IntsTo(f, n), \A k \in 1..n : f[k] = g[k]
  PROVE  SumTo(f, n) = SumTo(g, n)
<1>1. IntsTo(g, n) /\ (\A k \in 1..n : f[k] <= g[k]) /\ (\A k \in 1..n : g[k] <= f[k])
  BY DEF IntsTo
<1>2. SumTo(f, n) <= SumTo(g, n)
  BY <1>1, SumGrows
<1>3. SumTo(g, n) <= SumTo(f, n)
  BY <1>1, SumGrows
<1>4. SumTo(f, n) \in Int /\ SumTo(g, n) \in Int
  BY <1>1, SumIs
<1> QED
  BY <1>2, <1>3, <1>4

\* Nothing adds up to nothing.
LEMMA SumNone ==
  ASSUME NEW n \in Nat, NEW f, \A k \in 1..n : f[k] = 0
  PROVE  SumTo(f, n) = 0
<1>1. IntsTo(f, n)
  BY DEF IntsTo
<1>2. \A k \in 1..n : f[k] = f[k] + f[k]
  OBVIOUS
<1>3. SumTo(f, n) = SumTo(f, n) + SumTo(f, n)
  BY <1>1, <1>2, SumAdds
<1>4. PICK x \in Int : x = SumTo(f, n)
  BY <1>1, SumIs
<1>5. \A y \in Int : y + y = y => y = 0
  OBVIOUS
<1>6. x + x = x
  BY <1>3, <1>4
<1> QED
  BY <1>4, <1>5, <1>6

\* Entries that are not negative.
LEMMA SumNatural ==
  ASSUME NEW n \in Nat, NEW f, \A k \in 1..n : f[k] \in Nat
  PROVE  SumTo(f, n) \in Nat /\ \A k \in 1..n : f[k] <= SumTo(f, n)
<1>0. IntsTo(f, n)
  BY DEF IntsTo
<1> DEFINE z == [k \in 1..n |-> 0]
<1>1. IntsTo(z, n) /\ (\A k \in 1..n : z[k] <= f[k]) /\ \A k \in 1..n : z[k] = 0
  BY DEF IntsTo
<1>2. SumTo(f, n) \in Int
  BY <1>0, SumIs
<1>3. SumTo(f, n) >= 0
  <2> HIDE DEF z
  <2>1. SumTo(z, n) <= SumTo(f, n)
    BY <1>0, <1>1, SumGrows
  <2>2. SumTo(z, n) = 0
    BY <1>1, SumNone
  <2> QED
    BY <1>2, <2>1, <2>2
<1>4. ASSUME NEW k \in 1..n PROVE f[k] <= SumTo(f, n)
  <2> DEFINE F(i) == SumTo(f, i)
             S == {i \in 0..n : F(i) >= 0 /\ (k <= i => f[k] <= F(i))}
  <2>1. F(0) = 0 /\ (\A i \in 0..n : F(i) \in Int) /\ \A i \in 1..n : F(i) = F(i - 1) + f[i]
    BY <1>0, SumIs
  <2> HIDE DEF F
  <2>2. 0 \in S
    BY <2>1
  <2>3. ASSUME NEW i \in 0..n-1, i \in S PROVE i + 1 \in S
    <3>1. i + 1 \in 1..n /\ i + 1 \in 0..n /\ (i + 1) - 1 = i /\ i \in 0..n
      OBVIOUS
    <3>2. F(i + 1) = F(i) + f[i + 1] /\ F(i) \in Int /\ f[i + 1] \in Nat /\ f[k] \in Nat
      BY <2>1, <3>1
    <3>3. F(i) >= 0 /\ (k <= i => f[k] <= F(i))
      BY <2>3
    <3>4. k <= i + 1 => f[k] <= F(i + 1)
      BY <3>2, <3>3
    <3> QED
      BY <3>1, <3>2, <3>3, <3>4
  <2>4. n \in S
    <3> HIDE DEF S
    <3>1. \A i \in 0..n : i \in S
      BY <2>2, <2>3, CountUp
    <3> QED
      BY <3>1
  <2> QED
    BY <2>4 DEF F
<1> QED
  BY <1>2, <1>3, <1>4

\* f and g differ at most at entry i.
DifferAt(f, g, n, i) == \A k \in 1..n : k # i => f[k] = g[k]

\* One entry changes.
LEMMA SumChanged ==
  ASSUME NEW n \in Nat, NEW f, NEW g, NEW i \in 1..n, IntsTo(f, n), IntsTo(g, n), DifferAt(f, g, n, i)
  PROVE  SumTo(g, n) = SumTo(f, n) - f[i] + g[i]
<1> DEFINE F(k) == SumTo(f, k)
           G(k) == SumTo(g, k)
           S == {k \in 0..n : IF k < i THEN G(k) = F(k) ELSE G(k) = F(k) - f[i] + g[i]}
<1>1. F(0) = 0 /\ (\A k \in 0..n : F(k) \in Int) /\ \A k \in 1..n : F(k) = F(k - 1) + f[k]
  BY SumIs
<1>2. G(0) = 0 /\ (\A k \in 0..n : G(k) \in Int) /\ \A k \in 1..n : G(k) = G(k - 1) + g[k]
  BY SumIs
<1> HIDE DEF F, G
<1>3. f[i] \in Int /\ g[i] \in Int
  BY DEF IntsTo
<1>4. 0 \in S
  BY <1>1, <1>2
<1>5. ASSUME NEW k \in 0..n-1, k \in S PROVE k + 1 \in S
  <2>1. k + 1 \in 1..n /\ k + 1 \in 0..n /\ (k + 1) - 1 = k /\ k \in 0..n
    OBVIOUS
  <2>2. F(k + 1) = F(k) + f[k + 1] /\ G(k + 1) = G(k) + g[k + 1]
    BY <1>1, <1>2, <2>1
  <2>3. F(k) \in Int /\ G(k) \in Int /\ f[k + 1] \in Int /\ g[k + 1] \in Int
    BY <1>1, <1>2, <2>1 DEF IntsTo
  <2>4. IF k < i THEN G(k) = F(k) ELSE G(k) = F(k) - f[i] + g[i]
    BY <1>5
  <2>5. k + 1 # i => f[k + 1] = g[k + 1]
    BY <2>1 DEF DifferAt
  <2>6. IF k + 1 < i THEN G(k + 1) = F(k + 1) ELSE G(k + 1) = F(k + 1) - f[i] + g[i]
    BY <1>3, <2>2, <2>3, <2>4, <2>5
  <2> QED
    BY <2>1, <2>6
<1>6. n \in S
  <2> HIDE DEF S
  <2>1. \A k \in 0..n : k \in S
    BY <1>4, <1>5, CountUp
  <2> QED
    BY <2>1
<1> QED
  BY <1>6 DEF F, G

-----------------------------------------------------------------------------
(* Fractions.                                                              *)

Pos == Nat \ {0}

\* A positive factor cancels.
LEMMA CancelFactor ==
  ASSUME NEW p \in Pos, NEW x \in Int, NEW y \in Int, x * p = y * p
  PROVE  x = y
<1>1. (x - y) * p = 0
  BY DEF Pos
<1>2. PICK z \in Int : z = x - y
  OBVIOUS
<1>3. z * p = 0
  BY <1>1, <1>2
<1>4. CASE z > 0
  <2>1. z * p >= p
    BY <1>4 DEF Pos
  <2> QED
    BY <1>3, <2>1 DEF Pos
<1>5. CASE z < 0
  <2>1. PICK w \in Nat : w = -z /\ w > 0
    BY <1>5
  <2>2. w * p >= p
    BY <2>1 DEF Pos
  <2>3. w * p = -(z * p)
    BY <2>1 DEF Pos
  <2> QED
    BY <1>3, <2>2, <2>3 DEF Pos
<1> QED
  BY <1>2, <1>4, <1>5

\* Products of positive numbers.
LEMMA PosTimes == ASSUME NEW p \in Pos, NEW q \in Pos PROVE p * q \in Pos
<1>1. p * q \in Nat
  BY DEF Pos
<1>2. p * q >= p
  BY DEF Pos
<1> QED
  BY <1>1, <1>2 DEF Pos

\* The value of a fraction is A / D.
Val(a, A, D) == a \in Frac /\ A \in Int /\ D \in Pos /\ a[1] * D = A * a[2]

LEMMA FracIs == ASSUME NEW a \in Frac PROVE a[1] \in Int /\ a[2] \in Pos /\ a = <<a[1], a[2]>>
  BY DEF Frac, Pos

\* Reducing keeps the value.
LEMMA LowestIs ==
  ASSUME NEW n \in Int, NEW d \in Pos
  PROVE  Val(Lowest(n, d), n, d)
<1> DEFINE G == Divisors(n, d)
<1>1. 1 \in G
  BY DEF Divisors, Pos
<1>2. IsFiniteSet(G)
  <2>1. G \subseteq 1..d /\ IsFiniteSet(1..d)
    BY FS_Interval DEF Divisors, Pos
  <2> QED
    BY <2>1, FS_Subset
<1>3. \A x \in G : x \in Int
  BY DEF Divisors, Pos
<1> HIDE DEF G
<1>4. \E x \in G : \A y \in G : x >= y
  BY <1>1, <1>2, <1>3, GreatestExists
<1>5. Max(G) \in G
  BY <1>4 DEF Max
<1>6. PICK g \in G : g = Max(G)
  BY <1>5
<1>7. g \in 1..d /\ n % g = 0 /\ d % g = 0 /\ g \in Pos
  BY <1>6 DEF G, Divisors, Pos
<1>8. PICK p \in Int : p = n \div g
  BY <1>7 DEF Pos
<1>9. PICK q \in Int : q = d \div g
  BY <1>7 DEF Pos
<1>10. n = g * p
  BY <1>7, <1>8 DEF Pos
<1>11. d = g * q
  BY <1>7, <1>9 DEF Pos
<1>12. q \in Pos
  <2>1. q > 0
    <3>1. CASE q <= 0
      <4>1. g * q <= 0
        BY <1>7, <3>1 DEF Pos
      <4> QED
        BY <1>11, <4>1 DEF Pos
    <3> QED
      BY <3>1
  <2> QED
    BY <2>1 DEF Pos
<1>13. p * d = n * q
  <2>1. p * (g * q) = (g * p) * q
    BY <1>7 DEF Pos
  <2> QED
    BY <1>10, <1>11, <2>1
<1>14. Lowest(n, d) = <<p, q>>
  BY <1>6, <1>8, <1>9 DEF Lowest, G
<1>15. <<p, q>> \in Frac /\ <<p, q>>[1] = p /\ <<p, q>>[2] = q
  BY <1>12 DEF Frac, Pos
<1> QED
  BY <1>13, <1>14, <1>15 DEF Val

\* A reduced fraction has every value the unreduced one has.
LEMMA Revalue ==
  ASSUME NEW r, NEW n \in Int, NEW d \in Pos, Val(r, n, d), NEW A \in Int, NEW D \in Pos, n * D = A * d
  PROVE  Val(r, A, D)
<1>1. r[1] \in Int /\ r[2] \in Pos /\ r[1] * d = n * r[2]
  BY FracIs DEF Val
<1>2. PICK x \in Int : x = r[1]
  BY <1>1
<1>3. PICK y \in Pos : y = r[2]
  BY <1>1
<1>4. x * d = n * y
  BY <1>1, <1>2, <1>3
<1>5. d \in Int /\ D \in Int /\ y \in Int
  BY DEF Pos
<1>6. (x * D) * d = (A * y) * d
  <2>1. (x * D) * d = (x * d) * D
    BY <1>5
  <2>2. (n * y) * D = (n * D) * y
    BY <1>5
  <2>3. (A * d) * y = (A * y) * d
    BY <1>5
  <2> QED
    BY <1>4, <2>1, <2>2, <2>3
<1>7. x * D \in Int /\ A * y \in Int
  BY <1>5
<1>8. x * D = A * y
  BY <1>6, <1>7, CancelFactor
<1> QED
  BY <1>2, <1>3, <1>8 DEF Val

LEMMA ValAdd ==
  ASSUME NEW a, NEW b, NEW A, NEW B, NEW D, Val(a, A, D), Val(b, B, D)
  PROVE  Val(Add(a, b), A + B, D)
<1>1. PICK p \in Int : p = a[1]
  BY FracIs DEF Val
<1>2. PICK q \in Pos : q = a[2]
  BY FracIs DEF Val
<1>3. PICK s \in Int : s = b[1]
  BY FracIs DEF Val
<1>4. PICK t \in Pos : t = b[2]
  BY FracIs DEF Val
<1>5. A \in Int /\ B \in Int /\ D \in Pos /\ D \in Int /\ q \in Int /\ t \in Int
  BY DEF Val, Pos
<1>6. p * D = A * q /\ s * D = B * t
  BY <1>1, <1>2, <1>3, <1>4 DEF Val
<1>7. PICK n \in Int : n = p * t + s * q
  BY <1>5
<1>8. PICK d \in Pos : d = q * t
  BY PosTimes
<1>9. Val(Add(a, b), n, d)
  BY <1>1, <1>2, <1>3, <1>4, <1>7, <1>8, LowestIs DEF Add
<1>10. n * D = (A + B) * d
  <2>1. (p * t + s * q) * D = (p * D) * t + (s * D) * q
    BY <1>5
  <2>2. (A * q) * t + (B * t) * q = (A + B) * (q * t)
    BY <1>5
  <2> QED
    BY <1>6, <1>7, <1>8, <2>1, <2>2
<1>11. A + B \in Int
  BY <1>5
<1> QED
  BY <1>5, <1>9, <1>10, <1>11, Revalue

LEMMA ValNeg ==
  ASSUME NEW a, NEW A, NEW D, Val(a, A, D)
  PROVE  Val(Neg(a), -A, D)
<1>1. PICK p \in Int : p = a[1]
  BY FracIs DEF Val
<1>2. PICK q \in Pos : q = a[2]
  BY FracIs DEF Val
<1>3. A \in Int /\ D \in Pos /\ D \in Int /\ q \in Int /\ p * D = A * q
  BY <1>1, <1>2 DEF Val, Pos
<1>4. (-p) * D = (-A) * q
  BY <1>3
<1>5. Neg(a) = <<-p, q>>
  BY <1>1, <1>2 DEF Neg
<1>6. <<-p, q>> \in Frac /\ <<-p, q>>[1] = -p /\ <<-p, q>>[2] = q
  BY DEF Frac, Pos
<1> QED
  BY <1>3, <1>4, <1>5, <1>6 DEF Val

\* Fractions of the same value, and the other way round.
LEMMA ValSame ==
  ASSUME NEW a, NEW b, NEW A, NEW B, NEW D, Val(a, A, D), Val(b, B, D)
  PROVE  Same(a, b) <=> A = B
<1>1. PICK p \in Int : p = a[1]
  BY FracIs DEF Val
<1>2. PICK q \in Pos : q = a[2]
  BY FracIs DEF Val
<1>3. PICK s \in Int : s = b[1]
  BY FracIs DEF Val
<1>4. PICK t \in Pos : t = b[2]
  BY FracIs DEF Val
<1>5. A \in Int /\ B \in Int /\ D \in Pos /\ D \in Int /\ q \in Int /\ t \in Int
  BY DEF Val, Pos
<1>6. p * D = A * q /\ s * D = B * t
  BY <1>1, <1>2, <1>3, <1>4 DEF Val
<1>7. Same(a, b) <=> p * t = s * q
  BY <1>1, <1>2, <1>3, <1>4 DEF Same
<1>8. PICK d \in Pos : d = q * t
  BY PosTimes
<1>9. (p * t) * D = A * d
  <2>1. (p * t) * D = (p * D) * t
    BY <1>5
  <2>2. (A * q) * t = A * (q * t)
    BY <1>5
  <2> QED
    BY <1>6, <1>8, <2>1, <2>2
<1>10. (s * q) * D = B * d
  <2>1. (s * q) * D = (s * D) * q
    BY <1>5
  <2>2. (B * t) * q = B * (q * t)
    BY <1>5
  <2> QED
    BY <1>6, <1>8, <2>1, <2>2
<1>11. PICK x \in Int : x = p * t
  BY <1>5
<1>12. PICK y \in Int : y = s * q
  BY <1>5
<1>13. x * D = A * d /\ y * D = B * d
  BY <1>9, <1>10, <1>11, <1>12
<1>14. ASSUME A = B PROVE x = y
  <2>1. x * D = y * D
    BY <1>13, <1>14
  <2> QED
    BY <1>5, <2>1, CancelFactor
<1>15. ASSUME x = y PROVE A = B
  <2>1. A * d = B * d
    BY <1>13, <1>15
  <2> QED
    BY <1>5, <2>1, CancelFactor
<1> QED
  BY <1>7, <1>11, <1>12, <1>14, <1>15

ValueOver(a, D) == \E A \in Int : Val(a, A, D)

\* A common denominator for one more.
LEMMA Commoner ==
  ASSUME NEW D \in Pos, NEW a \in Frac
  PROVE  \E E \in Pos : ValueOver(a, E) /\ \A x : ValueOver(x, D) => ValueOver(x, E)
<1>1. PICK p \in Int : p = a[1]
  BY FracIs
<1>2. PICK q \in Pos : q = a[2]
  BY FracIs
<1>3. PICK E \in Pos : E = D * q
  BY PosTimes
<1>4. D \in Int /\ q \in Int
  BY DEF Pos
<1>5. ValueOver(a, E)
  <2>1. p * (D * q) = (p * D) * q /\ p * D \in Int
    BY <1>4
  <2>2. Val(a, p * D, E)
    BY <1>1, <1>2, <1>3, <2>1 DEF Val
  <2> QED
    BY <2>1, <2>2 DEF ValueOver
<1>6. ASSUME NEW x, ValueOver(x, D) PROVE ValueOver(x, E)
  <2>1. PICK X \in Int : Val(x, X, D)
    BY <1>6 DEF ValueOver
  <2>2. PICK s \in Int : s = x[1]
    BY <2>1, FracIs DEF Val
  <2>3. PICK t \in Pos : t = x[2]
    BY <2>1, FracIs DEF Val
  <2>4. s * D = X * t /\ t \in Int
    BY <2>1, <2>2, <2>3 DEF Val, Pos
  <2>5. s * (D * q) = (s * D) * q /\ (X * t) * q = (X * q) * t /\ X * q \in Int
    BY <1>4, <2>4
  <2>6. s * E = (X * q) * t
    BY <1>3, <2>4, <2>5
  <2>7. Val(x, X * q, E)
    BY <1>3, <2>1, <2>2, <2>3, <2>5, <2>6 DEF Val
  <2> QED
    BY <2>5, <2>7 DEF ValueOver
<1> QED
  BY <1>5, <1>6

LEMMA ValWhole == ASSUME NEW n \in Int PROVE Whole(n) \in Frac /\ Val(Whole(n), n, 1)
  BY DEF Whole, Frac, Val, Pos

\* Values over a multiple of the denominator.
LEMMA ValScale ==
  ASSUME NEW a, NEW A, NEW D, Val(a, A, D), NEW E \in Pos
  PROVE  Val(a, A * E, D * E)
<1>1. PICK p \in Int : p = a[1]
  BY FracIs DEF Val
<1>2. PICK q \in Pos : q = a[2]
  BY FracIs DEF Val
<1>3. A \in Int /\ D \in Pos /\ D \in Int /\ q \in Int /\ E \in Int /\ p * D = A * q
  BY <1>1, <1>2 DEF Val, Pos
<1>4. p * (D * E) = (p * D) * E /\ (A * q) * E = (A * E) * q /\ A * E \in Int
  BY <1>3
<1>5. p * (D * E) = (A * E) * q
  BY <1>3, <1>4
<1>6. D * E \in Pos
  BY <1>3, PosTimes
<1> QED
  BY <1>1, <1>2, <1>4, <1>5, <1>6 DEF Val

LEMMA ValMul ==
  ASSUME NEW a, NEW b, NEW A, NEW B, NEW D, NEW E, Val(a, A, D), Val(b, B, E)
  PROVE  Val(Mul(a, b), A * B, D * E)
<1>1. PICK p \in Int : p = a[1]
  BY FracIs DEF Val
<1>2. PICK q \in Pos : q = a[2]
  BY FracIs DEF Val
<1>3. PICK s \in Int : s = b[1]
  BY FracIs DEF Val
<1>4. PICK t \in Pos : t = b[2]
  BY FracIs DEF Val
<1>5. A \in Int /\ B \in Int /\ D \in Pos /\ D \in Int /\ E \in Pos /\ E \in Int /\ q \in Int /\ t \in Int
  BY DEF Val, Pos
<1>6. p * D = A * q /\ s * E = B * t
  BY <1>1, <1>2, <1>3, <1>4 DEF Val
<1>7. PICK n \in Int : n = p * s
  OBVIOUS
<1>8. PICK d \in Pos : d = q * t
  BY PosTimes
<1>9. Val(Mul(a, b), n, d)
  BY <1>1, <1>2, <1>3, <1>4, <1>7, <1>8, LowestIs DEF Mul
<1>10. n * (D * E) = (A * B) * d
  <2>1. (p * s) * (D * E) = (p * D) * (s * E)
    BY <1>5
  <2>2. (A * q) * (B * t) = (A * B) * (q * t)
    BY <1>5
  <2> QED
    BY <1>6, <1>7, <1>8, <2>1, <2>2
<1>11. A * B \in Int /\ D * E \in Pos
  BY <1>5, PosTimes
<1> QED
  BY <1>9, <1>10, <1>11, Revalue

\* A quotient by a positive fraction.
LEMMA ValDiv ==
  ASSUME NEW a, NEW b, NEW A, NEW B, NEW D, Val(a, A, D), Val(b, B, D), b[1] > 0
  PROVE  Val(Div(a, b), A, B) /\ B \in Pos
<1>1. PICK p \in Int : p = a[1]
  BY FracIs DEF Val
<1>2. PICK q \in Pos : q = a[2]
  BY FracIs DEF Val
<1>3. PICK s \in Pos : s = b[1]
  BY FracIs DEF Val, Pos
<1>4. PICK t \in Pos : t = b[2]
  BY FracIs DEF Val
<1>5. /\ A \in Int /\ B \in Int /\ D \in Pos /\ D \in Int /\ q \in Int /\ t \in Int /\ s \in Int
  BY DEF Val, Pos
<1>6. p * D = A * q /\ s * D = B * t
  BY <1>1, <1>2, <1>3, <1>4 DEF Val
<1>7. B \in Pos
  <2>1. PICK u \in Pos : u = s * D
    BY <1>5, PosTimes
  <2>2. B * t = u
    BY <1>6, <2>1
  <2>3. CASE B <= 0
    <3>1. B * t <= 0
      BY <1>5, <2>3 DEF Pos
    <3> QED
      BY <2>2, <3>1 DEF Pos
  <2> QED
    BY <1>5, <2>3 DEF Pos
<1>8. PICK n \in Int : n = p * t
  BY <1>5
<1>9. PICK d \in Pos : d = q * s
  BY PosTimes
<1>10. Val(Div(a, b), n, d)
  BY <1>1, <1>2, <1>3, <1>4, <1>8, <1>9, LowestIs DEF Div
<1>11. n * B = A * d
  <2>1. ((p * t) * B) * D = (p * D) * (B * t)
    BY <1>5
  <2>2. (A * q) * (s * D) = (A * (q * s)) * D
    BY <1>5
  <2>3. (n * B) * D = (A * d) * D
    BY <1>6, <1>8, <1>9, <2>1, <2>2
  <2>4. n * B \in Int /\ A * d \in Int
    BY <1>5 DEF Pos
  <2> QED
    BY <1>5, <2>3, <2>4, CancelFactor
<1> QED
  BY <1>5, <1>7, <1>10, <1>11, Revalue

\* The operations yield fractions.
LEMMA FracOps ==
  ASSUME NEW a \in Frac, NEW b \in Frac
  PROVE  Add(a, b) \in Frac /\ Mul(a, b) \in Frac /\ Neg(a) \in Frac /\ (b[1] > 0 => Div(a, b) \in Frac)
<1>1. 1 \in Pos
  BY DEF Pos
<1>2. PICK D \in Pos : ValueOver(a, D)
  BY <1>1, Commoner
<1>3. PICK E \in Pos : ValueOver(b, E) /\ \A x : ValueOver(x, D) => ValueOver(x, E)
  BY Commoner
<1>4. ValueOver(a, E)
  BY <1>2, <1>3
<1>5. PICK A \in Int : Val(a, A, E)
  BY <1>4 DEF ValueOver
<1>6. PICK B \in Int : Val(b, B, E)
  BY <1>3 DEF ValueOver
<1>7. Val(Add(a, b), A + B, E)
  BY <1>5, <1>6, ValAdd
<1>8. Val(Mul(a, b), A * B, E * E)
  BY <1>5, <1>6, ValMul
<1>9. Val(Neg(a), -A, E)
  BY <1>5, ValNeg
<1>10. b[1] > 0 => Val(Div(a, b), A, B)
  BY <1>5, <1>6, ValDiv
<1> QED
  BY <1>7, <1>8, <1>9, <1>10 DEF Val

\* Two fractions over a common denominator.
LEMMA CommonTwo ==
  ASSUME NEW a \in Frac, NEW b \in Frac
  PROVE  \E D \in Pos : ValueOver(a, D) /\ ValueOver(b, D)
<1>1. 1 \in Pos
  BY DEF Pos
<1>2. PICK D \in Pos : ValueOver(a, D)
  BY <1>1, Commoner
<1>3. PICK E \in Pos : ValueOver(b, E) /\ \A x : ValueOver(x, D) => ValueOver(x, E)
  BY Commoner
<1> QED
  BY <1>2, <1>3

\* (q + r) * a = q * a + r * a
LEMMA Distributes ==
  ASSUME NEW q \in Frac, NEW r \in Frac, NEW a \in Frac
  PROVE  Same(Mul(Add(q, r), a), Add(Mul(q, a), Mul(r, a)))
<1>1. PICK D \in Pos : ValueOver(q, D) /\ ValueOver(r, D)
  BY CommonTwo
<1>2. PICK E \in Pos : ValueOver(a, E)
  BY CommonTwo
<1>3. PICK Q \in Int : Val(q, Q, D)
  BY <1>1 DEF ValueOver
<1>4. PICK R \in Int : Val(r, R, D)
  BY <1>1 DEF ValueOver
<1>5. PICK A \in Int : Val(a, A, E)
  BY <1>2 DEF ValueOver
<1>6. Val(Add(q, r), Q + R, D)
  BY <1>3, <1>4, ValAdd
<1>7. Val(Mul(Add(q, r), a), (Q + R) * A, D * E)
  BY <1>5, <1>6, ValMul
<1>8. Val(Mul(q, a), Q * A, D * E)
  BY <1>3, <1>5, ValMul
<1>9. Val(Mul(r, a), R * A, D * E)
  BY <1>4, <1>5, ValMul
<1>10. Val(Add(Mul(q, a), Mul(r, a)), Q * A + R * A, D * E)
  BY <1>8, <1>9, ValAdd
<1>11. (Q + R) * A = Q * A + R * A
  OBVIOUS
<1> QED
  BY <1>7, <1>10, <1>11, ValSame

\* q * (p - a) = q * p - q * a, and what a sale of -q at p realizes over cost a.
LEMMA GainIs ==
  ASSUME NEW q \in Frac, NEW p \in Frac, NEW a \in Frac
  PROVE  /\ Same(Mul(q, Add(p, Neg(a))), Add(Mul(q, p), Neg(Mul(q, a))))
         /\ Same(Mul(Neg(q), Add(p, Neg(a))), Add(Neg(Mul(q, p)), Mul(q, a)))
<1>1. PICK D \in Pos : ValueOver(p, D) /\ ValueOver(a, D)
  BY CommonTwo
<1>2. PICK E \in Pos : ValueOver(q, E)
  BY CommonTwo
<1>3. PICK P \in Int : Val(p, P, D)
  BY <1>1 DEF ValueOver
<1>4. PICK A \in Int : Val(a, A, D)
  BY <1>1 DEF ValueOver
<1>5. PICK Q \in Int : Val(q, Q, E)
  BY <1>2 DEF ValueOver
<1>6. Val(Add(p, Neg(a)), P + (-A), D)
  BY <1>3, <1>4, ValNeg, ValAdd
<1>7. Val(Mul(q, Add(p, Neg(a))), Q * (P + (-A)), E * D)
  BY <1>5, <1>6, ValMul
<1>8. Val(Mul(Neg(q), Add(p, Neg(a))), (-Q) * (P + (-A)), E * D)
  BY <1>5, <1>6, ValNeg, ValMul
<1>9. Val(Mul(q, p), Q * P, E * D) /\ Val(Mul(q, a), Q * A, E * D)
  BY <1>3, <1>4, <1>5, ValMul
<1>10. Val(Add(Mul(q, p), Neg(Mul(q, a))), Q * P + (-(Q * A)), E * D)
  BY <1>9, ValNeg, ValAdd
<1>11. Val(Add(Neg(Mul(q, p)), Mul(q, a)), -(Q * P) + Q * A, E * D)
  BY <1>9, ValNeg, ValAdd
<1>12. Q * (P + (-A)) = Q * P + (-(Q * A)) /\ (-Q) * (P + (-A)) = -(Q * P) + Q * A
  OBVIOUS
<1> QED
  BY <1>7, <1>8, <1>10, <1>11, <1>12, ValSame

\* l * (m / l) = m
LEMMA AverageIs ==
  ASSUME NEW l \in Frac, NEW m \in Frac, l[1] > 0
  PROVE  Same(Mul(l, Div(m, l)), m)
<1>1. PICK D \in Pos : ValueOver(l, D) /\ ValueOver(m, D)
  BY CommonTwo
<1>2. PICK L \in Int : Val(l, L, D)
  BY <1>1 DEF ValueOver
<1>3. PICK M \in Int : Val(m, M, D)
  BY <1>1 DEF ValueOver
<1>4. Val(Div(m, l), M, L) /\ L \in Pos
  BY <1>2, <1>3, ValDiv
<1>5. Val(Mul(l, Div(m, l)), L * M, D * L)
  BY <1>2, <1>4, ValMul
<1>6. Val(m, M * L, D * L)
  BY <1>3, <1>4, ValScale
<1>7. L * M = M * L
  OBVIOUS
<1> QED
  BY <1>5, <1>6, <1>7, ValSame

\* (q * r) * (a / r) = q * a
LEMMA SplitIs ==
  ASSUME NEW q \in Frac, NEW r \in Frac, NEW a \in Frac, r[1] > 0
  PROVE  Same(Mul(Mul(q, r), Div(a, r)), Mul(q, a))
<1>1. PICK D \in Pos : ValueOver(r, D) /\ ValueOver(a, D)
  BY CommonTwo
<1>2. PICK E \in Pos : ValueOver(q, E)
  BY CommonTwo
<1>3. PICK R \in Int : Val(r, R, D)
  BY <1>1 DEF ValueOver
<1>4. PICK A \in Int : Val(a, A, D)
  BY <1>1 DEF ValueOver
<1>5. PICK Q \in Int : Val(q, Q, E)
  BY <1>2 DEF ValueOver
<1>6. Val(Div(a, r), A, R) /\ R \in Pos
  BY <1>3, <1>4, ValDiv
<1>7. Val(Mul(q, r), Q * R, E * D)
  BY <1>3, <1>5, ValMul
<1>8. Val(Mul(Mul(q, r), Div(a, r)), (Q * R) * A, (E * D) * R)
  BY <1>6, <1>7, ValMul
<1>9. Val(Mul(q, a), Q * A, E * D)
  BY <1>4, <1>5, ValMul
<1>10. Val(Mul(q, a), (Q * A) * R, (E * D) * R)
  BY <1>6, <1>9, ValScale
<1>11. (Q * R) * A = (Q * A) * R
  OBVIOUS
<1> QED
  BY <1>8, <1>10, <1>11, ValSame

-----------------------------------------------------------------------------
(* Sums of fractions.                                                      *)

FracsTo(f, n) == \A k \in 1..n : f[k] \in Frac
ValsTo(f, F, n, D) == \A k \in 1..n : Val(f[k], F[k], D)

\* The rounds of a sum of fractions.
LEMMA AddRuns ==
  ASSUME NEW n \in Nat, NEW f, FracsTo(f, n)
  PROVE  LET m == RunningAdd(f, n)
         IN  m[0] = Whole(0) /\ \A k \in 1..n : m[k] = Add(m[k - 1], f[k])
<1> DEFINE T == Frac
           F(a, k) == Add(a, f[k])
           step == [a \in T \X (1..n) |-> F(a[1], a[2])]
<1>0. PICK b \in T : b = Whole(0)
  BY ValWhole
<1>1. \A a \in T, k \in 1..n : F(a, k) \in T
  BY FracOps DEF FracsTo
<1> HIDE DEF F
<1>2. \A a \in T, k \in 1..n : step[<<a, k>>] = F(a, k)
  <2> HIDE DEF T
  <2> QED
    OBVIOUS
<1>3. \E g : RunOf(g, T, b, n, step)
  <2>1. BodyOf(T, n, step)
    <3> HIDE DEF T, step
    <3> QED
      BY <1>1, <1>2 DEF BodyOf
  <2> HIDE DEF T, step
  <2> QED
    BY <1>0, <2>1, LoopExists
<1>4. PICK g : RunOf(g, T, b, n, step)
  BY <1>3
<1>5. g \in [0..n -> T] /\ g[0] = b /\ \A k \in 1..n : g[k] = step[<<g[k - 1], k>>]
  BY <1>4 DEF RunOf
<1> HIDE DEF T, step
<1>6. \A k \in 1..n : k - 1 \in 0..n /\ g[k - 1] \in T
  BY <1>5
<1>7. \A k \in 1..n : g[k] = F(g[k - 1], k)
  BY <1>2, <1>5, <1>6
<1>8. g = [k \in 0..n |-> IF k = 0 THEN b ELSE F(g[k - 1], k)]
  BY <1>5, <1>7
<1>9. \E h : h = [k \in 0..n |-> IF k = 0 THEN b ELSE F(h[k - 1], k)]
  BY <1>8
<1>10. PICK m : m = RunningAdd(f, n)
  OBVIOUS
<1>11. m = [k \in 0..n |-> IF k = 0 THEN b ELSE F(m[k - 1], k)]
  BY <1>0, <1>9, <1>10 DEF RunningAdd, F
<1>12. m[0] = b /\ \A k \in 1..n : m[k] = F(m[k - 1], k)
  BY <1>11
<1> QED
  BY <1>0, <1>10, <1>12 DEF F

\* The sum has the sum of the values as its value.
LEMMA AddToVal ==
  ASSUME NEW n \in Nat, NEW f, NEW F, NEW D \in Pos, ValsTo(f, F, n, D)
  PROVE  Val(AddTo(f, n), SumTo(F, n), D)
<1>0. FracsTo(f, n) /\ IntsTo(F, n)
  BY DEF ValsTo, FracsTo, IntsTo, Val
<1>1. PICK m : m = RunningAdd(f, n)
  OBVIOUS
<1>2. m[0] = Whole(0) /\ \A k \in 1..n : m[k] = Add(m[k - 1], f[k])
  BY <1>0, <1>1, AddRuns
<1> DEFINE G(k) == SumTo(F, k)
<1>3. G(0) = 0 /\ \A k \in 1..n : G(k) = G(k - 1) + F[k]
  BY <1>0, SumIs
<1> HIDE DEF G
<1> DEFINE S == {k \in 0..n : Val(m[k], G(k), D)}
<1>4. 0 \in S
  <2>1. Val(Whole(0), 0, 1)
    BY ValWhole
  <2>2. Val(Whole(0), 0, D)
    <3>1. 1 \in Pos /\ 0 * D = 0 * 1
      BY DEF Pos
    <3> QED
      BY <2>1, <3>1, Revalue
  <2> QED
    BY <1>2, <1>3, <2>2
<1>5. ASSUME NEW k \in 0..n-1, k \in S PROVE k + 1 \in S
  <2>1. k + 1 \in 1..n /\ k + 1 \in 0..n /\ (k + 1) - 1 = k
    OBVIOUS
  <2>2. m[k + 1] = Add(m[k], f[k + 1]) /\ G(k + 1) = G(k) + F[k + 1]
    BY <1>2, <1>3, <2>1
  <2>3. Val(m[k], G(k), D) /\ Val(f[k + 1], F[k + 1], D)
    BY <1>5, <2>1 DEF ValsTo
  <2>4. Val(m[k + 1], G(k + 1), D)
    BY <2>2, <2>3, ValAdd
  <2> QED
    BY <2>1, <2>4
<1>6. n \in S
  <2> HIDE DEF S
  <2>1. \A k \in 0..n : k \in S
    BY <1>4, <1>5, CountUp
  <2> QED
    BY <2>1
<1> QED
  BY <1>1, <1>6 DEF AddTo, G

\* A denominator that does for D does for E.
Finer(E, D) == \A x : ValueOver(x, D) => ValueOver(x, E)

\* A common denominator for the entries of a sum as well.
LEMMA CommonAll ==
  ASSUME NEW n \in Nat, NEW f, FracsTo(f, n), NEW D \in Pos
  PROVE  \E E \in Pos : Finer(E, D) /\ \E F : ValsTo(f, F, n, E)
<1> DEFINE P(k) == \E E \in Pos : Finer(E, D) /\ \A i \in 1..k : ValueOver(f[i], E)
           S == {k \in 0..n : P(k)}
<1>1. 0 \in S
  BY DEF Finer
<1>2. ASSUME NEW k \in 0..n-1, k \in S PROVE k + 1 \in S
  <2>1. PICK E \in Pos : Finer(E, D) /\ \A i \in 1..k : ValueOver(f[i], E)
    BY <1>2
  <2>2. k + 1 \in 1..n /\ k + 1 \in 0..n /\ f[k + 1] \in Frac
    BY DEF FracsTo
  <2>3. PICK G \in Pos : ValueOver(f[k + 1], G) /\ \A x : ValueOver(x, E) => ValueOver(x, G)
    BY <2>2, Commoner
  <2>4. Finer(G, D)
    BY <2>1, <2>3 DEF Finer
  <2>5. \A i \in 1..k + 1 : ValueOver(f[i], G)
    <3> SUFFICES ASSUME NEW i \in 1..k + 1 PROVE ValueOver(f[i], G)
      OBVIOUS
    <3>1. i \in 1..k \/ i = k + 1
      OBVIOUS
    <3> QED
      BY <2>1, <2>3, <3>1
  <2>6. P(k + 1)
    BY <2>4, <2>5
  <2> QED
    BY <2>2, <2>6
<1>3. n \in S
  <2> HIDE DEF S
  <2>1. \A k \in 0..n : k \in S
    BY <1>1, <1>2, CountUp
  <2> QED
    BY <2>1
<1>4. PICK E \in Pos : Finer(E, D) /\ \A i \in 1..n : ValueOver(f[i], E)
  BY <1>3
<1> DEFINE F == [k \in 1..n |-> CHOOSE A \in Int : Val(f[k], A, E)]
<1>5. ASSUME NEW k \in 1..n PROVE Val(f[k], F[k], E)
  <2>1. \E A \in Int : Val(f[k], A, E)
    BY <1>4 DEF ValueOver
  <2>2. F[k] = CHOOSE A \in Int : Val(f[k], A, E)
    OBVIOUS
  <2> HIDE DEF F
  <2> QED
    BY <2>1, <2>2
<1>6. ValsTo(f, F, n, E)
  BY <1>5 DEF ValsTo
<1> HIDE DEF F
<1> QED
  BY <1>4, <1>6

LEMMA CoversOne ==
  ASSUME NEW D \in Pos, NEW a \in Frac
  PROVE  \E E \in Pos : Finer(E, D) /\ ValueOver(a, E)
BY Commoner DEF Finer

=============================================================================
