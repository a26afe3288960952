----------------------------- MODULE Arithmetic -----------------------------
(***************************************************************************)
(* Sums and exact fractions, for the components that keep money and        *)
(* quantities.  A loop over numbered entries is a recursive function.      *)
(***************************************************************************)
EXTENDS Integers, FiniteSetsExt

\* f[1] + ... + f[n], round by round.
RunningSum(f, n) ==
  LET s[k \in 0..n] == IF k = 0 THEN 0 ELSE s[k - 1] + f[k] IN s
SumTo(f, n) == RunningSum(f, n)[n]

-----------------------------------------------------------------------------
\* Fractions <<n, d>> with d > 0, in lowest terms.
Frac == Int \X (Nat \ {0})
Whole(n) == <<n, 1>>
Divisors(n, d) == {k \in 1..d : n % k = 0 /\ d % k = 0}
Lowest(n, d) == LET g == Max(Divisors(n, d)) IN <<n \div g, d \div g>>
Add(a, b) == Lowest(a[1] * b[2] + b[1] * a[2], a[2] * b[2])
Mul(a, b) == Lowest(a[1] * b[1], a[2] * b[2])
Neg(a)    == <<-a[1], a[2]>>
Div(a, b) == Lowest(a[1] * b[2], a[2] * b[1])  \* for b > 0
Same(a, b)     == a[1] * b[2] = b[1] * a[2]
NotBelow(a, b) == a[1] * b[2] >= b[1] * a[2]

RunningAdd(f, n) ==
  LET s[k \in 0..n] == IF k = 0 THEN Whole(0) ELSE Add(s[k - 1], f[k]) IN s
AddTo(f, n) == RunningAdd(f, n)[n]

=============================================================================
