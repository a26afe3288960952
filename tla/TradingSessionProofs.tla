------------------------ MODULE TradingSessionProofs ------------------------
(***************************************************************************)
(* Proofs about TradingSession, for any symbols, quotes, sizes, fees and   *)
(* numbers of orders and sessions.                                         *)
(***************************************************************************)
EXTENDS MCSession, Counting, SequenceTheorems

-----------------------------------------------------------------------------
\* Books of n orders none of which is filled beyond its quantity, and markets with
\* such a book.
OrderBooks(n) ==
  {os \in Seq(OrderType) : Len(os) = n /\ \A i \in 1..n : os[i].filled <= os[i].qty}
Markets(n) == [book : AccountType, ords : OrderBooks(n)]
StoppedIn(os, s) == Cardinality(CoveredShares(os, s))

\* A fee is never more than what it is charged on.
LEMMA FeesBounded ==
  ASSUME NEW c \in Nat
  PROVE  Fees(c) \in Nat /\ Fees(c) <= c
<1>1. FeeDiv \in Nat /\ FeeDiv > 0
  BY SessionAssumption
<1>2. c \div FeeDiv \in Int /\ c % FeeDiv \in 0..(FeeDiv - 1)
      /\ c = FeeDiv * (c \div FeeDiv) + (c % FeeDiv)
  BY <1>1
<1> DEFINE d == c \div FeeDiv
<1> HIDE DEF d
<1>3. d \in Int /\ FeeDiv * d <= c /\ c < FeeDiv * d + FeeDiv
  BY <1>1, <1>2 DEF d
<1>4. d >= 0
  <2>1. SUFFICES ASSUME d <= -1 PROVE FALSE
    BY <1>3
  <2>2. FeeDiv * d <= FeeDiv * (-1)
    BY <1>1, <1>3, <2>1
  <2> QED
    BY <1>1, <1>3, <2>2
<1>5. d <= FeeDiv * d
  BY <1>1, <1>3, <1>4
<1>6. Fees(c) = d
  BY DEF Fees, d
<1> QED
  BY <1>1, <1>3, <1>4, <1>5, <1>6

\* The prices at which orders fill.
LEMMA FillPriceType ==
  ASSUME price \in [Sym -> Prices], NEW o \in OrderType
  PROVE  FillPrice(o) \in Nat /\ (o.kind = "entry" => FillPrice(o) > 0)
<1>1. o.sym \in Sym /\ o.stop \in Int
  BY DEF OrderType
<1>2. price[o.sym] \in Prices
  BY <1>1
<1>3. price[o.sym] \in Nat /\ price[o.sym] > 0 /\ Slip \in Nat
  <2>1. Prices \subseteq Nat \ {0} /\ Slip \in Nat
    BY SessionAssumption
  <2>2. price[o.sym] \in Nat \ {0}
    BY <1>2, <2>1, Zenon
  <2> QED
    BY <2>1, <2>2
<1> QED
  BY <1>1, <1>3 DEF FillPrice, Larger

\* What fills: never more than is left, something of an order that can be halved,
\* everything unless the broker fills in parts.
LEMMA FillQtyType ==
  ASSUME NEW o \in OrderType, o.filled <= o.qty, Left(o) # 0
  PROVE  /\ Left(o) \in Nat /\ FillQty(o) \in Nat /\ FillQty(o) <= Left(o)
         /\ Halvable(o) => FillQty(o) > 0
         /\ fault # "PARTIAL_FILL" => FillQty(o) = Left(o)
<1>1. o.qty \in Nat /\ o.filled \in Nat
  BY DEF OrderType
<1>2. Left(o) \in Nat /\ Left(o) > 0
  BY <1>1 DEF Left
<1> QED
  BY <1>2 DEF FillQty, Halvable

\* Order o, which is number i of market m, may fill q shares for c.
CanFill(m, i, o, q, c) ==
  /\ o = m.ords[i] /\ q \in Nat /\ c \in Nat
  /\ q <= Left(o) /\ ~Lacking(m.book, o, q, c)

\* The three things that can come of trying an order.
LEMMA ExecuteCases ==
  ASSUME price \in [Sym -> Prices], NEW n \in Nat, NEW m \in Markets(n), NEW i \in 1..n,
         NEW o, o = m.ords[i]
  PROVE  /\ o \in OrderType /\ o.filled <= o.qty
         /\ \/ /\ Execute(m, i) = m
               /\ FillPrice(o) = 0 \/ Left(o) = 0 \/ o.filled # 0
            \/ /\ Execute(m, i) = Rejected(m, i)
               /\ Lacking(m.book, o, FillQty(o), FillQty(o) * FillPrice(o))
               /\ FillPrice(o) # 0 /\ Left(o) # 0 /\ o.filled = 0
            \/ \E q, c \in Nat :
                 /\ Execute(m, i) = Filled(m, i, q, c) /\ CanFill(m, i, o, q, c)
                 /\ FillPrice(o) # 0 /\ Left(o) # 0 /\ q = FillQty(o)
<1>1. m.ords \in OrderBooks(n)
  BY DEF Markets
<1>2. m.ords \in Seq(OrderType) /\ Len(m.ords) = n /\ o.filled <= o.qty
  BY <1>1 DEF OrderBooks
<1>3. o \in OrderType
  BY <1>2, ElementOfSeq
<1>4. CASE FillPrice(o) = 0 \/ Left(o) = 0
  BY <1>2, <1>3, <1>4 DEF Execute
<1>5. CASE FillPrice(o) # 0 /\ Left(o) # 0
  <2> DEFINE q == FillQty(o)
             p == FillPrice(o)
             c == q * p
  <2>1. q \in Nat /\ q <= Left(o) /\ p \in Nat
    BY <1>2, <1>3, <1>5, FillQtyType, FillPriceType
  <2>2. c \in Nat
    BY <2>1
  <2>3. CASE Lacking(m.book, o, q, c)
    BY <1>2, <1>3, <1>5, <2>3 DEF Execute
  <2>4. CASE ~Lacking(m.book, o, q, c)
    <3>1. Execute(m, i) = Filled(m, i, q, c)
      BY <1>5, <2>4 DEF Execute
    <3>2. CanFill(m, i, o, q, c)
      BY <2>1, <2>2, <2>4 DEF CanFill
    <3> HIDE DEF c
    <3> QED
      BY <1>2, <1>3, <1>5, <2>1, <2>2, <3>1, <3>2
  <2> QED
    BY <2>3, <2>4
<1> QED
  BY <1>4, <1>5

\* Two books that differ in order i only.
SameBut(os, new, n, i) == \A j \in 1..n : j # i => new[j] = os[j]

\* A book in which one order is replaced.
LEMMA BookReplaced ==
  ASSUME NEW n \in Nat, NEW os \in OrderBooks(n), NEW i \in 1..n,
         NEW o \in OrderType, o.filled <= o.qty
  PROVE  /\ [os EXCEPT ![i] = o] \in OrderBooks(n)
         /\ [os EXCEPT ![i] = o][i] = o
         /\ SameBut(os, [os EXCEPT ![i] = o], n, i)
<1>1. os \in Seq(OrderType) /\ Len(os) = n
  BY DEF OrderBooks
<1>2. [os EXCEPT ![i] = o] \in Seq(OrderType) /\ Len([os EXCEPT ![i] = o]) = n
  BY <1>1, ExceptSeq
<1>3. DOMAIN os = 1..n
  BY <1>1, LenProperties
<1>4. /\ [os EXCEPT ![i] = o][i] = o
      /\ \A j \in 1..n : j # i => [os EXCEPT ![i] = o][j] = os[j]
  BY <1>3
<1> QED
  BY <1>2, <1>4 DEF OrderBooks, SameBut

\* Moving an order on keeps what it is for.
LEMMA AtBrokerType ==
  ASSUME NEW o \in OrderType, NEW k \in Nat, NEW st \in OrderState
  PROVE  /\ AtBroker(o, k, st) \in OrderType
         /\ AtBroker(o, k, st).filled = k /\ AtBroker(o, k, st).at = st
         /\ AtBroker(o, k, st).kind = o.kind /\ AtBroker(o, k, st).sym = o.sym
         /\ AtBroker(o, k, st).qty = o.qty /\ AtBroker(o, k, st).stop = o.stop
         /\ AtBroker(o, k, st).sm = o.sm
  BY DEF AtBroker, OrderType

\* The engine moving an order on changes its own state of it only.
LEMMA AtEngineType ==
  ASSUME NEW o \in OrderType, NEW st \in OrderState
  PROVE  /\ AtEngine(o, st) \in OrderType
         /\ AtEngine(o, st).filled = o.filled /\ AtEngine(o, st).at = o.at
         /\ AtEngine(o, st).kind = o.kind /\ AtEngine(o, st).sym = o.sym
         /\ AtEngine(o, st).qty = o.qty /\ AtEngine(o, st).stop = o.stop
         /\ AtEngine(o, st).sm = st
  BY DEF AtEngine, OrderType

\* A rejection touches the one order only.
LEMMA RejectedEffect ==
  ASSUME NEW n \in Nat, NEW m \in Markets(n), NEW i \in 1..n
  PROVE  LET x == Rejected(m, i)
             o == m.ords[i]
         IN  /\ x \in Markets(n) /\ x.book = m.book
             /\ x.ords[i] \in OrderType /\ x.ords[i].at = "REJECTED"
             /\ x.ords[i].kind = o.kind /\ x.ords[i].sym = o.sym /\ x.ords[i].sm = o.sm
             /\ SameBut(m.ords, x.ords, n, i)
<1> DEFINE o == m.ords[i]
           r == AtBroker(o, o.filled, "REJECTED")
<1>1. m.book \in AccountType /\ m.ords \in OrderBooks(n)
  BY DEF Markets
<1>2. m.ords \in Seq(OrderType) /\ Len(m.ords) = n /\ o.filled <= o.qty
  BY <1>1 DEF OrderBooks
<1>3. o \in OrderType
  BY <1>2, ElementOfSeq
<1>4. o.filled \in Nat
  BY <1>3 DEF OrderType
<1>5. "REJECTED" \in OrderState
  BY DEF OrderState
<1>6. r \in OrderType /\ r.filled = o.filled /\ r.at = "REJECTED"
      /\ r.kind = o.kind /\ r.sym = o.sym /\ r.qty = o.qty /\ r.sm = o.sm
  <2> DEFINE k == o.filled
  <2>1. k \in Nat
    BY <1>4
  <2> HIDE DEF o, k
  <2>2. AtBroker(o, k, "REJECTED") \in OrderType
        /\ AtBroker(o, k, "REJECTED").filled = k /\ AtBroker(o, k, "REJECTED").at = "REJECTED"
        /\ AtBroker(o, k, "REJECTED").kind = o.kind /\ AtBroker(o, k, "REJECTED").sym = o.sym
        /\ AtBroker(o, k, "REJECTED").qty = o.qty /\ AtBroker(o, k, "REJECTED").sm = o.sm
    BY <1>3, <1>5, <2>1, AtBrokerType
  <2> QED
    BY <2>2 DEF k
<1>7. Rejected(m, i) = [book |-> m.book, ords |-> [m.ords EXCEPT ![i] = r]]
  BY <1>2, LenProperties DEF Rejected, Market
<1> HIDE DEF o, r
<1>8. r.filled <= r.qty
  BY <1>2, <1>6
<1>9. /\ [m.ords EXCEPT ![i] = r] \in OrderBooks(n)
      /\ [m.ords EXCEPT ![i] = r][i] = r
      /\ SameBut(m.ords, [m.ords EXCEPT ![i] = r], n, i)
  BY <1>1, <1>6, <1>8, BookReplaced
<1> QED
  BY <1>1, <1>6, <1>7, <1>9 DEF Markets, o

\* A fill moves shares one way and cash the other.
FillOf(o, q, c) ==
  [sym |-> o.sym, qty |-> IF o.kind = "entry" THEN q ELSE -q, fee |-> Fees(c),
   cash |-> IF o.kind = "entry" THEN -c ELSE c]

\* What a fill of q shares of order o, number i, makes of a market.
FillEffect(m, x, n, i, o, q, f) ==
  /\ x \in Markets(n) /\ f \in FillType
  /\ x.book.fills = Append(m.book.fills, f)
  /\ x.book.pos = [m.book.pos EXCEPT ![o.sym] = @ + f.qty]
  /\ x.book.settled + x.book.unsettled = m.book.settled + m.book.unsettled + f.cash - f.fee
  /\ x.ords[i] \in OrderType /\ x.ords[i].kind = o.kind /\ x.ords[i].sym = o.sym
  /\ x.ords[i].sm = o.sm /\ Left(x.ords[i]) = Left(o) - q
  /\ x.ords[i].at \in {"FILLED", "PARTIALLY_FILLED"}
  /\ x.ords[i].at = "FILLED" <=> q = Left(o)
  /\ SameBut(m.ords, x.ords, n, i)

\* What a fill changes.
LEMMA FilledEffect ==
  ASSUME NEW n \in Nat, NEW m \in Markets(n), NEW i \in 1..n, NEW o, NEW q, NEW c,
         CanFill(m, i, o, q, c)
  PROVE  FillEffect(m, Filled(m, i, q, c), n, i, o, q, FillOf(o, q, c))
<1>a. PICK x : x = Filled(m, i, q, c)
  OBVIOUS
<1>b. PICK f : f = FillOf(o, q, c)
  OBVIOUS
<1>c. o = m.ords[i] /\ q \in Nat /\ c \in Nat /\ q <= Left(o) /\ ~Lacking(m.book, o, q, c)
  BY DEF CanFill
<1> DEFINE st == IF o.filled + q = o.qty THEN "FILLED" ELSE "PARTIALLY_FILLED"
           r == AtBroker(o, o.filled + q, st)
<1>1. m.book \in AccountType /\ m.ords \in OrderBooks(n)
  BY DEF Markets
<1>2. m.ords \in Seq(OrderType) /\ Len(m.ords) = n /\ o.filled <= o.qty
  BY <1>1, <1>c DEF OrderBooks
<1>3. o \in OrderType
  BY <1>2, <1>c, ElementOfSeq
<1>4. o.filled \in Nat /\ o.qty \in Nat /\ o.sym \in Sym /\ o.kind \in {"entry", "stop"}
  BY <1>3 DEF OrderType
<1>5. st \in OrderState /\ o.filled + q \in Nat /\ o.filled + q <= o.qty
      /\ st \in {"FILLED", "PARTIALLY_FILLED"} /\ (st = "FILLED" <=> q = Left(o))
  BY <1>4, <1>c DEF OrderState, Left
<1>6. r \in OrderType /\ r.filled = o.filled + q /\ r.at = st
      /\ r.kind = o.kind /\ r.sym = o.sym /\ r.qty = o.qty /\ r.sm = o.sm
  <2> DEFINE k == o.filled + q
  <2>1. k \in Nat
    BY <1>5
  <2> HIDE DEF st, k
  <2>0. st \in OrderState
    BY <1>5
  <2> HIDE DEF r
  <2>2. AtBroker(o, k, st) \in OrderType
        /\ AtBroker(o, k, st).filled = k /\ AtBroker(o, k, st).at = st
        /\ AtBroker(o, k, st).kind = o.kind /\ AtBroker(o, k, st).sym = o.sym
        /\ AtBroker(o, k, st).qty = o.qty /\ AtBroker(o, k, st).sm = o.sm
    BY <1>3, <2>0, <2>1 DEF AtBroker, OrderType
  <2> QED
    BY <2>2 DEF k, r
<1> HIDE DEF r, st
<1>7. r.filled <= r.qty /\ Left(r) = Left(o) - q
  BY <1>4, <1>5, <1>6, <1>c DEF Left
<1>8. /\ [m.ords EXCEPT ![i] = r] \in OrderBooks(n)
      /\ [m.ords EXCEPT ![i] = r][i] = r
      /\ SameBut(m.ords, [m.ords EXCEPT ![i] = r], n, i)
  BY <1>1, <1>6, <1>7, BookReplaced
<1>9. Fees(c) \in Nat /\ Fees(c) <= c
  BY <1>c, FeesBounded
<1>10. m.book.settled \in Nat /\ m.book.unsettled \in Nat /\ m.book.pos \in [Sym -> Nat]
       /\ m.book.fills \in Seq(FillType)
  BY <1>1 DEF AccountType
<1>11. f \in FillType /\ f.qty = (IF o.kind = "entry" THEN q ELSE -q) /\ f.fee = Fees(c)
       /\ f.cash = (IF o.kind = "entry" THEN -c ELSE c) /\ f.sym = o.sym
  BY <1>4, <1>9, <1>b, <1>c DEF FillOf, FillType
<1> DEFINE buy == o.kind = "entry"
           S == IF buy THEN m.book.settled - c - Fees(c) ELSE m.book.settled
           U == IF buy THEN m.book.unsettled ELSE m.book.unsettled + c - Fees(c)
           P == [m.book.pos EXCEPT ![o.sym] = @ + f.qty]
           F == Append(m.book.fills, f)
<1>12. x = [book |-> [settled |-> S, unsettled |-> U, pos |-> P, fills |-> F],
            ords |-> [m.ords EXCEPT ![i] = r]]
  <2>1. f = [sym |-> o.sym, qty |-> IF buy THEN q ELSE -q, fee |-> Fees(c),
             cash |-> IF buy THEN -c ELSE c]
    BY <1>b DEF FillOf
  <2> HIDE DEF F
  <2> QED
    BY <1>11, <1>a, <1>c, <2>1 DEF Filled, Market, Account, r, st, F
<1>13. S \in Nat /\ U \in Nat /\ P \in [Sym -> Nat]
       /\ S + U = m.book.settled + m.book.unsettled + f.cash - f.fee
  <2>1. /\ o.kind = "entry" => c + Fees(c) <= m.book.settled
        /\ o.kind = "stop" => q <= m.book.pos[o.sym]
    <3>1. CASE o.kind = "entry"
      <4>1. ~(c + Fees(c) > m.book.settled)
        BY <1>c, <3>1 DEF Lacking
      <4> QED
        BY <1>9, <1>10, <1>c, <3>1, <4>1
    <3>2. CASE o.kind = "stop"
      <4>1. ~(m.book.pos[o.sym] < q)
        BY <1>c, <3>2 DEF Lacking
      <4> QED
        BY <1>4, <1>10, <1>c, <3>2, <4>1
    <3> QED
      BY <1>4, <3>1, <3>2
  <2>2. S \in Nat /\ U \in Nat
        /\ S + U = m.book.settled + m.book.unsettled + f.cash - f.fee
    <3>1. CASE o.kind = "entry"
      <4>1. S = m.book.settled - c - Fees(c) /\ U = m.book.unsettled
        BY <3>1
      <4>2. f.cash = -c /\ f.fee = Fees(c) /\ c + Fees(c) <= m.book.settled
        BY <1>11, <2>1, <3>1
      <4> HIDE DEF S, U
      <4>3. PICK had \in Nat : had = m.book.settled
        BY <1>10
      <4>4. PICK due \in Nat : due = m.book.unsettled
        BY <1>10
      <4>5. PICK fee \in Nat : fee = Fees(c)
        BY <1>9
      <4>6. S = had - c - fee /\ U = due /\ f.cash = -c /\ f.fee = fee /\ c + fee <= had
        BY <4>1, <4>2, <4>3, <4>4, <4>5
      <4> QED
        BY <1>c, <4>3, <4>4, <4>6
    <3>2. CASE o.kind = "stop"
      <4>1. S = m.book.settled /\ U = m.book.unsettled + c - Fees(c)
        BY <3>2
      <4>2. f.cash = c /\ f.fee = Fees(c)
        BY <1>11, <3>2
      <4> HIDE DEF S, U
      <4>3. PICK had \in Nat : had = m.book.settled
        BY <1>10
      <4>4. PICK due \in Nat : due = m.book.unsettled
        BY <1>10
      <4>5. PICK fee \in Nat : fee = Fees(c) /\ fee <= c
        BY <1>9
      <4>6. S = had /\ U = due + c - fee /\ f.cash = c /\ f.fee = fee
        BY <4>1, <4>2, <4>3, <4>4, <4>5
      <4> QED
        BY <1>c, <4>3, <4>4, <4>5, <4>6
    <3> QED
      BY <1>4, <3>1, <3>2
  <2>3. m.book.pos[o.sym] + f.qty \in Nat
    <3>0. m.book.pos[o.sym] \in Nat
      BY <1>4, <1>10
    <3>1. CASE o.kind = "entry"
      BY <1>11, <1>c, <3>0, <3>1
    <3>2. CASE o.kind = "stop"
      BY <1>11, <1>c, <2>1, <3>0, <3>2
    <3> QED
      BY <1>4, <3>1, <3>2
  <2> QED
    BY <1>10, <2>2, <2>3
<1>14. F \in Seq(FillType)
  BY <1>10, <1>11, AppendProperties
<1> HIDE DEF S, U, P, F
<1>15. x.book \in AccountType
  BY <1>12, <1>13, <1>14 DEF AccountType
<1>16. x.book.settled = S /\ x.book.unsettled = U /\ x.book.pos = P /\ x.book.fills = F
       /\ x.ords = [m.ords EXCEPT ![i] = r]
  BY <1>12
<1>17. x \in Markets(n)
  BY <1>8, <1>12, <1>15 DEF Markets
<1>18. /\ x.book.fills = Append(m.book.fills, f)
       /\ x.book.pos = [m.book.pos EXCEPT ![o.sym] = @ + f.qty]
       /\ x.book.settled + x.book.unsettled
            = m.book.settled + m.book.unsettled + f.cash - f.fee
  BY <1>13, <1>16 DEF P, F
<1>19. x.ords[i] = r /\ SameBut(m.ords, x.ords, n, i)
  BY <1>8, <1>16
<1> QED
  BY <1>5, <1>6, <1>7, <1>11, <1>17, <1>18, <1>19, <1>a, <1>b DEF FillEffect

-----------------------------------------------------------------------------
\* What one order covers.
LEMMA CoversType ==
  ASSUME NEW o \in OrderType, o.filled <= o.qty, NEW s
  PROVE  Covers(o, s) \in Nat
<1>1. o.qty \in Nat /\ o.filled \in Nat
  BY DEF OrderType
<1> QED
  BY <1>1 DEF Covers, Left

\* The orders of a book.
LEMMA BookOrders ==
  ASSUME NEW n \in Nat, NEW os \in OrderBooks(n)
  PROVE  /\ DOMAIN os = 1..n /\ os \in Seq(OrderType) /\ Len(os) = n
         /\ \A i \in 1..n : os[i] \in OrderType /\ os[i].filled <= os[i].qty
         /\ \A i \in 1..n, s \in Sym : Covers(os[i], s) \in Nat
<1>1. os \in Seq(OrderType) /\ Len(os) = n /\ \A i \in 1..n : os[i].filled <= os[i].qty
  BY DEF OrderBooks
<1>2. DOMAIN os = 1..n
  BY <1>1, LenProperties
<1>3. \A i \in 1..n : os[i] \in OrderType
  BY <1>1, ElementOfSeq
<1> QED
  BY <1>1, <1>2, <1>3, CoversType

\* The covered shares, owner by owner.
LEMMA CoveredByOwner ==
  ASSUME NEW n \in Nat, NEW os \in OrderBooks(n), NEW s \in Sym, NEW c,
         \A i \in 1..n : c[i] = Covers(os[i], s)
  PROVE  CoveredShares(os, s) = SharesOf(c, 1..n)
<1>1. DOMAIN os = 1..n
  BY BookOrders
<1> QED
  BY <1>1 DEF CoveredShares, SharesOf

\* What is covered when one order of the book changes.
LEMMA StoppedChanges ==
  ASSUME NEW n \in Nat, NEW os \in OrderBooks(n), NEW new \in OrderBooks(n), NEW i \in 1..n,
         SameBut(os, new, n, i), NEW s \in Sym
  PROVE  /\ StoppedIn(os, s) \in Nat /\ StoppedIn(new, s) \in Nat
         /\ StoppedIn(new, s) = StoppedIn(os, s) - Covers(os[i], s) + Covers(new[i], s)
         /\ Covers(os[i], s) <= StoppedIn(os, s)
<1>1. PICK c : c = [j \in 1..n |-> Covers(os[j], s)]
  OBVIOUS
<1>2. PICK d : d = [j \in 1..n |-> Covers(new[j], s)]
  OBVIOUS
<1>3. OneChanged(c, d, n, i)
  BY <1>1, <1>2, BookOrders DEF OneChanged, SameBut
<1>4. CoveredShares(os, s) = SharesOf(c, 1..n) /\ CoveredShares(new, s) = SharesOf(d, 1..n)
  BY <1>1, <1>2, CoveredByOwner
<1>5. PICK a \in Nat : a = Covers(os[i], s)
  BY BookOrders
<1>6. PICK b \in Nat : b = Covers(new[i], s)
  BY BookOrders
<1>7. c[i] = a /\ d[i] = b
  BY <1>1, <1>2, <1>5, <1>6
<1>8. PICK k \in Nat : /\ Cardinality(SharesOf(c, 1..n)) = k + a
                       /\ Cardinality(SharesOf(d, 1..n)) = k + b
  <2>1. a \in Nat /\ b \in Nat
    BY <1>5, <1>6
  <2> QED
    BY <1>3, <1>7, <2>1, OwnerChanged
<1> QED
  BY <1>4, <1>5, <1>6, <1>8 DEF StoppedIn

\* What is covered when an order joins the book.
LEMMA StoppedGrows ==
  ASSUME NEW n \in Nat, NEW os \in OrderBooks(n), NEW o \in OrderType, o.filled <= o.qty,
         NEW s \in Sym
  PROVE  /\ Append(os, o) \in OrderBooks(n + 1)
         /\ Append(os, o)[n + 1] = o /\ \A j \in 1..n : Append(os, o)[j] = os[j]
         /\ StoppedIn(os, s) \in Nat
         /\ StoppedIn(Append(os, o), s) = StoppedIn(os, s) + Covers(o, s)
<1> DEFINE new == Append(os, o)
<1>1. os \in Seq(OrderType) /\ Len(os) = n
      /\ \A i \in 1..n : os[i] \in OrderType /\ os[i].filled <= os[i].qty
  BY BookOrders
<1>2. new \in Seq(OrderType) /\ Len(new) = n + 1 /\ new[n + 1] = o
      /\ \A j \in 1..n : new[j] = os[j]
  BY <1>1, AppendProperties
<1> HIDE DEF new
<1>3. new \in OrderBooks(n + 1)
  <2>1. \A j \in 1..(n + 1) : j \in 1..n \/ j = n + 1
    OBVIOUS
  <2> QED
    BY <1>1, <1>2, <2>1 DEF OrderBooks
<1> DEFINE c == [j \in 1..(n + 1) |-> Covers(new[j], s)]
<1>4. /\ c[n + 1] = Covers(o, s) /\ c[n + 1] \in Nat
      /\ \A j \in 1..n : c[j] = Covers(os[j], s) /\ c[j] \in Nat
  BY <1>2, BookOrders, CoversType
<1>5. \A j \in 1..(n + 1) : c[j] = Covers(new[j], s)
  OBVIOUS
<1> HIDE DEF c
<1>6. CoveredShares(os, s) = SharesOf(c, 1..n)
  BY <1>4, CoveredByOwner
<1>7. CoveredShares(new, s) = SharesOf(c, 1..(n + 1))
  <2>1. n + 1 \in Nat
    OBVIOUS
  <2> QED
    BY <1>3, <1>5, <2>1, CoveredByOwner
<1>8. IsFiniteSet(SharesOf(c, 1..n))
  BY <1>4, SharesOfFinite
<1>9. 1..(n + 1) = (1..n) \cup {n + 1} /\ n + 1 \notin 1..n
  OBVIOUS
<1>10. Cardinality(SharesOf(c, (1..n) \cup {n + 1})) = Cardinality(SharesOf(c, 1..n)) + c[n + 1]
  BY <1>4, <1>8, <1>9, OwnerAdded
<1>11. Cardinality(SharesOf(c, 1..n)) \in Nat
  BY <1>8, FS_CardinalityType
<1> QED
  BY <1>2, <1>3, <1>4, <1>6, <1>7, <1>9, <1>10, <1>11 DEF StoppedIn, new

\* Orders that the engine looks at cover what they covered.
LEMMA StoppedStays ==
  ASSUME NEW n \in Nat, NEW os \in OrderBooks(n), NEW new \in OrderBooks(n), NEW s \in Sym,
         \A j \in 1..n : Covers(new[j], s) = Covers(os[j], s)
  PROVE  StoppedIn(new, s) = StoppedIn(os, s)
<1> DEFINE c == [j \in 1..n |-> Covers(os[j], s)]
<1>1. /\ \A j \in 1..n : c[j] = Covers(os[j], s)
      /\ \A j \in 1..n : c[j] = Covers(new[j], s)
  OBVIOUS
<1> HIDE DEF c
<1>2. CoveredShares(os, s) = SharesOf(c, 1..n) /\ CoveredShares(new, s) = SharesOf(c, 1..n)
  BY <1>1, CoveredByOwner
<1> QED
  BY <1>2 DEF StoppedIn

-----------------------------------------------------------------------------
\* Trying an order keeps a market a market.
LEMMA ExecuteType ==
  ASSUME price \in [Sym -> Prices], NEW n \in Nat, NEW m \in Markets(n), NEW i \in 1..n
  PROVE  Execute(m, i) \in Markets(n) /\ Retry(m, i) \in Markets(n)
<1>1. PICK o : o = m.ords[i]
  OBVIOUS
<1>2. CASE Execute(m, i) = m
  BY <1>2 DEF Retry
<1>3. CASE Execute(m, i) = Rejected(m, i)
  BY <1>3, RejectedEffect DEF Retry
<1>4. CASE \E q, c \in Nat : Execute(m, i) = Filled(m, i, q, c) /\ CanFill(m, i, o, q, c)
  <2>1. PICK q, c \in Nat : Execute(m, i) = Filled(m, i, q, c) /\ CanFill(m, i, o, q, c)
    BY <1>4
  <2>2. FillEffect(m, Filled(m, i, q, c), n, i, o, q, FillOf(o, q, c))
    BY <2>1, FilledEffect
  <2> QED
    BY <2>1, <2>2 DEF Retry, FillEffect
<1> QED
  BY <1>1, <1>2, <1>3, <1>4, ExecuteCases

\* The market before the first resting order is tried.
LEMMA MarketType ==
  ASSUME TypeOK
  PROVE  /\ Market(NoFills(broker), orders) \in Markets(Len(orders))
         /\ Len(orders) \in Nat /\ orders \in OrderBooks(Len(orders))
<1>1. broker \in AccountType /\ orders \in Seq(OrderType)
      /\ \A i \in 1..Len(orders) : orders[i].filled <= orders[i].qty
  BY DEF TypeOK, Ids
<1>2. Len(orders) \in Nat
  BY <1>1, LenProperties
<1>3. <<>> \in Seq(FillType)
  BY EmptySeq
<1>4. NoFills(broker) \in AccountType
  BY <1>1, <1>3 DEF NoFills, Account, AccountType
<1>5. orders \in OrderBooks(Len(orders))
  BY <1>1, <1>2 DEF OrderBooks
<1> QED
  BY <1>2, <1>4, <1>5 DEF Market, Markets

\* poll_resting_orders, order by order.
LEMMA PollsRun ==
  ASSUME TypeOK
  PROVE  /\ Polls \in [0..Len(orders) -> Markets(Len(orders))]
         /\ Polls[0] = Market(NoFills(broker), orders)
         /\ \A i \in 1..Len(orders) : Polls[i] = Retry(Polls[i - 1], i)
<1> DEFINE n == Len(orders)
           T == Markets(n)
           b == Market(NoFills(broker), orders)
           step == [a \in T \X (1..n) |-> Retry(a[1], a[2])]
<1>1. n \in Nat /\ b \in T
  BY MarketType
<1>2. \A m \in T, i \in 1..n : Retry(m, i) \in T
  BY <1>1, ExecuteType DEF TypeOK
<1>3. \A m \in T, i \in 1..n : step[<<m, i>>] = Retry(m, i)
  OBVIOUS
<1>4. \E g : RunOf(g, T, b, n, step)
  <2>1. BodyOf(T, n, step)
    <3> HIDE DEF T, b, n, step
    <3> QED
      BY <1>2, <1>3 DEF BodyOf
  <2> HIDE DEF T, b, n, step
  <2> QED
    BY <1>1, <2>1, LoopExists
<1>5. PICK g : RunOf(g, T, b, n, step)
  BY <1>4
<1>6. g \in [0..n -> T] /\ g[0] = b /\ \A i \in 1..n : g[i] = step[<<g[i - 1], i>>]
  BY <1>5 DEF RunOf
<1> HIDE DEF T, b, n, step
<1>7. \A i \in 1..n : i - 1 \in 0..n /\ g[i - 1] \in T
  BY <1>1, <1>6
<1>8. \A i \in 1..n : g[i] = Retry(g[i - 1], i)
  BY <1>3, <1>6, <1>7
<1>9. g = [i \in 0..n |-> IF i = 0 THEN b ELSE Retry(g[i - 1], i)]
  BY <1>1, <1>6, <1>8
<1>10. \E h : h = [i \in 0..n |-> IF i = 0 THEN b ELSE Retry(h[i - 1], i)]
  BY <1>9
<1>11. Polls = [i \in 0..n |-> IF i = 0 THEN b ELSE Retry(Polls[i - 1], i)]
  BY <1>10 DEF Polls, n, b
<1>12. Polls[0] = b /\ \A i \in 1..n : Polls[i] = Retry(Polls[i - 1], i)
  BY <1>1, <1>11
<1> DEFINE S == {i \in 0..n : Polls[i] \in T}
<1>13. \A i \in 0..n : i \in S
  <2>1. 0 \in S
    BY <1>1, <1>12
  <2>2. ASSUME NEW i \in 0..n-1, i \in S PROVE i + 1 \in S
    <3>1. i + 1 \in 1..n /\ i + 1 \in 0..n /\ (i + 1) - 1 = i
      BY <1>1
    <3>2. Polls[i] \in T
      BY <2>2
    <3>3. Polls[i + 1] = Retry(Polls[i], i + 1)
      BY <1>12, <3>1
    <3>4. Retry(Polls[i], i + 1) \in T
      BY <1>2, <3>1, <3>2
    <3> QED
      BY <3>1, <3>3, <3>4
  <2> HIDE DEF S
  <2> QED
    BY <1>1, <2>1, <2>2, CountUp
<1>14. Polls \in [0..n -> T]
  BY <1>11, <1>13
<1> QED
  BY <1>12, <1>14 DEF T, b, n

-----------------------------------------------------------------------------
TallyType == [ok : BOOLEAN, ledger : LedgerType, stops : SUBSET Sym]

\* Booking one fill: refused, and then nothing but `ok' changes, or booked.
LEMMA ManageFillCases ==
  ASSUME NEW a \in TallyType, NEW f \in FillType, NEW z, z = ManageFill(a, f)
  PROVE  /\ z \in TallyType
         /\ a.ok /\ Bookable(a.ledger, f) => z.ok
         /\ \/ ~z.ok /\ z.ledger = a.ledger /\ z.stops = a.stops
            \/ /\ z.ok /\ a.ok
               /\ z.ledger.pos = [a.ledger.pos EXCEPT ![f.sym] = @ + f.qty]
               /\ z.ledger.cash = a.ledger.cash + f.cash - f.fee
               /\ z.stops = IF f.qty < 0 /\ z.ledger.pos[f.sym] = 0
                              THEN a.stops \ {f.sym} ELSE a.stops
<1>1. a.ok \in BOOLEAN /\ a.ledger \in LedgerType /\ a.stops \subseteq Sym
  BY DEF TallyType
<1>2. a.ledger.cash \in Nat /\ a.ledger.pos \in [Sym -> Nat]
  BY <1>1 DEF LedgerType
<1>3. f.sym \in Sym /\ f.qty \in Int /\ f.cash \in Int /\ f.fee \in Nat
  BY DEF FillType
<1>4. CASE ~a.ok \/ ~Bookable(a.ledger, f)
  <2>1. z = [ok |-> FALSE, ledger |-> a.ledger, stops |-> a.stops]
    BY <1>4 DEF ManageFill, Refused, Tally
  <2> QED
    BY <1>1, <1>4, <2>1 DEF TallyType
<1>5. CASE a.ok /\ Bookable(a.ledger, f)
  <2> DEFINE P == [a.ledger.pos EXCEPT ![f.sym] = @ + f.qty]
             C == a.ledger.cash + f.cash - f.fee
             St == IF f.qty < 0 /\ P[f.sym] = 0 THEN a.stops \ {f.sym} ELSE a.stops
  <2>1. a.ledger.pos[f.sym] \in Nat /\ a.ledger.pos[f.sym] + f.qty >= 0 /\ C >= 0
    BY <1>2, <1>3, <1>5 DEF Bookable
  <2>2. P \in [Sym -> Nat] /\ C \in Nat
    BY <1>2, <1>3, <2>1
  <2>3. St \subseteq Sym
    BY <1>1
  <2>4. z = [ok |-> TRUE, ledger |-> [cash |-> C, pos |-> P], stops |-> St]
    BY <1>5 DEF ManageFill, Tally, Booked
  <2> HIDE DEF P, C, St
  <2>5. [cash |-> C, pos |-> P] \in LedgerType
    BY <2>2 DEF LedgerType
  <2>6. z \in TallyType /\ z.ok /\ z.ledger.pos = P /\ z.ledger.cash = C /\ z.stops = St
    BY <2>3, <2>4, <2>5 DEF TallyType
  <2> QED
    BY <1>5, <2>6 DEF P, C, St
<1> QED
  BY <1>4, <1>5

\* manage_open_positions, fill by fill.
LEMMA ManagedRun ==
  ASSUME TypeOK, NEW fs \in Seq(FillType)
  PROVE  /\ Len(fs) \in Nat
         /\ Managed(fs) \in [0..Len(fs) -> TallyType]
         /\ Managed(fs)[0] = Tally(TRUE, ledger, openStops)
         /\ \A k \in 1..Len(fs) : Managed(fs)[k] = ManageFill(Managed(fs)[k - 1], fs[k])
<1> DEFINE n == Len(fs)
           T == TallyType
           b == Tally(TRUE, ledger, openStops)
           step == [a \in T \X (1..n) |-> ManageFill(a[1], fs[a[2]])]
<1>1. n \in Nat /\ b \in T
  <2>1. ledger \in LedgerType /\ openStops \subseteq Sym
    BY DEF TypeOK
  <2> QED
    BY <2>1, LenProperties DEF Tally, TallyType
<1>2. \A a \in T, k \in 1..n : ManageFill(a, fs[k]) \in T
  <2> TAKE a \in T, k \in 1..n
  <2>1. fs[k] \in FillType
    BY ElementOfSeq
  <2> QED
    BY <2>1, ManageFillCases
<1>3. \A a \in T, k \in 1..n : step[<<a, k>>] = ManageFill(a, fs[k])
  OBVIOUS
<1>4. \E g : RunOf(g, T, b, n, step)
  <2>1. BodyOf(T, n, step)
    <3> HIDE DEF T, b, n, step
    <3> QED
      BY <1>2, <1>3 DEF BodyOf
  <2> HIDE DEF T, b, n, step
  <2> QED
    BY <1>1, <2>1, LoopExists
<1>5. PICK g : RunOf(g, T, b, n, step)
  BY <1>4
<1>6. g \in [0..n -> T] /\ g[0] = b /\ \A k \in 1..n : g[k] = step[<<g[k - 1], k>>]
  BY <1>5 DEF RunOf
<1> HIDE DEF T, b, n, step
<1>7. \A k \in 1..n : k - 1 \in 0..n /\ g[k - 1] \in T
  BY <1>1, <1>6
<1>8. \A k \in 1..n : g[k] = ManageFill(g[k - 1], fs[k])
  BY <1>3, <1>6, <1>7
<1>9. g = [k \in 0..n |-> IF k = 0 THEN b ELSE ManageFill(g[k - 1], fs[k])]
  BY <1>1, <1>6, <1>8
<1>10. \E h : h = [k \in 0..n |-> IF k = 0 THEN b ELSE ManageFill(h[k - 1], fs[k])]
  BY <1>9
<1>11. PICK m : m = Managed(fs)
  OBVIOUS
<1>12. m = [k \in 0..n |-> IF k = 0 THEN b ELSE ManageFill(m[k - 1], fs[k])]
  BY <1>10, <1>11 DEF Managed, n, b
<1>13. m[0] = b /\ \A k \in 1..n : m[k] = ManageFill(m[k - 1], fs[k])
  BY <1>1, <1>12
<1> DEFINE S == {k \in 0..n : m[k] \in T}
<1>14. \A k \in 0..n : k \in S
  <2>1. 0 \in S
    BY <1>1, <1>13
  <2>2. ASSUME NEW k \in 0..n-1, k \in S PROVE k + 1 \in S
    <3>1. k + 1 \in 1..n /\ k + 1 \in 0..n /\ (k + 1) - 1 = k
      BY <1>1
    <3>2. m[k] \in T
      BY <2>2
    <3>3. m[k + 1] = ManageFill(m[k], fs[k + 1])
      BY <1>13, <3>1
    <3>4. ManageFill(m[k], fs[k + 1]) \in T
      BY <1>2, <3>1, <3>2
    <3> QED
      BY <3>1, <3>3, <3>4
  <2> HIDE DEF S
  <2> QED
    BY <1>1, <2>1, <2>2, CountUp
<1>15. m \in [0..n -> T]
  BY <1>12, <1>14
<1> QED
  BY <1>1, <1>11, <1>13, <1>15 DEF T, b, n

\* Booking a further fill after the others.
LEMMA ManageAppend ==
  ASSUME TypeOK, NEW fs \in Seq(FillType), NEW f \in FillType
  PROVE  /\ ManageFills(fs) \in TallyType
         /\ ManageFills(Append(fs, f)) = ManageFill(ManageFills(fs), f)
<1> DEFINE n == Len(fs)
<1>1. PICK gs : gs = Append(fs, f)
  OBVIOUS
<1>2. gs \in Seq(FillType) /\ Len(gs) = n + 1 /\ gs[n + 1] = f
      /\ \A k \in 1..n : gs[k] = fs[k]
  BY <1>1, AppendProperties
<1>3. PICK g : g = Managed(fs)
  OBVIOUS
<1>4. PICK h : h = Managed(gs)
  OBVIOUS
<1>5. n \in Nat /\ g \in [0..n -> TallyType] /\ g[0] = Tally(TRUE, ledger, openStops)
      /\ \A k \in 1..n : g[k] = ManageFill(g[k - 1], fs[k])
  BY <1>3, ManagedRun
<1> HIDE DEF n
<1>6. h[0] = Tally(TRUE, ledger, openStops)
      /\ \A k \in 1..(n + 1) : h[k] = ManageFill(h[k - 1], gs[k])
  BY <1>2, <1>4, ManagedRun
<1> DEFINE S == {k \in 0..n : h[k] = g[k]}
<1>7. \A k \in 0..n : k \in S
  <2>1. 0 \in S
    <3>1. h[0] = g[0]
      BY <1>5, <1>6, Zenon
    <3>2. 0 \in 0..n
      BY <1>5
    <3> QED
      BY <3>1, <3>2
  <2>2. ASSUME NEW k \in 0..n-1, k \in S PROVE k + 1 \in S
    <3>1. k + 1 \in 1..n /\ k + 1 \in 1..(n + 1) /\ k + 1 \in 0..n /\ (k + 1) - 1 = k
      BY <1>5
    <3>2. h[k + 1] = ManageFill(h[k], gs[k + 1])
      BY <1>6, <3>1
    <3>3. g[k + 1] = ManageFill(g[k], fs[k + 1])
      BY <1>5, <3>1
    <3>4. gs[k + 1] = fs[k + 1] /\ h[k] = g[k]
      BY <1>2, <2>2, <3>1
    <3> QED
      BY <3>1, <3>2, <3>3, <3>4
  <2> HIDE DEF S
  <2> QED
    BY <1>5, <2>1, <2>2, CountUp
<1>8. n \in 0..n /\ n + 1 \in 1..(n + 1) /\ (n + 1) - 1 = n
  BY <1>5
<1>9. h[n] = g[n]
  BY <1>7, <1>8
<1>10. h[n + 1] = ManageFill(g[n], f)
  BY <1>2, <1>6, <1>8, <1>9
<1>11. ManageFills(fs) = g[n] /\ ManageFills(gs) = h[n + 1]
  BY <1>2, <1>3, <1>4 DEF ManageFills, n
<1>12. g[n] \in TallyType
  BY <1>5, <1>8
<1> QED
  BY <1>1, <1>10, <1>11, <1>12

-----------------------------------------------------------------------------
\* What booking relies on while a sync goes on: a market m and the tally a of its
\* fills so far.  Working stops cover neither more than the account nor more than
\* the ledger holds.
Covered(m, a) ==
  \A s \in Sym : /\ StoppedIn(m.ords, s) <= m.book.pos[s]
                 /\ StoppedIn(m.ords, s) <= a.ledger.pos[s]

\* Whatever open_stops has is held.
HeldOnly(a) == \A s \in Sym : s \in a.stops => a.ledger.pos[s] > 0

\* Whatever has a working stop is in open_stops.
StopsKept(m, a) == \A s \in Sym : StoppedIn(m.ords, s) > 0 => s \in a.stops

\* The ledger has booked every fill, and is the broker's account.
Follows(m, a) ==
  /\ a.ok
  /\ a.ledger.cash = m.book.settled + m.book.unsettled
  /\ a.ledger.pos = m.book.pos

\* No entry works, and stops cover every share.
AllStopped(m, n) ==
  /\ \A j \in 1..n : m.ords[j].kind = "entry" => ~Working(m.ords[j])
  /\ \A s \in Sym : StoppedIn(m.ords, s) = m.book.pos[s]

\* How a fill changes what is covered.
LEMMA StoppedByFill ==
  ASSUME NEW n \in Nat, NEW m \in Markets(n), NEW i \in 1..n, NEW o, NEW q, NEW c,
         CanFill(m, i, o, q, c), Working(o), NEW x, NEW f,
         FillEffect(m, x, n, i, o, q, f), NEW s \in Sym
  PROVE  /\ StoppedIn(m.ords, s) \in Nat /\ StoppedIn(x.ords, s) \in Nat
         /\ o.kind = "stop" /\ o.sym = s =>
              StoppedIn(x.ords, s) = StoppedIn(m.ords, s) - q
         /\ ~(o.kind = "stop" /\ o.sym = s) => StoppedIn(x.ords, s) = StoppedIn(m.ords, s)
<1>1. m.ords \in OrderBooks(n) /\ x.ords \in OrderBooks(n) /\ SameBut(m.ords, x.ords, n, i)
  BY DEF Markets, FillEffect
<1>2. o = m.ords[i] /\ q \in Nat /\ q <= Left(o)
  BY DEF CanFill
<1>3. /\ StoppedIn(m.ords, s) \in Nat /\ StoppedIn(x.ords, s) \in Nat
      /\ StoppedIn(x.ords, s)
           = StoppedIn(m.ords, s) - Covers(m.ords[i], s) + Covers(x.ords[i], s)
  BY <1>1, StoppedChanges
<1>4. o.kind = x.ords[i].kind /\ o.sym = x.ords[i].sym /\ Left(x.ords[i]) = Left(o) - q
      /\ x.ords[i].at \in {"FILLED", "PARTIALLY_FILLED"}
      /\ (x.ords[i].at = "FILLED" <=> q = Left(o))
  BY DEF FillEffect
<1>5. o \in OrderType /\ o.filled <= o.qty
  BY <1>1, <1>2, BookOrders
<1>6. Left(o) \in Nat
  BY <1>5 DEF OrderType, Left
<1>7. CASE o.kind = "stop" /\ o.sym = s
  <2>1. Covers(m.ords[i], s) = Left(o)
    BY <1>2, <1>7 DEF Covers
  <2>2. Covers(x.ords[i], s) = Left(o) - q
    BY <1>2, <1>4, <1>6, <1>7 DEF Covers, Working, RestingStates
  <2> QED
    BY <1>2, <1>3, <1>6, <1>7, <2>1, <2>2
<1>8. CASE ~(o.kind = "stop" /\ o.sym = s)
  <2>1. Covers(m.ords[i], s) = 0
    BY <1>2, <1>8 DEF Covers
  <2>2. Covers(x.ords[i], s) = 0
    BY <1>4, <1>8 DEF Covers
  <2> QED
    BY <1>3, <1>8, <2>1, <2>2
<1> QED
  BY <1>7, <1>8

\* A rejected order covers nothing any more, the others what they covered.
LEMMA StoppedByRejection ==
  ASSUME NEW n \in Nat, NEW m \in Markets(n), NEW i \in 1..n, NEW s \in Sym
  PROVE  /\ StoppedIn(m.ords, s) \in Nat /\ StoppedIn(Rejected(m, i).ords, s) \in Nat
         /\ StoppedIn(Rejected(m, i).ords, s) <= StoppedIn(m.ords, s)
         /\ m.ords[i].kind = "entry" =>
              StoppedIn(Rejected(m, i).ords, s) = StoppedIn(m.ords, s)
<1>1. PICK x : x = Rejected(m, i)
  OBVIOUS
<1>2. x \in Markets(n) /\ x.ords[i].at = "REJECTED" /\ SameBut(m.ords, x.ords, n, i)
      /\ x.ords[i].kind = m.ords[i].kind
  BY <1>1, RejectedEffect
<1>3. m.ords \in OrderBooks(n) /\ x.ords \in OrderBooks(n)
  BY <1>2 DEF Markets
<1>4. /\ StoppedIn(m.ords, s) \in Nat /\ StoppedIn(x.ords, s) \in Nat
      /\ StoppedIn(x.ords, s)
           = StoppedIn(m.ords, s) - Covers(m.ords[i], s) + Covers(x.ords[i], s)
  BY <1>2, <1>3, StoppedChanges
<1>5. Covers(m.ords[i], s) \in Nat
  BY <1>3, BookOrders
<1>6. Covers(x.ords[i], s) = 0
  BY <1>2 DEF Covers, Working, RestingStates
<1>7. m.ords[i].kind = "entry" => Covers(m.ords[i], s) = 0
  BY DEF Covers
<1> QED
  BY <1>1, <1>4, <1>5, <1>6, <1>7

\* What a fill's record says.
LEMMA FillOfFields ==
  ASSUME NEW n \in Nat, NEW m \in Markets(n), NEW i \in 1..n, NEW o, NEW q, NEW c,
         CanFill(m, i, o, q, c), NEW f, f = FillOf(o, q, c)
  PROVE  /\ o \in OrderType /\ o.sym \in Sym /\ o.kind \in {"entry", "stop"}
         /\ q \in Nat /\ c \in Nat /\ f.sym = o.sym /\ f.fee \in Nat /\ f.fee <= c
         /\ o.kind = "entry" => f.qty = q /\ f.cash = -c /\ c + f.fee <= m.book.settled
         /\ o.kind = "stop" => f.qty = -q /\ f.cash = c /\ q <= m.book.pos[o.sym]
<1>1. o = m.ords[i] /\ q \in Nat /\ c \in Nat /\ ~Lacking(m.book, o, q, c)
  BY DEF CanFill
<1>2. m.book \in AccountType /\ m.ords \in OrderBooks(n)
  BY DEF Markets
<1>3. o \in OrderType
  BY <1>1, <1>2, BookOrders
<1>4. o.sym \in Sym /\ o.kind \in {"entry", "stop"}
  BY <1>3 DEF OrderType
<1>5. m.book.settled \in Nat /\ m.book.pos \in [Sym -> Nat]
  BY <1>2 DEF AccountType
<1>6. Fees(c) \in Nat /\ Fees(c) <= c
  BY <1>1, FeesBounded
<1>7. f.sym = o.sym /\ f.fee = Fees(c)
      /\ f.qty = (IF o.kind = "entry" THEN q ELSE -q)
      /\ f.cash = (IF o.kind = "entry" THEN -c ELSE c)
  BY DEF FillOf
<1>8. /\ o.kind = "entry" => c + Fees(c) <= m.book.settled
      /\ o.kind = "stop" => q <= m.book.pos[o.sym]
  <2>1. m.book.pos[o.sym] \in Nat
    BY <1>4, <1>5
  <2> QED
    BY <1>1, <1>5, <1>6, <2>1 DEF Lacking
<1> QED
  BY <1>1, <1>3, <1>4, <1>6, <1>7, <1>8

\* A fill and its booking keep what booking relies on.
LEMMA FillKeeps ==
  ASSUME NEW n \in Nat, NEW m \in Markets(n), NEW i \in 1..n, NEW o, NEW q, NEW c,
         CanFill(m, i, o, q, c), Working(o), NEW x, NEW f, f = FillOf(o, q, c),
         FillEffect(m, x, n, i, o, q, f), NEW a \in TallyType, NEW z, z = ManageFill(a, f)
  PROVE  /\ Covered(m, a) => Covered(x, z)
         /\ HeldOnly(a) => HeldOnly(z)
         /\ Covered(m, a) /\ StopsKept(m, a) => StopsKept(x, z)
         /\ Follows(m, a) => Follows(x, z)
         /\ AllStopped(m, n) => AllStopped(x, n)
<1>1. f \in FillType /\ x \in Markets(n) /\ SameBut(m.ords, x.ords, n, i)
      /\ x.book.pos = [m.book.pos EXCEPT ![o.sym] = @ + f.qty]
      /\ x.ords[i].kind = o.kind
      /\ x.book.settled + x.book.unsettled
           = m.book.settled + m.book.unsettled + f.cash - f.fee
  BY DEF FillEffect
<1>2. /\ o \in OrderType /\ o.sym \in Sym /\ o.kind \in {"entry", "stop"}
      /\ q \in Nat /\ c \in Nat /\ f.sym = o.sym /\ f.fee \in Nat /\ f.fee <= c
      /\ o.kind = "entry" => f.qty = q /\ f.cash = -c /\ c + f.fee <= m.book.settled
      /\ o.kind = "stop" => f.qty = -q /\ f.cash = c /\ q <= m.book.pos[o.sym]
  BY FillOfFields
<1>3. m.book.pos \in [Sym -> Nat] /\ x.book.pos \in [Sym -> Nat]
      /\ m.book.settled \in Nat /\ m.book.unsettled \in Nat
  BY <1>1 DEF Markets, AccountType
<1>4. /\ z \in TallyType
      /\ a.ok /\ Bookable(a.ledger, f) => z.ok
      /\ \/ ~z.ok /\ z.ledger = a.ledger /\ z.stops = a.stops
         \/ /\ z.ok /\ a.ok
            /\ z.ledger.pos = [a.ledger.pos EXCEPT ![f.sym] = @ + f.qty]
            /\ z.ledger.cash = a.ledger.cash + f.cash - f.fee
            /\ z.stops = IF f.qty < 0 /\ z.ledger.pos[f.sym] = 0
                           THEN a.stops \ {f.sym} ELSE a.stops
  BY <1>1, ManageFillCases
<1>5. a.ledger.pos \in [Sym -> Nat] /\ z.ledger.pos \in [Sym -> Nat] /\ a.ledger.cash \in Nat
  BY <1>4 DEF TallyType, LedgerType
<1>6. \A s \in Sym :
        /\ StoppedIn(m.ords, s) \in Nat /\ StoppedIn(x.ords, s) \in Nat
        /\ o.kind = "stop" /\ o.sym = s =>
             StoppedIn(x.ords, s) = StoppedIn(m.ords, s) - q
        /\ ~(o.kind = "stop" /\ o.sym = s) => StoppedIn(x.ords, s) = StoppedIn(m.ords, s)
  BY StoppedByFill
<1>7. /\ \A s \in Sym : s # o.sym => x.book.pos[s] = m.book.pos[s]
      /\ x.book.pos[o.sym] = m.book.pos[o.sym] + f.qty
  BY <1>1, <1>2, <1>3
<1>8. \/ z.ledger.pos = a.ledger.pos /\ z.stops = a.stops
      \/ /\ \A s \in Sym : s # o.sym => z.ledger.pos[s] = a.ledger.pos[s]
         /\ z.ledger.pos[o.sym] = a.ledger.pos[o.sym] + f.qty
         /\ z.stops = IF f.qty < 0 /\ z.ledger.pos[o.sym] = 0
                        THEN a.stops \ {o.sym} ELSE a.stops
  BY <1>2, <1>4, <1>5
<1>9. Covered(m, a) => Covered(x, z)
  <2> SUFFICES ASSUME Covered(m, a), NEW s \in Sym
               PROVE  /\ StoppedIn(x.ords, s) <= x.book.pos[s]
                      /\ StoppedIn(x.ords, s) <= z.ledger.pos[s]
    BY DEF Covered
  <2>1. /\ StoppedIn(m.ords, s) <= m.book.pos[s]
        /\ StoppedIn(m.ords, s) <= a.ledger.pos[s]
    BY DEF Covered
  <2>2. /\ m.book.pos[s] \in Nat /\ x.book.pos[s] \in Nat
        /\ a.ledger.pos[s] \in Nat /\ z.ledger.pos[s] \in Nat
    BY <1>3, <1>5
  <2>3. CASE s # o.sym
    BY <1>6, <1>7, <1>8, <2>1, <2>2, <2>3
  <2>4. CASE s = o.sym /\ o.kind = "stop"
    BY <1>2, <1>6, <1>7, <1>8, <2>1, <2>2, <2>4
  <2>5. CASE s = o.sym /\ o.kind = "entry"
    BY <1>2, <1>6, <1>7, <1>8, <2>1, <2>2, <2>5
  <2> QED
    BY <1>2, <2>3, <2>4, <2>5
<1>10. HeldOnly(a) => HeldOnly(z)
  <2> SUFFICES ASSUME HeldOnly(a), NEW s \in Sym, s \in z.stops
               PROVE  z.ledger.pos[s] > 0
    BY DEF HeldOnly
  <2>1. a.ledger.pos[s] \in Nat /\ z.ledger.pos[s] \in Nat
    BY <1>5
  <2>2. s \in a.stops /\ a.ledger.pos[s] > 0
    BY <1>8 DEF HeldOnly
  <2>3. CASE s # o.sym
    BY <1>8, <2>1, <2>2, <2>3
  <2>4. CASE s = o.sym
    BY <1>2, <1>8, <2>1, <2>2, <2>4
  <2> QED
    BY <2>3, <2>4
<1>11. Covered(m, a) /\ StopsKept(m, a) => StopsKept(x, z)
  <2> SUFFICES ASSUME Covered(m, a), StopsKept(m, a), NEW s \in Sym,
                      StoppedIn(x.ords, s) > 0
               PROVE  s \in z.stops
    BY DEF StopsKept
  <2>1. StoppedIn(m.ords, s) > 0
    BY <1>2, <1>6
  <2>2. s \in a.stops
    BY <2>1 DEF StopsKept
  <2>3. StoppedIn(x.ords, s) <= z.ledger.pos[s] /\ z.ledger.pos[s] \in Nat
    BY <1>5, <1>9 DEF Covered
  <2> QED
    BY <1>6, <1>8, <2>2, <2>3
<1>12. Follows(m, a) => Follows(x, z)
  <2> SUFFICES ASSUME Follows(m, a) PROVE Follows(x, z)
    OBVIOUS
  <2>1. a.ok /\ a.ledger.cash = m.book.settled + m.book.unsettled /\ a.ledger.pos = m.book.pos
    BY DEF Follows
  <2>2. a.ledger.pos[o.sym] \in Nat /\ f.qty \in Int /\ f.cash \in Int
    BY <1>2, <1>5
  <2>3. Bookable(a.ledger, f)
    <3>1. CASE o.kind = "entry"
      BY <1>2, <1>3, <1>5, <2>1, <2>2, <3>1 DEF Bookable
    <3>2. CASE o.kind = "stop"
      BY <1>2, <1>3, <1>5, <2>1, <2>2, <3>2 DEF Bookable
    <3> QED
      BY <1>2, <3>1, <3>2
  <2>4. z.ok /\ z.ledger.pos = [a.ledger.pos EXCEPT ![f.sym] = @ + f.qty]
        /\ z.ledger.cash = a.ledger.cash + f.cash - f.fee
    BY <1>4, <2>1, <2>3
  <2> QED
    BY <1>1, <1>2, <2>1, <2>4 DEF Follows
<1>13. AllStopped(m, n) => AllStopped(x, n)
  <2> SUFFICES ASSUME AllStopped(m, n) PROVE AllStopped(x, n)
    OBVIOUS
  <2>1. o = m.ords[i]
    BY DEF CanFill
  <2>2. o.kind = "stop"
    BY <1>2, <2>1 DEF AllStopped
  <2>3. \A j \in 1..n : x.ords[j].kind = "entry" => ~Working(x.ords[j])
    BY <1>1, <2>2 DEF AllStopped, SameBut
  <2>4. ASSUME NEW s \in Sym PROVE StoppedIn(x.ords, s) = x.book.pos[s]
    <3>1. StoppedIn(m.ords, s) = m.book.pos[s]
      BY DEF AllStopped
    <3> QED
      BY <1>2, <1>3, <1>6, <1>7, <2>2, <3>1
  <2> QED
    BY <2>3, <2>4 DEF AllStopped
<1> QED
  BY <1>9, <1>10, <1>11, <1>12, <1>13

\* What is kept of the books, for flags that say what held before.
Kept(m, a, n, stops, follows, all) ==
  /\ a \in TallyType /\ Covered(m, a) /\ HeldOnly(a)
  /\ stops => StopsKept(m, a)
  /\ follows => Follows(m, a)
  /\ all => AllStopped(m, n)

\* Trying one more resting order, with the fill it may bring booked, keeps what
\* booking relies on.
LEMMA RetryKeeps ==
  ASSUME TypeOK, NEW n \in Nat, NEW m \in Markets(n), NEW i \in 1..n,
         NEW stops \in BOOLEAN, NEW follows \in BOOLEAN, NEW all \in BOOLEAN,
         Kept(m, ManageFills(m.book.fills), n, stops, follows, all)
  PROVE  Kept(Retry(m, i), ManageFills(Retry(m, i).book.fills), n, stops, follows, all)
<1>1. PICK o : o = m.ords[i]
  OBVIOUS
<1>2. PICK a : a = ManageFills(m.book.fills)
  OBVIOUS
<1>3. Kept(m, a, n, stops, follows, all) /\ a \in TallyType
  BY <1>2 DEF Kept
<1>4. price \in [Sym -> Prices]
  BY DEF TypeOK
<1>5. CASE Retry(m, i) = m
  BY <1>5
<1>6. CASE Working(o) /\ Execute(m, i) = Rejected(m, i)
               /\ Lacking(m.book, o, FillQty(o), FillQty(o) * FillPrice(o)) /\ Left(o) # 0
  <2>1. PICK x : x = Rejected(m, i)
    OBVIOUS
  <2>2. Retry(m, i) = x
    BY <1>1, <1>6, <2>1 DEF Retry
  <2>3. x \in Markets(n) /\ x.book = m.book /\ SameBut(m.ords, x.ords, n, i)
        /\ x.ords[i].at = "REJECTED" /\ x.ords[i].kind = o.kind
    BY <1>1, <2>1, RejectedEffect
  <2>4. \A s \in Sym : /\ StoppedIn(m.ords, s) \in Nat /\ StoppedIn(x.ords, s) \in Nat
                       /\ StoppedIn(x.ords, s) <= StoppedIn(m.ords, s)
    BY <2>1, StoppedByRejection
  <2>5. /\ \A s \in Sym : m.book.pos[s] \in Nat /\ a.ledger.pos[s] \in Nat
    BY <1>3 DEF Markets, AccountType, TallyType, LedgerType
  <2>6. Covered(x, a)
    BY <1>3, <2>3, <2>4, <2>5 DEF Kept, Covered
  <2>7. stops => StopsKept(x, a)
    BY <1>3, <2>4 DEF Kept, StopsKept
  <2>8. follows => Follows(x, a)
    BY <1>3, <2>3 DEF Kept, Follows
  <2>9. ~all
    <3> SUFFICES ASSUME all PROVE FALSE
      OBVIOUS
    <3>1. AllStopped(m, n)
      BY <1>3 DEF Kept
    <3>2. m.ords \in OrderBooks(n)
      BY DEF Markets
    <3>3. o \in OrderType /\ o.filled <= o.qty
      BY <1>1, <3>2, BookOrders
    <3>4. o.sym \in Sym /\ o.kind \in {"entry", "stop"}
      BY <3>3 DEF OrderType
    <3>5. o.kind = "stop"
      BY <1>1, <1>6, <3>1, <3>4 DEF AllStopped
    <3>6. FillQty(o) \in Nat /\ FillQty(o) <= Left(o) /\ Left(o) \in Nat
      BY <1>6, <3>3, FillQtyType
    <3>7. m.book.pos[o.sym] < FillQty(o)
      BY <1>6, <3>5 DEF Lacking
    <3>8. Covers(o, o.sym) = Left(o)
      BY <1>6, <3>5 DEF Covers
    <3>9. Covers(o, o.sym) <= StoppedIn(m.ords, o.sym) /\ StoppedIn(m.ords, o.sym) \in Nat
      <4>1. SameBut(m.ords, m.ords, n, i)
        BY DEF SameBut
      <4> QED
        BY <1>1, <3>2, <3>4, <4>1, StoppedChanges
    <3>10. StoppedIn(m.ords, o.sym) = m.book.pos[o.sym]
      BY <3>1, <3>4 DEF AllStopped
    <3> QED
      BY <3>6, <3>7, <3>8, <3>9, <3>10
  <2>10. ManageFills(x.book.fills) = a
    BY <1>2, <2>3
  <2> QED
    BY <1>3, <2>2, <2>6, <2>7, <2>8, <2>9, <2>10 DEF Kept
<1>7. CASE Working(o) /\ \E q, c \in Nat : Execute(m, i) = Filled(m, i, q, c)
                                           /\ CanFill(m, i, o, q, c)
  <2>1. PICK q, c \in Nat : Execute(m, i) = Filled(m, i, q, c) /\ CanFill(m, i, o, q, c)
    BY <1>7
  <2>2. PICK x : x = Filled(m, i, q, c)
    OBVIOUS
  <2>3. PICK f : f = FillOf(o, q, c)
    OBVIOUS
  <2>4. FillEffect(m, x, n, i, o, q, f)
    BY <2>1, <2>2, <2>3, FilledEffect
  <2>5. Retry(m, i) = x
    BY <1>1, <1>7, <2>1, <2>2 DEF Retry
  <2>6. f \in FillType /\ x.book.fills = Append(m.book.fills, f)
    BY <2>4 DEF FillEffect
  <2>7. m.book.fills \in Seq(FillType)
    BY DEF Markets, AccountType
  <2>8. PICK z : z = ManageFill(a, f)
    OBVIOUS
  <2>9. ManageFills(x.book.fills) = z
    BY <1>2, <2>6, <2>7, <2>8, ManageAppend
  <2>10. /\ Covered(m, a) => Covered(x, z)
         /\ HeldOnly(a) => HeldOnly(z)
         /\ Covered(m, a) /\ StopsKept(m, a) => StopsKept(x, z)
         /\ Follows(m, a) => Follows(x, z)
         /\ AllStopped(m, n) => AllStopped(x, n)
    BY <1>3, <1>7, <2>1, <2>3, <2>4, <2>8, FillKeeps
  <2>11. z \in TallyType
    BY <1>3, <2>6, <2>8, ManageFillCases
  <2>12. Kept(x, z, n, stops, follows, all)
    BY <1>3, <2>10, <2>11 DEF Kept
  <2> QED
    BY <2>5, <2>9, <2>12
<1>8. \/ Execute(m, i) = m
      \/ Execute(m, i) = Rejected(m, i) /\ Left(o) # 0
         /\ Lacking(m.book, o, FillQty(o), FillQty(o) * FillPrice(o))
      \/ \E q, c \in Nat : Execute(m, i) = Filled(m, i, q, c) /\ CanFill(m, i, o, q, c)
  BY <1>1, <1>4, ExecuteCases
<1>9. Retry(m, i) = m \/ (Working(o) /\ Retry(m, i) = Execute(m, i))
  BY <1>1 DEF Retry
<1> QED
  BY <1>5, <1>6, <1>7, <1>8, <1>9

\* The orders are the same ones, and the engine has not looked at them.
SameOrders(os, new, n) ==
  \A j \in 1..n : new[j].kind = os[j].kind /\ new[j].sym = os[j].sym /\ new[j].sm = os[j].sm

\* Trying an order leaves its request and the engine's state of it alone.
LEMMA RetrySame ==
  ASSUME price \in [Sym -> Prices], NEW n \in Nat, NEW m \in Markets(n), NEW i \in 1..n
  PROVE  SameOrders(m.ords, Retry(m, i).ords, n)
<1>1. PICK o : o = m.ords[i]
  OBVIOUS
<1>2. CASE Retry(m, i) = m
  BY <1>2 DEF SameOrders
<1>3. CASE Retry(m, i) = Rejected(m, i)
  <2>1. PICK x : x = Rejected(m, i)
    OBVIOUS
  <2>2. /\ x.ords[i].kind = m.ords[i].kind /\ x.ords[i].sym = m.ords[i].sym
        /\ x.ords[i].sm = m.ords[i].sm
        /\ SameBut(m.ords, x.ords, n, i)
    BY <2>1, RejectedEffect
  <2> QED
    BY <1>3, <2>1, <2>2 DEF SameOrders, SameBut
<1>4. CASE \E q, c \in Nat : Retry(m, i) = Filled(m, i, q, c) /\ CanFill(m, i, o, q, c)
  <2>1. PICK q, c \in Nat : Retry(m, i) = Filled(m, i, q, c) /\ CanFill(m, i, o, q, c)
    BY <1>4
  <2>2. PICK x : x = Filled(m, i, q, c)
    OBVIOUS
  <2>3. FillEffect(m, x, n, i, o, q, FillOf(o, q, c))
    BY <2>1, <2>2, FilledEffect
  <2>4. /\ x.ords[i].kind = o.kind /\ x.ords[i].sym = o.sym /\ x.ords[i].sm = o.sm
        /\ SameBut(m.ords, x.ords, n, i)
    BY <2>3 DEF FillEffect
  <2> QED
    BY <1>1, <2>1, <2>2, <2>4 DEF SameOrders, SameBut
<1>5. \/ Execute(m, i) = m \/ Execute(m, i) = Rejected(m, i)
      \/ \E q, c \in Nat : Execute(m, i) = Filled(m, i, q, c) /\ CanFill(m, i, o, q, c)
  BY <1>1, ExecuteCases
<1>6. Retry(m, i) = m \/ Retry(m, i) = Execute(m, i)
  BY DEF Retry
<1> QED
  BY <1>2, <1>3, <1>4, <1>5, <1>6

\* The sync as far as order k: what held of ledger, account, stops and open_stops before
\* it holds after it, with every fill booked or refused.
LEMMA SyncKeeps ==
  ASSUME TypeOK, NEW stops \in BOOLEAN, NEW follows \in BOOLEAN, NEW all \in BOOLEAN,
         Kept(Market(NoFills(broker), orders), Tally(TRUE, ledger, openStops), Len(orders),
              stops, follows, all),
         NEW k \in 0..Len(orders)
  PROVE  /\ Polls[k] \in Markets(Len(orders))
         /\ Kept(Polls[k], ManageFills(Polls[k].book.fills), Len(orders),
                 stops, follows, all)
         /\ SameOrders(orders, Polls[k].ords, Len(orders))
<1> DEFINE n == Len(orders)
           K(m) == Kept(m, ManageFills(m.book.fills), n, stops, follows, all)
           S == {i \in 0..n : K(Polls[i]) /\ SameOrders(orders, Polls[i].ords, n)}
<1>1. n \in Nat /\ price \in [Sym -> Prices]
  BY MarketType DEF TypeOK
<1>2. /\ Polls \in [0..n -> Markets(n)]
      /\ Polls[0] = Market(NoFills(broker), orders)
      /\ \A i \in 1..n : Polls[i] = Retry(Polls[i - 1], i)
  BY PollsRun
<1> HIDE DEF n
<1>3. 0 \in S
  <2>1. Polls[0].book.fills = <<>> /\ Polls[0].ords = orders
    BY <1>2 DEF Market, NoFills, Account
  <2>2. ManageFills(<<>>) = Tally(TRUE, ledger, openStops)
    <3>1. <<>> \in Seq(FillType) /\ Len(<<>>) = 0
      BY EmptySeq
    <3>2. Managed(<<>>)[0] = Tally(TRUE, ledger, openStops)
      BY <3>1, ManagedRun
    <3> QED
      BY <3>1, <3>2 DEF ManageFills
  <2>3. K(Polls[0])
    BY <1>2, <2>1, <2>2 DEF n
  <2>4. SameOrders(orders, Polls[0].ords, n)
    BY <2>1 DEF SameOrders
  <2>5. 0 \in 0..n
    BY <1>1
  <2> HIDE DEF K
  <2> QED
    BY <2>3, <2>4, <2>5
<1>4. ASSUME NEW i \in 0..n-1, i \in S PROVE i + 1 \in S
  <2>1. i + 1 \in 1..n /\ i + 1 \in 0..n /\ i \in 0..n /\ (i + 1) - 1 = i
    BY <1>1
  <2>2. PICK m : m = Polls[i]
    OBVIOUS
  <2>3. m \in Markets(n) /\ Polls[i + 1] = Retry(m, i + 1)
    BY <1>2, <2>1, <2>2
  <2>4. K(m) /\ SameOrders(orders, m.ords, n)
    <3> HIDE DEF K
    <3> QED
      BY <1>4, <2>2
  <2>5. K(Retry(m, i + 1))
    BY <1>1, <2>1, <2>3, <2>4, RetryKeeps
  <2>6. SameOrders(m.ords, Retry(m, i + 1).ords, n)
    BY <1>1, <2>1, <2>3, RetrySame
  <2>7. SameOrders(orders, Retry(m, i + 1).ords, n)
    BY <2>4, <2>6 DEF SameOrders
  <2> HIDE DEF K
  <2> QED
    BY <2>1, <2>3, <2>5, <2>7
<1>5. k \in S
  <2> HIDE DEF S
  <2>1. \A i \in 0..n : i \in S
    BY <1>1, <1>3, <1>4, CountUp
  <2>2. k \in 0..n
    BY DEF n
  <2> QED
    BY <2>1, <2>2
<1>6. Polls[k] \in Markets(n)
  BY <1>2 DEF n
<1>7. K(Polls[k]) /\ SameOrders(orders, Polls[k].ords, n)
  <2> HIDE DEF K
  <2> QED
    BY <1>5
<1> QED
  BY <1>6, <1>7 DEF n

-----------------------------------------------------------------------------
\* What may come of an order o that arrives: r is the order in the broker's book.
RestsOnArrival(x, r, o) ==
  /\ x.book = NoFills(broker) /\ r.at = "ACKNOWLEDGED" /\ Left(r) = o.qty
  /\ FillPrice(o) = 0
RejectedOnArrival(x, r, o) ==
  x.book = NoFills(broker) /\ r.at = "REJECTED" /\ FillPrice(o) # 0
FilledOnArrival(x, r, o, q, f) ==
  /\ q \in Nat /\ f \in FillType /\ f.sym = o.sym
  /\ x.book.fills = <<f>> /\ x.book.pos = [broker.pos EXCEPT ![o.sym] = @ + f.qty]
  /\ x.book.settled + x.book.unsettled = broker.settled + broker.unsettled + f.cash - f.fee
  /\ r.at \in {"FILLED", "PARTIALLY_FILLED"} /\ Left(r) = o.qty - q /\ q <= o.qty
  /\ r.at = "FILLED" <=> q = o.qty
  /\ Halvable(o) => q > 0
  /\ fault # "PARTIAL_FILL" => q = o.qty
  /\ o.kind = "entry" => f.qty = q /\ broker.settled + f.cash - f.fee >= 0
  /\ o.kind = "stop" => f.qty = -q /\ q <= broker.pos[o.sym]
  /\ FillPrice(o) # 0

\* Order r, which has joined the book, is order o.
Joined(x, r, o, n) ==
  /\ x \in Markets(n + 1) /\ r = x.ords[n + 1]
  /\ \A j \in 1..n : x.ords[j] = orders[j]
  /\ r \in OrderType /\ r.kind = o.kind /\ r.sym = o.sym /\ r.sm = o.sm
  /\ \A s \in Sym : /\ Stopped(s) \in Nat /\ Covers(r, s) \in Nat
                    /\ StoppedIn(x.ords, s) = Stopped(s) + Covers(r, s)

\* submit_order.
LEMMA ArriveEffect ==
  ASSUME TypeOK, NEW o \in OrderType, o.filled = 0, NEW x, x = Arrive(o), NEW n, n = Len(orders)
  PROVE  \E r : /\ Joined(x, r, o, n)
                /\ \/ RestsOnArrival(x, r, o) \/ RejectedOnArrival(x, r, o)
                   \/ \E q, f : FilledOnArrival(x, r, o, q, f)
<1>1. n \in Nat /\ orders \in OrderBooks(n) /\ NoFills(broker) \in AccountType
      /\ price \in [Sym -> Prices] /\ n + 1 \in Nat /\ n + 1 \in 1..(n + 1)
  <2>1. Market(NoFills(broker), orders).book \in AccountType
    BY MarketType DEF Markets
  <2>2. n \in Nat /\ orders \in OrderBooks(n)
    BY MarketType
  <2> QED
    BY <2>1, <2>2 DEF Market, TypeOK
<1>2. o.qty \in Nat /\ o.qty > 0 /\ o.kind \in {"entry", "stop"} /\ o.sym \in Sym
  BY DEF OrderType
<1>3. PICK p : p = AtBroker(o, 0, "ACKNOWLEDGED")
  OBVIOUS
<1>4. /\ p \in OrderType /\ p.filled = 0 /\ p.at = "ACKNOWLEDGED" /\ p.kind = o.kind
      /\ p.sym = o.sym /\ p.qty = o.qty /\ p.stop = o.stop /\ p.sm = o.sm
  <2>1. "ACKNOWLEDGED" \in OrderState /\ 0 \in Nat
    BY DEF OrderState
  <2> QED
    BY <1>3, <2>1 DEF AtBroker, OrderType
<1>5. /\ Left(p) = o.qty /\ Left(o) = o.qty /\ FillPrice(p) = FillPrice(o) /\ Working(p)
      /\ Halvable(p) <=> Halvable(o)
  BY <1>2, <1>4 DEF Left, FillPrice, Working, RestingStates, Halvable
<1>6. PICK os : os = Append(orders, p)
  OBVIOUS
<1>7. /\ os \in OrderBooks(n + 1) /\ os[n + 1] = p /\ \A j \in 1..n : os[j] = orders[j]
      /\ \A s \in Sym : Stopped(s) \in Nat /\ StoppedIn(os, s) = Stopped(s) + Covers(p, s)
  <2>1. p.filled <= p.qty
    BY <1>2, <1>4
  <2>2. os \in OrderBooks(n + 1) /\ os[n + 1] = p /\ \A j \in 1..n : os[j] = orders[j]
    <3>1. \A j \in 1..(n + 1) : j \in 1..n \/ j = n + 1
      BY <1>1
    <3>2. orders \in Seq(OrderType) /\ Len(orders) = n
          /\ \A i \in 1..n : orders[i].filled <= orders[i].qty
      BY <1>1, BookOrders
    <3>3. os \in Seq(OrderType) /\ Len(os) = n + 1 /\ os[n + 1] = p
          /\ \A j \in 1..n : os[j] = orders[j]
      BY <1>4, <1>6, <3>2, AppendProperties
    <3> QED
      BY <2>1, <3>1, <3>2, <3>3 DEF OrderBooks
  <2>3. ASSUME NEW s \in Sym
        PROVE  Stopped(s) \in Nat /\ StoppedIn(os, s) = Stopped(s) + Covers(p, s)
    BY <1>1, <1>4, <1>6, <2>1, StoppedGrows DEF Stopped, StoppedIn
  <2> QED
    BY <2>2, <2>3
<1>8. PICK m : m = Market(NoFills(broker), os)
  OBVIOUS
<1>9. m \in Markets(n + 1) /\ m.ords = os /\ m.book = NoFills(broker) /\ x = Execute(m, n + 1)
  BY <1>1, <1>3, <1>6, <1>7, <1>8 DEF Market, Markets, Arrive
<1>10. ASSUME NEW r, x \in Markets(n + 1), r = x.ords[n + 1], r \in OrderType, r.kind = o.kind,
              r.sym = o.sym, r.sm = o.sm, SameBut(os, x.ords, n + 1, n + 1)
       PROVE  Joined(x, r, o, n)
  <2>1. \A j \in 1..n : x.ords[j] = orders[j]
    <3>1. \A j \in 1..n : j \in 1..(n + 1) /\ j # n + 1
      BY <1>1
    <3> QED
      BY <1>7, <1>10, <3>1 DEF SameBut
  <2>2. ASSUME NEW s \in Sym
        PROVE  Covers(r, s) \in Nat /\ StoppedIn(x.ords, s) = Stopped(s) + Covers(r, s)
    <3>1. x.ords \in OrderBooks(n + 1)
      BY <1>10 DEF Markets
    <3>2. Covers(os[n + 1], s) \in Nat /\ Covers(x.ords[n + 1], s) \in Nat
      BY <1>1, <1>7, <3>1, BookOrders
    <3>3. StoppedIn(x.ords, s)
            = StoppedIn(os, s) - Covers(os[n + 1], s) + Covers(x.ords[n + 1], s)
      BY <1>1, <1>7, <1>10, <3>1, StoppedChanges
    <3>4. Stopped(s) \in Nat /\ StoppedIn(os, s) = Stopped(s) + Covers(p, s)
      BY <1>7
    <3> QED
      BY <1>7, <1>10, <3>2, <3>3, <3>4
  <2> QED
    BY <1>7, <1>10, <2>1, <2>2 DEF Joined
<1>11. CASE x = m /\ FillPrice(p) = 0
  <2>1. Joined(x, p, o, n)
    <3>1. SameBut(os, x.ords, n + 1, n + 1)
      BY <1>9, <1>11 DEF SameBut
    <3> QED
      BY <1>4, <1>7, <1>9, <1>10, <1>11, <3>1
  <2>2. RestsOnArrival(x, p, o)
    BY <1>4, <1>5, <1>9, <1>11 DEF RestsOnArrival
  <2> QED
    BY <2>1, <2>2
<1>12. CASE x = Rejected(m, n + 1) /\ FillPrice(p) # 0
  <2>1. PICK r : r = x.ords[n + 1]
    OBVIOUS
  <2>2. /\ x \in Markets(n + 1) /\ x.book = m.book /\ r \in OrderType /\ r.at = "REJECTED"
        /\ r.kind = p.kind /\ r.sym = p.sym /\ r.sm = p.sm /\ SameBut(os, x.ords, n + 1, n + 1)
    <3>1. PICK k : k = n + 1
      OBVIOUS
    <3>2. k \in Nat /\ k \in 1..k /\ m \in Markets(k) /\ x = Rejected(m, k)
          /\ r = x.ords[k] /\ p = m.ords[k] /\ m.ords = os
      BY <1>1, <1>7, <1>9, <1>12, <2>1, <3>1
    <3>3. /\ x \in Markets(k) /\ x.book = m.book /\ r \in OrderType /\ r.at = "REJECTED"
          /\ r.kind = p.kind /\ r.sym = p.sym /\ r.sm = p.sm /\ SameBut(os, x.ords, k, k)
      BY <3>2, RejectedEffect
    <3> QED
      BY <3>1, <3>3
  <2>3. Joined(x, r, o, n)
    BY <1>4, <1>10, <2>1, <2>2
  <2> QED
    BY <1>5, <1>9, <1>12, <2>2, <2>3 DEF RejectedOnArrival
<1>13. CASE \E q, c \in Nat : /\ x = Filled(m, n + 1, q, c) /\ CanFill(m, n + 1, p, q, c)
                              /\ FillPrice(p) # 0 /\ q = FillQty(p) /\ Left(p) # 0
  <2>1. PICK q, c \in Nat : /\ x = Filled(m, n + 1, q, c) /\ CanFill(m, n + 1, p, q, c)
                            /\ FillPrice(p) # 0 /\ q = FillQty(p) /\ Left(p) # 0
    BY <1>13
  <2>2. PICK f : f = FillOf(p, q, c)
    OBVIOUS
  <2>3. PICK r : r = x.ords[n + 1]
    OBVIOUS
  <2>4. FillEffect(m, x, n + 1, n + 1, p, q, f)
    BY <1>1, <1>9, <2>1, <2>2, FilledEffect
  <2>5. Joined(x, r, o, n)
    BY <1>4, <1>9, <1>10, <2>3, <2>4 DEF FillEffect
  <2>6. /\ f.sym = p.sym /\ f.fee \in Nat /\ f.fee <= c
        /\ p.kind = "entry" => f.qty = q /\ f.cash = -c /\ c + f.fee <= m.book.settled
        /\ p.kind = "stop" => f.qty = -q /\ f.cash = c /\ q <= m.book.pos[p.sym]
    BY <1>1, <1>9, <2>1, <2>2, FillOfFields
  <2>7. /\ m.book.settled = broker.settled /\ m.book.unsettled = broker.unsettled
        /\ m.book.pos = broker.pos /\ m.book.fills = <<>> /\ broker.settled \in Nat
    BY <1>9 DEF NoFills, Account, TypeOK, AccountType
  <2>8. /\ q \in Nat /\ c \in Nat /\ q <= Left(p)
        /\ Halvable(p) => q > 0
        /\ fault # "PARTIAL_FILL" => q = Left(p)
    BY <1>2, <1>4, <2>1, FillQtyType DEF CanFill
  <2>9. x.book.fills = <<f>>
    BY <2>4, <2>7 DEF FillEffect
  <2>10. /\ f \in FillType /\ x.book.pos = [broker.pos EXCEPT ![o.sym] = @ + f.qty]
         /\ x.book.settled + x.book.unsettled
              = broker.settled + broker.unsettled + f.cash - f.fee
         /\ r.at \in {"FILLED", "PARTIALLY_FILLED"} /\ Left(r) = o.qty - q
         /\ (r.at = "FILLED" <=> q = o.qty)
    BY <1>4, <1>5, <2>3, <2>4, <2>7 DEF FillEffect
  <2>11. /\ o.kind = "entry" => f.qty = q /\ broker.settled + f.cash - f.fee >= 0
         /\ o.kind = "stop" => f.qty = -q /\ q <= broker.pos[o.sym]
    BY <1>4, <2>6, <2>7, <2>8
  <2>12. FilledOnArrival(x, r, o, q, f)
    BY <1>4, <1>5, <2>1, <2>6, <2>8, <2>9, <2>10, <2>11 DEF FilledOnArrival
  <2> QED
    BY <2>5, <2>12
<1>14. p = m.ords[n + 1]
  BY <1>7, <1>9
<1>15. /\ Left(p) # 0 /\ p.filled = 0
       /\ \/ /\ Execute(m, n + 1) = m
             /\ FillPrice(p) = 0 \/ Left(p) = 0 \/ p.filled # 0
          \/ Execute(m, n + 1) = Rejected(m, n + 1) /\ FillPrice(p) # 0
          \/ \E q, c \in Nat :
               /\ Execute(m, n + 1) = Filled(m, n + 1, q, c) /\ CanFill(m, n + 1, p, q, c)
               /\ FillPrice(p) # 0 /\ Left(p) # 0 /\ q = FillQty(p)
  BY <1>1, <1>2, <1>4, <1>5, <1>9, <1>14, ExecuteCases
<1> QED
  BY <1>9, <1>11, <1>12, <1>13, <1>15

-----------------------------------------------------------------------------
\* The engine's look at an order changes its own state of it only.
LEMMA PolledType ==
  ASSUME NEW o \in OrderType, o.filled <= o.qty
  PROVE  /\ Polled(o) \in OrderType /\ Polled(o).filled = o.filled /\ Polled(o).qty = o.qty
         /\ Polled(o).kind = o.kind /\ Polled(o).sym = o.sym /\ Polled(o).at = o.at
         /\ Polled(o).sm = o.sm \/ (Polled(o).sm = o.at /\ o.at \in PolledStates)
         /\ \A s : Covers(Polled(o), s) = Covers(o, s)
<1>1. CASE o.at \in PolledStates
  <2>1. o.at \in OrderState
    BY <1>1 DEF PolledStates, OrderState
  <2>2. PICK p : p = AtEngine(o, o.at)
    OBVIOUS
  <2>3. /\ p \in OrderType /\ p.filled = o.filled /\ p.at = o.at /\ p.kind = o.kind
        /\ p.sym = o.sym /\ p.qty = o.qty /\ p.sm = o.at
    BY <2>1, <2>2 DEF AtEngine, OrderType
  <2>4. Polled(o) = p
    BY <1>1, <2>2 DEF Polled
  <2>5. \A s : Covers(p, s) = Covers(o, s)
    BY <2>3 DEF Covers, Left, Working
  <2> QED
    BY <1>1, <2>3, <2>4, <2>5
<1>2. CASE o.at \notin PolledStates
  BY <1>2 DEF Polled
<1> QED
  BY <1>1, <1>2

\* The same for the orders that sync_open_orders polls.
LEMMA PollOpenType ==
  ASSUME NEW n \in Nat, NEW os \in OrderBooks(n), NEW k \in Int, NEW new,
         new = PollOpen(os, k)
  PROVE  /\ new \in OrderBooks(n)
         /\ \A j \in 1..n : /\ new[j].kind = os[j].kind /\ new[j].sym = os[j].sym
                            /\ new[j].at = os[j].at
                            /\ \/ new[j].sm = os[j].sm
                               \/ new[j].sm = os[j].at /\ os[j].at \in PolledStates
         /\ \A s \in Sym : StoppedIn(new, s) = StoppedIn(os, s)
<1>1. /\ DOMAIN os = 1..n /\ os \in Seq(OrderType) /\ Len(os) = n
      /\ \A i \in 1..n : os[i] \in OrderType /\ os[i].filled <= os[i].qty
  BY BookOrders
<1>2. new = [i \in 1..n |-> IF i <= k /\ os[i].sm \in RestingStates
                              THEN Polled(os[i]) ELSE os[i]]
  BY <1>1 DEF PollOpen
<1>3. \A j \in 1..n : new[j] = Polled(os[j]) \/ new[j] = os[j]
  BY <1>2
<1>4. ASSUME NEW j \in 1..n
      PROVE  /\ new[j] \in OrderType /\ new[j].filled <= new[j].qty
             /\ new[j].kind = os[j].kind /\ new[j].sym = os[j].sym /\ new[j].at = os[j].at
             /\ \/ new[j].sm = os[j].sm
                \/ new[j].sm = os[j].at /\ os[j].at \in PolledStates
             /\ \A s : Covers(new[j], s) = Covers(os[j], s)
  <2>1. PICK o : o = os[j]
    OBVIOUS
  <2>2. o \in OrderType /\ o.filled <= o.qty
    BY <1>1, <2>1
  <2>3. CASE new[j] = o
    BY <2>1, <2>2, <2>3
  <2>4. CASE new[j] = Polled(o)
    BY <2>1, <2>2, <2>4, PolledType
  <2> QED
    BY <1>3, <2>1, <2>3, <2>4
<1>5. new \in Seq(OrderType) /\ Len(new) = n
  <2>1. new \in [1..n -> OrderType]
    BY <1>2, <1>4
  <2> QED
    BY <2>1
<1>6. new \in OrderBooks(n)
  BY <1>4, <1>5 DEF OrderBooks
<1>7. \A s \in Sym : StoppedIn(new, s) = StoppedIn(os, s)
  BY <1>4, <1>6, StoppedStays
<1> QED
  BY <1>4, <1>6, <1>7

-----------------------------------------------------------------------------
\* The fill of the entry in hand: its shares are in the account and under no stop.
FillInHand ==
  /\ Len(broker.fills) > 0
  /\ broker.fills[1].sym = pc.sym /\ broker.fills[1].qty > 0
  /\ Stopped(pc.sym) + broker.fills[1].qty <= broker.pos[pc.sym]

LastFilled == orders[Len(orders)].at \in {"FILLED", "PARTIALLY_FILLED"}

\* What a session relies on at each place.
PlaceInv ==
  /\ pc.at \in {"approved", "acked", "filled", "booked", "stopAcked"} =>
       pc.sym \in Sym /\ pc.qty > 0
  /\ pc.at \in {"acked", "filled", "stopAcked"} => Len(orders) > 0
  /\ (pc.at = "acked" /\ LastFilled) \/ pc.at = "filled" => FillInHand
  /\ pc.at = "booked" => /\ Stopped(pc.sym) + pc.qty <= broker.pos[pc.sym]
                         /\ Stopped(pc.sym) + pc.qty <= ledger.pos[pc.sym]
  /\ pc.at = "stopAcked" => ledger.pos[pc.sym] > 0

StopsAreHeld == \A s \in openStops : ledger.pos[s] > 0

\* The inductive invariant: stops never cover more than is held.
SafeInv == TypeOK /\ StopsNeverOversell /\ PlaceInv /\ StopsAreHeld

\* Entries in doubt: a reset for each but the last, which has stopped entries.
InDoubt == {i \in Ids : orders[i].kind = "entry" /\ orders[i].sm = "UNKNOWN"}
DoubtInv ==
  /\ pc.at = "approved" => risk = "NORMAL"
  /\ Cardinality(InDoubt) <= resets + (IF risk = "NORMAL" THEN 0 ELSE 1)

\* open_stops has every working stop, but for the one in hand.
KeepInv ==
  \A s \in Sym : Stopped(s) > 0 => s \in openStops \/ (pc.at = "stopAcked" /\ s = pc.sym)

\* With a broker that answers: what the ledger lacks is the fill in hand.
Due ==
  /\ Bookable(ledger, broker.fills[1])
  /\ Booked(ledger, broker.fills[1]).cash = broker.settled + broker.unsettled
  /\ Booked(ledger, broker.fills[1]).pos = broker.pos
FollowInv ==
  /\ IF (pc.at = "acked" /\ LastFilled) \/ pc.at = "filled" THEN Due ELSE Consistent
  /\ pc.at \in {"approved", "acked", "filled", "booked"} => pc.stop < price[pc.sym]

\* With a healthy broker: entries fill at once, and what no stop covers is in hand.
Uncovered(s) ==
  IF s # pc.sym THEN 0
  ELSE IF (pc.at = "acked" /\ LastFilled) \/ pc.at = "filled" THEN broker.fills[1].qty
  ELSE IF pc.at = "booked" THEN pc.qty ELSE 0
HealthInv ==
  /\ fault = "NONE"
  /\ \A i \in Ids : orders[i].kind = "entry" => ~Working(orders[i])
  /\ \A s \in Sym : Stopped(s) + Uncovered(s) = broker.pos[s]
HealthyInv == healthy => HealthInv

-----------------------------------------------------------------------------
\* What open_stops and the stops are when nothing is in hand.
StopsListed == \A s \in Sym : Stopped(s) > 0 => s \in openStops
AllCovered ==
  /\ \A i \in Ids : orders[i].kind = "entry" => ~Working(orders[i])
  /\ \A s \in Sym : Stopped(s) = broker.pos[s]

\* The sync as far as order k, with the booking of its fills: what held before of the
\* flagged facts holds after it.
LEMMA PollEffect ==
  ASSUME SafeInv, NEW stops \in BOOLEAN, NEW follows \in BOOLEAN, NEW all \in BOOLEAN,
         stops => StopsListed, follows => Consistent, all => AllCovered,
         NEW n, n = Len(orders), NEW k \in 0..n, NEW m, m = Polls[k], NEW a, a = ManageFills(m.book.fills)
  PROVE  /\ n \in Nat /\ m \in Markets(n) /\ Kept(m, a, n, stops, follows, all)
         /\ SameOrders(orders, m.ords, n)
<1>1. TypeOK /\ StopsNeverOversell /\ StopsAreHeld
  BY DEF SafeInv
<1>2. PICK b : b = Market(NoFills(broker), orders)
  OBVIOUS
<1>3. b.book.pos = broker.pos /\ b.ords = orders /\ b.book.settled = broker.settled
      /\ b.book.unsettled = broker.unsettled
  BY <1>2 DEF Market, NoFills, Account
<1>4. PICK t : t = Tally(TRUE, ledger, openStops)
  OBVIOUS
<1>5. t.ok = TRUE /\ t.ledger = ledger /\ t.stops = openStops /\ t \in TallyType
  BY <1>1, <1>4 DEF Tally, TallyType, TypeOK
<1>6. \A s : Stopped(s) = StoppedIn(orders, s)
  BY DEF Stopped, StoppedIn
<1>7. Covered(b, t)
  BY <1>1, <1>3, <1>5, <1>6 DEF Covered, StopsNeverOversell
<1>8. HeldOnly(t)
  BY <1>1, <1>5 DEF HeldOnly, StopsAreHeld
<1>9. stops => StopsKept(b, t)
  BY <1>3, <1>5, <1>6 DEF StopsKept, StopsListed
<1>10. follows => Follows(b, t)
  BY <1>3, <1>5 DEF Follows, Consistent
<1>11. all => AllStopped(b, n)
  BY <1>3, <1>6 DEF AllStopped, AllCovered, Ids
<1>12. Kept(b, t, n, stops, follows, all)
  BY <1>5, <1>7, <1>8, <1>9, <1>10, <1>11 DEF Kept
<1>13. n \in Nat
  BY <1>1, MarketType
<1> QED
  BY <1>1, <1>2, <1>4, <1>12, <1>13, SyncKeeps

\* The whole sync that begins a session.
LEMMA SyncEffect ==
  ASSUME SafeInv, NEW stops \in BOOLEAN, NEW follows \in BOOLEAN, NEW all \in BOOLEAN,
         stops => StopsListed, follows => Consistent, all => AllCovered,
         NEW n, n = Len(orders), NEW m, m = PollResting, NEW a, a = ManageFills(m.book.fills)
  PROVE  /\ n \in Nat /\ m \in Markets(n) /\ Kept(m, a, n, stops, follows, all)
         /\ SameOrders(orders, m.ords, n)
<1>1. n \in 0..n /\ m = Polls[n]
  BY MarketType DEF SafeInv, PollResting
<1> QED
  BY <1>1, PollEffect

\* Dropping the fills in hand leaves cash and shares.
LEMMA NoFillsType ==
  ASSUME NEW b \in AccountType
  PROVE  /\ NoFills(b) \in AccountType /\ NoFills(b).pos = b.pos
         /\ NoFills(b).settled = b.settled /\ NoFills(b).unsettled = b.unsettled
<1>1. <<>> \in Seq(FillType)
  BY EmptySeq
<1> QED
  BY <1>1 DEF NoFills, Account, AccountType

\* The places between and after entries.
LEMMA PlaceTypes ==
  /\ Between.at = "idle" /\ Between.left = 0 /\ Between.sym = "none"
  /\ Between \in [at : Stages, left : 0..MaxNew, sym : Sym \cup {"none"}, qty : Nat, stop : Int]
  /\ \A k \in 0..MaxNew :
       /\ Entries(k).at = "entries" /\ Entries(k).left = k /\ Entries(k).sym = "none"
       /\ Entries(k) \in
            [at : Stages, left : 0..MaxNew, sym : Sym \cup {"none"}, qty : Nat, stop : Int]
  /\ MaxNew \in 0..MaxNew /\ 0 \in 0..MaxNew
<1>1. MaxNew \in Nat
  BY SessionAssumption
<1>2. 0 \in 0..MaxNew /\ MaxNew \in 0..MaxNew
  BY <1>1
<1> QED
  BY <1>2 DEF Between, Entries, Place, Stages


-----------------------------------------------------------------------------
\* A session that is between entries or over relies on nothing in hand.
LEMMA PlaceQuiet ==
  ASSUME pc'.at \in {"idle", "entries"}
  PROVE  PlaceInv'
  BY DEF PlaceInv

\* sync_open_orders and the booking of its fills keep stops within holdings.
LEMMA SessionStartSafe ==
  ASSUME SafeInv, SessionStart
  PROVE  SafeInv'
<1>1. PICK n : n = Len(orders)
  OBVIOUS
<1>2. PICK m : m = PollResting
  OBVIOUS
<1>3. PICK a : a = ManageFills(m.book.fills)
  OBVIOUS
<1>4. n \in Nat /\ m \in Markets(n) /\ Kept(m, a, n, FALSE, FALSE, FALSE)
  BY <1>1, <1>2, <1>3, SyncEffect
<1>5. /\ broker' = NoFills(m.book) /\ orders' = PollOpen(m.ords, n) /\ ledger' = a.ledger
      /\ openStops' = a.stops /\ pc' \in {Entries(MaxNew), Between}
      /\ UNCHANGED <<price, fault, risk, resets>>
  BY <1>1, <1>2, <1>3 DEF SessionStart
<1>6. m.book \in AccountType /\ m.ords \in OrderBooks(n)
  BY <1>4 DEF Markets
<1>7. broker' \in AccountType /\ broker'.pos = m.book.pos
  BY <1>5, <1>6, NoFillsType
<1>8. orders' \in OrderBooks(n) /\ \A s \in Sym : StoppedIn(orders', s) = StoppedIn(m.ords, s)
  BY <1>4, <1>5, <1>6, PollOpenType
<1>9. a \in TallyType /\ Covered(m, a) /\ HeldOnly(a)
  BY <1>4 DEF Kept
<1>10. ledger' \in LedgerType /\ openStops' \subseteq Sym
  BY <1>5, <1>9 DEF TallyType
<1>11. /\ pc'.at \in {"idle", "entries"}
       /\ pc' \in [at : Stages, left : 0..MaxNew, sym : Sym \cup {"none"}, qty : Nat, stop : Int]
  BY <1>5, PlaceTypes
<1>12. TypeOK'
  <2>1. orders' \in Seq(OrderType) /\ \A i \in 1..Len(orders') : orders'[i].filled <= orders'[i].qty
    BY <1>8 DEF OrderBooks
  <2> QED
    BY <1>5, <1>7, <1>10, <1>11, <2>1 DEF SafeInv, TypeOK, Ids
<1>13. StopsNeverOversell'
  <2>1. \A s \in Sym : Stopped(s)' = StoppedIn(m.ords, s)
    BY <1>8 DEF Stopped, StoppedIn
  <2> QED
    BY <1>5, <1>7, <1>9, <2>1 DEF StopsNeverOversell, Covered
<1>14. StopsAreHeld'
  BY <1>5, <1>9, <1>10 DEF StopsAreHeld, HeldOnly
<1> QED
  BY <1>11, <1>12, <1>13, <1>14, PlaceQuiet DEF SafeInv


PlaceType == [at : Stages, left : 0..MaxNew, sym : Sym \cup {"none"}, qty : Nat, stop : Int]

\* The type invariant after a step, from what the step leaves.
LEMMA TypeKept ==
  ASSUME TypeOK, NEW k \in Nat, broker' \in AccountType, orders' \in OrderBooks(k),
         ledger' \in LedgerType, openStops' \subseteq Sym, price' \in [Sym -> Prices],
         fault' \in Faults, risk' \in RiskState, pc' \in PlaceType, resets' \in 0..MaxResets
  PROVE  TypeOK' /\ Len(orders') = k
<1>1. /\ orders' \in Seq(OrderType) /\ Len(orders') = k
      /\ \A i \in 1..Len(orders') : orders'[i].filled <= orders'[i].qty
  BY DEF OrderBooks
<1> QED
  BY <1>1 DEF TypeOK, Ids, PlaceType

\* What a book covers is a number.
LEMMA StoppedType ==
  ASSUME NEW n \in Nat, NEW os \in OrderBooks(n), NEW s \in Sym
  PROVE  StoppedIn(os, s) \in Nat
<1> DEFINE o == [sym |-> s, kind |-> "entry", qty |-> 1, stop |-> 0, filled |-> 0,
                 at |-> "FILLED", sm |-> "FILLED"]
<1>1. o \in OrderType /\ o.filled <= o.qty
  BY DEF OrderType, OrderState
<1> HIDE DEF o
<1> QED
  BY <1>1, StoppedGrows

\* Trying an order again can only use up or end what it covers.
LEMMA RetryShrinks ==
  ASSUME price \in [Sym -> Prices], NEW n \in Nat, NEW m \in Markets(n), NEW i \in 1..n,
         NEW s \in Sym
  PROVE  /\ StoppedIn(m.ords, s) \in Nat /\ StoppedIn(Retry(m, i).ords, s) \in Nat
         /\ StoppedIn(Retry(m, i).ords, s) <= StoppedIn(m.ords, s)
<1>1. PICK o : o = m.ords[i]
  OBVIOUS
<1>2. StoppedIn(m.ords, s) \in Nat
  BY StoppedByRejection
<1>3. CASE Retry(m, i) = m
  BY <1>2, <1>3
<1>4. CASE Retry(m, i) = Rejected(m, i)
  BY <1>4, StoppedByRejection
<1>5. CASE /\ Working(o)
           /\ \E q, c \in Nat : Retry(m, i) = Filled(m, i, q, c) /\ CanFill(m, i, o, q, c)
  <2>1. PICK q, c \in Nat : Retry(m, i) = Filled(m, i, q, c) /\ CanFill(m, i, o, q, c)
    BY <1>5
  <2>2. PICK x : x = Filled(m, i, q, c)
    OBVIOUS
  <2>3. PICK f : f = FillOf(o, q, c)
    OBVIOUS
  <2>4. FillEffect(m, x, n, i, o, q, f)
    BY <2>1, <2>2, <2>3, FilledEffect
  <2>5. /\ StoppedIn(m.ords, s) \in Nat /\ StoppedIn(x.ords, s) \in Nat
        /\ o.kind = "stop" /\ o.sym = s => StoppedIn(x.ords, s) = StoppedIn(m.ords, s) - q
        /\ ~(o.kind = "stop" /\ o.sym = s) => StoppedIn(x.ords, s) = StoppedIn(m.ords, s)
    BY <1>5, <2>1, <2>4, StoppedByFill
  <2> QED
    BY <2>1, <2>2, <2>5
<1>6. \/ Execute(m, i) = m \/ Execute(m, i) = Rejected(m, i)
      \/ \E q, c \in Nat : Execute(m, i) = Filled(m, i, q, c) /\ CanFill(m, i, o, q, c)
  BY <1>1, ExecuteCases
<1>7. Retry(m, i) = m \/ (Retry(m, i) = Execute(m, i) /\ Working(o))
  BY <1>1 DEF Retry
<1> QED
  BY <1>3, <1>4, <1>5, <1>6, <1>7

\* So does the sync as far as order k.
LEMMA PollShrinks ==
  ASSUME TypeOK, NEW s \in Sym, NEW k \in 0..Len(orders)
  PROVE  StoppedIn(Polls[k].ords, s) <= Stopped(s)
<1> DEFINE n == Len(orders)
           S == {i \in 0..n : StoppedIn(Polls[i].ords, s) <= Stopped(s)}
<1>1. n \in Nat /\ price \in [Sym -> Prices] /\ orders \in OrderBooks(n)
  BY MarketType DEF TypeOK
<1>2. /\ Polls \in [0..n -> Markets(n)]
      /\ Polls[0] = Market(NoFills(broker), orders)
      /\ \A i \in 1..n : Polls[i] = Retry(Polls[i - 1], i)
  BY PollsRun
<1> HIDE DEF n
<1>3. Stopped(s) = StoppedIn(orders, s) /\ Polls[0].ords = orders
  BY <1>2 DEF Stopped, StoppedIn, Market
<1>4. Stopped(s) \in Nat
  BY <1>1, <1>3, StoppedType
<1>5. 0 \in S
  BY <1>1, <1>3, <1>4
<1>6. ASSUME NEW i \in 0..n-1, i \in S PROVE i + 1 \in S
  <2>1. i + 1 \in 1..n /\ i + 1 \in 0..n /\ i \in 0..n /\ (i + 1) - 1 = i
    BY <1>1
  <2>2. PICK m : m = Polls[i]
    OBVIOUS
  <2>3. m \in Markets(n) /\ Polls[i + 1] = Retry(m, i + 1)
    BY <1>2, <2>1, <2>2
  <2>4. /\ StoppedIn(m.ords, s) \in Nat /\ StoppedIn(Retry(m, i + 1).ords, s) \in Nat
        /\ StoppedIn(Retry(m, i + 1).ords, s) <= StoppedIn(m.ords, s)
    BY <1>1, <2>1, <2>3, RetryShrinks
  <2> QED
    BY <1>4, <1>6, <2>1, <2>2, <2>3, <2>4
<1>7. k \in S
  <2> HIDE DEF S
  <2>1. \A i \in 0..n : i \in S
    BY <1>1, <1>5, <1>6, CountUp
  <2>2. k \in 0..n
    BY DEF n
  <2> QED
    BY <2>1, <2>2
<1> QED
  BY <1>7

\* What the sync leaves when only the order book and the account are taken over from it,
\* with the fills lost to the ledger: the stops cover no more than they did.
LEMMA FillsLostCovered ==
  ASSUME SafeInv, NEW n, n = Len(orders), NEW k \in 0..n, NEW m, m = Polls[k]
  PROVE  /\ n \in Nat /\ m \in Markets(n) /\ SameOrders(orders, m.ords, n)
         /\ \A s \in Sym : /\ StoppedIn(m.ords, s) <= m.book.pos[s]
                           /\ StoppedIn(m.ords, s) <= ledger.pos[s]
<1>1. PICK a : a = ManageFills(m.book.fills)
  OBVIOUS
<1>2. n \in Nat /\ m \in Markets(n) /\ Kept(m, a, n, FALSE, FALSE, FALSE)
      /\ SameOrders(orders, m.ords, n)
  BY <1>1, PollEffect
<1>3. ASSUME NEW s \in Sym
      PROVE  /\ StoppedIn(m.ords, s) <= m.book.pos[s]
             /\ StoppedIn(m.ords, s) <= ledger.pos[s]
  <2>1. StoppedIn(m.ords, s) <= m.book.pos[s]
    BY <1>2 DEF Kept, Covered
  <2>2. StoppedIn(m.ords, s) <= Stopped(s)
    BY PollShrinks DEF SafeInv
  <2>3. Stopped(s) <= ledger.pos[s] /\ ledger.pos[s] \in Nat
    BY DEF SafeInv, StopsNeverOversell, TypeOK, LedgerType
  <2>4. Stopped(s) \in Nat /\ StoppedIn(m.ords, s) \in Nat
    <3>1. orders \in OrderBooks(n) /\ m.ords \in OrderBooks(n)
      BY <1>2, MarketType DEF SafeInv, Markets
    <3>2. StoppedIn(orders, s) \in Nat /\ StoppedIn(m.ords, s) \in Nat
      BY <1>2, <3>1, StoppedType
    <3> QED
      BY <3>2 DEF Stopped, StoppedIn
  <2> QED
    BY <2>1, <2>2, <2>3, <2>4
<1> QED
  BY <1>2, <1>3

\* A sync that is cut short: the fills are lost to the ledger, the stops cover no
\* more than they did.
LEMMA SessionStartCutSafe ==
  ASSUME SafeInv, NEW k \in 0..MaxOrders, SessionStartCut(k)
  PROVE  SafeInv'
<1>1. PICK n : n = Len(orders)
  OBVIOUS
<1>2. PICK m : m = PollResting
  OBVIOUS
<1>3. n \in 0..n /\ m = Polls[n]
  BY <1>1, <1>2, MarketType DEF SafeInv, PollResting
<1>4. /\ n \in Nat /\ m \in Markets(n)
      /\ \A s \in Sym : /\ StoppedIn(m.ords, s) <= m.book.pos[s]
                        /\ StoppedIn(m.ords, s) <= ledger.pos[s]
  BY <1>1, <1>3, FillsLostCovered
<1>5. /\ broker' = NoFills(m.book) /\ orders' = PollOpen(m.ords, k) /\ pc' = Entries(MaxNew)
      /\ fault' \in Faults /\ risk' \in RiskState
      /\ UNCHANGED <<ledger, openStops, price, resets>>
  BY <1>2 DEF SessionStartCut, RiskState
<1>6. m.book \in AccountType /\ m.ords \in OrderBooks(n)
  BY <1>4 DEF Markets
<1>7. broker' \in AccountType /\ broker'.pos = m.book.pos
  BY <1>5, <1>6, NoFillsType
<1>8. orders' \in OrderBooks(n) /\ \A s \in Sym : StoppedIn(orders', s) = StoppedIn(m.ords, s)
  BY <1>4, <1>5, <1>6, PollOpenType
<1>9. pc'.at \in {"idle", "entries"} /\ pc' \in PlaceType
  BY <1>5, PlaceTypes DEF PlaceType
<1>10. TypeOK'
  BY <1>4, <1>5, <1>7, <1>8, <1>9, TypeKept DEF SafeInv, TypeOK
<1>11. StopsNeverOversell'
  <2>1. \A s \in Sym : Stopped(s)' = StoppedIn(m.ords, s)
    BY <1>8 DEF Stopped, StoppedIn
  <2> QED
    BY <1>4, <1>5, <1>7, <2>1 DEF StopsNeverOversell
<1>12. StopsAreHeld'
  BY <1>5 DEF StopsAreHeld, SafeInv
<1> QED
  BY <1>9, <1>10, <1>11, <1>12, PlaceQuiet DEF SafeInv

\* A sync that a missing quote ends at the broker: the engine has polled nothing.
LEMMA SessionStartBlindSafe ==
  ASSUME SafeInv, NEW k \in 0..MaxOrders, SessionStartBlind(k)
  PROVE  SafeInv'
<1>1. PICK n : n = Len(orders)
  OBVIOUS
<1>2. PICK m : m = Polls[k]
  OBVIOUS
<1>3. k \in 0..n
  BY <1>1, MarketType DEF SessionStartBlind, SafeInv
<1>4. /\ n \in Nat /\ m \in Markets(n)
      /\ \A s \in Sym : /\ StoppedIn(m.ords, s) <= m.book.pos[s]
                        /\ StoppedIn(m.ords, s) <= ledger.pos[s]
  BY <1>1, <1>2, <1>3, FillsLostCovered
<1>5. /\ broker' = NoFills(m.book) /\ orders' = m.ords /\ pc.at = "idle"
      /\ UNCHANGED <<ledger, openStops, price, fault, risk, pc, resets>>
  BY <1>2 DEF SessionStartBlind
<1>6. m.book \in AccountType /\ m.ords \in OrderBooks(n)
  BY <1>4 DEF Markets
<1>7. broker' \in AccountType /\ broker'.pos = m.book.pos
  BY <1>5, <1>6, NoFillsType
<1>8. TypeOK'
  BY <1>4, <1>5, <1>6, <1>7, TypeKept DEF SafeInv, TypeOK, PlaceType
<1>9. StopsNeverOversell'
  <2>1. \A s \in Sym : Stopped(s)' = StoppedIn(m.ords, s)
    BY <1>5 DEF Stopped, StoppedIn
  <2> QED
    BY <1>4, <1>5, <1>7, <2>1 DEF StopsNeverOversell
<1>10. StopsAreHeld'
  BY <1>5 DEF StopsAreHeld, SafeInv
<1> QED
  BY <1>5, <1>8, <1>9, <1>10, PlaceQuiet DEF SafeInv


-----------------------------------------------------------------------------
\* What a submitted order o, now order r, may have done to the account.
Untouched(r, o) ==
  /\ broker'.pos = broker.pos
  /\ broker'.settled + broker'.unsettled = broker.settled + broker.unsettled
  /\ r.at \notin {"FILLED", "PARTIALLY_FILLED"}
  /\ Working(r) => Left(r) = o.qty /\ FillPrice(o) = 0
  /\ FillPrice(o) = 0 /\ fault # "DISCONNECT" => Working(r)
FilledAtOnce(r, o, q, f) ==
  /\ q \in Nat /\ f \in FillType /\ f.sym = o.sym
  /\ broker'.pos = [broker.pos EXCEPT ![o.sym] = @ + f.qty]
  /\ broker'.settled + broker'.unsettled = broker.settled + broker.unsettled + f.cash - f.fee
  /\ r.at \in {"FILLED", "PARTIALLY_FILLED"} /\ Left(r) = o.qty - q /\ q <= o.qty /\ q > 0
  /\ r.at = "FILLED" <=> q = o.qty
  /\ fault # "PARTIAL_FILL" => q = o.qty
  /\ o.kind = "entry" => f.qty = q /\ broker.settled + f.cash - f.fee >= 0
  /\ o.kind = "stop" => f.qty = -q /\ q <= broker.pos[o.sym]
  /\ FillPrice(o) # 0
  /\ fault # "TIMEOUT" => broker'.fills = <<f>>

\* The three outcomes of submit.
SubmitOutcome(r, acked, cont) ==
  \/ /\ fault = "DISCONNECT" /\ pc' = cont /\ risk' = "FULL_BROKER_DISCONNECT"
     /\ r.sm = "UNKNOWN"
  \/ /\ fault = "TIMEOUT" /\ pc' = cont /\ risk' = "HALT_NEW_ENTRIES" /\ r.sm = "UNKNOWN"
  \/ /\ fault \notin {"DISCONNECT", "TIMEOUT"} /\ pc' = GoOn(acked) /\ risk' = risk
     /\ r.sm = "ACKNOWLEDGED"

\* The order book that submit leaves.
SubmitBook(r, o, n) ==
  /\ broker' \in AccountType /\ orders' \in OrderBooks(n + 1) /\ r = orders'[n + 1]
  /\ \A j \in 1..n : orders'[j] = orders[j]
  /\ r \in OrderType /\ r.kind = o.kind /\ r.sym = o.sym
  /\ \A s \in Sym : /\ Stopped(s) \in Nat /\ Covers(r, s) \in Nat
                    /\ Stopped(s)' = Stopped(s) + Covers(r, s)

\* An order that reaches the broker.
LEMMA ArrivedEffect ==
  ASSUME TypeOK, NEW o \in OrderType, o.filled = 0, Halvable(o), NEW p, p = AtEngine(o, p.sm),
         p.sm \in OrderState, NEW x, x = Arrive(p), NEW n, n = Len(orders), orders' = x.ords,
         broker' = NoFills(x.book) \/ (broker' = x.book /\ fault # "TIMEOUT"),
         broker' = x.book \/ fault = "TIMEOUT"
  PROVE  \E r : /\ SubmitBook(r, o, n) /\ r.sm = p.sm
                /\ Untouched(r, o) \/ \E q, f : FilledAtOnce(r, o, q, f)
<1>1. /\ p \in OrderType /\ p.filled = 0 /\ p.kind = o.kind /\ p.sym = o.sym /\ p.qty = o.qty
      /\ p.stop = o.stop
  <2>1. PICK st \in OrderState : st = p.sm
    OBVIOUS
  <2> QED
    BY <2>1, AtEngineType
<1>2. FillPrice(p) = FillPrice(o) /\ (Halvable(p) <=> Halvable(o))
  BY <1>1 DEF FillPrice, Halvable, Left
<1>3. PICK r : /\ Joined(x, r, p, n)
               /\ \/ RestsOnArrival(x, r, p) \/ RejectedOnArrival(x, r, p)
                  \/ \E q, f : FilledOnArrival(x, r, p, q, f)
  BY <1>1, ArriveEffect
<1>4. x.book \in AccountType /\ x.ords \in OrderBooks(n + 1)
  BY <1>3 DEF Joined, Markets
<1>5. /\ broker' \in AccountType /\ broker'.pos = x.book.pos
      /\ broker'.settled = x.book.settled /\ broker'.unsettled = x.book.unsettled
      /\ fault # "TIMEOUT" => broker'.fills = x.book.fills
  BY <1>4, NoFillsType
<1>6. SubmitBook(r, o, n) /\ r.sm = p.sm
  <2>1. \A s : Stopped(s)' = StoppedIn(x.ords, s)
    BY DEF Stopped, StoppedIn
  <2> QED
    BY <1>1, <1>3, <1>4, <1>5, <2>1 DEF Joined, SubmitBook
<1>7. NoFills(broker).pos = broker.pos /\ NoFills(broker).settled = broker.settled
      /\ NoFills(broker).unsettled = broker.unsettled
  BY NoFillsType DEF TypeOK
<1>8. CASE RestsOnArrival(x, r, p)
  <2>1. Untouched(r, o)
    BY <1>1, <1>2, <1>5, <1>7, <1>8 DEF RestsOnArrival, Untouched, Working, RestingStates
  <2> QED
    BY <1>6, <2>1
<1>9. CASE RejectedOnArrival(x, r, p)
  <2>1. Untouched(r, o)
    BY <1>2, <1>5, <1>7, <1>9 DEF RejectedOnArrival, Untouched, Working, RestingStates
  <2> QED
    BY <1>6, <2>1
<1>10. CASE \E q, f : FilledOnArrival(x, r, p, q, f)
  <2>1. PICK q, f : FilledOnArrival(x, r, p, q, f)
    BY <1>10
  <2>2. FilledAtOnce(r, o, q, f)
    BY <1>1, <1>2, <1>5, <2>1 DEF FilledOnArrival, FilledAtOnce
  <2> QED
    BY <1>6, <2>2
<1> QED
  BY <1>3, <1>8, <1>9, <1>10


\* A book that an order joins.
LEMMA BookGrows ==
  ASSUME NEW n \in Nat, NEW os \in OrderBooks(n), NEW o \in OrderType, o.filled <= o.qty
  PROVE  /\ Append(os, o) \in OrderBooks(n + 1)
         /\ Append(os, o)[n + 1] = o /\ \A j \in 1..n : Append(os, o)[j] = os[j]
<1>1. o.sym \in Sym
  BY DEF OrderType
<1> QED
  BY <1>1, StoppedGrows

\* ExecutionEngine.submit: the order joins the book, and the session goes on.
LEMMA SubmitEffect ==
  ASSUME TypeOK, NEW o \in OrderType, o.filled = 0, o.at = Absent, NEW acked, NEW cont,
         SubmitOrder(o, acked, cont), NEW n, n = Len(orders)
  PROVE  \E r : /\ SubmitBook(r, o, n) /\ SubmitOutcome(r, acked, cont)
                /\ Untouched(r, o) \/ \E q, f : FilledAtOnce(r, o, q, f)
                /\ fault = "DISCONNECT" => Untouched(r, o) /\ broker' = broker
<1>1. Halvable(o) /\ "UNKNOWN" \in OrderState /\ "ACKNOWLEDGED" \in OrderState
  BY DEF SubmitOrder, OrderState
<1>2. CASE /\ fault = "DISCONNECT" /\ orders' = Append(orders, AtEngine(o, "UNKNOWN"))
           /\ risk' = "FULL_BROKER_DISCONNECT" /\ pc' = cont /\ broker' = broker
  <2>1. PICK r : r = AtEngine(o, "UNKNOWN")
    OBVIOUS
  <2>2. /\ r \in OrderType /\ r.filled = 0 /\ r.at = Absent /\ r.kind = o.kind /\ r.sym = o.sym
        /\ r.qty = o.qty /\ r.sm = "UNKNOWN"
    BY <1>1, <2>1, AtEngineType
  <2>3. r.filled <= r.qty
    BY <2>2 DEF OrderType
  <2>4. n \in Nat /\ orders \in OrderBooks(n)
    BY MarketType
  <2>5. /\ orders' \in OrderBooks(n + 1) /\ orders'[n + 1] = r
        /\ \A j \in 1..n : orders'[j] = orders[j]
    <3>1. \A os : os = Append(orders, r) =>
            /\ os \in OrderBooks(n + 1) /\ os[n + 1] = r /\ \A j \in 1..n : os[j] = orders[j]
      BY <2>2, <2>3, <2>4, BookGrows
    <3> QED
      BY <1>2, <2>1, <3>1
  <2>6. \A s \in Sym : /\ Stopped(s) \in Nat /\ Covers(r, s) \in Nat
                       /\ Stopped(s)' = Stopped(s) + Covers(r, s)
    <3> SUFFICES ASSUME NEW s \in Sym
                 PROVE  /\ Stopped(s) \in Nat /\ Covers(r, s) \in Nat
                        /\ Stopped(s)' = Stopped(s) + Covers(r, s)
      OBVIOUS
    <3>1. /\ StoppedIn(orders, s) \in Nat /\ Covers(r, s) \in Nat
          /\ StoppedIn(Append(orders, r), s) = StoppedIn(orders, s) + Covers(r, s)
      BY <2>2, <2>3, <2>4, StoppedGrows, CoversType
    <3>2. Stopped(s) = StoppedIn(orders, s) /\ Stopped(s)' = StoppedIn(Append(orders, r), s)
      BY <1>2, <2>1 DEF Stopped, StoppedIn
    <3> QED
      BY <3>1, <3>2
  <2>7. SubmitBook(r, o, n)
    BY <1>2, <2>2, <2>5, <2>6 DEF SubmitBook, TypeOK
  <2>8. Untouched(r, o)
    BY <1>2, <2>2 DEF Untouched, Absent, Working, RestingStates
  <2> QED
    BY <1>2, <2>2, <2>7, <2>8 DEF SubmitOutcome
<1>3. CASE /\ fault = "TIMEOUT"
           /\ LET m == Arrive(AtEngine(o, "UNKNOWN"))
              IN  broker' = NoFills(m.book) /\ orders' = m.ords
           /\ risk' = "HALT_NEW_ENTRIES" /\ pc' = cont
  <2>1. PICK p : p = AtEngine(o, "UNKNOWN")
    OBVIOUS
  <2>2. p.sm = "UNKNOWN"
    BY <2>1 DEF AtEngine
  <2>3. PICK x : x = Arrive(p)
    OBVIOUS
  <2>4. PICK r : /\ SubmitBook(r, o, n) /\ r.sm = p.sm
                 /\ Untouched(r, o) \/ \E q, f : FilledAtOnce(r, o, q, f)
    BY <1>1, <1>3, <2>1, <2>2, <2>3, ArrivedEffect
  <2>5. SubmitOutcome(r, acked, cont) /\ fault # "DISCONNECT"
    BY <1>3, <2>2, <2>4 DEF SubmitOutcome
  <2> QED
    BY <2>4, <2>5
<1>4. CASE /\ fault \notin {"DISCONNECT", "TIMEOUT"}
           /\ LET m == Arrive(AtEngine(o, "ACKNOWLEDGED"))
              IN  broker' = m.book /\ orders' = m.ords
           /\ pc' = GoOn(acked) /\ risk' = risk
  <2>1. PICK p : p = AtEngine(o, "ACKNOWLEDGED")
    OBVIOUS
  <2>2. p.sm = "ACKNOWLEDGED"
    BY <2>1 DEF AtEngine
  <2>3. PICK x : x = Arrive(p)
    OBVIOUS
  <2>4. PICK r : /\ SubmitBook(r, o, n) /\ r.sm = p.sm
                 /\ Untouched(r, o) \/ \E q, f : FilledAtOnce(r, o, q, f)
    BY <1>1, <1>4, <2>1, <2>2, <2>3, ArrivedEffect
  <2>5. SubmitOutcome(r, acked, cont) /\ fault # "DISCONNECT"
    BY <1>4, <2>2, <2>4 DEF SubmitOutcome
  <2> QED
    BY <2>4, <2>5
<1> QED
  BY <1>2, <1>3, <1>4 DEF SubmitOrder

\* What a submitted stop covers: what it does not sell at once, at most.
LEMMA StopCovers ==
  ASSUME NEW o \in OrderType, o.filled = 0, NEW r \in OrderType, r.kind = o.kind,
         r.sym = o.sym, NEW s \in Sym
  PROVE  /\ o.kind = "entry" => Covers(r, s) = 0
         /\ s # o.sym => Covers(r, s) = 0
         /\ Untouched(r, o) => Covers(r, s) = 0 \/ Covers(r, s) = o.qty
         /\ \A q, f : FilledAtOnce(r, o, q, f) /\ o.kind = "stop" /\ s = o.sym
                        => Covers(r, s) = o.qty - q
<1>1. o.qty \in Nat /\ o.kind \in {"entry", "stop"}
  BY DEF OrderType
<1>2. /\ o.kind = "entry" => Covers(r, s) = 0
      /\ s # o.sym => Covers(r, s) = 0
  BY DEF Covers
<1>3. Untouched(r, o) => Covers(r, s) = 0 \/ Covers(r, s) = o.qty
  BY DEF Covers, Untouched
<1>4. ASSUME NEW q, NEW f, FilledAtOnce(r, o, q, f), o.kind = "stop", s = o.sym
      PROVE  Covers(r, s) = o.qty - q
  <2>1. q \in Nat /\ r.at \in {"FILLED", "PARTIALLY_FILLED"} /\ Left(r) = o.qty - q
        /\ (r.at = "FILLED" <=> q = o.qty)
    BY <1>4 DEF FilledAtOnce
  <2> QED
    BY <1>1, <1>4, <2>1 DEF Covers, Working, RestingStates
<1> QED
  BY <1>2, <1>3, <1>4


-----------------------------------------------------------------------------
\* A new order.
LEMMA OrderTyped ==
  ASSUME NEW s \in Sym, NEW kind \in {"entry", "stop"}, NEW q \in Nat \ {0}, NEW stop \in Int
  PROVE  /\ Order(s, kind, q, stop) \in OrderType /\ Order(s, kind, q, stop).filled = 0
         /\ Order(s, kind, q, stop).at = Absent /\ Order(s, kind, q, stop).kind = kind
         /\ Order(s, kind, q, stop).sym = s /\ Order(s, kind, q, stop).qty = q
         /\ Order(s, kind, q, stop).stop = stop /\ Order(s, kind, q, stop).sm = "SUBMITTED"
  BY DEF Order, OrderType, OrderState

\* Going on with the entry in hand.
LEMMA GoOnType ==
  ASSUME pc \in PlaceType, NEW at \in Stages
  PROVE  /\ GoOn(at) \in PlaceType /\ GoOn(at).at = at /\ GoOn(at).left = pc.left
         /\ GoOn(at).sym = pc.sym /\ GoOn(at).qty = pc.qty /\ GoOn(at).stop = pc.stop
  BY DEF GoOn, Place, PlaceType

\* Sending an entry: what it bought is under no stop.
LEMMA EntrySubmitSafe ==
  ASSUME SafeInv, EntrySubmit
  PROVE  SafeInv'
<1>1. TypeOK /\ StopsNeverOversell /\ PlaceInv /\ StopsAreHeld
  BY DEF SafeInv
<1>2. PICK n : n = Len(orders)
  OBVIOUS
<1>3. n \in Nat
  BY <1>1, <1>2, MarketType
<1>4. pc.sym \in Sym /\ pc.qty \in Nat \ {0} /\ pc.left \in 0..MaxNew /\ pc \in PlaceType
  BY <1>1 DEF EntrySubmit, PlaceInv, TypeOK, PlaceType
<1>5. PICK o : o = Order(pc.sym, "entry", pc.qty, 0)
  OBVIOUS
<1>6. /\ o \in OrderType /\ o.filled = 0 /\ o.at = Absent /\ o.kind = "entry" /\ o.sym = pc.sym
      /\ o.qty = pc.qty
  BY <1>4, <1>5, OrderTyped
<1>7. SubmitOrder(o, "acked", Entries(pc.left)) /\ UNCHANGED <<ledger, openStops, price, fault, resets>>
  BY <1>5 DEF EntrySubmit
<1>8. PICK r : /\ SubmitBook(r, o, n) /\ SubmitOutcome(r, "acked", Entries(pc.left))
               /\ Untouched(r, o) \/ \E q, f : FilledAtOnce(r, o, q, f)
  BY <1>1, <1>2, <1>6, <1>7, SubmitEffect
<1>9. /\ broker' \in AccountType /\ orders' \in OrderBooks(n + 1) /\ r = orders'[n + 1]
      /\ r \in OrderType /\ r.kind = o.kind /\ r.sym = o.sym
      /\ \A s \in Sym : /\ Stopped(s) \in Nat /\ Covers(r, s) \in Nat
                        /\ Stopped(s)' = Stopped(s) + Covers(r, s)
  BY <1>8 DEF SubmitBook
<1>10. \A s \in Sym : Stopped(s)' = Stopped(s) /\ Stopped(s) \in Nat
  BY <1>6, <1>9, StopCovers
<1>11. pc' = Entries(pc.left) \/ (pc' = GoOn("acked") /\ fault # "TIMEOUT")
  BY <1>8 DEF SubmitOutcome
<1>12. pc' \in PlaceType /\ risk' \in RiskState
  <2>1. "acked" \in Stages
    BY DEF Stages
  <2>2. GoOn("acked") \in PlaceType /\ Entries(pc.left) \in PlaceType
    BY <1>4, <2>1, GoOnType, PlaceTypes DEF PlaceType
  <2> QED
    BY <1>1, <1>8, <1>11, <2>2 DEF SubmitOutcome, RiskState, TypeOK
<1>13. TypeOK' /\ Len(orders') = n + 1
  <2>1. n + 1 \in Nat
    BY <1>3
  <2> QED
    BY <1>1, <1>7, <1>9, <1>12, <2>1, TypeKept DEF TypeOK
<1>14. broker.pos \in [Sym -> Nat] /\ broker'.pos \in [Sym -> Nat]
  BY <1>1, <1>9 DEF TypeOK, AccountType
<1>15. \A s \in Sym : Stopped(s) <= broker.pos[s] /\ Stopped(s) <= ledger.pos[s]
  BY <1>1 DEF StopsNeverOversell
<1>16. StopsAreHeld'
  BY <1>1, <1>7 DEF StopsAreHeld
<1>17. CASE Untouched(r, o)
  <2>1. broker'.pos = broker.pos /\ r.at \notin {"FILLED", "PARTIALLY_FILLED"}
    BY <1>17 DEF Untouched
  <2>2. StopsNeverOversell'
    BY <1>7, <1>10, <1>15, <2>1 DEF StopsNeverOversell
  <2>3. ~LastFilled'
    BY <1>9, <1>13, <2>1 DEF LastFilled
  <2>4. PlaceInv'
    <3>1. CASE pc' = Entries(pc.left)
      BY <1>4, <3>1, PlaceTypes, PlaceQuiet
    <3>2. CASE pc' = GoOn("acked")
      <4>1. pc'.at = "acked" /\ pc'.sym = pc.sym /\ pc'.qty = pc.qty
        BY <3>2 DEF GoOn, Place
      <4> QED
        BY <1>3, <1>4, <1>13, <2>3, <4>1 DEF PlaceInv
    <3> QED
      BY <1>11, <3>1, <3>2
  <2> QED
    BY <1>13, <1>16, <2>2, <2>4 DEF SafeInv
<1>18. CASE \E q, f : FilledAtOnce(r, o, q, f)
  <2>1. PICK q, f : FilledAtOnce(r, o, q, f)
    BY <1>18
  <2>2. /\ q \in Nat /\ q > 0 /\ f.qty = q /\ f.sym = pc.sym /\ f \in FillType
        /\ broker'.pos = [broker.pos EXCEPT ![pc.sym] = @ + q]
        /\ fault # "TIMEOUT" => broker'.fills = <<f>>
    BY <1>6, <2>1 DEF FilledAtOnce
  <2>3. /\ broker'.pos[pc.sym] = broker.pos[pc.sym] + q
        /\ \A s \in Sym : s # pc.sym => broker'.pos[s] = broker.pos[s]
    BY <1>4, <1>14, <2>2
  <2>4. \A s \in Sym : broker.pos[s] <= broker'.pos[s] /\ broker.pos[s] \in Nat
    BY <1>14, <2>2, <2>3
  <2>5. StopsNeverOversell'
    <3>1. \A s \in Sym : Stopped(s) <= broker'.pos[s]
      BY <1>10, <1>14, <1>15, <2>4
    <3> QED
      BY <1>7, <1>10, <1>15, <3>1 DEF StopsNeverOversell
  <2>6. PlaceInv'
    <3>1. CASE pc' = Entries(pc.left)
      BY <1>4, <3>1, PlaceTypes, PlaceQuiet
    <3>2. CASE pc' = GoOn("acked") /\ fault # "TIMEOUT"
      <4>1. pc'.at = "acked" /\ pc'.sym = pc.sym /\ pc'.qty = pc.qty
        BY <3>2 DEF GoOn, Place
      <4>2. Len(broker'.fills) = 1 /\ broker'.fills[1] = f
        <5>1. broker'.fills = <<f>>
          BY <2>2, <3>2
        <5>2. Len(<<f>>) = 1 /\ <<f>>[1] = f
          OBVIOUS
        <5> QED
          BY <5>1, <5>2
      <4>3. PICK u : u = pc.sym
        OBVIOUS
      <4>4. Stopped(u)' + q <= broker'.pos[u]
        BY <1>4, <1>10, <1>14, <1>15, <2>2, <2>3, <4>3
      <4>5. FillInHand'
        <5>1. Stopped(pc.sym)' = Stopped(u)'
          BY <4>1, <4>3
        <5> QED
          BY <2>2, <4>1, <4>2, <4>3, <4>4, <5>1 DEF FillInHand
      <4> QED
        BY <1>3, <1>4, <1>13, <4>1, <4>5 DEF PlaceInv
    <3> QED
      BY <1>11, <3>1, <3>2
  <2> QED
    BY <1>13, <1>16, <2>5, <2>6 DEF SafeInv
<1> QED
  BY <1>8, <1>17, <1>18


\* What a stop submitted after booking leaves: the stops of its symbol still cover
\* neither more than the account nor more than the ledger holds.
LEMMA StopSubmitCovers ==
  ASSUME SafeInv, pc.at = "booked", NEW o \in OrderType, o.filled = 0, o.kind = "stop",
         o.sym = pc.sym, o.qty = pc.qty, NEW r, NEW n, SubmitBook(r, o, n), ledger' = ledger,
         Untouched(r, o) \/ \E q, f : FilledAtOnce(r, o, q, f)
  PROVE  StopsNeverOversell'
<1>1. TypeOK /\ StopsNeverOversell /\ PlaceInv
  BY DEF SafeInv
<1>2. PICK u : u = pc.sym
  OBVIOUS
<1>3. PICK k : k = pc.qty
  OBVIOUS
<1>4. u \in Sym /\ k \in Nat /\ k > 0 /\ o.sym = u /\ o.qty = k
  BY <1>1, <1>2, <1>3 DEF PlaceInv, TypeOK
<1>5. /\ broker' \in AccountType /\ r \in OrderType /\ r.kind = o.kind /\ r.sym = o.sym
      /\ \A s \in Sym : /\ Stopped(s) \in Nat /\ Covers(r, s) \in Nat
                        /\ Stopped(s)' = Stopped(s) + Covers(r, s)
  BY DEF SubmitBook
<1>6. broker.pos \in [Sym -> Nat] /\ ledger.pos \in [Sym -> Nat] /\ broker'.pos \in [Sym -> Nat]
  BY <1>1, <1>5 DEF TypeOK, AccountType, LedgerType
<1>7. \A s \in Sym : Stopped(s) <= broker.pos[s] /\ Stopped(s) <= ledger.pos[s]
  BY <1>1 DEF StopsNeverOversell
<1>8. Stopped(u) + k <= broker.pos[u] /\ Stopped(u) + k <= ledger.pos[u]
  BY <1>1, <1>2, <1>3 DEF PlaceInv
<1>9. \A s \in Sym : s # u => Covers(r, s) = 0
  BY <1>4, <1>5, StopCovers
<1>10. ASSUME NEW s \in Sym
       PROVE  Stopped(s)' <= broker'.pos[s] /\ Stopped(s)' <= ledger.pos[s]
  <2>1. CASE Untouched(r, o)
    <3>1. broker'.pos = broker.pos
      BY <2>1 DEF Untouched
    <3>2. Covers(r, u) = 0 \/ Covers(r, u) = k
      BY <1>4, <1>5, <2>1, StopCovers
    <3>3. CASE s # u
      BY <1>5, <1>7, <1>9, <3>1, <3>3
    <3>4. CASE s = u
      <4>1. Stopped(u)' = Stopped(u) \/ Stopped(u)' = Stopped(u) + k
        BY <1>4, <1>5, <3>2
      <4>2. Stopped(u)' <= broker.pos[u] /\ Stopped(u)' <= ledger.pos[u]
        BY <1>4, <1>7, <1>8, <4>1
      <4> QED
        BY <3>1, <3>4, <4>2
    <3> QED
      BY <3>3, <3>4
  <2>2. CASE \E q, f : FilledAtOnce(r, o, q, f)
    <3>1. PICK q, f : FilledAtOnce(r, o, q, f)
      BY <2>2
    <3>2. /\ q \in Nat /\ q <= k /\ f.qty = -q
          /\ broker'.pos = [broker.pos EXCEPT ![u] = @ + f.qty]
      BY <1>4, <3>1 DEF FilledAtOnce
    <3>3. Covers(r, u) = k - q
      BY <1>4, <1>5, <3>1, StopCovers
    <3>4. CASE s # u
      <4>1. broker'.pos[s] = broker.pos[s]
        BY <1>6, <3>2, <3>4
      <4> QED
        BY <1>5, <1>7, <1>9, <3>4, <4>1
    <3>5. CASE s = u
      <4>1. broker'.pos[u] = broker.pos[u] - q /\ broker.pos[u] \in Nat /\ ledger.pos[u] \in Nat
        BY <1>4, <1>6, <3>2
      <4>2. Stopped(u)' = Stopped(u) + (k - q) /\ Stopped(u) \in Nat
        BY <1>4, <1>5, <3>3
      <4>3. Stopped(u)' <= broker'.pos[u] /\ Stopped(u)' <= ledger.pos[u]
        BY <1>4, <1>8, <3>2, <4>1, <4>2
      <4> QED
        BY <3>5, <4>3
    <3> QED
      BY <3>4, <3>5
  <2> QED
    BY <2>1, <2>2
<1> QED
  BY <1>10 DEF StopsNeverOversell

\* Placing the protective stop.
LEMMA StopSubmitSafe ==
  ASSUME SafeInv, StopSubmit
  PROVE  SafeInv'
<1>1. TypeOK /\ PlaceInv /\ StopsAreHeld /\ pc.at = "booked"
  BY DEF SafeInv, StopSubmit
<1>2. PICK n : n = Len(orders)
  OBVIOUS
<1>3. n \in Nat
  BY <1>1, <1>2, MarketType
<1>4. /\ pc.sym \in Sym /\ pc.qty \in Nat \ {0} /\ pc.left \in 0..MaxNew /\ pc \in PlaceType
      /\ pc.stop \in Int
  BY <1>1 DEF PlaceInv, TypeOK, PlaceType
<1>5. PICK o : o = Order(pc.sym, "stop", pc.qty, pc.stop)
  OBVIOUS
<1>6. /\ o \in OrderType /\ o.filled = 0 /\ o.at = Absent /\ o.kind = "stop" /\ o.sym = pc.sym
      /\ o.qty = pc.qty
  BY <1>4, <1>5, OrderTyped
<1>7. /\ SubmitOrder(o, "stopAcked", Entries(pc.left))
      /\ openStops' = (IF pc'.at = "entries" THEN openStops \cup {pc.sym} ELSE openStops)
      /\ UNCHANGED <<ledger, price, fault, resets>>
  BY <1>5 DEF StopSubmit
<1>8. PICK r : /\ SubmitBook(r, o, n) /\ SubmitOutcome(r, "stopAcked", Entries(pc.left))
               /\ Untouched(r, o) \/ \E q, f : FilledAtOnce(r, o, q, f)
  BY <1>1, <1>2, <1>6, <1>7, SubmitEffect
<1>9. StopsNeverOversell'
  BY <1>1, <1>6, <1>7, <1>8, StopSubmitCovers
<1>10. broker' \in AccountType /\ orders' \in OrderBooks(n + 1)
  BY <1>8 DEF SubmitBook
<1>11. pc' = Entries(pc.left) \/ pc' = GoOn("stopAcked")
  BY <1>8 DEF SubmitOutcome
<1>12. pc' \in PlaceType /\ risk' \in RiskState /\ openStops' \subseteq Sym
  <2>1. "stopAcked" \in Stages
    BY DEF Stages
  <2>2. GoOn("stopAcked") \in PlaceType /\ Entries(pc.left) \in PlaceType
    BY <1>4, <2>1, GoOnType, PlaceTypes DEF PlaceType
  <2>3. openStops' \subseteq Sym
    BY <1>1, <1>4, <1>7 DEF TypeOK
  <2> QED
    BY <1>1, <1>8, <1>11, <2>2, <2>3 DEF SubmitOutcome, RiskState, TypeOK
<1>13. TypeOK' /\ Len(orders') = n + 1
  <2>1. n + 1 \in Nat
    BY <1>3
  <2> QED
    BY <1>1, <1>7, <1>10, <1>12, <2>1, TypeKept DEF TypeOK
<1>14. ledger.pos[pc.sym] > 0
  <2>1. /\ Stopped(pc.sym) + pc.qty <= ledger.pos[pc.sym] /\ Stopped(pc.sym) \in Nat
        /\ ledger.pos[pc.sym] \in Nat
    BY <1>1, <1>4, <1>8 DEF PlaceInv, SubmitBook, TypeOK, LedgerType
  <2> QED
    BY <1>4, <2>1
<1>15. StopsAreHeld'
  BY <1>1, <1>7, <1>14 DEF StopsAreHeld
<1>16. PlaceInv'
  <2>1. CASE pc' = Entries(pc.left)
    BY <1>4, <2>1, PlaceTypes, PlaceQuiet
  <2>2. CASE pc' = GoOn("stopAcked")
    <3>1. pc'.at = "stopAcked" /\ pc'.sym = pc.sym /\ pc'.qty = pc.qty
      BY <2>2 DEF GoOn, Place
    <3> QED
      BY <1>3, <1>4, <1>7, <1>13, <1>14, <3>1 DEF PlaceInv
  <2> QED
    BY <1>11, <2>1, <2>2
<1> QED
  BY <1>9, <1>13, <1>15, <1>16 DEF SafeInv


\* An order that the broker has taken in but, for want of a quote, not tried: r is it in
\* the book, SUBMITTED for the engine.
TakenIn(r, o, n) ==
  /\ SubmitBook(r, o, n) /\ r.sm = "SUBMITTED" /\ broker'.pos = broker.pos
  /\ \A s \in Sym : Covers(r, s) = 0 \/ (o.kind = "stop" /\ s = o.sym /\ Covers(r, s) = o.qty)

LEMMA SubmitBlindEffect ==
  ASSUME TypeOK, NEW o \in OrderType, o.filled = 0, o.sm = "SUBMITTED", SubmitBlind(o),
         NEW n, n = Len(orders)
  PROVE  \E r : TakenIn(r, o, n)
<1>1. PICK r : r = AtBroker(o, 0, "ACKNOWLEDGED")
  OBVIOUS
<1>2. /\ r \in OrderType /\ r.filled = 0 /\ r.at = "ACKNOWLEDGED" /\ r.kind = o.kind
      /\ r.sym = o.sym /\ r.qty = o.qty /\ r.sm = "SUBMITTED"
  <2>1. "ACKNOWLEDGED" \in OrderState
    BY DEF OrderState
  <2> QED
    BY <1>1, <2>1, AtBrokerType
<1>3. r.filled <= r.qty /\ o.qty \in Nat
  BY <1>2 DEF OrderType
<1>4. n \in Nat /\ orders \in OrderBooks(n)
  BY MarketType
<1>5. orders' = Append(orders, r) /\ broker' = NoFills(broker)
  BY <1>1 DEF SubmitBlind
<1>6. broker' \in AccountType /\ broker'.pos = broker.pos
  BY <1>5, NoFillsType DEF TypeOK
<1>7. /\ orders' \in OrderBooks(n + 1) /\ orders'[n + 1] = r
      /\ \A j \in 1..n : orders'[j] = orders[j]
  BY <1>2, <1>3, <1>4, <1>5, BookGrows
<1>8. ASSUME NEW s \in Sym
      PROVE  /\ Stopped(s) \in Nat /\ Covers(r, s) \in Nat
             /\ Stopped(s)' = Stopped(s) + Covers(r, s)
  <2>1. /\ StoppedIn(orders, s) \in Nat /\ Covers(r, s) \in Nat
        /\ StoppedIn(Append(orders, r), s) = StoppedIn(orders, s) + Covers(r, s)
    BY <1>2, <1>3, <1>4, StoppedGrows, CoversType
  <2>2. Stopped(s) = StoppedIn(orders, s) /\ Stopped(s)' = StoppedIn(Append(orders, r), s)
    BY <1>5 DEF Stopped, StoppedIn
  <2> QED
    BY <2>1, <2>2
<1>9. SubmitBook(r, o, n)
  BY <1>2, <1>6, <1>7, <1>8 DEF SubmitBook
<1>10. \A s \in Sym : Covers(r, s) = 0 \/ (o.kind = "stop" /\ s = o.sym /\ Covers(r, s) = o.qty)
  BY <1>2, <1>3 DEF Covers, Left
<1> QED
  BY <1>2, <1>6, <1>9, <1>10 DEF TakenIn

\* A submit that a missing quote ends: the order works at the broker, and a stop is for
\* no more than the shares just booked.
LEMMA SubmitBlindSafe ==
  ASSUME SafeInv, EntrySubmitBlind \/ StopSubmitBlind
  PROVE  /\ SafeInv'
         /\ \E o, r : TakenIn(r, o, Len(orders))
<1>1. TypeOK /\ PlaceInv /\ StopsAreHeld /\ StopsNeverOversell
  BY DEF SafeInv
<1>2. PICK n : n = Len(orders)
  OBVIOUS
<1>3. n \in Nat
  BY <1>1, <1>2, MarketType
<1>4. pc.sym \in Sym /\ pc.qty \in Nat \ {0} /\ pc.stop \in Int
  BY <1>1 DEF EntrySubmitBlind, StopSubmitBlind, PlaceInv, TypeOK
<1>5. PICK u : u = pc.sym
  OBVIOUS
<1>6. PICK o : /\ o \in OrderType /\ o.filled = 0 /\ o.sm = "SUBMITTED" /\ o.sym = u
               /\ o.qty = pc.qty /\ SubmitBlind(o) /\ (o.kind = "stop" => pc.at = "booked")
  <2>1. CASE EntrySubmitBlind
    <3>1. PICK o : o = Order(pc.sym, "entry", pc.qty, 0)
      OBVIOUS
    <3> QED
      BY <1>4, <1>5, <2>1, <3>1, OrderTyped DEF EntrySubmitBlind
  <2>2. CASE StopSubmitBlind
    <3>1. PICK o : o = Order(pc.sym, "stop", pc.qty, pc.stop)
      OBVIOUS
    <3> QED
      BY <1>4, <1>5, <2>2, <3>1, OrderTyped DEF StopSubmitBlind
  <2> QED
    BY <2>1, <2>2
<1>7. PICK r : TakenIn(r, o, n)
  BY <1>1, <1>2, <1>6, SubmitBlindEffect
<1>8. /\ broker' \in AccountType /\ orders' \in OrderBooks(n + 1) /\ broker'.pos = broker.pos
      /\ \A s \in Sym : /\ Stopped(s) \in Nat /\ Covers(r, s) \in Nat
                        /\ Stopped(s)' = Stopped(s) + Covers(r, s)
  BY <1>7 DEF TakenIn, SubmitBook
<1>9. pc' = Between /\ UNCHANGED <<ledger, openStops, price, fault, risk, resets>>
  BY <1>6 DEF SubmitBlind
<1>10. pc'.at = "idle" /\ pc' \in PlaceType
  BY <1>9, PlaceTypes DEF PlaceType
<1>11. TypeOK'
  <2>1. n + 1 \in Nat
    BY <1>3
  <2> QED
    BY <1>1, <1>8, <1>9, <1>10, <2>1, TypeKept DEF TypeOK
<1>12. broker.pos \in [Sym -> Nat] /\ ledger.pos \in [Sym -> Nat]
  BY <1>1 DEF TypeOK, AccountType, LedgerType
<1>13. ASSUME NEW s \in Sym
       PROVE  Stopped(s)' <= broker.pos[s] /\ Stopped(s)' <= ledger.pos[s]
  <2>1. Stopped(s) <= broker.pos[s] /\ Stopped(s) <= ledger.pos[s]
    BY <1>1 DEF StopsNeverOversell
  <2>2. CASE Covers(r, s) = 0
    BY <1>8, <2>1, <2>2
  <2>3. CASE o.kind = "stop" /\ s = u /\ Covers(r, s) = pc.qty
    <3>1. Stopped(s) + pc.qty <= broker.pos[s] /\ Stopped(s) + pc.qty <= ledger.pos[s]
      BY <1>1, <1>5, <1>6, <2>3 DEF PlaceInv
    <3> QED
      BY <1>8, <2>3, <3>1
  <2> QED
    BY <1>6, <1>7, <2>2, <2>3 DEF TakenIn
<1>14. StopsNeverOversell'
  BY <1>8, <1>9, <1>13 DEF StopsNeverOversell
<1>15. StopsAreHeld'
  BY <1>1, <1>9 DEF StopsAreHeld
<1> QED
  BY <1>2, <1>7, <1>10, <1>11, <1>14, <1>15, PlaceQuiet DEF SafeInv

\* Where quotes are always there, nothing ends a session for want of one.
LEMMA QuotesThere ==
  ASSUME ~QuotesFail
  PROVE  ~QuoteMissing
  BY DEF QuoteMissing, SessionStartBlind, EntrySubmitBlind, StopSubmitBlind, SubmitBlind,
         StopReviewBlind


\* The engine's look at order i, which is p for it from then on.
Looked(i, p) ==
  /\ p.filled = orders[i].filled /\ p.qty = orders[i].qty /\ p.kind = orders[i].kind
  /\ p.sym = orders[i].sym /\ p.at = orders[i].at
  /\ orders' = [orders EXCEPT ![i] = p]

\* Such a look leaves the order what it is at the broker.
LEMMA LookEffect ==
  ASSUME TypeOK, NEW n, n = Len(orders), NEW i \in 1..n, NEW p \in OrderType, Looked(i, p)
  PROVE  /\ n \in Nat /\ orders' \in OrderBooks(n) /\ Len(orders') = n /\ orders'[i] = p
         /\ SameBut(orders, orders', n, i)
         /\ \A s \in Sym : Stopped(s)' = Stopped(s)
<1>1. n \in Nat /\ orders \in OrderBooks(n)
  BY MarketType
<1>2. orders[i] \in OrderType /\ orders[i].filled <= orders[i].qty
  BY <1>1, BookOrders
<1>3. orders' \in OrderBooks(n) /\ orders'[i] = p /\ SameBut(orders, orders', n, i)
  <2>1. p.filled <= p.qty
    BY <1>2 DEF Looked
  <2>2. PICK new : new = [orders EXCEPT ![i] = p]
    OBVIOUS
  <2>3. new \in OrderBooks(n) /\ new[i] = p /\ SameBut(orders, new, n, i)
    <3>1. PICK os : os = orders
      OBVIOUS
    <3>2. os \in OrderBooks(n) /\ n \in Nat
      BY <1>1, <3>1
    <3>3. /\ [os EXCEPT ![i] = p] \in OrderBooks(n) /\ [os EXCEPT ![i] = p][i] = p
          /\ SameBut(os, [os EXCEPT ![i] = p], n, i)
      BY <2>1, <3>2, BookReplaced
    <3> QED
      BY <2>2, <3>1, <3>3
  <2>4. orders' = new
    BY <2>2 DEF Looked
  <2> QED
    BY <2>3, <2>4
<1>4. Len(orders') = n
  BY <1>3 DEF OrderBooks
<1>5. ASSUME NEW s \in Sym PROVE Stopped(s)' = Stopped(s)
  <2>1. Covers(p, s) = Covers(orders[i], s)
    BY DEF Covers, Left, Working, Looked
  <2>2. PICK new : new = orders'
    OBVIOUS
  <2>3. StoppedIn(new, s) = StoppedIn(orders, s)
    <3>1. \A j \in 1..n : Covers(new[j], s) = Covers(orders[j], s)
      BY <1>3, <2>1, <2>2 DEF SameBut
    <3> QED
      BY <1>1, <1>3, <2>2, <3>1, StoppedStays
  <2> QED
    BY <2>2, <2>3 DEF Stopped, StoppedIn
<1> QED
  BY <1>1, <1>3, <1>4, <1>5

\* poll_order for the last order.
LEMMA PollLast ==
  ASSUME TypeOK, NEW n, n = Len(orders), n > 0, orders' = [orders EXCEPT ![n] = Polled(@)]
  PROVE  /\ n \in Nat /\ orders' \in OrderBooks(n) /\ Len(orders') = n
         /\ SameBut(orders, orders', n, n)
         /\ orders'[n].kind = orders[n].kind /\ orders'[n].at = orders[n].at
         /\ \/ orders'[n].sm = orders[n].sm
            \/ orders'[n].sm = orders[n].at /\ orders[n].at \in PolledStates
         /\ \A s \in Sym : Stopped(s)' = Stopped(s)
<1>1. n \in Nat /\ orders \in OrderBooks(n) /\ n \in 1..n
  BY MarketType
<1>2. orders[n] \in OrderType /\ orders[n].filled <= orders[n].qty
  BY <1>1, BookOrders
<1>3. PICK o : o = orders[n]
  OBVIOUS
<1>4. PICK p : p = Polled(o)
  OBVIOUS
<1>5. /\ p \in OrderType /\ p.filled = o.filled /\ p.qty = o.qty /\ p.kind = o.kind
      /\ p.sym = o.sym /\ p.at = o.at
      /\ p.sm = o.sm \/ (p.sm = o.at /\ o.at \in PolledStates)
  BY <1>2, <1>3, <1>4, PolledType
<1>6. orders' = [orders EXCEPT ![n] = p]
  BY <1>3, <1>4
<1>7. /\ orders' \in OrderBooks(n) /\ Len(orders') = n /\ orders'[n] = p
      /\ SameBut(orders, orders', n, n) /\ \A s \in Sym : Stopped(s)' = Stopped(s)
  <2>1. PICK i : i = n
    OBVIOUS
  <2>2. i \in 1..n /\ Looked(i, p)
    BY <1>1, <1>3, <1>5, <1>6, <2>1 DEF Looked
  <2>3. /\ orders' \in OrderBooks(n) /\ Len(orders') = n /\ orders'[i] = p
        /\ SameBut(orders, orders', n, i) /\ \A s \in Sym : Stopped(s)' = Stopped(s)
    BY <1>5, <2>2, LookEffect
  <2> QED
    BY <2>1, <2>3
<1> QED
  BY <1>1, <1>3, <1>5, <1>7

\* The poll that ends an entry's submit.
LEMMA EntryPollSafe ==
  ASSUME SafeInv, EntryPoll
  PROVE  SafeInv'
<1>1. TypeOK /\ PlaceInv /\ StopsAreHeld /\ StopsNeverOversell /\ pc.at = "acked"
      /\ UNCHANGED <<broker, ledger, openStops, price, fault, risk, resets>>
  BY DEF SafeInv, EntryPoll
<1>2. PICK n : n = Len(orders)
  OBVIOUS
<1>3. n \in Nat /\ n > 0 /\ orders \in OrderBooks(n)
  BY <1>1, <1>2, MarketType DEF PlaceInv
<1>4. pc.sym \in Sym /\ pc.qty > 0 /\ pc.left \in 0..MaxNew /\ pc \in PlaceType
  BY <1>1 DEF PlaceInv, TypeOK, PlaceType
<1>5. CASE fault = "DISCONNECT"
  <2>1. pc' = Between /\ orders' = orders
    BY <1>5 DEF EntryPoll
  <2>2. pc'.at = "idle" /\ pc' \in PlaceType
    BY <2>1, PlaceTypes DEF PlaceType
  <2>3. TypeOK'
    BY <1>1, <2>1, <2>2 DEF TypeOK, Ids, PlaceType
  <2>4. StopsNeverOversell' /\ StopsAreHeld'
    BY <1>1, <2>1 DEF StopsNeverOversell, Stopped, StopsAreHeld
  <2> QED
    BY <2>2, <2>3, <2>4, PlaceQuiet DEF SafeInv
<1>6. CASE fault # "DISCONNECT"
  <2>1. /\ orders' = [orders EXCEPT ![n] = Polled(@)]
        /\ pc' = (IF orders[n].at \in {"FILLED", "PARTIALLY_FILLED"}
                    THEN GoOn("filled") ELSE Entries(pc.left))
    BY <1>2, <1>6 DEF EntryPoll
  <2>2. /\ orders' \in OrderBooks(n) /\ Len(orders') = n
        /\ \A s \in Sym : Stopped(s)' = Stopped(s)
    BY <1>1, <1>2, <1>3, <2>1, PollLast
  <2>3. pc' \in PlaceType
    <3>1. "filled" \in Stages
      BY DEF Stages
    <3>2. GoOn("filled") \in PlaceType /\ Entries(pc.left) \in PlaceType
      BY <1>4, <3>1, GoOnType, PlaceTypes DEF PlaceType
    <3> QED
      BY <2>1, <3>2
  <2>4. TypeOK'
    BY <1>1, <1>3, <2>2, <2>3, TypeKept DEF TypeOK
  <2>5. StopsNeverOversell' /\ StopsAreHeld'
    BY <1>1, <2>2 DEF StopsNeverOversell, StopsAreHeld
  <2>6. CASE orders[n].at \notin {"FILLED", "PARTIALLY_FILLED"}
    <3>1. pc'.at = "entries"
      BY <1>4, <2>1, <2>6, PlaceTypes
    <3> QED
      BY <2>4, <2>5, <3>1, PlaceQuiet DEF SafeInv
  <2>7. CASE orders[n].at \in {"FILLED", "PARTIALLY_FILLED"}
    <3>1. pc'.at = "filled" /\ pc'.sym = pc.sym /\ pc'.qty = pc.qty
      BY <2>1, <2>7 DEF GoOn, Place
    <3>2. FillInHand
      BY <1>1, <1>2, <2>7 DEF PlaceInv, LastFilled
    <3>3. PICK u : u = pc.sym
      OBVIOUS
    <3>4. Stopped(pc.sym)' = Stopped(pc.sym)
      <4>1. Stopped(pc.sym)' = Stopped(u)' /\ Stopped(pc.sym) = Stopped(u)
        BY <3>1, <3>3
      <4> QED
        BY <1>4, <2>2, <3>3, <4>1
    <3>5. FillInHand'
      BY <1>1, <3>1, <3>2, <3>4 DEF FillInHand
    <3>6. PlaceInv'
      BY <1>3, <1>4, <2>2, <3>1, <3>5 DEF PlaceInv
    <3> QED
      BY <2>4, <2>5, <3>6 DEF SafeInv
  <2> QED
    BY <2>6, <2>7
<1> QED
  BY <1>5, <1>6


\* A bookable fill leaves a ledger.
LEMMA BookedType ==
  ASSUME NEW l \in LedgerType, NEW f \in FillType, Bookable(l, f)
  PROVE  /\ Booked(l, f) \in LedgerType /\ Booked(l, f).cash = l.cash + f.cash - f.fee
         /\ Booked(l, f).pos = [l.pos EXCEPT ![f.sym] = @ + f.qty]
<1>1. l.cash \in Nat /\ l.pos \in [Sym -> Nat] /\ f.sym \in Sym /\ f.qty \in Int
      /\ f.cash \in Int /\ f.fee \in Nat
  BY DEF LedgerType, FillType
<1>2. l.cash + f.cash - f.fee \in Nat /\ l.pos[f.sym] + f.qty \in Nat
  BY <1>1 DEF Bookable
<1>3. [l.pos EXCEPT ![f.sym] = @ + f.qty] \in [Sym -> Nat]
  BY <1>1, <1>2
<1> QED
  BY <1>2, <1>3 DEF Booked, LedgerType

\* The fill of the entry in hand, as the session finds it.
LEMMA FillInHandType ==
  ASSUME TypeOK, PlaceInv, pc.at = "filled", NEW f, f = broker.fills[1]
  PROVE  /\ f \in FillType /\ f.sym = pc.sym /\ f.qty \in Nat /\ f.qty > 0
         /\ pc.sym \in Sym /\ Stopped(pc.sym) + f.qty <= broker.pos[pc.sym]
<1>1. FillInHand /\ pc.sym \in Sym
  BY DEF PlaceInv
<1>2. broker.fills \in Seq(FillType) /\ Len(broker.fills) > 0
  BY <1>1 DEF TypeOK, AccountType, FillInHand
<1>3. Len(broker.fills) \in Nat /\ 1 \in 1..Len(broker.fills)
  BY <1>2, LenProperties
<1>4. f \in FillType
  BY <1>2, <1>3, ElementOfSeq
<1>5. f.qty \in Int
  BY <1>4 DEF FillType
<1> QED
  BY <1>1, <1>4, <1>5 DEF FillInHand

\* Booking the entry's fill: the shares are in the ledger too before a stop for
\* them is sent.
LEMMA EntryBookSafe ==
  ASSUME SafeInv, EntryBook
  PROVE  SafeInv'
<1>1. TypeOK /\ PlaceInv /\ StopsAreHeld /\ StopsNeverOversell /\ pc.at = "filled"
      /\ UNCHANGED <<orders, openStops, price, fault, risk, resets>>
      /\ broker' = NoFills(broker)
  BY DEF SafeInv, EntryBook
<1>2. PICK f : f = broker.fills[1]
  OBVIOUS
<1>3. /\ f \in FillType /\ f.sym = pc.sym /\ f.qty \in Nat /\ f.qty > 0 /\ pc.sym \in Sym
      /\ Stopped(pc.sym) + f.qty <= broker.pos[pc.sym]
  BY <1>1, <1>2, FillInHandType
<1>4. broker' \in AccountType /\ broker'.pos = broker.pos
  BY <1>1, NoFillsType DEF TypeOK
<1>5. PICK n : n = Len(orders)
  OBVIOUS
<1>6. n \in Nat /\ orders \in OrderBooks(n) /\ orders' \in OrderBooks(n)
  BY <1>1, <1>5, MarketType
<1>7. \A s : Stopped(s)' = Stopped(s)
  BY <1>1 DEF Stopped
<1>8. \A s \in Sym : Stopped(s) \in Nat
  <2>1. \A s \in Sym : StoppedIn(orders, s) \in Nat
    BY <1>6, StoppedType
  <2> QED
    BY <2>1 DEF Stopped, StoppedIn
<1>9. ledger \in LedgerType /\ ledger.pos \in [Sym -> Nat] /\ broker.pos \in [Sym -> Nat]
  BY <1>1 DEF TypeOK, LedgerType, AccountType
<1>10. \A s \in Sym : Stopped(s) <= broker.pos[s] /\ Stopped(s) <= ledger.pos[s]
  BY <1>1 DEF StopsNeverOversell
<1>11. CASE fault = "DISCONNECT" \/ ~Bookable(ledger, f)
  <2>1. pc' = Between /\ ledger' = ledger
    BY <1>2, <1>11 DEF EntryBook
  <2>2. pc'.at = "idle" /\ pc' \in PlaceType
    BY <2>1, PlaceTypes DEF PlaceType
  <2>3. TypeOK'
    BY <1>1, <1>4, <1>6, <2>1, <2>2, TypeKept DEF TypeOK
  <2>4. StopsNeverOversell' /\ StopsAreHeld'
    BY <1>1, <1>4, <1>7, <2>1 DEF StopsNeverOversell, StopsAreHeld
  <2> QED
    BY <2>2, <2>3, <2>4, PlaceQuiet DEF SafeInv
<1>12. CASE fault # "DISCONNECT" /\ Bookable(ledger, f)
  <2>1. ledger' = Booked(ledger, f) /\ pc' = Place("booked", pc.left, pc.sym, f.qty, pc.stop)
    BY <1>2, <1>12 DEF EntryBook
  <2>2. ledger' \in LedgerType /\ ledger'.pos = [ledger.pos EXCEPT ![pc.sym] = @ + f.qty]
    BY <1>3, <1>9, <1>12, <2>1, BookedType
  <2>3. pc'.at = "booked" /\ pc'.sym = pc.sym /\ pc'.qty = f.qty /\ pc' \in PlaceType
    BY <1>1, <1>3, <2>1 DEF Place, PlaceType, TypeOK, Stages
  <2>4. TypeOK'
    BY <1>1, <1>4, <1>6, <2>2, <2>3, TypeKept DEF TypeOK
  <2>5. /\ ledger'.pos[pc.sym] = ledger.pos[pc.sym] + f.qty
        /\ \A s \in Sym : s # pc.sym => ledger'.pos[s] = ledger.pos[s]
    BY <1>3, <1>9, <2>2
  <2>6. \A s \in Sym : ledger.pos[s] <= ledger'.pos[s] /\ ledger.pos[s] \in Nat
                       /\ ledger'.pos[s] \in Nat
    BY <1>3, <1>9, <2>2, <2>5
  <2>7. StopsNeverOversell'
    <3>1. \A s \in Sym : Stopped(s) <= ledger'.pos[s]
      BY <1>8, <1>10, <2>6
    <3> QED
      BY <1>4, <1>7, <1>10, <3>1 DEF StopsNeverOversell
  <2>8. StopsAreHeld'
    <3>1. \A s \in openStops : s \in Sym /\ ledger.pos[s] > 0
      BY <1>1 DEF StopsAreHeld, TypeOK
    <3>2. \A s \in openStops : ledger'.pos[s] > 0
      BY <2>6, <3>1
    <3> QED
      BY <1>1, <3>2 DEF StopsAreHeld
  <2>9. PlaceInv'
    <3>1. Stopped(pc.sym) + f.qty <= ledger'.pos[pc.sym]
      BY <1>3, <1>8, <1>9, <1>10, <2>5
    <3>2. Stopped(pc.sym)' = Stopped(pc.sym)
      BY <1>1, <2>3 DEF Stopped
    <3> QED
      BY <1>3, <1>4, <2>3, <3>1, <3>2 DEF PlaceInv
  <2> QED
    BY <2>4, <2>7, <2>8, <2>9 DEF SafeInv
<1> QED
  BY <1>11, <1>12

\* The poll that ends the stop's submit.
LEMMA StopPollSafe ==
  ASSUME SafeInv, StopPoll
  PROVE  SafeInv'
<1>1. TypeOK /\ PlaceInv /\ StopsAreHeld /\ StopsNeverOversell /\ pc.at = "stopAcked"
      /\ UNCHANGED <<ledger, price, fault, risk, resets>> /\ broker' = NoFills(broker)
  BY DEF SafeInv, StopPoll
<1>2. PICK n : n = Len(orders)
  OBVIOUS
<1>3. n \in Nat /\ n > 0 /\ orders \in OrderBooks(n)
  BY <1>1, <1>2, MarketType DEF PlaceInv
<1>4. pc.sym \in Sym /\ pc.left \in 0..MaxNew /\ ledger.pos[pc.sym] > 0
  BY <1>1 DEF PlaceInv, TypeOK
<1>5. broker' \in AccountType /\ broker'.pos = broker.pos
  BY <1>1, NoFillsType DEF TypeOK
<1>6. /\ pc' \in {Between, Entries(pc.left)} /\ openStops' \subseteq openStops \cup {pc.sym}
      /\ orders' \in OrderBooks(n) /\ \A s \in Sym : Stopped(s)' = Stopped(s)
  <2>1. CASE fault = "DISCONNECT"
    <3>1. pc' = Between /\ orders' = orders /\ openStops' = openStops
      BY <2>1 DEF StopPoll
    <3> QED
      BY <1>3, <3>1 DEF Stopped
  <2>2. CASE fault # "DISCONNECT"
    <3>1. /\ orders' = [orders EXCEPT ![n] = Polled(@)]
          /\ openStops' = openStops \cup {pc.sym} /\ pc' = Entries(pc.left)
      BY <1>2, <2>2 DEF StopPoll
    <3>2. orders' \in OrderBooks(n) /\ \A s \in Sym : Stopped(s)' = Stopped(s)
      BY <1>1, <1>2, <1>3, <3>1, PollLast
    <3> QED
      BY <3>1, <3>2
  <2> QED
    BY <2>1, <2>2
<1>7. pc'.at \in {"idle", "entries"} /\ pc' \in PlaceType
  BY <1>4, <1>6, PlaceTypes DEF PlaceType
<1>8. openStops' \subseteq Sym
  BY <1>1, <1>4, <1>6 DEF TypeOK
<1>9. TypeOK'
  BY <1>1, <1>3, <1>5, <1>6, <1>7, <1>8, TypeKept DEF TypeOK
<1>10. StopsNeverOversell'
  BY <1>1, <1>5, <1>6 DEF StopsNeverOversell
<1>11. StopsAreHeld'
  BY <1>1, <1>4, <1>6 DEF StopsAreHeld
<1> QED
  BY <1>7, <1>9, <1>10, <1>11, PlaceQuiet DEF SafeInv


\* resolve_unknown: the engine takes over the broker's state of an order in doubt.
LEMMA ResolveEffect ==
  ASSUME TypeOK, NEW n, n = Len(orders), NEW i \in Ids, ResolveUnknown(i)
  PROVE  /\ n \in Nat /\ i \in 1..n /\ orders' \in OrderBooks(n) /\ Len(orders') = n
         /\ orders'[i].kind = orders[i].kind /\ orders'[i].at = orders[i].at
         /\ orders[i].sm = "UNKNOWN" /\ SameBut(orders, orders', n, i)
         /\ \A s \in Sym : Stopped(s)' = Stopped(s)
<1>1. n \in Nat /\ orders \in OrderBooks(n) /\ i \in 1..n
  BY MarketType DEF Ids
<1>2. PICK o : o = orders[i]
  OBVIOUS
<1>3. o \in OrderType /\ o.at # Absent /\ o.sm = "UNKNOWN"
  BY <1>1, <1>2, BookOrders DEF ResolveUnknown
<1>4. o.at \in OrderState
  BY <1>3 DEF OrderType
<1>5. PICK p : p = AtEngine(o, o.at)
  OBVIOUS
<1>6. /\ p \in OrderType /\ p.filled = o.filled /\ p.at = o.at /\ p.kind = o.kind
      /\ p.sym = o.sym /\ p.qty = o.qty
  BY <1>3, <1>4, <1>5, AtEngineType
<1>7. Looked(i, p)
  BY <1>2, <1>5, <1>6 DEF Looked, ResolveUnknown
<1>8. /\ orders' \in OrderBooks(n) /\ Len(orders') = n /\ orders'[i] = p
      /\ SameBut(orders, orders', n, i) /\ \A s \in Sym : Stopped(s)' = Stopped(s)
  BY <1>1, <1>6, <1>7, LookEffect
<1> QED
  BY <1>1, <1>2, <1>3, <1>6, <1>8

\* Steps that leave the books alone.
LEMMA BooksAlone ==
  ASSUME SafeInv, UNCHANGED <<broker, orders, ledger, openStops>>
  PROVE  /\ StopsNeverOversell' /\ StopsAreHeld'
         /\ pc' = pc => PlaceInv'
         /\ \A s : Stopped(s)' = Stopped(s)
<1>1. \A s : Stopped(s)' = Stopped(s)
  BY DEF Stopped
<1>2. StopsNeverOversell' /\ StopsAreHeld'
  BY <1>1 DEF SafeInv, StopsNeverOversell, StopsAreHeld
<1>3. ASSUME pc' = pc PROVE PlaceInv'
  <2>1. Stopped(pc.sym)' = Stopped(pc.sym)
    BY <1>3 DEF Stopped
  <2>2. (FillInHand' <=> FillInHand) /\ (LastFilled' <=> LastFilled)
    BY <1>3, <2>1 DEF FillInHand, LastFilled
  <2> QED
    BY <1>3, <2>1, <2>2 DEF SafeInv, PlaceInv
<1> QED
  BY <1>1, <1>2, <1>3

\* Every step keeps the stops within what is held.
LEMMA SafeStep ==
  ASSUME SafeInv, [Next]_vars
  PROVE  SafeInv'
<1>1. TypeOK /\ pc \in PlaceType
  BY DEF SafeInv, TypeOK, PlaceType
<1>2. PICK n : n = Len(orders)
  OBVIOUS
<1>3. n \in Nat /\ orders \in OrderBooks(n)
  BY <1>1, <1>2, MarketType
<1>4. CASE SessionStart
  BY <1>4, SessionStartSafe
<1>5. CASE SessionStartOffline
  <2>1. /\ UNCHANGED <<broker, orders, ledger, openStops, price, fault, resets>>
        /\ pc' = Entries(MaxNew) /\ risk' \in RiskState
    BY <1>5 DEF SessionStartOffline, RiskState
  <2>2. pc'.at = "entries" /\ pc' \in PlaceType
    BY <2>1, PlaceTypes DEF PlaceType
  <2>3. TypeOK'
    BY <1>1, <1>3, <2>1, <2>2, TypeKept DEF TypeOK
  <2> QED
    BY <2>1, <2>2, <2>3, BooksAlone, PlaceQuiet DEF SafeInv
<1>6. CASE \E k \in 0..MaxOrders : SessionStartCut(k)
  BY <1>6, SessionStartCutSafe
<1>7. ASSUME NEW s \in Sym, NEW q \in Qtys, EntryApproved(s, q) PROVE SafeInv'
  <2>1. /\ UNCHANGED <<broker, orders, ledger, openStops, price, fault, risk, resets>>
        /\ pc' = Place("approved", pc.left - 1, s, q, price[s] - StopDistance) /\ pc.left > 0
    BY <1>7 DEF EntryApproved
  <2>2. q \in Nat /\ q > 0 /\ StopDistance \in Nat /\ MaxNew \in Nat
    BY SessionAssumption
  <2>3. price[s] \in Nat
    BY <1>1, SessionAssumption DEF TypeOK
  <2>4. pc.left - 1 \in 0..MaxNew /\ price[s] - StopDistance \in Int
    BY <1>1, <2>1, <2>2, <2>3 DEF PlaceType
  <2>5. pc' \in PlaceType /\ pc'.at = "approved" /\ pc'.sym = s /\ pc'.qty = q
    BY <2>1, <2>2, <2>4 DEF Place, PlaceType, Stages
  <2>6. TypeOK'
    BY <1>1, <1>3, <2>1, <2>5, TypeKept DEF TypeOK
  <2>7. PlaceInv'
    BY <2>2, <2>5 DEF PlaceInv
  <2> QED
    BY <2>1, <2>6, <2>7, BooksAlone DEF SafeInv
<1>8. CASE EntrySubmit
  BY <1>8, EntrySubmitSafe
<1>9. CASE EntryPoll
  BY <1>9, EntryPollSafe
<1>10. CASE EntryBook
  BY <1>10, EntryBookSafe
<1>11. CASE StopSubmit
  BY <1>11, StopSubmitSafe
<1>12. CASE StopPoll
  BY <1>12, StopPollSafe
<1>13. CASE SessionEnd
  <2>1. /\ UNCHANGED <<broker, orders, ledger, openStops, price, fault, risk, resets>>
        /\ pc' = Between
    BY <1>13 DEF SessionEnd
  <2>2. pc'.at = "idle" /\ pc' \in PlaceType
    BY <2>1, PlaceTypes DEF PlaceType
  <2>3. TypeOK'
    BY <1>1, <1>3, <2>1, <2>2, TypeKept DEF TypeOK
  <2> QED
    BY <2>1, <2>2, <2>3, BooksAlone, PlaceQuiet DEF SafeInv
<1>14. CASE Settle
  <2>1. /\ UNCHANGED <<orders, ledger, openStops, price, fault, risk, pc, resets>>
        /\ broker' = Account(broker.settled + broker.unsettled, 0, broker.pos, broker.fills)
        /\ pc.at = "idle"
    BY <1>14 DEF Settle
  <2>2. broker' \in AccountType /\ broker'.pos = broker.pos
    BY <1>1, <2>1 DEF TypeOK, AccountType, Account
  <2>3. TypeOK'
    BY <1>1, <1>3, <2>1, <2>2, TypeKept DEF TypeOK
  <2>4. StopsNeverOversell' /\ StopsAreHeld'
    BY <2>1, <2>2 DEF SafeInv, StopsNeverOversell, Stopped, StopsAreHeld
  <2> QED
    BY <2>1, <2>3, <2>4, PlaceQuiet DEF SafeInv
<1>15. CASE Reconcile
  <2>1. /\ UNCHANGED <<broker, orders, ledger, openStops, price, fault, pc, resets>>
        /\ risk' \in RiskState
    BY <1>1, <1>15 DEF Reconcile, RiskState, TypeOK
  <2>2. TypeOK'
    BY <1>1, <1>3, <2>1, TypeKept DEF TypeOK
  <2> QED
    BY <2>1, <2>2, BooksAlone DEF SafeInv
<1>16. CASE OperatorReset
  <2>1. /\ UNCHANGED <<broker, orders, ledger, openStops, price, fault, pc>>
        /\ risk' \in RiskState /\ resets' = resets + 1 /\ resets < MaxResets
    BY <1>16 DEF OperatorReset, RiskState
  <2>2. resets' \in 0..MaxResets
    BY <1>1, <2>1, SessionAssumption DEF TypeOK
  <2>3. TypeOK'
    BY <1>1, <1>3, <2>1, <2>2, TypeKept DEF TypeOK
  <2> QED
    BY <2>1, <2>3, BooksAlone DEF SafeInv
<1>17. ASSUME NEW i \in Ids, ResolveUnknown(i) PROVE SafeInv'
  <2>1. /\ UNCHANGED <<broker, ledger, openStops, price, fault, risk, pc, resets>>
        /\ pc.at = "idle"
    BY <1>17 DEF ResolveUnknown
  <2>2. /\ orders' \in OrderBooks(n) /\ \A s \in Sym : Stopped(s)' = Stopped(s)
    BY <1>1, <1>2, <1>17, ResolveEffect
  <2>3. TypeOK'
    BY <1>1, <1>3, <2>1, <2>2, TypeKept DEF TypeOK
  <2>4. StopsNeverOversell' /\ StopsAreHeld'
    BY <2>1, <2>2 DEF SafeInv, StopsNeverOversell, StopsAreHeld
  <2> QED
    BY <2>1, <2>3, <2>4, PlaceQuiet DEF SafeInv
<1>18. ASSUME NEW s \in Sym, NEW p \in Prices, PriceMove(s, p) PROVE SafeInv'
  <2>1. /\ UNCHANGED <<broker, orders, ledger, openStops, fault, risk, pc, resets>>
        /\ price' = [price EXCEPT ![s] = p]
    BY <1>18 DEF PriceMove
  <2>2. price' \in [Sym -> Prices]
    BY <1>1, <2>1 DEF TypeOK
  <2>3. TypeOK'
    BY <1>1, <1>3, <2>1, <2>2, TypeKept DEF TypeOK
  <2> QED
    BY <2>1, <2>3, BooksAlone DEF SafeInv
<1>19. ASSUME NEW f \in Faults, SetFault(f) PROVE SafeInv'
  <2>1. UNCHANGED <<broker, orders, ledger, openStops, price, risk, pc, resets>> /\ fault' = f
    BY <1>19 DEF SetFault
  <2>2. TypeOK'
    BY <1>1, <1>3, <2>1, TypeKept DEF TypeOK
  <2> QED
    BY <2>1, <2>2, BooksAlone DEF SafeInv
<1>20. CASE UNCHANGED vars
  <2>1. UNCHANGED <<broker, orders, ledger, openStops, price, fault, risk, pc, resets>>
    BY <1>20 DEF vars
  <2>2. TypeOK'
    BY <1>1, <1>3, <2>1, TypeKept DEF TypeOK
  <2> QED
    BY <2>1, <2>2, BooksAlone DEF SafeInv
<1>21. CASE \E k \in 0..MaxOrders : SessionStartBlind(k)
  BY <1>21, SessionStartBlindSafe
<1>22. CASE EntrySubmitBlind \/ StopSubmitBlind
  BY <1>22, SubmitBlindSafe
<1>23. CASE StopReviewBlind
  <2>1. /\ UNCHANGED <<broker, orders, ledger, openStops, price, fault, risk, resets>>
        /\ pc' = Between
    BY <1>23 DEF StopReviewBlind
  <2>2. pc'.at = "idle" /\ pc' \in PlaceType
    BY <2>1, PlaceTypes DEF PlaceType
  <2>3. TypeOK'
    BY <1>1, <1>3, <2>1, <2>2, TypeKept DEF TypeOK
  <2> QED
    BY <2>1, <2>2, <2>3, BooksAlone, PlaceQuiet DEF SafeInv
<1> QED
  BY <1>4, <1>5, <1>6, <1>7, <1>8, <1>9, <1>10, <1>11, <1>12, <1>13, <1>14, <1>15, <1>16,
     <1>17, <1>18, <1>19, <1>20, <1>21, <1>22, <1>23 DEF Next, SessionStep, QuoteMissing

\* A book without orders covers nothing.
LEMMA NothingStopped ==
  ASSUME NEW s, orders = <<>>
  PROVE  Stopped(s) = 0 /\ Ids = {}
<1>1. DOMAIN orders = {} /\ Ids = {}
  BY DEF Ids
<1>2. CoveredShares(orders, s) = {}
  BY <1>1 DEF CoveredShares
<1> QED
  BY <1>1, <1>2, FS_EmptySet DEF Stopped

\* A new account is safe.
LEMMA SafeInit ==
  ASSUME Init
  PROVE  SafeInv
<1>1. orders = <<>> /\ openStops = {} /\ fault = "NONE" /\ risk = "NORMAL" /\ pc = Between
      /\ resets = 0 /\ price \in [Sym -> Prices]
  BY DEF Init
<1>2. broker \in AccountType /\ ledger \in LedgerType
      /\ broker.pos = [s \in Sym |-> 0] /\ ledger.pos = [s \in Sym |-> 0]
  <2>1. <<>> \in Seq(FillType) /\ InitialCash \in Nat
    BY EmptySeq, SessionAssumption
  <2> QED
    BY <2>1 DEF Init, Account, AccountType, LedgerType
<1>3. pc.at = "idle" /\ pc \in PlaceType
  BY <1>1, PlaceTypes DEF PlaceType
<1>4. \A s : Stopped(s) = 0 /\ Ids = {}
  BY <1>1, NothingStopped
<1>5. TypeOK
  <2>1. orders \in Seq(OrderType)
    BY <1>1, EmptySeq
  <2>2. "NONE" \in Faults /\ "NORMAL" \in RiskState /\ 0 \in 0..MaxResets
    BY SessionAssumption DEF RiskState
  <2> QED
    BY <1>1, <1>2, <1>3, <1>4, <2>1, <2>2 DEF TypeOK, PlaceType
<1>6. StopsNeverOversell /\ StopsAreHeld
  BY <1>1, <1>2, <1>4 DEF StopsNeverOversell, StopsAreHeld
<1>7. PlaceInv
  BY <1>3 DEF PlaceInv
<1> QED
  BY <1>5, <1>6, <1>7 DEF SafeInv

\* The inductive invariant holds always.
THEOREM AlwaysSafe == Spec => []SafeInv
  BY SafeInit, SafeStep, PTL DEF Spec

\* No account, order or ledger of a session ever leaves its type: cash and positions
\* stay non-negative at the broker and in the ledger, and no order overfills.
THEOREM SessionTyped == Spec => []TypeOK
<1>1. SafeInv => TypeOK
  BY DEF SafeInv
<1> QED
  BY <1>1, AlwaysSafe, PTL

\* Whatever faults, partial fills, timeouts and lost fills there are, the working
\* stops together never cover more shares than the account or the ledger holds.
THEOREM StopsWithinHoldings == Spec => []StopsNeverOversell
<1>1. SafeInv => StopsNeverOversell
  BY DEF SafeInv
<1> QED
  BY <1>1, AlwaysSafe, PTL


-----------------------------------------------------------------------------
\* Entries in doubt are finitely many.
LEMMA DoubtFinite ==
  ASSUME TypeOK
  PROVE  IsFiniteSet(InDoubt) /\ Cardinality(InDoubt) \in Nat
<1>1. Len(orders) \in Nat
  BY MarketType
<1>2. IsFiniteSet(1..Len(orders))
  BY <1>1, FS_Interval
<1>3. InDoubt \subseteq 1..Len(orders)
  BY DEF InDoubt, Ids
<1>4. IsFiniteSet(InDoubt)
  BY <1>2, <1>3, FS_Subset
<1> QED
  BY <1>4, FS_CardinalityType

\* A step that puts no entry in doubt, and lifts no halt, keeps the bound.
LEMMA NoMoreDoubt ==
  ASSUME TypeOK, DoubtInv, InDoubt' \subseteq InDoubt, resets' = resets,
         risk' = risk \/ risk' # "NORMAL", pc'.at = "approved" => risk' = "NORMAL"
  PROVE  DoubtInv'
<1>1. PICK D : D = InDoubt'
  OBVIOUS
<1>2. PICK c : c = Cardinality(InDoubt)
  OBVIOUS
<1>3. Cardinality(D) \in Nat /\ Cardinality(D) <= c /\ c \in Nat
  <2>1. IsFiniteSet(InDoubt) /\ c \in Nat
    BY <1>2, DoubtFinite
  <2>2. IsFiniteSet(D) /\ Cardinality(D) <= c
    BY <1>1, <1>2, <2>1, FS_Subset
  <2> QED
    BY <2>1, <2>2, FS_CardinalityType
<1>4. resets \in Nat
  BY DEF TypeOK
<1>5. c <= resets + (IF risk = "NORMAL" THEN 0 ELSE 1)
  BY <1>2 DEF DoubtInv
<1>6. Cardinality(D) <= resets' + (IF risk' = "NORMAL" THEN 0 ELSE 1)
  BY <1>3, <1>4, <1>5
<1> QED
  BY <1>1, <1>6 DEF DoubtInv

\* Steps that leave the orders alone.
LEMMA DoubtAlone ==
  ASSUME orders' = orders
  PROVE  InDoubt' = InDoubt
  BY DEF InDoubt, Ids

\* The engine's looks resolve doubts and raise none.
LEMMA DoubtLooked ==
  ASSUME NEW n, n = Len(orders), n = Len(orders'),
         \A j \in 1..n : /\ orders'[j].kind = orders[j].kind
                         /\ orders'[j].sm = orders[j].sm \/ orders'[j].sm # "UNKNOWN"
                                                         \/ orders[j].sm = "UNKNOWN"
  PROVE  InDoubt' \subseteq InDoubt
  BY DEF InDoubt, Ids

\* An order that joins is the only one that may come to be in doubt.
LEMMA DoubtJoins ==
  ASSUME TypeOK, NEW r, NEW o, NEW n, n = Len(orders), SubmitBook(r, o, n)
  PROVE  /\ InDoubt' \subseteq InDoubt \cup {n + 1}
         /\ r.kind # "entry" \/ r.sm # "UNKNOWN" => InDoubt' \subseteq InDoubt
<1>1. n \in Nat
  BY MarketType
<1>2. Len(orders') = n + 1 /\ r = orders'[n + 1] /\ \A j \in 1..n : orders'[j] = orders[j]
  BY DEF SubmitBook, OrderBooks
<1>3. \A j \in 1..(n + 1) : j \in 1..n \/ j = n + 1
  BY <1>1
<1>4. InDoubt' = {i \in 1..(n + 1) : orders'[i].kind = "entry" /\ orders'[i].sm = "UNKNOWN"}
  BY <1>2 DEF InDoubt, Ids
<1> QED
  BY <1>2, <1>3, <1>4 DEF InDoubt, Ids

\* Every step keeps the entries in doubt within one per reset.
LEMMA DoubtStep ==
  ASSUME SafeInv, SafeInv', DoubtInv, [Next]_vars
  PROVE  DoubtInv'
<1>1. TypeOK /\ TypeOK'
  BY DEF SafeInv
<1>2. PICK n : n = Len(orders)
  OBVIOUS
<1>3. n \in Nat /\ orders \in OrderBooks(n)
  BY <1>1, <1>2, MarketType
<1>4. CASE SessionStart \/ \E k \in 0..MaxOrders : SessionStartCut(k)
  <2>1. PICK k \in Int : /\ orders' = PollOpen(PollResting.ords, k) /\ resets' = resets
                         /\ pc'.at # "approved" /\ (risk' = risk \/ risk' # "NORMAL")
    <3>1. CASE SessionStart
      <4>1. pc' \in {Entries(MaxNew), Between} /\ orders' = PollOpen(PollResting.ords, n)
            /\ resets' = resets /\ risk' = risk
        BY <1>2, <3>1 DEF SessionStart
      <4> QED
        BY <1>3, <4>1, PlaceTypes
    <3>2. CASE \E k \in 0..MaxOrders : SessionStartCut(k)
      <4>1. PICK k \in 0..MaxOrders : SessionStartCut(k)
        BY <3>2
      <4>2. pc' = Entries(MaxNew) /\ orders' = PollOpen(PollResting.ords, k)
            /\ resets' = resets /\ risk' # "NORMAL" /\ k \in Int
        BY <4>1 DEF SessionStartCut
      <4> QED
        BY <4>2, PlaceTypes
    <3> QED
      BY <1>4, <3>1, <3>2
  <2>2. PICK m : m = PollResting
    OBVIOUS
  <2>3. PICK a : a = ManageFills(m.book.fills)
    OBVIOUS
  <2>4. m \in Markets(n) /\ SameOrders(orders, m.ords, n)
    BY <1>2, <2>2, <2>3, SyncEffect
  <2>5. m.ords \in OrderBooks(n)
    BY <2>4 DEF Markets
  <2>6. /\ orders' \in OrderBooks(n)
        /\ \A j \in 1..n : /\ orders'[j].kind = m.ords[j].kind
                           /\ \/ orders'[j].sm = m.ords[j].sm
                              \/ orders'[j].sm = m.ords[j].at /\ m.ords[j].at \in PolledStates
    BY <1>3, <2>1, <2>2, <2>5, PollOpenType
  <2>7. Len(orders') = n
    BY <2>6 DEF OrderBooks
  <2>8. \A j \in 1..n : /\ orders'[j].kind = orders[j].kind
                        /\ orders'[j].sm = orders[j].sm \/ orders'[j].sm # "UNKNOWN"
    BY <2>4, <2>6 DEF SameOrders, PolledStates
  <2>9. InDoubt' \subseteq InDoubt
    BY <1>2, <2>7, <2>8, DoubtLooked
  <2> QED
    BY <1>1, <2>1, <2>9, NoMoreDoubt
<1>5. CASE SessionStartOffline
  <2>1. pc' = Entries(MaxNew) /\ orders' = orders /\ resets' = resets /\ risk' # "NORMAL"
    BY <1>5 DEF SessionStartOffline
  <2>2. pc'.at # "approved"
    BY <2>1, PlaceTypes
  <2> QED
    BY <1>1, <2>1, <2>2, NoMoreDoubt, DoubtAlone
<1>6. ASSUME NEW s \in Sym, NEW q \in Qtys, EntryApproved(s, q) PROVE DoubtInv'
  <2>1. orders' = orders /\ resets' = resets /\ risk' = risk /\ risk = "NORMAL"
    BY <1>6 DEF EntryApproved, EntryAllowed
  <2> QED
    BY <1>1, <2>1, NoMoreDoubt, DoubtAlone
<1>7. CASE EntrySubmit
  <2>1. pc.at = "approved" /\ resets' = resets /\ PlaceInv
    BY <1>7 DEF EntrySubmit, SafeInv
  <2>2. PICK o : o = Order(pc.sym, "entry", pc.qty, 0)
    OBVIOUS
  <2>3. pc.sym \in Sym /\ pc.qty \in Nat \ {0} /\ pc.left \in 0..MaxNew
    BY <1>1, <2>1 DEF PlaceInv, TypeOK
  <2>4. o \in OrderType /\ o.filled = 0 /\ o.at = Absent
    BY <2>2, <2>3, OrderTyped
  <2>5. PICK r : SubmitBook(r, o, n) /\ SubmitOutcome(r, "acked", Entries(pc.left))
    <3>1. SubmitOrder(o, "acked", Entries(pc.left))
      BY <1>7, <2>2 DEF EntrySubmit
    <3> QED
      BY <1>1, <1>2, <2>4, <3>1, SubmitEffect
  <2>6. /\ InDoubt' \subseteq InDoubt \cup {n + 1}
        /\ r.kind # "entry" \/ r.sm # "UNKNOWN" => InDoubt' \subseteq InDoubt
    BY <1>1, <1>2, <2>5, DoubtJoins
  <2>7. CASE r.sm # "UNKNOWN"
    <3>1. pc' = GoOn("acked") /\ risk' = risk
      BY <2>5, <2>7 DEF SubmitOutcome
    <3>2. pc'.at # "approved"
      BY <3>1 DEF GoOn, Place
    <3> QED
      BY <1>1, <2>1, <2>6, <2>7, <3>1, <3>2, NoMoreDoubt
  <2>8. CASE r.sm = "UNKNOWN"
    <3>1. pc' = Entries(pc.left) /\ risk' # "NORMAL"
      BY <2>5, <2>8 DEF SubmitOutcome
    <3>2. pc'.at # "approved"
      BY <2>3, <3>1, PlaceTypes
    <3>3. PICK c \in Nat : c = Cardinality(InDoubt)
      BY <1>1, DoubtFinite
    <3>4. c <= resets /\ resets \in Nat
      BY <1>1, <2>1, <3>3 DEF DoubtInv, TypeOK
    <3>5. PICK D : D = InDoubt'
      OBVIOUS
    <3>6. Cardinality(D) \in Nat /\ Cardinality(D) <= c + 1
      <4>1. IsFiniteSet(InDoubt) /\ n + 1 \notin InDoubt
        BY <1>1, <1>2, <1>3, DoubtFinite DEF InDoubt, Ids
      <4>2. IsFiniteSet(InDoubt \cup {n + 1}) /\ Cardinality(InDoubt \cup {n + 1}) = c + 1
        BY <3>3, <4>1, FS_AddElement
      <4>3. D \subseteq InDoubt \cup {n + 1}
        BY <2>6, <3>5
      <4>4. IsFiniteSet(D) /\ Cardinality(D) <= c + 1
        BY <4>2, <4>3, FS_Subset
      <4> QED
        BY <4>4, FS_CardinalityType
    <3>7. Cardinality(D) <= resets' + (IF risk' = "NORMAL" THEN 0 ELSE 1)
      BY <2>1, <3>1, <3>3, <3>4, <3>6
    <3> QED
      BY <3>2, <3>5, <3>7 DEF DoubtInv
  <2> QED
    BY <2>7, <2>8
<1>8. CASE StopSubmit
  <2>1. pc.at = "booked" /\ resets' = resets /\ PlaceInv
    BY <1>8 DEF StopSubmit, SafeInv
  <2>2. PICK o : o = Order(pc.sym, "stop", pc.qty, pc.stop)
    OBVIOUS
  <2>3. pc.sym \in Sym /\ pc.qty \in Nat \ {0} /\ pc.left \in 0..MaxNew /\ pc.stop \in Int
    BY <1>1, <2>1 DEF PlaceInv, TypeOK
  <2>4. o \in OrderType /\ o.filled = 0 /\ o.at = Absent /\ o.kind = "stop"
    BY <2>2, <2>3, OrderTyped
  <2>5. PICK r : SubmitBook(r, o, n) /\ SubmitOutcome(r, "stopAcked", Entries(pc.left))
    <3>1. SubmitOrder(o, "stopAcked", Entries(pc.left))
      BY <1>8, <2>2 DEF StopSubmit
    <3> QED
      BY <1>1, <1>2, <2>4, <3>1, SubmitEffect
  <2>6. InDoubt' \subseteq InDoubt
    <3>1. r.kind = "stop"
      BY <2>4, <2>5 DEF SubmitBook
    <3> QED
      BY <1>1, <1>2, <2>5, <3>1, DoubtJoins
  <2>7. pc'.at # "approved" /\ (risk' = risk \/ risk' # "NORMAL")
    <3>1. pc' \in {Entries(pc.left), GoOn("stopAcked")} /\ (risk' = risk \/ risk' # "NORMAL")
      BY <2>5 DEF SubmitOutcome
    <3>2. Entries(pc.left).at = "entries" /\ GoOn("stopAcked").at = "stopAcked"
      BY <2>3, PlaceTypes DEF GoOn, Place
    <3> QED
      BY <3>1, <3>2
  <2> QED
    BY <1>1, <2>1, <2>6, <2>7, NoMoreDoubt
<1>9. CASE EntryPoll \/ StopPoll
  <2>1. /\ resets' = resets /\ risk' = risk /\ pc.left \in 0..MaxNew /\ n > 0
        /\ pc' \in {Between, Entries(pc.left), GoOn("filled")}
        /\ orders' = orders \/ orders' = [orders EXCEPT ![n] = Polled(@)]
    <3>1. pc.left \in 0..MaxNew /\ n > 0
      BY <1>1, <1>2, <1>9 DEF TypeOK, SafeInv, PlaceInv, EntryPoll, StopPoll
    <3> QED
      BY <1>2, <1>9, <3>1 DEF EntryPoll, StopPoll
  <2>2. pc'.at # "approved"
    <3>1. Entries(pc.left).at = "entries" /\ GoOn("filled").at = "filled" /\ Between.at = "idle"
      BY <2>1, PlaceTypes DEF GoOn, Place
    <3> QED
      BY <2>1, <3>1
  <2>3. InDoubt' \subseteq InDoubt
    <3>1. CASE orders' = orders
      BY <3>1, DoubtAlone
    <3>2. CASE orders' = [orders EXCEPT ![n] = Polled(@)]
      <4>1. /\ Len(orders') = n /\ SameBut(orders, orders', n, n)
            /\ orders'[n].kind = orders[n].kind
            /\ \/ orders'[n].sm = orders[n].sm
               \/ orders'[n].sm = orders[n].at /\ orders[n].at \in PolledStates
        BY <1>1, <1>2, <2>1, <3>2, PollLast
      <4>2. \A j \in 1..n : /\ orders'[j].kind = orders[j].kind
                            /\ orders'[j].sm = orders[j].sm \/ orders'[j].sm # "UNKNOWN"
        BY <4>1 DEF SameBut, PolledStates
      <4> QED
        BY <1>2, <4>1, <4>2, DoubtLooked
    <3> QED
      BY <2>1, <3>1, <3>2
  <2> QED
    BY <1>1, <2>1, <2>2, <2>3, NoMoreDoubt
<1>10. CASE EntryBook
  <2>1. resets' = resets /\ risk' = risk /\ orders' = orders
    BY <1>10 DEF EntryBook
  <2>2. pc' = Between \/ pc' = Place("booked", pc.left, pc.sym, broker.fills[1].qty, pc.stop)
    BY <1>10 DEF EntryBook
  <2>3. pc'.at # "approved"
    BY <2>2, PlaceTypes DEF Place
  <2> QED
    BY <1>1, <2>1, <2>3, NoMoreDoubt, DoubtAlone
<1>11. CASE SessionEnd
  <2>1. resets' = resets /\ risk' = risk /\ orders' = orders /\ pc' = Between
    BY <1>11 DEF SessionEnd
  <2>2. pc'.at # "approved"
    BY <2>1, PlaceTypes
  <2> QED
    BY <1>1, <2>1, <2>2, NoMoreDoubt, DoubtAlone
<1>12. CASE Settle \/ Reconcile
  <2>1. /\ resets' = resets /\ (risk' = risk \/ risk' # "NORMAL") /\ orders' = orders
        /\ pc' = pc /\ pc.at = "idle"
    BY <1>12 DEF Settle, Reconcile
  <2> QED
    BY <1>1, <2>1, NoMoreDoubt, DoubtAlone
<1>13. CASE OperatorReset
  <2>1. /\ resets' = resets + 1 /\ risk' = "NORMAL" /\ risk # "NORMAL" /\ orders' = orders
        /\ pc' = pc /\ pc.at = "idle"
    BY <1>13 DEF OperatorReset
  <2>2. PICK c \in Nat : c = Cardinality(InDoubt)
    BY <1>1, DoubtFinite
  <2>3. c <= resets + 1 /\ resets \in Nat
    BY <1>1, <2>1, <2>2 DEF DoubtInv, TypeOK
  <2>4. Cardinality(InDoubt)' = c
    BY <2>1, <2>2, DoubtAlone
  <2> QED
    BY <2>1, <2>2, <2>3, <2>4 DEF DoubtInv
<1>14. ASSUME NEW i \in Ids, ResolveUnknown(i) PROVE DoubtInv'
  <2>1. resets' = resets /\ risk' = risk /\ pc' = pc /\ pc.at = "idle"
    BY <1>14 DEF ResolveUnknown
  <2>2. /\ Len(orders') = n /\ SameBut(orders, orders', n, i)
        /\ orders'[i].kind = orders[i].kind /\ orders[i].sm = "UNKNOWN"
    BY <1>1, <1>2, <1>14, ResolveEffect
  <2>3. \A j \in 1..n : /\ orders'[j].kind = orders[j].kind
                        /\ orders'[j].sm = orders[j].sm \/ orders[j].sm = "UNKNOWN"
    BY <2>2 DEF SameBut
  <2>4. InDoubt' \subseteq InDoubt
    BY <1>2, <2>2, <2>3, DoubtLooked
  <2> QED
    BY <1>1, <2>1, <2>4, NoMoreDoubt
<1>15. CASE \/ \E s \in Sym, p \in Prices : PriceMove(s, p)
            \/ \E f \in Faults : SetFault(f)
            \/ UNCHANGED vars
  <2>1. resets' = resets /\ risk' = risk /\ pc' = pc /\ orders' = orders
    BY <1>15 DEF PriceMove, SetFault, vars
  <2>2. pc'.at = "approved" => risk' = "NORMAL"
    BY <2>1 DEF DoubtInv
  <2> QED
    BY <1>1, <2>1, <2>2, NoMoreDoubt, DoubtAlone
<1>16. CASE \E k \in 0..MaxOrders : SessionStartBlind(k)
  <2>1. PICK k \in 0..MaxOrders : SessionStartBlind(k)
    BY <1>16
  <2>2. PICK m : m = Polls[k]
    OBVIOUS
  <2>3. k \in 0..n /\ orders' = m.ords /\ UNCHANGED <<risk, pc, resets>> /\ pc.at = "idle"
    BY <1>2, <1>3, <2>1, <2>2 DEF SessionStartBlind
  <2>4. m \in Markets(n) /\ SameOrders(orders, m.ords, n)
    BY <1>2, <2>2, <2>3, FillsLostCovered
  <2>5. Len(orders') = n
    BY <2>3, <2>4 DEF Markets, OrderBooks
  <2>6. \A j \in 1..n : orders'[j].kind = orders[j].kind /\ orders'[j].sm = orders[j].sm
    BY <2>3, <2>4 DEF SameOrders
  <2>7. InDoubt' \subseteq InDoubt
    BY <1>2, <2>5, <2>6, DoubtLooked
  <2> QED
    BY <1>1, <2>3, <2>7, NoMoreDoubt
<1>17. CASE EntrySubmitBlind \/ StopSubmitBlind
  <2>1. PICK o, r : TakenIn(r, o, n)
    BY <1>2, <1>17, SubmitBlindSafe
  <2>2. InDoubt' \subseteq InDoubt
    BY <1>1, <1>2, <2>1, DoubtJoins DEF TakenIn
  <2>3. pc' = Between /\ UNCHANGED <<risk, resets>>
    BY <1>17 DEF EntrySubmitBlind, StopSubmitBlind, SubmitBlind
  <2>4. pc'.at # "approved"
    BY <2>3, PlaceTypes
  <2> QED
    BY <1>1, <2>2, <2>3, <2>4, NoMoreDoubt
<1>18. CASE StopReviewBlind
  <2>1. pc' = Between /\ UNCHANGED <<orders, risk, resets>>
    BY <1>18 DEF StopReviewBlind
  <2>2. pc'.at # "approved"
    BY <2>1, PlaceTypes
  <2> QED
    BY <1>1, <2>1, <2>2, NoMoreDoubt, DoubtAlone
<1> QED
  BY <1>4, <1>5, <1>6, <1>7, <1>8, <1>9, <1>10, <1>11, <1>12, <1>13, <1>14, <1>15,
     <1>16, <1>17, <1>18 DEF Next, SessionStep, QuoteMissing

\* After a timeout or a disconnect during a submit no further entry is sent until a
\* human resets the controller: at most one entry per reset is in doubt.
THEOREM DoubtsBounded == Spec => []UnknownEntriesBounded
<1>1. Init => DoubtInv
  <2> SUFFICES ASSUME Init PROVE DoubtInv
    OBVIOUS
  <2>1. orders = <<>> /\ pc = Between /\ resets = 0 /\ risk = "NORMAL"
    BY DEF Init
  <2>2. InDoubt = {} /\ pc.at = "idle"
    BY <2>1, NothingStopped, PlaceTypes DEF InDoubt
  <2>3. Cardinality(InDoubt) = 0
    BY <2>2, FS_EmptySet
  <2> QED
    BY <2>1, <2>2, <2>3 DEF DoubtInv
<1>2. SafeInv /\ SafeInv' /\ DoubtInv /\ [Next]_vars => DoubtInv'
  BY DoubtStep
<1>3. SafeInv /\ DoubtInv => UnknownEntriesBounded
  <2> SUFFICES ASSUME SafeInv, DoubtInv PROVE UnknownEntriesBounded
    OBVIOUS
  <2>1. Cardinality(InDoubt) \in Nat /\ resets \in Nat
    BY DoubtFinite DEF SafeInv, TypeOK
  <2>2. Cardinality(InDoubt) <= 1 + resets
    BY <2>1 DEF DoubtInv
  <2> QED
    BY <2>2 DEF UnknownEntriesBounded, InDoubt
<1> QED
  BY <1>1, <1>2, <1>3, AlwaysSafe, PTL DEF Spec


-----------------------------------------------------------------------------
\* An entry's submit as one fact: o is what was sent, r what it is in the book.
EntrySent(o, r, n) ==
  /\ o \in OrderType /\ o.filled = 0 /\ o.kind = "entry" /\ o.sym = pc.sym /\ o.qty = pc.qty
  /\ pc.sym \in Sym /\ pc.qty \in Nat \ {0} /\ pc.left \in 0..MaxNew
  /\ n \in Nat /\ Len(orders') = n + 1
  /\ SubmitBook(r, o, n) /\ SubmitOutcome(r, "acked", Entries(pc.left))
  /\ Untouched(r, o) \/ \E q, f : FilledAtOnce(r, o, q, f)
  /\ \A s \in Sym : Stopped(s)' = Stopped(s)

\* ExecutionEngine.submit of an entry.
LEMMA EntrySubmitEffect ==
  ASSUME SafeInv, EntrySubmit, NEW n, n = Len(orders)
  PROVE  \E o, r : EntrySent(o, r, n)
<1>1. TypeOK /\ PlaceInv
  BY DEF SafeInv
<1>2. pc.sym \in Sym /\ pc.qty \in Nat \ {0} /\ pc.left \in 0..MaxNew
  BY <1>1 DEF EntrySubmit, PlaceInv, TypeOK
<1>3. PICK o : o = Order(pc.sym, "entry", pc.qty, 0)
  OBVIOUS
<1>4. /\ o \in OrderType /\ o.filled = 0 /\ o.at = Absent /\ o.kind = "entry" /\ o.sym = pc.sym
      /\ o.qty = pc.qty
  BY <1>2, <1>3, OrderTyped
<1>5. SubmitOrder(o, "acked", Entries(pc.left))
  BY <1>3 DEF EntrySubmit
<1>6. PICK r : /\ SubmitBook(r, o, n) /\ SubmitOutcome(r, "acked", Entries(pc.left))
               /\ Untouched(r, o) \/ \E q, f : FilledAtOnce(r, o, q, f)
  BY <1>1, <1>4, <1>5, SubmitEffect
<1>7. \A s \in Sym : Stopped(s)' = Stopped(s)
  <2>1. /\ r \in OrderType /\ r.kind = o.kind /\ r.sym = o.sym
        /\ \A s \in Sym : Stopped(s) \in Nat /\ Stopped(s)' = Stopped(s) + Covers(r, s)
    BY <1>6 DEF SubmitBook
  <2> QED
    BY <1>4, <2>1, StopCovers
<1>8. n \in Nat /\ Len(orders') = n + 1
  BY <1>1, <1>6, MarketType DEF SubmitBook, OrderBooks
<1>9. EntrySent(o, r, n)
  BY <1>2, <1>4, <1>6, <1>7, <1>8 DEF EntrySent
<1> QED
  BY <1>9

\* A stop's submit as one fact.
StopSent(o, r, n) ==
  /\ o \in OrderType /\ o.filled = 0 /\ o.kind = "stop" /\ o.sym = pc.sym /\ o.qty = pc.qty
  /\ o.stop = pc.stop
  /\ pc.sym \in Sym /\ pc.qty \in Nat \ {0} /\ pc.left \in 0..MaxNew
  /\ n \in Nat /\ Len(orders') = n + 1
  /\ SubmitBook(r, o, n) /\ SubmitOutcome(r, "stopAcked", Entries(pc.left))
  /\ Untouched(r, o) \/ \E q, f : FilledAtOnce(r, o, q, f)
  /\ \A s \in Sym : s # pc.sym => Stopped(s)' = Stopped(s)

\* ExecutionEngine.submit of a protective stop.
LEMMA StopSubmitEffect ==
  ASSUME SafeInv, StopSubmit, NEW n, n = Len(orders)
  PROVE  \E o, r : StopSent(o, r, n)
<1>1. TypeOK /\ PlaceInv
  BY DEF SafeInv
<1>2. pc.sym \in Sym /\ pc.qty \in Nat \ {0} /\ pc.left \in 0..MaxNew /\ pc.stop \in Int
  BY <1>1 DEF StopSubmit, PlaceInv, TypeOK
<1>3. PICK o : o = Order(pc.sym, "stop", pc.qty, pc.stop)
  OBVIOUS
<1>4. /\ o \in OrderType /\ o.filled = 0 /\ o.at = Absent /\ o.kind = "stop" /\ o.sym = pc.sym
      /\ o.qty = pc.qty /\ o.stop = pc.stop
  BY <1>2, <1>3, OrderTyped
<1>5. SubmitOrder(o, "stopAcked", Entries(pc.left))
  BY <1>3 DEF StopSubmit
<1>6. PICK r : /\ SubmitBook(r, o, n) /\ SubmitOutcome(r, "stopAcked", Entries(pc.left))
               /\ Untouched(r, o) \/ \E q, f : FilledAtOnce(r, o, q, f)
  BY <1>1, <1>4, <1>5, SubmitEffect
<1>7. PICK u : u = pc.sym
  OBVIOUS
<1>8. \A s \in Sym : s # u => Stopped(s)' = Stopped(s)
  <2>1. /\ r \in OrderType /\ r.kind = o.kind /\ r.sym = o.sym
        /\ \A s \in Sym : Stopped(s) \in Nat /\ Stopped(s)' = Stopped(s) + Covers(r, s)
    BY <1>6 DEF SubmitBook
  <2>2. \A s \in Sym : s # u => Covers(r, s) = 0
    BY <1>4, <1>7, <2>1, StopCovers
  <2> QED
    BY <2>1, <2>2
<1>9. n \in Nat /\ Len(orders') = n + 1
  BY <1>1, <1>6, MarketType DEF SubmitBook, OrderBooks
<1>10. StopSent(o, r, n)
  BY <1>2, <1>4, <1>6, <1>7, <1>8, <1>9 DEF StopSent
<1> QED
  BY <1>10

\* Steps that cover what was covered and forget no stop.
LEMMA KeepAlone ==
  ASSUME KeepInv, openStops \subseteq openStops', pc.at # "stopAcked" \/ pc' = pc,
         \A s \in Sym : Stopped(s)' = Stopped(s)
  PROVE  KeepInv'
  BY DEF KeepInv

\* Without disconnects every step keeps open_stops complete.
LEMMA KeepStep ==
  ASSUME "DISCONNECT" \notin Faults, ~QuotesFail, SafeInv, KeepInv, [Next]_vars
  PROVE  KeepInv'
<1>1. TypeOK /\ fault # "DISCONNECT"
  BY DEF SafeInv, TypeOK
<1>2. PICK n : n = Len(orders)
  OBVIOUS
<1>3. CASE SessionStart
  <2>1. PICK m : m = PollResting
    OBVIOUS
  <2>2. PICK a : a = ManageFills(m.book.fills)
    OBVIOUS
  <2>3. orders' = PollOpen(m.ords, n) /\ openStops' = a.stops /\ pc.at = "idle"
    BY <1>2, <1>3, <2>1, <2>2 DEF SessionStart
  <2>4. StopsListed
    BY <2>3 DEF StopsListed, KeepInv
  <2>5. n \in Nat /\ m \in Markets(n) /\ Kept(m, a, n, TRUE, FALSE, FALSE)
    BY <1>2, <2>1, <2>2, <2>4, SyncEffect
  <2>6. StopsKept(m, a) /\ m.ords \in OrderBooks(n)
    BY <2>5 DEF Kept, Markets
  <2>7. \A s \in Sym : StoppedIn(orders', s) = StoppedIn(m.ords, s)
    BY <2>3, <2>5, <2>6, PollOpenType
  <2>8. \A s \in Sym : Stopped(s)' = StoppedIn(m.ords, s)
    BY <2>7 DEF Stopped, StoppedIn
  <2> QED
    BY <2>3, <2>6, <2>8 DEF KeepInv, StopsKept
<1>4. CASE SessionStartOffline \/ \E k \in 0..MaxOrders : SessionStartCut(k)
  BY <1>1, <1>4 DEF SessionStartOffline, SessionStartCut
<1>5. CASE EntrySubmit
  <2>1. pc.at = "approved" /\ openStops' = openStops
    BY <1>5 DEF EntrySubmit
  <2>2. \A s \in Sym : Stopped(s)' = Stopped(s)
    BY <1>2, <1>5, EntrySubmitEffect DEF EntrySent
  <2> QED
    BY <2>1, <2>2, KeepAlone
<1>6. CASE EntryPoll
  <2>1. pc.at = "acked" /\ openStops' = openStops /\ n > 0
        /\ orders' = [orders EXCEPT ![n] = Polled(@)]
    BY <1>1, <1>2, <1>6 DEF EntryPoll, SafeInv, PlaceInv
  <2>2. \A s \in Sym : Stopped(s)' = Stopped(s)
    BY <1>1, <1>2, <2>1, PollLast
  <2> QED
    BY <2>1, <2>2, KeepAlone
<1>7. CASE StopSubmit
  <2>1. /\ pc.at = "booked"
        /\ openStops' = (IF pc'.at = "entries" THEN openStops \cup {pc.sym} ELSE openStops)
    BY <1>7 DEF StopSubmit
  <2>2. PICK o, r : StopSent(o, r, n)
    BY <1>2, <1>7, StopSubmitEffect
  <2>3. PICK u : u = pc.sym
    OBVIOUS
  <2>4. \A s \in Sym : s # u => Stopped(s)' = Stopped(s)
    BY <2>2, <2>3 DEF StopSent
  <2>5. \A s \in Sym : Stopped(s) > 0 => s \in openStops
    BY <2>1 DEF KeepInv
  <2>6. (pc'.at = "entries" /\ u \in openStops') \/ (pc'.at = "stopAcked" /\ pc'.sym = u)
    <3>1. /\ pc' \in {Entries(pc.left), GoOn("stopAcked")} /\ pc.left \in 0..MaxNew
      BY <2>2 DEF StopSent, SubmitOutcome
    <3>2. /\ Entries(pc.left).at = "entries" /\ GoOn("stopAcked").at = "stopAcked"
          /\ GoOn("stopAcked").sym = pc.sym
      BY <3>1, PlaceTypes DEF GoOn, Place
    <3> QED
      BY <2>1, <2>3, <3>1, <3>2
  <2> QED
    BY <2>1, <2>4, <2>5, <2>6 DEF KeepInv
<1>8. CASE StopPoll
  <2>1. pc.at = "stopAcked" /\ openStops' = openStops \cup {pc.sym} /\ n > 0
        /\ orders' = [orders EXCEPT ![n] = Polled(@)]
    BY <1>1, <1>2, <1>8 DEF StopPoll, SafeInv, PlaceInv
  <2>2. \A s \in Sym : Stopped(s)' = Stopped(s)
    BY <1>1, <1>2, <2>1, PollLast
  <2> QED
    BY <2>1, <2>2 DEF KeepInv
<1>9. ASSUME NEW i \in Ids, ResolveUnknown(i) PROVE KeepInv'
  <2>1. pc.at = "idle" /\ openStops' = openStops
    BY <1>9 DEF ResolveUnknown
  <2>2. \A s \in Sym : Stopped(s)' = Stopped(s)
    BY <1>1, <1>2, <1>9, ResolveEffect
  <2> QED
    BY <2>1, <2>2, KeepAlone
<1>10. CASE \/ \E s \in Sym, q \in Qtys : EntryApproved(s, q)
            \/ EntryBook \/ SessionEnd \/ Settle \/ Reconcile \/ OperatorReset
            \/ \E s \in Sym, p \in Prices : PriceMove(s, p)
            \/ \E f \in Faults : SetFault(f)
            \/ UNCHANGED vars
  <2>1. openStops' = openStops /\ orders' = orders /\ (pc.at # "stopAcked" \/ pc' = pc)
    BY <1>10 DEF EntryApproved, EntryBook, SessionEnd, Settle, Reconcile, OperatorReset,
                 PriceMove, SetFault, vars
  <2>2. \A s \in Sym : Stopped(s)' = Stopped(s)
    BY <2>1 DEF Stopped
  <2> QED
    BY <2>1, <2>2, KeepAlone
<1> QED
  BY <1>3, <1>4, <1>5, <1>6, <1>7, <1>8, <1>9, <1>10, QuotesThere
  DEF Next, SessionStep

\* Where the broker stays reachable (it may time out and fill partially) and no quote is
\* missing, between
\* sessions open_stops has every symbol with a working stop and none that is not held.
THEOREM OpenStopsAreRight ==
  ASSUME "DISCONNECT" \notin Faults, ~QuotesFail
  PROVE  Spec => []OpenStopsMatchHoldings
<1>1. Init => KeepInv
  <2> SUFFICES ASSUME Init PROVE KeepInv
    OBVIOUS
  <2>1. orders = <<>>
    BY DEF Init
  <2>2. \A s : Stopped(s) = 0
    BY <2>1, NothingStopped
  <2> QED
    BY <2>2 DEF KeepInv
<1>2. SafeInv /\ KeepInv /\ [Next]_vars => KeepInv'
  BY KeepStep
<1>3. SafeInv /\ KeepInv => OpenStopsMatchHoldings
  BY DEF SafeInv, KeepInv, OpenStopsMatchHoldings, StopsAreHeld, TypeOK
<1> QED
  BY <1>1, <1>2, <1>3, AlwaysSafe, PTL DEF Spec


-----------------------------------------------------------------------------
\* A fill awaits booking.
InHand == (pc.at = "acked" /\ LastFilled) \/ pc.at = "filled"

\* The entry's fill that the broker made leaves the ledger one booking behind.
LEMMA EntryDue ==
  ASSUME SafeInv, Consistent, ledger' = ledger, NEW o, NEW r, NEW n, EntrySent(o, r, n),
         NEW q, NEW f, FilledAtOnce(r, o, q, f), fault # "TIMEOUT"
  PROVE  Due'
<1>1. /\ broker.settled \in Nat /\ broker.unsettled \in Nat /\ broker.pos \in [Sym -> Nat]
      /\ ledger \in LedgerType
  BY DEF SafeInv, TypeOK, AccountType
<1>2. /\ q \in Nat /\ f \in FillType /\ f.sym = pc.sym /\ f.qty = q
      /\ broker'.pos = [broker.pos EXCEPT ![pc.sym] = @ + f.qty]
      /\ broker'.settled + broker'.unsettled = broker.settled + broker.unsettled + f.cash - f.fee
      /\ broker.settled + f.cash - f.fee >= 0 /\ broker'.fills = <<f>> /\ pc.sym \in Sym
  BY DEF FilledAtOnce, EntrySent
<1>3. ledger.cash = broker.settled + broker.unsettled /\ ledger.pos = broker.pos
  BY DEF Consistent
<1>4. f.cash \in Int /\ f.fee \in Nat
  BY <1>2 DEF FillType
<1>5. Bookable(ledger, f)
  <2>1. ledger.pos[f.sym] \in Nat
    BY <1>1, <1>2, <1>3
  <2> QED
    BY <1>1, <1>2, <1>3, <1>4, <2>1 DEF Bookable
<1>6. /\ Booked(ledger, f).cash = ledger.cash + f.cash - f.fee
      /\ Booked(ledger, f).pos = [ledger.pos EXCEPT ![f.sym] = @ + f.qty]
  BY <1>1, <1>2, <1>5, BookedType
<1>7. broker'.fills[1] = f
  <2>1. <<f>>[1] = f
    OBVIOUS
  <2> QED
    BY <1>2, <2>1
<1>8. /\ Bookable(ledger, f)' <=> Bookable(ledger, f)
      /\ Booked(ledger, f)' = Booked(ledger, f)
  BY DEF Bookable, Booked
<1> QED
  BY <1>2, <1>3, <1>5, <1>6, <1>7, <1>8 DEF Due

\* With a broker that answers and quotes that stay put inside a session, every step
\* keeps the ledger at most the fill in hand behind the broker.
LEMMA FollowStep ==
  ASSUME Faults \subseteq {"NONE", "PARTIAL_FILL"}, ~LivePrices, ~QuotesFail,
         SafeInv, FollowInv, [Next]_vars
  PROVE  FollowInv'
<1>1. TypeOK /\ PlaceInv /\ fault \notin {"DISCONNECT", "TIMEOUT"} /\ "DISCONNECT" \notin Faults
  BY DEF SafeInv, TypeOK
<1>2. PICK n : n = Len(orders)
  OBVIOUS
<1>3. /\ InHand => Due
      /\ ~InHand => Consistent
      /\ pc.at \in {"approved", "acked", "filled", "booked"} => pc.stop < price[pc.sym]
  BY DEF FollowInv, InHand
<1>4. SUFFICES /\ InHand' => Due'
               /\ ~InHand' => Consistent'
               /\ pc'.at \in {"approved", "acked", "filled", "booked"} =>
                    pc'.stop < price'[pc'.sym]
  BY DEF FollowInv, InHand
<1>5. CASE SessionStart
  <2>1. PICK m : m = PollResting
    OBVIOUS
  <2>2. PICK a : a = ManageFills(m.book.fills)
    OBVIOUS
  <2>3. /\ broker' = NoFills(m.book) /\ ledger' = a.ledger /\ pc.at = "idle"
        /\ pc' \in {Entries(MaxNew), Between}
    BY <2>1, <2>2, <1>5 DEF SessionStart
  <2>4. Consistent
    BY <1>3, <2>3 DEF InHand
  <2>5. m \in Markets(n) /\ Kept(m, a, n, FALSE, TRUE, FALSE)
    BY <1>2, <2>1, <2>2, <2>4, SyncEffect
  <2>6. Follows(m, a) /\ m.book \in AccountType
    BY <2>5 DEF Kept, Markets
  <2>7. broker'.pos = m.book.pos /\ broker'.settled = m.book.settled
        /\ broker'.unsettled = m.book.unsettled
    BY <2>3, <2>6, NoFillsType
  <2>8. Consistent'
    BY <2>3, <2>6, <2>7 DEF Follows, Consistent
  <2>9. pc'.at \in {"entries", "idle"}
    BY <2>3, PlaceTypes
  <2> QED
    BY <2>8, <2>9 DEF InHand
<1>6. CASE SessionStartOffline \/ \E k \in 0..MaxOrders : SessionStartCut(k)
  BY <1>1, <1>6 DEF SessionStartOffline, SessionStartCut
<1>7. ASSUME NEW s \in Sym, NEW q \in Qtys, EntryApproved(s, q)
      PROVE  FollowInv'
  <2>1. /\ broker' = broker /\ ledger' = ledger /\ price' = price /\ pc.at = "entries"
        /\ pc' = Place("approved", pc.left - 1, s, q, price[s] - StopDistance)
    BY <1>7 DEF EntryApproved
  <2>2. pc'.at = "approved" /\ pc'.sym = s /\ pc'.stop = price[s] - StopDistance
    BY <2>1 DEF Place
  <2>3. Consistent'
    BY <1>3, <2>1 DEF InHand, Consistent
  <2>4. price[s] - StopDistance < price[s]
    <3>1. StopDistance \in Nat /\ StopDistance > 0
      BY SessionAssumption
    <3>2. price[s] \in Nat
      BY <1>1, SessionAssumption DEF TypeOK
    <3> QED
      BY <3>1, <3>2
  <2> QED
    BY <2>1, <2>2, <2>3, <2>4 DEF FollowInv
<1>8. CASE EntrySubmit
  <2>1. pc.at = "approved" /\ ledger' = ledger /\ price' = price
    BY <1>8 DEF EntrySubmit
  <2>2. Consistent /\ pc.stop < price[pc.sym]
    BY <1>3, <2>1 DEF InHand
  <2>3. PICK o, r : EntrySent(o, r, n)
    BY <1>2, <1>8, EntrySubmitEffect
  <2>4. /\ pc' = GoOn("acked") /\ n \in Nat /\ Len(orders') = n + 1 /\ r = orders'[n + 1]
    BY <1>1, <2>3 DEF EntrySent, SubmitOutcome, SubmitBook
  <2>5. pc'.at = "acked" /\ pc'.sym = pc.sym /\ pc'.stop = pc.stop
    BY <2>4 DEF GoOn, Place
  <2>6. LastFilled' <=> r.at \in {"FILLED", "PARTIALLY_FILLED"}
    BY <2>4 DEF LastFilled
  <2>7. CASE Untouched(r, o)
    <3>1. /\ ~LastFilled' /\ broker'.pos = broker.pos
          /\ broker'.settled + broker'.unsettled = broker.settled + broker.unsettled
      BY <2>6, <2>7 DEF Untouched
    <3>2. Consistent'
      BY <2>1, <2>2, <3>1 DEF Consistent
    <3> QED
      BY <2>1, <2>2, <2>5, <3>1, <3>2 DEF InHand
  <2>8. CASE \E q, f : FilledAtOnce(r, o, q, f)
    <3>1. PICK q, f : FilledAtOnce(r, o, q, f)
      BY <2>8
    <3>2. LastFilled'
      BY <2>6, <3>1 DEF FilledAtOnce
    <3>3. Due'
      BY <1>1, <2>1, <2>2, <2>3, <3>1, EntryDue
    <3> QED
      BY <2>1, <2>2, <2>5, <3>2, <3>3 DEF InHand
  <2> QED
    BY <2>3, <2>7, <2>8 DEF EntrySent
<1>9. CASE EntryPoll
  <2>1. /\ pc.at = "acked" /\ broker' = broker /\ ledger' = ledger /\ price' = price
        /\ pc' = (IF LastFilled THEN GoOn("filled") ELSE Entries(pc.left))
    BY <1>1, <1>9 DEF EntryPoll, LastFilled
  <2>2. (Due' <=> Due) /\ (Consistent' <=> Consistent)
    BY <2>1 DEF Due, Consistent, Bookable, Booked
  <2>3. CASE LastFilled
    <3>1. pc'.at = "filled" /\ pc'.sym = pc.sym /\ pc'.stop = pc.stop
      BY <2>1, <2>3 DEF GoOn, Place
    <3> QED
      BY <1>3, <2>1, <2>2, <2>3, <3>1 DEF InHand
  <2>4. CASE ~LastFilled
    <3>1. pc'.at = "entries"
      BY <1>1, <2>1, <2>4, PlaceTypes DEF TypeOK
    <3> QED
      BY <1>3, <2>1, <2>2, <2>4, <3>1 DEF InHand
  <2> QED
    BY <2>3, <2>4
<1>10. CASE EntryBook
  <2>1. pc.at = "filled" /\ broker' = NoFills(broker) /\ price' = price
    BY <1>10 DEF EntryBook
  <2>2. Due
    BY <1>3, <2>1 DEF InHand
  <2>3. /\ ledger' = Booked(ledger, broker.fills[1])
        /\ pc' = Place("booked", pc.left, pc.sym, broker.fills[1].qty, pc.stop)
    BY <1>1, <1>10, <2>2 DEF EntryBook, Due
  <2>4. broker'.pos = broker.pos /\ broker'.settled = broker.settled
        /\ broker'.unsettled = broker.unsettled
    BY <1>1, <2>1, NoFillsType DEF TypeOK
  <2>5. Consistent'
    BY <2>2, <2>3, <2>4 DEF Due, Consistent
  <2>6. pc'.at = "booked" /\ pc'.sym = pc.sym /\ pc'.stop = pc.stop
    BY <2>3 DEF Place
  <2> QED
    BY <1>3, <2>1, <2>5, <2>6 DEF InHand
<1>11. CASE StopSubmit
  <2>1. pc.at = "booked" /\ ledger' = ledger
    BY <1>11 DEF StopSubmit
  <2>2. Consistent /\ pc.stop < price[pc.sym]
    BY <1>3, <2>1 DEF InHand
  <2>3. PICK o, r : StopSent(o, r, n)
    BY <1>2, <1>11, StopSubmitEffect
  <2>4. FillPrice(o) = 0
    <3>1. o.kind = "stop" /\ o.sym = pc.sym /\ o.stop = pc.stop /\ pc.sym \in Sym
      BY <2>3 DEF StopSent
    <3>2. price[pc.sym] \in Nat /\ pc.stop \in Int
      BY <1>1, <3>1, SessionAssumption DEF TypeOK
    <3>3. ~(price[pc.sym] <= pc.stop)
      BY <2>2, <3>2
    <3> QED
      BY <3>1, <3>3 DEF FillPrice
  <2>5. Untouched(r, o)
    BY <2>3, <2>4 DEF StopSent, FilledAtOnce
  <2>6. Consistent'
    BY <2>1, <2>2, <2>5 DEF Untouched, Consistent
  <2>7. pc' = GoOn("stopAcked")
    BY <1>1, <2>3 DEF StopSent, SubmitOutcome
  <2>8. pc'.at = "stopAcked"
    BY <2>7 DEF GoOn, Place
  <2> QED
    BY <2>6, <2>8 DEF InHand
<1>12. CASE StopPoll
  <2>1. pc.at = "stopAcked" /\ ledger' = ledger /\ broker' = NoFills(broker)
        /\ pc' = Entries(pc.left)
    BY <1>1, <1>12 DEF StopPoll
  <2>2. broker'.pos = broker.pos /\ broker'.settled = broker.settled
        /\ broker'.unsettled = broker.unsettled
    BY <1>1, <2>1, NoFillsType DEF TypeOK
  <2>3. Consistent'
    BY <1>3, <2>1, <2>2 DEF InHand, Consistent
  <2>4. pc'.at = "entries"
    BY <1>1, <2>1, PlaceTypes DEF TypeOK
  <2> QED
    BY <2>3, <2>4 DEF InHand
<1>13. CASE Settle
  <2>1. /\ pc' = pc /\ pc.at = "idle" /\ ledger' = ledger
        /\ broker' = Account(broker.settled + broker.unsettled, 0, broker.pos, broker.fills)
    BY <1>13 DEF Settle
  <2>2. Consistent'
    <3>1. broker'.settled = broker.settled + broker.unsettled /\ broker'.unsettled = 0
          /\ broker'.pos = broker.pos
      BY <2>1 DEF Account
    <3>2. broker.settled \in Nat /\ broker.unsettled \in Nat
      BY <1>1 DEF TypeOK, AccountType
    <3>3. broker'.settled + broker'.unsettled = broker.settled + broker.unsettled
      BY <3>1, <3>2
    <3> QED
      BY <1>3, <2>1, <3>1, <3>3 DEF InHand, Consistent
  <2> QED
    BY <2>1, <2>2 DEF InHand
<1>14. CASE \/ SessionEnd \/ Reconcile \/ OperatorReset
            \/ \E s \in Sym, p \in Prices : PriceMove(s, p)
            \/ \E i \in Ids : ResolveUnknown(i)
  <2>1. /\ broker' = broker /\ ledger' = ledger /\ pc.at \in {"idle", "entries"}
        /\ pc' = pc \/ pc' = Between
    BY <1>14 DEF SessionEnd, Reconcile, OperatorReset, PriceMove, ResolveUnknown
  <2>2. Consistent' /\ pc'.at \in {"idle", "entries"}
    BY <1>3, <2>1, PlaceTypes DEF InHand, Consistent
  <2> QED
    BY <2>2 DEF InHand
<1>15. CASE (\E f \in Faults : SetFault(f)) \/ UNCHANGED vars
  <2>1. UNCHANGED <<broker, orders, ledger, pc, price>>
    BY <1>15 DEF SetFault, vars
  <2>2. (InHand' <=> InHand) /\ (Due' <=> Due) /\ (Consistent' <=> Consistent)
    BY <2>1 DEF InHand, LastFilled, Due, Consistent, Bookable, Booked
  <2> QED
    BY <1>3, <2>1, <2>2
<1>16. FollowInv' => /\ InHand' => Due'
                     /\ ~InHand' => Consistent'
                     /\ pc'.at \in {"approved", "acked", "filled", "booked"} =>
                          pc'.stop < price'[pc'.sym]
  BY DEF FollowInv, InHand
<1> QED
  BY <1>5, <1>6, <1>7, <1>8, <1>9, <1>10, <1>11, <1>12, <1>13, <1>14, <1>15, <1>16,
     QuotesThere DEF Next, SessionStep

\* The books agree initially.
LEMMA FollowInit ==
  ASSUME Init
  PROVE  FollowInv
<1>1. pc.at = "idle" /\ ledger.cash = InitialCash /\ ledger.pos = [s \in Sym |-> 0]
      /\ broker.settled = InitialCash /\ broker.unsettled = 0 /\ broker.pos = [s \in Sym |-> 0]
  BY PlaceTypes DEF Init, Account
<1>2. InitialCash + 0 = InitialCash
  BY SessionAssumption
<1> QED
  BY <1>1, <1>2 DEF FollowInv, Consistent

\* Section 48, for a broker that answers (it may fill partially) and quotes that are
\* there and do not move inside a session: between sessions cash and positions of the ledger are the
\* broker's, and the ledger can book whatever the resting orders bring next.
THEOREM LedgerIsTheBrokers ==
  ASSUME Faults \subseteq {"NONE", "PARTIAL_FILL"}, ~LivePrices, ~QuotesFail
  PROVE  Spec => []LedgerFollowsBroker
<1>1. SafeInv /\ FollowInv /\ [Next]_vars => FollowInv'
  BY FollowStep
<1>2. SafeInv /\ FollowInv => LedgerFollowsBroker
  <2> SUFFICES ASSUME SafeInv, FollowInv PROVE LedgerFollowsBroker
    OBVIOUS
  <2>1. pc.at = "idle" => Consistent
    BY DEF FollowInv
  <2>2. ASSUME pc.at = "idle" PROVE ManageFills(PollResting.book.fills).ok
    <3>1. PICK m : m = PollResting
      OBVIOUS
    <3>2. PICK a : a = ManageFills(m.book.fills)
      OBVIOUS
    <3>3. Kept(m, a, Len(orders), FALSE, TRUE, FALSE)
      BY <2>1, <2>2, <3>1, <3>2, SyncEffect
    <3> QED
      BY <3>1, <3>2, <3>3 DEF Kept, Follows
  <2> QED
    BY <2>1, <2>2 DEF LedgerFollowsBroker, BooksAgree, FillsAreBookable
<1>3. Init => FollowInv
  BY FollowInit
<1> QED
  BY <1>1, <1>2, <1>3, AlwaysSafe, PTL DEF Spec


-----------------------------------------------------------------------------
\* What no stop covers yet, when nothing is in hand and when something is.
LEMMA UncoveredCases ==
  /\ ~InHand /\ pc.at # "booked" => \A s : Uncovered(s) = 0
  /\ \A s : s # pc.sym => Uncovered(s) = 0
  /\ InHand => Uncovered(pc.sym) = broker.fills[1].qty
  /\ pc.at = "booked" => Uncovered(pc.sym) = pc.qty
  BY DEF Uncovered, InHand

\* The same after a step.
LEMMA UncoveredCasesNext ==
  ASSUME NEW s
  PROVE  /\ ~InHand' /\ pc'.at # "booked" => Uncovered(s)' = 0
         /\ s # pc'.sym => Uncovered(s)' = 0
         /\ InHand' /\ s = pc'.sym => Uncovered(s)' = broker'.fills[1].qty
         /\ pc'.at = "booked" /\ s = pc'.sym => Uncovered(s)' = pc'.qty
  BY DEF Uncovered, InHand

\* No entry works.
NoEntryWorks(os) == \A i \in 1..Len(os) : os[i].kind = "entry" => ~Working(os[i])

\* An entry at a healthy broker fills whole at once or not at all.
LEMMA HealthyEntry ==
  ASSUME SafeInv, HealthInv, EntrySubmit
  PROVE  NoEntryWorks(orders') /\ \A s \in Sym : (Stopped(s) + Uncovered(s) = broker.pos[s])'
<1>1. PICK n : n = Len(orders)
  OBVIOUS
<1>2. PICK o, r : EntrySent(o, r, n)
  BY <1>1, EntrySubmitEffect
<1>3. /\ fault = "NONE" /\ pc.at = "approved" /\ TypeOK
  BY DEF HealthInv, EntrySubmit, SafeInv
<1>4. /\ pc' = GoOn("acked") /\ n \in Nat /\ Len(orders') = n + 1 /\ r = orders'[n + 1]
      /\ \A j \in 1..n : orders'[j] = orders[j]
      /\ \A s \in Sym : Stopped(s)' = Stopped(s) /\ Stopped(s) \in Nat
      /\ o.kind = "entry" /\ o.sym = pc.sym /\ pc.sym \in Sym
  BY <1>2, <1>3 DEF EntrySent, SubmitOutcome, SubmitBook
<1>5. pc'.at = "acked" /\ pc'.sym = pc.sym
  BY <1>4 DEF GoOn, Place
<1>6. LastFilled' <=> r.at \in {"FILLED", "PARTIALLY_FILLED"}
  BY <1>4 DEF LastFilled
<1>7. FillPrice(o) # 0
  <2>1. price[pc.sym] \in Nat \ {0} /\ Slip \in Nat
    BY <1>3, <1>4, SessionAssumption DEF TypeOK
  <2> QED
    BY <1>4, <2>1 DEF FillPrice
<1>8. broker.pos \in [Sym -> Nat]
  BY <1>3 DEF TypeOK, AccountType
<1>9. \A s \in Sym : Stopped(s) = broker.pos[s]
  <2>1. \A s \in Sym : Uncovered(s) = 0 /\ Stopped(s) + Uncovered(s) = broker.pos[s]
    BY <1>3, UncoveredCases DEF InHand, HealthInv
  <2> QED
    BY <1>4, <2>1
<1>10. ASSUME ~Working(r) PROVE NoEntryWorks(orders')
  <2>1. \A j \in 1..(n + 1) : j \in 1..n \/ j = n + 1
    BY <1>4
  <2>2. \A j \in 1..n : orders[j].kind = "entry" => ~Working(orders[j])
    BY <1>1 DEF HealthInv, Ids
  <2> QED
    BY <1>4, <1>10, <2>1, <2>2 DEF NoEntryWorks
<1>11. CASE Untouched(r, o)
  <2>1. ~Working(r) /\ broker'.pos = broker.pos /\ ~LastFilled'
    BY <1>6, <1>7, <1>11 DEF Untouched
  <2>2. \A s \in Sym : Uncovered(s)' = 0
    BY <1>5, <2>1, UncoveredCasesNext DEF InHand
  <2> QED
    BY <1>4, <1>9, <1>10, <2>1, <2>2
<1>12. CASE \E q, f : FilledAtOnce(r, o, q, f)
  <2>1. PICK q, f : FilledAtOnce(r, o, q, f)
    BY <1>12
  <2>2. /\ q \in Nat /\ f.qty = q /\ q = o.qty /\ r.at = "FILLED" /\ broker'.fills = <<f>>
        /\ broker'.pos = [broker.pos EXCEPT ![pc.sym] = @ + q]
    BY <1>3, <1>4, <2>1 DEF FilledAtOnce
  <2>3. ~Working(r) /\ LastFilled'
    BY <1>6, <2>2 DEF Working, RestingStates
  <2>4. broker'.fills[1] = f
    <3>1. <<f>>[1] = f
      OBVIOUS
    <3> QED
      BY <2>2, <3>1
  <2>5. PICK u : u = pc.sym
    OBVIOUS
  <2>6. Uncovered(u)' = q /\ \A s \in Sym : s # u => Uncovered(s)' = 0
    BY <1>5, <2>2, <2>3, <2>4, <2>5, UncoveredCasesNext DEF InHand
  <2>7. /\ broker'.pos[u] = broker.pos[u] + q
        /\ \A s \in Sym : s # u => broker'.pos[s] = broker.pos[s]
    BY <1>4, <1>8, <2>2, <2>5
  <2>8. \A s \in Sym : Stopped(s)' + Uncovered(s)' = broker'.pos[s]
    BY <1>4, <1>9, <2>2, <2>5, <2>6, <2>7
  <2> QED
    BY <1>10, <2>3, <2>8
<1> QED
  BY <1>2, <1>11, <1>12 DEF EntrySent

\* A stop whose price is not reached rests, and covers the shares in hand.
LEMMA HealthyStop ==
  ASSUME SafeInv, FollowInv, HealthInv, StopSubmit
  PROVE  NoEntryWorks(orders') /\ \A s \in Sym : (Stopped(s) + Uncovered(s) = broker.pos[s])'
<1>1. PICK n : n = Len(orders)
  OBVIOUS
<1>2. PICK o, r : StopSent(o, r, n)
  BY <1>1, StopSubmitEffect
<1>3. /\ fault = "NONE" /\ pc.at = "booked" /\ TypeOK /\ pc.stop < price[pc.sym]
  BY DEF HealthInv, StopSubmit, SafeInv, FollowInv
<1>4. PICK u : u = pc.sym
  OBVIOUS
<1>5. PICK k : k = pc.qty
  OBVIOUS
<1>6. /\ pc' = GoOn("stopAcked") /\ n \in Nat /\ Len(orders') = n + 1 /\ r = orders'[n + 1]
      /\ \A j \in 1..n : orders'[j] = orders[j]
      /\ \A s \in Sym : /\ Stopped(s) \in Nat /\ Covers(r, s) \in Nat
                        /\ Stopped(s)' = Stopped(s) + Covers(r, s)
      /\ o.kind = "stop" /\ o.sym = u /\ u \in Sym /\ o.stop = pc.stop /\ o.qty = k
      /\ o \in OrderType /\ o.filled = 0 /\ r \in OrderType /\ r.kind = o.kind /\ r.sym = o.sym
      /\ k \in Nat
  BY <1>2, <1>3, <1>4, <1>5 DEF StopSent, SubmitOutcome, SubmitBook
<1>7. pc'.at = "stopAcked"
  BY <1>6 DEF GoOn, Place
<1>8. FillPrice(o) = 0
  <2>1. price[u] \in Nat /\ pc.stop \in Int
    BY <1>3, <1>6, SessionAssumption DEF TypeOK
  <2>2. ~(price[u] <= pc.stop)
    BY <1>3, <1>4, <2>1
  <2> QED
    BY <1>6, <2>2 DEF FillPrice
<1>9. Untouched(r, o)
  BY <1>2, <1>8 DEF StopSent, FilledAtOnce
<1>10. Working(r) /\ Left(r) = k /\ broker'.pos = broker.pos
  BY <1>3, <1>6, <1>8, <1>9 DEF Untouched
<1>11. Covers(r, u) = k /\ \A s \in Sym : s # u => Covers(r, s) = 0
  BY <1>6, <1>10 DEF Covers
<1>12. Uncovered(u) = k /\ \A s \in Sym : s # u => Uncovered(s) = 0
  BY <1>3, <1>4, <1>5, UncoveredCases
<1>13. \A s \in Sym : Stopped(s) + Uncovered(s) = broker.pos[s]
  BY DEF HealthInv
<1>14. \A s \in Sym : Uncovered(s)' = 0
  BY <1>7, UncoveredCasesNext DEF InHand
<1>15. \A s \in Sym : Stopped(s)' + 0 = broker.pos[s]
  <2>1. Stopped(u)' + 0 = broker.pos[u]
    BY <1>6, <1>11, <1>12, <1>13
  <2>2. \A s \in Sym : s # u => Stopped(s)' + 0 = broker.pos[s]
    BY <1>6, <1>11, <1>12, <1>13
  <2> QED
    BY <2>1, <2>2
<1>16. NoEntryWorks(orders')
  <2>1. \A j \in 1..(n + 1) : j \in 1..n \/ j = n + 1
    BY <1>6
  <2>2. \A j \in 1..n : orders[j].kind = "entry" => ~Working(orders[j])
    BY <1>1 DEF HealthInv, Ids
  <2> QED
    BY <1>6, <2>1, <2>2 DEF NoEntryWorks
<1> QED
  BY <1>10, <1>14, <1>15, <1>16


\* Orders that keep their kind and their state at the broker.
LEMMA NoEntryWorksStays ==
  ASSUME NEW os, NEW new, NEW n, Len(os) = n, Len(new) = n, NoEntryWorks(os),
         \A j \in 1..n : new[j].kind = os[j].kind /\ new[j].at = os[j].at
  PROVE  NoEntryWorks(new)
  BY DEF NoEntryWorks, Working

\* At a healthy broker every step keeps every share covered or in hand.
LEMMA HealthStep ==
  ASSUME Faults \subseteq {"NONE", "PARTIAL_FILL"}, ~LivePrices, ~QuotesFail,
         SafeInv, FollowInv, HealthInv, [Next]_vars, fault' = "NONE"
  PROVE  HealthInv'
<1>1. TypeOK /\ PlaceInv /\ fault = "NONE" /\ "DISCONNECT" \notin Faults
  BY DEF SafeInv, HealthInv
<1>2. PICK n : n = Len(orders)
  OBVIOUS
<1>3. n \in Nat /\ orders \in OrderBooks(n)
  BY <1>1, <1>2, MarketType
<1>4. \A s \in Sym : Stopped(s) \in Nat
  <2>1. \A s \in Sym : StoppedIn(orders, s) \in Nat
    BY <1>3, StoppedType
  <2> QED
    BY <2>1 DEF Stopped, StoppedIn
<1>5. NoEntryWorks(orders) /\ \A s \in Sym : Stopped(s) + Uncovered(s) = broker.pos[s]
  BY DEF HealthInv, NoEntryWorks, Ids
<1>6. SUFFICES NoEntryWorks(orders') /\ \A s \in Sym : Stopped(s)' + Uncovered(s)' = broker'.pos[s]
  BY DEF HealthInv, NoEntryWorks, Ids
<1>7. ~InHand /\ pc.at # "booked" => \A s \in Sym : Stopped(s) = broker.pos[s]
  <2> SUFFICES ASSUME ~InHand, pc.at # "booked", NEW s \in Sym PROVE Stopped(s) = broker.pos[s]
    OBVIOUS
  <2>1. Uncovered(s) = 0
    BY UncoveredCases
  <2> QED
    BY <1>4, <1>5, <2>1
<1>8. ASSUME ~InHand', pc'.at # "booked", broker'.pos = broker.pos, NoEntryWorks(orders'),
             \A s \in Sym : Stopped(s)' = Stopped(s), \A s \in Sym : Stopped(s) = broker.pos[s]
      PROVE  NoEntryWorks(orders') /\ \A s \in Sym : Stopped(s)' + Uncovered(s)' = broker'.pos[s]
  <2>1. \A s \in Sym : Uncovered(s)' = 0
    BY <1>8, UncoveredCasesNext
  <2> QED
    BY <1>4, <1>8, <2>1
<1>9. CASE SessionStart
  <2>1. PICK m : m = PollResting
    OBVIOUS
  <2>2. PICK a : a = ManageFills(m.book.fills)
    OBVIOUS
  <2>3. /\ broker' = NoFills(m.book) /\ orders' = PollOpen(m.ords, n) /\ pc.at = "idle"
        /\ pc' \in {Entries(MaxNew), Between}
    BY <1>2, <1>9, <2>1, <2>2 DEF SessionStart
  <2>4. AllCovered
    BY <1>2, <1>5, <1>7, <2>3 DEF AllCovered, NoEntryWorks, InHand, Ids
  <2>5. m \in Markets(n) /\ Kept(m, a, n, FALSE, FALSE, TRUE)
    BY <1>2, <2>1, <2>2, <2>4, SyncEffect
  <2>6. AllStopped(m, n) /\ m.book \in AccountType /\ m.ords \in OrderBooks(n)
    BY <2>5 DEF Kept, Markets
  <2>7. /\ orders' \in OrderBooks(n)
        /\ \A j \in 1..n : orders'[j].kind = m.ords[j].kind /\ orders'[j].at = m.ords[j].at
        /\ \A s \in Sym : StoppedIn(orders', s) = StoppedIn(m.ords, s)
    BY <1>3, <2>3, <2>6, PollOpenType
  <2>8. broker'.pos = m.book.pos
    BY <2>3, <2>6, NoFillsType
  <2>9. NoEntryWorks(orders')
    <3>1. Len(m.ords) = n /\ Len(orders') = n
      BY <2>6, <2>7 DEF OrderBooks
    <3>2. NoEntryWorks(m.ords)
      BY <2>6, <3>1 DEF AllStopped, NoEntryWorks
    <3> QED
      BY <2>7, <3>1, <3>2, NoEntryWorksStays
  <2>10. \A s \in Sym : Stopped(s)' = broker'.pos[s] /\ Stopped(s)' \in Nat
    <3>1. \A s \in Sym : StoppedIn(m.ords, s) \in Nat
      BY <1>3, <2>6, StoppedType
    <3>2. \A s \in Sym : Stopped(s)' = StoppedIn(m.ords, s)
      BY <2>7 DEF Stopped, StoppedIn
    <3> QED
      BY <2>6, <2>8, <3>1, <3>2 DEF AllStopped
  <2>11. \A s \in Sym : Uncovered(s)' = 0
    <3>1. pc'.at \in {"entries", "idle"}
      BY <2>3, PlaceTypes
    <3> QED
      BY <3>1, UncoveredCasesNext DEF InHand
  <2> QED
    BY <2>9, <2>10, <2>11
<1>10. CASE SessionStartOffline \/ \E k \in 0..MaxOrders : SessionStartCut(k)
  BY <1>1, <1>10 DEF SessionStartOffline, SessionStartCut
<1>11. CASE EntrySubmit
  BY <1>11, HealthyEntry
<1>12. CASE StopSubmit
  BY <1>12, HealthyStop
<1>13. CASE EntryPoll
  <2>1. /\ pc.at = "acked" /\ broker' = broker /\ n > 0
        /\ orders' = [orders EXCEPT ![n] = Polled(@)]
        /\ pc' = (IF LastFilled THEN GoOn("filled") ELSE Entries(pc.left))
    BY <1>1, <1>2, <1>13 DEF EntryPoll, LastFilled, PlaceInv
  <2>2. /\ \A s \in Sym : Stopped(s)' = Stopped(s)
        /\ Len(orders') = n /\ SameBut(orders, orders', n, n)
        /\ orders'[n].kind = orders[n].kind /\ orders'[n].at = orders[n].at
    BY <1>1, <1>2, <2>1, PollLast
  <2>3. NoEntryWorks(orders')
    <3>1. \A j \in 1..n : orders'[j].kind = orders[j].kind /\ orders'[j].at = orders[j].at
      BY <2>2 DEF SameBut
    <3> QED
      BY <1>2, <1>5, <2>2, <3>1, NoEntryWorksStays
  <2>4. CASE LastFilled
    <3>1. pc'.at = "filled" /\ pc'.sym = pc.sym
      BY <2>1, <2>4 DEF GoOn, Place
    <3>2. ASSUME NEW s \in Sym PROVE Uncovered(s)' = Uncovered(s)
      <4>1. Uncovered(s) = IF s = pc.sym THEN broker.fills[1].qty ELSE 0
        BY <2>1, <2>4 DEF Uncovered
      <4>2. Uncovered(s)' = IF s = pc'.sym THEN broker'.fills[1].qty ELSE 0
        BY <3>1 DEF Uncovered
      <4> QED
        BY <2>1, <3>1, <4>1, <4>2
    <3> QED
      BY <1>5, <2>1, <2>2, <2>3, <3>2
  <2>5. CASE ~LastFilled
    <3>1. pc'.at = "entries"
      BY <1>1, <2>1, <2>5, PlaceTypes DEF TypeOK
    <3>2. \A s \in Sym : Stopped(s) = broker.pos[s]
      BY <1>7, <2>1, <2>5 DEF InHand
    <3> QED
      BY <1>8, <2>1, <2>2, <2>3, <3>1, <3>2 DEF InHand
  <2> QED
    BY <2>4, <2>5
<1>14. CASE EntryBook
  <2>1. /\ pc.at = "filled" /\ broker' = NoFills(broker) /\ orders' = orders
    BY <1>14 DEF EntryBook
  <2>2. Due
    BY <2>1 DEF FollowInv
  <2>3. pc' = Place("booked", pc.left, pc.sym, broker.fills[1].qty, pc.stop)
    BY <1>1, <1>14, <2>2 DEF EntryBook, Due
  <2>4. pc'.at = "booked" /\ pc'.sym = pc.sym /\ pc'.qty = broker.fills[1].qty
    BY <2>3 DEF Place
  <2>5. broker'.pos = broker.pos
    BY <1>1, <2>1, NoFillsType DEF TypeOK
  <2>6. ASSUME NEW s \in Sym PROVE Uncovered(s)' = Uncovered(s)
    <3>1. Uncovered(s) = IF s = pc.sym THEN broker.fills[1].qty ELSE 0
      BY <2>1 DEF Uncovered
    <3>2. Uncovered(s)' = IF s = pc'.sym THEN pc'.qty ELSE 0
      BY <2>4 DEF Uncovered
    <3> QED
      BY <2>4, <3>1, <3>2
  <2>7. \A s \in Sym : Stopped(s)' = Stopped(s)
    BY <2>1 DEF Stopped
  <2> QED
    BY <1>5, <2>1, <2>5, <2>6, <2>7
<1>15. CASE StopPoll
  <2>1. /\ pc.at = "stopAcked" /\ broker' = NoFills(broker) /\ n > 0
        /\ orders' = [orders EXCEPT ![n] = Polled(@)] /\ pc' = Entries(pc.left)
    BY <1>1, <1>2, <1>15 DEF StopPoll, PlaceInv
  <2>2. /\ \A s \in Sym : Stopped(s)' = Stopped(s)
        /\ Len(orders') = n /\ SameBut(orders, orders', n, n)
        /\ orders'[n].kind = orders[n].kind /\ orders'[n].at = orders[n].at
    BY <1>1, <1>2, <2>1, PollLast
  <2>3. NoEntryWorks(orders')
    <3>1. \A j \in 1..n : orders'[j].kind = orders[j].kind /\ orders'[j].at = orders[j].at
      BY <2>2 DEF SameBut
    <3> QED
      BY <1>2, <1>5, <2>2, <3>1, NoEntryWorksStays
  <2>4. pc'.at = "entries" /\ broker'.pos = broker.pos
    BY <1>1, <2>1, PlaceTypes, NoFillsType DEF TypeOK
  <2>5. \A s \in Sym : Stopped(s) = broker.pos[s]
    BY <1>7, <2>1 DEF InHand
  <2> QED
    BY <1>8, <2>2, <2>3, <2>4, <2>5 DEF InHand
<1>16. ASSUME NEW i \in Ids, ResolveUnknown(i)
       PROVE  NoEntryWorks(orders') /\ \A s \in Sym : Stopped(s)' + Uncovered(s)' = broker'.pos[s]
  <2>1. pc' = pc /\ pc.at = "idle" /\ broker' = broker
    BY <1>16 DEF ResolveUnknown
  <2>2. /\ \A s \in Sym : Stopped(s)' = Stopped(s)
        /\ Len(orders') = n /\ SameBut(orders, orders', n, i)
        /\ orders'[i].kind = orders[i].kind /\ orders'[i].at = orders[i].at
    BY <1>1, <1>2, <1>16, ResolveEffect
  <2>3. NoEntryWorks(orders')
    <3>1. \A j \in 1..n : orders'[j].kind = orders[j].kind /\ orders'[j].at = orders[j].at
      BY <2>2 DEF SameBut
    <3> QED
      BY <1>2, <1>5, <2>2, <3>1, NoEntryWorksStays
  <2>4. \A s \in Sym : Stopped(s) = broker.pos[s]
    BY <1>7, <2>1 DEF InHand
  <2> QED
    BY <1>8, <2>1, <2>2, <2>3, <2>4 DEF InHand
<1>17. CASE \/ \E s \in Sym, q \in Qtys : EntryApproved(s, q)
            \/ SessionEnd \/ Settle \/ Reconcile \/ OperatorReset
            \/ \E s \in Sym, p \in Prices : PriceMove(s, p)
  <2>1. /\ orders' = orders /\ broker'.pos = broker.pos /\ pc.at \in {"idle", "entries"}
        /\ pc'.at \in {"idle", "entries", "approved"}
    <3>1. CASE \E s \in Sym, q \in Qtys : EntryApproved(s, q)
      BY <3>1 DEF EntryApproved, Place
    <3>2. CASE SessionEnd
      BY <3>2, PlaceTypes DEF SessionEnd
    <3>3. CASE Settle
      BY <3>3 DEF Settle, Account
    <3>4. CASE Reconcile \/ OperatorReset \/ \E s \in Sym, p \in Prices : PriceMove(s, p)
      BY <3>4 DEF Reconcile, OperatorReset, PriceMove
    <3> QED
      BY <1>17, <3>1, <3>2, <3>3, <3>4
  <2>2. \A s \in Sym : Stopped(s)' = Stopped(s)
    BY <2>1 DEF Stopped
  <2>3. \A s \in Sym : Stopped(s) = broker.pos[s]
    BY <1>7, <2>1 DEF InHand
  <2>4. NoEntryWorks(orders')
    BY <1>5, <2>1
  <2> QED
    BY <1>8, <2>1, <2>2, <2>3, <2>4 DEF InHand
<1>18. CASE (\E f \in Faults : SetFault(f)) \/ UNCHANGED vars
  <2>1. UNCHANGED <<broker, orders, pc>>
    BY <1>18 DEF SetFault, vars
  <2>2. \A s \in Sym : Stopped(s)' = Stopped(s) /\ Uncovered(s)' = Uncovered(s)
    BY <2>1 DEF Stopped, Uncovered, LastFilled
  <2> QED
    BY <1>5, <2>1, <2>2
<1> QED
  BY <1>9, <1>10, <1>11, <1>12, <1>13, <1>14, <1>15, <1>16, <1>17, <1>18,
     QuotesThere DEF Next, SessionStep

\* INV-15: with a broker that fills whole orders and quotes that are there and do not
\* move inside a session, between sessions every share held is covered by a working stop, also after
\* adding to a position and after stop-outs.
THEOREM HealthyShareIsStopped ==
  ASSUME Faults \subseteq {"NONE", "PARTIAL_FILL"}, ~LivePrices, ~QuotesFail
  PROVE  ModesSpec => []HealthyIsStopped
<1> DEFINE I == SafeInv /\ FollowInv /\ HealthyInv
<1>1. ModesInit => I
  <2> SUFFICES ASSUME ModesInit PROVE I
    OBVIOUS
  <2>1. Init
    BY DEF ModesInit
  <2>2. SafeInv /\ FollowInv
    BY <2>1, SafeInit, FollowInit
  <2>3. pc.at = "idle" /\ fault = "NONE" /\ orders = <<>> /\ broker.pos = [s \in Sym |-> 0]
    BY <2>1, PlaceTypes DEF Init, Account
  <2>4. Ids = {} /\ \A s : Stopped(s) = 0
    BY <2>3, NothingStopped
  <2>5. \A s \in Sym : Uncovered(s) = 0
    BY <2>3, UncoveredCases DEF InHand
  <2> QED
    BY <2>2, <2>3, <2>4, <2>5 DEF HealthyInv, HealthInv
<1>2. I /\ [ModesNext]_<<vars, healthy>> => I'
  <2> SUFFICES ASSUME I, [ModesNext]_<<vars, healthy>> PROVE I'
    OBVIOUS
  <2>1. [Next]_vars /\ healthy' = healthy /\ (healthy => fault' = "NONE" \/ fault' = fault)
    BY DEF ModesNext, vars
  <2>2. SafeInv' /\ FollowInv'
    BY <2>1, SafeStep, FollowStep
  <2>3. ASSUME healthy PROVE HealthInv'
    <3>1. HealthInv /\ fault = "NONE"
      BY <2>3 DEF HealthyInv, HealthInv
    <3> QED
      BY <2>1, <2>3, <3>1, HealthStep
  <2> QED
    BY <2>1, <2>2, <2>3 DEF HealthyInv
<1>3. I => HealthyIsStopped
  <2> SUFFICES ASSUME I, healthy, pc.at = "idle", NEW s \in Sym
               PROVE  Stopped(s) = broker.pos[s]
    BY DEF HealthyIsStopped, EveryShareStopped
  <2>1. Stopped(s) + Uncovered(s) = broker.pos[s]
    BY DEF HealthyInv, HealthInv
  <2>2. Uncovered(s) = 0
    BY UncoveredCases DEF InHand
  <2>3. Stopped(s) \in Nat
    <3>1. Len(orders) \in Nat /\ orders \in OrderBooks(Len(orders))
      BY MarketType DEF SafeInv
    <3>2. StoppedIn(orders, s) \in Nat
      BY <3>1, StoppedType
    <3> QED
      BY <3>2 DEF Stopped, StoppedIn
  <2> QED
    BY <2>1, <2>2, <2>3
<1> QED
  BY <1>1, <1>2, <1>3, PTL DEF ModesSpec

=============================================================================
