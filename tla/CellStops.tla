------------------------------ MODULE CellStops ------------------------------
(***************************************************************************)
(* Stops of several capital cells on one broker position                   *)
(* (services/capital_cells/stops.py): CellStopRegistry turns a firing stop *)
(* into exit intents, SellReservationLedger keeps overlapping exits from   *)
(* claiming the same shares.  What happens to the exits afterwards is the  *)
(* caller's protocol: a fill is booked on the cell and the master ledger,  *)
(* the reservation ledger is synced to the master, and a reservation is    *)
(* released once its exit is over.                                         *)
(***************************************************************************)
EXTENDS Integers, FiniteSets, FiniteSetsExt

CONSTANTS
  Cell, Sym,
  Plans,          \* CellStopPlans: [id, cell, sym, scope]
  MaxQty,         \* bound on a cell's position
  MaxExits        \* bound on exits ever reserved

Scope == {"CELL", "SYMBOL", "PORTFOLIO"}

ASSUME StopsAssumption ==
  /\ \A p \in Plans : p.cell \in Cell /\ p.sym \in Sym /\ p.scope \in Scope
  /\ MaxQty \in Nat /\ MaxExits \in Nat
  /\ IsFiniteSet(Cell) /\ IsFiniteSet(Sym)

VARIABLES
  holdings, \* the cells' virtual positions
  master,   \* the master ledger's position
  long,     \* SellReservationLedger.master_long_qty
  armed,    \* CellStopRegistry._stops
  exits,    \* SellReservationLedger._reservations, with what is left to fill
  minted    \* exits reserved so far: their ids

stopsvars == <<holdings, master, long, armed, exits, minted>>

\* Positions, stop plans and exits have their types; no cell goes short.
StopsTyped ==
  /\ holdings \in [Cell \X Sym -> 0..MaxQty]
  /\ master \in [Sym -> Nat] /\ long \in [Sym -> Nat]
  /\ armed \subseteq Plans
  /\ exits \subseteq [id: 1..MaxExits, cell: Cell, sym: Sym, qty: 1..MaxQty, left: 1..MaxQty]
  /\ minted \in 0..MaxExits

\* Quantities are summed by counting shares: share n of an owner x is <<x, n>>,
\* and the sum of the quantities is the number of the shares.
HeldShares(s) == {h \in Cell \X (1..MaxQty) : h[2] <= holdings[<<h[1], s>>]}

StopsInit ==
  /\ holdings \in [Cell \X Sym -> 0..MaxQty]
  /\ master = [s \in Sym |-> Cardinality(HeldShares(s))]
  /\ long = master
  /\ armed = {} /\ exits = {} /\ minted = 0

-----------------------------------------------------------------------------
\* reserved_qty, for a symbol and for one cell of it
ReservedShares(s) == {h \in exits \X (1..MaxQty) : h[1].sym = s /\ h[2] <= h[1].qty}
ReservedOf(c, s)  == Cardinality({h \in ReservedShares(s) : h[1].cell = c})
Reserved(s)       == Cardinality(ReservedShares(s))

\* available_to_reserve
Available(s) == Max({0, long[s] - Reserved(s)})

StopTargets(p) ==
  {t \in Cell \X Sym :
     \/ p.scope = "CELL" /\ t = <<p.cell, p.sym>>
     \/ p.scope = "SYMBOL" /\ t[2] = p.sym /\ holdings[t] > 0
     \/ p.scope = "PORTFOLIO" /\ holdings[t] > 0}

\* Fault-injected variant: an exit sells the whole position.
ExitWholePosition(t) == holdings[t]

\* Each exit sells what no exit in flight has claimed.
ExitQty(t) == holdings[t] - ReservedOf(t[1], t[2])

\* Fault-injected variant: a target with nothing left to sell is kept.
PlannedEvenEmpty(p) == StopTargets(p)

\* The exits a firing stop would reserve.
Planned(p) == {t \in StopTargets(p) : ExitQty(t) > 0}

\* The batch's demand per symbol is checked before any reservation is made.
DemandShares(p, s) ==
  {h \in Planned(p) \X (1..MaxQty) : h[1][2] = s /\ h[2] <= ExitQty(h[1])}
Fits(p) == \A s \in Sym : Cardinality(DemandShares(p, s)) <= Available(s)

Register(p) ==
  /\ p \notin armed                             \* DuplicateStopIdError
  /\ armed' = armed \cup {p}
  /\ UNCHANGED <<holdings, master, long, exits, minted>>

Cancel(p) ==
  /\ p \in armed                                \* UnknownStopError
  /\ armed' = armed \ {p}
  /\ UNCHANGED <<holdings, master, long, exits, minted>>

\* trigger: all the exits of its scope, or none.  The stop stays registered.
Trigger(p) ==
  /\ p \in armed
  /\ Planned(p) # {} /\ Fits(p)                 \* OversellError
  /\ minted + Cardinality(Planned(p)) <= MaxExits
  /\ \E number \in [Planned(p) -> minted + 1 .. minted + Cardinality(Planned(p))] :
       /\ \A t, u \in Planned(p) : number[t] = number[u] => t = u
       /\ exits' = exits \cup
            {[id |-> number[t], cell |-> t[1], sym |-> t[2],
              qty |-> ExitQty(t), left |-> ExitQty(t)] : t \in Planned(p)}
  /\ minted' = minted + Cardinality(Planned(p))
  /\ UNCHANGED <<holdings, master, long, armed>>

\* q shares of an exit are sold: booked on the cell and the master, synced; the
\* reservation is only ever released as a whole, when nothing is left.
FillExit(e, q) ==
  /\ q <= e.left
  /\ q <= holdings[<<e.cell, e.sym>>]               \* CellShortSellError
  /\ holdings' = [holdings EXCEPT ![<<e.cell, e.sym>>] = @ - q]
  /\ master' = [master EXCEPT ![e.sym] = @ - q]
  /\ long' = master'                            \* sync_master_long_qty
  /\ exits' = (exits \ {e}) \cup
       {r \in {[id |-> e.id, cell |-> e.cell, sym |-> e.sym,
               qty |-> e.qty, left |-> e.left - q]} : q < e.left}
  /\ UNCHANGED <<armed, minted>>

\* The exit is cancelled and its reservation released.
Release(e) ==
  /\ exits' = exits \ {e}
  /\ UNCHANGED <<holdings, master, long, armed, minted>>

\* A cell buys more.
Buy(c, s) ==
  /\ holdings[<<c, s>>] < MaxQty
  /\ holdings' = [holdings EXCEPT ![<<c, s>>] = @ + 1]
  /\ master' = [master EXCEPT ![s] = @ + 1]
  /\ long' = master'
  /\ UNCHANGED <<armed, exits, minted>>

StopsNext ==
  \/ \E p \in Plans : Register(p) \/ Cancel(p) \/ Trigger(p)
  \/ \E e \in exits, q \in 1..MaxQty : FillExit(e, q)
  \/ \E e \in exits : Release(e)
  \/ \E c \in Cell, s \in Sym : Buy(c, s)

StopsSpec == StopsInit /\ [][StopsNext]_stopsvars

-----------------------------------------------------------------------------
\* Overlapping triggers of all three scopes, arriving while earlier exits are in
\* flight, cancelled or topped up by purchases, never claim a share twice: the
\* exits of a cell can all be filled from what it holds.
OpenShares(c, s) ==
  {h \in exits \X (1..MaxQty) : h[1].cell = c /\ h[1].sym = s /\ h[2] <= h[1].left}
NoDoubleClaim == \A c \in Cell, s \in Sym : Cardinality(OpenShares(c, s)) <= holdings[<<c, s>>]

\* A protective exit is never refused: the demand of every stop that could fire
\* fits what the reservation ledger believes is left.  An exit that is filled in
\* part keeps its whole reservation, which is more than its cell still holds, so
\* this is claimed of the states without one.
StopCanFire ==
  (\A e \in exits : e.left = e.qty) => \A p \in Plans : Fits(p)

=============================================================================
