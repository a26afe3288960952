----------------------------- MODULE EntryFunnel -----------------------------
(***************************************************************************)
(* How a session turns candidates into positions: sizing caps              *)
(* (services/position_sizing/engine.py), allocation of settled cash        *)
(* (services/capital_allocation/engine.py), one risk review per order      *)
(* (RiskGate) and the ledger's high-water mark (packages/common/ledger.py) *)
(* as run_session strings them together (services/pipeline.py).            *)
(*                                                                         *)
(* All candidates are sized against the same view, allocation then walks   *)
(* them in rank order, and the reviews happen one by one while the         *)
(* positions grow.  Fees and slippage are left out: an order fills at the  *)
(* price it was reviewed at.  The risk budget, the confidence, the         *)
(* anti-martingale guard, the correlation penalty and the spread only      *)
(* shrink a size, so a candidate has any size the hard caps leave.         *)
(***************************************************************************)
EXTENDS RiskGate, FiniteSets, Sequences

CONSTANTS
  Sym, Prices, Qtys, InitialCash,
  ThemeOf,       \* symbol_themes: the theme of each symbol (one each)
  RiskStates,    \* the states the controller is put in
  MaxMoves       \* bound on price moves

ASSUME FunnelAssumption ==
  /\ IsFiniteSet(Sym)
  /\ Prices \subseteq Nat \ {0} /\ Qtys \subseteq Nat \ {0}
  /\ InitialCash \in Nat \ {0}
  /\ DOMAIN ThemeOf = Sym
  /\ RiskStates \subseteq RiskState
  /\ MaxMoves \in Nat

VARIABLES
  settled, unsettled, \* the broker's cash; the ledger's cash is the sum
  pos,                \* shares held
  work,               \* remainders of partly filled entries, still working
  price, hwm,
  risk,               \* MasterRiskController.state
  queue,              \* allocated orders of the running session
  entered,            \* symbols bought in the running session
  inSession, moves

vars == <<settled, unsettled, pos, work, price, hwm, risk, queue, entered, inSession, moves>>

-----------------------------------------------------------------------------
\* What the symbols in S are worth together, counted tick by tick.
Total(worth, S) == Cardinality(UNION {{s} \X (1..worth[s]) : s \in S})

Notional(s) == pos[s] * price[s]
Notionals   == [s \in Sym |-> Notional(s)]
Exposure    == Total(Notionals, Sym)
Equity      == settled + unsettled + Exposure
SameTheme(s)     == {t \in Sym : ThemeOf[t] = ThemeOf[s]}
ThemeNotional(s) == Total(Notionals, SameTheme(s))

\* Ledger.snapshot raises the high-water mark before it measures the drawdown.
Mark == IF hwm >= Equity THEN hwm ELSE Equity

\* _risk_view and _exit_risk_view
View(market, trouble) ==
  [state |-> risk, equity |-> Equity, hwm |-> Mark, settled |-> settled,
   exposure |-> Exposure, held |-> pos, theme |-> [s \in Sym |-> ThemeNotional(s)],
   market |-> market, trouble |-> trouble]

Entry(o) == [side |-> "BUY", protective |-> FALSE, sym |-> o.sym, qty |-> o.qty,
             px |-> price[o.sym], known |-> FALSE]
Exit(s)  == [side |-> "SELL", protective |-> TRUE, sym |-> s, qty |-> pos[s],
             px |-> price[s], known |-> FALSE]

\* size: the hard caps net of what is held, and settled cash.
Sized(o) ==
  LET value == o.qty * price[o.sym]
  IN  /\ (Notional(o.sym) + value) * 100 <= Equity * MaxPositionPct
      /\ value <= settled
      /\ (ThemeNotional(o.sym) + value) * 100 <= Equity * MaxThemePct

\* What allocate has accepted so far, and what that leaves.
Room(cash, exposure, accepted) ==
  [cash |-> cash, exposure |-> exposure, accepted |-> accepted]
Taken(acc, o) ==
  Room(acc.cash - o.qty * price[o.sym], acc.exposure + o.qty * price[o.sym],
       Append(acc.accepted, o))

\* Fault-injected variant: what does not fit is cut down instead of skipped.
AllocateScaled(acc, o) ==
  LET fits == acc.cash \div price[o.sym]
  IN  Taken(acc, IF o.qty <= fits THEN o ELSE [sym |-> o.sym, qty |-> fits])

\* allocate: rank order, skipping what no longer fits cash or total exposure.
Allocate(acc, o) ==
  LET value == o.qty * price[o.sym]
  IN  IF value > acc.cash \/ (acc.exposure + value) * 10000 > Equity * MaxTotalPct * StagePct
        THEN acc ELSE Taken(acc, o)
Allocations(ranked) ==
  LET acc[i \in 0..Len(ranked)] ==
        IF i = 0 THEN Room(settled, Exposure, <<>>) ELSE Allocate(acc[i - 1], ranked[i])
  IN  acc
Allocated(ranked) == Allocations(ranked)[Len(ranked)].accepted

\* Prices, positions, cash and proposals have their types; settled cash is never
\* overdrawn.
TypeOK ==
  /\ settled \in Nat /\ unsettled \in Nat /\ hwm \in Nat
  /\ pos \in [Sym -> Nat] /\ price \in [Sym -> Prices]
  /\ work \in Seq([sym: Sym, qty: Nat]) /\ queue \in Seq([sym: Sym, qty: Qtys])
  /\ risk \in RiskState /\ entered \subseteq Sym
  /\ inSession \in BOOLEAN /\ moves \in 0..MaxMoves

Init ==
  /\ settled = InitialCash /\ unsettled = 0
  /\ pos = [s \in Sym |-> 0] /\ work = <<>>
  /\ price \in [Sym -> Prices]
  /\ hwm = InitialCash
  /\ risk = "NORMAL"
  /\ queue = <<>> /\ entered = {} /\ inSession = FALSE /\ moves = 0

-----------------------------------------------------------------------------
\* A working remainder is tried again; one that settled cash cannot pay rests.
Rest(cash, held, remainders) == [cash |-> cash, pos |-> held, work |-> remainders]
Refill(acc, o) ==
  LET value == o.qty * price[o.sym]
  IN  IF value > acc.cash THEN Rest(acc.cash, acc.pos, Append(acc.work, o))
      ELSE Rest(acc.cash - value, [acc.pos EXCEPT ![o.sym] = @ + o.qty], acc.work)
Refills[i \in 0..Len(work)] ==
  IF i = 0 THEN Rest(settled, pos, <<>>) ELSE Refill(Refills[i - 1], work[i])

\* manage_open_positions: remainders fill, and `sold' shares are stopped out.
SessionStart(sold) ==
  /\ ~inSession
  /\ \A s \in Sym : sold[s] <= pos[s]
  /\ LET r == Refills[Len(work)]
     IN  /\ settled' = r.cash
         /\ pos' = [s \in Sym |-> r.pos[s] - sold[s]]
         /\ work' = r.work
  /\ unsettled' = unsettled + Total([s \in Sym |-> sold[s] * price[s]], Sym)
  /\ inSession' = TRUE
  /\ UNCHANGED <<price, hwm, risk, queue, entered, moves>>

\* The candidates are sized and allocated; ranked is their order by edge.
Plan(ranked) ==
  /\ inSession /\ queue = <<>> /\ entered = {}
  /\ \A i \in DOMAIN ranked : Sized(ranked[i])
  /\ hwm' = Mark
  /\ queue' = Allocated(ranked)
  /\ UNCHANGED <<settled, unsettled, pos, work, price, risk, entered, inSession, moves>>

\* The next order is reviewed against the view as it is now; if approved it is
\* submitted and fills, or half of it does.
ReviewNext(market, trouble) ==
  /\ inSession /\ queue # <<>>
  /\ queue' = Tail(queue)
  /\ LET o == Head(queue)
     IN  \/ /\ Approved(Entry(o), View(market, trouble))
            /\ \E q \in {o.qty} \cup (IF o.qty % 2 = 0 THEN {o.qty \div 2} ELSE {}) :
                 /\ settled' = settled - q * price[o.sym]
                 /\ pos' = [pos EXCEPT ![o.sym] = @ + q]
                 /\ work' = IF q = o.qty THEN work
                            ELSE Append(work, [sym |-> o.sym, qty |-> o.qty - q])
            /\ entered' = entered \cup {o.sym}
         \/ /\ ~Approved(Entry(o), View(market, trouble))
            /\ UNCHANGED <<settled, pos, work, entered>>
  /\ hwm' = Mark
  /\ UNCHANGED <<unsettled, price, risk, inSession, moves>>

SessionEnd ==
  /\ inSession /\ queue = <<>>
  /\ inSession' = FALSE /\ entered' = {}
  /\ UNCHANGED <<settled, unsettled, pos, work, price, hwm, risk, queue, moves>>

Settle ==
  /\ ~inSession /\ unsettled > 0
  /\ settled' = settled + unsettled /\ unsettled' = 0
  /\ UNCHANGED <<pos, work, price, hwm, risk, queue, entered, inSession, moves>>

PriceMove(s, p) ==
  /\ ~inSession /\ moves < MaxMoves /\ p # price[s]
  /\ price' = [price EXCEPT ![s] = p]
  /\ moves' = moves + 1
  /\ UNCHANGED <<settled, unsettled, pos, work, hwm, risk, queue, entered, inSession>>

\* set_state, by execution, reconciliation or a human.
SetState(s) ==
  /\ s # risk
  /\ risk' = s
  /\ UNCHANGED <<settled, unsettled, pos, work, price, hwm, queue, entered, inSession, moves>>

\* rebase_high_water_mark with a named approver: down to the ledger's cash.
RebaseHighWaterMark ==
  /\ ~inSession
  /\ hwm' = settled + unsettled
  /\ UNCHANGED <<settled, unsettled, pos, work, price, risk, queue, entered, inSession, moves>>

\* One candidate per symbol.
Rankings ==
  {r \in UNION {[1..n -> [sym: Sym, qty: Qtys]] : n \in 1..Cardinality(Sym)} :
     \A i, j \in DOMAIN r : r[i].sym = r[j].sym => i = j}

Next ==
  \/ \E sold \in [Sym -> {0} \cup Qtys] : SessionStart(sold)
  \/ \E r \in Rankings : Plan(r)
  \/ \E m \in SessionStatus : ReviewNext(m, {})
  \/ \E x \in Trouble : ReviewNext("OPEN", {x})
  \/ SessionEnd \/ Settle \/ RebaseHighWaterMark
  \/ \E s \in Sym, p \in Prices : PriceMove(s, p)
  \/ \E s \in RiskStates : SetState(s)

Spec == Init /\ [][Next]_vars

-----------------------------------------------------------------------------
\* Sections 35 and 38: every candidate of a session is sized against the same
\* free room, and the sum may be far more than that room.  All the same, once an
\* entry has gone through, its position and its theme are within their share of
\* equity at the prices of that session.
CapsHold ==
  \A s \in entered :
    /\ Notional(s) * 100 <= Equity * MaxPositionPct
    /\ ThemeNotional(s) * 100 <= Equity * MaxThemePct

\* INV-12: when the data, the signal, the spread, the liquidity and the
\* reconciliation are all bad at once, under every drawdown and MASTER STOP, a
\* protective exit of all that is held is still approved, unless the broker is
\* gone or trading is halted (a cash account has no margin requirement).
ExitStaysOpen ==
  risk # "FULL_BROKER_DISCONNECT" =>
    \A s \in Sym, m \in {"OPEN", "CLOSED"} :
      Approved(Exit(s), View(m, Trouble \ {"disconnected", "margin"}))

\* Sections 5 and 39: an account that is all cash and throttled stays throttled,
\* with no trade in the meantime, until a human rebases the high-water mark.
Locked ==
  /\ \A s \in Sym : pos[s] = 0
  /\ work = <<>>
  /\ ThrottleLevel(View("OPEN", {})) \in {"NO_NEW_ENTRY", "REVIEW_SAFE_MODE"}
LockedUntilRebase ==
  [][Locked => Locked' \/ hwm' < hwm]_vars

=============================================================================
