----------------------------- MODULE SizingGuard -----------------------------
(***************************************************************************)
(* The anti-martingale guard (INV-10): what the sizing engine remembers of *)
(* the last result (services/position_sizing/engine.py) and the risk the   *)
(* pipeline keeps beside a symbol's stops to feed it (open_stops of        *)
(* services/pipeline.py), over purchases, additions, stop-outs in parts    *)
(* and late remainders.                                                    *)
(*                                                                         *)
(* A lot is its risk: quantity times stop distance, in whole units.  The   *)
(* sign of a result is free, as is what the other caps leave of a size.    *)
(***************************************************************************)
EXTENDS Integers, Sequences, FiniteSets

CONSTANTS
  Names,   \* symbols
  Budget,  \* the largest per-trade risk budget
  MaxRisk  \* bound: risk recorded for a symbol

ASSUME GuardAssumption == Budget \in Nat \ {0} /\ MaxRisk \in Nat

VARIABLES
  atRisk,   \* what is left of the risk of each lot, by symbol
  recorded, \* open_stops[symbol][3]; 0: no entry
  bare,     \* symbols held (also) in shares without a stop
  resting,  \* symbols with the rest of an entry still working
  last,     \* _last_trade_was_loss and _last_risk_amount (0: None)
  since,    \* not in the code: largest risk sized since the last result
  hit       \* not in the code: the symbol's working risk when that result came in

gvars == <<atRisk, recorded, bare, resting, last, since, hit>>

\* The sum of the lots, as the number of pairs of a lot and a unit of its risk.
UnitsOf(lots, D) == {h \in D \X (1..Budget) : h[2] <= lots[h[1]]}
RiskOf(lots) == Cardinality(UnitsOf(lots, DOMAIN lots))

\* Steps 1 to 3 of size: the budget, never above the last trade's after a loss.
SizedRisk(budget) ==
  IF last.loss /\ last.risk # 0 /\ budget > last.risk THEN last.risk ELSE budget

\* Fault-injected variant: a second lot's record replaces the first one's.
RecordLotAlone(s, lot) == lot

\* place_protective_stop: the risk of the position, lot by lot
RecordLot(s, lot) == recorded[s] + lot

\* An entry sized, bought (caps and partial fills leave a part of it) and protected,
\* or bought and left without a stop.
Enter(s, budget, lot) ==
  /\ lot <= SizedRisk(budget) /\ recorded[s] + lot <= MaxRisk
  /\ since' = IF SizedRisk(budget) > since THEN SizedRisk(budget) ELSE since
  /\ \/ /\ atRisk' = [atRisk EXCEPT ![s] = Append(@, lot)]
        /\ recorded' = [recorded EXCEPT ![s] = RecordLot(s, lot)]
        /\ UNCHANGED bare
     \/ bare' = bare \cup {s} /\ UNCHANGED <<atRisk, recorded>>
  /\ resting' \in {resting, resting \cup {s}}
  /\ UNCHANGED <<last, hit>>

\* The rest of an entry fills at a later sync: no stop, no record.
Remainder(s) ==
  /\ s \in resting
  /\ bare' = bare \cup {s} /\ resting' = resting \ {s}
  /\ UNCHANGED <<atRisk, recorded, last, since, hit>>

\* record_trade_result
TradeResult(loss, risk) == [loss |-> loss, risk |-> risk]

\* manage_open_positions, for one fill of a stop: a part of it or all
StopFill(s, i, sold, loss) ==
  LET now  == [atRisk[s] EXCEPT ![i] = @ - sold]
      over == RiskOf(now) = 0
  IN  /\ sold <= atRisk[s][i]
      /\ atRisk' = [atRisk EXCEPT ![s] = IF over THEN <<>> ELSE now]
      /\ IF recorded[s] = 0 THEN UNCHANGED <<recorded, last, since, hit>>
         ELSE /\ last' = TradeResult(loss, recorded[s])
              /\ since' = 0 /\ hit' = RiskOf(atRisk[s])
              /\ recorded' = [recorded EXCEPT ![s] =
                                IF over /\ s \notin bare THEN 0 ELSE @]
      /\ UNCHANGED <<bare, resting>>

GuardInit ==
  /\ atRisk = [s \in Names |-> <<>>] /\ recorded = [s \in Names |-> 0]
  /\ bare = {} /\ resting = {}
  /\ last = [loss |-> FALSE, risk |-> 0] /\ since = 0 /\ hit = 0

GuardNext ==
  \/ \E s \in Names, budget, lot \in 1..Budget : Enter(s, budget, lot)
  \/ \E s \in Names : Remainder(s)
  \/ \E s \in Names, sold \in 1..Budget, loss \in BOOLEAN :
       \E i \in DOMAIN atRisk[s] : StopFill(s, i, sold, loss)

GuardSpec == GuardInit /\ [][GuardNext]_gvars

-----------------------------------------------------------------------------
\* INV-10 and the comment at pipeline.py:363: whatever was added to a position, sold
\* of it in parts or left without a stop, the guard sees at least the whole risk the
\* position still had; and after a loss no entry is sized above what it saw.
GuardSeesThePosition ==
  /\ \A s \in Names : RiskOf(atRisk[s]) <= recorded[s]
  /\ hit <= last.risk
  /\ last.loss => since <= last.risk

=============================================================================
