------------------------------ MODULE RiskGate ------------------------------
(***************************************************************************)
(* MasterRiskController.review (services/risk/master_controller.py), the   *)
(* deterministic gate in front of the broker, with the drawdown ladder and *)
(* the limits of packages/common/risk_config.py.                           *)
(*                                                                         *)
(* An intent o is [side, protective, sym, qty, px, known], px = 0 when no  *)
(* price is available, known when its id has been used.  A view v is       *)
(*   [state, equity, hwm, settled, exposure, held, theme, market, trouble] *)
(* with held the quantity per symbol and theme the notional of the theme   *)
(* of the symbol that is fullest.  Limits are percentages.  The            *)
(* measurements compared with a fixed limit are in `trouble' when they are *)
(* beyond it.                                                              *)
(***************************************************************************)
EXTENDS Integers, OrderStates

CONSTANTS
  MaxLeveragePct, MaxTotalPct, StagePct, MaxPositionPct, MaxThemePct,
  DdReducedAt, DdNoNewEntryAt, DdSafeModeAt

ASSUME RiskConfigAssumption ==
  /\ {MaxLeveragePct, MaxTotalPct, StagePct, MaxPositionPct, MaxThemePct,
      DdReducedAt, DdNoNewEntryAt, DdSafeModeAt} \subseteq Nat
  /\ MaxLeveragePct <= 100 /\ MaxTotalPct <= 100

\* What can be beyond its limit: no stop plan, the gap score, the spread, the
\* signal's age, ADV participation, data health, reconciliation, the connection,
\* a margin requirement.
Trouble ==
  {"no_stop_plan", "gap", "spread", "stale", "illiquid", "bad_data", "unreconciled",
   "disconnected", "margin"}

SessionStatus == {"OPEN", "CLOSED", "HALTED"}

\* The drawdown of the view is at least pct percent.
DrawdownAtLeast(v, pct) == v.hwm > 0 /\ (v.hwm - v.equity) * 100 >= pct * v.hwm

\* throttle_level
ThrottleLevel(v) ==
  CASE DrawdownAtLeast(v, DdSafeModeAt)   -> "REVIEW_SAFE_MODE"
    [] ~DrawdownAtLeast(v, DdSafeModeAt) /\ DrawdownAtLeast(v, DdNoNewEntryAt)
                                          -> "NO_NEW_ENTRY"
    [] ~DrawdownAtLeast(v, DdNoNewEntryAt) /\ ~DrawdownAtLeast(v, DdSafeModeAt)
         /\ DrawdownAtLeast(v, DdReducedAt) -> "REDUCED_SIZE"
    [] OTHER                              -> "NORMAL"

\* Fault-injected variant: the second rung of the ladder lets entries through.
EntryAllowedUntilSafeMode(v) ==
  v.state = "NORMAL" /\ ThrottleLevel(v) # "REVIEW_SAFE_MODE"

\* _entry_allowed_by_state
EntryAllowedByState(v) ==
  v.state = "NORMAL" /\ ThrottleLevel(v) \in {"NORMAL", "REDUCED_SIZE"}

\* Fault-injected variant: a MASTER STOP blocks exits as well.
ExitAllowedInNormal(v) == v.state = "NORMAL"

\* Section 43: exits stay allowed under every MASTER STOP.
ExitAllowedByState(v) == v.state # "FULL_BROKER_DISCONNECT"

\* The checks of review, by name: TRUE when passed.
Checks(o, v) ==
  LET buy   == o.side = "BUY"
      exit  == o.side = "SELL" /\ o.protective
      value == o.qty * o.px
  IN  [priceable_order     |-> buy => o.px > 0,
       risk_state          |-> IF exit THEN ExitAllowedByState(v) ELSE EntryAllowedByState(v),
       leverage            |-> buy => /\ v.equity > 0
                                      /\ (v.exposure + value) * 100 <= MaxLeveragePct * v.equity,
       cash_settled        |-> buy => value <= v.settled,
       no_short            |-> ~buy => o.qty <= v.held[o.sym],
       total_exposure      |-> buy => (v.exposure + value) * 10000
                                        <= v.equity * MaxTotalPct * StagePct,
       position_size       |-> buy => value * 100 <= v.equity * MaxPositionPct,
       liquidity           |-> buy => "illiquid" \notin v.trouble,
       stop_exists         |-> exit \/ "no_stop_plan" \notin v.trouble,
       theme_concentration |-> buy => (v.theme[o.sym] + value) * 100 <= v.equity * MaxThemePct,
       gap_risk            |-> exit \/ "gap" \notin v.trouble,
       broker_connected    |-> "disconnected" \notin v.trouble,
       reconciliation      |-> exit \/ "unreconciled" \notin v.trouble,
       market_open         |-> v.market = "OPEN" \/ (exit /\ v.market # "HALTED"),
       data_health         |-> exit \/ "bad_data" \notin v.trouble,
       no_margin           |-> "margin" \notin v.trouble,
       duplicate_order     |-> ~o.known,
       stale_order         |-> exit \/ "stale" \notin v.trouble,
       spread              |-> exit \/ "spread" \notin v.trouble]

\* Fault-injected variant: the theme is not checked at review time.
ApprovedButTheme(o, v) ==
  LET c == Checks(o, v) IN \A name \in DOMAIN c \ {"theme_concentration"} : c[name]

\* review: an approval is minted only when every check passes.
Approved(o, v) == LET c == Checks(o, v) IN \A name \in DOMAIN c : c[name]

=============================================================================
