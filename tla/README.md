# TLA+ models of the autonomous quant trading system

This directory holds TLA+ modules that model the order path and the libraries of
the trading system, TLC configurations that check them on small instances, and
TLAPS proofs of what matters most for every instance. `PROJECT.json` lists components, runs,
fault-injected variants, the map from definitions to source lines, findings,
hazards and theorems. Every definition is translated from the Python source;
comments in the modules name the function they stand for.

## 1. Inventory

### Components and their state

| Part | State it keeps | Operations |
|---|---|---|
| Trading pipeline `services/pipeline.py` | `open_stops`, sequence number, the session's result | `run_session`, `manage_open_positions`, `place_protective_stop`, `_record_decision` |
| Execution Engine `services/execution/engine.py` | `_submitted`, `_snapshots` | `submit`, `poll_order`, `sync_open_orders`, `resolve_unknown`, `recover_from_store`, `check_stale_orders` |
| Order state machine `services/execution/state_machine.py` | state per order, event log | `create`, `transition`, `restore` |
| Durable order store `packages/common/durable_store.py` | SQLite rows: state, snapshot | `record_submission`, `update_state`, `is_known`, `all` |
| Paper broker `packages/broker_adapters/paper.py` | order book, positions, settled and unsettled cash, fault | `submit_order`, `poll_resting_orders`, `cancel_order`, `settle`, reads |
| Master Risk Controller `services/risk/master_controller.py` | risk state, signing key | `review`, `set_state`, `verify_signature` |
| Accounting ledger `packages/common/ledger.py` | cash, lots, high-water mark | `record_fill`, `snapshot`, `rebase_high_water_mark` |
| Reconciliation `services/reconciliation/engine.py` | none | `reconcile` |
| Sizing and allocation `services/position_sizing`, `services/capital_allocation` | last trade's result | `size`, `record_trade_result`, `allocate` |
| Capital cells `services/capital_cells/` | virtual ledgers, reservations, stop plans | `net`, `apply_crosses_to_cells`, `allocate`, `apply_allocations_to_cells`, `reserve`, `trigger`, `reconcile` |
| Decision and audit `services/decision` | none | `decide`, `critique`, `audit`, monitor reviews, forecast resolution |
| Audit log and provenance `services/pdca/audit_log.py`, `packages/common/provenance.py`, `DurableAuditStore` | a record per order, near misses, review queue, a chain per decision, SQLite rows | `open`, `record_*`, `resolve_human_review`, `upsert`, `is_fully_traceable` |
| Data `services/market_data`, `services/data_validation` | memoized price walk, accumulated issues | `quote`, `bars`, `validate_*`, `health`, corporate actions |
| Decision quality `services/pdca/decision_quality.py`, `post_trade.py` | snapshots, observations, evaluations, stop-outs | `record`, `track`, `evaluate` |
| Promotion `services/feature_manager`, `services/alpha_factory`, `pdca/exit_optimizer.py`, `packages/common/experiments.py` | status of features, stages of proposals, decisions of experiments, champion and challengers | `evaluate_drift`, `promote`, `retire`, `advance`, `reject`, `judge`, `consider_promotion` |
| Supervisor `services/supervisor/` | last heartbeat per service, incidents | `report`, `overall`, `report_fault`, `resume` |
| Books `packages/common/ledger.py`, `settlement.py`, `pit_store.py`, `services/cost_manager` | lots and cost basis, pending settlements, records by time of receipt, costs | `record_fill`, `process_settlements`, `put`, `get_as_of`, `record`, corporate actions |
| News `services/news/engine.py` | last day of each headline | `process` |
| Cell statistics and governor `services/capital_cells/` | none | correlation, breadth, tail risk, score, ranking, reserves, creation review |
| `apps/`, `scripts/`, quant, regime, LLM client | none that the order path reads back | views, demo loops, indicators, HTTP |

### How they interact

Everything runs in one thread. `run_session` first calls
`manage_open_positions`, which makes the broker re-try its resting orders, lets
the engine poll the ones it believes open and books the new fills. It then turns
candidates into sized, allocated and audited proposals, and for each one in turn
asks the risk controller for an approval, freezes a snapshot, submits it, books
its fills on the ledger and submits a protective stop through the same path.
Between sessions the broker settles cash, `reconcile` compares the ledger with
the broker, and a human may put the risk controller back to NORMAL. The engine
and reconciliation write the risk state; the review reads it. The store and the
broker outlive the process; everything else dies with it.

The capital cells are a library. A caller reserves capital, nets a batch of cell
intents, applies the internal crosses, sends the residual to the broker, books
each fill on the master ledger, allocates it to the cells and reconciles the
sums.

### What is hard

* A crash between a store write and a broker call, or between a broker call and
  the write that records its answer.
* A broker that times out after accepting, disconnects between two calls of one
  handler, or fills half: outcomes become known late, through another code path
  than the one that placed the order.
* Several representations of one thing: state machine, store and book for an
  order; ledger and broker for cash; cells and master for a position.
* Quantities that are checked at one time and used at another: sizing against a
  view that earlier purchases of the session have changed, reservations against
  a position that fills shrink.
* Exceptions: models, auditors, quotes and the broker can fail at every call of a
  session, and each call site catches something else. Whatever was recorded by
  then stays.
* Callers that come late, twice or in another order: horizon tracking, stop
  grading, drift evaluation, settlements, heartbeats, news.
* Numbers at their edges: rounding of pro-rata shares, quantiles of few days,
  penalties on negative scores, windows of few bars.

`PROJECT.json` has the hazards one by one, at the line where each one bites.

## 2. Modules

| Module | Models | Notes |
|---|---|---|
| `OrderStates` | order states, transition whitelist, risk states, faults | shared vocabulary |
| `ExecutionEngine` | engine, state machine, store, broker's book | a handler is cut at every broker call and store write; `call` is its program counter; `Crash` may happen anywhere |
| `OrderOutcome` | what the durable record promises | abstract specification, implemented by `ExecutionEngine` |
| `TradingSession` | `run_session` from the first order on, broker matching and cash, ledger, reconciliation | money in whole ticks; a session is cut at its broker calls |
| `RiskGate` | `MasterRiskController.review`, drawdown ladder | constant-level operators on an intent and a view |
| `EntryFunnel` | sizing, allocation, one review per order, high-water mark | instance of `RiskGate` in motion |
| `DecisionSession` | `run_session` from the scan to the stop's submission with every early return and exception; audit, near misses, review queue, decision snapshots, provenance, audit rows; every wiring of environments, decision models and auditors | money and quantities are left to `TradingSession` and `EntryFunnel`, answers of models are free within what each adapter can return or raise |
| `SizingGuard` | anti-martingale guard and the risk kept in `open_stops` | over purchases, additions, stop-outs in parts and late remainders |
| `CellAlgorithms` | greedy match, net order, pro-rata allocation | pure; quantities in units of 1e-6 share, in lists with an entry per intent of the batch (0 for one that is on the other side or done) |
| `CellNetting` | reservation, netting, crosses, fills, budgets, cell reconciliation | uses `CellAlgorithms`; ledger legs are added up cell by cell before they are checked and posted |
| `CellStops` | stop registry and sell reservations | three scopes, fills by the caller's protocol |
| `CellStatistics`, `CellGovernor` | stress days, tail risk, risk contribution, clusters, alpha overlap, scale confidence; score, ranking, reserves, creation review, common dependencies | pure; exact fractions where the code has floats |
| `QualityTracking` | memoized price walk, horizon observations, grades of decisions, stop-outs and forecasts | callers come at any time and in any order |
| `Promotion` | feature lifecycle, exit proposals and experiments, champion and challenger, walk-forward windows of the judge | four independent state machines |
| `Supervision` | heartbeats, monitor and `/monitor`, incidents | messages delayed and reordered, services crash |
| `Books` | ledger with cost basis and fees under fills and corporate actions, project P&L, settlement, point-in-time store | exact fractions; three independent state machines |
| `Arithmetic` | nothing: running sums and exact fractions | the loops of `QualityTracking`, `CellGovernor`, `Books` and the cells add up with it |
| `History` | `QualityTracking` and `Books` side by side | has the action property on what both keep |
| `News` | de-duplication and clustering | batches from a feed up to the window late |
| `MCLibraries` | the components without interaction in one run | `part` says which one a behaviour is about |
| `MCSession` | sessions with a healthy broker, or one that fills in parts | adds the flag `healthy`, chosen once, and the fairness |
| `MC*` | small instances for TLC | constants only, and the reference definitions of the pure algorithms |
| `Counting` | nothing: lemmas on counts, sums, fractions, loops and induction up to n | shared by the proofs, section 5 |
| `ExecutionEngineProofs`, `TradingSessionProofs`, `DecisionSessionProofs`, `EntryFunnelProofs`, `CellProofs`, `LibraryProofs`, `HistoryProofs` | TLAPS proofs about the module of that name; `TradingSessionProofs` covers `MCSession`, `CellProofs` covers `CellAlgorithms` (against the references of `MCCellAlgorithms`) and `CellNetting`, `LibraryProofs` covers `Supervision`, `SizingGuard`, `News`, `Promotion`, `CellGovernor`, `CellStops` and `CellStatistics`, `HistoryProofs` covers `QualityTracking`, `Books` and `History` | section 5 |

**Correspondence of state.** In `ExecutionEngine`, `sm`, `submitted` and
`snapshots` are the dictionaries of the engine and its state machine, `store`
and `storeSnapshot` the columns of a row, `book` and `bookPayload` the broker's
orders, `calls` counts `broker.submit_order` calls (a history variable). The
intermediate states CREATED and RISK_APPROVED lie inside one step of `Submit`: no
broker call or store write separates them. An order's execution-relevant fields
are one payload value; a hash is equal exactly when payloads are; a signature is
valid exactly for approvals in `Approvals`.

In `TradingSession` an order is one record with the broker's state (`at`) and the
engine's (`sm`); `pc` says where `run_session` is. An exception that escapes
`run_session` (a disconnect in the poll that ends `submit` or in `get_fills`, a
refusal of the ledger, a missing quote) is a step to `idle` that leaves everything else as
the code leaves it. With `QuotesFail` a quote may be missing whenever one is asked for
(`QuoteMissing`): in the risk view of an entry or of its stop, or in the paper broker's
own `quote_fn`. There the broker has put the order in its book and tries no match, and the
sweep of the resting orders stops at the first order without a quote
(`SessionStartBlind`), with what it filled until then booked by nobody in this session. The scanner, Decision AI, skeptic and audit only decide whether an
entry is attempted, so any attempt may be made.

`DecisionSession` is the same handler seen from the other side: `pc` is the line
`run_session` is at, `todo` and `sized` its lists, `traded` and `explained` what the
result says, `log`, `misses` and `reviews` the audit log, `snaps` the decision
snapshots, `prov` the provenance chain, and `critical` the integrity engine's issue
list, which nothing clears. `config` is the wiring chosen by
`build_llm_stack` and the pipeline's constructor. The two views share no variable:
what the broker does to an order is a free outcome here and a mechanism there.

Two conventions serve the proofs. A loop of the code whose result a theorem needs is a
recursive function of the number of rounds (`Polls`, `Managed`, `Allocations`,
`Refills`, `Screened`, `Sums`, `Rolls`, `WalkOn`, `ObserveLoop`, `RunningSum`, `Matching`, `Merging`),
with the body of the loop as an operator of its own (`Screen`, `Roll`, `MatchStep`, `Visit`). A sum of quantities over orders, cells or symbols is the number
of its units: `Stopped(s)`, for example, counts the pairs of an order and a share of it.

Definitions marked *fault-injected variant* in a comment are what a plausible
mistake would make of the definition after them. They are used by no
specification; each property is known to fail when its variant takes the place
of the original.

## 3. Runs

Passing runs:

| Run | Shows | Bounds, and why they are enough |
|---|---|---|
| `exec_crash` | store never behind the broker, one submission per id, the broker works what was approved, no outcome is invented, UNKNOWN keeps entries halted; refinement of `OrderOutcome` | 2 orders (an entry and a stop), 4 approvals with two payloads, 2 crashes (a crash during the recovery from a crash); the theorems lift the bounds |
| `exec_live` | the sweep over open orders never aborts, and a stop that ended at the broker is noticed, also after a restart and a recovery | same orders, 1 crash; `check_stale_orders`, which only tests call, is off |
| `session` | with a broker that answers: ledger and broker agree between sessions and the ledger can book what is still to come (`LedgerFollowsBroker`); `open_stops` lives as long as its position; with whole fills every share has a working stop (`HealthyIsStopped`); a stop whose price is reached is sold and booked | 2 symbols, up to 6 orders (entries with their stops, additions to a position), quotes above and below the stop, cash for two entries so that the cash limit and a fee-only shortage occur, whole and half fills in any session |
| `decisions` | sessions, decisions and attempts are accounted for exactly once; only what was passed by an audit is sent, in every wiring; what reached the broker is traceable, in memory and on disk; an unprotected entry is reported | 2 symbols, 1 new position per session (so that proposals are dropped), one flaw of each severity class, every combination of environments, decision model and auditor; sessions follow one another in one process |
| `session_faults` | stops never add up to more than is held; at most one entry in doubt per reset | all four fault conditions, switching at any step, quotes moving during the session or missing at any point of it, 1 reset; cash for exactly two entries and no fees, which are in `session` |
| `funnel` | caps after every purchase, exits open under every MASTER STOP, lockout until rebase | the repository's percentages, 2 symbols of one theme, entries filling whole or by half, 2 price moves (enough for drawdowns over 20 %), one thing wrong at a time for an entry and everything at once for an exit |
| `libraries` | sixteen independent parts, one per behaviour; see below | all small inputs of the pure parts; the other parts have bounds under which every action fires and the variants of section 2 are caught: two cells with a stop plan per scope, two symbols, two exits filled in parts (the next stop is asked for while both are open), two services, two late heartbeats, six contributions over windows of two, four bookings over two symbols, settlements and records over four days, horizons of 0 to 3 days |
| `cell_netting` | cells and master differ by exactly the fills the cells refused, and `reconcile` halts for nothing else; a sale that claims what no earlier one does is never refused, at whatever price and however it is cut | batches of 3 intents of 2 cells, two orders in flight (with one, no two sales compete), one unit of cash per cell and fills at twice the price (so that cells refuse purchases the master has booked), budgets handed out and clawed back |

The properties of `libraries` are conjunctions with one named part per promise; the
first two rows are both about `CellStops`:

| Property | Parts |
|---|---|
| `NoDoubleClaim` | no share is claimed by two exits |
| `StopCanFire` | without a partly filled exit, a stop of any scope can fire |
| `CellMathIsExact` | crosses are the overlaps of stacked demands; the residual is the net; shares add up to the fill (up to three intents) and stay within demand |
| `EstimatesArePrudent` | the stress regime is the worst of the days; shortfall is at least VaR and grows into the tail; risk contributions add up to one; clusters are connected components; no more alphas than cells; a farther projection is never surer |
| `CapitalIsPrudent` | a worse cell never ranks higher, below zero too; capital adds up; doubt gets nothing extra; a common dependency is found |
| `VerdictsOfThePath` | a price is that of its day whoever asked; an observation looks at no later day; grades are those of the decisive horizon; stop and forecast verdicts those of the week |
| `ProductionIsEarned` | every demotion has a window of its own; adoption, evidence and approver go together; a champion had its sessions; no bar is trained and tested on |
| `TroubleIsSeen` | a service that is down too long is not healthy, with heartbeats late and out of order; an anomaly is reported; major incidents need a human |
| `MoneyAddsUp` | the accounting identity through splits, dividends and renamings; costs are subtracted once; no sale of the last day is spendable |
| `GuardSeesThePosition` | the guard of INV-10 sees at least the risk a position still had |
| `NewsOncePerWindow` | a headline is news once within the window |
| `HistoryIsKept` | action property: observations are neither lost nor changed; what the point-in-time store knew stays known |

Runs that find a documented promise broken (each is a finding in
`PROJECT.json`, which quotes the promise):

| Run | What TLC shows |
|---|---|
| `exec_recover_stuck` | the process dies after the insert; the broker fills the order; the recovered order is SUBMITTED, `poll_order` raises and `resolve_unknown` does nothing |
| `session_remainder` | the second half of an entry fills at the next sync and has no stop |
| `cell_allocate_many` | rounded shares of four intents add up to more than a tiny fill |
| `cell_overdraw` | the reservation of a netted purchase compares with the cash of the whole account; the cell it is for has not the cash, and refuses the fill |

Several properties are stated for less than one might wish, because the code
gives no more. The reasons, each a hazard in `PROJECT.json` with its line:

* CANCEL_REQUESTED is never mirrored into the store, so after a crash inside
  `check_stale_orders` a recovered order can make the sweep raise
  (`SyncNeverAborts` is claimed without stale-order control).
* A stop that fills on arrival is never booked (`LedgerFollowsBroker` is claimed for quotes
  that stand still inside a session), and one cut off by a disconnect is recorded
  in `open_stops` all the same.
* `reconcile` is silent about open orders, and HALT_NEW_ENTRIES does not cancel
  working remainders.
* A remainder that fills in a later session is in no exposure figure, so it can
  take its theme over the cap (`CapsHold` is about the entries of the session).
* A partly filled exit keeps its whole reservation (`StopCanFire` excludes such
  states), and a cell's own sale ignores the reservations of its exits.
* `net` does not know what earlier batches still have to sell, so that with two in flight
  two plans can sell the same shares. `rivals` has the sales this happened to, and
  `SalesStayFillable` is about the others. Nothing compares a purchase with its cell's own
  cash (`cell_overdraw`): the cells may refuse a fill that the master has booked, and
  `SumsAgree` says by how much the two then differ.
* A `submit` that a missing quote ends inside the paper broker leaves the order SUBMITTED
  and halts nothing; a later sweep may fill it, but the engine polls no SUBMITTED order, so
  nobody books the fill (`LedgerFollowsBroker`, `OpenStopsMatchHoldings` and
  `HealthyIsStopped` are claimed for quotes that are there).
* Proposals that allocation accepts beyond `max_new_positions` are neither sent nor
  recorded (`OneStance` excludes them; no property covers that hazard).
* An exception in `submit` or `get_fills` cuts off the order in hand
  (`TraceableUnlessCut` excludes the last record of such a session), and an
  optional audit whose model fails ends the session.
* A stop whose submission was lost counts as placed: `UnprotectedIsReported` is
  about stops that were refused or that raised.
* Only the deterministic auditor compares the symbol asked about with the one
  answered about (`WrongSymbolNotSent`).
* A renaming onto a held symbol overwrites that lot; the accounting identity has
  the lost cost as a term of its own.
* The risk recorded for a symbol only grows until it is flat, so the guard's bound
  may exceed any single trade's risk.
* An older OK heartbeat may hide a newer ERROR for as long as it is fresh, and a
  service that never reported is not missed.
* A news item later than the window can be news twice.

Deadlock checking is on in every run but `libraries`, whose pure parts have no next
step and whose others stop at their bounds.

Each property is refuted by at least one fault-injected variant, a conjunction
by variants that break its parts one by one.

## 4. Fairness

`ExecutionEngine!Fairness`: a handler that has begun goes on (the engine is
single threaded and every handler ends), and `sync_open_orders` is called again
and again (every session begins with it). Nothing is assumed of the broker's
condition, of crashes, of recovery or of the optional handlers. `EndIsNoticed`
excuses a broker that is away and an order that a restart forgot and nobody has
recovered.

`MCSession!ModesSpec`: sessions keep being started and keep ending (`run_session` is
called day after day and always returns or raises). Quotes and partial fills are
under no assumption: `StopOutIsBooked` holds although the broker may fill a stop by
halves in any session.

## 5. Proofs

Every theorem holds for all values of the constants that satisfy the assumptions of
the module (`ConstAssumption`, `SessionAssumption`, ...), in particular for any number
of orders, sessions, crashes and days. The assumptions are types and ranges of
configuration values; symbols and cells are finitely many. The bounds of section 3 are
constants too, so the theorems lift them. Where a theorem has a hypothesis of its own it
is named below; each one is a condition under which the code keeps the promise, and
section 3 says what happens without it.

| Theorems | Of | Property |
|---|---|---|
| `TypeCorrect`, `NoOrphan`, `AtMostOnce`, `ApprovedOnly`, `OutcomesAgree`, `UnknownHalts`, `Refinement` | `ExecutionEngine` | all that `exec_crash` checks |
| `SyncCompletes` | `ExecutionEngine` | `SyncNeverAborts`, without a store or without `check_stale_orders` |
| `SessionTyped`, `StopsWithinHoldings`, `DoubtsBounded` | `TradingSession` | `TypeOK`, `StopsNeverOversell`, `UnknownEntriesBounded`, under every fault |
| `OpenStopsAreRight` | `TradingSession` | `OpenStopsMatchHoldings`, for a broker that does not disconnect and quotes that are there |
| `LedgerIsTheBrokers`, `HealthyShareIsStopped` | `TradingSession`, `MCSession` | `LedgerFollowsBroker`, `HealthyIsStopped`, for a broker that answers and quotes that are there and stand still inside a session |
| `SentEntriesWerePassed`, `SentOrdersAreTraceable`, `UnprotectedEntriesAreReported`, `EverythingIsAccounted` | `DecisionSession` | all that `decisions` checks |
| `FunnelTyped`, `CapsAreKept`, `ExitsStayOpen`, `LockoutHolds` | `EntryFunnel`, `RiskGate` | all that `funnel` checks; `LockedUntilRebase` is an action property |
| `TypeCorrect`, `NoShareClaimedTwice`, `StopsCanFire` | `CellStops` | `StopsTyped`, `NoDoubleClaim`, `StopCanFire` |
| `TroubleIsAlwaysSeen`, `GuardAlwaysSees`, `NewsIsOncePerWindow`, `ProductionAlwaysEarned` | `Supervision`, `SizingGuard`, `News`, `Promotion` | their part of `libraries` |
| `CapitalIsAlwaysPrudent` | `CellGovernor` | `CapitalIsPrudent` |
| `EstimatesAlwaysPrudent` | `CellStatistics` | `EstimatesArePrudent` |
| `CellMathAlwaysExact` | `CellAlgorithms` | `CellMathIsExact`: the match for batches of any length, the allocation for up to three intents |
| `NettingTypeCorrect` | `CellNetting` | `NettingTyped`, for batches of up to three intents |
| `CellsAddUp` | `CellNetting` | `SumsAgree`, for batches of up to three intents, any number of orders in flight and budgets that may be clawed back |
| `SalesAlwaysFillable` | `CellNetting` | `SalesStayFillable`, under the same hypothesis |
| `VerdictsAreOfThePath`, `ObservationsAreKept` | `QualityTracking` | `VerdictsOfThePath`; an observation is neither lost nor changed |
| `MoneyAlwaysAddsUp` | `Books` | `MoneyAddsUp` |
| `PastIsAlwaysFixed`, `HistoryIsAlwaysKept` | `Books`, `History` | what the point-in-time store knew stays known; with `ObservationsAreKept`, the action property `HistoryIsKept` |

None of the invariants is inductive alone. What each proof adds:

**Engine.** `IInv` adds

* `HandlerInv`, what a half-run handler relies on: between the insert and the
  broker call the snapshot in memory is an approval of this order and the one in
  the row, the broker has not seen the order and it was never sent; during
  `submit` the row says SUBMITTED, which is why writing UNKNOWN, REJECTED or
  ACKNOWLEDGED over it never takes an outcome back; a refusal that is not yet
  recorded is already in the book;
* `RecordInv`, an id without a row has left no trace at the broker (this is what
  makes the retry after a crash safe), and one with a row was sent at most once,
  as its snapshot says;
* `KnownInv`, the state machine has every order of this process.

The step proof has one case per action and conjunct group. The refinement maps the
book to the truth and the store to the record and uses `IInv` in every step that
writes one of them: `SubmitAcked`, for example, is a stutter because the row was
SUBMITTED, hence open. `SyncCompletes` rests on `FollowInv`: whatever state the machine
or the store has for an open order, the broker's is reachable from it. A cancel by
`check_stale_orders` is in the machine and not in the store, so a restart forgets it:
hence the hypothesis.

**Session.** `SafeInv` says what `run_session` holds in its hands at each of its broker
calls (`PlaceInv`): a fill not yet booked is the first of the broker's list and belongs to
the order in hand; once it is booked and before its stop is sent, the shares of the
working stops and the new ones together are within both positions. That is what the
submission of a stop needs, and it survives `manage_open_positions` because a stop gives
up as many units as the position loses. `DoubtInv` (an entry is approved only under
NORMAL, and a doubt ends NORMAL) gives the bound on UNKNOWN entries, `KeepInv` that
`open_stops` has every working stop but the one in hand, `FollowInv` that the ledger
differs from the broker by the fill in hand only, and `HealthInv` that what no stop covers
is in hand. A disconnect breaks `KeepInv` (an exception between the stop and its record),
a timeout `FollowInv` (a fill nobody books), and so do moving quotes (a stop that fills
on arrival) and missing ones (a sweep cut off at the broker, a submission that rests
without an answer). `SafeInv` and `DoubtInv` survive all of them: a cut sweep only shrinks
the stops with the position, and an order taken in without a match is one the engine has sent
but for which it holds no fill.

**Decisions.** `LogInv` follows the record in hand from audit to fills: the last record of
the log is the one `run_session` works on, all earlier ones are complete. `AccountInv` adds
where each symbol of the session is (undecided, queued, sized, dropped or recorded), so
that exactly one stance and one fate are left when the session returns.

**Funnel.** `FunnelInv` adds `QueueFits`: the queued orders are one per symbol, each sized
within its position cap. The cap of a theme is not implied by it (orders are sized against
the same room); it is kept because each is reviewed again on arrival. The lockout is an
action property: equity of an account in cash does not move, and only a rebase lowers the
mark.

**Cell arithmetic.** The buys are laid end to end on one line and the sells on another. `MatchInv`
says that the match has walked both lines up to the same point: what is behind it is done, what
lies ahead is untouched, the two heads have what sticks out beyond the point (`SideInv`), and the
crosses so far are the overlaps that begin before the point, in order (`CrossInv`). A step moves
the point by the smaller rest, to the end of a stretch, and in as many rounds as there are buys and
sells a side is over. The allocation is exact because of three claims two are rounded, each by
at most a half, so that the last share is neither negative nor more than it claims: the bound of
three intents is the code's, and `cell_allocate_many` shows what four do.

**Cell netting.** `LegInv`: at every step of the match, for every cell, what it has crossed and
what it is left with add up to what it asked for; hence the legs of the crosses cancel out over
the cells, and what an order owes is what its cells did not cross. With the exact allocation, a
fill moves the sums of the cells by what it moves the master, or is refused and counted:
`DriftIsRecorded` says that cells, `refused` and master add up, and it needs nothing else.
That a sale is not refused rests on `SalesHeld`: for every cell, what all open sales that are
no rivals still owe it is, in sum, within its position. A new batch either fits beside
them or makes rivals of them; a cross sells only what the same check has counted; a fill takes
the same units from the claim and from the position; a refused one takes them from the claim
alone. Purchases have no such invariant, as `cell_overdraw` shows.

**Cell stops.** `BalanceInv`: the master ledger has the units of its cells and the reservation
ledger was told so; `RowsInv`: no exit has more left than it reserved.

**Libraries.** `SupervisionInv`: no heartbeat, in flight or reported, is younger than its
service's crash. `GuardInv`: after a loss there is a risk on record, and
`RiskOf` changes with one lot at a time. `NewsInv`: what is known of a headline is as
late as its last telling and not in the future; together with a feed that is at most the
window late this puts a late duplicate close to the last telling.
`FeatureInv` (windows paid for so far end at the last demotion), `ProposalInv` (the evidence
of the stage reached), `ShadowInv` (whoever became the first champion still has its gain,
or more than its sessions), and for the judge `WalkedTo`, the invariant of the loop of
`walk_forward_windows`, with a second induction that the loop ends within n rounds
because a test has at least one bar.

**Governor.** `CapitalIsPrudent` is about pure functions, so its proof has no induction over
steps: that a worse cell never ranks higher is monotonicity of the score in each argument
(the confidence factor changes sides where the score is negative), that capital adds up is
a fact on the sum of the allotments.

**Statistics.** `EstimatesArePrudent` is about pure functions too. A day's place in the sorted
order is the number of days worse than it; no two days have the same, so the order is a
permutation (`Sorts`) and a sum does not depend on it, and the mean of the first entries of an
ascending list is at most that of more of them. A variance is not negative, so that contributions
are quotients with a positive denominator, among which there is a lowest and a highest. For the
clusters, `MergedBy` is the invariant of the loop over the pairs: the parents are a forest
(after as many steps up as there are items that are no root, everybody is at a root), no part of
a tree is without a similar pair to the rest of it, and the pairs visited that are similar have one
root; in the end the trees are the connected components. With Factor = 1 a projection just
outside the range is surer than one inside unless the range is small (4/5 against
(lo - 1)/lo); targets are bounded by 3 * Factor, where that does not happen.

**Quality.** `QInv` says that the memoized walk has, for each day it has reached, the price of
the path (`PriceOf`), however far the earlier caller went and whatever it asked for; that an
observation was made at or after its horizon and is the path's at the horizon; and that grades
and verdicts were computed from observations that will not change. The horizons are observed
by a loop, and the invariant of that loop is that of the state.

**Books.** `LedgerInv`: lots are of positive quantity, and
`cash + cost of the lots + cost lost in renamings = initial + realized + dividends - fees`.
Every booking changes one lot, so the sum over the lots changes by one term; the fractions
are compared over a common denominator (`Val` of `Counting`), which turns each booking into an
identity of products of integers. `SettlementInv`: settled, pending and spent money add up,
today's sales are pending for tomorrow and nothing for later. `StoreInv`: no
record was received later than now, so a new one goes behind all that are there (the sorted
insertion appends) and no answer for an earlier time changes.

`Counting` has the facts all of them share: sums as cardinalities (a unit added,
taken or handed over; a sum bounded owner by owner), sums of the entries of a function (one
entry changed, bounds entry by entry), fractions over a common denominator, induction up to
n for a set, and `LoopExists`, by which a recursive function over the rounds of a loop has its
defining equation and keeps the type its body keeps.

Only model-checked, and why:

* `EndIsNoticed`, `StopOutIsBooked`: liveness under fairness is outside the prover's reach.

## 6. Plan

Modelled: the order path (engine, store, broker, session, ledger, reconciliation),
the decision path (scan, decision, skeptic, audit, risk, records), the risk gate and
the funnel, the cells, and the libraries around them. Proved: every safety property of the
passing runs. What is left is `CellNetting` with fees and several symbols.

## 7. Not modelled

* Human intent: a stateless builder of proposals; only tests call it.
* LLM client and usage: one HTTP call without retry and counters. Its failures are
  exceptions of the adapters in `DecisionSession`. Prompts and texts are data.
* Quant, regime and backtest: indicators and a simulation in floating point. The
  replay loop runs sessions and settles, as `TradingSession` does.
* Statistics in floating point (Pearson, OLS, eigenvalues, Monte Carlo, deflated
  Sharpe), stop and gap formulas, spread and correlation penalties: inputs of the
  modules that use them. Floating-point drift and the tolerances that absorb it are
  not modelled: quantities are whole units or exact fractions and tolerances exact
  comparisons.
* Alpaca market data, universe, event calendar, time zones: HTTP and lookups.
* The integrity engine's single checks: comparisons of floats; their verdict is free.
* Attribution, daily grades, shadow portfolios, report text, `DataRoi`,
  `CommonModeFailoverGuard`, `FeatureStore.put`/`latest`, the institutional engine:
  sums, quotients or conjunctions without state that another part reads.
* API endpoints but `/monitor`, dashboard, scripts: views and demo loops.
* LIMIT orders, since nothing submits one; virtual P&L of the cells.
