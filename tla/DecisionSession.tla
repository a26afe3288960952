--------------------------- MODULE DecisionSession ---------------------------
(***************************************************************************)
(* What run_session decides and writes down (services/pipeline.py): the    *)
(* scanner's candidates pass the data gate (data_validation/integrity.py), *)
(* the Decision AI, the skeptic, loss control, sizing and allocation; an   *)
(* accepted one passes the independent audit (decision/audit.py) and the   *)
(* risk review, and is sent.  Along the way it leaves a decision snapshot  *)
(* (pdca/decision_quality.py), a provenance record, a pre-trade record,    *)
(* near misses and human reviews (pdca/audit_log.py) and a durable row     *)
(* (packages/common/durable_store.py).                                     *)
(*                                                                         *)
(* The order path itself is TradingSession's: here submit returns any      *)
(* state or raises.  Numbers are left out, so sizing, allocation and risk  *)
(* refuse at will.  Of the records only those of the running session are   *)
(* kept; nothing writes an older one again.  One session is run per day.   *)
(***************************************************************************)
EXTENDS Integers, FiniteSets, Sequences, SequencesExt

CONSTANTS
  Sym,       \* the universe
  MaxNew,    \* max_new_positions
  FlawSets   \* what may be wrong with a BUY decision: sets of audit checks

\* With no position to open a session could end without a trade or a reason.
ASSUME DecisionAssumption == MaxNew \in Nat \ {0} /\ IsFiniteSet(Sym)

Stance   == {"BUY", "SELL", "HOLD", "WAIT", "NO_TRADE", "AVOID"}
Verdicts == {"PASS", "REJECT", "REVIEW"}
NoAudit  == [by |-> "unset", verdict |-> "unset"]

\* How far the provenance record of a candidate has come.
Chain == [none |-> 0, opened |-> 1, output |-> 2, skeptic |-> 3, thesis |-> 4, stop_plan |-> 5,
          position_size |-> 6, risk_decision |-> 7, order_ref |-> 8]
Reached(p, f) == Chain[p] >= Chain[f]

VARIABLES
  config,    \* the component graph: environments, the AI behind each role
  held,      \* symbols of Ledger.positions
  critical,  \* DataIntegrityEngine.health is HALT_ENTRIES
  pc,        \* where run_session is
  todo,      \* candidates still to be decided
  sized,     \* sized_candidates, then the accepted ones still to be handled
  dropped,   \* accepted beyond max_new_positions
  traded, explained,   \* PipelineResult: orders_filled > 0; no_trade_reasons
  aborted,   \* an exception has left run_session
  prov,      \* ProvenanceStore
  snaps,     \* DecisionQualityEngine._snapshots
  log,       \* PreTradeAuditLog.records, with the durable row of each
  misses,    \* PreTradeAuditLog.near_misses
  reviews    \* PreTradeAuditLog.human_review_queue

result == <<traded, explained, aborted>>
funnel == <<todo, sized, dropped>>
vars == <<config, held, critical, pc, funnel, result, prov, snaps, log, misses, reviews>>

-----------------------------------------------------------------------------
\* What the AI behind a role may answer.  The Anthropic adapter turns every
\* failure into LLMCallError, and the SDK has already validated the rest; the
\* OpenAI wire schema has no validator for the return range.
MockDecide   == {"BUY", "WAIT", "NO_TRADE"}
ClaudeDecide == Stance \cup {"unavailable"}
OpenAIDecide == Stance \cup {"unavailable", "malformed"}
Answers ==
  [m \in {"mock", "claude", "openai"} |->
     IF m = "mock" THEN MockDecide ELSE IF m = "claude" THEN ClaudeDecide ELSE OpenAIDecide]

\* MockAuditModel: the severity of each check, in tenths; the worst one decides.
Severity ==
  [symbol_match |-> 10, side_match |-> 10, quantity_consistency |-> 10,
   quantity_magnitude |-> 10, stop_exists |-> 10, stop_direction |-> 10,
   horizon_stop_consistency |-> 6, confidence_size_consistency |-> 4,
   stale_signal |-> 8, thesis_consistency |-> 5]

\* Fault-injected variant: only two conflicts together are a REJECT.
MockAuditLenient(flaws) ==
  LET worst == {f \in flaws : Severity[f] >= 5}
  IN  IF Cardinality(worst) >= 2 THEN "REJECT" ELSE "PASS"

MockAudit(flaws) ==
  IF \E f \in flaws : Severity[f] >= 8 THEN "REJECT"
  ELSE IF \E f \in flaws : Severity[f] >= 5 THEN "REVIEW" ELSE "PASS"

\* ClaudeAuditModel lets every exception through.
ClaudeAudit == Verdicts \cup {"malformed", "error"}

AuditAnswers(c) ==
  IF config.auditor = "mock" THEN {MockAudit(c.flaws)}
  ELSE IF config.auditor = "claude" THEN ClaudeAudit ELSE {"none"}

\* record_audit_rejection
NearMissKind(check) ==
  CASE check = "side_match" -> "WRONG_SIDE"
    [] check \in {"quantity_consistency", "quantity_magnitude"} -> "QUANTITY_ERROR"
    [] check = "symbol_match" -> "SYMBOL_MISMATCH"
    [] check = "stop_exists" -> "NO_STOP"
    [] check = "stale_signal" -> "STALE_ORDER"
    [] OTHER -> "OTHER"
KindsOf(flaws) == IF flaws = {} THEN {"OTHER"} ELSE {NearMissKind(f) : f \in flaws}

\* _is_mandatory.  The pipeline passes no trigger context, so audit_required
\* is false.
Mandatory == config.auditEnv = "LIVE" \/ config.auditAll

\* IndependentAuditor.audit with the model's answer a
Audit(a) ==
  IF config.auditor = "none" THEN (IF Mandatory THEN "unavailable" ELSE "PASS")
  ELSE IF a = "error" THEN (IF Mandatory THEN "unavailable" ELSE "raise")
  ELSE IF a = "malformed" THEN (IF config.auditEnv = "LIVE" THEN "unavailable" ELSE "REJECT")
  ELSE a

\* Fault-injected variant: components of different environments may be wired.
AnyEnvironment(envs) == TRUE

RequireSameEnvironment(envs) == Cardinality(envs) = 1

Configs ==
  {c \in [env: {"PAPER", "LIVE"}, auditEnv: {"PAPER", "LIVE"}, auditAll: BOOLEAN,
          auditor: {"mock", "claude", "none"}, decider: DOMAIN Answers] :
     RequireSameEnvironment({c.env, c.auditEnv})}

-----------------------------------------------------------------------------
\* A pre-trade record as PreTradeAuditLog.open and the steps after it leave it; `row'
\* is its copy in the DurableAuditStore, `wrong' that the decision was about another
\* symbol (nothing but the audit compares them).
Opened(s, exit, wrong, audit, risk, sent, final) ==
  [sym |-> s, exit |-> exit, wrong |-> wrong, audit |-> audit, risk |-> risk, hash |-> sent,
   submitted |-> sent, final |-> final, fills |-> FALSE, row |-> final # "unset"]

\* The same record with its final state, its fills and its durable row
\* (DurableAuditStore.upsert) written.
Persisted(r, final, fills, row) ==
  [sym |-> r.sym, exit |-> r.exit, wrong |-> r.wrong, audit |-> r.audit, risk |-> r.risk,
   hash |-> r.hash, submitted |-> r.submitted, final |-> final, fills |-> fills, row |-> row]

Fresh ==
  /\ todo' = <<>> /\ sized' = <<>> /\ dropped' = {}
  /\ traded' = FALSE /\ explained' = FALSE /\ aborted' = FALSE
  /\ prov' = [s \in Sym |-> "none"]
  /\ log' = <<>> /\ misses' = {} /\ reviews' = {}

Init ==
  /\ config \in Configs
  /\ held = {} /\ critical = FALSE /\ pc = "new"
  /\ todo = <<>> /\ sized = <<>> /\ dropped = {}
  /\ traded = FALSE /\ explained = FALSE /\ aborted = FALSE
  /\ prov = [s \in Sym |-> "none"]
  /\ snaps = {} /\ log = <<>> /\ misses = {} /\ reviews = {}

\* An exception nobody catches ends the session where it is.
Abort == pc' = "idle" /\ aborted' = TRUE /\ UNCHANGED <<traded, explained>>

\* A reason is appended to no_trade_reasons.
Explain == explained' = TRUE /\ UNCHANGED <<traded, aborted>>

\* _record_decision and DecisionQualityEngine.record
RecordDecision(s, kind) == snaps' = snaps \cup {<<s, kind>>}

Note(s, f) == prov' = [prov EXCEPT ![s] = f]

\* manage_open_positions: stopped-out symbols leave the ledger and each sale is
\* recorded as a decision.
SessionStart(out) ==
  /\ pc \in {"new", "idle"} /\ pc' = "scan"
  /\ Fresh
  /\ held' = held \ out
  /\ snaps' = {<<s, "SELL">> : s \in out}
  /\ UNCHANGED <<config, critical>>

ScannedNothing ==
  /\ pc = "scan" /\ pc' = "idle" /\ Explain
  /\ UNCHANGED <<config, held, critical, funnel, prov, snaps, log, misses, reviews>>

\* DataIntegrityEngine.health once bars and quotes are validated: an issue is
\* never cleared.
HaltEntries(bad) == critical \/ bad

\* The data gate: every candidate's bars and quote are validated; those without
\* a quote are left out, the others stay in the scanner's order.
Gate(noQuote, gated, bad) ==
  /\ pc = "scan"
  /\ critical' = HaltEntries(bad)
  /\ todo' = SubSeq(gated, 1, IF Len(gated) < 3 * MaxNew THEN Len(gated) ELSE 3 * MaxNew)
  /\ explained' = (noQuote # {})
  /\ pc' = IF gated = <<>> THEN "idle" ELSE "decide"
  /\ UNCHANGED <<config, held, sized, dropped, traded, aborted, prov, snaps, log, misses, reviews>>

-----------------------------------------------------------------------------
\* One candidate after the other.
Deciding == pc = "decide" /\ todo # <<>>
Cand == Head(todo)
Can(a) == a \in Answers[config.decider]
NextCand == todo' = Tail(todo) /\ UNCHANGED <<config, held, critical, pc, dropped, log, reviews>>

\* MalformedDecisionError or LLMCallError: no decision, no trade.
NoDecision ==
  /\ Deciding /\ (Can("malformed") \/ Can("unavailable"))
  /\ Note(Cand, "opened") /\ Explain /\ NextCand
  /\ UNCHANGED <<sized, snaps, misses>>

\* A SELL of what is not held is the model's error.
SellUnheld ==
  /\ Deciding /\ Can("SELL") /\ Cand \notin held
  /\ Note(Cand, "output") /\ Explain /\ RecordDecision(Cand, "AVOID")
  /\ misses' = misses \cup {[stage |-> "AUDIT", sym |-> Cand, order |-> 0, kind |-> "WRONG_SIDE"]}
  /\ NextCand /\ UNCHANGED sized

\* Every other stance but BUY, a SELL of a held symbol included, is recorded as
\* NO_TRADE and leaves no reason.
NoOrder(a) ==
  /\ Deciding /\ Can(a) /\ a \in Stance \ {"BUY"} /\ (a = "SELL" => Cand \in held)
  /\ Note(Cand, "output") /\ RecordDecision(Cand, "NO_TRADE")
  /\ NextCand /\ UNCHANGED <<sized, result, misses>>

\* A BUY that gets no further than stage f of the chain.
Refuse(f) ==
  /\ Deciding /\ Can("BUY")
  /\ Note(Cand, f) /\ Explain /\ RecordDecision(Cand, "AVOID")
  /\ NextCand /\ UNCHANGED <<sized, misses>>

\* The skeptic vetoes; one that cannot be reached counts as a veto.
SkepticVetoes == Refuse("skeptic")

\* NoStopPlanError: no ATR, a stop below zero or too far away.
NoStopPlan == Refuse("thesis")

\* SizingRejected
SizeRefused == Refuse("stop_plan")

\* The decision becomes a sized proposal.
Size(flaws) ==
  /\ Deciding /\ Can("BUY")
  /\ Note(Cand, "position_size")
  /\ sized' = Append(sized, [sym |-> Cand, flaws |-> flaws])
  /\ NextCand /\ UNCHANGED <<result, snaps, misses>>

\* No quote for the entry price or for a held symbol to be marked, or a base
\* case without a description (StopPlan.thesis must not be empty): the exception
\* is caught nowhere.
CandidateAborts ==
  /\ Deciding /\ Can("BUY")
  /\ Note(Cand, "thesis") /\ Abort
  /\ UNCHANGED <<config, held, critical, funnel, snaps, log, misses, reviews>>

\* Fault-injected variant: no reason is given when all stances were quiet.
DecidedQuietly ==
  /\ pc = "decide" /\ todo = <<>>
  /\ pc' = IF sized = <<>> THEN "idle" ELSE "allocate"
  /\ UNCHANGED <<config, held, critical, funnel, result, prov, snaps, log, misses, reviews>>

Decided ==
  /\ pc = "decide" /\ todo = <<>>
  /\ pc' = IF sized = <<>> THEN "idle" ELSE "allocate"
  /\ explained' = (explained \/ sized = <<>>)
  /\ UNCHANGED <<config, held, critical, funnel, traded, aborted, prov, snaps, log, misses,
                 reviews>>

\* Fault-injected variant: skipped proposals leave a reason but no snapshot.
AllocateUnrecorded(rank) ==
  LET n == IF Len(rank) < MaxNew THEN Len(rank) ELSE MaxNew
  IN  /\ pc = "allocate" /\ pc' = "orders"
      /\ sized' = SubSeq(rank, 1, n)
      /\ dropped' = {rank[i].sym : i \in n + 1 .. Len(rank)}
      /\ explained' = (explained \/ Len(rank) < Len(sized))
      /\ UNCHANGED <<config, held, critical, todo, traded, aborted, prov, snaps, log, misses,
                     reviews>>

\* allocate ranks the proposals and skips those that do not fit; of the accepted
\* only the first max_new_positions are handled.
Allocate(rank) ==
  LET skipped == {c.sym : c \in ToSet(sized) \ ToSet(rank)}
      n       == IF Len(rank) < MaxNew THEN Len(rank) ELSE MaxNew
  IN  /\ pc = "allocate" /\ pc' = "orders"
      /\ sized' = SubSeq(rank, 1, n)
      /\ dropped' = {rank[i].sym : i \in n + 1 .. Len(rank)}
      /\ snaps' = snaps \cup {<<s, "WAIT">> : s \in skipped}
      /\ explained' = (explained \/ skipped # {})
      /\ UNCHANGED <<config, held, critical, todo, traded, aborted, prov, log, misses, reviews>>

-----------------------------------------------------------------------------
\* One accepted proposal after the other; its pre-trade record is opened first.
Handling == pc = "orders" /\ sized # <<>>
Prop == Head(sized)
New(audit, risk, sent) ==
  Opened(Prop.sym, FALSE, "symbol_match" \in Prop.flaws, audit, risk, sent, "unset")
This == Len(log) + 1
Done == sized' = Tail(sized) /\ UNCHANGED <<config, held, critical, pc, todo, dropped>>
Miss(stage, s, n, kinds) ==
  misses' = misses \cup {[stage |-> stage, sym |-> s, order |-> n, kind |-> k] : k \in kinds}

Audited(a, v) == Handling /\ a \in AuditAnswers(Prop) /\ Audit(a) = v
Result(v) == [by |-> config.auditor, verdict |-> v]

AuditUnavailable(a) ==
  /\ Audited(a, "unavailable")
  /\ log' = Append(log, New(NoAudit, "unset", FALSE)) /\ Miss("AUDIT", Prop.sym, This, {"OTHER"})
  /\ Explain /\ RecordDecision(Prop.sym, "AVOID") /\ Done
  /\ UNCHANGED <<prov, reviews>>

\* An audit that is not mandatory re-raises what its model raised.
AuditRaises(a) ==
  /\ Audited(a, "raise")
  /\ log' = Append(log, New(NoAudit, "unset", FALSE)) /\ Abort
  /\ UNCHANGED <<config, held, critical, funnel, prov, snaps, misses, reviews>>

\* REVIEW: parked for a human, not sent.
AuditReview(a) ==
  /\ Audited(a, "REVIEW")
  /\ log' = Append(log, New(Result("REVIEW"), "unset", FALSE))
  /\ reviews' = reviews \cup {<<This, "pending">>}
  /\ Explain /\ RecordDecision(Prop.sym, "AVOID") /\ Done
  /\ UNCHANGED <<prov, misses>>

\* REJECT: a near miss for every conflict the auditor names, taken to be the
\* flaws the decision has.
AuditReject(a) ==
  /\ Audited(a, "REJECT")
  /\ log' = Append(log, New(Result("REJECT"), "unset", FALSE))
  /\ Miss("AUDIT", Prop.sym, This, IF a = "malformed" THEN {"OTHER"} ELSE KindsOf(Prop.flaws))
  /\ Explain /\ RecordDecision(Prop.sym, "AVOID") /\ Done
  /\ UNCHANGED <<prov, reviews>>

\* _risk_view needs a quote for the symbol and for every held one.
RiskViewFails(a) ==
  /\ Audited(a, "PASS")
  /\ log' = Append(log, New(Result("PASS"), "unset", FALSE)) /\ Abort
  /\ UNCHANGED <<config, held, critical, funnel, prov, snaps, misses, reviews>>

\* Fault-injected variant: a risk rejection is no near miss.
RiskRejectsSilently(a) ==
  /\ Audited(a, "PASS")
  /\ log' = Append(log, New(Result("PASS"), "failed", FALSE))
  /\ Note(Prop.sym, "risk_decision")
  /\ Explain /\ RecordDecision(Prop.sym, "AVOID") /\ Done
  /\ UNCHANGED <<reviews, misses>>

RiskRejects(a) ==
  /\ Audited(a, "PASS")
  /\ log' = Append(log, New(Result("PASS"), "failed", FALSE))
  /\ Note(Prop.sym, "risk_decision") /\ Miss("RISK", Prop.sym, This, {"OTHER"})
  /\ Explain /\ RecordDecision(Prop.sym, "AVOID") /\ Done
  /\ UNCHANGED reviews

\* The review passes, which it does not with critical data; snapshot, hash and
\* broker_submitted are written before the order is sent.
Approve(a) ==
  /\ Audited(a, "PASS") /\ ~critical
  /\ log' = Append(log, New(Result("PASS"), "passed", TRUE))
  /\ Note(Prop.sym, "risk_decision") /\ RecordDecision(Prop.sym, "BUY")
  /\ pc' = "submit"
  /\ UNCHANGED <<config, held, critical, funnel, result, misses, reviews>>

\* execution.submit raises: final_state is never written.
SubmitRaises ==
  /\ pc = "submit" /\ Abort
  /\ UNCHANGED <<config, held, critical, funnel, prov, snaps, log, misses, reviews>>

\* The order ended without a fill; its record is persisted.
SubmitEnds(state) ==
  /\ pc = "submit" /\ pc' = "orders"
  /\ log' = [log EXCEPT ![Len(log)] = Persisted(@, state, FALSE, TRUE)]
  /\ Note(Prop.sym, "order_ref") /\ Explain /\ sized' = Tail(sized)
  /\ UNCHANGED <<config, held, critical, todo, dropped, snaps, misses, reviews>>

SubmitFills(state) ==
  /\ pc = "submit" /\ pc' = "fills"
  /\ log' = [log EXCEPT ![Len(log)] = Persisted(@, state, FALSE, FALSE)]
  /\ Note(Prop.sym, "order_ref")
  /\ UNCHANGED <<config, held, critical, funnel, result, snaps, misses, reviews>>

\* get_fills raises: nothing is booked and the record is not persisted.
FillsUnavailable ==
  /\ pc = "fills" /\ Abort
  /\ UNCHANGED <<config, held, critical, funnel, prov, snaps, log, misses, reviews>>

\* Fault-injected variant: the record is persisted only once the stop is placed.
BookFillsUnpersisted ==
  /\ pc = "fills" /\ pc' = "protect"
  /\ held' = held \cup {Prop.sym}
  /\ log' = [log EXCEPT ![Len(log)] = Persisted(@, @.final, TRUE, FALSE)]
  /\ traded' = TRUE /\ sized' = Tail(sized)
  /\ UNCHANGED <<config, critical, todo, dropped, explained, aborted, prov, snaps, misses, reviews>>

BookFills ==
  /\ pc = "fills" /\ pc' = "protect"
  /\ held' = held \cup {Prop.sym}
  /\ log' = [log EXCEPT ![Len(log)] = Persisted(@, @.final, TRUE, TRUE)]
  /\ traded' = TRUE /\ sized' = Tail(sized)
  /\ UNCHANGED <<config, critical, todo, dropped, explained, aborted, prov, snaps, misses, reviews>>

\* place_protective_stop for the entry just booked (the last record): its own
\* review and record.  The view needs a quote for every held symbol.
Entry == log[Len(log)].sym
Stop(state) == Opened(Entry, TRUE, FALSE, NoAudit, "passed", TRUE, state)

StopPlaced(state) ==
  /\ pc = "protect" /\ pc' = "orders"
  /\ log' = Append(log, Stop(state))
  /\ UNCHANGED <<config, held, critical, funnel, result, prov, snaps, misses, reviews>>

\* Fault-injected variant: a refused stop is only a reason, not a near miss.
StopRefusedSilently ==
  /\ pc = "protect" /\ pc' = "orders" /\ Explain
  /\ UNCHANGED <<config, held, critical, funnel, prov, snaps, log, misses, reviews>>

StopRefused ==
  /\ pc = "protect" /\ pc' = "orders"
  /\ Miss("RISK", Entry, 0, {"NO_STOP"}) /\ Explain
  /\ UNCHANGED <<config, held, critical, funnel, prov, snaps, log, reviews>>

StopAborts(sent) ==
  /\ pc = "protect" /\ Abort
  /\ log' = IF sent THEN Append(log, Stop("unset")) ELSE log
  /\ UNCHANGED <<config, held, critical, funnel, prov, snaps, misses, reviews>>

SessionEnds ==
  /\ pc = "orders" /\ sized = <<>> /\ pc' = "idle"
  /\ UNCHANGED <<config, held, critical, funnel, result, prov, snaps, log, misses, reviews>>

\* resolve_human_review by a named reviewer: the item is closed, nothing else.
ResolveReview(n, reviewer) ==
  /\ reviewer # "nobody" /\ <<n, "pending">> \in reviews
  /\ reviews' = (reviews \ {<<n, "pending">>}) \cup {<<n, "resolved">>}
  /\ UNCHANGED <<config, held, critical, pc, funnel, result, prov, snaps, log, misses>>

Decide ==
  \/ NoDecision \/ SellUnheld
  \/ \E a \in Stance : NoOrder(a)
  \/ SkepticVetoes \/ NoStopPlan \/ SizeRefused
  \/ \E f \in FlawSets : Size(f)
  \/ CandidateAborts \/ Decided

Handle ==
  \/ \E a \in ClaudeAudit \cup {"none"} :
       \/ AuditUnavailable(a) \/ AuditRaises(a) \/ AuditReview(a) \/ AuditReject(a)
       \/ RiskViewFails(a) \/ RiskRejects(a) \/ Approve(a)
  \/ SubmitRaises
  \/ \E st \in {"ACKNOWLEDGED", "REJECTED", "UNKNOWN"} : SubmitEnds(st)
  \/ \E st \in {"FILLED", "PARTIALLY_FILLED"} : SubmitFills(st)
  \/ FillsUnavailable \/ BookFills
  \/ \E st \in {"ACKNOWLEDGED", "UNKNOWN"} : StopPlaced(st)
  \/ StopRefused
  \/ \E sent \in BOOLEAN : StopAborts(sent)
  \/ SessionEnds

Next ==
  \/ \E out \in SUBSET held : SessionStart(out)
  \/ ScannedNothing
  \/ \E S \in (SUBSET Sym) \ {{}}, bad \in BOOLEAN : \E n \in SUBSET S :
       \E gated \in SetToSeqs(S \ n) : Gate(n, gated, bad)
  \/ Decide
  \/ \E S \in SUBSET ToSet(sized) : \E rank \in SetToSeqs(S) : Allocate(rank)
  \/ Handle
  \/ \E n \in DOMAIN log, r \in {"nobody", "human"} : ResolveReview(n, r)

Spec == Init /\ [][Next]_vars

-----------------------------------------------------------------------------
\* run_session has returned, or has been left by an exception.
Over  == pc = "idle"
Ended == Over /\ ~aborted

\* Section 93 (ReplayReport.all_sessions_accounted): a session that returns has
\* traded or says why not, whichever mix of stances, outages, vetoes, refusals
\* and skipped allocations it went through.
AccountedFor == Ended => traded \/ explained

Stances(s) == {k \in Stance \ {"SELL"} : <<s, k>> \in snaps}

\* A1-1: every decision the model made is snapshotted with exactly one stance.
\* The exception is what the code leaves out: proposals that allocation accepted
\* beyond max_new_positions are neither sent nor recorded.
OneStance ==
  Ended => \A s \in Sym :
    Cardinality(Stances(s)) =
      IF Reached(prov[s], "output") /\ s \notin dropped THEN 1 ELSE 0

\* is_fully_traceable
FullyTraceable(r) ==
  r.submitted => /\ r.audit # NoAudit \/ r.exit
                 /\ r.risk # "unset" /\ r.hash /\ r.final # "unset"

\* A5 and F7: whatever happened in the session, an order that reached the broker
\* has its full chain, in memory and in the durable store, and only such orders
\* have a row.  An exception in submit or get_fills cuts off the last one.
TraceableUnlessCut ==
  Over => \A i \in DOMAIN log :
    \/ FullyTraceable(log[i]) /\ log[i].row = log[i].submitted
    \/ aborted /\ i = Len(log)

\* Section 9: no entry is sent without a PASS, and in LIVE the PASS was given by
\* a model: neither an absent auditor, an outage, a malformed answer nor any
\* wiring of the components lets an unaudited order through.
SentWasPassed ==
  \A i \in DOMAIN log :
    log[i].submitted /\ ~log[i].exit =>
      /\ log[i].audit.verdict = "PASS"
      /\ config.env = "LIVE" => log[i].audit.by # "none"

\* The decision model may answer about another symbol than it was asked about;
\* with the deterministic auditor no such decision becomes an order.
WrongSymbolNotSent ==
  config.auditor = "mock" => \A i \in DOMAIN log : log[i].submitted => ~log[i].wrong

\* What has become of an attempt to enter.
Fates(i) ==
  {k \in {"sent", "review", "miss"} :
     \/ k = "sent" /\ log[i].submitted
     \/ k = "review" /\ \E r \in reviews : r[1] = i
     \/ k = "miss" /\ \E m \in misses : m.order = i}

\* A6 and section 8: every attempt is accounted for exactly once: it was sent, it
\* is in the human review queue (resolved or not: resolving releases nothing),
\* or it is a near miss.
AttemptsAddUp ==
  Ended => \A i \in DOMAIN log : log[i].exit \/ Cardinality(Fates(i)) = 1

\* INV-15: an entry that filled is followed by its protective stop; if the stop
\* was refused there is a near miss saying so, and otherwise an exception has
\* just told the caller.
UnprotectedIsReported ==
  Over => \A i \in DOMAIN log :
    log[i].fills =>
      \/ i < Len(log) /\ log[i + 1].exit /\ log[i + 1].sym = log[i].sym
      \/ \E m \in misses : m.kind = "NO_STOP" /\ m.stage = "RISK" /\ m.sym = log[i].sym
      \/ aborted /\ i = Len(log)

\* Sessions, decisions and attempts are all accounted for, each exactly once.
NothingUnaccounted == AccountedFor /\ OneStance /\ AttemptsAddUp

\* Whatever the models answer and however the components are wired, what is sent
\* was passed, and is what the decision was about.
OnlyPassedIsSent == SentWasPassed /\ WrongSymbolNotSent

=============================================================================
