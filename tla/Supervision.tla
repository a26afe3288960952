----------------------------- MODULE Supervision -----------------------------
(***************************************************************************)
(* Watching the system: heartbeats of the services                         *)
(* (services/supervisor/heartbeat.py), the Monitor AI behind the /monitor  *)
(* panel (services/decision/monitor.py, claude_adapters.py,                *)
(* apps/api/main.py) and incidents (services/supervisor/recovery.py).      *)
(*                                                                         *)
(* A heartbeat carries the time it was sent and may be delivered late and  *)
(* out of order; services crash.  The risk state, drawdown (percent) and   *)
(* near misses the monitor also looks at are inputs.                       *)
(***************************************************************************)
EXTENDS Integers, FiniteSets

CONSTANTS
  Service,
  Stale,     \* stale_after, in ticks
  MaxTime,   \* bound on the clock
  MaxFlight, \* bound on heartbeats under way
  MaxFault   \* bound on incidents

ASSUME SupervisionAssumption == Stale \in Nat /\ MaxTime \in Nat

VARIABLES
  time,      \* the clock
  down,      \* when a service crashed, or -1
  flight,    \* heartbeats sent and not yet reported
  latest,    \* HeartbeatRegistry._latest: a function on the services known
  incidents  \* RecoveryManager.incidents

svars == <<time, down, flight, latest, incidents>>

ServiceStatus == {"OK", "WARNING", "ERROR"}

-----------------------------------------------------------------------------
TickClock ==
  /\ time < MaxTime /\ time' = time + 1
  /\ UNCHANGED <<down, flight, latest, incidents>>

Crash(s) ==
  /\ down[s] = -1 /\ down' = [down EXCEPT ![s] = time]
  /\ UNCHANGED <<time, flight, latest, incidents>>

Restart(s) ==
  /\ down[s] # -1 /\ down' = [down EXCEPT ![s] = -1]
  /\ UNCHANGED <<time, flight, latest, incidents>>

Send(s, st) ==
  /\ down[s] = -1 /\ Cardinality(flight) < MaxFlight
  /\ flight' = flight \cup {[service |-> s, at |-> time, status |-> st]}
  /\ UNCHANGED <<time, down, latest, incidents>>

\* Fault-injected variant: the time of a heartbeat is that of its arrival.
ReportArrived(hb) ==
  /\ hb \in flight /\ flight' = flight \ {hb}
  /\ latest' = [s \in DOMAIN latest \cup {hb.service} |->
                  IF s = hb.service THEN [hb EXCEPT !.at = time] ELSE latest[s]]
  /\ UNCHANGED <<time, down, incidents>>

\* report: the last to arrive replaces what is there, an older one too.
Report(hb) ==
  /\ hb \in flight /\ flight' = flight \ {hb}
  /\ latest' = [s \in DOMAIN latest \cup {hb.service} |->
                  IF s = hb.service THEN hb ELSE latest[s]]
  /\ UNCHANGED <<time, down, incidents>>

\* A silent service is a failed service.
StatusOf(s) ==
  IF s \notin DOMAIN latest \/ time - latest[s].at > Stale THEN "ERROR" ELSE latest[s].status

Overall ==
  LET all == IF latest = [s \in {} |-> 0] THEN {"ERROR"} ELSE {StatusOf(s) : s \in DOMAIN latest}
  IN  IF "ERROR" \in all THEN "ERROR" ELSE IF "WARNING" \in all THEN "WARNING" ELSE "OK"

\* Not known to the code: the service crashed more than stale_after ago.
TooLongDown(s) == down[s] # -1 /\ time - down[s] > Stale

-----------------------------------------------------------------------------
Unhealthy == {s \in DOMAIN latest : StatusOf(s) # "OK"}

\* anomaly_present
AnomalyPresent(c) ==
  Unhealthy # {} \/ c.drawdown >= 20 \/ c.risk # "NORMAL" \/ c.misses

\* MockMonitorModel.review: the worst severity, in tenths, decides.
Severities(c) ==
  {IF StatusOf(s) = "ERROR" THEN 9 ELSE 5 : s \in Unhealthy}
  \cup (IF c.drawdown >= 30 THEN {10} ELSE IF c.drawdown >= 20 THEN {6} ELSE {})
  \cup (IF c.risk # "NORMAL" THEN {7} ELSE {})
  \cup (IF c.misses THEN {4} ELSE {})

\* Fault-injected variant: nothing below a human review is said.
MockReviewQuiet(c) ==
  IF \E x \in Severities(c) : x >= 9 THEN "ESCALATE_SAFE_EXIT"
  ELSE IF \E x \in Severities(c) : x >= 5 THEN "QUEUE_HUMAN_REVIEW" ELSE "CONTINUE_MONITORING"

MockReview(c) ==
  IF Severities(c) = {} THEN "CONTINUE_MONITORING"
  ELSE IF \E x \in Severities(c) : x >= 9 THEN "ESCALATE_SAFE_EXIT"
  ELSE IF \E x \in Severities(c) : x >= 5 THEN "QUEUE_HUMAN_REVIEW" ELSE "NOTIFY"

\* MonitorSupervisor.review: an exception or a malformed answer becomes a review.
\* ClaudeMonitorModel may recommend anything, or raise.
Recommendations == {"CONTINUE_MONITORING", "NOTIFY", "QUEUE_HUMAN_REVIEW", "ESCALATE_SAFE_EXIT"}
SupervisorReview(c, model) ==
  {r \in Recommendations :
     \/ model = "mock"   /\ r = MockReview(c)
     \/ model = "claude"
     \/ model = "failed" /\ r = "QUEUE_HUMAN_REVIEW"}

\* GET /monitor, which keeps nothing: what it may answer; nobody is asked while
\* there is nothing to see.
MonitorStatus(c, model) ==
  IF AnomalyPresent(c) THEN SupervisorReview(c, model) ELSE {"CONTINUE_MONITORING"}

-----------------------------------------------------------------------------
ReportFault(sev) ==
  /\ Cardinality(incidents) < MaxFault
  /\ incidents' = incidents \cup {[id |-> Cardinality(incidents) + 1, severity |-> sev,
                                   resolved |-> FALSE, human |-> FALSE]}
  /\ UNCHANGED <<time, down, flight, latest>>

\* Fault-injected variant: once reviewed by anybody, an incident may be resumed.
ResumeAnyway(i, approved) ==
  /\ incidents' = (incidents \ {i}) \cup {[id |-> i.id, severity |-> i.severity,
                                          resolved |-> TRUE, human |-> approved]}
  /\ UNCHANGED <<time, down, flight, latest>>

\* resume raises for a major fault that no human has approved; it may be called
\* again for what is resolved.
Resume(i, approved) ==
  /\ i.severity = "MAJOR" => approved
  /\ incidents' = (incidents \ {i}) \cup {[id |-> i.id, severity |-> i.severity,
                                          resolved |-> TRUE, human |-> approved]}
  /\ UNCHANGED <<time, down, flight, latest>>

-----------------------------------------------------------------------------
\* What may be amiss besides heartbeats, at the monitor's thresholds.
Contexts ==
  [risk: {"NORMAL", "HALT_NEW_ENTRIES"}, drawdown: {19, 20, 30}, misses: BOOLEAN]

SInit ==
  /\ time = 0 /\ down = [s \in Service |-> -1] /\ flight = {}
  /\ latest = [s \in {} |-> 0] /\ incidents = {}

WatchNext ==
  \/ TickClock
  \/ \E s \in Service : Crash(s) \/ Restart(s) \/ \E st \in ServiceStatus : Send(s, st)
  \/ \E hb \in flight : Report(hb)

IncidentNext ==
  \/ \E sev \in {"MINOR", "MAJOR"} : ReportFault(sev)
  \/ \E i \in incidents, h \in BOOLEAN : Resume(i, h)

SupervisionSpec == SInit /\ [][WatchNext \/ IncidentNext]_svars

-----------------------------------------------------------------------------
\* Sections 66 to 68: however late and in whatever order heartbeats arrive, a service
\* that has been down for longer than stale_after is not reported healthy, and the
\* whole is OK only if every service known sent an OK within that time.
SilentIsFailed ==
  /\ \A s \in Service : TooLongDown(s) => StatusOf(s) = "ERROR"
  /\ Overall = "OK" => /\ DOMAIN latest # {}
                       /\ \A s \in DOMAIN latest : latest[s].status = "OK"
                                                   /\ latest[s].at >= time - Stale

\* Section 66: whatever is amiss when /monitor is asked, an answer given by the
\* deterministic monitor or in place of one that failed is not "continue", in a calm
\* system it is, and a known service that is down for too long is escalated by the
\* deterministic one.
AnomalyIsReported ==
  \A c \in Contexts :
    LET says == MonitorStatus(c, "mock")
        calm == Unhealthy = {} /\ c.drawdown < 20 /\ c.risk = "NORMAL" /\ ~c.misses
    IN  /\ "CONTINUE_MONITORING" \in says \cup MonitorStatus(c, "failed") <=> calm
        /\ (\E s \in DOMAIN latest : TooLongDown(s)) => says = {"ESCALATE_SAFE_EXIT"}

\* Section 69: a major incident is resolved only with a human's approval, which a
\* later call without one does not take back.
MajorNeedsHuman == \A i \in incidents : i.severity = "MAJOR" /\ i.resolved => i.human

\* Sections 66 to 69 together: silence, anomalies and major incidents are neither
\* overlooked nor waved through.
TroubleIsSeen == SilentIsFailed /\ AnomalyIsReported /\ MajorNeedsHuman

=============================================================================
