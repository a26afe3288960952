---------------------------- MODULE LibraryProofs ----------------------------
(***************************************************************************)
(* Proofs about the components that run beside the trading session:        *)
(* supervision, the anti-martingale guard, news, what may reach            *)
(* production, and the governor, the statistics and the stops of the cells.*)
(***************************************************************************)
EXTENDS Supervision, SizingGuard, News, Promotion, CellGovernor, CellStatistics, CellStops,
        Counting, SequenceTheorems

-----------------------------------------------------------------------------
(* Supervision.                                                            *)

Beat == [service: Service, at: Nat, status: ServiceStatus]

SupervisionTypes ==
  /\ time \in Nat
  /\ down \in [Service -> Int]
  /\ flight \subseteq Beat
  /\ DOMAIN latest \subseteq Service /\ latest \in [DOMAIN latest -> Beat]

\* No heartbeat, under way or reported, was sent after its service crashed.
NoLateBeat ==
  \A s \in Service : down[s] # -1 =>
    /\ \A hb \in flight : hb.service = s => hb.at <= down[s]
    /\ s \in DOMAIN latest => latest[s].at <= down[s]

\* No heartbeat comes from the future.
BeatsArePast ==
  /\ \A hb \in flight : hb.at <= time
  /\ \A s \in DOMAIN latest : latest[s].at <= time

\* The inductive invariant of supervision.
SupervisionInv == SupervisionTypes /\ NoLateBeat /\ BeatsArePast /\ MajorNeedsHuman

\* The invariant holds at the start.
LEMMA SupervisionInit == SInit => SupervisionInv
BY DEF SInit, SupervisionInv, SupervisionTypes, NoLateBeat, BeatsArePast, MajorNeedsHuman, Beat

\* Every step of the watch and of the incidents keeps the invariant.
LEMMA SupervisionStep == SupervisionInv /\ [WatchNext \/ IncidentNext]_svars => SupervisionInv'
<1> SUFFICES ASSUME SupervisionInv, [WatchNext \/ IncidentNext]_svars PROVE SupervisionInv'
  OBVIOUS
<1> USE DEF SupervisionInv, SupervisionTypes, NoLateBeat, BeatsArePast, MajorNeedsHuman, Beat
<1>1. CASE TickClock
  BY <1>1 DEF TickClock
<1>2. ASSUME NEW s \in Service, Crash(s) PROVE SupervisionInv'
  BY <1>2 DEF Crash
<1>3. ASSUME NEW s \in Service, Restart(s) PROVE SupervisionInv'
  BY <1>3 DEF Restart
<1>4. ASSUME NEW s \in Service, NEW st \in ServiceStatus, Send(s, st) PROVE SupervisionInv'
  BY <1>4 DEF Send
<1>5. ASSUME NEW hb \in flight, Report(hb) PROVE SupervisionInv'
  BY <1>5 DEF Report
<1>6. ASSUME NEW sev \in {"MINOR", "MAJOR"}, ReportFault(sev) PROVE SupervisionInv'
  BY <1>6 DEF ReportFault
<1>7. ASSUME NEW i \in incidents, NEW h \in BOOLEAN, Resume(i, h) PROVE SupervisionInv'
  BY <1>7 DEF Resume
<1>8. CASE UNCHANGED svars
  BY <1>8 DEF svars
<1> QED
  BY <1>1, <1>2, <1>3, <1>4, <1>5, <1>6, <1>7, <1>8 DEF WatchNext, IncidentNext

\* A service that is down for too long is in error, and nothing is called well on
\* the word of a heartbeat that is too old.
LEMMA SilenceIsFailure == SupervisionInv => SilentIsFailed
<1> SUFFICES ASSUME SupervisionInv PROVE SilentIsFailed
  OBVIOUS
<1>0. Stale \in Nat
  BY SupervisionAssumption
<1> USE DEF SupervisionInv, SupervisionTypes, NoLateBeat, BeatsArePast, Beat
<1>1. ASSUME NEW s \in Service, TooLongDown(s) PROVE StatusOf(s) = "ERROR"
  BY <1>0, <1>1 DEF TooLongDown, StatusOf
<1>2. ASSUME Overall = "OK"
      PROVE  /\ DOMAIN latest # {}
             /\ \A s \in DOMAIN latest : latest[s].status = "OK" /\ latest[s].at >= time - Stale
  <2>1. latest # [s \in {} |-> 0]
    BY <1>2 DEF Overall
  <2>2. DOMAIN latest # {}
    BY <2>1
  <2>3. \A s \in DOMAIN latest : StatusOf(s) \notin {"ERROR", "WARNING"}
    BY <1>2, <2>1 DEF Overall
  <2>4. ASSUME NEW s \in DOMAIN latest
        PROVE  latest[s].status = "OK" /\ latest[s].at >= time - Stale
    BY <1>0, <2>3 DEF StatusOf, ServiceStatus
  <2> QED
    BY <2>2, <2>4
<1> QED
  BY <1>1, <1>2 DEF SilentIsFailed

\* The deterministic monitor says "continue" of nothing but calm, and a known
\* service that is down for too long makes it escalate.
LEMMA TroubleIsAnswered == SupervisionInv => AnomalyIsReported
<1> SUFFICES ASSUME SupervisionInv, NEW c \in Contexts
             PROVE  LET says == MonitorStatus(c, "mock")
                        calm == Unhealthy = {} /\ c.drawdown < 20 /\ c.risk = "NORMAL" /\ ~c.misses
                    IN  /\ "CONTINUE_MONITORING" \in says \cup MonitorStatus(c, "failed") <=> calm
                        /\ (\E s \in DOMAIN latest : TooLongDown(s)) => says = {"ESCALATE_SAFE_EXIT"}
  BY DEF AnomalyIsReported
<1>0. c.drawdown \in Int /\ c.misses \in BOOLEAN
  BY DEF Contexts
<1> DEFINE calm == Unhealthy = {} /\ c.drawdown < 20 /\ c.risk = "NORMAL" /\ ~c.misses
<1>1. AnomalyPresent(c) <=> ~calm
  BY <1>0 DEF AnomalyPresent
<1>2. calm => MonitorStatus(c, "mock") = {"CONTINUE_MONITORING"}
  BY <1>1 DEF MonitorStatus
<1>3. ~calm => Severities(c) # {}
  <2>1. ASSUME NEW s \in Unhealthy PROVE Severities(c) # {}
    BY DEF Severities
  <2>2. CASE c.drawdown >= 20
    BY <1>0, <2>2 DEF Severities
  <2>3. CASE c.risk # "NORMAL" \/ c.misses
    BY <2>3 DEF Severities
  <2> QED
    BY <1>0, <2>1, <2>2, <2>3
<1>4. ~calm => /\ MonitorStatus(c, "mock") = {MockReview(c)}
               /\ MonitorStatus(c, "failed") = {"QUEUE_HUMAN_REVIEW"}
               /\ MockReview(c) # "CONTINUE_MONITORING"
  <2> SUFFICES ASSUME ~calm
               PROVE  /\ MonitorStatus(c, "mock") = {MockReview(c)}
                      /\ MonitorStatus(c, "failed") = {"QUEUE_HUMAN_REVIEW"}
                      /\ MockReview(c) # "CONTINUE_MONITORING"
    OBVIOUS
  <2>1. MockReview(c) \in Recommendations \ {"CONTINUE_MONITORING"}
    BY <1>3 DEF MockReview, Recommendations
  <2>2. /\ SupervisorReview(c, "mock") = {MockReview(c)}
        /\ SupervisorReview(c, "failed") = {"QUEUE_HUMAN_REVIEW"}
    BY <2>1 DEF SupervisorReview, Recommendations
  <2> QED
    BY <1>1, <2>1, <2>2 DEF MonitorStatus
<1>5. ASSUME NEW s \in DOMAIN latest, TooLongDown(s)
      PROVE  MonitorStatus(c, "mock") = {"ESCALATE_SAFE_EXIT"}
  <2>1. StatusOf(s) = "ERROR"
    BY <1>5, SilenceIsFailure DEF SilentIsFailed, SupervisionInv, SupervisionTypes
  <2>2. s \in Unhealthy
    BY <2>1 DEF Unhealthy
  <2>3. 9 \in Severities(c)
    BY <2>1, <2>2 DEF Severities
  <2>4. MockReview(c) = "ESCALATE_SAFE_EXIT"
    BY <2>3 DEF MockReview
  <2> QED
    BY <1>4, <2>2, <2>4
<1> QED
  BY <1>2, <1>4, <1>5 DEF MonitorStatus

\* However late and reordered heartbeats arrive and whoever crashes when, silence,
\* anomalies and major incidents are neither overlooked nor waved through.
THEOREM TroubleIsAlwaysSeen == SupervisionSpec => []TroubleIsSeen
<1>1. SInit => SupervisionInv
  BY SupervisionInit
<1>2. SupervisionInv /\ [WatchNext \/ IncidentNext]_svars => SupervisionInv'
  BY SupervisionStep
<1>3. SupervisionInv => TroubleIsSeen
  BY SilenceIsFailure, TroubleIsAnswered DEF TroubleIsSeen, SupervisionInv
<1> QED
  BY <1>1, <1>2, <1>3, PTL DEF SupervisionSpec

-----------------------------------------------------------------------------
(* The anti-martingale guard.                                              *)

GuardTypes ==
  /\ atRisk \in [Names -> Seq(0..Budget)]
  /\ recorded \in [Names -> Nat]
  /\ last.loss \in BOOLEAN /\ last.risk \in Nat
  /\ since \in Nat /\ hit \in Nat

\* The inductive invariant of the guard: a loss always leaves a limit.
GuardInv == GuardTypes /\ GuardSeesThePosition /\ (last.loss => last.risk # 0)

\* The units of risk are finitely many.
LEMMA UnitsFinite ==
  ASSUME NEW D, IsFiniteSet(D), NEW lots
  PROVE  IsFiniteSet(UnitsOf(lots, D)) /\ Cardinality(UnitsOf(lots, D)) \in Nat
<1>1. Budget \in Int
  BY GuardAssumption
<1>2. IsFiniteSet(D \X (1..Budget))
  BY <1>1, SharesFinite
<1>3. UnitsOf(lots, D) \in SUBSET (D \X (1..Budget))
  BY DEF UnitsOf
<1> QED
  BY <1>2, <1>3, FS_Subset, FS_CardinalityType

\* A further lot adds at most its risk.
LEMMA UnitsOfMore ==
  ASSUME NEW D, IsFiniteSet(D), NEW n, NEW lots, NEW more, NEW r \in Nat, r <= Budget,
         \A j \in D : more[j] = lots[j], more[n] = r
  PROVE  Cardinality(UnitsOf(more, D \cup {n})) <= Cardinality(UnitsOf(lots, D)) + r
<1> DEFINE New == {n} \X (1..r)
<1>1. UnitsOf(more, D \cup {n}) \in SUBSET (UnitsOf(lots, D) \cup New)
  BY GuardAssumption DEF UnitsOf
<1>2. IsFiniteSet(New) /\ Cardinality(New) = r
  BY FirstShares
<1>3. IsFiniteSet(UnitsOf(lots, D)) /\ Cardinality(UnitsOf(lots, D)) \in Nat
  BY UnitsFinite
<1>4. IsFiniteSet(D \cup {n})
  BY FS_AddElement
<1>5. Cardinality(UnitsOf(more, D \cup {n})) \in Nat
  BY <1>4, UnitsFinite
<1> HIDE DEF New
<1>6. /\ IsFiniteSet(UnitsOf(lots, D) \cup New)
      /\ Cardinality(UnitsOf(lots, D) \cup New) <= Cardinality(UnitsOf(lots, D)) + r
  BY <1>2, <1>3, JoinCount
<1>7. Cardinality(UnitsOf(more, D \cup {n})) <= Cardinality(UnitsOf(lots, D) \cup New)
  BY <1>1, <1>6, FS_Subset
<1>8. Cardinality(UnitsOf(lots, D) \cup New) \in Nat
  BY <1>6, FS_CardinalityType
<1> QED
  BY <1>3, <1>5, <1>6, <1>7, <1>8

\* Selling of a lot takes risk away.
LEMMA UnitsOfLess ==
  ASSUME NEW D, IsFiniteSet(D), NEW lots, NEW less,
         \A j \in D : less[j] \in Int /\ lots[j] \in Int /\ less[j] <= lots[j]
  PROVE  Cardinality(UnitsOf(less, D)) <= Cardinality(UnitsOf(lots, D))
<1>1. UnitsOf(less, D) \in SUBSET UnitsOf(lots, D)
  BY GuardAssumption DEF UnitsOf
<1>2. IsFiniteSet(UnitsOf(lots, D))
  BY UnitsFinite
<1> QED
  BY <1>1, <1>2, FS_Subset

\* The lots of a symbol are numbered from one.
LEMMA RiskIsUnits ==
  ASSUME NEW lots \in Seq(0..Budget)
  PROVE  /\ Len(lots) \in Nat /\ DOMAIN lots = 1..Len(lots) /\ IsFiniteSet(1..Len(lots))
         /\ RiskOf(lots) = Cardinality(UnitsOf(lots, 1..Len(lots)))
         /\ RiskOf(lots) \in Nat
<1>1. Len(lots) \in Nat /\ DOMAIN lots = 1..Len(lots)
  BY LenProperties
<1>2. IsFiniteSet(1..Len(lots))
  BY <1>1, FS_Interval
<1>a. RiskOf(lots) = Cardinality(UnitsOf(lots, DOMAIN lots))
  BY DEF RiskOf
<1>3. RiskOf(lots) = Cardinality(UnitsOf(lots, 1..Len(lots)))
  BY <1>1, <1>a
<1> QED
  BY <1>1, <1>2, <1>3, UnitsFinite

\* The risk of a list of lots after a purchase, after a sale, and of none.
LEMMA RiskOfAppend ==
  ASSUME NEW lots \in Seq(0..Budget), NEW r \in 0..Budget
  PROVE  RiskOf(Append(lots, r)) <= RiskOf(lots) + r
<1> DEFINE more == Append(lots, r)
           n == Len(lots) + 1
<1>1. more \in Seq(0..Budget) /\ Len(more) = n /\ more[n] = r
      /\ \A j \in 1..Len(lots) : more[j] = lots[j]
  BY AppendProperties
<1>2. /\ Len(lots) \in Nat /\ IsFiniteSet(1..Len(lots))
      /\ RiskOf(lots) = Cardinality(UnitsOf(lots, 1..Len(lots)))
      /\ RiskOf(more) = Cardinality(UnitsOf(more, 1..Len(more)))
  BY <1>1, RiskIsUnits
<1>3. 1..Len(more) = (1..Len(lots)) \cup {n} /\ r \in Nat /\ r <= Budget
  BY <1>1, <1>2, GuardAssumption
<1> HIDE DEF more, n
<1>4. Cardinality(UnitsOf(more, (1..Len(lots)) \cup {n})) <= Cardinality(UnitsOf(lots, 1..Len(lots))) + r
  BY <1>1, <1>2, <1>3, UnitsOfMore
<1> QED
  BY <1>2, <1>3, <1>4 DEF more

\* A lot that shrinks takes no risk on.
LEMMA RiskOfLess ==
  ASSUME NEW lots \in Seq(0..Budget), NEW i \in 1..Len(lots), NEW r \in 0..Budget, r <= lots[i]
  PROVE  RiskOf([lots EXCEPT ![i] = r]) <= RiskOf(lots)
<1> DEFINE less == [lots EXCEPT ![i] = r]
<1>1. /\ less \in Seq(0..Budget) /\ Len(less) = Len(lots)
      /\ \A j \in 1..Len(lots) : less[j] = IF j = i THEN r ELSE lots[j]
  BY ExceptSeq
<1> HIDE DEF less
<1>2. /\ IsFiniteSet(1..Len(lots))
      /\ RiskOf(lots) = Cardinality(UnitsOf(lots, 1..Len(lots)))
      /\ RiskOf(less) = Cardinality(UnitsOf(less, 1..Len(lots)))
  BY <1>1, RiskIsUnits
<1>3. \A j \in 1..Len(lots) : less[j] \in 0..Budget /\ lots[j] \in 0..Budget
  BY <1>1, ElementOfSeq
<1>4. \A j \in 1..Len(lots) : less[j] \in Int /\ lots[j] \in Int /\ less[j] <= lots[j]
  <2> TAKE j \in 1..Len(lots)
  <2>1. less[j] \in Int /\ lots[j] \in Int
    BY <1>3, GuardAssumption
  <2>2. j = i => less[j] <= lots[j]
    BY <1>1
  <2>3. j # i => less[j] = lots[j]
    BY <1>1
  <2> QED
    BY <2>1, <2>2, <2>3
<1>5. Cardinality(UnitsOf(less, 1..Len(lots))) <= Cardinality(UnitsOf(lots, 1..Len(lots)))
  BY <1>2, <1>4, UnitsOfLess
<1> QED
  BY <1>2, <1>5 DEF less

\* Without lots there is no risk.
LEMMA RiskOfNone == RiskOf(<<>>) = 0
<1>1. <<>> \in Seq(0..Budget) /\ Len(<<>>) = 0
  BY EmptySeq
<1>2. RiskOf(<<>>) = Cardinality(UnitsOf(<<>>, 1..Len(<<>>)))
  BY <1>1, RiskIsUnits
<1>3. UnitsOf(<<>>, 1..0) = {}
  BY DEF UnitsOf
<1> QED
  BY <1>1, <1>2, <1>3, FS_EmptySet

\* Every step of the guard keeps its invariant.
LEMMA GuardStep == GuardInv /\ [GuardNext]_gvars => GuardInv'
<1> SUFFICES ASSUME GuardInv, [GuardNext]_gvars PROVE GuardInv'
  OBVIOUS
<1> USE DEF GuardInv, GuardTypes, GuardSeesThePosition
<1>0. \A s \in Names : RiskOf(atRisk[s]) \in Nat
  BY RiskIsUnits
<1>1. ASSUME NEW s \in Names, NEW budget \in 1..Budget, NEW lot \in 1..Budget,
             Enter(s, budget, lot)
      PROVE  GuardInv'
  <2>1. /\ SizedRisk(budget) \in Nat
        /\ last.loss => SizedRisk(budget) <= last.risk
    BY GuardAssumption DEF SizedRisk
  <2>2. since' \in Nat /\ (last.loss => since' <= last.risk)
    BY <1>1, <2>1 DEF Enter
  <2>3. CASE /\ atRisk' = [atRisk EXCEPT ![s] = Append(@, lot)]
             /\ recorded' = [recorded EXCEPT ![s] = RecordLot(s, lot)]
    <3>1. lot \in 0..Budget /\ lot \in Nat
      BY GuardAssumption
    <3>2. atRisk' \in [Names -> Seq(0..Budget)] /\ recorded' \in [Names -> Nat]
      BY <2>3, <3>1 DEF RecordLot
    <3>3. ASSUME NEW t \in Names PROVE RiskOf(atRisk'[t]) <= recorded'[t]
      <4>1. CASE t = s
        <5>1. RiskOf(Append(atRisk[s], lot)) <= RiskOf(atRisk[s]) + lot
          BY <3>1, RiskOfAppend
        <5>2. RiskOf(Append(atRisk[s], lot)) \in Nat
          BY <2>3, <3>2, RiskIsUnits
        <5>3. atRisk'[s] = Append(atRisk[s], lot) /\ recorded'[s] = recorded[s] + lot
          BY <2>3 DEF RecordLot
        <5> QED
          BY <1>0, <3>1, <4>1, <5>1, <5>2, <5>3
      <4>2. CASE t # s
        <5>1. atRisk'[t] = atRisk[t] /\ recorded'[t] = recorded[t]
          BY <2>3, <4>2
        <5> QED
          BY <5>1
      <4> QED
        BY <4>1, <4>2
    <3>4. UNCHANGED <<last, hit>>
      BY <1>1 DEF Enter
    <3> QED
      BY <2>2, <3>2, <3>3, <3>4
  <2>4. CASE UNCHANGED <<atRisk, recorded>>
    BY <1>1, <2>2, <2>4 DEF Enter
  <2> QED
    BY <1>1, <2>3, <2>4 DEF Enter
<1>2. ASSUME NEW s \in Names, Remainder(s) PROVE GuardInv'
  BY <1>2 DEF Remainder
<1>3. ASSUME NEW s \in Names, NEW sold \in 1..Budget, NEW loss \in BOOLEAN,
             NEW i \in DOMAIN atRisk[s], StopFill(s, i, sold, loss)
      PROVE  GuardInv'
  <2> DEFINE less == [atRisk[s] EXCEPT ![i] = @ - sold]
             over == RiskOf(less) = 0
             lots == IF over THEN <<>> ELSE less
  <2>1. /\ sold <= atRisk[s][i]
        /\ atRisk' = [atRisk EXCEPT ![s] = lots]
        /\ IF recorded[s] = 0 THEN UNCHANGED <<recorded, last, since, hit>>
           ELSE /\ last' = [loss |-> loss, risk |-> recorded[s]]
                /\ since' = 0 /\ hit' = RiskOf(atRisk[s])
                /\ recorded' = [recorded EXCEPT ![s] =
                                  IF over /\ s \notin bare THEN 0 ELSE recorded[s]]
    BY <1>3 DEF StopFill, TradeResult
  <2>a. atRisk[s] \in Seq(0..Budget)
    OBVIOUS
  <2>2. i \in 1..Len(atRisk[s]) /\ atRisk[s][i] \in 0..Budget
    BY <2>a, LenProperties, ElementOfSeq
  <2>3. atRisk[s][i] - sold \in 0..Budget /\ atRisk[s][i] - sold <= atRisk[s][i]
    <3>1. PICK lot \in 0..Budget : lot = atRisk[s][i]
      BY <2>2
    <3>2. sold \in Nat /\ sold <= lot
      BY <2>1, <2>2, <3>1, GuardAssumption
    <3> QED
      BY <3>1, <3>2, GuardAssumption
  <2>4. less \in Seq(0..Budget) /\ RiskOf(less) <= RiskOf(atRisk[s])
    <3> DEFINE r == atRisk[s][i] - sold
    <3>1. less = [atRisk[s] EXCEPT ![i] = r]
      BY <2>a
    <3>2. r \in 0..Budget /\ r <= atRisk[s][i]
      BY <2>3
    <3> HIDE DEF less, r
    <3>3. less \in Seq(0..Budget)
      BY <2>a, <2>2, <3>1, <3>2, ExceptSeq
    <3>4. RiskOf(less) <= RiskOf(atRisk[s])
      BY <2>a, <2>2, <3>1, <3>2, RiskOfLess
    <3> QED
      BY <3>3, <3>4
  <2>5. lots \in Seq(0..Budget) /\ RiskOf(lots) <= RiskOf(less) /\ (over => RiskOf(lots) = 0)
    <3>1. RiskOf(less) \in Nat
      BY <2>4, RiskIsUnits
    <3>2. <<>> \in Seq(0..Budget)
      BY EmptySeq
    <3>3. CASE over
      BY <3>1, <3>2, <3>3, RiskOfNone
    <3>4. CASE ~over
      BY <2>4, <3>1, <3>4
    <3> HIDE DEF lots
    <3> QED
      BY <3>3, <3>4
  <2>6. RiskOf(less) \in Nat /\ RiskOf(lots) \in Nat
    BY <2>4, <2>5, RiskIsUnits
  <2> HIDE DEF less, over, lots
  <2>7. atRisk' \in [Names -> Seq(0..Budget)] /\ atRisk'[s] = lots
        /\ \A t \in Names \ {s} : atRisk'[t] = atRisk[t]
    BY <2>1, <2>5
  <2>8. CASE recorded[s] = 0
    <3>1. UNCHANGED <<recorded, last, since, hit>>
      BY <2>1, <2>8
    <3>2. \A t \in Names : RiskOf(atRisk'[t]) <= recorded[t]
      <4>1. RiskOf(atRisk[s]) <= recorded[s] /\ recorded[s] \in Nat
        OBVIOUS
      <4>2. RiskOf(atRisk'[s]) <= recorded[s]
        BY <1>0, <2>4, <2>5, <2>6, <2>7, <4>1
      <4>3. \A t \in Names \ {s} : RiskOf(atRisk'[t]) <= recorded[t]
        BY <2>7
      <4> QED
        BY <4>2, <4>3
    <3> QED
      BY <2>7, <3>1, <3>2
  <2>9. CASE recorded[s] # 0
    <3>1. /\ recorded' \in [Names -> Nat] /\ \A t \in Names \ {s} : recorded'[t] = recorded[t]
          /\ recorded'[s] = IF over /\ s \notin bare THEN 0 ELSE recorded[s]
      BY <2>1, <2>9
    <3>2. \A t \in Names : RiskOf(atRisk'[t]) <= recorded'[t]
      <4>1. RiskOf(atRisk[s]) <= recorded[s] /\ recorded[s] \in Nat
        OBVIOUS
      <4>2. RiskOf(atRisk'[s]) <= recorded'[s]
        BY <1>0, <2>4, <2>5, <2>6, <2>7, <3>1, <4>1
      <4>3. \A t \in Names \ {s} : RiskOf(atRisk'[t]) <= recorded'[t]
        BY <2>7, <3>1
      <4> QED
        BY <4>2, <4>3
    <3>3. /\ last'.loss = loss /\ last'.risk = recorded[s] /\ since' = 0
          /\ hit' = RiskOf(atRisk[s])
      BY <2>1, <2>9
    <3> QED
      BY <1>0, <2>7, <2>9, <3>1, <3>2, <3>3
  <2> QED
    BY <2>8, <2>9
<1>4. CASE UNCHANGED gvars
  BY <1>4 DEF gvars
<1> QED
  BY <1>1, <1>2, <1>3, <1>4 DEF GuardNext

\* However a position is bought, added to and sold in parts, the guard sees all the
\* risk it still has, and no entry after a loss is sized above what it saw.
THEOREM GuardAlwaysSees == GuardSpec => []GuardSeesThePosition
<1>1. GuardInit => GuardInv
  BY RiskOfNone DEF GuardInit, GuardInv, GuardTypes, GuardSeesThePosition
<1>2. GuardInv /\ [GuardNext]_gvars => GuardInv'
  BY GuardStep
<1>3. GuardInv => GuardSeesThePosition
  BY DEF GuardInv
<1> QED
  BY <1>1, <1>2, <1>3, PTL DEF GuardSpec

-----------------------------------------------------------------------------
(* News.                                                                   *)

ToldItem == [head: Headlines, day: Int]

\* What is known at news day d, and told: no item is younger than what is known of
\* its headline, and the telling of a headline was once per window.
OncePerWindow(ts) ==
  \A m, n \in 1..Len(ts) :
    m # n /\ ts[m].head = ts[n].head => Apart(ts[m].day, ts[n].day) > NewsWindow
KnownCoversTold(known, ts, d) ==
  /\ known \in [Headlines -> Int] /\ ts \in Seq(ToldItem)
  /\ \A h \in Headlines : known[h] <= d
  /\ \A n \in 1..Len(ts) : 0 <= ts[n].day /\ ts[n].day <= known[ts[n].head]
  /\ OncePerWindow(ts)

\* The inductive invariant of the news engine.
NewsInv == newsDay \in Nat /\ KnownCoversTold(seen, told, newsDay)

\* An item of a batch.
LEMMA ItemType ==
  ASSUME newsDay \in Nat, NEW item \in Items
  PROVE  /\ item.head \in Headlines /\ item.day \in Int /\ 0 <= item.day
         /\ item.day <= newsDay /\ newsDay - item.day <= NewsWindow
<1>1. item.head \in Headlines /\ item.day \in {d \in 0..newsDay : newsDay - d <= NewsWindow}
  BY DEF Items
<1> QED
  BY <1>1

\* Screening one item keeps what is known ahead of what was told.  An item that is
\* far from the last telling is later than it, since the feed is at most the window
\* late, and so far from every telling.
LEMMA ScreenKeeps ==
  ASSUME newsDay \in Nat, NEW known, NEW ts, KnownCoversTold(known, ts, newsDay),
         NEW item \in Items, ~Duplicate(known, item)
  PROVE  KnownCoversTold([known EXCEPT ![item.head] = item.day],
                         Append(ts, [head |-> item.head, day |-> item.day]), newsDay)
<1>1. /\ item.head \in Headlines /\ item.day \in Int /\ 0 <= item.day
      /\ item.day <= newsDay /\ newsDay - item.day <= NewsWindow
  BY ItemType
<1>2. /\ known \in [Headlines -> Int] /\ ts \in Seq(ToldItem)
      /\ \A h \in Headlines : known[h] <= newsDay /\ known[h] \in Int
      /\ \A n \in 1..Len(ts) : 0 <= ts[n].day /\ ts[n].day <= known[ts[n].head]
  BY DEF KnownCoversTold
<1>3. PICK x : x = [head |-> item.head, day |-> item.day]
  OBVIOUS
<1>4. x \in ToldItem /\ x.head = item.head /\ x.day = item.day
  BY <1>1, <1>3 DEF ToldItem
<1>5. PICK us : us = Append(ts, x)
  OBVIOUS
<1>6. /\ us \in Seq(ToldItem) /\ Len(ts) \in Nat /\ Len(us) = Len(ts) + 1
      /\ \A i \in 1..Len(ts) : us[i] = ts[i]
      /\ us[Len(ts) + 1] = x
  BY <1>2, <1>4, <1>5, AppendProperties, LenProperties
<1>7. \A n \in 1..Len(ts) : ts[n].head \in Headlines /\ ts[n].day \in Int
  <2>1. \A n \in 1..Len(ts) : ts[n] \in ToldItem
    BY <1>2, ElementOfSeq
  <2> QED
    BY <2>1 DEF ToldItem
<1>8. \A n \in 1..Len(ts) : ts[n].head = item.head => item.day - ts[n].day > NewsWindow
  <2> SUFFICES ASSUME NEW n \in 1..Len(ts), ts[n].head = item.head
               PROVE  item.day - ts[n].day > NewsWindow
    OBVIOUS
  <2>1. 0 <= ts[n].day /\ ts[n].day <= known[item.head] /\ ts[n].day \in Int
    BY <1>2, <1>7
  <2>2. known[item.head] \in Int /\ known[item.head] <= newsDay
    BY <1>1, <1>2
  <2>3. Apart(item.day, known[item.head]) > NewsWindow
    BY <1>1, <2>1, <2>2, NewsAssumption DEF Duplicate, Apart
  <2> QED
    BY <1>1, <2>1, <2>2, <2>3, NewsAssumption DEF Apart
<1>9. PICK k : k = [known EXCEPT ![item.head] = item.day]
  OBVIOUS
<1>10. /\ k \in [Headlines -> Int] /\ k[item.head] = item.day
       /\ \A h \in Headlines : h # item.head => k[h] = known[h]
  BY <1>1, <1>2, <1>9
<1>11. \A h \in Headlines : k[h] <= newsDay
  BY <1>1, <1>2, <1>10
<1>12. \A n \in 1..Len(us) : n \in 1..Len(ts) \/ n = Len(ts) + 1
  BY <1>6
<1>13. \A n \in 1..Len(us) : 0 <= us[n].day /\ us[n].day <= k[us[n].head]
  <2> TAKE n \in 1..Len(us)
  <2>1. CASE n = Len(ts) + 1
    BY <1>1, <1>4, <1>6, <1>10, <2>1
  <2>2. CASE n \in 1..Len(ts) /\ ts[n].head = item.head
    <3>1. us[n] = ts[n] /\ k[us[n].head] = item.day
      BY <1>6, <1>10, <2>2
    <3>2. ts[n].day \in Int /\ 0 <= ts[n].day /\ item.day - ts[n].day > NewsWindow
      BY <1>2, <1>7, <1>8, <2>2
    <3>3. ts[n].day <= item.day
      BY <1>1, <3>2, NewsAssumption
    <3> QED
      BY <3>1, <3>2, <3>3
  <2>3. CASE n \in 1..Len(ts) /\ ts[n].head # item.head
    BY <1>2, <1>6, <1>7, <1>10, <2>3
  <2> QED
    BY <1>12, <2>1, <2>2, <2>3
<1>14. OncePerWindow(us)
  <2> SUFFICES ASSUME NEW m \in 1..Len(us), NEW n \in 1..Len(us), m # n, us[m].head = us[n].head
               PROVE  Apart(us[m].day, us[n].day) > NewsWindow
    BY DEF OncePerWindow
  <2>1. CASE m \in 1..Len(ts) /\ n \in 1..Len(ts)
    BY <1>6, <2>1 DEF KnownCoversTold, OncePerWindow
  <2>2. CASE m = Len(ts) + 1 /\ n \in 1..Len(ts)
    <3>1. us[m].day = item.day /\ us[n] = ts[n] /\ ts[n].head = item.head
      BY <1>4, <1>6, <2>2
    <3>2. ts[n].day \in Int /\ item.day - ts[n].day > NewsWindow
      BY <1>7, <1>8, <2>2, <3>1
    <3> QED
      BY <1>1, <3>1, <3>2, NewsAssumption DEF Apart
  <2>3. CASE n = Len(ts) + 1 /\ m \in 1..Len(ts)
    <3>1. us[n].day = item.day /\ us[m] = ts[m] /\ ts[m].head = item.head
      BY <1>4, <1>6, <2>3
    <3>2. ts[m].day \in Int /\ item.day - ts[m].day > NewsWindow
      BY <1>7, <1>8, <2>3, <3>1
    <3> QED
      BY <1>1, <3>1, <3>2, NewsAssumption DEF Apart
  <2> QED
    BY <1>12, <2>1, <2>2, <2>3
<1>15. KnownCoversTold(k, us, newsDay)
  BY <1>6, <1>10, <1>11, <1>13, <1>14 DEF KnownCoversTold
<1> QED
  BY <1>3, <1>5, <1>9, <1>15

ScreenType ==
  {a \in [known: [Headlines -> Int], kept: Seq(Items), told: Seq(ToldItem)] :
     KnownCoversTold(a.known, a.told, newsDay)}

\* One round of the loop of process.
LEMMA ScreenStep ==
  ASSUME newsDay \in Nat, NEW a \in ScreenType, NEW item \in Items
  PROVE  Screen(a, item) \in ScreenType
<1>1. /\ a.known \in [Headlines -> Int] /\ a.kept \in Seq(Items) /\ a.told \in Seq(ToldItem)
      /\ KnownCoversTold(a.known, a.told, newsDay)
  BY DEF ScreenType
<1>2. CASE Duplicate(a.known, item)
  BY <1>2 DEF Screen
<1>3. CASE ~Duplicate(a.known, item)
  <2> DEFINE k == [a.known EXCEPT ![item.head] = item.day]
             u == Append(a.told, [head |-> item.head, day |-> item.day])
             q == Append(a.kept, item)
  <2>1. KnownCoversTold(k, u, newsDay)
    BY <1>1, <1>3, ScreenKeeps
  <2>2. q \in Seq(Items)
    BY <1>1, AppendProperties
  <2>3. Screen(a, item) = [known |-> k, kept |-> q, told |-> u]
    BY <1>3 DEF Screen
  <2> HIDE DEF k, u, q
  <2>4. k \in [Headlines -> Int] /\ u \in Seq(ToldItem)
    BY <2>1 DEF KnownCoversTold
  <2> QED
    BY <2>1, <2>2, <2>3, <2>4 DEF ScreenType
<1> QED
  BY <1>2, <1>3

\* The loop over a batch.
LEMMA DedupKeeps ==
  ASSUME NewsInv, NEW batch \in Seq(Items)
  PROVE  KnownCoversTold(Dedup(batch).known, Dedup(batch).told, newsDay)
<1> DEFINE n == Len(batch)
           T == ScreenType
           b == [known |-> seen, kept |-> <<>>, told |-> told]
           step == [a \in T \X (1..n) |-> Screen(a[1], batch[a[2]])]
<1>1. n \in Nat /\ b \in T
  <2>1. <<>> \in Seq(Items)
    BY EmptySeq
  <2> QED
    BY <2>1, LenProperties DEF NewsInv, KnownCoversTold, ScreenType
<1>2. \A a \in T, k \in 1..n : Screen(a, batch[k]) \in T
  <2> TAKE a \in T, k \in 1..n
  <2>1. batch[k] \in Items
    BY ElementOfSeq
  <2> QED
    BY <2>1, ScreenStep DEF NewsInv
<1>3. \A a \in T, k \in 1..n : step[<<a, k>>] = Screen(a, batch[k])
  OBVIOUS
<1>4. \E g : RunOf(g, T, b, n, step)
  <2>1. BodyOf(T, n, step)
    <3> HIDE DEF T, b, n, step
    <3> QED
      BY <1>2, <1>3 DEF BodyOf
  <2> HIDE DEF T, b, n, step
  <2> QED
    BY <1>1, <2>1, LoopExists
<1>5. PICK g : RunOf(g, T, b, n, step)
  BY <1>4
<1>6. g \in [0..n -> T] /\ g[0] = b /\ \A k \in 1..n : g[k] = step[<<g[k - 1], k>>]
  BY <1>5 DEF RunOf
<1> HIDE DEF T, b, n, step
<1>7. \A k \in 1..n : k - 1 \in 0..n /\ g[k - 1] \in T
  BY <1>1, <1>6
<1>8. \A k \in 1..n : g[k] = Screen(g[k - 1], batch[k])
  BY <1>3, <1>6, <1>7
<1>9. g = [k \in 0..n |-> IF k = 0 THEN b ELSE Screen(g[k - 1], batch[k])]
  BY <1>1, <1>6, <1>8
<1>10. \E h : h = [k \in 0..n |-> IF k = 0 THEN b ELSE Screen(h[k - 1], batch[k])]
  BY <1>9
<1>11. PICK m : m = Screened(batch)
  OBVIOUS
<1>12. m = [k \in 0..n |-> IF k = 0 THEN b ELSE Screen(m[k - 1], batch[k])]
  BY <1>10, <1>11 DEF Screened, n, b
<1>13. m[0] = b /\ \A k \in 1..n : m[k] = Screen(m[k - 1], batch[k])
  BY <1>1, <1>12
<1> DEFINE S == {k \in 0..n : m[k] \in T}
<1>14. \A k \in 0..n : k \in S
  <2>1. 0 \in S
    BY <1>1, <1>13
  <2>2. ASSUME NEW k \in 0..n-1, k \in S PROVE k + 1 \in S
    <3>1. k + 1 \in 1..n /\ k + 1 \in 0..n /\ (k + 1) - 1 = k
      BY <1>1
    <3>2. m[k] \in T
      BY <2>2
    <3>3. m[k + 1] = Screen(m[k], batch[k + 1])
      BY <1>13, <3>1
    <3>4. Screen(m[k], batch[k + 1]) \in T
      BY <1>2, <3>1, <3>2
    <3> QED
      BY <3>1, <3>3, <3>4
  <2> HIDE DEF S
  <2> QED
    BY <1>1, <2>1, <2>2, CountUp
<1>15. m[n] \in T
  BY <1>1, <1>14
<1> QED
  BY <1>11, <1>15 DEF T, n, Dedup, ScreenType

\* Every batch and every day keep the invariant.
LEMMA NewsStep == NewsInv /\ [NewsNext]_nvars => NewsInv'
<1> SUFFICES ASSUME NewsInv, [NewsNext]_nvars PROVE NewsInv'
  OBVIOUS
<1>1. CASE NewsNextDay
  <2>1. newsDay' = newsDay + 1 /\ seen' = seen /\ told' = told
    BY <1>1 DEF NewsNextDay
  <2>2. \A h \in Headlines : seen[h] <= newsDay /\ seen[h] \in Int
    BY DEF NewsInv, KnownCoversTold
  <2>3. KnownCoversTold(seen, told, newsDay + 1)
    BY <2>2 DEF NewsInv, KnownCoversTold
  <2> QED
    BY <2>1, <2>3 DEF NewsInv
<1>2. ASSUME NEW n \in 1..MaxBatch, NEW batch \in [1..n -> Items], Process(batch) PROVE NewsInv'
  <2>1. batch \in Seq(Items)
    BY <1>2, NewsAssumption, IsASeq
  <2>2. /\ newsDay' = newsDay
        /\ seen' = Dedup(batch).known /\ told' = Dedup(batch).told
    BY <1>2 DEF Process
  <2> QED
    BY <2>1, <2>2, DedupKeeps DEF NewsInv
<1>3. CASE UNCHANGED nvars
  BY <1>3 DEF nvars, NewsInv
<1> QED
  BY <1>1, <1>2, <1>3 DEF NewsNext

\* NewsEngine.process: however a feed that is at most the window late batches,
\* repeats and reorders items, a headline is news once within the window, for any
\* headlines, window and number of days.
THEOREM NewsIsOncePerWindow == NewsSpec => []NewsOncePerWindow
<1>1. NewsInit => NewsInv
  <2> SUFFICES ASSUME NewsInit PROVE NewsInv
    OBVIOUS
  <2>1. told = <<>> /\ <<>> \in Seq(ToldItem) /\ Len(<<>>) = 0
    BY EmptySeq DEF NewsInit
  <2>2. newsDay = 0 /\ seen = [h \in Headlines |-> -1]
    BY DEF NewsInit
  <2> QED
    BY <2>1, <2>2 DEF NewsInv, KnownCoversTold, OncePerWindow
<1>2. NewsInv => NewsOncePerWindow
  <2> SUFFICES ASSUME NewsInv PROVE NewsOncePerWindow
    OBVIOUS
  <2>1. told \in Seq(ToldItem) /\ OncePerWindow(told)
    BY DEF NewsInv, KnownCoversTold
  <2>2. DOMAIN told = 1..Len(told)
    BY <2>1, LenProperties
  <2> QED
    BY <2>1, <2>2 DEF OncePerWindow, NewsOncePerWindow
<1> QED
  BY <1>1, <1>2, NewsStep, PTL DEF NewsSpec

-----------------------------------------------------------------------------
(* Promotion: features.                                                    *)

FeatureInv ==
  /\ feature.hist \in Seq(Contrib)
  /\ feature.demotedAt \in Nat /\ feature.drops \in Nat
  /\ feature.drops * Window <= feature.demotedAt
  /\ feature.demotedAt <= Len(feature.hist)

\* Every call of the feature store keeps each demotion paid for.
LEMMA FeatureStep == FeatureInv /\ FeatureNext => FeatureInv'
<1> SUFFICES ASSUME FeatureInv, FeatureNext PROVE FeatureInv'
  OBVIOUS
<1>0. /\ feature.hist \in Seq(Contrib) /\ Len(feature.hist) \in Nat
      /\ feature.demotedAt \in Nat /\ feature.drops \in Nat
      /\ feature.drops * Window \in Nat /\ Window \in Nat
      /\ feature.drops * Window <= feature.demotedAt
      /\ feature.demotedAt <= Len(feature.hist)
  BY LenProperties, PromotionAssumption DEF FeatureInv
<1>1. ASSUME NEW c \in Contrib, RecordContribution(c) PROVE FeatureInv'
  <2>1. PICK h : h = Append(feature.hist, c)
    OBVIOUS
  <2>2. h \in Seq(Contrib) /\ Len(h) = Len(feature.hist) + 1
    BY <1>0, <2>1, AppendProperties
  <2>3. /\ feature'.hist = h /\ feature'.demotedAt = feature.demotedAt
        /\ feature'.drops = feature.drops
    BY <1>1, <2>1 DEF RecordContribution, Feature
  <2> QED
    BY <1>0, <2>2, <2>3 DEF FeatureInv
<1>2. CASE EvaluateDrift
  <2>1. PICK n : n = Len(feature.hist)
    OBVIOUS
  <2>2. n - feature.demotedAt >= Window /\ feature' = Demoted(n)
    BY <1>2, <2>1 DEF EvaluateDrift
  <2>3. /\ feature'.hist = feature.hist /\ feature'.demotedAt = n
        /\ feature'.drops = feature.drops + 1
    BY <2>2 DEF Demoted, Feature
  <2>4. (feature.drops + 1) * Window = feature.drops * Window + Window
    BY <1>0
  <2>5. (feature.drops + 1) * Window <= n
    BY <1>0, <2>1, <2>2, <2>4
  <2> QED
    BY <1>0, <2>1, <2>3, <2>5 DEF FeatureInv
<1>3. ASSUME NEW to, Promote(to) PROVE FeatureInv'
  <2>1. /\ feature'.hist = feature.hist /\ feature'.demotedAt = feature.demotedAt
        /\ feature'.drops = feature.drops
    BY <1>3 DEF Promote, Feature
  <2> QED
    BY <1>0, <2>1 DEF FeatureInv
<1>4. ASSUME NEW h \in BOOLEAN, Retire(h) PROVE FeatureInv'
  <2>1. /\ feature'.hist = feature.hist /\ feature'.demotedAt = feature.demotedAt
        /\ feature'.drops = feature.drops
    BY <1>4 DEF Retire, Feature
  <2> QED
    BY <1>0, <2>1 DEF FeatureInv
<1>5. ASSUME NEW st, RegisterFeature(st) PROVE FeatureInv'
  <2>1. feature'.hist = <<>> /\ feature'.demotedAt = 0 /\ feature'.drops = 0
    BY <1>5 DEF RegisterFeature, Feature
  <2>2. <<>> \in Seq(Contrib) /\ Len(<<>>) = 0
    BY EmptySeq
  <2> QED
    BY <1>0, <2>1, <2>2 DEF FeatureInv
<1>6. CASE Revive
  BY <1>3, <1>6 DEF Revive
<1> QED
  BY <1>1, <1>2, <1>3, <1>4, <1>5, <1>6 DEF FeatureNext

-----------------------------------------------------------------------------
(* Promotion: exit proposals and their experiments.                        *)

\* The evidence a stage rests on.
EvidenceFor(stage) ==
  CASE stage = "BACKTEST"     -> {"RESEARCH"}
    [] stage = "WALK_FORWARD" -> {"RESEARCH", "BACKTEST"}
    [] stage = "SHADOW"       -> {"RESEARCH", "BACKTEST", "WALK_FORWARD"}
    [] stage = "JUDGED"       -> {"RESEARCH", "BACKTEST", "WALK_FORWARD", "SHADOW"}
    [] stage = "PROMOTED"     -> {"RESEARCH", "BACKTEST", "WALK_FORWARD", "SHADOW"}
    [] OTHER                  -> {}

ProposalInv ==
  /\ proposal.stage \in {"none", "RESEARCH", "BACKTEST", "WALK_FORWARD", "SHADOW", "JUDGED",
                         "PROMOTED", "REJECTED"}
  /\ EvidenceFor(proposal.stage) \subseteq proposal.evidence
  /\ exp.result \in BOOLEAN /\ exp.loose \in BOOLEAN
  /\ exp.decision = "ADOPT" => exp.by # "nobody"
  /\ proposal.stage = "PROMOTED" => exp.result = TRUE
  /\ exp.loose = FALSE => (exp.decision = "ADOPT" <=> proposal.stage = "PROMOTED")

\* The stages follow one another.
LEMMA StageAfter ==
  /\ Stages[Rank(Stages, "RESEARCH") + 1] = "BACKTEST"
  /\ Stages[Rank(Stages, "BACKTEST") + 1] = "WALK_FORWARD"
  /\ Stages[Rank(Stages, "WALK_FORWARD") + 1] = "SHADOW"
  /\ Stages[Rank(Stages, "SHADOW") + 1] = "JUDGED"
  /\ Stages[Rank(Stages, "JUDGED") + 1] = "PROMOTED"
<1>1. /\ DOMAIN Stages = 1..6
      /\ Stages[1] = "RESEARCH" /\ Stages[2] = "BACKTEST" /\ Stages[3] = "WALK_FORWARD"
      /\ Stages[4] = "SHADOW" /\ Stages[5] = "JUDGED" /\ Stages[6] = "PROMOTED"
  BY DEF Stages
<1>2. \A i \in 1..6 : i = 1 \/ i = 2 \/ i = 3 \/ i = 4 \/ i = 5 \/ i = 6
  OBVIOUS
<1>3. ASSUME NEW k \in 1..6 PROVE Rank(Stages, Stages[k]) = k
  <2>1. \A i \in DOMAIN Stages : Stages[i] = Stages[k] => i = k
    BY <1>1, <1>2
  <2> QED
    BY <1>1, <2>1 DEF Rank
<1>4. /\ Rank(Stages, Stages[1]) = 1 /\ Rank(Stages, Stages[2]) = 2
      /\ Rank(Stages, Stages[3]) = 3 /\ Rank(Stages, Stages[4]) = 4
      /\ Rank(Stages, Stages[5]) = 5
  BY <1>3
<1> QED
  BY <1>1, <1>4

\* Every call of the optimizer and of the registry keeps adoption, promotion,
\* evidence and approver together.
LEMMA ProposalStep == ProposalInv /\ ProposalNext => ProposalInv'
<1> SUFFICES ASSUME ProposalInv, ProposalNext PROVE ProposalInv'
  OBVIOUS
<1>1. CASE Propose
  <2>1. /\ proposal'.stage = "RESEARCH" /\ proposal'.evidence = {}
        /\ exp'.decision = "PENDING" /\ exp'.result = FALSE /\ exp'.loose = FALSE
    BY <1>1 DEF Propose, Proposal, Experiment
  <2> QED
    BY <2>1 DEF ProposalInv, EvidenceFor
<1>2. CASE Advance
  <2>1. PICK next : next = Stages[Rank(Stages, proposal.stage) + 1]
    OBVIOUS
  <2>2. proposal.stage \in {"RESEARCH", "BACKTEST", "WALK_FORWARD", "SHADOW", "JUDGED"}
    BY <1>2 DEF Advance, ProposalInv
  <2>3. /\ proposal'.stage = IF next = "PROMOTED" THEN proposal.stage ELSE next
        /\ proposal'.evidence = proposal.evidence \cup {proposal.stage}
        /\ exp' = exp
    BY <1>2, <2>1 DEF Advance, Proposal
  <2>4. exp.loose = FALSE => exp.decision # "ADOPT"
    BY <2>2 DEF ProposalInv
  <2>5. CASE proposal.stage = "RESEARCH"
    BY <2>1, <2>3, <2>4, <2>5, StageAfter DEF ProposalInv, EvidenceFor
  <2>6. CASE proposal.stage = "BACKTEST"
    BY <2>1, <2>3, <2>4, <2>6, StageAfter DEF ProposalInv, EvidenceFor
  <2>7. CASE proposal.stage = "WALK_FORWARD"
    BY <2>1, <2>3, <2>4, <2>7, StageAfter DEF ProposalInv, EvidenceFor
  <2>8. CASE proposal.stage = "SHADOW"
    BY <2>1, <2>3, <2>4, <2>8, StageAfter DEF ProposalInv, EvidenceFor
  <2>9. CASE proposal.stage = "JUDGED"
    BY <2>1, <2>3, <2>4, <2>9, StageAfter DEF ProposalInv, EvidenceFor
  <2> QED
    BY <2>2, <2>5, <2>6, <2>7, <2>8, <2>9
<1>3. CASE RejectProposal
  <2>1. /\ proposal'.stage = "REJECTED" /\ proposal'.evidence = proposal.evidence
        /\ exp'.decision = "REJECT" /\ exp'.result = TRUE /\ exp'.loose = exp.loose
    BY <1>3 DEF RejectProposal, Proposal, Experiment
  <2> QED
    BY <2>1 DEF ProposalInv, EvidenceFor
<1>4. ASSUME NEW by \in People, NEW r \in BOOLEAN, PromoteProposal(by, r) PROVE ProposalInv'
  <2>1. CASE Decidable("ADOPT", by, r)
    <3>1. /\ proposal'.stage = "PROMOTED" /\ proposal'.evidence = proposal.evidence
          /\ exp'.decision = "ADOPT" /\ exp'.by = by /\ exp'.result = TRUE
          /\ proposal.stage = "JUDGED" /\ exp'.loose = exp.loose
      BY <1>4, <2>1 DEF PromoteProposal, Proposal, Experiment
    <3>2. by # "nobody"
      BY <2>1 DEF Decidable
    <3> QED
      BY <3>1, <3>2 DEF ProposalInv, EvidenceFor
  <2>2. CASE ~Decidable("ADOPT", by, r)
    <3>1. /\ proposal' = proposal /\ exp'.decision = exp.decision /\ exp'.by = exp.by /\ exp'.result = r
          /\ proposal.stage = "JUDGED" /\ exp'.loose = exp.loose
      BY <1>4, <2>2 DEF PromoteProposal, Proposal, Experiment
    <3> QED
      BY <3>1 DEF ProposalInv
  <2> QED
    BY <2>1, <2>2
<1>5. ASSUME NEW d, NEW by \in People, Decide(d, by) PROVE ProposalInv'
  <2>1. /\ proposal' = proposal /\ exp'.decision = d /\ exp'.by = by
        /\ exp'.result = exp.result /\ exp'.loose = TRUE
    BY <1>5 DEF Decide, Experiment
  <2>2. d = "ADOPT" => by # "nobody"
    BY <1>5 DEF Decide, Decidable
  <2> QED
    BY <2>1, <2>2 DEF ProposalInv
<1> QED
  BY <1>1, <1>2, <1>3, <1>4, <1>5 DEF ProposalNext

-----------------------------------------------------------------------------
(* Promotion: champion and challenger.                                     *)

\* A sum of integers is one.
LEMMA SumType ==
  ASSUME NEW s \in Seq(Int)
  PROVE  SumOf(s) \in Int
<1> DEFINE n == Len(s)
           T == Int
           b == 0
           step == [a \in T \X (1..n) |-> a[1] + s[a[2]]]
<1>1. n \in Nat /\ b \in T
  OBVIOUS
<1>2. \A a \in T, k \in 1..n : a + s[k] \in T
  BY ElementOfSeq
<1>3. \A a \in T, k \in 1..n : step[<<a, k>>] = a + s[k]
  OBVIOUS
<1>4. \E g : RunOf(g, T, b, n, step)
  <2>1. BodyOf(T, n, step)
    <3> HIDE DEF T, b, n, step
    <3> QED
      BY <1>2, <1>3 DEF BodyOf
  <2> HIDE DEF T, b, n, step
  <2> QED
    BY <1>1, <2>1, LoopExists
<1>5. PICK g : RunOf(g, T, b, n, step)
  BY <1>4
<1>6. g \in [0..n -> T] /\ g[0] = b /\ \A k \in 1..n : g[k] = step[<<g[k - 1], k>>]
  BY <1>5 DEF RunOf
<1> HIDE DEF T, b, n, step
<1>7. \A k \in 1..n : k - 1 \in 0..n /\ g[k - 1] \in T
  BY <1>1, <1>6
<1>8. \A k \in 1..n : g[k] = g[k - 1] + s[k]
  BY <1>3, <1>6, <1>7
<1>9. g = [k \in 0..n |-> IF k = 0 THEN b ELSE g[k - 1] + s[k]]
  BY <1>1, <1>6, <1>8
<1>10. \E h : h = [k \in 0..n |-> IF k = 0 THEN b ELSE h[k - 1] + s[k]]
  BY <1>9
<1>11. PICK m : m = Sums(s)
  OBVIOUS
<1>12. m = [k \in 0..n |-> IF k = 0 THEN b ELSE m[k - 1] + s[k]]
  BY <1>10, <1>11 DEF Sums, n, b
<1>13. m[0] = b /\ \A k \in 1..n : m[k] = m[k - 1] + s[k]
  BY <1>1, <1>12
<1> DEFINE S == {k \in 0..n : m[k] \in T}
<1>14. \A k \in 0..n : k \in S
  <2>1. 0 \in S
    BY <1>1, <1>13
  <2>2. ASSUME NEW k \in 0..n-1, k \in S PROVE k + 1 \in S
    <3>1. k + 1 \in 1..n /\ k + 1 \in 0..n /\ (k + 1) - 1 = k
      BY <1>1
    <3>2. m[k] \in T
      BY <2>2
    <3>3. m[k + 1] = m[k] + s[k + 1]
      BY <1>13, <3>1
    <3>4. m[k] + s[k + 1] \in T
      BY <1>2, <3>1, <3>2
    <3> QED
      BY <3>1, <3>3, <3>4
  <2> HIDE DEF S
  <2> QED
    BY <1>1, <2>1, <2>2, CountUp
<1>15. n \in S
  BY <1>1, <1>14
<1>16. SumOf(s) = m[n]
  BY <1>11 DEF SumOf, n
<1> QED
  BY <1>15, <1>16 DEF T

\* What made the first champion stays: an alpha with its sessions and a gain, or, since
\* a session may take the gain away again, with more than its sessions.
ShadowInv ==
  /\ shadow \in [Alphas -> Seq(Returns)] /\ champion \in Alphas \cup {"none"}
  /\ champion # "none" =>
       /\ Len(shadow[champion]) >= MinShadow
       /\ \E a \in Alphas : \/ Len(shadow[a]) > MinShadow
                            \/ Len(shadow[a]) >= MinShadow /\ SumOf(shadow[a]) > 0

\* A session recorded, and a challenger considered, keep it.
LEMMA ShadowStep == ShadowInv /\ ShadowNext => ShadowInv'
<1> SUFFICES ASSUME ShadowInv, ShadowNext PROVE ShadowInv'
  OBVIOUS
<1>0. /\ shadow \in [Alphas -> Seq(Returns)] /\ champion \in Alphas \cup {"none"}
      /\ \A a \in Alphas : Len(shadow[a]) \in Nat
      /\ MinShadow \in Nat
  <2>1. shadow \in [Alphas -> Seq(Returns)] /\ champion \in Alphas \cup {"none"}
    BY DEF ShadowInv
  <2> QED
    BY <2>1, PromotionAssumption, LenProperties
<1>1. ASSUME NEW a \in Alphas, NEW r \in Returns, RecordShadow(a, r) PROVE ShadowInv'
  <2>1. shadow' = [shadow EXCEPT ![a] = Append(shadow[a], r)] /\ champion' = champion
    BY <1>1 DEF RecordShadow
  <2>2. PICK s : s = Append(shadow[a], r)
    OBVIOUS
  <2>3. s \in Seq(Returns) /\ Len(s) = Len(shadow[a]) + 1
    BY <1>0, <2>2, AppendProperties
  <2>4. /\ shadow' \in [Alphas -> Seq(Returns)] /\ shadow'[a] = s
        /\ \A b \in Alphas : b # a => shadow'[b] = shadow[b]
    BY <1>0, <2>1, <2>2, <2>3
  <2>5. ASSUME champion # "none"
        PROVE  /\ Len(shadow'[champion]) >= MinShadow
               /\ \E b \in Alphas : \/ Len(shadow'[b]) > MinShadow
                                    \/ Len(shadow'[b]) >= MinShadow /\ SumOf(shadow'[b]) > 0
    <3>1. champion \in Alphas /\ Len(shadow[champion]) >= MinShadow
      BY <1>0, <2>5 DEF ShadowInv
    <3>2. Len(shadow'[champion]) >= MinShadow
      <4>1. CASE champion = a
        BY <1>0, <2>3, <2>4, <3>1, <4>1
      <4>2. CASE champion # a
        BY <2>4, <3>1, <4>2
      <4> QED
        BY <4>1, <4>2
    <3>3. PICK b \in Alphas : \/ Len(shadow[b]) > MinShadow
                              \/ Len(shadow[b]) >= MinShadow /\ SumOf(shadow[b]) > 0
      BY <2>5 DEF ShadowInv
    <3>4. CASE b = a
      BY <1>0, <2>3, <2>4, <3>2, <3>3, <3>4
    <3>5. CASE b # a
      BY <2>4, <3>2, <3>3, <3>5
    <3> QED
      BY <3>4, <3>5
  <2> QED
    BY <1>0, <2>1, <2>4, <2>5 DEF ShadowInv
<1>2. ASSUME NEW a \in Alphas, ConsiderPromotion(a) PROVE ShadowInv'
  <2>1. /\ shadow' = shadow /\ champion' = a /\ Len(shadow[a]) >= MinShadow
        /\ MeanAbove(shadow[a], IF champion = "none" THEN <<>> ELSE shadow[champion])
    BY <1>2 DEF ConsiderPromotion
  <2>2. CASE champion = "none"
    <3>1. MeanAbove(shadow[a], <<>>)
      BY <2>1, <2>2
    <3>2. SumOf(shadow[a]) > 0
      BY <3>1 DEF MeanAbove
    <3> QED
      BY <1>0, <2>1, <3>2 DEF ShadowInv
  <2>3. CASE champion # "none"
    BY <1>0, <2>1, <2>3 DEF ShadowInv
  <2> QED
    BY <2>2, <2>3
<1> QED
  BY <1>1, <1>2 DEF ShadowNext

\* It is what the property asks for.
LEMMA ShadowEarns == ShadowInv => ChampionEarned
<1> SUFFICES ASSUME ShadowInv PROVE ChampionEarned
  OBVIOUS
<1>1. \A a \in Alphas : Len(shadow[a]) \in Nat /\ SumOf(shadow[a]) \in Int
  <2> TAKE a \in Alphas
  <2>1. shadow[a] \in Seq(Returns) /\ Returns \subseteq Int
    BY PromotionAssumption DEF ShadowInv
  <2>2. Len(shadow[a]) \in Nat
    BY <2>1, LenProperties
  <2>3. shadow[a] \in Seq(Int)
    <3>1. shadow[a] \in [1..Len(shadow[a]) -> Returns]
      BY <2>1, LenProperties
    <3>2. shadow[a] \in [1..Len(shadow[a]) -> Int]
      BY <2>1, <3>1
    <3> QED
      BY <2>2, <3>2, SeqDef
  <2> QED
    BY <2>2, <2>3, SumType
<1>2. MinShadow \in Nat
  BY PromotionAssumption
<1> QED
  BY <1>1, <1>2 DEF ShadowInv, ChampionEarned

-----------------------------------------------------------------------------
(* Promotion: the windows of the judge.                                    *)

WindowType == [train: Nat \X Nat, test: Nat \X Nat]

\* A window of n bars that tests after the embargo, on at least one bar.
FairWindow(w, n) ==
  w.train[2] + 2 = w.test[1] /\ w.test[1] < w.test[2] /\ w.test[2] <= n

\* No bar is tested on twice.
TestsApart(ws) == \A i, j \in 1..Len(ws) : i < j => ws[i].test[2] <= ws[j].test[1]

\* What the loop has found when the next training starts at s: tests up to the place
\* where the next one would begin.
WalkedTo(ws, s, n, train) ==
  /\ ws \in Seq(WindowType) /\ s \in Nat /\ TestsApart(ws)
  /\ \A i \in 1..Len(ws) : FairWindow(ws[i], n) /\ ws[i].test[2] <= s + train + 2
  /\ Len(ws) # 0 => ws[Len(ws)].test[2] = s + train + 2
  /\ Len(ws) = 0 => s = 0
Walked(n, train) ==
  {a \in [start: Nat, windows: Seq(WindowType)] : WalkedTo(a.windows, a.start, n, train)}

\* One more window.
LEMMA WindowAppended ==
  ASSUME NEW n \in Nat, NEW train \in Nat, NEW test \in Nat, test >= 1,
         NEW ws, NEW s, WalkedTo(ws, s, n, train), s + train + 2 + test <= n
  PROVE  WalkedTo(Append(ws, WindowAt(s, train, test, 2)), s + test, n, train)
<1>1. /\ ws \in Seq(WindowType) /\ s \in Nat
      /\ \A i \in 1..Len(ws) : FairWindow(ws[i], n) /\ ws[i].test[2] <= s + train + 2
      /\ \A i, j \in 1..Len(ws) : i < j => ws[i].test[2] <= ws[j].test[1]
  BY DEF WalkedTo, TestsApart
<1>2. PICK w : w = WindowAt(s, train, test, 2)
  OBVIOUS
<1>3. /\ w \in WindowType /\ w.train[2] = s + train /\ w.test[1] = s + train + 2
      /\ w.test[2] = s + train + 2 + test
  <2>1. PICK tr : tr = <<s, s + train>>
    OBVIOUS
  <2>2. PICK te : te = <<s + train + 2, s + train + 2 + test>>
    OBVIOUS
  <2>3. tr \in Nat \X Nat /\ te \in Nat \X Nat
    BY <1>1, <2>1, <2>2
  <2>4. w = [train |-> tr, test |-> te]
    BY <1>2, <2>1, <2>2 DEF WindowAt
  <2>5. w \in WindowType /\ w.train = tr /\ w.test = te
    BY <2>3, <2>4 DEF WindowType
  <2> QED
    BY <2>1, <2>2, <2>5
<1>4. PICK us : us = Append(ws, w)
  OBVIOUS
<1>5. /\ us \in Seq(WindowType) /\ Len(us) = Len(ws) + 1 /\ us[Len(ws) + 1] = w
      /\ \A i \in 1..Len(ws) : us[i] = ws[i]
      /\ Len(ws) \in Nat
  BY <1>1, <1>3, <1>4, AppendProperties, LenProperties
<1>6. \A i \in 1..Len(us) : i \in 1..Len(ws) \/ i = Len(ws) + 1
  BY <1>5
<1>7. FairWindow(w, n) /\ w.test[2] <= (s + test) + train + 2
  BY <1>1, <1>3 DEF FairWindow
<1>8. ASSUME NEW i \in 1..Len(us)
      PROVE  FairWindow(us[i], n) /\ us[i].test[2] <= (s + test) + train + 2
  <2>1. CASE i \in 1..Len(ws)
    <3>1. ws[i] \in WindowType
      BY <1>1, <2>1, ElementOfSeq
    <3>2. ws[i].test[2] \in Nat
      BY <3>1 DEF WindowType
    <3>3. us[i] = ws[i] /\ FairWindow(ws[i], n) /\ ws[i].test[2] <= s + train + 2
      BY <1>1, <1>5, <2>1
    <3>4. ws[i].test[2] <= (s + test) + train + 2
      BY <1>1, <3>2, <3>3
    <3> QED
      BY <3>3, <3>4
  <2>2. CASE i = Len(ws) + 1
    BY <1>5, <1>7, <2>2
  <2> QED
    BY <1>6, <2>1, <2>2
<1>9. TestsApart(us)
  <2> SUFFICES ASSUME NEW i \in 1..Len(us), NEW j \in 1..Len(us), i < j
               PROVE  us[i].test[2] <= us[j].test[1]
    BY DEF TestsApart
  <2>1. i \in 1..Len(ws)
    BY <1>5
  <2>2. CASE j \in 1..Len(ws)
    BY <1>1, <1>5, <2>1, <2>2
  <2>3. CASE j = Len(ws) + 1
    BY <1>1, <1>3, <1>5, <2>1, <2>3
  <2> QED
    BY <1>6, <2>2, <2>3
<1>10. us[Len(us)].test[2] = (s + test) + train + 2 /\ Len(us) # 0
  BY <1>1, <1>3, <1>5
<1>11. WalkedTo(us, s + test, n, train)
  BY <1>1, <1>5, <1>8, <1>9, <1>10 DEF WalkedTo
<1> QED
  BY <1>2, <1>4, <1>11

\* One round of the loop of walk_forward_windows.
LEMMA RollStep ==
  ASSUME NEW n \in Nat, NEW train \in Nat, NEW test \in Nat, test >= 1, NEW a \in Walked(n, train)
  PROVE  Roll(a, n, train, test, 2) \in Walked(n, train)
<1>1. a.start \in Nat /\ WalkedTo(a.windows, a.start, n, train)
  BY DEF Walked
<1>2. CASE a.start + train + 2 + test > n
  BY <1>2 DEF Roll
<1>3. CASE a.start + train + 2 + test <= n
  <2>1. PICK ws : ws = Append(a.windows, WindowAt(a.start, train, test, 2))
    OBVIOUS
  <2>2. WalkedTo(ws, a.start + test, n, train)
    BY <1>1, <1>3, <2>1, WindowAppended
  <2>3. Roll(a, n, train, test, 2) = Walk(a.start + test, ws)
    BY <1>1, <1>3, <2>1 DEF Roll
  <2>4. ws \in Seq(WindowType) /\ a.start + test \in Nat
    BY <2>2 DEF WalkedTo
  <2> QED
    BY <2>2, <2>3, <2>4 DEF Walked, Walk
<1> QED
  BY <1>1, <1>2, <1>3

\* walk_forward_windows of a series long enough for one window: it ends, with windows,
\* and leaves out less than a test.
LEMMA WindowsCover ==
  ASSUME NEW bars \in Nat, NEW train \in Nat, NEW test \in Nat, test >= 1,
         train + 2 + test <= bars
  PROVE  LET ws == WalkForwardWindows(bars, train, test, 2)
         IN  /\ ws \in Seq(WindowType) /\ Len(ws) # 0 /\ TestsApart(ws)
             /\ \A i \in 1..Len(ws) : FairWindow(ws[i], bars)
             /\ bars - ws[Len(ws)].test[2] < test
<1> DEFINE n == bars
           T == Walked(bars, train)
           b == Walk(0, <<>>)
           step == [a \in T \X (1..n) |-> Roll(a[1], bars, train, test, 2)]
<1>1. n \in Nat /\ b \in T
  <2>1. /\ Walk(0, <<>>).start = 0 /\ Walk(0, <<>>).windows = <<>>
        /\ Walk(0, <<>>) \in [start: Nat, windows: Seq(WindowType)]
    BY EmptySeq DEF Walk
  <2>2. <<>> \in Seq(WindowType) /\ Len(<<>>) = 0
    BY EmptySeq
  <2>3. WalkedTo(<<>>, 0, bars, train)
    BY <2>2 DEF WalkedTo, TestsApart
  <2> QED
    BY <2>1, <2>3 DEF Walked
<1>2. \A a \in T, k \in 1..n : Roll(a, bars, train, test, 2) \in T
  BY RollStep
<1>3. \A a \in T, k \in 1..n : step[<<a, k>>] = Roll(a, bars, train, test, 2)
  OBVIOUS
<1>4. \E g : RunOf(g, T, b, n, step)
  <2>1. BodyOf(T, n, step)
    <3> HIDE DEF T, b, n, step
    <3> QED
      BY <1>2, <1>3 DEF BodyOf
  <2> HIDE DEF T, b, n, step
  <2> QED
    BY <1>1, <2>1, LoopExists
<1>5. PICK g : RunOf(g, T, b, n, step)
  BY <1>4
<1>6. g \in [0..n -> T] /\ g[0] = b /\ \A k \in 1..n : g[k] = step[<<g[k - 1], k>>]
  BY <1>5 DEF RunOf
<1> HIDE DEF T, b, n, step
<1>7. \A k \in 1..n : k - 1 \in 0..n /\ g[k - 1] \in T
  BY <1>1, <1>6
<1>8. \A k \in 1..n : g[k] = Roll(g[k - 1], bars, train, test, 2)
  BY <1>3, <1>6, <1>7
<1>9. g = [k \in 0..n |-> IF k = 0 THEN b ELSE Roll(g[k - 1], bars, train, test, 2)]
  BY <1>1, <1>6, <1>8
<1>10. \E h : h = [k \in 0..n |-> IF k = 0 THEN b ELSE Roll(h[k - 1], bars, train, test, 2)]
  BY <1>9
<1>11. PICK m : m = Rolls(bars, train, test, 2)
  OBVIOUS
<1>12. m = [k \in 0..n |-> IF k = 0 THEN b ELSE Roll(m[k - 1], bars, train, test, 2)]
  BY <1>10, <1>11 DEF Rolls, n, b
<1>13. m[0] = b /\ \A k \in 1..n : m[k] = Roll(m[k - 1], bars, train, test, 2)
  BY <1>1, <1>12
<1> DEFINE S == {k \in 0..n : m[k] \in T}
<1>14. \A k \in 0..n : k \in S
  <2>1. 0 \in S
    BY <1>1, <1>13
  <2>2. ASSUME NEW k \in 0..n-1, k \in S PROVE k + 1 \in S
    <3>1. k + 1 \in 1..n /\ k + 1 \in 0..n /\ (k + 1) - 1 = k
      BY <1>1
    <3>2. m[k] \in T
      BY <2>2
    <3>3. m[k + 1] = Roll(m[k], bars, train, test, 2)
      BY <1>13, <3>1
    <3>4. Roll(m[k], bars, train, test, 2) \in T
      BY <1>2, <3>1, <3>2
    <3> QED
      BY <3>1, <3>3, <3>4
  <2> HIDE DEF S
  <2> QED
    BY <1>1, <2>1, <2>2, CountUp
<1>15. \A k \in 0..n : m[k] \in T
  BY <1>14
<1> DEFINE far(a, k) == a.start >= k \/ a.start + train + 2 + test > bars
           F == {k \in 0..n : far(m[k], k)}
<1>16. \A k \in 0..n : m[k].start \in Nat
  BY <1>15 DEF T, Walked
<1>17. \A k \in 0..n : k \in F
  <2>1. 0 \in F
    BY <1>1, <1>16
  <2>2. ASSUME NEW k \in 0..n-1, k \in F PROVE k + 1 \in F
    <3>1. k + 1 \in 1..n /\ k + 1 \in 0..n /\ (k + 1) - 1 = k /\ k \in 0..n
      BY <1>1
    <3>2. m[k + 1] = Roll(m[k], bars, train, test, 2)
      BY <1>13, <3>1
    <3>3. m[k].start \in Nat /\ far(m[k], k)
      BY <1>16, <2>2, <3>1
    <3>4. CASE m[k].start + train + 2 + test > bars
      <4>1. m[k + 1] = m[k]
        BY <3>2, <3>4 DEF Roll
      <4> QED
        BY <3>1, <3>4, <4>1
    <3>5. CASE ~(m[k].start + train + 2 + test > bars)
      <4>1. m[k + 1].start = m[k].start + test
        BY <3>2, <3>5 DEF Roll, Walk
      <4> QED
        BY <3>1, <3>3, <3>5, <4>1
    <3> QED
      BY <3>4, <3>5
  <2> HIDE DEF F
  <2> QED
    BY <1>1, <2>1, <2>2, CountUp
<1>18. n \in 0..n
  BY <1>1
<1>19. PICK ws : ws = m[n].windows
  OBVIOUS
<1>20. PICK s : s = m[n].start
  OBVIOUS
<1>21. WalkedTo(ws, s, bars, train)
  BY <1>15, <1>18, <1>19, <1>20 DEF T, Walked
<1>22. s \in Nat /\ s + train + 2 + test > bars
  <2>1. s \in Nat /\ far(m[n], n) /\ n = bars
    BY <1>16, <1>17, <1>18, <1>20 DEF n
  <2> QED
    BY <1>20, <2>1
<1>23. ws = WalkForwardWindows(bars, train, test, 2)
  BY <1>11, <1>19 DEF WalkForwardWindows, n
<1>24. /\ ws \in Seq(WindowType) /\ TestsApart(ws) /\ \A i \in 1..Len(ws) : FairWindow(ws[i], bars)
       /\ Len(ws) # 0 => ws[Len(ws)].test[2] = s + train + 2
       /\ Len(ws) = 0 => s = 0
  BY <1>21 DEF WalkedTo
<1>25. Len(ws) # 0
  BY <1>22, <1>24
<1>26. bars - ws[Len(ws)].test[2] < test
  BY <1>22, <1>24, <1>25
<1> QED
  BY <1>23, <1>24, <1>25, <1>26

\* What judge bases a verdict on.
LEMMA JudgeStep == JudgeAlpha => TestedOutOfSample'
<1> SUFFICES ASSUME JudgeAlpha PROVE TestedOutOfSample'
  OBVIOUS
<1>1. PICK n \in Bars, trades \in {MinTrades - 1, MinTrades}, g \in BOOLEAN, o \in BOOLEAN,
            l \in BOOLEAN : trades <= n /\ Judge(n, trades, g, o, l)
  BY DEF JudgeAlpha
<1>2. n \in Nat /\ MinTrades \in Nat /\ MinTrades >= 6
  BY PromotionAssumption
<1>3. PICK ws : ws = WalkForwardWindows(n, n \div 3, n \div 6, 2)
  OBVIOUS
<1>4. /\ verdict'.bars = n
      /\ \/ verdict'.windows = <<>> /\ verdict'.says \in {"RESEARCH_MORE", "REJECT"}
         \/ verdict'.windows = ws /\ ~(trades < MinTrades)
  BY <1>1, <1>3 DEF Judge
<1>5. CASE verdict'.windows = <<>> /\ verdict'.says \in {"RESEARCH_MORE", "REJECT"}
  BY <1>5 DEF TestedOutOfSample
<1>6. CASE verdict'.windows = ws /\ ~(trades < MinTrades)
  <2>1. n >= 6
    BY <1>1, <1>2, <1>6
  <2>2. PICK t : t = n \div 3
    OBVIOUS
  <2>3. PICK u : u = n \div 6
    OBVIOUS
  <2>4. t \in Nat /\ u \in Nat /\ u >= 1 /\ t + 2 + u <= n
    BY <1>2, <2>1, <2>2, <2>3
  <2>5. /\ ws \in Seq(WindowType) /\ Len(ws) # 0 /\ TestsApart(ws)
        /\ \A i \in 1..Len(ws) : FairWindow(ws[i], n)
        /\ n - ws[Len(ws)].test[2] < u
    <3>1. ws = WalkForwardWindows(n, t, u, 2)
      BY <1>3, <2>2, <2>3
    <3> QED
      BY <1>2, <2>4, <3>1, WindowsCover
  <2>6. DOMAIN ws = 1..Len(ws) /\ ws # <<>>
    BY <2>5, LenProperties, EmptySeq
  <2> QED
    BY <1>4, <1>6, <2>3, <2>5, <2>6 DEF TestedOutOfSample, TestsApart, FairWindow
<1> QED
  BY <1>4, <1>5, <1>6

\* The inductive invariant of all four machines.
ProductionInv == FeatureInv /\ ProposalInv /\ ShadowInv /\ TestedOutOfSample

\* A step of one machine leaves the others alone.
LEMMA ProductionStep == ProductionInv /\ [PromotionNext]_pvars => ProductionInv'
<1> SUFFICES ASSUME ProductionInv, [PromotionNext]_pvars PROVE ProductionInv'
  OBVIOUS
<1>0. FeatureInv /\ ProposalInv /\ ShadowInv /\ TestedOutOfSample
  BY DEF ProductionInv
<1>1. UNCHANGED feature => FeatureInv'
  BY <1>0 DEF FeatureInv
<1>2. UNCHANGED <<proposal, exp>> => ProposalInv'
  BY <1>0 DEF ProposalInv
<1>3. UNCHANGED <<champion, shadow>> => ShadowInv'
  BY <1>0 DEF ShadowInv
<1>4. UNCHANGED verdict => TestedOutOfSample'
  BY <1>0 DEF TestedOutOfSample
<1>5. CASE FeatureNext
  <2>1. UNCHANGED <<proposal, exp, champion, shadow, verdict>>
    BY <1>5 DEF FeatureNext, RecordContribution, EvaluateDrift, Revive, RegisterFeature, Promote, Retire
  <2> QED
    BY <1>0, <1>2, <1>3, <1>4, <1>5, <2>1, FeatureStep DEF ProductionInv
<1>6. CASE ProposalNext
  <2>1. UNCHANGED <<feature, champion, shadow, verdict>>
    BY <1>6 DEF ProposalNext, Propose, Advance, RejectProposal, PromoteProposal, Decide
  <2> QED
    BY <1>0, <1>1, <1>3, <1>4, <1>6, <2>1, ProposalStep DEF ProductionInv
<1>7. CASE ShadowNext
  <2>1. UNCHANGED <<feature, proposal, exp, verdict>>
    BY <1>7 DEF ShadowNext, RecordShadow, ConsiderPromotion
  <2> QED
    BY <1>0, <1>1, <1>2, <1>4, <1>7, <2>1, ShadowStep DEF ProductionInv
<1>8. CASE JudgeAlpha
  <2>1. UNCHANGED <<feature, proposal, exp, champion, shadow>>
    BY <1>8 DEF JudgeAlpha
  <2> QED
    BY <1>1, <1>2, <1>3, <1>8, <2>1, JudgeStep DEF ProductionInv
<1>9. CASE UNCHANGED pvars
  BY <1>1, <1>2, <1>3, <1>4, <1>9 DEF ProductionInv, pvars
<1> QED
  BY <1>5, <1>6, <1>7, <1>8, <1>9 DEF PromotionNext

\* Section 24, 52, 58, 61 and 106, for every window, sample size, set of alphas and
\* people and any number of calls: nothing reaches or leaves production on less than its
\* documents demand.
THEOREM ProductionAlwaysEarned == PromotionSpec => []ProductionIsEarned
<1>1. PInit => ProductionInv
  <2> SUFFICES ASSUME PInit PROVE ProductionInv
    OBVIOUS
  <2>1. FeatureInv
    <3>1. feature.hist = <<>> /\ feature.demotedAt = 0 /\ feature.drops = 0
      BY DEF PInit, NewFeature, Feature
    <3>2. <<>> \in Seq(Contrib) /\ Len(<<>>) = 0
      BY EmptySeq
    <3> QED
      BY <3>1, <3>2, PromotionAssumption DEF FeatureInv
  <2>2. ProposalInv
    <3>1. /\ proposal.stage = "none" /\ proposal.evidence = {}
          /\ exp.decision = "none" /\ exp.result = FALSE /\ exp.loose = FALSE
      BY DEF PInit, Proposal, Experiment
    <3> QED
      BY <3>1 DEF ProposalInv, EvidenceFor
  <2>3. ShadowInv
    <3>1. <<>> \in Seq(Returns)
      BY EmptySeq
    <3> QED
      BY <3>1 DEF PInit, ShadowInv
  <2>4. TestedOutOfSample
    <3>1. verdict.windows = <<>> /\ verdict.says = "none" /\ DOMAIN <<>> = {}
      BY DEF PInit
    <3> QED
      BY <3>1 DEF TestedOutOfSample
  <2> QED
    BY <2>1, <2>2, <2>3, <2>4 DEF ProductionInv
<1>2. ProductionInv => ProductionIsEarned
  <2> SUFFICES ASSUME ProductionInv PROVE ProductionIsEarned
    OBVIOUS
  <2>1. DemotionsAreEarned
    <3>1. /\ feature.drops * Window <= feature.demotedAt
          /\ feature.demotedAt <= Len(feature.hist)
          /\ feature.demotedAt \in Nat /\ feature.drops \in Nat
          /\ feature.hist \in Seq(Contrib)
      BY DEF ProductionInv, FeatureInv
    <3>2. Len(feature.hist) \in Nat
      BY <3>1, LenProperties
    <3>3. feature.drops * Window \in Int
      BY <3>1, PromotionAssumption
    <3> QED
      BY <3>1, <3>2, <3>3 DEF DemotionsAreEarned
  <2>2. PromotionIsApproved
    <3>1. {Stages[i] : i \in 1..4} = {"RESEARCH", "BACKTEST", "WALK_FORWARD", "SHADOW"}
      <4>1. /\ Stages[1] = "RESEARCH" /\ Stages[2] = "BACKTEST"
            /\ Stages[3] = "WALK_FORWARD" /\ Stages[4] = "SHADOW"
        BY DEF Stages
      <4>2. 1..4 = {1, 2, 3, 4}
        OBVIOUS
      <4> QED
        BY <4>1, <4>2
    <3> QED
      BY <3>1 DEF ProductionInv, ProposalInv, EvidenceFor, PromotionIsApproved
  <2> QED
    BY <2>1, <2>2, ShadowEarns DEF ProductionInv, ProductionIsEarned
<1> QED
  BY <1>1, <1>2, ProductionStep, PTL DEF PromotionSpec

-----------------------------------------------------------------------------
(* The governor of the cells.                                              *)

\* Products of natural numbers grow with their factors.
LEMMA ProductGrows ==
  ASSUME NEW a \in Nat, NEW b \in Nat, NEW c \in Nat, NEW d \in Nat, a <= b, c <= d
  PROVE  a * c <= b * d
<1>1. a * c <= b * c
  BY SMT
<1>2. b * c <= b * d
  BY SMT
<1> QED
  BY <1>1, <1>2

\* Scores fall with the edge, with the quality and with a fatter tail.
LEMMA ScoreFalls ==
  ASSUME NEW m \in Int, NEW n \in Int, m <= n,
         NEW p \in 0..8, NEW q \in 0..8, p <= q,
         NEW s \in Nat, NEW t \in Nat, t <= s
  PROVE  Below(IF m >= 0 THEN <<m * p, 8 * s>> ELSE <<m * (16 - p) * s, 8>>,
               IF n >= 0 THEN <<n * q, 8 * t>> ELSE <<n * (16 - q) * t, 8>>)
<1>1. CASE m >= 0
  <2>1. m * p <= n * q /\ m * p \in Nat /\ n * q \in Nat
    BY <1>1, ProductGrows
  <2>2. PICK x \in Nat : x = m * p
    BY <2>1
  <2>3. PICK y \in Nat : y = n * q
    BY <2>1
  <2>4. x * t <= y * s
    BY <2>1, <2>2, <2>3, ProductGrows
  <2>5. x * (8 * t) = 8 * (x * t) /\ y * (8 * s) = 8 * (y * s)
    BY SMT
  <2>6. x * (8 * t) <= y * (8 * s)
    BY <2>4, <2>5
  <2> QED
    BY <1>1, <2>2, <2>3, <2>6 DEF Below
<1>2. CASE m < 0 /\ n >= 0
  <2>1. (0 - m) * (16 - p) * s \in Nat /\ n * q \in Nat
    BY <1>2
  <2>2. PICK x \in Nat : x = (0 - m) * (16 - p) * s
    BY <2>1
  <2>3. PICK y \in Nat : y = n * q
    BY <2>1
  <2>4. m * (16 - p) * s = 0 - x
    BY <2>2
  <2>5. (0 - x) * (8 * t) <= y * 8
    BY SMT
  <2> QED
    BY <1>2, <2>3, <2>4, <2>5 DEF Below
<1>3. CASE n < 0
  <2>1. PICK a \in Nat : a = 0 - m
    BY <1>3
  <2>2. PICK b \in Nat : b = 0 - n
    BY <1>3
  <2>3. PICK c \in Nat : c = 16 - p
    OBVIOUS
  <2>4. PICK d \in Nat : d = 16 - q
    OBVIOUS
  <2>5. b * d <= a * c /\ b * d \in Nat /\ a * c \in Nat
    BY <2>1, <2>2, <2>3, <2>4, ProductGrows
  <2>6. (b * d) * t <= (a * c) * s
    BY <2>5, ProductGrows
  <2>7. m * (16 - p) * s = 0 - (a * c) * s /\ n * (16 - q) * t = 0 - (b * d) * t
    BY <2>1, <2>2, <2>3, <2>4
  <2>8. (a * c) * s \in Int /\ (b * d) * t \in Int
    BY <2>5
  <2>9. m * (16 - p) * s * 8 <= n * (16 - q) * t * 8
    BY <2>6, <2>7, <2>8
  <2> QED
    BY <1>3, <2>9 DEF Below
<1> QED
  BY <1>1, <1>2, <1>3

\* A range's bound is a number, and doubt or a lower range lowers it.
LEMMA BoundFalls ==
  ASSUME NEW e \in RangeEstimate, NEW f \in {e, Doubted(e), Lowered(e)}
  PROVE  Bound(e) \in Int /\ Bound(f) \in Int /\ Bound(f) <= Bound(e)
<1>1. e.low \in Int /\ e.base \in Int /\ e.trusted \in BOOLEAN /\ e.low <= e.base
  BY GovernorAssumption DEF RangeEstimate
<1>2. CASE f = e
  BY <1>1, <1>2 DEF Bound
<1>3. CASE f = Doubted(e)
  <2>1. f.low = e.low /\ f.base = e.base /\ ~f.trusted
    BY <1>3 DEF Doubted
  <2> QED
    BY <1>1, <2>1 DEF Bound
<1>4. CASE f = Lowered(e)
  <2>1. f.low = e.low - 1 /\ f.base = e.base - 1 /\ f.trusted = e.trusted
    BY <1>4 DEF Lowered
  <2> QED
    BY <1>1, <2>1 DEF Bound
<1> QED
  BY <1>2, <1>3, <1>4

\* The three discounts are parts of eight.
LEMMA QualityFalls ==
  ASSUME NEW a \in 0..2, NEW b \in 0..2, NEW c \in 0..2,
         NEW x \in 0..2, NEW y \in 0..2, NEW z \in 0..2, x <= a, y >= b, z >= c
  PROVE  /\ a * (2 - b) * (2 - c) \in 0..8 /\ x * (2 - y) * (2 - z) \in 0..8
         /\ x * (2 - y) * (2 - z) <= a * (2 - b) * (2 - c)
<1>1. PICK b1 \in 0..2 : b1 = 2 - b
  OBVIOUS
<1>2. PICK c1 \in 0..2 : c1 = 2 - c
  OBVIOUS
<1>3. PICK y1 \in 0..2 : y1 = 2 - y
  OBVIOUS
<1>4. PICK z1 \in 0..2 : z1 = 2 - z
  OBVIOUS
<1>5. x * y1 <= a * b1 /\ x * y1 \in Nat /\ a * b1 \in Nat
  BY <1>1, <1>3, ProductGrows
<1>6. a * b1 <= 2 * 2
  BY ProductGrows
<1>7. (x * y1) * z1 <= (a * b1) * c1
  BY <1>2, <1>4, <1>5, ProductGrows
<1>8. (a * b1) * c1 <= 4 * 2
  BY <1>5, <1>6, ProductGrows
<1>9. (a * b1) * c1 \in Nat /\ (x * y1) * z1 \in Nat
  BY <1>5
<1> QED
  BY <1>1, <1>2, <1>3, <1>4, <1>7, <1>8, <1>9

\* A cell that is worse is not ranked before.
LEMMA WorseIsBehind ==
  ASSUME NEW c \in Inputs, NEW w \in WorseCells(c)
  PROVE  ~RankedBefore(w, c)
<1>0. /\ c.edge \in RangeEstimate /\ c.stability \in 0..2 /\ c.correlation \in 0..2
      /\ c.drawdown \in 0..2 /\ c.shortfall \in {-1, 0, 1} /\ c.cost \in 0..1
  BY DEF Inputs
<1>1. /\ w.edge \in {c.edge, Doubted(c.edge), Lowered(c.edge)}
      /\ w.stability \in 0..2 /\ w.correlation \in 0..2 /\ w.drawdown \in 0..2
      /\ w.stability <= c.stability /\ w.correlation >= c.correlation
      /\ w.drawdown >= c.drawdown
      /\ w.shortfall \in Int /\ w.shortfall >= c.shortfall
      /\ w.cost \in Int /\ w.cost >= c.cost
  BY <1>0 DEF WorseCells
<1> DEFINE n == Bound(c.edge) - c.cost
           m == Bound(w.edge) - w.cost
           t == 1 + (IF c.shortfall > 0 THEN c.shortfall ELSE 0)
           s == 1 + (IF w.shortfall > 0 THEN w.shortfall ELSE 0)
<1>2. n \in Int /\ m \in Int /\ m <= n
  BY <1>0, <1>1, BoundFalls
<1>3. t \in Nat /\ s \in Nat /\ t <= s
  BY <1>0, <1>1
<1>4. Quality(c) \in 0..8 /\ Quality(w) \in 0..8 /\ Quality(w) <= Quality(c)
  BY <1>0, <1>1, QualityFalls DEF Quality
<1>5. /\ Score(c) = IF n >= 0 THEN <<n * Quality(c), 8 * t>> ELSE <<n * (16 - Quality(c)) * t, 8>>
      /\ Score(w) = IF m >= 0 THEN <<m * Quality(w), 8 * s>> ELSE <<m * (16 - Quality(w)) * s, 8>>
  BY DEF Score
<1>6. PICK q \in 0..8 : q = Quality(c)
  BY <1>4
<1>7. PICK p \in 0..8 : p = Quality(w)
  BY <1>4
<1> HIDE DEF n, m, s, t
<1>8. Below(IF m >= 0 THEN <<m * p, 8 * s>> ELSE <<m * (16 - p) * s, 8>>,
            IF n >= 0 THEN <<n * q, 8 * t>> ELSE <<n * (16 - q) * t, 8>>)
  BY <1>2, <1>3, <1>4, <1>6, <1>7, ScoreFalls
<1>9. Below(Score(w), Score(c))
  BY <1>5, <1>6, <1>7, <1>8
<1> QED
  BY <1>9 DEF RankedBefore

\* Every unit of capital is somewhere.
LEMMA AllocationAddsUp ==
  ASSUME NEW total \in Nat, NEW cash \in 0..2, NEW risk \in 0..2, cash + risk <= 2,
         NEW scores, DOMAIN scores = Cells
  PROVE  LET a == AllocateWithReserve(total, cash, risk, scores)
             n == Cardinality(a.funded)
         IN  /\ a.each[1] >= 0
             /\ n * a.each[1] * 2 + (a.unallocated + a.cash + a.risk) * a.each[2]
                  = 2 * total * a.each[2]
<1> DEFINE q == {k \in DOMAIN scores : Below(<<MinScore, 1>>, scores[k])}
           x == 2 * total - total * cash - total * risk
           n == Cardinality(q)
           a == AllocateWithReserve(total, cash, risk, scores)
<1>1. IsFiniteSet(q) /\ n \in Nat /\ (n = 0 <=> q = {})
  <2>1. IsFiniteSet(q)
    BY GovernorAssumption, FS_Subset
  <2> HIDE DEF q
  <2> QED
    BY <2>1, FS_CardinalityType, FS_EmptySet
<1>2. total * cash \in Nat /\ total * risk \in Nat
  OBVIOUS
<1>3. total * cash + total * risk <= 2 * total
  <2>1. total * cash + total * risk = total * (cash + risk)
    OBVIOUS
  <2>2. total * (cash + risk) <= total * 2
    BY ProductGrows
  <2> QED
    BY <2>1, <2>2
<1>4. PICK u \in Nat : u = total * cash
  BY <1>2
<1>5. PICK v \in Nat : v = total * risk
  BY <1>2
<1>6. x = 2 * total - u - v /\ x \in Nat
  BY <1>3, <1>4, <1>5
<1>7. /\ a.funded = q /\ a.each = <<x, 2 * (IF q = {} THEN 1 ELSE n)>>
      /\ a.unallocated = (IF q = {} THEN x ELSE 0) /\ a.cash = u /\ a.risk = v
  BY <1>4, <1>5 DEF AllocateWithReserve
<1> HIDE DEF q, x, a
<1>8. n * x * 2 + (0 + u + v) * (2 * n) = 2 * total * (2 * n)
  <2>1. 2 * total = x + u + v
    BY <1>6
  <2>2. (x + u + v) * (2 * n) = n * x * 2 + (0 + u + v) * (2 * n)
    BY <1>1, <1>6
  <2> QED
    BY <2>1, <2>2
<1>9. 0 * x * 2 + (x + u + v) * 2 = 2 * total * 2
  BY <1>6
<1>10. CASE q = {}
  <2>1. n = 0 /\ a.each[1] = x /\ a.each[2] = 2 /\ a.unallocated = x
    BY <1>1, <1>7, <1>10
  <2>2. n * a.each[1] * 2 + (a.unallocated + a.cash + a.risk) * a.each[2]
          = 2 * total * a.each[2]
    BY <1>7, <1>9, <2>1
  <2> QED
    BY <1>6, <1>7, <2>1, <2>2 DEF a
<1>11. CASE q # {}
  <2>1. a.each[1] = x /\ a.each[2] = 2 * n /\ a.unallocated = 0
    BY <1>1, <1>7, <1>11
  <2>2. n * a.each[1] * 2 + (a.unallocated + a.cash + a.risk) * a.each[2]
          = 2 * total * a.each[2]
    BY <1>7, <1>8, <2>1
  <2> QED
    BY <1>6, <1>7, <2>1, <2>2 DEF a
<1> QED
  BY <1>10, <1>11

\* Doubt lowers what a cell gets.
LEMMA CapacityFalls ==
  ASSUME NEW request \in Nat, NEW lo \in Nat, NEW b \in Nat, NEW tr \in BOOLEAN, lo <= b,
         NEW cap, cap = [low |-> lo, base |-> b, trusted |-> tr]
  PROVE  LET give == CapacityConstrained(request, cap)
         IN  /\ give <= request /\ give <= cap.base
             /\ CapacityConstrained(request, Doubted(cap)) <= give
<1>1. /\ cap.low = lo /\ cap.base = b /\ cap.trusted = tr
      /\ Doubted(cap).low = lo /\ Doubted(cap).base = b /\ Doubted(cap).trusted = FALSE
  BY DEF Doubted
<1>2. Bound(Doubted(cap)) = lo /\ Bound(cap) \in {lo, b}
  BY <1>1 DEF Bound
<1> QED
  BY <1>1, <1>2 DEF CapacityConstrained

\* A proposal that fails fails with less evidence, too, and none passes in doubt on
\* its base value.
LEMMA EvidenceIsNeeded ==
  ASSUME NEW p \in Evidence
  PROVE  /\ ~Review(p) => \A w \in LessEvidence(p) : ~Review(w)
         /\ Review(p) => p.value.trusted \/ p.value.low >= 0
<1>1. p.value \in RangeEstimate
  BY DEF Evidence
<1>2. ASSUME NEW w \in LessEvidence(p), Review(w) PROVE Review(p)
  <2>1. /\ w.distinct \in {p.distinct, FALSE} /\ w.available \in {p.available, FALSE}
        /\ w.independent \in {p.independent, FALSE} /\ w.operational \in {p.operational, FALSE}
        /\ w.value \in {p.value, Doubted(p.value)}
    BY DEF LessEvidence
  <2>2. w.distinct /\ w.available /\ w.independent /\ w.operational /\ Bound(w.value) >= 0
    BY <1>2 DEF Review
  <2>3. Bound(w.value) \in Int /\ Bound(p.value) \in Int /\ Bound(w.value) <= Bound(p.value)
    BY <1>1, <2>1, BoundFalls
  <2>4. Bound(p.value) >= 0
    BY <2>2, <2>3
  <2>5. p.distinct /\ p.available /\ p.independent /\ p.operational
    BY <2>1, <2>2
  <2> QED
    BY <2>4, <2>5 DEF Review
<1>3. Review(p) => p.value.trusted \/ p.value.low >= 0
  BY DEF Review, Bound
<1> QED
  BY <1>2, <1>3

\* The cells that hang on feed f.
On(deps, f) == {c \in DOMAIN deps : deps[c] = f}

\* f names every member of R with a number up to k.
Listing(f, R, k) == f \in [1..k -> R] /\ \A x \in R : \E i \in 1..k : f[i] = x

\* A set of at most k things can be named so.
LEMMA AllNamed ==
  ASSUME NEW R, IsFiniteSet(R), NEW k \in {1, 2, 4}, Cardinality(R) <= k, NEW r \in R
  PROVE  \E f : Listing(f, R, k)
<1> DEFINE n == Cardinality(R)
<1>1. n \in Nat
  BY FS_CardinalityType
<1>2. PICK g \in Bijection(1..n, R) : TRUE
  BY FS_CardinalityType, Fun_ExistsBij
<1> HIDE DEF n
<1>3. g \in [1..n -> R]
  BY <1>2, Fun_BijectionProperties
<1>6. \A x \in R : \E i \in 1..n : g[i] = x
  <2>1. g \in Surjection(1..n, R)
    BY <1>2, Fun_BijectionProperties
  <2> QED
    BY <2>1 DEF Surjection
<1> DEFINE f == [i \in 1..k |-> IF i <= n THEN g[i] ELSE r]
<1>4. f \in [1..k -> R]
  BY <1>1, <1>3
<1>5. \A x \in R : \E i \in 1..k : f[i] = x
  <2> TAKE x \in R
  <2>1. PICK i \in 1..n : g[i] = x
    BY <1>6
  <2>2. i \in 1..k /\ f[i] = x
    BY <1>1, <2>1 DEF n
  <2> QED
    BY <2>2
<1> HIDE DEF f
<1> QED
  BY <1>4, <1>5 DEF Listing

\* When all cells hang on at most k feeds, one of those has a share of 1/k.
LEMMA FewFeedsAreConcentrated ==
  ASSUME NEW deps \in [Cells -> Feeds], NEW k \in {1, 2, 4},
         Cardinality({deps[c] : c \in Cells}) <= k
  PROVE  Concentrated(deps, 100 \div k) # {}
<1> DEFINE R == {deps[c] : c \in Cells}
           N == Cardinality(Cells)
           g == [c \in Cells |-> deps[c]]
<1>1. IsFiniteSet(Cells) /\ N \in Nat /\ N # 0
  BY GovernorAssumption, FS_CardinalityType, FS_EmptySet
<1>2. IsFiniteSet(R)
  <2>1. g \in [Cells -> R]
    OBVIOUS
  <2>2. \A t \in R : \E x \in Cells : g[x] = t
    OBVIOUS
  <2> HIDE DEF R, g
  <2> QED
    BY <1>1, <2>1, <2>2, ImageFinite
<1>3. PICK r \in R : TRUE
  BY GovernorAssumption
<1>4. PICK f : Listing(f, R, k)
  <2>1. Cardinality(R) <= k
    OBVIOUS
  <2> HIDE DEF R
  <2> QED
    BY <1>2, <1>3, <2>1, AllNamed
<1>5. \A x : On(deps, x) \subseteq Cells /\ IsFiniteSet(On(deps, x)) /\ Cardinality(On(deps, x)) \in Nat
  <2> TAKE x
  <2>1. On(deps, x) \subseteq Cells
    BY DEF On
  <2> QED
    BY <1>1, <2>1, FS_Subset, FS_CardinalityType
<1>6. \A i \in 1..k : f[i] \in Feeds
  BY <1>4 DEF Listing
<1> SUFFICES ASSUME Concentrated(deps, 100 \div k) = {} PROVE FALSE
  OBVIOUS
<1>7. \A x \in Feeds : Cardinality(On(deps, x)) * 100 < (100 \div k) * N
  <2> SUFFICES ASSUME NEW x \in Feeds, ~(Cardinality(On(deps, x)) * 100 < (100 \div k) * N)
               PROVE  FALSE
    OBVIOUS
  <2>1. PICK y \in Nat : y = Cardinality(On(deps, x))
    BY <1>5
  <2>2. PICK z \in Int : z = (100 \div k) * N
    BY <1>1
  <2>3. y * 100 >= z
    BY <2>1, <2>2
  <2>4. DOMAIN deps = Cells
    OBVIOUS
  <2>5. x \in Concentrated(deps, 100 \div k)
    BY <2>1, <2>2, <2>3, <2>4 DEF Concentrated, On
  <2> QED
    BY <2>5
<1> DEFINE a(i) == On(deps, f[i])
           q(i) == Cardinality(a(i))
<1>8. \A c \in Cells : \E i \in 1..k : c \in a(i)
  BY <1>4 DEF On, Listing
<1>9. CASE k = 1
  <2>1. Cells \subseteq a(1)
    BY <1>8, <1>9
  <2>2. N <= q(1) /\ q(1) \in Nat
    BY <1>1, <1>5, <2>1, FS_Subset
  <2>3. q(1) * 100 < 100 * N
    BY <1>6, <1>7, <1>9
  <2> HIDE DEF q, N
  <2> QED
    BY <1>1, <2>2, <2>3
<1>10. CASE k = 2
  <2>1. Cells \subseteq a(1) \cup a(2)
    BY <1>8, <1>10
  <2>2. /\ IsFiniteSet(a(1) \cup a(2))
        /\ Cardinality(a(1) \cup a(2)) <= q(1) + q(2)
    BY <1>5, JoinCount
  <2>3. N <= Cardinality(a(1) \cup a(2)) /\ Cardinality(a(1) \cup a(2)) \in Nat
    BY <2>1, <2>2, FS_Subset, FS_CardinalityType
  <2>4. q(1) \in Nat /\ q(2) \in Nat /\ q(1) * 100 < 50 * N /\ q(2) * 100 < 50 * N
    BY <1>5, <1>6, <1>7, <1>10
  <2> HIDE DEF q, N, a
  <2> QED
    BY <1>1, <2>2, <2>3, <2>4
<1>11. CASE k = 4
  <2>1. Cells \subseteq (a(1) \cup a(2)) \cup (a(3) \cup a(4))
    BY <1>8, <1>11
  <2> DEFINE b == a(1) \cup a(2)
             d == a(3) \cup a(4)
  <2>2. /\ IsFiniteSet(b) /\ Cardinality(b) <= q(1) + q(2)
        /\ IsFiniteSet(d) /\ Cardinality(d) <= q(3) + q(4)
    BY <1>5, JoinCount
  <2> HIDE DEF b, d
  <2>3. IsFiniteSet(b \cup d) /\ Cardinality(b \cup d) <= Cardinality(b) + Cardinality(d)
    BY <2>2, JoinCount
  <2>4. /\ N <= Cardinality(b \cup d) /\ Cardinality(b \cup d) \in Nat
        /\ Cardinality(b) \in Nat /\ Cardinality(d) \in Nat
    BY <2>1, <2>2, <2>3, FS_Subset, FS_CardinalityType DEF b, d
  <2>5. /\ q(1) \in Nat /\ q(2) \in Nat /\ q(3) \in Nat /\ q(4) \in Nat
        /\ q(1) * 100 < 25 * N /\ q(2) * 100 < 25 * N
        /\ q(3) * 100 < 25 * N /\ q(4) * 100 < 25 * N
    BY <1>5, <1>6, <1>7, <1>11
  <2>6. PICK n \in Nat : n = N
    BY <1>1
  <2> HIDE DEF q, N, a
  <2>7. (q(1) + q(2) + q(3) + q(4)) * 100 < 100 * n
    BY <2>5, <2>6
  <2>8. n <= q(1) + q(2) + q(3) + q(4)
    BY <2>2, <2>3, <2>4, <2>5, <2>6
  <2> QED
    BY <2>5, <2>7, <2>8
<1> QED
  BY <1>9, <1>10, <1>11

\* What the governor decides on any input is prudent.
LEMMA EveryBidIsPrudent == GInit => CapitalIsPrudent
<1> USE GovernorAssumption
<1>1. ASSUME NEW c \in Inputs, bid = [of |-> "cell", cell |-> c] PROVE CapitalIsPrudent
  <2>1. bid.of = "cell" /\ bid.cell = c
    BY <1>1
  <2>2. WorseNeverRanksHigher
    BY <2>1, WorseIsBehind DEF WorseNeverRanksHigher
  <2> QED
    BY <2>1, <2>2 DEF CapitalIsPrudent, CapitalAddsUp, DoubtIsConservative, ConcentrationIsFound
<1>2. ASSUME NEW t \in Capitals, NEW cash \in 0..2, NEW risk \in 0..2,
             NEW s \in [Cells -> Edges \X {2}], cash + risk <= 2,
             bid = [of |-> "capital", total |-> t, cash |-> cash, risk |-> risk, scores |-> s]
      PROVE  CapitalIsPrudent
  <2>1. /\ bid.of = "capital" /\ bid.total = t /\ bid.cash = cash /\ bid.risk = risk
        /\ bid.scores = s /\ t \in Nat /\ DOMAIN s = Cells
    BY <1>2
  <2>2. CapitalAddsUp
    BY <1>2, <2>1, AllocationAddsUp DEF CapitalAddsUp
  <2> QED
    BY <2>1, <2>2 DEF CapitalIsPrudent, WorseNeverRanksHigher, DoubtIsConservative, ConcentrationIsFound
<1>3. ASSUME NEW r \in Capitals, NEW lo \in Capitals, NEW b \in Capitals, NEW tr \in BOOLEAN, lo <= b,
             bid = [of |-> "capacity", request |-> r,
                    capacity |-> [low |-> lo, base |-> b, trusted |-> tr]]
      PROVE  CapitalIsPrudent
  <2>1. /\ bid.of = "capacity" /\ bid.request = r
        /\ bid.capacity = [low |-> lo, base |-> b, trusted |-> tr]
        /\ r \in Nat /\ lo \in Nat /\ b \in Nat
    BY <1>3
  <2>2. DoubtIsConservative
    BY <1>3, <2>1, CapacityFalls DEF DoubtIsConservative
  <2> QED
    BY <2>1, <2>2 DEF CapitalIsPrudent, WorseNeverRanksHigher, CapitalAddsUp, ConcentrationIsFound
<1>4. ASSUME NEW p \in Evidence, bid = [of |-> "new", proposal |-> p] PROVE CapitalIsPrudent
  <2>1. bid.of = "new" /\ bid.proposal = p
    BY <1>4
  <2>2. DoubtIsConservative
    BY <2>1, EvidenceIsNeeded DEF DoubtIsConservative
  <2> QED
    BY <2>1, <2>2 DEF CapitalIsPrudent, WorseNeverRanksHigher, CapitalAddsUp, ConcentrationIsFound
<1>5. ASSUME NEW d \in [Cells -> Feeds], bid = [of |-> "feeds", deps |-> d] PROVE CapitalIsPrudent
  <2>1. bid.of = "feeds" /\ bid.deps = d
    BY <1>5
  <2>2. ConcentrationIsFound
    BY <2>1, FewFeedsAreConcentrated DEF ConcentrationIsFound
  <2> QED
    BY <2>1, <2>2 DEF CapitalIsPrudent, WorseNeverRanksHigher, CapitalAddsUp, DoubtIsConservative
<1> QED
  BY <1>1, <1>2, <1>3, <1>4, <1>5 DEF GInit

\* Sections 28 to 31, whatever the cells, the feeds and the estimates: capital adds up and
\* goes to the better cell, doubt gets none, and what all cells hang on is found.
THEOREM CapitalIsAlwaysPrudent == GovernorSpec => []CapitalIsPrudent
<1>1. GInit => CapitalIsPrudent
  BY EveryBidIsPrudent
<1>2. CapitalIsPrudent /\ [UNCHANGED bid]_bid => CapitalIsPrudent'
  BY DEF CapitalIsPrudent, WorseNeverRanksHigher, CapitalAddsUp, DoubtIsConservative,
         ConcentrationIsFound
<1> QED
  BY <1>1, <1>2, PTL DEF GovernorSpec

-----------------------------------------------------------------------------
(* Cell statistics, for any series, cells, samples and thresholds: the     *)
(* tails are the worst days, the ranges hold what was measured, the        *)
(* union-find counts the connected components, and no projection is        *)
(* trusted more for being farther away.                                    *)

\* r is a series of n returns.
SeriesOf(r, n) == r \in [1..n -> Int]

\* A worse day has fewer days that are worse than itself.
LEMMA WorseIsLower ==
  ASSUME NEW n \in Nat, NEW r, SeriesOf(r, n), NEW i \in 1..n, NEW j \in 1..n, Worse(r, j, i)
  PROVE  Cardinality(WorseDays(r, j)) < Cardinality(WorseDays(r, i))
<1>1. r \in [1..n -> Int] /\ DOMAIN r = 1..n
  BY DEF SeriesOf
<1>2. WorseDays(r, j) \subseteq WorseDays(r, i) /\ j \in WorseDays(r, i) /\ j \notin WorseDays(r, j)
  BY <1>1 DEF WorseDays, Worse
<1>3. IsFiniteSet(1..n)
  BY FS_Interval
<1>4. WorseDays(r, i) \subseteq 1..n
  BY <1>1 DEF WorseDays
<1>5. IsFiniteSet(WorseDays(r, i))
  BY <1>3, <1>4, FS_Subset
<1>6. WorseDays(r, j) # WorseDays(r, i)
  BY <1>2
<1>7. IsFiniteSet(WorseDays(r, j))
  BY <1>2, <1>5, FS_Subset
<1>8. Cardinality(WorseDays(r, i)) \in Nat /\ Cardinality(WorseDays(r, j)) \in Nat
  BY <1>5, <1>7, FS_CardinalityType
<1> QED
  BY <1>2, <1>5, <1>6, <1>8, FS_Subset

\* The rank of a day, counting from one.
RankOf(r, n) == [i \in 1..n |-> Cardinality(WorseDays(r, i)) + 1]

\* Ranks number the days: nobody shares one, and every one is taken.
LEMMA RankIs ==
  ASSUME NEW n \in Nat, NEW r, SeriesOf(r, n)
  PROVE  /\ RankOf(r, n) \in [1..n -> 1..n]
         /\ \A i, j \in 1..n : Worse(r, j, i) => RankOf(r, n)[j] < RankOf(r, n)[i]
         /\ RankOf(r, n) \in Surjection(1..n, 1..n)
<1>1. r \in [1..n -> Int] /\ DOMAIN r = 1..n
  BY DEF SeriesOf
<1>2. IsFiniteSet(1..n) /\ Cardinality(1..n) = n
  BY FS_Interval
<1>3. \A i \in 1..n : Cardinality(WorseDays(r, i)) \in Nat /\ Cardinality(WorseDays(r, i)) < n
  <2> SUFFICES ASSUME NEW i \in 1..n
               PROVE  Cardinality(WorseDays(r, i)) \in Nat /\ Cardinality(WorseDays(r, i)) < n
    OBVIOUS
  <2>1. WorseDays(r, i) \subseteq 1..n /\ i \notin WorseDays(r, i)
    BY <1>1 DEF WorseDays, Worse
  <2>2. WorseDays(r, i) # 1..n
    BY <2>1
  <2>3. IsFiniteSet(WorseDays(r, i))
    BY <2>1, <1>2, FS_Subset
  <2> QED
    BY <2>1, <2>2, <2>3, <1>2, FS_Subset, FS_CardinalityType
<1>4. PICK f : f = RankOf(r, n)
  OBVIOUS
<1>5. \A i \in 1..n : f[i] = Cardinality(WorseDays(r, i)) + 1
  BY <1>4 DEF RankOf
<1>6. f \in [1..n -> 1..n]
  <2>1. \A i \in 1..n : Cardinality(WorseDays(r, i)) + 1 \in 1..n
    BY <1>3
  <2> QED
    BY <2>1, <1>4 DEF RankOf
<1>7. ASSUME NEW i \in 1..n, NEW j \in 1..n, Worse(r, j, i) PROVE f[j] < f[i]
  <2>1. Cardinality(WorseDays(r, j)) < Cardinality(WorseDays(r, i))
    BY <1>7, WorseIsLower
  <2> QED
    BY <2>1, <1>3, <1>5
<1>8. \A i, j \in 1..n : i # j => Worse(r, i, j) \/ Worse(r, j, i)
  BY <1>1 DEF Worse
<1>9. f \in Injection(1..n, 1..n)
  <2>1. ASSUME NEW i \in 1..n, NEW j \in 1..n, f[i] = f[j] PROVE i = j
    <3>1. f[i] \in 1..n /\ f[j] \in 1..n
      BY <1>6
    <3>2. ~Worse(r, i, j) /\ ~Worse(r, j, i)
      BY <3>1, <2>1, <1>7
    <3> QED
      BY <3>2, <1>8
  <2> QED
    BY <2>1, <1>6, Fun_IsInj
<1>10. f \in Surjection(1..n, 1..n)
  BY <1>9, <1>2, FS_Injection
<1> QED
  BY <1>4, <1>6, <1>7, <1>10

\* The order w sorts the days of r, each day once.
Sorts(w, r, n) ==
  /\ w \in [1..n -> 1..n]
  /\ \A a, b \in 1..n : a < b => w[a] # w[b] /\ r[w[a]] <= r[w[b]]
  /\ \A i \in 1..n : \E a \in 1..n : w[a] = i

\* WorstFirst is such an order.
LEMMA WorstFirstSorts ==
  ASSUME NEW n \in Nat, NEW r, SeriesOf(r, n)
  PROVE  Sorts(WorstFirst(r), r, n)
<1>1. r \in [1..n -> Int] /\ DOMAIN r = 1..n
  BY DEF SeriesOf
<1>2. PICK f : f = RankOf(r, n)
  OBVIOUS
<1>3. /\ f \in [1..n -> 1..n]
      /\ \A i, j \in 1..n : Worse(r, j, i) => f[j] < f[i]
      /\ f \in Surjection(1..n, 1..n)
  BY <1>2, RankIs
<1>4. \A i \in 1..n : f[i] = Cardinality(WorseDays(r, i)) + 1
  BY <1>2 DEF RankOf
<1>5. \A i \in 1..n : Cardinality(WorseDays(r, i)) \in Nat
  <2>1. \A i \in 1..n : WorseDays(r, i) \subseteq 1..n
    BY <1>1 DEF WorseDays
  <2>2. IsFiniteSet(1..n)
    BY FS_Interval
  <2>3. \A i \in 1..n : IsFiniteSet(WorseDays(r, i))
    BY <2>1, <2>2, FS_Subset
  <2> QED
    BY <2>3, FS_CardinalityType
<1>6. \A i, j \in 1..n : i # j => Worse(r, i, j) \/ Worse(r, j, i)
  BY <1>1 DEF Worse
<1>7. \A i, j \in 1..n : Worse(r, i, j) => r[i] <= r[j]
  BY <1>1 DEF Worse
<1>8. \A k \in 1..n : \E i \in 1..n : f[i] = k
  BY <1>3 DEF Surjection
<1>9. PICK w : w = WorstFirst(r)
  OBVIOUS
<1>10. w = [k \in 1..n |-> CHOOSE i \in 1..n : Cardinality(WorseDays(r, i)) = k - 1]
  BY <1>1, <1>9 DEF WorstFirst
<1>11. \A k \in 1..n : w[k] \in 1..n /\ f[w[k]] = k
  <2> SUFFICES ASSUME NEW k \in 1..n PROVE w[k] \in 1..n /\ f[w[k]] = k
    OBVIOUS
  <2>1. PICK i \in 1..n : f[i] = k
    BY <1>8
  <2>2. \E x \in 1..n : Cardinality(WorseDays(r, x)) = k - 1
    BY <2>1, <1>4, <1>5
  <2>3. w[k] = CHOOSE x \in 1..n : Cardinality(WorseDays(r, x)) = k - 1
    BY <1>10
  <2>4. w[k] \in 1..n /\ Cardinality(WorseDays(r, w[k])) = k - 1
    BY <2>2, <2>3
  <2> QED
    BY <2>4, <1>4
<1>12. w \in [1..n -> 1..n]
  BY <1>10, <1>11
<1>13. ASSUME NEW a \in 1..n, NEW b \in 1..n, a < b PROVE w[a] # w[b] /\ r[w[a]] <= r[w[b]]
  <2>1. w[a] \in 1..n /\ w[b] \in 1..n /\ f[w[a]] < f[w[b]]
    BY <1>11, <1>13
  <2>2. w[a] # w[b]
    BY <1>11, <1>13
  <2>3. f[w[a]] \in 1..n /\ f[w[b]] \in 1..n
    BY <2>1, <1>3
  <2>4. ~Worse(r, w[b], w[a])
    <3> SUFFICES ASSUME Worse(r, w[b], w[a]) PROVE FALSE
      OBVIOUS
    <3>1. f[w[b]] < f[w[a]]
      BY <2>1, <1>3
    <3> QED
      BY <3>1, <2>1, <2>3
  <2>5. Worse(r, w[a], w[b])
    BY <2>1, <2>2, <2>4, <1>6
  <2> QED
    BY <2>1, <2>2, <2>5, <1>7
<1>14. ASSUME NEW i \in 1..n PROVE \E a \in 1..n : w[a] = i
  <2>1. f[i] \in 1..n
    BY <1>3
  <2>2. w[f[i]] \in 1..n /\ f[w[f[i]]] = f[i]
    BY <2>1, <1>11
  <2>3. ~Worse(r, i, w[f[i]]) /\ ~Worse(r, w[f[i]], i)
    BY <2>1, <2>2, <1>3
  <2> QED
    BY <2>1, <2>2, <2>3, <1>6
<1> QED
  BY <1>9, <1>12, <1>13, <1>14 DEF Sorts

\* How many of n days p percent are.
TailSize(p, n) == AtLeastOne(Round(p * n, 100))

\* Rounding to the even neighbour.
LEMMA RoundIs ==
  ASSUME NEW a \in Nat
  PROVE  /\ Round(a, 100) \in Nat
         /\ 100 * Round(a, 100) - a <= 50 /\ a - 100 * Round(a, 100) <= 50
         /\ \A b \in Nat : a <= b => Round(a, 100) <= Round(b, 100)
<1> DEFINE Q(x) == x \div 100
           R(x) == x % 100
<1>1. \A x \in Nat : Q(x) \in Nat /\ R(x) \in 0..99 /\ x = 100 * Q(x) + R(x)
  OBVIOUS
<1>2. \A x \in Nat : Round(x, 100) = IF 2 * R(x) > 100 \/ (2 * R(x) = 100 /\ Q(x) % 2 = 1)
                                     THEN Q(x) + 1 ELSE Q(x)
  BY DEF Round
<1> HIDE DEF Q, R
<1>3. \A x \in Nat : Round(x, 100) \in Nat /\ 100 * Round(x, 100) - x <= 50 /\ x - 100 * Round(x, 100) <= 50
  <2> SUFFICES ASSUME NEW x \in Nat
               PROVE  Round(x, 100) \in Nat /\ 100 * Round(x, 100) - x <= 50 /\ x - 100 * Round(x, 100) <= 50
    OBVIOUS
  <2>1. PICK q \in Nat, d \in 0..99 : q = Q(x) /\ d = R(x) /\ x = 100 * q + d
    <3>1. Q(x) \in Nat /\ R(x) \in 0..99 /\ x = 100 * Q(x) + R(x)
      BY <1>1
    <3> QED
      BY <3>1
  <2>2. Round(x, 100) = q \/ Round(x, 100) = q + 1
    BY <1>2, <2>1
  <2>3. Round(x, 100) = q => d <= 50
    BY <1>2, <2>1
  <2>4. Round(x, 100) = q + 1 => d >= 50
    BY <1>2, <2>1
  <2> QED
    BY <2>1, <2>2, <2>3, <2>4
<1>4. ASSUME NEW b \in Nat, a <= b PROVE Round(a, 100) <= Round(b, 100)
  <2>1. PICK q \in Nat, d \in 0..99 : q = Q(a) /\ d = R(a) /\ a = 100 * q + d
    <3>1. Q(a) \in Nat /\ R(a) \in 0..99 /\ a = 100 * Q(a) + R(a)
      BY <1>1
    <3> QED
      BY <3>1
  <2>2. PICK s \in Nat, e \in 0..99 : s = Q(b) /\ e = R(b) /\ b = 100 * s + e
    <3>1. Q(b) \in Nat /\ R(b) \in 0..99 /\ b = 100 * Q(b) + R(b)
      BY <1>1
    <3> QED
      BY <3>1
  <2>3. CASE q = s
    <3>1. d <= e
      BY <2>1, <2>2, <2>3, <1>4
    <3>2. Round(a, 100) = q + 1 => Round(b, 100) = s + 1
      BY <2>1, <2>2, <2>3, <3>1, <1>2
    <3>3. Round(a, 100) \in {q, q + 1} /\ Round(b, 100) \in {s, s + 1}
      BY <2>1, <2>2, <1>2
    <3> QED
      BY <2>3, <3>2, <3>3
  <2>4. CASE q # s
    <3>0. 100 * q + d <= 100 * s + e
      BY <2>1, <2>2, <1>4
    <3>1. q + 1 <= s
      BY <3>0, <2>4
    <3>2. Round(a, 100) \in {q, q + 1} /\ Round(b, 100) \in {s, s + 1}
      BY <2>1, <2>2, <1>2
    <3> QED
      BY <3>1, <3>2
  <2> QED
    BY <2>3, <2>4
<1> QED
  BY <1>3, <1>4

\* A tail is some of the days, its share of them to the nearest day, and grows with it.
LEMMA TailSizeIs ==
  ASSUME NEW n \in Pos, NEW p \in 0..100
  PROVE  /\ TailSize(p, n) \in 1..n
         /\ TailSize(p, n) = 1 \/ Magnitude(100 * TailSize(p, n) - p * n) <= 50
         /\ \A q \in 0..100 : q <= p => TailSize(q, n) <= TailSize(p, n)
<1>1. n \in Nat /\ n >= 1
  BY DEF Pos
<1>2. \A q \in 0..100 : q * n \in Nat
  BY <1>1
<1>3. \A q \in 0..100 : q <= p => q * n <= p * n
  BY <1>1
<1>4. p * n <= 100 * n
  BY <1>1
<1>5. \A q \in 0..100 : Round(q * n, 100) \in Nat
  BY <1>2, RoundIs
<1>6. PICK a \in Nat : a = p * n
  BY <1>2
<1>7. PICK k \in Nat : k = Round(a, 100) /\ 100 * k - a <= 50 /\ a - 100 * k <= 50
  BY RoundIs
<1>8. k <= n
  BY <1>1, <1>4, <1>6, <1>7
<1>9. TailSize(p, n) = IF k < 1 THEN 1 ELSE k
  BY <1>6, <1>7 DEF TailSize, AtLeastOne
<1>10. ASSUME NEW q \in 0..100, q <= p PROVE TailSize(q, n) <= TailSize(p, n)
  <2>1. Round(q * n, 100) <= k
    BY <1>2, <1>3, <1>6, <1>7, <1>10, RoundIs
  <2>2. Round(q * n, 100) \in Nat
    BY <1>5
  <2>3. TailSize(q, n) = IF Round(q * n, 100) < 1 THEN 1 ELSE Round(q * n, 100)
    BY DEF TailSize, AtLeastOne
  <2> QED
    BY <1>9, <2>1, <2>2, <2>3
<1>11. TailSize(p, n) \in 1..n
  BY <1>1, <1>8, <1>9
<1>12. TailSize(p, n) = 1 \/ Magnitude(100 * TailSize(p, n) - p * n) <= 50
  BY <1>6, <1>7, <1>9 DEF Magnitude
<1> QED
  BY <1>10, <1>11, <1>12

\* s is the k worst of the n days of r; w[1], ..., w[k].
WorstOf(s, r, k, n) ==
  /\ s \subseteq 1..n /\ Cardinality(s) = k
  /\ \A i \in s, j \in (1..n) \ s : r[i] <= r[j]
FirstOf(s, w, k) == s = {w[i] : i \in 1..k}

\* The first k days of a sorting order are k days, and none outside them was worse.
LEMMA FirstAreWorst ==
  ASSUME NEW n \in Nat, NEW r, SeriesOf(r, n), NEW w, Sorts(w, r, n), NEW k \in 1..n,
         NEW s, FirstOf(s, w, k)
  PROVE  WorstOf(s, r, k, n)
<1>0. s = {w[i] : i \in 1..k}
  BY DEF FirstOf
<1>1. w \in [1..n -> 1..n] /\ \A a, b \in 1..n : a < b => w[a] # w[b] /\ r[w[a]] <= r[w[b]]
  BY DEF Sorts
<1>2. \A i \in 1..n : \E a \in 1..n : w[a] = i
  BY DEF Sorts
<1>3. s \subseteq 1..n
  BY <1>0, <1>1
<1>4. Cardinality(s) = k
  <2> DEFINE g == [i \in 1..k |-> w[i]]
  <2>1. g \in [1..k -> s]
    BY <1>0
  <2>2. \A i \in 1..k : g[i] = w[i]
    OBVIOUS
  <2> HIDE DEF g
  <2>3. \A t \in s : \E i \in 1..k : g[i] = t
    BY <1>0, <2>2
  <2>4. \A a, b \in 1..k : g[a] = g[b] => a = b
    <3> SUFFICES ASSUME NEW a \in 1..k, NEW b \in 1..k, g[a] = g[b], a # b PROVE FALSE
      OBVIOUS
    <3>1. a \in 1..n /\ b \in 1..n /\ w[a] = w[b]
      BY <2>2
    <3>2. a < b \/ b < a
      OBVIOUS
    <3> QED
      BY <3>1, <3>2, <1>1
  <2>5. g \in Bijection(1..k, s)
    BY <2>1, <2>3, <2>4, Fun_IsBij
  <2>6. ExistsBijection(1..k, s)
    BY <2>5 DEF ExistsBijection
  <2> QED
    BY <2>6, FS_CountingElements
<1>5. ASSUME NEW i \in s, NEW j \in (1..n) \ s PROVE r[i] <= r[j]
  <2>1. PICK a \in 1..k : i = w[a]
    BY <1>0
  <2>2. PICK b \in 1..n : w[b] = j
    BY <1>2
  <2>3. b \notin 1..k
    BY <1>0, <2>2
  <2>4. a < b /\ a \in 1..n
    BY <2>3
  <2> QED
    BY <2>1, <2>2, <2>4, <1>1
<1> QED
  BY <1>3, <1>4, <1>5 DEF WorstOf

\* What a series of the component is.
LEMMA SeriesIs ==
  ASSUME NEW r \in Series
  PROVE  r \in [1..Days -> Int] /\ DOMAIN r = 1..Days /\ Len(r) = Days /\ SeriesOf(r, Days)
<1>1. Days \in Nat /\ \A x \in Moves : x \in Int
  BY StatisticsAssumption
<1>2. r \in [1..Days -> Moves]
  BY DEF Series
<1>3. r \in [1..Days -> Int]
  BY <1>1, <1>2
<1> QED
  BY <1>1, <1>3 DEF SeriesOf

\* Section 21, for any series.
LEMMA StressIsWorst ==
  ASSUME NEW r \in Series
  PROVE  LET s == StressDays(r)
         IN  /\ Cardinality(s) = 1 \/ Magnitude(100 * Cardinality(s) - StressPct * Len(r)) <= 50
             /\ \A i \in s, j \in DOMAIN r \ s : r[i] <= r[j]
             /\ \A least \in 1..Days : Estimated(r, least) # {} => "NORMAL" \in Estimated(r, least)
<1>1. Days \in Pos /\ Days \in Nat /\ StressPct \in 0..100
  BY StatisticsAssumption DEF Pos
<1>2. r \in [1..Days -> Int] /\ DOMAIN r = 1..Days /\ Len(r) = Days /\ SeriesOf(r, Days)
  BY SeriesIs
<1>3. PICK s : s = StressDays(r)
  OBVIOUS
<1>4. PICK w : w = WorstFirst(r)
  OBVIOUS
<1>5. PICK k : k = TailSize(StressPct, Days)
  OBVIOUS
<1>6. FirstOf(s, w, k)
  BY <1>2, <1>3, <1>4, <1>5 DEF StressDays, TailSize, FirstOf
<1>7. k \in 1..Days /\ (k = 1 \/ Magnitude(100 * k - StressPct * Days) <= 50)
  BY <1>1, <1>5, TailSizeIs
<1>8. Sorts(w, r, Days)
  BY <1>1, <1>2, <1>4, WorstFirstSorts
<1>9. WorstOf(s, r, k, Days)
  <2>1. k \in 1..Days
    BY <1>7
  <2> QED
    BY <1>1, <1>2, <1>6, <2>1, <1>8, FirstAreWorst
<1>10. ASSUME NEW least \in 1..Days PROVE "NORMAL" \in Estimated(r, least)
  <2>1. Cardinality(DOMAIN r) = Days
    BY <1>1, <1>2, FS_Interval
  <2>2. "NORMAL" \in DOMAIN RegimeDays(r) /\ RegimeDays(r)["NORMAL"] = DOMAIN r
    BY DEF RegimeDays
  <2> QED
    BY <1>1, <2>1, <2>2 DEF Estimated
<1> QED
  BY <1>2, <1>3, <1>7, <1>9, <1>10 DEF WorstOf

-----------------------------------------------------------------------------
(* The tail.                                                               *)

\* The same entry n times.
LEMMA SumRepeated ==
  ASSUME NEW n \in Nat, NEW c \in Int, NEW f, \A k \in 1..n : f[k] = c
  PROVE  SumTo(f, n) = n * c
<1>0. IntsTo(f, n)
  BY DEF IntsTo
<1> DEFINE F(k) == SumTo(f, k)
           S == {k \in 0..n : F(k) = k * c}
<1>1. F(0) = 0 /\ (\A k \in 0..n : F(k) \in Int) /\ \A k \in 1..n : F(k) = F(k - 1) + f[k]
  BY <1>0, SumIs
<1> HIDE DEF F
<1>2. 0 \in S
  BY <1>1
<1>3. ASSUME NEW i \in 0..n-1, i \in S PROVE i + 1 \in S
  <2>1. i + 1 \in 1..n /\ (i + 1) - 1 = i /\ i \in 0..n
    OBVIOUS
  <2>2. F(i + 1) = F(i) + c
    BY <2>1, <1>1
  <2>3. F(i) = i * c
    BY <1>3
  <2>4. (i + 1) * c = i * c + c
    OBVIOUS
  <2> QED
    BY <2>1, <2>2, <2>3, <2>4
<1> HIDE DEF S
<1>4. n \in S
  BY <1>2, <1>3, CountUp
<1> QED
  BY <1>4 DEF S, F

\* Of ascending entries, the mean of the first j is at most the last of them, and at
\* most the mean of any more.
LEMMA MeansAscend ==
  ASSUME NEW n \in Nat, NEW v, IntsTo(v, n), \A a, b \in 1..n : a < b => v[a] <= v[b],
         NEW j \in 1..n
  PROVE  /\ SumTo(v, j) <= j * v[j]
         /\ \A k \in 1..n : j <= k => SumTo(v, j) * k <= SumTo(v, k) * j
<1>1. v[j] \in Int /\ j \in Nat
  BY DEF IntsTo
<1>2. SumTo(v, j) <= j * v[j]
  <2> DEFINE f == [k \in 1..j |-> v[j]]
  <2>1. \A k \in 1..j : f[k] = v[j]
    OBVIOUS
  <2> HIDE DEF f
  <2>2. SumTo(f, j) = j * v[j]
    BY <1>1, <2>1, SumRepeated
  <2>3. IntsTo(v, j) /\ IntsTo(f, j)
    BY <1>1, <2>1 DEF IntsTo
  <2>4. \A k \in 1..j : v[k] <= f[k]
    <3> SUFFICES ASSUME NEW k \in 1..j PROVE v[k] <= v[j]
      BY <2>1
    <3>1. k \in 1..n /\ v[k] \in Int
      BY <2>3 DEF IntsTo
    <3>2. CASE k = j
      BY <3>1, <3>2
    <3>3. CASE k # j
      <4>1. k < j
        BY <3>3
      <4> QED
        BY <3>1, <4>1
    <3> QED
      BY <3>2, <3>3
  <2>5. SumTo(v, j) <= SumTo(f, j)
    BY <1>1, <2>3, <2>4, SumGrows
  <2> QED
    BY <2>2, <2>5
<1> DEFINE A(k) == SumTo(v, k)
           S == {k \in 0..n : j <= k => A(j) * k <= A(k) * j}
<1>3. (\A k \in 0..n : A(k) \in Int) /\ \A k \in 1..n : A(k) = A(k - 1) + v[k]
  BY SumIs
<1>4. A(j) <= j * v[j]
  BY <1>2
<1> HIDE DEF A
<1>5. 0 \in S
  OBVIOUS
<1>6. ASSUME NEW i \in 0..n-1, i \in S PROVE i + 1 \in S
  <2>1. i + 1 \in 1..n /\ (i + 1) - 1 = i /\ i \in 0..n /\ i \in Int
    OBVIOUS
  <2>2. A(i + 1) = A(i) + v[i + 1] /\ A(i) \in Int /\ A(i + 1) \in Int
    BY <2>1, <1>3
  <2>3. A(j) \in Int /\ v[i + 1] \in Int
    BY <1>3, <2>1 DEF IntsTo
  <2>4. CASE j = i + 1
    BY <2>1, <2>2, <2>3, <2>4
  <2>5. CASE i + 1 < j
    BY <2>1, <2>5
  <2>6. CASE j <= i
    <3>1. A(j) * i <= A(i) * j
      BY <2>6, <1>6
    <3>2. v[j] <= v[i + 1]
      BY <2>1, <2>6
    <3>3. j * v[j] <= j * v[i + 1]
      BY <3>2, <1>1, <2>3
    <3>4. PICK x \in Int : x = A(j) * i
      BY <2>1, <2>3
    <3>5. PICK y \in Int : y = A(i) * j
      BY <1>1, <2>2
    <3>6. PICK z \in Int : z = j * v[i + 1]
      BY <1>1, <2>3
    <3>7. A(j) * (i + 1) = x + A(j)
      BY <2>1, <2>3, <3>4
    <3>8. A(i + 1) * j = y + z
      <4>1. \A p, q, t \in Int : (p + q) * t = p * t + t * q
        OBVIOUS
      <4> QED
        BY <4>1, <2>2, <2>3, <3>5, <3>6, <1>1
    <3>9. A(j) <= z
      <4>1. j * v[j] \in Int
        BY <1>1
      <4> QED
        BY <4>1, <1>4, <3>3, <3>6, <2>3
    <3>10. x + A(j) <= y + z
      BY <3>1, <3>4, <3>5, <3>9, <2>3
    <3> QED
      BY <2>1, <3>7, <3>8, <3>10
  <2> QED
    BY <2>1, <2>4, <2>5, <2>6
<1> HIDE DEF S
<1>7. \A k \in 0..n : k \in S
  BY <1>5, <1>6, CountUp
<1>8. ASSUME NEW k \in 1..n, j <= k PROVE A(j) * k <= A(k) * j
  <2>1. k \in 0..n
    OBVIOUS
  <2> QED
    BY <2>1, <1>7, <1>8 DEF S
<1> QED
  BY <1>2, <1>8 DEF A

\* The order in which days are added does not matter.
LEMMA SumInAnyOrder ==
  ASSUME NEW n \in Nat, NEW r, SeriesOf(r, n), NEW w, Sorts(w, r, n),
         NEW v, \A i \in 1..n : v[i] = r[w[i]]
  PROVE  SumTo(v, n) = SumTo(r, n)
<1>1. w \in [1..n -> 1..n] /\ \A a, b \in 1..n : a < b => w[a] # w[b]
  BY DEF Sorts
<1>2. \A i \in 1..n : \E a \in 1..n : w[a] = i
  BY DEF Sorts
<1>3. r \in [1..n -> Int]
  BY DEF SeriesOf
<1>4. IntsTo(v, n) /\ IntsTo(r, n)
  BY <1>1, <1>3 DEF IntsTo
<1> DEFINE Seen(m) == {w[i] : i \in 1..m}
           g(m) == [i \in 1..n |-> IF i \in Seen(m) THEN r[i] ELSE 0]
           V(m) == SumTo(v, m)
           S == {m \in 0..n : SumTo(g(m), n) = V(m)}
<1>5. V(0) = 0 /\ (\A k \in 0..n : V(k) \in Int) /\ \A k \in 1..n : V(k) = V(k - 1) + v[k]
  BY <1>4, SumIs
<1>6. \A m \in 0..n : IntsTo(g(m), n) /\ \A i \in 1..n : g(m)[i] = IF i \in Seen(m) THEN r[i] ELSE 0
  BY <1>3 DEF IntsTo
<1>7. Seen(0) = {}
  OBVIOUS
<1>8. ASSUME NEW m \in 0..n-1 PROVE Seen(m + 1) = Seen(m) \cup {w[m + 1]} /\ w[m + 1] \notin Seen(m)
  <2>1. 1..m + 1 = (1..m) \cup {m + 1} /\ m + 1 \in 1..n /\ 1..m \subseteq 1..n
    OBVIOUS
  <2>2. \A i \in 1..m : i < m + 1 /\ i \in 1..n
    BY <2>1
  <2>3. Seen(m + 1) = Seen(m) \cup {w[m + 1]}
    BY <2>1
  <2>4. \A i \in 1..m : w[i] # w[m + 1]
    BY <2>1, <2>2, <1>1
  <2>5. w[m + 1] \notin Seen(m)
    BY <2>4
  <2> QED
    BY <2>3, <2>5
<1>9. Seen(n) = 1..n
  BY <1>1, <1>2
<1> HIDE DEF V, g, Seen
<1>10. 0 \in S
  <2>1. \A k \in 1..n : g(0)[k] = 0
    BY <1>6, <1>7
  <2>2. SumTo(g(0), n) = 0
    BY <2>1, SumNone
  <2> QED
    BY <2>2, <1>5
<1>11. ASSUME NEW m \in 0..n-1, m \in S PROVE m + 1 \in S
  <2>1. m + 1 \in 1..n /\ (m + 1) - 1 = m /\ m \in 0..n /\ m + 1 \in 0..n
    OBVIOUS
  <2>2. PICK j \in 1..n : j = w[m + 1]
    BY <1>1, <2>1
  <2>3. IntsTo(g(m), n) /\ IntsTo(g(m + 1), n)
    BY <1>6, <2>1
  <2>4. DifferAt(g(m), g(m + 1), n, j)
    BY <1>6, <1>8, <2>1, <2>2 DEF DifferAt
  <2>5. g(m)[j] = 0 /\ g(m + 1)[j] = r[j]
    BY <1>6, <1>8, <2>1, <2>2
  <2>6. SumTo(g(m + 1), n) = SumTo(g(m), n) - g(m)[j] + g(m + 1)[j]
    BY <2>3, <2>4, SumChanged
  <2>7. r[j] \in Int /\ v[m + 1] = r[j] /\ V(m) \in Int
    BY <1>3, <1>5, <2>1, <2>2
  <2>8. SumTo(g(m), n) = V(m)
    BY <1>11
  <2>9. SumTo(g(m + 1), n) = V(m) + v[m + 1]
    BY <2>5, <2>6, <2>7, <2>8
  <2>10. V(m + 1) = V(m) + v[m + 1]
    BY <1>5, <2>1
  <2> QED
    BY <2>1, <2>9, <2>10
<1> HIDE DEF S
<1>12. n \in S
  BY <1>10, <1>11, CountUp
<1>13. SumTo(g(n), n) = V(n)
  BY <1>12 DEF S
<1>14. SumTo(g(n), n) = SumTo(r, n)
  <2>1. \A k \in 1..n : g(n)[k] = r[k]
    BY <1>6, <1>9
  <2>2. IntsTo(g(n), n)
    BY <1>6
  <2> QED
    BY <2>1, <2>2, SumSame
<1> QED
  BY <1>13, <1>14 DEF V

\* v is the series r, worst day first.
FromWorst(v, r) == v = [i \in 1..Days |-> r[WorstFirst(r)[i]]]

\* The tail of a series, and what is told of it.
LEMMA TailIs ==
  ASSUME NEW r \in Series, NEW p \in TailPcts, NEW v, FromWorst(v, r),
         NEW k, k = TailSize(p, Days)
  PROVE  /\ k \in 1..Days
         /\ ValueAtRisk(r, p) = <<-v[k], 1>>
         /\ Shortfall(r, p) = <<-SumTo(v, k), k>>
<1>1. Days \in Pos /\ Days \in Nat /\ p \in 0..100
  BY StatisticsAssumption DEF Pos
<1>2. r \in [1..Days -> Int] /\ DOMAIN r = 1..Days /\ Len(r) = Days /\ SeriesOf(r, Days)
  BY SeriesIs
<1>3. k \in 1..Days
  BY <1>1, TailSizeIs
<1>4. PICK t : t = LossTail(r, p)
  OBVIOUS
<1>5. t = [i \in 1..k |-> r[WorstFirst(r)[i]]]
  BY <1>2, <1>4 DEF LossTail, TailSize
<1>6. Len(t) = k /\ \A i \in 1..k : t[i] = v[i]
  BY <1>1, <1>3, <1>5 DEF FromWorst
<1>7. ValueAtRisk(r, p) = <<-v[k], 1>>
  <2>1. k \in 1..k
    BY <1>3
  <2> QED
    BY <1>4, <1>6, <2>1 DEF ValueAtRisk
<1>8. IntsTo(t, k)
  <2>1. PICK w : w = WorstFirst(r)
    OBVIOUS
  <2>2. w \in [1..Days -> 1..Days]
    <3>1. Sorts(w, r, Days)
      BY <1>1, <1>2, <2>1, WorstFirstSorts
    <3> QED
      BY <3>1 DEF Sorts
  <2>3. \A i \in 1..k : i \in 1..Days /\ w[i] \in 1..Days
    BY <1>1, <1>3, <2>2
  <2>4. \A i \in 1..k : t[i] = r[w[i]]
    BY <1>5, <2>1
  <2>5. \A i \in 1..k : r[w[i]] \in Int
    BY <1>2, <2>3
  <2> QED
    BY <2>4, <2>5 DEF IntsTo
<1>9. SumTo(t, k) = SumTo(v, k)
  <2>1. k \in Nat
    BY <1>1, <1>3
  <2> QED
    BY <2>1, <1>6, <1>8, SumSame
<1> QED
  BY <1>3, <1>4, <1>6, <1>7, <1>9 DEF Shortfall, Plus

\* Section 20, for any series.
LEMMA ShortfallIsSevere ==
  ASSUME NEW r \in Series, NEW p \in TailPcts
  PROVE  /\ Leq(ValueAtRisk(r, p), Shortfall(r, p))
         /\ Leq(<<-Plus(r), Days>>, Shortfall(r, p))
         /\ \A q \in TailPcts : q < p => Leq(Shortfall(r, p), Shortfall(r, q))
<1>1. Days \in Pos /\ Days \in Nat /\ TailPcts \subseteq 0..100 /\ Days \in 1..Days
  BY StatisticsAssumption DEF Pos
<1>2. r \in [1..Days -> Int] /\ Len(r) = Days /\ SeriesOf(r, Days)
  BY SeriesIs
<1>3. PICK w : w = WorstFirst(r)
  OBVIOUS
<1>4. Sorts(w, r, Days)
  BY <1>1, <1>2, <1>3, WorstFirstSorts
<1>5. PICK v : v = [i \in 1..Days |-> r[w[i]]]
  OBVIOUS
<1>6. \A i \in 1..Days : v[i] = r[w[i]]
  BY <1>5
<1>7. IntsTo(v, Days) /\ \A a, b \in 1..Days : a < b => v[a] <= v[b]
  <2>1. w \in [1..Days -> 1..Days] /\ \A a, b \in 1..Days : a < b => r[w[a]] <= r[w[b]]
    BY <1>4 DEF Sorts
  <2> QED
    BY <1>2, <1>6, <2>1 DEF IntsTo
<1>8. Plus(r) = SumTo(v, Days)
  <2>1. SumTo(v, Days) = SumTo(r, Days)
    BY <1>1, <1>2, <1>4, <1>6, SumInAnyOrder
  <2> QED
    BY <1>2, <2>1 DEF Plus
<1>9. \A k \in 1..Days : SumTo(v, k) \in Int /\ v[k] \in Int
  BY <1>1, <1>7, SumIs DEF IntsTo
<1>10. PICK k \in 1..Days : k = TailSize(p, Days)
  BY <1>1, TailSizeIs
<1>11. ValueAtRisk(r, p) = <<-v[k], 1>> /\ Shortfall(r, p) = <<-SumTo(v, k), k>>
  <2>1. FromWorst(v, r)
    BY <1>3, <1>5 DEF FromWorst
  <2> QED
    BY <2>1, <1>10, TailIs
<1>12. Leq(ValueAtRisk(r, p), Shortfall(r, p))
  <2>1. SumTo(v, k) <= k * v[k]
    BY <1>1, <1>7, MeansAscend
  <2>2. \A x, y \in Int : x <= k * y => (-y) * k <= (-x) * 1
    OBVIOUS
  <2>3. (-v[k]) * k <= (-SumTo(v, k)) * 1
    BY <2>1, <2>2, <1>9
  <2> QED
    BY <1>11, <2>3 DEF Leq
<1>13. \A x, y \in Int, a, b \in Nat : x * a <= y * b => (-y) * b <= (-x) * a
  OBVIOUS
<1>14. Leq(<<-Plus(r), Days>>, Shortfall(r, p))
  <2>1. SumTo(v, k) * Days <= SumTo(v, Days) * k
    BY <1>1, <1>7, MeansAscend
  <2>2. (-SumTo(v, Days)) * k <= (-SumTo(v, k)) * Days
    BY <1>1, <1>9, <1>13, <2>1
  <2> QED
    BY <1>8, <1>11, <2>2 DEF Leq
<1>15. ASSUME NEW q \in TailPcts, q < p PROVE Leq(Shortfall(r, p), Shortfall(r, q))
  <2>1. PICK j \in 1..Days : j = TailSize(q, Days)
    BY <1>1, TailSizeIs
  <2>2. j <= k
    <3>1. q \in 0..100 /\ p \in 0..100 /\ q <= p
      BY <1>1, <1>15
    <3> QED
      BY <1>1, <1>10, <2>1, <3>1, TailSizeIs
  <2>3. Shortfall(r, q) = <<-SumTo(v, j), j>>
    <3>1. FromWorst(v, r)
      BY <1>3, <1>5 DEF FromWorst
    <3> QED
      BY <3>1, <2>1, TailIs
  <2>4. SumTo(v, j) * k <= SumTo(v, k) * j
    BY <1>1, <1>7, <2>2, MeansAscend
  <2>5. (-SumTo(v, k)) * j <= (-SumTo(v, j)) * k
    BY <1>9, <1>13, <2>4
  <2> QED
    BY <1>11, <2>3, <2>5 DEF Leq
<1> QED
  BY <1>12, <1>14, <1>15

-----------------------------------------------------------------------------
(* Contributions to risk.                                                  *)

\* A square is not negative.
LEMMA SquareIs == ASSUME NEW x \in Int PROVE x * x \in Nat
<1>1. CASE x >= 0
  BY <1>1
<1>2. CASE x < 0
  <2>1. PICK y \in Nat : x = -y
    <3>1. -x \in Nat /\ x = -(-x)
      BY <1>2
    <3> QED
      BY <3>1
  <2>2. \A z \in Nat : (-z) * (-z) = z * z /\ z * z \in Nat
    OBVIOUS
  <2> QED
    BY <2>1, <2>2
<1> QED
  BY <1>1, <1>2

\* Q lists the squares of the entries of X.
SquaresOf(Q, X, n) == \A k \in 1..n : Q[k] = X[k] * X[k]

\* The squares of the distances from c, added up.
LEMMA SquaresAbout ==
  ASSUME NEW n \in Nat, NEW X, IntsTo(X, n), NEW Q, SquaresOf(Q, X, n), NEW c \in Int
  PROVE  SumTo(Q, n) - 2 * (c * SumTo(X, n)) + n * (c * c) >= 0
<1>0. IntsTo(Q, n) /\ \A k \in 1..n : Q[k] = X[k] * X[k] /\ X[k] \in Int
  BY DEF IntsTo, SquaresOf
<1> DEFINE A(k) == SumTo(X, k)
           B(k) == SumTo(Q, k)
           S == {k \in 0..n : B(k) - 2 * (c * A(k)) + k * (c * c) >= 0}
<1>1. A(0) = 0 /\ (\A k \in 0..n : A(k) \in Int) /\ \A k \in 1..n : A(k) = A(k - 1) + X[k]
  BY SumIs
<1>2. B(0) = 0 /\ (\A k \in 0..n : B(k) \in Int) /\ \A k \in 1..n : B(k) = B(k - 1) + Q[k]
  BY <1>0, SumIs
<1> HIDE DEF A, B
<1>3. 0 \in S
  BY <1>1, <1>2
<1>4. ASSUME NEW i \in 0..n-1, i \in S PROVE i + 1 \in S
  <2>1. i + 1 \in 1..n /\ (i + 1) - 1 = i /\ i \in 0..n /\ i + 1 \in 0..n
    OBVIOUS
  <2>2. PICK x \in Int : x = X[i + 1]
    BY <1>0, <2>1
  <2>3. PICK p \in Int, q \in Int : p = A(i) /\ q = B(i)
    BY <1>1, <1>2, <2>1
  <2>4. A(i + 1) = p + x /\ B(i + 1) = q + x * x
    BY <1>0, <1>1, <1>2, <2>1, <2>2, <2>3
  <2>5. q - 2 * (c * p) + i * (c * c) >= 0
    BY <1>4, <2>3
  <2>6. (x - c) * (x - c) \in Nat
    BY SquareIs
  <2>7. (q + x * x) - 2 * (c * (p + x)) + (i + 1) * (c * c)
          = (q - 2 * (c * p) + i * (c * c)) + (x - c) * (x - c)
    OBVIOUS
  <2>8. q - 2 * (c * p) + i * (c * c) \in Int
    OBVIOUS
  <2>9. (q + x * x) - 2 * (c * (p + x)) + (i + 1) * (c * c) >= 0
    BY <2>5, <2>6, <2>7, <2>8
  <2> QED
    BY <2>1, <2>4, <2>9
<1> HIDE DEF S
<1>5. n \in S
  BY <1>3, <1>4, CountUp
<1> QED
  BY <1>5 DEF S, A, B

\* A variance is never negative.
LEMMA VarianceIs ==
  ASSUME NEW n \in Nat, NEW X, IntsTo(X, n), NEW Q, SquaresOf(Q, X, n)
  PROVE  n * SumTo(Q, n) - SumTo(X, n) * SumTo(X, n) >= 0
<1>0. IntsTo(Q, n) /\ \A k \in 1..n : Q[k] = X[k] * X[k] /\ X[k] \in Int
  BY DEF IntsTo, SquaresOf
<1> DEFINE A(k) == SumTo(X, k)
           B(k) == SumTo(Q, k)
           S == {k \in 0..n : k * B(k) - A(k) * A(k) >= 0}
<1>1. A(0) = 0 /\ (\A k \in 0..n : A(k) \in Int) /\ \A k \in 1..n : A(k) = A(k - 1) + X[k]
  BY SumIs
<1>2. B(0) = 0 /\ (\A k \in 0..n : B(k) \in Int) /\ \A k \in 1..n : B(k) = B(k - 1) + Q[k]
  BY <1>0, SumIs
<1>3. ASSUME NEW i \in 0..n, NEW c \in Int PROVE B(i) - 2 * (c * A(i)) + i * (c * c) >= 0
  <2>1. i \in Nat /\ IntsTo(X, i) /\ SquaresOf(Q, X, i)
    BY DEF IntsTo, SquaresOf
  <2> QED
    BY <2>1, SquaresAbout
<1> HIDE DEF A, B
<1>4. 0 \in S
  BY <1>1, <1>2
<1>5. ASSUME NEW i \in 0..n-1, i \in S PROVE i + 1 \in S
  <2>1. i + 1 \in 1..n /\ (i + 1) - 1 = i /\ i \in 0..n /\ i + 1 \in 0..n
    OBVIOUS
  <2>2. PICK x \in Int : x = X[i + 1]
    BY <1>0, <2>1
  <2>3. PICK p \in Int, q \in Int : p = A(i) /\ q = B(i)
    BY <1>1, <1>2, <2>1
  <2>4. A(i + 1) = p + x /\ B(i + 1) = q + x * x
    BY <1>0, <1>1, <1>2, <2>1, <2>2, <2>3
  <2>5. i * q - p * p >= 0
    BY <1>5, <2>3
  <2>6. q - 2 * (x * p) + i * (x * x) >= 0
    BY <1>3, <2>1, <2>3
  <2>7. (i + 1) * (q + x * x) - (p + x) * (p + x)
          = (i * q - p * p) + (q - 2 * (x * p) + i * (x * x))
    OBVIOUS
  <2>8. i * q - p * p \in Int /\ q - 2 * (x * p) + i * (x * x) \in Int
    OBVIOUS
  <2>9. (i + 1) * (q + x * x) - (p + x) * (p + x) >= 0
    BY <2>5, <2>6, <2>7, <2>8
  <2> QED
    BY <2>1, <2>4, <2>9
<1> HIDE DEF S
<1>6. n \in S
  BY <1>4, <1>5, CountUp
<1> QED
  BY <1>6 DEF S, A, B

\* Days a to b of a series, renumbered.
Part(f, a, b) == [i \in 1..(b - a + 1) |-> f[a + i - 1]]

\* P is days a to b, and that many are m.
PartOf(P, f, a, b, m, n) ==
  /\ m \in Nat /\ IntsTo(P, m)
  /\ \A i \in 1..m : P[i] = f[a + i - 1] /\ a + i - 1 \in 1..n
  /\ Over(f, a, b) = SumTo(P, m) /\ Over(f, a, b) \in Int

\* Part is days a to b.
LEMMA PartIs ==
  ASSUME NEW n \in Nat, NEW f, SeriesOf(f, n), NEW a \in 1..n, NEW b \in a..n
  PROVE  PartOf(Part(f, a, b), f, a, b, b - a + 1, n)
<1>0. PICK m, P : m = b - a + 1 /\ P = Part(f, a, b)
  OBVIOUS
<1>1. m \in Nat /\ \A i \in 1..m : a + i - 1 \in 1..n
  BY <1>0
<1>2. \A i \in 1..m : P[i] = f[a + i - 1]
  BY <1>0 DEF Part
<1>3. f \in [1..n -> Int]
  BY DEF SeriesOf
<1>4. IntsTo(P, m)
  BY <1>1, <1>2, <1>3 DEF IntsTo
<1>5. Over(f, a, b) = SumTo(P, m)
  BY <1>0 DEF Over, Part
<1>6. SumTo(P, m) \in Int
  BY <1>1, <1>4, SumIs
<1> QED
  BY <1>0, <1>1, <1>2, <1>4, <1>5, <1>6 DEF PartOf

\* The daily products of two series.
Products(x, y) == [i \in DOMAIN x |-> x[i] * y[i]]

\* The products of two series are a series.
LEMMA ProductsIs ==
  ASSUME NEW n \in Nat, NEW x, SeriesOf(x, n), NEW y, SeriesOf(y, n)
  PROVE  SeriesOf(Products(x, y), n) /\ \A i \in 1..n : Products(x, y)[i] = x[i] * y[i]
<1>1. x \in [1..n -> Int] /\ y \in [1..n -> Int] /\ DOMAIN x = 1..n
  BY DEF SeriesOf
<1>2. \A i \in 1..n : x[i] * y[i] \in Int
  BY <1>1
<1> QED
  BY <1>1, <1>2 DEF Products, SeriesOf

\* A moment is an integer, ...
LEMMA MomentIs ==
  ASSUME NEW n \in Nat, NEW x, SeriesOf(x, n), NEW y, SeriesOf(y, n), NEW a \in 1..n, NEW b \in a..n
  PROVE  /\ Moment(x, y, a, b) = (b - a + 1) * Over(Products(x, y), a, b) - Over(x, a, b) * Over(y, a, b)
         /\ Moment(x, y, a, b) \in Int
<1>1. SeriesOf(Products(x, y), n)
  BY ProductsIs
<1>2. Over(x, a, b) \in Int /\ Over(y, a, b) \in Int /\ Over(Products(x, y), a, b) \in Int
  BY <1>1, PartIs DEF PartOf
<1>3. Moment(x, y, a, b) = (b - a + 1) * Over(Products(x, y), a, b) - Over(x, a, b) * Over(y, a, b)
  BY DEF Moment, Products
<1>4. b - a + 1 \in Int
  OBVIOUS
<1> QED
  BY <1>2, <1>3, <1>4

\* ... and that of a series with itself is not negative.
LEMMA MomentNatural ==
  ASSUME NEW n \in Nat, NEW x, SeriesOf(x, n), NEW a \in 1..n, NEW b \in a..n
  PROVE  Moment(x, x, a, b) \in Nat
<1>1. PICK m : m = b - a + 1
  OBVIOUS
<1>2. PICK q : q = Products(x, x)
  OBVIOUS
<1>3. SeriesOf(q, n) /\ \A i \in 1..n : q[i] = x[i] * x[i]
  BY <1>2, ProductsIs
<1>4. PICK X : X = Part(x, a, b)
  OBVIOUS
<1>5. PICK Q : Q = Part(q, a, b)
  OBVIOUS
<1>6. m \in Nat /\ IntsTo(X, m) /\ (\A i \in 1..m : X[i] = x[a + i - 1] /\ a + i - 1 \in 1..n)
      /\ Over(x, a, b) = SumTo(X, m)
  <2>1. PartOf(X, x, a, b, m, n)
    BY <1>1, <1>4, PartIs
  <2> QED
    BY <2>1 DEF PartOf
<1>7. (\A i \in 1..m : Q[i] = q[a + i - 1]) /\ Over(q, a, b) = SumTo(Q, m)
  <2>1. PartOf(Q, q, a, b, m, n)
    BY <1>1, <1>3, <1>5, PartIs
  <2> QED
    BY <2>1 DEF PartOf
<1>8. SquaresOf(Q, X, m)
  BY <1>3, <1>6, <1>7 DEF SquaresOf
<1>9. m * SumTo(Q, m) - SumTo(X, m) * SumTo(X, m) >= 0
  BY <1>6, <1>8, VarianceIs
<1>10. Moment(x, x, a, b) = m * SumTo(Q, m) - SumTo(X, m) * SumTo(X, m) /\ Moment(x, x, a, b) \in Int
  BY <1>1, <1>2, <1>6, <1>7, MomentIs
<1> QED
  BY <1>9, <1>10

\* A quotient.
Quotient == Int \X Pos

\* A contribution is a quotient with a positive denominator.
LEMMA ContributionIs ==
  ASSUME NEW n \in Nat, NEW x, SeriesOf(x, n), NEW y, SeriesOf(y, n), NEW a \in 1..n, NEW b \in a..n
  PROVE  Contribution(x, y, a, b) \in Quotient
<1>1. Moment(y, y, a, b) \in Nat /\ Moment(x, y, a, b) \in Int
  BY MomentNatural, MomentIs
<1>2. 1 \in Pos /\ \A k \in Nat : k # 0 => k \in Pos
  BY DEF Pos
<1> QED
  BY <1>1, <1>2 DEF Contribution, Quotient

\* Two cells and the book they make up.
LEMMA MomentsAdd ==
  ASSUME NEW n \in Pos, NEW c, SeriesOf(c, n), NEW d, SeriesOf(d, n),
         NEW book, SeriesOf(book, n), \A i \in 1..n : book[i] = c[i] + d[i]
  PROVE  Moment(c, book, 1, n) + Moment(d, book, 1, n) = Moment(book, book, 1, n)
<1>0. n \in Nat /\ 1 \in 1..n /\ n \in 1..n /\ n = n - 1 + 1
  BY DEF Pos
<1>1. PICK p : p = Products(c, book)
  OBVIOUS
<1>2. PICK q : q = Products(d, book)
  OBVIOUS
<1>3. PICK s : s = Products(book, book)
  OBVIOUS
<1>4. /\ SeriesOf(p, n) /\ \A i \in 1..n : p[i] = c[i] * book[i]
      /\ SeriesOf(q, n) /\ \A i \in 1..n : q[i] = d[i] * book[i]
      /\ SeriesOf(s, n) /\ \A i \in 1..n : s[i] = book[i] * book[i]
  BY <1>0, <1>1, <1>2, <1>3, ProductsIs
<1>5. \A f : SeriesOf(f, n) => Over(f, 1, n) = SumTo(f, n) /\ SumTo(f, n) \in Int /\ IntsTo(f, n)
  <2> SUFFICES ASSUME NEW f, SeriesOf(f, n)
               PROVE  Over(f, 1, n) = SumTo(f, n) /\ SumTo(f, n) \in Int /\ IntsTo(f, n)
    OBVIOUS
  <2>1. PICK P : P = Part(f, 1, n)
    OBVIOUS
  <2>2. IntsTo(P, n) /\ (\A i \in 1..n : P[i] = f[1 + i - 1]) /\ Over(f, 1, n) = SumTo(P, n)
    <3>1. PartOf(P, f, 1, n, n - 1 + 1, n)
      BY <1>0, <2>1, PartIs
    <3> QED
      BY <1>0, <3>1 DEF PartOf
  <2>3. \A i \in 1..n : P[i] = f[i]
    <3>1. \A i \in 1..n : 1 + i - 1 = i
      OBVIOUS
    <3> QED
      BY <2>2, <3>1
  <2>4. SumTo(P, n) = SumTo(f, n)
    BY <1>0, <2>2, <2>3, SumSame
  <2>5. IntsTo(f, n)
    BY DEF IntsTo, SeriesOf
  <2> QED
    BY <1>0, <2>2, <2>4, <2>5, SumIs
<1>6. SumTo(book, n) = SumTo(c, n) + SumTo(d, n)
  BY <1>0, <1>5, SumAdds
<1>7. SumTo(s, n) = SumTo(p, n) + SumTo(q, n)
  <2>1. \A i \in 1..n : s[i] = p[i] + q[i]
    <3> SUFFICES ASSUME NEW i \in 1..n PROVE s[i] = p[i] + q[i]
      OBVIOUS
    <3>1. c[i] \in Int /\ d[i] \in Int /\ book[i] \in Int
      BY DEF SeriesOf
    <3>2. \A u, v, t \in Int : (u + v) * t = u * t + v * t
      OBVIOUS
    <3> QED
      BY <1>4, <3>1, <3>2
  <2> QED
    BY <1>0, <1>4, <1>5, <2>1, SumAdds
<1>8. PICK A \in Int, B \in Int, P \in Int, Q \in Int :
        A = SumTo(c, n) /\ B = SumTo(d, n) /\ P = SumTo(p, n) /\ Q = SumTo(q, n)
  BY <1>4, <1>5
<1>9. /\ Moment(c, book, 1, n) = n * P - A * (A + B)
      /\ Moment(d, book, 1, n) = n * Q - B * (A + B)
      /\ Moment(book, book, 1, n) = n * (P + Q) - (A + B) * (A + B)
  <2>1. Moment(c, book, 1, n) = n * SumTo(p, n) - SumTo(c, n) * SumTo(book, n)
    <3>1. Moment(c, book, 1, n) = (n - 1 + 1) * Over(p, 1, n) - Over(c, 1, n) * Over(book, 1, n)
      BY <1>0, <1>1, MomentIs
    <3> QED
      BY <1>0, <1>4, <1>5, <3>1
  <2>2. Moment(d, book, 1, n) = n * SumTo(q, n) - SumTo(d, n) * SumTo(book, n)
    <3>1. Moment(d, book, 1, n) = (n - 1 + 1) * Over(q, 1, n) - Over(d, 1, n) * Over(book, 1, n)
      BY <1>0, <1>2, MomentIs
    <3> QED
      BY <1>0, <1>4, <1>5, <3>1
  <2>3. Moment(book, book, 1, n) = n * SumTo(s, n) - SumTo(book, n) * SumTo(book, n)
    <3>1. Moment(book, book, 1, n) = (n - 1 + 1) * Over(s, 1, n) - Over(book, 1, n) * Over(book, 1, n)
      BY <1>0, <1>3, MomentIs
    <3> QED
      BY <1>0, <1>4, <1>5, <3>1
  <2> QED
    BY <2>1, <2>2, <2>3, <1>6, <1>7, <1>8
<1>10. \A l, u, v, x, y \in Int :
         (l * x - u * (u + v)) + (l * y - v * (u + v)) = l * (x + y) - (u + v) * (u + v)
  OBVIOUS
<1> QED
  BY <1>0, <1>8, <1>9, <1>10

\* R is a total order on S.
Orders(R, S) ==
  /\ \A a, b \in S : <<a, b>> \in R \/ <<b, a>> \in R
  /\ \A a, b, c \in S : <<a, b>> \in R /\ <<b, c>> \in R => <<a, c>> \in R

\* Of finitely many things in a total order there is a first.
LEMMA FirstExists ==
  ASSUME NEW S, IsFiniteSet(S), S # {}, NEW R, Orders(R, S)
  PROVE  \E a \in S : \A b \in S : <<a, b>> \in R
<1>0. /\ \A a, b \in S : <<a, b>> \in R \/ <<b, a>> \in R
      /\ \A a, b, c \in S : <<a, b>> \in R /\ <<b, c>> \in R => <<a, c>> \in R
  BY DEF Orders
<1> DEFINE n == Cardinality(S)
<1>1. n \in Nat
  BY FS_CardinalityType
<1>2. PICK g \in Bijection(1..n, S) : TRUE
  BY FS_CardinalityType, Fun_ExistsBij
<1> HIDE DEF n
<1>3. g \in [1..n -> S] /\ \A x \in S : \E i \in 1..n : g[i] = x
  BY <1>2 DEF Bijection, Surjection
<1> DEFINE T == {k \in 0..n : k = 0 \/ \E i \in 1..k : \A j \in 1..k : <<g[i], g[j]>> \in R}
<1>4. 0 \in T
  BY <1>1
<1>5. ASSUME NEW k \in 0..n-1, k \in T PROVE k + 1 \in T
  <2>1. k + 1 \in 1..n /\ k + 1 \in 0..n /\ 1..k + 1 = (1..k) \cup {k + 1} /\ 1..k \subseteq 1..n
    BY <1>1
  <2>2. g[k + 1] \in S /\ <<g[k + 1], g[k + 1]>> \in R
    BY <1>0, <1>3, <2>1
  <2>3. CASE k = 0
    <3>1. 1..k + 1 = {k + 1}
      BY <2>3
    <3> QED
      BY <2>1, <2>2, <3>1
  <2>4. CASE k # 0
    <3>1. PICK i \in 1..k : \A j \in 1..k : <<g[i], g[j]>> \in R
      BY <1>5, <2>4
    <3>2. g[i] \in S /\ \A j \in 1..k : g[j] \in S
      BY <1>3, <2>1
    <3>3. CASE <<g[i], g[k + 1]>> \in R
      BY <2>1, <3>1, <3>3
    <3>4. CASE <<g[k + 1], g[i]>> \in R
      <4>1. \A j \in 1..k : <<g[k + 1], g[j]>> \in R
        BY <1>0, <2>2, <3>1, <3>2, <3>4
      <4>2. \A j \in 1..k + 1 : <<g[k + 1], g[j]>> \in R
        BY <2>1, <2>2, <4>1
      <4>3. k + 1 \in 1..k + 1
        BY <2>1
      <4> QED
        BY <2>1, <4>2, <4>3
    <3> QED
      BY <1>0, <2>2, <3>2, <3>3, <3>4
  <2> QED
    BY <2>3, <2>4
<1> HIDE DEF T
<1>6. n \in T
  BY <1>1, <1>4, <1>5, CountUp
<1>7. n # 0
  BY <1>3
<1>8. PICK i \in 1..n : \A j \in 1..n : <<g[i], g[j]>> \in R
  BY <1>6, <1>7 DEF T
<1>9. g[i] \in S
  BY <1>3
<1>10. \A b \in S : <<g[i], b>> \in R
  BY <1>3, <1>8
<1> QED
  BY <1>9, <1>10

\* A positive factor may be dropped.
LEMMA DropFactor ==
  ASSUME NEW p \in Pos, NEW x \in Int, NEW y \in Int, x * p <= y * p
  PROVE  x <= y
<1> SUFFICES ASSUME x > y PROVE FALSE
  OBVIOUS
<1>1. PICK d \in Pos : x = y + d
  <2>1. x - y \in Pos /\ x = y + (x - y)
    BY DEF Pos
  <2> QED
    BY <2>1
<1>2. d * p \in Pos
  BY PosTimes
<1>3. d \in Int /\ p \in Int /\ \A z, u, v \in Int : (z + u) * v = z * v + u * v
  BY DEF Pos
<1>4. x * p = y * p + d * p
  BY <1>1, <1>3
<1>5. y * p \in Int /\ d * p \in Nat /\ d * p # 0
  BY <1>2, <1>3 DEF Pos
<1> QED
  BY <1>4, <1>5

\* Both sides may be multiplied by a positive factor.
LEMMA TakeFactor ==
  ASSUME NEW p \in Pos, NEW x \in Int, NEW y \in Int, x <= y
  PROVE  x * p <= y * p
<1>1. PICK d \in Nat : y = x + d
  <2>1. y - x \in Nat /\ y = x + (y - x)
    OBVIOUS
  <2> QED
    BY <2>1
<1>2. p \in Nat /\ \A z, u, v \in Int : (z + u) * v = z * v + u * v
  BY DEF Pos
<1>3. d * p \in Nat /\ x * p \in Int
  BY <1>2
<1>4. y * p = x * p + d * p
  BY <1>1, <1>2
<1> QED
  BY <1>3, <1>4

\* The two parts of a quotient.
LEMMA QuotientIs ==
  ASSUME NEW a \in Quotient
  PROVE  a[1] \in Int /\ a[2] \in Pos /\ a[2] \in Nat /\ a[2] \in Int
BY DEF Quotient, Pos

\* Leq orders the quotients: of two, one is not above the other, ...
LEMMA LeqTotal ==
  ASSUME NEW a \in Quotient, NEW b \in Quotient
  PROVE  Leq(a, b) \/ Leq(b, a)
<1>1. a[1] * b[2] \in Int /\ b[1] * a[2] \in Int
  BY QuotientIs
<1> QED
  BY <1>1 DEF Leq

\* ... and it is transitive.
LEMMA LeqTransitive ==
  ASSUME NEW a \in Quotient, NEW b \in Quotient, NEW c \in Quotient, Leq(a, b), Leq(b, c)
  PROVE  Leq(a, c)
<1>1. PICK x \in Int, p \in Pos : x = a[1] /\ p = a[2]
  BY QuotientIs
<1>2. PICK y \in Int, q \in Pos : y = b[1] /\ q = b[2]
  BY QuotientIs
<1>3. PICK z \in Int, s \in Pos : z = c[1] /\ s = c[2]
  BY QuotientIs
<1>4. x * q <= y * p /\ y * s <= z * q
  BY <1>1, <1>2, <1>3 DEF Leq
<1>5. p \in Int /\ q \in Int /\ s \in Int
  BY DEF Pos
<1>6. x * q \in Int /\ y * p \in Int /\ y * s \in Int /\ z * q \in Int /\ x * s \in Int /\ z * p \in Int
  BY <1>5
<1>7. (x * q) * s <= (y * p) * s
  BY <1>4, <1>6, TakeFactor
<1>8. (y * s) * p <= (z * q) * p
  BY <1>4, <1>6, TakeFactor
<1>9. \A u, v, t \in Int : (u * v) * t = (u * t) * v
  OBVIOUS
<1>10. (x * q) * s = (x * s) * q /\ (y * p) * s = (y * s) * p /\ (z * q) * p = (z * p) * q
  BY <1>5, <1>9
<1>11. (x * s) * q \in Int /\ (y * s) * p \in Int /\ (z * p) * q \in Int
  BY <1>5, <1>6
<1>12. (x * s) * q <= (z * p) * q
  BY <1>7, <1>8, <1>10, <1>11
<1>13. x * s <= z * p
  BY <1>6, <1>12, DropFactor
<1> QED
  BY <1>1, <1>3, <1>13 DEF Leq

\* Of finitely many quotients there is a lowest and a highest.
LEMMA RangeIs ==
  ASSUME NEW S, IsFiniteSet(S), S # {}, S \subseteq Quotient
  PROVE  /\ LowestOf(S) \in S /\ \A b \in S : Leq(LowestOf(S), b)
         /\ HighestOf(S) \in S /\ \A b \in S : Leq(b, HighestOf(S))
<1>1. \E a \in S : \A b \in S : Leq(a, b)
  <2> DEFINE R == {t \in S \X S : Leq(t[1], t[2])}
  <2>1. \A a, b \in S : <<a, b>> \in R <=> Leq(a, b)
    OBVIOUS
  <2> HIDE DEF R
  <2>2. Orders(R, S)
    <3>1. \A a, b \in S : Leq(a, b) \/ Leq(b, a)
      BY LeqTotal
    <3>2. \A a, b, c \in S : Leq(a, b) /\ Leq(b, c) => Leq(a, c)
      BY LeqTransitive
    <3> QED
      BY <2>1, <3>1, <3>2 DEF Orders
  <2>3. \E a \in S : \A b \in S : <<a, b>> \in R
    BY <2>2, FirstExists
  <2> QED
    BY <2>1, <2>3
<1>2. \E a \in S : \A b \in S : Leq(b, a)
  <2> DEFINE R == {t \in S \X S : Leq(t[2], t[1])}
  <2>1. \A a, b \in S : <<a, b>> \in R <=> Leq(b, a)
    OBVIOUS
  <2> HIDE DEF R
  <2>2. Orders(R, S)
    <3>1. \A a, b \in S : Leq(a, b) \/ Leq(b, a)
      BY LeqTotal
    <3>2. \A a, b, c \in S : Leq(c, b) /\ Leq(b, a) => Leq(c, a)
      BY LeqTransitive
    <3> QED
      BY <2>1, <3>1, <3>2 DEF Orders
  <2>3. \E a \in S : \A b \in S : <<a, b>> \in R
    BY <2>2, FirstExists
  <2> QED
    BY <2>1, <2>3
<1> QED
  BY <1>1, <1>2 DEF LowestOf, HighestOf

\* What is near the lowest is near what is above it.
LEMMA NearAbove ==
  ASSUME NEW l \in Quotient, NEW b \in Quotient, NEW h \in Quotient, Leq(l, b), Near(l, h)
  PROVE  Near(b, h)
<1>1. PICK x \in Int, p \in Pos : x = l[1] /\ p = l[2]
  BY QuotientIs
<1>2. PICK y \in Int, q \in Pos : y = b[1] /\ q = b[2]
  BY QuotientIs
<1>3. PICK z \in Int, s \in Pos : z = h[1] /\ s = h[2]
  BY QuotientIs
<1>4. x * q <= y * p /\ 5 * (z * p - x * s) <= 2 * p * s
  BY <1>1, <1>2, <1>3 DEF Leq, Near
<1>5. p \in Int /\ q \in Int /\ s \in Int
  BY DEF Pos
<1>6. x * q \in Int /\ y * p \in Int /\ 5 * (z * p - x * s) \in Int /\ 2 * p * s \in Int
  BY <1>5
<1>7. (x * q) * s <= (y * p) * s
  BY <1>4, <1>6, TakeFactor
<1>8. (5 * (z * p - x * s)) * q <= (2 * p * s) * q
  BY <1>4, <1>6, TakeFactor
<1>9. \A u, v, t, i, j, k \in Int :
        (5 * (t * i - u * k)) * j = 5 * (t * j - v * k) * i + 5 * ((v * i) * k - (u * j) * k)
  OBVIOUS
<1>10. (5 * (z * p - x * s)) * q = 5 * (z * q - y * s) * p + 5 * ((y * p) * s - (x * q) * s)
  BY <1>5, <1>9
<1>11. \A i, j, k \in Int : (2 * i * k) * j = (2 * j * k) * i
  OBVIOUS
<1>12. (2 * p * s) * q = (2 * q * s) * p
  BY <1>5, <1>11
<1>13. (y * p) * s \in Int /\ (x * q) * s \in Int /\ 5 * (z * q - y * s) \in Int /\ 2 * q * s \in Int
       /\ 5 * (z * q - y * s) * p \in Int /\ (2 * q * s) * p \in Int
  BY <1>5
<1>14. 5 * (z * q - y * s) * p <= (2 * q * s) * p
  BY <1>7, <1>8, <1>10, <1>12, <1>13
<1>15. 5 * (z * q - y * s) <= 2 * q * s
  BY <1>13, <1>14, DropFactor
<1> QED
  BY <1>2, <1>3, <1>15 DEF Near

\* The blocks lie within the series.
LEMMA BlocksInside ==
  ASSUME NEW n \in 1..Days, NEW size, size = Days \div n, NEW k \in 1..n
  PROVE  LET a == (k - 1) * size + 1
             b == IF k = n THEN Days ELSE k * size
         IN  a \in 1..Days /\ b \in a..Days
<1>1. Days \in Nat /\ n \in Nat /\ n > 0 /\ Days >= n
  BY StatisticsAssumption
<1>2. PICK d \in Nat : d = Days
  BY <1>1
<1>3. PICK m \in Nat : m = n /\ m > 0 /\ d >= m
  BY <1>1, <1>2
<1>4. size \in Nat /\ m * size <= d /\ d < m * size + m
  <2>1. size = d \div m
    BY <1>2, <1>3
  <2>2. d \div m \in Nat /\ d = m * (d \div m) + (d % m) /\ d % m \in 0..m-1
    BY <1>3
  <2> QED
    BY <2>1, <2>2, <1>3
<1>5. size >= 1
  <2> SUFFICES ASSUME size < 1 PROVE FALSE
    OBVIOUS
  <2>1. size = 0
    BY <1>4
  <2>2. m * size = 0
    BY <2>1, <1>3
  <2> QED
    BY <2>2, <1>3, <1>4
<1>6. k \in Nat /\ k >= 1 /\ k <= m /\ (k - 1) * size \in Nat /\ k * size \in Nat /\ k * size = (k - 1) * size + size
  BY <1>3, <1>4
<1>7. k * size <= m * size
  BY <1>3, <1>4, <1>6
<1>8. m * size \in Nat
  BY <1>3, <1>4
<1> QED
  BY <1>2, <1>3, <1>4, <1>5, <1>6, <1>7, <1>8

\* The values a range is taken from.
LEMMA BlockValuesAre ==
  ASSUME NEW x, SeriesOf(x, Days), NEW y, SeriesOf(y, Days), NEW n \in 1..Days
  PROVE  /\ IsFiniteSet(BlockValues(x, y, n)) /\ BlockValues(x, y, n) \subseteq Quotient
         /\ Contribution(x, y, 1, Days) \in BlockValues(x, y, n)
         /\ Contribution(x, y, 1, Days) \in Quotient
<1>1. Days \in Nat /\ 1 \in 1..Days /\ Days \in 1..Days
  BY StatisticsAssumption
<1>2. PICK size : size = Days \div n
  OBVIOUS
<1> DEFINE A(k) == (k - 1) * size + 1
           B(k) == IF k = n THEN Days ELSE k * size
           T == {Contribution(x, y, A(k), B(k)) : k \in 1..n}
           base == Contribution(x, y, 1, Days)
<1>3. base \in Quotient
  BY <1>1, ContributionIs
<1>4. \A k \in 1..n : A(k) \in 1..Days /\ B(k) \in A(k)..Days
  BY <1>2, BlocksInside
<1>5. BlockValues(x, y, n) = {base} \cup T
  BY <1>2 DEF BlockValues
<1> HIDE DEF A, B, base
<1>6. \A k \in 1..n : Contribution(x, y, A(k), B(k)) \in Quotient
  BY <1>1, <1>4, ContributionIs
<1>7. T \subseteq Quotient
  BY <1>6
<1>8. IsFiniteSet(T)
  <2> DEFINE f == [k \in 1..n |-> Contribution(x, y, A(k), B(k))]
  <2>1. f \in [1..n -> T] /\ \A t \in T : \E k \in 1..n : f[k] = t
    OBVIOUS
  <2> HIDE DEF f, T
  <2>2. IsFiniteSet(1..n)
    BY <1>1, FS_Interval
  <2> QED
    BY <2>1, <2>2, ImageFinite
<1> HIDE DEF T
<1>9. IsFiniteSet({base} \cup T)
  BY <1>8, FS_Singleton, FS_Union
<1> QED
  BY <1>3, <1>5, <1>7, <1>9 DEF base

\* Section 22, for any two cells.
LEMMA RangeIsPrudent ==
  ASSUME NEW x, SeriesOf(x, Days), NEW y, SeriesOf(y, Days), NEW n \in 1..Days,
         NEW g, g = RiskRange(x, y, n)
  PROVE  /\ Leq(g.low, g.base) /\ Leq(g.base, g.high)
         /\ Leq(g.base, SafeSide(g)) /\ Near(SafeSide(g), g.high)
<1>1. PICK thin : thin = (Days \div n < LeastBlock)
  OBVIOUS
<1>2. PICK base : base = Contribution(x, y, 1, Days)
  OBVIOUS
<1>3. PICK vs : vs = IF thin THEN {base} ELSE BlockValues(x, y, n)
  OBVIOUS
<1>4. g = [low |-> LowestOf(vs), base |-> base, high |-> HighestOf(vs),
           sure |-> ~thin /\ Near(LowestOf(vs), HighestOf(vs))]
  BY <1>1, <1>2, <1>3 DEF RiskRange
<1>5. IsFiniteSet(vs) /\ vs \subseteq Quotient /\ base \in vs
  <2>1. IsFiniteSet(BlockValues(x, y, n)) /\ BlockValues(x, y, n) \subseteq Quotient
        /\ base \in BlockValues(x, y, n) /\ base \in Quotient
    BY <1>2, BlockValuesAre
  <2>2. IsFiniteSet({base})
    BY FS_Singleton
  <2> QED
    BY <2>1, <2>2, <1>3
<1>6. PICK l, h : l = LowestOf(vs) /\ h = HighestOf(vs)
  OBVIOUS
<1>7. l \in vs /\ h \in vs /\ Leq(l, base) /\ Leq(base, h)
  <2>1. vs # {}
    BY <1>5
  <2> QED
    BY <2>1, <1>5, <1>6, RangeIs
<1>8. l \in Quotient /\ h \in Quotient /\ base \in Quotient
  BY <1>5, <1>7
<1>9. g.low = l /\ g.base = base /\ g.high = h /\ (g.sure => Near(l, h))
  <2>1. PICK sure : sure = (~thin /\ Near(LowestOf(vs), HighestOf(vs)))
    OBVIOUS
  <2>2. g = [low |-> l, base |-> base, high |-> h, sure |-> sure]
    BY <1>4, <1>6, <2>1 DEF Near
  <2>3. g.low = l /\ g.base = base /\ g.high = h /\ g.sure = sure
    BY <2>2
  <2>4. sure => Near(l, h)
    BY <2>1, <1>6
  <2> QED
    BY <2>3, <2>4
<1>10. SafeSide(g) = IF g.sure THEN base ELSE h
  BY <1>9 DEF SafeSide
<1>11. Leq(base, base)
  BY <1>8, LeqTotal
<1>12. Near(h, h)
  <2>1. PICK z \in Int, s \in Nat : z = h[1] /\ s = h[2]
    BY <1>8, QuotientIs
  <2>2. \A u \in Int, v \in Nat : 5 * (u * v - u * v) <= 2 * v * v
    <3> SUFFICES ASSUME NEW u \in Int, NEW v \in Nat PROVE 5 * (u * v - u * v) <= 2 * v * v
      OBVIOUS
    <3>1. u * v \in Int /\ v * v \in Nat /\ 2 * v * v = 2 * (v * v)
      OBVIOUS
    <3> QED
      BY <3>1
  <2> QED
    BY <2>1, <2>2 DEF Near
<1>13. CASE g.sure
  <2>1. Near(base, h)
    BY <1>7, <1>8, <1>9, <1>13, NearAbove
  <2> QED
    BY <1>7, <1>9, <1>10, <1>11, <1>13, <2>1
<1>14. CASE ~g.sure
  BY <1>7, <1>9, <1>10, <1>12, <1>14
<1> QED
  BY <1>13, <1>14

\* Section 22, for any two cells and the book they make up.
LEMMA ContributionsMakeUp ==
  ASSUME NEW c \in Series, NEW d \in Series, NEW n \in BlockCounts,
         sample = [of |-> "cells", c |-> c, d |-> d, blocks |-> n]
  PROVE  ContributionsAddUp
<1>1. Days \in Pos /\ Days \in Nat /\ n \in 1..Days
  BY StatisticsAssumption DEF Pos
<1>2. SeriesOf(c, Days) /\ SeriesOf(d, Days)
  BY SeriesIs
<1>3. PICK book : book = [i \in 1..Days |-> c[i] + d[i]]
  OBVIOUS
<1>4. SeriesOf(book, Days) /\ \A i \in 1..Days : book[i] = c[i] + d[i]
  <2>1. \A i \in 1..Days : c[i] \in Int /\ d[i] \in Int /\ c[i] + d[i] \in Int
    BY <1>2 DEF SeriesOf
  <2> QED
    BY <1>3, <2>1 DEF SeriesOf
<1>5. Moment(c, book, 1, Days) + Moment(d, book, 1, Days) = Moment(book, book, 1, Days)
  BY <1>1, <1>2, <1>4, MomentsAdd
<1>6. PICK x, y : x = Contribution(c, book, 1, Days) /\ y = Contribution(d, book, 1, Days)
  OBVIOUS
<1>7. Moment(book, book, 1, Days) # 0 => x[2] = y[2] /\ x[1] + y[1] = x[2]
  BY <1>5, <1>6 DEF Contribution
<1>8. PICK g : g = RiskRange(c, book, n)
  OBVIOUS
<1>9. /\ Leq(g.low, g.base) /\ Leq(g.base, g.high)
      /\ Leq(g.base, SafeSide(g)) /\ Near(SafeSide(g), g.high)
  BY <1>1, <1>2, <1>4, <1>8, RangeIsPrudent
<1>10. sample.c = c /\ sample.d = d /\ sample.blocks = n
  OBVIOUS
<1> QED
  BY <1>3, <1>6, <1>7, <1>8, <1>9, <1>10 DEF ContributionsAddUp

-----------------------------------------------------------------------------
(* Independent alphas, and projections.                                    *)

\* Section 19, for any three pairs.
LEMMA AlphasAreBounded ==
  ASSUME NEW p \in [1..3 -> [overlap : {0, 2}, corr : {-2, 0, 1}]],
         sample = [of |-> "alphas", pairs |-> p]
  PROVE  AlphasWithinBounds
<1>1. PICK s : s = [k \in DOMAIN p |-> CompositeOverlap(p[k])[1]]
  OBVIOUS
<1>2. \A k \in 1..3 : s[k] = p[k].overlap + Magnitude(p[k].corr)
  BY <1>1 DEF CompositeOverlap
<1>3. \A k \in 1..3 : p[k].overlap \in {0, 2} /\ p[k].corr \in {-2, 0, 1}
  OBVIOUS
<1>4. \A k \in 1..3 : s[k] \in 0..4 /\ (p[k].corr # 0 => s[k] >= 1)
  BY <1>2, <1>3 DEF Magnitude
<1>5. Len(s) = 3 /\ Len(p) = 3
  BY <1>1
<1>6. Plus(s) = s[1] + s[2] + s[3]
  <2>1. IntsTo(s, 3)
    BY <1>4 DEF IntsTo
  <2>2. SumTo(s, 0) = 0 /\ \A k \in 1..3 : SumTo(s, k) = SumTo(s, k - 1) + s[k]
    BY <2>1, SumIs
  <2>3. 1 - 1 = 0 /\ 2 - 1 = 1 /\ 3 - 1 = 2 /\ 1 \in 1..3 /\ 2 \in 1..3 /\ 3 \in 1..3
    OBVIOUS
  <2>4. SumTo(s, 1) = 0 + s[1] /\ SumTo(s, 2) = SumTo(s, 1) + s[2] /\ SumTo(s, 3) = SumTo(s, 2) + s[3]
    BY <2>2, <2>3
  <2>5. s[1] \in Int /\ s[2] \in Int /\ s[3] \in Int
    BY <1>4
  <2> QED
    BY <1>5, <2>4, <2>5 DEF Plus
<1>7. PICK t \in 0..12 : t = Plus(s) /\ \A k \in 1..3 : s[k] <= t
  <2>1. s[1] \in 0..4 /\ s[2] \in 0..4 /\ s[3] \in 0..4
    BY <1>4
  <2>2. \A k \in 1..3 : k = 1 \/ k = 2 \/ k = 3
    OBVIOUS
  <2>3. Plus(s) \in 0..12 /\ s[1] <= Plus(s) /\ s[2] <= Plus(s) /\ s[3] <= Plus(s)
    BY <1>6, <2>1
  <2> QED
    BY <2>2, <2>3
<1>8. PICK e : e = EffectiveAlphas(3, p)
  OBVIOUS
<1>9. e = <<12 + 2 * (12 - t), 12>>
  <2>1. EffectiveAlphas(3, p) = <<4 * 3 + (3 - 1) * (4 * 3 - Plus(s)), 4 * 3>>
    BY <1>1, <1>5 DEF EffectiveAlphas
  <2>2. 4 * 3 + (3 - 1) * (4 * 3 - t) = 12 + 2 * (12 - t) /\ 4 * 3 = 12
    OBVIOUS
  <2> QED
    BY <1>7, <1>8, <2>1, <2>2
<1>10. e[1] = 12 + 2 * (12 - t) /\ e[2] = 12
  BY <1>9
<1>11. Leq(<<1, 1>>, e) /\ Leq(e, <<3, 1>>) /\ (t >= 1 => ~Leq(<<3, 1>>, e))
  BY <1>10 DEF Leq
<1>12. ASSUME NEW k \in 1..3, p[k].corr # 0 PROVE t >= 1
  BY <1>4, <1>7, <1>12
<1>13. sample.pairs = p
  OBVIOUS
<1> QED
  BY <1>8, <1>11, <1>12, <1>13 DEF AlphasWithinBounds

\* What ScaleConfidence says.
LEMMA ScaleIs ==
  ASSUME NEW lo \in Pos, NEW hi \in Pos, lo <= hi, NEW t \in Pos
  PROVE  /\ t > hi => ScaleConfidence(lo, hi, t) = IF t <= Factor * hi THEN <<8, 10>> ELSE <<hi, t>>
         /\ t < lo => ScaleConfidence(lo, hi, t) = IF lo <= Factor * t THEN <<8, 10>> ELSE <<t, lo>>
         /\ lo <= t /\ t <= hi => ScaleConfidence(lo, hi, t) = <<8, 10>>
<1>1. Factor \in Nat /\ Factor >= 1 /\ lo \in Nat /\ hi \in Nat /\ t \in Nat
  BY StatisticsAssumption DEF Pos
<1>2. PICK e : e = ExcessRatio(lo, hi, t)
  OBVIOUS
<1>3. ScaleConfidence(lo, hi, t) = IF Leq(e, <<Factor, 1>>) THEN <<8, 10>> ELSE <<e[2], e[1]>>
  BY <1>2 DEF ScaleConfidence
<1>4. \A x, y \in Nat : Leq(<<x, y>>, <<Factor, 1>>) <=> x <= Factor * y
  BY <1>1 DEF Leq
<1>5. CASE t > hi
  <2>1. e = <<t, hi>>
    BY <1>2, <1>5 DEF ExcessRatio
  <2>2. ~(t < lo) /\ ~(t <= hi)
    BY <1>1, <1>5
  <2> QED
    BY <1>1, <1>3, <1>4, <2>1, <2>2
<1>6. CASE t < lo
  <2>1. ~(t > hi)
    BY <1>1, <1>6
  <2>2. e = <<lo, t>>
    BY <1>2, <1>6, <2>1 DEF ExcessRatio
  <2>3. ~(lo <= t)
    BY <1>1, <1>6
  <2> QED
    BY <1>1, <1>3, <1>4, <2>1, <2>2, <2>3
<1>7. CASE ~(t > hi) /\ ~(t < lo)
  <2>1. e = <<1, 1>>
    BY <1>2, <1>7 DEF ExcessRatio
  <2>2. Leq(e, <<Factor, 1>>)
    BY <1>1, <1>4, <2>1
  <2> QED
    BY <1>3, <1>7, <2>2
<1> QED
  BY <1>5, <1>6, <1>7

\* Section 25, for any range and target.
LEMMA FartherIsNotSurer ==
  ASSUME NEW lo \in 1..3 * Factor, NEW hi \in 1..3 * Factor, NEW t \in 1..3 * Factor, lo <= hi,
         sample = [of |-> "scale", lo |-> lo, hi |-> hi, target |-> t]
  PROVE  FartherIsNeverSurer
<1>1. Factor \in Nat /\ Factor >= 1
  BY StatisticsAssumption
<1>2. lo \in Pos /\ hi \in Pos /\ t \in Pos /\ lo \in Nat /\ hi \in Nat /\ t \in Nat
  BY <1>1 DEF Pos
<1> DEFINE c(u) == ScaleConfidence(lo, hi, u)
<1>3. \A u \in Nat : Factor = 1 => Factor * u = u
  BY <1>1
<1>4. \A u \in Nat : Factor # 1 => Factor * u >= 2 * u
  <2> SUFFICES ASSUME NEW u \in Nat, Factor # 1 PROVE Factor * u >= 2 * u
    OBVIOUS
  <2>1. PICK f \in Nat : Factor = f + 2
    <3>1. Factor - 2 \in Nat /\ Factor = (Factor - 2) + 2
      BY <1>1
    <3> QED
      BY <3>1
  <2>2. (f + 2) * u = f * u + 2 * u /\ f * u \in Nat
    OBVIOUS
  <2> QED
    BY <2>1, <2>2
<1>5. \A u \in Nat : Factor * u \in Nat
  BY <1>1
<1>6. Factor = 1 => lo <= 3 /\ hi <= 3 /\ t <= 3
  BY <1>1
<1>7. Leq(<<8, 10>>, <<8, 10>>)
  BY DEF Leq
<1>8. ASSUME t > 1, t <= lo PROVE Leq(c(t - 1), c(t))
  <2>1. t - 1 \in Pos /\ t - 1 \in Nat /\ t - 1 < lo
    BY <1>2, <1>8 DEF Pos
  <2>2. c(t - 1) = IF lo <= Factor * (t - 1) THEN <<8, 10>> ELSE <<t - 1, lo>>
    BY <1>2, <2>1, ScaleIs
  <2>3. c(t) = IF t = lo \/ lo <= Factor * t THEN <<8, 10>> ELSE <<t, lo>>
    <3>1. CASE t = lo
      <4>1. lo <= t /\ t <= hi
        BY <3>1, <1>2
      <4> QED
        BY <3>1, <4>1, <1>2, ScaleIs
    <3>2. CASE t # lo
      <4>1. t < lo
        BY <3>2, <1>2, <1>8
      <4> QED
        BY <3>2, <4>1, <1>2, ScaleIs
    <3> QED
      BY <3>1, <3>2
  <2> HIDE DEF c
  <2>4. Factor * t = Factor * (t - 1) + Factor
    BY <1>1, <1>2
  <2>5. CASE lo <= Factor * (t - 1)
    <3>1. lo <= Factor * t
      BY <1>1, <1>2, <1>5, <2>1, <2>4, <2>5
    <3> QED
      BY <1>7, <2>2, <2>3, <2>5, <3>1
  <2>6. CASE ~(lo <= Factor * (t - 1))
    <3>1. c(t - 1) = <<t - 1, lo>>
      BY <2>2, <2>6
    <3>2. CASE c(t) = <<8, 10>>
      <4>1. (t - 1) * 10 <= 8 * lo
        <5>1. CASE Factor = 1
          BY <1>2, <1>6, <1>8, <2>1, <5>1
        <5>2. CASE Factor # 1
          <6>1. Factor * (t - 1) >= 2 * (t - 1)
            BY <1>4, <2>1, <5>2
          <6> QED
            BY <1>2, <1>5, <2>1, <2>6, <6>1
        <5> QED
          BY <5>1, <5>2
      <4> QED
        BY <3>1, <3>2, <4>1 DEF Leq
    <3>3. CASE c(t) = <<t, lo>>
      <4>1. \A u, v \in Nat : (u - 1) * v <= u * v
        OBVIOUS
      <4>2. (t - 1) * lo <= t * lo
        BY <4>1, <1>2
      <4> QED
        BY <3>1, <3>3, <4>2 DEF Leq
    <3> QED
      BY <2>3, <3>2, <3>3
  <2> QED
    BY <2>5, <2>6
<1>9. ASSUME t >= hi PROVE Leq(c(t + 1), c(t))
  <2>1. t + 1 \in Pos /\ t + 1 \in Nat /\ t + 1 > hi
    BY <1>2, <1>9 DEF Pos
  <2>2. c(t + 1) = IF t + 1 <= Factor * hi THEN <<8, 10>> ELSE <<hi, t + 1>>
    BY <1>2, <2>1, ScaleIs
  <2>3. c(t) = IF t = hi \/ t <= Factor * hi THEN <<8, 10>> ELSE <<hi, t>>
    <3>1. CASE t = hi
      <4>1. lo <= t /\ t <= hi
        BY <3>1, <1>2
      <4> QED
        BY <3>1, <4>1, <1>2, ScaleIs
    <3>2. CASE t # hi
      <4>1. t > hi
        BY <3>2, <1>2, <1>9
      <4> QED
        BY <3>2, <4>1, <1>2, ScaleIs
    <3> QED
      BY <3>1, <3>2
  <2> HIDE DEF c
  <2>5. CASE t + 1 <= Factor * hi
    <3>1. t <= Factor * hi
      BY <1>2, <1>5, <2>5
    <3> QED
      BY <1>7, <2>2, <2>3, <2>5, <3>1
  <2>6. CASE ~(t + 1 <= Factor * hi)
    <3>1. c(t + 1) = <<hi, t + 1>>
      BY <2>2, <2>6
    <3>2. CASE c(t) = <<8, 10>>
      <4>1. hi * 10 <= 8 * (t + 1)
        <5>1. CASE Factor = 1
          BY <1>2, <1>6, <1>9, <2>1, <5>1
        <5>2. CASE Factor # 1
          <6>1. Factor * hi >= 2 * hi
            BY <1>4, <1>2, <5>2
          <6> QED
            BY <1>2, <1>5, <2>1, <2>6, <6>1
        <5> QED
          BY <5>1, <5>2
      <4> QED
        BY <3>1, <3>2, <4>1 DEF Leq
    <3>3. CASE c(t) = <<hi, t>>
      <4>1. \A u, v \in Nat : v * u <= v * (u + 1)
        OBVIOUS
      <4>2. hi * t <= hi * (t + 1)
        BY <4>1, <1>2
      <4> QED
        BY <3>1, <3>3, <4>2 DEF Leq
    <3> QED
      BY <2>3, <3>2, <3>3
  <2> QED
    BY <2>5, <2>6
<1>10. ASSUME t * Factor < lo PROVE ~Leq(<<8, 10>>, c(t))
  <2>1. t * Factor = Factor * t /\ Factor * t \in Nat /\ Factor * t >= t
    <3>1. \A u, v \in Nat : u * v = v * u
      OBVIOUS
    <3>2. CASE Factor = 1
      BY <1>1, <1>2, <1>3, <1>5, <3>1, <3>2
    <3>3. CASE Factor # 1
      BY <1>1, <1>2, <1>4, <1>5, <3>1, <3>3
    <3> QED
      BY <3>2, <3>3
  <2>2. t < lo /\ ~(lo <= Factor * t)
    BY <1>2, <1>10, <2>1
  <2>3. c(t) = <<t, lo>>
    BY <1>2, <2>2, ScaleIs
  <2>4. ~(8 * lo <= t * 10)
    <3>1. CASE Factor = 1
      BY <1>2, <1>6, <2>2, <3>1
    <3>2. CASE Factor # 1
      <4>1. Factor * t >= 2 * t
        BY <1>4, <1>2, <3>2
      <4> QED
        BY <1>2, <2>1, <2>2, <4>1
    <3> QED
      BY <3>1, <3>2
  <2> HIDE DEF c
  <2> QED
    BY <2>3, <2>4 DEF Leq
<1>11. sample.lo = lo /\ sample.hi = hi /\ sample.target = t
  OBVIOUS
<1> QED
  BY <1>8, <1>9, <1>10, <1>11 DEF FartherIsNeverSurer

-----------------------------------------------------------------------------
(* Clusters: union-find.                                                   *)

\* The steps up from an item.
GoesUp(U, P, x, n) ==
  U \in [0..n -> 1..n] /\ U[0] = x /\ \A k \in 1..n : U[k] = P[U[k - 1]]

\* Up lists them.
LEMMA UpRuns ==
  ASSUME NEW n \in Nat, NEW P \in [1..n -> 1..n], NEW x \in 1..n
  PROVE  GoesUp(Up(P, x), P, x, n)
<1>0. Len(P) = n
  OBVIOUS
<1> DEFINE T == 1..n
           step == [a \in T \X (1..n) |-> P[a[1]]]
<1>1. x \in T /\ \A a \in T : P[a] \in T
  OBVIOUS
<1>2. \A a \in T, k \in 1..n : step[<<a, k>>] = P[a]
  OBVIOUS
<1>3. \E g : RunOf(g, T, x, n, step)
  <2>1. BodyOf(T, n, step)
    BY <1>1, <1>2 DEF BodyOf
  <2> HIDE DEF T, step
  <2> QED
    BY <1>1, <2>1, LoopExists
<1>4. PICK g : RunOf(g, T, x, n, step)
  BY <1>3
<1>5. g \in [0..n -> T] /\ g[0] = x /\ \A k \in 1..n : g[k] = step[<<g[k - 1], k>>]
  BY <1>4 DEF RunOf
<1> HIDE DEF T, step
<1>6. \A k \in 1..n : k - 1 \in 0..n /\ g[k - 1] \in T
  BY <1>5
<1>7. \A k \in 1..n : g[k] = P[g[k - 1]]
  BY <1>2, <1>5, <1>6
<1>8. g = [k \in 0..n |-> IF k = 0 THEN x ELSE P[g[k - 1]]]
  BY <1>5, <1>7
<1>9. \E h : h = [k \in 0..n |-> IF k = 0 THEN x ELSE P[h[k - 1]]]
  BY <1>8
<1>10. PICK m : m = Up(P, x)
  OBVIOUS
<1>11. m = [k \in 0..n |-> IF k = 0 THEN x ELSE P[m[k - 1]]]
  BY <1>0, <1>9, <1>10 DEF Up
<1>12. m[0] = x /\ \A k \in 1..n : m[k] = P[m[k - 1]]
  <2>1. 0 \in 0..n /\ \A k \in 1..n : k \in 0..n /\ k # 0
    OBVIOUS
  <2>2. \A k \in 0..n : m[k] = IF k = 0 THEN x ELSE P[m[k - 1]]
    BY <1>11
  <2> QED
    BY <2>1, <2>2
<1> DEFINE S == {k \in 0..n : m[k] \in T}
<1>13. \A k \in 0..n : k \in S
  <2>1. 0 \in S
    BY <1>1, <1>12
  <2>2. ASSUME NEW k \in 0..n-1, k \in S PROVE k + 1 \in S
    <3>1. k + 1 \in 1..n /\ k + 1 \in 0..n /\ (k + 1) - 1 = k
      OBVIOUS
    <3>2. m[k] \in T /\ m[k + 1] = P[m[k]]
      BY <1>12, <2>2, <3>1
    <3> QED
      BY <1>1, <3>1, <3>2
  <2> HIDE DEF S
  <2> QED
    BY <2>1, <2>2, CountUp
<1>14. m \in [0..n -> T]
  <2>1. \A k \in 0..n : m[k] \in T
    BY <1>13
  <2> QED
    BY <1>11, <2>1
<1> QED
  BY <1>10, <1>12, <1>14 DEF T, GoesUp

\* The items that are their own parent; d steps lead everybody to one of them, there
\* being d items that are not.
RootsOf(P, n) == {x \in 1..n : P[x] = x}
Forest(P, n, d) ==
  /\ P \in [1..n -> 1..n] /\ d \in 0..n
  /\ Cardinality(RootsOf(P, n)) = n - d
  /\ \A x \in 1..n : Up(P, x)[d] \in RootsOf(P, n)

\* After d steps nothing changes.
StaysAt(P, x, d, n) == \A k \in d..n : Up(P, x)[k] = Up(P, x)[d]

\* Whoever is at a root stays there.
LEMMA RootsStay ==
  ASSUME NEW n \in Nat, NEW P \in [1..n -> 1..n], NEW x \in 1..n, NEW d \in 0..n,
         Up(P, x)[d] \in RootsOf(P, n)
  PROVE  StaysAt(P, x, d, n)
<1>1. PICK U, r : U = Up(P, x) /\ r = U[d] /\ r \in RootsOf(P, n)
  OBVIOUS
<1>2. U \in [0..n -> 1..n] /\ \A k \in 1..n : U[k] = P[U[k - 1]]
  <2>1. GoesUp(U, P, x, n)
    BY <1>1, UpRuns
  <2> QED
    BY <2>1 DEF GoesUp
<1> DEFINE S == {k \in 0..n : k >= d => U[k] = r}
<1>3. 0 \in S
  BY <1>1
<1>4. ASSUME NEW k \in 0..n-1, k \in S PROVE k + 1 \in S
  <2>1. k + 1 \in 1..n /\ k + 1 \in 0..n /\ (k + 1) - 1 = k
    OBVIOUS
  <2>2. CASE k >= d
    BY <1>1, <1>2, <1>4, <2>1, <2>2 DEF RootsOf
  <2>3. CASE k + 1 = d
    BY <1>1, <2>1, <2>3
  <2>4. CASE k + 1 < d
    BY <2>1, <2>4
  <2> QED
    BY <2>2, <2>3, <2>4
<1> HIDE DEF S
<1>5. \A k \in 0..n : k \in S
  BY <1>3, <1>4, CountUp
<1>6. \A k \in d..n : k \in 0..n /\ k >= d
  OBVIOUS
<1> QED
  BY <1>1, <1>5, <1>6 DEF S, StaysAt

\* In a forest the way up ends at a root.
LEMMA RootIs ==
  ASSUME NEW n \in Nat, NEW d, NEW P, Forest(P, n, d), NEW x \in 1..n
  PROVE  Root(P, x) = Up(P, x)[d] /\ Root(P, x) \in RootsOf(P, n) /\ Root(P, x) \in 1..n
<1>1. P \in [1..n -> 1..n] /\ d \in 0..n /\ Up(P, x)[d] \in RootsOf(P, n)
  BY DEF Forest
<1>2. Up(P, x)[n] = Up(P, x)[d]
  <2>1. n \in d..n
    BY <1>1
  <2>2. StaysAt(P, x, d, n)
    BY <1>1, RootsStay
  <2> QED
    BY <2>1, <2>2 DEF StaysAt
<1>3. Root(P, x) = Up(P, x)[n]
  BY <1>1 DEF Root
<1> QED
  BY <1>1, <1>2, <1>3 DEF RootsOf

\* A root is the root of itself.
LEMMA RootOfRoot ==
  ASSUME NEW n \in Nat, NEW d, NEW P, Forest(P, n, d), NEW x \in RootsOf(P, n)
  PROVE  Root(P, x) = x
<1>1. P \in [1..n -> 1..n] /\ x \in 1..n
  BY DEF Forest, RootsOf
<1>2. Up(P, x)[0] = x
  BY <1>1, UpRuns DEF GoesUp
<1>3. 0 \in 0..n /\ n \in 0..n
  OBVIOUS
<1>4. Up(P, x)[n] = x
  <2>1. Up(P, x)[0] \in RootsOf(P, n)
    BY <1>2
  <2>2. StaysAt(P, x, 0, n)
    BY <1>1, <1>3, <2>1, RootsStay
  <2> QED
    BY <1>2, <1>3, <2>2 DEF StaysAt
<1> QED
  BY <1>1, <1>4 DEF Root

\* Before anything is merged everybody is a root.
LEMMA ForestInit ==
  ASSUME NEW n \in Nat, NEW P, P = [x \in 1..n |-> x]
  PROVE  Forest(P, n, 0) /\ \A x \in 1..n : Root(P, x) = x
<1>1. P \in [1..n -> 1..n] /\ RootsOf(P, n) = 1..n
  BY DEF RootsOf
<1>2. Cardinality(1..n) = n
  BY FS_Interval
<1>3. \A x \in 1..n : Up(P, x)[0] = x
  BY <1>1, UpRuns DEF GoesUp
<1>4. Forest(P, n, 0)
  BY <1>1, <1>2, <1>3 DEF Forest
<1> QED
  BY <1>1, <1>4, RootOfRoot

\* Q is P with root a hung below root b.
HungBelow(Q, P, a, b) == Q = [P EXCEPT ![a] = b]

\* What happens to the way up from z.
LEMMA WayUp ==
  ASSUME NEW n \in Nat, NEW d, NEW P, Forest(P, n, d), d < n, NEW a \in RootsOf(P, n),
         NEW b \in RootsOf(P, n), a # b, NEW Q, HungBelow(Q, P, a, b), NEW z \in 1..n
  PROVE  Up(Q, z)[d + 1] = IF Root(P, z) = a THEN b ELSE Root(P, z)
<1>1. P \in [1..n -> 1..n] /\ d \in 0..n /\ a \in 1..n /\ b \in 1..n /\ P[a] = a /\ P[b] = b
  BY DEF Forest, RootsOf
<1>2. Q \in [1..n -> 1..n] /\ Q[a] = b /\ Q[b] = b /\ \A x \in 1..n : x # a => Q[x] = P[x]
  BY <1>1 DEF HungBelow
<1>3. PICK U : U = Up(P, z)
  OBVIOUS
<1>4. PICK V : V = Up(Q, z)
  OBVIOUS
<1>5. U \in [0..n -> 1..n] /\ U[0] = z /\ \A k \in 1..n : U[k] = P[U[k - 1]]
  <2>1. GoesUp(U, P, z, n)
    BY <1>1, <1>3, UpRuns
  <2> QED
    BY <2>1 DEF GoesUp
<1>6. V \in [0..n -> 1..n] /\ V[0] = z /\ \A k \in 1..n : V[k] = Q[V[k - 1]]
  <2>1. GoesUp(V, Q, z, n)
    BY <1>2, <1>4, UpRuns
  <2> QED
    BY <2>1 DEF GoesUp
<1>7. Root(P, z) = U[d] /\ U[d] \in RootsOf(P, n)
  BY <1>3, RootIs
<1> DEFINE S == {k \in 0..n : V[k] = U[k] \/ (V[k] = b /\ \E j \in 0..k : U[j] = a)}
<1>8. 0 \in S
  BY <1>5, <1>6
<1>9. ASSUME NEW k \in 0..n-1, k \in S PROVE k + 1 \in S
  <2>1. k + 1 \in 1..n /\ k + 1 \in 0..n /\ (k + 1) - 1 = k /\ k \in 0..n /\ 0..k \subseteq 0..k + 1
    OBVIOUS
  <2>2. V[k + 1] = Q[V[k]] /\ U[k + 1] = P[U[k]] /\ U[k] \in 1..n
    BY <1>5, <1>6, <2>1
  <2>3. CASE V[k] = b /\ \E j \in 0..k : U[j] = a
    BY <1>2, <2>1, <2>2, <2>3
  <2>4. CASE V[k] = U[k] /\ U[k] = a
    <3>1. V[k + 1] = b
      BY <1>2, <2>2, <2>4
    <3>2. k \in 0..k + 1
      OBVIOUS
    <3> QED
      BY <2>1, <2>4, <3>1, <3>2
  <2>5. CASE V[k] = U[k] /\ U[k] # a
    BY <1>2, <2>1, <2>2, <2>5
  <2> QED
    BY <1>9, <2>3, <2>4, <2>5
<1> HIDE DEF S
<1>10. \A k \in 0..n : k \in S
  BY <1>8, <1>9, CountUp
<1>11. d \in 0..n /\ d + 1 \in 1..n /\ (d + 1) - 1 = d
  BY <1>1
<1>12. V[d] = U[d] \/ (V[d] = b /\ \E j \in 0..d : U[j] = a)
  BY <1>10, <1>11 DEF S
<1>13. V[d + 1] = Q[V[d]]
  BY <1>6, <1>11
<1>14. ASSUME NEW j \in 0..d, U[j] = a PROVE U[d] = a
  <2>1. j \in 0..n /\ d \in j..n
    BY <1>11
  <2> QED
    <3>1. Up(P, z)[j] \in RootsOf(P, n)
      BY <1>3, <1>14
    <3>2. StaysAt(P, z, j, n)
      BY <1>1, <2>1, <3>1, RootsStay
    <3> QED
      BY <1>3, <1>14, <2>1, <3>2 DEF StaysAt
<1>15. CASE U[d] = a
  BY <1>2, <1>4, <1>7, <1>12, <1>13, <1>15
<1>16. CASE U[d] # a
  <2>1. V[d] = U[d]
    BY <1>12, <1>14, <1>16
  <2>2. Q[U[d]] = U[d]
    BY <1>2, <1>7, <1>16 DEF RootsOf
  <2> QED
    BY <1>4, <1>7, <1>13, <1>16, <2>1, <2>2
<1> QED
  BY <1>15, <1>16

\* Merging two trees makes one of them.
LEMMA ForestUnion ==
  ASSUME NEW n \in Nat, NEW d, NEW P, Forest(P, n, d), NEW a \in RootsOf(P, n),
         NEW b \in RootsOf(P, n), a # b, NEW Q, HungBelow(Q, P, a, b)
  PROVE  /\ d < n /\ Forest(Q, n, d + 1)
         /\ \A z \in 1..n : Root(Q, z) = IF Root(P, z) = a THEN b ELSE Root(P, z)
<1>1. P \in [1..n -> 1..n] /\ d \in 0..n /\ a \in 1..n /\ b \in 1..n /\ P[a] = a /\ P[b] = b
  BY DEF Forest, RootsOf
<1>2. Q \in [1..n -> 1..n] /\ Q[a] = b /\ \A x \in 1..n : x # a => Q[x] = P[x]
  BY <1>1 DEF HungBelow
<1>3. RootsOf(Q, n) = RootsOf(P, n) \ {a}
  BY <1>1, <1>2 DEF RootsOf
<1>4. IsFiniteSet(RootsOf(P, n))
  <2>1. RootsOf(P, n) \subseteq 1..n
    BY DEF RootsOf
  <2> QED
    BY <2>1, FS_Interval, FS_Subset
<1>5. Cardinality(RootsOf(P, n)) = n - d
  BY DEF Forest
<1>6. Cardinality(RootsOf(Q, n)) = (n - d) - 1 /\ IsFiniteSet(RootsOf(Q, n))
  BY <1>3, <1>4, <1>5, FS_RemoveElement
<1>7. d < n
  <2>1. Cardinality(RootsOf(Q, n)) \in Nat
    BY <1>6, FS_CardinalityType
  <2> QED
    BY <1>1, <1>6, <2>1
<1>8. \A z \in 1..n : Up(Q, z)[d + 1] = IF Root(P, z) = a THEN b ELSE Root(P, z)
  BY <1>7, WayUp
<1>9. \A z \in 1..n : Up(Q, z)[d + 1] \in RootsOf(Q, n)
  <2>1. \A z \in 1..n : Root(P, z) \in RootsOf(P, n)
    BY RootIs
  <2> QED
    BY <1>3, <1>8, <2>1
<1>10. Forest(Q, n, d + 1)
  <2>1. d + 1 \in 0..n /\ n - (d + 1) = (n - d) - 1
    BY <1>1, <1>7
  <2> QED
    BY <1>2, <1>6, <1>9, <2>1 DEF Forest
<1>11. \A z \in 1..n : Root(Q, z) = Up(Q, z)[d + 1]
  BY <1>10, RootIs
<1> QED
  BY <1>7, <1>8, <1>10, <1>11

\* Links L connect all of C: no part of it is cut off from the rest.
Linked(C, L) ==
  \A T \in SUBSET C : T # {} /\ T # C => \E u \in T, v \in C \ T : <<u, v>> \in L

\* Two linked sets with a link between them are one.
LEMMA LinkedUnion ==
  ASSUME NEW A, NEW B, NEW L, Linked(A, L), Linked(B, L), NEW i \in A, NEW j \in B,
         <<i, j>> \in L, <<j, i>> \in L
  PROVE  Linked(A \cup B, L)
<1> SUFFICES ASSUME NEW T \in SUBSET (A \cup B), T # {}, T # A \cup B
             PROVE  \E u \in T, v \in (A \cup B) \ T : <<u, v>> \in L
  BY DEF Linked
<1>1. CASE T \cap A # {} /\ T \cap A # A
  <2>1. PICK u \in T \cap A, v \in A \ (T \cap A) : <<u, v>> \in L
    BY <1>1 DEF Linked
  <2> QED
    BY <2>1
<1>2. CASE T \cap B # {} /\ T \cap B # B
  <2>1. PICK u \in T \cap B, v \in B \ (T \cap B) : <<u, v>> \in L
    BY <1>2 DEF Linked
  <2> QED
    BY <2>1
<1>3. CASE ~(T \cap A # {} /\ T \cap A # A) /\ ~(T \cap B # {} /\ T \cap B # B)
  <2>1. CASE T \cap A = A
    <3>1. T \cap B # B
      BY <2>1
    <3>2. T \cap B = {}
      BY <3>1, <1>3
    <3>3. i \in T /\ j \in (A \cup B) \ T
      BY <2>1, <3>2
    <3> QED
      BY <3>3
  <2>2. CASE T \cap A # A
    <3>1. T \cap A = {}
      BY <2>2, <1>3
    <3>2. T \cap B # {}
      BY <3>1
    <3>3. T \cap B = B
      BY <3>2, <1>3
    <3>4. j \in T /\ i \in (A \cup B) \ T
      BY <3>1, <3>3
    <3> QED
      BY <3>4
  <2> QED
    BY <2>1, <2>2
<1> QED
  BY <1>1, <1>2, <1>3

\* The items of one tree.
TreeOf(P, n, r) == {z \in 1..n : Root(P, z) = r}

\* The pairs that are alike, both ways round.
LinksOf(ids, similar, n) == {t \in (1..n) \X (1..n) : {ids[t[1]], ids[t[2]]} \in similar}

\* A round of the loop puts two items that are alike under one root, and nothing else.
LEMMA VisitIs ==
  ASSUME NEW n \in Nat, NEW d, NEW P, Forest(P, n, d), NEW ids, NEW similar,
         NEW L, L = LinksOf(ids, similar, n), NEW i \in 1..n, NEW j \in 1..n,
         \A r \in 1..n : Linked(TreeOf(P, n, r), L),
         NEW Q, Q = Visit(P, ids, similar, i, j)
  PROVE  /\ \E e \in 0..n : Forest(Q, n, e)
         /\ i < j /\ <<i, j>> \in L => Root(Q, i) = Root(Q, j)
         /\ \A x, y \in 1..n : Root(P, x) = Root(P, y) => Root(Q, x) = Root(Q, y)
         /\ \A r \in 1..n : Linked(TreeOf(Q, n, r), L)
<1>0. d \in 0..n
  BY DEF Forest
<1>1. \A x, y \in 1..n : <<x, y>> \in L <=> {ids[x], ids[y]} \in similar
  BY DEF LinksOf
<1>2. PICK a, b : a = Root(P, i) /\ b = Root(P, j)
  OBVIOUS
<1>3. a \in RootsOf(P, n) /\ b \in RootsOf(P, n) /\ a \in 1..n /\ b \in 1..n
  BY <1>2, RootIs
<1>4. CASE Q = P /\ (i < j /\ <<i, j>> \in L => a = b)
  BY <1>0, <1>2, <1>4
<1>5. CASE i < j /\ <<i, j>> \in L /\ a # b
  <2>1. Q = Union(P, i, j)
    BY <1>1, <1>5 DEF Visit
  <2>2. HungBelow(Q, P, a, b)
    BY <1>2, <1>5, <2>1 DEF Union, HungBelow
  <2>3. /\ d < n /\ Forest(Q, n, d + 1)
        /\ \A z \in 1..n : Root(Q, z) = IF Root(P, z) = a THEN b ELSE Root(P, z)
    BY <1>3, <1>5, <2>2, ForestUnion
  <2>4. d + 1 \in 0..n
    BY <1>0, <2>3
  <2>5. Root(Q, i) = b /\ Root(Q, j) = b
    BY <1>2, <2>3
  <2>6. \A x, y \in 1..n : Root(P, x) = Root(P, y) => Root(Q, x) = Root(Q, y)
    BY <2>3
  <2>7. ASSUME NEW r \in 1..n PROVE Linked(TreeOf(Q, n, r), L)
    <3>1. CASE r = b
      <4>1. TreeOf(Q, n, b) = TreeOf(P, n, a) \cup TreeOf(P, n, b)
        BY <2>3 DEF TreeOf
      <4>2. i \in TreeOf(P, n, a) /\ j \in TreeOf(P, n, b)
        BY <1>2 DEF TreeOf
      <4>3. <<j, i>> \in L
        <5>1. {ids[i], ids[j]} = {ids[j], ids[i]}
          OBVIOUS
        <5> QED
          BY <1>1, <1>5, <5>1
      <4>4. Linked(TreeOf(P, n, a), L) /\ Linked(TreeOf(P, n, b), L)
        BY <1>3
      <4> QED
        BY <1>5, <3>1, <4>1, <4>2, <4>3, <4>4, LinkedUnion
    <3>2. CASE r = a
      <4>1. TreeOf(Q, n, r) = {}
        BY <1>5, <2>3, <3>2 DEF TreeOf
      <4> QED
        BY <4>1 DEF Linked
    <3>3. CASE r # a /\ r # b
      <4>1. TreeOf(Q, n, r) = TreeOf(P, n, r)
        BY <2>3, <3>3 DEF TreeOf
      <4> QED
        BY <4>1
    <3> QED
      BY <3>1, <3>2, <3>3
  <2> QED
    BY <2>3, <2>4, <2>5, <2>6, <2>7
<1>6. (Q = P /\ (i < j /\ <<i, j>> \in L => a = b)) \/ (i < j /\ <<i, j>> \in L /\ a # b)
  BY <1>1, <1>2 DEF Visit, Union
<1> QED
  BY <1>4, <1>5, <1>6

\* The items of a round.
LEMMA RoundIn ==
  ASSUME NEW n \in Pos, NEW k \in 1..(n * n)
  PROVE  Row(n, k) \in 1..n /\ Column(n, k) \in 1..n
<1>1. n \in Nat /\ n >= 1 /\ n * n \in Nat /\ k \in Nat /\ k >= 1 /\ k <= n * n
  BY DEF Pos
<1>2. PICK t \in Nat : t = k - 1 /\ t < n * n
  BY <1>1
<1>3. PICK q \in Nat, r \in 0..n-1 : q = t \div n /\ r = t % n /\ t = n * q + r
  BY <1>1
<1>4. q < n
  <2> SUFFICES ASSUME q >= n PROVE FALSE
    BY <1>1
  <2>1. \A x, y, z \in Nat : y >= z => x * y >= x * z
    OBVIOUS
  <2>2. n * q >= n * n /\ n * q \in Nat
    BY <1>1, <2>1
  <2> QED
    BY <1>1, <1>2, <1>3, <2>2
<1> QED
  BY <1>1, <1>2, <1>3, <1>4 DEF Row, Column

\* A pair has its round.
HasRound(n, i, j) == \E k \in 1..(n * n) : Row(n, k) = i /\ Column(n, k) = j

\* Whatever the pair.
LEMMA PairHasRound ==
  ASSUME NEW n \in Pos, NEW i \in 1..n, NEW j \in 1..n
  PROVE  HasRound(n, i, j)
<1>1. n \in Nat /\ n >= 1
  BY DEF Pos
<1>2. PICK a \in Nat, b \in 0..n-1 : i = a + 1 /\ j = b + 1 /\ a <= n - 1
  <2>1. i - 1 \in Nat /\ j - 1 \in 0..n-1 /\ i = (i - 1) + 1 /\ j = (j - 1) + 1 /\ i - 1 <= n - 1
    BY <1>1
  <2> QED
    BY <2>1
<1>3. PICK t \in Nat : t = n * a + b
  BY <1>1, <1>2
<1>4. PICK q \in Nat, r \in 0..n-1 : q = t \div n /\ r = t % n /\ t = n * q + r
  BY <1>1
<1>5. \A x, y, z \in Nat : y >= z + 1 => x * y >= x * z + x
  <2> SUFFICES ASSUME NEW x \in Nat, NEW y \in Nat, NEW z \in Nat, y >= z + 1
               PROVE  x * y >= x * z + x
    OBVIOUS
  <2>1. PICK w \in Nat : y = z + 1 + w
    <3>1. y - (z + 1) \in Nat /\ y = z + 1 + (y - (z + 1))
      OBVIOUS
    <3> QED
      BY <3>1
  <2>2. x * (z + 1 + w) = x * z + x + x * w /\ x * w \in Nat /\ x * z \in Nat
    OBVIOUS
  <2> QED
    BY <2>1, <2>2
<1>6. n * a \in Nat /\ n * q \in Nat
  BY <1>1
<1>7. q = a
  <2>1. ASSUME q >= a + 1 PROVE FALSE
    <3>1. n * q >= n * a + n
      BY <1>1, <1>5, <2>1
    <3> QED
      BY <1>1, <1>3, <1>4, <1>6, <3>1
  <2>2. ASSUME a >= q + 1 PROVE FALSE
    <3>1. n * a >= n * q + n
      BY <1>1, <1>5, <2>2
    <3> QED
      BY <1>1, <1>3, <1>4, <1>6, <3>1
  <2> QED
    BY <2>1, <2>2
<1>8. r = b
  BY <1>3, <1>4, <1>6, <1>7
<1>9. t + 1 \in 1..(n * n)
  <2>1. n >= a + 1
    BY <1>1, <1>2
  <2>2. n * n >= n * a + n /\ n * n \in Nat
    BY <1>1, <1>5, <2>1
  <2> QED
    BY <1>1, <1>3, <1>6, <2>2
<1>10. (t + 1) - 1 = t
  OBVIOUS
<1>11. Row(n, t + 1) = i /\ Column(n, t + 1) = j
  BY <1>2, <1>4, <1>7, <1>8, <1>10 DEF Row, Column
<1> QED
  BY <1>9, <1>11 DEF HasRound

\* The rounds of the loop.
LEMMA MergingRuns ==
  ASSUME NEW n \in Nat, NEW ids, Len(ids) = n, NEW similar
  PROVE  LET m == Merging(ids, similar)
         IN  /\ m[0] = [x \in 1..n |-> x]
             /\ \A k \in 1..(n * n) : m[k] = Visit(m[k - 1], ids, similar, Row(n, k), Column(n, k))
<1>0. PICK N \in Nat : N = n * n
  OBVIOUS
<1>1. PICK b : b = [x \in 1..n |-> x]
  OBVIOUS
<1> DEFINE T == [1..n -> 1..n]
           step == [a \in T \X (1..N) |-> Visit(a[1], ids, similar, Row(n, a[2]), Column(n, a[2]))]
<1>2. b \in T
  BY <1>1
<1>3. ASSUME NEW a \in T, NEW k \in 1..N PROVE Visit(a, ids, similar, Row(n, k), Column(n, k)) \in T
  <2>1. n \in Pos
    <3>1. n # 0
      BY <1>0
    <3> QED
      BY <3>1 DEF Pos
  <2>2. PICK i \in 1..n, j \in 1..n : i = Row(n, k) /\ j = Column(n, k)
    BY <1>0, <2>1, RoundIn
  <2>3. \A x \in 1..n : Root(a, x) \in 1..n
    <3> SUFFICES ASSUME NEW x \in 1..n PROVE Root(a, x) \in 1..n
      OBVIOUS
    <3>1. Up(a, x) \in [0..n -> 1..n]
      BY UpRuns DEF GoesUp
    <3>2. Len(a) = n /\ n \in 0..n
      OBVIOUS
    <3> QED
      BY <3>1, <3>2 DEF Root
  <2>4. Visit(a, ids, similar, i, j) \in {a, [a EXCEPT ![Root(a, i)] = Root(a, j)]}
    BY DEF Visit, Union
  <2>5. Root(a, i) \in 1..n /\ Root(a, j) \in 1..n
    BY <2>3
  <2>6. [a EXCEPT ![Root(a, i)] = Root(a, j)] \in T
    BY <2>5
  <2> QED
    BY <2>2, <2>4, <2>6
<1>4. \A a \in T, k \in 1..N : step[<<a, k>>] = Visit(a, ids, similar, Row(n, k), Column(n, k))
  OBVIOUS
<1>5. \E g : RunOf(g, T, b, N, step)
  <2>1. BodyOf(T, N, step)
    <3> HIDE DEF T, step
    <3> QED
      BY <1>3, <1>4 DEF BodyOf
  <2> HIDE DEF T, step
  <2> QED
    BY <1>2, <2>1, LoopExists
<1>6. PICK g : RunOf(g, T, b, N, step)
  BY <1>5
<1>7. g \in [0..N -> T] /\ g[0] = b /\ \A k \in 1..N : g[k] = step[<<g[k - 1], k>>]
  BY <1>6 DEF RunOf
<1> HIDE DEF T, step
<1>8. \A k \in 1..N : k - 1 \in 0..N /\ g[k - 1] \in T
  BY <1>7
<1>9. \A k \in 1..N : g[k] = Visit(g[k - 1], ids, similar, Row(n, k), Column(n, k))
  BY <1>4, <1>7, <1>8
<1>10. g = [k \in 0..N |-> IF k = 0 THEN b ELSE Visit(g[k - 1], ids, similar, Row(n, k), Column(n, k))]
  BY <1>7, <1>9
<1>11. \E h : h = [k \in 0..N |-> IF k = 0 THEN b ELSE Visit(h[k - 1], ids, similar, Row(n, k), Column(n, k))]
  BY <1>10
<1>12. PICK m : m = Merging(ids, similar)
  OBVIOUS
<1>13. m = CHOOSE h : h = [k \in 0..N |-> IF k = 0 THEN b ELSE Visit(h[k - 1], ids, similar, Row(n, k), Column(n, k))]
  BY <1>0, <1>1, <1>12 DEF Merging
<1>14. m = [k \in 0..N |-> IF k = 0 THEN b ELSE Visit(m[k - 1], ids, similar, Row(n, k), Column(n, k))]
  BY <1>11, <1>13
<1>15. m[0] = b /\ \A k \in 1..N : m[k] = Visit(m[k - 1], ids, similar, Row(n, k), Column(n, k))
  BY <1>14
<1> QED
  BY <1>0, <1>1, <1>12, <1>15

\* After k rounds P is a forest, its trees are linked, and the pairs of these rounds
\* that are alike share a root.
MergedBy(P, n, L, k) ==
  /\ \E e \in 0..n : Forest(P, n, e)
  /\ \A r \in 1..n : Linked(TreeOf(P, n, r), L)
  /\ \A l \in 1..k : Row(n, l) < Column(n, l) /\ <<Row(n, l), Column(n, l)>> \in L
                       => Root(P, Row(n, l)) = Root(P, Column(n, l))

\* So it is after every round.
LEMMA MergedAlways ==
  ASSUME NEW n \in Nat, NEW ids, Len(ids) = n, NEW similar, NEW L, L = LinksOf(ids, similar, n)
  PROVE  MergedBy(Merging(ids, similar)[n * n], n, L, n * n)
<1>0. PICK N \in Nat : N = n * n
  OBVIOUS
<1>1. PICK m : m = Merging(ids, similar)
  OBVIOUS
<1>2. /\ m[0] = [x \in 1..n |-> x]
      /\ \A k \in 1..N : m[k] = Visit(m[k - 1], ids, similar, Row(n, k), Column(n, k))
  BY <1>0, <1>1, MergingRuns
<1> DEFINE S == {k \in 0..N : MergedBy(m[k], n, L, k)}
<1>3. 0 \in S
  <2>1. PICK P : P = m[0]
    OBVIOUS
  <2>2. Forest(P, n, 0) /\ \A x \in 1..n : Root(P, x) = x
    BY <1>2, <2>1, ForestInit
  <2>3. ASSUME NEW r \in 1..n PROVE Linked(TreeOf(P, n, r), L)
    <3>1. TreeOf(P, n, r) = {r}
      BY <2>2 DEF TreeOf
    <3>2. \A T \in SUBSET {r} : T = {} \/ T = {r}
      OBVIOUS
    <3> QED
      BY <3>1, <3>2 DEF Linked
  <2>4. 0 \in 0..n /\ 0 \in 0..N /\ 1..0 = {}
    OBVIOUS
  <2>5. MergedBy(P, n, L, 0)
    BY <2>2, <2>3, <2>4 DEF MergedBy
  <2> QED
    BY <2>1, <2>4, <2>5
<1>4. ASSUME NEW k \in 0..N-1, k \in S PROVE k + 1 \in S
  <2>1. k + 1 \in 1..N /\ k + 1 \in 0..N /\ (k + 1) - 1 = k /\ 1..k + 1 = (1..k) \cup {k + 1}
    OBVIOUS
  <2>2. PICK P, Q : P = m[k] /\ Q = m[k + 1]
    OBVIOUS
  <2>3. MergedBy(P, n, L, k)
    BY <1>4, <2>2
  <2>4. PICK e \in 0..n : Forest(P, n, e)
    BY <2>3 DEF MergedBy
  <2>5. n \in Pos
    <3>1. n # 0
      BY <1>0
    <3> QED
      BY <3>1 DEF Pos
  <2>6. \A l \in 1..N : Row(n, l) \in 1..n /\ Column(n, l) \in 1..n
    BY <1>0, <2>5, RoundIn
  <2>7. PICK i \in 1..n, j \in 1..n : i = Row(n, k + 1) /\ j = Column(n, k + 1)
    BY <2>1, <2>6
  <2>8. Q = Visit(P, ids, similar, i, j)
    BY <1>2, <2>1, <2>2, <2>7
  <2>9. \A r \in 1..n : Linked(TreeOf(P, n, r), L)
    BY <2>3 DEF MergedBy
  <2>10. /\ \E f \in 0..n : Forest(Q, n, f)
         /\ i < j /\ <<i, j>> \in L => Root(Q, i) = Root(Q, j)
         /\ \A x, y \in 1..n : Root(P, x) = Root(P, y) => Root(Q, x) = Root(Q, y)
         /\ \A r \in 1..n : Linked(TreeOf(Q, n, r), L)
    BY <2>4, <2>8, <2>9, VisitIs
  <2>11. ASSUME NEW l \in 1..k + 1, Row(n, l) < Column(n, l), <<Row(n, l), Column(n, l)>> \in L
         PROVE  Root(Q, Row(n, l)) = Root(Q, Column(n, l))
    <3>1. CASE l = k + 1
      BY <2>7, <2>10, <2>11, <3>1
    <3>2. CASE l # k + 1
      <4>1. l \in 1..k /\ l \in 1..N
        BY <2>1, <3>2
      <4>2. Root(P, Row(n, l)) = Root(P, Column(n, l))
        BY <2>3, <2>11, <4>1 DEF MergedBy
      <4>3. Row(n, l) \in 1..n /\ Column(n, l) \in 1..n
        BY <2>6, <4>1
      <4> QED
        BY <2>10, <4>2, <4>3
    <3> QED
      BY <3>1, <3>2
  <2>12. MergedBy(Q, n, L, k + 1)
    BY <2>10, <2>11 DEF MergedBy
  <2> QED
    BY <2>1, <2>2, <2>12
<1> HIDE DEF S
<1>5. \A k \in 0..N : k \in S
  BY <1>3, <1>4, CountUp
<1>6. N \in 0..N
  OBVIOUS
<1> QED
  BY <1>0, <1>1, <1>5, <1>6 DEF S

\* In the end all that are alike share a root, provided nothing is a pair by itself.
LEMMA AlikeShareRoots ==
  ASSUME NEW n \in Nat, NEW ids, Len(ids) = n, NEW similar, NEW L, L = LinksOf(ids, similar, n),
         \A x \in 1..n : <<x, x>> \notin L,
         NEW P, P = Merging(ids, similar)[n * n], NEW u \in 1..n, NEW v \in 1..n, <<u, v>> \in L
  PROVE  Root(P, u) = Root(P, v)
<1>1. \A l \in 1..(n * n) : Row(n, l) < Column(n, l) /\ <<Row(n, l), Column(n, l)>> \in L
                       => Root(P, Row(n, l)) = Root(P, Column(n, l))
  BY MergedAlways DEF MergedBy
<1>2. n \in Pos
  BY DEF Pos
<1>3. ASSUME NEW i \in 1..n, NEW j \in 1..n, i < j, <<i, j>> \in L PROVE Root(P, i) = Root(P, j)
  <2>1. HasRound(n, i, j)
    BY <1>2, PairHasRound
  <2>2. PICK l \in 1..(n * n) : Row(n, l) = i /\ Column(n, l) = j
    BY <2>1 DEF HasRound
  <2> QED
    BY <1>1, <1>3, <2>2
<1>4. <<v, u>> \in L
  <2>1. {ids[u], ids[v]} = {ids[v], ids[u]}
    OBVIOUS
  <2> QED
    BY <2>1 DEF LinksOf
<1>5. u # v
  OBVIOUS
<1>6. u < v \/ v < u
  BY <1>5
<1> QED
  BY <1>3, <1>4, <1>6

\* The components of the likeness relation: all of one piece, and alike to nobody else.
Joined(S, similar) == \A T \in (SUBSET S) \ {{}, S} : \E x \in T, y \in S \ T : {x, y} \in similar
SetApart(S, similar)  == \A x \in S, y \in Ids \ S : {x, y} \notin similar
Component(S, similar) == Joined(S, similar) /\ SetApart(S, similar)

\* Two components that meet are one.
LEMMA ComponentsMeet ==
  ASSUME NEW A \in SUBSET Ids, NEW B \in SUBSET Ids, NEW similar, NEW z, z \in A, z \in B,
         Joined(A, similar), SetApart(B, similar)
  PROVE  A \subseteq B
<1> SUFFICES ASSUME ~(A \subseteq B) PROVE FALSE
  OBVIOUS
<1>1. A \cap B \in (SUBSET A) \ {{}, A}
  <2>1. A \cap B \in SUBSET A /\ A \cap B # {} /\ A \cap B # A
    OBVIOUS
  <2>2. A \cap B \notin {{}, A}
    BY <2>1
  <2> QED
    BY <2>1, <2>2
<1>2. PICK x \in A \cap B, y \in A \ (A \cap B) : {x, y} \in similar
  BY <1>1 DEF Joined
<1>3. x \in B /\ y \in Ids \ B
  BY <1>2
<1> QED
  BY <1>2, <1>3 DEF SetApart

\* ids names every cell once.
Names1(ids, n) == /\ ids \in [1..n -> Ids]
                  /\ \A i, j \in 1..n : ids[i] = ids[j] => i = j
                  /\ \A x \in Ids : \E i \in 1..n : ids[i] = x

\* The cells of one tree.
CellsOf(P, n, ids, r) == {ids[z] : z \in TreeOf(P, n, r)}

\* The cells of a tree are a component.
LEMMA TreesAreComponents ==
  ASSUME NEW n \in Nat, NEW ids, Names1(ids, n), NEW similar, NEW L, L = LinksOf(ids, similar, n),
         NEW P, \A r \in 1..n : Linked(TreeOf(P, n, r), L),
         \A u, v \in 1..n : <<u, v>> \in L => Root(P, u) = Root(P, v), NEW r \in 1..n
  PROVE  CellsOf(P, n, ids, r) \in SUBSET Ids /\ Component(CellsOf(P, n, ids, r), similar)
<1>0. /\ ids \in [1..n -> Ids]
      /\ \A i, j \in 1..n : ids[i] = ids[j] => i = j
      /\ \A x \in Ids : \E i \in 1..n : ids[i] = x
  BY DEF Names1
<1>1. PICK C, S : C = TreeOf(P, n, r) /\ S = CellsOf(P, n, ids, r)
  OBVIOUS
<1>2. C \subseteq 1..n /\ S = {ids[z] : z \in C} /\ \A z \in 1..n : z \in C <=> Root(P, z) = r
  BY <1>1 DEF TreeOf, CellsOf
<1>3. S \in SUBSET Ids
  BY <1>0, <1>2
<1>4. \A z \in 1..n : ids[z] \in S <=> z \in C
  BY <1>0, <1>2
<1>5. \A u, v \in 1..n : <<u, v>> \in L <=> {ids[u], ids[v]} \in similar
  BY DEF LinksOf
<1>6. ASSUME NEW T \in (SUBSET S) \ {{}, S} PROVE \E x \in T, y \in S \ T : {x, y} \in similar
  <2>1. PICK D : D = {z \in C : ids[z] \in T}
    OBVIOUS
  <2>2. D \in SUBSET C /\ D # {} /\ D # C
    <3>0. T \in SUBSET S /\ T # {} /\ T # S
      <4>1. T \in SUBSET S /\ T \notin {{}, S}
        BY <1>6
      <4> QED
        BY <4>1
    <3>1. PICK x \in T : x \in S
      BY <3>0
    <3>2. PICK y \in S : y \notin T
      BY <3>0
    <3>3. PICK u \in C : x = ids[u]
      BY <1>2, <3>1
    <3>4. PICK v \in C : y = ids[v]
      BY <1>2, <3>2
    <3> QED
      BY <2>1, <3>1, <3>2, <3>3, <3>4
  <2>3. Linked(C, L)
    BY <1>1
  <2>4. PICK u \in D, v \in C \ D : <<u, v>> \in L
    BY <2>2, <2>3 DEF Linked
  <2>5. u \in 1..n /\ v \in 1..n /\ ids[u] \in T /\ ids[v] \notin T /\ ids[v] \in S
    BY <1>2, <2>1, <2>4
  <2>6. {ids[u], ids[v]} \in similar
    BY <1>5, <2>4, <2>5
  <2> QED
    BY <2>5, <2>6
<1>7. ASSUME NEW x \in S, NEW y \in Ids \ S, {x, y} \in similar PROVE FALSE
  <2>1. PICK u \in C : x = ids[u]
    BY <1>2
  <2>2. PICK v \in 1..n : ids[v] = y
    BY <1>0
  <2>3. u \in 1..n /\ <<u, v>> \in L
    BY <1>2, <1>5, <1>7, <2>1, <2>2
  <2>4. v \in C
    BY <1>2, <2>3
  <2> QED
    BY <1>4, <2>2, <2>4
<1> QED
  BY <1>1, <1>3, <1>6, <1>7 DEF Component, Joined, SetApart

\* Section 18, for any likeness: as many roots as components.
LEMMA CountIsComponents ==
  ASSUME NEW n \in Nat, NEW ids, Names1(ids, n), NEW similar,
         \A x \in Ids : {x, x} \notin similar
  PROVE  ClusterCount(ids, similar) = Cardinality({S \in (SUBSET Ids) \ {{}} : Component(S, similar)})
<1>0. /\ ids \in [1..n -> Ids] /\ Len(ids) = n
      /\ \A i, j \in 1..n : ids[i] = ids[j] => i = j
      /\ \A x \in Ids : \E i \in 1..n : ids[i] = x
  BY DEF Names1
<1>1. PICK L : L = LinksOf(ids, similar, n)
  OBVIOUS
<1>2. PICK P : P = Merging(ids, similar)[n * n]
  OBVIOUS
<1>3. MergedBy(P, n, L, n * n)
  BY <1>0, <1>1, <1>2, MergedAlways
<1>4. \A x \in 1..n : <<x, x>> \notin L
  BY <1>0, <1>1 DEF LinksOf
<1>5. \A u, v \in 1..n : <<u, v>> \in L => Root(P, u) = Root(P, v)
  BY <1>0, <1>1, <1>2, <1>4, AlikeShareRoots
<1>6. \A r \in 1..n : Linked(TreeOf(P, n, r), L)
  BY <1>3 DEF MergedBy
<1>7. \A x \in 1..n : Root(P, x) \in 1..n
  BY <1>3, RootIs DEF MergedBy
<1>8. \A r \in 1..n : CellsOf(P, n, ids, r) \in SUBSET Ids /\ Component(CellsOf(P, n, ids, r), similar)
  BY <1>1, <1>5, <1>6, TreesAreComponents
<1> DEFINE R == {Root(P, x) : x \in 1..n}
           K == {S \in (SUBSET Ids) \ {{}} : Component(S, similar)}
           F == [r \in R |-> CellsOf(P, n, ids, r)]
<1>9. ClusterCount(ids, similar) = Cardinality(R)
  BY <1>0, <1>2 DEF ClusterCount
<1>10. R \subseteq 1..n
  BY <1>7
<1>11. \A x \in 1..n : Root(P, x) \in R /\ ids[x] \in CellsOf(P, n, ids, Root(P, x))
  BY DEF CellsOf, TreeOf
<1>12. \A r \in R : \E x \in 1..n : r = Root(P, x)
  OBVIOUS
<1>13. \A r \in R : F[r] = CellsOf(P, n, ids, r)
  OBVIOUS
<1>14. F \in [R -> K]
  <2>1. ASSUME NEW r \in R PROVE CellsOf(P, n, ids, r) \in K
    <3>1. CellsOf(P, n, ids, r) \in SUBSET Ids /\ Component(CellsOf(P, n, ids, r), similar)
      BY <1>8, <1>10
    <3>2. CellsOf(P, n, ids, r) # {}
      BY <1>11, <1>12
    <3>3. CellsOf(P, n, ids, r) \in (SUBSET Ids) \ {{}}
      BY <3>1, <3>2
    <3> QED
      BY <3>1, <3>3
  <2> QED
    BY <2>1
<1>15. ASSUME NEW r \in R, NEW s \in R, CellsOf(P, n, ids, r) = CellsOf(P, n, ids, s) PROVE r = s
  <2>1. PICK x \in 1..n : r = Root(P, x)
    BY <1>12
  <2>2. ids[x] \in CellsOf(P, n, ids, s)
    BY <1>11, <1>15, <2>1
  <2>3. PICK z \in 1..n : Root(P, z) = s /\ ids[z] = ids[x]
    BY <2>2 DEF CellsOf, TreeOf
  <2> QED
    BY <1>0, <2>1, <2>3
<1>16. ASSUME NEW S \in K PROVE \E r \in R : CellsOf(P, n, ids, r) = S
  <2>1. S \in SUBSET Ids /\ S # {} /\ Component(S, similar)
    <3>1. S \in (SUBSET Ids) \ {{}} /\ Component(S, similar)
      OBVIOUS
    <3>2. S \in SUBSET Ids /\ S \notin {{}}
      BY <3>1
    <3> QED
      BY <3>1, <3>2
  <2>2. PICK y \in S : y \in Ids
    BY <2>1
  <2>3. PICK x \in 1..n : ids[x] = y
    BY <1>0, <2>2
  <2>4. PICK r \in R : r = Root(P, x) /\ y \in CellsOf(P, n, ids, r)
    BY <1>11, <2>3
  <2>5. CellsOf(P, n, ids, r) \in SUBSET Ids /\ Component(CellsOf(P, n, ids, r), similar)
    BY <1>8, <1>10
  <2>6. Joined(S, similar) /\ SetApart(S, similar) /\ Joined(CellsOf(P, n, ids, r), similar)
        /\ SetApart(CellsOf(P, n, ids, r), similar)
    BY <2>1, <2>5 DEF Component
  <2>7. S \subseteq CellsOf(P, n, ids, r)
    BY <2>1, <2>2, <2>4, <2>5, <2>6, ComponentsMeet
  <2>8. CellsOf(P, n, ids, r) \subseteq S
    BY <2>1, <2>2, <2>4, <2>5, <2>6, ComponentsMeet
  <2>9. CellsOf(P, n, ids, r) = S
    <3> HIDE DEF R, K, F
    <3> QED
      BY <2>7, <2>8
  <2> QED
    BY <2>9
<1> HIDE DEF R, K, F
<1>17. F \in Bijection(R, K)
  <2>1. \A r, s \in R : F[r] = F[s] => r = s
    BY <1>13, <1>15
  <2>2. \A S \in K : \E r \in R : F[r] = S
    BY <1>13, <1>16
  <2> QED
    BY <1>14, <2>1, <2>2, Fun_IsBij
<1>18. IsFiniteSet(R)
  <2>1. IsFiniteSet(1..n)
    BY FS_Interval
  <2> QED
    BY <1>10, <2>1, FS_Subset
<1>19. ExistsBijection(R, K)
  BY <1>17 DEF ExistsBijection
<1>20. Cardinality(K) = Cardinality(R)
  BY <1>18, <1>19, FS_Bijection
<1> QED
  BY <1>9, <1>20 DEF K

\* Pairs.
LEMMA PairsAre ==
  ASSUME NEW S, IsFiniteSet(S)
  PROVE  /\ \A a, b \in S : a # b => {a, b} \in AllPairs(S)
         /\ \A a \in S : {a, a} \notin AllPairs(S)
         /\ \A p \in AllPairs(S) : \E a, b \in S : a # b /\ p = {a, b}
         /\ {} \notin AllPairs(S)
<1>1. ASSUME NEW a \in S, NEW b \in S, a # b PROVE {a, b} \in AllPairs(S)
  <2>1. IsFiniteSet({a}) /\ Cardinality({a}) = 1
    BY FS_Singleton
  <2>2. Cardinality({a} \cup {b}) = 2
    BY <2>1, <1>1, FS_AddElement
  <2>3. {a} \cup {b} = {a, b}
    OBVIOUS
  <2> QED
    BY <2>2, <2>3 DEF AllPairs
<1>2. ASSUME NEW a \in S PROVE {a, a} \notin AllPairs(S)
  <2>1. Cardinality({a}) = 1 /\ {a, a} = {a}
    BY FS_Singleton
  <2>2. Cardinality({a, a}) # 2
    BY <2>1
  <2> QED
    BY <2>2 DEF AllPairs
<1>3. ASSUME NEW p \in AllPairs(S) PROVE \E a, b \in S : a # b /\ p = {a, b}
  <2>1. p \subseteq S /\ Cardinality(p) = 2
    BY DEF AllPairs
  <2>2. IsFiniteSet(p)
    BY <2>1, FS_Subset
  <2>3. ExistsBijection(1..2, p)
    BY <2>1, <2>2, FS_CardinalityType
  <2>4. PICK g : g \in Bijection(1..2, p)
    BY <2>3 DEF ExistsBijection
  <2>5. /\ g \in [1..2 -> p] /\ \A i, j \in 1..2 : g[i] = g[j] => i = j
        /\ \A x \in p : \E i \in 1..2 : g[i] = x
    BY <2>4 DEF Bijection, Injection, Surjection, IsInjective
  <2>6. 1 \in 1..2 /\ 2 \in 1..2 /\ \A i \in 1..2 : i = 1 \/ i = 2
    OBVIOUS
  <2>7. g[1] \in p /\ g[2] \in p /\ g[1] # g[2] /\ \A x \in p : x = g[1] \/ x = g[2]
    BY <2>5, <2>6
  <2>8. p = {g[1], g[2]}
    BY <2>7
  <2>9. g[1] \in S /\ g[2] \in S
    BY <2>1, <2>7
  <2> QED
    BY <2>7, <2>8, <2>9
<1>4. {} \notin AllPairs(S)
  <2>1. Cardinality({}) # 2
    BY FS_EmptySet
  <2> QED
    BY <2>1 DEF AllPairs
<1> QED
  BY <1>1, <1>2, <1>3, <1>4

\* Section 18, for any cells, likeness and missing pair.
LEMMA ClustersCount ==
  ASSUME NEW s \in SUBSET AllPairs(Ids), NEW ids \in Bijection(1..Cardinality(Ids), Ids),
         NEW missing \in AllPairs(Ids) \cup {{}},
         sample = [of |-> "clusters", measured |-> AllPairs(Ids) \ {missing}, similar |-> s, ids |-> ids]
  PROVE  ClustersAreComponents
<1>1. IsFiniteSet(Ids)
  BY StatisticsAssumption
<1>2. PICK n \in Nat : n = Cardinality(Ids)
  BY <1>1, FS_CardinalityType
<1>3. Names1(ids, n) /\ DOMAIN ids = 1..n
  BY <1>2 DEF Names1, Bijection, Injection, Surjection, IsInjective
<1>4. /\ ids \in [1..n -> Ids]
      /\ \A i, j \in 1..n : ids[i] = ids[j] => i = j
      /\ \A x \in Ids : \E i \in 1..n : ids[i] = x
  BY <1>3 DEF Names1
<1>5. PICK all, measured : all = AllPairs(Ids) /\ measured = all \ {missing}
  OBVIOUS
<1>6. /\ \A a, b \in Ids : a # b => {a, b} \in all
      /\ \A a \in Ids : {a, a} \notin all
      /\ \A p \in all : \E a, b \in Ids : a # b /\ p = {a, b}
      /\ {} \notin all
  BY <1>1, <1>5, PairsAre
<1>7. CorrelationClusters(ids, measured, s) =
        IF \E i, j \in 1..n : i < j /\ {ids[i], ids[j]} \notin measured
        THEN -1 ELSE ClusterCount(ids, s \cap measured)
  BY <1>3 DEF CorrelationClusters
<1>8. CASE missing \in all
  <2>1. measured # all
    BY <1>5, <1>8
  <2>2. PICK a \in Ids, b \in Ids : a # b /\ missing = {a, b}
    BY <1>6, <1>8
  <2>3. PICK i \in 1..n : ids[i] = a
    BY <1>4
  <2>4. PICK j \in 1..n : ids[j] = b
    BY <1>4
  <2>5. i # j /\ missing \notin measured
    BY <1>5, <2>2, <2>3, <2>4
  <2>6. {ids[i], ids[j]} = missing /\ {ids[j], ids[i]} = missing
    BY <2>2, <2>3, <2>4
  <2>7. i < j \/ j < i
    BY <2>5
  <2>8. \E x, y \in 1..n : x < y /\ {ids[x], ids[y]} \notin measured
    BY <2>5, <2>6, <2>7
  <2>9. CorrelationClusters(ids, measured, s) = -1
    BY <1>7, <2>8
  <2> QED
    BY <1>5, <2>1, <2>9 DEF ClustersAreComponents
<1>9. CASE missing \notin all
  <2>1. measured = all /\ s \cap measured = s
    BY <1>5, <1>9
  <2>2. ASSUME NEW i \in 1..n, NEW j \in 1..n, i < j PROVE {ids[i], ids[j]} \in measured
    <3>1. ids[i] \in Ids /\ ids[j] \in Ids /\ ids[i] # ids[j]
      BY <1>4, <2>2
    <3> QED
      BY <1>6, <2>1, <3>1
  <2>3. CorrelationClusters(ids, measured, s) = ClusterCount(ids, s)
    BY <1>7, <2>1, <2>2
  <2>4. \A x \in Ids : {x, x} \notin s
    BY <1>5, <1>6
  <2>5. ClusterCount(ids, s) = Cardinality({S \in (SUBSET Ids) \ {{}} : Component(S, s)})
    BY <1>3, <2>4, CountIsComponents
  <2>6. \A S \in (SUBSET Ids) \ {{}} :
          Component(S, s) <=> /\ \A T \in (SUBSET S) \ {{}, S} : \E x \in T, y \in S \ T : {x, y} \in s
                              /\ \A x \in S, y \in Ids \ S : {x, y} \notin s
    BY DEF Component, Joined, SetApart
  <2>7. sample.measured = AllPairs(Ids) /\ sample.similar = s /\ sample.ids = ids
    BY <1>5, <2>1
  <2>8. CorrelationClusters(sample.ids, sample.measured, sample.similar)
          = Cardinality({S \in (SUBSET Ids) \ {{}} : Component(S, s)})
    BY <1>5, <2>1, <2>3, <2>5, <2>7
  <2> QED
    BY <2>7, <2>8 DEF ClustersAreComponents, Component, Joined, SetApart
<1> QED
  BY <1>8, <1>9

\* What is true of each input is true of all.
LEMMA EveryInputIsPrudent == CInit => EstimatesArePrudent
<1>1. ASSUME NEW r \in Series, sample = [of |-> "series", r |-> r]
      PROVE  EstimatesArePrudent
  <2>1. sample.of = "series" /\ sample.r = r
    BY <1>1
  <2>2. StressIsTheWorst
    BY <2>1, StressIsWorst DEF StressIsTheWorst
  <2>3. ShortfallIsWorse
    BY <2>1, ShortfallIsSevere DEF ShortfallIsWorse
  <2>4. ContributionsAddUp /\ ClustersAreComponents /\ AlphasWithinBounds /\ FartherIsNeverSurer
    BY <2>1 DEF ContributionsAddUp, ClustersAreComponents, AlphasWithinBounds, FartherIsNeverSurer
  <2> QED
    BY <2>2, <2>3, <2>4 DEF EstimatesArePrudent
<1>2. ASSUME NEW c \in Series, NEW d \in Series, NEW n \in BlockCounts,
             sample = [of |-> "cells", c |-> c, d |-> d, blocks |-> n]
      PROVE  EstimatesArePrudent
  <2>1. sample.of = "cells"
    BY <1>2
  <2>2. ContributionsAddUp
    BY <1>2, ContributionsMakeUp
  <2>3. StressIsTheWorst /\ ShortfallIsWorse /\ ClustersAreComponents /\ AlphasWithinBounds /\ FartherIsNeverSurer
    BY <2>1 DEF StressIsTheWorst, ShortfallIsWorse, ClustersAreComponents, AlphasWithinBounds, FartherIsNeverSurer
  <2> QED
    BY <2>2, <2>3 DEF EstimatesArePrudent
<1>3. ASSUME NEW s \in SUBSET AllPairs(Ids), NEW ids \in Bijection(1..Cardinality(Ids), Ids),
             NEW missing \in AllPairs(Ids) \cup {{}},
             sample = [of |-> "clusters", measured |-> AllPairs(Ids) \ {missing}, similar |-> s, ids |-> ids]
      PROVE  EstimatesArePrudent
  <2>1. sample.of = "clusters"
    BY <1>3
  <2>2. ClustersAreComponents
    BY <1>3, ClustersCount
  <2>3. StressIsTheWorst /\ ShortfallIsWorse /\ ContributionsAddUp /\ AlphasWithinBounds /\ FartherIsNeverSurer
    BY <2>1 DEF StressIsTheWorst, ShortfallIsWorse, ContributionsAddUp, AlphasWithinBounds, FartherIsNeverSurer
  <2> QED
    BY <2>2, <2>3 DEF EstimatesArePrudent
<1>4. ASSUME NEW p \in [1..3 -> [overlap : {0, 2}, corr : {-2, 0, 1}]],
             sample = [of |-> "alphas", pairs |-> p]
      PROVE  EstimatesArePrudent
  <2>1. sample.of = "alphas"
    BY <1>4
  <2>2. AlphasWithinBounds
    BY <1>4, AlphasAreBounded
  <2>3. StressIsTheWorst /\ ShortfallIsWorse /\ ContributionsAddUp /\ ClustersAreComponents /\ FartherIsNeverSurer
    BY <2>1 DEF StressIsTheWorst, ShortfallIsWorse, ContributionsAddUp, ClustersAreComponents, FartherIsNeverSurer
  <2> QED
    BY <2>2, <2>3 DEF EstimatesArePrudent
<1>5. ASSUME NEW lo \in 1..3 * Factor, NEW hi \in 1..3 * Factor, NEW t \in 1..3 * Factor, lo <= hi,
             sample = [of |-> "scale", lo |-> lo, hi |-> hi, target |-> t]
      PROVE  EstimatesArePrudent
  <2>1. sample.of = "scale"
    BY <1>5
  <2>2. FartherIsNeverSurer
    BY <1>5, FartherIsNotSurer
  <2>3. StressIsTheWorst /\ ShortfallIsWorse /\ ContributionsAddUp /\ ClustersAreComponents /\ AlphasWithinBounds
    BY <2>1 DEF StressIsTheWorst, ShortfallIsWorse, ContributionsAddUp, ClustersAreComponents, AlphasWithinBounds
  <2> QED
    BY <2>2, <2>3 DEF EstimatesArePrudent
<1> QED
  BY <1>1, <1>2, <1>3, <1>4, <1>5 DEF CInit

\* The statistics behind cell allocation never make a book look safer than the data do,
\* for any series, any cells and any thresholds.
THEOREM EstimatesAlwaysPrudent == StatisticsSpec => []EstimatesArePrudent
<1>1. CInit => EstimatesArePrudent
  BY EveryInputIsPrudent
<1>2. EstimatesArePrudent /\ [UNCHANGED sample]_sample => EstimatesArePrudent'
  <2> SUFFICES ASSUME EstimatesArePrudent, sample' = sample PROVE EstimatesArePrudent'
    OBVIOUS
  <2>1. StressIsTheWorst' /\ ShortfallIsWorse'
    BY DEF EstimatesArePrudent, StressIsTheWorst, ShortfallIsWorse
  <2>2. ContributionsAddUp'
    BY DEF EstimatesArePrudent, ContributionsAddUp
  <2>3. ClustersAreComponents'
    BY DEF EstimatesArePrudent, ClustersAreComponents
  <2>4. AlphasWithinBounds' /\ FartherIsNeverSurer'
    BY DEF EstimatesArePrudent, AlphasWithinBounds, FartherIsNeverSurer
  <2> QED
    BY <2>1, <2>2, <2>3, <2>4 DEF EstimatesArePrudent
<1> QED
  BY <1>1, <1>2, PTL DEF StatisticsSpec

-----------------------------------------------------------------------------
(* The cells' stops: for any number of cells, symbols, plans and exits,    *)
(* overlapping exits never claim a share twice and a stop can always fire  *)
(* while no exit is filled in part.                                        *)

\* The reservation ledger's rows: finitely many, and an exit has never more left
\* to fill than it reserved.
RowsInv == IsFiniteSet(exits) /\ \A e \in exits : e.left <= e.qty

\* The master ledger holds what the cells hold together, and the reservation
\* ledger was told so.
BalanceInv ==
  /\ \A s \in Sym : master[s] = Cardinality(HeldShares(s))
  /\ long = master

\* The inductive invariant.
IInv == StopsTyped /\ RowsInv /\ NoDoubleClaim /\ BalanceInv

-----------------------------------------------------------------------------
\* The shares the model counts are finitely many.
LEMMA SharesAreFinite ==
  ASSUME RowsInv, NEW c, NEW s
  PROVE  /\ IsFiniteSet(HeldShares(s)) /\ IsFiniteSet(ReservedShares(s))
         /\ IsFiniteSet({h \in ReservedShares(s) : h[1].cell = c})
         /\ IsFiniteSet(OpenShares(c, s))
<1>1. IsFiniteSet(1..MaxQty)
  BY FS_Interval, StopsAssumption
<1>2. IsFiniteSet(Cell \X (1..MaxQty)) /\ IsFiniteSet(exits \X (1..MaxQty))
  BY <1>1, FS_Product, StopsAssumption DEF RowsInv
<1>3. /\ HeldShares(s) \in SUBSET (Cell \X (1..MaxQty))
      /\ ReservedShares(s) \in SUBSET (exits \X (1..MaxQty))
      /\ {h \in ReservedShares(s) : h[1].cell = c} \in SUBSET (exits \X (1..MaxQty))
      /\ OpenShares(c, s) \in SUBSET (exits \X (1..MaxQty))
  BY DEF HeldShares, ReservedShares, OpenShares
<1> QED
  BY <1>2, <1>3, FS_Subset

\* What is left to fill is reserved, so no more of it than was reserved.
LEMMA OpenIsReserved ==
  ASSUME StopsTyped, RowsInv, NEW c \in Cell, NEW s \in Sym
  PROVE  /\ Cardinality(OpenShares(c, s)) \in Nat /\ ReservedOf(c, s) \in Nat
         /\ Cardinality(OpenShares(c, s)) <= ReservedOf(c, s)
<1>1. OpenShares(c, s) \in SUBSET {h \in ReservedShares(s) : h[1].cell = c}
  BY StopsAssumption DEF StopsTyped, RowsInv, OpenShares, ReservedShares
<1> QED
  BY <1>1, SharesAreFinite, FS_Subset, FS_CardinalityType DEF ReservedOf

\* The targets of a stop are positions, and its planned exits sell between one
\* share and the whole position.
LEMMA PlannedType ==
  ASSUME StopsTyped, RowsInv, NEW p \in Plans
  PROVE  /\ Planned(p) \subseteq Cell \X Sym /\ IsFiniteSet(Planned(p))
         /\ \A t \in Planned(p) : ExitQty(t) \in 1..MaxQty /\ ExitQty(t) <= holdings[t]
<1>1. StopTargets(p) \subseteq Cell \X Sym
  BY StopsAssumption DEF StopTargets, Scope
<1>2. Planned(p) \subseteq Cell \X Sym
  BY <1>1 DEF Planned
<1>3. IsFiniteSet(Planned(p))
  <2>1. IsFiniteSet(Cell \X Sym)
    BY FS_Product, StopsAssumption
  <2> QED
    BY <1>2, <2>1, FS_Subset
<1>4. ASSUME NEW t \in Planned(p)
      PROVE  ExitQty(t) \in 1..MaxQty /\ ExitQty(t) <= holdings[t]
  <2>1. t[1] \in Cell /\ t[2] \in Sym /\ t = <<t[1], t[2]>>
    BY <1>2
  <2>2. ReservedOf(t[1], t[2]) \in Nat
    BY <2>1, OpenIsReserved
  <2>3. holdings[t] \in 0..MaxQty
    BY <2>1 DEF StopsTyped
  <2>4. ExitQty(t) > 0
    BY DEF Planned
  <2> QED
    BY <2>2, <2>3, <2>4, StopsAssumption DEF ExitQty
<1> QED
  BY <1>2, <1>3, <1>4

\* The exit a firing stop reserves for the position t.
NewExit(t, n) ==
  [id |-> n, cell |-> t[1], sym |-> t[2], qty |-> ExitQty(t), left |-> ExitQty(t)]

-----------------------------------------------------------------------------
\* The inductive invariant holds at the start.
LEMMA InitIInv == StopsInit => IInv
<1> SUFFICES ASSUME StopsInit PROVE IInv
  OBVIOUS
<1>1. RowsInv
  BY FS_EmptySet DEF StopsInit, RowsInv
<1>2. BalanceInv
  BY DEF StopsInit, BalanceInv
<1>3. \A s \in Sym : Cardinality(HeldShares(s)) \in Nat
  BY <1>1, SharesAreFinite, FS_CardinalityType
<1>4. StopsTyped
  BY <1>3, StopsAssumption DEF StopsInit, StopsTyped
<1>5. NoDoubleClaim
  <2> SUFFICES ASSUME NEW c \in Cell, NEW s \in Sym
               PROVE  Cardinality(OpenShares(c, s)) <= holdings[<<c, s>>]
    BY DEF NoDoubleClaim
  <2>1. OpenShares(c, s) = {}
    BY DEF StopsInit, OpenShares
  <2>2. holdings[<<c, s>>] \in 0..MaxQty
    BY DEF StopsInit
  <2> QED
    BY <2>1, <2>2, FS_EmptySet
<1> QED
  BY <1>1, <1>2, <1>4, <1>5 DEF IInv

-----------------------------------------------------------------------------
\* When the position of one cell changes to n, the shares held of its symbol
\* change by the difference and those of the other symbols do not.
LEMMA HeldMoves ==
  ASSUME StopsTyped, NEW c \in Cell, NEW s \in Sym, NEW n \in 0..MaxQty,
         holdings' = [holdings EXCEPT ![<<c, s>>] = n]
  PROVE  \A r \in Sym :
           Cardinality(HeldShares(r)') =
             IF r = s THEN Cardinality(HeldShares(r)) - holdings[<<c, s>>] + n
                      ELSE Cardinality(HeldShares(r))
<1> DEFINE k == holdings[<<c, s>>]
<1>0. /\ k \in 0..MaxQty /\ MaxQty \in Nat
      /\ \A d \in Cell, r \in Sym :
           holdings'[<<d, r>>] = IF d = c /\ r = s THEN n ELSE holdings[<<d, r>>]
  BY StopsAssumption DEF StopsTyped
<1>1. ASSUME NEW r \in Sym, r # s
      PROVE  HeldShares(r)' = HeldShares(r)
  BY <1>0, <1>1 DEF HeldShares
<1>2. Cardinality(HeldShares(s)') = Cardinality(HeldShares(s)) - k + n
  <2> DEFINE Rest == {h \in HeldShares(s) : h[1] # c}
  <2>1. /\ HeldShares(s) = Rest \cup ({c} \X (1..k))
        /\ Rest \cap ({c} \X (1..k)) = {} /\ Rest \cap ({c} \X (1..n)) = {}
    BY <1>0 DEF HeldShares
  <2>2. HeldShares(s)' = Rest \cup ({c} \X (1..n))
    BY <1>0 DEF HeldShares
  <2>3. IsFiniteSet(Rest)
    <3>0. IsFiniteSet(Cell) /\ MaxQty \in Int
      BY StopsAssumption
    <3>1. IsFiniteSet(Cell \X (1..MaxQty))
      BY <3>0, SharesFinite
    <3>2. Rest \in SUBSET (Cell \X (1..MaxQty))
      BY DEF HeldShares
    <3> QED
      BY <3>1, <3>2, FS_Subset
  <2>4. /\ IsFiniteSet({c} \X (1..k)) /\ Cardinality({c} \X (1..k)) = k
        /\ IsFiniteSet({c} \X (1..n)) /\ Cardinality({c} \X (1..n)) = n
    <3>1. k \in Nat /\ n \in Nat
      BY <1>0
    <3> HIDE DEF k
    <3> QED
      BY <3>1, FirstShares
  <2>5. Cardinality(Rest) \in Nat
    BY <2>3, FS_CardinalityType
  <2> HIDE DEF Rest, k
  <2>6. Cardinality(HeldShares(s)) = Cardinality(Rest) + k
    BY <2>1, <2>3, <2>4, JoinCount
  <2>7. Cardinality(HeldShares(s)') = Cardinality(Rest) + n
    BY <2>1, <2>2, <2>3, <2>4, JoinCount
  <2> QED
    BY <1>0, <2>5, <2>6, <2>7
<1> QED
  BY <1>1, <1>2

\* A fill and a purchase move the master ledger by what they move the cell.
LEMMA BalanceStep == IInv /\ [StopsNext]_stopsvars => BalanceInv'
<1> SUFFICES ASSUME IInv, [StopsNext]_stopsvars PROVE BalanceInv'
  OBVIOUS
<1> USE DEF IInv
<1>0. \A s \in Sym : Cardinality(HeldShares(s)) \in Nat
  BY SharesAreFinite, FS_CardinalityType
<1>1. ASSUME UNCHANGED <<holdings, master, long>> PROVE BalanceInv'
  BY <1>1 DEF BalanceInv, HeldShares
<1>2. ASSUME NEW e \in exits, NEW q \in 1..MaxQty, FillExit(e, q) PROVE BalanceInv'
  <2> DEFINE n == holdings[<<e.cell, e.sym>>] - q
  <2>1. /\ e.cell \in Cell /\ e.sym \in Sym /\ n \in 0..MaxQty
        /\ holdings[<<e.cell, e.sym>>] \in 0..MaxQty
        /\ q \in Nat
        /\ holdings' = [holdings EXCEPT ![<<e.cell, e.sym>>] = n]
    BY <1>2, StopsAssumption DEF StopsTyped, FillExit
  <2>2. /\ long' = master'
        /\ \A r \in Sym : master'[r] = IF r = e.sym THEN master[r] - q ELSE master[r]
    BY <1>2 DEF FillExit, StopsTyped
  <2> HIDE DEF n
  <2>3. \A r \in Sym :
          Cardinality(HeldShares(r)') =
            IF r = e.sym THEN Cardinality(HeldShares(r)) - holdings[<<e.cell, e.sym>>] + n
                         ELSE Cardinality(HeldShares(r))
    BY <2>1, HeldMoves
  <2> QED
    BY <1>0, <2>1, <2>2, <2>3 DEF BalanceInv, n
<1>3. ASSUME NEW c \in Cell, NEW s \in Sym, Buy(c, s) PROVE BalanceInv'
  <2> DEFINE n == holdings[<<c, s>>] + 1
  <2>1. /\ n \in 0..MaxQty /\ holdings[<<c, s>>] \in 0..MaxQty
        /\ holdings' = [holdings EXCEPT ![<<c, s>>] = n]
    BY <1>3, StopsAssumption DEF StopsTyped, Buy
  <2>2. /\ long' = master'
        /\ \A r \in Sym : master'[r] = IF r = s THEN master[r] + 1 ELSE master[r]
    BY <1>3 DEF Buy, StopsTyped
  <2> HIDE DEF n
  <2>3. \A r \in Sym :
          Cardinality(HeldShares(r)') =
            IF r = s THEN Cardinality(HeldShares(r)) - holdings[<<c, s>>] + n
                     ELSE Cardinality(HeldShares(r))
    BY <2>1, HeldMoves
  <2> QED
    BY <1>0, <2>1, <2>2, <2>3 DEF BalanceInv, n
<1> QED
  BY <1>1, <1>2, <1>3 DEF StopsNext, stopsvars, Register, Cancel, Trigger, Release

\* The types and the reservation rows are kept.
LEMMA TypeStep == IInv /\ [StopsNext]_stopsvars => StopsTyped' /\ RowsInv'
<1> SUFFICES ASSUME IInv, [StopsNext]_stopsvars PROVE StopsTyped' /\ RowsInv'
  OBVIOUS
<1> USE DEF IInv
<1>1. ASSUME RowsInv', master' \in [Sym -> Int] PROVE master' \in [Sym -> Nat]
  <2>1. BalanceInv'
    BY BalanceStep
  <2>2. \A s \in Sym : IsFiniteSet(HeldShares(s)')
    <3>0. IsFiniteSet(Cell) /\ MaxQty \in Int
      BY StopsAssumption
    <3>1. IsFiniteSet(Cell \X (1..MaxQty))
      BY <3>0, SharesFinite
    <3>2. \A s \in Sym : HeldShares(s)' \in SUBSET (Cell \X (1..MaxQty))
      BY DEF HeldShares
    <3> QED
      BY <3>1, <3>2, FS_Subset
  <2>3. \A s \in Sym : Cardinality(HeldShares(s)') \in Nat
    BY <2>2, FS_CardinalityType
  <2> QED
    BY <1>1, <2>1, <2>3 DEF BalanceInv
<1>2. ASSUME NEW p \in Plans, Trigger(p) PROVE StopsTyped' /\ RowsInv'
  <2>1. PICK number \in [Planned(p) -> minted + 1 .. minted + Cardinality(Planned(p))] :
          exits' = exits \cup {NewExit(t, number[t]) : t \in Planned(p)}
    BY <1>2 DEF Trigger, NewExit
  <2> DEFINE New == {NewExit(t, number[t]) : t \in Planned(p)}
  <2>2. IsFiniteSet(Planned(p)) /\ Cardinality(Planned(p)) \in Nat
    BY PlannedType, FS_CardinalityType
  <2>3. IsFiniteSet(New)
    <3> DEFINE f == [t \in Planned(p) |-> NewExit(t, number[t])]
    <3>1. f \in [Planned(p) -> New] /\ \A e \in New : \E t \in Planned(p) : f[t] = e
      OBVIOUS
    <3> HIDE DEF f, New
    <3> QED
      BY <2>2, <3>1, ImageFinite
  <2>4. \A t \in Planned(p) :
          /\ t[1] \in Cell /\ t[2] \in Sym /\ ExitQty(t) \in 1..MaxQty
          /\ number[t] \in 1..MaxExits
    BY <1>2, <2>2, PlannedType, StopsAssumption DEF Trigger, StopsTyped
  <2>5. New \subseteq [id: 1..MaxExits, cell: Cell, sym: Sym, qty: 1..MaxQty, left: 1..MaxQty]
    BY <2>4 DEF NewExit
  <2>6. \A e \in New : e.left <= e.qty
    BY <2>4 DEF NewExit
  <2> HIDE DEF New
  <2>7. RowsInv'
    BY <2>1, <2>3, <2>6, JoinCount DEF RowsInv, New
  <2> QED
    BY <1>2, <2>1, <2>2, <2>5, <2>7 DEF Trigger, StopsTyped, New
<1>3. ASSUME NEW e \in exits, NEW q \in 1..MaxQty, FillExit(e, q) PROVE StopsTyped' /\ RowsInv'
  <2> DEFINE left == [id |-> e.id, cell |-> e.cell, sym |-> e.sym,
                      qty |-> e.qty, left |-> e.left - q]
             Kept == {r \in {left} : q < e.left}
  <2>1. /\ e \in [id: 1..MaxExits, cell: Cell, sym: Sym, qty: 1..MaxQty, left: 1..MaxQty]
        /\ e.left <= e.qty /\ q <= e.left /\ MaxQty \in Nat
    BY <1>3, StopsAssumption DEF StopsTyped, RowsInv, FillExit
  <2>2. /\ Kept \subseteq [id: 1..MaxExits, cell: Cell, sym: Sym, qty: 1..MaxQty, left: 1..MaxQty]
        /\ \A f \in Kept : f.left <= f.qty
    BY <2>1
  <2>3. IsFiniteSet(Kept)
    <3> HIDE DEF left
    <3>1. IsFiniteSet({left}) /\ Kept \in SUBSET {left}
      BY FS_Singleton
    <3> QED
      BY <3>1, FS_Subset
  <2>4. exits' = (exits \ {e}) \cup Kept
    BY <1>3 DEF FillExit
  <2>5. IsFiniteSet(exits \ {e})
    BY FS_RemoveElement DEF RowsInv
  <2> HIDE DEF Kept
  <2>6. RowsInv'
    BY <2>2, <2>3, <2>4, <2>5, JoinCount DEF RowsInv
  <2>7. /\ holdings' \in [Cell \X Sym -> 0..MaxQty]
        /\ master' \in [Sym -> Int] /\ long' = master'
        /\ armed' = armed /\ minted' = minted
    BY <1>3, <2>1 DEF FillExit, StopsTyped
  <2>8. exits' \subseteq [id: 1..MaxExits, cell: Cell, sym: Sym, qty: 1..MaxQty, left: 1..MaxQty]
    BY <2>2, <2>4 DEF StopsTyped
  <2> QED
    BY <1>1, <2>6, <2>7, <2>8 DEF StopsTyped
<1>4. ASSUME NEW e \in exits, Release(e) PROVE StopsTyped' /\ RowsInv'
  BY <1>4, FS_RemoveElement DEF Release, StopsTyped, RowsInv
<1>5. ASSUME NEW c \in Cell, NEW s \in Sym, Buy(c, s) PROVE StopsTyped' /\ RowsInv'
  <2>1. RowsInv'
    BY <1>5 DEF Buy, RowsInv
  <2>2. /\ holdings' \in [Cell \X Sym -> 0..MaxQty]
        /\ master' \in [Sym -> Int] /\ long' = master'
        /\ armed' = armed /\ minted' = minted /\ exits' = exits
    BY <1>5, StopsAssumption DEF Buy, StopsTyped
  <2> QED
    BY <1>1, <2>1, <2>2 DEF StopsTyped
<1>6. ASSUME NEW p \in Plans, Register(p) \/ Cancel(p) PROVE StopsTyped' /\ RowsInv'
  BY <1>6 DEF Register, Cancel, StopsTyped, RowsInv
<1>7. ASSUME UNCHANGED stopsvars PROVE StopsTyped' /\ RowsInv'
  BY <1>7 DEF stopsvars, StopsTyped, RowsInv
<1> QED
  BY <1>2, <1>3, <1>4, <1>5, <1>6, <1>7 DEF StopsNext

\* No step makes the exits of a cell claim more than the cell holds: a trigger
\* claims what is unreserved, a fill gives up as many shares as it sells.
LEMMA ClaimStep == IInv /\ [StopsNext]_stopsvars => NoDoubleClaim'
<1> SUFFICES ASSUME IInv, [StopsNext]_stopsvars, NEW c \in Cell, NEW s \in Sym
             PROVE  Cardinality(OpenShares(c, s)') <= holdings'[<<c, s>>]
  BY DEF NoDoubleClaim
<1> USE DEF IInv
<1> DEFINE Goal == Cardinality(OpenShares(c, s)') <= holdings'[<<c, s>>]
           Open == OpenShares(c, s)
<1>0. /\ IsFiniteSet(Open) /\ Cardinality(Open) \in Nat
      /\ holdings[<<c, s>>] \in Nat /\ Cardinality(Open) <= holdings[<<c, s>>]
  <2>1. IsFiniteSet(Open)
    BY SharesAreFinite
  <2>2. Cardinality(Open) \in Nat
    BY <2>1, FS_CardinalityType
  <2>3. holdings[<<c, s>>] \in Nat
    BY DEF StopsTyped
  <2> QED
    BY <2>1, <2>2, <2>3 DEF NoDoubleClaim
<1>1. ASSUME OpenShares(c, s)' \subseteq Open, holdings'[<<c, s>>] \in Int,
             holdings'[<<c, s>>] >= holdings[<<c, s>>]
      PROVE  Goal
  <2>1. /\ Cardinality(OpenShares(c, s)') \in Nat
        /\ Cardinality(OpenShares(c, s)') <= Cardinality(Open)
    BY <1>0, <1>1, FS_Subset, FS_CardinalityType
  <2> QED
    BY <1>0, <1>1, <2>1
<1>2. ASSUME NEW p \in Plans, Trigger(p) PROVE Goal
  <2>1. PICK number \in [Planned(p) -> minted + 1 .. minted + Cardinality(Planned(p))] :
          exits' = exits \cup {NewExit(t, number[t]) : t \in Planned(p)}
    BY <1>2 DEF Trigger, NewExit
  <2>2. holdings' = holdings
    BY <1>2 DEF Trigger
  <2> DEFINE u == <<c, s>>
             x == NewExit(u, number[u])
             q == ExitQty(u)
  <2>3. \A t \in Planned(p) : t[1] = c /\ t[2] = s => t = u
    BY PlannedType
  <2>4. CASE u \notin Planned(p)
    <3>1. OpenShares(c, s)' \subseteq Open
      BY <2>1, <2>3, <2>4 DEF OpenShares, NewExit
    <3> QED
      BY <1>0, <1>1, <2>2, <3>1
  <2>5. CASE u \in Planned(p)
    <3>1. q \in 1..MaxQty /\ q \in Nat /\ q = holdings[u] - ReservedOf(c, s)
      BY <2>5, PlannedType, StopsAssumption DEF ExitQty
    <3>2. OpenShares(c, s)' \subseteq Open \cup ({x} \X (1..q))
      BY <2>1, <2>3, <2>5 DEF OpenShares, NewExit
    <3>3. IsFiniteSet({x} \X (1..q)) /\ Cardinality({x} \X (1..q)) = q
      <4> HIDE DEF x, q
      <4> QED
        BY <3>1, FirstShares
    <3> HIDE DEF x, q, u
    <3>4. /\ IsFiniteSet(Open \cup ({x} \X (1..q)))
          /\ Cardinality(Open \cup ({x} \X (1..q))) <= Cardinality(Open) + q
      BY <1>0, <3>3, JoinCount
    <3>5. /\ Cardinality(OpenShares(c, s)') \in Nat
          /\ Cardinality(OpenShares(c, s)') <= Cardinality(Open \cup ({x} \X (1..q)))
          /\ Cardinality(Open \cup ({x} \X (1..q))) \in Nat
      BY <3>2, <3>4, FS_Subset, FS_CardinalityType
    <3>6. Cardinality(Open) <= ReservedOf(c, s) /\ ReservedOf(c, s) \in Nat
      BY OpenIsReserved
    <3> QED
      BY <1>0, <2>2, <3>1, <3>4, <3>5, <3>6 DEF u
  <2> QED
    BY <2>4, <2>5
<1>3. ASSUME NEW e \in exits, NEW q \in 1..MaxQty, FillExit(e, q) PROVE Goal
  <2> DEFINE x == [id |-> e.id, cell |-> e.cell, sym |-> e.sym,
                   qty |-> e.qty, left |-> e.left - q]
  <2>1. /\ e \in [id: 1..MaxExits, cell: Cell, sym: Sym, qty: 1..MaxQty, left: 1..MaxQty]
        /\ e.left \in 1..MaxQty /\ e.left \in Nat /\ q \in Nat /\ q <= e.left
    BY <1>3, StopsAssumption DEF StopsTyped, FillExit
  <2>2. exits' = (exits \ {e}) \cup {r \in {x} : q < e.left}
    BY <1>3 DEF FillExit
  <2>3. CASE e.cell = c /\ e.sym = s
    <3>1. holdings'[<<c, s>>] = holdings[<<c, s>>] - q
      BY <1>3, <2>3 DEF FillExit, StopsTyped
    <3> DEFINE Mine == {e} \X (1..e.left)
               Left == {x} \X (1..(e.left - q))
    <3>2. Mine \subseteq Open
      BY <2>1, <2>3, StopsAssumption DEF OpenShares
    <3>3. OpenShares(c, s)' \subseteq (Open \ Mine) \cup Left
      BY <2>1, <2>2 DEF OpenShares
    <3>4. /\ IsFiniteSet(Left) /\ Cardinality(Left) = e.left - q
          /\ IsFiniteSet(Mine) /\ Cardinality(Mine) = e.left
      <4>1. e.left - q \in Nat /\ e.left \in Nat
        BY <2>1
      <4> HIDE DEF x
      <4> QED
        BY <4>1, FirstShares
    <3> HIDE DEF Mine, Left, Open, x
    <3>5. IsFiniteSet(Open \ Mine) /\ Cardinality(Open \ Mine) = Cardinality(Open) - e.left
      BY <1>0, <3>2, <3>4, TakeCount
    <3>6. /\ IsFiniteSet((Open \ Mine) \cup Left)
          /\ Cardinality((Open \ Mine) \cup Left) <= Cardinality(Open \ Mine) + (e.left - q)
      BY <3>4, <3>5, JoinCount
    <3>7. /\ Cardinality(OpenShares(c, s)') \in Nat
          /\ Cardinality((Open \ Mine) \cup Left) \in Nat
          /\ Cardinality(OpenShares(c, s)') <= Cardinality((Open \ Mine) \cup Left)
      BY <3>3, <3>6, FS_Subset, FS_CardinalityType
    <3> QED
      BY <1>0, <2>1, <3>1, <3>5, <3>6, <3>7
  <2>4. CASE ~(e.cell = c /\ e.sym = s)
    <3>1. holdings'[<<c, s>>] = holdings[<<c, s>>]
      BY <1>3, <2>1, <2>4 DEF FillExit, StopsTyped
    <3>2. OpenShares(c, s)' \subseteq Open
      BY <2>1, <2>2, <2>4 DEF OpenShares
    <3> QED
      BY <1>0, <1>1, <3>1, <3>2
  <2> QED
    BY <2>3, <2>4
<1>4. ASSUME NEW e \in exits, Release(e) PROVE Goal
  <2>1. OpenShares(c, s)' \subseteq Open /\ holdings' = holdings
    BY <1>4 DEF OpenShares, Release
  <2> QED
    BY <1>0, <1>1, <2>1
<1>5. ASSUME NEW d \in Cell, NEW r \in Sym, Buy(d, r) PROVE Goal
  <2>1. OpenShares(c, s)' \subseteq Open
    BY <1>5 DEF OpenShares, Buy
  <2>2. holdings'[<<c, s>>] \in Int /\ holdings'[<<c, s>>] >= holdings[<<c, s>>]
    BY <1>0, <1>5 DEF Buy, StopsTyped
  <2> QED
    BY <1>1, <2>1, <2>2
<1>6. ASSUME UNCHANGED <<holdings, exits>> PROVE Goal
  <2>1. OpenShares(c, s)' \subseteq Open /\ holdings' = holdings
    BY <1>6 DEF OpenShares
  <2> QED
    BY <1>0, <1>1, <2>1
<1> QED
  BY <1>2, <1>3, <1>4, <1>5, <1>6 DEF StopsNext, stopsvars, Register, Cancel

\* Every step keeps the inductive invariant.
LEMMA StepIInv == IInv /\ [StopsNext]_stopsvars => IInv'
BY TypeStep, ClaimStep, BalanceStep DEF IInv

\* Counted over the cells, the shares a stop would sell and the shares already
\* reserved are shares the cells hold.
LEMMA DemandFits ==
  ASSUME IInv, \A e \in exits : e.left = e.qty, NEW p \in Plans, NEW s \in Sym
  PROVE  Cardinality(DemandShares(p, s)) + Reserved(s) <= long[s]
<1> USE DEF IInv
<1> DEFINE Dem == DemandShares(p, s)
           Res == ReservedShares(s)
           Held == HeldShares(s)
           \* the two kinds of share, told apart
           A == ({1} \X Dem) \cup ({2} \X Res)
           \* the cell whose share it is
           fa == [a \in A |-> IF a[1] = 1 THEN a[2][1][1] ELSE a[2][1].cell]
           fb == [h \in Held |-> h[1]]
<1>1. /\ IsFiniteSet(Dem) /\ IsFiniteSet(Res) /\ IsFiniteSet(Held)
      /\ Cardinality(Dem) \in Nat /\ Cardinality(Res) \in Nat /\ Cardinality(Held) \in Nat
  <2>1. IsFiniteSet(Planned(p) \X (1..MaxQty))
    BY PlannedType, SharesFinite, StopsAssumption
  <2>2. Dem \in SUBSET (Planned(p) \X (1..MaxQty))
    BY DEF DemandShares
  <2>3. IsFiniteSet(Dem) /\ IsFiniteSet(Res) /\ IsFiniteSet(Held)
    BY <2>1, <2>2, SharesAreFinite, FS_Subset
  <2> HIDE DEF Dem, Res, Held
  <2> QED
    BY <2>3, FS_CardinalityType
<1>2. IsFiniteSet(A) /\ Cardinality(A) = Cardinality(Dem) + Cardinality(Res)
  <2> HIDE DEF Dem, Res
  <2>1. /\ IsFiniteSet({1} \X Dem) /\ Cardinality({1} \X Dem) = Cardinality(Dem)
        /\ IsFiniteSet({2} \X Res) /\ Cardinality({2} \X Res) = Cardinality(Res)
    BY <1>1, Tagged
  <2>2. ({1} \X Dem) \cap ({2} \X Res) = {}
    OBVIOUS
  <2> DEFINE L == {1} \X Dem
             R == {2} \X Res
  <2>3. IsFiniteSet(L) /\ IsFiniteSet(R) /\ L \cap R = {}
    BY <2>1, <2>2
  <2> HIDE DEF L, R
  <2>4. IsFiniteSet(L \cup R) /\ Cardinality(L \cup R) = Cardinality(L) + Cardinality(R)
    BY <2>3, JoinCount
  <2>5. A = L \cup R
    BY DEF L, R
  <2>6. Cardinality(L) = Cardinality(Dem) /\ Cardinality(R) = Cardinality(Res)
    BY <2>1 DEF L, R
  <2> HIDE DEF A
  <2> QED
    BY <2>4, <2>5, <2>6
<1>3. fa \in [A -> Cell] /\ fb \in [Held -> Cell]
  <2>1. \A h \in Dem : h[1][1] \in Cell
    BY PlannedType DEF DemandShares
  <2>2. \A h \in Res : h[1].cell \in Cell
    BY DEF ReservedShares, StopsTyped
  <2>3. \A h \in Held : h[1] \in Cell
    BY DEF HeldShares
  <2> HIDE DEF Dem, Res, Held
  <2> QED
    BY <2>1, <2>2, <2>3
<1>4. ASSUME NEW c \in Cell
      PROVE  Cardinality({a \in A : fa[a] = c}) <= Cardinality({h \in Held : fb[h] = c})
  <2> DEFINE u == <<c, s>>
             DemOf == {h \in Dem : h[1][1] = c}
             ResOf == {h \in Res : h[1].cell = c}
             n == holdings[u]
  <2>1. n \in 0..MaxQty /\ n \in Nat
    BY DEF StopsTyped
  <2>2. {h \in Held : fb[h] = c} = {c} \X (1..n)
    BY <2>1, StopsAssumption DEF HeldShares
  <2>3. Cardinality({h \in Held : fb[h] = c}) = n
    <3> HIDE DEF n
    <3> QED
      BY <2>1, <2>2, FirstShares
  <2>4. {a \in A : fa[a] = c} = ({1} \X DemOf) \cup ({2} \X ResOf)
    <3> HIDE DEF Dem, Res
    <3> QED
      OBVIOUS
  <2>5. /\ IsFiniteSet(ResOf) /\ Cardinality(ResOf) = ReservedOf(c, s)
        /\ ReservedOf(c, s) \in Nat
    BY SharesAreFinite, OpenIsReserved DEF ReservedOf
  <2>6. /\ IsFiniteSet(DemOf) /\ Cardinality(DemOf) \in Nat
        /\ Cardinality(DemOf) + ReservedOf(c, s) <= n
    <3>1. CASE u \in Planned(p)
      <4> DEFINE q == ExitQty(u)
      <4>1. q \in 1..MaxQty /\ q \in Nat /\ q = n - ReservedOf(c, s)
        BY <3>1, PlannedType, StopsAssumption DEF ExitQty
      <4>2. DemOf = {u} \X (1..q)
        <5>1. \A t \in Planned(p) : t[1] = c /\ t[2] = s => t = u
          BY PlannedType
        <5>2. \A h \in DemOf : h \in {u} \X (1..q)
          BY <4>1, <5>1 DEF DemandShares
        <5>3. \A h \in {u} \X (1..q) : h \in DemOf
          BY <3>1, <4>1, StopsAssumption DEF DemandShares
        <5> QED
          BY <5>2, <5>3
      <4> HIDE DEF q, u, n, DemOf
      <4>3. IsFiniteSet({u} \X (1..q)) /\ Cardinality({u} \X (1..q)) = q
        BY <4>1, FirstShares
      <4> QED
        BY <2>1, <2>5, <4>1, <4>2, <4>3
    <3>2. CASE u \notin Planned(p)
      <4>1. DemOf = {}
        BY <3>2, PlannedType DEF DemandShares
      <4>2. OpenShares(c, s) = {h \in ReservedShares(s) : h[1].cell = c}
        BY DEF OpenShares, ReservedShares
      <4>3. ReservedOf(c, s) <= n
        BY <4>2 DEF ReservedOf, NoDoubleClaim
      <4> HIDE DEF DemOf, n
      <4> QED
        BY <2>1, <2>5, <4>1, <4>3, FS_EmptySet
    <3> QED
      BY <3>1, <3>2
  <2> HIDE DEF DemOf, ResOf, A, fa, n
  <2>7. /\ IsFiniteSet({1} \X DemOf) /\ Cardinality({1} \X DemOf) = Cardinality(DemOf)
        /\ IsFiniteSet({2} \X ResOf) /\ Cardinality({2} \X ResOf) = Cardinality(ResOf)
    BY <2>5, <2>6, Tagged
  <2>8. /\ IsFiniteSet(({1} \X DemOf) \cup ({2} \X ResOf))
        /\ Cardinality(({1} \X DemOf) \cup ({2} \X ResOf))
             <= Cardinality(DemOf) + Cardinality(ResOf)
    BY <2>7, JoinCount
  <2>9. Cardinality(({1} \X DemOf) \cup ({2} \X ResOf)) \in Nat
    BY <2>8, FS_CardinalityType
  <2>10. Cardinality({a \in A : fa[a] = c}) = Cardinality(({1} \X DemOf) \cup ({2} \X ResOf))
    BY <2>4, Zenon
  <2> HIDE DEF Held, fb
  <2>11. Cardinality(({1} \X DemOf) \cup ({2} \X ResOf)) <= n
    BY <2>1, <2>5, <2>6, <2>8, <2>9
  <2> QED
    BY <2>3, <2>10, <2>11, Zenon
<1>5. Cardinality(A) <= Cardinality(Held)
  <2> HIDE DEF A, Held, fa, fb
  <2> DEFINE oa == [c \in Cell |-> {a \in A : fa[a] = c}]
             ob == [c \in Cell |-> {h \in Held : fb[h] = c}]
  <2>1. \A c \in Cell : oa[c] = {a \in A : fa[a] = c} /\ ob[c] = {h \in Held : fb[h] = c}
    OBVIOUS
  <2>2. \A c \in Cell : Cardinality(oa[c]) <= Cardinality(ob[c])
    BY <1>4, Zenon
  <2> HIDE DEF oa, ob
  <2> QED
    BY <1>1, <1>2, <1>3, <2>1, <2>2, OwnerwiseCount
<1> QED
  BY <1>1, <1>2, <1>5 DEF BalanceInv, Reserved

-----------------------------------------------------------------------------
\* The inductive invariant holds in every reachable state.
LEMMA AlwaysIInv == StopsSpec => []IInv
<1>1. StopsInit => IInv
  BY InitIInv
<1>2. IInv /\ [StopsNext]_stopsvars => IInv'
  BY StepIInv
<1> QED
  BY <1>1, <1>2, PTL DEF StopsSpec

\* Positions, plans and exits keep their types, so no fill drives a cell short.
THEOREM TypeCorrect == StopsSpec => []StopsTyped
BY AlwaysIInv, PTL DEF IInv

\* However triggers of all scopes, fills, purchases and releases interleave, the
\* exits in flight of a cell can all be filled from what it holds.
THEOREM NoShareClaimedTwice == StopsSpec => []NoDoubleClaim
BY AlwaysIInv, PTL DEF IInv

\* As long as no exit is filled in part, the reservation ledger refuses no stop.
THEOREM StopsCanFire == StopsSpec => []StopCanFire
<1>1. IInv => StopCanFire
  <2> SUFFICES ASSUME IInv, \A e \in exits : e.left = e.qty,
                      NEW p \in Plans, NEW s \in Sym
               PROVE  Cardinality(DemandShares(p, s)) <= Available(s)
    BY DEF StopCanFire, Fits
  <2> DEFINE d == Cardinality(DemandShares(p, s))
             m == long[s] - Reserved(s)
  <2>1. d + Reserved(s) <= long[s]
    BY DemandFits
  <2>2. Reserved(s) \in Nat
    BY SharesAreFinite, FS_CardinalityType DEF IInv, Reserved
  <2>3. d \in Nat
    <3>1. IsFiniteSet(Planned(p) \X (1..MaxQty))
      BY PlannedType, SharesFinite, StopsAssumption DEF IInv
    <3>2. DemandShares(p, s) \in SUBSET (Planned(p) \X (1..MaxQty))
      BY DEF DemandShares
    <3> QED
      BY <3>1, <3>2, FS_Subset, FS_CardinalityType
  <2>4. long[s] \in Nat
    BY DEF IInv, StopsTyped
  <2>5. m \in Nat /\ d <= m
    <3> HIDE DEF d
    <3> QED
      BY <2>1, <2>2, <2>3, <2>4
  <2> HIDE DEF m
  <2>6. Max({0, m}) = m
    BY <2>5 DEF Max
  <2> QED
    BY <2>5, <2>6 DEF Available, m
<1> QED
  BY <1>1, AlwaysIInv, PTL
=============================================================================
