----------------------- MODULE DecisionSessionProofs -----------------------
(***************************************************************************)
(* Proofs about what a session decides and writes down: no entry is sent   *)
(* that was not passed, sent orders are traceable, unprotected entries     *)
(* reported, and sessions, decisions and attempts accounted for.           *)
(***************************************************************************)
EXTENDS DecisionSession, Counting, SequenceTheorems

Proposals == [sym: Sym, flaws: FlawSets]
Stages    == {"none", "opened", "output", "skeptic", "thesis", "stop_plan",
              "position_size", "risk_decision", "order_ref"}
Places    == {"new", "scan", "decide", "allocate", "orders", "submit", "fills",
              "protect", "idle"}
Audits    == [by: {"unset", "mock", "claude", "none"}, verdict: {"unset"} \cup Verdicts]
Records   ==
  [sym: Sym, exit: BOOLEAN, wrong: BOOLEAN, audit: Audits, risk: {"unset", "failed", "passed"},
   hash: BOOLEAN, submitted: BOOLEAN,
   final: {"unset", "ACKNOWLEDGED", "REJECTED", "UNKNOWN", "FILLED", "PARTIALLY_FILLED"},
   fills: BOOLEAN, row: BOOLEAN]

\* What the variables of the order path hold.
LogTypes ==
  /\ config \in Configs
  /\ pc \in Places
  /\ sized \in Seq(Proposals)
  /\ todo \in Seq(Sym)
  /\ log \in Seq(Records)
  /\ traded \in BOOLEAN /\ explained \in BOOLEAN /\ aborted \in BOOLEAN

\* The order under way: its record is the last one, sent and not persisted until
\* its fills are booked.
Current ==
  /\ aborted => pc = "idle"
  /\ pc \in {"submit", "fills", "protect"} =>
       /\ Len(log) > 0
       /\ log[Len(log)].submitted /\ ~log[Len(log)].exit
       /\ log[Len(log)].audit # NoAudit /\ log[Len(log)].risk # "unset" /\ log[Len(log)].hash
  /\ pc \in {"submit", "fills"} => ~log[Len(log)].fills /\ sized # <<>>
  /\ pc \in {"fills", "protect"} => log[Len(log)].final # "unset"

\* Every record but the one under way, or cut off, is complete.
Traced ==
  \A i \in 1..Len(log) :
    \/ FullyTraceable(log[i]) /\ log[i].row = log[i].submitted
    \/ i = Len(log) /\ (aborted \/ pc \in {"submit", "fills"})

\* Every filled entry but the one whose stop is being placed is protected or
\* reported.
Covered ==
  \A i \in 1..Len(log) : log[i].fills =>
    \/ i < Len(log) /\ log[i + 1].exit /\ log[i + 1].sym = log[i].sym
    \/ \E m \in misses : m.kind = "NO_STOP" /\ m.stage = "RISK" /\ m.sym = log[i].sym
    \/ i = Len(log) /\ (aborted \/ pc = "protect")

\* The inductive invariant of the order path.
LogInv == LogTypes /\ Current /\ Traced /\ Covered /\ OnlyPassedIsSent

-----------------------------------------------------------------------------
(* Sequences, by what the actions do to them.                              *)

\* A record is appended.
LEMMA Appended ==
  ASSUME NEW S, NEW q \in Seq(S), NEW r \in S
  PROVE  /\ Append(q, r) \in Seq(S) /\ Len(Append(q, r)) = Len(q) + 1 /\ Len(q) \in Nat
         /\ \A i \in 1..Len(q) : Append(q, r)[i] = q[i]
         /\ Append(q, r)[Len(q) + 1] = r
BY AppendProperties, LenProperties

\* The last record is written again.
LEMMA Rewritten ==
  ASSUME NEW S, NEW q \in Seq(S), Len(q) > 0, NEW r \in S
  PROVE  LET w == [q EXCEPT ![Len(q)] = r]
         IN  /\ w \in Seq(S) /\ Len(w) = Len(q) /\ w[Len(q)] = r
             /\ \A i \in 1..Len(q) - 1 : w[i] = q[i]
<1>1. Len(q) \in 1..Len(q)
  BY LenProperties
<1> QED
  BY <1>1, LenProperties, ExceptSeq

\* The first element is taken off.
LEMMA Beheaded ==
  ASSUME NEW S, NEW q \in Seq(S), q # <<>>
  PROVE  /\ Head(q) \in S /\ Tail(q) \in Seq(S) /\ Len(q) \in Nat
         /\ Len(Tail(q)) = Len(q) - 1 /\ Head(q) = q[1]
         /\ \A i \in 1..Len(Tail(q)) : Tail(q)[i] = q[i + 1]
BY HeadTailProperties, LenProperties

\* A sequence is cut after its first n elements.
LEMMA Cut ==
  ASSUME NEW S, NEW q \in Seq(S), NEW n \in 0..Len(q)
  PROVE  /\ SubSeq(q, 1, n) \in Seq(S) /\ Len(SubSeq(q, 1, n)) = n
         /\ \A i \in 1..n : SubSeq(q, 1, n)[i] = q[i]
<1>1. Len(q) \in Nat
  BY LenProperties
<1>2. \A i \in 1..n : q[i] \in S
  BY <1>1, ElementOfSeq
<1> QED
  BY <1>1, <1>2, SubSeqProperties

\* An arrangement of a finite set is a sequence of its elements.
LEMMA Arranged ==
  ASSUME NEW T, IsFiniteSet(T), NEW q \in SetToSeqs(T)
  PROVE  /\ q \in Seq(T) /\ Len(q) = Cardinality(T) /\ Len(q) \in Nat
         /\ \A i, j \in 1..Len(q) : i # j => q[i] # q[j]
<1> DEFINE n == Cardinality(T)
<1>1. n \in Nat
  BY FS_CardinalityType
<1>2. q \in [1..n -> T] /\ \A i, j \in 1..n : i # j => q[i] # q[j]
  BY DEF SetToSeqs
<1> HIDE DEF n
<1>3. q \in Seq(T) /\ Len(q) = n
  BY <1>1, <1>2
<1> QED
  BY <1>1, <1>2, <1>3 DEF n

\* A sequence has finitely many elements.
LEMMA SeqRangeFinite ==
  ASSUME NEW S, NEW q \in Seq(S)
  PROVE  IsFiniteSet(ToSet(q))
<1>1. IsFiniteSet(1..Len(q)) /\ DOMAIN q = 1..Len(q)
  BY LenProperties, FS_Interval
<1>2. q \in [1..Len(q) -> ToSet(q)] /\ \A t \in ToSet(q) : \E i \in 1..Len(q) : q[i] = t
  BY <1>1, LenProperties DEF ToSet
<1> QED
  BY <1>1, <1>2, ImageFinite

-----------------------------------------------------------------------------
(* Types.                                                                  *)

\* A record the session opens has the type of records.
LEMMA OpenedType ==
  ASSUME NEW s \in Sym, NEW exit \in BOOLEAN, NEW wrong \in BOOLEAN, NEW audit \in Audits,
         NEW risk \in {"unset", "failed", "passed"}, NEW sent \in BOOLEAN,
         NEW final \in {"unset", "ACKNOWLEDGED", "REJECTED", "UNKNOWN", "FILLED", "PARTIALLY_FILLED"}
  PROVE  Opened(s, exit, wrong, audit, risk, sent, final) \in Records
BY DEF Opened, Records

\* So has one that is written again.
LEMMA PersistedType ==
  ASSUME NEW r \in Records, NEW fills \in BOOLEAN, NEW row \in BOOLEAN,
         NEW final \in {"unset", "ACKNOWLEDGED", "REJECTED", "UNKNOWN", "FILLED", "PARTIALLY_FILLED"}
  PROVE  Persisted(r, final, fills, row) \in Records
BY DEF Persisted, Records

(* A test is one of the two Booleans; the provers ask for it where a record     *)
(* keeps the result of a test as a value.                                      *)
LEMMA MembershipIsBoolean == ASSUME NEW x, NEW S PROVE (x \in S) \in BOOLEAN
OBVIOUS

\* The proposal being handled, and the result of its audit.
LEMMA NewType ==
  ASSUME LogTypes, sized # <<>>, NEW audit \in Audits, NEW risk \in {"unset", "failed", "passed"},
         NEW sent \in BOOLEAN
  PROVE  Prop \in Proposals /\ Prop.sym \in Sym /\ New(audit, risk, sent) \in Records
<1>0. Prop \in Proposals
  BY Beheaded DEF LogTypes, Prop
<1>1. Prop \in Proposals /\ Prop.sym \in Sym
  BY <1>0 DEF Proposals
<1>3. ("symbol_match" \in Prop.flaws) \in BOOLEAN
  BY MembershipIsBoolean
<1> QED
  BY <1>1, <1>3, OpenedType DEF New

(* The result of an audit that ran: it has its type, and a record shows whether *)
(* there was an audit at all.                                                  *)
LEMMA ResultType ==
  ASSUME config \in Configs, NEW v \in Verdicts
  PROVE  Result(v) \in Audits /\ NoAudit \in Audits /\ Result(v) # NoAudit
<1>1. config.auditor \in {"mock", "claude", "none"}
  BY DEF Configs
<1>2. Result(v) \in Audits /\ NoAudit \in Audits
  BY <1>1 DEF Result, NoAudit, Audits
<1>3. Result(v).by # "unset" /\ NoAudit.by = "unset"
  BY <1>1 DEF Result, NoAudit
<1> QED
  BY <1>2, <1>3

\* What allocate accepts are proposals, each once.
LEMMA RankType ==
  ASSUME LogTypes, NEW S \in SUBSET ToSet(sized), NEW rank \in SetToSeqs(S)
  PROVE  /\ rank \in Seq(Proposals) /\ Len(rank) \in Nat
         /\ \A i \in 1..Len(rank) : rank[i] \in ToSet(sized)
         /\ \A i, j \in 1..Len(rank) : i # j => rank[i] # rank[j]
<1>1. ToSet(sized) \subseteq Proposals
  BY LenProperties, ElementOfSeq DEF ToSet, LogTypes
<1>2. IsFiniteSet(ToSet(sized))
  BY SeqRangeFinite DEF LogTypes
<1>3. IsFiniteSet(S) /\ S \subseteq Proposals
  BY <1>1, <1>2, FS_Subset
<1>4. /\ rank \in Seq(S) /\ Len(rank) \in Nat
      /\ \A i, j \in 1..Len(rank) : i # j => rank[i] # rank[j]
  BY <1>3, Arranged
<1> QED
  BY <1>3, <1>4, SeqMonotonic, ElementOfSeq

\* Every step keeps the types.
LEMMA LogTypesStep == LogTypes /\ Current /\ [Next]_vars => LogTypes'
<1> SUFFICES ASSUME LogTypes, Current, [Next]_vars PROVE LogTypes'
  OBVIOUS
<1>a. Len(log) \in Nat /\ \A i \in 1..Len(log) : log[i] \in Records
  BY LenProperties, ElementOfSeq DEF LogTypes
<1>0. /\ Len(log) > 0 => log[Len(log)] \in Records
      /\ todo # <<>> => Tail(todo) \in Seq(Sym)
      /\ sized # <<>> => Tail(sized) \in Seq(Proposals)
      /\ NoAudit \in Audits /\ \A v \in Verdicts : Result(v) \in Audits
  BY <1>a, Beheaded, ResultType DEF LogTypes, Verdicts
<1>1. ASSUME NEW out \in SUBSET held, SessionStart(out) PROVE LogTypes'
  BY <1>1, EmptySeq DEF SessionStart, Fresh, LogTypes, Places
<1>2. CASE ScannedNothing
  BY <1>2 DEF ScannedNothing, Explain, LogTypes, Places, funnel
<1>3. ASSUME NEW S \in SUBSET Sym, NEW n \in SUBSET S, NEW gated \in SetToSeqs(S \ n),
             NEW bad \in BOOLEAN, Gate(n, gated, bad)
      PROVE  LogTypes'
  <2>1. IsFiniteSet(S \ n)
    BY FS_Subset, DecisionAssumption
  <2>2. gated \in Seq(S \ n)
    BY <2>1, Arranged
  <2>3. gated \in Seq(Sym) /\ Len(gated) \in Nat
    BY <2>2, SeqMonotonic, LenProperties
  <2>4. todo' \in Seq(Sym)
    <3> DEFINE k == IF Len(gated) < 3 * MaxNew THEN Len(gated) ELSE 3 * MaxNew
    <3>1. k \in 0..Len(gated)
      BY <2>3, DecisionAssumption
    <3>2. todo' = SubSeq(gated, 1, k)
      BY <1>3 DEF Gate
    <3> HIDE DEF k
    <3> QED
      BY <2>3, <3>1, <3>2, Cut
  <2> QED
    BY <1>3, <2>4 DEF Gate, LogTypes, Places
<1>4. ASSUME Decide PROVE LogTypes'
  <2>1. ASSUME NEW f \in FlawSets, Size(f) PROVE LogTypes'
    <3>1. [sym |-> Cand, flaws |-> f] \in Proposals
      BY <2>1, Beheaded DEF Size, Deciding, Cand, LogTypes, Proposals
    <3>2. sized' \in Seq(Proposals)
      BY <2>1, <3>1, Appended DEF Size, LogTypes
    <3> QED
      BY <1>0, <2>1, <3>2 DEF Size, Deciding, NextCand, LogTypes, result
  <2>2. ASSUME NEW f, Refuse(f) PROVE LogTypes'
    BY <1>0, <2>2 DEF Refuse, Deciding, NextCand, Explain, LogTypes
  <2>3. CASE NoDecision
    BY <1>0, <2>3 DEF NoDecision, Deciding, NextCand, Explain, LogTypes
  <2>4. CASE SellUnheld
    BY <1>0, <2>4 DEF SellUnheld, Deciding, NextCand, Explain, LogTypes
  <2>5. ASSUME NEW a \in Stance, NoOrder(a) PROVE LogTypes'
    BY <1>0, <2>5 DEF NoOrder, Deciding, NextCand, LogTypes, result
  <2>6. CASE CandidateAborts
    BY <2>6 DEF CandidateAborts, Abort, LogTypes, funnel, Places
  <2>7. CASE Decided
    BY <2>7 DEF Decided, LogTypes, funnel, Places
  <2> QED
    BY <1>4, <2>1, <2>2, <2>3, <2>4, <2>5, <2>6, <2>7
       DEF Decide, SkepticVetoes, NoStopPlan, SizeRefused
<1>5. ASSUME NEW S \in SUBSET ToSet(sized), NEW rank \in SetToSeqs(S), Allocate(rank)
      PROVE  LogTypes'
  <2>2. rank \in Seq(Proposals) /\ Len(rank) \in Nat
    BY RankType
  <2>3. sized' \in Seq(Proposals)
    <3> DEFINE k == IF Len(rank) < MaxNew THEN Len(rank) ELSE MaxNew
    <3>1. k \in 0..Len(rank)
      BY <2>2, DecisionAssumption
    <3>2. sized' = SubSeq(rank, 1, k)
      BY <1>5 DEF Allocate
    <3> HIDE DEF k
    <3> QED
      BY <2>2, <3>1, <3>2, Cut
  <2> QED
    BY <1>5, <2>3 DEF Allocate, LogTypes, Places
<1>6. ASSUME Handle PROVE LogTypes'
  <2>1. ASSUME NEW a, AuditUnavailable(a) PROVE LogTypes'
    BY <1>0, <2>1, NewType, Appended
       DEF AuditUnavailable, Audited, Handling, Done, Explain, LogTypes
  <2>2. ASSUME NEW a, AuditRaises(a) PROVE LogTypes'
    BY <1>0, <2>2, NewType, Appended
       DEF AuditRaises, Audited, Handling, Abort, funnel, LogTypes, Places
  <2>3. ASSUME NEW a, AuditReview(a) PROVE LogTypes'
    BY <1>0, <2>3, NewType, Appended
       DEF AuditReview, Audited, Handling, Done, Explain, LogTypes, Verdicts
  <2>4. ASSUME NEW a, AuditReject(a) PROVE LogTypes'
    BY <1>0, <2>4, NewType, Appended
       DEF AuditReject, Audited, Handling, Done, Explain, LogTypes, Verdicts
  <2>5. ASSUME NEW a, RiskViewFails(a) PROVE LogTypes'
    BY <1>0, <2>5, NewType, Appended
       DEF RiskViewFails, Audited, Handling, Abort, funnel, LogTypes, Places, Verdicts
  <2>6. ASSUME NEW a, RiskRejects(a) PROVE LogTypes'
    BY <1>0, <2>6, NewType, Appended
       DEF RiskRejects, Audited, Handling, Done, Explain, LogTypes, Verdicts
  <2>7. ASSUME NEW a, Approve(a) PROVE LogTypes'
    BY <1>0, <2>7, NewType, Appended
       DEF Approve, Audited, Handling, funnel, result, LogTypes, Places, Verdicts
  <2>8. CASE SubmitRaises
    BY <2>8 DEF SubmitRaises, Abort, funnel, LogTypes, Places
  <2>9. ASSUME NEW st \in {"ACKNOWLEDGED", "REJECTED", "UNKNOWN"}, SubmitEnds(st)
        PROVE  LogTypes'
    <3>1. log[Len(log)] \in Records /\ Len(log) > 0 /\ sized # <<>>
      BY <1>0, <2>9 DEF SubmitEnds, Current
    <3>2. Persisted(log[Len(log)], st, FALSE, TRUE) \in Records
      BY <3>1, PersistedType
    <3>3. log' \in Seq(Records)
      BY <2>9, <3>1, <3>2, Rewritten DEF SubmitEnds, LogTypes
    <3> QED
      BY <1>0, <2>9, <3>1, <3>3 DEF SubmitEnds, Explain, LogTypes, Places
  <2>10. ASSUME NEW st \in {"FILLED", "PARTIALLY_FILLED"}, SubmitFills(st) PROVE LogTypes'
    <3>1. log[Len(log)] \in Records /\ Len(log) > 0
      BY <1>0, <2>10 DEF SubmitFills, Current
    <3>2. Persisted(log[Len(log)], st, FALSE, FALSE) \in Records
      BY <3>1, PersistedType
    <3>3. log' \in Seq(Records)
      BY <2>10, <3>1, <3>2, Rewritten DEF SubmitFills, LogTypes
    <3> QED
      BY <2>10, <3>3 DEF SubmitFills, funnel, result, LogTypes, Places
  <2>11. CASE FillsUnavailable
    BY <2>11 DEF FillsUnavailable, Abort, funnel, LogTypes, Places
  <2>12. CASE BookFills
    <3>1. log[Len(log)] \in Records /\ Len(log) > 0 /\ sized # <<>>
      BY <1>0, <2>12 DEF BookFills, Current
    <3>a. log[Len(log)].final \in {"unset", "ACKNOWLEDGED", "REJECTED", "UNKNOWN", "FILLED", "PARTIALLY_FILLED"}
      BY <3>1 DEF Records
    <3>2. Persisted(log[Len(log)], log[Len(log)].final, TRUE, TRUE) \in Records
      BY <3>1, <3>a, PersistedType
    <3>3. log' \in Seq(Records)
      BY <2>12, <3>1, <3>2, Rewritten DEF BookFills, LogTypes
    <3> QED
      BY <1>0, <2>12, <3>1, <3>3 DEF BookFills, LogTypes, Places
  <2>13. ASSUME NEW st \in {"unset", "ACKNOWLEDGED", "UNKNOWN"}, pc = "protect"
         PROVE  Stop(st) \in Records
    <3>0. log[Len(log)] \in Records
      BY <1>0, <2>13 DEF Current
    <3>1. Entry \in Sym
      BY <3>0 DEF Entry, Records
    <3> QED
      BY <1>0, <3>1, OpenedType DEF Stop
  <2>14. ASSUME NEW st \in {"ACKNOWLEDGED", "UNKNOWN"}, StopPlaced(st) PROVE LogTypes'
    BY <2>13, <2>14, Appended DEF StopPlaced, funnel, result, LogTypes, Places
  <2>15. CASE StopRefused
    BY <2>15 DEF StopRefused, Explain, funnel, LogTypes, Places
  <2>16. ASSUME NEW sent \in BOOLEAN, StopAborts(sent) PROVE LogTypes'
    BY <2>13, <2>16, Appended DEF StopAborts, Abort, funnel, LogTypes, Places
  <2>17. CASE SessionEnds
    BY <2>17 DEF SessionEnds, funnel, result, LogTypes, Places
  <2> QED
    BY <1>6, <2>1, <2>2, <2>3, <2>4, <2>5, <2>6, <2>7, <2>8, <2>9, <2>10, <2>11, <2>12,
       <2>14, <2>15, <2>16, <2>17 DEF Handle
<1>7. ASSUME NEW n, NEW r, ResolveReview(n, r) PROVE LogTypes'
  BY <1>7 DEF ResolveReview, funnel, result, LogTypes
<1>8. CASE UNCHANGED vars
  BY <1>8 DEF vars, funnel, result, LogTypes
<1> QED
  BY <1>1, <1>2, <1>3, <1>4, <1>5, <1>6, <1>7, <1>8 DEF Next

-----------------------------------------------------------------------------
(* The order path.                                                         *)

\* Steps that leave the records alone and do not leave the order under way.
LEMMA LogKept ==
  ASSUME LogInv, LogTypes', config' = config, log' = log, misses \subseteq misses',
         aborted' => pc' = "idle", aborted => aborted',
         pc' \in {"submit", "fills", "protect"} => pc' = pc /\ sized' = sized,
         pc \in {"submit", "fills", "protect"} => pc' = pc \/ aborted'
  PROVE  LogInv'
<1>1. Current'
  BY DEF LogInv, Current
<1>2. Traced'
  BY DEF LogInv, Traced, FullyTraceable, Current
<1>3. Covered'
  BY DEF LogInv, Covered
<1>4. OnlyPassedIsSent'
  BY DEF LogInv, OnlyPassedIsSent, SentWasPassed, WrongSymbolNotSent
<1> QED
  BY <1>1, <1>2, <1>3, <1>4 DEF LogInv

\* A record r is appended at n + 1 by a step that leaves no order behind: the filled
\* entries stay covered if r is the stop of the one under way.
LEMMA StayCovered ==
  ASSUME LogInv, LogTypes', misses \subseteq misses', pc \in {"orders", "protect"},
         NEW r, NEW n \in Nat, Len(log) = n, Len(log') = n + 1,
         \A i \in 1..n : log'[i] = log[i], log'[n + 1] = r, ~r.fills,
         pc = "protect" => r.exit /\ r.sym = log[n].sym
  PROVE  Covered'
<1> SUFFICES ASSUME NEW i \in 1..n + 1, log'[i].fills
             PROVE  \/ i < n + 1 /\ log'[i + 1].exit /\ log'[i + 1].sym = log'[i].sym
                    \/ \E m \in misses' : /\ m.kind = "NO_STOP" /\ m.stage = "RISK"
                                          /\ m.sym = log'[i].sym
  BY DEF Covered
<1>1. ~aborted
  BY DEF LogInv, Current
<1>2. i \in 1..n /\ log'[i] = log[i]
  BY SMT
<1>3. \/ i < n /\ log[i + 1].exit /\ log[i + 1].sym = log[i].sym
      \/ \E m \in misses : m.kind = "NO_STOP" /\ m.stage = "RISK" /\ m.sym = log[i].sym
      \/ i = n /\ pc = "protect"
  BY <1>1, <1>2 DEF LogInv, Covered
<1>4. CASE i < n /\ log[i + 1].exit /\ log[i + 1].sym = log[i].sym
  <2>1. i + 1 \in 1..n
    BY <1>2, <1>4
  <2>2. log'[i + 1] = log[i + 1]
    BY <2>1
  <2> QED
    BY <1>2, <1>4, <2>2
<1>5. CASE \E m \in misses : m.kind = "NO_STOP" /\ m.stage = "RISK" /\ m.sym = log[i].sym
  BY <1>2, <1>5
<1>6. CASE i = n /\ pc = "protect"
  BY <1>2, <1>6
<1> QED
  BY <1>3, <1>4, <1>5, <1>6

\* A record is opened for a proposal that is not sent.
LEMMA LogAdded ==
  ASSUME LogInv, LogTypes', config' = config, misses \subseteq misses', pc = "orders",
         NEW r, NEW n \in Nat, Len(log) = n, Len(log') = n + 1,
         \A i \in 1..n : log'[i] = log[i], log'[n + 1] = r,
         ~r.exit, ~r.fills, r.submitted = FALSE, r.row = FALSE,
         pc' \in {"orders", "idle"}, aborted' => pc' = "idle"
  PROVE  LogInv'
<1>2. DOMAIN log = 1..n /\ DOMAIN log' = 1..n + 1
  BY LenProperties DEF LogInv, LogTypes
<1>3. \A i \in 1..n + 1 : i = n + 1 \/ i \in 1..n
  OBVIOUS
<1>4. ~aborted
  BY DEF LogInv, Current
<1>5. Current'
  BY DEF Current
<1>6. Traced'
  BY <1>3, <1>4 DEF LogInv, Traced, FullyTraceable
<1>7. Covered'
  BY StayCovered
<1>8. OnlyPassedIsSent'
  BY <1>2, <1>3 DEF LogInv, OnlyPassedIsSent, SentWasPassed, WrongSymbolNotSent
<1> QED
  BY <1>5, <1>6, <1>7, <1>8 DEF LogInv

\* A record is opened and its order, passed by the audit, is about to be sent.
LEMMA LogSent ==
  ASSUME LogInv, LogTypes', config' = config, misses' = misses, pc = "orders",
         NEW r, NEW n \in Nat, Len(log) = n, Len(log') = n + 1,
         \A i \in 1..n : log'[i] = log[i], log'[n + 1] = r,
         ~r.exit, ~r.fills, r.submitted, r.hash, r.risk # "unset", r.audit # NoAudit,
         r.audit.verdict = "PASS",
         config.env = "LIVE" => r.audit.by # "none", config.auditor = "mock" => ~r.wrong,
         pc' = "submit", ~aborted', sized' # <<>>
  PROVE  LogInv'
<1>2. DOMAIN log = 1..n /\ DOMAIN log' = 1..n + 1
  BY LenProperties DEF LogInv, LogTypes
<1>3. \A i \in 1..n + 1 : i = n + 1 \/ i \in 1..n
  OBVIOUS
<1>4. ~aborted
  BY DEF LogInv, Current
<1>5. Current'
  BY DEF Current
<1>6. Traced'
  BY <1>3, <1>4 DEF LogInv, Traced, FullyTraceable
<1>7. Covered'
  BY StayCovered
<1>8. OnlyPassedIsSent'
  BY <1>2, <1>3 DEF LogInv, OnlyPassedIsSent, SentWasPassed, WrongSymbolNotSent
<1> QED
  BY <1>5, <1>6, <1>7, <1>8 DEF LogInv

\* The record of a protective stop is appended, complete or cut off.
LEMMA LogStopped ==
  ASSUME LogInv, LogTypes', config' = config, misses' = misses, pc = "protect",
         NEW r, NEW n \in Nat, Len(log) = n, Len(log') = n + 1,
         \A i \in 1..n : log'[i] = log[i], log'[n + 1] = r,
         r.exit, r.sym = log[n].sym, ~r.fills, ~r.wrong, r.risk # "unset", r.hash,
         \/ pc' = "orders" /\ ~aborted' /\ r.final # "unset" /\ r.row = r.submitted
         \/ pc' = "idle" /\ aborted'
  PROVE  LogInv'
<1>2. DOMAIN log = 1..n /\ DOMAIN log' = 1..n + 1
  BY LenProperties DEF LogInv, LogTypes
<1>3. \A i \in 1..n + 1 : i = n + 1 \/ i \in 1..n
  OBVIOUS
<1>4. ~aborted
  BY DEF LogInv, Current
<1>5. Current'
  BY DEF Current
<1>6. Traced'
  BY <1>3, <1>4 DEF LogInv, Traced, FullyTraceable
<1>7. Covered'
  BY StayCovered
<1>8. OnlyPassedIsSent'
  BY <1>2, <1>3 DEF LogInv, OnlyPassedIsSent, SentWasPassed, WrongSymbolNotSent
<1> QED
  BY <1>5, <1>6, <1>7, <1>8 DEF LogInv

\* The record of the order under way is written again, its audit and order untouched.
LEMMA LogWritten ==
  ASSUME LogInv, LogTypes', config' = config, misses' = misses, pc \in {"submit", "fills"},
         ~aborted', NEW q, NEW r, NEW n \in Nat \ {0}, Len(log) = n, Len(log') = n,
         \A i \in 1..n - 1 : log'[i] = log[i], log[n] = q, log'[n] = r,
         r.sym = q.sym, r.exit = q.exit, r.wrong = q.wrong, r.audit = q.audit,
         r.risk = q.risk, r.hash = q.hash, r.submitted = q.submitted, r.final # "unset",
         \/ pc' = "orders" /\ r.row = r.submitted /\ ~r.fills
         \/ pc' = "fills" /\ ~r.fills /\ sized' # <<>>
         \/ pc' = "protect" /\ r.row = r.submitted /\ r.fills
  PROVE  LogInv'
<1>0. ~aborted
  BY DEF LogInv, Current
<1>2. DOMAIN log = 1..n /\ DOMAIN log' = 1..n
  BY LenProperties DEF LogInv, LogTypes
<1>3. \A i \in 1..n : i = n \/ i \in 1..n - 1
  OBVIOUS
<1>4. q.submitted /\ ~q.exit /\ q.audit # NoAudit /\ q.risk # "unset" /\ q.hash /\ ~q.fills
  BY DEF LogInv, Current
<1>a. /\ r.submitted /\ ~r.exit /\ r.audit # NoAudit /\ r.risk # "unset" /\ r.hash
      /\ log'[Len(log')] = r /\ Len(log') > 0
  BY <1>4
<1>5. Current'
  BY <1>a DEF Current
<1>6. Traced'
  <2> SUFFICES ASSUME NEW i \in 1..n
               PROVE  \/ FullyTraceable(log'[i]) /\ log'[i].row = log'[i].submitted
                      \/ i = n /\ pc' \in {"submit", "fills"}
    BY DEF Traced, FullyTraceable
  <2>1. CASE i = n
    BY <1>a, <2>1 DEF FullyTraceable
  <2>2. CASE i # n
    <3>1. log'[i] = log[i] /\ i \in 1..Len(log) /\ i # Len(log)
      BY <1>3, <2>2
    <3>2. FullyTraceable(log[i]) /\ log[i].row = log[i].submitted
      BY <3>1 DEF LogInv, Traced
    <3> QED
      BY <3>1, <3>2
  <2> QED
    BY <2>1, <2>2
<1>7. Covered'
  <2> SUFFICES ASSUME NEW i \in 1..n, log'[i].fills
               PROVE  \/ i < n /\ log'[i + 1].exit /\ log'[i + 1].sym = log'[i].sym
                      \/ \E m \in misses' : /\ m.kind = "NO_STOP" /\ m.stage = "RISK"
                                            /\ m.sym = log'[i].sym
                      \/ i = n /\ pc' = "protect"
    BY DEF Covered
  <2>1. CASE i = n
    BY <2>1
  <2>2. CASE i # n
    <3>1. i \in 1..n - 1 /\ i < n /\ log'[i] = log[i]
      BY <2>2
    <3>2. \/ log[i + 1].exit /\ log[i + 1].sym = log[i].sym
          \/ \E m \in misses : m.kind = "NO_STOP" /\ m.stage = "RISK" /\ m.sym = log[i].sym
      BY <3>1 DEF LogInv, Covered
    <3>3. i + 1 = n \/ i + 1 \in 1..n - 1
      BY <3>1
    <3>4. log'[i + 1].exit = log[i + 1].exit /\ log'[i + 1].sym = log[i + 1].sym
      BY <3>3
    <3> QED
      BY <3>1, <3>2, <3>4
  <2> QED
    BY <2>1, <2>2
<1>8. OnlyPassedIsSent'
  BY <1>2, <1>3 DEF LogInv, OnlyPassedIsSent, SentWasPassed, WrongSymbolNotSent
<1> QED
  BY <1>5, <1>6, <1>7, <1>8 DEF LogInv

\* What a PASS means: in LIVE a model gave it, and the deterministic auditor gives none
\* to a decision about another symbol.
LEMMA PassMeans ==
  ASSUME config \in Configs, NEW a, Audited(a, "PASS")
  PROVE  /\ config.env = "LIVE" => config.auditor # "none"
         /\ config.auditor = "mock" => "symbol_match" \notin Prop.flaws
<1>1. /\ config.auditor \in {"mock", "claude", "none"}
      /\ Cardinality({config.env, config.auditEnv}) = 1
  BY DEF Configs, RequireSameEnvironment
<1>2. config.env = config.auditEnv
  <2> DEFINE E == {config.env, config.auditEnv}
  <2>1. config.env \in E /\ config.auditEnv \in E
    OBVIOUS
  <2>2. IsFiniteSet(E) /\ Cardinality(E) = 1
    <3>1. IsFiniteSet({config.env}) /\ IsFiniteSet({config.auditEnv})
      BY FS_Singleton
    <3>2. E = {config.env} \cup {config.auditEnv}
      OBVIOUS
    <3>3. IsFiniteSet({config.env} \cup {config.auditEnv})
      BY <3>1, FS_Union
    <3> QED
      BY <1>1, <3>2, <3>3
  <2> HIDE DEF E
  <2>3. PICK x : E = {x}
    BY <2>2, FS_Singleton
  <2> QED
    BY <2>1, <2>3
<1>3. config.env = "LIVE" => config.auditor # "none"
  BY <1>2 DEF Audited, Audit, Mandatory
<1>4. ASSUME config.auditor = "mock", "symbol_match" \in Prop.flaws PROVE FALSE
  <2>1. Severity["symbol_match"] = 10
    BY DEF Severity
  <2>2. MockAudit(Prop.flaws) = "REJECT"
    BY <1>4, <2>1 DEF MockAudit
  <2>3. a = "REJECT"
    BY <1>4, <2>2 DEF Audited, AuditAnswers
  <2> QED
    BY <1>4, <2>3 DEF Audited, Audit
<1> QED
  BY <1>3, <1>4

\* Every step keeps the invariant of the order path.
LEMMA LogStep == LogInv /\ [Next]_vars => LogInv'
<1> SUFFICES ASSUME LogInv, [Next]_vars PROVE LogInv'
  OBVIOUS
<1>t. LogTypes' /\ LogTypes /\ Current
  BY LogTypesStep DEF LogInv
<1>n. Len(log) \in Nat
  BY <1>t, LenProperties DEF LogTypes
<1>1. ASSUME NEW out \in SUBSET held, SessionStart(out) PROVE LogInv'
  <2>1. /\ pc' = "scan" /\ aborted' = FALSE /\ log' = <<>> /\ Len(<<>>) = 0 /\ DOMAIN <<>> = {}
    BY <1>1, EmptySeq DEF SessionStart, Fresh
  <2> QED
    BY <1>t, <2>1
       DEF LogInv, Current, Traced, Covered, OnlyPassedIsSent, SentWasPassed, WrongSymbolNotSent
<1>2. CASE ScannedNothing
  BY <1>t, <1>2, LogKept DEF ScannedNothing, Explain, Current
<1>3. ASSUME NEW n, NEW gated, NEW bad, Gate(n, gated, bad) PROVE LogInv'
  BY <1>t, <1>3, LogKept DEF Gate, Current
<1>4. ASSUME Decide PROVE LogInv'
  <2>1. config' = config /\ log' = log /\ misses \subseteq misses' /\ pc = "decide"
    BY <1>4 DEF Decide, NoDecision, SellUnheld, NoOrder, SkepticVetoes, NoStopPlan, SizeRefused,
                Refuse, Size, CandidateAborts, Decided, Deciding, NextCand
  <2>2. \/ pc' \in {"decide", "idle", "allocate"} /\ aborted' = aborted
        \/ pc' = "idle" /\ aborted'
    BY <1>4 DEF Decide, NoDecision, SellUnheld, NoOrder, SkepticVetoes, NoStopPlan, SizeRefused,
                Refuse, Size, CandidateAborts, Decided, Deciding, NextCand, Explain, Abort, result
  <2> QED
    BY <1>t, <2>1, <2>2, LogKept DEF Current
<1>5. ASSUME NEW rank, Allocate(rank) PROVE LogInv'
  BY <1>t, <1>5, LogKept DEF Allocate, Current
<1>6. ASSUME Handle PROVE LogInv'
  <2>1. ASSUME NEW audit \in Audits, NEW risk \in {"unset", "failed", "passed"}, Handling,
               log' = Append(log, New(audit, risk, FALSE)), config' = config,
               misses \subseteq misses', pc' \in {"orders", "idle"}, aborted' => pc' = "idle"
        PROVE  LogInv'
    <3> DEFINE r == New(audit, risk, FALSE)
    <3>1. r \in Records
      BY <1>t, <2>1, NewType DEF Handling
    <3>2. r.exit = FALSE /\ r.fills = FALSE /\ r.row = FALSE /\ r.submitted = FALSE
      BY DEF New, Opened
    <3>a. log' = Append(log, r)
      BY <2>1
    <3> HIDE DEF r
    <3>3. /\ Len(log') = Len(log) + 1 /\ \A i \in 1..Len(log) : log'[i] = log[i]
          /\ log'[Len(log) + 1] = r
      BY <1>t, <3>a, <3>1, Appended DEF LogTypes
    <3> QED
      BY <1>t, <1>n, <2>1, <3>2, <3>3, LogAdded DEF Handling
  <2>a. NoAudit \in Audits /\ \A v \in Verdicts : Result(v) \in Audits /\ Result(v) # NoAudit
    BY <1>t, ResultType DEF LogTypes, Verdicts
  <2>2. ASSUME NEW a, AuditUnavailable(a) PROVE LogInv'
    BY <1>t, <2>1, <2>2, <2>a DEF AuditUnavailable, Audited, Handling, Miss, Explain, Done, Current
  <2>3. ASSUME NEW a, AuditRaises(a) PROVE LogInv'
    BY <1>t, <2>1, <2>3, <2>a DEF AuditRaises, Audited, Handling, Abort
  <2>4. ASSUME NEW a, AuditReview(a) PROVE LogInv'
    BY <1>t, <2>1, <2>4, <2>a DEF AuditReview, Audited, Handling, Explain, Done, Current, Verdicts
  <2>5. ASSUME NEW a, AuditReject(a) PROVE LogInv'
    BY <1>t, <2>1, <2>5, <2>a
       DEF AuditReject, Audited, Handling, Miss, Explain, Done, Current, Verdicts
  <2>6. ASSUME NEW a, RiskViewFails(a) PROVE LogInv'
    BY <1>t, <2>1, <2>6, <2>a DEF RiskViewFails, Audited, Handling, Abort, Verdicts
  <2>7. ASSUME NEW a, RiskRejects(a) PROVE LogInv'
    BY <1>t, <2>1, <2>7, <2>a
       DEF RiskRejects, Audited, Handling, Miss, Explain, Done, Current, Verdicts
  <2>8. ASSUME NEW a, Approve(a) PROVE LogInv'
    <3> DEFINE r == New(Result("PASS"), "passed", TRUE)
    <3>0. Handling /\ Audited(a, "PASS")
      BY <2>8 DEF Approve, Audited
    <3>1. r \in Records
      BY <1>t, <2>a, <3>0, NewType DEF Handling, Verdicts
    <3>2. /\ r.exit = FALSE /\ r.fills = FALSE /\ r.submitted = TRUE /\ r.hash = TRUE
          /\ r.risk = "passed" /\ r.audit = Result("PASS")
          /\ r.wrong = ("symbol_match" \in Prop.flaws)
      BY DEF New, Opened
    <3>3. /\ config.env = "LIVE" => config.auditor # "none"
          /\ config.auditor = "mock" => "symbol_match" \notin Prop.flaws
      BY <1>t, <3>0, PassMeans DEF LogTypes
    <3>4. Result("PASS").verdict = "PASS" /\ Result("PASS").by = config.auditor
      BY DEF Result
    <3>5. Result("PASS") # NoAudit
      BY <2>a DEF Verdicts
    <3>a. log' = Append(log, r)
      BY <2>8 DEF Approve
    <3> HIDE DEF r
    <3>6. /\ Len(log') = Len(log) + 1 /\ \A i \in 1..Len(log) : log'[i] = log[i]
          /\ log'[Len(log) + 1] = r
      BY <1>t, <3>a, <3>1, Appended DEF LogTypes
    <3>7. /\ config' = config /\ misses' = misses /\ pc = "orders" /\ pc' = "submit"
          /\ ~aborted' /\ sized' # <<>>
      BY <1>t, <2>8, <3>0 DEF Approve, Handling, funnel, result, Current
    <3> QED
      BY <1>t, <1>n, <3>2, <3>3, <3>4, <3>5, <3>6, <3>7, LogSent
  <2>9. CASE SubmitRaises
    BY <1>t, <2>9, LogKept DEF SubmitRaises, Abort
  <2>10. ASSUME NEW final, NEW fills, NEW row, NEW r \in Records, pc \in {"submit", "fills"},
                r = Persisted(log[Len(log)], final, fills, row),
                log' = [log EXCEPT ![Len(log)] = r],
                config' = config, misses' = misses, ~aborted', final # "unset",
                \/ pc' = "orders" /\ row = TRUE /\ fills = FALSE
                \/ pc' = "fills" /\ fills = FALSE /\ sized' # <<>>
                \/ pc' = "protect" /\ row = TRUE /\ fills = TRUE
         PROVE  LogInv'
    <3> DEFINE q == log[Len(log)]
    <3>1. /\ r.sym = q.sym /\ r.exit = q.exit /\ r.wrong = q.wrong /\ r.audit = q.audit
          /\ r.risk = q.risk /\ r.hash = q.hash /\ r.submitted = q.submitted
          /\ r.final = final /\ r.fills = fills /\ r.row = row
      BY <2>10 DEF Persisted
    <3>2. Len(log) \in Nat \ {0} /\ q.submitted
      BY <1>t, <1>n, <2>10 DEF Current
    <3>3. q.submitted = TRUE
      <4>1. q \in Records
        BY <1>t, <3>2, ElementOfSeq DEF LogTypes
      <4> QED
        BY <3>2, <4>1 DEF Records
    <3>4. /\ Len(log') = Len(log) /\ \A i \in 1..Len(log) - 1 : log'[i] = log[i]
          /\ log'[Len(log)] = r
      BY <1>t, <2>10, <3>2, Rewritten DEF LogTypes
    <3> HIDE DEF q
    <3>5. log[Len(log)] = q
      BY DEF q
    <3>6. /\ r.final # "unset"
          /\ \/ pc' = "orders" /\ r.row = r.submitted /\ ~r.fills
             \/ pc' = "fills" /\ ~r.fills /\ sized' # <<>>
             \/ pc' = "protect" /\ r.row = r.submitted /\ r.fills
      BY <2>10, <3>1, <3>3
    <3>7. config' = config /\ misses' = misses /\ ~aborted' /\ pc \in {"submit", "fills"}
      BY <2>10
    <3> DEFINE n == Len(log)
    <3>8. /\ n \in Nat \ {0} /\ Len(log) = n /\ Len(log') = n /\ log[n] = q /\ log'[n] = r
          /\ \A i \in 1..n - 1 : log'[i] = log[i]
      BY <3>2, <3>4, <3>5
    <3> HIDE DEF n
    <3> QED
      BY <1>t, <3>1, <3>6, <3>7, <3>8, LogWritten
  <2>b. pc \in {"submit", "fills"} =>
           /\ Len(log) > 0 /\ log[Len(log)] \in Records /\ sized # <<>> /\ aborted = FALSE
           /\ log[Len(log)].final \in {"unset", "ACKNOWLEDGED", "REJECTED", "UNKNOWN", "FILLED",
                                       "PARTIALLY_FILLED"}
    <3> SUFFICES ASSUME pc \in {"submit", "fills"}
                 PROVE  /\ Len(log) > 0 /\ log[Len(log)] \in Records /\ sized # <<>>
                        /\ aborted = FALSE
                        /\ log[Len(log)].final \in {"unset", "ACKNOWLEDGED", "REJECTED", "UNKNOWN",
                                                    "FILLED", "PARTIALLY_FILLED"}
      OBVIOUS
    <3>1. Len(log) > 0 /\ sized # <<>> /\ aborted = FALSE
      BY <1>t DEF Current, LogTypes
    <3>2. log[Len(log)] \in Records
      BY <1>t, <1>n, <3>1, ElementOfSeq DEF LogTypes
    <3> QED
      BY <3>1, <3>2 DEF Records
  <2>11. ASSUME NEW st \in {"ACKNOWLEDGED", "REJECTED", "UNKNOWN"}, SubmitEnds(st)
         PROVE  LogInv'
    <3>1. Persisted(log[Len(log)], st, FALSE, TRUE) \in Records
      BY <2>b, <2>11, PersistedType DEF SubmitEnds
    <3> QED
      <4> DEFINE r == Persisted(log[Len(log)], st, FALSE, TRUE)
      <4>1. /\ pc \in {"submit", "fills"} /\ pc' = "orders" /\ config' = config /\ misses' = misses
            /\ log' = [log EXCEPT ![Len(log)] = r]
            /\ aborted' = FALSE
        BY <2>b, <2>11 DEF SubmitEnds, Explain
      <4>2. r \in Records /\ r = Persisted(log[Len(log)], st, FALSE, TRUE)
        BY <3>1
      <4> HIDE DEF r
      <4> QED
        BY <2>10, <4>1, <4>2
  <2>12. ASSUME NEW st \in {"FILLED", "PARTIALLY_FILLED"}, SubmitFills(st) PROVE LogInv'
    <3>1. Persisted(log[Len(log)], st, FALSE, FALSE) \in Records
      BY <2>b, <2>12, PersistedType DEF SubmitFills
    <3> QED
      <4> DEFINE r == Persisted(log[Len(log)], st, FALSE, FALSE)
      <4>1. /\ pc \in {"submit", "fills"} /\ pc' = "fills" /\ config' = config /\ misses' = misses
            /\ log' = [log EXCEPT ![Len(log)] = r]
            /\ aborted' = FALSE /\ sized' # <<>>
        BY <2>b, <2>12 DEF SubmitFills, funnel, result
      <4>2. r \in Records /\ r = Persisted(log[Len(log)], st, FALSE, FALSE)
        BY <3>1
      <4> HIDE DEF r
      <4> QED
        BY <2>10, <4>1, <4>2
  <2>13. CASE FillsUnavailable
    BY <1>t, <2>13, LogKept DEF FillsUnavailable, Abort
  <2>14. CASE BookFills
    <3>1. Persisted(log[Len(log)], log[Len(log)].final, TRUE, TRUE) \in Records
      BY <2>b, <2>14, PersistedType DEF BookFills
    <3>2. log[Len(log)].final # "unset"
      BY <1>t, <2>14 DEF BookFills, Current
    <3> QED
      <4> DEFINE st == log[Len(log)].final
                 r == Persisted(log[Len(log)], st, TRUE, TRUE)
      <4>1. /\ pc \in {"submit", "fills"} /\ pc' = "protect" /\ config' = config /\ misses' = misses
            /\ log' = [log EXCEPT ![Len(log)] = r]
            /\ aborted' = FALSE
        BY <2>b, <2>14 DEF BookFills
      <4>2. st # "unset" /\ r \in Records /\ r = Persisted(log[Len(log)], st, TRUE, TRUE)
        BY <3>1, <3>2
      <4> HIDE DEF st, r
      <4> QED
        BY <2>10, <4>1, <4>2
  <2>15. ASSUME NEW st \in {"unset", "ACKNOWLEDGED", "UNKNOWN"}, pc = "protect",
                log' = Append(log, Stop(st)), config' = config, misses' = misses,
                \/ pc' = "orders" /\ ~aborted' /\ st # "unset"
                \/ pc' = "idle" /\ aborted'
         PROVE  LogInv'
    <3>1. log[Len(log)] \in Records /\ Len(log) > 0
      BY <1>t, <1>n, <2>15, ElementOfSeq DEF Current, LogTypes
    <3>2. Entry \in Sym
      BY <3>1 DEF Entry, Records
    <3>3. Stop(st) \in Records
      BY <2>15, <2>a, <3>2, OpenedType DEF Stop
    <3>4. /\ Stop(st).exit = TRUE /\ Stop(st).sym = log[Len(log)].sym
          /\ Stop(st).fills = FALSE /\ Stop(st).wrong = FALSE /\ Stop(st).risk = "passed"
          /\ Stop(st).hash = TRUE /\ Stop(st).submitted = TRUE /\ Stop(st).final = st
          /\ st # "unset" => Stop(st).row = TRUE
      BY DEF Stop, Opened, Entry
    <3>5. /\ Len(log') = Len(log) + 1 /\ \A i \in 1..Len(log) : log'[i] = log[i]
          /\ log'[Len(log) + 1] = Stop(st)
      BY <1>t, <2>15, <3>3, Appended DEF LogTypes
    <3> DEFINE r == Stop(st)
    <3> HIDE DEF r
    <3> QED
      BY <1>t, <1>n, <2>15, <3>4, <3>5, LogStopped
  <2>16. ASSUME NEW st \in {"ACKNOWLEDGED", "UNKNOWN"}, StopPlaced(st) PROVE LogInv'
    BY <1>t, <2>15, <2>16 DEF StopPlaced, result, Current
  <2>17. CASE StopRefused
    <3>1. /\ pc = "protect" /\ pc' = "orders" /\ log' = log /\ config' = config
          /\ aborted' = aborted /\ ~aborted
          /\ misses' = misses \cup {[stage |-> "RISK", sym |-> Entry, order |-> 0, kind |-> "NO_STOP"]}
      BY <1>t, <2>17 DEF StopRefused, Miss, Explain, Current
    <3>2. Current' /\ Traced'
      BY <1>t, <3>1 DEF Current, LogInv, Traced, FullyTraceable
    <3>3. OnlyPassedIsSent'
      BY <3>1 DEF LogInv, OnlyPassedIsSent, SentWasPassed, WrongSymbolNotSent
    <3>4. Covered'
      <4>1. \E m \in misses' : m.kind = "NO_STOP" /\ m.stage = "RISK" /\ m.sym = log[Len(log)].sym
        <5> DEFINE m == [stage |-> "RISK", sym |-> Entry, order |-> 0, kind |-> "NO_STOP"]
        <5>1. m \in misses' /\ m.kind = "NO_STOP" /\ m.stage = "RISK" /\ m.sym = log[Len(log)].sym
          BY <3>1 DEF Entry
        <5> QED
          BY <5>1
      <4> QED
        BY <3>1, <4>1 DEF LogInv, Covered
    <3> QED
      BY <1>t, <3>2, <3>3, <3>4 DEF LogInv
  <2>18. ASSUME NEW sent \in BOOLEAN, StopAborts(sent) PROVE LogInv'
    <3>1. CASE sent
      BY <2>15, <2>18, <3>1 DEF StopAborts, Abort
    <3>2. CASE ~sent
      BY <1>t, <2>18, <3>2, LogKept DEF StopAborts, Abort
    <3> QED
      BY <3>1, <3>2
  <2>19. CASE SessionEnds
    BY <1>t, <2>19, LogKept DEF SessionEnds, result, Current
  <2> QED
    BY <1>6, <2>2, <2>3, <2>4, <2>5, <2>6, <2>7, <2>8, <2>9, <2>11, <2>12, <2>13, <2>14,
       <2>16, <2>17, <2>18, <2>19 DEF Handle
<1>7. ASSUME NEW n, NEW r, ResolveReview(n, r) PROVE LogInv'
  BY <1>t, <1>7, LogKept DEF ResolveReview, funnel, result, Current
<1>8. CASE UNCHANGED vars
  BY <1>t, <1>8, LogKept DEF vars, funnel, result, Current
<1> QED
  BY <1>1, <1>2, <1>3, <1>4, <1>5, <1>6, <1>7, <1>8 DEF Next

\* A new pipeline has no records.
LEMMA LogInit == Init => LogInv
<1> SUFFICES ASSUME Init PROVE LogInv
  OBVIOUS
<1>1. <<>> \in Seq(Records) /\ <<>> \in Seq(Proposals) /\ <<>> \in Seq(Sym) /\ Len(<<>>) = 0
      /\ DOMAIN <<>> = {}
  BY EmptySeq
<1>2. LogTypes
  BY <1>1 DEF Init, LogTypes, Places
<1> QED
  BY <1>1, <1>2 DEF Init, LogInv, Current, Traced, Covered, OnlyPassedIsSent, SentWasPassed,
                    WrongSymbolNotSent

\* The order path keeps its invariant.
THEOREM OrderPathInvariant == Spec => []LogInv
BY LogInit, LogStep, PTL DEF Spec

\* Section 9: whatever the models answer and however the components are wired, no
\* entry is sent without a PASS, in LIVE none without a model's, and with the
\* deterministic auditor none for another symbol than was decided about.
THEOREM SentEntriesWerePassed == Spec => []OnlyPassedIsSent
<1>1. LogInv => OnlyPassedIsSent
  BY DEF LogInv
<1> QED
  BY <1>1, OrderPathInvariant, PTL

\* A5 and F7: once run_session is over, every order that reached the broker has its
\* full chain, in memory and in the durable store, but the one an exception cut off.
THEOREM SentOrdersAreTraceable == Spec => []TraceableUnlessCut
<1>1. LogInv => TraceableUnlessCut
  BY LenProperties DEF LogInv, LogTypes, Traced, TraceableUnlessCut, Over
<1> QED
  BY <1>1, OrderPathInvariant, PTL

\* INV-15: once run_session is over, every filled entry is followed by its stop, or
\* by a near miss or an exception that says it has none.
THEOREM UnprotectedEntriesAreReported == Spec => []UnprotectedIsReported
<1>1. LogInv => UnprotectedIsReported
  BY LenProperties DEF LogInv, LogTypes, Covered, UnprotectedIsReported, Over
<1> QED
  BY <1>1, OrderPathInvariant, PTL

-----------------------------------------------------------------------------
(* Sessions, decisions and attempts are accounted for.                     *)

\* A session that is about to end, or has ended, has traded or has a reason.
Reasons ==
  /\ pc = "idle" /\ ~aborted => traded \/ explained
  /\ pc = "orders" /\ sized = <<>> => traded \/ explained
  /\ pc = "protect" => traded
  /\ pc = "allocate" => sized # <<>>

\* Every attempt but one cut off by an exception, or under way, has one fate.
Attempts ==
  /\ \A i \in 1..Len(log) :
       log[i].exit \/ Cardinality(Fates(i)) = 1 \/ (i = Len(log) /\ aborted)
  /\ \A m \in misses : m.order \in 0..Len(log)
  /\ \A r \in reviews : r[1] \in 1..Len(log)

\* The symbols still to be decided, and the proposals still to be handled.
Waiting(s) == \E i \in 1..Len(todo) : todo[i] = s
Queued(s)  == \E i \in 1..Len(sized) :
                sized[i].sym = s /\ ~(i = 1 /\ pc \in {"submit", "fills"})

\* A decision has one stance, and nothing else has any.
Settled(s) == Cardinality(Stances(s)) = IF Reached(prov[s], "output") THEN 1 ELSE 0

\* The stages a session goes through empty its queues one after the other.
Queues ==
  /\ prov \in [Sym -> Stages]
  /\ pc \notin {"decide", "idle"} => todo = <<>>
  /\ pc \in {"new", "scan"} => sized = <<>> /\ \A s \in Sym : prov[s] = "none"
  /\ pc \in {"new", "scan", "decide", "allocate"} => dropped = {}
  /\ pc = "idle" /\ ~aborted => todo = <<>> /\ sized = <<>>
  /\ pc \in {"submit", "fills"} => Reached(prov[Prop.sym], "output")
  /\ \A i, j \in 1..Len(todo) : i # j => todo[i] # todo[j]
  /\ \A i, j \in 1..Len(sized) : i # j => sized[i].sym # sized[j].sym

\* What is known of a symbol, by the queue it is in.
Known(s) ==
  /\ Waiting(s) => prov[s] = "none" /\ ~Queued(s)
  /\ Queued(s) => prov[s] = "position_size" /\ s \notin dropped
  /\ Waiting(s) \/ Queued(s) \/ s \in dropped => Stances(s) = {}
  /\ ~(Waiting(s) \/ Queued(s) \/ s \in dropped) => Settled(s)

Stanced == ~aborted => \A s \in Sym : Known(s)

\* The inductive invariant of the accounts, beside that of the order path.
AccountInv == Reasons /\ Attempts /\ Queues /\ Stanced

\* Every step keeps the reasons.
LEMMA ReasonsStep == LogInv /\ Reasons /\ [Next]_vars => Reasons'
<1> SUFFICES ASSUME LogInv, Reasons, [Next]_vars PROVE Reasons'
  OBVIOUS
<1>t. LogTypes /\ Current
  BY DEF LogInv
<1>1. ASSUME NEW out \in SUBSET held, SessionStart(out) PROVE Reasons'
  BY <1>1 DEF SessionStart, Reasons
<1>2. CASE ScannedNothing
  BY <1>2 DEF ScannedNothing, Explain, Reasons
<1>3. ASSUME NEW S \in (SUBSET Sym) \ {{}}, NEW n \in SUBSET S, NEW gated \in SetToSeqs(S \ n),
             NEW bad \in BOOLEAN, Gate(n, gated, bad)
      PROVE  Reasons'
  <2>1. IsFiniteSet(S \ n)
    BY FS_Subset, DecisionAssumption
  <2>2. gated = <<>> => Cardinality(S \ n) = 0
    BY <2>1, Arranged, EmptySeq
  <2>3. gated = <<>> => n # {}
    BY <2>1, <2>2, FS_EmptySet
  <2> QED
    BY <1>3, <2>3 DEF Gate, Reasons
<1>4. ASSUME Decide PROVE Reasons'
  <2>1. ASSUME NextCand, Deciding PROVE Reasons'
    BY <2>1 DEF NextCand, Deciding, Reasons
  <2>2. CASE CandidateAborts
    BY <2>2 DEF CandidateAborts, Abort, Reasons
  <2>3. CASE Decided
    BY <1>t, <2>3 DEF Decided, Reasons, funnel, LogTypes
  <2>4. \/ NextCand /\ Deciding
        \/ CandidateAborts \/ Decided
    BY <1>4 DEF Decide, NoDecision, SellUnheld, NoOrder, SkepticVetoes, NoStopPlan, SizeRefused,
                Refuse, Size
  <2> QED
    BY <2>1, <2>2, <2>3, <2>4
<1>5. ASSUME NEW S \in SUBSET ToSet(sized), NEW rank \in SetToSeqs(S), Allocate(rank)
      PROVE  Reasons'
  <2> DEFINE k == IF Len(rank) < MaxNew THEN Len(rank) ELSE MaxNew
             skipped == {c.sym : c \in ToSet(sized) \ ToSet(rank)}
  <2>1. rank \in Seq(Proposals) /\ Len(rank) \in Nat
    BY <1>t, <1>5, RankType
  <2>2. k \in 0..Len(rank) /\ (k = 0 => Len(rank) = 0)
    BY <2>1, DecisionAssumption
  <2>3. /\ sized' = SubSeq(rank, 1, k) /\ explained' = (explained \/ skipped # {})
        /\ pc = "allocate" /\ pc' = "orders"
    BY <1>5 DEF Allocate
  <2> HIDE DEF k
  <2>4. Len(sized') = k
    BY <2>1, <2>2, <2>3, Cut
  <2>5. ASSUME sized' = <<>> PROVE skipped # {}
    <3>1. Len(rank) = 0
      BY <2>2, <2>4, <2>5, EmptySeq
    <3>2. ToSet(rank) = {}
      BY <2>1, <3>1, LenProperties DEF ToSet
    <3>3. sized # <<>> /\ sized \in Seq(Proposals)
      BY <1>t, <2>3 DEF Reasons, LogTypes
    <3>4. sized[1] \in ToSet(sized)
      BY <3>3, EmptySeq, LenProperties DEF ToSet
    <3> QED
      BY <3>2, <3>4
  <2> QED
    BY <2>3, <2>5 DEF Reasons
<1>6. ASSUME Handle PROVE Reasons'
  <2>1. \/ pc' = "orders" /\ explained'
        \/ pc' = "idle" /\ aborted'
        \/ pc' \in {"submit", "fills"}
        \/ pc' = "protect" /\ traded'
        \/ pc = "protect" /\ pc' \in {"orders", "idle"} /\ traded' = traded
        \/ SessionEnds
    BY <1>6 DEF Handle, AuditUnavailable, AuditRaises, AuditReview, AuditReject, RiskViewFails,
                RiskRejects, Approve, SubmitRaises, SubmitEnds, SubmitFills, FillsUnavailable,
                BookFills, StopPlaced, StopRefused, StopAborts, Audited, Handling, Done, Explain,
                Abort, result
  <2>2. CASE SessionEnds
    BY <2>2 DEF SessionEnds, Reasons, result, funnel
  <2> QED
    BY <2>1, <2>2 DEF Reasons
<1>7. ASSUME NEW n, NEW r, ResolveReview(n, r) PROVE Reasons'
  BY <1>7 DEF ResolveReview, Reasons, funnel, result
<1>8. CASE UNCHANGED vars
  BY <1>8 DEF vars, Reasons, funnel, result
<1> QED
  BY <1>1, <1>2, <1>3, <1>4, <1>5, <1>6, <1>7, <1>8 DEF Next

\* The fate of an attempt changes only with what it is made of.
LEMMA FatesSame ==
  ASSUME NEW i, log'[i].submitted = log[i].submitted,
         (\E r \in reviews' : r[1] = i) <=> (\E r \in reviews : r[1] = i),
         (\E m \in misses' : m.order = i) <=> (\E m \in misses : m.order = i)
  PROVE  Fates(i)' = Fates(i)
BY DEF Fates

\* Steps that open no record, and write at most near misses of no order.
LEMMA AttemptsKept ==
  ASSUME Attempts, NEW n \in Nat, Len(log) = n, Len(log') = n,
         \A i \in 1..n : log'[i].exit = log[i].exit /\ log'[i].submitted = log[i].submitted,
         misses \subseteq misses', \A m \in misses' : m \in misses \/ m.order = 0,
         \A r \in reviews : \E q \in reviews' : q[1] = r[1],
         \A q \in reviews' : \E r \in reviews : q[1] = r[1],
         aborted => aborted'
  PROVE  Attempts'
<1>1. ASSUME NEW i \in 1..n
      PROVE  log'[i].exit \/ Cardinality(Fates(i)') = 1 \/ (i = n /\ aborted')
  <2>1. (\E r \in reviews' : r[1] = i) <=> (\E r \in reviews : r[1] = i)
    OBVIOUS
  <2>2. (\E m \in misses' : m.order = i) <=> (\E m \in misses : m.order = i)
    OBVIOUS
  <2>3. Fates(i)' = Fates(i)
    BY <2>1, <2>2, FatesSame
  <2> QED
    BY <2>3 DEF Attempts
<1>2. \A m \in misses' : m.order \in 0..n
  BY DEF Attempts
<1>3. \A r \in reviews' : r[1] \in 1..n
  BY DEF Attempts
<1> QED
  BY <1>1, <1>2, <1>3 DEF Attempts

\* A step that opens record n + 1 with one fate, or cuts it off.
LEMMA AttemptsAdded ==
  ASSUME Attempts, NEW n \in Nat, Len(log) = n, Len(log') = n + 1, ~aborted,
         \A i \in 1..n : log'[i] = log[i],
         misses \subseteq misses', \A m \in misses' : m \in misses \/ m.order = n + 1,
         reviews \subseteq reviews', \A r \in reviews' : r \in reviews \/ r[1] = n + 1,
         \/ log'[n + 1].exit
         \/ aborted'
         \/ \E k \in {"sent", "review", "miss"} :
              /\ k = "sent" <=> log'[n + 1].submitted
              /\ k = "review" <=> \E r \in reviews' : r[1] = n + 1
              /\ k = "miss" <=> \E m \in misses' : m.order = n + 1
  PROVE  Attempts'
<1>1. ASSUME NEW i \in 1..n
      PROVE  log'[i].exit \/ Cardinality(Fates(i)') = 1
  <2>0. i # n + 1
    OBVIOUS
  <2>1. (\E r \in reviews' : r[1] = i) <=> (\E r \in reviews : r[1] = i)
    BY <2>0
  <2>2. (\E m \in misses' : m.order = i) <=> (\E m \in misses : m.order = i)
    BY <2>0
  <2>3. Fates(i)' = Fates(i)
    BY <2>1, <2>2, FatesSame
  <2>4. log[i].exit \/ Cardinality(Fates(i)) = 1
    BY DEF Attempts
  <2> QED
    BY <2>3, <2>4
<1>2. log'[n + 1].exit \/ Cardinality(Fates(n + 1)') = 1 \/ aborted'
  <2>1. ASSUME NEW k \in {"sent", "review", "miss"},
               k = "sent" <=> log'[n + 1].submitted,
               k = "review" <=> \E r \in reviews' : r[1] = n + 1,
               k = "miss" <=> \E m \in misses' : m.order = n + 1
        PROVE  Cardinality(Fates(n + 1)') = 1
    <3>1. \A x \in {"sent", "review", "miss"} : x \in Fates(n + 1)' <=> x = k
      BY <2>1 DEF Fates
    <3>2. Fates(n + 1)' \subseteq {"sent", "review", "miss"}
      BY DEF Fates
    <3>a. Fates(n + 1)' = {k}
      BY <3>1, <3>2
    <3> QED
      BY <3>a, FS_Singleton
  <2> QED
    BY <2>1
<1>3. \A m \in misses' : m.order \in 0..n + 1
  BY DEF Attempts
<1>4. \A r \in reviews' : r[1] \in 1..n + 1
  BY DEF Attempts
<1>5. \A i \in 1..n + 1 : i \in 1..n \/ i = n + 1
  OBVIOUS
<1> QED
  BY <1>1, <1>2, <1>3, <1>4, <1>5 DEF Attempts

\* Every step keeps the attempts accounted for.
LEMMA AttemptsStep == LogInv /\ Attempts /\ [Next]_vars => Attempts'
<1> SUFFICES ASSUME LogInv, Attempts, [Next]_vars PROVE Attempts'
  OBVIOUS
<1>t. LogTypes /\ Current /\ Len(log) \in Nat
  BY LenProperties DEF LogInv, LogTypes
<1>k. ASSUME log' = log, misses \subseteq misses', \A m \in misses' : m \in misses \/ m.order = 0,
             reviews' = reviews, aborted => aborted'
      PROVE  Attempts'
  BY <1>t, <1>k, AttemptsKept
<1>1. ASSUME NEW out \in SUBSET held, SessionStart(out) PROVE Attempts'
  BY <1>1, EmptySeq DEF SessionStart, Fresh, Attempts
<1>2. CASE ScannedNothing
  BY <1>k, <1>2 DEF ScannedNothing, Explain
<1>3. ASSUME NEW n, NEW gated, NEW bad, Gate(n, gated, bad) PROVE Attempts'
  BY <1>k, <1>3 DEF Gate
<1>4. ASSUME Decide PROVE Attempts'
  <2>1. log' = log /\ reviews' = reviews /\ (aborted' = aborted \/ aborted' = TRUE)
    BY <1>4 DEF Decide, NoDecision, SellUnheld, NoOrder, SkepticVetoes, NoStopPlan, SizeRefused,
                Refuse, Size, CandidateAborts, Decided, Deciding, NextCand, Explain, Abort, result
  <2>2. \/ misses' = misses
        \/ misses' = misses \cup {[stage |-> "AUDIT", sym |-> Cand, order |-> 0, kind |-> "WRONG_SIDE"]}
    BY <1>4 DEF Decide, NoDecision, SellUnheld, NoOrder, SkepticVetoes, NoStopPlan, SizeRefused,
                Refuse, Size, CandidateAborts, Decided
  <2>3. misses \subseteq misses' /\ \A m \in misses' : m \in misses \/ m.order = 0
    BY <2>2
  <2> QED
    BY <1>k, <2>1, <2>3
<1>5. ASSUME NEW rank, Allocate(rank) PROVE Attempts'
  BY <1>k, <1>5 DEF Allocate
<1>6. ASSUME Handle PROVE Attempts'
  <2>n. \A r \in Records : Append(log, r) \in Seq(Records) /\ Len(Append(log, r)) = Len(log) + 1
          /\ (\A i \in 1..Len(log) : Append(log, r)[i] = log[i])
          /\ Append(log, r)[Len(log) + 1] = r
    BY <1>t, Appended DEF LogTypes
  <2>a. NoAudit \in Audits /\ \A v \in Verdicts : Result(v) \in Audits
    BY <1>t, ResultType DEF LogTypes, Verdicts
  <2>1. ASSUME NEW audit \in Audits, NEW risk \in {"unset", "failed", "passed"},
               NEW sent \in BOOLEAN, Handling, log' = Append(log, New(audit, risk, sent)),
               misses \subseteq misses', \A m \in misses' : m \in misses \/ m.order = Len(log) + 1,
               reviews \subseteq reviews',
               \A r \in reviews' : r \in reviews \/ r[1] = Len(log) + 1,
               \/ aborted'
               \/ sent /\ misses' = misses /\ reviews' = reviews
               \/ ~sent /\ misses' = misses /\ <<Len(log) + 1, "pending">> \in reviews'
               \/ ~sent /\ reviews' = reviews /\ \E m \in misses' : m.order = Len(log) + 1
        PROVE  Attempts'
    <3> DEFINE r == New(audit, risk, sent)
               n == Len(log)
    <3>1. r \in Records /\ r.submitted = sent
      BY <1>t, <2>1, NewType DEF Handling, New, Opened
    <3>2. log' = Append(log, r)
      BY <2>1
    <3> HIDE DEF r
    <3>3. Len(log') = n + 1 /\ (\A i \in 1..n : log'[i] = log[i]) /\ log'[n + 1] = r
      BY <2>n, <3>1, <3>2
    <3>4. n \in Nat /\ ~aborted
      BY <1>t, <2>1 DEF Current, Handling
    <3>5. (\A m \in misses : m.order # n + 1) /\ (\A q \in reviews : q[1] # n + 1)
      BY <3>4 DEF Attempts
    <3>6. \/ aborted'
          \/ \E k \in {"sent", "review", "miss"} :
               /\ k = "sent" <=> log'[n + 1].submitted
               /\ k = "review" <=> \E q \in reviews' : q[1] = n + 1
               /\ k = "miss" <=> \E m \in misses' : m.order = n + 1
      <4>1. CASE aborted'
        BY <4>1
      <4>2. CASE sent /\ misses' = misses /\ reviews' = reviews
        BY <3>1, <3>3, <3>5, <4>2
      <4>3. CASE ~sent /\ misses' = misses /\ <<n + 1, "pending">> \in reviews'
        <5>1. \E q \in reviews' : q[1] = n + 1
          BY <4>3
        <5> QED
          BY <3>1, <3>3, <3>5, <4>3, <5>1
      <4>4. CASE ~sent /\ reviews' = reviews /\ \E m \in misses' : m.order = n + 1
        BY <3>1, <3>3, <3>5, <4>4
      <4> QED
        BY <2>1, <4>1, <4>2, <4>3, <4>4
    <3> HIDE DEF n
    <3>7. misses \subseteq misses' /\ (\A m \in misses' : m \in misses \/ m.order = n + 1)
          /\ reviews \subseteq reviews' /\ (\A q \in reviews' : q \in reviews \/ q[1] = n + 1)
          /\ Len(log) = n
      BY <2>1 DEF n
    <3> QED
      BY <3>3, <3>4, <3>6, <3>7, AttemptsAdded
  <2>m. ASSUME NEW stage, NEW s, NEW kinds, kinds # {}, Miss(stage, s, Len(log) + 1, kinds)
        PROVE  /\ misses \subseteq misses' /\ \A m \in misses' : m \in misses \/ m.order = Len(log) + 1
               /\ \E m \in misses' : m.order = Len(log) + 1
    <3> DEFINE M(k) == [stage |-> stage, sym |-> s, order |-> Len(log) + 1, kind |-> k]
    <3>1. misses' = misses \cup {M(k) : k \in kinds}
      BY <2>m DEF Miss
    <3>2. \A k : M(k).order = Len(log) + 1
      OBVIOUS
    <3> HIDE DEF M
    <3>3. \E k \in kinds : M(k) \in misses'
      BY <2>m, <3>1
    <3>4. \A m \in misses' : m \in misses \/ \E k \in kinds : m = M(k)
      BY <3>1
    <3> QED
      BY <3>1, <3>2, <3>3, <3>4
  <2>2. ASSUME NEW a, AuditUnavailable(a) PROVE Attempts'
    BY <2>1, <2>2, <2>a, <2>m DEF AuditUnavailable, Audited, This
  <2>3. ASSUME NEW a, AuditRaises(a) PROVE Attempts'
    BY <2>1, <2>3, <2>a DEF AuditRaises, Audited, Abort
  <2>4. ASSUME NEW a, AuditReview(a) PROVE Attempts'
    <3>1. /\ Handling /\ log' = Append(log, New(Result("REVIEW"), "unset", FALSE))
          /\ misses' = misses /\ reviews' = reviews \cup {<<Len(log) + 1, "pending">>}
      BY <2>4 DEF AuditReview, Audited, This
    <3>2. Result("REVIEW") \in Audits
      BY <2>a DEF Verdicts
    <3>3. \A r \in reviews' : r \in reviews \/ r[1] = Len(log) + 1
      BY <3>1
    <3>4. reviews \subseteq reviews' /\ <<Len(log) + 1, "pending">> \in reviews'
      BY <3>1
    <3>5. misses \subseteq misses' /\ \A m \in misses' : m \in misses
      BY <3>1
    <3>6. /\ Handling /\ log' = Append(log, New(Result("REVIEW"), "unset", FALSE))
          /\ misses' = misses
      BY <3>1
    <3> QED
      BY <2>1, <3>2, <3>3, <3>4, <3>5, <3>6
  <2>5. ASSUME NEW a, AuditReject(a) PROVE Attempts'
    <3>1. (IF a = "malformed" THEN {"OTHER"} ELSE KindsOf(Prop.flaws)) # {}
      BY DEF KindsOf
    <3> QED
      BY <2>1, <2>5, <2>a, <2>m, <3>1 DEF AuditReject, Audited, Verdicts, This
  <2>6. ASSUME NEW a, RiskViewFails(a) PROVE Attempts'
    BY <2>1, <2>6, <2>a DEF RiskViewFails, Audited, Abort, Verdicts
  <2>7. ASSUME NEW a, RiskRejects(a) PROVE Attempts'
    BY <2>1, <2>7, <2>a, <2>m DEF RiskRejects, Audited, Verdicts, This
  <2>8. ASSUME NEW a, Approve(a) PROVE Attempts'
    BY <2>1, <2>8, <2>a DEF Approve, Audited, Verdicts
  <2>9. CASE SubmitRaises
    BY <1>k, <2>9 DEF SubmitRaises, Abort
  <2>10. ASSUME pc \in {"submit", "fills"}, Len(log') = Len(log), misses' = misses,
                reviews' = reviews,
                \A i \in 1..Len(log) :
                  log'[i].exit = log[i].exit /\ log'[i].submitted = log[i].submitted
         PROVE  Attempts'
    BY <1>t, <2>10, AttemptsKept DEF Current
  <2>11. ASSUME NEW st, SubmitEnds(st) PROVE Attempts'
    <3> DEFINE r == Persisted(log[Len(log)], st, FALSE, TRUE)
    <3>1. r.exit = log[Len(log)].exit /\ r.submitted = log[Len(log)].submitted
      BY DEF Persisted
    <3>2. /\ log' = [log EXCEPT ![Len(log)] = r] /\ pc \in {"submit", "fills"}
          /\ misses' = misses /\ reviews' = reviews
      BY <2>11 DEF SubmitEnds
    <3> HIDE DEF r
    <3>3. Len(log') = Len(log)
      BY <1>t, <3>2, LenProperties DEF LogTypes
    <3>4. \A i \in 1..Len(log) :
            log'[i].exit = log[i].exit /\ log'[i].submitted = log[i].submitted
      BY <1>t, <3>1, <3>2, LenProperties DEF LogTypes
    <3> QED
      BY <2>10, <3>2, <3>3, <3>4
  <2>12. ASSUME NEW st, SubmitFills(st) PROVE Attempts'
    <3> DEFINE r == Persisted(log[Len(log)], st, FALSE, FALSE)
    <3>1. r.exit = log[Len(log)].exit /\ r.submitted = log[Len(log)].submitted
      BY DEF Persisted
    <3>2. /\ log' = [log EXCEPT ![Len(log)] = r] /\ pc \in {"submit", "fills"}
          /\ misses' = misses /\ reviews' = reviews
      BY <2>12 DEF SubmitFills
    <3> HIDE DEF r
    <3>3. Len(log') = Len(log)
      BY <1>t, <3>2, LenProperties DEF LogTypes
    <3>4. \A i \in 1..Len(log) :
            log'[i].exit = log[i].exit /\ log'[i].submitted = log[i].submitted
      BY <1>t, <3>1, <3>2, LenProperties DEF LogTypes
    <3> QED
      BY <2>10, <3>2, <3>3, <3>4
  <2>13. CASE FillsUnavailable
    BY <1>k, <2>13 DEF FillsUnavailable, Abort
  <2>14. CASE BookFills
    <3> DEFINE r == Persisted(log[Len(log)], log[Len(log)].final, TRUE, TRUE)
    <3>1. r.exit = log[Len(log)].exit /\ r.submitted = log[Len(log)].submitted
      BY DEF Persisted
    <3>2. /\ log' = [log EXCEPT ![Len(log)] = r] /\ pc \in {"submit", "fills"}
          /\ misses' = misses /\ reviews' = reviews
      BY <2>14 DEF BookFills
    <3> HIDE DEF r
    <3>3. Len(log') = Len(log)
      BY <1>t, <3>2, LenProperties DEF LogTypes
    <3>4. \A i \in 1..Len(log) :
            log'[i].exit = log[i].exit /\ log'[i].submitted = log[i].submitted
      BY <1>t, <3>1, <3>2, LenProperties DEF LogTypes
    <3> QED
      BY <2>10, <3>2, <3>3, <3>4
  <2>15. ASSUME NEW st \in {"unset", "ACKNOWLEDGED", "UNKNOWN"}, pc = "protect",
                log' = Append(log, Stop(st)), misses' = misses, reviews' = reviews
         PROVE  Attempts'
    <3>1. log[Len(log)] \in Records /\ ~aborted
      BY <1>t, <2>15, ElementOfSeq DEF Current, LogTypes
    <3>2. Entry \in Sym
      BY <3>1 DEF Entry, Records
    <3>3. Stop(st) \in Records /\ Stop(st).exit = TRUE
      <4>1. Stop(st) \in Records
        BY <2>15, <2>a, <3>2, OpenedType DEF Stop
      <4>2. Stop(st).exit = TRUE
        BY DEF Stop, Opened
      <4> QED
        BY <4>1, <4>2
    <3>4. Len(log') = Len(log) + 1 /\ (\A i \in 1..Len(log) : log'[i] = log[i])
          /\ log'[Len(log) + 1].exit
      BY <2>15, <2>n, <3>3
    <3> QED
      BY <1>t, <2>15, <3>1, <3>4, AttemptsAdded
  <2>16. ASSUME NEW st \in {"ACKNOWLEDGED", "UNKNOWN"}, StopPlaced(st) PROVE Attempts'
    BY <2>15, <2>16 DEF StopPlaced
  <2>17. CASE StopRefused
    BY <1>k, <2>17 DEF StopRefused, Miss, Explain
  <2>18. ASSUME NEW sent \in BOOLEAN, StopAborts(sent) PROVE Attempts'
    BY <1>k, <2>15, <2>18 DEF StopAborts, Abort
  <2>19. CASE SessionEnds
    BY <1>k, <2>19 DEF SessionEnds, result
  <2> QED
    BY <1>6, <2>2, <2>3, <2>4, <2>5, <2>6, <2>7, <2>8, <2>9, <2>11, <2>12, <2>13, <2>14,
       <2>16, <2>17, <2>18, <2>19 DEF Handle
<1>7. ASSUME NEW n, NEW r, ResolveReview(n, r) PROVE Attempts'
  <2>1. /\ log' = log /\ misses' = misses /\ aborted' = aborted /\ <<n, "pending">> \in reviews
        /\ reviews' = (reviews \ {<<n, "pending">>}) \cup {<<n, "resolved">>}
    BY <1>7 DEF ResolveReview, result
  <2>2. ASSUME NEW q \in reviews PROVE \E p \in reviews' : p[1] = q[1]
    <3>1. CASE q = <<n, "pending">>
      <4>1. q[1] = n /\ <<n, "resolved">>[1] = n /\ <<n, "resolved">> \in reviews'
        BY <2>1, <3>1
      <4> QED
        BY <4>1
    <3>2. CASE q # <<n, "pending">>
      BY <2>1, <3>2
    <3> QED
      BY <3>1, <3>2
  <2>3. ASSUME NEW q \in reviews' PROVE \E p \in reviews : q[1] = p[1]
    <3>1. CASE q = <<n, "resolved">>
      <4>1. q[1] = n /\ <<n, "pending">>[1] = n
        BY <3>1
      <4> QED
        BY <2>1, <4>1
    <3>2. CASE q # <<n, "resolved">>
      BY <2>1, <3>2
    <3> QED
      BY <3>1, <3>2
  <2> QED
    BY <1>t, <2>1, <2>2, <2>3, AttemptsKept
<1>8. CASE UNCHANGED vars
  BY <1>k, <1>8 DEF vars, result
<1> QED
  BY <1>1, <1>2, <1>3, <1>4, <1>5, <1>6, <1>7, <1>8 DEF Next

\* What is left of a queue of symbols without its first.
LEMMA TailOfSymbols ==
  ASSUME NEW q \in Seq(Sym), q # <<>>, \A i, j \in 1..Len(q) : i # j => q[i] # q[j]
  PROVE  /\ \A i, j \in 1..Len(Tail(q)) : i # j => Tail(q)[i] # Tail(q)[j]
         /\ \A s : (\E i \in 1..Len(Tail(q)) : Tail(q)[i] = s)
                     <=> (s # Head(q) /\ \E i \in 1..Len(q) : q[i] = s)
<1> DEFINE n == Len(q)
           w == Tail(q)
<1>1. /\ n \in Nat /\ Len(w) = n - 1 /\ Head(q) = q[1]
      /\ \A i \in 1..n - 1 : w[i] = q[i + 1]
  BY Beheaded
<1>0. n > 0
  BY EmptySeq
<1>d. \A i, j \in 1..n : i # j => q[i] # q[j]
  OBVIOUS
<1> HIDE DEF n, w
<1>2. \A i, j \in 1..n - 1 : i # j => w[i] # w[j]
  BY <1>1, <1>d
<1>3. ASSUME NEW i \in 1..n - 1 PROVE w[i] # q[1] /\ \E j \in 1..n : q[j] = w[i]
  BY <1>1, <1>d
<1>4. ASSUME NEW j \in 1..n, q[j] # q[1] PROVE \E i \in 1..n - 1 : w[i] = q[j]
  <2>1. j - 1 \in 1..n - 1 /\ w[j - 1] = q[j]
    BY <1>1, <1>4
  <2> QED
    BY <2>1
<1> QED
  BY <1>1, <1>2, <1>3, <1>4 DEF n, w

\* What is left of a queue of proposals without its first.
LEMMA TailOfProposals ==
  ASSUME NEW q \in Seq(Proposals), q # <<>>,
         \A i, j \in 1..Len(q) : i # j => q[i].sym # q[j].sym
  PROVE  /\ \A i, j \in 1..Len(Tail(q)) : i # j => Tail(q)[i].sym # Tail(q)[j].sym
         /\ \A s : (\E i \in 1..Len(Tail(q)) : Tail(q)[i].sym = s)
                     <=> (\E i \in 1..Len(q) : i # 1 /\ q[i].sym = s)
         /\ \A s : (\E i \in 1..Len(Tail(q)) : Tail(q)[i].sym = s)
                     <=> (s # Head(q).sym /\ \E i \in 1..Len(q) : q[i].sym = s)
<1> DEFINE n == Len(q)
           w == Tail(q)
<1>1. /\ n \in Nat /\ Len(w) = n - 1 /\ Head(q) = q[1]
      /\ \A i \in 1..n - 1 : w[i] = q[i + 1]
  BY Beheaded
<1>0. n > 0
  BY EmptySeq
<1>d. \A i, j \in 1..n : i # j => q[i].sym # q[j].sym
  OBVIOUS
<1> HIDE DEF n, w
<1>2. ASSUME NEW i \in 1..n - 1, NEW j \in 1..n - 1, i # j PROVE w[i].sym # w[j].sym
  <2>1. i + 1 \in 1..n /\ j + 1 \in 1..n /\ i + 1 # j + 1
    BY <1>1, <1>2
  <2>2. w[i] = q[i + 1] /\ w[j] = q[j + 1]
    BY <1>1
  <2> QED
    BY <1>d, <2>1, <2>2
<1>3. ASSUME NEW i \in 1..n - 1
      PROVE  w[i].sym # q[1].sym /\ \E j \in 1..n : j # 1 /\ q[j].sym = w[i].sym
  <2>1. i + 1 \in 1..n /\ i + 1 # 1 /\ 1 \in 1..n /\ w[i] = q[i + 1]
    BY <1>1, <1>0
  <2> QED
    BY <1>d, <2>1
<1>4. ASSUME NEW j \in 1..n, j # 1 PROVE \E i \in 1..n - 1 : w[i].sym = q[j].sym
  <2>1. j - 1 \in 1..n - 1 /\ w[j - 1] = q[j]
    BY <1>1, <1>4
  <2> QED
    BY <2>1
<1>5. \A j \in 1..n : j # 1 <=> q[j].sym # q[1].sym
  BY <1>0, <1>1, <1>d
<1>6. ASSUME NEW s
      PROVE  (\E i \in 1..n - 1 : w[i].sym = s) <=> (\E j \in 1..n : j # 1 /\ q[j].sym = s)
  <2>1. ASSUME NEW i \in 1..n - 1, w[i].sym = s PROVE \E j \in 1..n : j # 1 /\ q[j].sym = s
    BY <1>3, <2>1
  <2>2. ASSUME NEW j \in 1..n, j # 1, q[j].sym = s PROVE \E i \in 1..n - 1 : w[i].sym = s
    BY <1>4, <2>2
  <2> QED
    BY <2>1, <2>2
<1>7. \A s : (\E j \in 1..n : j # 1 /\ q[j].sym = s)
              <=> (s # q[1].sym /\ \E j \in 1..n : q[j].sym = s)
  BY <1>5
<1>8. \A s : (\E i \in 1..n - 1 : w[i].sym = s) <=> (s # q[1].sym /\ \E j \in 1..n : q[j].sym = s)
  BY <1>6, <1>7
<1> QED
  BY <1>1, <1>2, <1>6, <1>8 DEF n, w

\* The stances of a symbol are finitely many, and none iff counted as none.
LEMMA StancesFinite ==
  ASSUME NEW s PROVE IsFiniteSet(Stances(s)) /\ (Cardinality(Stances(s)) = 0 <=> Stances(s) = {})
<1>1. IsFiniteSet(Stance)
  <2>1. IsFiniteSet({"BUY"}) /\ IsFiniteSet({"SELL"}) /\ IsFiniteSet({"HOLD"})
        /\ IsFiniteSet({"WAIT"}) /\ IsFiniteSet({"NO_TRADE"}) /\ IsFiniteSet({"AVOID"})
    BY FS_Singleton
  <2>2. IsFiniteSet({"BUY"} \cup {"SELL"}) /\ IsFiniteSet({"HOLD"} \cup {"WAIT"})
        /\ IsFiniteSet({"NO_TRADE"} \cup {"AVOID"})
    BY <2>1, FS_Union
  <2>3. IsFiniteSet(({"BUY"} \cup {"SELL"}) \cup ({"HOLD"} \cup {"WAIT"}))
    BY <2>2, FS_Union
  <2>4. IsFiniteSet((({"BUY"} \cup {"SELL"}) \cup ({"HOLD"} \cup {"WAIT"}))
                     \cup ({"NO_TRADE"} \cup {"AVOID"}))
    BY <2>2, <2>3, FS_Union
  <2>5. Stance = (({"BUY"} \cup {"SELL"}) \cup ({"HOLD"} \cup {"WAIT"}))
                   \cup ({"NO_TRADE"} \cup {"AVOID"})
    BY DEF Stance
  <2> QED
    BY <2>4, <2>5
<1>2. Stances(s) \in SUBSET Stance
  BY DEF Stances
<1>3. IsFiniteSet(Stances(s))
  BY <1>1, <1>2, FS_Subset
<1> QED
  BY <1>3, FS_EmptySet

\* A snapshot adds its stance to its symbol's, and leaves the others alone.
LEMMA Snapshot ==
  ASSUME NEW s0, NEW k \in Stance \ {"SELL"}, snaps' = snaps \cup {<<s0, k>>}, NEW s
  PROVE  /\ s # s0 => Stances(s)' = Stances(s)
         /\ s = s0 => Stances(s)' = Stances(s) \cup {k}
BY DEF Stances

\* Which stages have an output.
LEMMA ReachedOutput ==
  ASSUME NEW p \in Stages
  PROVE  Reached(p, "output") <=> p \notin {"none", "opened"}
BY DEF Reached, Chain, Stages

\* A symbol no queue holds any more, with its stance.
LEMMA KnownSettled ==
  ASSUME NEW s, NEW k, ~Waiting(s)', ~Queued(s)', s \notin dropped',
         prov'[s] \in Stages \ {"none", "opened"}, Stances(s)' = {k}
  PROVE  Known(s)'
<1>1. Reached(prov'[s], "output")
  BY ReachedOutput
<1>2. Cardinality(Stances(s)') = 1
  BY FS_Singleton
<1> QED
  BY <1>1, <1>2 DEF Known, Settled

\* A symbol nothing has been done to.
LEMMA KnownSame ==
  ASSUME NEW s, Known(s), Waiting(s)' <=> Waiting(s), Queued(s)' <=> Queued(s),
         s \in dropped' <=> s \in dropped, prov'[s] = prov[s], Stances(s)' = Stances(s)
  PROVE  Known(s)'
BY DEF Known, Settled

\* The first candidate is taken off the queue.
LEMMA FirstTaken ==
  ASSUME LogTypes, Queues, todo # <<>>, todo' = Tail(todo)
  PROVE  /\ \A i, j \in 1..Len(todo') : i # j => todo'[i] # todo'[j]
         /\ \A s : Waiting(s)' <=> (s # Cand /\ Waiting(s))
<1>1. todo \in Seq(Sym) /\ \A i, j \in 1..Len(todo) : i # j => todo[i] # todo[j]
  BY DEF LogTypes, Queues
<1>2. /\ \A i, j \in 1..Len(Tail(todo)) : i # j => Tail(todo)[i] # Tail(todo)[j]
      /\ \A s : (\E i \in 1..Len(Tail(todo)) : Tail(todo)[i] = s)
                  <=> (s # Head(todo) /\ \E i \in 1..Len(todo) : todo[i] = s)
  BY <1>1, TailOfSymbols
<1>3. ASSUME NEW s PROVE Waiting(s)' <=> (s # Cand /\ Waiting(s))
  <2>1. Waiting(s)' <=> \E i \in 1..Len(Tail(todo)) : Tail(todo)[i] = s
    BY DEF Waiting
  <2> QED
    BY <1>2, <2>1 DEF Waiting, Cand
<1> QED
  BY <1>2, <1>3

\* A candidate is decided and goes no further.
LEMMA CandidateDone ==
  ASSUME LogTypes, Queues, \A s \in Sym : Known(s), pc = "decide", pc' = "decide",
         ~aborted', todo # <<>>, todo' = Tail(todo), sized' = sized, dropped' = dropped,
         NEW f \in Stages, prov' = [prov EXCEPT ![Cand] = f],
         \/ f = "opened" /\ snaps' = snaps
         \/ /\ f \notin {"none", "opened"}
            /\ \E k \in Stance \ {"SELL"} : snaps' = snaps \cup {<<Cand, k>>}
  PROVE  Queues' /\ Stanced'
<1>1. /\ Cand \in Sym /\ prov' \in [Sym -> Stages] /\ prov'[Cand] = f
      /\ \A s \in Sym \ {Cand} : prov'[s] = prov[s]
  BY Beheaded DEF LogTypes, Queues, Cand
<1>2. /\ \A i, j \in 1..Len(todo') : i # j => todo'[i] # todo'[j]
      /\ \A s : Waiting(s)' <=> (s # Cand /\ Waiting(s))
  BY FirstTaken
<1>3. \A s : Queued(s)' <=> Queued(s)
  BY DEF Queued
<1>4. Queues'
  BY <1>1, <1>2 DEF Queues
<1>5. Waiting(Cand) /\ dropped = {}
  <2>1. 1 \in 1..Len(todo) /\ todo[1] = Cand
    BY Beheaded, EmptySeq DEF LogTypes, Cand
  <2> QED
    BY <2>1 DEF Waiting, Queues
<1>6. ~Queued(Cand) /\ Stances(Cand) = {} /\ prov[Cand] = "none"
  BY <1>1, <1>5 DEF Known
<1>7. ASSUME NEW s \in Sym PROVE Known(s)'
  <2>1. CASE f = "opened" /\ snaps' = snaps
    <3>1. Stances(s)' = Stances(s)
      BY <2>1 DEF Stances
    <3>2. CASE s = Cand
      <4>1. ~Reached(prov'[s], "output")
        BY <1>1, <2>1, <3>2, ReachedOutput
      <4>2. Cardinality(Stances(s)') = 0
        BY <1>6, <3>1, <3>2, FS_EmptySet
      <4>3. ~Waiting(s)' /\ ~Queued(s)' /\ s \notin dropped'
        BY <1>2, <1>3, <1>5, <1>6, <3>2
      <4> QED
        BY <4>1, <4>2, <4>3 DEF Known, Settled
    <3>3. CASE s # Cand
      BY <1>1, <1>2, <1>3, <3>1, <3>3, KnownSame
    <3> QED
      BY <3>2, <3>3
  <2>2. ASSUME f \notin {"none", "opened"}, NEW k \in Stance \ {"SELL"},
               snaps' = snaps \cup {<<Cand, k>>}
        PROVE  Known(s)'
    <3>1. /\ s # Cand => Stances(s)' = Stances(s)
          /\ s = Cand => Stances(s)' = Stances(s) \cup {k}
      BY <2>2, Snapshot
    <3>2. CASE s = Cand
      <4>1. Stances(s)' = {k} /\ prov'[s] \in Stages \ {"none", "opened"}
        BY <1>1, <1>6, <2>2, <3>1, <3>2
      <4>2. ~Waiting(s)' /\ ~Queued(s)' /\ s \notin dropped'
        BY <1>2, <1>3, <1>5, <1>6, <3>2
      <4> QED
        BY <4>1, <4>2, KnownSettled
    <3>3. CASE s # Cand
      BY <1>1, <1>2, <1>3, <3>1, <3>3, KnownSame
    <3> QED
      BY <3>2, <3>3
  <2> QED
    BY <2>1, <2>2
<1> QED
  BY <1>4, <1>7 DEF Stanced

\* A candidate becomes a proposal.
LEMMA CandidateSized ==
  ASSUME LogTypes, Queues, \A s \in Sym : Known(s), pc = "decide", pc' = "decide",
         ~aborted', todo # <<>>, todo' = Tail(todo), dropped' = dropped, snaps' = snaps,
         NEW f \in FlawSets, sized' = Append(sized, [sym |-> Cand, flaws |-> f]),
         prov' = [prov EXCEPT ![Cand] = "position_size"]
  PROVE  Queues' /\ Stanced'
<1> DEFINE p == [sym |-> Cand, flaws |-> f]
           n == Len(sized)
<1>1. /\ Cand \in Sym /\ prov' \in [Sym -> Stages] /\ prov'[Cand] = "position_size"
      /\ \A s \in Sym \ {Cand} : prov'[s] = prov[s]
  BY Beheaded DEF LogTypes, Queues, Cand, Stages
<1>2. /\ \A i, j \in 1..Len(todo') : i # j => todo'[i] # todo'[j]
      /\ \A s : Waiting(s)' <=> (s # Cand /\ Waiting(s))
  BY FirstTaken
<1>3. p \in Proposals /\ p.sym = Cand
  BY <1>1 DEF Proposals
<1> HIDE DEF p
<1>4. /\ n \in Nat /\ Len(sized') = n + 1 /\ sized'[n + 1] = p
      /\ \A i \in 1..n : sized'[i] = sized[i]
  BY <1>3, Appended DEF LogTypes, p
<1>5. \A i \in 1..n + 1 : i \in 1..n \/ i = n + 1
  BY <1>4
<1>6. \A s : Queued(s)' <=> (s = Cand \/ Queued(s))
  <2> SUFFICES ASSUME NEW s PROVE Queued(s)' <=> (s = Cand \/ Queued(s))
    OBVIOUS
  <2>1. Queued(s) <=> \E i \in 1..n : sized[i].sym = s
    BY DEF Queued
  <2>2. Queued(s)' <=> \E i \in 1..n + 1 : sized'[i].sym = s
    BY <1>4 DEF Queued
  <2>3. n + 1 \in 1..n + 1 /\ \A i \in 1..n : i \in 1..n + 1
    BY <1>4
  <2> QED
    BY <1>3, <1>4, <1>5, <2>1, <2>2, <2>3
<1>7. Waiting(Cand) /\ dropped = {}
  <2>1. 1 \in 1..Len(todo) /\ todo[1] = Cand
    BY Beheaded, EmptySeq DEF LogTypes, Cand
  <2> QED
    BY <2>1 DEF Waiting, Queues
<1>8. ~Queued(Cand) /\ Stances(Cand) = {}
  BY <1>1, <1>7 DEF Known
<1>9. \A i, j \in 1..n + 1 : i # j => sized'[i].sym # sized'[j].sym
  <2>1. \A i \in 1..n : sized[i].sym # Cand
    BY <1>8 DEF Queued
  <2>2. \A i, j \in 1..n : i # j => sized[i].sym # sized[j].sym
    BY DEF Queues
  <2> QED
    BY <1>3, <1>4, <1>5, <2>1, <2>2
<1>10. Queues'
  BY <1>1, <1>2, <1>4, <1>9 DEF Queues
<1>11. ASSUME NEW s \in Sym PROVE Known(s)'
  <2>1. Stances(s)' = Stances(s)
    BY DEF Stances
  <2>2. CASE s = Cand
    <3>1. ~Waiting(s)' /\ Queued(s)' /\ s \notin dropped'
      BY <1>2, <1>6, <1>7, <2>2
    <3> QED
      BY <1>1, <1>8, <2>1, <2>2, <3>1 DEF Known
  <2>3. CASE s # Cand
    BY <1>1, <1>2, <1>6, <2>1, <2>3, KnownSame
  <2> QED
    BY <2>2, <2>3
<1> QED
  BY <1>10, <1>11 DEF Stanced

\* allocate: every proposal is accepted, accepted beyond the limit, or skipped.
LEMMA AllocateKnown ==
  ASSUME LogTypes, Queues, \A s \in Sym : Known(s),
         NEW S \in SUBSET ToSet(sized), NEW rank \in SetToSeqs(S), Allocate(rank), ~aborted'
  PROVE  Queues' /\ Stanced'
<1> DEFINE k == IF Len(rank) < MaxNew THEN Len(rank) ELSE MaxNew
           n == Len(rank)
           skipped == {c.sym : c \in ToSet(sized) \ ToSet(rank)}
<1>1. /\ rank \in Seq(Proposals) /\ n \in Nat
      /\ \A i \in 1..n : rank[i] \in ToSet(sized)
      /\ \A i, j \in 1..n : i # j => rank[i] # rank[j]
  BY RankType
<1>2. k \in 0..n
  BY <1>1, DecisionAssumption
<1>3. /\ pc = "allocate" /\ pc' = "orders" /\ todo' = todo /\ prov' = prov
      /\ sized' = SubSeq(rank, 1, k)
      /\ dropped' = {rank[i].sym : i \in k + 1 .. n}
      /\ snaps' = snaps \cup {<<s, "WAIT">> : s \in skipped}
  BY DEF Allocate
<1> HIDE DEF k, n, skipped
<1>4. Len(sized') = k /\ \A i \in 1..k : sized'[i] = rank[i]
  BY <1>1, <1>2, <1>3, Cut DEF n
<1>5. todo = <<>> /\ Len(todo) = 0 /\ dropped = {}
  BY <1>3, EmptySeq DEF Queues
<1>6. \A c \in ToSet(sized) : \E j \in 1..Len(sized) : c = sized[j]
  BY LenProperties DEF ToSet, LogTypes
<1>7. \A j \in 1..Len(sized) : sized[j] \in ToSet(sized)
  BY LenProperties DEF ToSet, LogTypes
<1>8. \A c, d \in ToSet(sized) : c.sym = d.sym => c = d
  BY <1>6 DEF Queues
<1>9. \A i, j \in 1..n : i # j => rank[i].sym # rank[j].sym
  BY <1>1, <1>8
<1>a. \A i \in 1..k : i \in 1..n
  BY <1>1, <1>2
<1>b. \A i \in k + 1 .. n : i \in 1..n /\ i \notin 1..k
  BY <1>1, <1>2
<1>c. \A i \in 1..n : i \in 1..k \/ i \in k + 1 .. n
  BY <1>1, <1>2
<1>10. Queues'
  <2>1. \A i, j \in 1..Len(sized') : i # j => sized'[i].sym # sized'[j].sym
    BY <1>4, <1>9, <1>a
  <2>2. \A i, j \in 1..Len(todo') : i # j => todo'[i] # todo'[j]
    BY <1>3 DEF Queues
  <2>3. prov' \in [Sym -> Stages] /\ todo' = <<>>
    BY <1>3, <1>5 DEF Queues
  <2> QED
    BY <1>3, <2>1, <2>2, <2>3 DEF Queues
<1>11. \A c : c \in ToSet(rank) <=> \E i \in 1..n : c = rank[i]
  BY <1>1, LenProperties DEF ToSet, n
<1>12. \A s : Queued(s)' <=> \E i \in 1..k : rank[i].sym = s
  BY <1>3, <1>4 DEF Queued
<1>13. \A s : Queued(s) <=> \E j \in 1..Len(sized) : sized[j].sym = s
  BY <1>3 DEF Queued
<1>14. \A s : ~Waiting(s) /\ ~Waiting(s)'
  BY <1>3, <1>5 DEF Waiting
<1>15. ASSUME NEW s PROVE s \notin skipped => Stances(s)' = Stances(s)
  BY <1>3 DEF Stances
<1>16. ASSUME NEW s PROVE s \in skipped => Stances(s)' = Stances(s) \cup {"WAIT"}
  BY <1>3 DEF Stances, Stance
<1>17. ASSUME NEW s \in Sym PROVE Known(s)'
  <2>1. CASE ~Queued(s)
    <3>1. \A c \in ToSet(sized) : c.sym # s
      BY <1>6, <1>13, <2>1
    <3>2. ~Queued(s)'
      BY <1>1, <1>12, <1>a, <3>1
    <3>3. s \notin dropped'
      BY <1>1, <1>3, <1>b, <3>1
    <3>4. s \notin skipped
      BY <3>1 DEF skipped
    <3> QED
      BY <1>3, <1>5, <1>14, <1>15, <2>1, <3>2, <3>3, <3>4, KnownSame
  <2>2. CASE Queued(s)
    <3>1. prov'[s] = "position_size" /\ Stances(s) = {}
      BY <1>3, <2>2 DEF Known
    <3>2. PICK c \in ToSet(sized) : c.sym = s
      BY <1>7, <1>13, <2>2
    <3>3. CASE \E i \in 1..n : c = rank[i]
      <4>1. s \notin skipped
        BY <1>8, <1>11, <3>2, <3>3 DEF skipped
      <4>2. PICK i \in 1..n : c = rank[i]
        BY <3>3
      <4>3. CASE i \in 1..k
        <5>1. Queued(s)'
          BY <1>12, <3>2, <4>2, <4>3
        <5>2. s \notin dropped'
          BY <1>3, <1>9, <1>b, <3>2, <4>2, <4>3
        <5> QED
          BY <1>14, <1>15, <3>1, <4>1, <5>1, <5>2 DEF Known
      <4>4. CASE i \in k + 1 .. n
        <5>1. s \in dropped'
          BY <1>3, <3>2, <4>2, <4>4
        <5>2. ~Queued(s)'
          BY <1>9, <1>12, <1>a, <1>b, <3>2, <4>2, <4>4
        <5> QED
          BY <1>14, <1>15, <3>1, <4>1, <5>1, <5>2 DEF Known
      <4> QED
        BY <1>c, <4>3, <4>4
    <3>4. CASE ~\E i \in 1..n : c = rank[i]
      <4>1. s \in skipped
        BY <1>11, <3>2, <3>4 DEF skipped
      <4>2. \A i \in 1..n : rank[i].sym # s
        BY <1>1, <1>8, <3>2, <3>4
      <4>3. ~Queued(s)' /\ s \notin dropped'
        BY <1>3, <1>12, <1>a, <1>b, <4>2
      <4>4. Stances(s)' = {"WAIT"}
        BY <1>16, <3>1, <4>1
      <4>5. prov'[s] \in Stages \ {"none", "opened"}
        BY <3>1 DEF Stages
      <4> QED
        BY <1>14, <4>3, <4>4, <4>5, KnownSettled
    <3> QED
      BY <3>3, <3>4
  <2> QED
    BY <2>1, <2>2
<1> QED
  BY <1>10, <1>17 DEF Stanced

\* The first proposal is taken off the queue.
LEMMA ProposalTaken ==
  ASSUME LogTypes, Queues, sized # <<>>, sized' = Tail(sized), pc' \notin {"submit", "fills"}
  PROVE  /\ \A i, j \in 1..Len(sized') : i # j => sized'[i].sym # sized'[j].sym
         /\ \A s : Queued(s)' <=> (s # Prop.sym /\ Queued(s))
         /\ pc \in {"submit", "fills"} => ~Queued(Prop.sym)
         /\ pc \notin {"submit", "fills"} => Queued(Prop.sym)
<1>1. sized \in Seq(Proposals) /\ \A i, j \in 1..Len(sized) : i # j => sized[i].sym # sized[j].sym
  BY DEF LogTypes, Queues
<1> DEFINE n == Len(sized)
           w == Tail(sized)
<1>2. /\ \A i, j \in 1..Len(w) : i # j => w[i].sym # w[j].sym
      /\ \A s : (\E i \in 1..Len(w) : w[i].sym = s) <=> (\E i \in 1..n : i # 1 /\ sized[i].sym = s)
      /\ \A s : (\E i \in 1..Len(w) : w[i].sym = s)
                  <=> (s # Head(sized).sym /\ \E i \in 1..n : sized[i].sym = s)
  BY <1>1, TailOfProposals
<1>3. 1 \in 1..n /\ sized[1] = Prop
  BY <1>1, Beheaded, EmptySeq DEF Prop
<1>4. \A i \in 1..n : i # 1 <=> sized[i].sym # Prop.sym
  BY <1>1, <1>3
<1>5. \A s : Queued(s)' <=> \E i \in 1..Len(w) : w[i].sym = s
  BY DEF Queued
<1> HIDE DEF n, w
<1>6. CASE pc \in {"submit", "fills"}
  <2>1. \A s : Queued(s) <=> \E i \in 1..n : i # 1 /\ sized[i].sym = s
    BY <1>6 DEF Queued, n
  <2>2. ~Queued(Prop.sym)
    BY <1>4, <2>1
  <2> QED
    BY <1>2, <1>5, <1>6, <2>1, <2>2 DEF w
<1>7. CASE pc \notin {"submit", "fills"}
  <2>1. \A s : Queued(s) <=> \E i \in 1..n : sized[i].sym = s
    BY <1>7 DEF Queued, n
  <2>2. Queued(Prop.sym)
    BY <1>3, <2>1
  <2>3. \A s : Queued(s)' <=> (s # Prop.sym /\ Queued(s))
    BY <1>2, <1>5, <2>1 DEF Prop
  <2> QED
    BY <1>2, <1>7, <2>2, <2>3 DEF w
<1> QED
  BY <1>6, <1>7

\* Proposals leave the queue only when they get their stance.
LEMMA ProposalDone ==
  ASSUME LogTypes, Queues, \A s \in Sym : Known(s), pc = "orders", pc' = "orders", ~aborted',
         sized # <<>>, sized' = Tail(sized), todo' = todo, dropped' = dropped,
         snaps' = snaps \cup {<<Prop.sym, "AVOID">>},
         prov' = prov \/ prov' = [prov EXCEPT ![Prop.sym] = "risk_decision"]
  PROVE  Queues' /\ Stanced'
<1> DEFINE p == Prop.sym
<1>0. p \in Sym
  <2>1. Prop \in Proposals
    BY Beheaded DEF LogTypes, Prop
  <2> QED
    BY <2>1 DEF Proposals
<1>1. /\ \A i, j \in 1..Len(sized') : i # j => sized'[i].sym # sized'[j].sym
      /\ \A s : Queued(s)' <=> (s # p /\ Queued(s))
      /\ Queued(p)
  BY ProposalTaken
<1>2. /\ prov' \in [Sym -> Stages] /\ prov'[p] \in {prov[p], "risk_decision"}
      /\ \A s \in Sym \ {p} : prov'[s] = prov[s]
  BY <1>0 DEF Queues, Stages
<1>3. prov[p] = "position_size" /\ p \notin dropped /\ Stances(p) = {} /\ ~Waiting(p)
  BY <1>0, <1>1 DEF Known
<1>4. \A s : Waiting(s)' <=> Waiting(s)
  BY DEF Waiting
<1>5. \A s : /\ s # p => Stances(s)' = Stances(s)
             /\ s = p => Stances(s)' = Stances(s) \cup {"AVOID"}
  BY Snapshot DEF Stance
<1>6. Queues'
  BY <1>1, <1>2 DEF Queues
<1> HIDE DEF p
<1>7. ASSUME NEW s \in Sym PROVE Known(s)'
  <2>1. CASE s = p
    <3>1. ~Waiting(s)' /\ ~Queued(s)' /\ s \notin dropped' /\ Stances(s)' = {"AVOID"}
      BY <1>1, <1>3, <1>4, <1>5, <2>1
    <3>2. prov'[s] \in Stages \ {"none", "opened"}
      BY <1>2, <1>3, <2>1 DEF Stages
    <3> QED
      BY <3>1, <3>2, KnownSettled
  <2>2. CASE s # p
    BY <1>1, <1>2, <1>4, <1>5, <2>2, KnownSame
  <2> QED
    BY <2>1, <2>2
<1> QED
  BY <1>6, <1>7 DEF Stanced

\* Approve: the proposal has its stance, and stays at the head while it is sent.
LEMMA ProposalApproved ==
  ASSUME LogTypes, Queues, \A s \in Sym : Known(s), pc = "orders", pc' = "submit", ~aborted',
         sized # <<>>, sized' = sized, todo' = todo, dropped' = dropped,
         snaps' = snaps \cup {<<Prop.sym, "BUY">>},
         prov' = [prov EXCEPT ![Prop.sym] = "risk_decision"]
  PROVE  Queues' /\ Stanced'
<1> DEFINE p == Prop.sym
           n == Len(sized)
<1>0. p \in Sym /\ 1 \in 1..n /\ sized[1].sym = p
  <2>1. Prop \in Proposals /\ Prop = sized[1] /\ 1 \in 1..n
    BY Beheaded, EmptySeq DEF LogTypes, Prop
  <2> QED
    BY <2>1 DEF Proposals
<1>1. \A i \in 1..n : sized[i].sym = p <=> i = 1
  BY <1>0 DEF Queues
<1>2. \A s : Queued(s) <=> \E i \in 1..n : sized[i].sym = s
  BY DEF Queued
<1>3. \A s : Queued(s)' <=> \E i \in 1..n : sized[i].sym = s /\ i # 1
  BY DEF Queued
<1>4. /\ prov' \in [Sym -> Stages] /\ prov'[p] = "risk_decision"
      /\ \A s \in Sym \ {p} : prov'[s] = prov[s]
  BY <1>0 DEF Queues, Stages
<1>5. \A s : Waiting(s)' <=> Waiting(s)
  BY DEF Waiting
<1>6. \A s : /\ s # p => Stances(s)' = Stances(s)
             /\ s = p => Stances(s)' = Stances(s) \cup {"BUY"}
  BY Snapshot DEF Stance
<1>7. Queues'
  <2>1. Reached(prov[Prop.sym], "output")'
    <3>1. Reached(prov'[p], "output") /\ Prop' = Prop
      BY <1>4, ReachedOutput DEF Prop, Stages
    <3> QED
      BY <3>1
  <2> QED
    BY <1>4, <2>1 DEF Queues
<1> HIDE DEF p, n
<1>8. Queued(p) /\ \A s : s = p => ~Queued(s)'
  BY <1>0, <1>1, <1>2, <1>3
<1>9. \A s : s # p => (Queued(s)' <=> Queued(s))
  BY <1>1, <1>2, <1>3
<1>10. p \notin dropped /\ Stances(p) = {} /\ ~Waiting(p)
  BY <1>0, <1>8 DEF Known
<1>11. ASSUME NEW s \in Sym PROVE Known(s)'
  <2>1. CASE s = p
    <3>1. ~Waiting(s)' /\ ~Queued(s)' /\ s \notin dropped' /\ Stances(s)' = {"BUY"}
      BY <1>5, <1>6, <1>8, <1>10, <2>1
    <3>2. prov'[s] \in Stages \ {"none", "opened"}
      BY <1>4, <2>1 DEF Stages
    <3> QED
      BY <3>1, <3>2, KnownSettled
  <2>2. CASE s # p
    BY <1>4, <1>5, <1>6, <1>9, <2>2, KnownSame
  <2> QED
    BY <2>1, <2>2
<1> QED
  BY <1>7, <1>11 DEF Stanced

\* The order is under way: its proposal already has its stance and keeps it.
LEMMA OrderGoesOn ==
  ASSUME LogTypes, Queues, \A s \in Sym : Known(s), pc \in {"submit", "fills"},
         ~aborted', sized # <<>>, todo' = todo, dropped' = dropped, snaps' = snaps,
         \/ pc' = "fills" /\ sized' = sized
         \/ pc' \in {"orders", "protect"} /\ sized' = Tail(sized),
         prov' = prov \/ prov' = [prov EXCEPT ![Prop.sym] = "order_ref"]
  PROVE  Queues' /\ Stanced'
<1> DEFINE p == Prop.sym
<1>0. p \in Sym
  <2>1. Prop \in Proposals
    BY Beheaded DEF LogTypes, Prop
  <2> QED
    BY <2>1 DEF Proposals
<1>1. /\ prov' \in [Sym -> Stages]
      /\ \A s \in Sym : prov'[s] = prov[s] \/ (s = p /\ prov'[s] = "order_ref")
      /\ Reached(prov[p], "output")
  BY <1>0 DEF Queues, Stages
<1>2. ~Queued(p)
  <2>1. 1 \in 1..Len(sized) /\ sized[1] = Prop
    BY Beheaded, EmptySeq DEF Prop, LogTypes
  <2> QED
    BY <2>1 DEF Queued, Queues
<1>3. /\ \A i, j \in 1..Len(sized') : i # j => sized'[i].sym # sized'[j].sym
      /\ \A s : Queued(s)' <=> Queued(s)
  <2>1. CASE pc' = "fills" /\ sized' = sized
    BY <2>1 DEF Queued, Queues
  <2>2. CASE pc' \in {"orders", "protect"} /\ sized' = Tail(sized)
    <3>1. /\ \A i, j \in 1..Len(sized') : i # j => sized'[i].sym # sized'[j].sym
          /\ \A s : Queued(s)' <=> (s # p /\ Queued(s))
      BY <2>2, ProposalTaken
    <3> QED
      BY <1>2, <3>1
  <2> QED
    BY <2>1, <2>2
<1>4. \A s : Waiting(s)' <=> Waiting(s)
  BY DEF Waiting
<1>5. \A s : Stances(s)' = Stances(s)
  BY DEF Stances
<1>6. Queues'
  <2>1. pc' \in {"submit", "fills"} => Reached(prov[Prop.sym], "output")'
    <3>1. Reached(prov'[p], "output")
      BY <1>0, <1>1, ReachedOutput DEF Stages
    <3>2. pc' \in {"submit", "fills"} => Prop' = Prop
      BY DEF Prop
    <3> QED
      BY <3>1, <3>2
  <2> QED
    BY <1>1, <1>3, <2>1 DEF Queues
<1> HIDE DEF p
<1>7. todo = <<>> /\ \A s : ~Waiting(s)
  BY EmptySeq DEF Queues, Waiting
<1>8. ASSUME NEW s \in Sym PROVE Known(s)'
  <2>1. CASE prov'[s] = prov[s]
    BY <1>3, <1>4, <1>5, <2>1, KnownSame
  <2>2. CASE s = p /\ prov'[s] = "order_ref"
    <3>1. Reached(prov'[s], "output")
      BY <2>2, ReachedOutput DEF Stages
    <3> QED
      BY <1>1, <1>2, <1>3, <1>4, <1>5, <1>7, <2>2, <3>1 DEF Known, Settled
  <2> QED
    BY <1>1, <2>1, <2>2
<1> QED
  BY <1>6, <1>8 DEF Stanced

\* Steps that leave the queues, the stages and the snapshots alone.
LEMMA QueuesLeft ==
  ASSUME LogTypes, Queues, aborted' \/ \A s \in Sym : Known(s), UNCHANGED <<funnel, prov, snaps>>,
         \/ pc' = pc /\ (aborted' = aborted \/ aborted')
         \/ pc' = "idle" /\ aborted' /\ pc \notin {"new"}
         \/ pc' = "idle" /\ todo = <<>> /\ sized = <<>> /\ pc \in {"scan", "decide", "orders"}
         \/ pc = "decide" /\ todo = <<>> /\ pc' = "allocate"
         \/ pc = "protect" /\ pc' = "orders"
  PROVE  Queues' /\ Stanced'
<1>1. todo' = todo /\ sized' = sized /\ dropped' = dropped /\ prov' = prov /\ snaps' = snaps
  BY DEF funnel
<1>2. Queues'
  <2>1. Prop' = Prop
    BY <1>1 DEF Prop
  <2>2. pc' \in {"submit", "fills"} => Reached(prov[Prop.sym], "output")'
    BY <1>1, <2>1 DEF Queues
  <2> QED
    BY <1>1, <2>2 DEF Queues
<1>3. ASSUME ~aborted', NEW s \in Sym PROVE Known(s)'
  <2>1. Stances(s)' = Stances(s) /\ (Waiting(s)' <=> Waiting(s))
    BY <1>1 DEF Stances, Waiting
  <2>2. Queued(s)' <=> Queued(s)
    <3>1. CASE sized = <<>>
      BY <1>1, <3>1, EmptySeq DEF Queued
    <3>2. CASE sized # <<>>
      BY <1>1, <1>3, <3>2 DEF Queued
    <3> QED
      BY <3>1, <3>2
  <2> QED
    BY <1>1, <1>3, <2>1, <2>2, KnownSame
<1> QED
  BY <1>2, <1>3 DEF Stanced

\* Where no decision has been made there is no stance.
LEMMA NothingDecided ==
  ASSUME Queues, \A s \in Sym : Known(s), pc = "scan"
  PROVE  \A s \in Sym : Stances(s) = {} /\ prov[s] = "none"
<1> SUFFICES ASSUME NEW s \in Sym PROVE Stances(s) = {} /\ prov[s] = "none"
  OBVIOUS
<1>1. todo = <<>> /\ sized = <<>> /\ dropped = {} /\ prov[s] = "none"
  BY DEF Queues
<1>2. ~Waiting(s) /\ ~Queued(s)
  BY <1>1, EmptySeq DEF Waiting, Queued
<1>3. Settled(s) /\ ~Reached(prov[s], "output")
  BY <1>1, <1>2, ReachedOutput DEF Known, Stages
<1> QED
  BY <1>1, <1>3, StancesFinite DEF Settled

\* A session starts with empty queues, and the sales it has recorded are no
\* decisions of the model.
LEMMA StartKnown ==
  ASSUME NEW out, SessionStart(out)
  PROVE  Queues' /\ Stanced'
<1>1. /\ todo' = <<>> /\ sized' = <<>> /\ dropped' = {} /\ pc' = "scan"
      /\ prov' = [s \in Sym |-> "none"] /\ snaps' = {<<s, "SELL">> : s \in out}
  BY DEF SessionStart, Fresh
<1>2. Queues'
  BY <1>1, EmptySeq DEF Queues, Stages
<1>3. ASSUME NEW s \in Sym PROVE Known(s)'
  <2>1. Stances(s)' = {} /\ prov'[s] = "none"
    BY <1>1 DEF Stances
  <2>2. ~Waiting(s)' /\ ~Queued(s)'
    BY <1>1, EmptySeq DEF Waiting, Queued
  <2>3. ~Reached(prov'[s], "output") /\ Cardinality(Stances(s)') = 0
    BY <2>1, ReachedOutput, FS_EmptySet DEF Stages
  <2> QED
    BY <1>1, <2>2, <2>3 DEF Known, Settled
<1> QED
  BY <1>2, <1>3 DEF Stanced

\* The data gate queues candidates none of which has been decided.
LEMMA GateKnown ==
  ASSUME LogTypes, Queues, \A s \in Sym : Known(s), NEW n, NEW bad, NEW S \in SUBSET Sym,
         NEW gated \in SetToSeqs(S), Gate(n, gated, bad)
  PROVE  Queues' /\ Stanced'
<1> DEFINE m == IF Len(gated) < 3 * MaxNew THEN Len(gated) ELSE 3 * MaxNew
<1>1. IsFiniteSet(S)
  BY FS_Subset, DecisionAssumption
<1>2. /\ gated \in Seq(S) /\ Len(gated) \in Nat
      /\ \A i, j \in 1..Len(gated) : i # j => gated[i] # gated[j]
  BY <1>1, Arranged
<1>3. m \in 0..Len(gated)
  BY <1>2, DecisionAssumption
<1>4. /\ pc = "scan" /\ todo' = SubSeq(gated, 1, m) /\ sized' = sized /\ dropped' = dropped
      /\ prov' = prov /\ snaps' = snaps
      /\ pc' = IF gated = <<>> THEN "idle" ELSE "decide"
  BY DEF Gate
<1> HIDE DEF m
<1>5. Len(todo') = m /\ \A i \in 1..m : todo'[i] = gated[i]
  BY <1>2, <1>3, <1>4, Cut
<1>6. sized = <<>> /\ dropped = {} /\ \A s \in Sym : Stances(s) = {} /\ prov[s] = "none"
  BY <1>4, NothingDecided DEF Queues
<1>7. \A i, j \in 1..Len(todo') : i # j => todo'[i] # todo'[j]
  <2>1. \A i \in 1..m : i \in 1..Len(gated)
    BY <1>2, <1>3
  <2> QED
    BY <1>2, <1>5, <2>1
<1>8. gated = <<>> => todo' = <<>>
  <2> SUFFICES ASSUME gated = <<>> PROVE todo' = <<>>
    OBVIOUS
  <2>1. m = 0
    BY <1>3, EmptySeq
  <2>2. todo' \in Seq(S)
    BY <1>2, <1>3, <1>4, Cut
  <2> QED
    BY <1>5, <2>1, <2>2, EmptySeq
<1>9. Queues'
  <2>1. \A i, j \in 1..Len(sized') : i # j => sized'[i].sym # sized'[j].sym
    BY <1>4 DEF Queues
  <2>2. prov' \in [Sym -> Stages]
    BY <1>4 DEF Queues
  <2>3. pc' = "decide" \/ (pc' = "idle" /\ todo' = <<>>)
    BY <1>4, <1>8
  <2> QED
    BY <1>4, <1>6, <1>7, <2>1, <2>2, <2>3 DEF Queues
<1>10. ASSUME NEW s \in Sym PROVE Known(s)'
  <2>1. Stances(s)' = Stances(s) /\ ~Queued(s)'
    BY <1>4, <1>6, EmptySeq DEF Stances, Queued
  <2>2. Stances(s)' = {} /\ prov'[s] = "none" /\ s \notin dropped'
    BY <1>4, <1>6, <2>1
  <2>3. ~Reached(prov'[s], "output") /\ Cardinality(Stances(s)') = 0
    BY <2>2, ReachedOutput, FS_EmptySet DEF Stages
  <2> QED
    BY <2>1, <2>2, <2>3 DEF Known, Settled
<1> QED
  BY <1>9, <1>10 DEF Stanced

\* An exception while a candidate is prepared leaves the queues as they are.
LEMMA AbortKnown ==
  ASSUME LogTypes, Queues, CandidateAborts
  PROVE  Queues' /\ Stanced'
<1>1. /\ todo # <<>> /\ todo' = todo /\ sized' = sized /\ dropped' = dropped /\ pc' = "idle"
      /\ aborted' = TRUE /\ prov' = [prov EXCEPT ![Cand] = "thesis"]
  BY DEF CandidateAborts, Deciding, Note, Abort, funnel
<1>2. prov' \in [Sym -> Stages]
  BY <1>1, Beheaded DEF LogTypes, Queues, Cand, Stages
<1> QED
  BY <1>1, <1>2 DEF Queues, Stanced

\* Every step keeps the queues, and what is known of the symbols in them.
LEMMA QueuesStep == LogInv /\ Queues /\ Stanced /\ [Next]_vars => Queues' /\ Stanced'
<1> SUFFICES ASSUME LogInv, Queues, Stanced, [Next]_vars PROVE Queues' /\ Stanced'
  OBVIOUS
<1>t. LogTypes /\ Current
  BY DEF LogInv
<1>a. pc # "idle" => ~aborted /\ \A s \in Sym : Known(s)
  BY <1>t DEF Current, Stanced
<1>b. aborted \/ \A s \in Sym : Known(s)
  BY DEF Stanced
<1>1. ASSUME NEW out \in SUBSET held, SessionStart(out) PROVE Queues' /\ Stanced'
  BY <1>1, StartKnown
<1>2. CASE ScannedNothing
  <2>1. todo = <<>> /\ sized = <<>> /\ pc = "scan" /\ pc' = "idle" /\ aborted' = aborted
        /\ UNCHANGED <<funnel, prov, snaps>>
    BY <1>2 DEF ScannedNothing, Explain, Queues
  <2> QED
    BY <1>t, <1>a, <2>1, QueuesLeft
<1>3. ASSUME NEW S \in (SUBSET Sym) \ {{}}, NEW bad \in BOOLEAN, NEW n \in SUBSET S,
             NEW gated \in SetToSeqs(S \ n), Gate(n, gated, bad)
      PROVE  Queues' /\ Stanced'
  <2>1. S \ n \in SUBSET Sym /\ pc = "scan"
    BY <1>3 DEF Gate
  <2> QED
    BY <1>t, <1>a, <1>3, <2>1, GateKnown
<1>4. CASE Decide
  <2>0. pc = "decide"
    BY <1>4 DEF Decide, NoDecision, SellUnheld, NoOrder, SkepticVetoes, NoStopPlan, SizeRefused,
                Refuse, Size, CandidateAborts, Decided, Deciding
  <2>k. ~aborted /\ \A s \in Sym : Known(s)
    BY <1>a, <2>0
  <2>1. CASE NoDecision
    <3>1. /\ todo # <<>> /\ todo' = Tail(todo) /\ sized' = sized /\ dropped' = dropped
          /\ pc' = pc /\ aborted' = aborted /\ prov' = [prov EXCEPT ![Cand] = "opened"]
          /\ snaps' = snaps
      BY <2>1 DEF NoDecision, Deciding, Note, Explain, NextCand
    <3>2. "opened" \in Stages
      BY DEF Stages
    <3> QED
      BY <1>t, <2>0, <2>k, <3>1, <3>2, CandidateDone
  <2>2. CASE SellUnheld
    <3>1. /\ todo # <<>> /\ todo' = Tail(todo) /\ sized' = sized /\ dropped' = dropped
          /\ pc' = pc /\ aborted' = aborted /\ prov' = [prov EXCEPT ![Cand] = "output"]
          /\ snaps' = snaps \cup {<<Cand, "AVOID">>}
      BY <2>2 DEF SellUnheld, Deciding, Note, Explain, NextCand, RecordDecision
    <3>2. "output" \in Stages /\ "AVOID" \in Stance \ {"SELL"}
      BY DEF Stages, Stance
    <3> QED
      BY <1>t, <2>0, <2>k, <3>1, <3>2, CandidateDone
  <2>3. ASSUME NEW a \in Stance, NoOrder(a) PROVE Queues' /\ Stanced'
    <3>1. /\ todo # <<>> /\ todo' = Tail(todo) /\ sized' = sized /\ dropped' = dropped
          /\ pc' = pc /\ aborted' = aborted /\ prov' = [prov EXCEPT ![Cand] = "output"]
          /\ snaps' = snaps \cup {<<Cand, "NO_TRADE">>}
      BY <2>3 DEF NoOrder, Deciding, Note, result, NextCand, RecordDecision
    <3>2. "output" \in Stages /\ "NO_TRADE" \in Stance \ {"SELL"}
      BY DEF Stages, Stance
    <3> QED
      BY <1>t, <2>0, <2>k, <3>1, <3>2, CandidateDone
  <2>4. ASSUME NEW f \in {"skeptic", "thesis", "stop_plan"}, Refuse(f) PROVE Queues' /\ Stanced'
    <3>1. /\ todo # <<>> /\ todo' = Tail(todo) /\ sized' = sized /\ dropped' = dropped
          /\ pc' = pc /\ aborted' = aborted /\ prov' = [prov EXCEPT ![Cand] = f]
          /\ snaps' = snaps \cup {<<Cand, "AVOID">>}
      BY <2>4 DEF Refuse, Deciding, Note, Explain, NextCand, RecordDecision
    <3>2. f \in Stages /\ f \notin {"none", "opened"} /\ "AVOID" \in Stance \ {"SELL"}
      BY DEF Stages, Stance
    <3> QED
      BY <1>t, <2>0, <2>k, <3>1, <3>2, CandidateDone
  <2>5. CASE SkepticVetoes \/ NoStopPlan \/ SizeRefused
    BY <2>4, <2>5 DEF SkepticVetoes, NoStopPlan, SizeRefused
  <2>6. ASSUME NEW f \in FlawSets, Size(f) PROVE Queues' /\ Stanced'
    <3>1. /\ todo # <<>> /\ todo' = Tail(todo) /\ dropped' = dropped /\ snaps' = snaps
          /\ pc' = pc /\ aborted' = aborted /\ prov' = [prov EXCEPT ![Cand] = "position_size"]
          /\ sized' = Append(sized, [sym |-> Cand, flaws |-> f])
      BY <2>6 DEF Size, Deciding, Note, result, NextCand
    <3> QED
      BY <1>t, <2>0, <2>k, <3>1, CandidateSized
  <2>7. CASE CandidateAborts
    BY <1>t, <2>7, AbortKnown
  <2>8. CASE Decided
    <3>1. /\ todo = <<>> /\ UNCHANGED <<funnel, prov, snaps>>
          /\ (pc' = "allocate" \/ (pc' = "idle" /\ sized = <<>>))
      BY <2>8 DEF Decided
    <3> QED
      BY <1>t, <2>0, <2>k, <3>1, QueuesLeft
  <2> QED
    BY <1>4, <2>1, <2>2, <2>3, <2>5, <2>6, <2>7, <2>8 DEF Decide
<1>5. ASSUME NEW S \in SUBSET ToSet(sized), NEW rank \in SetToSeqs(S), Allocate(rank)
      PROVE  Queues' /\ Stanced'
  <2>1. pc = "allocate" /\ aborted' = aborted
    BY <1>5 DEF Allocate
  <2>2. ~aborted' /\ \A s \in Sym : Known(s)
    BY <1>a, <2>1
  <2> QED
    BY <1>t, <1>5, <2>2, AllocateKnown
<1>6. CASE Handle
  <2>0. pc \notin {"idle", "new"}
    BY <1>6 DEF Handle, AuditUnavailable, AuditRaises, AuditReview, AuditReject, RiskViewFails,
                RiskRejects, Approve, Audited, Handling, SubmitRaises, SubmitEnds, SubmitFills,
                FillsUnavailable, BookFills, StopPlaced, StopRefused, StopAborts, SessionEnds
  <2>k. ~aborted /\ \A s \in Sym : Known(s)
    BY <1>a, <2>0
  <2>1. ASSUME NEW a, AuditUnavailable(a) \/ AuditReview(a) \/ AuditReject(a) \/ RiskRejects(a)
        PROVE  Queues' /\ Stanced'
    <3>1. /\ pc = "orders" /\ pc' = "orders" /\ aborted' = aborted /\ sized # <<>>
          /\ sized' = Tail(sized) /\ todo' = todo /\ dropped' = dropped
          /\ snaps' = snaps \cup {<<Prop.sym, "AVOID">>}
          /\ (prov' = prov \/ prov' = [prov EXCEPT ![Prop.sym] = "risk_decision"])
      BY <2>1 DEF AuditUnavailable, AuditReview, AuditReject, RiskRejects, Audited, Handling,
                  Done, Explain, RecordDecision, Note
    <3> QED
      BY <1>t, <2>k, <3>1, ProposalDone
  <2>2. ASSUME pc' = "idle", aborted' = TRUE, UNCHANGED <<funnel, prov, snaps>>
        PROVE  Queues' /\ Stanced'
    BY <1>t, <2>0, <2>2, QueuesLeft
  <2>3. ASSUME NEW a, AuditRaises(a) \/ RiskViewFails(a) PROVE Queues' /\ Stanced'
    BY <2>2, <2>3 DEF AuditRaises, RiskViewFails, Abort
  <2>4. CASE SubmitRaises \/ FillsUnavailable \/ \E sent \in BOOLEAN : StopAborts(sent)
    BY <2>2, <2>4 DEF SubmitRaises, FillsUnavailable, StopAborts, Abort
  <2>5. ASSUME NEW a, Approve(a) PROVE Queues' /\ Stanced'
    <3>1. /\ pc = "orders" /\ pc' = "submit" /\ aborted' = aborted /\ sized # <<>>
          /\ sized' = sized /\ todo' = todo /\ dropped' = dropped
          /\ snaps' = snaps \cup {<<Prop.sym, "BUY">>}
          /\ prov' = [prov EXCEPT ![Prop.sym] = "risk_decision"]
      BY <2>5 DEF Approve, Audited, Handling, RecordDecision, Note, funnel, result
    <3> QED
      BY <1>t, <2>k, <3>1, ProposalApproved
  <2>6. ASSUME NEW st, SubmitEnds(st) PROVE Queues' /\ Stanced'
    <3>1. /\ pc = "submit" /\ pc' = "orders" /\ aborted' = aborted
          /\ sized' = Tail(sized) /\ todo' = todo /\ dropped' = dropped /\ snaps' = snaps
          /\ prov' = [prov EXCEPT ![Prop.sym] = "order_ref"]
      BY <2>6 DEF SubmitEnds, Note, Explain
    <3>2. sized # <<>>
      BY <1>t, <3>1 DEF Current
    <3> QED
      BY <1>t, <2>k, <3>1, <3>2, OrderGoesOn
  <2>7. ASSUME NEW st, SubmitFills(st) PROVE Queues' /\ Stanced'
    <3>1. /\ pc = "submit" /\ pc' = "fills" /\ aborted' = aborted
          /\ sized' = sized /\ todo' = todo /\ dropped' = dropped /\ snaps' = snaps
          /\ prov' = [prov EXCEPT ![Prop.sym] = "order_ref"]
      BY <2>7 DEF SubmitFills, Note, funnel, result
    <3>2. sized # <<>>
      BY <1>t, <3>1 DEF Current
    <3> QED
      BY <1>t, <2>k, <3>1, <3>2, OrderGoesOn
  <2>8. CASE BookFills
    <3>1. /\ pc = "fills" /\ pc' = "protect" /\ aborted' = aborted
          /\ sized' = Tail(sized) /\ todo' = todo /\ dropped' = dropped /\ snaps' = snaps
          /\ prov' = prov
      BY <2>8 DEF BookFills
    <3>2. sized # <<>>
      BY <1>t, <3>1 DEF Current
    <3> QED
      BY <1>t, <2>k, <3>1, <3>2, OrderGoesOn
  <2>9. CASE StopRefused \/ \E st \in {"ACKNOWLEDGED", "UNKNOWN"} : StopPlaced(st)
    <3>1. pc = "protect" /\ pc' = "orders" /\ UNCHANGED <<funnel, prov, snaps>>
      BY <2>9 DEF StopRefused, StopPlaced
    <3> QED
      BY <1>t, <2>k, <3>1, QueuesLeft
  <2>10. CASE SessionEnds
    <3>1. /\ pc = "orders" /\ pc' = "idle" /\ sized = <<>> /\ UNCHANGED <<funnel, prov, snaps>>
          /\ todo = <<>>
      BY <2>10 DEF SessionEnds, Queues
    <3> QED
      BY <1>t, <2>k, <3>1, QueuesLeft
  <2> QED
    BY <1>6, <2>1, <2>3, <2>4, <2>5, <2>6, <2>7, <2>8, <2>9, <2>10 DEF Handle
<1>7. ASSUME NEW n, NEW r, ResolveReview(n, r) PROVE Queues' /\ Stanced'
  <2>1. pc' = pc /\ aborted' = aborted /\ UNCHANGED <<funnel, prov, snaps>>
    BY <1>7 DEF ResolveReview, result
  <2> QED
    BY <1>t, <1>b, <2>1, QueuesLeft
<1>8. CASE UNCHANGED vars
  <2>1. pc' = pc /\ aborted' = aborted /\ UNCHANGED <<funnel, prov, snaps>>
    BY <1>8 DEF vars, result
  <2> QED
    BY <1>t, <1>b, <2>1, QueuesLeft
<1> QED
  BY <1>1, <1>2, <1>3, <1>4, <1>5, <1>6, <1>7, <1>8 DEF Next

\* The accounts of a program that has run no session.
LEMMA AccountInit == Init => AccountInv
<1> SUFFICES ASSUME Init PROVE AccountInv
  OBVIOUS
<1>1. /\ pc = "new" /\ todo = <<>> /\ sized = <<>> /\ dropped = {} /\ log = <<>>
      /\ prov = [s \in Sym |-> "none"] /\ snaps = {} /\ aborted = FALSE
      /\ Len(todo) = 0 /\ Len(sized) = 0 /\ Len(log) = 0
  BY EmptySeq DEF Init
<1>2. Reasons
  BY <1>1 DEF Reasons, Init
<1>3. Attempts
  BY <1>1 DEF Attempts, Init
<1>4. Queues
  BY <1>1 DEF Queues, Stages
<1>5. ASSUME NEW s \in Sym PROVE Known(s)
  <2>1. Stances(s) = {} /\ ~Waiting(s) /\ ~Queued(s) /\ prov[s] = "none"
    BY <1>1 DEF Stances, Waiting, Queued
  <2>2. ~Reached(prov[s], "output") /\ Cardinality(Stances(s)) = 0
    BY <2>1, ReachedOutput, FS_EmptySet DEF Stages
  <2> QED
    BY <1>1, <2>1, <2>2 DEF Known, Settled
<1> QED
  BY <1>2, <1>3, <1>4, <1>5 DEF AccountInv, Stanced

\* The accounts are kept through every session, whatever the models answer.
THEOREM AccountsInvariant == Spec => [](LogInv /\ AccountInv)
<1>1. LogInv /\ AccountInv /\ [Next]_vars => LogInv' /\ AccountInv'
  BY LogStep, ReasonsStep, AttemptsStep, QueuesStep DEF AccountInv
<1> QED
  BY <1>1, LogInit, AccountInit, PTL DEF Spec

\* What the accounts say of a session that has returned.
LEMMA AccountsAddUp == LogInv /\ AccountInv => NothingUnaccounted
<1> SUFFICES ASSUME LogInv, AccountInv PROVE NothingUnaccounted
  OBVIOUS
<1>1. AccountedFor
  BY DEF AccountInv, Reasons, AccountedFor, Ended, Over
<1>2. ASSUME Ended, NEW s \in Sym
      PROVE  Cardinality(Stances(s)) =
               IF Reached(prov[s], "output") /\ s \notin dropped THEN 1 ELSE 0
  <2>1. todo = <<>> /\ sized = <<>> /\ Known(s)
    BY <1>2 DEF AccountInv, Queues, Stanced, Ended, Over
  <2>2. ~Waiting(s) /\ ~Queued(s)
    BY <2>1, EmptySeq DEF Waiting, Queued
  <2>3. CASE s \in dropped
    BY <2>1, <2>3, FS_EmptySet DEF Known
  <2>4. CASE s \notin dropped
    BY <2>1, <2>2, <2>4 DEF Known, Settled
  <2> QED
    BY <2>3, <2>4
<1>3. DOMAIN log = 1..Len(log)
  BY LenProperties DEF LogInv, LogTypes
<1>4. AttemptsAddUp
  BY <1>3 DEF AccountInv, Attempts, AttemptsAddUp, Ended
<1> QED
  BY <1>1, <1>2, <1>4 DEF NothingUnaccounted, OneStance

\* Section 93, A1-1 and A6: a session that returns has traded or says why not, every
\* decision has exactly one stance, and every attempt to enter was sent, is in the human
\* review queue or is a near miss, exactly one of the three.
THEOREM EverythingIsAccounted == Spec => []NothingUnaccounted
BY AccountsInvariant, AccountsAddUp, PTL
=============================================================================
