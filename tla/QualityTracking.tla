--------------------------- MODULE QualityTracking ---------------------------
(***************************************************************************)
(* What happened after a decision: the deterministic market's memoized     *)
(* price walk (services/market_data/service.py), the horizon observations  *)
(* and the grade of a decision (pdca/decision_quality.py), the grade of a  *)
(* stop-out (pdca/post_trade.py) and of a forecast (decision/forecast.py). *)
(*                                                                         *)
(* Who asks when is free: tracking, stop grading and forecast resolution   *)
(* run at any time after the decision, as often or as seldom as callers    *)
(* like, and quotes are asked for any day in any order.  What is recorded  *)
(* must depend on the price path only.                                     *)
(*                                                                         *)
(* Time is in days; returns are price differences to the reference price   *)
(* (a positive factor common to all of one decision's).  Process facts and *)
(* scores are left out but for the side of 50 the outcome score is on.     *)
(***************************************************************************)
EXTENDS Integers, Sequences, FiniteSets, FiniteSetsExt

CONSTANTS
  Base, Floor,  \* the price at the epoch (day 0), the least price
  Steps,        \* daily moves
  Day,          \* when the decision, the stop-out and the forecast are made
  After,        \* days until each horizon
  Track,        \* labels of TRACK_HORIZONS (and of post_trade.HORIZONS)
  Extended,     \* labels of EXTENDED_HORIZONS
  Order,        \* the labels in the order of the two dictionaries, "expected" last
  Thr,          \* good_threshold and bad_threshold, as a price difference
  Index         \* benchmark returns, as price differences

ASSUME QualityAssumption ==
  /\ Base \in Nat \ {0} /\ Floor \in Nat \ {0} /\ Thr \in Nat \ {0} /\ Day \in Nat
  /\ Steps \subseteq Int /\ Index \subseteq Int
  /\ Track \cup Extended = DOMAIN After /\ "1w" \in Track /\ "expected" \notin DOMAIN After
  /\ \A h \in DOMAIN After : After[h] \in Nat
  /\ \A t \in Track, e \in Extended : After[t] < After[e]
  /\ \A t \in Track : After[t] <= After["1w"]
  /\ Len(Order) > 1 /\ Order \in Seq(DOMAIN After \cup {"expected"})
  /\ \A h \in DOMAIN After \cup {"expected"} : \E k \in 1..Len(Order) : Order[k] = h
  /\ \A k \in 1..Len(Order) : Order[k] = "expected" <=> k = Len(Order)
  /\ \A j, k \in 1..Len(Order) - 1 : j < k => After[Order[j]] < After[Order[k]]

LastDay == Day + After[Order[Len(Order) - 1]]
Kind == {"BUY", "SELL", "WAIT"}

VARIABLES
  move,    \* _daily_return of each day
  walk,    \* MockProvider._walk: the days walked so far
  now,     \* the clock
  snap,    \* the decision's snapshot, or NoSnap
  index,   \* benchmark_ret of its windows
  obs,     \* DecisionEvaluation.observations
  eval,    \* outcome class, avoidance label, side of the score
  later,   \* TrackedExit.later_prices
  grade,   \* TrackedExit.grade
  forecast \* [targets, case, price]: a Forecast

qvars == <<move, walk, now, snap, index, obs, eval, later, grade, forecast>>

NoSnap  == [kind |-> "none", expected |-> "none", ref |-> 0]
Pending == [class |-> "PENDING", label |-> "none", score |-> 0]
Empty   == [x \in {} |-> 0]

-----------------------------------------------------------------------------
Larger(a, b) == IF a > b THEN a ELSE b
Dist(a, b) == IF a > b THEN a - b ELSE b - a

\* Fault-injected variant: the walk restarts from the base price.
WalkFromBase(d) ==
  [k \in 0..Larger(d, Max(DOMAIN walk)) |->
     IF k \in DOMAIN walk THEN walk[k] ELSE Larger(Floor, Base + move[k])]

\* _price_at: what the memo holds once day d has been asked for; the walk goes on
\* from the last day it knows.
WalkOn(known) ==
  LET on[k \in 0..LastDay] ==
        IF k = 0 THEN Base
        ELSE IF k <= known THEN walk[k] ELSE Larger(Floor, on[k - 1] + move[k])
  IN  on
WalkTo(d) ==
  LET known == Max(DOMAIN walk) IN [k \in 0..Larger(d, known) |-> WalkOn(known)[k]]

\* get_quote(at).mid by anyone (the risk view, a mark, the dashboard)
GetQuote(d) ==
  walk' = WalkTo(d) /\ UNCHANGED <<move, now, snap, index, obs, eval, later, grade, forecast>>

Tick ==
  /\ now < LastDay /\ now' = now + 1
  /\ UNCHANGED <<move, walk, snap, index, obs, eval, later, grade, forecast>>

-----------------------------------------------------------------------------
\* Fault-injected variant: recording the same decision again opens its evaluation
\* again.
RecordAfresh(k, e) ==
  LET w == WalkTo(Day)
      s == [kind |-> k, expected |-> e, ref |-> w[Day]]
  IN  /\ walk' = w /\ now >= Day /\ (snap = NoSnap => now = Day)
      /\ IF snap \in {NoSnap, s} THEN snap' = s /\ obs' = Empty /\ eval' = Pending
                                 ELSE UNCHANGED <<snap, obs, eval>>
      /\ UNCHANGED <<move, now, index, later, grade, forecast>>

\* record, with the price of the day as reference: other content under the same
\* id raises, the same content is a no-op.
Record(k, e) ==
  LET w == WalkTo(Day)
      s == [kind |-> k, expected |-> e, ref |-> w[Day]]
  IN  /\ walk' = w /\ now >= Day /\ (snap = NoSnap => now = Day)
      /\ IF snap = NoSnap THEN snap' = s /\ obs' = Empty /\ eval' = Pending
                          ELSE UNCHANGED <<snap, obs, eval>>
      /\ UNCHANGED <<move, now, index, later, grade, forecast>>

Direction(k) == CASE k \in {"BUY", "HOLD"} -> 1 [] k = "SELL" -> -1 [] OTHER -> 0

\* The horizons one call looks at; "expected" comes last.
Targets(s, ext) ==
  Track \cup (IF ext THEN Extended ELSE {})
        \cup (IF s.expected \in DOMAIN After THEN {"expected"} ELSE {})
DueOf(s, h) == Day + After[IF h = "expected" THEN s.expected ELSE h]

\* Fault-injected variant: every observation already there is prior.
AnyPrior(o, due) == DOMAIN o

Prior(o, due) == {h \in DOMAIN o : o[h].at <= due}

\* One observation: excursions are those of the stance up to this horizon.
Observe(s, o, h, px) ==
  LET due    == DueOf(s, h)
      signed == (px - s.ref) * (IF Direction(s.kind) = 0 THEN 1 ELSE Direction(s.kind))
      prior  == Prior(o, due)
  IN  [price |-> px, ret |-> px - s.ref, at |-> due,
       mae |-> Min({signed} \cup (IF prior = {} THEN {0} ELSE {o[p].mae : p \in prior})),
       mfe |-> Max({signed} \cup (IF prior = {} THEN {0} ELSE {o[p].mfe : p \in prior}))]

\* The loop of track, as far as label k: those in `hs' are due.
With(o, h, v) == [x \in DOMAIN o \cup {h} |-> IF x = h THEN v ELSE o[x]]
Observed(s, o, h, hs, w) ==
  IF h \in hs THEN With(o, h, Observe(s, o, h, w[DueOf(s, h)])) ELSE o
ObserveLoop(s, o, hs, w) ==
  LET after[k \in 0..Len(Order)] ==
        IF k = 0 THEN o ELSE Observed(s, after[k - 1], Order[k], hs, w)
  IN  after
ObserveAll(s, o, hs, w) == ObserveLoop(s, o, hs, w)[Len(Order)]

KeyOf(o) == IF "expected" \in DOMAIN o THEN "expected" ELSE "1w"

\* Fault-injected variant: the class is taken from the raw return.
EvaluateRaw(s, o, e) ==
  LET d == Direction(s.kind)
      r == o[KeyOf(o)].ret
      a == r * d - index * d
  IN  IF KeyOf(o) \notin DOMAIN o THEN [class |-> "PENDING", label |-> e.label, score |-> e.score]
      ELSE [class |-> IF r * d >= Thr THEN "GOOD" ELSE IF r * d <= -Thr THEN "BAD" ELSE "MIXED",
            label |-> e.label, score |-> a]

\* _evaluate: against the benchmark for a stance, by what was avoided otherwise.
\* The avoidance label is only ever set, never cleared.
Evaluate(s, o, e) ==
  LET d == Direction(s.kind)
      r == o[KeyOf(o)].ret
      a == r * d - index * d
  IN  IF KeyOf(o) \notin DOMAIN o THEN [class |-> "PENDING", label |-> e.label, score |-> e.score]
      ELSE IF d # 0
      THEN [class |-> IF a >= Thr THEN "GOOD" ELSE IF a <= -Thr THEN "BAD" ELSE "MIXED",
            label |-> e.label, score |-> a]
      ELSE [class |-> IF r <= -Thr THEN "GOOD" ELSE "MIXED",
            label |-> IF r <= -Thr THEN "GOOD_AVOIDANCE"
                      ELSE IF r >= Thr THEN "MISSED_OPPORTUNITY" ELSE e.label,
            score |-> IF r <= -Thr \/ r >= Thr THEN -r ELSE 0]

\* track(now, price_fn, include_extended) of the only decision
TrackDecision(ext) ==
  LET due == {h \in Targets(snap, ext) \ DOMAIN obs : DueOf(snap, h) <= now}
      w   == WalkTo(Max({0} \cup {DueOf(snap, h) : h \in due}))
  IN  /\ snap # NoSnap
      /\ walk' = w
      /\ obs'  = ObserveAll(snap, obs, due, w)
      /\ eval' = Evaluate(snap, obs', eval)
      /\ UNCHANGED <<move, now, snap, index, later, grade, forecast>>

-----------------------------------------------------------------------------
\* Fault-injected variant: graded by the first price known.
StopGradeFirst(px, prices) ==
  LET first == CHOOSE h \in DOMAIN prices : \A g \in DOMAIN prices : After[h] <= After[g]
      m     == (prices[first] - px) * 100
  IN  IF m <= -3 * px THEN "GOOD_STOP" ELSE IF m >= 3 * px THEN "EARLY_STOP" ELSE "NEUTRAL"

\* By the price one week after the exit.
StopGrade(px, prices) ==
  LET m == (prices["1w"] - px) * 100
  IN  IF m <= -3 * px THEN "GOOD_STOP" ELSE IF m >= 3 * px THEN "EARLY_STOP" ELSE "NEUTRAL"

\* PostTradeTracker.evaluate for an exit on Day at the price of that day
EvaluateStop ==
  LET due == {h \in Track \ DOMAIN later : Day + After[h] <= now}
      w   == WalkTo(Max({0} \cup {Day + After[h] : h \in due}))
  IN  /\ now >= Day /\ walk' = w
      /\ later' = [h \in DOMAIN later \cup due |->
                     IF h \in due THEN w[Day + After[h]] ELSE later[h]]
      /\ grade' = IF grade = "none" /\ "1w" \in DOMAIN later'
                  THEN StopGrade(w[Day], later') ELSE grade
      /\ UNCHANGED <<move, now, snap, index, obs, eval, forecast>>

\* resolve_due: the scenario nearest to the price when it is due, once.
ResolveDue ==
  LET due == Day + After["1w"]
      w   == WalkTo(due)
      best(c) == \A k \in {"bear", "base", "bull"} :
                   Dist(forecast.targets[c], w[due]) <= Dist(forecast.targets[k], w[due])
  IN  /\ forecast.case = "none" /\ due <= now
      /\ walk' = w
      /\ forecast' = [targets |-> forecast.targets, price |-> w[due],
                      case |-> IF best("bear") THEN "bear" ELSE IF best("base") THEN "base" ELSE "bull"]
      /\ UNCHANGED <<move, now, snap, index, obs, eval, later, grade>>

-----------------------------------------------------------------------------
QInit ==
  /\ move \in [1..LastDay -> Steps] /\ index \in Index
  /\ walk = [d \in {0} |-> Base] /\ now = Day
  /\ snap = NoSnap /\ obs = Empty /\ eval = Pending
  /\ later = Empty /\ grade = "none"
  /\ forecast = [targets |-> [bear |-> Base - 1, base |-> Base, bull |-> Base + 2],
                 case |-> "none", price |-> 0]

QNext ==
  \/ Tick
  \/ \E d \in 1..LastDay : GetQuote(d)
  \/ \E k \in Kind, e \in DOMAIN After \cup {"none"} : Record(k, e)
  \/ \E ext \in BOOLEAN : TrackDecision(ext)
  \/ EvaluateStop \/ ResolveDue

QSpec == QInit /\ [][QNext]_qvars

-----------------------------------------------------------------------------
\* The price of a day by the path alone.
PriceOf == LET p[d \in 0..LastDay] == IF d = 0 THEN Base ELSE Larger(Floor, p[d - 1] + move[d])
           IN  p

\* The comment at _WALK_EPOCH_ORD: a price is a function of the day, never of who
\* asked for what before; here, of no order of quotes, tracking and grading.
PriceIsOfTheDay == \A d \in DOMAIN walk : walk[d] = PriceOf[d]

\* A1-5, no look-ahead: whatever the schedule of the calls, an observation has the
\* price of its due day, and its excursions are those of the horizons up to that
\* day: exactly these within the week, and beyond it at least the week's and its
\* own (the extended ones in between count when they were asked for first).
NoLookAhead ==
  LET dir     == IF Direction(snap.kind) = 0 THEN 1 ELSE Direction(snap.kind)
      Exc(hs) == {0} \cup {dir * (PriceOf[Day + After[h]] - snap.ref) : h \in hs}
  IN  \A h \in DOMAIN obs :
        LET own  == IF h = "expected" THEN snap.expected ELSE h
            all  == {x \in DOMAIN After : After[x] <= After[own]}
            sure == (all \cap Track) \cup {own}
        IN  /\ obs[h].price = PriceOf[Day + After[own]]
            /\ (\E x \in Exc(all) : x <= obs[h].mae) /\ (\A x \in Exc(sure) : obs[h].mae <= x)
            /\ (\E x \in Exc(all) : obs[h].mfe <= x) /\ (\A x \in Exc(sure) : x <= obs[h].mfe)

\* A1-3 to A1-5: a decision is pending until its expected horizon or the week is
\* observed; its class is then that of the path at the expected horizon if that is
\* observed, else at the week, and the score is on the same side.  An avoidance
\* label is that of the grade, or a left-over of the week's.
GradeOfKey ==
  LET key   == IF "expected" \in DOMAIN obs THEN snap.expected ELSE "1w"
      r(h)  == PriceOf[Day + After[h]] - snap.ref
      d     == Direction(snap.kind)
      gain  == IF d = 0 THEN -r(key) ELSE d * (r(key) - index)
      L(h)  == IF r(h) <= -Thr THEN "GOOD_AVOIDANCE"
               ELSE IF r(h) >= Thr THEN "MISSED_OPPORTUNITY" ELSE "none"
  IN  /\ eval.class = "PENDING" <=> DOMAIN obs \cap {"expected", "1w"} = {}
      /\ eval.class = "GOOD" <=> eval.class # "PENDING" /\ gain >= Thr
      /\ eval.class = "BAD"  <=> eval.class # "PENDING" /\ d # 0 /\ gain <= -Thr
      /\ eval.class = "GOOD" => eval.score > 0
      /\ eval.class = "BAD"  => eval.score < 0
      /\ eval.class # "PENDING" /\ d = 0 =>
           \/ eval.label = L(key)
           \/ L(key) = "none" /\ key \in Extended /\ eval.label = L("1w")

\* A stop-out's grade and a forecast's case are those of the price a week on, however
\* late or often they are graded; a stop is graded as soon as the week is known.
VerdictsOfTheWeek ==
  LET px == PriceOf[Day]
      m  == (PriceOf[Day + After["1w"]] - px) * 100
  IN  /\ grade # "none" <=> "1w" \in DOMAIN later
      /\ grade = "GOOD_STOP"  => m <= -3 * px
      /\ grade = "EARLY_STOP" => m >= 3 * px
      /\ grade = "NEUTRAL"    => m > -3 * px /\ m < 3 * px
      /\ forecast.case # "none" => forecast.price = PriceOf[Day + After["1w"]]

\* What is recorded depends on the price path only: prices, observations, grades
\* and verdicts are the same whoever called what when.
VerdictsOfThePath == PriceIsOfTheDay /\ NoLookAhead /\ GradeOfKey /\ VerdictsOfTheWeek

\* INV-21: an observation, once made, is neither lost nor changed, and the decision
\* it is about stays what it was.
ObservationsKept ==
  [][/\ \A h \in DOMAIN obs : h \in DOMAIN obs' /\ obs'[h] = obs[h]
     /\ snap # NoSnap => snap' = snap]_qvars

=============================================================================
