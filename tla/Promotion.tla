------------------------------ MODULE Promotion ------------------------------
(***************************************************************************)
(* What may reach production, and what has to happen first:                *)
(* the lifecycle of a feature (services/feature_manager/store.py), an exit *)
(* proposal and its experiment (pdca/exit_optimizer.py,                    *)
(* packages/common/experiments.py), champion and challenger and the judge  *)
(* of alphas (services/alpha_factory/factory.py), and the windows the      *)
(* judge tests on (packages/strategy_sdk/validation.py).                   *)
(*                                                                         *)
(* The state machines are independent and share a module because they      *)
(* answer one question.  A contribution is a small integer; a demotion     *)
(* compares its sum over the window with zero (demote_below = 0).          *)
(***************************************************************************)
EXTENDS Integers, FiniteSets, Sequences

CONSTANTS
  Window,       \* evaluate_drift's window
  Contrib,      \* contributions a feature may be credited with
  MaxContrib,   \* bound: contributions recorded
  MaxTouch,     \* bound: promotions and revivals
  Alphas,       \* alphas in shadow
  MinShadow,    \* min_shadow_sessions
  Returns,      \* returns of a shadow session
  MaxShadow,    \* bound: shadow sessions of an alpha
  People,       \* who may approve; "nobody" is the empty string
  Bars,         \* lengths of the bar series given to the judge
  MinTrades     \* MIN_SAMPLE_TRADES

ASSUME PromotionAssumption ==
  /\ Window \in Nat \ {0} /\ MinShadow \in Nat \ {0}
  /\ Contrib \subseteq Int /\ Returns \subseteq Int
  /\ Bars \subseteq Nat /\ MinTrades \in Nat \ 0..5

VARIABLES
  feature,  \* FeatureMeta: [status, hist, demotedAt] and counts of what befell it
  proposal, \* ExitProposal: [stage, evidence]
  exp,      \* its Experiment: [decision, by, result], and loose: see Decide
  champion, \* ChampionChallenger.champion, or "none"
  shadow,   \* shadow_results
  verdict   \* the last JudgeVerdict, with the windows it was based on

pvars == <<feature, proposal, exp, champion, shadow, verdict>>

Status == <<"ACTIVE", "REDUCED", "SHADOW", "DORMANT">>
Stages == <<"RESEARCH", "BACKTEST", "WALK_FORWARD", "SHADOW", "JUDGED", "PROMOTED">>
Rank(order, x) == CHOOSE i \in DOMAIN order : order[i] = x
Sums(s) ==
  LET sum[i \in 0..Len(s)] == IF i = 0 THEN 0 ELSE sum[i - 1] + s[i] IN sum
SumOf(s) == Sums(s)[Len(s)]

-----------------------------------------------------------------------------
\* Features.  `drops' counts demotions, `lifts' what promote and revive did.
Feature(status, hist, at, drops, lifts) ==
  [status |-> status, hist |-> hist, demotedAt |-> at, drops |-> drops, lifts |-> lifts]
NewFeature == Feature("SHADOW", <<>>, 0, 0, 0)

\* register, again too and with any status: the history starts anew.
RegisterFeature(status) ==
  /\ feature' = Feature(status, <<>>, 0, 0, 0)
  /\ UNCHANGED <<proposal, exp, champion, shadow, verdict>>

Demotable(m) == m.status \notin {"DORMANT", "RETIRED"}

\* One step down, after n contributions.
Demoted(n) ==
  Feature(Status[Rank(Status, feature.status) + 1], feature.hist, n, feature.drops + 1,
          feature.lifts)

RecordContribution(c) ==
  /\ Len(feature.hist) < MaxContrib
  /\ feature' = Feature(feature.status, Append(feature.hist, c), feature.demotedAt,
                        feature.drops, feature.lifts)
  /\ UNCHANGED <<proposal, exp, champion, shadow, verdict>>

\* Fault-injected variant: the same window may demote again and again.
EvaluateDriftStale ==
  LET n == Len(feature.hist)
      w == SubSeq(feature.hist, n - Window + 1, n)
  IN  /\ n >= Window /\ Demotable(feature) /\ SumOf(w) < 0
      /\ feature' = Demoted(n)
      /\ UNCHANGED <<proposal, exp, champion, shadow, verdict>>

\* evaluate_drift: one step down for a window of contributions since the last step.
EvaluateDrift ==
  LET n == Len(feature.hist)
      w == SubSeq(feature.hist, n - Window + 1, n)
  IN  /\ n >= Window /\ Demotable(feature)
      /\ n - feature.demotedAt >= Window
      /\ SumOf(w) < 0
      /\ feature' = Demoted(n)
      /\ UNCHANGED <<proposal, exp, champion, shadow, verdict>>

\* promote to any status, whatever the present one: it is what retire calls, too.
Promote(to) ==
  /\ feature.lifts < MaxTouch
  /\ feature' = Feature(to, feature.hist, feature.demotedAt, feature.drops, feature.lifts + 1)
  /\ UNCHANGED <<proposal, exp, champion, shadow, verdict>>

\* retire raises unless a human approved.
Retire(approved) ==
  /\ approved
  /\ feature' = Feature("RETIRED", feature.hist, feature.demotedAt, feature.drops, feature.lifts)
  /\ UNCHANGED <<proposal, exp, champion, shadow, verdict>>

Revive == feature.status = "DORMANT" /\ Promote("SHADOW")

-----------------------------------------------------------------------------
Proposal(stage, evidence) == [stage |-> stage, evidence |-> evidence]
Experiment(decision, by, result, loose) ==
  [decision |-> decision, by |-> by, result |-> result, loose |-> loose]

\* Exit proposals.  decide raises for an ADOPT without an approver or a result.
Decidable(decision, by, result) == decision = "ADOPT" => by # "nobody" /\ result

\* advance: evidence is noted before the last step is refused.
Advance ==
  /\ proposal.stage \notin {"none", "PROMOTED", "REJECTED"}
  /\ LET next == Stages[Rank(Stages, proposal.stage) + 1]
     IN  proposal' = Proposal(IF next = "PROMOTED" THEN proposal.stage ELSE next,
                              proposal.evidence \cup {proposal.stage})
  /\ UNCHANGED <<feature, exp, champion, shadow, verdict>>

Propose ==
  /\ proposal.stage = "none"
  /\ proposal' = Proposal("RESEARCH", {})
  /\ exp' = Experiment("PENDING", "nobody", FALSE, FALSE)
  /\ UNCHANGED <<feature, champion, shadow, verdict>>

\* Fault-injected variant: the proposal is moved before decide may raise.
PromoteProposalEarly(by, result) ==
  /\ proposal.stage = "JUDGED"
  /\ exp' = IF Decidable("ADOPT", by, result)
            THEN Experiment("ADOPT", by, TRUE, exp.loose)
            ELSE Experiment(exp.decision, exp.by, result, exp.loose)
  /\ proposal' = Proposal("PROMOTED", proposal.evidence)
  /\ UNCHANGED <<feature, champion, shadow, verdict>>

\* promote from JUDGED: the result is recorded, then decide may raise, and only
\* then the stage changes.
PromoteProposal(by, result) ==
  LET ok == Decidable("ADOPT", by, result)
  IN  /\ proposal.stage = "JUDGED"
      /\ exp' = IF ok THEN Experiment("ADOPT", by, TRUE, exp.loose)
                      ELSE Experiment(exp.decision, exp.by, result, exp.loose)
      /\ proposal' = IF ok THEN Proposal("PROMOTED", proposal.evidence) ELSE proposal
      /\ UNCHANGED <<feature, champion, shadow, verdict>>

\* reject, from any stage.
RejectProposal ==
  /\ proposal.stage # "none"
  /\ proposal' = Proposal("REJECTED", proposal.evidence)
  /\ exp' = Experiment("REJECT", "optimizer", TRUE, exp.loose)
  /\ UNCHANGED <<feature, champion, shadow, verdict>>

\* ExperimentRegistry.decide by whoever holds the registry, past the optimizer: an
\* adoption has its two conditions, anything else none.  `loose' records such a call.
Decide(decision, by) ==
  /\ exp.decision # "none" /\ Decidable(decision, by, exp.result)
  /\ exp' = Experiment(decision, by, exp.result, TRUE)
  /\ UNCHANGED <<feature, proposal, champion, shadow, verdict>>

-----------------------------------------------------------------------------
\* Champion and challenger.  Means are compared by cross-multiplication; a
\* champion without sessions has mean zero.
MeanAbove(a, b) ==
  IF b = <<>> THEN SumOf(a) > 0 ELSE SumOf(a) * Len(b) > SumOf(b) * Len(a)

RecordShadow(a, r) ==
  /\ Len(shadow[a]) < MaxShadow
  /\ shadow' = [shadow EXCEPT ![a] = Append(@, r)]
  /\ UNCHANGED <<feature, proposal, exp, champion, verdict>>

\* Fault-injected variant: the first alpha with a gain becomes champion at once.
ConsiderPromotionEarly(a) ==
  /\ shadow[a] # <<>>
  /\ MeanAbove(shadow[a], IF champion = "none" THEN <<>> ELSE shadow[champion])
  /\ champion' = a
  /\ UNCHANGED <<feature, proposal, exp, shadow, verdict>>

ConsiderPromotion(a) ==
  /\ Len(shadow[a]) >= MinShadow
  /\ MeanAbove(shadow[a], IF champion = "none" THEN <<>> ELSE shadow[champion])
  /\ champion' = a
  /\ UNCHANGED <<feature, proposal, exp, shadow, verdict>>

-----------------------------------------------------------------------------
\* Windows found so far, half-open ranges of bars, and where the next one starts.
Walk(start, windows) == [start |-> start, windows |-> windows]
WindowAt(s, train, test, embargo) ==
  [train |-> <<s, s + train>>, test |-> <<s + train + embargo, s + train + embargo + test>>]

\* Fault-injected variant: the windows move on by less than a test.
RollOverlapping(acc, n, train, test, embargo) ==
  IF acc.start + train + embargo + test > n THEN acc
  ELSE Walk(acc.start + 1, Append(acc.windows, WindowAt(acc.start, train, test, embargo)))

\* The loop of walk_forward_windows.
Roll(acc, n, train, test, embargo) ==
  IF acc.start + train + embargo + test > n THEN acc
  ELSE Walk(acc.start + test, Append(acc.windows, WindowAt(acc.start, train, test, embargo)))

\* walk_forward_windows: the start moves on by at least one, so that n rounds are
\* enough.
Rolls(n, train, test, embargo) ==
  LET acc[i \in 0..n] ==
        IF i = 0 THEN Walk(0, <<>>) ELSE Roll(acc[i - 1], n, train, test, embargo)
  IN  acc
WalkForwardWindows(n, train, test, embargo) == Rolls(n, train, test, embargo)[n].windows

\* AlphaJudge.judge of n bars: a sample too small, a loss, a loss out of sample or
\* luck ends it, in this order; the best it can say is PROMOTE_RECOMMENDED.
Judge(n, trades, gain, oosGain, lucky) ==
  LET says(stage, r, w) == [bars |-> n, stage |-> stage, says |-> r, windows |-> w]
      w == WalkForwardWindows(n, n \div 3, n \div 6, 2)
  IN  verdict' =
        IF trades < MinTrades THEN says("REJECTED", "RESEARCH_MORE", <<>>)
        ELSE IF ~gain THEN says("REJECTED", "REJECT", <<>>)
        ELSE IF ~oosGain THEN says("REJECTED", "REJECT", w)
        ELSE IF lucky THEN says("REJECTED", "DORMANT", w)
        ELSE says("SHADOW", "PROMOTE_RECOMMENDED", w)

\* A series has no more trades than bars.
JudgeAlpha ==
  /\ \E n \in Bars, trades \in {MinTrades - 1, MinTrades}, g, o, l \in BOOLEAN :
       trades <= n /\ Judge(n, trades, g, o, l)
  /\ UNCHANGED <<feature, proposal, exp, champion, shadow>>

-----------------------------------------------------------------------------
PInit ==
  /\ feature = NewFeature
  /\ proposal = Proposal("none", {})
  /\ exp = Experiment("none", "nobody", FALSE, FALSE)
  /\ champion = "none" /\ shadow = [a \in Alphas |-> <<>>]
  /\ verdict = [bars |-> 0, stage |-> "none", says |-> "none", windows |-> <<>>]

FeatureNext ==
  \/ \E c \in Contrib : RecordContribution(c)
  \/ EvaluateDrift \/ Revive
  \/ \E st \in {Status[i] : i \in DOMAIN Status} \cup {"RETIRED"} : Promote(st) \/ RegisterFeature(st)
  \/ \E h \in BOOLEAN : Retire(h)

ProposalNext ==
  \/ Propose \/ Advance \/ RejectProposal
  \/ \E by \in People, r \in BOOLEAN : PromoteProposal(by, r)
  \/ \E d \in {"PENDING", "ADOPT", "REJECT", "ROLLED_BACK"}, by \in People : Decide(d, by)

ShadowNext ==
  \/ \E a \in Alphas, r \in Returns : RecordShadow(a, r)
  \/ \E a \in Alphas : ConsiderPromotion(a)

PromotionNext == FeatureNext \/ ProposalNext \/ ShadowNext \/ JudgeAlpha

PromotionSpec == PInit /\ [][PromotionNext]_pvars

-----------------------------------------------------------------------------
\* Section 61: however often evaluate_drift is called, and whatever promotions and
\* revivals come between, every step down is paid for by a window of contributions
\* of its own.
DemotionsAreEarned == feature.drops * Window <= Len(feature.hist)

\* Sections 52 and 106: a PROMOTED proposal has evidence for every stage and a result on
\* record, whoever decides what about its experiment later; an adoption names its
\* approver; and as long as nobody decides past the optimizer, adopted and PROMOTED are
\* the same thing, also when decide has raised before.
PromotionIsApproved ==
  /\ exp.decision = "ADOPT" => exp.by # "nobody"
  /\ proposal.stage = "PROMOTED" => {Stages[i] : i \in 1..4} \subseteq proposal.evidence /\ exp.result
  /\ exp.loose \/ (exp.decision = "ADOPT" <=> proposal.stage = "PROMOTED")

\* Section 58: a champion has its shadow sessions, and it came to be champion with a
\* gain or against another that also had its sessions.
ChampionEarned ==
  /\ champion # "none" => Len(shadow[champion]) >= MinShadow
  /\ (\A a \in Alphas : SumOf(shadow[a]) <= 0 /\ Len(shadow[a]) <= MinShadow) => champion = "none"

\* Section 24: judge always has windows to judge on (walk_forward_windows neither
\* raises nor runs on for ever); no bar is trained and tested on in one window, the
\* embargo lies between, no bar is tested on twice, and none is left out that makes
\* a whole test.
TestedOutOfSample ==
  LET w == verdict.windows
      n == verdict.bars
  IN  /\ verdict.says \in {"DORMANT", "PROMOTE_RECOMMENDED"} => w # <<>>
      /\ \A i \in DOMAIN w : /\ w[i].train[2] + 2 = w[i].test[1]
                             /\ w[i].test[1] < w[i].test[2] /\ w[i].test[2] <= n
      /\ \A i, j \in DOMAIN w : i < j => w[i].test[2] <= w[j].test[1]
      /\ w # <<>> => n - w[Len(w)].test[2] < n \div 6

\* Nothing reaches or leaves production on less than its documents demand: features,
\* exit proposals, champions and judged alphas, in any sequence of calls.
ProductionIsEarned ==
  DemotionsAreEarned /\ PromotionIsApproved /\ ChampionEarned /\ TestedOutOfSample

=============================================================================
