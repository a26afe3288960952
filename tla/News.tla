--------------------------------- MODULE News ---------------------------------
(***************************************************************************)
(* NewsEngine.process (services/news/engine.py): duplicates of a headline  *)
(* are dropped within the novelty window, the rest is clustered by tickers *)
(* and day, and each cluster of a batch becomes one signal.                *)
(*                                                                         *)
(* A headline stands for its content hash.  Sentiment, impact, the text    *)
(* and its screening are left out.                                         *)
(***************************************************************************)
EXTENDS Integers, Sequences, SequencesExt, FiniteSetsExt

CONSTANTS
  Headlines, Tickers,
  Tiers,      \* SourceTier: the lower, the more trusted; the highest is SNS
  NewsWindow, \* novelty_window, in days
  LastNews,   \* bound: the last day
  MaxBatch    \* bound: items per batch

ASSUME NewsAssumption ==
  NewsWindow \in Nat /\ LastNews \in Nat /\ MaxBatch \in Nat /\ Tiers \subseteq Nat

VARIABLES
  newsDay, \* the day the next batch comes in
  seen,    \* _seen_hashes: the day each headline was last news, -1: never
  counts,  \* _cluster_counts
  signals, \* the signals of the last batch
  told     \* not in the code: [head, day] of every item that became part of a signal

nvars == <<newsDay, seen, counts, signals, told>>

\* A feed may be late, by no more than the window.
Items ==
  [head : Headlines, day : {d \in 0..newsDay : newsDay - d <= NewsWindow},
   tier : Tiers, ticker : Tickers]

Apart(a, b) == IF a > b THEN a - b ELSE b - a

\* Fault-injected variant: only what is published after the last one is a duplicate.
DuplicateAfter(known, item) ==
  /\ known[item.head] >= 0 /\ item.day >= known[item.head]
  /\ item.day - known[item.head] <= NewsWindow

Duplicate(known, item) ==
  known[item.head] >= 0 /\ Apart(item.day, known[item.head]) <= NewsWindow

\* The first loop: what is known, kept and told after each item of the batch
Screen(acc, item) ==
  IF Duplicate(acc.known, item) THEN acc
  ELSE [known |-> [acc.known EXCEPT ![item.head] = item.day],
        kept  |-> Append(acc.kept, item),
        told  |-> Append(acc.told, [head |-> item.head, day |-> item.day])]
Screened(batch) ==
  LET acc[i \in 0..Len(batch)] ==
        IF i = 0 THEN [known |-> seen, kept |-> <<>>, told |-> told]
        ELSE Screen(acc[i - 1], batch[i])
  IN  acc
Dedup(batch) == Screened(batch)[Len(batch)]

KeyOfItem(item) == <<item.ticker, item.day>>

\* A signal's tier is its best source's; it is sns_only when all are.
SignalOf(key, items) ==
  [key |-> key, tier |-> Min({i.tier : i \in items}), count |-> counts[key] + 1,
   heads |-> {i.head : i \in items},
   snsOnly |-> \A i \in items : i.tier = Max(Tiers)]

Process(batch) ==
  LET d    == Dedup(batch)
      kept == Range(d.kept)
      keys == {KeyOfItem(i) : i \in kept}
  IN  /\ seen' = d.known
      /\ counts' = [k \in DOMAIN counts |-> IF k \in keys THEN counts[k] + 1 ELSE counts[k]]
      /\ signals' = {SignalOf(k, {i \in kept : KeyOfItem(i) = k}) : k \in keys}
      /\ told' = d.told
      /\ UNCHANGED newsDay

NewsNextDay ==
  /\ newsDay < LastNews /\ newsDay' = newsDay + 1
  /\ UNCHANGED <<seen, counts, signals, told>>

NewsInit ==
  /\ newsDay = 0 /\ seen = [h \in Headlines |-> -1] /\ signals = {} /\ told = <<>>
  /\ counts = [k \in Tickers \X (0..LastNews) |-> 0]

NewsNext ==
  \/ NewsNextDay
  \/ \E n \in 1..MaxBatch : \E batch \in [1..n -> Items] : Process(batch)

NewsSpec == NewsInit /\ [][NewsNext]_nvars

-----------------------------------------------------------------------------
\* The comment at novelty_window: however items are batched, repeated and reordered
\* by a feed at most the window late, a headline is news once within the window.
NewsOncePerWindow ==
  \A m, n \in DOMAIN told :
    m # n /\ told[m].head = told[n].head => Apart(told[m].day, told[n].day) > NewsWindow

=============================================================================
