------------------------------- MODULE History -------------------------------
(***************************************************************************)
(* The two records of the past side by side: the observations of a         *)
(* decision (QualityTracking) and the point-in-time store (Books).  They   *)
(* share no state, so a behaviour of both is one of each.                  *)
(***************************************************************************)
EXTENDS QualityTracking, Books

HistorySpec == QSpec /\ BooksSpec

\* History is not rewritten: an observation of a decision is neither lost nor changed
\* (INV-21), and what the point-in-time store knew stays known (Section 10).
HistoryIsKept == ObservationsKept /\ PastIsFixed

=============================================================================
