----------------------------- MODULE MCLibraries -----------------------------
(***************************************************************************)
(* The library components that do not interact, in one run: a behaviour is *)
(* one of them (`part'), the variables of the others staying at a neutral  *)
(* value.  Parts without a next step are pure functions; there each        *)
(* initial state is one input.                                             *)
(***************************************************************************)
EXTENDS MCCellAlgorithms, CellStatistics, CellGovernor, QualityTracking, Promotion, Supervision,
        Books, SizingGuard, News, History, CellStops

VARIABLE part

inputs == <<part, mathvars, sample, bid>>
lvars  == <<inputs, qvars, pvars, svars, bvars, gvars, nvars, stopsvars>>

Parts == {"netting", "statistics", "governor", "quality", "features", "proposals",
          "shadow", "judge", "heartbeats", "incidents", "books", "settlement", "store",
          "sizing", "news", "stops"}

Nothing == [of |-> "nothing"]

LibInit ==
  /\ part \in Parts
  /\ IF part = "netting" THEN MathInit
     ELSE batch = <<[side |-> "BUY", qty |-> 1]>> /\ fill = 0
  /\ QInit
  /\ part # "quality" => /\ move = [d \in 1..LastDay |-> CHOOSE s \in Steps : TRUE]
                         /\ index = CHOOSE i \in Index : TRUE
  /\ IF part = "statistics" THEN CInit ELSE sample = Nothing
  /\ IF part = "governor" THEN GInit ELSE bid = Nothing
  /\ PInit
  /\ SInit
  /\ BInit
  /\ GuardInit
  /\ NewsInit
  /\ StopsInit
  /\ part # "stops" => \A t \in Cell \X Sym : holdings[t] = 0

PromotionStep ==
  /\ \/ part = "features"  /\ FeatureNext
     \/ part = "proposals" /\ ProposalNext
     \/ part = "shadow"    /\ ShadowNext
     \/ part = "judge"     /\ JudgeAlpha
  /\ UNCHANGED <<inputs, qvars, svars, bvars, gvars, nvars, stopsvars>>

SupervisionStep ==
  /\ \/ part = "heartbeats" /\ WatchNext
     \/ part = "incidents"  /\ IncidentNext
  /\ UNCHANGED <<inputs, qvars, pvars, bvars, gvars, nvars, stopsvars>>

QualityStep ==
  part = "quality" /\ QNext /\ UNCHANGED <<inputs, pvars, svars, bvars, gvars, nvars, stopsvars>>

BooksStep ==
  /\ \/ part = "books"      /\ BooksNext
     \/ part = "settlement" /\ SettlementNext
     \/ part = "store"      /\ PitNext
  /\ UNCHANGED <<inputs, qvars, pvars, svars, gvars, nvars, stopsvars>>

EntryStep ==
  /\ \/ part = "sizing" /\ GuardNext /\ UNCHANGED nvars
     \/ part = "news"   /\ NewsNext /\ UNCHANGED gvars
  /\ UNCHANGED <<inputs, qvars, pvars, svars, bvars, stopsvars>>

StopsStep ==
  part = "stops" /\ StopsNext /\ UNCHANGED <<inputs, qvars, pvars, svars, bvars, gvars, nvars>>

LibNext == EntryStep \/ QualityStep \/ PromotionStep \/ SupervisionStep \/ BooksStep \/ StopsStep

LibSpec == LibInit /\ [][LibNext]_lvars

-----------------------------------------------------------------------------
MCSteps   == {-2, 1}
MCIndex   == {-1}
MCAfter   == [h \in {"1h", "1w", "1m", "3m"} |->
                CASE h = "1h" -> 0 [] h = "1w" -> 1 [] h = "1m" -> 2 [] OTHER -> 3]
MCOrder   == <<"1h", "1w", "1m", "3m", "expected">>
MCContrib == {-1, 1}
MCMoves   == {-2, 0, 1}
MCEdges   == -2..2
MCPlans   == {[id |-> 1, cell |-> "a", sym |-> "X", scope |-> "CELL"],
              [id |-> 2, cell |-> "b", sym |-> "X", scope |-> "SYMBOL"],
              [id |-> 3, cell |-> "b", sym |-> "Y", scope |-> "PORTFOLIO"]}
MCRatios  == {<<2, 1>>, <<1, 2>>}

=============================================================================
