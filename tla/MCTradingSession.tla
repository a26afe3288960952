--------------------------- MODULE MCTradingSession ---------------------------
(***************************************************************************)
(* One or two symbols, a quote that crosses the stop of an entry made at   *)
(* the higher price, cash for two lots.                                    *)
(***************************************************************************)
EXTENDS TradingSession

MCPrices == {7, 10}
MCQtys   == {2}
MCQtysHalf == {4}
MCQtysBoth == {2, 4}
Clean    == {"NONE"}
Partial  == {"NONE", "PARTIAL_FILL"}
AllFaults == Fault

=============================================================================
