------------------------- MODULE MCDecisionSession -------------------------
(***************************************************************************)
(* One flaw of each severity class: a REJECT, a REVIEW, one that passes.   *)
(***************************************************************************)
EXTENDS DecisionSession

MCFlawSets == {{}, {"symbol_match"}, {"thesis_consistency"}, {"confidence_size_consistency"}}

=============================================================================
