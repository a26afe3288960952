-------------------------- MODULE MCExecutionEngine --------------------------
(***************************************************************************)
(* Two orders: an entry with two approvals (the second one minted after    *)
(* the order was changed and reviewed again) and a protective stop.        *)
(***************************************************************************)
EXTENDS ExecutionEngine

CONSTANTS c1, c2, p1, p2

MCCid        == {c1, c2}
MCProtective == {c2}
MCPayload    == {p1, p2}
MCApprovals  ==
  {[cid |-> c1, payload |-> p1, id |-> 1],
   [cid |-> c1, payload |-> p2, id |-> 2],
   [cid |-> c2, payload |-> p1, id |-> 3]}

=============================================================================
