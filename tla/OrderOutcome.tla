---------------------------- MODULE OrderOutcome ----------------------------
(***************************************************************************)
(* What durable order handling promises its owner, with no engine, no      *)
(* handler and no crash in it.  Each order has a true outcome (what the    *)
(* broker did) and a recorded one (what survives a restart).  An order is  *)
(* recorded before it is placed, the broker alone decides how it ends, and *)
(* the record is only ever corrected to the truth: it may lag, it is never *)
(* wrong and never taken back.                                             *)
(***************************************************************************)
CONSTANT Order

Outcome == {"FILLED", "CANCELLED", "REJECTED"}
Status  == {"none", "open"} \cup Outcome

VARIABLES truth, record
vars == <<truth, record>>

Init ==
  /\ truth = [o \in Order |-> "none"]
  /\ record = [o \in Order |-> "none"]

\* The owner commits to an order.
Commit(o) ==
  /\ record[o] = "none"
  /\ record' = [record EXCEPT ![o] = "open"]
  /\ UNCHANGED truth

\* The order reaches the broker, which may settle it at once.
Place(o) ==
  /\ record[o] = "open" /\ truth[o] = "none"
  /\ \E s \in Status \ {"none"} : truth' = [truth EXCEPT ![o] = s]
  /\ UNCHANGED record

\* The broker settles some of the orders it works.
Settle ==
  /\ truth' \in [Order -> Status]
  /\ \A o \in Order : truth'[o] # truth[o] => truth[o] = "open" /\ truth'[o] \in Outcome
  /\ UNCHANGED record

\* The record catches up.
Learn(o) ==
  /\ record[o] = "open" /\ truth[o] \in Outcome
  /\ record' = [record EXCEPT ![o] = truth[o]]
  /\ UNCHANGED truth

Next == Settle \/ \E o \in Order : Commit(o) \/ Place(o) \/ Learn(o)

Spec == Init /\ [][Next]_vars

=============================================================================
