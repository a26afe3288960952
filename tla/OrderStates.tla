----------------------------- MODULE OrderStates -----------------------------
(***************************************************************************)
(* The vocabulary that the execution, risk and pipeline modules share: the *)
(* order states and the transition whitelist of OrderStateMachine, and the *)
(* four risk states of MasterRiskController.                               *)
(***************************************************************************)

\* packages/schemas/core.py, class OrderState.
OrderState ==
  {"CREATED", "RISK_APPROVED", "SUBMITTED", "ACKNOWLEDGED", "PARTIALLY_FILLED",
   "FILLED", "CANCEL_REQUESTED", "CANCELLED", "REJECTED", "EXPIRED", "UNKNOWN"}

\* A client_order_id the dictionary at hand does not hold.
Absent == "ABSENT"

\* Fault-injected variant: ACKNOWLEDGED lacks its way to REJECTED.
AllowedFromNoReject(s) ==
  IF s = "ACKNOWLEDGED" THEN OrderState \ {"REJECTED"} ELSE OrderState

\* ALLOWED_TRANSITIONS: transition() raises IllegalTransitionError for any
\* target outside this set and leaves the record alone.
AllowedFrom(s) ==
  CASE s = "CREATED"          -> {"RISK_APPROVED", "REJECTED"}
    [] s = "RISK_APPROVED"    -> {"SUBMITTED", "EXPIRED", "REJECTED"}
    [] s = "SUBMITTED"        -> {"ACKNOWLEDGED", "REJECTED", "UNKNOWN"}
    [] s = "ACKNOWLEDGED"     -> {"PARTIALLY_FILLED", "FILLED", "CANCEL_REQUESTED",
                                  "EXPIRED", "REJECTED", "UNKNOWN"}
    [] s = "PARTIALLY_FILLED" -> {"FILLED", "CANCEL_REQUESTED", "UNKNOWN"}
    [] s = "CANCEL_REQUESTED" -> {"CANCELLED", "FILLED", "PARTIALLY_FILLED", "UNKNOWN"}
    [] s = "UNKNOWN"          -> {"ACKNOWLEDGED", "PARTIALLY_FILLED", "FILLED",
                                  "CANCELLED", "REJECTED", "EXPIRED"}
    [] OTHER                  -> {}

TerminalStates == {"FILLED", "CANCELLED", "REJECTED", "EXPIRED"}

\* Fault-injected variant: poll_order overlooks a rejection.
PolledStatesNoReject == {"PARTIALLY_FILLED", "FILLED", "CANCELLED", "EXPIRED"}

\* The broker-reported states poll_order acts on; it ignores the others.
PolledStates ==
  {"PARTIALLY_FILLED", "FILLED", "CANCELLED", "REJECTED", "EXPIRED"}

\* services/risk/master_controller.py, class RiskState.
RiskState == {"NORMAL", "HALT_NEW_ENTRIES", "SAFE_EXIT", "FULL_BROKER_DISCONNECT"}

\* packages/broker_adapters/paper.py, class Fault.
Fault == {"NONE", "TIMEOUT", "DISCONNECT", "PARTIAL_FILL"}

\* Fault-injected variant: cancel_order accepts a filled order.
RestingStatesOrFilled == {"ACKNOWLEDGED", "PARTIALLY_FILLED", "FILLED"}

\* The states in which the broker still works an order: poll_resting_orders
\* re-evaluates exactly these, and cancel_order accepts exactly these.
RestingStates == {"ACKNOWLEDGED", "PARTIALLY_FILLED"}

=============================================================================
