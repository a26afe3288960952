------------------------------ MODULE MCSession ------------------------------
(***************************************************************************)
(* Sessions with a broker that answers: one that is healthy throughout, or *)
(* one that fills orders partially now and then.                           *)
(***************************************************************************)
EXTENDS MCTradingSession

VARIABLE healthy

ModesInit == Init /\ healthy \in BOOLEAN
ModesNext == Next /\ (healthy => fault' = "NONE") /\ UNCHANGED healthy

\* Sessions are run day after day: a session that has begun ends, and another one
\* is started after it (SessionStart is the only way out of "idle").
ModesSpec ==
  /\ ModesInit /\ [][ModesNext]_<<vars, healthy>>
  /\ []<>(pc.at = "idle") /\ []<>(pc.at # "idle")

\* INV-15 with a broker that fills whole orders: between sessions every share
\* held is covered by a working stop, also after adding to a position and after
\* stop-outs.
HealthyIsStopped == healthy => EveryShareStopped

=============================================================================
