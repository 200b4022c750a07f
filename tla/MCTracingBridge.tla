--------------------------- MODULE MCTracingBridge ---------------------------
(***************************************************************************)
(* Instances of TracingBridge for TLC.                                     *)
(***************************************************************************)
EXTENDS TracingBridge, TLC

CONSTANTS e1, e2, e3

\* An Info, a Warn and an Error event; an Info and an Error event.
MCThreeLevels == e1 :> 2 @@ e2 :> 3 @@ e3 :> 4
MCTwoLevels == e1 :> 2 @@ e2 :> 4
=============================================================================
