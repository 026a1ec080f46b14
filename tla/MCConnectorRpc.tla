---------------------------- MODULE MCConnectorRpc ----------------------------
(* Two calls: enough for one to wait behind the other at either mutex.     *)
(* One is any operation with any argument and answer, the other a plan.    *)
EXTENDS ConnectorRpc, TLC

CONSTANTS c1, c2

TwoCalls == {c1, c2}
AnyAndPlan == c1 :> Ops @@ c2 :> {"plan"}
=============================================================================
