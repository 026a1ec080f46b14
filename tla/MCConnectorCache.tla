-------------------------- MODULE MCConnectorCache --------------------------
(***************************************************************************)
(* ConnectorCache with a few callers; the callers are interchangeable.     *)
(***************************************************************************)
EXTENDS ConnectorCache, TLC

CallerSymmetry == Permutations(Callers)
=============================================================================
