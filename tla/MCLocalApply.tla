----------------------------- MODULE MCLocalApply -----------------------------
(***************************************************************************)
(* LocalApply with a file b that reads the output of a, and two bundles    *)
(* that may contain a.                                                     *)
(***************************************************************************)
EXTENDS LocalApply, TLC

CONSTANTS a, b, m, n

MCRefs == a :> {} @@ b :> {a}
MCAddr == a :> "x" @@ b :> "y"
MCElements == m :> {a, b} @@ n :> {a}
MCContent == m :> 1 @@ n :> 2
=============================================================================
