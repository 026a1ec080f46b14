---------------------------- MODULE MCChangeSets ----------------------------
(***************************************************************************)
(* ChangeSets with two webhooks at a time and one object; a liveness        *)
(* property is checked, so no symmetry is used.                            *)
(***************************************************************************)
EXTENDS ChangeSets
=============================================================================
