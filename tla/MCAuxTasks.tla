----------------------------- MODULE MCAuxTasks -----------------------------
(***************************************************************************)
(* AuxTasks with two calls of spawn_task for one name.                     *)
(***************************************************************************)
EXTENDS AuxTasks
=============================================================================
