----------------------------- MODULE MCTraceStore -----------------------------
(***************************************************************************)
(* TraceStore with a run more than its viewers need, a channel of two      *)
(* lines, and runs of three lines: a viewer can lag.                       *)
(***************************************************************************)
EXTENDS TraceStore
=============================================================================
