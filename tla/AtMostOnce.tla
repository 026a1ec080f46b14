----------------------------- MODULE AtMostOnce -----------------------------
(***************************************************************************)
(* What the handle of a connector promises those who call through it: the  *)
(* connector works on one call at a time, takes up a call at most once and *)
(* does at most once what it asks, and a call succeeds only when that was  *)
(* done and is over.  A call that fails may have been carried out or not,  *)
(* and may be carried out later, but no more when the handle is closed;    *)
(* it is closed only when no call waits.                                   *)
(***************************************************************************)
CONSTANTS
  Calls,  \* calls made through the handle, each made once
  NoCall

VARIABLES
  phase,  \* of the handle
  asked,  \* call -> what its caller knows
  work,   \* call -> what the connector did of it
  serving \* the call the connector works on, or NoCall

vars == <<phase, asked, work, serving>>

Init ==
  /\ phase = "new"
  /\ asked = [c \in Calls |-> "no"]
  /\ work = [c \in Calls |-> "none"]
  /\ serving = NoCall

Open ==
  /\ phase = "new"
  /\ phase' = "open"
  /\ UNCHANGED <<asked, work, serving>>

Close ==
  /\ phase = "open"
  /\ \A c \in Calls : asked[c] # "waits"
  /\ phase' = "closed"
  /\ serving' = NoCall
  /\ UNCHANGED <<asked, work>>

Ask(c) ==
  /\ phase = "open"
  /\ asked[c] = "no"
  /\ asked' = [asked EXCEPT ![c] = "waits"]
  /\ UNCHANGED <<phase, work, serving>>

Succeed(c) ==
  /\ asked[c] = "waits"
  /\ work[c] = "done" /\ serving # c
  /\ asked' = [asked EXCEPT ![c] = "ok"]
  /\ UNCHANGED <<phase, work, serving>>

Fail(c) ==
  /\ asked[c] = "waits"
  /\ asked' = [asked EXCEPT ![c] = "failed"]
  /\ UNCHANGED <<phase, work, serving>>

TakeUp(c) ==
  /\ phase = "open"
  /\ serving = NoCall
  /\ asked[c] \notin {"no", "ok"} /\ work[c] = "none"
  /\ work' = [work EXCEPT ![c] = "begun"]
  /\ serving' = c
  /\ UNCHANGED <<phase, asked>>

Do(c) ==
  /\ phase = "open"
  /\ serving = c
  /\ work[c] = "begun"
  /\ work' = [work EXCEPT ![c] = "done"]
  /\ UNCHANGED <<phase, asked, serving>>

(* It ends, fails, is dropped, or the process is gone.                     *)
Leave ==
  /\ serving # NoCall
  /\ serving' = NoCall
  /\ UNCHANGED <<phase, asked, work>>

Next ==
  \/ Open \/ Close \/ Leave
  \/ \E c \in Calls : Ask(c) \/ Succeed(c) \/ Fail(c) \/ TakeUp(c) \/ Do(c)

Spec == Init /\ [][Next]_vars
=============================================================================
