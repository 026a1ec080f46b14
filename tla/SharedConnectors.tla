--------------------------- MODULE SharedConnectors ---------------------------
(***************************************************************************)
(* What the connector cache promises, without its calls: a call has at     *)
(* most one connector, which it starts itself or takes out of a slot; a    *)
(* slot has one that was started for it, and that until then only the call *)
(* had that puts it there.  A process runs until it dies by itself, is     *)
(* killed by a sweep of the slots, or is left by the last slot, the last   *)
(* call and the last sweep that have it; and it never comes back.          *)
(***************************************************************************)
CONSTANTS
  Keys,    \* the slots
  Callers, \* the calls
  Conns,   \* connectors
  NoConn

VARIABLES
  slot,  \* slot -> its connector, or NoConn
  hand,  \* call -> the connector it has, or NoConn
  home,  \* connector -> the slot it was started for
  state, \* connector -> whether its process runs
  sweeps, \* the calls that kill what was in the slots and then empty them
  doomed  \* call -> the connectors its sweep has yet to kill

vars == <<slot, hand, home, state, sweeps, doomed>>

Referenced(i, sl, ha, do) ==
  \/ \E k \in Keys : sl[k] = i
  \/ \E c \in Callers : ha[c] = i \/ i \in do[c]

(* The processes st, when the slots are sl, the calls have ha and the       *)
(* sweeps have do.                                                         *)
Reaped(st, sl, ha, do) ==
  [i \in Conns |-> IF st[i] \in {"runs", "crashed"} /\ ~Referenced(i, sl, ha, do)
                   THEN "killed" ELSE st[i]]

Init ==
  /\ slot = [k \in Keys |-> NoConn]
  /\ hand = [c \in Callers |-> NoConn]
  /\ home \in [Conns -> Keys]
  /\ state = [i \in Conns |-> "unborn"]
  /\ sweeps = {}
  /\ doomed = [c \in Callers |-> {}]

Make(c, k, i) ==
  /\ hand[c] = NoConn
  /\ state[i] = "unborn"
  /\ state' = [state EXCEPT ![i] = "runs"]
  /\ home' = [home EXCEPT ![i] = k]
  /\ hand' = [hand EXCEPT ![c] = i]
  /\ UNCHANGED <<slot, sweeps, doomed>>

Take(c, k) ==
  /\ hand[c] = NoConn
  /\ slot[k] # NoConn
  /\ hand' = [hand EXCEPT ![c] = slot[k]]
  /\ UNCHANGED <<slot, home, state, sweeps, doomed>>

Put(c) ==
  LET i == hand[c] IN
  /\ i # NoConn
  /\ state[i] \in {"runs", "crashed"}
  /\ \A k \in Keys : slot[k] # i
  /\ \A d \in Callers \ {c} : hand[d] # i
  /\ slot' = [slot EXCEPT ![home[i]] = i]
  /\ state' = Reaped(state, slot', hand, doomed)
  /\ UNCHANGED <<hand, home, sweeps, doomed>>

(* A call that has none changes nothing.                                   *)
LetGo(c) ==
  /\ hand' = [hand EXCEPT ![c] = NoConn]
  /\ state' = Reaped(state, slot, hand', doomed)
  /\ UNCHANGED <<slot, home, sweeps, doomed>>

Sweep(c) ==
  /\ c \notin sweeps
  /\ sweeps' = sweeps \cup {c}
  /\ doomed' = [doomed EXCEPT ![c] = {slot[k] : k \in Keys} \ {NoConn}]
  /\ UNCHANGED <<slot, hand, home, state>>

Kill(c, i) ==
  /\ i \in doomed[c]
  /\ state' = [state EXCEPT ![i] = "killed"]
  /\ doomed' = [doomed EXCEPT ![c] = @ \ {i}]
  /\ UNCHANGED <<slot, hand, home, sweeps>>

(* A sweep may stop half way: then what it killed stays in the slots.      *)
GiveUp(c) ==
  /\ c \in sweeps
  /\ sweeps' = sweeps \ {c}
  /\ doomed' = [doomed EXCEPT ![c] = {}]
  /\ state' = Reaped(state, slot, hand, doomed')
  /\ UNCHANGED <<slot, hand, home>>

Empty(c) ==
  /\ c \in sweeps
  /\ doomed[c] = {}
  /\ slot' = [k \in Keys |-> NoConn]
  /\ state' = Reaped(state, slot', hand, doomed)
  /\ sweeps' = sweeps \ {c}
  /\ UNCHANGED <<hand, home, doomed>>

Crash(i) ==
  /\ state[i] = "runs"
  /\ state' = [state EXCEPT ![i] = "crashed"]
  /\ UNCHANGED <<slot, hand, home, sweeps, doomed>>

Next ==
  \/ \E c \in Callers :
       \/ \E k \in Keys : Take(c, k) \/ \E i \in Conns : Make(c, k, i)
       \/ Put(c) \/ LetGo(c)
       \/ Sweep(c) \/ GiveUp(c) \/ Empty(c)
       \/ \E i \in Conns : Kill(c, i)
  \/ \E i \in Conns : Crash(i)

Spec == Init /\ [][Next]_vars
=============================================================================
