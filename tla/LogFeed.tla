------------------------------ MODULE LogFeed ------------------------------
(***************************************************************************)
(* What the trace store promises the viewers of a run's log: lines are     *)
(* only ever added, and a viewer is shown lines of the run it asked for,   *)
(* in the order they were logged and none of them twice.  A line may be    *)
(* passed over.                                                            *)
(***************************************************************************)
EXTENDS Naturals

CONSTANTS
  Runs,    \* runs, one for each command the server carried out
  Viewers, \* websocket connections
  NoRun

VARIABLES
  log,  \* run -> number of lines logged
  feed, \* viewer -> the run it watches, or NoRun
  last  \* viewer -> the number of the line it was shown last, or 0

vars == <<log, feed, last>>

Init ==
  /\ log = [r \in Runs |-> 0]
  /\ feed = [v \in Viewers |-> NoRun]
  /\ last = [v \in Viewers |-> 0]

Log(r) ==
  /\ log' = [log EXCEPT ![r] = @ + 1]
  /\ UNCHANGED <<feed, last>>

Watch(v, r) ==
  /\ feed[v] = NoRun
  /\ feed' = [feed EXCEPT ![v] = r]
  /\ UNCHANGED <<log, last>>

Show(v) ==
  /\ feed[v] # NoRun
  /\ \E line \in last[v] + 1 .. log[feed[v]] : last' = [last EXCEPT ![v] = line]
  /\ UNCHANGED <<log, feed>>

Next ==
  \/ \E r \in Runs : Log(r)
  \/ \E v \in Viewers, r \in Runs : Watch(v, r)
  \/ \E v \in Viewers : Show(v)

Spec == Init /\ [][Next]_vars
=============================================================================
