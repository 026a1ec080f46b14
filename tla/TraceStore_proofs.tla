-------------------------- MODULE TraceStore_proofs --------------------------
(***************************************************************************)
(* Proofs about TraceStore, for any runs, viewers, capacity and number of  *)
(* lines: what a viewer can miss, and that it sees a LogFeed.              *)
(***************************************************************************)
EXTENDS TraceStore, TLAPS

LEMMA OldestIsNat ==
  ASSUME TypeOK, NEW r \in Runs
  PROVE  Oldest(r) \in Nat /\ Oldest(r) <= lines[r]
                           /\ (Oldest(r) > 0 => Oldest(r) + Capacity = lines[r])
  BY CapacityAssumption DEF TypeOK, Oldest

LEMMA IntervalGrows ==
  ASSUME NEW a \in Nat, NEW b \in Nat, a <= b
  PROVE  a + 1 .. b + 1 = (a + 1 .. b) \union {b + 1}
  OBVIOUS

LEMMA InitIInv == Init => IInv
<1> SUFFICES ASSUME Init PROVE IInv
  OBVIOUS
<1>1. TypeOK
  BY DEF Init, TypeOK
<1>2. GapsExplained /\ LostToNewer
  BY DEF Init, GapsExplained, LostToNewer
<1>3. \A v \in Viewers : Progress(v)
  BY DEF Init, Progress
<1> QED
  BY <1>1, <1>2, <1>3 DEF IInv

(* A step of one viewer leaves what the others have as it was.             *)
LEMMA OthersStay ==
  ASSUME TypeOK, NEW v \in Viewers, NEW w \in Viewers, v # w,
         ViewerStep(v) \/ Admit(v) \/ Deny(v) \/ Leave(v)
  PROVE  /\ phase'[w] = phase[w] /\ watch'[w] = watch[w] /\ snap'[w] = snap[w]
         /\ start'[w] = start[w] /\ pos'[w] = pos[w] /\ shown'[w] = shown[w]
         /\ last'[w] = last[w] /\ lost'[w] = lost[w]
         /\ lines' = lines
<1> USE DEF TypeOK, run, Goto
<1>1. CASE GetRun(v) \/ SubscribeRunLogs(v) \/ NoSuchRun(v) \/ Replayed(v) \/ Lagged(v)
         \/ Closed(v)
  BY <1>1 DEF GetRun, SubscribeRunLogs, NoSuchRun, Replayed, Lagged, Closed
<1>2. CASE Replay(v) \/ Receive(v)
  BY <1>2 DEF Replay, Receive, Send
<1>3. CASE Admit(v) \/ Deny(v) \/ Leave(v)
  BY <1>3 DEF Admit, Deny, Leave
<1> QED
  BY <1>1, <1>2, <1>3 DEF ViewerStep

LEMMA TypeStep == IInv /\ [Next]_vars => TypeOK'
<1> SUFFICES ASSUME IInv, [Next]_vars PROVE TypeOK'
  OBVIOUS
<1>0. /\ TypeOK
      /\ \A v \in Viewers :
           phase[v] \in {"admitted", "copied", "replay", "follow", "spins"} => watch[v] \in Runs
  BY DEF IInv, Progress
<1> USE <1>0 DEF TypeOK, run, viewer, Goto
<1>1. ASSUME NEW r \in Runs, StartRun(r) PROVE TypeOK'
  BY <1>1 DEF StartRun
<1>2. ASSUME NEW r \in Runs, AppendRunLog(r) PROVE TypeOK'
  BY <1>2 DEF AppendRunLog
<1>3. ASSUME NEW r \in Runs, FinishRun(r) PROVE TypeOK'
  BY <1>3 DEF FinishRun
<1>4. ASSUME NEW r \in Runs, DeleteRun(r) PROVE TypeOK'
  BY <1>4 DEF DeleteRun
<1>5. ASSUME NEW v \in Viewers, GetRun(v) PROVE TypeOK'
  BY <1>5 DEF GetRun
<1>6. ASSUME NEW v \in Viewers, SubscribeRunLogs(v) PROVE TypeOK'
  BY <1>6 DEF SubscribeRunLogs
<1>7. ASSUME NEW v \in Viewers, NoSuchRun(v) PROVE TypeOK'
  BY <1>7 DEF NoSuchRun
<1>8. ASSUME NEW v \in Viewers, Replay(v) PROVE TypeOK'
  BY <1>8 DEF Replay, Send
<1>9. ASSUME NEW v \in Viewers, Replayed(v) PROVE TypeOK'
  BY <1>9 DEF Replayed
<1>10. ASSUME NEW v \in Viewers, Receive(v) PROVE TypeOK'
  BY <1>10 DEF Receive, Send
<1>11. ASSUME NEW v \in Viewers, Lagged(v) PROVE TypeOK'
  <2>1. Oldest(watch[v]) \in Nat
    BY <1>11, OldestIsNat DEF Lagged
  <2> QED
    BY <1>11, <2>1 DEF Lagged
<1>12. ASSUME NEW v \in Viewers, Admit(v) PROVE TypeOK'
  BY <1>12 DEF Admit
<1>13. ASSUME NEW v \in Viewers, Deny(v) PROVE TypeOK'
  BY <1>13 DEF Deny
<1>14. ASSUME NEW v \in Viewers, Leave(v) PROVE TypeOK'
  BY <1>14 DEF Leave
<1>15. CASE ListRuns \/ Render
  BY <1>15 DEF ListRuns, Render, Present
<1>16. ASSUME NEW r \in Runs, ReadRun(r) PROVE TypeOK'
  BY <1>16 DEF ReadRun
<1>17. ASSUME NEW v \in Viewers, Closed(v) PROVE TypeOK'
  BY <1>17 DEF Closed
<1>18. CASE UNCHANGED vars
  BY <1>18 DEF vars
<1> QED
  BY <1>1, <1>2, <1>3, <1>4, <1>5, <1>6, <1>7, <1>8, <1>9, <1>10, <1>11, <1>12, <1>13,
     <1>14, <1>15, <1>16, <1>17, <1>18 DEF Next, ViewerStep

-----------------------------------------------------------------------------
(* What the invariant says of one viewer.                                  *)
Local(v) ==
  /\ Progress(v)
  /\ phase[v] \in {"follow", "spins"} =>
       shown[v] = (1 .. snap[v]) \union ((start[v] + 1 .. pos[v]) \ lost[v])
  /\ \A line \in lost[v] : line > start[v] /\ line + Capacity <= lines[watch[v]]

LEMMA IInvIsLocal == IInv <=> TypeOK /\ \A v \in Viewers : Local(v)
  BY DEF IInv, Local, GapsExplained, LostToNewer

(* Lines are only added: what is true of a viewer stays true while it does *)
(* nothing.                                                                *)
LEMMA IdleViewer ==
  ASSUME TypeOK, lines' \in [Runs -> Nat], NEW v \in Viewers, Local(v),
         \A r \in Runs : lines[r] <= lines'[r],
         phase'[v] = phase[v], watch'[v] = watch[v], snap'[v] = snap[v],
         start'[v] = start[v], pos'[v] = pos[v], shown'[v] = shown[v],
         last'[v] = last[v], lost'[v] = lost[v]
  PROVE  Local(v)'
<1>1. /\ snap[v] \in Nat /\ pos[v] \in Nat
      /\ watch[v] \in Runs => lines[watch[v]] \in Nat /\ lines'[watch[v]] \in Nat
  BY DEF TypeOK
<1>2. Progress(v)'
  BY <1>1 DEF Local, Progress
<1>3. \A line \in lost'[v] : line > start'[v] /\ line + Capacity <= lines'[watch'[v]]
  <2> TAKE line \in lost'[v]
  <2>1. watch[v] \in Runs /\ line \in Nat /\ line + Capacity <= lines[watch[v]]
        /\ line > start[v]
    BY DEF Local, Progress, TypeOK
  <2> QED
    BY <1>1, <2>1, CapacityAssumption
<1> QED
  BY <1>2, <1>3 DEF Local

LEMMA ViewerMoves ==
  ASSUME TypeOK, TypeOK', NEW v \in Viewers, Local(v),
         ViewerStep(v) \/ Admit(v) \/ Deny(v) \/ Leave(v)
  PROVE  Local(v)'
<1> USE DEF TypeOK, run, Goto
<1>a. /\ snap[v] \in Nat /\ start[v] \in Nat /\ pos[v] \in Nat /\ last[v] \in Nat
      /\ shown[v] \in SUBSET Nat /\ lost[v] \in SUBSET Nat
      /\ watch[v] \in Runs => lines[watch[v]] \in Nat
  OBVIOUS
<1>1. CASE Admit(v)
  BY <1>1, <1>a DEF Admit, Local, Progress
<1>2. CASE Deny(v)
  BY <1>2, <1>a DEF Deny, Local, Progress
<1>3. CASE Leave(v)
  BY <1>3, <1>a DEF Leave, Local, Progress
<1>4. CASE GetRun(v)
  BY <1>4, <1>a DEF GetRun, Local, Progress
<1>5. CASE SubscribeRunLogs(v)
  BY <1>5, <1>a DEF SubscribeRunLogs, Local, Progress
<1>6. CASE NoSuchRun(v)
  BY <1>6, <1>a DEF NoSuchRun, Local, Progress
<1>7. CASE Replay(v)
  <2>1. CASE v \in left
    BY <1>7, <1>a, <2>1 DEF Replay, Send, Local, Progress
  <2>2. CASE v \notin left
    <3>1. /\ phase'[v] = "replay" /\ watch'[v] = watch[v] /\ snap'[v] = snap[v]
          /\ start'[v] = start[v] /\ pos'[v] = pos[v] /\ lost'[v] = {}
          /\ last'[v] = last[v] + 1 /\ shown'[v] = shown[v] \union {last[v] + 1}
          /\ lines' = lines
      BY <1>7, <2>2 DEF Replay, Send, Local, Progress
    <3>2. last'[v] <= snap[v] /\ shown'[v] = 1 .. last'[v]
      BY <1>7, <1>a, <3>1 DEF Replay, Local, Progress
    <3> QED
      BY <1>7, <1>a, <3>1, <3>2 DEF Replay, Local, Progress
  <2> QED
    BY <2>1, <2>2
<1>8. CASE Replayed(v)
  <2>1. start[v] + 1 .. pos[v] = {}
    BY <1>8, <1>a DEF Replayed, Local, Progress
  <2> QED
    BY <1>8, <1>a, <2>1 DEF Replayed, Local, Progress
<1>9. CASE Receive(v)
  <2>1. CASE v \in left
    BY <1>9, <1>a, <2>1 DEF Receive, Send, Local, Progress
  <2>2. CASE v \notin left
    <3>1. /\ phase'[v] = "follow" /\ watch'[v] = watch[v] /\ snap'[v] = snap[v]
          /\ start'[v] = start[v] /\ pos'[v] = pos[v] + 1 /\ lost'[v] = lost[v]
          /\ last'[v] = pos[v] + 1 /\ shown'[v] = shown[v] \union {pos[v] + 1}
          /\ lines' = lines
      BY <1>9, <2>2 DEF Receive, Send, Local, Progress
    <3>2. pos[v] + 1 \notin lost[v] /\ start[v] <= pos[v]
      BY <1>9, <1>a DEF Receive, Local, Progress
    <3>3. start[v] + 1 .. pos[v] + 1 = (start[v] + 1 .. pos[v]) \union {pos[v] + 1}
      BY <1>a, <3>2, IntervalGrows
    <3>4. shown'[v] = (1 .. snap[v]) \union ((start[v] + 1 .. pos[v] + 1) \ lost[v])
      BY <1>9, <3>1, <3>2, <3>3 DEF Receive, Local
    <3>5. Progress(v)'
      BY <1>9, <1>a, <3>1 DEF Receive, Local, Progress
    <3> QED
      BY <3>1, <3>4, <3>5 DEF Local
  <2> QED
    BY <2>1, <2>2
<1>10. CASE Lagged(v)
  <2> DEFINE old == Oldest(watch[v])
  <2>1. watch[v] \in Runs /\ old \in Nat /\ pos[v] < old /\ old + Capacity = lines[watch[v]]
    BY <1>10, <1>a, OldestIsNat DEF Lagged, Local, Progress
  <2>2. /\ phase'[v] = "follow" /\ watch'[v] = watch[v] /\ snap'[v] = snap[v]
        /\ start'[v] = start[v] /\ pos'[v] = old /\ last'[v] = last[v]
        /\ lost'[v] = lost[v] \union (pos[v] + 1 .. old) /\ shown'[v] = shown[v]
        /\ lines' = lines
    BY <1>10 DEF Lagged
  <2> HIDE DEF old
  <2>3. start[v] <= pos[v] /\ last[v] <= pos[v] /\ lost[v] \subseteq start[v] + 1 .. pos[v]
    BY <1>10 DEF Lagged, Local, Progress
  <2>4. (start[v] + 1 .. old) \ lost'[v] = (start[v] + 1 .. pos[v]) \ lost[v]
    BY <1>a, <2>1, <2>2, <2>3
  <2>5. \A line \in lost'[v] : line > start[v] /\ line + Capacity <= lines[watch[v]]
    BY <1>a, <2>1, <2>2, <2>3, CapacityAssumption DEF Local
  <2>6. Progress(v)'
    <3>1. lost'[v] \subseteq start[v] + 1 .. old
      BY <1>a, <2>1, <2>2, <2>3
    <3> QED
      BY <1>a, <2>1, <2>2, <2>3, <3>1, CapacityAssumption DEF Progress
  <2> QED
    BY <1>10, <2>2, <2>4, <2>5, <2>6 DEF Local, Lagged
<1>11. CASE Closed(v)
  BY <1>11, <1>a DEF Closed, Local, Progress
<1> QED
  BY <1>1, <1>2, <1>3, <1>4, <1>5, <1>6, <1>7, <1>8, <1>9, <1>10, <1>11 DEF ViewerStep

LEMMA Inductive == IInv /\ [Next]_vars => IInv'
<1> SUFFICES ASSUME IInv, [Next]_vars PROVE IInv'
  OBVIOUS
<1>1. TypeOK /\ TypeOK' /\ \A v \in Viewers : Local(v)
  BY TypeStep, IInvIsLocal
<1>2. ASSUME NEW v \in Viewers, ViewerStep(v) \/ Admit(v) \/ Deny(v) \/ Leave(v),
             NEW w \in Viewers
      PROVE  Local(w)'
  <2>1. CASE w = v
    BY <1>1, <1>2, <2>1, ViewerMoves
  <2>2. CASE w # v
    BY <1>1, <1>2, <2>2, OthersStay, IdleViewer DEF TypeOK
  <2> QED
    BY <2>1, <2>2
<1>3. ASSUME UNCHANGED viewer, lines' \in [Runs -> Nat],
             \A r \in Runs : lines[r] <= lines'[r], NEW w \in Viewers
      PROVE  Local(w)'
  BY <1>1, <1>3, IdleViewer DEF viewer
<1>4. ASSUME NEW r \in Runs, StartRun(r) \/ AppendRunLog(r) \/ FinishRun(r) \/ DeleteRun(r)
      PROVE  UNCHANGED viewer /\ \A q \in Runs : lines[q] <= lines'[q]
  BY <1>1, <1>4 DEF StartRun, AppendRunLog, FinishRun, DeleteRun, TypeOK
<1>5. ASSUME ListRuns \/ Render \/ (\E r \in Runs : ReadRun(r)) \/ UNCHANGED vars
      PROVE  UNCHANGED viewer /\ \A q \in Runs : lines[q] <= lines'[q]
  BY <1>1, <1>5 DEF ListRuns, Render, ReadRun, vars, viewer, run, TypeOK
<1>6. \A w \in Viewers : Local(w)'
  BY <1>1, <1>2, <1>3, <1>4, <1>5 DEF Next, TypeOK
<1>7. TypeOK' /\ (\A w \in Viewers : Local(w)') => IInv'
  BY DEF IInv, Local, GapsExplained, LostToNewer
<1> QED
  BY <1>1, <1>6, <1>7

LEMMA Invariant == Spec => []IInv
  BY InitIInv, Inductive, PTL DEF Spec

(* For any number of runs, viewers and lines and any capacity: the         *)
(* variables keep their types.                                             *)
THEOREM TypeCorrect == Spec => []TypeOK
  BY Invariant, PTL DEF IInv

(* A viewer that follows a run misses only lines logged between its copy   *)
(* and its subscription, and lines the channel dropped.                    *)
THEOREM OnlyExplainedGaps == Spec => []GapsExplained
  BY Invariant, PTL DEF IInv

(* The channel drops nothing of a run's last Capacity lines.               *)
THEOREM LossNeedsNewerLines == Spec => []LostToNewer
  BY Invariant, PTL DEF IInv

(* The copy and the channel together show each viewer a LogFeed: lines of  *)
(* one run, in order, none twice.                                          *)
THEOREM StoreImplementsFeed == Spec => ImplementsFeed
<1>1. Init => Feed!Init
  BY DEF Init, Feed!Init
<1>2. IInv /\ [Next]_vars => [Feed!Next]_(Feed!vars)
  <2> SUFFICES ASSUME IInv, [Next]_vars PROVE Feed!Next \/ UNCHANGED Feed!vars
    OBVIOUS
  <2>0. TypeOK /\ \A v \in Viewers : Progress(v)
    BY DEF IInv
  <2>1. ASSUME NEW r \in Runs, AppendRunLog(r) PROVE Feed!Next
    BY <2>1 DEF AppendRunLog, viewer, Feed!Next, Feed!Log
  <2>2. ASSUME NEW v \in Viewers, Admit(v) PROVE Feed!Next
    BY <2>0, <2>2 DEF Admit, run, Progress, Feed!Next, Feed!Watch
  <2>3. ASSUME NEW v \in Viewers, NEW line \in Nat, line > last[v], watch[v] \in Runs,
               line <= lines[watch[v]], last' = [last EXCEPT ![v] = line],
               UNCHANGED <<lines, watch>>
        PROVE  Feed!Next
    <3>1. line \in last[v] + 1 .. lines[watch[v]] /\ watch[v] # NoRun
      BY <2>0, <2>3, RunsAssumption DEF TypeOK
    <3> QED
      BY <2>3, <3>1 DEF Feed!Next, Feed!Show
  <2>4. ASSUME NEW v \in Viewers, Replay(v) \/ Receive(v)
        PROVE  Feed!Next \/ UNCHANGED Feed!vars
    <3>1. CASE v \in left
      BY <2>4, <3>1 DEF Replay, Receive, Send, run, Feed!vars
    <3>2. CASE Replay(v) /\ v \notin left
      <4>1. /\ watch[v] \in Runs /\ last[v] + 1 \in Nat /\ last[v] + 1 > last[v]
            /\ last[v] + 1 <= lines[watch[v]]
        BY <2>0, <3>2 DEF Replay, Progress, TypeOK
      <4> QED
        BY <2>3, <3>2, <4>1 DEF Replay, Send, run
    <3>3. CASE Receive(v) /\ v \notin left
      <4>1. /\ watch[v] \in Runs /\ pos[v] + 1 \in Nat /\ pos[v] + 1 > last[v]
            /\ pos[v] + 1 <= lines[watch[v]]
        BY <2>0, <3>3 DEF Receive, Progress, TypeOK
      <4> QED
        BY <2>3, <3>3, <4>1 DEF Receive, Send, run
    <3> QED
      BY <2>4, <3>1, <3>2, <3>3
  <2>5. ASSUME NEW r \in Runs, StartRun(r) \/ FinishRun(r) \/ DeleteRun(r) \/ ReadRun(r)
        PROVE  UNCHANGED Feed!vars
    BY <2>5 DEF StartRun, FinishRun, DeleteRun, ReadRun, viewer, run, Feed!vars
  <2>6. ASSUME NEW v \in Viewers,
               \/ GetRun(v) \/ SubscribeRunLogs(v) \/ NoSuchRun(v) \/ Replayed(v)
               \/ Lagged(v) \/ Closed(v) \/ Deny(v) \/ Leave(v)
        PROVE  UNCHANGED Feed!vars
    BY <2>6 DEF GetRun, SubscribeRunLogs, NoSuchRun, Replayed, Lagged, Closed, Deny, Leave,
                run, Feed!vars
  <2>7. CASE ListRuns \/ Render \/ UNCHANGED vars
    BY <2>7 DEF ListRuns, Render, vars, viewer, run, Feed!vars
  <2> QED
    BY <2>1, <2>2, <2>4, <2>5, <2>6, <2>7 DEF Next, ViewerStep
<1> QED
  BY <1>1, <1>2, Invariant, PTL DEF Spec, ImplementsFeed, Feed!Spec
=============================================================================
