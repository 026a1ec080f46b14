----------------------------- MODULE TraceStore -----------------------------
(***************************************************************************)
(* The in-memory trace store of autoschematic-server and its readers, for  *)
(* the runs of one repository.  A run keeps every line its connectors      *)
(* wrote, and has a broadcast channel with which a line is sent on to the  *)
(* viewers of the run.  The channel keeps the last Capacity lines: a       *)
(* viewer that is slower loses the older ones.                             *)
(*                                                                         *)
(* All operations take the store's one mutex and are atomic.  A viewer     *)
(* takes it twice: for the lines so far, then for a receiver of the lines  *)
(* to come.  A line is known by its number in its run.                     *)
(***************************************************************************)
EXTENDS Integers, FiniteSets

CONSTANTS
  Runs,      \* calls of start_run
  Deletable, \* the runs delete_run may be called for (no part of the server calls it yet)
  Viewers,   \* websocket connections to a run's log
  NoRun,
  Capacity,  \* lines a run's channel keeps (512 in the code)
  MaxLines   \* bound on the lines of a run

ASSUME RunsAssumption == NoRun \notin Runs /\ Deletable \subseteq Runs
ASSUME CapacityAssumption == Capacity \in Nat \ {0}
ASSUME MaxLinesAssumption == MaxLines \in Nat

VARIABLES
  status,   \* run -> "new", "present", or "deleted"
  finished, \* the runs whose flag is set
  lines,    \* run -> number of lines logged
  phase,    \* viewer -> where its handler or task is
  watch,    \* viewer -> the run it asked for
  snap,     \* viewer -> number of lines in the copy it was given
  start,    \* viewer -> lines logged when it subscribed (a history variable)
  pos,      \* viewer -> the lines its receiver has left behind
  shown,    \* viewer -> the lines sent to its client
  last,     \* viewer -> the line sent last, or 0
  lost,     \* viewer -> lines the channel dropped before it was read (a history variable)
  left,     \* the viewers whose client closed the connection
  page      \* the pull request's page, being put together or not

run    == <<status, finished, lines>>
viewer == <<phase, watch, snap, start, pos, shown, last, lost, left>>
vars   == <<status, finished, lines, phase, watch, snap, start, pos, shown, last, lost,
            left, page>>

Present == {r \in Runs : status[r] = "present"}

(* Mutant: the channel keeps a line less than it was made for. *)
OldestButOne(r) == IF lines[r] >= Capacity THEN lines[r] - Capacity + 1 ELSE 0

(* The lines that the channel of a run no longer has.                      *)
Oldest(r) == IF lines[r] > Capacity THEN lines[r] - Capacity ELSE 0

Init ==
  /\ status = [r \in Runs |-> "new"]
  /\ finished = {}
  /\ lines = [r \in Runs |-> 0]
  /\ phase = [v \in Viewers |-> "new"]
  /\ watch = [v \in Viewers |-> NoRun]
  /\ snap = [v \in Viewers |-> 0]
  /\ start = [v \in Viewers |-> 0]
  /\ pos = [v \in Viewers |-> 0]
  /\ shown = [v \in Viewers |-> {}]
  /\ last = [v \in Viewers |-> 0]
  /\ lost = [v \in Viewers |-> {}]
  /\ left = {}
  /\ page = [at |-> "idle", todo |-> {}]

-----------------------------------------------------------------------------
(* The store.                                                              *)

(* The run and its channel; a task of its own takes from the channel for   *)
(* ever, so that sending never fails for want of a receiver.               *)
StartRun(r) ==
  /\ status[r] = "new"
  /\ status' = [status EXCEPT ![r] = "present"]
  /\ UNCHANGED <<finished, lines, viewer, page>>

(* One mutex for the store: the line is added and sent in one step.  The   *)
(* run may be finished (the test for it is commented out).                 *)
AppendRunLog(r) ==
  /\ status[r] = "present"
  /\ lines[r] < MaxLines
  /\ lines' = [lines EXCEPT ![r] = @ + 1]
  /\ UNCHANGED <<status, finished, viewer, page>>

FinishRun(r) ==
  /\ status[r] = "present"
  /\ finished' = finished \union {r}
  /\ UNCHANGED <<status, lines, viewer, page>>

(* Dropping the run drops the only sender: its channel is closed.          *)
DeleteRun(r) ==
  /\ r \in Deletable
  /\ status[r] = "present"
  /\ status' = [status EXCEPT ![r] = "deleted"]
  /\ UNCHANGED <<finished, lines, viewer, page>>

-----------------------------------------------------------------------------
(* A viewer of a run's log.                                                *)

Goto(v, p) == phase' = [phase EXCEPT ![v] = p]

(* The session and the collaborator are looked up at GitHub.               *)
Admit(v) ==
  /\ phase[v] = "new"
  /\ \E r \in Runs : watch' = [watch EXCEPT ![v] = r]
  /\ Goto(v, "admitted")
  /\ UNCHANGED <<run, snap, start, pos, shown, last, lost, left, page>>

Deny(v) ==
  /\ phase[v] = "new"
  /\ Goto(v, "done")
  /\ UNCHANGED <<run, watch, snap, start, pos, shown, last, lost, left, page>>

GetRun(v) ==
  /\ phase[v] = "admitted"
  /\ status[watch[v]] = "present"
  /\ snap' = [snap EXCEPT ![v] = lines[watch[v]]]
  /\ Goto(v, "copied")
  /\ UNCHANGED <<run, watch, start, pos, shown, last, lost, left, page>>

(* Mutant: a new receiver starts at the line that was sent last. *)
SubscribeAtLast(v) ==
  /\ phase[v] = "copied"
  /\ status[watch[v]] = "present"
  /\ start' = [start EXCEPT ![v] = lines[watch[v]]]
  /\ pos' = [pos EXCEPT ![v] = lines[watch[v]] - 1]
  /\ Goto(v, "replay")
  /\ UNCHANGED <<run, watch, snap, shown, last, lost, left, page>>

(* Mutant: a new receiver starts at the oldest line the channel has. *)
SubscribeAtOldest(v) ==
  /\ phase[v] = "copied"
  /\ status[watch[v]] = "present"
  /\ start' = [start EXCEPT ![v] = Oldest(watch[v])]
  /\ pos' = [pos EXCEPT ![v] = Oldest(watch[v])]
  /\ Goto(v, "replay")
  /\ UNCHANGED <<run, watch, snap, shown, last, lost, left, page>>

SubscribeRunLogs(v) ==
  /\ phase[v] = "copied"
  /\ status[watch[v]] = "present"
  /\ start' = [start EXCEPT ![v] = lines[watch[v]]]
  /\ pos' = [pos EXCEPT ![v] = lines[watch[v]]]
  /\ Goto(v, "replay")
  /\ UNCHANGED <<run, watch, snap, shown, last, lost, left, page>>

NoSuchRun(v) ==
  /\ phase[v] \in {"admitted", "copied"}
  /\ status[watch[v]] # "present"
  /\ Goto(v, "done")
  /\ UNCHANGED <<run, watch, snap, start, pos, shown, last, lost, left, page>>

(* Mutant: that the connection is closed goes unnoticed. *)
SendAnyway(v, line) ==
  /\ shown' = [shown EXCEPT ![v] = @ \union {line}]
  /\ last' = [last EXCEPT ![v] = line]
  /\ UNCHANGED phase

Send(v, line) ==
  IF v \in left
  THEN Goto(v, "done") /\ UNCHANGED <<shown, last>>
  ELSE /\ shown' = [shown EXCEPT ![v] = @ \union {line}]
       /\ last' = [last EXCEPT ![v] = line]
       /\ UNCHANGED phase

Replay(v) ==
  /\ phase[v] = "replay"
  /\ last[v] < snap[v]
  /\ Send(v, last[v] + 1)
  /\ UNCHANGED <<run, watch, snap, start, pos, lost, left, page>>

Replayed(v) ==
  /\ phase[v] = "replay"
  /\ last[v] = snap[v]
  /\ Goto(v, "follow")
  /\ UNCHANGED <<run, watch, snap, start, pos, shown, last, lost, left, page>>

(* Mutant: a viewer stops receiving when the run is finished. *)
ReceiveUntilFinished(v) ==
  /\ phase[v] = "follow"
  /\ watch[v] \notin finished
  /\ pos[v] < lines[watch[v]]
  /\ pos[v] >= Oldest(watch[v])
  /\ Send(v, pos[v] + 1)
  /\ pos' = [pos EXCEPT ![v] = @ + 1]
  /\ UNCHANGED <<run, watch, snap, start, lost, left, page>>

Receive(v) ==
  /\ phase[v] = "follow"
  /\ pos[v] < lines[watch[v]]
  /\ pos[v] >= Oldest(watch[v])
  /\ Send(v, pos[v] + 1)
  /\ pos' = [pos EXCEPT ![v] = @ + 1]
  /\ UNCHANGED <<run, watch, snap, start, lost, left, page>>

(* Mutant: a viewer that lagged goes on with the line after the oldest. *)
LaggedSkipsOne(v) ==
  /\ phase[v] = "follow"
  /\ pos[v] < Oldest(watch[v])
  /\ lost' = [lost EXCEPT ![v] = @ \union (pos[v] + 1 .. Oldest(watch[v]))]
  /\ pos' = [pos EXCEPT ![v] = Oldest(watch[v]) + 1]
  /\ UNCHANGED <<run, phase, watch, snap, start, shown, last, left, page>>

(* RecvError::Lagged is written to the server's log, and the viewer goes   *)
(* on with the oldest line there is.                                       *)
Lagged(v) ==
  /\ phase[v] = "follow"
  /\ pos[v] < Oldest(watch[v])
  /\ lost' = [lost EXCEPT ![v] = @ \union (pos[v] + 1 .. Oldest(watch[v]))]
  /\ pos' = [pos EXCEPT ![v] = Oldest(watch[v])]
  /\ UNCHANGED <<run, phase, watch, snap, start, shown, last, left, page>>

(* RecvError::Closed, when all is read of a run that was deleted, is taken *)
(* as any other: the task logs it and asks again, gets it at once again    *)
(* and does so for ever.  It sends nothing, so the client may go unnoticed.*)
Closed(v) ==
  /\ phase[v] = "follow"
  /\ status[watch[v]] = "deleted"
  /\ pos[v] = lines[watch[v]]
  /\ Goto(v, "spins")
  /\ UNCHANGED <<run, watch, snap, start, pos, shown, last, lost, left, page>>

(* The client goes.  The viewer does not read from the connection while it *)
(* follows the run, and will notice when it sends.                         *)
Leave(v) ==
  /\ phase[v] \in {"replay", "follow", "spins"}
  /\ v \notin left
  /\ left' = left \union {v}
  /\ UNCHANGED <<run, phase, watch, snap, start, pos, shown, last, lost, page>>

-----------------------------------------------------------------------------
(* The page of a pull request: the keys of its runs, then the runs one by  *)
(* one, each under the mutex.                                              *)

ListRuns ==
  /\ page.at # "reading"
  /\ \E r \in Runs : status[r] # "new"
  /\ page' = [at |-> "reading", todo |-> Present]
  /\ UNCHANGED <<run, viewer>>

ReadRun(r) ==
  /\ page.at = "reading"
  /\ r \in page.todo
  /\ page' = IF status[r] = "present"
             THEN [page EXCEPT !.todo = @ \ {r}]
             ELSE [page EXCEPT !.at = "failed"]
  /\ UNCHANGED <<run, viewer>>

Render ==
  /\ page.at = "reading"
  /\ page.todo = {}
  /\ page' = [page EXCEPT !.at = "shown"]
  /\ UNCHANGED <<run, viewer>>

-----------------------------------------------------------------------------
ViewerStep(v) ==
  \/ GetRun(v) \/ SubscribeRunLogs(v) \/ NoSuchRun(v)
  \/ Replay(v) \/ Replayed(v) \/ Receive(v) \/ Lagged(v) \/ Closed(v)

Next ==
  \/ \E r \in Runs : StartRun(r) \/ AppendRunLog(r) \/ FinishRun(r) \/ DeleteRun(r)
  \/ \E v \in Viewers : ViewerStep(v) \/ Admit(v) \/ Deny(v) \/ Leave(v)
  \/ ListRuns \/ Render \/ \E r \in Runs : ReadRun(r)

Spec == Init /\ [][Next]_vars

(* A viewer is a task of the runtime, and sending to a client returns.     *)
FairSpec == Spec /\ \A v \in Viewers : WF_vars(ViewerStep(v))

-----------------------------------------------------------------------------
TypeOK ==
  /\ status \in [Runs -> {"new", "present", "deleted"}]
  /\ finished \in SUBSET Runs
  /\ lines \in [Runs -> Nat]
  /\ phase \in [Viewers -> {"new", "admitted", "copied", "replay", "follow", "spins", "done"}]
  /\ watch \in [Viewers -> Runs \union {NoRun}]
  /\ snap \in [Viewers -> Nat]
  /\ start \in [Viewers -> Nat]
  /\ pos \in [Viewers -> Nat]
  /\ shown \in [Viewers -> SUBSET Nat]
  /\ last \in [Viewers -> Nat]
  /\ lost \in [Viewers -> SUBSET Nat]
  /\ left \in SUBSET Viewers
  /\ page \in [at : {"idle", "reading", "shown", "failed"}, todo : SUBSET Runs]

(* The copy of the lines and the receiver are taken under two locks of the *)
(* mutex, and the channel forgets.  Even so a viewer that follows its run  *)
(* has been shown every line but those logged between the two locks and    *)
(* those the channel dropped before they were read.                        *)
GapsExplained ==
  \A v \in Viewers :
    phase[v] \in {"follow", "spins"} =>
      shown[v] = (1 .. snap[v]) \union ((start[v] + 1 .. pos[v]) \ lost[v])

(* The channel drops a line only when Capacity newer ones were logged      *)
(* after the viewer subscribed: a viewer of a run that says no more than   *)
(* that, or that keeps up, loses nothing.                                  *)
LostToNewer ==
  \A v \in Viewers :
    \A line \in lost[v] : line > start[v] /\ line + Capacity <= lines[watch[v]]

(* What a viewer has, by where it is.                                      *)
Progress(v) ==
  /\ phase[v] = "new" => watch[v] = NoRun
  /\ phase[v] \in {"admitted", "copied", "replay", "follow", "spins"} => watch[v] \in Runs
  /\ lost[v] # {} => watch[v] \in Runs
  /\ phase[v] \in {"new", "admitted", "copied"} =>
       last[v] = 0 /\ shown[v] = {} /\ lost[v] = {}
  /\ phase[v] = "copied" => snap[v] <= lines[watch[v]]
  /\ phase[v] = "replay" =>
       /\ last[v] <= snap[v] /\ shown[v] = 1 .. last[v] /\ lost[v] = {}
       /\ snap[v] <= start[v] /\ start[v] = pos[v]
  /\ phase[v] \in {"follow", "spins"} =>
       /\ last[v] <= pos[v] /\ start[v] <= pos[v]
       /\ lost[v] \subseteq start[v] + 1 .. pos[v]
  /\ phase[v] \in {"replay", "follow", "spins"} => pos[v] <= lines[watch[v]]

IInv == TypeOK /\ GapsExplained /\ LostToNewer /\ \A v \in Viewers : Progress(v)

(* Each viewer sees its run as a LogFeed: the lines of one run, in order,  *)
(* none twice, although they come from two sources.                        *)
Feed == INSTANCE LogFeed WITH
  log <- lines,
  feed <- watch,
  last <- last

ImplementsFeed == Feed!Spec

(* A viewer that is behind catches up with every line, or its client has   *)
(* gone.                                                                   *)
CaughtUp ==
  \A v \in Viewers : \A n \in 1 .. MaxLines :
    (phase[v] = "follow" /\ lines[watch[v]] >= n)
      ~> (pos[v] >= n \/ phase[v] = "done")

(* The task of a viewer whose client has gone ends with the next line of   *)
(* the run, also if it is only part of the way through the first copy.     *)
(* A run that is deleted has no next line: a viewer that has read all of   *)
(* it never ends.                                                          *)
GoneViewerEnds ==
  \A v \in Viewers :
    (v \in left /\ phase[v] = "follow" /\ pos[v] < lines[watch[v]]) ~> (phase[v] = "done")
=============================================================================
