----------------------------- MODULE ConnectorRpc -----------------------------
(***************************************************************************)
(* One connector: its process, the handle that owns the process and its    *)
(* files, and the calls made through the handle, over tarpc or gRPC and    *)
(* with or without the sandbox.                                            *)
(*                                                                         *)
(* The process binds a socket and serves one call at a time behind a       *)
(* mutex.  A tarpc call has a deadline, kept by the client and by the      *)
(* server; a gRPC call has none, and its client holds a mutex of its own   *)
(* until the answer is there.                                              *)
(*                                                                         *)
(* The data are what the bridges tell apart: an optional argument or       *)
(* answer is absent, empty, or has something in it, and an answer may have *)
(* an output that is blank, or ask for the removal of one.  A field of a   *)
(* protocol buffer cannot be absent: it has its default value.             *)
(*                                                                         *)
(* The connector itself is external: it may act, fail, hang or panic in    *)
(* any call, and its process may fail or be killed at any time.            *)
(***************************************************************************)
EXTENDS Naturals, FiniteSets

CONSTANTS
  Calls,   \* calls made through the handle, each made once
  Makes,   \* call -> the operations it may be
  NoCall

ASSUME CallsAssumption == NoCall \notin Calls

VARIABLES
  mode,   \* the protocol, and whether the connector is sandboxed
  proc,   \* the process of the connector
  sock,   \* the socket file exists
  dump,   \* the error dump exists
  handle, \* the handle of the connector
  call,   \* call -> how far its caller and its handler are
  lock    \* the call whose handler has the connector, or NoCall

vars == <<mode, proc, sock, dump, handle, call, lock>>

Procs == {"none", "boots", "up", "fails", "dead"}
Handles == {"none", "waits", "ready", "failed", "dropping", "dropped"}
Callers == {"idle", "queued", "sent", "ok", "err", "cancelled"}
Handlers == {"none", "waits", "runs", "acted", "hangs", "blocks", "replied", "gone"}

Grpc == mode.proto = "grpc"
Pending(c) == call[c].caller \in {"queued", "sent"}
Busy == {"waits", "runs", "acted", "hangs", "blocks"}

-----------------------------------------------------------------------------
(* What the operations may carry.                                          *)

Args == [get |-> {"text"}, subpaths |-> {"text"}, plan |-> {"absent", "empty", "text"}, op_exec |-> {"text"},
         diag |-> {"text"}, task_exec |-> {"absent", "empty", "text"}]
Answers == [get |-> {"absent", "empty", "value"},
            subpaths |-> {"value"},
            plan |-> {"value"},
            op_exec |-> {"absent", "empty", "value", "blank", "removal"},
            diag |-> {"absent", "empty", "value"},
            task_exec |-> {"absent", "empty", "value", "blank", "removal"}]
Ops == DOMAIN Args

ASSUME MakesAssumption == Makes \in [Calls -> SUBSET Ops]

(* Mutant: also a text that is there is left out. *)
PlanToWireNothing(x) == "default"

(* unwrap_or_default, and the test that undoes it.                         *)
ToWire(x) == IF x \in {"absent", "empty"} THEN "default" ELSE x
PlanToWire(x) == ToWire(x)
PlanFromWire(w) == IF w = "default" THEN "absent" ELSE w
FromWire(w) == IF w = "default" THEN "absent" ELSE w

(* An output to be removed is no entry of the map that is sent; of a task  *)
(* a blank one is an entry that its reader passes over.                    *)
OpExecToWire(x) == IF x = "removal" THEN "default" ELSE ToWire(x)
OpExecFromWire(w) == FromWire(w)
TaskToWire(x) == IF x = "removal" THEN "default" ELSE ToWire(x)
TaskFromWire(w) == IF w \in {"default", "blank"} THEN "empty" ELSE w

GrpcSeen(op, x) == IF op = "plan" THEN PlanFromWire(PlanToWire(x)) ELSE FromWire(ToWire(x))
GrpcGot(op, x) ==
  CASE op = "op_exec" -> OpExecFromWire(OpExecToWire(x))
    [] op = "task_exec" -> TaskFromWire(TaskToWire(x))
    [] OTHER -> FromWire(ToWire(x))

(* Bincode keeps an option as it is.                                       *)
Seen(op, x) == IF Grpc THEN GrpcSeen(op, x) ELSE x
Got(op, x) == IF Grpc THEN GrpcGot(op, x) ELSE x

-----------------------------------------------------------------------------
NotMade == [caller |-> "idle", handler |-> "none", op |-> "get", arg |-> "text",
            seen |-> "none", acts |-> 0, answer |-> "none", got |-> "none"]

Init ==
  /\ mode \in [proto : {"tarpc", "grpc"}, sandboxed : BOOLEAN]
  /\ proc = "none"
  /\ sock = FALSE
  /\ dump = FALSE
  /\ handle = "none"
  /\ call = [c \in Calls |-> NotMade]
  /\ lock = NoCall

-----------------------------------------------------------------------------
(* Launching.                                                              *)

(* Secrets that cannot be unsealed, a variable that is not set or a        *)
(* pre_command that fails end it before the process exists.                *)
Launch ==
  /\ handle = "none"
  /\ ~mode.sandboxed
  /\ \/ handle' = "failed" /\ UNCHANGED proc
     \/ handle' = "waits" /\ proc' = "boots"
  /\ UNCHANGED <<mode, sock, dump, call, lock>>

(* clone() can fail too; there is no pre_command.                          *)
LaunchSandboxed ==
  /\ handle = "none"
  /\ mode.sandboxed
  /\ \/ handle' = "failed" /\ UNCHANGED proc
     \/ handle' = "waits" /\ proc' = "boots"
  /\ UNCHANGED <<mode, sock, dump, call, lock>>

(* The process: the connector is made, then the socket is bound.           *)
Bind ==
  /\ proc = "boots"
  /\ proc' = "up"
  /\ sock' = TRUE
  /\ UNCHANGED <<mode, dump, handle, call, lock>>

Connect ==
  /\ handle = "waits"
  /\ sock
  /\ proc = "up"
  /\ handle' = "ready"
  /\ UNCHANGED <<mode, proc, sock, dump, call, lock>>

(* What ends with the process: its handlers, and what they hold.           *)
Die ==
  /\ proc' = IF proc = "none" THEN "none" ELSE "dead"
  /\ call' = [c \in Calls |-> IF call[c].handler \in Busy
                              THEN [call[c] EXCEPT !.handler = "gone"] ELSE call[c]]
  /\ lock' = NoCall

(* No socket in five seconds, or one that refuses.  A child of its own is  *)
(* killed when it is dropped; of a sandbox only the pid is known, and it   *)
(* runs on.  The files stay.                                               *)
GiveUp ==
  /\ handle = "waits"
  /\ handle' = "failed"
  /\ IF mode.sandboxed THEN UNCHANGED <<proc, call, lock>> ELSE Die
  /\ UNCHANGED <<mode, sock, dump>>

-----------------------------------------------------------------------------
(* The end of the process.                                                 *)

(* launch_server returns an error ...                                      *)
Fail ==
  /\ proc \in {"boots", "up"}
  /\ proc' = "fails"
  /\ UNCHANGED <<mode, sock, dump, handle, call, lock>>

(* ... and main writes it down.                                            *)
WriteDump ==
  /\ proc = "fails"
  /\ dump' = TRUE
  /\ Die
  /\ UNCHANGED <<mode, sock, handle>>

(* It is killed by someone else, or exits without a word.                  *)
Crash ==
  /\ proc \in {"boots", "up", "fails"}
  /\ Die
  /\ UNCHANGED <<mode, sock, dump, handle>>

(* clear() kills the connector while others may still hold the handle.     *)
Kill ==
  /\ handle = "ready"
  /\ proc # "dead"
  /\ Die
  /\ UNCHANGED <<mode, sock, dump, handle>>

(* A step of setting up the sandbox fails in the cloned process, which     *)
(* panics before the connector is there to write an error dump.            *)
SandboxFails ==
  /\ mode.sandboxed
  /\ proc = "boots"
  /\ Die
  /\ UNCHANGED <<mode, sock, dump, handle>>

(* Mutant: the last holder leaves the process to itself. *)
DropFilesOnly ==
  /\ handle = "ready"
  /\ \A c \in Calls : ~Pending(c)
  /\ ~mode.sandboxed
  /\ sock' = FALSE
  /\ dump' = FALSE
  /\ handle' = "dropped"
  /\ UNCHANGED <<mode, proc, call, lock>>

(* The last holder lets go of the handle: the child is killed, then the    *)
(* files are removed.                                                      *)
Drop ==
  /\ handle = "ready"
  /\ \A c \in Calls : ~Pending(c)
  /\ ~mode.sandboxed
  /\ Die
  /\ sock' = FALSE
  /\ dump' = FALSE
  /\ handle' = "dropped"
  /\ UNCHANGED mode

(* With the sandbox the files are removed first.                           *)
DropSandboxed ==
  /\ handle = "ready"
  /\ \A c \in Calls : ~Pending(c)
  /\ mode.sandboxed
  /\ sock' = FALSE
  /\ dump' = FALSE
  /\ handle' = "dropping"
  /\ UNCHANGED <<mode, proc, call, lock>>

DropKills ==
  /\ handle = "dropping"
  /\ Die
  /\ handle' = "dropped"
  /\ UNCHANGED <<mode, sock, dump>>

-----------------------------------------------------------------------------
(* A call, on the side of the caller.                                      *)

(* kill(pid, 0): a child that nobody waits for stays a zombie, so for the  *)
(* sandboxed handle every process it started is alive.                     *)
StillAlive == proc # "none"

(* A request on the connection; nothing arrives at a process that is dead. *)
Sent(r) == [r EXCEPT !.caller = "sent",
                     !.handler = IF proc \in {"up", "fails"} THEN "waits" ELSE "none"]

(* The sandboxed handle does not pass subpaths() on.                       *)
Asked(c) == IF mode.sandboxed THEN Makes[c] \ {"subpaths"} ELSE Makes[c]

Start(c) ==
  /\ handle = "ready"
  /\ call[c].caller = "idle"
  /\ mode.sandboxed => StillAlive
  /\ \E op \in Asked(c) : \E arg \in Args[op] :
       LET made == [NotMade EXCEPT !.op = op, !.arg = arg] IN
       call' = [call EXCEPT ![c] = IF Grpc THEN [made EXCEPT !.caller = "queued"]
                                   ELSE Sent(made)]
  /\ UNCHANGED <<mode, proc, sock, dump, handle, lock>>

(* It gives the answer of a connector that has none of its own.            *)
OwnSubpaths(c) ==
  /\ handle = "ready"
  /\ call[c].caller = "idle"
  /\ "subpaths" \in Makes[c] \ Asked(c)
  /\ call' = [call EXCEPT ![c] = [NotMade EXCEPT !.op = "subpaths", !.caller = "ok",
                                                 !.got = "empty"]]
  /\ UNCHANGED <<mode, proc, sock, dump, handle, lock>>

(* The mutex around the gRPC client is held until the answer is there.     *)
GrpcSend(c) ==
  /\ call[c].caller = "queued"
  /\ \A d \in Calls : call[d].caller # "sent"
  /\ call' = [call EXCEPT ![c] = Sent(@)]
  /\ UNCHANGED <<mode, proc, sock, dump, handle, lock>>

Receive(c) ==
  /\ call[c].caller = "sent"
  /\ call[c].handler = "replied"
  /\ mode.sandboxed => StillAlive
  /\ call' = [call EXCEPT ![c].caller = IF call[c].answer = "error" THEN "err" ELSE "ok",
                          ![c].got = Got(call[c].op, call[c].answer)]
  /\ UNCHANGED <<mode, proc, sock, dump, handle, lock>>

(* The connection is closed.                                               *)
Broken(c) ==
  /\ call[c].caller = "sent"
  /\ proc = "dead" \/ (Grpc /\ call[c].handler = "gone")
  /\ call' = [call EXCEPT ![c].caller = "err"]
  /\ UNCHANGED <<mode, proc, sock, dump, handle, lock>>

(* Mutant: only a call that is being served has a deadline. *)
DeadlineWhileServed(c) ==
  /\ ~Grpc
  /\ call[c].caller = "sent"
  /\ call[c].handler \in {"runs", "acted"}
  /\ call' = [call EXCEPT ![c].caller = "err"]
  /\ UNCHANGED <<mode, proc, sock, dump, handle, lock>>

(* Every tarpc call has a deadline, from a minute to a hundred.            *)
Deadline(c) ==
  /\ ~Grpc
  /\ call[c].caller = "sent"
  /\ call' = [call EXCEPT ![c].caller = "err"]
  /\ UNCHANGED <<mode, proc, sock, dump, handle, lock>>

(* The caller no longer wants the answer, and drops the call.              *)
Cancel(c) ==
  /\ Pending(c)
  /\ call' = [call EXCEPT ![c].caller = "cancelled"]
  /\ UNCHANGED <<mode, proc, sock, dump, handle, lock>>

-----------------------------------------------------------------------------
(* A call, on the side of the process.                                     *)

Alive == proc \in {"up", "fails"}
Release(c) == lock' = IF lock = c THEN NoCall ELSE lock

Acquire(c) ==
  /\ Alive
  /\ call[c].handler = "waits"
  /\ lock = NoCall
  /\ lock' = c
  /\ call' = [call EXCEPT ![c].handler = "runs", ![c].seen = Seen(call[c].op, call[c].arg)]
  /\ UNCHANGED <<mode, proc, sock, dump, handle>>

(* The connector does what it is asked.                                    *)
Act(c) ==
  /\ Alive
  /\ call[c].handler = "runs"
  /\ call' = [call EXCEPT ![c].handler = "acted", ![c].acts = @ + 1]
  /\ UNCHANGED <<mode, proc, sock, dump, handle, lock>>

(* It returns; with an error it may have acted or not.                     *)
Reply(c) ==
  /\ Alive
  /\ \E x \in Answers[call[c].op] \union {"error"} :
       /\ call[c].handler = "acted" \/ (call[c].handler = "runs" /\ x = "error")
       /\ call' = [call EXCEPT ![c].handler = "replied", ![c].answer = x]
  /\ Release(c)
  /\ UNCHANGED <<mode, proc, sock, dump, handle>>

(* It never returns, and awaits or blocks its thread.                      *)
Hang(c) ==
  /\ Alive
  /\ call[c].handler \in {"runs", "acted"}
  /\ \E h \in {"hangs", "blocks"} : call' = [call EXCEPT ![c].handler = h]
  /\ UNCHANGED <<mode, proc, sock, dump, handle, lock>>

(* It panics: only the task of the call ends.                              *)
Panic(c) ==
  /\ Alive
  /\ call[c].handler \in {"runs", "acted"}
  /\ call' = [call EXCEPT ![c].handler = "gone"]
  /\ Release(c)
  /\ UNCHANGED <<mode, proc, sock, dump, handle>>

(* Mutant: what was held when a handler is dropped stays held. *)
AbortKeepsLock(c) ==
  /\ Alive
  /\ call[c].handler \in {"waits", "runs", "acted", "hangs"}
  /\ ~Grpc \/ call[c].caller = "cancelled"
  /\ call' = [call EXCEPT ![c].handler = "gone"]
  /\ UNCHANGED <<mode, proc, sock, dump, handle, lock>>

(* The handler is dropped, where it awaits: the deadline has passed at the *)
(* server, or the caller has cancelled the call.                           *)
Abort(c) ==
  /\ Alive
  /\ call[c].handler \in {"waits", "runs", "acted", "hangs"}
  /\ ~Grpc \/ call[c].caller = "cancelled"
  /\ call' = [call EXCEPT ![c].handler = "gone"]
  /\ Release(c)
  /\ UNCHANGED <<mode, proc, sock, dump, handle>>

-----------------------------------------------------------------------------
Caller(c) ==
  Start(c) \/ OwnSubpaths(c) \/ GrpcSend(c) \/ Receive(c) \/ Broken(c) \/ Deadline(c) \/ Cancel(c)
Handler(c) == Acquire(c) \/ Act(c) \/ Reply(c) \/ Hang(c) \/ Panic(c) \/ Abort(c)

Next ==
  \/ Launch \/ LaunchSandboxed \/ Bind \/ Connect \/ GiveUp
  \/ SandboxFails \/ Fail \/ WriteDump \/ Crash \/ Kill
  \/ Drop \/ DropSandboxed \/ DropKills
  \/ \E c \in Calls : Caller(c) \/ Handler(c)

Spec == Init /\ [][Next]_vars

(* A launch that waits ends in five seconds, the tarpc client has its      *)
(* timers, an answer is read and a closed connection noticed, and the      *)
(* connector takes up and leaves a call unless it hangs.                   *)
FairSpec ==
  /\ Spec
  /\ WF_vars(GiveUp)
  /\ \A c \in Calls :
       /\ WF_vars(GrpcSend(c)) /\ WF_vars(Receive(c)) /\ WF_vars(Broken(c))
       /\ WF_vars(Deadline(c))
       /\ WF_vars(Acquire(c)) /\ WF_vars(Act(c)) /\ WF_vars(Reply(c))
       /\ WF_vars(Abort(c) /\ call[c].caller = "cancelled")

-----------------------------------------------------------------------------
(* The types of the variables.  The connector is held by the handler that  *)
(* works with it, and by no other (ConnectorServer, GrpcConnectorServer).  *)
TypeOK ==
  /\ mode \in [proto : {"tarpc", "grpc"}, sandboxed : BOOLEAN]
  /\ proc \in Procs
  /\ sock \in BOOLEAN
  /\ dump \in BOOLEAN
  /\ handle \in Handles
  /\ call \in [Calls -> [caller : Callers, handler : Handlers, op : Ops,
                         arg : {"absent", "empty", "text"},
                         seen : {"none", "absent", "empty", "text"}, acts : 0 .. 1,
                         answer : {"none", "absent", "empty", "value", "blank", "removal", "error"},
                         got : {"none", "absent", "empty", "value", "blank", "removal", "error"}]]
  /\ lock \in Calls \union {NoCall}
  /\ \A c \in Calls : call[c].handler \in {"runs", "acted", "hangs", "blocks"} <=> lock = c

(* A call that succeeds was carried out once, on the text it was given,    *)
(* and its caller gets the values the connector returned.  Over tarpc      *)
(* nothing at all is changed on the way; over gRPC an empty text becomes   *)
(* no text (a plan for an empty file is a plan for its deletion), a        *)
(* request to remove an output is lost, and so is a blank output of a      *)
(* task, but not of an op.  A sandboxed connector is never asked for its   *)
(* subpaths.                                                               *)
OkIsTruthful ==
  \A c \in Calls : call[c].caller = "ok" /\ ~(mode.sandboxed /\ call[c].op = "subpaths") =>
    /\ call[c].acts = 1
    /\ call[c].arg = "text" <=> call[c].seen = "text"
    /\ call[c].answer = "value" <=> call[c].got = "value"
    /\ ~Grpc => call[c].seen = call[c].arg /\ call[c].got = call[c].answer
    /\ call[c].got = "removal" => ~Grpc
    /\ call[c].op # "task_exec" => (call[c].answer = "blank" <=> call[c].got = "blank")

(* Once the handle is gone so are the process and its files, also when     *)
(* calls that ran out of time were still being served; only the sandboxed  *)
(* one can leave an error dump, written between the removal of the files   *)
(* and the kill.  A launch that fails leaves a process only in the sandbox.*)
NothingLeftBehind ==
  /\ handle = "dropped" =>
       /\ proc = "dead" /\ ~sock
       /\ dump => mode.sandboxed
       /\ \A c \in Calls : call[c].handler \notin Busy
  /\ handle = "failed" /\ ~mode.sandboxed => proc \in {"none", "dead"}

(* Nobody waits for ever: a launch ends, a tarpc call ends whatever the    *)
(* connector does, and a gRPC call ends unless a handler hangs that its    *)
(* caller has not given up, or blocks its thread.                          *)
Stuck ==
  \E d \in Calls : \/ call[d].handler = "hangs" /\ call[d].caller # "cancelled"
                   \/ call[d].handler = "blocks"
CallEnds ==
  /\ handle = "waits" ~> handle # "waits"
  /\ \A c \in Calls : Pending(c) ~> (~Pending(c) \/ (Grpc /\ Stuck))
=============================================================================
