------------------------------ MODULE AuxTasks ------------------------------
(***************************************************************************)
(* The auxiliary tasks of autoschematic-server, for one task name.  A call *)
(* of spawn_task makes a run: a task, a reader that takes the task's       *)
(* messages and writes its state into the registry, and two bounded        *)
(* channels.  The registry's entry holds the only sender of the run's      *)
(* inbox.  The registry is behind a read-write lock: spawn_task holds it   *)
(* for writing while the task is built, and dispatch holds it for reading  *)
(* while it sends a webhook's comment to the task.                         *)
(*                                                                         *)
(* A test task drives a pull request: it posts a command as a comment (by  *)
(* way of its reader), and waits until a webhook brings it a comment of a  *)
(* type it expects as the answer.                                          *)
(***************************************************************************)
EXTENDS Naturals, Sequences, FiniteSets

CONSTANTS
  Runs,        \* the calls of spawn_task
  Dispatchers, \* webhooks dispatched concurrently
  Nobody,      \* no run
  InboxSize,   \* capacity of a task's inbox (64 in the code)
  Replies,     \* the types of comments the server may answer with (all, in the code)
  MaxMail      \* bound on the server's comments under way

ASSUME NobodyAssumption == Nobody \notin Runs
ASSUME InboxSizeAssumption == InboxSize \in Nat \ {0}
ASSUME MaxMailAssumption == MaxMail \in Nat

VARIABLES
  entry,   \* the run whose entry is registered, or Nobody
  state,   \* the TaskState of the entry
  writer,  \* the call that holds the registry for writing, or Nobody
  sending, \* dispatcher -> the comment it is sending under the read lock, or NoComment
  call,    \* run -> where its call of spawn_task is
  reader,  \* run -> whether its reader is on
  outbox,  \* run -> messages of the task its reader has not dealt with
  inbox,   \* run -> messages the task has not taken
  task,    \* run -> where the task is
  next,    \* run -> the step of its script it will ask for, or waits to see answered
  asked,   \* run -> the command on GitHub the server has not handled, or "none"
  mail     \* comments by the server that no webhook has brought yet

vars == <<entry, state, writer, sending, call, reader, outbox, inbox, task, next,
          asked, mail>>

(* The script of a fuzz test: open a pull request, then for ever pull the   *)
(* state, plan, and if there are changes apply and pull again; a plan with  *)
(* deferrals is repeated.                                                   *)
Steps == {"open", "pull", "plan", "apply", "applyDeferred", "pullAgain", "pullDeferred"}
Command(step) ==
  CASE step \in {"pull", "pullAgain", "pullDeferred"} -> "pull-state"
    [] step \in {"apply", "applyDeferred"} -> "apply"
    [] OTHER -> step
Commands == {"open", "plan", "apply", "pull-state"}

(* The types of the comment in which a command's handler ends, if any. *)
Answers(command) ==
  CASE command = "open" -> {"greeting"}
    [] command = "plan" ->
         {"plan_error", "plan_deferral_loop", "plan_no_changes", "plan_overall_success",
          "plan_overall_success_with_deferrals", "plan_overall_error"}
    [] command = "apply" -> {"apply_error", "apply_overall_success", "apply_no_plan"}
    [] command = "pull-state" ->
         {"pull_state_success_with_deferrals", "pull_state_success", "pull_state_clean",
          "filter_matched_no_files", "pull_state_error"}
Refusals(command) == IF command = "open" THEN {} ELSE {"pr_lock_held", "misc_error"}

(* The types a task waits for, and those among them that end the task. *)
Awaited(command) ==
  CASE command = "open" -> {"greeting"}
    [] command = "plan" ->
         {"plan_overall_success", "plan_overall_success_with_deferrals", "plan_overall_error",
          "plan_no_changes", "filter_matched_no_files", "misc_error"}
    [] command = "apply" -> {"apply_overall_success", "apply_error", "misc_error"}
    [] command = "pull-state" ->
         {"pull_state_success", "pull_state_with_deferrals", "pull_state_clean",
          "pull_state_error", "filter_matched_no_files", "misc_error"}
Failures == {"plan_overall_error", "apply_error", "pull_state_error", "misc_error"}

(* After a state is through, the next one, or a merge and another request. *)
NextState == {"pull", "open"}

FollowUps(step, answer) ==
  CASE step = "open" -> NextState
    [] step = "pull" -> {"plan"}
    [] step = "plan" ->
         (CASE answer = "plan_overall_success" -> {"apply"}
            [] answer = "plan_overall_success_with_deferrals" -> {"applyDeferred"}
            [] OTHER -> NextState)
    [] step = "apply" -> {"pullAgain"}
    [] step = "applyDeferred" -> {"pullDeferred"}
    [] step = "pullAgain" -> NextState
    [] step = "pullDeferred" -> {"plan"}

Types == UNION {Answers(c) \cup Refusals(c) : c \in Commands}
Comment == [run : Runs \cup {Nobody}, type : Types \cup {"other"}]
NoComment == [run |-> Nobody, type |-> "none"]
Noise == [run |-> Nobody, type |-> "other"]

TaskPC == {"none", "starting", "clone", "work", "wait", "ended"}
Alive(r) == task[r] \notin {"none", "ended"}

(* task_outbox and task_inbox belong to the call, then to the task. *)
Connected(r) == call[r] = "new" \/ Alive(r)

(* Writing needs the registry's lock to be free, reading needs no writer. *)
Free == writer = Nobody /\ \A d \in Dispatchers : sending[d] = NoComment

TypeOK ==
  /\ entry \in Runs \cup {Nobody}
  /\ state \in {"Stopped", "Running", "Error"}
  /\ writer \in Runs \cup {Nobody}
  /\ sending \in [Dispatchers -> Comment \cup {NoComment}]
  /\ call \in [Runs -> {"none", "new", "done"}]
  /\ reader \in [Runs -> {"none", "on", "ended"}]
  /\ outbox \in [Runs -> Seq({"Running", "Error"} \cup Commands)]
  /\ inbox \in [Runs -> Seq({"ShutDown", "other"} \cup Types)]
  /\ task \in [Runs -> TaskPC]
  /\ next \in [Runs -> Steps]
  /\ asked \in [Runs -> Commands \cup {"none"}]
  /\ mail \subseteq Comment /\ Cardinality(mail) <= MaxMail
  /\ \A r \in Runs :
       /\ writer = r <=> call[r] = "new"
       /\ Alive(r) => call[r] = "done" /\ entry # Nobody
       /\ Connected(r) => reader[r] = "on"
       /\ inbox[r] # <<>> => Alive(r)

Init ==
  /\ entry = Nobody
  /\ state = "Stopped"
  /\ writer = Nobody
  /\ sending = [d \in Dispatchers |-> NoComment]
  /\ call = [r \in Runs |-> "none"]
  /\ reader = [r \in Runs |-> "none"]
  /\ outbox = [r \in Runs |-> <<>>]
  /\ inbox = [r \in Runs |-> <<>>]
  /\ task = [r \in Runs |-> "none"]
  /\ next = [r \in Runs |-> "open"]
  /\ asked = [r \in Runs |-> "none"]
  /\ mail = {}

UnchangedRegistry == UNCHANGED <<entry, state, writer>>
UnchangedTask == UNCHANGED <<inbox, task, next>>
UnchangedGitHub == UNCHANGED <<asked, mail>>

Send(r, message) == outbox' = [outbox EXCEPT ![r] = Append(@, message)]
GoTo(r, at) == task' = [task EXCEPT ![r] = at]

-----------------------------------------------------------------------------
(* spawn_task; the lock on the registry is all a call waits for on its way. *)

(* "Task already running" *)
Refuse(r) ==
  /\ call[r] = "none"
  /\ Free
  /\ entry # Nobody /\ state = "Running"
  /\ call' = [call EXCEPT ![r] = "done"]
  /\ reader' = [reader EXCEPT ![r] = "on"]
  /\ UNCHANGED <<sending, outbox>>
  /\ UnchangedRegistry /\ UnchangedTask /\ UnchangedGitHub

Begin(r) ==
  /\ call[r] = "none"
  /\ Free
  /\ entry = Nobody \/ state # "Running"
  /\ writer' = r
  /\ call' = [call EXCEPT ![r] = "new"]
  /\ reader' = [reader EXCEPT ![r] = "on"]
  /\ Send(r, "Running")
  /\ UNCHANGED <<entry, state, sending>>
  /\ UnchangedTask /\ UnchangedGitHub

(* Mutant of NewOk: the task runs, but its entry is not inserted. *)
NewUnregistered(r) ==
  /\ call[r] = "new"
  /\ Send(r, "Running")
  /\ writer' = Nobody
  /\ call' = [call EXCEPT ![r] = "done"]
  /\ GoTo(r, "starting")
  /\ UNCHANGED <<entry, state, sending, reader, inbox, next>>
  /\ UnchangedGitHub

(* The new entry replaces the old one, and with it the sender of the inbox  *)
(* of the old entry's run.                                                  *)
NewOk(r) ==
  /\ call[r] = "new"
  /\ Send(r, "Running")
  /\ entry' = r
  /\ state' = "Stopped"
  /\ writer' = Nobody
  /\ call' = [call EXCEPT ![r] = "done"]
  /\ GoTo(r, "starting")
  /\ UNCHANGED <<sending, reader, inbox, next>>
  /\ UnchangedGitHub

(* No client for GitHub, no such test type, no temporary directory *)
NewFails(r, sent) ==
  /\ call[r] = "new"
  /\ IF sent THEN Send(r, "Running") ELSE UNCHANGED outbox
  /\ writer' = Nobody
  /\ call' = [call EXCEPT ![r] = "done"]
  /\ UNCHANGED <<entry, state, sending, reader>>
  /\ UnchangedTask /\ UnchangedGitHub

-----------------------------------------------------------------------------
(* The reader of a run deals with the messages of the task one by one. *)

Read(r, messages) ==
  /\ reader[r] = "on"
  /\ outbox[r] # <<>> /\ Head(outbox[r]) \in messages
  /\ outbox' = [outbox EXCEPT ![r] = Tail(@)]
  /\ UNCHANGED <<sending, call, reader>>

(* The entry is found by its key: it may be that of another run by now. *)
SetState(r) ==
  /\ Read(r, {"Running", "Error"})
  /\ Free
  /\ state' = IF entry = Nobody THEN state ELSE Head(outbox[r])
  /\ UNCHANGED <<entry, writer>>
  /\ UnchangedTask /\ UnchangedGitHub

(* What the server makes of a task's request after its end is not followed. *)
PostComment(r) ==
  /\ Read(r, Commands)
  /\ asked' = [asked EXCEPT ![r] = IF Alive(r) THEN Head(outbox[r]) ELSE "none"]
  /\ UNCHANGED mail
  /\ UnchangedRegistry /\ UnchangedTask

(* Five attempts failed: the comment is given up, and nobody is told. *)
GiveUpComment(r) ==
  /\ Read(r, Commands)
  /\ UnchangedRegistry /\ UnchangedTask /\ UnchangedGitHub

(* Mutant of HangUp: the reader leaves Running alone, too. *)
HangUpQuietly(r) ==
  /\ reader[r] = "on"
  /\ outbox[r] = <<>> /\ ~Connected(r)
  /\ Free
  /\ reader' = [reader EXCEPT ![r] = "ended"]
  /\ UNCHANGED <<entry, state, writer, sending, call, outbox>>
  /\ UnchangedTask /\ UnchangedGitHub

(* All senders are gone: the reader leaves Error and Stopped alone. *)
HangUp(r) ==
  /\ reader[r] = "on"
  /\ outbox[r] = <<>> /\ ~Connected(r)
  /\ Free
  /\ state' = IF entry # Nobody /\ state = "Running" THEN "Stopped" ELSE state
  /\ reader' = [reader EXCEPT ![r] = "ended"]
  /\ UNCHANGED <<entry, writer, sending, call, outbox>>
  /\ UnchangedTask /\ UnchangedGitHub

-----------------------------------------------------------------------------
(* The task *)

(* drain_inbox stops at a ShutDown with an error; the caller drops it. *)
Drain(r) ==
  LET stops == {i \in DOMAIN inbox[r] : inbox[r][i] = "ShutDown"}
      first == CHOOSE i \in stops : \A j \in stops : i <= j
  IN  inbox' = [inbox EXCEPT ![r] =
                  IF stops = {} THEN <<>> ELSE SubSeq(@, first + 1, Len(@))]

Start(r) ==
  /\ task[r] = "starting"
  /\ Send(r, "Running")
  /\ Drain(r)
  /\ GoTo(r, "clone")
  /\ UNCHANGED <<sending, call, reader, next>>
  /\ UnchangedRegistry /\ UnchangedGitHub

CloneOk(r) ==
  /\ task[r] = "clone"
  /\ Drain(r)
  /\ GoTo(r, "work")
  /\ UNCHANGED <<sending, call, reader, outbox, next>>
  /\ UnchangedRegistry /\ UnchangedGitHub

(* From here on, comments on the task's pull request are like any others.   *)
Forget(r) ==
  /\ mail' = {c \in mail : c.run # r}
  /\ sending' = [d \in Dispatchers |-> IF sending[d].run = r THEN Noise ELSE sending[d]]

(* run() returns, and with the task all it holds is dropped. *)
End(r) ==
  /\ GoTo(r, "ended")
  /\ inbox' = [inbox EXCEPT ![r] = <<>>]
  /\ next' = [next EXCEPT ![r] = "open"]
  /\ asked' = [asked EXCEPT ![r] = "none"]
  /\ Forget(r)
  /\ UNCHANGED <<call, reader>>
  /\ UnchangedRegistry

(* The caller of run() sends the error on. *)
Fail(r) == Send(r, "Error") /\ End(r)

(* git, GitHub or the file system failed. *)
TaskFails(r) ==
  /\ task[r] \in {"clone", "work"}
  /\ Fail(r)

(* A task of the other type, pull_request_by_task, has nothing more to do. *)
TaskSucceeds(r) ==
  /\ task[r] = "work" /\ next[r] = "open"
  /\ End(r)
  /\ UNCHANGED outbox

OpenPullRequest(r) ==
  LET message(m) == IF m = "ShutDown" THEN m ELSE "other" IN
  /\ task[r] = "work" /\ next[r] = "open"
  /\ asked' = [asked EXCEPT ![r] = "open"]
  /\ Forget(r)
  /\ inbox' = [inbox EXCEPT ![r] = [i \in DOMAIN @ |-> message(@[i])]]
  /\ GoTo(r, "wait")
  /\ UNCHANGED <<call, reader, outbox, next>>
  /\ UnchangedRegistry

(* Mutant of Ask: the task does not wait for the answer. *)
AskOnly(r) ==
  /\ task[r] = "work" /\ next[r] # "open"
  /\ Send(r, Command(next[r]))
  /\ UNCHANGED <<sending, call, reader, inbox, task, next>>
  /\ UnchangedRegistry /\ UnchangedGitHub

Ask(r) ==
  /\ task[r] = "work" /\ next[r] # "open"
  /\ Send(r, Command(next[r]))
  /\ GoTo(r, "wait")
  /\ UNCHANGED <<sending, call, reader, inbox, next>>
  /\ UnchangedRegistry /\ UnchangedGitHub

(* wait_for_comment_types takes a message. *)
Hear(r) ==
  LET m == Head(inbox[r]) IN
  /\ task[r] = "wait"
  /\ inbox[r] # <<>>
  /\ m \in Awaited(Command(next[r])) \ Failures
  /\ inbox' = [inbox EXCEPT ![r] = Tail(@)]
  /\ \E step \in FollowUps(next[r], m) : next' = [next EXCEPT ![r] = step]
  /\ GoTo(r, "work")
  /\ UNCHANGED <<sending, call, reader, outbox>>
  /\ UnchangedRegistry /\ UnchangedGitHub

HearFailure(r) ==
  /\ task[r] = "wait"
  /\ inbox[r] # <<>>
  /\ Head(inbox[r]) \in {"ShutDown"} \cup (Awaited(Command(next[r])) \cap Failures)
  /\ Fail(r)

Ignore(r) ==
  /\ task[r] = "wait"
  /\ inbox[r] # <<>>
  /\ Head(inbox[r]) \notin {"ShutDown"} \cup Awaited(Command(next[r]))
  /\ inbox' = [inbox EXCEPT ![r] = Tail(@)]
  /\ UNCHANGED <<sending, call, reader, outbox, task, next>>
  /\ UnchangedRegistry /\ UnchangedGitHub

(* Mutant of Orphaned: the sender outlives the entry that was replaced. *)
NeverOrphaned(r) ==
  /\ task[r] = "wait"
  /\ inbox[r] = <<>>
  /\ entry = Nobody
  /\ Fail(r)

(* recv returns None: the entry, and the sender in it, has been replaced. *)
Orphaned(r) ==
  /\ task[r] = "wait"
  /\ inbox[r] = <<>>
  /\ entry # r
  /\ Fail(r)

-----------------------------------------------------------------------------
(* GitHub, the server's commands, and dispatch *)

(* A command of the run, or the opening of its pull request, is handled. *)
Answer(r, type) ==
  /\ asked[r] # "none"
  /\ type \in Answers(asked[r]) \cup Refusals(asked[r])
  /\ type \in Replies
  /\ asked' = [asked EXCEPT ![r] = "none"]
  /\ Cardinality(mail) < MaxMail
  /\ mail' = mail \cup {[run |-> r, type |-> type]}
  /\ UNCHANGED <<sending, call, reader, outbox>>
  /\ UnchangedRegistry /\ UnchangedTask

(* An error that is returned, not posted *)
NoAnswer(r) ==
  /\ asked[r] # "none"
  /\ asked' = [asked EXCEPT ![r] = "none"]
  /\ UNCHANGED <<sending, call, reader, outbox, mail>>
  /\ UnchangedRegistry /\ UnchangedTask

(* A webhook with a comment: one of the answers, or anybody's, anywhere. *)
Dispatch(d, comment) ==
  /\ sending[d] = NoComment
  /\ writer = Nobody
  /\ sending' = [sending EXCEPT ![d] = comment]
  /\ mail' = mail \ {comment}
  /\ UNCHANGED <<call, reader, outbox, asked>>
  /\ UnchangedRegistry /\ UnchangedTask

(* Mutant of Deliver: the receiver outlives the task, so sending waits. *)
DeliverToAny(d) ==
  LET c == sending[d]
      message == IF c.run = entry THEN c.type ELSE "other"
  IN
  /\ c # NoComment
  /\ entry # Nobody => Alive(entry) /\ Len(inbox[entry]) < InboxSize
  /\ inbox' = IF entry # Nobody THEN [inbox EXCEPT ![entry] = Append(@, message)] ELSE inbox
  /\ sending' = [sending EXCEPT ![d] = NoComment]
  /\ UNCHANGED <<call, reader, outbox, task, next>>
  /\ UnchangedRegistry /\ UnchangedGitHub

(* The send returns: there is room, or nobody to send to. *)
Deliver(d) ==
  LET c == sending[d]
      message == IF c.run = entry THEN c.type ELSE "other"
      open == entry # Nobody /\ Alive(entry)
  IN
  /\ c # NoComment
  /\ open => Len(inbox[entry]) < InboxSize
  /\ inbox' = IF open THEN [inbox EXCEPT ![entry] = Append(@, message)] ELSE inbox
  /\ sending' = [sending EXCEPT ![d] = NoComment]
  /\ UNCHANGED <<call, reader, outbox, task, next>>
  /\ UnchangedRegistry /\ UnchangedGitHub

(* try_send_message: refused if the inbox is full. *)
ShutDown ==
  /\ writer = Nobody
  /\ entry # Nobody /\ Alive(entry)
  /\ Len(inbox[entry]) < InboxSize
  /\ inbox' = [inbox EXCEPT ![entry] = Append(@, "ShutDown")]
  /\ UNCHANGED <<sending, call, reader, outbox, task, next>>
  /\ UnchangedRegistry /\ UnchangedGitHub

-----------------------------------------------------------------------------
TaskStep(r) ==
  \/ Start(r) \/ CloneOk(r)
  \/ TaskSucceeds(r) \/ OpenPullRequest(r) \/ Ask(r)
  \/ Hear(r) \/ HearFailure(r) \/ Ignore(r) \/ Orphaned(r)

SpawnTask(r) == Refuse(r) \/ Begin(r)
ReaderStep(r) == SetState(r) \/ PostComment(r) \/ GiveUpComment(r) \/ HangUp(r)
New(r) == NewOk(r) \/ \E sent \in BOOLEAN : NewFails(r, sent)

Next ==
  \/ \E r \in Runs :
       \/ SpawnTask(r) \/ New(r) \/ ReaderStep(r)
       \/ TaskStep(r) \/ TaskFails(r)
       \/ \E type \in Types : Answer(r, type)
       \/ NoAnswer(r)
  \/ \E d \in Dispatchers :
       \/ \E comment \in mail \cup {Noise} : Dispatch(d, comment)
       \/ Deliver(d)
  \/ ShutDown

(* What runs on the executor goes on, calls to GitHub and git return, and   *)
(* tokio's lock is fair.  Nothing is assumed of users, answers or webhooks, *)
(* nor that a task ever fails.                                              *)
Fairness ==
  /\ \A r \in Runs : WF_vars(New(r) \/ TaskStep(r)) /\ SF_vars(ReaderStep(r))
  /\ \A d \in Dispatchers : WF_vars(Deliver(d))

Spec == Init /\ [][Next]_vars
FairSpec == Spec /\ Fairness

-----------------------------------------------------------------------------
(* A task never waits to send, so never stops reading for that reason: its  *)
(* outbox (64 in the code) holds five messages at most, whatever it asks.   *)
(* With a smaller one, dispatch could wait for the task, the task for its   *)
(* reader, and the reader for dispatch's lock.                              *)
OutboxFits == \A r \in Runs : Len(outbox[r]) <= 5

(* dispatch, which holds up every writer of the registry, gets its comment  *)
(* delivered: a full inbox is emptied or dropped in the end.                *)
DispatchEnds == \A d \in Dispatchers : sending[d] # NoComment ~> sending[d] = NoComment

(* A name does not stay Running, and so refused, when nothing runs: whoever *)
(* wrote Running last, failed starts included, a reader writes Stopped.     *)
NoPhantom ==
  LET busy == \E r \in Runs : Connected(r) IN
  entry # Nobody /\ state = "Running" /\ ~busy ~> state # "Running" \/ busy

(* A run that lost its entry to a later one ends: two tasks of one name do  *)
(* not go on side by side.                                                  *)
DisplacedRunEnds == \A r \in Runs : Alive(r) /\ entry # r ~> task[r] = "ended"
=============================================================================
