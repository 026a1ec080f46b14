--------------------------- MODULE AuxTasks_proofs ---------------------------
(***************************************************************************)
(* AuxTasks: the type invariant and the bound on the outbox, for any       *)
(* number of calls of spawn_task, of webhooks and of comments under way,   *)
(* and any capacity of the inbox.                                          *)
(*                                                                         *)
(* The bound holds because a task asks for one thing at a time: its        *)
(* command is in its outbox, on GitHub, in a comment, with a dispatcher or *)
(* in its inbox, and in one of these only (OneAnswer).  So when the answer *)
(* is heard the command has left the outbox, and a task that asks again    *)
(* finds at most the three reports of its start there (Fits).              *)
(*                                                                         *)
(* The second part proves that what is seen of a task on GitHub is what    *)
(* ScriptedTasks says of it.                                               *)
(***************************************************************************)
EXTENDS AuxTasks, TLAPS, SequenceTheorems, FiniteSetTheorems, WellFoundedInduction

HasCommand(ob) == \E i \in 1 .. Len(ob) : ob[i] \in Commands

Room(t, c) ==
  CASE t = "none" -> (IF c = "none" THEN 0 ELSE IF c = "new" THEN 1 ELSE 2)
    [] t = "starting" -> 2
    [] t \in {"clone", "work"} -> 3
    [] t = "wait" -> 4
    [] t = "ended" -> 5

(* The messages in the outbox of a run: those of its start, then at most   *)
(* one command, then the error it ended with.                              *)
FitsFor(t, c, ob) ==
  /\ Len(ob) <= Room(t, c)
  /\ HasCommand(ob) => t \in {"wait", "ended"}
  /\ t = "wait" => /\ ~HasCommand(ob) => Len(ob) <= 3
                   /\ \A i \in 1 .. Len(ob) : ob[i] \in Commands => i = Len(ob)
  /\ c # "done" => t = "none"
Fits(r) == FitsFor(task[r], call[r], outbox[r])

InMail(r) == \E c \in mail : c.run = r
InSending(r) == \E d \in Dispatchers : sending[d].run = r
InInbox(r) == \E i \in 1 .. Len(inbox[r]) : inbox[r][i] \in Types

(* A task that waits has one command or one answer under way at most, a    *)
(* task that does not wait has none.                                       *)
OneAnswer(r) ==
  /\ task[r] # "wait" => asked[r] = "none" /\ ~InMail(r) /\ ~InSending(r) /\ ~InInbox(r)
  /\ task[r] = "wait" /\ HasCommand(outbox[r]) =>
       asked[r] = "none" /\ ~InMail(r) /\ ~InSending(r) /\ ~InInbox(r)
  /\ asked[r] # "none" => ~InMail(r) /\ ~InSending(r) /\ ~InInbox(r)
  /\ InMail(r) => ~InSending(r) /\ ~InInbox(r)
  /\ InSending(r) => ~InInbox(r)
  /\ \A c, e \in mail : c.run = r /\ e.run = r => c = e
  /\ \A d, e \in Dispatchers : sending[d].run = r /\ sending[e].run = r => d = e
  /\ \A i, j \in 1 .. Len(inbox[r]) :
       inbox[r][i] \in Types /\ inbox[r][j] \in Types => i = j

IInv ==
  /\ TypeOK
  /\ IsFiniteSet(mail)
  /\ \A r \in Runs : Fits(r) /\ OneAnswer(r)

-----------------------------------------------------------------------------
(* The words of the protocol.                                              *)

Messages == {"ShutDown", "other"} \cup Types
Reports == {"Running", "Error"}

LEMMA Words ==
  /\ "Running" \notin Commands /\ "Error" \notin Commands /\ "none" \notin Commands
  /\ "other" \notin Types /\ "ShutDown" \notin Types /\ "none" \notin Types
BY DEF Commands, Types, Answers, Refusals

LEMMA CommandOfStep == \A step \in Steps : Command(step) \in Commands
BY DEF Steps, Command, Commands

LEMMA NextSteps == \A step \in Steps, m \in Messages : FollowUps(step, m) \subseteq Steps
BY DEF Steps, FollowUps, NextState

LEMMA AnswerTypes == \A command \in Commands : Answers(command) \cup Refusals(command) \subseteq Types
BY DEF Types

LEMMA AwaitedTypes ==
  \A command \in Commands : "other" \notin Awaited(command) /\ "ShutDown" \notin Awaited(command)
BY DEF Commands, Awaited

LEMMA CommentsAre ==
  /\ NoComment \notin Comment /\ NoComment.run = Nobody
  /\ Noise \in Comment /\ Noise.run = Nobody
BY Words DEF Comment, NoComment, Noise

LEMMA InvInit == Init => IInv
<1> SUFFICES ASSUME Init PROVE IInv
  OBVIOUS
<1>1. \A r \in Runs : /\ task[r] = "none" /\ call[r] = "none" /\ reader[r] = "none"
                      /\ outbox[r] = <<>> /\ inbox[r] = <<>>
                      /\ next[r] = "open" /\ asked[r] = "none"
  BY DEF Init
<1>2. mail = {} /\ IsFiniteSet(mail) /\ Cardinality(mail) = 0
  BY FS_EmptySet DEF Init
<1>3. \A d \in Dispatchers : sending[d] = NoComment /\ sending[d].run = Nobody
  BY CommentsAre DEF Init
<1>4. TypeOK
  BY <1>1, <1>2, <1>3, NobodyAssumption, MaxMailAssumption
     DEF Init, TypeOK, Alive, Connected, TaskPC, Steps
<1>5. \A r \in Runs : Fits(r) /\ OneAnswer(r)
  BY <1>1, <1>2, <1>3, NobodyAssumption
     DEF Fits, FitsFor, HasCommand, Room, OneAnswer, InMail, InSending, InInbox
<1> QED
  BY <1>2, <1>4, <1>5 DEF IInv

-----------------------------------------------------------------------------
(* Sequences.                                                              *)

LEMMA Appended ==
  ASSUME NEW S, NEW s \in Seq(S), NEW x \in S
  PROVE  /\ Append(s, x) \in Seq(S) /\ Len(Append(s, x)) = Len(s) + 1
         /\ Append(s, x) # <<>>
         /\ \A i \in 1 .. Len(s) + 1 : Append(s, x)[i] = IF i <= Len(s) THEN s[i] ELSE x
BY AppendProperties

LEMMA Taken ==
  ASSUME NEW S, NEW s \in Seq(S), s # <<>>
  PROVE  /\ Head(s) \in S /\ Head(s) = s[1] /\ 1 \in 1 .. Len(s)
         /\ Tail(s) \in Seq(S) /\ Len(Tail(s)) = Len(s) - 1
         /\ \A i \in 1 .. Len(s) - 1 : Tail(s)[i] = s[i + 1]
BY HeadTailProperties

(* drain_inbox finds the first ShutDown, if there is one.                  *)
LEMMA FirstOf ==
  ASSUME NEW T, T \subseteq Nat, T # {}
  PROVE  LET first == CHOOSE i \in T : \A j \in T : i <= j IN first \in T
<1>1. PICK i \in T : \A j \in T : ~(<<j, i>> \in OpToRel(<, Nat))
  BY NatLessThanWellFounded, WFMin, Zenon
<1>2. ASSUME NEW j \in T PROVE i <= j
  <2>1. i \in Nat /\ j \in Nat
    OBVIOUS
  <2>2. <<j, i>>[1] = j /\ <<j, i>>[2] = i /\ <<j, i>> \in Nat \X Nat
    BY <2>1
  <2>3. j < i => <<j, i>> \in OpToRel(<, Nat)
    BY <2>2, Zenon DEF OpToRel
  <2>4. ~(j < i)
    BY <1>1, <2>3, Zenon
  <2> QED
    BY <2>1, <2>4
<1> QED
  BY <1>2

LEMMA Drained ==
  ASSUME IInv, NEW r \in Runs, Drain(r)
  PROVE  /\ inbox' \in [Runs -> Seq(Messages)]
         /\ inbox[r] = <<>> => inbox'[r] = <<>>
         /\ \A q \in Runs \ {r} : inbox'[q] = inbox[q]
         /\ InInbox(r)' => InInbox(r)
<1> DEFINE s == inbox[r]
           stops == {i \in DOMAIN s : s[i] = "ShutDown"}
           first == CHOOSE i \in stops : \A j \in stops : i <= j
           rest == IF stops = {} THEN <<>> ELSE SubSeq(s, first + 1, Len(s))
<1>1. inbox \in [Runs -> Seq(Messages)] /\ s \in Seq(Messages)
  BY DEF IInv, TypeOK, Messages
<1>2. inbox' = [inbox EXCEPT ![r] = rest]
  BY DEF Drain
<1>3. stops # {} => first \in 1 .. Len(s)
  <2>1. DOMAIN s = 1 .. Len(s) /\ Len(s) \in Nat
    BY <1>1
  <2>2. stops \subseteq Nat /\ stops \subseteq 1 .. Len(s)
    BY <2>1
  <2> HIDE DEF stops
  <2> QED
    BY <2>2, FirstOf
<1>4. /\ rest \in Seq(Messages)
      /\ \A i \in 1 .. Len(rest) : \E j \in 1 .. Len(s) : rest[i] = s[j]
      /\ s = <<>> => rest = <<>>
  <2>1. CASE stops = {}
    BY <2>1
  <2>2. CASE stops # {}
    <3> HIDE DEF s, stops, first
    <3>1. Len(s) \in Nat /\ first \in 1 .. Len(s)
      BY <1>1, <1>3, <2>2
    <3>2. rest = SubSeq(s, first + 1, Len(s))
      BY <2>2
    <3>3. /\ SubSeq(s, first + 1, Len(s)) \in Seq(Messages)
          /\ Len(SubSeq(s, first + 1, Len(s))) = Len(s) - first
          /\ \A i \in 1 .. Len(s) - first : SubSeq(s, first + 1, Len(s))[i] = s[first + i]
      BY <1>1, <3>1, SubSeqProperties
    <3>4. \A i \in 1 .. Len(s) - first : first + i \in 1 .. Len(s)
      BY <3>1
    <3>5. s # <<>>
      BY <1>1, <3>1
    <3> QED
      BY <3>2, <3>3, <3>4, <3>5
  <2> QED
    BY <2>1, <2>2
<1>5. inbox'[r] = rest /\ \A q \in Runs \ {r} : inbox'[q] = inbox[q]
  BY <1>1, <1>2
<1>6. inbox' \in [Runs -> Seq(Messages)]
  <2> HIDE DEF rest
  <2> QED
    BY <1>1, <1>2, <1>4
<1>7. InInbox(r)' => InInbox(r)
  <2> HIDE DEF rest, s
  <2> QED
    BY <1>4, <1>5 DEF InInbox, s
<1> QED
  BY <1>4, <1>5, <1>6, <1>7

-----------------------------------------------------------------------------
(* The type invariant, by its parts: the registry and the sequences, and   *)
(* what relates a run's variables.                                         *)

Typed ==
  /\ entry \in Runs \cup {Nobody}
  /\ state \in {"Stopped", "Running", "Error"}
  /\ writer \in Runs \cup {Nobody}
  /\ sending \in [Dispatchers -> Comment \cup {NoComment}]
  /\ call \in [Runs -> {"none", "new", "done"}]
  /\ reader \in [Runs -> {"none", "on", "ended"}]
  /\ outbox \in [Runs -> Seq(Reports \cup Commands)]
  /\ inbox \in [Runs -> Seq(Messages)]
  /\ task \in [Runs -> TaskPC]
  /\ next \in [Runs -> Steps]
  /\ asked \in [Runs -> Commands \cup {"none"}]
  /\ mail \subseteq Comment /\ IsFiniteSet(mail) /\ Cardinality(mail) <= MaxMail

Related(r) ==
  /\ writer = r <=> call[r] = "new"
  /\ Alive(r) => call[r] = "done" /\ entry # Nobody
  /\ Connected(r) => reader[r] = "on"
  /\ inbox[r] # <<>> => Alive(r)

LEMMA Parts == TypeOK /\ IsFiniteSet(mail) <=> Typed /\ \A r \in Runs : Related(r)
BY DEF TypeOK, Typed, Related, Reports, Messages

LEMMA InvParts ==
  ASSUME IInv
  PROVE  Typed /\ \A r \in Runs : Related(r) /\ Fits(r) /\ OneAnswer(r)
BY Parts DEF IInv

LEMMA InvFrom ==
  ASSUME Typed', \A r \in Runs : Related(r)' /\ Fits(r)' /\ OneAnswer(r)'
  PROVE  IInv'
<1>1. (TypeOK /\ IsFiniteSet(mail))'
  BY DEF TypeOK, Typed, Related, Reports, Messages
<1> QED
  BY <1>1 DEF IInv

(* A step of one run leaves the others with what they had, or less.        *)
LEMMA RunStep ==
  ASSUME IInv, NEW r \in Runs, Typed', Related(r)', Fits(r)', OneAnswer(r)',
         entry' \in {entry, r},
         \A q \in Runs \ {r} : writer' = q <=> writer = q,
         \A q \in Runs \ {r} :
           /\ call'[q] = call[q] /\ reader'[q] = reader[q] /\ outbox'[q] = outbox[q]
           /\ inbox'[q] = inbox[q] /\ task'[q] = task[q] /\ asked'[q] = asked[q],
         \A c \in mail' : c \in mail \/ c.run = r,
         \A d \in Dispatchers : sending'[d] = sending[d] \/ sending'[d].run \in {r, Nobody}
  PROVE  IInv'
<1>1. ASSUME NEW q \in Runs \ {r}
      PROVE  Related(q)' /\ Fits(q)' /\ OneAnswer(q)'
  <2>1. Related(q) /\ Fits(q) /\ OneAnswer(q)
    BY InvParts
  <2>2. entry # Nobody => entry' # Nobody
    BY NobodyAssumption
  <2>3. Related(q)'
    BY <2>1, <2>2 DEF Related, Connected, Alive
  <2>4. Fits(q)'
    BY <2>1 DEF Fits
  <2>5. /\ \A c \in mail' : c.run = q => c \in mail
        /\ \A d \in Dispatchers : sending'[d].run = q => sending[d].run = q
    BY NobodyAssumption
  <2>6. /\ InMail(q)' => InMail(q)
        /\ InSending(q)' => InSending(q)
        /\ InInbox(q)' <=> InInbox(q)
    BY <2>5 DEF InMail, InSending, InInbox
  <2>7. OneAnswer(q)'
    BY <2>1, <2>5, <2>6 DEF OneAnswer
  <2> QED
    BY <2>3, <2>4, <2>7
<1> QED
  BY <1>1, InvFrom

(* What one more report, command or read message makes of an outbox.       *)
LEMMA SentReport ==
  ASSUME NEW ob \in Seq(Reports \cup Commands), NEW m \in Reports
  PROVE  /\ Append(ob, m) \in Seq(Reports \cup Commands)
         /\ Len(Append(ob, m)) = Len(ob) + 1
         /\ HasCommand(Append(ob, m)) <=> HasCommand(ob)
<1>1. m \notin Commands
  BY Words DEF Reports
<1> QED
  BY <1>1, Appended DEF HasCommand

LEMMA SentCommand ==
  ASSUME NEW ob \in Seq(Reports \cup Commands), NEW m \in Commands
  PROVE  /\ Append(ob, m) \in Seq(Reports \cup Commands)
         /\ Len(Append(ob, m)) = Len(ob) + 1
         /\ HasCommand(Append(ob, m))
         /\ \A i \in 1 .. Len(ob) : Append(ob, m)[i] = ob[i]
BY Appended DEF HasCommand

LEMMA ReadMessage ==
  ASSUME NEW ob \in Seq(Reports \cup Commands), ob # <<>>
  PROVE  /\ Tail(ob) \in Seq(Reports \cup Commands)
         /\ Len(Tail(ob)) = Len(ob) - 1
         /\ HasCommand(Tail(ob)) => HasCommand(ob)
         /\ Head(ob) \in Reports => (HasCommand(ob) <=> HasCommand(Tail(ob)))
         /\ \A i \in 1 .. Len(ob) - 1 : Tail(ob)[i] = ob[i + 1]
<1>1. /\ Head(ob) = ob[1] /\ Tail(ob) \in Seq(Reports \cup Commands)
      /\ Len(Tail(ob)) = Len(ob) - 1 /\ Len(ob) \in Nat
      /\ \A i \in 1 .. Len(ob) - 1 : Tail(ob)[i] = ob[i + 1]
  BY Taken
<1>2. HasCommand(Tail(ob)) => HasCommand(ob)
  <2>1. \A i \in 1 .. Len(ob) - 1 : i + 1 \in 1 .. Len(ob)
    BY <1>1
  <2> QED
    BY <1>1, <2>1 DEF HasCommand
<1>3. ASSUME Head(ob) \in Reports, HasCommand(ob) PROVE HasCommand(Tail(ob))
  <2>1. PICK i \in 1 .. Len(ob) : ob[i] \in Commands
    BY <1>3 DEF HasCommand
  <2>2. i # 1
    BY <1>1, <1>3, <2>1, Words DEF Reports
  <2>3. i - 1 \in 1 .. Len(ob) - 1 /\ (i - 1) + 1 = i
    BY <1>1, <2>2
  <2> QED
    BY <1>1, <2>1, <2>3 DEF HasCommand
<1> QED
  BY <1>1, <1>2, <1>3

(* A step that touches no comment and no inbox.                            *)
LEMMA SameTokens ==
  ASSUME NEW r, UNCHANGED <<mail, sending>>, inbox'[r] = inbox[r]
  PROVE  /\ InMail(r)' <=> InMail(r)
         /\ InSending(r)' <=> InSending(r)
         /\ InInbox(r)' <=> InInbox(r)
BY DEF InMail, InSending, InInbox

(* The outbox after a report.                                              *)
LEMMA Reported ==
  ASSUME Typed, NEW r \in Runs, NEW m \in Reports, Send(r, m)
  PROVE  /\ outbox' \in [Runs -> Seq(Reports \cup Commands)]
         /\ \A q \in Runs \ {r} : outbox'[q] = outbox[q]
         /\ Len(outbox[r]) \in Nat /\ Len(outbox'[r]) = Len(outbox[r]) + 1
         /\ HasCommand(outbox'[r]) <=> HasCommand(outbox[r])
<1>1. outbox \in [Runs -> Seq(Reports \cup Commands)] /\ outbox[r] \in Seq(Reports \cup Commands)
  BY DEF Typed
<1>2. outbox' = [outbox EXCEPT ![r] = Append(outbox[r], m)]
  BY DEF Send
<1>3. Append(outbox[r], m) \in Seq(Reports \cup Commands)
  BY <1>1, SentReport
<1>4. /\ outbox' \in [Runs -> Seq(Reports \cup Commands)]
      /\ outbox'[r] = Append(outbox[r], m)
      /\ \A q \in Runs \ {r} : outbox'[q] = outbox[q]
  BY <1>1, <1>2, <1>3
<1> QED
  BY <1>1, <1>4, SentReport

-----------------------------------------------------------------------------
(* spawn_task.                                                             *)

LEMMA RefuseStep ==
  ASSUME IInv, NEW r \in Runs, Refuse(r)
  PROVE  IInv'
<1> USE DEF Refuse, UnchangedRegistry, UnchangedTask, UnchangedGitHub
<1>1. Typed /\ Related(r) /\ Fits(r) /\ OneAnswer(r)
  BY InvParts
<1>2. Typed'
  BY <1>1 DEF Typed
<1>3. Related(r)'
  BY <1>1 DEF Typed, Related, Alive, Connected
<1>4. Fits(r)'
  BY <1>1 DEF Typed, Fits, FitsFor, Room
<1>5. OneAnswer(r)'
  BY <1>1, SameTokens DEF OneAnswer
<1> QED
  BY <1>1, <1>2, <1>3, <1>4, <1>5, RunStep DEF Typed

LEMMA BeginStep ==
  ASSUME IInv, NEW r \in Runs, Begin(r)
  PROVE  IInv'
<1>1. Typed /\ Related(r) /\ Fits(r) /\ OneAnswer(r)
  BY InvParts
<1>2. /\ call[r] = "none" /\ call'[r] = "new" /\ reader'[r] = "on" /\ task'[r] = task[r]
      /\ inbox' = inbox /\ entry' = entry /\ writer' = r
      /\ asked' = asked /\ mail' = mail /\ sending' = sending
      /\ Send(r, "Running") /\ writer = Nobody
  BY <1>1 DEF Begin, Free, Typed, UnchangedTask, UnchangedGitHub
<1>3. /\ outbox' \in [Runs -> Seq(Reports \cup Commands)]
      /\ \A q \in Runs \ {r} : outbox'[q] = outbox[q]
      /\ Len(outbox[r]) \in Nat /\ Len(outbox'[r]) = Len(outbox[r]) + 1
      /\ HasCommand(outbox'[r]) <=> HasCommand(outbox[r])
  BY <1>1, <1>2, Reported DEF Reports
<1>4. Typed'
  BY <1>1, <1>3 DEF Typed, Begin, UnchangedTask, UnchangedGitHub
<1>5. Related(r)'
  BY <1>1, <1>2 DEF Related, Alive, Connected
<1>6. Fits(r)'
  BY <1>1, <1>2, <1>3 DEF Fits, FitsFor, Room
<1>7. OneAnswer(r)'
  BY <1>1, <1>2, <1>3, SameTokens DEF OneAnswer
<1>8. \A q \in Runs \ {r} : writer' = q <=> writer = q
  BY <1>2, NobodyAssumption
<1>9. \A q \in Runs \ {r} : /\ call'[q] = call[q] /\ reader'[q] = reader[q]
                            /\ task'[q] = task[q] /\ asked'[q] = asked[q]
                            /\ inbox'[q] = inbox[q]
  BY <1>1 DEF Begin, Typed, UnchangedTask, UnchangedGitHub
<1> QED
  BY <1>1, <1>2, <1>3, <1>4, <1>5, <1>6, <1>7, <1>8, <1>9, RunStep

LEMMA NewOkStep ==
  ASSUME IInv, NEW r \in Runs, NewOk(r)
  PROVE  IInv'
<1>1. Typed /\ Related(r) /\ Fits(r) /\ OneAnswer(r)
  BY InvParts
<1>2. /\ call[r] = "new" /\ call'[r] = "done" /\ task'[r] = "starting"
      /\ inbox' = inbox /\ entry' = r /\ writer' = Nobody /\ reader' = reader
      /\ asked' = asked /\ mail' = mail /\ sending' = sending
      /\ Send(r, "Running") /\ writer = r /\ task[r] = "none"
  BY <1>1 DEF NewOk, GoTo, Typed, UnchangedGitHub, Related, Fits, FitsFor
<1>3. /\ outbox' \in [Runs -> Seq(Reports \cup Commands)]
      /\ \A q \in Runs \ {r} : outbox'[q] = outbox[q]
      /\ Len(outbox[r]) \in Nat /\ Len(outbox'[r]) = Len(outbox[r]) + 1
      /\ HasCommand(outbox'[r]) <=> HasCommand(outbox[r])
  BY <1>1, <1>2, Reported DEF Reports
<1>4. Typed'
  BY <1>1, <1>3 DEF Typed, NewOk, GoTo, UnchangedGitHub, TaskPC
<1>5. Related(r)'
  BY <1>1, <1>2, NobodyAssumption DEF Related, Connected, Alive
<1>6. Fits(r)'
  BY <1>1, <1>2, <1>3 DEF Fits, FitsFor, Room
<1>7. OneAnswer(r)'
  BY <1>1, <1>2, <1>3, SameTokens DEF OneAnswer
<1>8. \A q \in Runs \ {r} : writer' = q <=> writer = q
  BY <1>2, NobodyAssumption
<1>9. \A q \in Runs \ {r} : /\ call'[q] = call[q] /\ reader'[q] = reader[q]
                            /\ task'[q] = task[q] /\ asked'[q] = asked[q]
                            /\ inbox'[q] = inbox[q]
  BY <1>1 DEF NewOk, GoTo, Typed, UnchangedGitHub
<1> QED
  BY <1>1, <1>2, <1>3, <1>4, <1>5, <1>6, <1>7, <1>8, <1>9, RunStep

LEMMA NewFailsStep ==
  ASSUME IInv, NEW r \in Runs, NEW sent \in BOOLEAN, NewFails(r, sent)
  PROVE  IInv'
<1>1. Typed /\ Related(r) /\ Fits(r) /\ OneAnswer(r)
  BY InvParts
<1>2. /\ call[r] = "new" /\ call'[r] = "done" /\ task' = task
      /\ inbox' = inbox /\ entry' = entry /\ writer' = Nobody /\ reader' = reader
      /\ asked' = asked /\ mail' = mail /\ sending' = sending
      /\ Send(r, "Running") \/ outbox' = outbox
      /\ writer = r /\ task[r] = "none"
  BY <1>1 DEF NewFails, Typed, UnchangedTask, UnchangedGitHub, Related, Fits, FitsFor
<1>3. /\ outbox' \in [Runs -> Seq(Reports \cup Commands)]
      /\ \A q \in Runs \ {r} : outbox'[q] = outbox[q]
      /\ Len(outbox[r]) \in Nat
      /\ Len(outbox'[r]) = Len(outbox[r]) + 1 \/ Len(outbox'[r]) = Len(outbox[r])
      /\ HasCommand(outbox'[r]) <=> HasCommand(outbox[r])
  <2>1. CASE Send(r, "Running")
    BY <1>1, <2>1, Reported DEF Reports
  <2>2. CASE outbox' = outbox
    BY <1>1, <2>2 DEF Typed
  <2> QED
    BY <1>2, <2>1, <2>2
<1>4. Typed'
  BY <1>1, <1>3 DEF Typed, NewFails, UnchangedTask, UnchangedGitHub
<1>5. Related(r)'
  BY <1>1, <1>2, NobodyAssumption DEF Related, Connected, Alive
<1>6. Fits(r)'
  BY <1>1, <1>2, <1>3 DEF Fits, FitsFor, Room
<1>7. OneAnswer(r)'
  BY <1>1, <1>2, <1>3, SameTokens DEF OneAnswer
<1>8. \A q \in Runs \ {r} : writer' = q <=> writer = q
  BY <1>2, NobodyAssumption
<1>9. \A q \in Runs \ {r} : /\ call'[q] = call[q] /\ reader'[q] = reader[q]
                            /\ task'[q] = task[q] /\ asked'[q] = asked[q]
                            /\ inbox'[q] = inbox[q]
  BY <1>1, <1>2 DEF NewFails, Typed
<1> QED
  BY <1>1, <1>2, <1>3, <1>4, <1>5, <1>6, <1>7, <1>8, <1>9, RunStep

-----------------------------------------------------------------------------
(* The reader.                                                             *)

(* A message is dealt with, a command not before it became what is asked.  *)
LEMMA ReadStep ==
  ASSUME IInv, NEW r \in Runs, NEW messages, Read(r, messages),
         messages \subseteq Reports \/ messages \subseteq Commands,
         UnchangedTask, mail' = mail, entry' = entry, writer' = writer,
         state' \in {"Stopped", "Running", "Error"},
         asked' \in [Runs -> Commands \cup {"none"}],
         \A q \in Runs \ {r} : asked'[q] = asked[q],
         \/ asked'[r] = asked[r]
         \/ asked'[r] = "none"
         \/ messages \subseteq Commands /\ Alive(r)
  PROVE  IInv'
<1>1. Typed /\ Related(r) /\ Fits(r) /\ OneAnswer(r)
  BY InvParts
<1>2. /\ outbox[r] \in Seq(Reports \cup Commands) /\ outbox[r] # <<>>
      /\ outbox'[r] = Tail(outbox[r]) /\ Head(outbox[r]) \in messages
      /\ outbox' = [outbox EXCEPT ![r] = Tail(outbox[r])]
      /\ \A q \in Runs \ {r} : outbox'[q] = outbox[q]
      /\ sending' = sending /\ call' = call /\ reader' = reader
      /\ inbox' = inbox /\ task' = task /\ next' = next
  BY <1>1 DEF Read, Typed, UnchangedTask
<1>3. /\ outbox'[r] \in Seq(Reports \cup Commands)
      /\ Len(outbox[r]) \in Nat /\ Len(outbox'[r]) = Len(outbox[r]) - 1
      /\ HasCommand(outbox'[r]) => HasCommand(outbox[r])
      /\ Head(outbox[r]) \in Reports => (HasCommand(outbox[r]) <=> HasCommand(outbox'[r]))
      /\ \A i \in 1 .. Len(outbox[r]) - 1 : outbox'[r][i] = outbox[r][i + 1]
  BY <1>2, ReadMessage
<1>4. Head(outbox[r]) = outbox[r][1] /\ 1 \in 1 .. Len(outbox[r])
  BY <1>2, Taken
<1>5. Typed'
  <2>1. outbox' \in [Runs -> Seq(Reports \cup Commands)]
    BY <1>1, <1>2, <1>3 DEF Typed
  <2> QED
    BY <1>1, <1>2, <2>1 DEF Typed
<1>6. Related(r)'
  BY <1>1, <1>2 DEF Related, Connected, Alive
<1>7. Fits(r)'
  <2>1. Len(outbox'[r]) <= Room(task'[r], call'[r])
    BY <1>1, <1>2, <1>3 DEF Fits, FitsFor, Room, Typed, TaskPC
  <2>2. HasCommand(outbox'[r]) => task'[r] \in {"wait", "ended"}
    BY <1>1, <1>2, <1>3 DEF Fits, FitsFor
  <2>3. call'[r] # "done" => task'[r] = "none"
    BY <1>1, <1>2 DEF Fits, FitsFor
  <2>4. ASSUME task'[r] = "wait", ~HasCommand(outbox'[r]) PROVE Len(outbox'[r]) <= 3
    BY <1>1, <1>2, <1>3, <2>4 DEF Fits, FitsFor, Room
  <2>5. ASSUME task'[r] = "wait", NEW i \in 1 .. Len(outbox'[r]), outbox'[r][i] \in Commands
        PROVE  i = Len(outbox'[r])
    <3>1. i \in 1 .. Len(outbox[r]) - 1 /\ i + 1 \in 1 .. Len(outbox[r])
      BY <1>3
    <3>2. outbox[r][i + 1] \in Commands
      BY <1>3, <2>5, <3>1
    <3>3. i + 1 = Len(outbox[r])
      BY <1>1, <1>2, <2>5, <3>1, <3>2 DEF Fits, FitsFor
    <3> QED
      BY <1>3, <3>3
  <2> QED
    BY <2>1, <2>2, <2>3, <2>4, <2>5 DEF Fits, FitsFor
<1>8. OneAnswer(r)'
  <2>1. /\ InMail(r)' <=> InMail(r)
        /\ InSending(r)' <=> InSending(r)
        /\ InInbox(r)' <=> InInbox(r)
    BY <1>2, SameTokens
  <2>2. CASE asked'[r] = asked[r] \/ asked'[r] = "none"
    BY <1>1, <1>2, <1>3, <2>1, <2>2 DEF OneAnswer
  <2>3. CASE messages \subseteq Commands /\ Alive(r)
    <3>1. HasCommand(outbox[r]) /\ outbox[r][1] \in Commands
      BY <1>2, <1>4, <2>3 DEF HasCommand
    <3>2. task[r] = "wait"
      BY <1>1, <2>3, <3>1 DEF Fits, FitsFor, Alive
    <3>3. Len(outbox[r]) = 1
      BY <1>1, <1>4, <3>1, <3>2 DEF Fits, FitsFor
    <3>4. ~HasCommand(outbox'[r])
      BY <1>3, <3>3 DEF HasCommand
    <3> QED
      BY <1>1, <1>2, <2>1, <3>1, <3>2, <3>4 DEF OneAnswer
  <2> QED
    BY <2>2, <2>3
<1> QED
  BY <1>1, <1>2, <1>5, <1>6, <1>7, <1>8, RunStep

LEMMA ReaderSteps ==
  ASSUME IInv, NEW r \in Runs, ReaderStep(r)
  PROVE  IInv'
<1>1. Typed /\ Related(r) /\ Fits(r) /\ OneAnswer(r)
  BY InvParts
<1>2. CASE SetState(r)
  <2>1. Head(outbox[r]) \in {"Running", "Error"} /\ state' \in {"Stopped", "Running", "Error"}
    BY <1>1, <1>2 DEF SetState, Read, Typed
  <2> QED
    BY <1>1, <1>2, <2>1, ReadStep DEF SetState, Reports, UnchangedGitHub, Typed
<1>3. CASE PostComment(r)
  <2>1. Head(outbox[r]) \in Commands
    BY <1>3 DEF PostComment, Read
  <2>2. /\ asked' \in [Runs -> Commands \cup {"none"}]
        /\ \A q \in Runs \ {r} : asked'[q] = asked[q]
        /\ Alive(r) \/ asked'[r] = "none"
    BY <1>1, <1>3, <2>1 DEF PostComment, Typed
  <2>3. state' \in {"Stopped", "Running", "Error"} /\ entry' = entry /\ writer' = writer
    BY <1>1, <1>3 DEF PostComment, UnchangedRegistry, Typed
  <2> QED
    BY <1>3, <2>2, <2>3, ReadStep DEF PostComment
<1>4. CASE GiveUpComment(r)
  <2>1. state' \in {"Stopped", "Running", "Error"} /\ entry' = entry /\ writer' = writer
    BY <1>1, <1>4 DEF GiveUpComment, UnchangedRegistry, Typed
  <2> QED
    BY <1>1, <1>4, <2>1, ReadStep DEF GiveUpComment, UnchangedGitHub, Typed
<1>5. CASE HangUp(r)
  <2>1. /\ entry' = entry /\ writer' = writer /\ sending' = sending /\ call' = call
        /\ outbox' = outbox /\ inbox' = inbox /\ task' = task /\ next' = next
        /\ asked' = asked /\ mail' = mail
        /\ reader' = [reader EXCEPT ![r] = "ended"]
    BY <1>5 DEF HangUp, UnchangedTask, UnchangedGitHub
  <2>2. Typed'
    BY <1>1, <1>5, <2>1 DEF Typed, HangUp
  <2>3. Related(r)'
    BY <1>1, <1>5, <2>1 DEF Related, Connected, Alive, HangUp
  <2>4. Fits(r)' /\ OneAnswer(r)'
    BY <1>1, <2>1, SameTokens DEF Fits, OneAnswer
  <2> QED
    BY <1>1, <2>1, <2>2, <2>3, <2>4, RunStep DEF Typed
<1> QED
  BY <1>2, <1>3, <1>4, <1>5 DEF ReaderStep

-----------------------------------------------------------------------------
(* The task.                                                               *)

LEMMA StartStep ==
  ASSUME IInv, NEW r \in Runs, Start(r)
  PROVE  IInv'
<1>1. Typed /\ Related(r) /\ Fits(r) /\ OneAnswer(r)
  BY InvParts
<1>2. /\ task[r] = "starting" /\ task'[r] = "clone" /\ Send(r, "Running") /\ Drain(r)
      /\ sending' = sending /\ call' = call /\ reader' = reader /\ next' = next
      /\ entry' = entry /\ state' = state /\ writer' = writer
      /\ asked' = asked /\ mail' = mail
      /\ task' = [task EXCEPT ![r] = "clone"]
      /\ \A q \in Runs \ {r} : task'[q] = task[q]
  BY <1>1 DEF Start, GoTo, UnchangedRegistry, UnchangedGitHub, Typed
<1>3. /\ outbox' \in [Runs -> Seq(Reports \cup Commands)]
      /\ \A q \in Runs \ {r} : outbox'[q] = outbox[q]
      /\ Len(outbox[r]) \in Nat /\ Len(outbox'[r]) = Len(outbox[r]) + 1
      /\ HasCommand(outbox'[r]) <=> HasCommand(outbox[r])
  BY <1>1, <1>2, Reported DEF Reports
<1>4. /\ inbox' \in [Runs -> Seq(Messages)]
      /\ \A q \in Runs \ {r} : inbox'[q] = inbox[q]
      /\ InInbox(r)' => InInbox(r)
  BY <1>2, Drained
<1>5. Typed'
  BY <1>1, <1>2, <1>3, <1>4 DEF Typed, TaskPC
<1>6. Related(r)'
  BY <1>1, <1>2 DEF Related, Connected, Alive
<1>7. Fits(r)'
  BY <1>1, <1>2, <1>3 DEF Fits, FitsFor, Room
<1>8. OneAnswer(r)'
  BY <1>1, <1>2, <1>4 DEF OneAnswer, InMail, InSending, InInbox
<1> QED
  BY <1>1, <1>2, <1>3, <1>4, <1>5, <1>6, <1>7, <1>8, RunStep

LEMMA CloneOkStep ==
  ASSUME IInv, NEW r \in Runs, CloneOk(r)
  PROVE  IInv'
<1>1. Typed /\ Related(r) /\ Fits(r) /\ OneAnswer(r)
  BY InvParts
<1>2. /\ task[r] = "clone" /\ task'[r] = "work" /\ Drain(r) /\ outbox' = outbox
      /\ sending' = sending /\ call' = call /\ reader' = reader /\ next' = next
      /\ entry' = entry /\ state' = state /\ writer' = writer
      /\ asked' = asked /\ mail' = mail
      /\ task' = [task EXCEPT ![r] = "work"]
      /\ \A q \in Runs \ {r} : task'[q] = task[q]
  BY <1>1 DEF CloneOk, GoTo, UnchangedRegistry, UnchangedGitHub, Typed
<1>3. /\ inbox' \in [Runs -> Seq(Messages)]
      /\ \A q \in Runs \ {r} : inbox'[q] = inbox[q]
      /\ InInbox(r)' => InInbox(r)
  BY <1>2, Drained
<1>4. Typed'
  BY <1>1, <1>2, <1>3 DEF Typed, TaskPC
<1>5. Related(r)'
  BY <1>1, <1>2 DEF Related, Connected, Alive
<1>6. Fits(r)'
  BY <1>1, <1>2 DEF Fits, FitsFor, Room
<1>7. OneAnswer(r)'
  BY <1>1, <1>2, <1>3 DEF OneAnswer, InMail, InSending, InInbox
<1> QED
  BY <1>1, <1>2, <1>3, <1>4, <1>5, <1>6, <1>7, RunStep

(* The comments of a run that is over, or opens its pull request.          *)
LEMMA Forgotten ==
  ASSUME Typed, NEW r \in Runs, Forget(r)
  PROVE  /\ mail' \subseteq mail /\ IsFiniteSet(mail') /\ Cardinality(mail') <= MaxMail
         /\ sending' \in [Dispatchers -> Comment \cup {NoComment}]
         /\ \A d \in Dispatchers : sending'[d] = sending[d] \/ sending'[d].run = Nobody
         /\ ~InMail(r)' /\ ~InSending(r)'
<1>1. mail' \subseteq mail /\ IsFiniteSet(mail) /\ Cardinality(mail) <= MaxMail
  BY DEF Typed, Forget
<1>2. /\ IsFiniteSet(mail') /\ Cardinality(mail') <= Cardinality(mail)
      /\ Cardinality(mail) \in Nat /\ Cardinality(mail') \in Nat
  BY <1>1, FS_Subset, FS_CardinalityType
<1>3. /\ sending' \in [Dispatchers -> Comment \cup {NoComment}]
      /\ \A d \in Dispatchers : \/ sending'[d] = sending[d] /\ sending[d].run # r
                                \/ sending'[d].run = Nobody
  BY CommentsAre DEF Typed, Forget
<1>4. ~InMail(r)' /\ ~InSending(r)'
  BY <1>3, NobodyAssumption DEF Forget, InMail, InSending
<1> QED
  BY <1>1, <1>2, <1>3, <1>4, MaxMailAssumption

LEMMA EndStep ==
  ASSUME IInv, NEW r \in Runs, task[r] \in {"clone", "work", "wait"}, End(r),
         \/ outbox' = [outbox EXCEPT ![r] = Append(@, "Error")]
         \/ task[r] = "work" /\ outbox' = outbox
  PROVE  IInv'
<1>1. Typed /\ Related(r) /\ Fits(r) /\ OneAnswer(r)
  BY InvParts
<1>2. /\ task' = [task EXCEPT ![r] = "ended"] /\ inbox' = [inbox EXCEPT ![r] = <<>>]
      /\ next' = [next EXCEPT ![r] = "open"] /\ asked' = [asked EXCEPT ![r] = "none"]
      /\ Forget(r) /\ call' = call /\ reader' = reader
      /\ entry' = entry /\ state' = state /\ writer' = writer
  BY DEF End, GoTo, UnchangedRegistry
<1>3. /\ task'[r] = "ended" /\ inbox'[r] = <<>> /\ asked'[r] = "none"
      /\ \A q \in Runs \ {r} : task'[q] = task[q] /\ inbox'[q] = inbox[q] /\ asked'[q] = asked[q]
  BY <1>1, <1>2 DEF Typed
<1>4. /\ outbox' \in [Runs -> Seq(Reports \cup Commands)]
      /\ \A q \in Runs \ {r} : outbox'[q] = outbox[q]
      /\ Len(outbox[r]) \in Nat
      /\ Len(outbox'[r]) = Len(outbox[r]) + 1 \/ Len(outbox'[r]) = Len(outbox[r])
  <2>1. CASE outbox' = [outbox EXCEPT ![r] = Append(@, "Error")]
    <3>1. Send(r, "Error")
      BY <2>1 DEF Send
    <3> QED
      BY <1>1, <3>1, Reported DEF Reports
  <2>2. CASE outbox' = outbox
    BY <1>1, <2>2 DEF Typed
  <2> QED
    BY <2>1, <2>2
<1>5. /\ mail' \subseteq mail /\ IsFiniteSet(mail') /\ Cardinality(mail') <= MaxMail
      /\ sending' \in [Dispatchers -> Comment \cup {NoComment}]
      /\ \A d \in Dispatchers : sending'[d] = sending[d] \/ sending'[d].run = Nobody
      /\ ~InMail(r)' /\ ~InSending(r)'
  BY <1>1, <1>2, Forgotten
<1>6. Typed'
  <2>1. /\ inbox' \in [Runs -> Seq(Messages)] /\ task' \in [Runs -> TaskPC]
        /\ next' \in [Runs -> Steps] /\ asked' \in [Runs -> Commands \cup {"none"}]
    BY <1>1, <1>2 DEF Typed, TaskPC, Steps
  <2>2. mail' \subseteq Comment
    BY <1>1, <1>5 DEF Typed
  <2> QED
    BY <1>1, <1>2, <1>4, <1>5, <2>1, <2>2 DEF Typed
<1>7. Related(r)'
  BY <1>1, <1>2, <1>3 DEF Related, Connected, Alive
<1>8. Fits(r)'
  BY <1>1, <1>2, <1>3, <1>4 DEF Fits, FitsFor, Room
<1>9. OneAnswer(r)'
  BY <1>1, <1>3, <1>5 DEF OneAnswer, InInbox, InMail, InSending
<1> QED
  BY <1>1, <1>2, <1>3, <1>4, <1>5, <1>6, <1>7, <1>8, <1>9, RunStep

LEMMA OpenPullRequestStep ==
  ASSUME IInv, NEW r \in Runs, OpenPullRequest(r)
  PROVE  IInv'
<1> DEFINE message(m) == IF m = "ShutDown" THEN m ELSE "other"
           s == inbox[r]
           t == [i \in DOMAIN s |-> message(s[i])]
<1>1. Typed /\ Related(r) /\ Fits(r) /\ OneAnswer(r)
  BY InvParts
<1>2. /\ task[r] = "work" /\ task' = [task EXCEPT ![r] = "wait"]
      /\ inbox' = [inbox EXCEPT ![r] = t]
      /\ asked' = [asked EXCEPT ![r] = "open"]
      /\ Forget(r) /\ call' = call /\ reader' = reader /\ outbox' = outbox /\ next' = next
      /\ entry' = entry /\ state' = state /\ writer' = writer
  BY DEF OpenPullRequest, GoTo, UnchangedRegistry
<1>3. inbox \in [Runs -> Seq(Messages)] /\ s \in Seq(Messages)
  BY <1>1 DEF Typed
<1>4. /\ t \in Seq(Messages) /\ DOMAIN t = 1 .. Len(t)
      /\ \A i \in DOMAIN t : t[i] \notin Types
      /\ s = <<>> => t = <<>>
  <2>1. DOMAIN s = 1 .. Len(s) /\ Len(s) \in Nat
    BY <1>3
  <2>2. \A m : message(m) \in Messages \ Types
    BY Words DEF Messages
  <2> HIDE DEF message, s
  <2>3. t \in [1 .. Len(s) -> Messages] /\ \A i \in DOMAIN t : t[i] \notin Types
    BY <2>1, <2>2
  <2>4. t \in Seq(Messages)
    BY <2>1, <2>3, SeqDef
  <2>5. s = <<>> => Len(s) = 0
    OBVIOUS
  <2>6. s = <<>> => Len(t) = 0
    BY <2>1, <2>4, <2>5
  <2> QED
    BY <2>3, <2>4, <2>6, EmptySeq
<1> HIDE DEF t, s
<1>5. /\ task'[r] = "wait" /\ inbox'[r] = t /\ asked'[r] = "open"
      /\ \A q \in Runs \ {r} : task'[q] = task[q] /\ inbox'[q] = inbox[q] /\ asked'[q] = asked[q]
  BY <1>1, <1>2, <1>3 DEF Typed
<1>6. inbox' \in [Runs -> Seq(Messages)] /\ ~InInbox(r)'
  BY <1>2, <1>3, <1>4, <1>5 DEF InInbox
<1>7. /\ mail' \subseteq mail /\ IsFiniteSet(mail') /\ Cardinality(mail') <= MaxMail
      /\ sending' \in [Dispatchers -> Comment \cup {NoComment}]
      /\ \A d \in Dispatchers : sending'[d] = sending[d] \/ sending'[d].run = Nobody
      /\ ~InMail(r)' /\ ~InSending(r)'
  BY <1>1, <1>2, Forgotten
<1>8. Typed'
  BY <1>1, <1>2, <1>6, <1>7 DEF Typed, TaskPC, Commands
<1>9. Related(r)'
  BY <1>1, <1>2, <1>5 DEF Related, Connected, Alive
<1>10. Fits(r)' /\ ~HasCommand(outbox'[r])
  <2>1. Len(outbox[r]) \in Nat /\ Len(outbox[r]) <= 3 /\ ~HasCommand(outbox[r]) /\ call[r] = "done"
    BY <1>1, <1>2 DEF Typed, Fits, FitsFor, Room
  <2> QED
    BY <1>2, <1>5, <2>1 DEF Fits, FitsFor, Room, HasCommand
<1>11. OneAnswer(r)'
  BY <1>5, <1>6, <1>7, <1>10 DEF OneAnswer, InInbox, InMail, InSending
<1> QED
  BY <1>1, <1>2, <1>5, <1>6, <1>7, <1>8, <1>9, <1>10, <1>11, RunStep

LEMMA AskStep ==
  ASSUME IInv, NEW r \in Runs, Ask(r)
  PROVE  IInv'
<1>1. Typed /\ Related(r) /\ Fits(r) /\ OneAnswer(r)
  BY InvParts
<1>2. PICK m \in Commands : m = Command(next[r])
  BY <1>1, CommandOfStep DEF Typed
<1>3. /\ task[r] = "work" /\ task' = [task EXCEPT ![r] = "wait"]
      /\ outbox' = [outbox EXCEPT ![r] = Append(outbox[r], m)]
      /\ sending' = sending /\ call' = call /\ reader' = reader /\ next' = next
      /\ inbox' = inbox /\ entry' = entry /\ state' = state /\ writer' = writer
      /\ asked' = asked /\ mail' = mail
  BY <1>2 DEF Ask, Send, GoTo, UnchangedRegistry, UnchangedGitHub
<1>4. /\ outbox \in [Runs -> Seq(Reports \cup Commands)]
      /\ outbox[r] \in Seq(Reports \cup Commands) /\ task \in [Runs -> TaskPC]
  BY <1>1 DEF Typed
<1>5. /\ Append(outbox[r], m) \in Seq(Reports \cup Commands)
      /\ Len(Append(outbox[r], m)) = Len(outbox[r]) + 1 /\ Len(outbox[r]) \in Nat
      /\ HasCommand(Append(outbox[r], m))
      /\ \A i \in 1 .. Len(outbox[r]) : Append(outbox[r], m)[i] = outbox[r][i]
  <2>1. Len(outbox[r]) \in Nat
    BY <1>4
  <2> QED
    BY <1>4, <2>1, SentCommand
<1>6. /\ outbox'[r] = Append(outbox[r], m) /\ task'[r] = "wait"
      /\ \A q \in Runs \ {r} : outbox'[q] = outbox[q] /\ task'[q] = task[q]
  BY <1>3, <1>4
<1>7. Typed'
  BY <1>1, <1>3, <1>5 DEF Typed, TaskPC
<1>8. Related(r)'
  BY <1>1, <1>3, <1>6 DEF Related, Connected, Alive
<1>9. Fits(r)'
  <2>1. Len(outbox[r]) <= 3 /\ ~HasCommand(outbox[r]) /\ call[r] = "done"
    BY <1>1, <1>3 DEF Fits, FitsFor, Room
  <2>2. ASSUME NEW i \in 1 .. Len(outbox'[r]), outbox'[r][i] \in Commands
        PROVE  i = Len(outbox'[r])
    BY <1>5, <1>6, <2>1, <2>2 DEF HasCommand
  <2> QED
    BY <1>3, <1>5, <1>6, <2>1, <2>2 DEF Fits, FitsFor, Room
<1>10. OneAnswer(r)'
  BY <1>1, <1>3, <1>6, SameTokens DEF OneAnswer
<1> QED
  BY <1>1, <1>3, <1>6, <1>7, <1>8, <1>9, <1>10, RunStep

(* A message is taken from the inbox; only an answer ends the waiting.     *)
LEMMA HearStep ==
  ASSUME IInv, NEW r \in Runs, Hear(r) \/ Ignore(r)
  PROVE  IInv'
<1>1. Typed /\ Related(r) /\ Fits(r) /\ OneAnswer(r)
  BY InvParts
<1>2. /\ task[r] = "wait" /\ inbox[r] # <<>>
      /\ inbox' = [inbox EXCEPT ![r] = Tail(inbox[r])]
      /\ sending' = sending /\ call' = call /\ reader' = reader /\ outbox' = outbox
      /\ entry' = entry /\ state' = state /\ writer' = writer
      /\ asked' = asked /\ mail' = mail
  BY DEF Hear, Ignore, UnchangedRegistry, UnchangedGitHub
<1>3. /\ inbox \in [Runs -> Seq(Messages)] /\ inbox[r] \in Seq(Messages)
      /\ task \in [Runs -> TaskPC] /\ next \in [Runs -> Steps]
  BY <1>1 DEF Typed
<1>4. /\ Head(inbox[r]) \in Messages /\ Head(inbox[r]) = inbox[r][1] /\ 1 \in 1 .. Len(inbox[r])
      /\ Tail(inbox[r]) \in Seq(Messages) /\ Len(Tail(inbox[r])) = Len(inbox[r]) - 1
      /\ \A i \in 1 .. Len(inbox[r]) - 1 : Tail(inbox[r])[i] = inbox[r][i + 1]
  BY <1>2, <1>3, Taken
<1>5. /\ inbox'[r] = Tail(inbox[r]) /\ \A q \in Runs \ {r} : inbox'[q] = inbox[q]
      /\ inbox' \in [Runs -> Seq(Messages)]
  BY <1>2, <1>3, <1>4
<1>6. Len(inbox[r]) \in Nat
  BY <1>3
<1>7. \A i \in 1 .. Len(inbox'[r]) : inbox'[r][i] = inbox[r][i + 1] /\ i + 1 \in 2 .. Len(inbox[r])
  BY <1>4, <1>5, <1>6
<1>8. InInbox(r)' => InInbox(r)
  BY <1>6, <1>7 DEF InInbox
<1>9. CASE Hear(r)
  <2>1. PICK step \in Steps : next' = [next EXCEPT ![r] = step]
    BY <1>3, <1>4, <1>9, NextSteps DEF Hear
  <2>2. /\ task' = [task EXCEPT ![r] = "work"] /\ task'[r] = "work"
        /\ \A q \in Runs \ {r} : task'[q] = task[q]
    BY <1>3, <1>9 DEF Hear, GoTo
  <2>3. inbox[r][1] \in Types
    <3>1. Head(inbox[r]) \in Awaited(Command(next[r]))
      BY <1>9 DEF Hear
    <3>2. Command(next[r]) \in Commands
      BY <1>3, CommandOfStep
    <3> QED
      BY <1>4, <3>1, <3>2, AwaitedTypes DEF Messages
  <2>4. InInbox(r) /\ ~InInbox(r)'
    <3>1. InInbox(r)
      BY <1>4, <2>3 DEF InInbox
    <3>2. ASSUME NEW i \in 1 .. Len(inbox'[r]), inbox'[r][i] \in Types PROVE FALSE
      <4>1. i + 1 \in 1 .. Len(inbox[r]) /\ inbox[r][i + 1] \in Types
        BY <1>6, <1>7, <3>2
      <4>2. i + 1 = 1
        BY <1>1, <1>4, <2>3, <4>1 DEF OneAnswer
      <4>3. i \in Nat /\ i >= 1
        BY <1>4, <1>5, <1>6
      <4> QED
        BY <4>2, <4>3
    <3> QED
      BY <3>1, <3>2 DEF InInbox
  <2>5. asked[r] = "none" /\ ~InMail(r) /\ ~InSending(r) /\ ~HasCommand(outbox[r])
    BY <1>1, <1>2, <2>4 DEF OneAnswer
  <2>6. Typed'
    BY <1>1, <1>2, <1>5, <2>1, <2>2 DEF Typed, TaskPC
  <2>7. Related(r)'
    BY <1>1, <1>2, <2>2 DEF Related, Connected, Alive
  <2>8. Fits(r)'
    BY <1>1, <1>2, <2>2, <2>5 DEF Fits, FitsFor, Room
  <2>9. OneAnswer(r)'
    BY <1>2, <2>2, <2>4, <2>5 DEF OneAnswer, InMail, InSending, InInbox
  <2> QED
    BY <1>1, <1>2, <1>5, <2>2, <2>6, <2>7, <2>8, <2>9, RunStep
<1>10. CASE Ignore(r)
  <2>1. task' = task /\ next' = next
    BY <1>10 DEF Ignore
  <2>2. Typed'
    BY <1>1, <1>2, <1>5, <2>1 DEF Typed
  <2>3. Related(r)' /\ Fits(r)'
    BY <1>1, <1>2, <2>1 DEF Related, Connected, Alive, Fits
  <2>4. \A i, j \in 1 .. Len(inbox'[r]) :
          inbox'[r][i] \in Types /\ inbox'[r][j] \in Types => i = j
    <3> SUFFICES ASSUME NEW i \in 1 .. Len(inbox'[r]), NEW j \in 1 .. Len(inbox'[r]),
                        inbox'[r][i] \in Types, inbox'[r][j] \in Types
                 PROVE  i = j
      OBVIOUS
    <3>1. /\ i + 1 \in 1 .. Len(inbox[r]) /\ inbox[r][i + 1] \in Types
          /\ j + 1 \in 1 .. Len(inbox[r]) /\ inbox[r][j + 1] \in Types
      BY <1>6, <1>7
    <3>2. i + 1 = j + 1
      BY <1>1, <3>1 DEF OneAnswer
    <3>3. i \in Int /\ j \in Int
      OBVIOUS
    <3> QED
      BY <3>2, <3>3
  <2>5. OneAnswer(r)'
    BY <1>1, <1>2, <1>8, <2>1, <2>4 DEF OneAnswer, InMail, InSending
  <2> QED
    BY <1>1, <1>2, <1>5, <2>1, <2>2, <2>3, <2>5, RunStep
<1> QED
  BY <1>9, <1>10

(* The other ways for a run to end.                                        *)
LEMMA TaskSteps ==
  ASSUME IInv, NEW r \in Runs, TaskStep(r) \/ TaskFails(r)
  PROVE  IInv'
<1>1. CASE Start(r)
  BY <1>1, StartStep
<1>2. CASE CloneOk(r)
  BY <1>2, CloneOkStep
<1>3. CASE TaskSucceeds(r)
  BY <1>3, EndStep DEF TaskSucceeds
<1>4. CASE OpenPullRequest(r)
  BY <1>4, OpenPullRequestStep
<1>5. CASE Ask(r)
  BY <1>5, AskStep
<1>6. CASE Hear(r) \/ Ignore(r)
  BY <1>6, HearStep
<1>7. CASE HearFailure(r)
  BY <1>7, EndStep DEF HearFailure, Fail, Send
<1>8. CASE Orphaned(r)
  BY <1>8, EndStep DEF Orphaned, Fail, Send
<1>9. CASE TaskFails(r)
  BY <1>9, EndStep DEF TaskFails, Fail, Send
<1> QED
  BY <1>1, <1>2, <1>3, <1>4, <1>5, <1>6, <1>7, <1>8, <1>9 DEF TaskStep

-----------------------------------------------------------------------------
(* GitHub, the server's commands, and dispatch.                            *)

LEMMA AnswerStep ==
  ASSUME IInv, NEW r \in Runs, NEW type \in Types, Answer(r, type)
  PROVE  IInv'
<1> DEFINE new == [run |-> r, type |-> type]
<1>1. Typed /\ Related(r) /\ Fits(r) /\ OneAnswer(r)
  BY InvParts
<1>2. /\ asked[r] # "none" /\ asked' = [asked EXCEPT ![r] = "none"]
      /\ Cardinality(mail) < MaxMail /\ mail' = mail \cup {new}
      /\ sending' = sending /\ call' = call /\ reader' = reader /\ outbox' = outbox
      /\ entry' = entry /\ state' = state /\ writer' = writer
      /\ inbox' = inbox /\ task' = task /\ next' = next
  BY DEF Answer, UnchangedRegistry, UnchangedTask
<1>3. asked'[r] = "none" /\ \A q \in Runs \ {r} : asked'[q] = asked[q]
  BY <1>1, <1>2 DEF Typed
<1>4. new \in Comment /\ new.run = r
  BY DEF Comment
<1>5. /\ task[r] = "wait" /\ ~HasCommand(outbox[r])
      /\ ~InMail(r) /\ ~InSending(r) /\ ~InInbox(r)
  BY <1>1, <1>2 DEF OneAnswer
<1>6. /\ IsFiniteSet(mail') /\ Cardinality(mail') <= MaxMail
  <2>1. IsFiniteSet(mail) /\ Cardinality(mail) \in Nat
    BY <1>1, FS_CardinalityType DEF Typed
  <2>2. IsFiniteSet(mail') /\ Cardinality(mail') \in {Cardinality(mail), Cardinality(mail) + 1}
    BY <1>2, <2>1, FS_AddElement
  <2> QED
    BY <1>2, <2>1, <2>2, MaxMailAssumption
<1>7. Typed'
  BY <1>1, <1>2, <1>4, <1>6 DEF Typed
<1>8. Related(r)' /\ Fits(r)'
  BY <1>1, <1>2 DEF Related, Connected, Alive, Fits
<1>9. OneAnswer(r)'
  <2>1. \A c \in mail' : c.run = r => c = new
    BY <1>2, <1>5 DEF InMail
  <2>2. ~InSending(r)' /\ ~InInbox(r)'
    BY <1>2, <1>5 DEF InSending, InInbox
  <2> QED
    BY <1>1, <1>2, <1>3, <1>5, <2>1, <2>2 DEF OneAnswer, InSending
<1>10. \A c \in mail' : c \in mail \/ c.run = r
  BY <1>2, <1>4
<1> QED
  BY <1>1, <1>2, <1>3, <1>7, <1>8, <1>9, <1>10, RunStep

LEMMA NoAnswerStep ==
  ASSUME IInv, NEW r \in Runs, NoAnswer(r)
  PROVE  IInv'
<1>1. Typed /\ Related(r) /\ Fits(r) /\ OneAnswer(r)
  BY InvParts
<1>2. /\ asked' = [asked EXCEPT ![r] = "none"] /\ mail' = mail
      /\ sending' = sending /\ call' = call /\ reader' = reader /\ outbox' = outbox
      /\ entry' = entry /\ state' = state /\ writer' = writer
      /\ inbox' = inbox /\ task' = task /\ next' = next
  BY DEF NoAnswer, UnchangedRegistry, UnchangedTask
<1>3. asked'[r] = "none" /\ \A q \in Runs \ {r} : asked'[q] = asked[q]
  BY <1>1, <1>2 DEF Typed
<1>4. Typed'
  BY <1>1, <1>2 DEF Typed
<1>5. Related(r)' /\ Fits(r)'
  BY <1>1, <1>2 DEF Related, Connected, Alive, Fits
<1>6. OneAnswer(r)'
  BY <1>1, <1>2, <1>3, SameTokens DEF OneAnswer
<1> QED
  BY <1>1, <1>2, <1>3, <1>4, <1>5, <1>6, RunStep

LEMMA DispatchStep ==
  ASSUME IInv, NEW d \in Dispatchers, NEW comment \in mail \cup {Noise}, Dispatch(d, comment)
  PROVE  IInv'
<1>1. Typed /\ \A r \in Runs : Related(r) /\ Fits(r) /\ OneAnswer(r)
  BY InvParts
<1>2. /\ sending[d] = NoComment /\ sending' = [sending EXCEPT ![d] = comment]
      /\ mail' = mail \ {comment} /\ call' = call /\ reader' = reader /\ outbox' = outbox
      /\ entry' = entry /\ state' = state /\ writer' = writer
      /\ inbox' = inbox /\ task' = task /\ next' = next /\ asked' = asked
  BY DEF Dispatch, UnchangedRegistry, UnchangedTask
<1>3. comment \in Comment
  BY <1>1, CommentsAre DEF Typed
<1>4. /\ sending' \in [Dispatchers -> Comment \cup {NoComment}] /\ sending'[d] = comment
      /\ \A e \in Dispatchers \ {d} : sending'[e] = sending[e]
  BY <1>1, <1>2, <1>3 DEF Typed
<1>5. IsFiniteSet(mail') /\ Cardinality(mail') <= MaxMail
  <2>1. IsFiniteSet(mail) /\ Cardinality(mail) <= MaxMail /\ mail' \subseteq mail
    BY <1>1, <1>2 DEF Typed
  <2>2. /\ IsFiniteSet(mail') /\ Cardinality(mail') <= Cardinality(mail)
        /\ Cardinality(mail) \in Nat /\ Cardinality(mail') \in Nat
    BY <2>1, FS_Subset, FS_CardinalityType
  <2> QED
    BY <2>1, <2>2, MaxMailAssumption
<1>6. Typed'
  BY <1>1, <1>2, <1>4, <1>5 DEF Typed
<1>7. ASSUME NEW r \in Runs
      PROVE  Related(r)' /\ Fits(r)' /\ OneAnswer(r)'
  <2>1. Related(r)' /\ Fits(r)'
    BY <1>1, <1>2 DEF Related, Connected, Alive, Fits
  <2>2. InInbox(r)' <=> InInbox(r)
    BY <1>2 DEF InInbox
  <2>3. CASE comment.run = r
    <3>1. comment \in mail /\ InMail(r)
      BY <2>3, CommentsAre, NobodyAssumption DEF InMail
    <3>2. task[r] = "wait" /\ asked[r] = "none" /\ ~HasCommand(outbox[r]) /\ ~InSending(r) /\ ~InInbox(r)
      BY <1>1, <3>1 DEF OneAnswer
    <3>3. ~InMail(r)'
      BY <1>1, <1>2, <2>3, <3>1 DEF InMail, OneAnswer
    <3>4. \A e \in Dispatchers : sending'[e].run = r => e = d
      BY <1>4, <3>2 DEF InSending
    <3>5. OneAnswer(r)'
      BY <1>1, <1>2, <2>2, <3>2, <3>3, <3>4 DEF OneAnswer, InMail
    <3> QED
      BY <2>1, <3>5
  <2>4. CASE comment.run # r
    <3>1. \A e \in Dispatchers : sending'[e].run = r => sending[e].run = r
      BY <1>4, <2>4
    <3>2. (InMail(r)' => InMail(r)) /\ (InSending(r)' => InSending(r))
      BY <1>2, <3>1 DEF InMail, InSending
    <3>3. OneAnswer(r)'
      BY <1>1, <1>2, <2>2, <3>1, <3>2 DEF OneAnswer
    <3> QED
      BY <2>1, <3>3
  <2> QED
    BY <2>1, <2>3, <2>4
<1> QED
  BY <1>6, <1>7, InvFrom

(* A message goes into the inbox of the registered run, if it is alive.    *)
LEMMA Put ==
  ASSUME Typed, NEW r \in Runs, NEW m \in Messages,
         inbox' = [inbox EXCEPT ![r] = Append(inbox[r], m)]
  PROVE  /\ inbox' \in [Runs -> Seq(Messages)]
         /\ inbox'[r] # <<>> /\ \A q \in Runs \ {r} : inbox'[q] = inbox[q]
         /\ Len(inbox[r]) \in Nat /\ Len(inbox'[r]) = Len(inbox[r]) + 1
         /\ \A i \in 1 .. Len(inbox[r]) + 1 :
              inbox'[r][i] = IF i <= Len(inbox[r]) THEN inbox[r][i] ELSE m
<1>1. inbox \in [Runs -> Seq(Messages)] /\ inbox[r] \in Seq(Messages) /\ Len(inbox[r]) \in Nat
  BY DEF Typed
<1>2. /\ Append(inbox[r], m) \in Seq(Messages)
      /\ Len(Append(inbox[r], m)) = Len(inbox[r]) + 1
      /\ Append(inbox[r], m) # <<>>
      /\ \A i \in 1 .. Len(inbox[r]) + 1 :
           Append(inbox[r], m)[i] = IF i <= Len(inbox[r]) THEN inbox[r][i] ELSE m
  BY <1>1, Appended
<1>3. inbox'[r] = Append(inbox[r], m) /\ \A q \in Runs \ {r} : inbox'[q] = inbox[q]
  BY <1>1
<1> QED
  BY <1>1, <1>2, <1>3

LEMMA DeliverStep ==
  ASSUME IInv, NEW d \in Dispatchers, Deliver(d)
  PROVE  IInv'
<1> DEFINE c == sending[d]
           m == IF c.run = entry THEN c.type ELSE "other"
           open == entry # Nobody /\ Alive(entry)
<1>1. Typed /\ \A r \in Runs : Related(r) /\ Fits(r) /\ OneAnswer(r)
  BY InvParts
<1>2. /\ c # NoComment /\ sending' = [sending EXCEPT ![d] = NoComment]
      /\ inbox' = IF open THEN [inbox EXCEPT ![entry] = Append(inbox[entry], m)] ELSE inbox
      /\ mail' = mail /\ call' = call /\ reader' = reader /\ outbox' = outbox
      /\ entry' = entry /\ state' = state /\ writer' = writer
      /\ task' = task /\ next' = next /\ asked' = asked
  BY DEF Deliver, UnchangedRegistry, UnchangedGitHub
<1>3. c \in Comment /\ m \in Messages /\ (m \in Types => c.run = entry)
  BY <1>1, <1>2, Words DEF Typed, Comment, Messages
<1>4. /\ sending' \in [Dispatchers -> Comment \cup {NoComment}]
      /\ sending'[d].run = Nobody
      /\ \A e \in Dispatchers \ {d} : sending'[e] = sending[e]
  BY <1>1, <1>2, CommentsAre DEF Typed
<1> HIDE DEF m, c
<1>5. open => entry \in Runs
  BY <1>1 DEF Typed
<1>6. /\ inbox' \in [Runs -> Seq(Messages)]
      /\ \A q \in Runs : q # entry \/ ~open => inbox'[q] = inbox[q]
  BY <1>1, <1>2, <1>3, <1>5, Put DEF Typed
<1>7. Typed'
  BY <1>1, <1>2, <1>4, <1>6 DEF Typed
<1>8. ASSUME NEW r \in Runs
      PROVE  Related(r)' /\ Fits(r)' /\ OneAnswer(r)'
  <2>1. Related(r)'
    BY <1>1, <1>2, <1>6 DEF Related, Connected, Alive
  <2>2. Fits(r)'
    BY <1>1, <1>2 DEF Fits
  <2>3. (InMail(r)' <=> InMail(r)) /\ (InSending(r)' => InSending(r))
    BY <1>2, <1>4, NobodyAssumption DEF InMail, InSending
  <2>4. \A e, g \in Dispatchers : sending'[e].run = r /\ sending'[g].run = r => e = g
    BY <1>1, <1>4, NobodyAssumption DEF OneAnswer
  <2>5. CASE r # entry \/ ~open
    <3>1. InInbox(r)' <=> InInbox(r)
      BY <1>6, <2>5 DEF InInbox
    <3> QED
      BY <1>1, <1>2, <1>6, <2>1, <2>2, <2>3, <2>4, <2>5, <3>1 DEF OneAnswer
  <2>6. CASE r = entry /\ open
    <3>1. inbox' = [inbox EXCEPT ![r] = Append(inbox[r], m)]
      BY <1>2, <2>6
    <3>2. /\ Len(inbox[r]) \in Nat /\ Len(inbox'[r]) = Len(inbox[r]) + 1
          /\ \A i \in 1 .. Len(inbox[r]) + 1 :
               inbox'[r][i] = IF i <= Len(inbox[r]) THEN inbox[r][i] ELSE m
      BY <1>1, <1>3, <3>1, Put
    <3>3. CASE c.run # r
      <4>1. m \notin Types
        BY <1>3, <2>6, <3>3
      <4>2. \A i \in 1 .. Len(inbox'[r]) :
              inbox'[r][i] \in Types => i \in 1 .. Len(inbox[r]) /\ inbox[r][i] \in Types
        BY <3>2, <4>1
      <4>3. InInbox(r)' => InInbox(r)
        BY <4>2 DEF InInbox
      <4>4. \A i, j \in 1 .. Len(inbox'[r]) :
              inbox'[r][i] \in Types /\ inbox'[r][j] \in Types => i = j
        BY <1>1, <4>2 DEF OneAnswer
      <4>5. OneAnswer(r)'
        BY <1>1, <1>2, <2>3, <2>4, <4>3, <4>4 DEF OneAnswer
      <4> QED
        BY <2>1, <2>2, <4>5
    <3>4. CASE c.run = r
      <4>1. InSending(r)
        BY <3>4 DEF InSending, c
      <4>2. task[r] = "wait" /\ asked[r] = "none" /\ ~HasCommand(outbox[r]) /\ ~InMail(r) /\ ~InInbox(r)
        BY <1>1, <4>1 DEF OneAnswer
      <4>3. ~InSending(r)'
        BY <1>1, <1>4, <3>4, NobodyAssumption DEF OneAnswer, InSending, c
      <4>4. \A i \in 1 .. Len(inbox'[r]) : inbox'[r][i] \in Types => i = Len(inbox'[r])
        BY <3>2, <4>2 DEF InInbox
      <4>5. OneAnswer(r)'
        BY <1>1, <1>2, <2>3, <2>4, <4>2, <4>3, <4>4 DEF OneAnswer
      <4> QED
        BY <2>1, <2>2, <4>5
    <3> QED
      BY <3>3, <3>4
  <2> QED
    BY <2>5, <2>6
<1> QED
  BY <1>7, <1>8, InvFrom

LEMMA ShutDownStep ==
  ASSUME IInv, ShutDown
  PROVE  IInv'
<1>1. Typed /\ \A r \in Runs : Related(r) /\ Fits(r) /\ OneAnswer(r)
  BY InvParts
<1>2. PICK r \in Runs : r = entry /\ Alive(r)
  BY <1>1 DEF ShutDown, Typed
<1>3. /\ inbox' = [inbox EXCEPT ![r] = Append(inbox[r], "ShutDown")]
      /\ sending' = sending /\ call' = call /\ reader' = reader /\ outbox' = outbox
      /\ task' = task /\ next' = next /\ entry' = entry /\ state' = state
      /\ writer' = writer /\ asked' = asked /\ mail' = mail
  BY <1>2 DEF ShutDown, UnchangedRegistry, UnchangedGitHub
<1>4. /\ inbox' \in [Runs -> Seq(Messages)]
      /\ \A q \in Runs \ {r} : inbox'[q] = inbox[q]
      /\ Len(inbox[r]) \in Nat /\ Len(inbox'[r]) = Len(inbox[r]) + 1
      /\ \A i \in 1 .. Len(inbox[r]) + 1 :
           inbox'[r][i] = IF i <= Len(inbox[r]) THEN inbox[r][i] ELSE "ShutDown"
  BY <1>1, <1>3, Put DEF Messages
<1>5. \A i \in 1 .. Len(inbox'[r]) :
        inbox'[r][i] \in Types => i \in 1 .. Len(inbox[r]) /\ inbox[r][i] \in Types
  BY <1>4, Words
<1>6. InInbox(r)' => InInbox(r)
  BY <1>5 DEF InInbox
<1>7. Typed'
  BY <1>1, <1>3, <1>4 DEF Typed
<1>8. Related(r)' /\ Fits(r)'
  BY <1>1, <1>2, <1>3 DEF Related, Connected, Alive, Fits
<1>9. \A i, j \in 1 .. Len(inbox'[r]) :
        inbox'[r][i] \in Types /\ inbox'[r][j] \in Types => i = j
  BY <1>1, <1>5 DEF OneAnswer
<1>10. OneAnswer(r)'
  BY <1>1, <1>3, <1>6, <1>9 DEF OneAnswer, InMail, InSending
<1> QED
  BY <1>1, <1>3, <1>4, <1>7, <1>8, <1>10, RunStep

-----------------------------------------------------------------------------
LEMMA InvNext == IInv /\ [Next]_vars => IInv'
<1> SUFFICES ASSUME IInv, [Next]_vars PROVE IInv'
  OBVIOUS
<1>1. ASSUME NEW r \in Runs, SpawnTask(r) PROVE IInv'
  BY <1>1, RefuseStep, BeginStep DEF SpawnTask
<1>2. ASSUME NEW r \in Runs, New(r) PROVE IInv'
  BY <1>2, NewOkStep, NewFailsStep DEF New
<1>3. ASSUME NEW r \in Runs, ReaderStep(r) PROVE IInv'
  BY <1>3, ReaderSteps
<1>4. ASSUME NEW r \in Runs, TaskStep(r) \/ TaskFails(r) PROVE IInv'
  BY <1>4, TaskSteps
<1>5. ASSUME NEW r \in Runs, NEW type \in Types, Answer(r, type) PROVE IInv'
  BY <1>5, AnswerStep
<1>6. ASSUME NEW r \in Runs, NoAnswer(r) PROVE IInv'
  BY <1>6, NoAnswerStep
<1>7. ASSUME NEW d \in Dispatchers, NEW comment \in mail \cup {Noise}, Dispatch(d, comment)
      PROVE  IInv'
  BY <1>7, DispatchStep
<1>8. ASSUME NEW d \in Dispatchers, Deliver(d) PROVE IInv'
  BY <1>8, DeliverStep
<1>9. CASE ShutDown
  BY <1>9, ShutDownStep
<1>10. CASE UNCHANGED vars
  <2>1. UNCHANGED <<entry, state, writer, sending, call, reader, outbox, inbox, task,
                    asked, mail, next>>
    BY <1>10 DEF vars
  <2>2. Typed /\ \A r \in Runs : Related(r) /\ Fits(r) /\ OneAnswer(r)
    BY InvParts
  <2>3. Typed'
    BY <2>1, <2>2 DEF Typed
  <2>4. ASSUME NEW r \in Runs PROVE Related(r)' /\ Fits(r)' /\ OneAnswer(r)'
    BY <2>1, <2>2, SameTokens DEF Related, Connected, Alive, Fits, OneAnswer
  <2> QED
    BY <2>3, <2>4, InvFrom
<1> QED
  BY <1>1, <1>2, <1>3, <1>4, <1>5, <1>6, <1>7, <1>8, <1>9, <1>10 DEF Next

LEMMA Invariant == Spec => []IInv
BY InvInit, InvNext, PTL DEF Spec

(* The types of the variables, and what holds between the registry, the    *)
(* calls of spawn_task, the readers and the tasks.                         *)
THEOREM TypeCorrect == Spec => []TypeOK
<1>1. IInv => TypeOK
  BY DEF IInv
<1> QED
  BY <1>1, Invariant, PTL

(* The outbox of a task holds five messages at most, whatever is asked,    *)
(* answered, lost or refused (aux_task.rs, test_task/fuzz_test.rs): a task *)
(* never waits for its reader.                                             *)
THEOREM OutboxIsLargeEnough == Spec => []OutboxFits
<1>1. IInv => OutboxFits
  <2> SUFFICES ASSUME IInv, NEW r \in Runs PROVE Len(outbox[r]) <= 5
    BY DEF OutboxFits
  <2>1. Len(outbox[r]) \in Nat /\ task[r] \in TaskPC /\ Len(outbox[r]) <= Room(task[r], call[r])
    BY InvParts DEF Typed, Fits, FitsFor
  <2> QED
    BY <2>1 DEF Room, TaskPC
<1> QED
  BY <1>1, Invariant, PTL

-----------------------------------------------------------------------------
(* ScriptedTasks.  A run is what it does, the question it waits to see     *)
(* answered, the answers on their way to it, and those in its inbox.       *)

Stage(t) ==
  CASE t = "none" -> "none"
    [] t \in {"starting", "clone", "work"} -> "works"
    [] t = "wait" -> "waits"
    [] t = "ended" -> "ended"

Asks(r) == task[r] = "wait" /\ (HasCommand(outbox[r]) \/ asked[r] # "none")
Posted(r) == {c \in mail \cup {sending[d] : d \in Dispatchers} : c.run = r}
SaidOf(r) == {c.type : c \in Posted(r)}
ToldOf(r) == {w \in Types : \E i \in 1 .. Len(inbox[r]) : inbox[r][i] = w}

AtNow == [r \in Runs |-> Stage(task[r])]
AskingNow == {r \in Runs : Asks(r)}
SaidNow == [r \in Runs |-> SaidOf(r)]
ToldNow == [r \in Runs |-> ToldOf(r)]

SaidAt(s) == Answers(Command(s)) \cup Refusals(Command(s))
Script == [s \in Steps |-> SaidAt(s)]
Sequel == [s \in Steps |-> [w \in Awaited(Command(s)) |->
                              IF w \in Failures THEN {} ELSE FollowUps(s, w)]]

Talk == INSTANCE ScriptedTasks WITH
  First <- "open", Said <- Script, Follows <- Sequel,
  at <- AtNow, step <- next, asking <- AskingNow, said <- SaidNow, told <- ToldNow

(* What the simulation needs beyond IInv: what a run has under way is      *)
(* about the step it is at.                                                *)
ToThePoint(r) ==
  /\ task[r] = "wait" =>
       \A i \in 1 .. Len(outbox[r]) :
         outbox[r][i] \in Commands => outbox[r][i] = Command(next[r])
  /\ asked[r] \in {"none", Command(next[r])}
  /\ \A c \in Posted(r) : c.type \in SaidAt(next[r])
OnTopic == \A r \in Runs : ToThePoint(r)

LEMMA TalkInit == Init => OnTopic /\ Talk!Init
<1> SUFFICES ASSUME Init PROVE OnTopic /\ Talk!Init
  OBVIOUS
<1>1. \A r \in Runs : task[r] = "none" /\ asked[r] = "none" /\ inbox[r] = <<>>
  BY DEF Init
<1>2. \A r \in Runs : Posted(r) = {}
  BY CommentsAre, NobodyAssumption DEF Init, Posted
<1>3. OnTopic
  BY <1>1, <1>2 DEF OnTopic, ToThePoint
<1>4. \A r \in Runs : Stage(task[r]) = "none" /\ ~Asks(r) /\ SaidOf(r) = {} /\ ToldOf(r) = {}
  BY <1>1, <1>2 DEF Stage, Asks, SaidOf, ToldOf
<1>5. next = [r \in Runs |-> "open"] /\ entry = Nobody
  BY DEF Init
<1> QED
  BY <1>3, <1>4, <1>5 DEF Talk!Init, AtNow, AskingNow, SaidNow, ToldNow

(* A run that does not wait has nothing under way.                         *)
Quiet(r) == ~Asks(r) /\ asked[r] = "none" /\ Posted(r) = {} /\ ToldOf(r) = {}
QuietAtRest == \A r \in Runs : task[r] # "wait" => Quiet(r)

LEMMA AtRest == IInv => QuietAtRest
<1> SUFFICES ASSUME IInv, NEW r \in Runs, task[r] # "wait" PROVE Quiet(r)
  BY DEF QuietAtRest
<1>1. asked[r] = "none" /\ ~InMail(r) /\ ~InSending(r) /\ ~InInbox(r)
  BY InvParts DEF OneAnswer
<1>2. Posted(r) = {}
  BY <1>1 DEF Posted, InMail, InSending
<1>3. ToldOf(r) = {}
  BY <1>1 DEF ToldOf, InInbox
<1> QED
  BY <1>1, <1>2, <1>3 DEF Asks, Quiet

LEMMA AtRestNext == IInv' => QuietAtRest'
BY AtRest, PTL

LEMMA RestsToThePoint ==
  ASSUME IInv', NEW r \in Runs, task'[r] # "wait"
  PROVE  ToThePoint(r)'
BY AtRestNext DEF ToThePoint, QuietAtRest, Quiet

(* The question is asked, or the answer is posted, or in the inbox.        *)
Underways ==
  \A r \in Runs :
    /\ Asks(r) => Posted(r) = {} /\ ToldOf(r) = {}
    /\ Posted(r) # {} => task[r] = "wait" /\ ~Asks(r) /\ ToldOf(r) = {}
    /\ ToldOf(r) # {} => task[r] = "wait" /\ ~Asks(r)

LEMMA Underway == IInv => Underways
<1> SUFFICES ASSUME IInv, NEW r \in Runs
             PROVE  /\ Asks(r) => Posted(r) = {} /\ ToldOf(r) = {}
                    /\ Posted(r) # {} => task[r] = "wait" /\ ~Asks(r) /\ ToldOf(r) = {}
                    /\ ToldOf(r) # {} => task[r] = "wait" /\ ~Asks(r)
  BY DEF Underways
<1>1. OneAnswer(r)
  BY InvParts
<1>2. Posted(r) # {} <=> InMail(r) \/ InSending(r)
  BY DEF Posted, InMail, InSending
<1>3. ToldOf(r) # {} <=> InInbox(r)
  BY DEF ToldOf, InInbox
<1> QED
  BY <1>1, <1>2, <1>3 DEF OneAnswer, Asks

LEMMA UnderwayNext == IInv' => Underways'
BY Underway, PTL

(* The comments of the others stay when a run forgets its own.             *)
LEMMA ForgetsItsOwn ==
  ASSUME Typed, NEW r \in Runs, Forget(r), NEW q \in Runs \ {r}
  PROVE  Posted(q)' = Posted(q)
<1>1. \A c : c.run = q => (c \in mail' <=> c \in mail)
  BY DEF Forget
<1>2. \A d \in Dispatchers :
        sending'[d] = IF sending[d].run = r THEN Noise ELSE sending[d]
  BY DEF Forget
<1>3. \A c : c.run = q => ((\E d \in Dispatchers : c = sending'[d])
                             <=> \E d \in Dispatchers : c = sending[d])
  BY <1>2, CommentsAre, NobodyAssumption
<1> QED
  BY <1>1, <1>3 DEF Posted

-----------------------------------------------------------------------------
Unmoved(r) ==
  /\ Stage(task'[r]) = Stage(task[r])
  /\ Asks(r)' <=> Asks(r)
  /\ SaidOf(r)' = SaidOf(r)
  /\ ToldOf(r)' = ToldOf(r)

Aside(r) ==
  /\ task'[r] = task[r] /\ next'[r] = next[r] /\ asked'[r] = asked[r]
  /\ outbox'[r] = outbox[r]
  /\ Posted(r)' = Posted(r) /\ ToldOf(r)' = ToldOf(r)

LEMMA StandsAside ==
  ASSUME NEW r \in Runs, Aside(r)
  PROVE  Unmoved(r) /\ (ToThePoint(r) => ToThePoint(r)')
<1>1. Asks(r)' <=> Asks(r)
  BY DEF Aside, Asks
<1>2. SaidOf(r)' = SaidOf(r) /\ ToldOf(r)' = ToldOf(r)
  BY DEF Aside, SaidOf
<1>3. ToThePoint(r) => ToThePoint(r)'
  BY DEF Aside, ToThePoint
<1> QED
  BY <1>1, <1>2, <1>3 DEF Unmoved, Aside

LEMMA Rests ==
  ASSUME IInv, IInv', NEW r \in Runs, task[r] # "wait", task'[r] # "wait",
         Stage(task'[r]) = Stage(task[r])
  PROVE  Unmoved(r) /\ ToThePoint(r)'
<1>1. Posted(r) = {} /\ Posted(r)' = {}
  BY AtRest, AtRestNext DEF QuietAtRest, Quiet
<1>2. SaidOf(r)' = SaidOf(r)
  BY <1>1 DEF SaidOf
<1> QED
  BY <1>2, AtRest, AtRestNext, RestsToThePoint DEF Unmoved, QuietAtRest, Quiet

(* The turn of one run, and of none.                                       *)
LEMMA Turn ==
  ASSUME NEW r \in Runs, \A q \in Runs \ {r} : Unmoved(q)
  PROVE  /\ AtNow' = [AtNow EXCEPT ![r] = Stage(task'[r])]
         /\ SaidNow' = [SaidNow EXCEPT ![r] = SaidOf(r)']
         /\ ToldNow' = [ToldNow EXCEPT ![r] = ToldOf(r)']
         /\ AskingNow' = IF Asks(r)' THEN AskingNow \cup {r} ELSE AskingNow \ {r}
         /\ Stage(task'[r]) = Stage(task[r]) => AtNow' = AtNow
         /\ SaidOf(r)' = SaidOf(r) => SaidNow' = SaidNow
         /\ ToldOf(r)' = ToldOf(r) => ToldNow' = ToldNow
         /\ (Asks(r)' <=> Asks(r)) => AskingNow' = AskingNow
<1>1. /\ AtNow' = [AtNow EXCEPT ![r] = Stage(task'[r])]
      /\ Stage(task'[r]) = Stage(task[r]) => AtNow' = AtNow
  BY DEF AtNow, Unmoved
<1>2. /\ SaidNow' = [SaidNow EXCEPT ![r] = SaidOf(r)']
      /\ SaidOf(r)' = SaidOf(r) => SaidNow' = SaidNow
  BY DEF SaidNow, Unmoved
<1>3. /\ ToldNow' = [ToldNow EXCEPT ![r] = ToldOf(r)']
      /\ ToldOf(r)' = ToldOf(r) => ToldNow' = ToldNow
  BY DEF ToldNow, Unmoved
<1>4. \A q \in Runs \ {r} : q \in AskingNow' <=> q \in AskingNow
  BY DEF AskingNow, Unmoved
<1>5. /\ r \in AskingNow' <=> Asks(r)'
      /\ r \in AskingNow <=> Asks(r)
      /\ AskingNow \subseteq Runs /\ AskingNow' \subseteq Runs
  BY DEF AskingNow
<1> QED
  BY <1>1, <1>2, <1>3, <1>4, <1>5

LEMMA NobodysTurn ==
  ASSUME \A r \in Runs : Unmoved(r), UNCHANGED <<entry, next>>
  PROVE  UNCHANGED Talk!vars
<1>1. AtNow' = AtNow
  BY DEF AtNow, Unmoved
<1>2. AskingNow' = AskingNow
  BY DEF AskingNow, Unmoved
<1>3. SaidNow' = SaidNow
  BY DEF SaidNow, Unmoved
<1>4. ToldNow' = ToldNow
  BY DEF ToldNow, Unmoved
<1> QED
  BY <1>1, <1>2, <1>3, <1>4 DEF Talk!vars
-----------------------------------------------------------------------------
(* The steps, one by one: which they are of ScriptedTasks, if any.         *)

LEMMA ByOne ==
  ASSUME OnTopic, NEW r \in Runs, \A q \in Runs \ {r} : Aside(q), ToThePoint(r)'
  PROVE  OnTopic' /\ \A q \in Runs \ {r} : Unmoved(q)
BY StandsAside DEF OnTopic

(* What is sent or read is a report, or the run does not wait.             *)
LEMMA ReportsOnly ==
  ASSUME IInv, IInv', OnTopic, NEW r \in Runs,
         UNCHANGED <<entry, inbox, task, next, asked, mail, sending>>,
         \A q \in Runs \ {r} : outbox'[q] = outbox[q],
         \/ task[r] # "wait"
         \/ /\ HasCommand(outbox'[r]) <=> HasCommand(outbox[r])
            /\ \A i \in 1 .. Len(outbox'[r]) :
                 \E j \in 1 .. Len(outbox[r]) : outbox'[r][i] = outbox[r][j]
  PROVE  OnTopic' /\ UNCHANGED Talk!vars
<1>1. \A q \in Runs : Posted(q)' = Posted(q)
  BY DEF Posted
<1>2. \A q \in Runs \ {r} : Aside(q)
  BY <1>1 DEF Aside, ToldOf
<1>3. Unmoved(r) /\ ToThePoint(r)'
  <2>1. CASE task[r] # "wait"
    BY <2>1, Rests
  <2>2. CASE task[r] = "wait"
    <3>1. Asks(r)' <=> Asks(r)
      BY <2>2 DEF Asks
    <3>2. SaidOf(r)' = SaidOf(r) /\ ToldOf(r)' = ToldOf(r)
      BY <1>1 DEF SaidOf, ToldOf
    <3>3. ToThePoint(r)'
      BY <1>1, <2>2 DEF OnTopic, ToThePoint
    <3> QED
      BY <3>1, <3>2, <3>3 DEF Unmoved
  <2> QED
    BY <2>1, <2>2
<1>4. OnTopic' /\ \A q \in Runs : Unmoved(q)
  BY <1>2, <1>3, ByOne
<1> QED
  BY <1>4, NobodysTurn

LEMMA SpawnIsQuiet ==
  ASSUME IInv, IInv', OnTopic, NEW r \in Runs,
         SpawnTask(r) \/ \E sent \in BOOLEAN : NewFails(r, sent)
  PROVE  OnTopic' /\ UNCHANGED Talk!vars
<1>1. /\ UNCHANGED <<entry, inbox, task, next, asked, mail, sending>>
      /\ outbox' = outbox \/ Send(r, "Running")
      /\ call[r] # "done"
  BY DEF SpawnTask, Refuse, Begin, NewFails, UnchangedRegistry, UnchangedTask, UnchangedGitHub
<1>2. task[r] = "none"
  BY <1>1, InvParts DEF Fits, FitsFor
<1>3. \A q \in Runs \ {r} : outbox'[q] = outbox[q]
  BY <1>1, InvParts, Reported DEF Reports
<1> QED
  BY <1>1, <1>2, <1>3, ReportsOnly

LEMMA NewBegins ==
  ASSUME IInv, IInv', OnTopic, NEW r \in Runs, NewOk(r)
  PROVE  OnTopic' /\ Talk!Begin(r)
<1>1. Typed /\ Fits(r)
  BY InvParts
<1>2. /\ call[r] = "new" /\ entry' = r /\ task' = [task EXCEPT ![r] = "starting"]
      /\ UNCHANGED <<sending, inbox, next, asked, mail>>
  BY DEF NewOk, GoTo, UnchangedGitHub
<1>3. task[r] = "none" /\ task'[r] = "starting" /\ \A q \in Runs \ {r} : task'[q] = task[q]
  BY <1>1, <1>2 DEF Typed, Fits, FitsFor
<1>4. \A q \in Runs \ {r} : outbox'[q] = outbox[q]
  BY <1>1, Reported DEF Reports, NewOk
<1>5. \A q \in Runs \ {r} : Aside(q)
  BY <1>2, <1>3, <1>4 DEF Aside, Posted, ToldOf
<1>6. /\ ~Asks(r) /\ Posted(r) = {} /\ ToldOf(r) = {}
      /\ ~Asks(r)' /\ Posted(r)' = {} /\ ToldOf(r)' = {}
  BY <1>3, AtRest, AtRestNext DEF QuietAtRest, Quiet
<1>7. OnTopic' /\ \A q \in Runs \ {r} : Unmoved(q)
  BY <1>3, <1>5, RestsToThePoint, ByOne
<1>8. SaidOf(r)' = SaidOf(r)
  BY <1>6 DEF SaidOf
<1>9. Stage(task[r]) = "none" /\ Stage(task'[r]) = "works"
  BY <1>3 DEF Stage
<1>10. AtNow[r] = "none"
  BY <1>9 DEF AtNow
<1> QED
  BY <1>2, <1>6, <1>7, <1>8, <1>9, <1>10, Turn DEF Talk!Begin

-----------------------------------------------------------------------------
(* The reader.                                                             *)

(* The command that a waiting run sent is the last message in its outbox.  *)
LEMMA ReadsTheQuestion ==
  ASSUME IInv, OnTopic, NEW r \in Runs, Read(r, Commands), task[r] = "wait"
  PROVE  /\ Head(outbox[r]) = Command(next[r])
         /\ HasCommand(outbox[r]) /\ ~HasCommand(outbox'[r])
<1>1. outbox[r] \in Seq(Reports \cup Commands) /\ outbox[r] # <<>> /\ Fits(r)
  BY InvParts DEF Typed, Read
<1>2. outbox'[r] = Tail(outbox[r]) /\ Head(outbox[r]) \in Commands
  BY InvParts DEF Typed, Read
<1>3. Head(outbox[r]) = outbox[r][1] /\ 1 \in 1 .. Len(outbox[r])
  BY <1>1, Taken
<1>4. Len(outbox[r]) = 1
  BY <1>1, <1>2, <1>3 DEF Fits, FitsFor
<1>5. Len(outbox'[r]) = 0
  BY <1>1, <1>2, <1>4, ReadMessage
<1>6. Head(outbox[r]) = Command(next[r])
  BY <1>2, <1>3 DEF OnTopic, ToThePoint
<1> QED
  BY <1>2, <1>3, <1>5, <1>6 DEF HasCommand

LEMMA ReportsAreQuiet ==
  ASSUME IInv, IInv', OnTopic, NEW r \in Runs,
         \/ SetState(r) \/ HangUp(r)
         \/ GiveUpComment(r) /\ task[r] # "wait"
  PROVE  OnTopic' /\ UNCHANGED Talk!vars
<1>1. Typed /\ outbox[r] \in Seq(Reports \cup Commands)
  BY InvParts DEF Typed
<1>2. UNCHANGED <<entry, inbox, task, next, asked, mail, sending>>
  BY DEF SetState, HangUp, GiveUpComment, Read, UnchangedRegistry, UnchangedTask, UnchangedGitHub
<1>3. CASE HangUp(r)
  BY <1>1, <1>2, <1>3, ReportsOnly DEF HangUp
<1>4. CASE SetState(r) \/ (GiveUpComment(r) /\ task[r] # "wait")
  <2>1. /\ outbox[r] # <<>> /\ outbox' = [outbox EXCEPT ![r] = Tail(outbox[r])]
        /\ SetState(r) => Head(outbox[r]) \in Reports
    BY <1>4 DEF SetState, GiveUpComment, Read, Reports
  <2>2. outbox'[r] = Tail(outbox[r]) /\ \A q \in Runs \ {r} : outbox'[q] = outbox[q]
    BY <1>1, <2>1 DEF Typed
  <2>3. /\ Len(outbox[r]) \in Nat /\ Len(outbox'[r]) = Len(outbox[r]) - 1
        /\ SetState(r) => (HasCommand(outbox'[r]) <=> HasCommand(outbox[r]))
        /\ \A i \in 1 .. Len(outbox[r]) - 1 : outbox'[r][i] = outbox[r][i + 1]
    <3>1. /\ Len(Tail(outbox[r])) = Len(outbox[r]) - 1
          /\ Head(outbox[r]) \in Reports => (HasCommand(outbox[r]) <=> HasCommand(Tail(outbox[r])))
          /\ \A i \in 1 .. Len(outbox[r]) - 1 : Tail(outbox[r])[i] = outbox[r][i + 1]
      BY <1>1, <2>1, ReadMessage
    <3>2. Len(outbox[r]) \in Nat
      BY <1>1
    <3> QED
      BY <2>1, <2>2, <3>1, <3>2
  <2>4. \A i \in 1 .. Len(outbox'[r]) :
          \E j \in 1 .. Len(outbox[r]) : outbox'[r][i] = outbox[r][j]
    <3>1. \A i \in 1 .. Len(outbox'[r]) : i + 1 \in 1 .. Len(outbox[r])
      BY <2>3
    <3> QED
      BY <2>3, <3>1
  <2>5. CASE task[r] # "wait"
    BY <1>2, <2>2, <2>5, ReportsOnly
  <2>6. CASE task[r] = "wait"
    BY <1>2, <1>4, <2>2, <2>3, <2>4, <2>6, ReportsOnly
  <2> QED
    BY <2>5, <2>6
<1> QED
  BY <1>3, <1>4

LEMMA PostIsQuiet ==
  ASSUME IInv, IInv', OnTopic, NEW r \in Runs, PostComment(r)
  PROVE  OnTopic' /\ UNCHANGED Talk!vars
<1>1. Typed
  BY InvParts
<1>2. /\ UNCHANGED <<entry, inbox, task, next, mail, sending>>
      /\ outbox' = [outbox EXCEPT ![r] = Tail(outbox[r])]
      /\ asked' = [asked EXCEPT ![r] = IF Alive(r) THEN Head(outbox[r]) ELSE "none"]
  BY DEF PostComment, Read, UnchangedRegistry, UnchangedTask
<1>3. /\ \A q \in Runs \ {r} : outbox'[q] = outbox[q] /\ asked'[q] = asked[q]
      /\ asked'[r] = IF Alive(r) THEN Head(outbox[r]) ELSE "none"
  BY <1>1, <1>2 DEF Typed
<1>4. \A q \in Runs : Posted(q)' = Posted(q)
  BY <1>2 DEF Posted
<1>5. \A q \in Runs \ {r} : Aside(q)
  BY <1>2, <1>3, <1>4 DEF Aside, ToldOf
<1>6. Unmoved(r) /\ ToThePoint(r)'
  <2>1. CASE task[r] # "wait"
    BY <1>2, <2>1, Rests
  <2>2. CASE task[r] = "wait"
    <3>1. /\ Head(outbox[r]) = Command(next[r]) /\ Head(outbox[r]) \in Commands
          /\ HasCommand(outbox[r]) /\ ~HasCommand(outbox'[r])
      BY <2>2, ReadsTheQuestion DEF PostComment, Read
    <3>2. asked'[r] = Command(next[r]) /\ asked'[r] # "none"
      BY <1>3, <2>2, <3>1, Words DEF Alive
    <3>3. Asks(r) /\ Asks(r)'
      BY <1>2, <2>2, <3>1, <3>2 DEF Asks
    <3>4. SaidOf(r)' = SaidOf(r) /\ ToldOf(r)' = ToldOf(r)
      BY <1>2, <1>4 DEF SaidOf, ToldOf
    <3>5. ToThePoint(r)'
      BY <1>2, <1>4, <3>1, <3>2 DEF OnTopic, ToThePoint, HasCommand
    <3> QED
      BY <1>2, <3>3, <3>4, <3>5 DEF Unmoved
  <2> QED
    BY <2>1, <2>2
<1>7. OnTopic' /\ \A q \in Runs : Unmoved(q)
  BY <1>5, <1>6, ByOne
<1> QED
  BY <1>2, <1>7, NobodysTurn

LEMMA GiveUpMisses ==
  ASSUME IInv, IInv', OnTopic, NEW r \in Runs, GiveUpComment(r), task[r] = "wait"
  PROVE  OnTopic' /\ Talk!Miss(r)
<1>1. Typed
  BY InvParts
<1>2. /\ UNCHANGED <<entry, inbox, task, next, asked, mail, sending>>
      /\ outbox' = [outbox EXCEPT ![r] = Tail(outbox[r])] /\ Read(r, Commands)
  BY DEF GiveUpComment, Read, UnchangedRegistry, UnchangedTask, UnchangedGitHub
<1>3. \A q \in Runs \ {r} : outbox'[q] = outbox[q]
  BY <1>1, <1>2 DEF Typed
<1>4. \A q \in Runs : Posted(q)' = Posted(q)
  BY <1>2 DEF Posted
<1>5. \A q \in Runs \ {r} : Aside(q)
  BY <1>2, <1>3, <1>4 DEF Aside, ToldOf
<1>6. HasCommand(outbox[r]) /\ ~HasCommand(outbox'[r])
  BY <1>2, ReadsTheQuestion
<1>7. asked[r] = "none" /\ Posted(r) = {}
  <2>1. asked[r] = "none"
    BY <1>6, InvParts DEF OneAnswer
  <2>2. Asks(r)
    BY <1>6 DEF Asks
  <2> QED
    BY <2>1, <2>2, Underway DEF Underways
<1>8. ToThePoint(r)'
  BY <1>2, <1>4, <1>6, <1>7 DEF ToThePoint, HasCommand
<1>9. OnTopic' /\ \A q \in Runs \ {r} : Unmoved(q)
  BY <1>5, <1>8, ByOne
<1>10. /\ ~Asks(r)' /\ SaidOf(r)' = {} /\ ToldOf(r)' = ToldOf(r)
       /\ Stage(task'[r]) = Stage(task[r]) /\ AtNow[r] = "waits"
  BY <1>2, <1>4, <1>6, <1>7 DEF Asks, SaidOf, ToldOf, AtNow, Stage
<1> QED
  BY <1>2, <1>9, <1>10, Turn DEF Talk!Miss

-----------------------------------------------------------------------------
(* The task.                                                               *)

LEMMA PreparesQuietly ==
  ASSUME IInv, IInv', OnTopic, NEW r \in Runs, Start(r) \/ CloneOk(r)
  PROVE  OnTopic' /\ UNCHANGED Talk!vars
<1>1. Typed
  BY InvParts
<1>2. /\ task[r] \in {"starting", "clone"} /\ Drain(r)
      /\ UNCHANGED <<entry, next, asked, mail, sending>>
      /\ \E pc \in {"clone", "work"} : task' = [task EXCEPT ![r] = pc]
      /\ outbox' = outbox \/ Send(r, "Running")
  BY DEF Start, CloneOk, GoTo, UnchangedRegistry, UnchangedGitHub
<1>3. task'[r] \in {"clone", "work"} /\ \A q \in Runs \ {r} : task'[q] = task[q]
  BY <1>1, <1>2 DEF Typed
<1>4. \A q \in Runs \ {r} : outbox'[q] = outbox[q] /\ inbox'[q] = inbox[q]
  BY <1>1, <1>2, Reported, Drained DEF Reports
<1>5. \A q \in Runs \ {r} : Aside(q)
  BY <1>2, <1>3, <1>4 DEF Aside, Posted, ToldOf
<1>6. Stage(task[r]) = "works" /\ Stage(task'[r]) = "works"
  BY <1>2, <1>3 DEF Stage
<1>7. Unmoved(r) /\ ToThePoint(r)'
  BY <1>2, <1>3, <1>6, Rests
<1>8. OnTopic' /\ \A q \in Runs : Unmoved(q)
  BY <1>5, <1>7, ByOne
<1> QED
  BY <1>2, <1>8, NobodysTurn

LEMMA EndQuits ==
  ASSUME IInv, IInv', OnTopic, NEW r \in Runs, task[r] \in {"clone", "work", "wait"}, End(r),
         outbox' = outbox \/ Send(r, "Error")
  PROVE  OnTopic' /\ Talk!Quit(r)
<1>1. Typed
  BY InvParts
<1>2. /\ task' = [task EXCEPT ![r] = "ended"] /\ inbox' = [inbox EXCEPT ![r] = <<>>]
      /\ next' = [next EXCEPT ![r] = "open"] /\ asked' = [asked EXCEPT ![r] = "none"]
      /\ Forget(r) /\ entry' = entry
  BY DEF End, GoTo, UnchangedRegistry
<1>3. /\ task'[r] = "ended"
      /\ \A q \in Runs \ {r} : /\ task'[q] = task[q] /\ inbox'[q] = inbox[q]
                               /\ next'[q] = next[q] /\ asked'[q] = asked[q]
  BY <1>1, <1>2 DEF Typed
<1>4. \A q \in Runs \ {r} : outbox'[q] = outbox[q]
  BY <1>1, Reported DEF Reports
<1>5. \A q \in Runs \ {r} : Posted(q)' = Posted(q)
  BY <1>1, <1>2, ForgetsItsOwn
<1>6. \A q \in Runs \ {r} : Aside(q)
  BY <1>3, <1>4, <1>5 DEF Aside, ToldOf
<1>7. ~Asks(r)' /\ SaidOf(r)' = {} /\ ToldOf(r)' = {}
  BY <1>3, AtRestNext DEF QuietAtRest, Quiet, SaidOf
<1>8. OnTopic' /\ \A q \in Runs \ {r} : Unmoved(q)
  BY <1>3, <1>6, RestsToThePoint, ByOne
<1>9. Stage(task'[r]) = "ended" /\ AtNow[r] \in {"works", "waits"}
  BY <1>3 DEF Stage, AtNow
<1> QED
  BY <1>2, <1>7, <1>8, <1>9, Turn DEF Talk!Quit

(* A question is asked: the pull request is opened, or a command is sent.  *)
LEMMA OpenAsks ==
  ASSUME IInv, IInv', OnTopic, NEW r \in Runs, OpenPullRequest(r)
  PROVE  OnTopic' /\ Talk!Ask(r)
<1>1. Typed
  BY InvParts
<1>2. /\ task[r] = "work" /\ next[r] = "open" /\ task' = [task EXCEPT ![r] = "wait"]
      /\ asked' = [asked EXCEPT ![r] = "open"] /\ Forget(r)
      /\ outbox' = outbox /\ next' = next /\ entry' = entry
  BY DEF OpenPullRequest, GoTo, UnchangedRegistry
<1>3. /\ task'[r] = "wait" /\ asked'[r] = "open"
      /\ \A q \in Runs \ {r} : /\ task'[q] = task[q] /\ inbox'[q] = inbox[q]
                               /\ asked'[q] = asked[q]
  BY <1>1, <1>2 DEF Typed, OpenPullRequest
<1>4. \A q \in Runs \ {r} : Posted(q)' = Posted(q)
  BY <1>1, <1>2, ForgetsItsOwn
<1>5. \A q \in Runs \ {r} : Aside(q)
  BY <1>2, <1>3, <1>4 DEF Aside, ToldOf
<1>6. Asks(r)' /\ Posted(r)' = {} /\ ToldOf(r)' = {}
  <2>1. Asks(r)'
    BY <1>3 DEF Asks
  <2> QED
    BY <2>1, UnderwayNext DEF Underways
<1>7. ~HasCommand(outbox'[r])
  BY <1>2, InvParts DEF Fits, FitsFor
<1>8. ToThePoint(r)'
  BY <1>2, <1>3, <1>6, <1>7 DEF ToThePoint, HasCommand, Command
<1>9. OnTopic' /\ \A q \in Runs \ {r} : Unmoved(q)
  BY <1>5, <1>8, ByOne
<1>10. /\ SaidOf(r)' = SaidOf(r) /\ ToldOf(r)' = ToldOf(r)
       /\ Stage(task'[r]) = "waits" /\ AtNow[r] = "works"
  BY <1>2, <1>3, <1>6, AtRest DEF QuietAtRest, Quiet, SaidOf, AtNow, Stage
<1> QED
  BY <1>2, <1>6, <1>9, <1>10, Turn DEF Talk!Ask

LEMMA AskAsks ==
  ASSUME IInv, IInv', OnTopic, NEW r \in Runs, Ask(r)
  PROVE  OnTopic' /\ Talk!Ask(r)
<1>1. Typed
  BY InvParts
<1>2. /\ task[r] = "work" /\ task' = [task EXCEPT ![r] = "wait"]
      /\ outbox' = [outbox EXCEPT ![r] = Append(outbox[r], Command(next[r]))]
      /\ UNCHANGED <<entry, inbox, next, asked, mail, sending>>
  BY DEF Ask, Send, GoTo, UnchangedRegistry, UnchangedGitHub
<1>3. Command(next[r]) \in Commands /\ outbox[r] \in Seq(Reports \cup Commands)
  BY <1>1, CommandOfStep DEF Typed
<1>4. /\ task'[r] = "wait" /\ outbox'[r] = Append(outbox[r], Command(next[r]))
      /\ \A q \in Runs \ {r} : task'[q] = task[q] /\ outbox'[q] = outbox[q]
  BY <1>1, <1>2 DEF Typed
<1>5. \A q \in Runs \ {r} : Aside(q)
  BY <1>2, <1>4 DEF Aside, Posted, ToldOf
<1>6. HasCommand(outbox'[r])
  BY <1>3, <1>4, SentCommand
<1>7. Asks(r)'
  BY <1>4, <1>6 DEF Asks
<1>8. /\ Posted(r) = {} /\ ToldOf(r) = {} /\ asked[r] = "none"
      /\ Posted(r)' = {} /\ ToldOf(r)' = {}
  BY <1>2, <1>7, AtRest, UnderwayNext DEF QuietAtRest, Quiet, Underways
<1>9. \A i \in 1 .. Len(outbox'[r]) :
        outbox'[r][i] \in Commands => outbox'[r][i] = Command(next[r])
  <2>1. ~HasCommand(outbox[r]) /\ Len(outbox[r]) \in Nat
    BY <1>2, <1>3, InvParts DEF Fits, FitsFor
  <2>2. /\ Len(outbox'[r]) = Len(outbox[r]) + 1
        /\ \A i \in 1 .. Len(outbox[r]) + 1 :
             outbox'[r][i] = IF i <= Len(outbox[r]) THEN outbox[r][i] ELSE Command(next[r])
    <3>1. Command(next[r]) \in Reports \cup Commands
      BY <1>3
    <3> QED
      BY <1>3, <1>4, <3>1, Appended
  <2> QED
    BY <2>1, <2>2 DEF HasCommand
<1>10. ToThePoint(r)'
  BY <1>2, <1>8, <1>9 DEF ToThePoint
<1>11. OnTopic' /\ \A q \in Runs \ {r} : Unmoved(q)
  BY <1>5, <1>10, ByOne
<1>12. /\ SaidOf(r)' = SaidOf(r) /\ ToldOf(r)' = ToldOf(r)
       /\ Stage(task'[r]) = "waits" /\ AtNow[r] = "works"
  BY <1>2, <1>4, <1>8 DEF SaidOf, AtNow, Stage
<1> QED
  BY <1>2, <1>7, <1>11, <1>12, Turn DEF Talk!Ask

(* The one answer in an inbox, and the inbox without its first message.    *)
LEMMA ToldIs ==
  ASSUME IInv, NEW r \in Runs, NEW i \in 1 .. Len(inbox[r]), inbox[r][i] \in Types
  PROVE  ToldOf(r) = {inbox[r][i]}
BY InvParts DEF OneAnswer, ToldOf

LEMMA TakenFrom ==
  ASSUME IInv, NEW r \in Runs, inbox[r] # <<>>,
         inbox' = [inbox EXCEPT ![r] = Tail(inbox[r])]
  PROVE  /\ \A q \in Runs \ {r} : inbox'[q] = inbox[q]
         /\ Head(inbox[r]) \in Messages
         /\ Head(inbox[r]) \in Types => ToldOf(r) = {Head(inbox[r])} /\ ToldOf(r)' = {}
         /\ Head(inbox[r]) \notin Types => ToldOf(r)' = ToldOf(r)
<1>1. /\ inbox \in [Runs -> Seq(Messages)] /\ inbox[r] \in Seq(Messages)
      /\ Len(inbox[r]) \in Nat
  BY InvParts DEF Typed
<1>2. /\ Head(inbox[r]) \in Messages /\ Head(inbox[r]) = inbox[r][1] /\ 1 \in 1 .. Len(inbox[r])
      /\ Len(Tail(inbox[r])) = Len(inbox[r]) - 1
      /\ \A i \in 1 .. Len(inbox[r]) - 1 : Tail(inbox[r])[i] = inbox[r][i + 1]
  BY <1>1, Taken
<1>3. inbox'[r] = Tail(inbox[r]) /\ \A q \in Runs \ {r} : inbox'[q] = inbox[q]
  BY <1>1
<1>4. \A w : (\E i \in 1 .. Len(inbox'[r]) : inbox'[r][i] = w)
               <=> \E i \in 2 .. Len(inbox[r]) : inbox[r][i] = w
  <2> SUFFICES ASSUME NEW w
               PROVE  (\E i \in 1 .. Len(inbox'[r]) : inbox'[r][i] = w)
                        <=> \E i \in 2 .. Len(inbox[r]) : inbox[r][i] = w
    OBVIOUS
  <2>1. ASSUME NEW i \in 1 .. Len(inbox'[r]), inbox'[r][i] = w
        PROVE  \E j \in 2 .. Len(inbox[r]) : inbox[r][j] = w
    <3>1. i + 1 \in 2 .. Len(inbox[r]) /\ inbox[r][i + 1] = w
      BY <1>1, <1>2, <1>3, <2>1
    <3> QED
      BY <3>1
  <2>2. ASSUME NEW i \in 2 .. Len(inbox[r]), inbox[r][i] = w
        PROVE  \E j \in 1 .. Len(inbox'[r]) : inbox'[r][j] = w
    <3>1. i - 1 \in 1 .. Len(inbox[r]) - 1 /\ (i - 1) + 1 = i
      BY <1>1
    <3>2. Tail(inbox[r])[i - 1] = w
      BY <1>2, <2>2, <3>1
    <3> QED
      BY <1>2, <1>3, <3>1, <3>2
  <2> QED
    BY <2>1, <2>2
<1>5. CASE Head(inbox[r]) \in Types
  <2>1. ToldOf(r) = {Head(inbox[r])}
    BY <1>2, <1>5, ToldIs
  <2>2. \A i \in 2 .. Len(inbox[r]) : inbox[r][i] \notin Types
    <3> SUFFICES ASSUME NEW i \in 2 .. Len(inbox[r]), inbox[r][i] \in Types PROVE FALSE
      OBVIOUS
    <3>1. i \in 1 .. Len(inbox[r]) /\ i # 1
      BY <1>1
    <3> QED
      BY <1>2, <1>5, <3>1, InvParts DEF OneAnswer
  <2>3. ToldOf(r)' = {}
    BY <1>4, <2>2 DEF ToldOf
  <2> QED
    BY <1>2, <1>3, <1>5, <2>1, <2>3
<1>6. CASE Head(inbox[r]) \notin Types
  <2>1. \A w \in Types : (\E i \in 1 .. Len(inbox[r]) : inbox[r][i] = w)
                           <=> \E i \in 2 .. Len(inbox[r]) : inbox[r][i] = w
    <3> SUFFICES ASSUME NEW w \in Types, NEW i \in 1 .. Len(inbox[r]), inbox[r][i] = w
                 PROVE  i \in 2 .. Len(inbox[r])
      <4>1. \A i \in 2 .. Len(inbox[r]) : i \in 1 .. Len(inbox[r])
        BY <1>1
      <4> QED
        BY <4>1
    <3>1. i # 1
      BY <1>2, <1>6
    <3> QED
      BY <1>1, <3>1
  <2>2. ToldOf(r)' = ToldOf(r)
    BY <1>4, <2>1 DEF ToldOf
  <2> QED
    BY <1>2, <1>3, <1>6, <2>2
<1> QED
  BY <1>5, <1>6

LEMMA HearHears ==
  ASSUME IInv, IInv', OnTopic, NEW r \in Runs, Hear(r)
  PROVE  OnTopic' /\ Talk!Hear(r, Head(inbox[r]))
<1> DEFINE m == Head(inbox[r])
<1>1. Typed
  BY InvParts
<1>2. /\ task[r] = "wait" /\ inbox[r] # <<>> /\ m \in Awaited(Command(next[r])) \ Failures
      /\ inbox' = [inbox EXCEPT ![r] = Tail(inbox[r])]
      /\ task' = [task EXCEPT ![r] = "work"]
      /\ UNCHANGED <<entry, outbox, asked, mail, sending>>
  BY DEF Hear, GoTo, UnchangedRegistry, UnchangedGitHub
<1>3. PICK s \in FollowUps(next[r], m) : next' = [next EXCEPT ![r] = s]
  BY DEF Hear
<1>4. next[r] \in Steps /\ Command(next[r]) \in Commands
  BY <1>1, CommandOfStep DEF Typed
<1>5. /\ task'[r] = "work"
      /\ \A q \in Runs \ {r} : task'[q] = task[q] /\ next'[q] = next[q] /\ inbox'[q] = inbox[q]
  BY <1>1, <1>2, <1>3 DEF Typed
<1>6. m \in Types /\ ToldOf(r) = {m} /\ ToldOf(r)' = {}
  <2>1. m \in Types
    BY <1>2, <1>4, TakenFrom, AwaitedTypes DEF Messages
  <2> QED
    BY <1>2, <2>1, TakenFrom
<1>7. ~Asks(r) /\ Posted(r) = {} /\ ~Asks(r)' /\ Posted(r)' = {}
  BY <1>5, <1>6, Underway, AtRestNext DEF Underways, QuietAtRest, Quiet
<1>8. \A q \in Runs \ {r} : Aside(q)
  BY <1>2, <1>5 DEF Aside, Posted, ToldOf
<1>9. OnTopic' /\ \A q \in Runs \ {r} : Unmoved(q)
  BY <1>5, <1>8, RestsToThePoint, ByOne
<1>10. m \in DOMAIN Sequel[next[r]] /\ Sequel[next[r]][m] = FollowUps(next[r], m)
  BY <1>2, <1>4 DEF Sequel
<1>11. \E t \in Sequel[next[r]][m] : next' = [next EXCEPT ![r] = t]
  BY <1>3, <1>10
<1>12. SaidOf(r)' = SaidOf(r) /\ Stage(task'[r]) = "works" /\ ToldNow[r] = {m}
  BY <1>5, <1>6, <1>7 DEF SaidOf, Stage, ToldNow
<1> HIDE DEF m
<1>13. Talk!Hear(r, m)
  BY <1>2, <1>6, <1>7, <1>9, <1>10, <1>11, <1>12, Turn DEF Talk!Hear
<1> QED
  BY <1>9, <1>13 DEF m

LEMMA IgnoreIgnores ==
  ASSUME IInv, IInv', OnTopic, NEW r \in Runs, Ignore(r)
  PROVE  OnTopic' /\ (Talk!Ignore(r) \/ UNCHANGED Talk!vars)
<1>1. /\ inbox[r] # <<>> /\ Head(inbox[r]) \notin Awaited(Command(next[r]))
      /\ inbox' = [inbox EXCEPT ![r] = Tail(inbox[r])]
      /\ UNCHANGED <<entry, outbox, task, next, asked, mail, sending>>
  BY DEF Ignore, UnchangedRegistry, UnchangedGitHub
<1>2. /\ \A q \in Runs \ {r} : inbox'[q] = inbox[q]
      /\ Head(inbox[r]) \in Types => ToldOf(r) = {Head(inbox[r])} /\ ToldOf(r)' = {}
      /\ Head(inbox[r]) \notin Types => ToldOf(r)' = ToldOf(r)
  BY <1>1, TakenFrom
<1>3. \A q \in Runs \ {r} : Aside(q)
  BY <1>1, <1>2 DEF Aside, Posted, ToldOf
<1>4. ToThePoint(r)'
  BY <1>1 DEF OnTopic, ToThePoint, Posted
<1>5. OnTopic' /\ \A q \in Runs \ {r} : Unmoved(q)
  BY <1>3, <1>4, ByOne
<1>6. (Asks(r)' <=> Asks(r)) /\ SaidOf(r)' = SaidOf(r) /\ Stage(task'[r]) = Stage(task[r])
  BY <1>1 DEF Asks, SaidOf, Posted
<1>7. CASE Head(inbox[r]) \in Types
  <2>1. next[r] \in Steps
    BY InvParts DEF Typed
  <2>2. DOMAIN Sequel[next[r]] = Awaited(Command(next[r]))
    BY <2>1 DEF Sequel
  <2>3. ToldNow[r] \cap DOMAIN Sequel[next[r]] = {}
    BY <1>1, <1>2, <1>7, <2>2 DEF ToldNow
  <2>4. Talk!Ignore(r)
    BY <1>1, <1>2, <1>5, <1>6, <1>7, <2>3, Turn DEF Talk!Ignore
  <2> QED
    BY <1>5, <2>4
<1>8. CASE Head(inbox[r]) \notin Types
  <2>1. \A q \in Runs : Unmoved(q)
    BY <1>2, <1>5, <1>6, <1>8 DEF Unmoved
  <2> QED
    BY <1>1, <1>5, <2>1, NobodysTurn
<1> QED
  BY <1>7, <1>8

-----------------------------------------------------------------------------
(* GitHub, the server's commands, and dispatch.                            *)

LEMMA AnswerAnswers ==
  ASSUME IInv, IInv', OnTopic, NEW r \in Runs, NEW type \in Types, Answer(r, type)
  PROVE  OnTopic' /\ type \in Script[next[r]] /\ Talk!Answer(r, type)
<1> DEFINE new == [run |-> r, type |-> type]
<1>1. Typed /\ OneAnswer(r)
  BY InvParts
<1>2. /\ asked[r] # "none" /\ type \in Answers(asked[r]) \cup Refusals(asked[r])
      /\ asked' = [asked EXCEPT ![r] = "none"] /\ mail' = mail \cup {new}
      /\ UNCHANGED <<entry, sending, outbox, inbox, task, next>>
  BY DEF Answer, UnchangedRegistry, UnchangedTask
<1>3. asked'[r] = "none" /\ \A q \in Runs \ {r} : asked'[q] = asked[q]
  BY <1>1, <1>2 DEF Typed
<1>4. task[r] = "wait" /\ ~HasCommand(outbox[r])
  BY <1>1, <1>2 DEF OneAnswer
<1>5. Asks(r) /\ ~Asks(r)'
  BY <1>2, <1>3, <1>4 DEF Asks
<1>6. Posted(r) = {} /\ Posted(r)' = {new}
  <2>1. Posted(r) = {}
    BY <1>5, Underway DEF Underways
  <2> QED
    BY <1>2, <2>1 DEF Posted
<1>7. \A q \in Runs \ {r} : Aside(q)
  BY <1>2, <1>3 DEF Aside, Posted, ToldOf
<1>8. next[r] \in Steps /\ type \in SaidAt(next[r])
  BY <1>1, <1>2 DEF Typed, OnTopic, ToThePoint, SaidAt
<1>9. ToThePoint(r)'
  BY <1>2, <1>3, <1>4, <1>6, <1>8 DEF ToThePoint, HasCommand
<1>10. OnTopic' /\ \A q \in Runs \ {r} : Unmoved(q)
  BY <1>7, <1>9, ByOne
<1>11. type \in Script[next[r]]
  BY <1>8 DEF Script
<1>12. /\ SaidOf(r)' = {type} /\ ToldOf(r)' = ToldOf(r) /\ r \in AskingNow
       /\ Stage(task'[r]) = Stage(task[r])
  BY <1>2, <1>5, <1>6 DEF SaidOf, ToldOf, AskingNow
<1> QED
  BY <1>2, <1>5, <1>10, <1>11, <1>12, Turn DEF Talk!Answer

LEMMA NoAnswerMisses ==
  ASSUME IInv, IInv', OnTopic, NEW r \in Runs, NoAnswer(r)
  PROVE  OnTopic' /\ Talk!Miss(r)
<1>1. Typed /\ OneAnswer(r)
  BY InvParts
<1>2. /\ asked[r] # "none" /\ asked' = [asked EXCEPT ![r] = "none"]
      /\ UNCHANGED <<entry, sending, mail, outbox, inbox, task, next>>
  BY DEF NoAnswer, UnchangedRegistry, UnchangedTask
<1>3. asked'[r] = "none" /\ \A q \in Runs \ {r} : asked'[q] = asked[q]
  BY <1>1, <1>2 DEF Typed
<1>4. task[r] = "wait" /\ ~HasCommand(outbox[r])
  BY <1>1, <1>2 DEF OneAnswer
<1>5. Asks(r) /\ ~Asks(r)'
  BY <1>2, <1>3, <1>4 DEF Asks
<1>6. Posted(r)' = {}
  BY <1>2, <1>5, Underway DEF Underways, Posted
<1>7. \A q \in Runs \ {r} : Aside(q)
  BY <1>2, <1>3 DEF Aside, Posted, ToldOf
<1>8. ToThePoint(r)'
  BY <1>2, <1>3, <1>4, <1>6 DEF ToThePoint, HasCommand
<1>9. OnTopic' /\ \A q \in Runs \ {r} : Unmoved(q)
  BY <1>7, <1>8, ByOne
<1>10. /\ SaidOf(r)' = {} /\ ToldOf(r)' = ToldOf(r) /\ AtNow[r] = "waits"
       /\ Stage(task'[r]) = Stage(task[r])
  BY <1>2, <1>4, <1>6 DEF SaidOf, ToldOf, AtNow, Stage
<1> QED
  BY <1>2, <1>5, <1>9, <1>10, Turn DEF Talk!Miss

LEMMA AllAside ==
  ASSUME OnTopic, UNCHANGED <<entry, next>>, \A r \in Runs : Aside(r)
  PROVE  OnTopic' /\ UNCHANGED Talk!vars
<1>1. \A r \in Runs : Unmoved(r) /\ ToThePoint(r)'
  BY StandsAside DEF OnTopic
<1> QED
  BY <1>1, NobodysTurn DEF OnTopic

LEMMA DispatchIsQuiet ==
  ASSUME IInv, OnTopic, NEW d \in Dispatchers, NEW comment \in mail \cup {Noise},
         Dispatch(d, comment)
  PROVE  OnTopic' /\ UNCHANGED Talk!vars
<1>1. /\ sending[d] = NoComment /\ sending' = [sending EXCEPT ![d] = comment]
      /\ mail' = mail \ {comment}
      /\ UNCHANGED <<entry, outbox, inbox, task, next, asked>>
  BY DEF Dispatch, UnchangedRegistry, UnchangedTask
<1>2. sending'[d] = comment /\ \A e \in Dispatchers \ {d} : sending'[e] = sending[e]
  BY <1>1, InvParts DEF Typed
<1>3. ASSUME NEW r \in Runs PROVE Posted(r)' = Posted(r)
  <2>1. ASSUME NEW c, c.run = r
        PROVE  (c \in mail' \/ \E e \in Dispatchers : c = sending'[e])
                 <=> (c \in mail \/ \E e \in Dispatchers : c = sending[e])
    <3>1. c # NoComment /\ c # Noise
      BY <2>1, CommentsAre, NobodyAssumption
    <3> QED
      BY <1>1, <1>2, <3>1
  <2> QED
    BY <2>1 DEF Posted
<1>4. \A r \in Runs : Aside(r)
  BY <1>1, <1>3 DEF Aside, ToldOf
<1> QED
  BY <1>1, <1>4, AllAside

LEMMA PutInto ==
  ASSUME IInv, NEW r \in Runs, NEW m \in Messages,
         inbox' = [inbox EXCEPT ![r] = Append(inbox[r], m)]
  PROVE  /\ ToldOf(r)' = ToldOf(r) \cup ({m} \cap Types)
         /\ \A q \in Runs \ {r} : ToldOf(q)' = ToldOf(q)
<1>1. /\ \A q \in Runs \ {r} : inbox'[q] = inbox[q]
      /\ Len(inbox[r]) \in Nat /\ Len(inbox'[r]) = Len(inbox[r]) + 1
      /\ \A i \in 1 .. Len(inbox[r]) + 1 :
           inbox'[r][i] = IF i <= Len(inbox[r]) THEN inbox[r][i] ELSE m
  BY InvParts, Put
<1>2. ASSUME NEW w
      PROVE  (\E i \in 1 .. Len(inbox'[r]) : inbox'[r][i] = w)
               <=> (w = m \/ \E i \in 1 .. Len(inbox[r]) : inbox[r][i] = w)
  <2>1. /\ Len(inbox[r]) + 1 \in 1 .. Len(inbox'[r]) /\ inbox'[r][Len(inbox[r]) + 1] = m
        /\ \A i \in 1 .. Len(inbox[r]) : i \in 1 .. Len(inbox'[r]) /\ inbox'[r][i] = inbox[r][i]
        /\ \A i \in 1 .. Len(inbox'[r]) : i = Len(inbox[r]) + 1 \/ i \in 1 .. Len(inbox[r])
    BY <1>1
  <2> QED
    BY <2>1
<1>3. ToldOf(r)' = ToldOf(r) \cup ({m} \cap Types)
  BY <1>2 DEF ToldOf
<1>4. \A q \in Runs \ {r} : ToldOf(q)' = ToldOf(q)
  BY <1>1 DEF ToldOf
<1> QED
  BY <1>3, <1>4

LEMMA ShutDownIsQuiet ==
  ASSUME IInv, OnTopic, ShutDown
  PROVE  OnTopic' /\ UNCHANGED Talk!vars
<1>1. PICK r \in Runs : r = entry
  BY InvParts DEF ShutDown, Typed
<1>2. /\ inbox' = [inbox EXCEPT ![r] = Append(inbox[r], "ShutDown")]
      /\ UNCHANGED <<entry, outbox, task, next, asked, mail, sending>>
  BY <1>1 DEF ShutDown, UnchangedRegistry, UnchangedGitHub
<1>3. \A q \in Runs : ToldOf(q)' = ToldOf(q)
  <2>1. "ShutDown" \in Messages /\ "ShutDown" \notin Types
    BY Words DEF Messages
  <2> QED
    BY <1>2, <2>1, PutInto
<1>4. \A q \in Runs : Aside(q)
  BY <1>2, <1>3 DEF Aside, Posted
<1> QED
  BY <1>2, <1>4, AllAside

(* An answer reaches the run it is for, if this is the registered one.     *)
LEMMA DeliverTells ==
  ASSUME IInv, IInv', OnTopic, NEW d \in Dispatchers, Deliver(d)
  PROVE  /\ OnTopic'
         /\ \/ UNCHANGED Talk!vars
            \/ \E r \in Runs : Talk!Tell(r) \/ Talk!Miss(r)
<1> DEFINE c == sending[d]
           m == IF c.run = entry THEN c.type ELSE "other"
           open == entry # Nobody /\ Alive(entry)
<1>1. Typed
  BY InvParts
<1>2. /\ c # NoComment /\ sending' = [sending EXCEPT ![d] = NoComment]
      /\ inbox' = IF open THEN [inbox EXCEPT ![entry] = Append(inbox[entry], m)] ELSE inbox
      /\ UNCHANGED <<entry, outbox, task, next, asked, mail>>
  BY DEF Deliver, UnchangedRegistry, UnchangedGitHub
<1>3. /\ c \in Comment /\ m \in Messages /\ (m \in Types => c.run = entry)
      /\ entry \in Runs \cup {Nobody}
  BY <1>1, <1>2, Words DEF Typed, Comment, Messages
<1>4. /\ sending'[d] = NoComment /\ \A e \in Dispatchers \ {d} : sending'[e] = sending[e]
  BY <1>1, <1>2 DEF Typed
<1>5. ASSUME NEW q \in Runs, q # c.run PROVE Aside(q)
  <2>1. Posted(q)' = Posted(q)
    <3>1. ASSUME NEW b, b.run = q
          PROVE  (\E e \in Dispatchers : b = sending'[e]) <=> \E e \in Dispatchers : b = sending[e]
      BY <1>4, <1>5, <3>1, CommentsAre, NobodyAssumption
    <3> QED
      BY <1>2, <3>1 DEF Posted
  <2>2. ToldOf(q)' = ToldOf(q)
    <3>1. CASE open /\ q = entry
      <4>1. m = "other" /\ m \notin Types
        BY <1>5, <3>1, Words
      <4>2. ToldOf(q)' = ToldOf(q) \cup ({m} \cap Types)
        <5> HIDE DEF m
        <5> QED
          BY <1>2, <1>3, <3>1, PutInto
      <4> QED
        BY <4>1, <4>2
    <3>2. CASE open /\ q # entry
      <4> HIDE DEF m
      <4> QED
        BY <1>2, <1>3, <3>2, PutInto
    <3>3. CASE ~open
      BY <1>2, <3>3 DEF ToldOf
    <3> QED
      BY <3>1, <3>2, <3>3
  <2> QED
    BY <1>2, <2>1, <2>2 DEF Aside
<1>6. CASE c.run = Nobody
  BY <1>2, <1>5, <1>6, NobodyAssumption, AllAside
<1>7. CASE c.run # Nobody
  <2>1. PICK r \in Runs : r = c.run
    BY <1>3, <1>7 DEF Comment
  <2>2. OneAnswer(r) /\ InSending(r)
    BY <2>1, InvParts DEF InSending
  <2>3. /\ task[r] = "wait" /\ ~InMail(r)
        /\ \A e \in Dispatchers : sending[e].run = r => e = d
    BY <2>1, <2>2 DEF OneAnswer
  <2>4. Posted(r) = {c} /\ Posted(r)' = {}
    <3>1. Posted(r) = {c}
      BY <2>1, <2>3 DEF Posted, InMail
    <3>2. Posted(r)' = {}
      BY <1>2, <1>4, <2>3, CommentsAre, NobodyAssumption DEF Posted, InMail
    <3> QED
      BY <3>1, <3>2
  <2>5. ~Asks(r) /\ ToldOf(r) = {} /\ ~Asks(r)'
    <3>1. ~Asks(r) /\ ToldOf(r) = {}
      BY <2>4, Underway DEF Underways
    <3> QED
      BY <1>2, <3>1 DEF Asks
  <2>6. c.type \in Types
    <3>1. next[r] \in Steps /\ c.type \in SaidAt(next[r])
      BY <1>1, <2>4 DEF Typed, OnTopic, ToThePoint
    <3> QED
      BY <3>1, CommandOfStep, AnswerTypes DEF SaidAt
  <2>7. ToThePoint(r)'
    BY <1>2, <2>4 DEF OnTopic, ToThePoint
  <2>8. OnTopic' /\ \A q \in Runs \ {r} : Unmoved(q)
    BY <1>5, <2>1, <2>7, ByOne
  <2>9. SaidOf(r) = {c.type} /\ SaidOf(r)' = {} /\ Stage(task'[r]) = Stage(task[r])
    BY <1>2, <2>4 DEF SaidOf
  <2>10. AtNow[r] = "waits" /\ SaidNow[r] = {c.type}
    BY <2>3, <2>9 DEF AtNow, Stage, SaidNow
  <2>11. CASE entry = r
    <3>1. open /\ m = c.type
      BY <2>1, <2>3, <2>11, NobodyAssumption DEF Alive
    <3>2. ToldOf(r)' = {c.type}
      <4>1. ToldOf(r)' = ToldOf(r) \cup ({c.type} \cap Types)
        BY <1>2, <1>3, <2>11, <3>1, PutInto
      <4> QED
        BY <2>5, <2>6, <4>1
    <3> HIDE DEF c
    <3>3. Talk!Tell(r)
      BY <1>2, <2>5, <2>8, <2>9, <2>10, <2>11, <3>2, Turn DEF Talk!Tell
    <3> QED
      BY <2>8, <3>3
  <2>12. CASE entry # r
    <3>1. ToldOf(r)' = ToldOf(r)
      <4>1. CASE open
        <5> HIDE DEF m
        <5> QED
          BY <1>2, <1>3, <2>12, <4>1, PutInto
      <4>2. CASE ~open
        BY <1>2, <4>2 DEF ToldOf
      <4> QED
        BY <4>1, <4>2
    <3> HIDE DEF c
    <3>2. Talk!Miss(r)
      BY <1>2, <2>5, <2>8, <2>9, <2>10, <3>1, Turn DEF Talk!Miss
    <3> QED
      BY <2>8, <3>2
  <2> QED
    BY <2>11, <2>12
<1> QED
  BY <1>6, <1>7

-----------------------------------------------------------------------------
LEMMA RunTalks ==
  ASSUME IInv, IInv', OnTopic, NEW r \in Runs,
         SpawnTask(r) \/ New(r) \/ ReaderStep(r) \/ TaskStep(r) \/ TaskFails(r)
  PROVE  OnTopic' /\ [Talk!Next]_(Talk!vars)
<1>1. CASE SpawnTask(r)
  BY <1>1, SpawnIsQuiet
<1>2. CASE New(r)
  <2>1. CASE NewOk(r)
    BY <2>1, NewBegins DEF Talk!Next
  <2>2. CASE \E sent \in BOOLEAN : NewFails(r, sent)
    BY <2>2, SpawnIsQuiet
  <2> QED
    BY <1>2, <2>1, <2>2 DEF New
<1>3. CASE ReaderStep(r)
  <2>1. CASE SetState(r) \/ HangUp(r) \/ (GiveUpComment(r) /\ task[r] # "wait")
    BY <2>1, ReportsAreQuiet
  <2>2. CASE GiveUpComment(r) /\ task[r] = "wait"
    BY <2>2, GiveUpMisses DEF Talk!Next
  <2>3. CASE PostComment(r)
    BY <2>3, PostIsQuiet
  <2> QED
    BY <1>3, <2>1, <2>2, <2>3 DEF ReaderStep
<1>4. CASE TaskStep(r) \/ TaskFails(r)
  <2>1. CASE Start(r) \/ CloneOk(r)
    BY <2>1, PreparesQuietly
  <2>2. CASE TaskSucceeds(r) \/ HearFailure(r) \/ Orphaned(r) \/ TaskFails(r)
    <3>1. /\ task[r] \in {"clone", "work", "wait"} /\ End(r)
          /\ outbox' = outbox \/ Send(r, "Error")
      BY <2>2 DEF TaskSucceeds, HearFailure, Orphaned, TaskFails, Fail
    <3> QED
      BY <3>1, EndQuits DEF Talk!Next
  <2>3. CASE OpenPullRequest(r) \/ Ask(r)
    BY <2>3, OpenAsks, AskAsks DEF Talk!Next
  <2>4. CASE Hear(r)
    <3>1. Head(inbox[r]) \in DOMAIN Sequel[next[r]]
      BY <2>4, HearHears DEF Talk!Hear
    <3> QED
      BY <2>4, <3>1, HearHears DEF Talk!Next
  <2>5. CASE Ignore(r)
    BY <2>5, IgnoreIgnores DEF Talk!Next
  <2> QED
    BY <1>4, <2>1, <2>2, <2>3, <2>4, <2>5 DEF TaskStep
<1> QED
  BY <1>1, <1>2, <1>3, <1>4

LEMMA TalkStep == IInv /\ OnTopic /\ [Next]_vars => OnTopic' /\ [Talk!Next]_(Talk!vars)
<1> SUFFICES ASSUME IInv, OnTopic, [Next]_vars
             PROVE  OnTopic' /\ [Talk!Next]_(Talk!vars)
  OBVIOUS
<1>1. IInv'
  BY InvNext
<1>2. ASSUME NEW r \in Runs,
             SpawnTask(r) \/ New(r) \/ ReaderStep(r) \/ TaskStep(r) \/ TaskFails(r)
      PROVE  OnTopic' /\ [Talk!Next]_(Talk!vars)
  BY <1>1, <1>2, RunTalks
<1>3. ASSUME NEW r \in Runs, NEW type \in Types, Answer(r, type)
      PROVE  OnTopic' /\ [Talk!Next]_(Talk!vars)
  BY <1>1, <1>3, AnswerAnswers DEF Talk!Next
<1>4. ASSUME NEW r \in Runs, NoAnswer(r)
      PROVE  OnTopic' /\ [Talk!Next]_(Talk!vars)
  BY <1>1, <1>4, NoAnswerMisses DEF Talk!Next
<1>5. ASSUME NEW d \in Dispatchers, NEW comment \in mail \cup {Noise}, Dispatch(d, comment)
      PROVE  OnTopic' /\ [Talk!Next]_(Talk!vars)
  BY <1>5, DispatchIsQuiet
<1>6. ASSUME NEW d \in Dispatchers, Deliver(d)
      PROVE  OnTopic' /\ [Talk!Next]_(Talk!vars)
  BY <1>1, <1>6, DeliverTells DEF Talk!Next
<1>7. CASE ShutDown
  BY <1>7, ShutDownIsQuiet
<1>8. CASE UNCHANGED vars
  <2>1. \A r \in Runs : Aside(r)
    BY <1>8 DEF vars, Aside, Posted, ToldOf
  <2> QED
    BY <1>8, <2>1, AllAside DEF vars
<1> QED
  BY <1>2, <1>3, <1>4, <1>5, <1>6, <1>7, <1>8 DEF Next

(* A task follows the script of aux_task/test_task/fuzz_test.rs: it asks   *)
(* for one thing at a step and once, hears as its answer only what was     *)
(* answered to it, while its entry is the registered one, goes on to a     *)
(* step that follows from this answer, and passes over none it waits for.  *)
THEOREM TasksFollowTheirScript == Spec => Talk!Spec
<1>1. Init => IInv /\ OnTopic /\ Talk!Init
  BY InvInit, TalkInit
<1>2. IInv /\ OnTopic /\ [Next]_vars => IInv' /\ OnTopic' /\ [Talk!Next]_(Talk!vars)
  BY InvNext, TalkStep
<1> QED
  BY <1>1, <1>2, PTL DEF Spec, Talk!Spec
=============================================================================
