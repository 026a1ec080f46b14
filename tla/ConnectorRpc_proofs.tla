------------------------- MODULE ConnectorRpc_proofs -------------------------
(***************************************************************************)
(* ConnectorRpc: the safety invariants of the run, for any number of calls *)
(* and whatever operations they may be.                                    *)
(*                                                                         *)
(* They are inductive with two additions: how far each call is, told by    *)
(* its record alone (Progress), and which states of the process go with    *)
(* which states of the handle (Life).  The last section shows that the     *)
(* handle implements AtMostOnce.                                           *)
(***************************************************************************)
EXTENDS ConnectorRpc, TLAPS

Texts == {"absent", "empty", "text"}
Values == {"none", "absent", "empty", "value", "blank", "removal", "error"}
Records == [caller : Callers, handler : Handlers, op : Ops,
            arg : Texts, seen : {"none"} \cup Texts, acts : 0 .. 1,
            answer : Values, got : Values]
Holding == {"runs", "acted", "hangs", "blocks"}

(* What the connector sees of x, and the caller of an answer y.            *)
SeenIn(m, op, x) == IF m.proto = "grpc" THEN GrpcSeen(op, x) ELSE x
GotIn(m, op, y) == IF m.proto = "grpc" THEN GrpcGot(op, y) ELSE y

Progress(r, m) ==
  /\ r.arg \in Args[r.op]
  /\ r.caller \in {"idle", "queued"} => r.handler = "none"
  /\ r.handler \in {"none", "waits", "runs"} => r.acts = 0
  /\ r.handler = "acted" => r.acts = 1
  /\ r.handler \in Holding \cup {"replied"} => r.seen = SeenIn(m, r.op, r.arg)
  /\ r.handler = "replied" => /\ r.answer \in Answers[r.op] \cup {"error"}
                              /\ r.answer # "error" => r.acts = 1
  /\ r.caller = "ok" => \/ /\ r.handler = "replied" /\ r.answer # "error"
                           /\ r.got = GotIn(m, r.op, r.answer)
                        \/ m.sandboxed /\ r.op = "subpaths"

Life ==
  /\ handle = "none" => proc = "none"
  /\ handle = "waits" => proc # "none"
  /\ handle \in {"ready", "dropping"} => proc \in {"up", "fails", "dead"}
  /\ handle = "dropping" => mode.sandboxed /\ ~sock
  /\ handle = "dropped" => proc = "dead" /\ ~sock /\ (dump => mode.sandboxed)
  /\ handle = "failed" /\ ~mode.sandboxed => proc \in {"none", "dead"}
  /\ proc \notin {"up", "fails"} => \A c \in Calls : call[c].handler \notin Busy

IInv == TypeOK /\ (\A c \in Calls : Progress(call[c], mode)) /\ Life

-----------------------------------------------------------------------------
(* What the wire does to the values.                                       *)

LEMMA OpsAre == Ops = {"get", "subpaths", "plan", "op_exec", "diag", "task_exec"}
BY DEF Ops, Args

LEMMA WhatIsSeen ==
  ASSUME NEW m, NEW op \in Ops, NEW x \in Args[op]
  PROVE  /\ x \in Texts /\ SeenIn(m, op, x) \in Texts
         /\ x = "text" <=> SeenIn(m, op, x) = "text"
         /\ m.proto # "grpc" => SeenIn(m, op, x) = x
<1>1. x \in Texts
  BY OpsAre DEF Args, Texts
<1> QED
  BY <1>1 DEF SeenIn, GrpcSeen, PlanFromWire, PlanToWire, FromWire, ToWire, Texts

LEMMA WhatIsGot ==
  ASSUME NEW m, NEW op \in Ops, NEW y \in Answers[op] \cup {"error"}
  PROVE  /\ y \in Values /\ GotIn(m, op, y) \in Values
         /\ y = "value" <=> GotIn(m, op, y) = "value"
         /\ m.proto # "grpc" => GotIn(m, op, y) = y
         /\ GotIn(m, op, y) = "removal" => m.proto # "grpc"
         /\ op # "task_exec" => (y = "blank" <=> GotIn(m, op, y) = "blank")
<1>1. /\ y \in {"absent", "empty", "value", "blank", "removal", "error"}
      /\ y = "blank" => op \in {"op_exec", "task_exec"}
      /\ y = "removal" => op \in {"op_exec", "task_exec"}
  BY OpsAre DEF Answers
<1> QED
  BY <1>1 DEF GotIn, GrpcGot, OpExecFromWire, OpExecToWire, TaskFromWire, TaskToWire,
              FromWire, ToWire, Values

LEMMA Names ==
  ASSUME NEW op, NEW x
  PROVE  Seen(op, x) = SeenIn(mode, op, x) /\ Got(op, x) = GotIn(mode, op, x)
BY DEF Seen, Got, Grpc, SeenIn, GotIn

LEMMA NotMadeIs ==
  /\ NotMade \in Records /\ NotMade.caller = "idle" /\ NotMade.handler = "none"
  /\ NotMade.acts = 0 /\ NotMade.op = "get" /\ NotMade.arg = "text"
BY OpsAre DEF NotMade, Records, Callers, Handlers, Texts, Values

LEMMA NotMadeProgress == \A m : Progress(NotMade, m)
BY NotMadeIs DEF Progress, Args, Holding

LEMMA Types ==
  ASSUME IInv
  PROVE  /\ call \in [Calls -> Records]
         /\ lock \in Calls \cup {NoCall}
         /\ \A c \in Calls : call[c].handler \in Holding <=> lock = c
BY DEF IInv, TypeOK, Records, Texts, Values, Holding

LEMMA InvInit == Init => IInv
<1> SUFFICES ASSUME Init PROVE IInv
  OBVIOUS
<1>1. call \in [Calls -> Records] /\ \A c \in Calls : call[c] = NotMade
  BY NotMadeIs DEF Init
<1>2. TypeOK
  <2>1. /\ mode \in [proto : {"tarpc", "grpc"}, sandboxed : BOOLEAN]
        /\ proc \in Procs /\ sock \in BOOLEAN /\ dump \in BOOLEAN /\ handle \in Handles
        /\ lock = NoCall
    BY DEF Init, Procs, Handles
  <2>2. \A c \in Calls :
          call[c].handler \in {"runs", "acted", "hangs", "blocks"} <=> lock = c
    BY <1>1, <2>1, NotMadeIs, CallsAssumption
  <2>3. call \in [Calls -> [caller : Callers, handler : Handlers, op : Ops,
                         arg : Texts, seen : {"none"} \cup Texts, acts : 0 .. 1,
                         answer : Values, got : Values]]
    BY <1>1 DEF Records
  <2> QED
    BY <2>1, <2>2, <2>3 DEF TypeOK, Texts, Values
<1>3. Life
  BY <1>1, NotMadeIs DEF Init, Life, Busy
<1> QED
  BY <1>1, <1>2, <1>3, NotMadeProgress DEF IInv

-----------------------------------------------------------------------------
(* A step of one call changes nothing else, but for the lock of the        *)
(* connector.                                                              *)
LEMMA CallStep ==
  ASSUME IInv, NEW c \in Calls, NEW r \in Records, Progress(r, mode),
         call' = [call EXCEPT ![c] = r],
         lock' \in Calls \cup {NoCall},
         r.handler \in Holding <=> lock' = c,
         \A d \in Calls \ {c} : lock' = d <=> lock = d,
         r.handler \in Busy => proc \in {"up", "fails"},
         UNCHANGED <<mode, proc, sock, dump, handle>>
  PROVE  IInv'
<1>1. /\ call' \in [Calls -> Records] /\ call'[c] = r
      /\ \A d \in Calls \ {c} : call'[d] = call[d]
  BY Types
<1>2. \A d \in Calls : call'[d].handler \in Holding <=> lock' = d
  BY <1>1, Types
<1>3. TypeOK'
  BY <1>1, <1>2 DEF IInv, TypeOK, Records, Texts, Values, Holding
<1>4. \A d \in Calls : Progress(call'[d], mode')
  BY <1>1 DEF IInv
<1>5. Life'
  BY <1>1 DEF IInv, Life
<1> QED
  BY <1>3, <1>4, <1>5 DEF IInv

(* The caller's side leaves the handler and what it holds alone.           *)
LEMMA CallerStep ==
  ASSUME IInv, NEW c \in Calls, NEW r \in Records, Progress(r, mode),
         call' = [call EXCEPT ![c] = r],
         \/ r.handler = call[c].handler
         \/ call[c].handler \notin Holding /\ r.handler \notin Busy
         \/ call[c].handler \notin Holding /\ r.handler = "waits" /\ proc \in {"up", "fails"},
         UNCHANGED <<mode, proc, sock, dump, handle, lock>>
  PROVE  IInv'
<1>1. r.handler \in Holding <=> lock' = c
  BY Types DEF Holding, Busy
<1>2. r.handler \in Busy => proc \in {"up", "fails"}
  BY DEF IInv, Life
<1> QED
  BY <1>1, <1>2, Types, CallStep

LEMMA SentIs ==
  ASSUME IInv, NEW r \in Records, Progress(r, mode), r.handler = "none"
  PROVE  /\ Sent(r) \in Records /\ Progress(Sent(r), mode)
         /\ \/ Sent(r).handler \notin Busy
            \/ Sent(r).handler = "waits" /\ proc \in {"up", "fails"}
<1> DEFINE x == IF proc \in {"up", "fails"} THEN "waits" ELSE "none"
<1>1. x \in Handlers /\ x \in {"waits", "none"} /\ "sent" \in Callers
  BY DEF Handlers, Callers
<1>2. x \notin Busy \/ (x = "waits" /\ proc \in {"up", "fails"})
  BY DEF Busy
<1>3. Sent(r) = [r EXCEPT !.caller = "sent", !.handler = x]
  BY DEF Sent
<1> HIDE DEF x
<1>4. /\ Sent(r) \in Records /\ Sent(r).caller = "sent" /\ Sent(r).handler = x
      /\ Sent(r).op = r.op /\ Sent(r).arg = r.arg /\ Sent(r).acts = r.acts
  BY <1>1, <1>3 DEF Records
<1>5. Progress(Sent(r), mode)
  BY <1>1, <1>4 DEF Progress, Holding
<1> QED
  BY <1>2, <1>4, <1>5

LEMMA StartKeeps ==
  ASSUME IInv, NEW c \in Calls, Start(c)
  PROVE  IInv'
<1>1. Asked(c) \subseteq Ops
  BY MakesAssumption DEF Asked
<1> DEFINE After(op, arg) ==
             LET made == [NotMade EXCEPT !.op = op, !.arg = arg] IN
             call' = [call EXCEPT ![c] = IF Grpc THEN [made EXCEPT !.caller = "queued"]
                                         ELSE Sent(made)]
<1>0. PICK op \in Ops : \E arg \in Args[op] : After(op, arg)
  BY <1>1 DEF Start
<1>2. PICK arg \in Args[op] : After(op, arg)
  BY <1>0
<1> DEFINE made == [NotMade EXCEPT !.op = op, !.arg = arg]
           queued == [made EXCEPT !.caller = "queued"]
<1>3. arg \in Texts
  BY WhatIsSeen
<1>4. /\ made \in Records /\ made.caller = "idle" /\ made.handler = "none"
      /\ made.acts = 0 /\ made.op = op /\ made.arg = arg
  BY <1>3, NotMadeIs DEF Records
<1>5. /\ queued \in Records /\ queued.caller = "queued" /\ queued.handler = "none"
      /\ queued.acts = 0 /\ queued.op = op /\ queued.arg = arg
  BY <1>4 DEF Records, Callers
<1>6. Progress(made, mode) /\ Progress(queued, mode)
  BY <1>4, <1>5 DEF Progress, Holding
<1>7. call[c].handler \notin Holding
  BY DEF Start, IInv, Progress, Holding
<1>8. UNCHANGED <<mode, proc, sock, dump, handle, lock>>
  BY DEF Start
<1>9. CASE Grpc
  <2>1. call' = [call EXCEPT ![c] = queued]
    BY <1>2, <1>9
  <2>2. queued.handler \notin Busy
    BY <1>5 DEF Busy
  <2> HIDE DEF queued
  <2> QED
    BY <1>5, <1>6, <1>7, <1>8, <2>1, <2>2, CallerStep
<1>10. CASE ~Grpc
  <2>1. call' = [call EXCEPT ![c] = Sent(made)]
    BY <1>2, <1>10
  <2> HIDE DEF made
  <2> QED
    BY <1>4, <1>6, <1>7, <1>8, <2>1, SentIs, CallerStep
<1> QED
  BY <1>9, <1>10

LEMMA CallerKeeps ==
  ASSUME IInv, NEW c \in Calls, Caller(c)
  PROVE  IInv'
<1>0. call \in [Calls -> Records] /\ call[c] \in Records /\ Progress(call[c], mode)
  BY Types DEF IInv
<1>1. CASE OwnSubpaths(c)
  <2> DEFINE r == [NotMade EXCEPT !.op = "subpaths", !.caller = "ok", !.got = "empty"]
  <2>1. /\ r \in Records /\ r.handler = "none" /\ r.caller = "ok" /\ r.op = "subpaths"
        /\ r.acts = 0 /\ r.arg = "text"
    BY NotMadeIs, OpsAre DEF Records, Callers, Values
  <2>2. mode.sandboxed
    BY <1>1 DEF OwnSubpaths, Asked
  <2>3. Progress(r, mode)
    BY <2>1, <2>2 DEF Progress, Holding, Args
  <2>4. call[c].handler \notin Holding /\ r.handler \notin Busy
    BY <1>0, <1>1, <2>1 DEF OwnSubpaths, Progress, Holding, Busy
  <2>5. call' = [call EXCEPT ![c] = r] /\ UNCHANGED <<mode, proc, sock, dump, handle, lock>>
    BY <1>1 DEF OwnSubpaths
  <2> HIDE DEF r
  <2> QED
    BY <2>1, <2>3, <2>4, <2>5, CallerStep
<1>2. CASE GrpcSend(c)
  <2>1. call[c].handler = "none" /\ call[c].handler \notin Holding
    BY <1>0, <1>2 DEF GrpcSend, Progress, Holding
  <2>2. call' = [call EXCEPT ![c] = Sent(call[c])]
        /\ UNCHANGED <<mode, proc, sock, dump, handle, lock>>
    BY <1>0, <1>2 DEF GrpcSend
  <2> QED
    BY <1>0, <2>1, <2>2, SentIs, CallerStep
<1>3. ASSUME NEW r \in Records, call' = [call EXCEPT ![c] = r],
             r.handler = call[c].handler, r.op = call[c].op, r.arg = call[c].arg,
             r.acts = call[c].acts, r.seen = call[c].seen, r.answer = call[c].answer,
             r.caller \in {"ok", "err", "cancelled"},
             r.caller = "ok" => /\ r.handler = "replied" /\ r.answer # "error"
                                /\ r.got = GotIn(mode, r.op, r.answer),
             UNCHANGED <<mode, proc, sock, dump, handle, lock>>
      PROVE  IInv'
  <2>1. Progress(r, mode)
    BY <1>0, <1>3 DEF Progress
  <2> QED
    BY <1>3, <2>1, CallerStep
<1>4. CASE Receive(c)
  <2> DEFINE caller == IF call[c].answer = "error" THEN "err" ELSE "ok"
             got == Got(call[c].op, call[c].answer)
             r == [call[c] EXCEPT !.caller = caller, !.got = got]
  <2>1. call[c].answer \in Answers[call[c].op] \cup {"error"} /\ call[c].op \in Ops
    BY <1>0, <1>4 DEF Receive, Progress, Records
  <2>2. got \in Values /\ got = GotIn(mode, call[c].op, call[c].answer)
    <3>1. got = GotIn(mode, call[c].op, call[c].answer)
      BY Names
    <3>2. GotIn(mode, call[c].op, call[c].answer) \in Values
      BY <2>1, WhatIsGot
    <3> QED
      BY <3>1, <3>2
  <2>3. caller \in Callers /\ caller \in {"ok", "err"} /\ (caller = "ok" => call[c].answer # "error")
    BY DEF Callers
  <2> HIDE DEF caller, got
  <2>4. /\ r \in Records /\ r.handler = call[c].handler /\ r.op = call[c].op
        /\ r.arg = call[c].arg /\ r.acts = call[c].acts /\ r.seen = call[c].seen
        /\ r.answer = call[c].answer /\ r.caller = caller /\ r.got = got
    BY <1>0, <2>2, <2>3 DEF Records
  <2>5. call' = [call EXCEPT ![c] = r] /\ r.handler = "replied"
        /\ UNCHANGED <<mode, proc, sock, dump, handle, lock>>
    BY <1>0, <1>4, <2>4 DEF Receive, caller, got
  <2> HIDE DEF r
  <2> QED
    BY <1>3, <2>2, <2>3, <2>4, <2>5
<1>5. CASE Broken(c) \/ Deadline(c) \/ Cancel(c)
  <2>1. PICK caller \in {"err", "cancelled"} :
          call' = [call EXCEPT ![c] = [call[c] EXCEPT !.caller = caller]]
    BY <1>0, <1>5 DEF Broken, Deadline, Cancel
  <2> DEFINE r == [call[c] EXCEPT !.caller = caller]
  <2>2. /\ r \in Records /\ r.handler = call[c].handler /\ r.op = call[c].op
        /\ r.arg = call[c].arg /\ r.acts = call[c].acts /\ r.seen = call[c].seen
        /\ r.answer = call[c].answer /\ r.caller = caller
    BY <1>0 DEF Records, Callers
  <2>3. UNCHANGED <<mode, proc, sock, dump, handle, lock>>
    BY <1>5 DEF Broken, Deadline, Cancel
  <2> HIDE DEF r
  <2>4. call' = [call EXCEPT ![c] = r]
    BY <2>1 DEF r
  <2> QED
    BY <1>3, <2>1, <2>2, <2>3, <2>4
<1> QED
  BY <1>1, <1>2, <1>4, <1>5, StartKeeps DEF Caller

-----------------------------------------------------------------------------
(* The connector's side: only the handler that holds the lock works, and   *)
(* it gives it back when it ends.                                          *)
LEMMA HandlerKeeps ==
  ASSUME IInv, NEW c \in Calls, Handler(c)
  PROVE  IInv'
<1>0. /\ call \in [Calls -> Records] /\ call[c] \in Records /\ Progress(call[c], mode)
      /\ call[c].op \in Ops /\ call[c].arg \in Args[call[c].op]
      /\ lock \in Calls \cup {NoCall}
  BY Types DEF IInv, Progress, Records
<1>1. proc \in {"up", "fails"} /\ UNCHANGED <<mode, proc, sock, dump, handle>>
  BY DEF Handler, Acquire, Act, Reply, Hang, Panic, Abort, Alive
<1>2. call[c].caller \notin {"idle", "queued"} /\ (call[c].caller = "ok" =>
        mode.sandboxed /\ call[c].op = "subpaths")
  BY <1>0 DEF Handler, Acquire, Act, Reply, Hang, Panic, Abort, Progress
<1>3. ASSUME NEW r \in Records, call' = [call EXCEPT ![c] = r],
             r.caller = call[c].caller, r.op = call[c].op, r.arg = call[c].arg,
             r.handler \in {"waits", "runs"} => r.acts = 0, r.handler # "none",
             r.handler = "acted" => r.acts = 1,
             r.handler \in Holding \cup {"replied"} => r.seen = SeenIn(mode, r.op, r.arg),
             r.handler = "replied" => /\ r.answer \in Answers[r.op] \cup {"error"}
                                      /\ r.answer # "error" => r.acts = 1,
             lock' \in Calls \cup {NoCall}, r.handler \in Holding <=> lock' = c,
             \A d \in Calls \ {c} : lock' = d <=> lock = d
      PROVE  IInv'
  <2>1. Progress(r, mode)
    BY <1>0, <1>2, <1>3 DEF Progress
  <2> QED
    BY <1>1, <1>3, <2>1, CallStep
<1>4. CASE Acquire(c)
  <2> DEFINE seen == Seen(call[c].op, call[c].arg)
             r == [call[c] EXCEPT !.handler = "runs", !.seen = seen]
  <2>0. SeenIn(mode, call[c].op, call[c].arg) \in Texts
    BY <1>0, WhatIsSeen, Zenon
  <2>1. seen \in Texts /\ seen = SeenIn(mode, call[c].op, call[c].arg)
    BY <2>0, Names, Zenon
  <2> HIDE DEF seen
  <2>2. /\ r \in Records /\ r.caller = call[c].caller /\ r.op = call[c].op
        /\ r.arg = call[c].arg /\ r.acts = call[c].acts /\ r.seen = seen /\ r.handler = "runs"
    BY <1>0, <2>1 DEF Records, Handlers
  <2>3. call[c].acts = 0
    BY <1>0, <1>4 DEF Acquire, Progress
  <2>4. call' = [call EXCEPT ![c] = r] /\ lock = NoCall /\ lock' = c
    BY <1>0, <1>4 DEF Acquire, seen
  <2> HIDE DEF r
  <2>5. \A d \in Calls \ {c} : lock' = d <=> lock = d
    BY <2>4, CallsAssumption
  <2> QED
    BY <1>3, <2>1, <2>2, <2>3, <2>4, <2>5 DEF Holding
<1>5. CASE Act(c)
  <2> DEFINE n == call[c].acts + 1
             r == [call[c] EXCEPT !.handler = "acted", !.acts = n]
  <2>1. call[c].acts = 0 /\ call[c].handler = "runs" /\ lock = c /\ lock' = lock
    BY <1>0, <1>5, Types DEF Act, Progress, Holding
  <2>2. n = 1 /\ n \in 0 .. 1
    BY <2>1
  <2>3. call' = [call EXCEPT ![c] = r]
    BY <1>0, <1>5 DEF Act
  <2> HIDE DEF n
  <2>4. /\ r \in Records /\ r.caller = call[c].caller /\ r.op = call[c].op
        /\ r.arg = call[c].arg /\ r.acts = 1 /\ r.seen = call[c].seen /\ r.handler = "acted"
    BY <1>0, <2>2 DEF Records, Handlers
  <2>5. call[c].seen = SeenIn(mode, call[c].op, call[c].arg)
    BY <1>0, <2>1 DEF Progress, Holding
  <2> HIDE DEF r
  <2> QED
    BY <1>0, <1>3, <2>4, <2>1, <2>3, <2>5 DEF Holding
<1>6. CASE Reply(c)
  <2>1. PICK x \in Answers[call[c].op] \cup {"error"} :
          /\ call[c].handler = "acted" \/ (call[c].handler = "runs" /\ x = "error")
          /\ call' = [call EXCEPT ![c].handler = "replied", ![c].answer = x]
    BY <1>6 DEF Reply
  <2> DEFINE r == [call[c] EXCEPT !.handler = "replied", !.answer = x]
  <2>2. x \in Values
    BY <1>0, WhatIsGot
  <2>3. /\ r \in Records /\ r.caller = call[c].caller /\ r.op = call[c].op
        /\ r.arg = call[c].arg /\ r.acts = call[c].acts /\ r.seen = call[c].seen
        /\ r.handler = "replied" /\ r.answer = x
    BY <1>0, <2>2 DEF Records, Handlers
  <2>4. call' = [call EXCEPT ![c] = r]
    BY <1>0, <2>1
  <2>5. lock = c /\ lock' = NoCall
    BY <1>6, <2>1, Types DEF Reply, Release, Holding
  <2>6. /\ call[c].seen = SeenIn(mode, call[c].op, call[c].arg)
        /\ x # "error" => call[c].acts = 1
    BY <1>0, <2>1 DEF Progress, Holding
  <2> HIDE DEF r
  <2>7. \A d \in Calls \ {c} : lock' = d <=> lock = d
    BY <2>5, CallsAssumption
  <2>8. r.handler \notin Holding /\ lock' # c /\ lock' \in Calls \cup {NoCall}
    BY <2>3, <2>5, CallsAssumption DEF Holding
  <2> QED
    BY <1>3, <2>1, <2>3, <2>4, <2>6, <2>7, <2>8
<1>7. CASE Hang(c)
  <2>1. PICK h \in {"hangs", "blocks"} : call' = [call EXCEPT ![c].handler = h]
    BY <1>7 DEF Hang
  <2> DEFINE r == [call[c] EXCEPT !.handler = h]
  <2>2. /\ r \in Records /\ r.caller = call[c].caller /\ r.op = call[c].op
        /\ r.arg = call[c].arg /\ r.acts = call[c].acts /\ r.seen = call[c].seen
        /\ r.handler = h
    BY <1>0 DEF Records, Handlers
  <2>3. call' = [call EXCEPT ![c] = r]
    BY <1>0, <2>1
  <2>4. lock = c /\ lock' = lock
    BY <1>7, Types DEF Hang, Holding
  <2>5. call[c].seen = SeenIn(mode, call[c].op, call[c].arg)
    BY <1>0, <1>7 DEF Progress, Holding, Hang
  <2> HIDE DEF r
  <2> QED
    BY <1>0, <1>3, <2>2, <2>3, <2>4, <2>5 DEF Holding
<1>8. CASE Panic(c) \/ Abort(c)
  <2> DEFINE r == [call[c] EXCEPT !.handler = "gone"]
  <2>1. /\ r \in Records /\ r.caller = call[c].caller /\ r.op = call[c].op
        /\ r.arg = call[c].arg /\ r.handler = "gone"
    BY <1>0 DEF Records, Handlers
  <2>2. call' = [call EXCEPT ![c] = r] /\ Release(c)
    BY <1>0, <1>8 DEF Panic, Abort
  <2> HIDE DEF r
  <2>3. lock' \in Calls \cup {NoCall} /\ lock' # c
    BY <1>0, <2>2, CallsAssumption DEF Release
  <2>4. \A d \in Calls \ {c} : lock' = d <=> lock = d
    BY <2>2, CallsAssumption DEF Release
  <2>5. r.handler \notin Holding \cup {"replied"}
    BY <2>1 DEF Holding
  <2> QED
    BY <1>3, <2>1, <2>2, <2>3, <2>4, <2>5
<1> QED
  BY <1>4, <1>5, <1>6, <1>7, <1>8 DEF Handler

-----------------------------------------------------------------------------
(* The process and its handle.                                             *)

(* When the process ends, nobody holds the connector any more.             *)
LEMMA DieKeeps ==
  ASSUME IInv, Die, UNCHANGED mode
  PROVE  /\ call' \in [Calls -> Records] /\ lock' \in Calls \cup {NoCall}
         /\ \A c \in Calls : /\ Progress(call'[c], mode')
                             /\ call'[c].handler \notin Busy
                             /\ call'[c].handler \in Holding <=> lock' = c
         /\ proc # "none" => proc' = "dead"
         /\ proc' \in {"none", "dead"}
<1>1. ASSUME NEW c \in Calls
      PROVE  /\ call'[c] \in Records /\ Progress(call'[c], mode')
             /\ call'[c].handler \notin Busy
  <2>1. call[c] \in Records /\ Progress(call[c], mode)
    BY Types DEF IInv
  <2>2. CASE call[c].handler \notin Busy
    BY <2>1, <2>2 DEF Die
  <2>3. CASE call[c].handler \in Busy
    <3> DEFINE r == [call[c] EXCEPT !.handler = "gone"]
    <3>1. /\ r \in Records /\ r.caller = call[c].caller /\ r.op = call[c].op
          /\ r.arg = call[c].arg /\ r.handler = "gone"
      BY <2>1 DEF Records, Handlers
    <3>2. call'[c] = r
      BY <2>3 DEF Die
    <3> HIDE DEF r
    <3>3. Progress(r, mode)
      BY <2>1, <2>3, <3>1 DEF Progress, Busy, Holding
    <3> QED
      BY <3>1, <3>2, <3>3 DEF Busy
  <2> QED
    BY <2>2, <2>3
<1>2. call' \in [Calls -> Records]
  BY <1>1 DEF Die
<1>3. \A c \in Calls : call'[c].handler \in Holding <=> lock' = c
  BY <1>1, CallsAssumption DEF Die, Busy, Holding
<1> QED
  BY <1>1, <1>2, <1>3 DEF Die

LEMMA ProcessKeeps ==
  ASSUME IInv,
         \/ Launch \/ LaunchSandboxed \/ Bind \/ Connect \/ GiveUp
         \/ SandboxFails \/ Fail \/ WriteDump \/ Crash \/ Kill
         \/ Drop \/ DropSandboxed \/ DropKills
  PROVE  IInv'
<1>1. ASSUME Die, UNCHANGED mode, sock' \in BOOLEAN, dump' \in BOOLEAN, handle' \in Handles, Life'
      PROVE  IInv'
  <2>1. proc' \in Procs
    BY <1>1, DieKeeps DEF Procs
  <2>2. TypeOK'
    BY <1>1, <2>1, DieKeeps DEF IInv, TypeOK, Records, Texts, Values, Holding
  <2> QED
    BY <1>1, <2>2, DieKeeps DEF IInv
<1>2. ASSUME UNCHANGED <<mode, call, lock>>, sock' \in BOOLEAN, dump' \in BOOLEAN,
             proc' \in Procs, handle' \in Handles, Life'
      PROVE  IInv'
  BY <1>2 DEF IInv, TypeOK
<1>3. /\ sock \in BOOLEAN /\ dump \in BOOLEAN /\ proc \in Procs /\ handle \in Handles
      /\ mode.sandboxed \in BOOLEAN /\ Life
  BY DEF IInv, TypeOK
<1>4. CASE Launch \/ LaunchSandboxed
  BY <1>2, <1>3, <1>4 DEF Launch, LaunchSandboxed, Life, Handles, Procs
<1>5. CASE Bind
  BY <1>2, <1>3, <1>5 DEF Bind, Life, Handles, Procs
<1>6. CASE Connect
  BY <1>2, <1>3, <1>6 DEF Connect, Life, Handles, Procs
<1>7. CASE GiveUp
  <2>1. CASE mode.sandboxed
    BY <1>2, <1>3, <1>7, <2>1 DEF GiveUp, Life, Handles, Procs
  <2>2. CASE ~mode.sandboxed
    BY <1>1, <1>3, <1>7, <2>2, DieKeeps DEF GiveUp, Life, Handles
  <2> QED
    BY <2>1, <2>2
<1>8. CASE SandboxFails \/ Crash \/ Kill
  <2>1. Die /\ UNCHANGED <<mode, sock, dump, handle>> /\ proc # "none"
    BY <1>3, <1>8 DEF SandboxFails, Crash, Kill, Life
  <2>2. Life'
    BY <1>3, <2>1, DieKeeps DEF Life
  <2> QED
    BY <1>1, <1>3, <2>1, <2>2
<1>9. CASE Fail
  BY <1>2, <1>3, <1>9 DEF Fail, Life, Handles, Procs
<1>10. CASE WriteDump
  <2>1. Die /\ UNCHANGED <<mode, sock, handle>> /\ dump' = TRUE /\ proc = "fails"
    BY <1>10 DEF WriteDump
  <2>2. Life'
    BY <1>3, <2>1, DieKeeps DEF Life
  <2> QED
    BY <1>1, <1>3, <2>1, <2>2
<1>11. CASE Drop
  <2>1. /\ Die /\ UNCHANGED mode /\ sock' = FALSE /\ dump' = FALSE /\ handle' = "dropped"
        /\ proc # "none"
    BY <1>3, <1>11 DEF Drop, Life
  <2>2. Life'
    BY <2>1, DieKeeps DEF Life
  <2> QED
    BY <1>1, <2>1, <2>2 DEF Handles
<1>12. CASE DropSandboxed
  BY <1>2, <1>3, <1>12 DEF DropSandboxed, Life, Handles, Procs
<1>13. CASE DropKills
  <2>1. /\ Die /\ UNCHANGED <<mode, sock, dump>> /\ handle' = "dropped"
        /\ proc # "none" /\ ~sock /\ mode.sandboxed
    BY <1>3, <1>13 DEF DropKills, Life
  <2>2. Life'
    BY <2>1, DieKeeps DEF Life
  <2> QED
    BY <1>1, <1>3, <2>1, <2>2 DEF Handles
<1> QED
  BY <1>4, <1>5, <1>6, <1>7, <1>8, <1>9, <1>10, <1>11, <1>12, <1>13

LEMMA InvStep == IInv /\ [Next]_vars => IInv'
<1> SUFFICES ASSUME IInv, [Next]_vars PROVE IInv'
  OBVIOUS
<1>1. CASE UNCHANGED vars
  BY <1>1 DEF IInv, TypeOK, Life, vars
<1> QED
  BY <1>1, ProcessKeeps, CallerKeeps, HandlerKeeps DEF Next

-----------------------------------------------------------------------------
LEMMA Invariant == Spec => []IInv
BY InvInit, InvStep, PTL DEF Spec

(* The types, and that one handler at most has the connector               *)
(* (ConnectorServer, GrpcConnectorServer).                                 *)
THEOREM TypeCorrect == Spec => []TypeOK
<1>1. IInv => TypeOK
  BY DEF IInv
<1> QED
  BY <1>1, Invariant, PTL

(* A call that succeeds was carried out once, on what it was given, and    *)
(* its caller gets what the connector returned, up to what gRPC cannot     *)
(* express (tarpc_bridge.rs, grpc_bridge.rs).                              *)
THEOREM AnswersAreTruthful == Spec => []OkIsTruthful
<1>1. IInv => OkIsTruthful
  <2> SUFFICES ASSUME IInv, NEW c \in Calls, call[c].caller = "ok",
                      ~(mode.sandboxed /\ call[c].op = "subpaths")
               PROVE  /\ call[c].acts = 1
                      /\ call[c].arg = "text" <=> call[c].seen = "text"
                      /\ call[c].answer = "value" <=> call[c].got = "value"
                      /\ ~Grpc => call[c].seen = call[c].arg /\ call[c].got = call[c].answer
                      /\ call[c].got = "removal" => ~Grpc
                      /\ call[c].op # "task_exec" =>
                           (call[c].answer = "blank" <=> call[c].got = "blank")
    BY DEF OkIsTruthful
  <2>1. /\ call[c].op \in Ops /\ call[c].arg \in Args[call[c].op]
        /\ call[c].acts = 1
        /\ call[c].answer \in Answers[call[c].op] \cup {"error"}
        /\ call[c].seen = SeenIn(mode, call[c].op, call[c].arg)
        /\ call[c].got = GotIn(mode, call[c].op, call[c].answer)
    BY Types DEF IInv, Progress, Records
  <2> QED
    BY <2>1, WhatIsSeen, WhatIsGot DEF Grpc
<1> QED
  BY <1>1, Invariant, PTL

(* Once the handle is gone so are the process and its files                *)
(* (UnsandboxConnectorHandle, SandboxConnectorHandle: drop).               *)
THEOREM HandlesCleanUp == Spec => []NothingLeftBehind
<1>1. IInv => NothingLeftBehind
  BY DEF IInv, Life, NothingLeftBehind
<1> QED
  BY <1>1, Invariant, PTL

-----------------------------------------------------------------------------
(* The handle as a service that is asked for each call at most once.       *)

(* The handle is open from the moment it is connected until its destructor *)
(* has killed the process.                                                 *)
PhaseOf(h) ==
  CASE h \in {"ready", "dropping"} -> "open"
    [] h = "dropped" -> "closed"
    [] OTHER -> "new"

(* What subpaths() of a sandboxed handle answers by itself is no call.     *)
AskedOf(r) ==
  CASE r.caller \in {"queued", "sent"} -> "waits"
    [] r.caller = "ok" /\ r.handler # "none" -> "ok"
    [] r.caller \in {"err", "cancelled"} -> "failed"
    [] OTHER -> "no"
WorkOf(r) == IF r.acts = 1 THEN "done" ELSE IF r.seen # "none" THEN "begun" ELSE "none"

AskedNow == [c \in Calls |-> AskedOf(call[c])]
WorkNow == [c \in Calls |-> WorkOf(call[c])]

Service == INSTANCE AtMostOnce WITH
  phase <- PhaseOf(handle), asked <- AskedNow, work <- WorkNow, serving <- lock

(* What the simulation needs beyond IInv: a call waits only while there is *)
(* a handle to wait with, nobody was asked before there was one, and what  *)
(* was not taken up was not seen.                                          *)
Reached(r) ==
  /\ r.handler \in {"none", "waits"} => r.seen = "none"
  /\ r.caller = "ok" => r.handler \in {"none", "replied"}
Waits ==
  /\ handle # "ready" => \A c \in Calls : ~Pending(c)
  /\ handle \in {"none", "waits", "failed"} => \A c \in Calls : call[c].handler = "none"
SInv == IInv /\ Waits /\ \A c \in Calls : Reached(call[c])

LEMMA SInvInit == Init => SInv
<1> SUFFICES ASSUME Init PROVE SInv
  OBVIOUS
<1>1. \A c \in Calls : call[c] = NotMade
  BY DEF Init
<1>2. NotMade.seen = "none" /\ NotMade.caller = "idle" /\ NotMade.handler = "none"
  BY DEF NotMade
<1> QED
  BY <1>1, <1>2, InvInit DEF SInv, Waits, Reached, Pending

(* What a step of one call changes for the service.                        *)
LEMMA Given ==
  ASSUME IInv, NEW c \in Calls, NEW r, call' = [call EXCEPT ![c] = r]
  PROVE  /\ call'[c] = r /\ \A d \in Calls \ {c} : call'[d] = call[d]
         /\ AskedNow' = [AskedNow EXCEPT ![c] = AskedOf(r)]
         /\ WorkNow' = [WorkNow EXCEPT ![c] = WorkOf(r)]
<1>1. call'[c] = r /\ \A d \in Calls \ {c} : call'[d] = call[d]
  BY Types
<1>2. /\ AskedNow' = [d \in Calls |-> AskedOf(call'[d])]
      /\ WorkNow' = [d \in Calls |-> WorkOf(call'[d])]
  BY DEF AskedNow, WorkNow
<1>3. /\ AskedNow = [d \in Calls |-> AskedOf(call[d])]
      /\ WorkNow = [d \in Calls |-> WorkOf(call[d])]
  BY DEF AskedNow, WorkNow
<1>4. ASSUME NEW d \in Calls
      PROVE  /\ AskedOf(call'[d]) = [AskedNow EXCEPT ![c] = AskedOf(r)][d]
             /\ WorkOf(call'[d]) = [WorkNow EXCEPT ![c] = WorkOf(r)][d]
  BY <1>1, <1>3
<1>5. /\ [AskedNow EXCEPT ![c] = AskedOf(r)] =
              [d \in Calls |-> [AskedNow EXCEPT ![c] = AskedOf(r)][d]]
      /\ [WorkNow EXCEPT ![c] = WorkOf(r)] =
              [d \in Calls |-> [WorkNow EXCEPT ![c] = WorkOf(r)][d]]
  BY <1>3
<1> QED
  BY <1>1, <1>2, <1>4, <1>5, Zenon

LEMMA SameAsked ==
  ASSUME \A d \in Calls : AskedOf(call'[d]) = AskedOf(call[d])
  PROVE  AskedNow' = AskedNow
<1>1. AskedNow' = [d \in Calls |-> AskedOf(call'[d])]
  BY DEF AskedNow
<1> QED
  BY <1>1 DEF AskedNow

LEMMA SameWork ==
  ASSUME \A d \in Calls : WorkOf(call'[d]) = WorkOf(call[d])
  PROVE  WorkNow' = WorkNow
<1>1. WorkNow' = [d \in Calls |-> WorkOf(call'[d])]
  BY DEF WorkNow
<1> QED
  BY <1>1 DEF WorkNow

LEMMA SentFields ==
  ASSUME NEW r \in Records
  PROVE  /\ Sent(r).caller = "sent" /\ Sent(r).handler \in {"none", "waits"}
         /\ Sent(r).acts = r.acts /\ Sent(r).seen = r.seen
BY DEF Sent, Records

LEMMA CallerSimulates ==
  ASSUME SInv, NEW c \in Calls, Caller(c)
  PROVE  Waits' /\ Reached(call'[c]) /\ (Service!Next \/ UNCHANGED Service!vars)
<1>0. /\ call[c] \in Records /\ Progress(call[c], mode) /\ Reached(call[c])
      /\ lock \in Calls \cup {NoCall} /\ IInv
  BY Types DEF SInv, IInv
<1>1. handle = "ready" /\ handle' = handle /\ lock' = lock
  <2>1. CASE Start(c) \/ OwnSubpaths(c)
    BY <2>1, Zenon DEF Start, OwnSubpaths
  <2>2. CASE GrpcSend(c)
    BY <2>2 DEF GrpcSend, SInv, Waits, Pending
  <2>3. CASE Receive(c) \/ Broken(c)
    BY <2>3 DEF Receive, Broken, SInv, Waits, Pending
  <2>4. CASE Deadline(c) \/ Cancel(c)
    BY <2>4 DEF Deadline, Cancel, SInv, Waits, Pending
  <2> QED
    BY <2>1, <2>2, <2>3, <2>4 DEF Caller
<1>2. Waits' /\ PhaseOf(handle) = "open"
  BY <1>0, <1>1 DEF Waits, PhaseOf
<1>3. ASSUME NEW r, call' = [call EXCEPT ![c] = r], Reached(r),
             AskedOf(r) = AskedOf(call[c]), WorkOf(r) = WorkOf(call[c])
      PROVE  Reached(call'[c]) /\ UNCHANGED Service!vars
  <2>0. call'[c] = r /\ \A d \in Calls \ {c} : call'[d] = call[d]
    BY <1>0, <1>3, Given
  <2>1. call'[c] = r /\ AskedNow' = AskedNow /\ WorkNow' = WorkNow
    BY <1>3, <2>0, SameAsked, SameWork
  <2> QED
    BY <1>1, <1>3, <2>1 DEF Service!vars
<1>4. CASE Start(c)
  <2> DEFINE After(op, arg) ==
               LET made == [NotMade EXCEPT !.op = op, !.arg = arg] IN
               call' = [call EXCEPT ![c] = IF Grpc THEN [made EXCEPT !.caller = "queued"]
                                           ELSE Sent(made)]
  <2>0. PICK op \in Asked(c) : \E arg \in Args[op] : After(op, arg)
    BY <1>4, Zenon DEF Start
  <2>1. PICK arg \in Args[op] : After(op, arg)
    BY <2>0, Zenon
  <2> DEFINE made == [NotMade EXCEPT !.op = op, !.arg = arg]
             r == IF Grpc THEN [made EXCEPT !.caller = "queued"] ELSE Sent(made)
  <2>2. /\ r.caller \in {"queued", "sent"} /\ r.handler \in {"none", "waits"}
        /\ r.acts = 0 /\ r.seen = "none"
    BY DEF NotMade, Sent
  <2>3. call' = [call EXCEPT ![c] = r] /\ call[c].caller = "idle"
    BY <1>4, <2>1, Zenon DEF Start
  <2> HIDE DEF r
  <2>4. call[c].acts = 0 /\ call[c].seen = "none"
    BY <1>0, <2>3 DEF Progress, Reached
  <2>5. /\ Reached(r) /\ AskedOf(r) = "waits" /\ WorkOf(r) = WorkOf(call[c])
        /\ AskedNow[c] = "no"
    BY <2>2, <2>3, <2>4 DEF Reached, AskedOf, WorkOf, AskedNow
  <2>6. call'[c] = r /\ AskedNow' = [AskedNow EXCEPT ![c] = "waits"] /\ WorkNow' = WorkNow
    <3>1. /\ call'[c] = r /\ \A d \in Calls \ {c} : call'[d] = call[d]
          /\ AskedNow' = [AskedNow EXCEPT ![c] = AskedOf(r)]
      BY <1>0, <2>3, Given
    <3> QED
      BY <2>5, <3>1, SameWork
  <2>7. Service!Ask(c)
    BY <1>1, <1>2, <2>5, <2>6 DEF Service!Ask
  <2> QED
    BY <1>2, <2>5, <2>6, <2>7 DEF Service!Next
<1>5. CASE OwnSubpaths(c)
  <2> DEFINE r == [NotMade EXCEPT !.op = "subpaths", !.caller = "ok", !.got = "empty"]
  <2>1. /\ r.caller = "ok" /\ r.handler = "none" /\ r.acts = 0 /\ r.seen = "none"
    BY DEF NotMade
  <2>2. call' = [call EXCEPT ![c] = r] /\ call[c].caller = "idle"
    BY <1>5 DEF OwnSubpaths
  <2> HIDE DEF r
  <2>3. call[c].acts = 0 /\ call[c].seen = "none"
    BY <1>0, <2>2 DEF Progress, Reached
  <2> QED
    BY <1>2, <1>3, <2>1, <2>2, <2>3 DEF Reached, AskedOf, WorkOf
<1>6. CASE GrpcSend(c)
  <2>1. call' = [call EXCEPT ![c] = Sent(call[c])] /\ call[c].caller = "queued"
    BY <1>0, <1>6 DEF GrpcSend
  <2>2. call[c].acts = 0 /\ call[c].seen = "none"
    BY <1>0, <2>1 DEF Progress, Reached
  <2> QED
    BY <1>0, <1>2, <1>3, <2>1, <2>2, SentFields DEF Reached, AskedOf, WorkOf
<1>7. ASSUME NEW r, call' = [call EXCEPT ![c] = r], Pending(c),
             r.handler = call[c].handler, r.acts = call[c].acts, r.seen = call[c].seen,
             \/ r.caller \in {"err", "cancelled"}
             \/ r.caller = "ok" /\ r.handler = "replied" /\ call[c].answer # "error"
      PROVE  Reached(call'[c]) /\ Service!Next
  <2>1. Reached(r) /\ WorkOf(r) = WorkOf(call[c]) /\ AskedNow[c] = "waits"
    BY <1>0, <1>7 DEF Reached, WorkOf, AskedNow, AskedOf, Pending
  <2>2. call'[c] = r /\ AskedNow' = [AskedNow EXCEPT ![c] = AskedOf(r)] /\ WorkNow' = WorkNow
    <3>1. /\ call'[c] = r /\ \A d \in Calls \ {c} : call'[d] = call[d]
          /\ AskedNow' = [AskedNow EXCEPT ![c] = AskedOf(r)]
      BY <1>0, <1>7, Given
    <3> QED
      BY <2>1, <3>1, SameWork
  <2>3. CASE r.caller \in {"err", "cancelled"}
    <3>1. AskedOf(r) = "failed"
      BY <2>3 DEF AskedOf
    <3>2. Service!Fail(c)
      BY <1>1, <2>1, <2>2, <3>1 DEF Service!Fail
    <3> QED
      BY <2>1, <2>2, <3>2 DEF Service!Next
  <2>4. CASE r.caller = "ok" /\ r.handler = "replied" /\ call[c].answer # "error"
    <3>1. AskedOf(r) = "ok"
      BY <2>4 DEF AskedOf
    <3>2. call[c].handler = "replied" /\ call[c].acts = 1
      BY <1>0, <1>7, <2>4 DEF Progress
    <3>3. WorkNow[c] = "done" /\ lock # c
      BY <3>2, Types DEF SInv, WorkNow, WorkOf, Holding
    <3>4. Service!Succeed(c)
      BY <1>1, <2>1, <2>2, <3>1, <3>3 DEF Service!Succeed
    <3> QED
      BY <2>1, <2>2, <3>4 DEF Service!Next
  <2> QED
    BY <1>7, <2>3, <2>4
<1>8. CASE Receive(c)
  <2> DEFINE caller == IF call[c].answer = "error" THEN "err" ELSE "ok"
             got == Got(call[c].op, call[c].answer)
             r == [call[c] EXCEPT !.caller = caller, !.got = got]
  <2> HIDE DEF caller, got
  <2>1. /\ r.handler = call[c].handler /\ r.acts = call[c].acts /\ r.seen = call[c].seen
        /\ r.caller = caller
    BY <1>0 DEF Records
  <2>2. call' = [call EXCEPT ![c] = r] /\ Pending(c) /\ call[c].handler = "replied"
    BY <1>0, <1>8 DEF Receive, caller, got, Pending
  <2>3. caller = "err" \/ (caller = "ok" /\ call[c].answer # "error")
    BY DEF caller
  <2> HIDE DEF r
  <2> QED
    BY <1>2, <1>7, <2>1, <2>2, <2>3
<1>9. CASE Broken(c) \/ Deadline(c) \/ Cancel(c)
  <2>1. PICK caller \in {"err", "cancelled"} :
          call' = [call EXCEPT ![c] = [call[c] EXCEPT !.caller = caller]]
    BY <1>0, <1>9 DEF Broken, Deadline, Cancel
  <2> DEFINE r == [call[c] EXCEPT !.caller = caller]
  <2>2. /\ r.handler = call[c].handler /\ r.acts = call[c].acts /\ r.seen = call[c].seen
        /\ r.caller = caller
    BY <1>0 DEF Records
  <2>3. Pending(c) /\ call' = [call EXCEPT ![c] = r]
    BY <1>9, <2>1 DEF Broken, Deadline, Cancel, Pending
  <2> HIDE DEF r
  <2> QED
    BY <1>2, <1>7, <2>2, <2>3
<1> QED
  BY <1>4, <1>5, <1>6, <1>8, <1>9 DEF Caller

LEMMA HandlerSimulates ==
  ASSUME SInv, NEW c \in Calls, Handler(c)
  PROVE  Waits' /\ Reached(call'[c]) /\ (Service!Next \/ UNCHANGED Service!vars)
<1>0. /\ call[c] \in Records /\ Progress(call[c], mode) /\ Reached(call[c])
      /\ lock \in Calls \cup {NoCall} /\ IInv /\ Waits /\ Life
  BY Types DEF SInv, IInv
<1>1. /\ proc \in {"up", "fails"} /\ handle' = handle
      /\ call[c].handler \in {"waits"} \cup Holding
  BY DEF Handler, Acquire, Act, Reply, Hang, Panic, Abort, Alive, Holding
<1>2. handle \in {"ready", "dropping"} /\ PhaseOf(handle) = "open" /\ PhaseOf(handle)' = "open"
  <2>1. handle \in Handles /\ handle \notin {"none", "waits", "failed", "dropped"}
    BY <1>0, <1>1 DEF IInv, TypeOK, Waits, Life, Holding
  <2>2. handle \in {"ready", "dropping"}
    BY <2>1 DEF Handles
  <2> QED
    BY <1>1, <2>2 DEF PhaseOf
<1>3. call[c].caller \in {"sent", "err", "cancelled"}
  BY <1>0, <1>1 DEF Progress, Reached, Records, Callers, Holding
<1>4. ASSUME NEW r, call' = [call EXCEPT ![c] = r], r.caller = call[c].caller,
             r.handler \notin {"none", "waits"}
      PROVE  /\ Waits' /\ Reached(call'[c]) /\ AskedNow' = AskedNow
             /\ AskedNow[c] \notin {"no", "ok"} /\ call'[c] = r
             /\ WorkNow' = [WorkNow EXCEPT ![c] = WorkOf(r)]
  <2>1. /\ call'[c] = r /\ \A d \in Calls \ {c} : call'[d] = call[d]
        /\ WorkNow' = [WorkNow EXCEPT ![c] = WorkOf(r)]
    BY <1>0, <1>4, Given
  <2>2. AskedOf(r) = AskedOf(call[c]) /\ AskedOf(r) \notin {"no", "ok"}
    BY <1>3, <1>4 DEF AskedOf
  <2>3. AskedNow' = AskedNow /\ AskedNow[c] \notin {"no", "ok"}
    <3>1. AskedNow' = AskedNow
      BY <2>1, <2>2, SameAsked
    <3>2. AskedNow[c] = AskedOf(call[c])
      BY DEF AskedNow
    <3> QED
      BY <2>2, <3>1, <3>2
  <2>4. Reached(r)
    BY <1>3, <1>4 DEF Reached
  <2>5. Waits'
    BY <1>0, <1>1, <1>2, <1>4, <2>1 DEF Waits, Pending
  <2> QED
    BY <2>1, <2>3, <2>4, <2>5
<1>5. CASE Acquire(c)
  <2> DEFINE seen == Seen(call[c].op, call[c].arg)
             r == [call[c] EXCEPT !.handler = "runs", !.seen = seen]
  <2>0. call[c].op \in Ops /\ call[c].arg \in Args[call[c].op]
    BY <1>0 DEF Progress, Records
  <2>1. seen \in Texts /\ seen = SeenIn(mode, call[c].op, call[c].arg)
    BY <2>0, Names, WhatIsSeen
  <2> HIDE DEF seen
  <2>2. r.caller = call[c].caller /\ r.handler = "runs" /\ r.seen = seen /\ r.acts = call[c].acts
    BY <1>0 DEF Records
  <2>3. /\ call' = [call EXCEPT ![c] = r] /\ lock = NoCall /\ lock' = c
        /\ call[c].handler = "waits"
    BY <1>0, <1>5 DEF Acquire, seen
  <2>4. call[c].acts = 0 /\ call[c].seen = "none"
    BY <1>0, <2>3 DEF Progress, Reached
  <2> HIDE DEF r
  <2>5. WorkOf(r) = "begun" /\ WorkNow[c] = "none"
    BY <2>1, <2>2, <2>4 DEF WorkOf, WorkNow, Texts
  <2>6. Service!TakeUp(c)
    BY <1>1, <1>2, <1>4, <2>2, <2>3, <2>5 DEF Service!TakeUp
  <2> QED
    BY <1>4, <2>2, <2>3, <2>6 DEF Service!Next
<1>6. CASE Act(c)
  <2> DEFINE n == call[c].acts + 1
             r == [call[c] EXCEPT !.handler = "acted", !.acts = n]
  <2>1. /\ call[c].acts = 0 /\ call[c].handler = "runs" /\ lock = c /\ lock' = lock
        /\ call[c].seen \in Texts
    BY <1>0, <1>6, Types, WhatIsSeen DEF Act, Progress, Holding, Records
  <2>2. n = 1
    BY <2>1
  <2>3. call' = [call EXCEPT ![c] = r]
    BY <1>0, <1>6 DEF Act
  <2> HIDE DEF n
  <2>4. r.caller = call[c].caller /\ r.handler = "acted" /\ r.acts = 1
    BY <1>0, <2>2 DEF Records
  <2> HIDE DEF r
  <2>5. WorkOf(r) = "done" /\ WorkNow[c] = "begun"
    BY <2>1, <2>4 DEF WorkOf, WorkNow, Texts
  <2>6. Service!Do(c)
    BY <1>1, <1>2, <1>4, <2>1, <2>3, <2>4, <2>5 DEF Service!Do
  <2> QED
    BY <1>4, <2>3, <2>4, <2>6 DEF Service!Next
<1>7. ASSUME NEW r, call' = [call EXCEPT ![c] = r], r.caller = call[c].caller,
             r.handler \notin {"none", "waits"}, r.acts = call[c].acts, r.seen = call[c].seen,
             lock' \in {lock, NoCall}
      PROVE  Waits' /\ Reached(call'[c]) /\ (Service!Next \/ UNCHANGED Service!vars)
  <2>1. call'[c] = r /\ \A d \in Calls \ {c} : call'[d] = call[d]
    BY <1>0, <1>7, Given
  <2>2. WorkNow' = WorkNow
    BY <1>7, <2>1, SameWork DEF WorkOf
  <2>3. Waits' /\ Reached(call'[c]) /\ AskedNow' = AskedNow
    BY <1>4, <1>7
  <2>4. CASE lock' = lock
    BY <1>1, <2>2, <2>3, <2>4 DEF Service!vars
  <2>5. CASE lock' # lock /\ lock' = NoCall
    <3>1. Service!Leave
      BY <1>1, <2>2, <2>3, <2>5 DEF Service!Leave
    <3> QED
      BY <2>3, <3>1 DEF Service!Next
  <2> QED
    BY <1>7, <2>4, <2>5
<1>8. CASE Reply(c)
  <2>1. PICK x \in Answers[call[c].op] \cup {"error"} :
          call' = [call EXCEPT ![c].handler = "replied", ![c].answer = x]
    BY <1>8 DEF Reply
  <2> DEFINE r == [call[c] EXCEPT !.handler = "replied", !.answer = x]
  <2>2. /\ r.caller = call[c].caller /\ r.handler = "replied" /\ r.acts = call[c].acts
        /\ r.seen = call[c].seen
    BY <1>0 DEF Records
  <2>3. call' = [call EXCEPT ![c] = r] /\ lock' \in {lock, NoCall}
    BY <1>0, <1>8, <2>1 DEF Reply, Release
  <2> HIDE DEF r
  <2> QED
    BY <1>7, <2>2, <2>3
<1>9. CASE Hang(c) \/ Panic(c) \/ Abort(c)
  <2>1. PICK h \in {"hangs", "blocks", "gone"} : call' = [call EXCEPT ![c].handler = h]
    BY <1>9 DEF Hang, Panic, Abort
  <2> DEFINE r == [call[c] EXCEPT !.handler = h]
  <2>2. /\ r.caller = call[c].caller /\ r.handler = h /\ r.acts = call[c].acts
        /\ r.seen = call[c].seen
    BY <1>0 DEF Records
  <2>3. call' = [call EXCEPT ![c] = r] /\ lock' \in {lock, NoCall}
    BY <1>0, <1>9, <2>1 DEF Hang, Panic, Abort, Release
  <2> HIDE DEF r
  <2> QED
    BY <1>7, <2>2, <2>3
<1> QED
  BY <1>5, <1>6, <1>8, <1>9 DEF Handler

(* When the process ends, the service leaves what it works on, and what    *)
(* the callers know is what they knew.                                     *)
LEMMA DieSimulates ==
  ASSUME SInv, Die
  PROVE  /\ AskedNow' = AskedNow /\ WorkNow' = WorkNow /\ lock' = NoCall
         /\ \A c \in Calls : /\ Reached(call'[c]) /\ call'[c].caller = call[c].caller
                             /\ call[c].handler = "none" => call'[c].handler = "none"
<1>1. ASSUME NEW c \in Calls
      PROVE  /\ Reached(call'[c]) /\ call'[c].caller = call[c].caller
             /\ call[c].handler = "none" => call'[c].handler = "none"
             /\ AskedOf(call'[c]) = AskedOf(call[c]) /\ WorkOf(call'[c]) = WorkOf(call[c])
  <2>1. call[c] \in Records /\ Reached(call[c])
    BY Types DEF SInv
  <2>2. CASE call[c].handler \notin Busy
    BY <2>1, <2>2 DEF Die
  <2>3. CASE call[c].handler \in Busy
    <3> DEFINE r == [call[c] EXCEPT !.handler = "gone"]
    <3>1. /\ r.caller = call[c].caller /\ r.acts = call[c].acts /\ r.seen = call[c].seen
          /\ r.handler = "gone"
      BY <2>1 DEF Records
    <3>2. call'[c] = r
      BY <2>3 DEF Die
    <3> HIDE DEF r
    <3>3. call[c].caller # "ok" /\ call[c].handler # "none"
      BY <2>1, <2>3 DEF Reached, Busy
    <3> QED
      BY <3>1, <3>2, <3>3 DEF Reached, AskedOf, WorkOf
  <2> QED
    BY <2>2, <2>3
<1>2. AskedNow' = AskedNow /\ WorkNow' = WorkNow
  BY <1>1, SameAsked, SameWork
<1> QED
  BY <1>1, <1>2 DEF Die

LEMMA ProcessSimulates ==
  ASSUME SInv,
         \/ Launch \/ LaunchSandboxed \/ Bind \/ Connect \/ GiveUp
         \/ SandboxFails \/ Fail \/ WriteDump \/ Crash \/ Kill
         \/ Drop \/ DropSandboxed \/ DropKills
  PROVE  /\ Waits' /\ \A c \in Calls : Reached(call'[c])
         /\ Service!Next \/ UNCHANGED Service!vars
<1>0. Waits /\ \A c \in Calls : Reached(call[c])
  BY DEF SInv
<1>1. ASSUME Die, PhaseOf(handle') = PhaseOf(handle)
      PROVE  Service!Next \/ UNCHANGED Service!vars
  <2>1. AskedNow' = AskedNow /\ WorkNow' = WorkNow /\ lock' = NoCall /\ PhaseOf(handle)' = PhaseOf(handle)
    BY <1>1, DieSimulates
  <2>2. CASE lock = NoCall
    BY <2>1, <2>2 DEF Service!vars
  <2>3. CASE lock # NoCall
    BY <2>1, <2>3 DEF Service!Next, Service!Leave
  <2> QED
    BY <2>2, <2>3
<1>2. ASSUME Die PROVE \A c \in Calls : Reached(call'[c])
  BY <1>2, DieSimulates
<1>3. ASSUME UNCHANGED <<call, lock>>, PhaseOf(handle') = PhaseOf(handle)
      PROVE  UNCHANGED Service!vars /\ \A c \in Calls : Reached(call'[c])
  BY <1>0, <1>3 DEF AskedNow, WorkNow, Service!vars
<1>4. CASE Launch \/ LaunchSandboxed \/ Bind \/ Fail \/ DropSandboxed
  <2>1. UNCHANGED <<call, lock>> /\ PhaseOf(handle') = PhaseOf(handle)
    BY <1>4 DEF Launch, LaunchSandboxed, Bind, Fail, DropSandboxed, PhaseOf
  <2>2. Waits'
    BY <1>0, <1>4, <2>1 DEF Launch, LaunchSandboxed, Bind, Fail, DropSandboxed, Waits, Pending
  <2> QED
    BY <1>3, <2>1, <2>2
<1>5. CASE Connect
  <2>1. UNCHANGED <<call, lock>> /\ handle = "waits" /\ handle' = "ready"
    BY <1>5 DEF Connect
  <2>2. Waits' /\ \A c \in Calls : Reached(call'[c])
    BY <1>0, <2>1 DEF Waits
  <2>3. AskedNow' = AskedNow /\ WorkNow' = WorkNow
    BY <2>1 DEF AskedNow, WorkNow
  <2>4. PhaseOf(handle) = "new" /\ PhaseOf(handle)' = "open"
    BY <2>1 DEF PhaseOf
  <2> QED
    BY <2>1, <2>2, <2>3, <2>4 DEF Service!Next, Service!Open
<1>6. CASE GiveUp
  <2>1. handle = "waits" /\ handle' = "failed" /\ PhaseOf(handle') = PhaseOf(handle)
    BY <1>6 DEF GiveUp, PhaseOf
  <2>2. CASE mode.sandboxed
    <3>1. UNCHANGED <<call, lock>>
      BY <1>6, <2>2 DEF GiveUp
    <3> QED
      BY <1>0, <1>3, <2>1, <3>1 DEF Waits, Pending
  <2>3. CASE ~mode.sandboxed
    <3>1. Die
      BY <1>6, <2>3 DEF GiveUp
    <3>2. Waits'
      BY <1>0, <2>1, <3>1, DieSimulates DEF Waits, Pending
    <3> QED
      BY <1>1, <1>2, <2>1, <3>1, <3>2
  <2> QED
    BY <2>2, <2>3
<1>7. CASE SandboxFails \/ WriteDump \/ Crash \/ Kill
  <2>1. Die /\ handle' = handle
    BY <1>7 DEF SandboxFails, WriteDump, Crash, Kill
  <2>2. Waits'
    BY <1>0, <2>1, DieSimulates DEF Waits, Pending
  <2> QED
    BY <1>1, <1>2, <2>1, <2>2
<1>8. CASE Drop \/ DropKills
  <2>1. /\ Die /\ handle \in {"ready", "dropping"} /\ handle' = "dropped"
        /\ \A c \in Calls : ~Pending(c)
    BY <1>0, <1>8 DEF Drop, DropKills, Waits
  <2>2. Waits'
    BY <2>1, DieSimulates DEF Waits, Pending
  <2>3. AskedNow' = AskedNow /\ WorkNow' = WorkNow /\ lock' = NoCall
    BY <2>1, DieSimulates
  <2>4. PhaseOf(handle) = "open" /\ PhaseOf(handle)' = "closed"
    BY <2>1 DEF PhaseOf
  <2>5. \A c \in Calls : AskedNow[c] # "waits"
    BY <2>1 DEF AskedNow, AskedOf, Pending
  <2>6. Service!Close
    BY <2>3, <2>4, <2>5 DEF Service!Close
  <2> QED
    BY <1>2, <2>1, <2>2, <2>6 DEF Service!Next
<1> QED
  BY <1>4, <1>5, <1>6, <1>7, <1>8

(* A step of one call leaves the records of the others.                    *)
LEMMA OneCall ==
  ASSUME NEW c \in Calls, Caller(c) \/ Handler(c), IInv
  PROVE  \A d \in Calls \ {c} : call'[d] = call[d]
<1> SUFFICES ASSUME NEW d \in Calls \ {c} PROVE call'[d] = call[d]
  OBVIOUS
<1>1. ASSUME NEW r, call' = [call EXCEPT ![c] = r] PROVE call'[d] = call[d]
  BY <1>1, Types
<1>2. CASE Start(c)
  <2> DEFINE After(op, arg) ==
               LET made == [NotMade EXCEPT !.op = op, !.arg = arg] IN
               call' = [call EXCEPT ![c] = IF Grpc THEN [made EXCEPT !.caller = "queued"]
                                           ELSE Sent(made)]
  <2>0. PICK op \in Asked(c) : \E arg \in Args[op] : After(op, arg)
    BY <1>2, Zenon DEF Start
  <2>1. PICK arg \in Args[op] : After(op, arg)
    BY <2>0, Zenon
  <2> QED
    BY <1>1, <2>1, Zenon
<1>3. CASE OwnSubpaths(c)
  BY <1>1, <1>3, Zenon DEF OwnSubpaths
<1>4. CASE GrpcSend(c)
  <2>1. call' = [call EXCEPT ![c] = Sent(call[c])]
    BY <1>4, Types DEF GrpcSend
  <2> QED
    BY <1>1, <2>1
<1>5. CASE Receive(c) \/ Broken(c) \/ Deadline(c) \/ Cancel(c)
  BY <1>5, Types DEF Receive, Broken, Deadline, Cancel
<1>6. CASE Handler(c)
  BY <1>6, Types DEF Handler, Acquire, Act, Reply, Hang, Panic, Abort
<1> QED
  BY <1>2, <1>3, <1>4, <1>5, <1>6 DEF Caller

LEMMA SInvStep == SInv /\ [Next]_vars => SInv'
<1> SUFFICES ASSUME SInv, [Next]_vars PROVE SInv'
  OBVIOUS
<1>1. IInv /\ IInv'
  BY InvStep DEF SInv
<1>2. CASE UNCHANGED vars
  BY <1>1, <1>2 DEF SInv, Waits, Pending, vars
<1>3. ASSUME NEW c \in Calls, Caller(c) \/ Handler(c) PROVE SInv'
  <2>1. Waits' /\ Reached(call'[c])
    BY <1>3, CallerSimulates, HandlerSimulates
  <2>2. \A d \in Calls \ {c} : call'[d] = call[d]
    BY <1>1, <1>3, OneCall
  <2> QED
    BY <1>1, <2>1, <2>2 DEF SInv
<1>4. ASSUME \/ Launch \/ LaunchSandboxed \/ Bind \/ Connect \/ GiveUp
             \/ SandboxFails \/ Fail \/ WriteDump \/ Crash \/ Kill
             \/ Drop \/ DropSandboxed \/ DropKills
      PROVE  SInv'
  BY <1>1, <1>4, ProcessSimulates DEF SInv
<1> QED
  BY <1>2, <1>3, <1>4 DEF Next

(* Whatever the process, the wire and the callers do, the handle is a      *)
(* service as AtMostOnce says: one call at a time (the mutex of            *)
(* ConnectorServer), each taken up and carried out at most once though     *)
(* deadlines, cancellation and aborts end it anywhere (tarpc_bridge.rs,    *)
(* grpc_bridge.rs), no success without the deed, and no deed after the     *)
(* destructor.                                                             *)
THEOREM HandleIsAService == Spec => Service!Spec
<1>1. Init => Service!Init
  <2> SUFFICES ASSUME Init PROVE Service!Init
    OBVIOUS
  <2>1. /\ \A c \in Calls : call[c] = NotMade
        /\ handle = "none" /\ lock = NoCall
    BY DEF Init
  <2>2. AskedOf(NotMade) = "no" /\ WorkOf(NotMade) = "none"
    BY DEF AskedOf, WorkOf, NotMade
  <2>3. AskedNow = [c \in Calls |-> "no"] /\ WorkNow = [c \in Calls |-> "none"]
    BY <2>1, <2>2 DEF AskedNow, WorkNow
  <2>4. PhaseOf(handle) = "new"
    BY <2>1 DEF PhaseOf
  <2> QED
    BY <2>1, <2>3, <2>4 DEF Service!Init
<1>2. SInv /\ [Next]_vars => [Service!Next]_(Service!vars)
  <2> SUFFICES ASSUME SInv, [Next]_vars PROVE Service!Next \/ UNCHANGED Service!vars
    OBVIOUS
  <2>1. CASE UNCHANGED vars
    BY <2>1 DEF vars, Service!vars, AskedNow, WorkNow
  <2> QED
    BY <2>1, CallerSimulates, HandlerSimulates, ProcessSimulates DEF Next
<1> QED
  BY <1>1, <1>2, SInvInit, SInvStep, PTL DEF Spec, Service!Spec
=============================================================================
