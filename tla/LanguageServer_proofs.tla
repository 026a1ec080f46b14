------------------------ MODULE LanguageServer_proofs ------------------------
(***************************************************************************)
(* LanguageServer: the invariants of the run, for any number of handlers,  *)
(* of saves and of changes to the text.                                    *)
(*                                                                         *)
(* Three things make them inductive: which steps a handler can take for    *)
(* its message (Paths); that a validation which nothing excuses is the     *)
(* only one, and of the newest text (Newest); and what a relaunch that ran *)
(* alone has left at each of its steps (Alone), for which only a connector *)
(* that is there can be killed (KilledIsThere).                            *)
(***************************************************************************)
EXTENDS LanguageServer, TLAPS

Path(kind) ==
  CASE kind = "validate" -> {"check", "read", "write", "load", "spawn", "clone", "diag",
                             "publish", "failed", "done"}
    [] kind = "use" -> {"check", "read", "write", "load", "spawn", "clone", "use", "done"}
    [] kind = "config" -> {"read", "write", "load", "spawn", "done"}
    [] kind = "relaunch" -> {"check", "read", "write", "load", "spawn", "forget", "clear",
                             "clearing", "reread", "rewrite", "reload", "respawn", "done"}
    [] kind = "shutdown" -> {"clear", "clearing", "done"}
    [] kind = "none" -> {"idle"}

Paths == \A h \in Handlers : task[h].pc \in Path(task[h].kind)

(* What is on disk is broken or the newest version. *)
DiskIsNewest == disk \in {0, saved}

Newest ==
  ~excused /\ phase # "exited" =>
    /\ \A g, h \in Handlers : task[g].kind = "validate" /\ task[h].kind = "validate" => g = h
    /\ \A h \in Handlers : task[h].kind = "validate" =>
         /\ task[h].text = text
         /\ task[h].pc = "done" => shown = text
    /\ (\A h \in Handlers : task[h].kind # "validate") => shown = text

(* A version no older than the relaunch, or none. *)
Since(t, v) == v = 0 \/ v >= t.text

(* How far a relaunch is, and what it has left so far: the configuration   *)
(* c, the connector k, and whether that is killed, d.                      *)
Left(t, c, k, d) ==
  /\ t.pc \in {"clear", "clearing"} => c = 0
  /\ t.pc = "reread" => c = 0 /\ k = 0
  /\ t.pc = "rewrite" => Since(t, t.cfg) /\ k = 0
  /\ t.pc = "reload" => Since(t, c) /\ k = 0
  /\ t.pc = "respawn" => Since(t, c) /\ t.cfg = c /\ k = 0
  /\ t.pc = "done" => Since(t, c) /\ k \in {0, c} /\ ~d

Alone ==
  /\ phase = "starting" => ~alone
  /\ \A h \in Handlers : task[h].kind = "relaunch" => task[h].text <= saved
  /\ alone => \A g, h \in Handlers : Running(g) /\ Running(h) => g = h
  /\ alone => \A h \in Handlers : Running(h) =>
       task[h].kind = "relaunch" /\ Left(task[h], config, connector, killed)

(* Only a connector that is there is killed. *)
KilledIsThere == killed => connector # 0

IInv == TypeOK /\ KilledIsThere /\ Paths /\ DiskIsNewest /\ Newest /\ Alone

-----------------------------------------------------------------------------
Tasks == [kind : Kinds, text : Nat, cfg : Versions, new : BOOLEAN,
          pc : {"idle", "check", "read", "reread", "write", "rewrite", "load",
                "reload", "spawn", "respawn", "clone", "use", "diag",
                "publish", "forget", "clear", "clearing", "done", "failed"}]

LEMMA IdleTask ==
  Idle \in Tasks /\ Idle.pc = "idle" /\ Idle.kind = "none"
BY BoundsAssumption DEF Idle, Tasks, Kinds, Versions

LEMMA InvInit == Init => IInv
<1> SUFFICES ASSUME Init PROVE IInv
  OBVIOUS
<1>1. task \in [Handlers -> Tasks] /\ \A h \in Handlers : task[h] = Idle
  BY IdleTask DEF Init
<1>2. TypeOK
  <2>1. disk \in Versions /\ config \in Versions /\ connector \in Versions
    BY BoundsAssumption DEF Init, Versions
  <2>2. saved \in 1 .. MaxVersion /\ text \in 0 .. MaxText /\ shown \in 0 .. text
    BY BoundsAssumption DEF Init
  <2>3. \A h \in Handlers : /\ Running(h) <=> task[h].kind # "none"
                            /\ task[h].kind # "validate"
    BY <1>1, IdleTask DEF Running
  <2> QED
    BY <1>1, <2>1, <2>2, <2>3 DEF Init, TypeOK, Tasks
<1>3. Paths /\ DiskIsNewest /\ KilledIsThere
  BY <1>1, IdleTask DEF Init, Paths, Path, DiskIsNewest, KilledIsThere
<1>4. Newest /\ Alone
  BY <1>1, IdleTask DEF Init, Newest, Alone
<1> QED
  BY <1>2, <1>3, <1>4 DEF IInv

(* The types of one handler. *)
LEMMA TaskTypes ==
  ASSUME IInv
  PROVE  /\ task \in [Handlers -> Tasks]
         /\ \A h \in Handlers : task[h].kind \in Kinds /\ task[h].pc \in Path(task[h].kind)
         /\ config \in Versions /\ connector \in Versions /\ disk \in Versions
         /\ killed \in BOOLEAN /\ (killed => connector # 0)
BY DEF IInv, TypeOK, KilledIsThere, Paths, Tasks

(* What a handler obtains is a connector that was not killed, or what there *)
(* was before.                                                             *)
LEMMA ObtainedKeeps ==
  ASSUME IInv, NEW h \in Handlers, Obtained(h), task[h].cfg \in Versions
  PROVE  /\ connector' \in Versions /\ killed' \in BOOLEAN
         /\ killed' => connector' # 0
         /\ \/ connector' = task[h].cfg /\ ~killed'
            \/ connector' = connector /\ (killed' <=> killed)
<1>1. connector \in Versions /\ killed \in BOOLEAN /\ (killed => connector # 0)
  BY TaskTypes
<1>2. CASE connector' = task[h].cfg /\ killed' = FALSE
  BY <1>2
<1>3. CASE UNCHANGED <<connector, killed>>
  BY <1>1, <1>3
<1> QED
  BY <1>2, <1>3 DEF Obtained

-----------------------------------------------------------------------------
(* A step of one handler leads to one it can take, with the same message.  *)
(* What is to be shown for each: what it publishes, and what a relaunch    *)
(* leaves.                                                                 *)
LEMMA HandlerStep ==
  ASSUME IInv, NEW h \in Handlers, Running(h),
         NEW t \in Tasks, task' = [task EXCEPT ![h] = t],
         t.kind = task[h].kind, t.text = task[h].text, t.pc \in Path(t.kind),
         config' \in Versions, connector' \in Versions,
         killed' \in BOOLEAN, killed' => connector' # 0,
         shown' = shown \/ (task[h].kind = "validate" /\ shown' = task[h].text),
         t.kind = "validate" /\ t.pc = "done" => shown' = task[h].text,
         alone /\ t.kind = "relaunch" => Left(t, config', connector', killed'),
         UNCHANGED <<phase, disk, saved, text, excused, alone>>
  PROVE  IInv'
<1>0. /\ task \in [Handlers -> Tasks] /\ task' \in [Handlers -> Tasks] /\ task'[h] = t
      /\ \A k \in Handlers \ {h} : task'[k] = task[k]
      /\ \A k \in Handlers : task'[k].kind = task[k].kind /\ task'[k].text = task[k].text
  BY TaskTypes
<1>1. t.pc # "idle" /\ task[h].kind # "none"
  BY DEF IInv, TypeOK, Running, Path, Tasks, Kinds
<1>2. \A k \in Handlers : Running(k)' <=> Running(k)
  BY <1>0, <1>1 DEF Running
<1>3. shown' \in 0 .. text
  BY DEF IInv, TypeOK
<1>4. TypeOK'
  BY <1>0, <1>2, <1>3 DEF IInv, TypeOK, Tasks
<1>5. Paths' /\ DiskIsNewest' /\ KilledIsThere'
  BY <1>0 DEF IInv, Paths, DiskIsNewest, KilledIsThere
<1>6. Newest'
  BY <1>0 DEF IInv, Newest
<1>7. Alone'
  <2>1. ASSUME alone, NEW k \in Handlers, Running(k)
        PROVE  task'[k].kind = "relaunch" /\ Left(task[k], config, connector, killed)'
    <3>1. k = h /\ task[h].kind = "relaunch"
      BY <2>1 DEF IInv, Alone
    <3> QED
      BY <1>0, <2>1, <3>1
  <2> QED
    BY <1>0, <1>2, <2>1 DEF IInv, Alone
<1> QED
  BY <1>4, <1>5, <1>6, <1>7 DEF IInv

LEMMA CheckKeeps ==
  ASSUME IInv, NEW h \in Handlers, Check(h)
  PROVE  IInv'
<1> DEFINE pc == IF config = 0 THEN "read" ELSE IF task[h].kind = "relaunch" THEN "forget" ELSE "clone"
           t == [task[h] EXCEPT !.pc = pc]
<1>1. task[h] \in Tasks /\ Running(h) /\ pc \in Path(task[h].kind) /\ pc # "done"
  BY TaskTypes DEF Check, Running, Path, Kinds
<1>2. t \in Tasks /\ t.kind = task[h].kind /\ t.text = task[h].text /\ t.pc = pc
  BY <1>1 DEF Tasks
<1>3. task' = [task EXCEPT ![h] = t]
  BY TaskTypes DEF Check, Goto
<1>4. Left(t, config', connector', killed')
  BY <1>2 DEF Left
<1> HIDE DEF t, pc
<1> QED
  BY <1>1, <1>2, <1>3, <1>4, TaskTypes, HandlerStep DEF Check

LEMMA ReadConfigKeeps ==
  ASSUME IInv, NEW h \in Handlers, ReadConfig(h)
  PROVE  IInv'
<1> DEFINE pc == IF task[h].pc = "read" THEN "write" ELSE "rewrite"
           t == [task[h] EXCEPT !.pc = pc, !.cfg = disk]
<1>1. task[h] \in Tasks /\ Running(h) /\ pc \in Path(task[h].kind) /\ disk \in Versions
  BY TaskTypes DEF ReadConfig, Running, Path, Kinds
<1>2. /\ t \in Tasks /\ t.kind = task[h].kind /\ t.text = task[h].text /\ t.pc = pc
      /\ t.cfg = disk
  BY <1>1 DEF Tasks, Path
<1>3. task' = [task EXCEPT ![h] = t]
  BY TaskTypes DEF ReadConfig, Keep
<1>4. ASSUME alone, t.kind = "relaunch" PROVE Left(t, config', connector', killed')
  <2>1. task[h].text <= saved /\ Left(task[h], config, connector, killed)
    BY <1>1, <1>2, <1>4 DEF IInv, Alone
  <2>2. disk = 0 \/ disk >= task[h].text
    BY <1>1, <2>1 DEF IInv, DiskIsNewest, TypeOK, Tasks
  <2> QED
    BY <1>2, <2>1, <2>2 DEF Left, Since, ReadConfig
<1>5. pc # "done"
  OBVIOUS
<1> HIDE DEF t, pc
<1> QED
  BY <1>1, <1>2, <1>3, <1>4, <1>5, TaskTypes, HandlerStep DEF ReadConfig

LEMMA WriteConfigKeeps ==
  ASSUME IInv, NEW h \in Handlers, WriteConfig(h)
  PROVE  IInv'
<1> DEFINE pc == IF task[h].pc = "write" THEN "load" ELSE "reload"
           t == [task[h] EXCEPT !.pc = pc]
<1>1. task[h] \in Tasks /\ Running(h) /\ pc \in Path(task[h].kind)
  BY TaskTypes DEF WriteConfig, Running, Path, Kinds
<1>2. /\ t \in Tasks /\ t.kind = task[h].kind /\ t.text = task[h].text /\ t.pc = pc
      /\ t.cfg = task[h].cfg /\ t.cfg \in Versions
  BY <1>1 DEF Tasks
<1>3. task' = [task EXCEPT ![h] = t]
  BY TaskTypes DEF WriteConfig, Goto
<1>4. ASSUME alone, t.kind = "relaunch" PROVE Left(t, config', connector', killed')
  <2>1. Left(task[h], config, connector, killed)
    BY <1>1, <1>2, <1>4 DEF IInv, Alone
  <2> QED
    BY <1>2, <2>1 DEF Left, Since, WriteConfig
<1>5. pc # "done"
  OBVIOUS
<1> HIDE DEF t, pc
<1> QED
  BY <1>1, <1>2, <1>3, <1>4, <1>5, TaskTypes, HandlerStep DEF WriteConfig

LEMMA LoadConnectorsKeeps ==
  ASSUME IInv, NEW h \in Handlers, LoadConnectors(h)
  PROVE  IInv'
<1> DEFINE pc == IF task[h].pc = "load" THEN "spawn" ELSE "respawn"
           t == [task[h] EXCEPT !.pc = pc, !.cfg = config]
<1>1. task[h] \in Tasks /\ Running(h) /\ pc \in Path(task[h].kind) /\ config \in Versions
  BY TaskTypes DEF LoadConnectors, Running, Path, Kinds
<1>2. /\ t \in Tasks /\ t.kind = task[h].kind /\ t.text = task[h].text /\ t.pc = pc
      /\ t.cfg = config
  BY <1>1 DEF Tasks
<1>3. task' = [task EXCEPT ![h] = t]
  BY TaskTypes DEF LoadConnectors, Keep
<1>4. ASSUME alone, t.kind = "relaunch" PROVE Left(t, config', connector', killed')
  <2>1. Left(task[h], config, connector, killed)
    BY <1>1, <1>2, <1>4 DEF IInv, Alone
  <2> QED
    BY <1>2, <2>1 DEF Left, Since, LoadConnectors
<1>5. pc # "done"
  OBVIOUS
<1> HIDE DEF t, pc
<1> QED
  BY <1>1, <1>2, <1>3, <1>4, <1>5, TaskTypes, HandlerStep DEF LoadConnectors

LEMMA LookupKeeps ==
  ASSUME IInv, NEW h \in Handlers, Lookup(h)
  PROVE  IInv'
<1> DEFINE t == [task[h] EXCEPT !.new = TRUE]
<1>1. task[h] \in Tasks /\ Running(h) /\ task[h].pc \in Path(task[h].kind)
  BY TaskTypes DEF Lookup, Running
<1>2. /\ t \in Tasks /\ t.kind = task[h].kind /\ t.text = task[h].text /\ t.pc = task[h].pc
      /\ t.cfg = task[h].cfg
  BY <1>1 DEF Tasks
<1>3. task' = [task EXCEPT ![h] = t]
  BY TaskTypes DEF Lookup
<1>4. ASSUME alone, t.kind = "relaunch" PROVE Left(t, config', connector', killed')
  <2>1. Left(task[h], config, connector, killed)
    BY <1>1, <1>2, <1>4 DEF IInv, Alone
  <2> QED
    BY <1>2, <2>1 DEF Left, Since, Lookup
<1>5. t.pc # "done"
  BY <1>2 DEF Lookup
<1> HIDE DEF t
<1> QED
  BY <1>1, <1>2, <1>3, <1>4, <1>5, TaskTypes, HandlerStep DEF Lookup

(* A relaunch that is alone starts its connector from what it has loaded. *)
LEMMA JoinConnectorsKeeps ==
  ASSUME IInv, NEW h \in Handlers, JoinConnectors(h)
  PROVE  IInv'
<1> DEFINE pc == AfterLoad(h)
           t == [task[h] EXCEPT !.pc = pc, !.new = FALSE]
<1>1. task[h] \in Tasks /\ Running(h) /\ connector \in Versions /\ task[h].kind \in Kinds
      /\ task[h].pc \in Path(task[h].kind)
  BY TaskTypes DEF JoinConnectors, Running
<1>2. /\ pc \in Path(task[h].kind)
      /\ task[h].kind = "validate" => pc # "done"
      /\ pc \in {"done", "forget", "clone"}
      /\ task[h].kind = "relaunch" /\ pc = "done" => task[h].pc = "respawn"
  BY <1>1 DEF JoinConnectors, AfterLoad, Path, Kinds
<1>3. /\ t \in Tasks /\ t.kind = task[h].kind /\ t.text = task[h].text /\ t.pc = pc
      /\ t.cfg = task[h].cfg /\ t.cfg \in Versions
  BY <1>1, <1>2 DEF Tasks
<1>4. task' = [task EXCEPT ![h] = t]
  BY TaskTypes DEF JoinConnectors
<1>5. /\ connector' \in Versions /\ killed' \in BOOLEAN
      /\ killed' => connector' # 0
      /\ \/ connector' = task[h].cfg /\ ~killed'
         \/ connector' = connector /\ (killed' <=> killed)
  BY <1>3, ObtainedKeeps DEF JoinConnectors
<1>6. ASSUME alone, t.kind = "relaunch" PROVE Left(t, config', connector', killed')
  <2>1. Left(task[h], config, connector, killed)
    BY <1>1, <1>3, <1>6 DEF IInv, Alone
  <2> QED
    BY <1>2, <1>3, <1>5, <1>6, <2>1, TaskTypes DEF Left, Since, JoinConnectors
<1>7. /\ config' \in Versions
      /\ UNCHANGED <<phase, disk, saved, text, shown, excused, alone>>
  BY TaskTypes DEF JoinConnectors
<1> HIDE DEF t, pc
<1> QED
  BY <1>1, <1>2, <1>3, <1>4, <1>5, <1>6, <1>7, HandlerStep

LEMMA CloneConfigKeeps ==
  ASSUME IInv, NEW h \in Handlers, CloneConfig(h)
  PROVE  IInv'
<1> DEFINE val == task[h].kind = "validate"
           pc == IF config = 0 THEN IF val THEN "publish" ELSE "done"
                 ELSE IF val THEN "diag" ELSE "use"
           cfg == IF config = 0 THEN task[h].cfg ELSE config
           t == [task[h] EXCEPT !.pc = pc, !.cfg = cfg]
<1>1. /\ task[h] \in Tasks /\ Running(h) /\ config \in Versions
      /\ task[h].kind \in Kinds /\ task[h].pc \in Path(task[h].kind)
  BY TaskTypes DEF CloneConfig, Running
<1>2. pc \in Path(task[h].kind) /\ task[h].kind # "relaunch" /\ cfg \in Versions
  BY <1>1 DEF CloneConfig, Path, Kinds, Tasks
<1>3. /\ t \in Tasks /\ t.kind = task[h].kind /\ t.text = task[h].text /\ t.pc = pc
  BY <1>1, <1>2 DEF Tasks
<1>4. task' = [task EXCEPT ![h] = t]
  <2>1. CASE config = 0
    BY <1>1, <2>1, TaskTypes DEF CloneConfig, Goto, Tasks
  <2>2. CASE config # 0
    BY <1>1, <2>2, TaskTypes DEF CloneConfig, Keep
  <2> QED
    BY <2>1, <2>2
<1>5. task[h].kind = "validate" => pc # "done"
  OBVIOUS
<1> HIDE DEF t, pc, cfg
<1> QED
  BY <1>1, <1>2, <1>3, <1>4, <1>5, TaskTypes, HandlerStep DEF CloneConfig

LEMMA UseKeeps ==
  ASSUME IInv, NEW h \in Handlers, Use(h)
  PROVE  IInv'
<1> DEFINE t == [task[h] EXCEPT !.pc = "done", !.new = FALSE]
<1>1. /\ task[h] \in Tasks /\ Running(h) /\ connector \in Versions
      /\ task[h].kind \in Kinds /\ task[h].pc \in Path(task[h].kind)
  BY TaskTypes DEF Use, Running
<1>2. task[h].kind = "use" /\ "done" \in Path(task[h].kind) /\ task[h].cfg \in Versions
  BY <1>1 DEF Use, Path, Kinds, Tasks
<1>3. t \in Tasks /\ t.kind = task[h].kind /\ t.text = task[h].text /\ t.pc = "done"
  BY <1>1 DEF Tasks
<1>4. task' = [task EXCEPT ![h] = t]
  BY TaskTypes DEF Use
<1>5. connector' \in Versions /\ killed' \in BOOLEAN /\ (killed' => connector' # 0)
  BY <1>2, ObtainedKeeps DEF Use
<1>6. config' \in Versions /\ UNCHANGED <<phase, disk, saved, text, shown, excused, alone>>
  BY TaskTypes DEF Use
<1> HIDE DEF t
<1> QED
  BY <1>1, <1>2, <1>3, <1>4, <1>5, <1>6, HandlerStep

LEMMA DiagFileKeeps ==
  ASSUME IInv, NEW h \in Handlers, DiagFile(h)
  PROVE  IInv'
<1>1. /\ task[h] \in Tasks /\ Running(h)
      /\ task[h].kind \in Kinds /\ task[h].pc \in Path(task[h].kind)
  BY TaskTypes DEF DiagFile, Running
<1>2. task[h].kind = "validate"
  BY <1>1 DEF DiagFile, Path, Kinds
<1>3. PICK pc \in {"publish", "failed"} : Goto(h, pc)
  BY DEF DiagFile
<1> DEFINE t == [task[h] EXCEPT !.pc = pc]
<1>4. t \in Tasks /\ t.kind = task[h].kind /\ t.text = task[h].text /\ t.pc = pc
  BY <1>1 DEF Tasks
<1>5. task' = [task EXCEPT ![h] = t]
  BY <1>3, TaskTypes DEF Goto
<1>6. pc \in Path("validate") /\ pc # "done"
  BY DEF Path
<1> HIDE DEF t
<1> QED
  BY <1>1, <1>2, <1>4, <1>5, <1>6, TaskTypes, HandlerStep DEF DiagFile

LEMMA PublishKeeps ==
  ASSUME IInv, NEW h \in Handlers, Publish(h)
  PROVE  IInv'
<1> DEFINE t == [task[h] EXCEPT !.pc = "done"]
<1>1. /\ task[h] \in Tasks /\ Running(h)
      /\ task[h].kind \in Kinds /\ task[h].pc \in Path(task[h].kind)
  BY TaskTypes DEF Publish, Running
<1>2. task[h].kind = "validate" /\ "done" \in Path("validate")
  BY <1>1 DEF Publish, Path, Kinds
<1>3. t \in Tasks /\ t.kind = task[h].kind /\ t.text = task[h].text /\ t.pc = "done"
  BY <1>1 DEF Tasks
<1>4. task' = [task EXCEPT ![h] = t] /\ shown' = task[h].text
  BY TaskTypes DEF Publish, Goto
<1> HIDE DEF t
<1> QED
  BY <1>1, <1>2, <1>3, <1>4, TaskTypes, HandlerStep DEF Publish

LEMMA ForgetKeeps ==
  ASSUME IInv, NEW h \in Handlers, Forget(h)
  PROVE  IInv'
<1> DEFINE t == [task[h] EXCEPT !.pc = "clear"]
<1>1. /\ task[h] \in Tasks /\ Running(h)
      /\ task[h].kind \in Kinds /\ task[h].pc \in Path(task[h].kind)
  BY TaskTypes DEF Forget, Running
<1>2. task[h].kind = "relaunch" /\ "clear" \in Path("relaunch")
  BY <1>1 DEF Path, Kinds, Forget
<1>3. t \in Tasks /\ t.kind = task[h].kind /\ t.text = task[h].text /\ t.pc = "clear"
  BY <1>1 DEF Tasks
<1>4. task' = [task EXCEPT ![h] = t]
  BY TaskTypes DEF Forget, Goto
<1>5. Left(t, config', connector', killed')
  BY <1>3 DEF Left, Forget
<1>6. /\ config' \in Versions /\ connector' \in Versions
      /\ killed' \in BOOLEAN /\ (killed' => connector' # 0)
  BY BoundsAssumption, TaskTypes DEF Versions, Forget
<1> HIDE DEF t
<1> QED
  BY <1>1, <1>2, <1>3, <1>4, <1>5, <1>6, TaskTypes, HandlerStep DEF Forget

LEMMA ClearKillKeeps ==
  ASSUME IInv, NEW h \in Handlers, ClearKill(h)
  PROVE  IInv'
<1> DEFINE t == [task[h] EXCEPT !.pc = "clearing"]
<1>1. /\ task[h] \in Tasks /\ Running(h)
      /\ task[h].kind \in Kinds /\ task[h].pc \in Path(task[h].kind)
  BY TaskTypes DEF ClearKill, Running
<1>2. task[h].kind # "validate" /\ "clearing" \in Path(task[h].kind)
  BY <1>1 DEF Path, Kinds, ClearKill
<1>3. t \in Tasks /\ t.kind = task[h].kind /\ t.text = task[h].text /\ t.pc = "clearing"
  BY <1>1 DEF Tasks
<1>4. task' = [task EXCEPT ![h] = t]
  BY TaskTypes DEF ClearKill, Goto
<1>5. ASSUME alone, t.kind = "relaunch" PROVE Left(t, config', connector', killed')
  <2>1. Left(task[h], config, connector, killed)
    BY <1>1, <1>3, <1>5 DEF IInv, Alone
  <2> QED
    BY <1>3, <2>1 DEF Left, ClearKill
<1>6. /\ killed' \in BOOLEAN /\ (killed' => connector' # 0)
      /\ UNCHANGED <<phase, disk, saved, config, connector, text, shown, excused, alone>>
  BY DEF ClearKill
<1> HIDE DEF t
<1> QED
  BY <1>1, <1>2, <1>3, <1>4, <1>5, <1>6, TaskTypes, HandlerStep

LEMMA ClearSlotsKeeps ==
  ASSUME IInv, NEW h \in Handlers, ClearSlots(h)
  PROVE  IInv'
<1> DEFINE pc == AfterClear(h)
           t == [task[h] EXCEPT !.pc = pc]
<1>1. /\ task[h] \in Tasks /\ Running(h)
      /\ task[h].kind \in Kinds /\ task[h].pc \in Path(task[h].kind)
  BY TaskTypes DEF ClearSlots, Running
<1>2. /\ task[h].kind \in {"relaunch", "shutdown"} /\ pc \in Path(task[h].kind)
      /\ pc \in {"reread", "done"} /\ (task[h].kind = "relaunch" => pc = "reread")
  BY <1>1 DEF Path, Kinds, ClearSlots, AfterClear
<1>3. t \in Tasks /\ t.kind = task[h].kind /\ t.text = task[h].text /\ t.pc = pc
  BY <1>1, <1>2 DEF Tasks
<1>4. task' = [task EXCEPT ![h] = t]
  BY TaskTypes DEF ClearSlots, Goto
<1>5. ASSUME alone, t.kind = "relaunch" PROVE Left(t, config', connector', killed')
  <2>1. Left(task[h], config, connector, killed)
    BY <1>1, <1>3, <1>5 DEF IInv, Alone
  <2> QED
    BY <1>2, <1>3, <1>5, <2>1 DEF Left, ClearSlots
<1>6. /\ connector' \in Versions /\ killed' = FALSE
      /\ UNCHANGED <<phase, disk, saved, config, text, shown, excused, alone>>
  BY BoundsAssumption DEF ClearSlots, Versions
<1> HIDE DEF t, pc
<1> QED
  BY <1>1, <1>2, <1>3, <1>4, <1>5, <1>6, TaskTypes, HandlerStep

-----------------------------------------------------------------------------
(* The end of a handler.                                                   *)

(* A validation that ends has shown its text, or is excused.               *)
LEMMA FinishKeeps ==
  ASSUME IInv, NEW h \in Handlers, Finish(h)
  PROVE  IInv'
<1>1. /\ task \in [Handlers -> Tasks] /\ task' \in [Handlers -> Tasks] /\ task'[h] = Idle
      /\ \A k \in Handlers \ {h} : task'[k] = task[k]
  BY TaskTypes, IdleTask DEF Finish, End
<1>2. TypeOK'
  <2>1. \A k \in Handlers : /\ Running(k)' <=> task'[k].kind # "none"
                            /\ task'[k].kind = "validate" => task'[k].text \in 1 .. text
    BY <1>1, IdleTask DEF IInv, TypeOK, Running
  <2>2. excused' \in BOOLEAN
    BY DEF IInv, TypeOK, Finish
  <2> QED
    BY <1>1, <2>1, <2>2 DEF IInv, TypeOK, Finish, Tasks
<1>3. Paths' /\ DiskIsNewest' /\ KilledIsThere'
  BY <1>1, IdleTask DEF IInv, Paths, DiskIsNewest, KilledIsThere, Finish, Path
<1>4. Newest'
  <2>1. CASE task[h].kind = "validate"
    <3>1. task[h].pc \in {"done", "failed"}
      BY DEF Finish
    <3>2. ASSUME ~excused', phase' # "exited" PROVE shown' = text'
      BY <2>1, <3>1, <3>2 DEF IInv, Newest, Finish
    <3>3. ASSUME ~excused', phase' # "exited", NEW k \in Handlers \ {h}
          PROVE  task'[k].kind # "validate"
      BY <1>1, <2>1, <3>3 DEF IInv, Newest, Finish
    <3> QED
      BY <1>1, <3>2, <3>3, IdleTask DEF Newest
  <2>2. CASE task[h].kind # "validate"
    BY <1>1, <2>2, IdleTask DEF IInv, Newest, Finish
  <2> QED
    BY <2>1, <2>2
<1>5. Alone'
  BY <1>1, IdleTask DEF IInv, Alone, Finish, Running
<1> QED
  BY <1>2, <1>3, <1>4, <1>5 DEF IInv

LEMMA CancelKeeps ==
  ASSUME IInv, NEW h \in Handlers, Cancel(h)
  PROVE  IInv'
<1>1. /\ task \in [Handlers -> Tasks] /\ task' \in [Handlers -> Tasks] /\ task'[h] = Idle
      /\ \A k \in Handlers \ {h} : task'[k] = task[k]
      /\ task[h].kind # "validate"
  BY TaskTypes, IdleTask DEF Cancel, End
<1>2. TypeOK'
  <2>1. \A k \in Handlers : /\ Running(k)' <=> task'[k].kind # "none"
                            /\ task'[k].kind = "validate" => task'[k].text \in 1 .. text
    BY <1>1, IdleTask DEF IInv, TypeOK, Running
  <2> QED
    BY <1>1, <2>1 DEF IInv, TypeOK, Cancel, Tasks
<1>3. Paths' /\ DiskIsNewest' /\ KilledIsThere'
  BY <1>1, IdleTask DEF IInv, Paths, DiskIsNewest, KilledIsThere, Cancel, Path
<1>4. Newest'
  BY <1>1, IdleTask DEF IInv, Newest, Cancel
<1>5. Alone'
  BY <1>1, IdleTask DEF IInv, Alone, Cancel, Running
<1> QED
  BY <1>2, <1>3, <1>4, <1>5 DEF IInv

-----------------------------------------------------------------------------
(* The messages.                                                           *)

(* A message that is taken up changes no configuration and no connector.   *)
LEMMA MessageStep ==
  ASSUME IInv, NEW h \in Handlers, ~Running(h),
         NEW t \in Tasks, task' = [task EXCEPT ![h] = t],
         t.kind # "none", t.pc \in Path(t.kind), t.pc # "done",
         t.kind = "validate" => t.text \in 1 .. text',
         t.kind = "relaunch" => t.text <= saved /\ t.pc = "check",
         UNCHANGED <<disk, saved, config, connector, killed, shown>>,
         text' \in 0 .. MaxText, text' >= text,
         phase' \in {"starting", "initializing", "ready", "shutdown", "exited"},
         phase' # "exited" => phase # "exited",
         t.kind = "validate" =>
           /\ text' = t.text
           /\ excused' = \E g \in Handlers : task[g].kind = "validate",
         t.kind # "validate" => UNCHANGED <<text, excused>>,
         phase' # "starting",
         alone' \in BOOLEAN,
         alone' => t.kind = "relaunch" /\ \A g \in Handlers : ~Running(g)
  PROVE  IInv'
<1>1. /\ task \in [Handlers -> Tasks] /\ task' \in [Handlers -> Tasks] /\ task'[h] = t
      /\ \A k \in Handlers \ {h} : task'[k] = task[k]
      /\ task[h].kind = "none" /\ t.pc # "idle"
  BY TaskTypes DEF IInv, TypeOK, Running, Path, Tasks, Kinds
<1>2. text \in Nat /\ shown \in 0 .. text
  BY DEF IInv, TypeOK
<1>3. TypeOK'
  <2>1. ASSUME NEW k \in Handlers
        PROVE  /\ Running(k)' <=> task'[k].kind # "none"
               /\ task'[k].kind = "validate" => task'[k].text \in 1 .. text'
    <3>1. CASE k = h
      BY <1>1, <3>1 DEF Running
    <3>2. CASE k # h
      <4>1. task'[k].kind = "validate" => task'[k].text \in 1 .. text
        BY <1>1, <3>2 DEF IInv, TypeOK
      <4> QED
        BY <1>1, <1>2, <3>2, <4>1 DEF IInv, TypeOK, Running
    <3> QED
      BY <3>1, <3>2
  <2>2. excused' \in BOOLEAN
    BY DEF IInv, TypeOK
  <2>3. shown' \in 0 .. text'
    BY <1>2
  <2> QED
    BY <1>1, <2>1, <2>2, <2>3 DEF IInv, TypeOK, Tasks
<1>4. Paths' /\ DiskIsNewest' /\ KilledIsThere'
  BY <1>1 DEF IInv, Paths, DiskIsNewest, KilledIsThere
<1>5. Newest'
  <2>1. CASE t.kind = "validate"
    BY <1>1, <2>1 DEF Newest
  <2>2. CASE t.kind # "validate"
    BY <1>1, <2>2 DEF IInv, Newest
  <2> QED
    BY <2>1, <2>2
<1>6. Alone'
  BY <1>1 DEF IInv, Alone, Running, Left
<1> QED
  BY <1>3, <1>4, <1>5, <1>6 DEF IInv

LEMMA BeginTask ==
  ASSUME IInv, NEW h \in Handlers, NEW kind \in Kinds, NEW pc, NEW x \in Nat,
         Begin(h, kind, pc, x), pc \in {"check", "read", "clone", "clear"}
  PROVE  \E t \in Tasks : /\ task' = [task EXCEPT ![h] = t]
                          /\ t.kind = kind /\ t.pc = pc /\ t.text = x
<1> DEFINE t == [kind |-> kind, pc |-> pc, text |-> x, cfg |-> 0, new |-> FALSE]
<1>1. t \in Tasks /\ t.kind = kind /\ t.pc = pc /\ t.text = x
  BY BoundsAssumption DEF Tasks, Versions
<1>2. task' = [task EXCEPT ![h] = t]
  BY DEF Begin
<1> QED
  BY <1>1, <1>2

LEMMA MessageKeeps ==
  ASSUME IInv, NEW h \in Handlers, Message(h)
  PROVE  IInv'
<1>0. text \in Nat /\ saved \in Nat /\ text \in 0 .. MaxText /\ alone \in BOOLEAN
  BY DEF IInv, TypeOK
<1>1. CASE Initialize(h)
  <2> DEFINE t == [Idle EXCEPT !.kind = "config", !.pc = "read"]
  <2>1. t \in Tasks /\ t.kind = "config" /\ t.pc = "read"
    BY IdleTask DEF Tasks, Kinds
  <2>2. task' = [task EXCEPT ![h] = t]
    BY <1>1 DEF Initialize
  <2>3. ~alone' /\ phase' = "initializing" /\ phase = "starting" /\ ~Running(h)
    BY <1>1 DEF Initialize, IInv, Alone
  <2>4. UNCHANGED <<disk, saved, config, connector, killed, text, shown, excused>>
    BY <1>1 DEF Initialize
  <2>5. t.pc \in Path(t.kind) /\ t.pc # "done" /\ t.kind # "none"
    BY <2>1 DEF Path
  <2>6. text' >= text /\ text' \in 0 .. MaxText /\ alone' \in BOOLEAN
    BY <1>0, <1>1 DEF Initialize
  <2> HIDE DEF t
  <2> QED
    BY <2>1, <2>2, <2>3, <2>4, <2>5, <2>6, MessageStep
<1>2. CASE DidChange(h)
  <2>1. PICK t \in Tasks : /\ task' = [task EXCEPT ![h] = t]
                           /\ t.kind = "validate" /\ t.pc = "check" /\ t.text = text + 1
    BY <1>0, <1>2, BeginTask DEF DidChange, Kinds
  <2>2. text' = text + 1 /\ text' \in 0 .. MaxText /\ text' \in 1 .. text' /\ text' >= text
    BY <1>0, <1>2, BoundsAssumption DEF DidChange
  <2>3. /\ ~Running(h) /\ phase' = "ready" /\ phase = "ready" /\ alone' = FALSE
        /\ excused' = \E g \in Handlers : task[g].kind = "validate"
        /\ UNCHANGED <<disk, saved, config, connector, killed, shown>>
    BY <1>2 DEF DidChange, Begin
  <2>4. t.pc \in Path(t.kind) /\ t.pc # "done"
    BY <2>1 DEF Path
  <2>5. text' = t.text /\ t.text \in 1 .. text' /\ alone' \in BOOLEAN
    BY <2>1, <2>2, <2>3
  <2> QED
    BY <2>1, <2>2, <2>3, <2>4, <2>5, MessageStep
<1>3. CASE DidChangeConfig(h) \/ Hover(h) \/ Command(h) \/ Shutdown(h)
  <2>1. PICK t \in Tasks : /\ task' = [task EXCEPT ![h] = t]
                           /\ t.kind \in {"config", "use", "shutdown"} /\ t.pc \in Path(t.kind)
                           /\ t.pc # "done"
    BY <1>3, BeginTask DEF DidChangeConfig, Hover, Command, Shutdown, Kinds, Path
  <2>2. /\ ~Running(h) /\ phase' \in {"ready", "shutdown"} /\ phase = "ready" /\ alone' = FALSE
        /\ UNCHANGED <<disk, saved, config, connector, killed, text, shown, excused>>
    BY <1>3 DEF DidChangeConfig, Hover, Command, Shutdown, Begin
  <2>3. t.kind # "none" /\ t.kind # "validate" /\ t.kind # "relaunch" /\ ~alone'
    BY <2>1, <2>2
  <2>4. text' = text /\ alone' = FALSE
    BY <2>2
  <2>5. text' >= text /\ text' \in 0 .. MaxText
    BY <1>0, <2>4
  <2>6. alone' \in BOOLEAN
    BY <2>4
  <2> QED
    BY <2>1, <2>2, <2>3, <2>5, <2>6, MessageStep
<1>4. CASE Relaunch(h)
  <2>1. PICK t \in Tasks : /\ task' = [task EXCEPT ![h] = t]
                           /\ t.kind = "relaunch" /\ t.pc = "check" /\ t.text = saved
    BY <1>0, <1>4, BeginTask DEF Relaunch, Kinds
  <2>2. /\ ~Running(h) /\ phase' = "ready" /\ phase = "ready"
        /\ alone' = \A g \in Handlers : ~Running(g)
        /\ UNCHANGED <<disk, saved, config, connector, killed, text, shown, excused>>
    BY <1>4 DEF Relaunch, Begin
  <2>3. t.pc \in Path(t.kind) /\ t.pc # "done"
    BY <2>1 DEF Path
  <2>4. t.text <= saved /\ text' >= text /\ text' \in 0 .. MaxText /\ alone' \in BOOLEAN
    BY <1>0, <2>1, <2>2
  <2>5. alone' => \A g \in Handlers : ~Running(g)
    BY <2>2
  <2> QED
    BY <2>1, <2>2, <2>3, <2>4, <2>5, MessageStep
<1> QED
  BY <1>1, <1>2, <1>3, <1>4 DEF Message

-----------------------------------------------------------------------------
LEMMA SaveKeeps ==
  ASSUME IInv, Save
  PROVE  IInv'
<1>1. /\ saved \in Nat /\ saved' = saved + 1 /\ saved' \in 1 .. MaxVersion
      /\ disk' \in {0, saved'} /\ disk' \in Versions
  BY BoundsAssumption DEF IInv, TypeOK, Save, Versions
<1>2. TypeOK'
  BY <1>1 DEF IInv, TypeOK, Save, Running
<1>3. Paths' /\ DiskIsNewest' /\ KilledIsThere' /\ Newest'
  BY <1>1 DEF IInv, Paths, DiskIsNewest, KilledIsThere, Newest, Save
<1>4. Alone'
  <2>1. \A h \in Handlers : task[h].kind = "relaunch" => task[h].text <= saved'
    <3>1. \A h \in Handlers : task[h].text \in Nat
      BY TaskTypes DEF Tasks
    <3> QED
      BY <1>1, <3>1 DEF IInv, Alone
  <2> QED
    BY <2>1 DEF IInv, Alone, Save, Running
<1> QED
  BY <1>2, <1>3, <1>4 DEF IInv

LEMMA ExitKeeps ==
  ASSUME IInv, Exit
  PROVE  IInv'
<1>1. /\ connector' \in Versions /\ task' \in [Handlers -> Tasks]
      /\ \A h \in Handlers : task'[h] = Idle
  BY IdleTask, BoundsAssumption DEF Exit, Versions
<1>2. TypeOK'
  BY <1>1, IdleTask DEF IInv, TypeOK, Exit, Running, Tasks
<1>3. Paths' /\ DiskIsNewest' /\ KilledIsThere'
  BY <1>1, IdleTask DEF IInv, Paths, Path, DiskIsNewest, KilledIsThere, Exit
<1>4. Newest' /\ Alone'
  BY <1>1, IdleTask DEF Newest, Alone, Exit, Running
<1> QED
  BY <1>2, <1>3, <1>4 DEF IInv

LEMMA InvStep == IInv /\ [Next]_vars => IInv'
<1> SUFFICES ASSUME IInv, [Next]_vars PROVE IInv'
  OBVIOUS
<1>1. ASSUME NEW h \in Handlers, Step(h) PROVE IInv'
  BY <1>1, CheckKeeps, ReadConfigKeeps, WriteConfigKeeps, LoadConnectorsKeeps, LookupKeeps,
     JoinConnectorsKeeps, CloneConfigKeeps, UseKeeps, DiagFileKeeps, PublishKeeps,
     ForgetKeeps, ClearKillKeeps, ClearSlotsKeeps, FinishKeeps, CancelKeeps DEF Step
<1>2. CASE UNCHANGED vars
  <2>1. TypeOK'
    BY <1>2 DEF IInv, TypeOK, vars, Running
  <2> QED
    BY <1>2, <2>1 DEF IInv, vars, Paths, DiskIsNewest, KilledIsThere, Newest, Alone, Running
<1> QED
  BY <1>1, <1>2, MessageKeeps, SaveKeeps, ExitKeeps DEF Next

LEMMA Invariant == Spec => []IInv
BY InvInit, InvStep, PTL DEF Spec

(* The types of the server's state and of its handlers (Backend).          *)
THEOREM TypeCorrect == Spec => []TypeOK
<1>1. IInv => TypeOK
  BY DEF IInv
<1> QED
  BY <1>1, Invariant, PTL

(* With no validation running the diagnostics on show are about the newest *)
(* text, unless validations overlapped or the newest failed (did_change,   *)
(* diag_file, validate).                                                   *)
THEOREM ShowsTheNewest == Spec => []DiagnosticsAreNewest
<1>1. IInv => DiagnosticsAreNewest
  BY DEF IInv, Newest, DiagnosticsAreNewest
<1> QED
  BY <1>1, Invariant, PTL

(* A relaunch that was alone leaves a configuration no older than itself   *)
(* and no connector of another one, or that was killed (execute_command,   *)
(* relaunch, clear).                                                       *)
THEOREM RelaunchesTakeEffect == Spec => []RelaunchTakesEffect
<1>1. IInv => RelaunchTakesEffect
  BY DEF IInv, Alone, Left, Since, Running, RelaunchTakesEffect
<1> QED
  BY <1>1, Invariant, PTL
=============================================================================
