---------------------------- MODULE LanguageServer ----------------------------
(***************************************************************************)
(* The language server of one editor: the configuration it keeps in        *)
(* memory, the connector it has for the prefix, and the diagnostics it     *)
(* shows for one resource definition.                                      *)
(*                                                                         *)
(* The editor's messages are taken up in their order, but the handlers run *)
(* concurrently and are interleaved at every await.  Each handler reads    *)
(* the configuration for itself and goes on with what it read.             *)
(*                                                                         *)
(* A configuration is known by a version; 0 is a file that is missing or   *)
(* cannot be parsed.  A connector is known by the version of the           *)
(* configuration it was started from, 0 when there is none: the cache      *)
(* gives out the connector it has for a name without comparing the two,    *)
(* also one that was killed: clear() kills the connectors, waits, and      *)
(* empties the cache only then, if its request is not cancelled meanwhile. *)
(***************************************************************************)
EXTENDS Naturals, FiniteSets

CONSTANTS
  Handlers,   \* messages that are handled at a time
  MaxVersion, \* bound on the versions of autoschematic.ron
  MaxText     \* bound on the changes to the definition in the editor

ASSUME BoundsAssumption == MaxVersion \in Nat \ {0} /\ MaxText \in Nat

VARIABLES
  phase,     \* the server is starting, runs, is shut down or has exited
  disk,      \* autoschematic.ron on disk: its version, or 0 if broken
  saved,     \* versions of it saved so far
  config,    \* autoschematic_config
  connector, \* connector_cache
  killed,    \* the connector there has been killed
  text,      \* the newest text of the definition in the editor
  shown,     \* the text the diagnostics on show are about
  task,      \* handler -> what it is doing
  excused,   \* the newest validation overlapped another one, or failed
  alone      \* no other handler has run since the last relaunch began

vars == <<phase, disk, saved, config, connector, killed, text, shown, task, excused, alone>>

Versions == 0 .. MaxVersion
Kinds == {"none", "validate", "config", "use", "relaunch", "shutdown"}
Idle == [kind |-> "none", pc |-> "idle", text |-> 0, cfg |-> 0, new |-> FALSE]

Init ==
  /\ phase = "starting"
  /\ disk \in 0 .. 1
  /\ saved = 1
  /\ config = 0
  /\ connector = 0
  /\ killed = FALSE
  /\ text = 0
  /\ shown = 0
  /\ task = [h \in Handlers |-> Idle]
  /\ excused = FALSE
  /\ alone = FALSE

Running(h) == task[h].pc # "idle"
Goto(h, pc) == task' = [task EXCEPT ![h].pc = pc]
Keep(h, pc, c) == task' = [task EXCEPT ![h].pc = pc, ![h].cfg = c]
End(h) == task' = [task EXCEPT ![h] = Idle]

-----------------------------------------------------------------------------
(* The editor.                                                             *)

(* autoschematic.ron is written to disk: the server is not told.           *)
Save ==
  /\ saved < MaxVersion
  /\ saved' = saved + 1
  /\ \E v \in {0, saved + 1} : disk' = v
  /\ UNCHANGED <<phase, config, connector, killed, text, shown, task, excused, alone>>

(* A handler is taken up; initialize has the server to itself.             *)
Begin(h, kind, pc, t) ==
  /\ phase = "ready"
  /\ ~Running(h)
  /\ task' = [task EXCEPT ![h] = [kind |-> kind, pc |-> pc, text |-> t, cfg |-> 0, new |-> FALSE]]

Initialize(h) ==
  /\ phase = "starting"
  /\ ~Running(h)
  /\ phase' = "initializing"
  /\ task' = [task EXCEPT ![h] = [Idle EXCEPT !.kind = "config", !.pc = "read"]]
  /\ UNCHANGED <<disk, saved, config, connector, killed, text, shown, excused, alone>>

(* did_open and did_change: the text is stored, then validated.            *)
DidChange(h) ==
  /\ text < MaxText
  /\ text' = text + 1
  /\ Begin(h, "validate", "check", text + 1)
  /\ excused' = \E g \in Handlers : task[g].kind = "validate"
  /\ alone' = FALSE
  /\ UNCHANGED <<phase, disk, saved, config, connector, killed, shown>>

(* The same for autoschematic.ron: what is on disk is loaded, not the text.*)
DidChangeConfig(h) ==
  /\ Begin(h, "config", "read", 0)
  /\ alone' = FALSE
  /\ UNCHANGED <<phase, disk, saved, config, connector, killed, text, shown, excused>>

(* hover, completion and the commands: they start a connector if there is  *)
(* none.  hover and completion do not load the configuration.              *)
Hover(h) ==
  /\ Begin(h, "use", "clone", 0)
  /\ alone' = FALSE
  /\ UNCHANGED <<phase, disk, saved, config, connector, killed, text, shown, excused>>

Command(h) ==
  /\ Begin(h, "use", "check", 0)
  /\ alone' = FALSE
  /\ UNCHANGED <<phase, disk, saved, config, connector, killed, text, shown, excused>>

Relaunch(h) ==
  /\ Begin(h, "relaunch", "check", saved)
  /\ alone' = \A g \in Handlers : ~Running(g)
  /\ UNCHANGED <<phase, disk, saved, config, connector, killed, text, shown, excused>>

-----------------------------------------------------------------------------
(* The handlers, one step from await to await.                             *)

(* try_load_config: only if there is none.                                 *)
Check(h) ==
  /\ task[h].pc = "check"
  /\ Goto(h, IF config = 0 THEN "read" ELSE IF task[h].kind = "relaunch" THEN "forget" ELSE "clone")
  /\ UNCHANGED <<phase, disk, saved, config, connector, killed, text, shown, excused, alone>>

(* try_reload_config: the file is read and parsed ...                      *)
ReadConfig(h) ==
  /\ task[h].pc \in {"read", "reread"}
  /\ Keep(h, IF task[h].pc = "read" THEN "write" ELSE "rewrite", disk)
  /\ UNCHANGED <<phase, disk, saved, config, connector, killed, text, shown, excused, alone>>

(* ... and kept, also when there is none.                                  *)
WriteConfig(h) ==
  /\ task[h].pc \in {"write", "rewrite"}
  /\ config' = task[h].cfg
  /\ Goto(h, IF task[h].pc = "write" THEN "load" ELSE "reload")
  /\ UNCHANGED <<phase, disk, saved, connector, killed, text, shown, excused, alone>>

(* load_connectors reads it back ...                                       *)
LoadConnectors(h) ==
  /\ task[h].pc \in {"load", "reload"}
  /\ Keep(h, IF task[h].pc = "load" THEN "spawn" ELSE "respawn", config)
  /\ UNCHANGED <<phase, disk, saved, config, connector, killed, text, shown, excused, alone>>

(* get_or_spawn_connector: the connector in the cache, or else ...          *)
Lookup(h) ==
  /\ task[h].pc \in {"spawn", "respawn", "use"} /\ ~task[h].new
  /\ connector = 0 /\ task[h].cfg # 0
  /\ task' = [task EXCEPT ![h].new = TRUE]
  /\ UNCHANGED <<phase, disk, saved, config, connector, killed, text, shown, excused, alone>>

(* ... a new one of the configuration at hand, put there when it is        *)
(* started, whatever is there by then; that may fail.                      *)
Obtained(h) ==
  \/ task[h].new /\ connector' = task[h].cfg /\ killed' = FALSE
  \/ (task[h].new \/ connector # 0 \/ task[h].cfg = 0) /\ UNCHANGED <<connector, killed>>

AfterLoad(h) ==
  CASE task[h].kind = "config" -> "done"
    [] task[h].kind = "relaunch" /\ task[h].pc = "spawn" -> "forget"
    [] task[h].kind = "relaunch" /\ task[h].pc = "respawn" -> "done"
    [] OTHER -> "clone"

(* ... and waits for its tasks, whose errors it does not look at.          *)
JoinConnectors(h) ==
  /\ task[h].pc \in {"spawn", "respawn"}
  /\ Obtained(h)
  /\ task' = [task EXCEPT ![h].pc = AfterLoad(h), ![h].new = FALSE]
  /\ UNCHANGED <<phase, disk, saved, config, text, shown, excused, alone>>

(* Mutant: without a configuration nothing is published. *)
CloneOrLeave(h) ==
  /\ task[h].pc = "clone"
  /\ IF config = 0 THEN Goto(h, "done")
     ELSE Keep(h, IF task[h].kind = "validate" THEN "diag" ELSE "use", config)
  /\ UNCHANGED <<phase, disk, saved, config, connector, killed, text, shown, excused, alone>>

(* The handler goes on with its own copy of the configuration; without one *)
(* there is nothing to ask, and a validation finds nothing to say.         *)
CloneConfig(h) ==
  /\ task[h].pc = "clone"
  /\ IF config = 0
     THEN Goto(h, IF task[h].kind = "validate" THEN "publish" ELSE "done")
     ELSE Keep(h, IF task[h].kind = "validate" THEN "diag" ELSE "use", config)
  /\ UNCHANGED <<phase, disk, saved, config, connector, killed, text, shown, excused, alone>>

(* hover, completion, get, get_untemplate, filter, rename.                 *)
Use(h) ==
  /\ task[h].pc = "use"
  /\ Obtained(h)
  /\ task' = [task EXCEPT ![h].pc = "done", ![h].new = FALSE]
  /\ UNCHANGED <<phase, disk, saved, config, text, shown, excused, alone>>

(* filter_cached and diag: asked of a connector if there is one.  If that  *)
(* fails nothing is published.                                             *)
DiagFile(h) ==
  /\ task[h].pc = "diag"
  /\ Goto(h, "publish") \/ (connector # 0 /\ Goto(h, "failed"))
  /\ UNCHANGED <<phase, disk, saved, config, connector, killed, text, shown, excused, alone>>

(* The diagnostics are published without the version of the text.          *)
Publish(h) ==
  /\ task[h].pc = "publish"
  /\ shown' = task[h].text
  /\ Goto(h, "done")
  /\ UNCHANGED <<phase, disk, saved, config, connector, killed, text, excused, alone>>

AfterClear(h) == IF task[h].kind = "relaunch" THEN "reread" ELSE "done"

(* relaunch: the configuration is dropped, then the connectors.            *)
Forget(h) ==
  /\ task[h].pc = "forget"
  /\ config' = 0
  /\ Goto(h, "clear")
  /\ UNCHANGED <<phase, disk, saved, connector, killed, text, shown, excused, alone>>

(* Mutant: the cache is not emptied. *)
KillOnly(h) ==
  /\ task[h].pc = "clearing"
  /\ Goto(h, AfterClear(h))
  /\ UNCHANGED <<phase, disk, saved, config, connector, killed, text, shown, excused, alone>>

(* clear: the connectors are killed, by tasks ...                          *)
ClearKill(h) ==
  /\ task[h].pc = "clear"
  /\ killed' = (connector # 0)
  /\ Goto(h, "clearing")
  /\ UNCHANGED <<phase, disk, saved, config, connector, text, shown, excused, alone>>

(* ... and when these have ended the cache is emptied, of whatever is      *)
(* there by then.                                                          *)
ClearSlots(h) ==
  /\ task[h].pc = "clearing"
  /\ connector' = 0 /\ killed' = FALSE
  /\ Goto(h, AfterClear(h))
  /\ UNCHANGED <<phase, disk, saved, config, text, shown, excused, alone>>

(* A validation that failed has published nothing.                         *)
Finish(h) ==
  /\ task[h].pc \in {"done", "failed"}
  /\ End(h)
  /\ phase' = IF phase = "initializing" THEN "ready" ELSE phase
  /\ excused' = (excused \/ (task[h].pc = "failed" /\ task[h].text = text))
  /\ UNCHANGED <<disk, saved, config, connector, killed, text, shown, alone>>

(* Mutant: a cancelled relaunch leaves its handler behind. *)
CancelLeaves(h) ==
  /\ Running(h)
  /\ task[h].kind \in {"use", "relaunch", "shutdown"}
  /\ task' = [task EXCEPT ![h].kind = "none"]
  /\ alone' = FALSE
  /\ UNCHANGED <<phase, disk, saved, config, connector, killed, text, shown, excused>>

(* The editor cancels a request: its handler is dropped, at an await, one  *)
(* in clear() with some of the kills done and the cache as it was.         *)
Cancel(h) ==
  /\ Running(h)
  /\ task[h].kind \in {"use", "relaunch", "shutdown"}
  /\ End(h)
  /\ alone' = FALSE
  /\ UNCHANGED <<phase, disk, saved, config, connector, killed, text, shown, excused>>

-----------------------------------------------------------------------------
(* shutdown: no message is taken up any more; the connectors are cleared.  *)
Shutdown(h) ==
  /\ Begin(h, "shutdown", "clear", 0)
  /\ phase' = "shutdown"
  /\ alone' = FALSE
  /\ UNCHANGED <<disk, saved, config, connector, killed, text, shown, excused>>

(* The end of the input: the handlers are dropped, and main clears.        *)
Exit ==
  /\ phase \in {"ready", "shutdown"}
  /\ phase' = "exited"
  /\ task' = [h \in Handlers |-> Idle]
  /\ connector' = 0 /\ killed' = FALSE
  /\ UNCHANGED <<disk, saved, config, text, shown, excused, alone>>

Message(h) ==
  \/ Initialize(h) \/ DidChange(h) \/ DidChangeConfig(h)
  \/ Hover(h) \/ Command(h) \/ Relaunch(h) \/ Shutdown(h)

Step(h) ==
  \/ Check(h) \/ ReadConfig(h) \/ WriteConfig(h) \/ LoadConnectors(h)
  \/ Lookup(h) \/ JoinConnectors(h) \/ CloneConfig(h) \/ Use(h) \/ DiagFile(h) \/ Publish(h)
  \/ Forget(h) \/ ClearKill(h) \/ ClearSlots(h) \/ Finish(h) \/ Cancel(h)

Next == Save \/ Exit \/ \E h \in Handlers : Message(h) \/ Step(h)

Spec == Init /\ [][Next]_vars

-----------------------------------------------------------------------------
(* The types of the variables.  A handler that runs has a message, and one *)
(* of a validation has its text (Backend).                                 *)
TypeOK ==
  /\ phase \in {"starting", "initializing", "ready", "shutdown", "exited"}
  /\ {disk, config, connector} \subseteq Versions
  /\ saved \in 1 .. MaxVersion
  /\ text \in 0 .. MaxText
  /\ shown \in 0 .. text
  /\ task \in [Handlers -> [kind : Kinds, text : Nat, cfg : Versions, new : BOOLEAN,
                           pc : {"idle", "check", "read", "reread", "write", "rewrite", "load",
                                 "reload", "spawn", "respawn", "clone", "use", "diag",
                                 "publish", "forget", "clear", "clearing", "done", "failed"}]]
  /\ \A h \in Handlers : /\ Running(h) <=> task[h].kind # "none"
                         /\ task[h].kind = "validate" => task[h].text \in 1 .. text
  /\ {killed, excused, alone} \subseteq BOOLEAN

(* When no validation is running, the diagnostics on show are about the    *)
(* newest text, whatever became of the configuration and the connectors    *)
(* meanwhile; except that the newest validation may have failed, which     *)
(* leaves what was shown before, or have run beside an older one, which    *)
(* may have published last.                                                *)
DiagnosticsAreNewest ==
  (\A h \in Handlers : task[h].kind # "validate") /\ ~excused /\ phase # "exited"
    => shown = text

(* A relaunch during which nothing else was handled leaves a configuration *)
(* that was on disk after it began, or none if that was broken, and no     *)
(* connector that was started from another one or that it has killed, as   *)
(* one that was cancelled while it cleared may have left.                  *)
RelaunchTakesEffect ==
  \A h \in Handlers : task[h].kind = "relaunch" /\ task[h].pc = "done" /\ alone
    => /\ config = 0 \/ config >= task[h].text
       /\ connector \in {0, config} /\ ~killed
=============================================================================
