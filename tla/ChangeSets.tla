----------------------------- MODULE ChangeSets -----------------------------
(***************************************************************************)
(* The commands of one pull request in autoschematic-server.  Every        *)
(* webhook that carries a command is a request of its own: it fetches      *)
(* the pull request, takes the ChangeSet of its head out of a cache or     *)
(* builds one, tries to lock it, and runs the command: plan, apply, or     *)
(* import (pull-state behaves as import does here).  A plan is kept in the *)
(* ChangeSet and executed by a later apply, whose outputs are committed    *)
(* and pushed to the pull request's branch, which moves its head.          *)
(*                                                                         *)
(* Every await lets the other tasks run, the branch may move at any time,  *)
(* and every call to the outside may fail.  The working directory belongs  *)
(* to the process: a command changes it for all the others.                *)
(***************************************************************************)
EXTENDS Naturals, FiniteSets

CONSTANTS
  Handlers,  \* the requests served concurrently
  Objects,   \* the files of the pull request that are resources
  MaxHead,   \* bound on the commits of the branch: at the bound pushes fail
  MaxSets,   \* ChangeSets alive at a time; as many as Handlers are enough
  Nobody     \* who holds a mutex that is not held

ASSUME MaxHeadAssumption == MaxHead \in Nat \ {0}
ASSUME MaxSetsAssumption == MaxSets \in Nat \ {0}
ASSUME NobodyAssumption == Nobody \notin Handlers

VARIABLES
  head,      \* the head of the branch on GitHub, as a commit count
  cached,    \* the ChangeSet in CHANGESET_CACHE, or None
  cacheLock, \* the handler that holds the cache's mutex across an await, or Nobody
  set,       \* the ChangeSets: sha, local clone, mutex, last_plan
  task,      \* what each handler is doing
  cwd        \* the working directory of the process: a ChangeSet's clone, Start or Gone

vars == <<head, cached, cacheLock, set, task, cwd>>

Heads == 1 .. MaxHead
Sets == 1 .. MaxSets
None == 0          \* no ChangeSet, no commit
Start == 0         \* the directory the server was started in
Gone == MaxSets + 1 \* a directory that has been deleted
Dirs == Sets \cup {Start, Gone}

Commands == {"plan", "apply", "import"}
PC == {"idle", "fetched", "build", "lock", "clone", "start", "plan", "apply", "import",
       "report"}

(* The handler holds its ChangeSet's mutex; its ChangeWorkingDirectory lives *)
Locking == {"clone", "start", "plan", "apply", "import", "report"}
Chwd == {"plan", "apply", "import"}

Changeset ==
  [sha : Heads \cup {None},     \* head_sha
   tip : Heads \cup {None},     \* the head when temp_dir was cloned, or None
   holder : Handlers \cup {Nobody},
   planned : BOOLEAN,           \* last_plan is Some
   plan : SUBSET Objects,       \* the objects whose reports have ops and no error
   applied : BOOLEAN,           \* apply_success
   ran : SUBSET Objects,        \* history: reports of the plan executed so far
   aborted : BOOLEAN]           \* history: an apply of the plan ended in an error

Task ==
  [pc : PC,
   cmd : Commands,
   scope : SUBSET Objects,      \* what filters, subpath and RBAC let through
   seen : Heads \cup {None},    \* the head in the pull request it fetched
   cs : Sets \cup {None},       \* its ChangeSet
   base : Heads \cup {None},    \* the last commit of the local clone that is on the branch
   todo : SUBSET Objects,
   draft : SUBSET Objects,      \* plan, so far
   wrote : SUBSET Objects,      \* executed, outputs not yet committed
   home : SUBSET Objects,       \* history: outputs that landed in its clone
   pushed : SUBSET Objects,     \* history: outputs that reached the branch
   refused : SUBSET Objects,    \* history: outputs in commits that GitHub refused
   ok : BOOLEAN,                \* apply returned Ok
   inside : BOOLEAN,            \* _chwd is Ok
   prev : Dirs]                 \* _chwd.previous_directory

NoChangeset ==
  [sha |-> None, tip |-> None, holder |-> Nobody, planned |-> FALSE, plan |-> {},
   applied |-> FALSE, ran |-> {}, aborted |-> FALSE]
Idle ==
  [pc |-> "idle", cmd |-> "plan", scope |-> {}, seen |-> None, cs |-> None, base |-> None,
   todo |-> {}, draft |-> {}, wrote |-> {}, home |-> {}, pushed |-> {},
   refused |-> {}, ok |-> FALSE, inside |-> FALSE, prev |-> Start]

TypeOK ==
  /\ head \in Heads
  /\ cached \in Sets \cup {None}
  /\ cacheLock \in Handlers \cup {Nobody}
  /\ set \in [Sets -> Changeset]
  /\ task \in [Handlers -> Task]
  /\ cwd \in Dirs
  /\ \A h \in Handlers :
       /\ cacheLock = h <=> task[h].pc = "build"
       /\ task[h].cs # None <=> task[h].pc \in Locking \cup {"lock"}
       /\ task[h].inside => task[h].pc \in Chwd

Init ==
  /\ head = 1
  /\ cached = None
  /\ cacheLock = Nobody
  /\ set = [s \in Sets |-> NoChangeset]
  /\ task = [h \in Handlers |-> Idle]
  /\ cwd = Start

-----------------------------------------------------------------------------
(* A ChangeSet lives as long as it is cached or in use.  The end of its     *)
(* life deletes its temp_dir, under whoever works or wants to return there. *)
Alive(s, ca, ta) == s = ca \/ \E h \in Handlers : ta[h].cs = s
Dir(d, ca, ta) == IF d \in Sets /\ ~Alive(d, ca, ta) THEN Gone ELSE d
Settle(se, ca, ta) ==
  /\ set' = [s \in Sets |-> IF Alive(s, ca, ta) THEN se[s] ELSE NoChangeset]
  /\ task' = [h \in Handlers |-> [ta[h] EXCEPT !.prev = Dir(@, ca, ta)]]
  /\ cwd' = Dir(cwd, ca, ta)

(* ChangeWorkingDirectory::change, from the directory d: it fails, and the  *)
(* command goes on where it is, when d has been deleted.                    *)
Enter(h, d, pc, todo) ==
  /\ cwd' = IF d = Gone THEN Gone ELSE task[h].cs
  /\ task' = [task EXCEPT ![h].pc = pc, ![h].todo = todo, ![h].scope = {},
                          ![h].inside = d # Gone,
                          ![h].prev = IF d = Gone THEN Start ELSE d]

(* Its destructor goes back, or stays when there is nothing to go back to. *)
Restored(h) == IF task[h].inside /\ task[h].prev # Gone THEN task[h].prev ELSE cwd

(* The command is over, its result is still to be reported. *)
ToReport(h, ok) ==
  LET t == task[h] IN
  /\ cwd' = Restored(h)
  /\ task' = [task EXCEPT ![h] =
                 [Idle EXCEPT !.pc = "report", !.seen = t.seen, !.cs = t.cs,
                              !.ok = ok, !.home = IF ok THEN t.home ELSE {},
                              !.pushed = IF ok THEN t.pushed ELSE {},
                              !.refused = IF ok THEN t.refused ELSE {}]]

(* Mutant: whoever returns unlocks. *)
ReturnUnlocks(h) ==
  Settle([set EXCEPT ![task[h].cs].holder = Nobody], cached, [task EXCEPT ![h] = Idle])

(* dispatch returns: the ChangeSet is unlocked, the handler forgets it. *)
Return(h) ==
  LET s == task[h].cs
      unlocked == IF s \in Sets /\ set[s].holder = h
                  THEN [set EXCEPT ![s].holder = Nobody] ELSE set
  IN Settle(unlocked, cached, [task EXCEPT ![h] = Idle])

-----------------------------------------------------------------------------
(* dispatch and from_webhook: the pull request is fetched, with its head.   *)
(* The scope of an import is not tracked.                                   *)
Webhook(h, cmd, scope) ==
  /\ task[h].pc = "idle"
  /\ cmd = "import" => scope = {}
  /\ task' = [task EXCEPT ![h].pc = "fetched", ![h].cmd = cmd, ![h].scope = scope,
                          ![h].seen = head]
  /\ UNCHANGED <<head, cached, cacheLock, set, cwd>>

(* Mutant: the cached ChangeSet is taken whatever its head. *)
CacheHitAnyHead(h) ==
  /\ task[h].pc = "fetched"
  /\ cacheLock = Nobody
  /\ cached # None
  /\ task' = [task EXCEPT ![h].pc = "lock", ![h].cs = cached]
  /\ UNCHANGED <<head, cached, cacheLock, set, cwd>>

CacheHit(h) ==
  /\ task[h].pc = "fetched"
  /\ cacheLock = Nobody
  /\ cached # None
  /\ set[cached].sha = task[h].seen
  /\ task' = [task EXCEPT ![h].pc = "lock", ![h].cs = cached]
  /\ UNCHANGED <<head, cached, cacheLock, set, cwd>>

(* Mutant: the mutex is released before the new ChangeSet is built. *)
CacheMissUnlocks(h) ==
  /\ task[h].pc = "fetched"
  /\ cacheLock = Nobody
  /\ cached # None => set[cached].sha # task[h].seen
  /\ cached' = None
  /\ Settle(set, None, [task EXCEPT ![h].pc = "build"])
  /\ UNCHANGED <<head, cacheLock>>

(* No entry, or one of another head, which is removed.  The mutex of the    *)
(* cache is held while the new ChangeSet is built.                          *)
CacheMiss(h) ==
  /\ task[h].pc = "fetched"
  /\ cacheLock = Nobody
  /\ cached # None => set[cached].sha # task[h].seen
  /\ cached' = None
  /\ cacheLock' = h
  /\ Settle(set, None, [task EXCEPT ![h].pc = "build"])
  /\ UNCHANGED head

BuildOk(h) ==
  LET free == {i \in Sets : ~Alive(i, cached, task)}
      s == CHOOSE i \in free : TRUE
  IN
  /\ task[h].pc = "build"
  /\ free # {}
  /\ set' = [set EXCEPT ![s].sha = task[h].seen]
  /\ cached' = s
  /\ cacheLock' = Nobody
  /\ task' = [task EXCEPT ![h].pc = "lock", ![h].cs = s]
  /\ UNCHANGED <<head, cwd>>

(* from_pull_request failed (not mergeable, wrong base, GitHub error): the  *)
(* removed entry stays removed.                                             *)
BuildFails(h) ==
  /\ task[h].pc = "build"
  /\ cacheLock' = Nobody
  /\ Return(h)
  /\ UNCHANGED <<head, cached>>

TryLock(h) ==
  LET s == task[h].cs IN
  /\ task[h].pc = "lock"
  /\ set[s].holder = Nobody
  /\ set' = [set EXCEPT ![s].holder = h]
  /\ task' = [task EXCEPT ![h].pc = "clone"]
  /\ UNCHANGED <<head, cached, cacheLock, cwd>>

(* Mutant: it looks its ChangeSet up again until it gets the lock. *)
LockHeldRetries(h) ==
  /\ task[h].pc = "lock"
  /\ set[task[h].cs].holder # Nobody
  /\ Settle(set, cached, [task EXCEPT ![h].pc = "fetched", ![h].cs = None])
  /\ UNCHANGED <<head, cached, cacheLock>>

(* The command is refused with the PrLockHeld comment. *)
LockHeld(h) ==
  /\ task[h].pc = "lock"
  /\ set[task[h].cs].holder # Nobody
  /\ Return(h)
  /\ UNCHANGED <<head, cached, cacheLock>>

(* No RBAC configuration, no check run, no autoschematic.ron: whatever fails *)
(* before the command proper ends the webhook.                               *)
Fails(h) ==
  /\ task[h].pc \in {"clone", "start"}
  /\ Return(h)
  /\ UNCHANGED <<head, cached, cacheLock>>

(* clone_repo: a shallow clone of the branch as it is now, unless there is  *)
(* a clone already; the reset to head_sha fails if the clone lacks it.      *)
CloneRepo(h) ==
  LET s == task[h].cs
      tip == IF set[s].tip = None THEN head ELSE set[s].tip
  IN
  /\ task[h].pc = "clone"
  /\ set' = [set EXCEPT ![s].tip = tip]
  /\ task' = [task EXCEPT ![h].pc = IF tip = set[s].sha THEN "start" ELSE "report",
                          ![h].base = IF tip = set[s].sha THEN tip ELSE None]
  /\ UNCHANGED <<head, cached, cacheLock, cwd>>

-----------------------------------------------------------------------------
(* ChangeSet::plan *)

StartPlan(h) ==
  /\ task[h].pc = "start" /\ task[h].cmd = "plan"
  /\ Enter(h, cwd, "plan", task[h].scope)
  /\ UNCHANGED <<head, cached, cacheLock, set>>

(* An object may have no report (deferred, filtered out, no longer a        *)
(* resource) or one without ops.                                            *)
PlanObject(h, o, ops) ==
  /\ task[h].pc = "plan"
  /\ o \in task[h].todo
  /\ task' = [task EXCEPT ![h].todo = @ \ {o}, ![h].draft = IF ops THEN @ \cup {o} ELSE @]
  /\ UNCHANGED <<head, cached, cacheLock, set, cwd>>

(* continue_on_error is FALSE: the first failing plan() ends the planning,  *)
(* and what was planned so far is kept.                                     *)
PlanObjectFails(h, o) ==
  /\ task[h].pc = "plan"
  /\ o \in task[h].todo
  /\ task' = [task EXCEPT ![h].todo = {}]
  /\ UNCHANGED <<head, cached, cacheLock, set, cwd>>

PlanDone(h) ==
  LET s == task[h].cs IN
  /\ task[h].pc = "plan"
  /\ task[h].todo = {}
  /\ set' = [set EXCEPT ![s].planned = TRUE, ![s].plan = task[h].draft, ![s].applied = FALSE,
                        ![s].ran = {}, ![s].aborted = FALSE]
  /\ ToReport(h, FALSE)
  /\ UNCHANGED <<head, cached, cacheLock>>

(* An error from a connector or from GitHub: last_plan stays what it was. *)
PlanAborts(h) ==
  /\ task[h].pc = "plan"
  /\ ToReport(h, FALSE)
  /\ UNCHANGED <<head, cached, cacheLock, set>>

-----------------------------------------------------------------------------
(* ChangeSet::apply *)

(* Nothing planned, or apply_success set already *)
ApplyRefused(h) ==
  LET s == task[h].cs IN
  /\ task[h].pc = "start" /\ task[h].cmd = "apply"
  /\ ~set[s].planned \/ set[s].applied
  /\ task' = [task EXCEPT ![h].pc = "report", ![h].scope = {}]
  /\ UNCHANGED <<head, cached, cacheLock, set, cwd>>

StartApply(h) ==
  LET s == task[h].cs IN
  /\ task[h].pc = "start" /\ task[h].cmd = "apply"
  /\ set[s].planned /\ ~set[s].applied
  /\ Enter(h, cwd, "apply", task[h].scope \cap set[s].plan)
  /\ UNCHANGED <<head, cached, cacheLock, set>>

(* apply_connector ran the ops of a report; outputs, if any, were written   *)
(* under the working directory of the moment.                               *)
ExecOk(h, o, outputs) ==
  LET s == task[h].cs IN
  /\ task[h].pc = "apply"
  /\ o \in task[h].todo
  /\ set' = [set EXCEPT ![s].ran = @ \cup {o}]
  /\ task' = [task EXCEPT ![h].todo = @ \ {o},
                          ![h].wrote = IF outputs THEN @ \cup {o} ELSE @,
                          ![h].home = IF outputs /\ cwd = s THEN @ \cup {o} ELSE @]
  /\ UNCHANGED <<head, cached, cacheLock, cwd>>

(* An op failed, after some of its predecessors: the error goes into the    *)
(* report set, the outputs so far are forgotten, the next report follows.   *)
ExecFails(h, o) ==
  /\ task[h].pc = "apply"
  /\ o \in task[h].todo
  /\ set' = [set EXCEPT ![task[h].cs].ran = @ \cup {o}]
  /\ task' = [task EXCEPT ![h].todo = @ \ {o}]
  /\ UNCHANGED <<head, cached, cacheLock, cwd>>

(* Mutant: an error of the push is dropped. *)
PushErrorDropped(h, o) ==
  /\ task[h].pc = "apply"
  /\ task[h].todo = {}
  /\ o \in task[h].wrote
  /\ task' = [task EXCEPT ![h].wrote = @ \ {o}]
  /\ UNCHANGED <<head, cached, cacheLock, set, cwd>>

(* git_add and git_commit_and_push, for one apply report with outputs.      *)
(* push compares the branch with the clone first and is an error if the     *)
(* branch has moved; GitHub may still refuse the commit (it moved just now, *)
(* it is protected, a hook says no), of which push says nothing: the commit *)
(* stays in the clone, for the next push to take along.                     *)
PushOutputs(h, o) ==
  LET out == {o} \cap task[h].home IN
  /\ task[h].pc = "apply"
  /\ task[h].todo = {}
  /\ o \in task[h].wrote
  /\ \/ /\ task[h].base = head
        /\ head < MaxHead
        /\ head' = head + 1
        /\ task' = [task EXCEPT ![h].wrote = @ \ {o}, ![h].base = head + 1,
                                ![h].pushed = @ \cup task[h].refused \cup out,
                                ![h].refused = {}]
     \/ /\ task' = [task EXCEPT ![h].wrote = @ \ {o}, ![h].refused = @ \cup out]
        /\ UNCHANGED head
  /\ UNCHANGED <<cached, cacheLock, set, cwd>>

(* A connector did not spawn, GitHub did not answer, the index or a push    *)
(* failed, at whatever report or after the last: apply returns at once and  *)
(* apply_success stays FALSE.                                               *)
ApplyAborts(h) ==
  /\ task[h].pc = "apply"
  /\ set' = [set EXCEPT ![task[h].cs].aborted = TRUE]
  /\ ToReport(h, FALSE)
  /\ UNCHANGED <<head, cached, cacheLock>>

(* Mutant: apply_success is not set. *)
ApplyDoneUnmarked(h) ==
  /\ task[h].pc = "apply"
  /\ task[h].todo = {}
  /\ task[h].wrote = {}
  /\ ToReport(h, TRUE)
  /\ UNCHANGED <<head, cached, cacheLock, set>>

(* finish_run comes after apply_success, and may fail.                      *)
ApplyDone(h) ==
  /\ task[h].pc = "apply"
  /\ task[h].todo = {}
  /\ task[h].wrote = {}
  /\ set' = [set EXCEPT ![task[h].cs].applied = TRUE]
  /\ \E ok \in BOOLEAN : ToReport(h, ok)
  /\ UNCHANGED <<head, cached, cacheLock>>

-----------------------------------------------------------------------------
(* import_all and pull_state: connector by connector, fetch state, write    *)
(* files, commit and push.  There is one connector more than objects here;  *)
(* import_all enters its clone anew for every one of them.                  *)

StartImport(h) ==
  /\ task[h].pc = "start" /\ task[h].cmd = "import"
  /\ Enter(h, cwd, "import", Objects)
  /\ UNCHANGED <<head, cached, cacheLock, set>>

(* A push that GitHub refuses is taken for done, as above, and changes      *)
(* nothing that is kept track of here.                                      *)
ImportPush(h) ==
  /\ task[h].pc = "import"
  /\ task[h].base = head
  /\ head < MaxHead
  /\ head' = head + 1
  /\ task' = [task EXCEPT ![h].base = head + 1]
  /\ UNCHANGED <<cached, cacheLock, set, cwd>>

ImportNext(h, o) ==
  /\ task[h].pc = "import"
  /\ o \in task[h].todo
  /\ Enter(h, Restored(h), "import", task[h].todo \ {o})
  /\ UNCHANGED <<head, cached, cacheLock, set>>

(* All connectors done, or an error on the way *)
ImportEnds(h) ==
  /\ task[h].pc = "import"
  /\ ToReport(h, FALSE)
  /\ UNCHANGED <<head, cached, cacheLock, set>>

-----------------------------------------------------------------------------
(* The comments on the result are posted, or posting fails. *)
Reported(h) ==
  /\ task[h].pc = "report"
  /\ Return(h)
  /\ UNCHANGED <<head, cached, cacheLock>>

(* Somebody pushes to the branch. *)
UserPush ==
  /\ head < MaxHead
  /\ head' = head + 1
  /\ UNCHANGED <<cached, cacheLock, set, task, cwd>>

Lookup(h) == CacheHit(h) \/ CacheMiss(h)

Proceed(h) ==
  \/ BuildOk(h) \/ BuildFails(h)
  \/ TryLock(h) \/ LockHeld(h)
  \/ Fails(h) \/ CloneRepo(h)
  \/ StartPlan(h)
  \/ \E o \in Objects, ops \in BOOLEAN : PlanObject(h, o, ops)
  \/ \E o \in Objects : PlanObjectFails(h, o)
  \/ PlanDone(h) \/ PlanAborts(h)
  \/ ApplyRefused(h) \/ StartApply(h)
  \/ \E o \in Objects, outputs \in BOOLEAN : ExecOk(h, o, outputs)
  \/ \E o \in Objects : ExecFails(h, o)
  \/ \E o \in Objects : PushOutputs(h, o)
  \/ ApplyAborts(h) \/ ApplyDone(h)
  \/ StartImport(h) \/ ImportPush(h) \/ ImportEnds(h)
  \/ \E o \in Objects : ImportNext(h, o)
  \/ Reported(h)

Next ==
  \/ \E h \in Handlers :
       \/ \E cmd \in Commands, scope \in SUBSET Objects : Webhook(h, cmd, scope)
       \/ Lookup(h)
       \/ Proceed(h)
  \/ UserPush

(* Every call to the outside returns, and the mutex of the cache is fair    *)
(* (tokio's is first come, first served).                                   *)
Fairness == \A h \in Handlers : WF_vars(Proceed(h)) /\ SF_vars(Lookup(h))

Spec == Init /\ [][Next]_vars
FairSpec == Spec /\ Fairness

-----------------------------------------------------------------------------
(* A command acts on the ChangeSet of the head it fetched, and so an apply  *)
(* never executes a plan made for another head than the one it was asked    *)
(* about, however many heads, evictions and rebuilds lie in between.        *)
RunsAtSeenHead ==
  \A h \in Handlers : task[h].pc \in Locking => set[task[h].cs].sha = task[h].seen

(* A report of a stored plan is executed again only if an apply of that     *)
(* plan broke off before: neither two webhooks at once nor a repeated apply *)
(* command run a plan twice.                                                *)
NoReplay ==
  \A h \in Handlers : task[h].pc = "apply" =>
    \/ set[task[h].cs].aborted
    \/ task[h].todo \cap set[task[h].cs].ran = {}

(* When apply returns Ok, the outputs that the reports it executed without  *)
(* an error left in its clone are on the pull request's branch, or in       *)
(* commits that GitHub refused and that no later commit of this apply took  *)
(* there: no failure that push reports loses one.                           *)
OutputsReachGitHub ==
  \A h \in Handlers :
    task[h].ok => task[h].home \subseteq task[h].pushed \cup task[h].refused

(* The mutex of a ChangeSet is held by a running command and by no other:   *)
(* no return path leaves it locked.                                         *)
LockIsHeldByACommand ==
  \A s \in Sets, h \in Handlers :
    set[s].holder = h <=> task[h].pc \in Locking /\ task[h].cs = s

(* Every webhook is answered: neither mutex is left locked, and nobody      *)
(* waits for ever for the one of the cache.                                 *)
EveryCommandEnds == \A h \in Handlers : task[h].pc # "idle" ~> task[h].pc = "idle"

-----------------------------------------------------------------------------
(* What the program says of itself, and the runs named after these refute.  *)

(* "Stored plan already fully executed!": apply_success is set only if      *)
(* every report of the stored plan has been executed.                       *)
FullyExecuted == \A s \in Sets : set[s].applied => set[s].plan \subseteq set[s].ran

(* "Change working directory to the /tmp/... path in which we cloned the    *)
(* repo.  Reverts (pops) the working directory when chwd is dropped": while *)
(* a command plans, applies or imports, the working directory is its clone. *)
InOwnClone == \A h \in Handlers : task[h].pc \in Chwd => cwd = task[h].cs

=============================================================================
