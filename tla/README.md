# A TLA+ model of Autoschematic

Autoschematic manages infrastructure as files in a git repository. *Connectors*
(child processes) translate between files and real resources; a *server* runs
commands (`plan`, `apply`, `import`, `pull-state`) given as comments on GitHub
pull requests; a command line and a language server run the same workflows
locally. This directory holds TLA+ models of the parts of it in which
concurrency and partial failure make the code hard to test, what TLC finds about
them, and proofs checked by TLAPS.

    tlc -workers 2 -config MCConnectorCache.cfg MCConnectorCache.tla
    tlc -workers 2 -config MCChangeSets.cfg MCChangeSets.tla
    tlc -workers 2 -config MCAuxTasks.cfg MCAuxTasks.tla
    tlc -workers 2 -config MCOutputFiles.cfg MCOutputFiles.tla
    tlc -workers 2 -config MCApprovals.cfg MCApprovals.tla
    tlc -workers 2 -config MCConnectorRpc.cfg MCConnectorRpc.tla
    tlc -workers 2 -config MCLocalApply.cfg MCLocalApply.tla
    tlc -workers 2 -config MCTraceStore.cfg MCTraceStore.tla
    tlc -workers 2 -config MCLanguageServer.cfg MCLanguageServer.tla
    tlapm ConnectorCache_proofs.tla
    tlapm TraceStore_proofs.tla
    tlapm ChangeSets_proofs.tla
    tlapm ConnectorRpc_proofs.tla
    tlapm LanguageServer_proofs.tla
    tlapm AuxTasks_proofs.tla
    tlapm LocalApply_proofs.tla
    tlapm OutputFiles_proofs.tla

`MCChangeSets_executed.cfg` and `MCChangeSets_chwd.cfg` are further questions to
`MCChangeSets.tla`, and `MCApprovals_self.cfg` is one to `MCApprovals.tla`; all three end
with a counterexample.

## 1. The system

| part | state | operations | hard because |
|---|---|---|---|
| connector cache (`autoschematic-core/src/connector_cache.rs`) | three concurrent maps: slot to connector, slot to init status, slot to cached `filter()` answers | get or spawn (with or without init), get, init, filter, clear | every map access is atomic, nothing spans two of them, and every operation awaits in between |
| connector process (`connector/spawn.rs`, `spawn/*.rs`, `tarpc_bridge.rs`, `grpc_bridge.rs`) | process, socket, error dump, reference count, two mutexes | launch, connect, RPCs over two protocols, kill, destructor | crashes, hangs and panics by itself; deadlines; killed by the last handle to go |
| changeset cache (`autoschematic-server/src/changeset_cache.rs`) | pull request to (ChangeSet, head) under one mutex | get or build | the mutex is held across GitHub calls; the head moves |
| ChangeSet (`changeset.rs`, `changeset/*.rs`) | clone in a temp dir, mutex, last plan with `apply_success`, connector cache | plan, apply, import, pull-state, clone, commit and push | many early returns; executed operations cannot be undone |
| dispatch (`event_handlers.rs`) | none of its own | one call per webhook | several at once for one pull request |
| working directory (`chwd.rs`) | one per process | change, restore by destructor | shared by all requests |
| RBAC (`config_rbac.rs`, `changeset/util.rs`) | roles and grants on the default branch, reviews of the pull request | five decisions, two fetches | both change while a command runs; five functions that must agree |
| output files (`connector.rs`, `template.rs`) | a file or a link per address | read, write, link, apply, delete, resolve | links, deletion, deferral on missing outputs |
| local workflows (`workflow/*.rs`) | files | rename, import, unbundle, apply | several files, partial failure |
| auxiliary tasks (`aux_task.rs`) | registry of running tasks, bounded channels | spawn, messages, stop | start window, stale readers, full channels |
| trace store (`tracestore.rs`, `dashboard/routes.rs`) | runs, logs, channels, viewers | start, append, finish, delete, get, subscribe | snapshot against subscription; a channel that forgets |
| command line (`autoschematic/src/*.rs`) | work tree, git index, output files, safety lock | plan, apply, unbundle, check-drift | rounds of plans made before the first is carried out; the user edits meanwhile |
| language server (`autoschematic-lsp/src/main.rs`) | configuration, documents, connector cache | document changes, hover, completion, commands, relaunch | up to four handlers at a time, each with its own copy of the configuration |

`dispatch` fetches the pull request, asks the changeset cache for its ChangeSet,
tries the ChangeSet's mutex (it never waits for it), clones, and calls the
command. The command changes the working directory to the clone, gets connectors
from the ChangeSet's connector cache, and calls them. `apply` executes the stored
plan, commits the outputs the connectors wrote, and pushes to the branch, which
moves its head and so makes the ChangeSet stale. The language server and the
command line use the connector cache directly.

## 2. ConnectorCache

`ConnectorCache.tla` has the whole of `connector_cache.rs` that changes state.

| code | model |
|---|---|
| `cache`, `init_status`, `filter_cache` | `cache`, `initStatus`, `filterCache` (one address per slot) |
| a connector process and its handles | `life`, `keyOf`; `conn[c]` is the handle caller `c` holds |
| a caller inside an operation | `pc`, `key`, `wantInit`, `fresh`, `initOk` |
| `get_or_spawn_connector`, slot occupied (146-180) | `GetCached`, `Decide`, `MarkInitializing`, `InitSucceeds`/`InitFails`/`InitDropped`, `Settle` |
| the same, slot vacant (181-211) | `GetVacant`, `MarkSpawning`, `SpawnOk`/`SpawnFailed`, `VersionMatches`/`VersionMismatch`, then as above, `Publish` |
| `get_connector`, `init_connector` | `GetConnector`; `InitConnector`, `ReInitReturns` |
| `filter_cached` | `FilterMiss`, `FilterGetConnector`/`FilterNoConnector`, `FilterAnswered`/`FilterFailed`, `FilterStore` |
| `clear` and its kill tasks (`doomed`) | `ClearBegin`, `Kill`, `ClearDropped`, `ClearSlots`, `ClearFilters` |
| destructor of the last handle | `Dropped`, applied by every step that lets go of a handle |

A call may be dropped at any of its awaits: the language server cancels requests
(`LanguageServer.tla`), the server aborts tasks. Dropped in `init()` (166, 194) it leaves
the status `Initializing` with nobody to settle it (`InitDropped`); dropped while `clear()`
waits for its kill tasks (296) it leaves the connectors killed so far in their slots
(`ClearDropped`). At the other awaits a dropped call is one whose await failed.

Abstractions: an `Error` status carries no message; an answer of `filter()` is
identified by the connector that gave it (229: it is static by contract); the loop of
`clear()` that starts the kill tasks reads the slots at one point;
`init_connector` keeps a guard of the map across its awaits (`Guarded`), which is
modelled for its own slot and not for others that share its shard.
Three history variables say what a property excuses: `overlapped[k]`, some spawn of the
slot began while another call on it was under way or after one had filled it;
`abandoned[k]`, the slot has a connector killed by a `clear()` that was dropped;
`spoilt[i]`, an `init()` of the connector failed or was dropped.

What is claimed:

- **LiveIsReachable**: a running process is referred to by the slot it was spawned
  for, by a call about it or by a kill task. Racing spawns overwrite each other (`Publish` does not
  look), version checks fail, clears come in between: nothing leaks.
- **KilledLeavesCache**: a connector killed by `clear()` is in a slot only while a
  `clear()` runs, or because one was dropped before it emptied the slots, and then until
  the slot is written or emptied. Without the excuse TLC shows a dropped `clear()` whose
  killed connector every later lookup is handed: nothing in the cache asks whether a
  process lives (hazard of 296).
- **TruthfulStatus**, **InitOnDemand**: as long as no spawns of the slot overlapped,
  `Running` means initialised, and a caller that asked for initialisation gets it unless
  an `init()` of that connector failed or was dropped, or another caller is in it now.
  The status alone is no explanation: `Initializing` stays for good after a dropped call,
  and later callers get the connector as it is.
  The condition is needed: a spawn with `do_init` FALSE (hover requests of the
  language server) that overlaps one with `do_init` TRUE replaces the initialised
  connector and leaves the status `Running`, so nobody initialises the new one. TLC
  shows this when the conjunct `~overlapped[k]` is removed.

Run `connector_cache`: one slot, three callers, two processes; 4.9 million states.
Slots share nothing but `clear()`, and two processes with three callers give every
race of the code (two spawners and a third party). The proofs are for any
number of each.

Nothing is claimed of the cached filter answers: `init()` through
`get_or_spawn_connector` (166, 194) leaves them, where the comment on `filter_cached`
(234) says that an `init()` invalidates them; only `init_connector` does.

### Proofs

`ConnectorCache_proofs.tla` proves, for every `Keys`, `Callers` and `MaxConn`, from
the module's two named assumptions:
`Spec => []TypeOK`, `[]LiveIsReachable`, `[]KilledLeavesCache`, `[]TruthfulStatus`,
`[]InitOnDemand`.

None of these is inductive alone. `IInv` adds: `Coherent` (handles are of spawned
connectors, of the slot they are used for), `FreshIsPrivate` (an unpublished
connector is known to its spawner only, so no `clear()` has killed it and publishing
it cannot hand out a killed one), `SpawnsAlone` (while `overlapped[k]` is FALSE a
spawner has the slot to itself and a caller on the cached path works on what is in
the slot), `SpawnStatus` (what the status says at each point of such a spawn),
`InitOutcome` (what a returned `init()` left) and `StatusExplained` (`Initializing` or `Error` over an
uninitialised connector has a failed, dropped or running `init()` behind it). The proof takes one lemma per conjunct and inside it one step per
action. TLC was given `IInv` as an invariant before it was proved.

`SharedConnectors.tla` says in a page what the cache is to its callers, without its
statuses and its points of interleaving: a call starts a connector or takes the one in a
slot; what is put into a slot is of that slot, was not killed, and was in nobody else's
hands; a sweep kills what the slots have and then empties them, unless it is given up; a
process that no slot, no call and no sweep has is killed, and none comes back. It promises
neither that a slot has one connector at a time started for it nor that a caller gets the
one that is there later, as two lookups of a vacant slot both start one and the second
displaces the first. `CacheSharesConnectors` proves that `ConnectorCache` implements it,
under the mapping `slot <- cache`, `hand <- conn`, `home <- keyOf`, `doomed <- doomed`,
`sweeps <-` the callers between the two halves of `clear`, and `state <- life` without the difference that
`init()` makes. The steps it does not see are those on the two other maps. What carries
the proof is `FreshIsPrivate`, without which `Publish` is not a `Put`. No run of the
project repeats the refinement: the theorem is for every size.

## 3. ChangeSets

`ChangeSets.tla` has the life of the commands of one pull request.

| code | model |
|---|---|
| head of the branch on GitHub | `head`, moved by `UserPush`, `PushOutputs`, `ImportPush` |
| `CHANGESET_CACHE`, its mutex | `cached`, `cacheLock` |
| a `ChangeSet`: head, clone, mutex, `last_plan` | `set[s]`: `sha`, `tip`, `holder`, `planned`, `plan`, `applied` |
| a call of `dispatch` | `task[h]` |
| `ChangeWorkingDirectory` | `cwd`, `task[h].inside`, `task[h].prev`; `Enter`, `Restored` |
| `from_webhook`, `get_or_init` | `Webhook`, `CacheHit`, `CacheMiss`, `BuildOk`/`BuildFails` |
| `try_lock`, RBAC, check runs | `TryLock`/`LockHeld`, `Fails` |
| `clone_repo` | `CloneRepo` |
| `plan` | `StartPlan`, `PlanObject`/`PlanObjectFails`, `PlanDone`, `PlanAborts` |
| `apply` | `ApplyRefused`, `StartApply`, `ExecOk`/`ExecFails`, `PushOutputs`, `ApplyAborts`, `ApplyDone` |
| `import_all`, `pull_state` | `StartImport`, `ImportPush`, `ImportNext`, `ImportEnds` |
| the reference count of a ChangeSet and its temp dir | `Alive`, applied by `Settle` and `Return` |

Abstractions: one pull request; a resource is an object with or without operations
planned for it; connector filter, subpath and RBAC together let an arbitrary subset
of the objects through (`scope`); executing a report is one step with two outcomes;
reports are taken in any order; `import` stands for `pull-state` too. A request that
the HTTP server drops halfway behaves as one that fails there. A push has three ends:
the branch moves; it returns an error, for libgit2 sees that the branch is not where the
clone left it, or GitHub cannot be reached (`ApplyAborts`, `ImportEnds`); or GitHub
refuses the commit (a hook, a protected branch, a head that moved just now), of which
`push` says nothing, as no `push_update_reference` callback is set: the code goes on, the
commit stays in the clone, and the next push takes it along. At `MaxHead` no push is
accepted. `apply` may fail at any report and after the last; only `finish_run` fails
after `apply_success` was set. `ran`, `aborted`, `home`, `pushed` and `refused` are
history variables.

What is claimed:

- **RunsAtSeenHead**: a command acts on the ChangeSet of the head it fetched.
- **NoReplay**: a report of a stored plan is executed again only after an apply of
  that plan broke off (the code then does execute it again).
- **OutputsReachGitHub**: if apply returns Ok, the outputs its successful reports left
  in its clone are on the branch, or in commits that GitHub refused and no later commit
  of this apply took there. That an apply with refused outputs returns Ok and marks its
  plan is what the code does; no document of the repository promises otherwise.
- **LockIsHeldByACommand**: the mutex of a ChangeSet is held exactly by a running
  command.
- **EveryCommandEnds**: every webhook is answered.

Runs:

- `changesets`: two requests, one object, two heads; 771,000 states, three minutes with
  the liveness property. Two heads give a stale entry, an eviction under a running
  command, a clone without the wanted commit and a push that fails. As many ChangeSets as
  requests are enough: while one is built, the builder has none and the cache is empty.
  Fairness: `WF` of what a request does once it is under way (calls to GitHub, git and
  connectors return, with an answer or an error) and `SF` of the lookup, which waits for a
  tokio mutex; that mutex is first come, first served. Pushes and connectors are finite by
  the bounds, as in the code. Two objects give a plan of which one report was pushed and
  another not; TLC found no violation of the five invariants there either (21 million
  states, too many for a run with liveness), and they are proved for any number.
- `changesets_executed`, `changesets_chwd` refute what the program says of itself:
  `apply_success` is set though reports were skipped (`FullyExecuted`); a command may
  find itself in the clone of another (`InOwnClone`). What `try_lock` calls the lock of
  the pull request is one of a ChangeSet, that is, of a head: after a push two commands
  of a pull request run side by side, which both runs make use of.

### Proofs

`ChangeSets_proofs.tla` proves the five invariants for any number of webhooks, objects,
heads and ChangeSets, from the assumptions named in the module. Only `TypeOK` is
inductive alone. `IInv` is their conjunction with three more parts: `AtSeenHead` (the
ChangeSet of a command is of the head it fetched from the lookup on, not only once it
has the lock), `Fresh` (between two applies a stored plan is untouched, marked applied,
or its apply broke off: what makes `NoReplay` survive `StartApply`) and `Landed` (before
apply returns, its outputs are pushed, refused or still to be committed). `FullyExecuted` and
`InOwnClone` are refuted and `IInv` needs neither. The argument is one of ownership: a
command that holds the mutex of its ChangeSet is the only one to change it, so one lemma
(`LocalStep`) covers every step between `TryLock` and `Return`; what is left is that a
ChangeSet which is built, evicted or forgotten is one nobody runs on. TLC was given
`IInv` on two objects before it was proved.

`StoredPlans.tla` says what the commands promise about plans, without clones, caches,
directories and pushes: a command works on one ChangeSet, of the commit it was asked at,
and alone; only it stores or executes the plan there; a report is executed once, unless
an execution of that plan broke off; what was executed to the end is not begun again; and
what is forgotten with a ChangeSet was nobody else's. `PullRequestKeepsItsPlans` proves
that `ChangeSets` implements it, with each abstract variable given by an operator:
`asked <- AskedNow` (the head a command fetched), `at`, `holder` and `plan <-` the fields of
a ChangeSet, `left <-` the plan without what `ran`, `state <-` what the command at work and
`planned`, `applied` and `aborted` make of it. `Webhook` is an `Ask`, `CacheMiss` an `Evict`,
`BuildOk` an `Open`, `TryLock` a `Take`, `PlanDone` a `Store`, `StartApply` a `Begin`, a
report executed or failed an `Execute`, `ApplyDone` a `Finish`, `ApplyAborts` a `Break`, and
every way to return a `Leave`; the rest stutters. Besides `IInv` the simulation needs
`Books`: a command is asked exactly while it has a head, a ChangeSet that nobody refers to
is empty, what apply has still to execute is of the plan, and while one is built the cache
is empty. Ownership alone says nothing of a ChangeSet without an owner, and `Evict` and
`Leave` are about those. TLC checked `Books` and the refinement on one object (612,776
states); no run of the project repeats it.

The third part of the module has the proofs of `Approvals` (section 6). The module
extends both, the commands and the decisions they ask for, so the specification of
`Approvals` goes by the names `RbacInit`, `RbacNext`, `RbacSpec` and `RbacTypeOK`.

## 4. AuxTasks

`AuxTasks.tla` has the tasks the server runs beside webhooks: `aux_task.rs`,
`aux_task/*.rs`, the registry in the core, and the broadcast with which `dispatch`
begins. It models one task name, which is what the registry's rules are about.

| code | model |
|---|---|
| the entry of the name, its state | `entry` (whose run's), `state` |
| the registry's read-write lock | `writer` (`spawn_task` while it builds the task), `sending` (a `dispatch` that waits to send) |
| a call of `spawn_task` | `call[r]`: `Refuse`, `Begin`, `NewOk`, `NewFails` |
| its reader | `reader[r]`: `SetState`, `PostComment`, `GiveUpComment`, `HangUp` |
| the two channels | `outbox[r]`, `inbox[r]` |
| the task and its script | `task[r]`, `next[r]`: `Start`, `CloneOk`, `OpenPullRequest`, `Ask`, `Hear`, `HearFailure`, `Ignore`, `Orphaned`, `TaskFails`, `TaskSucceeds` |
| GitHub, and the commands of the server (ChangeSets) | `asked[r]`, `mail`: `Answer`, `NoAnswer` |
| `dispatch` up to its own work | `Dispatch`, `Deliver` |
| `try_send_message` from the dashboard | `ShutDown` |

A run is one call of `spawn_task` with all it creates. What a task waits for, what
ends it and what a command answers are the sets `Awaited`, `Failures` and `Answers`,
written down from the three places they come from, because that they differ is where
it goes wrong. Abstractions: waiting for the registry's lock is part of the step that
gets it; draining an inbox is one step; comments that concern nobody are all `Noise`;
a comment is either posted or given up (one that GitHub took and reported as failed
would be posted twice); comments on a pull request its task has left are `Noise`, and
nobody else gives commands on the one it has. The
working directory, which a test task holds for its whole life (`test_task.rs:157`), is
in ChangeSets.

What is claimed:

- **OutboxFits**: a task's outbox never holds more than five messages, of 64. This is
  what keeps `dispatch`, which holds the read lock while it waits for a task, a
  reader, which waits for the write lock, and a task, which would wait for its
  reader, from waiting in a circle.
- **DispatchEnds**: `dispatch` always gets rid of its comment.
- **NoPhantom**: a name does not stay `Running` when nothing runs. `Running` is sent
  three times, once before anything can run, and readers write into whatever
  entry the key has by then.
- **DisplacedRunEnds**: a run whose entry was replaced ends.

Run `aux_tasks`: two calls for one name, one dispatcher, an inbox of one message (64 in
the code: the smaller one is full more often), one answer of the server under way
(`MaxMail`), and of the types of answers one of each kind (`Replies`). Fairness: `WF` of
a task's own steps and of the delivery of a comment, `SF` of a reader, which waits for
tokio's fair lock; none of `TaskFails`, answers, webhooks or users, so nothing ends
because something was assumed to fail.

Not claimed, as the code does otherwise: that one task of a name runs at a time
("already running" is checked against a state that lags behind), and that a ShutDown
ends a task ("Shutting down task..." is an error that `test_task.rs:86` and `108` drop).
`Answers` and `Awaited` show one more by themselves: a task waits for the answer to
pull-state by a name that the server does not use, and passes over it.

### Proofs

`AuxTasks_proofs.tla` proves `TypeOK` and `OutboxFits` for any number of runs, webhooks,
dispatchers and comments under way. `OutboxFits` says nothing of why a task stops
writing, so it is not inductive; `IInv` adds two parts. `Fits`: what may be in the
outbox at each point of a task, namely the reports of its start, one command, the error
it ended with. `OneAnswer`: what a task asked for is in its outbox, on GitHub, in a
comment, with a dispatcher or in its inbox, and in one of these only. So when a task
hears an answer its command has left the outbox, and the next one finds room. The
bound of five is reached, in the run as in the proof.

`ScriptedTasks.tla` says what a run looks like from its pull request, without channels,
readers, comments under way and dispatchers: at a step of its script it asks for one
thing, and once; somebody may answer, with one of the answers to it; the run is told this
answer only while it is the registered one; it goes on to a step that follows from the
answer, and of the answers it waits for it passes over none, as a failure ends it.
`TasksFollowTheirScript` proves that `AuxTasks` implements it. A run is `asking` while its
command is in its outbox or on GitHub; `said` has the comments for it that a webhook or a
dispatcher carries, `told` the answers in its inbox. `NewOk` is a `Begin`,
`OpenPullRequest` and `Ask` are an `Ask`, `Answer` is one, a comment given up, an error that
is not posted and an answer delivered after the entry was replaced are a `Miss`, `Deliver`
is a `Tell` otherwise, `Hear` and `Ignore` are what they are called, and every end is a
`Quit`. What carries the proof beyond `OneAnswer` is `OnTopic`: what a run has under way is
about the step it is at. `wait_for_comment_types` looks at the pull request and the type
of a comment and at nothing that says which command it answers; that none answers an
earlier one is what the theorem adds (and only that: a command that a user gives on the
pull request of a task would be taken for the task's own, which the model leaves out).
TLC checked both on the instance of the run, and with two dispatchers;
no run of the project repeats it.

## 5. OutputFiles

`OutputFiles.tla` has the output files of one prefix and every local workflow that
writes them. A resource that gets its identity when it is created has two addresses:
the *virtual* one of its definition, chosen by the user, and the *physical* one made
of its identity. The output file of the first is a map with the identity, that of the
second a link to the first.

| code | model |
|---|---|
| `.name.ext.out.json` files (`connector.rs`) | `files`: none, a link, or a map; of the map only the identity is kept |
| definition files | `def`: never there, removed (`gone`, and so still an object of the change), or there |
| remote resources | `live`; `used` are those there ever were |
| `read_recurse`, `write_recurse`, `resolve` | `Chase`, `Loops` |
| `addr_virt_to_phy`, `addr_phy_to_virt` of a connector | `VirtToPhy`, `PhyToVirt` |
| a workflow under way | `job[w]`: `Main` for all but import, which has a task for each resource |
| `apply` (plan of one object, then its operations) | `Apply`, `OpExec`, `ApplyOutputMap`, `ApplyLink`, `Unlink` |
| `rename` | `Rename`, `Relink`, `Remap`, `Copy`, `RemoveOld` |
| `import_resource` | `Import`, `Check`, `Get`, then `WriteDef`, `WriteMap`, `WriteLink` |
| `pull_state` | `PullState` (then the same three); `PullDelete`, then `PullDef`, `PullPhy`, `PullVirt` |
| an error, or the end of the process | `Cut`, at every step of every workflow, and inside `OutputMapFile::write`, which removes a file before it writes it anew |
| the user, and the world | `Draft`, `Remove`, `Appear` |

Nothing keeps names apart: the user renames any address to any other, one in use and the
old one itself included, and `get()` suggests any name, one in use or one it suggests for
another resource too (a title, a tag). And nothing keeps workflows whole. So there is no
sense in which files are always right, and the claims need a notion of when they may not
be. A ghost variable, `doubtful`, has the resources of which one of two things is true
since a workflow about them last came to its end:

- a workflow about *another* resource wrote or removed the file of their address or the
  one that held their identity (`Others`);
- a workflow about *them* stopped with one of two files written, or inside the write of
  one (`Torn`, `Cut`).

The step that does it puts a resource in doubt, no other; writing its map from what the
connector says of it (apply, import, pull-state, the end of a rename) takes it out.
`foreign` has those that were created by other means and not imported yet.

Abstractions: a connector plans a create (perhaps followed by an update), an update or
a delete; the outputs of a deletion remove every key; the outputs of a resource are not
empty (without outputs `GetResourceResponse::write` writes no file but the definition).
`fs::write` over an existing file, as `write_recurse` uses it, is one step, and so is the
copy of a definition: a process killed inside either leaves a file that cannot be read.
The server's own import, which skips a resource whose physical path or output file
exists and has no hints, templates and deferral are not modelled.

What is claimed:

- **RecordsAgree**: between workflows, the physical address of a live resource that is
  not in doubt leads to its own map; or the resource was created by other means, and then
  no file mentions it. At any time, a read that starts at a name comes to an end
  (`ReadsEnd`; links are followed without limit, so in the code a circle is the end of the
  process), and one that starts at the address of a live resource too, but in the moment
  between the two writes of a workflow about it, or when it is in doubt.
- **RecordIsKept**: the identity of a live resource that some output file holds is not
  lost but by a step that puts the resource in doubt. What is lost is taken for missing,
  and created a second time.
- **ImportKeepsNames**: import writes the definition of a resource that is not in doubt
  where the link of its address leads; only one without a name, or kept at its physical
  address, is given the name that `get()` suggests, while tasks about other resources
  write at the same time.

Run: `output_files` has two resources and two names; 2.5 million states. Two resources
give an import with two tasks, a name that passes from one resource to another and two
suggestions of one name; a third would meet the same files.

What the properties leave open is what the code does badly, and the model shows it:

| what happens | what it leads to |
|---|---|
| import or pull-state stops after the definition | a definition without an identity: apply creates the resource again |
| apply stops after the map, where a failing call is enough | the physical address leads nowhere, so import defines the resource a second time |
| a rename stops after the link | of a resource kept at its physical address, the link replaced the only file with the identity; of one renamed back to it, the link leads to itself and whatever reads it does not return |
| a rename stops after the copy | both names have a definition |
| two resources are suggested one name, or a name in use is taken | the later map replaces the earlier one; the links of both lead to it |
| a rename succeeds | the output file of the old name stays, so two names lead to one resource, and the server, which counts a rename as a removal and a creation (`changeset.rs:184-193`), plans the deletion of a resource that is live |
| a rename of an address to itself | its definition is removed |
| import without `--overwrite` | replaces the definition at the name that `get()` suggests, as it looks for one before it asks (`autoschematic/src/main.rs:205` says otherwise) |
| import with `--overwrite` of a resource kept at its physical address | defines it a second time at the suggested name |

In the first three, and in the fifth, the resource is in doubt.

The runs of `AuxTasks` and `OutputFiles` do not check for deadlock: both really stop, when
every call of `spawn_task` is used up, or when all resources have been deleted and no
file is left to plan for.

### Proofs

`OutputFiles_proofs.tla` has theorems of four kinds, all for any number of resources,
names and import tasks, and with no assumption but that addresses are finitely many and
different kinds of addresses are different.

*Where links lead.* `read_recurse`, `write_recurse` and `resolve` follow links without
counting; `Chase` takes as many steps as there are addresses. `ChaseFindsTheEnd` says
that this is the end of every chain that has one, whatever its length: a shortest walk to
an end passes no address twice, so it has no more steps than there are addresses. So
`Loops` holds of exactly the addresses from which a read never ends (`LoopsHaveNoEnd`).
Both are inductions on a number. The library's induction theorem cannot be used, as it
takes an operator; a set of numbers without a least one is empty, and that serves (`UpTo`).

*Types.* `TypeCorrect`.

*Names.* `NamesAreNeverLinks`: the output file of a virtual address is never a link, so a
read that starts at one always ends. The invariant `Anchored` says why: links are at
physical addresses (`LinksAtResources`), and when apply writes one, the address it is
about leads to the map it has just written (`Reached`) with nobody writing in between
(`Alone`). `Reached` rests on `WrittenAtTheEnd`: a map written where a chain ends, or
somewhere on a circle, is where the chain ends from then on.

*Records.* `RecordsAlwaysAgree` (`RecordsAgree`), `RecordAlwaysKept` (`RecordIsKept`) and
`ImportKeepsItsNames` (`ImportKeepsNames`). The inductive invariant is `Tidy`. None of its
parts is inductive without the others:

| part | says |
|---|---|
| `Whole` | of each resource not in doubt: its address holds its map, or is a link to it; or it is not recorded at all, being new, gone, or on its way to be; or a worker has yet to write its second file |
| `Maps`, `NewOnes` | a map holds the identity of a resource there is or was, and of one that was created by other means there is none before import writes it |
| `AtMain` | what apply, pull-state and rename read before they wrote is still so at their next write |
| `AtLink`, `AtTask` | so it is for the tasks of an import: the map is there when the link to it is written, and a task still writes where the link of its resource leads |

What makes it inductive is that steps interfere in one way only. A step of a worker is about
one resource, and of every other one it either leaves the files alone or puts it in doubt
(`Spares`); so a lemma (`OneStep`) carries the parts over for all others, and each step
is left with its own resource. TLC was given `Tidy` on the instance of `output_files` before it
was proved. The action properties follow from `Tidy` before and after the step.

## 6. Approvals

`Approvals.tla` has the access decisions of the server and what they are made from: the
roles and grants of `autoschematic.rbac.ron`, the reviews of one pull request, the
three commands that ask (plan, import, apply), and `pull-state`, which does not.

| code | model |
|---|---|
| `AutoschematicRbacConfig`, `Role`, `PrefixGrant` | `Configs`, any set of structures that are `RbacConfig` |
| `roles_for_user`, `grants_for_prefix`, the four `allows_*` | operators of the same names |
| `get_rbac_config` (default branch, once per command) | `rbac`, `Merge`; read by `Begin` |
| `get_pr_approvals` (once per apply, when a report needs it) | `reviews`, `Review`, `Dismiss`, `Approving`; read by `FetchApprovals` |
| the gates of plan and import; of apply (60-90) | `Read`; `Execute` with `MayApply` |
| `pull_state`, which is handed neither the configuration nor the user | `PullState`, `Pull` |
| `last_plan`, `apply_success` | `plan`, `spent`; `Push` is a new ChangeSet, without a plan |

Abstractions: the users of a role and the connectors of a grant are sets (the code
compares lists, which makes no difference, as a role always equals itself); the pages of
reviews are one answer; what the filters of a command let through is any subset; the
fetch of either file may fail (`Fail`), which ends the command. The lock of the
ChangeSet is in ChangeSets: here one command runs at a time.

What is claimed:

- **NeverMoreThanGranted**: each target (a prefix and a connector, of any number of
  objects) that a plan or an import asks its connector to read, or of which an apply
  executes a report, is granted to its user by the *meaning* of a configuration that was
  on the default branch after the command had begun, and, where the grant is
  `ApplyIfApprovedBy`, by the approval, since then, of a user who holds the named role.
  `MayRead` and `MayModify` name no function of the code; they say of roles what their
  names stand for, where the code compares them by value.

The code grants less than that where a grant has no `connectors`: three of the four
decisions take that for nothing (a test pins this down,
`allows_read_requires_connectors_some`), though the documentation reads "if set, the grant
is limited only to these"; and a comment after an approval takes it back, as the last
review of a user counts, of whatever kind it is. It grants more than its documentation in
two places:

- the documentation of `ApplyIfApprovedBy` asks for the approval of a *different* user
  (`config_rbac.rs:44-45`), and neither `allows_apply_if_approved_by` nor `apply` compares
  the two: **ApprovedByAnother** is refuted by the run `approvals_self`, in which a user
  approves and then applies. `MayModify` leaves the difference out, so that the passing
  property says what remains true;
- a user with the grant `None` "may not do anything" and `ReadOnly` names `pull-state`
  (`config_rbac.rs:38-42`), but `pull-state` asks no grant (`event_handlers.rs:447-449`):
  whoever may comment has it read every connector that its filters let through. It is
  modelled and excluded from the claim by its kind.

Reviews are of the pull request and not of its head (`Push` leaves them alone).

Run `approvals`: two users, two connectors, nine configurations (every kind of grant,
with and without connectors, with a role that does not exist), two reviews and one merge;
5.4 million states, two minutes. Two reviews and a merge are enough for an approval that is withdrawn
between the fetch and its use, and for a configuration replaced under a command. Who
approves and who comments are any users; that GitHub lets nobody approve a pull request
of his own only says that its author is not among those who approve.

### Proofs

The second part of `ChangeSets_proofs.tla` proves `RbacSpec => []RbacTypeOK` and
`RbacSpec => []NeverMoreThanGranted` for every set of configurations, users, targets and
any number of reviews and merges, from `ConfigsAssumption` and `BoundsAssumption`. The
argument is two lemmas on the operators (`ReadIsGranted`, `ApplyIsGranted`: what a
gate lets through, a grant means), one on monotonicity (`MoreApprovers`) and
the invariant `Recent`: the configuration and the approvals a command holds are among
those seen since it began. Without it the property is not inductive, as `Execute` looks
at copies.

## 7. ConnectorRpc

`ConnectorRpc.tla` has one connector from its launch until its files are gone, seen from
both ends of the socket: the two launchers (`unsandbox.rs`, `sandbox.rs`), the wait for
the socket (`spawn.rs`), the handle and its destructor, and the two bridges.

| code | model |
|---|---|
| protocol, sandbox | `mode`, chosen at first |
| the process, socket file, error dump | `proc`, `sock`, `dump` |
| the handle | `handle`; `Launch`/`LaunchSandboxed`, `Connect`, `GiveUp`, `Drop`/`DropSandboxed`, `DropKills` |
| the mutex around the connector; around the gRPC client | `lock`; the guard of `GrpcSend` |
| a call | `call[c]`: `caller` (client side), `handler` (server side), what was asked, seen, answered and got |
| deadlines of tarpc, at either end | `Deadline`, `Abort` |
| cancellation by the caller | `Cancel`, `Abort` |
| conversions of the bridges | `Seen`, `Got` and the `...Wire` operators |
| what the connector may do (external) | `Act`, `Reply`, `Hang`, `Panic`, `Crash`, `Fail` |

A value is `absent`, `empty` or something, and an answer may have an output that is `blank`
or ask for the removal of one: that is what the conversions tell apart. Six operations stand for all twenty-odd;
they have every kind of argument and answer.

What is claimed:

- **OkIsTruthful**: a call that succeeds was carried out exactly once, on the text it was
  given, and its caller got the value the connector returned, whatever crashed, was
  cancelled or ran out of time beside it. Over tarpc nothing is changed at all. Over gRPC
  an empty text is no text (a plan for an emptied file is a plan for its deletion,
  `grpc_bridge.rs:111-112`), the removal of an output is not transmitted (135), and a blank
  output of a task is passed over by its reader (682), one of an op is not (485-489).
- **NothingLeftBehind**: when the handle is gone, so are the process and its socket. Two
  exceptions are the code's: a sandboxed connector may write its error dump between the
  removal of its files and its end, and a sandboxed launch that fails leaves the
  process running.
- **CallEnds**: a launch ends; a tarpc call ends whatever the connector does; a gRPC call
  ends unless a handler hangs that nobody cancelled.

Not claimed: that a sandboxed connector is asked for its `subpaths()` (the handle does not
pass it on, so it gives the default); that a crash of a sandboxed connector is
noticed by `still_alive` (`kill(pid, 0)` succeeds for a child that nobody waited for).

Run `connector_rpc`: two calls, one of any operation and one plan; 650,000 states. Two
calls are enough for one to wait behind the other at either mutex. Fairness: `WF` of the
timers of the client, of the end of a wait for the socket, of reading an answer and
noticing a closed connection, and of a handler's steps, of which `Hang` may always take
the place; nothing is assumed to crash.

### Proofs

`ConnectorRpc_proofs.tla` proves `TypeOK`, `OkIsTruthful` and `NothingLeftBehind` for any
number of calls. `IInv` adds `Progress` (what a call has seen, done and answered, told
by its record alone, so that a step of one call leaves every other's as it was) and
`Life` (which states of the process go with which states of the handle: a handle is
gone only with its process, and no handler runs in a dead one). What the two bridges do
to a value is in two lemmas (`WhatIsSeen`, `WhatIsGot`).

`AtMostOnce.tla` says in a page what the handle promises: one call is worked on at a time,
each is taken up at most once and does what it asks at most once, a call succeeds only when
that is done and over, and the handle closes only when nobody waits. A call that fails (a
deadline, a cancellation, a broken connection, an error of the connector) may have been
carried out, and may be carried out later, as the handler goes on until it is aborted; but
not after the handle is closed. `HandleIsAService` proves that `ConnectorRpc` implements
it, for both protocols, with and without the sandbox: `serving <- lock`, and of each call
`asked` is what its caller knows, `work` what `acts` and `seen` tell. What a sandboxed
handle answers itself (`subpaths()`) is mapped to no call. Beyond `IInv` the simulation
needs that calls wait only while the handle is there (`Waits`) and that what was not taken
up was not seen (`Reached`). TLC checked the refinement and the added invariant on
the instance of the run before they were proved; no run of the project repeats it.

## 8. LocalApply

`LocalApply.tla` has the work of one user at the command line: `plan`, `apply` with its
rounds, `unbundle`, `check-drift` and the safety lock, with the work tree, the index and
the last commit of git, and output files as versions. A definition may read the output of
another (`Refs`); a bundle is taken apart into definitions (`Elements`). A command may be
given the name of a connector: `Scopes` has, for each that may be named and for none, the
files it then takes for resources; the others it passes over, in the rounds that follow,
too. A definition that is no UTF-8 text is not searched for references, so it is one that
has none.

| code | model |
|---|---|
| definitions in the work tree, index, last commit | `def`, `index`, `head` |
| output files, resources | `out`, `remote` |
| bundle maps (`BundleMapFile`) | `link` |
| `template_config` and what it misses | `Body`, `Missing` |
| `plan` of a file: the connector filter, `FilterResponse::Resource`, `None` | `Taken` |
| `apply`: staged files, plans, the question, execution, the next round, the commit | `StartRound`, `PlanFile`, `PlanComplete`, `Confirm`, `ExecPlan`/`ExecFails`, `ExecComplete`, `Reapply`, `Commit`, `Quit` |
| `write_unbundle_element` | `MayWrite`, `WriteElement`, `RefuseElement`, `LinkElement`/`LinkFails` |
| outputs written by `apply_connector`, also by one that fails later | `Stored`, `ExecFails` |
| `check_drift` | `CheckDrift`, `Verdict` |
| the user in another window | `Edit`, `Stage`, `Drift`, `SetSafetyLock`, `UnsetSafetyLock` |

What is claimed:

- **Resolved**: no resource is ever made with a reference left in its text.
- **AppliedAsDefined**: when the command says that the apply succeeded, every staged file
  of the connectors it was asked for is made as its definition says *now*, but for files the user touched
  meanwhile and for readers of an output that the same round changed. The last is real:
  all plans of a round are made first, so a reader of an output that another plan
  changes is carried out with the old one, and no further round is offered, as nothing
  was deferred.
- **ElementsAreLinked**: a definition that came out of a bundle is linked to it, unless
  staging it or writing the map failed: nothing undoes the first write, and the next
  `unbundle` refuses the element. A file whose map says that it is a bundle itself is
  overwritten without `--overbundle`, and its map with it; no code writes such a map, so
  the model starts with any (`Itself`).
- **ApplyEnds**: the rounds come to an end though `apply` calls itself.

Not claimed: that the commit has only what was made. `git commit` takes the whole index,
with the staged files that the filter passed over, and "Apply succeeded! Do you wish to
run git commit to track the new state?" (`apply.rs:301`) is asked of them, too. Nor that
"all plans are empty" means that nothing is left to do; it is also said when every staged
file waits for an output, or was passed over. And `check-drift` compares with the text
before its outputs are filled in, so what reads an output has always drifted.

Run `local_apply`: a definition, one that reads its output, a connector for both and one
for each, two bundles, two versions and three changes by the user. Fairness: the program goes on and the user answers what it
asks (`WF` of `Step \/ Answer`); `Quit` is never assumed.

### Proofs

`LocalApply_proofs.tla` proves `TypeOK`, `Resolved`, `AppliedAsDefined` and
`ElementsAreLinked` for any files, references, addresses and bundles. `Resolved` needs
that plans, too, have no reference left (`AllResolved`). `AppliedAsDefined` speaks of the
moment of the commit; `Accounted` says what is true on the way there: a file the apply
was asked for is still to be planned, put off, planned with the body it is due, or made
with it, and a body is due when it is the definition filled in as of now, or the round
changed an output it reads. `Unbundled` has the one definition whose link is still to be
written. What a connector makes
is assumed to be what was planned.

## 9. TraceStore

`TraceStore.tla` has the in-memory trace store, the handler and the task of a viewer of a
log (`log_subscribe`) and the page of a pull request. `LogFeed.tla` says in a page what
the store promises: lines are only added, and a viewer is shown lines of one run, in
order, none twice; some may be passed over.

| code | model |
|---|---|
| `start_run`, `append_run_log`, `finish_run`, `delete_run` | `StartRun`, `AppendRunLog`, `FinishRun`, `DeleteRun` |
| `get_run`, then `subscribe_run_logs`: two locks | `GetRun`, `SubscribeRunLogs` |
| replay of the copy, then the channel | `Replay`, `Replayed`, `Receive`, `Lagged`, `Closed` |
| session and collaborator checks | `Admit`, `Deny` |
| the client | `Leave` |
| the page of a pull request | `ListRuns`, `ReadRun`, `Render` |

What is claimed:

- **ImplementsFeed**: the store implements `LogFeed`, under the refinement mapping
  `log <- lines`, `feed <- watch`, `last <- last`.
- **GapsExplained**: a viewer that follows has seen every line but those logged between
  its two locks and those the channel had dropped; **LostToNewer**: the channel
  drops a line only for `Capacity` newer ones.
- **CaughtUp**: a viewer that is behind gets there; **GoneViewerEnds**: the task of a
  viewer whose client has gone ends with the next line. One that has read all of a run
  that is deleted does not (`Closed`, phase "spins"): `RecvError::Closed` is logged and asked
  for again without end (`routes.rs:370-372`), nothing is sent, and the client's going stays
  unnoticed. The task that `start_run` has for the channel does the same, and is left out.

Run `trace_store`: two runs, one of which may be deleted (nothing in the server calls
`delete_run` yet), a viewer, a channel of two lines (512 in the code) and four lines, so
that it can lag. Viewers share nothing but the log they do not change, so one is enough.
Fairness: `WF` of the steps of a viewer's task; that a task that spins lets the others of
its thread run is left to the runtime, whose receivers yield now and then.

Proofs: `TraceStore_proofs.tla` proves, for any number of runs, viewers and lines and
every capacity, `Spec => []TypeOK`, `[]GapsExplained`, `[]LostToNewer` and
`Spec => ImplementsFeed`. `IInv` adds `Progress`, what a viewer has at each place of its
handler: that the copy is a prefix, that what is shown of it is a prefix of that, and
that the receiver starts no earlier than the copy ends, without which a line could be
shown twice. The refinement is a step simulation with `IInv` as its context.

## 10. LanguageServer

`LanguageServer.tla` has the server an editor talks to: its configuration, the connector
of one prefix in its cache, and the text and diagnostics of one definition. Messages
are taken up in order and handled concurrently; a handler is interleaved at its awaits.

| code | model |
|---|---|
| `autoschematic_config`, `connector_cache`, `docs` | `config`, `connector`, `text` (versions) |
| `autoschematic.ron` on disk | `disk`; `Save` |
| what the editor shows | `shown` |
| a handler | `task[h]`; its messages `Initialize`, `DidChange`, `DidChangeConfig`, `Hover`, `Command`, `Relaunch`, `Shutdown` |
| `try_load_config`, `try_reload_config` | `Check`; `ReadConfig`, `WriteConfig`, `LoadConnectors`, `Lookup`, `JoinConnectors` |
| `diag_file`, `validate` | `CloneConfig`, `DiagFile`, `Publish` |
| relaunch | `Forget`, `ClearKill`, `ClearSlots`, then a reload |
| `ConnectorCache::clear` | `ClearKill`: the tasks that kill; `ClearSlots`: the cache is emptied after they have ended |
| the framework | `Cancel` (the handler is dropped at an await, one in `clear` between its two steps), `Exit` |

What is claimed:

- **DiagnosticsAreNewest**: with no validation running, what is shown is about the newest
  text, however the configuration and the connectors came and went meanwhile. Two
  exceptions are the code's (`excused`): diagnostics are published without the version of
  their text, so of two validations that overlap the older may have the last word; and a
  validation that fails publishes nothing.
- **RelaunchTakesEffect**: a relaunch that ran with nothing beside it leaves a
  configuration no older than itself, no connector of another one and none that is killed,
  whatever a relaunch that was cancelled left before it: one that is dropped between the
  kills and `cache.clear()` leaves the killed connector in its slot, where hover and the
  commands find it (`killed`), until the next relaunch empties the cache. Beside others it
  need not (`alone`): a handler that copied the old configuration starts its connector
  again, and the cache does not compare.

Not claimed, as it is not so: that what is known of `autoschematic.ron` is what the editor
shows. A change of its text loads the file from disk, there is no handler for saves, and
hover and completion read the file on disk too.

Run `language_server`: two handlers (the framework takes four), three versions of the
configuration and three texts; 4.4 million states up to symmetry. Two handlers give
every overlap that either property excuses; a third meets the same variables.

### Proofs

`LanguageServer_proofs.tla` proves `TypeOK`, `DiagnosticsAreNewest` and
`RelaunchTakesEffect` for any number of handlers, saves and texts. `IInv` adds `Paths`
(the steps a handler can be at for its message), `Newest` (a validation that nothing
excuses is the only one, of the newest text), `Alone` (what a relaunch that runs alone
has left at each of its steps) and `KilledIsThere` (no slot is empty and killed).

## 11. What is proved, and what is not

| module | theorems | obligations |
|---|---|---|
| `ConnectorCache_proofs` | `TypeCorrect`, `NoLeak`, `NoKilledHandout`, `StatusIsTruthful`, `InitialisedOnDemand`, `CacheSharesConnectors` | 1577 |
| `TraceStore_proofs` | `TypeCorrect`, `OnlyExplainedGaps`, `LossNeedsNewerLines`, `StoreImplementsFeed` | 331 |
| `ChangeSets_proofs` | `TypeCorrect`, `CommandsKeepTheirHead`, `PlansRunOnce`, `OutputsAreSent`, `LocksAreReturned`, `PullRequestKeepsItsPlans`; of `Approvals`, `RbacTypeCorrect`, `AccessAsGranted` | 2384 |
| `ConnectorRpc_proofs` | `TypeCorrect`, `AnswersAreTruthful`, `HandlesCleanUp`, `HandleIsAService` | 1097 |
| `LanguageServer_proofs` | `TypeCorrect`, `ShowsTheNewest`, `RelaunchesTakeEffect` | 657 |
| `AuxTasks_proofs` | `TypeCorrect`, `OutboxIsLargeEnough`, `TasksFollowTheirScript` | 2405 |
| `LocalApply_proofs` | `TypeCorrect`, `NoReferenceIsMade`, `CommitIsDeserved`, `BundlesAreLinked` | 1044 |
| `OutputFiles_proofs` | `TypeCorrect`, `ChaseFindsTheEnd`, `LoopsHaveNoEnd`, `NamesAreNeverLinks`, `RecordsAlwaysAgree`, `RecordAlwaysKept`, `ImportKeepsItsNames` | 3518 |

Liveness (`EveryCommandEnds`, `DispatchEnds`, `NoPhantom`, `DisplacedRunEnds`, `CallEnds`,
`ApplyEnds`, `CaughtUp`, `GoneViewerEnds`) and the runs that refute a claim are TLC's.
Every invariant that a run checks is proved, and every action property that is not about
liveness. No theorem has a hypothesis beyond the assumptions its modules name.
Everything the proofs do not name is checked at the bounds above and no further.

The runs that expect no error do not check for deadlock except `connector_cache`
and `changesets`, whose modules say when they are done: the others really stop, when the
bounds on what users and editors do are reached, or when the process has ended.

## 12. Mutants

The operators marked "Mutant" in the modules are plausible bugs of the definition
that follows them. Each property of a passing run is violated when the
definition is replaced by its mutant, as listed in `PROJECT.json`.

## 13. Plan

What is left, in this order:

1. OutputFiles further: the server's import; its clone under ChangeSets, so that a
   failed push is a cut.
2. The credentials the server keeps for GitHub (`credentials.rs`, `github_cred_store.rs`):
   expiry against use.
3. One connector of `SharedConnectors` with the handle of `AtMostOnce`, composed: the
   destructor that closes a handle is the one that the last reference runs.

## 14. Not modelled

Keystores, downloads, the lockfile and secrets are cryptography and files with no
protocol between parts; HTTP routing, sessions and credentials are I/O around what is
modelled; RON parsing, templates, globs, docstrings and formatting are functions on
strings; the namespaces and filters of the sandbox are the kernel's; the SDKs and
protocol files are generated or clients; the repository locks are taken by nobody.
`PROJECT.json` lists every part with the reason.
