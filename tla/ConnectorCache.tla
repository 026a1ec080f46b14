--------------------------- MODULE ConnectorCache ---------------------------
(***************************************************************************)
(* The connector cache of autoschematic-core: one slot per (prefix,        *)
(* connector shortname), shared by every request of a server, a CLI run or *)
(* a language server.  Callers look a connector up, spawn it when the slot *)
(* is vacant, initialise it when asked to, and cache the answers of its    *)
(* filter() call.  The three maps (cache, initStatus, filterCache) are     *)
(* separate concurrent maps: each access is atomic, nothing spans two of   *)
(* them, and every await lets the other callers run.                       *)
(*                                                                         *)
(* A connector is a child process behind a reference-counted handle: when  *)
(* the last handle goes (slot overwritten or cleared, caller returns) its  *)
(* destructor kills the process.                                           *)
(***************************************************************************)
EXTENDS Naturals

CONSTANTS
  Keys,      \* the (prefix, shortname) slots
  Callers,   \* tasks that use the cache concurrently
  MaxConn    \* bound on the number of processes spawned in a behaviour

ASSUME KeysAssumption == Keys # {}
ASSUME MaxConnAssumption == MaxConn \in Nat \ {0}

VARIABLES
  cache,       \* slot -> the cached connector, or NoConn
  initStatus,  \* slot -> the recorded InitStatus, or "Absent"
  filterCache, \* slot -> the connector whose filter(addr) answer is cached, for
               \* one address, or NoConn
  life,        \* connector -> the state of its process
  keyOf,       \* connector -> the slot it was spawned for
  pc,          \* caller -> the await or map access it is about to perform
  key,         \* caller -> the slot its call is about
  wantInit,    \* caller -> do_init
  conn,        \* caller -> the handle it holds, or NoConn
  fresh,       \* caller -> it spawned conn and has not published it yet
  initOk,      \* caller -> outcome of the init() it awaited
  doomed,      \* caller -> the connectors whose kill tasks its clear() awaits
  overlapped,  \* history: slot -> a spawn began on an outdated lookup (Overlaps)
  abandoned,   \* history: slot -> its connector was killed by a clear() given up
  spoilt       \* history: connector -> an init() of it failed or was given up

history == <<overlapped, abandoned, spoilt>>
vars == <<cache, initStatus, filterCache, life, keyOf, pc, key, wantInit, conn,
          fresh, initOk, doomed, history>>

Conns == 1 .. MaxConn
NoConn == 0

(* InitStatus, plus the absence of an entry *)
Status == {"Absent", "Offline", "Spawning", "Initializing", "Error", "Running"}

(* "none": not spawned; "up": running, init() has not succeeded; "ready":   *)
(* init() has succeeded; "crashed": died by itself; "killed": killed by     *)
(* clear() or by the destructor of its last handle.                         *)
Life == {"none", "up", "ready", "crashed", "killed"}
Answering == {"up", "ready"}

PC == {"idle", "decide", "markSpawn", "spawn", "check", "mark", "init", "settle",
       "publish", "held", "fGet", "fCall", "fPut", "reInit", "kill", "sweepFilters"}

(* A get_or_spawn_connector call between its lookup and its return *)
Getting == {"decide", "spawn", "check", "mark", "init", "settle", "publish"}

(* Where a caller holds a handle, and where that handle may be its own      *)
(* unpublished spawn.                                                       *)
Holding == {"decide", "check", "mark", "init", "settle", "publish", "held",
            "fCall", "fPut", "reInit"}
Spawned == {"check", "mark", "init", "settle", "publish"}

TypeOK ==
  /\ cache \in [Keys -> Conns \cup {NoConn}]
  /\ initStatus \in [Keys -> Status]
  /\ filterCache \in [Keys -> Conns \cup {NoConn}]
  /\ life \in [Conns -> Life]
  /\ keyOf \in [Conns -> Keys]
  /\ pc \in [Callers -> PC]
  /\ key \in [Callers -> Keys]
  /\ wantInit \in [Callers -> BOOLEAN]
  /\ conn \in [Callers -> Conns \cup {NoConn}]
  /\ fresh \in [Callers -> BOOLEAN]
  /\ initOk \in [Callers -> BOOLEAN]
  /\ doomed \in [Callers -> SUBSET Conns]
  /\ overlapped \in [Keys -> BOOLEAN]
  /\ abandoned \in [Keys -> BOOLEAN]
  /\ spoilt \in [Conns -> BOOLEAN]
  /\ \A c \in Callers :
       /\ (conn[c] # NoConn) <=> (pc[c] \in Holding)
       /\ fresh[c] => pc[c] \in Spawned
       /\ doomed[c] # {} => pc[c] = "kill"

AnyKey == CHOOSE k \in Keys : TRUE

Init ==
  /\ cache = [k \in Keys |-> NoConn]
  /\ initStatus = [k \in Keys |-> "Absent"]
  /\ filterCache = [k \in Keys |-> NoConn]
  /\ life = [i \in Conns |-> "none"]
  /\ keyOf = [i \in Conns |-> AnyKey]
  /\ pc = [c \in Callers |-> "idle"]
  /\ key = [c \in Callers |-> AnyKey]
  /\ wantInit = [c \in Callers |-> FALSE]
  /\ conn = [c \in Callers |-> NoConn]
  /\ fresh = [c \in Callers |-> FALSE]
  /\ initOk = [c \in Callers |-> FALSE]
  /\ doomed = [c \in Callers |-> {}]
  /\ overlapped = [k \in Keys |-> FALSE]
  /\ abandoned = [k \in Keys |-> FALSE]
  /\ spoilt = [i \in Conns |-> FALSE]

-----------------------------------------------------------------------------
(* The caller's control and its handle *)
Goto(c, at) == pc' = [pc EXCEPT ![c] = at]
Hold(c, i) == conn' = [conn EXCEPT ![c] = i]

(* Destructors: a running process that no slot of ca, no handle of co and   *)
(* no kill task of do refers to is killed.                                  *)
Referenced(i, ca, co, do) ==
  \/ \E k \in Keys : ca[k] = i
  \/ \E c \in Callers : co[c] = i \/ i \in do[c]
Dropped(l, ca, co, do) ==
  [i \in Conns |-> IF l[i] \in {"up", "ready", "crashed"} /\ ~Referenced(i, ca, co, do)
                   THEN "killed" ELSE l[i]]

(* The call returns: its locals, the handle among them, go out of scope. *)
EndCall(c) ==
  /\ Goto(c, "idle")
  /\ Hold(c, NoConn)
  /\ key' = [key EXCEPT ![c] = AnyKey]
  /\ wantInit' = [wantInit EXCEPT ![c] = FALSE]
Leave(c) ==
  /\ EndCall(c)
  /\ fresh' = [fresh EXCEPT ![c] = FALSE]
  /\ life' = Dropped(life, cache, [conn EXCEPT ![c] = NoConn], doomed)

UnchangedMaps == UNCHANGED <<cache, initStatus, filterCache>>
UnchangedCall == UNCHANGED <<key, wantInit>>

(* init_connector keeps its guard on the slot across the awaits, so a write  *)
(* to the slot waits for it.                                                 *)
Guarded(k) == \E c \in Callers : pc[c] = "reInit" /\ key[c] = k

-----------------------------------------------------------------------------
(* get_or_spawn_connector, the slot is occupied *)

GetCached(c, k, w) ==
  /\ pc[c] = "idle"
  /\ cache[k] # NoConn
  /\ Goto(c, "decide")
  /\ Hold(c, cache[k])
  /\ key' = [key EXCEPT ![c] = k]
  /\ wantInit' = [wantInit EXCEPT ![c] = w]
  /\ UnchangedMaps
  /\ UNCHANGED <<life, keyOf, fresh, initOk, history, doomed>>

(* Mutant: a status of Spawning counts as an initialisation under way. *)
NeedInitUnlessSpawning(status) == status \notin {"Spawning", "Initializing", "Running"}

NeedInit(status) == status \notin {"Initializing", "Running"}

Decide(c) ==
  LET k == key[c] IN
  /\ pc[c] = "decide"
  /\ initStatus' = [initStatus EXCEPT ![k] = IF @ = "Absent" THEN "Offline" ELSE @]
  /\ Goto(c, IF wantInit[c] /\ NeedInit(initStatus[k]) THEN "mark" ELSE "held")
  /\ UnchangedCall
  /\ UNCHANGED <<cache, filterCache, life, keyOf, conn, fresh, initOk, history, doomed>>

-----------------------------------------------------------------------------
(* get_or_spawn_connector, the slot is vacant *)

GetVacant(c, k, w) ==
  /\ pc[c] = "idle"
  /\ cache[k] = NoConn
  /\ Goto(c, "markSpawn")
  /\ key' = [key EXCEPT ![c] = k]
  /\ wantInit' = [wantInit EXCEPT ![c] = w]
  /\ UnchangedMaps
  /\ UNCHANGED <<life, keyOf, conn, fresh, initOk, history, doomed>>

(* The spawn begins on a lookup that no longer holds: another call is under *)
(* way on the slot, or has filled it since.                                 *)
Overlaps(c, k) ==
  \/ cache[k] # NoConn
  \/ \E d \in Callers \ {c} : pc[d] \in Getting /\ key[d] = k

MarkSpawning(c) ==
  LET k == key[c] IN
  /\ pc[c] = "markSpawn"
  /\ initStatus' = [initStatus EXCEPT ![k] = "Spawning"]
  /\ overlapped' = [overlapped EXCEPT ![k] = @ \/ Overlaps(c, k)]
  /\ Goto(c, "spawn")
  /\ UnchangedCall
  /\ UNCHANGED <<cache, filterCache, life, keyOf, conn, fresh, initOk, doomed,
                 abandoned, spoilt>>

(* spawn_connector started the process i and its socket came up. *)
SpawnOk(c, i) ==
  /\ pc[c] = "spawn"
  /\ life[i] = "none"
  /\ life' = [life EXCEPT ![i] = "up"]
  /\ keyOf' = [keyOf EXCEPT ![i] = key[c]]
  /\ Hold(c, i)
  /\ fresh' = [fresh EXCEPT ![c] = TRUE]
  /\ Goto(c, "check")
  /\ UnchangedMaps /\ UnchangedCall
  /\ UNCHANGED <<initOk, history, doomed>>

(* An early return: the status entry keeps saying Spawning. *)
SpawnFailed(c) ==
  /\ pc[c] = "spawn"
  /\ Leave(c)
  /\ UnchangedMaps
  /\ UNCHANGED <<keyOf, initOk, history, doomed>>

VersionMatches(c) ==
  /\ pc[c] = "check"
  /\ Goto(c, IF wantInit[c] THEN "mark" ELSE "publish")
  /\ UnchangedMaps /\ UnchangedCall
  /\ UNCHANGED <<life, keyOf, conn, fresh, initOk, history, doomed>>

(* Mutant: the early return forgets the process instead of dropping it. *)
VersionMismatchLeaks(c) ==
  /\ pc[c] = "check"
  /\ EndCall(c)
  /\ fresh' = [fresh EXCEPT ![c] = FALSE]
  /\ UnchangedMaps
  /\ UNCHANGED <<life, keyOf, initOk, history, doomed>>

VersionMismatch(c) ==
  /\ pc[c] = "check"
  /\ Leave(c)
  /\ UnchangedMaps
  /\ UNCHANGED <<keyOf, initOk, history, doomed>>

(* Mutant: the caller publishes and still takes the connector for its own. *)
PublishKeepsFresh(c) ==
  LET k == key[c] IN
  /\ pc[c] = "publish"
  /\ ~Guarded(k)
  /\ cache' = [cache EXCEPT ![k] = conn[c]]
  /\ abandoned' = [abandoned EXCEPT ![k] = FALSE]
  /\ life' = Dropped(life, [cache EXCEPT ![k] = conn[c]], conn, doomed)
  /\ Goto(c, "held")
  /\ UnchangedCall
  /\ UNCHANGED <<initStatus, filterCache, keyOf, conn, fresh, initOk, overlapped,
                 spoilt, doomed>>

(* The slot is written without looking at what it holds by now. *)
Publish(c) ==
  LET k == key[c] IN
  /\ pc[c] = "publish"
  /\ ~Guarded(k)
  /\ cache' = [cache EXCEPT ![k] = conn[c]]
  /\ abandoned' = [abandoned EXCEPT ![k] = FALSE]
  /\ life' = Dropped(life, [cache EXCEPT ![k] = conn[c]], conn, doomed)
  /\ fresh' = [fresh EXCEPT ![c] = FALSE]
  /\ Goto(c, "held")
  /\ UnchangedCall
  /\ UNCHANGED <<initStatus, filterCache, keyOf, conn, initOk, overlapped, spoilt,
                 doomed>>

-----------------------------------------------------------------------------
(* Initialisation, the same on both paths *)

MarkInitializing(c) ==
  /\ pc[c] = "mark"
  /\ initStatus' = [initStatus EXCEPT ![key[c]] = "Initializing"]
  /\ Goto(c, "init")
  /\ UnchangedCall
  /\ UNCHANGED <<cache, filterCache, life, keyOf, conn, fresh, initOk, history, doomed>>

InitSucceeds(c) ==
  /\ pc[c] = "init"
  /\ life[conn[c]] \in Answering
  /\ life' = [life EXCEPT ![conn[c]] = "ready"]
  /\ initOk' = [initOk EXCEPT ![c] = TRUE]
  /\ Goto(c, "settle")
  /\ UnchangedMaps /\ UnchangedCall
  /\ UNCHANGED <<keyOf, conn, fresh, history, doomed>>

InitFails(c) ==
  /\ pc[c] = "init"
  /\ initOk' = [initOk EXCEPT ![c] = FALSE]
  /\ spoilt' = [spoilt EXCEPT ![conn[c]] = TRUE]
  /\ Goto(c, "settle")
  /\ UnchangedMaps /\ UnchangedCall
  /\ UNCHANGED <<life, keyOf, conn, fresh, overlapped, abandoned, doomed>>

(* The call is dropped while it awaits init() (the language server cancels  *)
(* its request): the status stays Initializing with nobody left to settle   *)
(* it, whether the connector finishes its init() (ok) or not.  At the other *)
(* awaits a dropped call is one whose await failed: SpawnFailed,            *)
(* VersionMismatch, ReInitReturns, FilterFailed, Release.                   *)
InitDropped(c, ok) ==
  LET i == conn[c]
      after == IF ok THEN [life EXCEPT ![i] = "ready"] ELSE life
  IN
  /\ pc[c] = "init"
  /\ ok => life[i] \in Answering
  /\ spoilt' = [spoilt EXCEPT ![i] = TRUE]
  /\ EndCall(c)
  /\ fresh' = [fresh EXCEPT ![c] = FALSE]
  /\ life' = Dropped(after, cache, [conn EXCEPT ![c] = NoConn], doomed)
  /\ UnchangedMaps
  /\ UNCHANGED <<keyOf, initOk, overlapped, abandoned, doomed>>

(* Mutant: a failed init() is recorded as Running. *)
SettleRunning(c) ==
  /\ pc[c] = "settle"
  /\ initStatus' = [initStatus EXCEPT ![key[c]] = "Running"]
  /\ initOk' = [initOk EXCEPT ![c] = FALSE]
  /\ Goto(c, IF fresh[c] THEN "publish" ELSE "held")
  /\ UnchangedCall
  /\ UNCHANGED <<cache, filterCache, life, keyOf, conn, fresh, history, doomed>>

(* A failed init() is recorded, not returned: the caller gets the handle.   *)
Settle(c) ==
  /\ pc[c] = "settle"
  /\ initStatus' = [initStatus EXCEPT ![key[c]] = IF initOk[c] THEN "Running" ELSE "Error"]
  /\ initOk' = [initOk EXCEPT ![c] = FALSE]
  /\ Goto(c, IF fresh[c] THEN "publish" ELSE "held")
  /\ UnchangedCall
  /\ UNCHANGED <<cache, filterCache, life, keyOf, conn, fresh, history, doomed>>

-----------------------------------------------------------------------------
(* get_connector: the cached connector, initialised or not *)
GetConnector(c, k) ==
  /\ pc[c] = "idle"
  /\ cache[k] # NoConn
  /\ Goto(c, "held")
  /\ Hold(c, cache[k])
  /\ key' = [key EXCEPT ![c] = k]
  /\ wantInit' = [wantInit EXCEPT ![c] = FALSE]
  /\ UnchangedMaps
  /\ UNCHANGED <<life, keyOf, fresh, initOk, history, doomed>>

(* The caller is done with the connector. *)
Release(c) ==
  /\ pc[c] = "held"
  /\ Leave(c)
  /\ UnchangedMaps
  /\ UNCHANGED <<keyOf, initOk, history, doomed>>

-----------------------------------------------------------------------------
(* init_connector: clears the cached answers, then initialises the cached   *)
(* connector under the guard of its slot; initStatus is not touched.        *)

InitConnector(c, k) ==
  /\ pc[c] = "idle"
  /\ cache[k] # NoConn
  /\ filterCache' = [filterCache EXCEPT ![k] = NoConn]
  /\ Goto(c, "reInit")
  /\ Hold(c, cache[k])
  /\ key' = [key EXCEPT ![c] = k]
  /\ UNCHANGED <<cache, initStatus, life, keyOf, wantInit, fresh, initOk, history,
                 doomed>>

ReInitReturns(c, ok) ==
  LET i == conn[c]
      after == IF ok THEN [life EXCEPT ![i] = "ready"] ELSE life
  IN
  /\ pc[c] = "reInit"
  /\ ok => life[i] \in Answering
  /\ EndCall(c)
  /\ life' = Dropped(after, cache, [conn EXCEPT ![c] = NoConn], doomed)
  /\ UnchangedMaps
  /\ UNCHANGED <<keyOf, fresh, initOk, history, doomed>>

-----------------------------------------------------------------------------
(* filter_cached.  A hit changes nothing and is not a step. *)

FilterMiss(c, k) ==
  /\ pc[c] = "idle"
  /\ filterCache[k] = NoConn
  /\ Goto(c, "fGet")
  /\ key' = [key EXCEPT ![c] = k]
  /\ UnchangedMaps
  /\ UNCHANGED <<life, keyOf, wantInit, conn, fresh, initOk, history, doomed>>

FilterGetConnector(c) ==
  /\ pc[c] = "fGet"
  /\ cache[key[c]] # NoConn
  /\ Goto(c, "fCall")
  /\ Hold(c, cache[key[c]])
  /\ UnchangedMaps /\ UnchangedCall
  /\ UNCHANGED <<life, keyOf, fresh, initOk, history, doomed>>

(* A vacant slot answers none() and caches nothing. *)
FilterNoConnector(c) ==
  /\ pc[c] = "fGet"
  /\ cache[key[c]] = NoConn
  /\ EndCall(c)
  /\ UnchangedMaps
  /\ UNCHANGED <<life, keyOf, fresh, initOk, history, doomed>>

FilterAnswered(c) ==
  /\ pc[c] = "fCall"
  /\ life[conn[c]] \in Answering
  /\ Goto(c, "fPut")
  /\ UnchangedMaps /\ UnchangedCall
  /\ UNCHANGED <<life, keyOf, conn, fresh, initOk, history, doomed>>

FilterFailed(c) ==
  /\ pc[c] = "fCall"
  /\ Leave(c)
  /\ UnchangedMaps
  /\ UNCHANGED <<keyOf, initOk, history, doomed>>

FilterStore(c) ==
  /\ pc[c] = "fPut"
  /\ filterCache' = [filterCache EXCEPT ![key[c]] = conn[c]]
  /\ Leave(c)
  /\ UNCHANGED <<cache, initStatus, keyOf, initOk, history, doomed>>

-----------------------------------------------------------------------------
(* clear: one kill task per cached connector, each holding its handle; when *)
(* all are done the two maps are emptied one after the other.  initStatus   *)
(* keeps its entries.                                                       *)

InSlots == {cache[k] : k \in Keys} \ {NoConn}

ClearBegin(c) ==
  /\ pc[c] = "idle"
  /\ doomed' = [doomed EXCEPT ![c] = InSlots]
  /\ Goto(c, "kill")
  /\ UnchangedMaps /\ UnchangedCall
  /\ UNCHANGED <<life, keyOf, conn, fresh, initOk, history>>

(* One of the tasks runs, and drops its handle. *)
Kill(c, i) ==
  /\ i \in doomed[c]
  /\ life' = [life EXCEPT ![i] = "killed"]
  /\ doomed' = [doomed EXCEPT ![c] = @ \ {i}]
  /\ UnchangedMaps /\ UnchangedCall
  /\ UNCHANGED <<keyOf, pc, conn, fresh, initOk, history>>

(* The call is dropped while it awaits the tasks, which are aborted: what   *)
(* has been killed by then stays in its slot.                               *)
ClearDropped(c) ==
  LET left == [doomed EXCEPT ![c] = {}] IN
  /\ pc[c] = "kill"
  /\ doomed' = left
  /\ life' = Dropped(life, cache, conn, left)
  /\ abandoned' = [k \in Keys |->
       abandoned[k] \/ (cache[k] # NoConn /\ life[cache[k]] = "killed")]
  /\ Goto(c, "idle")
  /\ UnchangedMaps /\ UnchangedCall
  /\ UNCHANGED <<keyOf, conn, fresh, initOk, overlapped, spoilt>>

(* Mutant: the slots are left as they are. *)
ClearFiltersOnly(c) ==
  /\ pc[c] = "kill"
  /\ doomed[c] = {}
  /\ \A k \in Keys : ~Guarded(k)
  /\ Goto(c, "sweepFilters")
  /\ UnchangedMaps /\ UnchangedCall
  /\ UNCHANGED <<life, keyOf, conn, fresh, initOk, history, doomed>>

ClearSlots(c) ==
  /\ pc[c] = "kill"
  /\ doomed[c] = {}
  /\ \A k \in Keys : ~Guarded(k)
  /\ cache' = [k \in Keys |-> NoConn]
  /\ abandoned' = [k \in Keys |-> FALSE]
  /\ life' = Dropped(life, [k \in Keys |-> NoConn], conn, doomed)
  /\ Goto(c, "sweepFilters")
  /\ UnchangedCall
  /\ UNCHANGED <<initStatus, filterCache, keyOf, conn, fresh, initOk, overlapped,
                 spoilt, doomed>>

ClearFilters(c) ==
  /\ pc[c] = "sweepFilters"
  /\ filterCache' = [k \in Keys |-> NoConn]
  /\ Goto(c, "idle")
  /\ UnchangedCall
  /\ UNCHANGED <<cache, initStatus, life, keyOf, conn, fresh, initOk, history, doomed>>

-----------------------------------------------------------------------------
(* A connector process dies by itself: nothing in the cache notices. *)
Crash(i) ==
  /\ life[i] \in Answering
  /\ life' = [life EXCEPT ![i] = "crashed"]
  /\ UNCHANGED <<cache, initStatus, filterCache, keyOf, pc, key, wantInit, conn,
                 fresh, initOk, history, doomed>>

Call(c) ==
  \E k \in Keys :
    \/ \E w \in BOOLEAN : GetCached(c, k, w) \/ GetVacant(c, k, w)
    \/ GetConnector(c, k)
    \/ InitConnector(c, k)
    \/ FilterMiss(c, k)

Continue(c) ==
  \/ Decide(c)
  \/ MarkSpawning(c)
  \/ \E i \in Conns : SpawnOk(c, i)
  \/ SpawnFailed(c)
  \/ VersionMatches(c) \/ VersionMismatch(c)
  \/ Publish(c)
  \/ MarkInitializing(c)
  \/ InitSucceeds(c) \/ InitFails(c)
  \/ \E ok \in BOOLEAN : InitDropped(c, ok)
  \/ Settle(c)
  \/ Release(c)
  \/ \E ok \in BOOLEAN : ReInitReturns(c, ok)
  \/ FilterGetConnector(c) \/ FilterNoConnector(c)
  \/ FilterAnswered(c) \/ FilterFailed(c)
  \/ FilterStore(c)

Clear(c) ==
  \/ ClearBegin(c) \/ ClearDropped(c)
  \/ \E i \in Conns : Kill(c, i)
  \/ ClearSlots(c) \/ ClearFilters(c)

Next ==
  \/ \E c \in Callers : Call(c) \/ Continue(c) \/ Clear(c)
  \/ \E i \in Conns : Crash(i)

Spec == Init /\ [][Next]_vars

-----------------------------------------------------------------------------
(* Whatever the interleaving, a running connector process is reachable: it  *)
(* is cached in the slot it was spawned for, held by a call about that slot *)
(* or about to be killed by a clear().  So a connector spawned twice by     *)
(* racing lookups does not outlive the callers, wherever they fail or are   *)
(* dropped, and no caller is handed another prefix's connector.             *)
LiveIsReachable ==
  \A i \in Conns : life[i] \in Answering =>
    \/ cache[keyOf[i]] = i
    \/ \E c \in Callers : (conn[c] = i /\ key[c] = keyOf[i]) \/ i \in doomed[c]

(* A connector that clear() killed is in a slot, where lookups find it,     *)
(* only while a clear() is under way or because a clear() that killed it    *)
(* was dropped before it emptied the slots; the next completed clear() or   *)
(* spawn on the slot ends that too.                                         *)
KilledLeavesCache ==
  \A k \in Keys : cache[k] # NoConn /\ life[cache[k]] = "killed" =>
    abandoned[k] \/ \E c \in Callers : pc[c] = "kill"

(* As long as no spawn of a slot began while another call on it was under   *)
(* way, or after another call had filled it, the recorded status can be     *)
(* believed: Running is never recorded over a cached connector whose init() *)
(* has not succeeded.                                                       *)
TruthfulStatus ==
  \A k \in Keys :
    ~overlapped[k] /\ initStatus[k] = "Running" /\ cache[k] # NoConn
      => life[cache[k]] # "up"

(* Under the same condition, a caller that asked for initialisation and     *)
(* holds the slot's connector finds it uninitialised only if an init() of   *)
(* that very connector failed or was given up, or another caller is in the  *)
(* middle of one.                                                           *)
InitOnDemand ==
  \A c \in Callers :
    LET k == key[c] IN
    (/\ ~overlapped[k] /\ pc[c] = "held" /\ wantInit[c]
     /\ cache[k] = conn[c] /\ life[conn[c]] = "up")
      => spoilt[conn[c]] \/ \E d \in Callers : pc[d] = "init" /\ conn[d] = conn[c]

-----------------------------------------------------------------------------
(* The inductive invariant behind the theorems of ConnectorCache_proofs.    *)

(* Handles are of spawned connectors, of the slot they are used for. *)
Coherent ==
  /\ \A k \in Keys : cache[k] # NoConn =>
       keyOf[cache[k]] = k /\ life[cache[k]] # "none"
  /\ \A c \in Callers : conn[c] # NoConn =>
       keyOf[conn[c]] = key[c] /\ life[conn[c]] # "none"
  /\ \A c \in Callers : \A i \in doomed[c] : life[i] # "none"

(* What is published is fresh, and an unpublished connector is known to its *)
(* spawner only, so no clear() has killed it.                               *)
FreshIsPrivate ==
  \A c \in Callers :
    /\ pc[c] \in {"check", "publish"} => fresh[c]
    /\ fresh[c] =>
         /\ life[conn[c]] # "killed"
         /\ \A k \in Keys : cache[k] # conn[c]
         /\ \A d \in Callers : (conn[d] = conn[c] => d = c) /\ conn[c] \notin doomed[d]

(* A caller between MarkSpawning and Publish. *)
Spawning(c) == pc[c] = "spawn" \/ fresh[c]

(* A spawn that did not overlap has the slot, vacant, to itself; a call on   *)
(* the cached path works on the connector in the slot, or on a cleared one. *)
SpawnsAlone ==
  \A c \in Callers : pc[c] \in Getting /\ ~overlapped[key[c]] =>
    IF Spawning(c)
    THEN /\ cache[key[c]] = NoConn
         /\ \A d \in Callers : pc[d] \in Getting /\ key[d] = key[c] => d = c
    ELSE cache[key[c]] \in {NoConn, conn[c]}

(* What the status says of a spawn in progress. *)
SpawnStatus ==
  \A c \in Callers : Spawning(c) /\ ~overlapped[key[c]] =>
    LET status == initStatus[key[c]] IN
    /\ pc[c] \in {"spawn", "check"} => status = "Spawning"
    /\ pc[c] \in {"mark", "init", "settle"} => wantInit[c]
    /\ pc[c] = "publish" /\ ~wantInit[c] => status = "Spawning"
    /\ pc[c] = "publish" /\ wantInit[c] =>
         \/ status = "Error" /\ spoilt[conn[c]]
         \/ status = "Running" /\ life[conn[c]] # "up"

(* The outcome of an init() that has returned. *)
InitOutcome ==
  \A c \in Callers :
    /\ initOk[c] => pc[c] = "settle" /\ life[conn[c]] # "up"
    /\ pc[c] = "settle" /\ ~initOk[c] => spoilt[conn[c]]

(* Why a status that makes a lookup skip init() stands over an uninitialised *)
(* connector, and why a failure is recorded.                                 *)
StatusExplained ==
  \A k \in Keys :
    (/\ ~overlapped[k] /\ cache[k] # NoConn /\ life[cache[k]] = "up"
     /\ initStatus[k] \in {"Initializing", "Error"})
      => spoilt[cache[k]] \/ \E d \in Callers : pc[d] = "init" /\ conn[d] = cache[k]

IInv ==
  /\ TypeOK
  /\ Coherent
  /\ LiveIsReachable
  /\ FreshIsPrivate
  /\ KilledLeavesCache
  /\ SpawnsAlone
  /\ SpawnStatus
  /\ InitOutcome
  /\ StatusExplained
  /\ TruthfulStatus
  /\ InitOnDemand
=============================================================================
