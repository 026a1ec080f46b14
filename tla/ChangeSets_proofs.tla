-------------------------- MODULE ChangeSets_proofs --------------------------
(***************************************************************************)
(* ChangeSets: the invariants of the runs, for any number of webhooks,     *)
(* objects, commits and ChangeSets.                                        *)
(*                                                                         *)
(* They are inductive together.  A command owns the ChangeSet whose mutex  *)
(* it holds, so the steps between TryLock and Return disturb no other      *)
(* command (LocalStep), and a ChangeSet that is replaced or forgotten is   *)
(* one that nobody uses.  What NoReplay lacks is what holds between two    *)
(* applies: a stored plan is untouched, or marked applied, or its apply    *)
(* broke off (Fresh).  What OutputsReachGitHub lacks is where the outputs  *)
(* are before apply returns: pushed, refused, or still to be committed     *)
(* (Landed).                                                               *)
(*                                                                         *)
(* The second part is what the commands promise about their plans          *)
(* (StoredPlans): every step is one of the promise or none.  It needs that *)
(* a ChangeSet nobody uses is blank, that the cache is empty while one is  *)
(* built, and that what an apply has still to execute is of the stored     *)
(* plan, which is not marked applied (Books).                              *)
(*                                                                         *)
(* The third part is about what one such command may do (Approvals): its   *)
(* types, and that it does no more than the grants of its user mean (which *)
(* is less than their documentation asks: see ApprovedByAnother).  That is *)
(* not inductive by itself: that a decision was right when it was made     *)
(* follows from what the command read, and what it read was there after it *)
(* had begun (Recent).  The decisions are compared with the meaning of the *)
(* grants by two lemmas about the operators alone.                         *)
(***************************************************************************)
EXTENDS ChangeSets, Approvals, SequenceTheorems, TLAPS

(* The ChangeSet of a command is of the head it fetched from the lookup on. *)
AtSeenHead ==
  \A h \in Handlers : task[h].cs # None => set[task[h].cs].sha = task[h].seen

FreshFor(t, c) == c.applied \/ c.aborted \/ c.ran = {} \/ t.pc = "apply"
ReplayFor(t, c) == t.pc = "apply" => c.aborted \/ t.todo \cap c.ran = {}
LandedFor(t) ==
  /\ t.home \subseteq t.pushed \cup t.refused \cup t.wrote
  /\ t.ok => t.pc = "report" /\ t.wrote = {}

(* Between two applies a plan is untouched, applied, or was broken off. *)
Fresh ==
  \A s \in Sets :
    \/ set[s].applied \/ set[s].aborted \/ set[s].ran = {}
    \/ \E h \in Handlers : task[h].pc = "apply" /\ task[h].cs = s

(* Outputs that are not sent yet are still to be committed. *)
Landed == \A h \in Handlers : LandedFor(task[h])

IInv ==
  /\ TypeOK
  /\ LockIsHeldByACommand
  /\ AtSeenHead
  /\ Fresh
  /\ NoReplay
  /\ Landed

-----------------------------------------------------------------------------
LEMMA Bounds ==
  /\ None \notin Sets
  /\ None \in Nat
  /\ Sets \subseteq Dirs
  /\ Start \in Dirs
  /\ Gone \in Dirs
  /\ 1 \in Heads
  /\ \A i \in Heads : i < MaxHead => i + 1 \in Heads
BY MaxHeadAssumption, MaxSetsAssumption DEF None, Sets, Dirs, Start, Gone, Heads

LEMMA Blank == NoChangeset \in Changeset /\ Idle \in Task
BY Bounds DEF NoChangeset, Changeset, Idle, Task, PC, Commands

LEMMA IdleFields ==
  /\ Idle.pc = "idle" /\ Idle.cs = None /\ ~Idle.inside /\ ~Idle.ok
  /\ Idle.home = {} /\ Idle.pushed = {} /\ Idle.refused = {} /\ Idle.wrote = {}
BY DEF Idle

LEMMA BlankFields ==
  /\ NoChangeset.holder = Nobody /\ NoChangeset.ran = {} /\ NoChangeset.sha = None
BY DEF NoChangeset

(* The initial state has no command and no ChangeSet. *)
LEMMA InvInit == Init => IInv
<1> SUFFICES ASSUME Init PROVE IInv
  OBVIOUS
<1>1. task \in [Handlers -> Task] /\ set \in [Sets -> Changeset]
  BY Blank DEF Init
<1>2. \A h \in Handlers : task[h] = Idle
  BY DEF Init
<1>3. \A s \in Sets : set[s] = NoChangeset
  BY DEF Init
<1>4. TypeOK
  BY <1>1, <1>2, IdleFields, Bounds, NobodyAssumption DEF Init, TypeOK, Locking
<1>5. LockIsHeldByACommand
  BY <1>2, <1>3, IdleFields, BlankFields, NobodyAssumption
     DEF LockIsHeldByACommand, Locking
<1>6. AtSeenHead /\ NoReplay /\ Landed
  BY <1>2, IdleFields DEF AtSeenHead, NoReplay, Landed, LandedFor
<1>7. Fresh
  BY <1>3, BlankFields DEF Fresh
<1> QED
  BY <1>4, <1>5, <1>6, <1>7 DEF IInv

-----------------------------------------------------------------------------
(* What the invariant says of one command that holds its ChangeSet.        *)
LEMMA Owner ==
  ASSUME IInv, NEW h \in Handlers, task[h].pc \in Locking
  PROVE  /\ task[h] \in Task
         /\ task[h].cs \in Sets
         /\ set[task[h].cs] \in Changeset
         /\ set[task[h].cs].holder = h
         /\ FreshFor(task[h], set[task[h].cs])
         /\ ReplayFor(task[h], set[task[h].cs])
         /\ LandedFor(task[h])
         /\ \A k \in Handlers \ {h} : task[k].pc \in Locking => task[k].cs # task[h].cs
<1>1. task[h] \in Task
  BY DEF IInv, TypeOK
<1>2. task[h].cs \in Sets
  BY <1>1 DEF IInv, TypeOK, Task
<1>3. set[task[h].cs] \in Changeset
  BY <1>2 DEF IInv, TypeOK
<1>4. set[task[h].cs].holder = h
  BY <1>2 DEF IInv, LockIsHeldByACommand
<1>5. \A k \in Handlers \ {h} : task[k].pc \in Locking => task[k].cs # task[h].cs
  BY <1>2, <1>4 DEF IInv, LockIsHeldByACommand
<1>6. FreshFor(task[h], set[task[h].cs])
  BY <1>2, <1>5 DEF IInv, Fresh, FreshFor, Locking
<1>7. ReplayFor(task[h], set[task[h].cs]) /\ LandedFor(task[h])
  BY DEF IInv, NoReplay, ReplayFor, Landed
<1> QED
  BY <1>1, <1>2, <1>3, <1>4, <1>5, <1>6, <1>7

(* A step of a command that keeps its ChangeSet and its lock touches no    *)
(* other command: what remains to be shown is about its own two records.   *)
LEMMA LocalStep ==
  ASSUME IInv, NEW h \in Handlers, task[h].pc \in Locking,
         NEW t \in Task, task' = [task EXCEPT ![h] = t],
         t.pc \in Locking, t.cs = task[h].cs, t.seen = task[h].seen,
         t.inside => t.pc \in Chwd,
         NEW c \in Changeset, set' = [set EXCEPT ![task[h].cs] = c],
         c.sha = set[task[h].cs].sha, c.holder = set[task[h].cs].holder,
         FreshFor(t, c), ReplayFor(t, c), LandedFor(t),
         head' \in Heads, cwd' \in Dirs, UNCHANGED <<cached, cacheLock>>
  PROVE  IInv'
<1>0. /\ task \in [Handlers -> Task] /\ set \in [Sets -> Changeset]
      /\ task[h].cs \in Sets
      /\ \A k \in Handlers \ {h} : task[k].pc \in Locking => task[k].cs # task[h].cs
  BY Owner DEF IInv, TypeOK
<1>1. /\ task' \in [Handlers -> Task] /\ set' \in [Sets -> Changeset]
      /\ task'[h] = t
      /\ \A k \in Handlers \ {h} : task'[k] = task[k]
      /\ set'[task[h].cs] = c
      /\ \A s \in Sets \ {task[h].cs} : set'[s] = set[s]
  BY <1>0
<1>2. task[h].pc # "build" /\ t.pc # "build" /\ task[h].pc # "lock"
  BY DEF Locking
<1>3. TypeOK'
  <2>1. \A k \in Handlers :
          /\ cacheLock' = k <=> task'[k].pc = "build"
          /\ task'[k].cs # None <=> task'[k].pc \in Locking \cup {"lock"}
          /\ task'[k].inside => task'[k].pc \in Chwd
    BY <1>1, <1>2 DEF IInv, TypeOK
  <2> QED
    BY <1>1, <2>1 DEF IInv, TypeOK
<1>4. LockIsHeldByACommand'
  BY <1>0, <1>1 DEF IInv, LockIsHeldByACommand
<1>5. AtSeenHead'
  <2>1. ASSUME NEW k \in Handlers, task'[k].cs # None
        PROVE  set'[task'[k].cs].sha = task'[k].seen
    <3>1. task'[k].cs = task[k].cs /\ task'[k].seen = task[k].seen
      BY <1>1
    <3>2. task[k].cs \in Sets
      BY <1>0, <2>1, <3>1 DEF Task
    <3>3. set'[task[k].cs].sha = set[task[k].cs].sha
      BY <1>1, <3>2
    <3> QED
      BY <2>1, <3>1, <3>3 DEF IInv, AtSeenHead
  <2> QED
    BY <2>1 DEF AtSeenHead
<1>6. Fresh'
  <2>1. FreshFor(t, c) => \/ c.applied \/ c.aborted \/ c.ran = {}
                          \/ t.pc = "apply" /\ t.cs = task[h].cs
    BY DEF FreshFor
  <2>2. ASSUME NEW s \in Sets \ {task[h].cs}
        PROVE  \/ set'[s].applied \/ set'[s].aborted \/ set'[s].ran = {}
               \/ \E k \in Handlers : task'[k].pc = "apply" /\ task'[k].cs = s
    BY <1>1 DEF IInv, Fresh
  <2> QED
    BY <1>0, <1>1, <2>1, <2>2 DEF Fresh
<1>7. NoReplay'
  <2>1. ASSUME NEW k \in Handlers \ {h}, task'[k].pc = "apply"
        PROVE  set'[task'[k].cs] = set[task[k].cs] /\ task'[k] = task[k]
    <3>1. task[k].pc \in Locking
      BY <1>1, <2>1 DEF Locking
    <3>2. task[k].cs \in Sets \ {task[h].cs}
      BY <1>0, <3>1, Owner
    <3> QED
      BY <1>1, <3>2
  <2> QED
    BY <1>1, <2>1 DEF IInv, NoReplay, ReplayFor
<1>8. Landed'
  BY <1>1 DEF IInv, Landed, LandedFor
<1> QED
  BY <1>3, <1>4, <1>5, <1>6, <1>7, <1>8 DEF IInv

-----------------------------------------------------------------------------
(* The end of a ChangeSet: those in use stay as they are.                  *)

Same(t, u) ==
  /\ t.pc = u.pc /\ t.cs = u.cs /\ t.seen = u.seen /\ t.inside = u.inside
  /\ t.todo = u.todo /\ t.wrote = u.wrote
  /\ t.home = u.home /\ t.pushed = u.pushed /\ t.refused = u.refused /\ t.ok = u.ok

LEMMA SettleKeeps ==
  ASSUME NEW se \in [Sets -> Changeset], NEW ca, NEW ta \in [Handlers -> Task],
         cwd \in Dirs, Settle(se, ca, ta)
  PROVE  /\ set' \in [Sets -> Changeset]
         /\ task' \in [Handlers -> Task]
         /\ cwd' \in Dirs
         /\ \A k \in Handlers : Same(task'[k], ta[k])
         /\ \A s \in Sets : \/ set'[s] = se[s]
                            \/ set'[s] = NoChangeset /\ \A k \in Handlers : ta[k].cs # s
<1>1. \A d \in Dirs : Dir(d, ca, ta) \in Dirs
  BY Bounds DEF Dir
<1>2. set' \in [Sets -> Changeset]
  BY Blank DEF Settle
<1>3. \A k \in Handlers : task'[k] = [ta[k] EXCEPT !.prev = Dir(@, ca, ta)]
  BY DEF Settle
<1>4. ASSUME NEW k \in Handlers
      PROVE  task'[k] \in Task /\ Same(task'[k], ta[k])
  <2>1. ta[k] \in Task /\ Dir(ta[k].prev, ca, ta) \in Dirs
    BY <1>1 DEF Task
  <2>2. task'[k] = [ta[k] EXCEPT !.prev = Dir(ta[k].prev, ca, ta)]
    BY <1>3
  <2> QED
    BY <2>1, <2>2 DEF Task, Same
<1>5. task' \in [Handlers -> Task]
  BY <1>4 DEF Settle
<1>6. cwd' \in Dirs
  BY <1>1 DEF Settle
<1>7. \A s \in Sets : \/ set'[s] = se[s]
                      \/ set'[s] = NoChangeset /\ \A k \in Handlers : ta[k].cs # s
  BY DEF Settle, Alive
<1> QED
  BY <1>2, <1>4, <1>5, <1>6, <1>7

(* A command that leaves its ChangeSet, and unlocks it if it holds it,     *)
(* disturbs no other command, whatever this brings to its end.             *)
LEMMA LeavingStep ==
  ASSUME IInv, NEW h \in Handlers, task[h].pc # "apply",
         NEW t \in Task, t.cs = None, t.pc \notin Locking \cup {"lock"},
         ~t.inside, LandedFor(t),
         NEW se, se = IF task[h].cs \in Sets /\ set[task[h].cs].holder = h
                      THEN [set EXCEPT ![task[h].cs].holder = Nobody] ELSE set,
         NEW ca \in Sets \cup {None}, cached' = ca,
         Settle(se, ca, [task EXCEPT ![h] = t]),
         cacheLock' \in Handlers \cup {Nobody},
         cacheLock' = h <=> t.pc = "build",
         \A k \in Handlers \ {h} : cacheLock' = k <=> cacheLock = k,
         UNCHANGED head
  PROVE  IInv'
<1> DEFINE ta == [task EXCEPT ![h] = t]
<1>0. /\ task \in [Handlers -> Task] /\ set \in [Sets -> Changeset] /\ cwd \in Dirs
      /\ \A k \in Handlers : task[k].cs \in Sets \cup {None}
  BY DEF IInv, TypeOK, Task
<1>1. ta \in [Handlers -> Task] /\ ta[h] = t /\ \A k \in Handlers \ {h} : ta[k] = task[k]
  BY <1>0
<1>2. se \in [Sets -> Changeset]
  BY <1>0 DEF Changeset
<1>3. \A s \in Sets :
        /\ se[s].sha = set[s].sha /\ se[s].applied = set[s].applied
        /\ se[s].aborted = set[s].aborted /\ se[s].ran = set[s].ran
        /\ se[s].holder = IF set[s].holder = h THEN Nobody ELSE set[s].holder
  BY <1>0 DEF IInv, LockIsHeldByACommand, Changeset
<1>4. Settle(se, ca, ta)
  OBVIOUS
<1> HIDE DEF ta
<1>5. /\ set' \in [Sets -> Changeset] /\ task' \in [Handlers -> Task] /\ cwd' \in Dirs
      /\ \A k \in Handlers : Same(task'[k], ta[k])
      /\ \A s \in Sets : \/ set'[s] = se[s]
                         \/ set'[s] = NoChangeset /\ \A k \in Handlers : ta[k].cs # s
  BY <1>0, <1>1, <1>2, <1>4, SettleKeeps
<1>6. /\ task'[h].pc = t.pc /\ task'[h].cs = None /\ LandedFor(task'[h])
      /\ ~task'[h].inside
  BY <1>1, <1>5 DEF Same, LandedFor
<1>7. \A k \in Handlers \ {h} : Same(task'[k], task[k])
  BY <1>1, <1>5
<1>8. TypeOK'
  <2>1. \A k \in Handlers :
          /\ cacheLock' = k <=> task'[k].pc = "build"
          /\ task'[k].cs # None <=> task'[k].pc \in Locking \cup {"lock"}
          /\ task'[k].inside => task'[k].pc \in Chwd
    BY <1>6, <1>7 DEF IInv, TypeOK, Same
  <2> QED
    BY <1>5, <2>1 DEF IInv, TypeOK
<1>9. LockIsHeldByACommand'
  <2>1. ASSUME NEW s \in Sets, NEW k \in Handlers
        PROVE  set'[s].holder = k <=> task'[k].pc \in Locking /\ task'[k].cs = s
    <3>1. CASE set'[s] = se[s]
      <4>0. set'[s].holder = IF set[s].holder = h THEN Nobody ELSE set[s].holder
        BY <1>3, <3>1
      <4>1. CASE k = h
        <5>1. set'[s].holder # k
          BY <4>0, <4>1, NobodyAssumption
        <5>2. task'[k].pc \notin Locking
          BY <1>6, <4>1
        <5> QED
          BY <5>1, <5>2
      <4>2. CASE k # h
        <5>1. set'[s].holder = k <=> set[s].holder = k
          BY <4>0, <4>2, NobodyAssumption
        <5>2. set[s].holder = k <=> task[k].pc \in Locking /\ task[k].cs = s
          BY DEF IInv, LockIsHeldByACommand
        <5>3. task'[k].pc = task[k].pc /\ task'[k].cs = task[k].cs
          BY <1>7, <4>2 DEF Same
        <5> QED
          BY <5>1, <5>2, <5>3
      <4> QED
        BY <4>1, <4>2
    <3>2. CASE set'[s] = NoChangeset /\ \A i \in Handlers : ta[i].cs # s
      BY <1>5, <3>2, BlankFields, NobodyAssumption DEF Same
    <3> QED
      BY <1>5, <3>1, <3>2
  <2> QED
    BY <2>1 DEF LockIsHeldByACommand
<1>10. ASSUME NEW k \in Handlers \ {h}, task[k].cs # None
       PROVE  /\ set'[task[k].cs].sha = set[task[k].cs].sha
              /\ set'[task[k].cs].aborted = set[task[k].cs].aborted
              /\ set'[task[k].cs].ran = set[task[k].cs].ran
  <2>1. task[k].cs \in Sets /\ ta[k].cs = task[k].cs
    BY <1>0, <1>1, <1>10
  <2> QED
    BY <1>3, <1>5, <2>1
<1>11. AtSeenHead'
  <2>1. ASSUME NEW k \in Handlers, task'[k].cs # None
        PROVE  set'[task'[k].cs].sha = task'[k].seen
    <3>1. k # h /\ task'[k].cs = task[k].cs /\ task'[k].seen = task[k].seen
      BY <1>6, <1>7, <2>1 DEF Same
    <3>2. set[task[k].cs].sha = task[k].seen
      BY <2>1, <3>1 DEF IInv, AtSeenHead
    <3> QED
      BY <1>10, <2>1, <3>1, <3>2
  <2> QED
    BY <2>1 DEF AtSeenHead
<1>12. Fresh'
  <2>1. ASSUME NEW s \in Sets
        PROVE  \/ set'[s].applied \/ set'[s].aborted \/ set'[s].ran = {}
               \/ \E k \in Handlers : task'[k].pc = "apply" /\ task'[k].cs = s
    <3>1. CASE set'[s] = NoChangeset
      BY <3>1, BlankFields
    <3>2. CASE set'[s] = se[s]
      <4>1. \/ set[s].applied \/ set[s].aborted \/ set[s].ran = {}
            \/ \E k \in Handlers : task[k].pc = "apply" /\ task[k].cs = s
        BY DEF IInv, Fresh
      <4>2. ASSUME NEW k \in Handlers, task[k].pc = "apply", task[k].cs = s
            PROVE  task'[k].pc = "apply" /\ task'[k].cs = s
        BY <1>7, <4>2 DEF Same
      <4>3. /\ set'[s].applied = set[s].applied /\ set'[s].aborted = set[s].aborted
            /\ set'[s].ran = set[s].ran
        BY <1>3, <3>2
      <4> QED
        BY <4>1, <4>2, <4>3
    <3> QED
      BY <1>5, <3>1, <3>2
  <2> QED
    BY <2>1 DEF Fresh
<1>13. NoReplay'
  <2>1. ASSUME NEW k \in Handlers, task'[k].pc = "apply"
        PROVE  set'[task'[k].cs].aborted \/ task'[k].todo \cap set'[task'[k].cs].ran = {}
    <3>1. k # h /\ Same(task'[k], task[k]) /\ task[k].pc = "apply"
      BY <1>6, <1>7, <2>1 DEF Same, Locking
    <3>2. task[k].cs # None
      BY <3>1 DEF IInv, TypeOK, Locking
    <3>3. /\ set'[task[k].cs].aborted = set[task[k].cs].aborted
          /\ set'[task[k].cs].ran = set[task[k].cs].ran
      BY <1>10, <3>1, <3>2
    <3>4. set[task[k].cs].aborted \/ task[k].todo \cap set[task[k].cs].ran = {}
      BY <3>1 DEF IInv, NoReplay
    <3>5. task'[k].cs = task[k].cs /\ task'[k].todo = task[k].todo
      BY <3>1 DEF Same
    <3> QED
      BY <3>3, <3>4, <3>5
  <2> QED
    BY <2>1 DEF NoReplay
<1>14. Landed'
  <2>1. ASSUME NEW k \in Handlers \ {h} PROVE LandedFor(task'[k])
    <3>1. LandedFor(task[k])
      BY DEF IInv, Landed
    <3> QED
      BY <1>7, <3>1 DEF LandedFor, Same
  <2> QED
    BY <1>6, <2>1 DEF Landed
<1> QED
  BY <1>8, <1>9, <1>11, <1>12, <1>13, <1>14 DEF IInv

-----------------------------------------------------------------------------
(* Before a command has its lock.                                          *)

(* A step of a command that has no lock, and gets none, when the ChangeSets *)
(* stay as they are.                                                       *)
LEMMA UnlockedStep ==
  ASSUME IInv, NEW h \in Handlers, task[h].pc \notin Locking,
         NEW t \in Task, task' = [task EXCEPT ![h] = t],
         t.pc \notin Locking \cup {"build"}, t.cs # None <=> t.pc = "lock",
         ~t.inside, LandedFor(t),
         t.cs # None => set'[t.cs].sha = t.seen,
         set' \in [Sets -> Changeset],
         \A s \in Sets : \/ set'[s] = set[s]
                         \/ /\ \A k \in Handlers : task[k].cs # s
                            /\ set'[s].holder = set[s].holder
                            /\ set'[s].applied = set[s].applied
                            /\ set'[s].aborted = set[s].aborted
                            /\ set'[s].ran = set[s].ran,
         cached' \in Sets \cup {None},
         cacheLock' = IF task[h].pc = "build" THEN Nobody ELSE cacheLock,
         UNCHANGED <<head, cwd>>
  PROVE  IInv'
<1>0. /\ task \in [Handlers -> Task] /\ set \in [Sets -> Changeset]
      /\ \A k \in Handlers : task[k].cs \in Sets \cup {None}
  BY DEF IInv, TypeOK, Task
<1>1. /\ task' \in [Handlers -> Task] /\ task'[h] = t
      /\ \A k \in Handlers \ {h} : task'[k] = task[k]
  BY <1>0
<1>2. TypeOK'
  <2>1. \A k \in Handlers :
          /\ cacheLock' = k <=> task'[k].pc = "build"
          /\ task'[k].cs # None <=> task'[k].pc \in Locking \cup {"lock"}
          /\ task'[k].inside => task'[k].pc \in Chwd
    BY <1>1, NobodyAssumption DEF IInv, TypeOK
  <2>2. cacheLock' \in Handlers \cup {Nobody}
    BY DEF IInv, TypeOK
  <2> QED
    BY <1>1, <2>1, <2>2 DEF IInv, TypeOK
<1>3. LockIsHeldByACommand'
  BY <1>1 DEF IInv, LockIsHeldByACommand
<1>4. ASSUME NEW k \in Handlers, task[k].cs # None
      PROVE  set'[task[k].cs] = set[task[k].cs]
  BY <1>0, <1>4
<1>5. AtSeenHead'
  BY <1>1, <1>4 DEF IInv, AtSeenHead
<1>6. Fresh'
  <2>1. ASSUME NEW s \in Sets
        PROVE  \/ set'[s].applied \/ set'[s].aborted \/ set'[s].ran = {}
               \/ \E k \in Handlers : task'[k].pc = "apply" /\ task'[k].cs = s
    BY <1>1 DEF IInv, Fresh, Locking
  <2> QED
    BY <2>1 DEF Fresh
<1>7. NoReplay'
  <2>1. ASSUME NEW k \in Handlers, task'[k].pc = "apply"
        PROVE  set'[task'[k].cs].aborted \/ task'[k].todo \cap set'[task'[k].cs].ran = {}
    <3>1. k # h /\ task'[k] = task[k]
      BY <1>1, <2>1 DEF Locking
    <3>2. task[k].cs # None
      BY <2>1, <3>1 DEF IInv, TypeOK, Locking
    <3> QED
      BY <1>4, <2>1, <3>1, <3>2 DEF IInv, NoReplay
  <2> QED
    BY <2>1 DEF NoReplay
<1>8. Landed'
  BY <1>1 DEF IInv, Landed
<1> QED
  BY <1>2, <1>3, <1>5, <1>6, <1>7, <1>8 DEF IInv

LEMMA WebhookKeeps ==
  ASSUME IInv, NEW h \in Handlers, NEW cmd \in Commands, NEW scope \in SUBSET Objects,
         Webhook(h, cmd, scope)
  PROVE  IInv'
<1> DEFINE t == [task[h] EXCEPT !.pc = "fetched", !.cmd = cmd, !.scope = scope, !.seen = head]
<1>1. task \in [Handlers -> Task] /\ task[h] \in Task /\ task[h].pc = "idle"
  BY DEF IInv, TypeOK, Webhook
<1>2. /\ t \in Task /\ t.pc = "fetched" /\ t.cs = task[h].cs /\ t.inside = task[h].inside
      /\ t.home = task[h].home /\ t.pushed = task[h].pushed
        /\ t.refused = task[h].refused /\ t.wrote = task[h].wrote
      /\ t.ok = task[h].ok
  BY <1>1 DEF IInv, TypeOK, Task, PC
<1>3. task' = [task EXCEPT ![h] = t]
  BY <1>1 DEF Webhook
<1> HIDE DEF t
<1>4. task[h].cs = None /\ ~task[h].inside /\ LandedFor(t)
  BY <1>1, <1>2 DEF IInv, TypeOK, Landed, LandedFor, Locking, Chwd
<1> QED
  BY <1>1, <1>2, <1>3, <1>4, UnlockedStep DEF Webhook, Locking, IInv, TypeOK

LEMMA CacheHitKeeps ==
  ASSUME IInv, NEW h \in Handlers, CacheHit(h)
  PROVE  IInv'
<1> DEFINE t == [task[h] EXCEPT !.pc = "lock", !.cs = cached]
<1>1. /\ task \in [Handlers -> Task] /\ task[h] \in Task /\ task[h].pc = "fetched"
      /\ cached \in Sets
  BY DEF IInv, TypeOK, CacheHit
<1>2. /\ t \in Task /\ t.pc = "lock" /\ t.cs = cached /\ t.inside = task[h].inside
      /\ t.home = task[h].home /\ t.pushed = task[h].pushed
        /\ t.refused = task[h].refused /\ t.wrote = task[h].wrote
      /\ t.ok = task[h].ok /\ t.seen = task[h].seen
  BY <1>1 DEF Task, PC
<1>3. task' = [task EXCEPT ![h] = t]
  BY <1>1 DEF CacheHit
<1> HIDE DEF t
<1>4. ~task[h].inside /\ LandedFor(t)
  BY <1>1, <1>2 DEF IInv, TypeOK, Landed, LandedFor, Chwd
<1>5. UNCHANGED <<head, set, cached, cacheLock, cwd>> /\ task[h].pc \notin Locking
  BY <1>1 DEF CacheHit, Locking
<1>6. set \in [Sets -> Changeset] /\ set[cached].sha = t.seen
  BY <1>2 DEF CacheHit, IInv, TypeOK
<1>7. t.pc \notin Locking \cup {"build"} /\ t.cs # None
  BY <1>1, <1>2, Bounds DEF Locking
<1> QED
  BY <1>1, <1>2, <1>3, <1>4, <1>5, <1>6, <1>7, UnlockedStep

(* The ChangeSet that is taken for a new head is one that nobody uses. *)
LEMMA BuildOkKeeps ==
  ASSUME IInv, NEW h \in Handlers, BuildOk(h)
  PROVE  IInv'
<1>1. PICK s \in Sets :
        /\ ~Alive(s, cached, task)
        /\ set' = [set EXCEPT ![s].sha = task[h].seen]
        /\ cached' = s
        /\ task' = [task EXCEPT ![h].pc = "lock", ![h].cs = s]
  <2> DEFINE free == {i \in Sets : ~Alive(i, cached, task)}
  <2>1. (CHOOSE i \in free : TRUE) \in free
    BY DEF BuildOk
  <2> QED
    BY <2>1 DEF BuildOk
<1> DEFINE t == [task[h] EXCEPT !.pc = "lock", !.cs = s]
<1>2. /\ task \in [Handlers -> Task] /\ task[h] \in Task /\ task[h].pc = "build"
      /\ set \in [Sets -> Changeset]
  BY DEF IInv, TypeOK, BuildOk
<1>3. /\ t \in Task /\ t.pc = "lock" /\ t.cs = s /\ t.inside = task[h].inside
      /\ t.home = task[h].home /\ t.pushed = task[h].pushed
        /\ t.refused = task[h].refused /\ t.wrote = task[h].wrote
      /\ t.ok = task[h].ok /\ t.seen = task[h].seen
  BY <1>2 DEF Task, PC
<1>4. task' = [task EXCEPT ![h] = t]
  BY <1>1, <1>2
<1> HIDE DEF t
<1>5. ~task[h].inside /\ LandedFor(t)
  BY <1>2, <1>3 DEF IInv, TypeOK, Landed, LandedFor, Chwd
<1>6. set[s] \in Changeset /\ task[h].seen \in Heads \cup {None}
  BY <1>2 DEF Task
<1>7. /\ set' \in [Sets -> Changeset]
      /\ \A i \in Sets \ {s} : set'[i] = set[i]
      /\ set'[s].sha = task[h].seen /\ set'[s].holder = set[s].holder
      /\ set'[s].applied = set[s].applied /\ set'[s].aborted = set[s].aborted
      /\ set'[s].ran = set[s].ran
  <2>1. [set[s] EXCEPT !.sha = task[h].seen] \in Changeset
    BY <1>6 DEF Changeset
  <2>2. set' = [set EXCEPT ![s] = [set[s] EXCEPT !.sha = task[h].seen]]
    BY <1>1
  <2> QED
    BY <1>2, <1>6, <2>1, <2>2 DEF Changeset
<1>8. \A k \in Handlers : task[k].cs # s
  BY <1>1 DEF Alive
<1>9. \A i \in Sets : \/ set'[i] = set[i]
                      \/ /\ \A k \in Handlers : task[k].cs # i
                         /\ set'[i].holder = set[i].holder
                         /\ set'[i].applied = set[i].applied
                         /\ set'[i].aborted = set[i].aborted
                         /\ set'[i].ran = set[i].ran
  BY <1>7, <1>8
<1>10. t.cs # None /\ set'[t.cs].sha = t.seen /\ cached' \in Sets \cup {None}
  BY <1>1, <1>3, <1>7, Bounds
<1>11. cacheLock' = Nobody /\ UNCHANGED <<head, cwd>>
  BY DEF BuildOk
<1>12. task[h].pc \notin Locking /\ t.pc \notin Locking \cup {"build"}
  BY <1>2, <1>3 DEF Locking
<1>13. set' \in [Sets -> Changeset]
  BY <1>7
<1> HIDE DEF t
<1> QED
  BY <1>2, <1>3, <1>4, <1>5, <1>9, <1>10, <1>11, <1>12, <1>13, UnlockedStep

(* The entry of another head is removed, and what nobody uses ends with it. *)
LEMMA CacheMissKeeps ==
  ASSUME IInv, NEW h \in Handlers, CacheMiss(h)
  PROVE  IInv'
<1> DEFINE t == [task[h] EXCEPT !.pc = "build"]
<1>1. task \in [Handlers -> Task] /\ task[h] \in Task /\ task[h].pc = "fetched"
  BY DEF IInv, TypeOK, CacheMiss
<1>2. /\ t \in Task /\ t.pc = "build" /\ t.cs = task[h].cs /\ t.inside = task[h].inside
      /\ t.home = task[h].home /\ t.pushed = task[h].pushed
        /\ t.refused = task[h].refused /\ t.wrote = task[h].wrote
      /\ t.ok = task[h].ok
  BY <1>1 DEF Task, PC
<1>3. [task EXCEPT ![h].pc = "build"] = [task EXCEPT ![h] = t]
  BY <1>1
<1> HIDE DEF t
<1>4. task[h].cs = None /\ ~task[h].inside /\ LandedFor(t)
  BY <1>1, <1>2 DEF IInv, TypeOK, Landed, LandedFor, Locking, Chwd
<1>5. Settle(set, None, [task EXCEPT ![h] = t]) /\ cached' = None
  BY <1>3 DEF CacheMiss
<1>6. set = IF task[h].cs \in Sets /\ set[task[h].cs].holder = h
            THEN [set EXCEPT ![task[h].cs].holder = Nobody] ELSE set
  BY <1>4, Bounds
<1>7. /\ cacheLock' = h /\ cacheLock = Nobody
      /\ UNCHANGED head
  BY DEF CacheMiss
<1>8. t.pc \notin Locking \cup {"lock"}
  BY <1>2 DEF Locking
<1> QED
  BY <1>1, <1>2, <1>4, <1>5, <1>6, <1>7, <1>8, NobodyAssumption, LeavingStep

LEMMA ReturnKeeps ==
  ASSUME IInv, NEW h \in Handlers, task[h].pc # "apply", Return(h),
         UNCHANGED <<head, cached>>,
         cacheLock' = IF task[h].pc = "build" THEN Nobody ELSE cacheLock
  PROVE  IInv'
<1> DEFINE se == IF task[h].cs \in Sets /\ set[task[h].cs].holder = h
                 THEN [set EXCEPT ![task[h].cs].holder = Nobody] ELSE set
<1>1. Settle(se, cached, [task EXCEPT ![h] = Idle])
  BY DEF Return
<1>2. Idle.pc \notin Locking \cup {"lock"} /\ Idle.pc # "build" /\ LandedFor(Idle)
  BY IdleFields DEF Locking, LandedFor
<1>3. /\ cacheLock' \in Handlers \cup {Nobody}
      /\ cacheLock' # h
      /\ \A k \in Handlers \ {h} : cacheLock' = k <=> cacheLock = k
  BY NobodyAssumption DEF IInv, TypeOK
<1>4. cached \in Sets \cup {None} /\ cached' = cached
  BY DEF IInv, TypeOK
<1>5. se = IF task[h].cs \in Sets /\ set[task[h].cs].holder = h
           THEN [set EXCEPT ![task[h].cs].holder = Nobody] ELSE set
  OBVIOUS
<1> HIDE DEF se
<1> QED
  BY <1>1, <1>2, <1>3, <1>4, <1>5, Blank, IdleFields, LeavingStep

(* Only a mutex that nobody holds is taken.                                *)
LEMMA TryLockKeeps ==
  ASSUME IInv, NEW h \in Handlers, TryLock(h)
  PROVE  IInv'
<1> DEFINE s0 == task[h].cs
<1>0. /\ task \in [Handlers -> Task] /\ set \in [Sets -> Changeset] /\ task[h] \in Task
      /\ task[h].pc = "lock" /\ s0 \in Sets /\ set[s0].holder = Nobody
      /\ \A k \in Handlers : task[k].cs \in Sets \cup {None}
  BY DEF IInv, TypeOK, Task, TryLock
<1> DEFINE c == [set[s0] EXCEPT !.holder = h]
           t == [task[h] EXCEPT !.pc = "clone"]
<1>1. /\ c \in Changeset /\ c.holder = h /\ c.sha = set[s0].sha /\ c.ran = set[s0].ran
      /\ c.applied = set[s0].applied /\ c.aborted = set[s0].aborted
  BY <1>0 DEF Changeset
<1>2. /\ t \in Task /\ t.pc = "clone" /\ t.cs = s0 /\ t.inside = task[h].inside
      /\ t.home = task[h].home /\ t.pushed = task[h].pushed
        /\ t.refused = task[h].refused /\ t.wrote = task[h].wrote
      /\ t.ok = task[h].ok /\ t.seen = task[h].seen
  BY <1>0 DEF Task, PC
<1>3. set' = [set EXCEPT ![s0] = c] /\ task' = [task EXCEPT ![h] = t]
  BY <1>0 DEF TryLock
<1> HIDE DEF c, t
<1>4. /\ set' \in [Sets -> Changeset] /\ set'[s0] = c
      /\ \A s \in Sets \ {s0} : set'[s] = set[s]
      /\ task' \in [Handlers -> Task] /\ task'[h] = t
      /\ \A k \in Handlers \ {h} : task'[k] = task[k]
  BY <1>0, <1>1, <1>2, <1>3
<1>5. \A s \in Sets :
        /\ set'[s].sha = set[s].sha /\ set'[s].applied = set[s].applied
        /\ set'[s].aborted = set[s].aborted /\ set'[s].ran = set[s].ran
  BY <1>1, <1>4
<1>6. TypeOK'
  <2>1. \A k \in Handlers :
          /\ cacheLock' = k <=> task'[k].pc = "build"
          /\ task'[k].cs # None <=> task'[k].pc \in Locking \cup {"lock"}
          /\ task'[k].inside => task'[k].pc \in Chwd
    BY <1>0, <1>2, <1>4 DEF IInv, TypeOK, TryLock, Locking, Chwd
  <2> QED
    BY <1>4, <2>1 DEF IInv, TypeOK, TryLock
<1>7. LockIsHeldByACommand'
  <2>1. \A k \in Handlers : ~(task[k].pc \in Locking /\ task[k].cs = s0)
    BY <1>0, NobodyAssumption DEF IInv, LockIsHeldByACommand
  <2> QED
    BY <1>0, <1>1, <1>2, <1>4, <2>1 DEF IInv, LockIsHeldByACommand, Locking
<1>8. AtSeenHead'
  BY <1>0, <1>2, <1>4, <1>5 DEF IInv, AtSeenHead
<1>9. Fresh'
  BY <1>0, <1>4, <1>5 DEF IInv, Fresh
<1>10. NoReplay'
  <2>1. ASSUME NEW k \in Handlers, task'[k].pc = "apply"
        PROVE  set'[task'[k].cs].aborted \/ task'[k].todo \cap set'[task'[k].cs].ran = {}
    <3>1. k # h /\ task'[k] = task[k]
      BY <1>2, <1>4, <2>1
    <3>2. task[k].cs \in Sets
      BY <1>0, <2>1, <3>1 DEF IInv, TypeOK, Locking
    <3> QED
      BY <1>5, <2>1, <3>1, <3>2 DEF IInv, NoReplay
  <2> QED
    BY <2>1 DEF NoReplay
<1>11. Landed'
  BY <1>0, <1>2, <1>4 DEF IInv, Landed, LandedFor
<1> QED
  BY <1>6, <1>7, <1>8, <1>9, <1>10, <1>11 DEF IInv

-----------------------------------------------------------------------------
(* While a command holds its ChangeSet.                                    *)

(* The same, when the ChangeSet stays as it is. *)
LEMMA QuietStep ==
  ASSUME IInv, NEW h \in Handlers, task[h].pc \in Locking,
         NEW t \in Task, task' = [task EXCEPT ![h] = t],
         t.pc \in Locking, t.cs = task[h].cs, t.seen = task[h].seen,
         t.inside => t.pc \in Chwd,
         FreshFor(t, set[task[h].cs]), ReplayFor(t, set[task[h].cs]), LandedFor(t),
         head' \in Heads, cwd' \in Dirs, UNCHANGED <<cached, cacheLock, set>>
  PROVE  IInv'
<1>1. set \in [Sets -> Changeset] /\ task[h].cs \in Sets /\ set[task[h].cs] \in Changeset
  BY Owner DEF IInv, TypeOK
<1>2. set' = [set EXCEPT ![task[h].cs] = set[task[h].cs]]
  BY <1>1
<1> QED
  BY <1>1, <1>2, LocalStep

(* The working directory is a ChangeSet's, or where the server was started. *)
LEMMA DirectoryTypes ==
  ASSUME IInv, NEW h \in Handlers
  PROVE  cwd \in Dirs /\ Restored(h) \in Dirs
<1>1. cwd \in Dirs /\ task[h] \in Task
  BY DEF IInv, TypeOK
<1>2. task[h].prev \in Dirs
  BY <1>1 DEF Task
<1> QED
  BY <1>1, <1>2 DEF Restored

(* Entering the clone changes nothing but where the command stands. *)
LEMMA EnterKeeps ==
  ASSUME IInv, NEW h \in Handlers, task[h].pc \in Locking,
         NEW d \in Dirs, NEW pc \in Chwd, NEW todo \in SUBSET Objects,
         Enter(h, d, pc, todo), task[h].pc # "apply", ~task[h].ok,
         pc = "apply" => \/ set[task[h].cs].aborted
                         \/ todo \cap set[task[h].cs].ran = {},
         UNCHANGED <<head, cached, cacheLock, set>>
  PROVE  IInv'
<1> DEFINE p == IF d = Gone THEN Start ELSE d
           t == [task[h] EXCEPT !.pc = pc, !.todo = todo, !.scope = {},
                                !.inside = d # Gone, !.prev = p]
<1>1. task \in [Handlers -> Task] /\ task[h] \in Task /\ task[h].cs \in Sets
  BY Owner DEF IInv, TypeOK
<1>2. p \in Dirs /\ pc \in PC /\ (d # Gone) \in BOOLEAN /\ {} \in SUBSET Objects
  BY Bounds DEF Chwd, PC
<1> HIDE DEF p
<1>3. /\ t \in Task /\ t.pc = pc /\ t.cs = task[h].cs /\ t.seen = task[h].seen
      /\ t.todo = todo /\ t.home = task[h].home /\ t.pushed = task[h].pushed /\ t.refused = task[h].refused
      /\ t.wrote = task[h].wrote /\ t.ok = task[h].ok
  BY <1>1, <1>2 DEF Task
<1>4. task' = [task EXCEPT ![h] = t]
  BY <1>1 DEF Enter, p
<1> HIDE DEF t
<1>5. FreshFor(t, set[task[h].cs]) /\ ReplayFor(t, set[task[h].cs]) /\ LandedFor(t)
  BY <1>3, Owner DEF FreshFor, ReplayFor, LandedFor
<1>6. head' \in Heads /\ cwd' \in Dirs
  BY <1>1, Bounds DEF IInv, TypeOK, Enter
<1>7. t.pc \in Locking /\ t.pc \in Chwd
  BY <1>3 DEF Locking, Chwd
<1> QED
  BY <1>3, <1>4, <1>5, <1>6, <1>7, QuietStep

(* The result of a command: Ok only if all outputs are committed. *)
LEMMA ToReportKeeps ==
  ASSUME IInv, NEW h \in Handlers, task[h].pc \in Locking,
         NEW ok \in BOOLEAN, ToReport(h, ok), ok => task[h].wrote = {},
         NEW c \in Changeset, set' = [set EXCEPT ![task[h].cs] = c],
         c.sha = set[task[h].cs].sha, c.holder = set[task[h].cs].holder,
         c.applied \/ c.aborted \/ c.ran = {},
         UNCHANGED <<head, cached, cacheLock>>
  PROVE  IInv'
<1> DEFINE hm == IF ok THEN task[h].home ELSE {}
           ps == IF ok THEN task[h].pushed ELSE {}
           rf == IF ok THEN task[h].refused ELSE {}
           t == [Idle EXCEPT !.pc = "report", !.seen = task[h].seen, !.cs = task[h].cs,
                             !.ok = ok, !.home = hm, !.pushed = ps, !.refused = rf]
<1>1. task[h] \in Task /\ "report" \in PC
  BY Owner DEF PC
<1>2. hm \in SUBSET Objects /\ ps \in SUBSET Objects /\ rf \in SUBSET Objects
  BY <1>1 DEF Task
<1>3. task' = [task EXCEPT ![h] = t]
  BY DEF ToReport
<1>4. hm \subseteq ps \cup rf
  BY Owner DEF LandedFor
<1> HIDE DEF hm, ps, rf
<1>5. /\ t \in Task /\ t.pc = "report" /\ t.cs = task[h].cs /\ t.seen = task[h].seen
      /\ ~t.inside /\ t.wrote = {} /\ t.home = hm /\ t.pushed = ps /\ t.refused = rf
  <2>1. /\ task[h].seen \in Heads \cup {None}
        /\ task[h].cs \in Sets \cup {None}
    BY <1>1 DEF Task
  <2>2. t \in Task
    BY <1>1, <1>2, <2>1, Blank DEF Task
  <2> QED
    BY <2>2, Blank, IdleFields DEF Task
<1> HIDE DEF t
<1>6. FreshFor(t, c) /\ ReplayFor(t, c) /\ LandedFor(t) /\ t.pc \in Locking
  BY <1>4, <1>5 DEF FreshFor, ReplayFor, LandedFor, Locking
<1>7. head' \in Heads /\ cwd' \in Dirs
  BY DirectoryTypes DEF IInv, TypeOK, ToReport
<1> QED
  BY <1>3, <1>5, <1>6, <1>7, LocalStep

LEMMA ToReportQuietly ==
  ASSUME IInv, NEW h \in Handlers, task[h].pc \in Locking, task[h].pc # "apply",
         NEW ok \in {FALSE}, ToReport(h, ok), UNCHANGED <<head, cached, cacheLock, set>>
  PROVE  IInv'
<1>1. set \in [Sets -> Changeset] /\ task[h].cs \in Sets /\ set[task[h].cs] \in Changeset
  BY Owner DEF IInv, TypeOK
<1>2. set' = [set EXCEPT ![task[h].cs] = set[task[h].cs]]
  BY <1>1
<1>3. \/ set[task[h].cs].applied \/ set[task[h].cs].aborted \/ set[task[h].cs].ran = {}
  BY Owner DEF FreshFor
<1> QED
  BY <1>1, <1>2, <1>3, ToReportKeeps

LEMMA CloneRepoKeeps ==
  ASSUME IInv, NEW h \in Handlers, CloneRepo(h)
  PROVE  IInv'
<1> DEFINE s == task[h].cs
           tip == IF set[s].tip = None THEN head ELSE set[s].tip
           pc == IF tip = set[s].sha THEN "start" ELSE "report"
           base == IF tip = set[s].sha THEN tip ELSE None
           c == [set[s] EXCEPT !.tip = tip]
           t == [task[h] EXCEPT !.pc = pc, !.base = base]
<1>0. task[h].pc = "clone" /\ task[h].pc \in Locking
  BY DEF CloneRepo, Locking
<1>1. /\ task \in [Handlers -> Task] /\ task[h] \in Task /\ s \in Sets
      /\ set \in [Sets -> Changeset] /\ set[s] \in Changeset /\ head \in Heads
  BY <1>0, Owner DEF IInv, TypeOK
<1>2. set' = [set EXCEPT ![s] = c] /\ task' = [task EXCEPT ![h] = t]
  BY <1>1 DEF CloneRepo
<1>3. tip \in Heads \cup {None} /\ base \in Heads \cup {None}
  BY <1>1 DEF Changeset
<1>4. pc \in {"start", "report"}
  OBVIOUS
<1> HIDE DEF tip, base, pc
<1>5. /\ c \in Changeset /\ c.holder = set[s].holder /\ c.sha = set[s].sha
      /\ c.ran = set[s].ran /\ c.applied = set[s].applied /\ c.aborted = set[s].aborted
  BY <1>1, <1>3 DEF Changeset
<1>6. /\ t \in Task /\ t.pc = pc /\ t.cs = s /\ t.inside = task[h].inside
      /\ t.home = task[h].home /\ t.pushed = task[h].pushed
        /\ t.refused = task[h].refused /\ t.wrote = task[h].wrote
      /\ t.ok = task[h].ok /\ t.seen = task[h].seen
  BY <1>1, <1>3, <1>4 DEF Task, PC
<1> HIDE DEF c, t
<1>7. ~task[h].inside /\ cwd \in Dirs
  BY <1>0 DEF IInv, TypeOK, Chwd
<1>8. FreshFor(t, c) /\ ReplayFor(t, c) /\ LandedFor(t)
  BY <1>0, <1>4, <1>5, <1>6, Owner DEF FreshFor, ReplayFor, LandedFor
<1>9. t.pc \in Locking /\ head' \in Heads /\ cwd' \in Dirs /\ UNCHANGED <<cached, cacheLock>>
  BY <1>1, <1>4, <1>6, <1>7 DEF CloneRepo, Locking
<1> QED
  BY <1>0, <1>2, <1>5, <1>6, <1>7, <1>8, <1>9, LocalStep

(* plan and import execute nothing; a new plan starts with a blank record. *)
LEMMA PlanKeeps ==
  ASSUME IInv, NEW h \in Handlers,
         \/ StartPlan(h) \/ PlanDone(h) \/ PlanAborts(h)
         \/ \E o \in Objects, ops \in BOOLEAN : PlanObject(h, o, ops)
         \/ \E o \in Objects : PlanObjectFails(h, o)
  PROVE  IInv'
<1>0. task[h].pc \in {"start", "plan"} /\ task[h].pc \in Locking
  BY DEF StartPlan, PlanDone, PlanAborts, PlanObject, PlanObjectFails, Locking
<1>1. /\ task \in [Handlers -> Task] /\ task[h] \in Task /\ task[h].cs \in Sets
      /\ set \in [Sets -> Changeset] /\ set[task[h].cs] \in Changeset
      /\ head \in Heads /\ cwd \in Dirs
  BY <1>0, Owner DEF IInv, TypeOK
<1>2. task[h].pc # "apply" /\ ~task[h].ok
  BY <1>0, Owner DEF LandedFor
<1>3. CASE StartPlan(h)
  <2>1. task[h].scope \in SUBSET Objects
    BY <1>1 DEF Task
  <2> QED
    BY <1>0, <1>1, <1>2, <1>3, <2>1, EnterKeeps DEF StartPlan, Chwd
<1>4. CASE PlanDone(h)
  <2> DEFINE c == [set[task[h].cs] EXCEPT !.planned = TRUE, !.plan = task[h].draft,
                     !.applied = FALSE, !.ran = {}, !.aborted = FALSE]
  <2>1. task[h].draft \in SUBSET Objects
    BY <1>1 DEF Task
  <2>2. /\ c \in Changeset /\ c.ran = {} /\ c.sha = set[task[h].cs].sha
        /\ c.holder = set[task[h].cs].holder
    BY <1>1, <2>1 DEF Changeset
  <2>3. set' = [set EXCEPT ![task[h].cs] = c]
    BY <1>1, <1>4 DEF PlanDone
  <2> HIDE DEF c
  <2> QED
    BY <1>0, <1>4, <2>2, <2>3, ToReportKeeps DEF PlanDone
<1>5. CASE PlanAborts(h)
  BY <1>0, <1>2, <1>5, ToReportQuietly DEF PlanAborts
<1>6. ASSUME NEW todo \in SUBSET Objects, NEW draft \in SUBSET Objects,
             task' = [task EXCEPT ![h].todo = todo, ![h].draft = draft],
             UNCHANGED <<head, cached, cacheLock, set, cwd>>, task[h].pc = "plan"
      PROVE  IInv'
  <2> DEFINE t == [task[h] EXCEPT !.todo = todo, !.draft = draft]
  <2>1. /\ t \in Task /\ t.pc = task[h].pc /\ t.cs = task[h].cs /\ t.seen = task[h].seen
        /\ t.home = task[h].home /\ t.pushed = task[h].pushed
        /\ t.refused = task[h].refused /\ t.wrote = task[h].wrote
        /\ t.ok = task[h].ok
    BY <1>1 DEF Task
  <2>2. task' = [task EXCEPT ![h] = t]
    BY <1>1, <1>6
  <2> HIDE DEF t
  <2>3. /\ FreshFor(t, set[task[h].cs]) /\ ReplayFor(t, set[task[h].cs]) /\ LandedFor(t)
        /\ t.pc \in Chwd
    BY <1>0, <1>6, <2>1, Owner DEF FreshFor, ReplayFor, LandedFor, Chwd
  <2> QED
    BY <1>0, <1>1, <1>6, <2>1, <2>2, <2>3, QuietStep
<1>7. ASSUME NEW o \in Objects, NEW ops \in BOOLEAN, PlanObject(h, o, ops) PROVE IInv'
  <2> DEFINE draft == IF ops THEN task[h].draft \cup {o} ELSE task[h].draft
  <2>1. task[h].todo \ {o} \in SUBSET Objects /\ draft \in SUBSET Objects
    BY <1>1 DEF Task
  <2>2. task' = [task EXCEPT ![h].todo = task[h].todo \ {o}, ![h].draft = draft]
    BY <1>1, <1>7 DEF PlanObject
  <2> HIDE DEF draft
  <2> QED
    BY <1>6, <1>7, <2>1, <2>2 DEF PlanObject
<1>8. ASSUME NEW o \in Objects, PlanObjectFails(h, o) PROVE IInv'
  <2>1. {} \in SUBSET Objects /\ task[h].draft \in SUBSET Objects
    BY <1>1 DEF Task
  <2>2. task' = [task EXCEPT ![h].todo = {}, ![h].draft = task[h].draft]
    BY <1>1, <1>8 DEF PlanObjectFails, Task
  <2> QED
    BY <1>6, <1>8, <2>1, <2>2 DEF PlanObjectFails
<1> QED
  BY <1>3, <1>4, <1>5, <1>7, <1>8

LEMMA ImportKeeps ==
  ASSUME IInv, NEW h \in Handlers,
         \/ StartImport(h) \/ ImportPush(h) \/ ImportEnds(h)
         \/ \E o \in Objects : ImportNext(h, o)
  PROVE  IInv'
<1>0. task[h].pc \in {"start", "import"} /\ task[h].pc \in Locking
  BY DEF StartImport, ImportPush, ImportEnds, ImportNext, Locking
<1>1. /\ task \in [Handlers -> Task] /\ task[h] \in Task /\ task[h].cs \in Sets
      /\ set \in [Sets -> Changeset] /\ set[task[h].cs] \in Changeset
      /\ head \in Heads /\ cwd \in Dirs
  BY <1>0, Owner DEF IInv, TypeOK
<1>2. task[h].pc # "apply" /\ ~task[h].ok
  BY <1>0, Owner DEF LandedFor
<1>3. CASE StartImport(h)
  BY <1>0, <1>1, <1>2, <1>3, EnterKeeps DEF StartImport, Chwd
<1>4. CASE ImportEnds(h)
  BY <1>0, <1>2, <1>4, ToReportQuietly DEF ImportEnds
<1>5. CASE ImportPush(h)
  <2> DEFINE t == [task[h] EXCEPT !.base = head + 1]
  <2>1. head + 1 \in Heads
    BY <1>1, <1>5, Bounds DEF ImportPush
  <2>2. /\ t \in Task /\ t.pc = task[h].pc /\ t.cs = task[h].cs /\ t.seen = task[h].seen
        /\ t.home = task[h].home /\ t.pushed = task[h].pushed
        /\ t.refused = task[h].refused /\ t.wrote = task[h].wrote
        /\ t.ok = task[h].ok
    BY <1>1, <2>1 DEF Task
  <2>3. task' = [task EXCEPT ![h] = t]
    BY <1>1, <1>5 DEF ImportPush
  <2> HIDE DEF t
  <2>4. /\ FreshFor(t, set[task[h].cs]) /\ ReplayFor(t, set[task[h].cs]) /\ LandedFor(t)
        /\ t.pc \in Chwd
    BY <1>0, <1>5, <2>2, Owner DEF FreshFor, ReplayFor, LandedFor, ImportPush, Chwd
  <2> QED
    BY <1>0, <1>1, <1>5, <2>1, <2>2, <2>3, <2>4, QuietStep DEF ImportPush
<1>6. ASSUME NEW o \in Objects, ImportNext(h, o) PROVE IInv'
  <2>1. task[h].todo \ {o} \in SUBSET Objects
    BY <1>1 DEF Task
  <2>2. Restored(h) \in Dirs
    BY DirectoryTypes
  <2> QED
    BY <1>0, <1>2, <1>6, <2>1, <2>2, EnterKeeps DEF ImportNext, Chwd
<1> QED
  BY <1>3, <1>4, <1>5, <1>6

(* A report is taken off the list as it is executed, and an apply that ends *)
(* leaves its plan marked: applied, or broken off.                         *)
LEMMA ApplyKeeps ==
  ASSUME IInv, NEW h \in Handlers,
         \/ ApplyRefused(h) \/ StartApply(h) \/ ApplyAborts(h) \/ ApplyDone(h)
         \/ \E o \in Objects, outputs \in BOOLEAN : ExecOk(h, o, outputs)
         \/ \E o \in Objects : ExecFails(h, o)
         \/ \E o \in Objects : PushOutputs(h, o)
  PROVE  IInv'
<1> DEFINE s == task[h].cs
<1>0. task[h].pc \in {"start", "apply"} /\ task[h].pc \in Locking
  BY DEF ApplyRefused, StartApply, ApplyAborts, ApplyDone, ExecOk, ExecFails, PushOutputs,
         Locking
<1>1. /\ task \in [Handlers -> Task] /\ task[h] \in Task /\ s \in Sets
      /\ set \in [Sets -> Changeset] /\ set[s] \in Changeset
      /\ head \in Heads /\ cwd \in Dirs
      /\ task[h].todo \in SUBSET Objects /\ task[h].wrote \in SUBSET Objects
      /\ task[h].home \in SUBSET Objects /\ task[h].pushed \in SUBSET Objects
      /\ task[h].refused \in SUBSET Objects /\ task[h].base \in Heads \cup {None}
      /\ set[s].ran \in SUBSET Objects /\ set[s].plan \in SUBSET Objects
  <2>1. task[h] \in Task /\ set[s] \in Changeset
    BY <1>0, Owner
  <2> QED
    BY <1>0, <2>1, Owner DEF IInv, TypeOK, Task, Changeset
<1>2. ~task[h].ok
  BY <1>0, Owner DEF LandedFor
<1>3. CASE ApplyRefused(h)
  <2> DEFINE t == [task[h] EXCEPT !.pc = "report", !.scope = {}]
  <2>1. /\ t \in Task /\ t.pc = "report" /\ t.cs = s /\ t.seen = task[h].seen
        /\ t.home = task[h].home /\ t.pushed = task[h].pushed
        /\ t.refused = task[h].refused /\ t.wrote = task[h].wrote
        /\ t.ok = task[h].ok /\ t.inside = task[h].inside
    BY <1>1 DEF Task, PC
  <2>2. task' = [task EXCEPT ![h] = t]
    BY <1>1, <1>3 DEF ApplyRefused
  <2> HIDE DEF t
  <2>3. task[h].pc = "start" /\ ~task[h].inside
    BY <1>3 DEF ApplyRefused, IInv, TypeOK, Chwd
  <2>4. FreshFor(t, set[s]) /\ ReplayFor(t, set[s]) /\ LandedFor(t) /\ t.pc \in Locking
    BY <1>0, <1>2, <2>1, <2>3, Owner DEF FreshFor, ReplayFor, LandedFor, Locking
  <2> QED
    BY <1>0, <1>1, <1>3, <2>1, <2>2, <2>3, <2>4, QuietStep DEF ApplyRefused
<1>4. CASE StartApply(h)
  <2>1. task[h].scope \cap set[s].plan \in SUBSET Objects
    BY <1>1
  <2>2. task[h].pc = "start" /\ (set[s].aborted \/ set[s].ran = {})
    BY <1>0, <1>4, Owner DEF StartApply, FreshFor
  <2> QED
    BY <1>0, <1>1, <1>2, <1>4, <2>1, <2>2, EnterKeeps DEF StartApply, Chwd
<1>5. CASE ApplyAborts(h)
  <2> DEFINE c == [set[s] EXCEPT !.aborted = TRUE]
  <2>1. c \in Changeset /\ c.aborted /\ c.sha = set[s].sha /\ c.holder = set[s].holder
    BY <1>1 DEF Changeset
  <2>2. set' = [set EXCEPT ![s] = c]
    BY <1>1, <1>5 DEF ApplyAborts
  <2> HIDE DEF c
  <2> QED
    BY <1>0, <1>5, <2>1, <2>2, ToReportKeeps DEF ApplyAborts
<1>6. CASE ApplyDone(h)
  <2> DEFINE c == [set[s] EXCEPT !.applied = TRUE]
  <2>1. c \in Changeset /\ c.applied /\ c.sha = set[s].sha /\ c.holder = set[s].holder
    BY <1>1 DEF Changeset
  <2>2. set' = [set EXCEPT ![s] = c]
    BY <1>1, <1>6 DEF ApplyDone
  <2> HIDE DEF c
  <2>3. PICK ok \in BOOLEAN : ToReport(h, ok)
    BY <1>6 DEF ApplyDone
  <2> QED
    BY <1>0, <1>6, <2>1, <2>2, <2>3, ToReportKeeps DEF ApplyDone
<1>7. ASSUME NEW o \in Objects, task[h].pc = "apply", o \in task[h].todo,
             NEW wrote \in SUBSET Objects, NEW home \in SUBSET Objects,
             task[h].wrote \subseteq wrote, home \subseteq task[h].home \cup wrote,
             set' = [set EXCEPT ![s].ran = @ \cup {o}],
             task' = [task EXCEPT ![h].todo = @ \ {o}, ![h].wrote = wrote, ![h].home = home],
             UNCHANGED <<head, cached, cacheLock, cwd>>
      PROVE  IInv'
  <2> DEFINE c == [set[s] EXCEPT !.ran = set[s].ran \cup {o}]
             t == [task[h] EXCEPT !.todo = task[h].todo \ {o}, !.wrote = wrote, !.home = home]
  <2>1. /\ c \in Changeset /\ c.ran = set[s].ran \cup {o} /\ c.sha = set[s].sha
        /\ c.holder = set[s].holder /\ c.aborted = set[s].aborted
    BY <1>1 DEF Changeset
  <2>2. task[h].todo \ {o} \in SUBSET Objects
    BY <1>1
  <2>3. /\ t \in Task /\ t.pc = "apply" /\ t.cs = s /\ t.seen = task[h].seen
        /\ t.todo = task[h].todo \ {o} /\ t.wrote = wrote /\ t.home = home
        /\ t.pushed = task[h].pushed /\ t.refused = task[h].refused /\ t.ok = task[h].ok
    BY <1>1, <1>7, <2>2 DEF Task
  <2>4. set' = [set EXCEPT ![s] = c] /\ task' = [task EXCEPT ![h] = t]
    BY <1>1, <1>7
  <2> HIDE DEF c, t
  <2>5. FreshFor(t, c)
    BY <2>3 DEF FreshFor
  <2>6. ReplayFor(t, c)
    BY <1>0, <1>7, <2>1, <2>3, Owner DEF ReplayFor
  <2>7. LandedFor(t)
    BY <1>0, <1>2, <1>7, <2>3, Owner DEF LandedFor
  <2>8. t.pc \in Locking /\ t.pc \in Chwd
    BY <2>3 DEF Locking, Chwd
  <2> QED
    BY <1>0, <1>1, <1>7, <2>1, <2>3, <2>4, <2>5, <2>6, <2>7, <2>8, LocalStep
<1>8. ASSUME NEW o \in Objects, NEW outputs \in BOOLEAN, ExecOk(h, o, outputs) PROVE IInv'
  <2> DEFINE wrote == IF outputs THEN task[h].wrote \cup {o} ELSE task[h].wrote
             home == IF outputs /\ cwd = s THEN task[h].home \cup {o} ELSE task[h].home
  <2>1. /\ wrote \in SUBSET Objects /\ home \in SUBSET Objects
        /\ task[h].wrote \subseteq wrote /\ home \subseteq task[h].home \cup wrote
    BY <1>1
  <2>2. task' = [task EXCEPT ![h].todo = @ \ {o}, ![h].wrote = wrote, ![h].home = home]
    BY <1>1, <1>8 DEF ExecOk
  <2> HIDE DEF wrote, home
  <2> QED
    BY <1>7, <1>8, <2>1, <2>2 DEF ExecOk
<1>9. ASSUME NEW o \in Objects, ExecFails(h, o) PROVE IInv'
  <2>1. task' = [task EXCEPT ![h].todo = @ \ {o}, ![h].wrote = task[h].wrote,
                             ![h].home = task[h].home]
    BY <1>1, <1>9 DEF ExecFails, Task
  <2> QED
    BY <1>1, <1>7, <1>9, <2>1 DEF ExecFails
<1>10. ASSUME NEW o \in Objects, PushOutputs(h, o) PROVE IInv'
  <2>1. ASSUME NEW t \in Task, task' = [task EXCEPT ![h] = t], head' \in Heads,
               t.pc = "apply", t.cs = s, t.seen = task[h].seen, t.todo = task[h].todo,
               t.wrote = task[h].wrote \ {o}, t.home = task[h].home, t.ok = task[h].ok,
               task[h].pushed \cup task[h].refused \cup ({o} \cap task[h].home)
                 \subseteq t.pushed \cup t.refused
        PROVE  IInv'
    <3>1. LandedFor(t)
      BY <1>0, <1>2, <2>1, Owner DEF LandedFor
    <3>2. FreshFor(t, set[s]) /\ ReplayFor(t, set[s]) /\ t.pc \in Locking /\ t.pc \in Chwd
      BY <1>0, <1>10, <2>1, Owner DEF FreshFor, ReplayFor, Locking, Chwd, PushOutputs
    <3> QED
      BY <1>0, <1>1, <1>10, <2>1, <3>1, <3>2, QuietStep DEF PushOutputs
  <2> DEFINE out == {o} \cap task[h].home
  <2>2. task[h].pc = "apply" /\ task[h].wrote \ {o} \in SUBSET Objects /\ out \in SUBSET Objects
    BY <1>1, <1>10 DEF PushOutputs
  <2>3. CASE /\ task[h].base = head
              /\ head < MaxHead
              /\ head' = head + 1
              /\ task' = [task EXCEPT ![h].wrote = @ \ {o}, ![h].base = head + 1,
                                ![h].pushed = @ \cup task[h].refused \cup out,
                                ![h].refused = {}]
    <3> DEFINE t == [task[h] EXCEPT !.wrote = task[h].wrote \ {o}, !.base = head + 1,
                           !.pushed = task[h].pushed \cup task[h].refused \cup out,
                           !.refused = {}]
    <3>1. head + 1 \in Heads
      BY <1>1, <2>3, Bounds
    <3>2. /\ t \in Task /\ t.pc = "apply" /\ t.cs = s /\ t.seen = task[h].seen
          /\ t.todo = task[h].todo /\ t.wrote = task[h].wrote \ {o} /\ t.home = task[h].home
          /\ t.ok = task[h].ok /\ t.refused = {}
          /\ t.pushed = task[h].pushed \cup task[h].refused \cup out
      BY <1>1, <2>2, <3>1 DEF Task
    <3>3. task' = [task EXCEPT ![h] = t]
      BY <1>1, <2>3
    <3> HIDE DEF t
    <3> QED
      BY <2>1, <2>3, <3>1, <3>2, <3>3
  <2>4. CASE /\ task' = [task EXCEPT ![h].wrote = @ \ {o}, ![h].refused = @ \cup out]
              /\ UNCHANGED head
    <3> DEFINE t == [task[h] EXCEPT !.wrote = task[h].wrote \ {o},
                                    !.refused = task[h].refused \cup out]
    <3>1. head' \in Heads
      BY <1>1, <2>4
    <3>2. /\ t \in Task /\ t.pc = "apply" /\ t.cs = s /\ t.seen = task[h].seen
          /\ t.todo = task[h].todo /\ t.wrote = task[h].wrote \ {o} /\ t.home = task[h].home
          /\ t.ok = task[h].ok /\ t.pushed = task[h].pushed
          /\ t.refused = task[h].refused \cup out
      BY <1>1, <2>2 DEF Task
    <3>3. task' = [task EXCEPT ![h] = t]
      BY <1>1, <2>4
    <3> HIDE DEF t
    <3> QED
      BY <2>1, <3>1, <3>2, <3>3
  <2> QED
    BY <1>10, <2>3, <2>4 DEF PushOutputs
<1> QED
  BY <1>3, <1>4, <1>5, <1>6, <1>8, <1>9, <1>10

-----------------------------------------------------------------------------
(* Somebody else's push changes no ChangeSet. *)
LEMMA UserPushKeeps == IInv /\ UserPush => IInv'
<1> SUFFICES ASSUME IInv, UserPush PROVE IInv'
  OBVIOUS
<1>1. head' \in Heads
  BY Bounds DEF IInv, TypeOK, UserPush
<1>2. TypeOK'
  BY <1>1 DEF IInv, TypeOK, UserPush
<1> QED
  BY <1>2 DEF IInv, UserPush, LockIsHeldByACommand, AtSeenHead, Fresh, NoReplay, Landed

LEMMA InvStep == IInv /\ [Next]_vars => IInv'
<1> SUFFICES ASSUME IInv, [Next]_vars PROVE IInv'
  OBVIOUS
<1>1. ASSUME NEW h \in Handlers, NEW cmd \in Commands, NEW scope \in SUBSET Objects,
             Webhook(h, cmd, scope)
      PROVE  IInv'
  BY <1>1, WebhookKeeps
<1>2. ASSUME NEW h \in Handlers, Lookup(h) PROVE IInv'
  BY <1>2, CacheHitKeeps, CacheMissKeeps DEF Lookup
<1>3. ASSUME NEW h \in Handlers, Proceed(h) PROVE IInv'
  <2>1. CASE BuildOk(h)
    BY <2>1, BuildOkKeeps
  <2>2. CASE BuildFails(h)
    BY <2>2, ReturnKeeps DEF BuildFails
  <2>3. CASE TryLock(h)
    BY <2>3, TryLockKeeps
  <2>4. CASE LockHeld(h) \/ Fails(h) \/ Reported(h)
    <3>1. task[h].pc \in {"lock", "clone", "start", "report"}
      BY <2>4 DEF LockHeld, Fails, Reported
    <3> QED
      BY <2>4, <3>1, ReturnKeeps DEF LockHeld, Fails, Reported
  <2>5. CASE CloneRepo(h)
    BY <2>5, CloneRepoKeeps
  <2>6. CASE \/ StartPlan(h) \/ PlanDone(h) \/ PlanAborts(h)
             \/ \E o \in Objects, ops \in BOOLEAN : PlanObject(h, o, ops)
             \/ \E o \in Objects : PlanObjectFails(h, o)
    BY <2>6, PlanKeeps
  <2>7. CASE \/ ApplyRefused(h) \/ StartApply(h) \/ ApplyAborts(h) \/ ApplyDone(h)
             \/ \E o \in Objects, outputs \in BOOLEAN : ExecOk(h, o, outputs)
             \/ \E o \in Objects : ExecFails(h, o)
             \/ \E o \in Objects : PushOutputs(h, o)
    BY <2>7, ApplyKeeps
  <2>8. CASE \/ StartImport(h) \/ ImportPush(h) \/ ImportEnds(h)
             \/ \E o \in Objects : ImportNext(h, o)
    BY <2>8, ImportKeeps
  <2> QED
    BY <1>3, <2>1, <2>2, <2>3, <2>4, <2>5, <2>6, <2>7, <2>8 DEF Proceed
<1>4. CASE UserPush
  BY <1>4, UserPushKeeps
<1>5. CASE UNCHANGED vars
  <2>1. TypeOK'
    BY <1>5 DEF IInv, TypeOK, vars
  <2> QED
    BY <1>5, <2>1 DEF IInv, vars, LockIsHeldByACommand, AtSeenHead, Fresh, NoReplay, Landed
<1> QED
  BY <1>1, <1>2, <1>3, <1>4, <1>5 DEF Next

-----------------------------------------------------------------------------
LEMMA Invariant == Spec => []IInv
BY InvInit, InvStep, PTL DEF Spec

(* The types of the cache, of the ChangeSets and of the commands (dispatch, *)
(* ChangeSetCache), for any number of webhooks and commits.                *)
THEOREM TypeCorrect == Spec => []TypeOK
<1>1. IInv => TypeOK
  BY DEF IInv
<1> QED
  BY <1>1, Invariant, PTL

(* A command acts on the ChangeSet of the head it fetched (from_webhook,   *)
(* ChangeSetCache::get), however many heads, evictions and rebuilds lie in *)
(* between.                                                                *)
THEOREM CommandsKeepTheirHead == Spec => []RunsAtSeenHead
<1>1. IInv => RunsAtSeenHead
  BY Owner, Bounds DEF IInv, AtSeenHead, RunsAtSeenHead
<1> QED
  BY <1>1, Invariant, PTL

(* A report of a stored plan is executed again only if an apply of that    *)
(* plan broke off (ChangeSet::apply, apply_success).                       *)
THEOREM PlansRunOnce == Spec => []NoReplay
<1>1. IInv => NoReplay
  BY DEF IInv
<1> QED
  BY <1>1, Invariant, PTL

(* When apply returns Ok, the outputs that landed in its clone are on the   *)
(* branch or in commits that GitHub refused (git_commit_and_push).         *)
THEOREM OutputsAreSent == Spec => []OutputsReachGitHub
<1>1. IInv => OutputsReachGitHub
  BY DEF IInv, Landed, LandedFor, OutputsReachGitHub
<1> QED
  BY <1>1, Invariant, PTL

(* No return path of dispatch leaves a ChangeSet locked, and no two        *)
(* commands hold one (try_lock).                                           *)
THEOREM LocksAreReturned == Spec => []LockIsHeldByACommand
<1>1. IInv => LockIsHeldByACommand
  BY DEF IInv
<1> QED
  BY <1>1, Invariant, PTL

-----------------------------------------------------------------------------
(* What the commands of a pull request promise about its plans.            *)

(* What became of the plan of the ChangeSet c that the command t has, or   *)
(* that nobody applies.                                                    *)
Rested(c) == IF c.applied THEN "done" ELSE IF c.planned THEN "stored" ELSE "none"
StateFor(t, c) == IF t.pc = "apply" THEN "running" ELSE Rested(c)
Applied(s) == \E h \in Handlers : task[h].pc = "apply" /\ task[h].cs = s

AskedNow == [h \in Handlers |-> task[h].seen]
AtNow == [s \in Sets |-> set[s].sha]
HolderNow == [s \in Sets |-> set[s].holder]
PlanNow == [s \in Sets |-> set[s].plan]
LeftNow == [s \in Sets |-> set[s].plan \ set[s].ran]
StateNow == [s \in Sets |-> IF Applied(s) THEN "running" ELSE Rested(set[s])]
BrokenNow == [s \in Sets |-> set[s].aborted]

Book == INSTANCE StoredPlans WITH
  asked <- AskedNow, at <- AtNow, holder <- HolderNow, plan <- PlanNow,
  left <- LeftNow, state <- StateNow, broken <- BrokenNow

(* What the simulation needs beyond IInv: whoever is asked has fetched a   *)
(* head, the cache is empty while a ChangeSet is built, one that nobody    *)
(* uses is blank, and what is still to be executed is of the stored plan.  *)
OfThePlan(t, c) == t.pc = "apply" => c.planned /\ ~c.applied /\ t.todo \subseteq c.plan

Books ==
  /\ \A h \in Handlers : task[h].pc = "idle" <=> task[h].seen = None
  /\ cacheLock # Nobody => cached = None
  /\ \A s \in Sets : ~Alive(s, cached, task) => set[s] = NoChangeset
  /\ \A h \in Handlers : OfThePlan(task[h], set[task[h].cs])

LEMMA BooksInit == Init => Books /\ Book!Init
<1> SUFFICES ASSUME Init PROVE Books /\ Book!Init
  OBVIOUS
<1>1. /\ \A h \in Handlers : task[h] = Idle
      /\ \A s \in Sets : set[s] = NoChangeset
      /\ cached = None /\ cacheLock = Nobody
  BY DEF Init
<1>2. Idle.pc = "idle" /\ Idle.seen = None
  BY DEF Idle
<1>3. /\ NoChangeset.sha = None /\ NoChangeset.holder = Nobody /\ NoChangeset.plan = {}
      /\ NoChangeset.ran = {} /\ ~NoChangeset.planned /\ ~NoChangeset.applied
      /\ NoChangeset.aborted = FALSE
  BY DEF NoChangeset
<1>4. Books
  BY <1>1, <1>2 DEF Books, OfThePlan
<1>5. \A s \in Sets : ~Applied(s)
  BY <1>1, <1>2 DEF Applied
<1> QED
  BY <1>1, <1>2, <1>3, <1>4, <1>5
     DEF Book!Init, AskedNow, AtNow, HolderNow, PlanNow, LeftNow, StateNow, BrokenNow, Rested

(* A command that has its ChangeSet works on it alone. *)
LEMMA WorksAlone ==
  ASSUME IInv, NEW h \in Handlers, task[h].pc \in Locking, NEW s, s = task[h].cs
  PROVE  /\ s \in Sets /\ HolderNow[s] = h /\ AtNow[s] = set[s].sha
         /\ PlanNow[s] = set[s].plan /\ LeftNow[s] = set[s].plan \ set[s].ran
         /\ BrokenNow[s] = set[s].aborted
         /\ StateNow[s] = StateFor(task[h], set[s])
<1>1. s \in Sets /\ set[s].holder = h
  BY Owner
<1>2. Applied(s) <=> task[h].pc = "apply"
  BY Owner DEF Applied, Locking
<1> QED
  BY <1>1, <1>2 DEF HolderNow, AtNow, PlanNow, LeftNow, BrokenNow, StateNow, StateFor

LEMMA Works ==
  ASSUME IInv, IInv', Books, NEW h \in Handlers, task[h].pc \in Locking,
         NEW s, s = task[h].cs,
         \A k \in Handlers \ {h} : task'[k] = task[k],
         \A r \in Sets \ {s} : set'[r] = set[r],
         task'[h].pc \in Locking, task'[h].cs = s, task'[h].seen = task[h].seen,
         set'[s].sha = set[s].sha, OfThePlan(task'[h], set'[s]),
         UNCHANGED <<cached, cacheLock>>
  PROVE  /\ Books'
         /\ UNCHANGED <<AskedNow, AtNow, HolderNow>>
         /\ PlanNow' = [PlanNow EXCEPT ![s] = set'[s].plan]
         /\ LeftNow' = [LeftNow EXCEPT ![s] = set'[s].plan \ set'[s].ran]
         /\ BrokenNow' = [BrokenNow EXCEPT ![s] = set'[s].aborted]
         /\ StateNow' = [StateNow EXCEPT ![s] = StateFor(task'[h], set'[s])]
<1>1. /\ s \in Sets /\ set[s].holder = h /\ task[h].cs # None
      /\ \A k \in Handlers \ {h} : task[k].pc \in Locking => task[k].cs # s
  BY Owner, Bounds
<1>2. set'[s].holder = h
  BY <1>1 DEF IInv, LockIsHeldByACommand
<1>3. \A k \in Handlers : task'[k].cs = task[k].cs /\ task'[k].seen = task[k].seen
  OBVIOUS
<1>4. UNCHANGED <<AskedNow, AtNow, HolderNow>>
  BY <1>1, <1>2, <1>3 DEF AskedNow, AtNow, HolderNow
<1>5. Applied(s)' <=> task'[h].pc = "apply"
  BY <1>1 DEF Applied, Locking
<1>6. \A r \in Sets \ {s} : Applied(r)' <=> Applied(r)
  BY <1>1 DEF Applied
<1>7. StateNow' = [StateNow EXCEPT ![s] = StateFor(task'[h], set'[s])]
  BY <1>1, <1>5, <1>6 DEF StateNow, StateFor
<1>8. /\ PlanNow' = [PlanNow EXCEPT ![s] = set'[s].plan]
      /\ LeftNow' = [LeftNow EXCEPT ![s] = set'[s].plan \ set'[s].ran]
      /\ BrokenNow' = [BrokenNow EXCEPT ![s] = set'[s].aborted]
  BY <1>1 DEF PlanNow, LeftNow, BrokenNow
<1>9. Books'
  <2>1. \A k \in Handlers : task'[k].pc = "idle" <=> task'[k].seen = None
    BY <1>3 DEF Books, Locking
  <2>2. \A r \in Sets : Alive(r, cached', task') <=> Alive(r, cached, task)
    BY <1>3 DEF Alive
  <2>3. Alive(s, cached, task)
    BY DEF Alive
  <2>4. ASSUME NEW r \in Sets, ~Alive(r, cached', task') PROVE set'[r] = NoChangeset
    BY <2>2, <2>3, <2>4 DEF Books
  <2>5. ASSUME NEW k \in Handlers \ {h} PROVE OfThePlan(task'[k], set'[task'[k].cs])
    <3>1. CASE task[k].pc = "apply"
      <4>1. task[k].cs \in Sets \ {s}
        BY <1>1, <3>1, Owner DEF Locking
      <4> QED
        BY <4>1 DEF Books
    <3>2. CASE task[k].pc # "apply"
      BY <3>2 DEF OfThePlan
    <3> QED
      BY <3>1, <3>2
  <2>6. cacheLock' # Nobody => cached' = None
    BY DEF Books
  <2> QED
    BY <2>1, <2>4, <2>5, <2>6 DEF Books
<1> QED
  BY <1>4, <1>7, <1>8, <1>9

(* A step that brings the plan no further.                                 *)
LEMMA WorksQuietly ==
  ASSUME IInv, IInv', Books, NEW h \in Handlers, task[h].pc \in Locking,
         NEW s, s = task[h].cs,
         \A k \in Handlers \ {h} : task'[k] = task[k],
         \A r \in Sets \ {s} : set'[r] = set[r],
         task'[h].pc \in Locking, task'[h].cs = s, task'[h].seen = task[h].seen,
         /\ set'[s].sha = set[s].sha /\ set'[s].plan = set[s].plan
         /\ set'[s].ran = set[s].ran /\ set'[s].planned = set[s].planned
         /\ set'[s].applied = set[s].applied /\ set'[s].aborted = set[s].aborted,
         task'[h].pc = "apply" <=> task[h].pc = "apply",
         task'[h].pc = "apply" => task'[h].todo \subseteq task[h].todo,
         UNCHANGED <<cached, cacheLock>>
  PROVE  Books' /\ UNCHANGED Book!vars
<1>1. OfThePlan(task'[h], set'[s])
  BY DEF Books, OfThePlan
<1>2. StateFor(task'[h], set'[s]) = StateFor(task[h], set[s])
  BY DEF StateFor, Rested
<1>3. /\ PlanNow = [PlanNow EXCEPT ![s] = PlanNow[s]]
      /\ LeftNow = [LeftNow EXCEPT ![s] = LeftNow[s]]
      /\ BrokenNow = [BrokenNow EXCEPT ![s] = BrokenNow[s]]
      /\ StateNow = [StateNow EXCEPT ![s] = StateNow[s]]
  BY DEF PlanNow, LeftNow, BrokenNow, StateNow
<1>4. /\ Books'
      /\ UNCHANGED <<AskedNow, AtNow, HolderNow>>
      /\ PlanNow' = [PlanNow EXCEPT ![s] = set'[s].plan]
      /\ LeftNow' = [LeftNow EXCEPT ![s] = set'[s].plan \ set'[s].ran]
      /\ BrokenNow' = [BrokenNow EXCEPT ![s] = set'[s].aborted]
      /\ StateNow' = [StateNow EXCEPT ![s] = StateFor(task'[h], set'[s])]
  BY <1>1, Works
<1>5. /\ PlanNow[s] = set[s].plan /\ LeftNow[s] = set[s].plan \ set[s].ran
      /\ BrokenNow[s] = set[s].aborted /\ StateNow[s] = StateFor(task[h], set[s])
  BY WorksAlone
<1>6. UNCHANGED <<PlanNow, LeftNow, BrokenNow, StateNow>>
  BY <1>2, <1>3, <1>4, <1>5
<1> QED
  BY <1>4, <1>6 DEF Book!vars

-----------------------------------------------------------------------------
(* The end of ChangeSets, alone or with the command that had one.          *)

KeepsPlans(se) ==
  \A r \in Sets : /\ se[r].sha = set[r].sha /\ se[r].plan = set[r].plan
                  /\ se[r].ran = set[r].ran /\ se[r].planned = set[r].planned
                  /\ se[r].applied = set[r].applied /\ se[r].aborted = set[r].aborted
Dying(ca, ta) == {s \in Sets : ~Alive(s, ca, ta)}

(* What is forgotten was nobody's, or the leaving command's.               *)
LEMMA SettleForgets ==
  ASSUME IInv, Books, NEW h \in Handlers, task[h].pc # "apply",
         NEW t \in Task, t.cs = None \/ t.cs = task[h].cs, t.pc # "apply",
         t.pc = "idle" <=> t.seen = None,
         NEW se, NEW ca \in Sets \cup {None}, cached' = ca,
         se \in [Sets -> Changeset],
         KeepsPlans(se),
         cacheLock' # Nobody => cached' = None,
         Settle(se, ca, [task EXCEPT ![h] = t])
  PROVE  /\ Books'
         /\ Book!Forget(Dying(ca, [task EXCEPT ![h] = t]))
         /\ \A r \in Dying(ca, [task EXCEPT ![h] = t]), k \in Handlers \ {h} : task[k].cs # r
         /\ \A k \in Handlers \ {h} : task'[k].seen = task[k].seen
         /\ task'[h].seen = t.seen
<1> DEFINE ta == [task EXCEPT ![h] = t]
<1>0. /\ task \in [Handlers -> Task] /\ set \in [Sets -> Changeset] /\ cwd \in Dirs
      /\ \A k \in Handlers : task[k].cs \in Sets \cup {None}
  BY DEF IInv, TypeOK, Task
<1>1. /\ ta \in [Handlers -> Task] /\ ta[h] = t
      /\ \A k \in Handlers \ {h} : ta[k] = task[k]
  BY <1>0
<1>2. Settle(se, ca, ta)
  OBVIOUS
<1> HIDE DEF ta
<1>3. \A s \in Sets : set'[s] = IF Alive(s, ca, ta) THEN se[s] ELSE NoChangeset
  BY <1>2 DEF Settle
<1>4. \A k \in Handlers : /\ task'[k].pc = ta[k].pc /\ task'[k].cs = ta[k].cs
                          /\ task'[k].seen = ta[k].seen /\ task'[k].todo = ta[k].todo
  <2>1. \A k \in Handlers : Same(task'[k], ta[k])
    BY <1>0, <1>1, <1>2, SettleKeeps
  <2> QED
    BY <2>1 DEF Same
<1>5. \A k \in Handlers \ {h} : /\ task'[k].pc = task[k].pc /\ task'[k].cs = task[k].cs
                                /\ task'[k].seen = task[k].seen
                                /\ task'[k].todo = task[k].todo
  BY <1>1, <1>4
<1>6. task'[h].pc = t.pc /\ task'[h].seen = t.seen /\ task'[h].cs = t.cs
  BY <1>1, <1>4
<1>7. \A s \in Sets : Alive(s, cached', task') <=> Alive(s, ca, ta)
  BY <1>4 DEF Alive
<1>8. \A s \in Sets : Applied(s)' <=> Applied(s)
  BY <1>5, <1>6 DEF Applied
<1>9. \A s \in Sets : Applied(s) => Alive(s, ca, ta)
  BY <1>1 DEF Applied, Alive
<1>10. Books'
  <2>1. \A k \in Handlers : task'[k].pc = "idle" <=> task'[k].seen = None
    BY <1>5, <1>6 DEF Books
  <2>2. \A s \in Sets : ~Alive(s, cached', task') => set'[s] = NoChangeset
    BY <1>3, <1>7
  <2>3. ASSUME NEW k \in Handlers PROVE OfThePlan(task'[k], set'[task'[k].cs])
    <3>1. CASE k # h /\ task[k].pc = "apply"
      <4>1. task[k].cs \in Sets /\ Alive(task[k].cs, ca, ta)
        BY <1>0, <1>1, <3>1 DEF IInv, TypeOK, Locking, Alive
      <4>2. set'[task[k].cs] = se[task[k].cs]
        BY <1>3, <4>1
      <4>3. OfThePlan(task[k], set[task[k].cs])
        BY DEF Books
      <4> QED
        BY <1>5, <3>1, <4>1, <4>2, <4>3 DEF OfThePlan, KeepsPlans
    <3>2. CASE ~(k # h /\ task[k].pc = "apply")
      BY <1>5, <1>6, <3>2 DEF OfThePlan
    <3> QED
      BY <3>1, <3>2
  <2> QED
    BY <2>1, <2>2, <2>3 DEF Books
<1>11. /\ NoChangeset.sha = None /\ NoChangeset.plan = {} /\ NoChangeset.ran = {}
       /\ ~NoChangeset.planned /\ ~NoChangeset.applied /\ NoChangeset.aborted = FALSE
  BY DEF NoChangeset
<1>12. Book!Forget(Dying(ca, ta))
  <2>0. ASSUME NEW s \in Sets
        PROVE  /\ set'[s].sha = IF s \in Dying(ca, ta) THEN None ELSE set[s].sha
               /\ set'[s].plan = IF s \in Dying(ca, ta) THEN {} ELSE set[s].plan
               /\ set'[s].plan \ set'[s].ran
                    = IF s \in Dying(ca, ta) THEN {} ELSE set[s].plan \ set[s].ran
               /\ set'[s].aborted = IF s \in Dying(ca, ta) THEN FALSE ELSE set[s].aborted
    <3>1. CASE s \in Dying(ca, ta)
      <4>1. set'[s] = NoChangeset
        BY <1>3, <3>1 DEF Dying
      <4> QED
        BY <1>11, <3>1, <4>1
    <3>2. CASE s \notin Dying(ca, ta)
      <4>1. set'[s] = se[s]
        BY <1>3, <3>2 DEF Dying
      <4> QED
        BY <3>2, <4>1 DEF KeepsPlans
    <3> QED
      BY <3>1, <3>2
  <2>1. AtNow' = [s \in Sets |-> IF s \in Dying(ca, ta) THEN None ELSE AtNow[s]]
    BY <2>0 DEF AtNow
  <2>2. PlanNow' = [s \in Sets |-> IF s \in Dying(ca, ta) THEN {} ELSE PlanNow[s]]
    BY <2>0 DEF PlanNow
  <2>3. LeftNow' = [s \in Sets |-> IF s \in Dying(ca, ta) THEN {} ELSE LeftNow[s]]
    BY <2>0 DEF LeftNow
  <2>4. BrokenNow' = [s \in Sets |-> IF s \in Dying(ca, ta) THEN FALSE ELSE BrokenNow[s]]
    BY <2>0 DEF BrokenNow
  <2>5. StateNow' = [s \in Sets |-> IF s \in Dying(ca, ta) THEN "none" ELSE StateNow[s]]
    <3>1. ASSUME NEW s \in Sets
          PROVE  (IF Applied(s)' THEN "running" ELSE Rested(set'[s]))
                   = IF s \in Dying(ca, ta) THEN "none"
                     ELSE IF Applied(s) THEN "running" ELSE Rested(set[s])
      BY <1>3, <1>8, <1>9, <1>11 DEF Dying, Rested, KeepsPlans
    <3> QED
      BY <3>1 DEF StateNow, Dying
  <2> QED
    BY <2>1, <2>2, <2>3, <2>4, <2>5 DEF Book!Forget
<1>13. \A r \in Dying(ca, ta) : \A k \in Handlers \ {h} : task[k].cs # r
  BY <1>1 DEF Dying, Alive
<1> QED
  BY <1>5, <1>6, <1>10, <1>12, <1>13 DEF ta

(* A command that returns takes with it what only it kept.                 *)
LEMMA ReturnLeaves ==
  ASSUME IInv, Books, NEW h \in Handlers, task[h].pc \notin {"apply", "idle"}, Return(h),
         UNCHANGED cached,
         cacheLock' = IF task[h].pc = "build" THEN Nobody ELSE cacheLock
  PROVE  Books' /\ \E D \in SUBSET Sets : Book!Leave(h, D)
<1> DEFINE se == IF task[h].cs \in Sets /\ set[task[h].cs].holder = h
                 THEN [set EXCEPT ![task[h].cs].holder = Nobody] ELSE set
           ta == [task EXCEPT ![h] = Idle]
           D == Dying(cached, ta)
<1>1. Settle(se, cached, ta)
  BY DEF Return
<1>2. /\ set \in [Sets -> Changeset] /\ task \in [Handlers -> Task]
  BY DEF IInv, TypeOK
<1>3. /\ se \in [Sets -> Changeset]
      /\ \A r \in Sets : /\ se[r].sha = set[r].sha /\ se[r].plan = set[r].plan
                         /\ se[r].ran = set[r].ran /\ se[r].planned = set[r].planned
                         /\ se[r].applied = set[r].applied
                         /\ se[r].aborted = set[r].aborted
                         /\ se[r].holder = IF set[r].holder = h THEN Nobody ELSE set[r].holder
  <2>1. \A r \in Sets : set[r].holder = h => r = task[h].cs
    BY DEF IInv, LockIsHeldByACommand
  <2> QED
    BY <1>2, <2>1 DEF Changeset
<1>4. Idle.pc = "idle" /\ Idle.seen = None /\ Idle.cs = None /\ Idle \in Task
  BY Blank DEF Idle
<1>5. cacheLock' # Nobody => cached' = None
  BY DEF Books
<1> HIDE DEF se
<1>6. /\ Books' /\ Book!Forget(D)
      /\ \A r \in D : \A k \in Handlers \ {h} : task[k].cs # r
      /\ \A k \in Handlers \ {h} : task'[k].seen = task[k].seen
      /\ task'[h].seen = None
  <2>1. KeepsPlans(se)
    BY <1>3 DEF KeepsPlans
  <2>2. Idle.cs = None /\ Idle.pc # "apply" /\ (Idle.pc = "idle" <=> Idle.seen = None)
    BY <1>4
  <2>3. se \in [Sets -> Changeset] /\ cached' = cached
    BY <1>3
  <2>4. cached \in Sets \cup {None}
    BY DEF IInv, TypeOK
  <2>5. task[h].pc # "apply" /\ Settle(se, cached, [task EXCEPT ![h] = Idle])
    BY <1>1
  <2>6. /\ Books'
        /\ Book!Forget(Dying(cached, [task EXCEPT ![h] = Idle]))
        /\ \A r \in Dying(cached, [task EXCEPT ![h] = Idle]), k \in Handlers \ {h} :
             task[k].cs # r
        /\ \A k \in Handlers \ {h} : task'[k].seen = task[k].seen
        /\ task'[h].seen = Idle.seen
    BY <1>4, <1>5, <2>4, <2>5, <2>1, <2>2, <2>3, SettleForgets
  <2> QED
    BY <1>4, <2>6
<1>7. AskedNow[h] # None /\ AskedNow' = [AskedNow EXCEPT ![h] = None]
  BY <1>6 DEF AskedNow, Books
<1>8. \A s \in Sets : HolderNow[s] = h => StateNow[s] # "running"
  <2>1. ASSUME NEW s \in Sets, set[s].holder = h PROVE ~Applied(s)
    <3>1. task[h].pc \in Locking /\ task[h].cs = s
      BY <2>1 DEF IInv, LockIsHeldByACommand
    <3> QED
      BY <3>1, Owner DEF Applied, Locking
  <2>2. \A s \in Sets : Rested(set[s]) # "running"
    BY DEF Rested
  <2> QED
    BY <2>1, <2>2 DEF HolderNow, StateNow
<1>9. D \in SUBSET Sets /\ \A s \in D : HolderNow[s] \in {Nobody, h}
  <2>1. ASSUME NEW s \in D PROVE set[s].holder \in {Nobody, h}
    <3>1. s \in Sets /\ set[s].holder \in Handlers \cup {Nobody}
      BY <1>2 DEF Dying, Changeset
    <3>2. ASSUME NEW k \in Handlers \ {h} PROVE set[s].holder # k
      <4>1. task[k].cs # s
        BY <1>6
      <4> QED
        BY <3>1, <4>1 DEF IInv, LockIsHeldByACommand
    <3> QED
      BY <3>1, <3>2
  <2> QED
    BY <2>1 DEF HolderNow, Dying
<1>10. HolderNow' = [s \in Sets |-> IF HolderNow[s] = h THEN Nobody ELSE HolderNow[s]]
  <2>1. ASSUME NEW s \in Sets
        PROVE  set'[s].holder = IF set[s].holder = h THEN Nobody ELSE set[s].holder
    <3>1. set'[s] = IF Alive(s, cached, ta) THEN se[s] ELSE NoChangeset
      BY <1>1 DEF Settle
    <3>2. s \in D => set[s].holder \in {Nobody, h}
      BY <1>9 DEF HolderNow
    <3> QED
      BY <1>3, <3>1, <3>2, BlankFields DEF Dying
  <2> QED
    BY <2>1 DEF HolderNow
<1>11. Book!Leave(h, D)
  BY <1>6, <1>7, <1>8, <1>9, <1>10 DEF Book!Leave
<1> QED
  BY <1>6, <1>9, <1>11

-----------------------------------------------------------------------------
(* The steps before a command has its ChangeSet, and the one that takes it. *)
LEMMA WaitsQuietly ==
  ASSUME IInv, Books, NEW h \in Handlers, task[h].pc # "apply",
         \A k \in Handlers \ {h} : task'[k] = task[k],
         task'[h].pc \notin {"apply", "idle"}, task'[h].seen # None,
         \A r \in Sets : /\ set'[r].plan = set[r].plan /\ set'[r].ran = set[r].ran
                         /\ set'[r].planned = set[r].planned
                         /\ set'[r].applied = set[r].applied
                         /\ set'[r].aborted = set[r].aborted,
         \A r \in Sets : ~Alive(r, cached', task') => set'[r] = NoChangeset,
         cacheLock' # Nobody => cached' = None
  PROVE  Books' /\ UNCHANGED <<PlanNow, LeftNow, StateNow, BrokenNow>>
<1>1. \A r \in Sets : Applied(r)' <=> Applied(r)
  BY DEF Applied
<1>2. \A r \in Sets : Rested(set'[r]) = Rested(set[r])
  BY DEF Rested
<1>3. UNCHANGED StateNow
  BY <1>1, <1>2 DEF StateNow
<1>4. UNCHANGED <<PlanNow, LeftNow, BrokenNow>>
  BY DEF PlanNow, LeftNow, BrokenNow
<1>5. \A k \in Handlers : task'[k].pc = "idle" <=> task'[k].seen = None
  BY DEF Books
<1>6. ASSUME NEW k \in Handlers PROVE OfThePlan(task'[k], set'[task'[k].cs])
  <2>1. CASE k # h /\ task[k].pc = "apply"
    <3>1. task[k].cs \in Sets /\ task'[k] = task[k]
      BY <2>1, Owner DEF Locking
    <3>2. OfThePlan(task[k], set[task[k].cs])
      BY DEF Books
    <3> QED
      BY <3>1, <3>2 DEF OfThePlan
  <2>2. CASE ~(k # h /\ task[k].pc = "apply")
    BY <2>2 DEF OfThePlan
  <2> QED
    BY <2>1, <2>2
<1> QED
  BY <1>3, <1>4, <1>5, <1>6 DEF Books

LEMMA WebhookAsks ==
  ASSUME IInv, Books, NEW h \in Handlers, NEW cmd \in Commands, NEW scope \in SUBSET Objects,
         Webhook(h, cmd, scope)
  PROVE  Books' /\ \E c \in Heads : Book!Ask(h, c)
<1>1. /\ task \in [Handlers -> Task] /\ task[h] \in Task /\ head \in Heads
      /\ task[h].pc = "idle"
  BY DEF IInv, TypeOK, Webhook
<1>2. /\ task'[h].pc = "fetched" /\ task'[h].seen = head /\ task'[h].cs = task[h].cs
      /\ \A k \in Handlers \ {h} : task'[k] = task[k]
      /\ UNCHANGED <<cached, cacheLock, set>>
  BY <1>1 DEF Webhook, Task
<1>3. head # None
  BY <1>1, MaxHeadAssumption DEF Heads, None
<1>4. \A r \in Sets : Alive(r, cached', task') <=> Alive(r, cached, task)
  BY <1>2 DEF Alive
<1>5. \A r \in Sets : ~Alive(r, cached', task') => set'[r] = NoChangeset
  BY <1>2, <1>4 DEF Books
<1>6. cacheLock' # Nobody => cached' = None
  BY <1>2 DEF Books
<1>7. Books' /\ UNCHANGED <<PlanNow, LeftNow, StateNow, BrokenNow>>
  BY <1>1, <1>2, <1>3, <1>5, <1>6, WaitsQuietly
<1>8. UNCHANGED <<AtNow, HolderNow>>
  BY <1>2 DEF AtNow, HolderNow
<1>9. AskedNow[h] = None /\ AskedNow' = [AskedNow EXCEPT ![h] = head]
  BY <1>1, <1>2 DEF AskedNow, Books
<1>10. Book!Ask(h, head)
  BY <1>7, <1>8, <1>9 DEF Book!Ask
<1> QED
  BY <1>1, <1>7, <1>10

LEMMA CacheHitIsQuiet ==
  ASSUME IInv, Books, NEW h \in Handlers, CacheHit(h)
  PROVE  Books' /\ UNCHANGED Book!vars
<1>1. /\ task \in [Handlers -> Task] /\ task[h] \in Task /\ task[h].pc = "fetched"
      /\ cached \in Sets
  BY DEF IInv, TypeOK, CacheHit
<1>2. /\ task'[h].pc = "lock" /\ task'[h].seen = task[h].seen /\ task'[h].cs = cached
      /\ \A k \in Handlers \ {h} : task'[k] = task[k]
      /\ UNCHANGED <<cached, cacheLock, set>>
  BY <1>1 DEF CacheHit, Task
<1>3. task[h].seen # None /\ task[h].cs = None
  BY <1>1 DEF Books, IInv, TypeOK, Locking
<1>4. \A r \in Sets : ~Alive(r, cached', task') => ~Alive(r, cached, task)
  BY <1>2, <1>3, Bounds DEF Alive
<1>5. \A r \in Sets : ~Alive(r, cached', task') => set'[r] = NoChangeset
  BY <1>2, <1>4 DEF Books
<1>6. cacheLock' # Nobody => cached' = None
  BY <1>2 DEF Books
<1>7. Books' /\ UNCHANGED <<PlanNow, LeftNow, StateNow, BrokenNow>>
  BY <1>1, <1>2, <1>3, <1>5, <1>6, WaitsQuietly
<1>8. UNCHANGED <<AskedNow, AtNow, HolderNow>>
  BY <1>2 DEF AskedNow, AtNow, HolderNow
<1> QED
  BY <1>7, <1>8 DEF Book!vars

(* The entry of another head is removed: nobody works on what this ends.   *)
LEMMA CacheMissEvicts ==
  ASSUME IInv, Books, NEW h \in Handlers, CacheMiss(h)
  PROVE  Books' /\ \E D \in SUBSET Sets : Book!Evict(D)
<1> DEFINE t == [task[h] EXCEPT !.pc = "build"]
           D == Dying(None, [task EXCEPT ![h] = t])
<1>1. /\ task \in [Handlers -> Task] /\ task[h] \in Task /\ task[h].pc = "fetched"
      /\ set \in [Sets -> Changeset]
  BY DEF IInv, TypeOK, CacheMiss
<1>2. t \in Task /\ t.pc = "build" /\ t.seen = task[h].seen /\ t.cs = None
  BY <1>1 DEF Task, PC, IInv, TypeOK, Locking
<1>3. Settle(set, None, [task EXCEPT ![h] = t])
  BY <1>1 DEF CacheMiss
<1>4. t.pc # "apply" /\ (t.pc = "idle" <=> t.seen = None) /\ task[h].pc # "apply"
  BY <1>1, <1>2 DEF Books
<1>5. KeepsPlans(set) /\ cached' = None /\ (cacheLock' # Nobody => cached' = None)
  BY DEF KeepsPlans, CacheMiss
<1> HIDE DEF t
<1>6. /\ Books'
      /\ Book!Forget(Dying(None, [task EXCEPT ![h] = t]))
      /\ \A r \in Dying(None, [task EXCEPT ![h] = t]), k \in Handlers \ {h} : task[k].cs # r
      /\ \A k \in Handlers \ {h} : task'[k].seen = task[k].seen
      /\ task'[h].seen = t.seen
  <2>1. t \in Task /\ t.cs = None /\ set \in [Sets -> Changeset] /\ None \in Sets \cup {None}
    BY <1>1, <1>2
  <2> QED
    BY <1>3, <1>4, <1>5, <2>1, SettleForgets
<1>7. UNCHANGED AskedNow
  BY <1>2, <1>6 DEF AskedNow
<1>8. \A s \in D : s \in Sets /\ set[s].holder = Nobody
  <2>1. ASSUME NEW s \in D, NEW k \in Handlers PROVE set[s].holder # k
    <3>1. s \in Sets
      BY DEF Dying
    <3>2. CASE k = h
      BY <1>1, <3>1, <3>2 DEF IInv, LockIsHeldByACommand, Locking
    <3>3. CASE k # h
      <4>1. task[k].cs # s
        BY <1>6, <3>3
      <4> QED
        BY <3>1, <4>1 DEF IInv, LockIsHeldByACommand
    <3> QED
      BY <3>2, <3>3
  <2>2. \A s \in D : s \in Sets /\ set[s].holder \in Handlers \cup {Nobody}
    BY <1>1 DEF Dying, Changeset
  <2> QED
    BY <2>1, <2>2
<1>9. UNCHANGED HolderNow
  <2>1. ASSUME NEW s \in Sets PROVE set'[s].holder = set[s].holder
    <3>1. set'[s] = IF s \in D THEN NoChangeset ELSE set[s]
      BY <1>3 DEF Settle, Dying
    <3>2. s \in D => set[s].holder = NoChangeset.holder
      BY <1>8, BlankFields
    <3> QED
      BY <3>1, <3>2
  <2> QED
    BY <2>1 DEF HolderNow
<1>10. D \in SUBSET Sets /\ \A s \in D : HolderNow[s] = Nobody
  BY <1>8 DEF HolderNow
<1>11. Book!Evict(D)
  BY <1>6, <1>7, <1>9, <1>10 DEF Book!Evict
<1> QED
  BY <1>6, <1>10, <1>11

LEMMA BuildOkOpens ==
  ASSUME IInv, Books, NEW h \in Handlers, BuildOk(h)
  PROVE  Books' /\ \E s \in Sets, c \in Heads : Book!Open(s, c)
<1>1. PICK s \in Sets :
        /\ ~Alive(s, cached, task)
        /\ set' = [set EXCEPT ![s].sha = task[h].seen]
        /\ cached' = s
        /\ task' = [task EXCEPT ![h].pc = "lock", ![h].cs = s]
  <2> DEFINE free == {i \in Sets : ~Alive(i, cached, task)}
  <2>1. (CHOOSE i \in free : TRUE) \in free
    BY DEF BuildOk
  <2> QED
    BY <2>1 DEF BuildOk
<1>2. /\ task \in [Handlers -> Task] /\ task[h] \in Task /\ task[h].pc = "build"
      /\ set \in [Sets -> Changeset] /\ cacheLock = h
  BY DEF IInv, TypeOK, BuildOk
<1>3. /\ task'[h].pc = "lock" /\ task'[h].seen = task[h].seen /\ task'[h].cs = s
      /\ \A k \in Handlers \ {h} : task'[k] = task[k]
  BY <1>1, <1>2 DEF Task
<1>4. /\ task[h].seen # None /\ task[h].seen \in Heads /\ task[h].cs = None
      /\ cached = None /\ set[s] = NoChangeset
  <2>1. task[h].seen # None /\ cached = None /\ set[s] = NoChangeset
    BY <1>1, <1>2, NobodyAssumption DEF Books
  <2> QED
    BY <1>2, <2>1 DEF IInv, TypeOK, Locking, Task
<1>5. /\ \A r \in Sets \ {s} : set'[r] = set[r]
      /\ set'[s] = [set[s] EXCEPT !.sha = task[h].seen]
  BY <1>1, <1>2
<1>6. /\ set'[s].sha = task[h].seen /\ set'[s].holder = set[s].holder
      /\ set'[s].plan = set[s].plan
      /\ set'[s].ran = set[s].ran /\ set'[s].planned = set[s].planned
      /\ set'[s].applied = set[s].applied /\ set'[s].aborted = set[s].aborted
  BY <1>2, <1>5 DEF Changeset
<1>7. \A r \in Sets : ~Alive(r, cached', task') => r # s /\ ~Alive(r, cached, task)
  BY <1>1, <1>3, <1>4, Bounds DEF Alive
<1>8. \A r \in Sets : ~Alive(r, cached', task') => set'[r] = NoChangeset
  BY <1>5, <1>7 DEF Books
<1>9. cacheLock' = Nobody
  BY DEF BuildOk
<1>10. \A r \in Sets : /\ set'[r].plan = set[r].plan /\ set'[r].ran = set[r].ran
                      /\ set'[r].planned = set[r].planned
                      /\ set'[r].applied = set[r].applied
                      /\ set'[r].aborted = set[r].aborted
  BY <1>5, <1>6
<1>11. /\ task[h].pc # "apply" /\ task'[h].pc \notin {"apply", "idle"}
      /\ task'[h].seen # None
  BY <1>2, <1>3, <1>4
<1>12. Books' /\ UNCHANGED <<PlanNow, LeftNow, StateNow, BrokenNow>>
  BY <1>3, <1>8, <1>9, <1>10, <1>11, WaitsQuietly
<1>13. UNCHANGED <<AskedNow, HolderNow>>
  BY <1>3, <1>5, <1>6 DEF AskedNow, HolderNow
<1>14. AtNow[s] = None /\ AtNow' = [AtNow EXCEPT ![s] = task[h].seen]
  BY <1>4, <1>5, <1>6, BlankFields DEF AtNow
<1>15. Book!Open(s, task[h].seen)
  BY <1>12, <1>13, <1>14 DEF Book!Open
<1> QED
  BY <1>4, <1>12, <1>15

(* A command takes only a ChangeSet of its own head, and a free one.       *)
LEMMA TryLockTakes ==
  ASSUME IInv, Books, NEW h \in Handlers, TryLock(h)
  PROVE  Books' /\ \E s \in Sets : Book!Take(h, s)
<1> DEFINE s == task[h].cs
<1>1. /\ task \in [Handlers -> Task] /\ task[h] \in Task /\ task[h].pc = "lock"
      /\ set \in [Sets -> Changeset] /\ s \in Sets /\ set[s].holder = Nobody
      /\ task[h].cs # None
  BY DEF IInv, TypeOK, TryLock, Task
<1>2. /\ task'[h].pc = "clone" /\ task'[h].seen = task[h].seen /\ task'[h].cs = task[h].cs
      /\ \A k \in Handlers \ {h} : task'[k] = task[k]
      /\ UNCHANGED <<cached, cacheLock>>
  BY <1>1 DEF TryLock, Task
<1>3. /\ \A r \in Sets \ {s} : set'[r] = set[r]
      /\ set'[s] = [set[s] EXCEPT !.holder = h]
  BY <1>1 DEF TryLock
<1> HIDE DEF s
<1>4. /\ set'[s].sha = set[s].sha /\ set'[s].holder = h /\ set'[s].plan = set[s].plan
      /\ set'[s].ran = set[s].ran /\ set'[s].planned = set[s].planned
      /\ set'[s].applied = set[s].applied /\ set'[s].aborted = set[s].aborted
  BY <1>1, <1>3 DEF Changeset
<1>5. task[h].seen # None
  BY <1>1 DEF Books
<1>6. \A r \in Sets : ~Alive(r, cached', task') => r # s /\ ~Alive(r, cached, task)
  BY <1>2 DEF Alive, s
<1>7. \A r \in Sets : ~Alive(r, cached', task') => set'[r] = NoChangeset
  BY <1>3, <1>6 DEF Books
<1>8. cacheLock' # Nobody => cached' = None
  BY <1>2 DEF Books
<1>9. \A r \in Sets : /\ set'[r].plan = set[r].plan /\ set'[r].ran = set[r].ran
                      /\ set'[r].planned = set[r].planned
                      /\ set'[r].applied = set[r].applied
                      /\ set'[r].aborted = set[r].aborted
  BY <1>3, <1>4
<1>10. /\ task[h].pc # "apply" /\ task'[h].pc \notin {"apply", "idle"}
      /\ task'[h].seen # None
  BY <1>1, <1>2, <1>5
<1>11. Books' /\ UNCHANGED <<PlanNow, LeftNow, StateNow, BrokenNow>>
  BY <1>2, <1>7, <1>8, <1>9, <1>10, WaitsQuietly
<1>12. UNCHANGED <<AskedNow, AtNow>>
  BY <1>2, <1>3, <1>4 DEF AskedNow, AtNow
<1>13. /\ HolderNow[s] = Nobody
       /\ HolderNow' = [HolderNow EXCEPT ![s] = h]
  BY <1>1, <1>3, <1>4 DEF HolderNow
<1>14. \A r \in Sets : HolderNow[r] # h
  BY <1>1 DEF HolderNow, IInv, LockIsHeldByACommand, Locking
<1>15. AskedNow[h] # None /\ AtNow[s] = AskedNow[h]
  BY <1>1, <1>5 DEF AskedNow, AtNow, IInv, AtSeenHead, s
<1>16. Book!Take(h, s)
  BY <1>11, <1>12, <1>13, <1>14, <1>15 DEF Book!Take
<1> QED
  BY <1>1, <1>11, <1>16

-----------------------------------------------------------------------------
(* The steps of a command that has its ChangeSet.                          *)
LEMMA EnterFields ==
  ASSUME IInv, NEW h \in Handlers, task[h].pc \in Locking,
         NEW d, NEW pc, NEW todo, Enter(h, d, pc, todo)
  PROVE  /\ task'[h].pc = pc /\ task'[h].todo = todo /\ task'[h].cs = task[h].cs
         /\ task'[h].seen = task[h].seen
         /\ \A k \in Handlers \ {h} : task'[k] = task[k]
<1>1. task \in [Handlers -> Task] /\ task[h] \in Task
  BY DEF IInv, TypeOK
<1> QED
  BY <1>1 DEF Enter, Task

LEMMA ToReportFields ==
  ASSUME IInv, NEW h \in Handlers, NEW ok, ToReport(h, ok)
  PROVE  /\ task'[h].pc = "report" /\ task'[h].cs = task[h].cs
         /\ task'[h].seen = task[h].seen
         /\ \A k \in Handlers \ {h} : task'[k] = task[k]
<1>1. task \in [Handlers -> Task]
  BY DEF IInv, TypeOK
<1> QED
  BY <1>1 DEF ToReport, Idle

(* The command h goes on to one of the points of pcs.                      *)
GoesTo(h, pcs) ==
  /\ task'[h].pc \in pcs /\ task'[h].cs = task[h].cs /\ task'[h].seen = task[h].seen
  /\ \A k \in Handlers \ {h} : task'[k] = task[k]

(* Steps that leave the ChangeSets as they are, and execute nothing.       *)
LEMMA StaysQuiet ==
  ASSUME IInv, IInv', Books, NEW h \in Handlers, task[h].pc \in Locking,
         \A k \in Handlers \ {h} : task'[k] = task[k],
         task'[h].pc \in Locking, task'[h].cs = task[h].cs, task'[h].seen = task[h].seen,
         task'[h].pc = "apply" <=> task[h].pc = "apply",
         task'[h].pc = "apply" => task'[h].todo \subseteq task[h].todo,
         UNCHANGED <<cached, cacheLock, set>>
  PROVE  Books' /\ UNCHANGED Book!vars
BY WorksQuietly

LEMMA CloneRepoIsQuiet ==
  ASSUME IInv, IInv', Books, NEW h \in Handlers, CloneRepo(h)
  PROVE  Books' /\ UNCHANGED Book!vars
<1> DEFINE s == task[h].cs
           tip == IF set[s].tip = None THEN head ELSE set[s].tip
           c == [set[s] EXCEPT !.tip = tip]
<1>0. task[h].pc = "clone" /\ task[h].pc \in Locking
  BY DEF CloneRepo, Locking
<1>1. /\ task \in [Handlers -> Task] /\ task[h] \in Task /\ s \in Sets
      /\ set \in [Sets -> Changeset] /\ set[s] \in Changeset
  BY <1>0, Owner DEF IInv, TypeOK
<1>2. /\ set' = [set EXCEPT ![s] = c]
      /\ UNCHANGED <<cached, cacheLock>>
  BY <1>1 DEF CloneRepo
<1>3. /\ task'[h].pc \in {"start", "report"} /\ task'[h].cs = s
      /\ task'[h].seen = task[h].seen
      /\ \A k \in Handlers \ {h} : task'[k] = task[k]
  BY <1>1 DEF CloneRepo, Task
<1> HIDE DEF tip
<1>4. /\ c.sha = set[s].sha /\ c.plan = set[s].plan /\ c.ran = set[s].ran
      /\ c.planned = set[s].planned /\ c.applied = set[s].applied
      /\ c.aborted = set[s].aborted
  BY <1>1 DEF Changeset
<1> HIDE DEF c
<1>5. set'[s] = c /\ \A r \in Sets \ {s} : set'[r] = set[r]
  BY <1>1, <1>2
<1>6. task'[h].pc \in Locking /\ task'[h].pc # "apply"
  BY <1>3 DEF Locking
<1> QED
  BY <1>0, <1>2, <1>3, <1>4, <1>5, <1>6, WorksQuietly

LEMMA ObjectsAreQuiet ==
  ASSUME IInv, NEW h \in Handlers, NEW o \in Objects,
         PlanObjectFails(h, o) \/ \E ops \in BOOLEAN : PlanObject(h, o, ops)
  PROVE  GoesTo(h, {"plan"})
<1>1. task \in [Handlers -> Task] /\ task[h] \in Task
  BY DEF IInv, TypeOK
<1>2. PICK ops \in BOOLEAN : PlanObjectFails(h, o) \/ PlanObject(h, o, ops)
  OBVIOUS
<1> DEFINE draft == IF ops THEN task[h].draft \cup {o} ELSE task[h].draft
<1>3. CASE task' = [task EXCEPT ![h].todo = {}] /\ task[h].pc = "plan"
  BY <1>1, <1>3 DEF GoesTo, Task
<1>4. CASE /\ task' = [task EXCEPT ![h].todo = task[h].todo \ {o}, ![h].draft = draft]
           /\ task[h].pc = "plan"
  <2> HIDE DEF draft
  <2> QED
    BY <1>1, <1>4 DEF GoesTo, Task
<1>5. CASE PlanObjectFails(h, o)
  BY <1>3, <1>5 DEF PlanObjectFails
<1>6. CASE PlanObject(h, o, ops)
  <2>1. task' = [task EXCEPT ![h].todo = task[h].todo \ {o}, ![h].draft = draft]
    BY <1>1, <1>6 DEF PlanObject
  <2>2. task[h].pc = "plan"
    BY <1>6 DEF PlanObject
  <2> QED
    BY <1>4, <2>1, <2>2
<1> QED
  BY <1>2, <1>5, <1>6

LEMMA PlanningIsQuiet ==
  ASSUME IInv, IInv', Books, NEW h \in Handlers,
         \/ StartPlan(h) \/ PlanAborts(h) \/ ApplyRefused(h)
         \/ \E o \in Objects, ops \in BOOLEAN : PlanObject(h, o, ops)
         \/ \E o \in Objects : PlanObjectFails(h, o)
  PROVE  Books' /\ UNCHANGED Book!vars
<1>0. task[h].pc \in {"start", "plan"} /\ task[h].pc \in Locking
  BY DEF StartPlan, PlanAborts, ApplyRefused, PlanObject, PlanObjectFails, Locking
<1>1. UNCHANGED <<cached, cacheLock, set>>
  BY DEF StartPlan, PlanAborts, ApplyRefused, PlanObject, PlanObjectFails
<1>2. task \in [Handlers -> Task] /\ task[h] \in Task
  BY DEF IInv, TypeOK
<1>3. GoesTo(h, {"plan", "report"})
  <2>1. CASE StartPlan(h)
    BY <1>0, <2>1, EnterFields DEF GoesTo, StartPlan
  <2>2. CASE PlanAborts(h)
    BY <2>2, ToReportFields DEF GoesTo, PlanAborts
  <2>3. CASE ApplyRefused(h)
    BY <1>2, <2>3 DEF GoesTo, ApplyRefused, Task
  <2>4. CASE GoesTo(h, {"plan"})
    BY <2>4 DEF GoesTo
  <2> QED
    BY <2>1, <2>2, <2>3, <2>4, ObjectsAreQuiet
<1>4. task'[h].pc \in Locking /\ task'[h].pc # "apply" /\ task[h].pc # "apply"
  BY <1>0, <1>3 DEF GoesTo, Locking
<1> QED
  BY <1>0, <1>1, <1>3, <1>4, StaysQuiet DEF GoesTo

LEMMA ImportIsQuiet ==
  ASSUME IInv, IInv', Books, NEW h \in Handlers,
         \/ StartImport(h) \/ ImportPush(h) \/ ImportEnds(h)
         \/ \E o \in Objects : ImportNext(h, o)
  PROVE  Books' /\ UNCHANGED Book!vars
<1>0. task[h].pc \in {"start", "import"} /\ task[h].pc \in Locking
  BY DEF StartImport, ImportPush, ImportEnds, ImportNext, Locking
<1>1. UNCHANGED <<cached, cacheLock, set>>
  BY DEF StartImport, ImportPush, ImportEnds, ImportNext
<1>2. task \in [Handlers -> Task] /\ task[h] \in Task
  BY DEF IInv, TypeOK
<1>3. GoesTo(h, {"import", "report"})
  <2>1. CASE StartImport(h)
    BY <1>0, <2>1, EnterFields DEF GoesTo, StartImport
  <2>2. CASE ImportEnds(h)
    BY <2>2, ToReportFields DEF GoesTo, ImportEnds
  <2>3. CASE ImportPush(h)
    BY <1>2, <2>3 DEF GoesTo, ImportPush, Task
  <2>4. ASSUME NEW o \in Objects, ImportNext(h, o) PROVE GoesTo(h, {"import", "report"})
    BY <1>0, <2>4, EnterFields DEF GoesTo, ImportNext
  <2> QED
    BY <2>1, <2>2, <2>3, <2>4
<1>4. task'[h].pc \in Locking /\ task'[h].pc # "apply" /\ task[h].pc # "apply"
  BY <1>0, <1>3 DEF GoesTo, Locking
<1> QED
  BY <1>0, <1>1, <1>3, <1>4, StaysQuiet DEF GoesTo

LEMMA PushIsQuiet ==
  ASSUME IInv, IInv', Books, NEW h \in Handlers, NEW o \in Objects, PushOutputs(h, o)
  PROVE  Books' /\ UNCHANGED Book!vars
<1>1. /\ task \in [Handlers -> Task] /\ task[h] \in Task
      /\ task[h].pc = "apply" /\ task[h].pc \in Locking
  BY DEF IInv, TypeOK, PushOutputs, Locking
<1>2. /\ task'[h].pc = "apply" /\ task'[h].cs = task[h].cs
      /\ task'[h].seen = task[h].seen /\ task'[h].todo = task[h].todo
      /\ \A k \in Handlers \ {h} : task'[k] = task[k]
  BY <1>1 DEF PushOutputs, Task
<1>3. UNCHANGED <<cached, cacheLock, set>>
  BY DEF PushOutputs
<1> QED
  BY <1>1, <1>2, <1>3, StaysQuiet

(* A plan is stored by the command that made it, in its own ChangeSet.     *)
LEMMA PlanDoneStores ==
  ASSUME IInv, IInv', Books, NEW h \in Handlers, PlanDone(h)
  PROVE  Books' /\ \E s \in Sets, reports \in SUBSET Objects : Book!Store(h, s, reports)
<1> DEFINE s == task[h].cs
           c == [set[s] EXCEPT !.planned = TRUE, !.plan = task[h].draft,
                               !.applied = FALSE, !.ran = {}, !.aborted = FALSE]
<1>0. task[h].pc = "plan" /\ task[h].pc \in Locking
  BY DEF PlanDone, Locking
<1>1. /\ s \in Sets /\ set \in [Sets -> Changeset] /\ set[s] \in Changeset
      /\ task[h] \in Task /\ task[h].draft \in SUBSET Objects
  <2>1. task[h] \in Task
    BY <1>0, Owner
  <2> QED
    BY <1>0, <2>1, Owner DEF IInv, TypeOK, Task
<1>2. set' = [set EXCEPT ![s] = c]
  BY <1>1 DEF PlanDone
<1>3. /\ c.sha = set[s].sha /\ c.planned /\ c.plan = task[h].draft /\ ~c.applied
      /\ c.ran = {} /\ c.aborted = FALSE
  BY <1>1 DEF Changeset
<1> HIDE DEF c
<1>4. set'[s] = c /\ \A r \in Sets \ {s} : set'[r] = set[r]
  BY <1>1, <1>2
<1>5. /\ task'[h].pc = "report" /\ task'[h].cs = s /\ task'[h].seen = task[h].seen
      /\ \A k \in Handlers \ {h} : task'[k] = task[k]
  BY ToReportFields DEF PlanDone
<1>6. /\ OfThePlan(task'[h], set'[s]) /\ task'[h].pc \in Locking
      /\ StateFor(task'[h], set'[s]) = "stored"
  BY <1>3, <1>4, <1>5 DEF OfThePlan, Locking, StateFor, Rested
<1>7. UNCHANGED <<cached, cacheLock>>
  BY DEF PlanDone
<1>8. set'[s].sha = set[s].sha
  BY <1>3, <1>4
<1> HIDE DEF s
<1>9. s = task[h].cs
  BY DEF s
<1>10. /\ Books'
       /\ UNCHANGED <<AskedNow, AtNow, HolderNow>>
       /\ PlanNow' = [PlanNow EXCEPT ![s] = set'[s].plan]
       /\ LeftNow' = [LeftNow EXCEPT ![s] = set'[s].plan \ set'[s].ran]
       /\ BrokenNow' = [BrokenNow EXCEPT ![s] = set'[s].aborted]
       /\ StateNow' = [StateNow EXCEPT ![s] = StateFor(task'[h], set'[s])]
  BY <1>0, <1>4, <1>5, <1>6, <1>7, <1>8, <1>9, Works
<1>11. /\ PlanNow' = [PlanNow EXCEPT ![s] = task[h].draft]
       /\ LeftNow' = [LeftNow EXCEPT ![s] = task[h].draft]
       /\ BrokenNow' = [BrokenNow EXCEPT ![s] = FALSE]
       /\ StateNow' = [StateNow EXCEPT ![s] = "stored"]
  <2>1. /\ set'[s].plan = task[h].draft /\ set'[s].plan \ set'[s].ran = task[h].draft
        /\ set'[s].aborted = FALSE
    BY <1>3, <1>4
  <2> QED
    BY <1>6, <1>10, <2>1
<1>12. HolderNow[s] = h /\ StateNow[s] # "running"
  <2>1. HolderNow[s] = h /\ StateNow[s] = StateFor(task[h], set[s])
    BY <1>0, <1>9, WorksAlone
  <2> QED
    BY <1>0, <2>1 DEF StateFor, Rested
<1>13. Book!Store(h, s, task[h].draft)
  BY <1>10, <1>11, <1>12 DEF Book!Store
<1> QED
  BY <1>1, <1>10, <1>13

(* Only a plan that is stored, and not yet executed, is begun.             *)
LEMMA StartApplyBegins ==
  ASSUME IInv, IInv', Books, NEW h \in Handlers, StartApply(h)
  PROVE  Books' /\ \E s \in Sets : Book!Begin(h, s)
<1> DEFINE s == task[h].cs
<1>0. task[h].pc = "start" /\ task[h].pc \in Locking
  BY DEF StartApply, Locking
<1>1. s \in Sets /\ s = task[h].cs
  BY <1>0, Owner
<1>2. set[s].planned /\ ~set[s].applied /\ UNCHANGED <<cached, cacheLock, set>>
  BY DEF StartApply
<1>3. /\ task'[h].pc = "apply" /\ task'[h].cs = s /\ task'[h].seen = task[h].seen
      /\ task'[h].todo \subseteq set[s].plan
      /\ \A k \in Handlers \ {h} : task'[k] = task[k]
  BY <1>0, EnterFields DEF StartApply
<1> HIDE DEF s
<1>4. /\ OfThePlan(task'[h], set'[s]) /\ task'[h].pc \in Locking
      /\ StateFor(task'[h], set'[s]) = "running"
  BY <1>2, <1>3 DEF OfThePlan, Locking, StateFor
<1>5. /\ Books'
      /\ UNCHANGED <<AskedNow, AtNow, HolderNow>>
      /\ PlanNow' = [PlanNow EXCEPT ![s] = set'[s].plan]
      /\ LeftNow' = [LeftNow EXCEPT ![s] = set'[s].plan \ set'[s].ran]
      /\ BrokenNow' = [BrokenNow EXCEPT ![s] = set'[s].aborted]
      /\ StateNow' = [StateNow EXCEPT ![s] = StateFor(task'[h], set'[s])]
  BY <1>0, <1>1, <1>2, <1>3, <1>4, Works
<1>6. UNCHANGED <<PlanNow, LeftNow, BrokenNow>>
  BY <1>2 DEF PlanNow, LeftNow, BrokenNow
<1>7. HolderNow[s] = h /\ StateNow[s] = "stored"
  <2>1. HolderNow[s] = h /\ StateNow[s] = StateFor(task[h], set[s])
    BY <1>0, <1>1, WorksAlone
  <2> QED
    BY <1>0, <1>2, <2>1 DEF StateFor, Rested
<1>8. Book!Begin(h, s)
  BY <1>4, <1>5, <1>6, <1>7 DEF Book!Begin
<1> QED
  BY <1>1, <1>5, <1>8

(* A report is of the stored plan, and executed for the first time unless  *)
(* an apply of the plan broke off.                                         *)
LEMMA ExecExecutes ==
  ASSUME IInv, IInv', Books, NEW h \in Handlers, NEW o \in Objects,
         ExecFails(h, o) \/ \E outputs \in BOOLEAN : ExecOk(h, o, outputs)
  PROVE  Books' /\ \E s \in Sets : Book!Execute(h, s, o)
<1> DEFINE s == task[h].cs
           c == [set[s] EXCEPT !.ran = set[s].ran \cup {o}]
<1>0. task[h].pc = "apply" /\ task[h].pc \in Locking /\ o \in task[h].todo
  BY DEF ExecFails, ExecOk, Locking
<1>1. /\ s \in Sets /\ set \in [Sets -> Changeset] /\ set[s] \in Changeset
      /\ task[h] \in Task /\ task \in [Handlers -> Task]
  BY <1>0, Owner DEF IInv, TypeOK
<1>2. set' = [set EXCEPT ![s] = c]
  BY <1>1 DEF ExecFails, ExecOk
<1>3. /\ c.sha = set[s].sha /\ c.planned = set[s].planned /\ c.plan = set[s].plan
      /\ c.applied = set[s].applied
      /\ c.ran = set[s].ran \cup {o} /\ c.aborted = set[s].aborted
  BY <1>1 DEF Changeset
<1> HIDE DEF c
<1>4. set'[s] = c /\ \A r \in Sets \ {s} : set'[r] = set[r]
  BY <1>1, <1>2
<1>5. /\ task'[h].pc = "apply" /\ task'[h].cs = s /\ task'[h].seen = task[h].seen
      /\ task'[h].todo = task[h].todo \ {o}
      /\ \A k \in Handlers \ {h} : task'[k] = task[k]
  <2>1. CASE ExecFails(h, o)
    <3>1. task' = [task EXCEPT ![h].todo = task[h].todo \ {o}]
      BY <1>1, <2>1 DEF ExecFails
    <3> QED
      BY <1>0, <1>1, <3>1 DEF Task
  <2>2. ASSUME NEW outputs \in BOOLEAN, ExecOk(h, o, outputs)
        PROVE  \E wrote, home :
                 task' = [task EXCEPT ![h].todo = task[h].todo \ {o}, ![h].wrote = wrote,
                                      ![h].home = home]
    <3> DEFINE wrote == IF outputs THEN task[h].wrote \cup {o} ELSE task[h].wrote
               home == IF outputs /\ cwd = s THEN task[h].home \cup {o} ELSE task[h].home
    <3>1. task' = [task EXCEPT ![h].todo = task[h].todo \ {o}, ![h].wrote = wrote,
                               ![h].home = home]
      BY <1>1, <2>2 DEF ExecOk
    <3> HIDE DEF wrote, home
    <3> QED
      BY <3>1
  <2>3. ASSUME NEW wrote, NEW home,
               task' = [task EXCEPT ![h].todo = task[h].todo \ {o}, ![h].wrote = wrote,
                                    ![h].home = home]
        PROVE  /\ task'[h].pc = "apply" /\ task'[h].cs = s /\ task'[h].seen = task[h].seen
               /\ task'[h].todo = task[h].todo \ {o}
               /\ \A k \in Handlers \ {h} : task'[k] = task[k]
    BY <1>0, <1>1, <2>3 DEF Task
  <2> QED
    BY <2>1, <2>2, <2>3
<1>6. UNCHANGED <<cached, cacheLock>>
  BY DEF ExecFails, ExecOk
<1>7. /\ set[s].planned /\ ~set[s].applied /\ task[h].todo \subseteq set[s].plan
      /\ set[s].aborted \/ o \notin set[s].ran
  BY <1>0, Owner DEF Books, OfThePlan, ReplayFor
<1>8. /\ OfThePlan(task'[h], set'[s]) /\ set'[s].sha = set[s].sha
      /\ task'[h].pc \in Locking
      /\ StateFor(task'[h], set'[s]) = "running" /\ StateFor(task[h], set[s]) = "running"
  BY <1>0, <1>3, <1>4, <1>5, <1>7 DEF OfThePlan, Locking, StateFor
<1> HIDE DEF s
<1>9. s = task[h].cs
  BY DEF s
<1>10. /\ Books'
       /\ UNCHANGED <<AskedNow, AtNow, HolderNow>>
       /\ PlanNow' = [PlanNow EXCEPT ![s] = set'[s].plan]
       /\ LeftNow' = [LeftNow EXCEPT ![s] = set'[s].plan \ set'[s].ran]
       /\ BrokenNow' = [BrokenNow EXCEPT ![s] = set'[s].aborted]
       /\ StateNow' = [StateNow EXCEPT ![s] = StateFor(task'[h], set'[s])]
  BY <1>0, <1>4, <1>5, <1>6, <1>8, <1>9, Works
<1>11. /\ HolderNow[s] = h /\ StateNow[s] = "running"
       /\ PlanNow[s] = set[s].plan /\ LeftNow[s] = set[s].plan \ set[s].ran
       /\ BrokenNow[s] = set[s].aborted
  BY <1>0, <1>8, <1>9, WorksAlone
<1>12. /\ PlanNow = [PlanNow EXCEPT ![s] = PlanNow[s]]
       /\ BrokenNow = [BrokenNow EXCEPT ![s] = BrokenNow[s]]
       /\ StateNow = [StateNow EXCEPT ![s] = StateNow[s]]
  BY DEF PlanNow, BrokenNow, StateNow
<1>13. UNCHANGED <<PlanNow, BrokenNow, StateNow>>
  BY <1>3, <1>4, <1>8, <1>10, <1>11, <1>12
<1>14. LeftNow' = [LeftNow EXCEPT ![s] = LeftNow[s] \ {o}]
  <2>1. set'[s].plan \ set'[s].ran = (set[s].plan \ set[s].ran) \ {o}
    BY <1>3, <1>4
  <2> QED
    BY <1>10, <1>11, <2>1
<1>15. o \in PlanNow[s] /\ (o \in LeftNow[s] \/ BrokenNow[s])
  BY <1>0, <1>7, <1>11
<1>16. Book!Execute(h, s, o)
  BY <1>10, <1>11, <1>13, <1>14, <1>15 DEF Book!Execute
<1> QED
  BY <1>1, <1>10, <1>16

(* An apply ends: its plan is done, or stored as before and broken.        *)
LEMMA ApplyEnds ==
  ASSUME IInv, IInv', Books, NEW h \in Handlers, ApplyAborts(h) \/ ApplyDone(h)
  PROVE  Books' /\ \E s \in Sets : Book!Break(h, s) \/ Book!Finish(h, s)
<1> DEFINE s == task[h].cs
<1>0. task[h].pc = "apply" /\ task[h].pc \in Locking
  BY DEF ApplyAborts, ApplyDone, Locking
<1>1. s \in Sets /\ set \in [Sets -> Changeset] /\ set[s] \in Changeset
  BY <1>0, Owner DEF IInv, TypeOK
<1>2. /\ task'[h].pc = "report" /\ task'[h].cs = s /\ task'[h].seen = task[h].seen
      /\ \A k \in Handlers \ {h} : task'[k] = task[k]
      /\ UNCHANGED <<cached, cacheLock>>
  BY ToReportFields DEF ApplyAborts, ApplyDone
<1>3. /\ set'[s].sha = set[s].sha /\ set'[s].planned = set[s].planned
      /\ set'[s].plan = set[s].plan /\ set'[s].ran = set[s].ran
      /\ \/ set'[s].aborted = TRUE /\ set'[s].applied = set[s].applied
         \/ set'[s].aborted = set[s].aborted /\ set'[s].applied = TRUE
      /\ \A r \in Sets \ {s} : set'[r] = set[r]
  <2>1. CASE ApplyAborts(h)
    <3>1. set'[s] = [set[s] EXCEPT !.aborted = TRUE] /\ \A r \in Sets \ {s} : set'[r] = set[r]
      BY <1>1, <2>1 DEF ApplyAborts
    <3> QED
      BY <1>1, <3>1 DEF Changeset
  <2>2. CASE ApplyDone(h)
    <3>1. set'[s] = [set[s] EXCEPT !.applied = TRUE] /\ \A r \in Sets \ {s} : set'[r] = set[r]
      BY <1>1, <2>2 DEF ApplyDone
    <3> QED
      BY <1>1, <3>1 DEF Changeset
  <2> QED
    BY <2>1, <2>2
<1>4. set[s].planned /\ ~set[s].applied
  BY <1>0 DEF Books, OfThePlan
<1> HIDE DEF s
<1>5. s = task[h].cs
  BY DEF s
<1>6. OfThePlan(task'[h], set'[s]) /\ task'[h].pc \in Locking
  BY <1>2 DEF OfThePlan, Locking
<1>7. /\ Books'
      /\ UNCHANGED <<AskedNow, AtNow, HolderNow>>
      /\ PlanNow' = [PlanNow EXCEPT ![s] = set'[s].plan]
      /\ LeftNow' = [LeftNow EXCEPT ![s] = set'[s].plan \ set'[s].ran]
      /\ BrokenNow' = [BrokenNow EXCEPT ![s] = set'[s].aborted]
      /\ StateNow' = [StateNow EXCEPT ![s] = StateFor(task'[h], set'[s])]
  BY <1>0, <1>2, <1>3, <1>5, <1>6, Works
<1>8. /\ HolderNow[s] = h /\ StateNow[s] = StateFor(task[h], set[s])
      /\ PlanNow[s] = set[s].plan /\ LeftNow[s] = set[s].plan \ set[s].ran
      /\ BrokenNow[s] = set[s].aborted
  BY <1>0, <1>5, WorksAlone
<1>9. StateNow[s] = "running"
  BY <1>0, <1>8 DEF StateFor
<1>10. /\ PlanNow = [PlanNow EXCEPT ![s] = PlanNow[s]]
       /\ LeftNow = [LeftNow EXCEPT ![s] = LeftNow[s]]
       /\ BrokenNow = [BrokenNow EXCEPT ![s] = BrokenNow[s]]
  BY DEF PlanNow, LeftNow, BrokenNow
<1>11. UNCHANGED <<PlanNow, LeftNow>>
  BY <1>3, <1>7, <1>8, <1>10
<1>12. StateFor(task'[h], set'[s]) = Rested(set'[s])
  BY <1>2 DEF StateFor
<1>13. CASE set'[s].aborted = TRUE /\ set'[s].applied = set[s].applied
  <2>1. Rested(set'[s]) = "stored"
    BY <1>3, <1>4, <1>13 DEF Rested
  <2>2. Book!Break(h, s)
    BY <1>7, <1>8, <1>9, <1>11, <1>12, <1>13, <2>1 DEF Book!Break
  <2> QED
    BY <1>1, <1>7, <2>2 DEF s
<1>14. CASE set'[s].aborted = set[s].aborted /\ set'[s].applied = TRUE
  <2>1. Rested(set'[s]) = "done"
    BY <1>14 DEF Rested
  <2>2. UNCHANGED BrokenNow
    BY <1>7, <1>8, <1>10, <1>14
  <2>3. Book!Finish(h, s)
    BY <1>7, <1>8, <1>9, <1>11, <1>12, <2>1, <2>2 DEF Book!Finish
  <2> QED
    BY <1>1, <1>7, <2>3 DEF s
<1> QED
  BY <1>3, <1>13, <1>14

LEMMA BooksStep == IInv /\ Books /\ [Next]_vars => Books' /\ [Book!Next]_(Book!vars)
<1> SUFFICES ASSUME IInv, Books, [Next]_vars
             PROVE  Books' /\ (Book!Next \/ UNCHANGED Book!vars)
  OBVIOUS
<1>0. IInv'
  BY InvStep
<1>1. ASSUME NEW h \in Handlers, NEW cmd \in Commands, NEW scope \in SUBSET Objects,
             Webhook(h, cmd, scope)
      PROVE  Books' /\ Book!Next
  BY <1>1, WebhookAsks DEF Book!Next
<1>2. ASSUME NEW h \in Handlers, Lookup(h)
      PROVE  Books' /\ (Book!Next \/ UNCHANGED Book!vars)
  <2>1. CASE CacheHit(h)
    BY <2>1, CacheHitIsQuiet
  <2>2. CASE CacheMiss(h)
    BY <2>2, CacheMissEvicts DEF Book!Next
  <2> QED
    BY <1>2, <2>1, <2>2 DEF Lookup
<1>3. ASSUME NEW h \in Handlers, Proceed(h)
      PROVE  Books' /\ (Book!Next \/ UNCHANGED Book!vars)
  <2>1. CASE BuildOk(h)
    BY <2>1, BuildOkOpens DEF Book!Next
  <2>2. CASE BuildFails(h) \/ LockHeld(h) \/ Fails(h) \/ Reported(h)
    <3>1. /\ task[h].pc \in {"build", "lock", "clone", "start", "report"}
          /\ Return(h) /\ UNCHANGED cached
          /\ cacheLock' = IF task[h].pc = "build" THEN Nobody ELSE cacheLock
      BY <2>2 DEF BuildFails, LockHeld, Fails, Reported
    <3> QED
      BY <3>1, ReturnLeaves DEF Book!Next
  <2>3. CASE TryLock(h)
    BY <2>3, TryLockTakes DEF Book!Next
  <2>4. CASE CloneRepo(h)
    BY <1>0, <2>4, CloneRepoIsQuiet
  <2>5. CASE \/ StartPlan(h) \/ PlanAborts(h) \/ ApplyRefused(h)
             \/ \E o \in Objects, ops \in BOOLEAN : PlanObject(h, o, ops)
             \/ \E o \in Objects : PlanObjectFails(h, o)
    BY <1>0, <2>5, PlanningIsQuiet
  <2>6. CASE PlanDone(h)
    BY <1>0, <2>6, PlanDoneStores DEF Book!Next
  <2>7. CASE StartApply(h)
    BY <1>0, <2>7, StartApplyBegins DEF Book!Next
  <2>8. ASSUME NEW o \in Objects,
               ExecFails(h, o) \/ \E outputs \in BOOLEAN : ExecOk(h, o, outputs)
        PROVE  Books' /\ Book!Next
    BY <1>0, <2>8, ExecExecutes DEF Book!Next
  <2>9. ASSUME NEW o \in Objects, PushOutputs(h, o)
        PROVE  Books' /\ UNCHANGED Book!vars
    BY <1>0, <2>9, PushIsQuiet
  <2>10. CASE ApplyAborts(h) \/ ApplyDone(h)
    BY <1>0, <2>10, ApplyEnds DEF Book!Next
  <2>11. CASE \/ StartImport(h) \/ ImportPush(h) \/ ImportEnds(h)
              \/ \E o \in Objects : ImportNext(h, o)
    BY <1>0, <2>11, ImportIsQuiet
  <2> HIDE DEF Book!Next
  <2> QED
    BY <1>3, <2>1, <2>2, <2>3, <2>4, <2>5, <2>6, <2>7, <2>8, <2>9, <2>10, <2>11
       DEF Proceed
<1>4. CASE UserPush \/ UNCHANGED vars
  <2>1. UNCHANGED <<cached, cacheLock, set, task>>
    BY <1>4 DEF UserPush, vars
  <2>2. Books' /\ UNCHANGED <<AskedNow, AtNow, HolderNow, PlanNow, LeftNow, BrokenNow>>
    BY <2>1 DEF Books, Alive, AskedNow, AtNow, HolderNow, PlanNow, LeftNow, BrokenNow
  <2>3. UNCHANGED StateNow
    BY <2>1 DEF StateNow, Applied
  <2> QED
    BY <2>2, <2>3 DEF Book!vars
<1> QED
  BY <1>1, <1>2, <1>3, <1>4 DEF Next

(* Of all the commands of a pull request, whatever heads, evictions,       *)
(* failures and repeated commands lie in between: a stored plan belongs to *)
(* one ChangeSet, one command at a time executes it, each of its reports   *)
(* once unless an apply of it broke off, and no plan that was applied is   *)
(* applied again (ChangeSet::plan, ChangeSet::apply, ChangeSetCache).      *)
THEOREM PullRequestKeepsItsPlans == Spec => Book!Spec
<1>1. IInv /\ [Next]_vars => IInv'
  BY InvStep
<1>2. Init => IInv
  BY InvInit
<1> QED
  BY <1>1, <1>2, BooksInit, BooksStep, PTL DEF Spec, Book!Spec

-----------------------------------------------------------------------------
(* What a command of the pull request may do (Approvals).                  *)

RbacJobs == [kind : {"plan", "import", "apply", "pull"}, user : Users, cfg : Configs,
         todo : SUBSET Targets, did : SUBSET Targets,
         fetched : BOOLEAN, approvals : SUBSET Users]

-----------------------------------------------------------------------------
(* The decisions.                                                          *)

(* Where allows_read says yes, some role of the user has a grant that is   *)
(* not None and covers the connector.                                      *)
LEMMA ReadIsGranted ==
  ASSUME NEW cfg, NEW u, NEW t, AllowsRead(cfg, u, t)
  PROVE  MayRead(cfg, u, t)
BY DEF AllowsRead, MayRead, GrantsForPrefix, RolesForUser, Names, Covers

(* What the gate of apply lets through has a grant, and an approving user  *)
(* who holds the role of the grant: roles that are equal have the same     *)
(* users.                                                                  *)
LEMMA ApplyIsGranted ==
  ASSUME NEW cfg, NEW u, NEW t, NEW A,
         \/ AllowsApplyWithoutApproval(cfg, u, t)
         \/ AllowsApplyIfApprovedBy(cfg, u, t, A)
  PROVE  MayModify(cfg, u, t, A)
<1>1. CASE AllowsApplyWithoutApproval(cfg, u, t)
  <2>1. PICK r \in DOMAIN cfg :
          /\ u \in cfg[r].users /\ t[1] \in DOMAIN cfg[r].prefixes
          /\ cfg[r].prefixes[t[1]].grant = "Apply"
          /\ Names(cfg[r].prefixes[t[1]], t[2])
    BY <1>1 DEF AllowsApplyWithoutApproval, GrantsForPrefix, RolesForUser
  <2> QED
    BY <2>1 DEF MayModify, Names, Covers
<1>2. CASE AllowsApplyIfApprovedBy(cfg, u, t, A)
  <2>1. PICK r \in DOMAIN cfg :
          /\ u \in cfg[r].users /\ t[1] \in DOMAIN cfg[r].prefixes
          /\ cfg[r].prefixes[t[1]].grant = "ApplyIfApprovedBy"
          /\ cfg[r].prefixes[t[1]].role \in DOMAIN cfg
          /\ \E a \in A : \E q \in RolesForUser(cfg, a) : cfg[q] = cfg[cfg[r].prefixes[t[1]].role]
          /\ Covers(cfg[r].prefixes[t[1]], t[2])
    BY <1>2 DEF AllowsApplyIfApprovedBy, GrantsForPrefix, RolesForUser, Covers
  <2>2. PICK a \in A : a \in cfg[cfg[r].prefixes[t[1]].role].users
    BY <2>1 DEF RolesForUser
  <2> QED
    BY <2>1, <2>2 DEF MayModify
<1> QED
  BY <1>1, <1>2

(* More approving users never take a permission away.                      *)
LEMMA MoreApprovers ==
  ASSUME NEW cfg, NEW u, NEW t, NEW A, NEW B, A \subseteq B, MayModify(cfg, u, t, A)
  PROVE  MayModify(cfg, u, t, B)
BY DEF MayModify

-----------------------------------------------------------------------------
(* The types.                                                              *)

LEMMA ApprovingUsers == \A rs : Approving(rs) \subseteq Users
BY DEF Approving

LEMMA NoJobIsNone == NoJob.kind = "none" /\ NoJob.did = {} /\ NoJob.todo = {} /\ ~NoJob.fetched
                      /\ NoJob.approvals = {}
BY DEF NoJob

LEMMA RunningJob ==
  ASSUME RbacTypeOK
  PROVE  /\ Running => job \in RbacJobs
         /\ ~Running => job = NoJob
BY NoJobIsNone DEF RbacTypeOK, RbacJobs, Running

(* RbacTypeOK holds at first.                                                  *)
LEMMA RbacTypeInit == RbacInit => RbacTypeOK
<1> SUFFICES ASSUME RbacInit PROVE RbacTypeOK
  OBVIOUS
<1>1. merges \in 0 .. MaxMerges /\ reviews \in Seq([user : Users, state : States])
  BY BoundsAssumption DEF RbacInit
<1>2. ~job.fetched => job.approvals = {}
  BY NoJobIsNone DEF RbacInit
<1>3. since \in [configs : SUBSET (Configs \cup {NoConfig}), approvers : SUBSET Users]
  BY DEF RbacInit
<1> QED
  BY <1>1, <1>2, <1>3 DEF RbacInit, RbacTypeOK

LEMMA SeenTypes ==
  ASSUME RbacTypeOK, NEW c \in Configs \cup {NoConfig}, NEW rs, Seen(c, rs)
  PROVE  since' \in [configs : SUBSET (Configs \cup {NoConfig}), approvers : SUBSET Users]
BY ApprovingUsers DEF RbacTypeOK, Seen

(* A command that begins has a job of the right type.                      *)
LEMMA BeginTypes ==
  ASSUME RbacTypeOK, NEW u \in Users, NEW kind \in {"plan", "import", "apply", "pull"},
         NEW targets \in SUBSET Targets, Begin(u, kind, targets)
  PROVE  RbacTypeOK'
<1>1. PICK todo \in SUBSET targets :
        job' = [kind |-> kind, user |-> u, cfg |-> rbac, todo |-> todo, did |-> {},
                fetched |-> FALSE, approvals |-> {}]
  BY DEF Begin
<1>2. job' \in RbacJobs /\ job'.did = {} /\ job'.approvals = {}
  BY <1>1 DEF Begin, RbacTypeOK, RbacJobs
<1>3. since' \in [configs : SUBSET (Configs \cup {NoConfig}), approvers : SUBSET Users]
  BY ApprovingUsers DEF Begin, RbacTypeOK
<1> QED
  BY <1>2, <1>3 DEF Begin, RbacTypeOK, RbacJobs

LEMMA StepTypes ==
  ASSUME RbacTypeOK, NEW t \in job.todo, Step(t)
  PROVE  RbacTypeOK' /\ since' = since
<1>0. job \in RbacJobs
  BY RunningJob, NoJobIsNone DEF Step, Read, Pull, FetchApprovals, Execute, Running
<1>1. t \in Targets
  BY <1>0 DEF RbacJobs
<1>2. CASE Leave(t)
  <2>1. job' \in RbacJobs /\ (~job'.fetched => job'.approvals = {})
    BY <1>0, <1>2 DEF Leave, RbacJobs, RbacTypeOK
  <2> QED
    BY <1>2, <2>1 DEF Leave, RbacTypeOK, RbacJobs
<1>3. CASE Do(t)
  <2>1. job' \in RbacJobs /\ (~job'.fetched => job'.approvals = {})
    BY <1>0, <1>1, <1>3 DEF Do, RbacJobs, RbacTypeOK
  <2> QED
    BY <1>3, <2>1 DEF Do, RbacTypeOK, RbacJobs
<1>4. CASE FetchApprovals(t)
  <2>1. job' \in RbacJobs /\ job'.fetched
    BY <1>0, <1>4, ApprovingUsers DEF FetchApprovals, RbacJobs, RbacTypeOK
  <2> QED
    BY <1>4, <2>1 DEF FetchApprovals, RbacTypeOK, RbacJobs
<1> QED
  BY <1>2, <1>3, <1>4 DEF Step, Read, Pull, Execute

(* Every step keeps the types.                                             *)
LEMMA RbacTypeStep == RbacTypeOK /\ [RbacNext]_rbacVars => RbacTypeOK'
<1> SUFFICES ASSUME RbacTypeOK, [RbacNext]_rbacVars PROVE RbacTypeOK'
  OBVIOUS
<1>1. CASE Merge
  <2>1. rbac' \in Configs \cup {NoConfig} /\ Seen(rbac', reviews)
    BY <1>1 DEF Merge
  <2>2. since' \in [configs : SUBSET (Configs \cup {NoConfig}), approvers : SUBSET Users]
    BY <2>1, SeenTypes
  <2>3. merges' \in 0 .. MaxMerges
    BY <1>1, BoundsAssumption DEF Merge, RbacTypeOK
  <2> QED
    BY <1>1, <2>1, <2>2, <2>3 DEF Merge, RbacTypeOK
<1>2. ASSUME NEW u \in Users, Review(u) PROVE RbacTypeOK'
  <2>1. PICK s \in States \ {"Dismissed"} : reviews' = Append(reviews, [user |-> u, state |-> s])
    BY <1>2 DEF Review
  <2>2. reviews' \in Seq([user : Users, state : States])
    BY <2>1 DEF RbacTypeOK
  <2> QED
    BY <1>2, <2>2, SeenTypes DEF Review, RbacTypeOK
<1>3. ASSUME NEW i \in DOMAIN reviews, Dismiss(i) PROVE RbacTypeOK'
  <2>0. reviews \in Seq([user : Users, state : States])
    BY DEF RbacTypeOK
  <2>1. reviews[i] \in [user : Users, state : States]
    BY <1>3, <2>0, ElementOfSeq, LenProperties
  <2>2. reviews' = [reviews EXCEPT ![i] = [reviews[i] EXCEPT !.state = "Dismissed"]]
    BY <1>3 DEF Dismiss
  <2>3. [reviews[i] EXCEPT !.state = "Dismissed"] \in [user : Users, state : States]
    BY <2>1 DEF States
  <2>4. reviews' \in Seq([user : Users, state : States])
    BY <2>2, <2>3 DEF RbacTypeOK
  <2> QED
    BY <1>3, <2>4, SeenTypes DEF Dismiss, RbacTypeOK
<1>4. CASE Push
  BY <1>4 DEF Push, RbacTypeOK
<1>5. ASSUME NEW u \in Users, Command(u) PROVE RbacTypeOK'
  <2>1. CASE Plan(u) \/ Import(u) \/ PullState(u)
    BY <1>5, <2>1, BeginTypes DEF Plan, Import, PullState
  <2>2. CASE Apply(u)
    <3>1. plan \in SUBSET Targets
      BY <2>2 DEF Apply, RbacTypeOK
    <3> QED
      BY <1>5, <2>2, <3>1, BeginTypes DEF Apply
  <2> QED
    BY <1>5, <2>1, <2>2 DEF Command
<1>6. ASSUME NEW t \in job.todo, Step(t) PROVE RbacTypeOK'
  BY <1>6, StepTypes
<1>7. CASE Finish
  <2>1. plan' \in {NoPlan} \cup SUBSET Targets
    BY <1>7, RunningJob DEF Finish, RbacTypeOK, RbacJobs
  <2>2. spent' \in BOOLEAN
    BY <1>7 DEF Finish, RbacTypeOK
  <2> QED
    BY <1>7, <2>1, <2>2, NoJobIsNone DEF Finish, RbacTypeOK
<1>8. CASE Fail
  BY <1>8, NoJobIsNone DEF Fail, RbacTypeOK
<1>9. CASE UNCHANGED rbacVars
  BY <1>9 DEF rbacVars, RbacTypeOK
<1> QED
  BY <1>1, <1>2, <1>3, <1>4, <1>5, <1>6, <1>7, <1>8, <1>9 DEF RbacNext, GitHub

(* The types of the variables, for all configurations and any number of    *)
(* users, targets and reviews (ChangeSet, PlanReportSet).                  *)
THEOREM RbacTypeCorrect == RbacSpec => []RbacTypeOK
BY RbacTypeInit, RbacTypeStep, PTL DEF RbacSpec

-----------------------------------------------------------------------------
(* What a command goes by was there after it had begun.                    *)

Recent ==
  Running => /\ job.cfg \in since.configs \ {NoConfig}
             /\ job.approvals \subseteq since.approvers
             /\ Approving(reviews) \subseteq since.approvers

RbacInv == RbacTypeOK /\ Recent /\ NeverMoreThanGranted

LEMMA RbacInvInit == RbacInit => RbacInv
BY RbacTypeInit, NoJobIsNone DEF RbacInit, RbacInv, Recent, NeverMoreThanGranted, Running

(* What is seen later does not make what was done wrong.                   *)
LEMMA SeenKeeps ==
  ASSUME RbacInv, NEW c, Seen(c, reviews'), job' = job
  PROVE  Recent' /\ NeverMoreThanGranted'
<1>1. CASE ~Running
  BY <1>1, RunningJob, NoJobIsNone DEF RbacInv, Recent, NeverMoreThanGranted, Running
<1>2. CASE Running
  <2>1. since.configs \subseteq since'.configs /\ since.approvers \subseteq since'.approvers
    BY <1>2 DEF Seen
  <2>0. Approving(reviews)' \subseteq since'.approvers
    BY <1>2 DEF Seen, Approving
  <2>2. Recent'
    BY <2>1, <2>0 DEF RbacInv, Recent, Running
  <2>3. ASSUME NEW t \in job.did, job.kind # "pull"
        PROVE  \E cfg \in since'.configs \ {NoConfig} :
                 IF job.kind = "apply" THEN MayModify(cfg, job.user, t, since'.approvers)
                                       ELSE MayRead(cfg, job.user, t)
    <3>1. PICK cfg \in since.configs \ {NoConfig} :
            IF job.kind = "apply" THEN MayModify(cfg, job.user, t, since.approvers)
                                  ELSE MayRead(cfg, job.user, t)
      BY <2>3 DEF RbacInv, NeverMoreThanGranted
    <3> QED
      BY <2>1, <3>1, MoreApprovers
  <2>4. NeverMoreThanGranted'
    BY <2>3 DEF NeverMoreThanGranted
  <2> QED
    BY <2>2, <2>4
<1> QED
  BY <1>1, <1>2

(* A command that ended has done nothing.                                  *)
LEMMA IdleKeeps ==
  ASSUME job' = NoJob
  PROVE  Recent' /\ NeverMoreThanGranted'
BY NoJobIsNone DEF Recent, NeverMoreThanGranted, Running

LEMMA BeginKeeps ==
  ASSUME RbacInv, NEW u \in Users, NEW kind, NEW targets, Begin(u, kind, targets)
  PROVE  Recent' /\ NeverMoreThanGranted'
BY DEF RbacInv, Begin, Recent, NeverMoreThanGranted, Running

(* What a step does was allowed by what the command had read.              *)
LEMMA StepKeeps ==
  ASSUME RbacInv, NEW t \in job.todo, Step(t)
  PROVE  Recent' /\ NeverMoreThanGranted'
<1>0. job \in RbacJobs /\ Running
  BY RunningJob, NoJobIsNone DEF RbacInv, Step, Read, Pull, FetchApprovals, Execute, Running
<1>1. since' = since /\ Approving(reviews)' = Approving(reviews)
  <2>1. reviews' = reviews
    BY DEF Step, Read, Pull, FetchApprovals, Execute, Do, Leave
  <2> QED
    BY <2>1, StepTypes DEF RbacInv, Approving
<1>2. CASE Leave(t)
  <2>1. /\ job'.kind = job.kind /\ job'.user = job.user /\ job'.cfg = job.cfg
        /\ job'.did = job.did /\ job'.approvals = job.approvals
    BY <1>0, <1>2 DEF Leave, RbacJobs
  <2>2. Recent'
    BY <1>1, <2>1 DEF RbacInv, Recent, Running
  <2>3. NeverMoreThanGranted'
    BY <1>1, <2>1 DEF RbacInv, NeverMoreThanGranted
  <2> QED
    BY <2>2, <2>3
<1>3. CASE FetchApprovals(t)
  <2>1. /\ job'.kind = job.kind /\ job'.user = job.user /\ job'.cfg = job.cfg
        /\ job'.did = job.did /\ job'.approvals = Approving(reviews)
    BY <1>0, <1>3 DEF FetchApprovals, RbacJobs
  <2>2. Recent'
    BY <1>1, <2>1 DEF RbacInv, Recent, Running
  <2>3. NeverMoreThanGranted'
    BY <1>1, <2>1 DEF RbacInv, NeverMoreThanGranted
  <2> QED
    BY <2>2, <2>3
<1>4. CASE /\ Do(t)
            /\ \/ job.kind = "pull"
               \/ job.kind \in {"plan", "import"} /\ AllowsRead(job.cfg, job.user, t)
               \/ job.kind = "apply" /\ MayApply(t)
  <2>1. /\ job'.kind = job.kind /\ job'.user = job.user /\ job'.cfg = job.cfg
        /\ job'.did = job.did \cup {t} /\ job'.approvals = job.approvals
    BY <1>0, <1>4 DEF Do, RbacJobs
  <2>2. Recent'
    BY <1>1, <2>1 DEF RbacInv, Recent, Running
  <2>3. \/ job.kind = "pull"
        \/ IF job.kind = "apply" THEN MayModify(job.cfg, job.user, t, since.approvers)
                                 ELSE MayRead(job.cfg, job.user, t)
    <3>1. CASE job.kind \in {"plan", "import"} /\ AllowsRead(job.cfg, job.user, t)
      BY <3>1, ReadIsGranted
    <3>2. CASE job.kind = "apply" /\ MayApply(t)
      <4>1. MayModify(job.cfg, job.user, t, job.approvals)
        BY <3>2, ApplyIsGranted DEF MayApply
      <4> QED
        BY <1>0, <3>2, <4>1, MoreApprovers DEF RbacInv, Recent
    <3> QED
      BY <1>4, <3>1, <3>2
  <2>4. NeverMoreThanGranted'
    BY <1>0, <1>1, <2>1, <2>3 DEF RbacInv, Recent, NeverMoreThanGranted
  <2> QED
    BY <2>2, <2>4
<1>5. CASE Read(t) \/ Pull(t)
  BY <1>2, <1>4, <1>5 DEF Read, Pull
<1>6. CASE Execute(t)
  BY <1>2, <1>4, <1>6 DEF Execute
<1> QED
  BY <1>3, <1>5, <1>6 DEF Step

LEMMA RbacInvStep == RbacInv /\ [RbacNext]_rbacVars => RbacInv'
<1> SUFFICES ASSUME RbacInv, [RbacNext]_rbacVars PROVE RbacInv'
  OBVIOUS
<1>0. RbacTypeOK'
  BY RbacTypeStep DEF RbacInv
<1>1. CASE Merge
  BY <1>0, <1>1, SeenKeeps DEF Merge, RbacInv
<1>2. ASSUME NEW u \in Users, Review(u) PROVE RbacInv'
  BY <1>0, <1>2, SeenKeeps DEF Review, RbacInv
<1>3. ASSUME NEW i \in DOMAIN reviews, Dismiss(i) PROVE RbacInv'
  BY <1>0, <1>3, SeenKeeps DEF Dismiss, RbacInv
<1>4. CASE Push
  BY <1>0, <1>4 DEF Push, RbacInv, Recent, NeverMoreThanGranted, Running
<1>5. ASSUME NEW u \in Users, Command(u) PROVE RbacInv'
  BY <1>0, <1>5, BeginKeeps DEF Command, Plan, Import, Apply, PullState, RbacInv
<1>6. ASSUME NEW t \in job.todo, Step(t) PROVE RbacInv'
  BY <1>0, <1>6, StepKeeps DEF RbacInv
<1>7. CASE Finish \/ Fail
  BY <1>0, <1>7, IdleKeeps DEF Finish, Fail, RbacInv
<1>8. CASE UNCHANGED rbacVars
  BY <1>0, <1>8 DEF rbacVars, RbacInv, Recent, NeverMoreThanGranted, Running
<1> QED
  BY <1>1, <1>2, <1>3, <1>4, <1>5, <1>6, <1>7, <1>8 DEF RbacNext, GitHub

(* Whatever the configuration on the default branch, the reviews and the   *)
(* commands: what a plan, an import or an apply does is granted by a       *)
(* configuration, and by approvals, that were there after it had begun.    *)
THEOREM AccessAsGranted == RbacSpec => []NeverMoreThanGranted
<1>1. RbacInv => NeverMoreThanGranted
  BY DEF RbacInv
<1> QED
  BY <1>1, RbacInvInit, RbacInvStep, PTL DEF RbacSpec
=============================================================================
