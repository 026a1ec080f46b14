----------------------------- MODULE StoredPlans -----------------------------
(***************************************************************************)
(* What the commands of a pull request promise about its plans, without    *)
(* clones, caches, directories and pushes.  A command is asked at a        *)
(* commit.  It works on one ChangeSet, of that commit, and alone.  It may  *)
(* store a plan there, or execute the stored one: of that plan, and each   *)
(* of its reports once, unless an execution of the plan broke off before.  *)
(* A plan that was executed to the end is not begun again; a ChangeSet     *)
(* that is forgotten leaves nothing to the next one.                       *)
(***************************************************************************)
CONSTANTS
  Handlers, \* the commands, and who gives them: one at a time each
  Objects,  \* what a plan has reports of
  Sets,     \* the ChangeSets
  Heads,    \* commits
  None,     \* no commit
  Nobody

VARIABLES
  asked,  \* command -> the commit it was asked at, or None
  at,     \* ChangeSet -> its commit, or None
  holder, \* ChangeSet -> the command that works on it, or Nobody
  plan,   \* ChangeSet -> the objects its stored plan has reports of
  left,   \* ChangeSet -> those of them whose reports were not executed
  state,  \* ChangeSet -> what became of its plan
  broken  \* ChangeSet -> whether an execution of its plan broke off

vars == <<asked, at, holder, plan, left, state, broken>>

Init ==
  /\ asked = [h \in Handlers |-> None]
  /\ at = [s \in Sets |-> None]
  /\ holder = [s \in Sets |-> Nobody]
  /\ plan = [s \in Sets |-> {}]
  /\ left = [s \in Sets |-> {}]
  /\ state = [s \in Sets |-> "none"]
  /\ broken = [s \in Sets |-> FALSE]

Ask(h, c) ==
  /\ asked[h] = None
  /\ asked' = [asked EXCEPT ![h] = c]
  /\ UNCHANGED <<at, holder, plan, left, state, broken>>

Open(s, c) ==
  /\ at[s] = None
  /\ at' = [at EXCEPT ![s] = c]
  /\ UNCHANGED <<asked, holder, plan, left, state, broken>>

Take(h, s) ==
  /\ asked[h] # None /\ at[s] = asked[h]
  /\ \A r \in Sets : holder[r] # h
  /\ holder[s] = Nobody
  /\ holder' = [holder EXCEPT ![s] = h]
  /\ UNCHANGED <<asked, at, plan, left, state, broken>>

Store(h, s, reports) ==
  /\ holder[s] = h
  /\ state[s] # "running"
  /\ plan' = [plan EXCEPT ![s] = reports]
  /\ left' = [left EXCEPT ![s] = reports]
  /\ state' = [state EXCEPT ![s] = "stored"]
  /\ broken' = [broken EXCEPT ![s] = FALSE]
  /\ UNCHANGED <<asked, at, holder>>

Begin(h, s) ==
  /\ holder[s] = h
  /\ state[s] = "stored"
  /\ state' = [state EXCEPT ![s] = "running"]
  /\ UNCHANGED <<asked, at, holder, plan, left, broken>>

Execute(h, s, o) ==
  /\ holder[s] = h
  /\ state[s] = "running"
  /\ o \in plan[s]
  /\ o \in left[s] \/ broken[s]
  /\ left' = [left EXCEPT ![s] = @ \ {o}]
  /\ UNCHANGED <<asked, at, holder, plan, state, broken>>

Finish(h, s) ==
  /\ holder[s] = h
  /\ state[s] = "running"
  /\ state' = [state EXCEPT ![s] = "done"]
  /\ UNCHANGED <<asked, at, holder, plan, left, broken>>

Break(h, s) ==
  /\ holder[s] = h
  /\ state[s] = "running"
  /\ state' = [state EXCEPT ![s] = "stored"]
  /\ broken' = [broken EXCEPT ![s] = TRUE]
  /\ UNCHANGED <<asked, at, holder, plan, left>>

(* The ChangeSets of D are forgotten.                                      *)
Forget(D) ==
  /\ at' = [s \in Sets |-> IF s \in D THEN None ELSE at[s]]
  /\ plan' = [s \in Sets |-> IF s \in D THEN {} ELSE plan[s]]
  /\ left' = [s \in Sets |-> IF s \in D THEN {} ELSE left[s]]
  /\ state' = [s \in Sets |-> IF s \in D THEN "none" ELSE state[s]]
  /\ broken' = [s \in Sets |-> IF s \in D THEN FALSE ELSE broken[s]]

Evict(D) ==
  /\ \A s \in D : holder[s] = Nobody
  /\ Forget(D)
  /\ UNCHANGED <<asked, holder>>

(* A command returns, and with it goes what only it kept.                  *)
Leave(h, D) ==
  /\ asked[h] # None
  /\ \A s \in Sets : holder[s] = h => state[s] # "running"
  /\ \A s \in D : holder[s] \in {Nobody, h}
  /\ asked' = [asked EXCEPT ![h] = None]
  /\ holder' = [s \in Sets |-> IF holder[s] = h THEN Nobody ELSE holder[s]]
  /\ Forget(D)

Next ==
  \/ \E h \in Handlers :
       \/ \E c \in Heads : Ask(h, c)
       \/ \E D \in SUBSET Sets : Leave(h, D)
       \/ \E s \in Sets :
            \/ Take(h, s) \/ Begin(h, s) \/ Finish(h, s) \/ Break(h, s)
            \/ \E reports \in SUBSET Objects : Store(h, s, reports)
            \/ \E o \in Objects : Execute(h, s, o)
  \/ \E s \in Sets, c \in Heads : Open(s, c)
  \/ \E D \in SUBSET Sets : Evict(D)

Spec == Init /\ [][Next]_vars
=============================================================================
