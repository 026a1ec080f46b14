---------------------------- MODULE ScriptedTasks ----------------------------
(***************************************************************************)
(* What a test task promises whoever reads its pull request, without       *)
(* channels, readers, comments and webhooks.  A run follows its script: at *)
(* a step it asks for one thing, once, and goes on when it is told an      *)
(* answer, to a step that follows from this answer.  The answer was given  *)
(* to what it asked for last, and only the registered run is told anything *)
(* new.  What it is told and waits for, it never passes over.  Nobody      *)
(* promises it an answer, and it may end at any time.                      *)
(***************************************************************************)
CONSTANTS
  Runs,
  Nobody, \* no run
  Steps,  \* of a script
  First,  \* the step that a script begins with
  Said,   \* step -> what may be answered to what is asked for at it
  Follows \* step -> what is waited for at it -> the steps that may follow

VARIABLES
  entry,  \* the registered run, or Nobody
  at,     \* run -> what it does
  step,   \* run -> where it is in its script
  asking, \* the runs whose question nobody has answered
  said,   \* run -> the answer given that it was not told, if any
  told    \* run -> the answer it was told and has not dealt with, if any

vars == <<entry, at, step, asking, said, told>>

Init ==
  /\ entry = Nobody
  /\ at = [r \in Runs |-> "none"]
  /\ step = [r \in Runs |-> First]
  /\ asking = {}
  /\ said = [r \in Runs |-> {}]
  /\ told = [r \in Runs |-> {}]

(* A run takes the place of the one before.                                *)
Begin(r) ==
  /\ at[r] = "none"
  /\ entry' = r
  /\ at' = [at EXCEPT ![r] = "works"]
  /\ UNCHANGED <<step, asking, said, told>>

Ask(r) ==
  /\ at[r] = "works"
  /\ at' = [at EXCEPT ![r] = "waits"]
  /\ asking' = asking \cup {r}
  /\ UNCHANGED <<entry, step, said, told>>

Answer(r, word) ==
  /\ r \in asking
  /\ word \in Said[step[r]]
  /\ asking' = asking \ {r}
  /\ said' = [said EXCEPT ![r] = {word}]
  /\ UNCHANGED <<entry, at, step, told>>

(* What was asked gets no answer, or the answer gets lost.                 *)
Miss(r) ==
  /\ at[r] = "waits"
  /\ asking' = asking \ {r}
  /\ said' = [said EXCEPT ![r] = {}]
  /\ UNCHANGED <<entry, at, step, told>>

Tell(r) ==
  /\ entry = r /\ said[r] # {}
  /\ told' = [told EXCEPT ![r] = said[r]]
  /\ said' = [said EXCEPT ![r] = {}]
  /\ UNCHANGED <<entry, at, step, asking>>

Hear(r, word) ==
  /\ told[r] = {word}
  /\ word \in DOMAIN Follows[step[r]]
  /\ \E s \in Follows[step[r]][word] : step' = [step EXCEPT ![r] = s]
  /\ at' = [at EXCEPT ![r] = "works"]
  /\ told' = [told EXCEPT ![r] = {}]
  /\ UNCHANGED <<entry, asking, said>>

Ignore(r) ==
  /\ told[r] \cap DOMAIN Follows[step[r]] = {}
  /\ told' = [told EXCEPT ![r] = {}]
  /\ UNCHANGED <<entry, at, step, asking, said>>

Quit(r) ==
  /\ at[r] \in {"works", "waits"}
  /\ at' = [at EXCEPT ![r] = "ended"]
  /\ step' = [step EXCEPT ![r] = First]
  /\ asking' = asking \ {r}
  /\ said' = [said EXCEPT ![r] = {}]
  /\ told' = [told EXCEPT ![r] = {}]
  /\ UNCHANGED entry

Next ==
  \E r \in Runs :
    \/ Begin(r) \/ Ask(r) \/ Miss(r) \/ Tell(r) \/ Ignore(r) \/ Quit(r)
    \/ \E word \in Said[step[r]] : Answer(r, word)
    \/ \E word \in DOMAIN Follows[step[r]] : Hear(r, word)

Spec == Init /\ [][Next]_vars
=============================================================================
