------------------------------ MODULE LocalApply ------------------------------
(***************************************************************************)
(* `autoschematic apply`, `unbundle` and `check-drift` at the command      *)
(* line, with the user's working tree and git index and the resources they *)
(* define.                                                                 *)
(*                                                                         *)
(* A definition may read the outputs of other resources of its prefix.     *)
(* apply plans every staged file, puts off the files that miss an output,  *)
(* carries out the plans in order, and asks whether to go another round    *)
(* for the files that were put off, or to commit.  All plans of a round    *)
(* are made before the first is carried out.                               *)
(*                                                                         *)
(* A definition is known by a version, 0 when the file does not exist; the *)
(* output of a resource is the version it was made from, 0 when there is   *)
(* none.  The connector (external) has nothing to do when the resource     *)
(* equals the definition with its outputs filled in.                       *)
(*                                                                         *)
(* A command that is given the name of a connector (-c) passes over the    *)
(* files of the others, as it does over files that no connector takes for  *)
(* a resource; the commit it offers takes the whole index all the same.    *)
(*                                                                         *)
(* References are looked for in UTF-8 text only: a definition that is not  *)
(* is one that reads nothing (Refs).                                       *)
(***************************************************************************)
EXTENDS Naturals, Sequences, FiniteSets

CONSTANTS
  Files,       \* definitions of resources
  Refs,        \* file -> the files whose output its text reads
  Addr,        \* file -> its address in its prefix: files of two prefixes may share one
  Yields,      \* the resources that have an output
  Scopes,      \* for each connector to ask for, and for none: the files it takes for resources
  Bundles,     \* files a connector takes apart into definitions
  Elements,    \* bundle -> the definitions it may contain
  Content,     \* bundle -> the version its elements have
  NoBundle,
  Itself,      \* in place of a bundle: the bundle map says that the file is one itself
  MaxVersion,  \* bound on the versions of a definition
  MaxEdits     \* bound on the changes made by the user

ASSUME RefsAssumption == Refs \in [Files -> SUBSET Files]
ASSUME YieldsAssumption == Yields \subseteq Files
ASSUME ScopesAssumption == Scopes \subseteq SUBSET Files
ASSUME ContentAssumption ==
  Content \in [Bundles -> 1 .. MaxVersion] /\ Elements \in [Bundles -> SUBSET Files]
ASSUME BundleAssumption == Bundles \intersect {NoBundle, Itself, "user", "cut"} = {}
ASSUME BoundsAssumption == MaxVersion \in Nat /\ MaxEdits \in Nat

VARIABLES
  def,    \* file -> version in the working tree
  index,  \* file -> version in the git index
  head,   \* file -> version in the last commit
  out,    \* file -> stored output
  remote, \* file -> what the resource was made from
  link,   \* file -> the bundle its bundle map names, Itself, or NoBundle
  by,     \* file -> who wrote what is in the working tree (a history variable)
  locked, \* the safety lock file exists
  edits,  \* changes made by the user so far
  job     \* the command that is running

vars == <<def, index, head, out, remote, link, by, locked, edits, job>>

Versions == 0 .. MaxVersion

(* Mutant: also the text of a file that is gone is filled in. *)
BodyOfAll(f) == [ver |-> def[f], reads |-> [g \in Refs[f] |-> out[g]]]

(* A definition with the outputs filled in.                                *)
Body(f) == [ver |-> def[f], reads |-> [g \in IF def[f] = 0 THEN {} ELSE Refs[f] |-> out[g]]]

(* Mutant: a reference that was not found stays in the text. *)
MissingIgnored(f) == {}

Missing(f) == {g \in DOMAIN Body(f).reads : out[g] = 0}
Nothing == [ver |-> 0, reads |-> [g \in {} |-> 0]]
Staged == {f \in Files : index[f] # head[f]}

Idle == [pc |-> "idle", said |-> "", todo |-> {}, plans |-> <<>>, deferred |-> {},
         set |-> {}, scope |-> {}, asked |-> {}, applied |-> {}, touched |-> {}, bundle |-> NoBundle,
         over |-> FALSE, stage |-> FALSE]
Say(s) == job' = [Idle EXCEPT !.said = s]

Init ==
  /\ def = [f \in Files |-> 0]
  /\ index = def
  /\ head = def
  /\ out = [f \in Files |-> 0]
  /\ remote = [f \in Files |-> Nothing]
  /\ link \in [Files -> {NoBundle, Itself}]
  /\ by = [f \in Files |-> "user"]
  /\ locked = FALSE
  /\ edits = 0
  /\ job = Idle

-----------------------------------------------------------------------------
(* The user, in an editor and another shell, also while a command runs.    *)
(* touched has the files changed since the command began.                  *)

Touch(f) ==
  job' = IF job.pc = "idle" THEN Idle ELSE [job EXCEPT !.touched = @ \union {f}]

Edit(f) ==
  /\ edits < MaxEdits
  /\ \E v \in Versions \ {def[f]} : def' = [def EXCEPT ![f] = v]
  /\ edits' = edits + 1
  /\ by' = [by EXCEPT ![f] = "user"]
  /\ Touch(f)
  /\ UNCHANGED <<index, head, out, remote, link, locked>>

Stage(f) ==
  /\ index[f] # def[f]
  /\ index' = [index EXCEPT ![f] = def[f]]
  /\ Touch(f)
  /\ UNCHANGED <<def, head, out, remote, link, by, locked, edits>>

SetSafetyLock ==
  /\ ~locked
  /\ edits < MaxEdits
  /\ locked' = TRUE
  /\ edits' = edits + 1
  /\ UNCHANGED <<def, index, head, out, remote, link, by, job>>

UnsetSafetyLock ==
  /\ locked
  /\ locked' = FALSE
  /\ UNCHANGED <<def, index, head, out, remote, link, by, edits, job>>

(* A resource is destroyed by someone else.                                *)
Drift(f) ==
  /\ edits < MaxEdits
  /\ remote[f] # Nothing
  /\ remote' = [remote EXCEPT ![f] = Nothing]
  /\ edits' = edits + 1
  /\ Touch(f)
  /\ UNCHANGED <<def, index, head, out, link, by, locked>>

-----------------------------------------------------------------------------
(* apply.                                                                  *)

(* The files that a connector among those asked for takes for a resource.  *)
Taken(scope) == Staged \intersect scope

(* The safety lock is looked at here and nowhere else.                     *)
StartRound(scope) ==
  /\ ~locked
  /\ Staged # {}
  /\ job' = [Idle EXCEPT !.pc = "plan", !.scope = scope, !.todo = Taken(scope),
                         !.asked = Taken(scope)]

Apply ==
  /\ job.pc = "idle"
  /\ \E scope \in Scopes : StartRound(scope)
  /\ UNCHANGED <<def, index, head, out, remote, link, by, locked, edits>>

(* `autoschematic plan` changes nothing and says the same.                 *)
Plan ==
  /\ job.pc = "idle"
  /\ Staged # {}
  /\ \E scope \in Scopes :
       Say(IF \A f \in Taken(scope) : Missing(f) # {} \/ Body(f) = remote[f]
           THEN "all plans are empty" ELSE "")
  /\ UNCHANGED <<def, index, head, out, remote, link, by, locked, edits>>

(* Mutant: a plan without ops is carried out, too. *)
PlanFileAlways(f) ==
  /\ job.pc = "plan"
  /\ f \in job.todo
  /\ job' = [job EXCEPT
       !.todo = @ \ {f},
       !.deferred = IF Missing(f) # {} THEN @ \union {<<f, Missing(f)>>} ELSE @,
       !.plans = IF Missing(f) = {} THEN Append(@, [file |-> f, body |-> Body(f)]) ELSE @]
  /\ UNCHANGED <<def, index, head, out, remote, link, by, locked, edits>>

(* The paths are in the order of git, about which nothing is assumed.      *)
PlanFile(f) ==
  /\ job.pc = "plan"
  /\ f \in job.todo
  /\ job' = [job EXCEPT
       !.todo = @ \ {f},
       !.deferred = IF Missing(f) # {} THEN @ \union {<<f, Missing(f)>>} ELSE @,
       !.plans = IF Missing(f) = {} /\ Body(f) # remote[f]
                 THEN Append(@, [file |-> f, body |-> Body(f)])
                 ELSE @]
  /\ UNCHANGED <<def, index, head, out, remote, link, by, locked, edits>>

PlanComplete ==
  /\ job.pc = "plan"
  /\ job.todo = {}
  /\ job' = IF job.plans = <<>>
            THEN [job EXCEPT !.pc = "idle", !.said = "all plans are empty"]
            ELSE [job EXCEPT !.pc = "confirm"]
  /\ UNCHANGED <<def, index, head, out, remote, link, by, locked, edits>>

(* The code that was printed is typed in.                                  *)
Confirm ==
  /\ job.pc = "confirm"
  /\ job' = [job EXCEPT !.pc = "exec"]
  /\ UNCHANGED <<def, index, head, out, remote, link, by, locked, edits>>

(* What the outputs are when p was carried out.                            *)
Stored(p) == IF p.file \in Yields THEN [out EXCEPT ![p.file] = p.body.ver] ELSE out

(* The resource is made as planned, its outputs are written and staged.    *)
(* An output that is removed is among the keys of the response too.        *)
ExecPlan ==
  /\ job.pc = "exec"
  /\ job.plans # <<>>
  /\ LET p == Head(job.plans) IN
       /\ remote' = [remote EXCEPT ![p.file] = p.body]
       /\ out' = Stored(p)
       /\ job' = [job EXCEPT
            !.plans = Tail(@),
            !.set = IF p.file \in Yields THEN @ \union {Addr[p.file]} ELSE @,
            !.applied = @ \union {p.file}]
  /\ UNCHANGED <<def, index, head, link, by, locked, edits>>

(* An op fails, or staging the outputs: the resource may be made or not,   *)
(* the outputs of the ops before it written or not; what was applied       *)
(* before stays.                                                           *)
ExecFails ==
  /\ job.pc = "exec"
  /\ job.plans # <<>>
  /\ LET p == Head(job.plans) IN
       /\ remote' \in {remote, [remote EXCEPT ![p.file] = p.body]}
       /\ out' \in {out, Stored(p)}
  /\ Say("")
  /\ UNCHANGED <<def, index, head, link, by, locked, edits>>

(* An output counts as set by its address and key, whatever its prefix.    *)
Progress == \E d \in job.deferred : \E g \in d[2] : Addr[g] \in job.set

(* Mutant: the commit is offered when the plans are done. *)
ExecCompleteCommits ==
  /\ job.pc = "exec"
  /\ job.plans = <<>>
  /\ job' = [job EXCEPT !.pc = "commit"]
  /\ UNCHANGED <<def, index, head, out, remote, link, by, locked, edits>>

ExecComplete ==
  /\ job.pc = "exec"
  /\ job.plans = <<>>
  /\ job' = IF job.deferred = {} THEN [job EXCEPT !.pc = "commit"]
            ELSE [job EXCEPT !.pc = "reapply",
                             !.said = IF Progress THEN "outputs now available"
                                      ELSE "still deferred"]
  /\ UNCHANGED <<def, index, head, out, remote, link, by, locked, edits>>

(* Yes: apply calls itself for the same connector, and looks at the lock   *)
(* again.                                                                  *)
Reapply ==
  /\ job.pc = "reapply"
  /\ \/ StartRound(job.scope)
     \/ (locked \/ Staged = {}) /\ Say("")
  /\ UNCHANGED <<def, index, head, out, remote, link, by, locked, edits>>

(* git commit takes the index as it is now, with the files passed over.    *)
Commit ==
  /\ job.pc = "commit"
  /\ head' = index
  /\ Say("")
  /\ UNCHANGED <<def, index, out, remote, link, by, locked, edits>>

(* A plan or a write fails, the user hits Ctrl-c, or says no.              *)
Quit ==
  /\ job.pc \in {"plan", "confirm", "reapply", "commit", "unbundle"}
  /\ Say("")
  /\ UNCHANGED <<def, index, head, out, remote, link, by, locked, edits>>

-----------------------------------------------------------------------------
(* unbundle.  The bundle's text, and with it its elements, is the user's,  *)
(* and counts as a change.                                                 *)

Unbundle(m) ==
  /\ job.pc = "idle"
  /\ edits < MaxEdits
  /\ edits' = edits + 1
  /\ \E elements \in SUBSET Elements[m] \ {{}}, over, stage \in BOOLEAN :
       job' = [Idle EXCEPT !.pc = "unbundle", !.bundle = m, !.todo = elements,
                           !.over = over, !.stage = stage]
  /\ UNCHANGED <<def, index, head, out, remote, link, by, locked>>

MayWrite(f) == job.over \/ def[f] = 0 \/ link[f] \in {Itself, job.bundle}

WriteElement(f) ==
  /\ job.pc = "unbundle"
  /\ f \in job.todo
  /\ MayWrite(f)
  /\ def' = [def EXCEPT ![f] = Content[job.bundle]]
  /\ index' = IF job.stage THEN [index EXCEPT ![f] = Content[job.bundle]] ELSE index
  /\ by' = [by EXCEPT ![f] = job.bundle]
  /\ job' = [job EXCEPT !.pc = "link", !.asked = {f}]
  /\ UNCHANGED <<head, out, remote, link, locked, edits>>

(* bail!: the elements written before stay.                                *)
RefuseElement(f) ==
  /\ job.pc = "unbundle"
  /\ f \in job.todo
  /\ ~MayWrite(f)
  /\ Say("")
  /\ UNCHANGED <<def, index, head, out, remote, link, by, locked, edits>>

(* Mutant: a bundle map that exists is kept. *)
LinkElementOnce(f) ==
  /\ job.pc = "link"
  /\ f \in job.asked
  /\ link' = IF link[f] = NoBundle THEN [link EXCEPT ![f] = job.bundle] ELSE link
  /\ job' = [job EXCEPT !.pc = "unbundle", !.todo = @ \ {f}, !.asked = {}]
  /\ UNCHANGED <<def, index, head, out, remote, by, locked, edits>>

LinkElement(f) ==
  /\ job.pc = "link"
  /\ f \in job.asked
  /\ link' = [link EXCEPT ![f] = job.bundle]
  /\ job' = [job EXCEPT !.pc = "unbundle", !.todo = @ \ {f}, !.asked = {}]
  /\ UNCHANGED <<def, index, head, out, remote, by, locked, edits>>

(* The element is written and its bundle map is not: staging the element,  *)
(* or writing the map, fails.                                              *)
LinkFails(f) ==
  /\ job.pc = "link"
  /\ f \in job.asked
  /\ by' = [by EXCEPT ![f] = "cut"]
  /\ Say("")
  /\ UNCHANGED <<def, index, head, out, remote, link, locked, edits>>

UnbundleComplete ==
  /\ job.pc = "unbundle"
  /\ job.todo = {}
  /\ Say("")
  /\ UNCHANGED <<def, index, head, out, remote, link, by, locked, edits>>

-----------------------------------------------------------------------------
(* check-drift compares the resource with the text of the definition, in   *)
(* which the outputs are not filled in.                                    *)

Verdict(f) ==
  IF remote[f].ver = 0 /\ def[f] = 0 THEN "neither"
  ELSE IF remote[f] = [ver |-> def[f], reads |-> Nothing.reads] THEN "equal"
  ELSE "drifted"

CheckDrift(f) ==
  /\ job.pc = "idle"
  /\ Say(Verdict(f))
  /\ UNCHANGED <<def, index, head, out, remote, link, by, locked, edits>>

-----------------------------------------------------------------------------
Answer == Confirm \/ Reapply \/ Commit

Step ==
  \/ \E f \in Files : PlanFile(f) \/ WriteElement(f) \/ RefuseElement(f) \/ LinkElement(f)
  \/ PlanComplete \/ ExecPlan \/ ExecComplete \/ UnbundleComplete

User ==
  \/ \E f \in Files : Edit(f) \/ Stage(f) \/ Drift(f) \/ CheckDrift(f)
  \/ SetSafetyLock \/ UnsetSafetyLock
  \/ Apply \/ Plan \/ \E m \in Bundles : Unbundle(m)

Next == User \/ Answer \/ Step \/ ExecFails \/ Quit \/ \E f \in Files : LinkFails(f)

Spec == Init /\ [][Next]_vars

(* The program runs, and the user answers what it asks.                    *)
FairSpec == Spec /\ WF_vars(Step \/ Answer)

-----------------------------------------------------------------------------
Bodies == {Nothing} \union
  UNION {[ver : 1 .. MaxVersion, reads : [Refs[f] -> Versions]] : f \in Files}

TypeOK ==
  /\ def \in [Files -> Versions] /\ index \in [Files -> Versions]
  /\ head \in [Files -> Versions] /\ out \in [Files -> Versions]
  /\ remote \in [Files -> Bodies]
  /\ link \in [Files -> Bundles \union {NoBundle, Itself}]
  /\ by \in [Files -> Bundles \union {"user", "cut"}]
  /\ locked \in BOOLEAN
  /\ edits \in 0 .. MaxEdits
  /\ job.pc \in {"idle", "plan", "confirm", "exec", "reapply", "commit", "unbundle", "link"}
  /\ \A i \in DOMAIN job.plans : job.plans[i] \in [file : Files, body : Bodies]

(* What is made never has a reference in it that was not filled in, also   *)
(* when the provider was destroyed between planning and applying.          *)
Resolved ==
  \A f \in Files : \A g \in DOMAIN remote[f].reads : remote[f].reads[g] # 0

(* When the command says that the apply succeeded, every staged file that  *)
(* a connector it was asked for takes for a resource is made as its        *)
(* definition says, but for files that were changed meanwhile and for      *)
(* readers of an output that this round itself changed.  Nothing is said   *)
(* of staged files that were passed over, which the commit takes as well.  *)
AppliedAsDefined ==
  job.pc = "commit" =>
    \A f \in job.asked :
      \/ remote[f] = Body(f)
      \/ f \in job.touched
      \/ remote[f].ver = def[f] /\ Refs[f] \intersect job.applied # {}

(* A definition that came from a bundle is linked to it, so that the next  *)
(* unbundle may replace it; only a failure between the two files leaves it *)
(* to be refused until the user asks for --overbundle.                     *)
ElementsAreLinked ==
  \A f \in Files : by[f] \in Bundles => link[f] = by[f] \/ (job.pc = "link" /\ f \in job.asked)

(* Every round of an apply makes something: it does not go round for ever  *)
(* for files whose outputs nobody will provide.                            *)
ApplyEnds == (job.pc # "idle") ~> (job.pc = "idle")
=============================================================================
