-------------------------- MODULE LocalApply_proofs --------------------------
(***************************************************************************)
(* LocalApply: the safety invariants of the run, for any files, references *)
(* among them, bundles, and number of edits.                               *)
(*                                                                         *)
(* What a round of apply owes to each file it was asked for is told apart  *)
(* by where the file is (Accounted): still to be planned, put off, planned *)
(* with the body it has now, or made.  A definition that came from a       *)
(* bundle is linked, or the next to be linked (Unbundled).                 *)
(***************************************************************************)
EXTENDS LocalApply, TLAPS, SequenceTheorems

PCs == {"idle", "plan", "confirm", "exec", "reapply", "commit", "unbundle", "link"}
Words == {"", "all plans are empty", "outputs now available", "still deferred",
          "neither", "equal", "drifted"}
Plans == [file : Files, body : Bodies]
Jobs == [pc : PCs, said : Words, todo : SUBSET Files, plans : Seq(Plans),
         deferred : SUBSET (Files \X SUBSET Files), set : SUBSET {Addr[f] : f \in Files},
         scope : SUBSET Files, asked : SUBSET Files, applied : SUBSET Files,
         touched : SUBSET Files, bundle : Bundles \cup {NoBundle}, over : BOOLEAN, stage : BOOLEAN]

Typed ==
  /\ def \in [Files -> Versions] /\ index \in [Files -> Versions]
  /\ head \in [Files -> Versions] /\ out \in [Files -> Versions]
  /\ remote \in [Files -> Bodies]
  /\ link \in [Files -> Bundles \cup {NoBundle, Itself}]
  /\ by \in [Files -> Bundles \cup {"user", "cut"}]
  /\ locked \in BOOLEAN
  /\ edits \in 0 .. MaxEdits
  /\ job \in Jobs

Whole(body) == \A g \in DOMAIN body.reads : body.reads[g] # 0

(* What is planned has no reference left in it either.                     *)
AllResolved ==
  /\ \A f \in Files : Whole(remote[f])
  /\ \A i \in 1 .. Len(job.plans) : Whole(job.plans[i].body)

(* The body b is what f is to be made from, or was before the round        *)
(* changed an output that f reads.                                         *)
Due(f, b) ==
  \/ b = Body(f)
  \/ b.ver = def[f] /\ Refs[f] \intersect job.applied # {}

Waits(f) ==
  \/ f \in job.todo
  \/ \E d \in job.deferred : d[1] = f
  \/ \E i \in 1 .. Len(job.plans) : job.plans[i].file = f

Accounted ==
  /\ job.pc \in {"plan", "confirm", "exec", "reapply", "commit"} =>
       \A f \in job.asked \ job.touched :
         /\ \A i \in 1 .. Len(job.plans) : job.plans[i].file = f => Due(f, job.plans[i].body)
         /\ Waits(f) \/ Due(f, remote[f])
  /\ job.pc \in {"confirm", "exec", "reapply", "commit"} => job.todo = {}
  /\ job.pc = "commit" => job.deferred = {} /\ job.plans = <<>>

(* Of the files that came from a bundle, the one job.asked names is still  *)
(* to be linked.                                                           *)
Unbundled ==
  /\ job.pc \in {"unbundle", "link"} => job.bundle \in Bundles
  /\ \A f \in Files : by[f] \in Bundles =>
       \/ link[f] = by[f]
       \/ job.pc = "link" /\ f \in job.asked /\ by[f] = job.bundle
  /\ job.pc = "link" => \A f \in job.asked : by[f] \in {job.bundle, "user"}
  /\ job.pc = "link" => \A f, g \in job.asked : f = g

IInv == Typed /\ AllResolved /\ Accounted /\ Unbundled

-----------------------------------------------------------------------------
LEMMA NothingIs ==
  Nothing \in Bodies /\ Whole(Nothing) /\ Nothing.ver = 0
BY DEF Nothing, Bodies, Whole

LEMMA BodyIs ==
  ASSUME Typed, NEW f \in Files
  PROVE  /\ Body(f) \in Bodies /\ Body(f).ver = def[f]
         /\ Missing(f) = {} => Whole(Body(f))
         /\ Missing(f) \subseteq Files
<1>1. def[f] \in 0 .. MaxVersion /\ out \in [Files -> Versions] /\ Refs[f] \subseteq Files
  BY RefsAssumption DEF Typed, Versions
<1>2. CASE def[f] = 0
  <2>1. Body(f) = Nothing
    BY <1>2 DEF Body, Nothing
  <2>2. Missing(f) = {}
    BY <1>2 DEF Body, Missing
  <2> QED
    BY <1>2, <2>1, <2>2, NothingIs
<1>3. CASE def[f] # 0
  <2>1. /\ Body(f) = [ver |-> def[f], reads |-> [g \in Refs[f] |-> out[g]]]
        /\ def[f] \in 1 .. MaxVersion
    BY <1>1, <1>3, BoundsAssumption DEF Body
  <2>2. [g \in Refs[f] |-> out[g]] \in [Refs[f] -> Versions]
    BY <1>1
  <2>3. Body(f) \in Bodies
    BY <2>1, <2>2 DEF Bodies
  <2>4. Missing(f) \subseteq Files /\ (Missing(f) = {} => Whole(Body(f)))
    BY <1>1, <2>1 DEF Missing, Whole
  <2> QED
    BY <2>1, <2>3, <2>4
<1> QED
  BY <1>2, <1>3

(* A definition and the outputs it reads tell its body.                    *)
LEMMA SameBody ==
  ASSUME NEW f \in Files, def'[f] = def[f], \A g \in Refs[f] : out'[g] = out[g]
  PROVE  Body(f)' = Body(f)
BY DEF Body

LEMMA IdleIs ==
  /\ Idle \in Jobs /\ Idle.pc = "idle" /\ Idle.plans = <<>>
  /\ \A s \in Words : /\ [Idle EXCEPT !.said = s] \in Jobs
                       /\ [Idle EXCEPT !.said = s].pc = "idle"
                       /\ [Idle EXCEPT !.said = s].plans = <<>>
<1>1. <<>> \in Seq(Plans)
  OBVIOUS
<1>2. Idle \in Jobs
  BY <1>1 DEF Idle, Jobs, PCs, Words
<1>3. Idle.pc = "idle" /\ Idle.plans = <<>>
  BY DEF Idle
<1>4. ASSUME NEW s \in Words
      PROVE  /\ [Idle EXCEPT !.said = s] \in Jobs
             /\ [Idle EXCEPT !.said = s].pc = "idle"
             /\ [Idle EXCEPT !.said = s].plans = <<>>
  BY <1>2, <1>3 DEF Jobs
<1> QED
  BY <1>2, <1>3, <1>4

(* A job that is over owes nothing.                                        *)
LEMMA Over ==
  ASSUME job'.pc = "idle", job'.plans = <<>>, \A f \in Files : Whole(remote'[f])
  PROVE  AllResolved' /\ Accounted'
BY DEF AllResolved, Accounted

LEMMA InvInit == Init => IInv
<1> SUFFICES ASSUME Init PROVE IInv
  OBVIOUS
<1>1. Typed
  <2>1. def \in [Files -> Versions] /\ edits \in 0 .. MaxEdits
    BY BoundsAssumption DEF Init, Versions
  <2>2. /\ index \in [Files -> Versions] /\ head \in [Files -> Versions]
        /\ out \in [Files -> Versions]
    BY <2>1 DEF Init
  <2>3. remote \in [Files -> Bodies] /\ job \in Jobs
    BY IdleIs, NothingIs DEF Init
  <2>4. /\ link \in [Files -> Bundles \cup {NoBundle, Itself}]
        /\ by \in [Files -> Bundles \cup {"user", "cut"}]
    BY DEF Init
  <2> QED
    BY <2>1, <2>2, <2>3, <2>4 DEF Typed, Init
<1>2. AllResolved /\ Accounted /\ Unbundled
  BY IdleIs, NothingIs, BundleAssumption
     DEF Init, AllResolved, Accounted, Unbundled
<1> QED
  BY <1>1, <1>2 DEF IInv

-----------------------------------------------------------------------------
(* What of IInv is disturbed by what.                                      *)

(* The files of an apply are in the state they were in, or were touched.   *)
LEMMA Apart ==
  ASSUME IInv, NEW F \in SUBSET Files,
         \A g \in Files \ F : def'[g] = def[g] /\ remote'[g] = remote[g],
         \A g \in Files : Whole(remote'[g]), UNCHANGED out,
         \/ job' = job /\ F = {}
         \/ job.pc = "idle" /\ job' = Idle
         \/ job.pc # "idle" /\ job' = [job EXCEPT !.touched = @ \union F]
  PROVE  AllResolved' /\ Accounted' /\ job' \in Jobs
<1>1. job \in Jobs /\ AllResolved /\ Accounted
  BY DEF IInv, Typed
<1>2. CASE job' = Idle
  BY <1>2, IdleIs, Over
<1>3. CASE \/ job' = job /\ F = {}
           \/ job' = [job EXCEPT !.touched = @ \union F]
  <2>1. /\ job'.pc = job.pc /\ job'.todo = job.todo /\ job'.plans = job.plans
        /\ job'.deferred = job.deferred /\ job'.asked = job.asked
        /\ job'.applied = job.applied /\ job'.touched = job.touched \cup F
        /\ job' \in Jobs
    BY <1>1, <1>3 DEF Jobs
  <2>2. \A f \in Files \ F : Body(f)' = Body(f)
    BY SameBody
  <2>3. ASSUME NEW f \in job'.asked \ job'.touched, NEW b PROVE Due(f, b)' <=> Due(f, b)
    <3>1. f \in Files \ F
      BY <1>1, <2>1 DEF Jobs
    <3> QED
      BY <2>1, <2>2, <3>1 DEF Due
  <2>4. AllResolved'
    BY <1>1, <2>1 DEF AllResolved
  <2>5. Accounted'
    BY <1>1, <2>1, <2>3 DEF Accounted, Waits, Jobs
  <2> QED
    BY <2>1, <2>4, <2>5
<1> QED
  BY <1>2, <1>3

(* A step that leaves bundles alone, in a job that is not an unbundle.     *)
LEMMA NoBundling ==
  ASSUME IInv, UNCHANGED <<link, by>>, job.pc # "link", job'.pc \notin {"unbundle", "link"}
  PROVE  Unbundled'
BY DEF IInv, Unbundled

-----------------------------------------------------------------------------
(* The user.                                                               *)

LEMMA Touched ==
  ASSUME NEW f, Touch(f)
  PROVE  \/ job.pc = "idle" /\ job' = Idle
         \/ job.pc # "idle" /\ job' = [job EXCEPT !.touched = @ \union {f}]
BY DEF Touch

LEMMA EditStep ==
  ASSUME IInv, NEW f \in Files, Edit(f)
  PROVE  IInv'
<1>1. Typed /\ AllResolved /\ Unbundled
  BY DEF IInv
<1>2. PICK v \in Versions : def' = [def EXCEPT ![f] = v]
  BY DEF Edit
<1>3. /\ edits < MaxEdits /\ edits' = edits + 1 /\ by' = [by EXCEPT ![f] = "user"] /\ Touch(f)
      /\ index' = index /\ head' = head /\ out' = out /\ remote' = remote /\ link' = link
      /\ locked' = locked
  BY DEF Edit
<1>4. /\ def' \in [Files -> Versions] /\ \A g \in Files \ {f} : def'[g] = def[g]
      /\ by' \in [Files -> Bundles \cup {"user", "cut"}] /\ by'[f] = "user"
      /\ \A g \in Files \ {f} : by'[g] = by[g]
      /\ edits' \in 0 .. MaxEdits
  BY <1>1, <1>2, <1>3, BoundsAssumption DEF Typed
<1>5. AllResolved' /\ Accounted' /\ job' \in Jobs
  <2>1. {f} \in SUBSET Files /\ \A g \in Files : Whole(remote'[g])
    BY <1>1, <1>3 DEF AllResolved
  <2>2. \A g \in Files \ {f} : def'[g] = def[g] /\ remote'[g] = remote[g]
    BY <1>3, <1>4
  <2>3. \/ job.pc = "idle" /\ job' = Idle
        \/ job.pc # "idle" /\ job' = [job EXCEPT !.touched = @ \union {f}]
    BY <1>3, Touched
  <2> QED
    BY <1>3, <2>1, <2>2, <2>3, Apart
<1>6. Typed'
  BY <1>1, <1>3, <1>4, <1>5 DEF Typed
<1>7. Unbundled'
  <2>1. CASE job.pc = "idle" /\ job' = Idle
    BY <1>1, <1>3, <1>4, <2>1, IdleIs, BundleAssumption DEF Unbundled
  <2>2. CASE job.pc # "idle" /\ job' = [job EXCEPT !.touched = @ \union {f}]
    <3>1. job'.pc = job.pc /\ job'.asked = job.asked /\ job'.bundle = job.bundle
      BY <1>1, <2>2 DEF Typed, Jobs
    <3> QED
      BY <1>1, <1>3, <1>4, <3>1, BundleAssumption DEF Unbundled
  <2> QED
    BY <1>3, <2>1, <2>2, Touched
<1> QED
  BY <1>5, <1>6, <1>7 DEF IInv

LEMMA StageOrDriftStep ==
  ASSUME IInv, NEW f \in Files, Stage(f) \/ Drift(f)
  PROVE  IInv'
<1>1. Typed /\ AllResolved /\ Unbundled
  BY DEF IInv
<1>2. /\ Touch(f) /\ def' = def /\ head' = head /\ out' = out /\ link' = link /\ by' = by
      /\ locked' = locked
      /\ index' \in [Files -> Versions] /\ edits' \in 0 .. MaxEdits
      /\ remote' = remote \/ remote' = [remote EXCEPT ![f] = Nothing]
  BY <1>1, BoundsAssumption DEF Stage, Drift, Typed
<1>3. /\ remote' \in [Files -> Bodies] /\ \A g \in Files : Whole(remote'[g])
      /\ \A g \in Files \ {f} : remote'[g] = remote[g]
  BY <1>1, <1>2, NothingIs DEF Typed, AllResolved
<1>4. AllResolved' /\ Accounted' /\ job' \in Jobs
  <2>1. {f} \in SUBSET Files
    OBVIOUS
  <2>2. \A g \in Files \ {f} : def'[g] = def[g] /\ remote'[g] = remote[g]
    BY <1>2, <1>3
  <2>3. \/ job.pc = "idle" /\ job' = Idle
        \/ job.pc # "idle" /\ job' = [job EXCEPT !.touched = @ \union {f}]
    BY <1>2, Touched
  <2> QED
    BY <1>2, <1>3, <2>1, <2>2, <2>3, Apart
<1>5. Typed'
  BY <1>1, <1>2, <1>3, <1>4 DEF Typed
<1>6. Unbundled'
  <2>1. CASE job.pc = "idle" /\ job' = Idle
    BY <1>1, <1>2, <2>1, IdleIs DEF Unbundled
  <2>2. CASE job.pc # "idle" /\ job' = [job EXCEPT !.touched = @ \union {f}]
    <3>1. job'.pc = job.pc /\ job'.asked = job.asked /\ job'.bundle = job.bundle
      BY <1>1, <2>2 DEF Typed, Jobs
    <3> QED
      BY <1>1, <1>2, <3>1 DEF Unbundled
  <2> QED
    BY <1>2, <2>1, <2>2, Touched
<1> QED
  BY <1>4, <1>5, <1>6 DEF IInv

LEMMA LockStep ==
  ASSUME IInv, SetSafetyLock \/ UnsetSafetyLock
  PROVE  IInv'
<1>1. Typed /\ AllResolved /\ Unbundled
  BY DEF IInv
<1>2. /\ def' = def /\ index' = index /\ head' = head /\ out' = out /\ remote' = remote
      /\ link' = link /\ by' = by /\ job' = job /\ edits' \in 0 .. MaxEdits
  BY <1>1, BoundsAssumption DEF SetSafetyLock, UnsetSafetyLock, Typed
<1>3. locked' \in BOOLEAN
  BY DEF SetSafetyLock, UnsetSafetyLock
<1>4. Typed'
  BY <1>1, <1>2, <1>3 DEF Typed
<1>5. AllResolved' /\ Accounted'
  <2>1. {} \in SUBSET Files /\ \A g \in Files : Whole(remote'[g])
    BY <1>1, <1>2 DEF AllResolved
  <2> QED
    BY <1>2, <2>1, Apart
<1>6. Unbundled'
  BY <1>1, <1>2 DEF Unbundled
<1> QED
  BY <1>4, <1>5, <1>6 DEF IInv

-----------------------------------------------------------------------------
(* apply.                                                                  *)

(* A step that ends the command, or only says something.                   *)
LEMMA Ends ==
  ASSUME IInv, NEW s \in Words, Say(s), job.pc # "link",
         UNCHANGED <<def, link, by, locked, edits, index>>,
         head' \in [Files -> Versions], out' \in [Files -> Versions], remote' \in [Files -> Bodies],
         \A f \in Files : Whole(remote'[f])
  PROVE  IInv'
<1>1. job' \in Jobs /\ job'.pc = "idle" /\ job'.plans = <<>>
  BY IdleIs DEF Say
<1>2. Typed'
  BY <1>1 DEF IInv, Typed
<1>3. Unbundled'
  BY <1>1, NoBundling
<1> QED
  BY <1>1, <1>2, <1>3, Over DEF IInv

LEMMA TakenIs == \A scope : Taken(scope) \subseteq Files
BY DEF Taken, Staged

LEMMA RoundStep ==
  ASSUME IInv, NEW scope \in SUBSET Files, StartRound(scope), job.pc \in {"idle", "reapply"},
         UNCHANGED <<def, index, head, out, remote, link, by, locked, edits>>
  PROVE  IInv'
<1>1. /\ job'.pc = "plan" /\ job'.todo = Taken(scope) /\ job'.asked = Taken(scope)
      /\ job'.plans = <<>> /\ job' \in Jobs
  BY IdleIs, TakenIs DEF StartRound, Jobs, PCs
<1>2. Typed'
  BY <1>1 DEF IInv, Typed
<1>3. Unbundled'
  BY <1>1, NoBundling
<1>4. AllResolved' /\ Accounted'
  BY <1>1 DEF IInv, AllResolved, Accounted, Waits
<1> QED
  BY <1>2, <1>3, <1>4 DEF IInv

LEMMA PlanStep ==
  ASSUME IInv, Plan
  PROVE  IInv'
<1>1. /\ job'.pc = "idle" /\ job'.plans = <<>> /\ job' \in Jobs
      /\ UNCHANGED <<def, index, head, out, remote, link, by, locked, edits>>
      /\ job.pc = "idle"
  <2>1. PICK s \in Words : Say(s)
    BY DEF Plan, Words
  <2>2. job' \in Jobs /\ job'.pc = "idle" /\ job'.plans = <<>>
    BY <2>1, IdleIs DEF Say
  <2> QED
    BY <2>2 DEF Plan
<1>2. Typed'
  BY <1>1 DEF IInv, Typed
<1>3. Unbundled'
  BY <1>1, NoBundling
<1>4. \A f \in Files : Whole(remote'[f])
  BY <1>1 DEF IInv, AllResolved
<1> QED
  BY <1>1, <1>2, <1>3, <1>4, Over DEF IInv

LEMMA PlanFileStep ==
  ASSUME IInv, NEW f \in Files, PlanFile(f)
  PROVE  IInv'
<1> DEFINE p == [file |-> f, body |-> Body(f)]
           puts == Missing(f) = {} /\ Body(f) # remote[f]
<1>1. Typed /\ AllResolved /\ Accounted
  BY DEF IInv
<1>2. /\ job.pc = "plan" /\ f \in job.todo
      /\ UNCHANGED <<def, index, head, out, remote, link, by, locked, edits>>
  BY DEF PlanFile
<1>3. job \in Jobs /\ job.plans \in Seq(Plans)
  BY <1>1 DEF Typed, Jobs
<1>4. /\ job'.pc = "plan" /\ job'.todo = job.todo \ {f}
      /\ job'.deferred = IF Missing(f) # {} THEN job.deferred \union {<<f, Missing(f)>>} ELSE job.deferred
      /\ job'.plans = IF puts THEN Append(job.plans, p) ELSE job.plans
      /\ job'.asked = job.asked /\ job'.touched = job.touched /\ job'.applied = job.applied
  BY <1>2, <1>3 DEF PlanFile, Jobs
<1>5. /\ Body(f) \in Bodies /\ Missing(f) \subseteq Files /\ (Missing(f) = {} => Whole(Body(f)))
      /\ p \in Plans /\ p.file = f /\ p.body = Body(f)
  BY <1>1, BodyIs DEF Plans
<1> HIDE DEF p
<1>6. job'.plans \in Seq(Plans)
  BY <1>3, <1>4, <1>5
<1>7. <<f, Missing(f)>> \in Files \X SUBSET Files /\ <<f, Missing(f)>>[1] = f
  BY <1>5
<1>8. job' \in Jobs
  <2>1. job' = [job EXCEPT !.todo = job'.todo, !.deferred = job'.deferred, !.plans = job'.plans]
    BY <1>3 DEF PlanFile, Jobs
  <2>2. job'.todo \in SUBSET Files /\ job'.deferred \in SUBSET (Files \X SUBSET Files)
    BY <1>3, <1>4, <1>7 DEF Jobs
  <2> QED
    BY <1>3, <1>6, <2>1, <2>2 DEF Jobs
<1>9. Typed'
  BY <1>1, <1>2, <1>8 DEF Typed
<1>10. Unbundled'
  BY <1>2, <1>4, NoBundling
<1>11. /\ \A i \in 1 .. Len(job.plans) : i \in 1 .. Len(job'.plans) /\ job'.plans[i] = job.plans[i]
       /\ puts => \E i \in 1 .. Len(job'.plans) : job'.plans[i] = p
       /\ \A i \in 1 .. Len(job'.plans) :
            i \in 1 .. Len(job.plans) \/ (Missing(f) = {} /\ job'.plans[i] = p)
  <2>1. CASE puts
    <3>1. job'.plans = Append(job.plans, p)
      BY <1>4, <2>1
    <3>2. Missing(f) = {}
      BY <2>1
    <3> HIDE DEF puts
    <3>3. Len(job.plans) \in Nat
      BY <1>3
    <3>4. /\ Len(job'.plans) = Len(job.plans) + 1
          /\ job'.plans[Len(job.plans) + 1] = p
          /\ \A i \in 1 .. Len(job.plans) : job'.plans[i] = job.plans[i]
      BY <1>3, <1>5, <3>1, AppendProperties
    <3>5. \A i \in 1 .. Len(job.plans) : i \in 1 .. Len(job'.plans)
      BY <3>3, <3>4
    <3>6. Len(job.plans) + 1 \in 1 .. Len(job'.plans)
      BY <3>3, <3>4
    <3>7. \A i \in 1 .. Len(job'.plans) : i \in 1 .. Len(job.plans) \/ i = Len(job.plans) + 1
      BY <3>3, <3>4
    <3>8. \A i \in 1 .. Len(job.plans) : i \in 1 .. Len(job'.plans) /\ job'.plans[i] = job.plans[i]
      BY <3>4, <3>5
    <3>9. \E i \in 1 .. Len(job'.plans) : job'.plans[i] = p
      BY <3>4, <3>6
    <3>10. \A i \in 1 .. Len(job'.plans) : i \in 1 .. Len(job.plans) \/ job'.plans[i] = p
      BY <3>4, <3>7
    <3> QED
      BY <3>2, <3>8, <3>9, <3>10, Zenon
  <2>2. CASE ~puts
    <3>1. job'.plans = job.plans
      BY <1>4, <2>2
    <3> HIDE DEF puts
    <3> QED
      BY <2>2, <3>1, Zenon
  <2> QED
    BY <2>1, <2>2
<1>12. AllResolved'
  <2>1. \A i \in 1 .. Len(job'.plans) : Whole(job'.plans[i].body)
    BY <1>1, <1>5, <1>11 DEF AllResolved
  <2> QED
    BY <1>1, <1>2, <2>1 DEF AllResolved
<1>13. \A g \in Files : Body(g)' = Body(g)
  BY <1>2, SameBody
<1>14. ASSUME NEW g \in job'.asked \ job'.touched
       PROVE  /\ \A i \in 1 .. Len(job'.plans) : job'.plans[i].file = g => Due(g, job'.plans[i].body)
              /\ Waits(g)' \/ Due(g, remote[g])
  <2>1. /\ g \in Files
        /\ \A i \in 1 .. Len(job.plans) : job.plans[i].file = g => Due(g, job.plans[i].body)
        /\ Waits(g) \/ Due(g, remote[g])
    BY <1>1, <1>2, <1>3, <1>4 DEF Accounted, Jobs
  <2>2. Due(f, p.body)
    <3>1. Due(f, Body(f))
      BY DEF Due
    <3> QED
      BY <1>5, <3>1
  <2>3. ASSUME NEW i \in 1 .. Len(job'.plans), job'.plans[i].file = g
        PROVE  Due(g, job'.plans[i].body)
    <3>1. CASE i \in 1 .. Len(job.plans)
      BY <1>11, <2>1, <2>3, <3>1
    <3>2. CASE job'.plans[i] = p
      BY <1>5, <2>2, <2>3, <3>2
    <3> QED
      BY <1>11, <3>1, <3>2
  <2>4. ASSUME Waits(g), g # f PROVE Waits(g)'
    <3>1. CASE g \in job.todo
      BY <1>4, <2>4, <3>1 DEF Waits
    <3>2. CASE \E d \in job.deferred : d[1] = g
      BY <1>4, <3>2 DEF Waits
    <3>3. CASE \E i \in 1 .. Len(job.plans) : job.plans[i].file = g
      BY <1>11, <3>3 DEF Waits
    <3> QED
      BY <2>4, <3>1, <3>2, <3>3 DEF Waits
  <2>5. CASE g = f
    <3>1. CASE Missing(f) # {}
      <4>1. <<f, Missing(f)>> \in job'.deferred
        BY <1>4, <3>1
      <4>2. Waits(g)'
        BY <1>7, <2>5, <4>1 DEF Waits
      <4> QED
        BY <2>3, <4>2
    <3>2. CASE puts
      <4>1. Waits(g)'
        BY <1>5, <1>11, <2>5, <3>2 DEF Waits
      <4> QED
        BY <2>3, <4>1
    <3>3. CASE Body(f) = remote[f]
      BY <2>3, <2>5, <3>3 DEF Due
    <3> QED
      BY <3>1, <3>2, <3>3
  <2> QED
    BY <2>1, <2>3, <2>4, <2>5
<1>15. Accounted'
  <2>1. ASSUME NEW g \in job'.asked \ job'.touched
        PROVE  /\ \A i \in 1 .. Len(job'.plans) :
                     job'.plans[i].file = g => Due(g, job.plans[i].body)'
               /\ Waits(g)' \/ Due(g, remote[g])'
    <3>1. g \in Files
      BY <1>3, <1>4 DEF Jobs
    <3>2. def' = def /\ job'.applied = job.applied /\ remote' = remote /\ Body(g)' = Body(g)
      BY <1>2, <1>4, <1>13, <3>1
    <3>3. Due(g, remote[g]) => Due(g, remote[g])'
      BY <3>2 DEF Due
    <3>4. ASSUME NEW i \in 1 .. Len(job'.plans), Due(g, job'.plans[i].body)
          PROVE  Due(g, job.plans[i].body)'
      BY <3>2, <3>4 DEF Due
    <3> QED
      BY <1>14, <3>3, <3>4
  <2> QED
    BY <1>4, <2>1 DEF Accounted
<1> QED
  BY <1>9, <1>10, <1>12, <1>15 DEF IInv

(* The next question, with the files as they are.                          *)
LEMMA MovesOn ==
  ASSUME IInv, NEW pc \in {"idle", "confirm", "exec", "reapply", "commit"}, NEW s \in Words,
         job' = [job EXCEPT !.pc = pc, !.said = s],
         job.pc \in {"plan", "confirm", "exec"}, job.todo = {},
         pc \in {"idle", "commit"} => job.plans = <<>>,
         pc = "commit" => job.deferred = {},
         UNCHANGED <<def, index, head, out, remote, link, by, locked, edits>>
  PROVE  IInv'
<1>1. Typed /\ AllResolved /\ Accounted /\ job \in Jobs
  BY DEF IInv, Typed
<1>2. /\ job'.pc = pc /\ job'.todo = {} /\ job'.plans = job.plans /\ job'.deferred = job.deferred
      /\ job'.asked = job.asked /\ job'.touched = job.touched /\ job'.applied = job.applied
      /\ job' \in Jobs
  BY <1>1 DEF Jobs, PCs
<1>3. Typed'
  BY <1>1, <1>2 DEF Typed
<1>4. Unbundled'
  BY <1>2, NoBundling
<1>5. AllResolved'
  BY <1>1, <1>2 DEF AllResolved
<1>6. \A g \in Files : Body(g)' = Body(g)
  BY SameBody
<1>7. ASSUME NEW g \in Files, NEW b PROVE Due(g, b)' <=> Due(g, b)
  BY <1>2, <1>6 DEF Due
<1>8. Accounted'
  BY <1>1, <1>2, <1>7 DEF Accounted, Waits, Jobs
<1> QED
  BY <1>3, <1>4, <1>5, <1>8 DEF IInv

LEMMA Sayings ==
  IInv => /\ job.said \in Words /\ "all plans are empty" \in Words
          /\ "outputs now available" \in Words /\ "still deferred" \in Words
BY DEF IInv, Typed, Jobs, Words

LEMMA QuestionSteps ==
  ASSUME IInv, PlanComplete \/ Confirm \/ ExecComplete
  PROVE  IInv'
<1>1. job \in Jobs /\ Accounted
  BY DEF IInv, Typed
<1>2. \A pc : [job EXCEPT !.pc = pc] = [job EXCEPT !.pc = pc, !.said = job.said]
  BY <1>1 DEF Jobs
<1>3. job.pc \in {"confirm", "exec"} => job.todo = {}
  BY <1>1 DEF Accounted
<1>4. UNCHANGED <<def, index, head, out, remote, link, by, locked, edits>>
  BY DEF PlanComplete, Confirm, ExecComplete
<1>5. CASE PlanComplete
  <2>1. job.pc = "plan" /\ job.todo = {}
    BY <1>5 DEF PlanComplete
  <2>2. CASE job.plans = <<>>
    <3>1. job' = [job EXCEPT !.pc = "idle", !.said = "all plans are empty"]
      BY <1>5, <2>2 DEF PlanComplete
    <3> QED
      BY <1>4, <2>1, <2>2, <3>1, MovesOn, Sayings
  <2>3. CASE job.plans # <<>>
    <3>1. job' = [job EXCEPT !.pc = "confirm", !.said = job.said]
      BY <1>2, <1>5, <2>3 DEF PlanComplete
    <3> QED
      BY <1>4, <2>1, <3>1, MovesOn, Sayings
  <2> QED
    BY <2>2, <2>3
<1>6. CASE Confirm
  <2>1. job.pc = "confirm" /\ job' = [job EXCEPT !.pc = "exec", !.said = job.said]
    BY <1>2, <1>6 DEF Confirm
  <2> QED
    BY <1>3, <1>4, <2>1, MovesOn, Sayings
<1>7. CASE ExecComplete
  <2>1. job.pc = "exec" /\ job.plans = <<>>
    BY <1>7 DEF ExecComplete
  <2>2. CASE job.deferred = {}
    <3>1. job' = [job EXCEPT !.pc = "commit", !.said = job.said]
      BY <1>2, <1>7, <2>2 DEF ExecComplete
    <3> QED
      BY <1>3, <1>4, <2>1, <2>2, <3>1, MovesOn, Sayings
  <2>3. CASE job.deferred # {}
    <3>1. PICK s \in {"outputs now available", "still deferred"} :
            job' = [job EXCEPT !.pc = "reapply", !.said = s]
      BY <1>7, <2>3 DEF ExecComplete
    <3>2. s \in Words
      BY Sayings
    <3> QED
      BY <1>3, <1>4, <2>1, <3>1, <3>2, MovesOn
  <2> QED
    BY <2>2, <2>3
<1> QED
  BY <1>5, <1>6, <1>7

(* The file that is made equals its plan; of the others those that read    *)
(* its output now have a provider among the applied.                       *)
LEMMA ExecPlanStep ==
  ASSUME IInv, ExecPlan
  PROVE  IInv'
<1> DEFINE p == Head(job.plans)
<1>1. Typed /\ AllResolved /\ Accounted /\ job \in Jobs /\ job.plans \in Seq(Plans)
  BY DEF IInv, Typed, Jobs
<1>2. /\ job.pc = "exec" /\ job.plans # <<>>
      /\ remote' = [remote EXCEPT ![p.file] = p.body]
      /\ out' = Stored(p)
      /\ job' = [job EXCEPT !.plans = Tail(@),
                            !.set = IF p.file \in Yields THEN @ \union {Addr[p.file]} ELSE @,
                            !.applied = @ \union {p.file}]
      /\ UNCHANGED <<def, index, head, link, by, locked, edits>>
  BY DEF ExecPlan
<1>3. /\ p \in Plans /\ p = job.plans[1] /\ Len(job.plans) \in Nat /\ 1 \in 1 .. Len(job.plans)
      /\ Tail(job.plans) \in Seq(Plans) /\ Len(Tail(job.plans)) = Len(job.plans) - 1
      /\ \A i \in 1 .. Len(job.plans) - 1 : Tail(job.plans)[i] = job.plans[i + 1]
  BY <1>1, <1>2, HeadTailProperties
<1> HIDE DEF p
<1>4. p.file \in Files /\ p.body \in Bodies /\ p.body.ver \in Versions
  <2>1. p.file \in Files /\ p.body \in Bodies
    BY <1>3 DEF Plans
  <2>2. \A b \in Bodies : b.ver \in Versions
    BY BoundsAssumption DEF Bodies, Nothing, Versions
  <2> QED
    BY <2>1, <2>2
<1>5. /\ job'.pc = "exec" /\ job'.plans = Tail(job.plans) /\ job'.todo = job.todo
      /\ job'.deferred = job.deferred /\ job'.asked = job.asked /\ job'.touched = job.touched
      /\ job'.applied = job.applied \cup {p.file}
  BY <1>1, <1>2 DEF Jobs
<1>6. job' \in Jobs
  BY <1>1, <1>2, <1>3, <1>4 DEF Jobs
<1>7. /\ remote' \in [Files -> Bodies] /\ remote'[p.file] = p.body
      /\ \A g \in Files \ {p.file} : remote'[g] = remote[g]
  BY <1>1, <1>2, <1>4 DEF Typed
<1>8. out' \in [Files -> Versions] /\ \A g \in Files \ {p.file} : out'[g] = out[g]
  BY <1>1, <1>2, <1>4 DEF Typed, Stored
<1>9. Typed'
  BY <1>1, <1>2, <1>6, <1>7, <1>8 DEF Typed
<1>10. Unbundled'
  BY <1>2, <1>5, NoBundling
<1>11. \A i \in 1 .. Len(job'.plans) : i + 1 \in 1 .. Len(job.plans) /\ job'.plans[i] = job.plans[i + 1]
  BY <1>3, <1>5
<1>12. AllResolved'
  <2>1. \A i \in 1 .. Len(job'.plans) : Whole(job'.plans[i].body)
    BY <1>1, <1>11 DEF AllResolved
  <2>2. Whole(p.body)
    BY <1>1, <1>3 DEF AllResolved
  <2>3. \A f \in Files : Whole(remote'[f])
    BY <1>1, <1>7, <2>2 DEF AllResolved
  <2> QED
    BY <2>1, <2>3 DEF AllResolved
<1>13. ASSUME NEW f \in Files, NEW b, Due(f, b)
       PROVE  Due(f, b)'
  <2>1. Body(f).ver = def[f]
    BY <1>1, BodyIs
  <2>2. CASE p.file \in Refs[f]
    <3>1. b.ver = def[f]
      BY <1>13, <2>1 DEF Due
    <3>2. Refs[f] \intersect job'.applied # {}
      BY <1>5, <2>2
    <3> QED
      BY <1>2, <3>1, <3>2 DEF Due
  <2>3. CASE p.file \notin Refs[f]
    <3>1. \A g \in Refs[f] : out'[g] = out[g]
      BY <1>8, <2>3, RefsAssumption
    <3>2. Body(f)' = Body(f) /\ def' = def
      BY <1>2, <3>1, SameBody
    <3>3. job.applied \subseteq job'.applied
      BY <1>5
    <3>4. CASE b = Body(f)
      BY <3>2, <3>4 DEF Due
    <3>5. CASE b.ver = def[f] /\ Refs[f] \intersect job.applied # {}
      BY <3>2, <3>3, <3>5 DEF Due
    <3> QED
      BY <1>13, <3>4, <3>5 DEF Due
  <2> QED
    BY <2>2, <2>3
<1>14. ASSUME NEW f \in job'.asked \ job'.touched
       PROVE  /\ \A i \in 1 .. Len(job'.plans) : job'.plans[i].file = f => Due(f, job'.plans[i].body)
              /\ Waits(f)' \/ Due(f, remote'[f])
  <2>1. /\ f \in Files
        /\ \A i \in 1 .. Len(job.plans) : job.plans[i].file = f => Due(f, job.plans[i].body)
        /\ Waits(f) \/ Due(f, remote[f])
    BY <1>1, <1>2, <1>5 DEF Accounted, Jobs
  <2>2. \A i \in 1 .. Len(job'.plans) : job'.plans[i].file = f => Due(f, job'.plans[i].body)
    BY <1>11, <2>1
  <2>3. CASE f = p.file
    <3>1. Due(f, p.body)
      BY <1>3, <2>1, <2>3
    <3> QED
      BY <1>7, <2>2, <2>3, <3>1
  <2>4. CASE f # p.file
    <3>1. remote'[f] = remote[f]
      BY <1>7, <2>1, <2>4
    <3>2. ASSUME Waits(f) PROVE Waits(f)'
      <4>1. CASE f \in job.todo \/ (\E d \in job.deferred : d[1] = f)
        BY <1>5, <4>1 DEF Waits
      <4>2. CASE \E i \in 1 .. Len(job.plans) : job.plans[i].file = f
        <5>1. PICK i \in 1 .. Len(job.plans) : job.plans[i].file = f
          BY <4>2
        <5>2. i # 1
          BY <1>3, <2>4, <5>1
        <5>3. i - 1 \in 1 .. Len(job.plans) - 1 /\ (i - 1) + 1 = i
          BY <1>3, <5>2
        <5>4. i - 1 \in 1 .. Len(job'.plans) /\ job'.plans[i - 1] = job.plans[i]
          BY <1>3, <1>5, <5>3
        <5> QED
          BY <5>1, <5>4 DEF Waits
      <4> QED
        BY <3>2, <4>1, <4>2 DEF Waits
    <3> QED
      BY <2>1, <2>2, <3>1, <3>2
  <2> QED
    BY <2>3, <2>4
<1>15. Accounted'
  <2>1. ASSUME NEW f \in job'.asked \ job'.touched
        PROVE  /\ \A i \in 1 .. Len(job'.plans) :
                     job'.plans[i].file = f => Due(f, job.plans[i].body)'
               /\ Waits(f)' \/ Due(f, remote[f])'
    <3>1. f \in Files
      BY <1>1, <1>5 DEF Jobs
    <3>2. ASSUME Due(f, remote'[f]) PROVE Due(f, remote[f])'
      BY <1>13, <3>1, <3>2
    <3>3. ASSUME NEW i \in 1 .. Len(job'.plans), Due(f, job'.plans[i].body)
          PROVE  Due(f, job.plans[i].body)'
      BY <1>13, <3>1, <3>3
    <3> QED
      BY <1>14, <3>2, <3>3
  <2>2. job'.todo = {}
    BY <1>1, <1>2, <1>5 DEF Accounted
  <2> QED
    BY <1>5, <2>1, <2>2 DEF Accounted
<1> QED
  BY <1>9, <1>10, <1>12, <1>15 DEF IInv

LEMMA EndSteps ==
  ASSUME IInv, ExecFails \/ Commit \/ Quit \/ UnbundleComplete
                 \/ (\E f \in Files : CheckDrift(f) \/ RefuseElement(f))
  PROVE  IInv'
<1>1. Typed /\ AllResolved
  BY DEF IInv
<1>2. "" \in Words /\ \A f \in Files : Verdict(f) \in Words
  BY DEF Words, Verdict
<1>3. \A f \in Files : Whole(remote[f])
  BY <1>1 DEF AllResolved
<1>4. CASE ExecFails
  <2> DEFINE p == Head(job.plans)
  <2>1. /\ job.pc = "exec" /\ job.plans # <<>> /\ Say("")
        /\ UNCHANGED <<def, index, head, link, by, locked, edits>>
        /\ remote' = remote \/ remote' = [remote EXCEPT ![p.file] = p.body]
        /\ out' = out \/ out' = Stored(p)
    BY <1>4 DEF ExecFails
  <2>2. p \in Plans /\ p = job.plans[1] /\ 1 \in 1 .. Len(job.plans)
    <3>1. job.plans \in Seq(Plans) /\ job.plans # <<>>
      BY <1>1, <2>1 DEF Typed, Jobs
    <3>2. Len(job.plans) \in Nat /\ Len(job.plans) # 0
      BY <3>1
    <3> QED
      BY <3>1, <3>2, HeadTailProperties
  <2> HIDE DEF p
  <2>3. p.file \in Files /\ p.body \in Bodies /\ Whole(p.body)
    BY <1>1, <2>2 DEF AllResolved, Plans
  <2>4. remote' \in [Files -> Bodies] /\ \A f \in Files : Whole(remote'[f])
    BY <1>1, <1>3, <2>1, <2>3 DEF Typed
  <2>5. head' \in [Files -> Versions] /\ out' \in [Files -> Versions]
    <3>1. \A b \in Bodies : b.ver \in Versions
      BY BoundsAssumption DEF Bodies, Nothing, Versions
    <3> QED
      BY <1>1, <2>1, <2>3, <3>1 DEF Typed, Stored
  <2> QED
    BY <1>2, <2>1, <2>4, <2>5, Ends
<1>5. CASE Commit \/ Quit \/ UnbundleComplete
             \/ (\E f \in Files : CheckDrift(f) \/ RefuseElement(f))
  <2>1. PICK s \in Words : Say(s)
    BY <1>2, <1>5 DEF Commit, Quit, UnbundleComplete, CheckDrift, RefuseElement
  <2>2. job.pc # "link"
    BY <1>5 DEF Commit, Quit, UnbundleComplete, CheckDrift, RefuseElement
  <2>3. /\ UNCHANGED <<def, out, link, by, locked, edits, index, remote>>
        /\ head' = head \/ head' = index
    BY <1>5 DEF Commit, Quit, UnbundleComplete, CheckDrift, RefuseElement
  <2>4. /\ head' \in [Files -> Versions] /\ remote' \in [Files -> Bodies]
        /\ out' \in [Files -> Versions]
    BY <1>1, <2>3 DEF Typed
  <2> QED
    BY <1>3, <2>1, <2>2, <2>3, <2>4, Ends
<1> QED
  BY <1>4, <1>5

LEMMA ReapplyStep ==
  ASSUME IInv, Reapply
  PROVE  IInv'
<1>1. /\ job.pc = "reapply"
      /\ UNCHANGED <<def, index, head, out, remote, link, by, locked, edits>>
      /\ (StartRound(job.scope) \/ Say("")) /\ job.scope \in SUBSET Files
  BY DEF Reapply, IInv, Typed, Jobs
<1>2. CASE StartRound(job.scope)
  BY <1>1, <1>2, RoundStep
<1>3. CASE Say("")
  <2>1. /\ "" \in Words /\ head' \in [Files -> Versions] /\ remote' \in [Files -> Bodies]
        /\ out' \in [Files -> Versions] /\ \A f \in Files : Whole(remote'[f])
    BY <1>1 DEF IInv, Typed, AllResolved, Words
  <2> QED
    BY <1>1, <1>3, <2>1, Ends
<1> QED
  BY <1>1, <1>2, <1>3

-----------------------------------------------------------------------------
(* unbundle.                                                               *)

(* A step of unbundle owes nothing to a round of apply.                    *)
LEMMA NoRound ==
  ASSUME job'.pc \in {"idle", "unbundle", "link"}, job'.plans = job.plans \/ job'.plans = <<>>,
         AllResolved, UNCHANGED remote
  PROVE  AllResolved' /\ Accounted'
BY DEF AllResolved, Accounted

LEMMA UnbundleStep ==
  ASSUME IInv, NEW m \in Bundles, Unbundle(m)
  PROVE  IInv'
<1>1. Typed /\ AllResolved /\ Unbundled
  BY DEF IInv
<1>2. PICK elements \in SUBSET Elements[m] \ {{}}, over \in BOOLEAN, stage \in BOOLEAN :
        job' = [Idle EXCEPT !.pc = "unbundle", !.bundle = m, !.todo = elements,
                            !.over = over, !.stage = stage]
  BY DEF Unbundle
<1>3. /\ job.pc = "idle" /\ edits' \in 0 .. MaxEdits
      /\ UNCHANGED <<def, index, head, out, remote, link, by, locked>>
  BY <1>1, BoundsAssumption DEF Unbundle, Typed
<1>4. elements \in SUBSET Files
  BY ContentAssumption
<1>5. /\ job' \in Jobs /\ job'.pc = "unbundle" /\ job'.bundle = m /\ job'.plans = <<>>
  BY <1>2, <1>4, IdleIs DEF Jobs, PCs
<1>6. Typed'
  BY <1>1, <1>3, <1>5 DEF Typed
<1>7. Unbundled'
  BY <1>1, <1>3, <1>5 DEF Unbundled
<1> QED
  BY <1>1, <1>3, <1>5, <1>6, <1>7, NoRound DEF IInv

LEMMA WriteElementStep ==
  ASSUME IInv, NEW f \in Files, WriteElement(f)
  PROVE  IInv'
<1>1. Typed /\ AllResolved /\ Unbundled /\ job \in Jobs
  BY DEF IInv, Typed
<1>2. /\ job.pc = "unbundle" /\ job.bundle \in Bundles
      /\ def' = [def EXCEPT ![f] = Content[job.bundle]]
      /\ index' = IF job.stage THEN [index EXCEPT ![f] = Content[job.bundle]] ELSE index
      /\ by' = [by EXCEPT ![f] = job.bundle]
      /\ job' = [job EXCEPT !.pc = "link", !.asked = {f}]
      /\ UNCHANGED <<head, out, remote, link, locked, edits>>
  BY <1>1 DEF WriteElement, Unbundled
<1>3. Content[job.bundle] \in Versions
  BY <1>2, ContentAssumption, BoundsAssumption DEF Versions
<1>4. /\ job'.pc = "link" /\ job'.asked = {f} /\ job'.bundle = job.bundle
      /\ job'.plans = job.plans /\ job' \in Jobs
  BY <1>1, <1>2 DEF Jobs, PCs
<1>5. /\ by' \in [Files -> Bundles \cup {"user", "cut"}] /\ by'[f] = job.bundle
      /\ \A g \in Files \ {f} : by'[g] = by[g]
  BY <1>1, <1>2 DEF Typed
<1>6. def' \in [Files -> Versions] /\ index' \in [Files -> Versions]
  BY <1>1, <1>2, <1>3 DEF Typed
<1>7. Typed'
  BY <1>1, <1>2, <1>4, <1>5, <1>6 DEF Typed
<1>8. Unbundled'
  BY <1>1, <1>2, <1>4, <1>5 DEF Unbundled
<1>9. AllResolved' /\ Accounted'
  BY <1>1, <1>2, <1>4, NoRound
<1> QED
  BY <1>7, <1>8, <1>9 DEF IInv

LEMMA LinkStep ==
  ASSUME IInv, NEW f \in Files, LinkElement(f) \/ LinkFails(f)
  PROVE  IInv'
<1>1. Typed /\ AllResolved /\ Unbundled /\ job \in Jobs
  BY DEF IInv, Typed
<1>2. /\ job.pc = "link" /\ f \in job.asked /\ job.bundle \in Bundles
      /\ UNCHANGED <<def, index, head, out, remote, locked, edits>>
  BY <1>1 DEF LinkElement, LinkFails, Unbundled
<1>3. ASSUME NEW g \in Files \ {f}, by[g] \in Bundles PROVE link[g] = by[g]
  BY <1>1, <1>2, <1>3 DEF Unbundled
<1>4. CASE LinkElement(f)
  <2>1. /\ link' = [link EXCEPT ![f] = job.bundle] /\ by' = by
        /\ job' = [job EXCEPT !.pc = "unbundle", !.todo = @ \ {f}, !.asked = {}]
    BY <1>4 DEF LinkElement
  <2>2. /\ job'.pc = "unbundle" /\ job'.bundle = job.bundle /\ job'.plans = job.plans
        /\ job' \in Jobs
    BY <1>1, <2>1 DEF Jobs, PCs
  <2>3. /\ link' \in [Files -> Bundles \cup {NoBundle, Itself}] /\ link'[f] = job.bundle
        /\ \A g \in Files \ {f} : link'[g] = link[g]
    BY <1>1, <1>2, <2>1 DEF Typed
  <2>4. by[f] \in Bundles => by[f] = job.bundle
    BY <1>1, <1>2, BundleAssumption DEF Unbundled
  <2>5. Typed'
    BY <1>1, <1>2, <2>1, <2>2, <2>3 DEF Typed
  <2>6. Unbundled'
    BY <1>2, <1>3, <2>1, <2>2, <2>3, <2>4 DEF Unbundled
  <2> QED
    BY <1>1, <1>2, <2>2, <2>5, <2>6, NoRound DEF IInv
<1>5. CASE LinkFails(f)
  <2>1. by' = [by EXCEPT ![f] = "cut"] /\ link' = link /\ Say("")
    BY <1>5 DEF LinkFails
  <2>2. job' \in Jobs /\ job'.pc = "idle" /\ job'.plans = <<>>
    BY <2>1, IdleIs DEF Say, Words
  <2>3. /\ by' \in [Files -> Bundles \cup {"user", "cut"}] /\ by'[f] = "cut"
        /\ \A g \in Files \ {f} : by'[g] = by[g]
    BY <1>1, <2>1 DEF Typed
  <2>4. Typed'
    BY <1>1, <1>2, <2>1, <2>2, <2>3 DEF Typed
  <2>5. Unbundled'
    BY <1>3, <2>1, <2>2, <2>3, BundleAssumption DEF Unbundled
  <2> QED
    BY <1>1, <1>2, <2>2, <2>4, <2>5, NoRound DEF IInv
<1> QED
  BY <1>4, <1>5

-----------------------------------------------------------------------------
LEMMA InvNext == IInv /\ [Next]_vars => IInv'
<1> SUFFICES ASSUME IInv, [Next]_vars PROVE IInv'
  OBVIOUS
<1>1. ASSUME NEW f \in Files, Edit(f) PROVE IInv'
  BY <1>1, EditStep
<1>2. ASSUME NEW f \in Files, Stage(f) \/ Drift(f) PROVE IInv'
  BY <1>2, StageOrDriftStep
<1>3. ASSUME NEW f \in Files, CheckDrift(f) \/ RefuseElement(f) PROVE IInv'
  BY <1>3, EndSteps
<1>4. CASE SetSafetyLock \/ UnsetSafetyLock
  BY <1>4, LockStep
<1>5. CASE Apply
  BY <1>5, RoundStep, ScopesAssumption DEF Apply
<1>6. CASE Plan
  BY <1>6, PlanStep
<1>7. ASSUME NEW m \in Bundles, Unbundle(m) PROVE IInv'
  BY <1>7, UnbundleStep
<1>8. ASSUME NEW f \in Files, PlanFile(f) PROVE IInv'
  BY <1>8, PlanFileStep
<1>9. ASSUME NEW f \in Files, WriteElement(f) PROVE IInv'
  BY <1>9, WriteElementStep
<1>10. ASSUME NEW f \in Files, LinkElement(f) \/ LinkFails(f) PROVE IInv'
  BY <1>10, LinkStep
<1>11. CASE PlanComplete \/ Confirm \/ ExecComplete
  BY <1>11, QuestionSteps
<1>12. CASE ExecPlan
  BY <1>12, ExecPlanStep
<1>13. CASE ExecFails \/ Commit \/ Quit \/ UnbundleComplete
  BY <1>13, EndSteps
<1>14. CASE Reapply
  BY <1>14, ReapplyStep
<1>15. CASE UNCHANGED vars
  <2>1. UNCHANGED <<def, index, head, out, remote, link, by, locked, edits, job>>
    BY <1>15 DEF vars
  <2>2. \A g \in Files : Body(g)' = Body(g)
    BY <2>1, SameBody
  <2>3. ASSUME NEW g \in Files, NEW b PROVE Due(g, b)' <=> Due(g, b)
    BY <2>1, <2>2 DEF Due
  <2>4. job \in Jobs
    BY DEF IInv, Typed
  <2>5. Accounted'
    BY <2>1, <2>3, <2>4 DEF IInv, Accounted, Waits, Jobs
  <2> QED
    BY <2>1, <2>5 DEF IInv, Typed, AllResolved, Unbundled
<1> QED
  BY <1>1, <1>2, <1>3, <1>4, <1>5, <1>6, <1>7, <1>8, <1>9, <1>10, <1>11, <1>12, <1>13, <1>14,
     <1>15 DEF Next, User, Answer, Step

LEMMA Invariant == Spec => []IInv
BY InvInit, InvNext, PTL DEF Spec

(* The types of the variables.                                             *)
THEOREM TypeCorrect == Spec => []TypeOK
<1>1. IInv => TypeOK
  <2> SUFFICES ASSUME IInv PROVE TypeOK
    OBVIOUS
  <2>1. job.pc \in PCs /\ job.plans \in Seq(Plans)
    BY DEF IInv, Typed, Jobs
  <2>2. \A i \in DOMAIN job.plans : job.plans[i] \in Plans
    BY <2>1
  <2> QED
    BY <2>1, <2>2 DEF IInv, Typed, TypeOK, PCs, Plans
<1> QED
  BY <1>1, Invariant, PTL

(* No resource is made from a text in which a reference was left, whatever *)
(* is edited, destroyed or put off meanwhile (apply.rs, template.rs).      *)
THEOREM NoReferenceIsMade == Spec => []Resolved
<1>1. IInv => Resolved
  BY DEF IInv, AllResolved, Whole, Resolved
<1> QED
  BY <1>1, Invariant, PTL

(* When apply offers to commit, every staged file that the connectors it   *)
(* was asked for take for a resource is made as its definition says, but   *)
(* for the exceptions that the property names (apply.rs, plan.rs).         *)
THEOREM CommitIsDeserved == Spec => []AppliedAsDefined
<1>1. IInv => AppliedAsDefined
  <2> SUFFICES ASSUME IInv, job.pc = "commit", NEW f \in job.asked, f \notin job.touched
               PROVE  \/ remote[f] = Body(f)
                      \/ remote[f].ver = def[f] /\ Refs[f] \intersect job.applied # {}
    BY DEF AppliedAsDefined
  <2>1. job.todo = {} /\ job.deferred = {} /\ job.plans = <<>>
    BY DEF IInv, Accounted
  <2>2. ~Waits(f)
    BY <2>1 DEF Waits
  <2>3. Due(f, remote[f])
    BY <2>2 DEF IInv, Accounted
  <2> QED
    BY <2>3 DEF Due
<1> QED
  BY <1>1, Invariant, PTL

(* A definition that came from a bundle is linked to it, or about to be,   *)
(* unless writing the link failed (unbundle.rs).                           *)
THEOREM BundlesAreLinked == Spec => []ElementsAreLinked
<1>1. IInv => ElementsAreLinked
  BY DEF IInv, Unbundled, ElementsAreLinked
<1> QED
  BY <1>1, Invariant, PTL
=============================================================================
