---------------------------- MODULE OutputFiles ----------------------------
(***************************************************************************)
(* The output files of one prefix, and the workflows that write them.      *)
(*                                                                         *)
(* A resource that gets its identity when it is created is known by two    *)
(* addresses: the virtual one its definition is kept under, chosen by the  *)
(* user, and the physical one formed from its identity.  The output file   *)
(* of the virtual address is a map that holds the identity, the one of the *)
(* physical address a link to the virtual one.  The connector translates   *)
(* between the two by reading these files, so they decide which resource   *)
(* a plan compares, an apply changes and an import skips.                  *)
(*                                                                         *)
(* Each workflow writes definition, map and link one after the other and   *)
(* may stop anywhere: an operation fails, a file cannot be written, the    *)
(* process is killed.  Workflows of one checkout follow one another; the   *)
(* tasks of an import run together, one for each resource.  Nobody keeps   *)
(* names apart: the user and get() choose any, also one in use.            *)
(***************************************************************************)
EXTENDS Naturals, Sequences, FiniteSets

CONSTANTS
  Virt,      \* virtual addresses
  Phys,      \* resources, by their physical address
  Nowhere,   \* no address
  Main       \* the worker of every workflow but import

Addr == Virt \cup Phys
Workers == Phys \cup {Main}

ASSUME AddressesAssumption ==
  /\ Virt \cap Phys = {}
  /\ Nowhere \notin Virt \cup Phys
  /\ Main \notin Phys
  /\ IsFiniteSet(Virt) /\ IsFiniteSet(Phys)

VARIABLES
  files,   \* address -> its output file
  def,     \* address -> its definition in the repository
  live,    \* the remote resources
  used,    \* those there are or ever were
  foreign, \* ghost: those created by other means and not imported yet
  job,     \* worker -> where its workflow is
  doubtful \* ghost: those whose files may disagree, see Others and Torn

vars == <<files, def, live, used, foreign, job, doubtful>>

(* An output file: none, a link to an address, or a map with the identity  *)
(* of a resource.                                                          *)
NoFile == [kind |-> "none", addr |-> Nowhere]
PointerToVirtual(a) == [kind |-> "link", addr |-> a]
OutputMap(p) == [kind |-> "map", addr |-> p]
OutputMapFile == [kind : {"none", "link", "map"}, addr : Addr \cup {Nowhere}]

(* A definition: never there, removed, or there. *)
Definition == {"none", "gone", "there"}
Exists(a) == def[a] = "there"

(* Where the links lead from a: as many steps as there are addresses lead  *)
(* to the end of every chain that has one.                                 *)
Chase(f, a) ==
  LET at[n \in 0..Cardinality(Addr)] ==
        IF n = 0 THEN a
        ELSE IF f[at[n - 1]].kind = "link" THEN f[at[n - 1]].addr ELSE at[n - 1]
  IN  at[Cardinality(Addr)]

(* read_recurse, write_recurse, resolve and get follow links with no limit: *)
(* a process that reads a loop dies.                                        *)
Loops(a) == files[Chase(files, a)].kind = "link"

(* The identity in the map a leads to, and the address of that map. *)
VirtToPhy(a) == IF Loops(a) THEN Nowhere ELSE files[Chase(files, a)].addr
PhyToVirt(p) == IF files[Chase(files, p)].kind = "map" THEN Chase(files, p) ELSE Nowhere

Jobs ==
  [pc : {"idle", "exec", "outputs", "applyLink", "unlink", "relink", "remap", "copy",
         "remove", "check", "get", "def", "map", "link", "pullDef", "pullPhy", "pullVirt"},
   addr : Addr \cup {Nowhere},    \* the address the workflow is about
   to : Addr \cup {Nowhere},      \* the address it writes to
   phy : Phys \cup {Nowhere},     \* the resource
   ops : Seq({"create", "update", "delete"}),
   overwrite : BOOLEAN]
Idle == [pc |-> "idle", addr |-> Nowhere, to |-> Nowhere, phy |-> Nowhere,
         ops |-> <<>>, overwrite |-> FALSE]
Lost == used \ live   \* the resources that are no more
Quiet == \A w \in Workers : job[w] = Idle

TypeOK ==
  /\ files \in [Addr -> OutputMapFile]
  /\ \A a \in Addr : /\ files[a].kind = "none" <=> files[a] = NoFile
                     /\ files[a].kind = "map" => files[a].addr \in Phys
                     /\ files[a].kind = "link" => files[a].addr \in Addr
  /\ def \in [Addr -> Definition]
  /\ live \subseteq used /\ used \subseteq Phys
  /\ foreign \subseteq used /\ doubtful \subseteq Phys \ Lost
  /\ job \in [Workers -> Jobs]

Init ==
  /\ files = [a \in Addr |-> NoFile]
  /\ def = [a \in Addr |-> "none"]
  /\ live = {} /\ used = {} /\ foreign = {}
  /\ job = [w \in Workers |-> Idle]
  /\ doubtful = {}

----------------------------------------------------------------------------
(* What happens outside: somebody creates a resource by other means, the   *)
(* user drafts or removes a definition between two workflows.              *)
Appear(p) ==
  /\ p \notin used
  /\ live' = live \cup {p} /\ used' = used \cup {p} /\ foreign' = foreign \cup {p}
  /\ UNCHANGED <<files, def, job, doubtful>>

Draft(a) ==
  /\ Quiet /\ ~Exists(a)
  /\ def' = [def EXCEPT ![a] = "there"]
  /\ UNCHANGED <<files, live, used, foreign, job, doubtful>>

Remove(a) ==
  /\ Quiet /\ Exists(a)
  /\ def' = [def EXCEPT ![a] = "gone"]
  /\ UNCHANGED <<files, live, used, foreign, job, doubtful>>

(* A resource is in doubt when a workflow about another one, p, writes the *)
(* file of its address or one that holds its identity,                     *)
Others(x, p) == {r \in Phys \ (Lost \cup {p}) : r = x \/ files[x] = OutputMap(r)}

(* or when a workflow about it stops with one of two files written.        *)
Torn(j) ==
  IF j.pc \in {"applyLink", "remap", "link"} \/ (j.pc = "outputs" /\ Head(j.ops) = "create")
    THEN {j.phy} ELSE {}

(* The files that write() removes before it writes them anew.              *)
Rewritten(j) ==
  CASE j.pc \in {"map", "remap"} -> {j.to}
    [] j.pc \in {"link", "relink"} -> {j.phy}
    [] j.pc = "applyLink" -> {VirtToPhy(j.addr)} \ {j.addr, Nowhere}
    [] OTHER -> {}

(* A step fails, or the process is killed: the workflow ends where it is,  *)
(* perhaps inside write().                                                 *)
Cut(w) ==
  LET j == job[w]
  IN  /\ j.pc # "idle"
      /\ job' = [job EXCEPT ![w] = Idle]
      /\ \/ files' = files /\ doubtful' = doubtful \cup (Torn(j) \ Lost)
         \/ \E x \in Rewritten(j) :
              /\ files' = [files EXCEPT ![x] = NoFile]
              /\ doubtful' = doubtful \cup ({j.phy} \ Lost) \cup Others(x, j.phy)
      /\ UNCHANGED <<def, live, used, foreign>>

Goto(w, pc) == job' = [job EXCEPT ![w].pc = pc]
Finish(w) == job' = [job EXCEPT ![w] = Idle]
Start(w, rec) == job' = [job EXCEPT ![w] = rec]

----------------------------------------------------------------------------
(* apply: plan one object, then execute the operations of its plan.  The   *)
(* objects are the addresses a change touched: those that have or had a    *)
(* definition.                                                             *)
ConnectorOps(a) ==
  LET current == VirtToPhy(a) \in live
  IN  CASE Exists(a) /\ ~current -> {<<"create">>, <<"create", "update">>}
        [] Exists(a) /\ current -> {<<"update">>}
        [] ~Exists(a) /\ current -> {<<"delete">>}
        [] OTHER -> {}

Apply(a) ==
  /\ Quiet /\ def[a] # "none" /\ ~Loops(a)
  /\ \E ops \in ConnectorOps(a) : Start(Main, [Idle EXCEPT !.pc = "exec", !.addr = a, !.ops = ops])
  /\ UNCHANGED <<files, def, live, used, foreign, doubtful>>

NextOp ==
  LET j == job[Main]
  IN  job' = [job EXCEPT ![Main] = IF Len(j.ops) = 1 THEN Idle
                                   ELSE [j EXCEPT !.pc = "exec", !.ops = Tail(j.ops)]]

(* op_exec: the connector answers with outputs, those of a deletion remove *)
(* every key; those of an update may be empty.                             *)
OpExec ==
  /\ job[Main].pc = "exec"
  /\ LET op == Head(job[Main].ops)
         at == VirtToPhy(job[Main].addr)
     IN  \/ /\ op = "create"
            /\ \E p \in Phys \ used :
                 /\ live' = live \cup {p} /\ used' = used \cup {p}
                 /\ job' = [job EXCEPT ![Main].pc = "outputs", ![Main].phy = p]
            /\ UNCHANGED doubtful
         \/ /\ op = "update" /\ at \in live
            /\ \/ job' = [job EXCEPT ![Main].pc = "outputs", ![Main].phy = at]
               \/ NextOp
            /\ UNCHANGED <<live, used, doubtful>>
         \/ /\ op = "delete" /\ at \in live
            /\ live' = live \ {at} /\ doubtful' = doubtful \ {at}
            /\ job' = [job EXCEPT ![Main].pc = "outputs", ![Main].phy = at]
            /\ UNCHANGED used
  /\ UNCHANGED <<files, def, foreign>>

(* Whether p is in doubt when its identity was written at the end of the   *)
(* links from a: not if a is a name, whose link is written next.           *)
Merged(a, p) ==
  CASE a \in Virt -> doubtful \ {p}
    [] a = p -> doubtful
    [] OTHER -> doubtful \cup ({p} \ Lost)

(* Mutant: the map that became empty is written, not deleted. *)
EmptyMapWritten ==
  /\ job[Main].pc = "outputs"
  /\ files' = [files EXCEPT ![Chase(files, job[Main].addr)] =
                 OutputMap(IF Head(job[Main].ops) = "delete" THEN Nowhere ELSE job[Main].phy)]
  /\ Goto(Main, IF Head(job[Main].ops) = "delete" THEN "unlink" ELSE "applyLink")
  /\ UNCHANGED <<def, live, used, foreign, doubtful>>

(* apply_output_map merges the outputs into the map at the end of the chain; *)
(* an empty map is deleted instead, and then a file of its own that the      *)
(* physical address has.                                                     *)
ApplyOutputMap ==
  LET a == job[Main].addr
      p == job[Main].phy
      end == Chase(files, a)
  IN  /\ job[Main].pc = "outputs"
      /\ IF Head(job[Main].ops) = "delete"
           THEN /\ files' = [files EXCEPT ![a] = NoFile]
                /\ doubtful' = doubtful \cup Others(a, p)
                /\ IF p # a THEN Goto(Main, "unlink") ELSE NextOp
           ELSE /\ files' = [files EXCEPT ![end] = OutputMap(p)]
                /\ doubtful' = Merged(a, p) \cup Others(end, p)
                /\ Goto(Main, "applyLink")
      /\ UNCHANGED <<def, live, used, foreign>>

(* Mutant: no link is written. *)
ApplyLinkForgotten ==
  /\ job[Main].pc = "applyLink"
  /\ NextOp
  /\ UNCHANGED <<files, def, live, used, foreign, doubtful>>

ApplyLink ==
  LET a == job[Main].addr
      p == VirtToPhy(a)
  IN  /\ job[Main].pc = "applyLink"
      /\ IF p \notin {a, Nowhere}
           THEN /\ files' = [files EXCEPT ![p] = PointerToVirtual(a)]
                /\ doubtful' = doubtful \cup Others(p, p)
           ELSE UNCHANGED <<files, doubtful>>
      /\ NextOp
      /\ UNCHANGED <<def, live, used, foreign>>

Unlink ==
  LET p == job[Main].phy
  IN  /\ job[Main].pc = "unlink"
      /\ files' = [files EXCEPT ![p] = NoFile]
      /\ doubtful' = doubtful \cup Others(p, p)
      /\ NextOp
      /\ UNCHANGED <<def, live, used, foreign>>

----------------------------------------------------------------------------
(* rename: point the physical address at the new name, write the outputs   *)
(* read from the old name there, copy the definition and remove the old    *)
(* one.  The output file of the old name stays.                            *)
Rename(old, new) ==
  LET p == VirtToPhy(old)
  IN  /\ Quiet /\ ~Loops(old)
      /\ p # Nowhere
      /\ Start(Main, [Idle EXCEPT !.pc = "relink", !.addr = old, !.to = new, !.phy = p])
      /\ UNCHANGED <<files, def, live, used, foreign, doubtful>>

Relink ==
  LET p == job[Main].phy
  IN  /\ job[Main].pc = "relink"
      /\ files' = [files EXCEPT ![p] = PointerToVirtual(job[Main].to)]
      /\ doubtful' = doubtful \cup Others(p, p)
      /\ Goto(Main, "remap")
      /\ UNCHANGED <<def, live, used, foreign>>

(* Mutant: the outputs of the old name are read when they are written, *)
(* after the link.                                                     *)
RemapRereads ==
  /\ job[Main].pc = "remap" /\ ~Loops(job[Main].addr)
  /\ files' = IF VirtToPhy(job[Main].addr) = Nowhere THEN files
               ELSE [files EXCEPT ![job[Main].to] = files[Chase(files, job[Main].addr)]]
  /\ doubtful' = (doubtful \ {job[Main].phy}) \cup Others(job[Main].to, job[Main].phy)
  /\ Goto(Main, "copy")
  /\ UNCHANGED <<def, live, used, foreign>>

Remap ==
  LET p == job[Main].phy
      new == job[Main].to
  IN  /\ job[Main].pc = "remap"
      /\ files' = [files EXCEPT ![new] = OutputMap(p)]
      /\ doubtful' = (doubtful \ {p}) \cup Others(new, p)
      /\ Goto(Main, "copy")
      /\ UNCHANGED <<def, live, used, foreign>>

Copy ==
  /\ job[Main].pc = "copy" /\ Exists(job[Main].addr)
  /\ def' = [def EXCEPT ![job[Main].to] = "there"]
  /\ Goto(Main, "remove")
  /\ UNCHANGED <<files, live, used, foreign, doubtful>>

RemoveOld ==
  /\ job[Main].pc = "remove"
  /\ def' = [def EXCEPT ![job[Main].addr] = "gone"]
  /\ Finish(Main)
  /\ UNCHANGED <<files, live, used, foreign, doubtful>>

----------------------------------------------------------------------------
(* import: a task for each resource the connector lists.  The task leaves  *)
(* out a resource whose definition exists, if it is not to overwrite it;   *)
(* the name get() suggests, after a title or a tag, comes later, and only  *)
(* if none is known.                                                       *)
Import(overwrite) ==
  /\ Quiet /\ live # {}
  /\ job' = [w \in Workers |->
               IF w \in live
                 THEN [Idle EXCEPT !.pc = "check", !.phy = w, !.overwrite = overwrite]
                 ELSE Idle]
  /\ UNCHANGED <<files, def, live, used, foreign, doubtful>>

(* Mutant: whether a resource is defined is asked of its physical address. *)
CheckPhysical(p) ==
  /\ job[p].pc = "check" /\ ~Loops(p)
  /\ IF Exists(p) /\ ~job[p].overwrite
       THEN Finish(p)
       ELSE job' = [job EXCEPT ![p].pc = "get", ![p].to = p]
  /\ UNCHANGED <<files, def, live, used, foreign, doubtful>>

Check(p) ==
  LET v == IF PhyToVirt(p) = Nowhere THEN p ELSE PhyToVirt(p)
  IN  /\ job[p].pc = "check" /\ ~Loops(p)
      /\ IF Exists(v) /\ ~job[p].overwrite
           THEN Finish(p)
           ELSE job' = [job EXCEPT ![p].pc = "get", ![p].to = v]
      /\ UNCHANGED <<files, def, live, used, foreign, doubtful>>

Target(p, v, hint) == IF v = p /\ hint # Nowhere THEN hint ELSE v

Get(p) ==
  /\ job[p].pc = "get"
  /\ \E hint \in Virt \cup {Nowhere} :
       job' = [job EXCEPT ![p].pc = "def", ![p].to = Target(p, job[p].to, hint)]
  /\ UNCHANGED <<files, def, live, used, foreign, doubtful>>

(* pull-state: bring the definition and the outputs of one address up to   *)
(* date, or, if asked to, delete those of a resource that is no more.      *)
PullState(a) ==
  LET p == VirtToPhy(a)
  IN  /\ Quiet /\ Exists(a) /\ ~Loops(a)
      /\ p \in live
      /\ \E pc \in {"def", "map"} : Start(Main, [Idle EXCEPT !.pc = pc, !.to = a, !.phy = p])
      /\ UNCHANGED <<files, def, live, used, foreign, doubtful>>

PullDelete(a) ==
  LET p == VirtToPhy(a)
  IN  /\ Quiet /\ Exists(a) /\ ~Loops(a)
      /\ p \in Phys \ live
      /\ Start(Main, [Idle EXCEPT !.pc = "pullDef", !.to = a, !.phy = p])
      /\ UNCHANGED <<files, def, live, used, foreign, doubtful>>

PullDef ==
  /\ job[Main].pc = "pullDef"
  /\ def' = [def EXCEPT ![job[Main].to] = "gone"]
  /\ Goto(Main, "pullPhy")
  /\ UNCHANGED <<files, live, used, foreign, doubtful>>

Delete(x, p) ==
  /\ files' = [files EXCEPT ![x] = NoFile]
  /\ doubtful' = doubtful \cup Others(x, p)
  /\ UNCHANGED <<def, live, used, foreign>>

PullPhy ==
  /\ job[Main].pc = "pullPhy"
  /\ Delete(job[Main].phy, job[Main].phy)
  /\ Goto(Main, "pullVirt")

PullVirt ==
  /\ job[Main].pc = "pullVirt"
  /\ Delete(job[Main].to, job[Main].phy)
  /\ Finish(Main)

(* The files import and pull-state write, in their order. *)
WriteDef(w) ==
  /\ job[w].pc = "def"
  /\ def' = [def EXCEPT ![job[w].to] = "there"]
  /\ Goto(w, "map")
  /\ UNCHANGED <<files, live, used, foreign, doubtful>>

WriteMap(w) ==
  LET p == job[w].phy
      v == job[w].to
  IN  /\ job[w].pc = "map"
      /\ files' = [files EXCEPT ![v] = OutputMap(p)]
      /\ doubtful' = (doubtful \ {p}) \cup Others(v, p)
      /\ foreign' = foreign \ {p}
      /\ IF v # p THEN Goto(w, "link") ELSE Finish(w)
      /\ UNCHANGED <<def, live, used>>

WriteLink(w) ==
  LET p == job[w].phy
  IN  /\ job[w].pc = "link"
      /\ files' = [files EXCEPT ![p] = PointerToVirtual(job[w].to)]
      /\ doubtful' = doubtful \cup Others(p, p)
      /\ Finish(w)
      /\ UNCHANGED <<def, live, used, foreign>>

----------------------------------------------------------------------------
Next ==
  \/ \E p \in Phys : Appear(p) \/ Check(p) \/ Get(p)
  \/ \E a \in Virt : Draft(a)
  \/ \E a \in Addr : Remove(a) \/ Apply(a) \/ PullState(a) \/ PullDelete(a)
  \/ \E old, new \in Addr : Rename(old, new)
  \/ OpExec \/ ApplyOutputMap \/ ApplyLink \/ Unlink
  \/ Relink \/ Remap \/ Copy \/ RemoveOld
  \/ PullDef \/ PullPhy \/ PullVirt
  \/ \E overwrite \in BOOLEAN : Import(overwrite)
  \/ \E w \in Workers : WriteDef(w) \/ WriteMap(w) \/ WriteLink(w) \/ Cut(w)

Spec == Init /\ [][Next]_vars

----------------------------------------------------------------------------
(* A read that starts at a name ends, wherever workflows stopped and       *)
(* whatever names were chosen; one that starts at the address of a live    *)
(* resource that is not in doubt ends, too, but while a workflow about it  *)
(* has yet to write the second of two files.                               *)
ReadsEnd ==
  \A a \in Addr : Loops(a) =>
    /\ a \in Phys
    /\ a \in live \ doubtful =>
         \E w \in Workers : job[w].pc \in {"remap", "applyLink", "link"} /\ job[w].phy = a

(* Between workflows the files of a live resource agree, unless it is in   *)
(* doubt: either there are none, and then it was created by other means    *)
(* and nobody imported it, or its physical address leads to its map.  And  *)
(* every workflow that comes to its end takes the doubt away.              *)
Unrecorded(p) == files[p] = NoFile /\ \A a \in Addr : files[a] # OutputMap(p)

RecordsAgree ==
  /\ ReadsEnd
  /\ Quiet => \A p \in live \ doubtful :
                IF p \in foreign THEN Unrecorded(p) ELSE VirtToPhy(p) = p

(* The identity of a live resource, once it is in some output file, stays  *)
(* in one, or in the memory of a rename that will write it, unless the     *)
(* step that loses it puts it in doubt: what is lost is taken for a        *)
(* resource that does not exist, and created again.                        *)
Recorded(p) ==
  \/ \E a \in Addr : files[a] = OutputMap(p)
  \/ job[Main].pc = "remap" /\ job[Main].phy = p

RecordIsKept ==
  [][\A p \in live \cap live' : Recorded(p) => Recorded(p)' \/ p \in doubtful']_vars

(* Import writes the definition of a resource where its physical address   *)
(* leads: only one that has no name, or is kept at its physical address,   *)
(* is given the name that get() suggests.                                  *)
ImportKeepsNames ==
  [][\A p \in live \ doubtful :
       job[p].pc = "def" /\ job'[p].pc = "map" => PhyToVirt(p) \in {Nowhere, p, job[p].to}]_vars
=============================================================================
