-------------------------- MODULE OutputFiles_proofs --------------------------
(***************************************************************************)
(* OutputFiles: the properties of the runs, for any number of resources,   *)
(* names and tasks of an import.                                           *)
(*                                                                         *)
(* First, where links lead: Chase takes as many steps as there are         *)
(* addresses, which is enough for every chain that ends.  Then the types,  *)
(* and where links are, whatever the user does and whatever fails.         *)
(* Then the records, by the invariant Tidy: what the files say of each     *)
(* resource that is not in doubt (Whole), what maps hold (Maps, NewOnes),  *)
(* and what each worker still knows at its next step of what it read       *)
(* before (AtMain, AtLink, AtTask).  A step of a worker about one resource *)
(* leaves the files of the others alone or puts them in doubt (Spares).    *)
(* The last section has the properties of the runs.                        *)
(***************************************************************************)
EXTENDS OutputFiles, TLAPS, SequenceTheorems, FiniteSetTheorems, WellFoundedInduction

-----------------------------------------------------------------------------
(* Where links lead.                                                       *)

Last == Cardinality(Addr)
Follow(f, a) == IF f[a].kind = "link" THEN f[a].addr ELSE a

(* f is a set of output files as far as links go.                          *)
Linked(f) == \A a \in Addr : Follow(f, a) \in Addr

(* Where n steps lead, for n up to m.                                      *)
Walk(f, a, m, g) ==
  /\ g \in [0 .. m -> Addr]
  /\ g[0] = a
  /\ \A n \in 1 .. m : g[n] = Follow(f, g[n - 1])

LEMMA LastIs == Last \in Nat
<1>1. IsFiniteSet(Addr)
  BY AddressesAssumption, FS_Union DEF Addr
<1> QED
  BY <1>1, FS_CardinalityType DEF Last

(* A set that has 0, and n + 1 whenever it has n < m, has everything up to *)
(* m.                                                                      *)
LEMMA UpTo ==
  ASSUME NEW m \in Nat, NEW S, 0 \in S, \A n \in 0 .. m : n < m /\ n \in S => n + 1 \in S
  PROVE  0 .. m \subseteq S
<1> DEFINE T == {n \in 0 .. m : n \notin S}
<1> SUFFICES ASSUME T # {} PROVE FALSE
  OBVIOUS
<1>1. T \subseteq Nat
  OBVIOUS
<1> HIDE DEF T
<1>2. PICK n \in T : \A k \in T : ~(<<k, n>> \in OpToRel(<, Nat))
  BY <1>1, NatLessThanWellFounded, WFMin, Zenon
<1>3. n \in 0 .. m /\ n \notin S /\ n # 0
  BY DEF T
<1>4. n - 1 \in 0 .. m /\ n - 1 < m /\ n - 1 + 1 = n
  BY <1>3
<1>5. n - 1 \in T
  BY <1>3, <1>4 DEF T
<1>6. n - 1 \in Nat /\ n \in Nat /\ n - 1 < n
  BY <1>3
<1>7. <<n - 1, n>> \in OpToRel(<, Nat)
  BY <1>6, Zenon DEF OpToRel
<1> QED
  BY <1>2, <1>5, <1>7, Zenon

(* There is a walk of any length.                                          *)
LEMMA WalkExists ==
  ASSUME NEW f, Linked(f), NEW a \in Addr, NEW m \in Nat
  PROVE  \E g : Walk(f, a, m, g)
<1> DEFINE S == {k \in 0 .. m : \E g : Walk(f, a, k, g)}
<1>1. 0 \in S
  <2>1. Walk(f, a, 0, [n \in 0 .. 0 |-> a])
    BY DEF Walk
  <2> QED
    BY <2>1
<1>2. ASSUME NEW k \in 0 .. m, k < m, k \in S PROVE k + 1 \in S
  <2>1. PICK g : Walk(f, a, k, g)
    BY <1>2
  <2> DEFINE h == [n \in 0 .. k + 1 |-> IF n = k + 1 THEN Follow(f, g[k]) ELSE g[n]]
  <2>2. g \in [0 .. k -> Addr] /\ Follow(f, g[k]) \in Addr
    BY <2>1 DEF Walk, Linked
  <2>3. h \in [0 .. k + 1 -> Addr] /\ h[0] = a
    BY <2>1, <2>2 DEF Walk
  <2>4. ASSUME NEW n \in 1 .. k + 1 PROVE h[n] = Follow(f, h[n - 1])
    <3>1. h[n - 1] = g[n - 1]
      OBVIOUS
    <3>2. CASE n = k + 1
      BY <3>1, <3>2
    <3>3. CASE n \in 1 .. k
      <4>1. h[n] = g[n] /\ g[n] = Follow(f, g[n - 1])
        BY <2>1, <3>3 DEF Walk
      <4> QED
        BY <3>1, <4>1
    <3> QED
      BY <3>2, <3>3
  <2>5. Walk(f, a, k + 1, h)
    BY <2>3, <2>4 DEF Walk
  <2>6. k + 1 \in 0 .. m
    BY <1>2
  <2> QED
    BY <2>5, <2>6
<1> HIDE DEF S
<1>3. 0 .. m \subseteq S
  BY <1>1, <1>2, UpTo
<1>4. m \in S
  BY <1>3
<1> QED
  BY <1>4 DEF S

(* Chase is the end of the walk of as many steps as there are addresses.   *)
LEMMA ChaseIs ==
  ASSUME NEW f, Linked(f), NEW a \in Addr
  PROVE  \E g : Walk(f, a, Last, g) /\ Chase(f, a) = g[Last]
<1> DEFINE Body(g) == [n \in 0 .. Last |->
                         IF n = 0 THEN a
                         ELSE IF f[g[n - 1]].kind = "link" THEN f[g[n - 1]].addr ELSE g[n - 1]]
           at == CHOOSE g : g = Body(g)
<1>1. PICK w : Walk(f, a, Last, w)
  BY LastIs, WalkExists
<1>2. w = Body(w)
  <2>1. w = [n \in 0 .. Last |-> w[n]]
    BY <1>1 DEF Walk
  <2>2. \A n \in 0 .. Last : w[n] = Body(w)[n]
    BY <1>1, LastIs DEF Walk, Follow
  <2> QED
    BY <2>1, <2>2
<1>3. at = Body(at)
  BY <1>2, Zenon
<1>4. Chase(f, a) = at[Last]
  BY Zenon DEF Chase, Last
<1> HIDE DEF at
<1>5. at[0] = a /\ \A n \in 1 .. Last : at[n] = Follow(f, at[n - 1])
  <2>1. \A n \in 0 .. Last : at[n] = Body(at)[n]
    BY <1>3
  <2>2. 0 \in 0 .. Last /\ \A n \in 1 .. Last : n \in 0 .. Last /\ n # 0
    BY LastIs
  <2>3. \A n \in 0 .. Last : at[n] = IF n = 0 THEN a ELSE Follow(f, at[n - 1])
    BY <2>1 DEF Follow
  <2> QED
    BY <2>2, <2>3
<1>6. \A n \in 0 .. Last : at[n] \in Addr
  <2> DEFINE S == {n \in 0 .. Last : at[n] \in Addr}
  <2>1. 0 \in S
    BY <1>5, LastIs
  <2>2. ASSUME NEW n \in 0 .. Last, n < Last, n \in S PROVE n + 1 \in S
    BY <1>5, <2>2, LastIs DEF Linked
  <2> HIDE DEF S
  <2>3. 0 .. Last \subseteq S
    BY <2>1, <2>2, UpTo, LastIs
  <2> QED
    BY <2>3 DEF S
<1>7. at \in [0 .. Last -> Addr]
  BY <1>3, <1>6
<1> QED
  BY <1>4, <1>5, <1>7 DEF Walk

LEMMA ChaseInAddr ==
  ASSUME NEW f, Linked(f), NEW a \in Addr
  PROVE  Chase(f, a) \in Addr
BY ChaseIs, LastIs DEF Walk

(* Where a link leads to a file that is none, that file is the end.        *)
LEMMA ChaseOnce ==
  ASSUME NEW f, Linked(f), NEW a \in Addr, Follow(f, Follow(f, a)) = Follow(f, a)
  PROVE  Chase(f, a) = Follow(f, a)
<1>1. PICK g : Walk(f, a, Last, g) /\ Chase(f, a) = g[Last]
  BY ChaseIs
<1> DEFINE S == {n \in 0 .. Last : n = 0 \/ g[n] = Follow(f, a)}
<1>2. 0 \in S
  BY LastIs
<1>3. ASSUME NEW n \in 0 .. Last, n < Last, n \in S PROVE n + 1 \in S
  <2>1. n + 1 \in 1 .. Last /\ n + 1 - 1 = n
    BY <1>3, LastIs
  <2>2. g[n + 1] = Follow(f, g[n]) /\ g[0] = a
    BY <1>1, <2>1 DEF Walk
  <2> QED
    BY <1>3, <2>1, <2>2
<1> HIDE DEF S
<1>4. Last \in S
  BY <1>2, <1>3, UpTo, LastIs
<1>5. Last # 0
  <2>1. IsFiniteSet(Addr) /\ Addr # {}
    BY AddressesAssumption, FS_Union DEF Addr
  <2> QED
    BY <2>1, FS_EmptySet DEF Last
<1> QED
  BY <1>1, <1>4, <1>5 DEF S

(* Two walks from one place go the same way.                               *)
LEMMA SameWay ==
  ASSUME NEW f, NEW a, NEW m \in Nat, NEW n \in Nat, m <= n,
         NEW g, Walk(f, a, m, g), NEW w, Walk(f, a, n, w)
  PROVE  \A k \in 0 .. m : g[k] = w[k]
<1> DEFINE S == {k \in 0 .. m : g[k] = w[k]}
<1>1. 0 \in S
  BY DEF Walk
<1>2. ASSUME NEW k \in 0 .. m, k < m, k \in S PROVE k + 1 \in S
  <2>1. k + 1 \in 1 .. m /\ k + 1 \in 1 .. n /\ k + 1 - 1 = k /\ k + 1 \in 0 .. m
    BY <1>2
  <2>2. g[k + 1] = Follow(f, g[k]) /\ w[k + 1] = Follow(f, w[k])
    BY <2>1 DEF Walk
  <2> QED
    BY <1>2, <2>1, <2>2
<1> HIDE DEF S
<1>3. 0 .. m \subseteq S
  BY <1>1, <1>2, UpTo
<1> QED
  BY <1>3 DEF S

(* A walk stays at a file that is no link.                                 *)
LEMMA Stays ==
  ASSUME NEW f, NEW a, NEW n \in Nat, NEW w, Walk(f, a, n, w),
         NEW e \in 0 .. n, f[w[e]].kind # "link"
  PROVE  w[n] = w[e]
<1> DEFINE S == {k \in 0 .. n : k < e \/ w[k] = w[e]}
<1>1. 0 \in S
  OBVIOUS
<1>2. ASSUME NEW k \in 0 .. n, k < n, k \in S PROVE k + 1 \in S
  <2>1. k + 1 \in 1 .. n /\ k + 1 - 1 = k /\ k + 1 \in 0 .. n
    BY <1>2
  <2>2. w[k + 1] = Follow(f, w[k])
    BY <2>1 DEF Walk
  <2>3. CASE k + 1 <= e
    BY <2>1, <2>3
  <2>4. CASE k >= e
    BY <1>2, <2>1, <2>2, <2>4 DEF Follow
  <2> QED
    BY <2>3, <2>4
<1> HIDE DEF S
<1>3. n \in S
  BY <1>1, <1>2, UpTo
<1> QED
  BY <1>3 DEF S

(* A walk that is twice at one place before it comes to an end would have  *)
(* come to it earlier.                                                     *)
LEMMA Shortcut ==
  ASSUME NEW f, NEW a, NEW e \in Nat, NEW w, Walk(f, a, e, w),
         NEW i \in 0 .. e, NEW j \in 0 .. e, i < j, w[i] = w[j]
  PROVE  w[e - (j - i)] = w[e] /\ e - (j - i) \in 0 .. e /\ e - (j - i) < e
<1> DEFINE d == j - i
           S == {k \in 0 .. e : k < j \/ w[k - d] = w[k]}
<1>1. d \in 1 .. e /\ j - d = i
  OBVIOUS
<1>2. 0 \in S
  BY <1>1
<1>3. ASSUME NEW k \in 0 .. e, k < e, k \in S PROVE k + 1 \in S
  <2>1. k + 1 \in 0 .. e
    BY <1>3
  <2>2. CASE k + 1 < j
    BY <2>1, <2>2
  <2>3. CASE k + 1 = j
    BY <1>1, <2>1, <2>3
  <2>4. CASE k >= j
    <3>1. k + 1 \in 1 .. e /\ k + 1 - d \in 1 .. e /\ k + 1 - 1 = k /\ k + 1 - d - 1 = k - d
      BY <1>1, <1>3, <2>4
    <3>2. w[k + 1] = Follow(f, w[k]) /\ w[k + 1 - d] = Follow(f, w[k - d])
      BY <3>1 DEF Walk
    <3>3. w[k - d] = w[k]
      BY <1>3, <2>4
    <3> QED
      BY <2>1, <3>2, <3>3
  <2> QED
    BY <2>2, <2>3, <2>4
<1> HIDE DEF S
<1>4. e \in S
  BY <1>2, <1>3, UpTo
<1>5. w[e - d] = w[e]
  BY <1>4 DEF S
<1>6. e - d \in 0 .. e /\ e - d < e
  BY <1>1
<1> QED
  BY <1>5, <1>6

(* Of the ends of a walk there is a first.                                 *)
LEMMA FirstEnd ==
  ASSUME NEW f, NEW m \in Nat, NEW g, f[g[m]].kind # "link"
  PROVE  \E e \in 0 .. m : f[g[e]].kind # "link" /\ \A k \in 0 .. m : k < e => f[g[k]].kind = "link"
<1> DEFINE T == {n \in 0 .. m : f[g[n]].kind # "link"}
<1>1. T \subseteq Nat /\ T # {}
  OBVIOUS
<1> HIDE DEF T
<1>2. PICK e \in T : \A k \in T : ~(<<k, e>> \in OpToRel(<, Nat))
  BY <1>1, NatLessThanWellFounded, WFMin, Zenon
<1>3. e \in 0 .. m /\ f[g[e]].kind # "link"
  BY DEF T
<1>4. ASSUME NEW k \in 0 .. m, k < e PROVE k \notin T
  <2>1. k \in Nat /\ e \in Nat
    BY <1>3
  <2>2. <<k, e>> \in OpToRel(<, Nat)
    BY <1>4, <2>1, Zenon DEF OpToRel
  <2> QED
    BY <1>2, <2>2, Zenon
<1> QED
  BY <1>3, <1>4 DEF T

(* As many steps as there are addresses are enough: Chase is where every   *)
(* chain of links ends that ends at all, of whatever length (write_recurse *)
(* and resolve of connector.rs follow links without counting them).        *)
THEOREM ChaseFindsTheEnd ==
  ASSUME NEW f, Linked(f), NEW a \in Addr, NEW m \in Nat, NEW g, Walk(f, a, m, g),
         f[g[m]].kind # "link"
  PROVE  Chase(f, a) = g[m]
<1>1. PICK e \in 0 .. m : /\ f[g[e]].kind # "link"
                          /\ \A k \in 0 .. m : k < e => f[g[k]].kind = "link"
  BY FirstEnd
<1>2. g[m] = g[e]
  BY <1>1, Stays
<1>3. e \in Nat /\ e <= m /\ Last \in Nat
  BY LastIs
<1>4. e <= Last
  <2> SUFFICES ASSUME Last < e PROVE FALSE
    BY <1>3
  <2> DEFINE h == [n \in 0 .. Last |-> g[n]]
  <2>1. h \in [0 .. Last -> Addr]
    BY <1>3 DEF Walk
  <2>2. IsFiniteSet(Addr)
    BY AddressesAssumption, FS_Union DEF Addr
  <2>3. IsFiniteSet(0 .. Last) /\ Cardinality(0 .. Last) = Last + 1
    BY <1>3, FS_Interval
  <2>4. Cardinality(Addr) < Cardinality(0 .. Last)
    BY <1>3, <2>3 DEF Last
  <2>5. PICK x, y \in 0 .. Last : x # y /\ h[x] = h[y]
    <3> HIDE DEF h
    <3> QED
      BY <2>1, <2>2, <2>3, <2>4, FS_PigeonHole
  <2>6. PICK i, j \in 0 .. Last : i < j /\ g[i] = g[j]
    <3>1. g[x] = g[y] /\ (x < y \/ y < x)
      BY <1>3, <2>5
    <3> QED
      BY <3>1
  <2>7. \A n \in 0 .. e : n \in 0 .. m
    BY <1>3
  <2> DEFINE w == [n \in 0 .. e |-> g[n]]
  <2>8. Walk(f, a, e, w)
    <3>1. w \in [0 .. e -> Addr] /\ w[0] = a
      BY <1>3, <2>7 DEF Walk
    <3>2. ASSUME NEW n \in 1 .. e PROVE w[n] = Follow(f, w[n - 1])
      <4>1. n \in 1 .. m /\ n \in 0 .. e /\ n - 1 \in 0 .. e
        BY <1>3
      <4> QED
        BY <4>1 DEF Walk
    <3> QED
      BY <3>1, <3>2 DEF Walk
  <2>9. i \in 0 .. e /\ j \in 0 .. e /\ w[i] = w[j] /\ w[e] = g[e]
    BY <1>3, <2>6
  <2> HIDE DEF w
  <2>10. PICK k \in 0 .. e : k < e /\ w[k] = w[e]
    BY <1>3, <2>6, <2>8, <2>9, Shortcut
  <2>11. g[k] = g[e]
    BY <2>9, <2>10 DEF w
  <2> QED
    BY <1>1, <2>7, <2>10, <2>11
<1>5. PICK w : Walk(f, a, Last, w) /\ Chase(f, a) = w[Last]
  BY ChaseIs
<1>6. Walk(f, a, e, [n \in 0 .. e |-> g[n]])
  <2>1. \A n \in 1 .. e : n \in 1 .. m /\ n - 1 \in 0 .. e /\ n \in 0 .. e
    BY <1>3
  <2>2. \A n \in 0 .. e : n \in 0 .. m
    BY <1>3
  <2> QED
    BY <1>3, <2>1, <2>2 DEF Walk
<1>7. g[e] = w[e]
  <2> DEFINE v == [n \in 0 .. e |-> g[n]]
  <2>1. v[e] = g[e]
    BY <1>3
  <2> HIDE DEF v
  <2>2. \A k \in 0 .. e : v[k] = w[k]
    BY <1>3, <1>4, <1>5, <1>6, SameWay DEF v
  <2> QED
    BY <1>3, <2>1, <2>2
<1>8. e \in 0 .. Last /\ f[w[e]].kind # "link"
  BY <1>1, <1>3, <1>4, <1>7
<1>9. w[Last] = w[e]
  BY <1>3, <1>5, <1>8, Stays
<1> QED
  BY <1>2, <1>5, <1>7, <1>9

-----------------------------------------------------------------------------
(* The types.                                                              *)

Ops == {"create", "update", "delete"}
Writing == {"relink", "remap", "copy", "remove", "get", "def", "map", "link",
            "pullDef", "pullPhy", "pullVirt"}

(* What a workflow is about, by where it is.                               *)
AimsAt(j) ==
  /\ j \in Jobs
  /\ j.pc \in {"exec", "outputs", "applyLink", "unlink"} => j.addr \in Addr /\ j.ops # <<>>
  /\ j.pc \notin {"idle", "exec"} => j.phy \in Phys
  /\ j.pc \in {"relink", "remap", "copy", "remove"} => j.addr \in Addr
  /\ j.pc \in Writing => j.to \in Addr

Typed == TypeOK /\ \A w \in Workers : AimsAt(job[w])

LEMMA Bases ==
  /\ Virt \subseteq Addr /\ Phys \subseteq Addr
  /\ Nowhere \notin Addr
  /\ Phys \subseteq Workers /\ Main \in Workers
BY AddressesAssumption DEF Addr, Workers

LEMMA KindsOfFile ==
  /\ NoFile \in OutputMapFile /\ NoFile.kind = "none" /\ NoFile.addr = Nowhere
  /\ \A a \in Addr : /\ PointerToVirtual(a) \in OutputMapFile
                     /\ PointerToVirtual(a).kind = "link" /\ PointerToVirtual(a).addr = a
  /\ \A p \in Phys : /\ OutputMap(p) \in OutputMapFile
                     /\ OutputMap(p).kind = "map" /\ OutputMap(p).addr = p
BY Bases DEF NoFile, PointerToVirtual, OutputMap, OutputMapFile

(* A file that keeps the types.                                            *)
Good(x) ==
  \/ x = NoFile
  \/ \E a \in Addr : x = PointerToVirtual(a)
  \/ \E p \in Phys : x = OutputMap(p)

LEMMA FilesAre ==
  ASSUME files \in [Addr -> OutputMapFile]
  PROVE  (\A a \in Addr : /\ files[a].kind = "none" <=> files[a] = NoFile
                          /\ files[a].kind = "map" => files[a].addr \in Phys
                          /\ files[a].kind = "link" => files[a].addr \in Addr)
         <=> \A a \in Addr : Good(files[a])
<1>1. ASSUME NEW a \in Addr
      PROVE  /\ files[a].kind \in {"none", "link", "map"}
             /\ files[a] = [kind |-> files[a].kind, addr |-> files[a].addr]
  BY <1>1 DEF OutputMapFile
<1> QED
  BY <1>1, KindsOfFile DEF Good, OutputMap, PointerToVirtual, NoFile

LEMMA IdleIs ==
  /\ Idle \in Jobs /\ Idle.pc = "idle" /\ Idle.addr = Nowhere /\ Idle.to = Nowhere
  /\ Idle.phy = Nowhere /\ Idle.ops = <<>> /\ AimsAt(Idle)
<1>1. Idle.ops = <<>> /\ <<>> \in Seq(Ops)
  BY DEF Idle
<1>2. Idle \in Jobs
  BY <1>1 DEF Idle, Jobs, Ops
<1> QED
  BY <1>1, <1>2 DEF Idle, AimsAt, Writing

LEMMA TypedIs ==
  ASSUME Typed
  PROVE  /\ files \in [Addr -> OutputMapFile] /\ \A a \in Addr : Good(files[a])
         /\ Linked(files)
         /\ def \in [Addr -> Definition]
         /\ live \subseteq used /\ used \subseteq Phys /\ foreign \subseteq used
         /\ doubtful \subseteq Phys \ Lost
         /\ job \in [Workers -> Jobs]
         /\ \A w \in Workers : job[w] \in Jobs /\ AimsAt(job[w])
<1>1. files \in [Addr -> OutputMapFile] /\ \A a \in Addr : Good(files[a])
  BY FilesAre DEF Typed, TypeOK
<1>2. Linked(files)
  BY DEF Typed, TypeOK, Linked, Follow
<1> QED
  BY <1>1, <1>2 DEF Typed, TypeOK

(* The files, the definitions and the resources on the one hand, the       *)
(* workflows on the other.                                                 *)
World ==
  /\ files \in [Addr -> OutputMapFile] /\ \A a \in Addr : Good(files[a])
  /\ def \in [Addr -> Definition]
  /\ live \subseteq used /\ used \subseteq Phys /\ foreign \subseteq used
  /\ doubtful \subseteq Phys \ Lost
Work == job \in [Workers -> Jobs] /\ \A w \in Workers : AimsAt(job[w])

LEMMA WorldAndWork == Typed <=> World /\ Work
BY FilesAre DEF Typed, TypeOK, World, Work

LEMMA WorldAndWorkNext == World' /\ Work' => Typed'
BY WorldAndWork, PTL

(* One worker moves.                                                       *)
LEMMA OneMoves ==
  ASSUME Typed, NEW w \in Workers, NEW j, AimsAt(j), job' = [job EXCEPT ![w] = j]
  PROVE  /\ Work'
         /\ job'[w] = j
         /\ \A u \in Workers \ {w} : job'[u] = job[u]
BY TypedIs DEF Work, AimsAt

(* One file is written.                                                    *)
LEMMA OneWritten ==
  ASSUME Typed, NEW a, NEW x, a \in Addr => Good(x), files' = [files EXCEPT ![a] = x]
  PROVE  /\ files' \in [Addr -> OutputMapFile] /\ \A b \in Addr : Good(files'[b])
         /\ \A b \in Addr \ {a} : files'[b] = files[b]
         /\ a \in Addr => files'[a] = x
<1>1. a \in Addr => x \in OutputMapFile
  BY KindsOfFile DEF Good
<1> QED
  BY <1>1, TypedIs

(* What the map at the end of the links from a says.                       *)
LEMMA VirtToPhyIs ==
  ASSUME Typed, NEW a \in Addr
  PROVE  /\ Chase(files, a) \in Addr
         /\ VirtToPhy(a) \in Phys \cup {Nowhere}
         /\ PhyToVirt(a) \in Addr \cup {Nowhere}
<1>1. Chase(files, a) \in Addr
  BY TypedIs, ChaseInAddr
<1>2. Good(files[Chase(files, a)])
  BY <1>1, TypedIs
<1>3. \A x : Good(x) /\ x.kind # "link" => x.addr \in Phys \cup {Nowhere}
  BY Bases, KindsOfFile DEF Good
<1> QED
  BY <1>1, <1>2, <1>3 DEF VirtToPhy, PhyToVirt, Loops

(* Who may come into doubt. *)
LEMMA DoubtIn ==
  ASSUME Typed, NEW x, NEW p \in Phys
  PROVE  /\ Others(x, p) \subseteq Phys \ Lost
         /\ doubtful \cup Others(x, p) \subseteq Phys \ Lost
BY TypedIs DEF Others

Pcs == {"idle", "exec", "outputs", "applyLink", "unlink", "relink", "remap", "copy",
        "remove", "check", "get", "def", "map", "link", "pullDef", "pullPhy", "pullVirt"}

LEMMA FieldsOf ==
  ASSUME NEW j \in Jobs
  PROVE  /\ j.pc \in Pcs /\ j.addr \in Addr \cup {Nowhere} /\ j.to \in Addr \cup {Nowhere}
         /\ j.phy \in Phys \cup {Nowhere} /\ j.ops \in Seq(Ops) /\ j.overwrite \in BOOLEAN
BY DEF Jobs, Pcs, Ops

(* A worker goes to another point of its workflow.                         *)
LEMMA GotoIs ==
  ASSUME Typed, NEW w \in Workers, NEW pc \in Pcs, Goto(w, pc),
         pc \in {"exec", "outputs", "applyLink", "unlink"} =>
           job[w].addr \in Addr /\ job[w].ops # <<>>,
         pc \notin {"idle", "exec"} => job[w].phy \in Phys,
         pc \in {"relink", "remap", "copy", "remove"} => job[w].addr \in Addr,
         pc \in Writing => job[w].to \in Addr
  PROVE  /\ Work'
         /\ job'[w] \in Jobs /\ job'[w].pc = pc
         /\ job'[w].addr = job[w].addr /\ job'[w].to = job[w].to
         /\ job'[w].phy = job[w].phy /\ job'[w].ops = job[w].ops
         /\ \A u \in Workers \ {w} : job'[u] = job[u]
<1> DEFINE j == [job[w] EXCEPT !.pc = pc]
<1>1. job[w] \in Jobs /\ job \in [Workers -> Jobs]
  BY TypedIs
<1>2. job' = [job EXCEPT ![w] = j]
  BY <1>1 DEF Goto
<1>3. /\ j \in Jobs /\ j.pc = pc /\ j.addr = job[w].addr /\ j.to = job[w].to
      /\ j.phy = job[w].phy /\ j.ops = job[w].ops
  BY <1>1 DEF Jobs, Pcs
<1> HIDE DEF j
<1>4. AimsAt(j)
  BY <1>3 DEF AimsAt, Writing
<1> QED
  BY <1>2, <1>3, <1>4, OneMoves

LEMMA FinishIs ==
  ASSUME Typed, NEW w \in Workers, Finish(w)
  PROVE  /\ Work' /\ job'[w] = Idle
         /\ \A u \in Workers \ {w} : job'[u] = job[u]
BY OneMoves, IdleIs DEF Finish

(* The rest of the operations of a plan.                                   *)
LEMMA NextOpIs ==
  ASSUME Typed, NextOp, job[Main].pc \in {"exec", "outputs", "applyLink", "unlink"}
  PROVE  /\ Work'
         /\ \A u \in Workers \ {Main} : job'[u] = job[u]
         /\ \/ Len(job[Main].ops) = 1 /\ job'[Main] = Idle
            \/ /\ Len(job[Main].ops) # 1
               /\ job'[Main] = [job[Main] EXCEPT !.pc = "exec", !.ops = Tail(job[Main].ops)]
<1>1. job[Main] \in Jobs /\ job \in [Workers -> Jobs] /\ Main \in Workers /\ AimsAt(job[Main])
  BY TypedIs, Bases
<1>2. CASE Len(job[Main].ops) = 1
  <2>1. job' = [job EXCEPT ![Main] = Idle]
    BY <1>1, <1>2 DEF NextOp
  <2> QED
    BY <1>1, <1>2, <2>1, OneMoves, IdleIs
<1>3. CASE Len(job[Main].ops) # 1
  <2> DEFINE j == [job[Main] EXCEPT !.pc = "exec", !.ops = Tail(job[Main].ops)]
  <2>1. job' = [job EXCEPT ![Main] = j]
    BY <1>1, <1>3 DEF NextOp
  <2>2. /\ job[Main].ops \in Seq(Ops) /\ job[Main].ops # <<>> /\ job[Main].addr \in Addr
    BY <1>1, FieldsOf DEF AimsAt
  <2>3. /\ Tail(job[Main].ops) \in Seq(Ops)
        /\ Len(Tail(job[Main].ops)) = Len(job[Main].ops) - 1
        /\ Len(job[Main].ops) \in Nat
    BY <2>2, HeadTailProperties
  <2>4. Tail(job[Main].ops) # <<>>
    <3>1. Len(job[Main].ops) # 0
      BY <2>2, EmptySeq
    <3>2. Len(Tail(job[Main].ops)) # 0
      BY <1>3, <2>3, <3>1
    <3>3. Len(<<>>) = 0
      OBVIOUS
    <3> QED
      BY <3>2, <3>3, Zenon
  <2>5. j \in Jobs /\ j.pc = "exec" /\ j.addr = job[Main].addr /\ j.ops = Tail(job[Main].ops)
    BY <1>1, <2>3 DEF Jobs, Ops
  <2> HIDE DEF j
  <2>6. AimsAt(j)
    BY <2>2, <2>4, <2>5 DEF AimsAt, Writing
  <2>7. Work' /\ job'[Main] = j /\ \A u \in Workers \ {Main} : job'[u] = job[u]
    BY <1>1, <2>1, <2>6, OneMoves
  <2> QED
    BY <1>3, <2>7 DEF j
<1> QED
  BY <1>2, <1>3

(* A workflow of the main worker begins.                                   *)
LEMMA StartIs ==
  ASSUME Typed, NEW w \in Workers, NEW j, AimsAt(j), Start(w, j)
  PROVE  /\ Work' /\ job'[w] = j
         /\ \A u \in Workers \ {w} : job'[u] = job[u]
BY OneMoves DEF Start

LEMMA OpLists ==
  ASSUME NEW a \in Addr, NEW ops \in ConnectorOps(a)
  PROVE  ops \in {<<"create">>, <<"create", "update">>, <<"update">>, <<"delete">>}
BY DEF ConnectorOps

ExecOf(a, ops) == [Idle EXCEPT !.pc = "exec", !.addr = a, !.ops = ops]

LEMMA ExecJob ==
  ASSUME NEW a \in Addr, NEW ops \in {<<"create">>, <<"create", "update">>, <<"update">>, <<"delete">>}
  PROVE  /\ AimsAt(ExecOf(a, ops)) /\ ExecOf(a, ops).pc = "exec"
         /\ ExecOf(a, ops).addr = a /\ ExecOf(a, ops).ops = ops
<1> DEFINE j == ExecOf(a, ops)
<1>1. ops \in Seq(Ops) /\ ops # <<>>
  <2>1. "create" \in Ops /\ "update" \in Ops /\ "delete" \in Ops
    BY DEF Ops
  <2> HIDE DEF Ops
  <2>2. /\ <<"create">> \in Seq(Ops) /\ <<"create", "update">> \in Seq(Ops)
        /\ <<"update">> \in Seq(Ops) /\ <<"delete">> \in Seq(Ops)
    BY <2>1
  <2>3. <<"create">> # <<>> /\ <<"create", "update">> # <<>> /\ <<"update">> # <<>> /\ <<"delete">> # <<>>
    OBVIOUS
  <2> QED
    BY <2>2, <2>3
<1>2. j \in Jobs /\ j.pc = "exec" /\ j.addr = a /\ j.ops = ops
  BY <1>1 DEF ExecOf, Idle, Jobs, Ops
<1> HIDE DEF j
<1>3. AimsAt(j)
  BY <1>1, <1>2 DEF AimsAt, Writing
<1> QED
  BY <1>2, <1>3 DEF j

RenameOf(old, new, p) == [Idle EXCEPT !.pc = "relink", !.addr = old, !.to = new, !.phy = p]

LEMMA RenameJob ==
  ASSUME NEW old \in Addr, NEW new \in Addr, NEW p \in Phys
  PROVE  /\ AimsAt(RenameOf(old, new, p)) /\ RenameOf(old, new, p).pc = "relink"
         /\ RenameOf(old, new, p).addr = old /\ RenameOf(old, new, p).to = new
         /\ RenameOf(old, new, p).phy = p
<1> DEFINE j == RenameOf(old, new, p)
<1>1. <<>> \in Seq(Ops)
  OBVIOUS
<1>2. j \in Jobs /\ j.pc = "relink" /\ j.addr = old /\ j.to = new /\ j.phy = p
  BY <1>1 DEF RenameOf, Idle, Jobs, Ops
<1> HIDE DEF j
<1>3. AimsAt(j)
  BY <1>2 DEF AimsAt, Writing
<1> QED
  BY <1>2, <1>3 DEF j

PullOf(pc, a, p) == [Idle EXCEPT !.pc = pc, !.to = a, !.phy = p]

LEMMA PullJob ==
  ASSUME NEW pc \in {"def", "map", "pullDef"}, NEW a \in Addr, NEW p \in Phys
  PROVE  /\ AimsAt(PullOf(pc, a, p)) /\ PullOf(pc, a, p).pc = pc
         /\ PullOf(pc, a, p).to = a /\ PullOf(pc, a, p).phy = p
<1> DEFINE j == PullOf(pc, a, p)
<1>1. <<>> \in Seq(Ops)
  OBVIOUS
<1>2. j \in Jobs /\ j.pc = pc /\ j.to = a /\ j.phy = p
  BY <1>1 DEF PullOf, Idle, Jobs, Ops
<1> HIDE DEF j
<1>3. AimsAt(j)
  BY <1>2 DEF AimsAt, Writing
<1> QED
  BY <1>2, <1>3 DEF j

ImportOf(p, o) == [Idle EXCEPT !.pc = "check", !.phy = p, !.overwrite = o]

LEMMA ImportJob ==
  ASSUME NEW p \in Phys, NEW o \in BOOLEAN
  PROVE  /\ AimsAt(ImportOf(p, o)) /\ ImportOf(p, o).pc = "check" /\ ImportOf(p, o).phy = p
<1> DEFINE j == ImportOf(p, o)
<1>1. <<>> \in Seq(Ops)
  OBVIOUS
<1>2. j \in Jobs /\ j.pc = "check" /\ j.phy = p
  BY <1>1 DEF ImportOf, Idle, Jobs, Ops
<1> HIDE DEF j
<1>3. AimsAt(j)
  BY <1>2 DEF AimsAt, Writing
<1> QED
  BY <1>2, <1>3 DEF j

-----------------------------------------------------------------------------
(* The types are right initially, and every step keeps them.               *)

LEMMA TypedInit == Init => Typed
<1> SUFFICES ASSUME Init PROVE Typed
  OBVIOUS
<1>1. files \in [Addr -> OutputMapFile] /\ \A a \in Addr : Good(files[a])
  BY KindsOfFile DEF Init, Good
<1>2. def \in [Addr -> Definition]
  BY DEF Init, Definition
<1>3. Work
  BY IdleIs DEF Init, Work
<1> QED
  BY <1>1, <1>2, <1>3, WorldAndWork DEF Init, World

(* What a step leaves of the files, the definitions and the resources.     *)
LEMMA WorldKept ==
  ASSUME Typed, UNCHANGED <<files, def, live, used, foreign, doubtful>>
  PROVE  World'
BY TypedIs DEF World, Lost

LEMMA WorldWritten ==
  ASSUME Typed, NEW a, NEW x, a \in Addr => Good(x), files' = [files EXCEPT ![a] = x],
         doubtful' \subseteq Phys \ Lost, foreign' \subseteq foreign, UNCHANGED <<def, live, used>>
  PROVE  World'
BY TypedIs, OneWritten DEF World, Lost

LEMMA WorldDefined ==
  ASSUME Typed, NEW a, NEW d \in Definition, def' = [def EXCEPT ![a] = d],
         UNCHANGED <<files, live, used, foreign, doubtful>>
  PROVE  World'
BY TypedIs DEF World, Lost

LEMMA TypedOutside ==
  ASSUME Typed, NEW a \in Addr, (Appear(a) /\ a \in Phys) \/ Draft(a) \/ Remove(a)
  PROVE  Typed'
<1>1. CASE Appear(a) /\ a \in Phys
  BY <1>1, TypedIs, WorldAndWorkNext DEF Appear, World, Work, Lost
<1>2. CASE Draft(a) \/ Remove(a)
  <2>1. World'
    BY <1>2, WorldDefined DEF Draft, Remove, Definition
  <2> QED
    BY <1>2, <2>1, TypedIs, WorldAndWorkNext DEF Draft, Remove, Work
<1> QED
  BY <1>1, <1>2

(* The workflow that is cut.                                               *)
LEMMA CutIs ==
  ASSUME Typed, NEW w \in Workers, Cut(w)
  PROVE  /\ \/ files' = files /\ doubtful' = doubtful \cup (Torn(job[w]) \ Lost)
            \/ \E x \in Addr :
                 /\ files' = [files EXCEPT ![x] = NoFile]
                 /\ job[w].phy \in Phys
                 /\ doubtful' = doubtful \cup ({job[w].phy} \ Lost) \cup Others(x, job[w].phy)
         /\ Torn(job[w]) \subseteq Phys
         /\ UNCHANGED <<def, live, used, foreign>>
         /\ job[w].pc # "idle"
         /\ job'[w] = Idle
         /\ \A u \in Workers \ {w} : job'[u] = job[u]
<1>1. job[w] \in Jobs /\ AimsAt(job[w]) /\ job[w].pc # "idle"
  BY TypedIs DEF Cut
<1>2. Torn(job[w]) \subseteq Phys
  BY <1>1 DEF Torn, AimsAt
<1>3. ASSUME NEW x \in Rewritten(job[w]) PROVE x \in Addr /\ job[w].phy \in Phys
  <2>1. CASE job[w].pc \in {"map", "remap"}
    BY <1>1, <1>3, <2>1 DEF Rewritten, AimsAt, Writing
  <2>2. CASE job[w].pc \in {"link", "relink"}
    BY <1>1, <1>3, <2>2, Bases DEF Rewritten, AimsAt
  <2>3. CASE job[w].pc = "applyLink"
    BY <1>1, <1>3, <2>3, VirtToPhyIs, Bases DEF Rewritten, AimsAt
  <2>4. CASE job[w].pc \notin {"map", "remap", "link", "relink", "applyLink"}
    BY <1>3, <2>4 DEF Rewritten
  <2> QED
    BY <2>1, <2>2, <2>3, <2>4
<1>4. job'[w] = Idle /\ \A u \in Workers \ {w} : job'[u] = job[u]
  BY TypedIs DEF Cut
<1> QED
  BY <1>1, <1>2, <1>3, <1>4 DEF Cut

LEMMA TypedCut ==
  ASSUME Typed, NEW w \in Workers, Cut(w)
  PROVE  Typed'
<1>1. World'
  <2>1. CASE files' = files /\ doubtful' = doubtful \cup (Torn(job[w]) \ Lost)
    BY <2>1, CutIs, TypedIs DEF World, Lost
  <2>2. ASSUME NEW x \in Addr, files' = [files EXCEPT ![x] = NoFile], job[w].phy \in Phys,
               doubtful' = doubtful \cup ({job[w].phy} \ Lost) \cup Others(x, job[w].phy)
        PROVE  World'
    <3>1. doubtful' \subseteq Phys \ Lost /\ Good(NoFile)
      BY <2>2, TypedIs, DoubtIn DEF Good
    <3> QED
      BY <2>2, <3>1, CutIs, WorldWritten
  <2> QED
    BY <2>1, <2>2, CutIs
<1>2. Work'
  BY OneMoves, IdleIs DEF Cut
<1> QED
  BY <1>1, <1>2, WorldAndWorkNext

LEMMA TypedApply ==
  ASSUME Typed, NEW a \in Addr, Apply(a)
  PROVE  Typed'
<1>1. PICK ops \in ConnectorOps(a) : Start(Main, ExecOf(a, ops))
  BY DEF Apply, ExecOf
<1>2. Work'
  BY <1>1, OpLists, ExecJob, StartIs, Bases
<1>3. World'
  BY WorldKept DEF Apply
<1> QED
  BY <1>2, <1>3, WorldAndWorkNext

LEMMA TypedOpExec ==
  ASSUME Typed, OpExec
  PROVE  Typed'
<1> DEFINE at == VirtToPhy(job[Main].addr)
           j(p) == [job[Main] EXCEPT !.pc = "outputs", !.phy = p]
<1>1. job[Main] \in Jobs /\ AimsAt(job[Main]) /\ job[Main].pc = "exec"
  BY TypedIs, Bases DEF OpExec
<1>2. ASSUME NEW p \in Phys PROVE AimsAt(j(p))
  BY <1>1, <1>2 DEF AimsAt, Jobs, Writing
<1>3. /\ foreign' = foreign /\ files' = files /\ def' = def
      /\ \/ \E p \in Phys : live' = live \cup {p} /\ used' = used \cup {p} /\ doubtful' = doubtful
         \/ \E p \in Phys : live' = live \ {p} /\ used' = used /\ doubtful' = doubtful \ {p}
         \/ live' = live /\ used' = used /\ doubtful' = doubtful
      /\ \/ \E p \in Phys : job' = [job EXCEPT ![Main] = j(p)]
         \/ NextOp
  <2>1. at \in live => at \in Phys
    BY TypedIs
  <2>2. ASSUME NEW p, job' = [job EXCEPT ![Main].pc = "outputs", ![Main].phy = p]
        PROVE  job' = [job EXCEPT ![Main] = j(p)]
    BY <1>1, <2>2, TypedIs
  <2> HIDE DEF j
  <2> QED
    BY <2>1, <2>2 DEF OpExec
<1> HIDE DEF j
<1>4. World'
  BY <1>3, TypedIs DEF World, Lost
<1>5. Work'
  BY <1>1, <1>2, <1>3, OneMoves, NextOpIs, Bases
<1> QED
  BY <1>4, <1>5, WorldAndWorkNext

LEMMA TypedOutputs ==
  ASSUME Typed, ApplyOutputMap \/ ApplyLink \/ Unlink
  PROVE  Typed'
<1> DEFINE a == job[Main].addr
           p == job[Main].phy
<1>1. job[Main] \in Jobs /\ AimsAt(job[Main]) /\ Main \in Workers
  BY TypedIs, Bases
<1>2. Good(NoFile) /\ \A q \in Phys : Good(OutputMap(q))
  BY DEF Good
<1>3. CASE ApplyOutputMap
  <2>1. a \in Addr /\ p \in Phys /\ job[Main].pc = "outputs" /\ job[Main].ops # <<>>
    BY <1>1, <1>3 DEF ApplyOutputMap, AimsAt
  <2>4. NextOp \/ Goto(Main, "unlink") \/ Goto(Main, "applyLink")
    BY <1>3 DEF ApplyOutputMap
  <2>5. Work'
    BY <1>1, <2>1, <2>4, NextOpIs, GotoIs DEF Pcs, Writing
  <2>2. CASE Head(job[Main].ops) = "delete"
    <3>1. doubtful' \subseteq Phys \ Lost
      BY <1>3, <2>1, <2>2, DoubtIn DEF ApplyOutputMap
    <3>2. files' = [files EXCEPT ![a] = NoFile] /\ UNCHANGED <<def, live, used, foreign>>
      BY <1>3, <2>2 DEF ApplyOutputMap
    <3>3. World'
      BY <1>2, <3>1, <3>2, WorldWritten
    <3> QED
      BY <2>5, <3>3, WorldAndWorkNext
  <2>3. CASE Head(job[Main].ops) # "delete"
    <3>1. doubtful' \subseteq Phys \ Lost
      BY <1>3, <2>1, <2>3, DoubtIn, TypedIs DEF ApplyOutputMap, Merged
    <3>2. /\ files' = [files EXCEPT ![Chase(files, a)] = OutputMap(p)]
          /\ UNCHANGED <<def, live, used, foreign>>
      BY <1>3, <2>3 DEF ApplyOutputMap
    <3>3. World'
      BY <1>2, <2>1, <3>1, <3>2, WorldWritten
    <3> QED
      BY <2>5, <3>3, WorldAndWorkNext
  <2> QED
    BY <2>2, <2>3
<1>4. CASE ApplyLink
  <2>1. a \in Addr /\ job[Main].pc = "applyLink" /\ NextOp
    BY <1>1, <1>4 DEF ApplyLink, AimsAt
  <2>2. World'
    <3>1. CASE VirtToPhy(a) \notin {a, Nowhere}
      <4>1. /\ files' = [files EXCEPT ![VirtToPhy(a)] = PointerToVirtual(a)]
            /\ doubtful' = doubtful \cup Others(VirtToPhy(a), VirtToPhy(a))
        BY <1>4, <3>1 DEF ApplyLink
      <4>2. VirtToPhy(a) \in Phys
        BY <2>1, <3>1, VirtToPhyIs
      <4>3. doubtful' \subseteq Phys \ Lost /\ Good(PointerToVirtual(a))
        BY <2>1, <4>1, <4>2, DoubtIn DEF Good
      <4> QED
        BY <1>4, <4>1, <4>3, WorldWritten DEF ApplyLink
    <3>2. CASE VirtToPhy(a) \in {a, Nowhere}
      BY <1>4, <3>2, WorldKept DEF ApplyLink
    <3> QED
      BY <3>1, <3>2
  <2> QED
    BY <2>1, <2>2, NextOpIs, WorldAndWorkNext
<1>5. CASE Unlink
  <2>1. p \in Phys
    BY <1>1, <1>5 DEF Unlink, AimsAt
  <2>2. doubtful' \subseteq Phys \ Lost
    BY <1>5, <2>1, DoubtIn DEF Unlink
  <2>3. World'
    BY <1>2, <1>5, <2>2, WorldWritten DEF Unlink
  <2>4. Work'
    BY <1>5, NextOpIs DEF Unlink
  <2> QED
    BY <2>3, <2>4, WorldAndWorkNext
<1> QED
  BY <1>3, <1>4, <1>5

LEMMA TypedRename ==
  ASSUME Typed, NEW old \in Addr, NEW new \in Addr, Rename(old, new)
  PROVE  Typed'
<1>1. PICK p \in Phys : p = VirtToPhy(old)
  BY VirtToPhyIs DEF Rename
<1>2. Start(Main, RenameOf(old, new, p))
  BY <1>1 DEF Rename, RenameOf
<1>3. Work'
  BY <1>2, RenameJob, StartIs, Bases
<1>4. World'
  BY WorldKept DEF Rename
<1> QED
  BY <1>3, <1>4, WorldAndWorkNext

LEMMA TypedRenaming ==
  ASSUME Typed, Relink \/ Remap \/ Copy \/ RemoveOld
  PROVE  Typed'
<1>1. Main \in Workers /\ job[Main] \in Jobs /\ AimsAt(job[Main])
  BY TypedIs, Bases
<1>2. /\ job[Main].phy \in Phys /\ job[Main].to \in Addr /\ job[Main].addr \in Addr
  BY <1>1 DEF AimsAt, Writing, Relink, Remap, Copy, RemoveOld
<1>3. World'
  <2>1. CASE Relink
    <3>1. doubtful' \subseteq Phys \ Lost
      BY <1>2, <2>1, DoubtIn DEF Relink
    <3> QED
      BY <1>2, <2>1, <3>1, WorldWritten DEF Relink, Good
  <2>2. CASE Remap
    <3>1. doubtful' \subseteq Phys \ Lost
      BY <1>2, <2>2, DoubtIn DEF Remap
    <3> QED
      BY <1>2, <2>2, <3>1, WorldWritten DEF Remap, Good
  <2>3. CASE Copy
    BY <1>2, <2>3, WorldDefined DEF Copy, Definition
  <2>4. CASE RemoveOld
    BY <1>2, <2>4, WorldDefined DEF RemoveOld, Definition
  <2> QED
    BY <2>1, <2>2, <2>3, <2>4
<1>4. Work'
  <2>1. Goto(Main, "remap") \/ Goto(Main, "copy") \/ Goto(Main, "remove") \/ Finish(Main)
    BY DEF Relink, Remap, Copy, RemoveOld
  <2> QED
    BY <1>1, <1>2, <2>1, GotoIs, FinishIs DEF Pcs, Writing
<1> QED
  BY <1>3, <1>4, WorldAndWorkNext

LEMMA TypedImport ==
  ASSUME Typed, NEW overwrite \in BOOLEAN, Import(overwrite)
  PROVE  Typed'
<1>1. job' = [w \in Workers |-> IF w \in live THEN ImportOf(w, overwrite) ELSE Idle]
  BY DEF Import, ImportOf
<1>2. live \subseteq Phys
  BY TypedIs
<1>3. \A w \in Workers : AimsAt(job'[w])
  BY <1>1, <1>2, IdleIs, ImportJob
<1>4. job' \in [Workers -> Jobs]
  BY <1>1, <1>3 DEF AimsAt
<1>5. Work'
  BY <1>3, <1>4 DEF Work, AimsAt
<1>6. World'
  BY WorldKept DEF Import
<1> QED
  BY <1>5, <1>6, WorldAndWorkNext

LEMMA TypedImporting ==
  ASSUME Typed, NEW p \in Phys, Check(p) \/ Get(p)
  PROVE  Typed'
<1>1. p \in Workers /\ job[p] \in Jobs /\ AimsAt(job[p]) /\ job \in [Workers -> Jobs]
  BY TypedIs, Bases
<1>2. World'
  BY WorldKept DEF Check, Get
<1>3. ASSUME NEW pc \in {"get", "def"}, NEW v \in Addr, job[p].phy \in Phys,
             job' = [job EXCEPT ![p].pc = pc, ![p].to = v]
      PROVE  Work'
  <2> DEFINE j == [job[p] EXCEPT !.pc = pc, !.to = v]
  <2>1. job' = [job EXCEPT ![p] = j]
    BY <1>1, <1>3
  <2>2. AimsAt(j)
    BY <1>1, <1>3 DEF AimsAt, Jobs, Writing
  <2> HIDE DEF j
  <2> QED
    BY <1>1, <2>1, <2>2, OneMoves
<1>4. CASE Check(p)
  <2> DEFINE v == IF PhyToVirt(p) = Nowhere THEN p ELSE PhyToVirt(p)
  <2>1. v \in Addr
    BY VirtToPhyIs, Bases
  <2>2. Finish(p) \/ job' = [job EXCEPT ![p].pc = "get", ![p].to = v]
    BY <1>4 DEF Check
  <2>3. job[p].phy \in Phys
    BY <1>1, <1>4 DEF Check, AimsAt
  <2> HIDE DEF v
  <2>4. Work'
    BY <1>1, <1>3, <2>1, <2>2, <2>3, FinishIs
  <2> QED
    BY <1>2, <2>4, WorldAndWorkNext
<1>5. CASE Get(p)
  <2>1. job[p].to \in Addr /\ job[p].phy \in Phys
    BY <1>1, <1>5 DEF Get, AimsAt, Writing
  <2>2. \A hint \in Virt \cup {Nowhere} : Target(p, job[p].to, hint) \in Addr
    BY <2>1 DEF Target, Addr
  <2>3. Work'
    BY <1>3, <1>5, <2>1, <2>2 DEF Get
  <2> QED
    BY <1>2, <2>3, WorldAndWorkNext
<1> QED
  BY <1>4, <1>5

LEMMA TypedPull ==
  ASSUME Typed, NEW a \in Addr, PullState(a) \/ PullDelete(a)
  PROVE  Typed'
<1>1. PICK p \in Phys : p = VirtToPhy(a)
  BY TypedIs DEF PullState, PullDelete
<1>2. PICK pc \in {"def", "map", "pullDef"} : Start(Main, PullOf(pc, a, p))
  BY <1>1 DEF PullState, PullDelete, PullOf
<1>3. Work'
  BY <1>2, PullJob, StartIs, Bases
<1>4. World'
  BY WorldKept DEF PullState, PullDelete
<1> QED
  BY <1>3, <1>4, WorldAndWorkNext

LEMMA TypedPulling ==
  ASSUME Typed, PullDef \/ PullPhy \/ PullVirt
  PROVE  Typed'
<1>1. Main \in Workers /\ job[Main] \in Jobs /\ AimsAt(job[Main])
  BY TypedIs, Bases
<1>2. job[Main].phy \in Phys /\ job[Main].to \in Addr
  BY <1>1 DEF AimsAt, Writing, PullDef, PullPhy, PullVirt
<1>3. World'
  <2>1. CASE PullDef
    BY <1>2, <2>1, WorldDefined DEF PullDef, Definition
  <2>2. CASE PullPhy \/ PullVirt
    <3>1. PICK x : Delete(x, job[Main].phy)
      BY <2>2 DEF PullPhy, PullVirt
    <3>2. doubtful' \subseteq Phys \ Lost
      BY <1>2, <3>1, DoubtIn DEF Delete
    <3> QED
      BY <3>1, <3>2, WorldWritten DEF Delete, Good
  <2> QED
    BY <2>1, <2>2
<1>4. Goto(Main, "pullPhy") \/ Goto(Main, "pullVirt") \/ Finish(Main)
  BY DEF PullDef, PullPhy, PullVirt
<1>5. Work'
  BY <1>1, <1>2, <1>4, GotoIs, FinishIs DEF Pcs, Writing
<1> QED
  BY <1>3, <1>5, WorldAndWorkNext

LEMMA TypedWrite ==
  ASSUME Typed, NEW w \in Workers, WriteDef(w) \/ WriteMap(w) \/ WriteLink(w)
  PROVE  Typed'
<1>1. job[w] \in Jobs /\ AimsAt(job[w])
  BY TypedIs
<1>2. job[w].phy \in Phys /\ job[w].to \in Addr
  BY <1>1 DEF AimsAt, Writing, WriteDef, WriteMap, WriteLink
<1>3. World'
  <2>1. CASE WriteDef(w)
    BY <1>2, <2>1, WorldDefined DEF WriteDef, Definition
  <2>2. CASE WriteMap(w)
    <3>1. doubtful' \subseteq Phys \ Lost
      BY <1>2, <2>2, DoubtIn DEF WriteMap
    <3> QED
      BY <1>2, <2>2, <3>1, WorldWritten DEF WriteMap, Good
  <2>3. CASE WriteLink(w)
    <3>1. doubtful' \subseteq Phys \ Lost
      BY <1>2, <2>3, DoubtIn DEF WriteLink
    <3> QED
      BY <1>2, <2>3, <3>1, WorldWritten DEF WriteLink, Good
  <2> QED
    BY <2>1, <2>2, <2>3
<1>4. Goto(w, "map") \/ Goto(w, "link") \/ Finish(w)
  BY DEF WriteDef, WriteMap, WriteLink
<1>5. Work'
  BY <1>2, <1>4, GotoIs, FinishIs DEF Pcs, Writing
<1> QED
  BY <1>3, <1>5, WorldAndWorkNext

LEMMA TypedNext == Typed /\ [Next]_vars => Typed'
<1> SUFFICES ASSUME Typed, [Next]_vars PROVE Typed'
  OBVIOUS
<1>1. CASE UNCHANGED vars
  BY <1>1, WorldAndWork, WorldAndWorkNext DEF vars, World, Work, Lost
<1>2. CASE Next
  <2>1. Virt \subseteq Addr /\ Phys \subseteq Addr
    BY Bases
  <2>2. CASE \E p \in Phys : Appear(p) \/ Check(p) \/ Get(p)
    BY <2>1, <2>2, TypedOutside, TypedImporting
  <2>3. CASE \E a \in Virt : Draft(a)
    BY <2>1, <2>3, TypedOutside
  <2>4. CASE \E a \in Addr : Remove(a) \/ Apply(a) \/ PullState(a) \/ PullDelete(a)
    BY <2>4, TypedOutside, TypedApply, TypedPull
  <2>5. CASE \E old, new \in Addr : Rename(old, new)
    BY <2>1, <2>5, TypedRename
  <2>6. CASE OpExec \/ ApplyOutputMap \/ ApplyLink \/ Unlink \/ Relink \/ Remap \/ Copy \/ RemoveOld
             \/ PullDef \/ PullPhy \/ PullVirt
    BY <2>6, TypedOpExec, TypedOutputs, TypedRenaming, TypedPulling
  <2>7. CASE \E overwrite \in BOOLEAN : Import(overwrite)
    BY <2>7, TypedImport
  <2>8. CASE \E w \in Workers : WriteDef(w) \/ WriteMap(w) \/ WriteLink(w) \/ Cut(w)
    BY <2>8, TypedWrite, TypedCut
  <2> QED
    BY <1>2, <2>2, <2>3, <2>4, <2>5, <2>6, <2>7, <2>8 DEF Next
<1> QED
  BY <1>1, <1>2

(* Every file is none, a link to an address or the map of a resource, in   *)
(* every state and for every set of names: an invariant of the workflows   *)
(* because each knows an address and a resource when it writes.            *)
THEOREM TypeCorrect == Spec => []TypeOK
<1>1. Typed => TypeOK
  BY DEF Typed
<1> QED
  BY <1>1, TypedInit, TypedNext, PTL DEF Spec

(* A read that Loops is one that follows links and never comes to an end.  *)
THEOREM LoopsHaveNoEnd ==
  ASSUME TypeOK, NEW a \in Addr
  PROVE  Loops(a) <=> \A m \in Nat : \A g : Walk(files, a, m, g) => files[g[m]].kind = "link"
<1>1. Linked(files)
  BY DEF TypeOK, Linked, Follow
<1>2. PICK w : Walk(files, a, Last, w) /\ Chase(files, a) = w[Last]
  BY <1>1, ChaseIs
<1>3. ASSUME Loops(a), NEW m \in Nat, NEW g, Walk(files, a, m, g) PROVE files[g[m]].kind = "link"
  BY <1>1, <1>3, ChaseFindsTheEnd DEF Loops
<1>4. ASSUME \A m \in Nat : \A g : Walk(files, a, m, g) => files[g[m]].kind = "link"
      PROVE  Loops(a)
  BY <1>2, <1>4, LastIs DEF Loops
<1> QED
  BY <1>3, <1>4

-----------------------------------------------------------------------------
(* What holds whatever the user does and wherever workflows are cut: a     *)
(* link is only ever at the physical address of a resource.                *)

LinksAtResources == \A a \in Addr : files[a].kind = "link" => a \in Phys
(* While the main worker is at work, no import is. *)
Alone == job[Main].pc # "idle" => \A p \in Phys : job[p].pc = "idle"
(* When apply writes the link, its address leads to the map of its resource. *)
Reached == job[Main].pc = "applyLink" => VirtToPhy(job[Main].addr) = job[Main].phy
Anchored == LinksAtResources /\ Alone /\ Reached

VirtualReadsEnd == \A a \in Virt : ~Loops(a)

(* The file at the end of a chain that is no link leaves the chain as long *)
(* as it was; where the chain was a loop, it ends there.                   *)
LEMMA WrittenAtTheEnd ==
  ASSUME NEW f, Linked(f), NEW a \in Addr, NEW e \in Addr, e = Chase(f, a),
         NEW h, h[e].kind # "link", \A b \in Addr \ {e} : h[b] = f[b]
  PROVE  Chase(h, a) = e
<1>1. PICK w : Walk(f, a, Last, w) /\ e = w[Last]
  BY ChaseIs
<1>2. PICK m \in Nat : m = Last /\ h[w[m]].kind # "link"
  BY <1>1, LastIs
<1>3. PICK k \in 0 .. m : /\ h[w[k]].kind # "link"
                          /\ \A n \in 0 .. m : n < k => h[w[n]].kind = "link"
  BY <1>2, FirstEnd
<1>4. w \in [0 .. m -> Addr] /\ w[0] = a /\ w[k] \in Addr
  BY <1>1, <1>2 DEF Walk
<1>5. w[k] = e
  <2>1. CASE w[k] # e
    <3>1. f[w[k]].kind # "link"
      BY <1>3, <1>4, <2>1
    <3> QED
      BY <1>1, <1>2, <3>1, Stays
  <2> QED
    BY <2>1
<1>6. Linked(h)
  BY DEF Linked, Follow
<1>7. PICK g : Walk(h, a, k, g) /\ g[k] = e
  <2> DEFINE g == [n \in 0 .. k |-> w[n]]
  <2>1. \A n \in 0 .. k : n \in 0 .. m
    BY <1>2
  <2>2. g \in [0 .. k -> Addr] /\ g[0] = a
    BY <1>2, <1>4, <2>1
  <2>3. ASSUME NEW n \in 1 .. k PROVE g[n] = Follow(h, g[n - 1])
    <3>1. n \in 1 .. m /\ n - 1 \in 0 .. m /\ n - 1 < k /\ n - 1 \in 0 .. k /\ n \in 0 .. k
      BY <1>2
    <3>2. g[n] = w[n] /\ g[n - 1] = w[n - 1] /\ w[n] = Follow(f, w[n - 1])
      BY <1>1, <1>2, <3>1 DEF Walk
    <3>3. w[n - 1] \in Addr \ {e}
      BY <1>3, <1>4, <3>1
    <3>4. Follow(h, w[n - 1]) = Follow(f, w[n - 1])
      BY <3>3 DEF Follow
    <3> QED
      BY <3>2, <3>4
  <2>4. g[k] = e
    BY <1>2, <1>5
  <2> HIDE DEF g
  <2>5. Walk(h, a, k, g)
    BY <2>2, <2>3 DEF Walk
  <2> QED
    BY <2>4, <2>5
<1>8. k \in Nat /\ h[g[k]].kind # "link"
  BY <1>2, <1>7
<1>9. Chase(h, a) = g[k]
  BY <1>6, <1>7, <1>8, ChaseFindsTheEnd
<1> QED
  BY <1>7, <1>9

(* A step that writes one file.                                            *)
LEMMA LinkPlaced ==
  ASSUME Typed, LinksAtResources, NEW a, NEW x, x.kind = "link" => a \in Phys,
         files' = [files EXCEPT ![a] = x]
  PROVE  LinksAtResources'
BY TypedIs DEF LinksAtResources

(* A step of an import, which leaves the main worker idle.                 *)
LEMMA ImportAnchored ==
  ASSUME Typed, Alone, NEW p \in Phys, job[p].pc # "idle",
         \A u \in Workers \ {p} : job'[u] = job[u]
  PROVE  Alone' /\ Reached'
<1>1. Main \in Workers \ {p} /\ job[Main].pc = "idle"
  BY Bases, AddressesAssumption DEF Alone
<1> QED
  BY <1>1 DEF Alone, Reached

(* A step of the main worker, but those that lead to a link.               *)
LEMMA MainAnchored ==
  ASSUME Typed, Alone, job[Main].pc # "idle" \/ Quiet,
         \A u \in Workers \ {Main} : job'[u] = job[u],
         job'[Main].pc # "applyLink"
  PROVE  Alone' /\ Reached'
<1>1. \A p \in Phys : p \in Workers \ {Main} /\ job[p].pc = "idle"
  BY Bases, AddressesAssumption, IdleIs DEF Alone, Quiet
<1> QED
  BY <1>1 DEF Alone, Reached

LEMMA AnchoredInit == Init => Anchored
<1> SUFFICES ASSUME Init PROVE Anchored
  OBVIOUS
<1>1. \A w \in Workers : job[w].pc = "idle"
  BY IdleIs DEF Init
<1>2. \A a \in Addr : files[a].kind # "link"
  BY KindsOfFile DEF Init
<1> QED
  BY <1>1, <1>2, Bases DEF Anchored, LinksAtResources, Alone, Reached

(* What happens outside writes no output file.                             *)
LEMMA AnchoredOutside ==
  ASSUME Typed, Anchored, NEW a \in Addr, Appear(a) \/ Draft(a) \/ Remove(a)
  PROVE  Anchored'
BY DEF Appear, Draft, Remove, Anchored, LinksAtResources, Alone, Reached, VirtToPhy, Loops

LEMMA AnchoredStart ==
  ASSUME Typed, Anchored,
         \/ \E a \in Addr : Apply(a) \/ PullState(a) \/ PullDelete(a)
         \/ \E old \in Addr, new \in Addr : Rename(old, new)
         \/ \E overwrite \in BOOLEAN : Import(overwrite)
  PROVE  Anchored'
<1>1. Quiet /\ files' = files /\ Main \in Workers /\ job \in [Workers -> Jobs]
  BY Bases, TypedIs DEF Apply, PullState, PullDelete, Rename, Import
<1>2. LinksAtResources'
  BY <1>1 DEF Anchored, LinksAtResources
<1>3. CASE \E overwrite \in BOOLEAN : Import(overwrite)
  <2>1. job'[Main] = Idle
    BY <1>1, <1>3, TypedIs, AddressesAssumption DEF Import
  <2> QED
    BY <1>2, <2>1, IdleIs DEF Anchored, Alone, Reached
<1>4. CASE ~ \E overwrite \in BOOLEAN : Import(overwrite)
  <2>1. \E j : j.pc \in {"exec", "relink", "def", "map", "pullDef"} /\ Start(Main, j)
    <3>1. CASE \E a \in Addr : Apply(a)
      <4>1. PICK a \in Addr : Apply(a)
        BY <3>1
      <4>2. PICK ops \in ConnectorOps(a) : Start(Main, ExecOf(a, ops))
        BY <4>1 DEF Apply, ExecOf
      <4> QED
        BY <4>2, OpLists, ExecJob
    <3>2. CASE \E a \in Addr : PullState(a) \/ PullDelete(a)
      <4>1. PICK a \in Addr : PullState(a) \/ PullDelete(a)
        BY <3>2
      <4>2. PICK p \in Phys : p = VirtToPhy(a)
        BY <4>1, TypedIs DEF PullState, PullDelete
      <4>3. PICK pc \in {"def", "map", "pullDef"} : Start(Main, PullOf(pc, a, p))
        BY <4>1, <4>2 DEF PullState, PullDelete, PullOf
      <4> QED
        BY <4>3, PullJob
    <3>3. CASE \E old \in Addr, new \in Addr : Rename(old, new)
      <4>1. PICK old \in Addr, new \in Addr : Rename(old, new)
        BY <3>3
      <4>2. PICK p \in Phys : p = VirtToPhy(old)
        BY <4>1, VirtToPhyIs DEF Rename
      <4>3. Start(Main, RenameOf(old, new, p))
        BY <4>1, <4>2 DEF Rename, RenameOf
      <4> QED
        BY <4>3, RenameJob
    <3> QED
      BY <1>4, <3>1, <3>2, <3>3
  <2>2. /\ job'[Main].pc \in {"exec", "relink", "def", "map", "pullDef"}
        /\ \A u \in Workers \ {Main} : job'[u] = job[u]
    BY <1>1, <2>1 DEF Start
  <2> QED
    BY <1>1, <1>2, <2>2, MainAnchored DEF Anchored
<1> QED
  BY <1>3, <1>4

LEMMA AnchoredImporting ==
  ASSUME Typed, Anchored, NEW p \in Phys, Check(p) \/ Get(p)
  PROVE  Anchored'
<1>1. p \in Workers /\ job \in [Workers -> Jobs] /\ job[p].pc # "idle" /\ files' = files
  BY TypedIs, Bases DEF Check, Get
<1>2. \E j : job' = [job EXCEPT ![p] = j]
  <2>1. \A pc, v : [job EXCEPT ![p].pc = pc, ![p].to = v]
                     = [job EXCEPT ![p] = [job[p] EXCEPT !.pc = pc, !.to = v]]
    BY <1>1
  <2> QED
    BY <2>1 DEF Check, Get, Finish
<1>3. \A u \in Workers \ {p} : job'[u] = job[u]
  BY <1>1, <1>2
<1> QED
  BY <1>1, <1>3, ImportAnchored DEF Anchored, LinksAtResources

LEMMA AnchoredWrite ==
  ASSUME Typed, Anchored, NEW w \in Workers, WriteDef(w) \/ WriteMap(w) \/ WriteLink(w) \/ Cut(w)
  PROVE  Anchored'
<1>1. job \in [Workers -> Jobs] /\ job[w].pc # "idle" /\ AimsAt(job[w])
  BY TypedIs DEF WriteDef, WriteMap, WriteLink, Cut
<1>2. LinksAtResources'
  <2>1. CASE WriteDef(w)
    BY <2>1 DEF Anchored, LinksAtResources, WriteDef
  <2>2. CASE WriteMap(w)
    BY <2>2, LinkPlaced DEF Anchored, WriteMap, OutputMap
  <2>3. CASE WriteLink(w)
    <3>1. job[w].phy \in Phys
      BY <1>1, <2>3 DEF WriteLink, AimsAt
    <3> QED
      BY <2>3, <3>1, LinkPlaced DEF Anchored, WriteLink
  <2>4. CASE Cut(w)
    <3>1. files' = files \/ \E x \in Addr : files' = [files EXCEPT ![x] = NoFile]
      BY <2>4, CutIs
    <3>2. CASE files' = files
      BY <3>2 DEF Anchored, LinksAtResources
    <3> QED
      BY <3>1, <3>2, LinkPlaced, KindsOfFile DEF Anchored
  <2> QED
    BY <2>1, <2>2, <2>3, <2>4
<1>3. Goto(w, "map") \/ Goto(w, "link") \/ Finish(w)
  BY DEF WriteDef, WriteMap, WriteLink, Cut, Finish
<1>4. /\ \A u \in Workers \ {w} : job'[u] = job[u]
      /\ job'[w].pc \in {"map", "link", "idle"}
  <2>1. ASSUME NEW pc, Goto(w, pc) PROVE job'[w].pc = pc /\ \A u \in Workers \ {w} : job'[u] = job[u]
    BY <1>1, <2>1 DEF Goto, AimsAt, Jobs
  <2>2. CASE Finish(w)
    BY <1>1, <2>2, IdleIs DEF Finish
  <2> QED
    BY <1>3, <2>1, <2>2
<1>5. CASE w = Main
  BY <1>1, <1>2, <1>4, <1>5, MainAnchored DEF Anchored
<1>6. CASE w \in Phys
  BY <1>1, <1>2, <1>4, <1>6, ImportAnchored DEF Anchored
<1> QED
  BY <1>5, <1>6 DEF Workers

LEMMA AnchoredPulling ==
  ASSUME Typed, Anchored, PullDef \/ PullPhy \/ PullVirt
  PROVE  Anchored'
<1>1. /\ Main \in Workers /\ job \in [Workers -> Jobs] /\ AimsAt(job[Main])
      /\ job[Main].pc # "idle"
  BY TypedIs, Bases DEF PullDef, PullPhy, PullVirt
<1>2. LinksAtResources'
  <2>1. CASE PullDef
    BY <2>1 DEF Anchored, LinksAtResources, PullDef
  <2>2. CASE PullPhy \/ PullVirt
    BY <2>2, KindsOfFile, LinkPlaced DEF Anchored, PullPhy, PullVirt, Delete
  <2> QED
    BY <2>1, <2>2
<1>3. Goto(Main, "pullPhy") \/ Goto(Main, "pullVirt") \/ Finish(Main)
  BY DEF PullDef, PullPhy, PullVirt
<1>4. /\ \A u \in Workers \ {Main} : job'[u] = job[u]
      /\ job'[Main].pc # "applyLink"
  <2>1. ASSUME NEW pc, Goto(Main, pc)
        PROVE  job'[Main].pc = pc /\ \A u \in Workers \ {Main} : job'[u] = job[u]
    BY <1>1, <2>1 DEF Goto, AimsAt, Jobs
  <2>2. CASE Finish(Main)
    BY <1>1, <2>2, IdleIs DEF Finish
  <2> QED
    BY <1>3, <2>1, <2>2
<1> QED
  BY <1>1, <1>2, <1>4, MainAnchored DEF Anchored

LEMMA AnchoredRenaming ==
  ASSUME Typed, Anchored, Relink \/ Remap \/ Copy \/ RemoveOld
  PROVE  Anchored'
<1>1. /\ Main \in Workers /\ job \in [Workers -> Jobs] /\ AimsAt(job[Main])
      /\ job[Main].pc \in {"relink", "remap", "copy", "remove"}
  BY TypedIs, Bases DEF Relink, Remap, Copy, RemoveOld
<1>2. job[Main].phy \in Phys
  BY <1>1 DEF AimsAt
<1>3. LinksAtResources'
  <2>1. CASE Relink
    BY <1>2, <2>1, LinkPlaced DEF Anchored, Relink
  <2>2. CASE Remap
    BY <2>2, LinkPlaced DEF Anchored, Remap, OutputMap
  <2>3. CASE Copy \/ RemoveOld
    BY <2>3 DEF Anchored, LinksAtResources, Copy, RemoveOld
  <2> QED
    BY <2>1, <2>2, <2>3
<1>4. Goto(Main, "remap") \/ Goto(Main, "copy") \/ Goto(Main, "remove") \/ Finish(Main)
  BY DEF Relink, Remap, Copy, RemoveOld
<1>5. /\ \A u \in Workers \ {Main} : job'[u] = job[u]
      /\ job'[Main].pc # "applyLink"
  <2>1. ASSUME NEW pc, Goto(Main, pc)
        PROVE  job'[Main].pc = pc /\ \A u \in Workers \ {Main} : job'[u] = job[u]
    BY <1>1, <2>1 DEF Goto, AimsAt, Jobs
  <2>2. CASE Finish(Main)
    BY <1>1, <2>2, IdleIs DEF Finish
  <2> QED
    BY <1>4, <2>1, <2>2
<1> QED
  BY <1>1, <1>3, <1>5, MainAnchored DEF Anchored

LEMMA AnchoredOpExec ==
  ASSUME Typed, Anchored, OpExec
  PROVE  Anchored'
<1>1. /\ Main \in Workers /\ job \in [Workers -> Jobs] /\ job[Main].pc = "exec" /\ files' = files
  BY TypedIs, Bases DEF OpExec
<1>2. \/ \E p : job' = [job EXCEPT ![Main].pc = "outputs", ![Main].phy = p]
      \/ NextOp
  BY DEF OpExec
<1>3. CASE \E p : job' = [job EXCEPT ![Main].pc = "outputs", ![Main].phy = p]
  <2>1. PICK p : job' = [job EXCEPT ![Main] = [job[Main] EXCEPT !.pc = "outputs", !.phy = p]]
    BY <1>1, <1>3
  <2>2. [job[Main] EXCEPT !.pc = "outputs", !.phy = p].pc = "outputs"
    BY <1>1 DEF Jobs
  <2>3. job'[Main].pc = "outputs" /\ \A u \in Workers \ {Main} : job'[u] = job[u]
    BY <1>1, <2>1, <2>2
  <2> QED
    BY <1>1, <2>3, MainAnchored DEF Anchored, LinksAtResources
<1>4. CASE NextOp
  <2>1. job'[Main].pc # "applyLink" /\ \A u \in Workers \ {Main} : job'[u] = job[u]
    BY <1>1, <1>4, NextOpIs, IdleIs DEF Jobs
  <2> QED
    BY <1>1, <2>1, MainAnchored DEF Anchored, LinksAtResources
<1> QED
  BY <1>2, <1>3, <1>4

(* The map is merged at the end of the chain, so that the address the      *)
(* workflow is about leads to its resource when the link is written.       *)
LEMMA AnchoredOutputs ==
  ASSUME Typed, Anchored, ApplyOutputMap
  PROVE  Anchored'
<1>1. PICK a, p : a = job[Main].addr /\ p = job[Main].phy
  OBVIOUS
<1>2. /\ Main \in Workers /\ job[Main].pc = "outputs" /\ AimsAt(job[Main]) /\ job[Main].ops # <<>>
      /\ a \in Addr /\ p \in Phys
  BY <1>1, TypedIs, Bases DEF ApplyOutputMap, AimsAt
<1>3. CASE Head(job[Main].ops) = "delete"
  <2>1. files' = [files EXCEPT ![a] = NoFile]
    BY <1>1, <1>3 DEF ApplyOutputMap
  <2>2. LinksAtResources'
    BY <2>1, KindsOfFile, LinkPlaced DEF Anchored
  <2>3. Goto(Main, "unlink") \/ NextOp
    BY <1>3 DEF ApplyOutputMap
  <2>4. job'[Main].pc # "applyLink" /\ \A u \in Workers \ {Main} : job'[u] = job[u]
    <3>1. CASE NextOp
      BY <1>2, <3>1, NextOpIs, IdleIs, TypedIs DEF Jobs
    <3>2. CASE Goto(Main, "unlink")
      BY <1>2, <3>2, TypedIs DEF Goto
    <3> QED
      BY <2>3, <3>1, <3>2
  <2> QED
    BY <1>2, <2>2, <2>4, MainAnchored DEF Anchored
<1>4. CASE Head(job[Main].ops) # "delete"
  <2>1. files' = [files EXCEPT ![Chase(files, a)] = OutputMap(p)] /\ Goto(Main, "applyLink")
    BY <1>1, <1>4 DEF ApplyOutputMap
  <2>2. OutputMap(p) \in OutputMapFile /\ OutputMap(p).kind = "map" /\ OutputMap(p).addr = p
    BY <1>2, KindsOfFile
  <2>3. LinksAtResources'
    BY <2>1, <2>2, LinkPlaced DEF Anchored
  <2>4. /\ job'[Main].addr = a /\ job'[Main].phy = p /\ job'[Main].pc = "applyLink"
        /\ \A u \in Workers \ {Main} : job'[u] = job[u]
    BY <1>1, <1>2, <2>1, GotoIs DEF Pcs, Writing
  <2>5. Alone'
    <3>1. \A q \in Phys : q \in Workers \ {Main}
      BY Bases, AddressesAssumption
    <3> QED
      BY <1>2, <2>4, <3>1 DEF Anchored, Alone
  <2>6. files'[Chase(files', a)].addr = p /\ files'[Chase(files', a)].kind # "link"
    <3>1. PICK e \in Addr : e = Chase(files, a)
      BY <1>2, VirtToPhyIs
    <3>2. files'[e] = OutputMap(p) /\ \A b \in Addr \ {e} : files'[b] = files[b]
      BY <2>1, <3>1, TypedIs
    <3>3. Linked(files) /\ files'[e].kind # "link"
      BY <2>2, <3>2, TypedIs
    <3>4. Chase(files', a) = e
      BY <1>2, <3>1, <3>2, <3>3, WrittenAtTheEnd
    <3> QED
      BY <2>2, <3>2, <3>4
  <2>7. Reached'
    BY <2>4, <2>6 DEF Reached, VirtToPhy, Loops
  <2> QED
    BY <2>3, <2>5, <2>7 DEF Anchored
<1> QED
  BY <1>3, <1>4

LEMMA AnchoredLinks ==
  ASSUME Typed, Anchored, ApplyLink \/ Unlink
  PROVE  Anchored'
<1>1. /\ Main \in Workers /\ job \in [Workers -> Jobs] /\ AimsAt(job[Main])
      /\ job[Main].pc \in {"applyLink", "unlink"}
  BY TypedIs, Bases DEF ApplyLink, Unlink
<1>2. LinksAtResources'
  <2>1. CASE Unlink
    BY <2>1, KindsOfFile, LinkPlaced DEF Anchored, Unlink
  <2>2. CASE ApplyLink
    <3>1. VirtToPhy(job[Main].addr) \in Phys
      BY <1>1, <2>2 DEF ApplyLink, Anchored, Reached, AimsAt
    <3>2. CASE files' = files
      BY <3>2 DEF Anchored, LinksAtResources
    <3>3. CASE files' = [files EXCEPT ![VirtToPhy(job[Main].addr)] = PointerToVirtual(job[Main].addr)]
      BY <3>1, <3>3, LinkPlaced DEF Anchored
    <3> QED
      BY <2>2, <3>2, <3>3 DEF ApplyLink
  <2> QED
    BY <2>1, <2>2
<1>3. NextOp
  BY DEF ApplyLink, Unlink
<1>4. job'[Main].pc # "applyLink" /\ \A u \in Workers \ {Main} : job'[u] = job[u]
  BY <1>1, <1>3, NextOpIs, IdleIs DEF Jobs
<1> QED
  BY <1>1, <1>2, <1>4, MainAnchored DEF Anchored

LEMMA AnchoredNext == Typed /\ Anchored /\ [Next]_vars => Anchored'
<1> SUFFICES ASSUME Typed, Anchored, [Next]_vars PROVE Anchored'
  OBVIOUS
<1>1. CASE UNCHANGED vars
  BY <1>1 DEF vars, Anchored, LinksAtResources, Alone, Reached, VirtToPhy, Loops
<1>2. CASE Next
  <2>1. Virt \subseteq Addr /\ Phys \subseteq Addr
    BY Bases
  <2>2. CASE \E p \in Phys : Appear(p) \/ Check(p) \/ Get(p)
    BY <2>1, <2>2, AnchoredOutside, AnchoredImporting
  <2>3. CASE \E a \in Virt : Draft(a)
    BY <2>1, <2>3, AnchoredOutside
  <2>4. CASE \E a \in Addr : Remove(a) \/ Apply(a) \/ PullState(a) \/ PullDelete(a)
    BY <2>4, AnchoredOutside, AnchoredStart
  <2>5. CASE \E old, new \in Addr : Rename(old, new)
    BY <2>1, <2>5, AnchoredStart
  <2>6. CASE OpExec \/ ApplyOutputMap \/ ApplyLink \/ Unlink \/ Relink \/ Remap \/ Copy \/ RemoveOld
             \/ PullDef \/ PullPhy \/ PullVirt
    BY <2>6, AnchoredOpExec, AnchoredOutputs, AnchoredLinks, AnchoredRenaming, AnchoredPulling
  <2>7. CASE \E overwrite \in BOOLEAN : Import(overwrite)
    BY <2>7, AnchoredStart
  <2>8. CASE \E w \in Workers : WriteDef(w) \/ WriteMap(w) \/ WriteLink(w) \/ Cut(w)
    BY <2>8, AnchoredWrite
  <2> QED
    BY <1>2, <2>2, <2>3, <2>4, <2>5, <2>6, <2>7, <2>8 DEF Next
<1> QED
  BY <1>1, <1>2

(* Reading the output file of a virtual address (read_recurse, resolve and *)
(* get in connector.rs) comes to an end, whatever names the user reuses    *)
(* and at whatever writes workflows are cut: only the file of a physical   *)
(* address can be a link, so only there can links run in a circle.         *)
THEOREM NamesAreNeverLinks == Spec => []VirtualReadsEnd
<1>1. Typed /\ Anchored => VirtualReadsEnd
  <2> SUFFICES ASSUME Typed, Anchored, NEW a \in Virt PROVE ~Loops(a)
    BY DEF VirtualReadsEnd
  <2>1. a \in Addr /\ Linked(files) /\ files[a].kind # "link"
    BY Bases, AddressesAssumption, TypedIs DEF Anchored, LinksAtResources
  <2>2. Chase(files, a) = a
    BY <2>1, ChaseOnce DEF Follow
  <2> QED
    BY <2>1, <2>2 DEF Loops
<1> QED
  BY <1>1, TypedInit, TypedNext, AnchoredInit, AnchoredNext, PTL DEF Spec

-----------------------------------------------------------------------------
(* What the files say of a resource that is not in doubt: the invariant    *)
(* Tidy.                                                                   *)

NoMapOf(p) == \A a \in Addr : files[a] # OutputMap(p)

(* Its address holds its map, or is a link to where the map is. *)
Settled(p) ==
  \/ files[p] = OutputMap(p)
  \/ \E t \in Addr : files[p] = PointerToVirtual(t) /\ files[t] = OutputMap(p)

(* A workflow about it has yet to write the first or the second file. *)
Creating(p) ==
  job[Main].pc = "outputs" /\ job[Main].phy = p /\ Head(job[Main].ops) = "create"
Mid(w, p) == job[w].phy = p /\ job[w].pc \in {"remap", "applyLink", "link"}

WholeOf(p) ==
  \/ p \notin live \ foreign /\ Unrecorded(p)
  \/ p \in live \ foreign /\ \/ Settled(p)
                             \/ Creating(p) /\ Unrecorded(p)
                             \/ \E w \in Workers : Mid(w, p)
Whole == \A p \in Phys \ (Lost \cup doubtful) : WholeOf(p)

(* Maps hold resources there are or were; of a new one there is none. *)
Maps == \A a \in Addr : files[a].kind = "map" => files[a].addr \in used
NewOnes == \A p \in foreign : job[Main].phy # p /\ NoMapOf(p)

(* What the main worker knows at its next step. *)
AtMain ==
  LET j == job[Main]
      p == job[Main].phy
      op == Head(job[Main].ops)
  IN  /\ p \in used \cup {Nowhere}
      /\ j.pc \notin {"check", "get"}
      /\ j.pc = "outputs" =>
           /\ op = "delete" => p \in Lost
           /\ op # "delete" => p \in live
           /\ op = "create" /\ p \notin doubtful => Unrecorded(p)
           /\ op = "update" /\ p \notin doubtful => Settled(p)
      /\ j.pc \in {"unlink", "pullDef", "pullPhy", "pullVirt"} => p \in Lost
      /\ j.pc \in {"def", "map"} => p \in live
      /\ j.pc = "remap" => files[p] = PointerToVirtual(j.to)
      /\ j.pc = "applyLink" /\ p \notin doubtful => j.addr \in Virt \/ (j.addr = p /\ Settled(p))

(* The map is written when the link to it is. *)
AtLink(w) ==
  job[w].pc = "link" =>
    /\ job[w].to # job[w].phy /\ job[w].phy \in live \ foreign
    /\ job[w].phy \notin doubtful => files[job[w].to] = OutputMap(job[w].phy)

(* The task of an import is about the resource it is named after, and      *)
(* writes where the link of that resource leads, if there is one.          *)
AtTask(p) ==
  job[p].pc # "idle" =>
    /\ job[p].phy = p /\ p \in live
    /\ job[p].pc \in {"check", "get", "def", "map", "link"}
    /\ job[p].pc \in {"get", "def", "map"} /\ p \notin doubtful /\ files[p].kind = "link" =>
         files[p].addr = job[p].to

Records ==
  /\ Whole /\ Maps /\ NewOnes /\ AtMain
  /\ (\A w \in Workers : AtLink(w)) /\ (\A p \in Phys : AtTask(p))
Tidy == Typed /\ Anchored /\ Records

(* The kinds of files are different.                                       *)
LEMMA Distinct ==
  /\ \A p \in Phys : \A q : OutputMap(p) = OutputMap(q) => p = q
  /\ \A a, b : PointerToVirtual(a) = PointerToVirtual(b) => a = b
  /\ \A a, p : PointerToVirtual(a) # OutputMap(p) /\ NoFile # OutputMap(p) /\ NoFile # PointerToVirtual(a)
  /\ \A a, p : /\ PointerToVirtual(a).kind = "link" /\ PointerToVirtual(a).addr = a
               /\ OutputMap(p).kind = "map" /\ OutputMap(p).addr = p
  /\ NoFile.kind = "none"
<1>1. /\ \A a, p : /\ PointerToVirtual(a).kind = "link" /\ PointerToVirtual(a).addr = a
                   /\ OutputMap(p).kind = "map" /\ OutputMap(p).addr = p
      /\ NoFile.kind = "none"
  BY DEF PointerToVirtual, OutputMap, NoFile
<1> QED
  BY <1>1

(* A map that is read holds a resource that is known by its map.           *)
LEMMA ReadsMap ==
  ASSUME Typed, NEW a \in Addr, VirtToPhy(a) # Nowhere
  PROVE  /\ VirtToPhy(a) \in Phys
         /\ \E e \in Addr : files[e] = OutputMap(VirtToPhy(a))
<1>1. PICK e \in Addr : e = Chase(files, a)
  BY VirtToPhyIs
<1>2. Good(files[e]) /\ files[e].kind # "link" /\ VirtToPhy(a) = files[e].addr
  BY <1>1, TypedIs DEF VirtToPhy, Loops
<1>3. \E p \in Phys : files[e] = OutputMap(p)
  BY <1>2, KindsOfFile DEF Good
<1> QED
  BY <1>2, <1>3, Distinct

LEMMA Known ==
  ASSUME Tidy, NEW a \in Addr, VirtToPhy(a) # Nowhere
  PROVE  VirtToPhy(a) \in used /\ VirtToPhy(a) \notin foreign /\ ~Unrecorded(VirtToPhy(a))
<1>1. PICK e \in Addr : files[e] = OutputMap(VirtToPhy(a))
  BY ReadsMap DEF Tidy
<1> QED
  BY <1>1, Distinct DEF Tidy, Records, Maps, NewOnes, NoMapOf, Unrecorded

(* What is read from the address of a resource.                            *)
LEMMA SettledReads ==
  ASSUME Typed, NEW p \in Phys, Settled(p)
  PROVE  /\ files[Chase(files, p)] = OutputMap(p)
         /\ VirtToPhy(p) = p /\ ~Loops(p)
         /\ files[p].kind = "link" => PhyToVirt(p) = files[p].addr /\ files[p].addr # p
         /\ files[p].kind # "link" => PhyToVirt(p) = p
<1>1. Linked(files) /\ p \in Addr
  BY TypedIs, Bases
<1>2. CASE files[p] = OutputMap(p)
  <2>1. Follow(files, p) = p
    BY <1>2, Distinct DEF Follow
  <2>2. Chase(files, p) = p
    BY <1>1, <2>1, ChaseOnce
  <2> QED
    BY <1>2, <2>2, Distinct DEF VirtToPhy, PhyToVirt, Loops
<1>3. ASSUME NEW t \in Addr, files[p] = PointerToVirtual(t), files[t] = OutputMap(p)
      PROVE  /\ Chase(files, p) = t /\ files[p].kind = "link" /\ files[p].addr = t /\ t # p
  <2>1. Follow(files, p) = t /\ Follow(files, t) = t
    BY <1>3, Distinct DEF Follow
  <2>2. Chase(files, p) = t
    BY <1>1, <2>1, ChaseOnce
  <2> QED
    BY <1>3, <2>2, Distinct
<1>4. CASE \E t \in Addr : files[p] = PointerToVirtual(t) /\ files[t] = OutputMap(p)
  <2>1. PICK t \in Addr : files[p] = PointerToVirtual(t) /\ files[t] = OutputMap(p)
    BY <1>4
  <2>2. Chase(files, p) = t /\ files[p].kind = "link" /\ files[p].addr = t /\ t # p
    BY <1>3, <2>1
  <2> QED
    BY <2>1, <2>2, Distinct DEF VirtToPhy, PhyToVirt, Loops
<1> QED
  BY <1>2, <1>4 DEF Settled

(* A resource with no file is read as none.                                *)
LEMMA NothingReads ==
  ASSUME Typed, NEW a \in Addr, files[a].kind # "link"
  PROVE  /\ Chase(files, a) = a /\ ~Loops(a)
         /\ VirtToPhy(a) = files[a].addr
         /\ PhyToVirt(a) = IF files[a].kind = "map" THEN a ELSE Nowhere
<1>1. Follow(files, a) = a /\ Linked(files)
  BY TypedIs DEF Follow
<1>2. Chase(files, a) = a
  BY <1>1, ChaseOnce
<1> QED
  BY <1>2 DEF Loops, VirtToPhy, PhyToVirt

-----------------------------------------------------------------------------
(* A step of one worker about p.                                           *)

(* It leaves alone what the files say of the others, or puts them in doubt. *)
Spares(p) ==
  /\ \A r \in Phys \ {p} : r \notin Lost \cup doubtful' =>
       /\ r \notin doubtful
       /\ files'[r] = files[r]
       /\ \A t \in Addr : files'[t] = OutputMap(r) <=> files[t] = OutputMap(r)
  /\ \A t \in Addr : files'[t].kind = "map" =>
       files'[t] = files[t] \/ (files'[t] = OutputMap(p) /\ p \in Phys)

LEMMA SparesAll ==
  ASSUME files' = files, NEW p, doubtful \ {p} \subseteq doubtful'
  PROVE  Spares(p)
BY DEF Spares

LEMMA SparesRest ==
  ASSUME Typed, NEW x \in Addr, NEW f, NEW p \in Phys, files' = [files EXCEPT ![x] = f],
         f.kind = "map" => f = OutputMap(p),
         doubtful \ {p} \subseteq doubtful', Others(x, p) \subseteq doubtful'
  PROVE  Spares(p)
<1>1. files'[x] = f /\ \A t \in Addr \ {x} : files'[t] = files[t]
  BY TypedIs
<1>2. ASSUME NEW r \in Phys \ {p}, r \notin Lost \cup doubtful'
      PROVE  /\ r \notin doubtful /\ files'[r] = files[r]
             /\ \A t \in Addr : files'[t] = OutputMap(r) <=> files[t] = OutputMap(r)
  <2>1. r # x /\ files[x] # OutputMap(r) /\ r \notin doubtful
    BY <1>2 DEF Others
  <2>2. f # OutputMap(r)
    BY <1>2, Distinct
  <2> QED
    BY <1>1, <1>2, <2>1, <2>2, Bases
<1>3. ASSUME NEW t \in Addr, files'[t].kind = "map"
      PROVE  files'[t] = files[t] \/ (files'[t] = OutputMap(p) /\ p \in Phys)
  BY <1>1, <1>3
<1> QED
  BY <1>2, <1>3 DEF Spares

(* The records of the others stay as they are.                             *)
LEMMA Spared ==
  ASSUME NEW p, Spares(p), NEW r \in Phys \ {p}, r \notin Lost \cup doubtful'
  PROVE  /\ r \notin doubtful
         /\ Settled(r)' <=> Settled(r)
         /\ Unrecorded(r)' <=> Unrecorded(r)
BY DEF Spares, Settled, Unrecorded

(* Two workers are not at work on the same resource, nor is the main       *)
(* worker together with an import.                                         *)
LEMMA OneActor ==
  ASSUME Tidy, NEW w \in Workers, NEW u \in Workers \ {w}, job[u].pc # "idle",
         job[w].pc # "idle" \/ Quiet
  PROVE  w \in Phys /\ u \in Phys /\ job[w].phy = w /\ job[u].phy = u
<1>1. job[w].pc # "idle"
  BY IdleIs DEF Quiet
<1>2. w \in Phys /\ u \in Phys
  BY <1>1 DEF Tidy, Records, Anchored, Alone, Workers
<1> QED
  BY <1>1, <1>2 DEF Tidy, Records, AtTask

(* What a step of one worker has to show: that the others are left alone,  *)
(* that the resource it is about is whole or in doubt, and what the worker *)
(* knows next.                                                             *)
LEMMA OneStep ==
  ASSUME Tidy, NEW w \in Workers, job[w].pc # "idle" \/ Quiet,
         NEW p \in Phys \cup {Nowhere},
         job[w].phy = p \/ job[w].pc \in {"exec", "idle"},
         \A u \in Workers \ {w} : job'[u] = job[u],
         Spares(p),
         \A r \in Phys \ {p} :
           /\ r \in live' <=> r \in live
           /\ r \in used' <=> r \in used
           /\ r \in foreign' <=> r \in foreign,
         foreign' \subseteq foreign \cup {p},
         p \in used' \cup {Nowhere}, p \in foreign' => job'[Main].phy # p /\ NoMapOf(p)',
         job'[Main].phy \in {p, Nowhere, job[Main].phy},
         p \in Phys \ (Lost' \cup doubtful') => WholeOf(p)',
         AtLink(w)', w = Main => AtMain', w \in Phys => AtTask(w)'
  PROVE  Records'
<1>1. ASSUME NEW r \in Phys \ {p}
      PROVE  /\ r \in live' <=> r \in live
             /\ r \in Lost' <=> r \in Lost
             /\ r \in foreign' <=> r \in foreign
  BY <1>1 DEF Lost
<1>2. ASSUME NEW u \in Workers \ {w}, job[u].pc # "idle"
      PROVE  w \in Phys /\ u \in Phys /\ job[u].phy = u /\ u # p /\ p = w
  <2>1. w \in Phys /\ u \in Phys /\ job[w].phy = w /\ job[u].phy = u
    BY <1>2, OneActor
  <2>2. job[w].pc # "idle"
    BY <1>2, IdleIs DEF Quiet
  <2>3. job[w].pc # "exec"
    BY <2>1, <2>2 DEF Tidy, Records, AtTask
  <2> QED
    BY <2>1, <2>2, <2>3
<1>3. Whole'
  <2> SUFFICES ASSUME NEW r \in Phys \ (Lost' \cup doubtful') PROVE WholeOf(r)'
    BY DEF Whole
  <2>1. CASE r = p
    BY <2>1
  <2>2. CASE r # p
    <3>1. r \notin Lost /\ r \notin doubtful /\ WholeOf(r)
      BY <1>1, <2>2, Spared DEF Tidy, Records, Whole
    <3>2. (Settled(r)' <=> Settled(r)) /\ (Unrecorded(r)' <=> Unrecorded(r))
      BY <2>2, <3>1, Spared
    <3>3. Creating(r) => Creating(r)'
      <4>1. Creating(r) => Main \in Workers \ {w}
        BY <2>2, Bases DEF Creating
      <4> QED
        BY <4>1 DEF Creating
    <3>4. \A u \in Workers : Mid(u, r) => Mid(u, r)'
      BY <2>2 DEF Mid
    <3> QED
      BY <1>1, <2>2, <3>1, <3>2, <3>3, <3>4 DEF WholeOf
  <2> QED
    BY <2>1, <2>2
<1>4. used \subseteq used' \cup {p}
  BY TypedIs DEF Tidy, Records
<1>5. Maps'
  <2> SUFFICES ASSUME NEW t \in Addr, files'[t].kind = "map" PROVE files'[t].addr \in used'
    BY DEF Maps
  <2>1. CASE files'[t] = files[t]
    <3>1. files[t].addr \in used /\ files[t].addr \in Phys
      BY <2>1, TypedIs DEF Tidy, Records, Maps
    <3> QED
      BY <2>1, <3>1, <1>4, AddressesAssumption DEF Addr
  <2>2. CASE files'[t] = OutputMap(p) /\ p \in Phys
    BY <2>2, Distinct, AddressesAssumption
  <2> QED
    BY <2>1, <2>2 DEF Spares
<1>6. NewOnes'
  <2> SUFFICES ASSUME NEW q \in foreign' PROVE job'[Main].phy # q /\ NoMapOf(q)'
    BY DEF NewOnes
  <2>1. CASE q = p
    BY <2>1
  <2>2. CASE q # p
    <3>1. q \in Phys /\ q # Nowhere /\ q \in foreign
      BY <2>2, TypedIs, Bases, AddressesAssumption DEF Tidy, Records, Addr
    <3>2. job'[Main].phy # q
      BY <2>2, <3>1 DEF Tidy, Records, NewOnes
    <3>3. ASSUME NEW t \in Addr, files'[t] = OutputMap(q) PROVE FALSE
      <4>1. files'[t] # OutputMap(p) /\ files'[t].kind = "map"
        BY <2>2, <3>1, <3>3, Distinct
      <4>2. files[t] = OutputMap(q)
        BY <3>3, <4>1 DEF Spares
      <4> QED
        BY <3>1, <4>2 DEF Tidy, Records, NewOnes, NoMapOf
    <3> QED
      BY <3>2, <3>3 DEF NoMapOf
  <2> QED
    BY <2>1, <2>2
<1>7. AtMain'
  <2>1. CASE w = Main
    BY <2>1
  <2>2. CASE w # Main
    <3>1. job'[Main] = job[Main] /\ Main \in Workers
      BY <2>2, Bases
    <3>2. job[Main].pc = "idle"
      BY <1>2, <2>2, <3>1, AddressesAssumption
    <3>3. job[Main].phy \in used' \cup {Nowhere}
      BY <1>4 DEF Tidy, Records, AtMain
    <3> QED
      BY <3>1, <3>2, <3>3 DEF AtMain
  <2> QED
    BY <2>1, <2>2
<1>8. ASSUME NEW u \in Workers PROVE AtLink(u)'
  <2>1. CASE u = w
    BY <2>1
  <2>2. CASE u # w /\ job[u].pc # "link"
    BY <2>2 DEF AtLink
  <2>3. CASE u # w /\ job[u].pc = "link"
    <3>1. u \in Phys /\ job[u].phy = u /\ u # p /\ job'[u] = job[u]
      BY <1>2, <2>3
    <3>2. AtLink(u) /\ job[u].to \in Addr
      BY <2>3, TypedIs DEF Tidy, Records, AimsAt, Writing
    <3>3. u \in live \ foreign /\ u \in live' \ foreign'
      BY <1>1, <2>3, <3>1, <3>2 DEF AtLink
    <3>4. u \notin Lost
      BY <3>3 DEF Lost
    <3>5. u \notin doubtful' =>
            u \notin doubtful /\ (files'[job[u].to] = OutputMap(u) <=> files[job[u].to] = OutputMap(u))
      BY <3>1, <3>2, <3>4 DEF Spares
    <3> QED
      BY <2>3, <3>1, <3>2, <3>3, <3>5 DEF AtLink
  <2> QED
    BY <2>1, <2>2, <2>3
<1>9. ASSUME NEW q \in Phys PROVE AtTask(q)'
  <2>1. q \in Workers
    BY Bases
  <2>2. CASE q = w
    BY <2>2
  <2>3. CASE q # w /\ job[q].pc = "idle"
    BY <2>1, <2>3 DEF AtTask
  <2>4. CASE q # w /\ job[q].pc # "idle"
    <3>1. q # p /\ job'[q] = job[q] /\ AtTask(q)
      BY <1>2, <2>1, <2>4 DEF Tidy, Records
    <3>2. q \in live /\ q \in live' /\ q \notin Lost
      BY <1>1, <2>4, <3>1 DEF AtTask, Lost
    <3>3. q \notin doubtful' => q \notin doubtful /\ files'[q] = files[q]
      BY <3>1, <3>2 DEF Spares
    <3> QED
      BY <2>4, <3>1, <3>2, <3>3 DEF AtTask
  <2> QED
    BY <2>2, <2>3, <2>4
<1> QED
  BY <1>3, <1>5, <1>6, <1>7, <1>8, <1>9 DEF Records

(* A worker that has nothing half done about p: its files agree, or there  *)
(* are none.                                                               *)
LEMMA Plain ==
  ASSUME Tidy, NEW w \in Workers, job[w].pc # "idle" \/ Quiet,
         job[w].pc \notin {"outputs", "remap", "applyLink", "link"},
         NEW p \in Phys \ (Lost \cup doubtful), job[w].phy = p \/ w = Main
  PROVE  \/ p \notin live \ foreign /\ Unrecorded(p)
         \/ p \in live \ foreign /\ Settled(p)
<1>1. WholeOf(p)
  BY DEF Tidy, Records, Whole
<1>2. ~Creating(p)
  <2>1. CASE w = Main
    BY <2>1 DEF Creating
  <2>2. CASE w # Main
    BY <2>2, OneActor, Bases, AddressesAssumption DEF Creating
  <2> QED
    BY <2>1, <2>2
<1>3. ASSUME NEW u \in Workers PROVE ~Mid(u, p)
  <2>1. CASE u = w
    BY <2>1 DEF Mid
  <2>2. CASE u # w /\ Mid(u, p)
    BY <2>2, OneActor, AddressesAssumption DEF Mid
  <2> QED
    BY <2>1, <2>2
<1> QED
  BY <1>1, <1>2, <1>3 DEF WholeOf

(* and it stays so when the files do.                                      *)
LEMMA PlainStays ==
  ASSUME NEW p \in Phys, files' = files, live' = live, foreign' = foreign,
         \/ p \notin live \ foreign /\ Unrecorded(p)
         \/ p \in live \ foreign /\ Settled(p)
  PROVE  WholeOf(p)'
<1>1. (Unrecorded(p) => Unrecorded(p)') /\ (Settled(p) => Settled(p)')
  BY DEF Unrecorded, Settled
<1> QED
  BY <1>1 DEF WholeOf

LEMMA IdleAt ==
  ASSUME NEW w \in Workers, job'[w] = Idle
  PROVE  AtLink(w)' /\ (w = Main => AtMain') /\ (w \in Phys => AtTask(w)')
BY IdleIs DEF AtLink, AtMain, AtTask

(* What the main worker is about is no new resource.                       *)
LEMMA MainKnows ==
  ASSUME Tidy, job[Main].phy \in Phys
  PROVE  /\ job[Main].phy \in used /\ job[Main].phy \notin foreign
         /\ job[Main].phy \notin Lost => job[Main].phy \in live \ foreign
BY AddressesAssumption DEF Tidy, Records, AtMain, NewOnes, Lost, Addr

LEMMA NextOpAt ==
  ASSUME Tidy, NextOp, job[Main].pc \in {"exec", "outputs", "applyLink", "unlink"}, used' = used
  PROVE  /\ \A u \in Workers \ {Main} : job'[u] = job[u]
         /\ job'[Main].phy \in {Nowhere, job[Main].phy}
         /\ AtLink(Main)' /\ AtMain'
<1>1. \A u \in Workers \ {Main} : job'[u] = job[u]
  BY NextOpIs DEF Tidy
<1>2. CASE job'[Main] = Idle
  BY <1>1, <1>2, IdleIs, IdleAt, Bases
<1>3. CASE job'[Main] = [job[Main] EXCEPT !.pc = "exec", !.ops = Tail(job[Main].ops)]
  <2>1. job[Main] \in Jobs
    BY TypedIs, Bases DEF Tidy
  <2>2. job'[Main].pc = "exec" /\ job'[Main].phy = job[Main].phy
    BY <1>3, <2>1 DEF Jobs
  <2>3. job[Main].phy \in used \cup {Nowhere}
    BY DEF Tidy, Records, AtMain
  <2> QED
    BY <1>1, <2>2, <2>3 DEF AtLink, AtMain
<1> QED
  BY <1>2, <1>3, NextOpIs DEF Tidy

-----------------------------------------------------------------------------
(* Every step keeps the records.                                           *)

LEMMA TidyInit == Init => Tidy
<1> SUFFICES ASSUME Init PROVE Tidy
  OBVIOUS
<1>1. Typed /\ Anchored
  BY TypedInit, AnchoredInit
<1>2. ASSUME NEW w \in Workers PROVE job[w] = Idle
  BY <1>2 DEF Init
<1>3. ASSUME NEW a \in Addr PROVE files[a] = NoFile
  BY <1>3 DEF Init
<1>4. Whole /\ Maps /\ NewOnes
  BY <1>3, Distinct, Bases DEF Init, Whole, WholeOf, Unrecorded, Maps, NewOnes
<1>5. AtMain /\ (\A w \in Workers : AtLink(w)) /\ (\A p \in Phys : AtTask(p))
  BY <1>2, IdleIs, Bases DEF AtMain, AtLink, AtTask
<1> QED
  BY <1>1, <1>4, <1>5 DEF Tidy, Records

(* Where no file is written and no worker moves.                           *)
LEMMA TidyOutside ==
  ASSUME Tidy, NEW a \in Addr, Draft(a) \/ Remove(a)
  PROVE  Records'
<1>1. UNCHANGED <<files, live, used, foreign, job, doubtful>>
  BY DEF Draft, Remove
<1>2. ASSUME NEW p PROVE /\ Unrecorded(p)' <=> Unrecorded(p)
                         /\ Settled(p)' <=> Settled(p)
                         /\ WholeOf(p)' <=> WholeOf(p)
  BY <1>1 DEF Unrecorded, Settled, WholeOf, Creating, Mid
<1>3. Whole' /\ Maps' /\ NewOnes' /\ AtMain'
  BY <1>1, <1>2 DEF Tidy, Records, Whole, Maps, NewOnes, NoMapOf, AtMain, Lost
<1>4. (\A w \in Workers : AtLink(w)') /\ (\A p \in Phys : AtTask(p)')
  BY <1>1 DEF Tidy, Records, AtLink, AtTask
<1> QED
  BY <1>3, <1>4 DEF Records

(* A new resource is in no file but where it is in doubt.                  *)
LEMMA TidyAppear ==
  ASSUME Tidy, NEW q \in Phys, Appear(q)
  PROVE  Records'
<1>1. /\ q \notin used /\ live' = live \cup {q} /\ used' = used \cup {q} /\ foreign' = foreign \cup {q}
      /\ UNCHANGED <<files, job, doubtful>>
  BY DEF Appear
<1>2. live \subseteq used /\ foreign \subseteq used
  BY TypedIs DEF Tidy
<1>3. Lost' = Lost /\ q \notin Lost
  BY <1>1, <1>2 DEF Lost
<1>4. NoMapOf(q)
  <2> SUFFICES ASSUME NEW a \in Addr, files[a] = OutputMap(q) PROVE FALSE
    BY DEF NoMapOf
  <2>1. files[a].addr \in used /\ files[a].addr = q
    BY Distinct DEF Tidy, Records, Maps
  <2> QED
    BY <1>1, <2>1
<1>5. job[Main].phy # q
  BY <1>1, AddressesAssumption DEF Tidy, Records, AtMain
<1>6. ASSUME NEW p \in Phys PROVE /\ Unrecorded(p)' <=> Unrecorded(p)
                                  /\ Settled(p)' <=> Settled(p)
                                  /\ Creating(p)' <=> Creating(p)
                                  /\ \A w \in Workers : Mid(w, p)' <=> Mid(w, p)
  BY <1>1 DEF Unrecorded, Settled, Creating, Mid
<1>7. Whole'
  <2> SUFFICES ASSUME NEW p \in Phys \ (Lost' \cup doubtful') PROVE WholeOf(p)'
    BY DEF Whole
  <2>1. WholeOf(p)
    BY <1>1, <1>3 DEF Tidy, Records, Whole
  <2>2. CASE p = q
    BY <1>1, <1>2, <1>6, <2>1, <2>2 DEF WholeOf
  <2>3. CASE p # q
    BY <1>1, <1>6, <2>1, <2>3 DEF WholeOf
  <2> QED
    BY <2>2, <2>3
<1>8. Maps' /\ NewOnes'
  BY <1>1, <1>4, <1>5 DEF Tidy, Records, Maps, NewOnes, NoMapOf
<1>9. AtMain'
  BY <1>1, <1>3, <1>6, TypedIs, Bases DEF Tidy, Records, AtMain, AimsAt, Unrecorded, Settled
<1>10. (\A w \in Workers : AtLink(w)') /\ (\A p \in Phys : AtTask(p)')
  <2>1. \A w \in Workers : job[w].pc = "link" => job[w].phy \in live
    BY DEF Tidy, Records, AtLink
  <2> QED
    BY <1>1, <1>2, <2>1 DEF Tidy, Records, AtLink, AtTask
<1> QED
  BY <1>7, <1>8, <1>9, <1>10 DEF Records

(* A workflow of the main worker begins.                                   *)
LEMMA StartStep ==
  ASSUME Tidy, Quiet, UNCHANGED <<files, live, used, foreign, doubtful>>,
         NEW j, j.pc \in {"exec", "relink", "def", "map", "pullDef"}, AimsAt(j), Start(Main, j),
         j.phy \in (used \ foreign) \cup {Nowhere},
         j.pc \in {"def", "map"} => j.phy \in live,
         j.pc = "pullDef" => j.phy \in Lost
  PROVE  Records'
<1>1. Main \in Workers /\ job[Main] = Idle /\ Typed
  BY Bases DEF Quiet, Tidy
<1>2. job'[Main] = j /\ \A u \in Workers \ {Main} : job'[u] = job[u]
  BY <1>1, StartIs
<1>3. j.phy \in Phys \cup {Nowhere} /\ Main \notin Phys
  BY <1>1, TypedIs, AddressesAssumption
<1>4. AtMain' /\ AtLink(Main)'
  BY <1>2 DEF AtMain, AtLink, Lost
<1>5. j.phy \in Phys \ (Lost' \cup doubtful') => WholeOf(j.phy)'
  <2>1. j.phy \in Phys \ (Lost' \cup doubtful') => j.phy \in Phys \ (Lost \cup doubtful)
    BY DEF Lost
  <2> QED
    BY <1>1, <2>1, IdleIs, Plain, PlainStays
<1>6. Spares(j.phy)
  BY SparesAll
<1>7. PICK p \in Phys \cup {Nowhere} : p = j.phy
  BY <1>3
<1>8. /\ p \in used' \cup {Nowhere} /\ p \notin foreign' /\ job'[Main].phy = p
      /\ job[Main].pc = "idle" /\ Spares(p)
      /\ p \in Phys \ (Lost' \cup doubtful') => WholeOf(p)'
  BY <1>1, <1>2, <1>3, <1>5, <1>6, <1>7, TypedIs, AddressesAssumption, IdleIs DEF Addr
<1> QED
  BY <1>1, <1>2, <1>3, <1>4, <1>8, OneStep

LEMMA TidyStart ==
  ASSUME Tidy, NEW a \in Addr, NEW b \in Addr,
         Apply(a) \/ Rename(a, b) \/ PullState(a) \/ PullDelete(a)
  PROVE  Records'
<1>1. Quiet /\ UNCHANGED <<files, live, used, foreign, doubtful>> /\ Typed
  BY DEF Apply, Rename, PullState, PullDelete, Tidy
<1>2. CASE Apply(a)
  <2>1. PICK ops \in ConnectorOps(a) : Start(Main, ExecOf(a, ops))
    BY <1>2 DEF Apply, ExecOf
  <2>2. ExecOf(a, ops).phy = Nowhere
    BY DEF ExecOf, Idle
  <2>3. AimsAt(ExecOf(a, ops)) /\ ExecOf(a, ops).pc = "exec"
    BY OpLists, ExecJob
  <2> QED
    BY <1>1, <2>1, <2>2, <2>3, StartStep
<1>3. CASE ~Apply(a)
  <2>1. PICK p : p = VirtToPhy(a)
    OBVIOUS
  <2>2. p # Nowhere
    BY <1>1, <1>3, <2>1, TypedIs, AddressesAssumption DEF Rename, PullState, PullDelete, Addr
  <2>3. p \in Phys /\ p \in used /\ p \notin foreign
    BY <1>1, <2>1, <2>2, ReadsMap, Known
  <2>4. CASE Rename(a, b)
    <3>1. Start(Main, RenameOf(a, b, p))
      BY <2>1, <2>4 DEF Rename, RenameOf
    <3> QED
      BY <1>1, <2>3, <3>1, RenameJob, StartStep
  <2>5. CASE PullState(a)
    <3>1. p \in live
      BY <2>1, <2>5 DEF PullState
    <3>2. PICK pc \in {"def", "map"} : Start(Main, PullOf(pc, a, p))
      BY <2>1, <2>5 DEF PullState, PullOf
    <3> QED
      BY <1>1, <2>3, <3>1, <3>2, PullJob, StartStep
  <2>6. CASE PullDelete(a)
    <3>1. p \in Lost
      BY <2>1, <2>3, <2>6 DEF PullDelete, Lost
    <3>2. Start(Main, PullOf("pullDef", a, p))
      BY <2>1, <2>6 DEF PullDelete, PullOf
    <3> QED
      BY <1>1, <2>3, <3>1, <3>2, PullJob, StartStep
  <2> QED
    BY <1>3, <2>4, <2>5, <2>6
<1> QED
  BY <1>2, <1>3

LEMMA TidyOpExec ==
  ASSUME Tidy, OpExec
  PROVE  Records'
<1> DEFINE at == VirtToPhy(job[Main].addr)
           op == Head(job[Main].ops)
<1>1. /\ Typed /\ Main \in Workers /\ Main \notin Phys /\ job[Main].pc = "exec" /\ job[Main].addr \in Addr
      /\ job[Main] \in Jobs /\ job \in [Workers -> Jobs] /\ files' = files /\ foreign' = foreign
      /\ live \subseteq used /\ used \subseteq Phys /\ foreign \subseteq used
  BY TypedIs, Bases, AddressesAssumption DEF Tidy, OpExec, AimsAt
<1> DEFINE Writes(p) == /\ job'[Main].pc = "outputs" /\ job'[Main].phy = p /\ Head(job'[Main].ops) = op
                        /\ \A u \in Workers \ {Main} : job'[u] = job[u]
<1>2. ASSUME NEW p \in Phys, job' = [job EXCEPT ![Main].pc = "outputs", ![Main].phy = p]
      PROVE  Writes(p)
  <2>1. job'[Main] = [job[Main] EXCEPT !.pc = "outputs", !.phy = p]
    BY <1>1, <1>2
  <2>2. job'[Main].pc = "outputs" /\ job'[Main].phy = p /\ job'[Main].ops = job[Main].ops
    BY <1>1, <2>1 DEF Jobs
  <2> QED
    BY <1>1, <1>2, <2>2
<1>3. ASSUME op = "create", NEW p \in Phys \ used, live' = live \cup {p}, used' = used \cup {p},
             doubtful' = doubtful, Writes(p)
      PROVE  Records'
  <2>1. Spares(p) /\ p \notin Lost /\ p \notin live
    BY <1>1, <1>3, SparesAll DEF Lost
  <2>2. p \notin doubtful => Unrecorded(p)
    BY <1>1, <2>1 DEF Tidy, Records, Whole, WholeOf, Creating, Lost
  <2>3. Unrecorded(p) => Unrecorded(p)'
    BY <1>1 DEF Unrecorded
  <2>4. p \in Phys \ (Lost' \cup doubtful') => WholeOf(p)'
    BY <1>1, <1>3, <2>2, <2>3 DEF WholeOf, Creating
  <2>5. AtMain' /\ AtLink(Main)'
    BY <1>3, <2>2, <2>3 DEF AtMain, AtLink
  <2>6. job[Main].pc \in {"exec", "idle"} /\ job[Main].pc # "idle"
    BY <1>1
  <2>7. /\ \A r \in Phys \ {p} : /\ r \in live' <=> r \in live
                                 /\ r \in used' <=> r \in used
                                 /\ r \in foreign' <=> r \in foreign
        /\ foreign' \subseteq foreign \cup {p} /\ p \in used' /\ p \notin foreign'
    BY <1>1, <1>3
  <2>8. job'[Main].phy = p /\ \A u \in Workers \ {Main} : job'[u] = job[u]
    BY <1>3
  <2> QED
    BY <1>1, <2>1, <2>4, <2>5, <2>6, <2>7, <2>8, OneStep
<1>4. ASSUME NEW p \in live, p = at
      PROVE  p \in Phys /\ p \in used /\ p \notin foreign /\ ~Unrecorded(p)
  BY <1>1, <1>4, Known, AddressesAssumption DEF Addr
<1>5. ASSUME op = "update", NEW p \in live, p = at, UNCHANGED <<live, used, doubtful>>, Writes(p)
      PROVE  Records'
  <2>1. Spares(p) /\ p \notin Lost
    BY <1>1, <1>5, SparesAll DEF Lost
  <2>2. p \in Phys /\ p \in used /\ p \notin foreign /\ ~Unrecorded(p)
    BY <1>4, <1>5
  <2>3. p \notin doubtful => Settled(p)
    BY <1>1, <2>1, <2>2, Plain
  <2>4. Settled(p) => Settled(p)'
    BY <1>1 DEF Settled
  <2>5. p \in Phys \ (Lost' \cup doubtful') => WholeOf(p)'
    BY <1>1, <1>5, <2>2, <2>3, <2>4 DEF WholeOf
  <2>6. AtMain' /\ AtLink(Main)'
    BY <1>5, <2>2, <2>3, <2>4 DEF AtMain, AtLink
  <2>7. job'[Main].phy = p /\ \A u \in Workers \ {Main} : job'[u] = job[u]
    BY <1>5
  <2> QED
    BY <1>1, <1>5, <2>1, <2>2, <2>5, <2>6, <2>7, OneStep
<1>6. ASSUME NextOp, UNCHANGED <<live, used, doubtful>>
      PROVE  Records'
  <2>1. Spares(Nowhere) /\ Nowhere \notin Phys
    BY <1>1, <1>6, SparesAll, AddressesAssumption DEF Addr
  <2> QED
    BY <1>1, <1>6, <2>1, NextOpAt, OneStep
<1>7. ASSUME op = "delete", NEW p \in live, p = at, live' = live \ {p}, used' = used,
             doubtful' = doubtful \ {p}, Writes(p)
      PROVE  Records'
  <2>1. p \in Phys /\ p \in used /\ p \notin foreign
    BY <1>4, <1>7
  <2>2. Spares(p) /\ p \in Lost'
    BY <1>1, <1>7, <2>1, SparesAll DEF Lost
  <2>3. AtMain' /\ AtLink(Main)'
    BY <1>7, <2>1, <2>2 DEF AtMain, AtLink
  <2>4. /\ \A r \in Phys \ {p} : /\ r \in live' <=> r \in live
                                 /\ r \in used' <=> r \in used
                                 /\ r \in foreign' <=> r \in foreign
        /\ foreign' \subseteq foreign \cup {p} /\ p \in used' /\ p \notin foreign'
    BY <1>1, <1>7, <2>1
  <2>5. job'[Main].phy = p /\ \A u \in Workers \ {Main} : job'[u] = job[u]
    BY <1>7
  <2> QED
    BY <1>1, <2>1, <2>2, <2>3, <2>4, <2>5, OneStep
<1> HIDE DEF Writes
<1>8. ASSUME op = "create", NEW p \in Phys \ used, live' = live \cup {p}, used' = used \cup {p},
             doubtful' = doubtful, job' = [job EXCEPT ![Main].pc = "outputs", ![Main].phy = p]
      PROVE  Records'
  BY <1>2, <1>3, <1>8
<1>9. at \in live => at \in Phys
  BY <1>1
<1> QED
  BY <1>2, <1>5, <1>6, <1>7, <1>8, <1>9 DEF OpExec

(* A step of the main worker that writes one file about its resource.      *)
LEMMA MainStep ==
  ASSUME Tidy, NEW p \in Phys, job[Main].phy = p, job[Main].pc # "idle",
         Spares(p), UNCHANGED <<live, used, foreign>>,
         \A u \in Workers \ {Main} : job'[u] = job[u],
         job'[Main].phy \in {p, Nowhere},
         p \in live \ foreign /\ p \notin doubtful' => WholeOf(p)',
         AtMain', AtLink(Main)'
  PROVE  Records'
<1>1. p \in used /\ p \notin foreign /\ (p \notin Lost => p \in live \ foreign)
  BY MainKnows
<1>2. p \in Phys \ (Lost' \cup doubtful') => WholeOf(p)'
  BY <1>1 DEF Lost
<1>3. Main \in Workers /\ Main \notin Phys
  BY Bases, AddressesAssumption
<1> QED
  BY <1>1, <1>2, <1>3, OneStep

LEMMA TidyOutputs ==
  ASSUME Tidy, ApplyOutputMap
  PROVE  Records'
<1>1. PICK a, p, op, e : /\ a = job[Main].addr /\ p = job[Main].phy /\ op = Head(job[Main].ops)
                         /\ e = Chase(files, a)
  OBVIOUS
<1>2. /\ Typed /\ job[Main].pc = "outputs" /\ a \in Addr /\ p \in Phys /\ job[Main].ops # <<>>
      /\ Main \in Workers /\ job[Main] \in Jobs /\ UNCHANGED <<def, live, used, foreign>>
  BY <1>1, TypedIs, Bases DEF Tidy, ApplyOutputMap, AimsAt
<1>3. CASE op = "delete"
  <2>1. p \in Lost
    BY <1>1, <1>2, <1>3 DEF Tidy, Records, AtMain
  <2>2. files' = [files EXCEPT ![a] = NoFile] /\ doubtful' = doubtful \cup Others(a, p)
    BY <1>1, <1>2, <1>3 DEF ApplyOutputMap
  <2>3. Spares(p)
    BY <1>2, <2>2, SparesRest, Distinct
  <2>4. NextOp \/ Goto(Main, "unlink")
    BY <1>1, <1>3 DEF ApplyOutputMap
  <2>5. /\ \A u \in Workers \ {Main} : job'[u] = job[u]
        /\ job'[Main].phy \in {p, Nowhere} /\ AtMain' /\ AtLink(Main)'
    <3>1. CASE NextOp
      BY <1>1, <1>2, <3>1, NextOpAt
    <3>2. CASE Goto(Main, "unlink")
      <4>1. /\ job'[Main].pc = "unlink" /\ job'[Main].phy = p
            /\ \A u \in Workers \ {Main} : job'[u] = job[u]
        BY <1>1, <1>2, <3>2, GotoIs DEF Pcs, Writing
      <4>2. p \in used' /\ p \in Lost'
        BY <1>1, <1>2, <2>1, MainKnows DEF Lost
      <4> QED
        BY <4>1, <4>2 DEF AtMain, AtLink
    <3> QED
      BY <2>4, <3>1, <3>2
  <2>6. p \notin live
    BY <2>1 DEF Lost
  <2> QED
    BY <1>1, <1>2, <2>3, <2>5, <2>6, MainStep
<1>4. CASE op # "delete"
  <2>1. /\ files' = [files EXCEPT ![e] = OutputMap(p)] /\ Goto(Main, "applyLink")
        /\ doubtful' = Merged(a, p) \cup Others(e, p)
    BY <1>1, <1>2, <1>4 DEF ApplyOutputMap
  <2>2. e \in Addr
    BY <1>1, <1>2, VirtToPhyIs
  <2>3. Spares(p)
    <3>1. doubtful \ {p} \subseteq doubtful' /\ Others(e, p) \subseteq doubtful'
      BY <2>1 DEF Merged
    <3> QED
      BY <1>2, <2>1, <2>2, <3>1, SparesRest
  <2>4. /\ job'[Main].pc = "applyLink" /\ job'[Main].phy = p /\ job'[Main].addr = a
        /\ \A u \in Workers \ {Main} : job'[u] = job[u]
    BY <1>1, <1>2, <2>1, GotoIs DEF Pcs, Writing
  <2>5. p \in used
    BY <1>1, <1>2, MainKnows
  <2>6. p \in live \ foreign => WholeOf(p)'
    BY <1>2, <2>4 DEF WholeOf, Mid
  <2>7. p \notin doubtful' => a \in Virt \/ (a = p /\ Settled(p)')
    <3> SUFFICES ASSUME p \notin doubtful', a \notin Virt PROVE a = p /\ Settled(p)'
      OBVIOUS
    <3>1. a = p /\ p \notin doubtful
      <4>1. p \notin Lost
        BY <1>1, <1>2, <1>4 DEF Tidy, Records, AtMain, Lost
      <4> QED
        BY <2>1, <4>1 DEF Merged
    <3>2. op \in {"create", "update"}
      BY <1>1, <1>2, <1>4, FieldsOf, HeadTailProperties DEF Ops
    <3>3. CASE op = "create"
      <4>1. files[p] = NoFile
        BY <1>1, <1>2, <3>1, <3>3 DEF Tidy, Records, AtMain, Unrecorded
      <4>2. e = p
        BY <1>1, <1>2, <3>1, <4>1, NothingReads, Distinct
      <4> QED
        BY <1>2, <2>1, <2>2, <3>1, <4>2, TypedIs DEF Settled
    <3>4. CASE op = "update"
      <4>1. Settled(p)
        BY <1>1, <1>2, <3>1, <3>4 DEF Tidy, Records, AtMain
      <4>2. files[e] = OutputMap(p)
        BY <1>1, <1>2, <3>1, <4>1, SettledReads
      <4>3. files' = files
        BY <1>2, <2>1, <2>2, <4>2, TypedIs
      <4> QED
        BY <3>1, <4>1, <4>3 DEF Settled
    <3> QED
      BY <3>1, <3>2, <3>3, <3>4
  <2>8. AtMain' /\ AtLink(Main)'
    BY <1>2, <2>4, <2>5, <2>7 DEF AtMain, AtLink
  <2> QED
    BY <1>1, <1>2, <2>3, <2>4, <2>6, <2>8, MainStep
<1> QED
  BY <1>3, <1>4

LEMMA TidyLinks ==
  ASSUME Tidy, ApplyLink \/ Unlink
  PROVE  Records'
<1>1. PICK a, p : a = job[Main].addr /\ p = job[Main].phy
  OBVIOUS
<1>2. /\ Typed /\ job[Main].pc \in {"applyLink", "unlink"} /\ a \in Addr /\ p \in Phys
      /\ Main \in Workers /\ UNCHANGED <<def, live, used, foreign>> /\ NextOp /\ p \in Addr
  BY <1>1, TypedIs, Bases DEF Tidy, ApplyLink, Unlink, AimsAt
<1>3. /\ \A u \in Workers \ {Main} : job'[u] = job[u]
      /\ job'[Main].phy \in {p, Nowhere} /\ AtMain' /\ AtLink(Main)'
  BY <1>1, <1>2, NextOpAt
<1>4. CASE Unlink
  <2>1. p \in Lost
    BY <1>1, <1>4 DEF Tidy, Records, AtMain, Unlink
  <2>2. files' = [files EXCEPT ![p] = NoFile] /\ doubtful' = doubtful \cup Others(p, p)
    BY <1>1, <1>4 DEF Unlink
  <2>3. Spares(p) /\ p \notin live
    BY <1>2, <2>1, <2>2, SparesRest, Distinct DEF Lost
  <2> QED
    BY <1>1, <1>2, <1>3, <2>3, MainStep
<1>5. CASE ApplyLink
  <2>1. VirtToPhy(a) = p /\ job[Main].pc = "applyLink" /\ p # Nowhere
    BY <1>1, <1>2, <1>5, Bases DEF Tidy, Anchored, Reached, ApplyLink
  <2>2. p \notin doubtful => a \in Virt \/ (a = p /\ Settled(p))
    BY <1>1, <2>1 DEF Tidy, Records, AtMain
  <2>3. CASE a = p
    <3>1. files' = files /\ doubtful' = doubtful
      BY <1>1, <1>5, <2>1, <2>3 DEF ApplyLink
    <3>2. Spares(p)
      BY <3>1, SparesAll
    <3>3. p \notin doubtful => Settled(p)'
      BY <1>2, <2>2, <2>3, <3>1, AddressesAssumption DEF Settled
    <3>4. p \in live \ foreign /\ p \notin doubtful' => WholeOf(p)'
      BY <1>2, <3>1, <3>3 DEF WholeOf
    <3> QED
      BY <1>1, <1>2, <1>3, <3>2, <3>4, MainStep
  <2>4. CASE a # p
    <3>1. /\ files' = [files EXCEPT ![p] = PointerToVirtual(a)]
          /\ doubtful' = doubtful \cup Others(p, p)
      BY <1>1, <1>5, <2>1, <2>4 DEF ApplyLink
    <3>2. Spares(p)
      BY <1>2, <3>1, SparesRest, Distinct
    <3>3. p \notin doubtful => Settled(p)'
      <4> SUFFICES ASSUME p \notin doubtful PROVE Settled(p)'
        OBVIOUS
      <4>1. a \in Virt
        BY <2>2, <2>4
      <4>2. files[a].kind # "link"
        BY <1>2, <4>1, AddressesAssumption DEF Tidy, Anchored, LinksAtResources
      <4>3. files[a].addr = p
        BY <1>2, <2>1, <4>2, NothingReads
      <4>4. files[a] = OutputMap(p)
        BY <1>2, <4>2, <4>3, TypedIs, KindsOfFile, Distinct, Bases DEF Good
      <4>5. files'[p] = PointerToVirtual(a) /\ files'[a] = OutputMap(p)
        BY <1>2, <2>4, <3>1, <4>4, TypedIs
      <4> QED
        BY <1>2, <4>5 DEF Settled
    <3>4. p \in live \ foreign /\ p \notin doubtful' => WholeOf(p)'
      BY <1>2, <3>1, <3>3 DEF WholeOf
    <3> QED
      BY <1>1, <1>2, <1>3, <3>2, <3>4, MainStep
  <2> QED
    BY <2>3, <2>4
<1> QED
  BY <1>4, <1>5

LEMMA TidyRenaming ==
  ASSUME Tidy, Relink \/ Remap \/ Copy \/ RemoveOld
  PROVE  Records'
<1>1. PICK p, new : p = job[Main].phy /\ new = job[Main].to
  OBVIOUS
<1>2. /\ Typed /\ job[Main].pc \in {"relink", "remap", "copy", "remove"} /\ p \in Phys /\ new \in Addr
      /\ job[Main].addr \in Addr /\ Main \in Workers /\ p \in Addr
      /\ UNCHANGED <<live, used, foreign>>
  BY <1>1, TypedIs, Bases DEF Tidy, Relink, Remap, Copy, RemoveOld, AimsAt, Writing
<1>3. p \in used
  BY <1>1, <1>2, MainKnows
<1>4. ASSUME NEW pc \in {"remap", "copy", "remove"}, Goto(Main, pc)
      PROVE  /\ job'[Main].pc = pc /\ job'[Main].phy = p /\ job'[Main].to = new
             /\ \A u \in Workers \ {Main} : job'[u] = job[u]
  BY <1>1, <1>2, <1>4, GotoIs DEF Pcs, Writing
<1>5. CASE Relink
  <2>1. /\ files' = [files EXCEPT ![p] = PointerToVirtual(new)] /\ Goto(Main, "remap")
        /\ doubtful' = doubtful \cup Others(p, p)
    BY <1>1, <1>5 DEF Relink
  <2>2. Spares(p)
    BY <1>2, <2>1, SparesRest, Distinct
  <2>3. files'[p] = PointerToVirtual(new)
    BY <1>2, <2>1, TypedIs
  <2>4. AtMain' /\ AtLink(Main)'
    BY <1>2, <1>3, <1>4, <2>1, <2>3 DEF AtMain, AtLink
  <2>5. p \in live \ foreign => WholeOf(p)'
    BY <1>2, <1>4, <2>1 DEF WholeOf, Mid
  <2> QED
    BY <1>1, <1>2, <1>4, <2>1, <2>2, <2>4, <2>5, MainStep
<1>6. CASE Remap
  <2>1. /\ files' = [files EXCEPT ![new] = OutputMap(p)] /\ Goto(Main, "copy")
        /\ doubtful' = (doubtful \ {p}) \cup Others(new, p)
    BY <1>1, <1>6 DEF Remap
  <2>2. Spares(p)
    BY <1>2, <2>1, SparesRest
  <2>3. files[p] = PointerToVirtual(new)
    BY <1>1, <1>6 DEF Tidy, Records, AtMain, Remap
  <2>4. files'[new] = OutputMap(p) /\ (p # new => files'[p] = PointerToVirtual(new))
    BY <1>2, <2>1, <2>3, TypedIs
  <2>5. AtMain' /\ AtLink(Main)'
    BY <1>2, <1>3, <1>4, <2>1 DEF AtMain, AtLink
  <2>6. p \in live \ foreign => WholeOf(p)'
    BY <1>2, <2>4 DEF WholeOf, Settled
  <2> QED
    BY <1>1, <1>2, <1>4, <2>1, <2>2, <2>5, <2>6, MainStep
<1>7. CASE Copy \/ RemoveOld
  <2>1. files' = files /\ doubtful' = doubtful /\ (Goto(Main, "remove") \/ Finish(Main))
        /\ job[Main].pc \in {"copy", "remove"}
    BY <1>7 DEF Copy, RemoveOld
  <2>2. Spares(p)
    BY <2>1, SparesAll
  <2>3. p \in live \ foreign /\ p \notin doubtful' => WholeOf(p)'
    BY <1>1, <1>2, <2>1, Plain, PlainStays DEF Lost
  <2>4. CASE Goto(Main, "remove")
    <3>1. AtMain' /\ AtLink(Main)'
      BY <1>2, <1>3, <1>4, <2>4 DEF AtMain, AtLink
    <3> QED
      BY <1>1, <1>2, <1>4, <2>2, <2>3, <2>4, <3>1, MainStep
  <2>5. CASE Finish(Main)
    <3>1. job'[Main] = Idle /\ \A u \in Workers \ {Main} : job'[u] = job[u]
      BY <1>2, <2>5, FinishIs
    <3> QED
      BY <1>1, <1>2, <2>2, <2>3, <3>1, IdleAt, IdleIs, MainStep
  <2> QED
    BY <2>1, <2>4, <2>5
<1> QED
  BY <1>5, <1>6, <1>7

LEMMA TidyPulling ==
  ASSUME Tidy, PullDef \/ PullPhy \/ PullVirt
  PROVE  Records'
<1>1. PICK p, v : p = job[Main].phy /\ v = job[Main].to
  OBVIOUS
<1>2. /\ Typed /\ job[Main].pc \in {"pullDef", "pullPhy", "pullVirt"} /\ p \in Phys /\ v \in Addr
      /\ Main \in Workers /\ p \in Addr /\ UNCHANGED <<live, used, foreign>>
  BY <1>1, TypedIs, Bases DEF Tidy, PullDef, PullPhy, PullVirt, Delete, AimsAt, Writing
<1>3. p \in used /\ p \in Lost /\ p \in Lost' /\ p \notin live
  BY <1>1, <1>2, MainKnows DEF Tidy, Records, AtMain, Lost
<1>4. Spares(p)
  <2>1. CASE PullDef
    BY <2>1, SparesAll DEF PullDef
  <2>2. CASE PullPhy \/ PullVirt
    <3>1. PICK x \in Addr : Delete(x, p)
      BY <1>1, <1>2, <2>2 DEF PullPhy, PullVirt
    <3>2. /\ files' = [files EXCEPT ![x] = NoFile]
          /\ doubtful \ {p} \subseteq doubtful' /\ Others(x, p) \subseteq doubtful'
      BY <3>1 DEF Delete
    <3> QED
      BY <1>2, <3>2, SparesRest, Distinct
  <2> QED
    BY <2>1, <2>2
<1>5. /\ \A u \in Workers \ {Main} : job'[u] = job[u]
      /\ job'[Main].phy \in {p, Nowhere} /\ AtMain' /\ AtLink(Main)'
  <2>1. CASE Finish(Main)
    BY <1>2, <2>1, FinishIs, IdleAt, IdleIs
  <2>2. ASSUME NEW pc \in {"pullPhy", "pullVirt"}, Goto(Main, pc)
        PROVE  /\ \A u \in Workers \ {Main} : job'[u] = job[u]
               /\ job'[Main].phy \in {p, Nowhere} /\ AtMain' /\ AtLink(Main)'
    <3>1. /\ job'[Main].pc = pc /\ job'[Main].phy = p
          /\ \A u \in Workers \ {Main} : job'[u] = job[u]
      BY <1>1, <1>2, <2>2, GotoIs DEF Pcs, Writing
    <3> QED
      BY <1>2, <1>3, <2>2, <3>1 DEF AtMain, AtLink
  <2> QED
    BY <2>1, <2>2 DEF PullDef, PullPhy, PullVirt
<1> QED
  BY <1>1, <1>2, <1>3, <1>4, <1>5, MainStep

LEMMA TidyImport ==
  ASSUME Tidy, NEW overwrite \in BOOLEAN, Import(overwrite)
  PROVE  Records'
<1>1. /\ Typed /\ Quiet /\ UNCHANGED <<files, def, live, used, foreign, doubtful>>
      /\ job' = [w \in Workers |-> IF w \in live THEN ImportOf(w, overwrite) ELSE Idle]
  BY DEF Import, ImportOf, Tidy
<1>2. live \subseteq Phys /\ live \subseteq used /\ Main \in Workers /\ Main \notin live
  BY <1>1, TypedIs, Bases, AddressesAssumption
<1>3. \A w \in Workers : job'[w] = Idle \/ (w \in live /\ job'[w].pc = "check" /\ job'[w].phy = w)
  BY <1>1, <1>2, ImportJob
<1>4. job'[Main] = Idle
  BY <1>1, <1>2
<1>5. Whole'
  <2> SUFFICES ASSUME NEW p \in Phys \ (Lost' \cup doubtful') PROVE WholeOf(p)'
    BY DEF Whole
  <2>1. p \in Phys \ (Lost \cup doubtful) /\ job[Main] = Idle
    BY <1>1, <1>2 DEF Lost, Quiet
  <2> QED
    BY <1>1, <1>2, <2>1, Plain, PlainStays, IdleIs
<1>6. Maps' /\ NewOnes'
  <2>1. foreign \subseteq Phys
    BY <1>1, TypedIs
  <2> QED
    BY <1>1, <1>4, <2>1, IdleIs, AddressesAssumption
    DEF Tidy, Records, Maps, NewOnes, NoMapOf, Addr
<1>7. AtMain'
  BY <1>2, <1>4, IdleAt
<1>8. \A w \in Workers : AtLink(w)'
  BY <1>3, IdleIs DEF AtLink
<1>9. \A p \in Phys : AtTask(p)'
  BY <1>1, <1>3, IdleIs, Bases DEF AtTask
<1> QED
  BY <1>5, <1>6, <1>7, <1>8, <1>9 DEF Records

(* What import and pull-state know when they write.                        *)
LEMMA WriterKnows ==
  ASSUME Tidy, NEW w \in Workers, job[w].pc \in {"check", "get", "def", "map", "link"}
  PROVE  /\ job[w].phy \in live /\ job[w].phy \in Phys /\ job[w].phy \in used
         /\ job[w].phy \in Addr /\ job[w].phy \notin Lost
         /\ job[w].pc \in {"get", "def", "map", "link"} => job[w].to \in Addr
         /\ job[w].phy \in foreign => job[Main].phy # job[w].phy /\ NoMapOf(job[w].phy)
         /\ w \in Phys => job[w].phy = w
         /\ w = Main => job[w].phy \notin foreign
<1>1. job[w].phy \in live
  <2>1. CASE w = Main
    BY <2>1 DEF Tidy, Records, AtMain, AtLink
  <2>2. CASE w \in Phys
    BY <2>2 DEF Tidy, Records, AtTask
  <2> QED
    BY <2>1, <2>2 DEF Workers
<1>2. live \subseteq used /\ used \subseteq Phys /\ AimsAt(job[w])
  BY TypedIs DEF Tidy
<1> QED
  BY <1>1, <1>2, Bases DEF Tidy, Records, AtTask, NewOnes, Lost, AimsAt, Writing

(* A step of a worker that writes as import and pull-state do.             *)
LEMMA WriterStep ==
  ASSUME Tidy, NEW w \in Workers, job[w].pc \in {"check", "get", "def", "map", "link"},
         NEW p \in Phys, job[w].phy = p,
         Spares(p), UNCHANGED <<live, used>>, foreign' \in {foreign, foreign \ {p}},
         p \in foreign' => NoMapOf(p)',
         \A u \in Workers \ {w} : job'[u] = job[u],
         \/ job'[w] = Idle
         \/ /\ job'[w].phy = p /\ job'[w].pc \in {"get", "def", "map", "link"}
            /\ w = Main => job'[w].pc # "get",
         p \notin doubtful' => WholeOf(p)',
         AtLink(w)', w \in Phys => AtTask(w)'
  PROVE  Records'
<1>1. p \in live /\ p \in used /\ (p \in foreign => job[Main].phy # p) /\ (w = Main => p \notin foreign)
  BY WriterKnows
<1>2. p \in foreign' => job'[Main].phy # p
  BY <1>1, Bases
<1>3. w = Main => AtMain'
  <2>1. CASE job'[w] = Idle
    BY <2>1, IdleAt
  <2>2. CASE /\ job'[w].phy = p /\ job'[w].pc \in {"get", "def", "map", "link"}
             /\ w = Main => job'[w].pc # "get"
    BY <1>1, <2>2 DEF AtMain
  <2> QED
    BY <2>1, <2>2
<1>4. job'[Main].phy \in {p, Nowhere, job[Main].phy}
  BY Bases, IdleIs
<1>5. /\ \A r \in Phys \ {p} : /\ r \in live' <=> r \in live
                               /\ r \in used' <=> r \in used
                               /\ r \in foreign' <=> r \in foreign
      /\ foreign' \subseteq foreign \cup {p}
  OBVIOUS
<1> QED
  BY <1>1, <1>2, <1>3, <1>4, <1>5, OneStep

LEMMA TidyImporting ==
  ASSUME Tidy, NEW p \in Phys, Check(p) \/ Get(p)
  PROVE  Records'
<1>1. /\ Typed /\ p \in Workers /\ p # Main /\ p \in Addr /\ job[p].pc \in {"check", "get"}
      /\ job[p] \in Jobs /\ job \in [Workers -> Jobs]
      /\ UNCHANGED <<files, def, live, used, foreign, doubtful>>
  BY TypedIs, Bases, AddressesAssumption DEF Tidy, Check, Get
<1>2. job[p].phy = p /\ p \in live /\ p \notin Lost
  BY <1>1, WriterKnows
<1>3. Spares(p) /\ (p \in foreign' => NoMapOf(p)') /\ (p \notin doubtful' => WholeOf(p)')
  <2>1. p \in foreign => NoMapOf(p)
    BY DEF Tidy, Records, NewOnes
  <2>2. p \notin doubtful => WholeOf(p)'
    BY <1>1, <1>2, Plain, PlainStays
  <2> QED
    BY <1>1, <2>1, <2>2, SparesAll DEF NoMapOf
<1>4. p \notin doubtful => files[p].kind # "link" \/ (Settled(p) /\ files[p].addr # p)
  BY <1>1, <1>2, Plain, SettledReads, Distinct DEF Unrecorded
<1>5. CASE Check(p) /\ Finish(p)
  <2>1. job'[p] = Idle /\ \A u \in Workers \ {p} : job'[u] = job[u]
    BY <1>1, <1>5, FinishIs
  <2> QED
    BY <1>1, <1>2, <1>3, <2>1, IdleAt, IdleIs, WriterStep
<1>6. ASSUME NEW pc \in {"get", "def"}, NEW v, job' = [job EXCEPT ![p].pc = pc, ![p].to = v],
             p \notin doubtful /\ files[p].kind = "link" => files[p].addr = v
      PROVE  Records'
  <2>1. job'[p] = [job[p] EXCEPT !.pc = pc, !.to = v] /\ \A u \in Workers \ {p} : job'[u] = job[u]
    BY <1>1, <1>6
  <2>2. job'[p].pc = pc /\ job'[p].phy = p /\ job'[p].to = v
    BY <1>1, <1>2, <2>1 DEF Jobs
  <2>3. p \notin doubtful' /\ files'[p].kind = "link" => files'[p].addr = v
    BY <1>1, <1>6
  <2>4. AtLink(p)' /\ AtTask(p)'
    BY <1>1, <1>2, <2>2, <2>3 DEF AtLink, AtTask
  <2>5. \A u \in Workers \ {p} : job'[u] = job[u]
    BY <2>1
  <2>6. pc \in {"get", "def"}
    OBVIOUS
  <2> HIDE <1>6
  <2> QED
    BY <1>1, <1>2, <1>3, <2>2, <2>4, <2>5, <2>6, WriterStep
<1>7. CASE Check(p) /\ ~Finish(p)
  <2>1. PICK v : v = IF PhyToVirt(p) = Nowhere THEN p ELSE PhyToVirt(p)
    OBVIOUS
  <2>2. job' = [job EXCEPT ![p].pc = "get", ![p].to = v]
    BY <1>7, <2>1 DEF Check
  <2>3. p \notin doubtful /\ files[p].kind = "link" => files[p].addr = v
    <3>1. files[p].kind = "link" => files[p].addr # Nowhere
      BY <1>1, Bases DEF Tidy, Typed, TypeOK
    <3> QED
      BY <1>1, <1>4, <2>1, <3>1, SettledReads
  <2> QED
    BY <1>6, <2>2, <2>3
<1>8. CASE Get(p)
  <2>1. PICK hint \in Virt \cup {Nowhere} :
          job' = [job EXCEPT ![p].pc = "def", ![p].to = Target(p, job[p].to, hint)]
    BY <1>8 DEF Get
  <2>2. PICK v : v = Target(p, job[p].to, hint)
    OBVIOUS
  <2>3. p \notin doubtful /\ files[p].kind = "link" => files[p].addr = v
    <3>1. p \notin doubtful /\ files[p].kind = "link" => files[p].addr = job[p].to
      BY <1>1, <1>8 DEF Tidy, Records, AtTask, Get
    <3> QED
      BY <1>4, <2>2, <3>1 DEF Target
  <2>4. job' = [job EXCEPT ![p].pc = "def", ![p].to = v]
    BY <2>1, <2>2
  <2> QED
    BY <1>6, <2>3, <2>4
<1> QED
  BY <1>5, <1>7, <1>8

LEMMA TidyWrite ==
  ASSUME Tidy, NEW w \in Workers, WriteDef(w) \/ WriteMap(w) \/ WriteLink(w)
  PROVE  Records'
<1>1. PICK p, v : p = job[w].phy /\ v = job[w].to
  OBVIOUS
<1>2. /\ Typed /\ job[w].pc \in {"def", "map", "link"} /\ p \in Phys /\ v \in Addr /\ p \in Addr
      /\ p \in live /\ p \notin Lost /\ (p \in foreign => NoMapOf(p)) /\ (w \in Phys => w = p)
      /\ UNCHANGED <<live, used>>
  BY <1>1, WriterKnows DEF Tidy, WriteDef, WriteMap, WriteLink
<1>3. ASSUME NEW pc \in {"map", "link"}, Goto(w, pc)
      PROVE  /\ job'[w].pc = pc /\ job'[w].phy = p /\ job'[w].to = v
             /\ \A u \in Workers \ {w} : job'[u] = job[u]
  BY <1>1, <1>2, <1>3, GotoIs DEF Pcs, Writing
<1>4. CASE WriteDef(w)
  <2>1. UNCHANGED <<files, foreign, doubtful>> /\ Goto(w, "map") /\ job[w].pc = "def"
    BY <1>4 DEF WriteDef
  <2>2. Spares(p) /\ (p \in foreign' => NoMapOf(p)')
    BY <1>2, <2>1, SparesAll DEF NoMapOf
  <2>3. p \notin doubtful' => WholeOf(p)'
    BY <1>1, <1>2, <2>1, Plain, PlainStays
  <2>4. w \in Phys /\ p \notin doubtful /\ files[p].kind = "link" => files[p].addr = v
    BY <1>1, <1>2, <2>1 DEF Tidy, Records, AtTask
  <2>5. w \in Phys /\ p \notin doubtful' /\ files'[p].kind = "link" => files'[p].addr = v
    BY <2>1, <2>4
  <2>6. AtLink(w)' /\ (w \in Phys => AtTask(w)')
    BY <1>2, <1>3, <2>1, <2>5 DEF AtLink, AtTask
  <2> QED
    BY <1>1, <1>2, <1>3, <2>1, <2>2, <2>3, <2>6, WriterStep
<1>5. CASE WriteMap(w)
  <2>1. /\ files' = [files EXCEPT ![v] = OutputMap(p)] /\ foreign' = foreign \ {p}
        /\ doubtful' = (doubtful \ {p}) \cup Others(v, p)
    BY <1>1, <1>5 DEF WriteMap
  <2>2. Spares(p)
    BY <1>2, <2>1, SparesRest
  <2>3. files'[v] = OutputMap(p)
    BY <1>2, <2>1, TypedIs
  <2>4. CASE v # p
    <3>1. Goto(w, "link")
      BY <1>1, <1>5, <2>4 DEF WriteMap
    <3>2. WholeOf(p)'
      BY <1>2, <1>3, <2>1, <3>1 DEF WholeOf, Mid
    <3>3. AtLink(w)' /\ (w \in Phys => AtTask(w)')
      BY <1>2, <1>3, <2>1, <2>3, <2>4, <3>1 DEF AtLink, AtTask
    <3> QED
      BY <1>1, <1>2, <1>3, <2>1, <2>2, <3>1, <3>2, <3>3, WriterStep
  <2>5. CASE v = p
    <3>1. Finish(w)
      BY <1>1, <1>5, <2>5 DEF WriteMap
    <3>2. job'[w] = Idle /\ \A u \in Workers \ {w} : job'[u] = job[u]
      BY <1>2, <3>1, FinishIs
    <3>3. WholeOf(p)'
      BY <1>2, <2>1, <2>3, <2>5 DEF WholeOf, Settled
    <3> QED
      BY <1>1, <1>2, <2>1, <2>2, <3>2, <3>3, IdleAt, IdleIs, WriterStep
  <2> QED
    BY <2>4, <2>5
<1>6. CASE WriteLink(w)
  <2>1. /\ files' = [files EXCEPT ![p] = PointerToVirtual(v)] /\ foreign' = foreign
        /\ doubtful' = doubtful \cup Others(p, p) /\ Finish(w)
    BY <1>1, <1>6 DEF WriteLink
  <2>2. Spares(p)
    BY <1>2, <2>1, SparesRest, Distinct
  <2>3. v # p /\ p \notin foreign /\ (p \notin doubtful => files[v] = OutputMap(p))
    BY <1>1, <1>6 DEF Tidy, Records, AtLink, WriteLink
  <2>4. files'[p] = PointerToVirtual(v) /\ files'[v] = files[v]
    BY <1>2, <2>1, <2>3, TypedIs
  <2>5. p \notin doubtful' => WholeOf(p)'
    BY <1>2, <2>1, <2>3, <2>4 DEF WholeOf, Settled
  <2>6. job'[w] = Idle /\ \A u \in Workers \ {w} : job'[u] = job[u]
    BY <1>2, <2>1, FinishIs
  <2> QED
    BY <1>1, <1>2, <2>1, <2>2, <2>3, <2>5, <2>6, IdleAt, IdleIs, WriterStep
<1> QED
  BY <1>4, <1>5, <1>6

(* A workflow that stops leaves its resource in doubt, unless nothing of   *)
(* it was half done.                                                       *)
LEMMA TidyCut ==
  ASSUME Tidy, NEW w \in Workers, Cut(w)
  PROVE  Records'
<1>1. PICK p : p = job[w].phy
  OBVIOUS
<1>2. /\ Typed /\ UNCHANGED <<def, live, used, foreign>> /\ job[w].pc # "idle" /\ job'[w] = Idle
      /\ \A u \in Workers \ {w} : job'[u] = job[u]
  BY CutIs DEF Tidy
<1>3. /\ p \in Phys \cup {Nowhere} /\ p \in used \cup {Nowhere} /\ (p \in foreign => NoMapOf(p))
      /\ p \in foreign => job[Main].phy # p
  <2>1. CASE w = Main
    BY <1>1, <1>2, <2>1, TypedIs DEF Tidy, Records, AtMain, NewOnes
  <2>2. CASE w \in Phys
    <3>1. job[w].pc \in {"check", "get", "def", "map", "link"}
      BY <1>2, <2>2 DEF Tidy, Records, AtTask
    <3> QED
      BY <1>1, <3>1, WriterKnows
  <2> QED
    BY <2>1, <2>2 DEF Workers
<1>4. p \in foreign' => job'[Main].phy # p
  <2>1. CASE w = Main
    BY <1>2, <1>3, <2>1, IdleIs, TypedIs, Bases
  <2>2. CASE w # Main
    BY <1>2, <1>3, <2>2, Bases
  <2> QED
    BY <2>1, <2>2
<1>5. job'[Main].phy \in {p, Nowhere, job[Main].phy}
  BY <1>2, IdleIs, Bases
<1>6. CASE files' = files /\ doubtful' = doubtful \cup (Torn(job[w]) \ Lost)
  <2>1. Spares(p) /\ (p \in foreign' => NoMapOf(p)')
    BY <1>2, <1>3, <1>6, SparesAll DEF NoMapOf
  <2>2. p \in Phys \ (Lost' \cup doubtful') => WholeOf(p)'
    <3> SUFFICES ASSUME p \in Phys \ (Lost' \cup doubtful') PROVE WholeOf(p)'
      OBVIOUS
    <3>1. p \in Phys \ (Lost \cup doubtful) /\ p \notin Torn(job[w])
      BY <1>2, <1>6 DEF Lost
    <3>2. /\ job[w].pc \notin {"remap", "applyLink", "link"}
          /\ ~(job[w].pc = "outputs" /\ Head(job[w].ops) = "create")
      BY <1>1, <3>1 DEF Torn
    <3>3. CASE job[w].pc # "outputs"
      BY <1>1, <1>2, <1>6, <3>1, <3>2, <3>3, Plain, PlainStays
    <3>4. CASE job[w].pc = "outputs"
      <4>1. w = Main /\ AimsAt(job[w]) /\ job[w] \in Jobs
        BY <1>2, <3>4, TypedIs DEF Tidy, Records, AtTask, Workers
      <4>2. Head(job[w].ops) \in Ops
        BY <3>4, <4>1, FieldsOf, HeadTailProperties DEF AimsAt
      <4>3. Settled(p)
        BY <1>1, <3>1, <3>2, <3>4, <4>1, <4>2 DEF Ops, Tidy, Records, AtMain
      <4>4. p \in live \ foreign
        BY <1>1, <3>1, <4>1, MainKnows
      <4> QED
        BY <1>2, <1>6, <3>1, <4>3, <4>4, PlainStays
    <3> QED
      BY <3>3, <3>4
  <2> QED
    BY <1>1, <1>2, <1>3, <1>4, <1>5, <2>1, <2>2, IdleAt, OneStep
<1>7. ASSUME NEW x \in Addr, files' = [files EXCEPT ![x] = NoFile], p \in Phys,
             doubtful' = doubtful \cup ({p} \ Lost) \cup Others(x, p)
      PROVE  Records'
  <2>1. Spares(p)
    BY <1>2, <1>7, SparesRest, Distinct
  <2>2. p \in foreign' => NoMapOf(p)'
    <3>1. \A t \in Addr : files'[t] = NoFile \/ files'[t] = files[t]
      BY <1>2, <1>7, TypedIs
    <3> QED
      BY <1>2, <1>3, <3>1, Distinct DEF NoMapOf
  <2>3. p \notin Phys \ (Lost' \cup doubtful')
    BY <1>2, <1>7 DEF Lost
  <2>4. p \in used' \cup {Nowhere}
    BY <1>2, <1>3
  <2>5. job[w].phy = p
    BY <1>1
  <2>6. /\ \A r \in Phys \ {p} : /\ r \in live' <=> r \in live
                                 /\ r \in used' <=> r \in used
                                 /\ r \in foreign' <=> r \in foreign
        /\ foreign' \subseteq foreign \cup {p}
    BY <1>2
  <2> QED
    BY <1>2, <1>3, <1>4, <1>5, <2>1, <2>2, <2>3, <2>4, <2>5, <2>6, IdleAt, OneStep
<1> QED
  BY <1>1, <1>2, <1>6, <1>7, CutIs

LEMMA TidyNext == Tidy /\ [Next]_vars => Tidy'
<1> SUFFICES ASSUME Tidy, [Next]_vars PROVE Tidy'
  OBVIOUS
<1>1. Typed' /\ Anchored'
  BY TypedNext, AnchoredNext DEF Tidy
<1>2. CASE UNCHANGED vars
  <2>1. \A p : /\ Unrecorded(p)' <=> Unrecorded(p)
               /\ Settled(p)' <=> Settled(p)
               /\ WholeOf(p)' <=> WholeOf(p)
    BY <1>2 DEF vars, Unrecorded, Settled, WholeOf, Creating, Mid
  <2>2. Whole' /\ Maps' /\ NewOnes' /\ AtMain'
    BY <1>2, <2>1 DEF vars, Tidy, Records, Whole, Maps, NewOnes, NoMapOf, AtMain, Lost
  <2>3. (\A w \in Workers : AtLink(w)') /\ (\A p \in Phys : AtTask(p)')
    BY <1>2 DEF vars, Tidy, Records, AtLink, AtTask
  <2> QED
    BY <1>1, <2>2, <2>3 DEF Tidy, Records
<1>3. CASE Next
  <2> SUFFICES Records'
    BY <1>1 DEF Tidy
  <2>1. Virt \subseteq Addr /\ Phys \subseteq Addr
    BY Bases
  <2>2. CASE \E p \in Phys : Appear(p) \/ Check(p) \/ Get(p)
    BY <2>2, TidyAppear, TidyImporting
  <2>3. CASE \E a \in Virt : Draft(a)
    BY <2>1, <2>3, TidyOutside
  <2>4. CASE \E a \in Addr : Remove(a) \/ Apply(a) \/ PullState(a) \/ PullDelete(a)
    BY <2>4, TidyOutside, TidyStart
  <2>5. CASE \E old, new \in Addr : Rename(old, new)
    BY <2>5, TidyStart
  <2>6. CASE OpExec \/ ApplyOutputMap \/ ApplyLink \/ Unlink \/ Relink \/ Remap \/ Copy \/ RemoveOld
             \/ PullDef \/ PullPhy \/ PullVirt
    BY <2>6, TidyOpExec, TidyOutputs, TidyLinks, TidyRenaming, TidyPulling
  <2>7. CASE \E overwrite \in BOOLEAN : Import(overwrite)
    BY <2>7, TidyImport
  <2>8. CASE \E w \in Workers : WriteDef(w) \/ WriteMap(w) \/ WriteLink(w) \/ Cut(w)
    BY <2>8, TidyWrite, TidyCut
  <2> QED
    BY <1>3, <2>2, <2>3, <2>4, <2>5, <2>6, <2>7, <2>8 DEF Next
<1> QED
  BY <1>2, <1>3

-----------------------------------------------------------------------------
(* The properties of the runs.                                             *)

LEMMA TidyAgrees == Tidy => RecordsAgree
<1> SUFFICES ASSUME Tidy PROVE RecordsAgree
  OBVIOUS
<1>1. Typed /\ live \subseteq used /\ live \subseteq Phys
  BY TypedIs DEF Tidy
<1>2. ReadsEnd
  <2> SUFFICES ASSUME NEW a \in Addr, Loops(a)
               PROVE  /\ a \in Phys
                      /\ a \in live \ doubtful =>
                           \E w \in Workers : job[w].pc \in {"remap", "applyLink", "link"} /\ job[w].phy = a
    BY DEF ReadsEnd
  <2>1. files[a].kind = "link"
    BY <1>1, NothingReads
  <2>2. a \in Phys
    BY <2>1 DEF Tidy, Anchored, LinksAtResources
  <2>3. ASSUME a \in live \ doubtful
        PROVE  \E w \in Workers : job[w].pc \in {"remap", "applyLink", "link"} /\ job[w].phy = a
    <3>1. WholeOf(a)
      BY <2>2, <2>3 DEF Tidy, Records, Whole, Lost
    <3>2. ~Unrecorded(a)
      BY <2>1, Distinct DEF Unrecorded
    <3>3. ~Settled(a)
      BY <1>1, <2>2, SettledReads
    <3> QED
      BY <3>1, <3>2, <3>3 DEF WholeOf, Mid
  <2> QED
    BY <2>2, <2>3
<1>3. ASSUME Quiet, NEW p \in live \ doubtful
      PROVE  IF p \in foreign THEN Unrecorded(p) ELSE VirtToPhy(p) = p
  <2>1. p \in Phys \ (Lost \cup doubtful) /\ job[Main] = Idle /\ Main \in Workers
    BY <1>1, <1>3, Bases DEF Lost, Quiet
  <2>2. \/ p \notin live \ foreign /\ Unrecorded(p)
        \/ p \in live \ foreign /\ Settled(p)
    BY <1>3, <2>1, IdleIs, Plain
  <2> QED
    BY <1>1, <1>3, <2>1, <2>2, SettledReads
<1> QED
  BY <1>2, <1>3 DEF RecordsAgree

(* Between workflows of one checkout the address of a resource leads to    *)
(* the map that holds its identity, wherever earlier ones stopped and      *)
(* whatever names were chosen, but for a resource whose files one of them  *)
(* stopped between or another one wrote: for any number of resources,      *)
(* names and tasks of an import (workflow/apply.rs, import.rs, rename.rs). *)
THEOREM RecordsAlwaysAgree == Spec => []RecordsAgree
BY TidyInit, TidyNext, TidyAgrees, PTL DEF Spec

(* What a resource that is not in doubt is recorded by. *)
RecordedAll == \A p \in live \ doubtful : p \in foreign \/ Creating(p) \/ Recorded(p)

LEMMA TidyRecorded == Tidy => RecordedAll
<1> SUFFICES ASSUME Tidy, NEW p \in live \ doubtful, p \notin foreign, ~Creating(p)
             PROVE  Recorded(p)
  BY DEF RecordedAll
<1>1. Typed /\ p \in Phys \ (Lost \cup doubtful) /\ p \in Addr
  BY TypedIs, Bases DEF Tidy, Lost
<1>2. WholeOf(p)
  BY <1>1 DEF Tidy, Records, Whole
<1>3. Settled(p) => Recorded(p)
  BY <1>1 DEF Settled, Recorded
<1>4. ASSUME NEW w \in Workers, Mid(w, p) PROVE Recorded(p)
  <2>1. CASE job[w].pc = "link"
    <3>1. job[w].to \in Addr /\ files[job[w].to] = OutputMap(p)
      BY <1>1, <1>4, <2>1, WriterKnows DEF Mid, Tidy, Records, AtLink
    <3> QED
      BY <3>1 DEF Recorded
  <2>2. CASE job[w].pc \in {"remap", "applyLink"}
    <3>1. w = Main
      BY <2>2 DEF Tidy, Records, AtTask, Workers
    <3>2. CASE job[w].pc = "remap"
      BY <1>4, <3>1, <3>2 DEF Recorded, Mid
    <3>3. CASE job[w].pc = "applyLink"
      <4>1. VirtToPhy(job[Main].addr) = p /\ p # Nowhere /\ job[Main].addr \in Addr
        BY <1>1, <1>4, <3>1, <3>3, TypedIs, Bases DEF Tidy, Anchored, Reached, Mid, AimsAt
      <4> QED
        BY <1>1, <4>1, ReadsMap DEF Recorded
    <3> QED
      BY <2>2, <3>2, <3>3
  <2> QED
    BY <1>4, <2>1, <2>2 DEF Mid
<1> QED
  BY <1>2, <1>3, <1>4 DEF WholeOf

(* The main worker comes to write the outputs of an operation by executing *)
(* it; what has the worker stay there leaves the files alone.              *)
LEMMA ToOutputs ==
  ASSUME Tidy, Next, job'[Main].pc = "outputs"
  PROVE  OpExec \/ (job'[Main] = job[Main] /\ UNCHANGED <<files, doubtful>>)
<1>1. /\ Typed /\ Main \in Workers /\ Main \notin Phys /\ job \in [Workers -> Jobs]
      /\ Phys \subseteq Workers
  BY TypedIs, Bases, AddressesAssumption DEF Tidy
<1>2. CASE \E p \in Phys : Appear(p)
  BY <1>2 DEF Appear
<1>3. ASSUME NEW p \in Phys, job[p].pc # "idle", job'[Main] = job[Main] PROVE FALSE
  BY <1>3 DEF Tidy, Anchored, Alone
<1>4. CASE \E p \in Phys : Check(p) \/ Get(p)
  <2>1. PICK p \in Phys : Check(p) \/ Get(p)
    BY <1>4
  <2>2. job[p].pc # "idle" /\ \E j : job' = [job EXCEPT ![p] = j]
    <3>1. \A pc, v : [job EXCEPT ![p].pc = pc, ![p].to = v]
                       = [job EXCEPT ![p] = [job[p] EXCEPT !.pc = pc, !.to = v]]
      BY <1>1
    <3> QED
      BY <2>1, <3>1 DEF Check, Get, Finish
  <2>3. job'[Main] = job[Main]
    BY <1>1, <2>2
  <2> QED
    BY <1>3, <2>2, <2>3
<1>5. CASE \E a \in Addr : Draft(a) \/ Remove(a)
  <2>1. job' = job /\ job[Main] = Idle
    BY <1>1, <1>5 DEF Draft, Remove, Quiet
  <2> QED
    BY <2>1, IdleIs
<1>6. CASE \/ \E a \in Addr : Apply(a) \/ PullState(a) \/ PullDelete(a)
           \/ \E old, new \in Addr : Rename(old, new)
  <2> DEFINE Starts == \E j : Start(Main, j) /\ j.pc \in {"exec", "def", "map", "pullDef", "relink"}
  <2>2. ASSUME NEW a \in Addr, Apply(a) PROVE Starts
    <3>1. PICK ops : Start(Main, ExecOf(a, ops))
      BY <2>2 DEF Apply, ExecOf
    <3>2. ExecOf(a, ops).pc = "exec"
      BY DEF ExecOf, Idle
    <3> QED
      BY <3>1, <3>2
  <2>3. ASSUME NEW a \in Addr, PullState(a) PROVE Starts
    <3>1. PICK pc \in {"def", "map"} : Start(Main, PullOf(pc, a, VirtToPhy(a)))
      BY <2>3 DEF PullState, PullOf
    <3>2. PullOf(pc, a, VirtToPhy(a)).pc \in {"def", "map"}
      BY DEF PullOf, Idle
    <3> QED
      BY <3>1, <3>2
  <2>4. ASSUME NEW a \in Addr, PullDelete(a) PROVE Starts
    <3>1. Start(Main, PullOf("pullDef", a, VirtToPhy(a)))
      BY <2>4 DEF PullDelete, PullOf
    <3>2. PullOf("pullDef", a, VirtToPhy(a)).pc = "pullDef"
      BY DEF PullOf, Idle
    <3> QED
      BY <3>1, <3>2
  <2>5. ASSUME NEW old \in Addr, NEW new \in Addr, Rename(old, new) PROVE Starts
    <3>1. Start(Main, RenameOf(old, new, VirtToPhy(old)))
      BY <2>5 DEF Rename, RenameOf
    <3>2. RenameOf(old, new, VirtToPhy(old)).pc = "relink"
      BY DEF RenameOf, Idle
    <3> QED
      BY <3>1, <3>2
  <2>6. Starts
    BY <1>6, <2>2, <2>3, <2>4, <2>5
  <2>1. \E j : job' = [job EXCEPT ![Main] = j] /\ j.pc \in {"exec", "def", "map", "pullDef", "relink"}
    BY <2>6 DEF Start
  <2> QED
    BY <1>1, <2>1
<1>7. CASE \E overwrite \in BOOLEAN : Import(overwrite)
  <2>1. job'[Main] = Idle
    BY <1>1, <1>7, TypedIs DEF Import
  <2> QED
    BY <2>1, IdleIs
<1>8. CASE ApplyOutputMap \/ ApplyLink \/ Unlink
  <2>1. job[Main].pc \in {"outputs", "applyLink", "unlink"}
    BY <1>8 DEF ApplyOutputMap, ApplyLink, Unlink
  <2>2. ~NextOp
    <3>1. job[Main] \in Jobs
      BY <1>1
    <3>2. \A ops : [job[Main] EXCEPT !.pc = "exec", !.ops = ops].pc = "exec"
      BY <3>1 DEF Jobs
    <3> QED
      BY <1>1, <2>1, <3>2, NextOpIs, IdleIs
  <2>3. \E pc \in {"unlink", "applyLink"} : job' = [job EXCEPT ![Main].pc = pc]
    BY <1>8, <2>2 DEF ApplyOutputMap, ApplyLink, Unlink, Goto
  <2> QED
    BY <1>1, <2>3
<1>9. CASE Relink \/ Remap \/ Copy \/ PullDef \/ PullPhy
  <2>1. \E pc \in {"remap", "copy", "remove", "pullPhy", "pullVirt"} : job' = [job EXCEPT ![Main].pc = pc]
    BY <1>9 DEF Relink, Remap, Copy, PullDef, PullPhy, Goto
  <2> QED
    BY <1>1, <2>1
<1>10. CASE RemoveOld \/ PullVirt
  <2>1. job'[Main] = Idle
    BY <1>1, <1>10 DEF RemoveOld, PullVirt, Finish
  <2> QED
    BY <2>1, IdleIs
<1>11. CASE \E w \in Workers : WriteDef(w) \/ WriteMap(w) \/ WriteLink(w) \/ Cut(w)
  <2>1. PICK w \in Workers : WriteDef(w) \/ WriteMap(w) \/ WriteLink(w) \/ Cut(w)
    BY <1>11
  <2>2. /\ job[w].pc # "idle"
        /\ \/ job' = [job EXCEPT ![w] = Idle]
           \/ \E pc \in {"map", "link"} : job' = [job EXCEPT ![w].pc = pc]
    BY <2>1 DEF WriteDef, WriteMap, WriteLink, Cut, Goto, Finish
  <2>3. CASE w = Main
    <3>1. job[Main] \in Jobs
      BY <1>1
    <3>2. \A pc : [job EXCEPT ![Main].pc = pc][Main].pc = pc
      BY <1>1, <3>1 DEF Jobs
    <3> QED
      BY <1>1, <2>2, <2>3, <3>2, IdleIs
  <2>4. CASE w # Main
    <3>1. w \in Phys /\ job'[Main] = job[Main]
      BY <1>1, <2>2, <2>4 DEF Workers
    <3> QED
      BY <1>3, <2>2, <3>1
  <2> QED
    BY <2>3, <2>4
<1> QED
  <2>1. Virt \subseteq Addr
    BY Bases
  <2> QED
    BY <1>2, <1>4, <1>5, <1>6, <1>7, <1>8, <1>9, <1>10, <1>11, <2>1 DEF Next

(* Only a resource that was not there before becomes a new one, or is      *)
(* being created.                                                          *)
LEMMA NoneAnew ==
  ASSUME Tidy, Next, NEW p \in live
  PROVE  /\ p \in foreign' => p \in foreign
         /\ Creating(p)' => Unrecorded(p) \/ p \in doubtful'
<1>1. Typed /\ live \subseteq used /\ job \in [Workers -> Jobs] /\ Main \in Workers /\ live \subseteq Phys
  BY TypedIs, Bases DEF Tidy
<1>2. foreign' \subseteq foreign \/ \E q \in Phys \ used : foreign' = foreign \cup {q}
  BY DEF Next, Appear, Draft, Remove, Apply, PullState, PullDelete, Rename, OpExec, ApplyOutputMap,
     ApplyLink, Unlink, Relink, Remap, Copy, RemoveOld, PullDef, PullPhy, PullVirt, Delete, Import,
     Check, Get, WriteDef, WriteMap, WriteLink, Cut
<1>3. ASSUME Creating(p)' PROVE Unrecorded(p) \/ p \in doubtful'
  <2>1. job'[Main].pc = "outputs" /\ job'[Main].phy = p /\ Head(job'[Main].ops) = "create"
    BY <1>3 DEF Creating
  <2>2. CASE job'[Main] = job[Main] /\ UNCHANGED <<files, doubtful>>
    BY <2>1, <2>2 DEF Tidy, Records, AtMain
  <2>3. CASE OpExec
    <3>1. job[Main].pc = "exec" /\ job[Main] \in Jobs
      BY <1>1, <2>3 DEF OpExec
    <3>2. ~NextOp
      <4>1. \A ops : [job[Main] EXCEPT !.pc = "exec", !.ops = ops].pc = "exec"
        BY <3>1 DEF Jobs
      <4> QED
        BY <1>1, <2>1, <3>1, <4>1, NextOpIs, IdleIs
    <3>3. PICK q : /\ job' = [job EXCEPT ![Main].pc = "outputs", ![Main].phy = q]
                   /\ Head(job[Main].ops) = "create" => q \notin used
      BY <2>3, <3>2 DEF OpExec
    <3>4. job'[Main].phy = q /\ job'[Main].ops = job[Main].ops
      BY <1>1, <3>1, <3>3 DEF Jobs
    <3> QED
      BY <1>1, <2>1, <3>3, <3>4
  <2> QED
    BY <2>1, <2>2, <2>3, ToOutputs
<1> QED
  BY <1>1, <1>2, <1>3

(* The identity of a live resource stays in some output file, or in the    *)
(* memory of a rename that will write it, unless the step that loses it    *)
(* puts the resource in doubt: for any number of resources, names and      *)
(* tasks of an import (write_recurse and apply_output_map of connector.rs, *)
(* rename.rs, pull_state.rs).                                              *)
THEOREM RecordAlwaysKept == Spec => RecordIsKept
<1> DEFINE Keeps == \A p \in live \cap live' : Recorded(p) => Recorded(p)' \/ p \in doubtful'
<1>1. Tidy /\ Next /\ RecordedAll' => Keeps
  <2> SUFFICES ASSUME Tidy, Next, RecordedAll', NEW p \in live, p \in live', Recorded(p),
                      p \notin doubtful'
               PROVE  Recorded(p)'
    OBVIOUS
  <2>1. ~Unrecorded(p) /\ p \notin foreign
    <3>1. CASE \E a \in Addr : files[a] = OutputMap(p)
      BY <3>1 DEF Unrecorded, Tidy, Records, NewOnes, NoMapOf
    <3>2. CASE job[Main].pc = "remap" /\ job[Main].phy = p
      BY <3>2, Distinct DEF Unrecorded, Tidy, Records, NewOnes, AtMain
    <3> QED
      BY <3>1, <3>2 DEF Recorded
  <2>2. p \notin foreign' /\ ~Creating(p)'
    BY <2>1, NoneAnew
  <2> QED
    BY <2>2 DEF RecordedAll
<1>2. UNCHANGED vars => Keeps
  BY DEF vars, Recorded
<1>3. Tidy /\ [Next]_vars /\ RecordedAll' => [Keeps]_vars
  BY <1>1, <1>2
<1> HIDE DEF Keeps
<1>4. Spec => [][Keeps]_vars
  BY <1>3, TidyInit, TidyNext, TidyRecorded, PTL DEF Spec
<1> QED
  BY <1>4 DEF RecordIsKept, Keeps

(* Import writes a definition where the link of the resource leads,        *)
(* whatever get() suggests: for any number of resources, names and tasks   *)
(* of an import (import.rs).                                               *)
THEOREM ImportKeepsItsNames == Spec => ImportKeepsNames
<1> DEFINE Named == \A p \in live \ doubtful :
                      job[p].pc = "def" => PhyToVirt(p) \in {Nowhere, p, job[p].to}
           Keeps == \A p \in live \ doubtful :
                      job[p].pc = "def" /\ job'[p].pc = "map" => PhyToVirt(p) \in {Nowhere, p, job[p].to}
<1>1. Tidy => Named
  <2> SUFFICES ASSUME Tidy, NEW p \in live \ doubtful, job[p].pc = "def"
               PROVE  PhyToVirt(p) \in {Nowhere, p, job[p].to}
    OBVIOUS
  <2>1. Typed /\ p \in Phys \ (Lost \cup doubtful) /\ p \in Addr /\ p \in Workers
    BY TypedIs, Bases DEF Tidy, Lost
  <2>2. job[p].phy = p
    BY <2>1 DEF Tidy, Records, AtTask
  <2>3. Unrecorded(p) \/ Settled(p)
    BY <2>1, <2>2, Plain
  <2>4. CASE files[p].kind # "link"
    BY <2>1, <2>4, NothingReads
  <2>5. CASE files[p].kind = "link"
    <3>1. Settled(p)
      BY <2>3, <2>5, Distinct DEF Unrecorded
    <3>2. PhyToVirt(p) = files[p].addr
      BY <2>1, <2>5, <3>1, SettledReads
    <3>3. files[p].addr = job[p].to
      BY <2>1, <2>5 DEF Tidy, Records, AtTask
    <3> QED
      BY <3>2, <3>3
  <2> QED
    BY <2>4, <2>5
<1>2. Named => Keeps
  OBVIOUS
<1> HIDE DEF Named, Keeps
<1>3. Spec => [][Keeps]_vars
  BY <1>1, <1>2, TidyInit, TidyNext, PTL DEF Spec
<1> QED
  BY <1>3 DEF ImportKeepsNames, Keeps
=============================================================================
