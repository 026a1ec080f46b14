------------------------ MODULE ConnectorCache_proofs ------------------------
(***************************************************************************)
(* Proofs about ConnectorCache, for any slots, callers and number of       *)
(* connectors.  One lemma per group of conjuncts of IInv; each goes        *)
(* through the actions one by one.  The last section shows that the cache  *)
(* implements SharedConnectors.                                            *)
(***************************************************************************)
EXTENDS ConnectorCache, TLAPS

(* There is a slot to be the default value of key. *)
LEMMA AnyKeyIsKey == AnyKey \in Keys
  BY KeysAssumption DEF AnyKey

(* What a destructor may do: kill a process that was running. *)
LEMMA DroppedLife ==
  ASSUME NEW l \in [Conns -> Life], NEW ca, NEW co, NEW do
  PROVE  /\ Dropped(l, ca, co, do) \in [Conns -> Life]
         /\ \A i \in Conns :
              \/ Dropped(l, ca, co, do)[i] = l[i]
              \/ /\ l[i] \in {"up", "ready", "crashed"}
                 /\ Dropped(l, ca, co, do)[i] = "killed"
                 /\ ~Referenced(i, ca, co, do)
  BY DEF Dropped, Life

(* A running process survives only if something refers to it. *)
LEMMA DroppedReferenced ==
  ASSUME NEW l \in [Conns -> Life], NEW ca, NEW co, NEW do, NEW i \in Conns,
         Dropped(l, ca, co, do)[i] \in Answering
  PROVE  l[i] \in Answering /\ Dropped(l, ca, co, do)[i] = l[i] /\ Referenced(i, ca, co, do)
  BY DEF Dropped, Life, Answering

-----------------------------------------------------------------------------
(* TypeOK is inductive by itself. *)
LEMMA TypeInit == Init => TypeOK
<1> SUFFICES ASSUME Init PROVE TypeOK
  OBVIOUS
<1> QED
  BY AnyKeyIsKey DEF Init, TypeOK, Conns, NoConn, Status, Life, PC,
                     Holding, Spawned

LEMMA TypeStep == TypeOK /\ [Next]_vars => TypeOK'
<1> SUFFICES ASSUME TypeOK, [Next]_vars PROVE TypeOK'
  OBVIOUS
<1> USE DEF TypeOK, Goto, Hold, history, UnchangedMaps, UnchangedCall, PC, Holding, Spawned
<1>a. NoConn \notin Conns
  BY DEF Conns, NoConn
<1> HIDE DEF NoConn, Conns
<1>1. ASSUME NEW c \in Callers, NEW k \in Keys, NEW w \in BOOLEAN, GetCached(c, k, w)
      PROVE  TypeOK'
  BY <1>1, <1>a DEF GetCached
<1>2. ASSUME NEW c \in Callers, NEW k \in Keys, NEW w \in BOOLEAN, GetVacant(c, k, w)
      PROVE  TypeOK'
  BY <1>2, <1>a DEF GetVacant
<1>3. ASSUME NEW c \in Callers, Decide(c) PROVE TypeOK'
  BY <1>3, <1>a DEF Decide, Status
<1>4. ASSUME NEW c \in Callers, MarkSpawning(c) PROVE TypeOK'
  BY <1>4, <1>a DEF MarkSpawning, Status, Overlaps
<1>5. ASSUME NEW c \in Callers, NEW i \in Conns, SpawnOk(c, i) PROVE TypeOK'
  BY <1>5, <1>a DEF SpawnOk, Life
<1>6. ASSUME NEW c \in Callers, Leave(c) PROVE life' \in [Conns -> Life]
  BY <1>6, DroppedLife DEF Leave
<1>7. ASSUME NEW c \in Callers, SpawnFailed(c) PROVE TypeOK'
  BY <1>7, <1>6, <1>a, AnyKeyIsKey DEF SpawnFailed, Leave, EndCall
<1>8. ASSUME NEW c \in Callers, VersionMatches(c) PROVE TypeOK'
  BY <1>8, <1>a DEF VersionMatches
<1>9. ASSUME NEW c \in Callers, VersionMismatch(c) PROVE TypeOK'
  BY <1>9, <1>6, <1>a, AnyKeyIsKey DEF VersionMismatch, Leave, EndCall
<1>10. ASSUME NEW c \in Callers, Publish(c) PROVE TypeOK'
  <2>1. life' \in [Conns -> Life]
    BY <1>10, DroppedLife DEF Publish
  <2> QED
    BY <1>10, <2>1, <1>a DEF Publish
<1>11. ASSUME NEW c \in Callers, MarkInitializing(c) PROVE TypeOK'
  BY <1>11, <1>a DEF MarkInitializing, Status
<1>12. ASSUME NEW c \in Callers, InitSucceeds(c) PROVE TypeOK'
  BY <1>12, <1>a DEF InitSucceeds, Life
<1>13. ASSUME NEW c \in Callers, InitFails(c) PROVE TypeOK'
  BY <1>13, <1>a DEF InitFails
<1>14. ASSUME NEW c \in Callers, Settle(c) PROVE TypeOK'
  BY <1>14, <1>a DEF Settle, Status
<1>15. ASSUME NEW c \in Callers, NEW k \in Keys, GetConnector(c, k) PROVE TypeOK'
  BY <1>15, <1>a DEF GetConnector
<1>16. ASSUME NEW c \in Callers, Release(c) PROVE TypeOK'
  BY <1>16, <1>6, <1>a, AnyKeyIsKey DEF Release, Leave, EndCall
<1>17. ASSUME NEW c \in Callers, NEW k \in Keys, InitConnector(c, k) PROVE TypeOK'
  BY <1>17, <1>a DEF InitConnector
<1>18. ASSUME NEW c \in Callers, NEW ok \in BOOLEAN, ReInitReturns(c, ok) PROVE TypeOK'
  <2>1. life' \in [Conns -> Life]
    <3>1. IF ok THEN [life EXCEPT ![conn[c]] = "ready"] \in [Conns -> Life]
                ELSE life \in [Conns -> Life]
      BY DEF Life
    <3> QED
      BY <1>18, <3>1, DroppedLife DEF ReInitReturns
  <2> QED
    BY <1>18, <2>1, <1>a, AnyKeyIsKey DEF ReInitReturns, EndCall
<1>19. ASSUME NEW c \in Callers, NEW k \in Keys, FilterMiss(c, k) PROVE TypeOK'
  BY <1>19, <1>a DEF FilterMiss
<1>20. ASSUME NEW c \in Callers, FilterGetConnector(c) PROVE TypeOK'
  BY <1>20, <1>a DEF FilterGetConnector
<1>21. ASSUME NEW c \in Callers, FilterNoConnector(c) PROVE TypeOK'
  BY <1>21, <1>a, AnyKeyIsKey DEF FilterNoConnector, EndCall
<1>22. ASSUME NEW c \in Callers, FilterAnswered(c) PROVE TypeOK'
  BY <1>22, <1>a DEF FilterAnswered
<1>23. ASSUME NEW c \in Callers, FilterFailed(c) PROVE TypeOK'
  BY <1>23, <1>6, <1>a, AnyKeyIsKey DEF FilterFailed, Leave, EndCall
<1>24. ASSUME NEW c \in Callers, FilterStore(c) PROVE TypeOK'
  BY <1>24, <1>6, <1>a, AnyKeyIsKey DEF FilterStore, Leave, EndCall
<1>25. ASSUME NEW c \in Callers, ClearBegin(c) PROVE TypeOK'
  BY <1>25, <1>a DEF ClearBegin, InSlots
<1>26. ASSUME NEW c \in Callers, ClearSlots(c) PROVE TypeOK'
  <2>1. life' \in [Conns -> Life]
    BY <1>26, DroppedLife DEF ClearSlots
  <2> QED
    BY <1>26, <2>1, <1>a DEF ClearSlots
<1>27. ASSUME NEW c \in Callers, ClearFilters(c) PROVE TypeOK'
  BY <1>27, <1>a DEF ClearFilters
<1>28. ASSUME NEW i \in Conns, Crash(i) PROVE TypeOK'
  BY <1>28, <1>a DEF Crash, Life
<1>29. CASE UNCHANGED vars
  BY <1>29 DEF vars
<1>30. ASSUME NEW c \in Callers, NEW i \in Conns, Kill(c, i) PROVE TypeOK'
  BY <1>30, <1>a DEF Kill, Life
<1>31. ASSUME NEW c \in Callers, ClearDropped(c) PROVE TypeOK'
  <2>1. life' \in [Conns -> Life]
    BY <1>31, DroppedLife DEF ClearDropped
  <2> QED
    BY <1>31, <2>1, <1>a DEF ClearDropped
<1>32. ASSUME NEW c \in Callers, NEW ok \in BOOLEAN, InitDropped(c, ok) PROVE TypeOK'
  <2>1. life' \in [Conns -> Life]
    <3>1. IF ok THEN [life EXCEPT ![conn[c]] = "ready"] \in [Conns -> Life]
                ELSE life \in [Conns -> Life]
      BY DEF Life
    <3> QED
      BY <1>32, <3>1, DroppedLife DEF InitDropped
  <2> QED
    BY <1>32, <2>1, <1>a, AnyKeyIsKey DEF InitDropped, EndCall
<1> HIDE DEF TypeOK, Goto, Hold, history, UnchangedMaps, UnchangedCall, PC, Holding,
             Spawned
<1> QED
  BY <1>1, <1>2, <1>3, <1>4, <1>5, <1>7, <1>8, <1>9, <1>10, <1>11, <1>12, <1>13, <1>14,
     <1>15, <1>16, <1>17, <1>18, <1>19, <1>20, <1>21, <1>22, <1>23, <1>24, <1>25, <1>26,
     <1>27, <1>28, <1>29, <1>30, <1>31, <1>32
     DEF Next, Call, Continue, Clear

(* Every variable stays in its range, and a caller holds a handle exactly   *)
(* at the points of the code where a connector is in scope.                 *)
THEOREM TypeCorrect == Spec => []TypeOK
  BY TypeInit, TypeStep, PTL DEF Spec

-----------------------------------------------------------------------------
(* What the steps that run destructors do: the survivors are the referenced *)
(* processes, and only unreferenced ones are killed.                        *)
Survivors == \A i \in Conns : life'[i] \in Answering => Referenced(i, cache', conn', doomed')

KilledUnreferenced ==
  \A i \in Conns :
    life'[i] = life[i] \/ (life'[i] = "killed" /\ ~Referenced(i, cache', conn', doomed'))

(* The effect of a step in which a call returns, whatever became of it *)
Left(c) ==
  /\ pc[c] \in {"spawn", "check", "held", "fCall", "fPut"}
  /\ EndCall(c)
  /\ fresh' = [fresh EXCEPT ![c] = FALSE]
  /\ UNCHANGED <<cache, initStatus, keyOf, initOk, doomed, history>>
  /\ Survivors /\ KilledUnreferenced

PublishEffect(c) ==
  /\ pc[c] = "publish"
  /\ cache' = [cache EXCEPT ![key[c]] = conn[c]]
  /\ fresh' = [fresh EXCEPT ![c] = FALSE]
  /\ abandoned' = [abandoned EXCEPT ![key[c]] = FALSE]
  /\ Goto(c, "held")
  /\ UNCHANGED <<initStatus, keyOf, key, wantInit, conn, initOk, doomed, overlapped, spoilt>>
  /\ Survivors /\ KilledUnreferenced

ClearSlotsEffect(c) ==
  /\ pc[c] = "kill"
  /\ cache' = [k \in Keys |-> NoConn]
  /\ Goto(c, "sweepFilters")
  /\ UNCHANGED <<initStatus, keyOf, key, wantInit, conn, fresh, initOk, doomed, overlapped,
                 spoilt>>
  /\ Survivors /\ KilledUnreferenced

ClearDroppedEffect(c) ==
  /\ pc[c] = "kill"
  /\ doomed' = [doomed EXCEPT ![c] = {}]
  /\ abandoned' = [k \in Keys |->
       abandoned[k] \/ (cache[k] # NoConn /\ life[cache[k]] = "killed")]
  /\ Goto(c, "idle")
  /\ UNCHANGED <<cache, initStatus, keyOf, key, wantInit, conn, fresh, initOk, overlapped,
                 spoilt>>
  /\ Survivors /\ KilledUnreferenced

ReInitEffect(c) ==
  /\ pc[c] = "reInit"
  /\ EndCall(c)
  /\ UNCHANGED <<cache, initStatus, keyOf, fresh, initOk, doomed, history>>
  /\ Survivors
  /\ \A i \in Conns :
       \/ life'[i] = life[i]
       \/ i = conn[c] /\ life[i] \in Answering /\ life'[i] = "ready"
       \/ life'[i] = "killed" /\ ~Referenced(i, cache', conn', doomed')

InitDroppedEffect(c) ==
  /\ pc[c] = "init"
  /\ EndCall(c)
  /\ fresh' = [fresh EXCEPT ![c] = FALSE]
  /\ spoilt' = [spoilt EXCEPT ![conn[c]] = TRUE]
  /\ UNCHANGED <<cache, initStatus, keyOf, initOk, doomed, overlapped, abandoned>>
  /\ Survivors
  /\ \A i \in Conns :
       \/ life'[i] = life[i]
       \/ i = conn[c] /\ life[i] \in Answering /\ life'[i] = "ready"
       \/ life'[i] = "killed" /\ ~Referenced(i, cache', conn', doomed')

(* The value of an empty slot is no connector. *)
LEMMA NoConnIsNone == NoConn \notin Conns
  BY DEF NoConn, Conns

(* The definition of Dropped, seen from the next state. *)
LEMMA Destructors ==
  ASSUME life \in [Conns -> Life], life' = Dropped(life, cache', conn', doomed')
  PROVE  Survivors /\ KilledUnreferenced
  BY DroppedLife, DroppedReferenced DEF Survivors, KilledUnreferenced

(* Each action that runs destructors has its effect above. *)
LEMMA LeaveStep ==
  ASSUME TypeOK, NEW c \in Callers,
         \/ SpawnFailed(c) \/ VersionMismatch(c) \/ Release(c)
         \/ FilterFailed(c) \/ FilterStore(c)
  PROVE  Left(c)
<1> USE DEF SpawnFailed, VersionMismatch, Release, FilterFailed, FilterStore, Leave,
            UnchangedMaps
<1>1. life' = Dropped(life, cache', conn', doomed')
  BY DEF EndCall, Hold
<1> QED
  BY <1>1, Destructors DEF TypeOK, Left

LEMMA PublishStep == ASSUME TypeOK, NEW c \in Callers, Publish(c) PROVE PublishEffect(c)
<1>1. life' = Dropped(life, cache', conn', doomed')
  BY DEF Publish
<1> QED
  BY <1>1, Destructors DEF TypeOK, Publish, PublishEffect, UnchangedCall

LEMMA ClearSlotsStep ==
  ASSUME TypeOK, NEW c \in Callers, ClearSlots(c) PROVE ClearSlotsEffect(c)
<1>1. life' = Dropped(life, cache', conn', doomed')
  BY DEF ClearSlots
<1> QED
  BY <1>1, Destructors DEF TypeOK, ClearSlots, ClearSlotsEffect, UnchangedCall

LEMMA ClearDroppedStep ==
  ASSUME TypeOK, NEW c \in Callers, ClearDropped(c) PROVE ClearDroppedEffect(c)
<1>1. life' = Dropped(life, cache', conn', doomed')
  BY DEF ClearDropped, UnchangedMaps
<1> QED
  BY <1>1, Destructors DEF TypeOK, ClearDropped, ClearDroppedEffect, UnchangedMaps,
                           UnchangedCall

LEMMA AwaitedInitStep ==
  ASSUME TypeOK, NEW c \in Callers, NEW ok \in BOOLEAN,
         ReInitReturns(c, ok) \/ InitDropped(c, ok)
  PROVE  /\ Survivors
         /\ \A i \in Conns :
              \/ life'[i] = life[i]
              \/ i = conn[c] /\ life[i] \in Answering /\ life'[i] = "ready"
              \/ life'[i] = "killed" /\ ~Referenced(i, cache', conn', doomed')
<1> DEFINE after == IF ok THEN [life EXCEPT ![conn[c]] = "ready"] ELSE life
<1>1. after \in [Conns -> Life]
  BY DEF TypeOK, Life
<1>2. life' = Dropped(after, cache', conn', doomed')
  BY DEF ReInitReturns, InitDropped, EndCall, Hold, UnchangedMaps
<1>3. \A i \in Conns :
        \/ after[i] = life[i]
        \/ i = conn[c] /\ life[i] \in Answering /\ after[i] = "ready"
  BY DEF ReInitReturns, InitDropped, TypeOK
<1> HIDE DEF after
<1>4. Survivors
  BY <1>1, <1>2, DroppedReferenced DEF Survivors
<1>5. \A i \in Conns :
        life'[i] = after[i] \/ (life'[i] = "killed" /\ ~Referenced(i, cache', conn', doomed'))
  BY <1>1, <1>2, DroppedLife
<1> QED
  BY <1>3, <1>4, <1>5

LEMMA ReInitStep ==
  ASSUME TypeOK, NEW c \in Callers, NEW ok \in BOOLEAN, ReInitReturns(c, ok)
  PROVE  ReInitEffect(c)
BY AwaitedInitStep DEF ReInitReturns, ReInitEffect, UnchangedMaps

LEMMA InitDroppedStep ==
  ASSUME TypeOK, NEW c \in Callers, NEW ok \in BOOLEAN, InitDropped(c, ok)
  PROVE  InitDroppedEffect(c)
BY AwaitedInitStep DEF InitDropped, InitDroppedEffect, UnchangedMaps

-----------------------------------------------------------------------------
(* A spawned connector stays spawned. *)
LEMMA LifeMonotone ==
  ASSUME TypeOK, [Next]_vars
  PROVE  \A i \in Conns : life[i] # "none" => life'[i] # "none"
<1> DEFINE LifeMono == \A i \in Conns : life[i] # "none" => life'[i] # "none"
<1> USE DEF Goto, Hold, history, UnchangedMaps, UnchangedCall, TypeOK, Answering,
            KilledUnreferenced
<1>1. ASSUME NEW c \in Callers, NEW k \in Keys, NEW w \in BOOLEAN, GetCached(c, k, w)
      PROVE LifeMono
  BY <1>1 DEF GetCached
<1>2. ASSUME NEW c \in Callers, NEW k \in Keys, NEW w \in BOOLEAN, GetVacant(c, k, w)
      PROVE LifeMono
  BY <1>2 DEF GetVacant
<1>3. ASSUME NEW c \in Callers, Decide(c) PROVE LifeMono
  BY <1>3 DEF Decide
<1>4. ASSUME NEW c \in Callers, MarkSpawning(c) PROVE LifeMono
  BY <1>4 DEF MarkSpawning
<1>5. ASSUME NEW c \in Callers, NEW i \in Conns, SpawnOk(c, i) PROVE LifeMono
  BY <1>5 DEF SpawnOk
<1>6. ASSUME NEW c \in Callers, Left(c) PROVE LifeMono
  BY <1>6 DEF Left, EndCall
<1>7. ASSUME NEW c \in Callers, VersionMatches(c) PROVE LifeMono
  BY <1>7 DEF VersionMatches
<1>8. ASSUME NEW c \in Callers, PublishEffect(c) PROVE LifeMono
  BY <1>8 DEF PublishEffect
<1>9. ASSUME NEW c \in Callers, MarkInitializing(c) PROVE LifeMono
  BY <1>9 DEF MarkInitializing
<1>10. ASSUME NEW c \in Callers, InitSucceeds(c) PROVE LifeMono
  BY <1>10 DEF InitSucceeds
<1>11. ASSUME NEW c \in Callers, InitFails(c) PROVE LifeMono
  BY <1>11 DEF InitFails
<1>12. ASSUME NEW c \in Callers, Settle(c) PROVE LifeMono
  BY <1>12 DEF Settle
<1>13. ASSUME NEW c \in Callers, NEW k \in Keys, GetConnector(c, k) PROVE LifeMono
  BY <1>13 DEF GetConnector
<1>14. ASSUME NEW c \in Callers, NEW k \in Keys, InitConnector(c, k) PROVE LifeMono
  BY <1>14 DEF InitConnector
<1>15. ASSUME NEW c \in Callers, ReInitEffect(c) PROVE LifeMono
  BY <1>15 DEF ReInitEffect, EndCall
<1>16. ASSUME NEW c \in Callers, NEW k \in Keys, FilterMiss(c, k) PROVE LifeMono
  BY <1>16 DEF FilterMiss
<1>17. ASSUME NEW c \in Callers, FilterGetConnector(c) PROVE LifeMono
  BY <1>17 DEF FilterGetConnector
<1>18. ASSUME NEW c \in Callers, FilterNoConnector(c) PROVE LifeMono
  BY <1>18 DEF FilterNoConnector, EndCall
<1>19. ASSUME NEW c \in Callers, FilterAnswered(c) PROVE LifeMono
  BY <1>19 DEF FilterAnswered
<1>20. ASSUME NEW c \in Callers, ClearBegin(c) PROVE LifeMono
  BY <1>20 DEF ClearBegin, InSlots
<1>21. ASSUME NEW c \in Callers, ClearSlotsEffect(c) PROVE LifeMono
  BY <1>21 DEF ClearSlotsEffect
<1>22. ASSUME NEW c \in Callers, ClearFilters(c) PROVE LifeMono
  BY <1>22 DEF ClearFilters
<1>23. ASSUME NEW i \in Conns, Crash(i) PROVE LifeMono
  BY <1>23 DEF Crash
<1>24. CASE UNCHANGED vars
  BY <1>24 DEF vars
<1>25. ASSUME NEW c \in Callers, NEW i \in Conns, Kill(c, i) PROVE LifeMono
  BY <1>25 DEF Kill
<1>26. ASSUME NEW c \in Callers, ClearDroppedEffect(c) PROVE LifeMono
  BY <1>26 DEF ClearDroppedEffect
<1>27. ASSUME NEW c \in Callers, InitDroppedEffect(c) PROVE LifeMono
  BY <1>27 DEF InitDroppedEffect, EndCall
<1> HIDE DEF Goto, Hold, history, UnchangedMaps, UnchangedCall, TypeOK, Answering,
             KilledUnreferenced
<1> QED
  BY <1>1, <1>2, <1>3, <1>4, <1>5, <1>6, <1>7, <1>8, <1>9, <1>10, <1>11, <1>12, <1>13,
     <1>14, <1>15, <1>16, <1>17, <1>18, <1>19, <1>20, <1>21, <1>22, <1>23, <1>24,
     <1>25, <1>26, <1>27, LeaveStep, PublishStep, ClearSlotsStep, ClearDroppedStep,
     ReInitStep, InitDroppedStep
     DEF Next, Call, Continue, Clear

(* Coherent is inductive with TypeOK. *)
LEMMA CoherentStep ==
  ASSUME TypeOK, Coherent, [Next]_vars
  PROVE  Coherent'
<1> USE DEF Goto, Hold, history, UnchangedMaps, UnchangedCall, TypeOK, Coherent, Holding
<1>1. ASSUME NEW c \in Callers, NEW k \in Keys, NEW w \in BOOLEAN, GetCached(c, k, w)
      PROVE Coherent'
  BY <1>1 DEF GetCached
<1>2. ASSUME NEW c \in Callers, NEW k \in Keys, NEW w \in BOOLEAN, GetVacant(c, k, w)
      PROVE Coherent'
  BY <1>2 DEF GetVacant
<1>3. ASSUME NEW c \in Callers, Decide(c) PROVE Coherent'
  BY <1>3 DEF Decide
<1>4. ASSUME NEW c \in Callers, MarkSpawning(c) PROVE Coherent'
  BY <1>4 DEF MarkSpawning
<1>5. ASSUME NEW c \in Callers, NEW i \in Conns, SpawnOk(c, i) PROVE Coherent'
  BY <1>5 DEF SpawnOk
<1>6. ASSUME NEW c \in Callers, Left(c) PROVE Coherent'
  BY <1>6, LifeMonotone DEF Left, EndCall
<1>7. ASSUME NEW c \in Callers, VersionMatches(c) PROVE Coherent'
  BY <1>7 DEF VersionMatches
<1>8. ASSUME NEW c \in Callers, PublishEffect(c) PROVE Coherent'
  BY <1>8, LifeMonotone DEF PublishEffect
<1>9. ASSUME NEW c \in Callers, MarkInitializing(c) PROVE Coherent'
  BY <1>9 DEF MarkInitializing
<1>10. ASSUME NEW c \in Callers, InitSucceeds(c) PROVE Coherent'
  BY <1>10 DEF InitSucceeds
<1>11. ASSUME NEW c \in Callers, InitFails(c) PROVE Coherent'
  BY <1>11 DEF InitFails
<1>12. ASSUME NEW c \in Callers, Settle(c) PROVE Coherent'
  BY <1>12 DEF Settle
<1>13. ASSUME NEW c \in Callers, NEW k \in Keys, GetConnector(c, k) PROVE Coherent'
  BY <1>13 DEF GetConnector
<1>14. ASSUME NEW c \in Callers, NEW k \in Keys, InitConnector(c, k) PROVE Coherent'
  BY <1>14 DEF InitConnector
<1>15. ASSUME NEW c \in Callers, ReInitEffect(c) PROVE Coherent'
  BY <1>15 DEF ReInitEffect, EndCall
<1>16. ASSUME NEW c \in Callers, NEW k \in Keys, FilterMiss(c, k) PROVE Coherent'
  BY <1>16 DEF FilterMiss
<1>17. ASSUME NEW c \in Callers, FilterGetConnector(c) PROVE Coherent'
  BY <1>17 DEF FilterGetConnector
<1>18. ASSUME NEW c \in Callers, FilterNoConnector(c) PROVE Coherent'
  BY <1>18 DEF FilterNoConnector, EndCall
<1>19. ASSUME NEW c \in Callers, FilterAnswered(c) PROVE Coherent'
  BY <1>19 DEF FilterAnswered
<1>20. ASSUME NEW c \in Callers, ClearBegin(c) PROVE Coherent'
  BY <1>20 DEF ClearBegin, InSlots
<1>21. ASSUME NEW c \in Callers, ClearSlotsEffect(c) PROVE Coherent'
  BY <1>21, LifeMonotone DEF ClearSlotsEffect
<1>22. ASSUME NEW c \in Callers, ClearFilters(c) PROVE Coherent'
  BY <1>22 DEF ClearFilters
<1>23. ASSUME NEW i \in Conns, Crash(i) PROVE Coherent'
  BY <1>23 DEF Crash
<1>24. CASE UNCHANGED vars
  BY <1>24 DEF vars
<1>25. ASSUME NEW c \in Callers, NEW i \in Conns, Kill(c, i) PROVE Coherent'
  BY <1>25 DEF Kill
<1>26. ASSUME NEW c \in Callers, ClearDroppedEffect(c) PROVE Coherent'
  BY <1>26, LifeMonotone DEF ClearDroppedEffect
<1>27. ASSUME NEW c \in Callers, InitDroppedEffect(c) PROVE Coherent'
  BY <1>27, LifeMonotone DEF InitDroppedEffect, EndCall
<1> HIDE DEF Goto, Hold, history, UnchangedMaps, UnchangedCall, TypeOK, Coherent,
             Holding
<1> QED
  BY <1>1, <1>2, <1>3, <1>4, <1>5, <1>6, <1>7, <1>8, <1>9, <1>10, <1>11, <1>12, <1>13,
     <1>14, <1>15, <1>16, <1>17, <1>18, <1>19, <1>20, <1>21, <1>22, <1>23, <1>24,
     <1>25, <1>26, <1>27, LeaveStep, PublishStep, ClearSlotsStep, ClearDroppedStep,
     ReInitStep, InitDroppedStep
     DEF Next, Call, Continue, Clear

-----------------------------------------------------------------------------
(* Where references are coherent, a referenced process is reachable. *)
LEMMA SurvivorsReachable ==
  ASSUME TypeOK', Coherent', Survivors PROVE LiveIsReachable'
<1> SUFFICES ASSUME NEW i \in Conns, life'[i] \in Answering
             PROVE  \/ cache'[keyOf'[i]] = i
                    \/ \E c \in Callers : \/ conn'[c] = i /\ key'[c] = keyOf'[i]
                                         \/ i \in doomed'[c]
  BY DEF LiveIsReachable
<1>1. CASE \E k \in Keys : cache'[k] = i
  BY <1>1, NoConnIsNone DEF Coherent
<1>2. CASE \E c \in Callers : conn'[c] = i
  BY <1>2, NoConnIsNone DEF Coherent
<1>3. CASE \E c \in Callers : i \in doomed'[c]
  BY <1>3
<1> QED
  BY <1>1, <1>2, <1>3 DEF Survivors, Referenced

(* Steps without destructors only add references to a running process. *)
LEMMA LiveStep ==
  ASSUME TypeOK, Coherent, LiveIsReachable, [Next]_vars
  PROVE  LiveIsReachable'
<1> USE DEF Goto, Hold, history, UnchangedMaps, UnchangedCall, TypeOK, Coherent, LiveIsReachable,
            Answering, Holding
<1>c. TypeOK' /\ Coherent'
  BY TypeStep, CoherentStep
<1>1. ASSUME NEW c \in Callers, NEW k \in Keys, NEW w \in BOOLEAN, GetCached(c, k, w)
      PROVE LiveIsReachable'
  BY <1>1, NoConnIsNone DEF GetCached
<1>2. ASSUME NEW c \in Callers, NEW k \in Keys, NEW w \in BOOLEAN, GetVacant(c, k, w)
      PROVE LiveIsReachable'
  BY <1>2, NoConnIsNone DEF GetVacant
<1>3. ASSUME NEW c \in Callers, Decide(c) PROVE LiveIsReachable'
  BY <1>3 DEF Decide
<1>4. ASSUME NEW c \in Callers, MarkSpawning(c) PROVE LiveIsReachable'
  BY <1>4 DEF MarkSpawning
<1>5. ASSUME NEW c \in Callers, NEW i \in Conns, SpawnOk(c, i) PROVE LiveIsReachable'
  BY <1>5, NoConnIsNone DEF SpawnOk
<1>6. ASSUME NEW c \in Callers, Left(c) PROVE LiveIsReachable'
  <2>1. Survivors
    BY <1>6 DEF Left
  <2> QED
    BY <2>1, <1>c, SurvivorsReachable
<1>7. ASSUME NEW c \in Callers, VersionMatches(c) PROVE LiveIsReachable'
  BY <1>7 DEF VersionMatches
<1>8. ASSUME NEW c \in Callers, PublishEffect(c) PROVE LiveIsReachable'
  <2>1. Survivors
    BY <1>8 DEF PublishEffect
  <2> QED
    BY <2>1, <1>c, SurvivorsReachable
<1>9. ASSUME NEW c \in Callers, MarkInitializing(c) PROVE LiveIsReachable'
  BY <1>9 DEF MarkInitializing
<1>10. ASSUME NEW c \in Callers, InitSucceeds(c) PROVE LiveIsReachable'
  BY <1>10 DEF InitSucceeds
<1>11. ASSUME NEW c \in Callers, InitFails(c) PROVE LiveIsReachable'
  BY <1>11 DEF InitFails
<1>12. ASSUME NEW c \in Callers, Settle(c) PROVE LiveIsReachable'
  BY <1>12 DEF Settle
<1>13. ASSUME NEW c \in Callers, NEW k \in Keys, GetConnector(c, k) PROVE LiveIsReachable'
  BY <1>13, NoConnIsNone DEF GetConnector
<1>14. ASSUME NEW c \in Callers, NEW k \in Keys, InitConnector(c, k) PROVE LiveIsReachable'
  BY <1>14, NoConnIsNone DEF InitConnector
<1>15. ASSUME NEW c \in Callers, ReInitEffect(c) PROVE LiveIsReachable'
  <2>1. Survivors
    BY <1>15 DEF ReInitEffect
  <2> QED
    BY <2>1, <1>c, SurvivorsReachable
<1>16. ASSUME NEW c \in Callers, NEW k \in Keys, FilterMiss(c, k) PROVE LiveIsReachable'
  BY <1>16, NoConnIsNone DEF FilterMiss
<1>17. ASSUME NEW c \in Callers, FilterGetConnector(c) PROVE LiveIsReachable'
  BY <1>17, NoConnIsNone DEF FilterGetConnector
<1>18. ASSUME NEW c \in Callers, FilterNoConnector(c) PROVE LiveIsReachable'
  BY <1>18 DEF FilterNoConnector, EndCall
<1>19. ASSUME NEW c \in Callers, FilterAnswered(c) PROVE LiveIsReachable'
  BY <1>19 DEF FilterAnswered
<1>20. ASSUME NEW c \in Callers, ClearBegin(c) PROVE LiveIsReachable'
  BY <1>20 DEF ClearBegin, InSlots
<1>21. ASSUME NEW c \in Callers, ClearSlotsEffect(c) PROVE LiveIsReachable'
  <2>1. Survivors
    BY <1>21 DEF ClearSlotsEffect
  <2> QED
    BY <2>1, <1>c, SurvivorsReachable
<1>22. ASSUME NEW c \in Callers, ClearFilters(c) PROVE LiveIsReachable'
  BY <1>22 DEF ClearFilters
<1>23. ASSUME NEW i \in Conns, Crash(i) PROVE LiveIsReachable'
  BY <1>23 DEF Crash
<1>24. CASE UNCHANGED vars
  BY <1>24 DEF vars
<1>25. ASSUME NEW c \in Callers, NEW i \in Conns, Kill(c, i) PROVE LiveIsReachable'
  BY <1>25 DEF Kill
<1>26. ASSUME NEW c \in Callers, ClearDroppedEffect(c) PROVE LiveIsReachable'
  <2>1. Survivors
    BY <1>26 DEF ClearDroppedEffect
  <2> QED
    BY <2>1, <1>c, SurvivorsReachable
<1>27. ASSUME NEW c \in Callers, InitDroppedEffect(c) PROVE LiveIsReachable'
  <2>1. Survivors
    BY <1>27 DEF InitDroppedEffect
  <2> QED
    BY <2>1, <1>c, SurvivorsReachable
<1> HIDE DEF Goto, Hold, history, UnchangedMaps, UnchangedCall, TypeOK, Coherent,
             LiveIsReachable, Answering, Holding
<1> QED
  BY <1>1, <1>2, <1>3, <1>4, <1>5, <1>6, <1>7, <1>8, <1>9, <1>10, <1>11, <1>12, <1>13,
     <1>14, <1>15, <1>16, <1>17, <1>18, <1>19, <1>20, <1>21, <1>22, <1>23, <1>24,
     <1>25, <1>26, <1>27, LeaveStep, PublishStep, ClearSlotsStep, ClearDroppedStep,
     ReInitStep, InitDroppedStep
     DEF Next, Call, Continue, Clear

(* Nobody reads a handle out of another call: a fresh one leaves its spawner *)
(* by Publish only.                                                         *)
LEMMA FreshStep ==
  ASSUME TypeOK, Coherent, FreshIsPrivate, [Next]_vars
  PROVE  FreshIsPrivate'
<1> USE DEF Goto, Hold, history, UnchangedMaps, UnchangedCall, TypeOK, Coherent, FreshIsPrivate,
            Answering, Holding, Spawned, Referenced, KilledUnreferenced
<1>1. ASSUME NEW c \in Callers, NEW k \in Keys, NEW w \in BOOLEAN, GetCached(c, k, w)
      PROVE FreshIsPrivate'
  BY <1>1 DEF GetCached
<1>2. ASSUME NEW c \in Callers, NEW k \in Keys, NEW w \in BOOLEAN, GetVacant(c, k, w)
      PROVE FreshIsPrivate'
  BY <1>2 DEF GetVacant
<1>3. ASSUME NEW c \in Callers, Decide(c) PROVE FreshIsPrivate'
  BY <1>3 DEF Decide
<1>4. ASSUME NEW c \in Callers, MarkSpawning(c) PROVE FreshIsPrivate'
  BY <1>4 DEF MarkSpawning
<1>5. ASSUME NEW c \in Callers, NEW i \in Conns, SpawnOk(c, i) PROVE FreshIsPrivate'
  BY <1>5, NoConnIsNone DEF SpawnOk
<1>6. ASSUME NEW c \in Callers, Left(c) PROVE FreshIsPrivate'
  BY <1>6 DEF Left, EndCall
<1>7. ASSUME NEW c \in Callers, VersionMatches(c) PROVE FreshIsPrivate'
  BY <1>7 DEF VersionMatches
<1>8. ASSUME NEW c \in Callers, PublishEffect(c) PROVE FreshIsPrivate'
  BY <1>8 DEF PublishEffect
<1>9. ASSUME NEW c \in Callers, MarkInitializing(c) PROVE FreshIsPrivate'
  BY <1>9 DEF MarkInitializing
<1>10. ASSUME NEW c \in Callers, InitSucceeds(c) PROVE FreshIsPrivate'
  BY <1>10 DEF InitSucceeds
<1>11. ASSUME NEW c \in Callers, InitFails(c) PROVE FreshIsPrivate'
  BY <1>11 DEF InitFails
<1>12. ASSUME NEW c \in Callers, Settle(c) PROVE FreshIsPrivate'
  BY <1>12 DEF Settle
<1>13. ASSUME NEW c \in Callers, NEW k \in Keys, GetConnector(c, k) PROVE FreshIsPrivate'
  BY <1>13 DEF GetConnector
<1>14. ASSUME NEW c \in Callers, NEW k \in Keys, InitConnector(c, k) PROVE FreshIsPrivate'
  BY <1>14 DEF InitConnector
<1>15. ASSUME NEW c \in Callers, ReInitEffect(c) PROVE FreshIsPrivate'
  BY <1>15 DEF ReInitEffect, EndCall
<1>16. ASSUME NEW c \in Callers, NEW k \in Keys, FilterMiss(c, k) PROVE FreshIsPrivate'
  BY <1>16 DEF FilterMiss
<1>17. ASSUME NEW c \in Callers, FilterGetConnector(c) PROVE FreshIsPrivate'
  BY <1>17 DEF FilterGetConnector
<1>18. ASSUME NEW c \in Callers, FilterNoConnector(c) PROVE FreshIsPrivate'
  BY <1>18 DEF FilterNoConnector, EndCall
<1>19. ASSUME NEW c \in Callers, FilterAnswered(c) PROVE FreshIsPrivate'
  BY <1>19 DEF FilterAnswered
<1>20. ASSUME NEW c \in Callers, ClearBegin(c) PROVE FreshIsPrivate'
  BY <1>20 DEF ClearBegin, InSlots
<1>21. ASSUME NEW c \in Callers, ClearSlotsEffect(c) PROVE FreshIsPrivate'
  BY <1>21 DEF ClearSlotsEffect
<1>22. ASSUME NEW c \in Callers, ClearFilters(c) PROVE FreshIsPrivate'
  BY <1>22 DEF ClearFilters
<1>23. ASSUME NEW i \in Conns, Crash(i) PROVE FreshIsPrivate'
  BY <1>23 DEF Crash
<1>24. CASE UNCHANGED vars
  BY <1>24 DEF vars
<1>25. ASSUME NEW c \in Callers, NEW i \in Conns, Kill(c, i) PROVE FreshIsPrivate'
  BY <1>25 DEF Kill
<1>26. ASSUME NEW c \in Callers, ClearDroppedEffect(c) PROVE FreshIsPrivate'
  BY <1>26 DEF ClearDroppedEffect
<1>27. ASSUME NEW c \in Callers, InitDroppedEffect(c) PROVE FreshIsPrivate'
  BY <1>27 DEF InitDroppedEffect, EndCall
<1> HIDE DEF Goto, Hold, history, UnchangedMaps, UnchangedCall, TypeOK, Coherent,
             FreshIsPrivate, Answering, Holding, Spawned, Referenced,
             KilledUnreferenced
<1> QED
  BY <1>1, <1>2, <1>3, <1>4, <1>5, <1>6, <1>7, <1>8, <1>9, <1>10, <1>11, <1>12, <1>13,
     <1>14, <1>15, <1>16, <1>17, <1>18, <1>19, <1>20, <1>21, <1>22, <1>23, <1>24,
     <1>25, <1>26, <1>27, LeaveStep, PublishStep, ClearSlotsStep, ClearDroppedStep,
     ReInitStep, InitDroppedStep
     DEF Next, Call, Continue, Clear

(* What a destructor kills is in no slot; what clear() kills is swept. *)
LEMMA KilledStep ==
  ASSUME TypeOK, Coherent, FreshIsPrivate, KilledLeavesCache, [Next]_vars
  PROVE  KilledLeavesCache'
<1> USE DEF Goto, Hold, history, UnchangedMaps, UnchangedCall, TypeOK, Coherent, FreshIsPrivate,
            KilledLeavesCache, Answering, Holding, Referenced, KilledUnreferenced
<1>1. ASSUME NEW c \in Callers, NEW k \in Keys, NEW w \in BOOLEAN, GetCached(c, k, w)
      PROVE KilledLeavesCache'
  BY <1>1 DEF GetCached
<1>2. ASSUME NEW c \in Callers, NEW k \in Keys, NEW w \in BOOLEAN, GetVacant(c, k, w)
      PROVE KilledLeavesCache'
  BY <1>2 DEF GetVacant
<1>3. ASSUME NEW c \in Callers, Decide(c) PROVE KilledLeavesCache'
  BY <1>3 DEF Decide
<1>4. ASSUME NEW c \in Callers, MarkSpawning(c) PROVE KilledLeavesCache'
  BY <1>4 DEF MarkSpawning
<1>5. ASSUME NEW c \in Callers, NEW i \in Conns, SpawnOk(c, i) PROVE KilledLeavesCache'
  BY <1>5 DEF SpawnOk
<1>6. ASSUME NEW c \in Callers, Left(c) PROVE KilledLeavesCache'
  BY <1>6 DEF Left, EndCall
<1>7. ASSUME NEW c \in Callers, VersionMatches(c) PROVE KilledLeavesCache'
  BY <1>7 DEF VersionMatches
<1>8. ASSUME NEW c \in Callers, PublishEffect(c) PROVE KilledLeavesCache'
  BY <1>8 DEF PublishEffect
<1>9. ASSUME NEW c \in Callers, MarkInitializing(c) PROVE KilledLeavesCache'
  BY <1>9 DEF MarkInitializing
<1>10. ASSUME NEW c \in Callers, InitSucceeds(c) PROVE KilledLeavesCache'
  BY <1>10 DEF InitSucceeds
<1>11. ASSUME NEW c \in Callers, InitFails(c) PROVE KilledLeavesCache'
  BY <1>11 DEF InitFails
<1>12. ASSUME NEW c \in Callers, Settle(c) PROVE KilledLeavesCache'
  BY <1>12 DEF Settle
<1>13. ASSUME NEW c \in Callers, NEW k \in Keys, GetConnector(c, k) PROVE KilledLeavesCache'
  BY <1>13 DEF GetConnector
<1>14. ASSUME NEW c \in Callers, NEW k \in Keys, InitConnector(c, k)
      PROVE KilledLeavesCache'
  BY <1>14 DEF InitConnector
<1>15. ASSUME NEW c \in Callers, ReInitEffect(c) PROVE KilledLeavesCache'
  BY <1>15 DEF ReInitEffect, EndCall
<1>16. ASSUME NEW c \in Callers, NEW k \in Keys, FilterMiss(c, k) PROVE KilledLeavesCache'
  BY <1>16 DEF FilterMiss
<1>17. ASSUME NEW c \in Callers, FilterGetConnector(c) PROVE KilledLeavesCache'
  BY <1>17 DEF FilterGetConnector
<1>18. ASSUME NEW c \in Callers, FilterNoConnector(c) PROVE KilledLeavesCache'
  BY <1>18 DEF FilterNoConnector, EndCall
<1>19. ASSUME NEW c \in Callers, FilterAnswered(c) PROVE KilledLeavesCache'
  BY <1>19 DEF FilterAnswered
<1>20. ASSUME NEW c \in Callers, ClearBegin(c) PROVE KilledLeavesCache'
  BY <1>20 DEF ClearBegin, InSlots
<1>21. ASSUME NEW c \in Callers, ClearSlotsEffect(c) PROVE KilledLeavesCache'
  BY <1>21 DEF ClearSlotsEffect
<1>22. ASSUME NEW c \in Callers, ClearFilters(c) PROVE KilledLeavesCache'
  BY <1>22 DEF ClearFilters
<1>23. ASSUME NEW i \in Conns, Crash(i) PROVE KilledLeavesCache'
  BY <1>23 DEF Crash
<1>24. CASE UNCHANGED vars
  BY <1>24 DEF vars
<1>25. ASSUME NEW c \in Callers, NEW i \in Conns, Kill(c, i) PROVE KilledLeavesCache'
  BY <1>25 DEF Kill
<1>26. ASSUME NEW c \in Callers, ClearDroppedEffect(c) PROVE KilledLeavesCache'
  <2> SUFFICES ASSUME NEW k \in Keys, cache[k] # NoConn, life'[cache[k]] = "killed"
               PROVE  abandoned'[k]
    BY <1>26 DEF ClearDroppedEffect
  <2>1. life[cache[k]] = "killed"
    BY <1>26 DEF ClearDroppedEffect
  <2> QED
    BY <1>26, <2>1 DEF ClearDroppedEffect
<1>27. ASSUME NEW c \in Callers, InitDroppedEffect(c) PROVE KilledLeavesCache'
  BY <1>27 DEF InitDroppedEffect, EndCall
<1> HIDE DEF Goto, Hold, history, UnchangedMaps, UnchangedCall, TypeOK, Coherent,
             FreshIsPrivate, KilledLeavesCache, Answering, Holding,
             Referenced, KilledUnreferenced
<1> QED
  BY <1>1, <1>2, <1>3, <1>4, <1>5, <1>6, <1>7, <1>8, <1>9, <1>10, <1>11, <1>12, <1>13,
     <1>14, <1>15, <1>16, <1>17, <1>18, <1>19, <1>20, <1>21, <1>22, <1>23, <1>24,
     <1>25, <1>26, <1>27, LeaveStep, PublishStep, ClearSlotsStep, ClearDroppedStep,
     ReInitStep, InitDroppedStep
     DEF Next, Call, Continue, Clear

-----------------------------------------------------------------------------
(* A spawner that did not overlap keeps the slot to itself. *)
LEMMA AloneStep ==
  ASSUME TypeOK, Coherent, FreshIsPrivate, SpawnsAlone, [Next]_vars
  PROVE  SpawnsAlone'
<1> USE DEF Goto, Hold, history, UnchangedMaps, UnchangedCall, TypeOK, Coherent, FreshIsPrivate,
            SpawnsAlone, Getting, Spawning, Holding, Spawned
<1>1. ASSUME NEW c \in Callers, NEW k \in Keys, NEW w \in BOOLEAN, GetCached(c, k, w)
      PROVE SpawnsAlone'
  BY <1>1 DEF GetCached
<1>2. ASSUME NEW c \in Callers, NEW k \in Keys, NEW w \in BOOLEAN, GetVacant(c, k, w)
      PROVE SpawnsAlone'
  BY <1>2 DEF GetVacant
<1>3. ASSUME NEW c \in Callers, Decide(c) PROVE SpawnsAlone'
  BY <1>3 DEF Decide
<1>4. ASSUME NEW c \in Callers, MarkSpawning(c) PROVE SpawnsAlone'
  <2>1. overlapped' = [overlapped EXCEPT ![key[c]] =
                         overlapped[key[c]] \/ Overlaps(c, key[c])]
    BY <1>4 DEF MarkSpawning
  <2>2. ASSUME ~overlapped'[key[c]]
        PROVE  /\ ~overlapped[key[c]] /\ cache[key[c]] = NoConn
               /\ \A d \in Callers \ {c} : ~(pc[d] \in Getting /\ key[d] = key[c])
    BY <2>1, <2>2 DEF Overlaps
  <2>3. \A k \in Keys \ {key[c]} : overlapped'[k] = overlapped[k]
    BY <2>1
  <2>4. /\ pc[c] = "markSpawn" /\ pc' = [pc EXCEPT ![c] = "spawn"]
        /\ cache' = cache /\ key' = key /\ conn' = conn /\ fresh' = fresh
    BY <1>4 DEF MarkSpawning
  <2> QED
    BY <2>2, <2>3, <2>4, NoConnIsNone
<1>5. ASSUME NEW c \in Callers, NEW i \in Conns, SpawnOk(c, i) PROVE SpawnsAlone'
  BY <1>5 DEF SpawnOk
<1>6. ASSUME NEW c \in Callers, Left(c) PROVE SpawnsAlone'
  BY <1>6 DEF Left, EndCall
<1>7. ASSUME NEW c \in Callers, VersionMatches(c) PROVE SpawnsAlone'
  BY <1>7 DEF VersionMatches
<1>8. ASSUME NEW c \in Callers, PublishEffect(c) PROVE SpawnsAlone'
  BY <1>8 DEF PublishEffect
<1>9. ASSUME NEW c \in Callers, MarkInitializing(c) PROVE SpawnsAlone'
  BY <1>9 DEF MarkInitializing
<1>10. ASSUME NEW c \in Callers, InitSucceeds(c) PROVE SpawnsAlone'
  BY <1>10 DEF InitSucceeds
<1>11. ASSUME NEW c \in Callers, InitFails(c) PROVE SpawnsAlone'
  BY <1>11 DEF InitFails
<1>12. ASSUME NEW c \in Callers, Settle(c) PROVE SpawnsAlone'
  BY <1>12 DEF Settle
<1>13. ASSUME NEW c \in Callers, NEW k \in Keys, GetConnector(c, k) PROVE SpawnsAlone'
  BY <1>13 DEF GetConnector
<1>14. ASSUME NEW c \in Callers, NEW k \in Keys, InitConnector(c, k) PROVE SpawnsAlone'
  BY <1>14 DEF InitConnector
<1>15. ASSUME NEW c \in Callers, ReInitEffect(c) PROVE SpawnsAlone'
  BY <1>15 DEF ReInitEffect, EndCall
<1>16. ASSUME NEW c \in Callers, NEW k \in Keys, FilterMiss(c, k) PROVE SpawnsAlone'
  BY <1>16 DEF FilterMiss
<1>17. ASSUME NEW c \in Callers, FilterGetConnector(c) PROVE SpawnsAlone'
  BY <1>17 DEF FilterGetConnector
<1>18. ASSUME NEW c \in Callers, FilterNoConnector(c) PROVE SpawnsAlone'
  BY <1>18 DEF FilterNoConnector, EndCall
<1>19. ASSUME NEW c \in Callers, FilterAnswered(c) PROVE SpawnsAlone'
  BY <1>19 DEF FilterAnswered
<1>20. ASSUME NEW c \in Callers, ClearBegin(c) PROVE SpawnsAlone'
  BY <1>20 DEF ClearBegin, InSlots
<1>21. ASSUME NEW c \in Callers, ClearSlotsEffect(c) PROVE SpawnsAlone'
  BY <1>21 DEF ClearSlotsEffect
<1>22. ASSUME NEW c \in Callers, ClearFilters(c) PROVE SpawnsAlone'
  BY <1>22 DEF ClearFilters
<1>23. ASSUME NEW i \in Conns, Crash(i) PROVE SpawnsAlone'
  BY <1>23 DEF Crash
<1>24. CASE UNCHANGED vars
  BY <1>24 DEF vars
<1>25. ASSUME NEW c \in Callers, NEW i \in Conns, Kill(c, i) PROVE SpawnsAlone'
  BY <1>25 DEF Kill
<1>26. ASSUME NEW c \in Callers, ClearDroppedEffect(c) PROVE SpawnsAlone'
  BY <1>26 DEF ClearDroppedEffect
<1>27. ASSUME NEW c \in Callers, InitDroppedEffect(c) PROVE SpawnsAlone'
  BY <1>27 DEF InitDroppedEffect, EndCall
<1> HIDE DEF Goto, Hold, history, UnchangedMaps, UnchangedCall, TypeOK, Coherent,
             FreshIsPrivate, SpawnsAlone, Getting, Spawning, Holding, Spawned
<1> QED
  BY <1>1, <1>2, <1>3, <1>4, <1>5, <1>6, <1>7, <1>8, <1>9, <1>10, <1>11, <1>12, <1>13,
     <1>14, <1>15, <1>16, <1>17, <1>18, <1>19, <1>20, <1>21, <1>22, <1>23, <1>24,
     <1>25, <1>26, <1>27, LeaveStep, PublishStep, ClearSlotsStep, ClearDroppedStep,
     ReInitStep, InitDroppedStep
     DEF Next, Call, Continue, Clear

(* ... and so nobody else writes the slot's status while it spawns. *)
LEMMA StatusStep ==
  ASSUME TypeOK, Coherent, FreshIsPrivate, SpawnsAlone, SpawnStatus, InitOutcome,
         [Next]_vars
  PROVE  SpawnStatus'
<1> USE DEF Goto, Hold, history, UnchangedMaps, UnchangedCall, TypeOK, Coherent, FreshIsPrivate,
            SpawnsAlone, SpawnStatus, InitOutcome, Getting, Spawning, Holding,
            Spawned, Overlaps, Answering, Referenced, KilledUnreferenced
<1>1. ASSUME NEW c \in Callers, NEW k \in Keys, NEW w \in BOOLEAN, GetCached(c, k, w)
      PROVE SpawnStatus'
  BY <1>1 DEF GetCached
<1>2. ASSUME NEW c \in Callers, NEW k \in Keys, NEW w \in BOOLEAN, GetVacant(c, k, w)
      PROVE SpawnStatus'
  BY <1>2 DEF GetVacant
<1>3. ASSUME NEW c \in Callers, Decide(c) PROVE SpawnStatus'
  BY <1>3 DEF Decide
<1>4. ASSUME NEW c \in Callers, MarkSpawning(c) PROVE SpawnStatus'
  BY <1>4 DEF MarkSpawning
<1>5. ASSUME NEW c \in Callers, NEW i \in Conns, SpawnOk(c, i) PROVE SpawnStatus'
  BY <1>5 DEF SpawnOk
<1>6. ASSUME NEW c \in Callers, Left(c) PROVE SpawnStatus'
  BY <1>6 DEF Left, EndCall
<1>7. ASSUME NEW c \in Callers, VersionMatches(c) PROVE SpawnStatus'
  BY <1>7 DEF VersionMatches
<1>8. ASSUME NEW c \in Callers, PublishEffect(c) PROVE SpawnStatus'
  BY <1>8 DEF PublishEffect
<1>9. ASSUME NEW c \in Callers, MarkInitializing(c) PROVE SpawnStatus'
  BY <1>9 DEF MarkInitializing
<1>10. ASSUME NEW c \in Callers, InitSucceeds(c) PROVE SpawnStatus'
  BY <1>10 DEF InitSucceeds
<1>11. ASSUME NEW c \in Callers, InitFails(c) PROVE SpawnStatus'
  BY <1>11 DEF InitFails
<1>12. ASSUME NEW c \in Callers, Settle(c) PROVE SpawnStatus'
  <2> SUFFICES ASSUME NEW d \in Callers, Spawning(d)', ~overlapped'[key'[d]]
               PROVE  LET status == initStatus'[key'[d]] IN
                      /\ pc'[d] \in {"spawn", "check"} => status = "Spawning"
                      /\ pc'[d] \in {"mark", "init", "settle"} => wantInit'[d]
                      /\ pc'[d] = "publish" /\ ~wantInit'[d] => status = "Spawning"
                      /\ pc'[d] = "publish" /\ wantInit'[d] =>
                           \/ status = "Error" /\ spoilt'[conn'[d]]
                           \/ status = "Running" /\ life'[conn'[d]] # "up"
    OBVIOUS
  <2>1. CASE d = c
    BY <1>12, <2>1 DEF Settle
  <2>2. CASE d # c
    BY <1>12, <2>2 DEF Settle
  <2> QED
    BY <2>1, <2>2
<1>13. ASSUME NEW c \in Callers, NEW k \in Keys, GetConnector(c, k) PROVE SpawnStatus'
  BY <1>13 DEF GetConnector
<1>14. ASSUME NEW c \in Callers, NEW k \in Keys, InitConnector(c, k) PROVE SpawnStatus'
  BY <1>14 DEF InitConnector
<1>15. ASSUME NEW c \in Callers, ReInitEffect(c) PROVE SpawnStatus'
  BY <1>15 DEF ReInitEffect, EndCall
<1>16. ASSUME NEW c \in Callers, NEW k \in Keys, FilterMiss(c, k) PROVE SpawnStatus'
  BY <1>16 DEF FilterMiss
<1>17. ASSUME NEW c \in Callers, FilterGetConnector(c) PROVE SpawnStatus'
  BY <1>17 DEF FilterGetConnector
<1>18. ASSUME NEW c \in Callers, FilterNoConnector(c) PROVE SpawnStatus'
  BY <1>18 DEF FilterNoConnector, EndCall
<1>19. ASSUME NEW c \in Callers, FilterAnswered(c) PROVE SpawnStatus'
  BY <1>19 DEF FilterAnswered
<1>20. ASSUME NEW c \in Callers, ClearBegin(c) PROVE SpawnStatus'
  BY <1>20 DEF ClearBegin, InSlots
<1>21. ASSUME NEW c \in Callers, ClearSlotsEffect(c) PROVE SpawnStatus'
  BY <1>21 DEF ClearSlotsEffect
<1>22. ASSUME NEW c \in Callers, ClearFilters(c) PROVE SpawnStatus'
  BY <1>22 DEF ClearFilters
<1>23. ASSUME NEW i \in Conns, Crash(i) PROVE SpawnStatus'
  BY <1>23 DEF Crash
<1>24. CASE UNCHANGED vars
  BY <1>24 DEF vars
<1>25. ASSUME NEW c \in Callers, NEW i \in Conns, Kill(c, i) PROVE SpawnStatus'
  BY <1>25 DEF Kill
<1>26. ASSUME NEW c \in Callers, ClearDroppedEffect(c) PROVE SpawnStatus'
  BY <1>26 DEF ClearDroppedEffect
<1>27. ASSUME NEW c \in Callers, InitDroppedEffect(c) PROVE SpawnStatus'
  BY <1>27 DEF InitDroppedEffect, EndCall
<1> HIDE DEF Goto, Hold, history, UnchangedMaps, UnchangedCall, TypeOK, Coherent,
             FreshIsPrivate, SpawnsAlone, SpawnStatus, InitOutcome,
             Getting, Spawning, Holding, Spawned, Overlaps, Answering,
             Referenced, KilledUnreferenced
<1> QED
  BY <1>1, <1>2, <1>3, <1>4, <1>5, <1>6, <1>7, <1>8, <1>9, <1>10, <1>11, <1>12, <1>13,
     <1>14, <1>15, <1>16, <1>17, <1>18, <1>19, <1>20, <1>21, <1>22, <1>23, <1>24,
     <1>25, <1>26, <1>27, LeaveStep, PublishStep, ClearSlotsStep, ClearDroppedStep,
     ReInitStep, InitDroppedStep
     DEF Next, Call, Continue, Clear

(* A connector that was initialised does not become uninitialised. *)
LEMMA OutcomeStep ==
  ASSUME TypeOK, Coherent, FreshIsPrivate, InitOutcome, [Next]_vars
  PROVE  InitOutcome'
<1> USE DEF Goto, Hold, history, UnchangedMaps, UnchangedCall, TypeOK, Coherent, FreshIsPrivate,
            InitOutcome, Holding, Spawned, Answering, Referenced,
            KilledUnreferenced
<1>1. ASSUME NEW c \in Callers, NEW k \in Keys, NEW w \in BOOLEAN, GetCached(c, k, w)
      PROVE InitOutcome'
  BY <1>1 DEF GetCached
<1>2. ASSUME NEW c \in Callers, NEW k \in Keys, NEW w \in BOOLEAN, GetVacant(c, k, w)
      PROVE InitOutcome'
  BY <1>2 DEF GetVacant
<1>3. ASSUME NEW c \in Callers, Decide(c) PROVE InitOutcome'
  BY <1>3 DEF Decide
<1>4. ASSUME NEW c \in Callers, MarkSpawning(c) PROVE InitOutcome'
  BY <1>4 DEF MarkSpawning
<1>5. ASSUME NEW c \in Callers, NEW i \in Conns, SpawnOk(c, i) PROVE InitOutcome'
  BY <1>5 DEF SpawnOk
<1>6. ASSUME NEW c \in Callers, Left(c) PROVE InitOutcome'
  BY <1>6 DEF Left, EndCall
<1>7. ASSUME NEW c \in Callers, VersionMatches(c) PROVE InitOutcome'
  BY <1>7 DEF VersionMatches
<1>8. ASSUME NEW c \in Callers, PublishEffect(c) PROVE InitOutcome'
  BY <1>8 DEF PublishEffect
<1>9. ASSUME NEW c \in Callers, MarkInitializing(c) PROVE InitOutcome'
  BY <1>9 DEF MarkInitializing
<1>10. ASSUME NEW c \in Callers, InitSucceeds(c) PROVE InitOutcome'
  BY <1>10 DEF InitSucceeds
<1>11. ASSUME NEW c \in Callers, InitFails(c) PROVE InitOutcome'
  BY <1>11 DEF InitFails
<1>12. ASSUME NEW c \in Callers, Settle(c) PROVE InitOutcome'
  BY <1>12 DEF Settle
<1>13. ASSUME NEW c \in Callers, NEW k \in Keys, GetConnector(c, k) PROVE InitOutcome'
  BY <1>13 DEF GetConnector
<1>14. ASSUME NEW c \in Callers, NEW k \in Keys, InitConnector(c, k) PROVE InitOutcome'
  BY <1>14 DEF InitConnector
<1>15. ASSUME NEW c \in Callers, ReInitEffect(c) PROVE InitOutcome'
  BY <1>15 DEF ReInitEffect, EndCall
<1>16. ASSUME NEW c \in Callers, NEW k \in Keys, FilterMiss(c, k) PROVE InitOutcome'
  BY <1>16 DEF FilterMiss
<1>17. ASSUME NEW c \in Callers, FilterGetConnector(c) PROVE InitOutcome'
  BY <1>17 DEF FilterGetConnector
<1>18. ASSUME NEW c \in Callers, FilterNoConnector(c) PROVE InitOutcome'
  BY <1>18 DEF FilterNoConnector, EndCall
<1>19. ASSUME NEW c \in Callers, FilterAnswered(c) PROVE InitOutcome'
  BY <1>19 DEF FilterAnswered
<1>20. ASSUME NEW c \in Callers, ClearBegin(c) PROVE InitOutcome'
  BY <1>20 DEF ClearBegin, InSlots
<1>21. ASSUME NEW c \in Callers, ClearSlotsEffect(c) PROVE InitOutcome'
  BY <1>21 DEF ClearSlotsEffect
<1>22. ASSUME NEW c \in Callers, ClearFilters(c) PROVE InitOutcome'
  BY <1>22 DEF ClearFilters
<1>23. ASSUME NEW i \in Conns, Crash(i) PROVE InitOutcome'
  BY <1>23 DEF Crash
<1>24. CASE UNCHANGED vars
  BY <1>24 DEF vars
<1>25. ASSUME NEW c \in Callers, NEW i \in Conns, Kill(c, i) PROVE InitOutcome'
  BY <1>25 DEF Kill
<1>26. ASSUME NEW c \in Callers, ClearDroppedEffect(c) PROVE InitOutcome'
  BY <1>26 DEF ClearDroppedEffect
<1>27. ASSUME NEW c \in Callers, InitDroppedEffect(c) PROVE InitOutcome'
  BY <1>27 DEF InitDroppedEffect, EndCall
<1> HIDE DEF Goto, Hold, history, UnchangedMaps, UnchangedCall, TypeOK, Coherent,
             FreshIsPrivate, InitOutcome, Holding, Spawned, Answering,
             Referenced, KilledUnreferenced
<1> QED
  BY <1>1, <1>2, <1>3, <1>4, <1>5, <1>6, <1>7, <1>8, <1>9, <1>10, <1>11, <1>12, <1>13,
     <1>14, <1>15, <1>16, <1>17, <1>18, <1>19, <1>20, <1>21, <1>22, <1>23, <1>24,
     <1>25, <1>26, <1>27, LeaveStep, PublishStep, ClearSlotsStep, ClearDroppedStep,
     ReInitStep, InitDroppedStep
     DEF Next, Call, Continue, Clear

(* Running is written by Settle only, about a connector that is the slot's, *)
(* or is about to be: SpawnsAlone, SpawnStatus.                             *)
LEMMA TruthStep ==
  ASSUME TypeOK, Coherent, FreshIsPrivate, SpawnsAlone, SpawnStatus, InitOutcome,
         TruthfulStatus, [Next]_vars
  PROVE  TruthfulStatus'
<1> USE DEF Goto, Hold, history, UnchangedMaps, UnchangedCall, TypeOK, Coherent, FreshIsPrivate,
            SpawnsAlone, SpawnStatus, InitOutcome, TruthfulStatus, Getting,
            Spawning, Holding, Spawned, Overlaps, Answering, Referenced,
            KilledUnreferenced
<1>1. ASSUME NEW c \in Callers, NEW k \in Keys, NEW w \in BOOLEAN, GetCached(c, k, w)
      PROVE TruthfulStatus'
  BY <1>1 DEF GetCached
<1>2. ASSUME NEW c \in Callers, NEW k \in Keys, NEW w \in BOOLEAN, GetVacant(c, k, w)
      PROVE TruthfulStatus'
  BY <1>2 DEF GetVacant
<1>3. ASSUME NEW c \in Callers, Decide(c) PROVE TruthfulStatus'
  BY <1>3 DEF Decide
<1>4. ASSUME NEW c \in Callers, MarkSpawning(c) PROVE TruthfulStatus'
  BY <1>4 DEF MarkSpawning
<1>5. ASSUME NEW c \in Callers, NEW i \in Conns, SpawnOk(c, i) PROVE TruthfulStatus'
  BY <1>5 DEF SpawnOk
<1>6. ASSUME NEW c \in Callers, Left(c) PROVE TruthfulStatus'
  BY <1>6 DEF Left, EndCall
<1>7. ASSUME NEW c \in Callers, VersionMatches(c) PROVE TruthfulStatus'
  BY <1>7 DEF VersionMatches
<1>8. ASSUME NEW c \in Callers, PublishEffect(c) PROVE TruthfulStatus'
  BY <1>8 DEF PublishEffect
<1>9. ASSUME NEW c \in Callers, MarkInitializing(c) PROVE TruthfulStatus'
  BY <1>9 DEF MarkInitializing
<1>10. ASSUME NEW c \in Callers, InitSucceeds(c) PROVE TruthfulStatus'
  BY <1>10 DEF InitSucceeds
<1>11. ASSUME NEW c \in Callers, InitFails(c) PROVE TruthfulStatus'
  BY <1>11 DEF InitFails
<1>12. ASSUME NEW c \in Callers, Settle(c) PROVE TruthfulStatus'
  BY <1>12 DEF Settle
<1>13. ASSUME NEW c \in Callers, NEW k \in Keys, GetConnector(c, k) PROVE TruthfulStatus'
  BY <1>13 DEF GetConnector
<1>14. ASSUME NEW c \in Callers, NEW k \in Keys, InitConnector(c, k) PROVE TruthfulStatus'
  BY <1>14 DEF InitConnector
<1>15. ASSUME NEW c \in Callers, ReInitEffect(c) PROVE TruthfulStatus'
  BY <1>15 DEF ReInitEffect, EndCall
<1>16. ASSUME NEW c \in Callers, NEW k \in Keys, FilterMiss(c, k) PROVE TruthfulStatus'
  BY <1>16 DEF FilterMiss
<1>17. ASSUME NEW c \in Callers, FilterGetConnector(c) PROVE TruthfulStatus'
  BY <1>17 DEF FilterGetConnector
<1>18. ASSUME NEW c \in Callers, FilterNoConnector(c) PROVE TruthfulStatus'
  BY <1>18 DEF FilterNoConnector, EndCall
<1>19. ASSUME NEW c \in Callers, FilterAnswered(c) PROVE TruthfulStatus'
  BY <1>19 DEF FilterAnswered
<1>20. ASSUME NEW c \in Callers, ClearBegin(c) PROVE TruthfulStatus'
  BY <1>20 DEF ClearBegin, InSlots
<1>21. ASSUME NEW c \in Callers, ClearSlotsEffect(c) PROVE TruthfulStatus'
  BY <1>21 DEF ClearSlotsEffect
<1>22. ASSUME NEW c \in Callers, ClearFilters(c) PROVE TruthfulStatus'
  BY <1>22 DEF ClearFilters
<1>23. ASSUME NEW i \in Conns, Crash(i) PROVE TruthfulStatus'
  BY <1>23 DEF Crash
<1>24. CASE UNCHANGED vars
  BY <1>24 DEF vars
<1>25. ASSUME NEW c \in Callers, NEW i \in Conns, Kill(c, i) PROVE TruthfulStatus'
  BY <1>25 DEF Kill
<1>26. ASSUME NEW c \in Callers, ClearDroppedEffect(c) PROVE TruthfulStatus'
  BY <1>26 DEF ClearDroppedEffect
<1>27. ASSUME NEW c \in Callers, InitDroppedEffect(c) PROVE TruthfulStatus'
  BY <1>27 DEF InitDroppedEffect, EndCall
<1> HIDE DEF Goto, Hold, history, UnchangedMaps, UnchangedCall, TypeOK, Coherent,
             FreshIsPrivate, SpawnsAlone, SpawnStatus, InitOutcome,
             TruthfulStatus, Getting, Spawning, Holding, Spawned, Overlaps,
             Answering, Referenced, KilledUnreferenced
<1> QED
  BY <1>1, <1>2, <1>3, <1>4, <1>5, <1>6, <1>7, <1>8, <1>9, <1>10, <1>11, <1>12, <1>13,
     <1>14, <1>15, <1>16, <1>17, <1>18, <1>19, <1>20, <1>21, <1>22, <1>23, <1>24,
     <1>25, <1>26, <1>27, LeaveStep, PublishStep, ClearSlotsStep, ClearDroppedStep,
     ReInitStep, InitDroppedStep
     DEF Next, Call, Continue, Clear

(* Initializing and Error are written about the connector in the slot by    *)
(* the calls that init() it, and only they can leave it as it was.          *)
LEMMA ExplainedStep ==
  ASSUME TypeOK, Coherent, FreshIsPrivate, SpawnsAlone, SpawnStatus, InitOutcome,
         StatusExplained, [Next]_vars
  PROVE  StatusExplained'
<1> USE DEF Goto, Hold, history, UnchangedMaps, UnchangedCall, TypeOK, Coherent, FreshIsPrivate,
            SpawnsAlone, SpawnStatus, InitOutcome, StatusExplained,
            Getting, Spawning, Holding, Spawned, Overlaps, Answering, NeedInit,
            Referenced, KilledUnreferenced
<1>1. ASSUME NEW c \in Callers, NEW k \in Keys, NEW w \in BOOLEAN, GetCached(c, k, w)
      PROVE StatusExplained'
  BY <1>1 DEF GetCached
<1>2. ASSUME NEW c \in Callers, NEW k \in Keys, NEW w \in BOOLEAN, GetVacant(c, k, w)
      PROVE StatusExplained'
  BY <1>2 DEF GetVacant
<1>3. ASSUME NEW c \in Callers, Decide(c) PROVE StatusExplained'
  BY <1>3 DEF Decide
<1>4. ASSUME NEW c \in Callers, MarkSpawning(c) PROVE StatusExplained'
  BY <1>4 DEF MarkSpawning
<1>5. ASSUME NEW c \in Callers, NEW i \in Conns, SpawnOk(c, i) PROVE StatusExplained'
  BY <1>5 DEF SpawnOk
<1>6. ASSUME NEW c \in Callers, Left(c) PROVE StatusExplained'
  BY <1>6 DEF Left, EndCall
<1>7. ASSUME NEW c \in Callers, VersionMatches(c) PROVE StatusExplained'
  BY <1>7 DEF VersionMatches
<1>8. ASSUME NEW c \in Callers, PublishEffect(c) PROVE StatusExplained'
  BY <1>8 DEF PublishEffect
<1>9. ASSUME NEW c \in Callers, MarkInitializing(c) PROVE StatusExplained'
  BY <1>9 DEF MarkInitializing
<1>10. ASSUME NEW c \in Callers, InitSucceeds(c) PROVE StatusExplained'
  BY <1>10 DEF InitSucceeds
<1>11. ASSUME NEW c \in Callers, InitFails(c) PROVE StatusExplained'
  BY <1>11 DEF InitFails
<1>12. ASSUME NEW c \in Callers, Settle(c) PROVE StatusExplained'
  BY <1>12 DEF Settle
<1>13. ASSUME NEW c \in Callers, NEW k \in Keys, GetConnector(c, k) PROVE StatusExplained'
  BY <1>13 DEF GetConnector
<1>14. ASSUME NEW c \in Callers, NEW k \in Keys, InitConnector(c, k) PROVE StatusExplained'
  BY <1>14 DEF InitConnector
<1>15. ASSUME NEW c \in Callers, ReInitEffect(c) PROVE StatusExplained'
  BY <1>15 DEF ReInitEffect, EndCall
<1>16. ASSUME NEW c \in Callers, NEW k \in Keys, FilterMiss(c, k) PROVE StatusExplained'
  BY <1>16 DEF FilterMiss
<1>17. ASSUME NEW c \in Callers, FilterGetConnector(c) PROVE StatusExplained'
  BY <1>17 DEF FilterGetConnector
<1>18. ASSUME NEW c \in Callers, FilterNoConnector(c) PROVE StatusExplained'
  BY <1>18 DEF FilterNoConnector, EndCall
<1>19. ASSUME NEW c \in Callers, FilterAnswered(c) PROVE StatusExplained'
  BY <1>19 DEF FilterAnswered
<1>20. ASSUME NEW c \in Callers, ClearBegin(c) PROVE StatusExplained'
  BY <1>20 DEF ClearBegin, InSlots
<1>21. ASSUME NEW c \in Callers, ClearSlotsEffect(c) PROVE StatusExplained'
  BY <1>21 DEF ClearSlotsEffect
<1>22. ASSUME NEW c \in Callers, ClearFilters(c) PROVE StatusExplained'
  BY <1>22 DEF ClearFilters
<1>23. ASSUME NEW i \in Conns, Crash(i) PROVE StatusExplained'
  BY <1>23 DEF Crash
<1>24. CASE UNCHANGED vars
  BY <1>24 DEF vars
<1>25. ASSUME NEW c \in Callers, NEW i \in Conns, Kill(c, i) PROVE StatusExplained'
  BY <1>25 DEF Kill
<1>26. ASSUME NEW c \in Callers, ClearDroppedEffect(c) PROVE StatusExplained'
  BY <1>26 DEF ClearDroppedEffect
<1>27. ASSUME NEW c \in Callers, InitDroppedEffect(c) PROVE StatusExplained'
  BY <1>27 DEF InitDroppedEffect, EndCall
<1> HIDE DEF Goto, Hold, history, UnchangedMaps, UnchangedCall, TypeOK, Coherent,
             FreshIsPrivate, SpawnsAlone, SpawnStatus, InitOutcome,
             StatusExplained, Getting, Spawning, Holding,
             Spawned, Overlaps, Answering, NeedInit, Referenced,
             KilledUnreferenced
<1> QED
  BY <1>1, <1>2, <1>3, <1>4, <1>5, <1>6, <1>7, <1>8, <1>9, <1>10, <1>11, <1>12, <1>13,
     <1>14, <1>15, <1>16, <1>17, <1>18, <1>19, <1>20, <1>21, <1>22, <1>23, <1>24,
     <1>25, <1>26, <1>27, LeaveStep, PublishStep, ClearSlotsStep, ClearDroppedStep,
     ReInitStep, InitDroppedStep
     DEF Next, Call, Continue, Clear

(* A call is held at once only if the status is Running or Initializing. *)
LEMMA DemandStep ==
  ASSUME TypeOK, Coherent, FreshIsPrivate, SpawnsAlone, SpawnStatus, InitOutcome,
         TruthfulStatus, StatusExplained, InitOnDemand, [Next]_vars
  PROVE  InitOnDemand'
<1> USE DEF Goto, Hold, history, UnchangedMaps, UnchangedCall, TypeOK, Coherent, FreshIsPrivate,
            SpawnsAlone, SpawnStatus, InitOutcome, TruthfulStatus, StatusExplained, InitOnDemand,
            Getting, Spawning, Holding, Spawned, Overlaps, Answering, NeedInit,
            Referenced, KilledUnreferenced
<1>1. ASSUME NEW c \in Callers, NEW k \in Keys, NEW w \in BOOLEAN, GetCached(c, k, w)
      PROVE InitOnDemand'
  BY <1>1 DEF GetCached
<1>2. ASSUME NEW c \in Callers, NEW k \in Keys, NEW w \in BOOLEAN, GetVacant(c, k, w)
      PROVE InitOnDemand'
  BY <1>2 DEF GetVacant
<1>3. ASSUME NEW c \in Callers, Decide(c) PROVE InitOnDemand'
  BY <1>3 DEF Decide
<1>4. ASSUME NEW c \in Callers, MarkSpawning(c) PROVE InitOnDemand'
  BY <1>4 DEF MarkSpawning
<1>5. ASSUME NEW c \in Callers, NEW i \in Conns, SpawnOk(c, i) PROVE InitOnDemand'
  BY <1>5 DEF SpawnOk
<1>6. ASSUME NEW c \in Callers, Left(c) PROVE InitOnDemand'
  BY <1>6 DEF Left, EndCall
<1>7. ASSUME NEW c \in Callers, VersionMatches(c) PROVE InitOnDemand'
  BY <1>7 DEF VersionMatches
<1>8. ASSUME NEW c \in Callers, PublishEffect(c) PROVE InitOnDemand'
  BY <1>8 DEF PublishEffect
<1>9. ASSUME NEW c \in Callers, MarkInitializing(c) PROVE InitOnDemand'
  BY <1>9 DEF MarkInitializing
<1>10. ASSUME NEW c \in Callers, InitSucceeds(c) PROVE InitOnDemand'
  BY <1>10 DEF InitSucceeds
<1>11. ASSUME NEW c \in Callers, InitFails(c) PROVE InitOnDemand'
  BY <1>11 DEF InitFails
<1>12. ASSUME NEW c \in Callers, Settle(c) PROVE InitOnDemand'
  BY <1>12 DEF Settle
<1>13. ASSUME NEW c \in Callers, NEW k \in Keys, GetConnector(c, k) PROVE InitOnDemand'
  BY <1>13 DEF GetConnector
<1>14. ASSUME NEW c \in Callers, NEW k \in Keys, InitConnector(c, k) PROVE InitOnDemand'
  BY <1>14 DEF InitConnector
<1>15. ASSUME NEW c \in Callers, ReInitEffect(c) PROVE InitOnDemand'
  BY <1>15 DEF ReInitEffect, EndCall
<1>16. ASSUME NEW c \in Callers, NEW k \in Keys, FilterMiss(c, k) PROVE InitOnDemand'
  BY <1>16 DEF FilterMiss
<1>17. ASSUME NEW c \in Callers, FilterGetConnector(c) PROVE InitOnDemand'
  BY <1>17 DEF FilterGetConnector
<1>18. ASSUME NEW c \in Callers, FilterNoConnector(c) PROVE InitOnDemand'
  BY <1>18 DEF FilterNoConnector, EndCall
<1>19. ASSUME NEW c \in Callers, FilterAnswered(c) PROVE InitOnDemand'
  BY <1>19 DEF FilterAnswered
<1>20. ASSUME NEW c \in Callers, ClearBegin(c) PROVE InitOnDemand'
  BY <1>20 DEF ClearBegin, InSlots
<1>21. ASSUME NEW c \in Callers, ClearSlotsEffect(c) PROVE InitOnDemand'
  BY <1>21 DEF ClearSlotsEffect
<1>22. ASSUME NEW c \in Callers, ClearFilters(c) PROVE InitOnDemand'
  BY <1>22 DEF ClearFilters
<1>23. ASSUME NEW i \in Conns, Crash(i) PROVE InitOnDemand'
  BY <1>23 DEF Crash
<1>24. CASE UNCHANGED vars
  BY <1>24 DEF vars
<1>25. ASSUME NEW c \in Callers, NEW i \in Conns, Kill(c, i) PROVE InitOnDemand'
  BY <1>25 DEF Kill
<1>26. ASSUME NEW c \in Callers, ClearDroppedEffect(c) PROVE InitOnDemand'
  BY <1>26 DEF ClearDroppedEffect
<1>27. ASSUME NEW c \in Callers, InitDroppedEffect(c) PROVE InitOnDemand'
  <2> SUFFICES ASSUME NEW d \in Callers, ~overlapped[key'[d]], pc'[d] = "held",
                      wantInit'[d], cache[key'[d]] = conn'[d], life'[conn'[d]] = "up"
               PROVE  \/ spoilt'[conn'[d]]
                      \/ \E e \in Callers : pc'[e] = "init" /\ conn'[e] = conn'[d]
    BY <1>27 DEF InitDroppedEffect
  <2>1. /\ d # c /\ pc[d] = "held" /\ key'[d] = key[d] /\ conn'[d] = conn[d]
        /\ wantInit[d] /\ conn[d] \in Conns
    BY <1>27 DEF InitDroppedEffect, EndCall
  <2>2. life[conn[d]] = "up"
    BY <1>27, <2>1 DEF InitDroppedEffect
  <2>3. PICK e \in Callers : spoilt[conn[d]] \/ (pc[e] = "init" /\ conn[e] = conn[d])
    BY <2>1, <2>2
  <2>4. CASE spoilt[conn[d]]
    BY <1>27, <2>1, <2>4 DEF InitDroppedEffect
  <2>5. CASE pc[e] = "init" /\ conn[e] = conn[d] /\ e = c
    BY <1>27, <2>1, <2>5 DEF InitDroppedEffect
  <2>6. CASE pc[e] = "init" /\ conn[e] = conn[d] /\ e # c
    BY <1>27, <2>1, <2>6 DEF InitDroppedEffect, EndCall
  <2> QED
    BY <2>3, <2>4, <2>5, <2>6
<1> HIDE DEF Goto, Hold, history, UnchangedMaps, UnchangedCall, TypeOK, Coherent,
             FreshIsPrivate, SpawnsAlone, SpawnStatus, InitOutcome,
             TruthfulStatus, StatusExplained, InitOnDemand, Getting, Spawning, Holding,
             Spawned, Overlaps, Answering, NeedInit, Referenced,
             KilledUnreferenced
<1> QED
  BY <1>1, <1>2, <1>3, <1>4, <1>5, <1>6, <1>7, <1>8, <1>9, <1>10, <1>11, <1>12, <1>13,
     <1>14, <1>15, <1>16, <1>17, <1>18, <1>19, <1>20, <1>21, <1>22, <1>23, <1>24,
     <1>25, <1>26, <1>27, LeaveStep, PublishStep, ClearSlotsStep, ClearDroppedStep,
     ReInitStep, InitDroppedStep
     DEF Next, Call, Continue, Clear

-----------------------------------------------------------------------------
(* The inductive invariant. *)
LEMMA Inductive == IInv /\ [Next]_vars => IInv'
  BY TypeStep, CoherentStep, LiveStep, FreshStep, KilledStep, AloneStep, StatusStep,
     OutcomeStep, TruthStep, ExplainedStep, DemandStep DEF IInv

LEMMA InitIInv == Init => IInv
<1> SUFFICES ASSUME Init PROVE IInv
  OBVIOUS
<1>1. TypeOK
  BY TypeInit
<1>2. Coherent /\ LiveIsReachable /\ FreshIsPrivate /\ KilledLeavesCache
  BY DEF Init, Coherent, LiveIsReachable, FreshIsPrivate, KilledLeavesCache, Answering
<1>3. /\ SpawnsAlone /\ SpawnStatus /\ InitOutcome /\ StatusExplained
      /\ TruthfulStatus /\ InitOnDemand
  BY DEF Init, SpawnsAlone, SpawnStatus, Spawning, Getting, InitOutcome, StatusExplained,
         TruthfulStatus, InitOnDemand
<1> QED
  BY <1>1, <1>2, <1>3 DEF IInv

LEMMA Invariant == Spec => []IInv
  BY InitIInv, Inductive, PTL DEF Spec

(* For any slots, callers and number of connectors: a running connector     *)
(* process is cached in its own slot or held by a call about that slot, so  *)
(* the process a lost spawn race started dies with its caller.              *)
THEOREM NoLeak == Spec => []LiveIsReachable
  BY Invariant, PTL DEF IInv

(* A connector killed by clear() stays in a slot only until that clear()    *)
(* empties the slots, so no later lookup returns it.                        *)
THEOREM NoKilledHandout == Spec => []KilledLeavesCache
  BY Invariant, PTL DEF IInv

(* On a slot whose spawns never overlapped, Running is never recorded over  *)
(* a cached connector whose init() has not succeeded.                       *)
THEOREM StatusIsTruthful == Spec => []TruthfulStatus
  BY Invariant, PTL DEF IInv

(* On such a slot, a caller that asked for initialisation finds the         *)
(* connector uninitialised only after a failed init() or during one.        *)
THEOREM InitialisedOnDemand == Spec => []InitOnDemand
  BY Invariant, PTL DEF IInv

-----------------------------------------------------------------------------
(* The cache as connectors that slots and calls share.                     *)

(* To its holders a process is the same initialised or not.                *)
StateOf(l) == CASE l = "none" -> "unborn" [] l \in Answering -> "runs" [] OTHER -> l
StateNow == [i \in Conns |-> StateOf(life[i])]
Sweeps == {c \in Callers : pc[c] = "kill"}

Shared == INSTANCE SharedConnectors WITH
  slot <- cache, hand <- conn, home <- keyOf, state <- StateNow, sweeps <- Sweeps,
  doomed <- doomed

LEMMA SameState ==
  ASSUME \A i \in Conns : StateOf(life'[i]) = StateOf(life[i])
  PROVE  StateNow' = StateNow
<1>1. StateNow' = [i \in Conns |-> StateOf(life'[i])]
  BY DEF StateNow
<1> QED
  BY <1>1 DEF StateNow

LEMMA SameSweeps ==
  ASSUME TypeOK, NEW c \in Callers, NEW at, Goto(c, at), pc[c] # "kill", at # "kill"
  PROVE  Sweeps' = Sweeps
BY DEF TypeOK, Goto, Sweeps

(* The destructors reap what the service reaps.                            *)
LEMMA DroppedReaps ==
  ASSUME NEW l \in [Conns -> Life], NEW ca, NEW co, NEW do, life' = Dropped(l, ca, co, do),
         \A i \in Conns : StateOf(l[i]) = StateOf(life[i])
  PROVE  StateNow' = Shared!Reaped(StateNow, ca, co, do)
<1> DEFINE reaped == Shared!Reaped(StateNow, ca, co, do)
<1>1. ASSUME NEW i \in Conns PROVE StateOf(life'[i]) = reaped[i]
  <2>1. Shared!Referenced(i, ca, co, do) <=> Referenced(i, ca, co, do)
    BY DEF Shared!Referenced, Referenced
  <2>2. reaped[i] = IF StateOf(life[i]) \in {"runs", "crashed"} /\ ~Referenced(i, ca, co, do)
                    THEN "killed" ELSE StateOf(life[i])
    BY <2>1 DEF Shared!Reaped, StateNow
  <2>3. life'[i] = IF l[i] \in {"up", "ready", "crashed"} /\ ~Referenced(i, ca, co, do)
                   THEN "killed" ELSE l[i]
    BY DEF Dropped
  <2>4. /\ l[i] \in {"up", "ready", "crashed"} <=> StateOf(l[i]) \in {"runs", "crashed"}
        /\ StateOf("killed") = "killed"
    BY DEF StateOf, Life, Answering
  <2> QED
    BY <2>2, <2>3, <2>4
<1>2. StateNow' = [i \in Conns |-> StateOf(life'[i])]
  BY DEF StateNow
<1>3. reaped = [i \in Conns |-> reaped[i]]
  BY DEF Shared!Reaped
<1> HIDE DEF reaped
<1>4. StateNow' = reaped
  BY <1>1, <1>2, <1>3
<1> QED
  BY <1>4 DEF reaped

LEMMA Reaps ==
  ASSUME TypeOK, NEW ca, NEW co, NEW do, life' = Dropped(life, ca, co, do)
  PROVE  StateNow' = Shared!Reaped(StateNow, ca, co, do)
BY DroppedReaps DEF TypeOK

(* Steps the service does not see.                                         *)
LEMMA Unseen ==
  ASSUME TypeOK, NEW c \in Callers,
         \/ \E k \in Keys, w \in BOOLEAN : GetVacant(c, k, w)
         \/ \E k \in Keys : FilterMiss(c, k)
         \/ Decide(c) \/ MarkSpawning(c) \/ VersionMatches(c) \/ MarkInitializing(c)
         \/ InitSucceeds(c) \/ InitFails(c) \/ Settle(c)
         \/ FilterNoConnector(c) \/ FilterAnswered(c) \/ ClearFilters(c)
  PROVE  UNCHANGED Shared!vars
<1> USE DEF UnchangedMaps, UnchangedCall
<1>1. cache' = cache /\ keyOf' = keyOf /\ doomed' = doomed
  BY DEF GetVacant, FilterMiss, Decide, MarkSpawning, VersionMatches, MarkInitializing,
         InitSucceeds, InitFails, Settle, FilterNoConnector, FilterAnswered, ClearFilters
<1>2. conn' = conn
  <2>1. CASE FilterNoConnector(c)
    BY <2>1 DEF FilterNoConnector, EndCall, Hold, TypeOK, Holding
  <2> QED
    BY <2>1 DEF GetVacant, FilterMiss, Decide, MarkSpawning, VersionMatches, MarkInitializing,
         InitSucceeds, InitFails, Settle, FilterAnswered, ClearFilters
<1>3. StateNow' = StateNow
  <2>1. CASE InitSucceeds(c)
    <3>1. \A i \in Conns : life'[i] = life[i] \/ (life[i] \in Answering /\ life'[i] \in Answering)
      BY <2>1 DEF InitSucceeds, TypeOK, Answering
    <3>2. \A i \in Conns : StateOf(life'[i]) = StateOf(life[i])
      BY <3>1 DEF StateOf, Answering
    <3> QED
      BY <3>2, SameState
  <2>2. CASE life' = life
    BY <2>2, SameState
  <2> QED
    BY <2>1, <2>2 DEF GetVacant, FilterMiss, Decide, MarkSpawning, VersionMatches,
         MarkInitializing, InitFails, Settle, FilterNoConnector, FilterAnswered, ClearFilters
<1>4. Sweeps' = Sweeps
  <2>1. \E at \in PC \ {"kill"} : Goto(c, at) /\ pc[c] # "kill"
    BY DEF GetVacant, FilterMiss, Decide, MarkSpawning, VersionMatches, MarkInitializing,
           InitSucceeds, InitFails, Settle, FilterNoConnector, FilterAnswered, ClearFilters,
           EndCall, PC
  <2> QED
    BY <2>1, SameSweeps
<1> QED
  BY <1>1, <1>2, <1>3, <1>4 DEF Shared!vars

(* A lookup that finds a connector.                                        *)
LEMMA Takes ==
  ASSUME TypeOK, NEW c \in Callers,
         \/ \E k \in Keys, w \in BOOLEAN : GetCached(c, k, w)
         \/ \E k \in Keys : GetConnector(c, k) \/ InitConnector(c, k)
         \/ FilterGetConnector(c)
  PROVE  Shared!Next
<1> USE DEF UnchangedMaps, UnchangedCall
<1>1. PICK k \in Keys : cache[k] # NoConn /\ conn' = [conn EXCEPT ![c] = cache[k]]
  BY DEF GetCached, GetConnector, InitConnector, FilterGetConnector, Hold, TypeOK
<1>2. /\ conn[c] = NoConn /\ cache' = cache /\ keyOf' = keyOf /\ life' = life
      /\ doomed' = doomed
  BY DEF GetCached, GetConnector, InitConnector, FilterGetConnector, TypeOK, Holding
<1>3. \E at \in PC \ {"kill"} : Goto(c, at) /\ pc[c] # "kill"
  BY DEF GetCached, GetConnector, InitConnector, FilterGetConnector, PC
<1>4. Sweeps' = Sweeps /\ StateNow' = StateNow
  BY <1>2, <1>3, SameSweeps, SameState
<1>5. Shared!Take(c, k)
  BY <1>1, <1>2, <1>4 DEF Shared!Take
<1> QED
  BY <1>5 DEF Shared!Next

LEMMA Makes ==
  ASSUME TypeOK, NEW c \in Callers, NEW i \in Conns, SpawnOk(c, i)
  PROVE  Shared!Next
<1> USE DEF UnchangedMaps, UnchangedCall
<1>1. /\ conn[c] = NoConn /\ key[c] \in Keys /\ cache' = cache /\ doomed' = doomed
      /\ conn' = [conn EXCEPT ![c] = i] /\ keyOf' = [keyOf EXCEPT ![i] = key[c]]
      /\ life[i] = "none" /\ life' = [life EXCEPT ![i] = "up"]
  BY DEF SpawnOk, Hold, TypeOK, Holding
<1>2. StateNow[i] = "unborn" /\ StateNow' = [StateNow EXCEPT ![i] = "runs"]
  <2>1. StateOf("up") = "runs" /\ StateOf("none") = "unborn"
    BY DEF StateOf, Answering
  <2>2. StateNow' = [j \in Conns |-> StateOf(life'[j])]
    BY DEF StateNow
  <2>3. \A j \in Conns : StateOf(life'[j]) = IF j = i THEN "runs" ELSE StateOf(life[j])
    BY <1>1, <2>1 DEF TypeOK
  <2> QED
    BY <1>1, <2>1, <2>2, <2>3 DEF StateNow
<1>3. Sweeps' = Sweeps
  BY SameSweeps DEF SpawnOk
<1>4. Shared!Make(c, key[c], i)
  BY <1>1, <1>2, <1>3 DEF Shared!Make
<1> QED
  BY <1>1, <1>4 DEF Shared!Next

LEMMA Puts ==
  ASSUME IInv, NEW c \in Callers, Publish(c)
  PROVE  Shared!Next
<1> USE DEF UnchangedMaps, UnchangedCall
<1>0. TypeOK /\ Coherent /\ FreshIsPrivate
  BY DEF IInv
<1>1. /\ pc[c] = "publish" /\ conn[c] # NoConn /\ conn[c] \in Conns
      /\ keyOf[conn[c]] = key[c] /\ life[conn[c]] \notin {"none", "killed"}
      /\ \A k \in Keys : cache[k] # conn[c]
      /\ \A d \in Callers \ {c} : conn[d] # conn[c]
  BY <1>0 DEF TypeOK, Coherent, FreshIsPrivate, Publish, Holding
<1>2. /\ cache' = [cache EXCEPT ![keyOf[conn[c]]] = conn[c]]
      /\ life' = Dropped(life, cache', conn, doomed) /\ conn' = conn /\ keyOf' = keyOf
      /\ doomed' = doomed
  BY <1>1 DEF Publish
<1>3. StateNow' = Shared!Reaped(StateNow, cache', conn, doomed)
  BY <1>0, <1>2, Reaps
<1>4. StateNow[conn[c]] \in {"runs", "crashed"}
  BY <1>0, <1>1 DEF StateNow, StateOf, TypeOK, Life, Answering
<1>5. Sweeps' = Sweeps
  BY <1>0, SameSweeps DEF Publish
<1>6. Shared!Put(c)
  BY <1>1, <1>2, <1>3, <1>4, <1>5 DEF Shared!Put
<1> QED
  BY <1>6 DEF Shared!Next

LEMMA LetsGo ==
  ASSUME TypeOK, NEW c \in Callers,
         \/ SpawnFailed(c) \/ VersionMismatch(c) \/ Release(c)
         \/ FilterFailed(c) \/ FilterStore(c)
         \/ \E ok \in BOOLEAN : ReInitReturns(c, ok) \/ InitDropped(c, ok)
  PROVE  Shared!Next
<1> USE DEF UnchangedMaps, UnchangedCall
<1>1. /\ conn' = [conn EXCEPT ![c] = NoConn] /\ cache' = cache /\ keyOf' = keyOf
      /\ Goto(c, "idle") /\ pc[c] # "kill" /\ doomed' = doomed
  BY DEF SpawnFailed, VersionMismatch, Release, FilterFailed, FilterStore, ReInitReturns,
         InitDropped, Leave, EndCall, Hold
<1>2. StateNow' = Shared!Reaped(StateNow, cache, conn', doomed)
  <2>1. CASE \E ok \in BOOLEAN : ReInitReturns(c, ok) \/ InitDropped(c, ok)
    <3>1. PICK ok \in BOOLEAN : ReInitReturns(c, ok) \/ InitDropped(c, ok)
      BY <2>1
    <3> DEFINE after == IF ok THEN [life EXCEPT ![conn[c]] = "ready"] ELSE life
    <3>2. /\ after \in [Conns -> Life]
          /\ \A i \in Conns : after[i] = life[i] \/ (life[i] \in Answering /\ after[i] = "ready")
      BY <3>1 DEF ReInitReturns, InitDropped, TypeOK, Life
    <3>3. life' = Dropped(after, cache, conn', doomed)
      BY <1>1, <3>1 DEF ReInitReturns, InitDropped
    <3> HIDE DEF after
    <3>4. \A i \in Conns : StateOf(after[i]) = StateOf(life[i])
      BY <3>2 DEF StateOf, Answering
    <3> QED
      BY <3>2, <3>3, <3>4, DroppedReaps
  <2>2. CASE Leave(c)
    <3>1. life' = Dropped(life, cache, conn', doomed)
      BY <1>1, <2>2 DEF Leave
    <3> QED
      BY <3>1, Reaps
  <2> QED
    BY <2>1, <2>2 DEF SpawnFailed, VersionMismatch, Release, FilterFailed, FilterStore
<1>3. Sweeps' = Sweeps
  BY <1>1, SameSweeps
<1>4. Shared!LetGo(c)
  BY <1>1, <1>2, <1>3 DEF Shared!LetGo
<1> QED
  BY <1>4 DEF Shared!Next

LEMMA Sweeping ==
  ASSUME TypeOK, NEW c \in Callers,
         \/ ClearBegin(c) \/ ClearDropped(c) \/ ClearSlots(c)
         \/ \E i \in Conns : Kill(c, i)
  PROVE  Shared!Next
<1> USE DEF UnchangedMaps, UnchangedCall
<1>1. CASE ClearBegin(c)
  <2>1. /\ c \notin Sweeps /\ Sweeps' = Sweeps \cup {c}
        /\ doomed' = [doomed EXCEPT ![c] = {cache[k] : k \in Keys} \ {NoConn}]
        /\ cache' = cache /\ conn' = conn /\ keyOf' = keyOf
    BY <1>1 DEF ClearBegin, InSlots, Sweeps, Goto, TypeOK
  <2>2. StateNow' = StateNow
    BY <1>1, SameState DEF ClearBegin
  <2>3. Shared!Sweep(c)
    BY <2>1, <2>2 DEF Shared!Sweep
  <2> QED
    BY <2>3 DEF Shared!Next
<1>2. CASE ClearSlots(c)
  <2>1. /\ c \in Sweeps /\ Sweeps' = Sweeps \ {c} /\ doomed[c] = {} /\ doomed' = doomed
        /\ cache' = [k \in Keys |-> NoConn] /\ conn' = conn /\ keyOf' = keyOf
    BY <1>2 DEF ClearSlots, Sweeps, Goto, TypeOK
  <2>2. StateNow' = Shared!Reaped(StateNow, cache', conn, doomed)
    BY <1>2, Reaps DEF ClearSlots
  <2>3. Shared!Empty(c)
    BY <2>1, <2>2 DEF Shared!Empty
  <2> QED
    BY <2>3 DEF Shared!Next
<1>3. CASE ClearDropped(c)
  <2>1. /\ c \in Sweeps /\ Sweeps' = Sweeps \ {c}
        /\ doomed' = [doomed EXCEPT ![c] = {}]
        /\ cache' = cache /\ conn' = conn /\ keyOf' = keyOf
    BY <1>3 DEF ClearDropped, Sweeps, Goto, TypeOK
  <2>2. life' = Dropped(life, cache, conn, doomed')
    BY <1>3, <2>1 DEF ClearDropped
  <2>3. StateNow' = Shared!Reaped(StateNow, cache, conn, doomed')
    BY <2>2, Reaps
  <2>4. Shared!GiveUp(c)
    BY <2>1, <2>3 DEF Shared!GiveUp
  <2> QED
    BY <2>4 DEF Shared!Next
<1>4. ASSUME NEW i \in Conns, Kill(c, i) PROVE Shared!Next
  <2>1. /\ i \in doomed[c] /\ doomed' = [doomed EXCEPT ![c] = doomed[c] \ {i}]
        /\ life' = [life EXCEPT ![i] = "killed"]
        /\ cache' = cache /\ conn' = conn /\ keyOf' = keyOf /\ Sweeps' = Sweeps
    BY <1>4 DEF Kill, Sweeps
  <2>2. StateNow' = [StateNow EXCEPT ![i] = "killed"]
    <3>1. StateOf("killed") = "killed"
      BY DEF StateOf, Answering
    <3>2. StateNow' = [j \in Conns |-> StateOf(life'[j])]
      BY DEF StateNow
    <3>3. \A j \in Conns : StateOf(life'[j]) = IF j = i THEN "killed" ELSE StateOf(life[j])
      BY <2>1, <3>1 DEF TypeOK
    <3> QED
      BY <3>1, <3>2, <3>3 DEF StateNow
  <2>3. Shared!Kill(c, i)
    BY <2>1, <2>2 DEF Shared!Kill
  <2> QED
    BY <2>3 DEF Shared!Next
<1> QED
  BY <1>1, <1>2, <1>3, <1>4

LEMMA Dies ==
  ASSUME TypeOK, NEW i \in Conns, Crash(i)
  PROVE  Shared!Next
<1>1. /\ life[i] \in Answering /\ life' = [life EXCEPT ![i] = "crashed"]
      /\ cache' = cache /\ conn' = conn /\ keyOf' = keyOf /\ Sweeps' = Sweeps
      /\ doomed' = doomed
  BY DEF Crash, Sweeps
<1>2. StateNow[i] = "runs" /\ StateNow' = [StateNow EXCEPT ![i] = "crashed"]
  <2>1. StateOf(life[i]) = "runs" /\ StateOf("crashed") = "crashed"
    BY <1>1 DEF StateOf, Answering
  <2>2. StateNow' = [j \in Conns |-> StateOf(life'[j])]
    BY DEF StateNow
  <2>3. \A j \in Conns : StateOf(life'[j]) = IF j = i THEN "crashed" ELSE StateOf(life[j])
    BY <1>1, <2>1 DEF TypeOK
  <2> QED
    BY <2>1, <2>2, <2>3 DEF StateNow
<1>3. Shared!Crash(i)
  BY <1>1, <1>2 DEF Shared!Crash
<1> QED
  BY <1>3 DEF Shared!Next

(* Whatever the interleaving of lookups, spawns, initialisations, answers   *)
(* and clear(), the cache shares connectors as SharedConnectors says: what  *)
(* is put into a slot is new, of that slot, not killed and in no other      *)
(* hands (get_or_spawn_connector), what is handed out is what the slot has, *)
(* and a process dies with its last reference.                              *)
THEOREM CacheSharesConnectors == Spec => Shared!Spec
<1>1. Init => Shared!Init
  <2> SUFFICES ASSUME Init PROVE Shared!Init
    OBVIOUS
  <2>1. StateOf("none") = "unborn"
    BY DEF StateOf, Answering
  <2>2. StateNow = [i \in Conns |-> "unborn"]
    BY <2>1 DEF Init, StateNow
  <2>3. Sweeps = {} /\ keyOf \in [Conns -> Keys]
    BY AnyKeyIsKey DEF Init, Sweeps
  <2> QED
    BY <2>2, <2>3 DEF Init, Shared!Init
<1>2. IInv /\ [Next]_vars => [Shared!Next]_(Shared!vars)
  <2> SUFFICES ASSUME IInv, [Next]_vars PROVE Shared!Next \/ UNCHANGED Shared!vars
    OBVIOUS
  <2>0. TypeOK
    BY DEF IInv
  <2>1. CASE UNCHANGED vars
    BY <2>1 DEF vars, Shared!vars, StateNow, Sweeps
  <2>2. ASSUME NEW c \in Callers, Call(c) PROVE Shared!Next \/ UNCHANGED Shared!vars
    BY <2>0, <2>2, Unseen, Takes DEF Call
  <2>3. ASSUME NEW c \in Callers, Continue(c) PROVE Shared!Next \/ UNCHANGED Shared!vars
    BY <2>0, <2>3, Unseen, Takes, Makes, Puts, LetsGo DEF Continue
  <2>4. ASSUME NEW c \in Callers, Clear(c) PROVE Shared!Next \/ UNCHANGED Shared!vars
    BY <2>0, <2>4, Unseen, Sweeping DEF Clear
  <2> QED
    BY <2>0, <2>1, <2>2, <2>3, <2>4, Dies DEF Next
<1> QED
  BY <1>1, <1>2, Invariant, PTL DEF Spec, Shared!Spec

=============================================================================
