---------------------- MODULE ReleaseReconcilerProofs ----------------------
(* Theorems about ReleaseReconciler, for any Releases, roles, specs and bounds. *)
EXTENDS ReleaseReconciler, TLAPS

LEMMA OutcomesOfType == \A s \in StageNames : OutcomesOf(s) \subseteq Outcomes
BY DEF OutcomesOf, Outcomes

LEMMA StagesType == Len(Stages) \in Nat /\ DOMAIN Stages = 1 .. Len(Stages)
                    /\ \A i \in DOMAIN Stages : Stages[i] \in StageNames
BY StagesAssumption

LEMMA NoStatusType == NoStatus \in Statuses
BY DEF NoStatus, Statuses, Phases

LEMMA TypeInit == Init => TypeOK
<1> SUFFICES ASSUME Init PROVE TypeOK
  OBVIOUS
<1>1. fresh \in BOOLEAN /\ requeue \in BOOLEAN
  BY Zenon DEF Init
<1>2. at \in 0 .. Len(Stages) + 1
  BY StagesType DEF Init
<1>3. world \in [Releases -> StageOutcomes]
  <2>1. \A s \in StageNames : "ok" \in OutcomesOf(s)
    BY DEF OutcomesOf, Outcomes
  <2>2. QED BY <2>1 DEF Init, StageOutcomes, Outcomes
<1>4. QED BY <1>1, <1>2, <1>3, NoStatusType, BoundsAssumption DEF Init, TypeOK

\* What the operations on objects return.
LEMMA CollectedType == \A o \in Objects : Collected(o) \in Objects \cup {Absent}
BY DEF Collected

LEMMA SpendType ==
  ASSUME TypeOK, NEW kind \in Kinds, Spend(kind)
  PROVE  budget' \in [Kinds -> Nat]
BY DEF TypeOK, Spend

LEMMA RefusedType == TypeOK /\ Refused => budget' \in [Kinds -> Nat]
BY SpendType DEF TypeOK, Refused, Kinds

LEMMA EndPassType ==
  ASSUME TypeOK, pc # "idle", NEW a \in BOOLEAN, EndPass(a)
  PROVE  /\ pc' = "idle" /\ rel' = Absent /\ fresh' \in BOOLEAN /\ requeue' \in BOOLEAN
         /\ at' \in 0 .. Len(Stages) + 1 /\ result' \in Statuses /\ delayed' \subseteq Releases
<1>1. fresh' \in BOOLEAN /\ requeue' \in BOOLEAN
  BY Zenon DEF EndPass
<1>2. at' \in 0 .. Len(Stages) + 1
  BY StagesType DEF EndPass
<1>3. QED BY <1>1, <1>2, NoStatusType DEF TypeOK, EndPass

LEMMA TypeStep == TypeOK /\ [Next]_vars => TypeOK'
<1> SUFFICES ASSUME TypeOK, [Next]_vars PROVE TypeOK'
  OBVIOUS
<1> USE StagesType DEF TypeOK
<1>1. ASSUME NEW r \in Releases, NEW o \in Objects \cup {Absent}, UserWrites(r, o) PROVE TypeOK'
  BY <1>1, SpendType DEF UserWrites, Store, memory, Kinds
<1>2. ASSUME NEW r \in Releases, NEW s \in Specs, CreateRelease(r, s) PROVE TypeOK'
  <2> DEFINE o == [spec |-> s, deleting |-> FALSE, finalizer |-> FALSE, held |-> FALSE, status |-> NoStatus]
  <2>1. o \in Objects
    BY NoStatusType DEF Objects
  <2>2. QED BY <1>1, <1>2, <2>1 DEF CreateRelease
<1>3. ASSUME NEW r \in Releases, NEW s \in Specs, EditRelease(r, s) PROVE TypeOK'
  <2>1. [api[r] EXCEPT !.spec = s] \in Objects
    BY <1>3 DEF EditRelease, Objects
  <2>2. QED BY <1>1, <1>3, <2>1 DEF EditRelease
<1>4. ASSUME NEW r \in Releases, NEW f \in BOOLEAN, DeleteRelease(r, f) PROVE TypeOK'
  <2>1. [api[r] EXCEPT !.deleting = TRUE, !.held = f] \in Objects
    BY <1>4 DEF DeleteRelease, Objects
  <2>2. QED BY <1>1, <1>4, <2>1, CollectedType DEF DeleteRelease
<1>5. ASSUME NEW r \in Releases, GarbageCollect(r) PROVE TypeOK'
  <2>1. [api[r] EXCEPT !.held = FALSE] \in Objects
    BY <1>5 DEF GarbageCollect, Objects
  <2>2. QED BY <1>5, <2>1, CollectedType DEF GarbageCollect, Store, memory
<1>6. ASSUME NEW r \in Releases, Deliver(r) PROVE TypeOK'
  BY <1>6 DEF Deliver, memory, workerVars
<1>7. ASSUME NEW r \in Releases, TimerExpires(r) PROVE TypeOK'
  BY <1>7 DEF TimerExpires, memory, workerVars, apiVars
<1>8. ASSUME NEW r \in Releases, StartPass(r) PROVE TypeOK'
  <2>1. fresh' \in BOOLEAN
    BY <1>8, Zenon DEF StartPass, Enter, Forget, Deleting, workerVars
  <2>2. at' \in 0 .. Len(Stages) + 1
    BY <1>8 DEF StartPass, Enter, Forget, Deleting, workerVars
  <2>3. IF pc' = "idle" THEN rel' = Absent ELSE rel' \in Releases /\ obj' \in Objects /\ at' > 0
    BY <1>8 DEF StartPass, Enter, Forget, Deleting, workerVars, Branch
  <2>4. pc' \in {"idle", "addFinalizer", "cleanup", "removeFinalizer", "stages", "status"}
    BY <1>8 DEF StartPass, Enter, Forget, Deleting, workerVars, Branch
  <2>5. rolesByRelease' \in [Releases -> SUBSET Roles] /\ statusFailures' \subseteq Releases
    BY <1>8 DEF StartPass, Enter, Forget, Deleting, memory
  <2>6. QED BY <1>8, <2>1, <2>2, <2>3, <2>4, <2>5 DEF StartPass, Enter, Forget, Deleting, apiVars, workerVars
<1>9. ASSUME NEW r \in Releases, NEW i \in DOMAIN Stages, NEW o \in OutcomesOf(Stages[i]),
             Flip(r, Stages[i], o)
      PROVE  TypeOK'
  BY <1>9, SpendType, OutcomesOfType DEF Flip, memory, workerVars, apiVars, StageOutcomes, Kinds
<1>10. CASE AddFinalizer
  <2>1. [obj EXCEPT !.finalizer = TRUE] \in Objects
    BY <1>10 DEF AddFinalizer, Objects
  <2>2. QED BY <1>10, <2>1, RefusedType, EndPassType DEF AddFinalizer, Store, memory, apiVars
<1>11. CASE Cleanup
  BY <1>11, SpendType, EndPassType DEF Cleanup, memory, apiVars, Kinds
<1>12. CASE RemoveFinalizer
  <2>1. [obj EXCEPT !.finalizer = FALSE] \in Objects
    BY <1>12 DEF RemoveFinalizer, Objects
  <2>2. QED BY <1>12, <2>1, CollectedType, RefusedType, EndPassType
            DEF RemoveFinalizer, Store, memory, apiVars
<1>13. ASSUME pc = "stages", NEW phase \in Phases, NEW m \in StageNames \cup Roles \cup {""}, NEW a \in BOOLEAN,
              Report(phase, m, a)
       PROVE  result' \in Statuses /\ requeue' \in BOOLEAN /\ pc' = "status" /\ at' = at
  BY <1>13, SpecsAssumption DEF Report, Statuses, Objects, ReleaseSpecs
<1>14. CASE CheckStage
  <2> DEFINE s == Stages[at]
             msg == IF s = "deps" THEN CHOOSE d \in MissingDependencies(obj) : TRUE ELSE s
  <2>1. CASE StageOutcome(s) = "ok" /\ at' = at + 1 /\ UNCHANGED <<pc, result, requeue>>
    BY <1>14, <2>1 DEF CheckStage, memory, apiVars
  <2> s \in StageNames
    BY <1>14 DEF CheckStage
  <2>2. CASE StageOutcome(s) = "wait" /\ Report(WaitPhase(s), msg, s \in Polled)
    <3>1. msg \in StageNames \cup Roles
      <4>1. CASE s = "deps"
        <5>1. MissingDependencies(obj) # {}
          BY <2>2, <4>1 DEF StageOutcome
        <5>2. MissingDependencies(obj) \subseteq Roles
          BY <1>14, SpecsAssumption DEF CheckStage, MissingDependencies, Objects, ReleaseSpecs
        <5>3. QED BY <4>1, <5>1, <5>2
      <4>2. QED BY <4>1
    <3>2. WaitPhase(s) \in Phases
      BY <1>14 DEF CheckStage, Phases
    <3>3. result' \in Statuses /\ requeue' \in BOOLEAN /\ pc' = "status" /\ at' = at
      <4>1. requeue' \in BOOLEAN
        <5> HIDE DEF msg, s
        <5>1. requeue' = (s \in Polled)
          BY <2>2 DEF Report
        <5>2. requeue' = TRUE \/ requeue' = FALSE
          BY <5>1
        <5>3. QED BY <5>2, Zenon
      <4>2. pc' = "status" /\ at' = at
        BY <2>2 DEF Report
      <4>3. (IF Rendered(at) THEN obj.spec.roles ELSE obj.status.roles) \in SUBSET Roles
        BY <1>14, SpecsAssumption DEF CheckStage, Objects, Statuses, ReleaseSpecs
      <4>4. result' \in Statuses
        <5> HIDE DEF msg, s
        <5>1. QED BY <2>2, <3>1, <3>2, <4>3 DEF Report, Statuses
      <4>5. QED BY <4>1, <4>2, <4>4
    <3>4. QED BY <1>14, <3>3 DEF CheckStage, memory, apiVars
  <2>3. CASE Report("ERROR", s, TRUE) \/ Report("ERROR", s, FALSE)
    BY <1>13, <1>14, <2>3 DEF CheckStage, memory, apiVars, Phases
  <2>4. QED BY <1>14, <2>1, <2>2, <2>3 DEF CheckStage
<1>15. CASE Conclude
  BY <1>13, <1>15 DEF Conclude, memory, apiVars, Phases
<1>16. CASE UpdateStatus
  <2>1. [obj EXCEPT !.status = result] \in Objects
    BY <1>16 DEF UpdateStatus, Register, Objects
  <2>2. rolesByRelease' \in [Releases -> SUBSET Roles]
    BY <1>16 DEF UpdateStatus, Register, Statuses
  <2>3. /\ pc' = "idle" /\ rel' = Absent /\ fresh' \in BOOLEAN /\ requeue' \in BOOLEAN
        /\ at' \in 0 .. Len(Stages) + 1 /\ result' \in Statuses /\ delayed' \subseteq Releases
    BY <1>16, EndPassType DEF UpdateStatus, Register
  <2>4. budget' \in [Kinds -> Nat]
    BY <1>16, RefusedType DEF UpdateStatus, Register
  <2>5. api' \in [Releases -> Objects \cup {Absent}] /\ cache' = cache /\ lagging' \subseteq Releases
    <3> DEFINE o == [obj EXCEPT !.status = result]
    <3>1. o \in Objects
      BY <2>1
    <3>2. Store(rel, o) \/ UNCHANGED apiVars
      BY <1>16 DEF UpdateStatus, Register
    <3> HIDE DEF o
    <3>3. QED BY <1>16, <3>1, <3>2 DEF UpdateStatus, Register, Store, apiVars
  <2>6. statusFailures' \subseteq Releases /\ world' = world /\ queue' = queue
    BY <1>16 DEF UpdateStatus, Register
  <2>7. QED BY <2>2, <2>3, <2>4, <2>5, <2>6
<1>17. CASE Restart
  <2>1. fresh' \in BOOLEAN /\ requeue' \in BOOLEAN
    BY <1>17, Zenon DEF Restart
  <2>2. at' \in 0 .. Len(Stages) + 1
    BY <1>17 DEF Restart
  <2>3. budget' \in [Kinds -> Nat]
    BY <1>17, SpendType DEF Restart, Kinds
  <2>4. QED BY <1>17, <2>1, <2>2, <2>3, NoStatusType DEF Restart
<1>18. CASE UNCHANGED vars
  BY <1>18 DEF vars, apiVars, memory, workerVars
<1>19. QED
  BY <1>2, <1>3, <1>4, <1>5, <1>6, <1>7, <1>8, <1>9, <1>10, <1>11, <1>12, <1>14, <1>15, <1>16,
     <1>17, <1>18
     DEF Next, WorkerStep

\* The variables keep their types in every behaviour.
THEOREM TypeCorrect == Spec => []TypeOK
BY TypeInit, TypeStep, PTL DEF Spec

-----------------------------------------------------------------------------
LEMMA InvInit == Init => IInv
<1> SUFFICES ASSUME Init PROVE IInv
  OBVIOUS
<1>1. TypeOK
  BY TypeInit
<1>2. CacheInv /\ MemoryInv /\ RolesFollowStatus /\ NoLostWakeup
  BY DEF Init, CacheInv, MemoryInv, RolesFollowStatus, NoLostWakeup
<1>3. FreshInv /\ PassInv
  BY DEF Init, FreshInv, PassInv
<1>4. QED BY <1>1, <1>2, <1>3 DEF IInv

\* A write that does not come from the worker, and takes no finalizer away.
LEMMA ExternalWrite ==
  ASSUME IInv, NEW r \in Releases, NEW o \in Objects \cup {Absent}, Store(r, o),
         fresh' = (fresh /\ rel # r),
         UNCHANGED <<world, queue, delayed, memory, pc, rel, obj, at, result, requeue>>,
         api[r] # Absent /\ api[r].finalizer => o # Absent /\ o.finalizer
  PROVE  CacheInv' /\ FreshInv' /\ MemoryInv' /\ PassInv' /\ RolesFollowStatus' /\ NoLostWakeup'
<1> USE DEF IInv, TypeOK, Store, memory
<1>1. CacheInv'
  BY DEF CacheInv
<1>2. FreshInv'
  BY DEF FreshInv
<1>3. MemoryInv'
  BY DEF MemoryInv
<1>4. PassInv'
  BY DEF PassInv
<1>5. RolesFollowStatus'
  BY DEF RolesFollowStatus, Quiet
<1>6. NoLostWakeup'
  BY DEF NoLostWakeup, Quiet
<1>7. QED BY <1>1, <1>2, <1>3, <1>4, <1>5, <1>6

\* A change of an unwatched object, or one without event, does not make a status wrong.
LEMMA FlipKeepsSettled ==
  ASSUME NEW w \in StageOutcomes, NEW s \in StageNames, NEW new \in Outcomes,
         ~Notifies(s, w[s], new), NEW o, NEW st, SettledAs(w, o, st)
  PROVE  SettledAs([w EXCEPT ![s] = new], o, st)
<1> DEFINE v == [w EXCEPT ![s] = new]
<1>1. \A x \in StageNames : x \in Watched =>
        \A a \in {"wait", "fatal"} : (v[x] = a) <=> (w[x] = a)
  BY DEF Notifies, StageOutcomes
<1>2. \A x \in StageNames : Clear(w, x) <=> Clear(v, x)
  BY <1>1 DEF Clear
<1> HIDE DEF v
<1>3. \A i \in DOMAIN Stages : \A j \in 1 .. i - 1 : Stages[j] \in StageNames
  BY StagesType
<1>4. \A i \in DOMAIN Stages, a \in {"wait", "fatal"} :
        Stages[i] \in Watched => (BlockedAt(w, i, a) <=> BlockedAt(v, i, a))
  BY <1>1, <1>2, <1>3, StagesType DEF BlockedAt
<1>5. \A names : Unblocked(w, names) <=> Unblocked(v, names)
  BY <1>2, StagesType DEF Unblocked
<1>6. SettledAs(v, o, st)
  BY <1>4, <1>5 DEF SettledAs
<1>7. QED BY <1>6 DEF v

LEMMA FlipStep ==
  ASSUME IInv, NEW r \in Releases, NEW s \in StageNames, NEW new \in Outcomes, Flip(r, s, new)
  PROVE  CacheInv' /\ FreshInv' /\ MemoryInv' /\ PassInv' /\ RolesFollowStatus' /\ NoLostWakeup'
<1> USE DEF IInv, TypeOK, Flip, apiVars, memory, workerVars
<1>1. CacheInv' /\ MemoryInv'
  BY DEF CacheInv, MemoryInv
<1>2. FreshInv'
  BY DEF FreshInv
<1>3. ASSUME NEW x \in Releases, NEW o, NEW st, SettledAs(world[x], o, st), x \notin queue'
      PROVE  SettledAs(world'[x], o, st)
  BY <1>3, FlipKeepsSettled
<1>4. ASSUME NEW x \in Releases, NEW j \in DOMAIN Stages, Clear(world[x], Stages[j]), x \notin queue'
      PROVE  Clear(world'[x], Stages[j])
  BY <1>4, StagesType DEF Clear, Notifies, StageOutcomes
<1>5. PassInv'
  <2>1. (pc = "stages" => rel \in queue \/ \A j \in 1 .. at - 1 : Clear(world[rel], Stages[j]))'
    <3> SUFFICES ASSUME pc = "stages", rel \notin queue', NEW j \in 1 .. at - 1
                 PROVE  Clear(world'[rel], Stages[j])
      OBVIOUS
    <3>1. j \in DOMAIN Stages
      BY StagesType
    <3>2. rel \in Releases /\ rel \notin queue /\ Clear(world[rel], Stages[j])
      BY DEF PassInv
    <3>3. QED BY <1>4, <3>1, <3>2
  <2>2. (pc = "status" => rel \in queue \/ requeue \/ SettledAs(world[rel], obj, result))'
    BY <1>3 DEF PassInv
  <2>3. QED BY <2>1, <2>2 DEF PassInv
<1>6. RolesFollowStatus'
  BY DEF RolesFollowStatus, Quiet
<1>7. NoLostWakeup'
  BY <1>3 DEF NoLostWakeup, Quiet
<1>8. QED BY <1>1, <1>2, <1>5, <1>6, <1>7

LEMMA DeliverStep ==
  ASSUME IInv, NEW r \in Releases, Deliver(r)
  PROVE  CacheInv' /\ FreshInv' /\ MemoryInv' /\ PassInv' /\ RolesFollowStatus' /\ NoLostWakeup'
<1> USE DEF IInv, TypeOK, Deliver, memory, workerVars
<1>1. CacheInv' /\ FreshInv' /\ MemoryInv'
  BY DEF CacheInv, FreshInv, MemoryInv
<1>2. PassInv'
  BY DEF PassInv
<1>3. RolesFollowStatus' /\ NoLostWakeup'
  BY DEF RolesFollowStatus, NoLostWakeup, Quiet
<1>4. QED BY <1>1, <1>2, <1>3

LEMMA TimerStep ==
  ASSUME IInv, NEW r \in Releases, TimerExpires(r)
  PROVE  CacheInv' /\ FreshInv' /\ MemoryInv' /\ PassInv' /\ RolesFollowStatus' /\ NoLostWakeup'
<1> USE DEF IInv, TypeOK, TimerExpires, apiVars, memory, workerVars
<1>1. CacheInv' /\ FreshInv' /\ MemoryInv'
  BY DEF CacheInv, FreshInv, MemoryInv
<1>2. PassInv'
  BY DEF PassInv
<1>3. RolesFollowStatus' /\ NoLostWakeup'
  BY DEF RolesFollowStatus, NoLostWakeup, Quiet
<1>4. QED BY <1>1, <1>2, <1>3

LEMMA RestartStep ==
  ASSUME IInv, Restart
  PROVE  CacheInv' /\ FreshInv' /\ MemoryInv' /\ PassInv' /\ RolesFollowStatus' /\ NoLostWakeup'
<1> USE DEF IInv, TypeOK, Restart
<1>1. CacheInv' /\ MemoryInv'
  BY DEF CacheInv, MemoryInv
<1>2. FreshInv' /\ PassInv'
  BY DEF FreshInv, PassInv
<1>3. RolesFollowStatus' /\ NoLostWakeup'
  BY DEF RolesFollowStatus, NoLostWakeup, Quiet
<1>4. QED BY <1>1, <1>2, <1>3

LEMMA StartPassStep ==
  ASSUME IInv, NEW r \in Releases, StartPass(r)
  PROVE  CacheInv' /\ FreshInv' /\ MemoryInv' /\ PassInv' /\ RolesFollowStatus' /\ NoLostWakeup'
<1> USE DEF IInv, TypeOK, StartPass, Enter, Forget, Deleting, apiVars, memory, workerVars
<1>1. CacheInv'
  BY DEF CacheInv
<1>2. FreshInv'
  BY AbsentAssumption DEF FreshInv, CacheInv, Branch
<1>3. MemoryInv'
  BY DEF MemoryInv
<1>4. PassInv'
  BY StagesType DEF PassInv, CacheInv, Branch
<1>5. RolesFollowStatus'
  <2> SUFFICES ASSUME NEW x \in Releases, Quiet(x)'
               PROVE  rolesByRelease'[x] = IF api[x] # Absent /\ ~api[x].deleting /\ api[x].status.phase = "READY"
                                           THEN api[x].spec.roles ELSE {}
    BY DEF RolesFollowStatus
  <2>1. CASE x # r
    BY <2>1, AbsentAssumption DEF RolesFollowStatus, Quiet
  <2>2. CASE x = r
    <3>1. api[r] = cache[r] /\ (cache[r] = Absent \/ (cache[r].deleting /\ ~cache[r].finalizer))
      BY <2>2 DEF Quiet, CacheInv
    <3>2. rolesByRelease'[r] = {}
      BY <3>1 DEF MemoryInv
    <3>3. QED BY <2>2, <3>1, <3>2
  <2>3. QED BY <2>1, <2>2
<1>6. NoLostWakeup'
  <2> SUFFICES ASSUME NEW x \in Releases, Quiet(x)', api[x] # Absent
               PROVE  SettledAs(world[x], api[x], api[x].status)
    BY DEF NoLostWakeup
  <2>1. CASE x # r
    BY <2>1, AbsentAssumption DEF NoLostWakeup, Quiet
  <2>2. CASE x = r
    <3>1. api[r] = cache[r] /\ (cache[r] = Absent \/ (cache[r].deleting /\ ~cache[r].finalizer))
      BY <2>2 DEF Quiet, CacheInv
    <3>2. QED BY <2>2, <3>1 DEF SettledAs
  <2>3. QED BY <2>1, <2>2
<1>7. QED BY <1>1, <1>2, <1>3, <1>4, <1>5, <1>6

\* The end of a pass that wrote the Release, or asked for another pass.
LEMMA EndPassStep ==
  ASSUME IInv, pc # "idle", NEW a \in BOOLEAN, EndPass(a), world' = world, queue' = queue,
         lagging \subseteq lagging',
         \A r \in Releases \ {rel} : api'[r] = api[r] /\ rolesByRelease'[r] = rolesByRelease[r],
         rel \in lagging' \/ a
  PROVE  FreshInv' /\ PassInv' /\ RolesFollowStatus' /\ NoLostWakeup'
<1> USE DEF IInv, TypeOK, EndPass
<1>1. FreshInv' /\ PassInv'
  BY DEF FreshInv, PassInv
<1>2. RolesFollowStatus' /\ NoLostWakeup'
  BY DEF RolesFollowStatus, NoLostWakeup, Quiet
<1>3. QED BY <1>1, <1>2

LEMMA AddFinalizerStep ==
  ASSUME IInv, AddFinalizer
  PROVE  CacheInv' /\ FreshInv' /\ MemoryInv' /\ PassInv' /\ RolesFollowStatus' /\ NoLostWakeup'
<1> DEFINE o == [obj EXCEPT !.finalizer = TRUE]
<1>1. o \in Objects /\ o.finalizer /\ o # Absent /\ rel \in Releases
  BY AbsentAssumption DEF IInv, TypeOK, AddFinalizer, Objects
<1>2. CASE fresh /\ Store(rel, o) /\ EndPass(FALSE)
  <2> HIDE DEF o
  <2>1. CacheInv' /\ MemoryInv'
    BY <1>1, <1>2 DEF AddFinalizer, IInv, TypeOK, CacheInv, MemoryInv, Store, memory
  <2>2. FreshInv' /\ PassInv' /\ RolesFollowStatus' /\ NoLostWakeup'
    BY <1>1, <1>2, EndPassStep DEF AddFinalizer, IInv, TypeOK, Store, memory
  <2>3. QED BY <2>1, <2>2
<1>3. CASE EndPass(TRUE) /\ UNCHANGED apiVars
  <2>1. CacheInv' /\ MemoryInv'
    BY <1>3 DEF AddFinalizer, IInv, CacheInv, MemoryInv, apiVars, memory
  <2>2. FreshInv' /\ PassInv' /\ RolesFollowStatus' /\ NoLostWakeup'
    BY <1>3, EndPassStep DEF AddFinalizer, apiVars, memory
  <2>3. QED BY <2>1, <2>2
<1>4. QED BY <1>2, <1>3 DEF AddFinalizer

LEMMA CleanupStep ==
  ASSUME IInv, Cleanup
  PROVE  CacheInv' /\ FreshInv' /\ MemoryInv' /\ PassInv' /\ RolesFollowStatus' /\ NoLostWakeup'
<1>1. CacheInv' /\ MemoryInv'
  BY DEF Cleanup, IInv, CacheInv, MemoryInv, apiVars, memory
<1>2. CASE pc' = "removeFinalizer" /\ UNCHANGED <<rel, obj, fresh, at, result, requeue, delayed, budget>>
  <2>1. FreshInv' /\ PassInv'
    BY <1>2 DEF Cleanup, IInv, FreshInv, PassInv, apiVars, memory
  <2>2. RolesFollowStatus' /\ NoLostWakeup'
    BY <1>2 DEF Cleanup, IInv, RolesFollowStatus, NoLostWakeup, Quiet, apiVars, memory
  <2>3. QED BY <1>1, <2>1, <2>2
<1>3. CASE EndPass(TRUE)
  BY <1>1, <1>3, EndPassStep DEF Cleanup, apiVars, memory
<1>4. QED BY <1>2, <1>3 DEF Cleanup

LEMMA RemoveFinalizerStep ==
  ASSUME IInv, RemoveFinalizer
  PROVE  CacheInv' /\ FreshInv' /\ MemoryInv' /\ PassInv' /\ RolesFollowStatus' /\ NoLostWakeup'
<1> DEFINE o == Collected([obj EXCEPT !.finalizer = FALSE])
<1>1. rel \in Releases /\ obj.deleting /\ rolesByRelease[rel] = {} /\ rel \notin statusFailures
  BY DEF RemoveFinalizer, IInv, TypeOK, PassInv
<1>2. CASE fresh /\ Store(rel, o) /\ EndPass(FALSE)
  <2> HIDE DEF o
  <2>1. CacheInv'
    BY <1>1, <1>2 DEF RemoveFinalizer, IInv, TypeOK, CacheInv, FreshInv, Store
  <2>2. MemoryInv'
    BY <1>1, <1>2 DEF RemoveFinalizer, IInv, TypeOK, MemoryInv, Store, memory
  <2>3. FreshInv' /\ PassInv' /\ RolesFollowStatus' /\ NoLostWakeup'
    BY <1>1, <1>2, EndPassStep DEF RemoveFinalizer, IInv, TypeOK, Store, memory
  <2>4. QED BY <2>1, <2>2, <2>3
<1>3. CASE EndPass(TRUE) /\ UNCHANGED apiVars
  <2>1. CacheInv' /\ MemoryInv'
    BY <1>3 DEF RemoveFinalizer, IInv, CacheInv, MemoryInv, apiVars, memory
  <2>2. FreshInv' /\ PassInv' /\ RolesFollowStatus' /\ NoLostWakeup'
    BY <1>3, EndPassStep DEF RemoveFinalizer, apiVars, memory
  <2>3. QED BY <2>1, <2>2
<1>4. QED BY <1>2, <1>3 DEF RemoveFinalizer

LEMMA CheckStageStep ==
  ASSUME IInv, CheckStage
  PROVE  CacheInv' /\ FreshInv' /\ MemoryInv' /\ PassInv' /\ RolesFollowStatus' /\ NoLostWakeup'
<1> DEFINE s == Stages[at]
           answer == StageOutcome(s)
<1>0. at \in DOMAIN Stages /\ s \in StageNames /\ pc = "stages" /\ rel \in Releases
  BY StagesType DEF CheckStage, IInv, TypeOK
<1>1. CacheInv' /\ MemoryInv' /\ RolesFollowStatus' /\ NoLostWakeup'
  BY DEF CheckStage, IInv, CacheInv, MemoryInv, RolesFollowStatus, NoLostWakeup, Quiet, apiVars,
         memory
<1>2. pc' \in {"stages", "status"}
  BY <1>0 DEF CheckStage, Report
<1>3. FreshInv'
  BY <1>2 DEF CheckStage, IInv, FreshInv, apiVars
<1>4. (pc = "stages" => rel \in queue \/ \A j \in 1 .. at - 1 : Clear(world[rel], Stages[j]))'
  <2> SUFFICES ASSUME pc' = "stages", rel \notin queue, NEW j \in 1 .. at' - 1
               PROVE  Clear(world[rel], Stages[j])
    BY DEF CheckStage
  <2>1. answer = "ok" /\ at' = at + 1
    BY DEF CheckStage, Report
  <2>2. CASE j \in 1 .. at - 1
    BY <1>0, <2>2 DEF IInv, PassInv
  <2>3. CASE j = at
    <3>1. CASE s = "deps"
      BY <2>3, <3>1 DEF Clear, Watched, Polled
    <3>2. CASE s # "deps"
      BY <2>1, <2>3, <3>2 DEF Clear, StageOutcome
    <3>3. QED BY <3>1, <3>2
  <2>4. QED BY <1>0, <2>1, <2>2, <2>3, StagesType
<1>5. (pc = "status" => rel \in queue \/ requeue \/ SettledAs(world[rel], obj, result))'
  <2> SUFFICES ASSUME pc' = "status", rel \notin queue, ~requeue'
               PROVE  SettledAs(world[rel], obj, result')
    BY DEF CheckStage
  <2>1. ~obj.deleting /\ obj.finalizer /\ \A j \in 1 .. at - 1 : Clear(world[rel], Stages[j])
    BY <1>0 DEF IInv, PassInv
  <2>2. CASE answer = "wait" /\ result'.phase = WaitPhase(s) /\ requeue' = (s \in Polled)
    <3>0. s \notin Polled /\ s # "deps" /\ world[rel][s] = "wait"
      BY <2>2 DEF Polled, StageOutcome
    <3>1. s \notin Polled /\ s \in Watched
      <4>1. world[rel][s] \in OutcomesOf(s)
        BY <1>0 DEF IInv, TypeOK, StageOutcomes
      <4>2. s # "folder"
        BY <3>0, <4>1 DEF OutcomesOf
      <4>3. QED BY <1>0, <3>0, <4>2 DEF Watched
    <3>2. world[rel][s] = "wait"
      BY <2>2, <3>1 DEF StageOutcome, Polled
    <3>3. QED BY <1>0, <2>1, <2>2, <3>1, <3>2 DEF SettledAs, BlockedAt
  <2>3. CASE answer = "fatal" /\ result'.phase = "ERROR" /\ result'.message = s
    <3>1. s \in Watched => world[rel][s] = "fatal"
      BY <2>3 DEF StageOutcome, Watched, Polled
    <3>2. QED BY <1>0, <2>1, <2>3, <3>1 DEF SettledAs, BlockedAt
  <2>4. QED BY <1>0, <2>2, <2>3 DEF CheckStage, Report
<1>6. PassInv'
  <2>1. (pc = "status" /\ result.phase = "READY" => result.roles = obj.spec.roles)'
    BY <1>0 DEF CheckStage, Report, WaitPhase
  <2>2. QED BY <1>0, <1>2, <1>4, <1>5, <2>1 DEF CheckStage, IInv, PassInv, apiVars
<1>7. QED BY <1>1, <1>3, <1>6

LEMMA ReportResult ==
  ASSUME NEW phase, NEW m, NEW a, Report(phase, m, a)
  PROVE  /\ pc' = "status" /\ result'.phase = phase
         /\ Rendered(at) => result'.roles = obj.spec.roles
BY DEF Report

LEMMA ConcludeStep ==
  ASSUME IInv, Conclude
  PROVE  CacheInv' /\ FreshInv' /\ MemoryInv' /\ PassInv' /\ RolesFollowStatus' /\ NoLostWakeup'
<1>a. \/ StopsSuspended /\ pc' = "status" /\ result'.phase = "SUSPENDED"
      \/ at > Len(Stages) /\ pc' = "status" /\ result'.phase = "READY" /\ result'.roles = obj.spec.roles
  <2>1. CASE StopsSuspended /\ Report("SUSPENDED", "", FALSE)
    BY <2>1, ReportResult, Zenon
  <2>2. CASE at > Len(Stages) /\ Report("READY", "", FALSE)
    BY <2>2, ReportResult, Zenon DEF Rendered
  <2>3. QED BY <2>1, <2>2, Zenon DEF Conclude
<1>0. pc = "stages" /\ pc' = "status" /\ rel \in Releases /\ at \in 1 .. Len(Stages) + 1
  <2>1. pc = "stages" /\ rel \in Releases
    BY DEF Conclude, IInv, TypeOK
  <2>2. at \in 1 .. Len(Stages) + 1
    BY <2>1, StagesType DEF IInv, TypeOK
  <2>3. QED BY <1>a, <2>1, <2>2
<1>1. CacheInv' /\ MemoryInv' /\ RolesFollowStatus' /\ NoLostWakeup'
  BY DEF Conclude, IInv, CacheInv, MemoryInv, RolesFollowStatus, NoLostWakeup, Quiet, apiVars,
         memory
<1>2. FreshInv'
  BY <1>0 DEF Conclude, IInv, FreshInv, apiVars
<1>3. rel \in queue \/ SettledAs(world[rel], obj, result')
  <2> SUFFICES ASSUME rel \notin queue PROVE SettledAs(world[rel], obj, result')
    OBVIOUS
  <2>1. ~obj.deleting /\ obj.finalizer /\ \A j \in 1 .. at - 1 : Clear(world[rel], Stages[j])
    BY <1>0 DEF IInv, PassInv
  <2>2. CASE at > Len(Stages) /\ result'.phase = "READY"
    <3>1. Unblocked(world[rel], StageNames)
      BY <1>0, <2>1, <2>2, StagesType DEF Unblocked
    <3>2. QED BY <2>1, <2>2, <3>1 DEF SettledAs
  <2>3. CASE StopsSuspended /\ result'.phase = "SUSPENDED"
    <3>1. \A j \in DOMAIN Stages : Stages[j] \in BeforeHelm => j \in 1 .. at - 1
      BY <1>0, <2>3, StagesType, StagesAssumption DEF BeforeHelm, StopsSuspended
    <3>2. Unblocked(world[rel], BeforeHelm)
      BY <2>1, <3>1 DEF Unblocked
    <3>3. QED BY <2>1, <2>3, <3>2 DEF SettledAs, StopsSuspended
  <2>4. QED BY <1>a, <2>2, <2>3
<1>4. result'.phase = "READY" => result'.roles = obj.spec.roles
  BY <1>a
<1>5. PassInv'
  BY <1>0, <1>3, <1>4 DEF Conclude, IInv, PassInv, apiVars
<1>6. QED BY <1>1, <1>2, <1>5

LEMMA UpdateStatusStep ==
  ASSUME IInv, UpdateStatus
  PROVE  CacheInv' /\ FreshInv' /\ MemoryInv' /\ PassInv' /\ RolesFollowStatus' /\ NoLostWakeup'
<1> DEFINE o == [obj EXCEPT !.status = result]
<1>0. rel \in Releases /\ obj \in Objects /\ ~obj.deleting /\ obj.finalizer /\ pc = "status"
      /\ api[rel] # Absent /\ api[rel].finalizer
  BY DEF UpdateStatus, Register, IInv, TypeOK, PassInv
<1>1. o \in Objects /\ o.finalizer /\ o # Absent
  BY <1>0, AbsentAssumption DEF IInv, TypeOK, Objects
<1>2. \A r \in Releases \ {rel} : rolesByRelease'[r] = rolesByRelease[r]
  BY DEF UpdateStatus, Register, IInv, TypeOK
<1>3. CASE Store(rel, o) /\ EndPass(requeue) /\ statusFailures' = statusFailures \ {rel}
  <2> HIDE DEF o
  <2>1. CacheInv' /\ MemoryInv'
    BY <1>0, <1>1, <1>2, <1>3 DEF IInv, TypeOK, CacheInv, MemoryInv, Store
  <2>2. FreshInv' /\ PassInv' /\ RolesFollowStatus' /\ NoLostWakeup'
    BY <1>0, <1>2, <1>3, EndPassStep DEF UpdateStatus, Register, IInv, TypeOK, Store
  <2>3. QED BY <2>1, <2>2
<1>4. CASE EndPass(TRUE) /\ UNCHANGED apiVars /\ statusFailures' = statusFailures \cup {rel}
  <2>1. CacheInv' /\ MemoryInv'
    BY <1>0, <1>2, <1>4 DEF IInv, TypeOK, CacheInv, MemoryInv, apiVars
  <2>2. FreshInv' /\ PassInv' /\ RolesFollowStatus' /\ NoLostWakeup'
    BY <1>0, <1>2, <1>4, EndPassStep DEF UpdateStatus, Register, apiVars
  <2>3. QED BY <2>1, <2>2
<1>5. CASE result = obj.status /\ EndPass(requeue) /\ UNCHANGED <<apiVars, statusFailures, budget>>
  <2>1. CacheInv' /\ MemoryInv'
    BY <1>0, <1>2, <1>5 DEF IInv, TypeOK, CacheInv, MemoryInv, apiVars
  <2>2. FreshInv' /\ PassInv'
    BY <1>5 DEF EndPass, FreshInv, PassInv
  <2>3. rel \in lagging \cup queue \/ requeue \/
        (obj = api[rel] /\ SettledAs(world[rel], obj, obj.status)
         /\ rolesByRelease'[rel] = IF obj.status.phase = "READY" THEN obj.spec.roles ELSE {})
    BY <1>0, <1>5 DEF UpdateStatus, Register, IInv, TypeOK, FreshInv, PassInv
  <2>4. RolesFollowStatus'
    BY <1>0, <1>2, <1>5, <2>3 DEF UpdateStatus, Register, EndPass, IInv, TypeOK,
                                  RolesFollowStatus, Quiet, apiVars
  <2>5. NoLostWakeup'
    BY <1>0, <1>5, <2>3 DEF UpdateStatus, Register, EndPass, IInv, TypeOK, NoLostWakeup, Quiet,
                            apiVars
  <2>6. QED BY <2>1, <2>2, <2>4, <2>5
<1>6. QED BY <1>3, <1>4, <1>5 DEF UpdateStatus, Register

-----------------------------------------------------------------------------
LEMMA InvStep == IInv /\ [Next]_vars => IInv'
<1> SUFFICES ASSUME IInv, [Next]_vars PROVE IInv'
  OBVIOUS
<1> DEFINE Rest == CacheInv /\ FreshInv /\ MemoryInv /\ PassInv /\ RolesFollowStatus /\ NoLostWakeup
<1> SUFFICES Rest'
  BY TypeStep DEF IInv
<1>0. TypeOK
  BY DEF IInv
<1>1. ASSUME NEW r \in Releases, NEW s \in Specs, CreateRelease(r, s) PROVE Rest'
  <2> DEFINE o == [spec |-> s, deleting |-> FALSE, finalizer |-> FALSE, held |-> FALSE, status |-> NoStatus]
  <2>1. o \in Objects
    BY NoStatusType DEF Objects
  <2>2. Store(r, o) /\ fresh' = (fresh /\ rel # r)
        /\ UNCHANGED <<world, queue, delayed, memory, pc, rel, obj, at, result, requeue>>
    BY <1>1 DEF CreateRelease, UserWrites
  <2> HIDE DEF o
  <2>3. QED BY <1>1, <2>1, <2>2, ExternalWrite DEF CreateRelease
<1>2. ASSUME NEW r \in Releases, NEW s \in Specs, EditRelease(r, s) PROVE Rest'
  <2> DEFINE o == [api[r] EXCEPT !.spec = s]
  <2>1. o \in Objects /\ o.finalizer = api[r].finalizer /\ o # Absent
    BY <1>0, <1>2, AbsentAssumption DEF EditRelease, TypeOK, Objects
  <2>2. Store(r, o) /\ fresh' = (fresh /\ rel # r)
        /\ UNCHANGED <<world, queue, delayed, memory, pc, rel, obj, at, result, requeue>>
    BY <1>2 DEF EditRelease, UserWrites
  <2> HIDE DEF o
  <2>3. QED BY <2>1, <2>2, ExternalWrite
<1>3. ASSUME NEW r \in Releases, NEW f \in BOOLEAN, DeleteRelease(r, f) PROVE Rest'
  <2> DEFINE b == [api[r] EXCEPT !.deleting = TRUE, !.held = f]
  <2>1. b \in Objects /\ b.finalizer = api[r].finalizer
    BY <1>0, <1>3 DEF DeleteRelease, TypeOK, Objects
  <2>2. Store(r, Collected(b)) /\ fresh' = (fresh /\ rel # r)
        /\ UNCHANGED <<world, queue, delayed, memory, pc, rel, obj, at, result, requeue>>
    BY <1>3 DEF DeleteRelease, UserWrites
  <2> HIDE DEF b
  <2>3. Collected(b) \in Objects \cup {Absent} /\ (b.finalizer => Collected(b) = b /\ b # Absent)
    BY <2>1, AbsentAssumption DEF Collected
  <2>4. QED BY <2>1, <2>2, <2>3, ExternalWrite
<1>4. ASSUME NEW r \in Releases, GarbageCollect(r) PROVE Rest'
  <2> DEFINE b == [api[r] EXCEPT !.held = FALSE]
  <2>1. b \in Objects /\ b.finalizer = api[r].finalizer
    BY <1>0, <1>4 DEF GarbageCollect, TypeOK, Objects
  <2>2. Store(r, Collected(b)) /\ fresh' = (fresh /\ rel # r)
        /\ UNCHANGED <<world, queue, delayed, memory, pc, rel, obj, at, result, requeue>>
    BY <1>4 DEF GarbageCollect
  <2> HIDE DEF b
  <2>3. Collected(b) \in Objects \cup {Absent} /\ (b.finalizer => Collected(b) = b /\ b # Absent)
    BY <2>1, AbsentAssumption DEF Collected
  <2>4. QED BY <2>1, <2>2, <2>3, ExternalWrite
<1>5. ASSUME NEW r \in Releases, NEW i \in DOMAIN Stages, NEW o \in OutcomesOf(Stages[i]),
             Flip(r, Stages[i], o)
      PROVE  Rest'
  BY <1>5, FlipStep, StagesType, OutcomesOfType
<1>6. CASE UNCHANGED vars
  BY <1>6 DEF vars, apiVars, memory, workerVars, IInv, CacheInv, FreshInv, MemoryInv, PassInv,
              RolesFollowStatus, NoLostWakeup, Quiet
<1>7. QED
  BY <1>1, <1>2, <1>3, <1>4, <1>5, <1>6, DeliverStep, TimerStep, StartPassStep, AddFinalizerStep,
     CleanupStep, RemoveFinalizerStep, CheckStageStep, ConcludeStep, UpdateStatusStep, RestartStep
     DEF Next, WorkerStep

\* Once nothing is planned for a Release, the RoleStore holds its roles exactly
\* when the API server holds a READY status for it.
THEOREM RolesFollowStatusAlways == Spec => []RolesFollowStatus
<1>1. IInv => RolesFollowStatus
  BY DEF IInv
<1>2. QED BY <1>1, InvInit, InvStep, PTL DEF Spec

\* A Release for which nothing is planned has the status that its spec and the
\* watched objects call for: no interleaving of writes, events, timers, failures
\* and restarts loses a change.
THEOREM NoWakeupIsLost == Spec => []NoLostWakeup
<1>1. IInv => NoLostWakeup
  BY DEF IInv
<1>2. QED BY <1>1, InvInit, InvStep, PTL DEF Spec

\* A deleted Release leaves no role and no failure mark in the controller.
THEOREM GoneLeavesNothing == Spec => []NothingLeftOfTheGone
<1>1. IInv => NothingLeftOfTheGone
  BY DEF IInv, MemoryInv, NothingLeftOfTheGone
<1>2. QED BY <1>1, InvInit, InvStep, PTL DEF Spec
=============================================================================
