-------------------------- MODULE ReleaseReconciler --------------------------
(***************************************************************************)
(* The Release controller: one worker that takes Releases from a work      *)
(* queue and brings each of them through a pipeline of stages, up to a     *)
(* status write (src/internal/controller/release_controller.go), with the  *)
(* RoleStore that links Releases (src/internal/rolestore/rolestore.go).    *)
(*                                                                         *)
(* The worker reads a Release from the cache of the manager, which lags    *)
(* behind the API server.  A write of the worker carries the version it    *)
(* read, and is refused when the API server has another one.  Versions are *)
(* not numbered: "lagging" holds the Releases whose cached copy is not the *)
(* latest, and "fresh" says whether the copy held by the worker is.        *)
(*                                                                         *)
(* Everything a pass depends on outside the Releases is "world": for each  *)
(* Release and each stage, the answer that the stage gets from the cluster *)
(* (Flux objects, Contexts, Connections, objects named by conditions).  It *)
(* changes at any time, and makes an event when the controller watches the *)
(* objects of the stage.                                                   *)
(***************************************************************************)
EXTENDS Naturals, Sequences, FiniteSets

CONSTANTS
  Releases,      \* names of Releases
  Roles,         \* roles provided by Releases, or by the cluster
  Specs,         \* the specs that users give
  ClusterRoles,  \* roles that the configuration says the cluster provides
  Stages,        \* the stages whose answer varies, in the order of the code
  Absent,        \* no object of this name
  Bounds         \* how many of each kind of disturbance

\* Operations of users, changes of the world, requests refused for a transient
\* reason, restarts of the controller.
Kinds == {"edits", "flips", "faults", "restarts"}

\* Each stage of a pass.  "deps" reads the RoleStore; the others read "world".
StageNames == {"oci", "folder", "fetch", "repo", "package", "context", "inputs",
               "render", "deps", "conditions", "helm", "outputs"}

Outcomes == {"ok", "wait", "error", "fatal"}

ReleaseSpecs == [roles : SUBSET Roles, dependencies : SUBSET Roles, suspended : BOOLEAN]

ASSUME SpecsAssumption == Specs \subseteq ReleaseSpecs /\ ClusterRoles \subseteq Roles
ASSUME StagesAssumption ==
  /\ Stages \in Seq(StageNames)
  /\ \E i \in DOMAIN Stages : Stages[i] = "deps"
  /\ \A i, j \in DOMAIN Stages : i < j /\ Stages[i] = "helm" => Stages[j] = "outputs"
ASSUME BoundsAssumption == Bounds \in [Kinds -> Nat]

\* Mutant: the dependencies are not looked at again.
PolledWithoutDeps == {"inputs", "conditions"}

\* Stages that the controller tries again after 5 seconds.
Polled == {"inputs", "deps", "conditions"}

\* Stages whose objects are watched.  An input Connection is watched only once
\* the status names it; the object of a condition and the folder of the package
\* never are.
Watched == StageNames \ (Polled \cup {"folder"})

WaitPhase(s) ==
  CASE s = "oci" -> "WAIT_OCI"
    [] s = "repo" -> "WAIT_REPO"
    [] s = "inputs" -> "WAIT_ICNX"
    [] s = "deps" -> "WAIT_DEPS"
    [] s = "conditions" -> "WAIT_COND"
    [] s = "helm" -> "WAIT_HREL"
    [] s = "outputs" -> "WAIT_OCNX"
    [] OTHER -> "ERROR"

\* The answers that a stage gives.
OutcomesOf(s) ==
  CASE s \in {"oci", "repo", "inputs", "conditions"} -> Outcomes
    [] s \in {"fetch", "context", "render"} -> {"ok", "error", "fatal"}
    [] s \in {"folder", "package"} -> {"ok", "fatal"}
    [] OTHER -> {"ok", "wait", "error"}

VARIABLES
  api,             \* the Releases held by the API server
  cache,           \* the copies held by the informer of the manager
  lagging,         \* Releases whose copy in the cache is not the latest
  world,           \* what each stage gets from the cluster
  queue,           \* requests of the work queue
  delayed,         \* requests to be added to the queue when a timer expires
  rolesByRelease,  \* the RoleStore
  statusFailures,  \* Releases whose last status update failed
  pc,              \* where the worker is in reconcile2
  rel,             \* the Release of the pass
  obj,             \* its copy, read at the start of the pass
  fresh,           \* no write of that Release since that copy
  at,              \* the next stage
  result,          \* the status that the pass reports
  requeue,         \* the pass asks for another one
  budget           \* what is left of each bound

apiVars == <<api, cache, lagging>>
workerVars == <<pc, rel, obj, fresh, at, result, requeue>>
memory == <<rolesByRelease, statusFailures>>
vars == <<apiVars, world, queue, delayed, memory, workerVars, budget>>

Phases == {"", "READY", "ERROR", "SUSPENDED"} \cup {WaitPhase(s) : s \in StageNames}
Statuses == [phase : Phases, message : StageNames \cup Roles \cup {""}, roles : SUBSET Roles]
NoStatus == [phase |-> "", message |-> "", roles |-> {}]
Objects == [spec : Specs, deleting : BOOLEAN, finalizer : BOOLEAN, held : BOOLEAN,
            status : Statuses]

ASSUME AbsentAssumption == Absent \notin Releases \cup Objects

Init ==
  /\ api = [r \in Releases |-> Absent]
  /\ cache = api
  /\ lagging = {}
  /\ world = [r \in Releases |-> [s \in StageNames |-> "ok"]]
  /\ queue = {} /\ delayed = {}
  /\ rolesByRelease = [r \in Releases |-> {}]
  /\ statusFailures = {}
  /\ pc = "idle" /\ rel = Absent /\ obj = Absent /\ fresh = FALSE
  /\ at = 0 /\ result = NoStatus /\ requeue = FALSE
  /\ budget = Bounds

Spend(kind) ==
  /\ budget[kind] > 0
  /\ budget' = [budget EXCEPT ![kind] = @ - 1]

-----------------------------------------------------------------------------
(* The API server and its users. *)

\* An object under deletion disappears with its last finalizer.
Collected(o) == IF o.deleting /\ ~o.finalizer /\ ~o.held THEN Absent ELSE o

\* A request of r that the API server accepts makes every copy of r stale.
Store(r, o) ==
  /\ api' = [api EXCEPT ![r] = o]
  /\ lagging' = lagging \cup {r}
  /\ UNCHANGED cache

\* A user writes Release r.
UserWrites(r, o) ==
  /\ Spend("edits")
  /\ Store(r, o)
  /\ fresh' = (fresh /\ rel # r)
  /\ UNCHANGED <<world, queue, delayed, memory, pc, rel, obj, at, result, requeue>>

CreateRelease(r, s) ==
  /\ api[r] = Absent
  /\ UserWrites(r, [spec |-> s, deleting |-> FALSE, finalizer |-> FALSE, held |-> FALSE,
                    status |-> NoStatus])

EditRelease(r, s) ==
  /\ api[r] # Absent
  /\ api[r].spec # s
  /\ UserWrites(r, [api[r] EXCEPT !.spec = s])

\* A foreground deletion adds a finalizer of the garbage collector.
DeleteRelease(r, foreground) ==
  /\ api[r] # Absent
  /\ ~api[r].deleting
  /\ UserWrites(r, Collected([api[r] EXCEPT !.deleting = TRUE, !.held = foreground]))

\* The garbage collector removes its own finalizer.
GarbageCollect(r) ==
  /\ api[r] # Absent
  /\ api[r].held
  /\ Store(r, Collected([api[r] EXCEPT !.held = FALSE]))
  /\ fresh' = (fresh /\ rel # r)
  /\ UNCHANGED <<world, queue, delayed, memory, pc, rel, obj, at, result, requeue, budget>>

\* The informer catches up with the API server, and its handler adds a request.
Deliver(r) ==
  /\ r \in lagging
  /\ cache' = [cache EXCEPT ![r] = api[r]]
  /\ lagging' = lagging \ {r}
  /\ queue' = queue \cup {r}
  /\ UNCHANGED <<api, world, delayed, memory, workerVars, budget>>

\* Mutant: only the recovery of a watched object makes an event.
NotifiesRecovery(s, old, new) == s \in Watched /\ old \in {"wait", "fatal"}

\* The objects of stage s of Release r change.  A transient failure of a request
\* makes no event.
Notifies(s, old, new) == s \in Watched /\ {old, new} \cap {"wait", "fatal"} # {}

Flip(r, s, new) ==
  /\ s # "deps"
  /\ new # world[r][s]
  /\ Spend("flips")
  /\ world' = [world EXCEPT ![r][s] = new]
  /\ queue' = IF Notifies(s, world[r][s], new) THEN queue \cup {r} ELSE queue
  /\ UNCHANGED <<apiVars, delayed, memory, workerVars>>

-----------------------------------------------------------------------------
(* The worker. *)

TimerExpires(r) ==
  /\ r \in delayed
  /\ delayed' = delayed \ {r}
  /\ queue' = queue \cup {r}
  /\ UNCHANGED <<apiVars, world, memory, workerVars, budget>>

\* The end of a pass: another one is asked for with a delay, or not at all.
EndPass(again) ==
  /\ pc' = "idle" /\ rel' = Absent /\ obj' = Absent /\ fresh' = FALSE
  /\ at' = 0 /\ result' = NoStatus /\ requeue' = FALSE
  /\ delayed' = IF again THEN delayed \cup {rel} ELSE delayed

\* Where a pass goes with the copy it read.
Branch(o) ==
  IF o.deleting THEN "cleanup" ELSE IF o.finalizer THEN "stages" ELSE "addFinalizer"

\* What a pass does of a Release that its copy says is there, or gone.
Enter(r, o) ==
  /\ IF o = Absent \/ (o.deleting /\ ~o.finalizer)
     THEN UNCHANGED workerVars
     ELSE /\ pc' = Branch(o) /\ rel' = r /\ obj' = o /\ fresh' = (r \notin lagging)
          /\ at' = 1
          /\ UNCHANGED <<result, requeue>>
  /\ UNCHANGED <<apiVars, world, delayed, budget>>

Deleting(o) == o # Absent /\ o.deleting

ForgetRolesOnly(r) ==
  /\ rolesByRelease' = IF Deleting(cache[r]) THEN [rolesByRelease EXCEPT ![r] = {}] ELSE rolesByRelease
  /\ UNCHANGED statusFailures

\* The memory of the controller loses a Release under deletion.
Forget(r) ==
  /\ rolesByRelease' = IF Deleting(cache[r]) THEN [rolesByRelease EXCEPT ![r] = {}] ELSE rolesByRelease
  /\ statusFailures' = IF Deleting(cache[r]) THEN statusFailures \ {r} ELSE statusFailures

StartPass(r) ==
  /\ pc = "idle"
  /\ r \in queue
  /\ queue' = queue \ {r}
  /\ Forget(r)
  /\ Enter(r, cache[r])

\* An update of the Release or of its status: accepted only for the latest version.
Refused == IF fresh THEN Spend("faults") ELSE UNCHANGED budget

AddFinalizer ==
  /\ pc = "addFinalizer"
  /\ \/ fresh /\ Store(rel, [obj EXCEPT !.finalizer = TRUE]) /\ EndPass(FALSE) /\ UNCHANGED budget
     \/ Refused /\ EndPass(TRUE) /\ UNCHANGED apiVars
  /\ UNCHANGED <<world, queue, memory>>

\* Mutant: a deletion that fails is only logged, and the pass is not tried again.
CleanupOnce ==
  /\ pc = "cleanup"
  /\ \/ /\ pc' = "removeFinalizer"
        /\ UNCHANGED <<rel, obj, fresh, at, result, requeue, delayed, budget>>
     \/ Spend("faults") /\ EndPass(FALSE)
  /\ UNCHANGED <<apiVars, world, queue, memory>>

\* The ClusterConnections of the Release are listed and deleted.
Cleanup ==
  /\ pc = "cleanup"
  /\ \/ /\ pc' = "removeFinalizer"
        /\ UNCHANGED <<rel, obj, fresh, at, result, requeue, delayed, budget>>
     \/ Spend("faults") /\ EndPass(TRUE)
  /\ UNCHANGED <<apiVars, world, queue, memory>>

RemoveFinalizer ==
  /\ pc = "removeFinalizer"
  /\ \/ /\ fresh /\ Store(rel, Collected([obj EXCEPT !.finalizer = FALSE]))
        /\ EndPass(FALSE) /\ UNCHANGED budget
     \/ Refused /\ EndPass(TRUE) /\ UNCHANGED apiVars
  /\ UNCHANGED <<world, queue, memory>>

\* A role is provided by the cluster, or by a Release of the RoleStore.
IsDependencyOK(role) == role \in ClusterRoles \/ \E r \in Releases : role \in rolesByRelease[r]
MissingDependencies(o) == {d \in o.spec.dependencies : ~IsDependencyOK(d)}

StageOutcome(s) ==
  IF s = "deps" THEN IF MissingDependencies(obj) = {} THEN "ok" ELSE "wait"
  ELSE world[rel][s]

\* The status holds the roles that the templates gave, once they are rendered.
Rendered(i) == i > Len(Stages) \/ \E j \in 1..i : Stages[j] = "deps"

\* Mutant: the phase and the message are swapped.
ReportSwapped(phase, message, again) ==
  /\ pc' = "status"
  /\ result' = [phase |-> message, message |-> phase, roles |-> obj.spec.roles]
  /\ requeue' = again
  /\ UNCHANGED at

\* The pass goes to updateStatus, and asks for another one if again holds.
Report(phase, message, again) ==
  /\ pc' = "status"
  /\ result' = [phase |-> phase, message |-> message,
                roles |-> IF Rendered(at) THEN obj.spec.roles ELSE obj.status.roles]
  /\ requeue' = again
  /\ UNCHANGED at

\* The HelmReleases of a suspended Release are left alone, and its pass ends there.
StopsSuspended == at <= Len(Stages) /\ Stages[at] = "helm" /\ obj.spec.suspended

\* A stage lets the pass go on, waits, or fails; a fatal failure is not tried again.
CheckStage ==
  /\ pc = "stages"
  /\ at <= Len(Stages)
  /\ ~StopsSuspended
  /\ LET s == Stages[at]
         answer == StageOutcome(s)
     IN \/ /\ answer = "ok"
           /\ at' = at + 1
           /\ UNCHANGED <<pc, result, requeue>>
        \/ /\ answer = "wait"
           /\ Report(WaitPhase(s),
                     IF s = "deps" THEN CHOOSE d \in MissingDependencies(obj) : TRUE ELSE s,
                     s \in Polled)
        \/ answer = "error" /\ Report("ERROR", s, TRUE)
        \/ answer = "fatal" /\ Report("ERROR", s, FALSE)
  /\ UNCHANGED <<apiVars, world, queue, delayed, memory, rel, obj, fresh, budget>>

Conclude ==
  /\ pc = "stages"
  /\ \/ StopsSuspended /\ Report("SUSPENDED", "", FALSE)
     \/ at > Len(Stages) /\ Report("READY", "", FALSE)
  /\ UNCHANGED <<apiVars, world, queue, delayed, memory, rel, obj, fresh, budget>>

\* Mutants: roles that are only ever added, or that change with the status only.
RegisterOnly ==
  rolesByRelease' = IF result.phase = "READY" THEN [rolesByRelease EXCEPT ![rel] = result.roles]
                    ELSE rolesByRelease

RegisterOnChange ==
  rolesByRelease' = IF result = obj.status THEN rolesByRelease
                    ELSE [rolesByRelease EXCEPT ![rel] =
                            IF result.phase = "READY" THEN result.roles ELSE {}]

\* The RoleStore holds the roles of a Release while it is READY.
Register ==
  rolesByRelease' = [rolesByRelease EXCEPT ![rel] =
                       IF result.phase = "READY" THEN result.roles ELSE {}]

\* The RoleStore is updated first.  The status is written if the pass changed it.
UpdateStatus ==
  /\ pc = "status"
  /\ Register
  /\ \/ /\ result = obj.status
        /\ EndPass(requeue)
        /\ UNCHANGED <<apiVars, statusFailures, budget>>
     \/ /\ result # obj.status /\ fresh
        /\ Store(rel, [obj EXCEPT !.status = result])
        /\ statusFailures' = statusFailures \ {rel}
        /\ EndPass(requeue)
        /\ UNCHANGED budget
     \/ /\ result # obj.status /\ Refused
        /\ statusFailures' = statusFailures \cup {rel}
        /\ EndPass(TRUE)
        /\ UNCHANGED apiVars
  /\ UNCHANGED <<world, queue>>

\* The controller restarts with an empty memory; its informers list every Release.
Restart ==
  /\ Spend("restarts")
  /\ cache' = api
  /\ lagging' = {}
  /\ queue' = {r \in Releases : api[r] # Absent}
  /\ delayed' = {}
  /\ rolesByRelease' = [r \in Releases |-> {}]
  /\ statusFailures' = {}
  /\ pc' = "idle" /\ rel' = Absent /\ obj' = Absent /\ fresh' = FALSE
  /\ at' = 0 /\ result' = NoStatus /\ requeue' = FALSE
  /\ UNCHANGED <<api, world>>

-----------------------------------------------------------------------------
WorkerStep ==
  \/ AddFinalizer \/ Cleanup \/ RemoveFinalizer \/ CheckStage \/ Conclude \/ UpdateStatus

Next ==
  \/ \E r \in Releases, s \in Specs : CreateRelease(r, s) \/ EditRelease(r, s)
  \/ \E r \in Releases, foreground \in BOOLEAN : DeleteRelease(r, foreground)
  \/ \E r \in Releases : GarbageCollect(r) \/ Deliver(r) \/ TimerExpires(r) \/ StartPass(r)
  \/ \E r \in Releases, i \in DOMAIN Stages : \E o \in OutcomesOf(Stages[i]) : Flip(r, Stages[i], o)
  \/ WorkerStep
  \/ Restart

Spec == Init /\ [][Next]_vars

\* The informers, the timers and the worker run on; the work queue is first in,
\* first out, so that a request is not passed over for ever.  Users, the cluster
\* and failures owe nothing.
Fairness ==
  /\ \A r \in Releases : WF_vars(Deliver(r)) /\ WF_vars(TimerExpires(r)) /\ SF_vars(StartPass(r))
  /\ WF_vars(WorkerStep)

FairSpec == Spec /\ Fairness

-----------------------------------------------------------------------------
(* Properties. *)

StageOutcomes == {w \in [StageNames -> Outcomes] : \A s \in StageNames : w[s] \in OutcomesOf(s)}

\* Every variable has its type, and a pass has a Release, a copy of it and a stage.
TypeOK ==
  /\ api \in [Releases -> Objects \cup {Absent}]
  /\ cache \in [Releases -> Objects \cup {Absent}]
  /\ lagging \subseteq Releases /\ queue \subseteq Releases /\ delayed \subseteq Releases
  /\ world \in [Releases -> StageOutcomes]
  /\ rolesByRelease \in [Releases -> SUBSET Roles]
  /\ statusFailures \subseteq Releases
  /\ pc \in {"idle", "addFinalizer", "cleanup", "removeFinalizer", "stages", "status"}
  /\ IF pc = "idle" THEN rel = Absent ELSE rel \in Releases /\ obj \in Objects /\ at > 0
  /\ fresh \in BOOLEAN /\ requeue \in BOOLEAN
  /\ at \in 0 .. Len(Stages) + 1
  /\ result \in Statuses
  /\ budget \in [Kinds -> Nat]

\* Nothing is planned for Release r: no event on its way, no request, no timer, no pass.
Quiet(r) == r \notin lagging \cup queue \cup delayed /\ rel # r

\* The roles that other Releases can count on are those of the Releases whose
\* status says READY: once nothing is planned for a Release, the RoleStore, which
\* updateStatus changes before it tries to write the status, agrees with the
\* status that the API server holds (and holds nothing of a deleted Release).
RolesFollowStatus ==
  \A r \in Releases : Quiet(r) =>
    rolesByRelease[r] = IF api[r] # Absent /\ ~api[r].deleting /\ api[r].status.phase = "READY"
                        THEN api[r].spec.roles ELSE {}

\* w is what each stage of a Release gets from the cluster.
Clear(w, s) == s \in Watched => w[s] \notin {"wait", "fatal"}

\* The watched objects let a pass reach stage i, which gives this answer.
BlockedAt(w, i, answer) ==
  /\ w[Stages[i]] = answer
  /\ \A j \in 1 .. i - 1 : Clear(w, Stages[j])

Unblocked(w, names) == \A j \in DOMAIN Stages : Stages[j] \in names => Clear(w, Stages[j])
BeforeHelm == StageNames \ {"helm", "outputs"}

\* Status st of object o is what its spec and the watched objects call for.
SettledAs(w, o, st) ==
  IF o.deleting THEN ~o.finalizer
  ELSE /\ o.finalizer
       /\ \/ st.phase = "READY" /\ Unblocked(w, StageNames)
          \/ st.phase = "SUSPENDED" /\ o.spec.suspended /\ Unblocked(w, BeforeHelm)
          \/ \E i \in DOMAIN Stages :
               /\ Stages[i] \in Watched /\ BlockedAt(w, i, "wait")
               /\ st.phase = WaitPhase(Stages[i])
          \/ \E i \in DOMAIN Stages :
               /\ Stages[i] \in Watched => BlockedAt(w, i, "fatal")
               /\ st.phase = "ERROR" /\ st.message = Stages[i]

\* No change is missed: a Release for which nothing is planned has its finalizer,
\* and its status tells its last spec and the last state of the watched objects.
\* A stage that the controller does not watch (dependencies, inputs, conditions)
\* is never waited for without a timer.
NoLostWakeup == \A r \in Releases : Quiet(r) /\ api[r] # Absent => SettledAs(world[r], api[r], api[r].status)

\* A deleted Release leaves nothing in the memory of the controller.
NothingLeftOfTheGone ==
  \A r \in Releases : api[r] = Absent => rolesByRelease[r] = {} /\ r \notin statusFailures

\* The inductive invariant behind RolesFollowStatus, NoLostWakeup and
\* NothingLeftOfTheGone.
\* The cache: a copy that does not lag is the latest; a copy that a pass could
\* deploy from is of an object that still exists.
CacheInv ==
  \A r \in Releases :
    /\ r \notin lagging => cache[r] = api[r]
    /\ cache[r] # Absent /\ cache[r].finalizer /\ ~cache[r].deleting =>
         api[r] # Absent /\ api[r].finalizer

\* The copy of the worker: it is the latest, or an event makes another pass.
FreshInv ==
  /\ fresh => pc # "idle" /\ rel \notin lagging /\ obj = api[rel]
  /\ pc # "idle" /\ ~fresh => rel \in lagging \cup queue

\* The memory of the controller: nothing is held of a Release without finalizer.
MemoryInv ==
  \A r \in Releases : rolesByRelease[r] # {} \/ r \in statusFailures =>
    api[r] # Absent /\ api[r].finalizer

\* What each point of reconcile2 knows.
PassInv ==
  /\ pc = "addFinalizer" => ~obj.deleting /\ ~obj.finalizer
  /\ pc \in {"cleanup", "removeFinalizer"} =>
       obj.deleting /\ obj.finalizer /\ rolesByRelease[rel] = {} /\ rel \notin statusFailures
  /\ pc \in {"stages", "status"} =>
       ~obj.deleting /\ obj.finalizer /\ api[rel] # Absent /\ api[rel].finalizer
  /\ pc = "stages" => rel \in queue \/ \A j \in 1 .. at - 1 : Clear(world[rel], Stages[j])
  /\ pc = "status" => rel \in queue \/ requeue \/ SettledAs(world[rel], obj, result)
  /\ pc = "status" /\ result.phase = "READY" => result.roles = obj.spec.roles

IInv ==
  TypeOK /\ CacheInv /\ FreshInv /\ MemoryInv /\ PassInv /\ RolesFollowStatus /\ NoLostWakeup

\* A fatal error is one that another pass would meet again.
FatalIsNotFixedByRetry ==
  \A r \in Releases : Quiet(r) /\ api[r] # Absent /\ api[r].status.phase = "ERROR" =>
    \E i \in DOMAIN Stages : world[r][Stages[i]] = "fatal"

\* The Releases that nothing prevents from being deployed.
Deployable(r) ==
  /\ api[r] # Absent /\ ~api[r].deleting /\ ~api[r].spec.suspended
  /\ \A i \in DOMAIN Stages : world[r][Stages[i]] = "ok"
  /\ \A d \in api[r].spec.dependencies :
       \/ d \in ClusterRoles
       \/ \E p \in Releases \ {r} : /\ api[p] # Absent /\ ~api[p].deleting
                                  /\ api[p].status.phase = "READY" /\ d \in api[p].spec.roles

\* A Release whose objects are all ready, and whose dependencies are provided by
\* Releases that stay READY, is READY in the end, whatever conflicts, failed
\* writes and restarts came before.
DeployableIsReady ==
  \A r \in Releases :
    <>[]Deployable(r) => <>[](api[r] # Absent /\ api[r].status.phase = "READY")

\* A deleted Release disappears in the end.
DeletedGoes ==
  \A r \in Releases : [](api[r] # Absent /\ api[r].deleting => <>(api[r] = Absent \/ api[r].held))

=============================================================================
