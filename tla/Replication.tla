---------------------------- MODULE Replication ----------------------------
(***************************************************************************)
(* The controller of the Replications                                      *)
(* (src/internal/controller/replication_controller.go), which keeps a      *)
(* Secret or a ConfigMap of another namespace equal to a source.  What it  *)
(* copied last is recorded in the status of the Replication; a copy names  *)
(* the Replication it belongs to in an annotation.  One worker handles the *)
(* requests.                                                               *)
(***************************************************************************)
EXTENDS Kube, Naturals, FiniteSets

CONSTANTS
  Replications, Resources,
  Data,          \* what a resource holds
  TypeOf,        \* the type of the Secret that holds it
  Specs,         \* [source, dest] of Resources; a source of an unsupported kind is None, and
                 \* the dest that goes with it is the dest of no other spec
  Initial,       \* the resources at the start: their data, or None
  None,
  Lagging,       \* the objects whose cached version a pass can find outdated
  MaxCreations,  \* bound on the creations of Replications
  MaxMoves,      \* bound on the changes of their specs
  MaxEdits,      \* bound on the changes of resources by users
  MaxFailures    \* bound on failed API calls and on crashes

SpecsAssumption ==
  /\ Specs \subseteq [source : Resources \cup {None}, dest : Resources]
  /\ DOMAIN TypeOf = Data /\ Initial \in [Resources -> Data \cup {None}]
BoundsAssumption ==
  MaxCreations \in Nat /\ MaxMoves \in Nat /\ MaxEdits \in Nat /\ MaxFailures \in Nat

VARIABLES
  queue,    \* requests of the worker
  timers,   \* Replications to handle again after ReplicationReconcilePeriod
  creations, moves, edits, failures

control == <<queue, timers>>
bounds == <<creations, moves, edits, failures>>
vars == <<kube, control, bounds>>

Phases == {"", "READY", "ERROR"}
ReplicationObjects ==
  [spec : Specs, deleting : BOOLEAN, finalizer : BOOLEAN,
   destination : Resources \cup {None}, phase : Phases]
ResourceObjects == [owner : Replications \cup {None}, data : Data]

NoneAssumption ==
  /\ None \notin Data \cup Resources \cup Replications /\ Replications \cap Resources = {}
  /\ None \notin ReplicationObjects \cup ResourceObjects

Init ==
  /\ KubeInit([o \in Replications \cup Resources |->
                 IF o \in Replications \/ Initial[o] = None THEN None
                 ELSE [owner |-> None, data |-> Initial[o]]])
  /\ queue = {} /\ timers = {}
  /\ creations = 0 /\ moves = 0 /\ edits = 0 /\ failures = 0

----------------------------------------------------------------------------
(* Events: the index maps a resource to the Replications, as the cache has *)
(* them, whose source or destination it is.                                *)

ResourceKeys(v) == IF v = None THEN {} ELSE {v.spec.source, v.spec.dest}

FindReplicationFromResource(x) == {r \in Replications : x \in ResourceKeys(cache[r])}

Deliver(o) ==
  /\ Receive(o)
  /\ queue' = queue \cup
       (IF o \in Replications THEN {o} ELSE FindReplicationFromResource(o))
  /\ UNCHANGED <<timers, bounds>>

Periodic(r) ==
  /\ r \in timers
  /\ timers' = timers \ {r} /\ queue' = queue \cup {r}
  /\ UNCHANGED <<kube, bounds>>

----------------------------------------------------------------------------
(* The pass of the worker for the Replication r, read as v.  A call to the *)
(* API server can fail: fails is the call that does, or None.              *)

IsReplicatedBy(x, r) == cache[x] # None /\ cache[x].owner = r

\* Mutant: a resource of another Replication is taken over.
CheckDestinationOwnershipNever(x, r) == TRUE

CheckDestinationOwnership(x, r) == cache[x].owner \in {None, r}

Copied(v, r) == [owner |-> r, data |-> cache[v.spec.source].data]

Verdict(v, r) ==
  LET s == v.spec.source
      x == v.spec.dest
  IN IF s \in {None, x} THEN "unsupported"
     ELSE IF cache[s] = None THEN "sourceless"
     ELSE IF cache[x] = None THEN "missing"
     ELSE IF ~CheckDestinationOwnership(x, r) THEN "taken"
     ELSE IF TypeOf[cache[x].data] # TypeOf[cache[s].data] THEN "retyped"
     ELSE IF cache[x] = Copied(v, r) THEN "synced" ELSE "outdated"

\* The recorded resource that the pass removes: the spec names another one, or the
\* source is gone.
Doomed(v, r) ==
  IF v.destination = v.spec.dest /\ Verdict(v, r) # "sourceless" THEN None ELSE v.destination

\* The Create of a missing destination, or the Update of the version that was read.
Accepts(x) == IF cache[x] = None THEN store[x] = None ELSE Current(x)

\* Mutant: the destination is recorded when it is created only.
RecordedOnce(v, verdict, error, doomed) ==
  IF error = "" /\ verdict = "missing" THEN v.spec.dest
  ELSE IF doomed # None THEN None ELSE v.destination

Recorded(v, verdict, error, doomed) ==
  IF error = "" THEN v.spec.dest ELSE IF doomed # None THEN None ELSE v.destination

\* The merge patch holds what differs from the Replication that the pass read.
StatusPatch(r, v, destination, phase) ==
  [store[r] EXCEPT
     !.destination = IF destination # v.destination THEN destination ELSE @,
     !.phase = IF phase # v.phase THEN phase ELSE @]

Failing(fails) ==
  /\ fails # None => failures < MaxFailures
  /\ failures' = IF fails = None THEN failures ELSE failures + 1

Replicate(r, fails) ==
  LET v == cache[r]
      verdict == Verdict(v, r)
      doomed == Doomed(v, r)
      deletes == doomed # None /\ IsReplicatedBy(doomed, r)
      stops == deletes /\ fails = "delete"
      copies == /\ verdict \in {"missing", "outdated"}
                /\ ~stops /\ fails # "copy" /\ Accepts(v.spec.dest)
      error == IF copies \/ (verdict = "synced" /\ ~stops) THEN ""
               ELSE IF stops \/ verdict \in {"missing", "outdated"} THEN "retry"
               ELSE "permanent"
      destination == IF stops THEN v.destination ELSE Recorded(v, verdict, error, doomed)
      phase == IF error = "" THEN "READY" ELSE "ERROR"
      changes == destination # v.destination \/ phase # v.phase
      patches == changes /\ store[r] # None /\ fails # "status"
  IN /\ v # None /\ ~v.deleting /\ v.finalizer
     /\ Write(Joined(When(deletes /\ ~stops, Only(doomed, None)),
              Joined(When(copies, Only(v.spec.dest, Copied(v, r))),
                     When(patches, Only(r, StatusPatch(r, v, destination, phase))))))
     /\ queue' = IF error = "retry" \/ (changes /\ ~patches) THEN queue ELSE queue \ {r}
     /\ timers' = IF error = "" /\ (changes => patches) THEN timers \cup {r} ELSE timers

\* An Update of the Replication as it was read.
Updated(r, fails) == Current(r) /\ fails = None

AddFinalizer(r, fails) ==
  /\ cache[r] # None /\ ~cache[r].deleting /\ ~cache[r].finalizer
  /\ Write(When(Updated(r, fails), Only(r, [cache[r] EXCEPT !.finalizer = TRUE])))
  /\ queue' = IF Updated(r, fails) THEN queue \ {r} ELSE queue
  /\ UNCHANGED timers

\* Mutant: the finalizer is removed by a patch that asks for no version.
FinalizeBlind(r, fails) ==
  LET v == cache[r]
      deletes == v.destination # None /\ IsReplicatedBy(v.destination, r)
      stops == deletes /\ fails = "delete"
      updates == ~stops /\ fails # "update"
  IN /\ v # None /\ v.deleting /\ v.finalizer
     /\ Write(Joined(When(deletes /\ ~stops, Only(v.destination, None)),
                     When(updates, Only(r, None))))
     /\ queue' = IF updates THEN queue \ {r} ELSE queue
     /\ UNCHANGED timers

\* Mutant: a failed deletion is not tried again.
FinalizeOnce(r, fails) ==
  LET v == cache[r]
      deletes == v.destination # None /\ IsReplicatedBy(v.destination, r)
      stops == deletes /\ fails = "delete"
      updates == ~stops /\ fails # "update" /\ Current(r)
  IN /\ v # None /\ v.deleting /\ v.finalizer
     /\ Write(Joined(When(deletes /\ ~stops, Only(v.destination, None)),
                     When(updates, Only(r, None))))
     /\ queue' = queue \ {r}
     /\ UNCHANGED timers

\* A Replication without its finalizer is gone.
Finalize(r, fails) ==
  LET v == cache[r]
      deletes == v.destination # None /\ IsReplicatedBy(v.destination, r)
      stops == deletes /\ fails = "delete"
      updates == ~stops /\ fails # "update" /\ Current(r)
  IN /\ v # None /\ v.deleting /\ v.finalizer
     /\ Write(Joined(When(deletes /\ ~stops, Only(v.destination, None)),
                     When(updates, Only(r, None))))
     /\ queue' = IF updates THEN queue \ {r} ELSE queue
     /\ UNCHANGED timers

Skip(r) ==
  /\ cache[r] = None
  /\ queue' = queue \ {r}
  /\ UNCHANGED <<kube, timers>>

Reconcile(r) ==
  /\ r \in queue
  /\ \A o \in (Replications \cup Resources) \ Lagging : Current(o)
  /\ \E fails \in {None, "delete", "copy", "status", "update"} :
       /\ Failing(fails)
       /\ \/ Replicate(r, fails)
          \/ AddFinalizer(r, fails)
          \/ Finalize(r, fails)
          \/ Skip(r) /\ fails = None
  /\ UNCHANGED <<creations, moves, edits>>

Crash ==
  /\ failures < MaxFailures /\ failures' = failures + 1
  /\ Relist
  /\ queue' = {r \in Replications : store[r] # None} /\ timers' = {}
  /\ UNCHANGED <<creations, moves, edits>>

----------------------------------------------------------------------------
(* Users.  The type of a Secret cannot change.                             *)

CreateReplication(r, s) ==
  /\ creations < MaxCreations /\ creations' = creations + 1
  /\ store[r] = None
  /\ Write(Only(r, [spec |-> s, deleting |-> FALSE, finalizer |-> FALSE,
                    destination |-> None, phase |-> ""]))
  /\ UNCHANGED <<control, moves, edits, failures>>

MoveReplication(r, s) ==
  /\ moves < MaxMoves /\ moves' = moves + 1
  /\ store[r] # None /\ store[r].spec # s
  /\ Write(Only(r, [store[r] EXCEPT !.spec = s]))
  /\ UNCHANGED <<control, creations, edits, failures>>

DeleteReplication(r) ==
  /\ store[r] # None /\ ~store[r].deleting
  /\ Write(Only(r, IF store[r].finalizer THEN [store[r] EXCEPT !.deleting = TRUE] ELSE None))
  /\ UNCHANGED <<control, bounds>>

EditResource(x, d) ==
  /\ edits < MaxEdits /\ edits' = edits + 1
  /\ \/ store[x] = None /\ d # None /\ Write(Only(x, [owner |-> None, data |-> d]))
     \/ store[x] # None /\ d = None /\ Write(Only(x, None))
     \/ /\ store[x] # None /\ d # None
        /\ TypeOf[d] = TypeOf[store[x].data] /\ Write(Only(x, [store[x] EXCEPT !.data = d]))
  /\ UNCHANGED <<control, creations, moves, failures>>

Next ==
  \/ \E o \in DOMAIN store : Deliver(o)
  \/ \E r \in Replications : Periodic(r) \/ Reconcile(r) \/ DeleteReplication(r)
  \/ \E r \in Replications, s \in Specs : CreateReplication(r, s) \/ MoveReplication(r, s)
  \/ \E x \in Resources, d \in Data \cup {None} : EditResource(x, d)
  \/ Crash

Spec == Init /\ [][Next]_vars

\* The feed of each object moves, and the worker takes each request.
Fairness ==
  /\ \A o \in Replications \cup Resources : WF_vars(Deliver(o))
  /\ \A r \in Replications : SF_vars(Reconcile(r))
FairSpec == Spec /\ Fairness

----------------------------------------------------------------------------
(* Properties                                                              *)

\* The objects, the cache and the requests have the shapes that the controller gives them.
TypeOK ==
  /\ \A f \in {store, cache} :
       /\ \A r \in Replications : f[r] \in ReplicationObjects \cup {None}
       /\ \A x \in Resources : f[x] \in ResourceObjects \cup {None}
  /\ queue \subseteq Replications /\ timers \subseteq Replications

Settled == queue = {} /\ CaughtUp

\* Once the worker has nothing left to do, each Replication that is not deleted is READY
\* with a copy equal to its source and recorded in its status, or is in ERROR because
\* the server's objects leave nothing to copy: no source, a source that is also the
\* destination, a destination of another Replication or of another type.
MirrorsSource ==
  Settled => \A r \in Replications :
    LET v == store[r] IN
    v # None /\ ~v.deleting =>
      LET s == v.spec.source
          x == v.spec.dest
          hopeless == \/ s \in {None, x} \/ store[s] = None
                      \/ store[x] # None /\ store[x].owner \notin {None, r}
                      \/ store[x] # None /\ TypeOf[store[x].data] # TypeOf[store[s].data]
      IN IF hopeless THEN v.phase = "ERROR"
         ELSE v.phase = "READY" /\ v.destination = x
              /\ store[x] = [owner |-> r, data |-> store[s].data]

\* Once the worker has nothing left to do, each copy is the recorded destination of a
\* living Replication whose source exists: none was left behind by a deletion, a lost
\* source or another destination, which is what status.destination and the finalizer of
\* a Replication are for.
NoOrphan ==
  Settled => \A x \in Resources :
    store[x] # None /\ store[x].owner # None =>
      LET v == store[store[x].owner]
      IN v # None /\ v.destination = x /\ store[v.spec.source] # None

\* A pass never takes, changes or deletes the copy of another living Replication, though
\* it decides on cached resources and deletes without a precondition.
Others(x, r) == store[x] # None /\ store[x].owner \notin {None, r}
LeavesOthersStep ==
  \A r \in Replications, x \in Resources :
    store'[x] # store[x] /\ Others(x, r) => ~Reconcile(r)
LeavesOthers == [][LeavesOthersStep]_vars

Deleting(r) == store[r] # None /\ store[r].deleting
=============================================================================
