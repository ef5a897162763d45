--------------------------- MODULE ReleaseOutputs ---------------------------
(***************************************************************************)
(* The outputs of the Releases, together with the controllers that check   *)
(* them: the last stage of a pass of the Release worker                    *)
(* (src/internal/controller/release_controller.go), which creates and      *)
(* patches one Connection or ClusterConnection per output, waits for their *)
(* phases, then deletes the connections of former outputs.  Connections    *)
(* have an owner reference; ClusterConnections name their Release in       *)
(* spec.parentRelease and are deleted by the finalizer of the Release.     *)
(* The earlier stages of the pass are those of ReleaseReconciler.          *)
(***************************************************************************)
EXTENDS Connections, SequencesExt, FiniteSetsExt

CONSTANTS
  Releases,
  Renderings,   \* what each Release can render: sequences of [object, contract, values]
  Lagging,      \* the objects whose cached version a Release pass can find outdated
  MaxRenders,   \* bound on the changes of what the Releases render
  MaxFailures   \* bound on the API calls that fail

OutputsAssumption ==
  /\ \A r \in Releases : \A s \in Renderings[r] : \A i \in DOMAIN s :
       s[i].object \in AllConnections /\ s[i].contract \in Names /\ s[i].values \in Values
  /\ MaxRenders \in Nat /\ MaxFailures \in Nat

VARIABLES
  requests,   \* requests of the Release worker
  renders, failures

outputVars == <<requests, renders, failures>>
allVars == <<vars, outputVars>>

NoPhases == <<>>
OutInit ==
  /\ \E first \in [Releases -> UNION {Renderings[r] : r \in Releases}] :
       /\ \A r \in Releases : first[r] \in Renderings[r]
       /\ KubeInit([o \in Contracts \cup AllConnections \cup Releases |->
            IF o \in Releases
            THEN [outputs |-> first[o], deleting |-> FALSE, phase |-> "", recorded |-> NoPhases]
            ELSE IF o \in Contracts /\ o[1] = "ClusterContract"
            THEN [NewContract(CHOOSE s \in Schemas : \A t \in Schemas : t \subseteq s, 1)
                    EXCEPT !.phase = "READY"]
            ELSE None])
  /\ queue = {} /\ edits = 0
  /\ requests = Releases /\ renders = 0 /\ failures = 0

----------------------------------------------------------------------------
(* One output                                                              *)

\* The server has the object that the cache has, perhaps in a later version.
SameUID(c) == cache[c] # None /\ \A i \in DOMAIN feed[c] : feed[c][i] # None

Created(r, out) == NewConnection(out.contract, out.values, r)

\* The merge patch of the spec: what differs from the connection that was read.
Populated(r, out) ==
  LET c == out.object
      read == cache[c]
  IN [store[c] EXCEPT
        !.contract = IF out.contract # read.contract THEN out.contract ELSE @,
        !.values = IF out.values # read.values THEN out.values ELSE @,
        !.owner = IF c \in ClusterWide /\ read.owner # r THEN r ELSE @]

\* Whether the server accepts the call: a Create, or a Patch, which carries the UID of a
\* ClusterConnection.
Accepts(out) ==
  LET c == out.object IN
  IF cache[c] = None THEN store[c] = None
  ELSE IF c \in ClusterWide THEN SameUID(c) ELSE store[c] # None

\* Mutant: the parent of a ClusterConnection is not looked at.
BelongsToAnotherNever(r, out) == FALSE

BelongsToAnother(r, out) ==
  LET c == out.object
  IN c \in ClusterWide /\ cache[c] # None /\ cache[c].owner \notin {None, r}

HandleOutput(r, out, fails) ==
  IF BelongsToAnother(r, out) \/ ~Accepts(out) \/ fails = out.object
  THEN [error |-> TRUE, write |-> NoWrites, phase |-> ""]
  ELSE LET v == IF cache[out.object] = None THEN Created(r, out) ELSE Populated(r, out)
       IN [error |-> FALSE, write |-> out.object :> v, phase |-> v.phase]

----------------------------------------------------------------------------
(* The pass                                                                *)

ObjectsOf(outputs) == {outputs[i].object : i \in DOMAIN outputs}

OwnedBy(r, kind) == {c \in kind : cache[c] # None /\ cache[c].owner = r}

\* Mutant: the connections of the former outputs are looked for among the Connections.
OrphansNamespaced(r, outputs) == OwnedBy(r, Namespaced) \ ObjectsOf(outputs)

Orphans(r, outputs) == OwnedBy(r, AllConnections) \ ObjectsOf(outputs)

\* Mutant: the phases are recorded for the outputs that were there before the pass.
RecordedExisting(outputs, done) ==
  [i \in {j \in DOMAIN outputs : cache[outputs[j].object] # None} |->
     [object |-> outputs[i].object, phase |-> done[i].phase]]

\* status.outputConnectionByName
Recorded(outputs, done) ==
  [i \in DOMAIN outputs |-> [object |-> outputs[i].object, phase |-> done[i].phase]]

\* What the pass does, with the call on fails failing: the outputs up to the first error,
\* then, once each is READY, the deletions, whose errors are logged only.
Outcome(r, fails) ==
  LET v == cache[r]
      done == [i \in DOMAIN v.outputs |-> HandleOutput(r, v.outputs[i], fails)]
      failed == {i \in DOMAIN done : done[i].error}
      last == IF failed = {} THEN Len(done) ELSE Min(failed) - 1
      ready == failed = {} /\ \A i \in DOMAIN done : done[i].phase = "READY"
      orphans == IF ready THEN Orphans(r, v.outputs) \ {fails} ELSE {}
      written == FoldLeft(LAMBDA w, d : w @@ d.write, NoWrites, SubSeq(done, 1, last))
  IN [calls |-> written @@ [c \in orphans |-> None],
      error |-> failed # {},
      status |-> [v EXCEPT
        !.phase = IF failed # {} THEN "ERROR" ELSE IF ready THEN "READY" ELSE "WAIT_OCNX",
        !.recorded = IF failed # {} THEN @ ELSE Recorded(v.outputs, done)]]

Failing(fails) ==
  /\ fails # None => failures < MaxFailures
  /\ failures' = IF fails = None THEN failures ELSE failures + 1

\* The status is written by an Update of the version that was read.
ReconcileOutputs(r, fails) ==
  LET out == Outcome(r, fails)
      writes == out.status # cache[r]
      refused == writes /\ (~Current(r) \/ fails = r)
  IN /\ ~cache[r].deleting
     /\ Write(out.calls @@ IF writes /\ ~refused THEN r :> out.status ELSE NoWrites)
     /\ requests' = IF refused \/ out.error THEN requests ELSE requests \ {r}

\* Mutant: the finalizer is removed though a deletion failed.
DeleteReleaseAnyway(r, fails) ==
  LET updates == Current(r) /\ fails # r
  IN /\ cache[r].deleting
     /\ Write([c \in OwnedBy(r, ClusterWide) \ {fails} |-> None]
              @@ IF updates THEN r :> None ELSE NoWrites)
     /\ requests' = IF updates THEN requests \ {r} ELSE requests

\* Mutant: a failed call is not tried again.
DeleteReleaseOnce(r, fails) ==
  LET mine == OwnedBy(r, ClusterWide)
      updates == Current(r) /\ fails # r /\ fails \notin mine
  IN /\ cache[r].deleting
     /\ Write([c \in mine \ {fails} |-> None] @@ IF updates THEN r :> None ELSE NoWrites)
     /\ requests' = requests \ {r}

\* deleteOutputClusterConnections, then the removal of the finalizer.
DeleteRelease(r, fails) ==
  LET mine == OwnedBy(r, ClusterWide)
      updates == Current(r) /\ fails # r /\ fails \notin mine
  IN /\ cache[r].deleting
     /\ Write([c \in mine \ {fails} |-> None] @@ IF updates THEN r :> None ELSE NoWrites)
     /\ requests' = IF updates THEN requests \ {r} ELSE requests

Reconcile(r) ==
  /\ r \in requests
  /\ \A o \in DOMAIN store \ Lagging : Current(o)
  /\ \/ /\ cache[r] = None
        /\ requests' = requests \ {r} /\ UNCHANGED <<kube, failures>>
     \/ /\ cache[r] # None
        /\ \E fails \in {None, r} \cup AllConnections :
             /\ Failing(fails)
             /\ ReconcileOutputs(r, fails) \/ DeleteRelease(r, fails)
  /\ UNCHANGED <<queue, edits, renders>>

----------------------------------------------------------------------------
(* Events, users and the garbage collector                                 *)

\* The Releases told of the next version of o: the one that controls a Connection, and
\* those whose status names a ClusterConnection.
OutputEvents(o) ==
  CASE o \in Releases -> {o}
    [] o \in Namespaced -> {r \in Releases : \E v \in {cache[o], Head(feed[o])} :
                                              v # None /\ v.owner = r}
    [] o \in ClusterWide -> {r \in Releases : cache[r] # None /\
                                              o \in ObjectsOf(cache[r].recorded)}
    [] OTHER -> {}

DeliverAll(o) ==
  /\ Receive(o)
  /\ queue' = IF o \in Releases THEN queue ELSE queue \cup Events(o)
  /\ requests' = requests \cup OutputEvents(o)
  /\ UNCHANGED <<edits, renders, failures>>

\* A change of the package, the parameters or a context changes what a Release renders.
Render(r, outputs) ==
  /\ renders < MaxRenders /\ renders' = renders + 1
  /\ store[r] # None /\ store[r].outputs # outputs
  /\ Write(r :> [store[r] EXCEPT !.outputs = outputs])
  /\ UNCHANGED <<queue, edits, requests, failures>>

RequestDeletion(r) ==
  /\ renders < MaxRenders /\ renders' = renders + 1
  /\ store[r] # None /\ ~store[r].deleting
  /\ Write(r :> [store[r] EXCEPT !.deleting = TRUE])
  /\ UNCHANGED <<queue, edits, requests, failures>>

CollectGarbage(c) ==
  /\ store[c] # None /\ store[c].owner # None /\ store[store[c].owner] = None
  /\ Write(c :> None)
  /\ UNCHANGED <<queue, edits, outputVars>>

OutNext ==
  \/ \E o \in DOMAIN store : DeliverAll(o)
  \/ (CheckSteps \/ UserSteps) /\ UNCHANGED outputVars
  \/ \E r \in Releases : Reconcile(r) \/ RequestDeletion(r)
  \/ \E r \in Releases : \E s \in Renderings[r] : Render(r, s)
  \/ \E c \in Namespaced : CollectGarbage(c)

OutSpec == OutInit /\ [][OutNext]_allVars

OutFairness ==
  /\ \A o \in Contracts \cup AllConnections \cup Releases : WF_allVars(DeliverAll(o))
  /\ WF_allVars(CheckSteps /\ UNCHANGED outputVars)
  /\ \A r \in Releases : WF_allVars(Reconcile(r))
FairOutSpec == OutSpec /\ OutFairness

----------------------------------------------------------------------------
(* Properties                                                              *)

\* A Release records an object and a phase for outputs of one of its renderings.
OutTypeOK ==
  /\ \A r \in Releases : store[r] # None =>
       /\ store[r].phase \in {"", "READY", "WAIT_OCNX", "ERROR"}
       /\ \A i \in DOMAIN store[r].recorded :
            store[r].recorded[i] \in [object : AllConnections, phase : {"", "READY", "ERROR"}]
  /\ requests \subseteq Releases

\* Nothing is under way, but retries that would change nothing.
Stuck(r) ==
  /\ cache[r] # None /\ ~cache[r].deleting
  /\ Outcome(r, None).error /\ Outcome(r, None).status = cache[r]
  /\ \A c \in DOMAIN Outcome(r, None).calls : Outcome(r, None).calls[c] = store[c]
AllSettled == Settled /\ \A r \in requests : Stuck(r)

Provided(r, out) ==
  LET v == store[out.object]
  IN /\ v # None /\ v.contract = out.contract /\ v.values = out.values
     /\ out.object \in ClusterWide => v.owner = r

\* Once settled, a Release is READY exactly when each of its outputs is there with the
\* values it renders now and was found READY by its own controller: a verdict on former
\* values, or an event that came before the Release named the object, does not last.
OutputsFollow ==
  AllSettled => \A r \in Releases :
    store[r] # None /\ ~store[r].deleting =>
      (store[r].phase = "READY") = (\A i \in DOMAIN store[r].outputs :
         LET out == store[r].outputs[i]
         IN Provided(r, out) /\ store[out.object].phase = "READY")

\* Once settled, a READY Release has no connection of a former output: the last pass, or
\* the event of the connection, has found it.
NoFormer ==
  AllSettled => \A r \in Releases, c \in AllConnections :
    store[r] # None /\ store[r].phase = "READY" /\ store[c] # None /\ store[c].owner = r
      => c \in ObjectsOf(store[r].outputs)

\* The Connection of an output is controlled by its Release, which is how an event of the
\* Connection reaches the Release.  This does not hold of a Connection that was there before
\* the Release (Handmade).
OutputsOwned ==
  AllSettled => \A r \in Releases : store[r] # None =>
    \A c \in ObjectsOf(store[r].recorded) \cap Namespaced :
      store[c] # None => store[c].owner = r

\* Once settled, no ClusterConnection is left of a deleted Release: its finalizer stayed
\* until the server had deleted each of them.
NoneLeft ==
  AllSettled => \A c \in ClusterWide :
    store[c] # None /\ store[c].owner # None => store[store[c].owner] # None

\* A pass of a Release never changes or deletes a ClusterConnection whose parentRelease
\* names another Release, though it decides on cached objects.
LeavesAloneStep ==
  \A r \in Releases, c \in ClusterWide :
    store'[c] # store[c] /\ store[c] # None /\ store[c].owner \notin {None, r}
      => ~Reconcile(r)
LeavesAlone == [][LeavesAloneStep]_allVars

Deleting(r) == store[r] # None /\ store[r].deleting
=============================================================================
