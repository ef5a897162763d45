----------------------------- MODULE FluxSources -----------------------------
(***************************************************************************)
(* The sources of one Release: the first stages of a pass of the Release   *)
(* worker.  The pass writes the OCIRepository of the package, waits for    *)
(* Flux to publish its artifact, fetches it into the folder of the Release *)
(* when revision.txt names another revision, then writes the               *)
(* HelmRepository from which Flux reads the index of that folder           *)
(* (src/internal/controller/release_ocirepository.go,                      *)
(* release_helmrepository.go and release_controller.go).                   *)
(***************************************************************************)
EXTENDS Kube, PackageFolder, Naturals

CONSTANTS
  rel, oci, hr,   \* the Release, its OCIRepository and its HelmRepository
  Packages,       \* values of spec.package
  Insecure,       \* those with insecure: true and no redirect
  Foreign,        \* the sources that users create under the names of the Release
  Interrupts,     \* where the process can die in a pass
  Lagging,        \* the objects whose cached version a pass can find outdated
  MaxMoves,       \* bound on the changes made by users and publishers
  MaxFailures     \* bound on the calls that fail

VARIABLES
  registry,   \* the revisions that each package had in its registry, the last one now
  flux,       \* what Flux has read for each source, and not reported yet
  folder,
  queued,     \* the Release has a request
  held,       \* the package and the revision of a pass between the folder and the HelmRepository
  used,       \* what the last pass that went on had from the sources
  moves, failures

vars == <<kube, registry, flux, folder, queued, held, used, moves, failures>>

Sources == {oci, hr}

SourceVersions ==
  [owner : {rel, "user"}, package : Packages, insecure : BOOLEAN,
   annotation : Revisions \cup {None}, generation : Nat, ready : {"", "True", "False"},
   readyGeneration : Nat, observed : Nat, artifact : Revisions \cup {None}, deleting : BOOLEAN]
Passes == [package : Packages, revision : Revisions]
Uses == [package : Packages, revision : Revisions, files : SUBSET (Revisions \X Parts),
         index : Revisions]

SourcesAssumption ==
  /\ rel # oci /\ rel # hr /\ oci # hr /\ rel # "user" /\ None \notin {oci, hr, "fetch"}
  /\ Insecure \subseteq Packages /\ Foreign \subseteq Sources
  /\ Interrupts \subseteq {"removal", "creation", "fetch"}
  /\ {"error", "fatal", "wait", None} \cap Revisions = {}
  /\ None \notin SourceVersions /\ None \notin Passes /\ None \notin Uses
  /\ MaxMoves \in Nat /\ MaxFailures \in Nat

NewSource(owner, package, insecure, annotation) ==
  [owner |-> owner, package |-> package, insecure |-> insecure, annotation |-> annotation,
   generation |-> 1, ready |-> "", readyGeneration |-> 0, observed |-> 0,
   artifact |-> None, deleting |-> FALSE]

\* An insecure OCIRepository comes from a controller that allowed it.
Init ==
  /\ \E p \in Packages :
       \E old \in {None} \cup {NewSource(rel, q, TRUE, None) : q \in {p} \cap Insecure} :
         KubeInit([o \in {rel, oci, hr} |-> IF o = rel THEN p ELSE IF o = oci THEN old ELSE None])
  /\ registry \in [Packages -> {<<r>> : r \in Revisions}]
  /\ flux = [o \in Sources |-> None]
  /\ folder = Gone /\ queued = TRUE /\ held = None /\ used = None
  /\ moves = 0 /\ failures = 0

Latest(p) == registry[p][Len(registry[p])]

SameUID(o) == cache[o] # None /\ \A i \in DOMAIN feed[o] : feed[o][i] # None

----------------------------------------------------------------------------
(* One source                                                              *)

Result(to, write) == [to |-> to, write |-> write]
Error == Result("error", NoWrites)   \* retried
Fatal == Result("fatal", NoWrites)   \* not retried
Waits(write) == Result("wait", write)

\* Mutant: a Ready condition about an older spec is taken.
staleReadyNever(v) == FALSE

staleReady(v) ==
  /\ v.ready # ""
  /\ v.readyGeneration < v.generation \/ (v.ready = "True" /\ v.observed < v.generation)

\* What the pass takes from a source: its artifact, or the wait for it.
Readiness(v) ==
  IF v.ready = "True" /\ ~staleReady(v) /\ v.artifact # None THEN v.artifact ELSE "wait"

\* The merge patch of the spec, whose answer is the version of the server.
Populate(o, package, insecure) ==
  LET read == cache[o]
      v == [store[o] EXCEPT
              !.package = IF package # read.package THEN package ELSE @,
              !.insecure = IF insecure # read.insecure THEN insecure ELSE @]
  IN IF v = store[o] THEN v ELSE [v EXCEPT !.generation = @ + 1]

\* Mutant: the patch carries no UID.
PatchAnyUID(o, package, insecure, fails) ==
  IF store[o] = None \/ fails = o THEN Error
  ELSE LET v == Populate(o, package, insecure) IN Result(Readiness(v), Only(o, v))

\* Mutant: the readiness is the one of the version that was read.
PatchRead(o, package, insecure, fails) ==
  IF ~SameUID(o) \/ fails = o THEN Error
  ELSE Result(Readiness(cache[o]), Only(o, Populate(o, package, insecure)))

\* The patch carries the UID of the object that was read.
Patch(o, package, insecure, fails) ==
  IF ~SameUID(o) \/ fails = o THEN Error
  ELSE LET v == Populate(o, package, insecure) IN Result(Readiness(v), Only(o, v))

Create(o, v, fails) == IF store[o] # None \/ fails = o THEN Error ELSE Waits(Only(o, v))

\* Mutant: insecure transport is refused, and left as it is on the object.
RefuseOnly(fails) == Fatal

\* Insecure transport is refused, and disabled on the object if it is there.
Refuse(fails) ==
  IF cache[oci] = None \/ ~cache[oci].insecure THEN Fatal
  ELSE IF ~Current(oci) \/ fails = oci THEN Error
  ELSE Result("fatal", Only(oci, [store[oci] EXCEPT !.insecure = FALSE, !.generation = @ + 1]))

Controlled(o) == cache[o].owner = rel

handleOciRepository(package, fails) ==
  IF cache[oci] # None /\ ~Controlled(oci) THEN Error
  ELSE IF package \in Insecure THEN Refuse(fails)
  ELSE IF cache[oci] = None THEN Create(oci, NewSource(rel, package, FALSE, None), fails)
  ELSE Patch(oci, package, FALSE, fails)

\* Mutant: the HelmRepository of another revision is kept.
ServesAny(v, revision) == TRUE

Serves(v, revision) == v.annotation = revision

handleHelmRepository(package, revision, fails) ==
  LET v == cache[hr] IN
  IF v = None THEN Create(hr, NewSource(rel, package, FALSE, revision), fails)
  ELSE IF ~Controlled(hr) THEN Error
  ELSE IF v.deleting THEN Waits(NoWrites)
  ELSE IF ~Serves(v, revision)
  THEN IF fails = hr THEN Error
       ELSE IF store[hr] = None THEN Waits(NoWrites)
       ELSE IF ~SameUID(hr) THEN Error
       ELSE Waits(Only(hr, [store[hr] EXCEPT !.deleting = TRUE]))
  ELSE Patch(hr, package, FALSE, fails)

----------------------------------------------------------------------------
(* The pass                                                                *)

Failing(fails) ==
  /\ fails # None => failures < MaxFailures
  /\ failures' = IF fails = None THEN failures ELSE failures + 1

\* Mutant: an error is not tried again.
StopAtOciOnce(out) ==
  /\ out.to \in {"error", "fatal", "wait"}
  /\ Write(out.write)
  /\ queued' = FALSE
  /\ UNCHANGED <<folder, held>>

\* The pass ends before the folder.
StopAtOci(out) ==
  /\ out.to \in {"error", "fatal", "wait"}
  /\ Write(out.write)
  /\ queued' = (out.to = "error")
  /\ UNCHANGED <<folder, held>>

\* The folder cannot be emptied, or the artifact is not fetched.
StopAtFolder(revision, fails) ==
  /\ folder.mark # revision
  /\ \/ Unremovable(folder) /\ queued' = FALSE /\ UNCHANGED folder
     \/ ~Unremovable(folder) /\ fails = "fetch" /\ queued' = TRUE /\ folder' = Empty
  /\ UNCHANGED held

\* The folder has the package.
PassFolder(revision, fails) ==
  /\ folder.mark # revision => ~Unremovable(folder) /\ fails # "fetch"
  /\ folder' = IF folder.mark = revision THEN folder ELSE Fetched(folder, revision)
  /\ held' = [package |-> cache[rel], revision |-> revision]
  /\ queued' = FALSE

\* The pass up to the HelmRepository.
Reconcile ==
  /\ queued /\ held = None
  /\ \A o \in DOMAIN store \ Lagging : Current(o)
  /\ \E fails \in {None, oci, "fetch"} :
       LET out == handleOciRepository(cache[rel], fails)
       IN /\ Failing(fails)
          /\ \/ StopAtOci(out)
             \/ /\ out.to \in Revisions /\ Write(out.write)
                /\ StopAtFolder(out.to, fails) \/ PassFolder(out.to, fails)
  /\ UNCHANGED <<registry, flux, used, moves>>

\* The HelmRepository.  The pass goes on once it is ready.
ReconcileCharts ==
  /\ held # None /\ held' = None
  /\ hr \notin Lagging => Current(hr)
  /\ \E fails \in {None, hr} :
       LET out == handleHelmRepository(held.package, held.revision, fails)
       IN /\ Failing(fails)
          /\ Write(out.write)
          /\ queued' = (queued \/ out.to = "error")
          /\ used' = IF out.to \in {"error", "wait"} THEN used
                     ELSE [package |-> held.package, revision |-> held.revision,
                           files |-> folder.files, index |-> out.to]
  /\ UNCHANGED <<registry, flux, folder, moves>>

\* What a process that dies while it replaces the folder leaves of it.
Interrupted(revision) ==
  UNION {CASE i = "removal"  -> InterruptedRemoval(folder)
           [] i = "creation" -> InterruptedCreation(folder)
           [] i = "fetch"    -> InterruptedFetch(revision) : i \in Interrupts}

\* The process dies, perhaps while it replaces the folder, or the pod is replaced.  The
\* manager that starts lists the objects and queues each of them.
Crash ==
  /\ failures < MaxFailures /\ failures' = failures + 1
  /\ \/ LET revision == handleOciRepository(cache[rel], None).to
        IN /\ queued /\ held = None /\ revision \in Revisions
           /\ folder.mark # revision /\ ~Unremovable(folder)
           /\ folder' \in Interrupted(revision)
     \/ held # None /\ UNCHANGED folder
     \/ folder' = Gone
  /\ Relist
  /\ queued' = TRUE /\ held' = None
  /\ UNCHANGED <<registry, flux, used, moves>>

\* The events of the Release, and of the sources that it controls.
Deliver(o) ==
  /\ Receive(o)
  /\ queued' = (queued \/ o = rel \/ \E v \in {cache[o], Head(feed[o])} :
                                       v # None /\ v.owner = rel)
  /\ UNCHANGED <<registry, flux, folder, held, used, moves, failures>>

----------------------------------------------------------------------------
(* Flux, users and publishers                                              *)

\* The index of the folder, which the chart server serves.
IndexOf(f) == LET found == {r \in Revisions : <<r, "index">> \in f.files}
              IN IF found = {} THEN None ELSE CHOOSE r \in found : TRUE

\* Flux reads the artifact of a source.
FluxFetch(o) ==
  /\ store[o] # None /\ ~store[o].deleting /\ flux[o] = None
  /\ flux' = [flux EXCEPT ![o] =
       [generation |-> store[o].generation,
        got |-> IF o = oci THEN Latest(store[o].package) ELSE IndexOf(folder)]]
  /\ UNCHANGED <<kube, registry, folder, queued, held, used, moves, failures>>

\* Flux writes the status of the source.  Its patch helper can give the condition the
\* generation of a newer object than the one that was reconciled.
FluxReport(o) ==
  /\ store[o] # None /\ flux[o] # None
  /\ flux' = [flux EXCEPT ![o] = None]
  /\ \E g \in {flux[o].generation, store[o].generation} :
       Write(Only(o, [store[o] EXCEPT
         !.ready = IF flux[o].got = None THEN "False" ELSE "True",
         !.artifact = IF flux[o].got = None THEN @ ELSE flux[o].got,
         !.readyGeneration = g,
         !.observed = flux[o].generation]))
  /\ UNCHANGED <<registry, folder, queued, held, used, moves, failures>>

\* Flux removes its finalizer from a source that is being deleted.
FluxFinalize(o) ==
  /\ store[o] # None /\ store[o].deleting
  /\ flux' = [flux EXCEPT ![o] = None]
  /\ Write(Only(o, None))
  /\ UNCHANGED <<registry, folder, queued, held, used, moves, failures>>

Move == moves < MaxMoves /\ moves' = moves + 1

EditRelease(p) ==
  /\ Move /\ p # store[rel]
  /\ Write(Only(rel, p))
  /\ UNCHANGED <<registry, flux, folder, queued, held, used, failures>>

Push(p, r) ==
  /\ Move /\ Latest(p) # r
  /\ registry' = [registry EXCEPT ![p] = Append(@, r)]
  /\ UNCHANGED <<kube, flux, folder, queued, held, used, failures>>

\* A user replaces a source by one of their own.
PutForeign(o) ==
  /\ Move /\ store[o] # None
  /\ flux' = [flux EXCEPT ![o] = None]
  /\ store' = [store EXCEPT ![o] = NewSource("user", CHOOSE p \in Packages : TRUE, FALSE, None)]
  /\ feed' = [feed EXCEPT ![o] = Append(Append(@, None), store'[o])]
  /\ UNCHANGED <<cache, registry, folder, queued, held, used, failures>>

Next ==
  \/ Reconcile \/ ReconcileCharts \/ Crash
  \/ \E o \in DOMAIN store : Deliver(o)
  \/ \E o \in Sources : FluxFetch(o) \/ FluxReport(o) \/ FluxFinalize(o)
  \/ \E p \in Packages : EditRelease(p) \/ \E r \in Revisions : Push(p, r)
  \/ \E o \in Foreign : PutForeign(o)

Spec == Init /\ [][Next]_vars

\* The worker, the informers and Flux, which polls its sources, keep working.
Fairness ==
  /\ WF_vars(Reconcile) /\ WF_vars(ReconcileCharts)
  /\ \A o \in {rel, oci, hr} : WF_vars(Deliver(o))
  /\ \A o \in Sources : WF_vars(FluxFetch(o)) /\ WF_vars(FluxReport(o)) /\ WF_vars(FluxFinalize(o))
FairSpec == Spec /\ Fairness

----------------------------------------------------------------------------
(* Properties                                                              *)

\* The sources and the folder have the shapes that the controller and Flux give them, no
\* condition is about a spec to come, and a folder with revision.txt has its flag.
TypeOK ==
  /\ store[rel] \in Packages
  /\ \A o \in Sources : store[o] # None =>
       /\ store[o] \in SourceVersions
       /\ store[o].readyGeneration <= store[o].generation
       /\ store[o].observed <= store[o].generation
  /\ folder \in Folders /\ (folder.mark # None => folder.flag)
  /\ held \in Passes \cup {None} /\ used \in Uses \cup {None}
  /\ queued \in BOOLEAN

\* The sources implement their promise: a pass goes on with all the files of the revision
\* that the OCIRepository had and nothing else, whatever deaths left in the folder before.
Published == IF store[oci] = None THEN None ELSE store[oci].artifact
Taken == IF held = None THEN None ELSE held.revision
UsedFiles == IF used = None THEN None ELSE [revision |-> used.revision, files |-> used.files]
Promise == INSTANCE PackageUse WITH published <- Published, taken <- Taken, used <- UsedFiles
UsesPublished == Promise!Spec

\* revision.txt names the revision in the folder: a pass goes on with a whole package.  This does
\* not hold where a container can stop within the removal of the folder ("removal" in Interrupts).
UsesWhole == used # None => used.files = Files(used.revision)

\* A folder without revision.txt can be emptied, to load a package in it.  This does not hold
\* where a container can stop between the folder and its flag ("creation" in Interrupts).
Loadable == folder.mark = None => ~Unremovable(folder)

\* A pass goes on with a revision of the package of the spec that it read: the artifact of
\* a former spec, which Flux can report late, is not taken for the one of the new spec.
RevisionOfPackage ==
  used # None => \E i \in DOMAIN registry[used.package] : registry[used.package][i] = used.revision

\* A pass that goes on has charts from the index of the revision that it uses: the
\* annotation of the HelmRepository names the revision of the package that it serves.
IndexFollows == used # None => used.index = used.revision

\* A pass never changes a source that the Release does not control, though it decides on
\* cached objects and users replace the sources under their names.
LeavesForeignStep ==
  \A o \in Sources :
    store'[o] # store[o] /\ store[o] # None /\ store[o].owner # rel
      => ~Reconcile /\ ~ReconcileCharts
LeavesForeign == [][LeavesForeignStep]_vars

\* Once the Release has no request left, the OCIRepository that it controls is secure, and
\* no pass has gone on with an insecure package.
StaysSecure ==
  /\ used # None => used.package \notin Insecure
  /\ ~queued /\ Current(rel) /\ Current(oci) /\ store[oci] # None /\ store[oci].owner = rel
       => ~store[oci].insecure

\* Once nobody changes anything, the Release goes on with the package of its spec, at its
\* revision in the registry, and charts of that revision.
Converged ==
  store[rel] \notin Insecure =>
    /\ used # None
    /\ used.package = store[rel] /\ used.revision = Latest(store[rel])
    /\ used.index = used.revision
=============================================================================
