---------------------------- MODULE HelmReleases ----------------------------
(***************************************************************************)
(* The HelmReleases of one Release, one per module of its package: the     *)
(* stage of a pass of the Release worker that creates, patches and deletes *)
(* them and waits for helm-controller                                      *)
(* (src/internal/controller/release_helmrelease.go and                     *)
(* release_controller.go).  What a module deploys is one value, its spec;  *)
(* spec.suspend is apart, as flux suspend sets it on the HelmRelease.      *)
(***************************************************************************)
EXTENDS Kube, Naturals

CONSTANTS
  rel,
  Modules,       \* the modules of the package, in order
  Renderings,    \* what the modules can render: a spec, or None for a disabled module
  Failing,       \* the specs that helm-controller fails to deploy
  None,
  Lagging,       \* the objects whose cached version a pass can find outdated
  MaxEdits,      \* bound on the changes made by users
  MaxFailures    \* bound on the API calls that fail

Names == {Modules[i] : i \in DOMAIN Modules}

Specs == {None} \cup UNION {{w[m] : m \in Names} : w \in Renderings}
HelmVersions ==
  [owner : {rel, "user"}, spec : Specs, suspend : BOOLEAN, generation : Nat, deleting : BOOLEAN,
   ready : {"", "True", "False"}, readyGeneration : Nat, observed : Nat]

HelmAssumption ==
  /\ Modules \in Seq(Names)
  /\ rel \notin Names /\ None \notin Names /\ None # rel /\ rel # "user"
  /\ \A w \in Renderings : DOMAIN w = Names
  /\ None \notin {"", "True", "False", "Unknown"} /\ None \notin HelmVersions
  /\ MaxEdits \in Nat /\ MaxFailures \in Nat

VARIABLES
  helm,     \* the generation and the spec that helm-controller deploys, for each module
  queued,   \* the Release has a request
  edits, failures

vars == <<kube, helm, queued, edits, failures>>

NewHelmRelease(owner, spec) ==
  [owner |-> owner, spec |-> spec, suspend |-> FALSE, generation |-> 1, deleting |-> FALSE,
   ready |-> "", readyGeneration |-> 0, observed |-> 0]

NoStates == [m \in {} |-> ""]
Init ==
  /\ \E w \in Renderings :
       KubeInit([o \in Names \cup {rel} |-> IF o # rel THEN None ELSE
         [wants |-> w, suspended |-> FALSE, phase |-> "", states |-> NoStates, message |-> None]])
  /\ helm = [m \in Names |-> None]
  /\ queued = TRUE /\ edits = 0 /\ failures = 0

SameUID(m) == cache[m] # None /\ \A i \in DOMAIN feed[m] : feed[m][i] # None

----------------------------------------------------------------------------
(* One module                                                              *)

staleReady(v) ==
  /\ v.ready # ""
  /\ v.readyGeneration < v.generation \/ (v.ready = "True" /\ v.observed < v.generation)

computeHelmReleaseState(v) == IF staleReady(v) THEN "Unknown" ELSE v.ready

\* Mutant: the spec is written as if the HelmRelease were new.
PopulatedNew(m, spec) ==
  IF spec # cache[m].spec \/ cache[m].suspend
  THEN [store[m] EXCEPT !.spec = spec, !.suspend = FALSE, !.generation = @ + 1] ELSE store[m]

\* The merge patch: the spec if it differs from the one that was read, and suspend as found.
Populated(m, spec) ==
  IF spec # cache[m].spec /\ spec # store[m].spec
  THEN [store[m] EXCEPT !.spec = spec, !.generation = @ + 1] ELSE store[m]

\* Mutant: an error is logged only.
FailedQuiet == [error |-> FALSE, write |-> None, state |-> None]

\* What becomes of a module: an error, the version to write, if any, and its state, if any.
Failed == [error |-> TRUE, write |-> None, state |-> None]
Done(write, state) == [error |-> FALSE, write |-> write, state |-> state]

\* Mutant: a module that is disabled is skipped.
DisableSkipped(m) == Done(None, None)

\* The module is disabled.  The deletion carries the UID, and each error is retried.
Disable(m) ==
  IF cache[m] = None \/ cache[m].owner # rel THEN Done(None, None)
  ELSE IF ~SameUID(m) THEN Failed ELSE Done([store[m] EXCEPT !.deleting = TRUE], None)

\* Mutant: the state is the one of the version that was read.
EnableRead(m, spec) ==
  IF cache[m] = None
  THEN IF store[m] # None THEN Failed ELSE Done(NewHelmRelease(rel, spec), "Unknown")
  ELSE IF cache[m].owner # rel \/ ~SameUID(m) THEN Failed
  ELSE Done(Populated(m, spec), computeHelmReleaseState(cache[m]))

Enable(m, spec) ==
  IF cache[m] = None
  THEN IF store[m] # None THEN Failed ELSE Done(NewHelmRelease(rel, spec), "Unknown")
  ELSE IF cache[m].owner # rel \/ ~SameUID(m) THEN Failed
  ELSE LET v == Populated(m, spec) IN Done(v, computeHelmReleaseState(v))

handleHelmRelease(m, spec, fails) ==
  IF fails = m THEN Failed ELSE IF spec = None THEN Disable(m) ELSE Enable(m, spec)

----------------------------------------------------------------------------
(* The pass                                                                *)

NotReady(states) == {m \in DOMAIN states : states[m] # "True"}

\* The message is the one of a module that is not ready, found in a Go map.
Messages(states) == IF NotReady(states) = {} THEN {None} ELSE NotReady(states)

\* The status of the Release after the modules.
Status(v, states, message) ==
  [v EXCEPT !.states = states, !.message = message,
            !.phase = IF v.suspended THEN "SUSPENDED"
                      ELSE IF NotReady(states) = {} THEN "READY" ELSE "WAIT_HREL"]

\* What the modules write, up to the first error, and their states.
Outcome(v, fails) ==
  LET done == [m \in Names |-> handleHelmRelease(m, v.wants[m], fails)]
      handled == {Modules[i] : i \in {j \in DOMAIN Modules :
                                        \A k \in 1 .. j : ~done[Modules[k]].error}}
  IN IF v.suspended THEN [error |-> FALSE, writes |-> NoWrites, states |-> NoStates]
     ELSE [error |-> \E m \in Names : done[m].error,
           writes |-> [m \in {n \in handled : done[n].write # None} |-> done[m].write],
           states |-> [m \in {n \in Names : done[n].state # None} |-> done[m].state]]

\* The status is written by an Update of the version that was read.
Reconcile ==
  /\ queued
  /\ \A o \in DOMAIN store \ Lagging : Current(o)
  /\ \E fails \in {None, rel} \cup Names :
       LET v == cache[rel]
           out == Outcome(v, fails)
       IN /\ fails # None => failures < MaxFailures
          /\ failures' = IF fails = None THEN failures ELSE failures + 1
          /\ \E message \in Messages(out.states) :
               LET status == IF out.error THEN [v EXCEPT !.phase = "ERROR", !.message = None]
                             ELSE Status(v, out.states, message)
                   refused == status # v /\ (~Current(rel) \/ fails = rel)
               IN /\ Write(Joined(out.writes, When(status # v /\ ~refused, Only(rel, status))))
                  /\ queued' = (out.error \/ refused)
  /\ UNCHANGED <<helm, edits>>

\* The events of the Release, and of the HelmReleases that it controls.
Deliver(o) ==
  /\ Receive(o)
  /\ queued' = (queued \/ o = rel \/ \E v \in {cache[o], Head(feed[o])} :
                                       v # None /\ v.owner = rel)
  /\ UNCHANGED <<helm, edits, failures>>

----------------------------------------------------------------------------
(* helm-controller and users                                               *)

\* helm-controller takes up a HelmRelease that is not suspended.
HelmStart(m) ==
  /\ store[m] # None /\ ~store[m].suspend /\ ~store[m].deleting /\ helm[m] = None
  /\ store[m].observed < store[m].generation
  /\ helm' = [helm EXCEPT ![m] = [generation |-> store[m].generation, spec |-> store[m].spec]]
  /\ UNCHANGED <<kube, queued, edits, failures>>

\* It reports, perhaps under the generation of a newer object.
HelmReport(m) ==
  /\ store[m] # None /\ helm[m] # None
  /\ helm' = [helm EXCEPT ![m] = None]
  /\ \E g \in {helm[m].generation, store[m].generation} :
       Write(Only(m, [store[m] EXCEPT
         !.ready = IF helm[m].spec \in Failing THEN "False" ELSE "True",
         !.readyGeneration = g, !.observed = helm[m].generation]))
  /\ UNCHANGED <<queued, edits, failures>>

\* It uninstalls a HelmRelease that is being deleted.
HelmUninstall(m) ==
  /\ store[m] # None /\ store[m].deleting
  /\ helm' = [helm EXCEPT ![m] = None]
  /\ Write(Only(m, None))
  /\ UNCHANGED <<queued, edits, failures>>

Edit == edits < MaxEdits /\ edits' = edits + 1 /\ UNCHANGED <<queued, failures>>

EditRelease(w, suspended) ==
  /\ Edit /\ <<store[rel].wants, store[rel].suspended>> # <<w, suspended>>
  /\ Write(Only(rel, [store[rel] EXCEPT !.wants = w, !.suspended = suspended]))
  /\ UNCHANGED helm

\* flux suspend and flux resume.
FluxSuspend(m) ==
  /\ Edit /\ store[m] # None /\ ~store[m].deleting
  /\ Write(Only(m, [store[m] EXCEPT !.suspend = ~@, !.generation = @ + 1]))
  /\ UNCHANGED helm

\* A user puts a HelmRelease of their own in the place of the one of a module.
PutForeign(m) ==
  /\ Edit
  /\ helm' = [helm EXCEPT ![m] = None]
  /\ store' = [store EXCEPT ![m] = NewHelmRelease("user", None)]
  /\ feed' = [feed EXCEPT ![m] = Append(Append(@, None), store'[m])]
  /\ UNCHANGED cache

HelmSteps(m) == HelmStart(m) \/ HelmReport(m) \/ HelmUninstall(m)

Next ==
  \/ Reconcile
  \/ \E o \in DOMAIN store : Deliver(o)
  \/ \E m \in Names : HelmSteps(m) \/ FluxSuspend(m) \/ PutForeign(m)
  \/ \E w \in Renderings, suspended \in BOOLEAN : EditRelease(w, suspended)

Spec == Init /\ [][Next]_vars

\* The worker, the informers and helm-controller keep working.
FairSpec ==
  /\ Spec
  /\ WF_vars(Reconcile) /\ \A o \in Names \cup {rel} : WF_vars(Deliver(o))
  /\ \A m \in Names : WF_vars(HelmSteps(m))

----------------------------------------------------------------------------
(* Properties                                                              *)

\* The status holds a state of an enabled module, and a message about one of them.
TypeOK ==
  /\ store[rel].phase \in {"", "ERROR", "SUSPENDED", "WAIT_HREL", "READY"}
  /\ DOMAIN store[rel].states \subseteq Names
  /\ \A m \in DOMAIN store[rel].states : store[rel].states[m] \in {"", "True", "False", "Unknown"}
  /\ store[rel].message \in {None} \cup DOMAIN store[rel].states
  /\ \A m \in Names : store[m] # None => store[m].readyGeneration <= store[m].generation

\* The spec that is deployed.
Deployed(v, spec) ==
  /\ v # None /\ v.owner = rel /\ ~v.deleting /\ v.spec = spec
  /\ v.ready = "True" /\ v.observed = v.generation

\* A pass that sets READY does so when helm-controller has deployed the spec that each
\* enabled module renders, and not on its report about a former spec.
ReadyIsDeployedStep ==
  store'[rel].phase = "READY" /\ store[rel].phase # "READY" =>
    \A m \in Names : store[rel].wants[m] # None =>
      LET v == store'[m] IN
      /\ v # None /\ v.spec = store[rel].wants[m]
      /\ v.ready = "True" /\ v.observed = v.generation
ReadyIsDeployed == [][ReadyIsDeployedStep]_vars

\* helm-controller has a step to take (HelmSteps) for a module.
HelmBusy(m) ==
  /\ store[m] # None
  /\ \/ helm[m] # None
     \/ store[m].deleting
     \/ ~store[m].suspend /\ store[m].observed < store[m].generation

Settled ==
  /\ CaughtUp
  /\ queued => LET out == Outcome(cache[rel], None) IN out.error /\ cache[rel].phase = "ERROR"
                  /\ \A m \in DOMAIN out.writes : out.writes[m] = store[m]
  /\ \A m \in Names : ~HelmBusy(m)

\* Once nothing is under way, a Release that is not suspended is READY exactly when each
\* enabled module is deployed, and it controls no HelmRelease of a disabled module.
Deploys ==
  Settled /\ ~store[rel].suspended =>
    /\ (store[rel].phase = "READY") =
         (\A m \in Names : store[rel].wants[m] # None => Deployed(store[m], store[rel].wants[m]))
    /\ store[rel].phase # "ERROR" => \A m \in Names :
         store[rel].wants[m] = None => store[m] = None \/ store[m].owner # rel

\* A pass never changes a HelmRelease that the Release does not control, though it decides
\* on cached objects, nor spec.suspend, which flux suspend sets.
LeavesAloneStep ==
  \A m \in Names :
    /\ store'[m] # store[m] /\ store[m] # None
    /\ store[m].owner # rel \/ store'[m] = None \/ store'[m].suspend # store[m].suspend
    => ~Reconcile
LeavesAlone == [][LeavesAloneStep]_vars

\* The message is set in every reconciliation: a pass that finds what the former pass
\* found sets the same message.  This does not hold for two modules that are not ready.
SameMessage ==
  CaughtUp /\ ~cache[rel].suspended /\ cache[rel].phase = "WAIT_HREL" =>
    LET out == Outcome(cache[rel], None)
    IN ~out.error /\ out.states = cache[rel].states
         => \A message \in Messages(out.states) : message = cache[rel].message

\* Once nobody changes anything, each enabled module is deployed, unless its name is taken
\* or it is suspended, though the pass decides on cached objects.
AllDeployed ==
  \A m \in Names :
    /\ ~store[rel].suspended /\ store[rel].wants[m] \notin Failing \cup {None}
    /\ \A n \in Names : store[n] # None => store[n].owner = rel /\ ~store[n].suspend
    => Deployed(store[m], store[rel].wants[m])
=============================================================================
