----------------------------- MODULE MCProgress -----------------------------
(***************************************************************************)
(* Small instances on which something must happen in the end, under the    *)
(* fairness that each module states, and, extended here, the readers of    *)
(* StreamLimits.  A behaviour is one of one instance, the scenario, in its *)
(* own cluster; the variables of the others do not change.                 *)
(***************************************************************************)
EXTENDS StreamLimits, TLC

CONSTANT rel

VARIABLES
  scenario,
  store, feed, cache,
  queue, timers, requests, seen,
  registry, flux, folder, used,
  helm, deployed,
  spec, objects, granted, pass, reads, phase,
  queued, held,
  creations, moves, renders, edits, failures

----------------------------------------------------------------------------
(* A Replication, one of whose specs has no source, that moves and is      *)
(* deleted, over a failed call or a crash.                                 *)

CONSTANTS p, src, copy, other, old

Copies == INSTANCE Replication WITH
  Replications <- {p}, Resources <- {src, copy, other}, Data <- {old},
  Specs <- {[source |-> src, dest |-> copy], [source |-> src, dest |-> src],
            [source |-> None, dest |-> other]},
  TypeOf <- (old :> "Opaque"), Initial <- (src :> old @@ copy :> None @@ other :> None),
  Lagging <- {p, src, copy, other},
  MaxCreations <- 1, MaxMoves <- 1, MaxEdits <- 0, MaxFailures <- 1

ASSUME Copies!SpecsAssumption /\ Copies!NoneAssumption /\ Copies!BoundsAssumption

----------------------------------------------------------------------------
(* A root, a child of it that can become its parent, and a grandchild of   *)
(* both, which a Release names.                                            *)

CONSTANTS root, mid, leaf, app, Invalid

Specification(parents, own, protected) ==
  [parents |-> parents, own |-> own, protected |-> protected]

Tree == INSTANCE ContextTree WITH
  Contexts <- {root, mid, leaf}, Releases <- {app}, Keys <- {"x", "y"},
  SpecsOf <-
    (root :> {Specification(<<>>, [x |-> 1], TRUE), Specification(<<>>, [x |-> 2], FALSE),
              Specification(<<>>, Invalid, FALSE), Specification(<<leaf>>, [x |-> 1], FALSE)})
    @@ (mid :> {Specification(<<root>>, [y |-> 1], FALSE), Specification(<<>>, [y |-> 2], FALSE)})
    @@ (leaf :> {Specification(<<root, mid>>, <<>>, FALSE)}),
  First <-
    (root :> Specification(<<>>, [x |-> 1], TRUE))
    @@ (mid :> Specification(<<root>>, [y |-> 1], FALSE))
    @@ (leaf :> Specification(<<root, mid>>, <<>>, FALSE)),
  Defaults <- <<root>>, NamespaceOf <- (app :> <<>>), Named <- (app :> <<leaf>>), MaxEdits <- 1

ASSUME Tree!SpecsAssumption /\ Tree!BoundsAssumption

----------------------------------------------------------------------------
(* A Release with a ClusterConnection, deleted over a failed call.         *)

CONSTANTS ccnx, one, two, Broken

Outputs == INSTANCE ReleaseOutputs WITH
  Names <- {"db"}, Namespaced <- {}, ClusterWide <- {ccnx}, Handmade <- {},
  Values <- {one}, Schemas <- {{one, None}}, Releases <- {app},
  Renderings <- app :> {<<[object |-> ccnx, contract |-> "db", values |-> one]>>, <<>>},
  Lagging <- {app}, MaxRenders <- 2, MaxEdits <- 0, MaxFailures <- 1

ASSUME Outputs!ConnectionsAssumption /\ Outputs!OutputsAssumption

----------------------------------------------------------------------------
(* Two packages of two revisions, and a failed call or a cut fetch.        *)

CONSTANTS oci, hr, r1, r2

Sources == INSTANCE FluxSources WITH
  Revisions <- {r1, r2}, Parts <- {"charts", "index"}, Packages <- {"p", "q"},
  Insecure <- {}, Foreign <- {}, Interrupts <- {"fetch"}, Lagging <- {},
  MaxMoves <- 1, MaxFailures <- 1

ASSUME Sources!SourcesAssumption

----------------------------------------------------------------------------
(* A module that is toggled or suspended, over a failed call.              *)

CONSTANT m1

Module == INSTANCE HelmReleases WITH
  Modules <- <<m1>>, Failing <- {two}, Renderings <- [{m1} -> {one, two, None}],
  Lagging <- {m1}, MaxEdits <- 1, MaxFailures <- 1

ASSUME Module!HelmAssumption

----------------------------------------------------------------------------
(* An input by name.                                                       *)

CONSTANTS k1, k2, g1, db, v1, v2

Input(name, kind, optional) ==
  [contract |-> db, name |-> name, kind |-> kind, optional |-> optional, multiple |-> FALSE]

Inputs == INSTANCE InputModel WITH
  Cnxs <- {k1, k2, g1}, Contracts <- {db}, Priorities <- {1}, Values <- {v1, v2},
  KindOf <- (k1 :> "Connection") @@ (k2 :> "Connection") @@ (g1 :> "ClusterConnection"),
  NameOf <- (k1 :> 1) @@ (k2 :> 2) @@ (g1 :> 1),
  InputLists <- {<<Input(1, None, FALSE)>>, <<Input(2, "Connection", TRUE)>>,
                 <<Input(1, "ClusterConnection", FALSE)>>},
  Existing <- {k1}, Creatable <- {k1, g1}, Lagging <- {rel, k1}, MaxEdits <- 1, MaxFailures <- 1

ASSUME Inputs!InputAssumption

----------------------------------------------------------------------------
(* A condition with an expression, and one of another namespace.           *)

CONSTANT home

Cond(kind, namespace, cel) ==
  [group |-> "", kind |-> kind, named |-> TRUE, namespace |-> namespace, cel |-> cel]

Conditions == INSTANCE ReleaseConditions WITH
  ConditionLists <- {<<Cond("secret", None, "ok"), Cond("ConfigMap", other, None)>>},
  Contents <- {"absent", "true", "false", "unset"}, MaxEdits <- 3

ASSUME Conditions!ConditionsAssumption

----------------------------------------------------------------------------
(* The behaviours                                                          *)

kubeVars == <<store, feed, cache>>
copyVars == <<timers, creations>>
sourceVars == <<registry, flux, folder, used>>
conditionVars == <<spec, objects, granted, pass, reads, phase>>

NoKube == store = None /\ feed = None /\ cache = None
NoCopies == timers = None /\ creations = None
NoSources == registry = None /\ flux = None /\ folder = None /\ used = None
NoConditions ==
  /\ spec = None /\ objects = None /\ granted = None /\ pass = None /\ reads = None
  /\ phase = None

\* Every reader has read its stream, which was empty.
Read ==
  /\ total = 0 /\ limit = 1 /\ pending = FALSE
  /\ pos = [r \in Readers |-> 0] /\ given = [r \in Readers |-> 0]
  /\ result = [r \in Readers |-> "end"]

AllInit ==
  \/ /\ scenario = "stream" /\ Init
     /\ NoKube /\ NoCopies /\ NoSources /\ NoConditions
     /\ queue = None /\ requests = None /\ seen = None /\ helm = None /\ deployed = None
     /\ queued = None /\ held = None
     /\ moves = None /\ renders = None /\ edits = None /\ failures = None
  \/ /\ scenario = "copies" /\ Read /\ Copies!Init
     /\ NoSources /\ NoConditions
     /\ requests = None /\ seen = None /\ helm = None /\ deployed = None
     /\ queued = None /\ held = None /\ renders = None
  \/ /\ scenario = "contexts" /\ Read /\ Tree!Init
     /\ NoCopies /\ NoSources /\ NoConditions
     /\ helm = None /\ deployed = None /\ queued = None /\ held = None
     /\ moves = None /\ renders = None /\ failures = None
  \/ /\ scenario = "outputs" /\ Read /\ Outputs!OutInit
     /\ NoCopies /\ NoSources /\ NoConditions
     /\ seen = None /\ helm = None /\ deployed = None /\ queued = None /\ held = None
     /\ moves = None
  \/ /\ scenario = "sources" /\ Read /\ Sources!Init
     /\ NoCopies /\ NoConditions
     /\ queue = None /\ requests = None /\ seen = None /\ helm = None /\ deployed = None
     /\ renders = None /\ edits = None
  \/ /\ scenario = "module" /\ Read /\ Module!Init
     /\ NoCopies /\ NoSources /\ NoConditions
     /\ queue = None /\ requests = None /\ seen = None /\ deployed = None /\ held = None
     /\ moves = None /\ renders = None
  \/ /\ scenario = "inputs" /\ Read /\ Inputs!Init
     /\ NoCopies /\ NoSources /\ NoConditions
     /\ queue = None /\ requests = None /\ seen = None /\ helm = None /\ held = None
     /\ moves = None /\ renders = None
  \/ /\ scenario = "conditions" /\ Read /\ Conditions!Init
     /\ NoKube /\ NoCopies /\ NoSources
     /\ queue = None /\ requests = None /\ seen = None /\ helm = None /\ deployed = None
     /\ moves = None /\ renders = None /\ failures = None

AllNext ==
  /\ UNCHANGED scenario
  /\ \/ /\ scenario = "stream" /\ Next
        /\ UNCHANGED <<kubeVars, copyVars, sourceVars, conditionVars, queue, requests, seen, helm,
                       deployed, queued, held, moves, renders, edits, failures>>
     \/ /\ scenario = "copies" /\ Copies!Next
        /\ UNCHANGED <<vars, sourceVars, conditionVars, requests, seen, helm, deployed, queued,
                       held, renders>>
     \/ /\ scenario = "contexts" /\ Tree!Next
        /\ UNCHANGED <<vars, copyVars, sourceVars, conditionVars, helm, deployed, queued, held,
                       moves, renders, failures>>
     \/ /\ scenario = "outputs" /\ Outputs!OutNext
        /\ UNCHANGED <<vars, copyVars, sourceVars, conditionVars, seen, helm, deployed, queued,
                       held, moves>>
     \/ /\ scenario = "sources" /\ Sources!Next
        /\ UNCHANGED <<vars, copyVars, conditionVars, queue, requests, seen, helm, deployed,
                       renders, edits>>
     \/ /\ scenario = "module" /\ Module!Next
        /\ UNCHANGED <<vars, copyVars, sourceVars, conditionVars, queue, requests, seen, deployed,
                       held, moves, renders>>
     \/ /\ scenario = "inputs" /\ Inputs!Next
        /\ UNCHANGED <<vars, copyVars, sourceVars, conditionVars, queue, requests, seen, helm,
                       held, moves, renders>>
     \/ /\ scenario = "conditions" /\ Conditions!Next
        /\ UNCHANGED <<vars, kubeVars, copyVars, sourceVars, queue, requests, seen, helm, deployed,
                       moves, renders, failures>>

allVars ==
  <<scenario, vars, kubeVars, copyVars, sourceVars, conditionVars, queue, requests, seen, helm,
    deployed, queued, held, moves, renders, edits, failures>>

\* The fairness of each module.  The scenario never changes, so that one conjunct can hold a
\* step of each scenario: WF of the disjunction is WF of the step of the scenario.
fairVars ==
  CASE scenario = "stream" -> vars
    [] scenario = "copies" -> Copies!vars
    [] scenario = "contexts" -> Tree!vars
    [] scenario = "outputs" -> Outputs!allVars
    [] scenario = "sources" -> Sources!vars
    [] scenario = "module" -> Module!vars
    [] scenario = "inputs" -> Inputs!vars
    [] scenario = "conditions" -> Conditions!vars

\* The i-th object of the scenario receives its next version.
DeliverNth(i) ==
  /\ UNCHANGED scenario
  /\ \/ scenario = "copies" /\ Copies!Deliver(<<p, src, copy, other>>[i])
     \/ scenario = "contexts" /\ i <= 3 /\ Tree!Deliver(<<root, mid, leaf>>[i])
     \/ /\ scenario = "outputs"
        /\ Outputs!DeliverAll(<<Outputs!Local("db"), Outputs!Global("db"), ccnx, app>>[i])
     \/ scenario = "sources" /\ i <= 3 /\ Sources!Deliver(<<rel, oci, hr>>[i])
     \/ scenario = "module" /\ i <= 2 /\ Module!Deliver(<<rel, m1>>[i])
     \/ scenario = "inputs" /\ Inputs!Deliver(<<rel, k1, k2, g1>>[i])

\* A step of the i-th worker, of the controllers, of Flux or of a reader of a stream.
WorkNth(i) ==
  /\ UNCHANGED scenario
  /\ \/ /\ scenario = "stream"
        /\ \/ i = 1 /\ ReadLimited
           \/ i = 2 /\ ReadStream
           \/ i = 3 /\ ReadMetadata
           \/ i = 4 /\ DecodeManifest
     \/ scenario = "contexts" /\ i <= 3 /\ Tree!Reconcile(<<root, mid, leaf>>[i])
     \/ scenario = "contexts" /\ i = 4 /\ Tree!ReconcileRelease(app)
     \/ scenario = "outputs" /\ i = 1 /\ Outputs!CheckSteps /\ UNCHANGED <<requests, renders, failures>>
     \/ scenario = "outputs" /\ i = 2 /\ Outputs!Reconcile(app)
     \/ /\ scenario = "sources"
        /\ \/ i = 1 /\ Sources!Reconcile
           \/ i = 2 /\ Sources!ReconcileCharts
           \/ i \in {3, 4} /\ Sources!FluxFetch(<<oci, hr>>[i - 2])
           \/ i \in {5, 6} /\ Sources!FluxReport(<<oci, hr>>[i - 4])
           \/ i \in {7, 8} /\ Sources!FluxFinalize(<<oci, hr>>[i - 6])
     \/ scenario = "module" /\ i = 1 /\ Module!Reconcile
     \/ scenario = "module" /\ i = 2 /\ Module!HelmSteps(m1)
     \/ scenario = "inputs" /\ i = 1 /\ Inputs!Reconcile
     \/ scenario = "conditions" /\ i = 1 /\ Conditions!Start
     \/ scenario = "conditions" /\ i = 2 /\ Conditions!Check
     \/ scenario = "conditions" /\ i = 3 /\ Conditions!Deploy

AllSpec ==
  /\ AllInit /\ [][AllNext]_allVars
  /\ \A i \in 1..4 : WF_fairVars(DeliverNth(i))
  /\ \A i \in 1..8 : WF_fairVars(WorkNth(i))
  /\ SF_fairVars(UNCHANGED scenario /\ scenario = "copies" /\ Copies!Reconcile(p))

----------------------------------------------------------------------------
(* Properties                                                              *)

\* Once settled, no ClusterConnection is left of a deleted Release: its finalizer stayed until
\* the server had deleted each of them, though a deletion can fail.
NoneLeft == scenario = "outputs" => Outputs!NoneLeft

\* A deleted Replication, or a Release, goes away, whatever the failures and crashes on the way:
\* what its finalizer stands for is tried again.  Users make finitely many deletions.
DeletionEnds ==
  <>[](/\ scenario = "copies" => ~Copies!Deleting(p)
       /\ scenario = "outputs" => ~Outputs!Deleting(app))

\* Once nobody changes anything, what the controllers keep comes to be right, and stays so: the
\* passes of the Contexts, which make events that make passes, come to rest with every Context
\* and Release up to date; a Release goes on with the package of its spec, at its revision in
\* the registry and with charts of that revision; each enabled module is deployed, unless its
\* name is taken or it is suspended; the inputs have the values of their connections; and a
\* Release whose conditions hold is deployed, without any event, as it polls while it waits
\* and while a read is refused.  A reader of a stream comes to its end.
Converges ==
  <>[](/\ \A r \in Readers : result[r] # None
       /\ scenario = "contexts" => Tree!AtRest
       /\ scenario = "sources" => Sources!Converged
       /\ scenario = "module" => Module!AllDeployed
       /\ scenario = "inputs" => Inputs!Following
       /\ scenario = "conditions" /\ Conditions!Wanted => phase = "READY")
=============================================================================
