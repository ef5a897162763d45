-------------------------- MODULE MCReleaseObjects --------------------------
(***************************************************************************)
(* Small instances of the modules about the objects that a pass of a       *)
(* Release makes or reads: the Flux sources and the folder of its package, *)
(* its HelmReleases, the connections of its outputs, together with the     *)
(* controllers that check them, and the connections of its inputs.  A      *)
(* behaviour is one of one instance, the scenario, in its own cluster; the *)
(* variables of the others are None.                                       *)
(***************************************************************************)
EXTENDS Naturals, FiniteSets, TLC

CONSTANTS None, rel

VARIABLES
  scenario,
  store, feed, cache,
  registry, flux, folder, held, used, moves,
  helm, queued, deployed,
  queue, requests, renders,
  edits, failures

----------------------------------------------------------------------------
(* Two packages of two files: with caches that lag behind, calls that fail *)
(* and a fetch cut by a crash (sources), with sources that users replace   *)
(* (replaced), and with one of the packages over insecure transport         *)
(* (secure).                                                               *)

CONSTANTS oci, hr, r1, r2

Sources == INSTANCE FluxSources WITH
  Revisions <- {r1, r2}, Parts <- {"charts", "index"}, Packages <- {"p", "q"},
  Insecure <- {}, Foreign <- {}, Interrupts <- {"creation", "fetch"},
  Lagging <- {rel, oci, hr},
  MaxMoves <- 1, MaxFailures <- 1

Replaced == INSTANCE FluxSources WITH
  Revisions <- {r1}, Parts <- {"charts", "index"}, Packages <- {"p", "q"},
  Insecure <- {}, Foreign <- {oci, hr}, Interrupts <- {}, Lagging <- {oci, hr},
  MaxMoves <- 2, MaxFailures <- 0

Secure == INSTANCE FluxSources WITH
  Revisions <- {r1}, Parts <- {"charts", "index"}, Packages <- {"p", "q"},
  Insecure <- {"q"}, Foreign <- {}, Interrupts <- {}, Lagging <- {rel, oci},
  MaxMoves <- 2, MaxFailures <- 1

ASSUME Sources!SourcesAssumption /\ Replaced!SourcesAssumption /\ Secure!SourcesAssumption

----------------------------------------------------------------------------
(* A package of two modules that changes (pair), or of one that users   *)
(* toggle, suspend and replace (single).                                   *)

CONSTANTS m1, m2, one, two

Pair == INSTANCE HelmReleases WITH
  Modules <- <<m1, m2>>, Failing <- {two},
  Renderings <- [{m1, m2} -> {one, two}] \cup {m1 :> one @@ m2 :> None},
  Lagging <- {m2}, MaxEdits <- 1, MaxFailures <- 0

Single == INSTANCE HelmReleases WITH
  Modules <- <<m1>>, Failing <- {two}, Renderings <- [{m1} -> {one, two, None}],
  Lagging <- {rel, m1}, MaxEdits <- 2, MaxFailures <- 1

ASSUME Pair!HelmAssumption /\ Single!HelmAssumption

----------------------------------------------------------------------------
(* One Release with an output of each kind (outputs), and two Releases     *)
(* whose names and outputs give one name of ClusterConnection (shared).    *)

CONSTANTS app, svc, cnx, ccnx, Broken

Output(c, values) == [object |-> c, contract |-> "db", values |-> values]

Outputs == INSTANCE ReleaseOutputs WITH
  Names <- {"db"}, Namespaced <- {cnx}, ClusterWide <- {ccnx}, Handmade <- {},
  Values <- {one, two}, Schemas <- {{one}, {one, two, None}}, Releases <- {app},
  Renderings <- app :> {<<Output(cnx, one), Output(ccnx, one)>>, <<Output(cnx, two)>>},
  Lagging <- {app, ccnx}, MaxRenders <- 1, MaxEdits <- 1, MaxFailures <- 0

Shared == INSTANCE ReleaseOutputs WITH
  Names <- {"db"}, Namespaced <- {}, ClusterWide <- {ccnx}, Handmade <- {},
  Values <- {one, two}, Schemas <- {{one, two, None}}, Releases <- {app, svc},
  Renderings <- app :> {<<Output(ccnx, one)>>, <<>>} @@ svc :> {<<Output(ccnx, two)>>},
  Lagging <- {app, svc}, MaxRenders <- 2, MaxEdits <- 0, MaxFailures <- 0

ASSUME Outputs!ConnectionsAssumption /\ Outputs!OutputsAssumption
ASSUME Shared!ConnectionsAssumption /\ Shared!OutputsAssumption

----------------------------------------------------------------------------
(* A Release with an input by name (refs) or by contract (lookups), over   *)
(* Connections and ClusterConnections some of which have the same name.    *)

CONSTANTS k1, k2, g1, db, mq, x, y

Input(name, kind, optional, multiple) ==
  [contract |-> db, name |-> name, kind |-> kind, optional |-> optional, multiple |-> multiple]

KindOf == (k1 :> "Connection") @@ (k2 :> "Connection") @@ (g1 :> "ClusterConnection")
NameOf == (k1 :> 1) @@ (k2 :> 2) @@ (g1 :> 1)

Refs == INSTANCE InputModel WITH
  Cnxs <- {k1, k2, g1}, Contracts <- {db, mq}, Priorities <- {1}, Values <- {x, y},
  InputLists <- {<<Input(1, None, FALSE, FALSE)>>, <<Input(2, "Connection", TRUE, FALSE)>>,
                 <<Input(1, "ClusterConnection", FALSE, FALSE)>>},
  Existing <- {k1}, Creatable <- {k1, g1}, Lagging <- {rel, k1}, MaxEdits <- 2, MaxFailures <- 1

Lookups == INSTANCE InputModel WITH
  Cnxs <- {k1, k2, g1}, Contracts <- {db}, Priorities <- {1, 2}, Values <- {x, y},
  InputLists <- {<<Input(None, None, FALSE, TRUE)>>, <<Input(None, "Connection", TRUE, FALSE)>>},
  Existing <- {k1, k2, g1}, Creatable <- {}, Lagging <- {rel, k1, k2, g1},
  MaxEdits <- 1, MaxFailures <- 0

ASSUME Refs!InputAssumption /\ Lookups!InputAssumption

----------------------------------------------------------------------------
(* The behaviours                                                          *)

sourceVars == <<registry, flux, folder, held, used, moves>>
outputVars == <<queue, requests, renders>>

NoSources ==
  /\ registry = None /\ flux = None /\ folder = None /\ held = None /\ used = None
  /\ moves = None
NoOutputs == queue = None /\ requests = None /\ renders = None

Init ==
  \/ /\ \/ scenario = "sources" /\ Sources!Init
        \/ scenario = "replaced" /\ Replaced!Init
        \/ scenario = "secure" /\ Secure!Init
     /\ NoOutputs /\ helm = None /\ deployed = None /\ edits = None
  \/ /\ \/ scenario = "pair" /\ Pair!Init
        \/ scenario = "single" /\ Single!Init
     /\ NoSources /\ NoOutputs /\ deployed = None
  \/ /\ \/ scenario = "outputs" /\ Outputs!OutInit
        \/ scenario = "shared" /\ Shared!OutInit
     /\ NoSources /\ helm = None /\ queued = None /\ deployed = None
  \/ /\ \/ scenario = "refs" /\ Refs!Init
        \/ scenario = "lookups" /\ Lookups!Init
     /\ NoSources /\ NoOutputs /\ helm = None

Next ==
  /\ UNCHANGED scenario
  /\ \/ /\ \/ scenario = "sources" /\ Sources!Next
           \/ scenario = "replaced" /\ Replaced!Next
           \/ scenario = "secure" /\ Secure!Next
        /\ UNCHANGED <<outputVars, helm, deployed, edits>>
     \/ /\ \/ scenario = "pair" /\ Pair!Next
           \/ scenario = "single" /\ Single!Next
        /\ UNCHANGED <<sourceVars, outputVars, deployed>>
     \/ /\ \/ scenario = "outputs" /\ Outputs!OutNext
           \/ scenario = "shared" /\ Shared!OutNext
        /\ UNCHANGED <<sourceVars, helm, queued, deployed>>
     \/ /\ \/ scenario = "refs" /\ Refs!Next
           \/ scenario = "lookups" /\ Lookups!Next
        /\ UNCHANGED <<sourceVars, outputVars, helm>>

vars == <<scenario, store, feed, cache, sourceVars, outputVars, helm, queued, deployed, edits,
          failures>>

Spec == Init /\ [][Next]_vars

----------------------------------------------------------------------------
(* Properties                                                              *)

\* The sources implement PackageUse: a pass goes on with all the files of the revision that
\* the OCIRepository had, and with nothing else, though a fetch can be cut by a crash.
Promise == INSTANCE PackageUse WITH
  Revisions <- {r1, r2}, Parts <- {"charts", "index"},
  published <- IF scenario = "sources" THEN Sources!Published ELSE None,
  taken <- IF scenario = "sources" THEN Sources!Taken ELSE None,
  used <- IF scenario = "sources" THEN Sources!UsedFiles ELSE None
UsesPublished == Promise!Spec

\* A pass goes on with a revision of the package of the spec that it read, and with charts from
\* the index of that revision: what Flux reports late, of a former spec or a former folder, is
\* not taken for the artifact of the new one.  No pass goes on with a package over insecure
\* transport, and once the Release has no request left, its OCIRepository is secure.
IndexFollows ==
  /\ scenario = "sources" => Sources!TypeOK /\ Sources!RevisionOfPackage /\ Sources!IndexFollows
  /\ scenario = "replaced" => Replaced!TypeOK
  /\ scenario = "secure" => Secure!TypeOK /\ Secure!StaysSecure

\* A pass never changes what belongs to someone else, though it decides on cached objects and
\* users replace them under their names: a source or a HelmRelease that the Release does not
\* control, spec.suspend, which flux suspend sets, and a ClusterConnection whose parentRelease
\* names another Release (provided that the ClusterConnections are read without lag).
LeavesForeign ==
  [][/\ scenario = "replaced" => Replaced!LeavesForeignStep
     /\ scenario = "single" => Single!LeavesAloneStep
     /\ scenario = "shared" => Shared!LeavesAloneStep]_store

\* Once nothing is under way, a Release that is not suspended is READY exactly when each
\* enabled module is deployed, and it controls no HelmRelease of a disabled module.
Deploys ==
  /\ scenario = "pair" => Pair!TypeOK /\ Pair!Deploys
  /\ scenario = "single" => Single!TypeOK /\ Single!Deploys

\* A pass that sets READY does so when helm-controller has deployed the spec that each enabled
\* module renders, and not on its report about a former spec.
ReadyIsDeployed == [][scenario = "pair" => Pair!ReadyIsDeployedStep]_store

\* Once settled, a Release is READY exactly when each of its outputs is there with the values
\* that it renders now and was found READY by its own controller; and a READY Release has no
\* connection of a former output (provided that the ClusterConnections are read without lag).
OutputsFollow ==
  /\ scenario = "outputs" => Outputs!OutTypeOK /\ Outputs!OutputsFollow
  /\ scenario = "shared" => Shared!OutTypeOK /\ Shared!OutputsFollow /\ Shared!NoFormer

\* Once nothing is under way, a Release waits exactly when an input has no connection of its
\* own, and a READY one deploys with the values that its connections have, in whatever order
\* the events and the status reach the cache.
InputsFollow ==
  /\ scenario = "refs" => Refs!TypeOK /\ Refs!InputsFollow
  /\ scenario = "lookups" => Lookups!TypeOK /\ Lookups!InputsFollow
=============================================================================
