------------------------------ MODULE MCCluster ------------------------------
(***************************************************************************)
(* Small instances of the controllers whose objects need no package:       *)
(* Replications, Contexts, Connections with their contracts, and, extended *)
(* here, the protection of a Release.  A behaviour is one of one instance, *)
(* the scenario, in its own cluster; the variables of the others do not    *)
(* change.                                                                 *)
(***************************************************************************)
EXTENDS Protection, FiniteSets, TLC

VARIABLES
  scenario,
  objects, events, known,   \* the server, the feed and the cache, outside of Protection
  queue, requests, timers, seen,
  creations, moves, changes, faults

controlVars == <<objects, events, known, queue, changes>>
replicationVars == <<timers, creations, moves, faults>>

----------------------------------------------------------------------------
(* Two Replications of one source to one destination, with caches that lag *)
(* behind (mirrors), or of two resources to each other (copies), and one   *)
(* Replication that moves between destinations (moves).                    *)

CONSTANTS p, q, src, copy, other, old, new, retyped

ToCopy == [source |-> src, dest |-> copy]
TypeOfData(data) == [d \in data |-> IF d = retyped THEN "tls" ELSE "Opaque"]
SourceOnly(resources) == [x \in resources |-> IF x = src THEN old ELSE None]

Mirrors == INSTANCE Replication WITH
  Replications <- {p, q}, Resources <- {src, copy}, Data <- {old, new}, Specs <- {ToCopy},
  TypeOf <- TypeOfData({old, new}), Initial <- SourceOnly({src, copy}),
  Lagging <- {p, q, src, copy},
  MaxCreations <- 2, MaxMoves <- 0, MaxEdits <- 1, MaxFailures <- 0,
  store <- objects, feed <- events, cache <- known, edits <- changes, failures <- faults

Copies == INSTANCE Replication WITH
  Replications <- {p, q}, Resources <- {src, copy}, Data <- {old},
  Specs <- {ToCopy, [source |-> copy, dest |-> src]},
  TypeOf <- TypeOfData({old}), Initial <- SourceOnly({src, copy}), Lagging <- {p, q},
  MaxCreations <- 3, MaxMoves <- 0, MaxEdits <- 0, MaxFailures <- 0,
  store <- objects, feed <- events, cache <- known, edits <- changes, failures <- faults

Moves == INSTANCE Replication WITH
  Replications <- {p}, Resources <- {src, copy, other}, Data <- {old, new, retyped},
  Specs <- {ToCopy, [source |-> src, dest |-> other]},
  TypeOf <- TypeOfData({old, new, retyped}), Initial <- SourceOnly({src, copy, other}),
  Lagging <- {}, MaxCreations <- 2, MaxMoves <- 1, MaxEdits <- 2, MaxFailures <- 0,
  store <- objects, feed <- events, cache <- known, edits <- changes, failures <- faults

ASSUME
  /\ Mirrors!SpecsAssumption /\ Mirrors!NoneAssumption /\ Mirrors!BoundsAssumption
  /\ Copies!SpecsAssumption /\ Copies!NoneAssumption /\ Copies!BoundsAssumption
  /\ Moves!SpecsAssumption /\ Moves!NoneAssumption /\ Moves!BoundsAssumption

----------------------------------------------------------------------------
(* Three Contexts: a root, a child of it that can become its parent, and a *)
(* grandchild of both.  One Release names the last, the other has the root *)
(* for a default context and the child for the one of its namespace.       *)

CONSTANTS root, mid, leaf, app, svc, Invalid

Specification(parents, own, protected) ==
  [parents |-> parents, own |-> own, protected |-> protected]

Tree == INSTANCE ContextTree WITH
  Contexts <- {root, mid, leaf}, Releases <- {app, svc}, Keys <- {"x", "y"},
  SpecsOf <-
    (root :> {Specification(<<>>, [x |-> 1], TRUE), Specification(<<>>, [x |-> 2], FALSE),
              Specification(<<>>, Invalid, FALSE), Specification(<<leaf>>, [x |-> 1], FALSE)})
    @@ (mid :> {Specification(<<root>>, [y |-> 1], FALSE), Specification(<<>>, [y |-> 2], FALSE)})
    @@ (leaf :> {Specification(<<root, mid>>, <<>>, FALSE),
                 Specification(<<mid>>, [y |-> 3], FALSE)}),
  First <-
    (root :> Specification(<<>>, [x |-> 1], TRUE))
    @@ (mid :> Specification(<<root>>, [y |-> 1], FALSE))
    @@ (leaf :> Specification(<<root, mid>>, <<>>, FALSE)),
  Defaults <- <<root>>, NamespaceOf <- (app :> <<>>) @@ (svc :> <<mid>>),
  Named <- (app :> <<leaf>>) @@ (svc :> <<>>),
  MaxEdits <- 2,
  store <- objects, feed <- events, cache <- known, edits <- changes

ASSUME Tree!SpecsAssumption /\ Tree!BoundsAssumption

----------------------------------------------------------------------------
(* A Connection and a ClusterConnection over the two contracts of one      *)
(* name.                                                                   *)

CONSTANTS cnx, ccnx, one, two, Broken

Checks == INSTANCE Connections WITH
  Names <- {"db"}, Namespaced <- {cnx}, ClusterWide <- {ccnx}, Handmade <- {cnx, ccnx},
  Values <- {one, two}, Schemas <- {{one}, {one, two, None}}, MaxEdits <- 3,
  store <- objects, feed <- events, cache <- known, edits <- changes

ASSUME Checks!ConnectionsAssumption

----------------------------------------------------------------------------
(* The behaviours                                                          *)

NoReplications == timers = None /\ creations = None /\ moves = None /\ faults = None
NoContexts == requests = None /\ seen = None

\* The Release does not exist.
Still ==
  /\ KubeInit(The(None)) /\ queued = FALSE
  /\ computed = None /\ deleted = None /\ edits = 0 /\ failures = 0

AllInit ==
  \/ /\ scenario = "protection" /\ Init
     /\ objects = None /\ events = None /\ known = None /\ queue = None /\ changes = None
     /\ NoReplications /\ NoContexts
  \/ /\ Still /\ NoContexts
     /\ \/ scenario = "mirrors" /\ Mirrors!Init
        \/ scenario = "copies" /\ Copies!Init
        \/ scenario = "moves" /\ Moves!Init
  \/ scenario = "contexts" /\ Still /\ NoReplications /\ Tree!Init
  \/ scenario = "connections" /\ Still /\ NoReplications /\ NoContexts /\ Checks!Init

AllNext ==
  /\ UNCHANGED scenario
  /\ \/ /\ scenario = "protection" /\ Next
        /\ UNCHANGED <<controlVars, replicationVars, requests, seen>>
     \/ /\ \/ scenario = "mirrors" /\ Mirrors!Next
           \/ scenario = "copies" /\ Copies!Next
           \/ scenario = "moves" /\ Moves!Next
        /\ UNCHANGED <<vars, requests, seen>>
     \/ /\ scenario = "contexts" /\ Tree!Next
        /\ UNCHANGED <<vars, replicationVars>>
     \/ /\ scenario = "connections" /\ Checks!Next
        /\ UNCHANGED <<vars, replicationVars, requests, seen>>

AllSpec ==
  AllInit /\ [][AllNext]_<<scenario, vars, controlVars, replicationVars, requests, seen>>

----------------------------------------------------------------------------
(* Properties                                                              *)

\* Once the worker has nothing left to do, each living Replication is READY, its recorded copy
\* equal to its source, or in ERROR because the server's objects leave nothing to copy; and each
\* copy is the recorded destination of a living Replication whose source exists, provided that
\* the copies themselves are read without lag.
MirrorsSource ==
  /\ scenario = "mirrors" => Mirrors!TypeOK /\ Mirrors!MirrorsSource
  /\ scenario = "copies" => Copies!TypeOK /\ Copies!NoOrphan
  /\ scenario = "moves" => Moves!TypeOK /\ Moves!NoOrphan

\* A pass never takes, changes or deletes the copy of another living Replication, though it
\* deletes without a precondition, provided that the copies are read without lag.
LeavesOthers == [][scenario = "copies" => Copies!LeavesOthersStep]_objects

\* Once idle, each Context is READY with the values it inherits, or in ERROR when it is invalid,
\* on a cycle, or below a Context that is missing or in error: no stale merge stays anywhere;
\* and each Release has computed its context from the Contexts as they are.
Inherits ==
  scenario = "contexts" => Tree!TypeOK /\ Tree!Inherits /\ Tree!ReleasesFollow

\* Once settled, a connection is READY exactly when the contract that counts for it accepts its
\* values, whatever contracts came, changed or went, and in whatever order this was learnt; and
\* status.contractGeneration is the generation of that contract.
ChecksFollow ==
  scenario = "connections" => Checks!TypeOK /\ Checks!ChecksFollow /\ Checks!ChecksLatest
=============================================================================
