---------------------------- MODULE ConfigRollout ----------------------------
(***************************************************************************)
(* How a change of the Configs reaches every Release.  Two workers share   *)
(* the ConfigStore (src/internal/configstore/configstore.go): the Config   *)
(* controller publishes configurations in it, and the Release controller   *)
(* reads the current one at several points of a pass, each read on its     *)
(* own.  Loaded packages hold defaults of the configuration, and are kept  *)
(* in a cache under the revision of the image and the version of the       *)
(* configuration.  Releases are told of a publication through a channel of *)
(* one slot (src/internal/controller/config_controller.go).                *)
(***************************************************************************)
EXTENDS Naturals, FiniteSets

CONSTANTS
  Releases,     \* the Releases, which all exist from the start
  Contents,     \* what the Configs can hold, taken together
  Valid,        \* those that newConfiguration accepts
  First,        \* what they hold at the start
  Revisions,    \* revisions of package images
  RevisionOf,   \* the revision of the image of each Release
  None,         \* no Release, no package
  MaxEdits,     \* bound on the changes of the Configs
  MaxCrashes    \* bound on the crashes of the controller

ASSUME ContentsAssumption == Valid \subseteq Contents /\ First \in Valid
ASSUME RevisionsAssumption == RevisionOf \in [Releases -> Revisions]
ASSUME BoundsAssumption == MaxEdits \in Nat /\ MaxCrashes \in Nat
ASSUME NoneAssumption == None \notin Releases

VARIABLES
  configs,       \* what the Configs hold, at the API server
  configCache,   \* what the informer of the manager holds
  unseen,        \* the Release controller has not handled the event of a Config
  configQueue,   \* a request waits for the Config worker
  configPc,      \* where the Config worker is
  listed,        \* what it listed
  current,       \* the published configuration: version, content
  published,     \* the slot of the channel holds an event
  queue,         \* requests of the Release worker
  pc,            \* where the Release worker is
  rel,           \* the Release of the pass
  key,           \* the version that the pass looks up
  package,       \* the package it loads: the versions its defaults come from
  read,          \* versions read in the pass
  lastRead,      \* versions that the last pass of each Release depended on
  packageCache,  \* the packages kept, each with its revision and version
  up,            \* the controller runs
  edits, crashes \* what is left of the bounds

configVars == <<configs, configCache, unseen, configQueue, configPc, listed>>
workerVars == <<queue, pc, rel, key, package, read, lastRead, packageCache>>
bounds == <<edits, crashes>>
vars == <<configVars, current, published, workerVars, up, bounds>>

\* A package takes its default timeout and its default interval from a configuration.
Packages == [timeout : Nat, interval : Nat]
Entries == [revision : Revisions, version : Nat, package : Packages]

Init ==
  /\ configs = First /\ configCache = First /\ unseen = FALSE
  /\ configQueue \in BOOLEAN /\ configPc = "idle" /\ listed = First
  /\ current = [version |-> 1, content |-> First]
  /\ published = FALSE
  /\ queue = Releases
  /\ pc = "idle" /\ rel = None /\ key = 0 /\ package = None /\ read = {}
  /\ lastRead = [r \in Releases |-> {}]
  /\ packageCache = {}
  /\ up = TRUE
  /\ edits = MaxEdits /\ crashes = MaxCrashes

-----------------------------------------------------------------------------
(* Users, the API server and the informers. *)

EditConfigs(c) ==
  /\ edits > 0 /\ edits' = edits - 1
  /\ c # configs
  /\ configs' = c
  /\ UNCHANGED <<configCache, unseen, configQueue, configPc, listed, current, published, workerVars, up, crashes>>

\* The informer sees the Configs, and calls the handlers of both controllers.
DeliverConfigs ==
  /\ up /\ configCache # configs
  /\ configCache' = configs
  /\ configQueue' = TRUE
  /\ unseen' = TRUE
  /\ UNCHANGED <<configs, configPc, listed, current, published, workerVars, up, bounds>>

\* findReleaseFromConfig, for the event of a Config and for the channel.
HandleConfigEvent ==
  /\ up /\ unseen
  /\ unseen' = FALSE
  /\ queue' = Releases
  /\ UNCHANGED <<configs, configCache, configQueue, configPc, listed, current, published,
                 pc, rel, key, package, read, lastRead, packageCache, up, bounds>>

HandlePublished ==
  /\ up /\ published
  /\ published' = FALSE
  /\ queue' = Releases
  /\ UNCHANGED <<configVars, current, pc, rel, key, package, read, lastRead, packageCache, up, bounds>>

-----------------------------------------------------------------------------
(* The Config worker. *)

ListConfigs ==
  /\ up /\ configPc = "idle" /\ configQueue
  /\ configQueue' = FALSE
  /\ listed' = configCache
  /\ configPc' = "add"
  /\ UNCHANGED <<configs, configCache, unseen, current, published, workerVars, up, bounds>>

\* Mutants: Configs that do not load are published, or are not tried again.
AddConfigsUnchecked ==
  /\ up /\ configPc = "add"
  /\ current' = [version |-> current.version + 1, content |-> listed]
  /\ configPc' = "publish"
  /\ UNCHANGED <<configs, configCache, unseen, configQueue, listed, published, workerVars, up, bounds>>

AddConfigsOnce ==
  /\ up /\ configPc = "add"
  /\ IF listed \in Valid
     THEN /\ current' = [version |-> current.version + 1, content |-> listed]
          /\ configPc' = "publish"
     ELSE /\ configPc' = "idle"
          /\ UNCHANGED current
  /\ UNCHANGED <<configs, configCache, unseen, configQueue, listed, published, workerVars, up, bounds>>

\* Configs that do not load leave the current configuration, and are tried again.
AddConfigs ==
  /\ up /\ configPc = "add"
  /\ IF listed \in Valid
     THEN /\ current' = [version |-> current.version + 1, content |-> listed]
          /\ configPc' = "publish"
          /\ UNCHANGED configQueue
     ELSE /\ configPc' = "idle"
          /\ configQueue' = TRUE
          /\ UNCHANGED current
  /\ UNCHANGED <<configs, configCache, unseen, listed, published, workerVars, up, bounds>>

\* Mutant: the Releases are told by the event of the Config alone.
PublishNothing ==
  /\ up /\ configPc = "publish"
  /\ configPc' = "idle"
  /\ UNCHANGED <<configs, configCache, unseen, configQueue, listed, current, published, workerVars, up, bounds>>

\* A send that would block is dropped.
Publish ==
  /\ up /\ configPc = "publish"
  /\ published' = TRUE
  /\ configPc' = "idle"
  /\ UNCHANGED <<configs, configCache, unseen, configQueue, listed, current, workerVars, up, bounds>>

-----------------------------------------------------------------------------
(* The Release worker. *)

StartPass(r) ==
  /\ up /\ pc = "idle" /\ r \in queue
  /\ queue' = queue \ {r}
  /\ rel' = r
  /\ read' = {}
  /\ pc' = "source"
  /\ UNCHANGED <<configVars, current, published, key, package, lastRead, packageCache, up, bounds>>

\* A read of the current configuration by the pass, which goes on to another point.
Read(from, to) ==
  /\ up /\ pc = from
  /\ read' = read \cup {current.version}
  /\ pc' = to
  /\ UNCHANGED <<configVars, current, published, queue, rel, key, package, lastRead, packageCache, up, bounds>>

\* The default interval and the redirect of the OCIRepository.
ReadSource == Read("source", "lookup")

Entry(revision, version) ==
  {e \in packageCache : e.revision = revision /\ e.version = version}

\* The version is read once, and is the key of the package in the cache.
Lookup ==
  /\ up /\ pc = "lookup"
  /\ key' = current.version
  /\ LET hits == Entry(RevisionOf[rel], current.version) IN
     \/ /\ hits = {}
        /\ pc' = "timeout"
        /\ UNCHANGED <<package, read>>
     \/ \E e \in hits :
        /\ package' = e.package
        /\ read' = read \cup {e.package.timeout, e.package.interval}
        /\ pc' = "context"
  /\ UNCHANGED <<configVars, current, published, queue, rel, lastRead, packageCache, up, bounds>>

\* SetPackage reads the two defaults one after the other.
LoadTimeout ==
  /\ up /\ pc = "timeout"
  /\ package' = [timeout |-> current.version, interval |-> 0]
  /\ read' = read \cup {current.version}
  /\ pc' = "interval"
  /\ UNCHANGED <<configVars, current, published, queue, rel, key, lastRead, packageCache, up, bounds>>

LoadInterval ==
  /\ up /\ pc = "interval"
  /\ package' = [package EXCEPT !.interval = current.version]
  /\ read' = read \cup {current.version}
  /\ pc' = "keep"
  /\ UNCHANGED <<configVars, current, published, queue, rel, key, lastRead, packageCache, up, bounds>>

\* Mutant: the package is kept whatever was published since.
KeepAlways ==
  /\ up /\ pc = "keep"
  /\ pc' = "context"
  /\ packageCache' = (packageCache \ Entry(RevisionOf[rel], key))
                       \cup {[revision |-> RevisionOf[rel], version |-> key, package |-> package]}
  /\ UNCHANGED <<configVars, current, published, queue, rel, key, package, read, lastRead, up, bounds>>

\* The package is kept if the version is still the one read before it was loaded.
Keep ==
  /\ up /\ pc = "keep"
  /\ pc' = "context"
  /\ packageCache' =
       IF current.version = key
       THEN (packageCache \ Entry(RevisionOf[rel], key))
              \cup {[revision |-> RevisionOf[rel], version |-> key, package |-> package]}
       ELSE packageCache
  /\ UNCHANGED <<configVars, current, published, queue, rel, key, package, read, lastRead, up, bounds>>

\* Default contexts, model of the templates, cluster roles; then the specs of the
\* HelmReleases.
ReadContext == Read("context", "deploy")
ReadDeploy == Read("deploy", "end")

\* The pass ends, at its end or at any earlier point that waits or fails.
EndPass ==
  /\ up /\ pc # "idle"
  /\ lastRead' = [lastRead EXCEPT ![rel] = read]
  /\ pc' = "idle" /\ rel' = None /\ key' = 0 /\ package' = None /\ read' = {}
  /\ UNCHANGED <<configVars, current, published, queue, packageCache, up, bounds>>

\* The cache may drop any package, at any time.
Evict ==
  /\ up
  /\ \E e \in packageCache : packageCache' = packageCache \ {e}
  /\ UNCHANGED <<configVars, current, published, queue, pc, rel, key, package, read, lastRead, up, bounds>>

-----------------------------------------------------------------------------
(* A crash loses the memory of the process.  It starts again only with Configs *)
(* that load.                                                                 *)

Crash ==
  /\ up /\ up' = FALSE
  /\ crashes > 0 /\ crashes' = crashes - 1
  /\ unseen' = FALSE /\ configQueue' = FALSE /\ configPc' = "idle" /\ listed' = First
  /\ published' = FALSE
  /\ queue' = {}
  /\ pc' = "idle" /\ rel' = None /\ key' = 0 /\ package' = None /\ read' = {}
  /\ packageCache' = {}
  /\ UNCHANGED <<configs, configCache, current, lastRead, edits>>

Boot ==
  /\ ~up /\ configs \in Valid
  /\ up' = TRUE
  /\ current' = [version |-> 1, content |-> configs]
  /\ configCache' = configs
  /\ configQueue' \in BOOLEAN
  /\ queue' = Releases
  /\ lastRead' = [r \in Releases |-> {}]
  /\ UNCHANGED <<configs, unseen, configPc, listed, published, pc, rel, key, package, read, packageCache, bounds>>

Next ==
  \/ \E c \in Contents : EditConfigs(c)
  \/ DeliverConfigs \/ HandleConfigEvent \/ HandlePublished
  \/ ListConfigs \/ AddConfigs \/ Publish
  \/ \E r \in Releases : StartPass(r)
  \/ ReadSource \/ Lookup \/ LoadTimeout \/ LoadInterval \/ Keep \/ ReadContext \/ ReadDeploy
  \/ EndPass \/ Evict
  \/ Crash \/ Boot

Spec == Init /\ [][Next]_vars

\* The informers deliver, the workers run, and the process is started again.  The
\* queue of the Release worker is first in, first out: no request waits forever.
WorkerStep ==
  \/ ReadSource \/ Lookup \/ LoadTimeout \/ LoadInterval \/ Keep \/ ReadContext \/ ReadDeploy \/ EndPass

Fairness ==
  /\ WF_vars(DeliverConfigs) /\ WF_vars(HandleConfigEvent) /\ WF_vars(HandlePublished)
  /\ WF_vars(ListConfigs) /\ WF_vars(AddConfigs) /\ WF_vars(Publish)
  /\ \A r \in Releases : SF_vars(StartPass(r))
  /\ WF_vars(WorkerStep)
  /\ WF_vars(Boot)

FairSpec == Spec /\ Fairness

-----------------------------------------------------------------------------
(* Properties. *)

Points == {"source", "lookup", "timeout", "interval", "keep", "context", "deploy", "end"}

\* Every variable has its type; the published configuration is one that loads, and a
\* pass that loads a package holds the part of it that is loaded.
TypeOK ==
  /\ configs \in Contents /\ configCache \in Contents /\ listed \in Contents
  /\ unseen \in BOOLEAN /\ configQueue \in BOOLEAN /\ published \in BOOLEAN /\ up \in BOOLEAN
  /\ configPc \in {"idle", "add", "publish"}
  /\ current \in [version : Nat, content : Valid]
  /\ queue \subseteq Releases
  /\ \/ pc = "idle" /\ rel = None /\ read = {}
     \/ pc \in Points /\ rel \in Releases /\ read \subseteq Nat
  /\ key \in Nat
  /\ package \in Packages \cup {None}
  /\ pc \in {"interval", "keep"} => package \in Packages
  /\ lastRead \in [Releases -> SUBSET Nat]
  /\ packageCache \subseteq Entries
  /\ edits \in Nat /\ crashes \in Nat

\* A package kept for a version of the configuration took both its defaults from that
\* version, though SetPackage reads them apart and the Config worker may publish
\* between any two reads: the test of the version before the package is kept
\* (release_controller.go:365) is enough, because a version is never published twice.
KeptAsKeyed ==
  \A e \in packageCache : e.package.timeout = e.version /\ e.package.interval = e.version

\* When no publication is on its way, a Release that is neither queued nor in a pass
\* was last reconciled with the current configuration alone: a publication dropped
\* because the channel is full (config_controller.go:75), one that falls in the middle
\* of a pass, and a package taken from the cache leave no Release behind.
NoReleaseLeftBehind ==
  up /\ ~published /\ configPc # "publish" =>
    \A r \in Releases \ (queue \cup {rel}) : lastRead[r] \subseteq {current.version}

\* When the Config worker has nothing to do, the current configuration is the one that
\* the Configs known to the manager hold: a failed load, a change seen in the middle
\* of a Config pass, and a restart lose no change.
ConfigsInEffect ==
  up /\ ~configQueue /\ configPc = "idle" => current.content = configCache

\* Configs that load and stay as they are come into effect in every Release, whatever
\* failed to load before, and with crashes on the way.
RolledOut ==
  /\ up /\ current.content = configs
  /\ queue = {} /\ pc = "idle"
  /\ \A r \in Releases : lastRead[r] \subseteq {current.version}

EventuallyRolledOut == <>[](configs \in Valid) => <>[]RolledOut

-----------------------------------------------------------------------------
(* The inductive invariant of the proofs. *)

DownInv == ~up => pc = "idle" /\ key = 0 /\ configPc = "idle"

LoadInv ==
  /\ key <= current.version
  /\ pc = "interval" => key <= package.timeout /\ package.timeout <= current.version
  /\ pc = "keep" => /\ key <= package.timeout /\ package.timeout <= package.interval
                    /\ package.interval <= current.version

PassInv ==
  up /\ ~published /\ configPc # "publish" /\ rel \notin queue => read \subseteq {current.version}

ConfigInv ==
  up /\ ~configQueue =>
    IF configPc = "add" THEN listed = configCache ELSE current.content = configCache

IInv == TypeOK /\ DownInv /\ LoadInv /\ KeptAsKeyed /\ PassInv /\ NoReleaseLeftBehind /\ ConfigInv
=============================================================================
