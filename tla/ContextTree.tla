---------------------------- MODULE ContextTree ----------------------------
(***************************************************************************)
(* The controller of the Contexts                                          *)
(* (src/internal/controller/context_controller.go) and the Releases that   *)
(* read them.  A Context inherits the values of its parents: the merge of  *)
(* them and of its own is written in its status, from where its children   *)
(* and the Releases take it.  A change travels down by the events of each  *)
(* status.  One worker handles the Contexts, another the Releases.         *)
(***************************************************************************)
EXTENDS Kube, Naturals, FiniteSets, SequencesExt

CONSTANTS
  Contexts, Releases,
  SpecsOf,        \* the specs that each Context can have: parents, own values, protected
  First,          \* the specs at the start
  Defaults,       \* default contexts of the configuration, for every Release
  NamespaceOf,    \* the default context of the namespace of each Release, as a sequence
  Named,          \* the contexts that the spec of each Release names
  Keys,           \* the keys of the values
  Invalid,        \* own values that are not a map
  None,
  MaxEdits        \* bound on the changes by users

SpecsAssumption == \A c \in Contexts : First[c] \in SpecsOf[c] \cup {None}
BoundsAssumption == MaxEdits \in Nat

VARIABLES
  queue,      \* requests of the Context worker
  requests,   \* requests of the Release worker
  seen,       \* what the last pass of each Release computed: a map, or None when it failed
  edits

vars == <<kube, queue, requests, seen, edits>>

NoValues == <<>>
New(spec) ==
  IF spec = None THEN None
  ELSE [spec |-> spec, phase |-> "", merged |-> None, parents |-> <<>>]

Init ==
  /\ KubeInit([c \in Contexts |-> New(First[c])])
  /\ queue = {c \in Contexts : First[c] # None} /\ requests = Releases
  /\ seen = [r \in Releases |-> None] /\ edits = 0

----------------------------------------------------------------------------
(* Merging.  A map of values is a function; the later of two maps wins.    *)

Merge(base, addon) == addon @@ base

\* What a Context gives: its status, or its own values when that holds none.
Given(v) == IF v.merged # None THEN v.merged ELSE v.spec.own

\* How a reader of the Context v takes it.
Obstacle(v) ==
  IF v = None THEN "missing"
  ELSE IF v.phase # "READY" THEN "unready"
  ELSE IF Given(v) = Invalid THEN "unmergeable" ELSE ""

FirstObstacle(contexts) ==
  LET bad == {i \in DOMAIN contexts : Obstacle(contexts[i]) # ""}
  IN IF bad = {} THEN "" ELSE Obstacle(contexts[CHOOSE i \in bad : \A j \in bad : i <= j])

MergeAll(base, contexts) == FoldLeft(LAMBDA m, v : Merge(m, Given(v)), base, contexts)

----------------------------------------------------------------------------
(* A pass of the Context worker.                                           *)

ParentsOf(v) == IF v = None THEN {} ELSE ToSet(v.spec.parents)

\* Whether following the parents from c leads back to c.
ParentCycle(c, contexts) ==
  LET above[n \in Nat] ==
        IF n = 0 THEN ParentsOf(contexts[c])
        ELSE UNION {{a} \cup ParentsOf(contexts[a]) : a \in above[n - 1]}
  IN c \in above[Cardinality(Contexts)]

ParentObjects(v, contexts) == [i \in DOMAIN v.spec.parents |-> contexts[v.spec.parents[i]]]

\* The first problem met, and whether the worker tries again (a fatal one waits for an
\* event).
Problem(c, contexts) ==
  LET v == contexts[c] IN
  IF v.spec.own = Invalid THEN "invalid"
  ELSE IF v.spec.parents = <<>> THEN ""
  ELSE IF ParentCycle(c, contexts) THEN "cycle"
  ELSE FirstObstacle(ParentObjects(v, contexts))

Retried(problem) == problem \in {"invalid", "unready"}

\* Mutant: the merged values are kept when the last parent goes.
MergedKept(v, contexts) ==
  IF v.spec.parents = <<>> THEN v.merged
  ELSE Merge(MergeAll(NoValues, ParentObjects(v, contexts)), v.spec.own)

Merged(v, contexts) ==
  IF v.spec.parents = <<>> THEN None
  ELSE Merge(MergeAll(NoValues, ParentObjects(v, contexts)), v.spec.own)

\* The status of a Context without a problem.
Ready(v, contexts) ==
  [v EXCEPT !.phase = "READY", !.merged = Merged(v, contexts), !.parents = v.spec.parents]

\* The status of a Context with one: written when the phase changes only.
Failed(v, problem) ==
  IF v.phase = "ERROR" THEN v
  ELSE [v EXCEPT !.phase = "ERROR",
                 !.parents = IF problem = "invalid" THEN @ ELSE v.spec.parents]

Outcome(c) ==
  LET problem == Problem(c, cache)
      v == IF problem = "" THEN Ready(cache[c], cache) ELSE Failed(cache[c], problem)
  IN [problem |-> problem, value |-> v, writes |-> v # cache[c]]

\* The status is written by an Update, which the server refuses for an old version.
Reconcile(c) ==
  /\ c \in queue
  /\ IF cache[c] = None THEN queue' = queue \ {c} /\ UNCHANGED kube
     ELSE LET out == Outcome(c)
              refused == out.writes /\ ~Current(c)
          IN /\ Write(IF out.writes /\ ~refused THEN c :> out.value ELSE NoWrites)
             /\ queue' = IF refused \/ Retried(out.problem) THEN queue ELSE queue \ {c}
  /\ UNCHANGED <<requests, seen, edits>>

----------------------------------------------------------------------------
(* The Releases: ComputeContext, and what makes them run it again.         *)

Optional(r) == ToSet(NamespaceOf[r])
ContextList(r) == Defaults \o NamespaceOf[r] \o Named[r]

\* The contexts that r reads: a default one of its namespace can be missing.
Effective(r, contexts) ==
  LET present(c) == contexts[c] # None \/ c \notin Optional(r)
      names == SelectSeq(ContextList(r), present)
  IN [i \in DOMAIN names |-> contexts[names[i]]]

ComputeContext(r, contexts) ==
  LET list == Effective(r, contexts)
  IN IF FirstObstacle(list) # "" THEN None ELSE MergeAll(NoValues, list)

\* Mutant: only the Releases that name the Context in their spec are found.
FindReleaseFromContextNamed(c) == {r \in Releases : c \in ToSet(Named[r])}

FindReleaseFromContext(c) == {r \in Releases : c \in ToSet(ContextList(r))}

\* The error of a Context is fatal for a Release: it waits for an event.
ReconcileRelease(r) ==
  /\ r \in requests
  /\ seen' = [seen EXCEPT ![r] = ComputeContext(r, cache)]
  /\ requests' = requests \ {r}
  /\ UNCHANGED <<kube, queue, edits>>

----------------------------------------------------------------------------
(* Events and users.                                                       *)

\* Mutant: the children of a Context are not told of its changes.
FindChildFromParentNone(c) == {}

FindChildFromParent(c) == {a \in Contexts : c \in ParentsOf(cache[a])}

Deliver(c) ==
  /\ Receive(c)
  /\ queue' = queue \cup {c} \cup FindChildFromParent(c)
  /\ requests' = requests \cup FindReleaseFromContext(c)
  /\ UNCHANGED <<seen, edits>>

\* The webhook admits the deletion of a Context that is not protected.
ValidateDelete(c) == ~store[c].spec.protected

EditContext(c, spec) ==
  /\ edits < MaxEdits /\ edits' = edits + 1
  /\ \/ store[c] = None /\ spec # None /\ Write(c :> New(spec))
     \/ /\ store[c] # None /\ spec # None /\ spec # store[c].spec
        /\ Write(c :> [store[c] EXCEPT !.spec = spec])
     \/ store[c] # None /\ spec = None /\ ValidateDelete(c) /\ Write(c :> None)
  /\ UNCHANGED <<queue, requests, seen>>

Next ==
  \/ \E c \in Contexts : Deliver(c) \/ Reconcile(c)
  \/ \E r \in Releases : ReconcileRelease(r)
  \/ \E c \in Contexts : \E spec \in SpecsOf[c] \cup {None} : EditContext(c, spec)

Spec == Init /\ [][Next]_vars

\* Events arrive and each worker takes its requests in turn.
Fairness ==
  /\ \A c \in Contexts : WF_vars(Deliver(c)) /\ WF_vars(Reconcile(c))
  /\ \A r \in Releases : WF_vars(ReconcileRelease(r))
FairSpec == Spec /\ Fairness

----------------------------------------------------------------------------
(* Properties                                                              *)

IsMap(m) == m # Invalid /\ \A k \in DOMAIN m : k \in STRING /\ m[k] \in Nat

\* The status of a Context holds a phase and merged values or none, and a Release holds
\* the values of a context or none.
TypeOK ==
  /\ \A c \in Contexts : store[c] # None =>
       /\ store[c].phase \in {"", "READY", "ERROR"}
       /\ (store[c].merged = None \/ IsMap(store[c].merged))
       /\ store[c].parents \in Seq(Contexts)
  /\ queue \subseteq Contexts /\ requests \subseteq Releases
  /\ \A r \in Releases : seen[r] = None \/ IsMap(seen[r])

\* Nothing is under way, but retries that would change nothing.
Idle ==
  /\ CaughtUp
  /\ \A c \in queue : cache[c] # None => ~Outcome(c).writes /\ Retried(Outcome(c).problem)

\* What inheritance means, without passes: a Context is sound when it is a map and its
\* parents are sound, which no Context of a cycle is; a value is its own, or the one of
\* the last parent that has one.
Depth == Cardinality(Contexts)
Sound ==
  LET sound[n \in Nat] ==
        IF n = 0 THEN {}
        ELSE {c \in Contexts : /\ store[c] # None /\ store[c].spec.own # Invalid
                               /\ ParentsOf(store[c]) \subseteq sound[n - 1]}
  IN sound[Depth]
LastOf(values) ==
  LET set == {i \in DOMAIN values : values[i] # None}
  IN IF set = {} THEN None ELSE values[CHOOSE i \in set : \A j \in set : j <= i]
Inherited(c, k) ==
  LET value[n \in Nat] ==
        [a \in Contexts |->
           IF n = 0 THEN None
           ELSE IF k \in DOMAIN store[a].spec.own THEN store[a].spec.own[k]
           ELSE LastOf([i \in DOMAIN store[a].spec.parents |->
                          value[n - 1][store[a].spec.parents[i]]])]
  IN value[Depth][c]
At(m, k) == IF k \in DOMAIN m THEN m[k] ELSE None

UpToDate ==
  \A c \in Contexts : store[c] # None =>
    IF c \notin Sound THEN store[c].phase = "ERROR"
    ELSE /\ store[c].phase = "READY" /\ store[c].parents = store[c].spec.parents
         /\ \A k \in Keys : At(Given(store[c]), k) = Inherited(c, k)

\* Once idle, each Context is READY with the values that it inherits, or in ERROR when it
\* is invalid, on a cycle, or below a Context that is missing or in error: no stale merge
\* stays after an edit, a deletion or a repaired cycle anywhere above.
Inherits == Idle => UpToDate

\* Once idle, each Release has computed its context from the Contexts as they are, the
\* last one first: a failure that is not retried was made up for by an event.
ReleasesFollow ==
  Idle /\ requests = {} => \A r \in Releases :
    LET names == ContextList(r)
        used == {c \in ToSet(names) : store[c] # None \/ c \notin Optional(r)}
    IN IF ~(used \subseteq Sound) THEN seen[r] = None
       ELSE seen[r] # None /\ \A k \in Keys :
              At(seen[r], k) = LastOf([i \in DOMAIN names |->
                                 IF names[i] \in used THEN Inherited(names[i], k) ELSE None])

\* No pass is left but retries, and every Context and Release is up to date.
AtRest == Idle /\ requests = {} /\ UpToDate
=============================================================================
