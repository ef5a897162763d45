-------------------------- MODULE ReleaseConditions --------------------------
(***************************************************************************)
(* The conditions of a Release (src/internal/controller/                   *)
(* release_conditions.go, src/internal/kubopackage/conditions.go): Secrets *)
(* and ConfigMaps, with an optional CEL expression on each, that a pass    *)
(* reads one after the other before it writes the HelmReleases.  Nothing   *)
(* watches them, and the reads are not cached: an object can change        *)
(* between the reads of one pass, and a Release that waits polls.          *)
(*                                                                         *)
(* An object is what the expression finds in it: "true", "false", "unset"  *)
(* (an attribute it names is missing), "odd" (a result that is not a       *)
(* boolean), "heavy" (past the cost limit), "slow" (past the deadline,     *)
(* or not) or "absent".                                                    *)
(***************************************************************************)
EXTENDS Naturals, Sequences

CONSTANTS
  home, other,      \* the namespace of the Release, and another one
  ConditionLists,   \* what the package can render: sequences of conditions
  Contents,         \* what an object can be
  None, MaxEdits

ConditionsAssumption == home # other /\ MaxEdits \in Nat

Kinds == {"Secret", "ConfigMap"}
Namespaces == {home, other}
Objects == (Kinds \cup {"Deployment"}) \X Namespaces

VARIABLES
  spec,      \* of the Release: [target, conditions]
  objects,   \* the content of each object
  granted,   \* the kinds the controller may read
  pass,      \* the pass under way, or None: [target, conditions, next]
  held,      \* the conditions that have held at some moment of the pass
  reads,     \* what the pass has read
  phase,
  queued,    \* the Release has a request, or a timer
  edits

vars == <<spec, objects, granted, pass, held, reads, phase, queued, edits>>

\* Rendering puts the conditions in the target namespace, by default that of the Release.
Target(s) == IF s.target = None THEN home ELSE s.target

Specs == [target : {None, other}, conditions : ConditionLists]

Init ==
  /\ spec \in Specs /\ objects \in [Objects -> {"absent"}] /\ granted \in SUBSET Kinds
  /\ pass = None /\ held = {} /\ reads = {} /\ phase = "" /\ queued = TRUE /\ edits = 0

----------------------------------------------------------------------------
(* The conditions that rendering accepts                                   *)

\* The canonical kind of a condition, in any case, or None outside the policy.
CoreKind(c) ==
  CASE c.group # "" -> None
    [] c.group = "" /\ c.kind \in {"Secret", "secret"} -> "Secret"
    [] c.group = "" /\ c.kind \in {"ConfigMap", "configmap"} -> "ConfigMap"
    [] OTHER -> None

\* Mutant: the namespace of a condition is not compared with the target.
InPolicyAnywhere(c, target) == CoreKind(c) # None

InPolicy(c, target) == CoreKind(c) # None /\ c.namespace \in {None, target}

\* The conditions that rendering refuses, the first of which makes the error.
Refused(conditions, target) ==
  {i \in DOMAIN conditions : ~InPolicy(conditions[i], target) \/ ~conditions[i].named}

Placed(c, target) == [kind |-> CoreKind(c), namespace |-> target, cel |-> c.cel]

\* What is true of the objects is what the conditions of a pass want.
Holds(c, objs) ==
  LET content == objs[<<c.kind, c.namespace>>]
  IN content # "absent" /\ (c.cel # None => content \in {"true", "slow"})

HoldingOf(conditions, objs) == {i \in DOMAIN conditions : Holds(conditions[i], objs)}

----------------------------------------------------------------------------
(* A pass                                                                  *)

Finish(newPhase, requeue) ==
  /\ phase' = newPhase /\ queued' = requeue
  /\ pass' = None /\ held' = {} /\ reads' = {}
  /\ UNCHANGED <<spec, objects, granted>>

\* An error of policy is fatal, a name that is missing is tried again.
Start ==
  /\ pass = None /\ queued
  /\ LET t == Target(spec)
         refused == Refused(spec.conditions, t)
     IN
     IF refused # {}
     THEN LET first == CHOOSE i \in refused : \A j \in refused : i <= j
          IN Finish("ERROR", InPolicy(spec.conditions[first], t)) /\ UNCHANGED edits
     ELSE LET placed == [i \in DOMAIN spec.conditions |-> Placed(spec.conditions[i], t)] IN
          /\ pass' = [target |-> t, conditions |-> placed, next |-> 1]
          /\ held' = HoldingOf(placed, objects)
          /\ reads' = {} /\ queued' = FALSE
          /\ UNCHANGED <<spec, objects, granted, phase, edits>>

\* Mutant: an expression that cannot be checked yet does not hold the Release.
evalConditionCelLenient(cel, content) ==
  CASE cel = "broken" -> {"fatal"}
    [] cel = "ok" -> CASE content \in {"odd", "heavy"} -> {"fatal"}
                       [] content = "slow" -> {"fatal", "ok"}
                       [] content = "false" -> {"wait"}
                       [] OTHER -> {"ok"}

\* What the evaluation of an expression can come to.
evalConditionCel(cel, content) ==
  CASE cel = "broken" -> {"fatal"}
    [] cel = "ok" -> CASE content \in {"odd", "heavy"} -> {"fatal"}
                       [] content = "slow" -> {"fatal", "ok"}
                       [] content \in {"false", "unset"} -> {"wait"}
                       [] content = "true" -> {"ok"}

\* Mutant: a read that is forbidden is not tried again.
CheckConditionFatal(c) ==
  LET content == objects[<<c.kind, c.namespace>>]
  IN IF c.kind \notin granted THEN {"fatal"}
     ELSE IF content = "absent" THEN {"wait"}
     ELSE IF c.cel = None THEN {"ok"} ELSE evalConditionCel(c.cel, content)

\* CheckConditionWithLimits, on the object as it is: a read that the API server refuses or
\* fails, and a shutdown, are tried again.
CheckCondition(c) ==
  LET content == objects[<<c.kind, c.namespace>>]
  IN IF c.kind \notin granted THEN {"error"}
     ELSE IF content = "absent" THEN {"wait"}
     ELSE IF c.cel = None THEN {"ok"} ELSE evalConditionCel(c.cel, content)

Check ==
  /\ pass # None /\ pass.next \in DOMAIN pass.conditions
  /\ LET c == pass.conditions[pass.next] IN
     \E answer \in CheckCondition(c) :
       CASE answer = "ok" ->
              /\ pass' = [pass EXCEPT !.next = @ + 1]
              /\ reads' = reads \cup {<<c.kind, c.namespace>>}
              /\ UNCHANGED <<spec, objects, granted, held, phase, queued, edits>>
         [] answer = "wait" -> Finish("WAIT_COND", TRUE) /\ UNCHANGED edits
         [] answer = "error" -> Finish("ERROR", TRUE) /\ UNCHANGED edits
         [] answer = "fatal" -> Finish("ERROR", queued) /\ UNCHANGED edits

\* The HelmReleases are written.
Deploy ==
  /\ pass # None /\ pass.next > Len(pass.conditions)
  /\ Finish("READY", queued) /\ UNCHANGED edits

----------------------------------------------------------------------------
(* What happens around the passes                                          *)

Edit == edits < MaxEdits /\ edits' = edits + 1

\* The manager stops, with the pass under way, and starts again.
Restart == Edit /\ pass # None /\ Finish(phase, TRUE)

EditSpec ==
  /\ Edit /\ spec' \in Specs /\ spec' # spec /\ queued' = TRUE
  /\ UNCHANGED <<objects, granted, pass, held, reads, phase>>

EditObject ==
  /\ Edit
  /\ \E o \in Objects, content \in Contents : objects' = [objects EXCEPT ![o] = content]
  /\ held' = IF pass = None THEN {} ELSE held \cup HoldingOf(pass.conditions, objects')
  /\ UNCHANGED <<spec, granted, pass, reads, phase, queued>>

Grant ==
  /\ Edit /\ granted' \in SUBSET Kinds
  /\ UNCHANGED <<spec, objects, pass, held, reads, phase, queued>>

Next == Start \/ Check \/ Deploy \/ Restart \/ EditSpec \/ EditObject \/ Grant

Spec == Init /\ [][Next]_vars

\* The manager runs its passes, and the workqueue gives their requests.
FairSpec == Spec /\ WF_vars(Start) /\ WF_vars(Check) /\ WF_vars(Deploy)

----------------------------------------------------------------------------
(* Properties                                                              *)

\* The state has its types; a Release that waits has a timer.
TypeOK ==
  /\ spec \in Specs /\ granted \subseteq Kinds /\ edits \in 0 .. MaxEdits
  /\ phase \in {"", "ERROR", "WAIT_COND", "READY"} /\ queued \in BOOLEAN
  /\ phase = "WAIT_COND" /\ pass = None => queued
  /\ pass # None => pass.next \in 1 .. Len(pass.conditions) + 1 /\ held \subseteq DOMAIN pass.conditions

\* A pass reads Secrets and ConfigMaps only, in one namespace, the target of the spec it has
\* read, and does not take them for objects that the package names elsewhere.
ReadsTarget ==
  \A r \in reads :
    /\ r[1] \in Kinds /\ r[2] = pass.target
    /\ ~queued => /\ pass.target = (IF spec.target = None THEN home ELSE spec.target)
                  /\ \A i \in DOMAIN spec.conditions : spec.conditions[i].namespace \in {None, r[2]}

\* The HelmReleases are written only when each condition has held at some moment of the pass,
\* though not all of them at once.
DeploysWhenHeld ==
  pass # None /\ pass.next > Len(pass.conditions) => held = DOMAIN pass.conditions

\* Each condition is one that a pass can check, and holds.
Wanted ==
  /\ granted = Kinds
  /\ \A i \in DOMAIN spec.conditions :
       LET t == IF spec.target = None THEN home ELSE spec.target
           c == spec.conditions[i]
       IN /\ c.group = "" /\ c.kind \in {"Secret", "secret", "ConfigMap", "configmap"}
          /\ c.named /\ c.namespace \in {None, t} /\ c.cel # "broken"
          /\ objects[<<CoreKind(c), t>>] = "true"
=============================================================================
