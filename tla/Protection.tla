----------------------------- MODULE Protection -----------------------------
(***************************************************************************)
(* The protection of a Release against its deletion: a pass that has       *)
(* loaded the package computes it into the status (src/internal/           *)
(* controller/release_controller.go), and the webhook, which reads the     *)
(* Release only, decides on a deletion (src/internal/webhook/v1alpha1/     *)
(* release_webhook.go).                                                    *)
(***************************************************************************)
EXTENDS Kube, Naturals

CONSTANTS
  rel,
  Packages,    \* what a Release can name
  Protects,    \* those that protect their Releases
  Loads,       \* those that a pass can load
  None, MaxEdits, MaxFailures

Settings == {None, "true", "false"}   \* spec.protected
Specs == [protected : Settings, package : Packages]

\* A Release is its spec, and status.protected with status.printProtected: "" until computed.
Versions == [spec : Specs, print : {"", "-", "X"}]

ASSUME ProtectionAssumption ==
  /\ Protects \subseteq Packages /\ Loads \subseteq Packages
  /\ None \notin {"true", "false"} /\ None \notin Specs /\ None \notin Versions
  /\ MaxEdits \in Nat /\ MaxFailures \in Nat

VARIABLES
  queued,     \* the Release has a request, or a timer
  computed,   \* the spec that the protection in the status comes from, or None
  deleted,    \* the last deletion that was admitted: the spec and what computed was, or None
  edits, failures

vars == <<kube, queued, computed, deleted, edits, failures>>

Created(spec) == [spec |-> spec, print |-> ""]

\* The Release is the one object of this module.
The(version) == Only(rel, version)

Init ==
  /\ \E spec \in Specs : KubeInit(The(Created(spec)))
  /\ queued = TRUE /\ computed = None /\ deleted = None /\ edits = 0 /\ failures = 0

----------------------------------------------------------------------------
(* A pass                                                                  *)

\* Mutant: the package decides when it protects, whatever the Release says.
ProtectedEither(spec) == IF spec.package \in Protects \/ spec.protected = "true" THEN "X" ELSE "-"

Protected(spec) ==
  IF spec.protected = None THEN IF spec.package \in Protects THEN "X" ELSE "-"
  ELSE IF spec.protected = "true" THEN "X" ELSE "-"

\* What a pass has for the protection: what it was, if it stops before the package is loaded.
Computed(release) ==
  IF release.spec.package \in Loads THEN Protected(release.spec) ELSE release.print

\* The Update of the status asks for the version that was read, and can fail.
Reconcile(fails) ==
  LET release == cache[rel]
      update == release # None /\ Computed(release) # release.print
      done == update /\ ~fails /\ Current(rel)
  IN /\ queued
     /\ failures' = IF fails THEN failures + 1 ELSE failures
     /\ queued' = (update /\ ~done)
     /\ Write(IF done THEN The([release EXCEPT !.print = Computed(release)]) ELSE NoWrites)
     /\ computed' = IF /\ release # None /\ release.spec.package \in Loads
                       /\ done \/ (~update /\ Current(rel))
                    THEN release.spec ELSE computed
     /\ UNCHANGED <<deleted, edits>>

----------------------------------------------------------------------------
(* The deletion                                                            *)

\* Mutant: what the package says is not waited for.
AdmittedUnseen(release) == release.spec.protected = "false" \/ release.print # "X"

\* ValidateDelete, on the object that the API server has.
Admitted(release) ==
  IF release.spec.protected # None THEN release.spec.protected = "false"
  ELSE release.print \notin {"", "X"}

Edit == edits < MaxEdits /\ edits' = edits + 1

Delete ==
  /\ Edit /\ store[rel] # None /\ Admitted(store[rel])
  /\ Write(The(None))
  /\ deleted' = [spec |-> store[rel].spec, computed |-> computed] /\ computed' = None
  /\ UNCHANGED <<queued, failures>>

Create ==
  /\ Edit /\ store[rel] = None
  /\ \E spec \in Specs : Write(The(Created(spec)))
  /\ UNCHANGED <<queued, computed, deleted, failures>>

EditSpec ==
  /\ Edit /\ store[rel] # None
  /\ \E spec \in Specs : Write(The([store[rel] EXCEPT !.spec = spec]))
  /\ UNCHANGED <<queued, computed, deleted, failures>>

Deliver ==
  /\ Receive(rel) /\ queued' = TRUE
  /\ UNCHANGED <<computed, deleted, edits, failures>>

Next ==
  \/ Reconcile(FALSE) \/ (failures < MaxFailures /\ Reconcile(TRUE))
  \/ Delete \/ Create \/ EditSpec \/ Deliver

Spec == Init /\ [][Next]_vars

----------------------------------------------------------------------------
(* Properties                                                              *)

\* The state has its types; the status has a protection only once a package was loaded.
TypeOK ==
  /\ store[rel] \in Versions \cup {None}
  /\ queued \in BOOLEAN /\ computed \in Specs \cup {None}
  /\ store[rel] # None => (store[rel].print # "" <=> computed # None)
  /\ edits \in 0 .. MaxEdits /\ failures \in 0 .. MaxFailures

Shields(spec) == spec.protected = "true" \/ (spec.protected = None /\ spec.package \in Protects)

\* A deletion is admitted only if spec.protected is false, or if it is unset and a pass of
\* this very Release has loaded its package and found no protection.
DeletedKnowingly ==
  deleted # None =>
    \/ deleted.spec.protected = "false"
    \/ /\ deleted.spec.protected = None
       /\ deleted.computed # None /\ ~Shields(deleted.computed)

\* When nothing is on its way, the status says what the Release and its package say, if the
\* package loads.
ProtectionFollows ==
  CaughtUp /\ ~queued /\ store[rel] # None /\ store[rel].spec.package \in Loads
    => store[rel].print = (IF Shields(store[rel].spec) THEN "X" ELSE "-")

\* A Release that its package protects, and whose spec.protected is unset, is not deleted.
\* This does not hold where spec.protected was false before, and no pass has followed.
PackageProtects ==
  deleted # None /\ deleted.spec.protected = None => deleted.spec.package \notin Protects
=============================================================================
