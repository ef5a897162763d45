----------------------------- MODULE PackageUse -----------------------------
(***************************************************************************)
(* What the sources of a Release promise to the rest of a pass: it goes on *)
(* with all the files of a revision that the OCIRepository of the Release  *)
(* had when the pass began, and with nothing else.                         *)
(***************************************************************************)
CONSTANTS Revisions, Parts, None

VARIABLES
  published,   \* the revision of the artifact of the OCIRepository
  taken,       \* the revision of the pass under way
  used         \* the revision and the files that the last pass went on with

Init == published \in Revisions \cup {None} /\ taken = None /\ used = None

Publish == published' \in Revisions \cup {None} /\ UNCHANGED <<taken, used>>

Take == published # None /\ taken' = published /\ UNCHANGED <<published, used>>

Drop == taken' = None /\ UNCHANGED <<published, used>>

Use ==
  /\ taken # None /\ taken' = None
  /\ used' = [revision |-> taken, files |-> {taken} \X Parts]
  /\ UNCHANGED published

Next == Publish \/ Take \/ Drop \/ Use

Spec == Init /\ [][Next]_<<published, taken, used>>
=============================================================================
