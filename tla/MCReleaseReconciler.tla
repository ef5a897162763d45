------------------------ MODULE MCReleaseReconciler ------------------------
(* Small instances of ReleaseReconciler. *)
EXTENDS ReleaseReconciler

\* A Release that provides a role, one that needs it, and the same one suspended.
Provider == [roles |-> {"db"}, dependencies |-> {}, suspended |-> FALSE]
Consumer == [roles |-> {}, dependencies |-> {"db"}, suspended |-> FALSE]
Paused == [roles |-> {"db"}, dependencies |-> {}, suspended |-> TRUE]
TwoSpecs == {Provider, Consumer}
OneSpecs == {Provider, Paused}
DbRole == {"db"}

HelmStages == <<"deps", "helm">>
PolledStages == <<"deps", "conditions">>
AllStages == <<"oci", "folder", "fetch", "repo", "package", "context", "inputs",
               "render", "deps", "conditions", "helm", "outputs">>

PipelineBounds == [edits |-> 2, flips |-> 2, faults |-> 1, restarts |-> 0]
PairBounds == [edits |-> 3, flips |-> 1, faults |-> 0, restarts |-> 1]
LivenessBounds == [edits |-> 3, flips |-> 0, faults |-> 1, restarts |-> 1]
FatalBounds == [edits |-> 2, flips |-> 2, faults |-> 0, restarts |-> 0]
=============================================================================
