---------------------------- MODULE PackageFolder ----------------------------
(***************************************************************************)
(* The folder of a Release under the root of the chart server              *)
(* (src/internal/misc/safetmp.go, and its use by                           *)
(* src/internal/controller/release_controller.go): the files of the        *)
(* package, the flag .transient, without which the folder is not removed,  *)
(* and revision.txt.  The operators say what a call leaves; those named    *)
(* after an interruption say what a process that dies in the call leaves.  *)
(* The folder is in an emptyDir: it outlives the container, not the pod.   *)
(***************************************************************************)
EXTENDS FiniteSets

CONSTANTS
  Revisions,
  Parts,       \* the files of a package
  None

Files(revision) == {revision} \X Parts
Folders == [there : BOOLEAN, flag : BOOLEAN, files : SUBSET (Revisions \X Parts),
            mark : Revisions \cup {None}]

Gone == [there |-> FALSE, flag |-> FALSE, files |-> {}, mark |-> None]
Made == [Gone EXCEPT !.there = TRUE]
Empty == [Made EXCEPT !.flag = TRUE]

\* After Fetch and the write of revision.txt.
Fetched(f, revision) == [Empty EXCEPT !.files = Files(revision), !.mark = revision]

\* SafeRemove returns an error.
Unremovable(f) == f.there /\ ~f.flag

\* RemoveAll removes the entries of the folder one by one, in no particular order.
InterruptedRemoval(f) ==
  {g \in Folders : g.there /\ g.files \subseteq f.files
                   /\ (g.flag => f.flag) /\ g.mark \in {f.mark, None}}

\* SafeEnsureEmpty makes the folder, then its flag.
InterruptedCreation(f) == {Gone, Made}

\* The package is extracted file by file, and revision.txt is written last.
InterruptedFetch(revision) ==
  {[Empty EXCEPT !.files = files] : files \in SUBSET Files(revision)}
=============================================================================
