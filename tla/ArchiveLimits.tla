---------------------------- MODULE ArchiveLimits ----------------------------
(***************************************************************************)
(* The limits on the archive of a package.  The controller downloads it    *)
(* and extracts it (src/internal/controller/release_fetch.go); the         *)
(* commands read the same archives through src/internal/archiveio.  Both   *)
(* count the entries, with the folders that a name needs, the bytes of the *)
(* files and the bytes of the uncompressed stream.  The two read one       *)
(* artifact here, each at its own pace, and the deadline of the fetch can  *)
(* pass at any time.  How the readers cut the stream at its limit is in    *)
(* module StreamLimits.                                                    *)
(***************************************************************************)
EXTENDS Integers, Sequences, FiniteSets, FiniteSetsExt, SequencesExt

CONSTANTS
  Entries,     \* the entries of archives: [path, kind, size, header]
  MaxLength,   \* bound on the entries of an archive
  Limits,      \* [artifact, content, entries, levels, perEntry, trailer]
  Sizes,       \* the sizes of artifacts
  None

Kinds == {"dir", "file", "sparse", "symlink", "device"}

LimitsAssumption ==
  /\ MaxLength \in Nat /\ Sizes \subseteq Nat
  /\ \A f \in DOMAIN Limits : Limits[f] \in Nat \ {0}
  /\ \A e \in Entries : /\ e.path # <<>> /\ e.kind \in Kinds
                        /\ e.size \in Nat /\ e.header \in Nat \ {0}
                        /\ e.kind \notin {"file", "sparse"} => e.size = 0

VARIABLES
  artifact,     \* [archive, end, declared, size, digest]
  fetch,        \* the extraction of the controller
  disk,         \* what it has written: [files, folders]
  reader        \* the archive reader of the commands

vars == <<artifact, fetch, disk, reader>>

\* What follows the entries: the end marker; nothing, as in a cut archive; the marker and
\* zeros; the marker and other data.
Ends == {"marker", "cut", "zeros", "data"}

\* Mutant: no room for the headers.
streamLimitContent == Limits.content + Limits.trailer

\* PackageLimits.streamLimit; archiveio.Defaults has the same value.
streamLimit == Limits.content + Limits.entries * Limits.perEntry + Limits.trailer

Init ==
  /\ artifact \in [archive : BoundedSeq(Entries, MaxLength), end : Ends,
                   declared : Sizes \cup {None}, size : Sizes, digest : BOOLEAN]
  /\ fetch = [at |-> 0, entries |-> 0, folders |-> {}, size |-> 0, left |-> streamLimit,
              result |-> None]
  /\ disk = [files |-> {}, folders |-> {}]
  /\ reader = [at |-> 1, entries |-> 0, folders |-> {}, size |-> 0, stream |-> 0,
               result |-> None]

----------------------------------------------------------------------------
(* Entries                                                                 *)

\* The folders of a path, itself excluded.
Above(path) == {SubSeq(path, 1, n) : n \in 1..(Len(path) - 1)}

\* The folders that the loop over path.Dir marks: from the innermost of needed out to the
\* first one that is known.
Marked(needed, known) ==
  {d \in needed : \A k \in needed : Len(k) >= Len(d) => k \notin known}

\* The bytes of an entry in the stream: the holes of a sparse file are not in it.
Stored(e) == IF e.kind = "sparse" THEN 0 ELSE e.size

IsFile(e) == e.kind \in {"file", "sparse"}

----------------------------------------------------------------------------
(* The controller                                                          *)

Refused(result) == fetch' = [fetch EXCEPT !.result = result] /\ UNCHANGED disk

\* Mutant: the size that the artifact declares is believed.
OversizedDeclared == artifact.declared # None /\ artifact.declared > Limits.artifact

\* The limit on the artifact, on what it declares and on what is read of it.
Oversized ==
  \/ artifact.declared # None /\ artifact.declared > Limits.artifact
  \/ artifact.size > Limits.artifact

\* Fetch and download: the size, then the digest.
Download ==
  /\ fetch.result = None /\ fetch.at = 0
  /\ \/ Oversized /\ Refused("limit")
     \/ ~Oversized /\ ~artifact.digest /\ Refused("error")
     \/ ~Oversized /\ artifact.digest /\ fetch' = [fetch EXCEPT !.at = 1] /\ UNCHANGED disk
  /\ UNCHANGED <<artifact, reader>>

\* The folders that an entry marks.
Needed(e) == Above(e.path) \cup IF e.kind = "dir" THEN {e.path} ELSE {}

Counted(e) == 1 + Cardinality(Marked(Needed(e), fetch.folders) \ {e.path})

TooLarge(e) == IsFile(e) /\ e.size > Limits.content - fetch.size

FilePaths == {f.path : f \in disk.files}

\* What MkdirAll and OpenFile refuse: a file in the place of a folder, or the reverse.
Clash(e) ==
  \/ e.kind = "dir" /\ (Above(e.path) \cup {e.path}) \cap FilePaths # {}
  \/ IsFile(e) /\ (Above(e.path) \cap FilePaths # {} \/ e.path \in disk.folders)

\* The limit that the entry passes, or the error it makes, in the order of extract, the
\* stream being read up to the entry before, and to the end of the file after.
Refusal(e) ==
  CASE e.header > fetch.left -> "limit"
    [] Len(e.path) > Limits.levels -> "limit"
    [] fetch.entries + Counted(e) > Limits.entries -> "limit"
    [] e.kind = "device" -> "error"
    [] TooLarge(e) -> "limit"
    [] Clash(e) -> "error"
    [] e.header + Stored(e) > fetch.left -> "limit"
    [] OTHER -> None

\* The disk once bytes of the entry are written; a symbolic link is skipped, and a file
\* written again is replaced.
Written(e, bytes) ==
  CASE e.kind = "symlink" -> disk
    [] e.kind = "dir" -> [disk EXCEPT !.folders = @ \cup Needed(e)]
    [] OTHER -> [files |-> {f \in disk.files : f.path # e.path}
                             \cup {[path |-> e.path, size |-> bytes]},
                 folders |-> disk.folders \cup Above(e.path)]

\* Mutant: an entry is written before it is counted.
LeftOfRefusedWhole(e) == Written(e, e.size)

\* What a refused entry leaves: it is counted before it is written, and only a file that the
\* end of the stream cuts leaves something.
LeftOfRefused(e) ==
  IF /\ e.header <= fetch.left /\ Len(e.path) <= Limits.levels
     /\ fetch.entries + Counted(e) <= Limits.entries
     /\ IsFile(e) /\ ~TooLarge(e) /\ ~Clash(e)
  THEN Written(e, fetch.left - e.header) ELSE disk

\* One turn of the loop of extract.
Extract ==
  /\ fetch.result = None /\ fetch.at \in 1..Len(artifact.archive)
  /\ LET e == artifact.archive[fetch.at] IN
     IF Refusal(e) # None
     THEN /\ fetch' = [fetch EXCEPT !.result = Refusal(e)]
          /\ disk' = LeftOfRefused(e)
     ELSE /\ fetch' = [fetch EXCEPT !.at = @ + 1,
                                    !.entries = @ + Counted(e),
                                    !.folders = @ \cup Marked(Needed(e), @),
                                    !.size = @ + IF IsFile(e) THEN e.size ELSE 0,
                                    !.left = @ - e.header - Stored(e)]
          /\ disk' = Written(e, e.size)
  /\ UNCHANGED <<artifact, reader>>

\* The tar reader stops at the end marker, or at the end of a stream that has none.
Extracted ==
  /\ fetch.result = None /\ fetch.at = Len(artifact.archive) + 1
  /\ Refused(IF artifact.end # "cut" /\ fetch.left = 0 THEN "limit" ELSE "ok")
  /\ UNCHANGED <<artifact, reader>>

\* The deadline of the fetch passes, or a call of the system fails.
Expire ==
  /\ fetch.result = None
  /\ Refused("error")
  /\ UNCHANGED <<artifact, reader>>

----------------------------------------------------------------------------
(* The commands                                                            *)

\* Mutant: an entry that is a folder is not remembered.
RememberedAbove(e) == Marked(Above(e.path), reader.folders)

Remembered(e) ==
  Marked(Above(e.path), reader.folders) \cup IF e.kind = "dir" THEN {e.path} ELSE {}

\* Reader.Next: the stream up to the entry, account, and the rest of the entry.
ReadNext ==
  /\ reader.result = None /\ reader.at \in 1..Len(artifact.archive)
  /\ LET e == artifact.archive[reader.at]
         entries == 1 + Cardinality(Marked(Above(e.path), reader.folders))
         stream == e.header + Stored(e)
     IN reader' = IF \/ stream > streamLimit - reader.stream
                     \/ e.size > Limits.content - reader.size
                     \/ entries > Limits.entries - reader.entries
                  THEN [reader EXCEPT !.result = "limit"]
                  ELSE [reader EXCEPT !.at = @ + 1, !.entries = @ + entries,
                                      !.folders = @ \cup Remembered(e),
                                      !.size = @ + e.size, !.stream = @ + stream]
  /\ UNCHANGED <<artifact, fetch, disk>>

\* The end of Reader.Next, and finish: the marker must be there, with only zeros after it.
Finished(left) ==
  CASE artifact.end = "cut" -> "error"
    [] artifact.end = "marker" -> IF left < 1 THEN "limit" ELSE "ok"
    [] artifact.end = "zeros" -> IF left < 2 THEN "limit" ELSE "ok"
    [] artifact.end = "data" -> IF left < 2 THEN "limit" ELSE "error"

Finish ==
  /\ reader.result = None /\ reader.at = Len(artifact.archive) + 1
  /\ reader' = [reader EXCEPT !.result = Finished(streamLimit - reader.stream)]
  /\ UNCHANGED <<artifact, fetch, disk>>

Next == Download \/ Extract \/ Extracted \/ Expire \/ ReadNext \/ Finish

Spec == Init /\ [][Next]_vars

----------------------------------------------------------------------------
(* Properties                                                              *)

\* The counters of both readers stay within their limits.
TypeOK ==
  /\ fetch.at \in 0..(MaxLength + 1) /\ reader.at \in 1..(MaxLength + 1)
  /\ fetch.entries \in 0..Limits.entries /\ reader.entries \in 0..Limits.entries
  /\ fetch.size \in 0..Limits.content /\ reader.size \in 0..Limits.content
  /\ fetch.left \in 0..streamLimit /\ reader.stream \in 0..streamLimit
  /\ {fetch.result, reader.result} \subseteq {None, "ok", "limit", "error"}

\* What an extraction leaves on the disk is within the limits at every moment, also when it
\* fails half-way: the files and the folders together are no more than the entries, and
\* the files hold no more than the content (release_fetch.go, extract).
WithinLimits ==
  /\ Cardinality(FilePaths \cup disk.folders) <= Limits.entries
  /\ MapThenSumSet(LAMBDA f : f.size, disk.files) <= Limits.content

\* Whether an archive is past a limit, from the archive as a whole.  A folder counts when a
\* name needs it before an entry makes it.
Implied(archive) ==
  LET Needs(i) == Above(archive[i].path)
      First(d) == Min({i \in DOMAIN archive : d \in Needs(i)})
  IN {d \in UNION {Needs(i) : i \in DOMAIN archive} :
        ~\E j \in 1..(First(d) - 1) : archive[j].kind = "dir" /\ archive[j].path = d}
Total(archive, F(_)) == MapThenSumSet(LAMBDA i : F(archive[i]), DOMAIN archive)
LongHeaders(archive) == \E i \in DOMAIN archive : archive[i].header > Limits.perEntry
PastLimits(archive) ==
  \/ Len(archive) + Cardinality(Implied(archive)) > Limits.entries
  \/ Total(archive, LAMBDA e : e.size) > Limits.content
  \/ \E i \in DOMAIN archive : Len(archive[i].path) > Limits.levels

\* A refusal on a limit is fatal for the Release until its package changes ("The same
\* artifact is refused the same way"): it is a fact of the artifact, whatever the clock and
\* the chunks, and an artifact within every limit is never refused on one, the stream limit
\* leaving room for what is not content.
RefusedForGood ==
  fetch.result = "limit" =>
    \/ artifact.size > Limits.artifact
    \/ artifact.declared \notin {None} /\ artifact.declared > Limits.artifact
    \/ PastLimits(artifact.archive)
    \/ LongHeaders(artifact.archive)

\* What the controller deploys is within every limit.
AcceptedWithin ==
  fetch.result = "ok" =>
    /\ artifact.size <= Limits.artifact /\ artifact.digest
    /\ ~PastLimits(artifact.archive)

\* The commands and the controller count the same archive the same way: a whole archive that
\* the commands have read to its end is not past a limit of the controller, except on the
\* levels of its names and on the size of the artifact; and what the controller has deployed
\* is not past a limit of the commands, except for the zeros that follow the end.
SameCount ==
  /\ reader.result = "ok" /\ fetch.result = "limit" =>
       \/ Oversized
       \/ \E i \in DOMAIN artifact.archive : Len(artifact.archive[i].path) > Limits.levels
  /\ reader.result = "limit" /\ fetch.result = "ok" => artifact.end \in {"zeros", "data"}
  /\ reader.result = "ok" /\ fetch.result = "ok" => reader.entries = fetch.entries
=============================================================================
