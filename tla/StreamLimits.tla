---------------------------- MODULE StreamLimits ----------------------------
(***************************************************************************)
(* The readers that cut a stream at a limit: limitedStream and             *)
(* decodeManifest of the controller (src/internal/controller/              *)
(* release_fetch.go), streamReader and ReadMetadata of the commands        *)
(* (src/internal/archiveio/reader.go).  The stream gives its bytes in      *)
(* chunks of any size, and its end with the last of them or after it.      *)
(***************************************************************************)
EXTENDS Integers, FiniteSetsExt

CONSTANTS
  MaxTotal,    \* bound on the bytes of the stream
  MaxLimit,    \* bound on the limit
  Buffer,      \* the bytes of the buffer of a read
  None

ASSUME BoundsAssumption ==
  /\ MaxTotal \in Nat /\ MaxLimit \in Nat \ {0} /\ Buffer \in Nat \ {0}
  /\ None \notin {"end", "limit", "cut"}

VARIABLES
  total,       \* the bytes of the stream
  limit,
  pos,         \* per reader, the bytes taken from the stream
  given,       \* per reader, the bytes returned to its caller
  pending,     \* whether the end that came with bytes is kept by streamReader
  result       \* per reader: None, "end", "limit" or, from streamReader, "cut"

vars == <<total, limit, pos, given, pending, result>>

Readers == {"limitedStream", "streamReader", "ReadMetadata", "decodeManifest"}

Init ==
  /\ total \in 0..MaxTotal /\ limit \in 1..MaxLimit
  /\ pos = [r \in Readers |-> 0] /\ given = [r \in Readers |-> 0]
  /\ pending = FALSE
  /\ result = [r \in Readers |-> None]

\* What a read of at most k bytes of the stream returns: at least one byte, or its end.
Chunks(r, k) ==
  {c \in [n : 0..k, end : BOOLEAN] :
     /\ pos[r] + c.n <= total
     /\ c.end => pos[r] + c.n = total
     /\ c.n = 0 => c.end}

\* A reader takes c.n bytes, gives n of them to its caller and ends with res.
Took(r, c, n, res) ==
  /\ pos' = [pos EXCEPT ![r] = @ + c.n]
  /\ given' = [given EXCEPT ![r] = @ + n]
  /\ result' = [result EXCEPT ![r] = res]
  /\ UNCHANGED <<total, limit>>

\* Mutant: the limit is a refusal as soon as it is reached.
ProbeAlways(c) == "limit"

\* A stream of exactly the limit ends there.
Probe(c) == IF c.n > 0 THEN "limit" ELSE "end"

\* limitedStream.Read
ReadLimited ==
  LET r == "limitedStream"
      left == limit - pos[r]
  IN /\ result[r] = None
     /\ \/ left > 0 /\ \E c \in Chunks(r, Min({Buffer, left})) :
              Took(r, c, c.n, IF c.end THEN "end" ELSE None)
        \/ left = 0 /\ \E c \in Chunks(r, 1) : Took(r, c, 0, Probe(c))
     /\ UNCHANGED pending

\* Mutant: no byte past the limit is asked for.
OverReadNone(r) == limit - pos[r]

\* The bytes that the budget leaves, and one to see that there are more.
OverRead(r) == limit - pos[r] + 1

\* streamReader.Read before the end marker of the archive: the end of the stream is an error,
\* and one that comes with bytes is kept for the next call.
ReadStream ==
  LET r == "streamReader" IN
  /\ result[r] = None
  /\ \/ pending /\ Took(r, [n |-> 0, end |-> TRUE], 0, "cut") /\ UNCHANGED pending
     \/ /\ ~pending
        /\ \E c \in Chunks(r, Min({Buffer, OverRead(r)})) :
             IF c.n > limit - pos[r] THEN Took(r, c, 0, "limit") /\ UNCHANGED pending
             ELSE /\ Took(r, c, c.n, IF c.n = 0 THEN "cut" ELSE None)
                  /\ pending' = (c.n > 0 /\ c.end)

\* The loop of ReadMetadata: the bytes are returned at the end only. The size that the
\* caller declares is within the limit; a larger one is refused before any read.
ReadMetadata ==
  LET r == "ReadMetadata" IN
  /\ result[r] = None
  /\ \E c \in Chunks(r, Min({Buffer, OverRead(r)})) :
       IF c.n > limit - pos[r] THEN Took(r, c, 0, "limit")
       ELSE IF c.end THEN Took(r, c, pos[r] + c.n, "end")
       ELSE Took(r, c, 0, None)
  /\ UNCHANGED pending

\* decodeManifest, and download: the stream is cut one byte past the limit, which the
\* length shows.
DecodeManifest ==
  LET r == "decodeManifest" IN
  /\ result[r] = None
  /\ \E c \in Chunks(r, Min({Buffer, OverRead(r)})) :
       LET n == pos[r] + c.n IN
       IF ~c.end /\ n < limit + 1 THEN Took(r, c, 0, None)
       ELSE IF n > limit THEN Took(r, c, 0, "limit")
       ELSE Took(r, c, n, "end")
  /\ UNCHANGED pending

Next == ReadLimited \/ ReadStream \/ ReadMetadata \/ DecodeManifest

\* Every reader is called until it answers with an error or an end.
FairSpec ==
  /\ Init /\ [][Next]_vars
  /\ WF_vars(ReadLimited) /\ WF_vars(ReadStream) /\ WF_vars(ReadMetadata)
  /\ WF_vars(DecodeManifest)

----------------------------------------------------------------------------
(* Properties                                                              *)

\* A reader takes no more than one byte past the limit, and gives none past it.
TypeOK ==
  \A r \in Readers : /\ pos[r] \in 0..(limit + 1) /\ given[r] \in 0..limit
                     /\ result[r] \in {None, "end", "limit", "cut"}

\* However the stream comes in chunks, it is refused when it is longer than the limit and
\* never when it is exactly the limit, and one that is not refused is given whole.
CutsAtLimit ==
  \A r \in Readers :
    /\ result[r] = "limit" => total > limit
    /\ result[r] \in {"end", "cut"} => total <= limit /\ given[r] = total

=============================================================================
