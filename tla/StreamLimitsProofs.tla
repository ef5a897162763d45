------------------------- MODULE StreamLimitsProofs -------------------------
(***************************************************************************)
(* Proofs about the readers that cut a stream at a limit, for every        *)
(* stream, limit, buffer and way to come in chunks.                        *)
(***************************************************************************)
EXTENDS StreamLimits, TLAPS

Counts == [Readers -> Nat]

Typed ==
  /\ total \in Nat /\ limit \in Nat \ {0} /\ pos \in Counts /\ given \in Counts
  /\ result \in [Readers -> {None, "end", "limit", "cut"}]

\* A reader that goes on is within the limit, and its caller has all of the bytes or none.
GoesOn ==
  \A r \in Readers :
    /\ pos[r] <= total
    /\ result[r] = None =>
         /\ pos[r] <= limit
         /\ given[r] = IF r \in {"limitedStream", "streamReader"} THEN pos[r] ELSE 0

\* The end that streamReader keeps is the end of the stream.
Kept == pending /\ result["streamReader"] = None => pos["streamReader"] = total

IInv == Typed /\ GoesOn /\ Kept /\ TypeOK /\ CutsAtLimit

USE BoundsAssumption

\* Min of the community modules, of two numbers.
LEMMA MinOfTwo ==
  ASSUME NEW a \in Int, NEW b \in Int
  PROVE  Min({a, b}) \in Int /\ Min({a, b}) <= a /\ Min({a, b}) <= b
<1>1. \E x \in {a, b} : \A y \in {a, b} : x <= y
  <2>1. CASE a <= b
    BY <2>1
  <2>2. CASE ~(a <= b)
    BY <2>2
  <2> QED
    BY <2>1, <2>2
<1> QED
  BY <1>1 DEF Min

\* What a chunk of the stream can be.
LEMMA ChunkOf ==
  ASSUME NEW r \in Readers, NEW k \in Int, NEW c \in Chunks(r, k)
  PROVE  /\ c.n \in Nat /\ c.n <= k /\ c.end \in BOOLEAN
         /\ pos[r] + c.n <= total
         /\ c.end => pos[r] + c.n = total
         /\ c.n = 0 => c.end
BY DEF Chunks

\* A step of one reader, in the values before it.
LEMMA OneStep ==
  ASSUME IInv, NEW r \in Readers, NEW k \in Int, NEW c \in Chunks(r, k),
         NEW n \in Nat, NEW res \in {None, "end", "limit", "cut"},
         Took(r, c, n, res),
         pos[r] + c.n <= limit + 1, given[r] + n <= limit,
         res = None =>
           /\ pos[r] + c.n <= limit
           /\ given[r] + n = IF r \in {"limitedStream", "streamReader"} THEN pos[r] + c.n ELSE 0,
         res = "limit" => total > limit,
         res \in {"end", "cut"} => total <= limit /\ given[r] + n = total
  PROVE  Typed' /\ GoesOn' /\ TypeOK' /\ CutsAtLimit'
<1>1. c.n \in Nat /\ pos[r] + c.n <= total
  BY ChunkOf
<1>2. /\ pos[r] \in Nat /\ given[r] \in Nat /\ limit \in Nat /\ total \in Nat
  BY DEF IInv, Typed, Counts
<1>3. total' = total /\ limit' = limit
  BY DEF Took
<1>4. /\ pos'[r] = pos[r] + c.n /\ given'[r] = given[r] + n /\ result'[r] = res
  BY DEF Took, IInv, Typed, Counts
<1>5. \A q \in Readers : q # r => /\ pos'[q] = pos[q] /\ given'[q] = given[q]
                                  /\ result'[q] = result[q]
  BY DEF Took, IInv, Typed, Counts
<1>6. Typed'
  BY <1>1, <1>2, <1>3 DEF Took, IInv, Typed, Counts
<1>7. ASSUME NEW q \in Readers PROVE GoesOn!(q)' /\ TypeOK!(q)' /\ CutsAtLimit!(q)'
  <2>1. CASE q = r
    BY <1>1, <1>2, <1>3, <1>4, <2>1
  <2>2. CASE q # r
    BY <1>3, <1>5, <2>2 DEF IInv, GoesOn, TypeOK, CutsAtLimit
  <2> QED
    BY <2>1, <2>2
<1> QED
  BY <1>6, <1>7 DEF GoesOn, TypeOK, CutsAtLimit

\* The facts about a reader that goes on, and the one of Min, that each reader uses.
LEMMA Reading ==
  ASSUME IInv, NEW r \in Readers, result[r] = None
  PROVE  /\ pos[r] \in Nat /\ given[r] \in Nat /\ limit \in Nat /\ total \in Nat
         /\ pos[r] <= limit /\ limit - pos[r] \in Int /\ OverRead(r) \in Int
         /\ r \in {"limitedStream", "streamReader"} => given[r] = pos[r]
         /\ r \in {"ReadMetadata", "decodeManifest"} => given[r] = 0
BY DEF IInv, Typed, Counts, GoesOn, OverRead

\* A read asks for no more than the bytes left and one.
LEMMA Asked ==
  ASSUME NEW r, OverRead(r) \in Int
  PROVE  Min({Buffer, OverRead(r)}) \in Int /\ Min({Buffer, OverRead(r)}) <= OverRead(r)
<1> DEFINE over == OverRead(r)
<1>1. over \in Int /\ Buffer \in Int
  OBVIOUS
<1>2. Min({Buffer, over}) \in Int /\ Min({Buffer, over}) <= over
  <2> HIDE DEF over
  <2> QED
    BY <1>1, MinOfTwo
<1> QED
  BY <1>2

\* limitedStream.Read: at the limit, one more byte is a refusal and the end is an end.
LEMMA ReadLimitedIInv == ASSUME IInv, ReadLimited PROVE IInv'
<1> DEFINE r == "limitedStream"
           left == limit - pos[r]
<1>1. r \in Readers /\ result[r] = None /\ pending' = pending
  BY DEF Readers, ReadLimited
<1>2. /\ pos[r] \in Nat /\ given[r] \in Nat /\ limit \in Nat /\ total \in Nat
      /\ pos[r] <= limit /\ left \in Int /\ given[r] = pos[r]
  BY <1>1, Reading
<1>3. Kept'
  BY DEF ReadLimited, Took, IInv, Kept, Typed, Counts, Readers
<1>4. CASE left > 0
  <2>1. PICK c \in Chunks(r, Min({Buffer, left})) :
             Took(r, c, c.n, IF c.end THEN "end" ELSE None)
    BY <1>4 DEF ReadLimited
  <2>2. Min({Buffer, left}) \in Int /\ Min({Buffer, left}) <= left
    <3> HIDE DEF left
    <3> QED
      BY <1>2, MinOfTwo
  <2>3. /\ c.n \in Nat /\ c.n <= left /\ c.end \in BOOLEAN
        /\ c.end => pos[r] + c.n = total
    BY <1>1, <1>2, <2>2, ChunkOf
  <2>4. CASE c.end
    <3>1. Took(r, c, c.n, "end")
      BY <2>1, <2>4
    <3> HIDE DEF r
    <3> QED
      BY <1>1, <1>2, <1>3, <2>2, <2>3, <2>4, <3>1, OneStep DEF IInv
  <2>5. CASE ~c.end
    <3>1. Took(r, c, c.n, None)
      BY <2>1, <2>5
    <3> QED
      BY <1>1, <1>2, <1>3, <2>2, <2>3, <3>1, OneStep DEF IInv
  <2> QED
    BY <2>3, <2>4, <2>5
<1>5. CASE left = 0
  <2>1. PICK c \in Chunks(r, 1) : Took(r, c, 0, Probe(c))
    BY <1>4, <1>5 DEF ReadLimited
  <2>2. /\ c.n \in Nat /\ c.n <= 1 /\ pos[r] + c.n <= total
        /\ c.end => pos[r] + c.n = total
        /\ c.n = 0 => c.end
    BY <1>1, ChunkOf
  <2>3. Probe(c) \in {"limit", "end"} /\ (Probe(c) = "limit" <=> c.n > 0)
    BY DEF Probe
  <2>4. Probe(c) # "limit" => total = limit
    BY <1>2, <1>5, <2>2, <2>3
  <2>5. Probe(c) = "limit" => total > limit
    BY <1>2, <1>5, <2>2, <2>3
  <2> QED
    BY <1>1, <1>2, <1>3, <1>5, <2>1, <2>2, <2>3, <2>4, <2>5, OneStep DEF IInv
<1> QED
  BY <1>4, <1>5 DEF ReadLimited

\* streamReader.Read: a byte past the limit refuses, and the end is kept until all is given.
LEMMA ReadStreamIInv == ASSUME IInv, ReadStream PROVE IInv'
<1> DEFINE r == "streamReader"
<1>1. r \in Readers /\ result[r] = None
  BY DEF Readers, ReadStream
<1>2. /\ pos[r] \in Nat /\ given[r] \in Nat /\ limit \in Nat /\ total \in Nat
      /\ pos[r] <= limit /\ OverRead(r) \in Int /\ given[r] = pos[r]
  BY <1>1, Reading
<1>3. CASE pending /\ Took(r, [n |-> 0, end |-> TRUE], 0, "cut") /\ UNCHANGED pending
  <2> DEFINE c == [n |-> 0, end |-> TRUE]
  <2>1. pos[r] = total
    BY <1>1, <1>3 DEF IInv, Kept
  <2>2. c \in Chunks(r, 0) /\ c.n = 0
    BY <1>2, <2>1 DEF Chunks
  <2>3. Took(r, c, 0, "cut")
    BY <1>3
  <2>4. Kept'
    BY <1>1, <2>3 DEF Kept, Took, IInv, Typed
  <2> HIDE DEF c
  <2> QED
    BY <1>1, <1>2, <2>1, <2>2, <2>3, <2>4, OneStep DEF IInv
<1>4. CASE ~pending
  <2>1. PICK c \in Chunks(r, Min({Buffer, OverRead(r)})) :
             IF c.n > limit - pos[r] THEN Took(r, c, 0, "limit") /\ UNCHANGED pending
             ELSE /\ Took(r, c, c.n, IF c.n = 0 THEN "cut" ELSE None)
                  /\ pending' = (c.n > 0 /\ c.end)
    BY <1>4 DEF ReadStream
  <2>2. Min({Buffer, OverRead(r)}) \in Int /\ Min({Buffer, OverRead(r)}) <= OverRead(r)
    BY <1>2, MinOfTwo
  <2>3. /\ c.n \in Nat /\ pos[r] + c.n <= limit + 1 /\ pos[r] + c.n <= total
        /\ c.end => pos[r] + c.n = total
        /\ c.n = 0 => c.end
    BY <1>1, <1>2, <2>2, ChunkOf DEF OverRead
  <2>4. CASE c.n > limit - pos[r]
    <3>1. Took(r, c, 0, "limit") /\ pending' = pending
      BY <2>1, <2>4
    <3>2. Kept'
      BY <1>4, <3>1 DEF Kept
    <3> QED
      BY <1>1, <1>2, <2>2, <2>3, <2>4, <3>1, <3>2, OneStep DEF IInv
  <2>5. CASE ~(c.n > limit - pos[r]) /\ c.n = 0
    <3>1. Took(r, c, 0, "cut") /\ pos[r] = total
      BY <1>2, <2>1, <2>3, <2>5
    <3>2. Kept'
      BY <1>1, <3>1 DEF Kept, Took, IInv, Typed
    <3> QED
      BY <1>1, <1>2, <2>2, <2>3, <3>1, <3>2, OneStep DEF IInv
  <2>6. CASE ~(c.n > limit - pos[r]) /\ c.n # 0
    <3>1. Took(r, c, c.n, None) /\ pending' = (c.n > 0 /\ c.end)
      BY <2>1, <2>6
    <3>2. pos'[r] = pos[r] + c.n /\ total' = total
      BY <1>1, <3>1 DEF Took, IInv, Typed, Counts
    <3>3. Kept'
      BY <2>3, <3>1, <3>2 DEF Kept
    <3> QED
      BY <1>1, <1>2, <2>2, <2>3, <2>6, <3>1, <3>3, OneStep DEF IInv
  <2> QED
    BY <2>4, <2>5, <2>6
<1> QED
  BY <1>3, <1>4 DEF ReadStream

\* The loops that hold their bytes back: ReadMetadata and decodeManifest.
LEMMA ReadWholeIInv ==
  ASSUME IInv, ReadMetadata \/ DecodeManifest
  PROVE  IInv'
<1>1. Kept'
  BY DEF ReadMetadata, DecodeManifest, Took, IInv, Kept, Typed, Counts, Readers
<1>2. ASSUME NEW r \in {"ReadMetadata", "decodeManifest"}, result[r] = None,
             NEW c \in Chunks(r, Min({Buffer, OverRead(r)})),
             \/ c.n > limit - pos[r] /\ Took(r, c, 0, "limit")
             \/ c.n <= limit - pos[r] /\ c.end /\ Took(r, c, pos[r] + c.n, "end")
             \/ c.n <= limit - pos[r] /\ ~c.end /\ Took(r, c, 0, None)
      PROVE  IInv'
  <2>1. r \in Readers /\ r \notin {"limitedStream", "streamReader"}
    BY DEF Readers
  <2>2. /\ pos[r] \in Nat /\ limit \in Nat /\ total \in Nat
        /\ pos[r] <= limit /\ OverRead(r) \in Int /\ given[r] = 0
    BY <1>2, <2>1, Reading
  <2>3. Min({Buffer, OverRead(r)}) \in Int /\ Min({Buffer, OverRead(r)}) <= OverRead(r)
    BY <2>2, Asked
  <2>4. /\ c.n \in Nat /\ pos[r] + c.n <= limit + 1 /\ pos[r] + c.n <= total
        /\ c.end => pos[r] + c.n = total
    BY <2>1, <2>2, <2>3, ChunkOf DEF OverRead
  <2>5. CASE c.n > limit - pos[r] /\ Took(r, c, 0, "limit")
    BY <1>1, <2>1, <2>2, <2>3, <2>4, <2>5, OneStep DEF IInv
  <2>6. CASE c.n <= limit - pos[r] /\ c.end /\ Took(r, c, pos[r] + c.n, "end")
    BY <1>1, <2>1, <2>2, <2>3, <2>4, <2>6, OneStep DEF IInv
  <2>7. CASE c.n <= limit - pos[r] /\ ~c.end /\ Took(r, c, 0, None)
    BY <1>1, <2>1, <2>2, <2>3, <2>4, <2>7, OneStep DEF IInv
  <2> QED
    BY <1>2, <2>5, <2>6, <2>7
<1>3. CASE ReadMetadata
  <2> DEFINE r == "ReadMetadata"
  <2>1. PICK c \in Chunks(r, Min({Buffer, OverRead(r)})) :
             IF c.n > limit - pos[r] THEN Took(r, c, 0, "limit")
             ELSE IF c.end THEN Took(r, c, pos[r] + c.n, "end")
             ELSE Took(r, c, 0, None)
    BY <1>3 DEF ReadMetadata
  <2>2. result[r] = None /\ r \in Readers
    BY <1>3 DEF ReadMetadata, Readers
  <2>3. /\ pos[r] \in Nat /\ limit \in Nat /\ OverRead(r) \in Int
    BY <2>2, Reading
  <2>4. c.n \in Nat
    BY <2>2, <2>3, Asked, ChunkOf
  <2>5. \/ c.n > limit - pos[r] /\ Took(r, c, 0, "limit")
        \/ c.n <= limit - pos[r] /\ c.end /\ Took(r, c, pos[r] + c.n, "end")
        \/ c.n <= limit - pos[r] /\ ~c.end /\ Took(r, c, 0, None)
    BY <2>1, <2>3, <2>4
  <2>6. r \in {"ReadMetadata", "decodeManifest"}
    OBVIOUS
  <2> HIDE DEF r
  <2> QED
    BY <1>2, <2>2, <2>5, <2>6
<1>4. CASE DecodeManifest
  <2> DEFINE r == "decodeManifest"
  <2>1. PICK c \in Chunks(r, Min({Buffer, OverRead(r)})) :
             IF ~c.end /\ pos[r] + c.n < limit + 1 THEN Took(r, c, 0, None)
             ELSE IF pos[r] + c.n > limit THEN Took(r, c, 0, "limit")
             ELSE Took(r, c, pos[r] + c.n, "end")
    BY <1>4 DEF DecodeManifest
  <2>2. result[r] = None /\ r \in Readers
    BY <1>4 DEF DecodeManifest, Readers
  <2>3. /\ pos[r] \in Nat /\ limit \in Nat /\ OverRead(r) \in Int
    BY <2>2, Reading
  <2>4. c.n \in Nat
    BY <2>2, <2>3, Asked, ChunkOf
  <2>5. \/ c.n > limit - pos[r] /\ Took(r, c, 0, "limit")
        \/ c.n <= limit - pos[r] /\ c.end /\ Took(r, c, pos[r] + c.n, "end")
        \/ c.n <= limit - pos[r] /\ ~c.end /\ Took(r, c, 0, None)
    BY <2>1, <2>3, <2>4
  <2>6. r \in {"ReadMetadata", "decodeManifest"}
    OBVIOUS
  <2> HIDE DEF r
  <2> QED
    BY <1>2, <2>2, <2>5, <2>6
<1> QED
  BY <1>3, <1>4

\* The invariant of the four readers.
LEMMA ReadersIInv == FairSpec => []IInv
<1>1. Init => IInv
  BY DEF Init, IInv, Typed, Counts, GoesOn, Kept, TypeOK, CutsAtLimit, Readers
<1>2. IInv /\ [Next]_vars => IInv'
  <2> SUFFICES ASSUME IInv, [Next]_vars PROVE IInv'
    OBVIOUS
  <2>1. CASE UNCHANGED vars
    BY <2>1 DEF vars, IInv, Typed, GoesOn, Kept, TypeOK, CutsAtLimit
  <2> QED
    BY <2>1, ReadLimitedIInv, ReadStreamIInv, ReadWholeIInv DEF Next
<1> QED
  BY <1>1, <1>2, PTL DEF FairSpec

\* No reader takes more than one byte past its limit or gives any past it (release_fetch.go,
\* archiveio/reader.go), for every stream, limit and buffer.
THEOREM NothingPastTheLimit == FairSpec => []TypeOK
<1>1. IInv => TypeOK
  BY DEF IInv
<1> QED
  BY ReadersIInv, <1>1, PTL

\* limitedStream, streamReader, ReadMetadata and decodeManifest refuse a stream exactly when it
\* is longer than the limit, and give the others whole, however it comes in chunks.
THEOREM CutExactly == FairSpec => []CutsAtLimit
<1>1. IInv => CutsAtLimit
  BY DEF IInv
<1> QED
  BY ReadersIInv, <1>1, PTL
=============================================================================
