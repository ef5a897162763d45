-------------------------- MODULE FluxSourcesProofs --------------------------
(***************************************************************************)
(* Proofs about the sources of a Release, for any packages, revisions,     *)
(* files, lags, crashes and failures: they keep the promise of PackageUse  *)
(* (unless a container can stop within the removal of a folder), leave     *)
(* alone the sources that the Release does not control, and stay secure.   *)
(* Which revision, index and folder a pass finds rests on hypotheses that  *)
(* each theorem names.                                                     *)
(***************************************************************************)
EXTENDS FluxSources, KubeProofs

Objects == {rel, oci, hr}
VersionsOf == [o \in Objects |-> IF o = rel THEN Packages ELSE {None} \cup SourceVersions]
Reads == [generation : Nat, got : Revisions \cup {None}]

OwnerOf(o) == OwnerKept(store[o], feed[o], cache[o], None)

Cluster == Follows(Objects, VersionsOf) /\ \A o \in Sources : OwnerOf(o)

Kept ==
  /\ registry \in [Packages -> Seq(Revisions) \ {<<>>}]
  /\ flux \in [Sources -> Reads \cup {None}]
  /\ folder \in Folders
  /\ held \in Passes \cup {None} /\ (held # None => folder.mark = held.revision)

\* revision.txt names the revision of all the files of the folder.
Whole == folder.mark # None => folder.files = Files(folder.mark)

NoRemoval == "removal" \notin Interrupts

IInv == Cluster /\ Kept /\ (NoRemoval => Whole)

\* What the server, the cache and the feed hold of a source.
LEMMA Typed ==
  ASSUME SourcesAssumption, Follows(Objects, VersionsOf), NEW o \in Sources
  PROVE  /\ o \in Objects /\ o # rel /\ VersionsOf[o] = {None} \cup SourceVersions
         /\ store[o] # None => store[o] \in SourceVersions
         /\ cache[o] # None => cache[o] \in SourceVersions
         /\ feed[o] \in Seq(VersionsOf[o])
         /\ IF feed[o] = <<>> THEN cache[o] = store[o] ELSE feed[o][Len(feed[o])] = store[o]
<1>1. o \in Objects /\ o # rel
  BY DEF Sources, Objects, SourcesAssumption
<1>2. VersionsOf[o] = {None} \cup SourceVersions
  BY <1>1 DEF VersionsOf
<1>3. FollowsAt(o, VersionsOf)
  BY <1>1 DEF Follows
<1> QED
  BY <1>1, <1>2, <1>3 DEF FollowsAt

\* An object with the UID of the one that was read is there, with the same owner.
LEMMA SameIsThere ==
  ASSUME SourcesAssumption, Cluster, NEW o \in Sources, SameUID(o)
  PROVE  /\ store[o] \in SourceVersions /\ cache[o] \in SourceVersions
         /\ store[o].owner = cache[o].owner
<1>1. /\ feed[o] \in Seq(VersionsOf[o])
      /\ IF feed[o] = <<>> THEN cache[o] = store[o] ELSE feed[o][Len(feed[o])] = store[o]
  BY Typed DEF Cluster
<1>2. store[o] # None /\ cache[o].owner = store[o].owner
  BY <1>1, SameOwner DEF Cluster, OwnerOf, SameUID
<1> QED
  BY <1>2, Typed DEF Cluster, SameUID

\* An update keeps the owner, and a creation begins with its own.
LEMMA WriteCluster ==
  ASSUME SourcesAssumption, Cluster, NEW o \in Sources, NEW v \in {None} \cup SourceVersions,
         Write(Only(o, v)), store[o] # None /\ v # None => v.owner = store[o].owner
  PROVE  /\ Cluster' /\ cache' = cache /\ store'[o] = v
         /\ feed'[o] = IF v # store[o] THEN Append(feed[o], v) ELSE feed[o]
         /\ \A x \in Objects \ {o} : store'[x] = store[x] /\ feed'[x] = feed[x]
<1>1. /\ Follows(Objects, VersionsOf)' /\ cache' = cache /\ store'[o] = v
      /\ feed'[o] = IF v # store[o] THEN Append(feed[o], v) ELSE feed[o]
      /\ \A x \in Objects \ {o} : store'[x] = store[x] /\ feed'[x] = feed[x]
  <2>1. o \in Objects /\ v \in VersionsOf[o]
    BY Typed DEF Cluster
  <2> QED
    BY <2>1, OnlyFollows DEF Cluster
<1>2. ASSUME NEW x \in Sources \ {o} PROVE OwnerOf(x)'
  <2>1. x \in Objects /\ store'[x] = store[x] /\ feed'[x] = feed[x]
    BY <1>1 DEF Objects, Sources
  <2> QED
    BY <1>1, <2>1 DEF Cluster, OwnerOf
<1>3. OwnerOf(o)'
  <2>1. CASE v = store[o]
    BY <1>1, <2>1 DEF Cluster, OwnerOf
  <2>2. CASE v # store[o]
    <3>1. /\ feed[o] \in Seq(VersionsOf[o]) /\ v \in VersionsOf[o]
          /\ IF feed[o] = <<>> THEN cache[o] = store[o] ELSE feed[o][Len(feed[o])] = store[o]
      BY Typed DEF Cluster
    <3>2. OwnerKept(v, Append(feed[o], v), cache[o], None)
      BY <3>1, OwnerWritten DEF Cluster, OwnerOf
    <3> QED
      BY <1>1, <2>2, <3>2 DEF OwnerOf
  <2> QED
    BY <2>1, <2>2
<1> QED
  BY <1>1, <1>2, <1>3 DEF Cluster

\* A version that arrives has the owner that the later ones kept.
LEMMA ReceiveCluster ==
  ASSUME SourcesAssumption, Cluster, NEW r \in Objects, Receive(r)
  PROVE  Cluster' /\ store' = store
<1>1. /\ Follows(Objects, VersionsOf)' /\ store' = store
      /\ cache'[r] = Head(feed[r]) /\ feed'[r] = Tail(feed[r]) /\ feed[r] # <<>>
      /\ \A x \in Objects \ {r} : cache'[x] = cache[x] /\ feed'[x] = feed[x]
  BY ReceiveFollows DEF Cluster
<1>2. ASSUME NEW o \in Sources \ {r} PROVE OwnerOf(o)'
  <2>1. o \in Objects /\ cache'[o] = cache[o] /\ feed'[o] = feed[o]
    BY <1>1 DEF Objects, Sources
  <2> QED
    BY <1>1, <2>1 DEF Cluster, OwnerOf
<1>3. ASSUME r \in Sources PROVE OwnerOf(r)'
  <2>1. feed[r] \in Seq(VersionsOf[r])
    BY <1>3, Typed DEF Cluster
  <2>2. OwnerKept(store[r], Tail(feed[r]), Head(feed[r]), None)
    BY <1>1, <1>3, <2>1, OwnerReceived DEF Cluster, OwnerOf
  <2> QED
    BY <1>1, <2>2 DEF OwnerOf
<1> QED
  BY <1>1, <1>2, <1>3 DEF Cluster

\* A manager that starts reads the objects as they are.
LEMMA RelistCluster ==
  ASSUME SourcesAssumption, Cluster, Relist
  PROVE  Cluster' /\ store' = store
<1>1. Follows(Objects, VersionsOf)' /\ store' = store /\ \A o \in Objects : cache'[o] = store[o]
  BY RelistFollows DEF Cluster
<1>2. DOMAIN feed = Objects
  BY DEF Cluster, Follows
<1>3. ASSUME NEW o \in Sources PROVE OwnerOf(o)'
  <2>1. o \in Objects /\ feed'[o] = <<>>
    BY <1>2 DEF Objects, Sources, Relist
  <2> QED
    BY <1>1, <2>1 DEF OwnerOf, OwnerKept
<1> QED
  BY <1>1, <1>3 DEF Cluster

\* A source that is replaced begins with another owner, after the version without it.
LEMMA ReplaceCluster ==
  ASSUME SourcesAssumption, Cluster, NEW o \in Sources, NEW v \in SourceVersions,
         store' = [store EXCEPT ![o] = v],
         feed' = [feed EXCEPT ![o] = Append(Append(@, None), v)], cache' = cache
  PROVE  Cluster'
<1>1. /\ o \in Objects /\ None \in VersionsOf[o] /\ v \in VersionsOf[o]
      /\ DOMAIN store = Objects /\ DOMAIN feed = Objects /\ FollowsAt(o, VersionsOf)
  BY Typed, Zenon DEF Cluster, Follows
<1>2. feed'[o] = Append(Append(feed[o], None), v) /\ store'[o] = v
  BY <1>1
<1>3. \A x \in Objects \ {o} : store'[x] = store[x] /\ feed'[x] = feed[x]
  BY <1>1
<1>4. /\ OwnerKept(v, feed'[o], cache[o], None) /\ feed'[o] \in Seq(VersionsOf[o])
      /\ feed'[o] # <<>> /\ feed'[o][Len(feed'[o])] = v
  <2>1. feed[o] \in Seq(VersionsOf[o])
    BY <1>1 DEF FollowsAt
  <2> QED
    BY <1>1, <1>2, <2>1, OwnerReplaced
<1>5. FollowsAt(o, VersionsOf)'
  BY <1>1, <1>2, <1>4 DEF FollowsAt
<1>6. ASSUME NEW x \in Objects \ {o} PROVE FollowsAt(x, VersionsOf)'
  BY <1>3, Zenon DEF Cluster, Follows, FollowsAt
<1>7. Follows(Objects, VersionsOf)'
  BY <1>1, <1>5, <1>6, Zenon DEF Cluster, Follows
<1>8. OwnerOf(o)'
  BY <1>2, <1>4 DEF OwnerOf
<1>9. ASSUME NEW x \in Sources \ {o} PROVE OwnerOf(x)'
  <2>1. x \in Objects \ {o}
    BY DEF Sources, Objects
  <2> QED
    BY <1>3, <2>1 DEF Cluster, OwnerOf
<1> QED
  BY <1>7, <1>8, <1>9 DEF Cluster

----------------------------------------------------------------------------
(* What a pass writes to a source                                          *)

ArtifactOf(v) == IF v = None THEN None ELSE v.artifact

\* The first version of a source: Flux has not seen it.
Fresh(v) ==
  /\ v.artifact = None /\ ~v.insecure
  /\ v.generation = 1 /\ v.readyGeneration = 0 /\ v.observed = 0

\* A later version of a source keeps what belongs to Flux, has another generation if its spec
\* changes, and is not made insecure.
Succeeds(v, w) ==
  /\ w.owner = v.owner /\ w.artifact = v.artifact /\ w.annotation = v.annotation
  /\ w.ready = v.ready /\ w.readyGeneration = v.readyGeneration /\ w.observed = v.observed
  /\ \/ w.generation = v.generation /\ w.package = v.package
     \/ w.generation = v.generation + 1
  /\ w.insecure => v.insecure

\* A version that a pass writes is the first one, or a later one of a source that the Release
\* controls.
Updates(o, v) == IF store[o] = None THEN Fresh(v) ELSE store[o].owner = rel /\ Succeeds(store[o], v)

\* A pass writes such a version, or none, and goes on only with the artifact of the source.
Answer(o, out) ==
  /\ \/ out.write = NoWrites
     \/ \E v \in SourceVersions : out.write = Only(o, v) /\ Updates(o, v)
  /\ \/ out.to \in {"error", "fatal", "wait"}
     \/ store[o] # None /\ out.to = store[o].artifact /\ out.to \in Revisions

\* A result without a write.
LEMMA QuietAnswer ==
  ASSUME NEW o, NEW to \in {"error", "fatal", "wait"}
  PROVE  Answer(o, Result(to, NoWrites))
BY DEF Answer, Result

\* A changed spec has the next generation.
LEMMA NextGeneration ==
  ASSUME NEW v \in SourceVersions
  PROVE  v.generation + 1 \in Nat
<1>1. v.generation \in Nat
  BY Zenon DEF SourceVersions
<1> QED
  BY <1>1

\* The merge patch changes the spec of the version of the server only.
LEMMA Populated ==
  ASSUME SourcesAssumption, Cluster, NEW o \in Sources, SameUID(o), NEW package \in Packages
  PROVE  /\ Populate(o, package, FALSE) \in SourceVersions
         /\ Succeeds(store[o], Populate(o, package, FALSE))
<1> DEFINE p == IF package # cache[o].package THEN package ELSE store[o].package
           s == IF FALSE # cache[o].insecure THEN FALSE ELSE store[o].insecure
           v == [store[o] EXCEPT !.package = p, !.insecure = s]
           w == [v EXCEPT !.generation = @ + 1]
<1>1. store[o] \in SourceVersions
  BY SameIsThere
<1>2. p \in Packages /\ s \in BOOLEAN /\ (s => store[o].insecure)
  BY <1>1, Zenon DEF SourceVersions
<1>3. Populate(o, package, FALSE) = IF v = store[o] THEN v ELSE w
  BY DEF Populate
<1> HIDE DEF p, s
<1>4. /\ v \in SourceVersions /\ v.owner = store[o].owner /\ v.artifact = store[o].artifact
      /\ v.annotation = store[o].annotation /\ v.ready = store[o].ready
      /\ v.readyGeneration = store[o].readyGeneration /\ v.observed = store[o].observed
      /\ v.generation = store[o].generation /\ v.insecure = s
  BY <1>1, <1>2, Zenon DEF SourceVersions
<1> HIDE DEF v
<1>5. w \in SourceVersions /\ Succeeds(v, w) /\ w.generation = v.generation + 1
  <2> DEFINE g == v.generation + 1
  <2>1. g \in Nat
    BY <1>4, NextGeneration
  <2> HIDE DEF g
  <2>2. [v EXCEPT !.generation = g] \in SourceVersions
    BY <1>4, <2>1, Zenon DEF SourceVersions
  <2>3. /\ [v EXCEPT !.generation = g].artifact = v.artifact
        /\ [v EXCEPT !.generation = g].owner = v.owner
        /\ [v EXCEPT !.generation = g].annotation = v.annotation
        /\ [v EXCEPT !.generation = g].ready = v.ready
        /\ [v EXCEPT !.generation = g].readyGeneration = v.readyGeneration
        /\ [v EXCEPT !.generation = g].observed = v.observed
        /\ [v EXCEPT !.generation = g].insecure = v.insecure
        /\ [v EXCEPT !.generation = g].generation = g
    BY <1>4, Zenon DEF SourceVersions
  <2> QED
    BY <2>2, <2>3 DEF g, Succeeds
<1> HIDE DEF w
<1>6. CASE v = store[o]
  BY <1>3, <1>4, <1>6, Zenon DEF Succeeds
<1>7. CASE v # store[o]
  BY <1>2, <1>3, <1>4, <1>5, <1>7, Zenon DEF Succeeds
<1> QED
  BY <1>6, <1>7, Zenon

\* A patch with the UID of an object that the Release controls is such an answer.
LEMMA PatchAnswer ==
  ASSUME SourcesAssumption, Cluster, NEW o \in Sources, Controlled(o),
         NEW package \in Packages, NEW fails
  PROVE  /\ Answer(o, Patch(o, package, FALSE, fails))
         /\ Patch(o, package, FALSE, fails).to # "fatal"
<1> DEFINE out == Patch(o, package, FALSE, fails)
<1> SUFFICES Answer(o, out) /\ out.to # "fatal"
  BY Zenon
<1> HIDE DEF out
<1>1. CASE ~SameUID(o) \/ fails = o
  <2>1. out = Result("error", NoWrites)
    BY <1>1, Zenon DEF out, Patch, Error
  <2> QED
    BY <2>1, QuietAnswer DEF Result
<1>2. CASE SameUID(o) /\ fails # o
  <2> DEFINE v == Populate(o, package, FALSE)
  <2>1. out = Result(Readiness(v), Only(o, v))
    BY <1>2 DEF out, Patch
  <2>2. /\ v \in SourceVersions /\ Succeeds(store[o], v)
        /\ store[o] \in SourceVersions /\ store[o].owner = rel
    BY <1>2, Populated, SameIsThere, Zenon DEF Controlled
  <2> HIDE DEF v
  <2>3. Updates(o, v) /\ store[o] # None
    BY <2>2 DEF Updates, SourcesAssumption
  <2>4. Readiness(v) = "wait" \/ (Readiness(v) = v.artifact /\ v.artifact \in Revisions)
    BY <2>2, Zenon DEF Readiness, SourceVersions, Succeeds
  <2>5. Readiness(v) # "fatal"
    BY <2>4 DEF SourcesAssumption
  <2> QED
    BY <2>1, <2>2, <2>3, <2>4, <2>5 DEF Answer, Result, Succeeds
<1> QED
  BY <1>1, <1>2

\* So is a creation, which fails if the object is there.
LEMMA CreateAnswer ==
  ASSUME NEW o, NEW v \in SourceVersions, Fresh(v), NEW fails
  PROVE  Answer(o, Create(o, v, fails))
<1>1. CASE store[o] # None \/ fails = o
  BY <1>1, QuietAnswer DEF Create, Error
<1>2. CASE store[o] = None /\ fails # o
  BY <1>2 DEF Create, Waits, Result, Answer, Updates
<1> QED
  BY <1>1, <1>2

\* A new source has no artifact.
LEMMA NewSourceTyped ==
  ASSUME NEW package \in Packages, NEW annotation \in Revisions \cup {None}
  PROVE  /\ \A owner \in {rel, "user"} :
              /\ NewSource(owner, package, FALSE, annotation) \in SourceVersions
              /\ Fresh(NewSource(owner, package, FALSE, annotation))
         /\ NewSource(rel, package, TRUE, annotation) \in SourceVersions
         /\ NewSource(rel, package, TRUE, annotation).artifact = None
BY DEF NewSource, SourceVersions, Fresh

\* So is the refusal of insecure transport.
LEMMA RefuseAnswer ==
  ASSUME SourcesAssumption, Cluster, cache[oci] # None => Controlled(oci), NEW fails
  PROVE  Answer(oci, Refuse(fails))
<1>1. CASE cache[oci] = None \/ ~cache[oci].insecure
  BY <1>1, QuietAnswer DEF Refuse, Fatal
<1>2. CASE cache[oci] # None /\ cache[oci].insecure /\ (~Current(oci) \/ fails = oci)
  BY <1>2, QuietAnswer DEF Refuse, Error
<1>3. CASE cache[oci] # None /\ cache[oci].insecure /\ Current(oci) /\ fails # oci
  <2> DEFINE v == store[oci]
             g == v.generation + 1
             w == [v EXCEPT !.insecure = FALSE, !.generation = g]
  <2>1. oci \in Sources
    BY DEF Sources
  <2>2. v # None /\ v \in SourceVersions /\ v.owner = rel
    BY <1>3, <2>1, Typed DEF Cluster, Current, Controlled
  <2>3. g \in Nat
    BY <2>2, NextGeneration
  <2>4. Refuse(fails) = Result("fatal", Only(oci, w))
    BY <1>3 DEF Refuse
  <2> HIDE DEF g
  <2>5. /\ w \in SourceVersions /\ w.owner = v.owner /\ w.artifact = v.artifact
        /\ w.annotation = v.annotation /\ w.ready = v.ready
        /\ w.readyGeneration = v.readyGeneration /\ w.observed = v.observed
        /\ w.generation = g /\ ~w.insecure
    BY <2>2, <2>3, Zenon DEF SourceVersions
  <2>6. Succeeds(v, w)
    BY <2>5 DEF Succeeds, g
  <2> HIDE DEF w
  <2> QED
    BY <2>2, <2>4, <2>5, <2>6 DEF Answer, Updates, Result
<1> QED
  BY <1>1, <1>2, <1>3

\* handleOciRepository gives such an answer, whatever the lag of the cache.
LEMMA OciAnswer ==
  ASSUME SourcesAssumption, Cluster, NEW package \in Packages, NEW fails
  PROVE  Answer(oci, handleOciRepository(package, fails))
<1>1. CASE cache[oci] # None /\ ~Controlled(oci)
  BY <1>1, QuietAnswer DEF handleOciRepository, Error
<1>2. CASE (cache[oci] # None => Controlled(oci)) /\ package \in Insecure
  BY <1>2, RefuseAnswer DEF handleOciRepository
<1>3. CASE cache[oci] = None /\ package \notin Insecure
  BY <1>3, CreateAnswer, NewSourceTyped, Zenon DEF handleOciRepository
<1>4. CASE cache[oci] # None /\ Controlled(oci) /\ package \notin Insecure
  BY <1>4, PatchAnswer, Zenon DEF handleOciRepository, Sources
<1> QED
  BY <1>1, <1>2, <1>3, <1>4

\* So does handleHelmRepository, which knows no fatal error.
LEMMA HelmAnswer ==
  ASSUME SourcesAssumption, Cluster, NEW package \in Packages, NEW revision \in Revisions, NEW fails
  PROVE  /\ Answer(hr, handleHelmRepository(package, revision, fails))
         /\ handleHelmRepository(package, revision, fails).to # "fatal"
<1> DEFINE out == handleHelmRepository(package, revision, fails)
           v == cache[hr]
           w == [store[hr] EXCEPT !.deleting = TRUE]
<1>1. hr \in Sources
  BY DEF Sources
<1>2. CASE v = None
  BY <1>2, CreateAnswer, NewSourceTyped, Zenon DEF handleHelmRepository, Create, Error, Waits,
                                                   Result
<1>3. CASE out \in {Error, Waits(NoWrites)}
  BY <1>3, QuietAnswer DEF Error, Waits, Result
<1>4. CASE v # None /\ Controlled(hr) /\ SameUID(hr) /\ out = Waits(Only(hr, w))
  <2>1. store[hr] \in SourceVersions /\ store[hr].owner = rel
    BY <1>1, <1>4, SameIsThere DEF Controlled
  <2>2. w \in SourceVersions /\ Succeeds(store[hr], w)
    BY <2>1, Zenon DEF SourceVersions, Succeeds
  <2> HIDE DEF w
  <2> QED
    BY <1>4, <2>1, <2>2 DEF Answer, Updates, Waits, Result, SourcesAssumption
<1>5. CASE v # None /\ Controlled(hr) /\ out = Patch(hr, package, FALSE, fails)
  BY <1>1, <1>5, PatchAnswer, Zenon
<1> QED
  BY <1>2, <1>3, <1>4, <1>5, Zenon DEF handleHelmRepository

\* The writes of a pass leave the artifact of the source, and the sources of others.
LEMMA AnswerWrite ==
  ASSUME SourcesAssumption, Cluster, NEW o \in Sources, NEW out, Answer(o, out), Write(out.write)
  PROVE  /\ Cluster' /\ cache' = cache /\ ArtifactOf(store'[o]) = ArtifactOf(store[o])
         /\ \A x \in Objects \ {o} : store'[x] = store[x] /\ feed'[x] = feed[x]
         /\ store'[o] = store[o] \/ (store'[o] \in SourceVersions /\ Updates(o, store'[o]))
<1>1. CASE out.write = NoWrites
  <2>1. UNCHANGED <<store, feed, cache>>
    BY <1>1, NoWriteFollows DEF Cluster
  <2>2. Cluster'
    BY <2>1, Zenon DEF Cluster, Follows, FollowsAt, OwnerOf
  <2> QED
    BY <2>1, <2>2 DEF ArtifactOf
<1>2. ASSUME NEW v \in SourceVersions, out.write = Only(o, v), Updates(o, v)
      PROVE  /\ Cluster' /\ cache' = cache /\ ArtifactOf(store'[o]) = ArtifactOf(store[o])
             /\ \A x \in Objects \ {o} : store'[x] = store[x] /\ feed'[x] = feed[x]
             /\ store'[o] \in SourceVersions /\ Updates(o, store'[o])
  <2>1. /\ Cluster' /\ cache' = cache /\ store'[o] = v
        /\ \A x \in Objects \ {o} : store'[x] = store[x] /\ feed'[x] = feed[x]
    BY <1>2, WriteCluster DEF Updates, Succeeds
  <2> QED
    BY <1>2, <2>1 DEF Updates, Succeeds, Fresh, ArtifactOf, SourcesAssumption
<1> QED
  BY <1>1, <1>2 DEF Answer

----------------------------------------------------------------------------
(* The steps                                                               *)

\* What a pass leaves of the sources.
PassUpdates ==
  \A o \in Sources :
    store'[o] = store[o] \/ (store'[o] \in SourceVersions /\ Updates(o, store'[o]))

Implements == [Promise!Next]_<<Published, Taken, UsedFiles>>

\* A folder without a package has no revision.txt.
LEMMA Blank == \A f \in {Gone, Made, Empty} : f \in Folders /\ f.mark = None
<1>1. Gone \in Folders /\ Gone.mark = None
  BY DEF Gone, Folders
<1>2. Made \in Folders /\ Made.mark = None
  BY <1>1, Zenon DEF Made, Folders
<1>3. Empty \in Folders /\ Empty.mark = None
  BY <1>2, Zenon DEF Empty, Folders
<1> QED
  BY <1>1, <1>2, <1>3

\* A pass up to the folder takes the artifact of the OCIRepository, or nothing.
LEMMA ReconcileStep ==
  ASSUME SourcesAssumption, IInv, Reconcile
  PROVE  /\ IInv' /\ Implements
         /\ PassUpdates /\ store'[hr] = store[hr]
<1>1. PICK fails \in {None, oci, "fetch"} :
        LET out == handleOciRepository(cache[rel], fails)
        IN \/ StopAtOci(out)
           \/ /\ out.to \in Revisions /\ Write(out.write)
              /\ StopAtFolder(out.to, fails) \/ PassFolder(out.to, fails)
  BY DEF Reconcile
<1> DEFINE out == handleOciRepository(cache[rel], fails)
<1>2. cache[rel] \in Packages
  BY DEF IInv, Cluster, Follows, FollowsAt, Objects, VersionsOf
<1>3. Answer(oci, out)
  BY <1>2, OciAnswer DEF IInv
<1> HIDE DEF out
<1>4. Write(out.write)
  BY <1>1 DEF StopAtOci, out
<1>5. /\ Cluster' /\ cache' = cache /\ ArtifactOf(store'[oci]) = ArtifactOf(store[oci])
      /\ \A x \in Objects \ {oci} : store'[x] = store[x]
      /\ store'[oci] = store[oci] \/ (store'[oci] \in SourceVersions /\ Updates(oci, store'[oci]))
  BY <1>3, <1>4, AnswerWrite DEF IInv, Sources
<1>6. PassUpdates /\ store'[hr] = store[hr]
  BY <1>5 DEF PassUpdates, Sources, Objects, SourcesAssumption
<1>7. /\ Published' = Published /\ UsedFiles' = UsedFiles /\ Taken = None
      /\ registry' = registry /\ flux' = flux /\ held = None
  BY <1>5 DEF Published, ArtifactOf, UsedFiles, Taken, Reconcile
<1>8. CASE StopAtOci(out)
  <2>1. folder' = folder /\ held' = held
    BY <1>8 DEF StopAtOci
  <2> QED
    BY <1>5, <1>6, <1>7, <2>1 DEF IInv, Kept, Whole, Implements, Taken
<1>9. CASE StopAtFolder(out.to, fails)
  <2>1. folder' \in {folder, Empty} /\ held' = held
    BY <1>9 DEF StopAtFolder
  <2>2. Empty \in Folders /\ Empty.mark = None
    BY Blank
  <2> QED
    BY <1>5, <1>6, <1>7, <2>1, <2>2 DEF IInv, Kept, Whole, Implements, Taken
<1>10. CASE out.to \in Revisions /\ PassFolder(out.to, fails)
  <2> DEFINE r == out.to
             pass == [package |-> cache[rel], revision |-> r]
  <2>1. held' = pass /\ folder' = IF folder.mark = r THEN folder ELSE Fetched(folder, r)
    BY <1>10 DEF PassFolder
  <2>2. store[oci] # None /\ r = store[oci].artifact /\ r \in Revisions
    BY <1>3, <1>10 DEF Answer, SourcesAssumption
  <2>3. r # None /\ Published = r
    BY <2>2 DEF Published, SourcesAssumption
  <2> HIDE DEF r
  <2>4. pass \in Passes /\ pass.revision = r
    BY <1>2, <2>2 DEF Passes
  <2> HIDE DEF pass
  <2>5. pass # None
    BY <2>4 DEF SourcesAssumption
  <2>6. /\ Fetched(folder, r) \in Folders /\ Fetched(folder, r).mark = r
        /\ Fetched(folder, r).files = Files(r)
    BY <2>2, Zenon DEF Fetched, Empty, Made, Gone, Folders, Files
  <2>7. Kept' /\ (NoRemoval => Whole)'
    BY <1>7, <2>1, <2>4, <2>6 DEF IInv, Kept, Whole, NoRemoval, Files
  <2>8. Taken' = r
    BY <2>1, <2>4, <2>5 DEF Taken
  <2>9. Promise!Take
    BY <1>7, <2>3, <2>8 DEF Promise!Take
  <2> QED
    BY <1>5, <1>6, <2>7, <2>9 DEF IInv, Implements, Promise!Next
<1> QED
  BY <1>1, <1>8, <1>9, <1>10 DEF out

\* A pass with its HelmRepository ready goes on with all the files of the revision that it took.
LEMMA ReconcileChartsStep ==
  ASSUME SourcesAssumption, IInv, ReconcileCharts
  PROVE  /\ IInv' /\ (NoRemoval => Implements)
         /\ PassUpdates
<1>1. PICK fails \in {None, hr} :
        LET out == handleHelmRepository(held.package, held.revision, fails)
        IN /\ Write(out.write)
           /\ used' = IF out.to \in {"error", "wait"} THEN used
                      ELSE [package |-> held.package, revision |-> held.revision,
                            files |-> folder.files, index |-> out.to]
  BY DEF ReconcileCharts
<1> DEFINE out == handleHelmRepository(held.package, held.revision, fails)
<1>2. held # None /\ held \in Passes /\ held' = None
  BY DEF ReconcileCharts, IInv, Kept
<1>3. held.package \in Packages /\ held.revision \in Revisions
  BY <1>2 DEF Passes
<1>4. Answer(hr, out) /\ out.to # "fatal"
  BY <1>3, HelmAnswer DEF IInv
<1>5. /\ Write(out.write)
      /\ used' = IF out.to \in {"error", "wait"} THEN used
                 ELSE [package |-> held.package, revision |-> held.revision,
                       files |-> folder.files, index |-> out.to]
  BY <1>1
<1> HIDE DEF out
<1>6. /\ Cluster' /\ cache' = cache
      /\ \A x \in Objects \ {hr} : store'[x] = store[x]
      /\ store'[hr] = store[hr] \/ (store'[hr] \in SourceVersions /\ Updates(hr, store'[hr]))
  BY <1>4, <1>5, AnswerWrite DEF IInv, Sources
<1>7. PassUpdates
  BY <1>6 DEF PassUpdates, Sources, Objects
<1>8. registry' = registry /\ flux' = flux /\ folder' = folder
  BY DEF ReconcileCharts
<1>9. IInv'
  BY <1>2, <1>6, <1>8 DEF IInv, Kept, Whole, NoRemoval
<1>10. Published' = Published /\ Taken' = None /\ Taken = held.revision /\ Taken # None
  <2>1. store'[oci] = store[oci]
    BY <1>6 DEF Objects, SourcesAssumption
  <2> QED
    BY <1>2, <1>3, <2>1 DEF Published, Taken, SourcesAssumption
<1>11. ASSUME NoRemoval PROVE Implements
  <2>1. CASE out.to \in {"error", "wait"}
    <3>1. UsedFiles' = UsedFiles
      BY <1>5, <2>1 DEF UsedFiles
    <3> QED
      BY <1>10, <3>1 DEF Implements, Promise!Next, Promise!Drop
  <2>2. CASE out.to \notin {"error", "wait"}
    <3> DEFINE use == [package |-> held.package, revision |-> held.revision,
                       files |-> folder.files, index |-> out.to]
    <3>1. used' = use /\ out.to \in Revisions
      BY <1>4, <1>5, <2>2 DEF Answer
    <3>2. folder.mark = held.revision /\ folder.mark # None /\ folder \in Folders
      BY <1>2, <1>3 DEF IInv, Kept, SourcesAssumption
    <3>3. folder.files = {Taken} \X Parts
      BY <1>10, <1>11, <3>2 DEF IInv, Whole, Files
    <3>4. use \in Uses /\ use.revision = Taken /\ use.files = folder.files
      BY <1>3, <1>10, <3>1, <3>2 DEF Uses, Folders
    <3> HIDE DEF use
    <3>5. use # None
      BY <3>4 DEF SourcesAssumption
    <3>6. UsedFiles' = [revision |-> Taken, files |-> {Taken} \X Parts]
      BY <3>1, <3>3, <3>4, <3>5 DEF UsedFiles
    <3>7. Promise!Use
      BY <1>10, <3>6 DEF Promise!Use
    <3> QED
      BY <3>7 DEF Implements, Promise!Next
  <2> QED
    BY <2>1, <2>2
<1> QED
  BY <1>7, <1>9, <1>11

\* A process that dies drops its pass, and leaves a folder without revision.txt or as it was.
LEMMA CrashStep ==
  ASSUME SourcesAssumption, IInv, Crash
  PROVE  IInv' /\ Implements
<1>1. Cluster' /\ store' = store
  BY RelistCluster DEF Crash, IInv
<1>2. held' = None /\ registry' = registry /\ flux' = flux /\ used' = used
  BY DEF Crash
<1>3. folder' \in Folders /\ (NoRemoval => folder' = folder \/ folder'.mark = None)
  <2>1. CASE folder' \in {folder, Gone}
    BY <2>1, Blank DEF IInv, Kept
  <2>2. ASSUME NEW revision \in Revisions, folder' \in Interrupted(revision)
        PROVE  folder' \in Folders /\ (NoRemoval => folder'.mark = None)
    <3>1. PICK i \in Interrupts : folder' \in CASE i = "removal"  -> InterruptedRemoval(folder)
                                              [] i = "creation" -> InterruptedCreation(folder)
                                              [] i = "fetch"    -> InterruptedFetch(revision)
      BY <2>2, Zenon DEF Interrupted
    <3>2. i \in {"removal", "creation", "fetch"}
      BY Zenon DEF SourcesAssumption
    <3>3. CASE i = "removal"
      BY <3>1, <3>3 DEF InterruptedRemoval, NoRemoval
    <3>4. CASE i = "creation"
      BY <3>1, <3>4, Blank DEF InterruptedCreation
    <3>5. CASE i = "fetch"
      <4>1. PICK files \in SUBSET Files(revision) : folder' = [Empty EXCEPT !.files = files]
        BY <3>1, <3>5 DEF InterruptedFetch
      <4>2. files \in SUBSET (Revisions \X Parts)
        BY DEF Files
      <4> QED
        BY <4>1, <4>2, Blank DEF Folders
    <3> QED
      BY <3>2, <3>3, <3>4, <3>5
  <2> QED
    BY <2>1, <2>2 DEF Crash
<1>4. IInv'
  BY <1>1, <1>2, <1>3 DEF IInv, Kept, Whole, NoRemoval
<1>5. Published' = Published /\ Taken' = None /\ UsedFiles' = UsedFiles
  BY <1>1, <1>2 DEF Published, Taken, UsedFiles
<1> QED
  BY <1>4, <1>5 DEF Implements, Promise!Next, Promise!Drop

\* A step that changes neither the artifact nor the pass is none of the promise.
LEMMA Stutter ==
  ASSUME store'[oci] = store[oci], held' = held, used' = used
  PROVE  Implements
BY DEF Implements, Published, Taken, UsedFiles

\* Flux reads the revision of a package, or the index of the folder.
LEMMA FluxFetchStep ==
  ASSUME SourcesAssumption, IInv, NEW o \in Sources, FluxFetch(o)
  PROVE  IInv' /\ Implements
<1> DEFINE got == IF o = oci THEN Latest(store[o].package) ELSE IndexOf(folder)
           read == [generation |-> store[o].generation, got |-> got]
<1>1. /\ UNCHANGED <<store, feed, cache, registry, folder, held, used>>
      /\ flux' = [flux EXCEPT ![o] = read]
  BY DEF FluxFetch, kube
<1>2. store[o] \in SourceVersions
  BY Typed DEF FluxFetch, IInv, Cluster
<1>3. store[o].generation \in Nat /\ store[o].package \in Packages
  BY <1>2, Zenon DEF SourceVersions
<1>4. got \in Revisions \cup {None}
  <2>1. CASE o = oci
    <3> DEFINE s == registry[store[o].package]
    <3>1. s \in Seq(Revisions) /\ s # <<>> /\ got = s[Len(s)]
      BY <1>3, <2>1 DEF IInv, Kept, Latest
    <3> HIDE DEF s
    <3> QED
      BY <3>1
  <2>2. CASE o # oci
    BY <2>2 DEF IndexOf
  <2> QED
    BY <2>1, <2>2
<1> HIDE DEF got
<1>5. read \in Reads
  BY <1>3, <1>4 DEF Reads
<1> HIDE DEF read
<1>6. Kept' /\ Whole' = Whole
  BY <1>1, <1>5 DEF IInv, Kept, Whole
<1>7. Cluster'
  BY <1>1, Zenon DEF IInv, Cluster, Follows, FollowsAt, OwnerOf
<1> QED
  BY <1>1, <1>6, <1>7, Stutter DEF IInv, NoRemoval

\* Flux publishes what it has read.
LEMMA FluxReportStep ==
  ASSUME SourcesAssumption, IInv, NEW o \in Sources, FluxReport(o)
  PROVE  IInv' /\ Implements
<1>1. PICK g \in {flux[o].generation, store[o].generation} :
        Write(Only(o, [store[o] EXCEPT
          !.ready = IF flux[o].got = None THEN "False" ELSE "True",
          !.artifact = IF flux[o].got = None THEN @ ELSE flux[o].got,
          !.readyGeneration = g,
          !.observed = flux[o].generation]))
  BY Zenon DEF FluxReport
<1> DEFINE ready == IF flux[o].got = None THEN "False" ELSE "True"
           artifact == IF flux[o].got = None THEN store[o].artifact ELSE flux[o].got
           observed == flux[o].generation
           v == [store[o] EXCEPT !.ready = ready, !.artifact = artifact,
                                 !.readyGeneration = g, !.observed = observed]
<1>2. /\ UNCHANGED <<registry, folder, held, used>> /\ flux' = [flux EXCEPT ![o] = None]
      /\ store[o] # None /\ flux[o] # None
  BY DEF FluxReport
<1>3. store[o] \in SourceVersions /\ flux[o] \in Reads
  BY <1>2, Typed DEF IInv, Cluster, Kept
<1>4. /\ ready \in {"True", "False"} /\ artifact \in Revisions \cup {None}
      /\ observed \in Nat /\ g \in Nat
  BY <1>3, Zenon DEF SourceVersions, Reads
<1>5. Write(Only(o, v))
  BY <1>1
<1> HIDE DEF ready, artifact, observed
<1>6. v \in SourceVersions /\ v.owner = store[o].owner /\ v.artifact \in Revisions \cup {None}
  BY <1>3, <1>4, Zenon DEF SourceVersions
<1> HIDE DEF v
<1>7. Cluster' /\ store'[o] = v /\ \A x \in Objects \ {o} : store'[x] = store[x]
  BY <1>5, <1>6, WriteCluster DEF IInv
<1>8. Kept' /\ Whole' = Whole
  BY <1>2 DEF IInv, Kept, Whole
<1>9. Implements
  <2>1. CASE o = oci
    <3>1. Published' \in Revisions \cup {None}
      BY <1>6, <1>7, <2>1 DEF Published
    <3>2. Taken' = Taken /\ UsedFiles' = UsedFiles
      BY <1>2 DEF Taken, UsedFiles
    <3> QED
      BY <3>1, <3>2 DEF Implements, Promise!Next, Promise!Publish
  <2>2. CASE o # oci
    <3>1. store'[oci] = store[oci]
      BY <1>7, <2>2 DEF Objects
    <3> QED
      BY <1>2, <3>1, Stutter
  <2> QED
    BY <2>1, <2>2
<1> QED
  BY <1>7, <1>8, <1>9 DEF IInv, NoRemoval

\* A source without its artifact, after its deletion or its replacement by a user.
LEMMA WithdrawnStep ==
  ASSUME SourcesAssumption, IInv, Cluster', NEW o \in Sources,
         ArtifactOf(store'[o]) = None, \A x \in Objects \ {o} : store'[x] = store[x],
         flux' = [flux EXCEPT ![o] = None], UNCHANGED <<registry, folder, held, used>>
  PROVE  IInv' /\ Implements
<1>1. Kept' /\ Whole' = Whole
  BY DEF IInv, Kept, Whole
<1>2. CASE o = oci
  <2>1. Published' = None /\ Taken' = Taken /\ UsedFiles' = UsedFiles
    BY <1>2 DEF Published, ArtifactOf, Taken, UsedFiles
  <2> QED
    BY <1>1, <2>1 DEF IInv, NoRemoval, Implements, Promise!Next, Promise!Publish
<1>3. CASE o # oci
  <2>1. store'[oci] = store[oci]
    BY <1>3 DEF Objects
  <2> QED
    BY <1>1, <2>1, Stutter DEF IInv, NoRemoval
<1> QED
  BY <1>2, <1>3

\* Flux ends a deletion.
LEMMA FluxFinalizeStep ==
  ASSUME SourcesAssumption, IInv, NEW o \in Sources, FluxFinalize(o)
  PROVE  IInv' /\ Implements
<1>1. Write(Only(o, None)) /\ UNCHANGED <<registry, folder, held, used>>
      /\ flux' = [flux EXCEPT ![o] = None]
  BY DEF FluxFinalize
<1>2. Cluster' /\ store'[o] = None /\ \A x \in Objects \ {o} : store'[x] = store[x]
  BY <1>1, WriteCluster DEF IInv
<1> QED
  BY <1>1, <1>2, WithdrawnStep, Zenon DEF ArtifactOf

\* A user replaces a source.
LEMMA PutForeignStep ==
  ASSUME SourcesAssumption, IInv, NEW o \in Sources, PutForeign(o)
  PROVE  IInv' /\ Implements
<1> DEFINE v == NewSource("user", CHOOSE p \in Packages : TRUE, FALSE, None)
<1>1. /\ UNCHANGED <<cache, registry, folder, held, used>> /\ flux' = [flux EXCEPT ![o] = None]
      /\ store' = [store EXCEPT ![o] = v]
      /\ feed' = [feed EXCEPT ![o] = Append(Append(@, None), store'[o])]
  BY DEF PutForeign
<1>2. DOMAIN store = Objects /\ o \in Objects
  BY Typed, Zenon DEF IInv, Cluster, Follows
<1>3. store'[o] = v /\ \A x \in Objects \ {o} : store'[x] = store[x]
  BY <1>1, <1>2
<1>4. v \in SourceVersions /\ v.artifact = None
  <2>1. store[rel] \in Packages
    BY DEF IInv, Cluster, Follows, FollowsAt, Objects, VersionsOf
  <2>2. (CHOOSE p \in Packages : TRUE) \in Packages
    BY <2>1
  <2> QED
    BY <2>2, NewSourceTyped, Zenon DEF Fresh
<1> HIDE DEF v
<1>5. Cluster'
  BY <1>1, <1>3, <1>4, ReplaceCluster, Zenon DEF IInv
<1> QED
  BY <1>1, <1>3, <1>4, <1>5, WithdrawnStep, Zenon DEF ArtifactOf

\* At first there is no artifact, no pass and no folder.
LEMMA InitStep ==
  ASSUME SourcesAssumption, Init
  PROVE  IInv /\ Promise!Init
<1>1. PICK p \in Packages, old \in {None} \cup {NewSource(rel, q, TRUE, None) : q \in Packages} :
        KubeInit([o \in Objects |-> IF o = rel THEN p ELSE IF o = oci THEN old ELSE None])
  BY Zenon DEF Init, Objects
<1> DEFINE objects == [o \in Objects |-> IF o = rel THEN p ELSE IF o = oci THEN old ELSE None]
<1>2. old \in {None} \cup SourceVersions /\ ArtifactOf(old) = None
  BY NewSourceTyped, Zenon DEF ArtifactOf
<1>3. \A o \in Objects : objects[o] \in VersionsOf[o]
  BY <1>2 DEF VersionsOf, Objects
<1>4. objects[oci] = old
  BY DEF Objects, SourcesAssumption
<1>5. DOMAIN objects = Objects /\ objects = [o \in Objects |-> objects[o]] /\ KubeInit(objects)
  BY <1>1
<1> HIDE DEF objects
<1>6. Follows(Objects, VersionsOf)
  BY <1>3, <1>5, InitFollows
<1>7. store = objects /\ cache = objects /\ \A o \in Objects : feed[o] = <<>>
  BY <1>5 DEF KubeInit
<1>8. ASSUME NEW o \in Sources PROVE OwnerOf(o)
  <2>1. feed[o] = <<>> /\ cache[o] = store[o]
    BY <1>7 DEF Sources, Objects
  <2> QED
    BY <2>1 DEF OwnerOf, OwnerKept
<1>9. /\ held = None /\ used = None /\ folder = Gone /\ flux = [o \in Sources |-> None]
      /\ registry \in [Packages -> {<<r>> : r \in Revisions}]
  BY DEF Init
<1>10. Kept /\ Whole
  <2>1. registry \in [Packages -> Seq(Revisions) \ {<<>>}]
    <3>1. \A r \in Revisions : <<r>> \in Seq(Revisions) /\ <<r>> # <<>>
      OBVIOUS
    <3>2. ASSUME NEW x \in Packages PROVE registry[x] \in Seq(Revisions) \ {<<>>}
      BY <1>9, <3>1, Zenon
    <3> QED
      BY <1>9, <3>2
  <2> QED
    BY <1>9, <2>1, Blank DEF Kept, Whole
<1>11. Published = None /\ Taken = None /\ UsedFiles = None
  BY <1>2, <1>4, <1>7, <1>9 DEF Published, ArtifactOf, Taken, UsedFiles
<1> QED
  BY <1>6, <1>8, <1>10, <1>11 DEF IInv, Cluster, Promise!Init

\* Every step keeps the invariant, and is a step of the promise or none, unless a container
\* can stop within the removal of the folder.
LEMMA NextStep ==
  ASSUME SourcesAssumption, IInv, [Next]_vars
  PROVE  IInv' /\ (NoRemoval => Implements)
<1>1. DOMAIN store = Objects
  BY DEF IInv, Cluster, Follows
<1>2. CASE Reconcile \/ ReconcileCharts \/ Crash
  BY <1>2, ReconcileStep, ReconcileChartsStep, CrashStep
<1>3. ASSUME NEW o \in DOMAIN store, Deliver(o) PROVE IInv' /\ Implements
  <2>1. Cluster' /\ store' = store
    BY <1>1, <1>3, ReceiveCluster DEF Deliver, IInv
  <2>2. UNCHANGED <<registry, flux, folder, held, used>>
    BY <1>3 DEF Deliver
  <2> QED
    BY <2>1, <2>2, Stutter DEF IInv, Kept, Whole, NoRemoval
<1>4. CASE \E o \in Sources : FluxFetch(o) \/ FluxReport(o) \/ FluxFinalize(o)
  BY <1>4, FluxFetchStep, FluxReportStep, FluxFinalizeStep
<1>5. CASE \E o \in Foreign : PutForeign(o)
  BY <1>5, PutForeignStep DEF SourcesAssumption
<1>6. ASSUME NEW p \in Packages, EditRelease(p) PROVE IInv' /\ Implements
  <2>1. Write(Only(rel, p)) /\ UNCHANGED <<registry, flux, folder, held, used>>
    BY <1>6 DEF EditRelease
  <2>2. rel \in Objects /\ p \in VersionsOf[rel]
    BY DEF Objects, VersionsOf
  <2>3. /\ Follows(Objects, VersionsOf)' /\ cache' = cache
        /\ \A o \in Objects \ {rel} : store'[o] = store[o] /\ feed'[o] = feed[o]
    BY <2>1, <2>2, OnlyFollows DEF IInv, Cluster
  <2>4. ASSUME NEW o \in Sources PROVE OwnerOf(o)'
    <3>1. o \in Objects \ {rel}
      BY DEF Sources, Objects, SourcesAssumption
    <3> QED
      BY <2>3, <3>1 DEF IInv, Cluster, OwnerOf
  <2>5. store'[oci] = store[oci]
    BY <2>3 DEF Objects, SourcesAssumption
  <2> QED
    BY <2>1, <2>3, <2>4, <2>5, Stutter DEF IInv, Cluster, Kept, Whole, NoRemoval
<1>7. ASSUME NEW p \in Packages, NEW r \in Revisions, Push(p, r) PROVE IInv' /\ Implements
  <2>1. /\ UNCHANGED <<store, feed, cache, flux, folder, held, used>>
        /\ registry' = [registry EXCEPT ![p] = Append(@, r)]
    BY <1>7 DEF Push, kube
  <2>2. registry' \in [Packages -> Seq(Revisions) \ {<<>>}]
    <3> DEFINE s == registry[p]
    <3>1. s \in Seq(Revisions)
      BY DEF IInv, Kept
    <3> HIDE DEF s
    <3>2. Append(s, r) \in Seq(Revisions) /\ Append(s, r) # <<>>
      BY <3>1, LastOfAppend
    <3> QED
      BY <2>1, <3>2 DEF IInv, Kept, s
  <2>3. Cluster'
    BY <2>1, Zenon DEF IInv, Cluster, Follows, FollowsAt, OwnerOf
  <2> QED
    BY <2>1, <2>2, <2>3, Stutter DEF IInv, Kept, Whole, NoRemoval
<1>8. CASE UNCHANGED vars
  <2>1. UNCHANGED <<store, feed, cache, registry, flux, folder, held, used>>
    BY <1>8 DEF vars, kube
  <2>2. Cluster'
    BY <2>1, Zenon DEF IInv, Cluster, Follows, FollowsAt, OwnerOf
  <2> QED
    BY <2>1, <2>2, Stutter DEF IInv, Kept, Whole, NoRemoval
<1> QED
  BY <1>2, <1>3, <1>4, <1>5, <1>6, <1>7, <1>8 DEF Next

\* The first stages of a pass (release_ocirepository.go, release_controller.go and
\* release_helmrepository.go) implement PackageUse: a pass goes on with all the files of the
\* revision that the OCIRepository had and nothing else, for any lag of the caches, crashes,
\* failures and changes, unless a container can stop within the removal of the folder.
THEOREM KeepsPromise ==
  ASSUME SourcesAssumption, NoRemoval
  PROVE  Spec => UsesPublished
<1>1. Init => IInv /\ Promise!Init
  BY InitStep
<1>2. IInv /\ [Next]_vars => IInv' /\ [Promise!Next]_<<Published, Taken, UsedFiles>>
  BY NextStep DEF Implements
<1> QED
  BY <1>1, <1>2, PTL DEF Spec, UsesPublished, Promise!Spec

\* A pass never changes a source that the Release does not control (release_ocirepository.go and
\* release_helmrepository.go), though it decides on cached objects of any age and users replace
\* the sources under their names: each write carries the UID or the version that was read.
THEOREM ForeignIsLeft ==
  ASSUME SourcesAssumption
  PROVE  Spec => LeavesForeign
<1>1. Init => IInv
  BY InitStep
<1>2. IInv /\ [Next]_vars => IInv' /\ [LeavesForeignStep]_vars
  <2> SUFFICES ASSUME IInv, [Next]_vars PROVE IInv' /\ [LeavesForeignStep]_vars
    OBVIOUS
  <2>1. LeavesForeignStep
    BY ReconcileStep, ReconcileChartsStep DEF LeavesForeignStep, PassUpdates, Updates
  <2> QED
    BY <2>1, NextStep
<1> QED
  BY <1>1, <1>2, PTL DEF Spec, LeavesForeign

----------------------------------------------------------------------------
(* What a step does to one source                                          *)

\* What Flux reads of a source.
ReadBy(o, f) ==
  /\ f \in Reads /\ f.generation = store[o].generation
  /\ f.got = IF o = oci THEN Latest(store[o].package) ELSE IndexOf(folder)

\* The version w reports what Flux has read, f, of the source whose version is v.
Reports(v, f, w) ==
  /\ w.owner = v.owner /\ w.package = v.package /\ w.insecure = v.insecure
  /\ w.annotation = v.annotation /\ w.generation = v.generation /\ w.deleting = v.deleting
  /\ w.observed = f.generation /\ w.readyGeneration \in {f.generation, v.generation}
  /\ w.artifact = IF f.got = None THEN v.artifact ELSE f.got

SourceStep(o) ==
  \/ store'[o] = store[o] /\ flux'[o] = flux[o]
  \/ /\ Reconcile \/ ReconcileCharts
     /\ store'[o] \in SourceVersions /\ Updates(o, store'[o]) /\ flux'[o] = flux[o]
  \/ /\ store'[o] = store[o] /\ store[o] # None /\ ReadBy(o, flux'[o])
  \/ /\ store[o] # None /\ flux[o] # None /\ flux'[o] = None
     /\ store'[o] \in SourceVersions /\ Reports(store[o], flux[o], store'[o])
  \/ /\ flux'[o] = None
     /\ \/ store'[o] = None
        \/ store'[o] \in SourceVersions /\ Fresh(store'[o]) /\ store'[o].owner = "user"

\* Flux reads a source as it is.
LEMMA FluxFetchSource ==
  ASSUME SourcesAssumption, IInv, NEW o \in Sources, FluxFetch(o)
  PROVE  /\ store' = store /\ store[o] # None /\ ReadBy(o, flux'[o])
         /\ \A x \in Sources \ {o} : flux'[x] = flux[x]
<1> DEFINE got == IF o = oci THEN Latest(store[o].package) ELSE IndexOf(folder)
           read == [generation |-> store[o].generation, got |-> got]
<1>1. store' = store /\ store[o] # None /\ flux' = [flux EXCEPT ![o] = read]
  BY DEF FluxFetch, kube
<1>2. DOMAIN flux = Sources /\ flux' \in [Sources -> Reads \cup {None}]
  BY FluxFetchStep DEF IInv, Kept
<1>3. flux'[o] = read
  BY <1>1, <1>2
<1>4. read \in Reads
  <2>1. store[o] \in SourceVersions
    BY <1>1, Typed DEF IInv, Cluster
  <2>2. store[o].generation \in Nat /\ store[o].package \in Packages
    BY <2>1, Zenon DEF SourceVersions
  <2>3. got \in Revisions \cup {None}
    <3>1. CASE o = oci
      <4> DEFINE s == registry[store[o].package]
      <4>1. s \in Seq(Revisions) /\ s # <<>> /\ got = s[Len(s)]
        BY <2>2, <3>1 DEF IInv, Kept, Latest
      <4> HIDE DEF s
      <4> QED
        BY <4>1
    <3>2. CASE o # oci
      BY <3>2 DEF IndexOf
    <3> QED
      BY <3>1, <3>2
  <2> HIDE DEF got
  <2> QED
    BY <2>2, <2>3 DEF Reads
<1>5. read.generation = store[o].generation /\ read.got = got
  OBVIOUS
<1>6. \A x \in Sources \ {o} : flux'[x] = flux[x]
  BY <1>1, <1>2
<1> QED
  BY <1>1, <1>3, <1>4, <1>5, <1>6 DEF ReadBy

\* Flux reports what it has read in the status only.
LEMMA FluxReportSource ==
  ASSUME SourcesAssumption, IInv, NEW o \in Sources, FluxReport(o)
  PROVE  /\ store[o] # None /\ flux[o] # None /\ flux'[o] = None
         /\ store'[o] \in SourceVersions /\ Reports(store[o], flux[o], store'[o])
         /\ Write(Only(o, store'[o]))
         /\ \A x \in Sources \ {o} : store'[x] = store[x] /\ flux'[x] = flux[x]
<1>1. PICK g \in {flux[o].generation, store[o].generation} :
        Write(Only(o, [store[o] EXCEPT
          !.ready = IF flux[o].got = None THEN "False" ELSE "True",
          !.artifact = IF flux[o].got = None THEN @ ELSE flux[o].got,
          !.readyGeneration = g,
          !.observed = flux[o].generation]))
  BY Zenon DEF FluxReport
<1> DEFINE ready == IF flux[o].got = None THEN "False" ELSE "True"
           artifact == IF flux[o].got = None THEN store[o].artifact ELSE flux[o].got
           observed == flux[o].generation
           v == [store[o] EXCEPT !.ready = ready, !.artifact = artifact,
                                 !.readyGeneration = g, !.observed = observed]
<1>2. flux' = [flux EXCEPT ![o] = None] /\ store[o] # None /\ flux[o] # None
  BY DEF FluxReport
<1>3. store[o] \in SourceVersions /\ flux[o] \in Reads /\ DOMAIN flux = Sources
  BY <1>2, Typed DEF IInv, Cluster, Kept
<1>4. /\ ready \in {"True", "False"} /\ artifact \in Revisions \cup {None}
      /\ observed \in Nat /\ g \in Nat
  BY <1>3, Zenon DEF SourceVersions, Reads
<1>5. Write(Only(o, v))
  BY <1>1
<1> HIDE DEF ready, artifact, observed
<1>6. v \in SourceVersions /\ v.owner = store[o].owner
  BY <1>3, <1>4, Zenon DEF SourceVersions
<1>7. /\ v.package = store[o].package /\ v.insecure = store[o].insecure
      /\ v.annotation = store[o].annotation /\ v.generation = store[o].generation
      /\ v.deleting = store[o].deleting
      /\ v.observed = observed /\ v.readyGeneration = g /\ v.artifact = artifact
  BY <1>3, Zenon DEF SourceVersions
<1> HIDE DEF v
<1>8. store'[o] = v /\ \A x \in Objects \ {o} : store'[x] = store[x]
  BY <1>5, <1>6, WriteCluster DEF IInv
<1>9. flux'[o] = None /\ \A x \in Sources \ {o} : flux'[x] = flux[x]
  BY <1>2, <1>3
<1>10. Reports(store[o], flux[o], v)
  BY <1>6, <1>7 DEF Reports, observed, artifact
<1> QED
  BY <1>2, <1>5, <1>6, <1>8, <1>9, <1>10 DEF Sources, Objects

\* Flux ends a deletion, or a user replaces a source: what Flux had read of it is gone.
LEMMA WithdrawnSource ==
  ASSUME SourcesAssumption, IInv, NEW o \in Sources, FluxFinalize(o) \/ PutForeign(o)
  PROVE  /\ flux'[o] = None
         /\ \/ store'[o] = None
            \/ store'[o] \in SourceVersions /\ Fresh(store'[o]) /\ store'[o].owner = "user"
         /\ \A x \in Sources \ {o} : store'[x] = store[x] /\ flux'[x] = flux[x]
<1>1. flux' = [flux EXCEPT ![o] = None] /\ DOMAIN flux = Sources
  BY Zenon DEF FluxFinalize, PutForeign, IInv, Kept
<1>2. CASE FluxFinalize(o)
  <2>1. store'[o] = None /\ \A x \in Objects \ {o} : store'[x] = store[x]
    BY <1>2, WriteCluster DEF IInv, FluxFinalize
  <2> QED
    BY <1>1, <2>1 DEF Sources, Objects
<1>3. CASE PutForeign(o)
  <2> DEFINE v == NewSource("user", CHOOSE p \in Packages : TRUE, FALSE, None)
  <2>1. store' = [store EXCEPT ![o] = v] /\ DOMAIN store = Objects /\ o \in Objects
    BY <1>3, Typed, Zenon DEF PutForeign, IInv, Cluster, Follows
  <2>2. v \in SourceVersions /\ Fresh(v) /\ v.owner = "user"
    <3>1. store[rel] \in Packages
      BY DEF IInv, Cluster, Follows, FollowsAt, Objects, VersionsOf
    <3>2. (CHOOSE p \in Packages : TRUE) \in Packages
      BY <3>1
    <3> QED
      BY <3>2, NewSourceTyped, Zenon DEF NewSource
  <2> HIDE DEF v
  <2>3. store'[o] = v /\ \A x \in Objects \ {o} : store'[x] = store[x]
    BY <2>1
  <2> QED
    BY <1>1, <2>2, <2>3 DEF Sources, Objects
<1> QED
  BY <1>2, <1>3

\* Every step is one of these for each source.
LEMMA SourceSteps ==
  ASSUME SourcesAssumption, IInv, [Next]_vars, NEW o \in Sources
  PROVE  SourceStep(o)
<1>1. o \in Objects /\ o # rel /\ DOMAIN store = Objects
  BY Typed, Zenon DEF IInv, Cluster, Follows
<1>2. CASE Reconcile \/ ReconcileCharts
  <2>1. PassUpdates /\ flux' = flux
    BY <1>2, ReconcileStep, ReconcileChartsStep, Zenon DEF Reconcile, ReconcileCharts
  <2> QED
    BY <1>2, <2>1, Zenon DEF PassUpdates, SourceStep
<1>3. CASE Crash
  <2>1. store' = store /\ flux' = flux
    BY <1>3, RelistCluster, Zenon DEF Crash, IInv
  <2> QED
    BY <2>1, Zenon DEF SourceStep
<1>4. ASSUME NEW x \in DOMAIN store, Deliver(x) PROVE SourceStep(o)
  <2>1. store' = store /\ flux' = flux
    BY <1>1, <1>4, ReceiveCluster DEF Deliver, IInv
  <2> QED
    BY <2>1 DEF SourceStep
<1>5. ASSUME NEW x \in Sources, FluxFetch(x) PROVE SourceStep(o)
  BY <1>5, FluxFetchSource, Zenon DEF SourceStep
<1>6. ASSUME NEW x \in Sources, FluxReport(x) PROVE SourceStep(o)
  BY <1>6, FluxReportSource, Zenon DEF SourceStep
<1>7. ASSUME NEW x \in Sources, FluxFinalize(x) \/ PutForeign(x) PROVE SourceStep(o)
  BY <1>7, WithdrawnSource, Zenon DEF SourceStep
<1>8. ASSUME NEW p \in Packages, EditRelease(p) PROVE SourceStep(o)
  <2>1. Write(Only(rel, p)) /\ flux' = flux
    BY <1>8 DEF EditRelease
  <2>2. rel \in Objects /\ p \in VersionsOf[rel]
    BY DEF Objects, VersionsOf
  <2>3. store'[o] = store[o]
    BY <1>1, <2>1, <2>2, OnlyFollows DEF IInv, Cluster
  <2> QED
    BY <2>1, <2>3 DEF SourceStep
<1>9. ASSUME NEW p \in Packages, NEW r \in Revisions, Push(p, r) PROVE SourceStep(o)
  BY <1>9 DEF Push, kube, SourceStep
<1>10. CASE UNCHANGED vars
  BY <1>10 DEF vars, kube, SourceStep
<1> QED
  BY <1>2, <1>3, <1>4, <1>5, <1>6, <1>7, <1>8, <1>9, <1>10 DEF Next, SourcesAssumption

----------------------------------------------------------------------------
(* Types                                                                   *)

\* No report is about a spec to come, and there is none of a source that is missing.
AgedVersion(v, f) ==
  IF v = None THEN f = None
  ELSE /\ v.readyGeneration <= v.generation /\ v.observed <= v.generation
       /\ f # None => f.generation <= v.generation

Aged == \A o \in Sources : AgedVersion(store[o], flux[o])

\* A later version is about the specs up to its own.
LEMMA SucceedsAged ==
  ASSUME SourcesAssumption, NEW v \in SourceVersions, NEW w \in SourceVersions,
         NEW f \in Reads \cup {None},
         Succeeds(v, w), AgedVersion(v, f)
  PROVE  AgedVersion(w, f)
<1>1. v # None /\ w # None
  BY DEF SourcesAssumption
<1>2. v.generation \in Nat /\ w.generation \in Nat
  BY Zenon DEF SourceVersions
<1>3. w.readyGeneration \in Nat /\ w.observed \in Nat /\ (f # None => f.generation \in Nat)
  BY Zenon DEF SourceVersions, Reads
<1>4. v.generation <= w.generation
  BY <1>2 DEF Succeeds
<1>5. /\ w.readyGeneration <= v.generation /\ w.observed <= v.generation
      /\ f # None => f.generation <= v.generation
  BY <1>1 DEF AgedVersion, Succeeds
<1>6. /\ w.readyGeneration <= w.generation /\ w.observed <= w.generation
      /\ f # None => f.generation <= w.generation
  BY <1>2, <1>3, <1>4, <1>5
<1> QED
  BY <1>1, <1>6 DEF AgedVersion

\* The reports stay about the specs that are or were.
LEMMA AgedStep ==
  ASSUME SourcesAssumption, IInv, IInv', Aged, NEW o \in Sources, SourceStep(o)
  PROVE  AgedVersion(store[o], flux[o])'
<1> DEFINE v == store[o]  w == store'[o]  f == flux[o]  g == flux'[o]
<1>1. /\ v # None => v \in SourceVersions
      /\ f \in Reads \cup {None} /\ g \in Reads \cup {None}
      /\ AgedVersion(v, f)
  BY Typed, Zenon DEF IInv, Cluster, Kept, Aged
<1> SUFFICES AgedVersion(w, g)
  OBVIOUS
<1>2. CASE w = v /\ g = f
  BY <1>1, <1>2
<1>3. CASE w \in SourceVersions /\ Updates(o, w) /\ g = f
  <2>1. CASE v = None
    <3>1. w # None /\ Fresh(w) /\ g = None
      BY <1>1, <1>3, <2>1 DEF Updates, AgedVersion, SourcesAssumption
    <3> QED
      BY <3>1 DEF AgedVersion, Fresh
  <2>2. CASE v # None
    BY <1>1, <1>3, <2>2, SucceedsAged DEF Updates
  <2> QED
    BY <2>1, <2>2
<1>4. CASE w = v /\ v # None /\ ReadBy(o, g)
  <2>1. v.generation \in Nat /\ g.generation = v.generation
    BY <1>1, <1>4, Zenon DEF SourceVersions, ReadBy
  <2> QED
    BY <1>1, <1>4, <2>1 DEF AgedVersion
<1>5. CASE v # None /\ f # None /\ g = None /\ w \in SourceVersions /\ Reports(v, f, w)
  <2>1. w # None /\ v.generation \in Nat
    BY <1>1, <1>5, Zenon DEF SourceVersions, SourcesAssumption
  <2>2. f.generation <= v.generation
    BY <1>1, <1>5 DEF AgedVersion
  <2>3. w.generation = v.generation /\ w.observed = f.generation
        /\ w.readyGeneration \in {f.generation, v.generation}
    BY <1>5 DEF Reports
  <2>4. w.observed <= w.generation /\ w.readyGeneration <= w.generation
    BY <2>1, <2>2, <2>3
  <2> QED
    BY <1>5, <2>1, <2>4 DEF AgedVersion
<1>6. CASE g = None /\ (w = None \/ (w \in SourceVersions /\ Fresh(w)))
  BY <1>6 DEF AgedVersion, Fresh
<1> QED
  BY <1>2, <1>3, <1>4, <1>5, <1>6, Zenon DEF SourceStep

\* The folder has its flag as soon as it is there, and what a pass had is of the types.
Flagged == folder.there => folder.flag

FolderKept ==
  /\ NoRemoval => (folder.mark # None => folder.flag)
  /\ Interrupts \subseteq {"fetch"} => Flagged
  /\ used \in Uses \cup {None} /\ queued \in BOOLEAN

\* Whether a folder has revision.txt and its flag, or is there without it.
LEMMA FolderFlags ==
  /\ ~Gone.there /\ Gone.mark = None /\ Made.mark = None
  /\ Empty.flag /\ Empty.mark = None
  /\ \A f, r : Fetched(f, r).flag
  /\ \A files : [Empty EXCEPT !.files = files].flag
BY DEF Gone, Made, Empty, Fetched

\* A pass ends with a folder that has its flag, or leaves it as it was.
LEMMA ReconcileFolder ==
  ASSUME SourcesAssumption, FolderKept, Reconcile
  PROVE  FolderKept'
<1>1. used' = used
  BY DEF Reconcile
<1>2. PICK fails \in {None, oci, "fetch"} :
        LET out == handleOciRepository(cache[rel], fails)
        IN \/ StopAtOci(out)
           \/ StopAtFolder(out.to, fails) \/ PassFolder(out.to, fails)
  BY DEF Reconcile
<1> DEFINE out == handleOciRepository(cache[rel], fails)
<1> HIDE DEF out
<1>3. folder' \in {folder, Empty, Fetched(folder, out.to)} /\ queued' \in BOOLEAN
  <2>1. CASE StopAtOci(out)
    BY <2>1, Zenon DEF StopAtOci
  <2>2. CASE StopAtFolder(out.to, fails)
    BY <2>2, Zenon DEF StopAtFolder
  <2>3. CASE PassFolder(out.to, fails)
    BY <2>3, Zenon DEF PassFolder
  <2> QED
    BY <1>2, <2>1, <2>2, <2>3 DEF out
<1> QED
  BY <1>1, <1>3, FolderFlags DEF FolderKept, Flagged, NoRemoval

\* A crash leaves a folder without its flag only where a container can stop before it is made,
\* or within the removal of the folder.
LEMMA CrashFolder ==
  ASSUME SourcesAssumption, FolderKept, Crash
  PROVE  FolderKept'
<1>1. used' = used /\ queued' = TRUE
  BY DEF Crash
<1>2. CASE folder' \in {folder, Gone}
  BY <1>1, <1>2, FolderFlags DEF FolderKept, Flagged, NoRemoval
<1>3. ASSUME NEW revision, folder' \in Interrupted(revision)
      PROVE  FolderKept'
  <2>1. PICK i \in Interrupts : folder' \in CASE i = "removal"  -> InterruptedRemoval(folder)
                                            [] i = "creation" -> InterruptedCreation(folder)
                                            [] i = "fetch"    -> InterruptedFetch(revision)
    BY <1>3, Zenon DEF Interrupted
  <2>2. i \in {"removal", "creation", "fetch"}
    BY DEF SourcesAssumption
  <2>3. CASE i = "removal"
    BY <1>1, <2>3 DEF FolderKept, NoRemoval
  <2>4. CASE i = "creation"
    <3>1. folder' \in {Gone, Made}
      BY <2>1, <2>4 DEF InterruptedCreation
    <3> QED
      BY <1>1, <2>4, <3>1, FolderFlags DEF FolderKept, NoRemoval
  <2>5. CASE i = "fetch"
    <3>1. folder'.flag
      BY <2>1, <2>5, FolderFlags, Zenon DEF InterruptedFetch
    <3> QED
      BY <1>1, <3>1 DEF FolderKept, Flagged
  <2> QED
    BY <2>2, <2>3, <2>4, <2>5
<1> QED
  BY <1>2, <1>3 DEF Crash

\* A pass that goes on has the artifact of the HelmRepository.
LEMMA ChartsUsed ==
  ASSUME SourcesAssumption, IInv, ReconcileCharts
  PROVE  /\ queued' \in BOOLEAN /\ folder' = folder /\ held # None /\ held' = None
         /\ \/ used' = used
            \/ /\ store[hr] # None /\ store[hr].artifact \in Revisions
               /\ used' = [package |-> held.package, revision |-> held.revision,
                           files |-> folder.files, index |-> store[hr].artifact]
<1>1. PICK fails \in {None, hr} :
        LET out == handleHelmRepository(held.package, held.revision, fails)
        IN /\ queued' = (queued \/ out.to = "error")
           /\ used' = IF out.to \in {"error", "wait"} THEN used
                      ELSE [package |-> held.package, revision |-> held.revision,
                            files |-> folder.files, index |-> out.to]
  BY DEF ReconcileCharts
<1> DEFINE out == handleHelmRepository(held.package, held.revision, fails)
<1>2. held # None /\ held \in Passes /\ held' = None /\ folder' = folder
  BY DEF ReconcileCharts, IInv, Kept
<1>3. held.package \in Packages /\ held.revision \in Revisions
  BY <1>2 DEF Passes
<1>4. Answer(hr, out) /\ out.to # "fatal"
  BY <1>3, HelmAnswer DEF IInv
<1>5. queued' = (queued \/ out.to = "error")
  BY <1>1, Zenon
<1>6. used' = IF out.to \in {"error", "wait"} THEN used
              ELSE [package |-> held.package, revision |-> held.revision,
                    files |-> folder.files, index |-> out.to]
  BY <1>1
<1> HIDE DEF out
<1>7. queued' \in BOOLEAN
  BY <1>5, Zenon
<1>8. CASE out.to \in {"error", "wait"}
  BY <1>2, <1>6, <1>7, <1>8
<1>9. CASE out.to \notin {"error", "wait"}
  <2>1. store[hr] # None /\ out.to = store[hr].artifact /\ out.to \in Revisions
    BY <1>4, <1>9 DEF Answer
  <2> QED
    BY <1>2, <1>6, <1>7, <1>9, <2>1
<1> QED
  BY <1>8, <1>9

\* Every step keeps the flag of the folder and the types.
LEMMA FolderStep ==
  ASSUME SourcesAssumption, IInv, FolderKept, [Next]_vars
  PROVE  FolderKept'
<1>1. ASSUME UNCHANGED <<folder, used>>, queued' \in BOOLEAN PROVE FolderKept'
  BY <1>1 DEF FolderKept, Flagged, NoRemoval
<1>2. CASE Reconcile \/ Crash
  BY <1>2, ReconcileFolder, CrashFolder
<1>3. CASE ReconcileCharts
  <2>1. used' = used \/ used' \in Uses
    <3>1. held \in Passes /\ folder \in Folders
      BY <1>3, ChartsUsed DEF IInv, Kept
    <3>2. held.package \in Packages /\ held.revision \in Revisions
          /\ folder.files \in SUBSET (Revisions \X Parts)
      BY <3>1 DEF Passes, Folders
    <3>3. ASSUME NEW r \in Revisions
          PROVE  [package |-> held.package, revision |-> held.revision,
                  files |-> folder.files, index |-> r] \in Uses
      BY <3>2 DEF Uses
    <3> QED
      BY <1>3, <3>3, ChartsUsed
  <2> QED
    BY <1>3, <2>1, ChartsUsed DEF FolderKept, Flagged, NoRemoval
<1>4. ASSUME NEW o, Deliver(o) PROVE FolderKept'
  <2>1. UNCHANGED <<folder, used>> /\ queued' \in BOOLEAN
    BY <1>4, Zenon DEF Deliver
  <2> QED
    BY <1>1, <2>1
<1>5. ASSUME NEW o, FluxFetch(o) \/ FluxReport(o) \/ FluxFinalize(o) \/ PutForeign(o)
      PROVE  FolderKept'
  BY <1>1, <1>5, Zenon DEF FolderKept, FluxFetch, FluxReport, FluxFinalize, PutForeign
<1>6. ASSUME NEW p, EditRelease(p) \/ \E r \in Revisions : Push(p, r) PROVE FolderKept'
  BY <1>1, <1>6 DEF FolderKept, EditRelease, Push
<1>7. CASE UNCHANGED vars
  BY <1>1, <1>7 DEF FolderKept, vars
<1> QED
  BY <1>2, <1>3, <1>4, <1>5, <1>6, <1>7 DEF Next

\* All of it at first.
LEMMA TypesInit ==
  ASSUME SourcesAssumption, Init
  PROVE  Aged /\ FolderKept
<1>1. /\ folder = Gone /\ used = None /\ queued = TRUE /\ flux = [o \in Sources |-> None]
  BY DEF Init
<1>2. FolderKept
  BY <1>1, FolderFlags DEF FolderKept, Flagged
<1>3. PICK p \in Packages, old \in {None} \cup {NewSource(rel, q, TRUE, None) : q \in Packages} :
        KubeInit([o \in Objects |-> IF o = rel THEN p ELSE IF o = oci THEN old ELSE None])
  BY Zenon DEF Init, Objects
<1>4. ASSUME NEW o \in Sources PROVE AgedVersion(store[o], flux[o])
  <2>1. flux[o] = None /\ store[o] \in {None, old}
    BY <1>1, <1>3 DEF Sources, Objects, KubeInit, SourcesAssumption
  <2>2. ASSUME old # None PROVE old.readyGeneration <= old.generation /\ old.observed <= old.generation
    <3>1. PICK q \in Packages : old = NewSource(rel, q, TRUE, None)
      BY <2>2, Zenon
    <3>2. old.readyGeneration = 0 /\ old.observed = 0 /\ old.generation = 1
      BY <3>1, Zenon DEF NewSource
    <3> QED
      BY <3>2
  <2> QED
    BY <2>1, <2>2 DEF AgedVersion
<1> QED
  BY <1>2, <1>4 DEF Aged

\* The sources, the folder and the passes keep their types, no Ready condition is about a spec
\* to come and a folder with revision.txt has its flag, for any packages, revisions, files, lags
\* and failures, unless a container can stop within the removal of the folder.
THEOREM SourcesTyped ==
  ASSUME SourcesAssumption, NoRemoval
  PROVE  Spec => []TypeOK
<1>1. Init => IInv /\ Aged /\ FolderKept
  BY InitStep, TypesInit
<1>2. IInv /\ Aged /\ FolderKept /\ [Next]_vars => (IInv /\ Aged /\ FolderKept)'
  BY NextStep, SourceSteps, AgedStep, FolderStep DEF Aged
<1>3. IInv /\ Aged /\ FolderKept => TypeOK
  <2> SUFFICES ASSUME IInv, Aged, FolderKept PROVE TypeOK
    OBVIOUS
  <2>1. store[rel] \in Packages
    BY DEF IInv, Cluster, Follows, FollowsAt, Objects, VersionsOf
  <2>2. ASSUME NEW o \in Sources, store[o] # None
        PROVE  /\ store[o] \in SourceVersions
               /\ store[o].readyGeneration <= store[o].generation
               /\ store[o].observed <= store[o].generation
    BY <2>2, Typed DEF IInv, Cluster, Aged, AgedVersion
  <2> QED
    BY <2>1, <2>2 DEF TypeOK, IInv, Kept, FolderKept
<1> QED
  BY <1>1, <1>2, <1>3, PTL DEF Spec

\* A folder without revision.txt can always be emptied and loaded again (SafeEnsureEmpty of
\* safetmp.go), where a container can only be killed while a package is fetched.
THEOREM LoadsAgain ==
  ASSUME SourcesAssumption, Interrupts \subseteq {"fetch"}
  PROVE  Spec => []Loadable
<1>1. Init => IInv /\ FolderKept
  BY InitStep, TypesInit
<1>2. IInv /\ FolderKept /\ [Next]_vars => (IInv /\ FolderKept)'
  BY NextStep, FolderStep
<1>3. FolderKept => Loadable
  BY DEF FolderKept, Flagged, Loadable, Unremovable
<1> QED
  BY <1>1, <1>2, <1>3, PTL DEF Spec

----------------------------------------------------------------------------
(* Insecure transport                                                      *)

IsInsecure(v) == v # None /\ v.insecure

\* An OCIRepository that is insecure was so from its creation: every version that the worker
\* has yet to learn of is insecure too, and the Release keeps its request until it is not.
Watched ==
  IsInsecure(store[oci]) =>
    /\ queued /\ store[oci].owner = rel
    /\ IsInsecure(cache[oci]) /\ \A i \in DOMAIN feed[oci] : IsInsecure(feed[oci][i])

Clean ==
  /\ held # None => held.package \notin Insecure
  /\ used # None => used.package \notin Insecure

\* A pass that leaves the OCIRepository insecure failed, and is tried again.
LEMMA SecuredOrRetried ==
  ASSUME SourcesAssumption, Cluster, Watched, IsInsecure(store[oci]),
         NEW package \in Packages, NEW fails
  PROVE  LET out == handleOciRepository(package, fails)
         IN \/ out = Error
            \/ \E v : ~v.insecure /\ v \in SourceVersions /\ v.owner = store[oci].owner
                      /\ out.write = Only(oci, v)
<1> DEFINE out == handleOciRepository(package, fails)
           v == Populate(oci, package, FALSE)
           g == store[oci].generation + 1
           w == [store[oci] EXCEPT !.insecure = FALSE, !.generation = g]
<1>1. /\ cache[oci] # None /\ cache[oci].insecure /\ store[oci].owner = rel
      /\ SameUID(oci) /\ oci \in Sources
  BY DEF Watched, IsInsecure, SameUID, Sources
<1>2. /\ store[oci] \in SourceVersions /\ cache[oci] \in SourceVersions /\ Controlled(oci)
      /\ cache[oci].insecure = TRUE
  BY <1>1, SameIsThere, Zenon DEF Controlled, SourceVersions
<1>3. CASE package \in Insecure
  <2>1. out = Refuse(fails)
    BY <1>2, <1>3 DEF handleOciRepository
  <2>2. CASE ~Current(oci) \/ fails = oci
    BY <1>1, <2>1, <2>2 DEF Refuse
  <2>3. CASE Current(oci) /\ fails # oci
    <3>1. out = Result("fatal", Only(oci, w))
      BY <1>1, <2>1, <2>3 DEF Refuse
    <3>2. g \in Nat
      BY <1>2, NextGeneration
    <3> HIDE DEF g
    <3>3. w \in SourceVersions /\ ~w.insecure /\ w.owner = store[oci].owner
      BY <1>2, <3>2, Zenon DEF SourceVersions
    <3> HIDE DEF w
    <3>4. out.write = Only(oci, w)
      BY <3>1 DEF Result
    <3> HIDE DEF out
    <3> QED
      BY <3>3, <3>4 DEF out
  <2> QED
    BY <2>2, <2>3
<1>4. CASE package \notin Insecure
  <2>1. out = Patch(oci, package, FALSE, fails)
    BY <1>1, <1>2, <1>4 DEF handleOciRepository
  <2>2. CASE fails = oci
    BY <2>1, <2>2 DEF Patch
  <2>3. CASE fails # oci
    <3>1. out = Result(Readiness(v), Only(oci, v))
      BY <1>1, <2>1, <2>3 DEF Patch
    <3>2. v \in SourceVersions /\ Succeeds(store[oci], v)
      BY <1>1, Populated, Zenon
    <3>3. ~v.insecure
      <4> DEFINE p == IF package # cache[oci].package THEN package ELSE store[oci].package
                 u == [store[oci] EXCEPT !.package = p, !.insecure = FALSE]
      <4>1. FALSE # cache[oci].insecure
        BY <1>2, Zenon
      <4>2. v = IF u = store[oci] THEN u ELSE [u EXCEPT !.generation = @ + 1]
        BY <4>1 DEF Populate
      <4> HIDE DEF p, v
      <4>3. ~u.insecure /\ [u EXCEPT !.generation = @ + 1].insecure = u.insecure
        BY <1>2, Zenon DEF SourceVersions
      <4> HIDE DEF u
      <4> QED
        BY <4>2, <4>3
    <3> HIDE DEF v
    <3>4. out.write = Only(oci, v)
      BY <3>1 DEF Result
    <3> HIDE DEF out
    <3> QED
      BY <3>2, <3>3, <3>4 DEF out, Succeeds
  <2> QED
    BY <2>2, <2>3
<1> QED
  BY <1>3, <1>4

\* A pass never makes the OCIRepository insecure, and secures one that is or tries again.
LEMMA ReconcileWatched ==
  ASSUME SourcesAssumption, IInv, Watched, Reconcile
  PROVE  Watched'
<1> SUFFICES ASSUME IsInsecure(store[oci])' PROVE Watched'
  BY DEF Watched
<1>1. oci \in Sources /\ IsInsecure(store'[oci])
  BY DEF Sources
<1>2. IsInsecure(store[oci])
  <2>1. CASE store'[oci] = store[oci]
    BY <1>1, <2>1
  <2>2. CASE Updates(oci, store'[oci])
    BY <1>1, <2>2 DEF Updates, Fresh, Succeeds, IsInsecure
  <2> QED
    BY <1>1, <2>1, <2>2, ReconcileStep DEF PassUpdates
<1>3. PICK fails \in {None, oci, "fetch"} :
        LET out == handleOciRepository(cache[rel], fails)
        IN \/ StopAtOci(out)
           \/ out.to \in Revisions /\ Write(out.write)
  BY DEF Reconcile
<1> DEFINE out == handleOciRepository(cache[rel], fails)
<1>4. cache[rel] \in Packages
  BY DEF IInv, Cluster, Follows, FollowsAt, Objects, VersionsOf
<1>5. \/ out = Error
      \/ \E v : ~v.insecure /\ v \in SourceVersions /\ v.owner = store[oci].owner
                /\ out.write = Only(oci, v)
  BY <1>2, <1>4, SecuredOrRetried DEF IInv
<1> HIDE DEF out
<1>6. Write(out.write)
  BY <1>3 DEF StopAtOci, out
<1>7. ASSUME NEW v, ~v.insecure, v \in SourceVersions, v.owner = store[oci].owner,
             out.write = Only(oci, v)
      PROVE  FALSE
  <2>1. store'[oci] = v
    BY <1>1, <1>6, <1>7, WriteCluster DEF IInv
  <2> QED
    BY <1>1, <1>7, <2>1 DEF IsInsecure
<1>8. out = Error /\ out.to = "error" /\ out.write = NoWrites
  BY <1>5, <1>7 DEF Error, Result
<1>9. UNCHANGED <<store, feed, cache>>
  BY <1>6, <1>8, NoWriteFollows DEF IInv, Cluster
<1>10. queued'
  <2>1. out.to \notin Revisions
    BY <1>8 DEF SourcesAssumption
  <2>2. StopAtOci(out)
    BY <1>3, <2>1 DEF out
  <2> QED
    BY <1>8, <2>2, Zenon DEF StopAtOci
<1> QED
  BY <1>2, <1>9, <1>10 DEF Watched

\* Every other step keeps the request, and brings no other versions than those of the server.
LEMMA WatchedStep ==
  ASSUME SourcesAssumption, IInv, Watched, queued \in BOOLEAN, [Next]_vars
  PROVE  Watched'
<1> SUFFICES ASSUME IsInsecure(store[oci])' PROVE Watched'
  BY DEF Watched
<1>1. /\ oci \in Sources /\ oci \in Objects /\ IsInsecure(store'[oci])
      /\ DOMAIN store = Objects /\ DOMAIN feed = Objects
      /\ feed[oci] \in Seq(VersionsOf[oci])
  BY Typed DEF Sources, IInv, Cluster, Follows
<1>2. IsInsecure(store[oci])
  <2>1. CASE store'[oci] = store[oci]
    BY <1>1, <2>1
  <2>2. CASE Updates(oci, store'[oci]) \/ Fresh(store'[oci])
    BY <1>1, <2>2 DEF Updates, Fresh, Succeeds, IsInsecure
  <2>3. CASE Reports(store[oci], flux[oci], store'[oci]) /\ store[oci] # None
    BY <1>1, <2>3 DEF Reports, IsInsecure
  <2>4. SourceStep(oci)
    BY <1>1, SourceSteps
  <2>5. store'[oci] # None
    BY <1>1 DEF IsInsecure
  <2> QED
    BY <2>1, <2>2, <2>3, <2>4, <2>5 DEF SourceStep
<1>3. /\ queued = TRUE /\ store[oci].owner = rel
      /\ IsInsecure(cache[oci]) /\ \A i \in DOMAIN feed[oci] : IsInsecure(feed[oci][i])
  BY <1>2 DEF Watched
<1>4. ASSUME queued', store'[oci].owner = rel, cache'[oci] = cache[oci], feed'[oci] = feed[oci]
      PROVE  Watched'
  BY <1>3, <1>4 DEF Watched
<1>5. CASE Reconcile
  BY <1>5, ReconcileWatched
<1>6. CASE ReconcileCharts
  <2>1. PICK fails \in {None, hr} :
          LET out == handleHelmRepository(held.package, held.revision, fails)
          IN Write(out.write) /\ queued' = (queued \/ out.to = "error")
    BY <1>6 DEF ReconcileCharts
  <2> DEFINE out == handleHelmRepository(held.package, held.revision, fails)
  <2>2. held.package \in Packages /\ held.revision \in Revisions
    BY <1>6, Zenon DEF ReconcileCharts, IInv, Kept, Passes
  <2>3. Answer(hr, out)
    BY <2>2, HelmAnswer DEF IInv
  <2>4. Write(out.write) /\ queued' = (queued \/ out.to = "error")
    BY <2>1, Zenon
  <2> HIDE DEF out
  <2>5. queued'
    BY <1>3, <2>4, Zenon
  <2>6. hr \in Sources /\ oci # hr
    BY DEF Sources, SourcesAssumption
  <2>7. cache' = cache /\ store'[oci] = store[oci] /\ feed'[oci] = feed[oci]
    BY <1>1, <2>3, <2>4, <2>6, AnswerWrite DEF IInv
  <2> QED
    BY <1>3, <1>4, <2>5, <2>7
<1>7. CASE Crash
  <2>1. Relist /\ queued'
    BY <1>7, Zenon DEF Crash
  <2>2. store' = store /\ cache'[oci] = store[oci] /\ feed'[oci] = <<>>
    BY <1>1, <2>1 DEF Relist
  <2> QED
    BY <1>2, <1>3, <2>1, <2>2 DEF Watched
<1>8. ASSUME NEW o \in DOMAIN store, Deliver(o) PROVE Watched'
  <2>1. Receive(o) /\ queued' = (queued \/ o = rel \/ \E v \in {cache[o], Head(feed[o])} :
                                                        v # None /\ v.owner = rel)
    BY <1>8, Zenon DEF Deliver
  <2>2. queued'
    BY <1>3, <2>1, Zenon
  <2>3. /\ store' = store /\ feed[o] # <<>> /\ cache'[o] = Head(feed[o])
        /\ feed'[o] = Tail(feed[o])
        /\ \A x \in Objects \ {o} : cache'[x] = cache[x] /\ feed'[x] = feed[x]
    BY <1>1, <1>8, <2>1, ReceiveFollows, Zenon DEF IInv, Cluster
  <2>4. CASE o # oci
    BY <1>1, <1>3, <1>4, <2>2, <2>3, <2>4
  <2>5. CASE o = oci
    <3> DEFINE f == feed[oci]
    <3>1. f \in Seq(VersionsOf[oci]) /\ f # <<>> /\ \A i \in DOMAIN f : IsInsecure(f[i])
      BY <1>1, <1>3, <2>3, <2>5
    <3> HIDE DEF f
    <3>2. Head(f) = f[1] /\ 1 \in DOMAIN f
      BY <3>1
    <3>3. \A i \in DOMAIN Tail(f) : i + 1 \in DOMAIN f /\ Tail(f)[i] = f[i + 1]
      BY <3>1
    <3>4. IsInsecure(Head(f)) /\ \A i \in DOMAIN Tail(f) : IsInsecure(Tail(f)[i])
      BY <3>1, <3>2, <3>3
    <3>5. cache'[oci] = Head(f) /\ feed'[oci] = Tail(f)
      BY <2>3, <2>5 DEF f
    <3> QED
      BY <1>3, <2>2, <2>3, <3>4, <3>5 DEF Watched
  <2> QED
    BY <2>4, <2>5
<1>9. ASSUME NEW o \in Sources, FluxReport(o) PROVE Watched'
  <2>1. queued' = queued
    BY <1>9 DEF FluxReport
  <2> DEFINE v == store'[o]
  <2>2. Write(Only(o, v)) /\ v \in SourceVersions /\ v.owner = store[o].owner
    BY <1>9, FluxReportSource DEF Reports
  <2> HIDE DEF v
  <2>3. /\ cache' = cache /\ store'[o] = v
        /\ feed'[o] = IF v # store[o] THEN Append(feed[o], v) ELSE feed[o]
        /\ \A x \in Objects \ {o} : store'[x] = store[x] /\ feed'[x] = feed[x]
    BY <2>2, WriteCluster DEF IInv
  <2>4. CASE o # oci
    BY <1>1, <1>3, <1>4, <2>1, <2>3, <2>4
  <2>5. CASE o = oci /\ v = store[oci]
    BY <1>3, <1>4, <2>1, <2>3, <2>5
  <2>6. CASE o = oci /\ v # store[oci]
    <3> DEFINE f == feed[oci]
    <3>1. f \in Seq(VersionsOf[oci]) /\ v \in VersionsOf[oci] /\ IsInsecure(v)
          /\ \A i \in DOMAIN f : IsInsecure(f[i])
      BY <1>1, <1>3, <2>2, <2>3, <2>6, Typed, Zenon DEF IInv, Cluster
    <3> HIDE DEF f
    <3>2. \A i \in DOMAIN Append(f, v) : IsInsecure(Append(f, v)[i])
      BY <3>1
    <3>3. feed'[oci] = Append(f, v)
      BY <2>3, <2>6 DEF f
    <3> QED
      BY <1>3, <2>1, <2>2, <2>3, <2>6, <3>2, <3>3 DEF Watched
  <2> QED
    BY <2>4, <2>5, <2>6
<1>10. ASSUME NEW o \in Sources, FluxFetch(o) PROVE Watched'
  BY <1>3, <1>4, <1>10, Zenon DEF FluxFetch, kube
<1>11. ASSUME NEW o \in Sources, FluxFinalize(o) PROVE Watched'
  <2>1. /\ cache' = cache /\ store'[o] = None
        /\ \A x \in Objects \ {o} : store'[x] = store[x] /\ feed'[x] = feed[x]
    BY <1>11, WriteCluster DEF IInv, FluxFinalize
  <2>2. o # oci
    BY <1>1, <2>1 DEF IsInsecure
  <2> QED
    BY <1>1, <1>3, <1>4, <1>11, <2>1, <2>2, Zenon DEF FluxFinalize
<1>12. ASSUME NEW o \in Sources, PutForeign(o) PROVE Watched'
  <2>1. o # oci
    <3> SUFFICES ASSUME o = oci PROVE FALSE
      OBVIOUS
    <3>1. store'[oci] = None \/ Fresh(store'[oci])
      BY <1>12, WithdrawnSource
    <3> QED
      BY <1>1, <3>1 DEF Fresh, IsInsecure
  <2> QED
    BY <1>1, <1>3, <1>4, <1>12, <2>1, Zenon DEF PutForeign
<1>13. ASSUME NEW p \in Packages, EditRelease(p) PROVE Watched'
  <2>1. rel \in Objects /\ p \in VersionsOf[rel] /\ oci # rel
    BY DEF Objects, VersionsOf, SourcesAssumption
  <2>2. Write(Only(rel, p)) /\ queued' = queued
    BY <1>13 DEF EditRelease
  <2>3. cache' = cache /\ store'[oci] = store[oci] /\ feed'[oci] = feed[oci]
    BY <1>1, <2>1, <2>2, OnlyFollows DEF IInv, Cluster
  <2> QED
    BY <1>3, <1>4, <2>2, <2>3
<1>14. ASSUME NEW p, NEW r, Push(p, r) PROVE Watched'
  BY <1>3, <1>4, <1>14, Zenon DEF Push, kube
<1>15. CASE UNCHANGED vars
  BY <1>3, <1>4, <1>15 DEF vars, kube
<1> QED
  BY <1>5, <1>6, <1>7, <1>8, <1>9, <1>10, <1>11, <1>12, <1>13, <1>14, <1>15
     DEF Next, SourcesAssumption

\* A pass that has a folder took the artifact of a secure package, from an OCIRepository that it
\* found ready for that package.
LEMMA TookReady ==
  ASSUME SourcesAssumption, IInv, Reconcile, held' # None
  PROVE  /\ held' \in Passes /\ held'.package = cache[rel] /\ held'.revision \in Revisions
         /\ cache[rel] \in Packages \ Insecure
         /\ SameUID(oci) /\ held'.revision = Readiness(Populate(oci, cache[rel], FALSE))
         /\ store'[oci] = Populate(oci, cache[rel], FALSE)
<1>1. PICK fails \in {None, oci, "fetch"} :
        LET out == handleOciRepository(cache[rel], fails)
        IN \/ StopAtOci(out)
           \/ /\ out.to \in Revisions /\ Write(out.write)
              /\ StopAtFolder(out.to, fails) \/ PassFolder(out.to, fails)
  BY DEF Reconcile
<1> DEFINE out == handleOciRepository(cache[rel], fails)
           v == Populate(oci, cache[rel], FALSE)
<1>2. /\ out.to \in Revisions /\ Write(out.write)
      /\ held' = [package |-> cache[rel], revision |-> out.to]
  <2> HIDE DEF out
  <2>1. held = None
    BY DEF Reconcile
  <2>2. ~StopAtOci(out) /\ ~StopAtFolder(out.to, fails)
    BY <2>1 DEF StopAtOci, StopAtFolder
  <2> QED
    BY <1>1, <2>2, Zenon DEF PassFolder, out
<1>3. cache[rel] \in Packages
  BY DEF IInv, Cluster, Follows, FollowsAt, Objects, VersionsOf
<1>4. held' \in Passes /\ held'.package = cache[rel] /\ held'.revision = out.to
  <2> HIDE DEF out
  <2> QED
    BY <1>2, <1>3, Zenon DEF Passes
<1>5. out.to \notin {"error", "fatal", "wait"}
  <2> HIDE DEF out
  <2> QED
    BY <1>2 DEF SourcesAssumption
<1>6. cache[rel] \notin Insecure
  BY <1>5, Zenon DEF handleOciRepository, Refuse, Error, Fatal, Result
<1>7. out = Patch(oci, cache[rel], FALSE, fails)
  BY <1>5, <1>6, Zenon DEF handleOciRepository, Create, Error, Waits, Result
<1>8. SameUID(oci) /\ out = Result(Readiness(v), Only(oci, v))
  <2> DEFINE answer == Patch(oci, cache[rel], FALSE, fails)
  <2>1. answer = IF ~SameUID(oci) \/ fails = oci THEN Result("error", NoWrites)
                 ELSE Result(Readiness(v), Only(oci, v))
    BY DEF Patch, Error
  <2>2. out = answer
    BY <1>7
  <2> HIDE DEF v, out, answer
  <2>3. out.to # "error"
    BY <1>5
  <2>4. Result("error", NoWrites).to = "error"
    BY DEF Result
  <2> QED
    BY <2>1, <2>2, <2>3, <2>4
<1>9. oci \in Sources /\ v \in SourceVersions /\ Succeeds(store[oci], v)
  BY <1>3, <1>8, Populated, Zenon DEF Sources, IInv
<1> HIDE DEF v, out
<1>10. out.to = Readiness(v) /\ out.write = Only(oci, v)
  BY <1>8, Zenon DEF Result
<1>11. store'[oci] = v
  BY <1>2, <1>9, <1>10, WriteCluster, Zenon DEF IInv, Succeeds
<1> QED
  BY <1>2, <1>3, <1>4, <1>6, <1>8, <1>10, <1>11, Zenon DEF v

\* What a pass took, or had, changes in its own steps only.
LEMMA PassKeeps ==
  ASSUME SourcesAssumption, IInv, [Next]_vars, ~Reconcile, ~ReconcileCharts
  PROVE  held' \in {held, None} /\ used' = used
BY Zenon DEF Next, Crash, Deliver, FluxFetch, FluxReport, FluxFinalize, EditRelease, Push,
             PutForeign, vars

\* No pass has a package over insecure transport.
LEMMA CleanStep ==
  ASSUME SourcesAssumption, IInv, Clean, [Next]_vars
  PROVE  Clean'
<1>1. CASE Reconcile
  <2>1. used' = used
    BY <1>1 DEF Reconcile
  <2> QED
    BY <1>1, <2>1, TookReady, Zenon DEF Clean
<1>2. CASE ReconcileCharts
  <2>1. held' = None /\ held # None
    BY <1>2, ChartsUsed
  <2>2. used' = used \/ used'.package = held.package
    BY <1>2, ChartsUsed
  <2> QED
    BY <2>1, <2>2 DEF Clean
<1>3. CASE ~Reconcile /\ ~ReconcileCharts
  BY <1>3, PassKeeps DEF Clean
<1> QED
  BY <1>1, <1>2, <1>3

\* Insecure transport is refused (handleOciRepository of release_ocirepository.go): no pass goes on
\* with an insecure package, and once the Release has no request left, the OCIRepository that it
\* controls is secure, for any packages, lags, crashes, failures and changes.
THEOREM SecureStays ==
  ASSUME SourcesAssumption
  PROVE  Spec => []StaysSecure
<1>1. Init => IInv /\ FolderKept /\ Watched /\ Clean
  <2> SUFFICES ASSUME Init PROVE IInv /\ FolderKept /\ Watched /\ Clean
    OBVIOUS
  <2>1. Clean /\ queued
    BY DEF Clean, Init
  <2>2. PICK p \in Packages, old \in {None} \cup {NewSource(rel, q, TRUE, None) : q \in Packages} :
          KubeInit([o \in Objects |-> IF o = rel THEN p ELSE IF o = oci THEN old ELSE None])
    BY Zenon DEF Init, Objects
  <2>3. store[oci] = old /\ cache[oci] = old /\ feed[oci] = <<>>
    BY <2>2 DEF KubeInit, Objects, SourcesAssumption
  <2>4. ASSUME old # None PROVE old.owner = rel
    <3>1. PICK q \in Packages : old = NewSource(rel, q, TRUE, None)
      BY <2>4, Zenon
    <3> QED
      BY <3>1, Zenon DEF NewSource
  <2>5. Watched
    BY <2>1, <2>3, <2>4 DEF Watched, IsInsecure
  <2> QED
    BY <2>1, <2>5, InitStep, TypesInit
<1>2. IInv /\ FolderKept /\ Watched /\ Clean /\ [Next]_vars => (IInv /\ FolderKept /\ Watched /\ Clean)'
  BY NextStep, FolderStep, WatchedStep, CleanStep DEF FolderKept
<1>3. Watched /\ Clean => StaysSecure
  BY DEF Watched, Clean, IsInsecure, StaysSecure
<1> QED
  BY <1>1, <1>2, <1>3, PTL DEF Spec

----------------------------------------------------------------------------
(* The revision of the package                                             *)

Had(p, r) == \E i \in DOMAIN registry[p] : registry[p][i] = r

\* What is known of the artifact of a source whose version is v, with f read of it by Flux.
OwnArtifact(v, f) ==
  v # None =>
    /\ v.observed = v.generation => Had(v.package, v.artifact)
    /\ f # None /\ f.generation = v.generation => Had(v.package, f.got)

OwnRevisions ==
  /\ OwnArtifact(store[oci], flux[oci])
  /\ held # None => Had(held.package, held.revision)
  /\ used # None => Had(used.package, used.revision)

\* The registry forgets no revision of a package.
LEMMA HadKept ==
  ASSUME SourcesAssumption, IInv, [Next]_vars, NEW p \in Packages, NEW r, Had(p, r)
  PROVE  Had(p, r)'
<1>1. registry' = registry
      \/ \E q \in Packages, s \in Revisions : registry' = [registry EXCEPT ![q] = Append(@, s)]
  BY Zenon DEF Next, Reconcile, ReconcileCharts, Crash, Deliver, FluxFetch, FluxReport, FluxFinalize,
         EditRelease, Push, PutForeign, vars
<1>2. CASE registry' = registry
  BY <1>2 DEF Had
<1>3. ASSUME NEW q \in Packages, NEW s \in Revisions,
             registry' = [registry EXCEPT ![q] = Append(@, s)]
      PROVE  Had(p, r)'
  <2> DEFINE f == registry[p]
  <2>1. f \in Seq(Revisions) /\ DOMAIN registry = Packages
    BY DEF IInv, Kept
  <2>2. registry'[p] = f \/ registry'[p] = Append(f, s)
    BY <1>3, <2>1
  <2>3. PICK i \in DOMAIN f : f[i] = r
    BY DEF Had
  <2> HIDE DEF f
  <2>4. i \in DOMAIN Append(f, s) /\ Append(f, s)[i] = f[i]
    BY <2>1, <2>3
  <2> QED
    BY <2>2, <2>3, <2>4 DEF Had
<1> QED
  BY <1>1, <1>2, <1>3

\* Flux reads the artifact of a package in its registry.
LEMMA LatestHad ==
  ASSUME IInv, NEW p \in Packages
  PROVE  Had(p, Latest(p))
<1> DEFINE f == registry[p]
<1>1. f \in Seq(Revisions) /\ f # <<>>
  BY DEF IInv, Kept
<1> HIDE DEF f
<1>2. Len(f) \in DOMAIN f
  BY <1>1
<1> QED
  BY <1>2 DEF Had, Latest, f

\* What a package had is a revision.
LEMMA HadRevision ==
  ASSUME IInv, NEW p \in Packages, NEW r, Had(p, r)
  PROVE  r \in Revisions
<1> DEFINE f == registry[p]
<1>1. f \in Seq(Revisions)
  BY DEF IInv, Kept
<1>2. PICK i \in DOMAIN f : f[i] = r
  BY DEF Had
<1> HIDE DEF f
<1> QED
  BY <1>1, <1>2

\* The artifact that Flux reports for the current spec is one of its package.
LEMMA OwnArtifactStep ==
  ASSUME SourcesAssumption, IInv, IInv', Aged, [Next]_vars, OwnArtifact(store[oci], flux[oci])
  PROVE  OwnArtifact(store[oci], flux[oci])'
<1> DEFINE v == store[oci]  w == store'[oci]  f == flux[oci]  g == flux'[oci]
<1>1. oci \in Sources /\ SourceStep(oci)
  BY SourceSteps DEF Sources
<1>2. /\ v # None => v \in SourceVersions /\ v.package \in Packages /\ v.generation \in Nat
                     /\ v.observed \in Nat
      /\ w # None => w \in SourceVersions /\ w.package \in Packages /\ w.generation \in Nat
      /\ f # None => f.generation \in Nat
      /\ AgedVersion(v, f)
  <2>1. v # None => v \in SourceVersions
    BY <1>1, Typed, Zenon DEF IInv, Cluster
  <2>2. w # None => w \in SourceVersions
    <3>1. oci \in Objects /\ VersionsOf[oci] = {None} \cup SourceVersions
      BY <1>1, Typed, Zenon DEF IInv, Cluster
    <3>2. w \in VersionsOf[oci]
      BY <3>1 DEF IInv, Cluster, Follows, FollowsAt
    <3> QED
      BY <3>1, <3>2, Zenon
  <2>3. AgedVersion(v, f) /\ f \in Reads \cup {None}
    BY <1>1 DEF Aged, IInv, Kept
  <2> QED
    BY <2>1, <2>2, <2>3, Zenon DEF SourceVersions, Reads
<1>3. ASSUME w # None,
             w.observed = w.generation => Had(w.package, w.artifact),
             g # None /\ g.generation = w.generation => Had(w.package, g.got)
      PROVE  OwnArtifact(store[oci], flux[oci])'
  BY <1>2, <1>3, HadKept, Zenon DEF OwnArtifact
<1>4. CASE w = v /\ g = f
  BY <1>3, <1>4 DEF OwnArtifact
<1>5. CASE w \in SourceVersions /\ Updates(oci, w) /\ g = f
  <2>1. CASE v = None
    <3>1. Fresh(w) /\ g = None
      BY <1>2, <1>5, <2>1 DEF Updates, AgedVersion
    <3>2. w.observed # w.generation
      BY <3>1 DEF Fresh
    <3> QED
      BY <1>3, <3>1, <3>2, Zenon DEF OwnArtifact
  <2>2. CASE v # None /\ w.generation = v.generation /\ w.package = v.package
    <3>1. w.observed = v.observed /\ w.artifact = v.artifact
      BY <1>5, <2>2, Zenon DEF Updates, Succeeds
    <3> QED
      BY <1>3, <1>5, <2>2, <3>1, Zenon DEF OwnArtifact
  <2>3. CASE v # None /\ w.generation = v.generation + 1
    <3>1. /\ w.observed = v.observed /\ v.observed <= v.generation
          /\ f # None => f.generation <= v.generation
      BY <1>2, <1>5, <2>3, Zenon DEF Updates, Succeeds, AgedVersion
    <3>2. v.generation \in Nat /\ v.observed \in Nat /\ (f # None => f.generation \in Nat)
      BY <1>2, <2>3, Zenon
    <3>3. w.observed # w.generation /\ (f # None => f.generation # w.generation)
      <4> HIDE DEF v, w, f
      <4> QED
        BY <2>3, <3>1, <3>2
    <3> QED
      BY <1>3, <1>5, <3>3, Zenon DEF OwnArtifact
  <2> QED
    BY <1>5, <2>1, <2>2, <2>3, Zenon DEF Updates, Succeeds
<1>6. CASE w = v /\ v # None /\ ReadBy(oci, g)
  <2>1. g.got = Latest(v.package)
    BY <1>6 DEF ReadBy
  <2>2. Had(w.package, g.got)
    BY <1>2, <1>6, <2>1, LatestHad
  <2> QED
    BY <1>3, <1>6, <2>2 DEF OwnArtifact
<1>7. CASE v # None /\ f # None /\ g = None /\ w \in SourceVersions /\ Reports(v, f, w)
  <2>1. w.observed = w.generation => Had(w.package, w.artifact)
    <3> SUFFICES ASSUME w.observed = w.generation PROVE Had(w.package, w.artifact)
      OBVIOUS
    <3>1. f.generation = v.generation /\ w.package = v.package
      BY <1>7 DEF Reports
    <3>2. Had(v.package, f.got)
      BY <1>7, <3>1 DEF OwnArtifact
    <3>3. f.got # None
      BY <1>2, <1>7, <3>2, HadRevision DEF SourcesAssumption
    <3> QED
      BY <1>7, <3>1, <3>2, <3>3, Zenon DEF Reports
  <2> QED
    BY <1>3, <1>7, <2>1, Zenon DEF OwnArtifact
<1>8. CASE g = None /\ (w = None \/ (w \in SourceVersions /\ Fresh(w)))
  <2>1. w # None => w.observed # w.generation
    BY <1>8 DEF Fresh
  <2> QED
    BY <1>8, <2>1 DEF OwnArtifact
<1> QED
  BY <1>1, <1>4, <1>5, <1>6, <1>7, <1>8, Zenon DEF SourceStep

\* A pass that finds the OCIRepository ready, and reads it as it is, takes an artifact of the
\* package of its spec.
LEMMA TookOwn ==
  ASSUME SourcesAssumption, oci \notin Lagging, IInv, IInv', Aged',
         OwnArtifact(store[oci], flux[oci])', Reconcile, held' # None
  PROVE  Had(held.package, held.revision)'
<1> DEFINE p == cache[rel]
           w == store'[oci]
<1>1. /\ held'.package = p /\ held'.revision \in Revisions /\ p \in Packages
      /\ SameUID(oci) /\ held'.revision = Readiness(w) /\ w = Populate(oci, p, FALSE)
  BY TookReady, Zenon
<1>2. oci \in Sources /\ w \in SourceVersions /\ store[oci] \in SourceVersions
  BY <1>1, Populated, SameIsThere, Zenon DEF Sources, IInv
<1>3. cache[oci] = store[oci]
  <2>1. Current(oci)
    BY DEF Reconcile, IInv, Cluster, Follows, Objects
  <2> QED
    BY <1>2, <2>1, Typed DEF Current, IInv, Cluster
<1>4. w.package = p
  <2> DEFINE q == IF p # cache[oci].package THEN p ELSE store[oci].package
             s == IF FALSE # cache[oci].insecure THEN FALSE ELSE store[oci].insecure
             u == [store[oci] EXCEPT !.package = q, !.insecure = s]
  <2>1. Populate(oci, p, FALSE) = IF u = store[oci] THEN u ELSE [u EXCEPT !.generation = @ + 1]
    BY DEF Populate
  <2>2. q = p
    BY <1>3
  <2> HIDE DEF p, q, s
  <2>3. u.package = p /\ [u EXCEPT !.generation = @ + 1].package = u.package
    BY <1>2, <2>2, Zenon DEF SourceVersions
  <2> HIDE DEF u, w
  <2> QED
    BY <1>1, <2>1, <2>3, Zenon
<1> HIDE DEF p
<1>5. w # None /\ AgedVersion(w, flux'[oci])
  BY <1>2 DEF Aged, SourcesAssumption
<1> HIDE DEF w
<1>6. w.ready = "True" /\ ~staleReady(w) /\ held'.revision = w.artifact
  BY <1>1, Zenon DEF Readiness, SourcesAssumption
<1>7. w.observed = w.generation
  <2>1. w.observed \in Nat /\ w.generation \in Nat
    BY <1>2, Zenon DEF SourceVersions
  <2>2. ~(w.observed < w.generation) /\ w.observed <= w.generation
    BY <1>5, <1>6 DEF staleReady, AgedVersion
  <2> QED
    BY <2>1, <2>2
<1>8. Had(store[oci].package, store[oci].artifact)'
  BY <1>5, <1>7 DEF OwnArtifact, w
<1>9. held'.package = store'[oci].package /\ held'.revision = store'[oci].artifact
  BY <1>1, <1>4, <1>6, Zenon DEF w
<1> QED
  BY <1>8, <1>9 DEF Had

\* Every step keeps the revisions that the passes took, and had, among those of their packages.
LEMMA OwnRevisionsStep ==
  ASSUME SourcesAssumption, oci \notin Lagging, IInv, Aged, FolderKept, OwnRevisions, [Next]_vars
  PROVE  OwnRevisions'
<1> DEFINE HadNow(p, r) == \E i \in DOMAIN registry'[p] : registry'[p][i] = r
<1>1. IInv' /\ Aged'
  BY NextStep, SourceSteps, AgedStep DEF Aged
<1>2. OwnArtifact(store[oci], flux[oci])'
  BY <1>1, OwnArtifactStep DEF OwnRevisions
<1>3. \A p \in Packages : \A r : Had(p, r) => HadNow(p, r)
  BY HadKept DEF Had
<1>4. /\ held # None => HadNow(held.package, held.revision)
      /\ used # None => HadNow(used.package, used.revision)
  <2>1. /\ held # None => held.package \in Packages
        /\ used # None => used.package \in Packages
    BY DEF IInv, Kept, Passes, FolderKept, Uses
  <2> HIDE DEF HadNow
  <2> QED
    BY <1>3, <2>1 DEF OwnRevisions
<1>5. ASSUME held' # None => HadNow(held'.package, held'.revision),
             used' # None => HadNow(used'.package, used'.revision)
      PROVE  OwnRevisions'
  BY <1>2, <1>5, Zenon DEF OwnRevisions, Had
<1>6. CASE Reconcile
  <2>1. used' = used
    BY <1>6 DEF Reconcile
  <2>2. held' # None => HadNow(held'.package, held'.revision)
    BY <1>1, <1>2, <1>6, TookOwn DEF Had
  <2> QED
    BY <1>4, <1>5, <2>1, <2>2
<1>7. CASE ReconcileCharts
  <2>1. held' = None /\ held # None
    BY <1>7, ChartsUsed
  <2>2. used' = used \/ (used'.package = held.package /\ used'.revision = held.revision)
    BY <1>7, ChartsUsed
  <2> HIDE DEF HadNow
  <2> QED
    BY <1>4, <1>5, <2>1, <2>2
<1>8. CASE ~Reconcile /\ ~ReconcileCharts
  <2>1. held' \in {held, None} /\ used' = used
    BY <1>8, PassKeeps
  <2> HIDE DEF HadNow
  <2> QED
    BY <1>4, <1>5, <2>1
<1> QED
  BY <1>6, <1>7, <1>8

\* A pass goes on with a revision of the package of the spec that it read (staleReady and the
\* UID of the patch, release_ocirepository.go), though Flux reports late, for any packages,
\* revisions, crashes, failures and lags, but of the OCIRepository: one that is read late can
\* still have a former package, and the patch then leaves the package of the server as it is.
THEOREM RevisionOwn ==
  ASSUME SourcesAssumption, oci \notin Lagging
  PROVE  Spec => []RevisionOfPackage
<1>1. Init => IInv /\ Aged /\ FolderKept /\ OwnRevisions
  <2> SUFFICES ASSUME Init PROVE IInv /\ Aged /\ FolderKept /\ OwnRevisions
    OBVIOUS
  <2>1. held = None /\ used = None /\ flux = [o \in Sources |-> None]
    BY DEF Init
  <2>2. flux[oci] = None
    BY <2>1 DEF Sources
  <2>3. PICK p \in Packages, old \in {None} \cup {NewSource(rel, q, TRUE, None) : q \in Packages} :
          KubeInit([o \in Objects |-> IF o = rel THEN p ELSE IF o = oci THEN old ELSE None])
    BY Zenon DEF Init, Objects
  <2>4. store[oci] = old
    BY <2>3 DEF KubeInit, Objects, SourcesAssumption
  <2>5. ASSUME old # None PROVE old.observed # old.generation
    <3>1. PICK q \in Packages : old = NewSource(rel, q, TRUE, None)
      BY <2>5, Zenon
    <3>2. old.observed = 0 /\ old.generation = 1
      BY <3>1, Zenon DEF NewSource
    <3> QED
      BY <3>2
  <2>6. OwnRevisions
    BY <2>1, <2>2, <2>4, <2>5 DEF OwnRevisions, OwnArtifact
  <2> QED
    BY <2>6, InitStep, TypesInit
<1>2. IInv /\ Aged /\ FolderKept /\ OwnRevisions /\ [Next]_vars
        => (IInv /\ Aged /\ FolderKept /\ OwnRevisions)'
  BY NextStep, SourceSteps, AgedStep, FolderStep, OwnRevisionsStep DEF Aged
<1>3. OwnRevisions => RevisionOfPackage
  BY DEF OwnRevisions, RevisionOfPackage, Had
<1> QED
  BY <1>1, <1>2, <1>3, PTL DEF Spec

----------------------------------------------------------------------------
(* The index of the revision                                               *)

\* No call fails, the process does not die, and the HelmRepository is read without lag.
Undisturbed == MaxFailures = 0 /\ hr \notin Lagging

\* The folder has all the files of the revision that it names, or nothing.
FolderWhole ==
  folder.files = IF folder.mark = None THEN {} ELSE Files(folder.mark)

\* A pass is about to replace the HelmRepository of another revision.
Replaces(v) == held # None /\ held.revision # v.annotation

\* The HelmRepository that the Release controls has the annotation of the folder, and its
\* artifact is the index of that revision, unless a pass is about to replace it.
OwnIndex(v, f) ==
  v # None /\ v.owner = rel /\ ~v.deleting =>
    /\ held = None => folder.mark = v.annotation
    /\ v.artifact \in {None, v.annotation} \/ Replaces(v)
    /\ f # None => f.got \in {None, v.annotation} \/ Replaces(v)

IndexKept ==
  /\ failures = 0 /\ FolderWhole /\ OwnIndex(store[hr], flux[hr]) /\ IndexFollows

\* The index that the chart server serves is that of the revision of the folder.
LEMMA IndexOfWhole ==
  ASSUME SourcesAssumption, IInv, FolderWhole
  PROVE  IndexOf(folder) \in {None, folder.mark}
<1> DEFINE found == {r \in Revisions : <<r, "index">> \in folder.files}
<1>1. found \subseteq {folder.mark}
  BY DEF FolderWhole, Files
<1>2. found = {} \/ (CHOOSE r \in found : TRUE) \in found
  OBVIOUS
<1>3. IndexOf(folder) = IF found = {} THEN None ELSE CHOOSE r \in found : TRUE
  BY DEF IndexOf
<1> HIDE DEF found
<1> QED
  BY <1>1, <1>2, <1>3

\* A pass up to the folder: without failures it leaves the folder, or loads the revision that it
\* took.
LEMMA ReconcileLoads ==
  ASSUME SourcesAssumption, Undisturbed, IInv, failures = 0, Reconcile
  PROVE  /\ failures' = 0 /\ used' = used /\ flux' = flux /\ held = None
         /\ \/ folder' = folder /\ held' = None
            \/ /\ held' # None /\ held'.revision \in Revisions
               /\ folder' = IF folder.mark = held'.revision THEN folder
                            ELSE Fetched(folder, held'.revision)
<1>1. PICK fails \in {None, oci, "fetch"} :
        LET out == handleOciRepository(cache[rel], fails)
        IN /\ Failing(fails)
           /\ \/ StopAtOci(out)
              \/ /\ out.to \in Revisions /\ Write(out.write)
                 /\ StopAtFolder(out.to, fails) \/ PassFolder(out.to, fails)
  BY DEF Reconcile
<1> DEFINE out == handleOciRepository(cache[rel], fails)
<1>2. fails = None /\ failures' = 0
  BY <1>1 DEF Failing, Undisturbed
<1>3. used' = used /\ flux' = flux /\ held = None
  BY DEF Reconcile
<1> HIDE DEF out
<1>4. CASE StopAtOci(out)
  BY <1>2, <1>3, <1>4 DEF StopAtOci
<1>5. CASE StopAtFolder(out.to, fails)
  <2>1. fails # "fetch"
    BY <1>2 DEF SourcesAssumption
  <2> QED
    BY <1>2, <1>3, <1>5, <2>1 DEF StopAtFolder
<1>6. CASE PassFolder(out.to, fails) /\ out.to \in Revisions
  <2>1. cache[rel] \in Packages
    BY DEF IInv, Cluster, Follows, FollowsAt, Objects, VersionsOf
  <2>2. held' = [package |-> cache[rel], revision |-> out.to] /\ held' \in Passes
    BY <1>6, <2>1 DEF PassFolder, Passes
  <2>3. held' # None /\ held'.revision = out.to
    BY <2>2 DEF SourcesAssumption
  <2> QED
    BY <1>2, <1>3, <1>6, <2>3 DEF PassFolder
<1> QED
  BY <1>1, <1>4, <1>5, <1>6, Zenon DEF out

\* What a pass does with the HelmRepository that it reads as it is: without failures it replaces
\* the one of another revision, and goes on only with that of its own.
LEMMA ChartsCases ==
  ASSUME SourcesAssumption, Undisturbed, IInv, failures = 0, ReconcileCharts
  PROVE  /\ failures' = 0 /\ flux' = flux
         /\ \/ /\ store[hr] # None /\ (store[hr].owner # rel \/ store[hr].deleting)
               /\ store'[hr] = store[hr] /\ used' = used
            \/ store[hr] = None /\ store'[hr].annotation = held.revision /\ used' = used
            \/ store[hr] # None /\ store'[hr].deleting /\ used' = used
            \/ /\ store[hr] # None /\ store[hr].owner = rel /\ ~store[hr].deleting
               /\ store[hr].annotation = held.revision
               /\ Succeeds(store[hr], store'[hr])
<1>1. PICK fails \in {None, hr} :
        LET out == handleHelmRepository(held.package, held.revision, fails)
        IN /\ Failing(fails) /\ Write(out.write)
           /\ used' = IF out.to \in {"error", "wait"} THEN used
                      ELSE [package |-> held.package, revision |-> held.revision,
                            files |-> folder.files, index |-> out.to]
  BY DEF ReconcileCharts
<1> DEFINE out == handleHelmRepository(held.package, held.revision, fails)
           p == held.package
           r == held.revision
           v == store[hr]
<1>2. fails = None /\ failures' = 0 /\ fails # hr
  BY <1>1 DEF Failing, Undisturbed, SourcesAssumption
<1>3. /\ flux' = flux /\ p \in Packages /\ r \in Revisions /\ hr \in Sources
      /\ Current(hr)
  BY Zenon DEF ReconcileCharts, IInv, Kept, Passes, Sources, Undisturbed
<1>4. /\ cache[hr] = v /\ feed[hr] = <<>> /\ (v # None => v \in SourceVersions)
  BY <1>3, Typed, Zenon DEF Current, IInv, Cluster
<1>5. v # None => SameUID(hr)
  BY <1>4 DEF SameUID
<1>6. /\ Write(out.write)
      /\ out.to \in {"error", "wait"} => used' = used
  BY <1>1
<1>7. CASE v = None
  <2> DEFINE w == NewSource(rel, p, FALSE, r)
  <2>1. out = Waits(Only(hr, w))
    BY <1>2, <1>4, <1>7 DEF handleHelmRepository, Create
  <2>2. w \in SourceVersions /\ w.annotation = r
    BY <1>3, NewSourceTyped, Zenon DEF NewSource
  <2> HIDE DEF w, out
  <2>3. out.write = Only(hr, w) /\ out.to = "wait"
    BY <2>1 DEF Waits, Result
  <2>4. store'[hr] = w
    BY <1>3, <1>6, <1>7, <2>2, <2>3, WriteCluster, Zenon DEF IInv
  <2> QED
    BY <1>2, <1>3, <1>6, <1>7, <2>2, <2>3, <2>4
<1>8. CASE v # None /\ (v.owner # rel \/ v.deleting)
  <2>1. out \in {Error, Waits(NoWrites)}
    BY <1>4, <1>8, Zenon DEF handleHelmRepository, Controlled
  <2> HIDE DEF out
  <2>2. out.write = NoWrites /\ out.to \in {"error", "wait"}
    BY <2>1 DEF Error, Waits, Result
  <2>3. store' = store
    BY <1>6, <2>2, NoWriteFollows DEF IInv, Cluster
  <2> QED
    BY <1>2, <1>3, <1>6, <1>8, <2>2, <2>3, Zenon
<1>9. CASE v # None /\ v.owner = rel /\ ~v.deleting /\ v.annotation # r
  <2> DEFINE w == [v EXCEPT !.deleting = TRUE]
  <2>1. out = Waits(Only(hr, w))
    BY <1>2, <1>4, <1>5, <1>9 DEF handleHelmRepository, Controlled, Serves
  <2>2. w \in SourceVersions /\ w.deleting /\ w.owner = v.owner
    BY <1>4, <1>9, Zenon DEF SourceVersions
  <2> HIDE DEF w, out
  <2>3. out.write = Only(hr, w) /\ out.to = "wait"
    BY <2>1 DEF Waits, Result
  <2>4. store'[hr] = w
    BY <1>3, <1>6, <2>2, <2>3, WriteCluster DEF IInv
  <2> QED
    BY <1>2, <1>3, <1>6, <1>9, <2>2, <2>3, <2>4, Zenon
<1>10. CASE v # None /\ v.owner = rel /\ ~v.deleting /\ v.annotation = r
  <2> DEFINE w == Populate(hr, p, FALSE)
  <2>1. out = Patch(hr, p, FALSE, fails)
    BY <1>4, <1>10 DEF handleHelmRepository, Controlled, Serves
  <2>2. out = Result(Readiness(w), Only(hr, w))
    BY <1>2, <1>5, <1>10, <2>1, Zenon DEF Patch
  <2>3. w \in SourceVersions /\ Succeeds(v, w)
    BY <1>3, <1>5, <1>10, Populated, Zenon DEF IInv
  <2> HIDE DEF w, out
  <2>4. out.write = Only(hr, w)
    BY <2>2 DEF Result
  <2>5. store'[hr] = w
    BY <1>3, <1>6, <2>3, <2>4, WriteCluster, Zenon DEF IInv, Succeeds
  <2> QED
    BY <1>2, <1>3, <1>10, <2>3, <2>5
<1> QED
  BY <1>7, <1>8, <1>9, <1>10, Zenon

\* A pass that has a folder, or stops before it, leaves the HelmRepository to the next one.
LEMMA ReconcileIndex ==
  ASSUME SourcesAssumption, Undisturbed, IInv, IndexKept, Reconcile
  PROVE  IndexKept'
<1> DEFINE v == store[hr]
<1>1. /\ failures' = 0 /\ used' = used /\ flux' = flux /\ held = None
      /\ store'[hr] = v
  BY ReconcileLoads, ReconcileStep DEF IndexKept
<1>2. CASE folder' = folder /\ held' = None
  BY <1>1, <1>2 DEF IndexKept, FolderWhole, OwnIndex, Replaces, IndexFollows
<1>3. CASE /\ held' # None /\ held'.revision \in Revisions
           /\ folder' = IF folder.mark = held'.revision THEN folder
                        ELSE Fetched(folder, held'.revision)
  <2> DEFINE r == held'.revision
  <2>1. folder'.mark = r /\ r # None
    BY <1>3 DEF Fetched, Empty, Made, Gone, SourcesAssumption
  <2>2. FolderWhole'
    <3>1. CASE folder.mark = r
      BY <1>3, <3>1 DEF IndexKept, FolderWhole
    <3>2. CASE folder.mark # r
      <4>1. Fetched(folder, r).mark = r /\ Fetched(folder, r).files = Files(r)
        BY DEF Fetched, Empty, Made, Gone
      <4> QED
        BY <1>3, <2>1, <3>2, <4>1 DEF FolderWhole, Files
    <3> QED
      BY <3>1, <3>2
  <2>3. OwnIndex(v, flux[hr])
    BY DEF IndexKept
  <2>4. OwnIndex(store[hr], flux[hr])'
    <3>1. CASE r = v.annotation
      BY <1>1, <1>3, <2>3, <3>1 DEF OwnIndex, Replaces
    <3>2. CASE r # v.annotation
      BY <1>1, <1>3, <3>2 DEF OwnIndex, Replaces
    <3> QED
      BY <3>1, <3>2
  <2> QED
    BY <1>1, <2>2, <2>4, Zenon DEF IndexKept, IndexFollows
<1> QED
  BY <1>2, <1>3, ReconcileLoads, Zenon DEF IndexKept

\* A pass at the HelmRepository.
LEMMA ChartsIndex ==
  ASSUME SourcesAssumption, Undisturbed, IInv, Aged, IndexKept, ReconcileCharts
  PROVE  IndexKept'
<1> DEFINE v == store[hr]
           w == store'[hr]
           r == held.revision
<1>1. /\ failures' = 0 /\ flux' = flux /\ folder' = folder /\ held # None /\ held' = None
      /\ folder.mark = r /\ r \in Revisions
  BY ChartsCases, ChartsUsed, Zenon DEF IndexKept, IInv, Kept, Passes
<1>2. FolderWhole' /\ OwnIndex(v, flux[hr]) /\ IndexFollows
  BY <1>1, Zenon DEF IndexKept, FolderWhole
<1>3. AgedVersion(v, flux[hr])
  BY DEF Aged, Sources
<1>4. CASE v # None /\ (v.owner # rel \/ v.deleting) /\ w = v /\ used' = used
  <2>1. OwnIndex(store[hr], flux[hr])'
    BY <1>1, <1>4 DEF OwnIndex
  <2> QED
    BY <1>1, <1>2, <1>4, <2>1 DEF IndexKept, IndexFollows
<1>5. CASE v = None /\ w.annotation = r /\ used' = used
  <2>1. w = None \/ w.artifact = None
    BY <1>5, ReconcileChartsStep DEF PassUpdates, Sources, Updates, Fresh
  <2>2. flux'[hr] = None
    BY <1>1, <1>3, <1>5 DEF AgedVersion
  <2>3. OwnIndex(store[hr], flux[hr])'
    BY <1>1, <1>5, <2>1, <2>2 DEF OwnIndex
  <2> QED
    BY <1>1, <1>2, <1>5, <2>3 DEF IndexKept, IndexFollows
<1>6. CASE v # None /\ w.deleting /\ used' = used
  <2>1. OwnIndex(store[hr], flux[hr])'
    BY <1>6 DEF OwnIndex
  <2> QED
    BY <1>1, <1>2, <1>6, <2>1 DEF IndexKept, IndexFollows
<1>7. CASE /\ v # None /\ v.owner = rel /\ ~v.deleting /\ v.annotation = r
           /\ Succeeds(v, w)
  <2>1. ~Replaces(v)
    BY <1>7 DEF Replaces
  <2>2. /\ v.artifact \in {None, r}
        /\ flux[hr] # None => flux[hr].got \in {None, r}
    BY <1>2, <1>7, <2>1 DEF OwnIndex
  <2>3. w.artifact = v.artifact /\ w.annotation = r
    BY <1>7 DEF Succeeds
  <2>4. OwnIndex(store[hr], flux[hr])'
    BY <1>1, <2>2, <2>3 DEF OwnIndex
  <2>5. IndexFollows'
    <3>1. CASE used' = used
      BY <1>2, <3>1 DEF IndexFollows
    <3>2. CASE /\ v.artifact \in Revisions
               /\ used' = [package |-> held.package, revision |-> r,
                           files |-> folder.files, index |-> v.artifact]
      <4>1. v.artifact = r
        BY <2>2, <3>2 DEF SourcesAssumption
      <4> QED
        BY <3>2, <4>1 DEF IndexFollows
    <3> QED
      BY <3>1, <3>2, ChartsUsed
  <2> QED
    BY <1>1, <1>2, <2>4, <2>5 DEF IndexKept
<1> QED
  BY <1>4, <1>5, <1>6, <1>7, ChartsCases, Zenon DEF IndexKept

\* Every step keeps the index of the HelmRepository.
LEMMA IndexStep ==
  ASSUME SourcesAssumption, Undisturbed, IInv, Aged, IndexKept, [Next]_vars
  PROVE  IndexKept'
<1> DEFINE v == store[hr]  w == store'[hr]  f == flux[hr]  g == flux'[hr]
<1>1. CASE Reconcile
  BY <1>1, ReconcileIndex
<1>2. CASE ReconcileCharts
  BY <1>2, ChartsIndex
<1>3. CASE ~Reconcile /\ ~ReconcileCharts
  <2>1. ~Crash
    <3>1. failures = 0 /\ MaxFailures = 0
      BY Zenon DEF IndexKept, Undisturbed
    <3>2. ~(0 < 0)
      OBVIOUS
    <3> QED
      BY <3>1, <3>2, Zenon DEF Crash
  <2>2. failures' = failures /\ folder' = folder /\ held' = held /\ used' = used
    <3>1. CASE \E o \in DOMAIN store : Deliver(o)
      BY <3>1 DEF Deliver
    <3>2. CASE \E o \in Sources : FluxFetch(o) \/ FluxReport(o) \/ FluxFinalize(o)
      BY <3>2 DEF FluxFetch, FluxReport, FluxFinalize
    <3>3. CASE \/ \E p \in Packages : EditRelease(p) \/ \E r \in Revisions : Push(p, r)
               \/ \E o \in Foreign : PutForeign(o)
      BY <3>3, Zenon DEF EditRelease, Push, PutForeign
    <3>4. CASE UNCHANGED vars
      BY <3>4 DEF vars
    <3> QED
      BY <1>3, <2>1, <3>1, <3>2, <3>3, <3>4, Zenon DEF Next
  <2>3. failures' = 0 /\ FolderWhole' /\ IndexFollows' /\ OwnIndex(v, f) /\ FolderWhole
    BY <2>2 DEF IndexKept, FolderWhole, IndexFollows
  <2>4. SourceStep(hr) /\ hr # oci
    BY SourceSteps DEF Sources, SourcesAssumption
  <2>5. CASE w = v /\ g = f
    BY <2>2, <2>3, <2>5, Zenon DEF IndexKept, OwnIndex, Replaces
  <2>6. CASE w = v /\ v # None /\ ReadBy(hr, g)
    <3>1. g.got \in {None, folder.mark}
      BY <2>3, <2>4, <2>6, IndexOfWhole DEF ReadBy
    <3>2. held # None => folder.mark = held.revision
      BY DEF IInv, Kept
    <3>3. OwnIndex(store[hr], flux[hr])'
      BY <2>2, <2>3, <2>6, <3>1, <3>2, Zenon DEF OwnIndex, Replaces
    <3> QED
      BY <2>3, <3>3, Zenon DEF IndexKept
  <2>7. CASE v # None /\ f # None /\ g = None /\ w \in SourceVersions /\ Reports(v, f, w)
    <3>1. OwnIndex(store[hr], flux[hr])'
      BY <2>2, <2>3, <2>7 DEF OwnIndex, Replaces, Reports
    <3> QED
      BY <2>3, <3>1 DEF IndexKept
  <2>8. CASE g = None /\ (w = None \/ w.owner = "user")
    <3>1. OwnIndex(store[hr], flux[hr])'
      BY <2>8 DEF OwnIndex, SourcesAssumption
    <3> QED
      BY <2>3, <3>1 DEF IndexKept
  <2> QED
    BY <1>3, <2>4, <2>5, <2>6, <2>7, <2>8, Zenon DEF SourceStep
<1> QED
  BY <1>1, <1>2, <1>3

\* A pass that goes on has the index of the revision that it uses (handleHelmRepository of
\* release_helmrepository.go replaces the HelmRepository of another revision), for any packages,
\* revisions, changes and lags of the other objects, provided that no call fails, the process
\* does not die and the HelmRepository is read without lag: otherwise a HelmRepository can
\* outlive the folder it served, and be taken again for its revision with an index read between.
THEOREM IndexOwn ==
  ASSUME SourcesAssumption, Undisturbed
  PROVE  Spec => []IndexFollows
<1>1. Init => IInv /\ Aged /\ IndexKept
  <2> SUFFICES ASSUME Init PROVE IInv /\ Aged /\ IndexKept
    OBVIOUS
  <2>1. failures = 0 /\ folder = Gone /\ used = None
    BY DEF Init
  <2>2. FolderWhole
    BY <2>1 DEF FolderWhole, Gone
  <2>3. store[hr] = None
    BY DEF Init, KubeInit, SourcesAssumption
  <2> QED
    BY <2>1, <2>2, <2>3, InitStep, TypesInit DEF IndexKept, OwnIndex, IndexFollows
<1>2. IInv /\ Aged /\ IndexKept /\ [Next]_vars => (IInv /\ Aged /\ IndexKept)'
  BY NextStep, SourceSteps, AgedStep, IndexStep, Zenon DEF Aged
<1>3. IndexKept => IndexFollows
  BY DEF IndexKept
<1> QED
  BY <1>1, <1>2, <1>3, PTL DEF Spec
=============================================================================
