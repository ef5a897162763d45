---------------------------- MODULE ClusterProofs ----------------------------
(***************************************************************************)
(* Proofs about the controllers whose objects need no package, for any     *)
(* objects and any number of edits and failures: the protection of a       *)
(* Release, which is extended here, the Replications, the instance R, and  *)
(* the contracts and the connections, the instance C.                      *)
(***************************************************************************)
EXTENDS Protection, KubeProofs

----------------------------------------------------------------------------
(* The protection of a Release                                             *)

Objects == Versions \cup {None}

Tracks == Follows({rel}, [o \in {rel} |-> Objects])

\* The protection of the status is the one of a spec that a pass has computed.
Known ==
  /\ computed \in Specs \cup {None}
  /\ store[rel] = None => computed = None
  /\ store[rel] # None => /\ store[rel].print # "" <=> computed # None
                          /\ store[rel].print = "-" => ~Shields(computed)

IInv == Tracks /\ Known /\ DeletedKnowingly

USE ProtectionAssumption

\* What the server and the cache hold of the Release.
LEMMA Tracked ==
  ASSUME Tracks
  PROVE  /\ store[rel] \in Objects /\ cache[rel] \in Objects
         /\ feed[rel] = <<>> => cache[rel] = store[rel]
BY DEF Tracks, Follows, FollowsAt

\* A write of the Release is what the server has.
LEMMA OneWrite ==
  ASSUME Tracks, NEW v \in Objects, Write(The(v))
  PROVE  Tracks' /\ store'[rel] = v
<1> DEFINE V == [o \in {rel} |-> Objects]
<1>1. v \in V[rel] /\ rel \in {rel} /\ Follows({rel}, V) /\ Write(Only(rel, v))
  BY DEF Tracks, The
<1> HIDE DEF V
<1>2. Follows({rel}, V)' /\ store'[rel] = v
  BY <1>1, OnlyFollows
<1> QED
  BY <1>2 DEF Tracks, V

\* Nothing changes without a write, and only the cache when a version arrives.
LEMMA NoneOrReceive ==
  ASSUME Tracks
  PROVE  /\ Write(NoWrites) => UNCHANGED <<store, feed, cache>>
         /\ Receive(rel) => Tracks' /\ store' = store
<1> DEFINE V == [o \in {rel} |-> Objects]
<1>1. rel \in {rel} /\ Follows({rel}, V)
  BY DEF Tracks
<1> HIDE DEF V
<1>2. Write(NoWrites) => UNCHANGED <<store, feed, cache>>
  BY <1>1, NoWriteFollows
<1>3. Receive(rel) => Follows({rel}, V)' /\ store' = store
  BY <1>1, ReceiveFollows
<1> QED
  BY <1>2, <1>3 DEF Tracks, V

\* The pass computes what the Release and its package say.
LEMMA ProtectedShields ==
  ASSUME NEW spec \in Specs
  PROVE  Protected(spec) = (IF Shields(spec) THEN "X" ELSE "-")
BY DEF Specs, Settings, Protected, Shields

\* A Release that was created has no protection yet.
LEMMA InitIInv == Init => IInv
<1> SUFFICES ASSUME Init PROVE IInv
  OBVIOUS
<1>1. PICK spec \in Specs : KubeInit(The(Created(spec)))
  BY DEF Init
<1>2. Created(spec) \in Versions /\ Created(spec).print = ""
  BY Zenon DEF Created, Versions
<1>3. store[rel] = Created(spec) /\ cache[rel] = store[rel] /\ feed[rel] = <<>>
  BY <1>1 DEF KubeInit, The, Only
<1>4. Tracks
  <2> DEFINE objects == The(Created(spec))
             V == [o \in {rel} |-> Objects]
  <2>1. /\ DOMAIN objects = {rel} /\ objects = [o \in {rel} |-> objects[o]]
        /\ \A o \in {rel} : objects[o] \in V[o]
    BY <1>2, Zenon DEF The, Only, Objects
  <2> HIDE DEF objects, V
  <2>2. Follows({rel}, V)
    BY <1>1, <2>1, InitFollows DEF objects
  <2> QED
    BY <2>2 DEF Tracks, V
<1>5. Known /\ DeletedKnowingly
  BY <1>2, <1>3, Zenon DEF Init, Known, DeletedKnowingly
<1> QED
  BY <1>4, <1>5 DEF IInv

\* A pass writes the protection of the spec that it has read only over that very spec.
LEMMA ReconcileIInv ==
  ASSUME IInv, NEW fails \in BOOLEAN, Reconcile(fails)
  PROVE  IInv'
<1> DEFINE release == cache[rel]
           update == release # None /\ Computed(release) # release.print
           done == update /\ ~fails /\ Current(rel)
           fresh == [release EXCEPT !.print = Computed(release)]
<1>1. release \in Versions \cup {None}
  BY Tracked DEF IInv, Objects
<1>2. DeletedKnowingly'
  BY DEF IInv, DeletedKnowingly, Reconcile
<1>3. CASE done
  <2>1. release = store[rel] /\ release \in Versions
    BY <1>1, <1>3, Tracked DEF IInv, Current
  <2>2. release.spec \in Specs /\ release.spec.package \in Loads
    BY <1>3, <2>1, Zenon DEF Versions, Computed
  <2>3. Computed(release) = (IF Shields(release.spec) THEN "X" ELSE "-")
    BY <2>2, ProtectedShields DEF Computed
  <2>4. fresh \in Versions /\ fresh.print = Computed(release)
    BY <2>1, <2>3, Zenon DEF Versions
  <2>5. Write(The(fresh)) /\ computed' = release.spec
    BY <1>3, <2>1, <2>2 DEF Reconcile
  <2>6. Tracks' /\ store'[rel] = fresh
    <3> HIDE DEF fresh
    <3> QED
      BY <2>4, <2>5, OneWrite DEF IInv, Objects
  <2>7. Known'
    <3> HIDE DEF fresh, release
    <3>1. computed' \in Specs /\ computed' # None
      BY <2>2, <2>5
    <3>2. store'[rel] # None
      BY <2>4, <2>6
    <3>3. store'[rel].print # ""
      BY <2>3, <2>4, <2>6, Zenon
    <3>4. store'[rel].print = "-" => ~Shields(computed')
      BY <2>3, <2>4, <2>5, <2>6
    <3>5. Shields(computed') <=> Shields(computed)'
      BY DEF Shields
    <3> QED
      BY <3>1, <3>2, <3>3, <3>4, <3>5, Zenon DEF Known
  <2> QED
    BY <1>2, <2>6, <2>7 DEF IInv
<1>4. CASE ~done
  <2>1. Write(NoWrites)
    BY <1>4 DEF Reconcile
  <2>2. UNCHANGED <<store, feed, cache>>
    BY <2>1, NoneOrReceive DEF IInv
  <2>3. CASE computed' = computed
    BY <1>2, <2>2, <2>3, Zenon DEF IInv, Tracks, Follows, FollowsAt, Known, Shields
  <2>4. CASE computed' # computed
    <3>1. /\ release # None /\ release.spec.package \in Loads /\ ~update /\ Current(rel)
          /\ computed' = release.spec
      BY <1>4, <2>4 DEF Reconcile
    <3>2. release = store[rel] /\ release \in Versions
      BY <1>1, <3>1, Tracked DEF IInv, Current
    <3>3. release.spec \in Specs
      BY <3>2, Zenon DEF Versions
    <3>4. release.print = (IF Shields(release.spec) THEN "X" ELSE "-")
      BY <3>1, <3>3, ProtectedShields DEF Computed
    <3>5. Shields(computed)' <=> Shields(release.spec)
      BY <3>1 DEF Shields
    <3>6. Known'
      BY <2>2, <3>1, <3>2, <3>3, <3>4, <3>5 DEF Known
    <3> QED
      BY <1>2, <2>2, <3>6 DEF IInv, Tracks, Follows, FollowsAt
  <2> QED
    BY <2>3, <2>4
<1> QED
  BY <1>3, <1>4

\* A deletion that is admitted finds the protection of a spec that was computed.
LEMMA DeleteIInv ==
  ASSUME IInv, Delete
  PROVE  IInv'
<1>1. Tracks' /\ store'[rel] = None
  BY OneWrite DEF IInv, Delete, Objects
<1>2. Known'
  BY <1>1 DEF Known, Delete
<1>3. DeletedKnowingly'
  <2> DEFINE release == store[rel]
  <2>1. release \in Versions
    BY Tracked DEF IInv, Objects, Delete
  <2>2. release.spec.protected \in Settings /\ release.print \in {"", "-", "X"}
    BY <2>1, Zenon DEF Versions, Specs
  <2>3. deleted' = [spec |-> release.spec, computed |-> computed] /\ Admitted(release)
    BY DEF Delete
  <2>4. deleted'.spec = release.spec /\ deleted'.computed = computed
    BY <2>3
  <2>5. CASE release.spec.protected = "false"
    BY <2>4, <2>5 DEF DeletedKnowingly
  <2>6. CASE release.spec.protected # "false"
    <3>1. release.spec.protected = None /\ release.print = "-"
      BY <2>2, <2>3, <2>6, Zenon DEF Admitted, Settings
    <3>2. computed # None /\ ~Shields(computed)
      BY <3>1 DEF IInv, Known, Delete
    <3>3. ~Shields(deleted.computed)'
      BY <2>4, <3>2 DEF Shields
    <3> QED
      BY <2>4, <3>1, <3>2, <3>3 DEF DeletedKnowingly
  <2> QED
    BY <2>5, <2>6
<1> QED
  BY <1>1, <1>2, <1>3 DEF IInv

\* No step of the controller, the webhook, the user or the cache loses the invariant.
LEMMA NextIInv == IInv /\ [Next]_vars => IInv'
<1> SUFFICES ASSUME IInv, [Next]_vars PROVE IInv'
  OBVIOUS
<1>1. CASE Reconcile(FALSE) \/ Reconcile(TRUE)
  BY <1>1, ReconcileIInv, Zenon
<1>2. CASE Delete
  BY <1>2, DeleteIInv
<1>3. CASE Create
  <2>1. PICK spec \in Specs : Write(The(Created(spec)))
    BY <1>3 DEF Create
  <2>2. Created(spec) \in Versions /\ Created(spec).print = ""
    BY Zenon DEF Created, Versions
  <2>3. Tracks' /\ store'[rel] = Created(spec)
    BY <2>1, <2>2, OneWrite, Zenon DEF IInv, Objects
  <2>4. computed' = None
    BY <1>3 DEF Create, IInv, Known
  <2>5. Known' /\ DeletedKnowingly'
    BY <1>3, <2>2, <2>3, <2>4, Zenon DEF Create, IInv, Known, DeletedKnowingly, Shields
  <2> QED
    BY <2>3, <2>5 DEF IInv
<1>4. CASE EditSpec
  <2>1. PICK spec \in Specs : Write(The([store[rel] EXCEPT !.spec = spec]))
    BY <1>4 DEF EditSpec
  <2>2. store[rel] \in Versions
    BY <1>4, Tracked DEF EditSpec, IInv, Objects
  <2> DEFINE edited == [store[rel] EXCEPT !.spec = spec]
  <2>3. edited \in Versions /\ edited.print = store[rel].print
    BY <2>2, Zenon DEF Versions
  <2>4. Tracks' /\ store'[rel] = edited
    <3> HIDE DEF edited
    <3> QED
      BY <2>1, <2>3, OneWrite DEF IInv, Objects, edited
  <2>5. Known' /\ DeletedKnowingly'
    <3> HIDE DEF edited
    <3> QED
      BY <1>4, <2>2, <2>3, <2>4, Zenon DEF EditSpec, IInv, Known, DeletedKnowingly, Shields
  <2> QED
    BY <2>4, <2>5 DEF IInv
<1>5. CASE Deliver
  BY <1>5, NoneOrReceive, Zenon DEF Deliver, IInv, Known, DeletedKnowingly, Shields
<1>6. CASE UNCHANGED vars
  BY <1>6, Zenon DEF vars, kube, IInv, Tracks, Follows, FollowsAt, Known, DeletedKnowingly, Shields
<1> QED
  BY <1>1, <1>2, <1>3, <1>4, <1>5, <1>6, Zenon DEF Next

\* ValidateDelete (release_webhook.go) admits a deletion only if spec.protected is false, or
\* if it is unset and a pass of this very Release has loaded its package and found no
\* protection: whatever is edited, deleted and created again, and however late the cache is.
THEOREM DeletionKnowing == Spec => []DeletedKnowingly
<1>1. IInv => DeletedKnowingly
  BY DEF IInv
<1> QED
  BY InitIInv, NextIInv, <1>1, PTL DEF Spec

\* The state has its types, and the status has a protection only once a pass has loaded a
\* package (release_controller.go), for every bound.
THEOREM TypeCorrect == Spec => []TypeOK
<1> DEFINE Counts == queued \in BOOLEAN /\ edits \in 0 .. MaxEdits /\ failures \in 0 .. MaxFailures
<1>1. Init => Counts
  BY DEF Init
<1>2. Counts /\ [Next]_vars => Counts'
  <2> SUFFICES ASSUME Counts, [Next]_vars PROVE Counts'
    OBVIOUS
  <2>1. CASE Reconcile(FALSE)
    BY <2>1 DEF Reconcile
  <2>2. CASE failures < MaxFailures /\ Reconcile(TRUE)
    <3>1. queued' \in BOOLEAN /\ edits' = edits /\ failures' = failures + 1
      BY <2>2 DEF Reconcile
    <3> QED
      BY <2>2, <3>1
  <2>3. CASE Delete \/ Create \/ EditSpec
    <3>1. edits < MaxEdits /\ edits' = edits + 1 /\ queued' = queued /\ failures' = failures
      BY <2>3 DEF Delete, Create, EditSpec, Edit
    <3> QED
      BY <3>1
  <2>4. CASE Deliver
    BY <2>4 DEF Deliver
  <2>5. CASE UNCHANGED vars
    BY <2>5 DEF vars
  <2> QED
    BY <2>1, <2>2, <2>3, <2>4, <2>5, Zenon DEF Next
<1>3. IInv /\ Counts => TypeOK
  BY Tracked, Zenon DEF IInv, Known, Objects, TypeOK
<1> HIDE DEF Counts
<1> QED
  BY InitIInv, NextIInv, <1>1, <1>2, <1>3, PTL DEF Spec

\* ProtectionFollows, on the one object there is.
Follow ==
  ~queued /\ feed[rel] = <<>> /\ store[rel] # None /\ store[rel].spec.package \in Loads
    => store[rel].print = (IF Shields(store[rel].spec) THEN "X" ELSE "-")

\* A step that keeps the request and the versions on their way has changed no version.
LEMMA WrittenFollow ==
  ASSUME Tracks, Follow, NEW v \in Objects, Write(The(v)), queued' = queued
  PROVE  Follow'
<1> DEFINE V == [o \in {rel} |-> Objects]
<1>1. v \in V[rel] /\ rel \in {rel} /\ Follows({rel}, V) /\ Write(Only(rel, v))
  BY DEF Tracks, The
<1> HIDE DEF V
<1>2. feed'[rel] = <<>> => feed[rel] = <<>> /\ store'[rel] = store[rel]
  BY <1>1, OnlyFollows
<1> QED
  BY <1>2 DEF Follow, Shields

\* A pass that leaves no request has found the protection as it is, or has written it.
LEMMA ReconcileFollow ==
  ASSUME IInv, NEW fails \in BOOLEAN, Reconcile(fails)
  PROVE  Follow'
<1> DEFINE release == cache[rel]
           update == release # None /\ Computed(release) # release.print
           done == update /\ ~fails /\ Current(rel)
           fresh == [release EXCEPT !.print = Computed(release)]
<1>1. release \in Versions \cup {None}
  BY Tracked DEF IInv, Objects
<1>2. CASE done
  <2>1. release = store[rel] /\ release \in Versions
    BY <1>1, <1>2, Tracked DEF IInv, Current
  <2>2. release.spec \in Specs /\ release.spec.package \in Loads
    BY <1>2, <2>1, Zenon DEF Versions, Computed
  <2>3. Computed(release) \in {"X", "-"}
    BY <2>2, ProtectedShields DEF Computed
  <2>4. fresh \in Versions /\ fresh # store[rel]
    BY <1>2, <2>1, <2>3, Zenon DEF Versions
  <2>5. Write(The(fresh))
    BY <1>2 DEF Reconcile
  <2>6. feed'[rel] # <<>>
    <3> DEFINE V == [o \in {rel} |-> Objects]
    <3>1. fresh \in V[rel] /\ rel \in {rel} /\ Follows({rel}, V) /\ Write(Only(rel, fresh))
      BY <2>4, <2>5 DEF IInv, Tracks, The, Objects
    <3> HIDE DEF V, fresh
    <3>2. /\ feed'[rel] = <<>> => feed[rel] = <<>> /\ store'[rel] = store[rel]
          /\ store'[rel] = fresh
      BY <3>1, OnlyFollows
    <3> QED
      BY <2>4, <3>2
  <2> QED
    BY <2>6 DEF Follow
<1>3. CASE ~done
  <2>1. UNCHANGED <<store, feed, cache>> /\ queued' = update
    BY <1>3, NoneOrReceive DEF IInv, Reconcile
  <2> SUFFICES ASSUME ~update, feed[rel] = <<>>, store[rel] # None,
                      store[rel].spec.package \in Loads
               PROVE  store[rel].print = (IF Shields(store[rel].spec) THEN "X" ELSE "-")
    BY <2>1, Zenon DEF Follow, Shields
  <2>2. release = store[rel] /\ release \in Versions
    BY <1>1, Tracked DEF IInv
  <2>3. release.spec \in Specs /\ Computed(release) = release.print
    BY <2>2, Zenon DEF Versions
  <2> QED
    BY <2>2, <2>3, ProtectedShields DEF Computed
<1> QED
  BY <1>2, <1>3

\* When nothing is on its way, status.printProtected is what the Release and its package say
\* (release_controller.go), if the package loads: whatever is edited, deleted and created again
\* while passes fail or read an older version.
THEOREM ProtectionCurrent == Spec => []ProtectionFollows
<1>1. Init => Follow
  BY DEF Init, Follow
<1>2. IInv /\ Follow /\ [Next]_vars => Follow'
  <2> SUFFICES ASSUME IInv, Follow, [Next]_vars PROVE Follow'
    OBVIOUS
  <2>0. Tracks
    BY DEF IInv
  <2>1. CASE Reconcile(FALSE) \/ Reconcile(TRUE)
    BY <2>1, ReconcileFollow, Zenon
  <2>2. CASE Delete
    BY <2>0, <2>2, WrittenFollow DEF Delete, Objects
  <2>3. CASE Create
    <3>1. PICK spec \in Specs : Write(The(Created(spec)))
      BY <2>3 DEF Create
    <3>2. Created(spec) \in Objects
      BY Zenon DEF Created, Versions, Objects
    <3> QED
      BY <2>0, <2>3, <3>1, <3>2, WrittenFollow DEF Create
  <2>4. CASE EditSpec
    <3>1. PICK spec \in Specs : Write(The([store[rel] EXCEPT !.spec = spec]))
      BY <2>4 DEF EditSpec
    <3> DEFINE edited == [store[rel] EXCEPT !.spec = spec]
    <3>2. store[rel] \in Versions
      BY <2>0, <2>4, Tracked DEF EditSpec, Objects
    <3>3. edited \in Objects
      BY <3>2, Zenon DEF Versions, Objects
    <3>4. Write(The(edited)) /\ queued' = queued
      BY <2>4, <3>1 DEF EditSpec
    <3> HIDE DEF edited
    <3> QED
      BY <2>0, <3>3, <3>4, WrittenFollow
  <2>5. CASE Deliver
    BY <2>5 DEF Deliver, Follow
  <2>6. CASE UNCHANGED vars
    BY <2>6 DEF vars, kube, Follow, Shields
  <2> QED
    BY <2>1, <2>2, <2>3, <2>4, <2>5, <2>6, Zenon DEF Next
<1>3. IInv /\ Follow => ProtectionFollows
  BY DEF IInv, Tracks, Follows, Follow, ProtectionFollows, CaughtUp, Current
<1> QED
  BY InitIInv, NextIInv, <1>1, <1>2, <1>3, PTL DEF Spec

----------------------------------------------------------------------------
(* The Replications                                                        *)

CONSTANTS Replications, Resources, Data, TypeOf, CopySpecs, Initial, Lagging, MaxCreations, MaxMoves
VARIABLES queue, timers, creations, moves

HIDE ProtectionAssumption

R == INSTANCE Replication WITH Specs <- CopySpecs

\* The steps of the server and of the cache are those of Kube.
LEMMA SameKube ==
  /\ \A w : R!Write(w) <=> Write(w)
  /\ \A o : R!Receive(o) <=> Receive(o)
  /\ \A objects : R!KubeInit(objects) <=> KubeInit(objects)
  /\ R!Relist <=> Relist
BY DEF R!Write, Write, R!Receive, Receive, R!KubeInit, KubeInit, R!Relist, Relist

\* So are the writes.
LEMMA SameWrites ==
  /\ \A o, v : R!Only(o, v) = Only(o, v)
  /\ \A c, w : R!When(c, w) = When(c, w)
  /\ \A w, z : R!Joined(w, z) = Joined(w, z)
BY DEF R!Only, Only, R!When, When, R!Joined, Joined, R!NoWrites, NoWrites

ReplicationAssumption == R!SpecsAssumption /\ R!NoneAssumption /\ R!BoundsAssumption

\* The versions of each object.
Kinds ==
  [o \in Replications \cup Resources |->
     IF o \in Replications THEN R!ReplicationObjects \cup {None} ELSE R!ResourceObjects \cup {None}]

MirrorTracks == Follows(Replications \cup Resources, Kinds)

Requests == queue \subseteq Replications /\ timers \subseteq Replications

\* What the cache has of r and of its resources leaves a pass nothing to do.
Done(r) ==
  LET v == cache[r] IN
  v # None =>
    /\ ~v.deleting /\ v.finalizer
    /\ IF R!Verdict(v, r) = "synced" THEN v.phase = "READY" /\ v.destination = v.spec.dest
       ELSE v.phase = "ERROR" /\ R!Verdict(v, r) \notin {"missing", "outdated"}
    /\ v.destination \in IF R!Verdict(v, r) = "sourceless" THEN {None} ELSE {None, v.spec.dest}

\* A version is on its way of r, or of a resource that its cached spec names.
Awaits(r) ==
  feed[r] # <<>> \/ \E x \in Resources : x \in R!ResourceKeys(cache[r]) /\ feed[x] # <<>>

\* No Replication is forgotten.
Attended == \A r \in Replications : r \in queue \/ Awaits(r) \/ Done(r)

\* What the server and the cache hold.
LEMMA MirrorTracked ==
  ASSUME ReplicationAssumption, MirrorTracks
  PROVE  /\ \A r \in Replications : store[r] \in R!ReplicationObjects \cup {None}
                                    /\ cache[r] \in R!ReplicationObjects \cup {None}
         /\ \A x \in Resources : store[x] \in R!ResourceObjects \cup {None}
                                 /\ cache[x] \in R!ResourceObjects \cup {None}
         /\ \A o \in Replications \cup Resources : feed[o] = <<>> => cache[o] = store[o]
         /\ DOMAIN store = Replications \cup Resources
         /\ DOMAIN feed = Replications \cup Resources
BY Zenon DEF MirrorTracks, Follows, FollowsAt, Kinds, ReplicationAssumption, R!NoneAssumption

\* The writes of a pass are versions of the objects they name.
MirrorVersions(writes) ==
  \A o \in Replications \cup Resources : o \in DOMAIN writes => writes[o] \in Kinds[o]

\* Where the cache stays, and every version on its way, no Replication is forgotten.
LEMMA SameCache ==
  ASSUME cache' = cache,
         \A o \in Replications \cup Resources : feed'[o] = <<>> => feed[o] = <<>>
  PROVE  \A r \in Replications : (Awaits(r) => Awaits(r)') /\ (Done(r) => Done(r)')
<1> SUFFICES ASSUME NEW r \in Replications
             PROVE  (Awaits(r) => Awaits(r)') /\ (Done(r) => Done(r)')
  OBVIOUS
<1>1. R!ResourceKeys(cache[r])' = R!ResourceKeys(cache[r])
  BY DEF R!ResourceKeys
<1>2. R!Verdict(cache[r], r)' = R!Verdict(cache[r], r)
  BY DEF R!Verdict, R!CheckDestinationOwnership, R!Copied
<1>3. Awaits(r) => Awaits(r)'
  BY <1>1 DEF Awaits
<1>4. Done(r) => Done(r)'
  BY <1>2 DEF Done
<1> QED
  BY <1>3, <1>4

\* A write keeps the cache and every version on its way, and the requests of the others.
LEMMA WriteAttended ==
  ASSUME MirrorTracks, NEW writes, MirrorVersions(writes), R!Write(writes)
  PROVE  /\ MirrorTracks' /\ cache' = cache
         /\ \A o \in Replications \cup Resources :
              /\ store'[o] = IF o \in DOMAIN writes THEN writes[o] ELSE store[o]
              /\ feed'[o] = <<>> => feed[o] = <<>> /\ store'[o] = store[o]
         /\ \A r \in Replications : /\ Awaits(r) => Awaits(r)'
                                    /\ Done(r) => Done(r)'
<1> DEFINE Objs == Replications \cup Resources
<1>1. /\ MirrorTracks' /\ cache' = cache
      /\ \A o \in Objs :
           /\ store'[o] = IF o \in DOMAIN writes THEN writes[o] ELSE store[o]
           /\ feed'[o] = <<>> => feed[o] = <<>> /\ store'[o] = store[o]
  <2> DEFINE V == Kinds
  <2>1. /\ Follows(Objs, V) /\ Write(writes)
        /\ \A o \in Objs : o \in DOMAIN writes => writes[o] \in V[o]
    BY SameKube DEF MirrorTracks, MirrorVersions
  <2>2. V' = V
    BY DEF Kinds, R!ReplicationObjects, R!ResourceObjects, R!Phases
  <2> HIDE DEF V, Objs
  <2>3. /\ Follows(Objs, V)' /\ cache' = cache
        /\ \A o \in Objs :
             /\ store'[o] = IF o \in DOMAIN writes THEN writes[o] ELSE store[o]
             /\ feed'[o] = IF store'[o] # store[o] THEN Append(feed[o], store'[o]) ELSE feed[o]
             /\ feed'[o] = <<>> => feed[o] = <<>> /\ store'[o] = store[o]
    BY <2>1, WriteFollows
  <2> QED
    BY <2>2, <2>3 DEF MirrorTracks, V, Objs
<1>2. ASSUME NEW r \in Replications PROVE (Awaits(r) => Awaits(r)') /\ (Done(r) => Done(r)')
  BY <1>1, SameCache
<1> QED
  BY <1>1, <1>2

\* A step that writes and keeps the requests forgets no Replication.
LEMMA WriteOnly ==
  ASSUME MirrorTracks, Attended, NEW writes, MirrorVersions(writes), R!Write(writes),
         queue \subseteq queue'
  PROVE  MirrorTracks' /\ Attended'
BY WriteAttended DEF Attended

\* The write of one object.
LEMMA MirrorWrite ==
  ASSUME NEW o \in Replications \cup Resources, NEW v \in Kinds[o]
  PROVE  MirrorVersions(R!Only(o, v))
BY DEF MirrorVersions, R!Only

\* The copy of a source has the type of the destinations.
LEMMA CopiedType ==
  ASSUME ReplicationAssumption, MirrorTracks, NEW r \in Replications,
         NEW v \in R!ReplicationObjects,
         R!Verdict(v, r) \in {"missing", "outdated", "synced"}
  PROVE  /\ v.spec.source \in Resources /\ v.spec.dest \in Resources
         /\ R!Copied(v, r) \in R!ResourceObjects
<1>1. v.spec.source \in Resources \cup {None} /\ v.spec.dest \in Resources
  BY DEF R!ReplicationObjects, ReplicationAssumption, R!SpecsAssumption
<1>2. v.spec.source # None /\ cache[v.spec.source] # None
  BY DEF R!Verdict
<1>3. cache[v.spec.source] \in R!ResourceObjects
  BY <1>1, <1>2, MirrorTracked
<1> QED
  BY <1>1, <1>2, <1>3 DEF R!Copied, R!ResourceObjects

\* A pass that copies, and records what it did in the status, has nothing left to do for r, or
\* a version of its own on its way.
LEMMA ReplicateStep ==
  ASSUME ReplicationAssumption, MirrorTracks, Attended, NEW r \in Replications, NEW fails,
         r \in queue, R!Replicate(r, fails)
  PROVE  MirrorTracks' /\ Attended'
<1> DEFINE v == cache[r]
           x == v.spec.dest
           verdict == R!Verdict(v, r)
           doomed == R!Doomed(v, r)
           deletes == doomed # None /\ R!IsReplicatedBy(doomed, r)
           stops == deletes /\ fails = "delete"
           copies == /\ verdict \in {"missing", "outdated"}
                     /\ ~stops /\ fails # "copy" /\ R!Accepts(x)
           error == IF copies \/ (verdict = "synced" /\ ~stops) THEN ""
                    ELSE IF stops \/ verdict \in {"missing", "outdated"} THEN "retry"
                    ELSE "permanent"
           destination == IF stops THEN v.destination ELSE R!Recorded(v, verdict, error, doomed)
           phase == IF error = "" THEN "READY" ELSE "ERROR"
           changes == destination # v.destination \/ phase # v.phase
           patches == changes /\ store[r] # None /\ fails # "status"
           patch == R!StatusPatch(r, v, destination, phase)
           copy == R!Copied(v, r)
           writes == R!Joined(R!When(deletes /\ ~stops, R!Only(doomed, None)),
                       R!Joined(R!When(copies, R!Only(x, copy)), R!When(patches, R!Only(r, patch))))
<1>1. v \in R!ReplicationObjects /\ v # None /\ ~v.deleting /\ v.finalizer
  BY MirrorTracked, Zenon DEF R!Replicate
<1>2. v.destination \in Resources \cup {None} /\ x \in Resources /\ r \notin Resources
  BY <1>1 DEF R!ReplicationObjects, ReplicationAssumption, R!SpecsAssumption, R!NoneAssumption
<1>3. doomed \in Resources \cup {None} /\ (copies => doomed # x)
  BY <1>1, <1>2 DEF R!Doomed, ReplicationAssumption, R!NoneAssumption
<1>4. copies => copy \in R!ResourceObjects
  BY <1>1, CopiedType
<1>5. patches => patch \in R!ReplicationObjects
  <2>1. destination \in Resources \cup {None} /\ phase \in R!Phases
    BY <1>2 DEF R!Recorded, R!Phases
  <2>2. patches => store[r] \in R!ReplicationObjects
    BY MirrorTracked, Zenon
  <2> HIDE DEF destination, phase, patches, v
  <2> QED
    BY <2>1, <2>2, Zenon DEF R!StatusPatch, R!ReplicationObjects
<1>6. /\ R!Write(writes)
      /\ queue' = IF error = "retry" \/ (changes /\ ~patches) THEN queue ELSE queue \ {r}
  BY Zenon DEF R!Replicate
<1> HIDE DEF copies, patches, patch, copy, deletes, stops, doomed, v, x, changes
<1>7. /\ \A o : o \in DOMAIN writes <=>
              (o = doomed /\ (deletes /\ ~stops)) \/ (o = x /\ copies) \/ (o = r /\ patches)
      /\ patches => writes[r] = patch
      /\ copies => writes[x] = copy
      /\ deletes /\ ~stops => writes[doomed] = None
  <2> DEFINE removes == deletes /\ ~stops
  <2>1. (removes => doomed # r) /\ x # r /\ (copies => doomed # x)
    BY <1>2, <1>3 DEF deletes
  <2>2. writes = Joined(When(removes, Only(doomed, None)),
                   Joined(When(copies, Only(x, copy)), When(patches, Only(r, patch))))
    BY SameWrites, Zenon
  <2> HIDE DEF writes, removes
  <2>3. /\ \A o : o \in DOMAIN writes <=>
               (o = doomed /\ removes) \/ (o = x /\ copies) \/ (o = r /\ patches)
        /\ patches => writes[r] = patch
        /\ copies => writes[x] = copy
        /\ removes => writes[doomed] = None
    BY <2>1, <2>2, ThreeWrites
  <2> QED
    BY <2>3 DEF removes
<1>8. MirrorVersions(writes)
  <2> HIDE DEF writes
  <2> SUFFICES ASSUME NEW o \in Replications \cup Resources, o \in DOMAIN writes
               PROVE  writes[o] \in Kinds[o]
    BY Zenon DEF MirrorVersions
  <2>1. CASE o = doomed /\ deletes /\ ~stops
    BY <1>7, <2>1 DEF Kinds
  <2>2. CASE o = x /\ copies
    BY <1>2, <1>4, <1>7, <2>2 DEF Kinds, ReplicationAssumption, R!NoneAssumption
  <2>3. CASE o = r /\ patches
    BY <1>5, <1>7, <2>3 DEF Kinds
  <2> QED
    BY <1>7, <2>1, <2>2, <2>3, Zenon
<1> HIDE DEF writes
<1>9. /\ MirrorTracks' /\ cache' = cache
      /\ \A o \in Replications \cup Resources :
           /\ store'[o] = IF o \in DOMAIN writes THEN writes[o] ELSE store[o]
           /\ feed'[o] = <<>> => feed[o] = <<>> /\ store'[o] = store[o]
      /\ \A q \in Replications : (Awaits(q) => Awaits(q)') /\ (Done(q) => Done(q)')
  BY <1>6, <1>8, WriteAttended
<1>10. ASSUME NEW q \in Replications, q # r
       PROVE  q \in queue' \/ Awaits(q)' \/ Done(q)'
  BY <1>6, <1>9, <1>10 DEF Attended
<1>11. r \in queue' \/ Awaits(r)' \/ Done(r)'
  <2> SUFFICES ASSUME r \notin queue' PROVE Awaits(r)' \/ Done(r)'
    OBVIOUS
  <2>1. error # "retry" /\ (changes => patches)
    BY <1>6
  <2>2. CASE changes
    <3>1. store'[r] = patch
      BY <1>7, <1>9, <2>1, <2>2
    <3>2. store[r] \in R!ReplicationObjects
      BY <2>1, <2>2, MirrorTracked DEF patches
    <3>3. patch # v
      <4> HIDE DEF destination, phase
      <4>1. patch.destination # v.destination \/ patch.phase # v.phase
        BY <2>2, <3>2 DEF patch, changes, R!StatusPatch, R!ReplicationObjects
      <4> QED
        BY <4>1
    <3>4. feed'[r] # <<>>
      BY <1>9, <3>1, <3>3, MirrorTracked DEF v
    <3> QED
      BY <3>4 DEF Awaits
  <2>3. CASE ~changes /\ copies
    <3>1. store'[x] = copy
      BY <1>2, <1>7, <1>9, <2>3
    <3>2. store[x] # copy
      <4>1. CASE cache[x] = None
        BY <1>4, <2>3, <4>1 DEF copies, R!Accepts, ReplicationAssumption, R!NoneAssumption
      <4>2. CASE cache[x] # None
        <5>1. cache[x] = store[x]
          BY <1>2, <2>3, <4>2, MirrorTracked DEF copies, R!Accepts, R!Current
        <5>2. cache[x] # copy
          BY <2>3, <4>2 DEF copies, R!Verdict, copy, x
        <5> QED
          BY <5>1, <5>2
      <4> QED
        BY <4>1, <4>2
    <3>3. feed'[x] # <<>> /\ x \in R!ResourceKeys(cache'[r])
      BY <1>1, <1>2, <1>9, <3>1, <3>2 DEF R!ResourceKeys, v, x
    <3>4. R!ResourceKeys(cache'[r]) = R!ResourceKeys(cache[r])'
      BY DEF R!ResourceKeys
    <3> QED
      BY <1>2, <3>3, <3>4 DEF Awaits
  <2>4. CASE ~changes /\ ~copies
    <3>1. ~stops /\ verdict \notin {"missing", "outdated"}
      BY <2>1, <2>4
    <3>2. destination = v.destination /\ phase = v.phase
      BY <2>4, Zenon DEF changes
    <3>3. verdict = "synced" => v.phase = "READY" /\ v.destination = v.spec.dest
      BY <3>1, <3>2 DEF R!Recorded, x
    <3>4. verdict # "synced" => v.phase = "ERROR"
      BY <2>4, <3>1, <3>2, Zenon
    <3>5. v.destination \in IF verdict = "sourceless" THEN {None} ELSE {None, v.spec.dest}
      <4> SUFFICES ASSUME verdict # "synced", verdict = "sourceless" \/ v.destination # v.spec.dest
                   PROVE  v.destination = None
        BY <3>3
      <4>1. doomed = v.destination
        BY DEF R!Doomed, doomed
      <4>2. error = "permanent"
        BY <2>4, <3>1
      <4>3. destination = IF doomed # None THEN None ELSE v.destination
        BY <3>1, <4>2 DEF R!Recorded
      <4> QED
        BY <3>2, <4>1, <4>3, Zenon
    <3>6. Done(r)
      BY <1>1, <3>1, <3>3, <3>4, <3>5 DEF Done, v
    <3> QED
      BY <1>9, <3>6
  <2> QED
    BY <2>2, <2>3, <2>4
<1> QED
  BY <1>9, <1>10, <1>11 DEF Attended

\* The Update that adds the finalizer is on its way, or the request stays.
LEMMA AddFinalizerStep ==
  ASSUME ReplicationAssumption, MirrorTracks, Attended, NEW r \in Replications, NEW fails,
         R!AddFinalizer(r, fails)
  PROVE  MirrorTracks' /\ Attended'
<1> DEFINE v == [cache[r] EXCEPT !.finalizer = TRUE]
<1>1. cache[r] \in R!ReplicationObjects /\ ~cache[r].finalizer
  BY MirrorTracked DEF R!AddFinalizer
<1>2. v \in R!ReplicationObjects /\ v # cache[r]
  BY <1>1, Zenon DEF R!ReplicationObjects
<1> DEFINE writes == R!When(R!Updated(r, fails), R!Only(r, v))
<1>3. R!Write(writes) /\ queue' = IF R!Updated(r, fails) THEN queue \ {r} ELSE queue
  BY DEF R!AddFinalizer
<1> HIDE DEF v
<1>4. MirrorVersions(writes)
  BY <1>2 DEF MirrorVersions, Kinds, R!When, R!Only, R!NoWrites
<1> HIDE DEF writes
<1>5. /\ MirrorTracks'
      /\ store'[r] = IF r \in DOMAIN writes THEN writes[r] ELSE store[r]
      /\ feed'[r] = <<>> => feed[r] = <<>> /\ store'[r] = store[r]
      /\ \A q \in Replications : (Awaits(q) => Awaits(q)') /\ (Done(q) => Done(q)')
  BY <1>3, <1>4, WriteAttended
<1>6. R!Updated(r, fails) => feed'[r] # <<>>
  <2> SUFFICES ASSUME R!Updated(r, fails) PROVE feed'[r] # <<>>
    OBVIOUS
  <2>1. DOMAIN writes = {r} /\ writes[r] = v
    BY DEF writes, R!When, R!Only
  <2>2. cache[r] = store[r]
    BY MirrorTracked DEF R!Updated, R!Current
  <2> QED
    BY <1>2, <1>5, <2>1, <2>2
<1> QED
  BY <1>3, <1>5, <1>6 DEF Attended, Awaits

\* A Replication without its finalizer is on its way out of the cache.
LEMMA FinalizeStep ==
  ASSUME ReplicationAssumption, MirrorTracks, Attended, NEW r \in Replications, NEW fails,
         R!Finalize(r, fails)
  PROVE  MirrorTracks' /\ Attended'
<1> DEFINE v == cache[r]
           deletes == v.destination # None /\ R!IsReplicatedBy(v.destination, r)
           stops == deletes /\ fails = "delete"
           updates == ~stops /\ fails # "update" /\ R!Current(r)
           writes == R!Joined(R!When(deletes /\ ~stops, R!Only(v.destination, None)),
                            R!When(updates, R!Only(r, None)))
<1>1. v # None
  BY DEF R!Finalize
<1>2. R!Write(writes) /\ queue' = (IF updates THEN queue \ {r} ELSE queue)
  BY DEF R!Finalize
<1> HIDE DEF v, deletes, stops, updates
<1>3. (\A o \in DOMAIN writes : writes[o] = None) /\ (updates => r \in DOMAIN writes)
  BY DEF R!Joined, R!When, R!Only, R!NoWrites
<1>4. MirrorVersions(writes)
  <2> HIDE DEF writes
  <2> QED
    BY <1>3 DEF MirrorVersions, Kinds
<1> HIDE DEF writes
<1>5. /\ MirrorTracks'
      /\ store'[r] = IF r \in DOMAIN writes THEN writes[r] ELSE store[r]
      /\ feed'[r] = <<>> => feed[r] = <<>> /\ store'[r] = store[r]
      /\ \A q \in Replications : (Awaits(q) => Awaits(q)') /\ (Done(q) => Done(q)')
  BY <1>2, <1>4, WriteAttended
<1>6. updates => feed'[r] # <<>>
  BY <1>1, <1>3, <1>5, MirrorTracked DEF updates, R!Current, v
<1> QED
  BY <1>2, <1>5, <1>6 DEF Attended, Awaits

\* A pass forgets no Replication.
LEMMA ReconcileStep ==
  ASSUME ReplicationAssumption, MirrorTracks, Attended, NEW r \in Replications, R!Reconcile(r)
  PROVE  MirrorTracks' /\ Attended'
<1>1. PICK fails : \/ R!Replicate(r, fails) \/ R!AddFinalizer(r, fails) \/ R!Finalize(r, fails)
                   \/ R!Skip(r)
  BY DEF R!Reconcile
<1>2. CASE R!Skip(r)
  <2>1. Done(r) /\ UNCHANGED R!kube /\ queue' = queue \ {r}
    BY <1>2 DEF R!Skip, Done
  <2>2. UNCHANGED <<store, feed, cache>>
    BY <2>1 DEF R!kube
  <2>3. \A q \in Replications : (Awaits(q) => Awaits(q)') /\ (Done(q) => Done(q)')
    BY <2>2, SameCache
  <2>4. MirrorTracks'
    BY <2>2, Zenon DEF MirrorTracks, Follows, FollowsAt, Kinds, R!ReplicationObjects,
                       R!ResourceObjects, R!Phases
  <2> QED
    BY <2>1, <2>3, <2>4 DEF Attended
<1> QED
  BY <1>1, <1>2, ReplicateStep, AddFinalizerStep, FinalizeStep DEF R!Reconcile

\* The version that arrives brings a request of every Replication that reads the object.
LEMMA DeliverStep ==
  ASSUME ReplicationAssumption, MirrorTracks, Attended, NEW o \in Replications \cup Resources,
         R!Deliver(o)
  PROVE  MirrorTracks' /\ Attended'
<1> DEFINE Objs == Replications \cup Resources
<1>1. /\ MirrorTracks' /\ \A p \in Objs \ {o} : cache'[p] = cache[p] /\ feed'[p] = feed[p]
  <2> DEFINE V == Kinds
  <2>1. Follows(Objs, V) /\ o \in Objs /\ Receive(o)
    BY SameKube DEF MirrorTracks, R!Deliver
  <2>2. V' = V
    BY DEF Kinds, R!ReplicationObjects, R!ResourceObjects, R!Phases
  <2> HIDE DEF V, Objs
  <2>3. Follows(Objs, V)' /\ \A p \in Objs \ {o} : cache'[p] = cache[p] /\ feed'[p] = feed[p]
    BY <2>1, ReceiveFollows
  <2> QED
    BY <2>2, <2>3 DEF MirrorTracks, V, Objs
<1>2. queue' = queue \cup (IF o \in Replications THEN {o} ELSE R!FindReplicationFromResource(o))
  BY DEF R!Deliver
<1>3. ASSUME NEW r \in Replications, r \notin queue' PROVE Awaits(r)' \/ Done(r)'
  <2>1. r # o /\ cache'[r] = cache[r] /\ feed'[r] = feed[r] /\ (Awaits(r) \/ Done(r))
    BY <1>1, <1>2, <1>3 DEF Attended, R!FindReplicationFromResource, ReplicationAssumption,
                            R!NoneAssumption
  <2>2. o \in Resources => o \notin R!ResourceKeys(cache[r])
    BY <1>2, <1>3 DEF R!FindReplicationFromResource, ReplicationAssumption, R!NoneAssumption
  <2>3. \A x \in Resources : x \in R!ResourceKeys(cache[r]) =>
          cache'[x] = cache[x] /\ feed'[x] = feed[x]
    <3>1. o \in Replications => o \notin Resources
      BY DEF ReplicationAssumption, R!NoneAssumption
    <3> QED
      BY <1>1, <2>2, <3>1
  <2>4. Awaits(r) => Awaits(r)'
    BY <2>1, <2>3 DEF Awaits, R!ResourceKeys
  <2>5. ASSUME Done(r), cache[r] # None PROVE Done(r)'
    <3>1. cache[r] \in R!ReplicationObjects
      BY <2>5, MirrorTracked
    <3> DEFINE s == cache[r].spec.source
               x == cache[r].spec.dest
    <3>2. s \in Resources \cup {None} /\ x \in Resources
      BY <3>1 DEF R!ReplicationObjects, ReplicationAssumption, R!SpecsAssumption
    <3>3. cache'[x] = cache[x] /\ (s # None => cache'[s] = cache[s])
      BY <2>3, <2>5, <3>2 DEF R!ResourceKeys
    <3>4. R!Verdict(cache[r], r)' = R!Verdict(cache[r], r)
      <4>1. CASE s = None
        BY <2>1, <4>1 DEF R!Verdict
      <4>2. CASE s # None
        BY <2>1, <3>3, <4>2, Zenon DEF R!Verdict, R!CheckDestinationOwnership, R!Copied
      <4> QED
        BY <4>1, <4>2
    <3> QED
      BY <2>1, <2>5, <3>4 DEF Done
  <2>6. ASSUME Done(r), cache[r] = None PROVE Done(r)'
    BY <2>1, <2>6 DEF Done
  <2> QED
    BY <2>1, <2>4, <2>5, <2>6
<1> QED
  BY <1>1, <1>3 DEF Attended

\* A manager that starts has a request of every Replication.
LEMMA CrashStep ==
  ASSUME ReplicationAssumption, MirrorTracks, R!Crash
  PROVE  MirrorTracks' /\ Attended'
<1> DEFINE Objs == Replications \cup Resources
<1>1. MirrorTracks' /\ \A o \in Objs : cache'[o] = store[o]
  <2> DEFINE V == Kinds
  <2>1. Follows(Objs, V) /\ Relist
    BY SameKube DEF MirrorTracks, R!Crash
  <2>2. V' = V
    BY DEF Kinds, R!ReplicationObjects, R!ResourceObjects, R!Phases
  <2> HIDE DEF V, Objs
  <2>3. Follows(Objs, V)' /\ \A o \in Objs : cache'[o] = store[o]
    BY <2>1, RelistFollows
  <2> QED
    BY <2>2, <2>3 DEF MirrorTracks, V, Objs
<1>2. \A r \in Replications : r \in queue' \/ Done(r)'
  BY <1>1 DEF R!Crash, Done
<1> QED
  BY <1>1, <1>2 DEF Attended

\* What a user writes of a Replication or of a resource is a version of it.
LEMMA UserStep ==
  ASSUME ReplicationAssumption, MirrorTracks, Attended,
         \/ \E r \in Replications : R!DeleteReplication(r)
         \/ \E r \in Replications, s \in CopySpecs : R!CreateReplication(r, s) \/ R!MoveReplication(r, s)
         \/ \E x \in Resources, d \in Data \cup {None} : R!EditResource(x, d)
  PROVE  MirrorTracks' /\ Attended'
<1>1. queue' = queue
  BY Zenon DEF R!DeleteReplication, R!CreateReplication, R!MoveReplication, R!EditResource,
               R!control
<1>2. ASSUME NEW o \in Replications \cup Resources, NEW v \in Kinds[o], R!Write(R!Only(o, v))
      PROVE  MirrorTracks' /\ Attended'
  BY <1>1, <1>2, MirrorWrite, WriteOnly
<1>3. \A r \in Replications : /\ r \in Replications \cup Resources
                              /\ Kinds[r] = R!ReplicationObjects \cup {None}
  BY DEF Kinds
<1>4. \A x \in Resources : /\ x \in Replications \cup Resources
                           /\ Kinds[x] = R!ResourceObjects \cup {None}
  BY DEF Kinds, ReplicationAssumption, R!NoneAssumption
<1>5. ASSUME NEW r \in Replications, R!DeleteReplication(r) PROVE MirrorTracks' /\ Attended'
  <2> DEFINE v == IF store[r].finalizer THEN [store[r] EXCEPT !.deleting = TRUE] ELSE None
  <2>1. store[r] \in R!ReplicationObjects
    BY <1>5, MirrorTracked DEF R!DeleteReplication
  <2>2. v \in Kinds[r] /\ R!Write(R!Only(r, v))
    BY <1>3, <1>5, <2>1, Zenon DEF R!DeleteReplication, R!ReplicationObjects
  <2> HIDE DEF v
  <2> QED
    BY <1>2, <1>3, <2>2
<1>6. ASSUME NEW r \in Replications, NEW s \in CopySpecs, R!CreateReplication(r, s)
      PROVE  MirrorTracks' /\ Attended'
  <2> DEFINE v == [spec |-> s, deleting |-> FALSE, finalizer |-> FALSE,
                   destination |-> None, phase |-> ""]
  <2>1. v \in Kinds[r] /\ R!Write(R!Only(r, v))
    BY <1>3, <1>6, Zenon DEF R!CreateReplication, R!ReplicationObjects, R!Phases
  <2> HIDE DEF v
  <2> QED
    BY <1>2, <1>3, <2>1
<1>7. ASSUME NEW r \in Replications, NEW s \in CopySpecs, R!MoveReplication(r, s)
      PROVE  MirrorTracks' /\ Attended'
  <2> DEFINE v == [store[r] EXCEPT !.spec = s]
  <2>1. store[r] \in R!ReplicationObjects
    BY <1>7, MirrorTracked DEF R!MoveReplication
  <2>2. v \in Kinds[r] /\ R!Write(R!Only(r, v))
    BY <1>3, <1>7, <2>1 DEF R!MoveReplication, R!ReplicationObjects
  <2> HIDE DEF v
  <2> QED
    BY <1>2, <1>3, <2>2
<1>8. ASSUME NEW x \in Resources, NEW d \in Data \cup {None}, R!EditResource(x, d)
      PROVE  MirrorTracks' /\ Attended'
  <2>1. CASE d # None /\ R!Write(R!Only(x, [owner |-> None, data |-> d]))
    <3>1. [owner |-> None, data |-> d] \in Kinds[x]
      BY <1>4, <2>1 DEF R!ResourceObjects
    <3> QED
      BY <1>2, <1>4, <2>1, <3>1
  <2>2. CASE R!Write(R!Only(x, None))
    BY <1>2, <1>4, <2>2
  <2>3. CASE store[x] # None /\ d # None /\ R!Write(R!Only(x, [store[x] EXCEPT !.data = d]))
    <3>1. store[x] \in R!ResourceObjects
      BY <2>3, MirrorTracked
    <3> DEFINE v == [store[x] EXCEPT !.data = d]
    <3>2. v \in Kinds[x] /\ R!Write(R!Only(x, v))
      BY <1>4, <2>3, <3>1 DEF R!ResourceObjects
    <3> HIDE DEF v
    <3> QED
      BY <1>2, <1>4, <3>2
  <2> QED
    BY <1>8, <2>1, <2>2, <2>3 DEF R!EditResource
<1> QED
  BY <1>5, <1>6, <1>7, <1>8

\* There is no Replication at the start.
LEMMA MirrorInit ==
  ASSUME ReplicationAssumption
  PROVE  R!Init => MirrorTracks /\ Attended
<1> SUFFICES ASSUME R!Init PROVE MirrorTracks /\ Attended
  OBVIOUS
<1> DEFINE Objs == Replications \cup Resources
           objects == [o \in Objs |-> IF o \in Replications \/ Initial[o] = None THEN None
                                      ELSE [owner |-> None, data |-> Initial[o]]]
<1>1. KubeInit(objects)
  BY SameKube DEF R!Init
<1>2. \A o \in Objs : objects[o] \in Kinds[o]
  <2> SUFFICES ASSUME NEW o \in Objs PROVE objects[o] \in Kinds[o]
    BY Zenon
  <2>1. CASE o \in Replications \/ Initial[o] = None
    BY <2>1 DEF Kinds
  <2>2. CASE o \notin Replications /\ Initial[o] # None
    <3>1. o \in Resources /\ Initial[o] \in Data
      BY <2>2 DEF ReplicationAssumption, R!SpecsAssumption
    <3>2. [owner |-> None, data |-> Initial[o]] \in R!ResourceObjects
      BY <3>1 DEF R!ResourceObjects
    <3> QED
      BY <2>2, <3>2 DEF Kinds
  <2> QED
    BY <2>1, <2>2
<1>3. \A r \in Replications : cache[r] = None
  BY <1>1 DEF KubeInit
<1>4. MirrorTracks
  <2> DEFINE V == Kinds
  <2>1. /\ DOMAIN objects = Objs /\ objects = [o \in Objs |-> objects[o]]
        /\ \A o \in Objs : objects[o] \in V[o]
    BY <1>2
  <2> HIDE DEF V, Objs, objects
  <2>2. Follows(Objs, V)
    BY <1>1, <2>1, InitFollows
  <2> QED
    BY <2>2 DEF MirrorTracks, V, Objs
<1> QED
  BY <1>3, <1>4 DEF Attended, Done

\* No step of the worker, a user or the cache forgets a Replication.
LEMMA MirrorNext ==
  ASSUME ReplicationAssumption
  PROVE  MirrorTracks /\ Attended /\ [R!Next]_(R!vars) => (MirrorTracks /\ Attended)'
<1> SUFFICES ASSUME MirrorTracks, Attended, [R!Next]_(R!vars) PROVE (MirrorTracks /\ Attended)'
  OBVIOUS
<1>1. CASE \E o \in DOMAIN store : R!Deliver(o)
  BY <1>1, DeliverStep, MirrorTracked
<1>2. CASE \E r \in Replications : R!Reconcile(r)
  BY <1>2, ReconcileStep
<1>3. ASSUME UNCHANGED R!kube, queue \subseteq queue' PROVE (MirrorTracks /\ Attended)'
  <2>1. UNCHANGED <<store, feed, cache>>
    BY <1>3 DEF R!kube
  <2>2. \A q \in Replications : (Awaits(q) => Awaits(q)') /\ (Done(q) => Done(q)')
    BY <2>1, SameCache
  <2>3. MirrorTracks'
    BY <2>1, Zenon DEF MirrorTracks, Follows, FollowsAt, Kinds, R!ReplicationObjects,
                       R!ResourceObjects, R!Phases
  <2> QED
    BY <1>3, <2>2, <2>3 DEF Attended
<1>4. CASE \E r \in Replications : R!Periodic(r)
  BY <1>3, <1>4 DEF R!Periodic
<1>5. CASE UNCHANGED R!vars
  BY <1>3, <1>5 DEF R!vars, R!control
<1>6. CASE R!Crash
  BY <1>6, CrashStep
<1> QED
  BY <1>1, <1>2, <1>4, <1>5, <1>6, UserStep DEF R!Next

\* Once the worker has nothing left to do, each Replication that is not deleted is READY with a
\* copy equal to its source and recorded in its status, or is in ERROR because the objects of the
\* server leave nothing to copy (replication_controller.go): for any Replications, resources,
\* edits, failed calls and crashes, however late the cache is.
THEOREM Mirrors ==
  ASSUME ReplicationAssumption
  PROVE  R!Spec => []R!MirrorsSource
<1>1. MirrorTracks /\ Attended => R!MirrorsSource
  <2> SUFFICES ASSUME MirrorTracks, Attended, R!Settled, NEW r \in Replications,
                      store[r] # None, ~store[r].deleting
               PROVE  LET v == store[r]
                          s == v.spec.source
                          x == v.spec.dest
                          hopeless ==
                            \/ s \in {None, x} \/ store[s] = None
                            \/ store[x] # None /\ store[x].owner \notin {None, r}
                            \/ store[x] # None /\ TypeOf[store[x].data] # TypeOf[store[s].data]
                      IN IF hopeless THEN v.phase = "ERROR"
                         ELSE v.phase = "READY" /\ v.destination = x
                              /\ store[x] = [owner |-> r, data |-> store[s].data]
    BY Zenon DEF R!MirrorsSource
  <2>1. \A o \in Replications \cup Resources : feed[o] = <<>> /\ cache[o] = store[o]
    BY MirrorTracked DEF R!Settled, R!CaughtUp, R!Current
  <2> DEFINE v == store[r]
             s == v.spec.source
             x == v.spec.dest
  <2>2. v \in R!ReplicationObjects /\ cache[r] = v
    BY <2>1, MirrorTracked
  <2>3. s \in Resources \cup {None} /\ x \in Resources
    BY <2>2 DEF R!ReplicationObjects, ReplicationAssumption, R!SpecsAssumption
  <2>4. Done(r)
    BY <2>1 DEF Attended, R!Settled, Awaits
  <2>5. cache[x] = store[x] /\ (s # None => cache[s] = store[s])
    BY <2>1, <2>3
  <2>6. IF R!Verdict(v, r) = "synced" THEN v.phase = "READY" /\ v.destination = x
        ELSE v.phase = "ERROR" /\ R!Verdict(v, r) \notin {"missing", "outdated"}
    BY <2>2, <2>4 DEF Done
  <2> DEFINE hopeless == \/ s \in {None, x} \/ store[s] = None
                         \/ store[x] # None /\ store[x].owner \notin {None, r}
                         \/ store[x] # None /\ TypeOf[store[x].data] # TypeOf[store[s].data]
  <2>7. hopeless => R!Verdict(v, r) # "synced"
    BY <2>5, Zenon DEF R!Verdict, R!CheckDestinationOwnership
  <2>8. ~hopeless => \/ R!Verdict(v, r) \in {"missing", "outdated"}
                     \/ R!Verdict(v, r) = "synced" /\ store[x] = [owner |-> r, data |-> store[s].data]
    BY <2>5, Zenon DEF R!Verdict, R!CheckDestinationOwnership, R!Copied
  <2>9. IF hopeless THEN v.phase = "ERROR"
        ELSE v.phase = "READY" /\ v.destination = x
             /\ store[x] = [owner |-> r, data |-> store[s].data]
    <3> HIDE DEF v, hopeless
    <3> QED
      BY <2>6, <2>7, <2>8
  <2> QED
    BY <2>9, Zenon
<1> QED
  BY <1>1, MirrorInit, MirrorNext, PTL DEF R!Spec

\* A pass never takes, changes or deletes the copy of another living Replication
\* (replication_controller.go), though it deletes without a precondition: for any Replications,
\* if it reads the resources without lag.
THEOREM OthersKept ==
  ASSUME ReplicationAssumption, Resources \cap Lagging = {}
  PROVE  R!Spec => R!LeavesOthers
<1>1. MirrorTracks /\ [R!Next]_(R!vars) => [R!LeavesOthersStep]_(R!vars)
  <2> SUFFICES ASSUME MirrorTracks, NEW r \in Replications, NEW x \in Resources, R!Reconcile(r),
                      store'[x] # store[x], store[x] # None
               PROVE  store[x].owner \in {None, r}
    BY DEF R!LeavesOthersStep, R!Others
  <2>1. cache[x] = store[x]
    BY MirrorTracked, Zenon DEF R!Reconcile, R!Current
  <2>2. \A w : R!Write(w) => x \in DOMAIN w
    BY MirrorTracked DEF R!Write
  <2>3. PICK fails : \/ R!Replicate(r, fails) \/ R!AddFinalizer(r, fails) \/ R!Finalize(r, fails)
                     \/ R!Skip(r)
    BY DEF R!Reconcile
  <2>4. x # r
    BY DEF ReplicationAssumption, R!NoneAssumption
  <2>5. CASE R!Replicate(r, fails)
    <3> DEFINE v == cache[r]
    <3>1. \/ R!IsReplicatedBy(x, r)
          \/ x = v.spec.dest /\ R!Verdict(v, r) \in {"missing", "outdated"}
      <4> DEFINE doomed == R!Doomed(v, r)
                 deletes == doomed # None /\ R!IsReplicatedBy(doomed, r)
                 stops == deletes /\ fails = "delete"
      <4>1. PICK copies, patches, copy, patch :
              /\ copies => R!Verdict(v, r) \in {"missing", "outdated"}
              /\ R!Write(R!Joined(R!When(deletes /\ ~stops, R!Only(doomed, None)),
                         R!Joined(R!When(copies, R!Only(v.spec.dest, copy)), R!When(patches, R!Only(r, patch)))))
        BY <2>5, Zenon DEF R!Replicate
      <4> HIDE DEF doomed, stops, v
      <4> HIDE DEF deletes
      <4> DEFINE deletion == When(deletes /\ ~stops, Only(doomed, None))
                 creation == When(copies, Only(v.spec.dest, copy))
                 status == When(patches, Only(r, patch))
      <4>2. x \in DOMAIN Joined(deletion, Joined(creation, status))
        BY <2>2, <4>1, SameWrites, Zenon
      <4>3. /\ DOMAIN deletion = IF deletes /\ ~stops THEN {doomed} ELSE {}
            /\ DOMAIN creation = IF copies THEN {v.spec.dest} ELSE {}
            /\ DOMAIN status = IF patches THEN {r} ELSE {}
        BY WhenOnly, Zenon
      <4> HIDE DEF deletion, creation, status
      <4>4. x \in DOMAIN deletion \cup DOMAIN creation \cup DOMAIN status
        <5>1. DOMAIN Joined(creation, status) = DOMAIN creation \cup DOMAIN status
          BY JoinedWrites, Zenon
        <5>2. DOMAIN Joined(deletion, Joined(creation, status)) =
                DOMAIN deletion \cup DOMAIN Joined(creation, status)
          BY JoinedWrites, Zenon
        <5> QED
          BY <4>2, <5>1, <5>2
      <4>5. (x = doomed /\ deletes) \/ (x = v.spec.dest /\ copies)
        BY <2>4, <4>3, <4>4
      <4> QED
        BY <4>1, <4>5 DEF deletes
    <3>2. cache[x] # None
      BY <2>1
    <3>3. CASE R!IsReplicatedBy(x, r)
      BY <2>1, <3>3 DEF R!IsReplicatedBy
    <3>4. CASE x = v.spec.dest /\ R!Verdict(v, r) \in {"missing", "outdated"}
      BY <2>1, <3>2, <3>4 DEF R!Verdict, R!CheckDestinationOwnership
    <3> QED
      BY <3>1, <3>3, <3>4
  <2>6. CASE R!AddFinalizer(r, fails)
    BY <2>2, <2>4, <2>6 DEF R!AddFinalizer, R!When, R!Only, R!NoWrites
  <2>7. CASE R!Finalize(r, fails)
    <3>1. R!IsReplicatedBy(x, r)
      <4>1. PICK deletes, updates :
              /\ deletes => R!IsReplicatedBy(cache[r].destination, r)
              /\ R!Write(R!Joined(R!When(deletes, R!Only(cache[r].destination, None)),
                                 R!When(updates, R!Only(r, None))))
        BY <2>7, Zenon DEF R!Finalize
      <4> DEFINE deletion == When(deletes, Only(cache[r].destination, None))
                 removal == When(updates, Only(r, None))
      <4>2. x \in DOMAIN Joined(deletion, removal)
        BY <2>2, <4>1, SameWrites
      <4>3. /\ DOMAIN deletion = IF deletes THEN {cache[r].destination} ELSE {}
            /\ DOMAIN removal = IF updates THEN {r} ELSE {}
        BY WhenOnly, Zenon
      <4> HIDE DEF deletion, removal
      <4>4. x \in DOMAIN deletion \cup DOMAIN removal
        BY <4>2, JoinedWrites, Zenon
      <4> QED
        BY <2>4, <4>1, <4>3, <4>4
    <3> QED
      BY <2>1, <3>1 DEF R!IsReplicatedBy
  <2>8. CASE R!Skip(r)
    BY <2>8 DEF R!Skip, R!kube
  <2> QED
    BY <2>3, <2>5, <2>6, <2>7, <2>8
<1> QED
  BY <1>1, MirrorInit, MirrorNext, PTL DEF R!Spec, R!LeavesOthers

\* A copy is recorded in the status of the Replication it belongs to, which has its finalizer,
\* and only what a spec of a supported kind names is recorded.
Owned ==
  /\ \A x \in Resources : store[x] # None /\ store[x].owner # None =>
       store[store[x].owner] # None /\ store[store[x].owner].destination = x
  /\ \A r \in Replications : store[r] # None /\ ~store[r].finalizer => store[r].destination = None
  /\ \A r \in Replications : store[r] # None /\ store[r].destination # None =>
       \E t \in CopySpecs : t.source # None /\ t.dest = store[r].destination

\* A source of an unsupported kind comes with a destination of its own.
Unshared == \A s, t \in CopySpecs : s.source = None /\ s.dest = t.dest => t.source = None

\* The copy of a pass is recorded in the same pass, and the copy recorded before is deleted.
LEMMA ReplicateOwned ==
  ASSUME ReplicationAssumption, MirrorTracks, Owned, NEW r \in Replications, R!Replicate(r, None),
         \A o \in Replications \cup Resources : R!Current(o),
         None \notin {"delete", "copy", "status", "update"}
  PROVE  Owned'
<1> DEFINE v == cache[r]
           x == v.spec.dest
           verdict == R!Verdict(v, r)
           doomed == R!Doomed(v, r)
           deletes == doomed # None /\ R!IsReplicatedBy(doomed, r)
           copies == verdict \in {"missing", "outdated"} /\ R!Accepts(x)
           error == IF copies \/ verdict = "synced" THEN ""
                    ELSE IF verdict \in {"missing", "outdated"} THEN "retry"
                    ELSE "permanent"
           destination == R!Recorded(v, verdict, error, doomed)
           phase == IF error = "" THEN "READY" ELSE "ERROR"
           changes == destination # v.destination \/ phase # v.phase
           patch == R!StatusPatch(r, v, destination, phase)
           copy == R!Copied(v, r)
           writes == R!Joined(R!When(deletes, R!Only(doomed, None)),
                       R!Joined(R!When(copies, R!Only(x, copy)), R!When(changes, R!Only(r, patch))))
<1>1. v \in R!ReplicationObjects /\ v # None /\ v.finalizer /\ v = store[r]
  BY MirrorTracked, Zenon DEF R!Replicate, R!Current
<1>2. \A o \in Resources : cache[o] = store[o] /\ store[o] \in R!ResourceObjects \cup {None}
  BY MirrorTracked, Zenon DEF R!Current
<1>3. v.destination \in Resources \cup {None} /\ x \in Resources /\ r \notin Resources
  BY <1>1 DEF R!ReplicationObjects, ReplicationAssumption, R!SpecsAssumption, R!NoneAssumption
<1>4. doomed \in {v.destination, None} /\ (copies \/ verdict = "synced" => doomed # x)
  BY <1>1, <1>3 DEF R!Doomed, ReplicationAssumption, R!NoneAssumption
<1>5. copies \/ verdict = "synced" => copy \in R!ResourceObjects /\ copy.owner = r
  BY <1>1, CopiedType DEF R!Copied
<1>6. R!Write(writes)
  BY <1>1, Zenon DEF R!Replicate
<1>7. IF copies \/ verdict = "synced" THEN destination = x
      ELSE destination = IF doomed # None THEN None ELSE v.destination
  BY Zenon DEF R!Recorded
<1>8. verdict = "synced" => store[x] = copy
  BY <1>2, <1>3, Zenon DEF R!Verdict
<1>9. (copies \/ verdict = "synced") /\ v.destination # x => doomed = v.destination
  BY DEF R!Doomed
<1>10. copies => store[x] = None \/ store[x].owner \in {None, r}
  BY <1>2, <1>3 DEF R!Verdict, R!CheckDestinationOwnership
<1>11. doomed # None /\ store[doomed] # None /\ store[doomed].owner = r => deletes
  BY <1>2, <1>3, <1>4 DEF R!IsReplicatedBy
<1>12. deletes => store[doomed] # None /\ store[doomed].owner = r
  BY <1>2, <1>3, <1>4 DEF R!IsReplicatedBy
<1> HIDE DEF verdict, doomed, deletes, copies, error, destination, phase, patch, copy, x, v
<1>13. /\ patch.destination = destination /\ patch.finalizer = v.finalizer
       /\ patch \in R!ReplicationObjects \/ ~changes
  <2>1. store[r] = v /\ v \in R!ReplicationObjects
    BY <1>1
  <2>2. destination \in Resources \cup {None} /\ phase \in R!Phases
    BY <1>3, <1>4, <1>7 DEF phase, R!Phases
  <2> QED
    BY <2>1, <2>2, Zenon DEF patch, R!StatusPatch, R!ReplicationObjects
<1>14. changes \/ destination = v.destination
  OBVIOUS
<1> HIDE DEF changes
<1>15. /\ \A o : o \in DOMAIN writes <=>
               (o = doomed /\ deletes) \/ (o = x /\ copies) \/ (o = r /\ changes)
       /\ changes => writes[r] = patch
       /\ copies => writes[x] = copy
       /\ deletes => writes[doomed] = None
  <2>1. (deletes => doomed # r) /\ x # r /\ (copies => doomed # x)
    BY <1>3, <1>4 DEF deletes
  <2>2. writes = Joined(When(deletes, Only(doomed, None)),
                   Joined(When(copies, Only(x, copy)), When(changes, Only(r, patch))))
    BY SameWrites, Zenon
  <2> HIDE DEF writes
  <2> QED
    BY <2>1, <2>2, ThreeWrites
<1> HIDE DEF writes
<1>16. \A o \in Replications \cup Resources :
         store'[o] = IF o \in DOMAIN writes THEN writes[o] ELSE store[o]
  BY <1>6, MirrorTracked, Zenon DEF R!Write
<1>17. store'[r] # None /\ store'[r].destination = destination /\ store'[r].finalizer
  <2>1. CASE changes
    <3>1. store'[r] = patch
      BY <1>15, <1>16, <2>1
    <3> QED
      BY <1>1, <1>13, <2>1, <3>1, Zenon DEF ReplicationAssumption, R!NoneAssumption
  <2>2. CASE ~changes
    <3>1. (deletes => doomed # r) /\ x # r
      BY <1>3, <1>4 DEF deletes
    <3>2. store'[r] = store[r]
      BY <1>15, <1>16, <2>2, <3>1
    <3> QED
      BY <1>1, <1>14, <2>2, <3>2
  <2> QED
    BY <2>1, <2>2
<1>18. \A q \in Replications \ {r} : store'[q] = store[q]
  BY <1>3, <1>4, <1>15, <1>16 DEF ReplicationAssumption, R!NoneAssumption, deletes
<1>19. ASSUME NEW y \in Resources, store'[y] # None, store'[y].owner # None
       PROVE  store'[store'[y].owner] # None /\ store'[store'[y].owner].destination = y
  <2>1. CASE y = x /\ copies
    <3>1. store'[y] = copy /\ destination = x
      BY <1>3, <1>7, <1>15, <1>16, <2>1
    <3> QED
      BY <1>5, <1>17, <2>1, <3>1
  <2>2. CASE ~(y = x /\ copies)
    <3>1. store'[y] = store[y] /\ ~(y = doomed /\ deletes)
      BY <1>3, <1>15, <1>16, <1>19, <2>2
    <3> DEFINE q == store[y].owner
    <3>2. q \in Replications /\ store[q] # None /\ store[q].destination = y
      BY <1>2, <1>19, <3>1 DEF Owned, R!ResourceObjects
    <3>3. CASE q # r
      BY <1>18, <3>1, <3>2, <3>3
    <3>4. CASE q = r
      <4>1. v.destination = y /\ y # doomed
        BY <1>1, <1>11, <1>19, <3>1, <3>2, <3>4 DEF ReplicationAssumption, R!NoneAssumption
      <4>2. destination = y
        BY <1>4, <1>7, <1>9, <4>1, <1>3 DEF ReplicationAssumption, R!NoneAssumption
      <4> QED
        BY <1>17, <3>1, <3>4, <4>2
    <3> QED
      BY <3>3, <3>4
  <2> QED
    BY <2>1, <2>2
<1>20. ASSUME NEW q \in Replications, store'[q] # None, ~store'[q].finalizer
       PROVE  store'[q].destination = None
  BY <1>17, <1>18, <1>20 DEF Owned
<1>21. ASSUME NEW q \in Replications, store'[q] # None, store'[q].destination # None
       PROVE  \E t \in CopySpecs : t.source # None /\ t.dest = store'[q].destination
  <2>1. CASE q # r
    BY <1>18, <1>21, <2>1 DEF Owned
  <2>2. CASE q = r /\ (copies \/ verdict = "synced")
    <3>1. v.spec \in CopySpecs /\ v.spec.source # None
      BY <1>1, <2>2, Zenon DEF R!ReplicationObjects, copies, verdict, R!Verdict
    <3> QED
      BY <1>7, <1>17, <2>2, <3>1 DEF x
  <2>3. CASE q = r /\ ~(copies \/ verdict = "synced")
    <3>1. destination = v.destination
      BY <1>7, <1>17, <1>21, <2>3
    <3> QED
      BY <1>1, <1>17, <1>21, <2>3, <3>1 DEF Owned
  <2> QED
    BY <2>1, <2>2, <2>3
<1> QED
  BY <1>19, <1>20, <1>21 DEF Owned

\* The finalizer goes after the copy, and comes before it.
LEMMA ReconcileOwned ==
  ASSUME ReplicationAssumption, MirrorTracks, Owned, NEW r \in Replications, R!Reconcile(r),
         Lagging = {}, MaxFailures = 0, failures \in Nat,
         None \notin {"delete", "copy", "status", "update"}
  PROVE  Owned'
<1>1. \A o \in Replications \cup Resources : R!Current(o)
  BY DEF R!Reconcile
<1>2. /\ cache[r] = store[r] /\ store[r] \in R!ReplicationObjects \cup {None}
      /\ \A x \in Resources : cache[x] = store[x] /\ store[x] \in R!ResourceObjects \cup {None}
      /\ \A w : R!Write(w) => \A o \in Replications \cup Resources :
           store'[o] = IF o \in DOMAIN w THEN w[o] ELSE store[o]
  BY <1>1, MirrorTracked DEF R!Current, R!Write
<1>3. \/ R!Replicate(r, None) \/ R!AddFinalizer(r, None) \/ R!Finalize(r, None)
      \/ R!Skip(r)
  <2>1. PICK fails : /\ fails # None => failures < MaxFailures
                     /\ \/ R!Replicate(r, fails) \/ R!AddFinalizer(r, fails) \/ R!Finalize(r, fails)
                        \/ R!Skip(r)
    BY DEF R!Reconcile, R!Failing
  <2>2. fails = None
    BY <2>1
  <2> QED
    BY <2>1, <2>2
<1>4. CASE R!AddFinalizer(r, None)
  <2> DEFINE v == [cache[r] EXCEPT !.finalizer = TRUE]
             writes == R!When(R!Updated(r, None), R!Only(r, v))
  <2>1. cache[r] # None /\ v \in R!ReplicationObjects /\ v.destination = store[r].destination
    BY <1>2, <1>4, Zenon DEF R!AddFinalizer, R!ReplicationObjects
  <2>2. R!Write(writes)
    BY <1>4 DEF R!AddFinalizer
  <2> HIDE DEF v
  <2>3. DOMAIN writes \subseteq {r} /\ (r \in DOMAIN writes => writes[r] = v)
    BY DEF R!When, R!Only, R!NoWrites
  <2> HIDE DEF writes
  <2>4. /\ \A o \in (Replications \cup Resources) \ {r} : store'[o] = store[o]
        /\ store'[r] \in {v, store[r]}
    BY <1>2, <2>2, <2>3, Zenon
  <2>5. /\ store'[r] # None /\ store'[r].destination = store[r].destination
        /\ store'[r].finalizer => store'[r].destination = store[r].destination
    BY <1>2, <2>1, <2>4 DEF ReplicationAssumption, R!NoneAssumption
  <2>6. store[r].destination = None
    BY <1>2, <1>4 DEF Owned, R!AddFinalizer
  <2>7. \A x \in Resources : store'[x] = store[x]
    BY <2>4 DEF ReplicationAssumption, R!NoneAssumption
  <2> QED
    BY <1>2, <2>4, <2>5, <2>6, <2>7 DEF Owned, R!ResourceObjects
<1>5. CASE R!Finalize(r, None)
  <2> DEFINE v == cache[r]
             deletes == v.destination # None /\ R!IsReplicatedBy(v.destination, r)
             writes == R!Joined(R!When(deletes, R!Only(v.destination, None)),
                              R!When(TRUE, R!Only(r, None)))
  <2>1. v \in R!ReplicationObjects /\ v = store[r] /\ v # None
    BY <1>2, <1>5, Zenon DEF R!Finalize
  <2>2. R!Write(writes)
    BY <1>1, <1>5, Zenon DEF R!Finalize
  <2>3. v.destination \in Resources \cup {None}
    BY <2>1 DEF R!ReplicationObjects
  <2>4. \A x \in Resources : store[x] # None /\ store[x].owner = r =>
          x = v.destination /\ deletes
    BY <1>2, <2>1 DEF Owned, R!IsReplicatedBy, ReplicationAssumption, R!NoneAssumption
  <2>5. deletes => store[v.destination].owner = r
    BY <1>2, <2>3 DEF R!IsReplicatedBy
  <2> HIDE DEF deletes, v
  <2>6. /\ DOMAIN writes = (IF deletes THEN {v.destination} ELSE {}) \cup {r}
        /\ \A o \in DOMAIN writes : writes[o] = None
    BY DEF R!Joined, R!When, R!Only, R!NoWrites
  <2> HIDE DEF writes
  <2>7. \A q \in Replications \ {r} : store'[q] = store[q]
    BY <1>2, <2>2, <2>3, <2>6 DEF ReplicationAssumption, R!NoneAssumption, deletes
  <2>8. store'[r] = None
    BY <1>2, <2>2, <2>6
  <2>9. ASSUME NEW x \in Resources, store'[x] # None
        PROVE  store'[x] = store[x] /\ store[x].owner # r
    <3>1. store'[x] = store[x] /\ x \notin DOMAIN writes
      BY <1>2, <2>2, <2>6, <2>9
    <3> QED
      BY <2>4, <2>6, <2>9, <3>1
  <2> QED
    BY <1>2, <2>7, <2>8, <2>9 DEF Owned, R!ResourceObjects
<1>6. CASE R!Skip(r)
  BY <1>6 DEF R!Skip, R!kube, Owned
<1> QED
  BY <1>1, <1>3, <1>4, <1>5, <1>6, ReplicateOwned

\* What users write leaves the owner of a copy and the recorded destination.
LEMMA UserOwned ==
  ASSUME ReplicationAssumption, MirrorTracks, Owned,
         \/ \E r \in Replications : R!DeleteReplication(r)
         \/ \E r \in Replications, s \in CopySpecs : R!CreateReplication(r, s) \/ R!MoveReplication(r, s)
         \/ \E x \in Resources, d \in Data \cup {None} : R!EditResource(x, d)
  PROVE  Owned'
<1>1. ASSUME NEW o \in Replications \cup Resources, NEW v, R!Write(R!Only(o, v))
      PROVE  /\ store'[o] = v
             /\ \A q \in (Replications \cup Resources) \ {o} : store'[q] = store[q]
  BY <1>1, MirrorTracked DEF R!Write, R!Only
<1>2. /\ \A r \in Replications : r \notin Resources /\ store[r] \in R!ReplicationObjects \cup {None}
      /\ \A x \in Resources : store[x] \in R!ResourceObjects \cup {None}
      /\ None \notin Replications
  BY MirrorTracked DEF ReplicationAssumption, R!NoneAssumption
<1>3. ASSUME NEW r \in Replications, NEW v, R!Write(R!Only(r, v)), v \in R!ReplicationObjects \cup {None},
             v = None \/ (store[r] = None /\ v.destination = None)
               \/ (store[r] # None /\ v.destination = store[r].destination
                   /\ v.finalizer = store[r].finalizer),
             v = None => store[r] = None \/ ~store[r].finalizer
      PROVE  Owned'
  <2>1. /\ store'[r] = v /\ \A q \in Replications \ {r} : store'[q] = store[q]
        /\ \A x \in Resources : store'[x] = store[x]
    BY <1>1, <1>2, <1>3
  <2>2. ASSUME NEW x \in Resources, store[x] # None, store[x].owner # None
        PROVE  store'[store[x].owner] # None /\ store'[store[x].owner].destination = x
    <3> DEFINE q == store[x].owner
    <3>1. q \in Replications /\ store[q] # None /\ store[q].destination = x
      BY <1>2, <2>2 DEF Owned, R!ResourceObjects
    <3>2. CASE q # r
      BY <2>1, <3>1, <3>2
    <3>3. CASE q = r
      <4>1. x # None
        BY DEF ReplicationAssumption, R!NoneAssumption
      <4>2. store[r].finalizer
        BY <3>1, <3>3, <4>1 DEF Owned
      <4> QED
        BY <1>3, <2>1, <3>1, <3>3, <4>2, Zenon
    <3> QED
      BY <3>2, <3>3
  <2>3. ASSUME NEW q \in Replications, store'[q] # None, ~store'[q].finalizer
        PROVE  store'[q].destination = None
    <3>1. CASE q # r
      BY <2>1, <2>3, <3>1 DEF Owned
    <3>2. CASE q = r
      BY <1>3, <2>1, <2>3, <3>2 DEF Owned
    <3> QED
      BY <3>1, <3>2
  <2>4. ASSUME NEW q \in Replications, store'[q] # None, store'[q].destination # None
        PROVE  \E t \in CopySpecs : t.source # None /\ t.dest = store'[q].destination
    <3>1. CASE q # r
      BY <2>1, <2>4, <3>1 DEF Owned
    <3>2. CASE q = r
      <4>1. store[r] # None /\ store[r].destination = store'[r].destination
        BY <1>3, <2>1, <2>4, <3>2
      <4> QED
        BY <2>4, <3>2, <4>1 DEF Owned
    <3> QED
      BY <3>1, <3>2
  <2> QED
    BY <2>1, <2>2, <2>3, <2>4, Zenon DEF Owned
<1>4. ASSUME NEW x \in Resources, NEW v, R!Write(R!Only(x, v)),
             v = None \/ v.owner = None \/ (store[x] # None /\ v.owner = store[x].owner)
      PROVE  Owned'
  <2>1. /\ store'[x] = v /\ \A y \in Resources \ {x} : store'[y] = store[y]
        /\ \A q \in Replications : store'[q] = store[q]
    BY <1>1, <1>2, <1>4, Zenon
  <2>2. ASSUME NEW y \in Resources, store'[y] # None, store'[y].owner # None
        PROVE  store'[store'[y].owner] # None /\ store'[store'[y].owner].destination = y
    <3>1. store[y] # None /\ store[y].owner = store'[y].owner
      BY <1>4, <2>1, <2>2
    <3>2. store[y].owner \in Replications
      BY <1>2, <2>2, <3>1 DEF R!ResourceObjects
    <3> QED
      BY <2>1, <2>2, <3>1, <3>2 DEF Owned
  <2> QED
    BY <2>1, <2>2 DEF Owned
<1>5. ASSUME NEW r \in Replications, R!DeleteReplication(r) PROVE Owned'
  <2> DEFINE v == IF store[r].finalizer THEN [store[r] EXCEPT !.deleting = TRUE] ELSE None
  <2>1. store[r] \in R!ReplicationObjects /\ store[r] # None
    BY <1>2, <1>5 DEF R!DeleteReplication
  <2>2. /\ R!Write(R!Only(r, v)) /\ v \in R!ReplicationObjects \cup {None}
        /\ v = None => ~store[r].finalizer
        /\ v # None => v.destination = store[r].destination /\ v.finalizer = store[r].finalizer
    BY <1>5, <2>1, Zenon DEF R!DeleteReplication, R!ReplicationObjects, ReplicationAssumption,
                             R!NoneAssumption
  <2> HIDE DEF v
  <2> QED
    BY <1>3, <2>1, <2>2, Zenon
<1>6. ASSUME NEW r \in Replications, NEW s \in CopySpecs, R!CreateReplication(r, s) PROVE Owned'
  <2> DEFINE v == [spec |-> s, deleting |-> FALSE, finalizer |-> FALSE,
                   destination |-> None, phase |-> ""]
  <2>1. R!Write(R!Only(r, v)) /\ store[r] = None /\ v \in R!ReplicationObjects /\ v.destination = None
    BY <1>6, Zenon DEF R!CreateReplication, R!ReplicationObjects, R!Phases
  <2> HIDE DEF v
  <2> QED
    BY <1>3, <2>1
<1>7. ASSUME NEW r \in Replications, NEW s \in CopySpecs, R!MoveReplication(r, s) PROVE Owned'
  <2> DEFINE v == [store[r] EXCEPT !.spec = s]
  <2>1. store[r] \in R!ReplicationObjects /\ store[r] # None
    BY <1>2, <1>7 DEF R!MoveReplication
  <2>2. /\ R!Write(R!Only(r, v)) /\ v \in R!ReplicationObjects
        /\ v.destination = store[r].destination /\ v.finalizer = store[r].finalizer
    BY <1>7, <2>1 DEF R!MoveReplication, R!ReplicationObjects
  <2>3. v # None
    BY <2>2 DEF ReplicationAssumption, R!NoneAssumption
  <2> HIDE DEF v
  <2> QED
    BY <1>3, <2>1, <2>2, <2>3, Zenon
<1>8. ASSUME NEW x \in Resources, NEW d \in Data \cup {None}, R!EditResource(x, d) PROVE Owned'
  <2>1. CASE R!Write(R!Only(x, [owner |-> None, data |-> d]))
    BY <1>4, <2>1
  <2>2. CASE R!Write(R!Only(x, None))
    BY <1>4, <2>2
  <2>3. CASE store[x] # None /\ R!Write(R!Only(x, [store[x] EXCEPT !.data = d]))
    <3> DEFINE v == [store[x] EXCEPT !.data = d]
    <3>1. v.owner = store[x].owner /\ R!Write(R!Only(x, v))
      BY <1>2, <2>3 DEF R!ResourceObjects
    <3> HIDE DEF v
    <3> QED
      BY <1>4, <2>3, <3>1
  <2> QED
    BY <1>8, <2>1, <2>2, <2>3 DEF R!EditResource
<1> QED
  BY <1>5, <1>6, <1>7, <1>8

\* Once the worker has nothing left to do, each copy is the recorded destination of a living
\* Replication whose source exists: a deletion, a lost source or another destination leaves none
\* behind (replication_controller.go).  Any Replications, specs and edits, if no call to the API
\* server fails and a pass reads the objects without lag: without either, it does not hold.
THEOREM OrphansNone ==
  ASSUME ReplicationAssumption, Unshared, Lagging = {}, MaxFailures = 0,
         None \notin {"delete", "copy", "status", "update"}
  PROVE  R!Spec => []R!NoOrphan
<1> DEFINE MInv == MirrorTracks /\ Attended /\ Owned /\ failures = 0
<1>1. R!Init => MInv
  <2> SUFFICES ASSUME R!Init PROVE MInv
    OBVIOUS
  <2>1. MirrorTracks /\ Attended /\ failures = 0
    BY MirrorInit DEF R!Init
  <2>2. \A x \in Replications \cup Resources : store[x] # None => x \in Resources /\ store[x].owner = None
    BY DEF R!Init, R!KubeInit
  <2>3. \A r \in Replications : store[r] = None
    BY <2>2 DEF ReplicationAssumption, R!NoneAssumption
  <2> QED
    BY <2>1, <2>2, <2>3 DEF Owned
<1>2. MInv /\ [R!Next]_(R!vars) => MInv'
  <2> SUFFICES ASSUME MInv, [R!Next]_(R!vars) PROVE MInv'
    OBVIOUS
  <2>1. (MirrorTracks /\ Attended)'
    BY MirrorNext
  <2>2. Owned' /\ failures' = 0
    <3>1. CASE \E o \in DOMAIN store : R!Deliver(o)
      BY <3>1, Zenon DEF R!Deliver, R!Receive, Owned, R!bounds
    <3>2. CASE \E r \in Replications : R!Periodic(r)
      BY <3>2 DEF R!Periodic, R!kube, Owned, R!bounds
    <3>3. CASE \E r \in Replications : R!Reconcile(r)
      <4>1. failures' = 0
        BY <3>3 DEF R!Reconcile, R!Failing
      <4> QED
        BY <3>3, <4>1, ReconcileOwned
    <3>4. CASE \/ \E r \in Replications : R!DeleteReplication(r)
               \/ \E r \in Replications, s \in CopySpecs : R!CreateReplication(r, s) \/ R!MoveReplication(r, s)
               \/ \E x \in Resources, d \in Data \cup {None} : R!EditResource(x, d)
      <4>1. failures' = 0
        BY <3>4, Zenon DEF R!DeleteReplication, R!CreateReplication, R!MoveReplication,
                           R!EditResource, R!bounds
      <4> QED
        BY <3>4, <4>1, UserOwned
    <3>5. ~R!Crash
      BY DEF R!Crash
    <3>6. CASE UNCHANGED R!vars
      BY <3>6 DEF R!vars, R!kube, R!bounds, Owned
    <3> QED
      BY <3>1, <3>2, <3>3, <3>4, <3>5, <3>6 DEF R!Next
  <2> QED
    BY <2>1, <2>2
<1>3. MInv => R!NoOrphan
  <2> SUFFICES ASSUME MInv, R!Settled, NEW x \in Resources, store[x] # None, store[x].owner # None
               PROVE  LET v == store[store[x].owner]
                      IN v # None /\ v.destination = x /\ store[v.spec.source] # None
    BY DEF R!NoOrphan
  <2> DEFINE r == store[x].owner
             v == store[r]
             s == v.spec.source
  <2>1. \A o \in Replications \cup Resources : feed[o] = <<>> /\ cache[o] = store[o]
    BY MirrorTracked DEF R!Settled, R!CaughtUp, R!Current
  <2>2. r \in Replications /\ v # None /\ v.destination = x
    BY MirrorTracked DEF Owned, R!ResourceObjects
  <2>3. v \in R!ReplicationObjects /\ cache[r] = v /\ Done(r)
    BY <2>1, <2>2, MirrorTracked DEF Attended, R!Settled, Awaits
  <2>4. v.spec \in CopySpecs /\ s \in Resources \cup {None} /\ v.spec.dest \in Resources
    BY <2>3 DEF R!ReplicationObjects, ReplicationAssumption, R!SpecsAssumption
  <2>5. x # None
    BY DEF ReplicationAssumption, R!NoneAssumption
  <2>6. R!Verdict(v, r) # "sourceless" /\ v.spec.dest = x
    BY <2>2, <2>3, <2>5, Zenon DEF Done
  <2>7. PICK t \in CopySpecs : t.source # None /\ t.dest = x
    BY <2>2, <2>5 DEF Owned
  <2>8. s # None
    BY <2>4, <2>6, <2>7 DEF Unshared
  <2>9. store[s] # None
    <3>1. CASE s = v.spec.dest
      BY <2>6, <3>1
    <3>2. CASE s # v.spec.dest
      BY <2>1, <2>4, <2>6, <2>8, <3>2, Zenon DEF R!Verdict
    <3> QED
      BY <3>1, <3>2
  <2> QED
    BY <2>2, <2>9
<1> HIDE DEF MInv
<1> QED
  BY <1>1, <1>2, <1>3, PTL DEF R!Spec

\* The objects, the cache and the requests have the shapes that the controller gives them.
THEOREM ReplicationTypes ==
  ASSUME ReplicationAssumption
  PROVE  R!Spec => []R!TypeOK
<1>1. R!Init => Requests
  BY DEF R!Init, Requests
<1>2. MirrorTracks /\ Requests /\ [R!Next]_(R!vars) => Requests'
  <2> SUFFICES ASSUME MirrorTracks, Requests, [R!Next]_(R!vars) PROVE Requests'
    OBVIOUS
  <2>1. CASE \E o \in DOMAIN store : R!Deliver(o)
    BY <2>1 DEF Requests, R!Deliver, R!FindReplicationFromResource
  <2>2. CASE \E r \in Replications : R!Reconcile(r)
    <3>1. PICK r \in Replications : R!Reconcile(r)
      BY <2>2
    <3>2. \A fails : R!Replicate(r, fails) =>
            queue' \in {queue, queue \ {r}} /\ timers' \in {timers, timers \cup {r}}
      BY Zenon DEF R!Replicate
    <3>3. \A fails : R!AddFinalizer(r, fails) \/ R!Finalize(r, fails) \/ R!Skip(r) =>
            queue' \in {queue, queue \ {r}} /\ timers' = timers
      BY DEF R!AddFinalizer, R!Finalize, R!Skip
    <3>4. queue' \in {queue, queue \ {r}} /\ timers' \in {timers, timers \cup {r}}
      BY <3>1, <3>2, <3>3 DEF R!Reconcile
    <3> QED
      BY <3>4 DEF Requests
  <2>3. CASE R!Crash \/ \E r \in Replications : R!Periodic(r)
    BY <2>3 DEF Requests, R!Crash, R!Periodic
  <2>4. CASE UNCHANGED R!vars
    BY <2>4 DEF Requests, R!vars, R!control
  <2> QED
    BY <2>1, <2>2, <2>3, <2>4, Zenon DEF R!Next, R!DeleteReplication, R!CreateReplication, R!MoveReplication,
                                  R!EditResource, R!control, Requests
<1>3. MirrorTracks /\ Requests => R!TypeOK
  BY MirrorTracked DEF Requests, R!TypeOK
<1> QED
  BY <1>1, <1>2, <1>3, MirrorInit, MirrorNext, PTL DEF R!Spec

----------------------------------------------------------------------------
(* The contracts and the connections                                       *)

CONSTANTS Names, Namespaced, ClusterWide, Values, Schemas, Broken, Handmade

C == INSTANCE Connections

\* The steps of the server and of the cache, and the writes, are those of Kube.
LEMMA SameChecks ==
  /\ \A w : C!Write(w) <=> Write(w)
  /\ \A o : C!Receive(o) <=> Receive(o)
  /\ \A objects : C!KubeInit(objects) <=> KubeInit(objects)
  /\ \A o, v : C!Only(o, v) = Only(o, v)
  /\ C!NoWrites = NoWrites
BY DEF C!Write, Write, C!Receive, Receive, C!KubeInit, KubeInit, C!Only, Only, C!NoWrites, NoWrites

CheckPhases == {"", "READY", "ERROR"}
ContractVersions == [schema : Schemas \cup {Broken}, phase : CheckPhases, generation : Nat]
ConnectionVersions ==
  [contract : Names, values : Values \cup {None}, owner : {None}, phase : CheckPhases,
   generation : Nat]
CheckedObjects == C!Contracts \cup C!AllConnections
CheckedVersions ==
  [o \in CheckedObjects |-> {None} \cup IF o \in C!Contracts THEN ContractVersions ELSE ConnectionVersions]

\* A contract that the worker has nothing to do for has the phase of its schema.
ContractDone(k) ==
  k \notin queue /\ feed[k] = <<>> /\ store[k] # None => store[k].phase = C!ContractPhase(store[k])

\* A connection that the worker has nothing to do for has the status that another pass over
\* the cache would give it.
ConnectionDone(c) == c \notin queue /\ feed[c] = <<>> /\ cache[c] # None => C!Steady(c)

ChecksDone == (\A k \in C!Contracts : ContractDone(k)) /\ (\A c \in C!AllConnections : ConnectionDone(c))

CheckInv == Follows(CheckedObjects, CheckedVersions) /\ ChecksDone

Apart == C!Contracts \cap C!AllConnections = {} /\ Namespaced \cap ClusterWide = {}

\* What the server, the cache and the feed hold of a contract or a connection.
LEMMA CheckTyped ==
  ASSUME Apart, Follows(CheckedObjects, CheckedVersions)
  PROVE  /\ \A k \in C!Contracts : /\ store[k] # None => store[k] \in ContractVersions
                                   /\ cache[k] # None => cache[k] \in ContractVersions
                                   /\ feed[k] = <<>> => cache[k] = store[k]
         /\ \A c \in C!AllConnections : /\ store[c] # None => store[c] \in ConnectionVersions
                                        /\ cache[c] # None => cache[c] \in ConnectionVersions
                                        /\ feed[c] = <<>> => cache[c] = store[c]
<1>1. ASSUME NEW o \in CheckedObjects
      PROVE  /\ store[o] \in CheckedVersions[o] /\ cache[o] \in CheckedVersions[o]
             /\ feed[o] = <<>> => cache[o] = store[o]
  BY DEF Follows, FollowsAt
<1>2. \A k \in C!Contracts : k \in CheckedObjects /\ CheckedVersions[k] = {None} \cup ContractVersions
  BY DEF CheckedObjects, CheckedVersions
<1>3. \A c \in C!AllConnections :
         c \in CheckedObjects /\ CheckedVersions[c] = {None} \cup ConnectionVersions
  BY DEF CheckedObjects, CheckedVersions, Apart
<1> QED
  BY <1>1, <1>2, <1>3

\* The contract that counts for a connection in the cache is a contract.
LEMMA FoundTyped ==
  ASSUME Apart, Follows(CheckedObjects, CheckedVersions), NEW c \in C!AllConnections,
         cache[c] # None
  PROVE  LET k == C!FindContract(c, cache[c], cache) IN k # None => k \in ContractVersions
<1>1. cache[c].contract \in Names
  BY CheckTyped DEF ConnectionVersions
<1>2. C!Local(cache[c].contract) \in C!Contracts /\ C!Global(cache[c].contract) \in C!Contracts
  BY <1>1 DEF C!Local, C!Global, C!Contracts
<1> QED
  BY <1>2, CheckTyped DEF C!FindContract

\* A write keeps what is done, as long as no request is taken away.
LEMMA WriteDone ==
  ASSUME CheckInv, NEW o \in CheckedObjects, NEW v \in CheckedVersions[o], Write(Only(o, v)),
         queue \subseteq queue'
  PROVE  CheckInv'
<1>1. /\ Follows(CheckedObjects, CheckedVersions)' /\ cache' = cache
      /\ \A x \in CheckedObjects : feed'[x] = <<>> => feed[x] = <<>> /\ store'[x] = store[x]
  BY OnlyFollows, Zenon DEF CheckInv
<1>2. ASSUME NEW k \in C!Contracts PROVE ContractDone(k)'
  BY <1>1 DEF CheckInv, ChecksDone, ContractDone, CheckedObjects, C!ContractPhase, C!ResolveContract
<1>3. ASSUME NEW c \in C!AllConnections PROVE ConnectionDone(c)'
  BY <1>1 DEF CheckInv, ChecksDone, ConnectionDone, CheckedObjects, C!Steady
<1> QED
  BY <1>1, <1>2, <1>3, Zenon DEF CheckInv, ChecksDone

\* Nothing exists at first.
LEMMA CheckInit == C!Init => CheckInv
<1> SUFFICES ASSUME C!Init PROVE CheckInv
  OBVIOUS
<1> DEFINE nothing == [o \in CheckedObjects |-> None]
<1>1. KubeInit(nothing)
  BY SameChecks DEF C!Init, CheckedObjects
<1>2. /\ DOMAIN nothing = CheckedObjects
      /\ \A o \in CheckedObjects : nothing[o] = None /\ nothing[o] \in CheckedVersions[o]
  BY DEF CheckedVersions
<1>3. store = nothing /\ cache = nothing
  BY <1>1 DEF KubeInit
<1>4. nothing = [o \in CheckedObjects |-> nothing[o]]
  OBVIOUS
<1>5. Follows(CheckedObjects, CheckedVersions)
  <2> HIDE DEF nothing
  <2> QED
    BY <1>1, <1>2, <1>4, InitFollows
<1>6. ChecksDone
  BY <1>2, <1>3 DEF ChecksDone, ContractDone, ConnectionDone, CheckedObjects
<1> QED
  BY <1>5, <1>6 DEF CheckInv

\* The worker of the contracts leaves the phase of the schema, or a version on its way.
LEMMA ReconcileContractStep ==
  ASSUME Apart, CheckInv, NEW k \in C!Contracts, C!ReconcileContract(k)
  PROVE  CheckInv'
<1> DEFINE phase == C!ContractPhase(cache[k])
           written == [store[k] EXCEPT !.phase = phase]
<1>1. k \in CheckedObjects /\ queue' = queue \ {k} /\ phase \in CheckPhases
  BY SameChecks DEF C!ReconcileContract, CheckedObjects, C!ContractPhase, CheckPhases
<1>2. CASE cache[k] = None \/ cache[k].phase = phase \/ store[k] = None
  <2>1. UNCHANGED <<store, feed, cache>>
    BY <1>2, SameChecks DEF C!ReconcileContract, C!kube
  <2>2. ContractDone(k)'
    BY <1>2, <2>1, CheckTyped DEF CheckInv, ContractDone, C!ContractPhase, C!ResolveContract
  <2>3. ASSUME NEW j \in C!Contracts \ {k} PROVE ContractDone(j)'
    BY <1>1, <2>1 DEF CheckInv, ChecksDone, ContractDone, C!ContractPhase, C!ResolveContract
  <2>4. ASSUME NEW c \in C!AllConnections PROVE ConnectionDone(c)'
    BY <1>1, <2>1 DEF Apart, CheckInv, ChecksDone, ConnectionDone, C!Steady
  <2>5. Follows(CheckedObjects, CheckedVersions)'
    BY <2>1 DEF CheckInv, Follows, FollowsAt
  <2> QED
    BY <2>2, <2>3, <2>4, <2>5 DEF CheckInv, ChecksDone
<1>3. CASE cache[k] # None /\ cache[k].phase # phase /\ store[k] # None
  <2>1. Write(Only(k, written))
    BY <1>3, SameChecks DEF C!ReconcileContract
  <2>2. store[k] \in ContractVersions
    BY <1>3, CheckTyped DEF CheckInv
  <2>3. written \in CheckedVersions[k] /\ written.phase = phase
    BY <1>1, <2>2 DEF CheckedVersions, ContractVersions
  <2> HIDE DEF written
  <2>4. /\ Follows(CheckedObjects, CheckedVersions)' /\ cache' = cache /\ store'[k] = written
        /\ \A x \in CheckedObjects : feed'[x] = <<>> => feed[x] = <<>> /\ store'[x] = store[x]
    BY <1>1, <2>1, <2>3, OnlyFollows DEF CheckInv
  <2>5. feed'[k] # <<>>
    BY <1>1, <1>3, <2>3, <2>4, CheckTyped DEF CheckInv
  <2>6. ASSUME NEW j \in C!Contracts PROVE ContractDone(j)'
    BY <1>1, <2>4, <2>5 DEF CheckInv, ChecksDone, ContractDone, CheckedObjects, C!ContractPhase,
                            C!ResolveContract
  <2>7. ASSUME NEW c \in C!AllConnections PROVE ConnectionDone(c)'
    BY <1>1, <2>4, Zenon DEF Apart, CheckInv, ChecksDone, ConnectionDone, CheckedObjects, C!Steady
  <2> QED
    BY <2>4, <2>6, <2>7 DEF CheckInv, ChecksDone
<1> QED
  BY <1>2, <1>3

\* The worker of the connections leaves the status of the contract in the cache, or a
\* version on its way, or its request.
LEMMA ReconcileConnectionStep ==
  ASSUME Apart, CheckInv, NEW c \in C!AllConnections, C!ReconcileConnection(c)
  PROVE  CheckInv'
<1> DEFINE k == C!FindContract(c, cache[c], cache)
           v == C!ConnectionStatus(k, cache[c])
           written == C!StatusPatch(c, v)
<1>1. c \in CheckedObjects /\ queue \ {c} \subseteq queue'
  BY SameChecks DEF C!ReconcileConnection, CheckedObjects
<1>2. ASSUME UNCHANGED <<store, feed, cache>>, c \in queue' \/ cache[c] = None \/ v = cache[c]
      PROVE  CheckInv'
  <2>1. ASSUME NEW j \in C!Contracts PROVE ContractDone(j)'
    BY <1>1, <1>2, Zenon DEF Apart, CheckInv, ChecksDone, ContractDone, C!ContractPhase,
                             C!ResolveContract
  <2>2. ConnectionDone(c)'
    BY <1>2 DEF ConnectionDone, C!Steady
  <2>3. ASSUME NEW d \in C!AllConnections \ {c} PROVE ConnectionDone(d)'
    BY <1>1, <1>2 DEF CheckInv, ChecksDone, ConnectionDone, C!Steady
  <2>4. Follows(CheckedObjects, CheckedVersions)'
    BY <1>2 DEF CheckInv, Follows, FollowsAt
  <2> QED
    BY <2>1, <2>2, <2>3, <2>4 DEF CheckInv, ChecksDone
<1>3. CASE cache[c] = None
  BY <1>2, <1>3, SameChecks DEF C!ReconcileConnection, C!kube
<1>4. CASE cache[c] # None /\ (v = cache[c] \/ store[c] = None)
  <2>1. Write(NoWrites)
    BY <1>4, SameChecks DEF C!ReconcileConnection
  <2>2. UNCHANGED <<store, feed, cache>>
    BY <2>1, NoWriteFollows DEF CheckInv
  <2>3. c \in queue' \/ v = cache[c]
    BY <1>4, SameChecks DEF C!ReconcileConnection
  <2> QED
    BY <1>2, <2>2, <2>3
<1>5. CASE cache[c] # None /\ v # cache[c] /\ store[c] # None
  <2>1. Write(Only(c, written))
    BY <1>5, SameChecks DEF C!ReconcileConnection
  <2>2. store[c] \in ConnectionVersions /\ cache[c] \in ConnectionVersions
    BY <1>5, CheckTyped DEF CheckInv
  <2>3. k # None => k \in ContractVersions
    BY <1>5, FoundTyped DEF CheckInv
  <2>4. /\ v.phase \in CheckPhases /\ v.generation \in Nat
        /\ v.phase # cache[c].phase \/ v.generation # cache[c].generation
    <3> HIDE DEF k
    <3>1. v.phase \in CheckPhases /\ v.generation \in Nat
      BY <2>2, <2>3, Zenon DEF C!ConnectionStatus, ConnectionVersions, ContractVersions, CheckPhases
    <3>2. v = [cache[c] EXCEPT !.phase = v.phase, !.generation = v.generation]
      BY <2>2 DEF C!ConnectionStatus, ConnectionVersions
    <3> HIDE DEF v
    <3> QED
      BY <1>5, <2>2, <3>1, <3>2, Zenon DEF ConnectionVersions
  <2> HIDE DEF v
  <2>5. written \in ConnectionVersions /\ (cache[c] = store[c] => written # store[c])
    BY <2>2, <2>4, Zenon DEF C!StatusPatch, ConnectionVersions
  <2>6. written \in CheckedVersions[c]
    BY <1>1, <2>5 DEF CheckedVersions, Apart
  <2> HIDE DEF written
  <2>7. /\ Follows(CheckedObjects, CheckedVersions)' /\ cache' = cache /\ store'[c] = written
        /\ \A x \in CheckedObjects : feed'[x] = <<>> => feed[x] = <<>> /\ store'[x] = store[x]
    BY <1>1, <2>1, <2>6, OnlyFollows DEF CheckInv
  <2>8. feed'[c] # <<>>
    BY <1>1, <2>5, <2>7, CheckTyped DEF CheckInv
  <2>9. ASSUME NEW j \in C!Contracts PROVE ContractDone(j)'
    BY <1>1, <2>7 DEF Apart, CheckInv, ChecksDone, ContractDone, CheckedObjects, C!ContractPhase,
                      C!ResolveContract
  <2>10. ASSUME NEW d \in C!AllConnections PROVE ConnectionDone(d)'
    BY <1>1, <2>7, <2>8, Zenon DEF CheckInv, ChecksDone, ConnectionDone, CheckedObjects, C!Steady
  <2> QED
    BY <2>7, <2>9, <2>10 DEF CheckInv, ChecksDone
<1> QED
  BY <1>3, <1>4, <1>5

\* A contract that reaches the cache makes a request for each connection that looks at it.
LEMMA CheckDeliverStep ==
  ASSUME Apart, CheckInv, NEW o \in CheckedObjects, C!Deliver(o)
  PROVE  CheckInv'
<1>1. /\ Follows(CheckedObjects, CheckedVersions)' /\ store' = store
      /\ \A x \in CheckedObjects \ {o} : cache'[x] = cache[x] /\ feed'[x] = feed[x]
  BY ReceiveFollows, SameChecks DEF C!Deliver, CheckInv
<1>2. queue' = queue \cup C!Events(o) /\ o \in queue'
  BY SameChecks DEF C!Deliver, C!Events
<1>3. ASSUME NEW k \in C!Contracts PROVE ContractDone(k)'
  BY <1>1, <1>2 DEF CheckInv, ChecksDone, ContractDone, CheckedObjects, C!ContractPhase,
                    C!ResolveContract
<1>4. ASSUME NEW c \in C!AllConnections, c \notin queue', feed'[c] = <<>>, cache'[c] # None
      PROVE  C!Steady(c)'
  <2>1. c # o /\ c \in CheckedObjects /\ c \notin queue
    BY <1>2, <1>4 DEF CheckedObjects
  <2>2. cache'[c] = cache[c] /\ feed[c] = <<>> /\ cache[c] # None /\ C!Steady(c)
    BY <1>1, <1>4, <2>1 DEF CheckInv, ChecksDone, ConnectionDone
  <2> DEFINE n == cache[c].contract
  <2>3. n \in Names
    BY <2>2, CheckTyped DEF CheckInv, ConnectionVersions
  <2>4. C!Local(n) \in C!Contracts /\ C!Global(n) \in C!Contracts
    BY <2>3 DEF C!Local, C!Global, C!Contracts
  <2>5. o # C!Global(n)
    <3> SUFFICES ASSUME o = C!Global(n) PROVE FALSE
      OBVIOUS
    <3>1. o \in C!Contracts /\ o[1] = "ClusterContract" /\ o[2] = n
      BY <2>4 DEF C!Global
    <3>2. c \in C!Events(o)
      BY <1>4, <2>2, <3>1 DEF C!Events, C!FindConnectionFromContract
    <3> QED
      BY <1>2, <1>4, <3>2
  <2>6. c \in Namespaced => o # C!Local(n)
    <3> SUFFICES ASSUME c \in Namespaced, o = C!Local(n) PROVE FALSE
      OBVIOUS
    <3>1. o \in C!Contracts /\ o[2] = n /\ c \notin ClusterWide
      BY <2>4 DEF C!Local, Apart
    <3>2. c \in C!Events(o)
      BY <1>4, <2>2, <3>1 DEF C!Events, C!FindConnectionFromContract
    <3> QED
      BY <1>2, <1>4, <3>2
  <2>7. /\ cache'[C!Global(n)] = cache[C!Global(n)]
        /\ c \in Namespaced => cache'[C!Local(n)] = cache[C!Local(n)]
    BY <1>1, <2>4, <2>5, <2>6 DEF CheckedObjects
  <2>8. C!FindContract(c, cache[c], cache') = C!FindContract(c, cache[c], cache)
    BY <2>7 DEF C!FindContract
  <2> QED
    BY <2>2, <2>8 DEF C!Steady
<1>5. \A c \in C!AllConnections : ConnectionDone(c)'
  BY <1>4 DEF ConnectionDone
<1> QED
  BY <1>1, <1>3, <1>5, Zenon DEF CheckInv, ChecksDone

\* Users write versions of the objects.
LEMMA CheckUserStep ==
  ASSUME C!ConnectionsAssumption, CheckInv, C!UserSteps
  PROVE  CheckInv'
<1>1. Apart
  BY DEF C!ConnectionsAssumption, Apart
<1>2. ASSUME NEW k \in C!Contracts, NEW schema \in Schemas \cup {Broken, None},
             C!EditContract(k, schema)
      PROVE  CheckInv'
  <2>1. CheckedVersions[k] = {None} \cup ContractVersions /\ k \in CheckedObjects
    BY DEF CheckedVersions, CheckedObjects
  <2>2. PICK v : v \in CheckedVersions[k] /\ Write(Only(k, v))
    <3>1. CASE schema # None /\ Write(Only(k, C!NewContract(schema, 1)))
      <4>1. C!NewContract(schema, 1) \in CheckedVersions[k]
        BY <2>1, <3>1, Zenon DEF C!NewContract, ContractVersions, CheckPhases
      <4> QED
        BY <3>1, <4>1
    <3>2. CASE /\ store[k] # None /\ schema \notin {None, store[k].schema}
               /\ Write(Only(k, [store[k] EXCEPT !.schema = schema, !.generation = @ + 1]))
      <4>1. store[k] \in ContractVersions
        BY <1>1, <3>2, CheckTyped DEF CheckInv
      <4>2. [store[k] EXCEPT !.schema = schema, !.generation = @ + 1] \in CheckedVersions[k]
        <5> DEFINE g == store[k].generation + 1
        <5>1. g \in Nat /\ schema \in Schemas \cup {Broken}
          BY <3>2, <4>1 DEF ContractVersions
        <5> HIDE DEF g
        <5>2. [store[k] EXCEPT !.schema = schema, !.generation = g] \in ContractVersions
          BY <4>1, <5>1, Zenon DEF ContractVersions
        <5> QED
          BY <2>1, <5>2 DEF g
      <4> QED
        BY <3>2, <4>2
    <3>3. CASE Write(Only(k, None))
      BY <2>1, <3>3
    <3> QED
      BY <1>2, <3>1, <3>2, <3>3, SameChecks DEF C!EditContract
  <2> QED
    BY <1>2, <2>1, <2>2, WriteDone, SameChecks DEF C!EditContract
<1>3. ASSUME NEW c \in C!AllConnections
      PROVE  CheckedVersions[c] = {None} \cup ConnectionVersions /\ c \in CheckedObjects
  BY <1>1 DEF CheckedVersions, CheckedObjects, Apart
<1>4. ASSUME NEW c \in C!AllConnections, C!DeleteConnection(c)
      PROVE  CheckInv'
  BY <1>3, <1>4, WriteDone, SameChecks DEF C!DeleteConnection
<1>5. ASSUME NEW c \in Handmade, NEW n \in Names, NEW values \in Values \cup {None},
             C!EditConnection(c, n, values)
      PROVE  CheckInv'
  <2>1. c \in C!AllConnections
    BY DEF C!ConnectionsAssumption
  <2> DEFINE v == IF store[c] = None THEN C!NewConnection(n, values, None)
                  ELSE [store[c] EXCEPT !.contract = n, !.values = values]
  <2>2. v \in ConnectionVersions
    <3>1. CASE store[c] = None
      BY <3>1 DEF C!NewConnection, ConnectionVersions, CheckPhases
    <3>2. CASE store[c] # None
      <4>1. store[c] \in ConnectionVersions
        BY <1>1, <2>1, <3>2, CheckTyped DEF CheckInv
      <4> QED
        BY <3>2, <4>1, Zenon DEF ConnectionVersions
    <3> QED
      BY <3>1, <3>2
  <2>3. Write(Only(c, v)) /\ queue' = queue
    BY <1>5, SameChecks DEF C!EditConnection
  <2> HIDE DEF v
  <2> QED
    BY <1>3, <2>1, <2>2, <2>3, WriteDone
<1> QED
  BY <1>2, <1>4, <1>5 DEF C!UserSteps

\* No step of the workers, the cache or a user loses the invariant.
LEMMA CheckNext == C!ConnectionsAssumption /\ CheckInv /\ [C!Next]_(C!vars) => CheckInv'
<1> SUFFICES ASSUME C!ConnectionsAssumption, CheckInv, [C!Next]_(C!vars) PROVE CheckInv'
  OBVIOUS
<1>1. Apart /\ DOMAIN store = CheckedObjects
  BY DEF C!ConnectionsAssumption, Apart, CheckInv, Follows
<1>2. CASE \E o \in DOMAIN store : C!Deliver(o)
  BY <1>1, <1>2, CheckDeliverStep
<1>3. CASE C!CheckSteps
  BY <1>1, <1>3, ReconcileContractStep, ReconcileConnectionStep DEF C!CheckSteps
<1>4. CASE C!UserSteps
  BY <1>4, CheckUserStep
<1>5. CASE UNCHANGED C!vars
  <2>1. UNCHANGED <<store, feed, cache, queue>>
    BY <1>5 DEF C!vars, C!kube
  <2>2. Follows(CheckedObjects, CheckedVersions)'
    BY <2>1 DEF CheckInv, Follows, FollowsAt
  <2>3. ChecksDone'
    BY <2>1 DEF CheckInv, ChecksDone, ContractDone, ConnectionDone, C!Steady, C!ContractPhase,
                C!ResolveContract
  <2> QED
    BY <2>2, <2>3 DEF CheckInv
<1> QED
  BY <1>2, <1>3, <1>4, <1>5 DEF C!Next

\* Once nothing is under way, a connection has the phase and the generation of the contract
\* that counts for it at the server.
LEMMA SettledChecks ==
  ASSUME C!ConnectionsAssumption, CheckInv, C!Settled, NEW c \in C!AllConnections, store[c] # None
  PROVE  LET k == C!Contract(c)
             accepted == IF k = None THEN store[c].values = None
                         ELSE k.schema # Broken /\ store[c].values \in k.schema
         IN /\ store[c].phase = IF accepted THEN "READY" ELSE "ERROR"
            /\ k # None => store[c].generation = k.generation
<1> DEFINE k == C!Contract(c)
           n == store[c].contract
<1>1. Apart /\ DOMAIN feed = CheckedObjects
  BY DEF C!ConnectionsAssumption, Apart, CheckInv, Follows
<1>2. \A o \in CheckedObjects : feed[o] = <<>>
  BY <1>1 DEF C!Settled, C!CaughtUp, C!Current
<1>3. /\ cache[c] = store[c] /\ store[c] \in ConnectionVersions /\ feed[c] = <<>>
      /\ \A j \in C!Contracts : cache[j] = store[j] /\ feed[j] = <<>> /\ j \notin queue
  BY <1>1, <1>2, CheckTyped, Zenon DEF CheckInv, C!Settled, CheckedObjects, Apart
<1>4. C!Local(n) \in C!Contracts /\ C!Global(n) \in C!Contracts
  BY <1>3 DEF C!Local, C!Global, C!Contracts, ConnectionVersions
<1>5. k = C!FindContract(c, cache[c], cache)
  BY <1>3, <1>4 DEF C!Contract, C!FindContract
<1>6. k # None => k.phase = C!ContractPhase(k)
  BY <1>3, <1>4, Zenon DEF C!Contract, C!FindContract, CheckInv, ChecksDone, ContractDone
<1>7. C!Steady(c)
  BY <1>3 DEF CheckInv, ChecksDone, ConnectionDone, C!Settled
<1>8. store[c] = C!ConnectionStatus(k, store[c])
  BY <1>3, <1>5, <1>7 DEF C!Steady
<1> HIDE DEF k
<1>9. /\ store[c].phase = IF C!Checked(k, store[c]) THEN "READY" ELSE "ERROR"
      /\ k # None => store[c].generation = k.generation
  <2> DEFINE v == store[c]
             phase == IF C!Checked(k, v) THEN "READY" ELSE "ERROR"
             generation == IF k = None THEN v.generation ELSE k.generation
  <2>1. v = [v EXCEPT !.phase = phase, !.generation = generation] /\ v \in ConnectionVersions
    BY <1>3, <1>8 DEF C!ConnectionStatus
  <2> HIDE DEF v, phase, generation
  <2>2. v.phase = phase /\ v.generation = generation
    BY <2>1, Zenon DEF ConnectionVersions
  <2> QED
    BY <2>2 DEF v, phase, generation
<1>10. k # None => (k.phase = "READY" <=> k.schema # Broken)
  BY <1>6 DEF C!ContractPhase, C!ResolveContract
<1> QED
  BY <1>9, <1>10 DEF k, C!Checked, C!CheckConnection, C!ResolveContract

\* The controllers of the connections (connection_controller.go and clusterconnection_controller.go)
\* leave no stale check: once settled, a connection is READY exactly when the contract that
\* counts for it at the server accepts its values, for any objects, schemas and edits.
THEOREM ChecksAreCurrent ==
  ASSUME C!ConnectionsAssumption
  PROVE  C!Spec => []C!ChecksFollow
<1>1. CheckInv => C!ChecksFollow
  BY SettledChecks DEF C!ChecksFollow
<1>2. CheckInv /\ [C!Next]_(C!vars) => CheckInv'
  BY CheckNext
<1> QED
  BY CheckInit, <1>1, <1>2, PTL DEF C!Spec

\* Once settled, status.contractGeneration (connection_types.go) is the generation of the
\* contract that counts, for any objects, schemas and edits.
THEOREM ChecksTheLatest ==
  ASSUME C!ConnectionsAssumption
  PROVE  C!Spec => []C!ChecksLatest
<1>1. CheckInv => C!ChecksLatest
  BY SettledChecks DEF C!ChecksLatest
<1>2. CheckInv /\ [C!Next]_(C!vars) => CheckInv'
  BY CheckNext
<1> QED
  BY CheckInit, <1>1, <1>2, PTL DEF C!Spec
=============================================================================
