----------------------------- MODULE KubeProofs -----------------------------
(***************************************************************************)
(* What every step of Kube keeps, for any objects and any versions of each *)
(* of them: the lemmas that the proofs about the controllers rest on.      *)
(***************************************************************************)
EXTENDS Kube, Integers, TLAPS

\* The versions on their way end with the one of the server, and the cache has it when there is
\* none.  V gives the versions of each object.
FollowsAt(o, V) ==
  /\ store[o] \in V[o] /\ cache[o] \in V[o] /\ feed[o] \in Seq(V[o])
  /\ IF feed[o] = <<>> THEN cache[o] = store[o] ELSE feed[o][Len(feed[o])] = store[o]

Follows(Objs, V) ==
  /\ store = [o \in Objs |-> store[o]]
  /\ feed = [o \in Objs |-> feed[o]]
  /\ cache = [o \in Objs |-> cache[o]]
  /\ \A o \in Objs : FollowsAt(o, V)

\* A version that is added is the last one.
LEMMA LastOfAppend ==
  ASSUME NEW S, NEW f \in Seq(S), NEW v \in S
  PROVE  /\ Append(f, v) \in Seq(S) /\ Append(f, v) # <<>>
         /\ Append(f, v)[Len(Append(f, v))] = v
OBVIOUS

\* The first version is taken from the others, and the last one stays last.
LEMMA FirstAndRest ==
  ASSUME NEW S, NEW f \in Seq(S), f # <<>>
  PROVE  /\ Head(f) \in S /\ Tail(f) \in Seq(S)
         /\ IF Tail(f) = <<>> THEN Head(f) = f[Len(f)]
            ELSE Tail(f)[Len(Tail(f))] = f[Len(f)]
<1>1. Head(f) \in S /\ Tail(f) \in Seq(S) /\ Head(f) = f[1]
  OBVIOUS
<1>2. CASE Tail(f) = <<>>
  <2>1. Len(f) \in Nat /\ Len(f) # 0 /\ Len(Tail(f)) = Len(f) - 1
    OBVIOUS
  <2>2. Len(Tail(f)) = 0
    <3>1. Len(<<>>) = 0
      OBVIOUS
    <3> QED
      BY <1>2, <3>1, Zenon
  <2>3. Len(f) = 1
    <3> DEFINE n == Len(f)
               m == Len(Tail(f))
    <3>1. n \in Nat /\ m = n - 1 /\ m = 0
      BY <2>1, <2>2, Zenon
    <3> HIDE DEF n, m
    <3>2. n = 1
      BY <3>1
    <3> QED
      BY <3>2 DEF n
  <2> QED
    BY <1>1, <1>2, <2>3
<1>3. CASE Tail(f) # <<>>
  <2>1. Tail(f)[Len(Tail(f))] = f[Len(f)]
    BY <1>3
  <2> QED
    BY <1>1, <1>3, <2>1
<1> QED
  BY <1>2, <1>3

\* The cache starts with the objects of the server, and none on its way.
LEMMA InitFollows ==
  ASSUME NEW Objs, NEW V, NEW objects, DOMAIN objects = Objs,
         objects = [o \in Objs |-> objects[o]],
         \A o \in Objs : objects[o] \in V[o], KubeInit(objects)
  PROVE  Follows(Objs, V)
<1>1. store = objects /\ cache = objects /\ feed = [o \in Objs |-> <<>>]
  BY DEF KubeInit
<1>2. ASSUME NEW o \in Objs PROVE FollowsAt(o, V)
  <2>1. feed[o] = <<>> /\ <<>> \in Seq(V[o])
    BY <1>1
  <2> QED
    BY <1>1, <2>1 DEF FollowsAt
<1> QED
  BY <1>1, <1>2 DEF Follows

\* A write is what the server has, and the last version on its way if it changes anything.
LEMMA WriteFollows ==
  ASSUME NEW Objs, NEW V, Follows(Objs, V), NEW writes, Write(writes),
         \A o \in Objs : o \in DOMAIN writes => writes[o] \in V[o]
  PROVE  /\ Follows(Objs, V)' /\ cache' = cache
         /\ \A o \in Objs :
              /\ store'[o] = IF o \in DOMAIN writes THEN writes[o] ELSE store[o]
              /\ feed'[o] = IF store'[o] # store[o] THEN Append(feed[o], store'[o]) ELSE feed[o]
              /\ feed'[o] = <<>> => feed[o] = <<>> /\ store'[o] = store[o]
<1>1. DOMAIN store = Objs /\ DOMAIN feed = Objs
  BY DEF Follows
<1>2. /\ store' = [o \in Objs |-> IF o \in DOMAIN writes THEN writes[o] ELSE store[o]]
      /\ feed' = [o \in Objs |-> IF store'[o] # store[o] THEN Append(feed[o], store'[o])
                                 ELSE feed[o]]
      /\ cache' = cache
  BY <1>1 DEF Write
<1>3. ASSUME NEW o \in Objs
      PROVE  /\ FollowsAt(o, V)'
             /\ store'[o] = IF o \in DOMAIN writes THEN writes[o] ELSE store[o]
             /\ feed'[o] = IF store'[o] # store[o] THEN Append(feed[o], store'[o]) ELSE feed[o]
             /\ feed'[o] = <<>> => feed[o] = <<>> /\ store'[o] = store[o]
  <2>1. FollowsAt(o, V)
    BY DEF Follows
  <2>2. /\ store'[o] = IF o \in DOMAIN writes THEN writes[o] ELSE store[o]
        /\ feed'[o] = IF store'[o] # store[o] THEN Append(feed[o], store'[o]) ELSE feed[o]
    BY <1>2
  <2>3. store'[o] \in V[o] /\ feed[o] \in Seq(V[o])
    BY <2>1, <2>2 DEF FollowsAt
  <2>4. CASE store'[o] = store[o]
    BY <1>2, <2>1, <2>2, <2>4 DEF FollowsAt
  <2>5. CASE store'[o] # store[o]
    <3>1. feed'[o] = Append(feed[o], store'[o])
      BY <2>2, <2>5
    <3>2. /\ feed'[o] \in Seq(V[o]) /\ feed'[o] # <<>>
          /\ feed'[o][Len(feed'[o])] = store'[o]
      <4> DEFINE f == feed[o]
                 v == store'[o]
      <4>1. f \in Seq(V[o]) /\ v \in V[o] /\ feed'[o] = Append(f, v)
        BY <2>3, <3>1
      <4> HIDE DEF f, v
      <4>2. /\ Append(f, v) \in Seq(V[o]) /\ Append(f, v) # <<>>
            /\ Append(f, v)[Len(Append(f, v))] = v
        BY <4>1, LastOfAppend
      <4> QED
        BY <4>1, <4>2, Zenon DEF v
    <3> QED
      BY <1>2, <2>1, <2>2, <2>3, <3>2 DEF FollowsAt
  <2> QED
    BY <2>4, <2>5
<1> QED
  BY <1>2, <1>3, Zenon DEF Follows

\* The same for the write of one object.
LEMMA OnlyFollows ==
  ASSUME NEW Objs, NEW V, Follows(Objs, V), NEW w \in Objs, NEW v \in V[w], Write(Only(w, v))
  PROVE  /\ Follows(Objs, V)' /\ cache' = cache
         /\ store'[w] = v
         /\ feed'[w] = IF v # store[w] THEN Append(feed[w], v) ELSE feed[w]
         /\ \A o \in Objs \ {w} : store'[o] = store[o] /\ feed'[o] = feed[o]
         /\ \A o \in Objs : feed'[o] = <<>> => feed[o] = <<>> /\ store'[o] = store[o]
<1>1. DOMAIN Only(w, v) = {w} /\ Only(w, v)[w] = v
  BY DEF Only
<1> DEFINE writes == Only(w, v)
<1>2. Write(writes) /\ \A o \in Objs : o \in DOMAIN writes => writes[o] \in V[o]
  BY <1>1
<1> HIDE DEF writes
<1>3. /\ Follows(Objs, V)' /\ cache' = cache
      /\ \A o \in Objs :
           /\ store'[o] = IF o \in DOMAIN writes THEN writes[o] ELSE store[o]
           /\ feed'[o] = IF store'[o] # store[o] THEN Append(feed[o], store'[o]) ELSE feed[o]
           /\ feed'[o] = <<>> => feed[o] = <<>> /\ store'[o] = store[o]
  BY <1>2, WriteFollows
<1> QED
  BY <1>1, <1>3 DEF writes

\* The object that a conditional write names.
LEMMA WhenOnly ==
  ASSUME NEW condition, NEW o, NEW version
  PROVE  /\ DOMAIN When(condition, Only(o, version)) = IF condition THEN {o} ELSE {}
         /\ condition => When(condition, Only(o, version))[o] = version
BY DEF When, Only, NoWrites

\* The objects that joined writes name.
LEMMA JoinedWrites ==
  ASSUME NEW writes, NEW others
  PROVE  /\ DOMAIN Joined(writes, others) = DOMAIN writes \cup DOMAIN others
         /\ \A o \in DOMAIN writes : Joined(writes, others)[o] = writes[o]
         /\ \A o \in DOMAIN others \ DOMAIN writes : Joined(writes, others)[o] = others[o]
BY DEF Joined

\* The objects that three joined writes of different objects name, each on a condition.
LEMMA ThreeWrites ==
  ASSUME NEW a, NEW b, NEW c, NEW o, NEW p, NEW q, NEW u, NEW v, NEW w,
         a /\ b => o # p, a /\ c => o # q, b /\ c => p # q
  PROVE  LET writes == Joined(When(a, Only(o, u)), Joined(When(b, Only(p, v)), When(c, Only(q, w))))
         IN /\ \A x : x \in DOMAIN writes <=> (x = o /\ a) \/ (x = p /\ b) \/ (x = q /\ c)
            /\ a => writes[o] = u
            /\ b => writes[p] = v
            /\ c => writes[q] = w
<1> DEFINE first == When(a, Only(o, u))
           second == When(b, Only(p, v))
           third == When(c, Only(q, w))
           rest == Joined(second, third)
<1>1. /\ DOMAIN first = (IF a THEN {o} ELSE {}) /\ (a => first[o] = u)
      /\ DOMAIN second = (IF b THEN {p} ELSE {}) /\ (b => second[p] = v)
      /\ DOMAIN third = (IF c THEN {q} ELSE {}) /\ (c => third[q] = w)
  BY WhenOnly, Zenon
<1> HIDE DEF first, second, third
<1>2. /\ DOMAIN rest = DOMAIN second \cup DOMAIN third
      /\ b => rest[p] = v
      /\ c => rest[q] = w
  <2>1. /\ DOMAIN rest = DOMAIN second \cup DOMAIN third
        /\ \A x \in DOMAIN second : rest[x] = second[x]
        /\ \A x \in DOMAIN third \ DOMAIN second : rest[x] = third[x]
    BY JoinedWrites
  <2> HIDE DEF rest
  <2>2. b => rest[p] = v
    BY <1>1, <2>1
  <2>3. c => rest[q] = w
    BY <1>1, <2>1
  <2> QED
    BY <2>1, <2>2, <2>3
<1> HIDE DEF rest
<1> DEFINE all == Joined(first, rest)
<1>3. /\ DOMAIN all = DOMAIN first \cup DOMAIN rest
      /\ \A x \in DOMAIN first : all[x] = first[x]
      /\ \A x \in DOMAIN rest \ DOMAIN first : all[x] = rest[x]
  BY JoinedWrites
<1> HIDE DEF all
<1>4. a => all[o] = u
  BY <1>1, <1>3
<1>5. b => all[p] = v
  BY <1>1, <1>2, <1>3
<1>6. c => all[q] = w
  BY <1>1, <1>2, <1>3
<1>7. \A x : x \in DOMAIN all <=> (x = o /\ a) \/ (x = p /\ b) \/ (x = q /\ c)
  BY <1>1, <1>2, <1>3
<1> QED
  BY <1>4, <1>5, <1>6, <1>7 DEF first, second, third, rest, all

\* Nothing happens without a write.
LEMMA NoWriteFollows ==
  ASSUME NEW Objs, NEW V, Follows(Objs, V), Write(NoWrites)
  PROVE  UNCHANGED <<store, feed, cache>>
<1>1. DOMAIN NoWrites = {}
  BY DEF NoWrites
<1>2. store' = store
  BY <1>1 DEF Write, Follows
<1> QED
  BY <1>2 DEF Write, Follows

\* A version that arrives leaves the others on their way.
LEMMA ReceiveFollows ==
  ASSUME NEW Objs, NEW V, Follows(Objs, V), NEW r \in Objs, Receive(r)
  PROVE  /\ Follows(Objs, V)' /\ store' = store
         /\ cache'[r] = Head(feed[r]) /\ feed'[r] = Tail(feed[r]) /\ feed[r] # <<>>
         /\ \A o \in Objs \ {r} : cache'[o] = cache[o] /\ feed'[o] = feed[o]
<1> DEFINE f == feed[r]
<1>1. FollowsAt(r, V) /\ DOMAIN cache = Objs /\ DOMAIN feed = Objs
  BY DEF Follows
<1>2. f \in Seq(V[r]) /\ f # <<>> /\ store' = store /\ f[Len(f)] = store[r]
  BY <1>1 DEF FollowsAt, Receive
<1>3. feed'[r] = Tail(f) /\ cache'[r] = Head(f)
  BY <1>1 DEF Receive
<1>4. /\ Head(f) \in V[r] /\ Tail(f) \in Seq(V[r])
      /\ IF Tail(f) = <<>> THEN Head(f) = f[Len(f)] ELSE Tail(f)[Len(Tail(f))] = f[Len(f)]
  <2> HIDE DEF f
  <2> QED
    BY <1>2, FirstAndRest
<1>5. \A o \in Objs \ {r} : cache'[o] = cache[o] /\ feed'[o] = feed[o]
  BY <1>1 DEF Receive
<1>6. /\ cache' = [o \in Objs |-> cache'[o]] /\ feed' = [o \in Objs |-> feed'[o]]
      /\ store' = [o \in Objs |-> store'[o]]
  BY <1>1, <1>2, Zenon DEF Receive, Follows
<1>7. FollowsAt(r, V)'
  BY <1>1, <1>2, <1>3, <1>4 DEF FollowsAt
<1>8. ASSUME NEW o \in Objs \ {r} PROVE FollowsAt(o, V)'
  BY <1>2, <1>5 DEF Follows, FollowsAt
<1> QED
  BY <1>2, <1>3, <1>5, <1>6, <1>7, <1>8 DEF Follows

\* A manager that starts has every object in its cache.
LEMMA RelistFollows ==
  ASSUME NEW Objs, NEW V, Follows(Objs, V), Relist
  PROVE  Follows(Objs, V)' /\ store' = store /\ \A o \in Objs : cache'[o] = store[o]
<1>1. store' = store /\ cache' = store /\ feed' = [o \in Objs |-> <<>>]
  BY DEF Relist, Follows
<1>2. ASSUME NEW o \in Objs PROVE FollowsAt(o, V)'
  <2>1. feed'[o] = <<>> /\ <<>> \in Seq(V[o])
    BY <1>1
  <2> QED
    BY <1>1, <2>1 DEF FollowsAt, Follows
<1> QED
  BY <1>1, <1>2 DEF Follows

----------------------------------------------------------------------------
(* The owner of an object, which none of its updates changes               *)

\* The versions of an object since it was created last have the owner that it has now, where s
\* is the version of the server, f the versions on their way, c the one of the cache and none
\* stands for no object.
OwnerKept(s, f, c, none) ==
  s # none =>
    /\ \A i \in 1 .. Len(f) : (\A j \in i .. Len(f) : f[j] # none) => f[i].owner = s.owner
    /\ (c # none /\ \A i \in DOMAIN f : f[i] # none) => c.owner = s.owner

\* An object of which no version on its way is a deletion is the one that was read, and has
\* its owner.
LEMMA SameOwner ==
  ASSUME NEW S, NEW none, NEW s, NEW f \in Seq(S), NEW c, OwnerKept(s, f, c, none),
         IF f = <<>> THEN c = s ELSE f[Len(f)] = s,
         c # none, \A i \in DOMAIN f : f[i] # none
  PROVE  s # none /\ c.owner = s.owner
<1>1. CASE f = <<>>
  BY <1>1 DEF OwnerKept
<1>2. CASE f # <<>>
  <2>1. Len(f) \in DOMAIN f
    BY <1>2
  <2> QED
    BY <1>2, <2>1 DEF OwnerKept
<1> QED
  BY <1>1, <1>2

\* An update keeps the owner, and a creation begins with its own.
LEMMA OwnerWritten ==
  ASSUME NEW S, NEW none, NEW s, NEW f \in Seq(S), NEW c, NEW v \in S, OwnerKept(s, f, c, none),
         IF f = <<>> THEN c = s ELSE f[Len(f)] = s,
         s # none /\ v # none => v.owner = s.owner
  PROVE  OwnerKept(v, Append(f, v), c, none)
<1> DEFINE n == Len(f)
           g == Append(f, v)
<1> SUFFICES ASSUME v # none
             PROVE  OwnerKept(v, g, c, none)
  BY DEF OwnerKept
<1>1. n \in Nat /\ (n # 0 => f[n] = s) /\ (n = 0 => c = s) /\ DOMAIN f = 1 .. n
  OBVIOUS
<1>2. /\ Len(g) = n + 1 /\ g[n + 1] = v /\ DOMAIN g = 1 .. n + 1
      /\ \A i \in 1 .. n : g[i] = f[i]
  OBVIOUS
<1> HIDE DEF n, g
<1>3. ASSUME NEW i \in 1 .. n, \A j \in i .. n : f[j] # none
      PROVE  f[i].owner = v.owner
  <2>1. s # none
    BY <1>1, <1>3
  <2> QED
    BY <1>3, <2>1 DEF OwnerKept, n
<1>4. ASSUME NEW i \in 1 .. n + 1, \A j \in i .. n + 1 : g[j] # none
      PROVE  g[i].owner = v.owner
  <2>1. CASE i = n + 1
    BY <1>2, <2>1
  <2>2. CASE i # n + 1
    <3>1. i \in 1 .. n /\ \A j \in i .. n : f[j] # none
      BY <1>1, <1>2, <1>4, <2>2
    <3> QED
      BY <1>2, <1>3, <3>1
  <2> QED
    BY <2>1, <2>2
<1>5. ASSUME c # none, \A i \in DOMAIN g : g[i] # none
      PROVE  c.owner = v.owner
  <2>1. \A i \in DOMAIN f : f[i] # none
    BY <1>1, <1>2, <1>5
  <2> QED
    BY <1>5, <2>1, SameOwner
<1> QED
  BY <1>2, <1>4, <1>5 DEF OwnerKept

\* A version that arrives has the owner that the later ones kept.
LEMMA OwnerReceived ==
  ASSUME NEW S, NEW none, NEW s, NEW f \in Seq(S), NEW c, OwnerKept(s, f, c, none), f # <<>>
  PROVE  OwnerKept(s, Tail(f), Head(f), none)
<1> DEFINE n == Len(f)
           g == Tail(f)
<1> SUFFICES ASSUME s # none
             PROVE  OwnerKept(s, g, Head(f), none)
  BY DEF OwnerKept
<1>1. \A i \in 1 .. n : (\A j \in i .. n : f[j] # none) => f[i].owner = s.owner
  BY DEF OwnerKept
<1>2. /\ n \in Nat /\ n >= 1 /\ Head(f) = f[1] /\ Len(g) = n - 1
      /\ DOMAIN g = 1 .. n - 1 /\ \A i \in 1 .. n - 1 : g[i] = f[i + 1]
  OBVIOUS
<1> HIDE DEF n, g
<1>3. ASSUME NEW i \in 1 .. n - 1, \A j \in i .. n - 1 : g[j] # none
      PROVE  g[i].owner = s.owner
  <2>1. i + 1 \in 1 .. n
    BY <1>2
  <2>2. ASSUME NEW j \in i + 1 .. n PROVE f[j] # none
    <3>1. j - 1 \in i .. n - 1 /\ j - 1 \in 1 .. n - 1 /\ (j - 1) + 1 = j
      BY <1>2
    <3> QED
      BY <1>2, <1>3, <3>1
  <2> QED
    BY <1>1, <1>2, <2>1, <2>2
<1>4. ASSUME Head(f) # none, \A i \in DOMAIN g : g[i] # none
      PROVE  Head(f).owner = s.owner
  <2>1. ASSUME NEW j \in 1 .. n PROVE f[j] # none
    <3>1. CASE j = 1
      BY <1>2, <1>4, <3>1
    <3>2. CASE j # 1
      <4>1. j - 1 \in 1 .. n - 1 /\ (j - 1) + 1 = j
        BY <1>2, <3>2
      <4> QED
        BY <1>2, <1>4, <4>1
    <3> QED
      BY <3>1, <3>2
  <2> QED
    BY <1>1, <1>2, <2>1
<1> QED
  BY <1>2, <1>3, <1>4 DEF OwnerKept

\* An object that is replaced begins with another owner, after the version without it.
LEMMA OwnerReplaced ==
  ASSUME NEW S, NEW none \in S, NEW f \in Seq(S), NEW c, NEW v \in S
  PROVE  LET g == Append(Append(f, none), v)
         IN /\ OwnerKept(v, g, c, none) /\ g \in Seq(S) /\ g # <<>> /\ g[Len(g)] = v
            /\ \E i \in DOMAIN g : g[i] = none
            /\ \A i \in DOMAIN f : i \in DOMAIN g /\ g[i] = f[i]
<1> DEFINE h == Append(f, none)
           g == Append(h, v)
           n == Len(f)
<1>1. /\ h \in Seq(S) /\ n \in Nat /\ Len(h) = n + 1 /\ h[n + 1] = none
      /\ DOMAIN f = 1 .. n /\ \A i \in 1 .. n : h[i] = f[i]
  OBVIOUS
<1> HIDE DEF h, n
<1>2. /\ g \in Seq(S) /\ Len(g) = (n + 1) + 1 /\ g[n + 1] = h[n + 1]
      /\ g[(n + 1) + 1] = v /\ DOMAIN g = 1 .. (n + 1) + 1
      /\ \A i \in 1 .. n : g[i] = h[i]
  BY <1>1
<1>3. g # <<>>
  BY <1>1, <1>2
<1> HIDE DEF g
<1>4. n + 1 \in DOMAIN g /\ g[n + 1] = none
  BY <1>1, <1>2
<1>5. ASSUME NEW i \in 1 .. Len(g), \A j \in i .. Len(g) : g[j] # none
      PROVE  i = Len(g)
  BY <1>1, <1>2, <1>4, <1>5
<1>6. OwnerKept(v, g, c, none)
  BY <1>2, <1>4, <1>5 DEF OwnerKept
<1>7. \A i \in DOMAIN f : i \in DOMAIN g /\ g[i] = f[i]
  BY <1>1, <1>2
<1> QED
  BY <1>2, <1>3, <1>4, <1>6, <1>7 DEF g, h
=============================================================================
