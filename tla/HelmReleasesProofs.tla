------------------------- MODULE HelmReleasesProofs -------------------------
(***************************************************************************)
(* Proofs about the HelmReleases of a Release, for any modules, specs,     *)
(* lags, edits and failures: once nothing is under way the modules are     *)
(* deployed as the Release wants them, no pass touches a HelmRelease of    *)
(* another owner, and READY means deployed when the HelmReleases are read  *)
(* without lag.                                                            *)
(***************************************************************************)
EXTENDS HelmReleases, KubeProofs

HelmObjects == Names \cup {rel}
ModuleStates == {"", "True", "False", "Unknown"}

\* A report is about a spec that the HelmRelease had when its condition was set, or earlier.
OrderedVersions ==
  {v \in HelmVersions : v.observed <= v.readyGeneration /\ v.readyGeneration <= v.generation}

StatesMaps == UNION {[D -> ModuleStates] : D \in SUBSET Names}
ReleaseVersions ==
  {v \in [wants : Renderings, suspended : BOOLEAN,
          phase : {"", "ERROR", "SUSPENDED", "WAIT_HREL", "READY"},
          states : StatesMaps, message : {None} \cup Names] :
     v.message \in {None} \cup DOMAIN v.states}

HelmVersionsOf ==
  [o \in HelmObjects |-> IF o = rel THEN ReleaseVersions ELSE {None} \cup OrderedVersions]
HelmReads == [generation : Nat, spec : Specs]

\* No event that is on its way for a module makes a pass.
OwnedByRelease(v) == v # None /\ v.owner = rel
Quiet(m) ==
  \/ feed[m] = <<>>
  \/ ~OwnedByRelease(cache[m]) /\ \A i \in DOMAIN feed[m] : ~OwnedByRelease(feed[m][i])

\* What the status v of the Release says of a module is what the cache has.
RightFor(v, m) ==
  IF v.wants[m] = None THEN ~OwnedByRelease(cache[m]) \/ cache[m].deleting
  ELSE /\ OwnedByRelease(cache[m]) /\ cache[m].spec = v.wants[m]
       /\ v.states[m] = computeHelmReleaseState(cache[m])
StatusRight(v) ==
  /\ DOMAIN v.states = {m \in Names : v.wants[m] # None}
  /\ v.phase = IF NotReady(v.states) = {} THEN "READY" ELSE "WAIT_HREL"
  /\ \A m \in Names : Quiet(m) => RightFor(v, m)

\* A Release without a request, and with no event on its way that makes one, has a status that
\* is right.
NoneMissed ==
  ~queued /\ feed[rel] = <<>> /\ ~store[rel].suspended => StatusRight(store[rel])

HelmCluster ==
  /\ Follows(HelmObjects, HelmVersionsOf)
  /\ \A m \in Names : OwnerKept(store[m], feed[m], cache[m], None)

HelmReading ==
  /\ helm \in [Names -> {None} \cup HelmReads]
  /\ \A m \in Names :
       helm[m] # None => store[m] # None /\ helm[m].generation <= store[m].generation

HelmInv == HelmCluster /\ HelmReading /\ queued \in BOOLEAN /\ NoneMissed

----------------------------------------------------------------------------
(* What the server, the cache and the feed hold                            *)

\* The versions of a module and of the Release.
LEMMA HelmTyped ==
  ASSUME HelmAssumption, Follows(HelmObjects, HelmVersionsOf)
  PROVE  /\ rel \in HelmObjects /\ HelmVersionsOf[rel] = ReleaseVersions
         /\ store[rel] \in ReleaseVersions /\ cache[rel] \in ReleaseVersions
         /\ feed[rel] = <<>> => cache[rel] = store[rel]
         /\ \A m \in Names :
              /\ m \in HelmObjects /\ m # rel /\ HelmVersionsOf[m] = {None} \cup OrderedVersions
              /\ store[m] # None => store[m] \in OrderedVersions
              /\ cache[m] # None => cache[m] \in OrderedVersions
              /\ feed[m] \in Seq(HelmVersionsOf[m])
              /\ IF feed[m] = <<>> THEN cache[m] = store[m] ELSE feed[m][Len(feed[m])] = store[m]
<1>1. rel \in HelmObjects /\ HelmVersionsOf[rel] = ReleaseVersions
  BY DEF HelmObjects, HelmVersionsOf
<1>2. FollowsAt(rel, HelmVersionsOf)
  BY <1>1 DEF Follows
<1>3. /\ store[rel] \in ReleaseVersions /\ cache[rel] \in ReleaseVersions
      /\ feed[rel] = <<>> => cache[rel] = store[rel]
  BY <1>1, <1>2 DEF FollowsAt
<1>4. ASSUME NEW m \in Names
      PROVE  /\ m \in HelmObjects /\ m # rel /\ HelmVersionsOf[m] = {None} \cup OrderedVersions
             /\ store[m] # None => store[m] \in OrderedVersions
             /\ cache[m] # None => cache[m] \in OrderedVersions
             /\ feed[m] \in Seq(HelmVersionsOf[m])
             /\ IF feed[m] = <<>> THEN cache[m] = store[m] ELSE feed[m][Len(feed[m])] = store[m]
  <2>1. m \in HelmObjects /\ m # rel
    BY Zenon DEF HelmObjects, HelmAssumption
  <2>2. HelmVersionsOf[m] = {None} \cup OrderedVersions
    BY <2>1 DEF HelmVersionsOf
  <2>3. FollowsAt(m, HelmVersionsOf)
    BY <2>1 DEF Follows
  <2> QED
    BY <2>1, <2>2, <2>3 DEF FollowsAt
<1> QED
  BY <1>1, <1>3, <1>4

\* No version stands for a missing HelmRelease.
LEMMA OrderedIsThere ==
  ASSUME HelmAssumption, NEW v \in OrderedVersions
  PROVE  v \in HelmVersions /\ v # None
BY Zenon DEF OrderedVersions, HelmAssumption

\* A HelmRelease with the UID of the one that was read is there, with the same owner.
LEMMA SameHelmRelease ==
  ASSUME HelmAssumption, HelmCluster, NEW m \in Names, SameUID(m)
  PROVE  /\ store[m] \in OrderedVersions /\ cache[m] \in OrderedVersions
         /\ store[m] # None /\ store[m].owner = cache[m].owner
<1>1. /\ feed[m] \in Seq(HelmVersionsOf[m])
      /\ IF feed[m] = <<>> THEN cache[m] = store[m] ELSE feed[m][Len(feed[m])] = store[m]
  BY HelmTyped DEF HelmCluster
<1>2. store[m] # None /\ cache[m].owner = store[m].owner
  BY <1>1, SameOwner DEF HelmCluster, SameUID
<1> QED
  BY <1>2, HelmTyped DEF HelmCluster, SameUID

----------------------------------------------------------------------------
(* The versions of a HelmRelease                                           *)

\* A new HelmRelease has no report.
LEMMA NewOrdered ==
  ASSUME NEW owner \in {rel, "user"}, NEW spec \in Specs
  PROVE  /\ NewHelmRelease(owner, spec) \in OrderedVersions
         /\ NewHelmRelease(owner, spec).owner = owner
<1> DEFINE v == NewHelmRelease(owner, spec)
<1>1. v \in HelmVersions /\ v.observed = 0 /\ v.readyGeneration = 0 /\ v.generation = 1
  BY DEF NewHelmRelease, HelmVersions
<1>2. v.owner = owner
  BY DEF NewHelmRelease
<1> HIDE DEF v
<1>3. v \in OrderedVersions
  BY <1>1 DEF OrderedVersions
<1> QED
  BY <1>2, <1>3 DEF v

\* The numbers of a version.
LEMMA Generations ==
  ASSUME NEW v \in OrderedVersions
  PROVE  /\ v.observed \in Nat /\ v.readyGeneration \in Nat /\ v.generation \in Nat
         /\ v.generation + 1 \in Nat /\ v.generation + 1 # v.generation
         /\ v.generation <= v.generation + 1 /\ v.generation <= v.generation
         /\ v.observed <= v.readyGeneration /\ v.readyGeneration <= v.generation
         /\ v.readyGeneration <= v.generation + 1
<1> DEFINE o == v.observed
           r == v.readyGeneration
           g == v.generation
<1>1. o \in Nat /\ r \in Nat /\ g \in Nat /\ o <= r /\ r <= g
  BY Zenon DEF OrderedVersions, HelmVersions
<1> HIDE DEF o, r, g
<1>2. g + 1 \in Nat /\ g + 1 # g /\ g <= g + 1 /\ g <= g /\ r <= g + 1
  BY <1>1
<1> QED
  BY <1>1, <1>2 DEF o, r, g

\* A changed spec or a suspension gives the next generation.
NextVersion(v, spec, suspend) ==
  [v EXCEPT !.spec = spec, !.suspend = suspend, !.generation = v.generation + 1]

\* It leaves the rest.
LEMMA NextOrdered ==
  ASSUME NEW v \in OrderedVersions, NEW spec \in Specs, NEW suspend \in BOOLEAN
  PROVE  LET w == NextVersion(v, spec, suspend)
         IN /\ w \in OrderedVersions /\ w.owner = v.owner /\ w.suspend = suspend
            /\ w.spec = spec /\ w.generation = v.generation + 1 /\ w.observed = v.observed
            /\ w.ready = v.ready /\ w.readyGeneration = v.readyGeneration /\ w # v
            /\ v.generation <= w.generation
<1> DEFINE g == v.generation + 1
           w == [v EXCEPT !.spec = spec, !.suspend = suspend, !.generation = g]
<1>1. /\ g \in Nat /\ g # v.generation /\ v.observed <= v.readyGeneration
      /\ v.readyGeneration <= g /\ v.generation <= g
  BY Generations
<1>2. v \in HelmVersions
  BY DEF OrderedVersions
<1> HIDE DEF g
<1>3. /\ w \in HelmVersions /\ w.owner = v.owner /\ w.suspend = suspend
      /\ w.spec = spec /\ w.generation = g /\ w.observed = v.observed
      /\ w.ready = v.ready /\ w.readyGeneration = v.readyGeneration
  BY <1>1, <1>2, Zenon DEF HelmVersions
<1> HIDE DEF w
<1>4. w \in OrderedVersions
  BY <1>1, <1>3 DEF OrderedVersions
<1> QED
  BY <1>1, <1>3, <1>4, Zenon DEF w, g, NextVersion

\* A deletion leaves the rest.
LEMMA DeletingOrdered ==
  ASSUME NEW v \in OrderedVersions
  PROVE  LET w == [v EXCEPT !.deleting = TRUE]
         IN /\ w \in OrderedVersions /\ w.owner = v.owner /\ w.suspend = v.suspend
            /\ w.deleting /\ v.generation <= w.generation
<1> DEFINE w == [v EXCEPT !.deleting = TRUE]
<1>1. v \in HelmVersions /\ v.observed <= v.readyGeneration /\ v.readyGeneration <= v.generation
  BY DEF OrderedVersions
<1>2. /\ w \in HelmVersions /\ w.owner = v.owner /\ w.suspend = v.suspend /\ w.deleting
      /\ w.observed = v.observed /\ w.readyGeneration = v.readyGeneration
      /\ w.generation = v.generation
  BY <1>1, Zenon DEF HelmVersions
<1>3. v.generation <= v.generation
  BY Generations
<1> HIDE DEF w
<1> QED
  BY <1>1, <1>2, <1>3, Zenon DEF OrderedVersions, w

----------------------------------------------------------------------------
(* What a pass does with a module                                          *)

\* The merge patch changes the spec of the version of the server only.
LEMMA PopulatedOrdered ==
  ASSUME HelmAssumption, HelmCluster, NEW m \in Names, SameUID(m), NEW spec \in Specs
  PROVE  LET v == Populated(m, spec)
         IN /\ v \in OrderedVersions /\ v.owner = store[m].owner /\ v.suspend = store[m].suspend
            /\ store[m].generation <= v.generation
            /\ v = store[m] => spec = cache[m].spec \/ spec = store[m].spec
            /\ cache[m] = store[m] => v.spec = spec
<1> DEFINE w == [store[m] EXCEPT !.spec = spec, !.generation = store[m].generation + 1]
           u == NextVersion(store[m], spec, store[m].suspend)
<1>1. store[m] \in OrderedVersions
  BY SameHelmRelease
<1>2. store[m] \in HelmVersions /\ store[m].suspend \in BOOLEAN
  BY <1>1, Zenon DEF OrderedVersions, HelmVersions
<1>3. /\ u \in OrderedVersions /\ u.owner = store[m].owner /\ u.suspend = store[m].suspend
      /\ u.spec = spec /\ u # store[m] /\ store[m].generation <= u.generation
      /\ store[m].generation <= store[m].generation
  BY Generations, <1>1, <1>2, NextOrdered
<1>4. w = u
  BY <1>2, Zenon DEF HelmVersions, NextVersion
<1>5. Populated(m, spec) = IF spec # cache[m].spec /\ spec # store[m].spec THEN w ELSE store[m]
  BY DEF Populated
<1> HIDE DEF w, u
<1> QED
  BY <1>1, <1>3, <1>4, <1>5

\* A version that the pass can write for a module.
ModuleWrite(m, v) ==
  /\ v \in OrderedVersions /\ v.owner = rel
  /\ store[m] # None => /\ store[m].owner = rel /\ v.suspend = store[m].suspend
                        /\ store[m].generation <= v.generation

\* The states are those of the condition of the version, or Unknown.
LEMMA StateTyped ==
  ASSUME NEW v \in OrderedVersions
  PROVE  computeHelmReleaseState(v) \in ModuleStates
<1>1. v.ready \in {"", "True", "False"}
  BY Zenon DEF OrderedVersions, HelmVersions
<1> QED
  BY <1>1, Zenon DEF computeHelmReleaseState, ModuleStates

\* An enabled module has the version that the pass writes, and its state.
LEMMA EnableResult ==
  ASSUME HelmAssumption, HelmCluster, NEW m \in Names, NEW spec \in Specs
  PROVE  LET out == Enable(m, spec)
         IN /\ out.error \in BOOLEAN
            /\ out.error => /\ out.write = None
                            /\ cache[m] = store[m] /\ feed[m] = <<>> =>
                                 cache[m] # None /\ cache[m].owner # rel
            /\ ~out.error =>
                 /\ ModuleWrite(m, out.write) /\ out.write # None /\ out.state \in ModuleStates
                 /\ \/ cache[m] = None /\ store[m] = None /\ out.state = "Unknown"
                    \/ /\ OwnedByRelease(cache[m]) /\ SameUID(m)
                       /\ out.write = Populated(m, spec)
                       /\ out.state = computeHelmReleaseState(out.write)
<1>1. CASE cache[m] = None
  <2>1. CASE store[m] = None
    <3>1. Enable(m, spec) = Done(NewHelmRelease(rel, spec), "Unknown")
      BY <1>1, <2>1 DEF Enable
    <3>2. /\ NewHelmRelease(rel, spec) \in OrderedVersions
          /\ NewHelmRelease(rel, spec).owner = rel
          /\ NewHelmRelease(rel, spec) # None
      BY NewOrdered, OrderedIsThere
    <3> QED
      BY <1>1, <2>1, <3>1, <3>2 DEF Done, ModuleWrite, ModuleStates
  <2>2. CASE store[m] # None
    BY <1>1, <2>2 DEF Enable, Failed
  <2> QED
    BY <2>1, <2>2
<1>2. CASE cache[m] # None /\ (cache[m].owner # rel \/ ~SameUID(m))
  <2>1. Enable(m, spec) = Failed
    BY <1>2 DEF Enable
  <2>2. feed[m] = <<>> => SameUID(m)
    BY <1>2 DEF SameUID
  <2> QED
    BY <1>2, <2>1, <2>2 DEF Failed
<1>3. CASE cache[m] # None /\ cache[m].owner = rel /\ SameUID(m)
  <2> DEFINE v == Populated(m, spec)
  <2>1. Enable(m, spec) = Done(v, computeHelmReleaseState(v))
    BY <1>3 DEF Enable
  <2>2. /\ v \in OrderedVersions /\ v.owner = rel /\ v.suspend = store[m].suspend
        /\ store[m].owner = rel /\ store[m].generation <= v.generation
    BY <1>3, PopulatedOrdered, SameHelmRelease
  <2>3. v # None /\ computeHelmReleaseState(v) \in ModuleStates
    BY <2>2, OrderedIsThere, StateTyped
  <2> HIDE DEF v
  <2>4. ModuleWrite(m, v)
    BY <2>2 DEF ModuleWrite
  <2> QED
    BY <1>3, <2>1, <2>3, <2>4 DEF Done, OwnedByRelease, v
<1> QED
  BY <1>1, <1>2, <1>3

\* A module that is disabled has a deletion to write, if the Release controls its HelmRelease.
LEMMA DisableResult ==
  ASSUME HelmAssumption, HelmCluster, NEW m \in Names
  PROVE  LET out == Disable(m)
         IN /\ out.error \in BOOLEAN
            /\ out.error => out.write = None /\ feed[m] # <<>>
            /\ ~out.error =>
                 /\ out.state = None
                 /\ \/ ~OwnedByRelease(cache[m]) /\ out.write = None
                    \/ /\ OwnedByRelease(cache[m]) /\ SameUID(m) /\ ModuleWrite(m, out.write)
                       /\ out.write # None /\ out.write.deleting
<1>1. CASE cache[m] = None \/ cache[m].owner # rel
  BY <1>1, Zenon DEF Disable, Done, OwnedByRelease
<1>2. CASE cache[m] # None /\ cache[m].owner = rel /\ ~SameUID(m)
  <2>1. feed[m] # <<>>
    BY <1>2 DEF SameUID
  <2> QED
    BY <1>2, <2>1 DEF Disable, Failed
<1>3. CASE cache[m] # None /\ cache[m].owner = rel /\ SameUID(m)
  <2> DEFINE v == [store[m] EXCEPT !.deleting = TRUE]
  <2>1. Disable(m) = Done(v, None)
    BY <1>3 DEF Disable
  <2>2. store[m] \in OrderedVersions /\ store[m].owner = rel
    BY <1>3, SameHelmRelease
  <2>3. /\ v \in OrderedVersions /\ v.owner = rel /\ v.suspend = store[m].suspend
        /\ v.deleting /\ store[m].generation <= v.generation
    BY <2>2, DeletingOrdered
  <2> HIDE DEF v
  <2>4. ModuleWrite(m, v) /\ v # None
    BY <2>2, <2>3, OrderedIsThere DEF ModuleWrite
  <2> QED
    BY <1>3, <2>1, <2>3, <2>4 DEF Done, OwnedByRelease
<1> QED
  BY <1>1, <1>2, <1>3

\* The result of a module.
Handled(m, v, fails) == handleHelmRelease(m, v.wants[m], fails)

\* A spec of the Release.
LEMMA WantsTyped ==
  ASSUME HelmAssumption, NEW v \in ReleaseVersions, NEW m \in Names
  PROVE  v.wants[m] \in Specs
<1>1. v.wants \in Renderings
  BY Zenon DEF ReleaseVersions
<1> QED
  BY <1>1 DEF Specs

\* The pass writes versions of modules that it may write.
LEMMA HandledResult ==
  ASSUME HelmAssumption, HelmCluster, NEW v \in ReleaseVersions, NEW m \in Names, NEW fails
  PROVE  LET out == Handled(m, v, fails)
         IN /\ out.error \in BOOLEAN
            /\ out.write # None => ModuleWrite(m, out.write)
            /\ out.error => out.write = None
            /\ out.error /\ fails # m /\ feed[m] = <<>> => v.wants[m] # None /\ store[m] # None
                                                        /\ store[m].owner # rel
            /\ ~out.error => out.state \in {None} \cup ModuleStates
            /\ ~out.error => (out.state # None <=> v.wants[m] # None)
            /\ ~out.error => fails # m
<1> DEFINE spec == v.wants[m]
<1>1. spec \in Specs
  BY WantsTyped
<1>2. feed[m] = <<>> => cache[m] = store[m]
  BY HelmTyped DEF HelmCluster
<1>3. CASE fails = m
  BY <1>3 DEF Handled, handleHelmRelease, Failed
<1>4. CASE fails # m /\ spec = None
  <2>1. Handled(m, v, fails) = Disable(m)
    BY <1>4 DEF Handled, handleHelmRelease
  <2> QED
    BY <1>4, <2>1, DisableResult
<1>5. CASE fails # m /\ spec # None
  <2>1. Handled(m, v, fails) = Enable(m, spec)
    BY <1>5 DEF Handled, handleHelmRelease
  <2>2. None \notin ModuleStates
    BY Zenon DEF HelmAssumption, ModuleStates
  <2> HIDE DEF spec
  <2>3. LET out == Enable(m, spec)
        IN /\ out.error \in BOOLEAN
           /\ out.error => /\ out.write = None
                           /\ cache[m] = store[m] /\ feed[m] = <<>> =>
                                cache[m] # None /\ cache[m].owner # rel
           /\ ~out.error =>
                /\ ModuleWrite(m, out.write) /\ out.write # None /\ out.state \in ModuleStates
    BY <1>1, EnableResult
  <2> DEFINE out == Enable(m, spec)
  <2>4. /\ out.error \in BOOLEAN
        /\ out.write # None => ModuleWrite(m, out.write)
        /\ out.error => out.write = None
        /\ ~out.error => out.state \in ModuleStates
    BY <2>3
  <2>5. out.error /\ feed[m] = <<>> => store[m] # None /\ store[m].owner # rel
    BY <1>2, <2>3
  <2>6. Handled(m, v, fails) = out
    BY <2>1
  <2> HIDE DEF out
  <2>7. v.wants[m] # None
    BY <1>5 DEF spec
  <2> QED
    BY <1>5, <2>2, <2>4, <2>5, <2>6, <2>7
<1> QED
  BY <1>3, <1>4, <1>5

\* What the modules write, and their states.
LEMMA OutcomeResult ==
  ASSUME HelmAssumption, HelmCluster, NEW v \in ReleaseVersions, NEW fails
  PROVE  LET out == Outcome(v, fails)
         IN /\ out.error \in BOOLEAN
            /\ DOMAIN out.writes \subseteq Names
            /\ \A m \in DOMAIN out.writes :
                 out.writes[m] = Handled(m, v, fails).write /\ out.writes[m] # None
            /\ ~out.error => out.states \in StatesMaps
            /\ ~v.suspended =>
                 /\ out.error <=> \E m \in Names : Handled(m, v, fails).error
                 /\ DOMAIN out.states = {m \in Names : Handled(m, v, fails).state # None}
                 /\ \A m \in DOMAIN out.states : out.states[m] = Handled(m, v, fails).state
                 /\ ~out.error =>
                      /\ DOMAIN out.states = {m \in Names : v.wants[m] # None}
                      /\ \A m \in Names : Handled(m, v, fails).write # None
                                            => m \in DOMAIN out.writes
<1> DEFINE done == [m \in Names |-> Handled(m, v, fails)]
           handled == {Modules[i] : i \in {j \in DOMAIN Modules :
                                             \A k \in 1 .. j : ~done[Modules[k]].error}}
           out == Outcome(v, fails)
           error == \E m \in Names : done[m].error
           writes == [m \in {n \in handled : done[n].write # None} |-> done[m].write]
           states == [m \in {n \in Names : done[n].state # None} |-> done[m].state]
<1>1. CASE v.suspended
  <2>1. /\ out.error = FALSE /\ out.writes = NoWrites /\ out.states = NoStates
    BY <1>1 DEF Outcome
  <2>2. DOMAIN NoWrites = {}
    BY DEF NoWrites
  <2>3. NoStates \in [{} -> ModuleStates] /\ {} \in SUBSET Names
    BY DEF NoStates, ModuleStates
  <2>4. NoStates \in StatesMaps
    BY <2>3 DEF StatesMaps
  <2> QED
    BY <1>1, <2>1, <2>2, <2>4, Zenon
<1>2. CASE ~v.suspended
  <2>1. out = [error |-> error, writes |-> writes, states |-> states]
    BY <1>2 DEF Outcome, Handled
  <2>2. \A m \in Names : done[m] = Handled(m, v, fails)
    OBVIOUS
  <2>3. handled \subseteq Names
    BY DEF Names
  <2>4. ASSUME ~error PROVE Names \subseteq handled
    <3>1. ASSUME NEW i \in DOMAIN Modules PROVE \A k \in 1 .. i : ~done[Modules[k]].error
      <4>1. ASSUME NEW k \in 1 .. i PROVE k \in DOMAIN Modules
        <5>1. Modules \in Seq(Names)
          BY Zenon DEF HelmAssumption
        <5>2. DOMAIN Modules = 1 .. Len(Modules) /\ Len(Modules) \in Nat
          BY <5>1
        <5> QED
          BY <5>2
      <4> QED
        BY <2>4, <4>1 DEF Names
    <3> QED
      BY <3>1 DEF Names
  <2> HIDE DEF done, handled
  <2>5. /\ DOMAIN writes \subseteq Names
        /\ \A m \in DOMAIN writes : writes[m] = Handled(m, v, fails).write /\ writes[m] # None
    BY <2>2, <2>3
  <2>6. /\ DOMAIN states = {m \in Names : Handled(m, v, fails).state # None}
        /\ \A m \in DOMAIN states : states[m] = Handled(m, v, fails).state
        /\ states = [m \in DOMAIN states |-> states[m]]
    BY <2>2
  <2> HIDE DEF states
  <2>7. error <=> \E m \in Names : Handled(m, v, fails).error
    BY <2>2
  <2>8. ASSUME ~error
        PROVE  /\ DOMAIN states = {m \in Names : v.wants[m] # None}
               /\ \A m \in Names : Handled(m, v, fails).write # None => m \in DOMAIN writes
               /\ states \in StatesMaps
    <3>1. \A m \in Names : /\ Handled(m, v, fails).state \in {None} \cup ModuleStates
                           /\ Handled(m, v, fails).state # None <=> v.wants[m] # None
      BY <2>7, <2>8, HandledResult
    <3>2. DOMAIN states = {m \in Names : v.wants[m] # None}
      BY <2>6, <3>1
    <3>3. \A m \in Names : Handled(m, v, fails).write # None => m \in DOMAIN writes
      BY <2>2, <2>4, <2>8
    <3>4. \A m \in DOMAIN states : states[m] \in ModuleStates
      BY <2>6, <3>1
    <3>5. states \in [DOMAIN states -> ModuleStates] /\ DOMAIN states \in SUBSET Names
      BY <2>6, <3>2, <3>4
    <3>6. states \in StatesMaps
      BY <3>5 DEF StatesMaps
    <3> QED
      BY <3>2, <3>3, <3>6
  <2> HIDE DEF writes, error
  <2>9. error \in BOOLEAN
    BY DEF error
  <2>10. out.error = error /\ out.writes = writes /\ out.states = states
    BY <2>1
  <2> HIDE DEF out
  <2> QED
    BY <1>2, <2>5, <2>6, <2>7, <2>8, <2>9, <2>10 DEF out
<1>3. v.suspended \in BOOLEAN
  BY Zenon DEF ReleaseVersions
<1> QED
  BY <1>1, <1>2, <1>3

----------------------------------------------------------------------------
(* The pass                                                                *)

\* The status that a pass gives the Release.
LEMMA StatusTyped ==
  ASSUME HelmAssumption, NEW v \in ReleaseVersions, NEW states \in StatesMaps,
         NEW message \in Messages(states)
  PROVE  /\ Status(v, states, message) \in ReleaseVersions
         /\ Status(v, states, message).states = states
         /\ Status(v, states, message).phase = IF v.suspended THEN "SUSPENDED"
              ELSE IF NotReady(states) = {} THEN "READY" ELSE "WAIT_HREL"
<1> DEFINE phase == IF v.suspended THEN "SUSPENDED"
                    ELSE IF NotReady(states) = {} THEN "READY" ELSE "WAIT_HREL"
           w == [v EXCEPT !.states = states, !.message = message, !.phase = phase]
<1>1. message \in {None} \cup DOMAIN states /\ DOMAIN states \subseteq Names
  BY DEF Messages, NotReady, StatesMaps
<1>2. phase \in {"SUSPENDED", "WAIT_HREL", "READY"}
  OBVIOUS
<1>3. Status(v, states, message) = w
  BY DEF Status
<1> HIDE DEF phase
<1>4. w \in ReleaseVersions /\ w.states = states /\ w.phase = phase
  BY <1>1, <1>2, Zenon DEF ReleaseVersions
<1> QED
  BY <1>3, <1>4 DEF phase

\* A module that was handled is right once no event is on its way for it.
LEMMA RightAfter ==
  ASSUME HelmAssumption, HelmCluster, NEW v \in ReleaseVersions, NEW m \in Names, NEW fails,
         ~Handled(m, v, fails).error,
         store'[m] = IF Handled(m, v, fails).write # None THEN Handled(m, v, fails).write
                     ELSE store[m],
         feed'[m] = IF store'[m] # store[m] THEN Append(feed[m], store'[m]) ELSE feed[m],
         cache'[m] = cache[m], v.wants[m] # None => v.states[m] = Handled(m, v, fails).state,
         Quiet(m)'
  PROVE  RightFor(v, m)'
<1> DEFINE w == Handled(m, v, fails).write
<1>1. v.wants[m] \in Specs
  BY WantsTyped
<1>2. /\ feed[m] \in Seq(HelmVersionsOf[m]) /\ (feed[m] = <<>> => cache[m] = store[m])
      /\ HelmVersionsOf[m] = {None} \cup OrderedVersions
  BY HelmTyped DEF HelmCluster
<1>3. fails # m
  BY HandledResult
<1>4. ASSUME w # None, OwnedByRelease(cache[m])
      PROVE  feed[m] = <<>> /\ cache[m] = store[m] /\ w = store[m]
  <2>1. feed'[m] = <<>>
    BY <1>4 DEF Quiet
  <2>2. store'[m] = store[m]
    <3>1. SUFFICES ASSUME store'[m] # store[m] PROVE FALSE
      OBVIOUS
    <3>2. ModuleWrite(m, w) /\ store'[m] = w
      BY <1>4, HandledResult
    <3>3. store'[m] \in HelmVersionsOf[m]
      BY <1>2, <3>2 DEF ModuleWrite
    <3> QED
      BY <1>2, <2>1, <3>1, <3>3, LastOfAppend
  <2> QED
    BY <1>2, <1>4, <2>1, <2>2
<1>5. CASE v.wants[m] = None
  <2>1. Handled(m, v, fails) = Disable(m)
    BY <1>3, <1>5 DEF Handled, handleHelmRelease
  <2>2. CASE ~OwnedByRelease(cache[m])
    BY <1>5, <2>2 DEF RightFor, OwnedByRelease
  <2>3. CASE OwnedByRelease(cache[m])
    <3>1. w # None /\ w.deleting
      BY <2>1, <2>3, DisableResult
    <3>2. cache[m].deleting
      BY <1>4, <2>3, <3>1
    <3> QED
      BY <1>5, <3>2 DEF RightFor
  <2> QED
    BY <2>2, <2>3
<1>6. CASE v.wants[m] # None
  <2> DEFINE spec == v.wants[m]
             out == Enable(m, spec)
  <2>1. Handled(m, v, fails) = out
    BY <1>3, <1>6 DEF Handled, handleHelmRelease
  <2>2. /\ ModuleWrite(m, w) /\ w # None
        /\ \/ cache[m] = None /\ store[m] = None
           \/ /\ OwnedByRelease(cache[m]) /\ SameUID(m) /\ w = Populated(m, spec)
              /\ out.state = computeHelmReleaseState(w)
    BY <1>1, <2>1, EnableResult
  <2>3. CASE cache[m] = None /\ store[m] = None
    <3>1. feed'[m] = Append(feed[m], w) /\ OwnedByRelease(w) /\ w \in HelmVersionsOf[m]
      BY <1>2, <2>2, <2>3 DEF OwnedByRelease, ModuleWrite
    <3>2. /\ feed'[m] # <<>> /\ feed'[m][Len(feed'[m])] = w
          /\ feed'[m] \in Seq(HelmVersionsOf[m])
      BY <1>2, <3>1, LastOfAppend
    <3>3. Len(feed'[m]) \in DOMAIN feed'[m]
      BY <3>2
    <3> QED
      BY <3>1, <3>2, <3>3 DEF Quiet
  <2>4. CASE /\ OwnedByRelease(cache[m]) /\ SameUID(m) /\ w = Populated(m, spec)
             /\ out.state = computeHelmReleaseState(w)
    <3>1. cache[m] = store[m] /\ w = store[m]
      BY <1>4, <2>2, <2>4
    <3>2. cache[m].spec = spec
      BY <1>1, <2>4, <3>1, PopulatedOrdered, Zenon
    <3>3. v.states[m] = computeHelmReleaseState(cache[m])
      BY <1>6, <2>1, <2>4, <3>1
    <3> QED
      BY <1>6, <2>4, <3>2, <3>3, Zenon DEF RightFor, OwnedByRelease, computeHelmReleaseState,
                                           staleReady
  <2> QED
    BY <2>2, <2>3, <2>4
<1> QED
  BY <1>5, <1>6

\* The pass leaves what the Release does not control, and the suspensions.
PassLeaves ==
  \A m \in Names : store'[m] # store[m] /\ store[m] # None =>
    store[m].owner = rel /\ store'[m] # None /\ store'[m].suspend = store[m].suspend

\* What is known of a pass.
PassFacts(fails, v, status, refused) ==
  LET out == Outcome(v, fails)
      writes == Joined(out.writes, When(status # v /\ ~refused, Only(rel, status)))
  IN /\ v = cache[rel] /\ status \in ReleaseVersions
     /\ out.error => status.phase = "ERROR"
     /\ ~out.error => \E message \in Messages(out.states) : status = Status(v, out.states, message)
     /\ refused = (status # v /\ (~Current(rel) \/ fails = rel))
     /\ Write(writes) /\ queued' = (out.error \/ refused)

\* A pass gives a status of the right form.
LEMMA PassKnown ==
  ASSUME HelmAssumption, HelmInv, Reconcile
  PROVE  \E fails, v, status, refused : PassFacts(fails, v, status, refused)
<1> DEFINE v == cache[rel]
<1>1. PICK fails : \E message \in Messages(Outcome(v, fails).states) :
        LET out == Outcome(v, fails)
            status == IF out.error THEN [v EXCEPT !.phase = "ERROR", !.message = None]
                      ELSE Status(v, out.states, message)
            refused == status # v /\ (~Current(rel) \/ fails = rel)
        IN /\ Write(Joined(out.writes, When(status # v /\ ~refused, Only(rel, status))))
           /\ queued' = (out.error \/ refused)
  BY DEF Reconcile
<1> DEFINE out == Outcome(v, fails)
<1>2. PICK message \in Messages(out.states) :
        LET status == IF out.error THEN [v EXCEPT !.phase = "ERROR", !.message = None]
                      ELSE Status(v, out.states, message)
            refused == status # v /\ (~Current(rel) \/ fails = rel)
        IN /\ Write(Joined(out.writes, When(status # v /\ ~refused, Only(rel, status))))
           /\ queued' = (out.error \/ refused)
  BY <1>1
<1> DEFINE status == IF out.error THEN [v EXCEPT !.phase = "ERROR", !.message = None]
                     ELSE Status(v, out.states, message)
           refused == status # v /\ (~Current(rel) \/ fails = rel)
<1>3. v \in ReleaseVersions
  BY HelmTyped DEF HelmInv, HelmCluster
<1> HIDE DEF v
<1>4. out.error \in BOOLEAN /\ (~out.error => out.states \in StatesMaps)
  BY <1>3, OutcomeResult DEF HelmInv
<1> HIDE DEF out
<1>5. status \in ReleaseVersions /\ (out.error => status.phase = "ERROR")
  <2>1. CASE out.error
    BY <1>3, <2>1, Zenon DEF ReleaseVersions
  <2>2. CASE ~out.error
    BY <1>3, <1>4, <2>2, StatusTyped
  <2> QED
    BY <1>4, <2>1, <2>2
<1>6. ~out.error => status = Status(v, out.states, message)
  OBVIOUS
<1>7. /\ Write(Joined(out.writes, When(status # v /\ ~refused, Only(rel, status))))
      /\ queued' = (out.error \/ refused)
  BY <1>2
<1>8. refused = (status # v /\ (~Current(rel) \/ fails = rel))
  OBVIOUS
<1> HIDE DEF status, refused
<1>9. PassFacts(fails, v, status, refused)
  BY <1>5, <1>6, <1>7, <1>8, Zenon DEF PassFacts, out, v
<1> QED
  BY <1>9

\* What a pass writes.
LEMMA PassWritten ==
  ASSUME HelmAssumption, HelmInv, NEW fails, NEW v, NEW status, NEW refused,
         PassFacts(fails, v, status, refused)
  PROVE  LET out == Outcome(v, fails)
         IN /\ Follows(HelmObjects, HelmVersionsOf)' /\ cache' = cache
            /\ \A m \in Names :
                 /\ store'[m] = IF m \in DOMAIN out.writes THEN Handled(m, v, fails).write
                                ELSE store[m]
                 /\ m \in DOMAIN out.writes => ModuleWrite(m, store'[m])
                 /\ feed'[m] = IF store'[m] # store[m] THEN Append(feed[m], store'[m]) ELSE feed[m]
            /\ store'[rel] = IF status # v /\ ~refused THEN status ELSE store[rel]
            /\ feed'[rel] = IF store'[rel] # store[rel] THEN Append(feed[rel], store'[rel])
                            ELSE feed[rel]
            /\ feed'[rel] = <<>> => feed[rel] = <<>> /\ store'[rel] = store[rel]
<1> DEFINE out == Outcome(v, fails)
           some == status # v /\ ~refused
           other == When(some, Only(rel, status))
           writes == Joined(out.writes, other)
<1>1. v \in ReleaseVersions /\ Write(writes) /\ status \in ReleaseVersions
  BY HelmTyped DEF HelmInv, HelmCluster, PassFacts
<1>2. /\ DOMAIN out.writes \subseteq Names
      /\ \A m \in DOMAIN out.writes :
           out.writes[m] = Handled(m, v, fails).write /\ out.writes[m] # None
  BY <1>1, OutcomeResult DEF HelmInv
<1> HIDE DEF out, some
<1>3. DOMAIN other = (IF some THEN {rel} ELSE {}) /\ (some => other[rel] = status)
  BY WhenOnly, Zenon
<1> HIDE DEF other
<1>4. /\ DOMAIN writes = DOMAIN out.writes \cup DOMAIN other
      /\ \A o \in DOMAIN out.writes : writes[o] = out.writes[o]
      /\ \A o \in DOMAIN other \ DOMAIN out.writes : writes[o] = other[o]
  BY JoinedWrites, Zenon
<1> HIDE DEF writes
<1>5. rel \notin Names /\ rel \notin DOMAIN out.writes
  BY <1>2, Zenon DEF HelmAssumption
<1>6. \A m \in DOMAIN out.writes : ModuleWrite(m, out.writes[m])
  BY <1>1, <1>2, HandledResult DEF HelmInv
<1>7. ASSUME NEW o \in HelmObjects, o \in DOMAIN writes
      PROVE  writes[o] \in HelmVersionsOf[o]
  <2>1. CASE o = rel
    <3>1. writes[rel] = status
      BY <1>3, <1>4, <1>5, <1>7, <2>1
    <3> QED
      BY <1>1, <2>1, <3>1, HelmTyped DEF HelmInv, HelmCluster
  <2>2. CASE o # rel
    <3>1. o \in Names /\ o \in DOMAIN out.writes /\ writes[o] = out.writes[o]
      BY <1>3, <1>4, <1>7, <2>2 DEF HelmObjects
    <3> QED
      BY <1>6, <3>1, HelmTyped DEF HelmInv, HelmCluster, ModuleWrite
  <2> QED
    BY <2>1, <2>2
<1>8. /\ Follows(HelmObjects, HelmVersionsOf)' /\ cache' = cache
      /\ \A o \in HelmObjects :
           /\ store'[o] = IF o \in DOMAIN writes THEN writes[o] ELSE store[o]
           /\ feed'[o] = IF store'[o] # store[o] THEN Append(feed[o], store'[o]) ELSE feed[o]
           /\ feed'[o] = <<>> => feed[o] = <<>> /\ store'[o] = store[o]
  BY <1>1, <1>7, WriteFollows DEF HelmInv, HelmCluster
<1>9. rel \in HelmObjects /\ store'[rel] = IF some THEN status ELSE store[rel]
  BY <1>3, <1>4, <1>5, <1>8 DEF HelmObjects
<1>10. ASSUME NEW m \in Names
       PROVE  /\ m \in HelmObjects
              /\ store'[m] = IF m \in DOMAIN out.writes THEN Handled(m, v, fails).write
                             ELSE store[m]
              /\ m \in DOMAIN out.writes => ModuleWrite(m, store'[m])
  <2>1. m \in HelmObjects /\ m # rel /\ (m \in DOMAIN writes <=> m \in DOMAIN out.writes)
    BY <1>3, <1>4, <1>5 DEF HelmObjects
  <2> QED
    BY <1>2, <1>4, <1>6, <1>8, <2>1
<1> QED
  BY <1>8, <1>9, <1>10 DEF out, some

\* A write of a module keeps its owner.
LEMMA ModuleOwner ==
  ASSUME HelmAssumption, HelmCluster, NEW m \in Names, cache'[m] = cache[m],
         store'[m] \in HelmVersionsOf[m],
         store[m] # None /\ store'[m] # None => store'[m].owner = store[m].owner,
         feed'[m] = IF store'[m] # store[m] THEN Append(feed[m], store'[m]) ELSE feed[m]
  PROVE  OwnerKept(store[m], feed[m], cache[m], None)'
<1>1. /\ feed[m] \in Seq(HelmVersionsOf[m]) /\ OwnerKept(store[m], feed[m], cache[m], None)
      /\ IF feed[m] = <<>> THEN cache[m] = store[m] ELSE feed[m][Len(feed[m])] = store[m]
  BY HelmTyped DEF HelmCluster
<1>2. CASE store'[m] = store[m]
  BY <1>1, <1>2
<1>3. CASE store'[m] # store[m]
  <2>1. OwnerKept(store'[m], Append(feed[m], store'[m]), cache[m], None)
    BY <1>1, OwnerWritten
  <2> QED
    BY <1>3, <2>1
<1> QED
  BY <1>2, <1>3

\* A pass keeps the objects in order, and writes what it may.
LEMMA PassCluster ==
  ASSUME HelmAssumption, HelmInv, Reconcile
  PROVE  HelmCluster' /\ HelmReading' /\ PassLeaves
<1>1. PICK fails, v, status, refused : PassFacts(fails, v, status, refused)
  BY PassKnown
<1> DEFINE out == Outcome(v, fails)
<1>2. /\ Follows(HelmObjects, HelmVersionsOf)' /\ cache' = cache
      /\ \A m \in Names :
           /\ m \notin DOMAIN out.writes => store'[m] = store[m]
           /\ m \in DOMAIN out.writes => ModuleWrite(m, store'[m])
           /\ feed'[m] = IF store'[m] # store[m] THEN Append(feed[m], store'[m]) ELSE feed[m]
  BY <1>1, PassWritten
<1> HIDE DEF out
<1>3. helm' = helm
  BY DEF Reconcile
<1>4. ASSUME NEW m \in Names
      PROVE  /\ OwnerKept(store[m], feed[m], cache[m], None)'
             /\ helm'[m] # None => store'[m] # None /\ helm'[m].generation <= store'[m].generation
             /\ store'[m] # store[m] /\ store[m] # None =>
                  store[m].owner = rel /\ store'[m] # None /\ store'[m].suspend = store[m].suspend
  <2>1. CASE m \notin DOMAIN out.writes
    <3>1. store'[m] = store[m] /\ feed'[m] = feed[m] /\ cache'[m] = cache[m]
      BY <1>2, <2>1
    <3> QED
      BY <1>3, <3>1 DEF HelmInv, HelmCluster, HelmReading
  <2>2. CASE m \in DOMAIN out.writes
    <3> DEFINE w == store'[m]
    <3>1. ModuleWrite(m, w)
      BY <1>2, <2>2
    <3>2. /\ w \in OrderedVersions /\ w # None /\ w.owner = rel
          /\ store[m] # None => /\ store[m].owner = rel /\ w.suspend = store[m].suspend
                                /\ store[m].generation <= w.generation
      BY <3>1, OrderedIsThere DEF ModuleWrite
    <3>3. w \in HelmVersionsOf[m]
      BY <3>2, HelmTyped DEF HelmInv, HelmCluster
    <3>4. OwnerKept(store[m], feed[m], cache[m], None)'
      BY <1>2, <3>2, <3>3, ModuleOwner DEF HelmInv
    <3>5. ASSUME helm[m] # None PROVE helm[m].generation <= w.generation
      <4> DEFINE a == helm[m].generation
                 b == store[m].generation
                 c == w.generation
      <4>1. store[m] # None /\ a <= b /\ helm[m] \in HelmReads
        BY <3>5 DEF HelmInv, HelmReading
      <4>2. store[m] \in OrderedVersions
        BY <4>1, HelmTyped DEF HelmInv, HelmCluster
      <4>3. a \in Nat /\ b \in Nat /\ c \in Nat /\ a <= b /\ b <= c
        BY <3>2, <4>1, <4>2, Generations DEF HelmReads
      <4> HIDE DEF a, b, c
      <4>4. a <= c
        BY <4>3
      <4> QED
        BY <4>4 DEF a, c
    <3> QED
      BY <1>3, <3>2, <3>4, <3>5
  <2> QED
    BY <2>1, <2>2
<1>5. HelmReading'
  BY <1>3, <1>4 DEF HelmInv, HelmReading
<1> QED
  BY <1>2, <1>4, <1>5 DEF HelmCluster, PassLeaves

\* A pass that leaves no request has a status that is right, unless events are on their way.
LEMMA PassMissesNone ==
  ASSUME HelmAssumption, HelmInv, Reconcile
  PROVE  NoneMissed' /\ queued' \in BOOLEAN
<1>1. PICK fails, v, status, refused : PassFacts(fails, v, status, refused)
  BY PassKnown
<1> DEFINE out == Outcome(v, fails)
<1>2. /\ v = cache[rel] /\ queued' = (out.error \/ refused)
      /\ refused = (status # v /\ (~Current(rel) \/ fails = rel))
      /\ ~out.error => \E message \in Messages(out.states) : status = Status(v, out.states, message)
  BY <1>1, Zenon DEF PassFacts
<1>3. v \in ReleaseVersions /\ (feed[rel] = <<>> => v = store[rel])
  BY <1>2, HelmTyped DEF HelmInv, HelmCluster
<1>4. out.error \in BOOLEAN /\ refused \in BOOLEAN
  BY <1>2, <1>3, OutcomeResult DEF HelmInv
<1>5. SUFFICES ASSUME ~queued', feed'[rel] = <<>>, ~store'[rel].suspended
               PROVE  StatusRight(store[rel])'
  BY <1>2, <1>4 DEF NoneMissed
<1>6. ~out.error /\ ~refused
  BY <1>2, <1>4, <1>5
<1>7. feed[rel] = <<>> /\ store'[rel] = store[rel] /\ v = store[rel]
  BY <1>1, <1>3, <1>5, PassWritten
<1>8. status = v
  <2>1. SUFFICES ASSUME status # v PROVE FALSE
    OBVIOUS
  <2>2. store'[rel] = status
    BY <1>1, <1>6, <2>1, PassWritten
  <2> QED
    BY <1>7, <2>1, <2>2
<1>9. ~v.suspended
  BY <1>5, <1>7
<1>10. /\ out.states \in StatesMaps /\ DOMAIN out.states = {m \in Names : v.wants[m] # None}
       /\ \A m \in DOMAIN out.states : out.states[m] = Handled(m, v, fails).state
       /\ \A m \in Names : /\ ~Handled(m, v, fails).error
                           /\ Handled(m, v, fails).write # None <=> m \in DOMAIN out.writes
  BY <1>3, <1>6, <1>9, OutcomeResult DEF HelmInv
<1>11. PICK message \in Messages(out.states) : status = Status(v, out.states, message)
  BY <1>2, <1>6
<1>12. /\ v.states = out.states
       /\ v.phase = IF NotReady(v.states) = {} THEN "READY" ELSE "WAIT_HREL"
  <2> DEFINE states == out.states
  <2>0. v \in ReleaseVersions /\ states \in StatesMaps /\ message \in Messages(states)
    BY <1>3, <1>10
  <2> HIDE DEF out, states
  <2>1. /\ Status(v, states, message).states = states
        /\ Status(v, states, message).phase = IF v.suspended THEN "SUSPENDED"
             ELSE IF NotReady(states) = {} THEN "READY" ELSE "WAIT_HREL"
    BY <2>0, StatusTyped
  <2> QED
    BY <1>8, <1>9, <1>11, <2>1, Zenon DEF states
<1>13. ASSUME NEW m \in Names, Quiet(m)' PROVE RightFor(v, m)'
  <2>1. /\ cache'[m] = cache[m]
        /\ store'[m] = IF m \in DOMAIN out.writes THEN Handled(m, v, fails).write ELSE store[m]
        /\ feed'[m] = IF store'[m] # store[m] THEN Append(feed[m], store'[m]) ELSE feed[m]
    BY <1>1, PassWritten
  <2>2. v.wants[m] # None => v.states[m] = Handled(m, v, fails).state
    BY <1>10, <1>12
  <2> HIDE DEF out
  <2>3. store'[m] = IF Handled(m, v, fails).write # None THEN Handled(m, v, fails).write
                    ELSE store[m]
    BY <1>10, <2>1
  <2> QED
    BY <1>3, <1>10, <1>13, <2>1, <2>2, <2>3, RightAfter DEF HelmInv
<1>14. store'[rel] = v
  BY <1>7
<1> HIDE DEF out
<1>15. DOMAIN v.states = {m \in Names : v.wants[m] # None}
  BY <1>10, <1>12
<1>16. \A m \in Names : Quiet(m)' => RightFor(store[rel], m)'
  BY <1>13, <1>14, Zenon DEF RightFor, computeHelmReleaseState, staleReady, OwnedByRelease
<1>17. /\ DOMAIN store'[rel].states = {m \in Names : store'[rel].wants[m] # None}
       /\ store'[rel].phase = IF NotReady(store'[rel].states) = {} THEN "READY" ELSE "WAIT_HREL"
  BY <1>12, <1>14, <1>15
<1> QED
  BY <1>16, <1>17 DEF StatusRight, NotReady

\* A version whose state is True is deployed.
LEMMA TrueIsDeployed ==
  ASSUME NEW v \in OrderedVersions
  PROVE  computeHelmReleaseState(v) = "True" <=> v.ready = "True" /\ v.observed = v.generation
<1> DEFINE o == v.observed
           r == v.readyGeneration
           g == v.generation
<1>1. o \in Nat /\ r \in Nat /\ g \in Nat /\ o <= r /\ r <= g
  BY Generations
<1>2. computeHelmReleaseState(v) =
        IF v.ready # "" /\ (r < g \/ (v.ready = "True" /\ o < g)) THEN "Unknown" ELSE v.ready
  BY DEF computeHelmReleaseState, staleReady
<1> HIDE DEF o, r, g
<1>3. (r < g \/ o < g) <=> o # g
  BY <1>1
<1>4. CASE v.ready = "True"
  BY <1>2, <1>3, <1>4 DEF o, g
<1>5. CASE v.ready # "True"
  BY <1>2, <1>5, Zenon
<1> QED
  BY <1>4, <1>5

\* A pass sets READY when each enabled module is deployed, where it reads them without lag.
LEMMA PassReady ==
  ASSUME HelmAssumption, HelmInv, Reconcile, Names \cap Lagging = {}
  PROVE  ReadyIsDeployedStep
<1>1. PICK fails, v, status, refused : PassFacts(fails, v, status, refused)
  BY PassKnown
<1> DEFINE out == Outcome(v, fails)
<1>2. SUFFICES ASSUME store'[rel].phase = "READY", store[rel].phase # "READY",
                      NEW m \in Names, store[rel].wants[m] # None
               PROVE  /\ store'[m] # None /\ store'[m].spec = store[rel].wants[m]
                      /\ store'[m].ready = "True" /\ store'[m].observed = store'[m].generation
  BY DEF ReadyIsDeployedStep
<1>3. /\ v = cache[rel] /\ (out.error => status.phase = "ERROR")
      /\ refused = (status # v /\ (~Current(rel) \/ fails = rel))
      /\ ~out.error => \E message \in Messages(out.states) : status = Status(v, out.states, message)
  BY <1>1, Zenon DEF PassFacts
<1>4. store'[rel] = status /\ status # v /\ ~refused
  BY <1>1, <1>2, PassWritten
<1>5. v \in ReleaseVersions /\ v = store[rel]
  BY <1>3, <1>4, HelmTyped, Zenon DEF HelmInv, HelmCluster, Current
<1>6. ~out.error
  BY <1>2, <1>3, <1>4
<1>7. PICK message \in Messages(out.states) : status = Status(v, out.states, message)
  BY <1>3, <1>6
<1>8. out.states \in StatesMaps
  BY <1>5, <1>6, OutcomeResult DEF HelmInv
<1>9. ~v.suspended /\ NotReady(out.states) = {}
  <2> DEFINE states == out.states
  <2>1. states \in StatesMaps /\ message \in Messages(states) /\ store'[rel] = Status(v, states, message)
    BY <1>4, <1>7, <1>8
  <2> HIDE DEF states
  <2>2. store'[rel].phase = IF v.suspended THEN "SUSPENDED"
                            ELSE IF NotReady(states) = {} THEN "READY" ELSE "WAIT_HREL"
    BY <1>5, <2>1, StatusTyped
  <2> QED
    BY <1>2, <2>2 DEF states
<1>10. /\ DOMAIN out.states = {n \in Names : v.wants[n] # None}
       /\ \A n \in DOMAIN out.states : out.states[n] = Handled(n, v, fails).state
       /\ ~Handled(m, v, fails).error
       /\ Handled(m, v, fails).write # None => m \in DOMAIN out.writes
  BY <1>5, <1>6, <1>9, OutcomeResult DEF HelmInv
<1>11. Handled(m, v, fails).state = "True"
  BY <1>2, <1>5, <1>9, <1>10 DEF NotReady
<1> DEFINE spec == v.wants[m]
           w == Populated(m, spec)
<1>12. spec \in Specs /\ spec # None /\ spec = store[rel].wants[m]
  BY <1>2, <1>5, WantsTyped
<1>13. Handled(m, v, fails) = Enable(m, spec)
  <2>1. fails # m
    BY <1>5, <1>10, HandledResult DEF HelmInv
  <2> QED
    BY <1>12, <2>1 DEF Handled, handleHelmRelease
<1>14. /\ OwnedByRelease(cache[m]) /\ SameUID(m) /\ Handled(m, v, fails).write = w
       /\ computeHelmReleaseState(w) = "True" /\ w # None
  <2> HIDE DEF spec
  <2> QED
    BY <1>10, <1>11, <1>12, <1>13, EnableResult DEF HelmInv
<1>15. store'[m] = w
  BY <1>1, <1>10, <1>14, PassWritten, Zenon
<1>16. cache[m] = store[m]
  <2>1. DOMAIN store = HelmObjects
    BY Zenon DEF HelmInv, HelmCluster, Follows
  <2>2. m \in DOMAIN store \ Lagging
    BY <2>1 DEF HelmObjects
  <2>3. feed[m] = <<>>
    BY <2>2 DEF Reconcile, Current
  <2> QED
    BY <2>3, HelmTyped DEF HelmInv, HelmCluster
<1>17. w \in OrderedVersions /\ w.spec = spec
  BY <1>12, <1>14, <1>16, PopulatedOrdered DEF HelmInv
<1>18. w.ready = "True" /\ w.observed = w.generation
  BY <1>14, <1>17, TrueIsDeployed
<1> QED
  BY <1>12, <1>14, <1>15, <1>17, <1>18

----------------------------------------------------------------------------
(* The events                                                              *)

\* The first of the versions on their way, and the others.
LEMMA QuietReceived ==
  ASSUME NEW S, NEW f \in Seq(S), f # <<>>, ~OwnedByRelease(Head(f)),
         \A i \in DOMAIN Tail(f) : ~OwnedByRelease(Tail(f)[i])
  PROVE  \A i \in DOMAIN f : ~OwnedByRelease(f[i])
<1> DEFINE n == Len(f)
<1>1. /\ n \in Nat /\ DOMAIN f = 1 .. n /\ Head(f) = f[1]
      /\ DOMAIN Tail(f) = 1 .. n - 1 /\ \A i \in 1 .. n - 1 : Tail(f)[i] = f[i + 1]
  OBVIOUS
<1> HIDE DEF n
<1>2. ASSUME NEW i \in 1 .. n PROVE ~OwnedByRelease(f[i])
  <2>1. CASE i = 1
    BY <1>1, <2>1
  <2>2. CASE i # 1
    <3>1. i - 1 \in 1 .. n - 1 /\ (i - 1) + 1 = i
      BY <1>1, <2>2
    <3> QED
      BY <1>1, <3>1, Zenon
  <2> QED
    BY <2>1, <2>2
<1> QED
  BY <1>1, <1>2

\* An event makes a pass, or is about an object that the Release does not control.
LEMMA DeliverHelm ==
  ASSUME HelmAssumption, HelmInv, NEW o \in HelmObjects, Deliver(o)
  PROVE  HelmInv' /\ store' = store
<1>1. /\ Follows(HelmObjects, HelmVersionsOf)' /\ store' = store
      /\ cache'[o] = Head(feed[o]) /\ feed'[o] = Tail(feed[o]) /\ feed[o] # <<>>
      /\ \A x \in HelmObjects \ {o} : cache'[x] = cache[x] /\ feed'[x] = feed[x]
  BY ReceiveFollows DEF HelmInv, HelmCluster, Deliver
<1>2. /\ helm' = helm
      /\ queued' = (queued \/ o = rel \/ \E v \in {cache[o], Head(feed[o])} :
                                           v # None /\ v.owner = rel)
  BY DEF Deliver
<1>3. ASSUME NEW m \in Names PROVE OwnerKept(store[m], feed[m], cache[m], None)'
  <2>1. m \in HelmObjects /\ feed[m] \in Seq(HelmVersionsOf[m])
    BY HelmTyped DEF HelmInv, HelmCluster
  <2>2. CASE m = o
    <3>1. OwnerKept(store[m], Tail(feed[m]), Head(feed[m]), None)
      BY <1>1, <2>1, <2>2, OwnerReceived DEF HelmInv, HelmCluster
    <3> QED
      BY <1>1, <2>2, <3>1
  <2>3. CASE m # o
    BY <1>1, <2>1, <2>3 DEF HelmInv, HelmCluster
  <2> QED
    BY <2>2, <2>3
<1>4. HelmCluster'
  BY <1>1, <1>3 DEF HelmCluster
<1>5. HelmReading'
  BY <1>1, <1>2 DEF HelmInv, HelmReading
<1>6. queued' \in BOOLEAN
  BY <1>2
<1>7. NoneMissed'
  <2>1. SUFFICES ASSUME ~queued', feed'[rel] = <<>>, ~store'[rel].suspended
                 PROVE  StatusRight(store[rel])'
    BY DEF NoneMissed
  <2>2. ~queued /\ o # rel /\ ~OwnedByRelease(cache[o]) /\ ~OwnedByRelease(Head(feed[o]))
    BY <1>2, <2>1, Zenon DEF OwnedByRelease
  <2>3. feed[rel] = <<>>
    BY <1>1, <2>1, <2>2 DEF HelmObjects
  <2> DEFINE v == store[rel]
  <2>4. StatusRight(v)
    BY <1>1, <2>1, <2>2, <2>3 DEF HelmInv, NoneMissed
  <2>5. ASSUME NEW m \in Names, Quiet(m)' PROVE RightFor(v, m)'
    <3>1. m \in HelmObjects /\ feed[m] \in Seq(HelmVersionsOf[m])
      BY HelmTyped DEF HelmInv, HelmCluster
    <3>2. CASE m # o
      <4>1. cache'[m] = cache[m] /\ feed'[m] = feed[m]
        BY <1>1, <3>1, <3>2
      <4>2. RightFor(v, m)
        BY <2>4, <2>5, <4>1 DEF StatusRight, Quiet, OwnedByRelease
      <4> QED
        BY <1>1, <4>1, <4>2, Zenon DEF RightFor, OwnedByRelease, computeHelmReleaseState, staleReady
    <3>3. CASE m = o
      <4>1. ~OwnedByRelease(cache'[m]) /\ ~OwnedByRelease(cache[m])
        BY <1>1, <2>2, <3>3
      <4>2. \A i \in DOMAIN feed'[m] : ~OwnedByRelease(feed'[m][i])
        BY <2>5 DEF Quiet, OwnedByRelease
      <4>3. \A i \in DOMAIN feed[m] : ~OwnedByRelease(feed[m][i])
        BY <1>1, <2>2, <3>1, <3>3, <4>2, QuietReceived, Zenon
      <4>4. RightFor(v, m)
        BY <2>4, <4>1, <4>3 DEF StatusRight, Quiet
      <4> QED
        BY <1>1, <4>1, <4>4 DEF RightFor, OwnedByRelease
    <3> QED
      BY <3>2, <3>3
  <2> QED
    BY <1>1, <2>4, <2>5 DEF StatusRight, NotReady
<1> QED
  BY <1>1, <1>4, <1>5, <1>6, <1>7 DEF HelmInv

----------------------------------------------------------------------------
(* helm-controller and users                                               *)

\* A step that adds versions leaves the status right.
LEMMA MissedKept ==
  ASSUME NoneMissed, queued' = queued, store'[rel] = store[rel], feed'[rel] = feed[rel],
         \A m \in Names : cache'[m] = cache[m] /\ (Quiet(m)' => Quiet(m))
  PROVE  NoneMissed'
<1>1. SUFFICES ASSUME ~queued', feed'[rel] = <<>>, ~store'[rel].suspended
               PROVE  StatusRight(store[rel])'
  BY DEF NoneMissed
<1> DEFINE v == store[rel]
<1>2. StatusRight(v)
  BY <1>1 DEF NoneMissed
<1>3. ASSUME NEW m \in Names, Quiet(m)' PROVE RightFor(v, m)'
  <2>1. RightFor(v, m)
    BY <1>2, <1>3 DEF StatusRight
  <2> QED
    BY <2>1, Zenon DEF RightFor, OwnedByRelease, computeHelmReleaseState, staleReady
<1> QED
  BY <1>2, <1>3 DEF StatusRight, NotReady

\* The write of a module by another leaves the rest.
LEMMA ModuleWritten ==
  ASSUME HelmAssumption, HelmInv, NEW m \in Names, NEW v \in {None} \cup OrderedVersions,
         Write(Only(m, v)), store[m] # None /\ v # None => v.owner = store[m].owner,
         queued' = queued
  PROVE  /\ HelmCluster' /\ NoneMissed' /\ store'[m] = v
         /\ \A o \in HelmObjects \ {m} : store'[o] = store[o]
<1>1. m \in HelmObjects /\ m # rel /\ HelmVersionsOf[m] = {None} \cup OrderedVersions
      /\ feed[m] \in Seq(HelmVersionsOf[m])
  BY HelmTyped DEF HelmInv, HelmCluster
<1>2. /\ Follows(HelmObjects, HelmVersionsOf)' /\ cache' = cache /\ store'[m] = v
      /\ feed'[m] = IF v # store[m] THEN Append(feed[m], v) ELSE feed[m]
      /\ \A o \in HelmObjects \ {m} : store'[o] = store[o] /\ feed'[o] = feed[o]
  BY <1>1, OnlyFollows DEF HelmInv, HelmCluster
<1>3. ASSUME NEW n \in Names PROVE OwnerKept(store[n], feed[n], cache[n], None)'
  <2>1. CASE n = m
    BY <1>1, <1>2, <2>1, ModuleOwner DEF HelmInv
  <2>2. CASE n # m
    BY <1>2, <2>2 DEF HelmInv, HelmCluster, HelmObjects
  <2> QED
    BY <2>1, <2>2
<1>4. ASSUME NEW n \in Names PROVE cache'[n] = cache[n] /\ (Quiet(n)' => Quiet(n))
  <2>1. CASE feed'[n] = feed[n]
    BY <1>2, <2>1 DEF Quiet, OwnedByRelease
  <2>2. CASE feed'[n] # feed[n]
    <3>1. n = m /\ feed'[m] = Append(feed[m], v)
      BY <1>2, <2>2 DEF HelmObjects
    <3>2. /\ feed'[m] # <<>> /\ DOMAIN feed[m] \subseteq DOMAIN feed'[m]
          /\ \A i \in DOMAIN feed[m] : feed'[m][i] = feed[m][i]
      <4> DEFINE f == feed[m]
      <4>1. f \in Seq(HelmVersionsOf[m]) /\ v \in HelmVersionsOf[m] /\ feed'[m] = Append(f, v)
        BY <1>1, <3>1
      <4> HIDE DEF f
      <4> QED
        BY <4>1 DEF f
    <3> QED
      BY <1>2, <3>1, <3>2 DEF Quiet, OwnedByRelease
  <2> QED
    BY <2>1, <2>2
<1>5. store'[rel] = store[rel] /\ feed'[rel] = feed[rel]
  BY <1>1, <1>2 DEF HelmObjects
<1>6. NoneMissed'
  BY <1>4, <1>5, MissedKept DEF HelmInv
<1> QED
  BY <1>2, <1>3, <1>6 DEF HelmCluster

\* helm-controller reads a HelmRelease.
LEMMA HelmStartStep ==
  ASSUME HelmAssumption, HelmInv, NEW m \in Names, HelmStart(m)
  PROVE  HelmInv' /\ store' = store
<1> DEFINE read == [generation |-> store[m].generation, spec |-> store[m].spec]
<1>1. /\ UNCHANGED <<store, feed, cache, queued>> /\ helm' = [helm EXCEPT ![m] = read]
      /\ store[m] # None
  BY DEF HelmStart, kube
<1>2. store[m] \in OrderedVersions
  BY <1>1, HelmTyped DEF HelmInv, HelmCluster
<1>3. read \in HelmReads /\ read.generation = store[m].generation
  BY <1>2, Zenon DEF OrderedVersions, HelmVersions, HelmReads
<1>4. store[m].generation <= store[m].generation
  BY <1>2, Generations
<1> HIDE DEF read
<1>5. HelmReading'
  BY <1>1, <1>3, <1>4 DEF HelmInv, HelmReading
<1>6. HelmCluster'
  BY <1>1, Zenon DEF HelmInv, HelmCluster, Follows, FollowsAt
<1>7. NoneMissed'
  BY <1>1, MissedKept DEF HelmInv, Quiet, OwnedByRelease
<1> QED
  BY <1>1, <1>5, <1>6, <1>7 DEF HelmInv

\* helm-controller reports.
LEMMA HelmReportStep ==
  ASSUME HelmAssumption, HelmInv, NEW m \in Names, HelmReport(m)
  PROVE  HelmInv' /\ \A o \in HelmObjects \ {m} : store'[o] = store[o]
<1>1. PICK g \in {helm[m].generation, store[m].generation} :
        Write(Only(m, [store[m] EXCEPT
          !.ready = IF helm[m].spec \in Failing THEN "False" ELSE "True",
          !.readyGeneration = g, !.observed = helm[m].generation]))
  BY Zenon DEF HelmReport
<1> DEFINE ready == IF helm[m].spec \in Failing THEN "False" ELSE "True"
           read == helm[m].generation
           v == [store[m] EXCEPT !.ready = ready, !.readyGeneration = g, !.observed = read]
<1>2. /\ helm' = [helm EXCEPT ![m] = None] /\ queued' = queued
      /\ store[m] # None /\ helm[m] # None
  BY DEF HelmReport
<1>3. store[m] \in OrderedVersions /\ helm[m] \in HelmReads /\ read <= store[m].generation
  BY <1>2, HelmTyped DEF HelmInv, HelmCluster, HelmReading
<1>4. store[m] \in HelmVersions /\ read \in Nat /\ store[m].generation \in Nat
  BY <1>3, Zenon DEF OrderedVersions, HelmVersions, HelmReads
<1>5. g \in Nat /\ read <= g /\ g <= store[m].generation
  <2> DEFINE a == read
             b == store[m].generation
  <2>1. a \in Nat /\ b \in Nat /\ a <= b /\ g \in {a, b}
    BY <1>3, <1>4
  <2> HIDE DEF a, b
  <2>2. g \in Nat /\ a <= g /\ g <= b
    BY <2>1
  <2> QED
    BY <2>2 DEF a, b
<1>6. ready \in {"", "True", "False"}
  OBVIOUS
<1>7. Write(Only(m, v))
  BY <1>1
<1> HIDE DEF ready, read
<1>8. /\ v \in HelmVersions /\ v.observed = read /\ v.readyGeneration = g
      /\ v.generation = store[m].generation /\ v.owner = store[m].owner
  BY <1>4, <1>5, <1>6, Zenon DEF HelmVersions
<1> HIDE DEF v
<1>9. v \in OrderedVersions
  BY <1>5, <1>8 DEF OrderedVersions
<1>10. /\ HelmCluster' /\ NoneMissed' /\ store'[m] = v
       /\ \A o \in HelmObjects \ {m} : store'[o] = store[o]
  BY <1>2, <1>7, <1>8, <1>9, ModuleWritten
<1>11. HelmReading'
  BY <1>2, <1>10 DEF HelmInv, HelmReading, HelmObjects
<1> QED
  BY <1>2, <1>10, <1>11 DEF HelmInv

\* helm-controller ends a deletion.
LEMMA HelmUninstallStep ==
  ASSUME HelmAssumption, HelmInv, NEW m \in Names, HelmUninstall(m)
  PROVE  HelmInv' /\ \A o \in HelmObjects \ {m} : store'[o] = store[o]
<1>1. /\ helm' = [helm EXCEPT ![m] = None] /\ queued' = queued /\ Write(Only(m, None))
  BY DEF HelmUninstall
<1>2. /\ HelmCluster' /\ NoneMissed'
      /\ \A o \in HelmObjects \ {m} : store'[o] = store[o]
  BY <1>1, ModuleWritten
<1>3. HelmReading'
  BY <1>1, <1>2 DEF HelmInv, HelmReading, HelmObjects
<1> QED
  BY <1>1, <1>2, <1>3 DEF HelmInv

\* flux suspend and flux resume change spec.suspend.
LEMMA FluxSuspendStep ==
  ASSUME HelmAssumption, HelmInv, NEW m \in Names, FluxSuspend(m)
  PROVE  HelmInv' /\ \A o \in HelmObjects \ {m} : store'[o] = store[o]
<1> DEFINE v == [store[m] EXCEPT !.suspend = ~@, !.generation = @ + 1]
           w == NextVersion(store[m], store[m].spec, ~store[m].suspend)
<1>1. helm' = helm /\ queued' = queued /\ store[m] # None /\ Write(Only(m, v))
  BY DEF FluxSuspend, Edit
<1>2. store[m] \in OrderedVersions
  BY <1>1, HelmTyped DEF HelmInv, HelmCluster
<1>3. store[m] \in HelmVersions /\ store[m].spec \in Specs /\ (~store[m].suspend) \in BOOLEAN
  BY <1>2, Zenon DEF OrderedVersions, HelmVersions
<1>4. v = w
  BY <1>3, Zenon DEF HelmVersions, NextVersion
<1>5. w \in OrderedVersions /\ w.owner = store[m].owner /\ store[m].generation <= w.generation
  BY <1>2, <1>3, NextOrdered, Zenon
<1> HIDE DEF v, w
<1>6. /\ HelmCluster' /\ NoneMissed' /\ store'[m] = w
      /\ \A o \in HelmObjects \ {m} : store'[o] = store[o]
  BY <1>1, <1>4, <1>5, ModuleWritten
<1>7. w # None
  BY <1>5, OrderedIsThere
<1>8. helm[m] # None => helm[m].generation <= w.generation
  <2> DEFINE a == helm[m].generation
             b == store[m].generation
             c == w.generation
  <2>1. helm[m] # None => a \in Nat /\ b \in Nat /\ c \in Nat /\ a <= b /\ b <= c
    BY <1>2, <1>5, Generations DEF HelmInv, HelmReading, HelmReads
  <2> HIDE DEF a, b, c
  <2>2. helm[m] # None => a <= c
    BY <2>1
  <2> QED
    BY <2>2 DEF a, c
<1>9. HelmReading'
  BY <1>1, <1>6, <1>7, <1>8 DEF HelmInv, HelmReading, HelmObjects
<1> QED
  BY <1>1, <1>6, <1>9 DEF HelmInv

\* A user puts a HelmRelease of their own in the place of the one of a module.
LEMMA PutForeignStep ==
  ASSUME HelmAssumption, HelmInv, NEW m \in Names, PutForeign(m)
  PROVE  HelmInv' /\ \A o \in HelmObjects \ {m} : store'[o] = store[o]
<1> DEFINE v == NewHelmRelease("user", None)
           V == HelmVersionsOf
<1>1. /\ helm' = [helm EXCEPT ![m] = None] /\ queued' = queued /\ cache' = cache
      /\ store' = [store EXCEPT ![m] = v]
      /\ feed' = [feed EXCEPT ![m] = Append(Append(@, None), store'[m])]
  BY DEF PutForeign, Edit
<1>2. /\ m \in HelmObjects /\ m # rel /\ V[m] = {None} \cup OrderedVersions
      /\ feed[m] \in Seq(V[m]) /\ FollowsAt(m, V)
      /\ DOMAIN store = HelmObjects /\ DOMAIN feed = HelmObjects
  BY HelmTyped, Zenon DEF HelmInv, HelmCluster, Follows
<1>3. v \in OrderedVersions
  BY NewOrdered DEF Specs
<1> HIDE DEF v
<1>4. /\ store'[m] = v /\ feed'[m] = Append(Append(feed[m], None), v)
      /\ \A o \in HelmObjects \ {m} : store'[o] = store[o] /\ feed'[o] = feed[o]
  BY <1>1, <1>2
<1>5. /\ OwnerKept(v, feed'[m], cache[m], None) /\ feed'[m] \in Seq(V[m])
      /\ feed'[m] # <<>> /\ feed'[m][Len(feed'[m])] = v
      /\ \A i \in DOMAIN feed[m] : i \in DOMAIN feed'[m] /\ feed'[m][i] = feed[m][i]
  <2> DEFINE f == feed[m]
             S == V[m]
             g == Append(Append(f, None), v)
  <2>1. None \in S /\ v \in S /\ f \in Seq(S) /\ feed'[m] = g
    BY <1>2, <1>3, <1>4
  <2> HIDE DEF f, S
  <2>2. /\ OwnerKept(v, g, cache[m], None) /\ g \in Seq(S) /\ g # <<>> /\ g[Len(g)] = v
        /\ \A i \in DOMAIN f : i \in DOMAIN g /\ g[i] = f[i]
    BY <2>1, OwnerReplaced
  <2> HIDE DEF g
  <2> QED
    BY <2>1, <2>2 DEF f, S
<1>6. FollowsAt(m, V)'
  BY <1>1, <1>2, <1>3, <1>4, <1>5 DEF FollowsAt
<1>7. ASSUME NEW o \in HelmObjects \ {m} PROVE FollowsAt(o, V)'
  BY <1>1, <1>4, Zenon DEF HelmInv, HelmCluster, Follows, FollowsAt
<1>8. Follows(HelmObjects, V)'
  BY <1>1, <1>2, <1>6, <1>7, Zenon DEF HelmInv, HelmCluster, Follows
<1>9. ASSUME NEW n \in Names
      PROVE  /\ OwnerKept(store[n], feed[n], cache[n], None)'
             /\ cache'[n] = cache[n] /\ (Quiet(n)' => Quiet(n))
  <2>1. CASE n = m
    BY <1>1, <1>4, <1>5, <2>1 DEF Quiet, OwnedByRelease
  <2>2. CASE n # m
    <3>1. store'[n] = store[n] /\ feed'[n] = feed[n] /\ cache'[n] = cache[n]
      BY <1>1, <1>4, <2>2 DEF HelmObjects
    <3> QED
      BY <3>1 DEF HelmInv, HelmCluster, Quiet, OwnedByRelease
  <2> QED
    BY <2>1, <2>2
<1>10. NoneMissed'
  <2>1. store'[rel] = store[rel] /\ feed'[rel] = feed[rel]
    BY <1>2, <1>4 DEF HelmObjects
  <2> QED
    BY <1>1, <1>9, <2>1, MissedKept DEF HelmInv
<1>11. HelmReading'
  BY <1>1, <1>4 DEF HelmInv, HelmReading, HelmObjects
<1>12. HelmCluster'
  BY <1>8, <1>9 DEF HelmCluster
<1> QED
  BY <1>1, <1>4, <1>10, <1>11, <1>12 DEF HelmInv

\* A user edits the Release, whose event is on its way.
LEMMA EditReleaseStep ==
  ASSUME HelmAssumption, HelmInv, NEW w \in Renderings, NEW suspended \in BOOLEAN,
         EditRelease(w, suspended)
  PROVE  /\ HelmInv' /\ store'[rel].phase = store[rel].phase
         /\ \A m \in Names : store'[m] = store[m]
<1> DEFINE v == [store[rel] EXCEPT !.wants = w, !.suspended = suspended]
<1>1. /\ helm' = helm /\ queued' = queued /\ Write(Only(rel, v))
      /\ <<store[rel].wants, store[rel].suspended>> # <<w, suspended>>
  BY DEF EditRelease, Edit
<1>2. store[rel] \in ReleaseVersions /\ rel \in HelmObjects /\ HelmVersionsOf[rel] = ReleaseVersions
  BY HelmTyped DEF HelmInv, HelmCluster
<1>3. /\ v \in ReleaseVersions /\ v.wants = w /\ v.suspended = suspended
      /\ v.phase = store[rel].phase
  BY <1>2, Zenon DEF ReleaseVersions
<1> HIDE DEF v
<1>4. v # store[rel]
  BY <1>1, <1>3
<1>5. /\ Follows(HelmObjects, HelmVersionsOf)' /\ cache' = cache /\ store'[rel] = v
      /\ \A o \in HelmObjects \ {rel} : store'[o] = store[o] /\ feed'[o] = feed[o]
      /\ \A o \in HelmObjects : feed'[o] = <<>> => feed[o] = <<>> /\ store'[o] = store[o]
  <2>1. Follows(HelmObjects, HelmVersionsOf) /\ v \in HelmVersionsOf[rel]
    BY <1>2, <1>3 DEF HelmInv, HelmCluster
  <2> QED
    BY <1>1, <1>2, <2>1, OnlyFollows
<1>6. feed'[rel] # <<>>
  BY <1>2, <1>4, <1>5
<1>7. \A m \in Names : store'[m] = store[m] /\ feed'[m] = feed[m]
  BY <1>5, HelmTyped, Zenon DEF HelmInv, HelmCluster
<1>8. HelmCluster' /\ HelmReading' /\ NoneMissed'
  BY <1>1, <1>5, <1>6, <1>7, Zenon DEF HelmInv, HelmCluster, HelmReading, NoneMissed
<1> QED
  BY <1>1, <1>3, <1>5, <1>7, <1>8 DEF HelmInv

\* The first state.
LEMMA HelmInitStep ==
  ASSUME HelmAssumption, Init
  PROVE  HelmInv
<1> DEFINE release(w) == [wants |-> w, suspended |-> FALSE, phase |-> "", states |-> NoStates,
                          message |-> None]
<1>1. PICK w \in Renderings :
        KubeInit([o \in HelmObjects |-> IF o # rel THEN None ELSE release(w)])
  BY Zenon DEF Init, HelmObjects
<1> DEFINE objects == [o \in HelmObjects |-> IF o # rel THEN None ELSE release(w)]
<1>2. release(w) \in ReleaseVersions
  <2>1. NoStates \in [{} -> ModuleStates] /\ {} \in SUBSET Names
    BY DEF NoStates, ModuleStates
  <2>2. NoStates \in StatesMaps
    BY <2>1 DEF StatesMaps
  <2>3. /\ release(w) \in [wants : Renderings, suspended : BOOLEAN,
                           phase : {"", "ERROR", "SUSPENDED", "WAIT_HREL", "READY"},
                           states : StatesMaps, message : {None} \cup Names]
        /\ release(w).message = None
    BY <2>2
  <2> HIDE DEF release
  <2> QED
    BY <2>3, Zenon DEF ReleaseVersions
<1> HIDE DEF release
<1>3. \A o \in HelmObjects : objects[o] \in HelmVersionsOf[o]
  BY <1>2 DEF HelmVersionsOf
<1>4. /\ DOMAIN objects = HelmObjects /\ objects = [o \in HelmObjects |-> objects[o]]
      /\ KubeInit(objects) /\ \A m \in Names : objects[m] = None
  BY <1>1, Zenon DEF HelmObjects, HelmAssumption
<1> HIDE DEF objects
<1>5. Follows(HelmObjects, HelmVersionsOf)
  BY <1>3, <1>4, InitFollows
<1>6. \A m \in Names : store[m] = None
  BY <1>4 DEF KubeInit
<1>7. helm = [m \in Names |-> None] /\ queued = TRUE
  BY Zenon DEF Init
<1>8. HelmCluster
  BY <1>5, <1>6 DEF HelmCluster, OwnerKept
<1> QED
  BY <1>7, <1>8 DEF HelmInv, HelmReading, NoneMissed

\* Every step keeps the invariant.
LEMMA HelmNextStep ==
  ASSUME HelmAssumption, HelmInv, [Next]_vars
  PROVE  HelmInv'
<1>1. DOMAIN store = HelmObjects
  BY DEF HelmInv, HelmCluster, Follows
<1>2. CASE Reconcile
  BY <1>2, PassCluster, PassMissesNone DEF HelmInv
<1>3. CASE \E o \in DOMAIN store : Deliver(o)
  BY <1>1, <1>3, DeliverHelm
<1>4. CASE \E m \in Names : HelmSteps(m) \/ FluxSuspend(m) \/ PutForeign(m)
  BY <1>4, HelmStartStep, HelmReportStep, HelmUninstallStep, FluxSuspendStep, PutForeignStep
  DEF HelmSteps
<1>5. CASE \E w \in Renderings, suspended \in BOOLEAN : EditRelease(w, suspended)
  BY <1>5, EditReleaseStep
<1>6. CASE UNCHANGED vars
  <2>1. UNCHANGED <<store, feed, cache, helm, queued>>
    BY <1>6 DEF vars, kube
  <2>2. HelmCluster' /\ HelmReading'
    BY <2>1, Zenon DEF HelmInv, HelmCluster, HelmReading, Follows, FollowsAt
  <2>3. NoneMissed'
    BY <2>1, MissedKept DEF HelmInv, Quiet, OwnedByRelease
  <2> QED
    BY <2>1, <2>2, <2>3 DEF HelmInv
<1> QED
  BY <1>2, <1>3, <1>4, <1>5, <1>6 DEF Next

----------------------------------------------------------------------------
(* The theorems                                                            *)

\* The invariant gives the status of a Release once nothing is under way.
LEMMA InvDeploys ==
  ASSUME HelmAssumption, HelmInv
  PROVE  Deploys
<1> DEFINE v == store[rel]
<1>1. SUFFICES ASSUME Settled, ~v.suspended
      PROVE  /\ (v.phase = "READY") =
                  (\A m \in Names : v.wants[m] # None => Deployed(store[m], v.wants[m]))
             /\ v.phase # "ERROR" => \A m \in Names :
                  v.wants[m] = None => store[m] = None \/ store[m].owner # rel
  BY Zenon DEF Deploys
<1>2. DOMAIN feed = HelmObjects
  BY DEF HelmInv, HelmCluster, Follows
<1>3. \A o \in HelmObjects : feed[o] = <<>>
  BY <1>1, <1>2 DEF Settled, CaughtUp, Current
<1>4. v \in ReleaseVersions /\ cache[rel] = v /\ feed[rel] = <<>>
  BY <1>3, HelmTyped DEF HelmInv, HelmCluster
<1>5. \A m \in Names : cache[m] = store[m] /\ feed[m] = <<>>
  BY <1>3, HelmTyped DEF HelmInv, HelmCluster
<1>6. \A m \in Names : store[m] # None => store[m] \in OrderedVersions /\ ~store[m].deleting
  BY <1>1, HelmTyped DEF HelmInv, HelmCluster, Settled, HelmBusy
<1>7. CASE queued
  <2> DEFINE out == Outcome(v, None)
  <2>1. out.error /\ v.phase = "ERROR"
    BY <1>1, <1>4, <1>7 DEF Settled
  <2>2. PICK m \in Names : Handled(m, v, None).error
    BY <1>1, <1>4, <2>1, OutcomeResult DEF HelmInv
  <2>3. None # m
    BY Zenon DEF HelmAssumption
  <2>4. v.wants[m] # None /\ store[m].owner # rel
    BY <1>4, <1>5, <2>2, <2>3, HandledResult DEF HelmInv
  <2>5. ~Deployed(store[m], v.wants[m])
    BY <2>4 DEF Deployed
  <2> QED
    BY <2>1, <2>4, <2>5, Zenon
<1>8. CASE ~queued
  <2>1. StatusRight(v)
    BY <1>1, <1>4, <1>8 DEF HelmInv, NoneMissed
  <2>2. \A m \in Names : RightFor(v, m)
    BY <1>5, <2>1 DEF StatusRight, Quiet
  <2>3. ASSUME NEW m \in Names, v.wants[m] = None
        PROVE  store[m] = None \/ store[m].owner # rel
    BY <1>5, <1>6, <2>2, <2>3 DEF RightFor, OwnedByRelease
  <2>4. ASSUME NEW m \in Names, v.wants[m] # None
        PROVE  Deployed(store[m], v.wants[m]) <=> v.states[m] = "True"
    <3> DEFINE w == store[m]
    <3>1. /\ w # None /\ w.owner = rel /\ w.spec = v.wants[m]
          /\ v.states[m] = computeHelmReleaseState(w)
      BY <1>5, <2>2, <2>4 DEF RightFor, OwnedByRelease
    <3>2. w \in OrderedVersions /\ ~w.deleting
      BY <1>6, <3>1
    <3>3. v.states[m] = "True" <=> w.ready = "True" /\ w.observed = w.generation
      BY <3>1, <3>2, TrueIsDeployed
    <3> QED
      BY <3>1, <3>2, <3>3 DEF Deployed
  <2>5. DOMAIN v.states = {m \in Names : v.wants[m] # None}
    BY <2>1 DEF StatusRight
  <2>6. NotReady(v.states) = {} <=> \A m \in Names : v.wants[m] # None => v.states[m] = "True"
    BY <2>5 DEF NotReady
  <2>7. v.phase = "READY" <=> NotReady(v.states) = {}
    BY <2>1 DEF StatusRight
  <2>8. (v.phase = "READY") <=>
          (\A m \in Names : v.wants[m] # None => Deployed(store[m], v.wants[m]))
    BY <2>4, <2>6, <2>7
  <2> QED
    BY <2>3, <2>8, Zenon
<1> QED
  BY <1>7, <1>8, Zenon DEF HelmInv

\* Once nothing is under way, a Release that is not suspended is READY exactly when each enabled
\* module is deployed, and it controls no HelmRelease of a disabled module
\* (release_helmrelease.go, release_controller.go), for any modules, renderings, lags, failed
\* calls and changes: no event is missed that would have made a pass.
THEOREM ModulesDeployed ==
  ASSUME HelmAssumption
  PROVE  Spec => []Deploys
<1>1. Init => HelmInv
  BY HelmInitStep
<1>2. HelmInv /\ [Next]_vars => HelmInv'
  BY HelmNextStep
<1>3. HelmInv => Deploys
  BY InvDeploys
<1> QED
  BY <1>1, <1>2, <1>3, PTL DEF Spec

\* A pass never changes a HelmRelease that the Release does not control, though it decides on
\* cached objects of any age and users replace them, nor spec.suspend, which flux suspend sets
\* (release_helmrelease.go).
THEOREM OthersAlone ==
  ASSUME HelmAssumption
  PROVE  Spec => LeavesAlone
<1>1. Init => HelmInv
  BY HelmInitStep
<1>2. HelmInv /\ [Next]_vars => HelmInv' /\ [LeavesAloneStep]_vars
  <2> SUFFICES ASSUME HelmInv, [Next]_vars PROVE HelmInv' /\ [LeavesAloneStep]_vars
    OBVIOUS
  <2>1. LeavesAloneStep
    <3>1. Reconcile => PassLeaves
      BY PassCluster
    <3> QED
      BY <3>1 DEF LeavesAloneStep, PassLeaves
  <2> QED
    BY <2>1, HelmNextStep
<1> QED
  BY <1>1, <1>2, PTL DEF Spec, LeavesAlone

\* A pass that sets READY does so when helm-controller has deployed the spec that each enabled
\* module renders (release_controller.go), provided that it reads the HelmReleases without lag.
THEOREM ReadyWhenDeployed ==
  ASSUME HelmAssumption, Names \cap Lagging = {}
  PROVE  Spec => ReadyIsDeployed
<1>1. Init => HelmInv
  BY HelmInitStep
<1>2. HelmInv /\ [Next]_vars => HelmInv' /\ [ReadyIsDeployedStep]_vars
  <2> SUFFICES ASSUME HelmInv, [Next]_vars PROVE HelmInv' /\ [ReadyIsDeployedStep]_vars
    OBVIOUS
  <2>1. DOMAIN store = HelmObjects
    BY DEF HelmInv, HelmCluster, Follows
  <2>2. CASE Reconcile
    BY <2>2, PassReady, HelmNextStep
  <2>3. ASSUME store'[rel].phase = store[rel].phase PROVE ReadyIsDeployedStep
    BY <2>3 DEF ReadyIsDeployedStep
  <2>4. \A m \in Names : rel \in HelmObjects \ {m}
    BY Zenon DEF HelmObjects, HelmAssumption
  <2>5. CASE \E o \in DOMAIN store : Deliver(o)
    BY <2>1, <2>3, <2>5, DeliverHelm
  <2>6. CASE \E m \in Names : HelmSteps(m) \/ FluxSuspend(m) \/ PutForeign(m)
    BY <2>3, <2>4, <2>6, HelmStartStep, HelmReportStep, HelmUninstallStep, FluxSuspendStep,
       PutForeignStep DEF HelmSteps
  <2>7. CASE \E w \in Renderings, suspended \in BOOLEAN : EditRelease(w, suspended)
    BY <2>3, <2>7, EditReleaseStep
  <2> QED
    BY <2>2, <2>5, <2>6, <2>7, HelmNextStep DEF Next
<1> QED
  BY <1>1, <1>2, PTL DEF Spec, ReadyIsDeployed

\* The statuses are of the right form (release_controller.go), and no condition is about a spec
\* to come.
THEOREM HelmTypes ==
  ASSUME HelmAssumption
  PROVE  Spec => []TypeOK
<1>1. Init => HelmInv
  BY HelmInitStep
<1>2. HelmInv /\ [Next]_vars => HelmInv'
  BY HelmNextStep
<1>3. HelmInv => TypeOK
  <2> SUFFICES ASSUME HelmInv PROVE TypeOK
    OBVIOUS
  <2>1. store[rel] \in ReleaseVersions
    BY HelmTyped DEF HelmInv, HelmCluster
  <2>2. PICK D \in SUBSET Names : store[rel].states \in [D -> ModuleStates]
    BY <2>1, Zenon DEF ReleaseVersions, StatesMaps
  <2>3. /\ DOMAIN store[rel].states \subseteq Names
        /\ \A m \in DOMAIN store[rel].states :
             store[rel].states[m] \in {"", "True", "False", "Unknown"}
    BY <2>2, Zenon DEF ModuleStates
  <2>4. /\ store[rel].phase \in {"", "ERROR", "SUSPENDED", "WAIT_HREL", "READY"}
        /\ store[rel].message \in {None} \cup DOMAIN store[rel].states
    BY <2>1, Zenon DEF ReleaseVersions
  <2>5. \A m \in Names : store[m] # None => store[m].readyGeneration <= store[m].generation
    BY HelmTyped, Generations DEF HelmInv, HelmCluster
  <2> QED
    BY <2>3, <2>4, <2>5, Zenon DEF TypeOK
<1> QED
  BY <1>1, <1>2, <1>3, PTL DEF Spec
=============================================================================
