------------------------- MODULE PackageCacheProofs -------------------------
(***************************************************************************)
(* Proofs about the package cache, for any keys, weights, caps and times:  *)
(* it stays within its caps, it answers with no entry that is too old, it  *)
(* implements LossyMap, and its counter is the weight of its entries.      *)
(***************************************************************************)
EXTENDS PackageCache, FiniteSetTheorems, TLAPS

USE CapsAssumption, TimesAssumption, WeightsAssumption

LEMMA TypeInit == Init => TypeOK
BY DEF Init, TypeOK

LEMMA EntryType ==
  ASSUME TypeOK, NEW e \in mapping
  PROVE  /\ e \in Entries
         /\ e.key \in Keys /\ e.value \in Values /\ e.weight \in Nat /\ e.time \in Nat
         /\ weight \in Int
<1>1. e \in Entries
  BY DEF TypeOK
<1>2. e.weight \in Weights
  BY <1>1 DEF Entries
<1> QED
  BY <1>1, <1>2 DEF Entries, TypeOK

\* What remains of the counter once the entry of the key is out.
LEMMA RestType ==
  ASSUME TypeOK, NEW k
  PROVE  weight \in Int /\ Rest(k) \in Int /\ Rest(k) <= weight
<1>1. CASE Held(k) = {}
  BY <1>1 DEF TypeOK, Rest
<1>2. CASE Held(k) # {}
  <2>1. (CHOOSE e \in Held(k) : TRUE) \in mapping
    BY <1>2 DEF Held
  <2>2. (CHOOSE e \in Held(k) : TRUE).weight \in Nat /\ weight \in Int
    BY <2>1, EntryType
  <2> QED
    BY <1>2, <2>2 DEF Rest
<1> QED
  BY <1>1, <1>2

LEMMA RemoveType ==
  ASSUME TypeOK, NEW e \in mapping, Remove(e)
  PROVE  /\ mapping' \subseteq Entries /\ weight' \in Int /\ weight' <= weight
         /\ \A f, g \in mapping' : f.key = g.key => f = g
<1>1. e.weight \in Nat /\ weight \in Int
  BY EntryType
<1>2. weight' \in Int /\ weight' <= weight
  BY <1>1 DEF Remove
<1> QED
  BY <1>2 DEF Remove, TypeOK

LEMMA TypeStep == TypeOK /\ [Next]_vars => TypeOK'
<1> SUFFICES ASSUME TypeOK, [Next]_vars PROVE TypeOK'
  OBVIOUS
<1>1. CASE Tick
  BY <1>1 DEF Tick, TypeOK
<1>2. ASSUME NEW k \in Keys, Get(k) PROVE TypeOK'
  BY <1>2 DEF Get, TypeOK
<1>3. CASE Answer
  BY <1>3 DEF Answer, Held, TypeOK, Entries
<1>4. CASE RemoveOlderThan
  <2>1. ASSUME NEW e \in Expired, Remove(e), UNCHANGED pc PROVE TypeOK'
    BY <1>4, <2>1, RemoveType DEF RemoveOlderThan, Expired, TypeOK
  <2>2. CASE pc' = (IF pc = "clean" THEN "get" ELSE "evict") /\ UNCHANGED <<mapping, weight>>
    BY <1>4, <2>2 DEF RemoveOlderThan, TypeOK
  <2> QED
    BY <1>4, <2>1, <2>2 DEF RemoveOlderThan
<1>5. CASE Evict
  <2>1. ASSUME NEW e \in mapping, Remove(e), UNCHANGED pc PROVE TypeOK'
    BY <1>5, <2>1, RemoveType DEF Evict, TypeOK
  <2>2. CASE pc' = "idle" /\ UNCHANGED <<mapping, weight>>
    BY <1>5, <2>2 DEF Evict, TypeOK
  <2> QED
    BY <1>5, <2>1, <2>2 DEF Evict
<1>6. ASSUME NEW k \in Keys, NEW v \in Values, NEW w \in Weights, Set(k, v, w) PROVE TypeOK'
  <2>1. NewEntry(k, v, w) \in Entries /\ now \in Nat /\ w \in Nat
    BY DEF Entries, TypeOK, NewEntry
  <2>2. Rest(k) \in Int
    BY RestType
  <2>3. weight' = Rest(k) \/ weight' = Rest(k) + w
    BY <1>6 DEF Set, Stored
  <2>4. weight' \in Int
    BY <2>1, <2>2, <2>3
  <2>5. mapping' \subseteq (mapping \ Held(k)) \cup {NewEntry(k, v, w)}
    BY <1>6 DEF Set, Stored
  <2>6. mapping' \subseteq Entries
    BY <2>1, <2>5 DEF TypeOK
  <2>7. NewEntry(k, v, w).key = k
    BY DEF NewEntry
  <2>8. \A f, g \in mapping' : f.key = g.key => f = g
    BY <2>5, <2>7 DEF TypeOK, Held
  <2>9. exp' \in Int /\ pc' \in {"idle", "trim"}
    BY <1>6, <2>1 DEF Set, Stored, TypeOK
  <2> QED
    BY <1>6, <2>4, <2>6, <2>8, <2>9 DEF Set, TypeOK
<1>7. CASE UNCHANGED vars
  BY <1>7 DEF vars, TypeOK
<1> QED
  BY <1>1, <1>2, <1>3, <1>4, <1>5, <1>6, <1>7 DEF Next

\* Entries are dated by the clock, and the cleanups keep up with it.
LEMMA AgeStep == TypeOK /\ AgeInv /\ [Next]_vars => AgeInv'
<1> SUFFICES ASSUME TypeOK, AgeInv, [Next]_vars PROVE AgeInv'
  OBVIOUS
<1>1. CASE Tick
  BY <1>1 DEF Tick, TypeOK, AgeInv
<1>2. ASSUME NEW k \in Keys, Get(k) PROVE AgeInv'
  BY <1>2 DEF Get, TypeOK, AgeInv
<1>3. CASE Answer
  BY <1>3 DEF Answer, TypeOK, AgeInv
<1>4. CASE RemoveOlderThan
  BY <1>4 DEF RemoveOlderThan, Expired, Remove, TypeOK, AgeInv, Entries
<1>5. CASE Evict
  BY <1>5 DEF Evict, Remove, TypeOK, AgeInv
<1>6. ASSUME NEW k \in Keys, NEW v \in Values, NEW w \in Weights, Set(k, v, w) PROVE AgeInv'
  BY <1>6 DEF Set, Stored, NewEntry, TypeOK, AgeInv
<1>7. CASE UNCHANGED vars
  BY <1>7 DEF vars, AgeInv
<1> QED
  BY <1>1, <1>2, <1>3, <1>4, <1>5, <1>6, <1>7 DEF Next

\* A removal keeps the cache finite, and takes it over no cap.
LEMMA RemoveStep ==
  ASSUME TypeOK, CapsInv, NEW e \in mapping, Remove(e)
  PROVE  /\ IsFiniteSet(mapping')
         /\ weight' <= 2 * MaxWeight
         /\ ~OverCaps(mapping, weight) => ~OverCaps(mapping', weight')
<1>1. IsFiniteSet(mapping') /\ Cardinality(mapping') <= Cardinality(mapping)
  BY FS_Subset DEF CapsInv, Remove
<1>2. Cardinality(mapping) \in Nat /\ Cardinality(mapping') \in Nat
  BY <1>1, FS_CardinalityType DEF CapsInv
<1>3. weight' <= weight /\ weight \in Int /\ weight' \in Int
  BY RemoveType DEF TypeOK
<1> QED
  BY <1>1, <1>2, <1>3 DEF CapsInv, WithinCaps, OverCaps

LEMMA CapsStep == TypeOK /\ CapsInv /\ [Next]_vars => CapsInv'
<1> SUFFICES ASSUME TypeOK, CapsInv, [Next]_vars PROVE CapsInv'
  OBVIOUS
<1>1. CASE Tick
  BY <1>1 DEF Tick, CapsInv, WithinCaps
<1>2. ASSUME NEW k \in Keys, Get(k) PROVE CapsInv'
  BY <1>2 DEF Get, CapsInv, WithinCaps
<1>3. CASE Answer
  BY <1>3 DEF Answer, CapsInv, WithinCaps
<1>4. CASE RemoveOlderThan
  <2>1. ASSUME NEW e \in Expired, Remove(e), UNCHANGED pc PROVE CapsInv'
    BY <2>1, RemoveStep DEF Expired, CapsInv, WithinCaps
  <2>2. CASE Expired = {} /\ pc' = (IF pc = "clean" THEN "get" ELSE "evict")
             /\ UNCHANGED <<mapping, weight>>
    BY <1>4, <2>2 DEF RemoveOlderThan, CapsInv, WithinCaps
  <2> QED
    BY <1>4, <2>1, <2>2 DEF RemoveOlderThan
<1>5. CASE Evict
  <2>1. ASSUME NEW e \in mapping, Remove(e), UNCHANGED pc PROVE CapsInv'
    BY <1>5, <2>1, RemoveStep DEF Evict, CapsInv, WithinCaps
  <2>2. CASE ~OverCaps(mapping, weight) /\ pc' = "idle" /\ UNCHANGED <<mapping, weight>>
    BY <2>2 DEF CapsInv, WithinCaps
  <2> QED
    BY <1>5, <2>1, <2>2 DEF Evict
<1>6. ASSUME NEW k \in Keys, NEW v \in Values, NEW w \in Weights, Set(k, v, w) PROVE CapsInv'
  <2> DEFINE others == mapping \ Held(k)
             with == others \cup {NewEntry(k, v, w)}
  <2>1. pc = "idle" /\ ~OverCaps(mapping, weight)
    BY <1>6 DEF Set, CapsInv, WithinCaps
  <2>2. IsFiniteSet(others) /\ Cardinality(others) <= Cardinality(mapping)
    BY FS_Subset DEF CapsInv
  <2>3. IsFiniteSet(with)
    BY <2>2, FS_AddElement
  <2>4. Cardinality(mapping) \in Nat /\ Cardinality(others) \in Nat
    BY <2>2, FS_CardinalityType DEF CapsInv
  <2>5. weight \in Int /\ Rest(k) \in Int /\ Rest(k) <= weight /\ w \in Nat
    BY RestType
  <2>6. CASE w > MaxWeight
    <3>1. mapping' = others /\ weight' = Rest(k) /\ pc' = pc
      BY <1>6, <2>6 DEF Set
    <3> HIDE DEF others
    <3> QED
      BY <2>1, <2>2, <2>4, <2>5, <3>1 DEF CapsInv, WithinCaps, OverCaps
  <2>7. CASE ~(w > MaxWeight)
    <3>1. Stored(with, Rest(k) + w)
      BY <1>6, <2>7 DEF Set
    <3> HIDE DEF with
    <3>2. mapping' = with /\ weight' = Rest(k) + w
      BY <3>1 DEF Stored
    <3>3. pc' = "trim" \/ ~OverCaps(mapping', weight')
      BY <3>1 DEF Stored
    <3>4. weight' <= 2 * MaxWeight
      BY <2>1, <2>5, <2>7, <3>2 DEF OverCaps
    <3> QED
      BY <2>3, <3>2, <3>3, <3>4 DEF CapsInv, WithinCaps
  <2> QED
    BY <2>6, <2>7
<1>7. CASE UNCHANGED vars
  BY <1>7 DEF vars, CapsInv, WithinCaps
<1> QED
  BY <1>1, <1>2, <1>3, <1>4, <1>5, <1>6, <1>7 DEF Next

\* The entry of a key is of the last Set: an older one is out, even if the new one is
\* refused.
LEMMA LatestStep == TypeOK /\ LatestInv /\ [Next]_vars => LatestInv'
<1> SUFFICES ASSUME TypeOK, LatestInv, [Next]_vars PROVE LatestInv'
  OBVIOUS
<1>1. CASE mapping' \subseteq mapping /\ UNCHANGED latest
  BY <1>1 DEF LatestInv
<1>2. ASSUME NEW k \in Keys, NEW v \in Values, NEW w \in Weights, Set(k, v, w) PROVE LatestInv'
  <2>1. mapping' \subseteq (mapping \ Held(k)) \cup {NewEntry(k, v, w)}
    BY <1>2 DEF Set, Stored
  <2>2. latest' = [latest EXCEPT ![k] = v] /\ latest \in [Keys -> Values \cup {None}]
    BY <1>2 DEF Set, TypeOK
  <2>3. NewEntry(k, v, w).key = k /\ NewEntry(k, v, w).value = v
    BY DEF NewEntry
  <2>4. \A e \in mapping \ Held(k) : e.key \in Keys /\ e.key # k
    BY EntryType DEF Held
  <2> QED
    BY <2>1, <2>2, <2>3, <2>4 DEF LatestInv
<1>3. Tick \/ (\E k \in Keys : Get(k)) \/ Answer \/ RemoveOlderThan \/ Evict \/ UNCHANGED vars
        => mapping' \subseteq mapping /\ UNCHANGED latest
  BY DEF Tick, Get, Answer, RemoveOlderThan, Evict, Remove, vars
<1> QED
  BY <1>1, <1>2, <1>3 DEF Next

LEMMA InvInit == Init => IInv
<1> SUFFICES ASSUME Init PROVE IInv
  OBVIOUS
<1>1. TypeOK
  BY TypeInit
<1>2. AgeInv
  BY DEF Init, AgeInv
<1>3. CapsInv
  BY FS_EmptySet DEF Init, CapsInv, WithinCaps, OverCaps
<1>4. LatestInv
  BY DEF Init, LatestInv
<1> QED
  BY <1>1, <1>2, <1>3, <1>4 DEF IInv

LEMMA InvAlways == Spec => []IInv
<1>1. IInv /\ [Next]_vars => IInv'
  BY TypeStep, AgeStep, CapsStep, LatestStep DEF IInv
<1> QED
  BY InvInit, <1>1, PTL DEF Spec

\* A key has at most one entry, whatever Set, expiry and eviction do.
THEOREM TypeCorrect == Spec => []TypeOK
<1>1. IInv => TypeOK
  BY DEF IInv
<1> QED
  BY InvAlways, <1>1, PTL

\* The two caps hold whenever the mutex is free, and the counter never reaches twice
\* its cap (cache.go:79-84).
THEOREM CapsHold == Spec => []WithinCaps
<1>1. IInv => WithinCaps
  BY DEF IInv, CapsInv
<1> QED
  BY InvAlways, <1>1, PTL

\* Get answers with no entry older than its life and one period of cleanups.
THEOREM AnswersAreFresh == Spec => []FreshEnough
<1>1. IInv => FreshEnough
  <2> SUFFICES ASSUME IInv, pc = "get", NEW e \in Held(asked.key)
               PROVE  asked.at <= e.time + Duration + Period
    BY DEF FreshEnough
  <2>1. e \in mapping /\ e.time \in Nat
    BY EntryType DEF IInv, Held
  <2>2. asked.at \in Nat /\ nextCleanup \in Nat
    BY DEF IInv, TypeOK
  <2> QED
    BY <2>1, <2>2 DEF IInv, AgeInv
<1> QED
  BY InvAlways, <1>1, PTL

-----------------------------------------------------------------------------
(* The cache implements LossyMap. *)

LEMMA StepIsLossy == IInv /\ [Next]_vars => [Promise!Next]_<<latest, got>>
<1> SUFFICES ASSUME IInv, [Next]_vars
             PROVE  Promise!Next \/ UNCHANGED <<latest, got>>
  OBVIOUS
<1> USE DEF Promise!Next, Promise!Set, Promise!Get
<1>1. CASE Answer
  <2>1. asked.key \in Keys /\ latest' = latest
    BY <1>1 DEF Answer, IInv, TypeOK
  <2>2. got' \in {latest[asked.key], None}
    BY <1>1 DEF Answer, Held, IInv, LatestInv
  <2> QED
    BY <2>1, <2>2
<1>2. ASSUME NEW k \in Keys, NEW v \in Values, NEW w \in Weights, Set(k, v, w) PROVE Promise!Next
  BY <1>2 DEF Set
<1>3. Tick \/ (\E k \in Keys : Get(k)) \/ RemoveOlderThan \/ Evict \/ UNCHANGED vars
        => UNCHANGED <<latest, got>>
  BY DEF Tick, Get, RemoveOlderThan, Evict, vars
<1> QED
  BY <1>1, <1>2, <1>3 DEF Next

\* The cache never answers with a value that is not the last one set under the key: it
\* implements LossyMap (cache.go:58-124).
THEOREM CacheIsLossyMap == Spec => IsLossyMap
<1>1. Init => Promise!Init
  BY DEF Init, Promise!Init
<1> QED
  BY InvAlways, StepIsLossy, <1>1, PTL DEF Spec, IsLossyMap, Promise!Spec

-----------------------------------------------------------------------------
(* The sum of the weights of a finite set, which MapThenSumSet takes one     *)
(* chosen entry after the other.                                             *)

Chosen(s) == CHOOSE x \in s : TRUE

\* f gives the sum of every subset of S.
Sums(S, f) ==
  f = [s \in SUBSET S |-> IF s = {} THEN 0 ELSE Chosen(s).weight + f[s \ {Chosen(s)}]]

Total(S) == CHOOSE f : Sums(S, f)
SumOf(S) == Total(S)[S]

Weighted(S) == \A e \in S : e.weight \in Int

\* The sum of the community modules is this one.
LEMMA SumSetIsSum ==
  ASSUME NEW S
  PROVE  MapThenSumSet(LAMBDA e : e.weight, S) = SumOf(S)
BY DEF MapThenSumSet, MapThenFoldSet, SumOf, Total, Sums, Chosen

\* Of the subsets of a finite set that have something in common, one has no smaller one.
LEMMA SmallestSubset ==
  ASSUME NEW S, IsFiniteSet(S), NEW T, T \subseteq SUBSET S, T # {}
  PROVE  \E x \in T : \A y \in T : y \subseteq x => y = x
<1>1. IsWellFoundedOn(StrictSubsetOrdering(S), SUBSET S)
  BY FS_StrictSubsetOrderingWellFounded, FS_FiniteSubsetsOfFinite
<1>2. PICK x \in T : \A y \in T : ~(<<y, x>> \in StrictSubsetOrdering(S))
  BY <1>1, WFMin
<1>3. ASSUME NEW y \in T, y \subseteq x PROVE y = x
  BY <1>2, <1>3 DEF StrictSubsetOrdering
<1> QED
  BY <1>3

\* What the sums of the subsets are.
LEMMA SumsAt ==
  ASSUME NEW S, NEW f, Sums(S, f), NEW s, s \subseteq S
  PROVE  /\ s = {} => f[s] = 0
         /\ s # {} => /\ Chosen(s) \in s
                      /\ f[s] = Chosen(s).weight + f[s \ {Chosen(s)}]
BY DEF Sums, Chosen

\* What the sum of a set that has its sums is.
LEMMA SumOfAt ==
  ASSUME NEW t, Sums(t, Total(t))
  PROVE  /\ t = {} => SumOf(t) = 0
         /\ t # {} => SumOf(t) = Chosen(t).weight + Total(t)[t \ {Chosen(t)}]
<1> DEFINE f == Total(t)
<1> HIDE DEF f
<1>1. Sums(t, f) /\ t \subseteq t
  BY DEF f
<1>2. /\ t = {} => f[t] = 0
      /\ t # {} => f[t] = Chosen(t).weight + f[t \ {Chosen(t)}]
  BY <1>1, SumsAt
<1> QED
  BY <1>2 DEF f, SumOf

\* The sum of a subset does not depend on the set it is taken from.
LEMMA SumsAgree ==
  ASSUME NEW S, NEW T, NEW f, NEW g, Sums(S, f), Sums(T, g),
         NEW U, IsFiniteSet(U), U \subseteq S, U \subseteq T
  PROVE  f[U] = g[U]
<1> DEFINE B == {V \in SUBSET U : f[V] # g[V]}
<1>1. ASSUME B # {} PROVE FALSE
  <2>1. PICK V \in B : \A y \in B : y \subseteq V => y = V
    <3>1. B \subseteq SUBSET U
      OBVIOUS
    <3> HIDE DEF B
    <3> QED
      BY <1>1, <3>1, SmallestSubset
  <2>2. V \subseteq S /\ V \subseteq T /\ f[V] # g[V]
    BY <2>1
  <2>3. V # {} /\ Chosen(V) \in V
    BY <2>2, SumsAt
  <2>4. V \ {Chosen(V)} \notin B
    BY <2>1, <2>3
  <2>5. f[V \ {Chosen(V)}] = g[V \ {Chosen(V)}]
    BY <2>1, <2>4
  <2>6. f[V] = Chosen(V).weight + f[V \ {Chosen(V)}]
    BY <2>2, <2>3, SumsAt
  <2>7. g[V] = Chosen(V).weight + g[V \ {Chosen(V)}]
    BY <2>2, <2>3, SumsAt
  <2> QED
    BY <2>2, <2>5, <2>6, <2>7
<1> QED
  BY <1>1

\* The sums are integers, and any entry of a set may be taken out first.
LEMMA SumsTyped ==
  ASSUME NEW S, IsFiniteSet(S), Weighted(S), NEW f, Sums(S, f), NEW U, U \subseteq S
  PROVE  f[U] \in Int
<1> DEFINE B == {V \in SUBSET S : f[V] \notin Int}
<1>1. ASSUME B # {} PROVE FALSE
  <2>1. PICK V \in B : \A y \in B : y \subseteq V => y = V
    <3>1. B \subseteq SUBSET S
      OBVIOUS
    <3> HIDE DEF B
    <3> QED
      BY <1>1, <3>1, SmallestSubset
  <2>2. V \subseteq S /\ f[V] \notin Int
    BY <2>1
  <2>3. V # {} /\ Chosen(V) \in V
    BY <2>2, SumsAt
  <2>4. V \ {Chosen(V)} \notin B
    BY <2>1, <2>3
  <2>5. f[V \ {Chosen(V)}] \in Int /\ Chosen(V).weight \in Int
    BY <2>1, <2>3, <2>4 DEF Weighted
  <2>6. f[V] = Chosen(V).weight + f[V \ {Chosen(V)}]
    BY <2>2, <2>3, SumsAt
  <2> QED
    BY <2>2, <2>5, <2>6
<1> QED
  BY <1>1

LEMMA SumsTakeOut ==
  ASSUME NEW S, IsFiniteSet(S), Weighted(S), NEW f, Sums(S, f),
         NEW U, U \subseteq S, NEW a \in U
  PROVE  f[U] = a.weight + f[U \ {a}]
<1> DEFINE B == {V \in SUBSET S : \E e \in V : f[V] # e.weight + f[V \ {e}]}
<1>1. ASSUME B # {} PROVE FALSE
  <2>1. PICK V \in B : \A y \in B : y \subseteq V => y = V
    <3>1. B \subseteq SUBSET S
      OBVIOUS
    <3> HIDE DEF B
    <3> QED
      BY <1>1, <3>1, SmallestSubset
  <2>2. PICK e \in V : f[V] # e.weight + f[V \ {e}]
    BY <2>1
  <2> DEFINE x == Chosen(V)
             both == (V \ {x}) \ {e}
  <2>3. V \subseteq S /\ x \in V /\ f[V] = x.weight + f[V \ {x}]
    <3>1. V \subseteq S /\ V # {}
      BY <2>1, <2>2
    <3> HIDE DEF B
    <3> QED
      BY <3>1, SumsAt DEF x
  <2>4. x # e
    BY <2>2, <2>3
  <2> HIDE DEF x
  <2>5. V \ {x} \notin B /\ V \ {e} \notin B /\ (V \ {e}) \ {x} = both
    BY <2>1, <2>2, <2>3
  <2>6. f[V \ {x}] = e.weight + f[both]
    BY <2>1, <2>2, <2>4, <2>5
  <2>7. f[V \ {e}] = x.weight + f[both]
    BY <2>1, <2>3, <2>4, <2>5
  <2>8. x.weight \in Int /\ e.weight \in Int
    BY <2>2, <2>3 DEF Weighted
  <2>9. both \subseteq S
    BY <2>3
  <2>10. f[both] \in Int
    BY <2>9, SumsTyped
  <2> HIDE DEF both
  <2> QED
    BY <2>2, <2>3, <2>6, <2>7, <2>8, <2>10
<1> QED
  BY <1>1

\* Every finite set has its sums: those of the smaller sets give them.
LEMMA SumsExist ==
  ASSUME NEW S, IsFiniteSet(S)
  PROVE  Sums(S, Total(S))
<1> DEFINE B == {V \in SUBSET S : ~\E f : Sums(V, f)}
<1>1. ASSUME B # {} PROVE FALSE
  <2>1. PICK V \in B : \A y \in B : y \subseteq V => y = V
    <3>1. B \subseteq SUBSET S
      OBVIOUS
    <3> HIDE DEF B
    <3> QED
      BY <1>1, <3>1, SmallestSubset
  <2>2. ASSUME NEW s, s \subseteq V, s # V PROVE Sums(s, Total(s))
    <3>1. s \notin B /\ s \in SUBSET S
      BY <2>1, <2>2
    <3>2. \E f : Sums(s, f)
      BY <3>1
    <3> QED
      BY <3>2 DEF Total
  <2> DEFINE rest(s) == s \ {Chosen(s)}
             F == [s \in SUBSET V |-> IF s = {} THEN 0
                                      ELSE Chosen(s).weight + SumOf(rest(s))]
  <2>3. ASSUME NEW s, s \subseteq V, s # {} PROVE F[rest(s)] = SumOf(rest(s))
    <3> DEFINE t == rest(s)
    <3>1. Chosen(s) \in s
      BY <2>3 DEF Chosen
    <3>2. t \subseteq V /\ t # V
      BY <2>3, <3>1
    <3>3. Sums(t, Total(t)) /\ IsFiniteSet(t)
      <4>1. Sums(t, Total(t))
        BY <2>2, <3>2
      <4>2. t \subseteq S
        BY <2>1, <3>2
      <4> HIDE DEF t
      <4> QED
        BY <4>1, <4>2, FS_Subset
    <3> HIDE DEF t
    <3>4. CASE t = {}
      <4>1. SumOf(t) = 0
        BY <3>3, <3>4, SumOfAt
      <4>2. F[t] = 0
        BY <3>2, <3>4
      <4> HIDE DEF F
      <4> QED
        BY <4>1, <4>2 DEF t
    <3>5. CASE t # {}
      <4> DEFINE u == rest(t)
      <4>1. Chosen(t) \in t
        BY <3>5 DEF Chosen
      <4>2. u \subseteq t /\ u \subseteq V /\ u # V
        BY <3>2, <4>1
      <4>3. Sums(u, Total(u)) /\ IsFiniteSet(u)
        <5>1. Sums(u, Total(u))
          BY <2>2, <4>2
        <5> HIDE DEF u
        <5> QED
          BY <3>3, <4>2, <5>1, FS_Subset
      <4>4. SumOf(t) = Chosen(t).weight + Total(t)[u]
        BY <3>3, <3>5, SumOfAt
      <4>5. F[t] = Chosen(t).weight + SumOf(u)
        BY <3>2, <3>5
      <4>6. SumOf(u) = Total(t)[u]
        <5> HIDE DEF u
        <5> QED
          BY <3>3, <4>2, <4>3, SumsAgree DEF SumOf
      <4> HIDE DEF u, F
      <4> QED
        BY <4>4, <4>5, <4>6 DEF t
    <3> QED
      BY <3>4, <3>5 DEF t
  <2>4. Sums(V, F)
    BY <2>3 DEF Sums
  <2> QED
    BY <2>1, <2>4
<1>2. \E f : Sums(S, f)
  BY <1>1
<1> QED
  BY <1>2 DEF Total

\* The sum of a finite set is that of the others with the weight of the entry taken out.
LEMMA SumTakesOut ==
  ASSUME NEW S, IsFiniteSet(S), Weighted(S)
  PROVE  /\ SumOf(S) \in Int /\ SumOf({}) = 0
         /\ \A e \in S : SumOf(S) = e.weight + SumOf(S \ {e})
<1>1. Sums(S, Total(S))
  BY SumsExist
<1>2. SumOf(S) \in Int
  BY <1>1, SumsTyped DEF SumOf
<1>3. SumOf({}) = 0
  <2>1. Sums({}, Total({}))
    BY SumsExist, FS_EmptySet
  <2> QED
    BY <2>1, SumsAt DEF SumOf
<1>4. ASSUME NEW e \in S PROVE SumOf(S) = e.weight + SumOf(S \ {e})
  <2> DEFINE T == S \ {e}
  <2>1. T \subseteq S /\ IsFiniteSet(T)
    BY FS_Subset
  <2>2. Total(S)[S] = e.weight + Total(S)[T]
    BY <1>1, SumsTakeOut
  <2> HIDE DEF T
  <2>3. Sums(T, Total(T))
    BY <2>1, SumsExist
  <2>4. Total(S)[T] = Total(T)[T]
    BY <1>1, <2>1, <2>3, SumsAgree
  <2> QED
    BY <2>2, <2>4 DEF SumOf, T
<1> QED
  BY <1>2, <1>3, <1>4

-----------------------------------------------------------------------------
(* The counter is the weight of the entries. *)

\* The entries are finitely many and have integer weights.
LEMMA EntriesWeighted ==
  ASSUME TypeOK, CapsInv
  PROVE  IsFiniteSet(mapping) /\ Weighted(mapping) /\ weight \in Int
<1>1. \A e \in mapping : e.weight \in Nat
  BY EntryType
<1> QED
  BY <1>1 DEF CapsInv, TypeOK, Weighted

\* A removal takes the weight of its entry out of the counter.
LEMMA RemoveCounts ==
  ASSUME TypeOK, CapsInv, weight = SumOf(mapping), NEW e \in mapping, Remove(e)
  PROVE  weight' = SumOf(mapping')
<1>1. /\ SumOf(mapping) = e.weight + SumOf(mapping \ {e})
      /\ e.weight \in Int
  BY EntriesWeighted, SumTakesOut DEF Weighted
<1>2. SumOf(mapping \ {e}) \in Int
  <2> DEFINE T == mapping \ {e}
  <2>1. IsFiniteSet(T) /\ Weighted(T)
    BY EntriesWeighted, FS_Subset DEF Weighted
  <2> HIDE DEF T
  <2>2. SumOf(T) \in Int
    BY <2>1, SumTakesOut
  <2> QED
    BY <2>2 DEF T
<1> QED
  BY <1>1, <1>2 DEF Remove

\* What Set goes on with is the weight of the entries of the other keys.
LEMMA RestCounts ==
  ASSUME TypeOK, CapsInv, weight = SumOf(mapping), NEW k
  PROVE  Rest(k) = SumOf(mapping \ Held(k))
<1>1. CASE Held(k) = {}
  <2>1. mapping \ Held(k) = mapping
    BY <1>1
  <2> QED
    BY <1>1, <2>1 DEF Rest
<1>2. CASE Held(k) # {}
  <2> DEFINE e == CHOOSE x \in Held(k) : TRUE
  <2>1. e \in Held(k)
    BY <1>2
  <2>2. Rest(k) = weight - e.weight
    BY <1>2 DEF Rest
  <2> HIDE DEF e
  <2>3. e \in mapping /\ Held(k) = {e}
    BY <2>1 DEF Held, TypeOK
  <2> DEFINE T == mapping \ {e}
  <2>4. IsFiniteSet(T) /\ Weighted(T)
    BY EntriesWeighted, FS_Subset DEF Weighted
  <2>5. SumOf(mapping) = e.weight + SumOf(T) /\ e.weight \in Int
    BY <2>3, EntriesWeighted, SumTakesOut DEF Weighted
  <2> HIDE DEF T
  <2>6. SumOf(T) \in Int
    BY <2>4, SumTakesOut
  <2>7. Rest(k) = SumOf(T)
    BY <2>2, <2>5, <2>6
  <2> QED
    BY <2>3, <2>7 DEF T
<1> QED
  BY <1>1, <1>2

\* The counter follows Set, refused or not, and every removal.
LEMMA CountedStep ==
  ASSUME TypeOK, CapsInv, weight = SumOf(mapping), [Next]_vars
  PROVE  weight' = SumOf(mapping')
<1>1. ASSUME NEW e \in mapping, Remove(e) PROVE weight' = SumOf(mapping')
  BY <1>1, RemoveCounts
<1>2. CASE UNCHANGED <<mapping, weight>>
  BY <1>2
<1>3. ASSUME NEW k \in Keys, NEW v \in Values, NEW w \in Weights, Set(k, v, w)
      PROVE  weight' = SumOf(mapping')
  <2> DEFINE others == mapping \ Held(k)
             n == NewEntry(k, v, w)
             with == others \cup {n}
  <2>1. Rest(k) = SumOf(others) /\ w \in Int
    BY RestCounts
  <2>2. CASE w > MaxWeight
    BY <1>3, <2>1, <2>2 DEF Set
  <2>3. CASE ~(w > MaxWeight)
    <3>1. mapping' = with /\ weight' = Rest(k) + w
      BY <1>3, <2>3 DEF Set, Stored
    <3>2. n.weight = w /\ n \notin others
      BY DEF NewEntry, Held
    <3>3. with \ {n} = others /\ n \in with
      BY <3>2
    <3>4. IsFiniteSet(others) /\ Weighted(others)
      BY EntriesWeighted, FS_Subset DEF Weighted
    <3>5. IsFiniteSet(with) /\ Weighted(with)
      BY <2>1, <3>2, <3>4, FS_AddElement DEF Weighted
    <3> HIDE DEF others, n, with
    <3>6. SumOf(others) \in Int
      BY <3>4, SumTakesOut
    <3>7. SumOf(with) = n.weight + SumOf(others)
      BY <3>3, <3>5, SumTakesOut
    <3> QED
      BY <2>1, <3>1, <3>2, <3>6, <3>7
  <2> QED
    BY <2>2, <2>3
<1>4. Tick \/ (\E k \in Keys : Get(k)) \/ Answer \/ UNCHANGED vars => UNCHANGED <<mapping, weight>>
  BY DEF Tick, Get, Answer, vars
<1>5. RemoveOlderThan \/ Evict => (\E e \in mapping : Remove(e)) \/ UNCHANGED <<mapping, weight>>
  BY DEF RemoveOlderThan, Expired, Evict
<1> QED
  BY <1>1, <1>2, <1>3, <1>4, <1>5 DEF Next

\* The counter is the weight of the entries whenever it is read: a replaced, refused, expired
\* or evicted entry is counted out exactly once (Set, remove of cache.go:70-91).
THEOREM WeightsCounted == Spec => []CountedOnce
<1> DEFINE Counted == weight = SumOf(mapping)
<1>1. Init => Counted
  BY SumTakesOut, FS_EmptySet DEF Init, Weighted
<1>2. IInv /\ Counted /\ [Next]_vars => Counted'
  BY CountedStep DEF IInv
<1>3. Counted => CountedOnce
  BY SumSetIsSum DEF CountedOnce
<1> QED
  BY InvAlways, <1>1, <1>2, <1>3, PTL DEF Spec
=============================================================================
