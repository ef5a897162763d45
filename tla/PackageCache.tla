---------------------------- MODULE PackageCache ----------------------------
(***************************************************************************)
(* The cache of loaded packages (src/internal/cache/cache.go).  Get and    *)
(* Set run under a mutex: a call that starts when no other is under way    *)
(* goes through the loops of the code one removal at a time, while the     *)
(* clock goes on.                                                          *)
(***************************************************************************)
EXTENDS Integers, FiniteSets, FiniteSetsExt

CONSTANTS
  Keys, Values, None,
  Weights,      \* weights of the values
  MaxEntries, MaxWeight,
  Duration,     \* life of an entry
  Period,       \* time between two cleanups by Get
  MaxTime       \* bound on the clock

ASSUME CapsAssumption == MaxEntries \in Nat \ {0} /\ MaxWeight \in Nat \ {0}
ASSUME TimesAssumption == Duration \in Nat /\ Period \in Nat /\ MaxTime \in Nat
ASSUME WeightsAssumption == Weights \subseteq Nat
ASSUME NoneAssumption == None \notin Values

VARIABLES
  mapping,      \* the entries
  weight,       \* the counter of their weight
  nextCleanup,
  now,          \* the clock
  pc,           \* where the call under way is
  asked,        \* key of a Get, and the time it read
  exp,          \* entries inserted before it are expired
  got,          \* the answer of the last Get
  latest        \* history: the value last given to Set under each key

vars == <<mapping, weight, nextCleanup, now, pc, asked, exp, got, latest>>

Entries == [key : Keys, value : Values, weight : Weights, time : Nat]

Init ==
  /\ mapping = {} /\ weight = 0
  /\ now = 0 /\ nextCleanup = Period
  /\ pc = "idle" /\ asked = [key |-> None, at |-> 0] /\ exp = 0
  /\ got = None /\ latest = [k \in Keys |-> None]

Tick ==
  /\ now < MaxTime
  /\ now' = now + 1
  /\ UNCHANGED <<mapping, weight, nextCleanup, pc, asked, exp, got, latest>>

\* remove, of an entry that is there.
Remove(e) ==
  /\ mapping' = mapping \ {e}
  /\ weight' = weight - e.weight

Held(k) == {e \in mapping : e.key = k}
Expired == {e \in mapping : e.time < exp}

OverCaps(entries, total) == Cardinality(entries) > MaxEntries \/ total > MaxWeight

\* Mutant: the next cleanup is put off by the life of an entry too.
GetLate(k) ==
  /\ pc = "idle"
  /\ asked' = [key |-> k, at |-> now]
  /\ IF now > nextCleanup
     THEN pc' = "clean" /\ nextCleanup' = now + Period + Duration /\ exp' = now - Duration
     ELSE pc' = "get" /\ UNCHANGED <<nextCleanup, exp>>
  /\ UNCHANGED <<mapping, weight, now, got, latest>>

\* Get starts with clean, which scans the entries once in a period.
Get(k) ==
  /\ pc = "idle"
  /\ asked' = [key |-> k, at |-> now]
  /\ IF now > nextCleanup
     THEN pc' = "clean" /\ nextCleanup' = now + Period /\ exp' = now - Duration
     ELSE pc' = "get" /\ UNCHANGED <<nextCleanup, exp>>
  /\ UNCHANGED <<mapping, weight, now, got, latest>>

Answer ==
  /\ pc = "get"
  /\ \/ Held(asked.key) = {} /\ got' = None
     \/ \E e \in Held(asked.key) : got' = e.value
  /\ pc' = "idle"
  /\ UNCHANGED <<mapping, weight, nextCleanup, now, asked, exp, latest>>

\* removeOlderThan, for clean and for a Set that passes the caps.
RemoveOlderThan ==
  /\ pc \in {"clean", "trim"}
  /\ \/ /\ \E e \in Expired : Remove(e)
        /\ UNCHANGED pc
     \/ /\ Expired = {}
        /\ pc' = IF pc = "clean" THEN "get" ELSE "evict"
        /\ UNCHANGED <<mapping, weight>>
  /\ UNCHANGED <<nextCleanup, now, asked, exp, got, latest>>

\* Mutant: the weight of a replaced entry stays in the counter.
RestUncounted(k) == weight

\* The counter once the entry of the key is out.
Rest(k) == IF Held(k) = {} THEN weight ELSE weight - (CHOOSE e \in Held(k) : TRUE).weight

NewEntry(k, v, w) == [key |-> k, value |-> v, weight |-> w, time |-> now]

\* The entries and the counter that Set leaves, before it looks at the caps.
Stored(entries, total) ==
  /\ mapping' = entries /\ weight' = total
  /\ IF OverCaps(entries, total)
     THEN pc' = "trim" /\ exp' = now - Duration
     ELSE UNCHANGED <<pc, exp>>

\* Mutants: the entry of the key stays when another comes, or when another is refused.
SetBeside(k, v, w) ==
  /\ pc = "idle"
  /\ latest' = [latest EXCEPT ![k] = v]
  /\ IF w > MaxWeight
     THEN UNCHANGED <<mapping, weight, pc, exp>>
     ELSE Stored(mapping \cup {NewEntry(k, v, w)}, weight + w)
  /\ UNCHANGED <<nextCleanup, now, asked, got>>

SetRefusesFirst(k, v, w) ==
  /\ pc = "idle"
  /\ latest' = [latest EXCEPT ![k] = v]
  /\ IF w > MaxWeight
     THEN UNCHANGED <<mapping, weight, pc, exp>>
     ELSE Stored((mapping \ Held(k)) \cup {NewEntry(k, v, w)}, Rest(k) + w)
  /\ UNCHANGED <<nextCleanup, now, asked, got>>

\* The entry of the key goes first, even when the new one is refused.
Set(k, v, w) ==
  /\ pc = "idle"
  /\ latest' = [latest EXCEPT ![k] = v]
  /\ IF w > MaxWeight
     THEN /\ mapping' = mapping \ Held(k) /\ weight' = Rest(k)
          /\ UNCHANGED <<pc, exp>>
     ELSE Stored((mapping \ Held(k)) \cup {NewEntry(k, v, w)}, Rest(k) + w)
  /\ UNCHANGED <<nextCleanup, now, asked, got>>

\* Mutant: at most one entry is evicted.
EvictOnce ==
  /\ pc = "evict"
  /\ pc' = "idle"
  /\ IF OverCaps(mapping, weight)
     THEN \E e \in mapping : (\A f \in mapping : e.time <= f.time) /\ Remove(e)
     ELSE UNCHANGED <<mapping, weight>>
  /\ UNCHANGED <<nextCleanup, now, asked, exp, got, latest>>

\* Of several oldest entries, the map gives any first.
Evict ==
  /\ pc = "evict"
  /\ \/ /\ OverCaps(mapping, weight)
        /\ \E e \in mapping : (\A f \in mapping : e.time <= f.time) /\ Remove(e)
        /\ UNCHANGED pc
     \/ /\ ~OverCaps(mapping, weight)
        /\ pc' = "idle"
        /\ UNCHANGED <<mapping, weight>>
  /\ UNCHANGED <<nextCleanup, now, asked, exp, got, latest>>

Next ==
  \/ Tick
  \/ \E k \in Keys : Get(k)
  \/ Answer \/ RemoveOlderThan \/ Evict
  \/ \E k \in Keys, v \in Values, w \in Weights : Set(k, v, w)

Spec == Init /\ [][Next]_vars

-----------------------------------------------------------------------------
(* Properties. *)

\* Every variable has its type, and a key has at most one entry.
TypeOK ==
  /\ mapping \subseteq Entries
  /\ \A e, f \in mapping : e.key = f.key => e = f
  /\ weight \in Int /\ nextCleanup \in Nat /\ now \in Nat /\ exp \in Int
  /\ pc \in {"idle", "clean", "get", "trim", "evict"}
  /\ asked \in [key : Keys \cup {None}, at : Nat]
  /\ pc \in {"clean", "get"} => asked.key \in Keys
  /\ got \in Values \cup {None}
  /\ latest \in [Keys -> Values \cup {None}]

\* The counter is the weight of the entries: replaced, refused, expired and evicted
\* entries are each counted out once (cache.go:70-91).
CountedOnce == weight = MapThenSumSet(LAMBDA e : e.weight, mapping)

\* A call that gives the mutex back leaves the cache within its two caps; in the middle
\* of a Set the counter is at most twice its cap, which the flag of the cap keeps
\* below the largest integer.
WithinCaps ==
  /\ pc \notin {"trim", "evict"} => ~OverCaps(mapping, weight)
  /\ weight <= 2 * MaxWeight

\* An entry that Get is about to answer was inserted no earlier than its life and one
\* period of cleanups before: the cleanups that Get skips, and those that ran before
\* the entry expired, let it live no longer (cache.go:58-65, 117-124).
FreshEnough ==
  pc = "get" => \A e \in Held(asked.key) : asked.at <= e.time + Duration + Period

\* The cache is a map that may forget, and that never answers with an old value: not
\* even after a Set that it refused (cache.go:70-74).
Promise == INSTANCE LossyMap
IsLossyMap == Promise!Spec

-----------------------------------------------------------------------------
(* The inductive invariant of the proofs: entries live one period more than  *)
(* their life at the next cleanup, and the cleanup under way sees to it.     *)

AgeInv ==
  /\ nextCleanup <= now + Period
  /\ pc \in {"clean", "get"} => asked.at <= nextCleanup
  /\ IF pc = "clean" THEN exp = nextCleanup - Period - Duration
     ELSE \A e \in mapping : nextCleanup <= e.time + Duration + Period

CapsInv == IsFiniteSet(mapping) /\ WithinCaps

LatestInv == \A e \in mapping : e.value = latest[e.key]

IInv == TypeOK /\ AgeInv /\ CapsInv /\ LatestInv
=============================================================================
