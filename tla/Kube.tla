-------------------------------- MODULE Kube --------------------------------
(***************************************************************************)
(* The API server and the informer cache of the manager, as the            *)
(* controllers use them.  Reads come from the cache, which lags behind the *)
(* server and receives the versions of an object one by one, in order.     *)
(* Writes go to the server.  The version of the cache is the one of the    *)
(* server when no other version is on its way, which is what an Update     *)
(* asks for (its resourceVersion) and a merge Patch does not.              *)
(***************************************************************************)
EXTENDS Sequences

VARIABLES
  store,   \* what the API server holds, for each object
  feed,    \* the versions that the cache has not received, for each object
  cache    \* what the cache holds, for each object

kube == <<store, feed, cache>>

KubeInit(objects) ==
  /\ store = objects
  /\ feed = [o \in DOMAIN objects |-> <<>>]
  /\ cache = objects

\* The write of one object, no write at all, writes that depend on a condition, and two sets of
\* writes, the first of which counts where they name the same object.
Only(o, version) == [x \in {o} |-> version]
NoWrites == <<>>
When(condition, writes) == IF condition THEN writes ELSE NoWrites
Joined(writes, others) ==
  [o \in DOMAIN writes \cup DOMAIN others |-> IF o \in DOMAIN writes THEN writes[o] ELSE others[o]]

\* The objects of writes take their new values.  A write that changes nothing
\* makes no version.
Write(writes) ==
  /\ store' = [o \in DOMAIN store |-> IF o \in DOMAIN writes THEN writes[o] ELSE store[o]]
  /\ feed' = [o \in DOMAIN feed |->
                IF store'[o] # store[o] THEN Append(feed[o], store'[o]) ELSE feed[o]]
  /\ UNCHANGED cache

\* The next version of o reaches the cache.
Receive(o) ==
  /\ feed[o] # <<>>
  /\ cache' = [cache EXCEPT ![o] = Head(feed[o])]
  /\ feed' = [feed EXCEPT ![o] = Tail(@)]
  /\ UNCHANGED store

\* A started manager lists every object before its controllers run.
Relist ==
  /\ cache' = store
  /\ feed' = [o \in DOMAIN feed |-> <<>>]
  /\ UNCHANGED store

Current(o) == feed[o] = <<>>
CaughtUp == \A o \in DOMAIN feed : Current(o)
=============================================================================
