---------------------------- MODULE Connections ----------------------------
(***************************************************************************)
(* The controllers of the Contracts, ClusterContracts, Connections and     *)
(* ClusterConnections (src/internal/controller/contract_controller.go,     *)
(* connection_controller.go and the two others).  A contract holds a       *)
(* schema; the values of a connection are checked against the contract     *)
(* that it names, of its namespace first.  Each controller has one worker, *)
(* reads the cache, and writes the status with a merge patch.              *)
(***************************************************************************)
EXTENDS Kube, Naturals, FiniteSets

CONSTANTS
  Names,                \* names of contracts
  Namespaced,           \* the Connections
  ClusterWide,          \* the ClusterConnections
  Values,               \* what the values of a connection can be
  Schemas,              \* sets of the values that a schema accepts
  Broken,               \* a schema that does not resolve
  None,                 \* no values, no object, no owner
  Handmade,             \* the connections that users create
  MaxEdits              \* bound on the changes by users

VARIABLES
  queue,    \* requests of the four workers, by object
  edits

Local(n) == <<"Contract", n>>
Global(n) == <<"ClusterContract", n>>
Contracts == {"Contract", "ClusterContract"} \X Names
AllConnections == Namespaced \cup ClusterWide

ConnectionsAssumption ==
  /\ Contracts \cap AllConnections = {} /\ Namespaced \cap ClusterWide = {}
  /\ Handmade \subseteq AllConnections
  /\ \A s \in Schemas : s \subseteq Values \cup {None}
  /\ MaxEdits \in Nat

NewContract(schema, generation) == [schema |-> schema, phase |-> "", generation |-> generation]
NewConnection(contract, values, owner) ==
  [contract |-> contract, values |-> values, owner |-> owner, phase |-> "", generation |-> 0]

----------------------------------------------------------------------------
(* Contracts                                                               *)

\* The status of a contract says whether its schema resolves.
ResolveContract(v) == v.schema # Broken

ContractPhase(v) == IF ResolveContract(v) THEN "READY" ELSE "ERROR"

ReconcileContract(k) ==
  /\ k \in queue \cap Contracts
  /\ queue' = queue \ {k}
  /\ IF cache[k] = None \/ cache[k].phase = ContractPhase(cache[k]) \/ store[k] = None
     THEN UNCHANGED kube
     ELSE Write(Only(k, [store[k] EXCEPT !.phase = ContractPhase(cache[k])]))

----------------------------------------------------------------------------
(* Connections                                                             *)

\* The contract that a connection names, in the objects given: None when missing.
FindContract(c, v, objects) ==
  IF c \in Namespaced /\ objects[Local(v.contract)] # None THEN objects[Local(v.contract)]
  ELSE objects[Global(v.contract)]

CheckConnection(k, v) == k.phase = "READY" /\ ResolveContract(k) /\ v.values \in k.schema

\* Whether the connection is ready: one without values needs no contract.
Checked(k, v) == IF k = None THEN v.values = None ELSE CheckConnection(k, v)

\* Mutant: the generation is that of the contract of the first check.
ConnectionStatusOnce(k, v) ==
  [v EXCEPT !.phase = IF Checked(k, v) THEN "READY" ELSE "ERROR",
            !.generation = IF k = None \/ @ # 0 THEN @ ELSE k.generation]

ConnectionStatus(k, v) ==
  [v EXCEPT !.phase = IF Checked(k, v) THEN "READY" ELSE "ERROR",
            !.generation = IF k = None THEN @ ELSE k.generation]

\* The merge patch: what differs from the connection that was read.
StatusPatch(c, v) ==
  [store[c] EXCEPT !.phase = IF v.phase # cache[c].phase THEN v.phase ELSE @,
                   !.generation = IF v.generation # cache[c].generation THEN v.generation ELSE @]

\* A connection that is not ready is an error for the queue, which tries again.
ReconcileConnection(c) ==
  /\ c \in queue \cap AllConnections
  /\ IF cache[c] = None THEN queue' = queue \ {c} /\ UNCHANGED kube
     ELSE LET v == ConnectionStatus(FindContract(c, cache[c], cache), cache[c])
              lost == v # cache[c] /\ store[c] = None
          IN /\ Write(IF v # cache[c] /\ ~lost THEN Only(c, StatusPatch(c, v)) ELSE NoWrites)
             /\ queue' = IF lost \/ v.phase = "ERROR" THEN queue ELSE queue \ {c}

----------------------------------------------------------------------------
(* Events and users                                                        *)

\* Mutant: the Connections that name a ClusterContract are not found.
FindConnectionFromContractSameScope(k) ==
  {c \in AllConnections : /\ cache[c] # None /\ cache[c].contract = k[2]
                          /\ (c \in ClusterWide) = (k[1] = "ClusterContract")}

\* Connections are found by the name of a contract of either kind, ClusterConnections by
\* that of a ClusterContract.
FindConnectionFromContract(k) ==
  {c \in AllConnections : /\ cache[c] # None /\ cache[c].contract = k[2]
                          /\ c \in ClusterWide => k[1] = "ClusterContract"}

Events(o) ==
  IF o \in Contracts THEN {o} \cup FindConnectionFromContract(o) ELSE {o}

Bounded == edits < MaxEdits /\ edits' = edits + 1

EditContract(k, schema) ==
  /\ Bounded
  /\ \/ store[k] = None /\ schema # None /\ Write(Only(k, NewContract(schema, 1)))
     \/ /\ store[k] # None /\ schema \notin {None, store[k].schema}
        /\ Write(Only(k, [store[k] EXCEPT !.schema = schema, !.generation = @ + 1]))
     \/ store[k] # None /\ schema = None /\ Write(Only(k, None))
  /\ UNCHANGED queue

EditConnection(c, n, values) ==
  /\ Bounded
  /\ store[c] # None => store[c].owner = None
  /\ Write(Only(c, IF store[c] = None THEN NewConnection(n, values, None)
                   ELSE [store[c] EXCEPT !.contract = n, !.values = values]))
  /\ UNCHANGED queue

DeleteConnection(c) ==
  /\ Bounded
  /\ store[c] # None /\ Write(Only(c, None))
  /\ UNCHANGED queue

Deliver(o) ==
  /\ Receive(o)
  /\ queue' = queue \cup Events(o)

UserSteps ==
  \/ \E k \in Contracts, schema \in Schemas \cup {Broken, None} : EditContract(k, schema)
  \/ \E c \in AllConnections : DeleteConnection(c)
  \/ \E c \in Handmade, n \in Names, values \in Values \cup {None} :
       EditConnection(c, n, values)

CheckSteps ==
  /\ \/ \E k \in Contracts : ReconcileContract(k)
     \/ \E c \in AllConnections : ReconcileConnection(c)
  /\ UNCHANGED edits

----------------------------------------------------------------------------
(* The controllers alone, with connections written by users.               *)

vars == <<kube, queue, edits>>

Init ==
  /\ KubeInit([o \in Contracts \cup AllConnections |-> None])
  /\ queue = {} /\ edits = 0

Next ==
  \/ \E o \in DOMAIN store : Deliver(o) /\ UNCHANGED edits
  \/ CheckSteps
  \/ UserSteps

Spec == Init /\ [][Next]_vars

----------------------------------------------------------------------------
(* Properties                                                              *)

\* Contracts and connections have a phase, values and the generation of a contract.
TypeOK ==
  /\ \A k \in Contracts : store[k] # None =>
       store[k] \in [schema : Schemas \cup {Broken}, phase : {"", "READY", "ERROR"},
                     generation : 1 .. MaxEdits]
  /\ \A c \in AllConnections : store[c] # None =>
       store[c].phase \in {"", "READY", "ERROR"} /\ store[c].generation \in 0 .. MaxEdits

\* Nothing is under way but retries that would change nothing.
Steady(c) ==
  cache[c] # None /\ ConnectionStatus(FindContract(c, cache[c], cache), cache[c]) = cache[c]
Settled == CaughtUp /\ \A o \in queue : o \in AllConnections /\ Steady(o)

\* The contract that counts for a connection, at the server.
Contract(c) == FindContract(c, store[c], store)

\* Once settled, a connection is READY exactly when its values are accepted by the schema
\* of the contract that it names, the one of the namespace hiding the one of the cluster,
\* or when it has no values and no contract is there; whatever contracts came, changed
\* or went, and in whatever order the controllers learnt of it.
ChecksFollow ==
  Settled => \A c \in AllConnections : store[c] # None =>
    LET k == Contract(c)
        accepted == IF k = None THEN store[c].values = None
                    ELSE k.schema # Broken /\ store[c].values \in k.schema
    IN store[c].phase = IF accepted THEN "READY" ELSE "ERROR"

\* Once settled, status.contractGeneration is the generation of the contract that the
\* connection was checked against, as its type says.
ChecksLatest ==
  Settled => \A c \in AllConnections :
    store[c] # None /\ Contract(c) # None => store[c].generation = Contract(c).generation
=============================================================================
