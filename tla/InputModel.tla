----------------------------- MODULE InputModel -----------------------------
(***************************************************************************)
(* The inputs of one Release: which connections it takes its values from   *)
(* (BuildInputModel of src/internal/controller/release_buildinputmodel.go),*)
(* the stage of a pass that waits for them (release_controller.go), and    *)
(* the events of the connections, which reach the Release through what its *)
(* status watches (src/cmd/kubocd/cmd/watches.go).                         *)
(*                                                                         *)
(* The lists of the status are sets here: the cache lists objects in any   *)
(* order, and a pass that finds them in another order writes the status    *)
(* again, which only makes more passes.                                    *)
(***************************************************************************)
EXTENDS Kube, Naturals, FiniteSets, SequencesExt, FiniteSetsExt

CONSTANTS
  rel,
  Cnxs,          \* Connections and ClusterConnections
  KindOf,        \* the kind of each
  NameOf,        \* its name, a number, for its place in the order
  Contracts,     \* what they can be for
  Priorities,
  Values,
  InputLists,    \* what the package can render: sequences of inputs
  Existing,      \* the connections that exist at the start
  Creatable,     \* those that can be created and deleted
  None,
  Lagging,       \* the objects whose cached version a pass can find outdated
  MaxEdits, MaxFailures

InputAssumption ==
  /\ rel \notin Cnxs /\ None \notin Cnxs
  /\ KindOf \in [Cnxs -> {"Connection", "ClusterConnection"}]
  /\ NameOf \in [Cnxs -> Nat] /\ Priorities \subseteq Nat
  /\ Existing \subseteq Cnxs /\ Creatable \subseteq Cnxs
  /\ MaxEdits \in Nat /\ MaxFailures \in Nat

VARIABLES
  deployed,   \* what the last pass that deploys has taken: per input, a value or None
  queued,     \* the Release has a request, or a timer
  edits, failures

vars == <<kube, deployed, queued, edits, failures>>

Connections == [contract : Contracts, ready : BOOLEAN, priority : Priorities, value : Values]

Init ==
  /\ \E inputs \in InputLists, cnxs \in [Existing -> Connections] :
       KubeInit([o \in Cnxs \cup {rel} |->
         IF o = rel THEN [inputs |-> inputs, watched |-> {}, effective |-> <<>>, phase |-> ""]
         ELSE IF o \in Existing THEN cnxs[o] ELSE None])
  /\ deployed = None /\ queued = TRUE /\ edits = 0 /\ failures = 0

----------------------------------------------------------------------------
(* BuildInputModel, on the objects of view                                 *)

\* The connections that an input can name: those of its kind, under the name of a
\* connectionRef; the lists by Release and by contract have the others too.
Named(input) ==
  {c \in Cnxs : /\ input.kind \in {None, KindOf[c]}
                /\ input.name \in {None, NameOf[c]}}

\* bimFetchConnectionRef refuses a connection of another contract.
Mismatch(view, input) ==
  input.name # None /\ \E c \in Named(input) : view[c] # None /\ view[c].contract # input.contract

\* Mutant: only what exists is watched.
WatchesFound(view, input) ==
  {c \in Named(input) : view[c] # None /\ view[c].contract = input.contract}

\* What an input adds to what the Release watches: the candidates, and for a connectionRef
\* also the ones that are not found.
Watches(view, input) ==
  {c \in Named(input) : IF view[c] = None THEN input.name # None
                        ELSE view[c].contract = input.contract}

Possible(view, input) ==
  {c \in Named(input) : view[c] # None /\ view[c].contract = input.contract}

Ready(view, input) == {c \in Possible(view, input) : view[c].ready}

\* Too many possible connections.
Ambiguous(view, input) ==
  ~input.multiple /\ Ready(view, input) # {} /\ Cardinality(Possible(view, input)) > 1

\* The first of the sorted elected connections: the highest priority, then the last name.
\* Two of one name, one of each kind, come in any order.
Elected(view, input) ==
  {c \in Ready(view, input) : \A d \in Ready(view, input) :
     \/ view[c].priority > view[d].priority
     \/ view[c].priority = view[d].priority /\ NameOf[c] >= NameOf[d]}

\* The input makes a message, and the Release waits.
Missing(view, input) ==
  \/ Ready(view, input) = {} /\ ~input.optional
  \/ Ambiguous(view, input)

\* The choices of the inputs, a connection or None each.
Elections(view, inputs) ==
  {e \in [DOMAIN inputs -> Cnxs \cup {None}] : \A i \in DOMAIN inputs :
     IF Ready(view, inputs[i]) = {} \/ Ambiguous(view, inputs[i]) THEN e[i] = None
     ELSE e[i] \in Elected(view, inputs[i])}

----------------------------------------------------------------------------
(* The stage of the inputs                                                 *)

ValuesOf(view, election) ==
  [i \in DOMAIN election |-> IF election[i] = None THEN None ELSE view[election[i]].value]

\* The status after the stage, and what the rest of the pass deploys, for an election.
Outcome(v, election) ==
  IF \E i \in DOMAIN v.inputs : Mismatch(cache, v.inputs[i])
  THEN [status |-> [v EXCEPT !.phase = "ERROR"], deploys |-> None]
  ELSE LET waits == \E i \in DOMAIN v.inputs : Missing(cache, v.inputs[i]) IN
       [status |-> [v EXCEPT !.watched = UNION {Watches(cache, v.inputs[i]) : i \in DOMAIN v.inputs},
                             !.effective = election,
                             !.phase = IF waits THEN "WAIT_INPUT_CNX" ELSE "READY"],
        deploys |-> IF waits THEN None ELSE ValuesOf(cache, election)]

\* A pass that fails or waits is tried again, by the queue or after 5 seconds.
Reconcile ==
  /\ queued
  /\ \A o \in DOMAIN store \ Lagging : Current(o)
  /\ \E fails \in {None, "list", "update"}, election \in Elections(cache, cache[rel].inputs) :
       LET v == cache[rel]
           out == IF fails = "list" THEN [status |-> [v EXCEPT !.phase = "ERROR"], deploys |-> None]
                  ELSE Outcome(v, election)
           refused == out.status # v /\ (~Current(rel) \/ fails = "update")
       IN /\ fails # None => failures < MaxFailures
          /\ failures' = IF fails = None THEN failures ELSE failures + 1
          /\ Write(IF out.status # v /\ ~refused THEN rel :> out.status ELSE NoWrites)
          /\ deployed' = IF out.deploys = None THEN deployed ELSE out.deploys
          /\ queued' = (refused \/ out.status.phase # "READY")
  /\ UNCHANGED edits

\* Mutant: the events of the status of the Release are filtered out.
NotifiesSpec(o, old, new) ==
  IF o = rel THEN old.inputs # new.inputs ELSE o \in cache[rel].watched

\* The events of the Release, its status included, and those of the connections that the
\* cached Release watches.
Notifies(o, old, new) == o = rel \/ o \in cache[rel].watched

Deliver(o) ==
  /\ Receive(o)
  /\ queued' = (queued \/ Notifies(o, cache[o], Head(feed[o])))
  /\ UNCHANGED <<deployed, edits, failures>>

----------------------------------------------------------------------------
(* Users and the controllers of the connections                            *)

Edit == edits < MaxEdits /\ edits' = edits + 1 /\ UNCHANGED <<deployed, queued, failures>>

\* A connection is created, changed, or deleted.
PutConnection(c, v) ==
  /\ Edit /\ store[c] # v
  /\ None \in {store[c], v} => c \in Creatable
  /\ Write(c :> v)

EditRelease(inputs) ==
  /\ Edit /\ store[rel].inputs # inputs
  /\ Write(rel :> [store[rel] EXCEPT !.inputs = inputs])

Next ==
  \/ Reconcile
  \/ \E o \in DOMAIN store : Deliver(o)
  \/ \E c \in Cnxs, v \in Connections \cup {None} : PutConnection(c, v)
  \/ \E inputs \in InputLists : EditRelease(inputs)

Spec == Init /\ [][Next]_vars

\* The worker and the informers keep working.
FairSpec == Spec /\ WF_vars(Reconcile) /\ \A o \in Cnxs \cup {rel} : WF_vars(Deliver(o))

----------------------------------------------------------------------------
(* Properties                                                              *)

\* The status of a READY Release has a choice for each of its inputs, which it watches.
TypeOK ==
  /\ store[rel].phase \in {"", "ERROR", "WAIT_INPUT_CNX", "READY"}
  /\ store[rel].watched \subseteq Cnxs
  /\ \A i \in DOMAIN store[rel].effective :
       store[rel].effective[i] \in store[rel].watched \cup {None}

\* The connection that an input should take, from the connections themselves: the only one
\* of its contract that it can name, or with allowMultiple the ready one that no other
\* precedes.  None when there is none.
Candidates(input) ==
  {c \in Cnxs : /\ store[c] # None /\ store[c].contract = input.contract
                /\ input.kind = None \/ input.kind = KindOf[c]
                /\ input.name = None \/ input.name = NameOf[c]}
Precedes(c, d) ==
  <<store[c].priority, NameOf[c]>> \in
    {<<p, n>> \in Priorities \X Range(NameOf) :
       p > store[d].priority \/ (p = store[d].priority /\ n > NameOf[d])}
Right(input, value) ==
  LET ready == {c \in Candidates(input) : store[c].ready} IN
  IF ready = {} THEN input.optional /\ value = None
  ELSE \E c \in ready : /\ store[c].value = value
                        /\ IF input.multiple THEN \A d \in ready : ~Precedes(d, c)
                           ELSE Candidates(input) = {c}
Satisfied(input) == Right(input, None) \/ \E value \in Values : Right(input, value)

\* Nothing is under way, except passes that find what the last one found.
Settled ==
  /\ CaughtUp
  /\ queued => \A e \in Elections(cache, cache[rel].inputs) :
                 LET out == Outcome(cache[rel], e) IN
                 out.status = cache[rel] /\ out.deploys \in {None, deployed}

\* Once nothing is under way, the Release waits exactly when an input has no connection of its
\* own, and a READY one deploys with the values that its connections have, whatever the order
\* in which the events and the status reach the cache.
InputsFollow ==
  Settled /\ store[rel].phase # "ERROR" =>
    LET inputs == store[rel].inputs IN
    /\ (store[rel].phase = "READY") = (\A i \in DOMAIN inputs : Satisfied(inputs[i]))
    /\ store[rel].phase = "READY" =>
         /\ DOMAIN deployed = DOMAIN inputs
         /\ \A i \in DOMAIN inputs : Right(inputs[i], deployed[i])

\* Once nobody changes anything, the Release deploys with the values of its connections, or
\* waits for good.
Following ==
  LET inputs == store[rel].inputs IN
  (\A i \in DOMAIN inputs : Satisfied(inputs[i]) /\ ~Mismatch(store, inputs[i])) =>
    /\ deployed # None /\ DOMAIN deployed = DOMAIN inputs
    /\ \A i \in DOMAIN inputs : Right(inputs[i], deployed[i])
=============================================================================
