------------------------------ MODULE ParamRefs ------------------------------
(***************************************************************************)
(* The connectionRef parameters (src/internal/controller/                  *)
(* release_paramrefs.go): Releases of one package, whose container is in   *)
(* the package cache, name connections in their parameters, or leave that  *)
(* to the defaults of the package, templates that read the Context; a pass *)
(* waits for the connections named, then puts their values in the place of *)
(* the names, in the trees that the templates of the package read.         *)
(*                                                                         *)
(* The trees of a pass can share their subtrees with the defaults that the *)
(* cached container holds: a node written below a shared one is written in *)
(* the container too.  The entries of the inputs stanza are their aliases, *)
(* and their connections are READY; InputModel has their resolution.       *)
(***************************************************************************)
EXTENDS KuboSchema, FiniteSets, FiniteSetsExt

CONSTANTS
  Releases,
  Conns,       \* the names of the connections
  Packages,    \* what can be published: [parameters, context (schemas), stanza]
  Written,     \* the parameters a Release can have, rendered: trees
  Contexts,    \* what the Contexts give: trees
  Templates,   \* the texts that are templates ("{{" in them)
  Rendered(_, _),  \* what a template renders to, on a context tree
  Letters(_),  \* a property name as the sequence of the words and dots in it
  None, MaxEdits

ParamRefsAssumption == Templates \cap Conns = {} /\ MaxEdits \in Nat

VARIABLES
  package,   \* the package that is published
  cached,    \* the defaults of its cached container, or None
  written,   \* the parameters of each Release
  context,   \* what the Contexts give
  values,    \* the values of each connection, 0 when it is not READY
  outcome,   \* what the last pass of each Release has come to, or None
  pending,   \* the Releases for which something has changed since their last pass
  edits

vars == <<package, cached, written, context, values, outcome, pending, edits>>

Init ==
  /\ package \in Packages /\ cached = None
  /\ written \in [Releases -> Written] /\ context \in Contexts
  /\ values = [c \in Conns |-> 1]
  /\ outcome = [r \in Releases |-> None] /\ pending = Releases /\ edits = 0

----------------------------------------------------------------------------
(* SetPackage: what the container holds of the schemas                     *)

ParamDecls == CollectConnectionDecls(package.parameters)
ContextDecls == CollectConnectionDecls(package.context)

Accepted ==
  /\ Kubo2openAPI(package.parameters, Templates) /\ Kubo2openAPI(package.context, Templates)
  /\ \A d \in ParamDecls : DeclAccepted(d, FALSE)
  /\ \A d \in ContextDecls : DeclAccepted(d, TRUE)

SetPackage == [parameters |-> Defaulter(package.parameters), context |-> Defaulter(package.context)]

----------------------------------------------------------------------------
(* The trees of a pass                                                     *)

MergeMaps(a, b) ==
  [p \in DOMAIN b \cup {q \in DOMAIN a : \A s \in Proper(q) \cup {q} :
                          s \in DOMAIN b => a[s] = Map /\ b[s] = Map} |->
     IF p \in DOMAIN b THEN b[p] ELSE a[p]]

\* The merge of the defaults with a tree: its nodes, the maps and lists among them that are
\* those of the defaults, and the defaults.
Merge(defaults, tree) ==
  [nodes |-> MergeMaps(defaults, tree),
   shared |-> {q \in DOMAIN defaults \ DOMAIN tree : defaults[q] \in {Map, List}},
   defaults |-> defaults]

\* Mutant: the merge is used as it is.
DeepCopyTreeNone(t) == t

DeepCopyTree(t) == [t EXCEPT !.shared = {}]

\* What writes a value at p, which setAtPath does only for a path that fits the tree.
setAtPath(t, p, v) ==
  [t EXCEPT !.nodes[p] = v,
            !.defaults = IF Proper(p) \cap t.shared # {} THEN [@ EXCEPT ![p] = v] ELSE @]

\* An index must lead to an item of a list, and another name to a property of a map.
SetFails(t, p) ==
  \E i \in 1 .. Len(p) : Atoi(p[i]) # (NodeAt(t.nodes, SubSeq(p, 1, i - 1)).is = "list")

\* Mutant: a value of the Release counts only at the root.
isSetAtRoot(tree, path) == Len(path) = 1 /\ path \in DOMAIN tree

\* tree has a value at path, or a value other than a map on the way to it.
isSetAt(tree, path) ==
  path \in DOMAIN tree \/ \E q \in Proper(path) : q \in DOMAIN tree /\ tree[q] # Map

RenderRefDefaults(t, tree, ctx) ==
  LET defaulted == {d.path : d \in {e \in ParamDecls : e.default # "" /\ ~isSetAt(tree, e.path)}}
      templated == {p \in defaulted \cap DOMAIN t.nodes :
                      t.nodes[p].is = "string" /\ t.nodes[p].text \in Templates}
  IN FoldSet(LAMBDA p, u : setAtPath(u, p, Text(Rendered(t.nodes[p].text, ctx))), t, templated)

HandleParameters(defaults, tree, ctx) ==
  LET t == Merge(defaults, tree)
  IN IF ParamDecls = {} THEN t ELSE RenderRefDefaults(DeepCopyTree(t), tree, ctx)

HandleContext(defaults) ==
  LET t == Merge(defaults, context) IN IF ContextDecls = {} THEN t ELSE DeepCopyTree(t)

----------------------------------------------------------------------------
(* The inputs that the trees generate                                      *)

\* Mutant: an alias without the indices.
formatAliasNoIndex(p, inContext) ==
  <<IF inContext THEN "context" ELSE "parameters">> \o
  FlattenSeq([i \in 1 .. Len(p) |-> IF Atoi(p[i]) THEN <<>> ELSE <<".">> \o Letters(p[i])])

formatAlias(p, inContext) ==
  <<IF inContext THEN "context" ELSE "parameters">> \o
  FlattenSeq([i \in 1 .. Len(p) |->
                IF Atoi(p[i]) THEN <<"[", p[i], "]">> ELSE <<".">> \o Letters(p[i])])

\* expandDecl: the nodes that a declaration stands for.
Concrete(decl, t) == {p \in DOMAIN t.nodes : Generic(t.nodes, p) = decl.path}

\* The declaration is required and has no name where the map around it exists.
MissingName(decl, t) ==
  /\ decl.required
  /\ \/ \E p \in Concrete(decl, t) : t.nodes[p] = Text("")
     \/ /\ Last(decl.path) # "[]"
        /\ \E p \in DOMAIN t.nodes \cup {<<>>} :
             /\ Generic(t.nodes, p) = Front(decl.path) /\ NodeAt(t.nodes, p) = Map
             /\ Append(p, Last(decl.path)) \notin DOMAIN t.nodes

emitDecl(decl, t, inContext) ==
  {[alias |-> formatAlias(p, inContext), path |-> p, inContext |-> inContext,
    name |-> t.nodes[p].text] : p \in {q \in Concrete(decl, t) : t.nodes[q] # Text("")}}

Bindings(params, ctx) ==
  UNION {emitDecl(d, params, FALSE) : d \in ParamDecls}
    \cup UNION {emitDecl(d, ctx, TRUE) : d \in ContextDecls}

\* GenerateRefInputs ends with an error.
GenerateFails(params, ctx) ==
  \/ \E d \in ParamDecls : \/ MissingName(d, params)
                           \/ \E p \in Concrete(d, params) : params.nodes[p].is # "string"
  \/ \E d \in ContextDecls : \/ MissingName(d, ctx)
                             \/ \E p \in Concrete(d, ctx) : ctx.nodes[p].is # "string"
  \/ \E b \in Bindings(params, ctx) : b.alias \in package.stanza

Ready(name) == name \in Conns /\ values[name] # 0

\* Mutant: the values are put in the place of the names of the parameters only.
SubstituteParameters(acc, b) ==
  IF b.inContext THEN [acc EXCEPT !.inputs = @ \ {b.alias}]
  ELSE [acc EXCEPT !.params = setAtPath(@, b.path, ValuesOf(acc.model[b.alias])),
                   !.inputs = @ \ {b.alias}]

\* One binding of ApplyRefBindings.
Substitute(acc, b) ==
  LET t == IF b.inContext THEN acc.ctx ELSE acc.params
      u == setAtPath(t, b.path, ValuesOf(acc.model[b.alias]))
  IN IF acc.failed \/ b.alias \notin acc.inputs \/ SetFails(t, b.path)
     THEN [acc EXCEPT !.failed = TRUE]
     ELSE [acc EXCEPT !.params = IF b.inContext THEN @ ELSE u, !.ctx = IF b.inContext THEN u ELSE @,
                      !.inputs = @ \ {b.alias}]

\* The bindings come in any order; BuildInputModel keeps the last values of an alias.
ApplyRefBindings(params, ctx) ==
  LET bindings == SetToSeq(Bindings(params, ctx))
      aliases == {b.alias : b \in ToSet(bindings)}
      last(a) == CHOOSE i \in DOMAIN bindings :
                   bindings[i].alias = a /\ \A j \in i + 1 .. Len(bindings) : bindings[j].alias # a
  IN FoldLeft(Substitute,
       [failed |-> FALSE, params |-> params, ctx |-> ctx, inputs |-> package.stanza \cup aliases,
        model |-> [a \in aliases |-> values[bindings[last(a)].name]]],
       bindings)

----------------------------------------------------------------------------
(* The stages of a pass that handle the trees (reconcile2)                 *)

Stopped(phase) == [phase |-> phase, parameters |-> <<>>, context |-> <<>>, inputs |-> {}]

Finish(r, result, container) ==
  /\ outcome' = [outcome EXCEPT ![r] = result] /\ cached' = container
  /\ pending' = pending \ {r}
  /\ UNCHANGED <<package, written, context, values, edits>>

Pass(r) ==
  LET container == IF cached # None THEN cached ELSE SetPackage
      ctx == HandleContext(container.context)
      params == HandleParameters(container.parameters, written[r], ctx.nodes)
      left(p, c) == [parameters |-> p.defaults, context |-> c.defaults]
      done == ApplyRefBindings(params, ctx)
  IN CASE cached = None /\ ~Accepted -> Finish(r, Stopped("refused"), None)
       [] OTHER ->
          IF ~Validate(package.context, ctx.nodes, TRUE)
          THEN Finish(r, Stopped("error"), container)
          ELSE IF ~Validate(package.parameters, params.nodes, FALSE) \/ GenerateFails(params, ctx)
          THEN Finish(r, Stopped("error"), left(params, ctx))
          ELSE IF \E b \in Bindings(params, ctx) : ~Ready(b.name)
          THEN Finish(r, Stopped("waiting"), left(params, ctx))
          ELSE IF done.failed THEN Finish(r, Stopped("failed"), left(done.params, done.ctx))
          ELSE Finish(r, [phase |-> "rendered", parameters |-> done.params.nodes,
                          context |-> done.ctx.nodes, inputs |-> done.inputs],
                      left(done.params, done.ctx))

----------------------------------------------------------------------------
(* What happens around the passes                                          *)

Edit == edits < MaxEdits /\ edits' = edits + 1

EditRelease(r) ==
  /\ Edit
  /\ \E t \in Written : written' = [written EXCEPT ![r] = t]
  /\ pending' = pending \cup {r}
  /\ UNCHANGED <<package, cached, context, values, outcome>>

EditContext ==
  /\ Edit
  /\ context' \in Contexts
  /\ pending' = Releases
  /\ UNCHANGED <<package, cached, written, values, outcome>>

EditConnection ==
  /\ Edit
  /\ \E c \in Conns, v \in 0 .. 2 : values' = [values EXCEPT ![c] = v]
  /\ pending' = Releases
  /\ UNCHANGED <<package, cached, written, context, outcome>>

\* The container has lived its time in the package cache.
Evict ==
  /\ cached # None /\ cached' = None
  /\ UNCHANGED <<package, written, context, values, outcome, pending, edits>>

Next ==
  \/ \E r \in Releases : Pass(r) \/ EditRelease(r)
  \/ EditContext \/ EditConnection \/ Evict

Spec == Init /\ [][Next]_vars

----------------------------------------------------------------------------
(* Properties                                                              *)

RefPaths(schema) == {p \in DOMAIN schema : schema[p].type = TypeConnectionRef}

Phases == {"refused", "error", "waiting", "failed", "rendered"}

\* The state has its types; a package whose default for a connection is a literal name is
\* never loaded.
TypeOK ==
  /\ package \in Packages /\ written \in [Releases -> Written] /\ context \in Contexts
  /\ values \in [Conns -> 0 .. 2] /\ pending \subseteq Releases /\ edits \in 0 .. MaxEdits
  /\ cached # None => \A p \in RefPaths(package.parameters) :
                        package.parameters[p].default \in Templates \cup {""}
  /\ \A r \in Releases : outcome[r] # None => outcome[r].phase \in Phases

\* The name that the parameters of r have for a declaration at p of the tree: the text the
\* Release wrote there, never a template, or what the default of the package renders to on
\* the Context as it is.
NameFor(r, p) ==
  IF p \in DOMAIN written[r] THEN written[r][p].text
  ELSE IF package.parameters[p].default # ""
       THEN Rendered(package.parameters[p].default, MergeMaps(SetPackage.context, context)) ELSE ""

\* What stands for a name: nothing is rendered with a connection that is not READY.
Shown(name) ==
  IF name = "" THEN Text("") ELSE ValuesOf(IF name \in Conns THEN values[name] ELSE 0)

\* What a Release is rendered with: at each place where the schema of the parameters declares
\* a connection, the values of the connection that the Release names, or that its default
\* names on the Context of now, and elsewhere what the Release or else the package writes.
\* Whatever the other Releases of the package have resolved before it.
Resolves ==
  \A r \in Releases \ pending :
    outcome[r].phase = "rendered" =>
      LET tree == outcome[r].parameters IN
      \A p \in DOMAIN tree :
        IF Generic(tree, p) \in RefPaths(package.parameters) THEN tree[p] = Shown(NameFor(r, p))
        ELSE IF p \in DOMAIN written[r] THEN tree[p] = written[r][p]
             ELSE tree[p] = Defaulter(package.parameters)[p]

\* The context that the templates read holds the values of the connections that the Contexts
\* name, and the inputs only those of the hand-written stanza.
ContextResolves ==
  \A r \in Releases \ pending :
    outcome[r].phase = "rendered" =>
      /\ outcome[r].inputs = package.stanza
      /\ \A p \in DOMAIN context :
           outcome[r].context[p] =
             IF Generic(context, p) \in RefPaths(package.context) THEN Shown(context[p].text)
             ELSE context[p]

\* A pass stops with an error for a cause in the Release, the Contexts or the package as they
\* are: a value of a wrong type, a required name that is missing, a name of the stanza.
StopsForCause ==
  \A r \in Releases \ pending :
    LET tree == MergeMaps(Defaulter(package.parameters), written[r])
        ctx == MergeMaps(Defaulter(package.context), context)
        required(q) == package.parameters[q].required
    IN outcome[r].phase = "error" =>
         \/ ~Validate(package.parameters, tree, FALSE) \/ ~Validate(package.context, ctx, TRUE)
         \/ \E p \in DOMAIN tree :
              LET q == Generic(tree, p) IN
              q \in RefPaths(package.parameters) /\ required(q) /\ NameFor(r, p) = ""
         \/ package.stanza # {}

\* ApplyRefBindings finds the values of every generated input, which holds if the aliases are
\* "unique by construction", and can put them in place, since checkRefPathSegments rejects
\* the names that would be taken for an index.
AlwaysSubstituted == \A r \in Releases : outcome[r] # None => outcome[r].phase # "failed"
=============================================================================
