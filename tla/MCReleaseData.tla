---------------------------- MODULE MCReleaseData ----------------------------
(***************************************************************************)
(* Small instances of the modules about the data of a pass: the archive of *)
(* a package, the layers of a HelmRelease spec, the connection references  *)
(* of its parameters, the text that is scanned for template actions, and   *)
(* the conditions of the package.  A behaviour is one of one module, the   *)
(* scenario; the variables of the others are None.                         *)
(***************************************************************************)
EXTENDS Naturals, FiniteSets, TLC

CONSTANT None

VARIABLES
  scenario,
  artifact, fetch, disk, reader,
  configs, current, published, release, pc, held, spec, source, deployed,
  package, cached, written, context, values, outcome, pending,
  window, part, lexed,
  objects, granted, pass, reads, phase, queued,
  edits

----------------------------------------------------------------------------
(* Archives of up to three entries over nested names, with every limit     *)
(* small enough to be met exactly, and passed, by some of them.            *)

CONSTANTS a, b

Entry(path, kind, size, header) ==
  [path |-> path, kind |-> kind, size |-> size, header |-> header]

Entries ==
  {Entry(<<a>>, "dir", 0, 1), Entry(<<a, b>>, "dir", 0, 1), Entry(<<a, b>>, "file", 2, 1),
   Entry(<<a, b, a>>, "file", 1, 2), Entry(<<b>>, "file", 2, 1), Entry(<<b>>, "sparse", 3, 3),
   Entry(<<a, b, b>>, "file", 1, 1), Entry(<<b, a>>, "symlink", 0, 1),
   Entry(<<a>>, "device", 0, 1), Entry(<<a, b, a, b>>, "dir", 0, 1)}

Limits == [artifact |-> 1, content |-> 4, entries |-> 4, levels |-> 3, perEntry |-> 2,
           trailer |-> 1]

Archive == INSTANCE ArchiveLimits WITH MaxLength <- 3, Sizes <- {1, 2}

ASSUME Archive!LimitsAssumption

----------------------------------------------------------------------------
(* Two Configs that define and override strategies, a default and patches, *)
(* and that can disagree on the default.                                   *)

CONSTANTS c1, c2, s1, s2, host, repo, key

Patch(fields, value) == [f \in fields |-> value]

Config(redirects, strategies, default, timeout, patch) ==
  [redirects |-> redirects, strategies |-> strategies, default |-> default,
   timeout |-> timeout, patch |-> patch]

Redirect(old, new, verify, insecure) ==
  [old |-> old, new |-> new, verify |-> verify, secret |-> None, insecure |-> insecure]

ConfigSpecs ==
  c1 :> {Config(<<Redirect(<<host>>, <<repo>>, None, FALSE)>>,
                (s1 :> Patch({"remediation", "test"}, "c1s1")) @@ (s2 :> Patch({"test"}, "c1s2")),
                s1, "5m", None),
         Config(<<>>, s1 :> Patch({"remediation"}, "c1s1b"), None, None,
                Patch({"remediation", "test"}, "c1patch"))}
  @@ c2 :> {None,
            Config(<<Redirect(<<>>, None, key, TRUE)>>, s2 :> Patch({"remediation"}, "c2s2"),
                   s2, "7m", None),
            Config(<<>>, s1 :> Patch({"remediation", "drift"}, "c2s1"), None, None,
                   Patch({"drift"}, "c2patch"))}

Module(strategy, patch) == [strategy |-> strategy, patch |-> patch, timeout |-> "1m"]
Modules == {Module(None, None), Module(s2, Patch({"test"}, "pkg")),
            Module(s1, Patch({"remediation"}, "pkg"))}

Source(verify, insecure) ==
  [url |-> <<host, repo>>, verify |-> verify, secret |-> None, insecure |-> insecure]

Override(strategy, patch, timeout) == [strategy |-> strategy, patch |-> patch, timeout |-> timeout]
Overrides ==
  {<<>>, <<Override(s1, None, "9m")>>, <<Override(s2, Patch({"drift"}, "ovr"), None)>>,
   <<Override(None, None, None), Override(s1, None, None)>>}

Helm == INSTANCE HelmSpec WITH
  Order <- <<c1, c2>>, DefaultTimeout <- "2m", FailureFields <- {"remediation"}, MaxEdits <- 2,
  Packages <- {Source(key, FALSE), Source(None, TRUE)},
  Options <- [allowRedirectVerifyDrop |-> FALSE, allowReleaseInsecureSource |-> FALSE]

ASSUME Helm!SpecsAssumption
----------------------------------------------------------------------------
(* Two Releases of a package with a connection of its own, a group with a  *)
(* default that reads the Context, and a list.                             *)

CONSTANTS r1, r2

\* No property name has a dot in it, and the template reads context.oidc.
Letters(name) == <<name>>
Rendered(template, tree) == IF <<"oidc">> \in DOMAIN tree THEN tree[<<"oidc">>].text ELSE ""

Node(type, required, default) == [type |-> type, required |-> required, default |-> default]
Object == Node("", FALSE, "")
Ref(required, default) == Node("connectionRef", required, default)

Parameters(required) ==
  (<<>> :> Object) @@ (<<"db">> :> Ref(required, "")) @@ (<<"group">> :> Object)
  @@ (<<"group", "oidc">> :> Ref(FALSE, "{{oidc}}"))
  @@ (<<"group", "title">> :> Node("string", FALSE, "t"))
  @@ (<<"sources">> :> Object) @@ (<<"sources", "[]">> :> Ref(FALSE, ""))

Package(parameters, stanza) ==
  [parameters |-> parameters, stanza |-> stanza,
   context |-> (<<>> :> Object) @@ (<<"oidc">> :> Ref(FALSE, ""))
               @@ (<<"zone">> :> Node("string", FALSE, "z"))]

\* A literal default, which grooming refuses, and an alias of the stanza that collides.
Packages ==
  {Package(Parameters(FALSE), {}), Package(Parameters(TRUE), {<<"main">>}),
   Package([Parameters(FALSE) EXCEPT ![<<"group", "oidc">>] = Ref(FALSE, "a")], {}),
   Package(Parameters(FALSE), {<<"parameters", ".", "db">>})}

String(text) == [is |-> "string", text |-> text]

Params == INSTANCE ParamRefs WITH
  Releases <- {r1, r2}, Conns <- {"a", "b"}, Templates <- {"{{oidc}}"}, MaxEdits <- 1,
  Contexts <- {<<>>, <<"oidc">> :> String("a"), <<"oidc">> :> String("b")},
  Written <-
    {<<>>, <<"db">> :> String("a"), <<"group">> :> String("a"),
     (<<"group">> :> [is |-> "map"]) @@ (<<"group", "oidc">> :> String("b")),
     (<<"group">> :> [is |-> "map"]) @@ (<<"group", "oidc">> :> String("{{oidc}}")),
     (<<"sources">> :> [is |-> "list"]) @@ (<<"sources", "0">> :> String("b"))
       @@ (<<"sources", "1">> :> String("a"))}

ASSUME Params!ParamRefsAssumption

----------------------------------------------------------------------------
(* Every text of template actions.                                         *)

Actions == INSTANCE WrittenActions

----------------------------------------------------------------------------
(* Two conditions, each with or without an expression, one of them         *)
(* elsewhere, of another kind, without a name or with an expression that   *)
(* does not parse.                                                         *)

CONSTANTS home, other

Cond(group, kind, named, namespace, cel) ==
  [group |-> group, kind |-> kind, named |-> named, namespace |-> namespace, cel |-> cel]

ConditionLists ==
  {<<Cond("", "secret", TRUE, None, "ok"), Cond("", "ConfigMap", TRUE, ns, cel)>> :
     ns \in {None, home, other}, cel \in {None, "ok"}}
  \cup {<<>>, <<Cond("", "Secret", FALSE, None, None)>>, <<Cond("", "Deployment", TRUE, None, None)>>,
        <<Cond("apps", "Secret", TRUE, None, None)>>, <<Cond("", "Secret", TRUE, None, "broken")>>}

Conditions == INSTANCE ReleaseConditions WITH
  Contents <- {"absent", "true", "false", "unset", "odd", "heavy", "slow"}, MaxEdits <- 2

ASSUME Conditions!ConditionsAssumption

----------------------------------------------------------------------------
(* The behaviours                                                          *)

archiveVars == <<artifact, fetch, disk, reader>>
helmVars == <<configs, current, published, release, pc, source, deployed>>
paramVars == <<package, cached, context, values, outcome, pending>>
actionVars == <<window, part, lexed>>
conditionVars == <<objects, granted, pass, reads, phase, queued>>

NoArchive == artifact = None /\ fetch = None /\ disk = None /\ reader = None
NoHelm ==
  /\ configs = None /\ current = None /\ published = None /\ release = None
  /\ pc = None /\ source = None /\ deployed = None
NoParams ==
  /\ package = None /\ cached = None /\ context = None /\ values = None
  /\ outcome = None /\ pending = None
NoActions == window = None /\ part = None /\ lexed = None
NoConditions ==
  /\ objects = None /\ granted = None /\ pass = None /\ reads = None
  /\ phase = None /\ queued = None

Init ==
  \/ /\ scenario = "archive" /\ Archive!Init
     /\ NoHelm /\ NoParams /\ NoActions /\ NoConditions
     /\ held = None /\ spec = None /\ written = None /\ edits = None
  \/ /\ scenario = "helm" /\ Helm!Init
     /\ NoArchive /\ NoParams /\ NoActions /\ NoConditions /\ written = None
  \/ /\ scenario = "params" /\ Params!Init
     /\ NoArchive /\ NoHelm /\ NoActions /\ NoConditions /\ held = None /\ spec = None
  \/ /\ scenario = "actions" /\ Actions!Init
     /\ NoArchive /\ NoHelm /\ NoParams /\ NoConditions
     /\ held = None /\ spec = None /\ edits = None
  \/ /\ scenario = "conditions" /\ Conditions!Init
     /\ NoArchive /\ NoHelm /\ NoParams /\ NoActions /\ written = None

Next ==
  /\ UNCHANGED scenario
  /\ \/ /\ scenario = "archive" /\ Archive!Next
        /\ UNCHANGED <<helmVars, paramVars, actionVars, conditionVars, held, spec, written, edits>>
     \/ /\ scenario = "helm" /\ Helm!Next
        /\ UNCHANGED <<archiveVars, paramVars, actionVars, conditionVars, written>>
     \/ /\ scenario = "params" /\ Params!Next
        /\ UNCHANGED <<archiveVars, helmVars, actionVars, conditionVars, held, spec>>
     \/ /\ scenario = "actions" /\ Actions!Next
        /\ UNCHANGED <<archiveVars, helmVars, paramVars, conditionVars, held, spec, edits>>
     \/ /\ scenario = "conditions" /\ Conditions!Next
        /\ UNCHANGED <<archiveVars, helmVars, paramVars, actionVars, written>>

Spec == Init /\ [][Next]_<<scenario, archiveVars, helmVars, paramVars, actionVars, conditionVars,
                           held, spec, written, edits>>

----------------------------------------------------------------------------
(* Properties                                                              *)

\* At every moment of an extraction, also one that fails half-way, the files and folders on the
\* disk are within the limits (release_fetch.go, extract), and what the controller deploys is
\* within every limit.  A refusal on a limit, after which the Release is not retried, is a fact
\* of the artifact, whatever the clock and the chunks, and what is within every limit is never
\* refused on one.  The commands (tgz.Reader) count the same archive as the controller does.
HonoursLimits ==
  scenario = "archive" =>
    /\ Archive!TypeOK
    /\ Archive!WithinLimits /\ Archive!AcceptedWithin
    /\ Archive!RefusedForGood /\ Archive!SameCount

\* A HelmRelease has the spec that one published configuration gives by the order of its
\* layers, whatever is published during the build, and nothing of an earlier pass; and a
\* configuration does not depend on the order in which its Configs are listed.  A Release that
\* asks for the verification of its package has it through any redirect, and a package comes
\* over plain HTTP only through a redirect that says so.
OneConfiguration ==
  scenario = "helm" =>
    Helm!TypeOK /\ Helm!OneConfiguration /\ Helm!Determined /\ Helm!SourceGuarded

\* A Release is rendered with the values of the connection that it names, or that its default
\* names on the Context of now, at each place where the schema of its parameters declares one,
\* and with what is written elsewhere, whatever the other Releases of the cached package do;
\* and its context with those that the Contexts name.  A pass that ends in error has a cause in
\* the Release, the Contexts or the package of now: ApplyRefBindings finds and places the values
\* of every generated input, whose aliases are unique when no property name has a dot or is a
\* signed number.
Resolves ==
  scenario = "params" =>
    /\ Params!TypeOK
    /\ Params!Resolves /\ Params!ContextResolves
    /\ Params!StopsForCause /\ Params!AlwaysSubstituted

\* The scan for actions finds the end of an action where the lexer of text/template does, and
\* leaves no backslash in a string of an action, which the JSON string would decode.
InSync ==
  scenario = "actions" => Actions!TypeOK /\ Actions!InSync /\ Actions!NoEscapeInStrings

\* The HelmReleases are written only when each condition has held at a moment of the pass, in
\* the Secrets and ConfigMaps of the target namespace of the spec that it has read; and a
\* Release that waits has a timer.
DeploysWhenHeld ==
  scenario = "conditions" =>
    Conditions!TypeOK /\ Conditions!ReadsTarget /\ Conditions!DeploysWhenHeld
=============================================================================
