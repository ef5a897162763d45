------------------------------ MODULE HelmSpec ------------------------------
(***************************************************************************)
(* The spec of a HelmRelease, built from the configuration, the package    *)
(* and the Release (PopulateHelmRelease of                                 *)
(* src/internal/controller/release_helmrelease.go), while the Configs      *)
(* change and are published.                                               *)
(***************************************************************************)
EXTENDS Configuration

CONSTANTS
  ConfigSpecs,   \* per name of a Config, what it can hold; None when it does not exist
  Modules,       \* what the package renders for the module: [strategy, patch, timeout]
  Packages,      \* the package of the Release: [url, verify, secret, insecure]
  Overrides,     \* what the Release overrides: a sequence of [strategy, patch, timeout]
  Options,       \* the flags of the controller
  FailureFields, \* the fields that deleteFailureConf deletes
  MaxEdits

SpecsAssumption ==
  /\ DOMAIN ConfigSpecs = ConfigNames /\ MaxEdits \in Nat
  /\ IsInjective(Order)

VARIABLES
  configs,     \* the Configs
  current,     \* the published configuration, with its version
  published,   \* all the configurations published: [configs, cfg]
  release,     \* [module, package, overrides], as of the pass
  pc, held,    \* where the build is, and the configuration it holds
  spec,        \* what is built
  source,      \* the spec of the OCIRepository; None when refused
  deployed,    \* the spec of the HelmRelease, with [spec, suspend, release]
  edits

vars == <<configs, current, published, release, pc, held, spec, source, deployed, edits>>

Existing == {c \in ConfigNames : configs[c] # None}

Init ==
  /\ configs \in [ConfigNames -> UNION {ConfigSpecs[c] : c \in ConfigNames}]
  /\ \A c \in ConfigNames : configs[c] \in ConfigSpecs[c]
  /\ current = [version |-> 0, cfg |-> Empty]
  /\ published = {}
  /\ release \in [module : Modules, package : Packages, overrides : Overrides]
  /\ pc = "source" /\ held = None /\ spec = NoFields /\ source = None
  /\ deployed = [spec |-> None, suspend |-> FALSE, release |-> None]
  /\ edits = MaxEdits

build == <<pc, held, spec>>

----------------------------------------------------------------------------
(* The users and the Config controller                                     *)

EditConfig(c) ==
  /\ edits > 0 /\ edits' = edits - 1
  /\ \E s \in ConfigSpecs[c] \ {configs[c]} : configs' = [configs EXCEPT ![c] = s]
  /\ UNCHANGED <<current, published, release, build, source, deployed>>

\* An edit of the Release, between two passes.
EditRelease ==
  /\ pc = "source"
  /\ edits > 0 /\ edits' = edits - 1
  /\ release' \in {r \in [module : Modules, package : Packages, overrides : Overrides] :
                     r # release}
  /\ UNCHANGED <<configs, current, published, build, source, deployed>>

\* flux suspend, and flux resume
FluxSuspend ==
  /\ deployed.spec # None
  /\ edits > 0 /\ edits' = edits - 1
  /\ deployed' = [deployed EXCEPT !.suspend = ~@]
  /\ UNCHANGED <<configs, current, published, release, build, source>>

\* AddConfigs, on the Configs in the order that the list has them.  Configs that do not load
\* change nothing; a publication of the same configuration, which only takes a new version, is
\* left out to bound the versions.
AddConfigs ==
  \E list \in SetToSeqs(Existing) :
    LET cfg == newConfiguration(configs, list) IN
    /\ cfg # None /\ cfg # current.cfg
    /\ current' = [version |-> current.version + 1, cfg |-> cfg]
    /\ published' = published \cup {[configs |-> configs, cfg |-> cfg]}
    /\ UNCHANGED <<configs, release, build, source, deployed, edits>>

----------------------------------------------------------------------------
(* A pass of the Release                                                   *)

\* The source of the package; the controller has loaded a configuration before it starts.
PopulateSource ==
  /\ pc = "source" /\ current.version > 0
  /\ source' = PopulateOciRepository(current.cfg, release.package, Options)
  /\ pc' = IF source' = None THEN "failed" ELSE "begin"
  /\ UNCHANGED <<configs, current, published, release, held, spec, deployed, edits>>

\* PopulateHelmRelease takes one configuration.
Begin ==
  /\ pc = "begin" /\ pc' = "default"
  /\ held' = current
  /\ spec' = [f \in {"timeout"} |-> release.module.timeout]
  /\ UNCHANGED <<configs, current, published, release, source, deployed, edits>>

\* Mutant: the configuration published last is read at each step.
ConfigurationLast == current.cfg

configuration == held.cfg

\* Mutant: the strategies are read without a copy, and what is deleted of the default one
\* is deleted of the published configuration.
SharedMutated(cfg) ==
  IF cfg.default = None THEN cfg
  ELSE [cfg EXCEPT !.strategies[cfg.default] =
          [f \in DOMAIN @ \ FailureFields |-> @[f]]]

\* What deleteFailureConf does to the published configuration: nothing, as the getters of the
\* strategies return copies.
Shared(cfg) == cfg

deleteFailureConf(s) == [f \in DOMAIN s \ FailureFields |-> s[f]]

\* The next step of the build, with its spec.
Built(next, s) ==
  /\ pc' = next /\ spec' = s
  /\ UNCHANGED <<configs, published, release, held, source, deployed, edits>>

Patched(s, patch) == IF patch = None THEN s ELSE MergeMaps(s, patch)

DefaultStrategy ==
  /\ pc = "default"
  /\ Built("package", Patched(spec, GetDefaultOnFailureStrategy(configuration)))
  /\ UNCHANGED current

\* A strategy that is chosen by name; the pass fails on an unknown one.
NamedStrategy(name, next) ==
  LET strategy == GetOnFailureStrategy(configuration, name) IN
  IF name = None THEN Built(next, spec) /\ UNCHANGED current
  ELSE IF strategy = None THEN Built("failed", spec) /\ UNCHANGED current
  ELSE /\ Built(next, MergeMaps(deleteFailureConf(spec), strategy))
       /\ current' = IF held.version = current.version
                     THEN [current EXCEPT !.cfg = Shared(@)] ELSE current

PackageStrategy == pc = "package" /\ NamedStrategy(release.module.strategy, "patch")

Patches ==
  /\ pc = "patch"
  /\ Built("override", Patched(Patched(spec, configuration.patch), release.module.patch))
  /\ UNCHANGED current

\* The overrides of the Release for the module: two are an error.
OverrideStrategy ==
  /\ pc = "override"
  /\ CASE Len(release.overrides) = 0 -> Built("write", spec) /\ UNCHANGED current
       [] Len(release.overrides) > 1 -> Built("failed", spec) /\ UNCHANGED current
       [] OTHER -> NamedStrategy(release.overrides[1].strategy, "overridePatch")

OverridePatch ==
  /\ pc = "overridePatch"
  /\ LET o == release.overrides[1] IN
     Built("write", LET s == Patched(spec, o.patch) IN
                    IF o.timeout = None THEN s ELSE [s EXCEPT !["timeout"] = o.timeout])
  /\ UNCHANGED current

\* retainedSpec and the decoding of the spec: nothing stays of the existing spec, except
\* suspend, which is apart here.
Retained(existing, new) == new

Write ==
  /\ pc = "write" /\ pc' = "source"
  /\ deployed' = [spec |-> Retained(deployed.spec, spec),
                  suspend |-> IF "suspend" \in DOMAIN spec THEN spec["suspend"] ELSE deployed.suspend,
                  release |-> release]
  /\ held' = None /\ spec' = NoFields
  /\ UNCHANGED <<configs, current, published, release, source, edits>>

\* A failed pass ends with the error in the status.
Fail ==
  /\ pc = "failed" /\ pc' = "source"
  /\ held' = None /\ spec' = NoFields
  /\ UNCHANGED <<configs, current, published, release, source, deployed, edits>>

Next ==
  \/ \E c \in ConfigNames : EditConfig(c)
  \/ EditRelease \/ FluxSuspend \/ AddConfigs
  \/ PopulateSource \/ Begin \/ DefaultStrategy \/ PackageStrategy \/ Patches
  \/ OverrideStrategy \/ OverridePatch \/ Write \/ Fail

Spec == Init /\ [][Next]_vars

----------------------------------------------------------------------------
(* Properties                                                              *)

\* A build holds a configuration from its first step to its last.
TypeOK ==
  /\ \A c \in ConfigNames : configs[c] \in ConfigSpecs[c]
  /\ pc \in {"source", "begin", "default", "package", "patch", "override", "overridePatch",
             "write", "failed"}
  /\ (held = None) = (pc \in {"source", "begin"}) \/ pc = "failed"
  /\ edits \in 0..MaxEdits

\* The layers of a spec, the strongest first, from what the CHANGELOG and the comment of
\* helmReleaseSpec state.  The fields of failure come from the strategy that is chosen last
\* and from what is patched after it.
Layers(cfg, r) ==
  LET o == IF r.overrides = <<>> THEN [strategy |-> None, patch |-> None, timeout |-> None]
           ELSE r.overrides[1]
      Of(x) == IF x = None THEN NoFields ELSE x
      Timeout(t) == IF t = None THEN NoFields ELSE [f \in {"timeout"} |-> t]
      Named(n) == IF n = None THEN NoFields ELSE cfg.strategies[n]
  IN << Timeout(o.timeout), Of(o.patch), Named(o.strategy),
        Of(r.module.patch), Of(cfg.patch), Named(r.module.strategy), Named(cfg.default),
        Timeout(r.module.timeout) >>

\* The weakest layer that the fields of failure are taken from.
Floor(cfg, r) ==
  IF r.overrides # <<>> /\ r.overrides[1].strategy # None THEN 3
  ELSE IF r.module.strategy # None THEN 6 ELSE 8

\* The strategies that a Release chooses.
Strategies(r) ==
  ({r.module.strategy} \cup {r.overrides[i].strategy : i \in DOMAIN r.overrides}) \ {None}

Expected(cfg, r) ==
  LET layers == Layers(cfg, r)
      Setting(f) == {i \in DOMAIN layers : f \in DOMAIN layers[i]
                                             /\ (f \in FailureFields => i <= Floor(cfg, r))}
      fields == {f \in UNION {DOMAIN layers[i] : i \in DOMAIN layers} : Setting(f) # {}}
  IN [f \in fields |-> layers[CHOOSE i \in Setting(f) : \A j \in Setting(f) : i <= j][f]]

\* A HelmRelease has the spec that one published configuration gives, whatever is published
\* during the build, and nothing of the spec of an earlier pass.
OneConfiguration ==
  deployed.spec # None =>
    \E p \in published :
      /\ Strategies(deployed.release) \subseteq DOMAIN p.cfg.strategies
      /\ deployed.spec = Expected(p.cfg, deployed.release)

\* A configuration does not depend on the order in which the Configs are listed.
Determined ==
  \A p, q \in published : p.configs = q.configs => p.cfg = q.cfg

\* The redirects that some published configuration has for a URL.
Matching(url) ==
  UNION {{p.configs[c].redirects[i] : i \in {i \in DOMAIN p.configs[c].redirects :
                                              IsPrefix(p.configs[c].redirects[i].old, url)}} :
         <<p, c>> \in {<<p, c>> \in published \X ConfigNames : p.configs[c] # None}}

\* A Release that asks for the verification of its package has it through any redirect, unless
\* the controller lets redirects drop it; and a package comes over plain HTTP only through a
\* redirect that says so, unless the controller lets Releases say it.
SourceGuarded ==
  pc = "begin" =>
    /\ release.package.verify # None /\ ~Options.allowRedirectVerifyDrop => source.verify # None
    /\ source.insecure /\ ~Options.allowReleaseInsecureSource =>
         \E r \in Matching(release.package.url) : r.insecure
=============================================================================
