---------------------------- MODULE Configuration ----------------------------
(***************************************************************************)
(* What the Configs set, taken together (newConfiguration of               *)
(* src/internal/configstore/configstore.go), and what the source of a      *)
(* package takes from it (PopulateOciRepository of                         *)
(* src/internal/controller/release_ocirepository.go).                      *)
(*                                                                         *)
(* A Config is a record: redirects, a sequence; strategies, a function     *)
(* from names to patches; default, a name of a strategy or None; timeout   *)
(* or None; patch, a patch of HelmRelease specs or None.  A patch is a     *)
(* function from some fields to values.  The image redirects and the       *)
(* default Contexts are appended as the redirects are, and the intervals   *)
(* are taken as the timeout is.                                            *)
(***************************************************************************)
EXTENDS Naturals, Sequences, FiniteSets, SequencesExt, TLC

CONSTANTS
  Order,            \* the names of the Configs, in order
  DefaultTimeout,   \* what newConfiguration starts with
  None

ConfigNames == Range(Order)

\* MergeMaps: what patch sets replaces what base has.
MergeMaps(base, patch) == patch @@ base

NoFields == [f \in {} |-> None]

Empty == [redirects |-> <<>>, strategies |-> NoFields, default |-> None,
          timeout |-> DefaultTimeout, patch |-> None, failed |-> FALSE]

\* One turn of the loop of newConfiguration.
AddConfig(cfg, spec) ==
  [redirects |-> cfg.redirects \o spec.redirects,
   strategies |-> MergeMaps(cfg.strategies, spec.strategies),
   default |-> IF spec.default = None THEN cfg.default ELSE spec.default,
   timeout |-> IF spec.timeout = None THEN cfg.timeout ELSE spec.timeout,
   patch |-> IF spec.patch = None THEN cfg.patch ELSE spec.patch,
   failed |-> \/ cfg.failed
              \/ None \notin {spec.default, cfg.default} /\ spec.default # cfg.default]

\* Mutant: the Configs are taken in the order of the list.
SortedAsListed(list) == list

\* The sort of newConfiguration.
Sorted(list) == SelectSeq(Order, LAMBDA c : c \in Range(list))

\* newConfiguration: None when the Configs do not load.
newConfiguration(configs, list) ==
  LET cfg == FoldLeft(LAMBDA acc, c : AddConfig(acc, configs[c]), Empty, Sorted(list))
  IN IF cfg.failed \/ (cfg.default # None /\ cfg.default \notin DOMAIN cfg.strategies)
     THEN None ELSE cfg

\* GetDefaultOnFailureStrategy and GetOnFailureStrategy: copies, or None.
GetOnFailureStrategy(cfg, name) ==
  IF name \in DOMAIN cfg.strategies THEN cfg.strategies[name] ELSE None
GetDefaultOnFailureStrategy(cfg) ==
  IF cfg.default = None THEN None ELSE GetOnFailureStrategy(cfg, cfg.default)

\* GetPackageRedirect: the first redirect whose prefix the URL has.
GetPackageRedirect(cfg, url) ==
  LET matching == SelectSeq(cfg.redirects, LAMBDA r : IsPrefix(r.old, url))
  IN IF matching = <<>> THEN None ELSE matching[1]

\* The URL behind a redirect; without a new prefix, it stays.
RedirectedUrl(redirect, url) ==
  IF redirect.new = None THEN url
  ELSE redirect.new \o SubSeq(url, Len(redirect.old) + 1, Len(url))

\* Mutant: a redirect replaces the verification of the Release.
VerifyRedirected(redirect, package, allowDrop) == redirect.verify

\* The verification of a source behind a redirect.
Verify(redirect, package, allowDrop) ==
  IF redirect.verify = None /\ ~allowDrop THEN package.verify ELSE redirect.verify

\* PopulateOciRepository; None when the source is refused.
PopulateOciRepository(cfg, package, options) ==
  LET redirect == GetPackageRedirect(cfg, package.url) IN
  IF redirect # None
  THEN [url |-> RedirectedUrl(redirect, package.url),
        verify |-> Verify(redirect, package, options.allowRedirectVerifyDrop),
        secret |-> redirect.secret, insecure |-> redirect.insecure]
  ELSE IF package.insecure /\ ~options.allowReleaseInsecureSource THEN None
  ELSE [url |-> package.url, verify |-> package.verify, secret |-> package.secret,
        insecure |-> package.insecure]
=============================================================================
