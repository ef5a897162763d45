--------------------------- MODULE MCConfigRollout ---------------------------
(* Instances of ConfigRollout: two Releases of one image, or one Release. *)
EXTENDS ConfigRollout, TLC

CONSTANTS a, b, shared, good, better, bad

OneRelease == {a}
TwoReleases == {a, b}
GoodAndBad == {good, better, bad}
Loading == {good, better}
OneImage == a :> shared
SharedImage == (a :> shared) @@ (b :> shared)
=============================================================================
