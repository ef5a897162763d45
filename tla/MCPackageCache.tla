--------------------------- MODULE MCPackageCache ---------------------------
(* An instance of PackageCache: three keys, for two entries of the cap. *)
EXTENDS PackageCache

CONSTANTS k1, k2, k3, v1, v2

ThreeKeys == {k1, k2, k3}
TwoValues == {v1, v2}
Weighings == {1, 2, 4}
=============================================================================
