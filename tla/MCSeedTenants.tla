--------------------------- MODULE MCSeedTenants ---------------------------
(* The tenants of the script, seeded by two runs.                           *)
EXTENDS SeedTenants, TLC

CONSTANTS r1, r2

Handmades == {Loop("ssmParams")[2], Loop("users")[1]}
Symmetry == Permutations(Run)
=============================================================================
