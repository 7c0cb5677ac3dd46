--------------------------- MODULE MCEnergyMeter ---------------------------
(* Three overlapping requests on one backend. *)
EXTENDS EnergyMeter, TLC

CONSTANTS r1, r2, r3
MCProxied == {r1, r2, r3}
Symmetry == Permutations(MCProxied)
=============================================================================
