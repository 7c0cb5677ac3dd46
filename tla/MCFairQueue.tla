---------------------------- MODULE MCFairQueue ----------------------------
(* An instance of FairQueue for TLC: two requests of one user, one of       *)
(* another, and a single slot.                                              *)
EXTENDS FairQueue

CONSTANTS r1, r2, r3, alice, bob

MCUserOf == (r1 :> alice) @@ (r2 :> alice) @@ (r3 :> bob)
=============================================================================
