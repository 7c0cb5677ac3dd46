------------------------------ MODULE MCProxy ------------------------------
(* Two requests, one of them perhaps without a key, over two backends. *)
EXTENDS Proxy, TLC

CONSTANTS r1, r2, b1, b2
Two == {r1, r2}
Both == {b1, b2}

OnlyR2 == {r2}
OnlyB1 == {b1}
None == {}
=============================================================================
