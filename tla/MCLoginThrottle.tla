-------------------------- MODULE MCLoginThrottle --------------------------
(* A small instance of LoginThrottle: two clients, who reach the server      *)
(* directly, through a trusted proxy, through two of them, through another   *)
(* proxy, or through both, and write what they like into the headers; a      *)
(* table of two entries.                                                     *)
EXTENDS LoginThrottle

CONSTANTS a1, a2, c1, c2, tp, tq, up, bad, noaddr

MCPaths == {<<>>, <<tp>>, <<tq, tp>>, <<up>>, <<up, tp>>}
MCJunk == {<<>>, <<c2, tp>>, <<bad>>}
=============================================================================
