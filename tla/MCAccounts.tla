----------------------------- MODULE MCAccounts -----------------------------
(* Small instances of Accounts. *)
EXTENDS Accounts, TLC

CONSTANTS r1, r2, s1, root, eve, pw1, pw2, weak

MCSymmetry == Permutations({r1, r2}) \cup Permutations({root, eve}) \cup Permutations({pw1, pw2})
=============================================================================
