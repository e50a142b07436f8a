----------------------------- MODULE MCSessions -----------------------------
(* A small instance of Sessions for TLC: two requests at a time for one     *)
(* user with two addresses.                                                 *)
EXTENDS Sessions, TLC

CONSTANTS u1, r1, r2, a, b

MCSymmetry == Permutations({r1, r2})
=============================================================================
