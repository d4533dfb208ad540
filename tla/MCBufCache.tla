----------------------------- MODULE MCBufCache -----------------------------
(* Model checking of BufCache. *)
EXTENDS BufCache

CONSTANTS p1, p2, b1, b2, b3, s1, s2, v0, v1
=============================================================================
