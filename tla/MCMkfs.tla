------------------------------- MODULE MCMkfs -------------------------------
(* Model checking of Mkfs. *)
EXTENDS Mkfs
=============================================================================
