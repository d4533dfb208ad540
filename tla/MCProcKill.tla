----------------------------- MODULE MCProcKill -----------------------------
(* Model checking of Proc by itself. *)
EXTENDS Proc

CONSTANTS p0, p1, p2
=============================================================================
