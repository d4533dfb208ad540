------------------------------- MODULE MCPipe -------------------------------
(* Model checking of Pipe. *)
EXTENDS Pipe

CONSTANTS p1, p2, d1

=============================================================================
