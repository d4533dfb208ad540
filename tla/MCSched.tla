------------------------------ MODULE MCSched -------------------------------
(* Model checking of Sched: two processes, ptable.lock and two more locks. *)
EXTENDS Sched, TLC

CONSTANTS ptable, la, lb

Symmetry == Permutations({la, lb})
=============================================================================
