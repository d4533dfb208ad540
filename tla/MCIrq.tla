-------------------------------- MODULE MCIrq -------------------------------
(* Model checking of Irq by itself. *)
EXTENDS Irq
=============================================================================
