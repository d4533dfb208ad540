------------------------------- MODULE MCLog --------------------------------
(* Model checking of Log: the on-disk log has fewer data blocks than there *)
(* are home blocks, so that a transaction can grow too big.                *)
EXTENDS Log, TLC

CONSTANTS p1, p2, b1, b2, b3, d1, d2
=============================================================================
