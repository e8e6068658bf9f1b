--------------------------- MODULE MCJobProcessor ---------------------------
(* Two recipients and two Comet instances: one batch, or two batches of one. *)
EXTENDS JobProcessor

CONSTANTS u1, u2, i1, i2

=============================================================================
