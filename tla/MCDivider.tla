----------------------------- MODULE MCDivider ------------------------------
(* The model-checked instance of Divider: all pairs of four-bit operands.   *)
EXTENDS Divider
=============================================================================
