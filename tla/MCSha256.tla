------------------------------ MODULE MCSha256 ------------------------------
(* Instances of Sha256: blocks of eight bytes with a length of two bytes,   *)
(* messages of up to five blocks.                                           *)
EXTENDS Sha256
=============================================================================
