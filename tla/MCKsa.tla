-------------------------------- MODULE MCKsa --------------------------------
(* Ksa for TLC.                                                             *)
EXTENDS Ksa, Bitwise

MCXor(a, b) == a ^^ b
=============================================================================
