---------------------------- MODULE MCAudioMeter ----------------------------
(* Each delay loop turns once, except that of s1, which turns twice. *)
EXTENDS AudioMeter

MCLoops == [i \in Registers |-> IF i = 1 THEN 2 ELSE 1]
=============================================================================
