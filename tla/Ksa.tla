--------------------------------- MODULE Ksa ---------------------------------
(***************************************************************************)
(* ksa.sv: the top of the lab 4 design.  It runs the key search and shows  *)
(* its verdict on the red LEDs, registered once more; the six displays     *)
(* show the digits of secret at all times.                                 *)
(***************************************************************************)
EXTENDS Task2Fsm

VARIABLE LED     \* the set of LEDs that are lit

kvars == <<vars, LED>>

LightsFault ==   \* fault: 2'b10 is read as "done" and lights LED 0 too
  LED' = CASE crack_success = "01" -> {0}
           [] crack_success = "10" -> {0, 1}
           [] OTHER                -> {}

Lights ==
  LED' = CASE crack_success = "01" -> {0}
           [] crack_success = "10" -> {1}
           [] OTHER                -> {}

KInit == Init /\ LED = {}
KNext == Next /\ Lights

(* The clock never stops. *)
KSpec == KInit /\ [][KNext]_kvars /\ WF_kvars(KNext)

-----------------------------------------------------------------------------
(* A reader of the board may trust the lights: with LED 0 on, the key on the *)
(* displays decrypts the message; with LED 1 on, no key does (ksa.sv:63-91,  *)
(* task2_fsm.sv:90-94).                                                      *)
LightsTruthful ==
  /\ 0 \in LED => Accepted(secret, en_mem)
  /\ 1 \in LED => \A k \in Keys : ~ Accepted(k, en_mem)
=============================================================================
