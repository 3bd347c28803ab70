------------------------------ MODULE KeySearch ------------------------------
(***************************************************************************)
(* What the lab 4 circuit promises: the keys are tried in order, a key is  *)
(* passed over only when it does not decrypt the message to valid          *)
(* characters, the success light means that the key displayed does, and    *)
(* the failure light that no key does.                                     *)
(***************************************************************************)
EXTENDS RC4Reference

VARIABLES key, verdict, msg

kvars == <<key, verdict, msg>>

Init ==
  /\ key = 0
  /\ verdict = "00"
  /\ msg \in [0 .. MsgLen - 1 -> Byte]

Reject ==
  /\ verdict = "00" /\ key # LastKey
  /\ key' = key + 1
  /\ ~ Accepted(key, msg)
  /\ UNCHANGED <<verdict, msg>>

Succeed ==
  /\ verdict = "00"
  /\ verdict' = "01"
  /\ Accepted(key, msg)
  /\ UNCHANGED <<key, msg>>

Fail ==
  /\ verdict = "00" /\ key = LastKey
  /\ verdict' = "10"
  /\ ~ Accepted(key, msg)
  /\ UNCHANGED <<key, msg>>

Next == Reject \/ Succeed \/ Fail

Spec == Init /\ [][Next]_kvars /\ WF_kvars(Next)
=============================================================================
