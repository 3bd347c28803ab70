------------------------------- MODULE PrioSet -------------------------------
(***************************************************************************)
(* What the ready list and the wait lists of uC/OS-II stand for: a set of  *)
(* priorities of which the smallest can be told.                           *)
(***************************************************************************)
EXTENDS Integers

CONSTANTS Prio, NoPrio

VARIABLES prios, first

Least(S) == IF S = {} THEN NoPrio ELSE CHOOSE p \in S : \A q \in S : p <= q

SInit == prios = {} /\ first = NoPrio

Add(p) == prios' = prios \cup {p}
Remove(p) == prios' = prios \ {p}
Replace(p, q) == prios' = (prios \ {p}) \cup {q}

SNext == /\ \E p, q \in Prio : Add(p) \/ Remove(p) \/ Replace(p, q)
         /\ first' = Least(prios')

SSpec == SInit /\ [][SNext]_<<prios, first>>
=============================================================================
