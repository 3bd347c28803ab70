------------------------------- MODULE Channel -------------------------------
(***************************************************************************)
(* What a mailbox (os_mbox.c) and a queue (os_q.c) promise: a bounded      *)
(* channel that keeps messages in order and hands each one over once.      *)
(* A message is a pointer: whoever holds it owns the buffer it points to.  *)
(***************************************************************************)
EXTENDS Integers, Sequences, FiniteSets

CONSTANTS User,   \* who may hold a message
          None    \* not a message

VARIABLES size,   \* how many messages the channel keeps
          shared, \* whether a message may be handed to several waiters at once
          items,  \* the messages kept, oldest first
          given,  \* the message each user was handed and has not picked up yet
          mine    \* the messages each user holds

chvars == <<size, shared, items, given, mine>>

Msg == UNION {mine[u] : u \in User}

CInit == /\ items = <<>>
         /\ given = [u \in User |-> None]

\* Keep: u gives m away and the channel keeps it, at either end.
Keep(u, m) ==
  /\ m \in mine[u] /\ Len(items) < size
  /\ items' \in {Append(items, m), <<m>> \o items}
  /\ mine' = [mine EXCEPT ![u] = @ \ {m}]
  /\ UNCHANGED given

\* Hand: nothing is kept, and m goes straight to the users S that wait.
Hand(u, m, S) ==
  /\ m \in mine[u] /\ items = <<>>
  /\ S # {} /\ (shared \/ Cardinality(S) = 1)
  /\ \A v \in S : given[v] = None
  /\ given' = [v \in User |-> IF v \in S THEN m ELSE given[v]]
  /\ mine' = [mine EXCEPT ![u] = @ \ {m}]
  /\ UNCHANGED items

Take(u) ==
  /\ items # <<>>
  /\ items' = Tail(items)
  /\ mine' = [mine EXCEPT ![u] = @ \cup {Head(items)}]
  /\ UNCHANGED given

PickUp(u) ==
  /\ given[u] # None
  /\ given' = [given EXCEPT ![u] = None]
  /\ mine' = [mine EXCEPT ![u] = @ \cup {given[u]}]
  /\ UNCHANGED items

\* Whoever empties the channel takes what it kept.
Drain(u) ==
  /\ items' = <<>>
  /\ mine' = [mine EXCEPT ![u] = @ \cup {items[i] : i \in DOMAIN items}]
  /\ UNCHANGED given

CStep == \E u \in User : \/ Take(u) \/ PickUp(u) \/ Drain(u)
                         \/ \E m \in Msg : \/ Keep(u, m)
                                           \/ \E S \in SUBSET User : Hand(u, m, S)

CNext == CStep /\ UNCHANGED <<size, shared>>
CSpec == CInit /\ [][CNext]_chvars
=============================================================================
