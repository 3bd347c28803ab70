------------------------------ MODULE ReadyList ------------------------------
(***************************************************************************)
(* The bit maps behind every set of priorities in uC/OS-II: OSRdyTbl with  *)
(* OSRdyGrp, and OSEventTbl with OSEventGrp.  Bit x of byte y stands for   *)
(* priority 8y + x, and bit y of the group says that byte y is not zero.   *)
(* A byte is the set of its bits; OSUnMapTbl is the table of os_core.c.    *)
(***************************************************************************)
EXTENDS Integers, FiniteSetsExt

CONSTANTS Prio,  \* the priorities tasks are given
          Rows,  \* OS_RDY_TBL_SIZE
          NoPrio \* not a priority

Bits == 0 .. 7
Y(p) == p \div 8                                              \* OSTCBY
X(p) == p % 8                                                 \* OSTCBX

ByteOf(S) == SumSet({2 ^ b : b \in S})

\* The sixteen entries of a row of OSUnMapTbl differ only in the first.
UnMapHead == <<0, 4, 5, 4, 6, 4, 5, 4, 7, 4, 5, 4, 6, 4, 5, 4>>
UnMapRow == <<0, 0, 1, 0, 2, 0, 1, 0, 3, 0, 1, 0, 2, 0, 1, 0>>
OSUnMapTbl(i) == IF i % 16 = 0 THEN UnMapHead[(i \div 16) + 1] ELSE UnMapRow[(i % 16) + 1]
UnMap(S) == OSUnMapTbl(ByteOf(S))

ASSUME PrioAssumption ==
  /\ Rows \in 1 .. 8
  /\ Prio \subseteq 0 .. 8 * Rows - 1
  /\ NoPrio \notin Int

\* Every entry of the table, checked: it is the lowest bit that is set.
ASSUME UnMapAssumption ==
  \A S \in SUBSET (0 .. 7) : S # {} => UnMap(S) \in S /\ \A b \in S : UnMap(S) <= b

VARIABLES grp,  \* OSRdyGrp or OSEventGrp
          tbl,  \* OSRdyTbl or OSEventTbl
          high  \* OSPrioHighRdy, what the list was last found to hold first

rvars == <<grp, tbl, high>>
-----------------------------------------------------------------------------
\* OS_InitRdyList, OS_EventWaitListInit.
RInit == grp = {} /\ tbl = [y \in 0 .. Rows - 1 |-> {}] /\ high = NoPrio

SetBit(t, p) == [t EXCEPT ![Y(p)] = @ \cup {X(p)}]
ClearBit(t, p) == [t EXCEPT ![Y(p)] = @ \ {X(p)}]
ClearGrpFault(g, t, p) == g \ {Y(p)}   \* fault: the byte is not looked at

ClearGrp(g, t, p) == IF t[Y(p)] = {} THEN g \ {Y(p)} ELSE g

OS_SchedNew(g, t) == IF g = {} THEN NoPrio ELSE 8 * UnMap(g) + UnMap(t[UnMap(g)])

\* OSPrioHighRdy is worked out anew after the change.
Look == high' = OS_SchedNew(grp', tbl')

MakeReady(p) ==
  /\ tbl' = SetBit(tbl, p)
  /\ grp' = grp \cup {Y(p)}
  /\ Look

MakeUnready(p) ==
  /\ tbl' = ClearBit(tbl, p)
  /\ grp' = ClearGrp(grp, ClearBit(tbl, p), p)
  /\ Look

\* OSTaskChangePrio and the promotion in OSMutexPend.
Move(p, q) ==
  /\ X(p) \in tbl[Y(p)]
  /\ tbl' = SetBit(ClearBit(tbl, p), q)
  /\ grp' = ClearGrp(grp, ClearBit(tbl, p), p) \cup {Y(q)}
  /\ Look

RNext == \E p \in Prio : MakeReady(p) \/ MakeUnready(p) \/ \E q \in Prio : Move(p, q)

RSpec == RInit /\ [][RNext]_rvars
-----------------------------------------------------------------------------
RTypeOK == /\ grp \subseteq Bits
           /\ tbl \in [0 .. Rows - 1 -> SUBSET Bits]

\* The group never hides a byte that has bits and never points to one without.
GroupSummarises == grp = {y \in 0 .. Rows - 1 : tbl[y] # {}}

Prios == {8 * y + x : y \in 0 .. Rows - 1, x \in Bits}
ListedIn(t) == {p \in Prios : X(p) \in t[Y(p)]}
Listed == ListedIn(tbl)

\* The two table look-ups of OS_SchedNew find the smallest number of all.
FindsHighest ==
  IF Listed = {} THEN high = NoPrio ELSE high \in Listed /\ \A p \in Listed : high <= p

\* The bit maps are the set of priorities they stand for.
Abstract == INSTANCE PrioSet WITH prios <- Listed, first <- high
ActsAsSet == Abstract!SSpec
=============================================================================
