------------------------------- MODULE MCKernel -------------------------------
(***************************************************************************)
(* Applications over the kernel, small enough for TLC: two or three tasks, *)
(* each calling a few services in every order and at every moment.         *)
(***************************************************************************)
EXTENDS Kernel

CONSTANTS ta, tb, tc, idle, \* tasks
          e1, e2,          \* event control blocks
          q1, fg,          \* a queue control block, a flag group
          m1, m2, m3       \* messages

Tasks == {ta, tb, tc, idle}

\* Two tasks, two tasks with priorities between them, three tasks below Pip.
Pair == [t \in {ta, tb, idle} |-> CASE t = ta -> 0 [] t = tb -> 1 [] OTHER -> LowestPrio]
Apart == [t \in {ta, tb, idle} |-> CASE t = ta -> 0 [] t = tb -> 2 [] OTHER -> LowestPrio]
Three == [t \in Tasks |-> CASE t = ta -> 1 [] t = tb -> 2 [] t = tc -> 3 [] OTHER -> LowestPrio]

Sem == [Unused EXCEPT !.type = "sem", !.cnt = 1]
NoSem == [Unused EXCEPT !.type = "sem"]
Box == [Unused EXCEPT !.type = "mbox"]
Queue == [Unused EXCEPT !.type = "q", !.ptr = q1]
Mutex == [Unused EXCEPT !.type = "mutex", !.cnt = 256 * Pip + MutexAvailable]
NoEvents == [e \in {} |-> Unused]
One(ecb) == [e \in {e1} |-> ecb]

W(want, set, all, eat) == [want |-> want, set |-> set, all |-> all, eat |-> eat]
SetWaits == {W({1}, TRUE, TRUE, TRUE), W({1, 2}, TRUE, TRUE, FALSE), W({1, 2}, TRUE, FALSE, TRUE)}
LevelWaits == {W({1}, FALSE, TRUE, FALSE), W({1, 2}, FALSE, FALSE, TRUE)}

\* An application without messages, flags or scheduler lock; others are variants.
Plain(prio, ev, ops) ==
  [ops |-> ops, prio |-> prio, ev |-> ev, fresh |-> {}, wait |-> {}, msg |-> {}, mail |-> Null,
   dly |-> 1, locks |-> 0]
Letters(msg, e, dly, app) == [app EXCEPT !.msg = msg, !.mail = e, !.dly = dly]
-----------------------------------------------------------------------------
\* TLC evaluates what a .cfg puts for a constant each time it meets the constant:
\* the tables are definitions of their own, evaluated once.
TaskTable ==
  [manage |-> [Plain(Apart, NoEvents, {"dly", "dlyresume", "suspend", "resume", "changeprio", "create", "delself"})
                 EXCEPT !.fresh = {0, 1, 2}, !.dly = 2],
   locked |-> [Plain(Apart, NoEvents, {"dly", "dlyresume", "suspend", "resume", "lock", "create", "delself"})
                 EXCEPT !.fresh = {1, 2}, !.locks = 1],
   units |-> [Plain(Pair, One(Sem), {"sempend", "sempost", "semaccept", "semabort", "semset", "isrpost",
                                     "dly", "suspend", "resume"}) EXCEPT !.dly = 2],
   pool |-> Plain(Pair, [e \in {e1, e2} |-> NoSem], {"sempend", "sempost", "semdel"}),
   killed |-> [Plain(Pair, One(Sem), {"sempend", "sempost", "isrpost", "del", "create"})
                 EXCEPT !.fresh = {1}],
   anyof |-> Letters({m1}, Null, 2,
               Plain(Pair, [e \in {e1, e2} |-> IF e = e1 THEN NoSem ELSE Box],
                     {"pendmulti", "sempost", "mboxpost", "isrpost", "isrmboxpost", "semabort", "dly"})),
   inherit |-> [Plain(Three, One(Mutex), {"mupend", "mupost", "muaccept", "dly"}) EXCEPT !.dly = 2],
   undone |-> Plain(Three, One(Mutex), {"mupend", "mupost", "muaccept", "mudel", "dly"})]

MessageTable ==
  [letters |-> Letters({m1, m2}, e1, 2,
                 Plain(Pair, One(Box), {"mboxpend", "mboxpost", "mboxaccept", "mboxabort", "isrmboxpost",
                                        "dly", "suspend", "resume"})),
   cast |-> Letters({m1, m2}, e1, 2,
              Plain(Pair, One(Box), {"mboxpend", "mboxopt", "mboxabort", "mboxdel", "dly"})),
   order |-> Letters({m1, m2, m3}, e1, 1,
               Plain(Pair, One(Queue), {"qpend", "qpost", "qpostfront", "qaccept", "qflush", "isrqpost"})),
   remade |-> Letters({m1}, e1, 1,
                Plain(Pair, [e \in {e1, e2} |-> IF e = e1 THEN Queue ELSE Unused],
                      {"qpend", "qopt", "qcreate", "qdel", "qabort", "dly"})),
   bits |-> [Plain(Pair, NoEvents, {"flagpend", "flagpost", "flagaccept", "isrflagpost"}) EXCEPT !.wait = SetWaits],
   levels |-> [Plain(Pair, NoEvents, {"flagpend", "flagdel", "isrflagpost", "suspend", "resume"})
                 EXCEPT !.wait = LevelWaits],
   bitsdel |-> [Plain(Pair, NoEvents, {"flagpend", "flagpost", "isrflagpost", "del"})
                  EXCEPT !.wait = {W({1, 2}, TRUE, FALSE, TRUE)}]]

ReturnTable ==
  [timed |-> [Plain(Pair, One(Sem), {"sempend", "sempost", "isrpost", "dly"}) EXCEPT !.dly = 2],
   delays |-> [Plain(Apart, NoEvents, {"dly", "dlyresume", "suspend", "resume", "lock"})
                 EXCEPT !.dly = 3, !.locks = 2]]

ResumeTable ==
  [anyof |-> Letters({m1}, Null, 2,
               Plain(Pair, [e \in {e1, e2} |-> IF e = e1 THEN NoSem ELSE Box],
                     {"pendmulti", "mboxpost", "isrpost", "suspend", "resume"}))]
TaskApps == TaskTable
MessageApps == MessageTable
ReturnApps == ReturnTable
ResumeApps == ResumeTable
=============================================================================
