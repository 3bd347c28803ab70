------------------------- MODULE KernelStepsProofs -------------------------
(***************************************************************************)
(* The invariant of the kernel, for any tasks, priorities, semaphores,     *)
(* mailboxes and queues, after any number of calls.  The applications of   *)
(* these proofs give every task a priority of its own for life, let it     *)
(* wait for one event at a time and be deleted by itself only.  First what *)
(* several services do: a task waits, is made ready, made or deleted; then *)
(* that each service keeps the invariant: the scheduler, the services on   *)
(* tasks, the waits of the Pend calls, and the creation of tasks,          *)
(* semaphores and mailboxes; last, how the kernel starts.  KernelProofs    *)
(* and MutexProofs go on from here.                                        *)
(***************************************************************************)
EXTENDS Kernel, FiniteSetTheorems, SequenceTheorems, WellFoundedInduction, TLAPS

\* The services left out.
Others == {"changeprio", "del", "pendmulti", "mupend", "mupost", "muaccept", "mudel",
           "flagpend", "flagpost", "flagaccept", "flagdel", "isrflagpost"}
Lasting(a) == App[a].ops \cap Others = {} /\ \A e \in DOMAIN App[a].ev : App[a].ev[e].type # "mutex"

Kinds     == {"sem", "mbox", "q"}
SemStage  == {"semaccept", "sempend", "sempost", "semabort", "semset", "semdel"}
MboxStage == {"mboxaccept", "mboxpend", "mboxpost", "mboxopt", "mboxabort", "mboxdel"}
QStage    == {"qaccept", "qpend", "qpost", "qpostfront", "qopt", "qabort", "qflush", "qdel"}
OnEvent   == SemStage \cup MboxStage \cup QStage
PendStage == {"sempend", "mboxpend", "qpend"}
DelStage  == {"semdel", "mboxdel", "qdel"}
Creating  == {"create", "refused", "link"}
Label     == OnEvent \cup Creating \cup {"app", "sched", "block", "wake", "delete", "qcreate"}

Letter == UNION {App[a].msg : a \in DOMAIN App}
Ecb    == UNION {DOMAIN App[a].ev : a \in DOMAIN App}
TcbType == [prio : Prio, stat : SUBSET (Kinds \cup {"suspend"}), pend : {"ok", "to", "abort"}, dly : Nat,
            ev : Ecb \cup {Null}, multi : {{}}, msg : Letter \cup {Null}, delreq : BOOLEAN]
EcbType == [type : Kinds \cup {"unused"}, cnt : Nat, ptr : Letter \cup Qcb \cup {Null}, wait : SUBSET Prio]
PcType  == [at : Label, ev : Ecb \cup Task \cup {Null}, n : Nat \cup Letter \cup {Null}, svc : Kinds \cup {Null}]

Shape(k) ==
  k = [app |-> k.app, rdy |-> k.rdy, tbl |-> k.tbl, tcb |-> k.tcb, list |-> k.list, free |-> k.free,
       ev |-> k.ev, evfree |-> k.evfree, cur |-> k.cur, prioCur |-> k.prioCur, lock |-> k.lock]

OsType(k) ==
  /\ Shape(k) /\ k.app \in DOMAIN App
  /\ k.rdy \subseteq Prio /\ k.tbl \in [Prio -> Task \cup {Null, Reserved}]
  /\ k.tcb \in [Task -> TcbType] /\ k.list \subseteq Task /\ k.free \subseteq Task
  /\ DOMAIN k.ev = DOMAIN App[k.app].ev /\ k.ev \in [DOMAIN k.ev -> EcbType] /\ k.evfree \in Seq(DOMAIN k.ev)
  /\ k.cur \in Task /\ k.prioCur \in Prio /\ k.lock \in Nat

\* What most services leave as it is.
KeepsTasks(k, r) == /\ r.app = k.app /\ r.tbl = k.tbl /\ r.list = k.list /\ r.free = k.free
                    /\ \A t \in Task : r.tcb[t].prio = k.tcb[t].prio
KeepsCpu(k, r) == r.cur = k.cur /\ r.prioCur = k.prioCur /\ r.lock = k.lock
KeepsEcbs(k, r) == /\ DOMAIN r.ev = DOMAIN k.ev /\ r.evfree = k.evfree
                   /\ \A e \in DOMAIN k.ev : r.ev[e].type = k.ev[e].type /\ r.ev[e].cnt = k.ev[e].cnt
                                             /\ r.ev[e].ptr = k.ev[e].ptr
-----------------------------------------------------------------------------
\* The invariants speak of a kernel state k and of where the tasks are, p: most
\* services change the one and then the other.

Blk(p, t)    == p[t].at \in {"block", "wake"}
Pend(k, p, t) == Blk(p, t) /\ (k.tcb[t].stat \cap Kinds # {} \/ k.tcb[t].pend = "to")
Living(k, p) == {t \in k.list : p[t].at # "delete"}
Creators(k, p) == {t \in k.list : p[t].at \in Creating}
Linkers(k, p)  == {t \in k.list : p[t].at = "link"}

\* What a call carries.
ArgInv(a, p) ==
  /\ p \in [Task -> PcType]
  /\ \A t \in Task :
       /\ p[t].at \in PendStage => p[t].n \in 0 .. App[a].dly
       /\ p[t].at = "semset" => p[t].n \in 0 .. 1
       /\ p[t].at \in Creating \cup {"delete"} => p[t].n \in Prio
       /\ p[t].at \in {"mboxpost", "mboxopt", "qpost", "qpostfront", "qopt"} => p[t].n \in Letter \cup {Null}
       /\ p[t].at \in {"mboxopt", "qopt"} => p[t].at \in App[a].ops
       /\ p[t].at \in SemStage => p[t].svc = "sem"
       /\ p[t].at \in MboxStage => p[t].svc = "mbox"
       /\ p[t].at \in QStage => p[t].svc = "q"
       /\ Blk(p, t) => p[t].svc \in Kinds

IdleInv(k, p) == /\ Idle \in k.list /\ k.tcb[Idle].prio = LowestPrio
                 /\ k.tcb[Idle].stat = {} /\ k.tcb[Idle].dly = 0 /\ p[Idle].at = "app"

\* A priority leads to the task that has it or is set aside by one creation.
OwnPrioInv(k) ==
  /\ \A t \in k.list : k.tbl[k.tcb[t].prio] = t
  /\ \A x \in Prio : k.tbl[x] \in Task => k.tbl[x] \in k.list /\ k.tcb[k.tbl[x]].prio = x
AsideInv(k, p) ==
  /\ \A x \in Prio : k.tbl[x] = Reserved <=> \E t \in Creators(k, p) : p[t].n = x
  /\ \A t, u \in Creators(k, p) : p[t].n = p[u].n => t = u
\* Every control block is in use, free or being filled in by one creation.
BlocksInv(k, p) ==
  /\ k.list \cap k.free = {}
  /\ \A t \in Linkers(k, p) : p[t].ev \in Task \ (k.list \cup k.free) /\ k.tcb[p[t].ev] = Tcb(p[t].n)
  /\ \A t, u \in Linkers(k, p) : p[t].ev = p[u].ev => t = u
  /\ \A u \in Task : u \in k.list \/ u \in k.free \/ \E t \in Linkers(k, p) : p[t].ev = u
  /\ \A t \in Task \ k.list : p[t].at \in {"app", "sched"}
TblInv(k, p) == OwnPrioInv(k) /\ AsideInv(k, p) /\ BlocksInv(k, p)

ReadyAt(k, t) == k.tcb[t].prio \in k.rdy <=> k.tcb[t].dly = 0 /\ k.tcb[t].stat = {}
ReadyInv(k, p) == /\ \A t \in Living(k, p) : ReadyAt(k, t)
                  /\ \A x \in k.rdy : \E t \in Living(k, p) : k.tcb[t].prio = x

\* Only a task inside a Pend waits, and its wait is over once it is given
\* something, aborted or timed out.
StatAt(k, p, t) ==
  /\ k.tcb[t].stat \subseteq {"suspend"} \cup (IF Blk(p, t) THEN {p[t].svc} ELSE {})
  /\ k.tcb[t].pend # "ok" => Blk(p, t) /\ k.tcb[t].stat \cap Kinds = {} /\ k.tcb[t].dly = 0
  /\ Pend(k, p, t) => p[t].ev \in DOMAIN k.ev /\ k.ev[p[t].ev].type = p[t].svc
StatInv(k, p) == \A t \in k.list : StatAt(k, p, t)
ListedAt(k, p, e, t) == k.tcb[t].prio \in k.ev[e].wait <=> Pend(k, p, t) /\ p[t].ev = e
ListsInv(k, p) ==
  \A e \in DOMAIN k.ev : /\ \A t \in k.list : ListedAt(k, p, e, t)
                         /\ \A x \in k.ev[e].wait : \E t \in k.list : k.tcb[t].prio = x
WaitInv(k, p) == StatInv(k, p) /\ ListsInv(k, p)

\* A call finds the event it was made on; nobody else is inside one when it is
\* deleted.
CallInv(k, p) == \A t \in k.list :
  /\ p[t].at \in OnEvent => p[t].ev \in DOMAIN k.ev /\ k.ev[p[t].ev].type = p[t].svc
  /\ p[t].at \in DelStage => \A u \in k.list \ {t} : p[u].at \in OnEvent => p[u].ev # p[t].ev

\* Control blocks of events and queues are in use, free, or with one creation.
EcbInv(k, p) ==
  /\ \A t \in k.list : p[t].at = "qcreate" =>
       /\ p[t].ev \in DOMAIN k.ev /\ k.ev[p[t].ev].type = "unused" /\ p[t].ev \notin ToSet(k.evfree)
       /\ \A u \in k.list : p[u].at = "qcreate" /\ p[u].ev = p[t].ev => u = t
  /\ \A e \in DOMAIN k.ev : k.ev[e].type = "unused" <=>
       e \in ToSet(k.evfree) \/ \E t \in k.list : p[t].at = "qcreate" /\ p[t].ev = e
  /\ IsInjective(k.evfree)
QcbInv(k, f) ==
  /\ f \in Seq(Qcb) /\ IsInjective(f)
  /\ \A e \in DOMAIN k.ev : k.ev[e].type = "q" => k.ev[e].ptr \in Qcb /\ k.ev[e].ptr \notin ToSet(f)
  /\ \A e, g \in DOMAIN k.ev : k.ev[e].type = "q" /\ k.ev[g].type = "q" /\ k.ev[e].ptr = k.ev[g].ptr => e = g
  /\ \A c \in Qcb : c \in ToSet(f) \/ \E e \in DOMAIN k.ev : k.ev[e].type = "q" /\ k.ev[e].ptr = c

\* Nothing lies in an event that tasks wait for.
QcbType == [in : 0 .. Size - 1, out : 0 .. Size - 1, n : 0 .. Size, buf : [0 .. Size - 1 -> Letter \cup {Null}]]
KeptInv(k, x) ==
  /\ x \in [Qcb -> QcbType]
  /\ \A c \in Qcb : x[c].in = x[c].out + x[c].n \/ x[c].in = x[c].out + x[c].n - Size
  /\ \A e \in DOMAIN k.ev :
       /\ k.ev[e].type = "q" /\ x[k.ev[e].ptr].n > 0 => k.ev[e].wait = {}
       /\ k.ev[e].type = "mbox" => k.ev[e].ptr \in Letter \cup {Null} /\ (k.ev[e].ptr # Null => k.ev[e].wait = {})
       /\ k.ev[e].type = "sem" => k.ev[e].cnt <= MaxCnt /\ (k.ev[e].cnt > 0 => k.ev[e].wait = {})

DlyInv(k) == \A t \in Task : k.tcb[t].dly <= App[k.app].dly

\* The task that runs: it has the processor's priority, or has just deleted
\* itself; it never waits with the scheduler locked, which it only is by it.
CurInv(k, p) ==
  /\ k.lock <= App[k.app].locks + 1
  /\ \A t \in k.list : p[t].at = "delete" =>
       /\ t = k.cur /\ t # Idle /\ k.lock = 1 /\ k.tcb[t].prio = p[t].n
       /\ k.tcb[t].prio \notin k.rdy /\ k.tcb[t].stat = {} /\ k.tcb[t].dly = 0
  /\ IF k.cur \in k.list THEN k.tcb[k.cur].prio = k.prioCur
     ELSE p[k.cur].at = "sched" /\ k.tbl[k.prioCur] = Null /\ k.lock = 0
  /\ p[k.cur].at \in PendStage \cup {"block", "wake"} => k.lock = 0
RunInv(k, p) ==
  k.lock = 0 /\ p[k.cur].at \notin {"sched", "block"} =>
    /\ k.prioCur \in k.rdy
    /\ App[k.app].ops \cap {"mboxopt", "qopt"} = {} => \A x \in k.rdy : k.prioCur <= x

TasksInv(k, p) == /\ OsType(k) /\ App[k.app].ops \cap Others = {} /\ ArgInv(k.app, p) /\ DlyInv(k)
                  /\ IdleInv(k, p) /\ TblInv(k, p) /\ ReadyInv(k, p) /\ WaitInv(k, p) /\ CallInv(k, p)
                  /\ EcbInv(k, p)
Holding(k, p, f, x) == /\ TasksInv(k, p) /\ QcbInv(k, f) /\ KeptInv(k, x) /\ CurInv(k, p) /\ RunInv(k, p)
KernelInv == Holding(os, pc, qfree, q) /\ mine \in [Task -> SUBSET (Letter \cup {Null})]
-----------------------------------------------------------------------------
LEMMA EcbOf == ASSUME NEW k, OsType(k), NEW e \in DOMAIN k.ev
               PROVE  e \in Ecb /\ k.ev[e] \in EcbType
BY DEF OsType, Ecb

\* What WaitFor does, t being the task that runs.
Waiting(k, r, t, e, bit, n) ==
  /\ OsType(r) /\ KeepsTasks(k, r) /\ KeepsCpu(k, r) /\ KeepsEcbs(k, r)
  /\ r.rdy = k.rdy \ {k.tcb[t].prio}
  /\ \A u \in Task : u # t => r.tcb[u] = k.tcb[u]
  /\ r.tcb[t].stat = k.tcb[t].stat \cup {bit} /\ r.tcb[t].pend = "ok" /\ r.tcb[t].dly = n
  /\ \A f \in DOMAIN k.ev :
       r.ev[f].wait = IF f = e THEN k.ev[e].wait \cup {k.tcb[t].prio} ELSE k.ev[f].wait
LEMMA WaitForIs ==
  ASSUME NEW k, OsType(k), NEW e \in DOMAIN k.ev, NEW bit \in Kinds, NEW n \in Nat, NEW t \in Task, t = k.cur
  PROVE  Waiting(k, WaitFor(k, e, bit, n), t, e, bit, n)
<1>2a. PICK c, r : c = k.tcb[t] /\ r = WaitFor(k, e, bit, n)
  OBVIOUS
<1>1. t = k.cur
  OBVIOUS
<1>0. Shape(k)
  BY DEF OsType
<1>2. c \in TcbType /\ c = k.tcb[t]
  BY <1>1, <1>2a DEF OsType
<1>3. PICK d : d = [c EXCEPT !.stat = @ \cup {bit}, !.pend = "ok", !.dly = n, !.ev = e]
  OBVIOUS
<1>4. d \in TcbType /\ d.prio = c.prio /\ d.stat = c.stat \cup {bit} /\ d.pend = "ok" /\ d.dly = n
  BY ZenonT(40), <1>2, <1>3, EcbOf DEF TcbType
<1>5. PICK x : x = [k.ev[e] EXCEPT !.wait = @ \cup {c.prio}]
  OBVIOUS
<1>6. x \in EcbType /\ x.type = k.ev[e].type /\ x.cnt = k.ev[e].cnt /\ x.ptr = k.ev[e].ptr
      /\ x.wait = k.ev[e].wait \cup {c.prio}
  BY <1>2, <1>5, EcbOf DEF EcbType, TcbType
<1>7. PICK k0 : k0 = [k EXCEPT !.tcb[t].stat = @ \cup {bit}, !.tcb[t].pend = "ok", !.tcb[t].dly = n]
  OBVIOUS
<1>8. PICK T0 : T0 = [k.tcb EXCEPT ![t] = [c EXCEPT !.stat = @ \cup {bit}, !.pend = "ok", !.dly = n]]
  OBVIOUS
<1>9. k0 = [k EXCEPT !.tcb = T0]
  <2>1. PICK T : T = [k.tcb EXCEPT ![t].stat = @ \cup {bit}, ![t].pend = "ok", ![t].dly = n]
    OBVIOUS
  <2>2. t \in Task /\ k.tcb \in [Task -> TcbType] /\ Shape(k) /\ c = k.tcb[t]
    BY <1>0, <1>2 DEF OsType
  <2>3. T = T0
    BY ONLY <1>8, <2>1, <2>2
  <2>4. k0 = [k EXCEPT !.tcb = T]
    BY ONLY <1>7, <2>1, <2>2 DEF Shape
  <2> QED
    BY ONLY <2>3, <2>4
<1>10. /\ Shape(k0) /\ k0.tcb = T0 /\ k0.app = k.app /\ k0.rdy = k.rdy /\ k0.tbl = k.tbl /\ k0.list = k.list
       /\ k0.free = k.free /\ k0.ev = k.ev /\ k0.evfree = k.evfree
       /\ k0.cur = k.cur /\ k0.prioCur = k.prioCur /\ k0.lock = k.lock
  BY ONLY <1>0, <1>9 DEF Shape
<1>11. k0.tcb[t].prio = c.prio /\ DOMAIN T0 = Task
  BY <1>2, <1>8, <1>10 DEF TcbType, OsType
<1>12. PICK k1 : k1 = [k0 EXCEPT !.tcb[t].ev = e, !.ev[e].wait = @ \cup {c.prio}]
  OBVIOUS
<1>13. PICK T1, E1 : T1 = [k.tcb EXCEPT ![t] = d] /\ E1 = [k.ev EXCEPT ![e] = x]
  OBVIOUS
<1>14. [T0 EXCEPT ![t].ev = e] = T1
  BY ZenonT(40), <1>2, <1>3, <1>8, <1>13 DEF OsType, TcbType
<1>15. [k.ev EXCEPT ![e].wait = @ \cup {c.prio}] = E1
  BY <1>5, <1>13
<1>16. k1 = [[k0 EXCEPT !.tcb = T1] EXCEPT !.ev = E1]
  BY <1>10, <1>12, <1>14, <1>15 DEF Shape
<1>17. /\ Shape(k1) /\ k1.tcb = T1 /\ k1.app = k.app /\ k1.rdy = k.rdy /\ k1.tbl = k.tbl /\ k1.list = k.list
       /\ k1.free = k.free /\ k1.ev = E1 /\ k1.evfree = k.evfree
       /\ k1.cur = k.cur /\ k1.prioCur = k.prioCur /\ k1.lock = k.lock
  <2>1. PICK k2 : k2 = [k0 EXCEPT !.tcb = T1]
    OBVIOUS
  <2>2. /\ Shape(k2) /\ k2.tcb = T1 /\ k2.app = k.app /\ k2.rdy = k.rdy /\ k2.tbl = k.tbl /\ k2.list = k.list
        /\ k2.free = k.free /\ k2.ev = k.ev /\ k2.evfree = k.evfree
       /\ k2.cur = k.cur /\ k2.prioCur = k.prioCur /\ k2.lock = k.lock
    BY ONLY <1>10, <2>1 DEF Shape
  <2> QED
    BY ONLY ZenonT(40), <1>16, <2>1, <2>2 DEF Shape
<1>18. WaitFor(k, e, bit, n) = [k1 EXCEPT !.rdy = k.rdy \ {c.prio}]
  <2>1. k0.cur = t /\ k1.cur = t /\ k1.tcb[t].prio = c.prio
    BY <1>1, <1>4, <1>10, <1>13, <1>17 DEF KeepsCpu, OsType
  <2>2. WaitFor(k, e, bit, n) = OS_EventTaskWait(k0, e)
    BY <1>1, <1>7 DEF WaitFor
  <2>3. OS_EventTaskWait(k0, e) = ClearReady(k1, t)
    BY <1>11, <1>12, <2>1 DEF OS_EventTaskWait
  <2> QED
    BY <1>17, <2>1, <2>2, <2>3 DEF ClearReady
<1>20. /\ Shape(r) /\ r.tcb = T1 /\ r.app = k.app /\ r.rdy = k.rdy \ {c.prio} /\ r.tbl = k.tbl /\ r.list = k.list
       /\ r.free = k.free /\ r.ev = E1 /\ r.evfree = k.evfree
       /\ r.cur = k.cur /\ r.prioCur = k.prioCur /\ r.lock = k.lock
  BY ONLY <1>2a, <1>17, <1>18 DEF Shape
<1>21. OsType(r)
  BY <1>4, <1>6, <1>13, <1>20 DEF OsType, KeepsCpu
<1>22. /\ \A u \in Task : r.tcb[u] = IF u = t THEN d ELSE k.tcb[u]
       /\ \A f \in DOMAIN k.ev : r.ev[f] = IF f = e THEN x ELSE k.ev[f]
       /\ DOMAIN r.ev = DOMAIN k.ev
  BY <1>13, <1>20 DEF OsType
<1>23. KeepsTasks(k, r) /\ KeepsEcbs(k, r) /\ KeepsCpu(k, r)
  BY <1>2, <1>4, <1>6, <1>20, <1>22 DEF KeepsTasks, KeepsEcbs, KeepsCpu
<1>24. \A f \in DOMAIN k.ev : r.ev[f].wait = IF f = e THEN k.ev[e].wait \cup {c.prio} ELSE k.ev[f].wait
  BY <1>6, <1>22
<1> QED
  BY <1>2, <1>4, <1>20, <1>21, <1>22, <1>23, <1>24, <1>2a DEF Waiting

-----------------------------------------------------------------------------
\* A task goes from one place to another and the kernel state stays.
LEMMA PcTbl ==
  ASSUME NEW k, OsType(k), NEW p \in [Task -> PcType], NEW t \in Task, NEW x \in PcType,
         NEW r, r = [p EXCEPT ![t] = x], TblInv(k, p),
         p[t].at \notin Creating, x.at \notin Creating, t \notin k.list => x.at \in {"app", "sched"}
  PROVE  TblInv(k, r)
<1>1. r[t] = x /\ \A u \in Task : u # t => r[u] = p[u]
  OBVIOUS
<1>2. Creators(k, r) = Creators(k, p) /\ Linkers(k, r) = Linkers(k, p)
      /\ t \notin Creators(k, p) /\ t \notin Linkers(k, p)
  BY <1>1 DEF Creators, Linkers, Creating, OsType
<1>3. \A u \in Creators(k, p) : r[u] = p[u]
  BY <1>1, <1>2 DEF Creators, OsType
<1>4. \A u \in Linkers(k, p) : r[u] = p[u]
  BY <1>1, <1>2 DEF Linkers, OsType
<1>5. AsideInv(k, r)
  <2>1. AsideInv(k, p)
    BY DEF TblInv
  <2> QED
    BY ONLY <1>2, <1>3, <2>1 DEF AsideInv
<1>6. BlocksInv(k, r)
  <2>1. BlocksInv(k, p)
    BY DEF TblInv
  <2>2. \A u \in Task \ k.list : r[u].at \in {"app", "sched"}
    BY <1>1, <2>1 DEF BlocksInv
  <2> QED
    BY ONLY <1>2, <1>4, <2>1, <2>2 DEF BlocksInv
<1> QED
  BY <1>5, <1>6 DEF TblInv

LEMMA PcReady ==
  ASSUME NEW k, OsType(k), NEW p \in [Task -> PcType], NEW t \in Task, NEW x \in PcType,
         NEW r, r = [p EXCEPT ![t] = x], ReadyInv(k, p), p[t].at # "delete", x.at # "delete"
  PROVE  ReadyInv(k, r)
<1>1. Living(k, r) = Living(k, p)
  BY DEF Living, OsType
<1> QED
  BY <1>1 DEF ReadyInv

\* It was not waiting, or its wait was over.
LEMMA PcWait ==
  ASSUME NEW k, OsType(k), NEW p \in [Task -> PcType], NEW t \in Task, NEW x \in PcType,
         NEW r, r = [p EXCEPT ![t] = x], WaitInv(k, p),
         ~ Blk(p, t) \/ (k.tcb[t].stat \cap Kinds = {} /\ k.tcb[t].pend = "ok")
  PROVE  WaitInv(k, r)
<1>1. r[t] = x /\ \A u \in Task : u # t => r[u] = p[u]
  OBVIOUS
<1>2. \A u \in Task : u # t => (Blk(r, u) <=> Blk(p, u)) /\ (Pend(k, r, u) <=> Pend(k, p, u))
  BY <1>1 DEF Blk, Pend
<1>3. t \in k.list => k.tcb[t].stat \cap Kinds = {} /\ k.tcb[t].pend = "ok" /\ k.tcb[t].stat \subseteq {"suspend"}
  BY DEF WaitInv, StatInv, StatAt, Kinds, OsType, TcbType
<1>4. t \in k.list => ~ Pend(k, p, t) /\ ~ Pend(k, r, t)
  BY <1>3 DEF Pend
<1>5. k.list \subseteq Task /\ StatInv(k, p) /\ ListsInv(k, p)
  BY DEF WaitInv, OsType
<1>6. ASSUME NEW u \in k.list
      PROVE  StatAt(k, r, u) /\ \A e \in DOMAIN k.ev : ListedAt(k, r, e, u)
  <2>1. StatAt(k, p, u) /\ \A e \in DOMAIN k.ev : ListedAt(k, p, e, u)
    BY <1>5 DEF StatInv, ListsInv
  <2>2. CASE u = t
    BY ONLY <1>3, <1>4, <2>1, <2>2 DEF StatAt, ListedAt
  <2>3. CASE u # t
    BY ONLY <1>1, <1>2, <1>5, <2>1, <2>3 DEF StatAt, ListedAt
  <2> QED
    BY <2>2, <2>3
<1> QED
  BY <1>5, <1>6 DEF WaitInv, StatInv, ListsInv

LEMMA PcCall ==
  ASSUME NEW k, OsType(k), NEW p \in [Task -> PcType], NEW t \in Task, NEW x \in PcType,
         NEW r, r = [p EXCEPT ![t] = x], CallInv(k, p), x.at \notin OnEvent
  PROVE  CallInv(k, r)
<1>1. r[t] = x /\ \A u \in Task : u # t => r[u] = p[u]
  OBVIOUS
<1>2. DelStage \subseteq OnEvent
  BY DEF DelStage, OnEvent, SemStage, MboxStage, QStage
<1> QED
  BY <1>1, <1>2 DEF CallInv, OsType

LEMMA PcEnter ==
  ASSUME NEW k, OsType(k), NEW p \in [Task -> PcType], NEW t \in Task, NEW x \in PcType,
         NEW r, r = [p EXCEPT ![t] = x], CallInv(k, p),
         x.ev \in DOMAIN k.ev, k.ev[x.ev].type = x.svc,
         \A u \in k.list \ {t} : p[u].at \in OnEvent /\ p[u].ev = x.ev =>
           x.at \notin DelStage /\ p[u].at \notin DelStage
  PROVE  CallInv(k, r)
<1>1. r[t] = x /\ \A u \in Task : u # t => r[u] = p[u]
  OBVIOUS
<1>2. DelStage \subseteq OnEvent
  BY DEF DelStage, OnEvent, SemStage, MboxStage, QStage
<1> QED
  BY <1>1, <1>2 DEF CallInv, OsType

LEMMA PcEcb ==
  ASSUME NEW k, OsType(k), NEW p \in [Task -> PcType], NEW t \in Task, NEW x \in PcType,
         NEW r, r = [p EXCEPT ![t] = x], EcbInv(k, p), p[t].at # "qcreate", x.at # "qcreate"
  PROVE  EcbInv(k, r)
<1>1. r[t] = x /\ \A u \in Task : u # t => r[u] = p[u]
  OBVIOUS
<1>2. \A u \in Task : (r[u].at = "qcreate" <=> p[u].at = "qcreate") /\ (r[u].at = "qcreate" => r[u] = p[u])
  BY <1>1
<1> QED
  BY <1>2 DEF EcbInv, OsType

\* A task returns, or is about to look at the scheduler, from a call that leaves
\* nothing half done.
LEMMA PcLeaves ==
  ASSUME NEW k, NEW p, TasksInv(k, p), NEW t \in Task, t # Idle, NEW x \in PcType, NEW r, r = [p EXCEPT ![t] = x],
         p[t].at \notin Creating \cup {"delete", "qcreate"},
         ~ Blk(p, t) \/ (k.tcb[t].stat \cap Kinds = {} /\ k.tcb[t].pend = "ok"),
         x.at \in {"app", "sched"}
  PROVE  TasksInv(k, r)
<1>1. OsType(k) /\ p \in [Task -> PcType]
  BY DEF TasksInv, ArgInv
<1>2. x.at \notin Creating /\ x.at # "delete" /\ x.at # "qcreate" /\ x.at \notin OnEvent
      /\ x.at \notin PendStage /\ x.at \notin {"block", "wake"}
  BY DEF Creating, OnEvent, PendStage, SemStage, MboxStage, QStage
<1>3. ArgInv(k.app, r)
  <2>1. x.at \notin {"semset", "mboxpost", "mboxopt", "qpost", "qpostfront", "qopt"} \cup SemStage \cup MboxStage \cup QStage
    BY DEF SemStage, MboxStage, QStage
  <2> QED
    BY <1>1, <1>2, <2>1 DEF TasksInv, ArgInv, Blk
<1>4. IdleInv(k, r)
  BY <1>1 DEF TasksInv, IdleInv, OsType
<1>5. TblInv(k, r)
  BY <1>1, <1>2, PcTbl DEF TasksInv
<1>6. ReadyInv(k, r)
  BY <1>1, <1>2, PcReady DEF TasksInv
<1>7. WaitInv(k, r)
  BY <1>1, PcWait DEF TasksInv
<1>8. CallInv(k, r)
  BY <1>1, <1>2, PcCall DEF TasksInv
<1>9. EcbInv(k, r)
  BY <1>1, <1>2, PcEcb DEF TasksInv
<1> QED
  BY <1>3, <1>4, <1>5, <1>6, <1>7, <1>8, <1>9 DEF TasksInv
-----------------------------------------------------------------------------
\* The services that change some control blocks of tasks, the ready list and the
\* wait lists, and neither who exists nor who has which priority.
KeepsTypes(k, r) == /\ DOMAIN r.ev = DOMAIN k.ev /\ r.evfree = k.evfree
                    /\ \A e \in DOMAIN k.ev : r.ev[e].type = k.ev[e].type

LEMMA OwnPrios == ASSUME NEW k, NEW p, OwnPrioInv(k), NEW t \in k.list, NEW u \in k.list,
                         k.tcb[t].prio = k.tcb[u].prio
                  PROVE  t = u
BY DEF OwnPrioInv

LEMMA Kept ==
  ASSUME NEW k, NEW p, TasksInv(k, p), NEW r, OsType(r), KeepsTasks(k, r), KeepsTypes(k, r),
         \A t \in Task \ k.list : r.tcb[t] = k.tcb[t], r.tcb[Idle] = k.tcb[Idle],
         \A t \in Task : r.tcb[t].dly <= App[k.app].dly,
         ReadyInv(r, p), WaitInv(r, p)
  PROVE  TasksInv(r, p)
<1>1. /\ OsType(k) /\ p \in [Task -> PcType] /\ r.app = k.app /\ r.tbl = k.tbl /\ r.list = k.list /\ r.free = k.free
      /\ k.list \subseteq Task
  BY DEF TasksInv, ArgInv, KeepsTasks, OsType
<1>2. App[r.app].ops \cap Others = {} /\ ArgInv(r.app, p) /\ DlyInv(r)
  BY <1>1 DEF TasksInv, DlyInv
<1>3. IdleInv(r, p)
  BY <1>1 DEF TasksInv, IdleInv
<1>4. TblInv(r, p)
  <2>1. OwnPrioInv(k) /\ AsideInv(k, p) /\ BlocksInv(k, p)
    BY DEF TasksInv, TblInv
  <2>2. OwnPrioInv(r)
    BY <1>1, <2>1 DEF OwnPrioInv, KeepsTasks
  <2>3. Creators(r, p) = Creators(k, p) /\ Linkers(r, p) = Linkers(k, p)
    BY <1>1 DEF Creators, Linkers
  <2>4. AsideInv(r, p)
    BY ONLY <1>1, <2>1, <2>3 DEF AsideInv
  <2>5. BlocksInv(r, p)
    BY <1>1, <2>1, <2>3 DEF BlocksInv
  <2> QED
    BY <2>2, <2>4, <2>5 DEF TblInv
<1>5. CallInv(r, p)
  <2>1. CallInv(k, p)
    BY DEF TasksInv
  <2> QED
    BY <1>1, <2>1 DEF CallInv, KeepsTypes
<1>6. EcbInv(r, p)
  <2>1. EcbInv(k, p)
    BY DEF TasksInv
  <2> QED
    BY <1>1, <2>1 DEF EcbInv, KeepsTypes
<1> QED
  BY <1>2, <1>3, <1>4, <1>5, <1>6 DEF TasksInv

\* The processor goes to another task, a semaphore's count or a mailbox's
\* message changes.
LEMMA DataKept ==
  ASSUME NEW k, NEW p, TasksInv(k, p), NEW r, OsType(r),
         r.app = k.app, r.rdy = k.rdy, r.tbl = k.tbl, r.tcb = k.tcb, r.list = k.list, r.free = k.free,
         DOMAIN r.ev = DOMAIN k.ev, r.evfree = k.evfree,
         \A e \in DOMAIN k.ev : r.ev[e].type = k.ev[e].type /\ r.ev[e].wait = k.ev[e].wait
  PROVE  TasksInv(r, p)
<1>1. OsType(k) /\ k.list \subseteq Task
  BY DEF TasksInv, OsType
<1>2. ReadyInv(r, p)
  <2>1. ReadyInv(k, p) /\ Living(r, p) = Living(k, p)
    BY DEF TasksInv, Living
  <2> QED
    BY ONLY <2>1, r.rdy = k.rdy, r.tcb = k.tcb DEF ReadyInv, ReadyAt
<1>3. WaitInv(r, p)
  <2>1. StatInv(k, p) /\ ListsInv(k, p)
    BY DEF TasksInv, WaitInv
  <2>2. \A t : Pend(r, p, t) <=> Pend(k, p, t)
    BY DEF Pend
  <2>3. StatInv(r, p)
    BY <2>1, <2>2 DEF StatInv, StatAt
  <2>4. ListsInv(r, p)
    BY <2>1, <2>2 DEF ListsInv, ListedAt
  <2> QED
    BY <2>3, <2>4 DEF WaitInv
<1>4. KeepsTasks(k, r) /\ KeepsTypes(k, r)
  BY DEF KeepsTasks, KeepsTypes
<1> QED
  BY <1>1, <1>2, <1>3, <1>4, Kept DEF TasksInv, DlyInv

\* The services that change the tasks ts, where each of them is then.
Settled(k, p, t) == /\ p[t].at # "delete" => ReadyAt(k, t)
                    /\ StatAt(k, p, t) /\ \A e \in DOMAIN k.ev : ListedAt(k, p, e, t)
LEMMA Changed ==
  ASSUME NEW k, NEW p, TasksInv(k, p), NEW r, OsType(r), KeepsTasks(k, r), KeepsTypes(k, r),
         NEW ts \in SUBSET (k.list \ {Idle}), \A t \in Task \ ts : r.tcb[t] = k.tcb[t],
         \A t \in k.list \ ts : /\ k.tcb[t].prio \in r.rdy <=> k.tcb[t].prio \in k.rdy
                               /\ \A e \in DOMAIN k.ev : k.tcb[t].prio \in r.ev[e].wait <=> k.tcb[t].prio \in k.ev[e].wait,
         \A x \in r.rdy \ k.rdy : \E t \in ts : p[t].at # "delete" /\ k.tcb[t].prio = x,
         \A e \in DOMAIN k.ev : \A x \in r.ev[e].wait \ k.ev[e].wait : \E t \in ts : k.tcb[t].prio = x,
         \A t \in ts : r.tcb[t].dly <= App[k.app].dly /\ Settled(r, p, t)
  PROVE  TasksInv(r, p)
<1>1. /\ OsType(k) /\ k.list \subseteq Task /\ r.list = k.list /\ \A t \in Task : r.tcb[t].prio = k.tcb[t].prio
      /\ DOMAIN r.ev = DOMAIN k.ev /\ \A e \in DOMAIN k.ev : r.ev[e].type = k.ev[e].type
      /\ Living(r, p) = Living(k, p)
  BY DEF TasksInv, OsType, KeepsTasks, KeepsTypes, Living
<1>2. ReadyInv(k, p) /\ StatInv(k, p) /\ ListsInv(k, p)
  BY DEF TasksInv, WaitInv
<1>3. ASSUME NEW t \in k.list
      PROVE  Settled(r, p, t)
  <2>1. CASE t \in ts
    BY <2>1
  <2>2. CASE t \notin ts
    <3>1. r.tcb[t] = k.tcb[t] /\ (Pend(r, p, t) <=> Pend(k, p, t))
      BY <1>1, <2>2 DEF Pend
    <3>2. p[t].at # "delete" => ReadyAt(k, t)
      BY <1>2 DEF ReadyInv, Living
    <3>3. p[t].at # "delete" => ReadyAt(r, t)
      BY <2>2, <3>1, <3>2 DEF ReadyAt
    <3>4. StatAt(k, p, t)
      BY <1>2 DEF StatInv
    <3>5. StatAt(r, p, t)
      BY ONLY <1>1, <3>1, <3>4 DEF StatAt
    <3>6. ASSUME NEW e \in DOMAIN k.ev
          PROVE  ListedAt(r, p, e, t)
      <4>1. ListedAt(k, p, e, t)
        BY <1>2 DEF ListsInv
      <4> QED
        BY <2>2, <3>1, <4>1 DEF ListedAt
    <3> QED
      BY <1>1, <3>3, <3>5, <3>6 DEF Settled
  <2> QED
    BY <2>1, <2>2
<1>4. ReadyInv(r, p)
  <2>1. ASSUME NEW x \in r.rdy
        PROVE  \E t \in Living(k, p) : k.tcb[t].prio = x
    <3>1. CASE x \in k.rdy
      BY <1>2, <3>1 DEF ReadyInv
    <3>2. CASE x \notin k.rdy
      BY <3>2 DEF Living
    <3> QED
      BY <3>1, <3>2
  <2>2. \A t \in Living(k, p) : ReadyAt(r, t) /\ t \in Task
    BY <1>1, <1>3 DEF Living, Settled
  <2> QED
    BY ONLY <1>1, <2>1, <2>2 DEF ReadyInv
<1>5. WaitInv(r, p)
  <2>1. ASSUME NEW e \in DOMAIN k.ev, NEW x \in r.ev[e].wait
        PROVE  \E t \in k.list : k.tcb[t].prio = x
    <3>1. CASE x \in k.ev[e].wait
      BY <1>2, <3>1 DEF ListsInv
    <3>2. CASE x \notin k.ev[e].wait
      BY <3>2
    <3> QED
      BY <3>1, <3>2
  <2>2. \A t \in k.list : StatAt(r, p, t) /\ \A e \in DOMAIN k.ev : ListedAt(r, p, e, t)
    BY <1>1, <1>3 DEF Settled
  <2>3. ListsInv(r, p)
    BY ONLY <1>1, <2>1, <2>2 DEF ListsInv
  <2>4. StatInv(r, p)
    BY ONLY <1>1, <2>2 DEF StatInv
  <2> QED
    BY <2>3, <2>4 DEF WaitInv
<1>6. \A t \in Task : r.tcb[t].dly <= App[k.app].dly
  BY <1>1 DEF TasksInv, DlyInv
<1>7. r.tcb[Idle] = k.tcb[Idle] /\ \A t \in Task \ k.list : r.tcb[t] = k.tcb[t]
  BY CoreAssumption
<1> QED
  BY <1>4, <1>5, <1>6, <1>7, Kept

\* The task that runs begins to wait for event e.
LEMMA WaitKeeps ==
  ASSUME NEW k, NEW p, TasksInv(k, p), NEW t \in k.list, t = k.cur, t # Idle, p[t].at \in {"block", "wake"},
         NEW e \in DOMAIN k.ev, p[t].ev = e, k.ev[e].type = p[t].svc, NEW n \in 0 .. App[k.app].dly,
         k.tcb[t].stat \cap Kinds = {}, k.tcb[t].pend = "ok",
         NEW r, r = WaitFor(k, e, p[t].svc, n)
  PROVE  TasksInv(r, p)
<1>0. /\ OsType(k) /\ k.list \subseteq Task /\ t \in Task /\ n \in Nat /\ n <= App[k.app].dly
      /\ p[t].svc \in Kinds /\ OwnPrioInv(k) /\ Blk(p, t) /\ StatInv(k, p) /\ ListsInv(k, p)
  <2>1. OsType(k) /\ ArgInv(k.app, p) /\ TblInv(k, p) /\ WaitInv(k, p) /\ Blk(p, t)
    BY DEF TasksInv, Blk
  <2>2. App[k.app].dly \in Nat
    BY <2>1, AppAssumption DEF OsType
  <2> QED
    BY <2>1, <2>2 DEF OsType, ArgInv, TblInv, WaitInv
<1>1. PICK c \in Prio : c = k.tcb[t].prio
  BY <1>0 DEF OsType, TcbType
<1>2. /\ OsType(r) /\ KeepsTasks(k, r) /\ KeepsEcbs(k, r)
      /\ r.rdy = k.rdy \ {c}
      /\ \A u \in Task : u # t => r.tcb[u] = k.tcb[u]
      /\ r.tcb[t].stat = k.tcb[t].stat \cup {p[t].svc} /\ r.tcb[t].pend = "ok" /\ r.tcb[t].dly = n
      /\ \A f \in DOMAIN k.ev : r.ev[f].wait = IF f = e THEN k.ev[e].wait \cup {c} ELSE k.ev[f].wait
  <2>1. Waiting(k, r, t, e, p[t].svc, n)
    BY <1>0, WaitForIs
  <2> QED
    BY <1>1, <2>1 DEF Waiting
<1>3. KeepsTypes(k, r) /\ r.tcb[t].prio = c /\ DOMAIN r.ev = DOMAIN k.ev /\ r.ev[e].type = p[t].svc
  BY ZenonT(40), <1>0, <1>1, <1>2 DEF KeepsTypes, KeepsEcbs, KeepsTasks
<1>4. \A u \in k.list : u # t => k.tcb[u].prio # c
  BY <1>0, <1>1, OwnPrios
<1>5. ReadyAt(r, t)
  BY <1>2, <1>3 DEF ReadyAt
<1>6. Pend(r, p, t) /\ ~ Pend(k, p, t)
  BY <1>0, <1>2 DEF Pend
<1>7. StatAt(r, p, t)
  <2>1. StatAt(k, p, t)
    BY <1>0 DEF StatInv
  <2> QED
    BY <1>0, <1>2, <1>3, <2>1 DEF StatAt
<1>8. ASSUME NEW f \in DOMAIN k.ev
      PROVE  ListedAt(r, p, f, t)
  <2>1. ListedAt(k, p, f, t)
    BY <1>0 DEF ListsInv
  <2> QED
    BY ZenonT(40), <1>1, <1>2, <1>3, <1>6, <2>1 DEF ListedAt
<1>9. Settled(r, p, t)
  BY <1>3, <1>5, <1>7, <1>8 DEF Settled
<1>10. PICK ts \in SUBSET (k.list \ {Idle}) : ts = {t}
  BY <1>0
<1>11. \A u \in k.list \ ts : /\ k.tcb[u].prio \in r.rdy <=> k.tcb[u].prio \in k.rdy
                              /\ \A f \in DOMAIN k.ev : k.tcb[u].prio \in r.ev[f].wait <=> k.tcb[u].prio \in k.ev[f].wait
  <2> SUFFICES ASSUME NEW u \in k.list \ ts
               PROVE  /\ k.tcb[u].prio \in r.rdy <=> k.tcb[u].prio \in k.rdy
                      /\ \A f \in DOMAIN k.ev : k.tcb[u].prio \in r.ev[f].wait <=> k.tcb[u].prio \in k.ev[f].wait
    OBVIOUS
  <2>1. k.tcb[u].prio # c
    BY ONLY <1>4, <1>10
  <2>2. r.rdy = k.rdy \ {c}
    BY ONLY <1>2
  <2>3. \A f \in DOMAIN k.ev : r.ev[f].wait = IF f = e THEN k.ev[e].wait \cup {c} ELSE k.ev[f].wait
    BY ONLY <1>2
  <2> QED
    BY ONLY <2>1, <2>2, <2>3
<1>12. \A f \in DOMAIN k.ev : \A x \in r.ev[f].wait \ k.ev[f].wait : \E u \in ts : k.tcb[u].prio = x
  <2>1. \A f \in DOMAIN k.ev : r.ev[f].wait = IF f = e THEN k.ev[e].wait \cup {c} ELSE k.ev[f].wait
    BY ONLY <1>2
  <2>2. \A f \in DOMAIN k.ev : \A x \in r.ev[f].wait \ k.ev[f].wait : x = c
    BY ONLY <2>1
  <2> QED
    BY ONLY <1>1, <1>10, <2>2
<1>13. \A x \in r.rdy \ k.rdy : \E u \in ts : p[u].at # "delete" /\ k.tcb[u].prio = x
  BY <1>2
<1>14. \A u \in ts : r.tcb[u].dly <= App[k.app].dly /\ Settled(r, p, u)
  <2>1. r.tcb[t].dly = n /\ n <= App[k.app].dly
    BY ONLY <1>0, <1>2
  <2> QED
    BY ONLY <1>9, <1>10, <2>1
<1>15. \A u \in Task \ ts : r.tcb[u] = k.tcb[u]
  BY <1>2, <1>10
<1> QED
  BY ONLY TasksInv(k, p), <1>2, <1>3, <1>11, <1>12, <1>13, <1>14, <1>15, Changed

\* What Awake does.
Waking(k, r, t, e) ==
  /\ OsType(r) /\ KeepsTasks(k, r) /\ KeepsCpu(k, r) /\ KeepsEcbs(k, r) /\ r.rdy = k.rdy
  /\ \A u \in Task : u # t => r.tcb[u] = k.tcb[u]
  /\ r.tcb[t].stat = {} /\ r.tcb[t].pend = "ok" /\ r.tcb[t].dly = k.tcb[t].dly
  /\ \A f \in DOMAIN k.ev :
       r.ev[f].wait = IF f = e /\ k.tcb[t].pend = "to" THEN k.ev[e].wait \ {k.tcb[t].prio} ELSE k.ev[f].wait
LEMMA AwakeIs ==
  ASSUME NEW k, OsType(k), NEW t \in Task, NEW e, k.tcb[t].pend = "to" => e \in DOMAIN k.ev
  PROVE  Waking(k, Awake(k, t, e), t, e)
<1>1. PICK c, d : /\ c = k.tcb[t]
                  /\ d = [c EXCEPT !.stat = {}, !.pend = "ok", !.ev = Null, !.multi = {}, !.msg = Null]
  OBVIOUS
<1>2. Shape(k) /\ c \in TcbType /\ k.tcb \in [Task -> TcbType]
  BY <1>1 DEF OsType
<1>3. d \in TcbType /\ d.prio = c.prio /\ d.stat = {} /\ d.pend = "ok" /\ d.dly = c.dly
  BY <1>1, <1>2 DEF TcbType
<1>4. PICK E : E = IF c.pend = "to" THEN [k.ev EXCEPT ![e].wait = @ \ {c.prio}] ELSE k.ev
  OBVIOUS
<1>5. /\ DOMAIN E = DOMAIN k.ev /\ E \in [DOMAIN k.ev -> EcbType]
      /\ \A f \in DOMAIN k.ev :
           /\ E[f].type = k.ev[f].type /\ E[f].cnt = k.ev[f].cnt /\ E[f].ptr = k.ev[f].ptr
           /\ E[f].wait = IF f = e /\ c.pend = "to" THEN k.ev[e].wait \ {c.prio} ELSE k.ev[f].wait
  <2>1. k.ev \in [DOMAIN k.ev -> EcbType]
    BY DEF OsType
  <2> QED
    BY <1>4, <2>1 DEF EcbType
<1>6. PICK k1 : k1 = [k EXCEPT !.ev = E]
  OBVIOUS
<1>7. /\ Shape(k1) /\ k1.tcb = k.tcb /\ k1.app = k.app /\ k1.rdy = k.rdy /\ k1.tbl = k.tbl /\ k1.list = k.list
      /\ k1.free = k.free /\ k1.ev = E /\ k1.evfree = k.evfree
      /\ k1.cur = k.cur /\ k1.prioCur = k.prioCur /\ k1.lock = k.lock
  BY ONLY <1>2, <1>6 DEF Shape
<1>8. PICK T : T = [k.tcb EXCEPT ![t] = d]
  OBVIOUS
<1>9. PICK r : r = [k1 EXCEPT !.tcb = T]
  OBVIOUS
<1>10. /\ Shape(r) /\ r.tcb = T /\ r.app = k.app /\ r.rdy = k.rdy /\ r.tbl = k.tbl /\ r.list = k.list
       /\ r.free = k.free /\ r.ev = E /\ r.evfree = k.evfree
       /\ r.cur = k.cur /\ r.prioCur = k.prioCur /\ r.lock = k.lock
  BY ONLY <1>7, <1>9 DEF Shape
<1>11. Awake(k, t, e) = r
  <2>1. (IF k.tcb[t].pend = "to" THEN OS_EventTaskRemove(k, t, e) ELSE k) = k1
    <3>1. CASE c.pend = "to"
      BY <1>1, <1>4, <1>6, <3>1 DEF OS_EventTaskRemove
    <3>2. CASE c.pend # "to"
      <4>1. E = k.ev
        BY <1>4, <3>2
      <4>2. k1 = k
        BY ONLY <1>2, <1>7, <4>1 DEF Shape
      <4> QED
        BY <1>1, <3>2, <4>2
    <3> QED
      BY <3>1, <3>2
  <2>2. Awake(k, t, e) = [k1 EXCEPT !.tcb[t].stat = {}, !.tcb[t].pend = "ok", !.tcb[t].ev = Null,
                                    !.tcb[t].multi = {}, !.tcb[t].msg = Null]
    BY <2>1 DEF Awake
  <2>3. PICK d1, k2 : /\ d1 = [c EXCEPT !.stat = {}, !.pend = "ok"]
                      /\ k2 = [k1 EXCEPT !.tcb[t].stat = {}, !.tcb[t].pend = "ok"]
    OBVIOUS
  <2>4. PICK T2 : T2 = [k.tcb EXCEPT ![t] = d1]
    OBVIOUS
  <2>5. k2 = [k1 EXCEPT !.tcb = T2]
    BY <1>1, <1>2, <1>7, <2>3, <2>4 DEF Shape
  <2>6. /\ Shape(k2) /\ k2.tcb = T2 /\ k2.app = k.app /\ k2.rdy = k.rdy /\ k2.tbl = k.tbl /\ k2.list = k.list
        /\ k2.free = k.free /\ k2.ev = E /\ k2.evfree = k.evfree
        /\ k2.cur = k.cur /\ k2.prioCur = k.prioCur /\ k2.lock = k.lock
    BY ONLY <1>7, <2>5 DEF Shape
  <2>7. T2[t] = d1 /\ DOMAIN T2 = Task /\ d = [d1 EXCEPT !.ev = Null, !.multi = {}, !.msg = Null] /\ T = [T2 EXCEPT ![t] = d]
    BY <1>1, <1>2, <1>8, <2>3, <2>4
  <2>8. [k2 EXCEPT !.tcb[t].ev = Null, !.tcb[t].multi = {}, !.tcb[t].msg = Null] = [k2 EXCEPT !.tcb = T]
    BY ONLY <2>6, <2>7 DEF Shape
  <2>9. [k2 EXCEPT !.tcb = T] = r
    BY ONLY <1>7, <1>9, <2>6 DEF Shape
  <2>10. Awake(k, t, e) = [k2 EXCEPT !.tcb[t].ev = Null, !.tcb[t].multi = {}, !.tcb[t].msg = Null]
    BY ONLY <2>2, <2>3
  <2> QED
    BY <2>8, <2>9, <2>10
<1>12. T \in [Task -> TcbType] /\ \A u \in Task : T[u] = IF u = t THEN d ELSE k.tcb[u]
  BY <1>2, <1>3, <1>8
<1>13. OsType(r)
  BY <1>5, <1>10, <1>12 DEF OsType
<1>14. KeepsTasks(k, r) /\ KeepsEcbs(k, r) /\ KeepsCpu(k, r)
  BY <1>1, <1>3, <1>5, <1>10, <1>12 DEF KeepsTasks, KeepsEcbs, KeepsCpu
<1> QED
  BY <1>1, <1>3, <1>5, <1>10, <1>11, <1>12, <1>13, <1>14 DEF Waking

\* What Readied does to the waiters ts of e, who wait for nothing else.
Readying(k, r, e, ts, msk, stat) ==
  /\ OsType(r) /\ KeepsTasks(k, r) /\ KeepsCpu(k, r) /\ KeepsEcbs(k, r)
  /\ r.rdy = k.rdy \cup {k.tcb[t].prio : t \in {u \in ts : "suspend" \notin k.tcb[u].stat}}
  /\ \A u \in Task \ ts : r.tcb[u] = k.tcb[u]
  /\ \A u \in ts : r.tcb[u].stat = k.tcb[u].stat \ {msk} /\ r.tcb[u].pend = stat /\ r.tcb[u].dly = 0
  /\ \A f \in DOMAIN k.ev :
       r.ev[f].wait = IF f = e THEN k.ev[e].wait \ {k.tcb[t].prio : t \in ts} ELSE k.ev[f].wait
LEMMA ReadiedIs ==
  ASSUME NEW k, OsType(k), NEW e \in DOMAIN k.ev, NEW ts \in SUBSET Task, NEW msg \in Letter \cup {Null},
         NEW msk \in Kinds, NEW stat \in {"ok", "abort"}
  PROVE  Readying(k, Readied(k, e, ts, msg, msk, stat), e, ts, msk, stat)
<1>1. PICK T : T = [t \in Task |-> IF t \in ts THEN WaitOver(k.tcb[t], e, msg, msk, stat) ELSE k.tcb[t]]
  OBVIOUS
<1>2. PICK E : E = [f \in DOMAIN k.ev |->
                     LeftBy(k.ev[f], {k.tcb[t].prio : t \in {u \in ts : f \in {e} \cup k.tcb[u].multi}})]
  OBVIOUS
<1>3. PICK R : R = k.rdy \cup {k.tcb[t].prio : t \in {u \in ts : "suspend" \notin k.tcb[u].stat}}
  OBVIOUS
<1>4. Shape(k) /\ k.tcb \in [Task -> TcbType] /\ k.ev \in [DOMAIN k.ev -> EcbType] /\ k.rdy \subseteq Prio
  BY DEF OsType
<1>5. PICK r : r = [k EXCEPT !.tcb = T, !.rdy = R, !.ev = E]
  OBVIOUS
<1>6. Readied(k, e, ts, msg, msk, stat) = r
  BY <1>1, <1>2, <1>3, <1>5 DEF Readied
<1>7. /\ Shape(r) /\ r.tcb = T /\ r.app = k.app /\ r.rdy = R /\ r.tbl = k.tbl /\ r.list = k.list
      /\ r.free = k.free /\ r.ev = E /\ r.evfree = k.evfree
      /\ r.cur = k.cur /\ r.prioCur = k.prioCur /\ r.lock = k.lock
  BY ONLY <1>4, <1>5 DEF Shape
<1>8. ASSUME NEW t \in Task
      PROVE  /\ T[t] \in TcbType /\ T[t].prio = k.tcb[t].prio /\ (t \notin ts => T[t] = k.tcb[t])
             /\ t \in ts => T[t].stat = k.tcb[t].stat \ {msk} /\ T[t].pend = stat /\ T[t].dly = 0
  <2>1. PICK c \in TcbType : c = k.tcb[t]
    BY <1>4
  <2>2. PICK d : d = [c EXCEPT !.dly = 0, !.msg = msg, !.stat = @ \ {msk}, !.pend = stat]
    OBVIOUS
  <2>3. WaitOver(c, e, msg, msk, stat) = d
    BY <2>1, <2>2 DEF WaitOver, TcbType
  <2>4. d \in TcbType /\ d.prio = c.prio /\ d.stat = c.stat \ {msk} /\ d.pend = stat /\ d.dly = 0
    BY <2>1, <2>2 DEF TcbType
  <2> QED
    BY <1>1, <2>1, <2>3, <2>4
<1>9. ASSUME NEW f \in DOMAIN k.ev
      PROVE  /\ E[f] \in EcbType /\ E[f].type = k.ev[f].type /\ E[f].cnt = k.ev[f].cnt /\ E[f].ptr = k.ev[f].ptr
             /\ E[f].wait = IF f = e THEN k.ev[e].wait \ {k.tcb[t].prio : t \in ts} ELSE k.ev[f].wait
  <2>1. PICK c \in EcbType : c = k.ev[f]
    BY <1>4
  <2>2. PICK ps : ps = {k.tcb[t].prio : t \in {u \in ts : f \in {e} \cup k.tcb[u].multi}}
    OBVIOUS
  <2>3. E[f] = LeftBy(c, ps)
    BY <1>2, <2>1, <2>2
  <2>4. LeftBy(c, ps) \in EcbType /\ E[f].type = c.type /\ E[f].cnt = c.cnt /\ E[f].ptr = c.ptr /\ E[f].wait = c.wait \ ps
    BY <2>1, <2>3 DEF LeftBy, EcbType
  <2>5. \A u \in ts : k.tcb[u].multi = {}
    BY <1>4 DEF TcbType
  <2>6. {u \in ts : f \in {e} \cup k.tcb[u].multi} = IF f = e THEN ts ELSE {}
    BY <2>5
  <2>7. ps = IF f = e THEN {k.tcb[t].prio : t \in ts} ELSE {}
    BY <2>2, <2>6
  <2> QED
    BY <2>1, <2>3, <2>4, <2>7
<1>10. R \subseteq Prio
  BY <1>3, <1>4 DEF TcbType
<1>11. T \in [Task -> TcbType] /\ DOMAIN E = DOMAIN k.ev /\ E \in [DOMAIN k.ev -> EcbType]
  BY <1>1, <1>2, <1>8, <1>9
<1>12. OsType(r)
  BY <1>7, <1>10, <1>11 DEF OsType
<1>13. KeepsTasks(k, r) /\ KeepsEcbs(k, r) /\ KeepsCpu(k, r)
  BY <1>7, <1>8, <1>9, <1>11 DEF KeepsTasks, KeepsEcbs, KeepsCpu
<1>14. /\ \A u \in Task \ ts : r.tcb[u] = k.tcb[u]
       /\ \A u \in ts : r.tcb[u].stat = k.tcb[u].stat \ {msk} /\ r.tcb[u].pend = stat /\ r.tcb[u].dly = 0
  BY <1>7, <1>8
<1>15. \A f \in DOMAIN k.ev :
         r.ev[f].wait = IF f = e THEN k.ev[e].wait \ {k.tcb[t].prio : t \in ts} ELSE k.ev[f].wait
  BY <1>7, <1>9
<1> QED
  BY <1>3, <1>6, <1>7, <1>12, <1>13, <1>14, <1>15 DEF Readying

\* What every change of one task, or of several, starts from.
LEMMA Basics ==
  ASSUME NEW k, NEW p, TasksInv(k, p)
  PROVE  /\ OsType(k) /\ k.list \subseteq Task /\ k.app \in DOMAIN App /\ App[k.app].dly \in Nat
         /\ k.tcb \in [Task -> TcbType] /\ p \in [Task -> PcType]
         /\ OwnPrioInv(k) /\ ReadyInv(k, p) /\ StatInv(k, p) /\ ListsInv(k, p) /\ IdleInv(k, p)
         /\ \A t, u \in k.list : t # u => k.tcb[t].prio # k.tcb[u].prio
<1>1. OsType(k) /\ k.list \subseteq Task /\ k.app \in DOMAIN App /\ k.tcb \in [Task -> TcbType]
  BY DEF TasksInv, OsType
<1>2. App[k.app].dly \in Nat
  BY <1>1, AppAssumption
<1>3. p \in [Task -> PcType] /\ OwnPrioInv(k) /\ ReadyInv(k, p) /\ StatInv(k, p) /\ ListsInv(k, p) /\ IdleInv(k, p)
  BY DEF TasksInv, ArgInv, TblInv, WaitInv
<1>4. \A t, u \in k.list : t # u => k.tcb[t].prio # k.tcb[u].prio
  BY ONLY <1>3 DEF OwnPrioInv
<1> QED
  BY <1>1, <1>2, <1>3, <1>4

\* A task goes on after its wait.
LEMMA AwakeKeeps ==
  ASSUME NEW k, NEW p, TasksInv(k, p), NEW t \in k.list, t # Idle, Blk(p, t), k.tcb[t].stat = {},
         NEW r, r = Awake(k, t, p[t].ev)
  PROVE  TasksInv(r, p) /\ r.tcb[t].stat = {} /\ r.tcb[t].pend = "ok" /\ Waking(k, r, t, p[t].ev)
<1>1. /\ OsType(k) /\ t \in Task /\ k.list \subseteq Task /\ k.tcb \in [Task -> TcbType]
      /\ StatAt(k, p, t) /\ ReadyInv(k, p) /\ ListsInv(k, p) /\ \A u \in k.list : u # t => k.tcb[u].prio # k.tcb[t].prio
  BY Basics DEF StatInv
<1>2. PICK e, c : e = p[t].ev /\ c = k.tcb[t].prio
  OBVIOUS
<1>3. Pend(k, p, t) <=> k.tcb[t].pend = "to"
  BY DEF Pend
<1>4. k.tcb[t].pend = "to" => e \in DOMAIN k.ev
  BY <1>1, <1>2, <1>3 DEF StatAt
<1>5. Waking(k, r, t, e)
  BY <1>1, <1>2, <1>4, AwakeIs
<1>6. /\ OsType(r) /\ KeepsTasks(k, r) /\ KeepsEcbs(k, r) /\ r.rdy = k.rdy
      /\ \A u \in Task : u # t => r.tcb[u] = k.tcb[u]
      /\ r.tcb[t].stat = {} /\ r.tcb[t].pend = "ok" /\ r.tcb[t].dly = k.tcb[t].dly
      /\ \A f \in DOMAIN k.ev :
           r.ev[f].wait = IF f = e /\ k.tcb[t].pend = "to" THEN k.ev[e].wait \ {c} ELSE k.ev[f].wait
  BY <1>2, <1>5 DEF Waking
<1>7. KeepsTypes(k, r) /\ r.tcb[t].prio = c /\ DOMAIN r.ev = DOMAIN k.ev
  BY <1>1, <1>2, <1>6 DEF KeepsTypes, KeepsEcbs, KeepsTasks
<1>8. p[t].at # "delete" => ReadyAt(r, t)
  <2>1. p[t].at # "delete" => ReadyAt(k, t)
    BY <1>1 DEF ReadyInv, Living
  <2> QED
    BY <1>2, <1>6, <1>7, <2>1 DEF ReadyAt
<1>9. StatAt(r, p, t) /\ ~ Pend(r, p, t)
  BY <1>6 DEF StatAt, Pend
<1>10. ASSUME NEW f \in DOMAIN k.ev
       PROVE  ListedAt(r, p, f, t)
  <2>1. ListedAt(k, p, f, t)
    BY <1>1 DEF ListsInv
  <2> QED
    BY <1>2, <1>3, <1>6, <1>7, <1>9, <2>1 DEF ListedAt
<1>11. Settled(r, p, t)
  BY <1>7, <1>8, <1>9, <1>10 DEF Settled
<1>12. PICK ts \in SUBSET (k.list \ {Idle}) : ts = {t}
  OBVIOUS
<1>13. \A u \in k.list \ ts : /\ k.tcb[u].prio \in r.rdy <=> k.tcb[u].prio \in k.rdy
                              /\ \A f \in DOMAIN k.ev : k.tcb[u].prio \in r.ev[f].wait <=> k.tcb[u].prio \in k.ev[f].wait
  BY <1>1, <1>2, <1>6, <1>12
<1>14. \A f \in DOMAIN k.ev : \A x \in r.ev[f].wait \ k.ev[f].wait : \E u \in ts : k.tcb[u].prio = x
  BY <1>6
<1>15. \A x \in r.rdy \ k.rdy : \E u \in ts : p[u].at # "delete" /\ k.tcb[u].prio = x
  BY <1>6
<1>16. \A u \in ts : r.tcb[u].dly <= App[k.app].dly /\ Settled(r, p, u)
  BY <1>1, <1>6, <1>11, <1>12 DEF TasksInv, DlyInv
<1>17. \A u \in Task \ ts : r.tcb[u] = k.tcb[u]
  BY <1>6, <1>12
<1>18. TasksInv(r, p)
  BY ONLY TasksInv(k, p), <1>6, <1>7, <1>13, <1>14, <1>15, <1>16, <1>17, Changed
<1> QED
  BY <1>2, <1>5, <1>6, <1>18

\* Waiters of an event are readied.
Waiters(k, p, e) == {u \in k.list : Pend(k, p, u) /\ p[u].ev = e}
LEMMA ReadiedKeeps ==
  ASSUME NEW k, NEW p, TasksInv(k, p), NEW e \in DOMAIN k.ev, NEW ts \in SUBSET Waiters(k, p, e),
         NEW msg \in Letter \cup {Null}, NEW stat \in {"ok", "abort"},
         NEW msk \in Kinds, k.ev[e].type = msk, NEW r, r = Readied(k, e, ts, msg, msk, stat)
  PROVE  TasksInv(r, p) /\ Readying(k, r, e, ts, msk, stat)
<1>1. /\ OsType(k) /\ k.list \subseteq Task /\ k.tcb \in [Task -> TcbType] /\ App[k.app].dly \in Nat
      /\ StatInv(k, p) /\ ReadyInv(k, p) /\ ListsInv(k, p) /\ p[Idle].at = "app"
      /\ \A t, u \in k.list : t # u => k.tcb[t].prio # k.tcb[u].prio
  BY Basics DEF IdleInv
<1>2. ts \subseteq k.list /\ ts \in SUBSET Task /\ ts \in SUBSET (k.list \ {Idle})
      /\ \A u \in ts : Pend(k, p, u) /\ Blk(p, u) /\ p[u].ev = e /\ p[u].at # "delete"
  BY <1>1 DEF Waiters, Pend, Blk
<1>3. Readying(k, r, e, ts, msk, stat)
  BY <1>1, <1>2, ReadiedIs
<1>4. /\ OsType(r) /\ KeepsTasks(k, r) /\ KeepsEcbs(k, r)
      /\ r.rdy = k.rdy \cup {k.tcb[t].prio : t \in {u \in ts : "suspend" \notin k.tcb[u].stat}}
      /\ \A u \in Task \ ts : r.tcb[u] = k.tcb[u]
      /\ \A u \in ts : r.tcb[u].stat = k.tcb[u].stat \ {msk} /\ r.tcb[u].pend = stat /\ r.tcb[u].dly = 0
      /\ \A f \in DOMAIN k.ev :
           r.ev[f].wait = IF f = e THEN k.ev[e].wait \ {k.tcb[t].prio : t \in ts} ELSE k.ev[f].wait
  BY <1>3 DEF Readying
<1>5. KeepsTypes(k, r) /\ (\A u \in k.list : r.tcb[u].prio = k.tcb[u].prio) /\ DOMAIN r.ev = DOMAIN k.ev
  BY <1>1, <1>4 DEF KeepsTypes, KeepsEcbs, KeepsTasks
<1>11. PICK ps : ps = {k.tcb[t].prio : t \in ts}
  OBVIOUS
<1>12. \A f \in DOMAIN k.ev : r.ev[f].wait = IF f = e THEN k.ev[e].wait \ ps ELSE k.ev[f].wait
  BY ONLY <1>4, <1>11
<1>6. ASSUME NEW u \in ts
      PROVE  Settled(r, p, u) /\ r.tcb[u].dly <= App[k.app].dly
  <2>1. u \in k.list /\ StatAt(k, p, u) /\ ReadyAt(k, u) /\ \A f \in DOMAIN k.ev : ListedAt(k, p, f, u)
    BY <1>1, <1>2 DEF StatInv, ReadyInv, Living, ListsInv
  <2>2. p[u].svc = msk /\ p[u].ev = e /\ Blk(p, u) /\ Pend(k, p, u)
    BY <1>2, <2>1 DEF StatAt
  <2>3. r.tcb[u].stat = {} <=> "suspend" \notin k.tcb[u].stat
    BY <1>4, <2>1, <2>2, msk # "suspend" DEF StatAt, Kinds
  <2>4. r.tcb[u].stat \cap Kinds = {}
    BY <1>4, <2>1, <2>2 DEF StatAt, Kinds
  <2>5. r.tcb[u].prio \in r.rdy <=> "suspend" \notin k.tcb[u].stat
    <3>1. "suspend" \in k.tcb[u].stat => k.tcb[u].prio \notin k.rdy
      BY <2>1 DEF ReadyAt
    <3>2. \A v \in ts : k.tcb[v].prio = k.tcb[u].prio => v = u
      BY <1>1, <1>2
    <3> QED
      BY <1>4, <1>5, <2>1, <3>1, <3>2
  <2>6. ReadyAt(r, u)
    BY <1>4, <2>3, <2>5 DEF ReadyAt
  <2>7. StatAt(r, p, u) /\ ~ Pend(r, p, u)
    BY <1>4, <2>1, <2>2, <2>4 DEF StatAt, Pend
  <2>8. ASSUME NEW f \in DOMAIN k.ev
        PROVE  ListedAt(r, p, f, u)
    <3>1. ListedAt(k, p, f, u) /\ r.tcb[u].prio = k.tcb[u].prio /\ k.tcb[u].prio \in ps
      BY <1>5, <1>11, <2>1
    <3> QED
      BY ONLY <1>12, <2>2, <2>7, <2>8, <3>1 DEF ListedAt
  <2> QED
    BY <1>1, <1>4, <1>5, <2>6, <2>7, <2>8 DEF Settled
<1>7. ASSUME NEW u \in k.list \ ts
      PROVE  /\ k.tcb[u].prio \in r.rdy <=> k.tcb[u].prio \in k.rdy
             /\ \A f \in DOMAIN k.ev : k.tcb[u].prio \in r.ev[f].wait <=> k.tcb[u].prio \in k.ev[f].wait
  <2>1. \A v \in ts : k.tcb[v].prio # k.tcb[u].prio
    BY <1>1, <1>2
  <2>2. k.tcb[u].prio \in r.rdy <=> k.tcb[u].prio \in k.rdy
    BY <1>4, <2>1
  <2>3. k.tcb[u].prio \notin ps
    BY <1>11, <2>1
  <2> QED
    BY <1>12, <2>2, <2>3
<1>8. \A f \in DOMAIN k.ev : \A x \in r.ev[f].wait \ k.ev[f].wait : \E u \in ts : k.tcb[u].prio = x
  BY <1>4
<1>9. \A x \in r.rdy \ k.rdy : \E u \in ts : p[u].at # "delete" /\ k.tcb[u].prio = x
  BY <1>2, <1>4
<1>10. TasksInv(r, p)
  BY ONLY TasksInv(k, p), <1>2, <1>4, <1>5, <1>6, <1>7, <1>8, <1>9, Changed
<1> QED
  BY <1>3, <1>10

\* Time goes on for the tasks ts, or the delays of some of them end.
Past(c, d) == /\ c.dly > 0
              /\ d = DelayOver(c) \/ (c.dly > 1 /\ d = [c EXCEPT !.dly = @ - 1])
Passed(c, d) ==
         /\ d \in TcbType /\ d.prio = c.prio /\ d.dly < c.dly
         /\ d.dly = 0 => d.stat = c.stat \ Kinds /\ d.pend = IF c.stat \cap Kinds # {} THEN "to" ELSE "ok"
         /\ d.dly # 0 => d.stat = c.stat /\ d.pend = c.pend
LEMMA PastIs == ASSUME NEW c \in TcbType, NEW d, Past(c, d) PROVE Passed(c, d)
<1>1. c.stat \cap PendAny = c.stat \cap Kinds /\ c.stat \ PendAny = c.stat \ Kinds
  BY DEF TcbType, Kinds, PendAny
<1>2. CASE d = DelayOver(c)
  BY <1>1, <1>2 DEF DelayOver, TcbType, Past, Passed
<1>3. CASE c.dly > 1 /\ d = [c EXCEPT !.dly = @ - 1]
  BY <1>3 DEF TcbType, Passed
<1> QED
  BY <1>2, <1>3 DEF Past

Elapsing(k, p, ts, r) ==
  /\ ts \in SUBSET (k.list \ {Idle}) /\ Shape(r) /\ r.app = k.app /\ r.tbl = k.tbl /\ r.list = k.list /\ r.free = k.free
  /\ r.ev = k.ev /\ r.evfree = k.evfree /\ r.cur = k.cur /\ r.prioCur = k.prioCur /\ r.lock = k.lock
  /\ \A u \in ts : p[u].at # "delete" /\ Past(k.tcb[u], r.tcb[u])
  /\ DOMAIN r.tcb = Task /\ r.tcb = [t \in Task |-> r.tcb[t]] /\ \A u \in Task \ ts : r.tcb[u] = k.tcb[u]
  /\ r.rdy = k.rdy \cup {k.tcb[t].prio : t \in {u \in ts : r.tcb[u].dly = 0 /\ "suspend" \notin k.tcb[u].stat}}
LEMMA TickKeeps ==
  ASSUME NEW k, NEW p, TasksInv(k, p), NEW ts, NEW r, Elapsing(k, p, ts, r)
  PROVE  TasksInv(r, p)
<1> USE DEF Elapsing
<1>1. /\ OsType(k) /\ k.list \subseteq Task /\ k.tcb \in [Task -> TcbType] /\ App[k.app].dly \in Nat
      /\ StatInv(k, p) /\ ReadyInv(k, p) /\ ListsInv(k, p)
      /\ \A t, u \in k.list : t # u => k.tcb[t].prio # k.tcb[u].prio
  BY Basics
<1>2. ASSUME NEW u \in Task
      PROVE  r.tcb[u] \in TcbType /\ r.tcb[u].prio = k.tcb[u].prio /\ r.tcb[u].dly <= k.tcb[u].dly
  <2>1. CASE u \in ts
    <3>1. Passed(k.tcb[u], r.tcb[u])
      BY <1>1, <2>1, PastIs
    <3> QED
      BY <1>1, <3>1 DEF Passed, TcbType
  <2>2. CASE u \notin ts
    BY <1>1, <2>2 DEF TcbType
  <2> QED
    BY <2>1, <2>2
<1>3. KeepsTasks(k, r) /\ KeepsTypes(k, r)
  BY <1>2 DEF KeepsTasks, KeepsTypes
<1>4. OsType(r)
  <2>1. r.tcb \in [Task -> TcbType]
    BY <1>2
  <2>2. r.rdy \subseteq Prio
    BY <1>1 DEF TcbType, OsType
  <2> QED
    BY <1>1, <2>1, <2>2 DEF OsType
<1>5. ASSUME NEW u \in ts
      PROVE  Settled(r, p, u) /\ r.tcb[u].dly <= App[k.app].dly
  <2>1. u \in k.list /\ StatAt(k, p, u) /\ ReadyAt(k, u) /\ \A f \in DOMAIN k.ev : ListedAt(k, p, f, u)
    BY <1>1 DEF StatInv, ReadyInv, Living, ListsInv
  <2>2. PICK c \in TcbType, d \in TcbType : c = k.tcb[u] /\ d = r.tcb[u]
    BY <1>1, <1>2
  <2>3. Past(c, d) /\ c.dly > 0 /\ d.prio = c.prio /\ d.dly < c.dly
        /\ (d.dly = 0 => d.stat = c.stat \ Kinds /\ d.pend = IF c.stat \cap Kinds # {} THEN "to" ELSE "ok")
        /\ (d.dly # 0 => d.stat = c.stat /\ d.pend = c.pend)
    <3>1. Past(c, d) /\ Passed(c, d)
      BY <2>2, PastIs
    <3> QED
      BY ONLY <3>1 DEF Past, Passed
  <2>4. c.pend = "ok"
    BY <2>1, <2>2, <2>3 DEF StatAt
  <2>5. c.stat \subseteq {"suspend"} \cup Kinds /\ c.prio \notin k.rdy
    BY <2>1, <2>2, <2>3 DEF TcbType, ReadyAt
  <2>6. d.prio \in r.rdy <=> d.dly = 0 /\ "suspend" \notin c.stat
    <3>1. \A v \in ts : k.tcb[v].prio = c.prio => v = u
      BY <1>1, <2>1, <2>2
    <3>2. d.prio \in r.rdy <=> \E v \in ts : k.tcb[v].prio = c.prio /\ r.tcb[v].dly = 0 /\ "suspend" \notin k.tcb[v].stat
      BY <2>3, <2>5
    <3> QED
      BY ONLY <2>2, <3>1, <3>2, u \in ts
  <2>7. ReadyAt(r, u)
    <3>1. d.dly = 0 => (d.stat = {} <=> "suspend" \notin c.stat)
      BY ONLY <2>3, <2>5 DEF Kinds
    <3> QED
      BY ONLY <2>2, <2>6, <3>1 DEF ReadyAt
  <2>8. Pend(r, p, u) <=> Pend(k, p, u)
    BY <2>2, <2>3, <2>4 DEF Pend
  <2>9. StatAt(r, p, u)
    <3>1. d.stat \subseteq c.stat /\ (d.pend # "ok" => d.dly = 0 /\ d.stat \cap Kinds = {} /\ c.stat \cap Kinds # {})
      BY <2>3, <2>4
    <3>2. c.stat \cap Kinds # {} => Blk(p, u)
      BY <2>1, <2>2 DEF StatAt, Kinds
    <3> QED
      BY <2>1, <2>2, <2>8, <3>1, <3>2 DEF StatAt
  <2>10. \A f \in DOMAIN r.ev : ListedAt(r, p, f, u)
    BY <2>1, <2>2, <2>3, <2>8 DEF ListedAt
  <2>11. d.dly <= App[k.app].dly
    <3>1. c.dly <= App[k.app].dly
      BY <1>1, <2>2 DEF TasksInv, DlyInv
    <3> QED
      BY <1>1, <2>2, <2>3, <3>1 DEF TcbType
  <2> QED
    BY <2>2, <2>7, <2>9, <2>10, <2>11 DEF Settled
<1>6. ASSUME NEW u \in k.list \ ts
      PROVE  k.tcb[u].prio \in r.rdy <=> k.tcb[u].prio \in k.rdy
  <2>1. \A v \in ts : k.tcb[v].prio # k.tcb[u].prio
    BY <1>1
  <2> QED
    BY <2>1
<1>7. \A x \in r.rdy \ k.rdy : \E u \in ts : p[u].at # "delete" /\ k.tcb[u].prio = x
  OBVIOUS
<1>8. \A f \in DOMAIN k.ev : r.ev[f].wait = k.ev[f].wait
  OBVIOUS
<1>9. \A u \in k.list \ ts : /\ k.tcb[u].prio \in r.rdy <=> k.tcb[u].prio \in k.rdy
                             /\ \A f \in DOMAIN k.ev : k.tcb[u].prio \in r.ev[f].wait <=> k.tcb[u].prio \in k.ev[f].wait
  BY ONLY <1>6, <1>8
<1>10. \A f \in DOMAIN k.ev : \A x \in r.ev[f].wait \ k.ev[f].wait : \E u \in ts : k.tcb[u].prio = x
  BY ONLY <1>8
<1>11. \A u \in Task \ ts : r.tcb[u] = k.tcb[u]
  OBVIOUS
<1>12. ts \in SUBSET (k.list \ {Idle})
  OBVIOUS
<1> QED
  BY ONLY TasksInv(k, p), <1>3, <1>4, <1>5, <1>7, <1>9, <1>10, <1>11, <1>12, Changed
-----------------------------------------------------------------------------
\* Free lists: something is put in front, or taken from there.
Pushed(S, s, x, z) == /\ z \in Seq(S) /\ ToSet(z) = ToSet(s) \cup {x}
                      /\ IsInjective(s) /\ x \notin ToSet(s) => IsInjective(z)
LEMMA Push ==
  ASSUME NEW S, NEW s \in Seq(S), NEW x \in S
  PROVE  Pushed(S, s, x, <<x>> \o s)
<1> DEFINE z == <<x>> \o s
<1>1. /\ z \in Seq(S) /\ Len(z) = Len(s) + 1 /\ z[1] = x /\ \A i \in 1 .. Len(s) : z[i + 1] = s[i]
      /\ DOMAIN s = 1 .. Len(s) /\ DOMAIN z = 1 .. Len(z) /\ Len(s) \in Nat
  OBVIOUS
<1> HIDE DEF z
<1>2. \A m \in DOMAIN z : m # 1 => m - 1 \in DOMAIN s /\ z[m] = s[m - 1]
  <2>1. TAKE m \in DOMAIN z
  <2>2. HAVE m # 1
  <2>3. PICK i \in 1 .. Len(s) : i = m - 1
    BY <1>1, <2>2
  <2>4. z[i + 1] = s[i] /\ i + 1 = m
    BY <1>1, <2>3
  <2> QED
    BY <1>1, <2>3, <2>4
<1>3. \A i \in DOMAIN s : i + 1 \in DOMAIN z /\ z[i + 1] = s[i]
  BY <1>1
<1>4. 1 \in DOMAIN z
  BY <1>1
<1>5. ToSet(z) \subseteq ToSet(s) \cup {x}
  BY <1>1, <1>2 DEF ToSet
<1>6. ToSet(s) \cup {x} \subseteq ToSet(z)
  <2>1. x \in ToSet(z)
    BY <1>1, <1>4 DEF ToSet
  <2>2. ASSUME NEW y \in ToSet(s)
        PROVE  y \in ToSet(z)
    <3>1. PICK i \in DOMAIN s : y = s[i]
      BY DEF ToSet
    <3>2. y = z[i + 1] /\ i + 1 \in DOMAIN z
      BY <1>3, <3>1
    <3> QED
      BY <3>2 DEF ToSet
  <2> QED
    BY <2>1, <2>2
<1>7. ASSUME IsInjective(s), x \notin ToSet(s), NEW i \in DOMAIN z, NEW j \in DOMAIN z, z[i] = z[j]
      PROVE  i = j
  <2>1. \A m \in DOMAIN s : s[m] # x
    BY <1>7 DEF ToSet
  <2>2. \A m, n \in DOMAIN s : s[m] = s[n] => m = n
    BY <1>7 DEF IsInjective
  <2>3. i = 1 <=> j = 1
    BY <1>1, <1>2, <1>7, <2>1
  <2>4. i # 1 /\ j # 1 => i - 1 = j - 1
    BY <1>2, <1>7, <2>2
  <2> QED
    BY <1>1, <2>3, <2>4
<1>8. Pushed(S, s, x, z)
  BY <1>1, <1>5, <1>6, <1>7 DEF IsInjective, Pushed
<1> QED
  BY <1>8 DEF z

Popped(S, s, z) == /\ z \in Seq(S) /\ IsInjective(z) /\ Head(s) \in S
                   /\ Head(s) \in ToSet(s) /\ ToSet(z) = ToSet(s) \ {Head(s)}
LEMMA Pop ==
  ASSUME NEW S, NEW s \in Seq(S), s # <<>>, IsInjective(s)
  PROVE  Popped(S, s, Tail(s))
<1> DEFINE z == Tail(s)
<1>1. /\ z \in Seq(S) /\ Len(z) = Len(s) - 1 /\ Head(s) = s[1] /\ \A i \in 1 .. Len(z) : z[i] = s[i + 1]
      /\ DOMAIN s = 1 .. Len(s) /\ DOMAIN z = 1 .. Len(z) /\ Len(s) \in Nat /\ Len(s) > 0 /\ Head(s) \in S
  OBVIOUS
<1> HIDE DEF z
<1>2. \A m, n \in DOMAIN s : s[m] = s[n] => m = n
  BY DEF IsInjective
<1>3. \A i \in DOMAIN z : i + 1 \in DOMAIN s /\ i + 1 # 1 /\ z[i] = s[i + 1]
  BY <1>1
<1>4. 1 \in DOMAIN s
  BY <1>1
<1>5. IsInjective(z)
  <2>1. ASSUME NEW i \in DOMAIN z, NEW j \in DOMAIN z, z[i] = z[j]
        PROVE  i = j
    <3>1. i + 1 = j + 1
      BY <1>2, <1>3, <2>1
    <3> QED
      BY <1>1, <3>1
  <2> QED
    BY <2>1 DEF IsInjective
<1>6. Head(s) \in ToSet(s)
  BY <1>1, <1>4 DEF ToSet
<1>7. ASSUME NEW y \in ToSet(z)
      PROVE  y \in ToSet(s) /\ y # Head(s)
  <2>1. PICK i \in DOMAIN z : y = z[i]
    BY <1>7 DEF ToSet
  <2>2. i + 1 \in DOMAIN s /\ y = s[i + 1] /\ i + 1 # 1
    BY <1>3, <2>1
  <2>3. y # s[1]
    BY <1>2, <1>4, <2>2
  <2> QED
    BY <1>1, <2>2, <2>3 DEF ToSet
<1>8. ASSUME NEW y \in ToSet(s), y # Head(s)
      PROVE  y \in ToSet(z)
  <2>1. PICK i \in DOMAIN s : y = s[i]
    BY <1>8 DEF ToSet
  <2>2. PICK j \in DOMAIN z : j = i - 1
    BY <1>1, <1>8, <2>1
  <2>3. z[j] = s[j + 1] /\ j + 1 = i
    BY <1>1, <1>3, <2>2
  <2> QED
    BY <2>1, <2>3 DEF ToSet
<1>9. Popped(S, s, z)
  BY <1>1, <1>5, <1>6, <1>7, <1>8 DEF Popped
<1> QED
  BY <1>9 DEF z

\* One task is suspended, resumed, delayed or asked to delete itself: d is its
\* control block then.
OneTask(k, p, t, d, r) ==
  /\ t \in k.list /\ t # Idle /\ p[t].at # "delete" /\ d \in TcbType
  /\ d.prio = k.tcb[t].prio /\ d.pend = k.tcb[t].pend /\ d.stat \ {"suspend"} = k.tcb[t].stat \ {"suspend"}
  /\ d.dly <= App[k.app].dly /\ (d.pend # "ok" => d.dly = 0)
  /\ Shape(r) /\ r.app = k.app /\ r.tbl = k.tbl /\ r.list = k.list /\ r.free = k.free /\ r.ev = k.ev
  /\ r.evfree = k.evfree /\ r.cur = k.cur /\ r.prioCur = k.prioCur /\ r.lock = k.lock
  /\ r.tcb = [k.tcb EXCEPT ![t] = d]
  /\ r.rdy = IF d.dly = 0 /\ d.stat = {} THEN k.rdy \cup {k.tcb[t].prio} ELSE k.rdy \ {k.tcb[t].prio}
LEMMA OneKeeps ==
  ASSUME NEW k, NEW p, TasksInv(k, p), NEW t, NEW d, NEW r, OneTask(k, p, t, d, r)
  PROVE  TasksInv(r, p)
<1> SUFFICES
      ASSUME t \in k.list, t # Idle, p[t].at # "delete", NEW c, c = k.tcb[t], d \in TcbType,
             d.prio = c.prio, d.pend = c.pend, d.stat \ {"suspend"} = c.stat \ {"suspend"},
             d.dly <= App[k.app].dly, d.pend # "ok" => d.dly = 0, Shape(r),
             r.app = k.app, r.tbl = k.tbl, r.list = k.list, r.free = k.free, r.ev = k.ev, r.evfree = k.evfree,
             r.cur = k.cur, r.prioCur = k.prioCur, r.lock = k.lock, r.tcb = [k.tcb EXCEPT ![t] = d],
             r.rdy = IF d.dly = 0 /\ d.stat = {} THEN k.rdy \cup {c.prio} ELSE k.rdy \ {c.prio}
      PROVE  TasksInv(r, p)
  BY DEF OneTask
<1>1. /\ OsType(k) /\ k.list \subseteq Task /\ t \in Task /\ k.tcb \in [Task -> TcbType] /\ App[k.app].dly \in Nat
      /\ StatAt(k, p, t) /\ ListsInv(k, p) /\ \A u \in k.list : u # t => k.tcb[t].prio # k.tcb[u].prio
  BY Basics DEF StatInv
<1>2. /\ r.tcb \in [Task -> TcbType] /\ r.tcb[t] = d /\ \A u \in Task : u # t => r.tcb[u] = k.tcb[u]
  BY <1>1
<1>3. \A u \in Task : r.tcb[u].prio = k.tcb[u].prio
  BY <1>2
<1>4. KeepsTasks(k, r) /\ KeepsTypes(k, r)
  BY <1>3 DEF KeepsTasks, KeepsTypes
<1>5. OsType(r)
  <2>1. r.rdy \subseteq Prio
    BY <1>1 DEF TcbType, OsType
  <2> QED
    BY <1>1, <1>2, <2>1 DEF OsType
<1>6. ReadyAt(r, t)
  BY <1>2 DEF ReadyAt
<1>7. d.stat \cap Kinds = c.stat \cap Kinds
  BY DEF Kinds
<1>8. Pend(r, p, t) <=> Pend(k, p, t)
  BY <1>2, <1>7 DEF Pend
<1>9. StatAt(r, p, t)
  <2>1. d.stat \subseteq c.stat \cup {"suspend"}
    OBVIOUS
  <2> QED
    BY <1>1, <1>2, <1>7, <1>8, <2>1 DEF StatAt
<1>10. \A f \in DOMAIN r.ev : ListedAt(r, p, f, t)
  BY <1>1, <1>2, <1>8 DEF ListsInv, ListedAt
<1>11. Settled(r, p, t)
  BY <1>6, <1>9, <1>10 DEF Settled
<1>12. PICK ts \in SUBSET (k.list \ {Idle}) : ts = {t}
  OBVIOUS
<1>13. \A u \in k.list \ ts : /\ k.tcb[u].prio \in r.rdy <=> k.tcb[u].prio \in k.rdy
                              /\ \A f \in DOMAIN k.ev : k.tcb[u].prio \in r.ev[f].wait <=> k.tcb[u].prio \in k.ev[f].wait
  BY <1>1, <1>12
<1>14. \A f \in DOMAIN k.ev : \A x \in r.ev[f].wait \ k.ev[f].wait : \E u \in ts : k.tcb[u].prio = x
  OBVIOUS
<1>15. \A x \in r.rdy \ k.rdy : \E u \in ts : p[u].at # "delete" /\ k.tcb[u].prio = x
  BY <1>12
<1>16. \A u \in ts : r.tcb[u].dly <= App[k.app].dly /\ Settled(r, p, u)
  BY <1>2, <1>11, <1>12
<1>17. \A u \in Task \ ts : r.tcb[u] = k.tcb[u]
  BY <1>2, <1>12
<1> QED
  BY ONLY TasksInv(k, p), <1>4, <1>5, <1>13, <1>14, <1>15, <1>16, <1>17, Changed

\* The control block of an event that nobody waits for and no other call is on
\* goes back to the free list.
LEMMA FreeEcbKeeps ==
  ASSUME NEW k, NEW p, TasksInv(k, p), NEW e \in DOMAIN k.ev, k.ev[e].type # "unused", k.ev[e].wait = {},
         \A t \in k.list : p[t].at \in OnEvent => p[t].ev # e,
         NEW r, r = FreeEcb(k, e)
  PROVE  /\ TasksInv(r, p) /\ KeepsCpu(k, r) /\ r.rdy = k.rdy /\ r.tcb = k.tcb /\ r.list = k.list /\ r.tbl = k.tbl
         /\ r.app = k.app /\ DOMAIN r.ev = DOMAIN k.ev /\ r.ev[e].type = "unused" /\ r.ev[e].wait = {}
         /\ \A f \in DOMAIN k.ev : f # e => r.ev[f] = k.ev[f]
<1>1. /\ OsType(k) /\ Shape(k) /\ k.list \subseteq Task /\ k.ev \in [DOMAIN k.ev -> EcbType]
      /\ k.evfree \in Seq(DOMAIN k.ev) /\ StatInv(k, p) /\ ReadyInv(k, p) /\ ListsInv(k, p) /\ TblInv(k, p)
      /\ CallInv(k, p) /\ EcbInv(k, p) /\ IdleInv(k, p)
  BY DEF TasksInv, OsType, WaitInv
<1>2. PICK u : u = [Unused EXCEPT !.wait = k.ev[e].wait]
  OBVIOUS
<1>3. u \in EcbType /\ u.type = "unused" /\ u.wait = {}
  BY <1>2 DEF Unused, EcbType
<1>4. PICK E, F : E = [k.ev EXCEPT ![e] = u] /\ F = <<e>> \o k.evfree
  OBVIOUS
<1>5. r = [k EXCEPT !.ev = E, !.evfree = F]
  BY <1>1, <1>2, <1>4 DEF FreeEcb, Shape
<1>6. /\ Shape(r) /\ r.tcb = k.tcb /\ r.app = k.app /\ r.rdy = k.rdy /\ r.tbl = k.tbl /\ r.list = k.list
      /\ r.free = k.free /\ r.ev = E /\ r.evfree = F
      /\ r.cur = k.cur /\ r.prioCur = k.prioCur /\ r.lock = k.lock
  BY ONLY <1>1, <1>5 DEF Shape
<1>7. E \in [DOMAIN k.ev -> EcbType] /\ E[e] = u /\ \A f \in DOMAIN k.ev : f # e => E[f] = k.ev[f]
  BY <1>1, <1>3, <1>4
<1>8. F \in Seq(DOMAIN k.ev) /\ ToSet(F) = ToSet(k.evfree) \cup {e}
      /\ (IsInjective(k.evfree) /\ e \notin ToSet(k.evfree) => IsInjective(F))
  <2>1. Pushed(DOMAIN k.ev, k.evfree, e, F)
    BY <1>1, <1>4, Push
  <2> QED
    BY <2>1 DEF Pushed
<1>9. OsType(r)
  BY <1>1, <1>6, <1>7, <1>8 DEF OsType
<1>10. ReadyInv(r, p)
  <2>1. Living(r, p) = Living(k, p)
    BY <1>6 DEF Living
  <2> QED
    BY ONLY <1>1, <1>6, <2>1 DEF ReadyInv, ReadyAt
<1>11. \A t : Pend(r, p, t) <=> Pend(k, p, t)
  BY <1>6 DEF Pend
<1>12. ASSUME NEW t \in k.list
       PROVE  StatAt(r, p, t) /\ \A f \in DOMAIN k.ev : ListedAt(r, p, f, t)
  <2>1. StatAt(k, p, t) /\ \A f \in DOMAIN k.ev : ListedAt(k, p, f, t)
    BY <1>1 DEF StatInv, ListsInv
  <2>2. Pend(k, p, t) => p[t].ev # e
    BY <2>1 DEF StatAt, ListedAt
  <2>3. StatAt(r, p, t)
    BY <1>6, <1>7, <1>11, <2>1, <2>2 DEF StatAt
  <2> QED
    BY <1>3, <1>6, <1>7, <1>11, <2>1, <2>3 DEF ListedAt
<1>13. WaitInv(r, p)
  <2>1. \A f \in DOMAIN k.ev : r.ev[f].wait = k.ev[f].wait
    BY <1>3, <1>6, <1>7
  <2>2. DOMAIN r.ev = DOMAIN k.ev
    BY <1>6, <1>7
  <2>3. ListsInv(r, p)
    BY ONLY <1>1, <1>6, <1>12, <2>1, <2>2 DEF ListsInv
  <2>4. StatInv(r, p)
    BY <1>6, <1>12 DEF StatInv
  <2> QED
    BY <2>3, <2>4 DEF WaitInv
<1>14. CallInv(r, p)
  BY <1>1, <1>6, <1>7 DEF CallInv
<1>15. EcbInv(r, p)
  <2>1. IsInjective(F)
    BY <1>1, <1>8 DEF EcbInv
  <2>4. DOMAIN r.ev = DOMAIN k.ev /\ r.evfree = F /\ r.list = k.list
    BY <1>6, <1>7
  <2>5. ASSUME NEW t \in k.list, p[t].at = "qcreate"
        PROVE  p[t].ev # e
    BY <1>1, <2>5 DEF EcbInv
  <2> QED
    BY <1>1, <1>3, <1>6, <1>7, <1>8, <2>1, <2>4, <2>5 DEF EcbInv
<1>16. IdleInv(r, p) /\ DlyInv(r) /\ ArgInv(r.app, p) /\ App[r.app].ops \cap Others = {}
  BY <1>6 DEF TasksInv, IdleInv, DlyInv
<1>17. TblInv(r, p)
  <2>1. Creators(r, p) = Creators(k, p) /\ Linkers(r, p) = Linkers(k, p)
    BY <1>6 DEF Creators, Linkers
  <2> QED
    BY ONLY <1>1, <1>6, <2>1 DEF TblInv, OwnPrioInv, AsideInv, BlocksInv
<1>18. TasksInv(r, p)
  BY <1>9, <1>10, <1>13, <1>14, <1>15, <1>16, <1>17 DEF TasksInv
<1> QED
  BY <1>3, <1>6, <1>7, <1>18 DEF KeepsCpu
-----------------------------------------------------------------------------
\* A control block for an event is taken, given its type or put back.
Allotting(k, p, t, x, s, r, e) ==
  /\ TasksInv(k, p)
  /\ t \in k.list
  /\ t # Idle
  /\ p[t].at \in {"app", "qcreate"}
  /\ x \in PcType
  /\ x.at \in {"app", "qcreate"}
  /\ s = [p EXCEPT ![t] = x]
  /\ OsType(r)
  /\ r.app = k.app
  /\ r.rdy = k.rdy
  /\ r.tbl = k.tbl
  /\ r.tcb = k.tcb
  /\ r.list = k.list
  /\ r.free = k.free
  /\ DOMAIN r.ev = DOMAIN k.ev
  /\ e \in DOMAIN k.ev
  /\ k.ev[e].type = "unused"
  /\ r.ev[e].wait = {}
  /\ \A f \in DOMAIN k.ev : f # e => r.ev[f] = k.ev[f]
  /\ EcbInv(r, s)
LEMMA EventMade ==
  ASSUME NEW k, NEW p, NEW t, NEW x, NEW s, NEW r, NEW e, Allotting(k, p, t, x, s, r, e)
  PROVE  TasksInv(r, s)
<1> SUFFICES ASSUME TasksInv(k, p), t \in k.list, t # Idle, p[t].at \in {"app", "qcreate"}, x \in PcType,
                    x.at \in {"app", "qcreate"}, s = [p EXCEPT ![t] = x], OsType(r), r.app = k.app, r.rdy = k.rdy,
                    r.tbl = k.tbl, r.tcb = k.tcb, r.list = k.list, r.free = k.free, DOMAIN r.ev = DOMAIN k.ev,
                    e \in DOMAIN k.ev, k.ev[e].type = "unused", r.ev[e].wait = {},
                    \A f \in DOMAIN k.ev : f # e => r.ev[f] = k.ev[f], EcbInv(r, s)
             PROVE  TasksInv(r, s)
  BY DEF Allotting
<1>1. /\ OsType(k) /\ k.list \subseteq Task /\ p \in [Task -> PcType] /\ ArgInv(k.app, p)
      /\ StatInv(k, p) /\ ReadyInv(k, p) /\ ListsInv(k, p) /\ TblInv(k, p) /\ IdleInv(k, p) /\ CallInv(k, p)
  BY DEF TasksInv, OsType, ArgInv, WaitInv
<1>2. s[t] = x /\ \A u \in Task : u # t => s[u] = p[u]
  BY <1>1
<1>3. x.at \notin Creating \cup OnEvent \cup PendStage \cup SemStage \cup MboxStage \cup QStage
                  \cup {"delete", "block", "wake", "semset", "mboxpost", "mboxopt", "qpost", "qpostfront", "qopt"}
      /\ p[t].at \notin Creating \cup OnEvent \cup {"delete", "block", "wake"}
  BY DEF Creating, OnEvent, PendStage, SemStage, MboxStage, QStage
<1>4. ArgInv(r.app, s)
  BY <1>1, <1>2, <1>3 DEF ArgInv, Blk
<1>5. IdleInv(r, s) /\ DlyInv(r) /\ App[r.app].ops \cap Others = {}
  BY <1>1, <1>2, CoreAssumption DEF IdleInv, TasksInv, DlyInv
<1>6. TblInv(r, s)
  <2>1. TblInv(k, s)
    <3>1. OsType(k) /\ p \in [Task -> PcType] /\ t \in Task /\ x \in PcType /\ s = [p EXCEPT ![t] = x] /\ TblInv(k, p)
          /\ p[t].at \notin Creating /\ x.at \notin Creating /\ (t \notin k.list => x.at \in {"app", "sched"})
      BY <1>1, <1>3
    <3> QED
      BY ONLY <3>1, PcTbl
  <2>2. Creators(r, s) = Creators(k, s) /\ Linkers(r, s) = Linkers(k, s)
    BY DEF Creators, Linkers
  <2> QED
    BY ONLY <2>1, <2>2, r.tbl = k.tbl, r.tcb = k.tcb, r.list = k.list, r.free = k.free
       DEF TblInv, OwnPrioInv, AsideInv, BlocksInv
<1>7. ReadyInv(r, s)
  <2>1. Living(r, s) = Living(k, p)
    BY <1>1, <1>2, <1>3 DEF Living
  <2> QED
    BY ONLY <1>1, <2>1, r.rdy = k.rdy, r.tcb = k.tcb DEF ReadyInv, ReadyAt
<1>8. ASSUME NEW u \in k.list
      PROVE  /\ Pend(r, s, u) <=> Pend(k, p, u)
             /\ Pend(k, p, u) => u # t /\ p[u].ev # e /\ s[u] = p[u]
  <2>1. StatAt(k, p, u)
    BY <1>1 DEF StatInv
  <2>2. ~ Blk(s, t) /\ ~ Blk(p, t)
    BY <1>2, <1>3 DEF Blk
  <2>3. u # t => s[u] = p[u]
    BY <1>1, <1>2
  <2>4. Pend(k, p, u) => p[u].svc \in Kinds
    BY <1>1 DEF ArgInv, Pend
  <2>5. Pend(k, p, u) => p[u].ev # e
    BY <2>1, <2>4 DEF StatAt, Kinds
  <2> QED
    BY <2>2, <2>3, <2>5 DEF Pend, Blk
<1>9. k.ev[e].wait = {}
  <2>1. ASSUME NEW y \in k.ev[e].wait
        PROVE  FALSE
    <3>1. PICK u \in k.list : k.tcb[u].prio = y
      BY <1>1 DEF ListsInv
    <3>2. Pend(k, p, u) /\ p[u].ev = e
      BY <1>1, <3>1 DEF ListsInv, ListedAt
    <3> QED
      BY <1>8, <3>2
  <2> QED
    BY <2>1
<1>10. ASSUME NEW u \in k.list
       PROVE  StatAt(r, s, u) /\ \A f \in DOMAIN k.ev : ListedAt(r, s, f, u)
  <2>1. StatAt(k, p, u) /\ \A f \in DOMAIN k.ev : ListedAt(k, p, f, u)
    BY <1>1 DEF StatInv, ListsInv
  <2>2. (Blk(s, u) <=> Blk(p, u)) /\ (Blk(p, u) => s[u] = p[u])
    BY <1>1, <1>2, <1>3 DEF Blk
  <2>3. StatAt(r, s, u)
    BY <1>8, <2>1, <2>2 DEF StatAt
  <2>4. ASSUME NEW f \in DOMAIN k.ev
        PROVE  ListedAt(r, s, f, u)
    <3>1. r.ev[f].wait = k.ev[f].wait
      BY <1>9
    <3>2. Pend(r, s, u) /\ s[u].ev = f <=> Pend(k, p, u) /\ p[u].ev = f
      BY <1>8
    <3>3. ListedAt(k, p, f, u)
      BY <2>1
    <3> QED
      BY ONLY <3>1, <3>2, <3>3, r.tcb = k.tcb DEF ListedAt
  <2> QED
    BY <2>3, <2>4
<1>11. WaitInv(r, s)
  <2>1. \A f \in DOMAIN k.ev : r.ev[f].wait = k.ev[f].wait
    BY <1>9
  <2>2. ListsInv(r, s)
    BY ONLY <1>1, <1>10, <2>1, r.tcb = k.tcb, r.list = k.list, DOMAIN r.ev = DOMAIN k.ev DEF ListsInv
  <2>3. StatInv(r, s)
    BY <1>10 DEF StatInv
  <2> QED
    BY <2>2, <2>3 DEF WaitInv
<1>12. CallInv(r, s)
  <2>1. \A u \in k.list : p[u].at \in OnEvent => p[u].svc \in Kinds
    BY <1>1 DEF ArgInv, OnEvent, Kinds
  <2>2. \A u \in k.list : p[u].at \in OnEvent => p[u].ev # e
    BY <1>1, <2>1 DEF CallInv, Kinds
  <2>3. DelStage \subseteq OnEvent
    BY DEF DelStage, OnEvent, SemStage, MboxStage, QStage
  <2>4. \A u \in k.list : s[u].at \in OnEvent => p[u].at \in OnEvent /\ s[u] = p[u]
    BY <1>1, <1>2, <1>3
  <2> QED
    BY <1>1, <2>2, <2>3, <2>4 DEF CallInv
<1> QED
  BY <1>4, <1>5, <1>6, <1>7, <1>11, <1>12 DEF TasksInv

\* The steps of a creation change the table of priorities and the free control
\* blocks only.
Creation(k, p, t, x, s, r) ==
  /\ TasksInv(k, p)
  /\ t \in k.list
  /\ t # Idle
  /\ p[t].at \in Creating \cup {"app"}
  /\ x \in PcType
  /\ x.at \in Creating \cup {"app"}
  /\ x.at \in Creating => x.n \in Prio
  /\ s = [p EXCEPT ![t] = x]
  /\ OsType(r)
  /\ r.app = k.app
  /\ r.rdy = k.rdy
  /\ r.list = k.list
  /\ r.ev = k.ev
  /\ r.evfree = k.evfree
  /\ \A u \in k.list : r.tcb[u] = k.tcb[u]
  /\ \A u \in Task : r.tcb[u].dly <= App[k.app].dly
  /\ TblInv(r, s)
LEMMA CreationKeeps ==
  ASSUME NEW k, NEW p, NEW t, NEW x, NEW s, NEW r, Creation(k, p, t, x, s, r)
  PROVE  TasksInv(r, s)
<1> SUFFICES ASSUME TasksInv(k, p), t \in k.list, t # Idle, p[t].at \in Creating \cup {"app"}, x \in PcType,
                    x.at \in Creating \cup {"app"}, x.at \in Creating => x.n \in Prio, s = [p EXCEPT ![t] = x], OsType(r),
                    r.app = k.app, r.rdy = k.rdy, r.list = k.list, r.ev = k.ev, r.evfree = k.evfree,
                    \A u \in k.list : r.tcb[u] = k.tcb[u], \A u \in Task : r.tcb[u].dly <= App[k.app].dly, TblInv(r, s)
             PROVE  TasksInv(r, s)
  BY DEF Creation
<1>1. /\ OsType(k) /\ k.list \subseteq Task /\ p \in [Task -> PcType] /\ ArgInv(k.app, p) /\ WaitInv(k, p)
      /\ StatInv(k, p) /\ ReadyInv(k, p) /\ ListsInv(k, p) /\ IdleInv(k, p) /\ CallInv(k, p) /\ EcbInv(k, p)
  BY DEF TasksInv, OsType, ArgInv, WaitInv
<1>2. s[t] = x /\ \A u \in Task : u # t => s[u] = p[u]
  BY <1>1
<1>3. x.at \notin OnEvent \cup PendStage \cup SemStage \cup MboxStage \cup QStage
                  \cup {"delete", "block", "wake", "qcreate", "semset", "mboxpost", "mboxopt", "qpost", "qpostfront", "qopt"}
      /\ p[t].at \notin OnEvent \cup {"delete", "block", "wake", "qcreate"}
  BY DEF Creating, OnEvent, PendStage, SemStage, MboxStage, QStage
<1>4. ArgInv(r.app, s)
  BY <1>1, <1>2, <1>3 DEF ArgInv, Blk
<1>5. IdleInv(r, s) /\ DlyInv(r) /\ App[r.app].ops \cap Others = {}
  BY <1>1, <1>2, CoreAssumption DEF IdleInv, TasksInv, DlyInv
<1>6. t \in Task /\ CallInv(k, s) /\ EcbInv(k, s) /\ ReadyInv(k, s) /\ WaitInv(k, s)
  <2>1. /\ OsType(k) /\ p \in [Task -> PcType] /\ t \in Task /\ x \in PcType /\ s = [p EXCEPT ![t] = x]
        /\ CallInv(k, p) /\ EcbInv(k, p) /\ ReadyInv(k, p) /\ WaitInv(k, p)
        /\ x.at \notin OnEvent /\ p[t].at # "qcreate" /\ x.at # "qcreate" /\ p[t].at # "delete" /\ x.at # "delete" /\ ~ Blk(p, t)
    BY <1>1, <1>3 DEF Blk
  <2> QED
    BY ONLY <2>1, PcCall, PcEcb, PcReady, PcWait
<1>7. ReadyInv(r, s)
  <2>1. Living(r, s) = Living(k, s) /\ \A u \in Living(k, s) : r.tcb[u] = k.tcb[u]
    BY DEF Living
  <2> QED
    BY ONLY <1>6, <2>1, r.rdy = k.rdy DEF ReadyInv, ReadyAt
<1>8. WaitInv(r, s)
  <2>1. \A u \in k.list : (Pend(r, s, u) <=> Pend(k, s, u)) /\ r.tcb[u] = k.tcb[u]
    BY DEF Pend
  <2>2. StatInv(r, s)
    BY ONLY <1>6, <2>1, r.list = k.list, r.ev = k.ev DEF WaitInv, StatInv, StatAt
  <2>3. ListsInv(k, s)
    BY <1>6 DEF WaitInv
  <2>4. ListsInv(r, s)
    BY ONLY <2>1, <2>3, r.list = k.list, r.ev = k.ev DEF ListsInv, ListedAt
  <2> QED
    BY <2>2, <2>4 DEF WaitInv
<1>9. CallInv(r, s) /\ EcbInv(r, s)
  BY ONLY <1>6, r.list = k.list, r.ev = k.ev, r.evfree = k.evfree DEF CallInv, EcbInv
<1> QED
  BY <1>4, <1>5, <1>7, <1>8, <1>9 DEF TasksInv

\* What the three steps do to the table of priorities, y being the one that is
\* set aside.
Reserving(k, p, t, y, x, s, r) ==
  /\ p \in [Task -> PcType]
  /\ OsType(k)
  /\ TblInv(k, p)
  /\ t \in k.list
  /\ p[t].at = "app"
  /\ y \in Prio
  /\ k.tbl[y] = Null
  /\ x.at = "create"
  /\ x.n = y
  /\ s = [p EXCEPT ![t] = x]
  /\ r.tbl = [k.tbl EXCEPT ![y] = Reserved]
  /\ r.tcb = k.tcb
  /\ r.list = k.list
  /\ r.free = k.free
LEMMA ReserveTbl ==
  ASSUME NEW k, NEW p, NEW t, NEW y, NEW x, NEW s, NEW r, Reserving(k, p, t, y, x, s, r)
  PROVE  TblInv(r, s)
<1> SUFFICES ASSUME p \in [Task -> PcType], OsType(k), TblInv(k, p), t \in k.list, p[t].at = "app", y \in Prio, k.tbl[y] = Null,
                    x.at = "create", x.n = y, s = [p EXCEPT ![t] = x], r.tbl = [k.tbl EXCEPT ![y] = Reserved], r.tcb = k.tcb,
                    r.list = k.list, r.free = k.free
             PROVE  TblInv(r, s)
  BY DEF Reserving
<1>1. /\ OwnPrioInv(k) /\ AsideInv(k, p) /\ BlocksInv(k, p) /\ k.list \subseteq Task /\ t \in Task
      /\ k.tbl \in [Prio -> Task \cup {Null, Reserved}] /\ k.tcb \in [Task -> TcbType]
      /\ Null \notin Task /\ Reserved \notin Task /\ Reserved # Null
  BY CoreAssumption DEF TblInv, OsType
<1>2. s[t] = x /\ (\A u \in Task : u # t => s[u] = p[u]) /\ r.tbl[y] = Reserved
      /\ \A z \in Prio : z # y => r.tbl[z] = k.tbl[z]
  BY <1>1
<1>3. OwnPrioInv(r)
  <2>1. ASSUME NEW u \in k.list
        PROVE  r.tbl[k.tcb[u].prio] = u
    <3>1. k.tbl[k.tcb[u].prio] = u /\ k.tcb[u].prio \in Prio /\ u \in Task
      BY <1>1 DEF OwnPrioInv, TcbType
    <3> QED
      BY <1>1, <1>2, <3>1
  <2>2. ASSUME NEW z \in Prio, r.tbl[z] \in Task
        PROVE  r.tbl[z] \in k.list /\ k.tcb[r.tbl[z]].prio = z
    <3>1. r.tbl[z] = k.tbl[z]
      BY <1>1, <1>2, <2>2
    <3> QED
      BY <1>1, <2>2, <3>1 DEF OwnPrioInv
  <2> QED
    BY <2>1, <2>2 DEF OwnPrioInv
<1>4. Creators(r, s) = Creators(k, p) \cup {t} /\ t \notin Creators(k, p) /\ Linkers(r, s) = Linkers(k, p)
      /\ \A u \in Creators(k, p) : s[u] = p[u] /\ p[u].n # y
  <2>1. \A u \in Creators(k, p) : u \in Task /\ u # t /\ p[u].n # y
    BY <1>1 DEF AsideInv, Creators, Creating
  <2> QED
    BY <1>1, <1>2, <2>1 DEF Creators, Linkers, Creating
<1>5. AsideInv(r, s)
  <2>1. /\ \A z \in Prio : k.tbl[z] = Reserved <=> \E u \in Creators(k, p) : p[u].n = z
        /\ \A u, v \in Creators(k, p) : p[u].n = p[v].n => u = v
    BY <1>1 DEF AsideInv
  <2>2. s[t].n = y
    BY <1>2
  <2>3. ASSUME NEW z \in Prio
        PROVE  r.tbl[z] = Reserved <=> \E u \in Creators(r, s) : s[u].n = z
    <3>1. CASE z = y
      BY ONLY <1>2, <1>4, <2>2, <3>1
    <3>2. CASE z # y
      BY ONLY <1>2, <1>4, <2>1, <2>2, <3>2, z \in Prio
    <3> QED
      BY <3>1, <3>2
  <2>4. \A u, v \in Creators(r, s) : s[u].n = s[v].n => u = v
    BY ONLY <1>4, <2>1, <2>2
  <2> QED
    BY ONLY <2>3, <2>4 DEF AsideInv
<1>6. BlocksInv(r, s)
  <2>1. \A u \in Linkers(k, p) : s[u] = p[u]
    BY <1>4 DEF Linkers, Creators, Creating
  <2>2. \A u \in Task \ k.list : s[u] = p[u]
    BY <1>2
  <2> QED
    BY ONLY <1>1, <1>4, <2>1, <2>2, r.list = k.list, r.free = k.free, r.tcb = k.tcb DEF BlocksInv
<1> QED
  BY <1>3, <1>5, <1>6 DEF TblInv

Taking(k, p, t, u, x, s, r) ==
  /\ p \in [Task -> PcType]
  /\ OsType(k)
  /\ TblInv(k, p)
  /\ t \in k.list
  /\ p[t].at = "create"
  /\ u \in k.free
  /\ x.at = "link"
  /\ x.n = p[t].n
  /\ x.ev = u
  /\ s = [p EXCEPT ![t] = x]
  /\ r.tbl = k.tbl
  /\ r.tcb = [k.tcb EXCEPT ![u] = Tcb(x.n)]
  /\ r.list = k.list
  /\ r.free = k.free \ {u}
LEMMA TakeTbl ==
  ASSUME NEW k, NEW p, NEW t, NEW u, NEW x, NEW s, NEW r, Taking(k, p, t, u, x, s, r)
  PROVE  TblInv(r, s)
<1> SUFFICES ASSUME p \in [Task -> PcType], OsType(k), TblInv(k, p), t \in k.list, p[t].at = "create", u \in k.free,
                    x.at = "link", x.n = p[t].n, x.ev = u, s = [p EXCEPT ![t] = x], r.tbl = k.tbl,
                    r.tcb = [k.tcb EXCEPT ![u] = Tcb(x.n)], r.list = k.list, r.free = k.free \ {u}
             PROVE  TblInv(r, s)
  BY DEF Taking
<1>1. /\ OwnPrioInv(k) /\ AsideInv(k, p) /\ BlocksInv(k, p) /\ k.list \subseteq Task /\ t \in Task /\ u \in Task
      /\ k.tcb \in [Task -> TcbType] /\ k.list \cap k.free = {}
  BY DEF TblInv, OsType, BlocksInv
<1>2. s[t] = x /\ (\A v \in Task : v # t => s[v] = p[v])
      /\ r.tcb[u] = Tcb(x.n) /\ \A v \in Task : v # u => r.tcb[v] = k.tcb[v]
  BY <1>1
<1>3. \A v \in k.list : r.tcb[v] = k.tcb[v]
  BY <1>1, <1>2
<1>4. OwnPrioInv(r)
  BY <1>1, <1>3 DEF OwnPrioInv
<1>5. Creators(r, s) = Creators(k, p) /\ \A v \in k.list : s[v].n = p[v].n
  BY <1>1, <1>2 DEF Creators, Creating
<1>6. AsideInv(r, s)
  <2>1. Creators(k, p) \subseteq k.list
    BY DEF Creators
  <2> QED
    BY ONLY <1>1, <1>5, <2>1, r.tbl = k.tbl DEF AsideInv
<1>7. Linkers(r, s) = Linkers(k, p) \cup {t} /\ t \notin Linkers(k, p)
      /\ \A v \in Linkers(k, p) : v \in k.list /\ s[v] = p[v] /\ p[v].ev \in Task \ (k.list \cup k.free) /\ p[v].ev # u
                                  /\ k.tcb[p[v].ev] = Tcb(p[v].n)
  <2>1. \A v \in Linkers(k, p) : v \in k.list /\ v # t /\ p[v].ev \in Task \ (k.list \cup k.free)
                                 /\ k.tcb[p[v].ev] = Tcb(p[v].n)
    BY <1>1 DEF BlocksInv, Linkers
  <2> QED
    BY <1>1, <1>2, <2>1 DEF Linkers
<1>8. BlocksInv(r, s)
  <2>1. \A v \in Linkers(r, s) : s[v].ev \in Task \ (r.list \cup r.free) /\ r.tcb[s[v].ev] = Tcb(s[v].n)
    BY <1>1, <1>2, <1>7
  <2>2. \A v, w \in Linkers(r, s) : s[v].ev = s[w].ev => v = w
    <3>1. \A v, w \in Linkers(k, p) : p[v].ev = p[w].ev => v = w
      BY ONLY <1>1 DEF BlocksInv
    <3>2. s[t].ev = u
      BY <1>2
    <3> QED
      BY ONLY <1>7, <3>1, <3>2
  <2>3. \A v \in Task : v \in r.list \/ v \in r.free \/ \E w \in Linkers(r, s) : s[w].ev = v
    <3>1. \A v \in Task : v \in k.list \/ v \in k.free \/ \E w \in Linkers(k, p) : p[w].ev = v
      BY <1>1 DEF BlocksInv
    <3>2. s[t].ev = u
      BY <1>2
    <3> QED
      BY ONLY <1>7, <3>1, <3>2, r.list = k.list, r.free = k.free \ {u}
  <2>4. \A v \in Task \ r.list : s[v].at \in {"app", "sched"}
    BY <1>1, <1>2 DEF BlocksInv
  <2> QED
    BY <1>1, <2>1, <2>2, <2>3, <2>4 DEF BlocksInv
<1> QED
  BY <1>4, <1>6, <1>8 DEF TblInv

Refusing(k, p, t, x, s) ==
  /\ p \in [Task -> PcType]
  /\ OsType(k)
  /\ TblInv(k, p)
  /\ t \in k.list
  /\ p[t].at = "create"
  /\ x.at = "refused"
  /\ x.n = p[t].n
  /\ s = [p EXCEPT ![t] = x]
LEMMA RefuseTbl ==
  ASSUME NEW k, NEW p, NEW t, NEW x, NEW s, Refusing(k, p, t, x, s)
  PROVE  TblInv(k, s)
<1> SUFFICES ASSUME p \in [Task -> PcType], OsType(k), TblInv(k, p), t \in k.list, p[t].at = "create", x.at = "refused",
                    x.n = p[t].n, s = [p EXCEPT ![t] = x]
             PROVE  TblInv(k, s)
  BY DEF Refusing
<1>1. OwnPrioInv(k) /\ AsideInv(k, p) /\ BlocksInv(k, p) /\ k.list \subseteq Task /\ t \in Task
  BY DEF TblInv, OsType
<1>2. s[t] = x /\ \A v \in Task : v # t => s[v] = p[v]
  BY <1>1
<1>3. Creators(k, s) = Creators(k, p) /\ Linkers(k, s) = Linkers(k, p) /\ \A v \in k.list : s[v].n = p[v].n
  BY <1>1, <1>2 DEF Creators, Creating, Linkers
<1>4. AsideInv(k, s)
  <2>1. Creators(k, p) \subseteq k.list
    BY DEF Creators
  <2> QED
    BY ONLY <1>1, <1>3, <2>1 DEF AsideInv
<1>5. BlocksInv(k, s)
  <2>1. \A v \in Linkers(k, p) : s[v] = p[v]
    BY <1>1, <1>2 DEF Linkers
  <2>2. \A v \in Task \ k.list : s[v] = p[v]
    BY <1>2
  <2> QED
    BY ONLY <1>1, <1>3, <2>1, <2>2 DEF BlocksInv
<1> QED
  BY <1>1, <1>4, <1>5 DEF TblInv

GivingBack(k, p, t, x, s, r) ==
  /\ p \in [Task -> PcType]
  /\ OsType(k)
  /\ TblInv(k, p)
  /\ t \in k.list
  /\ p[t].at = "refused"
  /\ p[t].n \in Prio
  /\ x.at = "app"
  /\ s = [p EXCEPT ![t] = x]
  /\ r.tbl = [k.tbl EXCEPT ![p[t].n] = Null]
  /\ r.tcb = k.tcb
  /\ r.list = k.list
  /\ r.free = k.free
LEMMA GiveBackTbl ==
  ASSUME NEW k, NEW p, NEW t, NEW x, NEW s, NEW r, GivingBack(k, p, t, x, s, r)
  PROVE  TblInv(r, s)
<1> SUFFICES ASSUME p \in [Task -> PcType], OsType(k), TblInv(k, p), t \in k.list, p[t].at = "refused", p[t].n \in Prio,
                    x.at = "app", s = [p EXCEPT ![t] = x], r.tbl = [k.tbl EXCEPT ![p[t].n] = Null], r.tcb = k.tcb,
                    r.list = k.list, r.free = k.free
             PROVE  TblInv(r, s)
  BY DEF GivingBack
<1>1. /\ OwnPrioInv(k) /\ AsideInv(k, p) /\ BlocksInv(k, p) /\ k.list \subseteq Task /\ t \in Task
      /\ k.tbl \in [Prio -> Task \cup {Null, Reserved}] /\ k.tcb \in [Task -> TcbType]
      /\ Null \notin Task /\ Reserved \notin Task /\ Reserved # Null
  BY CoreAssumption DEF TblInv, OsType
<1>2. PICK y \in Prio : y = p[t].n
  OBVIOUS
<1>3. t \in Creators(k, p) /\ k.tbl[y] = Reserved
  BY <1>1, <1>2 DEF Creators, Creating, AsideInv
<1>4. s[t] = x /\ (\A u \in Task : u # t => s[u] = p[u]) /\ r.tbl[y] = Null
      /\ \A z \in Prio : z # y => r.tbl[z] = k.tbl[z]
  BY <1>1, <1>2
<1>5. OwnPrioInv(r)
  <2>1. ASSUME NEW u \in k.list
        PROVE  r.tbl[k.tcb[u].prio] = u
    <3>1. k.tbl[k.tcb[u].prio] = u /\ k.tcb[u].prio \in Prio /\ u \in Task
      BY <1>1 DEF OwnPrioInv, TcbType
    <3> QED
      BY <1>1, <1>3, <1>4, <3>1
  <2>2. ASSUME NEW z \in Prio, r.tbl[z] \in Task
        PROVE  r.tbl[z] \in k.list /\ k.tcb[r.tbl[z]].prio = z
    <3>1. r.tbl[z] = k.tbl[z]
      BY <1>1, <1>4, <2>2
    <3> QED
      BY <1>1, <2>2, <3>1 DEF OwnPrioInv
  <2> QED
    BY <2>1, <2>2 DEF OwnPrioInv
<1>6. Creators(r, s) = Creators(k, p) \ {t} /\ Linkers(r, s) = Linkers(k, p) /\ t \notin Linkers(k, p)
      /\ \A u \in Creators(r, s) : s[u] = p[u]
  BY <1>1, <1>4 DEF Creators, Linkers, Creating
<1>7. AsideInv(r, s)
  <2>1. /\ \A z \in Prio : k.tbl[z] = Reserved <=> \E u \in Creators(k, p) : p[u].n = z
        /\ \A u, v \in Creators(k, p) : p[u].n = p[v].n => u = v
    BY <1>1 DEF AsideInv
  <2>2. \A u, v \in Creators(r, s) : s[u].n = s[v].n => u = v
    BY ONLY <1>6, <2>1
  <2>3. ASSUME NEW z \in Prio
        PROVE  r.tbl[z] = Reserved <=> \E u \in Creators(r, s) : s[u].n = z
    <3>1. CASE z = y
      <4>1. \A u \in Creators(r, s) : s[u].n # y
        BY ONLY <1>2, <1>3, <1>6, <2>1
      <4> QED
        BY ONLY <4>1, <3>1, <1>4, <1>1
    <3>2. CASE z # y
      BY ONLY <1>2, <1>4, <1>6, <2>1, <3>2, z \in Prio
    <3> QED
      BY <3>1, <3>2
  <2> QED
    BY ONLY <2>2, <2>3 DEF AsideInv
<1>8. BlocksInv(r, s)
  <2>1. \A u \in Linkers(k, p) : s[u] = p[u]
    BY <1>1, <1>4, <1>6 DEF Linkers
  <2>2. \A u \in Task \ k.list : s[u] = p[u]
    BY <1>4
  <2> QED
    BY ONLY <1>1, <1>6, <2>1, <2>2, r.list = k.list, r.free = k.free, r.tcb = k.tcb DEF BlocksInv
<1> QED
  BY <1>5, <1>7, <1>8 DEF TblInv
-----------------------------------------------------------------------------
\* The last step of a creation: the new task u is on the list and ready.
LEMMA LinkTbl ==
  ASSUME NEW k, NEW p \in [Task -> PcType], OsType(k), TblInv(k, p), NEW t \in k.list, p[t].at = "link",
         NEW u, u = p[t].ev, NEW y \in Prio, y = p[t].n,
         NEW s, s[t].at = "sched", s[u] = InApp, \A v \in Task \ {t, u} : s[v] = p[v],
         NEW r, r.tbl = [k.tbl EXCEPT ![y] = u], r.tcb = k.tcb, r.list = k.list \cup {u}, r.free = k.free
  PROVE  TblInv(r, s)
<1>1. /\ OwnPrioInv(k) /\ AsideInv(k, p) /\ BlocksInv(k, p) /\ k.list \subseteq Task /\ t \in Task
      /\ k.tbl \in [Prio -> Task \cup {Null, Reserved}] /\ k.tcb \in [Task -> TcbType]
      /\ Null \notin Task /\ Reserved \notin Task /\ Reserved # Null
  BY CoreAssumption DEF TblInv, OsType
<1>2. /\ t \in Linkers(k, p) /\ t \in Creators(k, p) /\ k.tbl[y] = Reserved /\ u \in Task \ (k.list \cup k.free)
      /\ k.tcb[u].prio = y /\ p[u].at \in {"app", "sched"} /\ u # t
  <2>1. t \in Linkers(k, p) /\ t \in Creators(k, p)
    BY DEF Linkers, Creators, Creating
  <2>2. k.tbl[y] = Reserved
    BY <1>1, <2>1 DEF AsideInv
  <2>3. u \in Task \ (k.list \cup k.free) /\ k.tcb[u] = Tcb(y) /\ p[u].at \in {"app", "sched"}
    BY <1>1, <2>1 DEF BlocksInv
  <2> QED
    BY <2>1, <2>2, <2>3 DEF Tcb
<1>3. r.tbl[y] = u /\ \A z \in Prio : z # y => r.tbl[z] = k.tbl[z]
  BY <1>1
<1>4. OwnPrioInv(r)
  <2>1. ASSUME NEW v \in k.list
        PROVE  r.tbl[k.tcb[v].prio] = v
    <3>1. k.tbl[k.tcb[v].prio] = v /\ k.tcb[v].prio \in Prio /\ v \in Task
      BY <1>1 DEF OwnPrioInv, TcbType
    <3> QED
      BY <1>1, <1>2, <1>3, <3>1
  <2>2. ASSUME NEW z \in Prio, r.tbl[z] \in Task
        PROVE  r.tbl[z] \in r.list /\ k.tcb[r.tbl[z]].prio = z
    <3>1. CASE z = y
      BY <1>2, <1>3, <3>1
    <3>2. CASE z # y
      <4>1. r.tbl[z] = k.tbl[z]
        BY <1>3, <3>2
      <4> QED
        BY <1>1, <2>2, <4>1 DEF OwnPrioInv
    <3> QED
      BY <3>1, <3>2
  <2>3. r.tbl[k.tcb[u].prio] = u
    BY <1>2, <1>3
  <2> QED
    BY ONLY <2>1, <2>2, <2>3, r.list = k.list \cup {u}, r.tcb = k.tcb DEF OwnPrioInv
<1>5. /\ Creators(r, s) = Creators(k, p) \ {t} /\ Linkers(r, s) = Linkers(k, p) \ {t}
      /\ \A v \in Creators(r, s) : s[v] = p[v]
  <2>1. s[u].at = "app"
    BY DEF InApp
  <2>2. \A v \in k.list \ {t} : s[v] = p[v]
    BY <1>1, <1>2
  <2> QED
    BY ONLY <1>2, <2>1, <2>2, s[t].at = "sched", r.list = k.list \cup {u} DEF Creators, Linkers, Creating
<1>6. AsideInv(r, s)
  <2>1. /\ \A z \in Prio : k.tbl[z] = Reserved <=> \E v \in Creators(k, p) : p[v].n = z
        /\ \A v, w \in Creators(k, p) : p[v].n = p[w].n => v = w
    BY <1>1 DEF AsideInv
  <2>2. \A v, w \in Creators(r, s) : s[v].n = s[w].n => v = w
    BY ONLY <1>5, <2>1
  <2>3. ASSUME NEW z \in Prio
        PROVE  r.tbl[z] = Reserved <=> \E v \in Creators(r, s) : s[v].n = z
    <3>1. CASE z = y
      <4>1. \A v \in Creators(r, s) : s[v].n # y
        BY ONLY <1>2, <1>5, <2>1, y = p[t].n
      <4> QED
        BY ONLY <4>1, <3>1, <1>3, <1>1, <1>2
    <3>2. CASE z # y
      BY ONLY <1>3, <1>5, <2>1, <3>2, z \in Prio, y = p[t].n
    <3> QED
      BY <3>1, <3>2
  <2> QED
    BY ONLY <2>2, <2>3 DEF AsideInv
<1>7. BlocksInv(r, s)
  <2>1. /\ k.list \cap k.free = {}
        /\ \A v \in Linkers(k, p) : p[v].ev \in Task \ (k.list \cup k.free) /\ k.tcb[p[v].ev] = Tcb(p[v].n)
        /\ \A v, w \in Linkers(k, p) : p[v].ev = p[w].ev => v = w
        /\ \A v \in Task : v \in k.list \/ v \in k.free \/ \E w \in Linkers(k, p) : p[w].ev = v
        /\ \A v \in Task \ k.list : p[v].at \in {"app", "sched"}
    BY <1>1 DEF BlocksInv
  <2>2. \A v \in Linkers(r, s) : s[v] = p[v] /\ v \in Linkers(k, p) /\ p[v].ev # u
    <3>1. \A v \in Linkers(r, s) : v \in Creators(r, s)
      BY DEF Linkers, Creators, Creating
    <3> QED
      BY ONLY <1>2, <1>5, <2>1, <3>1, u = p[t].ev
  <2>3. \A v \in Linkers(r, s) : s[v].ev \in Task \ (r.list \cup r.free) /\ r.tcb[s[v].ev] = Tcb(s[v].n)
    BY ONLY <2>1, <2>2, r.list = k.list \cup {u}, r.free = k.free, r.tcb = k.tcb
  <2>4. \A v \in Task : v \in r.list \/ v \in r.free \/ \E w \in Linkers(r, s) : s[w].ev = v
    BY ONLY <1>5, <2>1, <2>2, r.list = k.list \cup {u}, r.free = k.free, u = p[t].ev
  <2>5. \A v \in Task \ r.list : s[v].at \in {"app", "sched"}
    <3>1. \A v \in Task \ r.list : v \notin k.list /\ v # t /\ v # u
      OBVIOUS
    <3> QED
      BY <2>1, <3>1
  <2>6. \A v, w \in Linkers(r, s) : s[v].ev = s[w].ev => v = w
    BY ONLY <2>1, <2>2
  <2>7. r.list \cap r.free = {}
    BY <1>2, <2>1
  <2> QED
    BY ONLY <2>3, <2>4, <2>5, <2>6, <2>7 DEF BlocksInv
<1> QED
  BY <1>4, <1>6, <1>7 DEF TblInv

Linking(k, p, t, u, y, x, s, r) ==
  /\ TasksInv(k, p)
  /\ t \in k.list
  /\ t # Idle
  /\ p[t].at = "link"
  /\ u = p[t].ev
  /\ y \in Prio
  /\ y = p[t].n
  /\ x \in PcType
  /\ x.at = "sched"
  /\ s = [p EXCEPT ![t] = x, ![u] = InApp]
  /\ r = SetReady([k EXCEPT !.tbl[y] = u, !.list = @ \cup {u}], u)
LEMMA LinkKeeps ==
  ASSUME NEW k, NEW p, NEW t, NEW u, NEW y, NEW x, NEW s, NEW r, Linking(k, p, t, u, y, x, s, r)
  PROVE  TasksInv(r, s) /\ KeepsCpu(k, r)
<1> SUFFICES ASSUME TasksInv(k, p), t \in k.list, t # Idle, p[t].at = "link", u = p[t].ev, y \in Prio, y = p[t].n, x \in PcType,
                    x.at = "sched", s = [p EXCEPT ![t] = x, ![u] = InApp],
                    r = SetReady([k EXCEPT !.tbl[y] = u, !.list = @ \cup {u}], u)
             PROVE  TasksInv(r, s) /\ KeepsCpu(k, r)
  BY DEF Linking
<1>1. /\ OsType(k) /\ Shape(k) /\ k.list \subseteq Task /\ t \in Task /\ k.tcb \in [Task -> TcbType] /\ p \in [Task -> PcType]
      /\ ArgInv(k.app, p) /\ OwnPrioInv(k) /\ StatInv(k, p) /\ ReadyInv(k, p) /\ ListsInv(k, p) /\ TblInv(k, p)
      /\ BlocksInv(k, p) /\ AsideInv(k, p) /\ CallInv(k, p) /\ EcbInv(k, p) /\ IdleInv(k, p) /\ k.rdy \subseteq Prio
      /\ k.tbl \in [Prio -> Task \cup {Null, Reserved}] /\ Reserved \notin Task
  BY Basics, CoreAssumption DEF TasksInv, OsType, TblInv
<1>2. u \in Task /\ u \notin k.list /\ u # t /\ k.tcb[u] = Tcb(y) /\ k.tbl[y] = Reserved
  <2>1. t \in Linkers(k, p) /\ t \in Creators(k, p)
    BY DEF Linkers, Creators, Creating
  <2>2. k.tbl[y] = Reserved
    BY <1>1, <2>1 DEF AsideInv
  <2> QED
    BY <1>1, <2>1, <2>2 DEF BlocksInv
<1>3. k.tcb[u].prio = y /\ k.tcb[u].stat = {} /\ k.tcb[u].dly = 0 /\ k.tcb[u].pend = "ok"
  BY <1>2 DEF Tcb
<1>4. /\ r.app = k.app /\ r.tcb = k.tcb /\ r.tbl = [k.tbl EXCEPT ![y] = u] /\ r.list = k.list \cup {u} /\ r.free = k.free
      /\ r.rdy = k.rdy \cup {y} /\ r.ev = k.ev /\ r.evfree = k.evfree /\ KeepsCpu(k, r) /\ Shape(r)
  BY ONLY <1>1, <1>3, r = SetReady([k EXCEPT !.tbl[y] = u, !.list = @ \cup {u}], u) DEF Shape, SetReady, KeepsCpu
<1>5. OsType(r)
  <2>1. r.tbl \in [Prio -> Task \cup {Null, Reserved}]
    <3>1. r.tbl = [k.tbl EXCEPT ![y] = u] /\ k.tbl \in [Prio -> Task \cup {Null, Reserved}] /\ u \in Task \cup {Null, Reserved}
      BY ONLY <1>1, <1>2, <1>4
    <3> QED
      BY ONLY <3>1
  <2> QED
    BY ONLY <1>1, <1>2, <1>4, <2>1, y \in Prio DEF OsType, KeepsCpu
<1>6. InApp \in PcType /\ InApp.at = "app"
  BY DEF InApp, PcType, Label
<1>7. s \in [Task -> PcType] /\ s[t] = x /\ s[u] = InApp /\ \A v \in Task \ {t, u} : s[v] = p[v]
  BY <1>1, <1>2, <1>6
<1>8. x.at \notin Creating \cup OnEvent \cup PendStage \cup SemStage \cup MboxStage \cup QStage
             \cup {"delete", "block", "wake", "qcreate", "semset", "mboxpost", "mboxopt", "qpost", "qpostfront", "qopt"}
      /\ InApp.at \notin Creating \cup OnEvent \cup PendStage \cup SemStage \cup MboxStage \cup QStage
             \cup {"delete", "block", "wake", "qcreate", "semset", "mboxpost", "mboxopt", "qpost", "qpostfront", "qopt"}
      /\ p[t].at \notin OnEvent \cup {"delete", "block", "wake", "qcreate"}
  BY <1>6 DEF Creating, OnEvent, PendStage, SemStage, MboxStage, QStage
<1>9. ArgInv(r.app, s)
  <2>1. \A v \in Task : v = t \/ v = u \/ s[v] = p[v]
    BY <1>7
  <2> QED
    BY ONLY <1>1, <1>4, <1>7, <1>8, <2>1 DEF ArgInv, Blk
<1>10. IdleInv(r, s) /\ DlyInv(r) /\ App[r.app].ops \cap Others = {}
  BY <1>1, <1>2, <1>4, <1>7 DEF IdleInv, TasksInv, DlyInv
<1>11. TblInv(r, s)
  <2>1. /\ p \in [Task -> PcType] /\ OsType(k) /\ TblInv(k, p) /\ s[t].at = "sched" /\ s[u] = InApp
        /\ \A v \in Task \ {t, u} : s[v] = p[v]
        /\ r.tbl = [k.tbl EXCEPT ![y] = u] /\ r.tcb = k.tcb /\ r.list = k.list \cup {u} /\ r.free = k.free
    BY <1>1, <1>4, <1>7
  <2> QED
    BY ONLY <2>1, t \in k.list, p[t].at = "link", u = p[t].ev, y \in Prio, y = p[t].n, LinkTbl
<1>12. \A v \in k.list : k.tcb[v].prio # y
  <2>1. \A v \in k.list : k.tbl[k.tcb[v].prio] = v /\ v \in Task
    BY <1>1 DEF OwnPrioInv
  <2> QED
    BY <1>1, <1>2, <2>1
<1>13. \A v \in k.list \ {t} : s[v] = p[v]
  BY <1>1, <1>2, <1>7
<1>14. ReadyInv(r, s)
  <2>1. Living(r, s) = Living(k, p) \cup {u}
    <3>1. s[t].at # "delete" /\ s[u].at # "delete" /\ p[t].at # "delete"
      BY <1>7, <1>8
    <3>2. \A v \in k.list : s[v].at = "delete" <=> p[v].at = "delete"
      BY ONLY <1>13, <3>1
    <3> QED
      BY ONLY <1>4, <3>1, <3>2 DEF Living
  <2>2. \A v \in Living(k, p) : ReadyAt(k, v) /\ k.tcb[v].prio # y
    BY <1>1, <1>12 DEF ReadyInv, Living
  <2>3. ReadyAt(r, u)
    BY ONLY <1>3, <1>4 DEF ReadyAt
  <2>5. \A v \in Living(k, p) : ReadyAt(r, v)
    BY ONLY <1>4, <2>2 DEF ReadyAt
  <2>4. ASSUME NEW z \in r.rdy
        PROVE  \E v \in Living(r, s) : r.tcb[v].prio = z
    <3>1. z = y \/ \E v \in Living(k, p) : k.tcb[v].prio = z
      BY ONLY <1>1, <1>4, z \in r.rdy DEF ReadyInv
    <3> QED
      BY ONLY <1>3, <1>4, <2>1, <3>1
  <2> QED
    BY ONLY <2>1, <2>3, <2>4, <2>5 DEF ReadyInv
<1>15. \A v \in k.list : Pend(r, s, v) <=> Pend(k, p, v)
  <2>1. ~ Blk(s, t) /\ ~ Blk(p, t)
    BY <1>7, <1>8 DEF Blk
  <2> QED
    BY ONLY <1>4, <1>13, <2>1 DEF Pend, Blk
<1>16. ~ Blk(s, u)
  BY <1>6, <1>7 DEF Blk
<1>17. StatInv(r, s)
  <2>1. StatAt(r, s, u)
    BY <1>3, <1>4, <1>16 DEF StatAt, Pend
  <2>2. ASSUME NEW v \in k.list, v # t
        PROVE  StatAt(r, s, v)
    BY ONLY <1>1, <1>4, <1>13, <1>15, v \in k.list, v # t DEF StatInv, StatAt, Blk
  <2>3. StatAt(r, s, t)
    <3>1. StatAt(k, p, t) /\ ~ Blk(s, t) /\ ~ Blk(p, t)
      BY <1>1, <1>7, <1>8 DEF StatInv, Blk
    <3> QED
      BY ONLY <1>4, <1>15, <3>1, t \in k.list DEF StatAt, Pend
  <2> QED
    BY <1>4, <2>1, <2>2, <2>3 DEF StatInv
<1>18. ListsInv(r, s)
  <2>1. ASSUME NEW e \in DOMAIN k.ev
        PROVE  /\ \A v \in r.list : ListedAt(r, s, e, v)
               /\ \A z \in k.ev[e].wait : \E v \in r.list : k.tcb[v].prio = z
    <3>1. /\ \A v \in k.list : ListedAt(k, p, e, v)
          /\ \A z \in k.ev[e].wait : \E v \in k.list : k.tcb[v].prio = z
      BY <1>1 DEF ListsInv
    <3>2. ListedAt(r, s, e, u)
      <4>1. y \notin k.ev[e].wait
        BY ONLY <1>12, <3>1
      <4> QED
        BY ONLY <1>3, <1>4, <1>16, <4>1 DEF ListedAt, Pend
    <3>3. ASSUME NEW v \in k.list
          PROVE  ListedAt(r, s, e, v)
      <4>1. ListedAt(k, p, e, v) /\ (Pend(r, s, v) <=> Pend(k, p, v))
        BY <1>15, <3>1
      <4>2. Pend(k, p, v) => s[v] = p[v]
        BY <1>8, <1>13 DEF Pend, Blk
      <4> QED
        BY ONLY <4>1, <4>2, <1>4 DEF ListedAt
    <3> QED
      BY ONLY <1>4, <3>1, <3>2, <3>3
  <2> QED
    BY ONLY <1>4, <2>1 DEF ListsInv
<1>19. s[t].at \notin OnEvent /\ s[u].at \notin OnEvent /\ p[t].at # "qcreate" /\ s[t].at # "qcreate" /\ s[u].at # "qcreate"
  BY <1>7, <1>8
<1>20. CallInv(r, s)
  <2>1. \A v \in r.list : s[v].at \in OnEvent => v \in k.list /\ s[v] = p[v]
    BY ONLY <1>4, <1>13, <1>19
  <2>2. DelStage \subseteq OnEvent
    BY DEF DelStage, OnEvent, SemStage, MboxStage, QStage
  <2>3. ASSUME NEW v \in r.list
        PROVE  /\ s[v].at \in OnEvent => s[v].ev \in DOMAIN r.ev /\ r.ev[s[v].ev].type = s[v].svc
               /\ s[v].at \in DelStage => \A w \in r.list \ {v} : s[w].at \in OnEvent => s[w].ev # s[v].ev
    <3>1. CASE s[v].at \in OnEvent
      <4>1. v \in k.list /\ s[v] = p[v]
        BY <2>1, <3>1
      <4>2. /\ p[v].at \in OnEvent => p[v].ev \in DOMAIN k.ev /\ k.ev[p[v].ev].type = p[v].svc
            /\ p[v].at \in DelStage => \A w \in k.list \ {v} : p[w].at \in OnEvent => p[w].ev # p[v].ev
        BY <1>1, <4>1 DEF CallInv
      <4> QED
        BY ONLY <1>4, <2>1, <4>1, <4>2
    <3> QED
      BY <2>2, <3>1
  <2> QED
    BY ONLY <2>3 DEF CallInv
<1>21. EcbInv(r, s)
  <2>1. \A v \in r.list : (s[v].at = "qcreate" => v \in k.list /\ p[v].at = "qcreate") /\ (s[v].at = "qcreate" => s[v] = p[v])
    BY ONLY <1>4, <1>13, <1>19
  <2>2. \A v \in k.list : p[v].at = "qcreate" => v \in r.list /\ s[v].at = "qcreate" /\ s[v] = p[v]
    BY ONLY <1>4, <1>13, <1>19
  <2> QED
    BY ONLY <1>1, <1>4, <2>1, <2>2 DEF EcbInv
<1> QED
  BY <1>4, <1>5, <1>9, <1>10, <1>11, <1>14, <1>17, <1>18, <1>20, <1>21 DEF TasksInv, WaitInv
-----------------------------------------------------------------------------
\* A task leaves the kernel's care when it begins to delete itself.
LEMMA PcGone ==
  ASSUME NEW k, NEW p, TasksInv(k, p), NEW t \in k.list, t # Idle, p[t].at = "app", k.tcb[t].prio \notin k.rdy,
         NEW x \in PcType, x.at = "delete", x.n \in Prio, NEW s, s = [p EXCEPT ![t] = x]
  PROVE  TasksInv(k, s)
<1>1. OsType(k) /\ p \in [Task -> PcType] /\ t \in Task /\ ArgInv(k.app, p) /\ ReadyInv(k, p) /\ OwnPrioInv(k)
      /\ k.list \subseteq Task
  BY Basics DEF TasksInv
<1>2. s[t] = x /\ \A u \in Task : u # t => s[u] = p[u]
  BY <1>1
<1>3. x.at \notin Creating \cup OnEvent \cup PendStage \cup SemStage \cup MboxStage \cup QStage
                  \cup {"app", "sched", "block", "wake", "qcreate", "semset", "mboxpost", "mboxopt", "qpost", "qpostfront", "qopt"}
      /\ p[t].at \notin Creating \cup {"delete", "block", "wake", "qcreate"}
  BY DEF Creating, OnEvent, PendStage, SemStage, MboxStage, QStage
<1>4. ArgInv(k.app, s)
  BY ONLY <1>1, <1>2, <1>3, x \in PcType, x.n \in Prio, s = [p EXCEPT ![t] = x] DEF ArgInv, Blk
<1>5. IdleInv(k, s)
  BY <1>1 DEF TasksInv, IdleInv, OsType
<1>6. TblInv(k, s) /\ WaitInv(k, s) /\ CallInv(k, s) /\ EcbInv(k, s)
  <2>1. /\ OsType(k) /\ p \in [Task -> PcType] /\ t \in Task /\ x \in PcType /\ s = [p EXCEPT ![t] = x]
        /\ TblInv(k, p) /\ CallInv(k, p) /\ EcbInv(k, p) /\ WaitInv(k, p)
        /\ x.at \notin OnEvent /\ p[t].at # "qcreate" /\ x.at # "qcreate" /\ ~ Blk(p, t)
        /\ p[t].at \notin Creating /\ x.at \notin Creating /\ (t \notin k.list => x.at \in {"app", "sched"})
    BY <1>1, <1>3 DEF Blk, TasksInv
  <2> QED
    BY ONLY <2>1, PcTbl, PcWait, PcCall, PcEcb
<1>7. ReadyInv(k, s)
  <2>1. Living(k, s) = Living(k, p) \ {t}
    <3>1. \A u \in k.list : u # t => s[u] = p[u]
      BY ONLY <1>1, <1>2
    <3> QED
      BY ONLY <1>2, <3>1, x.at = "delete" DEF Living
  <2>2. \A u \in Living(k, s) : ReadyAt(k, u)
    BY ONLY <1>1, <2>1 DEF ReadyInv
  <2>3. \A z \in k.rdy : \E u \in Living(k, s) : k.tcb[u].prio = z
    BY ONLY <1>1, <2>1, k.tcb[t].prio \notin k.rdy DEF ReadyInv
  <2> QED
    BY ONLY <2>2, <2>3 DEF ReadyInv
<1> QED
  BY <1>4, <1>5, <1>6, <1>7 DEF TasksInv

Deleting(k, p, t, x, s, es, m, r) ==
  /\ TasksInv(k, p) /\ t \in k.list /\ t # Idle /\ p[t].at = "app" /\ x \in PcType /\ x.at = "delete" /\ x.n \in Prio
  /\ s = [p EXCEPT ![t] = x] /\ m = OS_EventTaskRemoveMulti(ClearReady(k, t), t, es)
  /\ r = [m EXCEPT !.tcb[t].dly = 0, !.tcb[t].stat = {}, !.tcb[t].pend = "ok", !.lock = @ + 1]
LEMMA DeleteKeeps ==
  ASSUME NEW k, NEW p, NEW t, NEW x, NEW s, NEW es, NEW m, NEW r, Deleting(k, p, t, x, s, es, m, r)
  PROVE  /\ TasksInv(r, s) /\ r.ev = k.ev /\ r.rdy = k.rdy \ {k.tcb[t].prio} /\ r.lock = k.lock + 1
         /\ KeepsTasks(k, r) /\ r.cur = k.cur /\ r.prioCur = k.prioCur /\ r.evfree = k.evfree
         /\ r.tcb[t].stat = {} /\ r.tcb[t].dly = 0
<1> SUFFICES ASSUME TasksInv(k, p), t \in k.list, t # Idle, p[t].at = "app", x \in PcType, x.at = "delete", x.n \in Prio,
                    s = [p EXCEPT ![t] = x], m = OS_EventTaskRemoveMulti(ClearReady(k, t), t, es),
                    r = [m EXCEPT !.tcb[t].dly = 0, !.tcb[t].stat = {}, !.tcb[t].pend = "ok", !.lock = @ + 1]
             PROVE  /\ TasksInv(r, s) /\ r.ev = k.ev /\ r.rdy = k.rdy \ {k.tcb[t].prio} /\ r.lock = k.lock + 1
                    /\ KeepsTasks(k, r) /\ r.cur = k.cur /\ r.prioCur = k.prioCur /\ r.evfree = k.evfree
                    /\ r.tcb[t].stat = {} /\ r.tcb[t].dly = 0
  BY DEF Deleting
<1>1. /\ OsType(k) /\ Shape(k) /\ k.list \subseteq Task /\ t \in Task /\ k.tcb \in [Task -> TcbType] /\ p \in [Task -> PcType]
      /\ StatAt(k, p, t) /\ ListsInv(k, p) /\ App[k.app].dly \in Nat /\ DlyInv(k) /\ k.lock \in Nat
      /\ k.ev \in [DOMAIN k.ev -> EcbType]
  BY Basics DEF StatInv, TasksInv, OsType
<1>2. PICK y \in Prio : y = k.tcb[t].prio
  BY <1>1 DEF TcbType
<1>3. ~ Blk(p, t) /\ ~ Pend(k, p, t)
  BY DEF Blk, Pend
<1>4. k.tcb[t].stat \subseteq {"suspend"} /\ k.tcb[t].pend = "ok"
  BY <1>1, <1>3 DEF StatAt
<1>5. \A e \in DOMAIN k.ev : LeftBy(k.ev[e], {y}) = k.ev[e]
  <2>1. ASSUME NEW e \in DOMAIN k.ev
        PROVE  LeftBy(k.ev[e], {y}) = k.ev[e]
    <3>1. PICK c \in EcbType : c = k.ev[e]
      BY <1>1
    <3>2. y \notin c.wait
      BY <1>1, <1>2, <1>3, <3>1 DEF ListsInv, ListedAt
    <3>3. c.wait \ {y} = c.wait
      BY <3>2
    <3> QED
      BY ONLY <3>1, <3>3, c \in EcbType DEF LeftBy, EcbType
  <2> QED
    BY <2>1
<1>6. m = [k EXCEPT !.rdy = k.rdy \ {y}]
  <2>1. [e \in DOMAIN k.ev |-> IF e \in es THEN LeftBy(k.ev[e], {y}) ELSE k.ev[e]] = k.ev
    BY <1>1, <1>5
  <2> QED
    BY ONLY <1>1, <1>2, <2>1, m = OS_EventTaskRemoveMulti(ClearReady(k, t), t, es)
       DEF OS_EventTaskRemoveMulti, ClearReady, Shape
<1>7. PICK c \in TcbType : c = k.tcb[t]
  BY <1>1
<1>8. PICK d \in TcbType : d = [c EXCEPT !.dly = 0, !.stat = {"suspend"}]
  BY DEF TcbType
<1>9. PICK d1 \in TcbType : d1 = [c EXCEPT !.dly = 0, !.stat = {}, !.pend = "ok"]
  BY DEF TcbType
<1>10. PICK r1 : r1 = [k EXCEPT !.tcb = [k.tcb EXCEPT ![t] = d], !.rdy = k.rdy \ {y}]
  OBVIOUS
<1>11. /\ Shape(r1) /\ r1.app = k.app /\ r1.tbl = k.tbl /\ r1.list = k.list /\ r1.free = k.free /\ r1.ev = k.ev
       /\ r1.evfree = k.evfree /\ r1.cur = k.cur /\ r1.prioCur = k.prioCur /\ r1.lock = k.lock
       /\ r1.tcb = [k.tcb EXCEPT ![t] = d] /\ r1.rdy = k.rdy \ {y}
  BY ONLY <1>1, <1>10 DEF Shape
<1>12. TasksInv(r1, p)
  <2>1. d.prio = c.prio /\ d.pend = "ok" /\ d.stat = {"suspend"} /\ d.dly = 0 /\ c.stat \subseteq {"suspend"} /\ c.pend = "ok"
    BY ONLY <1>4, <1>7, <1>8 DEF TcbType
  <2>2. OneTask(k, p, t, d, r1)
    BY ONLY <1>1, <1>2, <1>7, <1>11, <2>1, d \in TcbType, t \in k.list, t # Idle, p[t].at = "app" DEF OneTask
  <2> QED
    BY ONLY TasksInv(k, p), <2>2, OneKeeps
<1>13. /\ Shape(r) /\ r.app = k.app /\ r.tbl = k.tbl /\ r.list = k.list /\ r.free = k.free /\ r.ev = k.ev
       /\ r.evfree = k.evfree /\ r.cur = k.cur /\ r.prioCur = k.prioCur /\ r.lock = k.lock + 1
       /\ r.tcb = [k.tcb EXCEPT ![t] = d1] /\ r.rdy = k.rdy \ {y}
  BY ONLY ZenonT(40), <1>1, <1>6, <1>7, <1>9, r = [m EXCEPT !.tcb[t].dly = 0, !.tcb[t].stat = {}, !.tcb[t].pend = "ok", !.lock = @ + 1]
     DEF Shape, TcbType
<1>14. d.prio = y /\ d.stat = {"suspend"} /\ d.pend = "ok" /\ d1.prio = y /\ d1.stat = {} /\ d1.dly = 0 /\ d1.pend = "ok"
  BY ONLY <1>2, <1>4, <1>7, <1>8, <1>9 DEF TcbType
<1>15. /\ r.tcb \in [Task -> TcbType] /\ r.tcb[t] = d1 /\ r1.tcb[t] = d
       /\ \A u \in Task : u # t => r.tcb[u] = k.tcb[u] /\ r1.tcb[u] = k.tcb[u]
  BY ONLY <1>1, <1>11, <1>13, d \in TcbType, d1 \in TcbType
<1>16. \A u \in Task : r.tcb[u].prio = k.tcb[u].prio /\ r1.tcb[u].prio = k.tcb[u].prio
  BY ONLY <1>2, <1>14, <1>15
<1>17. TasksInv(r1, s)
  <2>1. r1.tcb[t].prio \notin r1.rdy
    BY ONLY <1>1, <1>2, <1>11, <1>16
  <2> QED
    BY ONLY <1>11, <1>12, <2>1, t \in k.list, t # Idle, p[t].at = "app", x \in PcType, x.at = "delete", x.n \in Prio,
            s = [p EXCEPT ![t] = x], PcGone
<1>18. KeepsTasks(r1, r) /\ KeepsTypes(r1, r)
  BY ONLY <1>11, <1>13, <1>16 DEF KeepsTasks, KeepsTypes
<1>19. KeepsTasks(k, r)
  BY ONLY <1>13, <1>16 DEF KeepsTasks
<1>20. OsType(r)
  BY ONLY <1>1, <1>13, <1>15 DEF OsType, EcbType
<1>21. s[t] = x /\ ~ Blk(s, t)
  BY <1>1 DEF Blk
<1>22. Settled(r, s, t)
  <2>1. \A e \in DOMAIN k.ev : y \notin k.ev[e].wait
    BY <1>1, <1>2, <1>3 DEF ListsInv, ListedAt
  <2> QED
    BY ONLY <1>13, <1>14, <1>15, <1>21, <2>1, x.at = "delete" DEF Settled, StatAt, ListedAt, Pend
<1>23. PICK ts \in SUBSET (r1.list \ {Idle}) : ts = {t}
  BY <1>11
<1>24. /\ \A u \in Task \ ts : r.tcb[u] = r1.tcb[u]
       /\ \A u \in r1.list \ ts : /\ r1.tcb[u].prio \in r.rdy <=> r1.tcb[u].prio \in r1.rdy
                                 /\ \A f \in DOMAIN r1.ev : r1.tcb[u].prio \in r.ev[f].wait <=> r1.tcb[u].prio \in r1.ev[f].wait
       /\ \A z \in r.rdy \ r1.rdy : \E u \in ts : s[u].at # "delete" /\ r1.tcb[u].prio = z
       /\ \A f \in DOMAIN r1.ev : \A z \in r.ev[f].wait \ r1.ev[f].wait : \E u \in ts : r1.tcb[u].prio = z
       /\ \A u \in ts : r.tcb[u].dly <= App[r1.app].dly /\ Settled(r, s, u)
  BY ONLY <1>1, <1>11, <1>13, <1>14, <1>15, <1>16, <1>22, <1>23
<1>25. TasksInv(r, s)
  BY ONLY <1>17, <1>18, <1>20, <1>24, Changed
<1> QED
  BY ONLY <1>2, <1>13, <1>14, <1>15, <1>19, <1>25
-----------------------------------------------------------------------------
\* The last step of a deletion: the control block of t is free.
LEMMA FreeTbl ==
  ASSUME NEW k, NEW p \in [Task -> PcType], OsType(k), TblInv(k, p), NEW t \in k.list, p[t].at = "delete",
         NEW y \in Prio, y = k.tcb[t].prio, NEW s, s[t].at = "sched", \A v \in Task \ {t} : s[v] = p[v],
         NEW r, r.tbl = [k.tbl EXCEPT ![y] = Null], \A v \in Task \ {t} : r.tcb[v] = k.tcb[v],
         r.list = k.list \ {t}, r.free = k.free \cup {t}
  PROVE  TblInv(r, s)
<1>1. /\ OwnPrioInv(k) /\ AsideInv(k, p) /\ BlocksInv(k, p) /\ k.list \subseteq Task /\ t \in Task
      /\ k.tbl \in [Prio -> Task \cup {Null, Reserved}] /\ k.tcb \in [Task -> TcbType]
      /\ Null \notin Task /\ Reserved \notin Task /\ Reserved # Null
  BY CoreAssumption DEF TblInv, OsType
<1>2. k.tbl[y] = t /\ r.tbl[y] = Null /\ \A z \in Prio : z # y => r.tbl[z] = k.tbl[z]
  BY <1>1 DEF OwnPrioInv
<1>3. OwnPrioInv(r)
  <2>1. ASSUME NEW v \in k.list \ {t}
        PROVE  r.tbl[r.tcb[v].prio] = v
    <3>1. k.tbl[k.tcb[v].prio] = v /\ k.tcb[v].prio \in Prio /\ v \in Task /\ r.tcb[v] = k.tcb[v]
      BY <1>1 DEF OwnPrioInv, TcbType
    <3>2. k.tcb[v].prio # y
      BY <1>2, <3>1
    <3> QED
      BY ONLY <1>2, <3>1, <3>2
  <2>2. ASSUME NEW z \in Prio, r.tbl[z] \in Task
        PROVE  r.tbl[z] \in r.list /\ r.tcb[r.tbl[z]].prio = z
    <3>1. z # y /\ r.tbl[z] = k.tbl[z]
      BY <1>1, <1>2, <2>2
    <3>2. k.tbl[z] \in k.list /\ k.tcb[k.tbl[z]].prio = z
      BY <1>1, <2>2, <3>1 DEF OwnPrioInv
    <3>3. k.tbl[z] # t
      BY <3>1, <3>2
    <3> QED
      BY <1>1, <3>1, <3>2, <3>3
  <2> QED
    BY <2>1, <2>2 DEF OwnPrioInv
<1>4. /\ Creators(r, s) = Creators(k, p) /\ Linkers(r, s) = Linkers(k, p)
      /\ \A v \in Creators(k, p) : s[v] = p[v] /\ v \in k.list /\ v # t
  <2>1. \A v \in k.list \ {t} : s[v] = p[v]
    BY <1>1
  <2> QED
    BY ONLY <2>1, p[t].at = "delete", r.list = k.list \ {t} DEF Creators, Linkers, Creating
<1>5. AsideInv(r, s)
  <2>1. /\ \A z \in Prio : k.tbl[z] = Reserved <=> \E v \in Creators(k, p) : p[v].n = z
        /\ \A v, w \in Creators(k, p) : p[v].n = p[w].n => v = w
    BY <1>1 DEF AsideInv
  <2>2. \A z \in Prio : r.tbl[z] = Reserved <=> k.tbl[z] = Reserved
    BY ONLY <1>1, <1>2
  <2> QED
    BY ONLY <1>4, <2>1, <2>2 DEF AsideInv
<1>6. BlocksInv(r, s)
  <2>1. /\ k.list \cap k.free = {}
        /\ \A v \in Linkers(k, p) : p[v].ev \in Task \ (k.list \cup k.free) /\ k.tcb[p[v].ev] = Tcb(p[v].n)
        /\ \A v, w \in Linkers(k, p) : p[v].ev = p[w].ev => v = w
        /\ \A v \in Task : v \in k.list \/ v \in k.free \/ \E w \in Linkers(k, p) : p[w].ev = v
        /\ \A v \in Task \ k.list : p[v].at \in {"app", "sched"}
    BY <1>1 DEF BlocksInv
  <2>2. \A v \in Linkers(k, p) : s[v] = p[v]
    BY ONLY <1>4 DEF Linkers, Creators, Creating
  <2>3. \A v \in Linkers(r, s) : s[v].ev \in Task \ (r.list \cup r.free) /\ r.tcb[s[v].ev] = Tcb(s[v].n)
    <3>1. \A v \in Linkers(k, p) : p[v].ev \in Task \ {t}
      BY ONLY <2>1, t \in k.list
    <3>2. \A v \in Linkers(k, p) : r.tcb[p[v].ev] = k.tcb[p[v].ev]
      BY <3>1
    <3> QED
      BY ONLY <1>4, <2>1, <2>2, <3>1, <3>2, r.list = k.list \ {t}, r.free = k.free \cup {t}
  <2>4. \A v \in Task : v \in r.list \/ v \in r.free \/ \E w \in Linkers(r, s) : s[w].ev = v
    BY ONLY <1>4, <2>1, <2>2, r.list = k.list \ {t}, r.free = k.free \cup {t}
  <2>5. \A v \in Task \ r.list : s[v].at \in {"app", "sched"}
    BY <2>1
  <2>6. \A v, w \in Linkers(r, s) : s[v].ev = s[w].ev => v = w
    BY ONLY <1>4, <2>1, <2>2
  <2>7. r.list \cap r.free = {}
    BY <2>1
  <2> QED
    BY ONLY <2>3, <2>4, <2>5, <2>6, <2>7 DEF BlocksInv
<1> QED
  BY <1>3, <1>5, <1>6 DEF TblInv

Freeing(k, p, t, y, x, s, r) ==
  /\ TasksInv(k, p) /\ t \in k.list /\ t # Idle /\ p[t].at = "delete" /\ y \in Prio /\ y = k.tcb[t].prio /\ y \notin k.rdy
  /\ x \in PcType /\ x.at = "sched" /\ s = [p EXCEPT ![t] = x]
  /\ Shape(r) /\ r.app = k.app /\ r.rdy = k.rdy /\ r.tbl = [k.tbl EXCEPT ![y] = Null] /\ r.tcb = [k.tcb EXCEPT ![t] = Tcb(0)]
  /\ r.list = k.list \ {t} /\ r.free = k.free \cup {t} /\ r.ev = k.ev /\ r.evfree = k.evfree /\ r.cur = k.cur
  /\ r.prioCur = k.prioCur /\ r.lock \in Nat
LEMMA FreeKeeps ==
  ASSUME NEW k, NEW p, NEW t, NEW y, NEW x, NEW s, NEW r, Freeing(k, p, t, y, x, s, r)
  PROVE  TasksInv(r, s)
<1> SUFFICES ASSUME TasksInv(k, p), t \in k.list, t # Idle, p[t].at = "delete", y \in Prio, y = k.tcb[t].prio, y \notin k.rdy,
                    x \in PcType, x.at = "sched", s = [p EXCEPT ![t] = x], Shape(r), r.app = k.app, r.rdy = k.rdy,
                    r.tbl = [k.tbl EXCEPT ![y] = Null], r.tcb = [k.tcb EXCEPT ![t] = Tcb(0)], r.list = k.list \ {t},
                    r.free = k.free \cup {t}, r.ev = k.ev, r.evfree = k.evfree, r.cur = k.cur,
                    r.prioCur = k.prioCur, r.lock \in Nat
             PROVE  TasksInv(r, s)
  BY DEF Freeing
<1>1. /\ OsType(k) /\ k.list \subseteq Task /\ t \in Task /\ k.tcb \in [Task -> TcbType] /\ p \in [Task -> PcType]
      /\ ArgInv(k.app, p) /\ OwnPrioInv(k) /\ StatInv(k, p) /\ ReadyInv(k, p) /\ ListsInv(k, p) /\ TblInv(k, p)
      /\ CallInv(k, p) /\ EcbInv(k, p) /\ IdleInv(k, p) /\ DlyInv(k) /\ App[k.app].dly \in Nat
      /\ k.tbl \in [Prio -> Task \cup {Null, Reserved}]
      /\ \A v \in k.list : v # t => k.tcb[v].prio # y
  BY Basics DEF TasksInv, OsType
<1>2. Tcb(0) \in TcbType /\ Tcb(0).dly = 0
  BY CoreAssumption DEF Tcb, TcbType, Prio
<1>3. r.tcb \in [Task -> TcbType] /\ r.tcb[t] = Tcb(0) /\ \A v \in Task \ {t} : r.tcb[v] = k.tcb[v]
  BY <1>1, <1>2
<1>4. s \in [Task -> PcType] /\ s[t] = x /\ \A v \in Task \ {t} : s[v] = p[v]
  BY <1>1
<1>5. OsType(r)
  <2>1. r.tbl \in [Prio -> Task \cup {Null, Reserved}]
    BY <1>1
  <2> QED
    BY <1>1, <1>3, <2>1 DEF OsType
<1>6. x.at \notin Creating \cup OnEvent \cup PendStage \cup SemStage \cup MboxStage \cup QStage
             \cup {"delete", "block", "wake", "qcreate", "semset", "mboxpost", "mboxopt", "qpost", "qpostfront", "qopt"}
      /\ p[t].at \notin OnEvent \cup {"block", "wake", "qcreate"}
  BY DEF Creating, OnEvent, PendStage, SemStage, MboxStage, QStage
<1>7. ArgInv(r.app, s)
  BY ONLY <1>1, <1>4, <1>6, r.app = k.app DEF ArgInv, Blk
<1>8. IdleInv(r, s) /\ DlyInv(r) /\ App[r.app].ops \cap Others = {}
  BY <1>1, <1>2, <1>3, <1>4, CoreAssumption DEF IdleInv, TasksInv, DlyInv
<1>9. TblInv(r, s)
  <2>1. /\ p \in [Task -> PcType] /\ OsType(k) /\ TblInv(k, p) /\ s[t].at = "sched" /\ \A v \in Task \ {t} : s[v] = p[v]
        /\ \A v \in Task \ {t} : r.tcb[v] = k.tcb[v]
    BY <1>1, <1>3, <1>4
  <2> QED
    BY ONLY <2>1, t \in k.list, p[t].at = "delete", y \in Prio, y = k.tcb[t].prio, r.tbl = [k.tbl EXCEPT ![y] = Null],
            r.list = k.list \ {t}, r.free = k.free \cup {t}, FreeTbl
<1>10. \A v \in k.list \ {t} : s[v] = p[v] /\ r.tcb[v] = k.tcb[v]
  BY <1>1, <1>3, <1>4
<1>11. ReadyInv(r, s)
  <2>1. Living(r, s) = Living(k, p) /\ \A v \in Living(k, p) : r.tcb[v] = k.tcb[v]
    BY ONLY <1>10, p[t].at = "delete", r.list = k.list \ {t} DEF Living
  <2> QED
    BY ONLY <1>1, <2>1, r.rdy = k.rdy DEF ReadyInv, ReadyAt
<1>12. \A v \in k.list \ {t} : Pend(r, s, v) <=> Pend(k, p, v)
  BY ONLY <1>10 DEF Pend, Blk
<1>13. StatInv(r, s)
  BY ONLY <1>1, <1>10, <1>12, r.list = k.list \ {t}, r.ev = k.ev DEF StatInv, StatAt, Blk
<1>14. ListsInv(r, s)
  <2>1. ASSUME NEW e \in DOMAIN k.ev
        PROVE  /\ \A v \in k.list \ {t} : ListedAt(r, s, e, v)
               /\ \A z \in k.ev[e].wait : \E v \in k.list \ {t} : k.tcb[v].prio = z
    <3>1. /\ \A v \in k.list : ListedAt(k, p, e, v)
          /\ \A z \in k.ev[e].wait : \E v \in k.list : k.tcb[v].prio = z
      BY <1>1 DEF ListsInv
    <3>2. y \notin k.ev[e].wait
      <4>1. ~ Pend(k, p, t)
        BY <1>6 DEF Pend, Blk
      <4> QED
        BY <3>1, <4>1 DEF ListedAt
    <3>3. \A v \in k.list \ {t} : ListedAt(r, s, e, v)
      BY ONLY <1>10, <1>12, <3>1, r.ev = k.ev DEF ListedAt
    <3> QED
      BY ZenonT(40), <3>1, <3>2, <3>3
  <2> QED
    BY ONLY <1>10, <2>1, r.list = k.list \ {t}, r.ev = k.ev DEF ListsInv
<1>15. CallInv(r, s)
  BY ONLY <1>1, <1>10, r.list = k.list \ {t}, r.ev = k.ev DEF CallInv
<1>16. EcbInv(r, s)
  BY ONLY <1>1, <1>6, <1>10, r.list = k.list \ {t}, r.ev = k.ev, r.evfree = k.evfree DEF EcbInv
<1> QED
  BY <1>5, <1>7, <1>8, <1>9, <1>11, <1>13, <1>14, <1>15, <1>16 DEF TasksInv, WaitInv
-----------------------------------------------------------------------------
\* A task calls a service on an event.
Entering(k, p, t, x) ==
  /\ t \in k.list /\ t # Idle /\ p[t].at = "app" /\ x.at \in OnEvent /\ x \in PcType
  /\ x.at \in PendStage => x.n \in 0 .. App[k.app].dly
  /\ x.at = "semset" => x.n \in 0 .. 1
  /\ x.at \in {"mboxpost", "mboxopt", "qpost", "qpostfront", "qopt"} => x.n \in Letter \cup {Null}
  /\ x.at \in {"mboxopt", "qopt"} => x.at \in App[k.app].ops
  /\ x.at \in SemStage => x.svc = "sem"
  /\ x.at \in MboxStage => x.svc = "mbox"
  /\ x.at \in QStage => x.svc = "q"
  /\ x.ev \in DOMAIN k.ev /\ k.ev[x.ev].type = x.svc
  /\ \A u \in k.list \ {t} : p[u].at \in OnEvent /\ p[u].ev = x.ev => x.at \notin DelStage /\ p[u].at \notin DelStage
LEMMA PcEnters ==
  ASSUME NEW k, NEW p, TasksInv(k, p), NEW t, NEW x, Entering(k, p, t, x), NEW s, s = [p EXCEPT ![t] = x]
  PROVE  TasksInv(k, s)
<1>0. t \in k.list /\ t # Idle /\ p[t].at = "app" /\ x \in PcType /\ x.at \in OnEvent
  BY DEF Entering
<1>1. OsType(k) /\ p \in [Task -> PcType] /\ ArgInv(k.app, p) /\ t \in Task
  BY <1>0, Basics DEF TasksInv
<1>2. x.at \notin Creating \cup {"app", "delete", "qcreate", "block", "wake", "sched"}
      /\ p[t].at \notin Creating \cup {"delete", "qcreate", "block", "wake", "sched"}
  BY <1>0 DEF Creating, OnEvent, SemStage, MboxStage, QStage
<1>3. ArgInv(k.app, s)
  BY <1>0, <1>1, <1>2 DEF ArgInv, Blk, Entering
<1>4. IdleInv(k, s)
  BY <1>0, <1>1 DEF TasksInv, IdleInv, OsType
<1>5. TblInv(k, s) /\ ReadyInv(k, s) /\ WaitInv(k, s) /\ EcbInv(k, s)
  <2>1. /\ OsType(k) /\ p \in [Task -> PcType] /\ t \in Task /\ x \in PcType /\ s = [p EXCEPT ![t] = x]
        /\ TblInv(k, p) /\ EcbInv(k, p) /\ WaitInv(k, p) /\ ReadyInv(k, p)
        /\ p[t].at # "qcreate" /\ x.at # "qcreate" /\ ~ Blk(p, t) /\ p[t].at # "delete" /\ x.at # "delete"
        /\ p[t].at \notin Creating /\ x.at \notin Creating /\ (t \notin k.list => x.at \in {"app", "sched"})
    BY <1>0, <1>1, <1>2 DEF Blk, TasksInv
  <2> QED
    BY ONLY <2>1, PcTbl, PcWait, PcReady, PcEcb
<1>6. CallInv(k, s)
  <2>1. CallInv(k, p)
    BY DEF TasksInv
  <2> QED
    BY <1>0, <1>1, <2>1, PcEnter DEF Entering
<1> QED
  BY <1>3, <1>4, <1>5, <1>6 DEF TasksInv

\* It goes on to wait; it goes on after the look at the scheduler.
Blocking(k, p, t, x) == /\ t \in k.list /\ t # Idle /\ p[t].at \in PendStage
                        /\ x \in PcType /\ x.at = "block" /\ x.svc \in Kinds
LEMMA PcBlocks ==
  ASSUME NEW k, NEW p, TasksInv(k, p), NEW t, NEW x, Blocking(k, p, t, x), NEW s, s = [p EXCEPT ![t] = x]
  PROVE  TasksInv(k, s) /\ k.tcb[t].stat \cap Kinds = {} /\ k.tcb[t].pend = "ok"
<1>0. t \in k.list /\ t # Idle /\ p[t].at \in PendStage /\ x \in PcType /\ x.at = "block" /\ x.svc \in Kinds
  BY DEF Blocking
<1>1. OsType(k) /\ p \in [Task -> PcType] /\ ArgInv(k.app, p) /\ t \in Task /\ StatAt(k, p, t)
  BY <1>0, Basics DEF TasksInv, StatInv
<1>2. x.at \notin Creating \cup OnEvent \cup PendStage \cup SemStage \cup MboxStage \cup QStage
             \cup {"delete", "qcreate", "semset", "mboxpost", "mboxopt", "qpost", "qpostfront", "qopt"}
      /\ p[t].at \notin Creating \cup {"delete", "qcreate", "block", "wake", "sched"}
  BY <1>0 DEF Creating, PendStage, OnEvent, SemStage, MboxStage, QStage
<1>3. ArgInv(k.app, s)
  BY <1>0, <1>1, <1>2 DEF ArgInv, Blk
<1>4. IdleInv(k, s)
  BY <1>0, <1>1 DEF TasksInv, IdleInv, OsType
<1>5. TblInv(k, s) /\ ReadyInv(k, s) /\ WaitInv(k, s) /\ EcbInv(k, s) /\ CallInv(k, s)
  <2>1. /\ OsType(k) /\ p \in [Task -> PcType] /\ t \in Task /\ x \in PcType /\ s = [p EXCEPT ![t] = x]
        /\ TblInv(k, p) /\ EcbInv(k, p) /\ WaitInv(k, p) /\ ReadyInv(k, p) /\ CallInv(k, p) /\ x.at \notin OnEvent
        /\ p[t].at # "qcreate" /\ x.at # "qcreate" /\ ~ Blk(p, t) /\ p[t].at # "delete" /\ x.at # "delete"
        /\ p[t].at \notin Creating /\ x.at \notin Creating /\ (t \notin k.list => x.at \in {"app", "sched"})
    BY <1>0, <1>1, <1>2 DEF Blk, TasksInv
  <2> QED
    BY ONLY <2>1, PcTbl, PcWait, PcReady, PcEcb, PcCall
<1>6. k.tcb[t].stat \cap Kinds = {} /\ k.tcb[t].pend = "ok"
  BY <1>0, <1>1, <1>2 DEF StatAt, Blk, Kinds
<1> QED
  BY <1>3, <1>4, <1>5, <1>6 DEF TasksInv

LEMMA PcWakes ==
  ASSUME NEW k, NEW p, TasksInv(k, p), NEW t \in Task, p[t].at = "block",
         NEW x \in PcType, x = [p[t] EXCEPT !.at = "wake"], NEW s, s = [p EXCEPT ![t] = x]
  PROVE  TasksInv(k, s)
<1>1. OsType(k) /\ p \in [Task -> PcType] /\ ArgInv(k.app, p) /\ IdleInv(k, p)
  BY Basics DEF TasksInv
<1>2. x.at = "wake" /\ x.ev = p[t].ev /\ x.n = p[t].n /\ x.svc = p[t].svc
  BY <1>1 DEF PcType
<1>3. x.at \notin Creating \cup OnEvent \cup PendStage \cup SemStage \cup MboxStage \cup QStage
             \cup {"app", "delete", "qcreate", "semset", "mboxpost", "mboxopt", "qpost", "qpostfront", "qopt"}
      /\ p[t].at \notin Creating \cup {"app", "delete", "qcreate", "wake", "sched"}
  BY <1>2 DEF Creating, PendStage, OnEvent, SemStage, MboxStage, QStage
<1>4. s[t] = x /\ \A u \in Task : u # t => s[u] = p[u]
  BY <1>1
<1>5. s \in [Task -> PcType] /\ t # Idle
  BY <1>1, <1>3 DEF IdleInv
<1>6. ArgInv(k.app, s)
  <2>1. Blk(p, t) /\ Blk(s, t) /\ x.svc \in Kinds
    BY <1>1, <1>2, <1>4 DEF ArgInv, Blk
  <2>2. \A u \in Task : u # t => (Blk(s, u) <=> Blk(p, u))
    BY <1>4 DEF Blk
  <2> QED
    BY ONLY <1>1, <1>3, <1>4, <1>5, <2>1, <2>2 DEF ArgInv
<1>7. IdleInv(k, s)
  BY <1>1, <1>4, <1>5 DEF IdleInv, OsType
<1>8. TblInv(k, s) /\ ReadyInv(k, s) /\ EcbInv(k, s) /\ CallInv(k, s)
  <2>1. t \in k.list
    BY <1>1 DEF TasksInv, TblInv, BlocksInv
  <2>2. /\ OsType(k) /\ p \in [Task -> PcType] /\ t \in Task /\ x \in PcType /\ s = [p EXCEPT ![t] = x]
        /\ TblInv(k, p) /\ EcbInv(k, p) /\ ReadyInv(k, p) /\ CallInv(k, p) /\ x.at \notin OnEvent
        /\ p[t].at # "qcreate" /\ x.at # "qcreate" /\ p[t].at # "delete" /\ x.at # "delete"
        /\ p[t].at \notin Creating /\ x.at \notin Creating /\ (t \notin k.list => x.at \in {"app", "sched"})
    BY <1>1, <1>3, <2>1 DEF TasksInv
  <2> QED
    BY ONLY <2>2, PcTbl, PcReady, PcEcb, PcCall
<1>9. WaitInv(k, s)
  <2>1. \A u \in k.list : u \in Task /\ (Blk(s, u) <=> Blk(p, u)) /\ (Blk(p, u) => s[u].ev = p[u].ev /\ s[u].svc = p[u].svc)
    <3>1. Blk(s, t) /\ Blk(p, t) /\ k.list \subseteq Task
      BY <1>1, <1>2, <1>4 DEF Blk, OsType
    <3> QED
      BY <1>2, <1>4, <3>1 DEF Blk
  <2>2. \A u \in k.list : Pend(k, s, u) <=> Pend(k, p, u)
    BY ONLY <2>1 DEF Pend
  <2>3. \A u \in k.list : Pend(k, p, u) => Blk(p, u)
    BY DEF Pend
  <2>4. StatInv(k, p) /\ ListsInv(k, p)
    BY DEF TasksInv, WaitInv
  <2>5. StatInv(k, s)
    BY ONLY <2>1, <2>2, <2>3, <2>4 DEF StatInv, StatAt
  <2>6. ListsInv(k, s)
    BY ONLY <2>1, <2>2, <2>3, <2>4 DEF ListsInv, ListedAt
  <2> QED
    BY <2>5, <2>6 DEF WaitInv
<1> QED
  BY <1>1, <1>6, <1>7, <1>8, <1>9 DEF TasksInv
-----------------------------------------------------------------------------
\* Waits end, or begin where nothing lies, and no event changes otherwise.
Void(k, x, e) == /\ k.ev[e].type = "q" => x[k.ev[e].ptr].n = 0
                 /\ k.ev[e].type = "mbox" => k.ev[e].ptr = Null
                 /\ k.ev[e].type = "sem" => k.ev[e].cnt = 0
LEMMA WaitsChange ==
  ASSUME NEW k, NEW r, NEW f, NEW x, QcbInv(k, f), KeptInv(k, x), KeepsEcbs(k, r), k.ev \in [DOMAIN k.ev -> EcbType],
         \A e \in DOMAIN k.ev : r.ev[e].wait \subseteq k.ev[e].wait \/ Void(k, x, e)
  PROVE  QcbInv(r, f) /\ KeptInv(r, x)
<1>1. QcbInv(r, f)
  BY ONLY QcbInv(k, f), KeepsEcbs(k, r) DEF QcbInv, KeepsEcbs
<1>2. ASSUME NEW e \in DOMAIN k.ev
      PROVE  /\ r.ev[e].type = "q" /\ x[r.ev[e].ptr].n > 0 => r.ev[e].wait = {}
             /\ r.ev[e].type = "mbox" => r.ev[e].ptr \in Letter \cup {Null} /\ (r.ev[e].ptr # Null => r.ev[e].wait = {})
             /\ r.ev[e].type = "sem" => r.ev[e].cnt <= MaxCnt /\ (r.ev[e].cnt > 0 => r.ev[e].wait = {})
  <2>1. /\ r.ev[e].type = k.ev[e].type /\ r.ev[e].ptr = k.ev[e].ptr /\ r.ev[e].cnt = k.ev[e].cnt
        /\ k.ev[e].type = "q" /\ x[k.ev[e].ptr].n > 0 => k.ev[e].wait = {}
        /\ k.ev[e].type = "mbox" => k.ev[e].ptr \in Letter \cup {Null} /\ (k.ev[e].ptr # Null => k.ev[e].wait = {})
        /\ k.ev[e].type = "sem" => k.ev[e].cnt <= MaxCnt /\ (k.ev[e].cnt > 0 => k.ev[e].wait = {})
    BY DEF KeepsEcbs, KeptInv
  <2>2. CASE r.ev[e].wait \subseteq k.ev[e].wait
    <3>1. k.ev[e].wait = {} => r.ev[e].wait = {}
      BY <2>2
    <3> QED
      BY ONLY <2>1, <3>1
  <2>3. CASE Void(k, x, e)
    BY ONLY <2>1, <2>3 DEF Void
  <2> QED
    BY <2>2, <2>3
<1>3. KeptInv(r, x)
  BY ONLY <1>2, KeptInv(k, x), KeepsEcbs(k, r) DEF KeptInv, KeepsEcbs
<1> QED
  BY <1>1, <1>3

\* An event that is no queue before or after changes.
Sound(c) == /\ c.type # "q"
            /\ c.type = "mbox" => c.ptr \in Letter \cup {Null} /\ (c.ptr # Null => c.wait = {})
            /\ c.type = "sem" => c.cnt <= MaxCnt /\ (c.cnt > 0 => c.wait = {})
LEMMA EventChanges ==
  ASSUME NEW k, NEW r, NEW f, NEW x, QcbInv(k, f), KeptInv(k, x), DOMAIN r.ev = DOMAIN k.ev, NEW e \in DOMAIN k.ev,
         k.ev[e].type # "q", Sound(r.ev[e]), \A g \in DOMAIN k.ev : g # e => r.ev[g] = k.ev[g]
  PROVE  QcbInv(r, f) /\ KeptInv(r, x)
<1>1. \A g \in DOMAIN k.ev : (r.ev[g].type = "q" <=> k.ev[g].type = "q") /\ (r.ev[g].type = "q" => r.ev[g] = k.ev[g])
  BY DEF Sound
<1>2. QcbInv(r, f)
  BY ONLY <1>1, QcbInv(k, f), DOMAIN r.ev = DOMAIN k.ev DEF QcbInv
<1>3. KeptInv(r, x)
  <2>1. ASSUME NEW g \in DOMAIN k.ev
        PROVE  /\ r.ev[g].type = "q" /\ x[r.ev[g].ptr].n > 0 => r.ev[g].wait = {}
               /\ r.ev[g].type = "mbox" => r.ev[g].ptr \in Letter \cup {Null} /\ (r.ev[g].ptr # Null => r.ev[g].wait = {})
               /\ r.ev[g].type = "sem" => r.ev[g].cnt <= MaxCnt /\ (r.ev[g].cnt > 0 => r.ev[g].wait = {})
    <3>1. CASE g = e
      BY ONLY <3>1, Sound(r.ev[e]) DEF Sound
    <3>2. CASE g # e
      BY <3>2 DEF KeptInv
    <3> QED
      BY <3>1, <3>2
  <2> QED
    BY ONLY <2>1, KeptInv(k, x), DOMAIN r.ev = DOMAIN k.ev DEF KeptInv
<1> QED
  BY <1>2, <1>3

\* What lies in a queue changes.
Ring(z) == z \in QcbType /\ (z.in = z.out + z.n \/ z.in = z.out + z.n - Size)
LEMMA QueueChanges ==
  ASSUME NEW k, NEW x, KeptInv(k, x), NEW c \in Qcb, NEW z, Ring(z), NEW y, y = [x EXCEPT ![c] = z],
         \A e \in DOMAIN k.ev : k.ev[e].type = "q" /\ k.ev[e].ptr = c /\ z.n > 0 => k.ev[e].wait = {},
         \A e \in DOMAIN k.ev : k.ev[e].type = "q" => k.ev[e].ptr \in Qcb
  PROVE  KeptInv(k, y)
<1>1. x \in [Qcb -> QcbType]
  BY DEF KeptInv
<1>2. y \in [Qcb -> QcbType] /\ y[c] = z /\ \A d \in Qcb : d # c => y[d] = x[d]
  BY <1>1 DEF Ring
<1>3. \A d \in Qcb : y[d].in = y[d].out + y[d].n \/ y[d].in = y[d].out + y[d].n - Size
  <2>1. \A d \in Qcb : x[d].in = x[d].out + x[d].n \/ x[d].in = x[d].out + x[d].n - Size
    BY DEF KeptInv
  <2> QED
    BY ONLY <1>2, <2>1, Ring(z) DEF Ring
<1>4. \A e \in DOMAIN k.ev : k.ev[e].type = "q" /\ y[k.ev[e].ptr].n > 0 => k.ev[e].wait = {}
  <2>1. \A e \in DOMAIN k.ev : k.ev[e].type = "q" /\ x[k.ev[e].ptr].n > 0 => k.ev[e].wait = {}
    BY DEF KeptInv
  <2> QED
    BY <1>2, <2>1
<1> QED
  BY ONLY <1>2, <1>3, <1>4, KeptInv(k, x) DEF KeptInv

LEMMA Turns ==
  ASSUME NEW S \in Nat \ {0}, NEW i \in 0 .. S - 1, NEW o \in 0 .. S - 1, NEW n \in 0 .. S, i = o + n \/ i = o + n - S,
         NEW j \in 0 .. S - 1
  PROVE  /\ n > 0 /\ (j = o + 1 \/ j = o + 1 - S) => i = j + (n - 1) \/ i = j + (n - 1) - S
         /\ n < S /\ (j = i + 1 \/ j = i + 1 - S) => j = o + (n + 1) \/ j = o + (n + 1) - S
         /\ n < S /\ j = (IF o = 0 THEN S ELSE o) - 1 => i = j + (n + 1) \/ i = j + (n + 1) - S
OBVIOUS

LEMMA Rings ==
  ASSUME NEW x \in QcbType, Ring(x), NEW m \in Letter \cup {Null}
  PROVE  /\ x.n > 0 => Ring(Out(x)) /\ Oldest(x) \in Letter \cup {Null}
         /\ x.n < Size => Ring(In(x, m)) /\ Ring(ToFront(x, m))
         /\ Ring(EmptyQ(x)) /\ EmptyQ(x).n = 0 /\ Ring([NewQ EXCEPT !.buf = x.buf]) /\ [NewQ EXCEPT !.buf = x.buf].n = 0
<1>1. /\ Size \in Nat \ {0} /\ x.in \in 0 .. Size - 1 /\ x.out \in 0 .. Size - 1 /\ x.n \in 0 .. Size
      /\ x.buf \in [0 .. Size - 1 -> Letter \cup {Null}]
  BY QAssumption DEF QcbType
<1>2. x.in = x.out + x.n \/ x.in = x.out + x.n - Size
  BY DEF Ring
<1>3. \A j \in 0 .. Size - 1 : Wrap(j + 1) \in 0 .. Size - 1 /\ (Wrap(j + 1) = j + 1 \/ Wrap(j + 1) = j + 1 - Size)
  BY ONLY <1>1 DEF Wrap
<1>4. ASSUME x.n > 0
      PROVE  Ring(Out(x)) /\ Oldest(x) \in Letter \cup {Null}
  <2>1. PICK j \in 0 .. Size - 1 : j = Wrap(x.out + 1) /\ (j = x.out + 1 \/ j = x.out + 1 - Size)
    BY ONLY <1>1, <1>3
  <2>2. PICK z : z = Out(x)
    OBVIOUS
  <2>3. x.n - 1 \in 0 .. Size
    BY ONLY <1>1, <1>4
  <2>4. z.in = x.in /\ z.out = j /\ z.n = x.n - 1 /\ z \in QcbType
    BY ONLY <2>1, <2>2, <2>3, x \in QcbType DEF QcbType, Out
  <2>10. x.in = j + (x.n - 1) \/ x.in = j + (x.n - 1) - Size
    <3>1. PICK a \in 0 .. Size - 1, o \in 0 .. Size - 1, n \in 0 .. Size : a = x.in /\ o = x.out /\ n = x.n
      BY ONLY <1>1
    <3>2. n > 0 /\ (a = o + n \/ a = o + n - Size) /\ (j = o + 1 \/ j = o + 1 - Size)
      BY ONLY <1>2, <1>4, <2>1, <3>1
    <3>3. a = j + (n - 1) \/ a = j + (n - 1) - Size
      BY ONLY <1>1, <3>2, Turns
    <3> QED
      BY ONLY <3>1, <3>3
  <2>5. Ring(z)
    BY ONLY <2>4, <2>10 DEF Ring
  <2> QED
    BY ONLY <1>1, <2>2, <2>5 DEF Oldest
<1>5. ASSUME x.n < Size
      PROVE  Ring(In(x, m)) /\ Ring(ToFront(x, m))
  <2>1. PICK j \in 0 .. Size - 1 : j = Wrap(x.in + 1) /\ (j = x.in + 1 \/ j = x.in + 1 - Size)
    BY ONLY <1>1, <1>3
  <2>2. PICK z : z = In(x, m)
    OBVIOUS
  <2>3. x.n + 1 \in 0 .. Size
    BY ONLY <1>1, <1>5
  <2>4. z.in = j /\ z.out = x.out /\ z.n = x.n + 1 /\ z \in QcbType
    BY ONLY <1>1, <2>1, <2>2, <2>3, x \in QcbType, m \in Letter \cup {Null} DEF QcbType, In
  <2>12. PICK a \in 0 .. Size - 1, o \in 0 .. Size - 1, n \in 0 .. Size : a = x.in /\ o = x.out /\ n = x.n
    BY ONLY <1>1
  <2>13. n < Size /\ (a = o + n \/ a = o + n - Size)
    BY ONLY <1>2, <1>5, <2>12
  <2>10. j = x.out + (x.n + 1) \/ j = x.out + (x.n + 1) - Size
    <3>1. j = a + 1 \/ j = a + 1 - Size
      BY ONLY <2>1, <2>12
    <3>2. j = o + (n + 1) \/ j = o + (n + 1) - Size
      BY ONLY <1>1, <2>13, <3>1, Turns
    <3> QED
      BY ONLY <2>12, <3>2
  <2>5. Ring(z)
    BY ONLY <2>4, <2>10 DEF Ring
  <2>6. PICK i \in 0 .. Size - 1 : i = (IF x.out = 0 THEN Size ELSE x.out) - 1
    BY ONLY <1>1
  <2>7. PICK y : y = ToFront(x, m)
    OBVIOUS
  <2>8. y.in = x.in /\ y.out = i /\ y.n = x.n + 1 /\ y \in QcbType
    BY ONLY <1>1, <2>3, <2>6, <2>7, x \in QcbType, m \in Letter \cup {Null} DEF QcbType, ToFront
  <2>11. x.in = i + (x.n + 1) \/ x.in = i + (x.n + 1) - Size
    <3>1. i = (IF o = 0 THEN Size ELSE o) - 1
      BY ONLY <2>6, <2>12
    <3>2. a = i + (n + 1) \/ a = i + (n + 1) - Size
      BY ONLY <1>1, <2>13, <3>1, Turns
    <3> QED
      BY ONLY <2>12, <3>2
  <2>9. Ring(y)
    BY ONLY <2>8, <2>11 DEF Ring
  <2> QED
    BY ONLY <2>2, <2>5, <2>7, <2>9
<1>6. 0 \in 0 .. Size - 1 /\ 0 \in 0 .. Size /\ 0 = 0 + 0
  BY ONLY <1>1
<1>7. Ring(EmptyQ(x)) /\ EmptyQ(x).n = 0
  BY ONLY <1>6, x \in QcbType DEF QcbType, EmptyQ, Ring
<1>8. Ring([NewQ EXCEPT !.buf = x.buf]) /\ [NewQ EXCEPT !.buf = x.buf].n = 0
  BY ONLY <1>6, x \in QcbType DEF QcbType, NewQ, Ring
<1> QED
  BY ONLY <1>4, <1>5, <1>7, <1>8
-----------------------------------------------------------------------------
\* The processor.  A service called by the task that runs, and what it may do
\* to the ready list if it returns without a look at the scheduler.
Creates(k, r) == r.app = k.app /\ r.list = k.list /\ \A u \in k.list : r.tcb[u] = k.tcb[u]
CpuStep(k, p, t, x, r) ==
  /\ t = k.cur /\ t \in k.list /\ p[t].at \notin {"delete", "sched", "block"} /\ x.at # "delete"
  /\ KeepsTasks(k, r) \/ Creates(k, r)
  /\ r.cur = k.cur /\ r.prioCur = k.prioCur /\ r.lock <= App[k.app].locks + 1
  /\ x.at \in PendStage \cup {"block", "wake"} => r.lock = 0
  /\ x.at \notin {"sched", "block"} /\ r.lock = 0 =>
       /\ k.lock = 0 /\ (k.prioCur \in k.rdy => k.prioCur \in r.rdy)
       /\ App[k.app].ops \cap {"mboxopt", "qopt"} = {} => r.rdy \subseteq k.rdy
LEMMA CpuKeeps ==
  ASSUME NEW k, NEW p \in [Task -> PcType], OsType(k), CurInv(k, p), RunInv(k, p), NEW t, NEW x \in PcType,
         NEW s, s = [p EXCEPT ![t] = x], NEW r, CpuStep(k, p, t, x, r)
  PROVE  CurInv(r, s) /\ RunInv(r, s)
<1>1. /\ t = k.cur /\ t \in k.list /\ p[t].at \notin {"delete", "sched", "block"} /\ x.at # "delete"
      /\ r.app = k.app /\ r.list = k.list /\ (\A u \in k.list : r.tcb[u].prio = k.tcb[u].prio)
      /\ r.cur = k.cur /\ r.prioCur = k.prioCur /\ k.list \subseteq Task /\ t \in Task
  BY DEF CpuStep, KeepsTasks, Creates, OsType
<1>2. s[t] = x /\ \A u \in Task : u # t => s[u] = p[u]
  BY <1>1
<1>3. \A u \in k.list : s[u].at # "delete"
  BY <1>1, <1>2 DEF CurInv
<1>4. CurInv(r, s)
  <2>1. k.tcb[t].prio = k.prioCur
    BY <1>1 DEF CurInv
  <2> QED
    BY ONLY <1>1, <1>2, <1>3, <2>1, CpuStep(k, p, t, x, r) DEF CurInv, CpuStep
<1>5. RunInv(r, s)
  BY ONLY <1>1, <1>2, RunInv(k, p), CpuStep(k, p, t, x, r) DEF RunInv, CpuStep
<1> QED
  BY <1>4, <1>5

\* An interrupt.
LEMMA CurIsr ==
  ASSUME NEW k, NEW p, OsType(k), CurInv(k, p), NEW r, KeepsTasks(k, r), KeepsCpu(k, r),
         \A t \in k.list : p[t].at = "delete" => k.tcb[t].prio \notin r.rdy /\ r.tcb[t].stat = {} /\ r.tcb[t].dly = 0
  PROVE  CurInv(r, p)
<1>1. k.list \subseteq Task /\ k.cur \in Task
  BY DEF OsType
<1> QED
  BY <1>1 DEF CurInv, KeepsTasks, KeepsCpu

\* The look at the scheduler.
LEMMA LeastIn ==
  ASSUME NEW S \in SUBSET Nat, S # {}
  PROVE  \E x \in S : \A y \in S : x <= y
<1>1. PICK x \in S : \A y \in S : ~ (<<y, x>> \in OpToRel(<, Nat))
  BY NatLessThanWellFounded, WFMin, Zenon
<1>2. ASSUME NEW y \in S
      PROVE  ~ (y < x)
  BY <1>1, Zenon DEF OpToRel
<1> QED
  BY <1>2

LEMMA Highest ==
  ASSUME NEW k, NEW p, TasksInv(k, p)
  PROVE  /\ OS_SchedNew(k) \in k.rdy /\ \A x \in k.rdy : OS_SchedNew(k) <= x
         /\ OS_SchedNew(k) \in Prio /\ k.tbl[OS_SchedNew(k)] \in k.list
         /\ k.tcb[k.tbl[OS_SchedNew(k)]].prio = OS_SchedNew(k)
<1>1. OsType(k) /\ IdleInv(k, p) /\ ReadyInv(k, p) /\ OwnPrioInv(k) /\ k.rdy \subseteq Prio
  BY DEF TasksInv, OsType, TblInv
<1>2. Idle \in Living(k, p)
  BY <1>1 DEF IdleInv, Living
<1>3. LowestPrio \in k.rdy
  BY <1>1, <1>2 DEF IdleInv, ReadyInv, ReadyAt
<1>4. \E m \in k.rdy : \A x \in k.rdy : m <= x
  <2>1. k.rdy \in SUBSET Nat /\ k.rdy # {} /\ LowestPrio \in Nat
    BY <1>1, <1>3, CoreAssumption DEF Prio
  <2> QED
    BY <2>1, LeastIn
<1>5. OS_SchedNew(k) \in k.rdy /\ \A x \in k.rdy : OS_SchedNew(k) <= x
  BY ONLY <1>4 DEF OS_SchedNew, Min
<1>6. PICK t \in Living(k, p) : k.tcb[t].prio = OS_SchedNew(k)
  BY <1>1, <1>5 DEF ReadyInv
<1>7. t \in k.list /\ k.tbl[OS_SchedNew(k)] = t
  BY <1>1, <1>6 DEF Living, OwnPrioInv
<1> QED
  BY <1>1, <1>5, <1>6, <1>7

LEMMA SchedKeeps ==
  ASSUME NEW k, NEW p, TasksInv(k, p), CurInv(k, p), NEW r, r = OS_Sched(k)
  PROVE  /\ TasksInv(r, p) /\ CurInv(r, p) /\ r.cur \in r.list /\ r.lock = k.lock
         /\ r.lock = 0 => r.prioCur \in r.rdy /\ \A x \in r.rdy : r.prioCur <= x
         /\ r.ev = k.ev /\ r.app = k.app
<1>1. OsType(k) /\ Shape(k) /\ OwnPrioInv(k) /\ k.list \subseteq Task /\ Null \notin Task /\ k.lock \in Nat
  BY CoreAssumption DEF TasksInv, OsType, TblInv
<1>2. PICK h \in Prio : /\ h = OS_SchedNew(k) /\ h \in k.rdy /\ (\A x \in k.rdy : h <= x)
                        /\ k.tbl[h] \in k.list /\ k.tcb[k.tbl[h]].prio = h
  BY Highest
<1>3. CASE k.lock = 0 /\ h # k.prioCur
  <2>1. r = [k EXCEPT !.cur = k.tbl[h], !.prioCur = h]
    BY <1>2, <1>3 DEF OS_Sched
  <2>2. /\ Shape(r) /\ r.app = k.app /\ r.rdy = k.rdy /\ r.tbl = k.tbl /\ r.tcb = k.tcb /\ r.list = k.list /\ r.free = k.free
        /\ r.ev = k.ev /\ r.evfree = k.evfree /\ r.cur = k.tbl[h] /\ r.prioCur = h /\ r.lock = 0
    BY ONLY <1>1, <1>3, <2>1 DEF Shape
  <2>3. OsType(r)
    BY ONLY <1>1, <1>2, <2>2, h \in Prio DEF OsType
  <2>4. TasksInv(r, p)
    BY ONLY TasksInv(k, p), <2>2, <2>3, DataKept
  <2>5. CurInv(r, p)
    BY ONLY CurInv(k, p), <1>2, <1>3, <2>2 DEF CurInv
  <2> QED
    BY ONLY <1>2, <1>3, <2>2, <2>4, <2>5
<1>4. CASE k.lock # 0 \/ h = k.prioCur
  <2>1. r = k
    BY <1>2, <1>4 DEF OS_Sched
  <2>2. k.cur \in k.list
    BY <1>1, <1>2, <1>4 DEF CurInv
  <2> QED
    BY <1>2, <1>4, <2>1, <2>2
<1> QED
  BY <1>3, <1>4

LEMMA SchedRuns ==
  ASSUME NEW k, NEW p, k.lock = 0 => k.prioCur \in k.rdy /\ \A x \in k.rdy : k.prioCur <= x
  PROVE  RunInv(k, p)
BY DEF RunInv
-----------------------------------------------------------------------------
\* The task that runs and is neither about to look at the scheduler nor half
\* deleted.
LEMMA Running ==
  ASSUME NEW k, NEW p, NEW f, NEW x, Holding(k, p, f, x), NEW t, t = k.cur, p[t].at \notin {"sched", "delete"}
  PROVE  /\ TasksInv(k, p) /\ t \in k.list /\ t \in Task /\ k.tcb[t].prio = k.prioCur
         /\ (p[t].at # "app" => t # Idle)
         /\ p[t].at \in PendStage \cup {"block", "wake"} => k.lock = 0
         /\ \A u \in k.list : p[u].at # "delete"
<1>1. TasksInv(k, p) /\ CurInv(k, p) /\ OsType(k) /\ IdleInv(k, p)
  BY DEF Holding, TasksInv
<1>2. t \in k.list /\ k.tcb[t].prio = k.prioCur /\ (p[t].at \in PendStage \cup {"block", "wake"} => k.lock = 0)
  BY <1>1 DEF CurInv
<1>3. \A u \in k.list : p[u].at # "delete"
  BY <1>1 DEF CurInv
<1> QED
  BY <1>1, <1>2, <1>3 DEF OsType, IdleInv

LEMMA TaskHolds ==
  ASSUME NEW k, NEW p, NEW f, NEW x, Holding(k, p, f, x), NEW t, NEW y \in PcType,
         NEW s, s = [p EXCEPT ![t] = y], NEW r, CpuStep(k, p, t, y, r), TasksInv(r, s),
         NEW g, NEW z, QcbInv(r, g), KeptInv(r, z)
  PROVE  Holding(r, s, g, z)
<1>1. p \in [Task -> PcType] /\ OsType(k) /\ CurInv(k, p) /\ RunInv(k, p)
  BY DEF Holding, TasksInv, ArgInv
<1>2. CurInv(r, s) /\ RunInv(r, s)
  BY ONLY <1>1, y \in PcType, s = [p EXCEPT ![t] = y], CpuStep(k, p, t, y, r), CpuKeeps
<1> QED
  BY <1>2 DEF Holding

\* The fields of a place.
LEMMA Places ==
  ASSUME NEW k, NEW p, TasksInv(k, p), NEW t \in Task
  PROVE  /\ p[t] \in PcType /\ \A l \in Label : /\ [p[t] EXCEPT !.at = l] \in PcType
                                                /\ [p[t] EXCEPT !.at = l].at = l
                                                /\ [p[t] EXCEPT !.at = l].ev = p[t].ev
                                                /\ [p[t] EXCEPT !.at = l].n = p[t].n
                                                /\ [p[t] EXCEPT !.at = l].svc = p[t].svc
         /\ InApp \in PcType /\ InApp.at = "app"
         /\ \A l \in Label : [InApp EXCEPT !.at = l] \in PcType /\ [InApp EXCEPT !.at = l].at = l
<1>1. p \in [Task -> PcType]
  BY DEF TasksInv, ArgInv
<1>2. InApp \in PcType /\ InApp.at = "app"
  BY DEF InApp, PcType, Label
<1>3. p[t] \in PcType
  BY <1>1
<1>4. ASSUME NEW l \in Label, NEW y \in PcType
      PROVE  /\ [y EXCEPT !.at = l] \in PcType /\ [y EXCEPT !.at = l].at = l /\ [y EXCEPT !.at = l].ev = y.ev
             /\ [y EXCEPT !.at = l].n = y.n /\ [y EXCEPT !.at = l].svc = y.svc
  BY DEF PcType
<1> QED
  BY ONLY <1>2, <1>3, <1>4

LEMMA Labels == /\ OnEvent \cup {"app", "sched", "block", "wake", "delete", "create", "refused", "link", "qcreate"} \subseteq Label
                /\ PendStage \subseteq OnEvent /\ DelStage \subseteq OnEvent
                /\ OnEvent \cap ({"app", "sched", "block", "wake", "delete", "qcreate"} \cup Creating) = {}
BY DEF Label, OnEvent, Creating, PendStage, DelStage, SemStage, MboxStage, QStage

\* The tasks that wait for an event.
LEMMA WaitersAre ==
  ASSUME NEW k, NEW p, TasksInv(k, p), NEW e \in DOMAIN k.ev
  PROVE  /\ \A y \in k.ev[e].wait : k.tbl[y] \in Waiters(k, p, e) /\ k.tcb[k.tbl[y]].prio = y
         /\ k.ev[e].wait # {} => Min(k.ev[e].wait) \in k.ev[e].wait
<1>1. OsType(k) /\ OwnPrioInv(k) /\ ListsInv(k, p) /\ k.ev[e] \in EcbType
  BY DEF TasksInv, TblInv, WaitInv, OsType
<1>2. ASSUME NEW y \in k.ev[e].wait
      PROVE  k.tbl[y] \in Waiters(k, p, e) /\ k.tcb[k.tbl[y]].prio = y
  <2>1. PICK u \in k.list : k.tcb[u].prio = y
    BY <1>1 DEF ListsInv
  <2>2. k.tbl[y] = u
    BY <1>1, <2>1 DEF OwnPrioInv
  <2>3. ListedAt(k, p, e, u)
    BY <1>1 DEF ListsInv
  <2> QED
    BY <2>1, <2>2, <2>3 DEF ListedAt, Waiters
<1>3. ASSUME k.ev[e].wait # {}
      PROVE  Min(k.ev[e].wait) \in k.ev[e].wait
  <2>1. k.ev[e].wait \in SUBSET Nat
    BY <1>1, CoreAssumption DEF EcbType, Prio
  <2>2. \E m \in k.ev[e].wait : \A z \in k.ev[e].wait : m <= z
    BY <1>3, <2>1, LeastIn
  <2> QED
    BY ONLY <2>2 DEF Min
<1> QED
  BY <1>2, <1>3
-----------------------------------------------------------------------------
\* The calls on events.
LEMMA EnterHolds ==
  ASSUME Holding(os, pc, qfree, q), NEW t, t = os.cur, NEW op, op \in OnEvent, NEW type \in Kinds, NEW e \in Event, NEW n,
         Enter(t, op, type, e, n), op \in PendStage => n \in 0 .. MaxDly /\ os.lock = 0,
         op = "semset" => n \in 0 .. 1,
         op \in {"mboxpost", "mboxopt", "qpost", "qpostfront", "qopt"} => n \in Letter \cup {Null},
         n \in Nat \cup Letter \cup {Null},
         op \in SemStage => type = "sem", op \in MboxStage => type = "mbox", op \in QStage => type = "q",
         \A u \in Task : type = "sem" => pc[u].at # "semdel", \A u \in Task : type = "mbox" => pc[u].at # "mboxdel",
         \A u \in Task : type = "q" => pc[u].at # "qdel", op \in DelStage => Idling(e)
  PROVE  Holding(os', pc', qfree, q)
<1>1. PICK y : y = [at |-> op, ev |-> e, n |-> n, svc |-> type]
  OBVIOUS
<1>2. y.at = op /\ y.ev = e /\ y.n = n /\ y.svc = type
  BY <1>1
<1>3. t # Idle /\ pc[t].at = "app" /\ os.ev[e].type = type /\ pc' = [pc EXCEPT ![t] = y] /\ os' = os
  BY <1>1 DEF Enter, Calls, At, Starts
<1>4. /\ TasksInv(os, pc) /\ t \in os.list /\ t \in Task /\ OsType(os) /\ pc \in [Task -> PcType] /\ ArgInv(os.app, pc)
      /\ CallInv(os, pc) /\ os.list \subseteq Task
  BY <1>3, Running DEF TasksInv, ArgInv, OsType
<1>5. y \in PcType
  BY <1>1, <1>4, EcbOf, Labels DEF PcType, Event
<1>6. \A u \in os.list \ {t} : pc[u].at \in OnEvent /\ pc[u].ev = e => op \notin DelStage /\ pc[u].at \notin DelStage
  <2>1. ASSUME NEW u \in os.list, pc[u].at \in OnEvent, pc[u].ev = e, pc[u].at \in DelStage
        PROVE  FALSE
    <3>1. os.ev[e].type = pc[u].svc /\ u \in Task
      BY <1>4, <2>1 DEF CallInv
    <3>2. /\ pc[u].at = "semdel" => pc[u].svc = "sem"
          /\ pc[u].at = "mboxdel" => pc[u].svc = "mbox"
          /\ pc[u].at = "qdel" => pc[u].svc = "q"
      BY <1>4, <3>1 DEF ArgInv, SemStage, MboxStage, QStage
    <3>3. type = pc[u].svc
      BY ONLY <1>3, <3>1
    <3>4. /\ type = "sem" => pc[u].at # "semdel"
          /\ type = "mbox" => pc[u].at # "mboxdel"
          /\ type = "q" => pc[u].at # "qdel"
      BY <3>1
    <3> QED
      BY ONLY <2>1, <3>2, <3>3, <3>4 DEF DelStage
  <2>2. ASSUME NEW u \in os.list, pc[u].at \in OnEvent, pc[u].ev = e, op \in DelStage
        PROVE  FALSE
    BY <1>4, <2>2, Labels DEF Idling
  <2> QED
    BY <2>1, <2>2
<1>7. TasksInv(os, pc')
  <2>1. Entering(os, pc, t, y)
    <3>1. op \in App[os.app].ops
      BY DEF Enter, Calls, Ops
    <3> QED
      BY <1>2, <1>3, <1>4, <1>5, <1>6, <3>1 DEF Entering, MaxDly, Event
  <2>2. PICK s : s = pc' /\ s = [pc EXCEPT ![t] = y]
    BY <1>3
  <2>3. TasksInv(os, s)
    BY ONLY <1>4, <2>1, <2>2, PcEnters
  <2> QED
    BY ONLY <2>2, <2>3
<1>8. CpuStep(os, pc, t, y, os)
  <2>1. op \notin {"delete", "block", "wake", "sched"}
    BY Labels
  <2>2. CurInv(os, pc)
    BY DEF Holding
  <2> QED
    BY <1>2, <1>3, <1>4, <2>1, <2>2 DEF CpuStep, KeepsTasks, CurInv
<1>9. QcbInv(os, qfree) /\ KeptInv(os, q)
  BY DEF Holding
<1> QED
  BY ONLY <1>3, <1>5, <1>7, <1>8, <1>9, Holding(os, pc, qfree, q), TaskHolds

LEMMA WaitHolds ==
  ASSUME Holding(os, pc, qfree, q), NEW t, t = os.cur, pc[t].at \in PendStage, NEW e, e = pc[t].ev, NEW type, type = pc[t].svc,
         Void(os, q, e), os' = WaitFor(os, e, type, pc[t].n), Goto(t, "block")
  PROVE  Holding(os', pc', qfree, q)
<1>1. /\ TasksInv(os, pc) /\ t \in os.list /\ t \in Task /\ t # Idle /\ os.lock = 0 /\ pc \in [Task -> PcType]
      /\ OsType(os) /\ CallInv(os, pc) /\ ArgInv(os.app, pc) /\ pc[t].at \in OnEvent
  <2>1. pc[t].at \notin {"sched", "delete", "app"} /\ pc[t].at \in OnEvent
    BY Labels
  <2> QED
    BY <2>1, Running DEF TasksInv, ArgInv
<1>2. e \in DOMAIN os.ev /\ os.ev[e].type = type /\ pc[t].n \in 0 .. App[os.app].dly /\ type \in Kinds
  <2>1. pc[t].svc \in Kinds
    BY <1>1 DEF ArgInv, OnEvent, SemStage, MboxStage, QStage, PendStage, Kinds
  <2> QED
    BY <1>1, <2>1 DEF CallInv, ArgInv
<1>3. PICK y \in PcType : /\ y.at = "block" /\ y.ev = e /\ y.svc = type /\ y.n = pc[t].n /\ pc' = [pc EXCEPT ![t] = y]
  <2>1. "block" \in Label
    BY Labels
  <2>2. PICK y : y = [pc[t] EXCEPT !.at = "block"]
    OBVIOUS
  <2>3. y \in PcType /\ y.at = "block" /\ y.ev = pc[t].ev /\ y.n = pc[t].n /\ y.svc = pc[t].svc
    BY ONLY <1>1, <2>1, <2>2, Places
  <2>4. pc' = [pc EXCEPT ![t] = y]
    BY <1>1, <2>2 DEF Goto
  <2> QED
    BY <1>2, <2>3, <2>4
<1>4. PICK s : s = pc' /\ s = [pc EXCEPT ![t] = y] /\ s[t] = y
  BY <1>1, <1>3
<1>5. TasksInv(os, s) /\ os.tcb[t].stat \cap Kinds = {} /\ os.tcb[t].pend = "ok"
  <2>1. Blocking(os, pc, t, y)
    BY <1>1, <1>2, <1>3 DEF Blocking
  <2> QED
    BY ONLY <1>1, <1>4, <2>1, PcBlocks
<1>6. TasksInv(os', s)
  <2>1. s[t].at \in {"block", "wake"} /\ s[t].ev = e /\ os.ev[e].type = s[t].svc /\ os' = WaitFor(os, e, s[t].svc, pc[t].n)
    BY <1>2, <1>3, <1>4
  <2> QED
    BY ONLY <1>1, <1>2, <1>5, <2>1, t = os.cur, WaitKeeps
<1>7. Waiting(os, os', t, e, type, pc[t].n)
  <2>1. pc[t].n \in Nat
    BY <1>1, <1>2 DEF OsType
  <2> QED
    BY ONLY <1>1, <1>2, <2>1, t = os.cur, os' = WaitFor(os, e, type, pc[t].n), WaitForIs
<1>8. QcbInv(os', qfree) /\ KeptInv(os', q)
  <2>1. KeepsEcbs(os, os') /\ \A g \in DOMAIN os.ev : os'.ev[g].wait \subseteq os.ev[g].wait \/ Void(os, q, g)
    BY ONLY <1>7, Void(os, q, e) DEF Waiting
  <2>2. QcbInv(os, qfree) /\ KeptInv(os, q) /\ os.ev \in [DOMAIN os.ev -> EcbType]
    BY <1>1 DEF Holding, OsType
  <2> QED
    BY ONLY <2>1, <2>2, WaitsChange
<1>9. CpuStep(os, pc, t, y, os')
  <2>1. CurInv(os, pc)
    BY DEF Holding
  <2> QED
    BY ONLY <1>1, <1>3, <1>7, <2>1, t = os.cur, Labels DEF CpuStep, Waiting, KeepsCpu, CurInv
<1> QED
  BY ONLY <1>3, <1>4, <1>6, <1>8, <1>9, Holding(os, pc, qfree, q), TaskHolds
-----------------------------------------------------------------------------
\* A call that leaves nothing half done ends.
Leaving(k, p, t, y) == /\ t \in Task /\ t # Idle /\ y \in PcType /\ y.at \in {"app", "sched"}
                       /\ p[t].at \notin Creating \cup {"delete", "qcreate"}
                       /\ ~ Blk(p, t) \/ (k.tcb[t].stat \cap Kinds = {} /\ k.tcb[t].pend = "ok")
LEMMA Leaves ==
  ASSUME NEW k, NEW p, TasksInv(k, p), NEW t, NEW y, Leaving(k, p, t, y), NEW s, s = [p EXCEPT ![t] = y]
  PROVE  TasksInv(k, s)
<1>1. /\ t \in Task /\ t # Idle /\ y \in PcType /\ y.at \in {"app", "sched"}
      /\ p[t].at \notin Creating \cup {"delete", "qcreate"}
      /\ ~ Blk(p, t) \/ (k.tcb[t].stat \cap Kinds = {} /\ k.tcb[t].pend = "ok")
  BY DEF Leaving
<1> QED
  BY ONLY <1>1, TasksInv(k, p), s = [p EXCEPT ![t] = y], PcLeaves

LEMMA LeaveHolds ==
  ASSUME NEW k, NEW p, NEW f, NEW x, Holding(k, p, f, x), NEW t, NEW y, NEW r, TasksInv(r, p), Leaving(r, p, t, y),
         NEW s, s = [p EXCEPT ![t] = y], CpuStep(k, p, t, y, r), NEW g, NEW z, QcbInv(r, g), KeptInv(r, z)
  PROVE  Holding(r, s, g, z)
<1>1. TasksInv(r, s)
  BY ONLY TasksInv(r, p), Leaving(r, p, t, y), s = [p EXCEPT ![t] = y], Leaves
<1>2. y \in PcType
  BY DEF Leaving
<1> QED
  BY ONLY <1>1, <1>2, Holding(k, p, f, x), s = [p EXCEPT ![t] = y], CpuStep(k, p, t, y, r), QcbInv(r, g),
          KeptInv(r, z), TaskHolds

\* Where it is then.
Ends(p, s, t, y) == y \in PcType /\ s = [p EXCEPT ![t] = y]
LEMMA EndsAre ==
  ASSUME NEW k, NEW p, TasksInv(k, p), NEW t \in Task
  PROVE  /\ pc = p /\ Return(t) => Ends(p, pc', t, InApp) /\ InApp.at = "app"
         /\ pc = p /\ Goto(t, "sched") => Ends(p, pc', t, [p[t] EXCEPT !.at = "sched"]) /\ [p[t] EXCEPT !.at = "sched"].at = "sched"
<1>1. "sched" \in Label
  BY Labels
<1>2. /\ InApp \in PcType /\ InApp.at = "app" /\ [p[t] EXCEPT !.at = "sched"] \in PcType
      /\ [p[t] EXCEPT !.at = "sched"].at = "sched"
  BY ONLY <1>1, TasksInv(k, p), t \in Task, Places
<1>3. ASSUME pc = p, Return(t)
      PROVE  Ends(p, pc', t, InApp)
  BY ONLY <1>2, <1>3 DEF Return, Ends
<1>4. ASSUME pc = p, Goto(t, "sched")
      PROVE  Ends(p, pc', t, [p[t] EXCEPT !.at = "sched"])
  BY ONLY <1>2, <1>4 DEF Goto, Ends
<1> QED
  BY ONLY <1>2, <1>3, <1>4

\* The running task was given what it waited for, or its time is over.
LEMMA WakeHolds ==
  ASSUME Holding(os, pc, qfree, q), NEW t, t = os.cur, pc[t].at = "wake", os' = Awake(os, t, pc[t].ev), Return(t)
  PROVE  Holding(os', pc', qfree, q)
<1>1. /\ TasksInv(os, pc) /\ t \in os.list /\ t \in Task /\ t # Idle /\ os.lock = 0 /\ OsType(os) /\ Blk(pc, t)
      /\ os.tcb[t].prio = os.prioCur /\ CurInv(os, pc) /\ RunInv(os, pc) /\ QcbInv(os, qfree) /\ KeptInv(os, q)
  BY Running DEF TasksInv, Holding, Blk
<1>2. os.tcb[t].stat = {}
  <2>1. os.prioCur \in os.rdy
    BY <1>1 DEF RunInv
  <2>2. ReadyAt(os, t)
    BY <1>1 DEF TasksInv, ReadyInv, Living
  <2> QED
    BY <1>1, <2>1, <2>2 DEF ReadyAt
<1>3. TasksInv(os', pc) /\ os'.tcb[t].stat = {} /\ os'.tcb[t].pend = "ok" /\ Waking(os, os', t, pc[t].ev)
  BY ONLY <1>1, <1>2, os' = Awake(os, t, pc[t].ev), AwakeKeeps
<1>4. Ends(pc, pc', t, InApp) /\ InApp.at = "app"
  BY ONLY <1>1, Return(t), EndsAre
<1>5. Leaving(os', pc, t, InApp)
  <2>1. "wake" \notin Creating \cup {"delete", "qcreate"}
    BY DEF Creating
  <2> QED
    BY ONLY <1>1, <1>3, <1>4, <2>1, pc[t].at = "wake" DEF Leaving, Ends
<1>6. CpuStep(os, pc, t, InApp, os')
  <2>1. "app" \notin PendStage
    BY DEF PendStage
  <2>2. KeepsTasks(os, os') /\ KeepsCpu(os, os') /\ os'.rdy = os.rdy /\ os.lock <= App[os.app].locks + 1
    BY ONLY <1>1, <1>3 DEF Waking, CurInv
  <2> QED
    BY ONLY <1>1, <1>4, <2>1, <2>2, t = os.cur, pc[t].at = "wake" DEF CpuStep, KeepsCpu
<1>7. QcbInv(os', qfree) /\ KeptInv(os', q)
  <2>1. KeepsEcbs(os, os') /\ os.ev \in [DOMAIN os.ev -> EcbType]
    BY ONLY <1>1, <1>3 DEF Waking, OsType
  <2>2. ASSUME NEW e \in DOMAIN os.ev PROVE os'.ev[e].wait \subseteq os.ev[e].wait
    BY ONLY <1>3 DEF Waking
  <2> QED
    BY ONLY <1>1, <2>1, <2>2, WaitsChange
<1> QED
  BY ONLY <1>3, <1>4, <1>5, <1>6, <1>7, Holding(os, pc, qfree, q), LeaveHolds DEF Ends
-----------------------------------------------------------------------------
\* The call of task t on event e ends with waiters of e readied.
OnCall(k, p, t, e, type) == /\ t = k.cur /\ t \in k.list /\ t \in Task /\ t # Idle /\ p[t].at \in OnEvent \ PendStage
                            /\ e = p[t].ev /\ e \in DOMAIN k.ev /\ type = p[t].svc /\ k.ev[e].type = type /\ type \in Kinds
LEMMA Calling ==
  ASSUME NEW k, NEW p, NEW f, NEW x, Holding(k, p, f, x), NEW t, t = k.cur, p[t].at \in OnEvent
  PROVE  /\ TasksInv(k, p) /\ QcbInv(k, f) /\ KeptInv(k, x) /\ OsType(k) /\ CurInv(k, p) /\ ArgInv(k.app, p)
         /\ t \in k.list /\ t \in Task /\ p[t].ev \in DOMAIN k.ev /\ k.ev[p[t].ev].type = p[t].svc
         /\ p[t].at \in SemStage => p[t].svc = "sem"
         /\ p[t].at \in MboxStage => p[t].svc = "mbox"
         /\ p[t].at \in QStage => p[t].svc = "q"
         /\ p[t].at \notin PendStage => OnCall(k, p, t, p[t].ev, p[t].svc)
         /\ ~ Blk(p, t) /\ p[t].at \notin Creating \cup {"delete", "qcreate", "sched", "block", "wake"}
<1>1. p[t].at \notin Creating \cup {"app", "delete", "qcreate", "sched", "block", "wake"}
  BY Labels
<1>2. /\ TasksInv(k, p) /\ t \in k.list /\ t \in Task /\ t # Idle
  BY <1>1, Running
<1>3. QcbInv(k, f) /\ KeptInv(k, x) /\ CurInv(k, p) /\ OsType(k) /\ ArgInv(k.app, p) /\ CallInv(k, p)
  BY DEF Holding, TasksInv
<1>4. /\ p[t].at \in SemStage => p[t].svc = "sem"
      /\ p[t].at \in MboxStage => p[t].svc = "mbox"
      /\ p[t].at \in QStage => p[t].svc = "q"
  BY <1>2, <1>3 DEF ArgInv
<1>5. p[t].ev \in DOMAIN k.ev /\ k.ev[p[t].ev].type = p[t].svc
  BY <1>2, <1>3 DEF CallInv
<1>6. p[t].svc \in Kinds
  BY <1>4 DEF OnEvent, Kinds
<1> QED
  BY ONLY <1>1, <1>2, <1>3, <1>4, <1>5, <1>6, t = k.cur, p[t].at \in OnEvent DEF OnCall, Blk

LEMMA PostHolds ==
  ASSUME Holding(os, pc, qfree, q), NEW t, NEW e, NEW type, OnCall(os, pc, t, e, type),
         NEW ts, ts \subseteq Waiters(os, pc, e), NEW msg \in Letter \cup {Null}, NEW stat \in {"ok", "abort"},
         os' = Readied(os, e, ts, msg, type, stat),
         Goto(t, "sched") \/ (pc[t].at \in {"mboxopt", "qopt"} /\ Return(t))
  PROVE  Holding(os', pc', qfree, q)
<1>1. /\ TasksInv(os, pc) /\ t = os.cur /\ t \in os.list /\ t \in Task /\ t # Idle /\ OsType(os) /\ ~ Blk(pc, t)
      /\ QcbInv(os, qfree) /\ KeptInv(os, q) /\ CurInv(os, pc)
      /\ pc[t].at \notin Creating \cup {"delete", "qcreate", "sched", "block"}
      /\ pc[t].at \in {"mboxopt", "qopt"} => pc[t].at \in App[os.app].ops
  <2>1. OnCall(os, pc, t, e, type) /\ Holding(os, pc, qfree, q)
    OBVIOUS
  <2>2. t = os.cur /\ t \in os.list /\ t \in Task /\ t # Idle /\ pc[t].at \in OnEvent
    BY ONLY <2>1 DEF OnCall
  <2>3. /\ TasksInv(os, pc) /\ OsType(os) /\ ~ Blk(pc, t) /\ QcbInv(os, qfree) /\ KeptInv(os, q) /\ CurInv(os, pc)
        /\ ArgInv(os.app, pc) /\ pc[t].at \notin Creating \cup {"delete", "qcreate", "sched", "block"}
    BY ONLY <2>1, <2>2, Calling
  <2>4. pc[t].at \in {"mboxopt", "qopt"} => pc[t].at \in App[os.app].ops
    BY ONLY <2>2, <2>3 DEF ArgInv
  <2> QED
    BY ONLY <2>2, <2>3, <2>4
<1>2. TasksInv(os', pc) /\ Readying(os, os', e, ts, type, stat)
  <2>1. e \in DOMAIN os.ev /\ type \in Kinds /\ os.ev[e].type = type /\ ts \in SUBSET Waiters(os, pc, e)
    BY DEF OnCall
  <2> QED
    BY ONLY ZenonT(40), <1>1, <2>1, msg \in Letter \cup {Null}, stat \in {"ok", "abort"}, os' = Readied(os, e, ts, msg, type, stat),
            ReadiedKeeps
<1>3. KeepsTasks(os, os') /\ KeepsCpu(os, os') /\ KeepsEcbs(os, os') /\ os.rdy \subseteq os'.rdy
  BY ONLY <1>2 DEF Readying
<1>4. QcbInv(os', qfree) /\ KeptInv(os', q)
  <2>1. ASSUME NEW g \in DOMAIN os.ev PROVE os'.ev[g].wait \subseteq os.ev[g].wait
    BY ONLY <1>2 DEF Readying
  <2>2. os.ev \in [DOMAIN os.ev -> EcbType]
    BY ONLY <1>1 DEF OsType
  <2> QED
    BY ONLY <1>1, <1>3, <2>1, <2>2, WaitsChange
<1>5. PICK y : /\ Ends(pc, pc', t, y) /\ y.at \in {"app", "sched"}
               /\ y.at # "sched" => pc[t].at \in {"mboxopt", "qopt"}
  BY ONLY <1>1, EndsAre, Goto(t, "sched") \/ (pc[t].at \in {"mboxopt", "qopt"} /\ Return(t))
<1>6. Leaving(os', pc, t, y)
  BY ONLY <1>1, <1>5 DEF Leaving, Ends
<1>7. CpuStep(os, pc, t, y, os')
  <2>1. y.at \notin PendStage \cup {"block", "wake", "delete"} /\ os.lock <= App[os.app].locks + 1
    BY ONLY <1>1, <1>5 DEF PendStage, CurInv
  <2> QED
    BY ONLY <1>1, <1>3, <1>5, <2>1 DEF CpuStep, KeepsCpu
<1> QED
  BY ONLY <1>2, <1>4, <1>5, <1>6, <1>7, Holding(os, pc, qfree, q), LeaveHolds DEF Ends

\* It ends with a change of the event's contents, or of nothing.
DataChange(k, e, c, r) == r = [k EXCEPT !.ev = [k.ev EXCEPT ![e] = c]]
LEMMA DataKeeps ==
  ASSUME NEW k, NEW p, NEW f, NEW x, TasksInv(k, p), QcbInv(k, f), KeptInv(k, x), NEW e \in DOMAIN k.ev, NEW c \in EcbType,
         c.type = k.ev[e].type, c.wait = k.ev[e].wait, Sound(c), NEW r, DataChange(k, e, c, r)
  PROVE  /\ TasksInv(r, p) /\ QcbInv(r, f) /\ KeptInv(r, x) /\ KeepsTasks(k, r) /\ KeepsCpu(k, r)
         /\ r.rdy = k.rdy /\ r.tcb = k.tcb
<1>1. OsType(k) /\ Shape(k) /\ r = [k EXCEPT !.ev = [k.ev EXCEPT ![e] = c]]
  BY DEF TasksInv, OsType, DataChange
<1>4. PICK E : E = [k.ev EXCEPT ![e] = c]
  OBVIOUS
<1>5. DOMAIN E = DOMAIN k.ev /\ E[e] = c /\ (\A g \in DOMAIN k.ev : g # e => E[g] = k.ev[g]) /\ E \in [DOMAIN k.ev -> EcbType]
  BY <1>1, <1>4 DEF OsType
<1>6. /\ Shape(r) /\ r.app = k.app /\ r.rdy = k.rdy /\ r.tbl = k.tbl /\ r.tcb = k.tcb /\ r.list = k.list
      /\ r.free = k.free /\ r.ev = E /\ r.evfree = k.evfree
      /\ r.cur = k.cur /\ r.prioCur = k.prioCur /\ r.lock = k.lock
  BY ONLY <1>1, <1>4 DEF Shape
<1>7. OsType(r)
  BY ONLY <1>1, <1>5, <1>6 DEF OsType
<1>8. TasksInv(r, p)
  <2>1. DOMAIN r.ev = DOMAIN k.ev /\ \A g \in DOMAIN k.ev : r.ev[g].type = k.ev[g].type /\ r.ev[g].wait = k.ev[g].wait
    BY <1>5, <1>6
  <2> QED
    BY ONLY TasksInv(k, p), <1>6, <1>7, <2>1, DataKept
<1>9. QcbInv(r, f) /\ KeptInv(r, x)
  <2>1. k.ev[e].type # "q" /\ Sound(r.ev[e]) /\ DOMAIN r.ev = DOMAIN k.ev
    BY <1>5, <1>6 DEF Sound
  <2>2. \A g \in DOMAIN k.ev : g # e => r.ev[g] = k.ev[g]
    BY <1>5, <1>6
  <2> QED
    BY ONLY QcbInv(k, f), KeptInv(k, x), e \in DOMAIN k.ev, <2>1, <2>2, EventChanges
<1> QED
  BY ONLY <1>6, <1>8, <1>9 DEF KeepsTasks, KeepsCpu

LEMMA DataHolds ==
  ASSUME Holding(os, pc, qfree, q), NEW t, t = os.cur, pc[t].at \in OnEvent, NEW c \in EcbType,
         c.type = os.ev[pc[t].ev].type, c.wait = os.ev[pc[t].ev].wait, Sound(c),
         DataChange(os, pc[t].ev, c, os'), Return(t)
  PROVE  Holding(os', pc', qfree, q)
<1>1. /\ TasksInv(os, pc) /\ t \in os.list /\ t \in Task /\ OsType(os) /\ ~ Blk(pc, t) /\ pc \in [Task -> PcType]
      /\ QcbInv(os, qfree) /\ KeptInv(os, q) /\ CurInv(os, pc) /\ t # Idle
      /\ pc[t].at \notin Creating \cup {"delete", "qcreate", "sched", "block", "wake"} /\ pc[t].ev \in DOMAIN os.ev
  <2>1. pc[t].at # "app"
    BY Labels
  <2> QED
    BY ZenonT(40), <2>1, Calling DEF ArgInv, TasksInv, IdleInv
<1>2. PICK e : e = pc[t].ev /\ e \in DOMAIN os.ev
  BY <1>1
<1>3. /\ TasksInv(os', pc) /\ QcbInv(os', qfree) /\ KeptInv(os', q) /\ KeepsTasks(os, os') /\ KeepsCpu(os, os')
      /\ os'.rdy = os.rdy /\ os'.tcb = os.tcb
  <2>1. c.type = os.ev[e].type /\ c.wait = os.ev[e].wait /\ DataChange(os, e, c, os')
    BY <1>2
  <2> QED
    BY ONLY <1>1, <1>2, <2>1, c \in EcbType, Sound(c), DataKeeps
<1>10. Ends(pc, pc', t, InApp) /\ InApp.at = "app"
  BY ONLY <1>1, Return(t), EndsAre
<1>11. Leaving(os', pc, t, InApp)
  BY ONLY <1>1, <1>10 DEF Leaving, Ends
<1>12. CpuStep(os, pc, t, InApp, os')
  <2>1. "app" \notin PendStage \cup {"block", "wake", "delete"} /\ os.lock <= App[os.app].locks + 1
    BY ONLY <1>1 DEF PendStage, CurInv
  <2> QED
    BY ONLY <1>1, <1>3, <1>10, <2>1, t = os.cur DEF CpuStep, KeepsCpu
<1> QED
  BY ONLY <1>3, <1>10, <1>11, <1>12, Holding(os, pc, qfree, q), LeaveHolds DEF Ends

\* It ends, and what lies in a queue changed or nothing did.
LEMMA ReturnHolds ==
  ASSUME Holding(os, pc, qfree, q), NEW t, t = os.cur, pc[t].at \in OnEvent, NEW z, KeptInv(os, z), UNCHANGED os, Return(t)
  PROVE  Holding(os', pc', qfree, z)
<1>1. /\ TasksInv(os, pc) /\ t \in os.list /\ t \in Task /\ OsType(os) /\ ~ Blk(pc, t) /\ pc \in [Task -> PcType]
      /\ QcbInv(os, qfree) /\ CurInv(os, pc) /\ t # Idle
      /\ pc[t].at \notin Creating \cup {"delete", "qcreate", "sched", "block", "wake"} /\ pc[t].ev \in DOMAIN os.ev
  <2>1. pc[t].at # "app"
    BY Labels
  <2> QED
    BY <2>1, Calling DEF ArgInv, TasksInv, IdleInv
<1>10. Ends(pc, pc', t, InApp) /\ InApp.at = "app"
  BY ONLY <1>1, Return(t), EndsAre
<1>11. Leaving(os, pc, t, InApp)
  BY ONLY <1>1, <1>10 DEF Leaving, Ends
<1>12. CpuStep(os, pc, t, InApp, os)
  <2>1. "app" \notin PendStage \cup {"block", "wake", "delete"} /\ os.lock <= App[os.app].locks + 1
    BY ONLY <1>1 DEF PendStage, CurInv
  <2> QED
    BY ONLY <1>1, <1>10, <2>1, t = os.cur DEF CpuStep, KeepsTasks
<1>13. Holding(os, pc', qfree, z)
  BY ONLY <1>1, <1>10, <1>11, <1>12, Holding(os, pc, qfree, q), KeptInv(os, z), LeaveHolds DEF Ends
<1> QED
  BY ONLY <1>13, UNCHANGED os
-----------------------------------------------------------------------------
\* Interrupts: what the handler calls, then the look at the scheduler.
Clear(k, p, r) == \A t \in k.list : p[t].at = "delete" => k.tcb[t].prio \notin r.rdy /\ r.tcb[t].stat = {} /\ r.tcb[t].dly = 0
LEMMA IsrHolds ==
  ASSUME NEW k, NEW p, NEW f, NEW x, Holding(k, p, f, x), NEW r, TasksInv(r, p), KeepsTasks(k, r), KeepsCpu(k, r), Clear(k, p, r),
         NEW g, NEW z, QcbInv(r, g), KeptInv(r, z), NEW y, y = OSIntExit(r)
  PROVE  Holding(y, p, g, z)
<1>1. CurInv(r, p)
  <2>1. OsType(k) /\ CurInv(k, p)
    BY DEF Holding, TasksInv
  <2> QED
    BY ONLY <2>1, KeepsTasks(k, r), KeepsCpu(k, r), Clear(k, p, r), CurIsr DEF Clear
<1>2. y = OS_Sched(r)
  BY DEF OSIntExit
<1>3. /\ TasksInv(y, p) /\ CurInv(y, p) /\ y.ev = r.ev /\ y.app = r.app
      /\ y.lock = 0 => y.prioCur \in y.rdy /\ \A a \in y.rdy : y.prioCur <= a
  BY ONLY <1>1, <1>2, TasksInv(r, p), SchedKeeps
<1>4. RunInv(y, p)
  BY ONLY <1>3, SchedRuns
<1>5. QcbInv(y, g) /\ KeptInv(y, z)
  BY ONLY <1>3, QcbInv(r, g), KeptInv(r, z) DEF QcbInv, KeptInv
<1> QED
  BY ONLY <1>1, <1>3, <1>4, <1>5 DEF Holding

\* A handler that posts: the waiters of an event are not about to be deleted.
LEMMA ReadyClear ==
  ASSUME NEW k, NEW p, NEW f, NEW x, Holding(k, p, f, x), NEW r, KeepsTasks(k, r), NEW ts \in SUBSET k.list,
         \A u \in ts : p[u].at # "delete", \A u \in Task \ ts : r.tcb[u] = k.tcb[u],
         r.rdy \subseteq k.rdy \cup {k.tcb[u].prio : u \in ts}
  PROVE  Clear(k, p, r)
<1>1. TasksInv(k, p) /\ CurInv(k, p)
  BY DEF Holding
<1>2. /\ k.list \subseteq Task
      /\ \A t, u \in k.list : t # u => k.tcb[t].prio # k.tcb[u].prio
  BY <1>1, Basics
<1>3. ASSUME NEW t \in k.list, p[t].at = "delete"
      PROVE  k.tcb[t].prio \notin r.rdy /\ r.tcb[t].stat = {} /\ r.tcb[t].dly = 0
  <2>1. k.tcb[t].prio \notin k.rdy /\ k.tcb[t].stat = {} /\ k.tcb[t].dly = 0
    BY <1>1, <1>3 DEF CurInv
  <2>2. t \notin ts /\ t \in Task
    BY <1>2, <1>3
  <2>3. \A u \in ts : k.tcb[u].prio # k.tcb[t].prio
    BY <1>2, <2>2
  <2> QED
    BY <2>1, <2>2, <2>3
<1> QED
  BY <1>3 DEF Clear

LEMMA IsrPostHolds ==
  ASSUME NEW k, NEW p, NEW f, NEW x, Holding(k, p, f, x), NEW e \in DOMAIN k.ev, NEW type \in Kinds, k.ev[e].type = type,
         NEW ts, ts \subseteq Waiters(k, p, e), NEW msg \in Letter \cup {Null}, NEW stat \in {"ok", "abort"},
         NEW y, y = OSIntExit(Readied(k, e, ts, msg, type, stat))
  PROVE  Holding(y, p, f, x)
<1>1. PICK r : r = Readied(k, e, ts, msg, type, stat) /\ y = OSIntExit(r)
  OBVIOUS
<1>2. TasksInv(k, p) /\ QcbInv(k, f) /\ KeptInv(k, x) /\ k.ev \in [DOMAIN k.ev -> EcbType] /\ k.list \subseteq Task
  BY DEF Holding, TasksInv, OsType
<1>3. TasksInv(r, p) /\ Readying(k, r, e, ts, type, stat)
  <2>1. ts \in SUBSET Waiters(k, p, e)
    OBVIOUS
  <2> QED
    BY ONLY <1>1, <1>2, <2>1, e \in DOMAIN k.ev, type \in Kinds, k.ev[e].type = type, msg \in Letter \cup {Null},
            stat \in {"ok", "abort"}, ReadiedKeeps
<1>4. KeepsTasks(k, r) /\ KeepsCpu(k, r) /\ KeepsEcbs(k, r)
  BY ONLY <1>3 DEF Readying
<1>5. QcbInv(r, f) /\ KeptInv(r, x)
  <2>1. ASSUME NEW g \in DOMAIN k.ev PROVE r.ev[g].wait \subseteq k.ev[g].wait
    BY ONLY <1>3 DEF Readying
  <2> QED
    BY ONLY <1>2, <1>4, <2>1, WaitsChange
<1>6. Clear(k, p, r)
  <2>1. ts \in SUBSET k.list /\ \A u \in ts : p[u].at # "delete"
    BY DEF Waiters, Pend, Blk
  <2>2. (\A u \in Task \ ts : r.tcb[u] = k.tcb[u]) /\ r.rdy \subseteq k.rdy \cup {k.tcb[u].prio : u \in ts}
    BY ONLY <1>3 DEF Readying
  <2> QED
    BY ONLY <1>4, <2>1, <2>2, Holding(k, p, f, x), ReadyClear
<1> QED
  BY ONLY <1>1, <1>3, <1>4, <1>5, <1>6, Holding(k, p, f, x), IsrHolds

LEMMA IsrDataHolds ==
  ASSUME NEW k, NEW p, NEW f, NEW x, Holding(k, p, f, x), NEW e \in DOMAIN k.ev, NEW c \in EcbType,
         c.type = k.ev[e].type, c.wait = k.ev[e].wait, Sound(c), NEW r, DataChange(k, e, c, r), NEW y, y = OSIntExit(r)
  PROVE  Holding(y, p, f, x)
<1>1. /\ TasksInv(r, p) /\ QcbInv(r, f) /\ KeptInv(r, x) /\ KeepsTasks(k, r) /\ KeepsCpu(k, r)
      /\ r.rdy = k.rdy /\ r.tcb = k.tcb
  <2>1. TasksInv(k, p) /\ QcbInv(k, f) /\ KeptInv(k, x)
    BY DEF Holding
  <2> QED
    BY ONLY <2>1, e \in DOMAIN k.ev, c \in EcbType, c.type = k.ev[e].type, c.wait = k.ev[e].wait, Sound(c),
            DataChange(k, e, c, r), DataKeeps
<1>2. Clear(k, p, r)
  BY <1>1 DEF Clear, Holding, CurInv
<1> QED
  BY ONLY <1>1, <1>2, Holding(k, p, f, x), y = OSIntExit(r), IsrHolds

LEMMA IsrNoneHolds ==
  ASSUME NEW k, NEW p, NEW f, NEW x, Holding(k, p, f, x), NEW z, KeptInv(k, z), NEW y, y = OSIntExit(k)
  PROVE  Holding(y, p, f, z)
<1>1. TasksInv(k, p) /\ QcbInv(k, f) /\ KeepsTasks(k, k) /\ KeepsCpu(k, k)
  BY DEF Holding, KeepsTasks, KeepsCpu
<1>2. Clear(k, p, k)
  BY DEF Clear, Holding, CurInv
<1> QED
  BY ONLY <1>1, <1>2, Holding(k, p, f, x), KeptInv(k, z), y = OSIntExit(k), IsrHolds

LEMMA TickHolds ==
  ASSUME NEW k, NEW p, NEW f, NEW x, Holding(k, p, f, x), NEW y, y = OSIntExit(OSTimeTick(k))
  PROVE  Holding(y, p, f, x)
<1>1. PICK r : r = OSTimeTick(k) /\ y = OSIntExit(r)
  OBVIOUS
<1>2. PICK ts, T : /\ ts = {t \in k.list \ {Idle} : k.tcb[t].dly > 0}
                   /\ T = [t \in Task |-> IF t \in ts THEN Ticked(k.tcb[t]) ELSE k.tcb[t]]
  OBVIOUS
<1>3. /\ TasksInv(k, p) /\ QcbInv(k, f) /\ KeptInv(k, x) /\ k.tcb \in [Task -> TcbType] /\ k.list \subseteq Task /\ Shape(k)
      /\ CurInv(k, p)
  BY DEF Holding, TasksInv, OsType
<1>4. PICK R : R = k.rdy \cup {k.tcb[t].prio : t \in {u \in ts : k.tcb[u].dly = 1 /\ "suspend" \notin k.tcb[u].stat}}
  OBVIOUS
<1>5. r = [k EXCEPT !.tcb = T, !.rdy = R]
  BY <1>1, <1>2, <1>4 DEF OSTimeTick
<1>6. /\ Shape(r) /\ r.app = k.app /\ r.tbl = k.tbl /\ r.list = k.list /\ r.free = k.free /\ r.ev = k.ev /\ r.evfree = k.evfree
      /\ r.cur = k.cur /\ r.prioCur = k.prioCur /\ r.lock = k.lock /\ r.tcb = T /\ r.rdy = R
  BY ONLY <1>3, <1>5 DEF Shape
<1>7. /\ DOMAIN r.tcb = Task /\ r.tcb = [t \in Task |-> r.tcb[t]]
      /\ \A u \in Task \ ts : r.tcb[u] = k.tcb[u]
      /\ \A u \in ts : u \in Task /\ r.tcb[u] = Ticked(k.tcb[u]) /\ k.tcb[u] \in TcbType /\ k.tcb[u].dly > 0
  BY ONLY <1>2, <1>3, <1>6
<1>8. ASSUME NEW u \in ts
      PROVE  /\ p[u].at # "delete" /\ Past(k.tcb[u], r.tcb[u]) /\ r.tcb[u].prio = k.tcb[u].prio
             /\ r.tcb[u].dly = 0 <=> k.tcb[u].dly = 1
  <2>1. PICK c, d : c \in TcbType /\ c = k.tcb[u] /\ d = r.tcb[u] /\ d = Ticked(c) /\ c.dly > 0
    BY <1>7
  <2>2. c.dly \in Nat
    BY <2>1 DEF TcbType
  <2>3. Past(c, d)
    BY ONLY <2>1, <2>2 DEF Past, Ticked
  <2>4. Passed(c, d)
    BY ONLY <2>1, <2>3, PastIs
  <2>5. d.dly = 0 <=> c.dly = 1
    <3>1. CASE c.dly = 1
      BY ONLY <2>1, <2>4, <2>2, <3>1 DEF Passed, TcbType
    <3>2. CASE c.dly # 1
      <4>1. d = [c EXCEPT !.dly = c.dly - 1]
        BY ONLY <2>1, <3>2 DEF Ticked
      <4>2. d.dly = c.dly - 1
        BY ONLY <2>1, <4>1 DEF TcbType
      <4> QED
        BY ONLY <2>2, <3>2, <4>2
    <3> QED
      BY <3>1, <3>2
  <2>6. p[u].at # "delete"
    BY <1>2, <1>3, <1>7 DEF CurInv
  <2> QED
    BY ONLY <2>1, <2>3, <2>4, <2>5, <2>6 DEF Passed
<1>9. r.rdy = k.rdy \cup {k.tcb[t].prio : t \in {u \in ts : r.tcb[u].dly = 0 /\ "suspend" \notin k.tcb[u].stat}}
  BY ONLY <1>4, <1>6, <1>8
<1>10. ts \in SUBSET (k.list \ {Idle})
  BY <1>2
<1>11. TasksInv(r, p)
  <2>1. Elapsing(k, p, ts, r)
    BY ONLY <1>6, <1>7, <1>8, <1>9, <1>10 DEF Elapsing
  <2> QED
    BY ONLY <1>3, <2>1, TickKeeps
<1>12. KeepsTasks(k, r) /\ KeepsCpu(k, r)
  <2>1. \A u \in Task : r.tcb[u].prio = k.tcb[u].prio
    BY ONLY <1>7, <1>8
  <2> QED
    BY ONLY <1>6, <2>1 DEF KeepsTasks, KeepsCpu
<1>13. QcbInv(r, f) /\ KeptInv(r, x)
  BY ONLY <1>3, <1>6 DEF QcbInv, KeptInv
<1>14. Clear(k, p, r)
  <2>1. ts \in SUBSET k.list /\ (\A u \in ts : p[u].at # "delete") /\ (\A u \in Task \ ts : r.tcb[u] = k.tcb[u])
    BY ONLY <1>7, <1>8, <1>10
  <2>2. r.rdy \subseteq k.rdy \cup {k.tcb[u].prio : u \in ts}
    BY ONLY <1>9
  <2> QED
    BY ONLY <1>12, <2>1, <2>2, Holding(k, p, f, x), ReadyClear
<1> QED
  BY ONLY <1>1, <1>11, <1>12, <1>13, <1>14, Holding(k, p, f, x), IsrHolds
-----------------------------------------------------------------------------
\* The deletion of an event: its waiters are readied, if there are any, the call
\* ends and the control block is free.
Deserted(k, p, e, r) ==
  /\ TasksInv(r, p) /\ KeepsTasks(k, r) /\ KeepsCpu(k, r) /\ KeepsEcbs(k, r) /\ r.ev[e].wait = {} /\ k.rdy \subseteq r.rdy
  /\ k.ev[e].wait = {} => r.rdy = k.rdy
  /\ \A g \in DOMAIN k.ev : r.ev[g].wait \subseteq k.ev[g].wait
LEMMA AllReadied ==
  ASSUME NEW k, NEW p, TasksInv(k, p), NEW e \in DOMAIN k.ev, NEW type \in Kinds, k.ev[e].type = type,
         NEW r, r = ReadyAll(k, e, Null, type, "ok")
  PROVE  Deserted(k, p, e, r)
<1>1. PICK ts : ts = {k.tbl[y] : y \in k.ev[e].wait} /\ r = Readied(k, e, ts, Null, type, "ok")
  BY DEF ReadyAll
<1>2. \A y \in k.ev[e].wait : k.tbl[y] \in Waiters(k, p, e) /\ k.tcb[k.tbl[y]].prio = y
  BY WaitersAre
<1>3. ts \in SUBSET Waiters(k, p, e) /\ {k.tcb[t].prio : t \in ts} = k.ev[e].wait
  BY ONLY <1>1, <1>2
<1>4. TasksInv(r, p) /\ Readying(k, r, e, ts, type, "ok")
  <2>1. Null \in Letter \cup {Null} /\ "ok" \in {"ok", "abort"}
    OBVIOUS
  <2> QED
    BY ONLY <1>1, <1>3, <2>1, TasksInv(k, p), e \in DOMAIN k.ev, type \in Kinds, k.ev[e].type = type, ReadiedKeeps
<1>5. /\ KeepsTasks(k, r) /\ KeepsCpu(k, r) /\ KeepsEcbs(k, r) /\ k.rdy \subseteq r.rdy
      /\ \A g \in DOMAIN k.ev : r.ev[g].wait \subseteq k.ev[g].wait
      /\ r.ev[e].wait = k.ev[e].wait \ {k.tcb[t].prio : t \in ts}
  BY ONLY <1>4, e \in DOMAIN k.ev DEF Readying
<1>6. r.ev[e].wait = {}
  BY ONLY <1>3, <1>5
<1>7. k.ev[e].wait = {} => r.rdy = k.rdy
  <2>1. SUFFICES ASSUME k.ev[e].wait = {}
                 PROVE  r.rdy = k.rdy
    OBVIOUS
  <2>2. ts = {}
    BY ONLY <1>1, <2>1
  <2>3. r.rdy = k.rdy \cup {k.tcb[t].prio : t \in {u \in ts : "suspend" \notin k.tcb[u].stat}}
    BY ONLY <1>4 DEF Readying
  <2> QED
    BY ONLY <2>2, <2>3
<1> QED
  BY ONLY <1>4, <1>5, <1>6, <1>7 DEF Deserted

LEMMA QcbFreed ==
  ASSUME NEW k, NEW r, NEW f, QcbInv(k, f), NEW e \in DOMAIN k.ev, k.ev[e].type = "q", NEW c, c = k.ev[e].ptr,
         DOMAIN r.ev = DOMAIN k.ev, r.ev[e].type # "q", \A g \in DOMAIN k.ev : g # e => r.ev[g] = k.ev[g]
  PROVE  QcbInv(r, <<c>> \o f)
<1>1. /\ f \in Seq(Qcb) /\ IsInjective(f) /\ c \in Qcb /\ c \notin ToSet(f)
      /\ \A g \in DOMAIN k.ev : k.ev[g].type = "q" => k.ev[g].ptr \in Qcb /\ k.ev[g].ptr \notin ToSet(f)
      /\ \A g, h \in DOMAIN k.ev : k.ev[g].type = "q" /\ k.ev[h].type = "q" /\ k.ev[g].ptr = k.ev[h].ptr => g = h
      /\ \A d \in Qcb : d \in ToSet(f) \/ \E g \in DOMAIN k.ev : k.ev[g].type = "q" /\ k.ev[g].ptr = d
  BY DEF QcbInv
<1>2. PICK z : z = <<c>> \o f
  OBVIOUS
<1>3. z \in Seq(Qcb) /\ ToSet(z) = ToSet(f) \cup {c} /\ IsInjective(z)
  <2>1. Pushed(Qcb, f, c, z)
    BY ONLY <1>1, <1>2, Push
  <2> QED
    BY ONLY <1>1, <2>1 DEF Pushed
<1>4. \A g \in DOMAIN r.ev : r.ev[g].type = "q" => g # e /\ r.ev[g] = k.ev[g] /\ k.ev[g].ptr # c
  BY <1>1
<1>5. \A d \in Qcb : d \in ToSet(z) \/ \E g \in DOMAIN r.ev : r.ev[g].type = "q" /\ r.ev[g].ptr = d
  BY <1>1, <1>3
<1>6. \A g \in DOMAIN r.ev : r.ev[g].type = "q" => r.ev[g].ptr \in Qcb /\ r.ev[g].ptr \notin ToSet(z)
  BY ONLY <1>1, <1>3, <1>4, DOMAIN r.ev = DOMAIN k.ev
<1>7. \A g, h \in DOMAIN r.ev : r.ev[g].type = "q" /\ r.ev[h].type = "q" /\ r.ev[g].ptr = r.ev[h].ptr => g = h
  BY ONLY <1>1, <1>4, DOMAIN r.ev = DOMAIN k.ev
<1> QED
  BY ONLY <1>2, <1>3, <1>5, <1>6, <1>7 DEF QcbInv

LEMMA DelHolds ==
  ASSUME Holding(os, pc, qfree, q), NEW t, NEW e, NEW type, OnCall(os, pc, t, e, type), pc[t].at \in DelStage,
         NEW k, Deserted(os, pc, e, k), os' = FreeEcb(k, e), Goto(t, "sched") \/ (os.ev[e].wait = {} /\ Return(t)),
         NEW g, type # "q" => g = qfree, type = "q" => g = <<os.ev[e].ptr>> \o qfree
  PROVE  Holding(os', pc', g, q)
<1>1. /\ TasksInv(os, pc) /\ t = os.cur /\ t \in os.list /\ t \in Task /\ t # Idle /\ OsType(os) /\ ~ Blk(pc, t)
      /\ QcbInv(os, qfree) /\ KeptInv(os, q) /\ CurInv(os, pc) /\ CallInv(os, pc) /\ pc \in [Task -> PcType]
      /\ pc[t].at \notin Creating \cup {"delete", "qcreate", "sched", "block"}
      /\ e \in DOMAIN os.ev /\ os.ev[e].type = type /\ type \in Kinds /\ e = pc[t].ev
  <2>1. OnCall(os, pc, t, e, type) /\ Holding(os, pc, qfree, q)
    OBVIOUS
  <2>2. t = os.cur /\ t \in os.list /\ t \in Task /\ t # Idle /\ pc[t].at \in OnEvent /\ e \in DOMAIN os.ev
        /\ os.ev[e].type = type /\ type \in Kinds /\ e = pc[t].ev
    BY ONLY <2>1 DEF OnCall
  <2>3. /\ TasksInv(os, pc) /\ OsType(os) /\ ~ Blk(pc, t) /\ QcbInv(os, qfree) /\ KeptInv(os, q) /\ CurInv(os, pc)
        /\ ArgInv(os.app, pc) /\ pc[t].at \notin Creating \cup {"delete", "qcreate", "sched", "block"}
    BY ONLY <2>1, <2>2, Calling
  <2>4. CallInv(os, pc) /\ pc \in [Task -> PcType]
    BY ONLY <2>3 DEF TasksInv, ArgInv
  <2> QED
    BY ONLY <2>2, <2>3, <2>4
<1>2. /\ TasksInv(k, pc) /\ KeepsTasks(os, k) /\ KeepsCpu(os, k) /\ KeepsEcbs(os, k) /\ k.ev[e].wait = {} /\ os.rdy \subseteq k.rdy
      /\ os.ev[e].wait = {} => k.rdy = os.rdy
      /\ \A h \in DOMAIN os.ev : k.ev[h].wait \subseteq os.ev[h].wait
  BY DEF Deserted
<1>3. QcbInv(k, qfree) /\ KeptInv(k, q)
  <2>1. os.ev \in [DOMAIN os.ev -> EcbType]
    BY ONLY <1>1 DEF OsType
  <2> QED
    BY ONLY <1>1, <1>2, <2>1, WaitsChange
<1>4. PICK y : /\ Ends(pc, pc', t, y) /\ y.at \in {"app", "sched"}
               /\ y.at # "sched" => os.ev[e].wait = {}
  BY ONLY <1>1, EndsAre, Goto(t, "sched") \/ (os.ev[e].wait = {} /\ Return(t))
<1>5. PICK s : s = pc' /\ s = [pc EXCEPT ![t] = y] /\ s[t] = y /\ (\A u \in Task : u # t => s[u] = pc[u]) /\ y \in PcType
  <2>1. pc' = [pc EXCEPT ![t] = y] /\ y \in PcType
    BY ONLY <1>4 DEF Ends
  <2>2. pc \in [Task -> PcType] /\ t \in Task
    BY ONLY <1>1
  <2>3. PICK s : s = [pc EXCEPT ![t] = y]
    OBVIOUS
  <2>4. s[t] = y /\ \A u \in Task : u # t => s[u] = pc[u]
    BY ONLY <2>2, <2>3
  <2> QED
    BY ONLY <2>1, <2>3, <2>4
<1>6. TasksInv(k, s)
  <2>1. Leaving(k, pc, t, y)
    BY ONLY <1>1, <1>4, <1>5 DEF Leaving
  <2>2. s = [pc EXCEPT ![t] = y] /\ TasksInv(k, pc)
    BY ONLY <1>2, <1>5
  <2> QED
    BY ONLY <2>1, <2>2, Leaves
<1>7. k.list = os.list /\ DOMAIN k.ev = DOMAIN os.ev /\ k.ev[e].type = type /\ k.ev[e].ptr = os.ev[e].ptr
  BY ONLY <1>1, <1>2 DEF KeepsTasks, KeepsEcbs
<1>8. PICK r : r = os' /\ r = FreeEcb(k, e)
  OBVIOUS
<1>9. /\ TasksInv(r, s) /\ KeepsCpu(k, r) /\ r.rdy = k.rdy /\ r.tcb = k.tcb /\ r.list = k.list /\ r.tbl = k.tbl
      /\ r.app = k.app /\ DOMAIN r.ev = DOMAIN k.ev /\ r.ev[e].type = "unused" /\ r.ev[e].wait = {}
      /\ \A h \in DOMAIN k.ev : h # e => r.ev[h] = k.ev[h]
  <2>1. \A u \in k.list : s[u].at \in OnEvent => s[u].ev # e
    <3>1. \A u \in os.list \ {t} : pc[u].at \in OnEvent => pc[u].ev # e
      BY <1>1 DEF CallInv
    <3>2. s[t].at \notin OnEvent
      BY ONLY <1>4, <1>5, Labels
    <3>3. os.list \subseteq Task
      BY ONLY <1>1 DEF OsType
    <3> QED
      BY ONLY <1>5, <1>7, <3>1, <3>2, <3>3
  <2>2. e \in DOMAIN k.ev /\ k.ev[e].type # "unused"
    BY ONLY <1>1, <1>7 DEF Kinds
  <2> QED
    BY ONLY <1>2, <1>6, <1>8, <2>1, <2>2, FreeEcbKeeps
<1>10. QcbInv(r, g) /\ KeptInv(r, q)
  <2>1. CASE type # "q"
    <3>1. Sound(r.ev[e]) /\ k.ev[e].type # "q" /\ e \in DOMAIN k.ev
      BY ONLY <1>1, <1>7, <1>9, <2>1 DEF Sound
    <3>2. QcbInv(r, qfree) /\ KeptInv(r, q)
      BY ONLY <1>3, <1>9, <3>1, EventChanges
    <3> QED
      BY <2>1, <3>2
  <2>2. CASE type = "q"
    <3>1. QcbInv(r, <<os.ev[e].ptr>> \o qfree)
      <4>1. e \in DOMAIN k.ev /\ k.ev[e].type = "q" /\ r.ev[e].type # "q" /\ k.ev[e].ptr = os.ev[e].ptr
        BY ONLY <1>1, <1>7, <1>9, <2>2
      <4> QED
        BY ONLY <1>3, <1>9, <4>1, QcbFreed
    <3>2. KeptInv(r, q)
      BY ONLY <1>3, <1>9 DEF KeptInv
    <3> QED
      BY <2>2, <3>1, <3>2
  <2> QED
    BY <2>1, <2>2
<1>11. KeepsTasks(os, r) /\ KeepsCpu(os, r)
  <2>1. \A u \in Task : r.tcb[u].prio = os.tcb[u].prio
    BY ONLY <1>2, <1>9 DEF KeepsTasks
  <2>2. r.free = k.free
    <3>1. Shape(k)
      BY ONLY <1>2 DEF TasksInv, OsType
    <3> QED
      BY ONLY <1>8, <3>1 DEF Shape, FreeEcb
  <2> QED
    BY ONLY <1>2, <1>9, <2>1, <2>2 DEF KeepsTasks, KeepsCpu
<1>12. CpuStep(os, pc, t, y, r)
  <2>1. y.at \notin PendStage \cup {"block", "wake", "delete"} /\ os.lock <= App[os.app].locks + 1
    BY ONLY <1>1, <1>4 DEF PendStage, CurInv
  <2> QED
    BY ONLY <1>1, <1>2, <1>4, <1>9, <1>11, <2>1 DEF CpuStep, KeepsCpu
<1>13. Holding(r, s, g, q)
  BY ONLY <1>5, <1>9, <1>10, <1>12, Holding(os, pc, qfree, q), TaskHolds
<1> QED
  BY ONLY <1>5, <1>8, <1>13
-----------------------------------------------------------------------------
\* The look at the scheduler at the end of a call, or in the middle of a Pend.
LEMMA RescheduleHolds ==
  ASSUME Holding(os, pc, qfree, q), NEW t, Reschedule(t)
  PROVE  Holding(os', pc', qfree, q)
<1>1. /\ TasksInv(os, pc) /\ CurInv(os, pc) /\ QcbInv(os, qfree) /\ KeptInv(os, q) /\ OsType(os) /\ IdleInv(os, pc)
      /\ pc \in [Task -> PcType]
  BY DEF Holding, TasksInv, ArgInv
<1>2. t = os.cur /\ t \in Task /\ pc[t].at \in {"sched", "block"} /\ t # Idle /\ os' = OS_Sched(os)
  BY <1>1 DEF Reschedule, At, OsType, IdleInv
<1>3. PICK r : r = os' /\ r = OS_Sched(os)
  BY <1>2
<1>4. /\ TasksInv(r, pc) /\ CurInv(r, pc) /\ r.cur \in r.list /\ r.lock = os.lock
      /\ r.lock = 0 => r.prioCur \in r.rdy /\ \A x \in r.rdy : r.prioCur <= x
      /\ r.ev = os.ev /\ r.app = os.app
  BY ONLY <1>1, <1>3, SchedKeeps
<1>5. PICK y, s : /\ s = pc' /\ y \in PcType /\ s = [pc EXCEPT ![t] = y] /\ y.at \in {"app", "wake"}
                  /\ y.at = "wake" => r.lock = 0
                  /\ TasksInv(r, s)
  <2>1. CASE pc[t].at = "sched"
    <3>1. Return(t)
      BY <2>1 DEF Reschedule, At
    <3>2. Ends(pc, pc', t, InApp) /\ InApp.at = "app"
      BY ONLY <1>1, <1>2, <3>1, EndsAre
    <3>3. PICK s, y : s = pc' /\ y = InApp /\ s = [pc EXCEPT ![t] = y] /\ y \in PcType
      BY ONLY <3>2 DEF Ends
    <3>4. Leaving(r, pc, t, y)
      <4>1. "sched" \notin Creating
        BY DEF Creating
      <4> QED
        BY ONLY <1>2, <2>1, <3>2, <3>3, <4>1 DEF Leaving, Blk
    <3>5. TasksInv(r, s)
      <4>1. s = [pc EXCEPT ![t] = y] /\ TasksInv(r, pc)
        BY ONLY <1>4, <3>3
      <4> QED
        BY ONLY <3>4, <4>1, Leaves
    <3> QED
      BY ONLY <3>2, <3>3, <3>5
  <2>2. CASE pc[t].at = "block"
    <3>1. Goto(t, "wake")
      BY <2>2 DEF Reschedule, At
    <3>2. PICK s, y : s = pc' /\ y = [pc[t] EXCEPT !.at = "wake"] /\ s = [pc EXCEPT ![t] = y]
      BY <3>1 DEF Goto
    <3>3. y \in PcType /\ y.at = "wake"
      <4>1. "wake" \in Label
        BY Labels
      <4> QED
        BY ONLY <1>1, <1>2, <3>2, <4>1, Places
    <3>4. TasksInv(r, s)
      <4>1. TasksInv(r, pc) /\ t \in Task /\ pc[t].at = "block" /\ y \in PcType /\ y = [pc[t] EXCEPT !.at = "wake"]
            /\ s = [pc EXCEPT ![t] = y]
        BY ONLY <1>2, <1>4, <2>2, <3>2, <3>3
      <4> QED
        BY ONLY <4>1, PcWakes
    <3>5. r.lock = 0
      BY <1>1, <1>2, <1>4, <2>2 DEF CurInv
    <3> QED
      BY ONLY <3>2, <3>3, <3>4, <3>5
  <2> QED
    BY <1>2, <2>1, <2>2
<1>6. CurInv(r, s)
  <2>1. s[t] = y /\ \A u \in Task : u # t => s[u] = pc[u]
    BY <1>1, <1>2, <1>5
  <2>2. r.list \subseteq Task
    BY ONLY <1>4 DEF TasksInv, OsType
  <2>3. y.at \notin PendStage \cup {"delete", "block", "sched"}
    BY ONLY <1>5 DEF PendStage
  <2> QED
    BY ONLY <1>4, <1>5, <2>1, <2>2, <2>3 DEF CurInv
<1>7. RunInv(r, s)
  BY ONLY <1>4, SchedRuns
<1>8. QcbInv(r, qfree) /\ KeptInv(r, q)
  BY ONLY <1>1, <1>4 DEF QcbInv, KeptInv
<1> QED
  BY ONLY <1>3, <1>5, <1>6, <1>7, <1>8 DEF Holding

\* A service that keeps the places of the tasks, but for a look at the scheduler.
Called(k, p, t) == t = k.cur /\ t \in k.list /\ t \in Task /\ t # Idle /\ p[t].at = "app" /\ k.tcb[t].prio = k.prioCur
LEMMA CallIs ==
  ASSUME Holding(os, pc, qfree, q), NEW t, NEW op, Calls(t, op)
  PROVE  /\ Called(os, pc, t) /\ op \in App[os.app].ops /\ op \notin Others /\ TasksInv(os, pc) /\ OsType(os)
         /\ QcbInv(os, qfree) /\ KeptInv(os, q) /\ CurInv(os, pc) /\ os.lock <= App[os.app].locks + 1
         /\ \A u \in os.list : u \in Task /\ pc[u].at # "delete"
         /\ os.tbl[os.prioCur] = t
<1>1. t = os.cur /\ pc[t].at = "app" /\ t # Idle /\ op \in App[os.app].ops
  BY DEF Calls, At, Ops
<1>2. /\ TasksInv(os, pc) /\ t \in os.list /\ t \in Task /\ os.tcb[t].prio = os.prioCur
      /\ \A u \in os.list : pc[u].at # "delete"
  BY <1>1, Running
<1>3. OsType(os) /\ QcbInv(os, qfree) /\ KeptInv(os, q) /\ CurInv(os, pc) /\ OwnPrioInv(os)
      /\ App[os.app].ops \cap Others = {}
  BY DEF Holding, TasksInv, TblInv
<1> QED
  BY <1>1, <1>2, <1>3 DEF Called, CurInv, OsType, OwnPrioInv

LEMMA AppHolds ==
  ASSUME Holding(os, pc, qfree, q), NEW t, Called(os, pc, t), NEW r, TasksInv(r, pc), KeepsTasks(os, r),
         r.cur = os.cur, r.prioCur = os.prioCur, r.lock <= App[os.app].locks + 1, QcbInv(r, qfree), KeptInv(r, q),
         \/ Goto(t, "sched")
         \/ pc' = pc /\ (r.lock = 0 => os.lock = 0 /\ (os.prioCur \in os.rdy => os.prioCur \in r.rdy) /\ r.rdy \subseteq os.rdy)
  PROVE  Holding(r, pc', qfree, q)
<1>1. t = os.cur /\ t \in os.list /\ t \in Task /\ t # Idle /\ pc[t].at = "app" /\ pc \in [Task -> PcType] /\ TasksInv(os, pc)
  BY DEF Called, Holding, TasksInv, ArgInv
<1>2. "app" \notin PendStage \cup Creating /\ "sched" \notin PendStage \cup Creating
  BY DEF PendStage, Creating
<1>3. CASE Goto(t, "sched")
  <2>1. PICK y : Ends(pc, pc', t, y) /\ y.at = "sched"
    BY ONLY <1>1, <1>3, EndsAre
  <2>2. Leaving(r, pc, t, y)
    BY ONLY <1>1, <1>2, <2>1 DEF Leaving, Ends, Blk
  <2>3. CpuStep(os, pc, t, y, r)
    BY ONLY <1>1, <1>2, <2>1, KeepsTasks(os, r), r.cur = os.cur, r.prioCur = os.prioCur,
            r.lock <= App[os.app].locks + 1 DEF CpuStep
  <2> QED
    BY ONLY <2>1, <2>2, <2>3, Holding(os, pc, qfree, q), TasksInv(r, pc), QcbInv(r, qfree), KeptInv(r, q), LeaveHolds DEF Ends
<1>4. CASE pc' = pc /\ (r.lock = 0 => os.lock = 0 /\ (os.prioCur \in os.rdy => os.prioCur \in r.rdy) /\ r.rdy \subseteq os.rdy)
  <2>1. PICK y : y = pc[t] /\ y \in PcType /\ pc = [pc EXCEPT ![t] = y]
    BY <1>1
  <2>2. CpuStep(os, pc, t, y, r)
    BY ONLY <1>1, <1>2, <1>4, <2>1, KeepsTasks(os, r), r.cur = os.cur, r.prioCur = os.prioCur,
            r.lock <= App[os.app].locks + 1 DEF CpuStep
  <2>3. Holding(r, pc, qfree, q)
    BY ONLY <2>1, <2>2, Holding(os, pc, qfree, q), TasksInv(r, pc), QcbInv(r, qfree), KeptInv(r, q), TaskHolds
  <2> QED
    BY ONLY <1>4, <2>3
<1> QED
  BY <1>3, <1>4

\* The services on one task.
LEMMA TargetIs ==
  ASSUME NEW k, NEW p, TasksInv(k, p), NEW x \in Prio, x # LowestPrio, k.tbl[x] \notin {Null, Reserved}
  PROVE  k.tbl[x] \in k.list /\ k.tbl[x] \in Task /\ k.tbl[x] # Idle /\ k.tcb[k.tbl[x]].prio = x /\ k.tcb[k.tbl[x]] \in TcbType
<1>1. OsType(k) /\ IdleInv(k, p) /\ OwnPrioInv(k)
  BY DEF TasksInv, TblInv
<1>2. k.tbl[x] \in Task
  BY <1>1 DEF OsType
<1> QED
  BY <1>1, <1>2 DEF OwnPrioInv, IdleInv, OsType

OneChange(k, u, d, R, r) == OsType(k) /\ u \in Task /\ r = [k EXCEPT !.tcb = [k.tcb EXCEPT ![u] = d], !.rdy = R]
LEMMA OneShape ==
  ASSUME NEW k, NEW u, NEW d, NEW R, NEW r, OneChange(k, u, d, R, r)
  PROVE  /\ Shape(r) /\ r.app = k.app /\ r.tbl = k.tbl /\ r.list = k.list /\ r.free = k.free /\ r.ev = k.ev
         /\ r.evfree = k.evfree /\ r.cur = k.cur /\ r.prioCur = k.prioCur /\ r.lock = k.lock
         /\ r.tcb = [k.tcb EXCEPT ![u] = d] /\ r.rdy = R /\ DOMAIN r.tcb = Task /\ r.tcb[u] = d
         /\ \A v \in Task : v # u => r.tcb[v] = k.tcb[v]
<1>1. /\ Shape(k) /\ k.tcb \in [Task -> TcbType] /\ u \in Task
      /\ r = [k EXCEPT !.tcb = [k.tcb EXCEPT ![u] = d], !.rdy = R]
  BY DEF OneChange, OsType
<1>2. /\ Shape(r) /\ r.app = k.app /\ r.tbl = k.tbl /\ r.list = k.list /\ r.free = k.free /\ r.ev = k.ev
      /\ r.evfree = k.evfree /\ r.cur = k.cur /\ r.prioCur = k.prioCur /\ r.lock = k.lock
      /\ r.tcb = [k.tcb EXCEPT ![u] = d] /\ r.rdy = R
  BY ONLY <1>1 DEF Shape
<1> QED
  BY ONLY <1>1, <1>2

LEMMA OneHolds ==
  ASSUME Holding(os, pc, qfree, q), NEW t, Called(os, pc, t), os.lock <= App[os.app].locks + 1, NEW u, NEW d,
         OneTask(os, pc, u, d, os'),
         Goto(t, "sched") \/ (UNCHANGED pc /\ (u # t \/ os'.rdy = os.rdy) /\ os'.rdy \subseteq os.rdy)
  PROVE  Holding(os', pc', qfree, q)
<1>1. TasksInv(os, pc) /\ QcbInv(os, qfree) /\ KeptInv(os, q) /\ OsType(os)
  BY DEF Holding, TasksInv
<1>2. TasksInv(os', pc)
  BY ONLY <1>1, OneTask(os, pc, u, d, os'), OneKeeps
<1>3. /\ os'.app = os.app /\ os'.tbl = os.tbl /\ os'.list = os.list /\ os'.free = os.free /\ os'.ev = os.ev
      /\ os'.cur = os.cur /\ os'.prioCur = os.prioCur /\ os'.lock = os.lock /\ os'.tcb = [os.tcb EXCEPT ![u] = d]
      /\ d.prio = os.tcb[u].prio /\ u \in os.list
      /\ os'.rdy = IF d.dly = 0 /\ d.stat = {} THEN os.rdy \cup {os.tcb[u].prio} ELSE os.rdy \ {os.tcb[u].prio}
  BY DEF OneTask
<1>4. KeepsTasks(os, os')
  <2>1. os.tcb \in [Task -> TcbType] /\ u \in Task
    BY <1>1, <1>3 DEF OsType
  <2>2. \A v \in Task : os'.tcb[v].prio = os.tcb[v].prio
    BY ONLY <1>3, <2>1
  <2> QED
    BY ONLY <1>3, <2>2 DEF KeepsTasks
<1>5. QcbInv(os', qfree) /\ KeptInv(os', q)
  BY ONLY <1>1, <1>3 DEF QcbInv, KeptInv
<1>6. u # t => (os.prioCur \in os.rdy => os.prioCur \in os'.rdy)
  <2>1. t \in os.list /\ os.tcb[t].prio = os.prioCur
    BY DEF Called
  <2>2. u # t => os.tcb[u].prio # os.prioCur
    BY ONLY <1>1, <1>3, <2>1, Basics
  <2> QED
    BY ONLY <1>3, <2>2
<1>7. \/ Goto(t, "sched")
      \/ pc' = pc /\ (os'.lock = 0 => os.lock = 0 /\ (os.prioCur \in os.rdy => os.prioCur \in os'.rdy) /\ os'.rdy \subseteq os.rdy)
  BY <1>3, <1>6
<1>8. os'.lock <= App[os.app].locks + 1
  BY <1>3
<1> QED
  BY ONLY <1>2, <1>3, <1>4, <1>5, <1>7, <1>8, Holding(os, pc, qfree, q), Called(os, pc, t), AppHolds

LEMMA DlyHolds ==
  ASSUME Holding(os, pc, qfree, q), NEW t, NEW n, n \in 1 .. MaxDly, OSTimeDly(t, n)
  PROVE  Holding(os', pc', qfree, q)
<1>1. /\ Called(os, pc, t) /\ TasksInv(os, pc) /\ OsType(os) /\ os.lock <= App[os.app].locks + 1
      /\ t \in os.list /\ t \in Task /\ t # Idle /\ pc[t].at = "app"
  BY CallIs DEF OSTimeDly, Called
<1>2. PICK c, d : c = os.tcb[t] /\ d = [c EXCEPT !.dly = n]
  OBVIOUS
<1>3. c \in TcbType /\ c.pend = "ok" /\ c.prio \in Prio
  <2>1. StatAt(os, pc, t) /\ c \in TcbType
    BY <1>1, <1>2 DEF TasksInv, WaitInv, StatInv, OsType
  <2> QED
    BY <1>1, <1>2, <2>1 DEF StatAt, Blk, TcbType
<1>4. n \in Nat /\ n # 0 /\ n <= App[os.app].dly
  BY <1>1, AppAssumption DEF MaxDly, OsType
<1>5. d \in TcbType /\ d.prio = c.prio /\ d.pend = c.pend /\ d.stat = c.stat /\ d.dly = n
  BY ONLY <1>2, <1>3, <1>4 DEF TcbType
<1>6. PICK r : r = os' /\ r = [os EXCEPT !.tcb = [os.tcb EXCEPT ![t] = d], !.rdy = os.rdy \ {c.prio}]
  <2>1. os' = [[os EXCEPT !.rdy = @ \ {os.tcb[t].prio}] EXCEPT !.tcb[t].dly = n]
    BY DEF OSTimeDly, ClearReady
  <2>2. Shape(os)
    BY <1>1 DEF OsType
  <2> QED
    BY ONLY <1>2, <2>1, <2>2 DEF Shape
<1>7. OneTask(os, pc, t, d, r)
  <2>1. /\ Shape(r) /\ r.app = os.app /\ r.tbl = os.tbl /\ r.list = os.list /\ r.free = os.free /\ r.ev = os.ev
        /\ r.evfree = os.evfree /\ r.cur = os.cur /\ r.prioCur = os.prioCur /\ r.lock = os.lock
        /\ r.tcb = [os.tcb EXCEPT ![t] = d] /\ r.rdy = os.rdy \ {c.prio}
    <3>1. PICK R : R = os.rdy \ {c.prio} /\ OneChange(os, t, d, R, r)
      BY ONLY <1>1, <1>6 DEF OneChange
    <3>2. OneChange(os, t, d, R, r)
      BY <3>1
    <3>3. /\ Shape(r) /\ r.app = os.app /\ r.tbl = os.tbl /\ r.list = os.list /\ r.free = os.free /\ r.ev = os.ev
          /\ r.evfree = os.evfree /\ r.cur = os.cur /\ r.prioCur = os.prioCur /\ r.lock = os.lock
          /\ r.tcb = [os.tcb EXCEPT ![t] = d] /\ r.rdy = R
      BY ONLY <3>2, OneShape
    <3> QED
      BY ONLY <3>1, <3>3
  <2>2. d.pend # "ok" => d.dly = 0
    BY <1>3, <1>5
  <2>3. d.dly # 0
    BY <1>4, <1>5
  <2>4. pc[t].at # "delete" /\ d.dly <= App[os.app].dly
    BY <1>1, <1>4, <1>5
  <2> QED
    BY ONLY <1>1, <1>2, <1>5, <2>1, <2>2, <2>3, <2>4 DEF OneTask
<1>8. Goto(t, "sched")
  BY DEF OSTimeDly
<1> QED
  BY ONLY <1>1, <1>6, <1>7, <1>8, Holding(os, pc, qfree, q), OneHolds

LEMMA SuspendHolds ==
  ASSUME Holding(os, pc, qfree, q), NEW t, NEW x \in Prio, OSTaskSuspend(t, x)
  PROVE  Holding(os', pc', qfree, q)
<1>1. /\ Called(os, pc, t) /\ TasksInv(os, pc) /\ OsType(os) /\ os.lock <= App[os.app].locks + 1
      /\ \A v \in os.list : pc[v].at # "delete"
  BY CallIs DEF OSTaskSuspend
<1>2. PICK u, c : /\ u = os.tbl[x] /\ c = os.tcb[u] /\ u \in os.list /\ u \in Task /\ u # Idle /\ c.prio = x /\ c \in TcbType
  <2>1. x # LowestPrio /\ os.tbl[x] \notin {Null, Reserved}
    BY DEF OSTaskSuspend, Exists, Target
  <2> QED
    BY ONLY <1>1, <2>1, x \in Prio, TargetIs
<1>3. PICK d : d = [c EXCEPT !.stat = @ \cup {"suspend"}]
  OBVIOUS
<1>4. d \in TcbType /\ d.prio = c.prio /\ d.pend = c.pend /\ d.stat = c.stat \cup {"suspend"} /\ d.dly = c.dly
  BY ONLY <1>2, <1>3 DEF TcbType
<1>5. PICK r : r = os' /\ r = [os EXCEPT !.tcb = [os.tcb EXCEPT ![u] = d], !.rdy = os.rdy \ {c.prio}]
  <2>1. os' = [[os EXCEPT !.rdy = @ \ {os.tcb[u].prio}] EXCEPT !.tcb[u].stat = @ \cup {"suspend"}]
    BY <1>2 DEF OSTaskSuspend, ClearReady, Target
  <2>2. Shape(os)
    BY <1>1 DEF OsType
  <2> QED
    BY ONLY <1>2, <1>3, <2>1, <2>2 DEF Shape
<1>6. OneTask(os, pc, u, d, r) /\ r.rdy = os.rdy \ {c.prio}
  <2>1. /\ Shape(r) /\ r.app = os.app /\ r.tbl = os.tbl /\ r.list = os.list /\ r.free = os.free /\ r.ev = os.ev
        /\ r.evfree = os.evfree /\ r.cur = os.cur /\ r.prioCur = os.prioCur /\ r.lock = os.lock
        /\ r.tcb = [os.tcb EXCEPT ![u] = d] /\ r.rdy = os.rdy \ {c.prio}
    <3>1. PICK R : R = os.rdy \ {c.prio} /\ OneChange(os, u, d, R, r)
      BY ONLY <1>1, <1>2, <1>5 DEF OneChange
    <3>2. OneChange(os, u, d, R, r)
      BY <3>1
    <3>3. /\ Shape(r) /\ r.app = os.app /\ r.tbl = os.tbl /\ r.list = os.list /\ r.free = os.free /\ r.ev = os.ev
          /\ r.evfree = os.evfree /\ r.cur = os.cur /\ r.prioCur = os.prioCur /\ r.lock = os.lock
          /\ r.tcb = [os.tcb EXCEPT ![u] = d] /\ r.rdy = R
      BY ONLY SMTT(30), <3>2, OneShape
    <3> QED
      BY ONLY <3>1, <3>3
  <2>2. StatAt(os, pc, u) /\ c.dly <= App[os.app].dly
    BY <1>1, <1>2 DEF TasksInv, WaitInv, StatInv, DlyInv
  <2>3. d.pend # "ok" => d.dly = 0
    BY ONLY <1>2, <1>4, <2>2 DEF StatAt
  <2>4. d.stat # {} /\ d.stat \ {"suspend"} = c.stat \ {"suspend"}
    BY ONLY <1>4
  <2> QED
    BY ONLY <1>1, <1>2, <1>4, <2>1, <2>2, <2>3, <2>4 DEF OneTask
<1>7. r.rdy \subseteq os.rdy
  BY ONLY <1>6
<1>8. Goto(t, "sched") \/ (UNCHANGED pc /\ u # t)
  BY <1>2 DEF OSTaskSuspend
<1> QED
  BY ONLY <1>1, <1>5, <1>6, <1>7, <1>8, Holding(os, pc, qfree, q), OneHolds

LEMMA ResumeHolds ==
  ASSUME Holding(os, pc, qfree, q), NEW t, NEW x \in Prio, OSTaskResume(t, x)
  PROVE  Holding(os', pc', qfree, q)
<1>1. /\ Called(os, pc, t) /\ TasksInv(os, pc) /\ OsType(os) /\ os.lock <= App[os.app].locks + 1
      /\ \A v \in os.list : pc[v].at # "delete"
  BY CallIs DEF OSTaskResume
<1>2. PICK u, c : /\ u = os.tbl[x] /\ c = os.tcb[u] /\ u \in os.list /\ u \in Task /\ u # Idle /\ c.prio = x /\ c \in TcbType
  <2>1. x # LowestPrio /\ os.tbl[x] \notin {Null, Reserved}
    BY DEF OSTaskResume, Exists, Target
  <2> QED
    BY ONLY <1>1, <2>1, x \in Prio, TargetIs
<1>3. PICK d : d = [c EXCEPT !.stat = @ \ {"suspend"}]
  OBVIOUS
<1>4. d \in TcbType /\ d.prio = c.prio /\ d.pend = c.pend /\ d.stat = c.stat \ {"suspend"} /\ d.dly = c.dly
  BY ONLY <1>2, <1>3 DEF TcbType
<1>5. PICK k : k = [os EXCEPT !.tcb[u].stat = @ \ {"suspend"}]
  OBVIOUS
<1>6. /\ k = [os EXCEPT !.tcb = [os.tcb EXCEPT ![u] = d], !.rdy = os.rdy] /\ k.tcb[u] = d /\ k.rdy = os.rdy
      /\ Shape(os)
  <2>1. Shape(os) /\ os.tcb \in [Task -> TcbType]
    BY <1>1 DEF OsType
  <2> QED
    BY ONLY <1>2, <1>3, <1>5, <2>1 DEF Shape
<1>7. "suspend" \in c.stat /\ IF d.stat = {} /\ d.dly = 0 THEN os' = SetReady(k, u) /\ Goto(t, "sched")
                              ELSE os' = k /\ UNCHANGED pc
  BY <1>2, <1>5, <1>6 DEF OSTaskResume, Target
<1>8. PICK R, r : /\ R = IF d.dly = 0 /\ d.stat = {} THEN os.rdy \cup {c.prio} ELSE os.rdy
                  /\ r = os' /\ r = [os EXCEPT !.tcb = [os.tcb EXCEPT ![u] = d], !.rdy = R]
  <2>1. CASE d.stat = {} /\ d.dly = 0
    <3>1. os' = [k EXCEPT !.rdy = os.rdy \cup {c.prio}]
      BY <1>4, <1>6, <1>7, <2>1 DEF SetReady
    <3> QED
      BY ONLY <1>6, <2>1, <3>1 DEF Shape
  <2>2. CASE ~ (d.stat = {} /\ d.dly = 0)
    BY <1>6, <1>7, <2>2
  <2> QED
    BY <2>1, <2>2
<1>9. StatAt(os, pc, u) /\ c.dly <= App[os.app].dly /\ c.prio \notin os.rdy
  <2>1. ReadyAt(os, u)
    BY <1>1, <1>2 DEF TasksInv, ReadyInv, Living
  <2>2. StatAt(os, pc, u) /\ c.dly <= App[os.app].dly
    BY <1>1, <1>2 DEF TasksInv, WaitInv, StatInv, DlyInv
  <2> QED
    BY <1>2, <1>7, <2>1, <2>2 DEF ReadyAt
<1>10. OneTask(os, pc, u, d, r)
  <2>1. /\ Shape(r) /\ r.app = os.app /\ r.tbl = os.tbl /\ r.list = os.list /\ r.free = os.free /\ r.ev = os.ev
        /\ r.evfree = os.evfree /\ r.cur = os.cur /\ r.prioCur = os.prioCur /\ r.lock = os.lock
        /\ r.tcb = [os.tcb EXCEPT ![u] = d] /\ r.rdy = R
    <3>1. OneChange(os, u, d, R, r)
      BY ONLY <1>1, <1>2, <1>8 DEF OneChange
    <3> QED
      BY ONLY SMTT(30), <3>1, OneShape
  <2>2. d.pend # "ok" => d.dly = 0
    BY ONLY <1>2, <1>4, <1>9 DEF StatAt
  <2>3. d.stat \ {"suspend"} = c.stat \ {"suspend"}
    BY ONLY <1>4
  <2>4. R = IF d.dly = 0 /\ d.stat = {} THEN os.rdy \cup {c.prio} ELSE os.rdy \ {c.prio}
    BY ONLY <1>8, <1>9
  <2> QED
    BY ONLY <1>1, <1>2, <1>4, <1>9, <2>1, <2>2, <2>3, <2>4 DEF OneTask
<1>11. OneTask(os, pc, u, d, os') /\ (Goto(t, "sched") \/ (UNCHANGED pc /\ os'.rdy = os.rdy))
  BY <1>6, <1>7, <1>8, <1>10
<1>12. /\ OneTask(os, pc, u, d, os')
       /\ Goto(t, "sched") \/ (UNCHANGED pc /\ (u # t \/ os'.rdy = os.rdy) /\ os'.rdy \subseteq os.rdy)
  BY ONLY <1>11
<1> QED
  BY ONLY <1>1, <1>12, Holding(os, pc, qfree, q), OneHolds

LEMMA DelReqHolds ==
  ASSUME Holding(os, pc, qfree, q), NEW t, NEW x \in Prio, OSTaskDelReq(t, x)
  PROVE  Holding(os', pc', qfree, q)
<1>1. /\ Called(os, pc, t) /\ TasksInv(os, pc) /\ OsType(os) /\ os.lock <= App[os.app].locks + 1
      /\ \A v \in os.list : pc[v].at # "delete"
  BY CallIs DEF OSTaskDelReq
<1>2. PICK u, c : /\ u = os.tbl[x] /\ c = os.tcb[u] /\ u \in os.list /\ u \in Task /\ u # Idle /\ c.prio = x /\ c \in TcbType
  <2>1. x # LowestPrio /\ os.tbl[x] \notin {Null, Reserved}
    BY DEF OSTaskDelReq, Exists, Target
  <2> QED
    BY ONLY <1>1, <2>1, x \in Prio, TargetIs
<1>3. PICK d : d = [c EXCEPT !.delreq = TRUE]
  OBVIOUS
<1>4. d \in TcbType /\ d.prio = c.prio /\ d.pend = c.pend /\ d.stat = c.stat /\ d.dly = c.dly
  BY ONLY <1>2, <1>3 DEF TcbType
<1>5. PICK r : r = os' /\ r = [os EXCEPT !.tcb = [os.tcb EXCEPT ![u] = d], !.rdy = os.rdy]
  <2>1. os' = [os EXCEPT !.tcb[u].delreq = TRUE]
    BY <1>2 DEF OSTaskDelReq, Target
  <2>2. Shape(os)
    BY <1>1 DEF OsType
  <2> QED
    BY ONLY <1>2, <1>3, <2>1, <2>2 DEF Shape
<1>6. OneTask(os, pc, u, d, r) /\ r.rdy = os.rdy
  <2>1. /\ Shape(r) /\ r.app = os.app /\ r.tbl = os.tbl /\ r.list = os.list /\ r.free = os.free /\ r.ev = os.ev
        /\ r.evfree = os.evfree /\ r.cur = os.cur /\ r.prioCur = os.prioCur /\ r.lock = os.lock
        /\ r.tcb = [os.tcb EXCEPT ![u] = d] /\ r.rdy = os.rdy
    <3>1. PICK R : R = os.rdy /\ OneChange(os, u, d, R, r)
      BY ONLY <1>1, <1>2, <1>5 DEF OneChange
    <3>2. OneChange(os, u, d, R, r)
      BY <3>1
    <3>3. /\ Shape(r) /\ r.app = os.app /\ r.tbl = os.tbl /\ r.list = os.list /\ r.free = os.free /\ r.ev = os.ev
          /\ r.evfree = os.evfree /\ r.cur = os.cur /\ r.prioCur = os.prioCur /\ r.lock = os.lock
          /\ r.tcb = [os.tcb EXCEPT ![u] = d] /\ r.rdy = R
      BY ONLY SMTT(30), <3>2, OneShape
    <3> QED
      BY ONLY <3>1, <3>3
  <2>2. StatAt(os, pc, u) /\ c.dly <= App[os.app].dly /\ ReadyAt(os, u)
    BY <1>1, <1>2 DEF TasksInv, WaitInv, StatInv, DlyInv, ReadyInv, Living
  <2>3. d.pend # "ok" => d.dly = 0
    BY ONLY <1>2, <1>4, <2>2 DEF StatAt
  <2>4. os.rdy = IF d.dly = 0 /\ d.stat = {} THEN os.rdy \cup {c.prio} ELSE os.rdy \ {c.prio}
    BY ONLY <1>2, <1>4, <2>2 DEF ReadyAt
  <2> QED
    BY ONLY <1>1, <1>2, <1>4, <2>1, <2>2, <2>3, <2>4 DEF OneTask
<1>7. UNCHANGED pc
  BY DEF OSTaskDelReq
<1> QED
  BY ONLY <1>1, <1>5, <1>6, <1>7, Holding(os, pc, qfree, q), OneHolds

LEMMA DlyResumeHolds ==
  ASSUME Holding(os, pc, qfree, q), NEW t, NEW x, x \in Prio, OSTimeDlyResume(t, x)
  PROVE  Holding(os', pc', qfree, q)
<1>1. /\ Called(os, pc, t) /\ TasksInv(os, pc) /\ OsType(os) /\ os.lock <= App[os.app].locks + 1
      /\ QcbInv(os, qfree) /\ KeptInv(os, q) /\ \A v \in os.list : pc[v].at # "delete"
  BY CallIs DEF OSTimeDlyResume
<1>2. PICK u, c : /\ u = os.tbl[x] /\ c = os.tcb[u] /\ u \in os.list /\ u \in Task /\ u # Idle /\ c.prio = x /\ c \in TcbType
  <2>1. x # LowestPrio /\ os.tbl[x] \notin {Null, Reserved}
    BY DEF OSTimeDlyResume, Exists, Target
  <2> QED
    BY ONLY <1>1, <2>1, x \in Prio, TargetIs
<1>3. PICK d : d = DelayOver(c)
  OBVIOUS
<1>4. c.dly > 0
  BY <1>2 DEF OSTimeDlyResume, Target
<1>5. Past(c, d) /\ d.dly = 0 /\ d.prio = c.prio
  <2>1. Past(c, d)
    BY ONLY <1>3, <1>4 DEF Past
  <2>2. Passed(c, d)
    BY ONLY <1>2, <2>1, PastIs
  <2>3. d.dly = 0
    BY ONLY <1>2, <1>3 DEF DelayOver, TcbType
  <2> QED
    BY ONLY <2>1, <2>2, <2>3 DEF Passed
<1>6. PICK k : k = [os EXCEPT !.tcb[u] = DelayOver(@)]
  OBVIOUS
<1>7. k = [os EXCEPT !.tcb = [os.tcb EXCEPT ![u] = d], !.rdy = os.rdy] /\ k.tcb[u] = d /\ k.rdy = os.rdy /\ Shape(os)
  <2>1. Shape(os) /\ os.tcb \in [Task -> TcbType]
    BY <1>1 DEF OsType
  <2> QED
    BY ONLY <1>2, <1>3, <1>6, <2>1 DEF Shape
<1>8. IF "suspend" \in c.stat THEN os' = k /\ UNCHANGED pc ELSE os' = SetReady(k, u) /\ Goto(t, "sched")
  BY <1>2, <1>6 DEF OSTimeDlyResume, Target
<1>9. PICK R, r : /\ R = IF "suspend" \in c.stat THEN os.rdy ELSE os.rdy \cup {c.prio}
                  /\ r = os' /\ r = [os EXCEPT !.tcb = [os.tcb EXCEPT ![u] = d], !.rdy = R]
  <2>1. CASE "suspend" \notin c.stat
    <3>1. os' = [k EXCEPT !.rdy = os.rdy \cup {c.prio}]
      BY <1>5, <1>7, <1>8, <2>1 DEF SetReady
    <3> QED
      BY ONLY <1>7, <2>1, <3>1 DEF Shape
  <2>2. CASE "suspend" \in c.stat
    BY <1>7, <1>8, <2>2
  <2> QED
    BY <2>1, <2>2
<1>10. /\ Shape(r) /\ r.app = os.app /\ r.tbl = os.tbl /\ r.list = os.list /\ r.free = os.free /\ r.ev = os.ev
       /\ r.evfree = os.evfree /\ r.cur = os.cur /\ r.prioCur = os.prioCur /\ r.lock = os.lock
       /\ r.tcb = [os.tcb EXCEPT ![u] = d] /\ r.rdy = R /\ DOMAIN r.tcb = Task /\ r.tcb[u] = d
       /\ \A v \in Task : v # u => r.tcb[v] = os.tcb[v]
  <2>1. OneChange(os, u, d, R, r)
    BY ONLY <1>1, <1>2, <1>9 DEF OneChange
  <2> QED
    BY ONLY <2>1, OneShape
<1>11. TasksInv(r, pc)
  <2>1. PICK ts : ts = {u}
    OBVIOUS
  <2>2. r.tcb = [v \in Task |-> r.tcb[v]] /\ (\A v \in Task \ ts : r.tcb[v] = os.tcb[v])
    BY ONLY <1>1, <1>10, <2>1 DEF OsType
  <2>3. \A v \in ts : pc[v].at # "delete" /\ Past(os.tcb[v], r.tcb[v])
    BY ONLY <1>1, <1>2, <1>5, <1>10, <2>1
  <2>4. r.rdy = os.rdy \cup {os.tcb[v].prio : v \in {w \in ts : r.tcb[w].dly = 0 /\ "suspend" \notin os.tcb[w].stat}}
    <3>1. CASE "suspend" \in c.stat
      <4>1. {w \in ts : r.tcb[w].dly = 0 /\ "suspend" \notin os.tcb[w].stat} = {}
        BY ONLY <1>2, <2>1, <3>1
      <4> QED
        BY ONLY <1>9, <1>10, <3>1, <4>1
    <3>2. CASE "suspend" \notin c.stat
      <4>1. {w \in ts : r.tcb[w].dly = 0 /\ "suspend" \notin os.tcb[w].stat} = {u}
        BY ONLY <1>2, <1>5, <1>10, <2>1, <3>2
      <4> QED
        BY ONLY <1>2, <1>9, <1>10, <3>2, <4>1
    <3> QED
      BY <3>1, <3>2
  <2>5. ts \in SUBSET (os.list \ {Idle})
    BY ONLY <1>2, <2>1
  <2>6. Elapsing(os, pc, ts, r)
    BY ONLY <1>10, <2>2, <2>3, <2>4, <2>5 DEF Elapsing
  <2> QED
    BY ONLY <1>1, <2>6, TickKeeps
<1>12. KeepsTasks(os, r)
  <2>1. \A v \in Task : r.tcb[v].prio = os.tcb[v].prio
    BY ONLY <1>2, <1>5, <1>10
  <2> QED
    BY ONLY <1>10, <2>1 DEF KeepsTasks
<1>13. QcbInv(r, qfree) /\ KeptInv(r, q) /\ r.lock <= App[os.app].locks + 1
  BY ONLY <1>1, <1>10 DEF QcbInv, KeptInv
<1>14. \/ Goto(t, "sched")
       \/ pc' = pc /\ (r.lock = 0 => os.lock = 0 /\ (os.prioCur \in os.rdy => os.prioCur \in r.rdy) /\ r.rdy \subseteq os.rdy)
  BY <1>8, <1>9, <1>10
<1>15. Holding(r, pc', qfree, q)
  BY ONLY <1>1, <1>10, <1>11, <1>12, <1>13, <1>14, Holding(os, pc, qfree, q), AppHolds
<1> QED
  BY <1>9, <1>15

\* The scheduler lock.
Locking(k, n, r) == OsType(k) /\ n \in Nat /\ r = [k EXCEPT !.lock = n]
LEMMA LockKeeps ==
  ASSUME NEW k, NEW p, NEW n, NEW r, Locking(k, n, r), TasksInv(k, p)
  PROVE  /\ TasksInv(r, p) /\ KeepsTasks(k, r) /\ r.cur = k.cur /\ r.prioCur = k.prioCur /\ r.lock = n /\ r.rdy = k.rdy
         /\ r.ev = k.ev
<1>1. OsType(k) /\ n \in Nat /\ r = [k EXCEPT !.lock = n]
  BY DEF Locking
<1>2. /\ Shape(r) /\ r.app = k.app /\ r.rdy = k.rdy /\ r.tbl = k.tbl /\ r.tcb = k.tcb /\ r.list = k.list
      /\ r.free = k.free /\ r.ev = k.ev /\ r.evfree = k.evfree
      /\ r.cur = k.cur /\ r.prioCur = k.prioCur /\ r.lock = n
  BY ONLY <1>1 DEF OsType, Shape
<1>3. OsType(r)
  BY ONLY <1>1, <1>2 DEF OsType
<1>4. TasksInv(r, p)
  BY ONLY TasksInv(k, p), <1>2, <1>3, DataKept
<1> QED
  BY ONLY <1>2, <1>4 DEF KeepsTasks

LEMMA SchedLockHolds ==
  ASSUME Holding(os, pc, qfree, q), NEW t, OSSchedLock(t)
  PROVE  Holding(os', pc', qfree, q)
<1>1. /\ Called(os, pc, t) /\ TasksInv(os, pc) /\ OsType(os) /\ QcbInv(os, qfree) /\ KeptInv(os, q)
  BY CallIs DEF OSSchedLock
<1>2. os.lock \in Nat /\ os.lock < App[os.app].locks /\ App[os.app].locks \in Nat
  BY <1>1, AppAssumption DEF OsType, OSSchedLock, Locks
<1>3. PICK n, r : n = os.lock + 1 /\ r = os' /\ Locking(os, n, r)
  BY <1>1, <1>2 DEF OSSchedLock, Locking
<1>4. /\ TasksInv(r, pc) /\ KeepsTasks(os, r) /\ r.cur = os.cur /\ r.prioCur = os.prioCur /\ r.lock = n /\ r.rdy = os.rdy
      /\ r.ev = os.ev
  <2>1. Locking(os, n, r)
    BY <1>3
  <2> QED
    BY ONLY <1>1, <2>1, LockKeeps
<1>5. QcbInv(r, qfree) /\ KeptInv(r, q)
  BY ONLY <1>1, <1>4 DEF QcbInv, KeptInv
<1>6. r.lock <= App[os.app].locks + 1 /\ r.lock # 0
  BY ONLY <1>2, <1>3, <1>4
<1>7. pc' = pc
  BY DEF OSSchedLock
<1>8. Holding(r, pc', qfree, q)
  <2>1. \/ Goto(t, "sched")
        \/ pc' = pc /\ (r.lock = 0 => os.lock = 0 /\ (os.prioCur \in os.rdy => os.prioCur \in r.rdy) /\ r.rdy \subseteq os.rdy)
    BY ONLY <1>6, <1>7
  <2>2. TasksInv(r, pc) /\ KeepsTasks(os, r) /\ r.cur = os.cur /\ r.prioCur = os.prioCur /\ r.lock <= App[os.app].locks + 1
    BY ONLY <1>4, <1>6
  <2> QED
    BY ONLY <1>1, <1>5, <2>1, <2>2, Holding(os, pc, qfree, q), AppHolds
<1> QED
  BY <1>3, <1>8

LEMMA SchedUnlockHolds ==
  ASSUME Holding(os, pc, qfree, q), NEW t, OSSchedUnlock(t)
  PROVE  Holding(os', pc', qfree, q)
<1>1. /\ Called(os, pc, t) /\ TasksInv(os, pc) /\ OsType(os) /\ QcbInv(os, qfree) /\ KeptInv(os, q)
      /\ os.lock <= App[os.app].locks + 1
  BY CallIs DEF OSSchedUnlock
<1>2. os.lock \in Nat /\ os.lock > 0 /\ App[os.app].locks \in Nat
  BY <1>1, AppAssumption DEF OsType, OSSchedUnlock
<1>3. PICK n, r : n = os.lock - 1 /\ r = os' /\ Locking(os, n, r)
  BY <1>1, <1>2 DEF OSSchedUnlock, Locking
<1>4. /\ TasksInv(r, pc) /\ KeepsTasks(os, r) /\ r.cur = os.cur /\ r.prioCur = os.prioCur /\ r.lock = n /\ r.rdy = os.rdy
      /\ r.ev = os.ev
  <2>1. Locking(os, n, r)
    BY <1>3
  <2> QED
    BY ONLY <1>1, <2>1, LockKeeps
<1>5. QcbInv(r, qfree) /\ KeptInv(r, q)
  BY ONLY <1>1, <1>4 DEF QcbInv, KeptInv
<1>6. r.lock <= App[os.app].locks + 1 /\ (os.lock # 1 => r.lock # 0)
  BY ONLY <1>1, <1>2, <1>3, <1>4
<1>7. Goto(t, "sched") \/ (pc' = pc /\ os.lock # 1)
  BY DEF OSSchedUnlock
<1>8. Holding(r, pc', qfree, q)
  <2>1. \/ Goto(t, "sched")
        \/ pc' = pc /\ (r.lock = 0 => os.lock = 0 /\ (os.prioCur \in os.rdy => os.prioCur \in r.rdy) /\ r.rdy \subseteq os.rdy)
    BY ONLY <1>6, <1>7
  <2>2. TasksInv(r, pc) /\ KeepsTasks(os, r) /\ r.cur = os.cur /\ r.prioCur = os.prioCur /\ r.lock <= App[os.app].locks + 1
    BY ONLY <1>4, <1>6
  <2> QED
    BY ONLY <1>1, <1>5, <2>1, <2>2, Holding(os, pc, qfree, q), AppHolds
<1> QED
  BY <1>3, <1>8

\* A task deletes itself, in two steps.
LEMMA TaskDelHolds ==
  ASSUME Holding(os, pc, qfree, q), NEW t, NEW x, x \in Prio, OSTaskDel(t, x)
  PROVE  Holding(os', pc', qfree, q)
<1>1. /\ Called(os, pc, t) /\ TasksInv(os, pc) /\ OsType(os) /\ QcbInv(os, qfree) /\ KeptInv(os, q) /\ CurInv(os, pc)
      /\ \A v \in os.list : pc[v].at # "delete"
      /\ Calls(t, "delself") /\ x = os.tcb[t].prio
  <2>1. Calls(t, "delself") /\ x = os.tcb[t].prio
    <3>1. ~ Calls(t, "del")
      BY CallIs DEF Others
    <3> QED
      BY <3>1 DEF OSTaskDel
  <2> QED
    BY <2>1, CallIs
<1>2. /\ t = os.cur /\ t \in os.list /\ t \in Task /\ t # Idle /\ pc[t].at = "app" /\ os.tbl[x] = t
      /\ os.tcb[t].prio = os.prioCur /\ pc \in [Task -> PcType]
  BY <1>1 DEF Called, TasksInv, TblInv, OwnPrioInv, ArgInv
<1>3. PICK y, s : /\ y = [InApp EXCEPT !.at = "delete", !.ev = Null, !.n = x]
                  /\ s = pc' /\ s = [pc EXCEPT ![t] = y]
  BY DEF OSTaskDel, GotoWith
<1>4. y \in PcType /\ y.at = "delete" /\ y.n = x
  <2>1. y = [at |-> "delete", ev |-> Null, n |-> x, svc |-> Null]
    BY ONLY <1>3 DEF InApp
  <2>2. "delete" \in Label /\ x \in Nat
    BY ONLY Labels, x \in Prio, CoreAssumption DEF Prio
  <2> QED
    BY ONLY <2>1, <2>2 DEF PcType
<1>5. PICK es, m, r : /\ m = OS_EventTaskRemoveMulti(ClearReady(os, t), t, es) /\ r = os'
                      /\ r = [m EXCEPT !.tcb[t].dly = 0, !.tcb[t].stat = {}, !.tcb[t].pend = "ok", !.lock = @ + 1]
  BY <1>2 DEF OSTaskDel, Target
<1>6. os.lock = 0
  BY DEF OSTaskDel, Unlocked
<1>7. /\ TasksInv(r, s) /\ r.ev = os.ev /\ r.rdy = os.rdy \ {os.tcb[t].prio} /\ r.lock = os.lock + 1
      /\ KeepsTasks(os, r) /\ r.cur = os.cur /\ r.prioCur = os.prioCur
      /\ r.tcb[t].stat = {} /\ r.tcb[t].dly = 0
  <2>1. Deleting(os, pc, t, y, s, es, m, r)
    BY ONLY <1>1, <1>2, <1>3, <1>4, <1>5, x \in Prio DEF Deleting
  <2> QED
    BY ONLY <2>1, DeleteKeeps
<1>8. s[t] = y /\ \A v \in Task : v # t => s[v] = pc[v]
  BY ONLY <1>2, <1>3
<1>9. CurInv(r, s)
  <2>1. r.list = os.list /\ r.tcb[t].prio = x /\ r.lock = 1 /\ App[r.app].locks \in Nat /\ os.list \subseteq Task
    BY ONLY <1>1, <1>2, <1>6, <1>7, AppAssumption DEF KeepsTasks, OsType
  <2>2. ASSUME NEW v \in r.list, s[v].at = "delete"
        PROVE  v = t
    BY ONLY <1>1, <1>8, <2>1, <2>2
  <2>3. r.lock <= App[r.app].locks + 1
    BY ONLY <2>1
  <2>4. "delete" \notin PendStage \cup {"block", "wake"}
    BY DEF PendStage
  <2> QED
    BY ONLY <1>1, <1>2, <1>4, <1>7, <1>8, <2>1, <2>2, <2>3, <2>4 DEF CurInv
<1>10. RunInv(r, s)
  BY ONLY <1>6, <1>7 DEF RunInv
<1>11. QcbInv(r, qfree) /\ KeptInv(r, q)
  BY ONLY <1>1, <1>7 DEF QcbInv, KeptInv
<1> QED
  BY ONLY <1>3, <1>5, <1>7, <1>9, <1>10, <1>11 DEF Holding

LEMMA FreeTcbHolds ==
  ASSUME Holding(os, pc, qfree, q), NEW t, FreeTcb(t)
  PROVE  Holding(os', pc', qfree, q)
<1>1. t = os.cur /\ pc[t].at = "delete" /\ TasksInv(os, pc) /\ CurInv(os, pc) /\ QcbInv(os, qfree) /\ KeptInv(os, q)
  BY DEF FreeTcb, At, Holding
<1>2. /\ OsType(os) /\ Shape(os) /\ os.list \subseteq Task /\ OwnPrioInv(os) /\ pc \in [Task -> PcType] /\ os.tcb \in [Task -> TcbType]
      /\ os.tbl \in [Prio -> Task \cup {Null, Reserved}]
  BY <1>1 DEF TasksInv, OsType, TblInv, ArgInv
<1>3. PICK z : z = os.tcb[t].prio /\ z = pc[t].n
  BY ONLY <1>1 DEF CurInv
<1>4. /\ t \in os.list /\ t \in Task /\ t # Idle /\ os.lock = 1 /\ z \notin os.rdy /\ z = os.prioCur /\ os.tbl[z] = t /\ z \in Prio
      /\ \A v \in os.list : v # t => pc[v].at # "delete"
  BY <1>1, <1>2, <1>3 DEF CurInv, OwnPrioInv, TcbType
<1>5. PICK y, s : y = [InApp EXCEPT !.at = "sched"] /\ s = pc' /\ s = [pc EXCEPT ![t] = y]
  BY ZenonT(40), <1>2, <1>3, <1>4 DEF FreeTcb, Target
<1>6. y \in PcType /\ y.at = "sched"
  BY ONLY <1>5 DEF InApp, PcType, Label
<1>7. PICK r : /\ r = os'
               /\ r = [os EXCEPT !.lock = os.lock - 1, !.tbl = [os.tbl EXCEPT ![z] = Null], !.tcb = [os.tcb EXCEPT ![t] = Tcb(0)],
                                 !.list = os.list \ {t}, !.free = os.free \cup {t}]
  <2>1. os' = [os EXCEPT !.lock = @ - 1, !.tbl[z] = Null, !.tcb[t] = Tcb(0), !.list = @ \ {t}, !.free = @ \cup {t}]
    BY <1>3, <1>4 DEF FreeTcb, Target
  <2> QED
    BY ONLY <1>2, <2>1 DEF Shape
<1>8. /\ Shape(r) /\ r.app = os.app /\ r.rdy = os.rdy /\ r.tbl = [os.tbl EXCEPT ![z] = Null]
      /\ r.tcb = [os.tcb EXCEPT ![t] = Tcb(0)] /\ r.list = os.list \ {t} /\ r.free = os.free \cup {t}
      /\ r.ev = os.ev /\ r.evfree = os.evfree /\ r.cur = os.cur /\ r.prioCur = os.prioCur /\ r.lock = 0
  <2>1. /\ Shape(os)
        /\ r = [os EXCEPT !.lock = os.lock - 1, !.tbl = [os.tbl EXCEPT ![z] = Null], !.tcb = [os.tcb EXCEPT ![t] = Tcb(0)],
                          !.list = os.list \ {t}, !.free = os.free \cup {t}]
    BY ONLY <1>2, <1>7
  <2>2. /\ Shape(r) /\ r.app = os.app /\ r.rdy = os.rdy /\ r.tbl = [os.tbl EXCEPT ![z] = Null]
        /\ r.tcb = [os.tcb EXCEPT ![t] = Tcb(0)] /\ r.list = os.list \ {t} /\ r.free = os.free \cup {t}
        /\ r.ev = os.ev /\ r.evfree = os.evfree /\ r.cur = os.cur /\ r.prioCur = os.prioCur /\ r.lock = os.lock - 1
    BY ONLY <2>1 DEF Shape
  <2> QED
    BY ONLY <1>4, <2>2
<1>9. TasksInv(r, s)
  <2>1. /\ TasksInv(os, pc) /\ t \in os.list /\ t # Idle /\ pc[t].at = "delete" /\ z \in Prio /\ z = os.tcb[t].prio
        /\ z \notin os.rdy /\ y \in PcType /\ y.at = "sched" /\ s = [pc EXCEPT ![t] = y] /\ r.lock \in Nat
    BY ONLY <1>1, <1>3, <1>4, <1>5, <1>6, <1>8
  <2>2. /\ Shape(r) /\ r.app = os.app /\ r.rdy = os.rdy /\ r.tbl = [os.tbl EXCEPT ![z] = Null]
        /\ r.tcb = [os.tcb EXCEPT ![t] = Tcb(0)] /\ r.list = os.list \ {t} /\ r.free = os.free \cup {t}
        /\ r.ev = os.ev /\ r.evfree = os.evfree /\ r.cur = os.cur /\ r.prioCur = os.prioCur
    BY ONLY <1>8
  <2>3. Freeing(os, pc, t, z, y, s, r)
    BY ONLY <2>1, <2>2 DEF Freeing
  <2> QED
    BY ONLY <2>3, FreeKeeps
<1>10. s[t] = y /\ \A v \in Task : v # t => s[v] = pc[v]
  BY ONLY <1>2, <1>4, <1>5
<1>11. CurInv(r, s)
  <2>1. \A v \in r.list : s[v].at # "delete"
    BY ONLY <1>2, <1>4, <1>8, <1>10
  <2>2. r.cur = t /\ t \notin r.list /\ r.tbl[r.prioCur] = Null
    BY ONLY <1>1, <1>2, <1>4, <1>8
  <2>3. "sched" \notin PendStage \cup {"block", "wake"} /\ App[r.app].locks \in Nat
    BY ONLY <1>2, <1>8, AppAssumption DEF PendStage, OsType
  <2>4. r.lock <= App[r.app].locks + 1
    BY ONLY <1>8, <2>3
  <2> QED
    BY ONLY <1>6, <1>8, <1>10, <2>1, <2>2, <2>3, <2>4 DEF CurInv
<1>12. RunInv(r, s)
  BY ONLY <1>1, <1>6, <1>8, <1>10 DEF RunInv
<1>13. QcbInv(r, qfree) /\ KeptInv(r, q)
  BY ONLY <1>1, <1>8 DEF QcbInv, KeptInv
<1> QED
  BY ONLY <1>5, <1>7, <1>9, <1>11, <1>12, <1>13 DEF Holding
-----------------------------------------------------------------------------
\* A creation goes on: the processor is left alone.
Making(k, p, t, y, s, r) ==
  /\ Creation(k, p, t, y, s, r) /\ t = k.cur /\ r.cur = k.cur /\ r.prioCur = k.prioCur /\ r.lock = k.lock
LEMMA MakeHolds ==
  ASSUME NEW k, NEW p, NEW f, NEW x, Holding(k, p, f, x), NEW t, NEW y, NEW s, NEW r, Making(k, p, t, y, s, r)
  PROVE  Holding(r, s, f, x)
<1>1. Creation(k, p, t, y, s, r) /\ t = k.cur /\ r.cur = k.cur /\ r.prioCur = k.prioCur /\ r.lock = k.lock
  BY DEF Making
<1>2. /\ t \in k.list /\ p[t].at \in Creating \cup {"app"} /\ y \in PcType /\ y.at \in Creating \cup {"app"}
      /\ s = [p EXCEPT ![t] = y] /\ r.app = k.app /\ r.rdy = k.rdy /\ r.list = k.list /\ r.ev = k.ev
      /\ \A u \in k.list : r.tcb[u] = k.tcb[u]
  BY ONLY <1>1 DEF Creation
<1>3. TasksInv(r, s)
  BY ONLY <1>1, CreationKeeps
<1>4. CurInv(k, p) /\ QcbInv(k, f) /\ KeptInv(k, x)
  BY DEF Holding
<1>5. CpuStep(k, p, t, y, r)
  <2>1. (Creating \cup {"app"}) \cap (PendStage \cup {"delete", "sched", "block", "wake"}) = {}
    BY DEF PendStage, Creating
  <2>2. Creates(k, r) /\ r.lock <= App[k.app].locks + 1
    BY ONLY <1>1, <1>2, <1>4 DEF Creates, CurInv
  <2> QED
    BY ONLY <1>1, <1>2, <2>1, <2>2 DEF CpuStep
<1>6. QcbInv(r, f) /\ KeptInv(r, x)
  BY ONLY <1>2, <1>4 DEF QcbInv, KeptInv
<1> QED
  BY ONLY <1>2, <1>3, <1>5, <1>6, Holding(k, p, f, x), TaskHolds

LEMMA ReserveHolds ==
  ASSUME Holding(os, pc, qfree, q), NEW t, NEW x, x \in Prio, ReservePrio(t, x)
  PROVE  Holding(os', pc', qfree, q)
<1>1. /\ Called(os, pc, t) /\ TasksInv(os, pc) /\ OsType(os)
  BY CallIs DEF ReservePrio
<1>2. /\ t = os.cur /\ t \in os.list /\ t # Idle /\ pc[t].at = "app" /\ pc \in [Task -> PcType] /\ TblInv(os, pc)
      /\ os.tcb \in [Task -> TcbType] /\ os.tbl \in [Prio -> Task \cup {Null, Reserved}] /\ DlyInv(os) /\ Shape(os)
      /\ os.list \subseteq Task
  BY ONLY <1>1 DEF Called, TasksInv, ArgInv, OsType
<1>3. PICK y, s : /\ y = [at |-> "create", ev |-> Null, n |-> x, svc |-> Null]
                  /\ s = pc' /\ s = [pc EXCEPT ![t] = y]
  <2>1. pc' = [pc EXCEPT ![t] = [InApp EXCEPT !.at = "create", !.ev = Null, !.n = x]]
    BY DEF ReservePrio, GotoWith
  <2>2. PICK y : y = [InApp EXCEPT !.at = "create", !.ev = Null, !.n = x]
    OBVIOUS
  <2>3. y = [at |-> "create", ev |-> Null, n |-> x, svc |-> Null]
    BY ONLY <2>2 DEF InApp
  <2>4. pc' = [pc EXCEPT ![t] = y]
    BY ONLY <2>1, <2>2
  <2> QED
    BY ONLY <2>3, <2>4
<1>4. y \in PcType /\ y.at = "create" /\ y.n = x /\ "create" \in Creating
  <2>1. "create" \in Label /\ "create" \in Creating /\ x \in Nat
    BY ONLY Labels, x \in Prio, CoreAssumption DEF Prio, Creating
  <2> QED
    BY ONLY <1>3, <2>1 DEF PcType
<1>5. PICK r : r = os' /\ r = [os EXCEPT !.tbl = [os.tbl EXCEPT ![x] = Reserved]]
  BY <1>2 DEF ReservePrio, Shape
<1>6. /\ Shape(r) /\ r.app = os.app /\ r.rdy = os.rdy /\ r.tbl = [os.tbl EXCEPT ![x] = Reserved]
      /\ r.tcb = os.tcb /\ r.list = os.list /\ r.free = os.free
      /\ r.ev = os.ev /\ r.evfree = os.evfree /\ r.cur = os.cur /\ r.prioCur = os.prioCur /\ r.lock = os.lock
  BY ONLY <1>2, <1>5 DEF Shape
<1>7. OsType(r)
  <2>1. r.tbl \in [Prio -> Task \cup {Null, Reserved}]
    BY ONLY <1>2, <1>6
  <2> QED
    BY ONLY <1>1, <1>6, <2>1 DEF OsType
<1>8. TblInv(r, s)
  <2>1. os.tbl[x] = Null
    BY DEF ReservePrio, Target
  <2>2. Reserving(os, pc, t, x, y, s, r)
    BY ONLY <1>1, <1>2, <1>3, <1>4, <1>6, <2>1, x \in Prio DEF Reserving
  <2> QED
    BY ONLY <2>2, ReserveTbl
<1>9. Making(os, pc, t, y, s, r)
  <2>1. Creation(os, pc, t, y, s, r)
    <3>1. (\A u \in os.list : r.tcb[u] = os.tcb[u]) /\ (\A u \in Task : r.tcb[u].dly <= App[os.app].dly)
      BY ONLY <1>2, <1>6 DEF DlyInv
    <3> QED
      BY ONLY <1>1, <1>2, <1>3, <1>4, <1>6, <1>7, <1>8, <3>1, x \in Prio DEF Creation
  <2> QED
    BY ONLY <1>2, <1>6, <2>1 DEF Making
<1>10. Holding(r, s, qfree, q)
  BY ONLY <1>9, Holding(os, pc, qfree, q), MakeHolds
<1> QED
  BY ONLY <1>3, <1>5, <1>10

\* A task in the middle of a creation.
LEMMA Creator ==
  ASSUME Holding(os, pc, qfree, q), NEW t, t = os.cur, pc[t].at \in Creating
  PROVE  /\ TasksInv(os, pc) /\ OsType(os) /\ t \in os.list /\ t # Idle /\ pc \in [Task -> PcType] /\ TblInv(os, pc)
         /\ os.tcb \in [Task -> TcbType] /\ os.tbl \in [Prio -> Task \cup {Null, Reserved}] /\ DlyInv(os) /\ Shape(os)
         /\ os.list \subseteq Task /\ pc[t].n \in Prio /\ pc[t] \in PcType /\ App[os.app].dly \in Nat /\ os.free \subseteq Task
<1>1. pc[t].at \notin {"sched", "delete", "app"}
  BY DEF Creating
<1>2. TasksInv(os, pc) /\ t \in os.list /\ t # Idle /\ t \in Task
  BY <1>1, Running
<1>3. OsType(os) /\ ArgInv(os.app, pc) /\ TblInv(os, pc) /\ DlyInv(os)
  BY ONLY <1>2 DEF TasksInv
<1>4. pc \in [Task -> PcType] /\ pc[t].n \in Prio
  BY <1>2, <1>3 DEF ArgInv
<1>5. App[os.app].dly \in Nat
  BY ONLY <1>3, AppAssumption DEF OsType
<1> QED
  BY ONLY <1>2, <1>3, <1>4, <1>5 DEF OsType

LEMMA TakeTcbHolds ==
  ASSUME Holding(os, pc, qfree, q), NEW t, TakeTcb(t)
  PROVE  Holding(os', pc', qfree, q)
<1>1. t = os.cur /\ pc[t].at = "create" /\ pc[t].at \in Creating
  BY DEF TakeTcb, At, Creating
<1>2. /\ TasksInv(os, pc) /\ OsType(os) /\ t \in os.list /\ t # Idle /\ pc \in [Task -> PcType] /\ TblInv(os, pc)
      /\ os.tcb \in [Task -> TcbType] /\ os.tbl \in [Prio -> Task \cup {Null, Reserved}] /\ DlyInv(os) /\ Shape(os)
      /\ os.list \subseteq Task /\ pc[t].n \in Prio /\ pc[t] \in PcType /\ App[os.app].dly \in Nat /\ os.free \subseteq Task
  BY ONLY <1>1, Holding(os, pc, qfree, q), Creator
<1>3. {"link", "refused"} \subseteq Label \cap Creating /\ "create" \in Creating
  BY ONLY Labels DEF Creating
<1>4. CASE os.free = {}
  <2>1. PICK y, s : y = [pc[t] EXCEPT !.at = "refused"] /\ s = pc' /\ s = [pc EXCEPT ![t] = y]
    BY <1>4 DEF TakeTcb, Goto
  <2>2. y \in PcType /\ y.at = "refused" /\ y.n = pc[t].n
    BY ONLY <1>2, <1>3, <2>1 DEF PcType
  <2>3. TblInv(os, s)
    <3>1. Refusing(os, pc, t, y, s)
      BY ONLY <1>1, <1>2, <2>1, <2>2 DEF Refusing
    <3> QED
      BY ONLY <3>1, RefuseTbl
  <2>4. Making(os, pc, t, y, s, os)
    <3>1. Creation(os, pc, t, y, s, os)
      <4>1. \A u \in Task : os.tcb[u].dly <= App[os.app].dly
        BY ONLY <1>2 DEF DlyInv
      <4> QED
        BY ONLY <1>1, <1>2, <1>3, <2>1, <2>2, <2>3, <4>1 DEF Creation
    <3> QED
      BY ONLY <1>1, <3>1 DEF Making
  <2>5. Holding(os, s, qfree, q)
    BY ONLY <2>4, Holding(os, pc, qfree, q), MakeHolds
  <2> QED
    BY <1>4, <2>1, <2>5 DEF TakeTcb
<1>5. CASE os.free # {}
  <2>1. PICK u, z : /\ u \in os.free /\ z = Tcb(pc[t].n) /\ os' = [os EXCEPT !.free = @ \ {u}, !.tcb[u] = Tcb(pc[t].n)]
                    /\ GotoWith(t, "link", u, pc[t].n)
    BY <1>5 DEF TakeTcb
  <2>2. PICK y, s : y = [at |-> "link", ev |-> u, n |-> pc[t].n, svc |-> Null] /\ s = pc' /\ s = [pc EXCEPT ![t] = y]
    <3>1. pc' = [pc EXCEPT ![t] = [InApp EXCEPT !.at = "link", !.ev = u, !.n = pc[t].n]]
      BY ONLY <2>1 DEF GotoWith
    <3>2. PICK y : y = [InApp EXCEPT !.at = "link", !.ev = u, !.n = pc[t].n]
      OBVIOUS
    <3>3. y = [at |-> "link", ev |-> u, n |-> pc[t].n, svc |-> Null]
      BY ONLY <3>2 DEF InApp
    <3>4. pc' = [pc EXCEPT ![t] = y]
      BY ONLY <3>1, <3>2
    <3> QED
      BY ONLY <3>3, <3>4
  <2>3. y \in PcType /\ y.at = "link" /\ y.n = pc[t].n /\ y.ev = u
    <3>1. pc[t].n \in Nat /\ u \in Task
      BY ONLY <1>2, <2>1, CoreAssumption DEF Prio
    <3> QED
      BY ONLY <1>3, <2>2, <3>1 DEF PcType
  <2>4. PICK r : r = os' /\ r = [os EXCEPT !.tcb = [os.tcb EXCEPT ![u] = z], !.free = os.free \ {u}]
    BY ONLY <1>2, <2>1 DEF Shape
  <2>5. /\ Shape(r) /\ r.app = os.app /\ r.rdy = os.rdy /\ r.tbl = os.tbl
        /\ r.tcb = [os.tcb EXCEPT ![u] = z] /\ r.list = os.list /\ r.free = os.free \ {u}
        /\ r.ev = os.ev /\ r.evfree = os.evfree /\ r.cur = os.cur /\ r.prioCur = os.prioCur /\ r.lock = os.lock
    BY ONLY <1>2, <2>4 DEF Shape
  <2>6. z \in TcbType /\ z.dly = 0
    BY ONLY <1>2, <2>1 DEF Tcb, TcbType
  <2>7. u \in Task /\ u \notin os.list
    BY ONLY <1>2, <2>1 DEF TblInv, BlocksInv
  <2>8. OsType(r)
    <3>1. r.tcb \in [Task -> TcbType] /\ r.free \subseteq Task
      BY ONLY <1>2, <2>5, <2>6, <2>7
    <3> QED
      BY ONLY <1>2, <2>5, <3>1 DEF OsType
  <2>9. TblInv(r, s)
    <3>1. r.tcb = [os.tcb EXCEPT ![u] = Tcb(y.n)]
      BY ONLY <2>1, <2>3, <2>5
    <3>2. Taking(os, pc, t, u, y, s, r)
      BY ONLY <1>1, <1>2, <2>1, <2>2, <2>3, <2>5, <3>1 DEF Taking
    <3> QED
      BY ONLY <3>2, TakeTbl
  <2>10. Making(os, pc, t, y, s, r)
    <3>1. (\A v \in os.list : r.tcb[v] = os.tcb[v]) /\ (\A v \in Task : r.tcb[v].dly <= App[os.app].dly)
      BY ONLY <1>2, <2>5, <2>6, <2>7 DEF DlyInv
    <3>2. Creation(os, pc, t, y, s, r)
      BY ONLY <1>1, <1>2, <1>3, <2>2, <2>3, <2>5, <2>8, <2>9, <3>1 DEF Creation
    <3> QED
      BY ONLY <1>1, <2>5, <3>2 DEF Making
  <2>11. Holding(r, s, qfree, q)
    BY ONLY <2>10, Holding(os, pc, qfree, q), MakeHolds
  <2> QED
    BY ONLY <2>2, <2>4, <2>11
<1> QED
  BY <1>4, <1>5

LEMMA GiveBackHolds ==
  ASSUME Holding(os, pc, qfree, q), NEW t, GiveBack(t)
  PROVE  Holding(os', pc', qfree, q)
<1>1. t = os.cur /\ pc[t].at = "refused" /\ pc[t].at \in Creating
  BY DEF GiveBack, At, Creating
<1>2. /\ TasksInv(os, pc) /\ OsType(os) /\ t \in os.list /\ t # Idle /\ pc \in [Task -> PcType] /\ TblInv(os, pc)
      /\ os.tcb \in [Task -> TcbType] /\ os.tbl \in [Prio -> Task \cup {Null, Reserved}] /\ DlyInv(os) /\ Shape(os)
      /\ os.list \subseteq Task /\ pc[t].n \in Prio
  BY ONLY <1>1, Holding(os, pc, qfree, q), Creator
<1>3. PICK y, s : y = InApp /\ s = pc' /\ s = [pc EXCEPT ![t] = y]
  BY DEF GiveBack, Return
<1>4. y \in PcType /\ y.at = "app" /\ y.at \notin Creating
  BY ONLY <1>3 DEF InApp, PcType, Label, Creating
<1>5. PICK x, r : x = pc[t].n /\ r = os' /\ r = [os EXCEPT !.tbl = [os.tbl EXCEPT ![x] = Null]]
  BY <1>2 DEF GiveBack, Shape
<1>6. /\ Shape(r) /\ r.app = os.app /\ r.rdy = os.rdy /\ r.tbl = [os.tbl EXCEPT ![x] = Null]
      /\ r.tcb = os.tcb /\ r.list = os.list /\ r.free = os.free
      /\ r.ev = os.ev /\ r.evfree = os.evfree /\ r.cur = os.cur /\ r.prioCur = os.prioCur /\ r.lock = os.lock
  BY ONLY <1>2, <1>5 DEF Shape
<1>7. OsType(r)
  <2>1. r.tbl \in [Prio -> Task \cup {Null, Reserved}]
    BY ONLY <1>2, <1>6
  <2> QED
    BY ONLY <1>2, <1>6, <2>1 DEF OsType
<1>8. TblInv(r, s)
  <2>1. r.tbl = [os.tbl EXCEPT ![pc[t].n] = Null]
    BY ONLY <1>5, <1>6
  <2>2. GivingBack(os, pc, t, y, s, r)
    BY ONLY <1>1, <1>2, <1>3, <1>4, <1>6, <2>1 DEF GivingBack
  <2> QED
    BY ONLY <2>2, GiveBackTbl
<1>9. Making(os, pc, t, y, s, r)
  <2>1. Creation(os, pc, t, y, s, r)
    <3>1. (\A u \in os.list : r.tcb[u] = os.tcb[u]) /\ (\A u \in Task : r.tcb[u].dly <= App[os.app].dly)
      BY ONLY <1>2, <1>6 DEF DlyInv
    <3> QED
      BY ONLY <1>1, <1>2, <1>3, <1>4, <1>6, <1>7, <1>8, <3>1 DEF Creation
  <2> QED
    BY ONLY <1>1, <1>6, <2>1 DEF Making
<1>10. Holding(r, s, qfree, q)
  BY ONLY <1>9, Holding(os, pc, qfree, q), MakeHolds
<1> QED
  BY ONLY <1>3, <1>5, <1>10
\* The last step: the new task is there.
LEMMA LinkHolds ==
  ASSUME Holding(os, pc, qfree, q), NEW t, OS_TCBInit(t)
  PROVE  Holding(os', pc', qfree, q)
<1>1. t = os.cur /\ pc[t].at = "link" /\ pc[t].at \in Creating
  BY DEF OS_TCBInit, At, Creating
<1>2. /\ TasksInv(os, pc) /\ OsType(os) /\ t \in os.list /\ t # Idle /\ pc \in [Task -> PcType] /\ TblInv(os, pc)
      /\ os.tcb \in [Task -> TcbType] /\ os.tbl \in [Prio -> Task \cup {Null, Reserved}] /\ Shape(os)
      /\ os.list \subseteq Task /\ pc[t].n \in Prio
  BY ONLY <1>1, Holding(os, pc, qfree, q), Creator
<1>3. PICK u, z : u = pc[t].ev /\ z = pc[t].n
  OBVIOUS
<1>4. u \in Task /\ u \notin os.list /\ u # t /\ z \in Prio
  BY ONLY <1>1, <1>2, <1>3 DEF TblInv, BlocksInv, Linkers
<1>5. PICK y, s : y = [InApp EXCEPT !.at = "sched"] /\ s = pc' /\ s = [pc EXCEPT ![t] = y, ![u] = InApp]
  BY <1>3 DEF OS_TCBInit
<1>6. y \in PcType /\ y.at = "sched" /\ InApp.at = "app"
  BY ONLY <1>5 DEF InApp, PcType, Label
<1>7. PICK r : r = os' /\ r = SetReady([os EXCEPT !.tbl[z] = u, !.list = @ \cup {u}], u)
  BY <1>3 DEF OS_TCBInit
<1>8. r.app = os.app /\ r.list = os.list \cup {u} /\ r.ev = os.ev /\ r.tcb = os.tcb
  <2>1. Shape(os)
    BY ONLY <1>2
  <2> QED
    BY ONLY <1>7, <2>1 DEF SetReady, Shape
<1>9. TasksInv(r, s) /\ KeepsCpu(os, r)
  <2>1. Linking(os, pc, t, u, z, y, s, r)
    BY ONLY <1>1, <1>2, <1>3, <1>4, <1>5, <1>6, <1>7 DEF Linking
  <2> QED
    BY ONLY <2>1, LinkKeeps
<1>10. s[t] = y /\ s[u] = InApp /\ \A v \in Task : v # t /\ v # u => s[v] = pc[v]
  BY ONLY <1>2, <1>4, <1>5
<1>11. /\ CurInv(os, pc) /\ QcbInv(os, qfree) /\ KeptInv(os, q) /\ \A v \in os.list : pc[v].at # "delete"
       /\ os.tcb[t].prio = os.prioCur
  <2>1. pc[t].at \notin {"sched", "delete"}
    BY ONLY <1>1
  <2> QED
    BY ONLY <1>1, <2>1, Holding(os, pc, qfree, q), Running DEF Holding
<1>12. CurInv(r, s)
  <2>1. \A v \in r.list : s[v].at # "delete"
    BY ONLY <1>2, <1>4, <1>6, <1>8, <1>10, <1>11
  <2>2. "sched" \notin PendStage \cup {"block", "wake"}
    BY DEF PendStage
  <2>3. r.lock <= App[r.app].locks + 1
    BY ONLY <1>8, <1>9, <1>11 DEF CurInv, KeepsCpu
  <2>4. r.cur = t /\ r.cur \in r.list /\ r.tcb[r.cur].prio = r.prioCur
    BY ONLY <1>1, <1>2, <1>8, <1>9, <1>11 DEF KeepsCpu
  <2> QED
    BY ONLY <1>6, <1>10, <2>1, <2>2, <2>3, <2>4 DEF CurInv
<1>13. RunInv(r, s)
  <2>1. r.cur = t
    BY ONLY <1>1, <1>9 DEF KeepsCpu
  <2> QED
    BY ONLY <1>6, <1>10, <2>1 DEF RunInv
<1>14. QcbInv(r, qfree) /\ KeptInv(r, q)
  BY ONLY <1>8, <1>11 DEF QcbInv, KeptInv
<1> QED
  BY ONLY <1>5, <1>7, <1>9, <1>12, <1>13, <1>14 DEF Holding
-----------------------------------------------------------------------------
\* What the steps of the creation of an event do to the pool of control blocks.
EcbTaken(k, p, t, s, r, e) ==
  /\ k.evfree \in Seq(DOMAIN k.ev) /\ k.evfree # <<>> /\ e = Head(k.evfree) /\ EcbInv(k, p) /\ t \in k.list /\ k.list \subseteq Task
  /\ p \in [Task -> PcType] /\ p[t].at = "app" /\ r.list = k.list /\ r.evfree = Tail(k.evfree)
  /\ DOMAIN r.ev = DOMAIN k.ev /\ \A f \in DOMAIN k.ev : f # e => r.ev[f] = k.ev[f]
  /\ \/ s = p /\ r.ev[e].type # "unused"
     \/ r.ev = k.ev /\ s[t].at = "qcreate" /\ s[t].ev = e /\ \A u \in Task : u # t => s[u] = p[u]
LEMMA EcbTakenKeeps ==
  ASSUME NEW k, NEW p, NEW t, NEW s, NEW r, NEW e, EcbTaken(k, p, t, s, r, e)
  PROVE  EcbInv(r, s) /\ e \in DOMAIN k.ev /\ k.ev[e].type = "unused" /\ r.evfree \in Seq(DOMAIN k.ev)
<1>1. PICK l, m : l = k.evfree /\ m = Tail(l)
  OBVIOUS
<1>2. l \in Seq(DOMAIN k.ev) /\ l # <<>> /\ IsInjective(l) /\ e = Head(l) /\ r.evfree = m
  BY <1>1 DEF EcbTaken, EcbInv
<1>3. m \in Seq(DOMAIN k.ev) /\ IsInjective(m) /\ e \in DOMAIN k.ev /\ e \in ToSet(l) /\ ToSet(m) = ToSet(l) \ {e}
  <2>1. Popped(DOMAIN k.ev, l, m)
    BY ONLY <1>1, <1>2, Pop
  <2> QED
    BY ONLY <1>2, <2>1 DEF Popped
<1>4. /\ \A u \in k.list : p[u].at = "qcreate" =>
           /\ p[u].ev \in DOMAIN k.ev /\ k.ev[p[u].ev].type = "unused" /\ p[u].ev \notin ToSet(l)
           /\ \A v \in k.list : p[v].at = "qcreate" /\ p[v].ev = p[u].ev => v = u
      /\ \A f \in DOMAIN k.ev : k.ev[f].type = "unused" <=>
           f \in ToSet(l) \/ \E u \in k.list : p[u].at = "qcreate" /\ p[u].ev = f
  BY ONLY <1>1, EcbTaken(k, p, t, s, r, e) DEF EcbTaken, EcbInv
<1>5. k.ev[e].type = "unused" /\ \A u \in k.list : p[u].at = "qcreate" => p[u].ev # e
  BY ONLY <1>3, <1>4
<1>6. /\ t \in k.list /\ k.list \subseteq Task /\ p[t].at = "app" /\ r.list = k.list
      /\ DOMAIN r.ev = DOMAIN k.ev /\ \A f \in DOMAIN k.ev : f # e => r.ev[f] = k.ev[f]
      /\ \/ s = p /\ r.ev[e].type # "unused"
         \/ r.ev = k.ev /\ s[t].at = "qcreate" /\ s[t].ev = e /\ \A u \in Task : u # t => s[u] = p[u]
  BY DEF EcbTaken
<1>7. CASE s = p /\ r.ev[e].type # "unused"
  <2>1. \A u \in r.list : s[u].at = "qcreate" =>
           /\ s[u].ev \in DOMAIN r.ev /\ r.ev[s[u].ev].type = "unused" /\ s[u].ev \notin ToSet(m)
           /\ \A v \in r.list : s[v].at = "qcreate" /\ s[v].ev = s[u].ev => v = u
    BY ONLY <1>3, <1>4, <1>5, <1>6, <1>7
  <2>2. \A f \in DOMAIN r.ev : r.ev[f].type = "unused" <=>
           f \in ToSet(m) \/ \E u \in r.list : s[u].at = "qcreate" /\ s[u].ev = f
    BY ONLY <1>3, <1>4, <1>5, <1>6, <1>7
  <2> QED
    BY ONLY <1>2, <1>3, <1>5, <2>1, <2>2 DEF EcbInv
<1>8. CASE r.ev = k.ev /\ s[t].at = "qcreate" /\ s[t].ev = e /\ \A u \in Task : u # t => s[u] = p[u]
  <2>1. \A u \in r.list : s[u].at = "qcreate" <=> u = t \/ p[u].at = "qcreate"
    BY ONLY <1>6, <1>8
  <2>2. \A u \in r.list : u # t => s[u] = p[u]
    BY ONLY <1>6, <1>8
  <2>3. \A u \in r.list : s[u].at = "qcreate" =>
           /\ s[u].ev \in DOMAIN r.ev /\ r.ev[s[u].ev].type = "unused" /\ s[u].ev \notin ToSet(m)
           /\ \A v \in r.list : s[v].at = "qcreate" /\ s[v].ev = s[u].ev => v = u
    <3> SUFFICES ASSUME NEW u \in r.list, s[u].at = "qcreate"
                 PROVE  /\ s[u].ev \in DOMAIN r.ev /\ r.ev[s[u].ev].type = "unused" /\ s[u].ev \notin ToSet(m)
                        /\ \A v \in r.list : s[v].at = "qcreate" /\ s[v].ev = s[u].ev => v = u
      OBVIOUS
    <3>1. CASE u = t
      BY ONLY <1>3, <1>5, <1>6, <1>8, <2>1, <2>2, <3>1
    <3>2. CASE u # t
      <4>1. s[u] = p[u] /\ p[u].at = "qcreate" /\ p[u].ev # e
        BY ONLY <1>5, <1>6, <2>1, <2>2, <3>2, u \in r.list, s[u].at = "qcreate"
      <4> QED
        BY ONLY <1>3, <1>4, <1>6, <1>8, <2>1, <2>2, <3>2, <4>1, u \in r.list
    <3> QED
      BY <3>1, <3>2
  <2>4. \A f \in DOMAIN r.ev : r.ev[f].type = "unused" <=>
           f \in ToSet(m) \/ \E u \in r.list : s[u].at = "qcreate" /\ s[u].ev = f
    <3>0. DOMAIN r.ev = DOMAIN k.ev /\ r.list = k.list /\ r.ev = k.ev
      BY ONLY <1>6, <1>8
    <3>1. ASSUME NEW f \in DOMAIN r.ev
          PROVE  r.ev[f].type = "unused" <=> f \in ToSet(m) \/ \E u \in r.list : s[u].at = "qcreate" /\ s[u].ev = f
      <4>1. f \in DOMAIN k.ev /\ r.ev[f] = k.ev[f]
        BY ONLY <3>0, <3>1
      <4>2. CASE f = e
        BY ONLY <1>5, <1>6, <1>8, <4>2
      <4>3. CASE f # e
        <5>1. (\E u \in r.list : s[u].at = "qcreate" /\ s[u].ev = f) <=> (\E u \in k.list : p[u].at = "qcreate" /\ p[u].ev = f)
          BY ONLY <1>6, <1>8, <2>1, <2>2, <4>3
        <5> QED
          BY ONLY <1>3, <1>4, <4>1, <4>3, <5>1
      <4> QED
        BY <4>2, <4>3
    <3> QED
      BY ONLY <3>1
  <2> QED
    BY ONLY <1>2, <1>3, <1>5, <2>3, <2>4 DEF EcbInv
<1> QED
  BY ONLY <1>6, <1>7, <1>8
EcbSettled(k, p, t, s, r, e) ==
  /\ k.evfree \in Seq(DOMAIN k.ev) /\ EcbInv(k, p) /\ t \in k.list /\ k.list \subseteq Task
  /\ p[t].at = "qcreate" /\ e = p[t].ev /\ s[t].at = "app" /\ \A u \in Task : u # t => s[u] = p[u]
  /\ r.list = k.list /\ DOMAIN r.ev = DOMAIN k.ev
  /\ \/ r.evfree = k.evfree /\ r.ev[e].type # "unused" /\ \A f \in DOMAIN k.ev : f # e => r.ev[f] = k.ev[f]
     \/ r.evfree = <<e>> \o k.evfree /\ r.ev = k.ev
LEMMA EcbSettledKeeps ==
  ASSUME NEW k, NEW p, NEW t, NEW s, NEW r, NEW e, EcbSettled(k, p, t, s, r, e)
  PROVE  EcbInv(r, s) /\ e \in DOMAIN k.ev /\ k.ev[e].type = "unused" /\ r.evfree \in Seq(DOMAIN k.ev)
<1>1. PICK l, m : l = k.evfree /\ m = r.evfree
  OBVIOUS
<1>2. /\ \A u \in k.list : p[u].at = "qcreate" =>
           /\ p[u].ev \in DOMAIN k.ev /\ k.ev[p[u].ev].type = "unused" /\ p[u].ev \notin ToSet(l)
           /\ \A v \in k.list : p[v].at = "qcreate" /\ p[v].ev = p[u].ev => v = u
      /\ \A f \in DOMAIN k.ev : k.ev[f].type = "unused" <=>
           f \in ToSet(l) \/ \E u \in k.list : p[u].at = "qcreate" /\ p[u].ev = f
      /\ l \in Seq(DOMAIN k.ev) /\ IsInjective(l)
  BY ONLY <1>1, EcbSettled(k, p, t, s, r, e) DEF EcbSettled, EcbInv
<1>3. /\ t \in k.list /\ k.list \subseteq Task /\ p[t].at = "qcreate" /\ e = p[t].ev /\ s[t].at = "app"
      /\ \A u \in Task : u # t => s[u] = p[u]
      /\ r.list = k.list /\ DOMAIN r.ev = DOMAIN k.ev
  BY DEF EcbSettled
<1>4. e \in DOMAIN k.ev /\ k.ev[e].type = "unused" /\ e \notin ToSet(l)
  BY ONLY <1>2, <1>3
<1>5. /\ \A u \in k.list : s[u].at = "qcreate" => u # t /\ s[u] = p[u] /\ p[u].at = "qcreate" /\ p[u].ev # e
      /\ \A u \in k.list : u # t => s[u] = p[u]
  <2>1. \A u \in k.list : u # t => s[u] = p[u]
    BY ONLY <1>3
  <2>2. ASSUME NEW u \in k.list, s[u].at = "qcreate"
        PROVE  u # t /\ s[u] = p[u] /\ p[u].at = "qcreate" /\ p[u].ev # e
    <3>1. u # t
      BY ONLY <1>3, <2>2
    <3>2. s[u] = p[u] /\ p[u].at = "qcreate"
      BY ONLY <2>1, <2>2, <3>1
    <3> QED
      BY ONLY <1>2, <1>3, <2>2, <3>1, <3>2
  <2> QED
    BY ONLY <2>1, <2>2
<1>6. CASE r.evfree = k.evfree /\ r.ev[e].type # "unused" /\ \A f \in DOMAIN k.ev : f # e => r.ev[f] = k.ev[f]
  <2>0. m = l
    BY ONLY <1>1, <1>6
  <2>1. \A u \in r.list : s[u].at = "qcreate" =>
           /\ s[u].ev \in DOMAIN r.ev /\ r.ev[s[u].ev].type = "unused" /\ s[u].ev \notin ToSet(m)
           /\ \A v \in r.list : s[v].at = "qcreate" /\ s[v].ev = s[u].ev => v = u
    BY ONLY <1>2, <1>3, <1>5, <1>6, <2>0
  <2>2. ASSUME NEW f \in DOMAIN r.ev
        PROVE  r.ev[f].type = "unused" <=> f \in ToSet(m) \/ \E u \in r.list : s[u].at = "qcreate" /\ s[u].ev = f
    <3>1. CASE f = e
      BY ONLY <1>3, <1>4, <1>5, <1>6, <2>0, <3>1
    <3>2. CASE f # e
      <4>1. (\E u \in r.list : s[u].at = "qcreate" /\ s[u].ev = f) <=> (\E u \in k.list : p[u].at = "qcreate" /\ p[u].ev = f)
        BY ONLY <1>3, <1>5, <3>2
      <4>2. f \in DOMAIN k.ev /\ r.ev[f] = k.ev[f]
        BY ONLY <1>3, <1>6, <2>2, <3>2
      <4> QED
        BY ONLY <1>2, <2>0, <4>1, <4>2
    <3> QED
      BY <3>1, <3>2
  <2>3. EcbInv(r, s)
    BY ONLY <1>1, <1>2, <2>0, <2>1, <2>2 DEF EcbInv
  <2> QED
    BY ONLY <1>1, <1>2, <1>4, <2>0, <2>3
<1>7. CASE r.evfree = <<e>> \o k.evfree /\ r.ev = k.ev
  <2>0. m \in Seq(DOMAIN k.ev) /\ ToSet(m) = ToSet(l) \cup {e} /\ IsInjective(m)
    <3>1. m = <<e>> \o l
      BY ONLY <1>1, <1>7
    <3>2. Pushed(DOMAIN k.ev, l, e, m)
      BY ONLY <1>2, <1>4, <3>1, Push
    <3> QED
      BY ONLY <1>2, <1>4, <3>2 DEF Pushed
  <2>1. \A u \in r.list : s[u].at = "qcreate" =>
           /\ s[u].ev \in DOMAIN r.ev /\ r.ev[s[u].ev].type = "unused" /\ s[u].ev \notin ToSet(m)
           /\ \A v \in r.list : s[v].at = "qcreate" /\ s[v].ev = s[u].ev => v = u
    BY ONLY SMTT(30), <1>2, <1>3, <1>5, <1>7, <2>0
  <2>2. ASSUME NEW f \in DOMAIN r.ev
        PROVE  r.ev[f].type = "unused" <=> f \in ToSet(m) \/ \E u \in r.list : s[u].at = "qcreate" /\ s[u].ev = f
    <3>1. CASE f = e
      BY ONLY <1>3, <1>4, <1>7, <2>0, <3>1
    <3>2. CASE f # e
      <4>1. (\E u \in r.list : s[u].at = "qcreate" /\ s[u].ev = f) <=> (\E u \in k.list : p[u].at = "qcreate" /\ p[u].ev = f)
        BY ONLY <1>3, <1>5, <3>2
      <4>2. f \in DOMAIN k.ev /\ r.ev[f] = k.ev[f]
        BY ONLY <1>3, <1>7, <2>2, <3>2
      <4> QED
        BY ONLY <1>2, <2>0, <3>2, <4>1, <4>2
    <3> QED
      BY <3>1, <3>2
  <2>3. EcbInv(r, s)
    BY ONLY <1>1, <1>2, <2>0, <2>1, <2>2 DEF EcbInv
  <2> QED
    BY ONLY <1>1, <1>4, <2>0, <2>3
<1> QED
  BY ONLY <1>6, <1>7, EcbSettled(k, p, t, s, r, e) DEF EcbSettled

\* A queue control block goes to a new queue, which is empty.
QcbGiven(k, x, f, r, e) ==
  /\ QcbInv(k, f) /\ KeptInv(k, x) /\ f # <<>> /\ e \in DOMAIN k.ev /\ k.ev[e].type = "unused"
  /\ DOMAIN r.ev = DOMAIN k.ev /\ r.ev[e].type = "q" /\ r.ev[e].ptr = Head(f) /\ \A g \in DOMAIN k.ev : g # e => r.ev[g] = k.ev[g]
LEMMA QcbGivenKeeps ==
  ASSUME NEW k, NEW x, NEW f, NEW r, NEW e, QcbGiven(k, x, f, r, e),
         NEW z, z = [x EXCEPT ![Head(f)] = [NewQ EXCEPT !.buf = x[Head(f)].buf]]
  PROVE  QcbInv(r, Tail(f)) /\ KeptInv(r, z) /\ Head(f) \in Qcb
<1>1. PICK c, g : c = Head(f) /\ g = Tail(f)
  OBVIOUS
<1>2. /\ QcbInv(k, f) /\ KeptInv(k, x) /\ f # <<>> /\ e \in DOMAIN k.ev /\ k.ev[e].type = "unused"
      /\ DOMAIN r.ev = DOMAIN k.ev /\ r.ev[e].type = "q" /\ r.ev[e].ptr = c /\ \A h \in DOMAIN k.ev : h # e => r.ev[h] = k.ev[h]
  BY <1>1 DEF QcbGiven
<1>3. /\ f \in Seq(Qcb) /\ IsInjective(f)
      /\ \A h \in DOMAIN k.ev : k.ev[h].type = "q" => k.ev[h].ptr \in Qcb /\ k.ev[h].ptr \notin ToSet(f)
      /\ \A h, i \in DOMAIN k.ev : k.ev[h].type = "q" /\ k.ev[i].type = "q" /\ k.ev[h].ptr = k.ev[i].ptr => h = i
      /\ \A d \in Qcb : d \in ToSet(f) \/ \E h \in DOMAIN k.ev : k.ev[h].type = "q" /\ k.ev[h].ptr = d
  BY ONLY <1>2 DEF QcbInv
<1>4. g \in Seq(Qcb) /\ IsInjective(g) /\ c \in Qcb /\ c \in ToSet(f) /\ ToSet(g) = ToSet(f) \ {c}
  <2>1. Popped(Qcb, f, g)
    BY ONLY <1>1, <1>2, <1>3, Pop
  <2> QED
    BY ONLY <1>1, <2>1 DEF Popped
<1>5. QcbInv(r, g)
  <2>1. \A h \in DOMAIN r.ev : r.ev[h].type = "q" => r.ev[h].ptr \in Qcb /\ r.ev[h].ptr \notin ToSet(g)
    BY ONLY <1>2, <1>3, <1>4
  <2>2. \A h, i \in DOMAIN r.ev : r.ev[h].type = "q" /\ r.ev[i].type = "q" /\ r.ev[h].ptr = r.ev[i].ptr => h = i
    BY ONLY <1>2, <1>3, <1>4
  <2>3. ASSUME NEW d \in Qcb
        PROVE  d \in ToSet(g) \/ \E h \in DOMAIN r.ev : r.ev[h].type = "q" /\ r.ev[h].ptr = d
    <3>1. CASE d = c
      BY ONLY <1>2, <3>1
    <3>2. CASE d # c /\ d \notin ToSet(g)
      <4>1. PICK h \in DOMAIN k.ev : k.ev[h].type = "q" /\ k.ev[h].ptr = d
        BY ONLY <1>3, <1>4, <2>3, <3>2
      <4>2. h # e
        BY ONLY <1>2, <4>1
      <4> QED
        BY ONLY <1>2, <4>1, <4>2
    <3> QED
      BY <3>1, <3>2
  <2> QED
    BY ONLY <1>4, <2>1, <2>2, <2>3 DEF QcbInv
<1>6. PICK y : y = [NewQ EXCEPT !.buf = x[c].buf]
  OBVIOUS
<1>7. Ring(y) /\ y.n = 0 /\ z = [x EXCEPT ![c] = y]
  <2>1. x[c] \in QcbType /\ Ring(x[c])
    BY ONLY <1>2, <1>4 DEF KeptInv, Ring
  <2>2. Null \in Letter \cup {Null}
    OBVIOUS
  <2> QED
    BY <1>1, <1>6, <2>1, <2>2, Rings
<1>8. KeptInv(k, z) /\ z[c].n = 0
  <2>1. z[c] = y
    BY ONLY <1>2, <1>4, <1>7 DEF KeptInv
  <2>2. ~ (y.n > 0)
    BY ONLY <1>7
  <2>3. KeptInv(k, z)
    BY ONLY <1>2, <1>3, <1>4, <1>7, <2>2, QueueChanges
  <2> QED
    BY ONLY <1>7, <2>1, <2>3
<1>9. KeptInv(r, z)
  <2>1. \A h \in DOMAIN r.ev : h = e \/ r.ev[h] = k.ev[h]
    BY ONLY <1>2
  <2>2. ~ (z[c].n > 0)
    BY ONLY <1>8
  <2> QED
    BY ONLY <1>2, <1>8, <2>1, <2>2 DEF KeptInv
<1> QED
  BY ONLY <1>1, <1>4, <1>5, <1>9
-----------------------------------------------------------------------------
\* A control block for an event is taken, filled in or put back by a task.
Allots(k, p, t, x, s, r, e) == Allotting(k, p, t, x, s, r, e) /\ t = k.cur /\ r.cur = k.cur /\ r.prioCur = k.prioCur /\ r.lock = k.lock
LEMMA AllotHolds ==
  ASSUME NEW k, NEW p, NEW f, NEW z, Holding(k, p, f, z), NEW t, NEW x, NEW s, NEW r, NEW e, Allots(k, p, t, x, s, r, e),
         NEW g, NEW y, QcbInv(r, g), KeptInv(r, y)
  PROVE  Holding(r, s, g, y)
<1>1. Allotting(k, p, t, x, s, r, e) /\ t = k.cur /\ r.cur = k.cur /\ r.prioCur = k.prioCur /\ r.lock = k.lock
  BY DEF Allots
<1>2. /\ t \in k.list /\ p[t].at \in {"app", "qcreate"} /\ x \in PcType /\ x.at \in {"app", "qcreate"}
      /\ s = [p EXCEPT ![t] = x] /\ r.app = k.app /\ r.rdy = k.rdy /\ r.tbl = k.tbl /\ r.tcb = k.tcb /\ r.list = k.list /\ r.free = k.free
  BY ONLY <1>1 DEF Allotting
<1>3. TasksInv(r, s)
  BY ONLY <1>1, EventMade
<1>4. CpuStep(k, p, t, x, r)
  <2>1. {"app", "qcreate"} \cap (PendStage \cup {"delete", "sched", "block", "wake"}) = {}
    BY DEF PendStage
  <2>2. KeepsTasks(k, r) /\ r.lock <= App[k.app].locks + 1
    BY ONLY <1>1, <1>2, Holding(k, p, f, z) DEF KeepsTasks, CurInv, Holding
  <2> QED
    BY ONLY <1>1, <1>2, <2>1, <2>2 DEF CpuStep
<1> QED
  BY ONLY <1>2, <1>3, <1>4, Holding(k, p, f, z), QcbInv(r, g), KeptInv(r, y), TaskHolds

\* What a creation finds.
LEMMA Makes ==
  ASSUME Holding(os, pc, qfree, q), NEW t, t = os.cur, pc[t].at \in {"app", "qcreate"}, t # Idle
  PROVE  /\ TasksInv(os, pc) /\ QcbInv(os, qfree) /\ KeptInv(os, q) /\ OsType(os) /\ Shape(os) /\ EcbInv(os, pc)
         /\ t \in os.list /\ t \in Task /\ os.list \subseteq Task /\ pc \in [Task -> PcType] /\ pc[t] \in PcType
         /\ os.ev \in [DOMAIN os.ev -> EcbType] /\ os.evfree \in Seq(DOMAIN os.ev)
<1>1. TasksInv(os, pc) /\ t \in os.list /\ t \in Task
  <2>1. pc[t].at \notin {"sched", "delete"}
    OBVIOUS
  <2> QED
    BY ONLY <2>1, t = os.cur, Holding(os, pc, qfree, q), Running
<1>2. OsType(os) /\ EcbInv(os, pc) /\ pc \in [Task -> PcType]
  BY ONLY <1>1 DEF TasksInv, ArgInv
<1>3. QcbInv(os, qfree) /\ KeptInv(os, q)
  BY DEF Holding
<1> QED
  BY ONLY <1>1, <1>2, <1>3 DEF OsType

EventChange(k, r, f, x, e) ==
  /\ QcbInv(k, f) /\ KeptInv(k, x) /\ DOMAIN r.ev = DOMAIN k.ev /\ e \in DOMAIN k.ev /\ k.ev[e].type # "q" /\ Sound(r.ev[e])
  /\ \A g \in DOMAIN k.ev : g # e => r.ev[g] = k.ev[g]
LEMMA EventTurns ==
  ASSUME NEW k, NEW r, NEW f, NEW x, NEW e, EventChange(k, r, f, x, e)
  PROVE  QcbInv(r, f) /\ KeptInv(r, x)
BY EventChanges DEF EventChange

\* A semaphore or a mailbox is created.
LEMMA CreateHolds ==
  ASSUME Holding(os, pc, qfree, q), NEW t, t = os.cur, t # Idle, pc[t].at = "app", os.evfree # <<>>, NEW c \in EcbType,
         c.type # "unused", c.wait = {}, Sound(c),
         os' = [os EXCEPT !.ev[Head(os.evfree)] = c, !.evfree = Tail(@)], pc' = pc
  PROVE  Holding(os', pc', qfree, q)
<1>1. /\ TasksInv(os, pc) /\ QcbInv(os, qfree) /\ KeptInv(os, q) /\ OsType(os) /\ Shape(os) /\ EcbInv(os, pc)
      /\ t \in os.list /\ t \in Task /\ os.list \subseteq Task /\ pc \in [Task -> PcType] /\ pc[t] \in PcType
      /\ os.ev \in [DOMAIN os.ev -> EcbType] /\ os.evfree \in Seq(DOMAIN os.ev)
  BY Makes
<1>2. PICK e, r, l : e = Head(os.evfree) /\ l = Tail(os.evfree) /\ r = os' /\ r = [os EXCEPT !.ev = [os.ev EXCEPT ![e] = c], !.evfree = l]
  <2>1. PICK e, l : e = Head(os.evfree) /\ l = Tail(os.evfree)
    OBVIOUS
  <2>2. os' = [os EXCEPT !.ev[e] = c, !.evfree = Tail(@)]
    BY ONLY <2>1, os' = [os EXCEPT !.ev[Head(os.evfree)] = c, !.evfree = Tail(@)]
  <2>3. Shape(os)
    BY ONLY <1>1
  <2>4. os' = [os EXCEPT !.ev = [os.ev EXCEPT ![e] = c], !.evfree = l]
    BY ONLY <2>1, <2>2, <2>3 DEF Shape
  <2> QED
    BY ONLY <2>1, <2>4
<1>3. /\ Shape(r) /\ r.app = os.app /\ r.rdy = os.rdy /\ r.tbl = os.tbl /\ r.tcb = os.tcb /\ r.list = os.list
      /\ r.free = os.free /\ r.ev = [os.ev EXCEPT ![e] = c] /\ r.evfree = l /\ r.cur = os.cur /\ r.prioCur = os.prioCur
      /\ r.lock = os.lock
  <2>1. Shape(os)
    BY ONLY <1>1
  <2> QED
    BY ONLY <1>2, <2>1 DEF Shape
<1>4. e \in DOMAIN os.ev
  BY ONLY <1>1, <1>2, os.evfree # <<>>
<1>5. DOMAIN r.ev = DOMAIN os.ev /\ r.ev[e] = c /\ (\A f \in DOMAIN os.ev : f # e => r.ev[f] = os.ev[f]) /\ r.ev \in [DOMAIN r.ev -> EcbType]
  BY ONLY <1>1, <1>3, <1>4, c \in EcbType
<1>6. EcbInv(r, pc) /\ os.ev[e].type = "unused" /\ r.evfree \in Seq(DOMAIN os.ev)
  <2>1. EcbTaken(os, pc, t, pc, r, e)
    BY ONLY <1>1, <1>2, <1>3, <1>5, os.evfree # <<>>, pc[t].at = "app", c.type # "unused" DEF EcbTaken
  <2> QED
    BY ONLY <2>1, EcbTakenKeeps
<1>7. OsType(r)
  BY ONLY <1>1, <1>3, <1>5, <1>6 DEF OsType
<1>8. QcbInv(r, qfree) /\ KeptInv(r, q)
  <2>1. os.ev[e].type # "q" /\ Sound(r.ev[e])
    BY ONLY <1>5, <1>6, Sound(c)
  <2> QED
    <3>1. EventChange(os, r, qfree, q, e)
      BY ONLY <1>1, <1>4, <1>5, <2>1 DEF EventChange
    <3> QED
      BY ONLY <3>1, EventTurns
<1>9. PICK x : x = pc[t] /\ x \in PcType /\ pc = [pc EXCEPT ![t] = x]
  BY ONLY <1>1
<1>10. Allots(os, pc, t, x, pc, r, e)
  <2>1. r.ev[e].wait = {} /\ x.at = "app"
    BY ONLY <1>5, <1>9, c.wait = {}, pc[t].at = "app"
  <2>2. Allotting(os, pc, t, x, pc, r, e)
    BY ONLY <1>1, <1>3, <1>4, <1>5, <1>6, <1>7, <1>9, <2>1, pc[t].at = "app", t # Idle DEF Allotting
  <2> QED
    BY ONLY <1>3, <2>2, t = os.cur DEF Allots
<1>11. Holding(r, pc, qfree, q)
  BY ONLY <1>8, <1>10, Holding(os, pc, qfree, q), AllotHolds
<1> QED
  BY ONLY <1>2, <1>11, pc' = pc

LEMMA SemCreateHolds ==
  ASSUME Holding(os, pc, qfree, q), NEW t, NEW n, n \in 0 .. MaxCnt, OSSemCreate(t, n)
  PROVE  Holding(os', pc', qfree, q)
<1>1. t = os.cur /\ t # Idle /\ pc[t].at = "app"
  BY DEF OSSemCreate, Calls, At
<1>2. PICK c : c = [Unused EXCEPT !.type = "sem", !.cnt = n]
  OBVIOUS
<1>3. c = [type |-> "sem", cnt |-> n, ptr |-> Null, wait |-> {}]
  BY ONLY <1>2 DEF Unused
<1>4. c \in EcbType /\ c.type # "unused" /\ c.wait = {} /\ Sound(c)
  <2>1. n \in Nat /\ n <= MaxCnt
    BY ONLY n \in 0 .. MaxCnt, SemAssumption
  <2> QED
    BY ONLY <1>3, <2>1 DEF EcbType, Kinds, Sound
<1> QED
  BY ONLY <1>1, <1>2, <1>4, Holding(os, pc, qfree, q), OSSemCreate(t, n), CreateHolds DEF OSSemCreate

LEMMA MboxCreateHolds ==
  ASSUME Holding(os, pc, qfree, q), NEW t, OSMboxCreate(t)
  PROVE  Holding(os', pc', qfree, q)
<1>1. t = os.cur /\ t # Idle /\ pc[t].at = "app"
  BY DEF OSMboxCreate, Calls, At
<1>2. PICK c : c = [Unused EXCEPT !.type = "mbox"]
  OBVIOUS
<1>3. c = [type |-> "mbox", cnt |-> 0, ptr |-> Null, wait |-> {}]
  BY ONLY <1>2 DEF Unused
<1>4. c \in EcbType /\ c.type # "unused" /\ c.wait = {} /\ Sound(c)
  BY ONLY <1>3 DEF EcbType, Kinds, Sound
<1> QED
  BY ONLY <1>1, <1>2, <1>4, Holding(os, pc, qfree, q), OSMboxCreate(t), CreateHolds DEF OSMboxCreate

\* The start: nobody is inside the kernel, every event is as main made it.
LEMMA InSeq ==
  ASSUME NEW S, IsFiniteSet(S)
  PROVE  SetToSeq(S) \in Seq(S) /\ IsInjective(SetToSeq(S)) /\ ToSet(SetToSeq(S)) = S
<1>1. PICK n \in Nat : n = Cardinality(S) /\ Bijection(1 .. n, S) # {}
  BY FS_CardinalityType DEF ExistsBijection
<1>2. PICK f \in [1 .. n -> S] : IsInjective(f)
  BY <1>1 DEF Bijection, Injection
<1>3. PICK g : g = SetToSeq(S)
  OBVIOUS
<1>4. g \in [1 .. n -> S] /\ IsInjective(g)
  <2>1. g = CHOOSE h \in [1 .. n -> S] : IsInjective(h)
    BY <1>1, <1>3 DEF SetToSeq
  <2> QED
    BY ONLY <1>2, <2>1
<1>5. g \in Injection(1 .. n, S)
  BY <1>4 DEF Injection
<1>6. Cardinality(1 .. n) = Cardinality(S)
  BY <1>1, FS_Interval
<1>7. g \in Surjection(1 .. n, S)
  BY <1>5, <1>6, FS_Injection
<1>8. g \in Seq(S)
  BY <1>1, <1>4
<1>9. ToSet(g) = S
  BY <1>4, <1>7 DEF ToSet, Surjection
<1> QED
  BY <1>3, <1>4, <1>8, <1>9

\* The kernel as main leaves it.
Fine(a, k) ==
  LET prio == App[a].prio
      ev   == App[a].ev
  IN /\ a \in DOMAIN App /\ k.app = a /\ k.ev = ev /\ k.lock = 0 /\ k.list = DOMAIN prio /\ k.free = Task \ DOMAIN prio
     /\ k.rdy = Range(prio) /\ k.prioCur = Min(Range(prio))
     /\ k.cur = (CHOOSE t \in DOMAIN prio : \A u \in DOMAIN prio : prio[t] <= prio[u])
     /\ k.evfree = SetToSeq({e \in DOMAIN ev : ev[e] = Unused})
     /\ k.tcb = [t \in Task |-> IF t \in DOMAIN prio THEN Tcb(prio[t]) ELSE Tcb(0)]
     /\ k.tbl = [p \in Prio |-> IF p \in Range(prio) THEN CHOOSE t \in DOMAIN prio : prio[t] = p ELSE Null]
     /\ Shape(k)
Placed(p) == p = [t \in Task |-> InApp]
Formed(x) == x = [at |-> x.at, ev |-> x.ev, n |-> x.n, svc |-> x.svc]

LEMMA Starts0 ==
  ASSUME NEW a \in DOMAIN App, \A e \in DOMAIN App[a].ev : App[a].ev[e].type # "mutex",
         NEW k, k = PipsReserved(Started(a))
  PROVE  Fine(a, k)
<1>1. PICK s : s = Started(a)
  OBVIOUS
<1>2. s.ev = App[a].ev /\ \A e \in DOMAIN s.ev : s.ev[e].type # "mutex"
  BY <1>1 DEF Started
<1>3. k = [s EXCEPT !.tbl = [p \in Prio |-> s.tbl[p]]]
  BY <1>1, <1>2 DEF PipsReserved
<1>4. s.tbl = [p \in Prio |-> IF p \in Range(App[a].prio) THEN CHOOSE t \in DOMAIN App[a].prio : App[a].prio[t] = p ELSE Null]
  BY <1>1 DEF Started
<1>5. [p \in Prio |-> s.tbl[p]] = s.tbl
  BY <1>4
<1>6. k = s
  <2>1. k = [s EXCEPT !.tbl = s.tbl]
    BY ONLY <1>3, <1>5
  <2> QED
    BY <1>1, <2>1 DEF Started
<1>7. Shape(s)
  BY <1>1 DEF Started, Shape
<1> QED
  BY ONLY <1>1, <1>6, <1>7, a \in DOMAIN App DEF Started, Fine

\* The priorities are those of main's tasks.
LEMMA PriosAre ==
  ASSUME NEW a, NEW k, Fine(a, k)
  PROVE  /\ k.list \subseteq Task /\ Idle \in k.list /\ k.rdy \subseteq Prio /\ App[a].prio \in [k.list -> Prio]
         /\ \A t, u \in k.list : App[a].prio[t] = App[a].prio[u] => t = u
         /\ App[a].prio[Idle] = LowestPrio /\ App[a].dly \in Nat /\ App[a].locks \in Nat
         /\ \A t \in k.list : App[a].prio[t] \in k.rdy /\ k.tbl[App[a].prio[t]] = t
         /\ \A x \in k.rdy : \E t \in k.list : App[a].prio[t] = x
         /\ \A x \in Prio : x \notin k.rdy => k.tbl[x] = Null
         /\ k.tbl \in [Prio -> k.list \cup {Null}]
         /\ k.cur \in k.list /\ k.prioCur = App[a].prio[k.cur] /\ k.prioCur \in k.rdy /\ \A x \in k.rdy : k.prioCur <= x
<1>1. PICK r : r = App[a].prio
  OBVIOUS
<1>2. /\ k.list = DOMAIN r /\ r \in [k.list -> Prio] /\ k.list \subseteq Task /\ Idle \in k.list /\ r[Idle] = LowestPrio
      /\ IsInjective(r) /\ App[a].dly \in Nat /\ App[a].locks \in Nat /\ k.rdy = Range(r)
  BY <1>1, AppAssumption DEF Fine, Prio
<1>3. \A t, u \in k.list : r[t] = r[u] => t = u
  BY <1>2 DEF IsInjective
<1>4. \A x : x \in k.rdy <=> \E t \in k.list : r[t] = x
  BY <1>2 DEF Range
<1>5. k.tbl = [p \in Prio |-> IF p \in k.rdy THEN CHOOSE t \in k.list : r[t] = p ELSE Null]
  <2>1. k.tbl = [p \in Prio |-> IF p \in Range(App[a].prio) THEN CHOOSE t \in DOMAIN App[a].prio : App[a].prio[t] = p ELSE Null]
    BY DEF Fine
  <2>2. k.tbl = [p \in Prio |-> IF p \in Range(r) THEN CHOOSE t \in DOMAIN r : r[t] = p ELSE Null]
    BY ONLY <1>1, <2>1
  <2> QED
    BY ONLY <1>2, <2>2, ZenonT(40)
<1>6. \A t \in k.list : r[t] \in k.rdy /\ r[t] \in Prio /\ k.tbl[r[t]] = t
  <2>1. SUFFICES ASSUME NEW t \in k.list
                 PROVE  r[t] \in k.rdy /\ r[t] \in Prio /\ k.tbl[r[t]] = t
    OBVIOUS
  <2>2. r[t] \in k.rdy /\ r[t] \in Prio
    BY <1>2, <1>4
  <2>3. PICK u : u = (CHOOSE v \in k.list : r[v] = r[t])
    OBVIOUS
  <2>4. u \in k.list /\ r[u] = r[t]
    BY ONLY <2>3, t \in k.list
  <2>5. k.tbl[r[t]] = u
    BY ONLY <1>5, <2>2, <2>3
  <2> QED
    BY <1>3, <2>2, <2>4, <2>5
<1>7. \A x \in Prio : x \notin k.rdy => k.tbl[x] = Null
  BY ONLY <1>5
<1>8. k.rdy \subseteq Prio
  BY <1>2, <1>4
<1>9. k.tbl \in [Prio -> k.list \cup {Null}]
  <2>1. \A x \in Prio : k.tbl[x] \in k.list \cup {Null}
    BY ONLY <1>4, <1>6, <1>7
  <2>2. k.tbl = [p \in Prio |-> k.tbl[p]]
    BY ONLY <1>5
  <2> QED
    BY ONLY <2>1, <2>2
<1>10. PICK m \in k.rdy : \A x \in k.rdy : m <= x
  <2>1. k.rdy \in SUBSET Nat /\ k.rdy # {}
    BY <1>2, <1>6, <1>8, CoreAssumption DEF Prio
  <2> QED
    BY <2>1, LeastIn
<1>11. k.prioCur \in k.rdy /\ \A x \in k.rdy : k.prioCur <= x
  <2>1. k.prioCur = Min(k.rdy)
    BY DEF Fine
  <2> QED
    BY ONLY <1>10, <2>1 DEF Min
<1>12. k.cur \in k.list /\ \A u \in k.list : r[k.cur] <= r[u]
  <2>1. \E t \in k.list : \A u \in k.list : r[t] <= r[u]
    BY ONLY <1>4, <1>10
  <2>2. k.cur = (CHOOSE t \in k.list : \A u \in k.list : r[t] <= r[u])
    BY <1>1, Zenon DEF Fine
  <2> QED
    BY ONLY <2>1, <2>2
<1>13. k.prioCur = r[k.cur]
  <2>1. \A x \in k.rdy : x \in Nat
    BY <1>8, CoreAssumption DEF Prio
  <2>2. r[k.cur] \in k.rdy
    BY ONLY <1>4, <1>12
  <2>3. r[k.cur] <= k.prioCur
    BY ONLY <1>4, <1>11, <1>12
  <2> QED
    BY ONLY <1>11, <2>1, <2>2, <2>3
<1> QED
  BY ONLY <1>1, <1>2, <1>3, <1>4, <1>6, <1>7, <1>8, <1>9, <1>11, <1>12, <1>13
=============================================================================
