---------------------------- MODULE MutexProofs -----------------------------
(***************************************************************************)
(* Theorems of Kernel on mutexes, for any tasks that share one, delay,     *)
(* resume a delay and lock the scheduler, with the tick between any two    *)
(* critical sections: MutexInv is kept by every step (OSMutexPend with its *)
(* promotion of the owner, OSMutexAccept, OSMutexPost, OSMutexDel and      *)
(* OSMutexCreate), and mutual exclusion and priority inheritance follow.   *)
(***************************************************************************)
EXTENDS KernelStepsProofs

\* An application that guards: its tasks share a mutex, delay and lock the
\* scheduler, and the mutex's priority is above theirs.
MutexOps == {"muaccept", "mupend", "mupost", "mudel", "dly", "dlyresume", "lock"}
Guarding(a) ==
  /\ App[a].ops \subseteq MutexOps
  /\ \A e \in DOMAIN App[a].ev :
       /\ App[a].ev[e].type \in {"mutex", "unused"}
       /\ App[a].ev[e].type = "mutex" => /\ App[a].ev[e].cnt = 256 * Pip + MutexAvailable /\ App[a].ev[e].ptr = Null
                                         /\ \A f \in DOMAIN App[a].ev : App[a].ev[f].type = "mutex" => e = f
  /\ Pip \in Prio /\ (\A t \in DOMAIN App[a].prio : Pip < App[a].prio[t]) /\ LowestPrio < MutexAvailable

InMutex == {"muaccept", "mupend", "mupost", "mudel"}
MutexTcb == [prio : Prio, stat : SUBSET {"mutex"}, pend : {"ok", "to"}, dly : Nat,
             ev : Ecb \cup {Null}, multi : {{}}, msg : {Null}, delreq : BOOLEAN]
MutexEcb == [type : {"mutex", "unused"}, cnt : Nat, ptr : Task \cup {Null}, wait : SUBSET Prio]
\* The priority a task was given.
Own(k, t) == App[k.app].prio[t]

MutexKernel(k) ==
  /\ Shape(k) /\ k.app \in DOMAIN App /\ Guarding(k.app) /\ k.list = DOMAIN App[k.app].prio
  /\ k.rdy \subseteq Prio /\ k.tbl \in [Prio -> Task \cup {Null, Reserved}] /\ k.tcb \in [Task -> MutexTcb]
  /\ k.cur \in k.list /\ k.lock \in Nat /\ k.prioCur \in Prio
  /\ k.ev \in [DOMAIN App[k.app].ev -> MutexEcb] /\ k.evfree \in Seq(DOMAIN App[k.app].ev)
  /\ \A t \in k.list : ReadyAt(k, t)
  /\ \A x \in k.rdy : \E t \in k.list : k.tcb[t].prio = x
  /\ k.tcb[Idle].prio = LowestPrio /\ k.tcb[Idle].stat = {} /\ k.tcb[Idle].dly = 0

\* A task has the priority it was given, or the mutex and the priority of the mutex.
MutexPrios(k) ==
  /\ \A t \in k.list : /\ k.tbl[Own(k, t)] = t
                       /\ k.tcb[t].prio = Own(k, t) \/ k.tcb[t].prio = Pip
                       /\ k.tcb[t].prio = Pip => k.tbl[Pip] = t /\ \E e \in DOMAIN k.ev : k.ev[e].ptr = t
  /\ k.tbl[Pip] = Null <=> \A e \in DOMAIN k.ev : k.ev[e].type # "mutex"
  /\ \A x \in Prio : k.tbl[x] \in Task => k.tbl[x] \in k.list

\* There is one mutex at most; it names its owner and the priority it was given.
MutexEcbs(k) == \A e \in DOMAIN k.ev :
  /\ k.ev[e].ptr = Null => k.ev[e].wait = {}
  /\ k.ev[e].ptr # Null => k.ev[e].type = "mutex" /\ k.ev[e].ptr \in k.list /\ k.ev[e].ptr # Idle
  /\ k.ev[e].type = "mutex" =>
       /\ k.ev[e].cnt = 256 * Pip + IF k.ev[e].ptr = Null THEN MutexAvailable ELSE Own(k, k.ev[e].ptr)
       /\ \A f \in DOMAIN k.ev : k.ev[f].type = "mutex" => e = f

\* No waiter outranks the owner.
Outranks(k) ==
  \A e \in DOMAIN k.ev : k.ev[e].ptr # Null => \A x \in k.ev[e].wait : k.tcb[k.ev[e].ptr].prio < x

\* A task that waits, or whose wait has timed out.
Dozing(c) == "mutex" \in c.stat \/ c.pend = "to"

MutexPc(k, p) ==
  /\ p = [t \in Task |-> p[t]]
  /\ \A t \in Task :
       /\ Formed(p[t]) /\ p[t].at \in InMutex \cup {"app", "sched", "block", "wake"}
       /\ t \notin k.list \/ t = Idle => p[t].at = "app"
       /\ p[t].at \in InMutex \/ Blk(p, t) => p[t].svc = "mutex" /\ p[t].ev \in DOMAIN k.ev
       /\ p[t].at = "mupend" => p[t].n \in Nat

\* Only a task inside a Pend waits; a call under way is not delayed.
MutexStats(k, p) == \A t \in k.list :
  /\ Dozing(k.tcb[t]) \/ k.tcb[t].ev # Null => Blk(p, t)
  /\ Blk(p, t) /\ k.tcb[t].stat = {} => k.tcb[t].dly = 0
  /\ p[t].at \in InMutex => k.tcb[t].dly = 0
  /\ k.tcb[t].pend = "to" => k.tcb[t].stat = {}

\* A call finds the mutex it was made on; it is deleted with care.
MutexCalls(k, p) ==
  /\ \A t \in Task : p[t].at \in InMutex => k.ev[p[t].ev].type = "mutex"
  /\ \A t \in Task : p[t].at = "mudel" =>
       /\ "mudel" \in App[k.app].ops /\ p[t].n \in {0, 1} /\ \A u \in Task : p[u].at \in InMutex => u = t
       /\ k.ev[p[t].ev].ptr # Null => p[t].n = 1
       /\ \A u \in k.list : u = k.ev[p[t].ev].ptr /\ u # t =>
            /\ k.cur # u /\ k.tcb[u].prio \in k.rdy
            /\ k.tcb[t].prio < k.tcb[u].prio \/ (k.lock > 0 /\ k.cur = t)

\* A task that was told that it has the mutex, or is about to be.
Told(k, p, H, t, e) == e \in H[t] \/ (Blk(p, t) /\ p[t].ev = e /\ ~ Dozing(k.tcb[t]))
MutexHas(k, p, H) ==
  /\ H = [t \in Task |-> H[t]]
  /\ \A t \in Task : p[t].at \in {"muaccept", "mupend"} \/ Blk(p, t) => H[t] = {}
  /\ \A e \in DOMAIN k.ev, t \in Task :
       /\ k.ev[e].ptr = t => Told(k, p, H, t, e)
       /\ k.ev[e].type = "mutex" /\ Told(k, p, H, t, e) /\ "mudel" \notin App[k.app].ops => k.ev[e].ptr = t

\* A wait list is the priorities of its waiters.
MutexWaits(k, p) == \A e \in DOMAIN k.ev :
  /\ \A t \in k.list : k.tcb[t].prio \in k.ev[e].wait <=> Blk(p, t) /\ p[t].ev = e /\ Dozing(k.tcb[t])
  /\ \A x \in k.ev[e].wait : \E t \in k.list : k.tcb[t].prio = x

\* The processor is with the ready task of highest priority, unless that task is
\* about to look at the scheduler or has it locked; OSPrioCur is stale only after
\* the task that runs has given back the priority of the mutex.
CurKnown(k) == k.prioCur # k.tcb[k.cur].prio => k.prioCur = Pip /\ k.tbl[Pip] \notin Task
MutexCpu(k, p) ==
  /\ CurKnown(k)
  /\ p[k.cur].at \in {"mupend", "block", "wake"} => k.lock = 0
  /\ k.lock > 0 \/ p[k.cur].at \notin {"sched", "block"} => k.tcb[k.cur].prio \in k.rdy
  /\ k.lock = 0 /\ p[k.cur].at \notin {"sched", "block"} =>
       IF k.prioCur = k.tcb[k.cur].prio THEN \A x \in k.rdy : k.prioCur <= x
       ELSE \A e \in DOMAIN k.ev : k.ev[e].ptr \in {Null, k.cur}

MutexTables(k, p, H) == /\ MutexKernel(k) /\ MutexPrios(k) /\ MutexEcbs(k) /\ MutexPc(k, p) /\ MutexStats(k, p)
                        /\ MutexCalls(k, p) /\ MutexHas(k, p, H) /\ MutexWaits(k, p)
MutexState(k, p, H) == MutexTables(k, p, H) /\ Outranks(k) /\ MutexCpu(k, p)
MutexInv == MutexState(os, pc, has)
-----------------------------------------------------------------------------
TcbRecord(c) == c = [prio |-> c.prio, stat |-> c.stat, pend |-> c.pend, dly |-> c.dly, ev |-> c.ev,
                     multi |-> c.multi, msg |-> c.msg, delreq |-> c.delreq]
EcbRecord(c) == c = [type |-> c.type, cnt |-> c.cnt, ptr |-> c.ptr, wait |-> c.wait]
LEMMA MutexBasics ==
  ASSUME NEW k, MutexKernel(k)
  PROVE  /\ Shape(k) /\ k.list \subseteq Task /\ Idle \in k.list /\ Pip \in Prio /\ Pip < LowestPrio
         /\ LowestPrio \in Nat /\ LowestPrio < 255
         /\ \A t \in k.list : Own(k, t) \in Prio /\ Pip < Own(k, t) /\ k.tcb[t].prio \in Prio
         /\ \A t \in Task : TcbRecord(k.tcb[t]) /\ k.tcb[t] \in MutexTcb
         /\ \A e \in DOMAIN k.ev : EcbRecord(k.ev[e]) /\ k.ev[e] \in MutexEcb
         /\ k.tcb = [t \in Task |-> k.tcb[t]] /\ k.ev = [e \in DOMAIN k.ev |-> k.ev[e]]
         /\ DOMAIN k.ev = DOMAIN App[k.app].ev /\ LowestPrio \in k.rdy /\ k.cur \in Task /\ Null \notin Task
<1>1. k.app \in DOMAIN App /\ k.list = DOMAIN App[k.app].prio /\ Guarding(k.app) /\ Shape(k)
  BY DEF MutexKernel
<1>2. /\ App[k.app].prio \in [DOMAIN App[k.app].prio -> 0 .. LowestPrio]
      /\ DOMAIN App[k.app].prio \subseteq Task /\ Idle \in DOMAIN App[k.app].prio /\ App[k.app].prio[Idle] = LowestPrio
  BY ONLY <1>1, AppAssumption
<1>3. k.list \subseteq Task /\ Idle \in k.list /\ \A t \in k.list : Own(k, t) \in Prio
  BY ONLY <1>1, <1>2 DEF Own, Prio
<1>4. /\ Pip \in Prio /\ LowestPrio < 255 /\ Own(k, Idle) = LowestPrio
      /\ \A t \in k.list : Pip < Own(k, t)
  BY ONLY <1>1, <1>2 DEF Guarding, Own, MutexAvailable
<1>5. k.tcb \in [Task -> MutexTcb] /\ k.ev \in [DOMAIN App[k.app].ev -> MutexEcb] /\ k.cur \in k.list
  BY DEF MutexKernel
<1>6. ASSUME NEW t \in Task PROVE TcbRecord(k.tcb[t]) /\ k.tcb[t] \in MutexTcb /\ k.tcb[t].prio \in Prio
  <2>1. PICK c : c = k.tcb[t] /\ c \in MutexTcb
    BY ONLY <1>5
  <2>2. TcbRecord(c) /\ c.prio \in Prio
    BY ONLY <2>1 DEF TcbRecord, MutexTcb
  <2> QED
    BY ONLY <2>1, <2>2
<1>7. ASSUME NEW e \in DOMAIN k.ev PROVE EcbRecord(k.ev[e]) /\ k.ev[e] \in MutexEcb
  <2>1. PICK c : c = k.ev[e] /\ c \in MutexEcb
    BY ONLY <1>5
  <2>2. EcbRecord(c)
    BY ONLY <2>1 DEF EcbRecord, MutexEcb
  <2> QED
    BY ONLY <2>1, <2>2
<1>8. LowestPrio \in k.rdy
  BY <1>3 DEF MutexKernel, ReadyAt
<1>9. LowestPrio \in Nat /\ Null \notin Task
  BY ONLY CoreAssumption
<1>10. Pip < LowestPrio
  BY ONLY <1>3, <1>4
<1> QED
  BY ONLY <1>1, <1>3, <1>4, <1>5, <1>6, <1>7, <1>8, <1>9, <1>10

LEMMA PriosApart ==
  ASSUME NEW k, MutexKernel(k), MutexPrios(k)
  PROVE  /\ \A t \in k.list : k.tbl[k.tcb[t].prio] = t
         /\ \A t, u \in k.list : k.tcb[t].prio = k.tcb[u].prio => t = u
<1>1. \A t \in k.list : k.tbl[k.tcb[t].prio] = t
  BY DEF MutexPrios
<1> QED
  BY ONLY <1>1

\* A task that has no mutex has its own priority.
LEMMA OwnUnlessOwner ==
  ASSUME NEW k, MutexPrios(k), NEW t \in k.list, \A e \in DOMAIN k.ev : k.ev[e].ptr # t
  PROVE  k.tcb[t].prio = Own(k, t)
BY DEF MutexPrios

\* One that waits has none.
LEMMA WaiterOwnsNone ==
  ASSUME NEW k, NEW p, NEW H, MutexTables(k, p, H), NEW t \in k.list, Blk(p, t) \/ p[t].at \in {"muaccept", "mupend"},
         Blk(p, t) => Dozing(k.tcb[t])
  PROVE  (\A e \in DOMAIN k.ev : k.ev[e].ptr # t) /\ k.tcb[t].prio = Own(k, t) /\ H[t] = {}
<1>1. t \in Task /\ MutexPrios(k)
  BY MutexBasics DEF MutexTables
<1>2. MutexHas(k, p, H)
  BY DEF MutexTables
<1>3. H[t] = {}
  BY <1>1, <1>2 DEF MutexHas
<1>4. ASSUME NEW e \in DOMAIN k.ev PROVE k.ev[e].ptr # t
  <2>1. ~ Told(k, p, H, t, e)
    BY <1>3 DEF Told
  <2> QED
    BY ONLY <1>1, <1>2, <2>1 DEF MutexHas
<1> QED
  BY ONLY <1>1, <1>3, <1>4, OwnUnlessOwner
-----------------------------------------------------------------------------
\* A task goes from one place to another without a word to the mutex.
MutexMoved(k, p, s) ==
  /\ s = [t \in Task |-> s[t]]
  /\ \A t \in Task :
       \/ s[t] = p[t]
       \/ /\ Formed(s[t]) /\ t \in k.list /\ t # Idle
          /\ \/ p[t].at \in InMutex \cup {"app", "sched"} /\ s[t].at \in {"app", "sched"}
             \/ /\ p[t].at = "block" /\ s[t].at = "wake"
                /\ s[t].ev = p[t].ev /\ s[t].n = p[t].n /\ s[t].svc = p[t].svc
LEMMA MutexMoves ==
  ASSUME NEW k, NEW p, NEW H, MutexTables(k, p, H), NEW s, MutexMoved(k, p, s)
  PROVE  MutexTables(k, s, H)
<1>1. ASSUME NEW t \in Task
      PROVE  /\ Blk(s, t) <=> Blk(p, t)
             /\ Blk(p, t) => s[t].ev = p[t].ev /\ s[t].svc = p[t].svc
             /\ s[t].at \in InMutex => s[t] = p[t]
             /\ Formed(s[t]) /\ s[t].at \in InMutex \cup {"app", "sched", "block", "wake"}
             /\ t \notin k.list \/ t = Idle => s[t].at = "app"
  <2>1. /\ Formed(p[t]) /\ p[t].at \in InMutex \cup {"app", "sched", "block", "wake"}
        /\ t \notin k.list \/ t = Idle => p[t].at = "app"
    BY DEF MutexTables, MutexPc
  <2>2. CASE s[t] = p[t]
    BY ONLY <2>1, <2>2 DEF Blk
  <2>3. CASE s[t] # p[t]
    <3>1. /\ Formed(s[t]) /\ t \in k.list /\ t # Idle
          /\ \/ p[t].at \in InMutex \cup {"app", "sched"} /\ s[t].at \in {"app", "sched"}
             \/ /\ p[t].at = "block" /\ s[t].at = "wake"
                /\ s[t].ev = p[t].ev /\ s[t].n = p[t].n /\ s[t].svc = p[t].svc
      BY <2>3 DEF MutexMoved
    <3> QED
      BY ONLY <3>1 DEF Blk, InMutex
  <2> QED
    BY ONLY <2>2, <2>3
<1>2. MutexPc(k, p) /\ MutexStats(k, p) /\ MutexCalls(k, p) /\ MutexHas(k, p, H) /\ MutexWaits(k, p) /\ k.list \subseteq Task
  BY MutexBasics DEF MutexTables
<1>3. MutexPc(k, s)
  <2>1. s = [t \in Task |-> s[t]]
    BY DEF MutexMoved
  <2> QED
    BY ONLY <1>1, <1>2, <2>1 DEF MutexPc, InMutex, Blk
<1>4. MutexStats(k, s)
  BY ONLY <1>1, <1>2 DEF MutexStats
<1>5. MutexCalls(k, s)
  <2>1. \A t \in Task : s[t].at \in InMutex => k.ev[s[t].ev].type = "mutex"
    BY ONLY <1>1, <1>2 DEF MutexCalls
  <2>2. \A t \in Task : s[t].at = "mudel" => s[t] = p[t] /\ p[t].at = "mudel"
    BY ONLY <1>1 DEF InMutex
  <2>3. \A t \in Task : s[t].at = "mudel" => \A u \in Task : s[u].at \in InMutex => u = t
    BY ONLY <1>1, <1>2, <2>2 DEF MutexCalls
  <2> QED
    BY ONLY <1>2, <2>1, <2>2, <2>3 DEF MutexCalls
<1>6. MutexHas(k, s, H)
  <2>1. \A t \in Task : s[t].at \in {"muaccept", "mupend"} \/ Blk(s, t) => H[t] = {}
    BY ONLY <1>1, <1>2 DEF MutexHas, InMutex
  <2>2. \A e \in DOMAIN k.ev, t \in Task : Told(k, s, H, t, e) <=> Told(k, p, H, t, e)
    BY ONLY <1>1 DEF Told
  <2> QED
    BY ONLY <1>2, <2>1, <2>2 DEF MutexHas
<1>7. MutexWaits(k, s)
  BY ONLY <1>1, <1>2 DEF MutexWaits
<1> QED
  BY ONLY MutexTables(k, p, H), <1>3, <1>4, <1>5, <1>6, <1>7 DEF MutexTables

\* The step of a task to a place, as the services write it.
LEMMA MutexGoes ==
  ASSUME NEW k, NEW p, NEW H, MutexTables(k, p, H), NEW t \in k.list, t # Idle, p[t].at \in InMutex \cup {"app", "sched"},
         NEW s, s = [p EXCEPT ![t].at = "sched"] \/ s = [p EXCEPT ![t] = InApp] \/ s = p
  PROVE  MutexTables(k, s, H) /\ (s # p => s[t].at \in {"app", "sched"}) /\ \A u \in Task : u # t => s[u] = p[u]
<1>1. t \in Task /\ p = [u \in Task |-> p[u]] /\ Formed(p[t])
  BY MutexBasics DEF MutexTables, MutexPc
<1>2. CASE s = p
  BY <1>2
<1>3. CASE s = [p EXCEPT ![t].at = "sched"] \/ s = [p EXCEPT ![t] = InApp]
  <2>1. s = [u \in Task |-> s[u]] /\ (\A u \in Task : u # t => s[u] = p[u])
        /\ (s[t] = [p[t] EXCEPT !.at = "sched"] \/ s[t] = InApp)
    BY ONLY <1>1, <1>3
  <2>2. Formed(s[t]) /\ s[t].at \in {"app", "sched"}
    BY ONLY <1>1, <2>1 DEF Formed, InApp
  <2>3. MutexMoved(k, p, s)
    BY <2>1, <2>2 DEF MutexMoved
  <2> QED
    BY ONLY <2>1, <2>2, <2>3, MutexTables(k, p, H), MutexMoves
<1> QED
  BY <1>2, <1>3
-----------------------------------------------------------------------------
\* The scheduler picks the ready task of highest priority.
LEMMA MutexHighest ==
  ASSUME NEW k, MutexKernel(k), MutexPrios(k), CurKnown(k), k.lock > 0 => k.tcb[k.cur].prio \in k.rdy,
         NEW r, r = OS_Sched(k)
  PROVE  /\ MutexKernel(r) /\ r.app = k.app /\ r.rdy = k.rdy /\ r.tbl = k.tbl /\ r.tcb = k.tcb /\ r.list = k.list
         /\ r.ev = k.ev /\ r.lock = k.lock /\ r.tcb[r.cur].prio \in r.rdy
         /\ (k.lock > 0 => r = k)
         /\ (k.lock = 0 => r.prioCur = r.tcb[r.cur].prio /\ \A x \in r.rdy : r.prioCur <= x)
<1>1. /\ Shape(k) /\ k.rdy \subseteq Prio /\ k.lock \in Nat /\ LowestPrio \in k.rdy /\ LowestPrio \in Nat
      /\ k.list \subseteq Task /\ \A t \in k.list : k.tcb[t].prio \in Prio
  BY MutexBasics DEF MutexKernel
<1>2. PICK h : h = OS_SchedNew(k)
  OBVIOUS
<1>3. h \in k.rdy /\ \A x \in k.rdy : h <= x
  <2>1. k.rdy \in SUBSET Nat /\ k.rdy # {}
    BY ONLY <1>1 DEF Prio
  <2>2. \E m \in k.rdy : \A x \in k.rdy : m <= x
    BY ONLY <2>1, LeastIn
  <2> QED
    BY ONLY <1>2, <2>2 DEF OS_SchedNew, Min
<1>4. PICK t \in k.list : k.tcb[t].prio = h
  BY <1>3 DEF MutexKernel
<1>5. k.tbl[h] = t
  BY ONLY <1>4, MutexKernel(k), MutexPrios(k), PriosApart
<1>6. CASE k.lock = 0 /\ h # k.prioCur
  <2>1. r = [k EXCEPT !.cur = t, !.prioCur = h]
    BY <1>2, <1>5, <1>6 DEF OS_Sched
  <2>2. /\ Shape(r) /\ r.app = k.app /\ r.rdy = k.rdy /\ r.tbl = k.tbl /\ r.tcb = k.tcb /\ r.list = k.list
        /\ r.cur = t /\ r.prioCur = h /\ r.lock = 0 /\ r.ev = k.ev /\ r.evfree = k.evfree
    BY ONLY <1>1, <1>6, <2>1 DEF Shape
  <2>3. \A u \in k.list : ReadyAt(r, u) <=> ReadyAt(k, u)
    BY ONLY <2>2 DEF ReadyAt
  <2>4. MutexKernel(r)
    BY ONLY MutexKernel(k), <1>1, <1>3, <1>4, <2>2, <2>3 DEF MutexKernel
  <2> QED
    BY ONLY <1>1, <1>3, <1>4, <1>6, <2>2, <2>4
<1>7. CASE k.lock = 0 /\ h = k.prioCur
  <2>1. r = k
    BY <1>2, <1>7 DEF OS_Sched
  <2>2. k.tcb[k.cur].prio = k.prioCur
    <3> SUFFICES ASSUME k.tcb[k.cur].prio # k.prioCur PROVE FALSE
      OBVIOUS
    <3>1. k.prioCur = Pip /\ k.tbl[Pip] \notin Task
      BY DEF CurKnown
    <3> QED
      BY ONLY <1>1, <1>4, <1>5, <1>7, <3>1
  <2> QED
    BY ONLY <1>1, <1>3, <1>7, <2>1, <2>2, MutexKernel(k)
<1>8. CASE k.lock > 0
  <2>1. r = k
    BY <1>1, <1>8 DEF OS_Sched
  <2> QED
    BY <1>1, <1>8, <2>1
<1> QED
  BY ONLY <1>1, <1>6, <1>7, <1>8

LEMMA MutexScheds ==
  ASSUME NEW k, NEW p, NEW H, MutexTables(k, p, H), Outranks(k), CurKnown(k),
         k.lock > 0 => k.tcb[k.cur].prio \in k.rdy /\ p[k.cur].at \notin {"mupend", "block", "wake"},
         NEW r, r = OS_Sched(k)
  PROVE  MutexState(r, p, H)
<1>1. MutexKernel(k) /\ MutexPrios(k)
  BY DEF MutexTables
<1>2. /\ MutexKernel(r) /\ r.app = k.app /\ r.rdy = k.rdy /\ r.tbl = k.tbl /\ r.tcb = k.tcb /\ r.list = k.list
      /\ r.ev = k.ev /\ r.lock = k.lock /\ r.tcb[r.cur].prio \in r.rdy
      /\ (k.lock > 0 => r = k)
      /\ (k.lock = 0 => r.prioCur = r.tcb[r.cur].prio /\ \A x \in r.rdy : r.prioCur <= x)
  BY ONLY <1>1, CurKnown(k), k.lock > 0 => k.tcb[k.cur].prio \in k.rdy, r = OS_Sched(k), MutexHighest
<1>3. k.lock \in Nat /\ k.list \subseteq Task /\ k.rdy \subseteq Prio
  BY ONLY <1>1, MutexBasics DEF MutexKernel
<1>4. MutexPrios(r) /\ MutexEcbs(r) /\ MutexPc(r, p) /\ MutexStats(r, p) /\ MutexHas(r, p, H) /\ MutexWaits(r, p)
  <2>1. MutexPrios(r)
    BY ONLY <1>1, <1>2 DEF MutexPrios, Own
  <2>2. MutexEcbs(r) /\ MutexPc(r, p)
    BY ONLY MutexTables(k, p, H), <1>2 DEF MutexTables, MutexEcbs, Own, MutexPc
  <2>3. MutexStats(r, p) /\ MutexWaits(r, p)
    BY ONLY MutexTables(k, p, H), <1>2 DEF MutexTables, MutexStats, MutexWaits
  <2>4. MutexHas(r, p, H)
    BY ONLY MutexTables(k, p, H), <1>2 DEF MutexTables, MutexHas, Told
  <2> QED
    BY ONLY <2>1, <2>2, <2>3, <2>4
<1>5. MutexCalls(r, p)
  <2>1. CASE k.lock > 0
    BY <1>2, <2>1 DEF MutexTables
  <2>2. CASE k.lock = 0
    <3>1. MutexCalls(k, p) /\ MutexStats(k, p)
      BY DEF MutexTables
    <3>2. ASSUME NEW t \in Task, p[t].at = "mudel", NEW u \in k.list, u = k.ev[p[t].ev].ptr, u # t
          PROVE  r.cur # u /\ k.tcb[u].prio \in k.rdy /\ k.tcb[t].prio < k.tcb[u].prio
      <4>1. k.tcb[u].prio \in k.rdy /\ k.tcb[t].prio < k.tcb[u].prio
        BY ONLY <2>2, <3>1, <3>2 DEF MutexCalls
      <4>2. t \in k.list
        BY <3>2 DEF MutexTables, MutexPc
      <4>3. k.tcb[t].prio \in k.rdy
        <5>1. k.tcb[t].dly = 0 /\ ~ Dozing(k.tcb[t])
          BY ONLY <3>1, <3>2, <4>2 DEF MutexStats, InMutex, Blk
        <5>2. k.tcb[t].stat = {}
          <6>1. k.tcb[t].stat \in SUBSET {"mutex"}
            BY ONLY <1>1, <1>3, <4>2, MutexBasics DEF MutexTcb
          <6> QED
            BY ONLY <5>1, <6>1 DEF Dozing
        <5> QED
          BY ONLY <1>1, <4>2, <5>1, <5>2 DEF MutexKernel, ReadyAt
      <4> QED
        BY ONLY <1>2, <1>3, <2>2, <4>1, <4>3, CoreAssumption DEF Prio
    <3> QED
      BY ONLY <1>2, <2>2, <3>1, <3>2 DEF MutexCalls
  <2> QED
    BY ONLY <1>3, <2>1, <2>2
<1>6. Outranks(r)
  BY ONLY <1>2, Outranks(k) DEF Outranks
<1>7. MutexCpu(r, p)
  BY <1>2, <1>3 DEF MutexCpu, CurKnown
<1> QED
  BY ONLY <1>2, <1>4, <1>5, <1>6, <1>7 DEF MutexState, MutexTables
-----------------------------------------------------------------------------
\* Tasks are delayed, or their delays end, without a word to the mutex.
MutexTimed(k, p, T, D) ==
  /\ T \in [Task -> MutexTcb] /\ D \subseteq Prio /\ T[Idle] = k.tcb[Idle]
  /\ \A t \in Task : T[t].prio = k.tcb[t].prio /\ T[t].ev = k.tcb[t].ev /\ (Dozing(T[t]) <=> Dozing(k.tcb[t]))
  /\ \A t \in k.list : /\ k.tcb[t].prio \in D <=> T[t].dly = 0 /\ T[t].stat = {}
                       /\ T[t].pend = "to" => T[t].stat = {}
                       /\ Blk(p, t) /\ T[t].stat = {} => T[t].dly = 0
                       /\ p[t].at \in InMutex => T[t].dly = 0
  /\ \A x \in D : \E t \in k.list : k.tcb[t].prio = x
  /\ \A x \in k.rdy \ D : x = k.tcb[k.cur].prio
AsTimed(k, p, H, T, D, r) ==
  /\ MutexTables(r, p, H) /\ r.tcb = T /\ r.rdy = D /\ r.app = k.app /\ r.tbl = k.tbl /\ r.list = k.list
  /\ r.ev = k.ev /\ r.cur = k.cur /\ r.prioCur = k.prioCur /\ r.lock = k.lock
  /\ (Outranks(k) => Outranks(r)) /\ (CurKnown(k) => CurKnown(r))
LEMMA MutexTime ==
  ASSUME NEW k, NEW p, NEW H, MutexTables(k, p, H), NEW T, NEW D, MutexTimed(k, p, T, D),
         NEW r, r = [k EXCEPT !.tcb = T, !.rdy = D]
  PROVE  AsTimed(k, p, H, T, D, r)
<1>1. MutexKernel(k) /\ MutexPrios(k)
  BY DEF MutexTables
<1>2. Shape(k) /\ k.list \subseteq Task /\ Idle \in k.list /\ k.cur \in Task
  BY ONLY <1>1, MutexBasics
<1>3. /\ Shape(r) /\ r.tcb = T /\ r.rdy = D /\ r.app = k.app /\ r.tbl = k.tbl /\ r.list = k.list /\ r.evfree = k.evfree
      /\ r.ev = k.ev /\ r.cur = k.cur /\ r.prioCur = k.prioCur /\ r.lock = k.lock
  BY ONLY <1>2, r = [k EXCEPT !.tcb = T, !.rdy = D] DEF Shape
<1>4. MutexKernel(r)
  <2>1. \A t \in k.list : ReadyAt(r, t)
    BY ONLY <1>2, <1>3, MutexTimed(k, p, T, D) DEF MutexTimed, ReadyAt
  <2> QED
    BY ONLY MutexTimed(k, p, T, D), <1>1, <1>2, <1>3, <2>1 DEF MutexKernel, MutexTimed
<1>5. \A t \in Task : T[t].prio = k.tcb[t].prio /\ T[t].ev = k.tcb[t].ev /\ (Dozing(T[t]) <=> Dozing(k.tcb[t]))
  BY DEF MutexTimed
<1>6. MutexPrios(r)
  BY ONLY <1>1, <1>2, <1>3, <1>5 DEF MutexPrios, Own
<1>7. MutexEcbs(r) /\ MutexPc(r, p)
  BY ONLY MutexTables(k, p, H), <1>3 DEF MutexTables, MutexEcbs, Own, MutexPc
<1>8. MutexStats(r, p)
  BY ONLY MutexTables(k, p, H), MutexTimed(k, p, T, D), <1>2, <1>3, <1>5 DEF MutexTables, MutexTimed, MutexStats
<1>9. MutexHas(r, p, H)
  <2>1. \A e \in DOMAIN k.ev, t \in Task : Told(r, p, H, t, e) <=> Told(k, p, H, t, e)
    BY ONLY <1>3, <1>5 DEF Told
  <2> QED
    BY ONLY MutexTables(k, p, H), <1>3, <2>1 DEF MutexTables, MutexHas
<1>10. MutexWaits(r, p)
  BY ONLY MutexTables(k, p, H), <1>2, <1>3, <1>5 DEF MutexTables, MutexWaits
<1>11. MutexCalls(r, p)
  <2>1. ASSUME NEW u \in k.list, k.tcb[u].prio \in k.rdy, k.cur # u PROVE k.tcb[u].prio \in D
    <3>1. k.tcb[u].prio # k.tcb[k.cur].prio
      BY ONLY <1>1, <2>1, PriosApart DEF MutexKernel
    <3> QED
      BY <2>1, <3>1 DEF MutexTimed
  <2> QED
    BY ONLY MutexTables(k, p, H), <1>2, <1>3, <1>5, <2>1 DEF MutexTables, MutexCalls
<1>12. Outranks(k) => Outranks(r)
  <2>1. \A e \in DOMAIN k.ev : k.ev[e].ptr # Null => k.ev[e].ptr \in Task
    BY <1>2 DEF MutexTables, MutexEcbs
  <2> QED
    BY ONLY <1>3, <1>5, <2>1 DEF Outranks
<1>13. CurKnown(k) => CurKnown(r)
  BY ONLY <1>2, <1>3, <1>5 DEF CurKnown
<1> QED
  BY ONLY <1>3, <1>4, <1>6, <1>7, <1>8, <1>9, <1>10, <1>11, <1>12, <1>13 DEF MutexTables, AsTimed
-----------------------------------------------------------------------------
\* The task that runs.
LEMMA MutexRunner ==
  ASSUME NEW k, NEW p, NEW H, MutexState(k, p, H), NEW t, t = k.cur
  PROVE  /\ t \in k.list /\ t \in Task /\ Formed(p[t]) /\ p = [u \in Task |-> p[u]] /\ MutexTables(k, p, H)
         /\ MutexKernel(k) /\ Shape(k) /\ k.tcb[t] \in MutexTcb /\ TcbRecord(k.tcb[t])
         /\ (p[t].at \notin {"sched", "block"} => k.tcb[t].prio \in k.rdy /\ k.tcb[t].dly = 0 /\ k.tcb[t].stat = {})
         /\ (p[t].at # "app" => t # Idle) /\ (~ Blk(p, t) => k.tcb[t].pend = "ok" /\ k.tcb[t].ev = Null)
<1>1. MutexTables(k, p, H) /\ MutexKernel(k) /\ MutexCpu(k, p) /\ MutexPc(k, p) /\ MutexStats(k, p)
  BY DEF MutexState, MutexTables
<1>2. t \in k.list /\ t \in Task /\ Shape(k) /\ k.tcb[t] \in MutexTcb /\ TcbRecord(k.tcb[t])
  BY <1>1, MutexBasics DEF MutexKernel
<1>3. p[t].at \notin {"sched", "block"} => k.tcb[t].prio \in k.rdy
  BY <1>1 DEF MutexCpu
<1>4. ReadyAt(k, t)
  BY ONLY <1>1, <1>2 DEF MutexKernel
<1>5. Formed(p[t]) /\ p = [u \in Task |-> p[u]] /\ (t = Idle => p[t].at = "app")
  BY ONLY <1>1, <1>2 DEF MutexPc
<1>6. k.tcb[t].pend \in {"ok", "to"}
  BY ONLY <1>2 DEF MutexTcb
<1>7. ~ Blk(p, t) => k.tcb[t].pend = "ok" /\ k.tcb[t].ev = Null
  BY ONLY <1>1, <1>2, <1>6 DEF MutexStats, Dozing
<1> QED
  BY ONLY <1>1, <1>2, <1>3, <1>4, <1>5, <1>7 DEF ReadyAt

\* One task is delayed or its delay ends, and the caller may have to look at the
\* scheduler.
LEMMA MutexOneTime ==
  ASSUME NEW k, NEW p, NEW H, MutexState(k, p, H), NEW t, t = k.cur, t # Idle, p[t].at = "app",
         NEW T, NEW D, MutexTimed(k, p, T, D), k.lock > 0 => k.tcb[t].prio \in D,
         NEW r, r = [k EXCEPT !.tcb = T, !.rdy = D], NEW s, s = [p EXCEPT ![t].at = "sched"]
  PROVE  MutexState(r, s, H)
<1>1. /\ t \in k.list /\ t \in Task /\ Formed(p[t]) /\ p = [u \in Task |-> p[u]] /\ MutexTables(k, p, H)
  BY ONLY MutexState(k, p, H), t = k.cur, MutexRunner
<1>2. /\ MutexTables(r, p, H) /\ r.tcb = T /\ r.rdy = D /\ r.app = k.app /\ r.tbl = k.tbl /\ r.list = k.list
      /\ r.ev = k.ev /\ r.cur = k.cur /\ r.prioCur = k.prioCur /\ r.lock = k.lock
      /\ (Outranks(k) => Outranks(r)) /\ (CurKnown(k) => CurKnown(r))
  <2>1. MutexTables(k, p, H)
    BY ONLY <1>1
  <2>2. AsTimed(k, p, H, T, D, r)
    BY ONLY <2>1, MutexTimed(k, p, T, D), r = [k EXCEPT !.tcb = T, !.rdy = D], MutexTime, Zenon
  <2> QED
    BY ONLY <2>2 DEF AsTimed
<1>3. MutexTables(r, s, H)
  <2>1. t \in r.list
    BY ONLY <1>1, <1>2
  <2>2. p[t].at \in InMutex \cup {"app", "sched"}
    OBVIOUS
  <2> QED
    BY ONLY <1>2, <2>1, <2>2, t # Idle, s = [p EXCEPT ![t].at = "sched"], MutexGoes
<1>4. s[t].at = "sched"
  BY ONLY <1>1, s = [p EXCEPT ![t].at = "sched"] DEF Formed
<1>5. k.lock \in Nat /\ T[t].prio = k.tcb[t].prio
  BY <1>1 DEF MutexTables, MutexKernel, MutexTimed
<1>6. MutexCpu(r, s)
  <2>1. CurKnown(r)
    BY <1>2 DEF MutexState, MutexCpu
  <2> QED
    BY ONLY <1>2, <1>4, <1>5, <2>1, t = k.cur, k.lock > 0 => k.tcb[t].prio \in D DEF MutexCpu
<1> QED
  BY <1>2, <1>3, <1>6 DEF MutexState

LEMMA MutexDly ==
  ASSUME NEW t, NEW n, n \in 1 .. MaxDly, MutexInv, OSTimeDly(t, n)
  PROVE  MutexState(os', pc', has)
<1>1. t = os.cur /\ t # Idle /\ pc[t].at = "app" /\ os.lock = 0
  BY DEF OSTimeDly, Calls, At, Unlocked
<1>2. PICK k, c : k = os /\ c = k.tcb[t]
  OBVIOUS
<1>3. MutexState(k, pc, has) /\ t = k.cur /\ pc[t].at = "app"
  BY <1>1, <1>2 DEF MutexInv
<1>4. /\ t \in k.list /\ t \in Task /\ MutexKernel(k) /\ Shape(k) /\ c \in MutexTcb /\ TcbRecord(c)
      /\ c.prio \in k.rdy /\ c.dly = 0 /\ c.stat = {} /\ c.pend = "ok" /\ MutexTables(k, pc, has)
  <2>1. ~ Blk(pc, t)
    BY ONLY <1>1 DEF Blk
  <2> QED
    BY ONLY <1>2, <1>3, <2>1, MutexRunner
<1>5. n \in Nat /\ n # 0
  BY <1>2, <1>4, AppAssumption DEF MaxDly, MutexKernel
<1>6. PICK d : d = [c EXCEPT !.dly = n]
  OBVIOUS
<1>7. d \in MutexTcb /\ d.prio = c.prio /\ d.pend = "ok" /\ d.stat = {} /\ d.dly = n /\ d.ev = c.ev
  BY ONLY <1>4, <1>5, <1>6 DEF MutexTcb
<1>8. PICK T, D : T = [k.tcb EXCEPT ![t] = d] /\ D = k.rdy \ {c.prio}
  OBVIOUS
<1>9. PICK r : r = os' /\ r = [k EXCEPT !.tcb = T, !.rdy = D]
  <2>1. os' = [[k EXCEPT !.rdy = @ \ {k.tcb[t].prio}] EXCEPT !.tcb[t].dly = n]
    BY <1>2 DEF OSTimeDly, ClearReady
  <2> QED
    BY ONLY <1>2, <1>4, <1>6, <1>8, <2>1 DEF Shape
<1>10. MutexTimed(k, pc, T, D)
  <2>1. /\ k.tcb \in [Task -> MutexTcb] /\ (\A u \in k.list : ReadyAt(k, u)) /\ k.rdy \subseteq Prio
        /\ \A x \in k.rdy : \E u \in k.list : k.tcb[u].prio = x
    BY ONLY <1>4 DEF MutexKernel
  <2>2. T \in [Task -> MutexTcb] /\ T[t] = d /\ \A u \in Task : u # t => T[u] = k.tcb[u]
    BY ONLY <1>4, <1>7, <1>8, <2>1
  <2>3. \A u \in k.list : u # t => k.tcb[u].prio # c.prio
    BY ONLY <1>2, <1>4, PriosApart DEF MutexTables
  <2>4. k.list \subseteq Task /\ Idle \in Task /\ MutexStats(k, pc)
    BY ONLY <1>4, MutexBasics DEF MutexTables
  <2>5. \A u \in Task : T[u].prio = k.tcb[u].prio /\ T[u].ev = k.tcb[u].ev /\ (Dozing(T[u]) <=> Dozing(k.tcb[u]))
    BY ONLY <1>2, <1>4, <1>7, <2>2 DEF Dozing
  <2>6. ASSUME NEW u \in k.list
        PROVE  /\ k.tcb[u].prio \in D <=> T[u].dly = 0 /\ T[u].stat = {}
               /\ T[u].pend = "to" => T[u].stat = {}
               /\ Blk(pc, u) /\ T[u].stat = {} => T[u].dly = 0
               /\ pc[u].at \in InMutex => T[u].dly = 0
    <3>1. CASE u = t
      BY ONLY <1>1, <1>2, <1>5, <1>7, <1>8, <2>2, <3>1 DEF Blk, InMutex
    <3>2. CASE u # t
      <4>1. u \in Task /\ T[u] = k.tcb[u] /\ ReadyAt(k, u) /\ k.tcb[u].prio # c.prio
        BY ONLY <2>1, <2>2, <2>3, <2>4, <3>2
      <4> QED
        BY ONLY <1>8, <2>4, <4>1 DEF ReadyAt, MutexStats
    <3> QED
      BY ONLY <3>1, <3>2
  <2>7. D \subseteq Prio /\ (\A x \in D : \E u \in k.list : k.tcb[u].prio = x) /\ (\A x \in k.rdy \ D : x = k.tcb[k.cur].prio)
    BY ONLY <1>2, <1>3, <1>8, <2>1
  <2> QED
    BY ONLY <1>1, <2>2, <2>4, <2>5, <2>6, <2>7 DEF MutexTimed
<1>11. PICK s : s = pc' /\ s = [pc EXCEPT ![t].at = "sched"]
  BY DEF OSTimeDly, Goto
<1>12. k.lock > 0 => k.tcb[t].prio \in D
  BY ONLY <1>1, <1>2
<1>13. MutexState(r, s, has)
  <2>1. MutexState(k, pc, has) /\ t = k.cur /\ t # Idle /\ pc[t].at = "app"
    BY ONLY <1>1, <1>3
  <2>2. r = [k EXCEPT !.tcb = T, !.rdy = D]
    BY ONLY <1>9
  <2>3. s = [pc EXCEPT ![t].at = "sched"]
    BY ONLY <1>11
  <2> QED
    BY ONLY <1>10, <1>12, <2>1, <2>2, <2>3, MutexOneTime, Zenon
<1> QED
  BY ONLY <1>9, <1>11, <1>13

\* The end of a delay, by the clock or by a call.
DelayEnded(c, d) == /\ d \in MutexTcb /\ d.prio = c.prio /\ d.ev = c.ev /\ d.dly = 0 /\ d.stat = {}
                    /\ d.pend = IF "mutex" \in c.stat THEN "to" ELSE "ok"
LEMMA DelayEnds0 ==
  ASSUME NEW c \in MutexTcb PROVE DelayEnded(c, DelayOver(c))
<1>1. TcbRecord(c) /\ c.stat \in SUBSET {"mutex"}
  BY DEF TcbRecord, MutexTcb
<1>2. c.stat \cap PendAny = c.stat /\ c.stat \ PendAny = {} /\ (c.stat # {} <=> "mutex" \in c.stat)
  BY ONLY <1>1 DEF PendAny
<1>3. PICK a : a = IF "mutex" \in c.stat THEN "to" ELSE "ok"
  OBVIOUS
<1>4. PICK d : d = DelayOver(c) /\ d = [c EXCEPT !.dly = 0, !.stat = {}, !.pend = a]
  BY ONLY <1>2, <1>3, Zenon DEF DelayOver
<1>5. d = [prio |-> c.prio, stat |-> {}, pend |-> a, dly |-> 0, ev |-> c.ev, multi |-> c.multi, msg |-> c.msg, delreq |-> c.delreq]
  BY ONLY <1>1, <1>4 DEF TcbRecord
<1>6. /\ c.prio \in Prio /\ c.ev \in Ecb \cup {Null} /\ c.multi \in {{}} /\ c.msg \in {Null} /\ c.delreq \in BOOLEAN
      /\ a \in {"ok", "to"} /\ {} \in SUBSET {"mutex"} /\ 0 \in Nat
  BY ONLY <1>3, c \in MutexTcb DEF MutexTcb
<1>7. d \in MutexTcb
  BY ONLY <1>5, <1>6 DEF MutexTcb
<1>8. d.prio = c.prio /\ d.ev = c.ev /\ d.dly = 0 /\ d.stat = {} /\ d.pend = a
  BY ONLY <1>5
<1> QED
  BY ONLY <1>3, <1>4, <1>7, <1>8 DEF DelayEnded

\* Those of X: their delays end, the other tasks are as they were or nearer the end.
LEMMA MutexEnded ==
  ASSUME NEW k, NEW p, NEW H, MutexTables(k, p, H), NEW X, X \subseteq k.list, NEW T, NEW D,
         T = [t \in Task |-> T[t]], \A t \in X : k.tcb[t].dly > 0 /\ DelayEnded(k.tcb[t], T[t]),
         \A t \in Task \ X : \/ T[t] = k.tcb[t]
                             \/ /\ T[t] = [k.tcb[t] EXCEPT !.dly = @ - 1] /\ t \in k.list
                                /\ k.tcb[t].dly > 1,
         D = k.rdy \cup {k.tcb[t].prio : t \in X}
  PROVE  MutexTimed(k, p, T, D)
<1>1. /\ k.tcb \in [Task -> MutexTcb] /\ (\A u \in k.list : ReadyAt(k, u)) /\ k.rdy \subseteq Prio
      /\ (\A x \in k.rdy : \E u \in k.list : k.tcb[u].prio = x) /\ k.tcb[Idle].dly = 0
  BY DEF MutexTables, MutexKernel
<1>2. /\ k.list \subseteq Task /\ Idle \in Task /\ Idle \in k.list /\ MutexStats(k, p)
      /\ (\A t \in Task : TcbRecord(k.tcb[t]) /\ k.tcb[t] \in MutexTcb) /\ \A t \in k.list : k.tcb[t].prio \in Prio
  BY MutexBasics DEF MutexTables
<1>3. ASSUME NEW t \in X
      PROVE  /\ T[t] \in MutexTcb /\ T[t].prio = k.tcb[t].prio /\ T[t].ev = k.tcb[t].ev
             /\ (Dozing(T[t]) <=> Dozing(k.tcb[t])) /\ T[t].stat = {} /\ T[t].dly = 0 /\ t \in k.list
  <2>1. t \in k.list /\ t \in Task /\ k.tcb[t].dly > 0 /\ DelayEnded(k.tcb[t], T[t]) /\ k.tcb[t] \in MutexTcb
    BY <1>2
  <2>2. "mutex" \notin k.tcb[t].stat => k.tcb[t].pend # "to"
    <3>1. k.tcb[t].stat \in SUBSET {"mutex"} /\ k.tcb[t].dly \in Nat
      BY ONLY <2>1 DEF MutexTcb
    <3> QED
      BY ONLY <1>2, <2>1, <3>1 DEF MutexStats, Dozing
  <2> QED
    BY ONLY <2>1, <2>2 DEF DelayEnded, Dozing
<1>4. ASSUME NEW t \in Task, t \notin X
      PROVE  /\ T[t] \in MutexTcb /\ T[t].prio = k.tcb[t].prio /\ T[t].ev = k.tcb[t].ev
             /\ T[t].stat = k.tcb[t].stat /\ T[t].pend = k.tcb[t].pend /\ (T[t].dly = 0 <=> k.tcb[t].dly = 0)
             /\ t = Idle => T[t] = k.tcb[t]
  <2>1. PICK c, d : c = k.tcb[t] /\ d = T[t] /\ c \in MutexTcb /\ TcbRecord(c)
    BY ONLY <1>2
  <2>2. CASE d = c
    BY ONLY <2>1, <2>2
  <2>3. CASE d # c
    <3>1. d = [c EXCEPT !.dly = @ - 1] /\ c.dly > 1 /\ c.dly \in Nat
      <4>1. c.dly \in Nat
        BY ONLY <2>1 DEF MutexTcb
      <4> QED
        BY <1>4, <2>1, <2>3, <4>1
    <3>2. PICK n : n = c.dly - 1 /\ n \in Nat /\ n # 0
      BY ONLY <3>1
    <3>3. d = [prio |-> c.prio, stat |-> c.stat, pend |-> c.pend, dly |-> n, ev |-> c.ev, multi |-> c.multi, msg |-> c.msg, delreq |-> c.delreq]
      BY ONLY <2>1, <3>1, <3>2 DEF TcbRecord
    <3>4. d \in MutexTcb /\ d.prio = c.prio /\ d.ev = c.ev /\ d.stat = c.stat /\ d.pend = c.pend /\ d.dly = n
      BY ONLY <2>1, <3>2, <3>3 DEF MutexTcb
    <3>5. t # Idle
      BY ONLY <1>1, <2>1, <3>1
    <3> QED
      BY ONLY <2>1, <3>1, <3>2, <3>4, <3>5
  <2> QED
    BY ONLY <2>2, <2>3
<1>5. T \in [Task -> MutexTcb]
  BY ONLY <1>3, <1>4, T = [t \in Task |-> T[t]]
<1>6. \A t \in Task : T[t].prio = k.tcb[t].prio /\ T[t].ev = k.tcb[t].ev /\ (Dozing(T[t]) <=> Dozing(k.tcb[t]))
  BY ONLY <1>3, <1>4 DEF Dozing
<1>7. T[Idle] = k.tcb[Idle]
  <2>1. \A t \in X : k.tcb[t].dly > 0
    OBVIOUS
  <2>2. Idle \notin X
    <3>1. ~ (0 > 0)
      OBVIOUS
    <3> QED
      BY ONLY <1>1, <2>1, <3>1
  <2> QED
    BY ONLY <1>2, <1>4, <2>2
<1>8. ASSUME NEW t \in k.list
      PROVE  /\ k.tcb[t].prio \in D <=> T[t].dly = 0 /\ T[t].stat = {}
             /\ T[t].pend = "to" => T[t].stat = {}
             /\ Blk(p, t) /\ T[t].stat = {} => T[t].dly = 0
             /\ p[t].at \in InMutex => T[t].dly = 0
  <2>1. CASE t \in X
    BY <1>3, <2>1
  <2>2. CASE t \notin X
    <3>1. \A u \in X : k.tcb[u].prio # k.tcb[t].prio
      BY <1>3, <2>2, PriosApart DEF MutexTables
    <3>2. k.tcb[t].prio \in D <=> k.tcb[t].prio \in k.rdy
      BY ONLY <3>1, D = k.rdy \cup {k.tcb[u].prio : u \in X}
    <3>3. ReadyAt(k, t) /\ t \in Task
      BY ONLY <1>1, <1>2
    <3> QED
      BY ONLY <1>2, <1>4, <2>2, <3>2, <3>3 DEF ReadyAt, MutexStats
  <2> QED
    BY ONLY <2>1, <2>2
<1>9. D \subseteq Prio /\ (\A x \in D : \E u \in k.list : k.tcb[u].prio = x) /\ k.rdy \subseteq D
  BY ONLY <1>1, <1>2, X \subseteq k.list, D = k.rdy \cup {k.tcb[t].prio : t \in X}
<1> QED
  BY ONLY <1>5, <1>6, <1>7, <1>8, <1>9 DEF MutexTimed
-----------------------------------------------------------------------------
LEMMA MutexDlyResume ==
  ASSUME NEW t, NEW x \in Prio, MutexInv, OSTimeDlyResume(t, x)
  PROVE  MutexState(os', pc', has)
<1>1. t = os.cur /\ t # Idle /\ pc[t].at = "app"
  BY DEF OSTimeDlyResume, Calls, At
<1>2. PICK k, u : k = os /\ u = k.tbl[x]
  OBVIOUS
<1>3. MutexState(k, pc, has) /\ t = k.cur
  BY <1>1, <1>2 DEF MutexInv
<1>4. MutexTables(k, pc, has) /\ MutexKernel(k) /\ MutexPrios(k)
  BY ONLY <1>3 DEF MutexState, MutexTables
<1>5. /\ t \in k.list /\ t \in Task /\ k.tcb[t].prio \in k.rdy /\ Shape(k)
      /\ k.tcb \in [Task -> MutexTcb] /\ k.tbl \in [Prio -> Task \cup {Null, Reserved}]
  <2>1. /\ t \in k.list /\ t \in Task /\ Shape(k)
        /\ (pc[t].at \notin {"sched", "block"} => k.tcb[t].prio \in k.rdy /\ k.tcb[t].dly = 0 /\ k.tcb[t].stat = {})
    BY ONLY <1>3, MutexRunner
  <2> QED
    BY ONLY <1>1, <1>4, <2>1 DEF MutexKernel
<1>6. u \in Task /\ u \in k.list /\ k.tcb[u].dly > 0 /\ "suspend" \notin k.tcb[u].stat /\ k.tcb[u] \in MutexTcb
  <2>1. u \in Task /\ k.tcb[u].dly > 0
    BY <1>2, <1>5 DEF OSTimeDlyResume, Exists, Target
  <2>2. u \in k.list
    BY ONLY <1>2, <1>4, <2>1 DEF MutexPrios
  <2>3. k.tcb[u] \in MutexTcb
    BY ONLY <1>5, <2>1
  <2>4. "suspend" \notin k.tcb[u].stat
    BY ONLY <2>3 DEF MutexTcb
  <2> QED
    BY ONLY <2>1, <2>2, <2>3, <2>4
<1>7. PICK d : d = DelayOver(k.tcb[u]) /\ DelayEnded(k.tcb[u], d)
  BY ONLY <1>6, DelayEnds0
<1>8. PICK T, X, D : T = [k.tcb EXCEPT ![u] = d] /\ X = {u} /\ D = k.rdy \cup {k.tcb[v].prio : v \in X}
  OBVIOUS
<1>9. d.prio = k.tcb[u].prio
  BY ONLY <1>7 DEF DelayEnded
<1>10. PICK r, s : r = os' /\ s = pc' /\ r = [k EXCEPT !.tcb = T, !.rdy = D] /\ s = [pc EXCEPT ![t].at = "sched"]
  <2>1. pc' = [pc EXCEPT ![t].at = "sched"] /\ os' = SetReady([k EXCEPT !.tcb[u] = d], u)
    BY <1>2, <1>6, <1>7 DEF OSTimeDlyResume, Target, Goto
  <2>2. PICK k1 : k1 = [k EXCEPT !.tcb[u] = d]
    OBVIOUS
  <2>3. k1 = [k EXCEPT !.tcb = T] /\ k1.tcb[u] = d
    BY ONLY <1>5, <1>6, <1>8, <2>2 DEF Shape
  <2>4. D = k.rdy \cup {k.tcb[u].prio}
    BY ONLY <1>8
  <2>5. os' = [k1 EXCEPT !.rdy = D]
    <3>1. os' = [k1 EXCEPT !.rdy = @ \cup {k1.tcb[u].prio}] /\ k1.rdy = k.rdy
      BY ONLY <1>5, <2>1, <2>2, <2>3 DEF SetReady, Shape
    <3> QED
      BY ONLY <1>9, <2>3, <2>4, <3>1
  <2>6. [k1 EXCEPT !.rdy = D] = [k EXCEPT !.tcb = T, !.rdy = D]
    BY ONLY <1>5, <2>3 DEF Shape
  <2> QED
    BY ONLY <2>1, <2>5, <2>6
<1>11. MutexTimed(k, pc, T, D)
  <2>1. X \subseteq k.list /\ T = [v \in Task |-> T[v]]
    BY ONLY <1>5, <1>6, <1>8
  <2>2. \A v \in X : k.tcb[v].dly > 0 /\ DelayEnded(k.tcb[v], T[v])
    BY ONLY <1>5, <1>6, <1>7, <1>8
  <2>3. \A v \in Task \ X : \/ T[v] = k.tcb[v]
                            \/ /\ T[v] = [k.tcb[v] EXCEPT !.dly = @ - 1] /\ v \in k.list
                               /\ k.tcb[v].dly > 1
    BY ONLY <1>5, <1>6, <1>8
  <2>4. D = k.rdy \cup {k.tcb[v].prio : v \in X}
    BY ONLY <1>8
  <2> QED
    BY ONLY <1>4, <2>1, <2>2, <2>3, <2>4, MutexEnded
<1>12. k.lock > 0 => k.tcb[t].prio \in D
  BY ONLY <1>5, <1>8
<1> QED
  <2>1. MutexState(k, pc, has) /\ t = k.cur /\ t # Idle /\ pc[t].at = "app"
    BY ONLY <1>1, <1>3
  <2>2. r = [k EXCEPT !.tcb = T, !.rdy = D]
    BY ONLY <1>10
  <2>3. s = [pc EXCEPT ![t].at = "sched"]
    BY ONLY <1>10
  <2>4. MutexState(r, s, has)
    BY ONLY <1>11, <1>12, <2>1, <2>2, <2>3, MutexOneTime, Zenon
  <2> QED
    BY ONLY <1>10, <2>4

\* The clock tick.
LEMMA MutexTick ==
  ASSUME MutexInv, Tick
  PROVE  MutexState(os', pc', has)
<1>1. PICK k, k1, r : k = os /\ k1 = OSTimeTick(k) /\ r = OS_Sched(k1) /\ os' = r /\ pc' = pc
  BY DEF Tick, InInterrupt, OSIntExit
<1>2. MutexState(k, pc, has)
  BY <1>1 DEF MutexInv
<1>3. MutexTables(k, pc, has) /\ MutexKernel(k) /\ MutexPrios(k) /\ Outranks(k) /\ MutexCpu(k, pc)
  BY ONLY <1>2 DEF MutexState, MutexTables
<1>4. PICK timed : timed = {t \in k.list \ {Idle} : k.tcb[t].dly > 0}
  OBVIOUS
<1>5. PICK X, T, D : /\ X = {t \in timed : k.tcb[t].dly = 1}
                     /\ T = [t \in Task |-> IF t \in timed THEN Ticked(k.tcb[t]) ELSE k.tcb[t]]
                     /\ D = k.rdy \cup {k.tcb[t].prio : t \in X}
  OBVIOUS
<1>6. /\ k.list \subseteq Task /\ \A t \in Task : k.tcb[t] \in MutexTcb
  BY ONLY <1>3, MutexBasics
<1>7. Shape(k)
  BY ONLY <1>3 DEF MutexKernel
<1>8. k1 = [k EXCEPT !.tcb = T, !.rdy = D]
  <2>1. X = {t \in timed : k.tcb[t].dly = 1 /\ "suspend" \notin k.tcb[t].stat}
    <3>1. \A t \in timed : k.tcb[t] \in MutexTcb
      BY ONLY <1>4, <1>6
    <3>2. \A t \in timed : "suspend" \notin k.tcb[t].stat
      BY ONLY <3>1 DEF MutexTcb
    <3> QED
      BY ONLY <1>5, <3>2
  <2>2. k1 = [k EXCEPT !.tcb = T, !.rdy = k.rdy \cup {k.tcb[t].prio : t \in {u \in timed : k.tcb[u].dly = 1 /\ "suspend" \notin k.tcb[u].stat}}]
    BY ONLY <1>1, <1>4, <1>5, <1>7 DEF OSTimeTick, Shape
  <2> QED
    BY ONLY <1>5, <2>1, <2>2
<1>9. MutexTimed(k, pc, T, D)
  <2>1. X \subseteq k.list /\ T = [t \in Task |-> T[t]]
    BY ONLY <1>4, <1>5
  <2>2. \A t \in X : k.tcb[t].dly > 0 /\ DelayEnded(k.tcb[t], T[t])
    <3>1. ASSUME NEW t \in X PROVE k.tcb[t].dly > 0 /\ T[t] = DelayOver(k.tcb[t]) /\ k.tcb[t] \in MutexTcb
      BY ONLY <1>4, <1>5, <1>6, <3>1 DEF Ticked
    <3> QED
      BY ONLY <3>1, DelayEnds0
  <2>3. \A t \in Task \ X : \/ T[t] = k.tcb[t]
                            \/ /\ T[t] = [k.tcb[t] EXCEPT !.dly = @ - 1] /\ t \in k.list
                               /\ k.tcb[t].dly > 1
    <3>1. ASSUME NEW t \in Task, t \in timed, t \notin X
          PROVE  T[t] = [k.tcb[t] EXCEPT !.dly = @ - 1] /\ t \in k.list /\ k.tcb[t].dly > 1
      <4>1. k.tcb[t].dly # 1 /\ k.tcb[t].dly > 0 /\ t \in k.list /\ k.tcb[t] \in MutexTcb
        BY ONLY <1>4, <1>5, <1>6, <3>1
      <4>2. k.tcb[t].dly \in Nat
        BY ONLY <4>1 DEF MutexTcb
      <4> QED
        BY ONLY <1>5, <3>1, <4>1, <4>2 DEF Ticked
    <3>2. \A t \in Task : t \notin timed => T[t] = k.tcb[t]
      BY ONLY <1>5
    <3> QED
      BY ONLY <3>1, <3>2
  <2>4. D = k.rdy \cup {k.tcb[t].prio : t \in X}
    BY ONLY <1>5
  <2>5. MutexTables(k, pc, has)
    BY ONLY <1>3
  <2> QED
    BY ONLY <2>1, <2>2, <2>3, <2>4, <2>5, MutexEnded
<1>10. AsTimed(k, pc, has, T, D, k1)
  <2>1. MutexTables(k, pc, has)
    BY ONLY <1>3
  <2> QED
    BY ONLY <2>1, <1>8, <1>9, MutexTime, Zenon
<1>11. /\ MutexTables(k1, pc, has) /\ Outranks(k1) /\ CurKnown(k1)
       /\ k1.lock = k.lock /\ k1.cur = k.cur /\ k1.rdy = D /\ k1.tcb = T
  BY ONLY <1>3, <1>10 DEF AsTimed, MutexCpu
<1>12. k1.lock > 0 => k1.tcb[k1.cur].prio \in k1.rdy /\ pc[k1.cur].at \notin {"mupend", "block", "wake"}
  <2>1. k.cur \in Task /\ T[k.cur].prio = k.tcb[k.cur].prio
    BY ONLY <1>3, <1>6, <1>9 DEF MutexTimed, MutexKernel
  <2>2. k.lock > 0 => k.tcb[k.cur].prio \in k.rdy /\ pc[k.cur].at \notin {"mupend", "block", "wake"}
    <3>1. k.lock \in Nat
      BY ONLY <1>3 DEF MutexKernel
    <3> QED
      BY ONLY <1>3, <3>1 DEF MutexCpu
  <2>3. k.rdy \subseteq D
    BY ONLY <1>5
  <2> QED
    BY ONLY <1>11, <2>1, <2>2, <2>3
<1> QED
  <2>1. r = OS_Sched(k1)
    BY ONLY <1>1
  <2>2. MutexTables(k1, pc, has) /\ Outranks(k1) /\ CurKnown(k1)
    BY ONLY <1>11
  <2>3. MutexState(r, pc, has)
    BY ONLY <1>12, <2>1, <2>2, MutexScheds
  <2> QED
    BY ONLY <1>1, <2>3

\* The scheduler lock.
LEMMA MutexLocked ==
  ASSUME NEW k, NEW p, NEW H, MutexState(k, p, H), NEW m \in Nat, p[k.cur].at = "app",
         NEW r, r = [k EXCEPT !.lock = m]
  PROVE  /\ MutexTables(r, p, H) /\ Outranks(r) /\ CurKnown(r) /\ r.lock = m /\ r.cur = k.cur /\ r.list = k.list
         /\ r.rdy = k.rdy /\ r.tcb = k.tcb
         /\ (m > 0 => MutexCpu(r, p))
<1>1. MutexTables(k, p, H) /\ MutexKernel(k) /\ MutexPrios(k) /\ Outranks(k) /\ MutexCpu(k, p) /\ Shape(k)
  BY DEF MutexState, MutexTables, MutexKernel
<1>2. /\ Shape(r) /\ r.tcb = k.tcb /\ r.rdy = k.rdy /\ r.app = k.app /\ r.tbl = k.tbl /\ r.list = k.list /\ r.evfree = k.evfree
      /\ r.ev = k.ev /\ r.cur = k.cur /\ r.prioCur = k.prioCur /\ r.lock = m
  BY ONLY <1>1, r = [k EXCEPT !.lock = m] DEF Shape
<1>3. MutexKernel(r)
  <2>1. \A t \in k.list : ReadyAt(r, t) <=> ReadyAt(k, t)
    BY ONLY <1>2 DEF ReadyAt
  <2> QED
    BY ONLY <1>1, <1>2, <2>1, m \in Nat DEF MutexKernel
<1>4. MutexPrios(r) /\ MutexEcbs(r) /\ MutexPc(r, p) /\ MutexStats(r, p) /\ MutexHas(r, p, H) /\ MutexWaits(r, p)
  <2>1. MutexPrios(r)
    BY ONLY <1>1, <1>2 DEF MutexPrios, Own
  <2>2. MutexEcbs(r) /\ MutexPc(r, p)
    BY ONLY <1>1, <1>2 DEF MutexTables, MutexEcbs, Own, MutexPc
  <2>3. MutexStats(r, p) /\ MutexWaits(r, p)
    BY ONLY <1>1, <1>2 DEF MutexTables, MutexStats, MutexWaits
  <2>4. MutexHas(r, p, H)
    BY ONLY <1>1, <1>2 DEF MutexTables, MutexHas, Told
  <2> QED
    BY ONLY <2>1, <2>2, <2>3, <2>4
<1>5. MutexCalls(r, p)
  BY ONLY <1>1, <1>2, p[k.cur].at = "app" DEF MutexTables, MutexCalls
<1>6. Outranks(r) /\ CurKnown(r)
  BY ONLY <1>1, <1>2 DEF Outranks, CurKnown, MutexCpu
<1>7. m > 0 => MutexCpu(r, p)
  <2>1. k.tcb[k.cur].prio \in k.rdy
    BY ONLY <1>1, p[k.cur].at = "app" DEF MutexCpu
  <2> QED
    BY ONLY <1>2, <1>6, <2>1, p[k.cur].at = "app" DEF MutexCpu
<1> QED
  BY ONLY <1>2, <1>3, <1>4, <1>5, <1>6, <1>7 DEF MutexTables
-----------------------------------------------------------------------------
LEMMA MutexSchedLock ==
  ASSUME NEW t, MutexInv, OSSchedLock(t)
  PROVE  MutexState(os', pc', has)
<1>1. PICK k, m, r : k = os /\ m = k.lock + 1 /\ r = [k EXCEPT !.lock = m] /\ os' = r /\ pc' = pc
  <2>1. os' = [os EXCEPT !.lock = os.lock + 1]
    BY DEF OSSchedLock
  <2> QED
    BY <2>1 DEF OSSchedLock
<1>2. MutexState(k, pc, has) /\ pc[k.cur].at = "app"
  BY <1>1 DEF MutexInv, OSSchedLock, Calls, At
<1>3. m \in Nat /\ m > 0
  BY ONLY <1>1, <1>2 DEF MutexState, MutexTables, MutexKernel
<1>4. r = [k EXCEPT !.lock = m]
  BY ONLY <1>1
<1>5. MutexTables(r, pc, has) /\ Outranks(r) /\ MutexCpu(r, pc)
  BY ONLY <1>2, <1>3, <1>4, MutexLocked
<1> QED
  BY ONLY <1>1, <1>5 DEF MutexState

LEMMA MutexSchedUnlock ==
  ASSUME NEW t, MutexInv, OSSchedUnlock(t)
  PROVE  MutexState(os', pc', has)
<1>1. /\ t = os.cur /\ t # Idle /\ pc[t].at = "app" /\ os.lock > 0
      /\ pc' = IF os.lock = 1 THEN [pc EXCEPT ![t].at = "sched"] ELSE pc
  BY DEF OSSchedUnlock, Calls, At, Goto
<1>2. PICK k, m, r, s : k = os /\ m = k.lock - 1 /\ r = [k EXCEPT !.lock = m] /\ os' = r /\ s = pc'
  <2>1. os' = [os EXCEPT !.lock = os.lock - 1]
    BY DEF OSSchedUnlock
  <2> QED
    BY ONLY <2>1
<1>3. MutexState(k, pc, has) /\ pc[k.cur].at = "app"
  BY <1>1, <1>2 DEF MutexInv
<1>4. m \in Nat /\ (k.lock # 1 => m > 0)
  <2>1. k.lock \in Nat
    BY ONLY <1>3 DEF MutexState, MutexTables, MutexKernel
  <2> QED
    BY ONLY <1>1, <1>2, <2>1
<1>5. r = [k EXCEPT !.lock = m]
  BY ONLY <1>2
<1>6. /\ MutexTables(r, pc, has) /\ Outranks(r) /\ CurKnown(r) /\ r.cur = k.cur /\ r.lock = m /\ r.list = k.list
      /\ (m > 0 => MutexCpu(r, pc))
  BY ONLY <1>3, <1>4, <1>5, MutexLocked
<1>7. CASE k.lock # 1
  <2>1. s = pc
    BY ONLY <1>1, <1>2, <1>7
  <2> QED
    BY ONLY <1>2, <1>4, <1>6, <1>7, <2>1 DEF MutexState
<1>8. CASE k.lock = 1
  <2>1. s = [pc EXCEPT ![t].at = "sched"] /\ m = 0
    BY ONLY <1>1, <1>2, <1>8
  <2>2. t \in k.list /\ t \in Task /\ Formed(pc[t]) /\ pc = [u \in Task |-> pc[u]]
    <3>1. t = k.cur
      BY ONLY <1>1, <1>2
    <3> QED
      BY ONLY <1>3, <3>1, MutexRunner
  <2>3. MutexTables(r, s, has) /\ s[t].at = "sched"
    <3>1. t \in r.list /\ pc[t].at \in InMutex \cup {"app", "sched"} /\ t # Idle
      BY ONLY <1>1, <1>6, <2>2
    <3>2. MutexTables(r, pc, has) /\ s = [pc EXCEPT ![t].at = "sched"]
      BY ONLY <1>6, <2>1
    <3>3. MutexTables(r, s, has)
      BY ONLY <3>1, <3>2, MutexGoes
    <3>4. s[t].at = "sched"
      BY ONLY <2>1, <2>2 DEF Formed
    <3> QED
      BY ONLY <3>3, <3>4
  <2>4. MutexCpu(r, s)
    BY ONLY <1>1, <1>2, <1>6, <2>1, <2>3 DEF MutexCpu
  <2> QED
    BY ONLY <1>2, <1>6, <2>3, <2>4 DEF MutexState
<1> QED
  BY ONLY <1>7, <1>8

LEMMA MutexReschedule ==
  ASSUME NEW t, MutexInv, Reschedule(t)
  PROVE  MutexState(os', pc', has)
<1>1. PICK k, r, s : k = os /\ r = os' /\ s = pc' /\ r = OS_Sched(k)
  BY DEF Reschedule
<1>2. /\ t = k.cur
      /\ \/ pc[t].at = "sched" /\ s = [pc EXCEPT ![t] = InApp]
         \/ pc[t].at = "block" /\ s = [pc EXCEPT ![t].at = "wake"]
  BY <1>1 DEF Reschedule, At, Return, Goto
<1>3. MutexState(k, pc, has)
  BY <1>1 DEF MutexInv
<1>4. /\ t \in k.list /\ t \in Task /\ Formed(pc[t]) /\ pc = [u \in Task |-> pc[u]] /\ MutexTables(k, pc, has) /\ t # Idle
  <2>1. t = k.cur
    BY ONLY <1>2
  <2>2. /\ t \in k.list /\ t \in Task /\ Formed(pc[t]) /\ pc = [u \in Task |-> pc[u]] /\ MutexTables(k, pc, has)
        /\ (pc[t].at # "app" => t # Idle)
    BY ONLY <1>3, <2>1, MutexRunner
  <2> QED
    BY ONLY <1>2, <2>2
<1>5. MutexMoved(k, pc, s) /\ (s[t].at = "app" \/ pc[t].at = "block")
  <2>1. s = [u \in Task |-> s[u]] /\ (\A u \in Task : u # t => s[u] = pc[u])
        /\ \/ pc[t].at = "sched" /\ s[t] = InApp
           \/ pc[t].at = "block" /\ s[t] = [pc[t] EXCEPT !.at = "wake"]
    BY ONLY <1>2, <1>4
  <2>2. Formed(s[t]) /\ \/ pc[t].at = "sched" /\ s[t].at = "app"
                        \/ /\ pc[t].at = "block" /\ s[t].at = "wake"
                           /\ s[t].ev = pc[t].ev /\ s[t].n = pc[t].n /\ s[t].svc = pc[t].svc
    BY ONLY <1>4, <2>1 DEF Formed, InApp
  <2> QED
    BY ONLY <1>4, <2>1, <2>2 DEF MutexMoved
<1>6. MutexTables(k, s, has)
  BY ONLY <1>4, <1>5, MutexMoves
<1>7. Outranks(k) /\ CurKnown(k) /\ MutexCpu(k, pc)
  BY ONLY <1>3 DEF MutexState, MutexCpu
<1>8. k.lock > 0 => k.tcb[k.cur].prio \in k.rdy /\ s[k.cur].at \notin {"mupend", "block", "wake"}
  <2>1. ~ (k.lock > 0 /\ k.lock = 0)
    OBVIOUS
  <2> QED
    BY ONLY <1>2, <1>5, <1>7, <2>1 DEF MutexCpu
<1>9. r = OS_Sched(k)
  BY ONLY <1>1
<1>10. MutexState(r, s, has)
  BY ONLY <1>6, <1>7, <1>8, <1>9, MutexScheds
<1> QED
  BY ONLY <1>1, <1>10

\* A call on a mutex has made its checks.
LEMMA MutexEnters ==
  ASSUME NEW k, NEW p, NEW H, MutexState(k, p, H), NEW t, t = k.cur, t # Idle, p[t].at = "app",
         NEW op \in InMutex, NEW e \in DOMAIN k.ev, k.ev[e].type = "mutex", NEW n \in Nat,
         op \in {"muaccept", "mupend"} => H[t] = {}, op = "mupend" => k.lock = 0,
         \A u \in Task : p[u].at # "mudel",
         op = "mudel" => /\ "mudel" \in App[k.app].ops /\ n \in {0, 1} /\ (k.ev[e].ptr # Null => n = 1)
                         /\ \A u \in Task : p[u].ev = e => p[u].at \in {"block", "wake"}
                         /\ k.ev[e].ptr \in Task => k.tcb[k.ev[e].ptr].prio \in k.rdy,
         NEW s, s = [p EXCEPT ![t] = [at |-> op, ev |-> e, n |-> n, svc |-> "mutex"]]
  PROVE  MutexState(k, s, H)
<1>1. /\ t \in k.list /\ t \in Task /\ Formed(p[t]) /\ p = [u \in Task |-> p[u]] /\ MutexTables(k, p, H) /\ MutexKernel(k)
      /\ (p[t].at \notin {"sched", "block"} => k.tcb[t].prio \in k.rdy /\ k.tcb[t].dly = 0 /\ k.tcb[t].stat = {})
  BY ONLY MutexState(k, p, H), t = k.cur, MutexRunner
<1>2. /\ MutexPc(k, p) /\ MutexStats(k, p) /\ MutexCalls(k, p) /\ MutexHas(k, p, H) /\ MutexWaits(k, p) /\ k.list \subseteq Task
      /\ MutexEcbs(k) /\ MutexPrios(k) /\ MutexCpu(k, p)
  BY MutexBasics DEF MutexState, MutexTables
<1>3. s = [u \in Task |-> s[u]] /\ (\A u \in Task : u # t => s[u] = p[u]) /\ s[t] = [at |-> op, ev |-> e, n |-> n, svc |-> "mutex"]
  BY ONLY <1>1, s = [p EXCEPT ![t] = [at |-> op, ev |-> e, n |-> n, svc |-> "mutex"]]
<1>4. s[t].at = op /\ s[t].ev = e /\ s[t].n = n /\ s[t].svc = "mutex" /\ Formed(s[t]) /\ op \in InMutex
  BY ONLY <1>3, op \in InMutex DEF Formed
<1>5. \A u \in Task : Blk(s, u) <=> Blk(p, u)
  BY ONLY <1>3, <1>4, p[t].at = "app" DEF Blk, InMutex
<1>6. \A u \in Task : Blk(s, u) => s[u] = p[u]
  BY ONLY <1>3, <1>4 DEF Blk, InMutex
<1>7. MutexPc(k, s)
  BY ONLY <1>1, <1>2, <1>3, <1>4, t # Idle, e \in DOMAIN k.ev, n \in Nat DEF MutexPc, Blk
<1>8. MutexStats(k, s)
  <2>1. k.tcb[t].dly = 0
    BY <1>1
  <2> QED
    BY ONLY <1>2, <1>3, <1>5, <2>1 DEF MutexStats
<1>9. MutexCalls(k, s)
  <2>1. \A u \in Task : s[u].at \in InMutex => k.ev[s[u].ev].type = "mutex"
    BY ONLY <1>2, <1>3, <1>4, k.ev[e].type = "mutex" DEF MutexCalls
  <2>2. ASSUME NEW u \in Task, s[u].at = "mudel"
        PROVE  u = t /\ op = "mudel"
    BY <1>3, <1>4, <2>2
  <2>3. ASSUME op = "mudel", NEW u \in Task, s[u].at \in InMutex PROVE u = t
    <3> SUFFICES ASSUME u # t PROVE FALSE
      OBVIOUS
    <3>1. p[u].at \in InMutex /\ s[u] = p[u]
      BY <1>3, <2>3
    <3>2. k.ev[p[u].ev].type = "mutex" /\ p[u].ev \in DOMAIN k.ev
      BY ONLY <1>2, <3>1 DEF MutexCalls, MutexPc
    <3>3. p[u].ev = e
      BY <1>2, <3>2 DEF MutexEcbs
    <3> QED
      BY <2>3, <3>1, <3>3 DEF InMutex
  <2>4. ASSUME op = "mudel", NEW u \in k.list, u = k.ev[e].ptr, u # t
        PROVE  /\ k.cur # u /\ k.tcb[u].prio \in k.rdy
               /\ k.tcb[t].prio < k.tcb[u].prio \/ (k.lock > 0 /\ k.cur = t)
    <3>1. k.tcb[u].prio \in k.rdy /\ u \in Task
      BY <1>2, <2>4
    <3>2. k.tcb[u].prio \in Prio /\ k.tcb[t].prio \in Prio /\ LowestPrio \in Nat /\ k.lock \in Nat
      BY ONLY <1>1, MutexBasics DEF MutexKernel
    <3>3. k.tcb[u].prio # k.tcb[t].prio
      BY ONLY <1>1, <1>2, <2>4, PriosApart
    <3>4. ASSUME k.lock = 0 PROVE k.tcb[t].prio < k.tcb[u].prio
      <4>1. k.prioCur = k.tcb[t].prio
        <5> SUFFICES ASSUME k.prioCur # k.tcb[t].prio PROVE FALSE
          OBVIOUS
        <5>1. k.ev[e].ptr \in {Null, k.cur}
          BY <1>2, <3>4 DEF MutexCpu
        <5> QED
          BY <2>4, <3>1, <5>1, CoreAssumption
      <4>2. k.prioCur <= k.tcb[u].prio
        BY <1>2, <3>1, <3>4, <4>1 DEF MutexCpu
      <4> QED
        BY ONLY <3>2, <3>3, <4>1, <4>2 DEF Prio
    <3> QED
      BY <2>4, <3>1, <3>2, <3>4
  <2> QED
    BY <1>4, <2>1, <2>2, <2>3, <2>4 DEF MutexCalls
<1>10. MutexHas(k, s, H)
  <2>1. \A f \in DOMAIN k.ev, u \in Task : Told(k, s, H, u, f) <=> Told(k, p, H, u, f)
    BY ONLY <1>5, <1>6 DEF Told
  <2>2. \A u \in Task : s[u].at \in {"muaccept", "mupend"} \/ Blk(s, u) => H[u] = {}
    BY <1>2, <1>3, <1>4, <1>5 DEF MutexHas
  <2> QED
    BY ONLY <1>2, <2>1, <2>2 DEF MutexHas
<1>11. MutexWaits(k, s)
  BY ONLY <1>2, <1>5, <1>6 DEF MutexWaits
<1>12. MutexCpu(k, s)
  BY <1>2, <1>4 DEF MutexCpu, InMutex
<1> QED
  BY <1>2, <1>7, <1>8, <1>9, <1>10, <1>11, <1>12 DEF MutexState, MutexTables

LEMMA MutexEntry ==
  ASSUME MutexInv, NEW t, NEW e \in DOMAIN os.ev, MutexCall(t, e)
  PROVE  MutexState(os', pc', has)
<1>1. PICK k, s : k = os /\ s = pc' /\ os' = k
  BY DEF MutexCall, Enter, Blocks
<1>2. MutexState(k, pc, has) /\ e \in DOMAIN k.ev
  BY <1>1 DEF MutexInv
<1>3. t = k.cur /\ t # Idle /\ pc[t].at = "app" /\ k.ev[e].type = "mutex" /\ \A u \in Task : pc[u].at # "mudel"
  BY <1>1 DEF MutexCall, Enter, Blocks, Calls, At
<1>4. MaxDly \in Nat
  BY ONLY <1>1, <1>2, AppAssumption DEF MaxDly, MutexState, MutexTables, MutexKernel
<1>5. PICK op \in InMutex, n \in Nat :
        /\ op \in {"muaccept", "mupend"} => has[t] = {}
        /\ op = "mupend" => k.lock = 0
        /\ op = "mudel" => /\ "mudel" \in App[k.app].ops /\ n \in {0, 1} /\ (k.ev[e].ptr # Null => n = 1)
                           /\ \A u \in Task : pc[u].ev = e => pc[u].at \in {"block", "wake"}
                           /\ k.ev[e].ptr \in Task => k.tcb[k.ev[e].ptr].prio \in k.rdy
        /\ s = [pc EXCEPT ![t] = [at |-> op, ev |-> e, n |-> n, svc |-> "mutex"]]
  <2>1. CASE has[t] = {} /\ Enter(t, "muaccept", "mutex", e, 0)
    <3>1. s = [pc EXCEPT ![t] = [at |-> "muaccept", ev |-> e, n |-> 0, svc |-> "mutex"]] /\ has[t] = {}
      BY ONLY <1>1, <2>1 DEF Enter, Starts
    <3>2. "muaccept" \in InMutex /\ 0 \in Nat
      BY DEF InMutex
    <3> QED
      BY ONLY <3>1, <3>2
  <2>2. CASE has[t] = {} /\ \E m \in 0 .. MaxDly : Blocks(t, "mupend", "mutex", e, m)
    <3>1. PICK m \in 0 .. MaxDly : Blocks(t, "mupend", "mutex", e, m)
      BY ONLY <2>2
    <3>2. s = [pc EXCEPT ![t] = [at |-> "mupend", ev |-> e, n |-> m, svc |-> "mutex"]] /\ has[t] = {} /\ k.lock = 0
      BY ONLY <1>1, <2>2, <3>1 DEF Blocks, Enter, Starts
    <3>3. "mupend" \in InMutex /\ m \in Nat
      BY ONLY <1>4, <3>1 DEF InMutex
    <3> QED
      BY ONLY <3>2, <3>3
  <2>3. CASE Enter(t, "mupost", "mutex", e, 0)
    <3>1. s = [pc EXCEPT ![t] = [at |-> "mupost", ev |-> e, n |-> 0, svc |-> "mutex"]]
      BY ONLY <1>1, <2>3 DEF Enter, Starts
    <3>2. "mupost" \in InMutex /\ 0 \in Nat
      BY DEF InMutex
    <3> QED
      BY ONLY <3>1, <3>2
  <2>4. CASE Idling(e) /\ os.ev[e].ptr = Null /\ Enter(t, "mudel", "mutex", e, 0)
    <3>1. /\ s = [pc EXCEPT ![t] = [at |-> "mudel", ev |-> e, n |-> 0, svc |-> "mutex"]] /\ k.ev[e].ptr = Null
          /\ "mudel" \in App[k.app].ops /\ \A u \in Task : pc[u].ev = e => pc[u].at \in {"block", "wake"}
      BY ONLY <1>1, <2>4 DEF Enter, Starts, Calls, Ops, Idling
    <3>2. "mudel" \in InMutex /\ 0 \in Nat /\ Null \notin Task
      BY ONLY CoreAssumption DEF InMutex
    <3> QED
      BY ONLY <3>1, <3>2
  <2>5. CASE Idling(e) /\ (os.ev[e].ptr \in Task => IsReady(os.ev[e].ptr)) /\ Enter(t, "mudel", "mutex", e, 1)
    <3>1. /\ s = [pc EXCEPT ![t] = [at |-> "mudel", ev |-> e, n |-> 1, svc |-> "mutex"]]
          /\ (k.ev[e].ptr \in Task => k.tcb[k.ev[e].ptr].prio \in k.rdy)
          /\ "mudel" \in App[k.app].ops /\ \A u \in Task : pc[u].ev = e => pc[u].at \in {"block", "wake"}
      BY ONLY <1>1, <2>5 DEF Enter, Starts, Calls, Ops, Idling, IsReady
    <3>2. "mudel" \in InMutex /\ 1 \in Nat
      BY DEF InMutex
    <3> QED
      BY ONLY <3>1, <3>2
  <2> QED
    BY <2>1, <2>2, <2>3, <2>4, <2>5 DEF MutexCall
<1>6. MutexState(k, s, has)
  <2>1. /\ op \in {"muaccept", "mupend"} => has[t] = {}
        /\ op = "mupend" => k.lock = 0
        /\ op = "mudel" => /\ "mudel" \in App[k.app].ops /\ n \in {0, 1} /\ (k.ev[e].ptr # Null => n = 1)
                           /\ \A u \in Task : pc[u].ev = e => pc[u].at \in {"block", "wake"}
                           /\ k.ev[e].ptr \in Task => k.tcb[k.ev[e].ptr].prio \in k.rdy
        /\ s = [pc EXCEPT ![t] = [at |-> op, ev |-> e, n |-> n, svc |-> "mutex"]]
    BY ONLY <1>5
  <2> QED
    BY ONLY <1>2, <1>3, <2>1, op \in InMutex, n \in Nat, MutexEnters
<1> QED
  BY ONLY <1>1, <1>6
-----------------------------------------------------------------------------
LEMMA CountParts ==
  ASSUME NEW a \in Nat, NEW b \in Nat, b < 256
  PROVE  (256 * a + b) \div 256 = a /\ (256 * a + b) % 256 = b
OBVIOUS

\* What OSEventCnt of a mutex holds.
LEMMA MutexCount ==
  ASSUME NEW k, NEW p, NEW H, MutexTables(k, p, H), NEW e \in DOMAIN k.ev, k.ev[e].type = "mutex"
  PROVE  /\ PipOf(k, e) = Pip
         /\ k.ev[e].ptr = Null => OwnPrio(k, e) = MutexAvailable /\ k.ev[e].wait = {}
         /\ k.ev[e].ptr # Null => /\ k.ev[e].ptr \in k.list /\ k.ev[e].ptr # Idle /\ OwnPrio(k, e) = Own(k, k.ev[e].ptr)
                                  /\ OwnPrio(k, e) # MutexAvailable
<1>1. MutexKernel(k) /\ MutexEcbs(k)
  BY DEF MutexTables
<1>2. /\ Pip \in Prio /\ LowestPrio \in Nat /\ LowestPrio < 255
      /\ \A t \in k.list : Own(k, t) \in Prio
  BY ONLY <1>1, MutexBasics
<1>3. Pip \in Nat /\ \A t \in k.list : Own(k, t) \in Nat /\ Own(k, t) < 255
  BY ONLY <1>2 DEF Prio
<1>4. /\ k.ev[e].ptr = Null => k.ev[e].wait = {}
      /\ k.ev[e].ptr # Null => k.ev[e].ptr \in k.list /\ k.ev[e].ptr # Idle
      /\ k.ev[e].cnt = 256 * Pip + IF k.ev[e].ptr = Null THEN MutexAvailable ELSE Own(k, k.ev[e].ptr)
  BY <1>1 DEF MutexEcbs
<1>5. PICK b : b = IF k.ev[e].ptr = Null THEN MutexAvailable ELSE Own(k, k.ev[e].ptr)
  OBVIOUS
<1>6. b \in Nat /\ b < 256 /\ (k.ev[e].ptr # Null => b # 255)
  BY ONLY <1>3, <1>4, <1>5 DEF MutexAvailable
<1>7. k.ev[e].cnt = 256 * Pip + b
  BY ONLY <1>4, <1>5
<1>8. PipOf(k, e) = Pip /\ OwnPrio(k, e) = b
  <2>1. (256 * Pip + b) \div 256 = Pip /\ (256 * Pip + b) % 256 = b
    BY ONLY <1>3, <1>6, CountParts
  <2> QED
    BY ONLY <1>7, <2>1 DEF PipOf, OwnPrio
<1> QED
  BY ONLY <1>4, <1>5, <1>6, <1>8 DEF MutexAvailable

\* The task that runs, in a service.
LEMMA MutexServed ==
  ASSUME NEW k, NEW p, NEW H, MutexState(k, p, H), NEW t, t = k.cur, p[t].at \in InMutex, NEW e, e = p[t].ev
  PROVE  /\ t \in k.list /\ t \in Task /\ t # Idle /\ Formed(p[t]) /\ p = [u \in Task |-> p[u]] /\ MutexTables(k, p, H)
         /\ MutexKernel(k) /\ Shape(k) /\ k.tcb[t] \in MutexTcb /\ TcbRecord(k.tcb[t]) /\ Outranks(k) /\ MutexCpu(k, p)
         /\ k.tcb[t].prio \in k.rdy /\ k.tcb[t].dly = 0 /\ k.tcb[t].stat = {} /\ k.tcb[t].pend = "ok" /\ k.tcb[t].ev = Null
         /\ e \in DOMAIN k.ev /\ k.ev[e].type = "mutex" /\ EcbRecord(k.ev[e]) /\ k.ev[e] \in MutexEcb
         /\ \A f \in DOMAIN k.ev : f # e => k.ev[f].type # "mutex" /\ k.ev[f].ptr = Null /\ k.ev[f].wait = {}
         /\ p[t].at # "mudel" => \A u \in Task : p[u].at # "mudel"
<1>1. ~ Blk(p, t) /\ p[t].at \notin {"sched", "block"} /\ p[t].at # "app"
  BY DEF Blk, InMutex
<1>2. /\ t \in k.list /\ t \in Task /\ Formed(p[t]) /\ p = [u \in Task |-> p[u]] /\ MutexTables(k, p, H)
      /\ MutexKernel(k) /\ Shape(k) /\ k.tcb[t] \in MutexTcb /\ TcbRecord(k.tcb[t])
      /\ (p[t].at \notin {"sched", "block"} => k.tcb[t].prio \in k.rdy /\ k.tcb[t].dly = 0 /\ k.tcb[t].stat = {})
      /\ (p[t].at # "app" => t # Idle) /\ (~ Blk(p, t) => k.tcb[t].pend = "ok" /\ k.tcb[t].ev = Null)
  BY ONLY MutexState(k, p, H), t = k.cur, MutexRunner
<1>3. MutexPc(k, p) /\ MutexCalls(k, p) /\ MutexEcbs(k) /\ Outranks(k) /\ MutexCpu(k, p)
  BY <1>2 DEF MutexState, MutexTables
<1>4. e \in DOMAIN k.ev /\ k.ev[e].type = "mutex"
  BY <1>2, <1>3 DEF MutexPc, MutexCalls
<1>5. EcbRecord(k.ev[e]) /\ k.ev[e] \in MutexEcb
  BY ONLY <1>2, <1>4, MutexBasics
<1>6. \A f \in DOMAIN k.ev : f # e => k.ev[f].type # "mutex" /\ k.ev[f].ptr = Null /\ k.ev[f].wait = {}
  BY ONLY <1>3, <1>4 DEF MutexEcbs
<1>7. p[t].at # "mudel" => \A u \in Task : p[u].at # "mudel"
  BY ONLY <1>2, <1>3, p[t].at \in InMutex DEF MutexCalls
<1> QED
  BY ONLY <1>1, <1>2, <1>3, <1>4, <1>5, <1>6, <1>7

\* A service that does nothing returns.
LEMMA MutexReturns ==
  ASSUME NEW k, NEW p, NEW H, MutexState(k, p, H), NEW t, t = k.cur, p[t].at \in InMutex,
         NEW s, s = [p EXCEPT ![t] = InApp]
  PROVE  MutexState(k, s, H)
<1>1. t \in k.list /\ t \in Task /\ t # Idle /\ p = [u \in Task |-> p[u]] /\ MutexTables(k, p, H) /\ Outranks(k) /\ MutexCpu(k, p)
  BY MutexServed
<1>2. MutexTables(k, s, H)
  <2>1. t \in k.list /\ t # Idle /\ p[t].at \in InMutex \cup {"app", "sched"}
    BY <1>1
  <2>2. MutexTables(k, p, H)
    BY ONLY <1>1
  <2> QED
    BY ONLY <2>1, <2>2, s = [p EXCEPT ![t] = InApp], MutexGoes
<1>3. s[t].at = "app"
  BY ONLY <1>1, s = [p EXCEPT ![t] = InApp] DEF InApp
<1>4. MutexCpu(k, s)
  BY ONLY <1>1, <1>3, t = k.cur, p[t].at \in InMutex DEF MutexCpu, InMutex
<1> QED
  BY ONLY <1>1, <1>2, <1>4 DEF MutexState

\* The mutex is given to a task, or to none.
OwnedBy(k, e, t, x, r) ==
  /\ Shape(r) /\ r.tcb = k.tcb /\ r.rdy = k.rdy /\ r.app = k.app /\ r.tbl = k.tbl /\ r.list = k.list /\ r.evfree = k.evfree
  /\ r.cur = k.cur /\ r.prioCur = k.prioCur /\ r.lock = k.lock
  /\ r.ev = [f \in DOMAIN k.ev |-> r.ev[f]] /\ (\A f \in DOMAIN k.ev : f # e => r.ev[f] = k.ev[f])
  /\ EcbRecord(r.ev[e]) /\ r.ev[e].type = k.ev[e].type /\ r.ev[e].cnt = 256 * PipOf(k, e) + x /\ r.ev[e].ptr = t
  /\ r.ev[e].wait = k.ev[e].wait
LEMMA MutexOwned ==
  ASSUME NEW k, Shape(k), k.ev = [f \in DOMAIN k.ev |-> k.ev[f]], NEW e \in DOMAIN k.ev, EcbRecord(k.ev[e]),
         NEW t, NEW x, NEW r, r = Owned(k, e, t, x)
  PROVE  OwnedBy(k, e, t, x, r)
<1>1. PICK c, n, c1 : c = k.ev[e] /\ EcbRecord(c) /\ n = 256 * PipOf(k, e) + x /\ c1 = [c EXCEPT !.cnt = n]
  OBVIOUS
<1>2. EcbRecord(c1) /\ c1.type = c.type /\ c1.cnt = n /\ c1.wait = c.wait
  BY ONLY <1>1 DEF EcbRecord
<1>3a. PICK c2 : c2 = [c1 EXCEPT !.ptr = t]
  OBVIOUS
<1>3. EcbRecord(c2) /\ c2.type = c.type /\ c2.cnt = n /\ c2.wait = c.wait /\ c2.ptr = t
  BY ONLY <1>2, <1>3a DEF EcbRecord
<1>4. PICK k1 : k1 = [k EXCEPT !.ev[e].cnt = n] /\ r = [k1 EXCEPT !.ev[e].ptr = t]
  BY <1>1 DEF Owned
<1>5. PICK v1, v2 : v1 = [k.ev EXCEPT ![e] = c1] /\ v2 = [v1 EXCEPT ![e] = c2]
  OBVIOUS
<1>6. DOMAIN v1 = DOMAIN k.ev /\ v1[e] = c1 /\ v1 = [f \in DOMAIN k.ev |-> v1[f]] /\ \A f \in DOMAIN k.ev : f # e => v1[f] = k.ev[f]
  BY ONLY <1>5, k.ev = [f \in DOMAIN k.ev |-> k.ev[f]], e \in DOMAIN k.ev
<1>7. v2 = [f \in DOMAIN k.ev |-> v2[f]] /\ v2[e] = c2 /\ \A f \in DOMAIN k.ev : f # e => v2[f] = k.ev[f]
  BY ONLY <1>5, <1>6, e \in DOMAIN k.ev
<1>8. k1 = [k EXCEPT !.ev = v1]
  BY ONLY <1>1, <1>4, <1>5, Shape(k) DEF Shape
<1>9. /\ Shape(k1) /\ k1.tcb = k.tcb /\ k1.rdy = k.rdy /\ k1.app = k.app /\ k1.tbl = k.tbl /\ k1.list = k.list /\ k1.evfree = k.evfree
      /\ k1.ev = v1 /\ k1.cur = k.cur /\ k1.prioCur = k.prioCur /\ k1.lock = k.lock /\ k1.free = k.free
  BY ONLY <1>8, Shape(k) DEF Shape
<1>10. r = [k1 EXCEPT !.ev = v2]
  <2>1. c1 = k1.ev[e] /\ v2 = [k1.ev EXCEPT ![e] = c2]
    BY ONLY <1>5, <1>6, <1>9
  <2>2. Shape(k1) /\ r = [k1 EXCEPT !.ev[e].ptr = t]
    BY ONLY <1>4, <1>9
  <2> QED
    BY ONLY <1>3a, <2>1, <2>2 DEF Shape
<1>11. /\ Shape(r) /\ r.tcb = k1.tcb /\ r.rdy = k1.rdy /\ r.app = k1.app /\ r.tbl = k1.tbl /\ r.list = k1.list /\ r.evfree = k1.evfree
       /\ r.ev = v2 /\ r.cur = k1.cur /\ r.prioCur = k1.prioCur /\ r.lock = k1.lock
  BY ONLY <1>9, <1>10 DEF Shape
<1> QED
  BY ONLY <1>1, <1>3, <1>7, <1>9, <1>11 DEF OwnedBy

\* The mutex is there: the caller gets it.
LEMMA MutexTake ==
  ASSUME NEW k, NEW p, NEW H, MutexState(k, p, H), NEW t, t = k.cur, p[t].at \in {"muaccept", "mupend"}, NEW e, e = p[t].ev,
         OwnPrio(k, e) = MutexAvailable, NEW r, r = Owned(k, e, t, k.tcb[t].prio),
         NEW s, s = [p EXCEPT ![t] = InApp], NEW G, G = [H EXCEPT ![t] = @ \cup {e}]
  PROVE  MutexState(r, s, G)
<1>0. p[t].at \in InMutex /\ p[t].at # "mudel"
  BY DEF InMutex
<1>1. /\ t \in k.list /\ t \in Task /\ t # Idle /\ Formed(p[t]) /\ p = [u \in Task |-> p[u]] /\ MutexTables(k, p, H)
      /\ MutexKernel(k) /\ Shape(k) /\ Outranks(k) /\ MutexCpu(k, p) /\ k.tcb[t].prio \in k.rdy
      /\ e \in DOMAIN k.ev /\ k.ev[e].type = "mutex" /\ EcbRecord(k.ev[e]) /\ k.ev[e] \in MutexEcb
      /\ \A f \in DOMAIN k.ev : f # e => k.ev[f].type # "mutex" /\ k.ev[f].ptr = Null /\ k.ev[f].wait = {}
      /\ \A u \in Task : p[u].at # "mudel"
  BY <1>0, MutexServed
<1>2. PipOf(k, e) = Pip /\ k.ev[e].ptr = Null /\ k.ev[e].wait = {}
  <2>1. MutexTables(k, p, H) /\ e \in DOMAIN k.ev /\ k.ev[e].type = "mutex"
    BY ONLY <1>1, Zenon
  <2> QED
    BY ONLY <2>1, OwnPrio(k, e) = MutexAvailable, MutexCount
<1>3. (\A f \in DOMAIN k.ev : k.ev[f].ptr # t) /\ k.tcb[t].prio = Own(k, t) /\ H[t] = {}
  <2>1. Blk(p, t) => Dozing(k.tcb[t])
    BY DEF Blk
  <2>2. MutexTables(k, p, H) /\ t \in k.list
    BY ONLY <1>1
  <2>3. Blk(p, t) \/ p[t].at \in {"muaccept", "mupend"}
    OBVIOUS
  <2> QED
    BY ONLY <2>1, <2>2, <2>3, WaiterOwnsNone
<1>4. OwnedBy(k, e, t, k.tcb[t].prio, r)
  <2>1. Shape(k) /\ k.ev = [f \in DOMAIN k.ev |-> k.ev[f]] /\ e \in DOMAIN k.ev /\ EcbRecord(k.ev[e])
    BY ONLY <1>1, MutexBasics, Zenon
  <2> QED
    BY ONLY <2>1, r = Owned(k, e, t, k.tcb[t].prio), MutexOwned
<1>5. /\ k.ev = [f \in DOMAIN k.ev |-> k.ev[f]] /\ Own(k, t) \in Nat /\ Pip \in Nat /\ Null \notin Task
      /\ k.ev \in [DOMAIN k.ev -> MutexEcb] /\ k.list \subseteq Task
  <2>1. k.ev = [f \in DOMAIN k.ev |-> k.ev[f]] /\ (\A f \in DOMAIN k.ev : k.ev[f] \in MutexEcb) /\ k.list \subseteq Task
    BY ONLY <1>1, MutexBasics, Zenon
  <2>2. Own(k, t) \in Prio /\ Pip \in Prio /\ Null \notin Task /\ LowestPrio \in Nat
    BY ONLY <1>1, MutexBasics, Zenon
  <2> QED
    BY ONLY <2>1, <2>2 DEF Prio
<1>6. PICK v : /\ v = r.ev /\ DOMAIN v = DOMAIN k.ev
               /\ v[e].type = "mutex" /\ v[e].cnt = 256 * Pip + Own(k, t) /\ v[e].ptr = t /\ v[e].wait = {}
               /\ (\A f \in DOMAIN k.ev : f # e => v[f] = k.ev[f])
  <2>1. DOMAIN r.ev = DOMAIN k.ev
    BY ONLY <1>4 DEF OwnedBy
  <2>2. /\ r.ev[e].type = k.ev[e].type /\ r.ev[e].cnt = 256 * PipOf(k, e) + k.tcb[t].prio /\ r.ev[e].ptr = t
        /\ r.ev[e].wait = k.ev[e].wait /\ (\A f \in DOMAIN k.ev : f # e => r.ev[f] = k.ev[f])
    BY ONLY <1>4, Zenon DEF OwnedBy
  <2> QED
    BY ONLY <1>1, <1>2, <1>3, <2>1, <2>2
<1>7. v \in [DOMAIN k.ev -> MutexEcb]
  <2>1. v[e] \in MutexEcb
    <3>1. PICK c : c = v[e] /\ EcbRecord(c)
      BY ONLY <1>4, <1>6, Zenon DEF OwnedBy
    <3>2. c.type = "mutex" /\ c.cnt \in Nat /\ c.ptr \in Task /\ c.wait = {}
      <4>1. 256 * Pip + Own(k, t) \in Nat
        BY ONLY <1>5
      <4> QED
        BY ONLY <1>1, <1>6, <3>1, <4>1
    <3>3. c \in MutexEcb
      BY ONLY <3>1, <3>2 DEF MutexEcb, EcbRecord
    <3> QED
      BY ONLY <3>1, <3>3
  <2>2. v = [f \in DOMAIN k.ev |-> v[f]]
    BY ONLY <1>4, <1>6, Zenon DEF OwnedBy
  <2>3. \A f \in DOMAIN k.ev : v[f] \in MutexEcb
    BY ONLY <1>5, <1>6, <2>1
  <2> QED
    BY ONLY <2>2, <2>3
<1>9. /\ Shape(r) /\ r.tcb = k.tcb /\ r.rdy = k.rdy /\ r.app = k.app /\ r.tbl = k.tbl /\ r.list = k.list /\ r.evfree = k.evfree
      /\ r.ev = v /\ r.cur = k.cur /\ r.prioCur = k.prioCur /\ r.lock = k.lock
  BY ONLY <1>4, <1>6 DEF OwnedBy
<1>10. /\ MutexTables(k, s, H) /\ s[t] = InApp /\ (\A u \in Task : u # t => s[u] = p[u]) /\ s = [u \in Task |-> s[u]]
  <2>1. t \in k.list /\ t # Idle /\ p[t].at \in InMutex \cup {"app", "sched"}
    BY ONLY <1>0, <1>1
  <2>2. MutexTables(k, p, H)
    BY ONLY <1>1
  <2>3. MutexTables(k, s, H)
    BY ONLY <2>1, <2>2, s = [p EXCEPT ![t] = InApp], MutexGoes
  <2> QED
    BY ONLY <1>1, <2>3, s = [p EXCEPT ![t] = InApp]
<1>11. /\ MutexPrios(k) /\ MutexEcbs(k) /\ MutexPc(k, s) /\ MutexStats(k, s) /\ MutexCalls(k, s) /\ MutexHas(k, s, H) /\ MutexWaits(k, s)
  BY ONLY <1>10 DEF MutexTables
<1>12. MutexKernel(r)
  <2>1. \A u \in k.list : ReadyAt(r, u) <=> ReadyAt(k, u)
    BY ONLY <1>9 DEF ReadyAt
  <2>2. DOMAIN k.ev = DOMAIN App[k.app].ev
    BY ONLY <1>1 DEF MutexKernel
  <2> QED
    BY ONLY <1>1, <1>7, <1>9, <2>1, <2>2 DEF MutexKernel
<1>13. MutexPrios(r)
  <2>1. \A u \in k.list : (\E f \in DOMAIN k.ev : k.ev[f].ptr = u) => \E f \in DOMAIN v : v[f].ptr = u
    BY ONLY <1>2, <1>5, <1>6
  <2>2. (\A f \in DOMAIN k.ev : k.ev[f].type # "mutex") <=> (\A f \in DOMAIN v : v[f].type # "mutex")
    BY ONLY <1>1, <1>6
  <2> QED
    BY ONLY <1>9, <1>11, <2>1, <2>2 DEF MutexPrios, Own
<1>14. MutexEcbs(r)
  BY ONLY <1>1, <1>5, <1>6, <1>9, <1>11 DEF MutexEcbs, Own
<1>15. MutexPc(r, s)
  BY ONLY <1>6, <1>9, <1>11 DEF MutexPc
<1>16. MutexStats(r, s)
  BY ONLY <1>9, <1>11 DEF MutexStats
<1>17. MutexCalls(r, s)
  <2>1. \A u \in Task : s[u].at # "mudel"
    BY ONLY <1>1, <1>10 DEF InApp
  <2>2. \A f \in DOMAIN k.ev : v[f].type = k.ev[f].type
    BY ONLY <1>1, <1>6
  <2>3. \A u \in Task : s[u].at \in InMutex => s[u].ev \in DOMAIN k.ev
    BY ONLY <1>11 DEF MutexPc
  <2> QED
    BY ONLY <1>9, <1>11, <2>1, <2>2, <2>3 DEF MutexCalls
<1>18. MutexHas(r, s, G)
  <2>1. G = [u \in Task |-> G[u]] /\ G[t] = {e} /\ \A u \in Task : u # t => G[u] = H[u]
    <3>1. H = [u \in Task |-> H[u]]
      BY ONLY <1>11 DEF MutexHas
    <3> QED
      BY ONLY <1>1, <1>3, <3>1, G = [H EXCEPT ![t] = @ \cup {e}]
  <2>2. \A u \in Task : s[u].at \in {"muaccept", "mupend"} \/ Blk(s, u) => G[u] = {}
    BY ONLY <1>10, <1>11, <2>1 DEF MutexHas, Blk, InApp
  <2>3. \A u \in Task, f \in DOMAIN k.ev : u # t => (Told(r, s, G, u, f) <=> Told(k, s, H, u, f))
    BY ONLY <1>9, <2>1 DEF Told
  <2>4. Told(r, s, G, t, e)
    BY ONLY <2>1 DEF Told
  <2>5. ASSUME NEW f \in DOMAIN v, NEW u \in Task
        PROVE  /\ v[f].ptr = u => Told(r, s, G, u, f)
               /\ v[f].type = "mutex" /\ Told(r, s, G, u, f) /\ "mudel" \notin App[k.app].ops => v[f].ptr = u
    <3>1. CASE f = e /\ u = t
      BY ONLY <1>6, <2>4, <3>1
    <3>2. CASE f = e /\ u # t
      <4>1. v[e].ptr # u /\ k.ev[e].ptr # u
        BY ONLY <1>2, <1>5, <1>6, <3>2, u \in Task
      <4>2. Told(k, s, H, u, e) /\ "mudel" \notin App[k.app].ops => k.ev[e].ptr = u
        BY ONLY <1>1, <1>11, Zenon DEF MutexHas
      <4>3. Told(r, s, G, u, e) <=> Told(k, s, H, u, e)
        BY ONLY <1>1, <2>3, <3>2, Zenon
      <4> QED
        BY ONLY <3>2, <4>1, <4>2, <4>3
    <3>3. CASE f # e
      BY ONLY <1>1, <1>5, <1>6, <2>5, <3>3
    <3> QED
      BY ONLY <3>1, <3>2, <3>3
  <2> QED
    BY ONLY <1>9, <2>1, <2>2, <2>5 DEF MutexHas
<1>19. MutexWaits(r, s)
  <2>1. \A f \in DOMAIN k.ev : v[f].wait = k.ev[f].wait
    BY ONLY <1>2, <1>6, Zenon
  <2> QED
    BY ONLY <1>6, <1>9, <1>11, <2>1 DEF MutexWaits
<1>20. Outranks(r)
  BY ONLY <1>1, <1>6, <1>9 DEF Outranks
<1>21. MutexCpu(r, s)
  <2>1. s[t].at = "app"
    BY ONLY <1>10 DEF InApp
  <2>2. CurKnown(r)
    BY ONLY <1>1, <1>9 DEF CurKnown, MutexCpu
  <2>3. \A f \in DOMAIN v : v[f].ptr \in {Null, k.cur}
    BY ONLY <1>1, <1>6, t = k.cur
  <2> QED
    BY ONLY <1>1, <1>9, <2>1, <2>2, <2>3, t = k.cur, p[t].at \in {"muaccept", "mupend"} DEF MutexCpu
<1> QED
  BY ONLY <1>12, <1>13, <1>14, <1>15, <1>16, <1>17, <1>18, <1>19, <1>20, <1>21 DEF MutexState, MutexTables
-----------------------------------------------------------------------------
LEMMA MutexAccepts ==
  ASSUME NEW t, MutexInv, OSMutexAccept(t)
  PROVE  MutexState(os', pc', has')
<1>1. PICK k, e, s : k = os /\ e = pc[t].ev /\ s = pc'
  OBVIOUS
<1>2. /\ t = k.cur /\ pc[t].at = "muaccept" /\ s = [pc EXCEPT ![t] = InApp]
      /\ IF OwnPrio(k, e) = MutexAvailable
         THEN os' = Owned(k, e, t, k.tcb[t].prio) /\ has' = [has EXCEPT ![t] = @ \cup {e}]
         ELSE os' = k /\ has' = has
  BY <1>1 DEF OSMutexAccept, At, Return, Has
<1>3. MutexState(k, pc, has)
  BY <1>1 DEF MutexInv
<1>4. CASE OwnPrio(k, e) = MutexAvailable
  <2>1. PICK r, G : r = os' /\ G = has'
    OBVIOUS
  <2>2. r = Owned(k, e, t, k.tcb[t].prio) /\ G = [has EXCEPT ![t] = @ \cup {e}] /\ t = k.cur /\ pc[t].at \in {"muaccept", "mupend"}
        /\ s = [pc EXCEPT ![t] = InApp] /\ e = pc[t].ev
    BY ONLY <1>1, <1>2, <1>4, <2>1
  <2>3. MutexState(r, s, G)
    BY ONLY <1>3, <1>4, <2>2, MutexTake
  <2> QED
    BY ONLY <1>1, <2>1, <2>3
<1>5. CASE OwnPrio(k, e) # MutexAvailable
  <2>1. pc[t].at \in InMutex /\ t = k.cur /\ s = [pc EXCEPT ![t] = InApp]
    BY ONLY <1>2 DEF InMutex
  <2>2. MutexState(k, s, has)
    BY ONLY <1>3, <2>1, MutexReturns
  <2> QED
    BY ONLY <1>1, <1>2, <1>5, <2>2
<1> QED
  BY ONLY <1>4, <1>5

\* The owner u of a mutex moves to priority x, the mutex's or its own.
Reprio(k, u, x, T, R, B) ==
  /\ T \in [Task -> MutexTcb] /\ (\A v \in Task : v # u => T[v] = k.tcb[v])
  /\ T[u].prio = x /\ T[u].stat = k.tcb[u].stat /\ T[u].pend = k.tcb[u].pend /\ T[u].dly = k.tcb[u].dly /\ T[u].ev = k.tcb[u].ev
  /\ R \subseteq Prio /\ (x \in R <=> k.tcb[u].prio \in k.rdy)
  /\ \A y \in Prio : y # x => (y \in R <=> y \in k.rdy /\ y # k.tcb[u].prio)
  /\ B \in [Prio -> Task \cup {Null, Reserved}] /\ (\A y \in Prio : y # Pip => B[y] = k.tbl[y])
  /\ B[Pip] = IF x = Pip THEN u ELSE Reserved
\* An owner does not wait, and nobody else has its priority or the mutex's.
LEMMA OwnerAlone ==
  ASSUME NEW k, NEW p, NEW H, MutexTables(k, p, H), NEW e \in DOMAIN k.ev, NEW u, u = k.ev[e].ptr, u # Null
  PROVE  /\ u \in k.list /\ u \in Task /\ u # Idle /\ k.ev[e].type = "mutex"
         /\ ~ (Blk(p, u) /\ Dozing(k.tcb[u]))
         /\ \A w \in k.list : w # u => k.tcb[w].prio = Own(k, w) /\ k.tcb[w].prio # Pip /\ k.tcb[w].prio # Own(k, u)
         /\ \A f \in DOMAIN k.ev : f # e => k.ev[f].ptr = Null /\ k.ev[f].type # "mutex"
<1>1. MutexKernel(k) /\ MutexPrios(k) /\ MutexEcbs(k) /\ MutexHas(k, p, H)
  BY DEF MutexTables
<1>2. /\ k.list \subseteq Task /\ Pip \in Prio /\ Null \notin Task
      /\ \A w \in k.list : Own(k, w) \in Prio /\ Pip < Own(k, w)
  BY ONLY <1>1, MutexBasics
<1>3. u \in k.list /\ u \in Task /\ u # Idle /\ k.ev[e].type = "mutex"
  BY <1>1, <1>2 DEF MutexEcbs
<1>4. \A f \in DOMAIN k.ev : f # e => k.ev[f].ptr = Null /\ k.ev[f].type # "mutex"
  BY ONLY <1>1, <1>3, e \in DOMAIN k.ev DEF MutexEcbs
<1>5. ~ (Blk(p, u) /\ Dozing(k.tcb[u]))
  <2>1. Told(k, p, H, u, e) /\ (Blk(p, u) => H[u] = {})
    BY <1>1, <1>3 DEF MutexHas
  <2> QED
    BY ONLY <2>1 DEF Told
<1>6. ASSUME NEW w \in k.list, w # u
      PROVE  k.tcb[w].prio = Own(k, w) /\ k.tcb[w].prio # Pip /\ k.tcb[w].prio # Own(k, u)
  <2>1. \A f \in DOMAIN k.ev : k.ev[f].ptr # w
    BY <1>2, <1>4, <1>6
  <2>2. k.tcb[w].prio = Own(k, w) /\ k.tbl[Own(k, w)] = w /\ k.tbl[Own(k, u)] = u
    BY ONLY <1>1, <1>3, <1>6, <2>1 DEF MutexPrios
  <2>3. Pip < Own(k, w) /\ Pip \in Nat /\ Own(k, w) \in Nat
    BY ONLY <1>2, <1>6, CoreAssumption DEF Prio
  <2> QED
    BY ONLY <1>6, <2>2, <2>3
<1> QED
  BY ONLY <1>3, <1>4, <1>5, <1>6

LEMMA MutexReprio ==
  ASSUME NEW k, NEW p, NEW H, MutexTables(k, p, H), \A v \in Task : p[v].at # "mudel",
         NEW e \in DOMAIN k.ev, NEW u, u = k.ev[e].ptr, u # Null, NEW x \in {Pip, Own(k, u)},
         NEW T, NEW R, NEW B, Reprio(k, u, x, T, R, B), NEW r, r = [k EXCEPT !.rdy = R, !.tcb = T, !.tbl = B]
  PROVE  MutexTables(r, p, H)
<1>1. /\ u \in k.list /\ u \in Task /\ u # Idle /\ k.ev[e].type = "mutex"
      /\ ~ (Blk(p, u) /\ Dozing(k.tcb[u]))
      /\ \A w \in k.list : w # u => k.tcb[w].prio = Own(k, w) /\ k.tcb[w].prio # Pip /\ k.tcb[w].prio # Own(k, u)
      /\ \A f \in DOMAIN k.ev : f # e => k.ev[f].ptr = Null /\ k.ev[f].type # "mutex"
  BY ONLY MutexTables(k, p, H), e \in DOMAIN k.ev, u = k.ev[e].ptr, u # Null, OwnerAlone
<1>2. /\ MutexKernel(k) /\ MutexPrios(k) /\ MutexEcbs(k) /\ MutexPc(k, p) /\ MutexStats(k, p)
      /\ MutexCalls(k, p) /\ MutexHas(k, p, H) /\ MutexWaits(k, p)
  BY ONLY MutexTables(k, p, H) DEF MutexTables
<1>3. /\ Shape(k) /\ k.list \subseteq Task /\ Idle \in k.list /\ Pip \in Prio /\ Null \notin Task
      /\ \A w \in k.list : Own(k, w) \in Prio /\ Pip < Own(k, w) /\ k.tcb[w].prio \in Prio
      /\ LowestPrio \in Nat
  BY ONLY <1>2, MutexBasics
<1>4. /\ Shape(r) /\ r.tcb = T /\ r.rdy = R /\ r.app = k.app /\ r.tbl = B /\ r.list = k.list /\ r.evfree = k.evfree
      /\ r.ev = k.ev /\ r.cur = k.cur /\ r.prioCur = k.prioCur /\ r.lock = k.lock
  BY ONLY <1>3, r = [k EXCEPT !.rdy = R, !.tcb = T, !.tbl = B] DEF Shape
<1>5. /\ T \in [Task -> MutexTcb] /\ (\A v \in Task : v # u => T[v] = k.tcb[v])
      /\ T[u].prio = x /\ T[u].stat = k.tcb[u].stat /\ T[u].pend = k.tcb[u].pend /\ T[u].dly = k.tcb[u].dly /\ T[u].ev = k.tcb[u].ev
      /\ R \subseteq Prio /\ (x \in R <=> k.tcb[u].prio \in k.rdy)
      /\ (\A y \in Prio : y # x => (y \in R <=> y \in k.rdy /\ y # k.tcb[u].prio))
      /\ B \in [Prio -> Task \cup {Null, Reserved}] /\ (\A y \in Prio : y # Pip => B[y] = k.tbl[y])
      /\ B[Pip] = (IF x = Pip THEN u ELSE Reserved)
  BY ONLY Reprio(k, u, x, T, R, B) DEF Reprio
<1>6. x \in Prio /\ (x = Pip \/ (x = Own(k, u) /\ x # Pip)) /\ \A w \in k.list : w # u => k.tcb[w].prio # x
  <2>1. Own(k, u) # Pip
    BY ONLY <1>1, <1>3 DEF Prio
  <2> QED
    BY ONLY <1>1, <1>3, <2>1, x \in {Pip, Own(k, u)}
<1>7. \A v \in Task : T[v].stat = k.tcb[v].stat /\ T[v].pend = k.tcb[v].pend /\ T[v].dly = k.tcb[v].dly /\ T[v].ev = k.tcb[v].ev
  BY ONLY <1>5
<1>8. \A w \in k.list : w # u => T[w] = k.tcb[w] /\ k.tcb[w].prio \in Prio /\ k.tcb[w].prio # k.tcb[u].prio
  BY ONLY <1>1, <1>2, <1>3, <1>5, PriosApart
<1>9. MutexKernel(r)
  <2>1. \A w \in k.list : ReadyAt(k, w)
    BY ONLY <1>2 DEF MutexKernel
  <2>2. ASSUME NEW w \in k.list PROVE ReadyAt(r, w)
    <3>1. CASE w = u
      BY ONLY <1>1, <1>4, <1>5, <2>1, <3>1 DEF ReadyAt
    <3>2. CASE w # u
      BY ONLY <1>4, <1>5, <1>6, <1>8, <2>1, <2>2, <3>2 DEF ReadyAt
    <3> QED
      BY ONLY <3>1, <3>2
  <2>3. ASSUME NEW y \in R PROVE \E w \in k.list : T[w].prio = y
    <3>1. CASE y = x
      BY ONLY <1>1, <1>5, <3>1
    <3>2. CASE y # x
      <4>1. y \in k.rdy /\ y # k.tcb[u].prio
        BY ONLY <1>5, <2>3, <3>2
      <4>2. PICK w \in k.list : k.tcb[w].prio = y
        BY ONLY <1>2, <4>1 DEF MutexKernel
      <4> QED
        BY ONLY <1>8, <4>1, <4>2
    <3> QED
      BY ONLY <3>1, <3>2
  <2>4. T[Idle] = k.tcb[Idle]
    BY ONLY <1>1, <1>3, <1>5
  <2> QED
    BY ONLY <1>2, <1>4, <1>5, <2>2, <2>3, <2>4 DEF MutexKernel
<1>10. MutexPrios(r)
  <2>1. ASSUME NEW w \in k.list
        PROVE  /\ B[Own(k, w)] = w
               /\ T[w].prio = Own(k, w) \/ T[w].prio = Pip
               /\ T[w].prio = Pip => B[Pip] = w /\ \E f \in DOMAIN k.ev : k.ev[f].ptr = w
    <3>1. Own(k, w) # Pip /\ Own(k, w) \in Prio
      BY ONLY <1>3, <2>1 DEF Prio
    <3>2. B[Own(k, w)] = w
      BY ONLY <1>2, <1>5, <2>1, <3>1 DEF MutexPrios
    <3>3. CASE w = u
      BY ONLY <1>5, <1>6, <3>2, <3>3, u = k.ev[e].ptr, e \in DOMAIN k.ev
    <3>4. CASE w # u
      BY ONLY <1>1, <1>8, <2>1, <3>2, <3>4
    <3> QED
      BY ONLY <3>3, <3>4
  <2>2. B[Pip] # Null
    BY ONLY <1>1, <1>5, CoreAssumption, Zenon
  <2>3. \A y \in Prio : B[y] \in Task => B[y] \in k.list
    <3>1. Reserved \notin Task
      BY ONLY CoreAssumption
    <3>2. \A y \in Prio : k.tbl[y] \in Task => k.tbl[y] \in k.list
      BY ONLY <1>2 DEF MutexPrios
    <3> QED
      BY ONLY <1>1, <1>5, <3>1, <3>2
  <2>4. \A w \in k.list : Own(r, w) = Own(k, w)
    BY ONLY <1>4 DEF Own
  <2> QED
    BY ONLY <1>1, <1>4, <2>1, <2>2, <2>3, <2>4, e \in DOMAIN k.ev DEF MutexPrios
<1>11. MutexEcbs(r) /\ MutexPc(r, p)
  BY ONLY <1>2, <1>4 DEF MutexEcbs, Own, MutexPc
<1>12. MutexStats(r, p)
  BY ONLY <1>2, <1>3, <1>4, <1>7 DEF MutexStats, Dozing
<1>13. MutexCalls(r, p)
  BY ONLY <1>2, <1>4, \A v \in Task : p[v].at # "mudel" DEF MutexCalls
<1>14. MutexHas(r, p, H)
  <2>1. \A f \in DOMAIN k.ev, v \in Task : Told(r, p, H, v, f) <=> Told(k, p, H, v, f)
    BY ONLY <1>4, <1>7 DEF Told, Dozing
  <2> QED
    BY ONLY <1>2, <1>4, <2>1 DEF MutexHas
<1>15. MutexWaits(r, p)
  <2>1. ASSUME NEW f \in DOMAIN k.ev, NEW y \in k.ev[f].wait
        PROVE  y # k.tcb[u].prio /\ y # x /\ \E w \in k.list : w # u /\ k.tcb[w].prio = y
    <3>1. k.tcb[u].prio \notin k.ev[f].wait
      BY ONLY <1>1, <1>2, <2>1 DEF MutexWaits
    <3>2. PICK w \in k.list : k.tcb[w].prio = y
      BY ONLY <1>2, <2>1 DEF MutexWaits
    <3>3. w # u
      BY ONLY <2>1, <3>1, <3>2
    <3> QED
      BY ONLY <1>6, <2>1, <3>1, <3>2, <3>3
  <2>2. ASSUME NEW f \in DOMAIN k.ev, NEW w \in k.list
        PROVE  T[w].prio \in k.ev[f].wait <=> Blk(p, w) /\ p[w].ev = f /\ Dozing(T[w])
    <3>1. CASE w = u
      BY ONLY <1>1, <1>5, <2>1, <3>1 DEF Dozing
    <3>2. CASE w # u
      BY ONLY <1>2, <1>8, <2>2, <3>2 DEF MutexWaits
    <3> QED
      BY ONLY <3>1, <3>2
  <2>3. ASSUME NEW f \in DOMAIN k.ev, NEW y \in k.ev[f].wait
        PROVE  \E w \in k.list : T[w].prio = y
    BY ONLY <1>8, <2>1, <2>3
  <2> QED
    BY ONLY <1>4, <2>2, <2>3 DEF MutexWaits
<1> QED
  BY ONLY <1>9, <1>10, <1>11, <1>12, <1>13, <1>14, <1>15 DEF MutexTables
-----------------------------------------------------------------------------
Reprioed(k, u, x, r) == \E T, R, B : Reprio(k, u, x, T, R, B) /\ r = [k EXCEPT !.rdy = R, !.tcb = T, !.tbl = B]
\* What OSMutexPend does to the owner.
LEMMA MutexPromotes ==
  ASSUME NEW k, NEW p, NEW H, MutexTables(k, p, H), NEW e \in DOMAIN k.ev, NEW u, u = k.ev[e].ptr, u # Null,
         k.tcb[u].prio # Pip, NEW r, r = Promote(k, u, Pip)
  PROVE  Reprioed(k, u, Pip, r)
<1>1. /\ u \in k.list /\ u \in Task /\ u # Idle /\ k.ev[e].type = "mutex"
      /\ ~ (Blk(p, u) /\ Dozing(k.tcb[u]))
      /\ \A w \in k.list : w # u => k.tcb[w].prio = Own(k, w) /\ k.tcb[w].prio # Pip /\ k.tcb[w].prio # Own(k, u)
  BY ONLY MutexTables(k, p, H), e \in DOMAIN k.ev, u = k.ev[e].ptr, u # Null, OwnerAlone
<1>2. MutexKernel(k) /\ MutexStats(k, p) /\ Shape(k)
  BY ONLY MutexTables(k, p, H) DEF MutexTables, MutexKernel
<1>3. PICK c : c = k.tcb[u] /\ c \in MutexTcb /\ TcbRecord(c) /\ c.prio \in Prio /\ Pip \in Prio
  <2>1. MutexKernel(k)
    BY ONLY <1>2
  <2>2. k.tcb[u] \in MutexTcb /\ TcbRecord(k.tcb[u]) /\ k.tcb[u].prio \in Prio /\ Pip \in Prio
    BY ONLY <1>1, <2>1, MutexBasics
  <2> QED
    BY ONLY <2>2
<1>4. c.prio \notin k.rdy => c.ev = Null
  <2> SUFFICES ASSUME c.prio \notin k.rdy, c.ev # Null PROVE FALSE
    OBVIOUS
  <2>1. Blk(p, u) /\ ~ Dozing(c)
    BY ONLY <1>1, <1>2, <1>3, c.ev # Null DEF MutexStats
  <2>2. c.stat = {}
    BY ONLY <1>3, <2>1 DEF MutexTcb, Dozing
  <2>3. c.dly = 0
    BY ONLY <1>1, <1>2, <1>3, <2>1, <2>2 DEF MutexStats
  <2>4. ReadyAt(k, u)
    BY ONLY <1>1, <1>2 DEF MutexKernel
  <2> QED
    BY ONLY <1>3, <2>2, <2>3, <2>4, c.prio \notin k.rdy DEF ReadyAt
<1>5. PICK R : R = IF c.prio \in k.rdy THEN (k.rdy \ {c.prio}) \cup {Pip} ELSE k.rdy
  OBVIOUS
<1>6. PICK d, T, B : d = [c EXCEPT !.prio = Pip] /\ T = [k.tcb EXCEPT ![u] = d] /\ B = [k.tbl EXCEPT ![Pip] = u]
  OBVIOUS
<1>7. r = [k EXCEPT !.rdy = R, !.tcb = T, !.tbl = B]
  <2>1. PICK k1 : /\ k1 = IF c.prio \in k.rdy THEN [k EXCEPT !.rdy = (@ \ {c.prio}) \cup {Pip}] ELSE k
                  /\ r = [k1 EXCEPT !.tcb[u].prio = Pip, !.tbl[Pip] = u]
    BY <1>3, <1>4, Zenon DEF Promote
  <2>2. k1 = [k EXCEPT !.rdy = R]
    BY ONLY <1>2, <1>5, <2>1 DEF Shape
  <2>3. Shape(k1) /\ k1.tcb = k.tcb /\ k1.tbl = k.tbl
    BY ONLY <1>2, <2>2 DEF Shape
  <2>4. r = [k1 EXCEPT !.tcb = T, !.tbl = B]
    BY ONLY <1>3, <1>6, <2>1, <2>3 DEF Shape
  <2> QED
    BY ONLY <1>2, <2>2, <2>3, <2>4 DEF Shape
<1>8. k.tcb \in [Task -> MutexTcb] /\ k.rdy \subseteq Prio /\ k.tbl \in [Prio -> Task \cup {Null, Reserved}]
  BY ONLY <1>2 DEF MutexKernel
<1>9. d \in MutexTcb /\ d.prio = Pip /\ d.stat = c.stat /\ d.pend = c.pend /\ d.dly = c.dly /\ d.ev = c.ev
  BY ONLY <1>3, <1>6 DEF MutexTcb
<1>10. T \in [Task -> MutexTcb] /\ T[u] = d /\ \A v \in Task : v # u => T[v] = k.tcb[v]
  BY ONLY <1>1, <1>6, <1>8, <1>9
<1>11. Pip \notin k.rdy
  BY <1>1, <1>2 DEF MutexKernel
<1>12. R \subseteq Prio /\ (Pip \in R <=> c.prio \in k.rdy) /\ \A y \in Prio : y # Pip => (y \in R <=> y \in k.rdy /\ y # c.prio)
  BY ONLY <1>3, <1>5, <1>8, <1>11
<1>13. B \in [Prio -> Task \cup {Null, Reserved}] /\ (\A y \in Prio : y # Pip => B[y] = k.tbl[y]) /\ B[Pip] = u
  BY ONLY <1>1, <1>3, <1>6, <1>8
<1>14. Reprio(k, u, Pip, T, R, B)
  BY ONLY <1>3, <1>9, <1>10, <1>12, <1>13 DEF Reprio
<1> QED
  BY ONLY <1>7, <1>14, Zenon DEF Reprioed

\* What OSMutexPost and OSMutexDel do to it.
LEMMA MutexDemotes ==
  ASSUME NEW k, NEW p, NEW H, MutexTables(k, p, H), NEW e \in DOMAIN k.ev, NEW u, u = k.ev[e].ptr, u # Null,
         k.tcb[u].prio \in k.rdy, NEW r, NEW q0,
         q0 = IF k.tcb[u].prio = Pip THEN OSMutex_RdyAtPrio(k, u, Own(k, u)) ELSE k, r = [q0 EXCEPT !.tbl[Pip] = Reserved]
  PROVE  Reprioed(k, u, Own(k, u), r)
<1>1. /\ u \in k.list /\ u \in Task /\ u # Idle /\ k.ev[e].type = "mutex"
      /\ \A w \in k.list : w # u => k.tcb[w].prio = Own(k, w) /\ k.tcb[w].prio # Pip /\ k.tcb[w].prio # Own(k, u)
  BY ONLY MutexTables(k, p, H), e \in DOMAIN k.ev, u = k.ev[e].ptr, u # Null, OwnerAlone
<1>2. MutexKernel(k) /\ MutexPrios(k) /\ Shape(k)
  BY ONLY MutexTables(k, p, H) DEF MutexTables, MutexKernel
<1>3. PICK c, o : /\ c = k.tcb[u] /\ c \in MutexTcb /\ TcbRecord(c) /\ c.prio \in Prio /\ Pip \in Prio
                  /\ o = Own(k, u) /\ o \in Prio /\ Pip < o
  <2>1. MutexKernel(k)
    BY ONLY <1>2, Zenon
  <2>2. /\ k.tcb[u] \in MutexTcb /\ TcbRecord(k.tcb[u]) /\ k.tcb[u].prio \in Prio /\ Pip \in Prio
        /\ Own(k, u) \in Prio /\ Pip < Own(k, u)
    BY ONLY <1>1, <2>1, MutexBasics
  <2> QED
    BY ONLY <2>2
<1>4. (c.prio = o \/ c.prio = Pip) /\ k.tbl[o] = u /\ o # Pip
  <2>1. Pip \in Nat
    <3>1. LowestPrio \in Nat
      BY ONLY CoreAssumption, Zenon
    <3> QED
      BY ONLY <1>3, <3>1 DEF Prio
  <2> QED
    BY ONLY <1>1, <1>2, <1>3, <2>1 DEF MutexPrios
<1>5. PICK d, T, R, B : /\ d = [c EXCEPT !.prio = o] /\ T = [k.tcb EXCEPT ![u] = d] /\ B = [k.tbl EXCEPT ![Pip] = Reserved]
                        /\ R = (k.rdy \ {c.prio}) \cup {o}
  BY ONLY Zenon
<1>6. k.tcb \in [Task -> MutexTcb] /\ k.rdy \subseteq Prio /\ k.tbl \in [Prio -> Task \cup {Null, Reserved}]
  BY ONLY <1>2, Zenon DEF MutexKernel
<1>7. r = [k EXCEPT !.rdy = R, !.tcb = T, !.tbl = B]
  <2>1. CASE c.prio = Pip
    <3>1. q0 = [k EXCEPT !.rdy = (@ \ {c.prio}) \cup {o}, !.tcb[u].prio = o, !.tbl[o] = u]
      BY <1>3, <2>1 DEF OSMutex_RdyAtPrio
    <3>2. [k.tbl EXCEPT ![o] = u] = k.tbl
      BY ONLY <1>3, <1>4, <1>6
    <3>3. q0 = [k EXCEPT !.rdy = R, !.tcb = T]
      BY ONLY <1>2, <1>3, <1>5, <3>1, <3>2 DEF Shape
    <3>4. Shape(q0) /\ q0.tbl = k.tbl
      BY ONLY <1>2, <3>3 DEF Shape
    <3>5. r = [q0 EXCEPT !.tbl = B]
      BY ONLY <1>5, <3>4, r = [q0 EXCEPT !.tbl[Pip] = Reserved] DEF Shape
    <3> QED
      BY ONLY <1>2, <3>3, <3>4, <3>5 DEF Shape
  <2>2. CASE c.prio = o
    <3>1. q0 = k
      BY <1>3, <1>4, <2>2
    <3>2. r = [k EXCEPT !.tbl = B]
      BY ONLY <1>2, <1>5, <3>1, r = [q0 EXCEPT !.tbl[Pip] = Reserved] DEF Shape
    <3>3. R = k.rdy
      BY <1>3, <1>5, <2>2, Zenon
    <3>4. d = c
      BY ONLY <1>3, <1>5, <2>2 DEF TcbRecord
    <3>5. T = k.tcb
      BY ONLY <1>1, <1>3, <1>5, <1>6, <3>4
    <3> QED
      BY ONLY <1>2, <3>2, <3>3, <3>5 DEF Shape
  <2> QED
    BY ONLY <1>4, <2>1, <2>2, Zenon
<1>8. d \in MutexTcb /\ d.prio = o /\ d.stat = c.stat /\ d.pend = c.pend /\ d.dly = c.dly /\ d.ev = c.ev
  BY ONLY <1>3, <1>5 DEF MutexTcb
<1>9. T \in [Task -> MutexTcb] /\ T[u] = d /\ \A v \in Task : v # u => T[v] = k.tcb[v]
  BY ONLY <1>1, <1>5, <1>6, <1>8
<1>10. c.prio \in k.rdy
  BY <1>3, Zenon
<1>11. R \subseteq Prio /\ (o \in R <=> c.prio \in k.rdy) /\ \A y \in Prio : y # o => (y \in R <=> y \in k.rdy /\ y # c.prio)
  BY ONLY <1>3, <1>5, <1>6, <1>10
<1>12. B \in [Prio -> Task \cup {Null, Reserved}] /\ (\A y \in Prio : y # Pip => B[y] = k.tbl[y]) /\ B[Pip] = Reserved
  BY ONLY <1>3, <1>5, <1>6
<1>13. Reprio(k, u, o, T, R, B)
  BY ONLY <1>3, <1>4, <1>8, <1>9, <1>11, <1>12 DEF Reprio
<1> QED
  BY ONLY <1>3, <1>7, <1>13, Zenon DEF Reprioed
-----------------------------------------------------------------------------
\* What WaitFor does for the task t that runs.
WaitsFor(k, r, t, e, n) ==
  /\ Shape(r) /\ r.app = k.app /\ r.tbl = k.tbl /\ r.list = k.list /\ r.evfree = k.evfree
  /\ r.cur = k.cur /\ r.prioCur = k.prioCur /\ r.lock = k.lock /\ r.rdy = k.rdy \ {k.tcb[t].prio}
  /\ r.tcb \in [Task -> MutexTcb] /\ (\A u \in Task : u # t => r.tcb[u] = k.tcb[u])
  /\ r.tcb[t].prio = k.tcb[t].prio /\ r.tcb[t].stat = {"mutex"} /\ r.tcb[t].pend = "ok" /\ r.tcb[t].dly = n /\ r.tcb[t].ev = e
  /\ r.ev \in [DOMAIN k.ev -> MutexEcb] /\ (\A f \in DOMAIN k.ev : f # e => r.ev[f] = k.ev[f])
  /\ r.ev[e].type = k.ev[e].type /\ r.ev[e].cnt = k.ev[e].cnt /\ r.ev[e].ptr = k.ev[e].ptr
  /\ r.ev[e].wait = k.ev[e].wait \cup {k.tcb[t].prio}
LEMMA MutexWaitFor ==
  ASSUME NEW k, MutexKernel(k), NEW e \in DOMAIN k.ev, NEW n \in Nat, NEW t, t = k.cur, k.tcb[t].stat = {},
         NEW r, r = WaitFor(k, e, "mutex", n)
  PROVE  WaitsFor(k, r, t, e, n)
<1>1. /\ Shape(k) /\ t \in Task /\ k.tcb[t] \in MutexTcb /\ TcbRecord(k.tcb[t]) /\ k.ev[e] \in MutexEcb /\ EcbRecord(k.ev[e])
      /\ k.tcb \in [Task -> MutexTcb] /\ k.ev \in [DOMAIN k.ev -> MutexEcb] /\ e \in Ecb
  <2>1. /\ Shape(k) /\ t \in Task /\ k.tcb[t] \in MutexTcb /\ TcbRecord(k.tcb[t]) /\ k.ev[e] \in MutexEcb /\ EcbRecord(k.ev[e])
    BY MutexBasics
  <2>2. k.tcb \in [Task -> MutexTcb] /\ k.ev \in [DOMAIN k.ev -> MutexEcb] /\ e \in Ecb
    BY DEF MutexKernel, Ecb
  <2> QED
    BY ONLY <2>1, <2>2
<1>2. PICK c, c0 : c = k.tcb[t] /\ c0 = [c EXCEPT !.stat = @ \cup {"mutex"}, !.pend = "ok", !.dly = n]
  BY ONLY Zenon
<1>3. c \in MutexTcb /\ TcbRecord(c) /\ c.stat = {}
  BY <1>1, <1>2
<1>4. /\ TcbRecord(c0) /\ c0.prio = c.prio /\ c0.stat = {"mutex"} /\ c0.pend = "ok" /\ c0.dly = n
      /\ c0.multi = c.multi /\ c0.msg = c.msg /\ c0.delreq = c.delreq
  <2>1. c0 = [c EXCEPT !.stat = {"mutex"}, !.pend = "ok", !.dly = n]
    BY ONLY <1>2, <1>3
  <2> QED
    BY ONLY <1>3, <2>1 DEF TcbRecord
<1>5. PICK d : d = [c0 EXCEPT !.ev = e]
  OBVIOUS
<1>6. /\ TcbRecord(d) /\ d.prio = c.prio /\ d.stat = {"mutex"} /\ d.pend = "ok" /\ d.dly = n /\ d.ev = e
      /\ d.multi = c.multi /\ d.msg = c.msg /\ d.delreq = c.delreq
  BY ONLY <1>4, <1>5 DEF TcbRecord
<1>7. d \in MutexTcb
  BY ONLY <1>1, <1>3, <1>6, n \in Nat DEF MutexTcb, TcbRecord
<1>8. PICK b, x : b = k.ev[e] /\ b \in MutexEcb /\ x = [b EXCEPT !.wait = @ \cup {c.prio}]
  BY ONLY <1>1
<1>9. x \in MutexEcb /\ x.type = b.type /\ x.cnt = b.cnt /\ x.ptr = b.ptr /\ x.wait = b.wait \cup {c.prio}
  BY ONLY <1>3, <1>8 DEF MutexEcb, MutexTcb
<1>10. PICK T0, T, E : T0 = [k.tcb EXCEPT ![t] = c0] /\ T = [k.tcb EXCEPT ![t] = d] /\ E = [k.ev EXCEPT ![e] = x]
  OBVIOUS
<1>11. PICK k0 : k0 = [k EXCEPT !.tcb[t].stat = @ \cup {"mutex"}, !.tcb[t].pend = "ok", !.tcb[t].dly = n]
  OBVIOUS
<1>12. k0 = [k EXCEPT !.tcb = T0]
  <2>1. PICK T1 : T1 = [k.tcb EXCEPT ![t].stat = @ \cup {"mutex"}, ![t].pend = "ok", ![t].dly = n]
    OBVIOUS
  <2>2. T1 = T0
    BY ONLY <1>1, <1>2, <1>10, <2>1
  <2>3. k0 = [k EXCEPT !.tcb = T1]
    BY ONLY <1>1, <1>11, <2>1 DEF Shape
  <2> QED
    BY ONLY <2>2, <2>3
<1>13. /\ Shape(k0) /\ k0.tcb = T0 /\ k0.app = k.app /\ k0.rdy = k.rdy /\ k0.tbl = k.tbl /\ k0.list = k.list
       /\ k0.free = k.free /\ k0.ev = k.ev /\ k0.evfree = k.evfree
       /\ k0.cur = k.cur /\ k0.prioCur = k.prioCur /\ k0.lock = k.lock
  BY ONLY <1>1, <1>12 DEF Shape
<1>14. T0[t] = c0 /\ T = [T0 EXCEPT ![t] = d]
  BY ONLY <1>1, <1>10
<1>15. PICK k1 : k1 = [k0 EXCEPT !.tcb[t].ev = e, !.ev[e].wait = @ \cup {c.prio}]
  OBVIOUS
<1>16. k1 = [k0 EXCEPT !.tcb = T, !.ev = E]
  <2>1. [T0 EXCEPT ![t].ev = e] = T
    BY ONLY <1>5, <1>14
  <2>2. [k.ev EXCEPT ![e].wait = @ \cup {c.prio}] = E
    BY ONLY <1>8, <1>10
  <2> QED
    BY ONLY <1>13, <1>15, <2>1, <2>2 DEF Shape
<1>17. /\ Shape(k1) /\ k1.tcb = T /\ k1.app = k.app /\ k1.rdy = k.rdy /\ k1.tbl = k.tbl /\ k1.list = k.list
       /\ k1.free = k.free /\ k1.ev = E /\ k1.evfree = k.evfree
       /\ k1.cur = k.cur /\ k1.prioCur = k.prioCur /\ k1.lock = k.lock
  BY ONLY <1>13, <1>16 DEF Shape
<1>18. T \in [Task -> MutexTcb] /\ T[t] = d /\ \A u \in Task : u # t => T[u] = k.tcb[u]
  BY ONLY <1>1, <1>7, <1>10
<1>19. E \in [DOMAIN k.ev -> MutexEcb] /\ E[e] = x /\ \A f \in DOMAIN k.ev : f # e => E[f] = k.ev[f]
  BY ONLY <1>1, <1>9, <1>10, e \in DOMAIN k.ev
<1>20. r = [k1 EXCEPT !.rdy = k.rdy \ {c.prio}]
  <2>1. k.cur = t /\ k0.cur = t /\ k1.cur = t /\ k1.tcb[t].prio = c.prio /\ k0.tcb[t].prio = c.prio
    BY <1>4, <1>6, <1>13, <1>14, <1>17, <1>18
  <2>2. r = OS_EventTaskWait(k0, e)
    BY <1>11, <2>1 DEF WaitFor
  <2>3. OS_EventTaskWait(k0, e) = ClearReady(k1, t)
    BY ONLY <1>15, <2>1 DEF OS_EventTaskWait
  <2> QED
    BY ONLY <1>17, <2>1, <2>2, <2>3 DEF ClearReady
<1>21. /\ Shape(r) /\ r.tcb = T /\ r.app = k.app /\ r.rdy = k.rdy \ {c.prio} /\ r.tbl = k.tbl /\ r.list = k.list
       /\ r.ev = E /\ r.evfree = k.evfree
       /\ r.cur = k.cur /\ r.prioCur = k.prioCur /\ r.lock = k.lock
  BY ONLY <1>17, <1>20 DEF Shape
<1> QED
  BY ONLY <1>2, <1>6, <1>8, <1>9, <1>18, <1>19, <1>21 DEF WaitsFor

\* The caller of OSMutexPend waits behind the owner.
LEMMA MutexBlocks ==
  ASSUME NEW k, NEW p, NEW H, MutexTables(k, p, H), Outranks(k), CurKnown(k), NEW t, t = k.cur, t # Idle, k.lock = 0, p[t].at = "mupend",
         NEW e, e = p[t].ev, k.tcb[t].prio \in k.rdy, k.ev[e].ptr # Null,
         k.tcb[k.ev[e].ptr].prio < k.tcb[t].prio, \A u \in Task : p[u].at # "mudel",
         NEW r, r = WaitFor(k, e, "mutex", p[t].n), NEW s, s = [p EXCEPT ![t].at = "block"]
  PROVE  MutexState(r, s, H)
<1>1. /\ MutexKernel(k) /\ MutexPrios(k) /\ MutexEcbs(k) /\ MutexPc(k, p) /\ MutexStats(k, p)
      /\ MutexCalls(k, p) /\ MutexHas(k, p, H) /\ MutexWaits(k, p)
  BY ONLY MutexTables(k, p, H) DEF MutexTables
<1>2. /\ t \in k.list /\ t \in Task /\ k.list \subseteq Task /\ Idle \in Task /\ k.ev \in [DOMAIN k.ev -> MutexEcb]
      /\ (\A u \in k.list : k.tcb[u].prio \in Prio) /\ ReadyAt(k, t)
  <2>1. t \in k.list /\ k.list \subseteq Task /\ Idle \in Task /\ (\A u \in k.list : k.tcb[u].prio \in Prio)
    BY <1>1, MutexBasics DEF MutexKernel
  <2> QED
    BY ONLY <1>1, <2>1 DEF MutexKernel
<1>3. p = [u \in Task |-> p[u]] /\ Formed(p[t]) /\ e \in DOMAIN k.ev /\ p[t].n \in Nat /\ p[t].svc = "mutex"
  BY <1>1, <1>2, Zenon DEF MutexPc, InMutex
<1>4. k.tcb[t].stat = {} /\ ~ Blk(p, t) /\ p[t].at \in InMutex
  BY <1>2 DEF ReadyAt, Blk, InMutex
<1>5. PICK n : n = p[t].n /\ n \in Nat
  BY ONLY <1>3, Zenon
<1>6. WaitsFor(k, r, t, e, n)
  <2>1. r = WaitFor(k, e, "mutex", n) /\ MutexKernel(k) /\ e \in DOMAIN k.ev /\ n \in Nat /\ k.tcb[t].stat = {}
    BY <1>1, <1>3, <1>4, <1>5, Zenon
  <2> QED
    BY ONLY <2>1, t = k.cur, MutexWaitFor
<1>7. PICK T, E : T = r.tcb /\ E = r.ev
  OBVIOUS
<1>8. /\ Shape(r) /\ r.tcb = T /\ r.app = k.app /\ r.rdy = k.rdy \ {k.tcb[t].prio} /\ r.tbl = k.tbl /\ r.list = k.list
      /\ r.ev = E /\ r.evfree = k.evfree /\ r.cur = k.cur /\ r.prioCur = k.prioCur /\ r.lock = k.lock
      /\ T \in [Task -> MutexTcb] /\ (\A u \in Task : u # t => T[u] = k.tcb[u])
      /\ T[t].prio = k.tcb[t].prio /\ T[t].stat = {"mutex"} /\ T[t].pend = "ok" /\ T[t].dly = n /\ T[t].ev = e
  BY ONLY <1>6, <1>7 DEF WaitsFor
<1>9. /\ E \in [DOMAIN k.ev -> MutexEcb] /\ (\A f \in DOMAIN k.ev : f # e => E[f] = k.ev[f])
      /\ E[e].type = k.ev[e].type /\ E[e].cnt = k.ev[e].cnt /\ E[e].ptr = k.ev[e].ptr
      /\ E[e].wait = k.ev[e].wait \cup {k.tcb[t].prio}
  BY ONLY <1>6, <1>7 DEF WaitsFor
<1>10. /\ DOMAIN E = DOMAIN k.ev
       /\ \A f \in DOMAIN k.ev : E[f].type = k.ev[f].type /\ E[f].cnt = k.ev[f].cnt /\ E[f].ptr = k.ev[f].ptr
  BY ONLY <1>9
<1>11. \A u \in Task : T[u].prio = k.tcb[u].prio
  BY ONLY <1>8
<1>12. \A u \in k.list : u # t => k.tcb[u].prio # k.tcb[t].prio
  BY ONLY <1>1, <1>2, PriosApart
<1>13. s = [u \in Task |-> s[u]] /\ (\A u \in Task : u # t => s[u] = p[u]) /\ s[t] = [p[t] EXCEPT !.at = "block"]
  BY ONLY <1>2, <1>3, s = [p EXCEPT ![t].at = "block"]
<1>14. Formed(s[t]) /\ s[t].at = "block" /\ s[t].ev = e /\ s[t].n = n /\ s[t].svc = "mutex" /\ Blk(s, t)
  BY ONLY <1>3, <1>5, <1>13, e = p[t].ev DEF Formed, Blk
<1>15. MutexKernel(r)
  <2>1. ASSUME NEW u \in k.list PROVE ReadyAt(r, u)
    <3>1. CASE u = t
      BY ONLY <1>8, <3>1 DEF ReadyAt
    <3>2. CASE u # t
      <4>1. ReadyAt(k, u)
        BY ONLY <1>1 DEF MutexKernel
      <4> QED
        BY ONLY <1>2, <1>8, <1>12, <2>1, <3>2, <4>1 DEF ReadyAt
    <3> QED
      BY ONLY <3>1, <3>2
  <2>2. DOMAIN k.ev = DOMAIN App[k.app].ev
    BY ONLY <1>1 DEF MutexKernel
  <2>3. T[Idle] = k.tcb[Idle]
    BY ONLY <1>2, <1>8, t # Idle
  <2> QED
    BY ONLY <1>1, <1>2, <1>8, <1>9, <1>10, <1>11, <2>1, <2>2, <2>3 DEF MutexKernel
<1>16. MutexPrios(r)
  BY ONLY <1>1, <1>2, <1>8, <1>10, <1>11 DEF MutexPrios, Own
<1>17. MutexEcbs(r)
  BY ONLY <1>1, <1>8, <1>9, <1>10, k.ev[e].ptr # Null DEF MutexEcbs, Own
<1>18. MutexPc(r, s)
  BY ONLY <1>1, <1>2, <1>3, <1>8, <1>10, <1>13, <1>14, t # Idle DEF MutexPc, InMutex, Blk
<1>19. MutexStats(r, s)
  <2>1. ASSUME NEW u \in k.list
        PROVE  /\ Dozing(T[u]) \/ T[u].ev # Null => Blk(s, u)
               /\ Blk(s, u) /\ T[u].stat = {} => T[u].dly = 0
               /\ s[u].at \in InMutex => T[u].dly = 0
               /\ T[u].pend = "to" => T[u].stat = {}
    <3>1. CASE u = t
      BY ONLY <1>8, <1>14, <3>1 DEF InMutex
    <3>2. CASE u # t
      BY ONLY <1>1, <1>2, <1>8, <1>13, <2>1, <3>2 DEF MutexStats, Blk
    <3> QED
      BY ONLY <3>1, <3>2
  <2> QED
    BY ONLY <1>8, <2>1 DEF MutexStats
<1>20. MutexCalls(r, s)
  <2>1. \A u \in Task : s[u].at # "mudel"
    BY ONLY <1>13, <1>14, \A u \in Task : p[u].at # "mudel"
  <2>2. ASSUME NEW u \in Task, s[u].at \in InMutex PROVE E[s[u].ev].type = "mutex"
    <3>1. s[u] = p[u]
      BY ONLY <1>13, <1>14, <2>2, Zenon DEF InMutex
    <3>2. p[u].ev \in DOMAIN k.ev /\ k.ev[p[u].ev].type = "mutex"
      BY ONLY <1>1, <2>2, <3>1, Zenon DEF MutexPc, MutexCalls
    <3> QED
      BY ONLY <1>10, <3>1, <3>2
  <2> QED
    BY ONLY <1>8, <2>1, <2>2 DEF MutexCalls
<1>21. MutexHas(r, s, H)
  <2>1. H[t] = {}
    BY <1>1, <1>2 DEF MutexHas
  <2>2. ASSUME NEW u \in Task, NEW f \in DOMAIN k.ev PROVE Told(r, s, H, u, f) <=> Told(k, p, H, u, f)
    <3>1. CASE u = t
      BY ONLY <1>4, <1>8, <2>1, <3>1 DEF Told, Dozing
    <3>2. CASE u # t
      BY ONLY <1>8, <1>13, <2>2, <3>2 DEF Told, Blk
    <3> QED
      BY ONLY <3>1, <3>2
  <2>3. \A u \in Task : s[u].at \in {"muaccept", "mupend"} \/ Blk(s, u) => H[u] = {}
    BY ONLY <1>1, <1>13, <2>1 DEF MutexHas, Blk
  <2>4. \A f \in DOMAIN k.ev, u \in Task :
          /\ k.ev[f].ptr = u => Told(k, p, H, u, f)
          /\ k.ev[f].type = "mutex" /\ Told(k, p, H, u, f) /\ "mudel" \notin App[k.app].ops => k.ev[f].ptr = u
    BY ONLY <1>1 DEF MutexHas
  <2>5. H = [u \in Task |-> H[u]]
    BY ONLY <1>1 DEF MutexHas
  <2> QED
    BY ONLY <1>8, <1>10, <2>2, <2>3, <2>4, <2>5 DEF MutexHas
<1>22. MutexWaits(r, s)
  <2>1. ASSUME NEW f \in DOMAIN k.ev, NEW u \in k.list
        PROVE  T[u].prio \in E[f].wait <=> Blk(s, u) /\ s[u].ev = f /\ Dozing(T[u])
    <3>0. u \in Task /\ (k.tcb[u].prio \in k.ev[f].wait <=> Blk(p, u) /\ p[u].ev = f /\ Dozing(k.tcb[u]))
      BY ONLY <1>1, <1>2, <2>1 DEF MutexWaits
    <3>1. CASE u = t
      <4>1. k.tcb[t].prio \notin k.ev[f].wait
        BY ONLY <1>4, <3>0, <3>1
      <4>2. Dozing(T[t])
        BY ONLY <1>8 DEF Dozing
      <4>3. CASE f = e
        BY ONLY <1>8, <1>9, <1>14, <3>1, <4>2, <4>3
      <4>4. CASE f # e
        BY ONLY <1>8, <1>9, <1>14, <2>1, <3>1, <4>1, <4>4
      <4> QED
        BY ONLY <4>3, <4>4
    <3>2. CASE u # t
      <4>1. k.tcb[u].prio \in E[f].wait <=> k.tcb[u].prio \in k.ev[f].wait
        BY ONLY <1>9, <1>12, <2>1, <3>2
      <4> QED
        BY ONLY <1>8, <1>13, <3>0, <3>2, <4>1 DEF Blk
    <3> QED
      BY ONLY <3>1, <3>2
  <2>2. ASSUME NEW f \in DOMAIN k.ev, NEW x \in E[f].wait PROVE \E u \in k.list : T[u].prio = x
    <3>1. x \in k.ev[f].wait \/ x = k.tcb[t].prio
      BY ONLY <1>9, <2>2
    <3>2. \E u \in k.list : k.tcb[u].prio = x
      BY ONLY <1>1, <1>2, <2>2, <3>1 DEF MutexWaits
    <3> QED
      BY ONLY <1>2, <1>11, <3>2
  <2> QED
    BY ONLY <1>8, <1>10, <2>1, <2>2 DEF MutexWaits
<1>23. Outranks(r)
  <2>1. ASSUME NEW f \in DOMAIN k.ev, k.ev[f].ptr # Null, NEW x \in E[f].wait
        PROVE  T[k.ev[f].ptr].prio < x
    <3>1. k.ev[f].ptr \in Task
      BY ONLY <1>1, <1>2, <2>1 DEF MutexEcbs
    <3>2. k.tcb[k.ev[f].ptr].prio < x
      BY ONLY <1>9, <2>1, Outranks(k), k.tcb[k.ev[e].ptr].prio < k.tcb[t].prio DEF Outranks
    <3> QED
      BY ONLY <1>11, <3>1, <3>2
  <2> QED
    BY ONLY <1>8, <1>10, <2>1 DEF Outranks
<1>24. MutexCpu(r, s)
  <2>1. CurKnown(r)
    BY ONLY <1>2, <1>8, CurKnown(k), t = k.cur DEF CurKnown
  <2> QED
    BY ONLY <1>8, <1>14, <2>1, t = k.cur, k.lock = 0 DEF MutexCpu
<1> QED
  BY ONLY <1>15, <1>16, <1>17, <1>18, <1>19, <1>20, <1>21, <1>22, <1>23, <1>24 DEF MutexState, MutexTables
-----------------------------------------------------------------------------
LEMMA MutexPends ==
  ASSUME NEW t, MutexInv, OSMutexPend(t)
  PROVE  MutexState(os', pc', has')
<1>1. PICK k, e, u, s, r, G : k = os /\ e = pc[t].ev /\ u = k.ev[e].ptr /\ s = pc' /\ r = os' /\ G = has'
  OBVIOUS
<1>2. PICK k1 : k1 = IF k.tcb[u].prio > PipOf(k, e) /\ OwnPrio(k, e) > k.tcb[t].prio THEN Promote(k, u, PipOf(k, e)) ELSE k
  OBVIOUS
<1>3. /\ t = k.cur /\ pc[t].at = "mupend"
      /\ IF OwnPrio(k, e) = MutexAvailable
         THEN r = Owned(k, e, t, k.tcb[t].prio) /\ G = [has EXCEPT ![t] = @ \cup {e}] /\ s = [pc EXCEPT ![t] = InApp]
         ELSE r = WaitFor(k1, e, "mutex", pc[t].n) /\ s = [pc EXCEPT ![t].at = "block"] /\ G = has
  BY <1>1, <1>2 DEF OSMutexPend, At, Return, Goto, Has
<1>4. MutexState(k, pc, has)
  BY <1>1 DEF MutexInv
<1>5. CASE OwnPrio(k, e) = MutexAvailable
  <2>1. r = Owned(k, e, t, k.tcb[t].prio) /\ G = [has EXCEPT ![t] = @ \cup {e}] /\ t = k.cur /\ pc[t].at \in {"muaccept", "mupend"}
        /\ s = [pc EXCEPT ![t] = InApp] /\ e = pc[t].ev
    BY ONLY <1>1, <1>3, <1>5
  <2>2. MutexState(r, s, G)
    BY ONLY <1>4, <1>5, <2>1, MutexTake
  <2> QED
    BY ONLY <1>1, <2>2
<1>6. CASE OwnPrio(k, e) # MutexAvailable
  <2>0. pc[t].at \in InMutex /\ e = pc[t].ev /\ t = k.cur /\ pc[t].at \in {"muaccept", "mupend"} /\ ~ Blk(pc, t)
    BY ONLY <1>1, <1>3 DEF InMutex, Blk
  <2>1. /\ t \in k.list /\ t \in Task /\ t # Idle /\ MutexTables(k, pc, has)
        /\ MutexKernel(k) /\ Shape(k) /\ Outranks(k) /\ MutexCpu(k, pc) /\ k.tcb[t].prio \in k.rdy
        /\ e \in DOMAIN k.ev /\ k.ev[e].type = "mutex"
        /\ (\A f \in DOMAIN k.ev : f # e => k.ev[f].type # "mutex" /\ k.ev[f].ptr = Null /\ k.ev[f].wait = {})
        /\ \A v \in Task : pc[v].at # "mudel"
    <3>1. pc[t].at # "mudel"
      BY ONLY <1>3
    <3> QED
      BY ONLY <1>4, <2>0, <3>1, MutexServed
  <2>2. PipOf(k, e) = Pip /\ u # Null /\ OwnPrio(k, e) = Own(k, u)
    <3>1. MutexTables(k, pc, has) /\ e \in DOMAIN k.ev /\ k.ev[e].type = "mutex" /\ u = k.ev[e].ptr
      BY ONLY <1>1, <2>1
    <3> QED
      BY ONLY <1>6, <3>1, MutexCount
  <2>3. u # t /\ k.tcb[t].prio = Own(k, t)
    <3>1. MutexTables(k, pc, has) /\ t \in k.list /\ (Blk(pc, t) \/ pc[t].at \in {"muaccept", "mupend"})
          /\ (Blk(pc, t) => Dozing(k.tcb[t]))
      BY ONLY <2>0, <2>1
    <3>2. (\A f \in DOMAIN k.ev : k.ev[f].ptr # t) /\ k.tcb[t].prio = Own(k, t)
      BY ONLY <3>1, WaiterOwnsNone
    <3> QED
      BY ONLY <1>1, <2>1, <3>2
  <2>4. u \in k.list /\ u \in Task /\ ~ (Blk(pc, u) /\ Dozing(k.tcb[u]))
        /\ \A w \in k.list : w # u => k.tcb[w].prio = Own(k, w) /\ k.tcb[w].prio # Pip
    <3>1. MutexTables(k, pc, has) /\ e \in DOMAIN k.ev /\ u = k.ev[e].ptr /\ u # Null
      BY ONLY <1>1, <2>1, <2>2
    <3> QED
      BY ONLY <3>1, OwnerAlone
  <2>5. /\ \A w \in k.list : Own(k, w) \in Prio /\ Pip < Own(k, w) /\ k.tcb[w].prio \in Prio
        /\ Pip \in Prio /\ LowestPrio \in Nat
    BY ONLY <2>1, MutexBasics
  <2>6. /\ MutexPrios(k) /\ MutexWaits(k, pc) /\ k.lock = 0 /\ k.prioCur = k.tcb[t].prio
    <3>1. MutexPrios(k) /\ MutexWaits(k, pc)
      BY ONLY <2>1 DEF MutexTables
    <3>2. k.lock = 0
      BY ONLY <1>3, <2>1 DEF MutexCpu
    <3>3. u \notin {Null, k.cur} /\ e \in DOMAIN k.ev /\ u = k.ev[e].ptr
      BY ONLY <1>1, <1>3, <2>1, <2>2, <2>3
    <3>4. k.prioCur = k.tcb[k.cur].prio
      BY ONLY <1>3, <2>1, <3>2, <3>3 DEF MutexCpu
    <3> QED
      BY ONLY <1>3, <3>1, <3>2, <3>4
  <2>7. k.tcb[t].prio # k.tcb[u].prio
    BY ONLY <2>1, <2>3, <2>4, <2>6, PriosApart
  <2>8. /\ MutexTables(k1, pc, has) /\ Outranks(k1) /\ CurKnown(k1) /\ t = k1.cur /\ k1.lock = 0
        /\ k1.tcb[t].prio \in k1.rdy /\ k1.ev = k.ev /\ k1.tcb[u].prio < k1.tcb[t].prio
    <3>1. CASE k.tcb[u].prio > Pip /\ Own(k, u) > k.tcb[t].prio
      <4>1. k1 = Promote(k, u, Pip)
        BY ONLY <1>2, <2>2, <3>1
      <4>2. k.tcb[u].prio # Pip
        BY ONLY <2>4, <2>5, <3>1 DEF Prio
      <4>3. PICK T, R, B : Reprio(k, u, Pip, T, R, B) /\ k1 = [k EXCEPT !.rdy = R, !.tcb = T, !.tbl = B]
        <5>1. MutexTables(k, pc, has) /\ e \in DOMAIN k.ev /\ u = k.ev[e].ptr /\ u # Null
          BY ONLY <1>1, <2>1, <2>2
        <5>2. Reprioed(k, u, Pip, k1)
          BY ONLY <4>1, <4>2, <5>1, MutexPromotes
        <5> QED
          BY ONLY <5>2, Zenon DEF Reprioed
      <4>4. MutexTables(k1, pc, has)
        <5>1. /\ MutexTables(k, pc, has) /\ e \in DOMAIN k.ev /\ u = k.ev[e].ptr /\ u # Null /\ Pip \in {Pip, Own(k, u)}
              /\ \A v \in Task : pc[v].at # "mudel"
          BY ONLY <1>1, <2>1, <2>2
        <5>2. Reprio(k, u, Pip, T, R, B) /\ k1 = [k EXCEPT !.rdy = R, !.tcb = T, !.tbl = B]
          BY ONLY <4>3
        <5> QED
          BY ONLY <5>1, <5>2, MutexReprio, Zenon
      <4>5. k1.rdy = R /\ k1.tcb = T /\ k1.ev = k.ev /\ k1.cur = k.cur /\ k1.lock = k.lock /\ k1.prioCur = k.prioCur
        BY ONLY <2>1, <4>3 DEF Shape
      <4>6. /\ (\A v \in Task : v # u => T[v] = k.tcb[v]) /\ T[u].prio = Pip
            /\ \A y \in Prio : y # Pip => (y \in R <=> y \in k.rdy /\ y # k.tcb[u].prio)
        BY ONLY <4>3 DEF Reprio
      <4>7. T[t] = k.tcb[t] /\ Pip < k.tcb[t].prio /\ k.tcb[t].prio \in R
        <5>1. T[t] = k.tcb[t] /\ Pip < k.tcb[t].prio
          BY ONLY <2>1, <2>3, <2>5, <4>6
        <5>2. k.tcb[t].prio # Pip /\ k.tcb[t].prio \in Prio
          BY ONLY <2>1, <2>3, <2>4, <2>5
        <5> QED
          BY ONLY <2>1, <2>7, <4>6, <5>1, <5>2
      <4>8. CurKnown(k1)
        BY ONLY <1>3, <2>6, <4>5, <4>7 DEF CurKnown
      <4>9. Outranks(k1)
        <5>1. ASSUME NEW x \in k.ev[e].wait PROVE Pip < x
          <6>1. PICK w \in k.list : k.tcb[w].prio = x
            BY ONLY <2>1, <2>6 DEF MutexWaits
          <6>2. w # u
            BY ONLY <2>1, <2>4, <2>6, <5>1, <6>1 DEF MutexWaits
          <6> QED
            BY ONLY <2>4, <2>5, <6>1, <6>2
        <5> QED
          BY ONLY <1>1, <2>1, <4>5, <4>6, <5>1 DEF Outranks
      <4> QED
        BY ONLY <1>3, <2>6, <4>4, <4>5, <4>6, <4>7, <4>8, <4>9
    <3>2. CASE ~ (k.tcb[u].prio > Pip /\ Own(k, u) > k.tcb[t].prio)
      <4>1. k1 = k
        BY ONLY <1>2, <2>2, <3>2
      <4>2. k.tcb[u].prio = Own(k, u) \/ k.tcb[u].prio = Pip
        BY ONLY <2>4, <2>6 DEF MutexPrios
      <4>3. k.tcb[u].prio < k.tcb[t].prio
        <5>1. /\ Pip \in Nat /\ Own(k, u) \in Nat /\ Pip < Own(k, u) /\ k.tcb[t].prio \in Nat /\ Pip < k.tcb[t].prio
          BY ONLY <2>1, <2>3, <2>4, <2>5 DEF Prio
        <5> QED
          BY ONLY <2>7, <3>2, <4>2, <5>1
      <4>4. CurKnown(k)
        BY ONLY <2>1 DEF MutexCpu
      <4> QED
        BY ONLY <1>3, <2>1, <2>6, <4>1, <4>3, <4>4
    <3> QED
      BY ONLY <3>1, <3>2
  <2>9. MutexState(r, s, has)
    <3>1. /\ r = WaitFor(k1, e, "mutex", pc[t].n) /\ s = [pc EXCEPT ![t].at = "block"] /\ t # Idle /\ pc[t].at = "mupend"
          /\ e = pc[t].ev /\ \A v \in Task : pc[v].at # "mudel"
      BY ONLY <1>1, <1>3, <1>6, <2>1
    <3>2. k1.ev[e].ptr # Null /\ k1.tcb[k1.ev[e].ptr].prio < k1.tcb[t].prio
      BY ONLY <1>1, <2>2, <2>8
    <3>3. /\ MutexTables(k1, pc, has) /\ Outranks(k1) /\ CurKnown(k1) /\ t = k1.cur /\ k1.lock = 0
          /\ k1.tcb[t].prio \in k1.rdy
      BY ONLY <2>8
    <3> QED
      BY ONLY <3>1, <3>2, <3>3, MutexBlocks, Zenon
  <2> QED
    BY ONLY <1>1, <1>3, <1>6, <2>9
<1> QED
  BY ONLY <1>5, <1>6
-----------------------------------------------------------------------------
\* What Awake does for the task t that runs.
Awoken(k, r, t, e) ==
  /\ Shape(r) /\ r.app = k.app /\ r.rdy = k.rdy /\ r.tbl = k.tbl /\ r.list = k.list /\ r.evfree = k.evfree
  /\ r.cur = k.cur /\ r.prioCur = k.prioCur /\ r.lock = k.lock
  /\ r.tcb \in [Task -> MutexTcb] /\ (\A u \in Task : u # t => r.tcb[u] = k.tcb[u])
  /\ r.tcb[t].prio = k.tcb[t].prio /\ r.tcb[t].stat = {} /\ r.tcb[t].pend = "ok" /\ r.tcb[t].dly = k.tcb[t].dly /\ r.tcb[t].ev = Null
  /\ r.ev \in [DOMAIN k.ev -> MutexEcb] /\ (\A f \in DOMAIN k.ev : f # e => r.ev[f] = k.ev[f])
  /\ r.ev[e].type = k.ev[e].type /\ r.ev[e].cnt = k.ev[e].cnt /\ r.ev[e].ptr = k.ev[e].ptr
  /\ r.ev[e].wait = IF k.tcb[t].pend = "to" THEN k.ev[e].wait \ {k.tcb[t].prio} ELSE k.ev[e].wait
LEMMA MutexAwoken ==
  ASSUME NEW k, MutexKernel(k), NEW e \in DOMAIN k.ev, NEW t \in Task, NEW r, r = Awake(k, t, e)
  PROVE  Awoken(k, r, t, e)
<1>1. /\ Shape(k) /\ k.tcb[t] \in MutexTcb /\ TcbRecord(k.tcb[t]) /\ k.ev[e] \in MutexEcb /\ EcbRecord(k.ev[e])
      /\ k.tcb \in [Task -> MutexTcb] /\ k.ev \in [DOMAIN k.ev -> MutexEcb]
  <2>1. Shape(k) /\ k.tcb[t] \in MutexTcb /\ TcbRecord(k.tcb[t]) /\ k.ev[e] \in MutexEcb /\ EcbRecord(k.ev[e])
    BY MutexBasics
  <2>2. k.tcb \in [Task -> MutexTcb] /\ k.ev \in [DOMAIN k.ev -> MutexEcb]
    BY DEF MutexKernel
  <2> QED
    BY ONLY <2>1, <2>2
<1>2. PICK c, c1 : c = k.tcb[t] /\ c1 = [c EXCEPT !.stat = {}, !.pend = "ok"]
  BY ONLY Zenon
<1>3. c \in MutexTcb /\ TcbRecord(c)
  BY ONLY <1>1, <1>2
<1>4. /\ TcbRecord(c1) /\ c1.prio = c.prio /\ c1.stat = {} /\ c1.pend = "ok" /\ c1.dly = c.dly /\ c1.delreq = c.delreq
  BY ONLY <1>2, <1>3 DEF TcbRecord
<1>5. PICK d : d = [c1 EXCEPT !.ev = Null, !.multi = {}, !.msg = Null]
  OBVIOUS
<1>6. /\ TcbRecord(d) /\ d.prio = c.prio /\ d.stat = {} /\ d.pend = "ok" /\ d.dly = c.dly /\ d.ev = Null
      /\ d.multi = {} /\ d.msg = Null /\ d.delreq = c.delreq
  BY ONLY <1>4, <1>5 DEF TcbRecord
<1>7. d \in MutexTcb
  BY ONLY <1>3, <1>6 DEF MutexTcb, TcbRecord
<1>8. PICK E : E = IF c.pend = "to" THEN [k.ev EXCEPT ![e].wait = @ \ {c.prio}] ELSE k.ev
  OBVIOUS
<1>9. /\ E \in [DOMAIN k.ev -> MutexEcb] /\ (\A f \in DOMAIN k.ev : f # e => E[f] = k.ev[f])
      /\ E[e].type = k.ev[e].type /\ E[e].cnt = k.ev[e].cnt /\ E[e].ptr = k.ev[e].ptr
      /\ E[e].wait = IF c.pend = "to" THEN k.ev[e].wait \ {c.prio} ELSE k.ev[e].wait
  <2>1. CASE c.pend = "to"
    <3>1. PICK b, x : b = k.ev[e] /\ b \in MutexEcb /\ x = [b EXCEPT !.wait = @ \ {c.prio}]
      BY ONLY <1>1
    <3>2. x \in MutexEcb /\ x.type = b.type /\ x.cnt = b.cnt /\ x.ptr = b.ptr /\ x.wait = b.wait \ {c.prio}
      BY ONLY <3>1 DEF MutexEcb
    <3>3. E = [k.ev EXCEPT ![e] = x]
      BY ONLY <1>8, <2>1, <3>1
    <3> QED
      BY ONLY <1>1, <2>1, <3>1, <3>2, <3>3, e \in DOMAIN k.ev
  <2>2. CASE c.pend # "to"
    BY ONLY <1>1, <1>8, <2>2
  <2> QED
    BY ONLY <2>1, <2>2
<1>10. PICK k1 : k1 = [k EXCEPT !.ev = E]
  OBVIOUS
<1>11. /\ Shape(k1) /\ k1.tcb = k.tcb /\ k1.app = k.app /\ k1.rdy = k.rdy /\ k1.tbl = k.tbl /\ k1.list = k.list
       /\ k1.free = k.free /\ k1.ev = E /\ k1.evfree = k.evfree
       /\ k1.cur = k.cur /\ k1.prioCur = k.prioCur /\ k1.lock = k.lock
  BY ONLY <1>1, <1>10 DEF Shape
<1>12. (IF k.tcb[t].pend = "to" THEN OS_EventTaskRemove(k, t, e) ELSE k) = k1
  <2>1. CASE c.pend = "to"
    BY ONLY <1>2, <1>8, <1>10, <2>1 DEF OS_EventTaskRemove
  <2>2. CASE c.pend # "to"
    <3>1. E = k.ev
      BY ONLY <1>8, <2>2
    <3>2. k1 = k
      BY ONLY <1>1, <1>11, <3>1 DEF Shape
    <3> QED
      BY ONLY <1>2, <2>2, <3>2
  <2> QED
    BY ONLY <2>1, <2>2
<1>13. r = [k1 EXCEPT !.tcb[t].stat = {}, !.tcb[t].pend = "ok", !.tcb[t].ev = Null,
                      !.tcb[t].multi = {}, !.tcb[t].msg = Null]
  BY <1>12, Zenon DEF Awake
<1>14. PICK T1, T, k2 : /\ T1 = [k.tcb EXCEPT ![t] = c1] /\ T = [k.tcb EXCEPT ![t] = d]
                        /\ k2 = [k1 EXCEPT !.tcb[t].stat = {}, !.tcb[t].pend = "ok"]
  OBVIOUS
<1>15. k2 = [k1 EXCEPT !.tcb = T1]
  BY ONLY <1>1, <1>2, <1>11, <1>14 DEF Shape
<1>16. /\ Shape(k2) /\ k2.tcb = T1 /\ k2.app = k.app /\ k2.rdy = k.rdy /\ k2.tbl = k.tbl /\ k2.list = k.list
       /\ k2.free = k.free /\ k2.ev = E /\ k2.evfree = k.evfree
       /\ k2.cur = k.cur /\ k2.prioCur = k.prioCur /\ k2.lock = k.lock
  BY ONLY <1>11, <1>15 DEF Shape
<1>17. T1[t] = c1 /\ DOMAIN T1 = Task /\ T = [T1 EXCEPT ![t] = d]
  BY ONLY <1>1, <1>14
<1>18. r = [k2 EXCEPT !.tcb = T]
  <2>1. r = [k2 EXCEPT !.tcb[t].ev = Null, !.tcb[t].multi = {}, !.tcb[t].msg = Null]
    BY ONLY <1>13, <1>14
  <2> QED
    BY ONLY <1>5, <1>16, <1>17, <2>1 DEF Shape
<1>19. /\ Shape(r) /\ r.tcb = T /\ r.app = k.app /\ r.rdy = k.rdy /\ r.tbl = k.tbl /\ r.list = k.list
       /\ r.ev = E /\ r.evfree = k.evfree
       /\ r.cur = k.cur /\ r.prioCur = k.prioCur /\ r.lock = k.lock
  BY ONLY <1>16, <1>18 DEF Shape
<1>20. T \in [Task -> MutexTcb] /\ T[t] = d /\ \A u \in Task : u # t => T[u] = k.tcb[u]
  BY ONLY <1>1, <1>7, <1>14
<1> QED
  BY ONLY <1>2, <1>6, <1>9, <1>19, <1>20 DEF Awoken

LEMMA MutexWakes ==
  ASSUME NEW t, MutexInv, MutexWake(t)
  PROVE  MutexState(os', pc', has')
<1>1. PICK k, e, r, s, G, p, H : k = os /\ e = pc[t].ev /\ r = os' /\ s = pc' /\ G = has' /\ p = pc /\ H = has
  OBVIOUS
<1>2. /\ t = k.cur /\ p[t].at = "wake" /\ r = Awake(k, t, e) /\ s = [p EXCEPT ![t] = InApp] /\ e = p[t].ev
      /\ G = IF k.tcb[t].pend = "ok" THEN [H EXCEPT ![t] = @ \cup {e}] ELSE H
  BY <1>1 DEF MutexWake, Wakes, At, Return, Has
<1>3. MutexState(k, p, H)
  BY <1>1 DEF MutexInv
<1>4. /\ t \in k.list /\ t \in Task /\ Formed(p[t]) /\ p = [u \in Task |-> p[u]] /\ MutexTables(k, p, H)
      /\ MutexKernel(k) /\ Shape(k) /\ k.tcb[t] \in MutexTcb
      /\ (p[t].at \notin {"sched", "block"} => k.tcb[t].prio \in k.rdy /\ k.tcb[t].dly = 0 /\ k.tcb[t].stat = {})
      /\ (p[t].at # "app" => t # Idle)
  <2>1. t = k.cur
    BY ONLY <1>2
  <2> QED
    BY ONLY <1>3, <2>1, MutexRunner
<1>5. k.tcb[t].prio \in k.rdy /\ k.tcb[t].dly = 0 /\ k.tcb[t].stat = {} /\ t # Idle /\ Blk(p, t) /\ k.tcb[t].pend \in {"ok", "to"}
  <2>1. k.tcb[t].pend \in {"ok", "to"}
    BY ONLY <1>4 DEF MutexTcb
  <2> QED
    BY ONLY <1>2, <1>4, <2>1 DEF Blk
<1>6. /\ MutexPrios(k) /\ MutexEcbs(k) /\ MutexPc(k, p) /\ MutexStats(k, p)
      /\ MutexCalls(k, p) /\ MutexHas(k, p, H) /\ MutexWaits(k, p) /\ Outranks(k) /\ MutexCpu(k, p)
  BY ONLY <1>3 DEF MutexState, MutexTables
<1>7. e \in DOMAIN k.ev /\ k.list \subseteq Task /\ Idle \in Task /\ \A u \in k.list : k.tcb[u].prio \in Prio
  <2>1. e \in DOMAIN k.ev
    BY ONLY <1>2, <1>4, <1>5, <1>6 DEF MutexPc
  <2> QED
    BY ONLY <1>4, <2>1, MutexBasics
<1>8. Awoken(k, r, t, e)
  <2>1. MutexKernel(k) /\ e \in DOMAIN k.ev /\ t \in Task /\ r = Awake(k, t, e)
    BY ONLY <1>2, <1>4, <1>7
  <2> QED
    BY ONLY <2>1, MutexAwoken
<1>9. PICK T, E : T = r.tcb /\ E = r.ev
  OBVIOUS
<1>10. /\ Shape(r) /\ r.tcb = T /\ r.app = k.app /\ r.rdy = k.rdy /\ r.tbl = k.tbl /\ r.list = k.list
       /\ r.ev = E /\ r.evfree = k.evfree /\ r.cur = k.cur /\ r.prioCur = k.prioCur /\ r.lock = k.lock
       /\ T \in [Task -> MutexTcb] /\ (\A u \in Task : u # t => T[u] = k.tcb[u])
       /\ T[t].prio = k.tcb[t].prio /\ T[t].stat = {} /\ T[t].pend = "ok" /\ T[t].dly = 0 /\ T[t].ev = Null
  BY ONLY <1>5, <1>8, <1>9 DEF Awoken
<1>11. /\ E \in [DOMAIN k.ev -> MutexEcb] /\ (\A f \in DOMAIN k.ev : f # e => E[f] = k.ev[f])
       /\ E[e].type = k.ev[e].type /\ E[e].cnt = k.ev[e].cnt /\ E[e].ptr = k.ev[e].ptr
       /\ E[e].wait = IF k.tcb[t].pend = "to" THEN k.ev[e].wait \ {k.tcb[t].prio} ELSE k.ev[e].wait
  BY ONLY <1>8, <1>9 DEF Awoken
<1>12. /\ DOMAIN E = DOMAIN k.ev
       /\ \A f \in DOMAIN k.ev : E[f].type = k.ev[f].type /\ E[f].cnt = k.ev[f].cnt /\ E[f].ptr = k.ev[f].ptr
  BY ONLY <1>11
<1>13. \A u \in Task : T[u].prio = k.tcb[u].prio
  BY ONLY <1>10
<1>14. \A u \in k.list : u # t => k.tcb[u].prio # k.tcb[t].prio
  BY ONLY <1>4, <1>6, PriosApart
<1>15. \A f \in DOMAIN k.ev : E[f].wait = k.ev[f].wait \ {k.tcb[t].prio}
  <2>1. ASSUME NEW f \in DOMAIN k.ev, f # e \/ k.tcb[t].pend # "to" PROVE k.tcb[t].prio \notin k.ev[f].wait
    <3>1. k.tcb[t].prio \in k.ev[f].wait => p[t].ev = f /\ Dozing(k.tcb[t])
      BY ONLY <1>4, <1>6, <2>1 DEF MutexWaits
    <3> QED
      BY ONLY <1>2, <1>5, <2>1, <3>1 DEF Dozing
  <2> QED
    BY ONLY <1>11, <2>1
<1>16. s = [u \in Task |-> s[u]] /\ (\A u \in Task : u # t => s[u] = p[u]) /\ s[t] = InApp
  BY ONLY <1>2, <1>4
<1>17. Formed(s[t]) /\ s[t].at = "app" /\ ~ Blk(s, t) /\ s[t].at \notin InMutex
  BY ONLY <1>16 DEF Formed, Blk, InApp, InMutex
<1>18. MutexKernel(r)
  <2>1. ASSUME NEW u \in k.list PROVE ReadyAt(r, u)
    <3>1. CASE u = t
      BY ONLY <1>5, <1>10, <3>1 DEF ReadyAt
    <3>2. CASE u # t
      <4>1. ReadyAt(k, u)
        BY ONLY <1>4 DEF MutexKernel
      <4> QED
        BY ONLY <1>7, <1>10, <2>1, <3>2, <4>1 DEF ReadyAt
    <3> QED
      BY ONLY <3>1, <3>2
  <2>2. DOMAIN k.ev = DOMAIN App[k.app].ev
    BY ONLY <1>4 DEF MutexKernel
  <2>3. T[Idle] = k.tcb[Idle]
    BY ONLY <1>5, <1>7, <1>10
  <2> QED
    BY ONLY <1>4, <1>7, <1>10, <1>11, <1>12, <1>13, <2>1, <2>2, <2>3 DEF MutexKernel
<1>19. MutexPrios(r)
  BY ONLY <1>6, <1>7, <1>10, <1>12, <1>13 DEF MutexPrios, Own
<1>20. MutexEcbs(r)
  <2>1. \A f \in DOMAIN k.ev : k.ev[f].wait = {} => E[f].wait = {}
    BY ONLY <1>15
  <2> QED
    BY ONLY <1>6, <1>10, <1>12, <2>1 DEF MutexEcbs, Own
<1>21. MutexPc(r, s)
  BY ONLY <1>6, <1>7, <1>10, <1>12, <1>16, <1>17 DEF MutexPc, Blk
<1>22. MutexStats(r, s)
  <2>1. ASSUME NEW u \in k.list
        PROVE  /\ Dozing(T[u]) \/ T[u].ev # Null => Blk(s, u)
               /\ Blk(s, u) /\ T[u].stat = {} => T[u].dly = 0
               /\ s[u].at \in InMutex => T[u].dly = 0
               /\ T[u].pend = "to" => T[u].stat = {}
    <3>1. CASE u = t
      BY ONLY <1>10, <1>17, <3>1 DEF Dozing
    <3>2. CASE u # t
      BY ONLY <1>6, <1>7, <1>10, <1>16, <2>1, <3>2 DEF MutexStats, Blk
    <3> QED
      BY ONLY <3>1, <3>2
  <2> QED
    BY ONLY <1>10, <2>1 DEF MutexStats
<1>23. MutexCalls(r, s)
  <2>1. \A u \in Task : s[u].at \in InMutex => s[u] = p[u]
    BY ONLY <1>16, <1>17
  <2>2. \A u \in Task : s[u].at \in InMutex => E[s[u].ev].type = "mutex"
    <3>1. \A u \in Task : p[u].at \in InMutex => p[u].ev \in DOMAIN k.ev /\ k.ev[p[u].ev].type = "mutex"
      BY ONLY <1>6 DEF MutexPc, MutexCalls
    <3> QED
      BY ONLY <1>12, <2>1, <3>1
  <2>3. ASSUME NEW u \in Task, s[u].at = "mudel"
        PROVE  /\ "mudel" \in App[k.app].ops /\ s[u].n \in {0, 1} /\ \A w \in Task : s[w].at \in InMutex => w = u
               /\ E[s[u].ev].ptr # Null => s[u].n = 1
               /\ \A w \in k.list : w = E[s[u].ev].ptr /\ w # u =>
                    /\ k.cur # w /\ T[w].prio \in k.rdy
                    /\ T[u].prio < T[w].prio \/ (k.lock > 0 /\ k.cur = u)
    <3>1. s[u] = p[u] /\ p[u].at = "mudel" /\ p[u].at \in InMutex
      BY ONLY <2>1, <2>3 DEF InMutex
    <3>2. p[u].ev \in DOMAIN k.ev
      BY ONLY <1>6, <2>3, <3>1 DEF MutexPc
    <3>3. E[s[u].ev].ptr = k.ev[p[u].ev].ptr
      BY ONLY <1>12, <3>1, <3>2
    <3>4. /\ "mudel" \in App[k.app].ops /\ p[u].n \in {0, 1} /\ (\A w \in Task : p[w].at \in InMutex => w = u)
          /\ k.ev[p[u].ev].ptr # Null => p[u].n = 1
      BY ONLY <1>6, <2>3, <3>1 DEF MutexCalls
    <3>5. \A w \in k.list : w = k.ev[p[u].ev].ptr /\ w # u =>
            /\ k.cur # w /\ k.tcb[w].prio \in k.rdy
            /\ k.tcb[u].prio < k.tcb[w].prio \/ (k.lock > 0 /\ k.cur = u)
      BY ONLY <1>6, <2>3, <3>1 DEF MutexCalls
    <3>6. \A w \in Task : s[w].at \in InMutex => w = u
      BY ONLY <2>1, <3>4
    <3> QED
      BY ONLY <1>7, <1>13, <2>3, <3>1, <3>3, <3>4, <3>5, <3>6
  <2> QED
    BY ONLY <1>10, <2>2, <2>3 DEF MutexCalls
<1>24. MutexHas(r, s, G)
  <2>0. H = [u \in Task |-> H[u]] /\ H[t] = {}
    BY ONLY <1>4, <1>5, <1>6 DEF MutexHas
  <2>1. /\ G = [u \in Task |-> G[u]] /\ (\A u \in Task : u # t => G[u] = H[u])
        /\ G[t] = IF k.tcb[t].pend = "ok" THEN {e} ELSE {}
    BY ONLY <1>2, <1>4, <2>0
  <2>2. ASSUME NEW u \in Task, NEW f \in DOMAIN k.ev PROVE Told(r, s, G, u, f) <=> Told(k, p, H, u, f)
    <3>1. CASE u = t
      <4>1. Told(r, s, G, t, f) <=> f \in G[t]
        BY ONLY <1>17 DEF Told
      <4>2. Told(k, p, H, t, f) <=> f = e /\ k.tcb[t].pend = "ok"
        BY ONLY <1>2, <1>5, <2>0 DEF Told, Dozing
      <4> QED
        BY ONLY <2>1, <3>1, <4>1, <4>2
    <3>2. CASE u # t
      BY ONLY <1>10, <1>16, <2>1, <2>2, <3>2 DEF Told, Blk
    <3> QED
      BY ONLY <3>1, <3>2
  <2>3. \A u \in Task : s[u].at \in {"muaccept", "mupend"} \/ Blk(s, u) => G[u] = {}
    BY ONLY <1>6, <1>16, <1>17, <2>1 DEF MutexHas, Blk
  <2>4. \A f \in DOMAIN k.ev, u \in Task :
          /\ k.ev[f].ptr = u => Told(k, p, H, u, f)
          /\ k.ev[f].type = "mutex" /\ Told(k, p, H, u, f) /\ "mudel" \notin App[k.app].ops => k.ev[f].ptr = u
    BY ONLY <1>6 DEF MutexHas
  <2>5. G = [u \in Task |-> G[u]]
    BY ONLY <2>1
  <2> QED
    BY ONLY <1>10, <1>12, <2>2, <2>3, <2>4, <2>5 DEF MutexHas
<1>25. MutexWaits(r, s)
  <2>1. ASSUME NEW f \in DOMAIN k.ev, NEW u \in k.list
        PROVE  T[u].prio \in E[f].wait <=> Blk(s, u) /\ s[u].ev = f /\ Dozing(T[u])
    <3>1. CASE u = t
      BY ONLY <1>10, <1>15, <1>17, <2>1, <3>1
    <3>2. CASE u # t
      <4>1. u \in Task /\ (k.tcb[u].prio \in k.ev[f].wait <=> Blk(p, u) /\ p[u].ev = f /\ Dozing(k.tcb[u]))
        BY ONLY <1>6, <1>7, <2>1 DEF MutexWaits
      <4> QED
        BY ONLY <1>10, <1>14, <1>15, <1>16, <2>1, <3>2, <4>1 DEF Blk
    <3> QED
      BY ONLY <3>1, <3>2
  <2>2. ASSUME NEW f \in DOMAIN k.ev, NEW x \in E[f].wait PROVE \E u \in k.list : T[u].prio = x
    <3>1. x \in k.ev[f].wait
      BY ONLY <1>15, <2>2
    <3>2. \E u \in k.list : k.tcb[u].prio = x
      BY ONLY <1>6, <2>2, <3>1 DEF MutexWaits
    <3> QED
      BY ONLY <1>7, <1>13, <3>2
  <2> QED
    BY ONLY <1>10, <1>12, <2>1, <2>2 DEF MutexWaits
<1>26. Outranks(r)
  <2>1. ASSUME NEW f \in DOMAIN k.ev, k.ev[f].ptr # Null, NEW x \in E[f].wait
        PROVE  T[k.ev[f].ptr].prio < x
    <3>1. k.ev[f].ptr \in Task
      BY ONLY <1>6, <1>7, <2>1 DEF MutexEcbs
    <3>2. k.tcb[k.ev[f].ptr].prio < x
      BY ONLY <1>6, <1>15, <2>1 DEF Outranks
    <3> QED
      BY ONLY <1>13, <3>1, <3>2
  <2> QED
    BY ONLY <1>10, <1>12, <2>1 DEF Outranks
<1>27. MutexCpu(r, s)
  <2>0. CurKnown(k)
    BY ONLY <1>6 DEF MutexCpu
  <2>1. CurKnown(r) /\ T[t].prio = k.tcb[t].prio
    BY ONLY <2>0, <1>2, <1>6, <1>10 DEF CurKnown
  <2>2. \A f \in DOMAIN k.ev : E[f].ptr = k.ev[f].ptr
    BY ONLY <1>12
  <2>3. k.lock = 0
    BY ONLY <1>2, <1>6 DEF MutexCpu
  <2>4. IF k.prioCur = k.tcb[t].prio THEN \A x \in k.rdy : k.prioCur <= x
        ELSE \A f \in DOMAIN k.ev : k.ev[f].ptr \in {Null, t}
    BY ONLY <1>2, <1>6, <2>3 DEF MutexCpu
  <2>5. r.cur = t /\ T[t] = r.tcb[r.cur] /\ r.prioCur = k.prioCur /\ r.rdy = k.rdy /\ r.lock = 0 /\ r.ev = E
    BY ONLY <1>2, <1>10, <2>3
  <2>6. s[r.cur].at = "app" /\ r.tcb[r.cur].prio = k.tcb[t].prio
    BY ONLY <1>17, <2>1, <2>5
  <2>7. IF r.prioCur = r.tcb[r.cur].prio THEN \A x \in r.rdy : r.prioCur <= x
        ELSE \A f \in DOMAIN r.ev : r.ev[f].ptr \in {Null, r.cur}
    <3>1. DOMAIN r.ev = DOMAIN k.ev /\ \A f \in DOMAIN k.ev : r.ev[f].ptr = k.ev[f].ptr
      BY ONLY <1>12, <2>2, <2>5
    <3>2. CASE k.prioCur = k.tcb[t].prio
      BY ONLY <2>4, <2>5, <2>6, <3>2
    <3>3. CASE k.prioCur # k.tcb[t].prio
      BY ONLY <2>4, <2>5, <2>6, <3>1, <3>3
    <3> QED
      BY ONLY <3>2, <3>3
  <2>8. r.tcb[r.cur].prio \in r.rdy
    BY ONLY <1>5, <2>5, <2>6
  <2> QED
    BY ONLY <2>1, <2>5, <2>6, <2>7, <2>8 DEF MutexCpu
<1> QED
  <2>1. MutexState(r, s, G)
    BY ONLY <1>18, <1>19, <1>20, <1>21, <1>22, <1>23, <1>24, <1>25, <1>26, <1>27 DEF MutexState, MutexTables
  <2> QED
    BY ONLY <1>1, <2>1
-----------------------------------------------------------------------------
\* What Readied does for the waiters W of the mutex e.
ReadiedAs(k, e, W, r) ==
  /\ Shape(r) /\ r.app = k.app /\ r.tbl = k.tbl /\ r.list = k.list /\ r.evfree = k.evfree
  /\ r.cur = k.cur /\ r.prioCur = k.prioCur /\ r.lock = k.lock
  /\ r.tcb \in [Task -> MutexTcb] /\ (\A u \in Task : u \notin W => r.tcb[u] = k.tcb[u])
  /\ \A u \in W : r.tcb[u].prio = k.tcb[u].prio /\ r.tcb[u].stat = {} /\ r.tcb[u].pend = "ok" /\ r.tcb[u].dly = 0
  /\ r.rdy = k.rdy \cup {k.tcb[u].prio : u \in W}
  /\ r.ev \in [DOMAIN k.ev -> MutexEcb] /\ (\A f \in DOMAIN k.ev : f # e => r.ev[f] = k.ev[f])
  /\ r.ev[e].type = k.ev[e].type /\ r.ev[e].cnt = k.ev[e].cnt /\ r.ev[e].ptr = k.ev[e].ptr
  /\ r.ev[e].wait = k.ev[e].wait \ {k.tcb[u].prio : u \in W}
WaitEnded(c, d) ==
  d \in MutexTcb /\ d.prio = c.prio /\ d.stat = {} /\ d.pend = "ok" /\ d.dly = 0
LEMMA WaitEnds ==
  ASSUME NEW c \in MutexTcb, NEW e PROVE WaitEnded(c, WaitOver(c, e, Null, "mutex", "ok"))
<1>1. TcbRecord(c) /\ c.stat \ {"mutex"} = {} /\ c.multi = {}
  BY DEF TcbRecord, MutexTcb
<1>2. PICK d : d = [c EXCEPT !.dly = 0, !.msg = Null, !.stat = {}, !.pend = "ok"]
  OBVIOUS
<1>3. TcbRecord(d) /\ d.prio = c.prio /\ d.stat = {} /\ d.pend = "ok" /\ d.dly = 0 /\ d.ev = c.ev /\ d.multi = c.multi
      /\ d.msg = Null /\ d.delreq = c.delreq
  BY ONLY <1>1, <1>2 DEF TcbRecord
<1>4. WaitOver(c, e, Null, "mutex", "ok") = d
  BY ONLY <1>1, <1>2 DEF WaitOver, TcbRecord
<1>5. d \in MutexTcb
  BY ONLY <1>3, c \in MutexTcb DEF MutexTcb, TcbRecord
<1> QED
  BY ONLY <1>3, <1>4, <1>5 DEF WaitEnded

LEMMA MutexReadied ==
  ASSUME NEW k, Shape(k), k.tcb \in [Task -> MutexTcb], k.ev \in [DOMAIN k.ev -> MutexEcb], NEW e \in DOMAIN k.ev,
         NEW W \in SUBSET Task, NEW r, r = Readied(k, e, W, Null, "mutex", "ok")
  PROVE  ReadiedAs(k, e, W, r)
<1>1. PICK T, D, E :
        /\ T = [t \in Task |-> IF t \in W THEN WaitOver(k.tcb[t], e, Null, "mutex", "ok") ELSE k.tcb[t]]
        /\ D = k.rdy \cup {k.tcb[t].prio : t \in {u \in W : "suspend" \notin k.tcb[u].stat}}
        /\ E = [f \in DOMAIN k.ev |->
                  LeftBy(k.ev[f], {k.tcb[t].prio : t \in {u \in W : f \in {e} \cup k.tcb[u].multi}})]
  OBVIOUS
<1>2. r = [k EXCEPT !.tcb = T, !.rdy = D, !.ev = E]
  BY ONLY <1>1, Shape(k), r = Readied(k, e, W, Null, "mutex", "ok") DEF Readied, Shape
<1>3. /\ Shape(r) /\ r.tcb = T /\ r.rdy = D /\ r.app = k.app /\ r.tbl = k.tbl /\ r.list = k.list
      /\ r.ev = E /\ r.evfree = k.evfree /\ r.cur = k.cur /\ r.prioCur = k.prioCur /\ r.lock = k.lock
  BY ONLY <1>2, Shape(k) DEF Shape
<1>4. \A u \in Task : k.tcb[u] \in MutexTcb
  OBVIOUS
<1>5. \A u \in Task : "suspend" \notin k.tcb[u].stat /\ k.tcb[u].multi = {}
  BY ONLY <1>4 DEF MutexTcb
<1>6. \A u \in W : WaitEnded(k.tcb[u], WaitOver(k.tcb[u], e, Null, "mutex", "ok"))
  <2>1. ASSUME NEW u \in W PROVE WaitEnded(k.tcb[u], WaitOver(k.tcb[u], e, Null, "mutex", "ok"))
    <3>1. k.tcb[u] \in MutexTcb
      BY ONLY <1>4, <2>1
    <3> QED
      BY ONLY <3>1, WaitEnds
  <2> QED
    BY ONLY <2>1
<1>7. \A u \in W : WaitEnded(k.tcb[u], T[u])
  BY ONLY <1>1, <1>6, W \in SUBSET Task
<1>8. \A u \in Task : u \notin W => T[u] = k.tcb[u]
  BY ONLY <1>1
<1>9. T \in [Task -> MutexTcb]
  <2>1. \A u \in Task : T[u] \in MutexTcb
    BY ONLY <1>4, <1>7, <1>8 DEF WaitEnded
  <2>2. T = [u \in Task |-> T[u]]
    BY ONLY <1>1
  <2> QED
    BY ONLY <2>1, <2>2
<1>10. D = k.rdy \cup {k.tcb[u].prio : u \in W}
  <2>1. {u \in W : "suspend" \notin k.tcb[u].stat} = W
    BY ONLY <1>5, W \in SUBSET Task
  <2> QED
    BY ONLY <1>1, <2>1
<1>11. ASSUME NEW f \in DOMAIN k.ev
       PROVE  E[f] = LeftBy(k.ev[f], IF f = e THEN {k.tcb[u].prio : u \in W} ELSE {})
  <2>1. {u \in W : f \in {e} \cup k.tcb[u].multi} = IF f = e THEN W ELSE {}
    BY ONLY <1>5, W \in SUBSET Task
  <2>2. E[f] = LeftBy(k.ev[f], {k.tcb[t].prio : t \in {u \in W : f \in {e} \cup k.tcb[u].multi}})
    BY ONLY <1>1, <1>11
  <2>3. CASE f = e
    BY ONLY <2>1, <2>2, <2>3
  <2>4. CASE f # e
    <3>1. {k.tcb[t].prio : t \in {u \in W : f \in {e} \cup k.tcb[u].multi}} = {}
      BY ONLY <2>1, <2>4
    <3> QED
      BY ONLY <2>2, <2>4, <3>1
  <2> QED
    BY ONLY <2>3, <2>4
<1>12. \A f \in DOMAIN k.ev : f # e => E[f] = k.ev[f]
  <2>1. ASSUME NEW f \in DOMAIN k.ev, f # e PROVE E[f] = k.ev[f]
    <3>1. PICK c : c = k.ev[f] /\ c \in MutexEcb
      BY <2>1
    <3>2. [c EXCEPT !.wait = @ \ {}] = c
      BY ONLY <3>1 DEF MutexEcb
    <3>3. E[f] = LeftBy(c, {})
      BY ONLY <1>11, <2>1, <3>1
    <3> QED
      BY ONLY <3>1, <3>2, <3>3 DEF LeftBy
  <2> QED
    BY ONLY <2>1
<1>13. /\ E[e] \in MutexEcb /\ E[e].type = k.ev[e].type /\ E[e].cnt = k.ev[e].cnt /\ E[e].ptr = k.ev[e].ptr
       /\ E[e].wait = k.ev[e].wait \ {k.tcb[u].prio : u \in W}
  <2>1. PICK c, X : c = k.ev[e] /\ c \in MutexEcb /\ X = {k.tcb[u].prio : u \in W}
    OBVIOUS
  <2>2. PICK d : d = [c EXCEPT !.wait = @ \ X]
    OBVIOUS
  <2>3. d \in MutexEcb /\ d.type = c.type /\ d.cnt = c.cnt /\ d.ptr = c.ptr /\ d.wait = c.wait \ X
    BY ONLY <2>1, <2>2 DEF MutexEcb
  <2>4. E[e] = LeftBy(c, X)
    BY ONLY <1>11, <2>1, e \in DOMAIN k.ev
  <2>5. E[e] = d
    BY ONLY <2>2, <2>4 DEF LeftBy
  <2> QED
    BY ONLY <2>1, <2>3, <2>5
<1>14. E \in [DOMAIN k.ev -> MutexEcb]
  <2>1. \A f \in DOMAIN k.ev : E[f] \in MutexEcb
    BY <1>12, <1>13
  <2>2. E = [f \in DOMAIN k.ev |-> E[f]]
    BY ONLY <1>1
  <2> QED
    BY ONLY <2>1, <2>2
<1>15. \A u \in W : T[u].prio = k.tcb[u].prio /\ T[u].stat = {} /\ T[u].pend = "ok" /\ T[u].dly = 0
  BY ONLY <1>7 DEF WaitEnded
<1> QED
  BY ONLY <1>3, <1>8, <1>9, <1>10, <1>12, <1>13, <1>14, <1>15 DEF ReadiedAs

\* The owner u of the mutex e is back at its own priority.
Demotes(k, k1, u) ==
  /\ Shape(k1) /\ k1.ev = k.ev /\ k1.app = k.app /\ k1.list = k.list /\ k1.evfree = k.evfree
  /\ k1.cur = k.cur /\ k1.prioCur = k.prioCur /\ k1.lock = k.lock
  /\ k1.tcb[u].prio = Own(k, u) /\ Own(k, u) \in k1.rdy /\ (\A y \in k1.rdy : y \in k.rdy \/ y = Own(k, u))
  /\ k1.tbl[Pip] = Reserved /\ (\A x \in Prio : x # Pip => k1.tbl[x] = k.tbl[x])
  /\ \A v \in Task : v # u => k1.tcb[v] = k.tcb[v]
LEMMA MutexDemoted ==
  ASSUME NEW k, NEW p, NEW H, MutexTables(k, p, H), \A v \in Task : p[v].at # "mudel",
         NEW e \in DOMAIN k.ev, NEW u, u = k.ev[e].ptr, u # Null,
         k.tcb[u].prio \in k.rdy, NEW r, NEW q0,
         q0 = IF k.tcb[u].prio = Pip THEN OSMutex_RdyAtPrio(k, u, Own(k, u)) ELSE k, r = [q0 EXCEPT !.tbl[Pip] = Reserved]
  PROVE  MutexTables(r, p, H) /\ Demotes(k, r, u)
<1>0. Reprioed(k, u, Own(k, u), r)
  BY ONLY MutexTables(k, p, H), e \in DOMAIN k.ev, u = k.ev[e].ptr, u # Null, k.tcb[u].prio \in k.rdy,
          q0 = IF k.tcb[u].prio = Pip THEN OSMutex_RdyAtPrio(k, u, Own(k, u)) ELSE k, r = [q0 EXCEPT !.tbl[Pip] = Reserved],
          MutexDemotes, Zenon
<1>1a. PICK T, R, B : Reprio(k, u, Own(k, u), T, R, B) /\ r = [k EXCEPT !.rdy = R, !.tcb = T, !.tbl = B]
  BY ONLY <1>0, Zenon DEF Reprioed
<1>2. MutexTables(r, p, H)
  <2>1. /\ MutexTables(k, p, H) /\ e \in DOMAIN k.ev /\ u = k.ev[e].ptr /\ u # Null /\ Own(k, u) \in {Pip, Own(k, u)}
        /\ \A v \in Task : p[v].at # "mudel"
    BY Zenon
  <2>2. Reprio(k, u, Own(k, u), T, R, B) /\ r = [k EXCEPT !.rdy = R, !.tcb = T, !.tbl = B]
    BY ONLY <1>1a, Zenon
  <2> QED
    BY ONLY <2>1, <2>2, MutexReprio, Zenon
<1>1. PICK x : x = Own(k, u) /\ Reprio(k, u, x, T, R, B) /\ r = [k EXCEPT !.rdy = R, !.tcb = T, !.tbl = B]
  BY ONLY <1>1a, Zenon
<1>3. MutexKernel(k) /\ u \in k.list
  BY OwnerAlone, Zenon DEF MutexTables
<1>4. x # Pip /\ Shape(k) /\ k.rdy \subseteq Prio
  <2>1. Own(k, u) \in Prio /\ Pip \in Prio /\ Pip < Own(k, u) /\ LowestPrio \in Nat /\ Shape(k)
    BY ONLY <1>3, MutexBasics, Zenon
  <2>2. Own(k, u) # Pip
    BY ONLY <2>1 DEF Prio
  <2> QED
    BY ONLY <1>1, <1>3, <2>1, <2>2, Zenon DEF MutexKernel
<1>5. /\ Shape(r) /\ r.tcb = T /\ r.rdy = R /\ r.app = k.app /\ r.tbl = B /\ r.list = k.list /\ r.evfree = k.evfree
      /\ r.ev = k.ev /\ r.cur = k.cur /\ r.prioCur = k.prioCur /\ r.lock = k.lock
  BY ONLY <1>1, <1>4 DEF Shape
<1>6. /\ (\A v \in Task : v # u => T[v] = k.tcb[v]) /\ T[u].prio = x /\ R \subseteq Prio /\ (x \in R <=> k.tcb[u].prio \in k.rdy)
      /\ (\A y \in Prio : y # x => (y \in R <=> y \in k.rdy /\ y # k.tcb[u].prio))
      /\ (\A y \in Prio : y # Pip => B[y] = k.tbl[y]) /\ B[Pip] = (IF x = Pip THEN u ELSE Reserved)
  BY ONLY <1>1 DEF Reprio
<1>7. Demotes(k, r, u)
  BY ONLY <1>1, <1>4, <1>5, <1>6, k.tcb[u].prio \in k.rdy DEF Demotes
<1> QED
  BY ONLY <1>2, <1>7, Zenon
-----------------------------------------------------------------------------
\* The owner t gives the mutex up: G is what tasks have then.
GivesUp(H, G, t, e) == G = [u \in Task |-> G[u]] /\ G[t] = H[t] \ {e} /\ \A u \in Task : u # t => G[u] = H[u]
\* Nobody waits: nobody has it.
MutexDropped(k, s, r, G) ==
  /\ MutexTables(r, s, G) /\ Outranks(r) /\ r.tcb = k.tcb /\ r.rdy = k.rdy /\ r.tbl = k.tbl
  /\ r.cur = k.cur /\ r.prioCur = k.prioCur /\ r.lock = k.lock
  /\ \A f \in DOMAIN r.ev : r.ev[f].ptr = Null
LEMMA MutexDrops ==
  ASSUME NEW k, NEW s, NEW H, MutexTables(k, s, H), \A v \in Task : s[v].at # "mudel",
         NEW e \in DOMAIN k.ev, NEW t, t = k.ev[e].ptr, t # Null, k.ev[e].wait = {}, s[t].at = "app",
         k.tcb[t].prio = Own(k, t), k.tbl[Pip] = Reserved,
         NEW r, r = Owned(k, e, Null, MutexAvailable), NEW G, GivesUp(H, G, t, e)
  PROVE  MutexDropped(k, s, r, G)
<1>1. /\ t \in k.list /\ t \in Task /\ k.ev[e].type = "mutex"
      /\ (\A w \in k.list : w # t => k.tcb[w].prio = Own(k, w) /\ k.tcb[w].prio # Pip)
      /\ (\A f \in DOMAIN k.ev : f # e => k.ev[f].ptr = Null /\ k.ev[f].type # "mutex")
  BY ONLY MutexTables(k, s, H), e \in DOMAIN k.ev, t = k.ev[e].ptr, t # Null, OwnerAlone
<1>2. /\ MutexKernel(k) /\ MutexPrios(k) /\ MutexEcbs(k) /\ MutexPc(k, s) /\ MutexStats(k, s)
      /\ MutexCalls(k, s) /\ MutexHas(k, s, H) /\ MutexWaits(k, s)
  BY ONLY MutexTables(k, s, H) DEF MutexTables
<1>3. PipOf(k, e) = Pip
  BY ONLY MutexTables(k, s, H), e \in DOMAIN k.ev, <1>1, MutexCount
<1>4. /\ Shape(k) /\ k.ev = [f \in DOMAIN k.ev |-> k.ev[f]] /\ EcbRecord(k.ev[e]) /\ k.list \subseteq Task /\ Null \notin Task
      /\ Pip \in Nat /\ (\A f \in DOMAIN k.ev : k.ev[f] \in MutexEcb) /\ (\A w \in k.list : Own(k, w) # Pip)
  <2>1. /\ Shape(k) /\ k.ev = [f \in DOMAIN k.ev |-> k.ev[f]] /\ EcbRecord(k.ev[e]) /\ k.list \subseteq Task /\ Null \notin Task
        /\ (\A f \in DOMAIN k.ev : k.ev[f] \in MutexEcb) /\ Pip \in Prio /\ LowestPrio \in Nat
        /\ \A w \in k.list : Own(k, w) \in Prio /\ Pip < Own(k, w)
    BY ONLY <1>2, MutexBasics
  <2>2. Pip \in Nat /\ \A w \in k.list : Own(k, w) # Pip
    BY ONLY <2>1 DEF Prio
  <2> QED
    BY ONLY <2>1, <2>2
<1>5. OwnedBy(k, e, Null, MutexAvailable, r)
  <2>1. Shape(k) /\ k.ev = [f \in DOMAIN k.ev |-> k.ev[f]] /\ e \in DOMAIN k.ev /\ EcbRecord(k.ev[e])
    BY ONLY <1>4
  <2> QED
    BY ONLY <2>1, r = Owned(k, e, Null, MutexAvailable), MutexOwned
<1>a. PICK v : v = r.ev
  OBVIOUS
<1>6. /\ v = r.ev /\ v = [f \in DOMAIN k.ev |-> v[f]] /\ EcbRecord(v[e])
      /\ v[e].type = "mutex" /\ v[e].cnt = 256 * Pip + MutexAvailable /\ v[e].ptr = Null /\ v[e].wait = {}
      /\ (\A f \in DOMAIN k.ev : f # e => v[f] = k.ev[f])
  <2>1. v = r.ev
    BY ONLY <1>a
  <2>2. v = [f \in DOMAIN k.ev |-> v[f]] /\ EcbRecord(v[e]) /\ (\A f \in DOMAIN k.ev : f # e => v[f] = k.ev[f])
    BY ONLY <1>5, <2>1 DEF OwnedBy
  <2>3. v[e].type = k.ev[e].type /\ v[e].cnt = 256 * PipOf(k, e) + MutexAvailable /\ v[e].ptr = Null /\ v[e].wait = k.ev[e].wait
    BY ONLY <1>5, <2>1 DEF OwnedBy
  <2>4. v[e].type = "mutex" /\ v[e].cnt = 256 * Pip + MutexAvailable /\ v[e].wait = {}
    BY ONLY <1>1, <1>3, <2>3, k.ev[e].wait = {}
  <2> QED
    BY ONLY <2>1, <2>2, <2>3, <2>4, Zenon
<1>7. /\ Shape(r) /\ r.tcb = k.tcb /\ r.rdy = k.rdy /\ r.app = k.app /\ r.tbl = k.tbl /\ r.list = k.list /\ r.evfree = k.evfree
      /\ r.ev = v /\ r.cur = k.cur /\ r.prioCur = k.prioCur /\ r.lock = k.lock
  BY ONLY <1>5, <1>6 DEF OwnedBy
<1>8. DOMAIN v = DOMAIN k.ev /\ v \in [DOMAIN k.ev -> MutexEcb]
  <2>1. 256 * Pip + MutexAvailable \in Nat
    BY ONLY <1>4 DEF MutexAvailable
  <2>2. PICK c : c = v[e] /\ EcbRecord(c) /\ c.type = "mutex" /\ c.cnt \in Nat /\ c.ptr = Null /\ c.wait = {}
    BY ONLY <1>6, <2>1
  <2>3. c \in MutexEcb
    BY ONLY <2>2 DEF MutexEcb, EcbRecord
  <2>4. \A f \in DOMAIN k.ev : v[f] \in MutexEcb
    BY ONLY <1>4, <1>6, <2>2, <2>3
  <2> QED
    BY ONLY <1>6, <2>4
<1>9. \A f \in DOMAIN k.ev : v[f].ptr = Null /\ v[f].type = k.ev[f].type /\ v[f].wait = k.ev[f].wait
  <2>1. ASSUME NEW f \in DOMAIN k.ev PROVE v[f].ptr = Null /\ v[f].type = k.ev[f].type /\ v[f].wait = k.ev[f].wait
    <3>1. CASE f = e
      BY ONLY <1>1, <1>6, <3>1, k.ev[e].wait = {}, Zenon
    <3>2. CASE f # e
      BY ONLY <1>1, <1>6, <2>1, <3>2
    <3> QED
      BY ONLY <3>1, <3>2
  <2> QED
    BY ONLY <2>1
<1>10. MutexKernel(r)
  <2>1. \A u \in k.list : ReadyAt(r, u) <=> ReadyAt(k, u)
    BY ONLY <1>7 DEF ReadyAt
  <2>2. DOMAIN k.ev = DOMAIN App[k.app].ev
    BY ONLY <1>2 DEF MutexKernel
  <2> QED
    BY ONLY <1>2, <1>7, <1>8, <2>1, <2>2 DEF MutexKernel
<1>11. MutexPrios(r)
  <2>1. \A w \in k.list : k.tcb[w].prio # Pip
    BY ONLY <1>1, <1>4, k.tcb[t].prio = Own(k, t)
  <2> QED
    BY ONLY <1>2, <1>7, <1>8, <1>9, <2>1 DEF MutexPrios, Own
<1>12. MutexEcbs(r)
  <2>1. ASSUME NEW f \in DOMAIN v
        PROVE  /\ v[f].ptr = Null
               /\ v[f].wait = {}
               /\ v[f].type = "mutex" => f = e
    BY ONLY <1>1, <1>2, <1>6, <1>8, <1>9, <2>1 DEF MutexEcbs
  <2>2. \A f, g \in DOMAIN v : v[f].type = "mutex" /\ v[g].type = "mutex" => f = g
    BY ONLY <2>1
  <2>3. \A f \in DOMAIN v : v[f].type = "mutex" => v[f].cnt = 256 * Pip + MutexAvailable
    BY ONLY <1>6, <2>1
  <2>4. ASSUME NEW f \in DOMAIN r.ev
        PROVE  /\ r.ev[f].ptr = Null => r.ev[f].wait = {}
               /\ r.ev[f].ptr # Null => r.ev[f].type = "mutex" /\ r.ev[f].ptr \in r.list /\ r.ev[f].ptr # Idle
               /\ r.ev[f].type = "mutex" =>
                    /\ r.ev[f].cnt = 256 * Pip + IF r.ev[f].ptr = Null THEN MutexAvailable ELSE Own(r, r.ev[f].ptr)
                    /\ \A g \in DOMAIN r.ev : r.ev[g].type = "mutex" => f = g
    <3>1. f \in DOMAIN v /\ r.ev = v
      BY ONLY <1>7, <2>4
    <3>2. v[f].ptr = Null /\ v[f].wait = {} /\ (v[f].type = "mutex" => v[f].cnt = 256 * Pip + MutexAvailable)
      BY ONLY <2>1, <2>3, <3>1
    <3> QED
      BY ONLY <2>2, <3>1, <3>2
  <2> QED
    BY ONLY <2>4 DEF MutexEcbs
<1>13. MutexPc(r, s) /\ MutexStats(r, s)
  BY ONLY <1>2, <1>7, <1>8 DEF MutexPc, MutexStats
<1>14. MutexCalls(r, s)
  <2>1. \A u \in Task : s[u].at \in InMutex => s[u].ev \in DOMAIN k.ev
    BY ONLY <1>2 DEF MutexPc
  <2> QED
    BY ONLY <1>2, <1>7, <1>9, <2>1, \A w \in Task : s[w].at # "mudel" DEF MutexCalls
<1>15. MutexHas(r, s, G)
  <2>1. G = [u \in Task |-> G[u]] /\ G[t] = H[t] \ {e} /\ \A u \in Task : u # t => G[u] = H[u]
    BY ONLY GivesUp(H, G, t, e) DEF GivesUp
  <2>2. \A u \in Task : s[u].at \in {"muaccept", "mupend"} \/ Blk(s, u) => G[u] = {}
    BY ONLY <1>1, <1>2, <2>1 DEF MutexHas
  <2>3. ~ Told(r, s, G, t, e)
    BY ONLY <2>1, s[t].at = "app" DEF Told, Blk
  <2>4. \A u \in Task : u # t => (Told(r, s, G, u, e) <=> Told(k, s, H, u, e))
    BY ONLY <1>7, <2>1 DEF Told
  <2>5. \A u \in Task : Told(k, s, H, u, e) /\ "mudel" \notin App[k.app].ops => u = t
    BY ONLY <1>1, <1>2, e \in DOMAIN k.ev, t = k.ev[e].ptr DEF MutexHas
  <2>6. ASSUME NEW f \in DOMAIN v, NEW u \in Task
        PROVE  /\ v[f].ptr = u => Told(r, s, G, u, f)
               /\ v[f].type = "mutex" /\ Told(r, s, G, u, f) /\ "mudel" \notin App[k.app].ops => v[f].ptr = u
    <3>1. v[f].ptr # u /\ (v[f].type = "mutex" => f = e)
      BY ONLY <1>1, <1>4, <1>8, <1>9, <2>6
    <3> QED
      BY ONLY <2>3, <2>4, <2>5, <2>6, <3>1
  <2>7. G = [u \in Task |-> G[u]]
    BY ONLY <2>1
  <2> QED
    BY ONLY <1>7, <2>2, <2>6, <2>7 DEF MutexHas
<1>16. MutexWaits(r, s)
  BY ONLY <1>2, <1>7, <1>8, <1>9 DEF MutexWaits
<1>17. Outranks(r) /\ \A f \in DOMAIN r.ev : r.ev[f].ptr = Null
  BY ONLY <1>7, <1>8, <1>9 DEF Outranks
<1> QED
  BY ONLY <1>7, <1>10, <1>11, <1>12, <1>13, <1>14, <1>15, <1>16, <1>17 DEF MutexTables, MutexDropped
-----------------------------------------------------------------------------
\* The waiter w of highest priority gets it.
MutexHandedOn(k, s, r, G, t) ==
  /\ MutexTables(r, s, G) /\ Outranks(r) /\ r.tcb[t] = k.tcb[t] /\ k.rdy \subseteq r.rdy /\ r.tbl = k.tbl
  /\ r.cur = k.cur /\ r.prioCur = k.prioCur /\ r.lock = k.lock
LEMMA MutexHands ==
  ASSUME NEW k, NEW s, NEW H, MutexTables(k, s, H), \A v \in Task : s[v].at # "mudel",
         NEW e \in DOMAIN k.ev, NEW t, t = k.ev[e].ptr, t # Null, s[t].at = "sched",
         k.tcb[t].prio = Own(k, t), k.tbl[Pip] = Reserved,
         NEW w \in k.list, NEW x, x = k.tcb[w].prio, x \in k.ev[e].wait, \A y \in k.ev[e].wait : x <= y,
         NEW k3, k3 = Readied(k, e, {w}, Null, "mutex", "ok"),
         NEW r, r = Owned(k3, e, w, x), NEW G, GivesUp(H, G, t, e)
  PROVE  MutexHandedOn(k, s, r, G, t)
<1>1. /\ t \in k.list /\ t \in Task /\ k.ev[e].type = "mutex"
      /\ (\A u \in k.list : u # t => k.tcb[u].prio = Own(k, u) /\ k.tcb[u].prio # Pip)
      /\ (\A f \in DOMAIN k.ev : f # e => k.ev[f].ptr = Null /\ k.ev[f].type # "mutex")
  BY ONLY MutexTables(k, s, H), e \in DOMAIN k.ev, t = k.ev[e].ptr, t # Null, OwnerAlone
<1>2. /\ MutexKernel(k) /\ MutexPrios(k) /\ MutexEcbs(k) /\ MutexPc(k, s) /\ MutexStats(k, s)
      /\ MutexCalls(k, s) /\ MutexHas(k, s, H) /\ MutexWaits(k, s)
  BY ONLY MutexTables(k, s, H) DEF MutexTables
<1>3. PipOf(k, e) = Pip
  BY ONLY MutexTables(k, s, H), e \in DOMAIN k.ev, <1>1, MutexCount
<1>4. /\ Shape(k) /\ k.list \subseteq Task /\ Null \notin Task /\ Idle \in k.list
      /\ k.tcb \in [Task -> MutexTcb] /\ k.ev \in [DOMAIN k.ev -> MutexEcb]
      /\ Pip \in Nat /\ (\A u \in k.list : Own(k, u) # Pip /\ Own(k, u) \in Prio /\ Own(k, u) \in Nat /\ k.tcb[u].prio \in Prio)
      /\ \A y \in Prio : y \in Nat
  <2>1. /\ Shape(k) /\ k.list \subseteq Task /\ Null \notin Task /\ Idle \in k.list /\ Pip \in Prio /\ LowestPrio \in Nat
        /\ \A u \in k.list : Own(k, u) \in Prio /\ Pip < Own(k, u) /\ k.tcb[u].prio \in Prio
    BY ONLY <1>2, MutexBasics
  <2>2. \A y \in Prio : y \in Nat
    BY ONLY <2>1 DEF Prio
  <2>3. Pip \in Nat /\ \A u \in k.list : Own(k, u) # Pip /\ Own(k, u) \in Nat
    BY ONLY <2>1, <2>2
  <2>4. k.tcb \in [Task -> MutexTcb] /\ k.ev \in [DOMAIN k.ev -> MutexEcb]
    BY ONLY <1>2 DEF MutexKernel
  <2> QED
    BY ONLY <2>1, <2>2, <2>3, <2>4
<1>5. Blk(s, w) /\ s[w].ev = e /\ Dozing(k.tcb[w]) /\ w # t /\ w \in Task /\ w # Idle /\ w # Null
  <2>1. Blk(s, w) /\ s[w].ev = e /\ Dozing(k.tcb[w])
    BY ONLY <1>2, w \in k.list, e \in DOMAIN k.ev, x = k.tcb[w].prio, x \in k.ev[e].wait DEF MutexWaits
  <2>2. w \in Task
    BY ONLY <1>4
  <2>3. w # t
    BY ONLY <2>1, s[t].at = "sched" DEF Blk
  <2>4. w # Idle
    BY ONLY <1>2, <2>1, <2>2 DEF MutexPc, Blk
  <2> QED
    BY ONLY <1>4, <2>1, <2>2, <2>3, <2>4
<1>6. x = Own(k, w) /\ H[w] = {} /\ x \in Prio
  <2>1. MutexTables(k, s, H) /\ w \in k.list /\ (Blk(s, w) \/ s[w].at \in {"muaccept", "mupend"})
        /\ (Blk(s, w) => Dozing(k.tcb[w]))
    BY <1>5
  <2>2. k.tcb[w].prio = Own(k, w) /\ H[w] = {}
    BY ONLY <2>1, WaiterOwnsNone
  <2> QED
    BY ONLY <1>4, <2>2, w \in k.list, x = k.tcb[w].prio
<1>7. PICK W : W = {w}
  OBVIOUS
<1>8. ReadiedAs(k, e, W, k3)
  <2>1. Shape(k) /\ k.tcb \in [Task -> MutexTcb] /\ k.ev \in [DOMAIN k.ev -> MutexEcb] /\ e \in DOMAIN k.ev
        /\ W \in SUBSET Task /\ k3 = Readied(k, e, W, Null, "mutex", "ok")
    BY <1>4, <1>5, <1>7
  <2> QED
    BY ONLY <2>1, MutexReadied
<1>9. PICK T, D, E : T = k3.tcb /\ D = k3.rdy /\ E = k3.ev
  OBVIOUS
<1>10. /\ Shape(k3) /\ k3.app = k.app /\ k3.tbl = k.tbl /\ k3.list = k.list /\ k3.evfree = k.evfree
       /\ k3.cur = k.cur /\ k3.prioCur = k.prioCur /\ k3.lock = k.lock
  BY ONLY <1>8 DEF ReadiedAs
<1>11. /\ T \in [Task -> MutexTcb] /\ (\A u \in Task : u # w => T[u] = k.tcb[u])
       /\ T[w].prio = x /\ T[w].stat = {} /\ T[w].pend = "ok" /\ T[w].dly = 0
  BY ONLY <1>7, <1>8, <1>9, x = k.tcb[w].prio DEF ReadiedAs
<1>12. D = k.rdy \cup {x}
  <2>1. {k.tcb[u].prio : u \in W} = {x}
    BY ONLY <1>7, x = k.tcb[w].prio
  <2> QED
    BY ONLY <1>8, <1>9, <2>1 DEF ReadiedAs
<1>13. /\ E \in [DOMAIN k.ev -> MutexEcb] /\ (\A f \in DOMAIN k.ev : f # e => E[f] = k.ev[f])
       /\ E[e].type = k.ev[e].type /\ E[e].cnt = k.ev[e].cnt /\ E[e].ptr = k.ev[e].ptr
       /\ E[e].wait = k.ev[e].wait \ {x}
  <2>1. {k.tcb[u].prio : u \in W} = {x}
    BY ONLY <1>7, x = k.tcb[w].prio
  <2> QED
    BY ONLY <1>8, <1>9, <2>1 DEF ReadiedAs
<1>14. PipOf(k3, e) = Pip
  BY ONLY <1>3, <1>9, <1>13 DEF PipOf
<1>15. OwnedBy(k3, e, w, x, r)
  <2>1. PICK c : c = E[e] /\ c \in MutexEcb
    BY ONLY <1>13
  <2>2. EcbRecord(c)
    BY ONLY <2>1 DEF EcbRecord, MutexEcb
  <2>3. Shape(k3) /\ k3.ev = [f \in DOMAIN k3.ev |-> k3.ev[f]] /\ e \in DOMAIN k3.ev /\ EcbRecord(k3.ev[e])
    BY ONLY <1>9, <1>10, <1>13, <2>1, <2>2, e \in DOMAIN k.ev
  <2> QED
    BY ONLY <2>3, r = Owned(k3, e, w, x), MutexOwned
<1>16. PICK v : v = r.ev
  OBVIOUS
<1>17. /\ Shape(r) /\ r.tcb = T /\ r.rdy = D /\ r.app = k.app /\ r.tbl = k.tbl /\ r.list = k.list /\ r.evfree = k.evfree
       /\ r.ev = v /\ r.cur = k.cur /\ r.prioCur = k.prioCur /\ r.lock = k.lock
  BY ONLY <1>9, <1>10, <1>15, <1>16 DEF OwnedBy
<1>18. /\ v = [f \in DOMAIN k.ev |-> v[f]] /\ EcbRecord(v[e]) /\ (\A f \in DOMAIN k.ev : f # e => v[f] = k.ev[f])
       /\ v[e].type = "mutex" /\ v[e].cnt = 256 * Pip + x /\ v[e].ptr = w /\ v[e].wait = k.ev[e].wait \ {x}
  <2>1. DOMAIN E = DOMAIN k.ev
    BY ONLY <1>13
  <2>2. /\ v = [f \in DOMAIN E |-> v[f]] /\ EcbRecord(v[e]) /\ (\A f \in DOMAIN E : f # e => v[f] = E[f])
    BY ONLY <1>9, <1>15, <1>16 DEF OwnedBy
  <2>3. v[e].type = E[e].type /\ v[e].cnt = 256 * PipOf(k3, e) + x /\ v[e].ptr = w /\ v[e].wait = E[e].wait
    BY ONLY <1>9, <1>15, <1>16 DEF OwnedBy
  <2> QED
    BY ONLY <1>1, <1>13, <1>14, <2>1, <2>2, <2>3
<1>19. DOMAIN v = DOMAIN k.ev /\ v \in [DOMAIN k.ev -> MutexEcb]
  <2>1. 256 * Pip + x \in Nat
    BY ONLY <1>4, <1>6
  <2>2. k.ev[e].wait \subseteq Prio
    <3>1. k.ev[e] \in MutexEcb
      BY ONLY <1>4
    <3> QED
      BY ONLY <3>1 DEF MutexEcb
  <2>3. PICK c : c = v[e] /\ EcbRecord(c) /\ c.type = "mutex" /\ c.cnt \in Nat /\ c.ptr \in Task /\ c.wait \subseteq Prio
    BY ONLY <1>5, <1>18, <2>1, <2>2
  <2>4. c \in MutexEcb
    BY ONLY <2>3 DEF MutexEcb, EcbRecord
  <2>5. \A f \in DOMAIN k.ev : v[f] \in MutexEcb
    BY ONLY <1>4, <1>18, <2>3, <2>4
  <2> QED
    BY ONLY <1>18, <2>5
<1>20. \A f \in DOMAIN k.ev : v[f].type = k.ev[f].type /\ (v[f].type = "mutex" => f = e) /\ (f # e => v[f].ptr = Null)
  BY ONLY <1>1, <1>18
<1>21. \A u \in k.list : u \in Task /\ (u # w => T[u] = k.tcb[u] /\ k.tcb[u].prio # x) /\ T[u].prio = k.tcb[u].prio
  <2>1. \A u \in k.list : u # w => k.tcb[u].prio # x
    BY ONLY <1>2, PriosApart, w \in k.list, x = k.tcb[w].prio
  <2> QED
    BY ONLY <1>4, <1>11, <2>1, x = k.tcb[w].prio
<1>22. MutexKernel(r)
  <2>1. ASSUME NEW u \in k.list PROVE ReadyAt(r, u)
    <3>1. CASE u = w
      BY ONLY <1>11, <1>12, <1>17, <3>1 DEF ReadyAt
    <3>2. CASE u # w
      <4>1. ReadyAt(k, u)
        BY ONLY <1>2 DEF MutexKernel
      <4> QED
        BY ONLY <1>12, <1>17, <1>21, <2>1, <3>2, <4>1 DEF ReadyAt
    <3> QED
      BY ONLY <3>1, <3>2
  <2>2. ASSUME NEW y \in D PROVE \E u \in k.list : T[u].prio = y
    <3>1. CASE y = x
      BY ONLY <1>11, <3>1, w \in k.list
    <3>2. CASE y # x
      <4>1. PICK u \in k.list : k.tcb[u].prio = y
        BY ONLY <1>2, <1>12, <2>2, <3>2 DEF MutexKernel
      <4> QED
        BY ONLY <1>21, <4>1
    <3> QED
      BY ONLY <3>1, <3>2
  <2>3. T[Idle] = k.tcb[Idle]
    BY ONLY <1>4, <1>5, <1>21
  <2>4. DOMAIN k.ev = DOMAIN App[k.app].ev
    BY ONLY <1>2 DEF MutexKernel
  <2>5. D \subseteq Prio
    <3>1. k.rdy \subseteq Prio
      BY ONLY <1>2 DEF MutexKernel
    <3> QED
      BY ONLY <1>6, <1>12, <3>1
  <2> QED
    BY ONLY <1>2, <1>11, <1>17, <1>19, <2>1, <2>2, <2>3, <2>4, <2>5 DEF MutexKernel
<1>23. MutexPrios(r)
  <2>1. \A u \in k.list : k.tcb[u].prio # Pip
    BY ONLY <1>1, <1>4, k.tcb[t].prio = Own(k, t)
  <2> QED
    BY ONLY <1>2, <1>17, <1>19, <1>20, <1>21, <2>1 DEF MutexPrios, Own
<1>24. MutexEcbs(r)
  <2>1. \A f, g \in DOMAIN v : v[f].type = "mutex" /\ v[g].type = "mutex" => f = g
    BY ONLY <1>19, <1>20
  <2>2. Own(r, w) = x
    BY ONLY <1>6, <1>17 DEF Own
  <2>3. ASSUME NEW f \in DOMAIN r.ev
        PROVE  /\ r.ev[f].ptr = Null => r.ev[f].wait = {}
               /\ r.ev[f].ptr # Null => r.ev[f].type = "mutex" /\ r.ev[f].ptr \in r.list /\ r.ev[f].ptr # Idle
               /\ r.ev[f].type = "mutex" =>
                    /\ r.ev[f].cnt = 256 * Pip + IF r.ev[f].ptr = Null THEN MutexAvailable ELSE Own(r, r.ev[f].ptr)
                    /\ \A g \in DOMAIN r.ev : r.ev[g].type = "mutex" => f = g
    <3>1. f \in DOMAIN v /\ r.ev = v /\ r.list = k.list
      BY ONLY <1>17, <2>3
    <3>2. CASE f = e
      BY ONLY <1>5, <1>18, <2>1, <2>2, <3>1, <3>2, w \in k.list
    <3>3. CASE f # e
      <4>1. v[f].ptr = Null /\ v[f].type # "mutex" /\ v[f] = k.ev[f] /\ f \in DOMAIN k.ev
        BY ONLY <1>18, <1>19, <1>20, <3>1, <3>3
      <4>2. v[f].wait = {}
        BY ONLY <1>2, <4>1 DEF MutexEcbs
      <4> QED
        BY ONLY <3>1, <4>1, <4>2
    <3> QED
      BY ONLY <3>2, <3>3, Zenon
  <2> QED
    BY ONLY <2>3 DEF MutexEcbs
<1>25. MutexPc(r, s)
  BY ONLY <1>2, <1>17, <1>19 DEF MutexPc
<1>26. MutexStats(r, s)
  <2>1. ASSUME NEW u \in k.list
        PROVE  /\ Dozing(T[u]) \/ T[u].ev # Null => Blk(s, u)
               /\ Blk(s, u) /\ T[u].stat = {} => T[u].dly = 0
               /\ s[u].at \in InMutex => T[u].dly = 0
               /\ T[u].pend = "to" => T[u].stat = {}
    <3>1. CASE u = w
      BY ONLY <1>5, <1>11, <3>1
    <3>2. CASE u # w
      BY ONLY <1>2, <1>21, <2>1, <3>2 DEF MutexStats
    <3> QED
      BY ONLY <3>1, <3>2
  <2> QED
    BY ONLY <1>17, <2>1 DEF MutexStats
<1>27. MutexCalls(r, s)
  <2>1. \A u \in Task : s[u].at \in InMutex => s[u].ev \in DOMAIN k.ev
    BY ONLY <1>2 DEF MutexPc
  <2> QED
    BY ONLY <1>2, <1>17, <1>20, <2>1, \A u \in Task : s[u].at # "mudel" DEF MutexCalls
<1>28. MutexHas(r, s, G)
  <2>1. G = [u \in Task |-> G[u]] /\ G[t] = H[t] \ {e} /\ \A u \in Task : u # t => G[u] = H[u]
    BY ONLY GivesUp(H, G, t, e) DEF GivesUp
  <2>2. \A u \in Task : s[u].at \in {"muaccept", "mupend"} \/ Blk(s, u) => G[u] = {}
    BY ONLY <1>1, <1>2, <2>1 DEF MutexHas
  <2>3. ~ Told(r, s, G, t, e)
    BY ONLY <2>1, s[t].at = "sched" DEF Told, Blk
  <2>4. Told(r, s, G, w, e)
    BY ONLY <1>5, <1>11, <1>17 DEF Told, Dozing
  <2>5. \A u \in Task : u # t /\ u # w => (Told(r, s, G, u, e) <=> Told(k, s, H, u, e))
    BY ONLY <1>11, <1>17, <2>1 DEF Told
  <2>6. \A u \in Task : Told(k, s, H, u, e) /\ "mudel" \notin App[k.app].ops => u = t
    BY ONLY <1>1, <1>2, e \in DOMAIN k.ev, t = k.ev[e].ptr DEF MutexHas
  <2>7. ASSUME NEW f \in DOMAIN v, NEW u \in Task
        PROVE  /\ v[f].ptr = u => Told(r, s, G, u, f)
               /\ v[f].type = "mutex" /\ Told(r, s, G, u, f) /\ "mudel" \notin App[k.app].ops => v[f].ptr = u
    <3>1. CASE f = e
      BY ONLY <1>18, <2>3, <2>4, <2>5, <2>6, <2>7, <3>1
    <3>2. CASE f # e
      <4>1. v[f].ptr # u /\ v[f].type # "mutex"
        BY ONLY <1>4, <1>19, <1>20, <2>7, <3>2
      <4> QED
        BY ONLY <4>1
    <3> QED
      BY ONLY <3>1, <3>2
  <2>8. G = [u \in Task |-> G[u]]
    BY ONLY <2>1
  <2> QED
    BY ONLY <1>17, <2>2, <2>7, <2>8 DEF MutexHas
<1>29. MutexWaits(r, s)
  <2>1. ASSUME NEW f \in DOMAIN k.ev, NEW u \in k.list
        PROVE  T[u].prio \in v[f].wait <=> Blk(s, u) /\ s[u].ev = f /\ Dozing(T[u])
    <3>1. CASE u = w
      <4>1. ~ Dozing(T[w])
        BY ONLY <1>11 DEF Dozing
      <4>2. f # e => x \notin k.ev[f].wait
        BY ONLY <1>2, <1>5, <2>1, w \in k.list, x = k.tcb[w].prio DEF MutexWaits
      <4> QED
        BY ONLY <1>11, <1>18, <2>1, <3>1, <4>1, <4>2
    <3>2. CASE u # w
      <4>1. k.tcb[u].prio \in k.ev[f].wait <=> Blk(s, u) /\ s[u].ev = f /\ Dozing(k.tcb[u])
        BY ONLY <1>2, <2>1 DEF MutexWaits
      <4>2. T[u] = k.tcb[u] /\ k.tcb[u].prio # x
        BY ONLY <1>21, <2>1, <3>2
      <4>3. k.tcb[u].prio \in v[f].wait <=> k.tcb[u].prio \in k.ev[f].wait
        BY ONLY <1>18, <2>1, <4>2
      <4> QED
        BY ONLY <4>1, <4>2, <4>3
    <3> QED
      BY ONLY <3>1, <3>2
  <2>2. ASSUME NEW f \in DOMAIN k.ev, NEW y \in v[f].wait PROVE \E u \in k.list : T[u].prio = y
    <3>1. y \in k.ev[f].wait
      BY ONLY <1>18, <2>2
    <3>2. PICK u \in k.list : k.tcb[u].prio = y
      BY ONLY <1>2, <2>2, <3>1 DEF MutexWaits
    <3> QED
      BY ONLY <1>21, <3>2
  <2> QED
    BY ONLY <1>17, <1>19, <2>1, <2>2 DEF MutexWaits
<1>30. Outranks(r)
  <2>1. ASSUME NEW f \in DOMAIN v, v[f].ptr # Null, NEW y \in v[f].wait PROVE T[v[f].ptr].prio < y
    <3>1. f = e /\ y \in k.ev[e].wait /\ y # x
      BY ONLY <1>18, <1>19, <1>20, <2>1
    <3>2. k.ev[e].wait \subseteq Prio
      <4>1. k.ev[e] \in MutexEcb
        BY ONLY <1>4
      <4> QED
        BY ONLY <4>1 DEF MutexEcb
    <3>3. x <= y /\ x \in Nat /\ y \in Nat
      BY ONLY <1>4, <1>6, <3>1, <3>2, \A z \in k.ev[e].wait : x <= z
    <3>4. x < y
      BY ONLY <3>1, <3>3
    <3> QED
      BY ONLY <1>11, <1>18, <3>1, <3>4
  <2> QED
    BY ONLY <1>17, <2>1 DEF Outranks
<1> QED
  BY ONLY <1>1, <1>5, <1>11, <1>12, <1>17, <1>22, <1>23, <1>24, <1>25, <1>26, <1>27, <1>28, <1>29, <1>30 DEF MutexTables, MutexHandedOn
-----------------------------------------------------------------------------
LEMMA MutexPosts ==
  ASSUME NEW t, MutexInv, OSMutexPost(t)
  PROVE  MutexState(os', pc', has')
<1>1. PICK k, p, H, e, s, r, G : k = os /\ p = pc /\ H = has /\ e = p[t].ev /\ s = pc' /\ r = os' /\ G = has'
  OBVIOUS
<1>2. PICK q0, k2 :
        /\ q0 = IF k.tcb[t].prio = PipOf(k, e) THEN OSMutex_RdyAtPrio(k, t, OwnPrio(k, e)) ELSE k
        /\ k2 = [q0 EXCEPT !.tbl[PipOf(k, e)] = Reserved]
  OBVIOUS
<1>3. PICK k3 : k3 = OS_EventTaskRdy(k2, e, Null, "mutex", "ok")
  OBVIOUS
<1>4. /\ t = k.cur /\ p[t].at = "mupost"
      /\ IF k.ev[e].ptr # t THEN r = k /\ G = H /\ s = [p EXCEPT ![t] = InApp]
         ELSE /\ G = [H EXCEPT ![t] = @ \ {e}]
              /\ IF k.ev[e].wait = {}
                 THEN r = Owned(k2, e, Null, MutexAvailable) /\ s = [p EXCEPT ![t] = InApp]
                 ELSE r = Owned(k3, e, k3.tbl[Min(k.ev[e].wait)], Min(k.ev[e].wait)) /\ s = [p EXCEPT ![t].at = "sched"]
  BY <1>1, <1>2, <1>3 DEF OSMutexPost, At, Return, Goto
<1>5. MutexState(k, p, H)
  BY <1>1 DEF MutexInv
<1>6. p[t].at \in InMutex /\ e = p[t].ev /\ t = k.cur
  BY ONLY <1>1, <1>4 DEF InMutex
<1>7. CASE k.ev[e].ptr # t
  <2>1. s = [p EXCEPT ![t] = InApp]
    BY ONLY <1>4, <1>7
  <2>2. MutexState(k, s, H)
    BY ONLY <1>5, <1>6, <2>1, MutexReturns
  <2> QED
    BY ONLY <1>1, <1>4, <1>7, <2>2
<1>8. CASE k.ev[e].ptr = t
  <2>1. /\ t \in k.list /\ t \in Task /\ t # Idle /\ Formed(p[t]) /\ p = [u \in Task |-> p[u]] /\ MutexTables(k, p, H)
        /\ MutexKernel(k) /\ Shape(k) /\ Outranks(k) /\ MutexCpu(k, p)
        /\ k.tcb[t].prio \in k.rdy
        /\ e \in DOMAIN k.ev /\ k.ev[e].type = "mutex"
        /\ \A u \in Task : p[u].at # "mudel"
    <3>1. p[t].at # "mudel"
      BY ONLY <1>4
    <3> QED
      BY ONLY <1>5, <1>6, <3>1, MutexServed
  <2>2. t # Null /\ PipOf(k, e) = Pip /\ OwnPrio(k, e) = Own(k, t)
    <3>1. MutexTables(k, p, H) /\ e \in DOMAIN k.ev /\ k.ev[e].type = "mutex"
      BY ONLY <2>1
    <3>2. t # Null
      BY ONLY <2>1, CoreAssumption
    <3> QED
      BY ONLY <1>8, <3>1, <3>2, MutexCount
  <2>3. /\ MutexTables(k, s, H) /\ (s[t].at = IF k.ev[e].wait = {} THEN "app" ELSE "sched")
        /\ \A v \in Task : s[v].at # "mudel"
    <3>1. t \in k.list /\ t # Idle /\ p[t].at \in InMutex \cup {"app", "sched"}
      BY ONLY <1>6, <2>1
    <3>2. MutexTables(k, p, H)
      BY ONLY <2>1
    <3>3. s = [p EXCEPT ![t].at = "sched"] \/ s = [p EXCEPT ![t] = InApp] \/ s = p
      BY ONLY <1>4, <1>8
    <3>4. MutexTables(k, s, H)
      BY ONLY <3>1, <3>2, <3>3, MutexGoes
    <3>5. CASE k.ev[e].wait = {}
      <4>1. s = [p EXCEPT ![t] = InApp]
        BY ONLY <1>4, <1>8, <3>5
      <4>2. s[t].at = "app" /\ \A v \in Task : v # t => s[v] = p[v]
        BY ONLY <2>1, <4>1 DEF InApp
      <4> QED
        BY ONLY <2>1, <3>4, <3>5, <4>2
    <3>6. CASE k.ev[e].wait # {}
      <4>1. s = [p EXCEPT ![t].at = "sched"]
        BY ONLY <1>4, <1>8, <3>6
      <4>2. s[t].at = "sched" /\ \A v \in Task : v # t => s[v] = p[v]
        BY ONLY <2>1, <4>1 DEF Formed
      <4> QED
        BY ONLY <2>1, <3>4, <3>6, <4>2
    <3> QED
      BY ONLY <3>5, <3>6
  <2>4. MutexTables(k2, s, H) /\ Demotes(k, k2, t)
    <3>1. /\ q0 = IF k.tcb[t].prio = Pip THEN OSMutex_RdyAtPrio(k, t, Own(k, t)) ELSE k
          /\ k2 = [q0 EXCEPT !.tbl[Pip] = Reserved]
      BY ONLY <1>2, <2>2
    <3>2. MutexTables(k, s, H) /\ (\A v \in Task : s[v].at # "mudel") /\ e \in DOMAIN k.ev /\ t = k.ev[e].ptr /\ t # Null
          /\ k.tcb[t].prio \in k.rdy
      BY ONLY <1>8, <2>1, <2>2, <2>3
    <3> QED
      BY ONLY <3>1, <3>2, MutexDemoted, Zenon
  <2>5. /\ Shape(k2) /\ k2.ev = k.ev /\ k2.app = k.app /\ k2.list = k.list
        /\ k2.cur = k.cur /\ k2.prioCur = k.prioCur /\ k2.lock = k.lock
        /\ k2.tcb[t].prio = Own(k, t) /\ Own(k, t) \in k2.rdy /\ (\A y \in k2.rdy : y \in k.rdy \/ y = Own(k, t))
        /\ k2.tbl[Pip] = Reserved /\ (\A x \in Prio : x # Pip => k2.tbl[x] = k.tbl[x])
        /\ \A v \in Task : v # t => k2.tcb[v] = k.tcb[v]
    BY ONLY <2>4 DEF Demotes
  <2>6. k2.tcb[t].prio = Own(k2, t)
    BY ONLY <2>5 DEF Own
  <2>7. GivesUp(H, G, t, e)
    <3>1. H = [u \in Task |-> H[u]]
      BY ONLY <2>1 DEF MutexTables, MutexHas
    <3>2. G = [H EXCEPT ![t] = @ \ {e}]
      BY ONLY <1>4, <1>8
    <3> QED
      BY ONLY <2>1, <3>1, <3>2 DEF GivesUp
  <2>8. /\ k.prioCur # Own(k, t) => k.prioCur = Pip
        /\ k.tcb[t].prio = Pip => k.prioCur = Pip
        /\ Own(k, t) # Pip /\ Reserved \notin Task
    <3>1. MutexPrios(k) /\ CurKnown(k)
      BY ONLY <2>1 DEF MutexTables, MutexCpu
    <3>2. k.tcb[t].prio = Pip => k.tbl[Pip] \in Task
      BY ONLY <2>1, <3>1 DEF MutexPrios
    <3>3. k.tcb[t].prio = Own(k, t) \/ k.tcb[t].prio = Pip
      BY ONLY <2>1, <3>1 DEF MutexPrios
    <3>4. Own(k, t) # Pip
      <4>1. Pip \in Prio /\ Pip < Own(k, t) /\ LowestPrio \in Nat
        BY ONLY <2>1, MutexBasics
      <4> QED
        BY ONLY <4>1 DEF Prio
    <3>5. Reserved \notin Task
      BY ONLY CoreAssumption
    <3> QED
      BY ONLY <1>6, <3>1, <3>2, <3>3, <3>4, <3>5 DEF CurKnown
  <2>9. CASE k.ev[e].wait = {}
    <3>1. /\ MutexTables(r, s, G) /\ Outranks(r) /\ r.tcb = k2.tcb /\ r.rdy = k2.rdy /\ r.tbl = k2.tbl
          /\ r.cur = k2.cur /\ r.prioCur = k2.prioCur /\ r.lock = k2.lock
          /\ \A f \in DOMAIN r.ev : r.ev[f].ptr = Null
      <4>1. MutexTables(k2, s, H) /\ e \in DOMAIN k2.ev /\ t = k2.ev[e].ptr /\ t # Null
        BY ONLY <1>8, <2>1, <2>2, <2>4, <2>5
      <4>2. (\A v \in Task : s[v].at # "mudel") /\ s[t].at = "app"
        BY ONLY <2>3, <2>9
      <4>3. k2.ev[e].wait = {} /\ k2.tcb[t].prio = Own(k2, t) /\ k2.tbl[Pip] = Reserved
        BY ONLY <2>5, <2>6, <2>9
      <4>4. r = Owned(k2, e, Null, MutexAvailable) /\ GivesUp(H, G, t, e)
        BY ONLY <1>4, <1>8, <2>7, <2>9
      <4>5. MutexDropped(k2, s, r, G)
        BY ONLY <4>1, <4>2, <4>3, <4>4, MutexDrops
      <4> QED
        BY ONLY <4>5 DEF MutexDropped
    <3>2. s[t].at = "app"
      BY ONLY <2>3, <2>9
    <3>3. r.cur = t /\ r.tcb[t].prio = Own(k, t) /\ r.prioCur = k.prioCur /\ r.lock = k.lock /\ r.tbl[Pip] = Reserved
          /\ Own(k, t) \in r.rdy /\ \A y \in r.rdy : y \in k.rdy \/ y = Own(k, t)
      BY ONLY <1>6, <2>5, <3>1
    <3>4. CurKnown(r)
      BY ONLY <2>8, <3>3 DEF CurKnown
    <3>5. r.lock = 0 => IF r.prioCur = r.tcb[r.cur].prio THEN \A y \in r.rdy : r.prioCur <= y
                        ELSE \A f \in DOMAIN r.ev : r.ev[f].ptr \in {Null, r.cur}
      <4>1. CASE k.prioCur = Own(k, t) /\ k.lock = 0
        <5>1. k.tcb[t].prio = k.prioCur
          <6>1. k.tcb[t].prio = Own(k, t) \/ k.tcb[t].prio = Pip
            BY ONLY <2>1 DEF MutexTables, MutexPrios
          <6> QED
            BY ONLY <2>8, <4>1, <6>1
        <5>2. \A y \in k.rdy : k.prioCur <= y
          BY ONLY <1>4, <2>1, <4>1, <5>1 DEF MutexCpu
        <5>3. Own(k, t) \in Nat
          <6>1. Own(k, t) \in Prio /\ LowestPrio \in Nat
            BY ONLY <2>1, MutexBasics
          <6> QED
            BY ONLY <6>1 DEF Prio
        <5> QED
          BY ONLY <3>3, <4>1, <5>2, <5>3
      <4>2. CASE k.prioCur # Own(k, t)
        BY ONLY <3>1, <3>3, <4>2
      <4>3. CASE k.lock # 0
        BY ONLY <3>3, <4>3
      <4> QED
        BY ONLY <4>1, <4>2, <4>3
    <3>6. MutexCpu(r, s)
      BY ONLY <3>2, <3>3, <3>4, <3>5 DEF MutexCpu
    <3>7. MutexState(r, s, G)
      BY ONLY <3>1, <3>6 DEF MutexState
    <3> QED
      BY ONLY <1>1, <3>7
  <2>10. CASE k.ev[e].wait # {}
    <3>1. PICK x : x = Min(k.ev[e].wait)
      OBVIOUS
    <3>2. x \in k.ev[e].wait /\ (\A y \in k.ev[e].wait : x <= y) /\ x \in Prio /\ x # Pip
      <4>1. k.ev[e].wait \in SUBSET Prio /\ LowestPrio \in Nat /\ MutexWaits(k, p)
        <5>1. k.ev[e] \in MutexEcb
          BY ONLY <2>1, MutexBasics
        <5> QED
          BY ONLY <2>1, <5>1, CoreAssumption DEF MutexEcb, MutexTables
      <4>2. k.ev[e].wait \in SUBSET Nat
        BY ONLY <4>1 DEF Prio
      <4>3. \E y \in k.ev[e].wait : \A z \in k.ev[e].wait : y <= z
        BY ONLY <2>10, <4>2, LeastIn
      <4>4. x = CHOOSE y \in k.ev[e].wait : \A z \in k.ev[e].wait : y <= z
        BY ONLY <3>1 DEF Min
      <4>5. x \in k.ev[e].wait /\ (\A y \in k.ev[e].wait : x <= y)
        BY ONLY <4>3, <4>4
      <4>6. PICK w \in k.list : k.tcb[w].prio = x
        BY ONLY <2>1, <4>1, <4>5 DEF MutexWaits
      <4>7. Blk(p, w) /\ Dozing(k.tcb[w])
        BY ONLY <2>1, <4>1, <4>5, <4>6 DEF MutexWaits
      <4>8. k.tcb[w].prio = Own(k, w)
        BY ONLY <2>1, <4>7, WaiterOwnsNone
      <4>9. Own(k, w) # Pip
        <5>1. Pip \in Prio /\ Pip < Own(k, w) /\ LowestPrio \in Nat
          BY ONLY <2>1, MutexBasics
        <5> QED
          BY ONLY <5>1 DEF Prio
      <4> QED
        BY ONLY <4>1, <4>5, <4>6, <4>8, <4>9
    <3>3. PICK w \in k.list : k.tcb[w].prio = x
      BY ONLY <2>1, <3>2 DEF MutexTables, MutexWaits
    <3>4. w # t /\ w \in Task /\ k.tbl[x] = w
      <4>1. Blk(p, w)
        BY ONLY <2>1, <3>2, <3>3 DEF MutexTables, MutexWaits
      <4>2. w # t
        BY ONLY <1>4, <4>1 DEF Blk
      <4>3. MutexKernel(k) /\ MutexPrios(k) /\ k.list \subseteq Task
        BY ONLY <2>1, MutexBasics DEF MutexTables
      <4>4. k.tbl[k.tcb[w].prio] = w
        BY ONLY <3>3, <4>3, PriosApart
      <4> QED
        BY ONLY <3>3, <4>2, <4>3, <4>4
    <3>5. k2.tbl[x] = w /\ k2.tcb[w].prio = x
      BY ONLY <2>5, <3>2, <3>3, <3>4
    <3>6. k3 = Readied(k2, e, {w}, Null, "mutex", "ok")
      BY ONLY <1>3, <2>5, <3>1, <3>5 DEF OS_EventTaskRdy
    <3>7. k3.tbl[x] = w
      <4>1. Shape(k2) /\ k3.tbl = k2.tbl
        BY ONLY <2>5, <3>6 DEF Readied, Shape
      <4> QED
        BY ONLY <3>5, <4>1
    <3>8. r = Owned(k3, e, w, x)
      BY ONLY <1>4, <1>8, <2>10, <3>1, <3>7
    <3>9. /\ MutexTables(r, s, G) /\ Outranks(r) /\ r.tcb[t] = k2.tcb[t] /\ k2.rdy \subseteq r.rdy /\ r.tbl = k2.tbl
          /\ r.cur = k2.cur /\ r.prioCur = k2.prioCur /\ r.lock = k2.lock
      <4>1. MutexTables(k2, s, H) /\ e \in DOMAIN k2.ev /\ t = k2.ev[e].ptr /\ t # Null
        BY ONLY <1>8, <2>1, <2>2, <2>4, <2>5
      <4>2. (\A v \in Task : s[v].at # "mudel") /\ s[t].at = "sched"
        BY ONLY <2>3, <2>10
      <4>3. k2.tcb[t].prio = Own(k2, t) /\ k2.tbl[Pip] = Reserved /\ GivesUp(H, G, t, e)
        BY ONLY <2>5, <2>6, <2>7
      <4>4. w \in k2.list /\ x = k2.tcb[w].prio /\ x \in k2.ev[e].wait
        BY ONLY <2>5, <3>2, <3>3, <3>5
      <4>5. \A y \in k2.ev[e].wait : x <= y
        BY ONLY <2>5, <3>2
      <4>6. MutexHandedOn(k2, s, r, G, t)
        BY ONLY <4>1, <4>2, <4>3, <4>4, <4>5, <3>6, <3>8, MutexHands
      <4> QED
        BY ONLY <4>6 DEF MutexHandedOn
    <3>10. s[t].at = "sched"
      BY ONLY <2>3, <2>10
    <3>11. r.cur = t /\ r.tcb[t].prio = Own(k, t) /\ r.prioCur = k.prioCur /\ r.tbl[Pip] = Reserved /\ Own(k, t) \in r.rdy
      BY ONLY <1>6, <2>5, <3>9
    <3>12. CurKnown(r)
      BY ONLY <2>8, <3>11 DEF CurKnown
    <3>13. MutexCpu(r, s)
      BY ONLY <3>10, <3>11, <3>12 DEF MutexCpu
    <3>14. MutexState(r, s, G)
      BY ONLY <3>9, <3>13 DEF MutexState
    <3> QED
      BY ONLY <1>1, <3>14
  <2> QED
    BY ONLY <2>9, <2>10
<1> QED
  BY ONLY <1>7, <1>8
-----------------------------------------------------------------------------
\* The mutex e is deleted and its waiters W go on.
MutexDeleted(k, e, W, r) ==
  /\ Shape(r) /\ r.app = k.app /\ r.list = k.list /\ r.evfree = <<e>> \o k.evfree
  /\ r.tbl = [k.tbl EXCEPT ![Pip] = Null]
  /\ r.cur = k.cur /\ r.prioCur = k.prioCur /\ r.lock = k.lock
  /\ r.tcb \in [Task -> MutexTcb] /\ (\A u \in Task : u \notin W => r.tcb[u] = k.tcb[u])
  /\ \A u \in W : r.tcb[u].prio = k.tcb[u].prio /\ r.tcb[u].stat = {} /\ r.tcb[u].pend = "ok" /\ r.tcb[u].dly = 0
  /\ r.rdy = k.rdy \cup {k.tcb[u].prio : u \in W}
  /\ r.ev \in [DOMAIN k.ev -> MutexEcb] /\ (\A f \in DOMAIN k.ev : f # e => r.ev[f] = k.ev[f])
  /\ r.ev[e].type = "unused" /\ r.ev[e].ptr = Null /\ r.ev[e].wait = k.ev[e].wait \ {k.tcb[u].prio : u \in W}
LEMMA MutexDeletes ==
  ASSUME NEW k, NEW e \in DOMAIN k.ev, NEW W, NEW k3, ReadiedAs(k, e, W, k3),
         NEW r, r = [FreeEcb(k3, e) EXCEPT !.tbl[Pip] = Null]
  PROVE  MutexDeleted(k, e, W, r)
<1>1. /\ Shape(k3) /\ k3.app = k.app /\ k3.tbl = k.tbl /\ k3.list = k.list /\ k3.evfree = k.evfree
      /\ k3.cur = k.cur /\ k3.prioCur = k.prioCur /\ k3.lock = k.lock
  BY ONLY ReadiedAs(k, e, W, k3) DEF ReadiedAs
<1>2. /\ k3.tcb \in [Task -> MutexTcb] /\ (\A u \in Task : u \notin W => k3.tcb[u] = k.tcb[u])
      /\ (\A u \in W : k3.tcb[u].prio = k.tcb[u].prio /\ k3.tcb[u].stat = {} /\ k3.tcb[u].pend = "ok" /\ k3.tcb[u].dly = 0)
      /\ k3.rdy = k.rdy \cup {k.tcb[u].prio : u \in W}
  BY ONLY ReadiedAs(k, e, W, k3) DEF ReadiedAs
<1>3. /\ k3.ev \in [DOMAIN k.ev -> MutexEcb] /\ (\A f \in DOMAIN k.ev : f # e => k3.ev[f] = k.ev[f])
      /\ k3.ev[e].wait = k.ev[e].wait \ {k.tcb[u].prio : u \in W}
  BY ONLY ReadiedAs(k, e, W, k3) DEF ReadiedAs
<1>4. PICK c, E, Q, B : /\ c = [Unused EXCEPT !.wait = k3.ev[e].wait] /\ E = [k3.ev EXCEPT ![e] = c]
                        /\ Q = <<e>> \o k3.evfree /\ B = [k3.tbl EXCEPT ![Pip] = Null]
  OBVIOUS
<1>5. r = [k3 EXCEPT !.ev = E, !.evfree = Q, !.tbl = B]
  <2>1. FreeEcb(k3, e) = [k3 EXCEPT !.ev = E, !.evfree = Q]
    BY ONLY <1>1, <1>4 DEF FreeEcb, Shape
  <2>2. PICK k4 : k4 = [k3 EXCEPT !.ev = E, !.evfree = Q]
    OBVIOUS
  <2>3. Shape(k4) /\ k4.tbl = k3.tbl
    BY ONLY <1>1, <2>2 DEF Shape
  <2>4. r = [k4 EXCEPT !.tbl[Pip] = Null]
    BY <2>1, <2>2
  <2>5. r = [k4 EXCEPT !.tbl = B]
    BY ONLY <1>4, <2>3, <2>4 DEF Shape
  <2> QED
    BY ONLY <1>1, <2>2, <2>5 DEF Shape
<1>6. /\ Shape(r) /\ r.app = k3.app /\ r.tbl = B /\ r.list = k3.list /\ r.evfree = Q /\ r.tcb = k3.tcb /\ r.rdy = k3.rdy
      /\ r.ev = E /\ r.cur = k3.cur /\ r.prioCur = k3.prioCur /\ r.lock = k3.lock
  BY ONLY <1>1, <1>5 DEF Shape
<1>7. c \in MutexEcb /\ c.type = "unused" /\ c.ptr = Null /\ c.wait = k3.ev[e].wait
  <2>1. PICK x, X : x = k3.ev[e] /\ x \in MutexEcb /\ X = x.wait
    BY ONLY <1>3
  <2>2. X \in SUBSET Prio
    BY ONLY <2>1 DEF MutexEcb
  <2>3. c = [type |-> "unused", cnt |-> 0, ptr |-> Null, wait |-> X]
    BY ONLY <1>4, <2>1 DEF Unused
  <2> QED
    BY ONLY <2>1, <2>2, <2>3 DEF MutexEcb
<1>8. E \in [DOMAIN k.ev -> MutexEcb] /\ E[e] = c /\ \A f \in DOMAIN k.ev : f # e => E[f] = k.ev[f]
  BY ONLY <1>3, <1>4, <1>7, e \in DOMAIN k.ev
<1> QED
  BY ONLY <1>1, <1>2, <1>3, <1>4, <1>6, <1>7, <1>8 DEF MutexDeleted

\* There is no mutex then.
MutexGone(k, s, W, r, G) ==
  /\ MutexTables(r, s, G) /\ Outranks(r) /\ (\A f \in DOMAIN r.ev : r.ev[f].ptr = Null) /\ r.tbl[Pip] = Null
  /\ r.cur = k.cur /\ r.prioCur = k.prioCur /\ r.lock = k.lock
  /\ (\A u \in k.list : r.tcb[u].prio = k.tcb[u].prio) /\ r.rdy = k.rdy \cup {k.tcb[u].prio : u \in W}
LEMMA MutexGoesAway ==
  ASSUME NEW k, NEW s, NEW H, MutexTables(k, s, H), \A v \in Task : s[v].at \notin InMutex, "mudel" \in App[k.app].ops,
         NEW e \in DOMAIN k.ev, k.ev[e].type = "mutex",
         k.ev[e].ptr # Null => k.tcb[k.ev[e].ptr].prio = Own(k, k.ev[e].ptr),
         NEW W \in SUBSET k.list, \A v \in k.list : v \in W <=> k.tcb[v].prio \in k.ev[e].wait,
         NEW r, MutexDeleted(k, e, W, r),
         NEW G, G = [u \in Task |-> G[u]], \A u \in Task : G[u] = H[u] \ {e}
  PROVE  MutexGone(k, s, W, r, G)
<1>1. /\ MutexKernel(k) /\ MutexPrios(k) /\ MutexEcbs(k) /\ MutexPc(k, s) /\ MutexStats(k, s)
      /\ MutexCalls(k, s) /\ MutexHas(k, s, H) /\ MutexWaits(k, s)
  BY ONLY MutexTables(k, s, H) DEF MutexTables
<1>2. /\ k.list \subseteq Task /\ Null \notin Task /\ Idle \in k.list /\ Pip \in Prio
      /\ (\A u \in k.list : Own(k, u) # Pip /\ Own(k, u) \in Prio /\ k.tcb[u].prio \in Prio)
  <2>1. /\ k.list \subseteq Task /\ Null \notin Task /\ Idle \in k.list /\ Pip \in Prio /\ LowestPrio \in Nat
        /\ \A u \in k.list : Own(k, u) \in Prio /\ Pip < Own(k, u) /\ k.tcb[u].prio \in Prio
    BY ONLY <1>1, MutexBasics
  <2>2. \A u \in k.list : Own(k, u) # Pip
    BY ONLY <2>1 DEF Prio
  <2> QED
    BY ONLY <2>1, <2>2
<1>3. \A f \in DOMAIN k.ev : f # e => k.ev[f].type # "mutex" /\ k.ev[f].ptr = Null /\ k.ev[f].wait = {}
  BY ONLY <1>1, e \in DOMAIN k.ev, k.ev[e].type = "mutex" DEF MutexEcbs
<1>4. \A u \in k.list : k.tcb[u].prio = Own(k, u) /\ k.tcb[u].prio # Pip
  <2>1. ASSUME NEW u \in k.list PROVE k.tcb[u].prio = Own(k, u)
    <3>1. CASE k.ev[e].ptr = u
      BY <1>2, <2>1, <3>1
    <3>2. CASE k.ev[e].ptr # u
      <4>1. \A f \in DOMAIN k.ev : k.ev[f].ptr # u
        BY ONLY <1>2, <1>3, <2>1, <3>2
      <4> QED
        BY ONLY <1>1, <4>1, OwnUnlessOwner
    <3> QED
      BY ONLY <3>1, <3>2
  <2> QED
    BY ONLY <1>2, <2>1
<1>5. PICK T, D, E, X : T = r.tcb /\ D = r.rdy /\ E = r.ev /\ X = {k.tcb[u].prio : u \in W}
  OBVIOUS
<1>6. /\ Shape(r) /\ r.app = k.app /\ r.list = k.list /\ r.evfree = <<e>> \o k.evfree /\ r.tbl = [k.tbl EXCEPT ![Pip] = Null]
      /\ r.cur = k.cur /\ r.prioCur = k.prioCur /\ r.lock = k.lock /\ r.tcb = T /\ r.rdy = D /\ r.ev = E
  BY ONLY <1>5, MutexDeleted(k, e, W, r) DEF MutexDeleted
<1>7. /\ T \in [Task -> MutexTcb] /\ (\A u \in Task : u \notin W => T[u] = k.tcb[u])
      /\ (\A u \in W : T[u].prio = k.tcb[u].prio /\ T[u].stat = {} /\ T[u].pend = "ok" /\ T[u].dly = 0)
      /\ D = k.rdy \cup X
  BY ONLY <1>5, MutexDeleted(k, e, W, r) DEF MutexDeleted
<1>8. /\ E \in [DOMAIN k.ev -> MutexEcb] /\ (\A f \in DOMAIN k.ev : f # e => E[f] = k.ev[f])
      /\ E[e].type = "unused" /\ E[e].ptr = Null /\ E[e].wait = k.ev[e].wait \ X
  BY ONLY <1>5, MutexDeleted(k, e, W, r) DEF MutexDeleted
<1>9. \A v \in W : v \in k.list /\ v \in Task /\ Blk(s, v) /\ s[v].ev = e /\ v # Idle
  <2>1. ASSUME NEW v \in W PROVE v \in k.list /\ v \in Task /\ Blk(s, v) /\ s[v].ev = e /\ v # Idle
    <3>1. v \in k.list /\ v \in Task /\ k.tcb[v].prio \in k.ev[e].wait
      BY <1>2, <2>1
    <3>2. Blk(s, v) /\ s[v].ev = e
      BY ONLY <1>1, <3>1, e \in DOMAIN k.ev DEF MutexWaits
    <3>3. v # Idle
      BY ONLY <1>1, <3>1, <3>2 DEF MutexPc, Blk
    <3> QED
      BY ONLY <3>1, <3>2, <3>3
  <2> QED
    BY ONLY <2>1
<1>10. E[e].wait = {}
  <2>1. ASSUME NEW y \in k.ev[e].wait PROVE y \in X
    <3>1. PICK v \in k.list : k.tcb[v].prio = y
      BY ONLY <1>1, <2>1, e \in DOMAIN k.ev DEF MutexWaits
    <3>2. v \in W
      BY ONLY <2>1, <3>1, \A w \in k.list : w \in W <=> k.tcb[w].prio \in k.ev[e].wait
    <3> QED
      BY ONLY <1>5, <3>1, <3>2
  <2> QED
    BY ONLY <1>8, <2>1
<1>11. DOMAIN E = DOMAIN k.ev /\ \A f \in DOMAIN k.ev : E[f].type # "mutex" /\ E[f].ptr = Null /\ E[f].wait = {}
  <2>1. \A f \in DOMAIN k.ev : f # e => E[f].type # "mutex" /\ E[f].ptr = Null /\ E[f].wait = {}
    BY ONLY <1>3, <1>8
  <2>2. DOMAIN E = DOMAIN k.ev
    BY ONLY <1>8
  <2> QED
    BY ONLY <1>8, <1>10, <2>1, <2>2
<1>12. \A u \in k.list : u \in Task /\ T[u].prio = k.tcb[u].prio /\ (u \notin W => T[u] = k.tcb[u] /\ k.tcb[u].prio \notin X)
  <2>1. ASSUME NEW u \in k.list, u \notin W PROVE k.tcb[u].prio \notin X
    <3>1. ASSUME NEW w \in W PROVE k.tcb[w].prio # k.tcb[u].prio
      BY ONLY <1>1, <1>9, <2>1, <3>1, PriosApart
    <3> QED
      BY ONLY <1>5, <3>1
  <2> QED
    BY ONLY <1>2, <1>7, <2>1
<1>13. MutexKernel(r)
  <2>1. ASSUME NEW u \in k.list PROVE ReadyAt(r, u)
    <3>1. CASE u \in W
      <4>1. k.tcb[u].prio \in X
        BY ONLY <1>5, <3>1
      <4> QED
        BY ONLY <1>6, <1>7, <3>1, <4>1 DEF ReadyAt
    <3>2. CASE u \notin W
      <4>1. ReadyAt(k, u)
        BY ONLY <1>1 DEF MutexKernel
      <4> QED
        BY ONLY <1>6, <1>7, <1>12, <2>1, <3>2, <4>1 DEF ReadyAt
    <3> QED
      BY ONLY <3>1, <3>2
  <2>2. ASSUME NEW y \in D PROVE y \in Prio /\ \E u \in k.list : T[u].prio = y
    <3>1. \E u \in k.list : k.tcb[u].prio = y
      <4>1. CASE y \in X
        BY ONLY <1>5, <1>9, <4>1
      <4>2. CASE y \notin X
        BY ONLY <1>1, <1>7, <2>2, <4>2 DEF MutexKernel
      <4> QED
        BY ONLY <4>1, <4>2
    <3> QED
      BY ONLY <1>2, <1>12, <3>1
  <2>3. T[Idle] = k.tcb[Idle]
    <3>1. Idle \notin W
      BY ONLY <1>9
    <3> QED
      BY ONLY <1>2, <1>12, <3>1
  <2>4. DOMAIN k.ev = DOMAIN App[k.app].ev
    BY ONLY <1>1 DEF MutexKernel
  <2>5. r.evfree \in Seq(DOMAIN App[k.app].ev)
    <3>1. PICK S, a, b : S = DOMAIN App[k.app].ev /\ a = <<e>> /\ b = k.evfree
      OBVIOUS
    <3>2. a \in Seq(S) /\ b \in Seq(S)
      <4>1. b \in Seq(S)
        BY ONLY <1>1, <3>1 DEF MutexKernel
      <4>2. e \in S
        BY ONLY <2>4, <3>1, e \in DOMAIN k.ev
      <4> QED
        <5>1. <<e>> \in Seq(S)
          BY ONLY <4>2
        <5> QED
          BY ONLY <3>1, <4>1, <5>1, Zenon
    <3>3. a \o b \in Seq(S)
      BY ONLY <3>2
    <3> QED
      BY ONLY <1>6, <3>1, <3>3
  <2>6. r.tbl \in [Prio -> Task \cup {Null, Reserved}]
    BY ONLY <1>1, <1>2, <1>6 DEF MutexKernel
  <2>7. D \subseteq Prio
    BY ONLY <2>2
  <2> QED
    BY ONLY <1>1, <1>6, <1>7, <1>8, <2>1, <2>2, <2>3, <2>4, <2>5, <2>6, <2>7 DEF MutexKernel
<1>14. r.tbl[Pip] = Null /\ \A x \in Prio : x # Pip => r.tbl[x] = k.tbl[x]
  BY ONLY <1>1, <1>2, <1>6 DEF MutexKernel
<1>15. MutexPrios(r)
  <2>1. \A u \in k.list : Own(r, u) = Own(k, u)
    BY ONLY <1>6 DEF Own
  <2>2. \A u \in k.list : r.tbl[Own(k, u)] = u
    BY ONLY <1>1, <1>2, <1>14 DEF MutexPrios
  <2>3. \A x \in Prio : r.tbl[x] \in Task => r.tbl[x] \in k.list
    BY ONLY <1>1, <1>2, <1>14 DEF MutexPrios
  <2> QED
    BY ONLY <1>4, <1>6, <1>11, <1>12, <1>14, <2>1, <2>2, <2>3 DEF MutexPrios
<1>16. MutexEcbs(r)
  BY ONLY <1>6, <1>11 DEF MutexEcbs
<1>17. MutexPc(r, s)
  BY ONLY <1>1, <1>6, <1>11 DEF MutexPc
<1>18. MutexStats(r, s)
  <2>1. ASSUME NEW u \in k.list
        PROVE  /\ Dozing(T[u]) \/ T[u].ev # Null => Blk(s, u)
               /\ Blk(s, u) /\ T[u].stat = {} => T[u].dly = 0
               /\ s[u].at \in InMutex => T[u].dly = 0
               /\ T[u].pend = "to" => T[u].stat = {}
    <3>1. CASE u \in W
      BY ONLY <1>7, <1>9, <3>1
    <3>2. CASE u \notin W
      BY ONLY <1>1, <1>12, <2>1, <3>2 DEF MutexStats
    <3> QED
      BY ONLY <3>1, <3>2
  <2> QED
    BY ONLY <1>6, <2>1 DEF MutexStats
<1>19. MutexCalls(r, s)
  BY ONLY \A v \in Task : s[v].at \notin InMutex DEF MutexCalls, InMutex
<1>20. MutexHas(r, s, G)
  <2>1. \A u \in Task : s[u].at \in {"muaccept", "mupend"} \/ Blk(s, u) => G[u] = {}
    BY ONLY <1>1, \A u \in Task : G[u] = H[u] \ {e} DEF MutexHas
  <2>2. \A f \in DOMAIN E, u \in Task : E[f].ptr # u
    BY ONLY <1>2, <1>11
  <2> QED
    BY ONLY <1>6, <2>1, <2>2, "mudel" \in App[k.app].ops, G = [u \in Task |-> G[u]] DEF MutexHas
<1>21. MutexWaits(r, s)
  <2>1. ASSUME NEW f \in DOMAIN k.ev, NEW u \in k.list PROVE ~ (Blk(s, u) /\ s[u].ev = f /\ Dozing(T[u]))
    <3>1. CASE u \in W
      BY ONLY <1>7, <3>1 DEF Dozing
    <3>2. CASE u \notin W
      <4>1. k.tcb[u].prio \in k.ev[f].wait <=> Blk(s, u) /\ s[u].ev = f /\ Dozing(k.tcb[u])
        BY ONLY <1>1, <2>1 DEF MutexWaits
      <4>2. k.tcb[u].prio \notin k.ev[f].wait
        BY ONLY <1>3, <2>1, <3>2, \A v \in k.list : v \in W <=> k.tcb[v].prio \in k.ev[e].wait
      <4> QED
        BY ONLY <1>12, <2>1, <3>2, <4>1, <4>2
    <3> QED
      BY ONLY <3>1, <3>2
  <2> QED
    BY ONLY <1>6, <1>11, <2>1 DEF MutexWaits
<1>22. Outranks(r) /\ \A f \in DOMAIN r.ev : r.ev[f].ptr = Null
  BY ONLY <1>6, <1>11 DEF Outranks
<1> QED
  BY ONLY <1>5, <1>6, <1>7, <1>12, <1>13, <1>14, <1>15, <1>16, <1>17, <1>18, <1>19, <1>20, <1>21, <1>22 DEF MutexTables, MutexGone
-----------------------------------------------------------------------------
LEMMA MutexDels ==
  ASSUME NEW t, MutexInv, OSMutexDel(t)
  PROVE  MutexState(os', pc', has')
<1>1. PICK k, p, H, e, u, s, r, G : k = os /\ p = pc /\ H = has /\ e = p[t].ev /\ u = k.ev[e].ptr /\ s = pc' /\ r = os' /\ G = has'
  OBVIOUS
<1>2. PICK q0 : q0 = IF u # Null /\ k.tcb[u].prio = PipOf(k, e) THEN OSMutex_RdyAtPrio(k, u, OwnPrio(k, e)) ELSE k
  OBVIOUS
<1>3. /\ t = k.cur /\ p[t].at = "mudel"
      /\ IF p[t].n = 0
         THEN /\ r = IF k.ev[e].wait = {} THEN [FreeEcb(k, e) EXCEPT !.tbl[PipOf(k, e)] = Null] ELSE k
              /\ s = [p EXCEPT ![t] = InApp]
         ELSE /\ r = [FreeEcb(ReadyAll(q0, e, Null, "mutex", "ok"), e) EXCEPT !.tbl[PipOf(k, e)] = Null]
              /\ IF k.ev[e].wait # {} THEN s = [p EXCEPT ![t].at = "sched"] ELSE s = [p EXCEPT ![t] = InApp]
      /\ G = [v \in Task |-> IF p[t].n = 0 /\ k.ev[e].wait # {} THEN H[v] ELSE H[v] \ {e}]
  BY <1>1, <1>2, Zenon DEF OSMutexDel, At, Return, Goto
<1>4. MutexState(k, p, H)
  BY <1>1 DEF MutexInv
<1>5. p[t].at \in InMutex /\ e = p[t].ev /\ t = k.cur
  BY ONLY <1>1, <1>3 DEF InMutex
<1>6. /\ t \in k.list /\ t \in Task /\ t # Idle /\ Formed(p[t]) /\ p = [v \in Task |-> p[v]] /\ MutexTables(k, p, H)
      /\ MutexKernel(k) /\ Shape(k) /\ Outranks(k) /\ MutexCpu(k, p)
      /\ k.tcb[t].prio \in k.rdy
      /\ e \in DOMAIN k.ev /\ k.ev[e].type = "mutex"
  BY ONLY <1>4, <1>5, MutexServed
<1>7. /\ PipOf(k, e) = Pip
      /\ u = Null => k.ev[e].wait = {}
      /\ u # Null => u \in k.list /\ OwnPrio(k, e) = Own(k, u)
  <2>1. MutexTables(k, p, H) /\ e \in DOMAIN k.ev /\ k.ev[e].type = "mutex"
    BY ONLY <1>6
  <2>2. u = k.ev[e].ptr
    BY ONLY <1>1
  <2> QED
    BY ONLY <2>1, <2>2, MutexCount
<1>8. /\ "mudel" \in App[k.app].ops /\ p[t].n \in {0, 1} /\ (\A v \in Task : p[v].at \in InMutex => v = t)
      /\ u # Null => p[t].n = 1 /\ k.tcb[u].prio \in k.rdy
  <2>1. MutexCalls(k, p) /\ u = k.ev[p[t].ev].ptr
    BY ONLY <1>1, <1>6 DEF MutexTables
  <2>2. /\ "mudel" \in App[k.app].ops /\ p[t].n \in {0, 1} /\ (\A v \in Task : p[v].at \in InMutex => v = t)
        /\ u # Null => p[t].n = 1
    BY ONLY <1>3, <1>6, <2>1 DEF MutexCalls
  <2>3. u \in k.list /\ u # t => k.tcb[u].prio \in k.rdy
    BY ONLY <1>3, <1>6, <2>1, Zenon DEF MutexCalls
  <2> QED
    BY ONLY <1>6, <1>7, <2>2, <2>3
<1>9. G = [v \in Task |-> G[v]] /\ (\A v \in Task : G[v] = H[v] \ {e})
  <2>1. ~ (p[t].n = 0 /\ k.ev[e].wait # {})
    BY ONLY <1>7, <1>8
  <2> QED
    BY ONLY <1>3, <2>1
<1>10. /\ MutexTables(k, s, H) /\ (s[t].at = IF k.ev[e].wait = {} THEN "app" ELSE "sched")
       /\ \A v \in Task : s[v].at \notin InMutex
  <2>1. t \in k.list /\ t # Idle /\ p[t].at \in InMutex \cup {"app", "sched"}
    BY ONLY <1>5, <1>6
  <2>2. MutexTables(k, p, H)
    BY ONLY <1>6
  <2>3. s = [p EXCEPT ![t].at = "sched"] \/ s = [p EXCEPT ![t] = InApp] \/ s = p
    BY ONLY <1>3
  <2>4. MutexTables(k, s, H)
    BY ONLY <2>1, <2>2, <2>3, MutexGoes
  <2>5. CASE k.ev[e].wait = {}
    <3>1. s = [p EXCEPT ![t] = InApp]
      BY ONLY <1>3, <2>5
    <3>2. s[t].at = "app" /\ \A v \in Task : v # t => s[v] = p[v]
      BY ONLY <1>6, <3>1 DEF InApp
    <3> QED
      BY ONLY <1>8, <2>4, <2>5, <3>2 DEF InMutex
  <2>6. CASE k.ev[e].wait # {}
    <3>1. s = [p EXCEPT ![t].at = "sched"]
      BY ONLY <1>3, <1>7, <1>8, <2>6
    <3>2. s[t].at = "sched" /\ \A v \in Task : v # t => s[v] = p[v]
      BY ONLY <1>6, <3>1 DEF Formed
    <3> QED
      BY ONLY <1>8, <2>4, <2>6, <3>2 DEF InMutex
  <2> QED
    BY ONLY <2>5, <2>6
<1>11. /\ LowestPrio \in Nat /\ Reserved \notin Task /\ Pip \in Prio /\ Null \notin Task
       /\ \A v \in k.list : v \in Task /\ Own(k, v) \in Nat /\ Pip < Own(k, v) /\ Own(k, v) # Pip /\ k.tcb[v].prio \in Nat
       /\ Pip \in Nat
  <2>1. /\ LowestPrio \in Nat /\ Pip \in Prio /\ Null \notin Task /\ k.list \subseteq Task
        /\ \A v \in k.list : Own(k, v) \in Prio /\ Pip < Own(k, v) /\ k.tcb[v].prio \in Prio
    BY ONLY <1>6, MutexBasics
  <2>2. Pip \in Nat /\ \A v \in k.list : Own(k, v) \in Nat /\ Own(k, v) # Pip /\ k.tcb[v].prio \in Nat
    BY ONLY <2>1 DEF Prio
  <2> QED
    BY ONLY <2>1, <2>2, CoreAssumption
\* What becomes of the kernel when every waiter goes on.
<1>12. PICK k1, W : /\ MutexTables(k1, s, H) /\ Shape(k1) /\ k1.ev = k.ev /\ k1.app = k.app /\ k1.list = k.list
                    /\ k1.cur = k.cur /\ k1.prioCur = k.prioCur /\ k1.lock = k.lock
                    /\ (k1.ev[e].ptr # Null => k1.tcb[k1.ev[e].ptr].prio = Own(k1, k1.ev[e].ptr))
                    /\ (\A y \in k1.rdy : y \in k.rdy \/ (u # Null /\ y = Own(k, u)))
                    /\ (\A v \in k.list : k1.tcb[v] = k.tcb[v] \/ (v = u /\ k1.tcb[v].prio = Own(k, v)))
                    /\ k1.tcb[t].prio \in k1.rdy
                    /\ W \in SUBSET k1.list /\ (\A v \in k1.list : v \in W <=> k1.tcb[v].prio \in k1.ev[e].wait)
                    /\ (k1.ev[e].wait = {} => W = {})
                    /\ MutexDeleted(k1, e, W, r)
  <2>1. CASE u = Null
    <3>1. /\ k.tcb \in [Task -> MutexTcb] /\ k.ev \in [DOMAIN k.ev -> MutexEcb]
      BY ONLY <1>6 DEF MutexKernel
    <3>2. PICK W : W = {}
      OBVIOUS
    <3>3. PICK k3 : ReadiedAs(k, e, W, k3) /\ r = [FreeEcb(k3, e) EXCEPT !.tbl[Pip] = Null]
      <4>1. CASE p[t].n = 0
        <5>1. r = [FreeEcb(k, e) EXCEPT !.tbl[Pip] = Null]
          BY ONLY <1>3, <1>7, <2>1, <4>1
        <5>2. {k.tcb[v].prio : v \in W} = {}
          BY ONLY <3>2
        <5>3. ReadiedAs(k, e, W, k)
          BY ONLY <1>6, <3>1, <3>2, <5>2 DEF ReadiedAs
        <5> QED
          BY ONLY <5>1, <5>3
      <4>2. CASE p[t].n # 0
        <5>1. q0 = k
          BY ONLY <1>2, <2>1
        <5>2. PICK k3 : k3 = ReadyAll(k, e, Null, "mutex", "ok")
          OBVIOUS
        <5>3. {k.tbl[x] : x \in k.ev[e].wait} = W
          BY ONLY <1>7, <2>1, <3>2
        <5>4. k3 = Readied(k, e, W, Null, "mutex", "ok")
          BY ONLY <5>2, <5>3 DEF ReadyAll
        <5>5. ReadiedAs(k, e, W, k3)
          <6>1. Shape(k) /\ k.tcb \in [Task -> MutexTcb] /\ k.ev \in [DOMAIN k.ev -> MutexEcb] /\ e \in DOMAIN k.ev
                /\ W \in SUBSET Task
            BY ONLY <1>6, <3>1, <3>2
          <6> QED
            BY ONLY <5>4, <6>1, MutexReadied
        <5>6. r = [FreeEcb(k3, e) EXCEPT !.tbl[Pip] = Null]
          BY ONLY <1>3, <1>7, <4>2, <5>1, <5>2
        <5> QED
          BY ONLY <5>5, <5>6
      <4> QED
        BY ONLY <4>1, <4>2
    <3>4. MutexDeleted(k, e, W, r)
      <4>1. e \in DOMAIN k.ev
        BY ONLY <1>6
      <4> QED
        BY ONLY <3>3, <4>1, MutexDeletes
    <3>5. W \in SUBSET k.list /\ (\A v \in k.list : v \in W <=> k.tcb[v].prio \in k.ev[e].wait)
      BY ONLY <1>7, <2>1, <3>2
    <3> QED
      BY ONLY <1>1, <1>6, <1>10, <2>1, <3>2, <3>4, <3>5
  <2>2. CASE u # Null
    <3>1. p[t].n = 1 /\ k.tcb[u].prio \in k.rdy /\ u \in k.list /\ OwnPrio(k, e) = Own(k, u)
      BY ONLY <1>7, <1>8, <2>2
    <3>2. PICK k1 : k1 = [q0 EXCEPT !.tbl[Pip] = Reserved]
      BY ONLY Zenon
    <3>3. MutexTables(k1, s, H) /\ Demotes(k, k1, u)
      <4>1. q0 = IF k.tcb[u].prio = Pip THEN OSMutex_RdyAtPrio(k, u, Own(k, u)) ELSE k
        BY ONLY <1>2, <1>7, <2>2, <3>1
      <4>2. MutexTables(k, s, H) /\ e \in DOMAIN k.ev /\ u = k.ev[e].ptr /\ u # Null /\ k.tcb[u].prio \in k.rdy
        BY ONLY <1>1, <1>6, <1>10, <2>2, <3>1
      <4>3. \A v \in Task : s[v].at # "mudel"
        BY ONLY <1>10 DEF InMutex
      <4> QED
        BY ONLY <3>2, <4>1, <4>2, <4>3, MutexDemoted, Zenon
    <3>4. /\ Shape(k1) /\ k1.ev = k.ev /\ k1.app = k.app /\ k1.list = k.list
          /\ k1.cur = k.cur /\ k1.prioCur = k.prioCur /\ k1.lock = k.lock
          /\ k1.tcb[u].prio = Own(k, u) /\ Own(k, u) \in k1.rdy /\ (\A y \in k1.rdy : y \in k.rdy \/ y = Own(k, u))
          /\ \A v \in Task : v # u => k1.tcb[v] = k.tcb[v]
      BY ONLY <3>3 DEF Demotes
    <3>5. Shape(q0)
      BY ONLY <1>2, <1>6 DEF OSMutex_RdyAtPrio, Shape
    <3>6. /\ q0.tcb = k1.tcb /\ q0.ev = k1.ev /\ q0.app = k1.app /\ q0.list = k1.list /\ q0.rdy = k1.rdy /\ q0.evfree = k1.evfree
          /\ q0.cur = k1.cur /\ q0.prioCur = k1.prioCur /\ q0.lock = k1.lock /\ k1.tbl = [q0.tbl EXCEPT ![Pip] = Reserved]
      BY ONLY <3>2, <3>5 DEF Shape
    <3>7. /\ MutexKernel(k1) /\ MutexWaits(k1, s) /\ MutexPrios(k1)
          /\ k1.tcb \in [Task -> MutexTcb] /\ k1.ev \in [DOMAIN k1.ev -> MutexEcb]
      BY ONLY <3>3 DEF MutexTables, MutexKernel
    <3>8. \A v \in k.list : k1.tbl[k1.tcb[v].prio] = v /\ k1.tcb[v].prio # Pip
      <4>1. \A v \in k.list : k1.tbl[k1.tcb[v].prio] = v
        BY ONLY <3>4, <3>7, PriosApart
      <4>2. ASSUME NEW v \in k.list PROVE k1.tcb[v].prio # Pip
        <5>1. CASE v = u
          BY ONLY <1>11, <3>4, <4>2, <5>1
        <5>2. CASE v # u
          <6>1. k1.tbl[Pip] = Reserved
            BY ONLY <3>3 DEF Demotes
          <6> QED
            BY ONLY <1>11, <3>7, <4>1, <4>2, <6>1
        <5> QED
          BY ONLY <5>1, <5>2
      <4> QED
        BY ONLY <4>1, <4>2
    <3>9. PICK W : W = {q0.tbl[x] : x \in q0.ev[e].wait}
      OBVIOUS
    <3>10. \A v \in k.list : q0.tbl[k1.tcb[v].prio] = v
      BY ONLY <3>6, <3>8
    <3>11. \A x \in k1.ev[e].wait : \E v \in k.list : k1.tcb[v].prio = x
      BY ONLY <1>6, <3>4, <3>7 DEF MutexWaits
    <3>12. /\ W \in SUBSET k1.list /\ (\A v \in k1.list : v \in W <=> k1.tcb[v].prio \in k1.ev[e].wait)
           /\ (k1.ev[e].wait = {} => W = {})
      <4>1. ASSUME NEW v \in W PROVE v \in k.list /\ k1.tcb[v].prio \in k1.ev[e].wait
        <5>1. PICK x \in k1.ev[e].wait : v = q0.tbl[x]
          BY ONLY <3>6, <3>9, <4>1
        <5>2. PICK w \in k.list : k1.tcb[w].prio = x
          BY ONLY <3>11, <5>1
        <5> QED
          BY ONLY <3>10, <5>1, <5>2
      <4>2. ASSUME NEW v \in k.list, k1.tcb[v].prio \in k1.ev[e].wait PROVE v \in W
        BY ONLY <3>6, <3>9, <3>10, <4>2
      <4> QED
        BY ONLY <3>4, <3>6, <3>9, <4>1, <4>2
    <3>13. PICK k3 : k3 = ReadyAll(q0, e, Null, "mutex", "ok")
      OBVIOUS
    <3>14. k3 = Readied(q0, e, W, Null, "mutex", "ok")
      BY ONLY <3>9, <3>13 DEF ReadyAll
    <3>15. ReadiedAs(q0, e, W, k3)
      <4>1. Shape(q0) /\ q0.tcb \in [Task -> MutexTcb] /\ q0.ev \in [DOMAIN q0.ev -> MutexEcb] /\ e \in DOMAIN q0.ev
        BY ONLY <1>6, <3>4, <3>5, <3>6, <3>7
      <4>2. W \in SUBSET Task
        BY ONLY <1>11, <3>4, <3>12
      <4> QED
        BY ONLY <3>14, <4>1, <4>2, MutexReadied
    <3>16. r = [FreeEcb(k3, e) EXCEPT !.tbl[Pip] = Null]
      BY ONLY <1>3, <1>7, <3>1, <3>13
    <3>17. MutexDeleted(q0, e, W, r)
      <4>1. e \in DOMAIN q0.ev
        BY ONLY <1>6, <3>4, <3>6
      <4> QED
        BY ONLY <3>15, <3>16, <4>1, MutexDeletes
    <3>18. MutexDeleted(k1, e, W, r)
      <4>1. [q0.tbl EXCEPT ![Pip] = Null] = [k1.tbl EXCEPT ![Pip] = Null]
        <5>1. k1.tbl \in [Prio -> Task \cup {Null, Reserved}]
          BY ONLY <3>7 DEF MutexKernel
        <5> QED
          BY ONLY <3>6, <5>1
      <4> QED
        BY ONLY <3>6, <3>17, <4>1 DEF MutexDeleted
    <3>19. k1.ev[e].ptr # Null => k1.tcb[k1.ev[e].ptr].prio = Own(k1, k1.ev[e].ptr)
      BY ONLY <1>1, <3>4, Zenon DEF Own
    <3>20. k1.tcb[t].prio \in k1.rdy
      <4>1. CASE t = u
        BY ONLY <3>4, <4>1
      <4>2. CASE t # u
        <5>1. k1.tcb[t] = k.tcb[t] /\ k.tcb[t].dly = 0 /\ k.tcb[t].stat = {}
          <6>1. k.tcb[t].dly = 0 /\ k.tcb[t].stat = {}
            BY ONLY <1>4, <1>5, MutexServed
          <6> QED
            BY ONLY <1>6, <3>4, <4>2, <6>1
        <5>2. ReadyAt(k1, t)
          BY ONLY <1>6, <3>4, <3>7 DEF MutexKernel
        <5> QED
          BY ONLY <5>1, <5>2 DEF ReadyAt
      <4> QED
        BY ONLY <4>1, <4>2
    <3>21. \A v \in k.list : k1.tcb[v] = k.tcb[v] \/ (v = u /\ k1.tcb[v].prio = Own(k, v))
      BY ONLY <1>11, <3>4
    <3>22. \A y \in k1.rdy : y \in k.rdy \/ (u # Null /\ y = Own(k, u))
      BY ONLY <2>2, <3>4
    <3> QED
      BY ONLY <3>3, <3>4, <3>12, <3>18, <3>19, <3>20, <3>21, <3>22
  <2> QED
    BY ONLY <2>1, <2>2
<1>13. MutexGone(k1, s, W, r, G)
  <2>1. MutexTables(k1, s, H) /\ e \in DOMAIN k1.ev /\ k1.ev[e].type = "mutex" /\ "mudel" \in App[k1.app].ops
    BY ONLY <1>6, <1>8, <1>12
  <2>2. \A v \in Task : s[v].at \notin InMutex
    BY ONLY <1>10
  <2>3. k1.ev[e].ptr # Null => k1.tcb[k1.ev[e].ptr].prio = Own(k1, k1.ev[e].ptr)
    BY ONLY <1>12
  <2>4. W \in SUBSET k1.list /\ (\A v \in k1.list : v \in W <=> k1.tcb[v].prio \in k1.ev[e].wait) /\ MutexDeleted(k1, e, W, r)
    BY ONLY <1>12
  <2>5. G = [v \in Task |-> G[v]] /\ (\A v \in Task : G[v] = H[v] \ {e})
    BY ONLY <1>9
  <2> QED
    BY ONLY <2>1, <2>2, <2>3, <2>4, <2>5, MutexGoesAway
<1>14. /\ MutexTables(r, s, G) /\ Outranks(r) /\ (\A f \in DOMAIN r.ev : r.ev[f].ptr = Null) /\ r.tbl[Pip] = Null
       /\ r.cur = t /\ r.prioCur = k.prioCur /\ r.lock = k.lock
       /\ r.tcb[t].prio = k1.tcb[t].prio /\ r.rdy = k1.rdy \cup {k1.tcb[v].prio : v \in W}
  BY ONLY <1>3, <1>6, <1>12, <1>13 DEF MutexGone
<1>15. r.tcb[t].prio \in r.rdy
  BY ONLY <1>12, <1>14
<1>16. /\ k1.tcb[t].prio = k.tcb[t].prio \/ (t = u /\ k1.tcb[t].prio = Own(k, t))
       /\ k.prioCur # k.tcb[t].prio => k.prioCur = Pip
       /\ k.tcb[t].prio = Pip => k.prioCur = Pip
       /\ k.tcb[t].prio = Own(k, t) \/ k.tcb[t].prio = Pip
  <2>1. MutexPrios(k) /\ CurKnown(k)
    BY ONLY <1>6 DEF MutexTables, MutexCpu
  <2>2. k.tcb[t].prio = Pip => k.tbl[Pip] \in Task
    BY ONLY <1>6, <2>1 DEF MutexPrios
  <2>3. k.tcb[t].prio = Own(k, t) \/ k.tcb[t].prio = Pip
    BY ONLY <1>6, <2>1 DEF MutexPrios
  <2> QED
    BY ONLY <1>3, <1>6, <1>12, <2>1, <2>2, <2>3 DEF CurKnown
<1>17. CurKnown(r)
  BY ONLY <1>11, <1>14, <1>16 DEF CurKnown
<1>18. MutexCpu(r, s)
  <2>1. CASE k.ev[e].wait # {}
    <3>1. s[t].at = "sched"
      BY ONLY <1>10, <2>1
    <3> QED
      BY ONLY <1>14, <1>15, <1>17, <3>1 DEF MutexCpu
  <2>2. CASE k.ev[e].wait = {}
    <3>1. s[t].at = "app"
      BY ONLY <1>10, <2>2
    <3>2. r.rdy = k1.rdy
      <4>1. W = {}
        BY ONLY <1>12, <2>2
      <4>2. {k1.tcb[v].prio : v \in W} = {}
        BY ONLY <4>1
      <4> QED
        BY ONLY <1>14, <4>2
    <3>3. ASSUME k.lock = 0, k.prioCur = k1.tcb[t].prio PROVE \A y \in k1.rdy : k.prioCur <= y
      <4>1. k.prioCur = k.tcb[t].prio
        BY ONLY <1>6, <1>11, <1>16, <3>3
      <4>2. \A y \in k.rdy : k.prioCur <= y
        BY ONLY <1>3, <1>6, <3>3, <4>1 DEF MutexCpu
      <4>3. u # Null => k.prioCur <= Own(k, u)
        <5> SUFFICES ASSUME u # Null PROVE k.prioCur <= Own(k, u)
          OBVIOUS
        <5>1. k.prioCur <= k.tcb[u].prio /\ u \in k.list
          BY ONLY <1>7, <1>8, <4>2, u # Null
        <5>2. k.tcb[u].prio = Own(k, u) \/ k.tcb[u].prio = Pip
          BY ONLY <1>6, <5>1 DEF MutexTables, MutexPrios
        <5>3. k.prioCur \in Nat
          BY ONLY <1>6, <1>11, <4>1
        <5> QED
          BY ONLY <1>11, <5>1, <5>2, <5>3
      <4> QED
        BY ONLY <1>12, <4>2, <4>3
    <3>4. r.lock = 0 => IF r.prioCur = r.tcb[r.cur].prio THEN \A y \in r.rdy : r.prioCur <= y
                        ELSE \A f \in DOMAIN r.ev : r.ev[f].ptr \in {Null, r.cur}
      BY ONLY <1>14, <3>2, <3>3
    <3> QED
      BY ONLY <1>14, <1>15, <1>17, <3>1, <3>4 DEF MutexCpu
  <2> QED
    BY ONLY <2>1, <2>2
<1>19. MutexState(r, s, G)
  BY ONLY <1>14, <1>18 DEF MutexState
<1> QED
  BY ONLY <1>1, <1>19
-----------------------------------------------------------------------------
\* A mutex is created while there is none.
MutexMade(k, e, r) ==
  /\ Shape(r) /\ r.app = k.app /\ r.list = k.list /\ r.rdy = k.rdy /\ r.tcb = k.tcb
  /\ r.tbl = [k.tbl EXCEPT ![Pip] = Reserved] /\ r.evfree = Tail(k.evfree)
  /\ r.cur = k.cur /\ r.prioCur = k.prioCur /\ r.lock = k.lock
  /\ r.ev \in [DOMAIN k.ev -> MutexEcb] /\ (\A f \in DOMAIN k.ev : f # e => r.ev[f] = k.ev[f])
  /\ r.ev[e].type = "mutex" /\ r.ev[e].cnt = 256 * Pip + MutexAvailable /\ r.ev[e].ptr = Null /\ r.ev[e].wait = {}
LEMMA MutexMakes ==
  ASSUME NEW k, MutexKernel(k), NEW e \in DOMAIN k.ev,
         NEW r, r = [k EXCEPT !.tbl[Pip] = Reserved,
                              !.ev[e] = [Unused EXCEPT !.type = "mutex", !.cnt = 256 * Pip + MutexAvailable],
                              !.evfree = Tail(@)]
  PROVE  MutexMade(k, e, r)
<1>1. Shape(k) /\ k.ev \in [DOMAIN k.ev -> MutexEcb]
  BY DEF MutexKernel
<1>2. PICK n, v, c, B, E, Q : /\ n = 256 * Pip + MutexAvailable /\ v = "mutex" /\ c = [Unused EXCEPT !.type = v, !.cnt = n]
                              /\ B = [k.tbl EXCEPT ![Pip] = Reserved] /\ E = [k.ev EXCEPT ![e] = c] /\ Q = Tail(k.evfree)
  BY ONLY Zenon
<1>3. r = [k EXCEPT !.tbl = B, !.ev = E, !.evfree = Q]
  BY ONLY <1>1, <1>2, r = [k EXCEPT !.tbl[Pip] = Reserved,
                              !.ev[e] = [Unused EXCEPT !.type = "mutex", !.cnt = 256 * Pip + MutexAvailable],
                              !.evfree = Tail(@)] DEF Shape
<1>4. /\ Shape(r) /\ r.app = k.app /\ r.list = k.list /\ r.rdy = k.rdy /\ r.tcb = k.tcb /\ r.tbl = B /\ r.evfree = Q /\ r.ev = E
      /\ r.cur = k.cur /\ r.prioCur = k.prioCur /\ r.lock = k.lock
  BY ONLY <1>1, <1>3 DEF Shape
<1>5. c.type = v /\ c.cnt = n /\ c.ptr = Null /\ c.wait = {} /\ c \in MutexEcb
  <2>1. Pip \in Nat /\ n \in Nat
    <3>1. Pip \in Prio /\ LowestPrio \in Nat
      BY MutexBasics
    <3> QED
      BY ONLY <1>2, <3>1 DEF Prio, MutexAvailable
  <2>2. c = [type |-> v, cnt |-> n, ptr |-> Null, wait |-> {}]
    BY ONLY <1>2 DEF Unused
  <2>3. v \in {"mutex", "unused"} /\ {} \in SUBSET Prio
    BY ONLY <1>2
  <2> QED
    BY ONLY <2>1, <2>2, <2>3 DEF MutexEcb
<1>6. E \in [DOMAIN k.ev -> MutexEcb] /\ E[e] = c /\ \A f \in DOMAIN k.ev : f # e => E[f] = k.ev[f]
  BY ONLY <1>1, <1>2, <1>5, e \in DOMAIN k.ev
<1> QED
  BY ONLY <1>2, <1>4, <1>5, <1>6 DEF MutexMade

LEMMA MutexCreates ==
  ASSUME NEW t, MutexInv, OSMutexCreate(t)
  PROVE  MutexState(os', pc', has')
<1>1. PICK k, p, H, e, r : k = os /\ p = pc /\ H = has /\ e = Head(k.evfree) /\ r = os'
  OBVIOUS
<1>2. /\ t = k.cur /\ p[t].at = "app" /\ "mudel" \in App[k.app].ops /\ k.tbl[Pip] = Null /\ k.evfree # <<>>
      /\ r = [k EXCEPT !.tbl[Pip] = Reserved,
                       !.ev[e] = [Unused EXCEPT !.type = "mutex", !.cnt = 256 * Pip + MutexAvailable],
                       !.evfree = Tail(@)]
      /\ pc' = p /\ has' = H
  BY <1>1 DEF OSMutexCreate, Calls, At, Ops
<1>3. MutexState(k, p, H)
  BY <1>1 DEF MutexInv
<1>4. /\ MutexKernel(k) /\ MutexPrios(k) /\ MutexEcbs(k) /\ MutexPc(k, p) /\ MutexStats(k, p)
      /\ MutexCalls(k, p) /\ MutexHas(k, p, H) /\ MutexWaits(k, p) /\ MutexCpu(k, p)
  BY ONLY <1>3 DEF MutexState, MutexTables
<1>5. e \in DOMAIN k.ev /\ Tail(k.evfree) \in Seq(DOMAIN k.ev)
  <2>1. DOMAIN k.ev = DOMAIN App[k.app].ev
    BY ONLY <1>4, MutexBasics
  <2>2. k.evfree \in Seq(DOMAIN k.ev)
    BY ONLY <1>4, <2>1 DEF MutexKernel
  <2>3. Head(k.evfree) \in DOMAIN k.ev /\ Tail(k.evfree) \in Seq(DOMAIN k.ev)
    BY ONLY <1>2, <2>2, HeadTailProperties
  <2> QED
    BY ONLY <1>1, <2>3
<1>6. MutexMade(k, e, r)
  BY ONLY <1>2, <1>4, <1>5, MutexMakes, Zenon
<1>7. /\ Shape(r) /\ r.app = k.app /\ r.list = k.list /\ r.rdy = k.rdy /\ r.tcb = k.tcb
      /\ r.tbl = [k.tbl EXCEPT ![Pip] = Reserved] /\ r.evfree = Tail(k.evfree)
      /\ r.cur = k.cur /\ r.prioCur = k.prioCur /\ r.lock = k.lock
      /\ r.ev \in [DOMAIN k.ev -> MutexEcb] /\ DOMAIN r.ev = DOMAIN k.ev
      /\ (\A f \in DOMAIN k.ev : f # e => r.ev[f] = k.ev[f])
      /\ r.ev[e].type = "mutex" /\ r.ev[e].cnt = 256 * Pip + MutexAvailable /\ r.ev[e].ptr = Null /\ r.ev[e].wait = {}
  BY ONLY <1>6 DEF MutexMade
<1>8. /\ k.list \subseteq Task /\ Null \notin Task /\ Reserved # Null /\ Reserved \notin Task /\ Pip \in Prio
      /\ (\A u \in k.list : Own(k, u) # Pip /\ Own(k, u) \in Prio)
      /\ DOMAIN k.ev = DOMAIN App[k.app].ev
  <2>1. /\ k.list \subseteq Task /\ Null \notin Task /\ Pip \in Prio /\ LowestPrio \in Nat
        /\ (\A u \in k.list : Own(k, u) \in Prio /\ Pip < Own(k, u))
        /\ DOMAIN k.ev = DOMAIN App[k.app].ev
    BY ONLY <1>4, MutexBasics
  <2>2. \A u \in k.list : Own(k, u) # Pip
    BY ONLY <2>1 DEF Prio
  <2> QED
    BY ONLY <2>1, <2>2, CoreAssumption
\* There was no mutex, so no task owned one, waited for one or was in a call on one.
<1>9. \A f \in DOMAIN k.ev : k.ev[f].type # "mutex" /\ k.ev[f].ptr = Null /\ k.ev[f].wait = {}
  BY ONLY <1>2, <1>4 DEF MutexPrios, MutexEcbs
<1>10. \A f \in DOMAIN r.ev : r.ev[f].ptr = Null /\ r.ev[f].wait = {} /\ (r.ev[f].type = "mutex" <=> f = e)
  BY ONLY <1>5, <1>7, <1>9
<1>11. \A u \in Task : p[u].at \notin InMutex
  BY ONLY <1>4, <1>9 DEF MutexPc, MutexCalls
<1>12. \A u \in k.list : k.tcb[u].prio = Own(k, u)
  BY ONLY <1>4, <1>8, <1>9 DEF MutexPrios
<1>13. \A u : Own(r, u) = Own(k, u)
  BY ONLY <1>7 DEF Own
<1>14. k.tbl \in [Prio -> Task \cup {Null, Reserved}]
  BY ONLY <1>4 DEF MutexKernel
<1>15. r.tbl[Pip] = Reserved /\ \A x \in Prio : x # Pip => r.tbl[x] = k.tbl[x]
  BY ONLY <1>7, <1>8, <1>14
<1>16. MutexKernel(r)
  <2>1. r.tbl \in [Prio -> Task \cup {Null, Reserved}]
    BY ONLY <1>7, <1>8, <1>14
  <2>2. r.ev \in [DOMAIN App[r.app].ev -> MutexEcb] /\ r.evfree \in Seq(DOMAIN App[r.app].ev)
    BY ONLY <1>5, <1>7, <1>8
  <2>3. /\ k.app \in DOMAIN App /\ Guarding(k.app) /\ k.list = DOMAIN App[k.app].prio
        /\ k.rdy \subseteq Prio /\ k.tcb \in [Task -> MutexTcb]
        /\ k.cur \in k.list /\ k.lock \in Nat /\ k.prioCur \in Prio
        /\ (\A u \in k.list : ReadyAt(k, u)) /\ (\A x \in k.rdy : \E u \in k.list : k.tcb[u].prio = x)
        /\ k.tcb[Idle].prio = LowestPrio /\ k.tcb[Idle].stat = {} /\ k.tcb[Idle].dly = 0
    BY ONLY <1>4 DEF MutexKernel
  <2>4. \A u \in r.list : ReadyAt(r, u)
    BY ONLY <1>7, <2>3 DEF ReadyAt
  <2> QED
    BY ONLY <1>7, <2>1, <2>2, <2>3, <2>4 DEF MutexKernel
<1>17. MutexPrios(r)
  <2>1. \A u \in k.list : k.tbl[Own(k, u)] = u
    BY ONLY <1>4 DEF MutexPrios
  <2>2. \A x \in Prio : k.tbl[x] \in Task => k.tbl[x] \in k.list
    BY ONLY <1>4 DEF MutexPrios
  <2>3. ASSUME NEW u \in r.list
        PROVE  /\ r.tbl[Own(r, u)] = u /\ r.tcb[u].prio = Own(r, u) /\ r.tcb[u].prio # Pip
    BY ONLY <2>1, <2>3, <1>7, <1>8, <1>12, <1>13, <1>15
  <2>4. r.tbl[Pip] # Null /\ r.ev[e].type = "mutex" /\ e \in DOMAIN r.ev
    BY ONLY <1>5, <1>7, <1>8, <1>15
  <2>5. \A x \in Prio : r.tbl[x] \in Task => r.tbl[x] \in r.list
    BY ONLY <1>7, <1>8, <1>15, <2>2
  <2> QED
    BY ONLY <2>3, <2>4, <2>5 DEF MutexPrios
<1>18. MutexEcbs(r)
  <2>1. \A f, g \in DOMAIN r.ev : r.ev[f].type = "mutex" /\ r.ev[g].type = "mutex" => f = g
    BY ONLY <1>10
  <2>2. \A f \in DOMAIN r.ev : r.ev[f].type = "mutex" => r.ev[f].cnt = 256 * Pip + MutexAvailable
    BY ONLY <1>7, <1>10
  <2> QED
    BY ONLY <1>10, <2>1, <2>2 DEF MutexEcbs
<1>19. MutexPc(r, p)
  BY ONLY <1>4, <1>7 DEF MutexPc
<1>20. MutexStats(r, p)
  BY ONLY <1>4, <1>7 DEF MutexStats
<1>21. MutexCalls(r, p)
  BY ONLY <1>11 DEF MutexCalls, InMutex
<1>22. MutexHas(r, p, H)
  <2>1. H = [u \in Task |-> H[u]] /\ \A u \in Task : p[u].at \in {"muaccept", "mupend"} \/ Blk(p, u) => H[u] = {}
    BY ONLY <1>4 DEF MutexHas
  <2>2. \A f \in DOMAIN r.ev, u \in Task : r.ev[f].ptr # u
    BY ONLY <1>8, <1>10
  <2>3. "mudel" \in App[r.app].ops
    BY ONLY <1>2, <1>7
  <2> QED
    BY ONLY <2>1, <2>2, <2>3 DEF MutexHas
<1>23. MutexWaits(r, p)
  <2>1. \A u \in k.list, f \in DOMAIN k.ev : ~ (Blk(p, u) /\ p[u].ev = f /\ Dozing(k.tcb[u]))
    BY ONLY <1>4, <1>9 DEF MutexWaits
  <2> QED
    BY ONLY <1>7, <1>10, <2>1 DEF MutexWaits
<1>24. Outranks(r)
  BY ONLY <1>10 DEF Outranks
<1>25. MutexCpu(r, p)
  <2>1. CurKnown(r)
    <3>1. CurKnown(k)
      BY ONLY <1>4 DEF MutexCpu
    <3> QED
      BY ONLY <1>7, <1>8, <1>15, <3>1 DEF CurKnown
  <2>2. /\ p[r.cur].at \in {"mupend", "block", "wake"} => r.lock = 0
        /\ r.lock > 0 \/ p[r.cur].at \notin {"sched", "block"} => r.tcb[r.cur].prio \in r.rdy
        /\ r.lock = 0 /\ p[r.cur].at \notin {"sched", "block"} /\ r.prioCur = r.tcb[r.cur].prio => \A x \in r.rdy : r.prioCur <= x
    BY ONLY <1>4, <1>7 DEF MutexCpu
  <2>3. \A f \in DOMAIN r.ev : r.ev[f].ptr \in {Null, r.cur}
    BY ONLY <1>10
  <2> QED
    BY ONLY <2>1, <2>2, <2>3 DEF MutexCpu
<1>26. MutexState(r, p, H)
  BY ONLY <1>16, <1>17, <1>18, <1>19, <1>20, <1>21, <1>22, <1>23, <1>24, <1>25 DEF MutexState, MutexTables
<1> QED
  BY ONLY <1>1, <1>2, <1>26
-----------------------------------------------------------------------------
\* The other services are not called.
LEMMA MutexOnly ==
  ASSUME MutexInv
  PROVE  ~ SemNext /\ ~ MboxNext /\ ~ MultiNext /\ ~ QNext /\ ~ FlagNext
<1>1. PICK t : t = os.cur
  OBVIOUS
<1>0. MutexKernel(os) /\ MutexPc(os, pc)
  BY DEF MutexInv, MutexState, MutexTables
<1>2. /\ pc[t].at \in {"muaccept", "mupend", "mupost", "mudel", "app", "sched", "block", "wake"}
      /\ pc[t].at = "wake" => pc[t].svc = "mutex"
  <2>1. t \in Task
    BY ONLY <1>0, <1>1, MutexBasics
  <2> QED
    BY ONLY <1>0, <2>1 DEF MutexPc, InMutex, Blk
<1>3. Ops \subseteq {"muaccept", "mupend", "mupost", "mudel", "dly", "dlyresume", "lock"}
  BY ONLY <1>0 DEF MutexKernel, Guarding, Ops, MutexOps
<1>4. \A op : op \notin Ops => ~ Calls(t, op)
  BY DEF Calls
<1>5. \A op, type, e, n : op \notin Ops => ~ Enter(t, op, type, e, n) /\ ~ Blocks(t, op, type, e, n)
  BY ONLY <1>4 DEF Enter, Blocks
<1>6. ~ SemNext
  <2>1. \A e : ~ SemCall(t, e) /\ ~ IsrPost(e)
    BY ONLY <1>3, <1>5 DEF SemCall, IsrPost
  <2>2. ~ OSSemAccept(t) /\ ~ OSSemPend(t) /\ ~ SemWake(t) /\ ~ OSSemPost(t) /\ ~ OSSemPendAbort(t) /\ ~ OSSemSet(t) /\ ~ OSSemDel(t)
    BY ONLY <1>2 DEF OSSemAccept, OSSemPend, SemWake, OSSemPost, OSSemPendAbort, OSSemSet, OSSemDel, Wakes, At
  <2>3. ~ OSSemCreate(t, Cnt0)
    BY ONLY <1>3, <1>4 DEF OSSemCreate
  <2> QED
    BY ONLY <1>1, <2>1, <2>2, <2>3 DEF SemNext, SemStep
<1>7. ~ MboxNext
  <2>1. \A e : ~ MboxCall(t, e) /\ \A m : ~ IsrMboxPost(e, m)
    BY ONLY <1>3, <1>5 DEF MboxCall, IsrMboxPost
  <2>2. /\ ~ OSMboxAccept(t) /\ ~ OSMboxPend(t) /\ ~ MboxWake(t) /\ ~ OSMboxPost(t) /\ ~ OSMboxPostOpt(t)
        /\ ~ OSMboxPendAbort(t) /\ ~ OSMboxDel(t)
    BY ONLY <1>2 DEF OSMboxAccept, OSMboxPend, MboxWake, OSMboxPost, OSMboxPostOpt, OSMboxPendAbort, OSMboxDel, Wakes, At
  <2>3. ~ OSMboxCreate(t)
    BY ONLY <1>3, <1>4 DEF OSMboxCreate
  <2> QED
    BY ONLY <1>1, <2>1, <2>2, <2>3 DEF MboxNext, MboxStep
<1>8. ~ MultiNext
  <2>1. \A n : ~ EnterMulti(t, n)
    BY ONLY <1>3, <1>4 DEF EnterMulti
  <2>2. ~ OSEventPendMulti(t) /\ ~ MultiSched(t) /\ ~ MultiWake(t)
    BY ONLY <1>2 DEF OSEventPendMulti, MultiSched, MultiWake, At
  <2> QED
    BY ONLY <1>1, <2>1, <2>2 DEF MultiNext
<1>9. ~ QNext
  <2>1. \A e : ~ QCall(t, e) /\ \A m : ~ IsrQPost(e, m)
    BY ONLY <1>3, <1>5 DEF QCall, IsrQPost
  <2>2. /\ ~ OSQAccept(t) /\ ~ OSQPend(t) /\ ~ QWake(t) /\ ~ OSQPost(t) /\ ~ OSQPostOpt(t)
        /\ ~ OSQPendAbort(t) /\ ~ OSQFlush(t) /\ ~ OSQDel(t) /\ ~ TakeQcb(t)
    BY ONLY <1>2 DEF OSQAccept, OSQPend, QWake, OSQPost, OSQPostOpt, OSQPendAbort, OSQFlush, OSQDel, TakeQcb, Wakes, At
  <2>3. ~ OSQCreate(t)
    BY ONLY <1>3, <1>4 DEF OSQCreate
  <2> QED
    BY ONLY <1>1, <2>1, <2>2, <2>3 DEF QNext, QStep
<1>10. ~ FlagNext
  <2>1. \A g : ~ FlagCall(t, g) /\ \A b, set : ~ IsrFlagPost(g, b, set)
    BY ONLY <1>3, <1>4 DEF FlagCall, EnterFlag, IsrFlagPost
  <2>2. ~ OSFlagAccept(t) /\ ~ OSFlagPend(t) /\ ~ FlagWake(t) /\ ~ OSFlagPost(t) /\ ~ OSFlagDel(t)
    BY ONLY <1>2 DEF OSFlagAccept, OSFlagPend, FlagWake, OSFlagPost, OSFlagDel, Wakes, At
  <2>3. ~ OSFlagCreate(t)
    BY ONLY <1>3, <1>4, Zenon DEF OSFlagCreate
  <2> QED
    BY ONLY <1>1, <2>1, <2>2, <2>3 DEF FlagNext, FlagStep
<1> QED
  BY ONLY <1>6, <1>7, <1>8, <1>9, <1>10

\* A step of a task, or the tick, apart from the mutexes.
LEMMA MutexTasks ==
  ASSUME MutexInv, Tick \/ \E t \in {os.cur} : TaskStep(t)
  PROVE  MutexState(os', pc', has)
<1>1. CASE Tick
  BY ONLY <1>1, MutexInv, MutexTick
<1>2. CASE \E t \in {os.cur} : TaskStep(t)
  <2>0. MutexKernel(os) /\ MutexPc(os, pc)
    BY DEF MutexInv, MutexState, MutexTables
  <2>1. PICK t : t = os.cur /\ TaskStep(t)
    BY ONLY <1>2
  <2>2. pc[t].at \in {"muaccept", "mupend", "mupost", "mudel", "app", "sched", "block", "wake"}
    <3>1. t \in Task
      BY ONLY <2>0, <2>1, MutexBasics
    <3> QED
      BY ONLY <2>0, <3>1 DEF MutexPc, InMutex
  <2>3. Ops \subseteq {"muaccept", "mupend", "mupost", "mudel", "dly", "dlyresume", "lock"}
    BY ONLY <2>0 DEF MutexKernel, Guarding, Ops, MutexOps
  <2>4. ~ TakeTcb(t) /\ ~ GiveBack(t) /\ ~ OS_TCBInit(t) /\ ~ FreeTcb(t)
    BY ONLY <2>2, Zenon DEF TakeTcb, GiveBack, OS_TCBInit, FreeTcb, At
  <2>a. \A op \in {"suspend", "resume", "del", "delself", "create", "changeprio"} : ~ Calls(t, op)
    BY ONLY <2>3 DEF Calls
  <2>5. \A p, r : /\ ~ OSTaskSuspend(t, p) /\ ~ OSTaskResume(t, p) /\ ~ OSTaskDel(t, p) /\ ~ OSTaskDelReq(t, p)
                  /\ ~ ReservePrio(t, p) /\ ~ OSTaskChangePrio(t, p, r)
    BY ONLY <2>a DEF OSTaskSuspend, OSTaskResume, OSTaskDel, OSTaskDelReq, ReservePrio, OSTaskChangePrio
  <2>6. CASE Reschedule(t)
    BY ONLY <2>6, MutexInv, MutexReschedule
  <2>7. CASE \E n \in 1 .. MaxDly : OSTimeDly(t, n)
    BY ONLY <2>7, MutexInv, MutexDly
  <2>8. CASE \E p \in Prio : OSTimeDlyResume(t, p)
    BY ONLY <2>8, MutexInv, MutexDlyResume
  <2>9. CASE OSSchedLock(t)
    BY ONLY <2>9, MutexInv, MutexSchedLock
  <2>10. CASE OSSchedUnlock(t)
    BY ONLY <2>10, MutexInv, MutexSchedUnlock
  <2> QED
    BY ONLY <2>1, <2>4, <2>5, <2>6, <2>7, <2>8, <2>9, <2>10 DEF TaskStep
<1> QED
  BY <1>1, <1>2

LEMMA MutexesStep ==
  ASSUME MutexInv, MutexNext
  PROVE  MutexState(os', pc', has')
<1>1. CASE \E t \in {os.cur} : \E e \in Event : MutexCall(t, e) /\ UNCHANGED has
  <2>0. PICK t : \E e \in DOMAIN os.ev : MutexCall(t, e) /\ has' = has
    BY ONLY <1>1 DEF Event
  <2>1. PICK e \in DOMAIN os.ev : MutexCall(t, e) /\ has' = has
    BY ONLY <2>0
  <2>2. MutexCall(t, e)
    BY ONLY <2>1
  <2>3. MutexState(os', pc', has)
    BY ONLY <2>2, MutexInv, e \in DOMAIN os.ev, MutexEntry
  <2> QED
    BY ONLY <2>1, <2>3
<1>2. CASE \E t \in {os.cur} : OSMutexAccept(t)
  BY ONLY <1>2, MutexInv, MutexAccepts
<1>3. CASE \E t \in {os.cur} : OSMutexPend(t)
  BY ONLY <1>3, MutexInv, MutexPends
<1>4. CASE \E t \in {os.cur} : MutexWake(t)
  BY ONLY <1>4, MutexInv, MutexWakes
<1>5. CASE \E t \in {os.cur} : OSMutexPost(t)
  BY ONLY <1>5, MutexInv, MutexPosts
<1>6. CASE \E t \in {os.cur} : OSMutexCreate(t)
  BY ONLY <1>6, MutexInv, MutexCreates
<1>7. CASE \E t \in {os.cur} : OSMutexDel(t)
  BY ONLY <1>7, MutexInv, MutexDels
<1> QED
  BY ONLY MutexNext, <1>1, <1>2, <1>3, <1>4, <1>5, <1>6, <1>7 DEF MutexNext, MutexStep

LEMMA MutexHolds ==
  ASSUME MutexInv, [Next]_kvars
  PROVE  MutexInv'
<1>1. ~ SemNext /\ ~ MboxNext /\ ~ MultiNext /\ ~ QNext /\ ~ FlagNext
  BY ONLY MutexInv, MutexOnly
<1>2. MutexState(os', pc', has')
  <2>1. CASE (Tick \/ \E t \in {os.cur} : TaskStep(t)) /\ UNCHANGED <<ghosts, mine, queues, has>>
    <3>1. MutexState(os', pc', has)
      BY ONLY MutexInv, <2>1, MutexTasks
    <3>2. has' = has
      BY ONLY <2>1
    <3> QED
      BY ONLY <3>1, <3>2
  <2>2. CASE MutexNext
    BY ONLY MutexInv, <2>2, MutexesStep
  <2>3. CASE UNCHANGED kvars
    <3>1. os' = os /\ pc' = pc /\ has' = has
      BY ONLY <2>3 DEF kvars
    <3>2. MutexState(os, pc, has)
      BY DEF MutexInv
    <3> QED
      BY ONLY <3>1, <3>2
  <2> QED
    BY ONLY [Next]_kvars, <1>1, <2>1, <2>2, <2>3 DEF Next
<1> QED
  BY ONLY <1>2 DEF MutexInv, MutexState, MutexTables, MutexKernel, MutexPrios, MutexEcbs, Outranks, MutexPc, MutexStats,
                   MutexCalls, MutexHas, MutexWaits, CurKnown, MutexCpu, Told, Blk, Dozing, Own, ReadyAt, Shape, Formed
-----------------------------------------------------------------------------
\* Nobody has a mutex when the tasks start; Pip is set aside if there is one.
LEMMA MutexReserved ==
  ASSUME NEW a \in DOMAIN App, Guarding(a), NEW k, k = PipsReserved(Started(a))
  PROVE  \E s : /\ Fine(a, s)
                /\ k = [s EXCEPT !.tbl = [x \in Prio |-> IF x = Pip /\ (\E e \in DOMAIN s.ev : s.ev[e].type = "mutex") THEN Reserved ELSE s.tbl[x]]]
<1>1. PICK s : s = Started(a)
  OBVIOUS
<1>2. Fine(a, s)
  BY ONLY <1>1, a \in DOMAIN App DEF Started, Fine, Shape
<1>3. s.ev = App[a].ev
  BY ONLY <1>2 DEF Fine
<1>4. ASSUME NEW e \in DOMAIN s.ev, s.ev[e].type = "mutex"
      PROVE  PipOf(s, e) = Pip
  <2>1. s.ev[e].cnt = 256 * Pip + MutexAvailable
    BY ONLY <1>3, <1>4, Guarding(a) DEF Guarding
  <2>2. LowestPrio \in Nat /\ Pip \in Prio
    BY CoreAssumption DEF Guarding
  <2>3. Pip \in Nat /\ 255 \in Nat /\ 255 < 256
    BY ONLY <2>2 DEF Prio
  <2>4. (256 * Pip + 255) \div 256 = Pip
    BY ONLY <2>3, CountParts
  <2> QED
    BY ONLY <2>1, <2>4 DEF PipOf, MutexAvailable
<1>5. \A x : (\E e \in DOMAIN s.ev : s.ev[e].type = "mutex" /\ PipOf(s, e) = x)
               <=> x = Pip /\ \E e \in DOMAIN s.ev : s.ev[e].type = "mutex"
  BY ONLY <1>4
<1>6. k = [s EXCEPT !.tbl = [x \in Prio |->
             IF \E e \in DOMAIN s.ev : s.ev[e].type = "mutex" /\ PipOf(s, e) = x THEN Reserved ELSE s.tbl[x]]]
  BY ONLY <1>1, k = PipsReserved(Started(a)) DEF PipsReserved
<1>7. k = [s EXCEPT !.tbl = [x \in Prio |-> IF x = Pip /\ (\E e \in DOMAIN s.ev : s.ev[e].type = "mutex") THEN Reserved ELSE s.tbl[x]]]
  BY ONLY <1>5, <1>6
<1> QED
  BY ONLY <1>2, <1>7

LEMMA MutexStarts ==
  ASSUME Init, Guarding(os.app)
  PROVE  MutexInv
<1>1. PICK a \in DOMAIN App : os = PipsReserved(Started(a))
  BY DEF Init
<1>2. os.app = a
  BY ONLY <1>1 DEF PipsReserved, Started
<1>3. PICK k : k = os
  OBVIOUS
<1>4. Guarding(a)
  BY <1>2
<1>5. PICK s : /\ Fine(a, s)
               /\ k = [s EXCEPT !.tbl = [x \in Prio |-> IF x = Pip /\ (\E e \in DOMAIN s.ev : s.ev[e].type = "mutex") THEN Reserved ELSE s.tbl[x]]]
  BY ONLY <1>1, <1>3, <1>4, MutexReserved
<1>6. PICK r, B : r = App[a].prio /\ B = [x \in Prio |-> IF x = Pip /\ (\E e \in DOMAIN s.ev : s.ev[e].type = "mutex") THEN Reserved ELSE s.tbl[x]]
  OBVIOUS
<1>7. /\ s.list \subseteq Task /\ Idle \in s.list /\ s.rdy \subseteq Prio /\ r \in [s.list -> Prio]
      /\ (\A t, u \in s.list : r[t] = r[u] => t = u)
      /\ r[Idle] = LowestPrio
      /\ (\A t \in s.list : r[t] \in s.rdy /\ s.tbl[r[t]] = t)
      /\ (\A x \in s.rdy : \E t \in s.list : r[t] = x)
      /\ (\A x \in Prio : x \notin s.rdy => s.tbl[x] = Null)
      /\ s.tbl \in [Prio -> s.list \cup {Null}]
      /\ s.cur \in s.list /\ s.prioCur = r[s.cur] /\ s.prioCur \in s.rdy /\ (\A x \in s.rdy : s.prioCur <= x)
  BY ONLY <1>5, <1>6, PriosAre
<1>8. /\ Shape(s) /\ s.app = a /\ s.lock = 0 /\ s.list = DOMAIN r /\ s.ev = App[a].ev
      /\ s.evfree = SetToSeq({e \in DOMAIN s.ev : s.ev[e] = Unused})
      /\ s.tcb = [t \in Task |-> IF t \in s.list THEN Tcb(r[t]) ELSE Tcb(0)]
  <2>1. /\ Shape(s) /\ s.app = a /\ s.lock = 0 /\ s.list = DOMAIN App[a].prio /\ s.ev = App[a].ev
        /\ s.evfree = SetToSeq({e \in DOMAIN App[a].ev : App[a].ev[e] = Unused})
        /\ s.tcb = [t \in Task |-> IF t \in DOMAIN App[a].prio THEN Tcb(App[a].prio[t]) ELSE Tcb(0)]
    BY ONLY <1>5 DEF Fine
  <2> QED
    BY ONLY <1>6, <2>1, Zenon
<1>9. /\ Shape(k) /\ k.app = a /\ k.lock = 0 /\ k.list = s.list /\ k.ev = s.ev /\ k.evfree = s.evfree /\ k.tcb = s.tcb
      /\ k.rdy = s.rdy /\ k.cur = s.cur /\ k.prioCur = s.prioCur /\ k.tbl = B
  BY ONLY <1>5, <1>6, <1>8 DEF Shape
<1>10. /\ Pip \in Prio /\ (\A t \in k.list : r[t] # Pip) /\ Null \notin Task /\ Reserved \notin Task /\ Reserved # Null
       /\ \A t : Own(k, t) = r[t]
  <2>1. LowestPrio \in Nat /\ Null \notin Task /\ Reserved \notin Task /\ Reserved # Null
    BY ONLY CoreAssumption
  <2>2. Pip \in Prio /\ \A t \in k.list : Pip < r[t]
    BY ONLY <1>4, <1>6, <1>8, <1>9 DEF Guarding
  <2>3. \A t \in k.list : r[t] # Pip
    BY ONLY <1>7, <1>9, <2>1, <2>2 DEF Prio
  <2> QED
    BY ONLY <1>6, <1>9, <2>1, <2>2, <2>3 DEF Own
<1>11. /\ \A e \in DOMAIN k.ev : /\ k.ev[e] \in MutexEcb /\ k.ev[e].ptr = Null /\ k.ev[e].wait = {}
                                 /\ k.ev[e].type = "mutex" =>
                                      /\ k.ev[e].cnt = 256 * Pip + MutexAvailable
                                      /\ \A f \in DOMAIN k.ev : k.ev[f].type = "mutex" => e = f
       /\ k.ev \in [DOMAIN k.ev -> MutexEcb] /\ IsFiniteSet(DOMAIN k.ev)
  <2>1. PICK v : v = App[a].ev
    OBVIOUS
  <2>2. /\ v \in [DOMAIN v -> [type : {"sem", "mbox", "q", "mutex", "unused"}, cnt : Nat,
                               ptr : App[a].msg \cup Qcb \cup {Null}, wait : {{}}]]
        /\ \A e \in DOMAIN v : v[e].type = "unused" => v[e] = Unused
    BY ONLY <2>1, EventAssumption
  <2>3. IsFiniteSet(DOMAIN v)
    BY ONLY <2>1, AppAssumption
  <2>4. \A e \in DOMAIN v : /\ v[e].type \in {"mutex", "unused"}
                            /\ v[e].type = "mutex" => /\ v[e].cnt = 256 * Pip + MutexAvailable /\ v[e].ptr = Null
                                                      /\ \A f \in DOMAIN v : v[f].type = "mutex" => e = f
    BY ONLY <2>1, <1>4 DEF Guarding
  <2>5. ASSUME NEW e \in DOMAIN v PROVE v[e] \in MutexEcb /\ v[e].ptr = Null /\ v[e].wait = {}
    <3>1. v[e].ptr = Null
      <4>1. Unused.ptr = Null
        BY DEF Unused
      <4> QED
        BY ONLY <2>2, <2>4, <2>5, <4>1
    <3>2. PICK c, X : X = App[a].msg \cup Qcb \cup {Null} /\ c = v[e] /\ c \in [type : {"sem", "mbox", "q", "mutex", "unused"}, cnt : Nat, ptr : X, wait : {{}}]
                   /\ c.type \in {"mutex", "unused"} /\ c.ptr = Null
      BY ONLY <2>2, <2>4, <2>5, <3>1, Zenon
    <3>3. c = [type |-> c.type, cnt |-> c.cnt, ptr |-> c.ptr, wait |-> c.wait] /\ c.cnt \in Nat /\ c.wait = {}
      BY ONLY <3>2
    <3>4. c \in MutexEcb
      BY ONLY <3>2, <3>3 DEF MutexEcb
    <3> QED
      BY ONLY <3>2, <3>3, <3>4
  <2>6. v \in [DOMAIN v -> MutexEcb]
    BY ONLY <2>2, <2>5
  <2>7. k.ev = v
    BY ONLY <1>8, <1>9, <2>1
  <2> QED
    BY ONLY <2>3, <2>4, <2>5, <2>6, <2>7
<1>12. k.evfree \in Seq(DOMAIN k.ev)
  <2>1. PICK S : S = {e \in DOMAIN k.ev : k.ev[e] = Unused}
    OBVIOUS
  <2>2. S \subseteq DOMAIN k.ev /\ IsFiniteSet(DOMAIN k.ev)
    BY ONLY <1>11, <2>1
  <2>3. IsFiniteSet(S)
    BY ONLY <2>2, FS_Subset
  <2>4. SetToSeq(S) \in Seq(S)
    BY ONLY <2>3, InSeq
  <2>5. k.evfree = SetToSeq(S)
    BY ONLY <1>8, <1>9, <2>1
  <2> QED
    BY ONLY <2>2, <2>4, <2>5
<1>13. \A t \in Task : /\ k.tcb[t] \in MutexTcb /\ k.tcb[t].stat = {} /\ k.tcb[t].dly = 0 /\ k.tcb[t].pend = "ok"
                       /\ k.tcb[t].ev = Null
  <2>1. 0 \in Prio
    BY ONLY CoreAssumption DEF Prio
  <2>2. \A x \in Prio : /\ Tcb(x) \in MutexTcb /\ Tcb(x).stat = {} /\ Tcb(x).dly = 0 /\ Tcb(x).pend = "ok"
                        /\ Tcb(x).ev = Null
    BY DEF Tcb, MutexTcb
  <2>3. \A t \in Task : \E x \in Prio : k.tcb[t] = Tcb(x)
    BY ONLY <1>7, <1>8, <1>9, <2>1
  <2> QED
    BY ONLY <2>2, <2>3
<1>14. \A t \in k.list : k.tcb[t].prio = r[t]
  BY ONLY <1>7, <1>8, <1>9 DEF Tcb
<1>15. /\ \A x \in Prio : x # Pip => k.tbl[x] = s.tbl[x]
       /\ k.tbl[Pip] = IF \E e \in DOMAIN k.ev : k.ev[e].type = "mutex" THEN Reserved ELSE Null
       /\ k.tbl \in [Prio -> Task \cup {Null, Reserved}]
  <2>1. Pip \notin s.rdy
    BY ONLY <1>7, <1>9, <1>10
  <2> QED
    BY ONLY <1>6, <1>7, <1>9, <1>10, <2>1
<1>16. MutexKernel(k)
  <2>1. k.tcb \in [Task -> MutexTcb]
    BY ONLY <1>8, <1>9, <1>13
  <2>2. \A t \in k.list : ReadyAt(k, t)
    BY ONLY <1>7, <1>9, <1>13, <1>14 DEF ReadyAt
  <2>3. k.list = DOMAIN App[k.app].prio /\ DOMAIN k.ev = DOMAIN App[k.app].ev
    BY ONLY <1>6, <1>8, <1>9
  <2>4. \A x \in k.rdy : \E t \in k.list : k.tcb[t].prio = x
    BY ONLY <1>7, <1>9, <1>14
  <2>5. k.tcb[Idle].prio = LowestPrio /\ k.tcb[Idle].stat = {} /\ k.tcb[Idle].dly = 0
    BY ONLY <1>7, <1>9, <1>13, <1>14
  <2>6. k.ev \in [DOMAIN App[k.app].ev -> MutexEcb] /\ k.evfree \in Seq(DOMAIN App[k.app].ev)
    BY ONLY <1>11, <1>12, <2>3
  <2>7. k.rdy \subseteq Prio /\ k.cur \in k.list /\ k.lock \in Nat /\ k.prioCur \in Prio /\ a \in DOMAIN App /\ k.app = a
    BY ONLY <1>7, <1>9, a \in DOMAIN App
  <2> QED
    BY ONLY <1>4, <1>9, <1>15, <2>1, <2>2, <2>3, <2>4, <2>5, <2>6, <2>7 DEF MutexKernel
<1>17. MutexPrios(k)
  <2>1. ASSUME NEW t \in k.list PROVE k.tbl[Own(k, t)] = t /\ k.tcb[t].prio = Own(k, t) /\ k.tcb[t].prio # Pip
    BY ONLY <1>7, <1>9, <1>10, <1>14, <1>15, <2>1
  <2>2. k.tbl[Pip] = Null <=> \A e \in DOMAIN k.ev : k.ev[e].type # "mutex"
    BY ONLY <1>10, <1>15
  <2>3. \A x \in Prio : k.tbl[x] \in Task => k.tbl[x] \in k.list
    BY ONLY <1>7, <1>9, <1>10, <1>15
  <2> QED
    BY ONLY <2>1, <2>2, <2>3 DEF MutexPrios
<1>18. MutexEcbs(k) /\ Outranks(k)
  BY ONLY <1>11 DEF MutexEcbs, Outranks
<1>19. PICK p, H : p = pc /\ H = has /\ p = [t \in Task |-> InApp] /\ H = [t \in Task |-> {}]
  BY DEF Init
<1>20. \A t \in Task : p[t].at = "app" /\ Formed(p[t])
  BY ONLY <1>19 DEF InApp, Formed
<1>21. \A t \in Task : ~ Blk(p, t) /\ p[t].at \notin InMutex /\ ~ Dozing(k.tcb[t])
  BY ONLY <1>13, <1>20 DEF Blk, InMutex, Dozing
<1>22. MutexPc(k, p)
  <2>1. p = [t \in Task |-> p[t]]
    BY ONLY <1>19
  <2> QED
    BY ONLY <1>20, <1>21, <2>1 DEF MutexPc
<1>23. MutexStats(k, p)
  BY ONLY <1>7, <1>9, <1>13, <1>21 DEF MutexStats
<1>24. MutexCalls(k, p)
  BY ONLY <1>21 DEF MutexCalls, InMutex
<1>25. MutexHas(k, p, H)
  <2>1. H = [t \in Task |-> H[t]] /\ \A t \in Task : H[t] = {}
    BY ONLY <1>19
  <2>2. \A e \in DOMAIN k.ev, t \in Task : k.ev[e].ptr # t /\ ~ Told(k, p, H, t, e)
    BY ONLY <1>10, <1>11, <1>21, <2>1 DEF Told
  <2> QED
    BY ONLY <2>1, <2>2 DEF MutexHas
<1>26. MutexWaits(k, p)
  BY ONLY <1>7, <1>9, <1>11, <1>21 DEF MutexWaits
<1>27. MutexCpu(k, p)
  <2>1. k.prioCur = k.tcb[k.cur].prio /\ k.prioCur \in k.rdy /\ (\A x \in k.rdy : k.prioCur <= x) /\ k.lock = 0
    BY ONLY <1>7, <1>9, <1>14
  <2> QED
    BY ONLY <2>1 DEF MutexCpu, CurKnown
<1> QED
  BY ONLY <1>3, <1>16, <1>17, <1>18, <1>19, <1>22, <1>23, <1>24, <1>25, <1>26, <1>27 DEF MutexInv, MutexState, MutexTables
-----------------------------------------------------------------------------
LEMMA ExclusionFollows ==
  ASSUME MutexInv
  PROVE  MutualExclusion
<1>1. /\ MutexTables(os, pc, has) /\ MutexKernel(os) /\ MutexEcbs(os) /\ MutexHas(os, pc, has)
  BY DEF MutexInv, MutexState, MutexTables
<1>2. SUFFICES ASSUME "mudel" \notin Ops, NEW e \in Mutexes
               PROVE  {t \in Task : e \in has[t]} \cup Handed(e) = {os.ev[e].ptr} \ {Null}
  BY DEF MutualExclusion
<1>3. e \in DOMAIN os.ev /\ os.ev[e].type = "mutex"
  BY ONLY <1>2 DEF Mutexes, Event
<1>4. os.ev[e].ptr # Null => os.ev[e].ptr \in Task
  BY ONLY <1>1, <1>3, MutexBasics DEF MutexEcbs
<1>5. \A t \in Task : os.ev[e].ptr = t <=> Told(os, pc, has, t, e)
  BY ONLY <1>1, <1>2, <1>3 DEF MutexHas, Ops
<1>6. ASSUME NEW t \in Task
      PROVE  t \in Handed(e) <=> Blk(pc, t) /\ pc[t].ev = e /\ ~ Dozing(os.tcb[t])
  <2>1. os.tcb[t] \in MutexTcb
    BY ONLY <1>1, MutexBasics
  <2>2. os.tcb[t].stat \in SUBSET {"mutex"} /\ os.tcb[t].pend \in {"ok", "to"}
    BY ONLY <2>1 DEF MutexTcb
  <2>3. os.tcb[t].stat \cap PendAny # {} <=> "mutex" \in os.tcb[t].stat
    BY ONLY <2>2 DEF PendAny
  <2>4. Blocked(t) => t \notin Multi
    BY DEF Blocked, Multi
  <2>5. t \in Handed(e) <=> Blocked(t) /\ pc[t].ev = e /\ os.tcb[t].pend = "ok" /\ ~ ToBeListed(t, e)
    BY ONLY t \in Task DEF Handed
  <2>6. Blocked(t) <=> Blk(pc, t)
    BY ONLY TRUE DEF Blocked, Blk
  <2> QED
    BY ONLY <2>2, <2>3, <2>4, <2>5, <2>6 DEF ToBeListed, Dozing
<1>7. \A t \in Task : t \in Handed(e) \/ e \in has[t] <=> os.ev[e].ptr = t
  BY ONLY <1>5, <1>6 DEF Told
<1>8. Handed(e) \subseteq Task /\ Null \notin Task
  BY ONLY <1>1, MutexBasics DEF Handed
<1> QED
  BY ONLY <1>4, <1>7, <1>8

LEMMA InheritanceFollows ==
  ASSUME MutexInv
  PROVE  PriorityInherited
<1>1. /\ MutexTables(os, pc, has) /\ MutexKernel(os) /\ MutexPrios(os) /\ MutexEcbs(os) /\ Outranks(os)
  BY DEF MutexInv, MutexState, MutexTables
<1>2. os.list = DOMAIN StartPrio /\ \A t : Own(os, t) = StartPrio[t]
  BY ONLY <1>1 DEF MutexKernel, StartPrio, Own
<1>3. \A e \in DOMAIN os.ev : e \in Mutexes <=> os.ev[e].type = "mutex"
  BY DEF Mutexes, Event
<1>4. Mutexes \subseteq DOMAIN os.ev
  BY DEF Mutexes, Event
<1>5. ASSUME NEW e \in DOMAIN os.ev, os.ev[e].ptr # Null
      PROVE  e \in Mutexes /\ OwnPrio(os, e) = StartPrio[os.ev[e].ptr]
  <2>1. os.ev[e].type = "mutex"
    BY ONLY <1>1, <1>5 DEF MutexEcbs
  <2>2. OwnPrio(os, e) = Own(os, os.ev[e].ptr)
    BY ONLY <1>1, <1>5, <2>1, MutexCount
  <2> QED
    BY ONLY <1>2, <1>3, <1>5, <2>1, <2>2
<1>6. os.tbl[Pip] = Null <=> Mutexes = {}
  BY ONLY <1>1, <1>3, <1>4 DEF MutexPrios
<1>7. ASSUME NEW e \in Mutexes, os.ev[e].ptr # Null
      PROVE  /\ OwnPrio(os, e) = StartPrio[os.ev[e].ptr]
             /\ \A x \in os.ev[e].wait : os.tcb[os.ev[e].ptr].prio < x
  BY ONLY <1>1, <1>4, <1>5, <1>7 DEF Outranks
<1>8. ASSUME NEW t \in os.list, os.tcb[t].prio # StartPrio[t]
      PROVE  os.tcb[t].prio = Pip /\ os.tbl[Pip] = t /\ Lent(t, StartPrio[t])
  <2>1. os.tcb[t].prio = Pip /\ os.tbl[Pip] = t /\ \E e \in DOMAIN os.ev : os.ev[e].ptr = t
    BY ONLY <1>1, <1>2, <1>8 DEF MutexPrios
  <2>2. t # Null
    BY ONLY <1>1, <1>8, MutexBasics
  <2> QED
    BY ONLY <1>5, <2>1, <2>2 DEF Lent
<1>9. \A t \in os.list : os.tbl[StartPrio[t]] = t
  BY ONLY <1>1, <1>2 DEF MutexPrios
<1> QED
  BY ONLY <1>2, <1>6, <1>7, <1>8, <1>9 DEF PriorityInherited

\* In an application that guards, one task at most has the mutex or is on its way
\* out of OSMutexPend with it, and it is the one OSEventPtr names, whatever the
\* order of the posts, the time-outs and the moments the tasks run (os_mutex.c).
THEOREM OneOwner == Spec /\ Guarding(os.app) => []MutualExclusion
<1>1. Init /\ Guarding(os.app) => MutexInv
  BY ONLY MutexStarts
<1>2. MutexInv /\ [Next]_kvars => MutexInv'
  BY ONLY MutexHolds
<1>3. MutexInv => MutualExclusion
  BY ONLY ExclusionFollows
<1> QED
  BY <1>1, <1>2, <1>3, PTL DEF Spec

\* There the owner runs at its own priority or, once a waiter outranks it, at the
\* one set aside, and gets its own back with the post or the deletion; no waiter
\* ever outranks the owner (OSMutexPend, OSMutexPost, OSMutexDel).
THEOREM OwnerInherits == Spec /\ Guarding(os.app) => []PriorityInherited
<1>1. Init /\ Guarding(os.app) => MutexInv
  BY ONLY MutexStarts
<1>2. MutexInv /\ [Next]_kvars => MutexInv'
  BY ONLY MutexHolds
<1>3. MutexInv => PriorityInherited
  BY ONLY InheritanceFollows
<1> QED
  BY <1>1, <1>2, <1>3, PTL DEF Spec
=============================================================================
