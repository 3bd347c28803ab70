----------------------------- MODULE FlagProofs -----------------------------
(***************************************************************************)
(* That event flags reach the tasks that wait for them, for any tasks,     *)
(* priorities, groups and flags: the list of a group holds exactly its     *)
(* waiters, none of them has what it waits for, and a call that reports    *)
(* success had it.  The applications of these proofs are those that        *)
(* signal, defined below; they are others than those of KernelProofs, and  *)
(* so is the invariant.                                                    *)
(***************************************************************************)
EXTENDS KernelProofs

\* An application that signals: its tasks wait for flags, with or without a limit,
\* delay, suspend and resume each other and lock the scheduler, and what one of them
\* consumes no other waits for (it would not be woken, see the README).
FlagOps == {"flagpend", "flagpost", "flagaccept", "flagdel", "isrflagpost",
            "dly", "dlyresume", "suspend", "resume", "lock"}
Signalling(a) ==
  /\ App[a].ops \subseteq FlagOps /\ \A e \in DOMAIN App[a].ev : App[a].ev[e].type # "mutex"
  /\ \A v, w \in App[a].wait : v.eat => (v.set <=> w.set)

InFlag == {"flagaccept", "flagpend", "flagpost", "flagdel"}
FlagTcb == [prio : Prio, stat : SUBSET {"suspend", "flag"}, pend : {"ok", "to"}, dly : Nat,
            ev : {Null}, multi : {{}}, msg : {Null}, delreq : BOOLEAN]

\* In an application that signals no task comes or goes, and every one keeps its
\* priority.
FlagKernel(k) ==
  /\ Shape(k) /\ k.app \in DOMAIN App /\ Signalling(k.app)
  /\ k.rdy \subseteq Prio /\ k.tbl \in [Prio -> Task \cup {Null}] /\ k.tcb \in [Task -> FlagTcb]
  /\ k.list \subseteq Task /\ k.cur \in k.list /\ k.lock \in Nat /\ OwnPrioInv(k)
  /\ \A t \in k.list : ReadyAt(k, t)
  /\ \A x \in k.rdy : \E t \in k.list : k.tcb[t].prio = x
  /\ \A t \in Task : k.tcb[t].pend = "to" => k.tcb[t].dly = 0 /\ "flag" \notin k.tcb[t].stat
  /\ Idle \in k.list /\ k.tcb[Idle].prio = LowestPrio /\ k.tcb[Idle].stat = {} /\ k.tcb[Idle].dly = 0

\* The task that runs has the processor's priority; it is ready unless it is about
\* to look at the scheduler, which is not locked where it may go to sleep.
FlagCpu(k, p) ==
  /\ k.tcb[k.cur].prio = k.prioCur
  /\ p[k.cur].at \in {"flagpend", "block", "wake"} => k.lock = 0
  /\ k.lock = 0 /\ p[k.cur].at \notin {"sched", "block"} => k.prioCur \in k.rdy

\* A task that waits, or whose wait has timed out.
OnFlags(k, t) == "flag" \in k.tcb[t].stat \/ k.tcb[t].pend = "to"

FlagPc(k, p) ==
  /\ p = [t \in Task |-> p[t]]
  /\ \A t \in Task :
       /\ p[t] = [at |-> p[t].at, ev |-> p[t].ev, n |-> p[t].n, svc |-> p[t].svc]
       /\ p[t].at \in InFlag \cup {"app", "sched", "block", "wake"}
       /\ t \notin k.list \/ t = Idle => p[t].at = "app"
       /\ OnFlags(k, t) => Blk(p, t)
       /\ Blk(p, t) => p[t].svc = "flag" /\ p[t].ev \in Group
       /\ p[t].at \in InFlag => p[t].svc = "flag" /\ p[t].ev \in Group
       /\ p[t].at \in {"flagaccept", "flagpend", "block", "wake"} => p[t].n \in App[k.app].wait
       /\ p[t].at = "flagdel" => "flagdel" \in App[k.app].ops

\* A call finds its group, and nobody is in a call on one that is being deleted.
FlagCalls(p, G, F) ==
  /\ G = [g \in Group |-> G[g]]
  /\ \A g \in Group : /\ G[g] = [type |-> G[g].type, flags |-> G[g].flags, list |-> G[g].list]
                      /\ G[g].list \in Seq(Task)
                      /\ G[g].type # "flag" => G[g].list = <<>>
  /\ F \in Seq(Group) /\ IsInjective(F) /\ \A g \in ToSet(F) : G[g].type # "flag"
  /\ \A t \in Task : p[t].at \in InFlag => G[p[t].ev].type = "flag"
  /\ \A t, u \in Task : p[t].at = "flagdel" /\ p[u].at \in InFlag /\ p[u].ev = p[t].ev => t = u

FlagLists(k, p, G) == \A g \in Group :
  /\ IsInjective(G[g].list)
  /\ \A t \in Task : /\ t \in ToSet(G[g].list) <=> OnFlags(k, t) /\ p[t].ev = g
                     /\ OnFlags(k, t) /\ p[t].ev = g /\ Met(G[g].flags, p[t].n) => k.tcb[t].pend = "to"

\* What a task is told when it runs again: the flags it was readied with.
Enough(a, w, r) == \/ IF w.all THEN r = w.want ELSE r # {} /\ r \subseteq w.want
                   \/ "flagdel" \in App[a].ops /\ r = {}
FlagGiven(k, p, R) ==
  /\ R = [t \in Task |-> R[t]]
  /\ \A t \in Task : Blk(p, t) /\ ~ OnFlags(k, t) => Enough(k.app, p[t].n, R[t])

FlagState(k, p, G, F, R) ==
  FlagKernel(k) /\ FlagCpu(k, p) /\ FlagPc(k, p) /\ FlagCalls(p, G, F) /\ FlagLists(k, p, G) /\ FlagGiven(k, p, R)
FlagInv == FlagState(os, pc, grp, gfree, rdy) /\ res = [t \in Task |-> res[t]]
-----------------------------------------------------------------------------
\* The control blocks T and the ready list D in the place of those of k.
Altering(k, T, D, r) ==
  /\ FlagKernel(k) /\ T \in [Task -> FlagTcb] /\ D \subseteq Prio /\ r = [k EXCEPT !.tcb = T, !.rdy = D]
  /\ \A t \in Task : /\ T[t].prio = k.tcb[t].prio
                     /\ T[t].pend = "to" => T[t].dly = 0 /\ "flag" \notin T[t].stat
  /\ T[Idle] = k.tcb[Idle]
  /\ \A t \in k.list : k.tcb[t].prio \in D <=> T[t].dly = 0 /\ T[t].stat = {}
  /\ \A x \in D : \E t \in k.list : k.tcb[t].prio = x
LEMMA Alters ==
  ASSUME NEW k, NEW T, NEW D, NEW r, Altering(k, T, D, r)
  PROVE  /\ FlagKernel(r) /\ r.tcb = T /\ r.rdy = D /\ r.app = k.app /\ r.list = k.list /\ r.tbl = k.tbl
         /\ r.cur = k.cur /\ r.prioCur = k.prioCur /\ r.lock = k.lock
<1>1. Shape(k) /\ r = [k EXCEPT !.tcb = T, !.rdy = D]
  BY DEF Altering, FlagKernel
<1>2. /\ Shape(r) /\ r.tcb = T /\ r.rdy = D /\ r.app = k.app /\ r.list = k.list /\ r.tbl = k.tbl
      /\ r.cur = k.cur /\ r.prioCur = k.prioCur /\ r.lock = k.lock
  BY ONLY <1>1 DEF Shape
<1>3. k.list \subseteq Task /\ Idle \in k.list /\ OwnPrioInv(k) /\ k.tbl \in [Prio -> Task \cup {Null}]
  BY DEF Altering, FlagKernel
<1>4. \A t \in k.list : T[t].prio = k.tcb[t].prio
  BY <1>3 DEF Altering
<1>5. OwnPrioInv(r)
  BY ONLY <1>2, <1>3, <1>4 DEF OwnPrioInv
<1>6. (\A t \in k.list : ReadyAt(r, t)) /\ \A x \in D : \E t \in k.list : T[t].prio = x
  BY <1>2, <1>4 DEF Altering, ReadyAt
<1>7. FlagKernel(r)
  BY ONLY Altering(k, T, D, r), <1>2, <1>5, <1>6 DEF Altering, FlagKernel
<1> QED
  BY <1>2, <1>7

\* One task changes, and is ready or not as its control block says.
OneAltered(k, u, d, D, r) ==
  /\ FlagKernel(k) /\ u \in k.list /\ u # Idle /\ d \in FlagTcb /\ d.prio = k.tcb[u].prio
  /\ d.pend = "to" => d.dly = 0 /\ "flag" \notin d.stat
  /\ D = IF d.dly = 0 /\ d.stat = {} THEN k.rdy \cup {k.tcb[u].prio} ELSE k.rdy \ {k.tcb[u].prio}
  /\ r = [k EXCEPT !.tcb = [k.tcb EXCEPT ![u] = d], !.rdy = D]
LEMMA OneAlters ==
  ASSUME NEW k, NEW u, NEW d, NEW D, NEW r, OneAltered(k, u, d, D, r)
  PROVE  Altering(k, [k.tcb EXCEPT ![u] = d], D, r)
<1>1. PICK T : T = [k.tcb EXCEPT ![u] = d]
  OBVIOUS
<1>2. /\ k.list \subseteq Task /\ k.tcb \in [Task -> FlagTcb] /\ u \in k.list /\ d \in FlagTcb /\ OwnPrioInv(k) /\ Idle \in k.list
      /\ k.rdy \subseteq Prio /\ d.prio = k.tcb[u].prio /\ u # Idle
      /\ \A t \in k.list : ReadyAt(k, t)
      /\ \A x \in k.rdy : \E t \in k.list : k.tcb[t].prio = x
      /\ \A t \in Task : k.tcb[t].pend = "to" => k.tcb[t].dly = 0 /\ "flag" \notin k.tcb[t].stat
  BY DEF OneAltered, FlagKernel
<1>3. T \in [Task -> FlagTcb] /\ T[u] = d /\ \A t \in Task : t # u => T[t] = k.tcb[t]
  BY <1>1, <1>2
<1>4. \A t \in k.list : t # u => k.tcb[t].prio # k.tcb[u].prio
  BY <1>2, OwnPrios
<1>5. k.tcb[u].prio \in Prio
  BY <1>2 DEF FlagTcb
<1>6. D = IF d.dly = 0 /\ d.stat = {} THEN k.rdy \cup {k.tcb[u].prio} ELSE k.rdy \ {k.tcb[u].prio}
  BY DEF OneAltered
<1>7. \A t \in k.list : k.tcb[t].prio \in D <=> T[t].dly = 0 /\ T[t].stat = {}
  <2> SUFFICES ASSUME NEW t \in k.list PROVE k.tcb[t].prio \in D <=> T[t].dly = 0 /\ T[t].stat = {}
    OBVIOUS
  <2>1. CASE t = u
    BY ONLY <1>3, <1>6, <2>1
  <2>2. CASE t # u
    <3>1. ReadyAt(k, t) /\ T[t] = k.tcb[t] /\ k.tcb[t].prio # k.tcb[u].prio
      BY <1>2, <1>3, <1>4, <2>2
    <3> QED
      BY ONLY <1>6, <3>1 DEF ReadyAt
  <2> QED
    BY <2>1, <2>2
<1>8. D \subseteq Prio /\ \A x \in D : \E t \in k.list : k.tcb[t].prio = x
  BY ONLY <1>2, <1>5, <1>6
<1>9. \A t \in Task : /\ T[t].prio = k.tcb[t].prio
                      /\ T[t].pend = "to" => T[t].dly = 0 /\ "flag" \notin T[t].stat
  <2>1. d.pend = "to" => d.dly = 0 /\ "flag" \notin d.stat
    BY DEF OneAltered
  <2> QED
    BY ONLY <1>2, <1>3, <2>1
<1>10. T[Idle] = k.tcb[Idle] /\ r = [k EXCEPT !.tcb = T, !.rdy = D] /\ FlagKernel(k)
  BY <1>1, <1>2, <1>3 DEF OneAltered
<1> QED
  BY ONLY <1>1, <1>3, <1>7, <1>8, <1>9, <1>10 DEF Altering

\* What the flags make of tasks that go from one place to another.
Followed(k, r) ==
  /\ r.app = k.app /\ r.list = k.list
  /\ \A t \in Task : (OnFlags(r, t) <=> OnFlags(k, t)) /\ (k.tcb[t].pend = "to" => r.tcb[t].pend = "to")
Moved(k, p, s) ==
  /\ s = [t \in Task |-> s[t]]
  /\ \A t \in Task :
       \/ s[t] = p[t]
       \/ /\ Formed(s[t]) /\ t \in k.list /\ t # Idle
          /\ \/ p[t].at \in InFlag \cup {"app", "sched"} /\ s[t].at \in {"app", "sched"}
             \/ /\ p[t].at = "block" /\ s[t].at = "wake"
                /\ s[t].ev = p[t].ev /\ s[t].n = p[t].n /\ s[t].svc = p[t].svc
             \/ p[t].at = "wake" /\ s[t].at = "app" /\ ~ OnFlags(k, t)
LEMMA FlagsMove ==
  ASSUME NEW k, NEW p, NEW G, NEW F, FlagPc(k, p), FlagCalls(p, G, F), FlagLists(k, p, G),
         NEW r, NEW s, Followed(k, r), Moved(k, p, s)
  PROVE  /\ FlagPc(r, s) /\ FlagCalls(s, G, F) /\ FlagLists(r, s, G)
         /\ \A t \in Task : Blk(s, t) => Blk(p, t) /\ s[t].n = p[t].n
<1>1. ASSUME NEW t \in Task
      PROVE  /\ Blk(s, t) => Blk(p, t)
             /\ Blk(p, t) /\ OnFlags(k, t) => Blk(s, t)
             /\ Blk(s, t) => s[t].ev = p[t].ev /\ s[t].n = p[t].n /\ s[t].svc = p[t].svc
             /\ s[t].at \in InFlag => s[t] = p[t]
             /\ Formed(s[t]) /\ s[t].at \in InFlag \cup {"app", "sched", "block", "wake"}
             /\ t \notin k.list \/ t = Idle => s[t].at = "app"
             /\ s[t].at \in {"flagaccept", "flagpend"} => s[t] = p[t]
  <2>1. /\ p[t] = [at |-> p[t].at, ev |-> p[t].ev, n |-> p[t].n, svc |-> p[t].svc]
        /\ p[t].at \in InFlag \cup {"app", "sched", "block", "wake"}
        /\ t \notin k.list \/ t = Idle => p[t].at = "app"
    BY DEF FlagPc
  <2>2. CASE s[t] = p[t]
    BY ONLY <2>1, <2>2 DEF Blk, Formed
  <2>3. CASE s[t] # p[t]
    <3>1. /\ Formed(s[t]) /\ t \in k.list /\ t # Idle
          /\ \/ p[t].at \in InFlag \cup {"app", "sched"} /\ s[t].at \in {"app", "sched"}
             \/ /\ p[t].at = "block" /\ s[t].at = "wake"
                /\ s[t].ev = p[t].ev /\ s[t].n = p[t].n /\ s[t].svc = p[t].svc
             \/ p[t].at = "wake" /\ s[t].at = "app" /\ ~ OnFlags(k, t)
      BY <2>3 DEF Moved
    <3> QED
      BY ONLY <3>1 DEF Blk, InFlag
  <2> QED
    BY <2>2, <2>3
<1>2. FlagPc(r, s)
  <2>1. ASSUME NEW t \in Task
        PROVE  /\ OnFlags(r, t) => Blk(s, t)
               /\ Blk(s, t) => s[t].svc = "flag" /\ s[t].ev \in Group
               /\ s[t].at \in InFlag => s[t].svc = "flag" /\ s[t].ev \in Group
               /\ s[t].at \in {"flagaccept", "flagpend", "block", "wake"} => s[t].n \in App[r.app].wait
               /\ s[t].at = "flagdel" => "flagdel" \in App[r.app].ops
    BY <1>1 DEF FlagPc, Followed, Blk, InFlag
  <2>2. s = [t \in Task |-> s[t]] /\ r.list = k.list
    BY DEF Moved, Followed
  <2> QED
    BY ONLY <1>1, <2>1, <2>2 DEF FlagPc, Formed
<1>3. FlagCalls(s, G, F)
  <2>1. \A t \in Task : s[t].at \in InFlag => G[s[t].ev].type = "flag"
    BY <1>1 DEF FlagCalls
  <2>2. \A t, u \in Task : s[t].at = "flagdel" /\ s[u].at \in InFlag /\ s[u].ev = s[t].ev => t = u
    <3>1. \A t, u \in Task : p[t].at = "flagdel" /\ p[u].at \in InFlag /\ p[u].ev = p[t].ev => t = u
      BY DEF FlagCalls
    <3> QED
      BY ONLY <1>1, <3>1 DEF InFlag
  <2> QED
    BY ONLY FlagCalls(p, G, F), <2>1, <2>2 DEF FlagCalls
<1>4. FlagLists(r, s, G)
  <2> SUFFICES ASSUME NEW g \in Group, NEW t \in Task
               PROVE  /\ IsInjective(G[g].list)
                      /\ t \in ToSet(G[g].list) <=> OnFlags(r, t) /\ s[t].ev = g
                      /\ OnFlags(r, t) /\ s[t].ev = g /\ Met(G[g].flags, s[t].n) => r.tcb[t].pend = "to"
    <3>1. \A g \in Group : IsInjective(G[g].list)
      BY DEF FlagLists
    <3> QED
      BY <3>1 DEF FlagLists
  <2>1. /\ IsInjective(G[g].list)
        /\ t \in ToSet(G[g].list) <=> OnFlags(k, t) /\ p[t].ev = g
        /\ OnFlags(k, t) /\ p[t].ev = g /\ Met(G[g].flags, p[t].n) => k.tcb[t].pend = "to"
    BY DEF FlagLists
  <2>2. (OnFlags(r, t) <=> OnFlags(k, t)) /\ (k.tcb[t].pend = "to" => r.tcb[t].pend = "to")
    BY DEF Followed
  <2>3. OnFlags(k, t) => s[t].ev = p[t].ev /\ s[t].n = p[t].n
    BY <1>1 DEF FlagPc
  <2> QED
    BY ONLY <2>1, <2>2, <2>3
<1> QED
  BY <1>1, <1>2, <1>3, <1>4

LEMMA FlagsFollow ==
  ASSUME NEW k, NEW p, NEW G, NEW F, NEW R, FlagPc(k, p), FlagCalls(p, G, F), FlagLists(k, p, G), FlagGiven(k, p, R),
         NEW r, NEW s, Followed(k, r), Moved(k, p, s)
  PROVE  FlagPc(r, s) /\ FlagCalls(s, G, F) /\ FlagLists(r, s, G) /\ FlagGiven(r, s, R)
<1>1. /\ FlagPc(r, s) /\ FlagCalls(s, G, F) /\ FlagLists(r, s, G)
      /\ \A t \in Task : Blk(s, t) => Blk(p, t) /\ s[t].n = p[t].n
  BY FlagsMove
<1>2. FlagGiven(r, s, R)
  BY <1>1 DEF FlagGiven, Followed
<1> QED
  BY <1>1, <1>2
-----------------------------------------------------------------------------
LEMMA FlagSched ==
  ASSUME NEW k, FlagKernel(k), k.tcb[k.cur].prio = k.prioCur, NEW r, r = OS_Sched(k)
  PROVE  /\ FlagKernel(r) /\ r.tcb = k.tcb /\ r.rdy = k.rdy /\ r.app = k.app /\ r.list = k.list /\ r.lock = k.lock
         /\ r.tcb[r.cur].prio = r.prioCur /\ (k.lock = 0 => r.prioCur \in r.rdy) /\ (k.lock # 0 => r.cur = k.cur)
<1>1. /\ Shape(k) /\ k.rdy \subseteq Prio /\ k.list \subseteq Task /\ OwnPrioInv(k) /\ k.lock \in Nat
      /\ (\A t \in k.list : ReadyAt(k, t)) /\ \A x \in k.rdy : \E t \in k.list : k.tcb[t].prio = x
      /\ Idle \in k.list /\ k.tcb[Idle].prio = LowestPrio /\ k.tcb[Idle].stat = {} /\ k.tcb[Idle].dly = 0
  BY DEF FlagKernel
<1>2. LowestPrio \in k.rdy
  BY <1>1 DEF ReadyAt
<1>3. PICK h : h = OS_SchedNew(k)
  OBVIOUS
<1>4. h \in k.rdy
  <2>1. k.rdy \in SUBSET Nat /\ k.rdy # {}
    BY <1>1, <1>2, CoreAssumption DEF Prio
  <2>2. \E m \in k.rdy : \A x \in k.rdy : m <= x
    BY <2>1, LeastIn
  <2> QED
    BY ONLY <1>3, <2>2 DEF OS_SchedNew, Min
<1>5. k.tbl[h] \in k.list /\ k.tcb[k.tbl[h]].prio = h
  BY <1>1, <1>4 DEF OwnPrioInv
<1>6. CASE k.lock = 0 /\ h # k.prioCur
  <2>1. r = [k EXCEPT !.cur = k.tbl[h], !.prioCur = h]
    BY <1>3, <1>6 DEF OS_Sched
  <2>2. /\ Shape(r) /\ r.app = k.app /\ r.rdy = k.rdy /\ r.tbl = k.tbl /\ r.tcb = k.tcb /\ r.list = k.list
        /\ r.cur = k.tbl[h] /\ r.prioCur = h /\ r.lock = 0
    BY ONLY <1>1, <1>6, <2>1 DEF Shape
  <2>3. OwnPrioInv(r) /\ \A t \in k.list : ReadyAt(r, t)
    BY ONLY <1>1, <2>2 DEF OwnPrioInv, ReadyAt
  <2>4. FlagKernel(r)
    BY ONLY FlagKernel(k), <1>5, <2>2, <2>3 DEF FlagKernel
  <2> QED
    BY ONLY <1>4, <1>5, <1>6, <2>2, <2>4
<1>7. CASE k.lock # 0 \/ h = k.prioCur
  <2>1. r = k
    BY <1>3, <1>7 DEF OS_Sched
  <2> QED
    BY <1>4, <1>7, <2>1
<1> QED
  BY <1>6, <1>7

\* A step of the task that runs, and one of an interrupt handler.
LEMMA FlagTaskStep ==
  ASSUME NEW k, NEW p, NEW G, NEW F, NEW R, FlagState(k, p, G, F, R),
         NEW r, NEW s, FlagKernel(r), Followed(k, r), Moved(k, p, s), r.cur = k.cur, r.prioCur = k.prioCur,
         r.tcb[k.cur].prio = k.tcb[k.cur].prio,
         s[k.cur].at \in {"flagpend", "block", "wake"} => r.lock = 0,
         r.lock = 0 /\ s[k.cur].at \notin {"sched", "block"} => r.prioCur \in r.rdy
  PROVE  FlagState(r, s, G, F, R)
<1>1. FlagCpu(r, s)
  BY DEF FlagState, FlagCpu
<1> QED
  BY <1>1, FlagsFollow DEF FlagState

LEMMA FlagSchedStep ==
  ASSUME NEW k, NEW p, NEW G, NEW F, NEW R, FlagKernel(k), FlagPc(k, p), FlagCalls(p, G, F), FlagLists(k, p, G),
         FlagGiven(k, p, R), k.tcb[k.cur].prio = k.prioCur, p[k.cur].at \in {"flagpend", "block", "wake"} => k.lock = 0,
         NEW r, r = OS_Sched(k)
  PROVE  FlagState(r, p, G, F, R)
<1>1. /\ FlagKernel(r) /\ r.tcb = k.tcb /\ r.rdy = k.rdy /\ r.app = k.app /\ r.list = k.list /\ r.lock = k.lock
      /\ r.tcb[r.cur].prio = r.prioCur /\ (k.lock = 0 => r.prioCur \in r.rdy) /\ (k.lock # 0 => r.cur = k.cur)
  BY ONLY FlagKernel(k), k.tcb[k.cur].prio = k.prioCur, r = OS_Sched(k), FlagSched
<1>2. Followed(k, r)
  BY ONLY <1>1 DEF Followed, OnFlags
<1>3. Moved(k, p, p)
  BY DEF Moved, FlagPc
<1>4. FlagPc(r, p) /\ FlagCalls(p, G, F) /\ FlagLists(r, p, G) /\ FlagGiven(r, p, R)
  BY <1>2, <1>3, FlagsFollow
<1>5. FlagCpu(r, p)
  BY <1>1 DEF FlagCpu
<1> QED
  BY <1>1, <1>4, <1>5 DEF FlagState

\* A task outside the kernel that makes a call.
LEMMA FlagCaller ==
  ASSUME NEW k, NEW p, NEW G, NEW F, NEW R, FlagState(k, p, G, F, R), NEW t, t = k.cur, p[t].at = "app"
  PROVE  /\ t \in k.list /\ t \in Task /\ k.tcb[t] \in FlagTcb /\ k.tcb[t].pend = "ok" /\ "flag" \notin k.tcb[t].stat
         /\ ~ OnFlags(k, t) /\ k.tcb[t].prio = k.prioCur /\ FlagKernel(k) /\ Formed(p[t])
         /\ p = [u \in Task |-> p[u]] /\ (k.lock = 0 => k.prioCur \in k.rdy)
<1>1. /\ t \in k.list /\ t \in Task /\ k.tcb[t] \in FlagTcb /\ FlagKernel(k) /\ k.tcb[t].prio = k.prioCur
      /\ (k.lock = 0 => k.prioCur \in k.rdy)
  BY DEF FlagState, FlagKernel, FlagCpu
<1>2. ~ OnFlags(k, t) /\ Formed(p[t]) /\ p = [u \in Task |-> p[u]]
  BY <1>1 DEF FlagState, FlagPc, Formed, Blk
<1> QED
  BY <1>1, <1>2 DEF OnFlags, FlagTcb

LEMMA FlagTarget ==
  ASSUME NEW k, FlagKernel(k), NEW x \in Prio, x # LowestPrio, k.tbl[x] \notin {Null, Reserved}
  PROVE  /\ k.tbl[x] \in k.list /\ k.tbl[x] \in Task /\ k.tbl[x] # Idle /\ k.tcb[k.tbl[x]].prio = x
         /\ k.tcb[k.tbl[x]] \in FlagTcb
         /\ k.tcb[k.tbl[x]].pend = "to" => k.tcb[k.tbl[x]].dly = 0 /\ "flag" \notin k.tcb[k.tbl[x]].stat
<1>1. k.tbl[x] \in Task
  BY DEF FlagKernel
<1>2. k.tbl[x] \in k.list /\ k.tcb[k.tbl[x]].prio = x
  BY <1>1 DEF FlagKernel, OwnPrioInv
<1> QED
  BY <1>1, <1>2 DEF FlagKernel
-----------------------------------------------------------------------------
\* One task changes without a word to the flags.
LEMMA FlagOneStep ==
  ASSUME NEW k, NEW p, NEW G, NEW F, NEW R, FlagState(k, p, G, F, R), NEW t, t = k.cur, t # Idle, p[t].at = "app",
         NEW u, NEW d, NEW D, NEW r, OneAltered(k, u, d, D, r),
         k.tcb[u].pend = "to" => d.pend = "to",
         "flag" \in d.stat \/ d.pend = "to" <=> OnFlags(k, u),
         NEW s, s = [p EXCEPT ![t].at = "sched"] \/ (s = p /\ (k.prioCur \in k.rdy => k.prioCur \in D))
  PROVE  FlagState(r, s, G, F, R)
<1>1. Altering(k, [k.tcb EXCEPT ![u] = d], D, r)
  BY ONLY OneAltered(k, u, d, D, r), OneAlters
<1>2. /\ FlagKernel(r) /\ r.tcb = [k.tcb EXCEPT ![u] = d] /\ r.rdy = D /\ r.app = k.app /\ r.list = k.list
      /\ r.cur = k.cur /\ r.prioCur = k.prioCur /\ r.lock = k.lock
  BY ONLY <1>1, Alters
<1>3. /\ t \in k.list /\ t \in Task /\ k.tcb[t].prio = k.prioCur /\ FlagKernel(k) /\ Formed(p[t])
      /\ p = [v \in Task |-> p[v]] /\ (k.lock = 0 => k.prioCur \in k.rdy)
  BY ONLY FlagState(k, p, G, F, R), t = k.cur, p[t].at = "app", FlagCaller
<1>4. k.tcb \in [Task -> FlagTcb] /\ u \in Task /\ d.prio = k.tcb[u].prio
  BY <1>3 DEF FlagKernel, OneAltered
<1>5. \A v \in Task : r.tcb[v] = IF v = u THEN d ELSE k.tcb[v]
  BY ONLY <1>2, <1>4
<1>6. Followed(k, r)
  BY <1>2, <1>5 DEF Followed, OnFlags
<1>7. Moved(k, p, s)
  <2>1. CASE s = p
    BY <1>3, <2>1 DEF Moved
  <2>2. CASE s = [p EXCEPT ![t].at = "sched"]
    <3>1. s = [v \in Task |-> s[v]] /\ (\A v \in Task : v # t => s[v] = p[v]) /\ s[t] = [p[t] EXCEPT !.at = "sched"]
      BY ONLY <1>3, <2>2
    <3>2. Formed(s[t]) /\ s[t].at = "sched"
      BY ONLY <1>3, <3>1 DEF Formed
    <3> QED
      BY <1>3, <3>1, <3>2 DEF Moved
  <2> QED
    BY <2>1, <2>2
<1>8. r.tcb[k.cur].prio = k.tcb[k.cur].prio
  BY <1>3, <1>4, <1>5
<1>9. s[t].at = "sched" \/ (s = p /\ (k.prioCur \in k.rdy => k.prioCur \in D))
  <2>1. s = [p EXCEPT ![t].at = "sched"] => s[t] = [p[t] EXCEPT !.at = "sched"]
    BY ONLY <1>3
  <2>2. s = [p EXCEPT ![t].at = "sched"] => s[t].at = "sched"
    BY ONLY <1>3, <2>1 DEF Formed
  <2> QED
    BY <2>2
<1> QED
  BY ONLY FlagState(k, p, G, F, R), <1>2, <1>3, <1>6, <1>7, <1>8, <1>9, t = k.cur, p[t].at = "app", FlagTaskStep

LEMMA FlagDly ==
  ASSUME NEW t, NEW n, n \in 1 .. MaxDly, FlagState(os, pc, grp, gfree, rdy), OSTimeDly(t, n)
  PROVE  FlagState(os', pc', grp, gfree, rdy)
<1>1. t = os.cur /\ t # Idle /\ pc[t].at = "app"
  BY DEF OSTimeDly, Calls, At
<1>2. /\ t \in os.list /\ t \in Task /\ os.tcb[t] \in FlagTcb /\ os.tcb[t].pend = "ok" /\ "flag" \notin os.tcb[t].stat
      /\ ~ OnFlags(os, t) /\ FlagKernel(os)
  BY ONLY FlagState(os, pc, grp, gfree, rdy), <1>1, FlagCaller
<1>3. PICK c, d : c = os.tcb[t] /\ d = [c EXCEPT !.dly = n]
  OBVIOUS
<1>4. n \in Nat /\ n # 0
  BY <1>2, AppAssumption DEF MaxDly, FlagKernel
<1>5. d \in FlagTcb /\ d.prio = c.prio /\ d.pend = c.pend /\ d.stat = c.stat /\ d.dly = n
  BY ONLY <1>2, <1>3, <1>4 DEF FlagTcb
<1>6. PICK r : r = os' /\ r = [os EXCEPT !.tcb = [os.tcb EXCEPT ![t] = d], !.rdy = os.rdy \ {c.prio}]
  <2>1. os' = [[os EXCEPT !.rdy = @ \ {os.tcb[t].prio}] EXCEPT !.tcb[t].dly = n]
    BY DEF OSTimeDly, ClearReady
  <2>2. Shape(os)
    BY <1>2 DEF FlagKernel
  <2> QED
    BY ONLY <1>3, <2>1, <2>2 DEF Shape
<1>7. PICK D : D = os.rdy \ {c.prio}
  OBVIOUS
<1>8. OneAltered(os, t, d, D, r)
  BY ONLY <1>1, <1>2, <1>3, <1>4, <1>5, <1>6, <1>7 DEF OneAltered
<1>9. os.tcb[t].pend = "to" => d.pend = "to"
  BY <1>2
<1>10. "flag" \in d.stat \/ d.pend = "to" <=> OnFlags(os, t)
  BY <1>2, <1>3, <1>5
<1>11. PICK s : s = pc' /\ s = [pc EXCEPT ![t].at = "sched"]
  BY DEF OSTimeDly, Goto
<1>12. s = [pc EXCEPT ![t].at = "sched"] \/ (s = pc /\ (os.prioCur \in os.rdy => os.prioCur \in D))
  BY <1>11
<1>13. FlagState(r, s, grp, gfree, rdy)
  BY ONLY FlagState(os, pc, grp, gfree, rdy), <1>1, <1>8, <1>9, <1>10, <1>12, FlagOneStep
<1> QED
  BY <1>6, <1>11, <1>13

LEMMA FlagSuspend ==
  ASSUME NEW t, NEW x, x \in Prio, FlagState(os, pc, grp, gfree, rdy), OSTaskSuspend(t, x)
  PROVE  FlagState(os', pc', grp, gfree, rdy)
<1>1. t = os.cur /\ t # Idle /\ pc[t].at = "app"
  BY DEF OSTaskSuspend, Calls, At
<1>2. FlagKernel(os) /\ os.tcb[t].prio = os.prioCur
  BY ONLY FlagState(os, pc, grp, gfree, rdy), <1>1, FlagCaller
<1>3. PICK u, c : /\ u = os.tbl[x] /\ c = os.tcb[u] /\ u \in os.list /\ u \in Task /\ u # Idle /\ c.prio = x /\ c \in FlagTcb
                  /\ c.pend = "to" => c.dly = 0 /\ "flag" \notin c.stat
  <2>1. x # LowestPrio /\ os.tbl[x] \notin {Null, Reserved}
    BY DEF OSTaskSuspend, Exists, Target
  <2> QED
    BY ONLY <1>2, <2>1, x \in Prio, FlagTarget
<1>4. PICK d : d = [c EXCEPT !.stat = @ \cup {"suspend"}]
  OBVIOUS
<1>5. d \in FlagTcb /\ d.prio = c.prio /\ d.pend = c.pend /\ d.stat = c.stat \cup {"suspend"} /\ d.dly = c.dly
  BY ONLY <1>3, <1>4 DEF FlagTcb
<1>6. PICK r : r = os' /\ r = [os EXCEPT !.tcb = [os.tcb EXCEPT ![u] = d], !.rdy = os.rdy \ {c.prio}]
  <2>1. os' = [[os EXCEPT !.rdy = @ \ {os.tcb[u].prio}] EXCEPT !.tcb[u].stat = @ \cup {"suspend"}]
    BY <1>3 DEF OSTaskSuspend, ClearReady, Target
  <2>2. Shape(os)
    BY <1>2 DEF FlagKernel
  <2> QED
    BY ONLY <1>3, <1>4, <2>1, <2>2 DEF Shape
<1>7. PICK D : D = os.rdy \ {c.prio}
  OBVIOUS
<1>8. OneAltered(os, u, d, D, r)
  BY ONLY <1>2, <1>3, <1>5, <1>6, <1>7 DEF OneAltered
<1>9. os.tcb[u].pend = "to" => d.pend = "to"
  BY <1>3, <1>5
<1>10. "flag" \in d.stat \/ d.pend = "to" <=> OnFlags(os, u)
  BY ONLY <1>3, <1>5 DEF OnFlags
<1>11. PICK s : s = pc' /\ (s = [pc EXCEPT ![t].at = "sched"] \/ (s = pc /\ x # os.prioCur))
  BY <1>2 DEF OSTaskSuspend, Goto
<1>12. s = [pc EXCEPT ![t].at = "sched"] \/ (s = pc /\ (os.prioCur \in os.rdy => os.prioCur \in D))
  BY <1>3, <1>7, <1>11
<1>13. FlagState(r, s, grp, gfree, rdy)
  BY ONLY FlagState(os, pc, grp, gfree, rdy), <1>1, <1>8, <1>9, <1>10, <1>12, FlagOneStep
<1> QED
  BY <1>6, <1>11, <1>13
-----------------------------------------------------------------------------
\* The list of a group after some of its nodes have left it.
Shrinks(l, ts, h, m) ==
  h = [n \in 0 .. m |-> IF n = 0 THEN <<>> ELSE IF l[n] \in ts THEN h[n - 1] ELSE Append(h[n - 1], l[n])]
LEMMA Shrinking ==
  ASSUME NEW l \in Seq(Task), NEW ts PROVE \A m \in 0 .. Len(l) : \E h : Shrinks(l, ts, h, m)
<1>1. PICK z : z = Len(l)
  OBVIOUS
<1>2. z \in Nat
  BY <1>1
<1>3. PICK bad : bad = {m \in 0 .. z : ~ \E h : Shrinks(l, ts, h, m)}
  OBVIOUS
<1> SUFFICES ASSUME bad # {} PROVE FALSE
  BY <1>1, <1>3
<1>4. bad \in SUBSET Nat
  BY ONLY <1>2, <1>3
<1>5. PICK m \in bad : \A x \in bad : m <= x
  BY ONLY <1>4, bad # {}, LeastIn
<1>6. m \in 0 .. z /\ ~ \E h : Shrinks(l, ts, h, m)
  BY ONLY <1>3, <1>5
<1>7. m # 0
  <2>1. PICK h : h = [n \in 0 .. 0 |-> <<>>]
    OBVIOUS
  <2>2. h = [n \in 0 .. 0 |-> IF n = 0 THEN <<>> ELSE IF l[n] \in ts THEN h[n - 1] ELSE Append(h[n - 1], l[n])]
    BY ONLY <2>1
  <2> QED
    BY <1>6, <2>2 DEF Shrinks
<1>8. m - 1 \in 0 .. z /\ m - 1 < m /\ m \in Nat
  BY ONLY <1>2, <1>6, <1>7
<1>9. PICK h : Shrinks(l, ts, h, m - 1)
  BY ONLY <1>3, <1>4, <1>5, <1>8
<1>10. PICK j : j = [n \in 0 .. m |-> IF n = m THEN (IF l[m] \in ts THEN h[m - 1] ELSE Append(h[m - 1], l[m])) ELSE h[n]]
  OBVIOUS
<1>11. \A n \in 0 .. m : j[n] = IF n = 0 THEN <<>> ELSE IF l[n] \in ts THEN j[n - 1] ELSE Append(j[n - 1], l[n])
  <2> SUFFICES ASSUME NEW n \in 0 .. m
               PROVE  j[n] = IF n = 0 THEN <<>> ELSE IF l[n] \in ts THEN j[n - 1] ELSE Append(j[n - 1], l[n])
    OBVIOUS
  <2>1. n # 0 => n - 1 \in 0 .. m /\ n - 1 # m /\ n - 1 \in 0 .. (m - 1)
    BY ONLY <1>8
  <2>2. n # 0 => j[n - 1] = h[n - 1]
    BY ONLY <1>10, <2>1
  <2>3. CASE n = m
    <3>1. n # 0
      BY <1>7, <2>3
    <3>2. j[n] = IF l[m] \in ts THEN h[m - 1] ELSE Append(h[m - 1], l[m])
      BY ONLY <1>10, <2>3
    <3> QED
      BY ONLY <2>2, <2>3, <3>1, <3>2
  <2>4. CASE n # m
    <3>1. n \in 0 .. (m - 1) /\ j[n] = h[n]
      BY ONLY <1>8, <1>10, <2>4
    <3>2. h[n] = IF n = 0 THEN <<>> ELSE IF l[n] \in ts THEN h[n - 1] ELSE Append(h[n - 1], l[n])
      BY ONLY <1>9, <3>1 DEF Shrinks
    <3> QED
      BY ONLY <2>2, <3>1, <3>2
  <2> QED
    BY <2>3, <2>4
<1>12. j = [n \in 0 .. m |-> j[n]]
  BY ONLY <1>10
<1>13. Shrinks(l, ts, j, m)
  BY ONLY <1>11, <1>12, Zenon DEF Shrinks
<1> QED
  BY <1>6, <1>13

\* What is left of the first n nodes.
LeftOf(l, ts, h, n) == h[n] \in Seq(Task) /\ ToSet(h[n]) = {l[i] : i \in 1 .. n} \ ts /\ IsInjective(h[n])
LEMMA LeftBehind ==
  ASSUME NEW l \in Seq(Task), IsInjective(l), NEW ts, NEW h, Shrinks(l, ts, h, Len(l))
  PROVE  \A n \in 0 .. Len(l) : LeftOf(l, ts, h, n)
<1>1. PICK z : z = Len(l)
  OBVIOUS
<1>2. z \in Nat /\ \A i \in 1 .. z : l[i] \in Task
  BY <1>1
<1>3. \A n \in 0 .. z : h[n] = IF n = 0 THEN <<>> ELSE IF l[n] \in ts THEN h[n - 1] ELSE Append(h[n - 1], l[n])
  BY ONLY Shrinks(l, ts, h, Len(l)), <1>1 DEF Shrinks
<1>4. PICK bad : bad = {n \in 0 .. z : ~ LeftOf(l, ts, h, n)}
  OBVIOUS
<1> SUFFICES ASSUME bad # {} PROVE FALSE
  BY <1>1, <1>4
<1>5. bad \in SUBSET Nat
  BY ONLY <1>2, <1>4
<1>6. PICK n \in bad : \A x \in bad : n <= x
  BY ONLY <1>5, bad # {}, LeastIn
<1>7. n \in 0 .. z /\ ~ LeftOf(l, ts, h, n)
  BY ONLY <1>4, <1>6
<1>8. n # 0
  <2> SUFFICES ASSUME n = 0 PROVE FALSE
    OBVIOUS
  <2>1. h[0] = <<>>
    BY ONLY <1>3, <1>7, n = 0
  <2>2. LeftOf(l, ts, h, 0)
    BY ONLY <2>1 DEF LeftOf, ToSet, IsInjective
  <2> QED
    BY <1>7, <2>2
<1>9. n \in 1 .. z /\ n - 1 \in 0 .. z /\ n - 1 < n /\ n \in Nat
  BY ONLY <1>2, <1>7, <1>8
<1>10. LeftOf(l, ts, h, n - 1)
  BY ONLY <1>4, <1>5, <1>6, <1>9
<1>11. {l[i] : i \in 1 .. n} = {l[i] : i \in 1 .. (n - 1)} \cup {l[n]}
  <2>1. \A i : i \in 1 .. n <=> i \in 1 .. (n - 1) \/ i = n
    BY ONLY <1>9
  <2> QED
    BY <2>1
<1>12. l[n] \notin {l[i] : i \in 1 .. (n - 1)} /\ l[n] \in Task
  <2>1. \A i \in 1 .. (n - 1) : i \in 1 .. z /\ i # n
    BY ONLY <1>2, <1>9
  <2>2. \A i, j \in 1 .. z : l[i] = l[j] => i = j
    BY <1>1 DEF IsInjective
  <2> QED
    BY ONLY <1>2, <1>9, <2>1, <2>2
<1>13. CASE l[n] \in ts
  <2>1. h[n] = h[n - 1]
    BY ONLY <1>3, <1>7, <1>8, <1>13
  <2>2. ToSet(h[n]) = {l[i] : i \in 1 .. n} \ ts
    BY ONLY <1>10, <1>11, <1>13, <2>1 DEF LeftOf
  <2> QED
    BY ONLY <1>7, <1>10, <2>1, <2>2 DEF LeftOf
<1>14. CASE l[n] \notin ts
  <2>1. PICK a, c : a = h[n - 1] /\ c = Append(a, l[n])
    OBVIOUS
  <2>2. h[n] = c /\ a \in Seq(Task) /\ ToSet(a) = {l[i] : i \in 1 .. (n - 1)} \ ts /\ IsInjective(a)
    BY ONLY <1>3, <1>7, <1>8, <1>10, <1>14, <2>1 DEF LeftOf
  <2>3. c \in Seq(Task) /\ ToSet(c) = ToSet(a) \cup {l[n]}
    <3>1. /\ c \in Seq(Task) /\ Len(c) = Len(a) + 1 /\ Len(a) \in Nat /\ c[Len(a) + 1] = l[n]
          /\ DOMAIN c = 1 .. Len(c) /\ DOMAIN a = 1 .. Len(a) /\ \A i \in 1 .. Len(a) : c[i] = a[i]
      BY ONLY <1>12, <2>1, <2>2
    <3>2. \A i : i \in 1 .. Len(c) <=> i \in 1 .. Len(a) \/ i = Len(a) + 1
      BY ONLY <3>1
    <3> QED
      BY ONLY <3>1, <3>2 DEF ToSet
  <2>4. IsInjective(c)
    <3>1. l[n] \notin ToSet(a)
      BY ONLY <1>12, <2>2
    <3> QED
      BY ONLY <1>12, <2>1, <2>2, <3>1 DEF IsInjective, ToSet
  <2>5. ToSet(c) = {l[i] : i \in 1 .. n} \ ts
    BY ONLY <1>11, <1>14, <2>2, <2>3
  <2> QED
    BY ONLY <1>7, <2>2, <2>3, <2>4, <2>5 DEF LeftOf
<1> QED
  BY <1>13, <1>14

LEMMA Unlinks ==
  ASSUME NEW l \in Seq(Task), IsInjective(l), NEW ts, NEW r, r = OS_FlagUnlink(l, ts)
  PROVE  r \in Seq(Task) /\ IsInjective(r) /\ ToSet(r) = ToSet(l) \ ts
<1>1. PICK h : h = CHOOSE j : j = [n \in 0 .. Len(l) |-> IF n = 0 THEN <<>> ELSE IF l[n] \in ts THEN j[n - 1]
                                                           ELSE Append(j[n - 1], l[n])]
  OBVIOUS
<1>2. r = h[Len(l)]
  BY <1>1 DEF OS_FlagUnlink
<1>3. Len(l) \in 0 .. Len(l)
  OBVIOUS
<1>4. \E j : j = [n \in 0 .. Len(l) |-> IF n = 0 THEN <<>> ELSE IF l[n] \in ts THEN j[n - 1] ELSE Append(j[n - 1], l[n])]
  <2>1. PICK j : Shrinks(l, ts, j, Len(l))
    BY <1>3, Shrinking
  <2> QED
    BY ONLY <2>1, Zenon DEF Shrinks
<1>5. Shrinks(l, ts, h, Len(l))
  BY ONLY <1>1, <1>4, Zenon DEF Shrinks
<1>6. LeftOf(l, ts, h, Len(l))
  BY <1>3, <1>5, LeftBehind
<1>7. ToSet(l) = {l[i] : i \in 1 .. Len(l)}
  BY DEF ToSet
<1> QED
  BY <1>2, <1>6, <1>7 DEF LeftOf
-----------------------------------------------------------------------------
LEMMA FlagResume ==
  ASSUME NEW t, NEW x, x \in Prio, FlagState(os, pc, grp, gfree, rdy), OSTaskResume(t, x)
  PROVE  FlagState(os', pc', grp, gfree, rdy)
<1>1. t = os.cur /\ t # Idle /\ pc[t].at = "app"
  BY DEF OSTaskResume, Calls, At
<1>2. FlagKernel(os) /\ Shape(os)
  <2>1. FlagKernel(os)
    BY ONLY FlagState(os, pc, grp, gfree, rdy), <1>1, FlagCaller
  <2> QED
    BY <2>1 DEF FlagKernel
<1>3. PICK u, c : /\ u = os.tbl[x] /\ c = os.tcb[u] /\ u \in os.list /\ u \in Task /\ u # Idle /\ c.prio = x /\ c \in FlagTcb
                  /\ c.pend = "to" => c.dly = 0 /\ "flag" \notin c.stat
  <2>1. x # LowestPrio /\ os.tbl[x] \notin {Null, Reserved}
    BY DEF OSTaskResume, Exists, Target
  <2> QED
    BY ONLY <1>2, <2>1, x \in Prio, FlagTarget
<1>4. PICK d : d = [c EXCEPT !.stat = @ \ {"suspend"}]
  OBVIOUS
<1>5. d \in FlagTcb /\ d.prio = c.prio /\ d.pend = c.pend /\ d.stat = c.stat \ {"suspend"} /\ d.dly = c.dly
  BY ONLY <1>3, <1>4 DEF FlagTcb
<1>6. PICK k1 : k1 = [os EXCEPT !.tcb[u].stat = @ \ {"suspend"}]
  OBVIOUS
<1>7. k1.tcb = [os.tcb EXCEPT ![u] = d] /\ k1.tcb[u] = d /\ k1 = [os EXCEPT !.tcb = [os.tcb EXCEPT ![u] = d], !.rdy = os.rdy]
  <2>1. os.tcb = [v \in Task |-> os.tcb[v]]
    BY <1>2 DEF FlagKernel
  <2> QED
    BY ONLY <1>2, <1>3, <1>4, <1>6, <2>1 DEF Shape
<1>8. /\ "suspend" \in c.stat
      /\ IF d.stat = {} /\ d.dly = 0 THEN os' = SetReady(k1, u) /\ Goto(t, "sched") ELSE os' = k1 /\ UNCHANGED pc
  BY ONLY OSTaskResume(t, x), <1>3, <1>6, <1>7 DEF OSTaskResume, Target
<1>9. c.prio \notin os.rdy
  <2>1. ReadyAt(os, u)
    BY <1>2, <1>3 DEF FlagKernel
  <2> QED
    BY ONLY <1>3, <1>8, <2>1 DEF ReadyAt
<1>10. PICK D : D = IF d.dly = 0 /\ d.stat = {} THEN os.rdy \cup {c.prio} ELSE os.rdy \ {c.prio}
  OBVIOUS
<1>11. PICK r : r = os' /\ r = [os EXCEPT !.tcb = [os.tcb EXCEPT ![u] = d], !.rdy = D]
  <2>1. CASE d.dly = 0 /\ d.stat = {}
    <3>1. os' = [k1 EXCEPT !.rdy = @ \cup {c.prio}]
      BY ONLY <1>5, <1>7, <1>8, <2>1 DEF SetReady
    <3> QED
      BY ONLY <1>2, <1>7, <1>10, <2>1, <3>1 DEF Shape
  <2>2. CASE ~ (d.dly = 0 /\ d.stat = {})
    <3>1. os' = k1 /\ D = os.rdy
      BY ONLY <1>8, <1>9, <1>10, <2>2
    <3> QED
      BY ONLY <1>7, <3>1
  <2> QED
    BY <2>1, <2>2
<1>12. OneAltered(os, u, d, D, r)
  BY ONLY <1>2, <1>3, <1>5, <1>10, <1>11 DEF OneAltered
<1>13. os.tcb[u].pend = "to" => d.pend = "to"
  BY <1>3, <1>5
<1>14. "flag" \in d.stat \/ d.pend = "to" <=> OnFlags(os, u)
  BY ONLY <1>3, <1>5 DEF OnFlags
<1>15. PICK s : s = pc' /\ (s = [pc EXCEPT ![t].at = "sched"] \/ (s = pc /\ (os.prioCur \in os.rdy => os.prioCur \in D)))
  BY <1>8, <1>9, <1>10 DEF Goto
<1>16. FlagState(r, s, grp, gfree, rdy)
  BY ONLY FlagState(os, pc, grp, gfree, rdy), <1>1, <1>12, <1>13, <1>14, <1>15, FlagOneStep
<1> QED
  BY <1>11, <1>15, <1>16

LEMMA FlagDlyResume ==
  ASSUME NEW t, NEW x, x \in Prio, FlagState(os, pc, grp, gfree, rdy), OSTimeDlyResume(t, x)
  PROVE  FlagState(os', pc', grp, gfree, rdy)
<1>1. t = os.cur /\ t # Idle /\ pc[t].at = "app"
  BY DEF OSTimeDlyResume, Calls, At
<1>2. FlagKernel(os) /\ Shape(os)
  <2>1. FlagKernel(os)
    BY ONLY FlagState(os, pc, grp, gfree, rdy), <1>1, FlagCaller
  <2> QED
    BY <2>1 DEF FlagKernel
<1>3. PICK u, c : /\ u = os.tbl[x] /\ c = os.tcb[u] /\ u \in os.list /\ u \in Task /\ u # Idle /\ c.prio = x /\ c \in FlagTcb
                  /\ c.pend = "to" => c.dly = 0 /\ "flag" \notin c.stat
  <2>1. x # LowestPrio /\ os.tbl[x] \notin {Null, Reserved}
    BY DEF OSTimeDlyResume, Exists, Target
  <2> QED
    BY ONLY <1>2, <2>1, x \in Prio, FlagTarget
<1>4. PICK d : d = DelayOver(c)
  OBVIOUS
<1>5. c.stat \in SUBSET {"suspend", "flag"} /\ c.dly \in Nat /\ c.pend \in {"ok", "to"}
  BY <1>3 DEF FlagTcb
<1>6. /\ d \in FlagTcb /\ d.prio = c.prio /\ d.stat = c.stat \ {"flag"} /\ d.dly = 0
      /\ d.pend = IF "flag" \in c.stat THEN "to" ELSE "ok"
  <2>1. c.stat \ PendAny = c.stat \ {"flag"} /\ (c.stat \cap PendAny # {} <=> "flag" \in c.stat)
    BY ONLY <1>5 DEF PendAny
  <2>2. PICK e : e = IF "flag" \in c.stat THEN "to" ELSE "ok"
    OBVIOUS
  <2>3. d = [c EXCEPT !.dly = 0, !.stat = c.stat \ {"flag"}, !.pend = e] /\ e \in {"ok", "to"}
    BY ONLY <1>4, <2>1, <2>2 DEF DelayOver
  <2>4. d \in FlagTcb /\ d.prio = c.prio /\ d.stat = c.stat \ {"flag"} /\ d.dly = 0 /\ d.pend = e
    BY ONLY <1>3, <1>5, <2>3 DEF FlagTcb
  <2> QED
    BY <2>2, <2>4
<1>7. PICK k1 : k1 = [os EXCEPT !.tcb[u] = DelayOver(@)]
  OBVIOUS
<1>8. k1.tcb = [os.tcb EXCEPT ![u] = d] /\ k1.tcb[u] = d /\ k1 = [os EXCEPT !.tcb = [os.tcb EXCEPT ![u] = d], !.rdy = os.rdy]
  <2>1. os.tcb = [v \in Task |-> os.tcb[v]]
    BY <1>2 DEF FlagKernel
  <2> QED
    BY ONLY <1>2, <1>3, <1>4, <1>7, <2>1 DEF Shape
<1>9. /\ c.dly > 0
      /\ IF "suspend" \in c.stat THEN os' = k1 /\ UNCHANGED pc ELSE os' = SetReady(k1, u) /\ Goto(t, "sched")
  BY ONLY OSTimeDlyResume(t, x), <1>3, <1>7 DEF OSTimeDlyResume, Target
<1>10. c.prio \notin os.rdy /\ c.pend = "ok"
  <2>1. ReadyAt(os, u)
    BY <1>2, <1>3 DEF FlagKernel
  <2> QED
    BY ONLY <1>3, <1>5, <1>9, <2>1 DEF ReadyAt
<1>11. PICK D : D = IF d.dly = 0 /\ d.stat = {} THEN os.rdy \cup {c.prio} ELSE os.rdy \ {c.prio}
  OBVIOUS
<1>12. PICK r : r = os' /\ r = [os EXCEPT !.tcb = [os.tcb EXCEPT ![u] = d], !.rdy = D]
  <2>1. CASE "suspend" \notin c.stat
    <3>1. os' = [k1 EXCEPT !.rdy = @ \cup {c.prio}]
      BY ONLY <1>6, <1>8, <1>9, <2>1 DEF SetReady
    <3>2. D = os.rdy \cup {c.prio}
      BY ONLY <1>5, <1>6, <1>11, <2>1
    <3> QED
      BY ONLY <1>2, <1>8, <3>1, <3>2 DEF Shape
  <2>2. CASE "suspend" \in c.stat
    <3>1. os' = k1 /\ D = os.rdy
      BY ONLY <1>6, <1>9, <1>10, <1>11, <2>2
    <3> QED
      BY ONLY <1>8, <3>1
  <2> QED
    BY <2>1, <2>2
<1>13. OneAltered(os, u, d, D, r)
  BY ONLY <1>2, <1>3, <1>6, <1>11, <1>12 DEF OneAltered
<1>14. os.tcb[u].pend = "to" => d.pend = "to"
  BY <1>3, <1>10
<1>15. "flag" \in d.stat \/ d.pend = "to" <=> OnFlags(os, u)
  BY ONLY <1>3, <1>6, <1>10 DEF OnFlags
<1>16. PICK s : s = pc' /\ (s = [pc EXCEPT ![t].at = "sched"] \/ (s = pc /\ (os.prioCur \in os.rdy => os.prioCur \in D)))
  BY <1>9, <1>10, <1>11 DEF Goto
<1>17. FlagState(r, s, grp, gfree, rdy)
  BY ONLY FlagState(os, pc, grp, gfree, rdy), <1>1, <1>13, <1>14, <1>15, <1>16, FlagOneStep
<1> QED
  BY <1>12, <1>16, <1>17

LEMMA FlagLock ==
  ASSUME NEW t, FlagState(os, pc, grp, gfree, rdy), OSSchedLock(t) \/ OSSchedUnlock(t)
  PROVE  FlagState(os', pc', grp, gfree, rdy)
<1>1. t = os.cur /\ t # Idle /\ pc[t].at = "app"
  BY DEF OSSchedLock, OSSchedUnlock, Calls, At
<1>2. /\ FlagKernel(os) /\ t \in os.list /\ t \in Task /\ Formed(pc[t]) /\ pc = [u \in Task |-> pc[u]]
  BY ONLY FlagState(os, pc, grp, gfree, rdy), <1>1, FlagCaller
<1>3. PICK n, r, s : /\ r = os' /\ s = pc' /\ r = [os EXCEPT !.lock = n] /\ n \in Nat
                     /\ ((s = pc /\ n # 0) \/ s = [pc EXCEPT ![t].at = "sched"])
  <2>1. os.lock \in Nat
    BY <1>2 DEF FlagKernel
  <2>2. CASE OSSchedLock(t)
    <3>1. os' = [os EXCEPT !.lock = @ + 1] /\ pc' = pc
      BY <2>2 DEF OSSchedLock
    <3>2. PICK n : n = os.lock + 1
      OBVIOUS
    <3>3. n \in Nat /\ n # 0 /\ os' = [os EXCEPT !.lock = n]
      BY ONLY <2>1, <3>1, <3>2
    <3> QED
      BY <3>1, <3>3
  <2>3. CASE OSSchedUnlock(t)
    <3>1. os' = [os EXCEPT !.lock = @ - 1] /\ os.lock > 0 /\ (pc' = [pc EXCEPT ![t].at = "sched"] \/ (os.lock # 1 /\ pc' = pc))
      BY <2>3 DEF OSSchedUnlock, Goto
    <3>2. PICK n : n = os.lock - 1
      OBVIOUS
    <3>3. n \in Nat /\ (os.lock # 1 => n # 0) /\ os' = [os EXCEPT !.lock = n]
      BY ONLY <2>1, <3>1, <3>2
    <3> QED
      BY <3>1, <3>3
  <2> QED
    BY <2>2, <2>3
<1>4. /\ Shape(r) /\ r.tcb = os.tcb /\ r.rdy = os.rdy /\ r.app = os.app /\ r.list = os.list /\ r.tbl = os.tbl
      /\ r.cur = os.cur /\ r.prioCur = os.prioCur /\ r.lock = n
  <2>1. Shape(os)
    BY ONLY <1>2 DEF FlagKernel
  <2> QED
    BY ONLY <1>3, <2>1 DEF Shape
<1>5. FlagKernel(r)
  <2>1. OwnPrioInv(os) /\ \A u \in os.list : ReadyAt(os, u)
    BY <1>2 DEF FlagKernel
  <2>2. OwnPrioInv(r) /\ \A u \in r.list : ReadyAt(r, u)
    BY ONLY <1>4, <2>1 DEF OwnPrioInv, ReadyAt
  <2> QED
    BY ONLY <1>2, <1>3, <1>4, <2>2 DEF FlagKernel
<1>6. Followed(os, r) /\ r.tcb[os.cur].prio = os.tcb[os.cur].prio
  BY ONLY <1>4 DEF Followed, OnFlags
<1>7. Moved(os, pc, s) /\ ((s = pc /\ n # 0) \/ s[t].at = "sched")
  <2>1. CASE s = pc /\ n # 0
    BY <1>2, <2>1 DEF Moved
  <2>2. CASE s = [pc EXCEPT ![t].at = "sched"]
    <3>1. s = [v \in Task |-> s[v]] /\ (\A v \in Task : v # t => s[v] = pc[v]) /\ s[t] = [pc[t] EXCEPT !.at = "sched"]
      BY ONLY <1>2, <2>2
    <3>2. Formed(s[t]) /\ s[t].at = "sched"
      BY ONLY <1>2, <3>1 DEF Formed
    <3> QED
      BY <1>1, <1>2, <3>1, <3>2 DEF Moved
  <2> QED
    BY ONLY <1>3, <2>1, <2>2
<1>8. s[t].at = "sched" \/ (s = pc /\ n # 0)
  BY <1>7
<1>9. s[os.cur].at \in {"flagpend", "block", "wake"} => r.lock = 0
  BY ONLY <1>1, <1>8
<1>10. r.lock = 0 /\ s[os.cur].at \notin {"sched", "block"} => r.prioCur \in r.rdy
  BY ONLY <1>1, <1>4, <1>8
<1>11. FlagState(r, s, grp, gfree, rdy)
  BY ONLY FlagState(os, pc, grp, gfree, rdy), <1>4, <1>5, <1>6, <1>7, <1>9, <1>10, FlagTaskStep
<1> QED
  BY <1>3, <1>11

LEMMA FlagReschedule ==
  ASSUME NEW t, FlagState(os, pc, grp, gfree, rdy), Reschedule(t)
  PROVE  FlagState(os', pc', grp, gfree, rdy)
<1>1. /\ FlagKernel(os) /\ FlagPc(os, pc) /\ FlagCalls(pc, grp, gfree) /\ FlagLists(os, pc, grp) /\ FlagGiven(os, pc, rdy)
      /\ FlagCpu(os, pc)
  BY DEF FlagState
<1>2. PICK r, s : /\ r = os' /\ s = pc' /\ r = OS_Sched(os) /\ t = os.cur
                  /\ \/ pc[t].at = "sched" /\ s = [pc EXCEPT ![t] = InApp]
                     \/ pc[t].at = "block" /\ s = [pc EXCEPT ![t].at = "wake"]
  BY DEF Reschedule, At, Return, Goto
<1>3. t \in os.list /\ t \in Task /\ t # Idle /\ Formed(pc[t]) /\ pc = [u \in Task |-> pc[u]]
  <2>1. t \in os.list /\ t \in Task
    BY <1>1, <1>2 DEF FlagKernel
  <2> QED
    BY <1>1, <1>2, <2>1 DEF FlagPc, Formed
<1>4. Moved(os, pc, s) /\ (s[t].at = "app" \/ (s[t].at = "wake" /\ pc[t].at = "block"))
  <2>1. CASE pc[t].at = "sched" /\ s = [pc EXCEPT ![t] = InApp]
    <3>1. s = [v \in Task |-> s[v]] /\ (\A v \in Task : v # t => s[v] = pc[v]) /\ s[t] = InApp
      BY ONLY <1>3, <2>1
    <3>2. Formed(s[t]) /\ s[t].at = "app"
      BY ONLY <3>1 DEF Formed, InApp
    <3> QED
      BY <1>3, <2>1, <3>1, <3>2 DEF Moved
  <2>2. CASE pc[t].at = "block" /\ s = [pc EXCEPT ![t].at = "wake"]
    <3>1. s = [v \in Task |-> s[v]] /\ (\A v \in Task : v # t => s[v] = pc[v]) /\ s[t] = [pc[t] EXCEPT !.at = "wake"]
      BY ONLY <1>3, <2>2
    <3>2. Formed(s[t]) /\ s[t].at = "wake" /\ s[t].ev = pc[t].ev /\ s[t].n = pc[t].n /\ s[t].svc = pc[t].svc
      BY ONLY <1>3, <3>1 DEF Formed
    <3> QED
      BY <1>3, <2>2, <3>1, <3>2 DEF Moved
  <2> QED
    BY <1>2, <2>1, <2>2
<1>5. Followed(os, os)
  BY DEF Followed
<1>6. FlagPc(os, s) /\ FlagCalls(s, grp, gfree) /\ FlagLists(os, s, grp) /\ FlagGiven(os, s, rdy)
  BY ONLY <1>1, <1>4, <1>5, FlagsFollow
<1>7. os.tcb[os.cur].prio = os.prioCur /\ (s[os.cur].at \in {"flagpend", "block", "wake"} => os.lock = 0)
  BY <1>1, <1>2, <1>4 DEF FlagCpu
<1>8. FlagState(r, s, grp, gfree, rdy)
  BY ONLY <1>1, <1>2, <1>6, <1>7, FlagSchedStep
<1> QED
  BY <1>2, <1>8
-----------------------------------------------------------------------------
LEMMA FlagTick ==
  ASSUME FlagState(os, pc, grp, gfree, rdy), Tick
  PROVE  FlagState(os', pc', grp, gfree, rdy)
<1>1. /\ FlagKernel(os) /\ FlagPc(os, pc) /\ FlagCalls(pc, grp, gfree) /\ FlagLists(os, pc, grp) /\ FlagGiven(os, pc, rdy)
      /\ FlagCpu(os, pc)
  BY DEF FlagState
<1>2. PICK k, c, r : k = os /\ c = os.tcb /\ r = OSTimeTick(k)
  OBVIOUS
<1>3. /\ FlagKernel(k) /\ Shape(k) /\ c = k.tcb /\ c \in [Task -> FlagTcb] /\ k.list \subseteq Task /\ k.rdy \subseteq Prio
      /\ OwnPrioInv(k) /\ (\A t \in k.list : ReadyAt(k, t)) /\ Idle \in Task
      /\ \A x \in k.rdy : \E t \in k.list : c[t].prio = x
      /\ \A t \in Task : c[t].pend = "to" => c[t].dly = 0 /\ "flag" \notin c[t].stat
  BY <1>1, <1>2 DEF FlagKernel
<1>4. PICK timed, T, D :
        /\ timed = {t \in k.list \ {Idle} : c[t].dly > 0}
        /\ T = [t \in Task |-> IF t \in timed THEN Ticked(c[t]) ELSE c[t]]
        /\ D = k.rdy \cup {c[t].prio : t \in {u \in timed : c[u].dly = 1 /\ "suspend" \notin c[u].stat}}
  OBVIOUS
<1>5. r = [k EXCEPT !.tcb = T, !.rdy = D]
  BY ONLY <1>2, <1>3, <1>4 DEF OSTimeTick, Shape
<1>6. \A t \in Task : /\ c[t] \in FlagTcb /\ c[t].stat \in SUBSET {"suspend", "flag"} /\ c[t].dly \in Nat /\ c[t].prio \in Prio
                      /\ c[t].pend \in {"ok", "to"}
  <2>1. \A t \in Task : c[t] \in FlagTcb
    BY <1>3
  <2> QED
    BY ONLY <2>1 DEF FlagTcb
<1>7. ASSUME NEW t \in Task
      PROVE  /\ T[t] \in FlagTcb /\ T[t].prio = c[t].prio
             /\ T[t].pend = "to" => T[t].dly = 0 /\ "flag" \notin T[t].stat
             /\ OnFlags(k, t) <=> "flag" \in T[t].stat \/ T[t].pend = "to"
             /\ c[t].pend = "to" => T[t].pend = "to"
             /\ t \notin timed => T[t] = c[t]
             /\ t \in timed /\ c[t].dly # 1 => T[t].stat = c[t].stat /\ T[t].dly = c[t].dly - 1
             /\ t \in timed /\ c[t].dly = 1 => T[t].stat = c[t].stat \ {"flag"} /\ T[t].dly = 0
  <2>1. CASE t \notin timed
    <3>1. T[t] = c[t]
      BY ONLY <1>4, <2>1
    <3> QED
      BY <1>3, <1>6, <2>1, <3>1 DEF OnFlags
  <2>2. CASE t \in timed /\ c[t].dly # 1
    <3>1. T[t] = [c[t] EXCEPT !.dly = c[t].dly - 1] /\ c[t].dly > 0
      BY ONLY <1>4, <2>2 DEF Ticked
    <3>2. c[t].dly - 1 \in Nat /\ c[t].pend = "ok"
      BY ONLY <1>3, <1>6, <3>1
    <3>3. /\ T[t] \in FlagTcb /\ T[t].prio = c[t].prio /\ T[t].stat = c[t].stat /\ T[t].dly = c[t].dly - 1
          /\ T[t].pend = c[t].pend
      BY ONLY <1>6, <3>1, <3>2 DEF FlagTcb
    <3> QED
      BY ONLY <1>3, <2>2, <3>2, <3>3 DEF OnFlags
  <2>3. CASE t \in timed /\ c[t].dly = 1
    <3>1. T[t] = DelayOver(c[t])
      BY ONLY <1>4, <2>3 DEF Ticked
    <3>2. c[t].pend = "ok"
      BY ONLY <1>3, <1>6, <2>3
    <3>3. c[t].stat \ PendAny = c[t].stat \ {"flag"} /\ (c[t].stat \cap PendAny # {} <=> "flag" \in c[t].stat)
      BY ONLY <1>6 DEF PendAny
    <3>4. PICK e : e = IF "flag" \in c[t].stat THEN "to" ELSE "ok"
      OBVIOUS
    <3>5. T[t] = [c[t] EXCEPT !.dly = 0, !.stat = c[t].stat \ {"flag"}, !.pend = e] /\ e \in {"ok", "to"}
      BY ONLY <3>1, <3>3, <3>4 DEF DelayOver
    <3>6. T[t] \in FlagTcb /\ T[t].prio = c[t].prio /\ T[t].stat = c[t].stat \ {"flag"} /\ T[t].dly = 0 /\ T[t].pend = e
      <4>1. PICK a, b : a = c[t] /\ b = T[t] /\ a \in FlagTcb /\ b = [a EXCEPT !.dly = 0, !.stat = a.stat \ {"flag"}, !.pend = e]
                         /\ e \in {"ok", "to"}
        BY <1>6, <3>5
      <4>2. a.stat \in SUBSET {"suspend", "flag"}
        BY <1>6, <4>1
      <4>3. b \in FlagTcb /\ b.prio = a.prio /\ b.stat = a.stat \ {"flag"} /\ b.dly = 0 /\ b.pend = e
        <5>1. a = [prio |-> a.prio, stat |-> a.stat, pend |-> a.pend, dly |-> a.dly, ev |-> a.ev, multi |-> a.multi,
                   msg |-> a.msg, delreq |-> a.delreq]
          BY ONLY <4>1 DEF FlagTcb
        <5>2. b = [prio |-> a.prio, stat |-> a.stat \ {"flag"}, pend |-> e, dly |-> 0, ev |-> a.ev, multi |-> a.multi,
                   msg |-> a.msg, delreq |-> a.delreq]
          BY ONLY <4>1, <5>1
        <5>3. /\ a.prio \in Prio /\ a.stat \ {"flag"} \in SUBSET {"suspend", "flag"} /\ a.ev \in {Null} /\ a.multi \in {{}}
              /\ a.msg \in {Null} /\ a.delreq \in BOOLEAN /\ e \in {"ok", "to"} /\ 0 \in Nat
          BY ONLY <4>1, <4>2 DEF FlagTcb
        <5> QED
          BY ONLY <5>2, <5>3 DEF FlagTcb
      <4> QED
        BY ONLY <4>1, <4>3
    <3> QED
      BY ONLY <1>3, <2>3, <3>2, <3>4, <3>6 DEF OnFlags
  <2> QED
    BY <2>1, <2>2, <2>3
<1>8. D \subseteq Prio /\ \A x \in D : \E t \in k.list : c[t].prio = x
  BY ONLY <1>3, <1>4, <1>6
<1>9. \A t \in k.list : c[t].prio \in D <=> T[t].dly = 0 /\ T[t].stat = {}
  <2> SUFFICES ASSUME NEW t \in k.list PROVE c[t].prio \in D <=> T[t].dly = 0 /\ T[t].stat = {}
    OBVIOUS
  <2>1. t \in Task /\ (c[t].prio \in k.rdy <=> c[t].dly = 0 /\ c[t].stat = {})
    BY ONLY <1>3 DEF ReadyAt
  <2>2. \A u \in k.list : c[u].prio = c[t].prio => u = t
    BY ONLY <1>3, OwnPrios
  <2>3. timed \subseteq k.list
    BY ONLY <1>4
  <2>4. c[t].prio \in D <=> c[t].prio \in k.rdy \/ (t \in timed /\ c[t].dly = 1 /\ "suspend" \notin c[t].stat)
    BY ONLY <1>4, <2>2, <2>3
  <2>5. t \in timed => c[t].dly > 0
    BY ONLY <1>4
  <2>6. c[t].stat \in SUBSET {"suspend", "flag"} /\ c[t].dly \in Nat
    BY <1>6, <2>1
  <2>7. c[t].stat \ {"flag"} = {} <=> "suspend" \notin c[t].stat
    BY ONLY <2>6
  <2>8. /\ t \notin timed => T[t] = c[t]
        /\ t \in timed /\ c[t].dly # 1 => T[t].stat = c[t].stat /\ T[t].dly = c[t].dly - 1
        /\ t \in timed /\ c[t].dly = 1 => T[t].stat = c[t].stat \ {"flag"} /\ T[t].dly = 0
    BY <1>7, <2>1
  <2> QED
    BY ONLY <2>1, <2>4, <2>5, <2>6, <2>7, <2>8
<1>10. T \in [Task -> FlagTcb] /\ T[Idle] = c[Idle]
  <2>1. T = [t \in Task |-> T[t]] /\ Idle \notin timed
    BY ONLY <1>4
  <2> QED
    BY <1>3, <1>7, <2>1
<1>11. \A t \in Task : T[t].prio = c[t].prio /\ (T[t].pend = "to" => T[t].dly = 0 /\ "flag" \notin T[t].stat)
  BY <1>7
<1>12. Altering(k, T, D, r)
  BY ONLY <1>3, <1>5, <1>8, <1>9, <1>10, <1>11 DEF Altering
<1>13. /\ FlagKernel(r) /\ r.tcb = T /\ r.rdy = D /\ r.app = k.app /\ r.list = k.list
       /\ r.cur = k.cur /\ r.prioCur = k.prioCur /\ r.lock = k.lock
  BY ONLY <1>12, Alters
<1>14. Followed(k, r)
  BY <1>3, <1>7, <1>13 DEF Followed, OnFlags
<1>15. Moved(k, pc, pc)
  BY <1>1 DEF Moved, FlagPc
<1>16. FlagPc(r, pc) /\ FlagCalls(pc, grp, gfree) /\ FlagLists(r, pc, grp) /\ FlagGiven(r, pc, rdy)
  BY ONLY <1>1, <1>2, <1>14, <1>15, FlagsFollow
<1>17. r.tcb[r.cur].prio = r.prioCur /\ (pc[r.cur].at \in {"flagpend", "block", "wake"} => r.lock = 0)
  <2>1. k.cur \in Task /\ c[k.cur].prio = k.prioCur
    BY <1>1, <1>2, <1>3 DEF FlagCpu, FlagKernel
  <2> QED
    BY <1>1, <1>2, <1>11, <1>13, <2>1 DEF FlagCpu
<1>18. PICK z : z = os' /\ z = OS_Sched(r)
  BY <1>2 DEF Tick, InInterrupt, OSIntExit
<1>19. FlagState(z, pc, grp, gfree, rdy)
  BY ONLY <1>13, <1>16, <1>17, <1>18, FlagSchedStep
<1>20. pc' = pc
  BY DEF Tick
<1> QED
  BY ONLY <1>18, <1>19, <1>20
-----------------------------------------------------------------------------
\* A task goes into a call on a group, and out of one that it is not to wait in.
LEMMA FlagEnters ==
  ASSUME NEW t, NEW op, NEW g \in Group, NEW n, FlagState(os, pc, grp, gfree, rdy), EnterFlag(t, op, g, n), op \in InFlag,
         op \in {"flagaccept", "flagpend"} => n \in Wait, op = "flagpend" => os.lock = 0,
         \A u \in Task : pc[u].at # "flagdel", op = "flagdel" => Idling(g)
  PROVE  FlagState(os, pc', grp, gfree, rdy)
<1>1. t = os.cur /\ t # Idle /\ pc[t].at = "app" /\ op \in App[os.app].ops /\ grp[g].type = "flag"
  BY DEF EnterFlag, Calls, At, Ops
<1>2. /\ FlagPc(os, pc) /\ FlagCalls(pc, grp, gfree) /\ FlagLists(os, pc, grp) /\ FlagGiven(os, pc, rdy) /\ FlagCpu(os, pc)
  BY DEF FlagState
<1>3. /\ t \in os.list /\ t \in Task /\ ~ OnFlags(os, t) /\ pc = [u \in Task |-> pc[u]] /\ FlagKernel(os)
      /\ (os.lock = 0 => os.prioCur \in os.rdy)
  BY ONLY FlagState(os, pc, grp, gfree, rdy), <1>1, FlagCaller
<1>4. PICK s : s = pc' /\ s = [pc EXCEPT ![t] = [at |-> op, ev |-> g, n |-> n, svc |-> "flag"]]
  BY DEF EnterFlag, Starts
<1>5. /\ s = [u \in Task |-> s[u]] /\ (\A u \in Task : u # t => s[u] = pc[u])
      /\ s[t] = [at |-> op, ev |-> g, n |-> n, svc |-> "flag"]
  BY ONLY <1>3, <1>4
<1>6. Formed(s[t]) /\ s[t].at = op /\ s[t].ev = g /\ s[t].n = n /\ s[t].svc = "flag" /\ ~ Blk(s, t)
  BY <1>5 DEF Formed, Blk, InFlag
<1>7. FlagPc(os, s)
  <2>1. ASSUME NEW u \in Task
        PROVE  /\ Formed(s[u])
               /\ s[u].at \in InFlag \cup {"app", "sched", "block", "wake"}
               /\ u \notin os.list \/ u = Idle => s[u].at = "app"
               /\ OnFlags(os, u) => Blk(s, u)
               /\ Blk(s, u) => s[u].svc = "flag" /\ s[u].ev \in Group
               /\ s[u].at \in InFlag => s[u].svc = "flag" /\ s[u].ev \in Group
               /\ s[u].at \in {"flagaccept", "flagpend", "block", "wake"} => s[u].n \in App[os.app].wait
               /\ s[u].at = "flagdel" => "flagdel" \in App[os.app].ops
    <3>1. CASE u = t
      BY <1>1, <1>3, <1>6, <3>1 DEF Wait, Blk, InFlag
    <3>2. CASE u # t
      BY <1>2, <1>5, <3>2 DEF FlagPc, Blk, Formed
    <3> QED
      BY <3>1, <3>2
  <2>2. s = [u \in Task |-> s[u]]
    BY <1>5
  <2> QED
    BY ONLY <2>1, <2>2 DEF FlagPc, Formed
<1>8. FlagCalls(s, grp, gfree)
  <2>1. \A u \in Task : s[u].at \in InFlag => grp[s[u].ev].type = "flag"
    BY <1>1, <1>2, <1>5, <1>6 DEF FlagCalls
  <2>2. \A u, v \in Task : s[u].at = "flagdel" /\ s[v].at \in InFlag /\ s[v].ev = s[u].ev => u = v
    <3>1. \A u \in Task : op = "flagdel" /\ pc[u].ev = g => pc[u].at \notin InFlag
      BY DEF Idling, InFlag
    <3> QED
      BY <1>5, <1>6, <3>1
  <2> QED
    BY ONLY <1>2, <2>1, <2>2 DEF FlagCalls
<1>9. FlagLists(os, s, grp)
  BY <1>2, <1>3, <1>5 DEF FlagLists
<1>10. FlagGiven(os, s, rdy)
  <2>1. \A u \in Task : Blk(s, u) => Blk(pc, u) /\ s[u] = pc[u]
    BY ONLY <1>5, <1>6 DEF Blk
  <2> QED
    BY <1>2, <2>1 DEF FlagGiven
<1>11. FlagCpu(os, s)
  BY <1>1, <1>2, <1>3, <1>6 DEF FlagCpu, InFlag
<1> QED
  BY ONLY <1>3, <1>4, <1>7, <1>8, <1>9, <1>10, <1>11 DEF FlagState
-----------------------------------------------------------------------------
\* The flags of a group change and nobody's wish is granted by it.
LEMMA FlagsChange ==
  ASSUME NEW k, NEW s, NEW G, NEW F, FlagCalls(s, G, F), FlagLists(k, s, G), NEW g \in Group, NEW f,
         NEW H, H = [G EXCEPT ![g].flags = f],
         \A u \in Task : OnFlags(k, u) /\ Met(f, s[u].n) => Met(G[g].flags, s[u].n)
  PROVE  FlagCalls(s, H, F) /\ FlagLists(k, s, H)
<1>1. /\ G = [h \in Group |-> G[h]]
      /\ \A h \in Group : G[h] = [type |-> G[h].type, flags |-> G[h].flags, list |-> G[h].list]
  BY DEF FlagCalls
<1>2. H = [h \in Group |-> H[h]] /\ (\A h \in Group : h # g => H[h] = G[h]) /\ H[g] = [G[g] EXCEPT !.flags = f]
  BY ONLY <1>1, H = [G EXCEPT ![g].flags = f]
<1>3. H[g] = [type |-> G[g].type, flags |-> f, list |-> G[g].list]
  <2>1. PICK a, b : a = G[g] /\ b = H[g] /\ a = [type |-> a.type, flags |-> a.flags, list |-> a.list] /\ b = [a EXCEPT !.flags = f]
    BY ONLY <1>1, <1>2
  <2>2. b = [type |-> a.type, flags |-> f, list |-> a.list]
    BY ONLY <2>1
  <2> QED
    BY ONLY <2>1, <2>2
<1>4. \A h \in Group : /\ H[h] = [type |-> H[h].type, flags |-> H[h].flags, list |-> H[h].list]
                       /\ H[h].type = G[h].type /\ H[h].list = G[h].list
  BY ONLY <1>1, <1>2, <1>3
<1>5. FlagCalls(s, H, F)
  <2>1. \A h \in Group : H[h].list \in Seq(Task) /\ (H[h].type # "flag" => H[h].list = <<>>)
    BY ONLY <1>4, FlagCalls(s, G, F) DEF FlagCalls
  <2>2. (\A h \in ToSet(F) : H[h].type # "flag") /\ \A t \in Task : s[t].at \in InFlag => H[s[t].ev].type = "flag"
    <3>1. \A h : H[h].type = G[h].type
      <4>1. \A h : h \notin Group => H[h] = G[h]
        BY ONLY <1>1, H = [G EXCEPT ![g].flags = f]
      <4> QED
        BY ONLY <1>4, <4>1
    <3> QED
      BY ONLY <3>1, FlagCalls(s, G, F) DEF FlagCalls
  <2> QED
    BY ONLY FlagCalls(s, G, F), <1>2, <1>4, <2>1, <2>2 DEF FlagCalls
<1>6. FlagLists(k, s, H)
  <2>1. ASSUME NEW h \in Group
        PROVE  /\ IsInjective(H[h].list)
               /\ \A t \in Task : /\ t \in ToSet(H[h].list) <=> OnFlags(k, t) /\ s[t].ev = h
                                  /\ OnFlags(k, t) /\ s[t].ev = h /\ Met(H[h].flags, s[t].n) => k.tcb[t].pend = "to"
    <3>1. /\ IsInjective(G[h].list)
          /\ \A t \in Task : /\ t \in ToSet(G[h].list) <=> OnFlags(k, t) /\ s[t].ev = h
                             /\ OnFlags(k, t) /\ s[t].ev = h /\ Met(G[h].flags, s[t].n) => k.tcb[t].pend = "to"
      BY DEF FlagLists
    <3>2. \A t \in Task : OnFlags(k, t) /\ Met(H[h].flags, s[t].n) => Met(G[h].flags, s[t].n)
      BY <1>2, <1>3
    <3> QED
      BY ONLY <1>4, <3>1, <3>2
  <2> QED
    BY ONLY <2>1 DEF FlagLists
<1> QED
  BY <1>5, <1>6

\* What one waiter takes can only be missed by the others.
LEMMA ConsumeMet ==
  ASSUME NEW v, NEW w, w.eat => (v.set <=> w.set), NEW f, NEW r, Met(Consume(f, w, r), v)
  PROVE  Met(f, v)
<1>1. PICK h : h = Consume(f, w, r)
  OBVIOUS
<1>2. FlagsRdy(h, v) \subseteq FlagsRdy(f, v) /\ FlagsRdy(f, v) \subseteq v.want
  BY ONLY <1>1, w.eat => (v.set <=> w.set) DEF Consume, FlagsRdy
<1>3. Met(h, v)
  BY <1>1
<1> QED
  BY ONLY <1>2, <1>3 DEF Met

\* A call that answers at once, or when its task runs again.
Answering(t, g, r, H, s, R) ==
  /\ FlagState(os, pc, grp, gfree, rdy) /\ t = os.cur /\ pc[t].at \in {"flagaccept", "flagpend", "wake"}
  /\ ~ OnFlags(os, t) /\ g \in Group /\ (H = grp \/ H = [grp EXCEPT ![g].flags = Consume(grp[g].flags, pc[t].n, r)])
  /\ s = [pc EXCEPT ![t] = InApp] /\ R = [u \in Task |-> R[u]] /\ \A u \in Task : u # t => R[u] = rdy[u]
LEMMA FlagAnswers ==
  ASSUME NEW t, NEW g, NEW r, NEW H, NEW s, NEW R, Answering(t, g, r, H, s, R)
  PROVE  FlagState(os, s, H, gfree, R)
<1> /\ FlagState(os, pc, grp, gfree, rdy) /\ t = os.cur /\ pc[t].at \in {"flagaccept", "flagpend", "wake"}
    /\ ~ OnFlags(os, t) /\ g \in Group /\ (H = grp \/ H = [grp EXCEPT ![g].flags = Consume(grp[g].flags, pc[t].n, r)])
    /\ s = [pc EXCEPT ![t] = InApp] /\ R = [u \in Task |-> R[u]] /\ \A u \in Task : u # t => R[u] = rdy[u]
  BY DEF Answering
<1>1. /\ FlagPc(os, pc) /\ FlagCalls(pc, grp, gfree) /\ FlagLists(os, pc, grp) /\ FlagGiven(os, pc, rdy) /\ FlagCpu(os, pc)
      /\ FlagKernel(os)
  BY DEF FlagState
<1>2. t \in os.list /\ t \in Task /\ t # Idle /\ pc = [u \in Task |-> pc[u]] /\ pc[t].n \in App[os.app].wait
  BY <1>1 DEF FlagPc, FlagKernel
<1>3. s = [u \in Task |-> s[u]] /\ s[t] = InApp /\ \A u \in Task : u # t => s[u] = pc[u]
  <2>1. s = [pc EXCEPT ![t] = InApp]
    BY DEF Answering
  <2> QED
    BY ONLY <1>2, <2>1
<1>4. Formed(s[t]) /\ s[t].at = "app"
  BY <1>3 DEF Formed, InApp
<1>5. Moved(os, pc, s)
  BY <1>2, <1>3, <1>4 DEF Moved, InFlag
<1>6. Followed(os, os)
  BY DEF Followed
<1>7. FlagPc(os, s) /\ FlagCalls(s, grp, gfree) /\ FlagLists(os, s, grp) /\ FlagGiven(os, s, rdy)
  BY ONLY <1>1, <1>5, <1>6, FlagsFollow
<1>8. FlagGiven(os, s, R)
  <2>1. ~ Blk(s, t)
    BY <1>4 DEF Blk
  <2> QED
    BY <1>7, <2>1 DEF FlagGiven
<1>9. FlagCpu(os, s)
  BY <1>1, <1>4 DEF FlagCpu
<1>10. FlagCalls(s, H, gfree) /\ FlagLists(os, s, H)
  <2>1. CASE H = grp
    BY <1>7, <2>1
  <2>2. CASE H = [grp EXCEPT ![g].flags = Consume(grp[g].flags, pc[t].n, r)]
    <3>1. PICK w, e : w = pc[t].n /\ e = Consume(grp[g].flags, w, r)
      OBVIOUS
    <3>2. H = [grp EXCEPT ![g].flags = e]
      BY <2>2, <3>1
    <3>3. \A u \in Task : OnFlags(os, u) /\ Met(e, s[u].n) => Met(grp[g].flags, s[u].n)
      <4> SUFFICES ASSUME NEW u \in Task, OnFlags(os, u), Met(e, s[u].n) PROVE Met(grp[g].flags, s[u].n)
        OBVIOUS
      <4>1. s[u].n \in App[os.app].wait
        BY <1>7 DEF FlagPc, Blk
      <4>2. \A v, x \in App[os.app].wait : v.eat => (v.set <=> x.set)
        BY <1>1 DEF FlagKernel, Signalling
      <4>3. PICK v : v = s[u].n
        OBVIOUS
      <4>4. w.eat => (v.set <=> w.set)
        BY ONLY <1>2, <3>1, <4>1, <4>2, <4>3
      <4>5. Met(Consume(grp[g].flags, w, r), v)
        BY <3>1, <4>3
      <4> QED
        BY ONLY <4>3, <4>4, <4>5, ConsumeMet
    <3> QED
      BY ONLY <1>7, <3>2, <3>3, g \in Group, FlagsChange
  <2> QED
    BY <2>1, <2>2
<1> QED
  BY ONLY <1>1, <1>7, <1>8, <1>9, <1>10 DEF FlagState

LEMMA FlagAccepts ==
  ASSUME NEW t, FlagState(os, pc, grp, gfree, rdy), OSFlagAccept(t)
  PROVE  FlagState(os', pc', grp', gfree', rdy')
<1>1. t = os.cur /\ pc[t].at = "flagaccept" /\ os' = os /\ gfree' = gfree /\ rdy' = rdy
  BY DEF OSFlagAccept, At
<1>2. FlagPc(os, pc) /\ FlagGiven(os, pc, rdy) /\ t \in Task
  BY <1>1 DEF FlagState, FlagKernel
<1>3. PICK g : g = pc[t].ev /\ g \in Group
  BY <1>1, <1>2 DEF FlagPc, InFlag
<1>4. ~ OnFlags(os, t)
  BY <1>1, <1>2 DEF FlagPc, Blk
<1>5. PICK H, r : H = grp' /\ (H = grp \/ H = [grp EXCEPT ![g].flags = Consume(grp[g].flags, pc[t].n, r)])
  BY <1>3 DEF OSFlagAccept
<1>6. PICK s : s = pc' /\ s = [pc EXCEPT ![t] = InApp]
  BY DEF OSFlagAccept, Return
<1>7. PICK R : R = rdy /\ R = [u \in Task |-> R[u]] /\ \A u \in Task : u # t => R[u] = rdy[u]
  BY <1>2 DEF FlagGiven
<1>8. pc[t].at \in {"flagaccept", "flagpend", "wake"}
  BY <1>1
<1>9. Answering(t, g, r, H, s, R)
  BY ONLY FlagState(os, pc, grp, gfree, rdy), <1>1, <1>3, <1>4, <1>5, <1>6, <1>7, <1>8 DEF Answering
<1>10. FlagState(os, s, H, gfree, R)
  BY ONLY <1>9, FlagAnswers
<1> QED
  BY <1>1, <1>5, <1>6, <1>7, <1>10

LEMMA FlagPends ==
  ASSUME NEW t, FlagState(os, pc, grp, gfree, rdy), OSFlagPend(t)
  PROVE  FlagState(os', pc', grp', gfree', rdy')
<1>1. t = os.cur /\ pc[t].at = "flagpend" /\ gfree' = gfree
  BY DEF OSFlagPend, At
<1>2. /\ FlagPc(os, pc) /\ FlagCalls(pc, grp, gfree) /\ FlagLists(os, pc, grp) /\ FlagGiven(os, pc, rdy) /\ FlagCpu(os, pc)
      /\ FlagKernel(os) /\ Shape(os) /\ t \in Task /\ t \in os.list
  BY <1>1 DEF FlagState, FlagKernel
<1>3. PICK g, w, f : g = pc[t].ev /\ g \in Group /\ w = pc[t].n /\ f = grp[g].flags
  BY <1>1, <1>2 DEF FlagPc, InFlag
<1>4. ~ OnFlags(os, t) /\ t # Idle /\ pc = [u \in Task |-> pc[u]] /\ Formed(pc[t]) /\ pc[t].n \in App[os.app].wait
  BY <1>1, <1>2 DEF FlagPc, Blk, Formed
<1>5. CASE Met(f, w)
  <2>1. os' = os
    BY <1>3, <1>5 DEF OSFlagPend
  <2>2. PICK H, r : H = grp' /\ (H = grp \/ H = [grp EXCEPT ![g].flags = Consume(grp[g].flags, pc[t].n, r)])
    BY <1>3, <1>5 DEF OSFlagPend
  <2>3. PICK s : s = pc' /\ s = [pc EXCEPT ![t] = InApp]
    BY <1>3, <1>5 DEF OSFlagPend, Return
  <2>4. PICK R : R = rdy' /\ R = [u \in Task |-> R[u]] /\ \A u \in Task : u # t => R[u] = rdy[u]
    <3>1. PICK x : rdy' = [rdy EXCEPT ![t] = x]
      BY <1>3, <1>5 DEF OSFlagPend
    <3>2. rdy = [u \in Task |-> rdy[u]]
      BY <1>2 DEF FlagGiven
    <3> QED
      BY ONLY <3>1, <3>2
  <2>5. pc[t].at \in {"flagaccept", "flagpend", "wake"}
    BY <1>1
  <2>6. Answering(t, g, r, H, s, R)
    BY ONLY FlagState(os, pc, grp, gfree, rdy), <1>1, <1>3, <1>4, <2>2, <2>3, <2>4, <2>5 DEF Answering
  <2>7. FlagState(os, s, H, gfree, R)
    BY ONLY <2>6, FlagAnswers
  <2> QED
    BY <1>1, <2>1, <2>2, <2>3, <2>4, <2>7
<1>6. CASE ~ Met(f, w)
  <2>1. PICK n \in 0 .. MaxDly : OS_FlagBlock(t, g, n)
    BY <1>3, <1>6 DEF OSFlagPend
  <2>2. PICK s : s = pc' /\ s = [pc EXCEPT ![t].at = "block"] /\ rdy' = rdy
    BY <1>3, <1>6 DEF OSFlagPend, Goto
  <2>3. PICK H : H = grp' /\ H = [grp EXCEPT ![g].list = <<t>> \o @]
    BY <2>1 DEF OS_FlagBlock
  <2>4. n \in Nat
    BY <1>2, <2>1, AppAssumption DEF MaxDly, FlagKernel
  <2>5. PICK c, d : c = os.tcb[t] /\ d = [c EXCEPT !.stat = @ \cup {"flag"}, !.pend = "ok", !.dly = n]
    OBVIOUS
  <2>6. c \in FlagTcb /\ os.tcb = [u \in Task |-> os.tcb[u]]
    BY <1>2, <2>5 DEF FlagKernel
  <2>7. d \in FlagTcb /\ d.prio = c.prio /\ d.pend = "ok" /\ d.stat = c.stat \cup {"flag"} /\ d.dly = n
    <3>1. c.stat \cup {"flag"} \in SUBSET {"suspend", "flag"}
      BY ONLY <2>6 DEF FlagTcb
    <3> QED
      BY ONLY <2>4, <2>5, <2>6, <3>1 DEF FlagTcb
  <2>8. PICK r, D : r = os' /\ D = os.rdy \ {c.prio} /\ r = [os EXCEPT !.tcb = [os.tcb EXCEPT ![t] = d], !.rdy = D]
    <3>1. PICK k1 : k1 = [os EXCEPT !.tcb[t].stat = @ \cup {"flag"}, !.tcb[t].pend = "ok", !.tcb[t].dly = n]
      OBVIOUS
    <3>2. /\ k1.tcb = [os.tcb EXCEPT ![t] = d] /\ k1.tcb[t] = d
          /\ k1 = [os EXCEPT !.tcb = [os.tcb EXCEPT ![t] = d]]
      <4>1. PICK T : T = [os.tcb EXCEPT ![t].stat = @ \cup {"flag"}, ![t].pend = "ok", ![t].dly = n]
        OBVIOUS
      <4>2. T = [os.tcb EXCEPT ![t] = d] /\ T[t] = d
        BY ONLY <1>2, <2>5, <2>6, <4>1
      <4>3. k1 = [os EXCEPT !.tcb = T]
        BY ONLY <1>2, <2>6, <3>1, <4>1 DEF Shape
      <4>4. k1.tcb = T
        BY ONLY <1>2, <4>3 DEF Shape
      <4> QED
        BY ONLY <4>2, <4>3, <4>4
    <3>3. os' = [k1 EXCEPT !.rdy = @ \ {c.prio}]
      BY <2>1, <2>7, <3>1, <3>2 DEF OS_FlagBlock, ClearReady
    <3> QED
      BY ONLY <1>2, <3>2, <3>3 DEF Shape
  <2>9. OneAltered(os, t, d, D, r)
    <3>1. "flag" \in d.stat
      BY ONLY <2>7
    <3> QED
      BY ONLY <1>2, <1>4, <2>5, <2>7, <2>8, <3>1 DEF OneAltered
  <2>10. Altering(os, [os.tcb EXCEPT ![t] = d], D, r)
    BY ONLY <2>9, OneAlters
  <2>11. /\ FlagKernel(r) /\ r.tcb = [os.tcb EXCEPT ![t] = d] /\ r.rdy = D /\ r.app = os.app /\ r.list = os.list
         /\ r.cur = os.cur /\ r.prioCur = os.prioCur /\ r.lock = os.lock
    BY ONLY <2>10, Alters
  <2>12. (\A u \in Task : u # t => r.tcb[u] = os.tcb[u]) /\ r.tcb[t] = d
    BY ONLY <1>2, <2>6, <2>11
  <2>13. (\A u \in Task : u # t => (OnFlags(r, u) <=> OnFlags(os, u))) /\ OnFlags(r, t)
    BY ONLY <2>7, <2>12 DEF OnFlags
  <2>14. s = [u \in Task |-> s[u]] /\ (\A u \in Task : u # t => s[u] = pc[u]) /\ s[t] = [pc[t] EXCEPT !.at = "block"]
    BY ONLY <1>2, <1>4, <2>2
  <2>15. Formed(s[t]) /\ s[t].at = "block" /\ s[t].ev = g /\ s[t].n = w /\ s[t].svc = pc[t].svc
    BY ONLY <1>3, <1>4, <2>14 DEF Formed
  <2>16. pc[t].svc = "flag" /\ grp = [h \in Group |-> grp[h]]
    BY <1>1, <1>2 DEF FlagPc, FlagCalls, InFlag
  <2>17. FlagPc(r, s)
    <3>1. ASSUME NEW u \in Task
          PROVE  /\ Formed(s[u])
                 /\ s[u].at \in InFlag \cup {"app", "sched", "block", "wake"}
                 /\ u \notin r.list \/ u = Idle => s[u].at = "app"
                 /\ OnFlags(r, u) => Blk(s, u)
                 /\ Blk(s, u) => s[u].svc = "flag" /\ s[u].ev \in Group
                 /\ s[u].at \in InFlag => s[u].svc = "flag" /\ s[u].ev \in Group
                 /\ s[u].at \in {"flagaccept", "flagpend", "block", "wake"} => s[u].n \in App[r.app].wait
                 /\ s[u].at = "flagdel" => "flagdel" \in App[r.app].ops
      <4>1. CASE u = t
        BY <1>2, <1>3, <1>4, <2>11, <2>15, <2>16, <4>1 DEF Blk, InFlag
      <4>2. CASE u # t
        BY <1>2, <2>11, <2>13, <2>14, <4>2 DEF FlagPc, Blk, Formed
      <4> QED
        BY <4>1, <4>2
    <3> QED
      BY ONLY <2>14, <3>1 DEF FlagPc, Formed
  <2>18. PICK l, L : l = grp[g].list /\ L = <<t>> \o l
    OBVIOUS
  <2>19. l \in Seq(Task) /\ IsInjective(l) /\ t \notin ToSet(l)
    BY <1>2, <1>3, <1>4, <2>18 DEF FlagCalls, FlagLists
  <2>20. L \in Seq(Task) /\ IsInjective(L) /\ ToSet(L) = ToSet(l) \cup {t}
    <3>1. Pushed(Task, l, t, L)
      BY ONLY <1>2, <2>18, <2>19, Push
    <3> QED
      BY ONLY <2>19, <3>1 DEF Pushed
  <2>21. /\ H = [h \in Group |-> H[h]] /\ (\A h \in Group : h # g => H[h] = grp[h])
         /\ H[g] = [type |-> grp[g].type, flags |-> f, list |-> L]
    <3>1. H = [h \in Group |-> H[h]] /\ (\A h \in Group : h # g => H[h] = grp[h]) /\ H[g] = [grp[g] EXCEPT !.list = L]
      BY ONLY <1>3, <2>3, <2>16, <2>18
    <3>2. grp[g] = [type |-> grp[g].type, flags |-> grp[g].flags, list |-> grp[g].list]
      BY <1>2, <1>3 DEF FlagCalls
    <3>3. PICK a : a = grp[g] /\ a = [type |-> a.type, flags |-> f, list |-> a.list]
      BY ONLY <1>3, <3>2
    <3>4. [a EXCEPT !.list = L] = [type |-> a.type, flags |-> f, list |-> L]
      BY ONLY <3>3
    <3> QED
      BY ONLY <3>1, <3>3, <3>4
  <2>22. FlagCalls(s, H, gfree)
    <3>1. grp[g].type = "flag"
      BY <1>1, <1>2, <1>3 DEF FlagCalls, InFlag
    <3>2. \A h \in Group : /\ H[h].list \in Seq(Task) /\ H[h].type = grp[h].type
                           /\ H[h].type # "flag" => H[h].list = <<>>
      <4>1. H[g].type = "flag" /\ H[g].list = L /\ H[g].flags = f
        BY ONLY <2>21, <3>1
      <4>2. \A h \in Group : grp[h].list \in Seq(Task) /\ (grp[h].type # "flag" => grp[h].list = <<>>)
        BY <1>2 DEF FlagCalls
      <4> QED
        BY ONLY <2>20, <2>21, <3>1, <4>1, <4>2
    <3>7. \A h \in Group : H[h] = [type |-> H[h].type, flags |-> H[h].flags, list |-> H[h].list]
      <4>1. \A h \in Group : grp[h] = [type |-> grp[h].type, flags |-> grp[h].flags, list |-> grp[h].list]
        BY <1>2 DEF FlagCalls
      <4> QED
        BY ONLY <2>21, <4>1
    <3>3. \A u \in Task : s[u].at \in InFlag => s[u] = pc[u] /\ s[u].ev \in Group
      BY <1>2, <2>14, <2>15 DEF FlagPc, InFlag
    <3>4. ToSet(gfree) \subseteq Group
      BY <1>2 DEF FlagCalls, ToSet
    <3>5. (\A h \in ToSet(gfree) : H[h].type # "flag") /\ (\A u \in Task : s[u].at \in InFlag => H[s[u].ev].type = "flag")
      <4>1. (\A h \in ToSet(gfree) : grp[h].type # "flag") /\ (\A u \in Task : pc[u].at \in InFlag => grp[pc[u].ev].type = "flag")
        BY <1>2 DEF FlagCalls
      <4>2. \A h \in Group : H[h].type = grp[h].type
        BY <3>2
      <4> QED
        BY ONLY <3>3, <3>4, <4>1, <4>2
    <3>6. \A u, v \in Task : s[u].at = "flagdel" /\ s[v].at \in InFlag /\ s[v].ev = s[u].ev => u = v
      <4>1. \A u \in Task : s[u].at = "flagdel" => s[u].at \in InFlag
        BY DEF InFlag
      <4> QED
        BY <1>2, <3>3, <4>1 DEF FlagCalls
    <3> QED
      <4>1. gfree \in Seq(Group) /\ IsInjective(gfree) /\ H = [h \in Group |-> H[h]]
        BY <1>2, <2>21 DEF FlagCalls
      <4> QED
        BY ONLY <3>2, <3>5, <3>6, <3>7, <4>1 DEF FlagCalls
  <2>23. FlagLists(r, s, H)
    <3>1. ASSUME NEW h \in Group, NEW u \in Task
          PROVE  /\ IsInjective(H[h].list)
                 /\ u \in ToSet(H[h].list) <=> OnFlags(r, u) /\ s[u].ev = h
                 /\ OnFlags(r, u) /\ s[u].ev = h /\ Met(H[h].flags, s[u].n) => r.tcb[u].pend = "to"
      <4>1. /\ IsInjective(grp[h].list)
            /\ u \in ToSet(grp[h].list) <=> OnFlags(os, u) /\ pc[u].ev = h
            /\ OnFlags(os, u) /\ pc[u].ev = h /\ Met(grp[h].flags, pc[u].n) => os.tcb[u].pend = "to"
        BY <1>2 DEF FlagLists
      <4>2. IsInjective(H[h].list) /\ H[h].flags = grp[h].flags
        BY ONLY <1>3, <2>20, <2>21, <4>1
      <4>3. CASE u # t
        <5>1. u \in ToSet(H[h].list) <=> u \in ToSet(grp[h].list)
          <6>1. H[g].list = L
            BY ONLY <2>21
          <6> QED
            BY ONLY <2>18, <2>20, <2>21, <4>3, <6>1
        <5> QED
          BY ONLY <2>12, <2>13, <2>14, <4>1, <4>2, <4>3, <5>1
      <4>4. CASE u = t
        <5>1. t \in ToSet(H[h].list) <=> h = g
          <6>1. H[g].list = L /\ t \in ToSet(L) /\ (h # g => t \notin ToSet(grp[h].list))
            BY ONLY <1>4, <2>20, <2>21, <4>1, <4>4
          <6> QED
            BY ONLY <2>21, <6>1
        <5>2. ~ Met(grp[g].flags, w)
          BY ONLY <1>3, <1>6
        <5> QED
          BY ONLY <2>13, <2>15, <4>2, <4>4, <5>1, <5>2
      <4> QED
        BY <4>3, <4>4
    <3>2. \A h \in Group : IsInjective(H[h].list)
      BY <1>2, <2>20, <2>21 DEF FlagLists
    <3> QED
      BY ONLY <3>1, <3>2 DEF FlagLists
  <2>24. FlagGiven(r, s, rdy)
    BY <1>2, <2>11, <2>13, <2>14 DEF FlagGiven, Blk
  <2>25. FlagCpu(r, s)
    <3>1. r.tcb[t].prio = os.tcb[t].prio /\ os.lock = 0
      BY <1>1, <1>2, <2>5, <2>7, <2>12 DEF FlagCpu
    <3> QED
      BY <1>1, <1>2, <2>11, <2>15, <3>1 DEF FlagCpu
  <2> QED
    BY <1>1, <2>2, <2>3, <2>8, <2>11, <2>17, <2>22, <2>23, <2>24, <2>25 DEF FlagState
<1> QED
  BY <1>5, <1>6
-----------------------------------------------------------------------------
\* The tasks X no longer wait, and the lists of the groups know it.
Left(k, p, G, X, r, H) ==
  /\ FlagPc(k, p) /\ FlagLists(k, p, G) /\ r.app = k.app /\ r.list = k.list
  /\ \A u \in Task : /\ OnFlags(r, u) <=> OnFlags(k, u) /\ u \notin X
                     /\ u \notin X /\ k.tcb[u].pend = "to" => r.tcb[u].pend = "to"
  /\ \A h \in Group : IsInjective(H[h].list) /\ ToSet(H[h].list) = ToSet(G[h].list) \ X
  /\ \A u \in Task : u \notin X /\ OnFlags(k, u) /\ Met(H[p[u].ev].flags, p[u].n) => Met(G[p[u].ev].flags, p[u].n)
LEMMA FlagsLeave ==
  ASSUME NEW k, NEW p, NEW G, NEW X, NEW r, NEW H, Left(k, p, G, X, r, H)
  PROVE  FlagPc(r, p) /\ FlagLists(r, p, H)
<1>1. FlagPc(k, p) /\ r.app = k.app /\ r.list = k.list /\ \A u \in Task : OnFlags(r, u) => OnFlags(k, u)
  BY DEF Left
<1>2. FlagPc(r, p)
  BY ONLY <1>1 DEF FlagPc
<1>3. ASSUME NEW h \in Group, NEW u \in Task
      PROVE  /\ u \in ToSet(H[h].list) <=> OnFlags(r, u) /\ p[u].ev = h
             /\ OnFlags(r, u) /\ p[u].ev = h /\ Met(H[h].flags, p[u].n) => r.tcb[u].pend = "to"
  <2>1. /\ u \in ToSet(G[h].list) <=> OnFlags(k, u) /\ p[u].ev = h
        /\ OnFlags(k, u) /\ p[u].ev = h /\ Met(G[h].flags, p[u].n) => k.tcb[u].pend = "to"
    BY DEF Left, FlagLists
  <2>2. /\ OnFlags(r, u) <=> OnFlags(k, u) /\ u \notin X
        /\ u \notin X /\ k.tcb[u].pend = "to" => r.tcb[u].pend = "to"
        /\ ToSet(H[h].list) = ToSet(G[h].list) \ X
        /\ u \notin X /\ OnFlags(k, u) /\ Met(H[p[u].ev].flags, p[u].n) => Met(G[p[u].ev].flags, p[u].n)
    BY DEF Left
  <2> QED
    BY ONLY <2>1, <2>2
<1>4. \A h \in Group : IsInjective(H[h].list)
  BY DEF Left
<1>5. FlagLists(r, p, H)
  BY ONLY <1>3, <1>4 DEF FlagLists
<1> QED
  BY <1>2, <1>5

\* A group with other flags and another list.
Regrouped(G, g, f, L, H) ==
  /\ H = [h \in Group |-> H[h]] /\ (\A h \in Group : h # g => H[h] = G[h])
  /\ H[g] = [type |-> G[g].type, flags |-> f, list |-> L]
LEMMA Regroups ==
  ASSUME NEW s, NEW G, NEW F, FlagCalls(s, G, F), NEW g \in Group, NEW f, NEW L, NEW H,
         H = [G EXCEPT ![g].flags = f, ![g].list = L]
  PROVE  Regrouped(G, g, f, L, H)
<1>1. G = [h \in Group |-> G[h]] /\ G[g] = [type |-> G[g].type, flags |-> G[g].flags, list |-> G[g].list]
  BY DEF FlagCalls
<1>2. H = [h \in Group |-> H[h]] /\ (\A h \in Group : h # g => H[h] = G[h]) /\ H[g] = [G[g] EXCEPT !.flags = f, !.list = L]
  BY ONLY <1>1, H = [G EXCEPT ![g].flags = f, ![g].list = L]
<1>3. PICK a : a = G[g] /\ a = [type |-> a.type, flags |-> a.flags, list |-> a.list]
  BY ONLY <1>1
<1>4. [a EXCEPT !.flags = f, !.list = L] = [type |-> a.type, flags |-> f, list |-> L]
  <2>1. PICK b, x, y, z : b = a /\ b = [type |-> x, flags |-> y, list |-> z] /\ a.type = x
    BY ONLY <1>3
  <2>2. PICK e : e = [b EXCEPT !.flags = f, !.list = L]
    OBVIOUS
  <2>3. e.type = x /\ e.flags = f /\ e.list = L /\ DOMAIN e = {"type", "flags", "list"} /\ e = [i \in {"type", "flags", "list"} |-> e[i]]
    BY ONLY <2>1, <2>2
  <2>5. e = [type |-> x, flags |-> f, list |-> L]
    BY ONLY <2>3
  <2>4. [b EXCEPT !.flags = f, !.list = L] = [type |-> x, flags |-> f, list |-> L]
    BY ONLY <2>2, <2>5
  <2> QED
    BY ONLY <2>1, <2>4
<1> QED
  BY ONLY <1>2, <1>3, <1>4 DEF Regrouped

LEMMA CallsRegroup ==
  ASSUME NEW k, NEW s, NEW G, NEW F, FlagPc(k, s), FlagCalls(s, G, F), NEW g \in Group, NEW f, NEW L, NEW H,
         Regrouped(G, g, f, L, H), G[g].type = "flag", L \in Seq(Task)
  PROVE  FlagCalls(s, H, F)
<1>1. H = [h \in Group |-> H[h]] /\ (\A h \in Group : h # g => H[h] = G[h])
      /\ H[g].type = "flag" /\ H[g].list = L /\ H[g] = [type |-> H[g].type, flags |-> H[g].flags, list |-> H[g].list]
  BY DEF Regrouped
<1>2. \A h \in Group : /\ H[h].list \in Seq(Task) /\ H[h].type = G[h].type
                       /\ H[h].type # "flag" => H[h].list = <<>>
  <2>1. \A h \in Group : G[h].list \in Seq(Task) /\ (G[h].type # "flag" => G[h].list = <<>>)
    BY DEF FlagCalls
  <2> QED
    BY ONLY <1>1, <2>1, L \in Seq(Task), G[g].type = "flag"
<1>3. \A h \in Group : H[h] = [type |-> H[h].type, flags |-> H[h].flags, list |-> H[h].list]
  <2>1. \A h \in Group : G[h] = [type |-> G[h].type, flags |-> G[h].flags, list |-> G[h].list]
    BY DEF FlagCalls
  <2> QED
    BY ONLY <1>1, <2>1
<1>4. ToSet(F) \subseteq Group /\ \A u \in Task : s[u].at \in InFlag => s[u].ev \in Group
  <2>1. F \in Seq(Group)
    BY DEF FlagCalls
  <2>2. ToSet(F) \subseteq Group
    BY ONLY <2>1 DEF ToSet
  <2> QED
    BY <2>2 DEF FlagPc
<1>5. (\A h \in ToSet(F) : H[h].type # "flag") /\ (\A u \in Task : s[u].at \in InFlag => H[s[u].ev].type = "flag")
  <2>1. (\A h \in ToSet(F) : G[h].type # "flag") /\ (\A u \in Task : s[u].at \in InFlag => G[s[u].ev].type = "flag")
    BY DEF FlagCalls
  <2> QED
    BY ONLY <1>2, <1>4, <2>1
<1> QED
  BY ONLY FlagCalls(s, G, F), <1>1, <1>2, <1>3, <1>5 DEF FlagCalls

\* The tasks of a list, and what a task needs to be one of them.
LEMMA OnList ==
  ASSUME NEW k, NEW p, NEW G, FlagPc(k, p), FlagLists(k, p, G), NEW g \in Group, NEW F, FlagCalls(p, G, F)
  PROVE  /\ ToSet(G[g].list) \subseteq Task /\ G[g].list \in Seq(Task) /\ IsInjective(G[g].list)
         /\ \A u \in ToSet(G[g].list) : /\ u \in k.list /\ u # Idle /\ OnFlags(k, u) /\ p[u].ev = g /\ Blk(p, u)
         /\ ToSet(G[g].list) # {} => G[g].type = "flag"
<1>1. G[g].list \in Seq(Task) /\ IsInjective(G[g].list) /\ (G[g].type # "flag" => G[g].list = <<>>)
  BY DEF FlagCalls, FlagLists
<1>2. ToSet(G[g].list) \subseteq Task /\ (G[g].list = <<>> => ToSet(G[g].list) = {})
  BY ONLY <1>1 DEF ToSet
<1>3. \A u \in ToSet(G[g].list) : OnFlags(k, u) /\ p[u].ev = g
  BY <1>2 DEF FlagLists
<1>4. \A u \in ToSet(G[g].list) : Blk(p, u) /\ u \in k.list /\ u # Idle
  BY <1>2, <1>3 DEF FlagPc, Blk
<1> QED
  BY <1>1, <1>2, <1>3, <1>4

\* Tasks that wait are made ready.
LEMMA FlagReadies ==
  ASSUME NEW k, FlagKernel(k), NEW X, X \subseteq k.list, Idle \notin X, NEW r, r = OS_FlagTaskRdy(k, X)
  PROVE  /\ FlagKernel(r) /\ r.app = k.app /\ r.list = k.list /\ r.cur = k.cur /\ r.prioCur = k.prioCur /\ r.lock = k.lock
         /\ \A u \in Task : /\ r.tcb[u].prio = k.tcb[u].prio /\ (u \notin X => r.tcb[u] = k.tcb[u])
                            /\ OnFlags(r, u) <=> OnFlags(k, u) /\ u \notin X
         /\ k.rdy \subseteq r.rdy
<1>1. PICK c : c = k.tcb
  OBVIOUS
<1>2. /\ FlagKernel(k) /\ Shape(k) /\ c = k.tcb /\ c \in [Task -> FlagTcb] /\ k.list \subseteq Task /\ k.rdy \subseteq Prio
      /\ OwnPrioInv(k) /\ (\A t \in k.list : ReadyAt(k, t)) /\ Idle \in Task
      /\ \A x \in k.rdy : \E t \in k.list : c[t].prio = x
      /\ \A t \in Task : c[t].pend = "to" => c[t].dly = 0 /\ "flag" \notin c[t].stat
  BY <1>1 DEF FlagKernel
<1>31. PICK T, D : /\ T = [t \in Task |-> IF t \notin X THEN k.tcb[t]
                                         ELSE [k.tcb[t] EXCEPT !.dly = 0, !.stat = @ \ {"flag"}, !.pend = "ok"]]
                  /\ D = k.rdy \cup {k.tcb[t].prio : t \in {u \in X : k.tcb[u].stat \subseteq {"flag"}}}
  OBVIOUS
<1>3. /\ T = [t \in Task |-> IF t \notin X THEN c[t]
                             ELSE [c[t] EXCEPT !.dly = 0, !.stat = @ \ {"flag"}, !.pend = "ok"]]
      /\ D = k.rdy \cup {c[t].prio : t \in {u \in X : c[u].stat \subseteq {"flag"}}}
  BY ONLY <1>1, <1>31
<1>4. r = [k EXCEPT !.tcb = T, !.rdy = D]
  <2>1. r = [k EXCEPT !.tcb = T, !.rdy = k.rdy \cup {k.tcb[t].prio : t \in {u \in X : k.tcb[u].stat \subseteq {"flag"}}}]
    BY ONLY <1>2, <1>31, r = OS_FlagTaskRdy(k, X), Zenon DEF OS_FlagTaskRdy
  <2> QED
    BY ONLY <1>31, <2>1
<1>5. \A t \in Task : /\ c[t] \in FlagTcb /\ c[t].stat \in SUBSET {"suspend", "flag"} /\ c[t].prio \in Prio
  <2>1. \A t \in Task : c[t] \in FlagTcb
    BY <1>2
  <2> QED
    BY ONLY <2>1 DEF FlagTcb
<1>6. ASSUME NEW t \in Task
      PROVE  /\ T[t] \in FlagTcb /\ T[t].prio = c[t].prio
             /\ T[t].pend = "to" => T[t].dly = 0 /\ "flag" \notin T[t].stat
             /\ t \notin X => T[t] = c[t]
             /\ t \in X => T[t].stat = c[t].stat \ {"flag"} /\ T[t].dly = 0 /\ T[t].pend = "ok"
  <2>1. CASE t \notin X
    BY <1>2, <1>3, <1>5, <2>1
  <2>2. CASE t \in X
    <3>1. PICK a, b : a = c[t] /\ b = T[t] /\ a \in FlagTcb /\ b = [a EXCEPT !.dly = 0, !.stat = a.stat \ {"flag"}, !.pend = "ok"]
      BY <1>3, <1>5, <2>2
    <3>2. a = [prio |-> a.prio, stat |-> a.stat, pend |-> a.pend, dly |-> a.dly, ev |-> a.ev, multi |-> a.multi,
               msg |-> a.msg, delreq |-> a.delreq]
      BY ONLY <3>1 DEF FlagTcb
    <3>3. b = [prio |-> a.prio, stat |-> a.stat \ {"flag"}, pend |-> "ok", dly |-> 0, ev |-> a.ev, multi |-> a.multi,
               msg |-> a.msg, delreq |-> a.delreq]
      BY ONLY <3>1, <3>2
    <3>4. /\ a.prio \in Prio /\ a.stat \ {"flag"} \in SUBSET {"suspend", "flag"} /\ a.ev \in {Null} /\ a.multi \in {{}}
          /\ a.msg \in {Null} /\ a.delreq \in BOOLEAN /\ 0 \in Nat
      BY ONLY <3>1 DEF FlagTcb
    <3>5. b \in FlagTcb
      BY ONLY <3>3, <3>4 DEF FlagTcb
    <3>6. b.prio = a.prio /\ b.stat = a.stat \ {"flag"} /\ b.dly = 0 /\ b.pend = "ok"
      BY ONLY <3>3
    <3> QED
      BY ONLY <2>2, <3>1, <3>5, <3>6
  <2> QED
    BY <2>1, <2>2
<1>7. D \subseteq Prio /\ \A x \in D : \E t \in k.list : c[t].prio = x
  <2>1. \A t \in X : t \in k.list /\ t \in Task /\ c[t].prio \in Prio
    BY ONLY <1>2, <1>5, X \subseteq k.list
  <2>2. \A x \in D : x \in k.rdy \/ \E t \in X : c[t].prio = x
    BY ONLY <1>3
  <2>3. k.rdy \subseteq Prio /\ \A x \in k.rdy : \E t \in k.list : c[t].prio = x
    BY ONLY <1>2
  <2> QED
    BY ONLY <2>1, <2>2, <2>3
<1>8. \A t \in k.list : c[t].prio \in D <=> T[t].dly = 0 /\ T[t].stat = {}
  <2> SUFFICES ASSUME NEW t \in k.list PROVE c[t].prio \in D <=> T[t].dly = 0 /\ T[t].stat = {}
    OBVIOUS
  <2>1. t \in Task /\ (c[t].prio \in k.rdy <=> c[t].dly = 0 /\ c[t].stat = {})
    BY ONLY <1>2 DEF ReadyAt
  <2>2. \A u \in k.list : c[u].prio = c[t].prio => u = t
    BY ONLY <1>2, OwnPrios
  <2>3. c[t].prio \in D <=> c[t].prio \in k.rdy \/ (t \in X /\ c[t].stat \subseteq {"flag"})
    BY ONLY <1>3, <2>2, X \subseteq k.list
  <2>4. c[t].stat \in SUBSET {"suspend", "flag"}
    BY <1>5, <2>1
  <2>5. c[t].stat \ {"flag"} = {} <=> c[t].stat \subseteq {"flag"}
    BY ONLY <2>4
  <2>6. /\ t \notin X => T[t] = c[t]
        /\ t \in X => T[t].stat = c[t].stat \ {"flag"} /\ T[t].dly = 0
    BY <1>6, <2>1
  <2> QED
    BY ONLY <2>1, <2>3, <2>5, <2>6
<1>9. T \in [Task -> FlagTcb] /\ T[Idle] = c[Idle]
  <2>1. T = [t \in Task |-> T[t]]
    BY ONLY <1>3
  <2> QED
    BY <1>2, <1>6, <2>1
<1>10. \A t \in Task : T[t].prio = c[t].prio /\ (T[t].pend = "to" => T[t].dly = 0 /\ "flag" \notin T[t].stat)
  BY <1>6
<1>11. Altering(k, T, D, r)
  BY ONLY <1>2, <1>4, <1>7, <1>8, <1>9, <1>10 DEF Altering
<1>12. /\ FlagKernel(r) /\ r.tcb = T /\ r.rdy = D /\ r.app = k.app /\ r.list = k.list
       /\ r.cur = k.cur /\ r.prioCur = k.prioCur /\ r.lock = k.lock
  BY ONLY <1>11, Alters
<1>13. \A u \in Task : /\ r.tcb[u].prio = k.tcb[u].prio /\ (u \notin X => r.tcb[u] = k.tcb[u])
                       /\ OnFlags(r, u) <=> OnFlags(k, u) /\ u \notin X
  BY <1>1, <1>6, <1>12 DEF OnFlags
<1>14. k.rdy \subseteq r.rdy
  BY ONLY <1>3, <1>12
<1> QED
  BY ONLY <1>12, <1>13, <1>14
-----------------------------------------------------------------------------
\* A task whose wait has timed out leaves the list.
LEMMA FlagTimesOut ==
  ASSUME NEW t, FlagState(os, pc, grp, gfree, rdy), FlagWake(t), os.tcb[t].pend # "ok"
  PROVE  FlagState(os', pc', grp', gfree', rdy')
<1>1. t = os.cur /\ pc[t].at = "wake" /\ gfree' = gfree /\ rdy' = rdy
  BY DEF FlagWake, Wakes, At
<1>2. /\ FlagPc(os, pc) /\ FlagCalls(pc, grp, gfree) /\ FlagLists(os, pc, grp) /\ FlagGiven(os, pc, rdy) /\ FlagCpu(os, pc)
      /\ FlagKernel(os) /\ Shape(os) /\ t \in Task /\ t \in os.list
  BY <1>1 DEF FlagState, FlagKernel
<1>3. PICK g : g = pc[t].ev /\ g \in Group
  BY <1>1, <1>2 DEF FlagPc, Blk
<1>4. t # Idle /\ pc = [u \in Task |-> pc[u]] /\ os.tcb[t] \in FlagTcb /\ os.tcb = [u \in Task |-> os.tcb[u]]
  BY <1>1, <1>2 DEF FlagPc, FlagKernel
<1>5. PICK c, d : c = os.tcb[t] /\ d = [c EXCEPT !.pend = "ok", !.stat = {}]
  OBVIOUS
<1>6. c.pend = "to" /\ c \in FlagTcb
  BY <1>4, <1>5 DEF FlagTcb
<1>7. os.lock = 0 /\ c.prio = os.prioCur /\ c.prio \in os.rdy
  BY <1>1, <1>2, <1>5 DEF FlagCpu
<1>8. c.stat = {} /\ c.dly = 0
  <2>1. ReadyAt(os, t)
    BY <1>2 DEF FlagKernel
  <2> QED
    BY ONLY <1>5, <1>7, <2>1 DEF ReadyAt
<1>9. d \in FlagTcb /\ d.prio = c.prio /\ d.pend = "ok" /\ d.stat = {} /\ d.dly = 0
  BY ONLY <1>5, <1>6, <1>8 DEF FlagTcb
<1>10. PICK r, D : r = os' /\ D = os.rdy /\ r = [os EXCEPT !.tcb = [os.tcb EXCEPT ![t] = d], !.rdy = D]
  <2>1. os' = [os EXCEPT !.tcb[t].pend = "ok", !.tcb[t].stat = {}]
    BY DEF FlagWake
  <2>2. PICK T : T = [os.tcb EXCEPT ![t].pend = "ok", ![t].stat = {}]
    OBVIOUS
  <2>3. T = [os.tcb EXCEPT ![t] = d]
    BY ONLY <1>2, <1>4, <1>5, <2>2
  <2>4. os' = [os EXCEPT !.tcb = T]
    BY ONLY <1>2, <1>4, <2>1, <2>2 DEF Shape
  <2>5. os' = [os EXCEPT !.tcb = [os.tcb EXCEPT ![t] = d], !.rdy = os.rdy]
    BY ONLY <1>2, <2>3, <2>4 DEF Shape
  <2> QED
    BY ONLY <2>5
<1>11. OneAltered(os, t, d, D, r)
  BY ONLY <1>2, <1>4, <1>5, <1>7, <1>9, <1>10 DEF OneAltered
<1>12. Altering(os, [os.tcb EXCEPT ![t] = d], D, r)
  BY ONLY <1>11, OneAlters
<1>13. /\ FlagKernel(r) /\ r.tcb = [os.tcb EXCEPT ![t] = d] /\ r.rdy = D /\ r.app = os.app /\ r.list = os.list
       /\ r.cur = os.cur /\ r.prioCur = os.prioCur /\ r.lock = os.lock
  BY ONLY <1>12, Alters
<1>14. (\A u \in Task : u # t => r.tcb[u] = os.tcb[u]) /\ r.tcb[t] = d
  BY ONLY <1>2, <1>4, <1>13
<1>15. \A u \in Task : /\ OnFlags(r, u) <=> OnFlags(os, u) /\ u \notin {t}
                       /\ u \notin {t} /\ os.tcb[u].pend = "to" => r.tcb[u].pend = "to"
  BY ONLY <1>9, <1>14 DEF OnFlags
<1>16. PICK l, L, f : l = grp[g].list /\ L = OS_FlagUnlink(l, {t}) /\ f = grp[g].flags
  OBVIOUS
<1>17. l \in Seq(Task) /\ IsInjective(l) /\ t \in ToSet(l) /\ grp[g].type = "flag"
  <2>1. t \in ToSet(l)
    BY <1>2, <1>3, <1>5, <1>6, <1>16 DEF FlagLists, OnFlags
  <2>2. FlagPc(os, pc) /\ FlagCalls(pc, grp, gfree) /\ FlagLists(os, pc, grp) /\ g \in Group
    BY <1>2, <1>3
  <2>3. /\ grp[g].list \in Seq(Task) /\ IsInjective(grp[g].list)
        /\ ToSet(grp[g].list) # {} => grp[g].type = "flag"
    BY ONLY <2>2, OnList
  <2> QED
    BY ONLY <1>16, <2>1, <2>3
<1>18. L \in Seq(Task) /\ IsInjective(L) /\ ToSet(L) = ToSet(l) \ {t}
  BY ONLY <1>16, <1>17, Unlinks
<1>19. PICK H : H = grp' /\ H = [grp EXCEPT ![g].list = L]
  BY <1>3, <1>16 DEF FlagWake
<1>20. Regrouped(grp, g, f, L, H)
  <2>1. grp = [h \in Group |-> grp[h]] /\ grp[g] = [type |-> grp[g].type, flags |-> grp[g].flags, list |-> grp[g].list]
    BY <1>2, <1>3 DEF FlagCalls
  <2>2. [grp EXCEPT ![g].list = L] = [grp EXCEPT ![g].flags = f, ![g].list = L]
    BY ONLY <1>3, <1>16, <2>1
  <2>3. H = [grp EXCEPT ![g].flags = f, ![g].list = L]
    BY ONLY <1>19, <2>2
  <2> QED
    BY ONLY <1>2, <1>3, <2>3, Regroups
<1>21. FlagCalls(pc, H, gfree)
  BY ONLY <1>2, <1>3, <1>17, <1>18, <1>20, CallsRegroup
<1>22. Left(os, pc, grp, {t}, r, H)
  <2>1. \A h \in Group : IsInjective(H[h].list) /\ ToSet(H[h].list) = ToSet(grp[h].list) \ {t} /\ H[h].flags = grp[h].flags
    <3>1. \A h \in Group : IsInjective(grp[h].list) /\ (h # g => t \notin ToSet(grp[h].list))
      BY <1>2, <1>3 DEF FlagLists
    <3>2. H[g].list = L /\ H[g].flags = grp[g].flags
      BY ONLY <1>16, <1>20 DEF Regrouped
    <3> QED
      BY ONLY <1>16, <1>18, <1>20, <3>1, <3>2 DEF Regrouped
  <2>2. \A u \in Task : OnFlags(os, u) => pc[u].ev \in Group
    BY <1>2 DEF FlagPc
  <2> QED
    BY ONLY <1>2, <1>13, <1>15, <2>1, <2>2 DEF Left
<1>23. FlagPc(r, pc) /\ FlagLists(r, pc, H)
  BY ONLY <1>22, FlagsLeave
<1>24. PICK s : s = pc' /\ s = [pc EXCEPT ![t] = InApp]
  BY DEF FlagWake, Return
<1>25. s = [u \in Task |-> s[u]] /\ s[t] = InApp /\ \A u \in Task : u # t => s[u] = pc[u]
  BY ONLY <1>2, <1>4, <1>24
<1>26. Formed(s[t]) /\ s[t].at = "app"
  BY <1>25 DEF Formed, InApp
<1>27. ~ OnFlags(r, t)
  BY <1>2, <1>15
<1>28. Moved(r, pc, s)
  BY <1>1, <1>2, <1>4, <1>13, <1>25, <1>26, <1>27 DEF Moved
<1>29. Followed(r, r)
  BY DEF Followed
<1>30. FlagPc(r, s) /\ FlagCalls(s, H, gfree) /\ FlagLists(r, s, H)
  BY ONLY <1>21, <1>23, <1>28, <1>29, FlagsMove
<1>31. FlagGiven(r, s, rdy)
  <2>1. \A u \in Task : Blk(s, u) /\ ~ OnFlags(r, u) => s[u] = pc[u] /\ ~ OnFlags(os, u) /\ Blk(pc, u)
    BY <1>15, <1>25, <1>26 DEF Blk
  <2> QED
    BY <1>2, <1>13, <2>1 DEF FlagGiven
<1>32. FlagCpu(r, s)
  BY <1>1, <1>2, <1>5, <1>7, <1>9, <1>10, <1>13, <1>14, <1>26 DEF FlagCpu
<1> QED
  BY <1>1, <1>10, <1>13, <1>19, <1>24, <1>30, <1>31, <1>32 DEF FlagState

LEMMA FlagWakes ==
  ASSUME NEW t, FlagState(os, pc, grp, gfree, rdy), FlagWake(t)
  PROVE  FlagState(os', pc', grp', gfree', rdy')
<1>1. CASE os.tcb[t].pend # "ok"
  BY <1>1, FlagTimesOut
<1>2. CASE os.tcb[t].pend = "ok"
  <2>1. t = os.cur /\ pc[t].at = "wake" /\ os' = os /\ gfree' = gfree /\ rdy' = rdy
    BY <1>2 DEF FlagWake, Wakes, At
  <2>2. FlagPc(os, pc) /\ FlagGiven(os, pc, rdy) /\ FlagCpu(os, pc) /\ FlagKernel(os) /\ t \in Task /\ t \in os.list
    BY <2>1 DEF FlagState, FlagKernel
  <2>3. PICK g : g = pc[t].ev /\ g \in Group
    BY <2>1, <2>2 DEF FlagPc, Blk
  <2>4. ~ OnFlags(os, t)
    <3>1. os.prioCur \in os.rdy /\ os.tcb[t].prio = os.prioCur /\ ReadyAt(os, t)
      BY <2>1, <2>2 DEF FlagCpu, FlagKernel
    <3> QED
      BY ONLY <1>2, <3>1 DEF ReadyAt, OnFlags
  <2>5. PICK H, r : H = grp' /\ (H = grp \/ H = [grp EXCEPT ![g].flags = Consume(grp[g].flags, pc[t].n, r)])
    BY <1>2, <2>3 DEF FlagWake
  <2>6. PICK s : s = pc' /\ s = [pc EXCEPT ![t] = InApp]
    BY DEF FlagWake, Return
  <2>7. PICK R : R = rdy /\ R = [u \in Task |-> R[u]] /\ \A u \in Task : u # t => R[u] = rdy[u]
    BY <2>2 DEF FlagGiven
  <2>8. pc[t].at \in {"flagaccept", "flagpend", "wake"}
    BY <2>1
  <2>9. Answering(t, g, r, H, s, R)
    BY ONLY FlagState(os, pc, grp, gfree, rdy), <2>1, <2>3, <2>4, <2>5, <2>6, <2>7, <2>8 DEF Answering
  <2>10. FlagState(os, s, H, gfree, R)
    BY ONLY <2>9, FlagAnswers
  <2> QED
    BY <2>1, <2>5, <2>6, <2>7, <2>10
<1> QED
  BY <1>1, <1>2
-----------------------------------------------------------------------------
\* The bits of a group change, and the tasks that now have what they wait for go on.
LEMMA FlagPosts ==
  ASSUME NEW g \in Group, NEW f, FlagState(os, pc, grp, gfree, rdy), grp[g].type = "flag", FlagPost(g, f),
         NEW r, r = OS_FlagTaskRdy(os, Meeters(g, f))
  PROVE  /\ FlagKernel(r) /\ r.app = os.app /\ r.list = os.list /\ r.cur = os.cur /\ r.prioCur = os.prioCur
         /\ r.lock = os.lock /\ os.rdy \subseteq r.rdy /\ r.tcb[os.cur].prio = os.tcb[os.cur].prio
         /\ FlagPc(r, pc) /\ FlagCalls(pc, grp', gfree') /\ FlagLists(r, pc, grp') /\ FlagGiven(r, pc, rdy') /\ gfree' = gfree
<1>1. /\ FlagPc(os, pc) /\ FlagCalls(pc, grp, gfree) /\ FlagLists(os, pc, grp) /\ FlagGiven(os, pc, rdy)
      /\ FlagKernel(os) /\ os.cur \in Task /\ os.list \subseteq Task
  BY DEF FlagState, FlagKernel
<1>2. PICK l, X : l = grp[g].list /\ X = Meeters(g, f) /\ X = {u \in ToSet(l) : Met(f, pc[u].n)}
  BY DEF Meeters
<1>3. /\ ToSet(l) \subseteq Task /\ l \in Seq(Task) /\ IsInjective(l)
      /\ \A u \in ToSet(l) : /\ u \in os.list /\ u # Idle /\ OnFlags(os, u) /\ pc[u].ev = g /\ Blk(pc, u)
  BY ONLY <1>1, <1>2, g \in Group, OnList
<1>4. X \subseteq os.list /\ Idle \notin X /\ X \subseteq ToSet(l)
  BY <1>2, <1>3
<1>5. /\ FlagKernel(r) /\ r.app = os.app /\ r.list = os.list /\ r.cur = os.cur /\ r.prioCur = os.prioCur /\ r.lock = os.lock
      /\ \A u \in Task : /\ r.tcb[u].prio = os.tcb[u].prio /\ (u \notin X => r.tcb[u] = os.tcb[u])
                         /\ OnFlags(r, u) <=> OnFlags(os, u) /\ u \notin X
      /\ os.rdy \subseteq r.rdy
  <2>1. r = OS_FlagTaskRdy(os, X)
    BY ONLY <1>2, r = OS_FlagTaskRdy(os, Meeters(g, f))
  <2> QED
    BY ONLY <1>1, <1>4, <2>1, FlagReadies
<1>6. PICK L, H : L = OS_FlagUnlink(l, X) /\ H = grp' /\ H = [grp EXCEPT ![g].flags = f, ![g].list = L]
  BY <1>2 DEF FlagPost
<1>7. L \in Seq(Task) /\ IsInjective(L) /\ ToSet(L) = ToSet(l) \ X
  BY ONLY <1>3, <1>6, Unlinks
<1>8. Regrouped(grp, g, f, L, H)
  BY ONLY <1>1, <1>6, g \in Group, Regroups
<1>9. FlagCalls(pc, H, gfree)
  BY ONLY <1>1, <1>7, <1>8, g \in Group, grp[g].type = "flag", CallsRegroup
<1>10. Left(os, pc, grp, X, r, H)
  <2>1. H[g].list = L /\ H[g].flags = f /\ \A h \in Group : h # g => H[h] = grp[h]
    BY ONLY <1>8 DEF Regrouped
  <2>2. \A h \in Group : IsInjective(H[h].list) /\ ToSet(H[h].list) = ToSet(grp[h].list) \ X
    <3>1. \A h \in Group : IsInjective(grp[h].list) /\ \A u \in ToSet(grp[h].list) : u \in Task => pc[u].ev = h
      BY <1>1 DEF FlagLists
    <3>2. \A h \in Group : h # g => ToSet(grp[h].list) \cap X = {}
      BY ONLY <1>3, <1>4, <3>1
    <3> QED
      BY ONLY <1>2, <1>7, <2>1, <3>1, <3>2
  <2>3. \A u \in Task : u \notin X /\ OnFlags(os, u) /\ Met(H[pc[u].ev].flags, pc[u].n) => Met(grp[pc[u].ev].flags, pc[u].n)
    <3>1. \A u \in Task : OnFlags(os, u) => pc[u].ev \in Group /\ (pc[u].ev = g => u \in ToSet(l))
      BY <1>1, <1>2 DEF FlagPc, FlagLists
    <3> QED
      BY ONLY <1>2, <2>1, <3>1
  <2>4. \A u \in Task : u \notin X /\ os.tcb[u].pend = "to" => r.tcb[u].pend = "to"
    BY ONLY <1>5
  <2> QED
    BY ONLY <1>1, <1>5, <2>2, <2>3, <2>4 DEF Left
<1>11. FlagPc(r, pc) /\ FlagLists(r, pc, H)
  BY ONLY <1>10, FlagsLeave
<1>12. PICK R : R = rdy' /\ R = [t \in Task |-> IF t \in X THEN FlagsRdy(f, pc[t].n) ELSE rdy[t]]
  BY <1>2 DEF FlagPost
<1>13. FlagGiven(r, pc, R)
  <2>1. R = [t \in Task |-> R[t]]
    BY ONLY <1>12
  <2>2. ASSUME NEW t \in Task, Blk(pc, t), ~ OnFlags(r, t) PROVE Enough(r.app, pc[t].n, R[t])
    <3>1. CASE t \in X
      <4>1. Met(f, pc[t].n) /\ R[t] = FlagsRdy(f, pc[t].n)
        BY ONLY <1>2, <1>12, <3>1, <2>2
      <4>2. FlagsRdy(f, pc[t].n) \subseteq pc[t].n.want
        BY DEF FlagsRdy
      <4> QED
        BY ONLY <4>1, <4>2 DEF Met, Enough
    <3>2. CASE t \notin X
      <4>1. R[t] = rdy[t] /\ ~ OnFlags(os, t)
        BY ONLY <1>5, <1>12, <2>2, <3>2
      <4>2. Enough(os.app, pc[t].n, rdy[t])
        BY <1>1, <2>2, <4>1 DEF FlagGiven
      <4> QED
        BY ONLY <1>5, <4>1, <4>2
    <3> QED
      BY <3>1, <3>2
  <2> QED
    BY ONLY <2>1, <2>2 DEF FlagGiven
<1>14. gfree' = gfree
  BY DEF FlagPost
<1> QED
  BY ONLY <1>1, <1>5, <1>6, <1>9, <1>11, <1>12, <1>13, <1>14
-----------------------------------------------------------------------------
\* A call is over but for the look at the scheduler.
Returning(r, p, H, F, R, t, s) ==
  /\ FlagKernel(r) /\ FlagPc(r, p) /\ FlagCalls(p, H, F) /\ FlagLists(r, p, H) /\ FlagGiven(r, p, R)
  /\ t = r.cur /\ r.tcb[t].prio = r.prioCur /\ p[t].at \in InFlag /\ (r.lock = 0 => r.prioCur \in r.rdy)
  /\ s = [p EXCEPT ![t].at = "sched"] \/ s = [p EXCEPT ![t] = InApp]
LEMMA FlagReturns ==
  ASSUME NEW r, NEW p, NEW H, NEW F, NEW R, NEW t, NEW s, Returning(r, p, H, F, R, t, s)
  PROVE  FlagState(r, s, H, F, R)
<1>1. /\ FlagKernel(r) /\ FlagPc(r, p) /\ FlagCalls(p, H, F) /\ FlagLists(r, p, H) /\ FlagGiven(r, p, R)
      /\ t = r.cur /\ r.tcb[t].prio = r.prioCur /\ p[t].at \in InFlag /\ (r.lock = 0 => r.prioCur \in r.rdy)
  BY DEF Returning
<1>2. t \in Task /\ t \in r.list /\ p = [u \in Task |-> p[u]] /\ Formed(p[t]) /\ t # Idle
  BY <1>1 DEF FlagKernel, FlagPc, Formed, InFlag
<1>3. PICK c, d : c = p[t] /\ d = s[t] /\ Formed(c) /\ (d = [c EXCEPT !.at = "sched"] \/ d = InApp)
  BY <1>2 DEF Returning
<1>4. Formed(d) /\ d.at \in {"app", "sched"}
  <2>1. CASE d = InApp
    BY ONLY <2>1 DEF InApp, Formed
  <2>2. CASE d = [c EXCEPT !.at = "sched"]
    BY ONLY <1>3, <2>2 DEF Formed
  <2> QED
    BY ONLY <1>3, <2>1, <2>2
<1>5. s = [u \in Task |-> s[u]] /\ \A u \in Task : u # t => s[u] = p[u]
  BY <1>2 DEF Returning
<1>6. Moved(r, p, s)
  BY ONLY <1>1, <1>2, <1>3, <1>4, <1>5 DEF Moved
<1>7. Followed(r, r)
  BY DEF Followed
<1>8. FlagPc(r, s) /\ FlagCalls(s, H, F) /\ FlagLists(r, s, H) /\ FlagGiven(r, s, R)
  BY ONLY <1>1, <1>6, <1>7, FlagsFollow
<1>9. FlagCpu(r, s)
  BY ONLY <1>1, <1>3, <1>4 DEF FlagCpu
<1> QED
  BY ONLY <1>1, <1>8, <1>9 DEF FlagState

\* The state a call finds that has passed its checks.
LEMMA FlagCallee ==
  ASSUME NEW t, t = os.cur, pc[t].at \in InFlag, FlagState(os, pc, grp, gfree, rdy)
  PROVE  /\ pc[t].ev \in Group /\ grp[pc[t].ev].type = "flag" /\ os.tcb[t].prio = os.prioCur /\ t \in Task /\ t \in os.list
         /\ os.lock = 0 => os.prioCur \in os.rdy
<1>1. FlagKernel(os) /\ FlagCpu(os, pc) /\ FlagPc(os, pc) /\ FlagCalls(pc, grp, gfree)
  BY DEF FlagState
<1>2. t \in Task /\ t \in os.list
  BY <1>1 DEF FlagKernel
<1>3. pc[t].at \notin {"sched", "block"}
  BY DEF InFlag
<1> QED
  BY <1>1, <1>2, <1>3 DEF FlagCpu, FlagPc, FlagCalls

LEMMA FlagTaskPosts ==
  ASSUME NEW t, FlagState(os, pc, grp, gfree, rdy), OSFlagPost(t)
  PROVE  FlagState(os', pc', grp', gfree', rdy')
<1>1. t = os.cur /\ pc[t].at = "flagpost" /\ pc[t].at \in InFlag
  BY DEF OSFlagPost, At, InFlag
<1>2. /\ pc[t].ev \in Group /\ grp[pc[t].ev].type = "flag" /\ os.tcb[t].prio = os.prioCur
      /\ os.lock = 0 => os.prioCur \in os.rdy
  BY ONLY <1>1, FlagState(os, pc, grp, gfree, rdy), FlagCallee
<1>3. PICK g, f, r : /\ g = pc[t].ev /\ f = NewFlags(g, pc[t].n.want, pc[t].n.set)
                     /\ r = OS_FlagTaskRdy(os, Meeters(g, f)) /\ r = os' /\ FlagPost(g, f)
  BY DEF OSFlagPost
<1>4. g \in Group /\ grp[g].type = "flag"
  BY <1>2, <1>3
<1>5. /\ FlagKernel(r) /\ r.app = os.app /\ r.list = os.list /\ r.cur = os.cur /\ r.prioCur = os.prioCur
      /\ r.lock = os.lock /\ os.rdy \subseteq r.rdy /\ r.tcb[os.cur].prio = os.tcb[os.cur].prio
      /\ FlagPc(r, pc) /\ FlagCalls(pc, grp', gfree') /\ FlagLists(r, pc, grp') /\ FlagGiven(r, pc, rdy') /\ gfree' = gfree
  BY ONLY FlagState(os, pc, grp, gfree, rdy), <1>3, <1>4, FlagPosts
<1>6. PICK s : s = pc' /\ (s = [pc EXCEPT ![t].at = "sched"] \/ s = [pc EXCEPT ![t] = InApp])
  BY DEF OSFlagPost, Goto, Return
<1>7. PICK H, F, R : H = grp' /\ F = gfree' /\ R = rdy'
  OBVIOUS
<1>8. Returning(r, pc, H, F, R, t, s)
  BY ONLY <1>1, <1>2, <1>5, <1>6, <1>7 DEF Returning
<1>9. FlagState(r, s, H, F, R)
  BY ONLY <1>8, FlagReturns
<1> QED
  BY <1>3, <1>6, <1>7, <1>9

LEMMA FlagIsrPosts ==
  ASSUME NEW g \in Group, NEW b, NEW set, FlagState(os, pc, grp, gfree, rdy), IsrFlagPost(g, b, set)
  PROVE  FlagState(os', pc', grp', gfree', rdy')
<1>1. PICK f, k, r : /\ f = NewFlags(g, b, set) /\ k = OS_FlagTaskRdy(os, Meeters(g, f)) /\ r = os' /\ r = OS_Sched(k)
                     /\ FlagPost(g, f) /\ pc' = pc /\ grp[g].type = "flag"
  BY DEF IsrFlagPost, InInterrupt, OSIntExit
<1>2. /\ FlagKernel(k) /\ k.app = os.app /\ k.list = os.list /\ k.cur = os.cur /\ k.prioCur = os.prioCur
      /\ k.lock = os.lock /\ os.rdy \subseteq k.rdy /\ k.tcb[os.cur].prio = os.tcb[os.cur].prio
      /\ FlagPc(k, pc) /\ FlagCalls(pc, grp', gfree') /\ FlagLists(k, pc, grp') /\ FlagGiven(k, pc, rdy') /\ gfree' = gfree
  BY ONLY FlagState(os, pc, grp, gfree, rdy), <1>1, FlagPosts
<1>3. k.tcb[k.cur].prio = k.prioCur /\ (pc[k.cur].at \in {"flagpend", "block", "wake"} => k.lock = 0)
  BY <1>2 DEF FlagState, FlagCpu
<1>4. PICK p, H, F, R : p = pc /\ H = grp' /\ F = gfree' /\ R = rdy'
  OBVIOUS
<1>5. FlagKernel(k) /\ FlagPc(k, p) /\ FlagCalls(p, H, F) /\ FlagLists(k, p, H) /\ FlagGiven(k, p, R)
  BY ONLY <1>2, <1>4
<1>6. k.tcb[k.cur].prio = k.prioCur /\ (p[k.cur].at \in {"flagpend", "block", "wake"} => k.lock = 0)
  BY ONLY <1>3, <1>4
<1>7. r = OS_Sched(k)
  BY <1>1
<1>8. FlagState(r, p, H, F, R)
  BY ONLY <1>5, <1>6, <1>7, FlagSchedStep
<1> QED
  BY ONLY <1>1, <1>4, <1>8
-----------------------------------------------------------------------------
\* A group that tasks wait for goes back to the free ones, and they go on.
LEMMA FlagDeletes ==
  ASSUME NEW t, FlagState(os, pc, grp, gfree, rdy), OSFlagDel(t)
  PROVE  FlagState(os', pc', grp', gfree', rdy')
<1>1. t = os.cur /\ pc[t].at = "flagdel" /\ pc[t].at \in InFlag
  BY DEF OSFlagDel, At, InFlag
<1>2. /\ pc[t].ev \in Group /\ grp[pc[t].ev].type = "flag" /\ os.tcb[t].prio = os.prioCur /\ t \in Task /\ t \in os.list
      /\ os.lock = 0 => os.prioCur \in os.rdy
  BY ONLY <1>1, FlagState(os, pc, grp, gfree, rdy), FlagCallee
<1>3. /\ FlagKernel(os) /\ FlagPc(os, pc) /\ FlagCalls(pc, grp, gfree) /\ FlagLists(os, pc, grp) /\ FlagGiven(os, pc, rdy)
      /\ pc = [u \in Task |-> pc[u]] /\ os.list \subseteq Task
  BY DEF FlagState, FlagPc, FlagKernel
<1>4. PICK s : s = pc' /\ (s = [pc EXCEPT ![t].at = "sched"] \/ s = [pc EXCEPT ![t] = InApp])
  BY DEF OSFlagDel, Goto, Return
<1>5. Returning(os, pc, grp, gfree, rdy, t, s)
  BY ONLY <1>1, <1>2, <1>3, <1>4 DEF Returning
<1>6. FlagState(os, s, grp, gfree, rdy)
  BY ONLY <1>5, FlagReturns
<1>7. PICK g, l, X : g = pc[t].ev /\ l = grp[g].list /\ X = ToSet(l)
  OBVIOUS
<1>8. CASE pc[t].n = 0 /\ X # {}
  <2>1. os' = os /\ grp' = grp /\ gfree' = gfree /\ rdy' = rdy
    BY <1>7, <1>8 DEF OSFlagDel, flagvars
  <2> QED
    BY <1>4, <1>6, <2>1
<1>9. CASE ~ (pc[t].n = 0 /\ X # {})
  <2>1. /\ os' = OS_FlagTaskRdy(os, X) /\ rdy' = [u \in Task |-> IF u \in X THEN {} ELSE rdy[u]]
        /\ grp' = [grp EXCEPT ![g] = FreeGrp] /\ gfree' = <<g>> \o gfree
    BY <1>7, <1>9 DEF OSFlagDel
  <2>2. PICK r, R, H, F : /\ r = os' /\ R = rdy' /\ H = grp' /\ F = gfree'
    OBVIOUS
  <2>3. /\ r = OS_FlagTaskRdy(os, X) /\ R = [u \in Task |-> IF u \in X THEN {} ELSE rdy[u]]
        /\ H = [grp EXCEPT ![g] = FreeGrp] /\ F = <<g>> \o gfree
    BY ONLY <2>1, <2>2
  <2>4. /\ FlagPc(os, s) /\ FlagCalls(s, grp, gfree) /\ FlagLists(os, s, grp) /\ FlagGiven(os, s, rdy) /\ FlagCpu(os, s)
        /\ g \in Group /\ grp[g].type = "flag"
    BY <1>2, <1>6, <1>7 DEF FlagState
  <2>5. \A u \in X : u \in os.list /\ u # Idle /\ u \in Task /\ s[u].ev = g
    BY ONLY <1>3, <1>7, <2>4, OnList
  <2>6. /\ FlagKernel(r) /\ r.app = os.app /\ r.list = os.list /\ r.cur = os.cur /\ r.prioCur = os.prioCur /\ r.lock = os.lock
        /\ \A u \in Task : /\ r.tcb[u].prio = os.tcb[u].prio /\ (u \notin X => r.tcb[u] = os.tcb[u])
                           /\ OnFlags(r, u) <=> OnFlags(os, u) /\ u \notin X
        /\ os.rdy \subseteq r.rdy
    <3>1. X \subseteq os.list /\ Idle \notin X
      BY <2>5
    <3> QED
      BY ONLY <1>3, <2>3, <3>1, FlagReadies
  <2>7. /\ H = [h \in Group |-> H[h]] /\ (\A h \in Group : h # g => H[h] = grp[h])
        /\ H[g] = [type |-> "unused", flags |-> {}, list |-> <<>>]
    <3>1. grp = [h \in Group |-> grp[h]]
      BY <1>3 DEF FlagCalls
    <3> QED
      BY ONLY <2>3, <2>4, <3>1 DEF FreeGrp
  <2>8. H[g].type = "unused" /\ H[g].list = <<>> /\ ToSet(<<>>) = {} /\ IsInjective(<<>>)
    BY ONLY <2>7 DEF ToSet, IsInjective
  <2>9. Left(os, s, grp, X, r, H)
    <3>1. \A h \in Group : IsInjective(grp[h].list) /\ \A u \in ToSet(grp[h].list) : u \in Task => s[u].ev = h
      BY <2>4 DEF FlagLists
    <3>2. \A h \in Group : IsInjective(H[h].list) /\ ToSet(H[h].list) = ToSet(grp[h].list) \ X
      <4>1. \A h \in Group : h # g => ToSet(grp[h].list) \cap X = {}
        BY ONLY <2>5, <3>1
      <4> QED
        BY ONLY <1>7, <2>7, <2>8, <3>1, <4>1
    <3>3. \A u \in Task : OnFlags(os, u) => s[u].ev \in Group /\ (s[u].ev = g => u \in X)
      BY <1>7, <2>4 DEF FlagPc, FlagLists
    <3>4. \A u \in Task : u \notin X /\ OnFlags(os, u) /\ Met(H[s[u].ev].flags, s[u].n) => Met(grp[s[u].ev].flags, s[u].n)
      BY ONLY <2>7, <3>3
    <3>5. \A u \in Task : u \notin X /\ os.tcb[u].pend = "to" => r.tcb[u].pend = "to"
      BY ONLY <2>6
    <3> QED
      BY ONLY <2>4, <2>6, <3>2, <3>4, <3>5 DEF Left
  <2>10. FlagPc(r, s) /\ FlagLists(r, s, H)
    BY ONLY <2>9, FlagsLeave
  <2>11. s[t].at \in {"app", "sched"} /\ \A u \in Task : u # t => s[u] = pc[u]
    <3>1. Formed(pc[t])
      BY <1>2, <1>3 DEF FlagPc, Formed
    <3>2. (\A u \in Task : u # t => s[u] = pc[u]) /\ (s[t] = [pc[t] EXCEPT !.at = "sched"] \/ s[t] = InApp)
      BY ONLY <1>2, <1>3, <1>4
    <3>3. CASE s[t] = InApp
      BY ONLY <3>2, <3>3 DEF InApp
    <3>4. CASE s[t] = [pc[t] EXCEPT !.at = "sched"]
      BY ONLY <3>1, <3>2, <3>4 DEF Formed
    <3> QED
      BY ONLY <3>2, <3>3, <3>4
  <2>12. FlagCalls(s, H, F)
    <3>1. gfree \in Seq(Group) /\ IsInjective(gfree) /\ g \notin ToSet(gfree) /\ \A h \in ToSet(gfree) : h \in Group /\ grp[h].type # "flag"
      <4>1. gfree \in Seq(Group) /\ IsInjective(gfree) /\ \A h \in ToSet(gfree) : grp[h].type # "flag"
        BY <1>3 DEF FlagCalls
      <4>2. ToSet(gfree) \subseteq Group
        BY ONLY <4>1 DEF ToSet
      <4> QED
        BY ONLY <2>4, <4>1, <4>2
    <3>2. F \in Seq(Group) /\ IsInjective(F) /\ ToSet(F) = ToSet(gfree) \cup {g}
      <4>1. Pushed(Group, gfree, g, F)
        BY ONLY <2>3, <2>4, <3>1, Push
      <4> QED
        BY ONLY <3>1, <4>1 DEF Pushed
    <3>3. \A h \in ToSet(F) : H[h].type # "flag"
      BY ONLY <2>7, <2>8, <3>1, <3>2
    <3>4. \A h \in Group : /\ H[h] = [type |-> H[h].type, flags |-> H[h].flags, list |-> H[h].list]
                           /\ H[h].list \in Seq(Task)
                           /\ H[h].type # "flag" => H[h].list = <<>>
      <4>1. \A h \in Group : /\ grp[h] = [type |-> grp[h].type, flags |-> grp[h].flags, list |-> grp[h].list]
                             /\ grp[h].list \in Seq(Task)
                             /\ grp[h].type # "flag" => grp[h].list = <<>>
        BY <1>3 DEF FlagCalls
      <4>2. H[g] = [type |-> H[g].type, flags |-> H[g].flags, list |-> H[g].list] /\ H[g].list \in Seq(Task)
        <5>1. H[g] = [type |-> H[g].type, flags |-> H[g].flags, list |-> H[g].list]
          BY ONLY <2>7
        <5>2. <<>> \in Seq(Task)
          OBVIOUS
        <5> QED
          BY ONLY <2>8, <5>1, <5>2
      <4> QED
        BY ONLY <2>7, <2>8, <4>1, <4>2
    <3>5. ASSUME NEW u \in Task, s[u].at \in InFlag PROVE u # t /\ s[u] = pc[u] /\ pc[u].ev \in Group /\ pc[u].ev # g
      <4>1. u # t /\ s[u] = pc[u]
        BY <2>11, <3>5 DEF InFlag
      <4>2. pc[u].ev \in Group
        BY <1>3, <3>5, <4>1 DEF FlagPc
      <4>3. pc[u].ev # g
        BY <1>1, <1>2, <1>3, <1>7, <3>5, <4>1 DEF FlagCalls
      <4> QED
        BY <4>1, <4>2, <4>3
    <3>6. \A u \in Task : s[u].at \in InFlag => H[s[u].ev].type = "flag"
      <4>1. \A u \in Task : pc[u].at \in InFlag => grp[pc[u].ev].type = "flag"
        BY <1>3 DEF FlagCalls
      <4> QED
        BY ONLY <2>7, <3>5, <4>1
    <3>7. \A u, v \in Task : s[u].at = "flagdel" /\ s[v].at \in InFlag /\ s[v].ev = s[u].ev => u = v
      BY <2>4 DEF FlagCalls
    <3> QED
      BY ONLY <2>7, <3>2, <3>3, <3>4, <3>6, <3>7 DEF FlagCalls
  <2>13. FlagGiven(r, s, R)
    <3>1. R = [u \in Task |-> R[u]]
      BY ONLY <2>3
    <3>2. "flagdel" \in App[r.app].ops
      BY <1>1, <1>2, <1>3, <2>6 DEF FlagPc
    <3>3. ASSUME NEW u \in Task, Blk(s, u), ~ OnFlags(r, u) PROVE Enough(r.app, s[u].n, R[u])
      <4>1. CASE u \in X
        <5>1. R[u] = {}
          BY ONLY <2>3, <3>3, <4>1
        <5> QED
          BY ONLY <3>2, <5>1 DEF Enough
      <4>2. CASE u \notin X
        <5>1. R[u] = rdy[u] /\ ~ OnFlags(os, u)
          BY ONLY <2>3, <2>6, <3>3, <4>2
        <5>2. Enough(os.app, s[u].n, rdy[u])
          BY <2>4, <3>3, <5>1 DEF FlagGiven
        <5> QED
          BY ONLY <2>6, <5>1, <5>2
      <4> QED
        BY <4>1, <4>2
    <3> QED
      BY ONLY <3>1, <3>3 DEF FlagGiven
  <2>14. FlagCpu(r, s)
    BY ONLY <1>1, <1>2, <2>4, <2>6 DEF FlagCpu
  <2> QED
    BY ONLY <1>4, <2>2, <2>6, <2>10, <2>12, <2>13, <2>14 DEF FlagState
<1> QED
  BY <1>8, <1>9
-----------------------------------------------------------------------------
\* A group that nobody waits for comes from the free ones.
LEMMA FlagCreates ==
  ASSUME NEW t, FlagState(os, pc, grp, gfree, rdy), OSFlagCreate(t)
  PROVE  FlagState(os', pc', grp', gfree', rdy')
<1>1. FlagKernel(os) /\ FlagCpu(os, pc) /\ FlagPc(os, pc) /\ FlagCalls(pc, grp, gfree) /\ FlagLists(os, pc, grp) /\ FlagGiven(os, pc, rdy)
  BY DEF FlagState
<1>2. PICK g, F : g = Head(gfree) /\ F = gfree' /\ F = Tail(gfree) /\ gfree # <<>>
  BY DEF OSFlagCreate
<1>3. os' = os /\ pc' = pc /\ rdy' = rdy
  BY DEF OSFlagCreate
<1>4. gfree \in Seq(Group) /\ IsInjective(gfree) /\ \A h \in ToSet(gfree) : grp[h].type # "flag"
  BY <1>1 DEF FlagCalls
<1>5. F \in Seq(Group) /\ IsInjective(F) /\ g \in Group /\ g \in ToSet(gfree) /\ ToSet(F) = ToSet(gfree) \ {g}
  <2>1. Popped(Group, gfree, F)
    BY ONLY <1>2, <1>4, Pop
  <2> QED
    BY ONLY <1>2, <2>1 DEF Popped
<1>6. PICK f, H : H = grp' /\ H = [grp EXCEPT ![g] = [FreeGrp EXCEPT !.type = "flag", !.flags = f]]
  BY <1>2 DEF OSFlagCreate
<1>7. grp[g].type # "flag" /\ grp[g].list = <<>>
  BY <1>1, <1>4, <1>5 DEF FlagCalls
<1>8. /\ H = [h \in Group |-> H[h]] /\ (\A h \in Group : h # g => H[h] = grp[h])
      /\ H[g] = [type |-> "flag", flags |-> f, list |-> <<>>]
  <2>1. [FreeGrp EXCEPT !.type = "flag", !.flags = f] = [type |-> "flag", flags |-> f, list |-> <<>>]
    <3>1. PICK a, b, x, y, z, v : /\ a = FreeGrp /\ a = [type |-> x, flags |-> y, list |-> z] /\ z = <<>> /\ v = "flag"
                                  /\ b = [a EXCEPT !.type = v, !.flags = f]
      BY DEF FreeGrp
    <3>2. a = [type |-> x, flags |-> y, list |-> z] /\ b = [a EXCEPT !.type = v, !.flags = f]
      BY <3>1
    <3>3. b.type = v /\ b.flags = f /\ b.list = z /\ b = [i \in {"type", "flags", "list"} |-> b[i]]
      BY ONLY <3>2
    <3>4. b = [type |-> v, flags |-> f, list |-> z]
      BY ONLY <3>3
    <3> QED
      BY ONLY <3>1, <3>4, Zenon
  <2>2. grp = [h \in Group |-> grp[h]]
    BY <1>1 DEF FlagCalls
  <2> QED
    BY ONLY <1>5, <1>6, <2>1, <2>2
<1>9. H[g].type = "flag" /\ H[g].list = <<>> /\ \A h \in Group : H[h].list = grp[h].list
  BY ONLY <1>7, <1>8
<1>10. \A u \in Task : OnFlags(os, u) => pc[u].ev # g
  <2>1. ToSet(grp[g].list) = {}
    BY ONLY <1>7 DEF ToSet
  <2> QED
    BY <1>1, <1>5, <2>1 DEF FlagLists
<1>11. FlagLists(os, pc, H)
  <2>1. ASSUME NEW h \in Group
        PROVE  /\ IsInjective(H[h].list)
               /\ \A u \in Task : /\ u \in ToSet(H[h].list) <=> OnFlags(os, u) /\ pc[u].ev = h
                                  /\ OnFlags(os, u) /\ pc[u].ev = h /\ Met(H[h].flags, pc[u].n) => os.tcb[u].pend = "to"
    <3>1. /\ IsInjective(grp[h].list)
          /\ \A u \in Task : /\ u \in ToSet(grp[h].list) <=> OnFlags(os, u) /\ pc[u].ev = h
                             /\ OnFlags(os, u) /\ pc[u].ev = h /\ Met(grp[h].flags, pc[u].n) => os.tcb[u].pend = "to"
      BY <1>1 DEF FlagLists
    <3> QED
      BY ONLY <1>8, <1>9, <1>10, <3>1
  <2> QED
    BY ONLY <2>1 DEF FlagLists
<1>12. FlagCalls(pc, H, F)
  <2>1. \A h \in Group : /\ H[h] = [type |-> H[h].type, flags |-> H[h].flags, list |-> H[h].list]
                         /\ H[h].list \in Seq(Task)
                         /\ H[h].type # "flag" => H[h].list = <<>>
    <3>1. \A h \in Group : /\ grp[h] = [type |-> grp[h].type, flags |-> grp[h].flags, list |-> grp[h].list]
                           /\ grp[h].list \in Seq(Task)
                           /\ grp[h].type # "flag" => grp[h].list = <<>>
      BY <1>1 DEF FlagCalls
    <3>2. H[g] = [type |-> H[g].type, flags |-> H[g].flags, list |-> H[g].list]
      BY ONLY <1>8
    <3> QED
      BY ONLY <1>8, <1>9, <3>1, <3>2
  <2>2. \A h \in ToSet(F) : H[h].type # "flag"
    <3>1. ToSet(gfree) \subseteq Group
      BY ONLY <1>4 DEF ToSet
    <3> QED
      BY ONLY <1>4, <1>5, <1>8, <3>1
  <2>3. \A u \in Task : pc[u].at \in InFlag => H[pc[u].ev].type = "flag"
    <3>1. \A u \in Task : pc[u].at \in InFlag => grp[pc[u].ev].type = "flag" /\ pc[u].ev \in Group
      BY <1>1 DEF FlagCalls, FlagPc
    <3> QED
      BY ONLY <1>8, <1>9, <3>1
  <2>4. \A u, v \in Task : pc[u].at = "flagdel" /\ pc[v].at \in InFlag /\ pc[v].ev = pc[u].ev => u = v
    BY <1>1 DEF FlagCalls
  <2> QED
    BY ONLY <1>5, <1>8, <2>1, <2>2, <2>3, <2>4 DEF FlagCalls
<1>13. FlagState(os, pc, H, F, rdy)
  BY ONLY <1>1, <1>11, <1>12 DEF FlagState
<1> QED
  BY ONLY <1>2, <1>3, <1>6, <1>13
-----------------------------------------------------------------------------
\* The other services are not called.
LEMMA FlagsOnly ==
  ASSUME FlagState(os, pc, grp, gfree, rdy)
  PROVE  ~ SemNext /\ ~ MboxNext /\ ~ MultiNext /\ ~ QNext /\ ~ MutexNext
<1>1. PICK t : t = os.cur
  OBVIOUS
<1>2. /\ pc[t].at \in {"flagaccept", "flagpend", "flagpost", "flagdel", "app", "sched", "block", "wake"}
      /\ pc[t].at = "wake" => pc[t].svc = "flag"
  BY <1>1 DEF FlagState, FlagKernel, FlagPc, InFlag, Blk
<1>3. Ops \subseteq {"flagpend", "flagpost", "flagaccept", "flagdel", "isrflagpost", "dly", "dlyresume", "suspend", "resume", "lock"}
  BY DEF FlagState, FlagKernel, Signalling, Ops, FlagOps
<1>4. \A op : op \notin Ops => ~ Calls(t, op)
  BY DEF Calls
<1>5. \A op, type, e, n : op \notin Ops => ~ Enter(t, op, type, e, n) /\ ~ Blocks(t, op, type, e, n)
  BY ONLY <1>4 DEF Enter, Blocks
<1>6. ~ SemNext
  <2>1. \A e : ~ SemCall(t, e) /\ ~ IsrPost(e)
    BY ONLY <1>3, <1>5 DEF SemCall, IsrPost
  <2>2. ~ OSSemAccept(t) /\ ~ OSSemPend(t) /\ ~ SemWake(t) /\ ~ OSSemPost(t) /\ ~ OSSemPendAbort(t) /\ ~ OSSemSet(t) /\ ~ OSSemDel(t)
    BY ONLY <1>2 DEF OSSemAccept, OSSemPend, SemWake, OSSemPost, OSSemPendAbort, OSSemSet, OSSemDel, Wakes, At
  <2>3. ~ OSSemCreate(t, Cnt0)
    BY ONLY <1>3, <1>4 DEF OSSemCreate
  <2> QED
    BY ONLY <1>1, <2>1, <2>2, <2>3 DEF SemNext, SemStep
<1>7. ~ MboxNext
  <2>1. \A e : ~ MboxCall(t, e) /\ \A m : ~ IsrMboxPost(e, m)
    BY ONLY <1>3, <1>5 DEF MboxCall, IsrMboxPost
  <2>2. /\ ~ OSMboxAccept(t) /\ ~ OSMboxPend(t) /\ ~ MboxWake(t) /\ ~ OSMboxPost(t) /\ ~ OSMboxPostOpt(t)
        /\ ~ OSMboxPendAbort(t) /\ ~ OSMboxDel(t)
    BY ONLY <1>2 DEF OSMboxAccept, OSMboxPend, MboxWake, OSMboxPost, OSMboxPostOpt, OSMboxPendAbort, OSMboxDel, Wakes, At
  <2>3. ~ OSMboxCreate(t)
    BY ONLY <1>3, <1>4 DEF OSMboxCreate
  <2> QED
    BY ONLY <1>1, <2>1, <2>2, <2>3 DEF MboxNext, MboxStep
<1>8. ~ MultiNext
  <2>1. \A n : ~ EnterMulti(t, n)
    BY ONLY <1>3, <1>4 DEF EnterMulti
  <2>2. ~ OSEventPendMulti(t) /\ ~ MultiSched(t) /\ ~ MultiWake(t)
    BY ONLY <1>2 DEF OSEventPendMulti, MultiSched, MultiWake, At
  <2> QED
    BY ONLY <1>1, <2>1, <2>2 DEF MultiNext
<1>9. ~ QNext
  <2>1. \A e : ~ QCall(t, e) /\ \A m : ~ IsrQPost(e, m)
    BY ONLY <1>3, <1>5 DEF QCall, IsrQPost
  <2>2. /\ ~ OSQAccept(t) /\ ~ OSQPend(t) /\ ~ QWake(t) /\ ~ OSQPost(t) /\ ~ OSQPostOpt(t)
        /\ ~ OSQPendAbort(t) /\ ~ OSQFlush(t) /\ ~ OSQDel(t) /\ ~ TakeQcb(t)
    BY ONLY <1>2 DEF OSQAccept, OSQPend, QWake, OSQPost, OSQPostOpt, OSQPendAbort, OSQFlush, OSQDel, TakeQcb, Wakes, At
  <2>3. ~ OSQCreate(t)
    BY ONLY <1>3, <1>4 DEF OSQCreate
  <2> QED
    BY ONLY <1>1, <2>1, <2>2, <2>3 DEF QNext, QStep
<1>10. ~ MutexNext
  <2>1. \A e : ~ MutexCall(t, e)
    BY ONLY <1>3, <1>5 DEF MutexCall
  <2>2. ~ OSMutexAccept(t) /\ ~ OSMutexPend(t) /\ ~ MutexWake(t) /\ ~ OSMutexPost(t) /\ ~ OSMutexDel(t)
    BY ONLY <1>2 DEF OSMutexAccept, OSMutexPend, MutexWake, OSMutexPost, OSMutexDel, Wakes, At
  <2>3. ~ OSMutexCreate(t)
    BY ONLY <1>3, <1>4 DEF OSMutexCreate
  <2> QED
    BY ONLY <1>1, <2>1, <2>2, <2>3 DEF MutexNext, MutexStep
<1> QED
  BY ONLY <1>6, <1>7, <1>8, <1>9, <1>10

\* A step of a task, or the tick, apart from the flags.
LEMMA FlagTasks ==
  ASSUME FlagState(os, pc, grp, gfree, rdy), Tick \/ \E t \in {os.cur} : TaskStep(t)
  PROVE  FlagState(os', pc', grp, gfree, rdy)
<1>1. CASE Tick
  BY ONLY <1>1, FlagState(os, pc, grp, gfree, rdy), FlagTick
<1>2. CASE \E t \in {os.cur} : TaskStep(t)
  <2>1. PICK t : t = os.cur /\ TaskStep(t)
    BY <1>2
  <2>2. pc[t].at \in {"flagaccept", "flagpend", "flagpost", "flagdel", "app", "sched", "block", "wake"}
    BY <2>1 DEF FlagState, FlagKernel, FlagPc, InFlag
  <2>3. Ops \subseteq {"flagpend", "flagpost", "flagaccept", "flagdel", "isrflagpost", "dly", "dlyresume", "suspend", "resume", "lock"}
    BY DEF FlagState, FlagKernel, Signalling, Ops, FlagOps
  <2>4. ~ TakeTcb(t) /\ ~ GiveBack(t) /\ ~ OS_TCBInit(t) /\ ~ FreeTcb(t)
    BY ONLY <2>2 DEF TakeTcb, GiveBack, OS_TCBInit, FreeTcb, At
  <2>5. \A p, r : /\ ~ OSTaskDel(t, p) /\ ~ OSTaskDelReq(t, p) /\ ~ ReservePrio(t, p) /\ ~ OSTaskChangePrio(t, p, r)
    BY ONLY <2>3 DEF OSTaskDel, OSTaskDelReq, ReservePrio, OSTaskChangePrio, Calls
  <2>6. CASE Reschedule(t)
    BY ONLY <2>6, FlagState(os, pc, grp, gfree, rdy), FlagReschedule
  <2>7. CASE \E n \in 1 .. MaxDly : OSTimeDly(t, n)
    BY ONLY <2>7, FlagState(os, pc, grp, gfree, rdy), FlagDly
  <2>8. CASE \E p \in Prio : OSTimeDlyResume(t, p)
    BY ONLY <2>8, FlagState(os, pc, grp, gfree, rdy), FlagDlyResume
  <2>9. CASE \E p \in Prio : OSTaskSuspend(t, p)
    BY ONLY <2>9, FlagState(os, pc, grp, gfree, rdy), FlagSuspend
  <2>10. CASE \E p \in Prio : OSTaskResume(t, p)
    BY ONLY <2>10, FlagState(os, pc, grp, gfree, rdy), FlagResume
  <2>11. CASE OSSchedLock(t) \/ OSSchedUnlock(t)
    BY ONLY <2>11, FlagState(os, pc, grp, gfree, rdy), FlagLock
  <2> QED
    BY ONLY <2>1, <2>4, <2>5, <2>6, <2>7, <2>8, <2>9, <2>10, <2>11 DEF TaskStep
<1> QED
  BY <1>1, <1>2

\* A call on a group begins.
LEMMA FlagCalled ==
  ASSUME FlagState(os, pc, grp, gfree, rdy), NEW t, NEW g \in Group, FlagCall(t, g)
  PROVE  FlagState(os', pc', grp', gfree', rdy')
<1>1. \A u \in Task : pc[u].at # "flagdel"
  BY DEF FlagCall
<1>2. PICK op, n : /\ EnterFlag(t, op, g, n) /\ op \in InFlag
                   /\ op \in {"flagaccept", "flagpend"} => n \in Wait
                   /\ op = "flagpend" => os.lock = 0
                   /\ op = "flagdel" => Idling(g)
  <2>1. "flagaccept" \in InFlag /\ "flagpend" \in InFlag /\ "flagpost" \in InFlag /\ "flagdel" \in InFlag
    BY DEF InFlag
  <2>2. CASE \E w \in Wait : EnterFlag(t, "flagaccept", g, w)
    BY ONLY <2>1, <2>2
  <2>3. CASE \E w \in Wait : os.lock = 0 /\ EnterFlag(t, "flagpend", g, w)
    BY ONLY <2>1, <2>3
  <2>4. CASE \E b \in Bit, set \in BOOLEAN : EnterFlag(t, "flagpost", g, [want |-> {b}, set |-> set])
    BY ONLY <2>1, <2>4
  <2>5. CASE Idling(g) /\ \E n \in 0 .. 1 : EnterFlag(t, "flagdel", g, n)
    BY ONLY <2>1, <2>5
  <2> QED
    BY <2>2, <2>3, <2>4, <2>5 DEF FlagCall
<1>3. FlagState(os, pc', grp, gfree, rdy)
  BY ONLY <1>1, <1>2, g \in Group, FlagState(os, pc, grp, gfree, rdy), FlagEnters
<1>4. os' = os /\ grp' = grp /\ gfree' = gfree /\ rdy' = rdy
  BY <1>2 DEF EnterFlag
<1> QED
  BY <1>3, <1>4

LEMMA FlagsStep ==
  ASSUME FlagState(os, pc, grp, gfree, rdy), FlagNext
  PROVE  FlagState(os', pc', grp', gfree', rdy')
<1>1. CASE \E g \in Group, b \in Bit, set \in BOOLEAN : IsrFlagPost(g, {b}, set)
  BY ONLY <1>1, FlagState(os, pc, grp, gfree, rdy), FlagIsrPosts
<1>2. CASE \E t \in {os.cur} : \E g \in Group : FlagCall(t, g)
  BY ONLY <1>2, FlagState(os, pc, grp, gfree, rdy), FlagCalled
<1>3. CASE \E t \in {os.cur} : OSFlagAccept(t)
  BY ONLY <1>3, FlagState(os, pc, grp, gfree, rdy), FlagAccepts
<1>4. CASE \E t \in {os.cur} : OSFlagPend(t)
  BY ONLY <1>4, FlagState(os, pc, grp, gfree, rdy), FlagPends
<1>5. CASE \E t \in {os.cur} : FlagWake(t)
  BY ONLY <1>5, FlagState(os, pc, grp, gfree, rdy), FlagWakes
<1>6. CASE \E t \in {os.cur} : OSFlagPost(t)
  BY ONLY <1>6, FlagState(os, pc, grp, gfree, rdy), FlagTaskPosts
<1>7. CASE \E t \in {os.cur} : OSFlagCreate(t)
  BY ONLY <1>7, FlagState(os, pc, grp, gfree, rdy), FlagCreates
<1>8. CASE \E t \in {os.cur} : OSFlagDel(t)
  BY ONLY <1>8, FlagState(os, pc, grp, gfree, rdy), FlagDeletes
<1> QED
  BY ONLY FlagNext, <1>1, <1>2, <1>3, <1>4, <1>5, <1>6, <1>7, <1>8 DEF FlagNext, FlagStep

LEMMA FlagHolds ==
  ASSUME FlagInv, [Next]_kvars
  PROVE  FlagInv'
<1>1. FlagState(os, pc, grp, gfree, rdy) /\ res = [t \in Task |-> res[t]]
  BY DEF FlagInv
<1>2. ~ SemNext /\ ~ MboxNext /\ ~ MultiNext /\ ~ QNext /\ ~ MutexNext
  BY ONLY <1>1, FlagsOnly
<1>3. FlagState(os', pc', grp', gfree', rdy')
  <2>1. CASE (Tick \/ \E t \in {os.cur} : TaskStep(t)) /\ NodeDropped /\ UNCHANGED <<gfree, rdy>>
    <3>1. FlagState(os', pc', grp, gfree, rdy)
      BY ONLY <1>1, <2>1, FlagTasks
    <3>2. pc'[os.cur].at # "delete"
      <4>1. os.cur \in Task
        BY ONLY <1>1 DEF FlagState, FlagKernel
      <4> QED
        BY ONLY <3>1, <4>1 DEF FlagState, FlagPc, InFlag
    <3>3. grp' = grp /\ gfree' = gfree /\ rdy' = rdy
      BY ONLY <2>1, <3>2 DEF NodeDropped
    <3> QED
      BY ONLY <3>1, <3>3
  <2>2. CASE FlagNext
    BY ONLY <1>1, <2>2, FlagsStep
  <2>3. CASE UNCHANGED kvars
    <3>1. os' = os /\ pc' = pc /\ grp' = grp /\ gfree' = gfree /\ rdy' = rdy
      BY <2>3 DEF kvars
    <3> QED
      BY ONLY <1>1, <3>1
  <2> QED
    BY ONLY [Next]_kvars, <1>2, <2>1, <2>2, <2>3 DEF Next
<1>4. res' = [t \in Task |-> res'[t]]
  <2>1. res' = res \/ \E t, x : res' = [res EXCEPT ![t] = x]
    <3>1. FlagNext \/ res' = res
      BY ONLY [Next]_kvars, <1>2 DEF Next, kvars, flagvars
    <3>2. (\A g, b, set : IsrFlagPost(g, b, set) => res' = res) /\ (\A t : OSFlagPost(t) => res' = res)
      BY DEF IsrFlagPost, OSFlagPost, FlagPost
    <3>3. \A t : OSFlagCreate(t) \/ OSFlagDel(t) => res' = res
      BY DEF OSFlagCreate, OSFlagDel, flagvars
    <3>4. \A t, g : FlagCall(t, g) => \E x : res' = [res EXCEPT ![t] = x]
      BY DEF FlagCall
    <3>5. \A t : OSFlagAccept(t) \/ OSFlagPend(t) \/ FlagWake(t) => res' = res \/ \E x : res' = [res EXCEPT ![t] = x]
      BY DEF OSFlagAccept, OSFlagPend, FlagWake
    <3> QED
      BY ONLY <3>1, <3>2, <3>3, <3>4, <3>5 DEF FlagNext, FlagStep
  <2> QED
    BY ONLY <1>1, <2>1
<1> QED
  BY ONLY <1>3, <1>4 DEF FlagInv, FlagState, FlagKernel, FlagCpu, FlagPc, FlagCalls, FlagLists, FlagGiven
-----------------------------------------------------------------------------
\* Nobody waits for flags when the tasks start.
LEMMA FlagStarts ==
  ASSUME Init, Signalling(os.app)
  PROVE  FlagInv
<1>1. PICK a \in DOMAIN App : os = PipsReserved(Started(a))
  BY DEF Init
<1>2. os.app = a /\ \A e \in DOMAIN App[a].ev : App[a].ev[e].type # "mutex"
  BY <1>1 DEF PipsReserved, Started, Signalling
<1>3. PICK k : k = os
  OBVIOUS
<1>4. Fine(a, k)
  BY ONLY <1>1, <1>2, <1>3, Starts0
<1>5. PICK r : r = App[a].prio
  OBVIOUS
<1>6. /\ k.list \subseteq Task /\ Idle \in k.list /\ k.rdy \subseteq Prio /\ r \in [k.list -> Prio]
      /\ \A t, u \in k.list : r[t] = r[u] => t = u
      /\ r[Idle] = LowestPrio
      /\ \A t \in k.list : r[t] \in k.rdy /\ k.tbl[r[t]] = t
      /\ \A x \in k.rdy : \E t \in k.list : r[t] = x
      /\ \A x \in Prio : x \notin k.rdy => k.tbl[x] = Null
      /\ k.tbl \in [Prio -> k.list \cup {Null}]
      /\ k.cur \in k.list /\ k.prioCur = r[k.cur] /\ k.prioCur \in k.rdy
  BY ONLY <1>5, <1>4, PriosAre
<1>7. a \in DOMAIN App /\ k.app = a /\ k.lock = 0 /\ Shape(k)
  BY <1>4 DEF Fine
<1>8. k.tcb = [t \in Task |-> IF t \in k.list THEN Tcb(r[t]) ELSE Tcb(0)]
  <2>1. k.tcb = [t \in Task |-> IF t \in DOMAIN App[a].prio THEN Tcb(App[a].prio[t]) ELSE Tcb(0)] /\ k.list = DOMAIN App[a].prio
    BY <1>4 DEF Fine
  <2> QED
    BY ONLY <1>5, <2>1, Zenon
<1>9. \A t \in Task : k.tcb[t] \in FlagTcb /\ k.tcb[t].stat = {} /\ k.tcb[t].dly = 0 /\ k.tcb[t].pend = "ok"
  <2>1. 0 \in Prio
    BY CoreAssumption DEF Prio
  <2>2. \A x \in Prio : Tcb(x) \in FlagTcb /\ Tcb(x).stat = {} /\ Tcb(x).dly = 0 /\ Tcb(x).pend = "ok"
    BY DEF Tcb, FlagTcb
  <2>3. \A t \in Task : \E x \in Prio : k.tcb[t] = Tcb(x)
    BY ONLY <1>6, <1>8, <2>1
  <2> QED
    BY ONLY <2>2, <2>3
<1>10. \A t \in k.list : k.tcb[t].prio = r[t]
  BY ONLY <1>6, <1>8 DEF Tcb
<1>11. OwnPrioInv(k)
  <2>1. Null \notin Task
    BY CoreAssumption
  <2>2. \A x \in Prio : k.tbl[x] \in Task => x \in k.rdy
    BY ONLY <1>6, <2>1
  <2>3. \A x \in Prio : k.tbl[x] \in Task => k.tbl[x] \in k.list /\ k.tcb[k.tbl[x]].prio = x
    BY ONLY <1>6, <1>10, <2>2
  <2> QED
    BY ONLY <1>6, <1>10, <2>3 DEF OwnPrioInv
<1>12. FlagKernel(k)
  <2>1. k.tcb \in [Task -> FlagTcb]
    BY ONLY <1>8, <1>9
  <2>2. k.tbl \in [Prio -> Task \cup {Null}]
    BY ONLY <1>6
  <2>3. \A t \in k.list : ReadyAt(k, t)
    BY ONLY <1>6, <1>9, <1>10 DEF ReadyAt
  <2>4. Signalling(k.app) /\ k.app \in DOMAIN App
    BY <1>3, <1>7
  <2>5. \A x \in k.rdy : \E t \in k.list : k.tcb[t].prio = x
    BY ONLY <1>6, <1>10
  <2>6. \A t \in Task : k.tcb[t].pend # "to"
    BY <1>9
  <2>7. k.tcb[Idle].prio = LowestPrio /\ k.tcb[Idle].stat = {} /\ k.tcb[Idle].dly = 0
    BY ONLY <1>6, <1>9, <1>10
  <2> QED
    BY ONLY <1>6, <1>7, <1>11, <2>1, <2>2, <2>3, <2>4, <2>5, <2>6, <2>7 DEF FlagKernel
<1>13. PICK p, G, F, R : /\ p = pc /\ G = grp /\ F = gfree /\ R = rdy
                         /\ p = [t \in Task |-> InApp]
                         /\ G = [g \in Group |-> [FreeGrp EXCEPT !.type = "flag"]] /\ F = <<>>
                         /\ R = [t \in Task |-> {}]
  BY DEF Init
<1>14. \A t \in Task : p[t] = InApp /\ p[t].at = "app" /\ Formed(p[t])
  BY ONLY <1>13 DEF InApp, Formed
<1>15. \A t \in Task : ~ OnFlags(k, t) /\ ~ Blk(p, t) /\ p[t].at \notin InFlag
  BY ONLY <1>9, <1>14 DEF OnFlags, Blk, InFlag
<1>16. FlagPc(k, p)
  BY ONLY <1>13, <1>14, <1>15 DEF FlagPc, Formed, InFlag
<1>17. \A g \in Group : G[g] = [type |-> "flag", flags |-> {}, list |-> <<>>]
  <2>1. PICK b, x, y, z, v : /\ b = FreeGrp /\ b = [type |-> x, flags |-> y, list |-> z] /\ z = <<>> /\ y = {} /\ v = "flag"
    BY DEF FreeGrp
  <2>2. b = [type |-> x, flags |-> y, list |-> z]
    BY <2>1
  <2>3. [b EXCEPT !.type = v] = [type |-> v, flags |-> y, list |-> z]
    BY ONLY <2>2
  <2>4. [FreeGrp EXCEPT !.type = "flag"] = [type |-> "flag", flags |-> {}, list |-> <<>>]
    BY ONLY <2>1, <2>3, Zenon
  <2> QED
    BY ONLY <1>13, <2>4
<1>18. \A g \in Group : G[g].type = "flag" /\ G[g].list = <<>>
  BY ONLY <1>17
<1>19. FlagCalls(p, G, F)
  <2>1. F \in Seq(Group) /\ IsInjective(F) /\ ToSet(F) = {} /\ <<>> \in Seq(Task)
    BY ONLY <1>13 DEF IsInjective, ToSet
  <2>2. \A g \in Group : /\ G[g] = [type |-> G[g].type, flags |-> G[g].flags, list |-> G[g].list]
                         /\ G[g].list \in Seq(Task)
    <3>1. \A g \in Group : G[g] = [type |-> G[g].type, flags |-> G[g].flags, list |-> G[g].list]
      BY ONLY <1>17
    <3> QED
      BY ONLY <1>18, <2>1, <3>1
  <2>3. G = [g \in Group |-> G[g]]
    BY ONLY <1>13
  <2>4. \A t \in Task : p[t].at \notin InFlag /\ p[t].at # "flagdel"
    BY ONLY <1>14, <1>15
  <2> QED
    BY ONLY <1>18, <2>1, <2>2, <2>3, <2>4 DEF FlagCalls
<1>20. FlagLists(k, p, G)
  <2>1. IsInjective(<<>>) /\ ToSet(<<>>) = {}
    BY DEF IsInjective, ToSet
  <2> QED
    BY ONLY <1>15, <1>18, <2>1 DEF FlagLists
<1>21. FlagGiven(k, p, R)
  BY ONLY <1>13, <1>15 DEF FlagGiven
<1>22. FlagCpu(k, p)
  BY ONLY <1>6, <1>7, <1>10, <1>14 DEF FlagCpu
<1>23. FlagState(os, pc, grp, gfree, rdy)
  BY ONLY <1>3, <1>12, <1>13, <1>16, <1>19, <1>20, <1>21, <1>22 DEF FlagState
<1>24. res = [t \in Task |-> res[t]]
  BY DEF Init
<1> QED
  BY ONLY <1>23, <1>24 DEF FlagInv

LEMMA WaitersFollow ==
  ASSUME FlagInv
  PROVE  FlagWaitersExact
<1>1. FlagPc(os, pc) /\ FlagLists(os, pc, grp) /\ FlagCalls(pc, grp, gfree)
  BY DEF FlagInv, FlagState
<1>2. SUFFICES ASSUME NEW g \in Group
               PROVE  /\ ToSet(grp[g].list) = {t \in Task : /\ Blocked(t) /\ pc[t].ev = g
                                                            /\ "flag" \in os.tcb[t].stat \/ os.tcb[t].pend = "to"}
                      /\ IsInjective(grp[g].list)
                      /\ \A t \in ToSet(grp[g].list) : Met(grp[g].flags, pc[t].n) => os.tcb[t].pend = "to"
  BY DEF FlagWaitersExact
<1>3. /\ IsInjective(grp[g].list) /\ ToSet(grp[g].list) \subseteq Task
      /\ \A u \in ToSet(grp[g].list) : OnFlags(os, u) /\ pc[u].ev = g /\ Blk(pc, u)
  BY ONLY <1>1, g \in Group, OnList
<1>4. \A t \in Task : /\ t \in ToSet(grp[g].list) <=> OnFlags(os, t) /\ pc[t].ev = g
                      /\ OnFlags(os, t) /\ pc[t].ev = g /\ Met(grp[g].flags, pc[t].n) => os.tcb[t].pend = "to"
  BY <1>1 DEF FlagLists
<1>5. \A t \in Task : t \in ToSet(grp[g].list) <=> /\ Blocked(t) /\ pc[t].ev = g
                                                   /\ "flag" \in os.tcb[t].stat \/ os.tcb[t].pend = "to"
  BY ONLY <1>3, <1>4 DEF OnFlags, Blk, Blocked
<1> QED
  BY ONLY <1>3, <1>4, <1>5

\* What a call says when it returns.
LEMMA MetFollows ==
  ASSUME FlagInv, [Next]_kvars
  PROVE  [\A t \in Task : pc[t].at # "app" /\ pc'[t].at = "app" /\ res'[t] # res[t] /\ res'[t].err = "none" =>
            LET w == pc[t].n
                f == res'[t].flags
            IN \/ IF w.all THEN f = w.want ELSE f # {} /\ f \subseteq w.want
               \/ "flagdel" \in Ops /\ f = {}]_kvars
<1>1. FlagState(os, pc, grp, gfree, rdy) /\ res = [t \in Task |-> res[t]]
  BY DEF FlagInv
<1>2. FlagKernel(os) /\ FlagCpu(os, pc) /\ FlagPc(os, pc) /\ FlagGiven(os, pc, rdy)
  BY <1>1 DEF FlagState
<1>3. SUFFICES ASSUME NEW t \in Task, pc[t].at # "app", pc'[t].at = "app", res'[t] # res[t], res'[t].err = "none"
               PROVE  Enough(os.app, pc[t].n, res'[t].flags)
  BY ONLY <1>3 DEF Enough, Ops
<1>4. FlagNext
  <2>1. ~ SemNext /\ ~ MboxNext /\ ~ MultiNext /\ ~ QNext /\ ~ MutexNext
    BY ONLY <1>1, FlagsOnly
  <2> QED
    BY ONLY [Next]_kvars, <1>3, <2>1 DEF Next, kvars, flagvars
<1>5. \A x, v : res' = [res EXCEPT ![x] = v] => x = t /\ res'[t] = v
  BY ONLY <1>1, <1>3
<1>6. \A e, f : Result(e, f).err = e /\ Result(e, f).flags = f
  BY DEF Result
<1>7. \A f, w : Met(f, w) => Enough(os.app, w, FlagsRdy(f, w))
  <2>1. \A f, w : FlagsRdy(f, w) \subseteq w.want
    BY DEF FlagsRdy
  <2> QED
    BY ONLY <2>1 DEF Met, Enough
<1>8. (\A g, b, set : ~ IsrFlagPost(g, b, set)) /\ \A u : ~ OSFlagPost(u) /\ ~ OSFlagCreate(u) /\ ~ OSFlagDel(u)
  <2>1. (\A g, b, set : ~ IsrFlagPost(g, b, set)) /\ \A u : ~ OSFlagPost(u)
    BY ONLY <1>3 DEF IsrFlagPost, OSFlagPost, FlagPost
  <2>2. \A u : ~ OSFlagCreate(u) /\ ~ OSFlagDel(u)
    BY ONLY <1>3 DEF OSFlagCreate, OSFlagDel, flagvars
  <2> QED
    BY <2>1, <2>2
<1>9. \A u, g : ~ FlagCall(u, g)
  <2> SUFFICES ASSUME NEW u, NEW g, FlagCall(u, g) PROVE FALSE
    OBVIOUS
  <2>1. u = t
    BY <1>5 DEF FlagCall
  <2>2. Calls(u, "flagaccept") \/ Calls(u, "flagpend") \/ Calls(u, "flagpost") \/ Calls(u, "flagdel")
    BY DEF FlagCall, EnterFlag
  <2> QED
    BY ONLY <1>3, <2>1, <2>2 DEF Calls, At
<1>10. CASE \E u \in {os.cur} : OSFlagAccept(u)
  <2>1. PICK u : OSFlagAccept(u)
    BY <1>10
  <2>2. PICK w, f : w = pc[u].n /\ f = grp[pc[u].ev].flags
    OBVIOUS
  <2>3. \/ Met(f, w) /\ res' = [res EXCEPT ![u] = Result("none", FlagsRdy(f, w))]
        \/ res' = [res EXCEPT ![u] = Result("notrdy", FlagsRdy(f, w))]
    BY ONLY <2>1, <2>2 DEF OSFlagAccept
  <2>4. PICK v, x : v = Result("none", FlagsRdy(f, w)) /\ x = Result("notrdy", FlagsRdy(f, w))
    OBVIOUS
  <2>5. v.err = "none" /\ v.flags = FlagsRdy(f, w) /\ x.err = "notrdy"
    BY ONLY <1>6, <2>4
  <2>6. (Met(f, w) /\ res' = [res EXCEPT ![u] = v]) \/ res' = [res EXCEPT ![u] = x]
    BY ONLY <2>3, <2>4
  <2>7. u = t /\ Met(f, w) /\ res'[t].flags = FlagsRdy(f, w)
    BY ONLY <1>3, <1>5, <2>5, <2>6
  <2> QED
    BY ONLY <1>7, <2>2, <2>7
<1>11. CASE \E u \in {os.cur} : OSFlagPend(u)
  <2>1. PICK u : OSFlagPend(u)
    BY <1>11
  <2>2. PICK w, f : w = pc[u].n /\ f = grp[pc[u].ev].flags
    OBVIOUS
  <2>3. \/ Met(f, w) /\ res' = [res EXCEPT ![u] = Result("none", FlagsRdy(f, w))]
        \/ res' = res
    BY ONLY <2>1, <2>2 DEF OSFlagPend
  <2>4. PICK v : v = Result("none", FlagsRdy(f, w))
    OBVIOUS
  <2>5. v.err = "none" /\ v.flags = FlagsRdy(f, w)
    BY ONLY <1>6, <2>4
  <2>6. (Met(f, w) /\ res' = [res EXCEPT ![u] = v]) \/ res' = res
    BY ONLY <2>3, <2>4
  <2>7. u = t /\ Met(f, w) /\ res'[t].flags = FlagsRdy(f, w)
    BY ONLY <1>3, <1>5, <2>5, <2>6
  <2> QED
    BY ONLY <1>7, <2>2, <2>7
<1>12. CASE \E u \in {os.cur} : FlagWake(u)
  <2>1. PICK u : FlagWake(u) /\ u = os.cur /\ pc[u].at = "wake"
    BY <1>12 DEF FlagWake, Wakes, At
  <2>2. \/ os.tcb[u].pend = "ok" /\ res' = [res EXCEPT ![u] = Result("none", rdy[u])]
        \/ res' = [res EXCEPT ![u] = Result("timeout", {})]
    BY ONLY <2>1 DEF FlagWake
  <2>3. u = t /\ os.tcb[t].pend = "ok" /\ res'[t].flags = rdy[t]
    <3>1. PICK v, x : v = Result("none", rdy[u]) /\ x = Result("timeout", {})
      OBVIOUS
    <3>2. v.err = "none" /\ v.flags = rdy[u] /\ x.err = "timeout"
      BY ONLY <1>6, <3>1
    <3>3. (os.tcb[u].pend = "ok" /\ res' = [res EXCEPT ![u] = v]) \/ res' = [res EXCEPT ![u] = x]
      BY ONLY <2>2, <3>1
    <3> QED
      BY ONLY <1>3, <1>5, <3>2, <3>3
  <2>4. ~ OnFlags(os, t)
    <3>1. os.prioCur \in os.rdy /\ os.tcb[t].prio = os.prioCur /\ ReadyAt(os, t)
      BY <1>2, <2>1, <2>3 DEF FlagCpu, FlagKernel
    <3> QED
      BY ONLY <2>3, <3>1 DEF ReadyAt, OnFlags
  <2>5. Blk(pc, t)
    BY <2>1, <2>3 DEF Blk
  <2> QED
    BY <1>2, <2>3, <2>4, <2>5 DEF FlagGiven
<1> QED
  BY ONLY <1>4, <1>8, <1>9, <1>10, <1>11, <1>12 DEF FlagNext, FlagStep
-----------------------------------------------------------------------------
\* The list of a flag group holds exactly the tasks that wait for its flags, each
\* once, and none of them has what it waits for: a post readies everyone it
\* satisfies, a time-out, a deletion, a suspension or a tick that comes in between
\* leaves nobody behind on the list and nobody off it.
THEOREM FlagsReachWaiters == Spec /\ Signalling(os.app) => []FlagWaitersExact
<1>1. Init /\ Signalling(os.app) => FlagInv
  BY FlagStarts
<1>2. FlagInv /\ [Next]_kvars => FlagInv'
  BY FlagHolds
<1>3. FlagInv => FlagWaitersExact
  BY WaitersFollow
<1> QED
  BY <1>1, <1>2, <1>3, PTL DEF Spec

\* OSFlagPend and OSFlagAccept report success only with flags that were as the task
\* wanted them, although others may consume or change them before a task that was
\* readied runs; or with none, when the group was deleted under it.
THEOREM SuccessWasMet == Spec /\ Signalling(os.app) => FlagsWereMet
<1>1. Init /\ Signalling(os.app) => FlagInv
  BY FlagStarts
<1>2. FlagInv /\ [Next]_kvars => FlagInv'
  BY FlagHolds
<1>3. FlagInv /\ [Next]_kvars =>
        [\A t \in Task : pc[t].at # "app" /\ pc'[t].at = "app" /\ res'[t] # res[t] /\ res'[t].err = "none" =>
           LET w == pc[t].n
               f == res'[t].flags
           IN \/ IF w.all THEN f = w.want ELSE f # {} /\ f \subseteq w.want
              \/ "flagdel" \in Ops /\ f = {}]_kvars
  BY MetFollows
<1> QED
  BY <1>1, <1>2, <1>3, PTL DEF Spec, FlagsWereMet
=============================================================================
