---------------------------- MODULE KernelProofs ----------------------------
(***************************************************************************)
(* That every step of the kernel keeps its invariant, and what follows:    *)
(* its tables agree, the highest ready task runs and nothing is kept from  *)
(* a task that waits for it.                                               *)
(***************************************************************************)
EXTENDS KernelStepsProofs

\* Nobody waits for an event that is not in use.
EventUnused(k, p, e) == TasksInv(k, p) /\ e \in DOMAIN k.ev /\ k.ev[e].type = "unused"
LEMMA UnusedAlone ==
  ASSUME NEW k, NEW p, NEW e, EventUnused(k, p, e)
  PROVE  k.ev[e].wait = {}
<1>1. StatInv(k, p) /\ ListsInv(k, p) /\ ArgInv(k.app, p) /\ k.list \subseteq Task /\ e \in DOMAIN k.ev /\ k.ev[e].type = "unused"
  BY DEF EventUnused, TasksInv, WaitInv, OsType
<1>2. ASSUME NEW y \in k.ev[e].wait
      PROVE  FALSE
  <2>1. PICK u \in k.list : k.tcb[u].prio = y
    BY <1>1 DEF ListsInv
  <2>2. Pend(k, p, u) /\ p[u].ev = e
    BY <1>1, <1>2, <2>1 DEF ListsInv, ListedAt
  <2>3. k.ev[e].type = p[u].svc /\ p[u].svc \in Kinds
    BY <1>1, <2>2 DEF StatInv, StatAt, ArgInv, Pend
  <2> QED
    BY <1>1, <2>3 DEF Kinds
<1> QED
  BY <1>2

\* A queue is created in two steps.
LEMMA QCreateHolds ==
  ASSUME Holding(os, pc, qfree, q), NEW t, OSQCreate(t)
  PROVE  Holding(os', pc', qfree, q)
<1>1. /\ t = os.cur /\ t # Idle /\ pc[t].at = "app" /\ os.evfree # <<>>
      /\ TasksInv(os, pc) /\ QcbInv(os, qfree) /\ KeptInv(os, q) /\ OsType(os) /\ Shape(os) /\ EcbInv(os, pc)
      /\ t \in os.list /\ t \in Task /\ os.list \subseteq Task /\ pc \in [Task -> PcType]
      /\ os.ev \in [DOMAIN os.ev -> EcbType] /\ os.evfree \in Seq(DOMAIN os.ev)
  <2>1. t = os.cur /\ t # Idle /\ pc[t].at = "app" /\ os.evfree # <<>>
    BY DEF OSQCreate, Calls, At
  <2> QED
    BY ONLY <2>1, Holding(os, pc, qfree, q), Makes
<1>2. PICK e, r, l : e = Head(os.evfree) /\ l = Tail(os.evfree) /\ r = os' /\ r = [os EXCEPT !.evfree = l]
  BY DEF OSQCreate
<1>3. /\ Shape(r) /\ r.app = os.app /\ r.rdy = os.rdy /\ r.tbl = os.tbl /\ r.tcb = os.tcb /\ r.list = os.list
      /\ r.free = os.free /\ r.ev = os.ev /\ r.evfree = l /\ r.cur = os.cur /\ r.prioCur = os.prioCur
      /\ r.lock = os.lock
  <2>1. Shape(os)
    BY ONLY <1>1
  <2> QED
    BY ONLY <1>2, <2>1 DEF Shape
<1>4. PICK x, s : x = [at |-> "qcreate", ev |-> e, n |-> 0, svc |-> "q"] /\ s = pc' /\ s = [pc EXCEPT ![t] = x]
  BY <1>2 DEF OSQCreate, Starts
<1>5. s[t] = x /\ \A u \in Task : u # t => s[u] = pc[u]
  BY ONLY <1>1, <1>4
<1>6. EcbInv(r, s) /\ e \in DOMAIN os.ev /\ os.ev[e].type = "unused" /\ r.evfree \in Seq(DOMAIN os.ev)
  <2>1. s[t].at = "qcreate" /\ s[t].ev = e
    BY ONLY <1>4, <1>5
  <2>2. EcbTaken(os, pc, t, s, r, e)
    BY ONLY <1>1, <1>2, <1>3, <1>5, <2>1 DEF EcbTaken
  <2> QED
    BY ONLY <2>2, EcbTakenKeeps
<1>7. OsType(r)
  BY ONLY <1>1, <1>3, <1>6 DEF OsType
<1>8. QcbInv(r, qfree) /\ KeptInv(r, q)
  BY ONLY <1>1, <1>3 DEF QcbInv, KeptInv
<1>9. x \in PcType /\ x.at = "qcreate"
  <2>1. e \in Ecb /\ os.ev[e] \in EcbType
    BY ONLY <1>1, <1>6, EcbOf
  <2>2. "qcreate" \in Label /\ "q" \in Kinds
    BY ONLY Labels DEF Kinds
  <2> QED
    BY ONLY <1>4, <2>1, <2>2 DEF PcType
<1>10. os.ev[e].wait = {}
  <2>1. EventUnused(os, pc, e)
    BY ONLY <1>1, <1>6 DEF EventUnused
  <2> QED
    BY ONLY <2>1, UnusedAlone
<1>11. Allots(os, pc, t, x, s, r, e)
  <2>1. r.ev[e].wait = {} /\ DOMAIN r.ev = DOMAIN os.ev /\ \A f \in DOMAIN os.ev : f # e => r.ev[f] = os.ev[f]
    BY ONLY <1>3, <1>10
  <2>2. Allotting(os, pc, t, x, s, r, e)
    BY ONLY <1>1, <1>3, <1>4, <1>6, <1>7, <1>9, <2>1 DEF Allotting
  <2> QED
    BY ONLY <1>1, <1>3, <2>2 DEF Allots
<1>12. Holding(r, s, qfree, q)
  BY ONLY <1>8, <1>11, Holding(os, pc, qfree, q), AllotHolds
<1> QED
  BY ONLY <1>2, <1>4, <1>12

LEMMA TakeQcbHolds ==
  ASSUME Holding(os, pc, qfree, q), NEW t, t = os.cur, TakeQcb(t)
  PROVE  Holding(os', pc', qfree', q')
<1>1. /\ t # Idle /\ pc[t].at = "qcreate"
      /\ TasksInv(os, pc) /\ QcbInv(os, qfree) /\ KeptInv(os, q) /\ OsType(os) /\ Shape(os) /\ EcbInv(os, pc)
      /\ t \in os.list /\ t \in Task /\ os.list \subseteq Task /\ pc \in [Task -> PcType]
      /\ os.ev \in [DOMAIN os.ev -> EcbType] /\ os.evfree \in Seq(DOMAIN os.ev)
  <2>1. pc[t].at = "qcreate"
    BY DEF TakeQcb, At
  <2>2. t # Idle
    BY ONLY <2>1, Holding(os, pc, qfree, q) DEF Holding, TasksInv, IdleInv
  <2> QED
    BY ONLY <2>1, <2>2, t = os.cur, Holding(os, pc, qfree, q), Makes
<1>2. PICK e : e = pc[t].ev
  OBVIOUS
<1>3. PICK x, s : x = InApp /\ s = pc' /\ s = [pc EXCEPT ![t] = x]
  BY DEF TakeQcb, Return
<1>4. s[t] = x /\ (\A u \in Task : u # t => s[u] = pc[u]) /\ x \in PcType /\ x.at = "app"
  BY ONLY <1>1, <1>3 DEF InApp, PcType, Label
<1>5. e \in DOMAIN os.ev /\ os.ev[e].type = "unused" /\ os.ev[e].wait = {}
  <2>1. e \in DOMAIN os.ev /\ os.ev[e].type = "unused"
    BY ONLY <1>1, <1>2 DEF EcbInv
  <2>2. EventUnused(os, pc, e)
    BY ONLY <1>1, <2>1 DEF EventUnused
  <2> QED
    BY ONLY <2>1, <2>2, UnusedAlone
<1>6. CASE qfree = <<>>
  <2>1. PICK r, l : l = <<e>> \o os.evfree /\ r = os' /\ r = [os EXCEPT !.evfree = l]
    BY <1>2, <1>6 DEF TakeQcb
  <2>2. /\ Shape(r) /\ r.app = os.app /\ r.rdy = os.rdy /\ r.tbl = os.tbl /\ r.tcb = os.tcb /\ r.list = os.list
        /\ r.free = os.free /\ r.ev = os.ev /\ r.evfree = l /\ r.cur = os.cur /\ r.prioCur = os.prioCur
        /\ r.lock = os.lock
    <3>1. Shape(os)
      BY ONLY <1>1
    <3> QED
      BY ONLY <2>1, <3>1 DEF Shape
  <2>3. EcbInv(r, s) /\ r.evfree \in Seq(DOMAIN os.ev)
    <3>1. EcbSettled(os, pc, t, s, r, e)
      BY ONLY <1>1, <1>2, <1>4, <2>1, <2>2 DEF EcbSettled
    <3> QED
      BY ONLY <3>1, EcbSettledKeeps
  <2>4. OsType(r)
    BY ONLY <1>1, <2>2, <2>3 DEF OsType
  <2>5. QcbInv(r, qfree) /\ KeptInv(r, q)
    BY ONLY <1>1, <2>2 DEF QcbInv, KeptInv
  <2>6. Allots(os, pc, t, x, s, r, e)
    <3>1. r.ev[e].wait = {} /\ DOMAIN r.ev = DOMAIN os.ev /\ \A f \in DOMAIN os.ev : f # e => r.ev[f] = os.ev[f]
      BY ONLY <1>5, <2>2
    <3>2. Allotting(os, pc, t, x, s, r, e)
      BY ONLY <1>1, <1>3, <1>4, <1>5, <2>2, <2>3, <2>4, <3>1 DEF Allotting
    <3> QED
      BY ONLY <2>2, <3>2, t = os.cur DEF Allots
  <2>7. Holding(r, s, qfree, q)
    BY ONLY <2>5, <2>6, Holding(os, pc, qfree, q), AllotHolds
  <2>8. qfree' = qfree /\ q' = q
    BY <1>6 DEF TakeQcb
  <2> QED
    BY ONLY <1>3, <2>1, <2>7, <2>8
<1>7. CASE qfree # <<>>
  <2>1. PICK c, d : c = Head(qfree) /\ d = [Unused EXCEPT !.type = "q", !.ptr = c]
    OBVIOUS
  <2>2. d = [type |-> "q", cnt |-> 0, ptr |-> c, wait |-> {}]
    BY ONLY <2>1 DEF Unused
  <2>3. PICK r : r = os' /\ r = [os EXCEPT !.ev = [os.ev EXCEPT ![e] = d]]
    <3>1. Shape(os)
      BY ONLY <1>1
    <3>2. os' = [os EXCEPT !.ev[e] = d]
      BY <1>2, <1>7, <2>1 DEF TakeQcb
    <3> QED
      BY ONLY <3>1, <3>2 DEF Shape
  <2>4. /\ Shape(r) /\ r.app = os.app /\ r.rdy = os.rdy /\ r.tbl = os.tbl /\ r.tcb = os.tcb /\ r.list = os.list
        /\ r.free = os.free /\ r.ev = [os.ev EXCEPT ![e] = d] /\ r.evfree = os.evfree /\ r.cur = os.cur /\ r.prioCur = os.prioCur
        /\ r.lock = os.lock
    <3>1. Shape(os)
      BY ONLY <1>1
    <3> QED
      BY ONLY <2>3, <3>1 DEF Shape
  <2>5. DOMAIN r.ev = DOMAIN os.ev /\ r.ev[e] = d /\ (\A f \in DOMAIN os.ev : f # e => r.ev[f] = os.ev[f])
    BY ONLY <1>1, <1>5, <2>4
  <2>6. PICK g, z : g = qfree' /\ g = Tail(qfree) /\ z = q' /\ z = [q EXCEPT ![Head(qfree)] = [NewQ EXCEPT !.buf = q[Head(qfree)].buf]]
    BY <1>7 DEF TakeQcb
  <2>7. QcbInv(r, g) /\ KeptInv(r, z) /\ c \in Qcb
    <3>1. r.ev[e].type = "q" /\ r.ev[e].ptr = Head(qfree)
      BY ONLY <2>1, <2>2, <2>5
    <3>2. QcbGiven(os, q, qfree, r, e)
      BY ONLY <1>1, <1>5, <1>7, <2>5, <3>1 DEF QcbGiven
    <3>3. PICK k, x0, f : k = os /\ x0 = q /\ f = qfree
      OBVIOUS
    <3>4. QcbGiven(k, x0, f, r, e) /\ z = [x0 EXCEPT ![Head(f)] = [NewQ EXCEPT !.buf = x0[Head(f)].buf]]
      BY ONLY <2>6, <3>2, <3>3
    <3>5. QcbInv(r, Tail(f)) /\ KeptInv(r, z) /\ Head(f) \in Qcb
      BY ONLY <3>4, QcbGivenKeeps
    <3> QED
      BY ONLY <2>1, <2>6, <3>3, <3>5
  <2>8. d \in EcbType
    BY ONLY <2>2, <2>7 DEF EcbType, Kinds
  <2>9. EcbInv(r, s) /\ r.evfree \in Seq(DOMAIN os.ev)
    <3>1. r.ev[e].type # "unused"
      BY ONLY <2>2, <2>5
    <3>2. EcbSettled(os, pc, t, s, r, e)
      BY ONLY <1>1, <1>2, <1>4, <2>4, <2>5, <3>1 DEF EcbSettled
    <3> QED
      BY ONLY <3>2, EcbSettledKeeps
  <2>10. OsType(r)
    <3>1. r.ev \in [DOMAIN r.ev -> EcbType]
      BY ONLY <1>1, <2>4, <2>8
    <3> QED
      BY ONLY <1>1, <2>4, <2>5, <2>9, <3>1 DEF OsType
  <2>11. Allots(os, pc, t, x, s, r, e)
    <3>1. r.ev[e].wait = {}
      BY ONLY <2>2, <2>5
    <3>2. Allotting(os, pc, t, x, s, r, e)
      BY ONLY <1>1, <1>3, <1>4, <1>5, <2>4, <2>5, <2>9, <2>10, <3>1 DEF Allotting
    <3> QED
      BY ONLY <2>4, <3>2, t = os.cur DEF Allots
  <2>12. Holding(r, s, g, z)
    BY ONLY <2>7, <2>11, Holding(os, pc, qfree, q), AllotHolds
  <2> QED
    BY ONLY <1>3, <2>3, <2>6, <2>12
<1> QED
  BY ONLY <1>6, <1>7
-----------------------------------------------------------------------------
\* One waiter or all of them are readied at the end of a call.
Rouses(k, e, msg, type, stat, r) == \/ r = OS_EventTaskRdy(k, e, msg, type, stat)
                                    \/ r = ReadyAll(k, e, msg, type, stat)
LEMMA RousedAre ==
  ASSUME NEW k, NEW p, TasksInv(k, p), NEW e \in DOMAIN k.ev, k.ev[e].wait # {}, NEW msg, NEW type, NEW stat,
         NEW r, Rouses(k, e, msg, type, stat, r)
  PROVE  \E ts : ts \subseteq Waiters(k, p, e) /\ r = Readied(k, e, ts, msg, type, stat)
<1>1. \A y \in k.ev[e].wait : k.tbl[y] \in Waiters(k, p, e)
  BY WaitersAre
<1>2. Min(k.ev[e].wait) \in k.ev[e].wait
  BY WaitersAre
<1>3. CASE r = OS_EventTaskRdy(k, e, msg, type, stat)
  <2>1. PICK y, ts : y = Min(k.ev[e].wait) /\ ts = {k.tbl[y]}
    OBVIOUS
  <2>2. r = Readied(k, e, ts, msg, type, stat)
    BY ONLY <1>3, <2>1 DEF OS_EventTaskRdy
  <2>3. ts \subseteq Waiters(k, p, e)
    BY ONLY <1>1, <1>2, <2>1
  <2> QED
    BY ONLY <2>2, <2>3
<1>4. CASE r = ReadyAll(k, e, msg, type, stat)
  <2>1. PICK ts : ts = {k.tbl[y] : y \in k.ev[e].wait} /\ r = Readied(k, e, ts, msg, type, stat)
    BY ONLY <1>4 DEF ReadyAll
  <2>2. ts \subseteq Waiters(k, p, e)
    BY ONLY <1>1, <2>1
  <2> QED
    BY ONLY <2>1, <2>2
<1> QED
  BY ONLY <1>3, <1>4, Rouses(k, e, msg, type, stat, r) DEF Rouses

LEMMA RouseHolds ==
  ASSUME Holding(os, pc, qfree, q), NEW t, NEW e, NEW type, OnCall(os, pc, t, e, type), os.ev[e].wait # {},
         NEW msg \in Letter \cup {Null}, NEW stat \in {"ok", "abort"}, Rouses(os, e, msg, type, stat, os'),
         Goto(t, "sched") \/ (pc[t].at \in {"mboxopt", "qopt"} /\ Return(t))
  PROVE  Holding(os', pc', qfree, q)
<1>1. TasksInv(os, pc) /\ e \in DOMAIN os.ev
  BY DEF Holding, OnCall
<1>2. PICK r : r = os' /\ Rouses(os, e, msg, type, stat, r)
  OBVIOUS
<1>3. PICK ts : ts \subseteq Waiters(os, pc, e) /\ r = Readied(os, e, ts, msg, type, stat)
  BY ONLY <1>1, <1>2, os.ev[e].wait # {}, RousedAre
<1> QED
  BY ONLY <1>2, <1>3, Holding(os, pc, qfree, q), OnCall(os, pc, t, e, type), msg \in Letter \cup {Null}, stat \in {"ok", "abort"},
          Goto(t, "sched") \/ (pc[t].at \in {"mboxopt", "qopt"} /\ Return(t)), PostHolds

LEMMA IsrRouseHolds ==
  ASSUME Holding(os, pc, qfree, q), NEW e \in DOMAIN os.ev, NEW type \in Kinds, os.ev[e].type = type, os.ev[e].wait # {},
         NEW msg \in Letter \cup {Null}, NEW r, Rouses(os, e, msg, type, "ok", r), NEW y, y = OSIntExit(r)
  PROVE  Holding(y, pc, qfree, q)
<1>1. TasksInv(os, pc)
  BY DEF Holding
<1>2. PICK ts : ts \subseteq Waiters(os, pc, e) /\ r = Readied(os, e, ts, msg, type, "ok")
  BY ONLY <1>1, e \in DOMAIN os.ev, os.ev[e].wait # {}, Rouses(os, e, msg, type, "ok", r), RousedAre
<1>3. y = OSIntExit(Readied(os, e, ts, msg, type, "ok")) /\ "ok" \in {"ok", "abort"}
  BY ONLY <1>2, y = OSIntExit(r)
<1> QED
  BY ONLY <1>2, <1>3, Holding(os, pc, qfree, q), e \in DOMAIN os.ev, type \in Kinds, os.ev[e].type = type,
          msg \in Letter \cup {Null}, IsrPostHolds

\* The deletion of an event, whichever way.
LEMMA DeleteHolds ==
  ASSUME Holding(os, pc, qfree, q), NEW t, NEW e, NEW type, OnCall(os, pc, t, e, type), pc[t].at \in DelStage,
         os' = FreeEcb(ReadyAll(os, e, Null, type, "ok"), e) \/ (os.ev[e].wait = {} /\ os' = FreeEcb(os, e)),
         Goto(t, "sched") \/ (os.ev[e].wait = {} /\ Return(t)),
         NEW g, type # "q" => g = qfree, type = "q" => g = <<os.ev[e].ptr>> \o qfree
  PROVE  Holding(os', pc', g, q)
<1>1. TasksInv(os, pc) /\ e \in DOMAIN os.ev /\ os.ev[e].type = type /\ type \in Kinds
  BY DEF Holding, OnCall
<1>2. PICK k : Deserted(os, pc, e, k) /\ os' = FreeEcb(k, e)
  <2>1. CASE os' = FreeEcb(ReadyAll(os, e, Null, type, "ok"), e)
    <3>1. PICK r : r = ReadyAll(os, e, Null, type, "ok")
      OBVIOUS
    <3>2. Deserted(os, pc, e, r)
      BY ONLY <1>1, <3>1, AllReadied
    <3> QED
      BY ONLY <2>1, <3>1, <3>2
  <2>2. CASE os.ev[e].wait = {} /\ os' = FreeEcb(os, e)
    <3>1. Deserted(os, pc, e, os)
      BY ONLY <1>1, <2>2 DEF Deserted, KeepsTasks, KeepsCpu, KeepsEcbs
    <3> QED
      BY ONLY <2>2, <3>1
  <2> QED
    BY <2>1, <2>2
<1> QED
  BY ONLY <1>2, Holding(os, pc, qfree, q), OnCall(os, pc, t, e, type), pc[t].at \in DelStage,
          Goto(t, "sched") \/ (os.ev[e].wait = {} /\ Return(t)),
          type # "q" => g = qfree, type = "q" => g = <<os.ev[e].ptr>> \o qfree, DelHolds
-----------------------------------------------------------------------------
\* A call on an event finds one of its type; nothing lies there for waiters.
LEMMA CallFinds ==
  ASSUME Holding(os, pc, qfree, q), NEW t, t = os.cur, NEW e, e = pc[t].ev, pc[t].at \in OnEvent
  PROVE  /\ e \in DOMAIN os.ev /\ os.ev[e].type = pc[t].svc /\ os.ev[e] \in EcbType /\ os.ev \in [DOMAIN os.ev -> EcbType]
         /\ Shape(os) /\ t \in Task /\ t \in os.list /\ TasksInv(os, pc) /\ ArgInv(os.app, pc) /\ CurInv(os, pc)
         /\ QcbInv(os, qfree) /\ KeptInv(os, q)
         /\ (pc[t].at \in SemStage => pc[t].svc = "sem") /\ (pc[t].at \in MboxStage => pc[t].svc = "mbox")
         /\ (pc[t].at \in QStage => pc[t].svc = "q")
         /\ (pc[t].at \notin PendStage => OnCall(os, pc, t, e, pc[t].svc))
<1>1. /\ TasksInv(os, pc) /\ QcbInv(os, qfree) /\ KeptInv(os, q) /\ OsType(os) /\ CurInv(os, pc) /\ ArgInv(os.app, pc)
      /\ t \in os.list /\ t \in Task /\ pc[t].ev \in DOMAIN os.ev /\ os.ev[pc[t].ev].type = pc[t].svc
      /\ pc[t].at \in SemStage => pc[t].svc = "sem"
      /\ pc[t].at \in MboxStage => pc[t].svc = "mbox"
      /\ pc[t].at \in QStage => pc[t].svc = "q"
      /\ pc[t].at \notin PendStage => OnCall(os, pc, t, pc[t].ev, pc[t].svc)
  BY ONLY Holding(os, pc, qfree, q), t = os.cur, pc[t].at \in OnEvent, Calling
<1>2. Shape(os) /\ os.ev \in [DOMAIN os.ev -> EcbType]
  BY ONLY <1>1 DEF OsType
<1> QED
  BY ONLY <1>1, <1>2, e = pc[t].ev

\* What lies in the events of each kind.
LEMMA Lying ==
  ASSUME NEW k, NEW x, KeptInv(k, x), NEW e \in DOMAIN k.ev
  PROVE  /\ k.ev[e].type = "sem" => k.ev[e].cnt <= MaxCnt /\ (k.ev[e].cnt > 0 => k.ev[e].wait = {})
         /\ k.ev[e].type = "mbox" => k.ev[e].ptr \in Letter \cup {Null} /\ (k.ev[e].ptr # Null => k.ev[e].wait = {})
         /\ k.ev[e].type = "q" /\ x[k.ev[e].ptr].n > 0 => k.ev[e].wait = {}
BY DEF KeptInv

\* The count of a semaphore changes.
Counted(k, e, n, c) == /\ k.ev[e] \in EcbType /\ k.ev[e].type = "sem" /\ n \in 0 .. MaxCnt /\ (n > 0 => k.ev[e].wait = {})
                       /\ c = [k.ev[e] EXCEPT !.cnt = n]
LEMMA CountedIs ==
  ASSUME NEW k, NEW e, NEW n, NEW c, Counted(k, e, n, c)
  PROVE  c \in EcbType /\ c.type = k.ev[e].type /\ c.wait = k.ev[e].wait /\ Sound(c)
<1>1. PICK d : d = k.ev[e]
  OBVIOUS
<1>2. d \in EcbType /\ d.type = "sem" /\ n \in Nat /\ n <= MaxCnt /\ (n > 0 => d.wait = {}) /\ c = [d EXCEPT !.cnt = n]
  BY ONLY <1>1, Counted(k, e, n, c), SemAssumption DEF Counted
<1>3. c = [type |-> d.type, cnt |-> n, ptr |-> d.ptr, wait |-> d.wait]
  BY ONLY <1>2 DEF EcbType
<1>4. c.type = d.type /\ c.wait = d.wait /\ c.cnt = n /\ c \in EcbType
  BY ONLY <1>2, <1>3 DEF EcbType
<1>5. Sound(c)
  BY ONLY <1>2, <1>4 DEF Sound
<1> QED
  BY ONLY <1>1, <1>4, <1>5
LEMMA CountHolds ==
  ASSUME Holding(os, pc, qfree, q), NEW t, t = os.cur, pc[t].at \in SemStage, NEW e, e = pc[t].ev, NEW n \in 0 .. MaxCnt,
         n > 0 => os.ev[e].wait = {}, os' = [os EXCEPT !.ev[e].cnt = n], Return(t)
  PROVE  Holding(os', pc', qfree, q)
<1>1. pc[t].at \in OnEvent
  BY DEF OnEvent
<1>2. e \in DOMAIN os.ev /\ os.ev[e].type = "sem" /\ os.ev[e] \in EcbType /\ Shape(os)
  BY ONLY <1>1, Holding(os, pc, qfree, q), t = os.cur, e = pc[t].ev, pc[t].at \in SemStage, CallFinds
<1>3. PICK c : c = [os.ev[e] EXCEPT !.cnt = n]
  OBVIOUS
<1>4. c \in EcbType /\ c.type = os.ev[e].type /\ c.wait = os.ev[e].wait /\ Sound(c)
  <2>1. Counted(os, e, n, c)
    BY ONLY <1>2, <1>3, n \in 0 .. MaxCnt, n > 0 => os.ev[e].wait = {} DEF Counted
  <2> QED
    BY ONLY <2>1, CountedIs
<1>5. DataChange(os, e, c, os')
  BY ONLY <1>2, <1>3, os' = [os EXCEPT !.ev[e].cnt = n] DEF DataChange, Shape
<1> QED
  BY ONLY <1>1, <1>4, <1>5, Holding(os, pc, qfree, q), t = os.cur, e = pc[t].ev, Return(t), DataHolds

\* Nothing changes but that the call ends.
LEMMA NothingHolds ==
  ASSUME Holding(os, pc, qfree, q), NEW t, t = os.cur, pc[t].at \in OnEvent, UNCHANGED os, Return(t)
  PROVE  Holding(os', pc', qfree, q)
<1>1. KeptInv(os, q)
  BY DEF Holding
<1> QED
  BY ONLY <1>1, Holding(os, pc, qfree, q), t = os.cur, pc[t].at \in OnEvent, UNCHANGED os, Return(t), ReturnHolds

LEMMA SemAcceptHolds ==
  ASSUME Holding(os, pc, qfree, q), NEW t, OSSemAccept(t)
  PROVE  Holding(os', pc', qfree, q)
<1>1. PICK e : e = pc[t].ev
  OBVIOUS
<1>2. t = os.cur /\ pc[t].at = "semaccept" /\ Return(t) /\ pc[t].at \in SemStage /\ pc[t].at \in OnEvent
  BY DEF OSSemAccept, At, SemStage, OnEvent
<1>3. e \in DOMAIN os.ev /\ os.ev[e].type = "sem" /\ os.ev[e] \in EcbType /\ KeptInv(os, q)
  BY ONLY <1>1, <1>2, Holding(os, pc, qfree, q), CallFinds
<1>4. os.ev[e].cnt \in Nat /\ os.ev[e].cnt <= MaxCnt /\ (os.ev[e].cnt > 0 => os.ev[e].wait = {})
  BY ONLY <1>3, Lying DEF EcbType
<1>5. CASE os.ev[e].cnt > 0
  <2>1. PICK n : n = os.ev[e].cnt - 1
    OBVIOUS
  <2>2. n \in 0 .. MaxCnt /\ (n > 0 => os.ev[e].wait = {})
    BY ONLY <1>4, <1>5, <2>1, SemAssumption
  <2>3. os' = [os EXCEPT !.ev[e].cnt = n]
    BY <1>1, <1>5, <2>1 DEF OSSemAccept, Take
  <2> QED
    BY ONLY <1>1, <1>2, <2>2, <2>3, Holding(os, pc, qfree, q), CountHolds
<1>6. CASE ~ (os.ev[e].cnt > 0)
  <2>1. UNCHANGED os
    BY <1>1, <1>6 DEF OSSemAccept
  <2> QED
    BY ONLY <1>2, <2>1, Holding(os, pc, qfree, q), NothingHolds
<1> QED
  BY <1>5, <1>6

LEMMA SemPendHolds ==
  ASSUME Holding(os, pc, qfree, q), NEW t, OSSemPend(t)
  PROVE  Holding(os', pc', qfree, q)
<1>1. PICK e : e = pc[t].ev
  OBVIOUS
<1>2. t = os.cur /\ pc[t].at = "sempend" /\ pc[t].at \in SemStage /\ pc[t].at \in OnEvent /\ pc[t].at \in PendStage
  BY DEF OSSemPend, At, SemStage, OnEvent, PendStage
<1>3. e \in DOMAIN os.ev /\ os.ev[e].type = "sem" /\ os.ev[e] \in EcbType /\ KeptInv(os, q) /\ pc[t].svc = "sem"
  BY ONLY <1>1, <1>2, Holding(os, pc, qfree, q), CallFinds
<1>4. os.ev[e].cnt \in Nat /\ os.ev[e].cnt <= MaxCnt /\ (os.ev[e].cnt > 0 => os.ev[e].wait = {})
  BY ONLY <1>3, Lying DEF EcbType
<1>5. CASE os.ev[e].cnt > 0
  <2>1. PICK n : n = os.ev[e].cnt - 1
    OBVIOUS
  <2>2. n \in 0 .. MaxCnt /\ (n > 0 => os.ev[e].wait = {})
    BY ONLY <1>4, <1>5, <2>1, SemAssumption
  <2>3. os' = [os EXCEPT !.ev[e].cnt = n] /\ Return(t)
    BY <1>1, <1>5, <2>1 DEF OSSemPend, Take
  <2> QED
    BY ONLY <1>1, <1>2, <2>2, <2>3, Holding(os, pc, qfree, q), CountHolds
<1>6. CASE ~ (os.ev[e].cnt > 0)
  <2>1. PICK type : type = pc[t].svc
    OBVIOUS
  <2>2. os' = WaitFor(os, e, type, pc[t].n) /\ Goto(t, "block")
    BY <1>1, <1>3, <1>6, <2>1 DEF OSSemPend
  <2>3. Void(os, q, e)
    BY ONLY <1>3, <1>4, <1>6 DEF Void
  <2> QED
    BY ONLY <1>1, <1>2, <2>1, <2>2, <2>3, Holding(os, pc, qfree, q), WaitHolds
<1> QED
  BY <1>5, <1>6

LEMMA SemWakeHolds ==
  ASSUME Holding(os, pc, qfree, q), NEW t, SemWake(t)
  PROVE  Holding(os', pc', qfree, q)
<1>1. t = os.cur /\ pc[t].at = "wake" /\ os' = Awake(os, t, pc[t].ev) /\ Return(t)
  BY DEF SemWake, Wakes, At
<1> QED
  BY ONLY <1>1, Holding(os, pc, qfree, q), WakeHolds

\* A call that readies waiters: what its end needs.
LEMMA RouserHolds ==
  ASSUME Holding(os, pc, qfree, q), NEW t, t = os.cur, NEW e, e = pc[t].ev, pc[t].at \in OnEvent \ PendStage,
         NEW type, type = pc[t].svc, os.ev[e].wait # {},
         NEW msg \in Letter \cup {Null}, NEW stat \in {"ok", "abort"}, Rouses(os, e, msg, type, stat, os'),
         Goto(t, "sched") \/ (pc[t].at \in {"mboxopt", "qopt"} /\ Return(t))
  PROVE  Holding(os', pc', qfree, q)
<1>1. OnCall(os, pc, t, e, type)
  <2>1. pc[t].at \in OnEvent /\ pc[t].at \notin PendStage
    OBVIOUS
  <2> QED
    BY ONLY <2>1, Holding(os, pc, qfree, q), t = os.cur, e = pc[t].ev, type = pc[t].svc, CallFinds
<1> QED
  BY ONLY <1>1, Holding(os, pc, qfree, q), os.ev[e].wait # {}, msg \in Letter \cup {Null}, stat \in {"ok", "abort"},
          Rouses(os, e, msg, type, stat, os'), Goto(t, "sched") \/ (pc[t].at \in {"mboxopt", "qopt"} /\ Return(t)), RouseHolds

LEMMA SemPostHolds ==
  ASSUME Holding(os, pc, qfree, q), NEW t, OSSemPost(t)
  PROVE  Holding(os', pc', qfree, q)
<1>1. PICK e, type : e = pc[t].ev /\ type = pc[t].svc
  OBVIOUS
<1>2. t = os.cur /\ pc[t].at = "sempost" /\ pc[t].at \in SemStage /\ pc[t].at \in OnEvent /\ pc[t].at \in OnEvent \ PendStage
  BY DEF OSSemPost, At, SemStage, OnEvent, PendStage
<1>3. e \in DOMAIN os.ev /\ os.ev[e].type = "sem" /\ os.ev[e] \in EcbType /\ KeptInv(os, q) /\ type = "sem"
  BY ONLY <1>1, <1>2, Holding(os, pc, qfree, q), CallFinds
<1>4. os' = SemPost(os, e) /\ (IF os.ev[e].wait # {} THEN Goto(t, "sched") ELSE Return(t))
  BY <1>1 DEF OSSemPost
<1>5. CASE os.ev[e].wait # {}
  <2>1. Rouses(os, e, Null, type, "ok", os')
    BY ONLY <1>3, <1>4, <1>5 DEF Rouses, SemPost
  <2>2. Null \in Letter \cup {Null} /\ "ok" \in {"ok", "abort"} /\ Goto(t, "sched")
    BY ONLY <1>4, <1>5
  <2> QED
    BY ONLY <1>1, <1>2, <1>5, <2>1, <2>2, Holding(os, pc, qfree, q), RouserHolds
<1>6. CASE os.ev[e].wait = {} /\ os.ev[e].cnt < MaxCnt
  <2>1. PICK n : n = os.ev[e].cnt + 1
    OBVIOUS
  <2>2. n \in 0 .. MaxCnt
    BY ONLY <1>3, <1>6, <2>1, SemAssumption DEF EcbType
  <2>3. os' = [os EXCEPT !.ev[e].cnt = n] /\ Return(t)
    BY ONLY <1>4, <1>6, <2>1 DEF SemPost
  <2> QED
    BY ONLY <1>1, <1>2, <1>6, <2>2, <2>3, Holding(os, pc, qfree, q), CountHolds
<1>7. CASE os.ev[e].wait = {} /\ ~ (os.ev[e].cnt < MaxCnt)
  <2>1. UNCHANGED os /\ Return(t)
    BY ONLY <1>4, <1>7 DEF SemPost
  <2> QED
    BY ONLY <1>2, <2>1, Holding(os, pc, qfree, q), NothingHolds
<1> QED
  BY ONLY <1>5, <1>6, <1>7

LEMMA IsrSemHolds ==
  ASSUME Holding(os, pc, qfree, q), NEW e \in Event, IsrPost(e)
  PROVE  Holding(os', pc', qfree, q)
<1>1. TasksInv(os, pc) /\ OsType(os) /\ KeptInv(os, q) /\ e \in DOMAIN os.ev
  BY DEF Holding, TasksInv, Event
<1>2. os.ev[e].type = "sem" /\ os' = OSIntExit(SemPost(os, e)) /\ pc' = pc
  BY DEF IsrPost, InInterrupt
<1>3. os.ev[e] \in EcbType /\ os.ev[e].cnt \in Nat /\ Shape(os)
  BY ONLY <1>1 DEF OsType, EcbType
<1>4. CASE os.ev[e].wait # {}
  <2>1. PICK r : r = OS_EventTaskRdy(os, e, Null, "sem", "ok")
    OBVIOUS
  <2>2. os' = OSIntExit(r)
    BY ONLY <1>2, <1>4, <2>1 DEF SemPost
  <2>3. Rouses(os, e, Null, "sem", "ok", r) /\ Null \in Letter \cup {Null} /\ "sem" \in Kinds
    BY ONLY <2>1 DEF Rouses, Kinds
  <2>4. Holding(os', pc, qfree, q)
    BY ONLY <1>1, <1>2, <1>4, <2>2, <2>3, Holding(os, pc, qfree, q), IsrRouseHolds
  <2> QED
    BY ONLY <1>2, <2>4
<1>5. CASE os.ev[e].wait = {} /\ os.ev[e].cnt < MaxCnt
  <2>1. PICK n, c, r : n = os.ev[e].cnt + 1 /\ c = [os.ev[e] EXCEPT !.cnt = n] /\ r = [os EXCEPT !.ev[e].cnt = @ + 1]
    OBVIOUS
  <2>2. n \in 0 .. MaxCnt
    BY ONLY <1>3, <1>5, <2>1, SemAssumption
  <2>3. c \in EcbType /\ c.type = os.ev[e].type /\ c.wait = os.ev[e].wait /\ Sound(c)
    <3>1. Counted(os, e, n, c)
      BY ONLY <1>2, <1>3, <1>5, <2>1, <2>2 DEF Counted
    <3> QED
      BY ONLY <3>1, CountedIs
  <2>4. DataChange(os, e, c, r)
    <3>1. r = [os EXCEPT !.ev = [os.ev EXCEPT ![e] = c]]
      BY ONLY <1>1, <1>3, <2>1 DEF Shape
    <3> QED
      BY ONLY <3>1 DEF DataChange
  <2>5. os' = OSIntExit(r)
    BY ONLY <1>2, <1>5, <2>1 DEF SemPost
  <2>6. Holding(os', pc, qfree, q)
    BY ONLY <1>1, <2>3, <2>4, <2>5, Holding(os, pc, qfree, q), IsrDataHolds
  <2> QED
    BY ONLY <1>2, <2>6
<1>6. CASE os.ev[e].wait = {} /\ ~ (os.ev[e].cnt < MaxCnt)
  <2>1. os' = OSIntExit(os)
    BY ONLY <1>2, <1>6 DEF SemPost
  <2>2. Holding(os', pc, qfree, q)
    BY ONLY <1>1, <2>1, Holding(os, pc, qfree, q), IsrNoneHolds
  <2> QED
    BY ONLY <1>2, <2>2
<1> QED
  BY ONLY <1>4, <1>5, <1>6

LEMMA SemAbortHolds ==
  ASSUME Holding(os, pc, qfree, q), NEW t, OSSemPendAbort(t)
  PROVE  Holding(os', pc', qfree, q)
<1>1. PICK e, type : e = pc[t].ev /\ type = pc[t].svc
  OBVIOUS
<1>2. t = os.cur /\ pc[t].at = "semabort" /\ pc[t].at \in SemStage /\ pc[t].at \in OnEvent /\ pc[t].at \in OnEvent \ PendStage
  BY DEF OSSemPendAbort, At, SemStage, OnEvent, PendStage
<1>3. type = "sem"
  BY ONLY <1>1, <1>2, Holding(os, pc, qfree, q), CallFinds
<1>4. CASE os.ev[e].wait # {}
  <2>1. PICK all \in BOOLEAN : os' = SemAbort(os, e, all)
    BY <1>1, <1>4 DEF OSSemPendAbort
  <2>2. Rouses(os, e, Null, type, "abort", os')
    BY ONLY <1>3, <2>1 DEF Rouses, SemAbort
  <2>3. Null \in Letter \cup {Null} /\ "abort" \in {"ok", "abort"} /\ Goto(t, "sched")
    BY <1>1, <1>4 DEF OSSemPendAbort
  <2> QED
    BY ONLY <1>1, <1>2, <1>4, <2>2, <2>3, Holding(os, pc, qfree, q), RouserHolds
<1>5. CASE os.ev[e].wait = {}
  <2>1. UNCHANGED os /\ Return(t)
    BY <1>1, <1>5 DEF OSSemPendAbort
  <2> QED
    BY ONLY <1>2, <2>1, Holding(os, pc, qfree, q), NothingHolds
<1> QED
  BY <1>4, <1>5

LEMMA SemSetHolds ==
  ASSUME Holding(os, pc, qfree, q), NEW t, OSSemSet(t)
  PROVE  Holding(os', pc', qfree, q)
<1>1. PICK e, n : e = pc[t].ev /\ n = pc[t].n
  OBVIOUS
<1>2. t = os.cur /\ pc[t].at = "semset" /\ pc[t].at \in SemStage /\ pc[t].at \in OnEvent /\ Return(t)
  BY DEF OSSemSet, At, SemStage, OnEvent
<1>3. /\ e \in DOMAIN os.ev /\ os.ev[e].type = "sem" /\ os.ev[e] \in EcbType /\ KeptInv(os, q) /\ ArgInv(os.app, pc)
      /\ t \in Task
  BY ONLY <1>1, <1>2, Holding(os, pc, qfree, q), CallFinds
<1>4. os.ev[e].cnt > 0 => os.ev[e].wait = {}
  BY ONLY <1>3, Lying
<1>5. n \in 0 .. MaxCnt
  <2>1. n \in 0 .. 1
    BY ONLY <1>1, <1>2, <1>3 DEF ArgInv
  <2> QED
    BY ONLY <2>1, SemAssumption
<1>6. CASE os.ev[e].cnt > 0 \/ os.ev[e].wait = {}
  <2>1. os' = [os EXCEPT !.ev[e].cnt = n]
    BY <1>1, <1>6 DEF OSSemSet
  <2>2. n > 0 => os.ev[e].wait = {}
    BY ONLY <1>4, <1>6
  <2> QED
    BY ONLY <1>1, <1>2, <1>5, <2>1, <2>2, Holding(os, pc, qfree, q), CountHolds
<1>7. CASE ~ (os.ev[e].cnt > 0 \/ os.ev[e].wait = {})
  <2>1. UNCHANGED os
    BY <1>1, <1>7 DEF OSSemSet
  <2> QED
    BY ONLY <1>2, <2>1, Holding(os, pc, qfree, q), NothingHolds
<1> QED
  BY <1>6, <1>7

LEMMA SemDelHolds ==
  ASSUME Holding(os, pc, qfree, q), NEW t, OSSemDel(t)
  PROVE  Holding(os', pc', qfree, q)
<1>1. PICK e, type : e = pc[t].ev /\ type = pc[t].svc
  OBVIOUS
<1>2. /\ t = os.cur /\ pc[t].at = "semdel" /\ pc[t].at \in SemStage /\ pc[t].at \in OnEvent /\ pc[t].at \in DelStage
      /\ pc[t].at \notin PendStage
  BY DEF OSSemDel, At, SemStage, OnEvent, PendStage, DelStage
<1>3. type = "sem" /\ OnCall(os, pc, t, e, type)
  BY ONLY <1>1, <1>2, Holding(os, pc, qfree, q), CallFinds
<1>4. CASE pc[t].n = 0 /\ os.ev[e].wait # {}
  <2>1. UNCHANGED os /\ Return(t)
    BY <1>1, <1>4 DEF OSSemDel
  <2> QED
    BY ONLY <1>2, <2>1, Holding(os, pc, qfree, q), NothingHolds
<1>5. CASE ~ (pc[t].n = 0 /\ os.ev[e].wait # {})
  <2>1. /\ os' = FreeEcb(ReadyAll(os, e, Null, type, "ok"), e) \/ (os.ev[e].wait = {} /\ os' = FreeEcb(os, e))
        /\ Goto(t, "sched") \/ (os.ev[e].wait = {} /\ Return(t))
    BY <1>1, <1>3, <1>5 DEF OSSemDel
  <2>2. PICK g : g = qfree /\ type # "q"
    BY ONLY <1>3
  <2>3. Holding(os', pc', g, q)
    BY ONLY <1>2, <1>3, <2>1, <2>2, Holding(os, pc, qfree, q), DeleteHolds
  <2> QED
    BY ONLY <2>2, <2>3
<1> QED
  BY <1>4, <1>5
-----------------------------------------------------------------------------
\* What lies in a mailbox changes.
Laid(k, e, m, c) == /\ k.ev[e] \in EcbType /\ k.ev[e].type = "mbox" /\ m \in Letter \cup {Null} /\ (m # Null => k.ev[e].wait = {})
                    /\ c = [k.ev[e] EXCEPT !.ptr = m]
LEMMA LaidIs ==
  ASSUME NEW k, NEW e, NEW m, NEW c, Laid(k, e, m, c)
  PROVE  c \in EcbType /\ c.type = k.ev[e].type /\ c.wait = k.ev[e].wait /\ Sound(c)
<1>1. PICK d : d = k.ev[e]
  OBVIOUS
<1>2. d \in EcbType /\ d.type = "mbox" /\ m \in Letter \cup {Null} /\ (m # Null => d.wait = {}) /\ c = [d EXCEPT !.ptr = m]
  BY ONLY <1>1, Laid(k, e, m, c) DEF Laid
<1>3. c = [type |-> d.type, cnt |-> d.cnt, ptr |-> m, wait |-> d.wait]
  BY ONLY <1>2 DEF EcbType
<1>4. c.type = d.type /\ c.wait = d.wait /\ c.ptr = m /\ c \in EcbType
  BY ONLY <1>2, <1>3 DEF EcbType
<1>5. Sound(c)
  BY ONLY <1>2, <1>4 DEF Sound
<1> QED
  BY ONLY <1>1, <1>4, <1>5
LEMMA LayHolds ==
  ASSUME Holding(os, pc, qfree, q), NEW t, t = os.cur, pc[t].at \in MboxStage, NEW e, e = pc[t].ev, NEW m \in Letter \cup {Null},
         m # Null => os.ev[e].wait = {}, os' = [os EXCEPT !.ev[e].ptr = m], Return(t)
  PROVE  Holding(os', pc', qfree, q)
<1>1. pc[t].at \in OnEvent
  BY DEF OnEvent
<1>2. e \in DOMAIN os.ev /\ os.ev[e].type = "mbox" /\ os.ev[e] \in EcbType /\ Shape(os)
  BY ONLY <1>1, Holding(os, pc, qfree, q), t = os.cur, e = pc[t].ev, pc[t].at \in MboxStage, CallFinds
<1>3. PICK c : c = [os.ev[e] EXCEPT !.ptr = m]
  OBVIOUS
<1>4. c \in EcbType /\ c.type = os.ev[e].type /\ c.wait = os.ev[e].wait /\ Sound(c)
  <2>1. Laid(os, e, m, c)
    BY ONLY <1>2, <1>3, m \in Letter \cup {Null}, m # Null => os.ev[e].wait = {} DEF Laid
  <2> QED
    BY ONLY <2>1, LaidIs
<1>5. DataChange(os, e, c, os')
  BY ONLY <1>2, <1>3, os' = [os EXCEPT !.ev[e].ptr = m] DEF DataChange, Shape
<1> QED
  BY ONLY <1>1, <1>4, <1>5, Holding(os, pc, qfree, q), t = os.cur, e = pc[t].ev, Return(t), DataHolds

LEMMA MboxAcceptHolds ==
  ASSUME Holding(os, pc, qfree, q), NEW t, OSMboxAccept(t)
  PROVE  Holding(os', pc', qfree, q)
<1>1. PICK e, m : e = pc[t].ev /\ m = Null
  OBVIOUS
<1>2. /\ t = os.cur /\ pc[t].at \in MboxStage /\ Return(t) /\ os' = [os EXCEPT !.ev[e].ptr = m]
  BY <1>1 DEF OSMboxAccept, At, MboxStage, Emptied
<1>3. m \in Letter \cup {Null} /\ (m # Null => os.ev[e].wait = {})
  BY ONLY <1>1
<1> QED
  BY ONLY <1>1, <1>2, <1>3, Holding(os, pc, qfree, q), LayHolds

LEMMA MboxPendHolds ==
  ASSUME Holding(os, pc, qfree, q), NEW t, OSMboxPend(t)
  PROVE  Holding(os', pc', qfree, q)
<1>1. PICK e, type, m : e = pc[t].ev /\ type = pc[t].svc /\ m = Null
  OBVIOUS
<1>2. t = os.cur /\ pc[t].at = "mboxpend" /\ pc[t].at \in MboxStage /\ pc[t].at \in OnEvent /\ pc[t].at \in PendStage
  BY DEF OSMboxPend, At, MboxStage, OnEvent, PendStage
<1>3. e \in DOMAIN os.ev /\ os.ev[e].type = "mbox" /\ type = "mbox"
  BY ONLY <1>1, <1>2, Holding(os, pc, qfree, q), CallFinds
<1>4. CASE os.ev[e].ptr # Null
  <2>1. os' = [os EXCEPT !.ev[e].ptr = m] /\ Return(t)
    BY <1>1, <1>4 DEF OSMboxPend, Emptied
  <2>2. m \in Letter \cup {Null} /\ (m # Null => os.ev[e].wait = {})
    BY ONLY <1>1
  <2> QED
    BY ONLY <1>1, <1>2, <2>1, <2>2, Holding(os, pc, qfree, q), LayHolds
<1>5. CASE os.ev[e].ptr = Null
  <2>1. os' = WaitFor(os, e, type, pc[t].n) /\ Goto(t, "block")
    BY <1>1, <1>3, <1>5 DEF OSMboxPend
  <2>2. Void(os, q, e)
    BY ONLY <1>3, <1>5 DEF Void
  <2> QED
    BY ONLY <1>1, <1>2, <2>1, <2>2, Holding(os, pc, qfree, q), WaitHolds
<1> QED
  BY <1>4, <1>5

LEMMA MboxWakeHolds ==
  ASSUME Holding(os, pc, qfree, q), NEW t, MboxWake(t)
  PROVE  Holding(os', pc', qfree, q)
<1>1. t = os.cur /\ pc[t].at = "wake" /\ os' = Awake(os, t, pc[t].ev) /\ Return(t)
  BY DEF MboxWake, Wakes, At
<1> QED
  BY ONLY <1>1, Holding(os, pc, qfree, q), WakeHolds

\* A post to a mailbox by the task that runs.
LEMMA MboxPostedHolds ==
  ASSUME Holding(os, pc, qfree, q), NEW t, t = os.cur, pc[t].at \in {"mboxpost", "mboxopt"}, NEW e, e = pc[t].ev,
         NEW all \in BOOLEAN, os' = MboxPost(os, e, pc[t].n, all),
         (os.ev[e].wait # {} /\ Goto(t, "sched")) \/ ((os.ev[e].wait = {} \/ pc[t].at = "mboxopt") /\ Return(t))
  PROVE  Holding(os', pc', qfree, q)
<1>1. PICK m, type : m = pc[t].n /\ type = pc[t].svc
  OBVIOUS
<1>2. pc[t].at \in MboxStage /\ pc[t].at \in OnEvent /\ pc[t].at \in OnEvent \ PendStage
  BY DEF MboxStage, OnEvent, PendStage
<1>3. /\ e \in DOMAIN os.ev /\ os.ev[e].type = "mbox" /\ type = "mbox" /\ ArgInv(os.app, pc) /\ t \in Task
  BY ONLY <1>1, <1>2, Holding(os, pc, qfree, q), t = os.cur, e = pc[t].ev, CallFinds
<1>4. m \in Letter \cup {Null}
  BY ONLY <1>1, <1>3, pc[t].at \in {"mboxpost", "mboxopt"} DEF ArgInv
<1>5. CASE os.ev[e].wait # {}
  <2>1. Rouses(os, e, m, type, "ok", os')
    BY <1>1, <1>3, <1>5 DEF Rouses, MboxPost
  <2>2. "ok" \in {"ok", "abort"} /\ (Goto(t, "sched") \/ (pc[t].at \in {"mboxopt", "qopt"} /\ Return(t)))
    BY <1>5
  <2> QED
    BY ONLY <1>1, <1>2, <1>4, <1>5, <2>1, <2>2, Holding(os, pc, qfree, q), t = os.cur, e = pc[t].ev, RouserHolds
<1>6. CASE os.ev[e].wait = {} /\ os.ev[e].ptr # Null
  <2>1. UNCHANGED os /\ Return(t)
    BY <1>6 DEF MboxPost
  <2> QED
    BY ONLY <1>2, <2>1, Holding(os, pc, qfree, q), t = os.cur, NothingHolds
<1>7. CASE os.ev[e].wait = {} /\ os.ev[e].ptr = Null
  <2>1. os' = [os EXCEPT !.ev[e].ptr = m] /\ Return(t)
    BY <1>1, <1>7 DEF MboxPost
  <2> QED
    BY ONLY <1>2, <1>4, <1>7, <2>1, Holding(os, pc, qfree, q), t = os.cur, e = pc[t].ev, LayHolds
<1> QED
  BY ONLY <1>5, <1>6, <1>7

LEMMA MboxPostHolds ==
  ASSUME Holding(os, pc, qfree, q), NEW t, OSMboxPost(t)
  PROVE  Holding(os', pc', qfree, q)
<1>1. PICK e, all : e = pc[t].ev /\ all = FALSE
  OBVIOUS
<1>2. /\ t = os.cur /\ pc[t].at \in {"mboxpost", "mboxopt"} /\ os' = MboxPost(os, e, pc[t].n, all) /\ all \in BOOLEAN
      /\ (os.ev[e].wait # {} /\ Goto(t, "sched")) \/ ((os.ev[e].wait = {} \/ pc[t].at = "mboxopt") /\ Return(t))
  BY <1>1 DEF OSMboxPost, At
<1> QED
  BY ONLY <1>1, <1>2, Holding(os, pc, qfree, q), MboxPostedHolds

LEMMA MboxOptHolds ==
  ASSUME Holding(os, pc, qfree, q), NEW t, OSMboxPostOpt(t)
  PROVE  Holding(os', pc', qfree, q)
<1>1. PICK e : e = pc[t].ev
  OBVIOUS
<1>2. PICK all \in BOOLEAN : os' = MboxPost(os, e, pc[t].n, all)
  BY <1>1 DEF OSMboxPostOpt
<1>3. /\ t = os.cur /\ pc[t].at \in {"mboxpost", "mboxopt"}
      /\ (os.ev[e].wait # {} /\ Goto(t, "sched")) \/ ((os.ev[e].wait = {} \/ pc[t].at = "mboxopt") /\ Return(t))
  BY <1>1 DEF OSMboxPostOpt, At
<1> QED
  BY ONLY <1>1, <1>2, <1>3, Holding(os, pc, qfree, q), MboxPostedHolds

LEMMA IsrMboxHolds ==
  ASSUME Holding(os, pc, qfree, q), NEW e \in Event, NEW m \in Letter \cup {Null}, IsrMboxPost(e, m)
  PROVE  Holding(os', pc', qfree, q)
<1>1. TasksInv(os, pc) /\ OsType(os) /\ KeptInv(os, q) /\ e \in DOMAIN os.ev
  BY DEF Holding, TasksInv, Event
<1>2. os.ev[e].type = "mbox" /\ os' = OSIntExit(MboxPost(os, e, m, FALSE)) /\ pc' = pc
  BY DEF IsrMboxPost, InInterrupt
<1>3. os.ev[e] \in EcbType /\ Shape(os)
  BY ONLY <1>1 DEF OsType, EcbType
<1>4. CASE os.ev[e].wait # {}
  <2>1. PICK r : r = OS_EventTaskRdy(os, e, m, "mbox", "ok")
    OBVIOUS
  <2>2. os' = OSIntExit(r)
    BY ONLY <1>2, <1>4, <2>1 DEF MboxPost
  <2>3. Rouses(os, e, m, "mbox", "ok", r) /\ "mbox" \in Kinds
    BY ONLY <2>1 DEF Rouses, Kinds
  <2>4. Holding(os', pc, qfree, q)
    BY ONLY <1>1, <1>2, <1>4, <2>2, <2>3, m \in Letter \cup {Null}, Holding(os, pc, qfree, q), IsrRouseHolds
  <2> QED
    BY ONLY <1>2, <2>4
<1>5. CASE os.ev[e].wait = {} /\ os.ev[e].ptr = Null
  <2>1. PICK c, r : c = [os.ev[e] EXCEPT !.ptr = m] /\ r = [os EXCEPT !.ev[e].ptr = m]
    OBVIOUS
  <2>2. c \in EcbType /\ c.type = os.ev[e].type /\ c.wait = os.ev[e].wait /\ Sound(c)
    <3>1. Laid(os, e, m, c)
      BY ONLY <1>2, <1>3, <1>5, <2>1, m \in Letter \cup {Null} DEF Laid
    <3> QED
      BY ONLY <3>1, LaidIs
  <2>3. DataChange(os, e, c, r)
    <3>1. r = [os EXCEPT !.ev = [os.ev EXCEPT ![e] = c]]
      BY ONLY <1>1, <1>3, <2>1 DEF Shape
    <3> QED
      BY ONLY <3>1 DEF DataChange
  <2>4. os' = OSIntExit(r)
    BY ONLY <1>2, <1>5, <2>1 DEF MboxPost
  <2>5. Holding(os', pc, qfree, q)
    BY ONLY <1>1, <2>2, <2>3, <2>4, Holding(os, pc, qfree, q), IsrDataHolds
  <2> QED
    BY ONLY <1>2, <2>5
<1>6. CASE os.ev[e].wait = {} /\ os.ev[e].ptr # Null
  <2>1. os' = OSIntExit(os)
    BY ONLY <1>2, <1>6 DEF MboxPost
  <2>2. Holding(os', pc, qfree, q)
    BY ONLY <1>1, <2>1, Holding(os, pc, qfree, q), IsrNoneHolds
  <2> QED
    BY ONLY <1>2, <2>2
<1> QED
  BY ONLY <1>4, <1>5, <1>6

LEMMA MboxAbortHolds ==
  ASSUME Holding(os, pc, qfree, q), NEW t, OSMboxPendAbort(t)
  PROVE  Holding(os', pc', qfree, q)
<1>1. PICK e, type : e = pc[t].ev /\ type = pc[t].svc
  OBVIOUS
<1>2. t = os.cur /\ pc[t].at = "mboxabort" /\ pc[t].at \in MboxStage /\ pc[t].at \in OnEvent /\ pc[t].at \in OnEvent \ PendStage
  BY DEF OSMboxPendAbort, At, MboxStage, OnEvent, PendStage
<1>3. type = "mbox"
  BY ONLY <1>1, <1>2, Holding(os, pc, qfree, q), CallFinds
<1>4. CASE os.ev[e].wait # {}
  <2>1. Rouses(os, e, Null, type, "abort", os')
    BY <1>1, <1>3, <1>4 DEF Rouses, OSMboxPendAbort
  <2>2. Null \in Letter \cup {Null} /\ "abort" \in {"ok", "abort"} /\ Goto(t, "sched")
    BY <1>1, <1>4 DEF OSMboxPendAbort
  <2> QED
    BY ONLY <1>1, <1>2, <1>4, <2>1, <2>2, Holding(os, pc, qfree, q), RouserHolds
<1>5. CASE os.ev[e].wait = {}
  <2>1. UNCHANGED os /\ Return(t)
    BY <1>1, <1>5 DEF OSMboxPendAbort
  <2> QED
    BY ONLY <1>2, <2>1, Holding(os, pc, qfree, q), NothingHolds
<1> QED
  BY <1>4, <1>5

LEMMA MboxDelHolds ==
  ASSUME Holding(os, pc, qfree, q), NEW t, OSMboxDel(t)
  PROVE  Holding(os', pc', qfree, q)
<1>1. PICK e, type : e = pc[t].ev /\ type = pc[t].svc
  OBVIOUS
<1>2. /\ t = os.cur /\ pc[t].at = "mboxdel" /\ pc[t].at \in MboxStage /\ pc[t].at \in OnEvent /\ pc[t].at \in DelStage
      /\ pc[t].at \notin PendStage
  BY DEF OSMboxDel, At, MboxStage, OnEvent, PendStage, DelStage
<1>3. type = "mbox" /\ OnCall(os, pc, t, e, type)
  BY ONLY <1>1, <1>2, Holding(os, pc, qfree, q), CallFinds
<1>4. CASE pc[t].n = 0 /\ os.ev[e].wait # {}
  <2>1. UNCHANGED os /\ Return(t)
    BY <1>1, <1>4 DEF OSMboxDel
  <2> QED
    BY ONLY <1>2, <2>1, Holding(os, pc, qfree, q), NothingHolds
<1>5. CASE ~ (pc[t].n = 0 /\ os.ev[e].wait # {})
  <2>1. /\ os' = FreeEcb(ReadyAll(os, e, Null, type, "ok"), e) \/ (os.ev[e].wait = {} /\ os' = FreeEcb(os, e))
        /\ Goto(t, "sched") \/ (os.ev[e].wait = {} /\ Return(t))
    BY <1>1, <1>3, <1>5 DEF OSMboxDel
  <2>2. PICK g : g = qfree /\ type # "q"
    BY ONLY <1>3
  <2>3. Holding(os', pc', g, q)
    BY ONLY <1>2, <1>3, <2>1, <2>2, Holding(os, pc, qfree, q), DeleteHolds
  <2> QED
    BY ONLY <2>2, <2>3
<1> QED
  BY <1>4, <1>5
-----------------------------------------------------------------------------
\* A queue changes while nobody waits at it, or is then empty.
Turned(k, x, f, e, z, y) ==
  /\ QcbInv(k, f) /\ KeptInv(k, x) /\ e \in DOMAIN k.ev /\ k.ev[e].type = "q" /\ Ring(z) /\ (z.n > 0 => k.ev[e].wait = {})
  /\ y = [x EXCEPT ![k.ev[e].ptr] = z]
LEMMA TurnedKeeps ==
  ASSUME NEW k, NEW x, NEW f, NEW e, NEW z, NEW y, Turned(k, x, f, e, z, y)
  PROVE  KeptInv(k, y)
<1>1. PICK c : c = k.ev[e].ptr
  OBVIOUS
<1>2. /\ QcbInv(k, f) /\ KeptInv(k, x) /\ e \in DOMAIN k.ev /\ k.ev[e].type = "q" /\ Ring(z) /\ (z.n > 0 => k.ev[e].wait = {})
      /\ y = [x EXCEPT ![c] = z]
  BY <1>1 DEF Turned
<1>3. /\ c \in Qcb /\ \A g \in DOMAIN k.ev : k.ev[g].type = "q" => k.ev[g].ptr \in Qcb
      /\ \A g \in DOMAIN k.ev : k.ev[g].type = "q" /\ k.ev[g].ptr = c => g = e
  BY ONLY <1>1, <1>2 DEF QcbInv
<1>4. \A g \in DOMAIN k.ev : k.ev[g].type = "q" /\ k.ev[g].ptr = c /\ z.n > 0 => k.ev[g].wait = {}
  BY ONLY <1>2, <1>3
<1> QED
  BY ONLY ZenonT(40), <1>2, <1>3, <1>4, QueueChanges

\* What a call on a queue finds.
LEMMA QueueFinds ==
  ASSUME Holding(os, pc, qfree, q), NEW t, t = os.cur, pc[t].at \in QStage, NEW e, e = pc[t].ev, NEW c, c = os.ev[e].ptr
  PROVE  /\ pc[t].at \in OnEvent /\ e \in DOMAIN os.ev /\ os.ev[e].type = "q" /\ pc[t].svc = "q" /\ c \in Qcb /\ t \in Task
         /\ KeptInv(os, q) /\ QcbInv(os, qfree) /\ Ring(q[c]) /\ q[c] \in QcbType /\ q[c].n \in 0 .. Size
         /\ (q[c].n > 0 => os.ev[e].wait = {}) /\ ArgInv(os.app, pc)
<1>1. pc[t].at \in OnEvent
  BY DEF OnEvent
<1>2. /\ e \in DOMAIN os.ev /\ os.ev[e].type = "q" /\ pc[t].svc = "q" /\ KeptInv(os, q) /\ QcbInv(os, qfree) /\ t \in Task
      /\ ArgInv(os.app, pc)
  BY ONLY <1>1, Holding(os, pc, qfree, q), t = os.cur, e = pc[t].ev, pc[t].at \in QStage, CallFinds
<1>3. c \in Qcb
  BY ONLY <1>2, c = os.ev[e].ptr DEF QcbInv
<1>4. q[c] \in QcbType /\ Ring(q[c]) /\ (q[c].n > 0 => os.ev[e].wait = {})
  BY ONLY <1>2, <1>3, c = os.ev[e].ptr DEF KeptInv, Ring
<1>5. q[c].n \in 0 .. Size
  BY ONLY <1>4 DEF QcbType
<1> QED
  BY ONLY <1>1, <1>2, <1>3, <1>4, <1>5

\* The oldest message is taken.
LEMMA OldestHolds ==
  ASSUME Holding(os, pc, qfree, q), NEW t, t = os.cur, pc[t].at \in QStage, NEW e, e = pc[t].ev, NEW c, c = os.ev[e].ptr,
         q[c].n > 0, UNCHANGED os, Return(t), NEW y, y = [q EXCEPT ![c] = Out(@)]
  PROVE  Holding(os', pc', qfree, y)
<1>1. PICK x, z : x = q[c] /\ z = Out(x)
  OBVIOUS
<1>2. /\ pc[t].at \in OnEvent /\ e \in DOMAIN os.ev /\ os.ev[e].type = "q" /\ KeptInv(os, q) /\ QcbInv(os, qfree)
      /\ Ring(x) /\ x \in QcbType /\ x.n > 0 /\ os.ev[e].wait = {}
  BY ONLY <1>1, Holding(os, pc, qfree, q), t = os.cur, pc[t].at \in QStage, e = pc[t].ev, c = os.ev[e].ptr, q[c].n > 0, QueueFinds
<1>3. Ring(z)
  <2>1. Null \in Letter \cup {Null}
    OBVIOUS
  <2> QED
    BY ONLY <1>1, <1>2, <2>1, Rings
<1>4. y = [q EXCEPT ![os.ev[e].ptr] = z]
  BY ONLY <1>1, c = os.ev[e].ptr, y = [q EXCEPT ![c] = Out(@)]
<1>5. Turned(os, q, qfree, e, z, y)
  BY ONLY <1>2, <1>3, <1>4 DEF Turned
<1>6. KeptInv(os, y)
  BY ONLY <1>5, TurnedKeeps
<1> QED
  BY ONLY <1>2, <1>6, Holding(os, pc, qfree, q), t = os.cur, UNCHANGED os, Return(t), ReturnHolds

LEMMA QAcceptHolds ==
  ASSUME Holding(os, pc, qfree, q), NEW t, OSQAccept(t)
  PROVE  Holding(os', pc', qfree', q')
<1>1. PICK e, c : e = pc[t].ev /\ c = os.ev[e].ptr
  OBVIOUS
<1>2. t = os.cur /\ pc[t].at \in QStage /\ UNCHANGED os /\ Return(t) /\ qfree' = qfree
  BY DEF OSQAccept, At, QStage
<1>3. CASE q[c].n > 0
  <2>1. PICK y : y = q' /\ y = [q EXCEPT ![c] = Out(@)]
    BY <1>1, <1>3 DEF OSQAccept, TakeOldest, Of
  <2>2. Holding(os', pc', qfree, y)
    BY ONLY <1>1, <1>2, <1>3, <2>1, Holding(os, pc, qfree, q), OldestHolds
  <2> QED
    BY ONLY <1>2, <2>1, <2>2
<1>4. CASE ~ (q[c].n > 0)
  <2>1. q' = q
    BY <1>1, <1>4 DEF OSQAccept, Of
  <2>2. pc[t].at \in OnEvent
    BY ONLY <1>2 DEF OnEvent
  <2>3. Holding(os', pc', qfree, q)
    BY ONLY <1>2, <2>2, Holding(os, pc, qfree, q), NothingHolds
  <2> QED
    BY ONLY <1>2, <2>1, <2>3
<1> QED
  BY <1>3, <1>4

LEMMA QPendHolds ==
  ASSUME Holding(os, pc, qfree, q), NEW t, OSQPend(t)
  PROVE  Holding(os', pc', qfree', q')
<1>1. PICK e, c, type : e = pc[t].ev /\ c = os.ev[e].ptr /\ type = pc[t].svc
  OBVIOUS
<1>2. t = os.cur /\ pc[t].at \in QStage /\ qfree' = qfree /\ pc[t].at \in PendStage
  BY DEF OSQPend, At, QStage, PendStage
<1>3. CASE q[c].n > 0
  <2>1. PICK y : y = q' /\ y = [q EXCEPT ![c] = Out(@)] /\ UNCHANGED os /\ Return(t)
    BY <1>1, <1>3 DEF OSQPend, TakeOldest, Of
  <2>2. Holding(os', pc', qfree, y)
    BY ONLY <1>1, <1>2, <1>3, <2>1, Holding(os, pc, qfree, q), OldestHolds
  <2> QED
    BY ONLY <1>2, <2>1, <2>2
<1>4. CASE ~ (q[c].n > 0)
  <2>1. e \in DOMAIN os.ev /\ os.ev[e].type = "q" /\ type = "q" /\ q[c].n \in 0 .. Size
    BY ONLY <1>1, <1>2, Holding(os, pc, qfree, q), QueueFinds
  <2>2. q' = q /\ os' = WaitFor(os, e, type, pc[t].n) /\ Goto(t, "block")
    BY <1>1, <1>4, <2>1 DEF OSQPend, Of
  <2>3. Void(os, q, e)
    <3>1. q[c].n = 0
      BY ONLY <1>4, <2>1, QAssumption
    <3>2. os.ev[e].type = "q" /\ c = os.ev[e].ptr
      BY ONLY <1>1, <2>1
    <3> QED
      BY ONLY <3>1, <3>2 DEF Void
  <2>4. Holding(os', pc', qfree, q)
    BY ONLY <1>1, <1>2, <2>2, <2>3, Holding(os, pc, qfree, q), WaitHolds
  <2> QED
    BY ONLY <1>2, <2>2, <2>4
<1> QED
  BY <1>3, <1>4

LEMMA QWakeHolds ==
  ASSUME Holding(os, pc, qfree, q), NEW t, QWake(t)
  PROVE  Holding(os', pc', qfree', q')
<1>1. t = os.cur /\ pc[t].at = "wake" /\ os' = Awake(os, t, pc[t].ev) /\ Return(t) /\ qfree' = qfree /\ q' = q
  BY DEF QWake, Wakes, At
<1>2. Holding(os', pc', qfree, q)
  BY ONLY <1>1, Holding(os, pc, qfree, q), WakeHolds
<1> QED
  BY ONLY <1>1, <1>2

\* A message goes into a queue that nobody waits at.
Queueing(k, x, f, e, c, m, front, y) ==
  /\ QcbInv(k, f)
  /\ KeptInv(k, x)
  /\ e \in DOMAIN k.ev
  /\ k.ev[e].type = "q"
  /\ k.ev[e].wait = {}
  /\ c = k.ev[e].ptr
  /\ m \in Letter \cup {Null}
  /\ front \in BOOLEAN
  /\ y = [x EXCEPT ![c] = IF @.n >= Size THEN @ ELSE IF front THEN ToFront(@, m) ELSE In(@, m)]
LEMMA QueuedKeeps ==
  ASSUME NEW k, NEW x, NEW f, NEW e, NEW c, NEW m, NEW front, NEW y, Queueing(k, x, f, e, c, m, front, y)
  PROVE  KeptInv(k, y)
<1> SUFFICES ASSUME QcbInv(k, f), KeptInv(k, x), e \in DOMAIN k.ev, k.ev[e].type = "q", k.ev[e].wait = {}, c = k.ev[e].ptr,
                    m \in Letter \cup {Null}, front \in BOOLEAN,
                    y = [x EXCEPT ![c] = IF @.n >= Size THEN @ ELSE IF front THEN ToFront(@, m) ELSE In(@, m)]
             PROVE  KeptInv(k, y)
  BY DEF Queueing
<1>1. c \in Qcb
  BY DEF QcbInv
<1>2. PICK w, z : w = x[c] /\ z = (IF w.n >= Size THEN w ELSE IF front THEN ToFront(w, m) ELSE In(w, m))
  OBVIOUS
<1>3. w \in QcbType /\ Ring(w) /\ w.n \in 0 .. Size
  BY ONLY <1>1, <1>2, KeptInv(k, x) DEF KeptInv, Ring, QcbType
<1>4. w.n < Size => Ring(In(w, m)) /\ Ring(ToFront(w, m))
  BY ONLY <1>3, m \in Letter \cup {Null}, Rings
<1>5. Ring(z)
  BY ONLY <1>2, <1>3, <1>4, QAssumption, front \in BOOLEAN
<1>6. y = [x EXCEPT ![k.ev[e].ptr] = z]
  BY ONLY <1>2, c = k.ev[e].ptr, y = [x EXCEPT ![c] = IF @.n >= Size THEN @ ELSE IF front THEN ToFront(@, m) ELSE In(@, m)]
<1>7. Turned(k, x, f, e, z, y)
  BY ONLY <1>5, <1>6, QcbInv(k, f), KeptInv(k, x), e \in DOMAIN k.ev, k.ev[e].type = "q", k.ev[e].wait = {} DEF Turned
<1> QED
  BY ONLY <1>7, TurnedKeeps

\* A post to a queue by the task that runs.
LEMMA QPostedHolds ==
  ASSUME Holding(os, pc, qfree, q), NEW t, t = os.cur, pc[t].at \in {"qpost", "qpostfront", "qopt"}, NEW e, e = pc[t].ev,
         NEW front \in BOOLEAN, NEW all \in BOOLEAN, QPost(e, pc[t].n, front, all), qfree' = qfree,
         (os.ev[e].wait # {} /\ Goto(t, "sched")) \/ ((os.ev[e].wait = {} \/ pc[t].at = "qopt") /\ Return(t))
  PROVE  Holding(os', pc', qfree', q')
<1>1. PICK m, type, c : m = pc[t].n /\ type = pc[t].svc /\ c = os.ev[e].ptr
  OBVIOUS
<1>2. pc[t].at \in QStage /\ pc[t].at \in OnEvent /\ pc[t].at \in OnEvent \ PendStage
  BY DEF QStage, OnEvent, PendStage
<1>3. /\ e \in DOMAIN os.ev /\ os.ev[e].type = "q" /\ type = "q" /\ ArgInv(os.app, pc) /\ t \in Task /\ KeptInv(os, q) /\ QcbInv(os, qfree)
  BY ONLY <1>1, <1>2, Holding(os, pc, qfree, q), t = os.cur, e = pc[t].ev, QueueFinds
<1>4. m \in Letter \cup {Null}
  BY ONLY <1>1, <1>3, pc[t].at \in {"qpost", "qpostfront", "qopt"} DEF ArgInv
<1>5. CASE os.ev[e].wait # {}
  <2>1. Rouses(os, e, m, type, "ok", os') /\ q' = q
    BY <1>1, <1>3, <1>5 DEF Rouses, QPost
  <2>2. "ok" \in {"ok", "abort"} /\ (Goto(t, "sched") \/ (pc[t].at \in {"mboxopt", "qopt"} /\ Return(t)))
    BY <1>5
  <2>3. Holding(os', pc', qfree, q)
    BY ONLY <1>1, <1>2, <1>4, <1>5, <2>1, <2>2, Holding(os, pc, qfree, q), t = os.cur, e = pc[t].ev, RouserHolds
  <2> QED
    BY ONLY <2>1, <2>3, qfree' = qfree
<1>6. CASE os.ev[e].wait = {}
  <2>1. UNCHANGED os /\ Return(t)
    BY <1>6 DEF QPost
  <2>2. PICK y : y = q' /\ y = [q EXCEPT ![c] = IF @.n >= Size THEN @ ELSE IF front THEN ToFront(@, m) ELSE In(@, m)]
    BY <1>1, <1>6 DEF QPost, Of
  <2>3. KeptInv(os, y)
    <3>1. Queueing(os, q, qfree, e, c, m, front, y)
      BY ONLY <1>1, <1>3, <1>4, <1>6, <2>2, front \in BOOLEAN DEF Queueing
    <3> QED
      BY ONLY <3>1, QueuedKeeps
  <2>4. Holding(os', pc', qfree, y)
    BY ONLY <1>2, <2>1, <2>3, Holding(os, pc, qfree, q), t = os.cur, ReturnHolds
  <2> QED
    BY ONLY <2>2, <2>4, qfree' = qfree
<1> QED
  BY ONLY <1>5, <1>6

LEMMA QPostHolds ==
  ASSUME Holding(os, pc, qfree, q), NEW t, OSQPost(t)
  PROVE  Holding(os', pc', qfree', q')
<1>1. PICK e, all : e = pc[t].ev /\ all = FALSE
  OBVIOUS
<1>2. PICK front \in BOOLEAN : pc[t].at \in {"qpost", "qpostfront", "qopt"} /\ QPost(e, pc[t].n, front, all) /\ t = os.cur
  <2>1. (At(t, "qpost") /\ QPost(e, pc[t].n, FALSE, FALSE)) \/ (At(t, "qpostfront") /\ QPost(e, pc[t].n, TRUE, FALSE))
    BY <1>1 DEF OSQPost
  <2> QED
    BY ONLY <1>1, <2>1 DEF At
<1>3. /\ qfree' = qfree /\ all \in BOOLEAN
      /\ (os.ev[e].wait # {} /\ Goto(t, "sched")) \/ ((os.ev[e].wait = {} \/ pc[t].at = "qopt") /\ Return(t))
  BY <1>1 DEF OSQPost, Queued
<1> QED
  BY ONLY <1>1, <1>2, <1>3, Holding(os, pc, qfree, q), QPostedHolds

LEMMA QOptHolds ==
  ASSUME Holding(os, pc, qfree, q), NEW t, OSQPostOpt(t)
  PROVE  Holding(os', pc', qfree', q')
<1>1. PICK e : e = pc[t].ev
  OBVIOUS
<1>2. PICK front \in BOOLEAN, all \in BOOLEAN : QPost(e, pc[t].n, front, all)
  BY <1>1 DEF OSQPostOpt
<1>3. /\ t = os.cur /\ pc[t].at \in {"qpost", "qpostfront", "qopt"} /\ qfree' = qfree
      /\ (os.ev[e].wait # {} /\ Goto(t, "sched")) \/ ((os.ev[e].wait = {} \/ pc[t].at = "qopt") /\ Return(t))
  BY <1>1 DEF OSQPostOpt, At, Queued
<1> QED
  BY ONLY <1>1, <1>2, <1>3, Holding(os, pc, qfree, q), QPostedHolds

LEMMA IsrQHolds ==
  ASSUME Holding(os, pc, qfree, q), NEW e \in Event, NEW m \in Letter \cup {Null}, IsrQPost(e, m)
  PROVE  Holding(os', pc', qfree', q')
<1>1. TasksInv(os, pc) /\ OsType(os) /\ KeptInv(os, q) /\ QcbInv(os, qfree) /\ e \in DOMAIN os.ev
  BY DEF Holding, TasksInv, Event
<1>2. os.ev[e].type = "q" /\ pc' = pc /\ qfree' = qfree
  BY DEF IsrQPost, Queued
<1>3. PICK c : c = os.ev[e].ptr
  OBVIOUS
<1>4. CASE os.ev[e].wait # {}
  <2>1. PICK r : r = OS_EventTaskRdy(os, e, m, "q", "ok")
    OBVIOUS
  <2>2. os' = OSIntExit(r) /\ q' = q
    BY <1>4, <2>1 DEF IsrQPost
  <2>3. Rouses(os, e, m, "q", "ok", r) /\ "q" \in Kinds
    BY ONLY <2>1 DEF Rouses, Kinds
  <2>4. Holding(os', pc, qfree, q)
    BY ONLY <1>1, <1>2, <1>4, <2>2, <2>3, m \in Letter \cup {Null}, Holding(os, pc, qfree, q), IsrRouseHolds
  <2> QED
    BY ONLY <1>2, <2>2, <2>4
<1>5. CASE os.ev[e].wait = {}
  <2>1. PICK front, y : front = FALSE /\ y = [q EXCEPT ![c] = IF @.n >= Size THEN @ ELSE IF front THEN ToFront(@, m) ELSE In(@, m)]
    OBVIOUS
  <2>2. os' = OSIntExit(os) /\ q' = y
    BY <1>3, <1>5, <2>1 DEF IsrQPost, Of
  <2>3. KeptInv(os, y)
    <3>1. front \in BOOLEAN
      BY ONLY <2>1
    <3> QED
      <4>1. Queueing(os, q, qfree, e, c, m, front, y)
        BY ONLY <1>1, <1>2, <1>3, <1>5, <2>1, <3>1, m \in Letter \cup {Null} DEF Queueing
      <4> QED
        BY ONLY <4>1, QueuedKeeps
  <2>4. Holding(os', pc, qfree, y)
    BY ONLY <1>1, <2>2, <2>3, Holding(os, pc, qfree, q), IsrNoneHolds
  <2> QED
    BY ONLY <1>2, <2>2, <2>4
<1> QED
  BY ONLY <1>4, <1>5

LEMMA QAbortHolds ==
  ASSUME Holding(os, pc, qfree, q), NEW t, OSQPendAbort(t)
  PROVE  Holding(os', pc', qfree', q')
<1>1. PICK e, type : e = pc[t].ev /\ type = pc[t].svc
  OBVIOUS
<1>2. /\ t = os.cur /\ pc[t].at = "qabort" /\ pc[t].at \in QStage /\ pc[t].at \in OnEvent /\ pc[t].at \in OnEvent \ PendStage
      /\ qfree' = qfree /\ q' = q
  BY DEF OSQPendAbort, At, QStage, OnEvent, PendStage, queues
<1>3. type = "q"
  BY ONLY <1>1, <1>2, Holding(os, pc, qfree, q), CallFinds
<1>4. CASE os.ev[e].wait # {}
  <2>1. Rouses(os, e, Null, type, "abort", os')
    BY <1>1, <1>3, <1>4 DEF Rouses, OSQPendAbort
  <2>2. Null \in Letter \cup {Null} /\ "abort" \in {"ok", "abort"} /\ Goto(t, "sched")
    BY <1>1, <1>4 DEF OSQPendAbort
  <2>3. Holding(os', pc', qfree, q)
    BY ONLY <1>1, <1>2, <1>4, <2>1, <2>2, Holding(os, pc, qfree, q), RouserHolds
  <2> QED
    BY ONLY <1>2, <2>3
<1>5. CASE os.ev[e].wait = {}
  <2>1. UNCHANGED os /\ Return(t)
    BY <1>1, <1>5 DEF OSQPendAbort
  <2>2. Holding(os', pc', qfree, q)
    BY ONLY <1>2, <2>1, Holding(os, pc, qfree, q), NothingHolds
  <2> QED
    BY ONLY <1>2, <2>2
<1> QED
  BY <1>4, <1>5

LEMMA QFlushHolds ==
  ASSUME Holding(os, pc, qfree, q), NEW t, OSQFlush(t)
  PROVE  Holding(os', pc', qfree', q')
<1>1. PICK e, c, x, z : e = pc[t].ev /\ c = os.ev[e].ptr /\ x = q[c] /\ z = EmptyQ(x)
  OBVIOUS
<1>2. t = os.cur /\ pc[t].at \in QStage /\ UNCHANGED os /\ Return(t) /\ qfree' = qfree
  BY DEF OSQFlush, At, QStage
<1>3. PICK y : y = q' /\ y = [q EXCEPT ![c] = EmptyQ(@)]
  BY <1>1 DEF OSQFlush, Of
<1>4. /\ pc[t].at \in OnEvent /\ e \in DOMAIN os.ev /\ os.ev[e].type = "q" /\ KeptInv(os, q) /\ QcbInv(os, qfree)
      /\ Ring(x) /\ x \in QcbType
  BY ONLY <1>1, <1>2, Holding(os, pc, qfree, q), QueueFinds
<1>5. Ring(z) /\ z.n = 0
  <2>1. Null \in Letter \cup {Null}
    OBVIOUS
  <2> QED
    BY ONLY <1>1, <1>4, <2>1, Rings
<1>6. y = [q EXCEPT ![os.ev[e].ptr] = z]
  BY ONLY <1>1, <1>3
<1>7. KeptInv(os, y)
  <2>1. z.n > 0 => os.ev[e].wait = {}
    BY ONLY <1>5
  <2>2. Turned(os, q, qfree, e, z, y)
    BY ONLY <1>4, <1>5, <1>6, <2>1 DEF Turned
  <2> QED
    BY ONLY <2>2, TurnedKeeps
<1>8. Holding(os', pc', qfree, y)
  BY ONLY <1>2, <1>4, <1>7, Holding(os, pc, qfree, q), ReturnHolds
<1> QED
  BY ONLY <1>2, <1>3, <1>8

LEMMA QDelHolds ==
  ASSUME Holding(os, pc, qfree, q), NEW t, OSQDel(t)
  PROVE  Holding(os', pc', qfree', q')
<1>1. PICK e, type : e = pc[t].ev /\ type = pc[t].svc
  OBVIOUS
<1>2. /\ t = os.cur /\ pc[t].at = "qdel" /\ pc[t].at \in QStage /\ pc[t].at \in OnEvent /\ pc[t].at \in DelStage
      /\ pc[t].at \notin PendStage
  BY DEF OSQDel, At, QStage, OnEvent, PendStage, DelStage
<1>3. type = "q" /\ OnCall(os, pc, t, e, type)
  BY ONLY <1>1, <1>2, Holding(os, pc, qfree, q), CallFinds
<1>4. CASE pc[t].n = 0 /\ os.ev[e].wait # {}
  <2>1. UNCHANGED os /\ Return(t) /\ q' = q /\ qfree' = qfree
    BY <1>1, <1>4 DEF OSQDel
  <2>2. Holding(os', pc', qfree, q)
    BY ONLY <1>2, <2>1, Holding(os, pc, qfree, q), NothingHolds
  <2> QED
    BY ONLY <2>1, <2>2
<1>5. CASE ~ (pc[t].n = 0 /\ os.ev[e].wait # {})
  <2>1. /\ os' = FreeEcb(ReadyAll(os, e, Null, type, "ok"), e) \/ (os.ev[e].wait = {} /\ os' = FreeEcb(os, e))
        /\ Goto(t, "sched") \/ (os.ev[e].wait = {} /\ Return(t))
    BY <1>1, <1>3, <1>5 DEF OSQDel
  <2>2. PICK g : g = qfree' /\ g = <<os.ev[e].ptr>> \o qfree
    BY <1>1, <1>5 DEF OSQDel, Of
  <2>3. q' = q
    BY <1>1, <1>5 DEF OSQDel
  <2>4. (type # "q" => g = qfree) /\ (type = "q" => g = <<os.ev[e].ptr>> \o qfree)
    BY ONLY <1>3, <2>2
  <2>5. Holding(os', pc', g, q)
    BY ONLY <1>2, <1>3, <2>1, <2>4, Holding(os, pc, qfree, q), DeleteHolds
  <2> QED
    BY ONLY <2>2, <2>3, <2>5
<1> QED
  BY <1>4, <1>5
-----------------------------------------------------------------------------
\* A call on an event as each kind of event has it.
Asking(t, op, type, e, n) ==
  /\ op \in OnEvent /\ type \in Kinds /\ e \in Event /\ Enter(t, op, type, e, n) /\ n \in Nat \cup Letter \cup {Null}
  /\ (op \in PendStage => n \in 0 .. MaxDly /\ os.lock = 0)
  /\ (op = "semset" => n \in 0 .. 1)
  /\ (op \in {"mboxpost", "mboxopt", "qpost", "qpostfront", "qopt"} => n \in Letter \cup {Null})
  /\ (op \in SemStage => type = "sem") /\ (op \in MboxStage => type = "mbox") /\ (op \in QStage => type = "q")
  /\ (\A u \in Task : type = "sem" => pc[u].at # "semdel") /\ (\A u \in Task : type = "mbox" => pc[u].at # "mboxdel")
  /\ (\A u \in Task : type = "q" => pc[u].at # "qdel") /\ (op \in DelStage => Idling(e))

LEMMA Entered ==
  ASSUME Holding(os, pc, qfree, q), NEW t, t = os.cur, NEW op, NEW type, NEW e, NEW n, Asking(t, op, type, e, n)
  PROVE  Holding(os', pc', qfree, q)
<1>1. op \in OnEvent /\ type \in Kinds /\ e \in Event
  BY DEF Asking
<1>2. /\ Enter(t, op, type, e, n) /\ n \in Nat \cup Letter \cup {Null}
      /\ (op \in PendStage => n \in 0 .. MaxDly /\ os.lock = 0)
      /\ (op = "semset" => n \in 0 .. 1)
      /\ (op \in {"mboxpost", "mboxopt", "qpost", "qpostfront", "qopt"} => n \in Letter \cup {Null})
      /\ (op \in SemStage => type = "sem") /\ (op \in MboxStage => type = "mbox") /\ (op \in QStage => type = "q")
      /\ (op \in DelStage => Idling(e))
  BY DEF Asking
<1>3. /\ (\A u \in Task : type = "sem" => pc[u].at # "semdel") /\ (\A u \in Task : type = "mbox" => pc[u].at # "mboxdel")
      /\ (\A u \in Task : type = "q" => pc[u].at # "qdel")
  BY DEF Asking
<1> QED
  BY ONLY <1>1, <1>2, <1>3, Holding(os, pc, qfree, q), t = os.cur, EnterHolds

\* The bounds the application keeps to.
LEMMA Bounds ==
  ASSUME Holding(os, pc, qfree, q)
  PROVE  /\ os.app \in DOMAIN App /\ MaxDly \in Nat /\ Msg \subseteq Letter /\ os.cur \in Task /\ OsType(os) /\ Ops \cap Others = {}
         /\ Fresh \subseteq Prio /\ os.list \subseteq Task
<1>1. TasksInv(os, pc) /\ OsType(os)
  BY DEF Holding, TasksInv
<1>2. os.app \in DOMAIN App /\ os.cur \in Task /\ os.list \subseteq Task
  BY <1>1 DEF OsType
<1>3. MaxDly \in Nat /\ Fresh \subseteq Prio
  BY <1>2, AppAssumption DEF MaxDly, Fresh, Prio
<1>4. Msg \subseteq Letter
  BY <1>2 DEF Msg, Letter
<1>5. Ops \cap Others = {}
  BY <1>1 DEF TasksInv, Ops
<1> QED
  BY <1>1, <1>2, <1>3, <1>4, <1>5

LEMMA SemCallHolds ==
  ASSUME Holding(os, pc, qfree, q), NEW t, t = os.cur, NEW e \in Event, SemCall(t, e)
  PROVE  Holding(os', pc', qfree, q)
<1>1. MaxDly \in Nat
  BY Bounds
<1>2. PICK op, n : /\ op \in SemStage /\ Enter(t, op, "sem", e, n) /\ n \in Nat /\ (op = "sempend" => n \in 0 .. MaxDly /\ os.lock = 0)
                   /\ (op = "semset" => n \in 0 .. 1) /\ (op = "semdel" => Idling(e))
  <2> DEFINE P(op, n) == /\ op \in SemStage /\ Enter(t, op, "sem", e, n) /\ n \in Nat
                         /\ (op = "sempend" => n \in 0 .. MaxDly /\ os.lock = 0)
                         /\ (op = "semset" => n \in 0 .. 1) /\ (op = "semdel" => Idling(e))
  <2>1. CASE Enter(t, "semaccept", "sem", e, 0)
    <3>1. P("semaccept", 0)
      BY <2>1 DEF SemStage
    <3> QED
      BY ONLY <3>1
  <2>2. CASE \E n \in 0 .. MaxDly : Blocks(t, "sempend", "sem", e, n)
    <3>1. PICK n \in 0 .. MaxDly : Blocks(t, "sempend", "sem", e, n)
      BY <2>2
    <3>2. P("sempend", n)
      BY <1>1, <3>1 DEF SemStage, Blocks
    <3> QED
      BY ONLY <3>2
  <2>3. CASE Enter(t, "sempost", "sem", e, 0)
    <3>1. P("sempost", 0)
      BY <2>3 DEF SemStage
    <3> QED
      BY ONLY <3>1
  <2>4. CASE Enter(t, "semabort", "sem", e, 0)
    <3>1. P("semabort", 0)
      BY <2>4 DEF SemStage
    <3> QED
      BY ONLY <3>1
  <2>5. CASE \E n \in 0 .. 1 : Enter(t, "semset", "sem", e, n)
    <3>1. PICK n \in 0 .. 1 : Enter(t, "semset", "sem", e, n)
      BY <2>5
    <3>2. P("semset", n)
      BY <3>1 DEF SemStage
    <3> QED
      BY ONLY <3>2
  <2>6. CASE Idling(e) /\ \E n \in 0 .. 1 : Enter(t, "semdel", "sem", e, n)
    <3>1. PICK n \in 0 .. 1 : Enter(t, "semdel", "sem", e, n)
      BY <2>6
    <3>2. P("semdel", n)
      BY <2>6, <3>1 DEF SemStage
    <3> QED
      BY ONLY <3>2
  <2> QED
    BY <2>1, <2>2, <2>3, <2>4, <2>5, <2>6 DEF SemCall
<1>3. \A u \in Task : pc[u].at # "semdel"
  BY DEF SemCall
<1>4. Asking(t, op, "sem", e, n)
  BY ONLY <1>2, <1>3, e \in Event DEF Asking, OnEvent, SemStage, MboxStage, QStage, PendStage, DelStage, Kinds
<1> QED
  BY ONLY <1>4, Holding(os, pc, qfree, q), t = os.cur, Entered

LEMMA MboxCallHolds ==
  ASSUME KernelInv, NEW t, t = os.cur, NEW e \in Event, MboxCall(t, e)
  PROVE  Holding(os', pc', qfree, q)
<1>1. Holding(os, pc, qfree, q) /\ MaxDly \in Nat /\ mine[t] \subseteq Letter \cup {Null}
  BY Bounds DEF KernelInv
<1>2. PICK op, n : /\ op \in MboxStage /\ Enter(t, op, "mbox", e, n) /\ n \in Nat \cup Letter \cup {Null}
                   /\ (op = "mboxpend" => n \in 0 .. MaxDly /\ os.lock = 0)
                   /\ (op \in {"mboxpost", "mboxopt"} => n \in Letter \cup {Null}) /\ (op = "mboxdel" => Idling(e))
  <2> DEFINE P(op, n) == /\ op \in MboxStage /\ Enter(t, op, "mbox", e, n) /\ n \in Nat \cup Letter \cup {Null}
                         /\ (op = "mboxpend" => n \in 0 .. MaxDly /\ os.lock = 0)
                         /\ (op \in {"mboxpost", "mboxopt"} => n \in Letter \cup {Null}) /\ (op = "mboxdel" => Idling(e))
  <2>1. CASE Enter(t, "mboxaccept", "mbox", e, 0)
    <3>1. P("mboxaccept", 0)
      BY <2>1 DEF MboxStage
    <3> QED
      BY ONLY <3>1
  <2>2. CASE \E n \in 0 .. MaxDly : Blocks(t, "mboxpend", "mbox", e, n)
    <3>1. PICK n \in 0 .. MaxDly : Blocks(t, "mboxpend", "mbox", e, n)
      BY <2>2
    <3>2. P("mboxpend", n)
      BY <1>1, <3>1 DEF MboxStage, Blocks
    <3> QED
      BY ONLY <3>2
  <2>3. CASE \E m \in mine[t], op \in {"mboxpost", "mboxopt"} : Enter(t, op, "mbox", e, m)
    <3>1. PICK m \in mine[t], op \in {"mboxpost", "mboxopt"} : Enter(t, op, "mbox", e, m)
      BY <2>3
    <3>2. P(op, m)
      BY <1>1, <3>1 DEF MboxStage
    <3> QED
      BY ONLY <3>2
  <2>4. CASE Enter(t, "mboxabort", "mbox", e, 0)
    <3>1. P("mboxabort", 0)
      BY <2>4 DEF MboxStage
    <3> QED
      BY ONLY <3>1
  <2>6. CASE Idling(e) /\ \E n \in 0 .. 1 : Enter(t, "mboxdel", "mbox", e, n)
    <3>1. PICK n \in 0 .. 1 : Enter(t, "mboxdel", "mbox", e, n)
      BY <2>6
    <3>2. P("mboxdel", n)
      BY <2>6, <3>1 DEF MboxStage
    <3> QED
      BY ONLY <3>2
  <2> QED
    BY <2>1, <2>2, <2>3, <2>4, <2>6 DEF MboxCall
<1>3. \A u \in Task : pc[u].at # "mboxdel"
  BY DEF MboxCall
<1>4. Asking(t, op, "mbox", e, n)
  BY ONLY <1>2, <1>3, e \in Event DEF Asking, OnEvent, SemStage, MboxStage, QStage, PendStage, DelStage, Kinds
<1> QED
  BY ONLY <1>1, <1>4, t = os.cur, Entered

LEMMA QCallHolds ==
  ASSUME KernelInv, NEW t, t = os.cur, NEW e \in Event, QCall(t, e)
  PROVE  Holding(os', pc', qfree, q)
<1>1. Holding(os, pc, qfree, q) /\ MaxDly \in Nat /\ mine[t] \subseteq Letter \cup {Null}
  BY Bounds DEF KernelInv
<1>2. PICK op, n : /\ op \in QStage /\ Enter(t, op, "q", e, n) /\ n \in Nat \cup Letter \cup {Null}
                   /\ (op = "qpend" => n \in 0 .. MaxDly /\ os.lock = 0)
                   /\ (op \in {"qpost", "qpostfront", "qopt"} => n \in Letter \cup {Null}) /\ (op = "qdel" => Idling(e))
  <2> DEFINE P(op, n) == /\ op \in QStage /\ Enter(t, op, "q", e, n) /\ n \in Nat \cup Letter \cup {Null}
                         /\ (op = "qpend" => n \in 0 .. MaxDly /\ os.lock = 0)
                         /\ (op \in {"qpost", "qpostfront", "qopt"} => n \in Letter \cup {Null}) /\ (op = "qdel" => Idling(e))
  <2>1. CASE Enter(t, "qaccept", "q", e, 0)
    <3>1. P("qaccept", 0)
      BY <2>1 DEF QStage
    <3> QED
      BY ONLY <3>1
  <2>2. CASE \E n \in 0 .. MaxDly : Blocks(t, "qpend", "q", e, n)
    <3>1. PICK n \in 0 .. MaxDly : Blocks(t, "qpend", "q", e, n)
      BY <2>2
    <3>2. P("qpend", n)
      BY <1>1, <3>1 DEF QStage, Blocks
    <3> QED
      BY ONLY <3>2
  <2>3. CASE \E m \in mine[t], op \in {"qpost", "qpostfront", "qopt"} : Enter(t, op, "q", e, m)
    <3>1. PICK m \in mine[t], op \in {"qpost", "qpostfront", "qopt"} : Enter(t, op, "q", e, m)
      BY <2>3
    <3>2. P(op, m)
      BY <1>1, <3>1 DEF QStage
    <3> QED
      BY ONLY <3>2
  <2>4. CASE Enter(t, "qabort", "q", e, 0)
    <3>1. P("qabort", 0)
      BY <2>4 DEF QStage
    <3> QED
      BY ONLY <3>1
  <2>5. CASE Enter(t, "qflush", "q", e, 0)
    <3>1. P("qflush", 0)
      BY <2>5 DEF QStage
    <3> QED
      BY ONLY <3>1
  <2>6. CASE Idling(e) /\ \E n \in 0 .. 1 : Enter(t, "qdel", "q", e, n)
    <3>1. PICK n \in 0 .. 1 : Enter(t, "qdel", "q", e, n)
      BY <2>6
    <3>2. P("qdel", n)
      BY <2>6, <3>1 DEF QStage
    <3> QED
      BY ONLY <3>2
  <2> QED
    BY <2>1, <2>2, <2>3, <2>4, <2>5, <2>6 DEF QCall
<1>3. \A u \in Task : pc[u].at # "qdel"
  BY DEF QCall
<1>4. Asking(t, op, "q", e, n)
  BY ONLY <1>2, <1>3, e \in Event DEF Asking, OnEvent, SemStage, MboxStage, QStage, PendStage, DelStage, Kinds
<1> QED
  BY ONLY <1>1, <1>4, t = os.cur, Entered
-----------------------------------------------------------------------------
\* The messages a task holds are the application's.
Purse == [Task -> SUBSET (Letter \cup {Null})]
LEMMA PurseKept ==
  ASSUME mine \in Purse, NEW t, NEW m \in Letter \cup {Null}, Holds(t, m) \/ Gives(t, m) \/ mine' = mine
  PROVE  mine' \in Purse
<1>1. CASE Holds(t, m)
  BY <1>1 DEF Holds, Purse
<1>2. CASE Gives(t, m)
  BY <1>2 DEF Gives, Purse
<1> QED
  BY <1>1, <1>2

\* The message handed to a task on its way out of a Pend.
LEMMA HandedIs ==
  ASSUME Holding(os, pc, qfree, q), NEW t \in Task
  PROVE  os.tcb[t].msg \in Letter \cup {Null}
<1>1. os.tcb \in [Task -> TcbType]
  BY DEF Holding, TasksInv, OsType
<1>2. os.tcb[t] \in TcbType
  BY <1>1
<1> QED
  BY ONLY <1>2 DEF TcbType

\* What a mailbox holds is a message.
LEMMA LetterIn ==
  ASSUME Holding(os, pc, qfree, q), NEW t, t = os.cur, pc[t].at \in MboxStage
  PROVE  os.ev[pc[t].ev].ptr \in Letter \cup {Null}
<1>1. pc[t].at \in OnEvent
  BY DEF OnEvent
<1>2. PICK e : e = pc[t].ev
  OBVIOUS
<1>3. e \in DOMAIN os.ev /\ os.ev[e].type = "mbox" /\ KeptInv(os, q)
  BY ONLY <1>1, <1>2, Holding(os, pc, qfree, q), t = os.cur, pc[t].at \in MboxStage, CallFinds
<1> QED
  BY ONLY <1>2, <1>3, Lying

LEMMA MboxMine ==
  ASSUME Holding(os, pc, qfree, q), mine \in Purse, NEW t, t \in Task, MboxStep(t)
  PROVE  mine' \in Purse
<1>0. Null \in Letter \cup {Null}
  OBVIOUS
<1>1. CASE OSMboxAccept(t)
  <2>1. t = os.cur /\ pc[t].at \in MboxStage /\ Holds(t, os.ev[pc[t].ev].ptr)
    BY <1>1 DEF OSMboxAccept, At, MboxStage
  <2> QED
    BY ONLY <2>1, Holding(os, pc, qfree, q), mine \in Purse, LetterIn, PurseKept
<1>2. CASE OSMboxPend(t)
  <2>1. t = os.cur /\ pc[t].at \in MboxStage /\ (Holds(t, os.ev[pc[t].ev].ptr) \/ mine' = mine)
    BY <1>2 DEF OSMboxPend, At, MboxStage
  <2> QED
    BY ONLY <2>1, Holding(os, pc, qfree, q), mine \in Purse, LetterIn, PurseKept
<1>3. CASE MboxWake(t)
  <2>1. PICK m : m = (IF os.tcb[t].pend = "ok" THEN os.tcb[t].msg ELSE Null)
    OBVIOUS
  <2>2. Holds(t, m)
    BY <1>3, <2>1 DEF MboxWake
  <2>3. m \in Letter \cup {Null}
    BY <2>1, HandedIs
  <2> QED
    BY ONLY <2>2, <2>3, mine \in Purse, PurseKept
<1>4. CASE OSMboxPost(t) \/ OSMboxPostOpt(t)
  <2>1. mine' = mine \/ Gives(t, pc[t].n)
    BY <1>4 DEF OSMboxPost, OSMboxPostOpt, Posted
  <2> QED
    BY <2>1 DEF Gives, Purse
<1>5. CASE OSMboxPendAbort(t) \/ OSMboxCreate(t)
  BY <1>5 DEF OSMboxPendAbort, OSMboxCreate
<1>6. CASE OSMboxDel(t)
  <2>1. t = os.cur /\ pc[t].at \in MboxStage
    BY <1>6 DEF OSMboxDel, At, MboxStage
  <2>2. PICK m : Holds(t, m) /\ m \in {os.ev[pc[t].ev].ptr, Null}
    BY <1>6 DEF OSMboxDel
  <2>3. m \in Letter \cup {Null}
    BY ONLY <2>1, <2>2, Holding(os, pc, qfree, q), LetterIn
  <2> QED
    BY ONLY <2>2, <2>3, mine \in Purse, PurseKept
<1> QED
  BY <1>1, <1>2, <1>3, <1>4, <1>5, <1>6 DEF MboxStep

\* The entries of a ring are messages.
LEMMA EntriesAre ==
  ASSUME NEW x \in QcbType
  PROVE  {Entries(x)[i] : i \in 1 .. x.n} \subseteq Letter \cup {Null}
<1>1. SUFFICES ASSUME NEW i \in 1 .. x.n
               PROVE  Entries(x)[i] \in Letter \cup {Null}
  OBVIOUS
<1>2. x.out \in 0 .. Size - 1 /\ x.n \in 0 .. Size /\ x.buf \in [0 .. Size - 1 -> Letter \cup {Null}]
  BY DEF QcbType
<1>3. Size \in Nat \ {0} /\ x.out + i - 1 \in Nat
  BY <1>2, QAssumption
<1>4. (x.out + i - 1) % Size \in 0 .. Size - 1
  BY ONLY <1>3
<1>5. Entries(x)[i] = x.buf[(x.out + i - 1) % Size]
  BY DEF Entries
<1> QED
  BY ONLY <1>2, <1>4, <1>5

LEMMA QMine ==
  ASSUME Holding(os, pc, qfree, q), mine \in Purse, NEW t, t \in Task, t = os.cur, QStep(t)
  PROVE  mine' \in Purse
<1>1. CASE pc[t].at \in QStage
  <2>1. pc[t].at \in OnEvent
    BY <1>1 DEF OnEvent
  <2>2. PICK e, c, x : e = pc[t].ev /\ c = os.ev[e].ptr /\ x = q[c]
    OBVIOUS
  <2>3. x \in QcbType /\ Ring(x)
    BY ONLY <1>1, <2>1, <2>2, Holding(os, pc, qfree, q), t = os.cur, QueueFinds
  <2>4. x.n > 0 => Oldest(x) \in Letter \cup {Null}
    <3>1. Null \in Letter \cup {Null}
      OBVIOUS
    <3> QED
      BY ONLY <2>3, <3>1, Rings
  <2>5. {Entries(x)[i] : i \in 1 .. x.n} \subseteq Letter \cup {Null}
    BY ONLY <2>3, EntriesAre
  <2>6. \/ mine' = mine
        \/ Gives(t, pc[t].n)
        \/ x.n > 0 /\ Holds(t, Oldest(x))
        \/ mine' = [mine EXCEPT ![t] = @ \cup {Entries(x)[i] : i \in 1 .. x.n}]
    <3>1. CASE OSQAccept(t) \/ OSQPend(t)
      BY <2>2, <3>1 DEF OSQAccept, OSQPend, TakeOldest, Of
    <3>2. CASE OSQPost(t) \/ OSQPostOpt(t)
      BY <3>2 DEF OSQPost, OSQPostOpt, Queued
    <3>3. CASE OSQPendAbort(t) \/ OSQCreate(t) \/ TakeQcb(t)
      BY <3>3 DEF OSQPendAbort, OSQCreate, TakeQcb
    <3>4. CASE OSQFlush(t) \/ OSQDel(t)
      <4>1. x = q[os.ev[pc[t].ev].ptr]
        BY ONLY <2>2
      <4>2. CASE OSQFlush(t)
        <5>1. mine' = [mine EXCEPT ![t] = @ \cup {Entries(q[os.ev[pc[t].ev].ptr])[i] : i \in 1 .. q[os.ev[pc[t].ev].ptr].n}]
          BY ONLY <4>2, Zenon DEF OSQFlush, Of
        <5> QED
          BY ONLY <4>1, <5>1, Zenon
      <4>3. CASE OSQDel(t)
        <5>1. \/ mine' = mine
              \/ mine' = [mine EXCEPT ![t] = @ \cup {Entries(q[os.ev[pc[t].ev].ptr])[i] : i \in 1 .. q[os.ev[pc[t].ev].ptr].n}]
          BY ONLY <4>3, Zenon DEF OSQDel, Of
        <5> QED
          BY ONLY <4>1, <5>1, Zenon
      <4> QED
        BY ONLY <3>4, <4>2, <4>3
    <3>5. ~ QWake(t)
      BY <1>1 DEF QWake, Wakes, At, QStage
    <3> QED
      BY <3>1, <3>2, <3>3, <3>4, <3>5 DEF QStep
  <2>7. CASE mine' = mine \/ Gives(t, pc[t].n)
    BY <2>7 DEF Gives, Purse
  <2>8. CASE x.n > 0 /\ Holds(t, Oldest(x))
    BY ONLY <2>4, <2>8, mine \in Purse, PurseKept
  <2>9. CASE mine' = [mine EXCEPT ![t] = @ \cup {Entries(x)[i] : i \in 1 .. x.n}]
    <3>1. PICK s : s = {Entries(x)[i] : i \in 1 .. x.n}
      OBVIOUS
    <3> QED
      BY ONLY <2>5, <2>9, <3>1, mine \in Purse, t \in Task DEF Purse
  <2> QED
    BY <2>6, <2>7, <2>8, <2>9
<1>2. CASE pc[t].at \notin QStage
  <2>1. QWake(t) \/ OSQCreate(t) \/ TakeQcb(t)
    BY <1>2 DEF QStep, OSQAccept, OSQPend, OSQPost, OSQPostOpt, OSQPendAbort, OSQFlush, OSQDel, At, QStage
  <2>2. CASE QWake(t)
    <3>1. PICK m : m = (IF os.tcb[t].pend = "ok" THEN os.tcb[t].msg ELSE Null)
      OBVIOUS
    <3>2. Holds(t, m)
      BY <2>2, <3>1 DEF QWake
    <3>3. m \in Letter \cup {Null}
      BY <3>1, HandedIs
    <3> QED
      BY ONLY <3>2, <3>3, mine \in Purse, PurseKept
  <2>3. CASE OSQCreate(t) \/ TakeQcb(t)
    BY <2>3 DEF OSQCreate, TakeQcb
  <2> QED
    BY <2>1, <2>2, <2>3
<1> QED
  BY <1>1, <1>2
-----------------------------------------------------------------------------
\* One step of the kernel after another: a task's own service or the tick.
LEMMA TasksStep ==
  ASSUME Holding(os, pc, qfree, q), Tick \/ \E t \in {os.cur} : TaskStep(t)
  PROVE  Holding(os', pc', qfree, q)
<1>1. CASE Tick
  <2>1. os' = OSIntExit(OSTimeTick(os)) /\ pc' = pc
    BY <1>1 DEF Tick, InInterrupt
  <2> QED
    BY ONLY <2>1, Holding(os, pc, qfree, q), TickHolds
<1>2. ASSUME NEW t \in {os.cur}, TaskStep(t)
      PROVE  Holding(os', pc', qfree, q)
  <2>1. Fresh \subseteq Prio
    BY Bounds
  <2>2. CASE Reschedule(t)
    BY ONLY <2>2, Holding(os, pc, qfree, q), RescheduleHolds
  <2>3. ASSUME NEW n \in 1 .. MaxDly, OSTimeDly(t, n)
        PROVE  Holding(os', pc', qfree, q)
    <3>1. n \in 1 .. MaxDly
      OBVIOUS
    <3> QED
      BY ONLY <2>3, <3>1, Holding(os, pc, qfree, q), DlyHolds
  <2>4. ASSUME NEW x \in Prio, \/ OSTimeDlyResume(t, x) \/ OSTaskSuspend(t, x) \/ OSTaskResume(t, x)
                               \/ OSTaskDel(t, x) \/ OSTaskDelReq(t, x)
        PROVE  Holding(os', pc', qfree, q)
    <3>1. x \in Prio
      OBVIOUS
    <3>2. CASE OSTimeDlyResume(t, x)
      BY ONLY <3>1, <3>2, Holding(os, pc, qfree, q), DlyResumeHolds
    <3>3. CASE OSTaskSuspend(t, x)
      BY ONLY <3>1, <3>3, Holding(os, pc, qfree, q), SuspendHolds
    <3>4. CASE OSTaskResume(t, x)
      BY ONLY <3>1, <3>4, Holding(os, pc, qfree, q), ResumeHolds
    <3>5. CASE OSTaskDel(t, x)
      BY ONLY <3>1, <3>5, Holding(os, pc, qfree, q), TaskDelHolds
    <3>6. CASE OSTaskDelReq(t, x)
      BY ONLY <3>1, <3>6, Holding(os, pc, qfree, q), DelReqHolds
    <3> QED
      BY ONLY <2>4, <3>2, <3>3, <3>4, <3>5, <3>6
  <2>5. ASSUME NEW x \in Fresh, ReservePrio(t, x)
        PROVE  Holding(os', pc', qfree, q)
    <3>1. x \in Prio
      BY <2>1
    <3> QED
      BY ONLY <2>5, <3>1, Holding(os, pc, qfree, q), ReserveHolds
  <2>6. ASSUME NEW x \in Prio, NEW r \in Fresh, OSTaskChangePrio(t, x, r)
        PROVE  FALSE
    <3>1. Calls(t, "changeprio")
      BY <2>6 DEF OSTaskChangePrio
    <3>2. "changeprio" \in Ops /\ Ops \cap Others = {}
      BY <3>1, Bounds DEF Calls
    <3> QED
      BY ONLY <3>2 DEF Others
  <2>7. CASE TakeTcb(t)
    BY ONLY <2>7, Holding(os, pc, qfree, q), TakeTcbHolds
  <2>8. CASE GiveBack(t)
    BY ONLY <2>8, Holding(os, pc, qfree, q), GiveBackHolds
  <2>9. CASE OS_TCBInit(t)
    BY ONLY <2>9, Holding(os, pc, qfree, q), LinkHolds
  <2>10. CASE FreeTcb(t)
    BY ONLY <2>10, Holding(os, pc, qfree, q), FreeTcbHolds
  <2>11. CASE OSSchedLock(t)
    BY ONLY <2>11, Holding(os, pc, qfree, q), SchedLockHolds
  <2>12. CASE OSSchedUnlock(t)
    BY ONLY <2>12, Holding(os, pc, qfree, q), SchedUnlockHolds
  <2> QED
    BY <1>2, <2>2, <2>3, <2>4, <2>5, <2>6, <2>7, <2>8, <2>9, <2>10, <2>11, <2>12 DEF TaskStep
<1> QED
  BY <1>1, <1>2

\* Semaphores.
LEMMA SemStepHolds ==
  ASSUME Holding(os, pc, qfree, q), SemNext
  PROVE  Holding(os', pc', qfree, q)
<1>1. ASSUME NEW e \in Event, IsrPost(e)
      PROVE  Holding(os', pc', qfree, q)
  <2>1. e \in Event
    OBVIOUS
  <2> QED
    BY ONLY <1>1, <2>1, Holding(os, pc, qfree, q), IsrSemHolds
<1>2. ASSUME NEW t \in {os.cur}, NEW e \in Event, SemCall(t, e)
      PROVE  Holding(os', pc', qfree, q)
  <2>1. t = os.cur /\ e \in Event
    OBVIOUS
  <2> QED
    BY ONLY <1>2, <2>1, Holding(os, pc, qfree, q), SemCallHolds
<1>3. ASSUME NEW t \in {os.cur}, SemStep(t)
      PROVE  Holding(os', pc', qfree, q)
  <2>1. CASE OSSemAccept(t)
    BY ONLY <2>1, Holding(os, pc, qfree, q), SemAcceptHolds
  <2>2. CASE OSSemPend(t)
    BY ONLY <2>2, Holding(os, pc, qfree, q), SemPendHolds
  <2>3. CASE SemWake(t)
    BY ONLY <2>3, Holding(os, pc, qfree, q), SemWakeHolds
  <2>4. CASE OSSemPost(t)
    BY ONLY <2>4, Holding(os, pc, qfree, q), SemPostHolds
  <2>5. CASE OSSemPendAbort(t)
    BY ONLY <2>5, Holding(os, pc, qfree, q), SemAbortHolds
  <2>6. CASE OSSemSet(t)
    BY ONLY <2>6, Holding(os, pc, qfree, q), SemSetHolds
  <2>7. CASE OSSemDel(t)
    BY ONLY <2>7, Holding(os, pc, qfree, q), SemDelHolds
  <2>8. CASE OSSemCreate(t, Cnt0)
    <3>1. Cnt0 \in 0 .. MaxCnt
      BY SemAssumption
    <3> QED
      BY ONLY <2>8, <3>1, Holding(os, pc, qfree, q), SemCreateHolds
  <2> QED
    BY <1>3, <2>1, <2>2, <2>3, <2>4, <2>5, <2>6, <2>7, <2>8 DEF SemStep
<1> QED
  BY <1>1, <1>2, <1>3 DEF SemNext

\* Mailboxes.
LEMMA MboxStepHolds ==
  ASSUME KernelInv, MboxNext
  PROVE  Holding(os', pc', qfree, q) /\ mine' \in Purse
<1>0. Holding(os, pc, qfree, q) /\ mine \in Purse /\ os.cur \in Task /\ Msg \subseteq Letter
  BY Bounds DEF KernelInv, Purse
<1>1. ASSUME NEW e \in Event, NEW m \in Msg, IsrMboxPost(e, m)
      PROVE  Holding(os', pc', qfree, q) /\ mine' \in Purse
  <2>1. e \in Event /\ m \in Letter \cup {Null}
    BY <1>0
  <2>2. Gives(Idle, m) \/ mine' = mine
    BY <1>1 DEF IsrMboxPost, Posted
  <2>3. mine' \in Purse
    BY ONLY <1>0, <2>1, <2>2, PurseKept
  <2> QED
    BY ONLY <1>0, <1>1, <2>1, <2>3, IsrMboxHolds
<1>2. ASSUME NEW t \in {os.cur}, NEW e \in Event, MboxCall(t, e), mine' = mine
      PROVE  Holding(os', pc', qfree, q) /\ mine' \in Purse
  <2>1. t = os.cur /\ e \in Event
    OBVIOUS
  <2> QED
    BY ONLY <1>0, <1>2, <2>1, KernelInv, MboxCallHolds
<1>3. ASSUME NEW t \in {os.cur}, MboxStep(t)
      PROVE  Holding(os', pc', qfree, q) /\ mine' \in Purse
  <2>0. mine' \in Purse
    <3>1. t \in Task
      BY <1>0
    <3> QED
      BY ONLY <1>0, <1>3, <3>1, MboxMine
  <2>1. CASE OSMboxAccept(t)
    BY ONLY <1>0, <2>0, <2>1, MboxAcceptHolds
  <2>2. CASE OSMboxPend(t)
    BY ONLY <1>0, <2>0, <2>2, MboxPendHolds
  <2>3. CASE MboxWake(t)
    BY ONLY <1>0, <2>0, <2>3, MboxWakeHolds
  <2>4. CASE OSMboxPost(t)
    BY ONLY <1>0, <2>0, <2>4, MboxPostHolds
  <2>5. CASE OSMboxPostOpt(t)
    BY ONLY <1>0, <2>0, <2>5, MboxOptHolds
  <2>6. CASE OSMboxPendAbort(t)
    BY ONLY <1>0, <2>0, <2>6, MboxAbortHolds
  <2>7. CASE OSMboxDel(t)
    BY ONLY <1>0, <2>0, <2>7, MboxDelHolds
  <2>8. CASE OSMboxCreate(t)
    BY ONLY <1>0, <2>0, <2>8, MboxCreateHolds
  <2> QED
    BY <1>3, <2>1, <2>2, <2>3, <2>4, <2>5, <2>6, <2>7, <2>8 DEF MboxStep
<1> QED
  BY <1>1, <1>2, <1>3 DEF MboxNext

\* Queues.
LEMMA QStepHolds ==
  ASSUME KernelInv, QNext
  PROVE  Holding(os', pc', qfree', q') /\ mine' \in Purse
<1>0. Holding(os, pc, qfree, q) /\ mine \in Purse /\ os.cur \in Task /\ Msg \subseteq Letter
  BY Bounds DEF KernelInv, Purse
<1>1. ASSUME NEW e \in Event, NEW m \in Msg, IsrQPost(e, m)
      PROVE  Holding(os', pc', qfree', q') /\ mine' \in Purse
  <2>1. e \in Event /\ m \in Letter \cup {Null}
    BY <1>0
  <2>2. Gives(Idle, m) \/ mine' = mine
    BY <1>1 DEF IsrQPost, Queued
  <2>3. mine' \in Purse
    BY ONLY <1>0, <2>1, <2>2, PurseKept
  <2> QED
    BY ONLY <1>0, <1>1, <2>1, <2>3, IsrQHolds
<1>2. ASSUME NEW t \in {os.cur}, NEW e \in Event, QCall(t, e), UNCHANGED <<queues, mine>>
      PROVE  Holding(os', pc', qfree', q') /\ mine' \in Purse
  <2>1. t = os.cur /\ e \in Event
    OBVIOUS
  <2>2. Holding(os', pc', qfree, q)
    BY ONLY <1>2, <2>1, KernelInv, QCallHolds
  <2>3. qfree' = qfree /\ q' = q /\ mine' = mine
    BY <1>2 DEF queues
  <2> QED
    BY ONLY <1>0, <2>2, <2>3
<1>3. ASSUME NEW t \in {os.cur}, QStep(t)
      PROVE  Holding(os', pc', qfree', q') /\ mine' \in Purse
  <2>0. t = os.cur
    OBVIOUS
  <2>1. mine' \in Purse
    <3>1. t \in Task
      BY <1>0
    <3> QED
      BY ONLY <1>0, <1>3, <2>0, <3>1, QMine
  <2>2. CASE OSQAccept(t)
    BY ONLY <1>0, <2>1, <2>2, QAcceptHolds
  <2>3. CASE OSQPend(t)
    BY ONLY <1>0, <2>1, <2>3, QPendHolds
  <2>4. CASE QWake(t)
    BY ONLY <1>0, <2>1, <2>4, QWakeHolds
  <2>5. CASE OSQPost(t)
    BY ONLY <1>0, <2>1, <2>5, QPostHolds
  <2>6. CASE OSQPostOpt(t)
    BY ONLY <1>0, <2>1, <2>6, QOptHolds
  <2>7. CASE OSQPendAbort(t)
    BY ONLY <1>0, <2>1, <2>7, QAbortHolds
  <2>8. CASE OSQFlush(t)
    BY ONLY <1>0, <2>1, <2>8, QFlushHolds
  <2>9. CASE OSQCreate(t)
    <3>1. Holding(os', pc', qfree, q)
      BY ONLY <1>0, <2>9, QCreateHolds
    <3>2. qfree' = qfree /\ q' = q
      BY <2>9 DEF OSQCreate, queues
    <3> QED
      BY ONLY <2>1, <3>1, <3>2
  <2>10. CASE TakeQcb(t)
    BY ONLY <1>0, <2>0, <2>1, <2>10, TakeQcbHolds
  <2>11. CASE OSQDel(t)
    BY ONLY <1>0, <2>1, <2>11, QDelHolds
  <2> QED
    BY <1>3, <2>2, <2>3, <2>4, <2>5, <2>6, <2>7, <2>8, <2>9, <2>10, <2>11 DEF QStep
<1> QED
  BY <1>1, <1>2, <1>3 DEF QNext
-----------------------------------------------------------------------------
\* The services left out are never inside the kernel.
LEMMA LeftOut ==
  ASSUME Holding(os, pc, qfree, q), NEW t, t = os.cur
  PROVE  /\ pc[t].at \notin {"multi", "multiblock", "multiwake", "muaccept", "mupend", "mupost", "mudel",
                             "flagaccept", "flagpend", "flagpost", "flagdel"}
         /\ pc[t].at = "wake" => pc[t].svc \notin {"mutex", "flag"}
         /\ \A op \in Others : ~ Calls(t, op) /\ op \notin Ops
<1>1. t \in Task /\ pc \in [Task -> PcType] /\ ArgInv(os.app, pc)
  BY Bounds DEF Holding, TasksInv, ArgInv
<1>2. pc[t].at \in Label
  BY <1>1 DEF PcType
<1>3. pc[t].at = "wake" => pc[t].svc \in Kinds
  BY <1>1 DEF ArgInv, Blk
<1>4. Ops \cap Others = {}
  BY Bounds
<1>5. \A op \in Others : ~ Calls(t, op) /\ op \notin Ops
  BY ONLY <1>4 DEF Calls
<1>6. pc[t].at \notin {"multi", "multiblock", "multiwake", "muaccept", "mupend", "mupost", "mudel",
                       "flagaccept", "flagpend", "flagpost", "flagdel"}
  BY ONLY <1>2 DEF Label, OnEvent, SemStage, MboxStage, QStage, Creating
<1>7. pc[t].at = "wake" => pc[t].svc \notin {"mutex", "flag"}
  BY ONLY <1>3 DEF Kinds
<1> QED
  BY ONLY <1>5, <1>6, <1>7

LEMMA OthersIdle ==
  ASSUME Holding(os, pc, qfree, q)
  PROVE  ~ MultiNext /\ ~ MutexNext /\ ~ FlagNext
<1>1. PICK t : t = os.cur
  OBVIOUS
<1>2. /\ pc[t].at \notin {"multi", "multiblock", "multiwake", "muaccept", "mupend", "mupost", "mudel",
                          "flagaccept", "flagpend", "flagpost", "flagdel"}
      /\ pc[t].at = "wake" => pc[t].svc \notin {"mutex", "flag"}
      /\ \A op \in Others : ~ Calls(t, op) /\ op \notin Ops
  BY ONLY <1>1, Holding(os, pc, qfree, q), LeftOut
<1>3. {"pendmulti", "mupend", "mupost", "muaccept", "mudel", "flagpend", "flagpost", "flagaccept", "flagdel", "isrflagpost"} \subseteq Others
  BY DEF Others
<1>4. ~ MultiNext
  <2>1. \A n : ~ EnterMulti(t, n)
    BY ONLY <1>2, <1>3 DEF EnterMulti
  <2>2. ~ OSEventPendMulti(t) /\ ~ MultiSched(t) /\ ~ MultiWake(t)
    BY ONLY <1>2 DEF OSEventPendMulti, MultiSched, MultiWake, At
  <2> QED
    BY ONLY <1>1, <2>1, <2>2 DEF MultiNext
<1>5. ~ MutexNext
  <2>1. \A e : ~ MutexCall(t, e)
    BY ONLY <1>2, <1>3 DEF MutexCall, Enter, Blocks
  <2>2. ~ OSMutexAccept(t) /\ ~ OSMutexPend(t) /\ ~ MutexWake(t) /\ ~ OSMutexPost(t) /\ ~ OSMutexDel(t)
    BY ONLY <1>2 DEF OSMutexAccept, OSMutexPend, MutexWake, OSMutexPost, OSMutexDel, Wakes, At
  <2>3. ~ OSMutexCreate(t)
    BY ONLY <1>2, <1>3 DEF OSMutexCreate
  <2> QED
    BY ONLY <1>1, <2>1, <2>2, <2>3 DEF MutexNext, MutexStep
<1>6. ~ FlagNext
  <2>1. \A g : ~ FlagCall(t, g)
    BY ONLY <1>2, <1>3 DEF FlagCall, EnterFlag
  <2>2. ~ OSFlagAccept(t) /\ ~ OSFlagPend(t) /\ ~ FlagWake(t) /\ ~ OSFlagPost(t) /\ ~ OSFlagDel(t)
    BY ONLY <1>2 DEF OSFlagAccept, OSFlagPend, FlagWake, OSFlagPost, OSFlagDel, Wakes, At
  <2>3. ~ OSFlagCreate(t)
    BY ONLY <1>2, <1>3 DEF OSFlagCreate
  <2>4. \A g, b, set : ~ IsrFlagPost(g, b, set)
    BY ONLY <1>2, <1>3 DEF IsrFlagPost
  <2> QED
    BY ONLY <1>1, <2>1, <2>2, <2>3, <2>4 DEF FlagNext, FlagStep
<1> QED
  BY ONLY <1>4, <1>5, <1>6

\* Every step of the system keeps the invariant.
LEMMA StepHolds ==
  ASSUME KernelInv, [Next]_kvars
  PROVE  KernelInv'
<1>0. Holding(os, pc, qfree, q) /\ mine \in Purse
  BY DEF KernelInv, Purse
<1>1. ~ MultiNext /\ ~ MutexNext /\ ~ FlagNext
  BY ONLY <1>0, OthersIdle
<1>2. Holding(os', pc', qfree', q') /\ mine' \in Purse
  <2>1. CASE (Tick \/ \E t \in {os.cur} : TaskStep(t)) /\ UNCHANGED <<ghosts, mine, queues, has>>
    <3>1. Holding(os', pc', qfree, q)
      BY ONLY <1>0, <2>1, TasksStep
    <3>2. qfree' = qfree /\ q' = q /\ mine' = mine
      BY <2>1 DEF queues
    <3> QED
      BY ONLY <1>0, <3>1, <3>2
  <2>2. CASE SemNext /\ UNCHANGED <<mine, queues, has, flagvars>>
    <3>1. Holding(os', pc', qfree, q)
      BY ONLY <1>0, <2>2, SemStepHolds
    <3>2. qfree' = qfree /\ q' = q /\ mine' = mine
      BY <2>2 DEF queues
    <3> QED
      BY ONLY <1>0, <3>1, <3>2
  <2>3. CASE MboxNext /\ UNCHANGED <<ghosts, queues, has, flagvars>>
    <3>1. Holding(os', pc', qfree, q) /\ mine' \in Purse
      BY ONLY KernelInv, <2>3, MboxStepHolds
    <3>2. qfree' = qfree /\ q' = q
      BY <2>3 DEF queues
    <3> QED
      BY ONLY <3>1, <3>2
  <2>4. CASE QNext /\ UNCHANGED <<ghosts, has, flagvars>>
    BY ONLY KernelInv, <2>4, QStepHolds
  <2>5. CASE UNCHANGED kvars
    <3>1. os' = os /\ pc' = pc /\ qfree' = qfree /\ q' = q /\ mine' = mine
      BY <2>5 DEF kvars
    <3> QED
      BY ONLY <1>0, <3>1
  <2> QED
    BY ONLY [Next]_kvars, <1>1, <2>1, <2>2, <2>3, <2>4, <2>5 DEF Next
<1> QED
  BY ONLY <1>2 DEF KernelInv, Purse, Holding, TasksInv, OsType, ArgInv, DlyInv, IdleInv, TblInv, ReadyInv, WaitInv, CallInv,
                   EcbInv, QcbInv, KeptInv, CurInv, RunInv
-----------------------------------------------------------------------------
\* At the start the events are those main made.
LEMMA EventsAre ==
  ASSUME NEW a, NEW k, Fine(a, k), Lasting(a)
  PROVE  /\ k.ev \in [DOMAIN k.ev -> EcbType] /\ DOMAIN k.ev = DOMAIN App[a].ev
         /\ \A e \in DOMAIN k.ev :
              /\ k.ev[e].wait = {}
              /\ k.ev[e].type = "sem" => k.ev[e].cnt <= MaxCnt
              /\ k.ev[e].type = "mbox" => k.ev[e].ptr \in Letter \cup {Null}
              /\ k.ev[e].type = "q" => k.ev[e].ptr \in Qcb
              /\ \A f \in DOMAIN k.ev : k.ev[e].type = "q" /\ k.ev[f].type = "q" /\ k.ev[e].ptr = k.ev[f].ptr => e = f
         /\ k.evfree \in Seq(DOMAIN k.ev) /\ IsInjective(k.evfree)
         /\ \A e \in DOMAIN k.ev : k.ev[e].type = "unused" <=> e \in ToSet(k.evfree)
<1>1. PICK v : v = App[a].ev
  OBVIOUS
<1>2. a \in DOMAIN App /\ k.ev = v /\ k.evfree = SetToSeq({e \in DOMAIN v : v[e] = Unused})
  BY <1>1 DEF Fine
<1>3. App[a].msg \subseteq Letter
  BY <1>2 DEF Letter
<1>4. /\ v \in [DOMAIN v -> [type : {"sem", "mbox", "q", "mutex", "unused"}, cnt : Nat,
                             ptr : App[a].msg \cup Qcb \cup {Null}, wait : {{}}]]
      /\ \A e \in DOMAIN v :
           /\ v[e].type = "unused" => v[e] = Unused
           /\ v[e].type = "sem" => v[e].cnt <= MaxCnt
           /\ v[e].type = "mbox" => v[e].ptr \in App[a].msg \cup {Null}
           /\ v[e].type = "q" => v[e].ptr \in Qcb
           /\ \A f \in DOMAIN v : v[e].type = "q" /\ v[f].type = "q" /\ v[e].ptr = v[f].ptr => e = f
  BY ONLY <1>1, <1>2, EventAssumption
<1>5. \A e \in DOMAIN v : v[e].type # "mutex"
  BY <1>1 DEF Lasting
<1>6. \A e \in DOMAIN v : v[e] \in EcbType
  <2>1. SUFFICES ASSUME NEW e \in DOMAIN v
                 PROVE  v[e] \in EcbType
    OBVIOUS
  <2>2. PICK c : c = v[e]
    OBVIOUS
  <2>3. c \in [type : {"sem", "mbox", "q", "mutex", "unused"}, cnt : Nat, ptr : App[a].msg \cup Qcb \cup {Null}, wait : {{}}]
    BY <1>4, <2>2
  <2>4. c.type # "mutex"
    BY <1>5, <2>2
  <2>5. {} \in SUBSET Prio
    OBVIOUS
  <2>6. c \in EcbType
    BY ONLY <1>3, <2>3, <2>4, <2>5 DEF EcbType, Kinds
  <2> QED
    BY ONLY <2>2, <2>6
<1>7. v \in [DOMAIN v -> EcbType]
  BY ONLY <1>4, <1>6
<1>8. \A e \in DOMAIN v : v[e].wait = {}
  BY ONLY <1>4
<1>9. PICK S : S = {e \in DOMAIN v : v[e] = Unused}
  OBVIOUS
<1>10. IsFiniteSet(S)
  <2>1. IsFiniteSet(DOMAIN v)
    BY <1>1, <1>2, AppAssumption
  <2>2. S \subseteq DOMAIN v
    BY <1>9
  <2> QED
    BY ONLY <2>1, <2>2, FS_Subset
<1>11. k.evfree \in Seq(S) /\ IsInjective(k.evfree) /\ ToSet(k.evfree) = S
  BY ONLY <1>2, <1>9, <1>10, InSeq
<1>12. k.evfree \in Seq(DOMAIN v)
  <2>1. S \subseteq DOMAIN v
    BY <1>9
  <2> QED
    BY ONLY <1>11, <2>1, SeqMonotonic
<1>13. \A e \in DOMAIN v : v[e].type = "unused" <=> e \in S
  BY <1>4, <1>9 DEF Unused
<1> QED
  BY ONLY <1>1, <1>2, <1>3, <1>4, <1>7, <1>8, <1>11, <1>12, <1>13

LEMMA TasksStart ==
  ASSUME NEW a, NEW k, NEW p, Fine(a, k), Lasting(a), Placed(p)
  PROVE  /\ TasksInv(k, p) /\ CurInv(k, p) /\ RunInv(k, p)
         /\ \A t \in Task : p[t] = InApp
<1>1. PICK r : r = App[a].prio
  OBVIOUS
<1>2. /\ k.list \subseteq Task /\ Idle \in k.list /\ k.rdy \subseteq Prio /\ r \in [k.list -> Prio]
      /\ \A t, u \in k.list : r[t] = r[u] => t = u
      /\ r[Idle] = LowestPrio /\ App[a].dly \in Nat /\ App[a].locks \in Nat
      /\ \A t \in k.list : r[t] \in k.rdy /\ k.tbl[r[t]] = t
      /\ \A x \in k.rdy : \E t \in k.list : r[t] = x
      /\ \A x \in Prio : x \notin k.rdy => k.tbl[x] = Null
      /\ k.tbl \in [Prio -> k.list \cup {Null}]
  BY ONLY <1>1, Fine(a, k), PriosAre
<1>3. k.cur \in k.list /\ k.prioCur = r[k.cur] /\ k.prioCur \in k.rdy /\ \A x \in k.rdy : k.prioCur <= x
  BY ONLY <1>1, Fine(a, k), PriosAre
<1>4. /\ k.ev \in [DOMAIN k.ev -> EcbType] /\ DOMAIN k.ev = DOMAIN App[a].ev
      /\ \A e \in DOMAIN k.ev : k.ev[e].wait = {}
      /\ k.evfree \in Seq(DOMAIN k.ev) /\ IsInjective(k.evfree)
      /\ \A e \in DOMAIN k.ev : k.ev[e].type = "unused" <=> e \in ToSet(k.evfree)
  BY ONLY Fine(a, k), Lasting(a), EventsAre
<1>5. a \in DOMAIN App /\ k.app = a /\ k.lock = 0 /\ k.free = Task \ k.list /\ Shape(k)
  BY DEF Fine
<1>6. k.tcb = [t \in Task |-> IF t \in k.list THEN Tcb(r[t]) ELSE Tcb(0)]
  <2>1. k.tcb = [t \in Task |-> IF t \in DOMAIN App[a].prio THEN Tcb(App[a].prio[t]) ELSE Tcb(0)] /\ k.list = DOMAIN App[a].prio
    BY DEF Fine
  <2> QED
    BY ONLY <1>1, <2>1, Zenon
<1>7. \A t \in Task : k.tcb[t] \in TcbType /\ k.tcb[t].stat = {} /\ k.tcb[t].dly = 0 /\ k.tcb[t].pend = "ok"
  <2>1. 0 \in Prio
    BY CoreAssumption DEF Prio
  <2>2. \A x \in Prio : Tcb(x) \in TcbType /\ Tcb(x).stat = {} /\ Tcb(x).dly = 0 /\ Tcb(x).pend = "ok"
    BY DEF Tcb, TcbType
  <2>3. \A t \in Task : \E x \in Prio : k.tcb[t] = Tcb(x)
    BY ONLY <1>2, <1>6, <2>1
  <2> QED
    BY ONLY <2>2, <2>3
<1>8. k.tcb \in [Task -> TcbType]
  BY ONLY <1>6, <1>7
<1>9. \A t \in k.list : k.tcb[t].prio = r[t]
  BY ONLY <1>2, <1>6 DEF Tcb
<1>10. p \in [Task -> PcType] /\ \A t \in Task : p[t] = InApp
  <2>1. InApp \in PcType
    BY DEF InApp, PcType, Label
  <2> QED
    BY ONLY <2>1, Placed(p) DEF Placed
<1>11. \A t \in Task : p[t].at = "app"
  BY ONLY <1>10 DEF InApp
<1>12. OsType(k)
  <2>1. k.tbl \in [Prio -> Task \cup {Null, Reserved}]
    BY ONLY <1>2
  <2>2. k.free \subseteq Task /\ k.cur \in Task /\ k.prioCur \in Prio /\ k.lock \in Nat
    BY ONLY <1>2, <1>3, <1>5
  <2> QED
    BY ONLY <1>2, <1>4, <1>5, <1>8, <2>1, <2>2 DEF OsType
<1>13. ArgInv(k.app, p)
  BY ONLY <1>10, <1>11 DEF ArgInv, PendStage, Creating, SemStage, MboxStage, QStage, Blk
<1>14. DlyInv(k)
  BY ONLY <1>2, <1>5, <1>7 DEF DlyInv
<1>15. IdleInv(k, p)
  BY ONLY <1>2, <1>7, <1>9, <1>11 DEF IdleInv
<1>16. TblInv(k, p)
  <2>1. Creators(k, p) = {} /\ Linkers(k, p) = {}
    BY ONLY <1>2, <1>11 DEF Creators, Linkers, Creating
  <2>2. OwnPrioInv(k)
    <3>1. Null \notin Task
      BY CoreAssumption
    <3>2. \A x \in Prio : k.tbl[x] \in Task => x \in k.rdy
      BY ONLY <1>2, <3>1
    <3>3. \A x \in Prio : k.tbl[x] \in Task => k.tbl[x] \in k.list /\ k.tcb[k.tbl[x]].prio = x
      BY ONLY <1>2, <1>9, <3>2
    <3> QED
      BY ONLY <1>2, <1>9, <3>3 DEF OwnPrioInv
  <2>3. AsideInv(k, p)
    <3>1. Reserved \notin Task \cup {Null}
      BY CoreAssumption
    <3>2. \A x \in Prio : k.tbl[x] # Reserved
      BY ONLY <1>2, <3>1
    <3> QED
      BY ONLY <2>1, <3>2 DEF AsideInv
  <2>4. BlocksInv(k, p)
    BY ONLY <1>5, <1>11, <2>1 DEF BlocksInv
  <2> QED
    BY ONLY <2>2, <2>3, <2>4 DEF TblInv
<1>17. ReadyInv(k, p)
  <2>1. Living(k, p) = k.list
    BY ONLY <1>2, <1>11 DEF Living
  <2> QED
    BY ONLY <1>2, <1>7, <1>9, <2>1 DEF ReadyInv, ReadyAt
<1>18. WaitInv(k, p)
  <2>1. \A t \in k.list : ~ Blk(p, t) /\ ~ Pend(k, p, t)
    BY ONLY <1>2, <1>11 DEF Blk, Pend
  <2>2. StatInv(k, p)
    BY ONLY <1>2, <1>7, <2>1 DEF StatInv, StatAt
  <2>3. ListsInv(k, p)
    BY ONLY <1>4, <2>1 DEF ListsInv, ListedAt
  <2> QED
    BY ONLY <2>2, <2>3 DEF WaitInv
<1>19. CallInv(k, p)
  BY ONLY <1>2, <1>11 DEF CallInv, OnEvent, DelStage, SemStage, MboxStage, QStage
<1>20. EcbInv(k, p)
  <2>1. \A t \in k.list : p[t].at # "qcreate"
    BY ONLY <1>2, <1>11
  <2> QED
    BY ONLY <1>4, <2>1 DEF EcbInv
<1>21. App[k.app].ops \cap Others = {}
  BY <1>5 DEF Lasting
<1>22. TasksInv(k, p)
  BY ONLY <1>12, <1>13, <1>14, <1>15, <1>16, <1>17, <1>18, <1>19, <1>20, <1>21 DEF TasksInv
<1>23. CurInv(k, p)
  BY ONLY <1>2, <1>3, <1>5, <1>9, <1>11 DEF CurInv, PendStage
<1>24. RunInv(k, p)
  BY ONLY <1>3 DEF RunInv
<1> QED
  BY ONLY <1>10, <1>22, <1>23, <1>24

LEMMA StartHolds ==
  ASSUME Init, Lasting(os.app)
  PROVE  KernelInv
<1>1. PICK a \in DOMAIN App : os = PipsReserved(Started(a))
  BY DEF Init
<1>2. os.app = a
  BY <1>1 DEF PipsReserved, Started
<1>3. PICK k : k = os
  OBVIOUS
<1>4. Lasting(a)
  BY <1>2
<1>5. Fine(a, k)
  <2>1. \A e \in DOMAIN App[a].ev : App[a].ev[e].type # "mutex"
    BY <1>4 DEF Lasting
  <2> QED
    BY ONLY <1>1, <1>3, <2>1, Starts0
<1>6. Placed(pc)
  BY DEF Init, Placed
<1>7. TasksInv(k, pc) /\ CurInv(k, pc) /\ RunInv(k, pc)
  BY ONLY <1>4, <1>5, <1>6, TasksStart
<1>8. /\ k.ev \in [DOMAIN k.ev -> EcbType]
      /\ \A e \in DOMAIN k.ev :
           /\ k.ev[e].wait = {}
           /\ k.ev[e].type = "sem" => k.ev[e].cnt <= MaxCnt
           /\ k.ev[e].type = "mbox" => k.ev[e].ptr \in Letter \cup {Null}
           /\ k.ev[e].type = "q" => k.ev[e].ptr \in Qcb
           /\ \A f \in DOMAIN k.ev : k.ev[e].type = "q" /\ k.ev[f].type = "q" /\ k.ev[e].ptr = k.ev[f].ptr => e = f
  BY ONLY <1>4, <1>5, EventsAre
<1>9. QcbInv(k, qfree)
  <2>1. PICK S : S = Qcb \ QcbsUsed(k.ev)
    OBVIOUS
  <2>2. qfree = SetToSeq(S) /\ IsFiniteSet(S) /\ S \subseteq Qcb
    <3>1. IsFiniteSet(Qcb)
      BY EventAssumption
    <3>2. IsFiniteSet(S)
      BY ONLY <2>1, <3>1, FS_Subset
    <3> QED
      BY <1>3, <2>1, <3>2 DEF Init
  <2>3. qfree \in Seq(S) /\ IsInjective(qfree) /\ ToSet(qfree) = S
    BY ONLY <2>2, InSeq
  <2>4. qfree \in Seq(Qcb)
    BY ONLY <2>2, <2>3, SeqMonotonic
  <2>5. \A c \in Qcb : c \in S <=> ~ \E e \in DOMAIN k.ev : k.ev[e].type = "q" /\ k.ev[e].ptr = c
    BY ONLY <2>1 DEF QcbsUsed
  <2> QED
    BY ONLY <1>8, <2>3, <2>4, <2>5 DEF QcbInv
<1>10. KeptInv(k, q)
  <2>1. q = [c \in Qcb |-> NewQ]
    BY DEF Init
  <2>2. NewQ \in QcbType /\ NewQ.n = 0 /\ NewQ.in = 0 /\ NewQ.out = 0
    <3>1. 0 \in 0 .. Size - 1 /\ 0 \in 0 .. Size
      BY QAssumption
    <3>2. [i \in 0 .. Size - 1 |-> Null] \in [0 .. Size - 1 -> Letter \cup {Null}]
      OBVIOUS
    <3> QED
      BY ONLY <3>1, <3>2 DEF NewQ, QcbType
  <2>3. q \in [Qcb -> QcbType] /\ \A c \in Qcb : q[c].n = 0 /\ q[c].in = 0 /\ q[c].out = 0
    BY ONLY <2>1, <2>2
  <2> QED
    BY ONLY <1>8, <2>3 DEF KeptInv
<1>11. Holding(os, pc, qfree, q)
  BY ONLY <1>3, <1>7, <1>9, <1>10 DEF Holding
<1>12. mine \in [Task -> SUBSET (Letter \cup {Null})]
  <2>1. Msg \subseteq Letter
    BY <1>2 DEF Msg, Letter
  <2>2. PICK owner \in [Msg -> DOMAIN StartPrio] : mine = [t \in Task |-> {m \in Msg : owner[m] = t}]
    BY DEF Init
  <2> QED
    BY ONLY <2>1, <2>2
<1> QED
  BY ONLY <1>11, <1>12 DEF KernelInv
-----------------------------------------------------------------------------
\* The invariant gives the properties of the kernel.
LEMMA TypesFollow ==
  ASSUME KernelInv
  PROVE  TypeOK
<1>1. TasksInv(os, pc) /\ OsType(os) /\ DlyInv(os) /\ KeptInv(os, q) /\ CurInv(os, pc)
  BY DEF KernelInv, Holding, TasksInv
<1>2. os.rdy # {}
  BY ONLY <1>1, Highest
<1>3. \A t \in Task : /\ os.tcb[t].prio \in Prio /\ os.tcb[t].stat \subseteq Kinds \cup {"suspend"}
                      /\ os.tcb[t].pend \in {"ok", "to", "abort"} /\ os.tcb[t].dly \in Nat
  <2>1. \A t \in Task : os.tcb[t] \in TcbType
    BY ONLY <1>1 DEF OsType
  <2> QED
    BY ONLY <2>1 DEF TcbType
<1>4. os.app \in DOMAIN App /\ MaxDly \in Nat /\ Locks \in Nat
  BY <1>1, AppAssumption DEF OsType, MaxDly, Locks
<1>5. \A t \in Task : os.tcb[t].dly \in 0 .. MaxDly /\ os.tcb[t].stat \subseteq PendAny \cup {"suspend", "multi"}
  BY ONLY <1>1, <1>3, <1>4 DEF DlyInv, MaxDly, Kinds, PendAny
<1>6. \A e \in Event : os.ev[e].type = "sem" => os.ev[e].cnt \in 0 .. MaxCnt
  <2>1. \A e \in DOMAIN os.ev : os.ev[e] \in EcbType
    BY ONLY <1>1 DEF OsType
  <2>2. \A e \in DOMAIN os.ev : os.ev[e].cnt \in Nat
    BY ONLY <2>1 DEF EcbType
  <2>3. MaxCnt \in Nat
    BY SemAssumption
  <2> QED
    BY ONLY <1>1, <2>2, <2>3 DEF KeptInv, Event
<1>7. os.lock \in 0 .. Locks + 1
  BY ONLY <1>1, <1>4 DEF OsType, CurInv, Locks
<1> QED
  BY ONLY <1>1, <1>2, <1>3, <1>5, <1>6, <1>7 DEF OsType, TypeOK

\* There are no mutexes, and a task on its way out has its own priority still.
LEMMA PlainFacts ==
  ASSUME KernelInv
  PROVE  /\ TasksInv(os, pc) /\ OsType(os) /\ Mutexes = {} /\ os.list \subseteq Task
         /\ \A t \in Task : pc[t].at \in Label
         /\ \A t \in Task : os.tcb[t].stat \subseteq Kinds \cup {"suspend"} /\ os.tcb[t].dly \in Nat
         /\ Live = Living(os, pc)
<1>1. TasksInv(os, pc) /\ OsType(os) /\ TblInv(os, pc) /\ CurInv(os, pc) /\ ArgInv(os.app, pc)
  BY DEF KernelInv, Holding, TasksInv
<1>2. Mutexes = {}
  <2>1. \A e \in DOMAIN os.ev : os.ev[e] \in EcbType
    BY ONLY <1>1 DEF OsType
  <2>2. \A e \in DOMAIN os.ev : os.ev[e].type # "mutex"
    BY ONLY <2>1 DEF EcbType, Kinds
  <2> QED
    BY ONLY <2>2 DEF Mutexes, Event
<1>3. os.list \subseteq Task
  BY ONLY <1>1 DEF OsType
<1>4. \A t \in Task : pc[t].at \in Label
  <2>1. \A t \in Task : pc[t] \in PcType
    BY ONLY <1>1 DEF ArgInv
  <2> QED
    BY ONLY <2>1 DEF PcType
<1>5. \A t \in Task : os.tcb[t].stat \subseteq Kinds \cup {"suspend"} /\ os.tcb[t].dly \in Nat
  <2>1. \A t \in Task : os.tcb[t] \in TcbType
    BY ONLY <1>1 DEF OsType
  <2> QED
    BY ONLY <2>1 DEF TcbType
<1>6. Live = Living(os, pc)
  <2>1. \A u \in Task : pc[u].at = "delete" => u \in os.list /\ os.tbl[pc[u].n] = u
    <3>1. \A u \in Task : pc[u].at = "delete" => u \in os.list
      BY ONLY <1>1 DEF TblInv, BlocksInv
    <3>2. \A u \in os.list : pc[u].at = "delete" => os.tcb[u].prio = pc[u].n
      BY ONLY <1>1 DEF CurInv
    <3>3. \A u \in os.list : os.tbl[os.tcb[u].prio] = u
      BY ONLY <1>1 DEF TblInv, OwnPrioInv
    <3> QED
      BY ONLY <3>1, <3>2, <3>3
  <2>2. \A t \in os.list : (~ \E u \in Task : pc[u].at = "delete" /\ os.tbl[pc[u].n] = t) <=> pc[t].at # "delete"
    BY ONLY <1>3, <2>1
  <2> QED
    BY ONLY <2>2 DEF Live, Living
<1> QED
  BY ONLY <1>1, <1>2, <1>3, <1>4, <1>5, <1>6

LEMMA TblFollows ==
  ASSUME KernelInv
  PROVE  PrioTblExact
<1>1. TasksInv(os, pc) /\ OsType(os) /\ Mutexes = {} /\ os.list \subseteq Task
  BY PlainFacts
<1>2. OwnPrioInv(os) /\ AsideInv(os, pc) /\ BlocksInv(os, pc)
  BY ONLY <1>1 DEF TasksInv, TblInv
<1>3. \A p \in Prio : SetAside(p) <=> Target(p) = Reserved
  <2>1. \A p \in Prio : SetAside(p) <=> \E t \in os.list : pc[t].at \in {"create", "link", "refused"} /\ pc[t].n = p
    BY ONLY <1>1 DEF SetAside
  <2>2. \A p \in Prio : (\E t \in os.list : pc[t].at \in {"create", "link", "refused"} /\ pc[t].n = p)
                         <=> \E t \in Creators(os, pc) : pc[t].n = p
    BY DEF Creators, Creating
  <2> QED
    BY ONLY <1>2, <2>1, <2>2 DEF AsideInv, Target
<1>4. \A p \in Prio : Exists(p) => Target(p) \in os.list /\ os.tcb[Target(p)].prio = p
  BY ONLY <1>1, <1>2 DEF Exists, Target, OsType, OwnPrioInv
<1>5. Task = os.list \cup os.free \cup {pc[t].ev : t \in {u \in os.list : pc[u].at = "link"}}
  <2>1. os.free \subseteq Task
    BY ONLY <1>1 DEF OsType
  <2>2. \A t \in os.list : pc[t].at = "link" => pc[t].ev \in Task
    BY ONLY <1>2 DEF BlocksInv, Linkers
  <2>3. \A u \in Task : u \in os.list \/ u \in os.free \/ \E t \in os.list : pc[t].at = "link" /\ pc[t].ev = u
    BY ONLY <1>2 DEF BlocksInv, Linkers
  <2> QED
    BY ONLY <1>1, <2>1, <2>2, <2>3
<1>6. Reserved # Null
  BY CoreAssumption
<1>7. \A t \in os.list : os.tbl[os.tcb[t].prio] = t
  BY ONLY <1>2 DEF OwnPrioInv
<1>8. os.list \cap os.free = {}
  BY ONLY <1>2 DEF BlocksInv
<1> QED
  BY ONLY <1>3, <1>4, <1>5, <1>6, <1>7, <1>8 DEF PrioTblExact

LEMMA ReadyFollows ==
  ASSUME KernelInv
  PROVE  ReadyExact
<1>1. /\ TasksInv(os, pc) /\ os.list \subseteq Task /\ Live = Living(os, pc)
      /\ \A t \in Task : pc[t].at \in Label
      /\ \A t \in Task : os.tcb[t].stat \subseteq Kinds \cup {"suspend"} /\ os.tcb[t].dly \in Nat
  BY PlainFacts
<1>2. ReadyInv(os, pc)
  BY ONLY <1>1 DEF TasksInv
<1>3. \A t \in Task : t \notin Multi
  BY ONLY <1>1 DEF Multi, Label, OnEvent, SemStage, MboxStage, QStage, Creating
<1>4. \A t \in Task : ~ Asleep(t) <=> os.tcb[t].dly = 0 /\ os.tcb[t].stat = {}
  BY ONLY <1>1, <1>3 DEF Asleep, Woken
<1>5. \A t \in Live : t \in Task
  BY ONLY <1>1 DEF Living
<1>6. \A t \in Live : IsReady(t) <=> ~ Asleep(t)
  BY ONLY <1>1, <1>2, <1>4, <1>5 DEF ReadyInv, ReadyAt, IsReady
<1>7. os.rdy \subseteq {os.tcb[t].prio : t \in Live}
  BY ONLY <1>1, <1>2 DEF ReadyInv
<1> QED
  BY ONLY <1>6, <1>7 DEF ReadyExact

LEMMA ListsFollow ==
  ASSUME KernelInv
  PROVE  WaitListsExact
<1>1. /\ TasksInv(os, pc) /\ os.list \subseteq Task
      /\ \A t \in Task : pc[t].at \in Label
      /\ \A t \in Task : os.tcb[t].stat \subseteq Kinds \cup {"suspend"}
  BY PlainFacts
<1>2. ListsInv(os, pc)
  BY ONLY <1>1 DEF TasksInv, WaitInv
<1>3. \A t \in Task : t \notin Multi
  BY ONLY <1>1 DEF Multi, Label, OnEvent, SemStage, MboxStage, QStage, Creating
<1>4. \A t \in Task : os.tcb[t].stat \cap PendAny # {} <=> os.tcb[t].stat \cap Kinds # {}
  BY ONLY <1>1 DEF PendAny, Kinds
<1>5. \A t \in Task, e \in Event : ToBeListed(t, e) <=> Pend(os, pc, t) /\ pc[t].ev = e
  BY ONLY <1>3, <1>4 DEF ToBeListed, Pend, Blk, Blocked
<1>6. SUFFICES ASSUME NEW e \in Event
               PROVE  os.ev[e].wait = {os.tcb[u].prio : u \in {v \in os.list : ToBeListed(v, e)}}
  BY DEF WaitListsExact
<1>7. /\ \A t \in os.list : os.tcb[t].prio \in os.ev[e].wait <=> Pend(os, pc, t) /\ pc[t].ev = e
      /\ \A x \in os.ev[e].wait : \E t \in os.list : os.tcb[t].prio = x
  BY ONLY <1>2, e \in Event DEF ListsInv, ListedAt, Event
<1>8. \A t \in os.list : os.tcb[t].prio \in os.ev[e].wait <=> ToBeListed(t, e)
  BY ONLY <1>1, <1>5, <1>7, e \in Event
<1> QED
  BY ONLY <1>7, <1>8

LEMMA PoolsFollow ==
  ASSUME KernelInv
  PROVE  PoolsExact
<1>1. TasksInv(os, pc) /\ os.list \subseteq Task /\ QcbInv(os, qfree)
  BY PlainFacts DEF KernelInv, Holding
<1>2. EcbInv(os, pc) /\ BlocksInv(os, pc)
  BY ONLY <1>1 DEF TasksInv, TblInv
<1>3. PICK unused : unused = {e \in Event : os.ev[e].type = "unused"}
  OBVIOUS
<1>4. PICK half : half = {pc[t].ev : t \in {u \in Task : pc[u].at = "qcreate"}}
  OBVIOUS
<1>5. PICK qs : qs = {e \in Event : os.ev[e].type = "q"}
  OBVIOUS
<1>6. \A t \in Task : pc[t].at = "qcreate" => t \in os.list
  BY ONLY <1>2 DEF BlocksInv
<1>7. \A x : x \in half <=> \E t \in os.list : pc[t].at = "qcreate" /\ pc[t].ev = x
  BY ONLY <1>1, <1>4, <1>6
<1>8. half \subseteq unused
  BY ONLY <1>2, <1>3, <1>7 DEF EcbInv, Event
<1>9. \A e \in ToSet(os.evfree) : e \in Event
  <2>1. os.evfree \in Seq(DOMAIN os.ev)
    BY ONLY <1>1 DEF TasksInv, OsType
  <2> QED
    BY ONLY <2>1 DEF ToSet, Event
<1>10. ToSet(os.evfree) = unused \ half
  <2>1. \A e \in ToSet(os.evfree) : e \in unused /\ e \notin half
    BY ONLY <1>2, <1>3, <1>7, <1>9 DEF EcbInv, Event
  <2>2. \A e \in unused : e \in ToSet(os.evfree) \/ e \in half
    BY ONLY <1>2, <1>3, <1>7 DEF EcbInv, Event
  <2> QED
    BY ONLY <2>1, <2>2
<1>11. \A e, f \in qs : e # f => Of(e) # Of(f)
  BY ONLY <1>1, <1>5 DEF QcbInv, Of, Event
<1>12. ToSet(qfree) = Qcb \ {Of(e) : e \in qs}
  <2>1. \A c \in ToSet(qfree) : c \in Qcb
    BY ONLY <1>1 DEF QcbInv, ToSet
  <2>2. \A e \in qs : Of(e) \in Qcb /\ Of(e) \notin ToSet(qfree)
    BY ONLY <1>1, <1>5 DEF QcbInv, Of, Event
  <2>3. \A c \in Qcb : c \in ToSet(qfree) \/ \E e \in qs : Of(e) = c
    BY ONLY <1>1, <1>5 DEF QcbInv, Of, Event
  <2> QED
    BY ONLY <2>1, <2>2, <2>3
<1>13. IsInjective(os.evfree) /\ IsInjective(qfree)
  BY ONLY <1>1, <1>2 DEF EcbInv, QcbInv
<1> QED
  BY ONLY <1>3, <1>4, <1>5, <1>8, <1>10, <1>11, <1>12, <1>13 DEF PoolsExact

LEMMA ExactFollows ==
  ASSUME KernelInv
  PROVE  KernelExact
BY TypesFollow, TblFollows, ReadyFollows, ListsFollow, PoolsFollow DEF KernelExact

LEMMA HighestFollows ==
  ASSUME KernelInv, Ops \cap {"mboxopt", "qopt"} = {}
  PROVE  HighestRuns
<1>1. SUFFICES ASSUME os.lock = 0, pc[os.cur].at = "app"
               PROVE  os.cur = os.tbl[Min(os.rdy)] /\ ~ Asleep(os.cur)
  BY DEF HighestRuns
<1>2. TasksInv(os, pc) /\ CurInv(os, pc) /\ RunInv(os, pc) /\ ReadyExact
  BY ReadyFollows DEF KernelInv, Holding
<1>3. os.rdy \subseteq Prio /\ OwnPrioInv(os)
  BY ONLY <1>2 DEF TasksInv, OsType, TblInv
<1>4. os.prioCur \in os.rdy /\ \A x \in os.rdy : os.prioCur <= x
  BY ONLY <1>1, <1>2, Ops \cap {"mboxopt", "qopt"} = {} DEF RunInv, Ops
<1>5. os.cur \in os.list /\ os.tcb[os.cur].prio = os.prioCur
  BY ONLY <1>1, <1>2 DEF CurInv
<1>6. os.tbl[os.prioCur] = os.cur
  BY ONLY <1>3, <1>5 DEF OwnPrioInv
<1>7. Min(os.rdy) = os.prioCur
  <2>1. \A x \in os.rdy : x \in Nat
    BY <1>3, CoreAssumption DEF Prio
  <2>2. \A m \in os.rdy : (\A x \in os.rdy : m <= x) => m = os.prioCur
    BY ONLY <1>4, <2>1
  <2> QED
    BY ONLY <1>4, <2>2 DEF Min
<1>8. os.cur \in Live
  <2>1. Live = Living(os, pc)
    BY PlainFacts
  <2> QED
    BY ONLY <1>1, <1>5, <2>1 DEF Living
<1>9. ~ Asleep(os.cur)
  BY ONLY <1>2, <1>4, <1>5, <1>8 DEF ReadyExact, IsReady
<1> QED
  BY ONLY <1>6, <1>7, <1>9

\* An index wraps at most once.
LEMMA WrappedOnce ==
  ASSUME NEW s \in Nat \ {0}, NEW i \in 0 .. s - 1, NEW v \in Nat, v = i \/ v = i + s
  PROVE  v % s = i
OBVIOUS

LEMMA KeptFollows ==
  ASSUME KernelInv
  PROVE  NothingKept
<1>1. KeptInv(os, q) /\ QcbInv(os, qfree)
  BY DEF KernelInv, Holding
<1>2. ASSUME NEW e \in Event, os.ev[e].type = "q"
      PROVE  /\ q[Of(e)].n \in 0 .. Size /\ q[Of(e)].in = (q[Of(e)].out + q[Of(e)].n) % Size
             /\ q[Of(e)].n > 0 => os.ev[e].wait = {}
  <2>1. PICK x : x = q[os.ev[e].ptr]
    OBVIOUS
  <2>2. /\ x \in QcbType /\ (x.in = x.out + x.n \/ x.in = x.out + x.n - Size)
        /\ x.n > 0 => os.ev[e].wait = {}
    BY ONLY <1>1, <1>2, <2>1 DEF KeptInv, QcbInv, Event
  <2>3. x.in \in 0 .. Size - 1 /\ x.out \in 0 .. Size - 1 /\ x.n \in 0 .. Size
    BY ONLY <2>2 DEF QcbType
  <2>4. PICK v : v = x.out + x.n
    OBVIOUS
  <2>5. Size \in Nat \ {0}
    BY QAssumption
  <2>6. v \in Nat /\ (v = x.in \/ v = x.in + Size)
    BY ONLY <2>2, <2>3, <2>4, <2>5
  <2>7. v % Size = x.in
    BY ONLY <2>3, <2>5, <2>6, WrappedOnce
  <2> QED
    BY ONLY <2>1, <2>2, <2>3, <2>4, <2>7 DEF Of
<1>3. \A e \in Event : os.ev[e].type = "mbox" /\ os.ev[e].ptr # Null => os.ev[e].wait = {}
  BY ONLY <1>1 DEF KeptInv, Event
<1> QED
  BY ONLY <1>2, <1>3 DEF NothingKept
-----------------------------------------------------------------------------
\* In every application whose tasks keep a priority of their own, wait for one
\* event at a time and are deleted by themselves only, for any numbers of tasks,
\* events and calls: OSTCBPrioTbl, OSRdyTbl, the wait lists of the events and the
\* pools of control blocks agree with the task control blocks after every step,
\* those of the interrupts included.
THEOREM TablesAgree == Spec /\ Lasting(os.app) => []KernelExact
<1>1. Init /\ Lasting(os.app) => KernelInv
  BY StartHolds
<1>2. KernelInv /\ [Next]_kvars => KernelInv'
  BY StepHolds
<1>3. KernelInv => KernelExact
  BY ExactFollows
<1> QED
  BY <1>1, <1>2, <1>3, PTL DEF Spec

\* A task that runs outside the kernel with the scheduler not locked is the one
\* OSRdyTbl puts first: no Post, Pend, resume, creation, unlock or tick leaves a
\* task of higher priority waiting for the processor.  The PostOpt services are
\* left out, for they may be told not to schedule.
THEOREM HighestHasCpu == Spec /\ Lasting(os.app) => [](Ops \cap {"mboxopt", "qopt"} = {} => HighestRuns)
<1>1. Init /\ Lasting(os.app) => KernelInv
  BY StartHolds
<1>2. KernelInv /\ [Next]_kvars => KernelInv'
  BY StepHolds
<1>3. KernelInv => (Ops \cap {"mboxopt", "qopt"} = {} => HighestRuns)
  BY HighestFollows
<1> QED
  BY <1>1, <1>2, <1>3, PTL DEF Spec

\* No message lies in a mailbox or a queue that a task waits at, and the indices
\* of a queue's ring agree with its count: a Post hands its message to a waiter or
\* keeps it, whatever timeouts, aborts and deletions come between.
THEOREM NobodyWaitsInVain == Spec /\ Lasting(os.app) => []NothingKept
<1>1. Init /\ Lasting(os.app) => KernelInv
  BY StartHolds
<1>2. KernelInv /\ [Next]_kvars => KernelInv'
  BY StepHolds
<1>3. KernelInv => NothingKept
  BY KeptFollows
<1> QED
  BY <1>1, <1>2, <1>3, PTL DEF Spec
=============================================================================
