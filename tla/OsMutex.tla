------------------------------- MODULE OsMutex -------------------------------
(***************************************************************************)
(* Mutual exclusion semaphores (os_mutex.c) with priority inheritance: the *)
(* priority pip set aside for the mutex is lent to its owner while a task  *)
(* of higher priority than the owner's waits.  OSEventCnt holds pip in its *)
(* upper byte and the owner's own priority, or 255, in the lower one.      *)
(***************************************************************************)
EXTENDS OsTask

CONSTANT Pip  \* the priority the application sets aside for its mutexes

VARIABLE has  \* for each task, the mutexes it was told it has
-----------------------------------------------------------------------------
MutexAvailable == 255                                      \* OS_MUTEX_AVAILABLE
PipOf(k, e) == k.ev[e].cnt \div 256
OwnPrio(k, e) == k.ev[e].cnt % 256
Owned(k, e, t, p) == [k EXCEPT !.ev[e].cnt = 256 * PipOf(k, e) + p, !.ev[e].ptr = t]

Has(t, e) == has' = [has EXCEPT ![t] = @ \cup {e}]

OSMutexAccept(t) ==
  LET e == pc[t].ev
  IN /\ At(t, "muaccept")
     /\ IF OwnPrio(os, e) = MutexAvailable
        THEN os' = Owned(os, e, t, os.tcb[t].prio) /\ Has(t, e)
        ELSE UNCHANGED <<os, has>>
     /\ Return(t)

PromoteFault(k, u, pip) ==   \* fault: only an owner that is ready is promoted
  LET p == k.tcb[u].prio
  IN IF p \notin k.rdy THEN k
     ELSE [k EXCEPT !.rdy = (@ \ {p}) \cup {pip}, !.tcb[u].prio = pip, !.tbl[pip] = u]

\* The owner u moves to priority pip, in the ready list or in the wait list of
\* the event its control block points to.
Promote(k, u, pip) ==
  LET p == k.tcb[u].prio
      e == k.tcb[u].ev
      k1 == IF p \in k.rdy THEN [k EXCEPT !.rdy = (@ \ {p}) \cup {pip}]
            ELSE IF e # Null THEN [k EXCEPT !.ev[e].wait = (@ \ {p}) \cup {pip}]
            ELSE k
  IN [k1 EXCEPT !.tcb[u].prio = pip, !.tbl[pip] = u]

OSMutexPend(t) ==
  LET e == pc[t].ev
      u == os.ev[e].ptr
      k == IF os.tcb[u].prio > PipOf(os, e) /\ OwnPrio(os, e) > os.tcb[t].prio
           THEN Promote(os, u, PipOf(os, e)) ELSE os
  IN /\ At(t, "mupend")
     /\ IF OwnPrio(os, e) = MutexAvailable
        THEN os' = Owned(os, e, t, os.tcb[t].prio) /\ Has(t, e) /\ Return(t)
        ELSE os' = WaitFor(k, e, "mutex", pc[t].n) /\ Goto(t, "block") /\ UNCHANGED has

MutexWakeFault(t) ==   \* fault: OSTCBStatPend is not looked at
  Wakes(t, "mutex") /\ os' = Awake(os, t, pc[t].ev) /\ Has(t, pc[t].ev) /\ Return(t)

MutexWake(t) ==
  /\ Wakes(t, "mutex")
  /\ os' = Awake(os, t, pc[t].ev)
  /\ IF os.tcb[t].pend = "ok" THEN Has(t, pc[t].ev) ELSE UNCHANGED has
  /\ Return(t)

\* u gets priority p back and is made ready.
OSMutex_RdyAtPrio(k, u, p) ==
  [k EXCEPT !.rdy = (@ \ {k.tcb[u].prio}) \cup {p}, !.tcb[u].prio = p, !.tbl[p] = u]

\* The mutex goes to the waiter of highest priority; without one the call does
\* not look at the scheduler.
OSMutexPost(t) ==
  LET e   == pc[t].ev
      pip == PipOf(os, e)
      k1  == IF os.tcb[t].prio = pip THEN OSMutex_RdyAtPrio(os, t, OwnPrio(os, e)) ELSE os
      k2  == [k1 EXCEPT !.tbl[pip] = Reserved]
      p   == Min(os.ev[e].wait)
  IN /\ At(t, "mupost")
     /\ IF os.ev[e].ptr # t THEN UNCHANGED <<os, has>> /\ Return(t)
        ELSE /\ has' = [has EXCEPT ![t] = @ \ {e}]
             /\ IF os.ev[e].wait = {}
                THEN os' = Owned(k2, e, Null, MutexAvailable) /\ Return(t)
                ELSE /\ os' = LET k3 == OS_EventTaskRdy(k2, e, Null, "mutex", "ok")
                              IN Owned(k3, e, k3.tbl[p], p)
                     /\ Goto(t, "sched")
-----------------------------------------------------------------------------
OSMutexCreate(t) ==
  /\ Calls(t, "mudel")
  /\ os.tbl[Pip] = Null /\ os.evfree # <<>>
  /\ os' = [os EXCEPT !.tbl[Pip] = Reserved,
                      !.ev[Head(os.evfree)] = [Unused EXCEPT !.type = "mutex", !.cnt = 256 * Pip + MutexAvailable],
                      !.evfree = Tail(@)]
  /\ UNCHANGED <<pc, has>>

\* OS_DEL_NO_PEND (n = 0) or OS_DEL_ALWAYS (n = 1).  The tasks that wait go on
\* with OS_ERR_NONE, the resource being no longer guarded (note 3).
OSMutexDel(t) ==
  LET e   == pc[t].ev
      u   == os.ev[e].ptr
      pip == PipOf(os, e)
      k1  == IF u # Null /\ os.tcb[u].prio = pip THEN OSMutex_RdyAtPrio(os, u, OwnPrio(os, e)) ELSE os
      k2  == FreeEcb(ReadyAll(k1, e, Null, "mutex", "ok"), e)
  IN /\ At(t, "mudel")
     /\ IF pc[t].n = 0
        THEN /\ os' = IF os.ev[e].wait = {} THEN [FreeEcb(os, e) EXCEPT !.tbl[pip] = Null] ELSE os
             /\ Return(t)
        ELSE /\ os' = [k2 EXCEPT !.tbl[pip] = Null]
             /\ IF os.ev[e].wait # {} THEN Goto(t, "sched") ELSE Return(t)
     /\ has' = [u2 \in Task |-> IF pc[t].n = 0 /\ os.ev[e].wait # {} THEN has[u2] ELSE has[u2] \ {e}]
-----------------------------------------------------------------------------
\* The application follows the notes: the owner pends on no other event and
\* does not pend twice; a mutex is deleted with care, with OS_DEL_NO_PEND while
\* nobody has it and with OS_DEL_ALWAYS while its owner is ready to run (note 4).
MutexCall(t, e) ==
  /\ \/ has[t] = {} /\ Enter(t, "muaccept", "mutex", e, 0)
     \/ has[t] = {} /\ \E n \in 0 .. MaxDly : Blocks(t, "mupend", "mutex", e, n)
     \/ Enter(t, "mupost", "mutex", e, 0)
     \/ Idling(e) /\ os.ev[e].ptr = Null /\ Enter(t, "mudel", "mutex", e, 0)
     \/ Idling(e) /\ (os.ev[e].ptr \in Task => IsReady(os.ev[e].ptr)) /\ Enter(t, "mudel", "mutex", e, 1)
  /\ \A u \in Task : pc[u].at # "mudel"

MutexStep(t) ==
  \/ OSMutexAccept(t) \/ OSMutexPend(t) \/ MutexWake(t) \/ OSMutexPost(t)
  \/ OSMutexCreate(t) \/ OSMutexDel(t)

\* The priorities of the mutexes that main creates are set aside.
PipsReserved(k) ==
  [k EXCEPT !.tbl = [p \in Prio |->
     IF \E e \in DOMAIN k.ev : k.ev[e].type = "mutex" /\ PipOf(k, e) = p THEN Reserved ELSE k.tbl[p]]]

MutexNext == \E t \in {os.cur} : \/ \E e \in Event : MutexCall(t, e) /\ UNCHANGED has
                                 \/ MutexStep(t)
=============================================================================
