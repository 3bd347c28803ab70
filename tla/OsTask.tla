------------------------------- MODULE OsTask -------------------------------
(***************************************************************************)
(* Task management and time (os_task.c, os_time.c) and the scheduler lock. *)
(* A task is created, deleted, suspended, resumed, delayed and given       *)
(* another priority, by itself or by another, with the clock tick coming   *)
(* in between any two critical sections.                                   *)
(***************************************************************************)
EXTENDS OsCore

Target(p) == os.tbl[p]
Exists(p) == Target(p) \notin {Null, Reserved}

\* A task that holds the scheduler lock does not go to sleep: the Pend calls
\* refuse it (OS_ERR_PEND_LOCKED), here the application has to.
Unlocked == os.lock = 0

OSTimeDly(t, n) ==
  /\ Calls(t, "dly") /\ Unlocked
  /\ os' = [ClearReady(os, t) EXCEPT !.tcb[t].dly = n]
  /\ Goto(t, "sched")

OSTimeDlyResume(t, p) ==
  /\ Calls(t, "dlyresume")
  /\ p # LowestPrio /\ Exists(p)
  /\ LET u  == Target(p)
         k1 == [os EXCEPT !.tcb[u] = DelayOver(@)]
     IN /\ os.tcb[u].dly > 0
        /\ IF "suspend" \in os.tcb[u].stat
           THEN os' = k1 /\ UNCHANGED pc
           ELSE os' = SetReady(k1, u) /\ Goto(t, "sched")

OSTaskSuspendFault(t, p) ==   \* fault: no look at the scheduler
  /\ Calls(t, "suspend") /\ p # LowestPrio /\ Exists(p)
  /\ os' = [ClearReady(os, Target(p)) EXCEPT !.tcb[Target(p)].stat = @ \cup {"suspend"}]
  /\ UNCHANGED pc

OSTaskSuspend(t, p) ==
  /\ Calls(t, "suspend")
  /\ p # LowestPrio /\ Exists(p)
  /\ p = os.tcb[t].prio => Unlocked
  /\ os' = [ClearReady(os, Target(p)) EXCEPT !.tcb[Target(p)].stat = @ \cup {"suspend"}]
  /\ IF p = os.tcb[t].prio THEN Goto(t, "sched") ELSE UNCHANGED pc

\* The task is made ready only if nothing else is left in OSTCBStat.
OSTaskResume(t, p) ==
  /\ Calls(t, "resume")
  /\ p # LowestPrio /\ Exists(p)
  /\ LET u  == Target(p)
         k1 == [os EXCEPT !.tcb[u].stat = @ \ {"suspend"}]
     IN /\ "suspend" \in os.tcb[u].stat
        /\ IF k1.tcb[u].stat = {} /\ k1.tcb[u].dly = 0
           THEN os' = SetReady(k1, u) /\ Goto(t, "sched")
           ELSE os' = k1 /\ UNCHANGED pc

\* The bits of the task move from the old priority to the new one: in the
\* ready list if it is there, in the event's and the events' wait lists
\* whenever the pointers to them are set.
MovePrio(k, u, p, r) ==
  LET es == k.tcb[u].multi \cup ({k.tcb[u].ev} \ {Null})
  IN [k EXCEPT !.tbl = [@ EXCEPT ![p] = Null, ![r] = u],
               !.rdy = IF k.tcb[u].prio \in @ THEN (@ \ {k.tcb[u].prio}) \cup {r} ELSE @,
               !.ev = [e \in DOMAIN k.ev |->
                        IF e \in es
                        THEN [k.ev[e] EXCEPT !.wait = (@ \ {k.tcb[u].prio}) \cup {r}]
                        ELSE k.ev[e]],
               !.tcb[u].prio = r]

OSTaskChangePrio(t, p, r) ==
  /\ Calls(t, "changeprio")
  /\ p # LowestPrio /\ r # LowestPrio
  /\ Target(r) = Null /\ Exists(p)
  /\ os' = MovePrio(os, Target(p), p, r)
  /\ Goto(t, "sched")
-----------------------------------------------------------------------------
\* Creation takes three critical sections: the priority is set aside, a control
\* block is taken from the free list, the block filled in is linked.
ReservePrio(t, p) ==
  /\ Calls(t, "create")
  /\ Target(p) = Null
  /\ os' = [os EXCEPT !.tbl[p] = Reserved]
  /\ GotoWith(t, "create", Null, p)

TakeTcb(t) ==
  /\ At(t, "create")
  /\ IF os.free = {}
     THEN UNCHANGED os /\ Goto(t, "refused")
     ELSE \E u \in os.free :
            /\ os' = [os EXCEPT !.free = @ \ {u}, !.tcb[u] = Tcb(pc[t].n)]
            /\ GotoWith(t, "link", u, pc[t].n)

\* Without a control block the priority is free again.
GiveBack(t) ==
  /\ At(t, "refused")
  /\ os' = [os EXCEPT !.tbl[pc[t].n] = Null]
  /\ Return(t)

OS_TCBInit(t) ==
  LET u == pc[t].ev
  IN /\ At(t, "link")
     /\ os' = SetReady([os EXCEPT !.tbl[pc[t].n] = u, !.list = @ \cup {u}], u)
     /\ pc' = [pc EXCEPT ![t] = [InApp EXCEPT !.at = "sched"], ![u] = InApp]

\* Deletion takes two critical sections with the scheduler locked in between.
\* "del" lets a task delete any other; "delself" is the discipline the comment
\* of OSTaskDelReq asks for: a task is requested to delete itself.  A task that
\* holds the scheduler lock deletes nobody.  Event flags see the deleted task leave
\* its group in the same critical section (NodeDropped of OsFlag).
OSTaskDel(t, p) ==
  /\ \/ Calls(t, "del")
     \/ Calls(t, "delself") /\ p = os.tcb[t].prio /\ os.tcb[t].delreq
  /\ p # LowestPrio /\ Exists(p) /\ Unlocked
  /\ LET u  == Target(p)
         es == os.tcb[u].multi \cup ({os.tcb[u].ev} \ {Null})
         k1 == OS_EventTaskRemoveMulti(ClearReady(os, u), u, es)
     IN os' = [k1 EXCEPT !.tcb[u].dly = 0, !.tcb[u].stat = {}, !.tcb[u].pend = "ok",
                         !.lock = @ + 1]
  /\ GotoWith(t, "delete", Null, p)

\* What is in a free control block is never read; Tcb(0) stands for it.
FreeTcb(t) ==
  LET u == Target(pc[t].n)
  IN /\ At(t, "delete")
     /\ os' = [os EXCEPT !.lock = @ - 1, !.tbl[pc[t].n] = Null, !.tcb[u] = Tcb(0),
                         !.list = @ \ {u}, !.free = @ \cup {u}]
     /\ pc' = [pc EXCEPT ![u] = InApp, ![t] = [InApp EXCEPT !.at = "sched"]]

OSTaskDelReq(t, p) ==
  /\ Calls(t, "delself")
  /\ p # LowestPrio /\ Exists(p)
  /\ os' = [os EXCEPT !.tcb[Target(p)].delreq = TRUE]
  /\ UNCHANGED pc
-----------------------------------------------------------------------------
OSSchedLock(t) ==
  /\ Calls(t, "lock")
  /\ os.lock < Locks
  /\ os' = [os EXCEPT !.lock = @ + 1]
  /\ UNCHANGED pc

OSSchedUnlock(t) ==
  /\ Calls(t, "lock")
  /\ os.lock > 0
  /\ os' = [os EXCEPT !.lock = @ - 1]
  /\ IF os.lock = 1 THEN Goto(t, "sched") ELSE UNCHANGED pc

Tick == InInterrupt(OSTimeTick(os)) /\ UNCHANGED pc
-----------------------------------------------------------------------------
TaskStep(t) ==
  \/ Reschedule(t)
  \/ \E n \in 1 .. MaxDly : OSTimeDly(t, n)
  \/ \E p \in Prio : \/ OSTimeDlyResume(t, p)
                     \/ OSTaskSuspend(t, p)
                     \/ OSTaskResume(t, p)
                     \/ OSTaskDel(t, p)
                     \/ OSTaskDelReq(t, p)
  \/ \E p \in Fresh : ReservePrio(t, p)
  \/ \E p \in Prio, r \in Fresh : OSTaskChangePrio(t, p, r)
  \/ TakeTcb(t) \/ GiveBack(t) \/ OS_TCBInit(t) \/ FreeTcb(t)
  \/ OSSchedLock(t) \/ OSSchedUnlock(t)
=============================================================================
