------------------------------- MODULE OsCore -------------------------------
(***************************************************************************)
(* The core of uC/OS-II (os_core.c, ucos_ii.h) as the lab 5 software       *)
(* configures it: the ready list, the task control blocks, the event       *)
(* control blocks with their wait lists, the scheduler and the clock tick. *)
(*                                                                         *)
(* The whole kernel state is one record, os, and every kernel function is  *)
(* an operator from kernel states to kernel states, so that a service may  *)
(* call several of them inside one critical section.  The two-level bit    *)
(* maps OSRdyGrp/OSRdyTbl and OSEventGrp/OSEventTbl are the sets of        *)
(* priorities they stand for (module ReadyList shows that they are).       *)
(*                                                                         *)
(* A critical section (interrupts off) is one step.  An interrupt may come *)
(* between any two steps; the handler runs with interrupts off and ends in *)
(* OSIntExit, so an interrupt is one step as well and OSIntNesting is 0    *)
(* whenever a task runs.  pc says where in a kernel call each task is.     *)
(***************************************************************************)
EXTENDS Integers, FiniteSets, FiniteSetsExt, Functions, Sequences, SequencesExt

CONSTANTS Task,        \* the task control blocks, OSTCBTbl
          Idle,        \* the one of the idle task
          LowestPrio,  \* OS_LOWEST_PRIO, the priority of the idle task
          Null,        \* the null pointer
          Reserved,    \* OS_TCB_RESERVED, a priority set aside
          App          \* the applications: what each creates and calls, below

ASSUME CoreAssumption ==
  /\ LowestPrio \in Nat \ {0}
  /\ Idle \in Task
  /\ IsFiniteSet(Task)
  /\ Null \notin Task
  /\ Reserved \notin Task \cup {Null}

VARIABLES os,  \* the kernel's data
          pc   \* where each task is: [at, ev, n, svc], n an argument of the call

\* An application, App[os.app], is a record
\*   ops    the services its tasks and interrupt handlers call
\*   prio   the priorities of the tasks main creates, Idle's too
\*   ev     its event control blocks as main leaves them
\*   fresh  the priorities it gives to the tasks it creates or moves
\*   wait   what its tasks wait for in a flag group
\*   msg    the messages they send, and mail, the event they send them to
\*   dly    bound on the ticks of a delay or of the limit of a wait
\*   locks  bound on OSLockNesting
ASSUME AppAssumption == \A a \in DOMAIN App :
  /\ App[a].prio \in [DOMAIN App[a].prio -> 0 .. LowestPrio] /\ IsInjective(App[a].prio)
  /\ DOMAIN App[a].prio \subseteq Task /\ Idle \in DOMAIN App[a].prio /\ App[a].prio[Idle] = LowestPrio
  /\ IsFiniteSet(DOMAIN App[a].ev) /\ Null \notin App[a].msg \cup DOMAIN App[a].ev
  /\ App[a].fresh \subseteq 0 .. LowestPrio /\ App[a].dly \in Nat /\ App[a].locks \in Nat

Ops == App[os.app].ops
StartPrio == App[os.app].prio
Fresh == App[os.app].fresh
MaxDly == App[os.app].dly
Locks == App[os.app].locks
Event == DOMAIN os.ev                                     \* OSEventTbl

Prio == 0 .. LowestPrio
PendAny == {"sem", "mbox", "q", "mutex", "flag"}          \* OS_STAT_PEND_ANY
-----------------------------------------------------------------------------
\* A task control block as OS_TCBInit leaves it; multi is the set of events
\* OSTCBEventMultiPtr points to, the empty set when it is null.
Tcb(p) == [prio |-> p, stat |-> {}, pend |-> "ok", dly |-> 0,
           ev |-> Null, multi |-> {}, msg |-> Null, delreq |-> FALSE]
Unused == [type |-> "unused", cnt |-> 0, ptr |-> Null, wait |-> {}]

\* OSInit, main of application a and OSStart: the task of highest priority runs.
Started(a) ==
  LET prio == App[a].prio
      ev   == App[a].ev
  IN [app |-> a,
      rdy |-> Range(prio),
      tbl |-> [p \in Prio |-> IF p \in Range(prio) THEN CHOOSE t \in DOMAIN prio : prio[t] = p
                                                   ELSE Null],
      tcb |-> [t \in Task |-> IF t \in DOMAIN prio THEN Tcb(prio[t]) ELSE Tcb(0)],
      list |-> DOMAIN prio,
      free |-> Task \ DOMAIN prio,
      ev |-> ev,
      evfree |-> SetToSeq({e \in DOMAIN ev : ev[e] = Unused}),
      cur |-> CHOOSE t \in DOMAIN prio : \A u \in DOMAIN prio : prio[t] <= prio[u],
      prioCur |-> Min(Range(prio)),
      lock |-> 0]
-----------------------------------------------------------------------------
SetReady(k, t) == [k EXCEPT !.rdy = @ \cup {k.tcb[t].prio}]
ClearReady(k, t) == [k EXCEPT !.rdy = @ \ {k.tcb[t].prio}]

OS_SchedNew(k) == Min(k.rdy)

\* A switch only when the highest priority is not the one OSPrioCur holds.
OS_Sched(k) ==
  LET high == OS_SchedNew(k)
  IN IF k.lock = 0 /\ high # k.prioCur
     THEN [k EXCEPT !.cur = k.tbl[high], !.prioCur = high]
     ELSE k

\* The end of the outermost interrupt; it switches as OS_Sched does.
OSIntExit(k) == OS_Sched(k)
-----------------------------------------------------------------------------
LeftBy(c, ps) == [c EXCEPT !.wait = @ \ ps]
OS_EventTaskRemove(k, t, e) == [k EXCEPT !.ev[e].wait = @ \ {k.tcb[t].prio}]

OS_EventTaskRemoveMulti(k, t, es) ==
  [k EXCEPT !.ev = [e \in DOMAIN k.ev |-> IF e \in es THEN LeftBy(k.ev[e], {k.tcb[t].prio}) ELSE k.ev[e]]]

OS_EventTaskWait(k, e) ==
  ClearReady([k EXCEPT !.tcb[k.cur].ev = e,
                       !.ev[e].wait = @ \cup {k.tcb[k.cur].prio}], k.cur)

OS_EventTaskWaitMulti(k, es) ==
  ClearReady([k EXCEPT !.tcb[k.cur].ev = Null,
                       !.tcb[k.cur].multi = es,
                       !.ev = [e \in DOMAIN k.ev |->
                                 IF e \in es
                                 THEN [k.ev[e] EXCEPT !.wait = @ \cup {k.tcb[k.cur].prio}]
                                 ELSE k.ev[e]]], k.cur)

\* What it does to the control block of a task: the wait is over.
WaitOver(c, e, msg, msk, stat) ==
  [c EXCEPT !.dly = 0, !.msg = msg, !.stat = @ \ {msk}, !.pend = stat,
            !.ev = IF c.multi = {} THEN @ ELSE e]

\* The waiters ts of event e are made ready, unless they are suspended, and
\* leave its wait list; one that waits for several events leaves all the lists.
Readied(k, e, ts, msg, msk, stat) ==
  [k EXCEPT
    !.tcb = [t \in Task |-> IF t \in ts THEN WaitOver(k.tcb[t], e, msg, msk, stat) ELSE k.tcb[t]],
    !.rdy = @ \cup {k.tcb[t].prio : t \in {u \in ts : "suspend" \notin k.tcb[u].stat}},
    !.ev = [f \in DOMAIN k.ev |->
             LeftBy(k.ev[f], {k.tcb[t].prio : t \in {u \in ts : f \in {e} \cup k.tcb[u].multi}})]]

OS_EventTaskRdyFault(k, e, msg, msk, stat) ==   \* fault: the other lists are not left
  LET r == Readied(k, e, {k.tbl[Min(k.ev[e].wait)]}, msg, msk, stat)
  IN [r EXCEPT !.ev = [k.ev EXCEPT ![e] = r.ev[e]]]

\* The waiter of highest priority.
OS_EventTaskRdy(k, e, msg, msk, stat) == Readied(k, e, {k.tbl[Min(k.ev[e].wait)]}, msg, msk, stat)

\* The loops of the Del, PendAbort and PostOpt calls: every waiter.
ReadyAll(k, e, msg, msk, stat) == Readied(k, e, {k.tbl[p] : p \in k.ev[e].wait}, msg, msk, stat)
-----------------------------------------------------------------------------
\* What the end of a delay does to a task: a wait that had a limit times out.
DelayOver(c) == [c EXCEPT !.dly = 0,
                          !.stat = @ \ PendAny,
                          !.pend = IF c.stat \cap PendAny # {} THEN "to" ELSE "ok"]

Ticked(c) == IF c.dly = 1 THEN DelayOver(c) ELSE [c EXCEPT !.dly = @ - 1]

OSTimeTickFault(k) ==   \* fault: the delay of a suspended task stands still
  LET timed == {t \in k.list \ {Idle} : k.tcb[t].dly > 0 /\ "suspend" \notin k.tcb[t].stat}
  IN [k EXCEPT
       !.tcb = [t \in Task |-> IF t \in timed THEN Ticked(k.tcb[t]) ELSE k.tcb[t]],
       !.rdy = @ \cup {k.tcb[t].prio : t \in {u \in timed : k.tcb[u].dly = 1}}]

OSTimeTick(k) ==
  LET timed == {t \in k.list \ {Idle} : k.tcb[t].dly > 0}
  IN [k EXCEPT
       !.tcb = [t \in Task |-> IF t \in timed THEN Ticked(k.tcb[t]) ELSE k.tcb[t]],
       !.rdy = @ \cup {k.tcb[t].prio : t \in {u \in timed : k.tcb[u].dly = 1 /\ "suspend" \notin k.tcb[u].stat}}]
-----------------------------------------------------------------------------
\* Where a task is.  "app": outside the kernel; "sched": about to call
\* OS_Sched and return; "block": about to call OS_Sched and wait; "wake": back
\* from that OS_Sched.  Other labels belong to one service; svc is the type of
\* the event the call is on.
InApp == [at |-> "app", ev |-> Null, n |-> 0, svc |-> Null]
At(t, label) == os.cur = t /\ pc[t].at = label
Calls(t, op) == op \in Ops /\ t # Idle /\ At(t, "app")
Goto(t, label) == pc' = [pc EXCEPT ![t].at = label]
GotoWith(t, label, e, x) == pc' = [pc EXCEPT ![t] = [InApp EXCEPT !.at = label, !.ev = e, !.n = x]]
Starts(t, op, type, e, x) == pc' = [pc EXCEPT ![t] = [at |-> op, ev |-> e, n |-> x, svc |-> type]]
Wakes(t, type) == At(t, "wake") /\ pc[t].svc = type
Return(t) == pc' = [pc EXCEPT ![t] = InApp]

\* A call on event e past the checks of the type, the nesting counters and the
\* arguments, all made with interrupts on.
Enter(t, op, type, e, n) ==
  /\ Calls(t, op)
  /\ os.ev[e].type = type
  /\ Starts(t, op, type, e, n)
  /\ UNCHANGED os

\* A call that may wait is refused while the scheduler is locked.
Blocks(t, op, type, e, n) == os.lock = 0 /\ Enter(t, op, type, e, n)

\* No call on e has passed its checks and not yet disabled interrupts: the
\* application deletes an event only then (note 1 of the Del services: "This
\* function must be used with care").
Idling(e) == \A t \in Task : pc[t].at # "multi" /\ (pc[t].ev = e => pc[t].at \in {"block", "wake"})

\* The block of a deleted event goes back to the head of the list of free ones.
FreeEcb(k, e) == [k EXCEPT !.ev[e] = [Unused EXCEPT !.wait = k.ev[e].wait], !.evfree = <<e>> \o @]

Reschedule(t) ==
  /\ \/ At(t, "sched") /\ Return(t)
     \/ At(t, "block") /\ Goto(t, "wake")
  /\ os' = OS_Sched(os)

WaitForFault(k, e, bit, n) ==   \* fault: the limit is not set
  OS_EventTaskWait([k EXCEPT !.tcb[k.cur].stat = @ \cup {bit}, !.tcb[k.cur].pend = "ok"], e)

\* The first half of every Pend: the task waits, for n ticks or, when n is 0,
\* for ever.
WaitFor(k, e, bit, n) ==
  OS_EventTaskWait([k EXCEPT !.tcb[k.cur].stat = @ \cup {bit},
                             !.tcb[k.cur].pend = "ok",
                             !.tcb[k.cur].dly = n], e)

AwakeFault(k, t, e) ==   \* fault: the wait list is not left after a time-out
  [k EXCEPT !.tcb[t].stat = {}, !.tcb[t].pend = "ok", !.tcb[t].ev = Null,
            !.tcb[t].multi = {}, !.tcb[t].msg = Null]

\* The last half of every Pend on one event: the wait list is left if the wait
\* timed out.
Awake(k, t, e) ==
  LET k1 == IF k.tcb[t].pend = "to" THEN OS_EventTaskRemove(k, t, e) ELSE k
  IN [k1 EXCEPT !.tcb[t].stat = {}, !.tcb[t].pend = "ok", !.tcb[t].ev = Null,
                !.tcb[t].multi = {}, !.tcb[t].msg = Null]

\* A service called by an interrupt handler: OSIntEnter, the call, OSIntExit.
InInterrupt(k) == os' = OSIntExit(k)
-----------------------------------------------------------------------------
\* What the invariants of the services speak of.
Blocked(t) == pc[t].at \in {"block", "wake"}
Multi == {t \in Task : pc[t].at \in {"multiblock", "multiwake"}}   \* in OSEventPendMulti
Woken(t) == t \in Multi /\ (os.tcb[t].pend # "ok" \/ os.tcb[t].ev # Null)

\* OS_STAT_MULTI stays in the status of a task until it runs.
Asleep(t) == \/ os.tcb[t].dly > 0 \/ "suspend" \in os.tcb[t].stat
             \/ os.tcb[t].stat # {} /\ ~ Woken(t)
IsReady(t) == os.tcb[t].prio \in os.rdy
=============================================================================
