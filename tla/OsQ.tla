--------------------------------- MODULE OsQ ---------------------------------
(***************************************************************************)
(* Message queues (os_q.c).  A queue control block describes a circular    *)
(* buffer: the pointers OSQIn and OSQOut are indexes from 0, OSQEnd is the *)
(* index Size, and OSQEntries alone tells a full queue from an empty one.  *)
(* What lies in the buffer beyond the entries stays there.                 *)
(***************************************************************************)
EXTENDS OsMbox

CONSTANTS Qcb,   \* the queue control blocks, OSQTbl
          Size   \* OSQSize of every queue

ASSUME QAssumption == Size \in Nat \ {0}

VARIABLES q,      \* the queue control blocks and their buffers
          qfree   \* OSQFreeList

queues == <<q, qfree>>
-----------------------------------------------------------------------------
EmptyQ(x) == [x EXCEPT !.in = 0, !.out = 0, !.n = 0]
NewQ == [in |-> 0, out |-> 0, n |-> 0, buf |-> [i \in 0 .. Size - 1 |-> Null]]
Wrap(i) == IF i = Size THEN 0 ELSE i

Oldest(x) == x.buf[x.out]
Out(x) == [x EXCEPT !.out = Wrap(@ + 1), !.n = @ - 1]
In(x, m) == [x EXCEPT !.buf[x.in] = m, !.in = Wrap(@ + 1), !.n = @ + 1]
ToFrontFault(x, m) ==   \* fault: OSQEntries is not moved on
  LET i == (IF x.out = 0 THEN Size ELSE x.out) - 1
  IN [x EXCEPT !.buf[i] = m, !.out = i]

ToFront(x, m) ==
  LET i == (IF x.out = 0 THEN Size ELSE x.out) - 1
  IN [x EXCEPT !.buf[i] = m, !.out = i, !.n = @ + 1]

Of(e) == os.ev[e].ptr

TakeOldest(t, c) ==
  /\ q' = [q EXCEPT ![c] = Out(@)]
  /\ Holds(t, Oldest(q[c]))

OSQAccept(t) ==
  LET c == Of(pc[t].ev)
  IN /\ At(t, "qaccept")
     /\ IF q[c].n > 0 THEN TakeOldest(t, c) ELSE UNCHANGED <<q, mine>>
     /\ Return(t)
     /\ UNCHANGED <<os, qfree>>

OSQPend(t) ==
  LET e == pc[t].ev
  IN /\ At(t, "qpend")
     /\ IF q[Of(e)].n > 0
        THEN TakeOldest(t, Of(e)) /\ Return(t) /\ UNCHANGED os
        ELSE os' = WaitFor(os, e, "q", pc[t].n) /\ Goto(t, "block") /\ UNCHANGED <<q, mine>>
     /\ UNCHANGED qfree

QWake(t) ==
  /\ Wakes(t, "q")
  /\ os' = Awake(os, t, pc[t].ev)
  /\ Holds(t, IF os.tcb[t].pend = "ok" THEN os.tcb[t].msg ELSE Null)
  /\ Return(t)
  /\ UNCHANGED <<q, qfree>>

\* What OSQPost, OSQPostFront and OSQPostOpt do to the kernel and the queue.
QPost(e, m, front, all) ==
  IF os.ev[e].wait # {}
  THEN /\ os' = IF all THEN ReadyAll(os, e, m, "q", "ok") ELSE OS_EventTaskRdy(os, e, m, "q", "ok")
       /\ UNCHANGED q
  ELSE /\ UNCHANGED os
       /\ q' = [q EXCEPT ![Of(e)] = IF @.n >= Size THEN @           \* OS_ERR_Q_FULL
                                    ELSE IF front THEN ToFront(@, m) ELSE In(@, m)]

Queued(t, e, m) ==
  /\ IF os.ev[e].wait = {} /\ q[Of(e)].n >= Size THEN UNCHANGED mine ELSE Gives(t, m)
  /\ UNCHANGED qfree

OSQPost(t) ==
  LET e == pc[t].ev
  IN /\ \/ At(t, "qpost") /\ QPost(e, pc[t].n, FALSE, FALSE)
        \/ At(t, "qpostfront") /\ QPost(e, pc[t].n, TRUE, FALSE)       \* OSQPostFront
     /\ Queued(t, e, pc[t].n)
     /\ IF os.ev[e].wait # {} THEN Goto(t, "sched") ELSE Return(t)

\* With OS_POST_OPT_NO_SCHED the call returns without a look at the scheduler.
OSQPostOpt(t) ==
  LET e == pc[t].ev
  IN /\ At(t, "qopt")
     /\ \E front, all \in BOOLEAN : QPost(e, pc[t].n, front, all)
     /\ Queued(t, e, pc[t].n)
     /\ \/ Return(t)
        \/ os.ev[e].wait # {} /\ Goto(t, "sched")

IsrQPost(e, m) ==
  /\ "isrqpost" \in Ops
  /\ os.ev[e].type = "q" /\ m \in mine[Idle]
  /\ IF os.ev[e].wait # {}
     THEN os' = OSIntExit(OS_EventTaskRdy(os, e, m, "q", "ok")) /\ UNCHANGED q
     ELSE os' = OSIntExit(os) /\ q' = [q EXCEPT ![Of(e)] = IF @.n >= Size THEN @ ELSE In(@, m)]
  /\ Queued(Idle, e, m)
  /\ UNCHANGED pc

OSQPendAbort(t) ==
  LET e == pc[t].ev
  IN /\ At(t, "qabort")
     /\ IF os.ev[e].wait # {}
        THEN /\ \/ os' = OS_EventTaskRdy(os, e, Null, "q", "abort")
                \/ os' = ReadyAll(os, e, Null, "q", "abort")
             /\ Goto(t, "sched")
        ELSE UNCHANGED os /\ Return(t)
     /\ UNCHANGED <<queues, mine>>

\* The entries of a queue, oldest first.
Entries(x) == [i \in 1 .. x.n |-> x.buf[(x.out + i - 1) % Size]]

\* The application that flushes a queue first looks up what is in it.
OSQFlush(t) ==
  LET c == Of(pc[t].ev)
  IN /\ At(t, "qflush")
     /\ q' = [q EXCEPT ![c] = EmptyQ(@)]
     /\ mine' = [mine EXCEPT ![t] = @ \cup {Entries(q[c])[i] : i \in 1 .. q[c].n}]
     /\ Return(t)
     /\ UNCHANGED <<os, qfree>>
-----------------------------------------------------------------------------
\* Creation takes an event control block, then a queue control block; without
\* the second the first goes back.
OSQCreate(t) ==
  /\ Calls(t, "qcreate")
  /\ os.evfree # <<>>
  /\ os' = [os EXCEPT !.evfree = Tail(@)]
  /\ Starts(t, "qcreate", "q", Head(os.evfree), 0)
  /\ UNCHANGED <<queues, mine>>

TakeQcbFault(t) ==   \* fault: the event control block does not go back
  LET e == pc[t].ev
  IN /\ At(t, "qcreate") /\ Return(t)
     /\ IF qfree # <<>>
        THEN /\ os' = [os EXCEPT !.ev[e] = [Unused EXCEPT !.type = "q", !.ptr = Head(qfree)]]
             /\ q' = [q EXCEPT ![Head(qfree)] = [NewQ EXCEPT !.buf = q[Head(qfree)].buf]]
             /\ qfree' = Tail(qfree)
        ELSE UNCHANGED <<os, q, qfree>>
     /\ UNCHANGED mine

TakeQcb(t) ==
  LET e == pc[t].ev
  IN /\ At(t, "qcreate")
     /\ IF qfree # <<>>
        THEN /\ os' = [os EXCEPT !.ev[e] = [Unused EXCEPT !.type = "q", !.ptr = Head(qfree)]]
             /\ q' = [q EXCEPT ![Head(qfree)] = [NewQ EXCEPT !.buf = q[Head(qfree)].buf]]
             /\ qfree' = Tail(qfree)
        ELSE /\ os' = [os EXCEPT !.evfree = <<e>> \o @]
             /\ UNCHANGED <<q, qfree>>
     /\ Return(t)
     /\ UNCHANGED mine

\* OS_DEL_NO_PEND (n = 0) or OS_DEL_ALWAYS (n = 1).  The task that deletes a
\* queue takes what is in it.
OSQDel(t) ==
  LET e == pc[t].ev
      c == Of(e)
  IN /\ At(t, "qdel")
     /\ IF pc[t].n = 0 /\ os.ev[e].wait # {}
        THEN UNCHANGED <<os, q, qfree, mine>> /\ Return(t)               \* OS_ERR_TASK_WAITING
        ELSE /\ os' = FreeEcb(ReadyAll(os, e, Null, "q", "ok"), e)
             /\ qfree' = <<c>> \o qfree
             /\ mine' = [mine EXCEPT ![t] = @ \cup {Entries(q[c])[i] : i \in 1 .. q[c].n}]
             /\ UNCHANGED q
             /\ IF os.ev[e].wait # {} THEN Goto(t, "sched") ELSE Return(t)
-----------------------------------------------------------------------------
\* The application deletes with care.
QCall(t, e) ==
  /\ \/ Enter(t, "qaccept", "q", e, 0)
     \/ \E n \in 0 .. MaxDly : Blocks(t, "qpend", "q", e, n)
     \/ \E m \in mine[t], op \in {"qpost", "qpostfront", "qopt"} : Enter(t, op, "q", e, m)
     \/ Enter(t, "qabort", "q", e, 0)
     \/ Enter(t, "qflush", "q", e, 0)
     \/ Idling(e) /\ \E n \in 0 .. 1 : Enter(t, "qdel", "q", e, n)
  /\ \A u \in Task : pc[u].at # "qdel"

QStep(t) ==
  \/ OSQAccept(t) \/ OSQPend(t) \/ QWake(t) \/ OSQPost(t) \/ OSQPostOpt(t)
  \/ OSQPendAbort(t) \/ OSQFlush(t) \/ OSQCreate(t) \/ TakeQcb(t) \/ OSQDel(t)

QNext ==
  \/ \E e \in Event, m \in Msg : IsrQPost(e, m)
  \/ \E t \in {os.cur} : \/ \E e \in Event : QCall(t, e) /\ UNCHANGED <<queues, mine>>
                         \/ QStep(t)
=============================================================================
