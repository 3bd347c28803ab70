-------------------------------- MODULE OsMbox --------------------------------
(***************************************************************************)
(* Message mailboxes (os_mbox.c): a mailbox keeps one pointer.  mine says  *)
(* which messages of the application's each task holds; interrupt handlers *)
(* hold the ones of the idle task, which never pends.                      *)
(***************************************************************************)
EXTENDS OsTask

VARIABLE mine   \* the messages each task holds
-----------------------------------------------------------------------------
Msg == App[os.app].msg
Holds(t, m) == mine' = [mine EXCEPT ![t] = @ \cup ({m} \ {Null})]
Gives(t, m) == mine' = [mine EXCEPT ![t] = @ \ {m}]
Emptied(k, e) == [k EXCEPT !.ev[e].ptr = Null]

OSMboxAccept(t) ==
  LET e == pc[t].ev
  IN /\ At(t, "mboxaccept")
     /\ os' = Emptied(os, e)
     /\ Holds(t, os.ev[e].ptr)
     /\ Return(t)

OSMboxPend(t) ==
  LET e == pc[t].ev
  IN /\ At(t, "mboxpend")
     /\ IF os.ev[e].ptr # Null
        THEN os' = Emptied(os, e) /\ Holds(t, os.ev[e].ptr) /\ Return(t)
        ELSE os' = WaitFor(os, e, "mbox", pc[t].n) /\ Goto(t, "block") /\ UNCHANGED mine

\* OSMboxPend goes on: the message in the task control block, if it was posted.
MboxWake(t) ==
  /\ Wakes(t, "mbox")
  /\ os' = Awake(os, t, pc[t].ev)
  /\ Holds(t, IF os.tcb[t].pend = "ok" THEN os.tcb[t].msg ELSE Null)
  /\ Return(t)

\* OSMboxPost and, with OS_POST_OPT_BROADCAST, OSMboxPostOpt.
MboxPost(k, e, m, all) ==
  IF k.ev[e].wait # {}
  THEN IF all THEN ReadyAll(k, e, m, "mbox", "ok")
              ELSE OS_EventTaskRdy(k, e, m, "mbox", "ok")
  ELSE IF k.ev[e].ptr # Null THEN k                            \* OS_ERR_MBOX_FULL
  ELSE [k EXCEPT !.ev[e].ptr = m]

Posted(t, e, m) ==
  IF os.ev[e].wait = {} /\ os.ev[e].ptr # Null THEN UNCHANGED mine ELSE Gives(t, m)

OSMboxPost(t) ==
  LET e == pc[t].ev
  IN /\ At(t, "mboxpost")
     /\ os' = MboxPost(os, e, pc[t].n, FALSE)
     /\ Posted(t, e, pc[t].n)
     /\ IF os.ev[e].wait # {} THEN Goto(t, "sched") ELSE Return(t)

\* With OS_POST_OPT_NO_SCHED the call returns without a look at the scheduler.
OSMboxPostOpt(t) ==
  LET e == pc[t].ev
  IN /\ At(t, "mboxopt")
     /\ \E all \in BOOLEAN : os' = MboxPost(os, e, pc[t].n, all)
     /\ Posted(t, e, pc[t].n)
     /\ \/ Return(t)
        \/ os.ev[e].wait # {} /\ Goto(t, "sched")

IsrMboxPost(e, m) ==
  /\ "isrmboxpost" \in Ops
  /\ os.ev[e].type = "mbox" /\ m \in mine[Idle]
  /\ InInterrupt(MboxPost(os, e, m, FALSE))
  /\ Posted(Idle, e, m)
  /\ UNCHANGED pc

OSMboxPendAbort(t) ==
  LET e == pc[t].ev
  IN /\ At(t, "mboxabort")
     /\ IF os.ev[e].wait # {}
        THEN /\ \/ os' = OS_EventTaskRdy(os, e, Null, "mbox", "abort")
                \/ os' = ReadyAll(os, e, Null, "mbox", "abort")
             /\ Goto(t, "sched")
        ELSE UNCHANGED os /\ Return(t)
     /\ UNCHANGED mine

\* OS_DEL_NO_PEND (n = 0) or OS_DEL_ALWAYS (n = 1): the tasks that wait go on
\* with a null message and OS_ERR_NONE.
OSMboxDel(t) ==
  LET e == pc[t].ev
  IN /\ At(t, "mboxdel")
     /\ IF pc[t].n = 0
        THEN /\ os' = IF os.ev[e].wait = {} THEN FreeEcb(os, e) ELSE os
             /\ Holds(t, IF os.ev[e].wait = {} THEN os.ev[e].ptr ELSE Null)
             /\ Return(t)
        ELSE /\ os' = FreeEcb(ReadyAll(os, e, Null, "mbox", "ok"), e)
             /\ Holds(t, os.ev[e].ptr)
             /\ IF os.ev[e].wait # {} THEN Goto(t, "sched") ELSE Return(t)

OSMboxCreate(t) ==
  /\ Calls(t, "mboxdel")
  /\ os.evfree # <<>>
  /\ os' = [os EXCEPT !.ev[Head(os.evfree)] = [Unused EXCEPT !.type = "mbox"], !.evfree = Tail(@)]
  /\ UNCHANGED <<pc, mine>>
-----------------------------------------------------------------------------
\* The application deletes with care.
MboxCall(t, e) ==
  /\ \/ Enter(t, "mboxaccept", "mbox", e, 0)
     \/ \E n \in 0 .. MaxDly : Blocks(t, "mboxpend", "mbox", e, n)
     \/ \E m \in mine[t], op \in {"mboxpost", "mboxopt"} : Enter(t, op, "mbox", e, m)
     \/ Enter(t, "mboxabort", "mbox", e, 0)
     \/ Idling(e) /\ \E n \in 0 .. 1 : Enter(t, "mboxdel", "mbox", e, n)
  /\ \A u \in Task : pc[u].at # "mboxdel"

MboxStep(t) ==
  \/ OSMboxAccept(t) \/ OSMboxPend(t) \/ MboxWake(t) \/ OSMboxPost(t) \/ OSMboxPostOpt(t)
  \/ OSMboxPendAbort(t) \/ OSMboxDel(t) \/ OSMboxCreate(t)

MboxNext ==
  \/ \E e \in Event, m \in Msg : IsrMboxPost(e, m)
  \/ \E t \in {os.cur} : \/ \E e \in Event : MboxCall(t, e) /\ UNCHANGED mine
                         \/ MboxStep(t)
=============================================================================
