-------------------------------- MODULE OsSem --------------------------------
(***************************************************************************)
(* Counting semaphores (os_sem.c), used by tasks that are also delayed,    *)
(* suspended, resumed or moved to another priority (OsTask) and by         *)
(* interrupt handlers.  Every call looks at OSEventType before it disables *)
(* interrupts, so a call is two steps and other tasks may come in between. *)
(***************************************************************************)
EXTENDS OsTask

CONSTANTS MaxCnt,    \* the largest count, 65535 in the code
          Cnt0,      \* count of the semaphores the application creates
          MaxTotal   \* bound on the units ever put into a semaphore

ASSUME SemAssumption == MaxCnt \in Nat \ {0} /\ Cnt0 \in 0 .. MaxCnt

VARIABLES held,   \* units each task has taken and not put back
          total   \* units put into the semaphore and not lost on the way

ghosts == <<held, total>>
-----------------------------------------------------------------------------
Take(k, e) == [k EXCEPT !.ev[e].cnt = @ - 1]
Took(t) == held' = [held EXCEPT ![t] = @ + 1] /\ UNCHANGED total

OSSemAccept(t) ==
  LET e == pc[t].ev
  IN /\ At(t, "semaccept")
     /\ Return(t)
     /\ IF os.ev[e].cnt > 0 THEN os' = Take(os, e) /\ Took(t)
                            ELSE UNCHANGED <<os, ghosts>>

OSSemPend(t) ==
  LET e == pc[t].ev
  IN /\ At(t, "sempend")
     /\ IF os.ev[e].cnt > 0
        THEN os' = Take(os, e) /\ Took(t) /\ Return(t)
        ELSE /\ os' = WaitFor(os, e, "sem", pc[t].n)
             /\ Goto(t, "block")
             /\ UNCHANGED ghosts

\* OSSemPend goes on: OS_ERR_NONE if the pend status is OK.
SemWake(t) ==
  LET e == pc[t].ev
  IN /\ Wakes(t, "sem")
     /\ os' = Awake(os, t, e)
     /\ Return(t)
     /\ IF os.tcb[t].pend = "ok" THEN Took(t) ELSE UNCHANGED ghosts

SemPost(k, e) ==
  IF k.ev[e].wait # {} THEN OS_EventTaskRdy(k, e, Null, "sem", "ok")
  ELSE IF k.ev[e].cnt < MaxCnt THEN [k EXCEPT !.ev[e].cnt = @ + 1]
  ELSE k                                                       \* OS_ERR_SEM_OVF

\* A task puts back what it took, or signals with a unit of its own.
Gave(t, e) ==
  CASE os.ev[e].wait = {} /\ os.ev[e].cnt = MaxCnt -> UNCHANGED ghosts
    [] t # Idle /\ held[t] > 0 /\ (os.ev[e].wait # {} \/ os.ev[e].cnt < MaxCnt) ->
         held' = [held EXCEPT ![t] = @ - 1] /\ UNCHANGED total
    [] OTHER -> total' = total + 1 /\ UNCHANGED held

OSSemPost(t) ==
  LET e == pc[t].ev
  IN /\ At(t, "sempost")
     /\ os' = SemPost(os, e)
     /\ IF os.ev[e].wait # {} THEN Goto(t, "sched") ELSE Return(t)
     /\ Gave(t, e)

\* A handler posts; OS_Sched returns at once when it is called from an interrupt.
IsrPost(e) ==
  /\ "isrpost" \in Ops
  /\ os.ev[e].type = "sem" /\ total < MaxTotal
  /\ InInterrupt(SemPost(os, e))
  /\ Gave(Idle, e)
  /\ UNCHANGED pc

SemAbort(k, e, all) ==
  IF all THEN ReadyAll(k, e, Null, "sem", "abort")
         ELSE OS_EventTaskRdy(k, e, Null, "sem", "abort")

OSSemPendAbort(t) ==
  LET e == pc[t].ev
  IN /\ At(t, "semabort")
     /\ IF os.ev[e].wait # {}
        THEN /\ \E all \in BOOLEAN : os' = SemAbort(os, e, all)
             /\ Goto(t, "sched")
        ELSE UNCHANGED os /\ Return(t)
     /\ UNCHANGED ghosts

\* The count is replaced, unless it is zero and tasks wait.
OSSemSet(t) ==
  LET e == pc[t].ev
  IN /\ At(t, "semset")
     /\ Return(t)
     /\ IF os.ev[e].cnt > 0 \/ os.ev[e].wait = {}
        THEN /\ os' = [os EXCEPT !.ev[e].cnt = pc[t].n]
             /\ total' = total + pc[t].n - os.ev[e].cnt
             /\ UNCHANGED held
        ELSE UNCHANGED <<os, ghosts>>
-----------------------------------------------------------------------------
\* "semdel" with n = 0 is OS_DEL_NO_PEND, with n = 1 OS_DEL_ALWAYS: every task
\* that waits goes on as if it had a unit.
OSSemDel(t) ==
  LET e == pc[t].ev
  IN /\ At(t, "semdel")
     /\ IF pc[t].n = 0
        THEN /\ Return(t)
             /\ IF os.ev[e].wait = {}
                THEN os' = FreeEcb(os, e) /\ total' = total - os.ev[e].cnt
                ELSE UNCHANGED <<os, total>>
        ELSE /\ IF os.ev[e].wait # {} THEN Goto(t, "sched") ELSE Return(t)
             /\ os' = FreeEcb(ReadyAll(os, e, Null, "sem", "ok"), e)
             /\ total' = total + Cardinality(os.ev[e].wait) - os.ev[e].cnt
     /\ UNCHANGED held

OSSemCreate(t, cnt) ==
  /\ Calls(t, "semdel")
  /\ os.evfree # <<>>
  /\ os' = [os EXCEPT !.ev[Head(os.evfree)] = [Unused EXCEPT !.type = "sem", !.cnt = cnt],
                      !.evfree = Tail(@)]
  /\ total' = total + cnt
  /\ UNCHANGED <<pc, held>>
-----------------------------------------------------------------------------
\* The application deletes with care.
SemCall(t, e) ==
  /\ \A u \in Task : pc[u].at # "semdel"
  /\ \/ Enter(t, "semaccept", "sem", e, 0)
     \/ \E n \in 0 .. MaxDly : Blocks(t, "sempend", "sem", e, n)
     \/ (total < MaxTotal \/ held[t] > 0) /\ Enter(t, "sempost", "sem", e, 0)
     \/ Enter(t, "semabort", "sem", e, 0)
     \/ total < MaxTotal /\ \E n \in 0 .. 1 : Enter(t, "semset", "sem", e, n)
     \/ total < MaxTotal /\ Idling(e) /\ \E n \in 0 .. 1 : Enter(t, "semdel", "sem", e, n)

SemStep(t) ==
  \/ OSSemAccept(t) \/ OSSemPend(t) \/ SemWake(t) \/ OSSemPost(t)
  \/ OSSemPendAbort(t) \/ OSSemSet(t) \/ OSSemDel(t) \/ OSSemCreate(t, Cnt0)

SemNext ==
  \/ \E e \in Event : IsrPost(e)
  \/ \E t \in {os.cur} : \/ \E e \in Event : SemCall(t, e) /\ UNCHANGED ghosts
                         \/ SemStep(t)
=============================================================================
