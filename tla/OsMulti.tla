------------------------------- MODULE OsMulti -------------------------------
(***************************************************************************)
(* OSEventPendMulti (os_core.c): one task waits for any of several         *)
(* semaphores and mailboxes at once, the posts being those of OsSem and    *)
(* OsMbox, made by other tasks and by interrupt handlers.                  *)
(***************************************************************************)
EXTENDS OsSem, OsMbox

multighosts == <<held, total, mine>>
-----------------------------------------------------------------------------
\* Every event that has something is taken from, at once.
Available(k, es) == {e \in es : IF k.ev[e].type = "sem" THEN k.ev[e].cnt > 0
                                                        ELSE k.ev[e].ptr # Null}
TakeAll(k, es) ==
  [k EXCEPT !.ev = [e \in Event |->
     IF e \notin es THEN k.ev[e]
     ELSE IF k.ev[e].type = "sem" THEN [k.ev[e] EXCEPT !.cnt = @ - 1]
     ELSE [k.ev[e] EXCEPT !.ptr = Null]]]

TookAll(t, es) ==
  /\ held' = [held EXCEPT ![t] = @ + Cardinality({e \in es : os.ev[e].type = "sem"})]
  /\ mine' = [mine EXCEPT ![t] = @ \cup {os.ev[e].ptr : e \in {f \in es : os.ev[f].type = "mbox"}}]
  /\ UNCHANGED total

\* Past the checks: all of the events are semaphores and mailboxes.
EnterMulti(t, n) ==
  /\ Calls(t, "pendmulti") /\ os.lock = 0
  /\ \A e \in Event : os.ev[e].type \in {"sem", "mbox"}
  /\ GotoWith(t, "multi", Null, n)
  /\ UNCHANGED <<os, multighosts>>

\* An event deleted meanwhile ends the call with OS_ERR_EVENT_TYPE.
OSEventPendMulti(t) ==
  /\ At(t, "multi")
  /\ IF Available(os, Event) # {}
     THEN /\ os' = TakeAll(os, Available(os, Event))
          /\ TookAll(t, Available(os, Event))
          /\ Return(t)
     ELSE /\ os' = OS_EventTaskWaitMulti(
                     [os EXCEPT !.tcb[t].stat = @ \cup {"multi"} \cup {os.ev[e].type : e \in Event},
                                !.tcb[t].pend = "ok", !.tcb[t].dly = pc[t].n], Event)
          /\ Goto(t, "multiblock")
          /\ UNCHANGED multighosts

MultiSched(t) ==
  /\ At(t, "multiblock")
  /\ os' = OS_Sched(os)
  /\ Goto(t, "multiwake")
  /\ UNCHANGED multighosts

\* The task goes on with the event it was readied for; if that has been deleted
\* the call returns before it tidies up the task control block.
MultiWake(t) ==
  LET c == os.tcb[t]
      e == c.ev
      k == IF c.pend \in {"ok", "abort"} /\ e # Null THEN os ELSE OS_EventTaskRemoveMulti(os, t, Event)
      ok == c.pend = "ok" /\ e # Null
  IN /\ At(t, "multiwake")
     /\ os' = IF ok /\ os.ev[e].type \notin {"sem", "mbox"} THEN k
              ELSE [k EXCEPT !.tcb[t].stat = {}, !.tcb[t].pend = "ok", !.tcb[t].ev = Null,
                             !.tcb[t].multi = {}, !.tcb[t].msg = Null]
     /\ IF ok /\ os.ev[e].type = "sem" THEN Took(t) ELSE UNCHANGED ghosts
     /\ IF ok /\ os.ev[e].type = "mbox" THEN Holds(t, c.msg) ELSE UNCHANGED mine
     /\ Return(t)
-----------------------------------------------------------------------------
MultiNext == \E t \in {os.cur} :
  \/ \E n \in 0 .. MaxDly : EnterMulti(t, n)
  \/ OSEventPendMulti(t) \/ MultiSched(t) \/ MultiWake(t)
=============================================================================
