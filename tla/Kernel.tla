-------------------------------- MODULE Kernel --------------------------------
(***************************************************************************)
(* uC/OS-II as an application meets it: task management, semaphores,       *)
(* mailboxes, queues, pends on several events, mutexes and event flags     *)
(* over one kernel state, with the clock tick and the application's        *)
(* interrupt handlers between any two critical sections.  Which services   *)
(* are called, on which objects, by tasks of which priorities, is the      *)
(* application's choice, App[os.app].                                      *)
(***************************************************************************)
EXTENDS OsMulti, OsQ, OsMutex, OsFlag

\* main creates its events with the services: nobody waits yet, a semaphore's count
\* is in range, and no queue control block is in two queues.
ASSUME EventAssumption ==
  /\ IsFiniteSet(Qcb)
  /\ \A a \in DOMAIN App :
       LET ev == App[a].ev
       IN /\ ev \in [DOMAIN ev -> [type : {"sem", "mbox", "q", "mutex", "unused"}, cnt : Nat,
                                   ptr : App[a].msg \cup Qcb \cup {Null}, wait : {{}}]]
          /\ \A e \in DOMAIN ev :
               /\ ev[e].type = "unused" => ev[e] = Unused
               /\ ev[e].type = "sem" => ev[e].cnt <= MaxCnt
               /\ ev[e].type = "mbox" => ev[e].ptr \in App[a].msg \cup {Null}
               /\ ev[e].type = "q" => ev[e].ptr \in Qcb
               /\ \A f \in DOMAIN ev : ev[e].type = "q" /\ ev[f].type = "q" /\ ev[e].ptr = ev[f].ptr => e = f

kvars == <<os, pc, held, total, mine, q, qfree, has, grp, gfree, rdy, res>>
-----------------------------------------------------------------------------
\* The queue control blocks main has given to queues, and its flag groups.
QcbsUsed(ev) == {ev[e].ptr : e \in {f \in DOMAIN ev : ev[f].type = "q"}}

Init ==
  /\ \E a \in DOMAIN App : os = PipsReserved(Started(a))
  /\ pc = [t \in Task |-> InApp]
  /\ held = [t \in Task |-> 0]
  /\ total = SumFunction([e \in {f \in Event : os.ev[f].type = "sem"} |-> os.ev[e].cnt])
  /\ \E owner \in [Msg -> DOMAIN StartPrio] :
       mine = [t \in Task |-> {m \in Msg : owner[m] = t}]
  /\ q = [c \in Qcb |-> NewQ] /\ qfree = SetToSeq(Qcb \ QcbsUsed(os.ev))
  /\ has = [t \in Task |-> {}]
  /\ grp = [g \in Group |-> [FreeGrp EXCEPT !.type = "flag"]] /\ gfree = <<>>
  /\ rdy = [t \in Task |-> {}] /\ res = [t \in Task |-> Result("none", Bit)]

Next ==
  \/ /\ Tick \/ \E t \in {os.cur} : TaskStep(t)
     /\ NodeDropped /\ UNCHANGED <<ghosts, mine, queues, has, gfree, rdy, res>>
  \/ SemNext /\ UNCHANGED <<mine, queues, has, flagvars>>
  \/ MboxNext /\ UNCHANGED <<ghosts, queues, has, flagvars>>
  \/ MultiNext /\ UNCHANGED <<queues, has, flagvars>>
  \/ QNext /\ UNCHANGED <<ghosts, has, flagvars>>
  \/ MutexNext /\ UNCHANGED <<ghosts, mine, queues, flagvars>>
  \/ FlagNext /\ UNCHANGED <<ghosts, mine, queues, has>>

Spec == Init /\ [][Next]_kvars

\* The clock ticks, and a task inside the kernel whose turn it is goes on.
KernelTick == Tick /\ UNCHANGED <<ghosts, mine, queues, has, flagvars>>
Continue(t) ==
  /\ pc[t].at # "app"
  /\ \/ Reschedule(t) /\ UNCHANGED ghosts
     \/ SemStep(t)
  /\ UNCHANGED <<mine, queues, has, flagvars>>
FairSpec == Spec /\ WF_kvars(KernelTick) /\ \A t \in Task : WF_kvars(Continue(t))
-----------------------------------------------------------------------------
\* The values of the kernel's own tables: no delay or count runs below zero.
TypeOK ==
  /\ os.rdy \subseteq Prio /\ os.rdy # {}
  /\ os.tbl \in [Prio -> Task \cup {Null, Reserved}]
  /\ \A t \in Task : /\ os.tcb[t].prio \in Prio
                     /\ os.tcb[t].stat \subseteq PendAny \cup {"suspend", "multi"}
                     /\ os.tcb[t].pend \in {"ok", "to", "abort"}
                     /\ os.tcb[t].dly \in 0 .. MaxDly
  /\ \A e \in Event : os.ev[e].type = "sem" => os.ev[e].cnt \in 0 .. MaxCnt
  /\ os.cur \in Task /\ os.prioCur \in Prio /\ os.lock \in 0 .. Locks + 1

\* The tasks on the list that are not half deleted.
Live == {t \in os.list : ~ \E u \in Task : pc[u].at = "delete" /\ os.tbl[pc[u].n] = t}
Mutexes == {e \in Event : os.ev[e].type = "mutex"}

\* Whether p is the priority a task has while its own is raised by a mutex.
Lent(t, p) == \E e \in Mutexes : os.ev[e].ptr = t /\ OwnPrio(os, e) = p
SetAside(p) == \/ \E t \in os.list : pc[t].at \in {"create", "link", "refused"} /\ pc[t].n = p
               \/ \E e \in Mutexes : PipOf(os, e) = p

\* OSTCBPrioTbl, OSTCBPrio and the two TCB lists agree whatever was created,
\* deleted, moved or lent in between: a priority leads to the one task that has
\* it, a priority set aside belongs to a mutex or to a creation still under way,
\* which also accounts for every control block on neither list.
PrioTblExact ==
  /\ \A t \in os.list : os.tbl[os.tcb[t].prio] = t
  /\ \A p \in Prio :
       /\ Exists(p) => Target(p) \in os.list /\ (os.tcb[Target(p)].prio = p \/ Lent(Target(p), p))
       /\ Target(p) = Reserved => SetAside(p)
       /\ SetAside(p) => Target(p) # Null
  /\ os.list \cap os.free = {}
  /\ Task = os.list \cup os.free \cup {pc[t].ev : t \in {u \in os.list : pc[u].at = "link"}}

\* OSRdyGrp/OSRdyTbl hold exactly the tasks that neither wait, nor are delayed
\* or suspended: none runs that should sleep, none is forgotten.
ReadyExact ==
  /\ \A t \in Live : IsReady(t) <=> ~ Asleep(t)
  /\ os.rdy \subseteq {os.tcb[t].prio : t \in Live}

\* Whether task u is to be found on the wait list of e: it is inside a Pend on
\* it and was not posted or aborted; one that timed out stays until it runs.  A
\* task that pends on several events is on all their lists, or on none.
ToBeListed(u, e) ==
  \/ /\ Blocked(u) /\ pc[u].ev = e
     /\ os.tcb[u].stat \cap PendAny # {} \/ os.tcb[u].pend = "to"
  \/ /\ u \in Multi /\ os.tcb[u].ev = Null /\ os.tcb[u].pend # "abort"

\* A wait list holds exactly the tasks that wait: a post is never spent on a
\* task that has left, and no waiter is overlooked.
WaitListsExact ==
  \A e \in Event : os.ev[e].wait = {os.tcb[u].prio : u \in {v \in os.list : ToBeListed(v, e)}}

\* An event control block is in use, free once, or taken by a creation under
\* way; a queue control block is free once or in one queue: two Del calls, a Del
\* and a Create, or a Create that fails half way lose or double neither.
PoolsExact ==
  LET unused == {e \in Event : os.ev[e].type = "unused"}
      half   == {pc[t].ev : t \in {u \in Task : pc[u].at = "qcreate"}}
      qs     == {e \in Event : os.ev[e].type = "q"}
  IN /\ ToSet(os.evfree) = unused \ half /\ half \subseteq unused
     /\ \A e, f \in qs : e # f => Of(e) # Of(f)
     /\ ToSet(qfree) = Qcb \ {Of(e) : e \in qs}
     /\ IsInjective(os.evfree) /\ IsInjective(qfree)

\* What the kernel keeps twice agrees, after any interleaving of the services.
KernelExact == TypeOK /\ PrioTblExact /\ ReadyExact /\ WaitListsExact /\ PoolsExact
-----------------------------------------------------------------------------
\* After OSMutexPost has lowered its caller's priority OSPrioCur still holds
\* the one that was lent, until the next look at the scheduler.
Demoted == "mupost" \in Ops /\ os.prioCur = Pip /\ os.tcb[os.cur].prio # Pip

\* With the scheduler unlocked, the task that runs outside a kernel call is the
\* ready task of highest priority and neither delayed nor suspended: OSTimeDly,
\* OSTaskSuspend and the Pends do not return too early, and no call or interrupt
\* that readies a more important task comes back without it having run.
HighestRuns ==
  os.lock = 0 /\ pc[os.cur].at = "app" /\ ~ Demoted =>
    os.cur = os.tbl[Min(os.rdy)] /\ ~ Asleep(os.cur)

\* Tasks that were given the unit they waited for and have not run since.
Given == {t \in Live : \/ /\ Blocked(t) /\ pc[t].svc = "sem" /\ os.tcb[t].pend = "ok"
                          /\ ~ ToBeListed(t, pc[t].ev)
                       \/ /\ t \in Multi /\ os.tcb[t].pend = "ok" /\ os.tcb[t].ev # Null
                          /\ os.ev[os.tcb[t].ev].type = "sem"}

\* The services neither lose nor make a unit of a semaphore, whatever the order
\* of the post, the time-out, the abort, the deletion and the moment the waiter
\* runs, and no unit lies in a semaphore that tasks wait for.  Only with a task
\* that another task deletes is a unit lost that it was given and never took.
UnitsConserved ==
  LET sems  == {e \in Event : os.ev[e].type = "sem"}
      units == SumFunction([e \in sems |-> os.ev[e].cnt]) + SumFunction(held) + Cardinality(Given)
  IN /\ units <= total /\ ("del" \notin Ops => units = total)
     /\ \A e \in sems : os.ev[e].cnt > 0 => os.ev[e].wait = {}

\* Tasks on their way out of OSMutexPend with the mutex.
Handed(e) == {t \in Task : /\ Blocked(t) /\ pc[t].ev = e
                           /\ os.tcb[t].pend = "ok" /\ ~ ToBeListed(t, e)}

\* One task at most has a mutex, or is on its way out of OSMutexPend with it,
\* and it is the one OSEventPtr names, even when the mutex was posted to a task
\* that had timed out and not run yet.  (The tasks that wait for a mutex when it
\* is deleted go on without: note 3 of OSMutexDel.)
MutualExclusion ==
  "mudel" \notin Ops => \A e \in Mutexes : {t \in Task : e \in has[t]} \cup Handed(e) = {os.ev[e].ptr} \ {Null}

\* The owner of a mutex runs at its own priority, which the mutex keeps, or at
\* the one set aside; every other task runs at its own; no waiter outranks the
\* owner, which was promoted when the waiter came, wherever it was then; and the
\* priority set aside is free again when the mutex is deleted.
PriorityInherited ==
  "mupost" \in Ops =>
    /\ os.tbl[Pip] = Null <=> Mutexes = {}
    /\ \A e \in Mutexes :
         LET u == os.ev[e].ptr
         IN u # Null => OwnPrio(os, e) = StartPrio[u] /\ \A p \in os.ev[e].wait : os.tcb[u].prio < p
    /\ \A t \in DOMAIN StartPrio :
         /\ os.tbl[StartPrio[t]] = t
         /\ os.tcb[t].prio # StartPrio[t] =>
              os.tcb[t].prio = Pip /\ os.tbl[Pip] = t /\ Lent(t, StartPrio[t])
-----------------------------------------------------------------------------
\* The messages handed to tasks that have not run since.
InHand == [t \in Task |-> IF (Blocked(t) \/ t \in Multi) /\ os.tcb[t].pend = "ok"
                          THEN os.tcb[t].msg ELSE Null]

\* The event the application sends its messages to, a mailbox or a queue.
Mail == App[os.app].mail
Start == App[os.app].ev[Mail]

\* A mailbox is a channel of one message and a queue one of Size messages: first
\* in, first out, or last in when posted to the front.  Each message is at any
\* time with one task, in the channel or on its way to the one task it was
\* handed to (to every task that waits, when it is broadcast); a time-out, an
\* abort, a full channel or a deletion neither loses nor doubles it.
Promise ==
  INSTANCE Channel WITH
    User <- Task, None <- Null, given <- InHand,
    size <- IF Mail # Null /\ Start.type = "q" THEN Size ELSE 1,
    shared <- Ops \cap {"mboxopt", "qopt"} # {},
    items <- CASE Mail = Null        -> <<>>
               [] Start.type = "q"    -> IF Start.ptr \in ToSet(qfree) THEN <<>> ELSE Entries(q[Start.ptr])
               [] OTHER              -> IF os.ev[Mail].ptr = Null THEN <<>> ELSE <<os.ev[Mail].ptr>>
ActsAsChannel == Promise!CSpec

\* The two ends of a circular buffer are OSQEntries apart, so that neither a full
\* nor an empty queue is mistaken after a post to the front, a flush or a wrap;
\* nothing is kept in a queue or a mailbox that tasks wait at.
NothingKept ==
  /\ \A e \in Event : os.ev[e].type = "q" =>
       LET x == q[Of(e)]
       IN /\ x.n \in 0 .. Size /\ x.in = (x.out + x.n) % Size
          /\ x.n > 0 => os.ev[e].wait = {}
  /\ \A e \in Event : os.ev[e].type = "mbox" /\ os.ev[e].ptr # Null => os.ev[e].wait = {}

\* The list of a group holds, once, each task inside an OSFlagPend on it that
\* was not readied by a post; one that timed out leaves it when it runs.  None
\* of them goes on waiting for flags that are as it wants them.
FlagWaitersExact ==
  \A g \in Group :
    LET l == ToSet(grp[g].list)
    IN /\ l = {t \in Task : /\ Blocked(t) /\ pc[t].ev = g
                            /\ "flag" \in os.tcb[t].stat \/ os.tcb[t].pend = "to"}
       /\ IsInjective(grp[g].list)
       /\ \A t \in l : Met(grp[g].flags, pc[t].n) => os.tcb[t].pend = "to"

\* A task is told OS_ERR_NONE with flags that were as it wanted them, all of
\* them or some, whatever happened to the group until it ran; with none only
\* when the group was deleted under it.
FlagsWereMet ==
  [][\A t \in Task : pc[t].at # "app" /\ pc'[t].at = "app" /\ res'[t] # res[t] /\ res'[t].err = "none" =>
       LET w == pc[t].n
           f == res'[t].flags
       IN \/ IF w.all THEN f = w.want ELSE f # {} /\ f \subseteq w.want
          \/ "flagdel" \in Ops /\ f = {}]_kvars
-----------------------------------------------------------------------------
\* A delay ends: the tick takes the task out of it even while it is suspended
\* or another task holds the scheduler lock.
DelayEnds ==
  \A t \in Task : os.tcb[t].dly > 0 ~> os.tcb[t].dly = 0

\* A pend with a limit returns to the task of highest priority.
TimedPendReturns ==
  \A t \in Task :
    (/\ t \in os.list /\ Blocked(t) /\ pc[t].n > 0
     /\ \A u \in os.list \ {t} : os.tcb[t].prio < os.tcb[u].prio) ~> pc[t].at = "app"

\* A task that neither waits nor is delayed or suspended is ready (comment of
\* OSTaskResume: "This function is called to resume a previously suspended task").
ResumedIsReady ==
  \A t \in Live : ~ Asleep(t) => IsReady(t)
=============================================================================
