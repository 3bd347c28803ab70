-------------------------------- MODULE OsFlag --------------------------------
(***************************************************************************)
(* Event flag groups (os_flag.c).  A task waits for all or any of some     *)
(* bits to be set or clear; a node on its stack, linked into the group,    *)
(* says for what.  The doubly linked list of nodes is a sequence of tasks, *)
(* newest first, and a node is the argument record of the task's call.     *)
(***************************************************************************)
EXTENDS OsTask

CONSTANTS Group,  \* the event flag groups
          Bit     \* the flags of a group

VARIABLES grp,   \* for each group [type, flags, list]
          gfree, \* OSFlagFreeList
          rdy,   \* OSTCBFlagsRdy of each task
          res    \* what the last OSFlagPend or OSFlagAccept returned: [err, flags]

flagvars == <<grp, gfree, rdy, res>>
-----------------------------------------------------------------------------
\* Records [want, set, all, eat], eat for OS_FLAG_CONSUME.
Wait == App[os.app].wait

FreeGrp == [type |-> "unused", flags |-> {}, list |-> <<>>]
Result(err, f) == [err |-> err, flags |-> f]

\* The flags of those wanted that are as wanted, and whether they are enough.
FlagsRdy(f, w) == w.want \cap (IF w.set THEN f ELSE Bit \ f)
MetFault(f, w) == FlagsRdy(f, w) # {}   \* fault: any for all

Met(f, w) == IF w.all THEN FlagsRdy(f, w) = w.want ELSE FlagsRdy(f, w) # {}
Consume(f, w, r) == IF ~ w.eat THEN f ELSE IF w.set THEN f \ r ELSE f \cup r

\* The list without the nodes of the tasks ts, in the same order.
OS_FlagUnlink(l, ts) ==
  LET left[n \in 0 .. Len(l)] ==
        IF n = 0 THEN <<>> ELSE IF l[n] \in ts THEN left[n - 1] ELSE Append(left[n - 1], l[n])
  IN left[Len(l)]

\* The tasks ts go on; one is made ready if nothing but the wait for flags
\* holds it.
OS_FlagTaskRdy(k, ts) ==
  [k EXCEPT
    !.tcb = [t \in Task |-> IF t \notin ts THEN k.tcb[t]
                           ELSE [k.tcb[t] EXCEPT !.dly = 0, !.stat = @ \ {"flag"}, !.pend = "ok"]],
    !.rdy = @ \cup {k.tcb[t].prio : t \in {u \in ts : k.tcb[u].stat \subseteq {"flag"}}}]

OSFlagAccept(t) ==
  LET g == pc[t].ev
      w == pc[t].n
      f == grp[g].flags
      r == FlagsRdy(f, w)
  IN /\ At(t, "flagaccept")
     /\ IF Met(f, w)
        THEN /\ grp' = [grp EXCEPT ![g].flags = Consume(f, w, r)]
             /\ res' = [res EXCEPT ![t] = Result("none", r)]
        ELSE /\ res' = [res EXCEPT ![t] = Result("notrdy", r)]
             /\ UNCHANGED grp
     /\ Return(t)
     /\ UNCHANGED <<os, gfree, rdy>>

OS_FlagBlock(t, g, dly) ==
  /\ os' = ClearReady([os EXCEPT !.tcb[t].stat = @ \cup {"flag"}, !.tcb[t].pend = "ok",
                                 !.tcb[t].dly = dly], t)
  /\ grp' = [grp EXCEPT ![g].list = <<t>> \o @]

OSFlagPend(t) ==
  LET g == pc[t].ev
      w == pc[t].n
      f == grp[g].flags
      r == FlagsRdy(f, w)
  IN /\ At(t, "flagpend")
     /\ IF Met(f, w)
        THEN /\ grp' = [grp EXCEPT ![g].flags = Consume(f, w, r)]
             /\ rdy' = [rdy EXCEPT ![t] = r]
             /\ res' = [res EXCEPT ![t] = Result("none", r)]
             /\ Return(t) /\ UNCHANGED os
        ELSE /\ \E n \in 0 .. MaxDly : OS_FlagBlock(t, g, n)
             /\ Goto(t, "block")
             /\ UNCHANGED <<rdy, res>>
     /\ UNCHANGED gfree

FlagWakeFault(t) ==   \* fault: the node is not unlinked after a time-out
  LET g == pc[t].ev
      w == pc[t].n
  IN /\ At(t, "wake") /\ Return(t)
     /\ os' = [os EXCEPT !.tcb[t].pend = "ok", !.tcb[t].stat = {}]
     /\ grp' = IF os.tcb[t].pend = "ok" THEN [grp EXCEPT ![g].flags = Consume(@, w, rdy[t])] ELSE grp
     /\ res' = [res EXCEPT ![t] = IF os.tcb[t].pend = "ok" THEN Result("none", rdy[t]) ELSE Result("timeout", {})]
     /\ UNCHANGED <<gfree, rdy>>

\* The flags that made the task ready are consumed only now that it runs.
FlagWake(t) ==
  LET g == pc[t].ev
      w == pc[t].n
  IN /\ Wakes(t, "flag")
     /\ IF os.tcb[t].pend # "ok"
        THEN /\ os' = [os EXCEPT !.tcb[t].pend = "ok", !.tcb[t].stat = {}]
             /\ grp' = [grp EXCEPT ![g].list = OS_FlagUnlink(@, {t})]
             /\ res' = [res EXCEPT ![t] = Result("timeout", {})]
        ELSE /\ grp' = [grp EXCEPT ![g].flags = Consume(@, w, rdy[t])]
             /\ res' = [res EXCEPT ![t] = Result("none", rdy[t])]
             /\ UNCHANGED os
     /\ Return(t)
     /\ UNCHANGED <<gfree, rdy>>

\* OSFlagPost: the bits change, then every node of the list is looked at.
Meeters(g, f) == {t \in ToSet(grp[g].list) : Met(f, pc[t].n)}
FlagPost(g, f) ==
  /\ grp' = [grp EXCEPT ![g].flags = f,
                        ![g].list = OS_FlagUnlink(@, Meeters(g, f))]
  /\ rdy' = [t \in Task |-> IF t \in Meeters(g, f) THEN FlagsRdy(f, pc[t].n) ELSE rdy[t]]
  /\ UNCHANGED <<gfree, res>>

NodeDroppedFault == UNCHANGED grp   \* fault: a deleted task stays in its group

\* Within OSTaskDel: the node of the task that is deleted leaves its group.
NodeDropped ==
  IF pc[os.cur].at = "app" /\ pc'[os.cur].at = "delete"
  THEN LET u == Target(pc'[os.cur].n)
       IN grp' = [g \in Group |-> [grp[g] EXCEPT !.list = OS_FlagUnlink(@, {u})]]
  ELSE UNCHANGED grp

NewFlags(g, bits, set) == IF set THEN grp[g].flags \cup bits ELSE grp[g].flags \ bits

OSFlagPost(t) ==
  LET g == pc[t].ev
      f == NewFlags(g, pc[t].n.want, pc[t].n.set)
      k == OS_FlagTaskRdy(os, Meeters(g, f))
  IN /\ At(t, "flagpost")
     /\ FlagPost(g, f)
     /\ os' = k
     /\ IF \E u \in Meeters(g, f) : k.tcb[u].stat = {} THEN Goto(t, "sched") ELSE Return(t)

IsrFlagPost(g, bits, set) ==
  /\ "isrflagpost" \in Ops
  /\ grp[g].type = "flag"
  /\ FlagPost(g, NewFlags(g, bits, set))
  /\ InInterrupt(OS_FlagTaskRdy(os, Meeters(g, NewFlags(g, bits, set))))
  /\ UNCHANGED pc

OSFlagCreate(t) ==
  /\ Calls(t, "flagdel") /\ gfree # <<>>
  /\ \E f \in SUBSET Bit : grp' = [grp EXCEPT ![Head(gfree)] = [FreeGrp EXCEPT !.type = "flag", !.flags = f]]
  /\ gfree' = Tail(gfree)
  /\ UNCHANGED <<os, pc, rdy, res>>

\* OS_DEL_NO_PEND (n = 0) or OS_DEL_ALWAYS (n = 1): every task that waits is
\* made ready, with no flags.
OSFlagDel(t) ==
  LET g == pc[t].ev
      l == ToSet(grp[g].list)
  IN /\ At(t, "flagdel")
     /\ IF pc[t].n = 0 /\ l # {}
        THEN UNCHANGED <<os, flagvars>> /\ Return(t)                \* OS_ERR_TASK_WAITING
        ELSE /\ os' = OS_FlagTaskRdy(os, l)
             /\ rdy' = [u \in Task |-> IF u \in l THEN {} ELSE rdy[u]]
             /\ grp' = [grp EXCEPT ![g] = FreeGrp]
             /\ gfree' = <<g>> \o gfree
             /\ UNCHANGED res
             /\ IF l # {} THEN Goto(t, "sched") ELSE Return(t)
-----------------------------------------------------------------------------
EnterFlag(t, op, g, n) ==
  /\ Calls(t, op) /\ grp[g].type = "flag"
  /\ Starts(t, op, "flag", g, n)
  /\ UNCHANGED <<os, grp, gfree, rdy>>

\* A group is deleted only while no other call on it has passed its checks.
FlagCall(t, g) ==
  /\ \A u \in Task : pc[u].at # "flagdel"
  /\ \/ \E w \in Wait : \/ EnterFlag(t, "flagaccept", g, w)
                        \/ os.lock = 0 /\ EnterFlag(t, "flagpend", g, w)
     \/ \E b \in Bit, set \in BOOLEAN : EnterFlag(t, "flagpost", g, [want |-> {b}, set |-> set])
     \/ Idling(g) /\ \E n \in 0 .. 1 : EnterFlag(t, "flagdel", g, n)
  /\ res' = [res EXCEPT ![t] = Result("none", Bit)]

FlagStep(t) ==
  \/ OSFlagAccept(t) \/ OSFlagPend(t) \/ FlagWake(t) \/ OSFlagPost(t)
  \/ OSFlagCreate(t) \/ OSFlagDel(t)

FlagNext ==
  \/ \E g \in Group, b \in Bit, set \in BOOLEAN : IsrFlagPost(g, {b}, set)
  \/ \E t \in {os.cur} : (\E g \in Group : FlagCall(t, g)) \/ FlagStep(t)
=============================================================================
