-------------------------------- MODULE Alarms --------------------------------
(***************************************************************************)
(* The alarms of the HAL: alt_alarm_start, alt_alarm_stop and alt_tick,    *)
(* over the doubly linked list of alt_llist.h and a tick counter that      *)
(* wraps.  alt_tick walks the list at interrupt level; what comes between  *)
(* two of its steps is what the callbacks it makes do themselves.          *)
(***************************************************************************)
EXTENDS Integers, FiniteSets

CONSTANTS Alarm,    \* the alarm structures of the application and drivers
          Ring,     \* &alt_alarm_list
          Wrap,     \* the values of an alt_u32
          Waits,    \* the numbers of ticks alarms are started with
          Returns,  \* the values callbacks return
          Meddle    \* what a callback may do: "start", "stopself", "stopother"

ASSUME AlarmAssumption == /\ Ring \notin Alarm /\ Wrap \in Nat \ {0}
                          /\ Waits \cup Returns \subseteq 0 .. Wrap - 1

VARIABLES
  next, prev,       \* llist.next and llist.previous
  time, rollover,   \* of each alarm
  nticks,           \* _alt_nticks
  at,               \* the alarm alt_tick looks at; Ring when it is not under way
  after,            \* its local next
  called,           \* the alarm whose callback runs, Ring if none does
  on,               \* history: the alarms that have been started and not ended
  due_in,           \* history: the ticks until each of them is due
  early             \* history: a callback came before its ticks were over

avars == <<next, prev, time, rollover, nticks, at, after, called, on, due_in, early>>

Node == Alarm \cup {Ring}

AlarmInit ==
  /\ next = [n \in Node |-> n] /\ prev = [n \in Node |-> n]
  /\ time = [a \in Alarm |-> 0] /\ rollover = [a \in Alarm |-> FALSE]
  /\ nticks \in 0 .. Wrap - 1
  /\ at = Ring /\ after = Ring /\ called = Ring
  /\ on = {} /\ due_in = [a \in Alarm |-> 0] /\ early = FALSE
-----------------------------------------------------------------------------
alt_llist_insert(a) ==
  /\ next' = [next EXCEPT ![a] = next[Ring], ![Ring] = a]
  /\ prev' = [prev EXCEPT ![a] = Ring, ![next[Ring]] = a]

\* Removing an entry that points to itself changes nothing.
Unlinked(f, g, a) == [n \in Node |-> IF n = a THEN a ELSE IF n = g[a] THEN f[a] ELSE f[n]]
alt_llist_remove(a) ==
  /\ next' = Unlinked(next, prev, a)
  /\ prev' = Unlinked(prev, next, a)

Idle == at = Ring /\ called = Ring

\* Interrupts are off in alt_alarm_start and alt_alarm_stop, so the application
\* calls them between two ticks; a callback calls them inside one.
alt_alarm_start(a, n) ==
  /\ a \notin on /\ next[a] = a
  /\ time' = [time EXCEPT ![a] = (n + nticks + 1) % Wrap]
  /\ rollover' = [rollover EXCEPT ![a] = time'[a] < nticks]
  /\ alt_llist_insert(a)
  /\ on' = on \cup {a} /\ due_in' = [due_in EXCEPT ![a] = n + 1]
  /\ UNCHANGED <<nticks, at, after, called, early>>

alt_alarm_stop(a) ==
  /\ a \in on
  /\ alt_llist_remove(a)
  /\ on' = on \ {a}
  /\ UNCHANGED <<time, rollover, nticks, at, after, called, due_in, early>>
-----------------------------------------------------------------------------
\* alt_tick: the count, then the alarms from the head of the list.
TickBegins ==
  /\ Idle
  /\ nticks' = (nticks + 1) % Wrap
  /\ due_in' = [a \in Alarm |-> IF a \in on /\ due_in[a] > 0 THEN due_in[a] - 1 ELSE due_in[a]]
  /\ at' = next[Ring]
  /\ UNCHANGED <<next, prev, time, rollover, after, called, on, early>>

DueFault(a) == time[a] <= nticks /\ ~rollover[a]   \* fault: the wrap is noticed after the look

Due(a) == time[a] <= nticks /\ ~(rollover[a] /\ nticks # 0)

\* The successor is read before the callback.
LookAt ==
  /\ at # Ring /\ called = Ring
  /\ after' = next[at]
  /\ rollover' = [rollover EXCEPT ![at] = @ /\ nticks # 0]
  /\ IF Due(at)
     THEN called' = at /\ early' = (early \/ (at \in on /\ due_in[at] > 0)) /\ UNCHANGED at
     ELSE at' = next[at] /\ UNCHANGED <<called, early>>
  /\ UNCHANGED <<next, prev, time, nticks, on, due_in>>

\* A callback may start an alarm, or stop one, before it returns.
Meddles ==
  /\ called # Ring
  /\ \E a \in Alarm :
       \/ "start" \in Meddle /\ a # called /\ \E n \in Waits : alt_alarm_start(a, n)
       \/ "stopself" \in Meddle /\ a = called /\ alt_alarm_stop(a)
       \/ "stopother" \in Meddle /\ a # called /\ alt_alarm_stop(a)

CallbackReturns(r) ==
  /\ called # Ring
  /\ IF r = 0
     THEN /\ alt_llist_remove(called) /\ on' = on \ {called}
          /\ UNCHANGED <<time, rollover, due_in>>
     ELSE /\ time' = [time EXCEPT ![called] = (@ + r) % Wrap]
          /\ rollover' = [rollover EXCEPT ![called] = @ \/ time'[called] < nticks]
          /\ due_in' = [due_in EXCEPT ![called] = r]
          /\ UNCHANGED <<next, prev, on>>
  /\ at' = after /\ called' = Ring
  /\ UNCHANGED <<nticks, after, early>>

alt_tick == TickBegins \/ LookAt \/ Meddles \/ \E r \in Returns : CallbackReturns(r)

AlarmNext == \/ Idle /\ \E a \in Alarm : alt_alarm_stop(a) \/ \E n \in Waits : alt_alarm_start(a, n)
             \/ alt_tick

AlarmSpec == AlarmInit /\ [][AlarmNext]_avars /\ WF_avars(alt_tick)
-----------------------------------------------------------------------------
\* The alarms that are on are numbered from the head of the list, which is 0.
Numbering(pos) ==
  /\ pos[Ring] = 0
  /\ \A m, n \in on \cup {Ring} : pos[m] = pos[n] => m = n
  /\ \A n \in on \cup {Ring} :
       /\ next[n] \in on \cup {Ring} /\ prev[n] \in on \cup {Ring}
       /\ prev[next[n]] = n /\ next[prev[n]] = n
       /\ pos[next[n]] = IF pos[n] = Cardinality(on) THEN 0 ELSE pos[n] + 1

\* The list is a ring of the alarms that are on, linked alike in both
\* directions; every other alarm points to itself.
RingExact ==
  /\ \E pos \in [on \cup {Ring} -> 0 .. Cardinality(on)] : Numbering(pos)
  /\ \A a \in Alarm \ on : next[a] = a /\ prev[a] = a

\* The list follows the calls, and an alarm is called when its ticks are over:
\* neither before (comment of alt_alarm_start: "nticks - The time to elapse until
\* the alarm executes") nor after, none being left behind by a tick, whatever the
\* counter wraps over, and though callbacks start other alarms and stop their own
\* meanwhile.  Not with "stopother" in Meddle: alt_tick.c:102 reads the successor
\* before the callback, and a callback that stops this very alarm sends the walk
\* round an entry that points to itself.
AlarmsOnTime ==
  /\ RingExact
  /\ ~ early
  /\ Idle => \A a \in on : due_in[a] > 0

\* Every walk of alt_tick over its list comes to an end.
TickEnds == [](at # Ring => <>(at = Ring))
=============================================================================
