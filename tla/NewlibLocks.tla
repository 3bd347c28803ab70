----------------------------- MODULE NewlibLocks -----------------------------
(***************************************************************************)
(* The two locks newlib asks of the system, each a semaphore of one unit   *)
(* with the owner's priority and a count of its nested calls beside it:    *)
(* __malloc_lock of the heap (alt_malloc_lock.c) and __env_lock of the     *)
(* environment (alt_env_lock.c).  Whether the caller owns the lock already *)
(* is worked out from a copy of the semaphore taken before.                *)
(***************************************************************************)
EXTENDS Integers, FiniteSets

CONSTANTS Task,        \* the tasks, by their priorities
          HeapNests,   \* how deep the library nests its calls of each lock
          EnvNests

ASSUME NewlibAssumption ==
  /\ Task \subseteq Nat
  /\ HeapNests \in Nat \ {0} /\ EnvNests \in Nat \ {0}

VARIABLES
  lock,          \* the one of the two a behaviour is about
  OSEventCnt,    \* the semaphore: units,
  waiting,       \* and tasks on its wait list
  lockid, locks, \* the owner, -1 for none, and its calls
  lpc,           \* of each task
  semdata,       \* its copy of the semaphore
  depth          \* lock calls that have returned and were not undone

nvars == <<lock, OSEventCnt, waiting, lockid, locks, lpc, semdata, depth>>

Nests  == IF lock = "heap" THEN HeapNests ELSE EnvNests
NoCopy == [cnt |-> 0, grp |-> FALSE]

NewlibInit ==
  /\ lock \in {"heap", "env"}
  /\ OSEventCnt = 1 /\ waiting = {} /\ lockid = -1 /\ locks = 0
  /\ lpc = [t \in Task |-> "runs"] /\ semdata = [t \in Task |-> NoCopy]
  /\ depth = [t \in Task |-> 0]

Step(t, from, to) == lpc[t] = from /\ lpc' = [lpc EXCEPT ![t] = to]
Forget(t) == semdata' = [semdata EXCEPT ![t] = NoCopy]

\* OSSemQuery, at the head of the lock call.
Query(t) ==
  /\ depth[t] < Nests /\ Step(t, "runs", "test")
  /\ semdata' = [semdata EXCEPT ![t] = [cnt |-> OSEventCnt, grp |-> waiting # {}]]
  /\ UNCHANGED <<lock, OSEventCnt, waiting, lockid, locks, depth>>

OwnsAlreadyFault(t) == semdata[t].cnt = 0   \* fault: whoever finds no unit

\* The heap's owner knows itself by the unit that is gone, that of the
\* environment by a task that waits.
OwnsAlready(t) ==
  /\ t = lockid
  /\ IF lock = "heap" THEN semdata[t].cnt = 0 ELSE semdata[t].grp

Recurse(t) ==
  /\ OwnsAlready(t) /\ Step(t, "test", "runs")
  /\ locks' = locks + 1 /\ depth' = [depth EXCEPT ![t] = @ + 1]
  /\ Forget(t)
  /\ UNCHANGED <<lock, OSEventCnt, waiting, lockid>>

OSSemPend(t) ==
  /\ ~ OwnsAlready(t) /\ Forget(t)
  /\ IF OSEventCnt > 0
     THEN Step(t, "test", "claim") /\ OSEventCnt' = OSEventCnt - 1 /\ UNCHANGED waiting
     ELSE Step(t, "test", "waits") /\ waiting' = waiting \cup {t} /\ UNCHANGED OSEventCnt
  /\ UNCHANGED <<lock, lockid, locks, depth>>

Claim(t) ==
  /\ Step(t, "claim", "runs")
  /\ locks' = 1 /\ lockid' = t /\ depth' = [depth EXCEPT ![t] = @ + 1]
  /\ UNCHANGED <<lock, OSEventCnt, waiting, semdata>>

\* __malloc_unlock or __env_unlock, up to the post, after a lock.
Unlock(t) ==
  /\ depth[t] > 0
  /\ depth' = [depth EXCEPT ![t] = @ - 1]
  /\ locks' = locks - 1
  /\ IF locks = 1
     THEN lockid' = -1 /\ Step(t, "runs", "post")
     ELSE UNCHANGED lockid /\ Step(t, "runs", "runs")
  /\ UNCHANGED <<lock, OSEventCnt, waiting, semdata>>

\* The unit goes to the waiting task of the highest priority, if there is one.
OSSemPost(t) ==
  /\ lpc[t] = "post"
  /\ IF waiting = {}
     THEN OSEventCnt' = OSEventCnt + 1 /\ lpc' = [lpc EXCEPT ![t] = "runs"] /\ UNCHANGED waiting
     ELSE \E w \in waiting :
            /\ \A v \in waiting : w <= v
            /\ waiting' = waiting \ {w} /\ UNCHANGED OSEventCnt
            /\ lpc' = [lpc EXCEPT ![t] = "runs", ![w] = "claim"]
  /\ UNCHANGED <<lock, lockid, locks, semdata, depth>>

NewlibNext == \E t \in Task : \/ Query(t) \/ Recurse(t) \/ OSSemPend(t) \/ Claim(t)
                              \/ Unlock(t) \/ OSSemPost(t)

NewlibSpec == NewlibInit /\ [][NewlibNext]_nvars
-----------------------------------------------------------------------------
\* One task is between lock and unlock, the count is that of its own calls, and
\* it never waits for itself.
LocksExact ==
  \A t \in Task : depth[t] > 0 =>
    /\ \A u \in Task \ {t} : depth[u] = 0 /\ lpc[u] \notin {"claim", "post"}
    /\ locks = depth[t] /\ lockid = t /\ OSEventCnt = 0 /\ t \notin waiting

\* "we do; just count the recursion" (alt_env_lock.c:83): the owner of the lock
\* gets through its own calls without waiting.
OwnerNeverWaits == \A t \in Task : depth[t] > 0 => lpc[t] # "waits"
=============================================================================
