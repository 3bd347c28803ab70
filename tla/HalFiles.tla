------------------------------ MODULE HalFiles ------------------------------
(***************************************************************************)
(* The file descriptors of the HAL: open, close and the two ioctl requests *)
(* that lock a device for one descriptor and unlock it, called by several  *)
(* tasks.  alt_fd_list_lock is held over the searches of alt_get_fd and    *)
(* alt_fd_lock only: a descriptor is released, and open looks for a lock,  *)
(* without it.  alt_io_redirect has been called: the standard streams are  *)
(* on the console, through a descriptor that was free again afterwards.    *)
(***************************************************************************)
EXTENDS Integers, FiniteSets

CONSTANTS Caller,     \* the tasks
          Device,     \* devices in alt_dev_list
          Console,    \* the one of the standard streams
          NoDev,      \* a null dev
          Std,        \* descriptors of the standard streams (3)
          MaxFd       \* ALT_MAX_FD

Fd == 0 .. MaxFd - 1

ASSUME FilesAssumption ==
  /\ Console \in Device /\ NoDev \notin Device
  /\ Std \in Nat /\ MaxFd \in Nat /\ MaxFd > Std

VARIABLES
  dev, fd_flags,      \* of each descriptor
  alt_max_fd,         \* the highest ever used
  alt_fd_list_lock,   \* units of the semaphore
  call,               \* of each task: where it is, with which descriptor and
                      \* device, and the row it looks at
  opened, locked,     \* the descriptors it has, and those it has locked
  against             \* history: locks there were when it called open and still are

fvars == <<dev, fd_flags, alt_max_fd, alt_fd_list_lock, call, opened, locked, against>>

NoCall == [at |-> "idle", fd |-> -1, dev |-> NoDev, row |-> 0]

FilesInit ==
  /\ dev = [f \in Fd |-> IF f < Std THEN Console ELSE NoDev]
  /\ fd_flags = [f \in Fd |-> IF f < Std THEN {"DEV"} ELSE {}]
  /\ alt_max_fd = Std /\ alt_fd_list_lock = 1
  /\ call = [t \in Caller |-> NoCall]
  /\ opened = [t \in Caller |-> {}] /\ locked = [t \in Caller |-> {}] /\ against = [t \in Caller |-> {}]

At(t, place)   == call[t].at = place
Goto(t, place) == call' = [call EXCEPT ![t].at = place, ![t].row = 0]
Ends(t)        == call' = [call EXCEPT ![t] = NoCall]
NextRow(t)     == call' = [call EXCEPT ![t].row = @ + 1]

LocksOn(d)  == {f \in Fd : dev[f] = d /\ "EXCL" \in fd_flags[f]}
Unlocked(f) == against' = [t \in Caller |-> against[t] \ {f}]

Pend(t, from, to) ==
  /\ At(t, from) /\ Goto(t, to)
  /\ alt_fd_list_lock = 1 /\ alt_fd_list_lock' = 0
  /\ UNCHANGED <<dev, fd_flags, alt_max_fd, opened, locked, against>>
-----------------------------------------------------------------------------
(* open *)

Open(t) ==
  /\ At(t, "idle")
  /\ \E d \in Device : /\ call' = [call EXCEPT ![t].at = "get_fd", ![t].dev = d]
                       /\ against' = [against EXCEPT ![t] = LocksOn(d)]
  /\ UNCHANGED <<dev, fd_flags, alt_max_fd, alt_fd_list_lock, opened, locked>>

\* One turn of the loop of alt_get_fd, or its end: -EMFILE.
alt_get_fd(t) ==
  LET i == call[t].row
  IN  /\ At(t, "search")
      /\ \/ /\ i < MaxFd /\ dev[i] = NoDev
            /\ dev' = [dev EXCEPT ![i] = call[t].dev]
            /\ alt_max_fd' = IF i > alt_max_fd THEN i ELSE alt_max_fd
            /\ call' = [call EXCEPT ![t].at = "got", ![t].fd = i]
         \/ /\ i < MaxFd /\ dev[i] # NoDev
            /\ NextRow(t) /\ UNCHANGED <<dev, alt_max_fd>>
         \/ i = MaxFd /\ Goto(t, "got") /\ UNCHANGED <<dev, alt_max_fd>>
      /\ UNCHANGED <<fd_flags, alt_fd_list_lock, opened, locked, against>>

Got(t) ==
  /\ At(t, "got")
  /\ alt_fd_list_lock' = 1
  /\ IF call[t].fd < 0 THEN Ends(t) ELSE Goto(t, "flags")
  /\ UNCHANGED <<dev, fd_flags, alt_max_fd, opened, locked, against>>

\* The caller's flags hold neither of the two.
MarkDevice(t) ==
  /\ At(t, "flags") /\ Goto(t, "check")
  /\ fd_flags' = [fd_flags EXCEPT ![call[t].fd] = {"DEV"}]
  /\ UNCHANGED <<dev, alt_max_fd, alt_fd_list_lock, opened, locked, against>>

Other(t, i) == i # call[t].fd /\ dev[i] = dev[call[t].fd]

SearchedFault(i) == i < alt_max_fd   \* fault: the last row is not looked at
Searched(i) == i <= alt_max_fd

\* One turn of the loop of alt_file_locked, or its end and the driver's open,
\* which may refuse.
alt_file_locked(t) ==
  LET i == call[t].row
      Excluded == Other(t, i) /\ "EXCL" \in fd_flags[i]
  IN  /\ At(t, "check")
      /\ \/ Searched(i) /\ ~ Excluded /\ NextRow(t) /\ UNCHANGED opened
         \/ Searched(i) /\ Excluded /\ Goto(t, "release") /\ UNCHANGED opened
         \/ /\ ~ Searched(i) /\ Ends(t)
            /\ opened' = [opened EXCEPT ![t] = @ \cup {call[t].fd}]
         \/ ~ Searched(i) /\ Goto(t, "release") /\ UNCHANGED opened
      /\ UNCHANGED <<dev, fd_flags, alt_max_fd, alt_fd_list_lock, locked, against>>
-----------------------------------------------------------------------------
(* alt_release_fd, of a failed open or a close: the flags, then the device. *)

ReleaseFlags(t) ==
  /\ At(t, "release") /\ Goto(t, "released")
  /\ fd_flags' = [fd_flags EXCEPT ![call[t].fd] = IF call[t].fd >= Std THEN {} ELSE @]
  /\ Unlocked(call[t].fd)
  /\ UNCHANGED <<dev, alt_max_fd, alt_fd_list_lock, opened, locked>>

ReleaseDev(t) ==
  /\ At(t, "released") /\ Ends(t)
  /\ dev' = [dev EXCEPT ![call[t].fd] = IF call[t].fd >= Std THEN NoDev ELSE @]
  /\ UNCHANGED <<fd_flags, alt_max_fd, alt_fd_list_lock, opened, locked, against>>

\* close, up to the release; what the driver's close returns changes nothing.
Close(t) ==
  /\ At(t, "idle")
  /\ \E f \in opened[t] :
       /\ call' = [call EXCEPT ![t].at = "release", ![t].fd = f]
       /\ opened' = [opened EXCEPT ![t] = @ \ {f}] /\ locked' = [locked EXCEPT ![t] = @ \ {f}]
  /\ UNCHANGED <<dev, fd_flags, alt_max_fd, alt_fd_list_lock, against>>
-----------------------------------------------------------------------------
(* ioctl, for TIOCEXCL and TIOCNXCL *)

Exclude(t) ==
  /\ At(t, "idle")
  /\ \E f \in opened[t] : "DEV" \in fd_flags[f] /\ call' = [call EXCEPT ![t].at = "fd_lock", ![t].fd = f]
  /\ UNCHANGED <<dev, fd_flags, alt_max_fd, alt_fd_list_lock, opened, locked, against>>

\* One turn of the loop of alt_fd_lock, or its end: the last row is not looked at.
alt_fd_lock(t) ==
  LET i == call[t].row
      f == call[t].fd
  IN  /\ At(t, "others")
      /\ \/ i < alt_max_fd /\ ~ Other(t, i) /\ NextRow(t) /\ UNCHANGED <<fd_flags, locked>>
         \/ i < alt_max_fd /\ Other(t, i) /\ Goto(t, "asked") /\ UNCHANGED <<fd_flags, locked>>
         \/ /\ i >= alt_max_fd /\ Goto(t, "asked")
            /\ fd_flags' = [fd_flags EXCEPT ![f] = @ \cup {"EXCL"}]
            /\ locked' = [locked EXCEPT ![t] = @ \cup {f}]
      /\ UNCHANGED <<dev, alt_max_fd, alt_fd_list_lock, opened, against>>

Asked(t) ==
  /\ At(t, "asked") /\ Ends(t)
  /\ alt_fd_list_lock' = 1
  /\ UNCHANGED <<dev, fd_flags, alt_max_fd, opened, locked, against>>

alt_fd_unlock(t) ==
  /\ At(t, "idle")
  /\ \E f \in locked[t] :
       /\ fd_flags' = [fd_flags EXCEPT ![f] = @ \ {"EXCL"}]
       /\ locked' = [locked EXCEPT ![t] = @ \ {f}]
       /\ Unlocked(f)
  /\ UNCHANGED <<dev, alt_max_fd, alt_fd_list_lock, call, opened>>

FilesNext ==
  \E t \in Caller :
    \/ Open(t) \/ Pend(t, "get_fd", "search") \/ alt_get_fd(t) \/ Got(t) \/ MarkDevice(t) \/ alt_file_locked(t)
    \/ ReleaseFlags(t) \/ ReleaseDev(t) \/ Close(t)
    \/ Exclude(t) \/ Pend(t, "fd_lock", "others") \/ alt_fd_lock(t) \/ Asked(t) \/ alt_fd_unlock(t)

FilesSpec == FilesInit /\ [][FilesNext]_fvars
-----------------------------------------------------------------------------
\* A descriptor has one holder, and is locked exactly when its holder locked it:
\* the flags are cleared before the row is given away (alt_release_fd.c:48-49).
HoldersExact ==
  /\ \A t \in Caller : \A u \in Caller \ {t} : opened[t] \cap opened[u] = {}
  /\ \A t \in Caller : \A f \in opened[t] :
       dev[f] \in Device /\ f <= alt_max_fd /\ ("EXCL" \in fd_flags[f] <=> f \in locked[t])

\* No device has two locked descriptors, though the last row is never looked at.
OneLocked == \A d \in Device : Cardinality(LocksOn(d)) <= 1

\* No call of open gets past a lock that was there before it and is still there,
\* though open looks for it without alt_fd_list_lock (alt_open.c:72-87, 139-143).
OpenKeptOut == [][\A t \in Caller : opened'[t] \ opened[t] # {} => against[t] = {}]_fvars

\* What a task locked stays its own until it gives it up, however the others
\* open, close and lock in between.
FilesExact == [](HoldersExact /\ OneLocked) /\ OpenKeptOut
=============================================================================
