SPECIFICATION Spec
CONSTANTS
  Period = 24
  Critical = 3
  Deadline = 21
  Lfsr = 4
  Others = {1, 2}
  Lines = {0, 1, 2, 3, 4}
  None = none
  Alarm = {a1, a2, a3}
  Ring = ring
  Wrap = 4
  Waits = {0, 2}
  Returns = {0, 1, 3}
  Meddle = {"start", "stopself"}
  Caller = {t1, t2}
  Device = {console, disk}
  Console = console
  NoDev = nodev
  Std = 1
  MaxFd = 4
  Task = {1, 2, 3}
  HeapNests = 3
  EnvNests = 1
  Part = {p1, p2}
  Block = {1, 2, 3, 4, 5}
  User = {a, isr}
  Area <- Areas
  Null = null
  Junk = junk
  Prio = {0, 1, 5, 7, 8, 10, 15, 16, 20}
  Rows = 3
  NoPrio = noprio
INVARIANTS WordFollows AlarmsOnTime LocksExact PartitionsExact FindsHighest
PROPERTIES FilesExact InterruptsEnd
