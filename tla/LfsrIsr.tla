------------------------------- MODULE LfsrIsr -------------------------------
(***************************************************************************)
(* The frequency keying of lab 5: the 1 Hz shift register of lfsr.sv, the  *)
(* edge capture of the PIO on its clock, the interrupt dispatcher of the   *)
(* HAL and the handler of student_code.c that writes the tuning word.      *)
(* A step is one bus cycle: the hardware moves and the processor does one  *)
(* instruction's worth of work.  age counts cycles since the last edge of  *)
(* the LFSR clock; the other interrupts come when they like.               *)
(***************************************************************************)
EXTENDS Integers, FiniteSets, FiniteSetsExt

CONSTANTS Period,    \* bus cycles in a period of lfsr_clk
          Critical,  \* the longest the kernel keeps interrupts off
          Deadline,  \* cycles after an edge by which the word must follow
          Lfsr,      \* LFSR_CLK_INTERRUPT_GEN_IRQ
          Others,    \* the other interrupt numbers that have a handler
          Lines,     \* 0 .. ALT_NIRQ - 1
          None       \* no handler

ASSUME LfsrAssumption ==
  /\ Lines \subseteq Nat /\ Lfsr \in Lines /\ Others \subseteq Lines \ {Lfsr} /\ IsFiniteSet(Others)
  /\ Critical \in Nat \ {0} /\ Period \in Nat /\ Deadline \in Nat /\ Deadline < Period

\* What a deadline has to leave room for.  Every other device may be up when the
\* edge comes and ask once more after it.  While the tasks run, a round of the
\* dispatcher costs each of them two cycles, and a critical section may be on; while
\* the handler is being registered, a device may cost a call of its own of four.
ASSUME DeadlineAssumption ==
  /\ 4 * Cardinality(Others) + Critical + 7 <= Deadline
  /\ 6 * Cardinality(Others) + 9 <= Deadline

VARIABLES
  q, age,              \* LFSR, and the cycles since its clock last rose
  d1, d2, capture,     \* d1_data_in, d2_data_in, edge_capture
  mask,                \* irq_mask of the PIO
  raised, came,        \* lines other devices hold up; those that have this period
  table, ienable, pie, \* alt_irq[], ienable and status.PIE
  main, pc,            \* the program, and how far the dispatcher is
  active, value,       \* alt_irq_handler's and the handler's locals
  off,                 \* cycles since the kernel turned interrupts off
  word,                \* DDS_INCREMENT
  armed                \* the last edge came after init_lfsr_interrupt cleared the capture

hardware == <<q, age, d1, d2, armed>>
devices == <<raised, came>>
cpu == <<table, ienable, pie, active, value, off>>
lvars == <<hardware, devices, cpu, capture, mask, main, pc, word>>

TuningWord(v) == IF v % 2 = 0 THEN 86 ELSE 430               \* 0x56 and 0x1AE

Shift(v) == 16 * ((v + (v \div 4)) % 2) + (v \div 2)
LfsrClk(a) == a % Period < Period \div 2

LfsrInit ==
  /\ q = 1 /\ age \in 0 .. Period - 1
  /\ d1 = LfsrClk(age - 1) /\ d2 = LfsrClk(age - 2)
  /\ capture \in BOOLEAN /\ mask = FALSE
  /\ raised = {} /\ came = {}
  /\ table = [i \in Lines |-> IF i \in Others THEN i ELSE None]
  /\ ienable = Others /\ pie = TRUE
  /\ main = "mask" /\ pc = "out" /\ active = {} /\ value = 0 /\ off = 0
  /\ word = 0 /\ armed = FALSE
-----------------------------------------------------------------------------
Pending == ienable \cap (raised \cup IF capture /\ mask THEN {Lfsr} ELSE {})

\* Clock divider, shift register and the two samples of the edge detector.
Tick ==
  LET edge == age + 1 = Period
  IN  /\ age' = (age + 1) % Period
      /\ q' = IF edge THEN Shift(q) ELSE q
      /\ d1' = LfsrClk(age) /\ d2' = d1
      /\ armed' = IF edge THEN main \notin {"mask", "clear"} ELSE armed

EdgeCaptureFault(strobe) == capture' = (capture \/ (d1 /\ ~d2))   \* fault: a write does not clear it

\* A write to the capture register wins over an edge of the same cycle.
EdgeCapture(strobe) == capture' = (~strobe /\ (capture \/ (d1 /\ ~d2)))

\* Each of the other devices may ask once in a period; served lets go of one.
OtherDevices(served) ==
  \E new \in SUBSET (Others \ came) :
    /\ raised' = (raised \ served) \cup new
    /\ came' = (IF age + 1 = Period THEN {} ELSE came) \cup new

Around(strobe, served) == Tick /\ EdgeCapture(strobe) /\ OtherDevices(served)
-----------------------------------------------------------------------------
Taken == pie /\ Pending # {}
Runs(at) == pc = "out" /\ main = at /\ ~Taken

\* init_lfsr_interrupt.
EnableMask ==
  /\ Runs("mask")
  /\ mask' = TRUE /\ main' = "clear"
  /\ Around(FALSE, {}) /\ UNCHANGED <<cpu, pc, word>>

ClearAtInit ==
  /\ Runs("clear")
  /\ main' = "table"
  /\ Around(TRUE, {}) /\ UNCHANGED <<cpu, mask, pc, word>>

\* alt_iic_isr_register keeps interrupts off while it does both.
FillTable ==
  /\ Runs("table")
  /\ pie' = FALSE /\ table' = [table EXCEPT ![Lfsr] = Lfsr] /\ main' = "enable"
  /\ Around(FALSE, {}) /\ UNCHANGED <<ienable, active, value, off, mask, pc, word>>

EnableIrq ==
  /\ Runs("enable")
  /\ ienable' = ienable \cup {Lfsr} /\ pie' = TRUE /\ main' = "tasks"
  /\ Around(FALSE, {}) /\ UNCHANGED <<table, active, value, off, mask, pc, word>>

\* The tasks run, now and then with interrupts off.
Tasks ==
  /\ Runs("tasks")
  /\ \/ pie /\ pie' \in {TRUE, FALSE} /\ off' = 0
     \/ ~pie /\ off < Critical - 1 /\ pie' \in {TRUE, FALSE} /\ off' = IF pie' THEN 0 ELSE off + 1
     \/ ~pie /\ off = Critical - 1 /\ pie' = TRUE /\ off' = 0
  /\ Around(FALSE, {}) /\ UNCHANGED <<table, ienable, active, value, mask, main, pc, word>>
-----------------------------------------------------------------------------
\* alt_irq_handler.
Interrupt ==
  /\ pc = "out" /\ Taken
  /\ pie' = FALSE /\ pc' = "pending"
  /\ Around(FALSE, {}) /\ UNCHANGED <<table, ienable, active, value, off, mask, main, word>>

ReadPending ==
  /\ pc = "pending"
  /\ active' = Pending
  /\ IF Pending = {} THEN pc' = "out" /\ pie' = TRUE
                     ELSE pc' = "call" /\ UNCHANGED pie
  /\ Around(FALSE, {}) /\ UNCHANGED <<table, ienable, value, off, mask, main, word>>

\* The lowest number first; one handler, then the list is read again.
CallHandler ==
  /\ pc = "call"
  /\ pc' = (IF Min(active) = Lfsr THEN "read" ELSE "pending")
  /\ Around(FALSE, {Min(active)} \cap Others)
  /\ UNCHANGED <<cpu, mask, main, word>>

\* handle_lfsr_interrupts: read, write the word, clear, read back.
ReadLfsr ==
  /\ pc = "read"
  /\ value' = q /\ pc' = "write"
  /\ Around(FALSE, {}) /\ UNCHANGED <<table, ienable, pie, active, off, mask, main, word>>

WriteWordFault ==   \* fault: the wrong bit of the LFSR is looked at
  /\ pc = "write"
  /\ word' = TuningWord(value \div 2) /\ pc' = "clearedge"
  /\ Around(FALSE, {}) /\ UNCHANGED <<cpu, mask, main>>

WriteWord ==
  /\ pc = "write"
  /\ word' = TuningWord(value) /\ pc' = "clearedge"
  /\ Around(FALSE, {}) /\ UNCHANGED <<cpu, mask, main>>

ClearEdge ==
  /\ pc = "clearedge"
  /\ pc' = "readback"
  /\ Around(TRUE, {}) /\ UNCHANGED <<cpu, mask, main, word>>

ReadBack ==
  /\ pc = "readback"
  /\ pc' = "pending"
  /\ Around(FALSE, {}) /\ UNCHANGED <<cpu, mask, main, word>>

handle_lfsr_interrupts == ReadLfsr \/ WriteWord \/ ClearEdge \/ ReadBack

LfsrNext == \/ EnableMask \/ ClearAtInit \/ FillTable \/ EnableIrq \/ Tasks
        \/ Interrupt \/ ReadPending \/ CallHandler \/ handle_lfsr_interrupts

LfsrSpec == LfsrInit /\ [][LfsrNext]_lvars /\ WF_lvars(LfsrNext)
-----------------------------------------------------------------------------
\* However the other interrupts and the kernel's critical sections fall, by
\* Deadline cycles after an edge the tuning word is that of the LFSR's last bit:
\* no edge is lost between the reading of the LFSR and the clearing of the
\* capture, nor between init_lfsr_interrupt's clearing and its registering.
WordFollows == armed /\ age >= Deadline => word = TuningWord(q)

\* The processor gets back to its tasks after every edge.
TasksGoOn == [](capture => <>(main = "tasks" /\ pc = "out"))
=============================================================================
