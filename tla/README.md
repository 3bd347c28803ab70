# Verification of the CPEN 311 laboratories

The repository holds four independent designs of one course: the FPGA circuits
of labs 1, 2 and 4, and lab 5, a soft processor with the uC/OS-II kernel, the
hardware abstraction layer (HAL) of the board and an application of two tasks.
Nearly everything that can go wrong in them happens between two clock edges, two
critical sections or two interrupts, where a waveform shows one run and a test
one order. This directory models those parts in TLA+, checks them with TLC and
proves with TLAPS, for every value of the parameters, what matters most.

Paths below are relative to `src/`; `lab5/...` stands for
`lab5/Lab5_template_de1soc/software`.

## The system

| Component | Source | State | Operations | What is hard | What makes it correct | Status |
|---|---|---|---|---|---|---|
| RC4 key search (lab 4) | `task2_fsm.sv`, `s_memory.vhd`, `en_memory.vhd`, `de_memory.vhd`, `ksa.sv` | state register, i, j, k, temporaries, three synchronous memories, key, verdict, lights | one clock edge; a memory access | a memory answers one cycle late while the machine moves on; nothing is reset between keys but what the code resets | S stays a permutation; keys in order, each decided as RC4 decides it; a verdict comes, stays and is shown | modelled |
| Song player (lab 2) | `fsm_flash_read.sv`, `address_controller.sv`, `sound_out.sv`, `keyboard_control.sv`, `simple_ipod_solution.v` | four state registers, address, word, sample | clock edge, flash answer, sample edge, key | two machines shake hands over a flash whose strobe is held while the word is played: it may wait, is asked for the same word many times and answers late | every word in order, both halves; stop and direction act cleanly; it plays on | partly |
| Sample clock (lab 2) | `speed_controller.sv`, `clk_divider.v`, `clock_sync.sv` | divisor, counter, four flip-flops | press, divide, trap an edge | an asynchronous trap that resets itself; a divisor that changes under the counter | one pulse per edge, for ever | modelled |
| Audio meter (lab 2) | `pracPICO.psm`, `picoblaze_template.v` | registers, scratchpad, lights | main program, interrupt routine | the interrupt falls anywhere in five nested delay loops that use the same registers | registers returned, the bar shows the average | partly |
| uC/OS-II kernel (lab 5) | `lab5_bsp/UCOSII/src/os_*.c`, `ucos_ii.h` | ready list, task and event control blocks, wait lists, queues, flag groups, partitions | every service that changes them, the tick, interrupt handlers | a service is several critical sections; a waiter can be posted, time out, be aborted, suspended, moved, deleted, or lose its object before it runs | its tables agree; the right task runs; units, messages, flags, mutexes and blocks are neither lost nor doubled | partly |
| HAL alarms and tick (lab 5) | `alt_alarm_start.c`, `alt_tick.c`, `alt_llist.h` | a ring of alarms, a tick counter that wraps | start, stop, the walk of the tick | callbacks start and stop alarms while the list is walked | every alarm when its ticks are over; the walk ends | modelled |
| HAL file descriptors (lab 5) | `alt_open.c`, `alt_close.c`, `alt_ioctl.c`, `alt_get_fd.c`, `alt_release_fd.c`, `alt_fd_lock.c`, `alt_fd_unlock.c` | descriptor table, its semaphore, exclusive marks | open, close, lock, unlock by several tasks | half of the table's users do not take its semaphore | one holder per descriptor; what is locked stays its owner's | partly |
| Locks of newlib (lab 5) | `alt_malloc_lock.c`, `alt_env_lock.c` | a semaphore, an owner and a count each | lock, unlock, nested | ownership is worked out from a copy of the semaphore | one task inside, its calls counted | modelled |
| JTAG UART driver (lab 5) | `altera_avalon_jtag_uart_*.c` | two circular buffers, flags, semaphores, device FIFOs | read, write, close, interrupt handler, timeout | the interrupt falls between any two steps of a task; the host moves meanwhile | characters in order both ways; nobody sleeps with something to do | partly |
| Interrupt dispatch and LFSR interrupt (lab 5) | `alt_irq_register.c`, `alt_irq_handler.c`, `student_code.c`, `lfsr.sv` | handler table, masks, edge capture, tuning word | register, dispatch, handle | an edge between reading the LFSR and clearing the capture | the tuning word follows the bit | modelled |
| Song player tasks (lab 5) | `lab5/hello_ucosii.c`, `lab5/drivers/drivers.c` | three flags, position, frequency, FIFO, registers | two tasks of different priority | the reader of the flags preempts their writer | samples in order, the song to its end; stop stops; the panel is true | partly |
| Others | see "Not modelled" | | | | | not modelled |

The laboratories do not interact. Inside lab 2 the three machines of the player
and the sample clock share a clock, and the meter is interrupted by the sample
pulse. In lab 5 everything stands on the kernel: `alt_tick` is called by the
timer interrupt; the file descriptors, newlib and the UART driver take kernel
semaphores and flags; the two tasks of the application share their flags and
nothing else. Each layer is modelled with the one below it at the granularity of
what that layer promises: a driver sees a semaphore as one step because `Kernel`
shows what the critical sections of the semaphore amount to.

`PROJECT.json` lists forty hazards, each at its line, with the properties that
would catch it.

## Modules

| Module | Models |
|---|---|
| `RC4Reference`, `KeySearch` | RC4 as a definition; what the circuit promises (abstract) |
| `Task2Fsm`, `Ksa` | the circuit clock edge by clock edge; the lights of its top |
| `FsmFlashRead`, `SoundOut`, `KeyboardControl`, `Ipod` | the machines of the player, and their wiring with flash, sample clock and user |
| `SampleClock`, `AudioMeter` | divisor, divider and trap; the PicoBlaze program and its interrupt routine |
| `OsCore` | kernel state; ready list, wait lists, scheduler, tick, the stages of a blocking call |
| `OsTask`, `OsSem`, `OsMutex`, `OsMbox`, `OsQ`, `OsMulti`, `OsFlag` | the services of the file of that name (`OsMulti`: `OSEventPendMulti` of `os_core.c`; `OsTask` also `os_time.c`) |
| `Kernel` | all of these over one state, with tick and interrupt handlers; the kernel's properties |
| `Channel` | what a mailbox or a queue promises (abstract) |
| `OsMem` | memory partitions, down to the links in the free blocks |
| `ReadyList`, `PrioSet` | the bit maps `OSRdyGrp`/`OSRdyTbl` with the look-up tables, and the set they stand for (abstract) |
| `Alarms`, `HalFiles`, `NewlibLocks`, `LfsrIsr` | the component of that name |
| `JtagUart`, `Stream` | the driver; what a character device promises (abstract) |
| `SongTasks` | the two tasks and the registers they write |
| `MCKsa`, `MCLab2`, `MCAudioMeter`, `MCKernel`, `MCParts`, `MCJtagUart`, `MCSongTasks` | constants and compositions for TLC |
| `Lab2Proofs`, `SongTasksProofs`, `JtagUartProofs` | theorems of the component of that name |
| `PartsProofs` | theorems of `Task2Fsm`, `Ksa`, `OsMem`, `ReadyList`, `NewlibLocks`, `HalFiles`, `Alarms` and `LfsrIsr` |
| `KernelStepsProofs`, `KernelProofs` | theorems of `Kernel`: its invariant and what keeps it, the services on events and the theorems |
| `FlagProofs`, `MutexProofs` | theorems of `Kernel` on event flags and on mutexes |

A definition whose name ends in `Fault` is a plausible bug of the definition
after it; no specification uses one.

### RC4 key search

One step of `Task2Fsm` is one rising edge of the clock. A state of the case
statement is a string of the same name and has one action; the one-hot output
bits in the state's encoding are the sets of states that raise them. A memory
samples address, data and write enable at the edge and shows q after it, as
`altsyncram` does with an unregistered output. Registers with no initial value
and the cells of the memories power up as zero, as those of the FPGA do; the message is any. The default branch assigns `18'bz` to the
state register; what is loaded is the constant `ZNext`: `"undriven"` for a
register that is in no state of the case, or a state of it.

`KeySearch` is the abstract specification. The refinement maps `secret` to the
key, `crack_success` to the verdict and a rejected key to one step; it is
checked as `ImplementsSearch`, with `RC4Reference` deciding which keys are to be
accepted.

### Lab 2

`FsmFlashRead`, `SoundOut` and `KeyboardControl` hold one machine each; their
steps take the input wires as parameters, and `Ipod` connects them in one `Tick`
as the top module does. The encodings of the reader's states
(`fsm_flash_read.sv:15`, `:21`) keep the read strobe up from `send_read_address`
all through `finished`, until the second half of the word has been played. The
flash controller is not in the repository; it does what an Avalon slave does with
such a master: at every edge at which the strobe is up and waitrequest is not, it
takes a read of the address on the pins, and answers the reads in the order it
took them, each after one of `Latencies` edges (`coming` is the pipeline), so that
one word is asked for many times. `Patience` bounds the edges a strobe meets
waitrequest in a row. The last answers for a word may come in the next turn, and
the player, which looks at readdatavalid alone, goes on with the old word on the
bus; what saves it is that it copies the bus again at every edge until the sample
clock moves it on. `FlashAssumption` says what that needs: between two sample edges
(`Gap` edges of CLOCK_50 at least) the flash has the time for the last read of one
word and the first of the next. Nothing in the code says so; the board has 2273
edges to a sample at the nominal speed. A sample is named by its word and its
half. `played` is history.

`SampleClock` counts edges owed: an edge of the divided clock adds one to `owed`
and a pulse takes one away. The first flip-flop is clocked by the divided clock
and reset asynchronously; an edge that meets its reset may or may not be caught.

`AudioMeter` models the main program group by group, its five nested delay loops
as one pair of actions indexed by the register they count in, and the interrupt
routine label by label. The interrupt is masked from `Interrupt` to `StoreData`
(RETURNI), and a pulse meanwhile is lost. `cold_start` clears none of the words
the routine reads, so they start from any value of `Powerup`.

### The kernel

The kernel's data are one record `os`, and every kernel function is an operator
from kernel states to kernel states, so that a service may call several of them
inside one critical section, as the code does. A critical section is one step; a
service is as many steps as it has critical sections, and `pc[t]` says where task
t is between them. Only `os.cur` takes steps. A tick or an interrupt handler's
post may come between any two steps and ends in `OSIntExit`, so the rest of a
service may run after the world has changed: a test of `OSEventType` made before
interrupts are disabled is a step of its own.

What an application does is its own choice: `App[os.app]` is a record that says
which tasks, objects and priorities there are, which services are called, and how
deep counters go. An initial state picks one; `MCKernel` holds the table. The
calls an application makes keep to the notes of the services: the owner of a
mutex pends on no other event and does not pend twice; a mutex is deleted while
nobody has it, or while its owner is ready; a task deletes itself when it was
asked to, except in the applications `killed` and `bitsdel`, where another deletes
it while it waits; whoever sends a message held it.
Ghost variables follow what the code keeps nowhere: `held` and `total` the units
of semaphores, `mine` the messages, `has` the mutexes, `res` what `OSFlagPend`
returned.

`ReadyList` models the bit maps themselves; the rest of the kernel uses the set
of priorities they stand for, and `MapsAreASet` proves that it may. `OsMem`
stands alone: partitions share nothing with the other services.

### HAL and drivers

`Alarms` walks the ring pointer by pointer; a callback is an interval in which it
may start another alarm or stop itself, then returns the ticks to its next call.
The counter is taken modulo `Wrap`.

In `HalFiles` a call of open, close or ioctl is a sequence of steps, one per row
looked at, because tasks may be switched between any two. `against[t]` remembers
the locks that were there when t called open and have been there since; `opened`
and `locked` are what the callers were told.

`NewlibLocks` is both locks, with `OSSemQuery`, `OSSemPend` and `OSSemPost` as
steps; one constant says how deep each is nested.

In `JtagUart` a task's loop is cut at every read or write of a variable that the
interrupt handler changes; the handler is cut at its device accesses, because the
host goes on meanwhile. `MCJtagUart` uses one direction per behaviour: the two
share no buffer.

A step of `LfsrIsr` is one bus cycle: the hardware moves and the processor does
one access. Interrupts may be off for `Critical` cycles at a time, and other
lines may be served first.

In `SongTasks` task1 runs whenever it does not sleep; task2 runs only then. Each
register write is a step. `sent` counts the samples that have gone in since
`address_counter` was last set back to zero. `send_audio_fifo` stands on one physical line with
`#define NUMERO_DE_MUESTRAS` (`hello_ucosii.c:141`): the lines in it end in a
carriage return alone, which the compiler takes for the end of the comment.

## Runs

Distinct states are in brackets; every run but the three violations is
exhaustive.

| Run | Question | Bounds, and why they are enough |
|---|---|---|
| `rc4` (256 thousand) | does the circuit on the board implement the ordered search, decide each key as RC4 does, end, and light the right lamps? | N = 4, messages of 3 two-bit bytes, all 64 keys and all messages: i and j meet in every way; keys succeed first, in the middle, last and never. `ZNext` is `"undriven"` |
| `lab2` (865 thousand) | does playback keep its promises under every key, with every wait, repeated read and late answer of the flash; one pulse per edge under every press; registers, sums and bar right wherever the interrupt falls? | a song of 4 words, so that both ends wrap and the direction changes at, before and after each; latencies 2 and 5: only from 5 up can an answer for one word come when the next has been asked for; waitrequest for one edge; 11 edges between two sample edges, the least `FlashAssumption` allows; divisors 6 to 28, the shortest phases the design can take; two-bit registers and blocks of 4 samples: the carry, the most negative sample and every average occur |
| `kernel_tasks` (300 thousand) | do the kernel's tables agree after any interleaving, does the right task run, are units and mutexes kept? | eight applications of two or three tasks and the idle task: management, the scheduler lock, one semaphore with every service, two semaphores and a shared pool, deletion of a task, a pend on two events, a mutex under three tasks, a mutex deleted. Two waiters show the order, three tasks a promotion over a middle priority; delays to 2, so that a wait ends before, at and after another |
| `kernel_messages` (375 thousand) | are mailboxes and queues channels; is no waiter of flags overlooked or misled? | seven applications: a mailbox with three pends and posts, broadcast with deletion, a queue of 2 with 3 messages (full, empty, wrapped, posted to the front), queues deleted and made again, flags waited for set, any, all, with and without consumption, flags waited for clear with the group deleted, a task deleted by another while it waits for flags |
| `kernel_returns` (7 thousand) | do delays end, does a pend with a limit come back? | delays to 3 under a scheduler lock two deep, and suspended tasks |
| `kernel_resume` | violation, see Findings | the first counterexample |
| `jtag_order` (2.6 million) | are characters kept in order both ways? | one reader, two writers (symmetric), buffers of 3 and FIFOs of 1: each is full, empty and wrapped within two or three characters; transfers of at most 2 |
| `jtag_service` (187 thousand) | is all sent, is the reader served, does close come back? | buffers of 2; a timeout that runs out and one that does not |
| `song` (520 thousand) | do the samples go in in the order of the song, does it begin anew only at its end or on stop, does stop stop, does the panel tell the truth? | a song of 4 in pieces of 2, a FIFO of one word, so that task1 waits at every sample; three sets of buttons; frequencies that meet both bounds; 50 ticks a second instead of the board's 1000, so that the tasks sleep for 1 and 5 ticks instead of 10 and 100: task1 still comes round several times in one sleep of task2 |
| `parts` (384 thousand) | the keying interrupt, alarms, files, locks, partitions and bit maps, each on its own | Period 24, interrupts off for at most 3 cycles, two other lines, and a deadline of 21 cycles, the least `DeadlineAssumption` allows for them; three alarms and a counter of 4 values, so that it wraps between a start and its call; two tasks and two devices over five descriptors; three tasks and three nested calls; partitions of 2 and 3 blocks and two users; nine priorities in three bytes, first and last bits among them |
| `meter_zero`, `env_lock` | violations, see Findings | the first counterexample |

`lab2` and `parts` compose components that share nothing: a behaviour runs one of
them, chosen at the start, and the others stay as they start.

CHECK_DEADLOCK is left on everywhere: none of these systems may stop. In
`env_lock` a single invariant is checked and found violated before any deadlock.

### Findings

- `meter_zero`: the comment at `pracPICO.psm:389` says that an average of zero is
  output; line 390 jumps past the OUTPUT, and the lights keep an earlier bar.
- `kernel_resume`: a task waits on several events (`OSEventPendMulti`), is
  suspended, and one of its events is posted. `OS_EventTaskRdy` clears the type
  of that event and leaves `OS_STAT_MULTI`; `OSTaskResume` (`os_task.c:816`)
  finds `OSTCBStat` not zero and does not make the task ready. It is neither on a
  wait list nor on the ready list, and neither a post nor another resume brings it back.
- `env_lock`: `__env_lock` (`alt_env_lock.c:81`) knows its owner by `OSEventGrp`,
  which is zero as long as nobody waits, where `__malloc_lock` looks at `OSCnt`.
  The owner's second call waits for its own post, against the comments at
  `alt_env_lock.c:78` and `:83`.

### Observations

Met while modelling; each is in the model as the code has it, and the properties
are stated so as to hold beside it, or the model's applications keep away from it.

Kernel:
- `OSMutexPost` without a waiter lowers its caller's priority and does not look at
  the scheduler; a task of a priority in between runs only at the next look
  (`Demoted` in `HighestRuns`).
- `OSPrioCur` is stale after `OSTaskChangePrio` of the running task under the
  scheduler lock; `OSTaskChangePrio` of a task that was posted to and has not run
  puts it back on a wait list (applications with events move nobody).
- A service looks at `OSEventType` before it disables interrupts: an event deleted
  in between is used after its deletion. `OSEventPendMulti` returns early when it
  meets one, with the earlier events taken.
- A unit given to a task that is deleted before it runs is lost
  (`UnitsConserved`, application `killed`).
- Flags consumed by one waiter do not wake those that wait for them to be clear;
  `OSFlagDel` wakes waiters with OS_ERR_NONE and no flags (`FlagsWereMet`).
- A task that was handed a mutex and suspended before it ran still points to the
  mutex (`OSTCBEventPtr`). When `OSMutexPend` promotes this owner
  (`os_mutex.c:462`, `:486`) it puts the mutex's priority on the wait list though the
  owner does not wait (the applications with a mutex suspend nobody).

HAL:
- `alt_tick` takes the next link of an alarm before its callback; a callback that
  stops the next alarm makes it follow that one's links, which point to itself, and
  the walk never ends (`Meddle` leaves `"stopother"` out of the run, so that
  `AlarmsOnTime` and `InterruptsEnd` speak of callbacks that stop their own alarm only).
- An alarm of the longest time that fits the counter can be called early, because
  one roll-over flag cannot tell one wrap from two (`Waits` stays below it).
- `alt_fd_lock` loops while `i < alt_max_fd` (`alt_fd_lock.c:61`), so a lock is
  granted while the highest descriptor has the device open, against the comment at
  lines 43-45. `OneLocked` and `OpenKeptOut` hold all the same, and are proved.
- The locks of newlib take the priority for an identity, which
  `OSTaskChangePrio` and a mutex change, and claim ownership even when
  `OSSemPend` fails under the scheduler lock.
- JTAG UART: READ_RDY can be left set over an empty buffer, so a reader looks once
  for nothing; -EIO may be returned although the host has come back.

Circuits:
- The player takes any readdatavalid for the answer it waits for, also one for the
  word before: with a flash so slow, or a sample clock so fast, that
  `FlashAssumption` fails, it plays the word before again (TLC finds it with
  a `Gap` below 2 * `Longest` + `Patience` - 1).
- The default branch of `task2_fsm.sv:202` is left out of the run but for the case
  that the register is then in no state: if it is in `start_swap` the last key is
  tried again on a used S memory, with lights that need not be true.

Application:
- The song wraps in two steps: at `address_counter == size_song` the piece at
  address modulo size, the first, is sent and only then is the address set back to
  zero, where the first piece is sent again (`hello_ucosii.c:162-168`). The first
  1000 samples go in twice at each wrap; `InOrder` and `WholeSong` say so.

Sample clock:
- Nothing bounds the divisor: 453 presses bring 2273 down to 8, where every edge
  still gives a pulse; the next makes it 3 and edges are lost, one more 2^28 - 2.
  `Fastest` keeps presses above that.

## Fairness

- `Task2Fsm`, `Ipod`, `SampleClock`, `LfsrIsr`: the clock runs (weak fairness of
  the step). In `Ipod` sample edges keep coming and each ends (`Fairness`), which
  `PulsesForEver` of `SampleClock` justifies. Nothing is assumed of the user, and of
  the flash the bounds `Longest` and `Patience`.
- `AudioMeter`: its properties are safety and assume nothing.
- `Kernel` (`FairSpec`): the timer ticks, and the running task inside a service
  goes on; nothing is assumed of applications. `TimedPendReturns` is claimed for
  the task of highest priority alone, as fixed priorities promise no more.
- `Alarms`: `alt_tick`, once begun, goes on; ticks are not assumed to come.
- `JtagUart`: a task inside the driver goes on, the processor takes its
  interrupts, and with `Host` the host takes what is sent. `CloseEnds` is fair on
  its own, because two writers may take turns for ever.
- `SongTasks`: task1 goes on whenever it can, the tick comes and the audio clock
  empties the FIFO. task2 is strongly fair: it is stopped by task1 again and
  again, but between two ticks the processor has time for a turn of it.

## Proofs

Each theorem holds for every value of the constants under the named assumptions.

- `PartsProofs`, on `Task2Fsm` and `Ksa`. `TypeCorrect`: every register keeps its width.
  `PermutationHolds`: S is a permutation whenever it is settled. That alone is not
  inductive: in the middle of an exchange a value is missing from the memory and
  held in a temporary or on the data bus. `SwapInv` says for each state which
  address, temporary and q hold what, by `FillInv`, `WrenInv`, `AddressInv` and
  `CopiesInv`. `KeptBytesValidHolds`: success implies a complete message of valid
  characters, from `ResultInv`. These two assume `ZQuiet`: the default branch
  leaves the register in no state of the case, or in `start_swap`.
  `DecryptionIsExact`: the schedule, the key stream and every decrypted byte are
  those of RC4 for the key being tried. `CipherInv` says how much of `KeySchedule`
  and `KeyStream` has been computed in each state, and what the memory outputs are
  about to deliver; `VerdictInv` and `CircuitInv` add what has been judged so far.
  The reference functions are recursive; the one step of them a proof needs (their
  value at n from that at n - 1) is proved from their definition by a least
  counterexample (`WFMin`). `LightsHold`: the lights tell the truth.
  `SearchImplemented`: the circuit implements `KeySearch`, every step a step or a
  stutter; the fairness of `KeySearch` is beyond the prover and stays with
  `ImplementsSearch` in run `rc4`. These three assume `ZStops`: the default branch
  leaves the register in no state of the case. In a state of the case chosen at
  random the search would go on from the middle.
- `Lab2Proofs`. `TurnsHold`: `Handshake` (the player works only while the reader
  waits for it) and `SoundsTheWordRead`, for every length of the song and every
  latency, patience and gap that satisfy `FlashAssumption`. `TurnInv` joins what
  may be on the bus and on its way there at each point of a turn: which answers
  belong to the word before and that they come first (`AnswersInOrder`), with a
  bound on how long after a sample edge they can still be under way; and that when
  the player has gone on with the old word, the answer it should have waited for
  comes before the next sample edge (`CatchesUp` on `Behind`). `WordsFollow`
  (`WordsInOrder`): each word sounded is the neighbour of the last, and both halves
  of it unless the direction changes in between.
  `PulsesMatchEdges`: one pulse for each edge of the sample clock, if no press
  takes the divisor below 6 (`Fastest >= 6`); what shorter ones do is said above.
  `RegistersReturned`: `MainUndisturbed`, for every width and delay, `PreserveInv`
  carrying the registers through the copies. `AverageShown`: the sum in the
  scratchpad, with its carries over two bytes, is the sum of the samples since the
  last block, and the bar its average.
- `SongTasksProofs`. `SamplesInOrder` (`InOrder`), `SongIsWhole` (`WholeSong`):
  `SongInv` says for every place task1 can be preempted that the samples sent since
  the position was last zero are the position and what has gone in of the piece
  (`sent = addr + Sent`), where the piece starts, and what the write to the FIFO has
  set up so far (`WriteInv`); it needs that the pieces divide the song
  (`PieceFits`). `PanelHolds` (`PanelTruthful`), wherever task1 runs between the
  writing of a register and of its picture (`PanelInv`): of the three flags those
  that do not yet say what the drawn button says are in the writes left
  (`FlagsInv`), which also gives the second half of `WholeSong`.
- `JtagUartProofs`. `ReceivingIsAStream` and `TransmittingIsAStream`: each direction
  of the driver implements `Stream`, for every buffer length, depth of the FIFOs,
  set of readers and of writers. The refinement maps the buffer's part between its
  indices, and the device's FIFO, to the stream. It needs `JtagInv`
  (`DriverHolds`): what a reader saw is still at the front of the buffer and what it
  copied is what lies there (`Reading`), the room a writer saw is still room and
  what it copied lies behind the last character (`Writing`), though the interrupt
  routine moves the other index meanwhile; and `SpaceInv`, that the interrupt
  routine never counts on more room in the device than there is. The lemmas
  `PutMany` and `TakeMany` do the arithmetic of a circular buffer once.
- `KernelProofs`. `TablesAgree` (`KernelExact`), `HighestHasCpu` (`HighestRuns`) and
  `NobodyWaitsInVain` (`NothingKept`), for any number of tasks, priorities,
  semaphores, mailboxes and queues, any length of the queues and of the delays, and
  any depth of the scheduler's lock. They speak of the applications that are
  `Lasting`: a task keeps the priority it was given, waits for one event at a time,
  and is deleted by itself only, and there is no mutex and no event flag. Of the
  applications TLC runs these are `locked`, `units`, `pool`, `letters`, `cast`,
  `order`, `remade`, `timed` and `delays`; creation and deletion of tasks, events and
  queues, suspension, delays, timeouts, aborts and the interrupt handlers are in.
  `HighestHasCpu` leaves out the two PostOpt services, which may be told not to
  schedule. Three assumptions name what the proofs need of the constants:
  `AppAssumption` (each application starts its tasks at priorities of their own, the
  idle task at the lowest), `EventAssumption` (it starts with events nobody waits
  for, and queues with a control block each) and `SemAssumption`.
  None of the three properties is inductive, nor are they together, since each
  service runs in several critical sections. `Holding` says of a kernel state
  and of the places of the tasks in their calls: which priorities and blocks a
  creation has set aside (`TblInv`, of three parts: `OwnPrioInv`, `AsideInv`,
  `BlocksInv`); that a task is on the ready list exactly if it is not delayed and its
  status is clear (`ReadyInv`); what the status of a task can be at each place, and
  that it is on the wait list of the event it is inside a Pend of and on no other
  (`WaitInv`); that a call still finds the event it was made on, since nobody else
  is inside a call on an event that is being deleted (`CallInv`); where each control
  block of an event or a queue is (`EcbInv`, `QcbInv`); that nothing lies where a task
  waits, with the ring of each queue (`KeptInv`); and that the processor is with the
  task `OSPrioCur` says or with one that has just deleted itself (`CurInv`), the
  highest ready one unless it is about to call the scheduler (`RunInv`).
  `StartHolds` and `StepHolds` say that it holds at the start and is kept;
  `KernelStepsProofs` proves it of the changes that several services make (a wait
  begins or ends, a delay ends, a block is taken or given back), then of the
  scheduler, the tick, the services on tasks and the stages of a call;
  `KernelProofs` of each service on an event. `OS_EventTaskRdy` and its loops are
  stated as one operator on a set of waiters (`Readied`), so that no proof needs
  an induction over them.
- `FlagProofs`. `FlagsReachWaiters` (`FlagWaitersExact`) and `SuccessWasMet`
  (`FlagsWereMet`), for any number of tasks, priorities, groups and flags, any masks
  and any delays. They speak of the applications that are `Signalling`: tasks that
  wait for flags with or without a limit, set and clear them, delete groups, delay,
  suspend and resume each other and lock the scheduler, while interrupt handlers set
  flags; what one task consumes, no other waits for with the opposite sense.
  Without the last condition the first theorem is false: flags that a call consumes
  are cleared without a look at the list, so that a task that waits for them to be
  clear sleeps on. Of the applications TLC runs, `bits`, `levels` and `delays` are of
  this class. The invariant `FlagInv` joins what is false alone: the kernel's tables
  for tasks that stay at their priority (`FlagKernel`); the task with the processor
  (`FlagCpu`), which is not about to sleep while the scheduler is locked; what the
  places in a call say of status and arguments (`FlagPc`); that a call finds its
  group, since nobody is inside one on a group being deleted (`FlagCalls`); that the
  list of a group is, without repetition, the tasks that wait or whose limit has
  passed, and none that still waits has its flags (`FlagLists`); and that the flags a
  task was readied with met its mask, though the group may have changed since
  (`FlagGiven`). A post wakes a set of tasks in one step (`Meeters`), and
  `OS_FlagUnlink` is a function on the length of the list, so that what it keeps and
  drops is proved by an induction over that length.
- `MutexProofs`. `OneOwner` (`MutualExclusion`) and `OwnerInherits`
  (`PriorityInherited`), for any number of tasks, any priorities and delays. They speak
  of the applications that are `Guarding`: the tasks share one mutex whose priority is
  above all of theirs, take it with or without a limit, accept, post and delete it,
  delay, resume a delay and lock the scheduler; suspension is left out because of the
  observation above, and `LowestPrio` is below 255, the code for a mutex nobody has.
  `inherit` and `undone` of the run are of this class. `MutexInv` joins: the kernel's
  tables with tasks that move between two priorities (`MutexKernel`, `MutexPrios`);
  that the mutex names its owner and the priority that one had (`MutexEcbs`); what the
  places in a call say of a task's status (`MutexPc`, `MutexStats`, `MutexWaits`);
  that a call finds its mutex (`MutexCalls`); that the ghost `has` and the tasks that
  were handed the mutex and have not run are the owner in the control block
  (`MutexHas`); that no waiter outranks the owner (`Outranks`); and that the task with
  the processor is the highest ready one outside the scheduler, but for an owner whose
  priority has just been lowered (`MutexCpu`). None is inductive alone: that nobody waits in vain for a
  free mutex needs the promotion to have found the owner where it was, which needs
  the tables to agree through it.
- `PartsProofs`, on `OsMem`.
  `PartitionsKept`: every block is free, with one owner or not yet
  cut, and the counts agree, for any tasks and partitions. `MemInv` says that a block
  is once in one list (`FreeOnce`) or with one owner (`OwnedOnce`) or not yet cut
  (`Apart`, `Nowhere`), that a partition has blocks of one array only
  (`FromOneArea`), and what a creation has taken when it is preempted
  (`PartsApart`). A block that is out leaves room for its return because a list
  without repetition is no longer than its array (`OutMeansRoom`).
- `PartsProofs`, on `ReadyList`.
  `GroupIsTrue`: the summary word has a bit for exactly the
  bytes that are not zero. `HighestIsFound`: two look-ups find the smallest listed
  priority; the lemmas on `OSUnMapTbl` rest on `UnMapAssumption`, which TLC
  evaluates over all bytes. `MapsAreASet`: the bit maps implement `PrioSet`, every
  step a step or a stutter.
- `PartsProofs`, on `NewlibLocks`.
  `LocksHold`: one task is between lock and unlock, its calls
  are counted, and it waits for nobody meanwhile; for any set of tasks, the heap's
  lock nested to any depth. It assumes `EnvNests = 1`: with nested calls of
  `__env_lock` it is false, which `env_lock` shows. `LockInv` adds to the property
  that the unit is gone exactly with its holder (`OneHolds`), that the recorded
  owner is the holder (`OwnerIsNamed`), that the copy taken by `OSSemQuery` is not
  stale for the owner, alone among the tasks (`OwnerKnows`), and which tasks wait.
- `PartsProofs`, on `HalFiles`.
  `FilesHold`: a descriptor has one holder, a device at most one
  lock, and no open gets past a lock that was there before it; any number of
  tasks, devices and descriptors. `FileInv` says how far the searches under way
  have come: a search of `alt_fd_lock` has met no row of its device below its own
  (`SearchOk`), a lock an open must not pass lies ahead of its search (`AheadOk`),
  and no open row lies below a lock of the same device (`Exclusive`), which is
  what makes the loop that leaves out the last row harmless for these properties.
- `PartsProofs`, on `Alarms`.
  `AlarmsInTime`: the list is a ring of the alarms that are on, none is called
  before its ticks are over and none is left behind by a tick, for any number of
  alarms, any width of the counter and whatever callbacks start, stop of their own
  and return meanwhile. It assumes `Gentle`: a callback stops no alarm but its own,
  and none is started for the longest time; either breaks the promise, see above.
  `AlarmInv` numbers the alarms along the list (`Linked`), so that
  those the walk has passed are told from those it has yet to meet (`Walking`):
  the time of the first is ahead by the flag `rollover`, that of the others may
  still have the flag the counter had before it wrapped (`Timed`).
- `PartsProofs`, on `LfsrIsr`.
  `WordInTime`: `WordFollows`, for any set of other devices, critical sections of
  any length and any deadline that satisfies `DeadlineAssumption` and is shorter
  than the period. `LfsrInv` bounds the cycles that are left until the word is
  written at every place the program can be at (`Rank`): the longest critical
  section, the requests that are up and those that may still come, each at what a
  round of the dispatcher costs. Every cycle spends one of them, so that a capture
  is served within the deadline and gone before the next edge (`Served`).

Only model-checked: liveness and everything under fairness, which is beyond the
prover (`StopsCleanly`, `SoundGoesOn`, `StopWorks`, `AllSent`, `ReadersServed`,
`CloseReturns`, `TimedPendReturns`, `DelayEnds`, the fairness of
`ImplementsSearch`); of `Kernel`, `UnitsConserved`, whose sum over the tasks is a fold
and would need an induction over data, `ActsAsChannel`, and the properties for
applications that are not `Lasting`, `Signalling` or `Guarding`, as the theorem has
it: a task that is moved to another priority by a service, deleted by another or waits for several events does not keep the parts of
`Holding` above as they stand.

## Not modelled

- Kernel: calls that only report (Query, NameGet, NameSet, `OSTaskStkChk`,
  `OSTimeGet`, `OSTimeSet`), the statistics task and the assembler of the context
  switch. `os_tmr.c` is compiled out (`OS_TMR_EN` is 0).
- HAL: start-up, caches, formatted output and list searches run once or keep no
  state; the remaining system calls return -ENOSYS; no device uses DMA. The two
  ioctl requests of the JTAG UART that only report, and a second reader, are left
  out.
- Lab 5's picture: fonts, images and the drawing routines write pixels nobody
  reads back; a third of the C code of the repository is such tables. The melody
  and beep routines of `drivers.c` are called by nothing.
- Circuits: the earlier stages of the RC4 circuit are instantiated by nothing; the
  tone organ is a divider as in `SampleClock`, the running light a shift; keyboard
  and PS/2 readers, screens and debouncers are templates of the course, and
  `Ipod` and `SongTasks` take decoded keys at any moment; the clock crossings of
  the modulator depend on the ratios of the board's clocks.
- Memory controllers, the Qsys system, the PicoBlaze core and header files of the
  board support package are vendored, generated or absent; where modelled code
  uses them they appear as the external part of a module.

The map names about 4900 lines. Most of the other lines of the repository are of
the kinds above, vendored kernel and HAL text that is commentary, configuration or
not compiled among them, and modelling them would add no behaviour.
