------------------------------- MODULE JtagUart -------------------------------
(***************************************************************************)
(* The JTAG UART driver: two circular buffers between the tasks that read  *)
(* and write and the interrupt routine that moves characters from and to   *)
(* the device, event flags the tasks pend on, and the alarm that tells     *)
(* whether the host is there.  The interrupt comes between any two steps   *)
(* of a task; the host goes on while the interrupt routine runs.           *)
(* uC/OS-II is running, the driver is the fast one and FIFO full errors    *)
(* are not ignored, as the board support package is configured.            *)
(***************************************************************************)
EXTENDS Integers, Sequences, FiniteSets

CONSTANTS Reader, Writer, \* the tasks that call read and write
          Char,           \* the characters
          BufLen,         \* ALTERA_AVALON_JTAG_UART_BUF_LEN
          RxDepth, TxDepth, TxThreshold,   \* the FIFOs of the device
          MaxCount,       \* bound on the count and space of a call
          Timeouts,       \* the timeouts TIOCSTIMEOUT may set, the default first;
                          \* beyond MaxInactive stands for INT_MAX - 1
          MaxInactive,    \* bound on host_inactive, INT_MAX - 2
          Host,           \* whether the host must go on taking what is sent
          None

ASSUME JtagAssumption == /\ BufLen \in Nat \ {0, 1} /\ MaxCount \in Nat \ {0} /\ Char # {}
                         /\ Reader \cap Writer = {} /\ None \notin Reader \cup Writer
                         /\ TxDepth \in Nat /\ TxThreshold \in 0 .. TxDepth - 1

Task == Reader \cup Writer
Index == 0 .. BufLen - 1
READ_RDY == "read"
WRITE_RDY == "write"
TIMEOUT == "timeout"

VARIABLES
  rx_in, rx_out, rx_buf, tx_in, tx_out, tx_buf,   \* the circular buffers
  irq_enable,                  \* RE and WE, as the driver and the device hold them
  events,                      \* the flag group
  host_inactive, timeout,
  read_lock, write_lock,       \* who holds the semaphore
  task,                        \* what each task is doing
  isr,                         \* what the interrupt routine is doing
  rxhw, txhw, ac,              \* the device: its FIFOs and the activity bit
  given, sent                  \* history: what was last read by a task, and sent to the host

rxsoft == <<rx_in, rx_out, rx_buf>>
txsoft == <<tx_in, tx_out, tx_buf>>
hw == <<rxhw, txhw, ac>>
locks == <<read_lock, write_lock>>
inactivity == <<host_inactive, timeout>>
jvars == <<rxsoft, txsoft, irq_enable, events, inactivity, locks, task, isr, hw, given, sent>>

Calm == [at |-> "app", in |-> 0, out |-> 0, left |-> <<>>, n |-> 0, done |-> 0, block |-> TRUE, rdy |-> {}]
IsrIdle == [at |-> "idle", wi |-> FALSE, ravail |-> FALSE, space |-> 0]

\* altera_avalon_jtag_uart_init.
Init ==
  /\ rx_in = 0 /\ rx_out = 0 /\ rx_buf \in [Index -> {CHOOSE c \in Char : TRUE}]
  /\ tx_in = 0 /\ tx_out = 0 /\ tx_buf = rx_buf
  /\ irq_enable = {"RE"} /\ events = {} /\ host_inactive = 0 /\ timeout = Head(Timeouts)
  /\ read_lock = None /\ write_lock = None
  /\ task = [t \in Task |-> Calm] /\ isr = IsrIdle
  /\ rxhw = <<>> /\ txhw = <<>> /\ ac = FALSE
  /\ given = <<>> /\ sent = <<>>
-----------------------------------------------------------------------------
\* OSFlagPost readies the tasks that wait for the flag.
WaitsFor(t) == IF t \in Reader THEN {READ_RDY, TIMEOUT} ELSE {WRITE_RDY, TIMEOUT}
PostFault(flag) == events' = events \cup {flag} /\ UNCHANGED task   \* fault: nobody is woken

Post(flag) ==
  /\ events' = events \cup {flag}
  /\ task' = [t \in Task |->
               IF task[t].at = "pending" /\ task[t].rdy = {} /\ flag \in WaitsFor(t)
               THEN [task[t] EXCEPT !.rdy = events' \cap WaitsFor(t)] ELSE task[t]]

\* Tasks stop while the interrupt routine runs.
At(t, at) == task[t].at = at /\ isr.at = "idle"
Goto(t, at) == task' = [task EXCEPT ![t].at = at]

\* OSFlagPend for any of the task's flags, which it consumes.
Pend(t, after) ==
  \/ /\ At(t, "pend") /\ events \cap WaitsFor(t) # {}
     /\ events' = events \ WaitsFor(t)
     /\ Goto(t, after)
  \/ /\ At(t, "pend") /\ events \cap WaitsFor(t) = {}
     /\ task' = [task EXCEPT ![t].at = "pending", ![t].rdy = {}]
     /\ UNCHANGED events
  \/ /\ At(t, "pending") /\ task[t].rdy # {}
     /\ events' = events \ task[t].rdy
     /\ Goto(t, after)
-----------------------------------------------------------------------------
\* altera_avalon_jtag_uart_read.
ReadCall(t) ==
  /\ At(t, "app") /\ read_lock = None
  /\ read_lock' = t
  /\ \E space \in 1 .. MaxCount, b \in BOOLEAN :
       task' = [task EXCEPT ![t] = [Calm EXCEPT !.at = "look", !.n = space, !.block = b]]
  /\ UNCHANGED <<rxsoft, txsoft, irq_enable, events, inactivity, write_lock, isr, hw, given, sent>>

ReadLook(t) ==
  /\ At(t, "look")
  /\ task' = [task EXCEPT ![t].at = "copy", ![t].in = rx_in, ![t].out = rx_out]
  /\ UNCHANGED <<rxsoft, txsoft, irq_enable, events, inactivity, locks, isr, hw, given, sent>>

\* What lies in one piece from out on, and no more than the caller has room for.
Least(a, b) == IF a < b THEN a ELSE b
Ready(in, out) == IF in >= out THEN in - out ELSE BufLen - out

ReadCopy(t) ==
  LET k == task[t]
      n == Least(Ready(k.in, k.out), k.n)
  IN  /\ At(t, "copy")
      /\ IF n > 0
         THEN task' = [task EXCEPT ![t].at = "copied",
                                   ![t].left = [i \in 1 .. n |-> rx_buf[k.out + i - 1]]]
         ELSE Goto(t, IF k.done > 0 \/ ~k.block THEN "unlock" ELSE "pend")
      /\ UNCHANGED <<rxsoft, txsoft, irq_enable, events, inactivity, locks, isr, hw, given, sent>>

ReadTakenFault(t) ==   \* fault: everything that has come by now is taken as read
  LET k == task[t]
      n == Len(k.left)
  IN  /\ At(t, "copied")
      /\ rx_out' = rx_in
      /\ given' = k.left
      /\ task' = [task EXCEPT ![t].at = IF k.n > n THEN "look" ELSE "unlock",
                              ![t].n = @ - n, ![t].done = 1, ![t].left = <<>>,
                              ![t].in = 0, ![t].out = 0]
      /\ UNCHANGED <<rx_in, rx_buf, txsoft, irq_enable, events, inactivity, locks, isr, hw, sent>>

ReadTaken(t) ==
  LET k == task[t]
      n == Len(k.left)
  IN  /\ At(t, "copied")
      /\ rx_out' = (k.out + n) % BufLen
      /\ given' = k.left
      /\ task' = [task EXCEPT ![t].at = IF k.n > n THEN "look" ELSE "unlock",
                              ![t].n = @ - n, ![t].done = 1, ![t].left = <<>>,
                              ![t].in = 0, ![t].out = 0]
      /\ UNCHANGED <<rx_in, rx_buf, txsoft, irq_enable, events, inactivity, locks, isr, hw, sent>>

ReadPend(t) ==
  /\ Pend(t, "again")
  /\ UNCHANGED <<rxsoft, txsoft, irq_enable, inactivity, locks, isr, hw, given, sent>>

ReadAgain(t) ==
  /\ At(t, "again")
  /\ Goto(t, IF task[t].in = rx_in THEN "unlock" ELSE "look")
  /\ UNCHANGED <<rxsoft, txsoft, irq_enable, events, inactivity, locks, isr, hw, given, sent>>

ReadUnlock(t) ==
  /\ At(t, "unlock")
  /\ read_lock' = None
  /\ task' = [task EXCEPT ![t] = IF @.done > 0 THEN [Calm EXCEPT !.at = "enable"] ELSE Calm]
  /\ UNCHANGED <<rxsoft, txsoft, irq_enable, events, inactivity, write_lock, isr, hw, given, sent>>

ReadEnable(t) ==
  /\ At(t, "enable")
  /\ irq_enable' = irq_enable \cup {"RE"}
  /\ task' = [task EXCEPT ![t] = Calm]
  /\ UNCHANGED <<rxsoft, txsoft, events, inactivity, locks, isr, hw, given, sent>>

altera_avalon_jtag_uart_read(t) ==
  \/ ReadCall(t) \/ ReadLook(t) \/ ReadCopy(t) \/ ReadTaken(t)
  \/ ReadPend(t) \/ ReadAgain(t) \/ ReadUnlock(t) \/ ReadEnable(t)
-----------------------------------------------------------------------------
\* altera_avalon_jtag_uart_write.
WriteCall(t) ==
  /\ At(t, "app") /\ write_lock = None
  /\ write_lock' = t
  /\ \E n \in 1 .. MaxCount, b \in BOOLEAN : \E s \in [1 .. n -> Char] :
       task' = [task EXCEPT ![t] = [Calm EXCEPT !.at = "look", !.left = s, !.block = b]]
  /\ UNCHANGED <<rxsoft, txsoft, irq_enable, events, inactivity, read_lock, isr, hw, given, sent>>

RoomFault(in, out) == IF in < out THEN out - in ELSE BufLen - in   \* fault: no place stays empty

\* The space in one piece: the place before out stays empty.
Room(in, out) ==
  IF in < out THEN out - 1 - in ELSE IF out > 0 THEN BufLen - in ELSE BufLen - 1 - in

WriteLook(t) ==
  /\ At(t, "look")
  /\ LET room == Room(tx_in, tx_out)
     IN  task' = [task EXCEPT ![t].at = IF room = 0 THEN "kick" ELSE "copy",
                              ![t].in = tx_in,
                              ![t].n = Least(room, Len(task[t].left))]
  /\ UNCHANGED <<rxsoft, txsoft, irq_enable, events, inactivity, locks, isr, hw, given, sent>>

WriteCopy(t) ==
  LET k == task[t]
  IN  /\ At(t, "copy")
      /\ tx_buf' = [i \in Index |-> IF i \in k.in .. k.in + k.n - 1
                                    THEN k.left[i - k.in + 1] ELSE tx_buf[i]]
      /\ Goto(t, "copied")
      /\ UNCHANGED <<rxsoft, tx_in, tx_out, irq_enable, events, inactivity, locks, isr, hw, given, sent>>

WritePut(t) ==
  LET k == task[t]
      rest == SubSeq(k.left, k.n + 1, Len(k.left))
  IN  /\ At(t, "copied")
      /\ tx_in' = (k.in + k.n) % BufLen
      /\ task' = [task EXCEPT ![t].at = IF rest = <<>> THEN "kick" ELSE "look",
                              ![t].left = rest, ![t].n = 0, ![t].in = 0, ![t].done = 1]
      /\ UNCHANGED <<rxsoft, tx_out, tx_buf, irq_enable, events, inactivity, locks, isr, hw, given, sent>>

WriteKickFault(t) ==   \* fault: only a writer that has to wait turns the interrupt on
  /\ At(t, "kick")
  /\ irq_enable' = IF task[t].left # <<>> /\ task[t].block THEN irq_enable \cup {"WE"} ELSE irq_enable
  /\ Goto(t, IF task[t].left # <<>> /\ task[t].block THEN "pend" ELSE "unlock")
  /\ UNCHANGED <<rxsoft, txsoft, events, inactivity, locks, isr, hw, given, sent>>

WriteKick(t) ==
  /\ At(t, "kick")
  /\ irq_enable' = irq_enable \cup {"WE"}
  /\ Goto(t, IF task[t].left # <<>> /\ task[t].block THEN "pend" ELSE "unlock")
  /\ UNCHANGED <<rxsoft, txsoft, events, inactivity, locks, isr, hw, given, sent>>

WritePend(t) ==
  /\ Pend(t, "again")
  /\ UNCHANGED <<rxsoft, txsoft, irq_enable, inactivity, locks, isr, hw, given, sent>>

WriteAgain(t) ==
  /\ At(t, "again")
  /\ Goto(t, IF host_inactive > 0 THEN "unlock" ELSE "look")
  /\ UNCHANGED <<rxsoft, txsoft, irq_enable, events, inactivity, locks, isr, hw, given, sent>>

WriteUnlock(t) ==
  /\ At(t, "unlock")
  /\ write_lock' = None
  /\ task' = [task EXCEPT ![t] = Calm]
  /\ UNCHANGED <<rxsoft, txsoft, irq_enable, events, inactivity, read_lock, isr, hw, given, sent>>

altera_avalon_jtag_uart_write(t) ==
  \/ WriteCall(t) \/ WriteLook(t) \/ WriteCopy(t) \/ WritePut(t)
  \/ WriteKick(t) \/ WritePend(t) \/ WriteAgain(t) \/ WriteUnlock(t)

\* altera_avalon_jtag_uart_close turns round until all is handed over, or nobody
\* is there; with O_NONBLOCK it looks once and changes nothing.
CloseCall(t) ==
  /\ At(t, "app") /\ Goto(t, "close")
  /\ UNCHANGED <<rxsoft, txsoft, irq_enable, events, inactivity, locks, isr, hw, given, sent>>

CloseEndsFault(t) ==   \* fault: a host that is not there is looked for, the buffer is not
  /\ At(t, "close") /\ host_inactive >= timeout
  /\ task' = [task EXCEPT ![t] = Calm]
  /\ UNCHANGED <<rxsoft, txsoft, irq_enable, events, inactivity, locks, isr, hw, given, sent>>

CloseEnds(t) ==
  /\ At(t, "close") /\ (tx_out = tx_in \/ host_inactive >= timeout)
  /\ task' = [task EXCEPT ![t] = Calm]
  /\ UNCHANGED <<rxsoft, txsoft, irq_enable, events, inactivity, locks, isr, hw, given, sent>>

altera_avalon_jtag_uart_close(t) == CloseCall(t) \/ CloseEnds(t)

\* TIOCSTIMEOUT.
altera_avalon_jtag_uart_ioctl ==
  /\ isr.at = "idle"
  /\ \E i \in 1 .. Len(Timeouts) : timeout' = Timeouts[i]
  /\ UNCHANGED <<rxsoft, txsoft, irq_enable, events, host_inactive, locks, task, isr, hw, given, sent>>
-----------------------------------------------------------------------------
\* The interrupt routine reads the control register, deals with a read and
\* with a write, and starts again until neither is asked for.
RI == "RE" \in irq_enable /\ rxhw # <<>>
WI == "WE" \in irq_enable /\ Len(txhw) <= TxThreshold

Interrupt ==
  /\ isr.at = "idle" /\ (RI \/ WI)
  /\ isr' = [isr EXCEPT !.at = "control"]
  /\ UNCHANGED <<rxsoft, txsoft, irq_enable, events, inactivity, locks, task, hw, given, sent>>

IsrControl ==
  /\ isr.at = "control"
  /\ isr' = IF RI \/ WI
            THEN [at |-> IF RI THEN "rx" ELSE "tx", wi |-> WI, ravail |-> TRUE,
                  space |-> TxDepth - Len(txhw)]
            ELSE IsrIdle
  /\ UNCHANGED <<rxsoft, txsoft, irq_enable, events, inactivity, locks, task, hw, given, sent>>

RxFull == (rx_in + 1) % BufLen = rx_out

IsrRead ==
  /\ isr.at = "rx" /\ ~RxFull /\ rxhw # <<>>
  /\ rx_buf' = [rx_buf EXCEPT ![rx_in] = Head(rxhw)]
  /\ rx_in' = (rx_in + 1) % BufLen
  /\ rxhw' = Tail(rxhw)
  /\ isr' = [isr EXCEPT !.ravail = Tail(rxhw) # <<>>]
  /\ Post(READ_RDY)
  /\ UNCHANGED <<rx_out, txsoft, irq_enable, inactivity, locks, txhw, ac, given, sent>>

\* The buffer is full, or the device has no character left.
IsrReadEnds ==
  /\ isr.at = "rx" /\ (RxFull \/ rxhw = <<>>)
  /\ irq_enable' = IF RxFull /\ isr.ravail THEN irq_enable \ {"RE"} ELSE irq_enable
  /\ isr' = [isr EXCEPT !.at = IF isr.wi THEN "tx" ELSE "control"]
  /\ UNCHANGED <<rxsoft, txsoft, events, inactivity, locks, task, hw, given, sent>>

IsrWrite ==
  /\ isr.at = "tx" /\ isr.space > 0 /\ tx_out # tx_in
  /\ txhw' = IF Len(txhw) < TxDepth THEN Append(txhw, tx_buf[tx_out]) ELSE txhw
  /\ tx_out' = (tx_out + 1) % BufLen
  /\ isr' = [isr EXCEPT !.space = @ - 1]
  /\ Post(WRITE_RDY)
  /\ UNCHANGED <<rxsoft, tx_in, tx_buf, irq_enable, inactivity, locks, rxhw, ac, given, sent>>

IsrWriteEnds ==
  /\ isr.at = "tx" /\ (isr.space = 0 \/ tx_out = tx_in)
  /\ irq_enable' = IF isr.space > 0 THEN irq_enable \ {"WE"} ELSE irq_enable
  /\ isr' = [isr EXCEPT !.at = "control"]
  /\ UNCHANGED <<rxsoft, txsoft, events, inactivity, locks, task, hw, given, sent>>

altera_avalon_jtag_uart_irq ==
  Interrupt \/ IsrControl \/ IsrRead \/ IsrReadEnds \/ IsrWrite \/ IsrWriteEnds

\* The alarm, every second, at interrupt level.
altera_avalon_jtag_uart_timeout ==
  /\ isr.at = "idle"
  /\ IF ac
     THEN ac' = FALSE /\ host_inactive' = 0 /\ UNCHANGED <<events, task>>
     ELSE /\ host_inactive' = IF host_inactive < MaxInactive THEN host_inactive + 1 ELSE host_inactive
          /\ UNCHANGED ac
          /\ IF host_inactive < MaxInactive /\ host_inactive' >= timeout
             THEN Post(TIMEOUT) ELSE UNCHANGED <<events, task>>
  /\ UNCHANGED <<rxsoft, txsoft, irq_enable, timeout, locks, isr, rxhw, txhw, given, sent>>
-----------------------------------------------------------------------------
\* The host sends, takes, or just shows that it is there.
HostSends ==
  /\ Len(rxhw) < RxDepth
  /\ \E c \in Char : rxhw' = Append(rxhw, c)
  /\ ac' = TRUE
  /\ UNCHANGED <<rxsoft, txsoft, irq_enable, events, inactivity, locks, task, isr, txhw, given, sent>>

HostTakes ==
  /\ txhw # <<>>
  /\ txhw' = Tail(txhw) /\ sent' = <<Head(txhw)>>
  /\ ac' = TRUE
  /\ UNCHANGED <<rxsoft, txsoft, irq_enable, events, inactivity, locks, task, isr, rxhw, given>>

Next ==
  \/ \E t \in Reader : altera_avalon_jtag_uart_read(t)
  \/ \E t \in Writer : altera_avalon_jtag_uart_write(t)
  \/ \E t \in Writer : altera_avalon_jtag_uart_close(t)
  \/ altera_avalon_jtag_uart_ioctl
  \/ altera_avalon_jtag_uart_irq \/ altera_avalon_jtag_uart_timeout
  \/ HostSends \/ HostTakes

\* The kernel runs every task in the end, the processor takes its interrupts,
\* and, where Host says so, the host takes what is sent to it.
Fairness == /\ \A t \in Reader : WF_jvars(altera_avalon_jtag_uart_read(t))
            /\ \A t \in Writer : WF_jvars(altera_avalon_jtag_uart_write(t)) /\ WF_jvars(CloseEnds(t))
            /\ WF_jvars(altera_avalon_jtag_uart_irq)
            /\ Host => WF_jvars(HostTakes)

Spec == Init /\ [][Next]_jvars /\ Fairness
-----------------------------------------------------------------------------
Held(buf, out, in) == [i \in 1 .. (in - out) % BufLen |-> buf[(out + i - 1) % BufLen]]

\* What the host sends is what tasks read, in that order: neither the full
\* buffer, nor an interrupt between the copying and the moving of rx_out, nor
\* the end of the buffer loses, doubles or changes a character.
Received == INSTANCE Stream WITH
  line <- Held(rx_buf, rx_out, rx_in) \o rxhw, out <- given, Most <- MaxCount
ReceivesInOrder == Received!StSpec

\* What tasks write is what the host gets.
Transmitted == INSTANCE Stream WITH
  line <- txhw \o Held(tx_buf, tx_out, tx_in), out <- sent, Most <- MaxCount
TransmitsInOrder == Transmitted!StSpec

\* The oldest character of the transmit buffer goes to the device in the end, as
\* long as the host takes what is sent: the transmit interrupt is never left off
\* with characters to send and nobody about to turn it on.
AllSent == \A i \in Index : (tx_out = i /\ tx_in # i) ~> (tx_out # i)
\* A reader does not sleep on with something to read.
ReadersServed ==
  \A t \in Reader : (task[t].at = "pending" /\ rx_in # rx_out) ~> (task[t].at # "pending")

\* A close comes back, unless others go on writing under it for ever.
CloseReturns ==
  \A t \in Writer : ~ <>[](task[t].at = "close" /\ \A u \in Writer \ {t} : task[u].at \in {"app", "close"})

=============================================================================
