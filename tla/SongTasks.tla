------------------------------ MODULE SongTasks ------------------------------
(***************************************************************************)
(* The two tasks of hello_ucosii.c and the registers of drivers.c they     *)
(* write: task1 sends the song to the sample FIFO, piece by piece; task2   *)
(* looks at the mouse and obeys the button under it.  The kernel gives the *)
(* processor to task1 whenever it is not asleep.  The FIFO and the clock   *)
(* that empties it are not in the repository's sources.                    *)
(***************************************************************************)
EXTENDS Integers, Sequences

CONSTANTS Size,        \* size_song
          Piece,       \* NUMERO_DE_MUESTRAS
          Depth,       \* words the FIFO holds
          Clock,       \* the clock the audio divider divides
          Step,        \* FREQ_READER_INCREMENT
          Nominal,     \* FREQ_READER_NOMINAL
          TicksPerSec, \* OS_TICKS_PER_SEC
          Buttons      \* what may be under the mouse: a kind and a number

ASSUME SongAssumption ==
  /\ Piece \in Nat \ {0} /\ Depth \in Nat \ {0} /\ Step \in Nat \ {0}
  /\ Size \in Nat \ {0} /\ Size % Piece = 0   \* 1320000 samples in pieces of 1000
  /\ Clock \in Nat /\ TicksPerSec \in Nat \ {0}
  /\ Nominal \in Nat /\ Nominal >= Step

Song == {"play", "pause", "stop"}
Max == 2 * Nominal                                        \* FREQ_READER_MAX

VARIABLES
  flag, freq,                  \* play_song, pause_song, stop_song; freq_reader
  pc1, dly1, addr, base, i, w, \* task1: address_counter, the piece, the sample, the register write
  pc2, dly2, over2, todo,      \* task2: the button seen, the writes left
  space,                       \* static space of mouse_pos
  wrreq, wrclk, data, fregen, modulation, signal,   \* registers
  fifo,                        \* words in the FIFO
  last, sent,                  \* history: the last sample that went in; the samples
                               \* sent since address_counter was last reset
  lit,                         \* the button drawn as chosen, of each kind
  over, key                    \* the mouse and the space key

task1 == <<pc1, dly1, addr, base, i, w, wrreq, wrclk, data, last, sent>>
task2 == <<pc2, dly2, over2, todo, space, flag, freq, modulation, signal, lit>>
svars == <<task1, task2, fregen, fifo, over, key>>

TicksFault(ms) == (TicksPerSec * ms) \div 100000   \* fault: milliseconds for seconds

\* OSTimeDlyHMSM for a number of milliseconds, and set_audio_frequency_audio_controller.
Ticks(ms) == (TicksPerSec * (ms + (500 \div TicksPerSec))) \div 1000
Divider(f) == (Clock \div (2 * f)) - 1

Init ==
  /\ flag = [s \in Song |-> 0] /\ freq = Nominal
  /\ pc1 = "begin" /\ dly1 = 0 /\ addr = 0 /\ base = 0 /\ i = 0 /\ w = 1
  /\ pc2 = "pos" /\ dly2 = 0 /\ over2 = [does |-> "none", n |-> 0] /\ todo = <<>>
  /\ space = 0
  /\ wrreq = 0 /\ wrclk = 0 /\ data = 0 /\ fregen = 0 /\ modulation = 0 /\ signal = 3
  /\ fifo = 0 /\ last = Size - 1 /\ sent = 0
  /\ lit = [modulation |-> 0, signal |-> 3, song |-> "none"]
  /\ over \in Buttons /\ key = 0
-----------------------------------------------------------------------------
Begin ==
  /\ pc1 = "begin"
  /\ fregen' = Divider(freq) /\ pc1' = "turn"
  /\ UNCHANGED <<dly1, addr, base, i, w, wrreq, wrclk, data, last, sent, task2, fifo, over, key>>

TurnRewinds ==   \* fault: a pause is taken for a stop
  /\ pc1 = "turn"
  /\ IF flag["play"] = 1
     THEN base' = addr % Size /\ i' = 0 /\ pc1' = "full" /\ UNCHANGED <<addr, sent>>
     ELSE /\ pc1' = "sleep" /\ UNCHANGED <<base, i>>
          /\ addr' = 0 /\ sent' = 0
  /\ UNCHANGED <<dly1, w, wrreq, wrclk, data, last, task2, fregen, fifo, over, key>>

\* The turn of task1 up to its next call.
Turn ==
  /\ pc1 = "turn"
  /\ IF flag["play"] = 1
     THEN base' = addr % Size /\ i' = 0 /\ pc1' = "full" /\ UNCHANGED <<addr, sent>>
     ELSE /\ pc1' = "sleep" /\ UNCHANGED <<base, i>>
          /\ IF flag["pause"] # 1 /\ flag["stop"] = 1
             THEN addr' = 0 /\ sent' = 0
             ELSE UNCHANGED <<addr, sent>>
  /\ UNCHANGED <<dly1, w, wrreq, wrclk, data, last, task2, fregen, fifo, over, key>>

\* send_audio_fifo waits for room without giving the processor away.
AwaitRoom ==
  /\ pc1 = "full" /\ i < Piece
  /\ fifo < Depth
  /\ pc1' = "write" /\ w' = 1
  /\ UNCHANGED <<dly1, addr, base, i, wrreq, wrclk, data, last, sent, task2, fregen, fifo, over, key>>

Sample == base + (i % Size)

\* audio_dac_wr_fifo, register by register.
Writes ==
  <<<<"wrreq", 0>>, <<"wrclk", 0>>, <<"data", 0>>, <<"data", 1>>,
    <<"wrreq", 1>>, <<"wrclk", 0>>, <<"wrclk", 1>>, <<"wrclk", 0>>,
    <<"wrreq", 0>>, <<"wrclk", 0>>, <<"data", 0>>>>

\* The FIFO takes the word when its write clock rises with the request up.
Rises == wrclk = 0 /\ wrclk' = 1 /\ wrreq = 1

audio_dac_wr_fifo ==
  LET reg == Writes[w][1]
      v   == Writes[w][2]
  IN  /\ pc1 = "write"
      /\ wrreq' = IF reg = "wrreq" THEN v ELSE wrreq
      /\ wrclk' = IF reg = "wrclk" THEN v ELSE wrclk
      /\ data'  = IF reg = "data" THEN v * (Sample + 1) ELSE data
      /\ IF Rises
         THEN fifo' = fifo + 1 /\ last' = data - 1 /\ sent' = sent + 1
         ELSE UNCHANGED <<fifo, last, sent>>
      /\ IF w < Len(Writes)
         THEN w' = w + 1 /\ UNCHANGED <<pc1, i>>
         ELSE i' = i + 1 /\ pc1' = "full" /\ UNCHANGED w
  /\ UNCHANGED <<dly1, addr, base, task2, fregen, over, key>>

PieceSentAgain ==   \* fault: the address is not moved on
  /\ pc1 = "full" /\ i = Piece
  /\ pc1' = "sleep"
  /\ UNCHANGED <<addr, sent, dly1, base, i, w, wrreq, wrclk, data, last, task2, fregen, fifo, over, key>>

\* At the end of the song the piece sent is the first one, and the address comes
\* back to zero only after it.
PieceSent ==
  /\ pc1 = "full" /\ i = Piece
  /\ IF addr < Size
     THEN addr' = addr + Piece /\ UNCHANGED sent
     ELSE addr' = 0 /\ sent' = 0
  /\ pc1' = "sleep"
  /\ UNCHANGED <<dly1, base, i, w, wrreq, wrclk, data, last, task2, fregen, fifo, over, key>>

\* OSTimeDly(0) returns at once.
Sleep1 ==
  /\ pc1 = "sleep"
  /\ dly1' = Ticks(10) /\ pc1' = IF Ticks(10) = 0 THEN "turn" ELSE "asleep"
  /\ UNCHANGED <<addr, base, i, w, wrreq, wrclk, data, last, sent, task2, fregen, fifo, over, key>>

Task1 == Begin \/ Turn \/ AwaitRoom \/ audio_dac_wr_fifo \/ PieceSent \/ Sleep1
-----------------------------------------------------------------------------
\* task2 has the processor only while task1 sleeps.
Runs2(at) == pc1 = "asleep" /\ pc2 = at

\* mouse_pos reads the position first and the keyboard after it.
ReadPos ==
  /\ Runs2("pos")
  /\ over2' = over /\ pc2' = "key"
  /\ UNCHANGED <<task1, dly2, todo, space, flag, freq, modulation, signal, lit, fregen, fifo, over, key>>

Event(down) == IF down = 1 THEN 1 ELSE IF space = 1 THEN 2 ELSE 0

ReadKey ==
  /\ Runs2("key")
  /\ space' = key
  /\ pc2' = IF Event(key) = 1 THEN "draw" ELSE "sleep"
  /\ UNCHANGED <<task1, dly2, over2, todo, flag, freq, modulation, signal, lit, fregen, fifo, over, key>>

FlagWritesFault(b) ==   \* fault: play leaves pause set
  CASE b = "play"  -> <<<<"play", 1>>, <<"stop", 0>>>>
    [] b = "stop"  -> <<<<"play", 0>>, <<"pause", 0>>, <<"stop", 1>>>>
    [] b = "pause" -> <<<<"play", 0>>, <<"pause", 1>>, <<"stop", 0>>>>

FlagWrites(b) ==
  CASE b = "play"  -> <<<<"play", 1>>, <<"pause", 0>>, <<"stop", 0>>>>
    [] b = "stop"  -> <<<<"play", 0>>, <<"pause", 0>>, <<"stop", 1>>>>
    [] b = "pause" -> <<<<"play", 0>>, <<"pause", 1>>, <<"stop", 0>>>>

\* The buttons are drawn before what they stand for is done.  The buttons of the
\* song and of the frequency are drawn together, one of them as chosen.
Draw ==
  /\ Runs2("draw")
  /\ lit' = CASE over2.does \in {"modulation", "signal"} -> [lit EXCEPT ![over2.does] = over2.n]
              [] over2.does \in Song \cup {"back", "ford"} -> [lit EXCEPT !.song = over2.does]
              [] OTHER -> lit
  /\ todo' = IF over2.does \in Song THEN FlagWrites(over2.does) ELSE <<>>
  /\ pc2' = "act"
  /\ UNCHANGED <<task1, dly2, over2, space, flag, freq, modulation, signal, fregen, fifo, over, key>>

SetFlag ==
  /\ Runs2("act") /\ over2.does \in Song
  /\ flag' = [flag EXCEPT ![Head(todo)[1]] = Head(todo)[2]]
  /\ todo' = Tail(todo)
  /\ pc2' = IF Len(todo) = 1 THEN "sleep" ELSE "act"
  /\ UNCHANGED <<task1, dly2, over2, space, freq, modulation, signal, lit, fregen, fifo, over, key>>

select_modulation ==
  /\ Runs2("act") /\ over2.does = "modulation"
  /\ modulation' = over2.n /\ pc2' = "sleep"
  /\ UNCHANGED <<task1, dly2, over2, todo, space, flag, freq, signal, lit, fregen, fifo, over, key>>

select_signal ==
  /\ Runs2("act") /\ over2.does = "signal"
  /\ signal' = over2.n /\ pc2' = "sleep"
  /\ UNCHANGED <<task1, dly2, over2, todo, space, flag, freq, modulation, lit, fregen, fifo, over, key>>

BoundedFault(f) == IF f > Max THEN Max ELSE f   \* fault: no bound below

Bounded(f) == IF f < Step THEN Step ELSE IF f > Max THEN Max ELSE f

ChangeFreq ==
  /\ Runs2("act") /\ over2.does \in {"back", "ford"}
  /\ freq' = Bounded(IF over2.does = "back" THEN freq - Step ELSE freq + Step)
  /\ pc2' = "setfreq"
  /\ UNCHANGED <<task1, dly2, over2, todo, space, flag, modulation, signal, lit, fregen, fifo, over, key>>

SetFreq ==
  /\ Runs2("setfreq")
  /\ fregen' = Divider(freq) /\ pc2' = "sleep"
  /\ UNCHANGED <<task1, dly2, over2, todo, space, flag, freq, modulation, signal, lit, fifo, over, key>>

NoButton ==
  /\ Runs2("act") /\ over2.does = "none"
  /\ pc2' = "sleep"
  /\ UNCHANGED <<task1, dly2, over2, todo, space, flag, freq, modulation, signal, lit, fregen, fifo, over, key>>

Sleep2 ==
  /\ Runs2("sleep")
  /\ dly2' = Ticks(100) /\ pc2' = IF Ticks(100) = 0 THEN "pos" ELSE "asleep"
  /\ UNCHANGED <<task1, over2, todo, space, flag, freq, modulation, signal, lit, fregen, fifo, over, key>>

Task2 == \/ ReadPos \/ ReadKey \/ Draw \/ SetFlag \/ select_modulation \/ select_signal
         \/ ChangeFreq \/ SetFreq \/ NoButton \/ Sleep2
-----------------------------------------------------------------------------
\* The kernel's tick, for these two tasks.
Tick ==
  /\ dly1' = IF dly1 > 0 THEN dly1 - 1 ELSE 0
  /\ dly2' = IF dly2 > 0 THEN dly2 - 1 ELSE 0
  /\ pc1' = IF pc1 = "asleep" /\ dly1 <= 1 THEN "turn" ELSE pc1
  /\ pc2' = IF pc2 = "asleep" /\ dly2 <= 1 THEN "pos" ELSE pc2
  /\ UNCHANGED <<addr, base, i, w, wrreq, wrclk, data, last, sent, over2, todo, space,
                 flag, freq, modulation, signal, lit, fregen, fifo, over, key>>

\* The audio clock takes a word.
Drain == fifo > 0 /\ fifo' = fifo - 1 /\ UNCHANGED <<task1, task2, fregen, over, key>>

\* The user moves the mouse or the space key.
User == /\ \/ over' \in Buttons /\ UNCHANGED key
           \/ key' = 1 - key /\ UNCHANGED over
        /\ UNCHANGED <<task1, task2, fregen, fifo>>

\* The processor does far more between two ticks than a turn of task2 takes: it
\* is given its chances again and again, and takes them in the end.
Next == Task1 \/ Task2 \/ Tick \/ Drain \/ User

Fairness == WF_svars(Task1) /\ SF_svars(Task2) /\ WF_svars(Tick) /\ WF_svars(Drain)

Spec == Init /\ [][Next]_svars /\ Fairness
-----------------------------------------------------------------------------
\* Whatever pauses, stops and other buttons come in between, the samples go in one
\* by one in the order of the song, from its first sample on whenever it begins
\* anew, and over its end into its first piece (hello_ucosii.c:141, 162).
InOrder == [][Rises => last' = sent % Size]_svars

\* The song begins anew when it has been sent to its end and its first piece once
\* more, or when stop alone is chosen: the other flags as task2 is writing them
\* do not bring the address back (hello_ucosii.c:160-173).
WholeSong ==
  [][addr # 0 /\ addr' = 0 =>
       sent = Size + Piece \/ flag = [s \in Song |-> IF s = "stop" THEN 1 ELSE 0]]_svars

\* The frequency stays in its range, so that the division is always defined,
\* and the audio divider is that of the frequency, but for the moment of change.
FreqFollows == /\ freq \in Step .. Max
               /\ pc1 # "begin" /\ pc2 # "setfreq" => fregen = Divider(freq)

\* The button drawn as chosen is the one that was; of the song's flags the one
\* drawn is set, and no other.
LitTruthful ==
  pc2 # "act" =>
    /\ lit.modulation = modulation /\ lit.signal = signal
    /\ lit.song \in Song => flag = [s \in Song |-> IF s = lit.song THEN 1 ELSE 0]

\* What the panel shows and what the hardware was told agree, wherever task1
\* interrupts the writing of one after the other (hello_ucosii.c:190-331).
PanelTruthful == FreqFollows /\ LitTruthful

\* Whoever holds the space key on the stop button stops the song, although
\* task1 never gives the processor away while it waits for the FIFO.
StopWorks ==
  \A b \in Buttons : b.does = "stop" =>
    (<>[](key = 1 /\ over = b) => <>[](flag["play"] = 0 /\ flag["stop"] = 1 /\ addr = 0))
=============================================================================
