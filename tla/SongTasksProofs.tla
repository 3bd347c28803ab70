-------------------------- MODULE SongTasksProofs --------------------------
(***************************************************************************)
(* Theorems about SongTasks, for every length of the song, every piece     *)
(* that divides it, every depth of the FIFO and every panel of buttons.    *)
(***************************************************************************)
EXTENDS SongTasks, TLAPS

(* Where task1 is in the song: the samples of the piece that have gone in, *)
(* and the sample the piece starts at.                                     *)
Sent == IF pc1 = "full" THEN i
        ELSE IF pc1 = "write" THEN (IF w > 7 THEN i + 1 ELSE i)
        ELSE 0
Start == IF addr = Size THEN 0 ELSE addr

(* The write clock rises at the seventh register write only, and finds the *)
(* request up and the sample on the data register.                         *)
WriteInv ==
  pc1 = "write" =>
    /\ w \in 5 .. 7 => data = Sample + 1
    /\ w \in 6 .. 7 => wrreq = 1
    /\ w = 7 => wrclk = 0

SongInv ==
  /\ pc1 \in {"begin", "turn", "full", "write", "sleep", "asleep"}
  /\ addr \in 0 .. Size /\ \E k \in Nat : addr = k * Piece
  /\ w \in 1 .. 11
  /\ pc1 \in {"full", "write"} => base = Start /\ i \in 0 .. Piece
  /\ pc1 = "write" => i < Piece
  /\ WriteInv
  /\ sent = addr + Sent

(* The panel while a button that was drawn is being obeyed; of the flags of *)
(* the song those in todo are still to be written.                         *)
Flags(b) == [s \in Song |-> IF s = b THEN 1 ELSE 0]

PanelInv ==
  /\ FreqFollows
  /\ pc1 = "begin" => pc2 = "pos"
  /\ DOMAIN lit = {"modulation", "signal", "song"}
  /\ lit.modulation = IF pc2 = "act" /\ over2.does = "modulation" THEN over2.n ELSE modulation
  /\ lit.signal = IF pc2 = "act" /\ over2.does = "signal" THEN over2.n ELSE signal

FlagsInv ==
  /\ flag \in [Song -> {0, 1}]
  /\ IF pc2 = "act" /\ over2.does \in Song
     THEN /\ lit.song = over2.does
          /\ todo \in Seq(Song \X {0, 1}) /\ Len(todo) >= 1
          /\ \A n \in 1 .. Len(todo) : todo[n][2] = Flags(lit.song)[todo[n][1]]
          /\ \A s \in Song : flag[s] = Flags(lit.song)[s] \/ \E n \in 1 .. Len(todo) : todo[n][1] = s
     ELSE lit.song \in Song => flag = Flags(lit.song)
-----------------------------------------------------------------------------
(* The pieces divide the song: a piece that starts inside it ends inside it. *)
LEMMA PieceFits ==
  ASSUME NEW a \in Nat, a < Size, \E k \in Nat : a = k * Piece
  PROVE  a + Piece <= Size
<1>1. PICK n \in Nat : Size = n * Piece
  <2>1. Size = Piece * (Size \div Piece) + (Size % Piece) /\ Size \div Piece \in Nat
    BY SongAssumption
  <2>2. Size = (Size \div Piece) * Piece
    BY <2>1, SongAssumption
  <2> QED
    BY <2>1, <2>2
<1>2. PICK k \in Nat : a = k * Piece
  OBVIOUS
<1>3. k < n
  <2> SUFFICES ASSUME k >= n PROVE FALSE
    BY <1>1, <1>2
  <2>1. PICK d \in Nat : k = n + d
    <3>1. k - n \in Nat /\ k = n + (k - n)
      BY <1>1, <1>2
    <3> QED
      BY <3>1
  <2>2. k * Piece = n * Piece + d * Piece /\ d * Piece \in Nat
    BY <2>1, SongAssumption
  <2> QED
    BY <2>2, <1>1, <1>2, SongAssumption
<1>4. PICK d \in Nat : n = k + 1 + d
  <2>1. n - (k + 1) \in Nat /\ n = k + 1 + (n - (k + 1))
    BY <1>1, <1>2, <1>3
  <2> QED
    BY <2>1
<1>5. n * Piece = k * Piece + Piece + d * Piece /\ d * Piece \in Nat
  BY <1>4, SongAssumption
<1> QED
  BY <1>1, <1>2, <1>5, SongAssumption

LEMMA Remainder ==
  ASSUME NEW n \in Nat, n < Size
  PROVE  n % Size = n
  BY SongAssumption

LEMMA Around ==
  ASSUME NEW n \in Nat, n < Size
  PROVE  (Size + n) % Size = n
  BY SongAssumption

LEMMA PieceInSong == Piece \in 1 .. Size
<1>1. 0 = 0 * Piece
  BY SongAssumption
<1> QED
  BY <1>1, PieceFits, SongAssumption
-----------------------------------------------------------------------------
LEMMA SongStarts == Init => SongInv
<1> SUFFICES ASSUME Init PROVE SongInv
  OBVIOUS
<1>1. 0 = 0 * Piece
  BY SongAssumption
<1>2. addr = 0 /\ Start = 0 /\ Sent = 0
  BY SongAssumption DEF Init, Start, Sent
<1> QED
  BY <1>1, <1>2, SongAssumption DEF Init, SongInv, WriteInv

(* What a step that leaves the registers and the count of samples alone    *)
(* leaves of SongInv.                                                      *)
LEMMA SongKept ==
  ASSUME SongInv,
         UNCHANGED <<addr, base, i, w, wrreq, wrclk, data, sent>>,
         \/ pc1' = pc1
         \/ pc1 \notin {"full", "write"} /\ pc1' \in {"turn", "sleep", "asleep"}
  PROVE  SongInv'
<1>1. Sent' = Sent /\ Start' = Start /\ Sample' = Sample
  BY DEF Sent, Start, Sample
<1> QED
  BY <1>1 DEF SongInv, WriteInv

LEMMA TurnKeeps == SongInv /\ Turn => SongInv' 
<1> SUFFICES ASSUME SongInv, Turn PROVE SongInv'
  OBVIOUS
<1>1. CASE flag["play"] = 1
  <2>1. base' = Start /\ i' = 0 /\ pc1' = "full" /\ addr' = addr
    BY <1>1, SongAssumption, Remainder DEF Turn, Start, SongInv
  <2>2. Sent = 0 /\ Sent' = 0 /\ Start' = Start
    BY <2>1 DEF Turn, Sent, Start
  <2> QED
    BY <1>1, <2>1, <2>2, SongAssumption DEF Turn, SongInv, WriteInv
<1>2. CASE flag["play"] # 1 /\ flag["pause"] # 1 /\ flag["stop"] = 1
  <2>1. addr' = 0 /\ sent' = 0 /\ pc1' = "sleep" /\ w' = w
    BY <1>2 DEF Turn
  <2>2. Start' = 0 /\ Sent' = 0
    BY <2>1, SongAssumption DEF Start, Sent
  <2>3. 0 = 0 * Piece
    BY SongAssumption
  <2> QED
    BY <2>1, <2>2, <2>3, SongAssumption DEF SongInv, WriteInv
<1>3. CASE flag["play"] # 1 /\ ~ (flag["pause"] # 1 /\ flag["stop"] = 1)
  BY <1>3, SongKept DEF Turn
<1> QED
  BY <1>1, <1>2, <1>3

LEMMA AwaitRoomKeeps == SongInv /\ AwaitRoom => SongInv'
<1> SUFFICES ASSUME SongInv, AwaitRoom PROVE SongInv'
  OBVIOUS
<1>1. Sent' = Sent /\ Start' = Start
  BY DEF AwaitRoom, Sent, Start
<1> QED
  BY <1>1 DEF AwaitRoom, SongInv, WriteInv

LEMMA PieceSentKeeps == SongInv /\ PieceSent => SongInv'
<1> SUFFICES ASSUME SongInv, PieceSent PROVE SongInv'
  OBVIOUS
<1>1. CASE addr < Size
  <2>1. addr' = addr + Piece /\ pc1' = "sleep" /\ i = Piece /\ pc1 = "full"
    BY <1>1 DEF PieceSent
  <2>2. addr' \in 0 .. Size
    <3>1. addr \in Nat /\ \E k \in Nat : addr = k * Piece
      BY SongAssumption DEF SongInv
    <3>2. addr + Piece <= Size
      BY <1>1, <3>1, PieceFits
    <3> QED
      BY <2>1, <3>1, <3>2, SongAssumption
  <2>3. \E k \in Nat : addr' = k * Piece
    <3>1. PICK k \in Nat : addr = k * Piece
      BY DEF SongInv
    <3>2. addr' = (k + 1) * Piece
      BY <2>1, <3>1, SongAssumption
    <3> QED
      BY <3>2
  <2>4. Sent = Piece /\ Sent' = 0 /\ sent' = sent /\ w' = w
    BY <1>1, <2>1 DEF Sent, PieceSent
  <2>5. sent' = addr' + Sent'
    BY <2>1, <2>2, <2>4, SongAssumption DEF SongInv
  <2> QED
    BY <2>1, <2>2, <2>3, <2>4, <2>5 DEF SongInv, WriteInv
<1>2. CASE addr = Size
  <2>1. addr' = 0 /\ sent' = 0 /\ pc1' = "sleep" /\ w' = w
    BY <1>2, SongAssumption DEF PieceSent
  <2>2. Start' = 0 /\ Sent' = 0
    BY <2>1, SongAssumption DEF Start, Sent
  <2>3. 0 = 0 * Piece
    BY SongAssumption
  <2> QED
    BY <2>1, <2>2, <2>3, SongAssumption DEF SongInv, WriteInv
<1> QED
  BY <1>1, <1>2, SongAssumption DEF SongInv

(* What one register write of audio_dac_wr_fifo does to the registers: the  *)
(* seventh raises the write clock, over a request that is up and data that  *)
(* is the sample's.                                                        *)
LEMMA RegisterWrite ==
  ASSUME SongInv, audio_dac_wr_fifo
  PROVE  /\ Rises <=> w = 7
         /\ w = 7 => data = Sample + 1
         /\ WriteInv'
         /\ UNCHANGED <<base, addr>>
         /\ w < 11 => w' = w + 1 /\ UNCHANGED <<pc1, i>>
         /\ w = 11 => w' = w /\ pc1' = "full" /\ i' = i + 1
<1>1. Len(Writes) = 11
  BY DEF Writes
<1>2. /\ pc1 = "write" /\ w \in 1 .. 11 /\ UNCHANGED <<base, addr>>
      /\ w < 11 => w' = w + 1 /\ UNCHANGED <<pc1, i>>
      /\ w = 11 => w' = w /\ pc1' = "full" /\ i' = i + 1
  BY <1>1 DEF audio_dac_wr_fifo, SongInv
<1>3. /\ wrreq' = IF Writes[w][1] = "wrreq" THEN Writes[w][2] ELSE wrreq
      /\ wrclk' = IF Writes[w][1] = "wrclk" THEN Writes[w][2] ELSE wrclk
      /\ data'  = IF Writes[w][1] = "data" THEN Writes[w][2] * (Sample + 1) ELSE data
  BY DEF audio_dac_wr_fifo
<1>4. w < 11 => Sample' = Sample
  BY <1>2 DEF Sample
<1>5. Sample \in Int
  BY <1>2, PieceInSong, SongAssumption DEF Sample, SongInv, Start
<1>6. w = 7 => data = Sample + 1 /\ wrreq = 1 /\ wrclk = 0
  BY <1>2 DEF SongInv, WriteInv
<1> HIDE DEF Sample
<1>7. CASE w \in {1, 2, 3, 8, 9, 10}
  BY SMTT(30), <1>2, <1>3, <1>4, <1>7 DEF Writes, Rises, WriteInv, SongInv
<1>8. CASE w \in {4, 5, 6}
  <2>1. w = 4 => data' = Sample + 1
    BY <1>3, <1>5 DEF Writes
  <2>2. w \in {5, 6} => data = Sample + 1 /\ data' = data
    BY SMTT(30), <1>2, <1>3 DEF Writes, SongInv, WriteInv
  <2>3. (w = 6 => wrreq = 1) /\ ~ Rises /\ (w = 6 => wrclk' = 0)
        /\ (w \in {5, 6} => wrreq' = 1)
    BY SMTT(30), <1>2, <1>3, <1>8 DEF Writes, SongInv, WriteInv, Rises
  <2> QED
    BY <1>2, <1>4, <1>8, <2>1, <2>2, <2>3 DEF WriteInv
<1>9. CASE w = 7
  BY <1>2, <1>3, <1>6, <1>9 DEF Writes, Rises, WriteInv
<1>10. CASE w = 11
  BY <1>2, <1>3, <1>10 DEF Writes, Rises, WriteInv
<1> QED
  BY <1>2, <1>6, <1>7, <1>8, <1>9, <1>10

(* The sample that is sent is the next of the song.                        *)
LEMMA SampleIsNext ==
  ASSUME SongInv, pc1 = "write"
  PROVE  /\ Sample = Start + i /\ Sample \in 0 .. Size - 1
         /\ addr < Size => addr + i < Size
<1>1. i \in 0 .. Piece - 1 /\ base = Start
  BY SongAssumption DEF SongInv
<1>2. i % Size = i
  BY <1>1, PieceInSong, Remainder, SongAssumption
<1>3. Start \in Nat /\ Start < Size /\ \E k \in Nat : Start = k * Piece
  <2>1. 0 = 0 * Piece
    BY SongAssumption
  <2>2. CASE addr = Size
    BY <2>1, <2>2, SongAssumption DEF Start
  <2>3. CASE addr # Size
    <3>1. PICK k \in Nat : addr = k * Piece
      BY DEF SongInv
    <3>2. addr \in 0 .. Size
      BY DEF SongInv
    <3> QED
      BY <2>3, <3>1, <3>2, SongAssumption DEF Start
  <2> QED
    BY <2>2, <2>3
<1>4. Start + Piece <= Size
  BY <1>3, PieceFits
<1> QED
  BY <1>1, <1>2, <1>3, <1>4, SongAssumption DEF Sample, Start, SongInv

LEMMA WriteKeeps == SongInv /\ audio_dac_wr_fifo => SongInv'
<1> SUFFICES ASSUME SongInv, audio_dac_wr_fifo PROVE SongInv'
  OBVIOUS
<1>1. pc1 = "write" /\ w \in 1 .. 11 /\ i \in 0 .. Piece - 1 /\ base = Start
  BY SongAssumption DEF audio_dac_wr_fifo, SongInv
<1>2. Start' = Start /\ addr' = addr /\ base' = base
  BY RegisterWrite DEF Start
<1>3. CASE w = 7
  <2>1. w' = 8 /\ pc1' = "write" /\ i' = i /\ sent' = sent + 1
    BY <1>1, <1>3, RegisterWrite DEF audio_dac_wr_fifo
  <2>2. Sent = i /\ Sent' = i + 1
    BY <1>1, <1>3, <2>1 DEF Sent
  <2>3. sent' = addr' + Sent'
    BY <1>1, <1>2, <2>1, <2>2, SongAssumption DEF SongInv
  <2> QED
    BY <1>1, <1>2, <2>1, <2>3, RegisterWrite, SongAssumption DEF SongInv
<1>4. CASE w # 7
  <2>1. sent' = sent
    BY <1>4, RegisterWrite DEF audio_dac_wr_fifo
  <2>2. Sent' = Sent
    BY <1>1, <1>4, RegisterWrite, SongAssumption DEF Sent
  <2>3. /\ pc1' \in {"full", "write"} /\ i' \in 0 .. Piece /\ w' \in 1 .. 11
        /\ pc1' = "write" => i' < Piece
    BY <1>1, RegisterWrite, SongAssumption
  <2> QED
    BY <1>1, <1>2, <2>1, <2>2, <2>3, RegisterWrite DEF SongInv
<1> QED
  BY <1>3, <1>4

LEMMA SongNext == SongInv /\ [Next]_svars => SongInv'
<1> SUFFICES ASSUME SongInv, [Next]_svars PROVE SongInv'
  OBVIOUS
<1>1. CASE Task1
  <2>1. CASE Begin
    BY <2>1, SongKept DEF Begin
  <2>2. CASE Sleep1
    BY <2>2, SongKept DEF Sleep1
  <2> QED
    BY <1>1, <2>1, <2>2, TurnKeeps, AwaitRoomKeeps, WriteKeeps, PieceSentKeeps DEF Task1
<1>2. CASE Task2 \/ User \/ Drain \/ UNCHANGED svars
  <2>1. UNCHANGED <<pc1, addr, base, i, w, wrreq, wrclk, data, sent>>
    BY <1>2 DEF Task2, ReadPos, ReadKey, Draw, SetFlag, select_modulation, select_signal,
       ChangeFreq, SetFreq, NoButton, Sleep2, User, Drain, svars, task1
  <2> QED
    BY <2>1, SongKept
<1>3. CASE Tick
  BY <1>3, SongKept DEF Tick
<1> QED
  BY <1>1, <1>2, <1>3 DEF Next

(* The samples go in one by one in the order of the song, from its start    *)
(* and over its end into its first piece, whatever pauses, stops and changes *)
(* of frequency come in between.                                            *)
THEOREM SamplesInOrder == Spec => InOrder
<1>1. SongInv /\ [Next]_svars => [Rises => last' = sent % Size]_svars
  <2> SUFFICES ASSUME SongInv, [Next]_svars, Rises
               PROVE  last' = sent % Size
    OBVIOUS
  <2>1. audio_dac_wr_fifo
    BY DEF Rises, Next, Task1, Begin, Turn, AwaitRoom, PieceSent, Sleep1, Task2, ReadPos,
       ReadKey, Draw, SetFlag, select_modulation, select_signal, ChangeFreq, SetFreq,
       NoButton, Sleep2, Tick, Drain, User, svars, task1
  <2>2. pc1 = "write" /\ w = 7 /\ Sent = i
    <3>1. pc1 = "write" /\ w = 7
      BY <2>1, RegisterWrite DEF audio_dac_wr_fifo
    <3> QED
      BY <3>1 DEF Sent
  <2>3. Sample = Start + i /\ Sample \in 0 .. Size - 1
    BY <2>2, SampleIsNext
  <2>4. last' = Sample
    <3>1. data - 1 = Sample
      BY <2>1, <2>2, <2>3, RegisterWrite, SongAssumption
    <3> QED
      BY <2>1, <3>1, <2>2, RegisterWrite DEF audio_dac_wr_fifo
  <2>5. sent = Sample \/ sent = Size + Sample
    BY <2>2, <2>3, SongAssumption DEF SongInv, Start
  <2>6. Sample \in Nat /\ Sample < Size
    BY <2>3, SongAssumption
  <2>7. Sample % Size = Sample /\ (Size + Sample) % Size = Sample
    BY ONLY <2>6, Remainder, Around
  <2> QED
    BY <2>4, <2>5, <2>7
<1> QED
  BY SongStarts, SongNext, <1>1, PTL DEF Spec, InOrder
-----------------------------------------------------------------------------
LEMMA PanelStarts == Init => PanelInv /\ FlagsInv
  BY SongAssumption DEF Init, PanelInv, FlagsInv, FreqFollows, Max, Song

LEMMA FreqBounded ==
  ASSUME NEW f \in Int
  PROVE  Bounded(f) \in Step .. Max
  BY SongAssumption DEF Bounded, Max

LEMMA PanelNext == PanelInv /\ [Next]_svars => PanelInv'
<1> SUFFICES ASSUME PanelInv, [Next]_svars PROVE PanelInv'
  OBVIOUS
<1>1. CASE Begin
  BY <1>1 DEF Begin, task2, PanelInv, FreqFollows, Divider
<1>2. CASE Turn \/ AwaitRoom \/ audio_dac_wr_fifo \/ PieceSent \/ Sleep1
  <2>1. pc1 # "begin" /\ pc1' # "begin" /\ UNCHANGED <<task2, fregen>>
    BY <1>2 DEF Turn, AwaitRoom, audio_dac_wr_fifo, PieceSent, Sleep1
  <2> QED
    BY <2>1 DEF task2, PanelInv, FreqFollows, Divider
<1>3. CASE Tick \/ Drain \/ User \/ UNCHANGED svars
  <2>1. /\ UNCHANGED <<over2, freq, modulation, signal, lit, fregen>>
        /\ pc1' = "begin" => pc1 = "begin"
        /\ pc1 = "begin" => pc1' = "begin"
        /\ pc2' = pc2 \/ (pc2 = "asleep" /\ pc2' = "pos")
    BY <1>3 DEF Tick, Drain, User, svars, task1, task2
  <2> QED
    BY <2>1 DEF PanelInv, FreqFollows, Divider
<1>4. CASE ReadPos \/ ReadKey \/ Sleep2 \/ SetFlag \/ NoButton
  BY <1>4 DEF ReadPos, ReadKey, Sleep2, SetFlag, NoButton, Runs2, task1, PanelInv,
     FreqFollows, Divider, Song
<1>5. CASE Draw
  <2>1. lit' = CASE over2.does \in {"modulation", "signal"} -> [lit EXCEPT ![over2.does] = over2.n]
                [] over2.does \in Song \cup {"back", "ford"} -> [lit EXCEPT !.song = over2.does]
                [] OTHER -> lit
    BY <1>5 DEF Draw
  <2>2. DOMAIN lit = {"modulation", "signal", "song"}
    BY DEF PanelInv
  <2>3. /\ DOMAIN lit' = {"modulation", "signal", "song"}
        /\ lit'.modulation = IF over2.does = "modulation" THEN over2.n ELSE lit.modulation
        /\ lit'.signal = IF over2.does = "signal" THEN over2.n ELSE lit.signal
    BY <2>1, <2>2 DEF Song
  <2> QED
    BY <1>5, <2>3 DEF Draw, Runs2, task1, PanelInv, FreqFollows, Divider
<1>6. CASE select_modulation
  BY <1>6 DEF select_modulation, Runs2, task1, PanelInv, FreqFollows, Divider
<1>7. CASE select_signal
  BY <1>7 DEF select_signal, Runs2, task1, PanelInv, FreqFollows, Divider
<1>8. CASE ChangeFreq
  <2>1. freq' \in Step .. Max
    BY <1>8, FreqBounded, SongAssumption DEF ChangeFreq, PanelInv, FreqFollows, Max
  <2> QED
    BY <1>8, <2>1 DEF ChangeFreq, Runs2, task1, PanelInv, FreqFollows
<1>9. CASE SetFreq
  BY <1>9 DEF SetFreq, Runs2, task1, PanelInv, FreqFollows, Divider
<1> QED
  BY <1>1, <1>2, <1>3, <1>4, <1>5, <1>6, <1>7, <1>8, <1>9 DEF Next, Task1, Task2

(* What is to be written for a button of the song.                         *)
LEMMA ThreeWrites ==
  ASSUME NEW b \in Song
  PROVE  /\ FlagWrites(b) \in Seq(Song \X {0, 1}) /\ Len(FlagWrites(b)) = 3
         /\ \A n \in 1 .. 3 : FlagWrites(b)[n][2] = Flags(b)[FlagWrites(b)[n][1]]
         /\ \A s \in Song : \E n \in 1 .. 3 : FlagWrites(b)[n][1] = s
<1>1. CASE b = "play"
  BY <1>1 DEF FlagWrites, Flags, Song
<1>2. CASE b = "stop"
  BY <1>2 DEF FlagWrites, Flags, Song
<1>3. CASE b = "pause"
  BY <1>3 DEF FlagWrites, Flags, Song
<1> QED
  BY <1>1, <1>2, <1>3 DEF Song

LEMMA FlagWritten == PanelInv /\ FlagsInv /\ SetFlag => FlagsInv'
<1> SUFFICES ASSUME PanelInv, FlagsInv, SetFlag PROVE FlagsInv'
  OBVIOUS
<1>1. /\ pc2 = "act" /\ over2.does \in Song /\ UNCHANGED <<over2, lit>>
      /\ flag' = [flag EXCEPT ![Head(todo)[1]] = Head(todo)[2]] /\ todo' = Tail(todo)
      /\ pc2' = IF Len(todo) = 1 THEN "sleep" ELSE "act"
  BY DEF SetFlag, Runs2
<1>2. /\ flag \in [Song -> {0, 1}] /\ lit.song = over2.does
      /\ todo \in Seq(Song \X {0, 1}) /\ Len(todo) >= 1
      /\ \A n \in 1 .. Len(todo) : todo[n][2] = Flags(lit.song)[todo[n][1]]
      /\ \A s \in Song : flag[s] = Flags(lit.song)[s] \/ \E n \in 1 .. Len(todo) : todo[n][1] = s
  BY <1>1 DEF FlagsInv
<1>3. Head(todo) = todo[1] /\ todo[1] \in Song \X {0, 1} /\ 1 \in 1 .. Len(todo) /\ Len(todo) \in Nat
  BY <1>2
<1>4. /\ Tail(todo) \in Seq(Song \X {0, 1}) /\ Len(Tail(todo)) = Len(todo) - 1
      /\ \A n \in 1 .. Len(todo) - 1 : Tail(todo)[n] = todo[n + 1]
  BY <1>2, <1>3
<1>5. flag' \in [Song -> {0, 1}]
  BY <1>1, <1>2, <1>3
<1>6. \A s \in Song : flag'[s] = IF s = todo[1][1] THEN Flags(lit.song)[s] ELSE flag[s]
  BY <1>1, <1>2, <1>3
<1>7. \A s \in Song : \/ flag'[s] = Flags(lit.song)[s]
                      \/ \E n \in 1 .. Len(todo) - 1 : Tail(todo)[n][1] = s
  <2> SUFFICES ASSUME NEW s \in Song, flag'[s] # Flags(lit.song)[s]
               PROVE  \E n \in 1 .. Len(todo) - 1 : Tail(todo)[n][1] = s
    OBVIOUS
  <2>1. s # todo[1][1] /\ flag[s] # Flags(lit.song)[s]
    BY <1>6
  <2>2. PICK n \in 1 .. Len(todo) : todo[n][1] = s
    BY <1>2, <2>1
  <2>3. n - 1 \in 1 .. Len(todo) - 1 /\ (n - 1) + 1 = n
    BY <1>3, <2>1, <2>2
  <2>4. Tail(todo)[n - 1] = todo[n]
    BY <1>4, <2>3
  <2> QED
    BY <2>2, <2>3, <2>4
<1>8. \A n \in 1 .. Len(todo) - 1 : Tail(todo)[n][2] = Flags(lit.song)[Tail(todo)[n][1]]
  BY <1>2, <1>3, <1>4
<1>9. CASE Len(todo) = 1
  <2>1. flag' = Flags(lit.song)
    <3>1. \A s \in Song : flag'[s] = Flags(lit.song)[s]
      BY <1>7, <1>9
    <3> QED
      BY <1>5, <3>1 DEF Flags
  <2> QED
    BY <1>1, <1>5, <1>9, <2>1 DEF FlagsInv
<1>10. CASE Len(todo) # 1
  BY <1>1, <1>2, <1>3, <1>4, <1>5, <1>7, <1>8, <1>10 DEF FlagsInv
<1> QED
  BY <1>9, <1>10

LEMMA FlagsNext == PanelInv /\ FlagsInv /\ [Next]_svars => FlagsInv'
<1> SUFFICES ASSUME PanelInv, FlagsInv, [Next]_svars PROVE FlagsInv'
  OBVIOUS
<1>1. CASE Task1 \/ Drain \/ User \/ UNCHANGED svars
  <2>1. UNCHANGED <<pc2, over2, todo, flag, lit>>
    BY <1>1 DEF Task1, Begin, Turn, AwaitRoom, audio_dac_wr_fifo, PieceSent, Sleep1, Drain,
       User, svars, task2
  <2> QED
    BY <2>1 DEF FlagsInv
<1>2. CASE Tick \/ ReadPos \/ ReadKey \/ Sleep2
  <2>1. \/ pc2 # "act" /\ pc2' # "act" /\ UNCHANGED <<flag, lit>>
        \/ UNCHANGED <<pc2, over2, todo, flag, lit>>
    BY <1>2 DEF Tick, ReadPos, ReadKey, Sleep2, Runs2
  <2> QED
    BY <2>1 DEF FlagsInv
<1>3. CASE select_modulation \/ select_signal \/ NoButton \/ ChangeFreq \/ SetFreq
  <2>1. (pc2 = "act" => over2.does \notin Song) /\ pc2' # "act" /\ UNCHANGED <<flag, lit>>
    BY <1>3 DEF select_modulation, select_signal, NoButton, ChangeFreq, SetFreq, Runs2, Song
  <2> QED
    BY <2>1 DEF FlagsInv
<1>4. CASE Draw
  <2>1. /\ pc2 = "draw" /\ pc2' = "act" /\ UNCHANGED <<over2, flag>>
        /\ lit' = CASE over2.does \in {"modulation", "signal"} -> [lit EXCEPT ![over2.does] = over2.n]
                    [] over2.does \in Song \cup {"back", "ford"} -> [lit EXCEPT !.song = over2.does]
                    [] OTHER -> lit
        /\ todo' = IF over2.does \in Song THEN FlagWrites(over2.does) ELSE <<>>
    BY <1>4 DEF Draw, Runs2
  <2>2. DOMAIN lit = {"modulation", "signal", "song"}
    BY DEF PanelInv
  <2>3. CASE over2.does \in Song
    <3>1. lit'.song = over2.does
      BY <2>1, <2>2, <2>3 DEF Song
    <3>2. todo' = FlagWrites(over2.does)
      BY <2>1, <2>3
    <3>3. /\ todo' \in Seq(Song \X {0, 1}) /\ Len(todo') = 3
          /\ \A n \in 1 .. 3 : todo'[n][2] = Flags(lit'.song)[todo'[n][1]]
          /\ \A s \in Song : \E n \in 1 .. 3 : todo'[n][1] = s
      BY ONLY <2>3, <3>1, <3>2, ThreeWrites
    <3>4. pc2' = "act" /\ over2'.does \in Song /\ lit'.song = over2'.does /\ flag' \in [Song -> {0, 1}]
      BY <2>1, <2>3, <3>1 DEF FlagsInv
    <3> QED
      BY <3>3, <3>4 DEF FlagsInv
  <2>4. CASE over2.does \notin Song
    <3>1. lit'.song = lit.song \/ lit'.song \in {"back", "ford"}
      BY <2>1, <2>2, <2>4
    <3> QED
      BY <2>1, <2>4, <3>1 DEF FlagsInv, Song
  <2> QED
    BY <2>3, <2>4
<1>5. CASE SetFlag
  BY <1>5, FlagWritten
<1> QED
  BY <1>1, <1>2, <1>3, <1>4, <1>5 DEF Next, Task2

(* The frequency is in its range, the divider and the drawn buttons are    *)
(* those of the registers, and the song's flags those of the button drawn, *)
(* wherever task1 comes in between.                                        *)
THEOREM PanelHolds == Spec => []PanelTruthful
<1>1. PanelInv /\ FlagsInv => PanelTruthful
  BY DEF PanelInv, FlagsInv, PanelTruthful, LitTruthful, Flags
<1> QED
  BY PanelStarts, PanelNext, FlagsNext, <1>1, PTL DEF Spec

(* Only stop, chosen alone, cuts the song short: otherwise the address comes *)
(* back to zero when the whole song and its first piece have been sent.      *)
THEOREM SongIsWhole == Spec => WholeSong
<1>1. SongInv /\ FlagsInv /\ [Next]_svars =>
        [addr # 0 /\ addr' = 0 =>
           sent = Size + Piece \/ flag = [s \in Song |-> IF s = "stop" THEN 1 ELSE 0]]_svars
  <2> SUFFICES ASSUME SongInv, FlagsInv, [Next]_svars, addr # 0, addr' = 0
               PROVE  sent = Size + Piece \/ flag = [s \in Song |-> IF s = "stop" THEN 1 ELSE 0]
    OBVIOUS
  <2>1. PieceSent \/ Turn
    BY DEF Next, Task1, Begin, AwaitRoom, audio_dac_wr_fifo, Sleep1, Task2, ReadPos,
       ReadKey, Draw, SetFlag, select_modulation, select_signal, ChangeFreq, SetFreq,
       NoButton, Sleep2, Tick, Drain, User, svars, task1
  <2>2. CASE PieceSent
    <3>1. addr = Size /\ Sent = Piece
      BY <2>2, SongAssumption DEF PieceSent, SongInv, Sent
    <3> QED
      BY <3>1 DEF SongInv
  <2>3. CASE Turn
    <3>1. flag["play"] # 1 /\ flag["pause"] # 1 /\ flag["stop"] = 1
      BY <2>3 DEF Turn
    <3>2. flag \in [Song -> {0, 1}]
      BY DEF FlagsInv
    <3> QED
      BY <3>1, <3>2 DEF Song
  <2> QED
    BY <2>1, <2>2, <2>3
<1> QED
  BY SongStarts, SongNext, PanelStarts, PanelNext, FlagsNext, <1>1, PTL DEF Spec, WholeSong
=============================================================================
