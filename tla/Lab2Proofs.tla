----------------------------- MODULE Lab2Proofs -----------------------------
(***************************************************************************)
(* Theorems about the three parts of lab 2: the player (Ipod), for every   *)
(* length of the song, every set of flash latencies and every limit on     *)
(* waitrequest for which the flash has its time between two sample edges   *)
(* (FlashAssumption); the sample clock (SampleClock), for every divisor    *)
(* from 6 up; and the audio meter (AudioMeter), for every width of the     *)
(* registers and every length of the delay loops.                          *)
(***************************************************************************)
EXTENDS Ipod, SampleClock, AudioMeter, FiniteSetTheorems, TLAPS

-----------------------------------------------------------------------------
(* The player. *)

LEMMA TurnInit == Init => TurnInv
<1> SUFFICES ASSUME Init PROVE TurnInv
  OBVIOUS
<1>1. /\ coming = [i \in 1 .. Longest |-> NoWord] /\ readdata = NoWord /\ readdatavalid = FALSE
      /\ reader = "idle" /\ player = "idle" /\ since = Gap /\ waited = 0 /\ address = 0
      /\ waitrequest \in BOOLEAN /\ (Patience = 0 => ~ waitrequest)
  BY DEF Init, ReaderInit, PlayerInit
<1>2. Longest \in Nat \ {0} /\ Patience \in Nat /\ Gap \in Nat /\ 0 \in Addresses /\ NoWord \notin Addresses
  BY FlashAssumption, NoWordAssumption, FinishAssumption DEF Addresses
<1>3. FlashType
  <2>1. coming \in [1 .. Longest -> Addresses \cup {NoWord}] /\ coming[Longest] = NoWord
    BY ONLY <1>1, <1>2
  <2>2. since \in 0 .. Gap /\ waited \in 0 .. Patience /\ reader \in ReaderStates /\ player \in PlayerStates
    BY ONLY <1>1, <1>2 DEF ReaderStates, PlayerStates
  <2>3. waited = Patience => ~ waitrequest
    BY ONLY <1>1
  <2>4. readdatavalid \in BOOLEAN
    BY ONLY <1>1
  <2> QED
    BY ONLY <1>1, <1>2, <2>1, <2>2, <2>3, <2>4 DEF FlashType
<1>4. \A i \in 1 .. Longest : ~ Stale(i) /\ ~ Fresh(i)
  BY ONLY <1>1, <1>2 DEF Stale, Fresh
<1>5. AnswersInOrder /\ CatchesUp
  <2>1. reader = "idle" /\ readdata = NoWord
    BY ONLY <1>1
  <2> QED
    BY ONLY <1>4, <2>1 DEF AnswersInOrder, CatchesUp, Behind
<1> QED
  BY ONLY <1>1, <1>3, <1>5 DEF TurnInv

(* The flash at one edge: c are the answers under way with the read just   *)
(* taken, if one is, as the last of them.                                  *)
Took(c, l) ==
  /\ c \in [1 .. Longest -> Addresses \cup {NoWord}] /\ l \in 1 .. Longest
  /\ \/ ~ (flash_mem_read /\ ~ waitrequest) /\ c = coming
     \/ /\ flash_mem_read /\ ~ waitrequest /\ c[l] = address
        /\ \A i \in 1 .. Longest : i # l => c[i] = coming[i]
        /\ \A i \in l .. Longest : coming[i] = NoWord

LEMMA FlashTakes ==
  ASSUME FlashType, FlashStep
  PROVE  \E c, l : Took(c, l) /\ Deliver(c)
<1>0. /\ coming \in [1 .. Longest -> Addresses \cup {NoWord}] /\ address \in Addresses
      /\ Longest \in Nat \ {0} /\ Latencies \subseteq 1 .. Longest
  BY FlashAssumption DEF FlashType
<1>1. CASE AcceptRead
  <2>1. PICK l \in Latencies : /\ \A i \in l .. Longest : coming[i] = NoWord
                               /\ Deliver([coming EXCEPT ![l] = address])
    BY <1>1 DEF AcceptRead
  <2>2. PICK c : c = [coming EXCEPT ![l] = address]
    OBVIOUS
  <2>3. flash_mem_read /\ ~ waitrequest
    BY <1>1 DEF AcceptRead
  <2>4. Took(c, l)
    BY ONLY <1>0, <2>1, <2>2, <2>3 DEF Took
  <2> QED
    BY ONLY <2>1, <2>2, <2>4
<1>2. CASE NoRead
  <2>1. ~ (flash_mem_read /\ ~ waitrequest) /\ Deliver(coming)
    BY <1>2 DEF NoRead
  <2>2. Took(coming, 1)
    BY ONLY <1>0, <2>1 DEF Took
  <2> QED
    BY ONLY <2>1, <2>2
<1> QED
  BY <1>1, <1>2 DEF FlashStep

(* What the bus and the answers under way become.                          *)
LEMMA Delivered ==
  ASSUME NEW c, NEW l, Took(c, l), Deliver(c), FlashType
  PROVE  /\ coming' \in [1 .. Longest -> Addresses \cup {NoWord}] /\ coming'[Longest] = NoWord
         /\ \A i \in 1 .. Longest : coming'[i] # NoWord => i + 1 \in 1 .. Longest /\ coming'[i] = c[i + 1]
         /\ \A i \in 2 .. Longest : coming'[i - 1] = c[i]
         /\ readdatavalid' \in BOOLEAN /\ (readdatavalid' <=> c[1] # NoWord)
         /\ readdata' = IF c[1] # NoWord THEN c[1] ELSE readdata
<1>1. /\ coming' = [i \in 1 .. Longest |-> IF i < Longest THEN c[i + 1] ELSE NoWord]
      /\ readdatavalid' = (c[1] # NoWord)
      /\ readdata' = IF c[1] # NoWord THEN c[1] ELSE readdata
  BY DEF Deliver
<1>2. c \in [1 .. Longest -> Addresses \cup {NoWord}] /\ Longest \in Nat \ {0}
  BY FlashAssumption DEF Took
<1>3. /\ coming' \in [1 .. Longest -> Addresses \cup {NoWord}] /\ coming'[Longest] = NoWord
      /\ \A i \in 1 .. Longest : coming'[i] # NoWord => i + 1 \in 1 .. Longest /\ coming'[i] = c[i + 1]
  BY ONLY <1>1, <1>2
<1>4. ASSUME NEW i \in 2 .. Longest
      PROVE  coming'[i - 1] = c[i]
  <2>1. i - 1 \in 1 .. Longest /\ i - 1 < Longest /\ (i - 1) + 1 = i
    BY ONLY <1>2, <1>4
  <2> QED
    BY ONLY <1>1, <2>1
<1>5. readdatavalid' \in BOOLEAN /\ (readdatavalid' <=> c[1] # NoWord)
  BY ONLY <1>1
<1> QED
  BY ONLY <1>1, <1>3, <1>4, <1>5

(* The address moves only in the cycle in which the player is idle.        *)
LEMMA AddressKept ==
  ASSUME NEW forward, AddressStep(forward), reader # "get_read_address"
  PROVE  address' = address
  BY DEF AddressStep, get_address

LEMMA AddressMoves ==
  ASSUME NEW forward, AddressStep(forward), reader = "get_read_address", address \in Addresses
  PROVE  address' \in Addresses /\ address' # address /\ address' \in {Following(address), Preceding(address)}
<1>1. address' \in {Following(address), Preceding(address)}
  BY DEF AddressStep, get_address
<1>2. Finish \in Nat \ {0} /\ address \in 0 .. Finish
  BY FinishAssumption DEF Addresses
<1>3. address' \in 0 .. Finish /\ address' # address
  BY ONLY <1>1, <1>2 DEF Following, Preceding
<1> QED
  BY ONLY <1>1, <1>3 DEF Addresses

(* What the machines do at one edge.                                       *)
LEMMA MachinesMove ==
  ASSUME TurnInv, Tick
  PROVE  /\ reader \in {"idle", "get_read_address", "send_read_address"} => player = "idle" /\ player' = "idle"
         /\ reader = "idle" => reader' \in {"idle", "get_read_address"}
         /\ reader = "get_read_address" => reader' = "send_read_address"
         /\ reader = "send_read_address" => reader' = "finished"
         /\ reader = "finished" => reader' = IF player = "finished_sound" THEN "idle" ELSE "finished"
         /\ player' \in PlayerStates
         /\ player' = "wait1" => player = "wait1" \/ (player = "read" /\ readdatavalid)
         /\ player' = "audio1" => player = "wait1" /\ since = 0
         /\ player' = "wait2" => player \in {"wait2", "audio1"}
         /\ player' = "audio2" => player = "wait2" /\ since = 0
         /\ player' = "finished_sound" => player = "audio2"
         /\ player = "finished_sound" => player' = "idle"
         /\ buffer' = IF player = "wait1" THEN readdata ELSE buffer
         /\ since' \in 0 .. Gap /\ (since < Gap => since' = since + 1) /\ (since = Gap => since' \in {0, Gap})
         /\ waited' = IF flash_mem_read /\ waitrequest THEN waited + 1 ELSE 0
         /\ waitrequest' \in BOOLEAN /\ (waited' >= Patience => ~ waitrequest')
<1>1. /\ ReaderStep(startstop, direction, finish_sound)
      /\ PlayerStep(finish_read, readdatavalid, readdata, readNow, direction)
      /\ FlashStep /\ SampleStep
  BY DEF Tick
<1>2. /\ reader \in ReaderStates /\ player \in PlayerStates /\ since \in 0 .. Gap /\ waited \in 0 .. Patience
      /\ reader # "finished" => player = "idle"
      /\ Gap \in Nat /\ Patience \in Nat
  BY FlashAssumption DEF TurnInv, FlashType
<1>3. /\ Begin(finish_read) \/ AwaitData(readdatavalid) \/ AwaitEdge(readNow) \/ Play
      /\ buffer' = IF player = "wait1" THEN readdata ELSE buffer
  BY <1>1 DEF PlayerStep, BufferStep
<1>4. /\ reader = "idle" => reader' \in {"idle", "get_read_address"}
      /\ reader = "get_read_address" => reader' = "send_read_address"
      /\ reader = "send_read_address" => reader' = "finished"
      /\ reader = "finished" => reader' = IF player = "finished_sound" THEN "idle" ELSE "finished"
  BY ONLY <1>1 DEF ReaderStep, StartRead, GetAddress, SendAddress, AwaitSound, finish_sound
<1>5. reader \in {"idle", "get_read_address", "send_read_address"} => player = "idle" /\ player' = "idle"
  BY ONLY <1>2, <1>3 DEF Begin, AwaitData, AwaitEdge, Play, finish_read
<1>6. /\ player' \in PlayerStates
      /\ player' = "wait1" => player = "wait1" \/ (player = "read" /\ readdatavalid)
      /\ player' = "audio1" => player = "wait1" /\ since = 0
      /\ player' = "wait2" => player \in {"wait2", "audio1"}
      /\ player' = "audio2" => player = "wait2" /\ since = 0
      /\ player' = "finished_sound" => player = "audio2"
      /\ player = "finished_sound" => player' = "idle"
  BY ONLY <1>2, <1>3 DEF Begin, AwaitData, AwaitEdge, Play, readNow, PlayerStates
<1>7. since' \in 0 .. Gap /\ (since < Gap => since' = since + 1) /\ (since = Gap => since' \in {0, Gap})
  BY ONLY <1>1, <1>2 DEF SampleStep
<1>8. waited' = IF flash_mem_read /\ waitrequest THEN waited + 1 ELSE 0
  BY ONLY <1>1 DEF FlashStep, WaitStep
<1>9. waitrequest' \in BOOLEAN /\ (waited' >= Patience => ~ waitrequest')
  <2>1. waitrequest' \in IF waited' < Patience THEN BOOLEAN ELSE {FALSE}
    BY ONLY <1>1 DEF FlashStep, WaitStep
  <2>2. waited' \in Int
    BY ONLY <1>2, <1>8
  <2>3. waited' >= Patience <=> ~ (waited' < Patience)
    BY ONLY <1>2, <2>2
  <2> QED
    BY ONLY <2>1, <2>3
<1> QED
  BY ONLY <1>3, <1>4, <1>5, <1>6, <1>7, <1>8, <1>9

LEMMA TurnType ==
  ASSUME TurnInv, Tick
  PROVE  FlashType'
<1>0. FlashType /\ FlashStep /\ ReaderStep(startstop, direction, finish_sound)
  BY DEF TurnInv, Tick
<1>1. PICK c, l : Took(c, l) /\ Deliver(c)
  BY ONLY <1>0, FlashTakes
<1>2. /\ coming' \in [1 .. Longest -> Addresses \cup {NoWord}] /\ coming'[Longest] = NoWord
      /\ readdatavalid' \in BOOLEAN
  BY ONLY <1>0, <1>1, Delivered
<1>3. /\ reader \in ReaderStates /\ address \in Addresses /\ waited \in 0 .. Patience /\ Patience \in Nat
      /\ (waited = Patience => ~ waitrequest)
  BY ONLY <1>0, FlashAssumption DEF FlashType
<1>4. address' \in Addresses
  BY ONLY <1>0, <1>3, AddressKept, AddressMoves DEF ReaderStep
<1>5. reader' \in ReaderStates /\ player' \in PlayerStates /\ since' \in 0 .. Gap
  BY ONLY <1>3, TurnInv, Tick, MachinesMove DEF ReaderStates
<1>6. waited' \in 0 .. Patience /\ waitrequest' \in BOOLEAN /\ (waited' = Patience => ~ waitrequest')
  <2>1. /\ waited' = IF flash_mem_read /\ waitrequest THEN waited + 1 ELSE 0
        /\ waitrequest' \in BOOLEAN /\ (waited' >= Patience => ~ waitrequest')
    BY ONLY TurnInv, Tick, MachinesMove
  <2>2. waited' \in 0 .. Patience
    BY ONLY <1>3, <2>1
  <2>3. waited' = Patience => waited' >= Patience
    BY ONLY <1>3
  <2> QED
    BY ONLY <2>1, <2>2, <2>3
<1> QED
  BY ONLY <1>2, <1>4, <1>5, <1>6 DEF FlashType

LEMMA EdgeLater ==
  ASSUME NEW i \in Int, NEW old \in Int, NEW new \in Int, NEW b \in Int, i + 1 + old <= b, new <= old + 1
  PROVE  i + new <= b
OBVIOUS

(* The answers of the last word come before those of the next.             *)
LEMMA OrderKept ==
  ASSUME TurnInv, Tick
  PROVE  AnswersInOrder'
<1>0. /\ FlashType /\ FlashStep /\ AnswersInOrder /\ ReaderStep(startstop, direction, finish_sound)
      /\ player = "finished_sound" => since = 2 /\ readdata = address
  BY DEF TurnInv, Tick
<1>1. PICK c, l : Took(c, l) /\ Deliver(c)
  BY ONLY <1>0, FlashTakes
<1>2. /\ coming'[Longest] = NoWord
      /\ \A i \in 1 .. Longest : coming'[i] # NoWord => i + 1 \in 1 .. Longest /\ coming'[i] = c[i + 1]
      /\ readdata' = IF c[1] # NoWord THEN c[1] ELSE readdata
  BY ONLY <1>0, <1>1, Delivered
<1>3. /\ Longest \in Nat \ {0} /\ Gap \in Nat /\ Patience \in Nat /\ Gap >= 2 * Longest + Patience
      /\ since \in 0 .. Gap /\ reader \in ReaderStates /\ address \in Addresses /\ NoWord # address
  BY ONLY <1>0, FlashAssumption, NoWordAssumption DEF FlashType
<1>4. /\ reader = "idle" => reader' \in {"idle", "get_read_address"}
      /\ reader = "get_read_address" => reader' = "send_read_address"
      /\ reader = "send_read_address" => reader' = "finished"
      /\ reader = "finished" => reader' = IF player = "finished_sound" THEN "idle" ELSE "finished"
      /\ since' \in 0 .. Gap /\ (since < Gap => since' = since + 1) /\ (since = Gap => since' \in {0, Gap})
  BY ONLY TurnInv, Tick, MachinesMove
<1>5. since' \in Nat /\ since' <= since + 1
  BY ONLY <1>3, <1>4
<1>6. CASE reader \in {"idle", "get_read_address"}
  <2>1. c = coming
    BY ONLY <1>1, <1>6 DEF Took, flash_mem_read
  <2>2. /\ readdata \in {NoWord, address}
        /\ \A i \in 1 .. Longest : coming[i] \in {NoWord, address}
        /\ \A i \in 1 .. Longest : coming[i] = address => i + since <= Longest + 2
    BY ONLY <1>0, <1>6 DEF AnswersInOrder, Stale, Fresh
  <2>3. readdata' \in {NoWord, address} /\ \A i \in 1 .. Longest : coming'[i] \in {NoWord, address}
    BY ONLY <1>2, <1>3, <2>1, <2>2
  <2>4. ASSUME NEW i \in 1 .. Longest, coming'[i] = address
        PROVE  i + since' <= Longest + 2
    <3>1. i + 1 \in 1 .. Longest /\ coming[i + 1] = address
      BY ONLY <1>2, <1>3, <2>1, <2>4
    <3>2. i + 1 + since <= Longest + 2
      BY ONLY <2>2, <3>1
    <3>3. i \in Int /\ since \in Int /\ since' \in Int /\ Longest \in Int /\ since' <= since + 1
      BY ONLY <1>3, <1>5
    <3>4. Longest + 2 \in Int
      BY ONLY <3>3
    <3> QED
      BY ONLY <3>2, <3>3, <3>4, EdgeLater
  <2>5. CASE reader = "idle"
    <3>1. reader' \in {"idle", "get_read_address"} /\ address' = address
      BY ONLY <1>0, <1>4, <2>5, AddressKept DEF ReaderStep
    <3> QED
      BY ONLY <2>3, <2>4, <3>1 DEF AnswersInOrder, Stale, Fresh
  <2>6. CASE reader = "get_read_address"
    <3>1. reader' = "send_read_address" /\ address' # address /\ address' # NoWord
      BY ONLY <1>0, <1>3, <1>4, <2>6, AddressMoves, NoWordAssumption DEF ReaderStep
    <3> QED
      BY ONLY <2>3, <2>4, <3>1 DEF AnswersInOrder, Stale, Fresh
  <2> QED
    BY ONLY <1>6, <2>5, <2>6
<1>7. ASSUME reader \in {"send_read_address", "finished"}
      PROVE  /\ address' = address
             /\ \A i \in 1 .. Longest : Stale(i)' => Stale(i + 1) /\ i + 1 \in 1 .. Longest
             /\ \A i \in 1 .. Longest : Stale(i)' => i + since' <= Longest + 2
             /\ c[1] # NoWord => c[1] = coming[1] \/ (c[1] = address /\ \A i \in 1 .. Longest : coming[i] = NoWord)
  <2>1. address' = address
    BY ONLY <1>0, <1>7, AddressKept DEF ReaderStep
  <2>2. \A i \in 1 .. Longest : c[i] = coming[i] \/ (c[i] = address /\ \A j \in i .. Longest : coming[j] = NoWord)
    BY ONLY <1>1 DEF Took
  <2>3. ASSUME NEW i \in 1 .. Longest, Stale(i)'
        PROVE  Stale(i + 1) /\ i + 1 \in 1 .. Longest /\ i + since' <= Longest + 2
    <3>1. coming'[i] \notin {NoWord, address}
      BY ONLY <2>1, <2>3 DEF Stale
    <3>2. i + 1 \in 1 .. Longest /\ coming'[i] = c[i + 1]
      BY ONLY <1>2, <3>1
    <3>3. Stale(i + 1)
      BY ONLY <2>2, <3>1, <3>2 DEF Stale
    <3>4. i + 1 + since <= Longest + 2
      BY ONLY <1>0, <3>2, <3>3 DEF AnswersInOrder
    <3>5. i \in Int /\ since \in Int /\ since' \in Int /\ Longest \in Int /\ since' <= since + 1
      BY ONLY <1>3, <1>5
    <3>6. Longest + 2 \in Int
      BY ONLY <3>5
    <3>7. i + since' <= Longest + 2
      BY ONLY <3>4, <3>5, <3>6, EdgeLater
    <3> QED
      BY ONLY <3>2, <3>3, <3>7
  <2>4. 1 \in 1 .. Longest
    BY ONLY <1>3
  <2> QED
    BY ONLY <2>1, <2>2, <2>3, <2>4
<1>8. CASE reader = "send_read_address"
  <2>1. reader' = "finished" /\ readdata # address /\ \A i \in 1 .. Longest : coming[i] # address
    BY ONLY <1>0, <1>4, <1>8 DEF AnswersInOrder, Fresh
  <2>2. ASSUME NEW i \in 1 .. Longest, NEW j \in 1 .. Longest, i < j, Fresh(i)'
        PROVE  ~ Stale(j)'
    <3>1. i + 1 \in 1 .. Longest /\ c[i + 1] = address /\ coming[i + 1] # address
      BY ONLY <1>2, <1>3, <1>7, <1>8, <2>1, <2>2 DEF Fresh
    <3>2. \A k \in i + 1 .. Longest : coming[k] = NoWord
      BY ONLY <1>1, <3>1 DEF Took
    <3>3. Stale(j)' => Stale(j + 1) /\ j + 1 \in i + 1 .. Longest
      BY ONLY <1>3, <1>7, <1>8, <2>2
    <3> QED
      BY ONLY <3>2, <3>3 DEF Stale
  <2>3. ASSUME readdata' = address, NEW j \in 1 .. Longest
        PROVE  ~ Stale(j)'
    <3>1. c[1] = address /\ coming[1] # address
      BY ONLY <1>2, <1>3, <2>1, <2>3
    <3>2. \A i \in 1 .. Longest : coming[i] = NoWord
      BY ONLY <1>3, <1>7, <1>8, <3>1
    <3> QED
      BY ONLY <1>7, <1>8, <3>2 DEF Stale
  <2> QED
    BY ONLY <1>7, <1>8, <2>1, <2>2, <2>3 DEF AnswersInOrder
<1>9. CASE reader = "finished"
  <2>1. /\ \A i, j \in 1 .. Longest : i < j /\ Fresh(i) => ~ Stale(j)
        /\ readdata = address => \A i \in 1 .. Longest : ~ Stale(i)
    BY ONLY <1>0, <1>9 DEF AnswersInOrder
  <2>2. ASSUME NEW i \in 1 .. Longest, NEW j \in 1 .. Longest, i < j, Fresh(i)'
        PROVE  ~ Stale(j)'
    <3>1. i + 1 \in 1 .. Longest /\ c[i + 1] = address
      BY ONLY <1>2, <1>3, <1>7, <1>9, <2>2 DEF Fresh
    <3>2. Fresh(i + 1) \/ \A k \in i + 1 .. Longest : coming[k] = NoWord
      BY ONLY <1>1, <3>1 DEF Took, Fresh
    <3>3. Stale(j)' => Stale(j + 1) /\ j + 1 \in i + 1 .. Longest /\ i + 1 < j + 1 /\ j + 1 \in 1 .. Longest
      BY ONLY <1>3, <1>7, <1>9, <2>2
    <3>4. (\A k \in i + 1 .. Longest : coming[k] = NoWord) => ~ Stale(j)'
      BY ONLY <3>3 DEF Stale
    <3>5. Fresh(i + 1) => ~ Stale(j)'
      BY ONLY <2>1, <3>1, <3>3
    <3> QED
      BY ONLY <3>2, <3>4, <3>5
  <2>3. ASSUME readdata' = address, NEW j \in 1 .. Longest
        PROVE  ~ Stale(j)'
    <3>1. Stale(j)' => Stale(j + 1) /\ j + 1 \in 1 .. Longest /\ 1 < j + 1 /\ 1 \in 1 .. Longest
      BY ONLY <1>3, <1>7, <1>9
    <3>2. CASE c[1] = NoWord
      BY ONLY <1>2, <2>1, <2>3, <3>1, <3>2
    <3>3. CASE c[1] # NoWord /\ c[1] = coming[1]
      <4>1. Fresh(1)
        BY ONLY <1>2, <2>3, <3>3 DEF Fresh
      <4> QED
        BY ONLY <2>1, <3>1, <4>1
    <3>4. CASE c[1] = address /\ \A i \in 1 .. Longest : coming[i] = NoWord
      BY ONLY <3>1, <3>4 DEF Stale
    <3> QED
      BY ONLY <1>7, <1>9, <3>2, <3>3, <3>4
  <2>4. CASE player # "finished_sound"
    <3>1. reader' = "finished"
      BY ONLY <1>4, <1>9, <2>4
    <3> QED
      BY ONLY <1>7, <1>9, <2>2, <2>3, <3>1 DEF AnswersInOrder
  <2>5. CASE player = "finished_sound"
    <3>1. reader' = "idle" /\ since = 2 /\ readdata = address
      BY ONLY <1>0, <1>4, <1>9, <2>5
    <3>2. \A i \in 1 .. Longest : ~ Stale(i)'
      BY ONLY <1>7, <1>9, <2>1, <3>1
    <3>3. readdata' = address
      <4>1. ~ Stale(1)
        BY ONLY <1>3, <2>1, <3>1
      <4> QED
        BY ONLY <1>2, <1>7, <1>9, <3>1, <4>1 DEF Stale
    <3>4. ASSUME NEW i \in 1 .. Longest, Fresh(i)'
          PROVE  i + since' <= Longest + 2
      <4>1. i + 1 \in 1 .. Longest
        BY ONLY <1>2, <1>3, <1>7, <1>9, <3>4 DEF Fresh
      <4>2. i \in Int /\ since' \in Int /\ Longest \in Int /\ since' <= since + 1 /\ i + 1 <= Longest
        BY ONLY <1>3, <1>5, <4>1
      <4>3. since \in Int /\ i + 1 + since <= Longest + 2 /\ Longest + 2 \in Int
        BY ONLY <3>1, <4>2
      <4> QED
        BY ONLY <4>2, <4>3, EdgeLater
    <3> QED
      BY ONLY <1>7, <1>9, <3>1, <3>2, <3>3, <3>4 DEF AnswersInOrder
  <2> QED
    BY ONLY <2>4, <2>5
<1> QED
  BY ONLY <1>3, <1>6, <1>8, <1>9 DEF ReaderStates

(* A player that goes on with the last word on the bus gets the right one  *)
(* before the sample edge.                                                 *)
LEMMA CatchUpKept ==
  ASSUME TurnInv, Tick
  PROVE  CatchesUp'
<1>0. /\ FlashType /\ FlashStep /\ AnswersInOrder /\ CatchesUp /\ ReaderStep(startstop, direction, finish_sound)
      /\ reader \in {"get_read_address", "send_read_address"} => waited = 0
  BY DEF TurnInv, Tick
<1>1. PICK c, l : Took(c, l) /\ Deliver(c)
  BY ONLY <1>0, FlashTakes
<1>2. /\ \A i \in 1 .. Longest : coming'[i] # NoWord => i + 1 \in 1 .. Longest /\ coming'[i] = c[i + 1]
      /\ \A i \in 2 .. Longest : coming'[i - 1] = c[i]
      /\ readdatavalid' <=> c[1] # NoWord
      /\ readdata' = IF c[1] # NoWord THEN c[1] ELSE readdata
  BY ONLY <1>0, <1>1, Delivered
<1>3. /\ Longest \in Nat \ {0} /\ Gap \in Nat /\ Patience \in Nat /\ Gap >= 2 * Longest + Patience
      /\ since \in 0 .. Gap /\ reader \in ReaderStates /\ address \in Addresses /\ NoWord # address
      /\ waited \in 0 .. Patience /\ (waited = Patience => ~ waitrequest) /\ coming[Longest] = NoWord
      /\ 1 \in 1 .. Longest
  BY ONLY <1>0, FlashAssumption, NoWordAssumption DEF FlashType
<1>4. /\ reader = "idle" => reader' \in {"idle", "get_read_address"}
      /\ reader = "get_read_address" => reader' = "send_read_address"
      /\ reader = "send_read_address" => player' = "idle"
      /\ player' = "wait1" => player = "wait1" \/ (player = "read" /\ readdatavalid)
      /\ since' \in 0 .. Gap /\ (since < Gap => since' = since + 1) /\ (since = Gap => since' \in {0, Gap})
      /\ waited' = IF flash_mem_read /\ waitrequest THEN waited + 1 ELSE 0
  BY ONLY TurnInv, Tick, MachinesMove
<1>5. SUFFICES ASSUME Behind'
               PROVE  /\ since' > 0
                      /\ \/ \E i \in 1 .. Longest : Fresh(i)' /\ i + since' <= 2 * Longest + Patience + 1
                         \/ since' <= Longest + 1 + waited' /\ \A i \in 1 .. Longest : ~ Fresh(i)'
  BY DEF CatchesUp
<1>6. /\ reader' = "finished" /\ readdata' # address'
      /\ readdatavalid' \/ player' = "wait1" \/ \E i \in 1 .. Longest : Stale(i)'
  BY ONLY <1>5 DEF Behind
<1>7. reader \in {"send_read_address", "finished"} /\ address' = address /\ flash_mem_read
  <2>1. reader \in {"send_read_address", "finished"}
    BY ONLY <1>3, <1>4, <1>6 DEF ReaderStates
  <2> QED
    BY ONLY <1>0, <2>1, AddressKept DEF ReaderStep, flash_mem_read
<1>8. /\ \A i \in 1 .. Longest : c[i] = coming[i] \/ (c[i] = address /\ ~ waitrequest /\ \A j \in i .. Longest : coming[j] = NoWord)
      /\ ~ waitrequest => l \in 1 .. Longest /\ c[l] = address
      /\ \A i \in 1 .. Longest : coming[i] # NoWord => c[i] = coming[i] \/ c[i] = address
      /\ waitrequest => c = coming
  BY ONLY <1>1, <1>7 DEF Took
<1>9. readdatavalid' => Stale(1)
  BY ONLY <1>2, <1>3, <1>6, <1>7, <1>8 DEF Stale
<1>10. \A i \in 1 .. Longest : Stale(i)' => i + 1 \in 1 .. Longest /\ Stale(i + 1)
  <2>1. SUFFICES ASSUME NEW i \in 1 .. Longest, Stale(i)'
                 PROVE  i + 1 \in 1 .. Longest /\ Stale(i + 1)
    OBVIOUS
  <2>2. coming'[i] \notin {NoWord, address}
    BY ONLY <1>7, <2>1 DEF Stale
  <2>3. i + 1 \in 1 .. Longest /\ coming'[i] = c[i + 1]
    BY ONLY <1>2, <2>2
  <2> QED
    BY ONLY <1>8, <2>2, <2>3 DEF Stale
<1>11. c[1] # address
  BY ONLY <1>2, <1>3, <1>6, <1>7
<1>12. ASSUME NEW i \in 1 .. Longest, c[i] = address
       PROVE  i - 1 \in 1 .. Longest /\ i \in 2 .. Longest /\ Fresh(i - 1)'
  <2>1. i \in 2 .. Longest /\ i - 1 \in 1 .. Longest
    BY ONLY <1>3, <1>11, <1>12
  <2> QED
    BY ONLY <1>2, <1>7, <1>12, <2>1 DEF Fresh
<1>13. CASE reader = "send_read_address"
  <2>1. PICK k \in 1 .. Longest : Stale(k)
    BY ONLY <1>3, <1>4, <1>6, <1>9, <1>10, <1>13
  <2>2. k + since <= Longest + 2 /\ \A i \in 1 .. Longest : ~ Fresh(i)
    BY ONLY <1>0, <1>13, <2>1 DEF AnswersInOrder
  <2>3. since < Gap
    <3>1. k # Longest
      BY ONLY <1>3, <2>1 DEF Stale
    <3> QED
      BY ONLY <1>3, <2>1, <2>2, <3>1
  <2>4. since' = since + 1 /\ since' > 0 /\ since' <= Longest + 2 /\ waited = 0
    BY ONLY <1>0, <1>3, <1>4, <1>13, <2>1, <2>2, <2>3
  <2>5. CASE waitrequest
    <3>1. waited' = 1
      BY ONLY <1>4, <1>7, <2>4, <2>5
    <3>2. \A i \in 1 .. Longest : ~ Fresh(i)'
      BY ONLY <1>2, <1>3, <1>7, <1>8, <2>2, <2>5 DEF Fresh
    <3> QED
      BY ONLY <1>3, <2>4, <3>1, <3>2
  <2>6. CASE ~ waitrequest
    <3>1. l \in 1 .. Longest /\ c[l] = address
      BY ONLY <1>8, <2>6
    <3>2. l - 1 \in 1 .. Longest /\ Fresh(l - 1)'
      BY ONLY <1>12, <3>1
    <3>3. (l - 1) + since' <= 2 * Longest + Patience + 1
      BY ONLY <1>3, <2>4, <3>1
    <3> QED
      BY ONLY <2>4, <3>2, <3>3
  <2> QED
    BY ONLY <2>5, <2>6
<1>14. CASE reader = "finished"
  <2>1. readdata # address
    <3>1. SUFFICES ASSUME readdata = address PROVE FALSE
      OBVIOUS
    <3>2. \A i \in 1 .. Longest : ~ Stale(i)
      BY ONLY <1>0, <1>14, <3>1 DEF AnswersInOrder
    <3>3. ~ readdatavalid'
      BY ONLY <1>3, <1>9, <3>2
    <3> QED
      BY ONLY <1>2, <1>6, <1>7, <3>1, <3>3
  <2>2. Behind
    BY ONLY <1>3, <1>4, <1>6, <1>9, <1>10, <1>14, <2>1 DEF Behind
  <2>3. /\ since > 0
        /\ \/ \E i \in 1 .. Longest : Fresh(i) /\ i + since <= 2 * Longest + Patience + 1
           \/ since <= Longest + 1 + waited /\ \A i \in 1 .. Longest : ~ Fresh(i)
    BY ONLY <1>0, <2>2 DEF CatchesUp
  <2>4. CASE \E i \in 1 .. Longest : Fresh(i) /\ i + since <= 2 * Longest + Patience + 1
    <3>1. PICK i \in 1 .. Longest : Fresh(i) /\ i + since <= 2 * Longest + Patience + 1
      BY ONLY <2>4
    <3>2. c[i] = address
      BY ONLY <1>8, <3>1 DEF Fresh
    <3>3. i - 1 \in 1 .. Longest /\ i \in 2 .. Longest /\ Fresh(i - 1)'
      BY ONLY <1>12, <3>2
    <3>4. since' = since + 1
      BY ONLY <1>3, <1>4, <3>1, <3>3
    <3>5. since' > 0 /\ (i - 1) + since' <= 2 * Longest + Patience + 1
      BY ONLY <1>3, <3>1, <3>4
    <3> QED
      BY ONLY <3>3, <3>5
  <2>5. CASE since <= Longest + 1 + waited /\ \A i \in 1 .. Longest : ~ Fresh(i)
    <3>1. CASE waitrequest
      <4>1. waited < Patience /\ waited' = waited + 1
        BY ONLY <1>3, <1>4, <1>7, <3>1
      <4>2. since' = since + 1 /\ since' > 0 /\ since' <= Longest + 1 + waited'
        BY ONLY <1>3, <1>4, <2>5, <4>1
      <4>3. \A i \in 1 .. Longest : ~ Fresh(i)'
        BY ONLY <1>2, <1>3, <1>7, <1>8, <2>5, <3>1 DEF Fresh
      <4> QED
        BY ONLY <4>2, <4>3
    <3>2. CASE ~ waitrequest
      <4>1. l \in 1 .. Longest /\ c[l] = address
        BY ONLY <1>8, <3>2
      <4>2. l - 1 \in 1 .. Longest /\ l \in 2 .. Longest /\ Fresh(l - 1)'
        BY ONLY <1>12, <4>1
      <4>3. since' = since + 1
        BY ONLY <1>3, <1>4, <2>5, <4>2
      <4>4. since' > 0 /\ (l - 1) + since' <= 2 * Longest + Patience + 1
        BY ONLY <1>3, <2>5, <4>1, <4>3
      <4> QED
        BY ONLY <4>2, <4>4
    <3> QED
      BY ONLY <3>1, <3>2
  <2> QED
    BY ONLY <2>3, <2>4, <2>5
<1> QED
  BY ONLY <1>7, <1>13, <1>14

LEMMA TurnStep == TurnInv /\ [Tick]_vars => TurnInv'
<1> SUFFICES ASSUME TurnInv, [Tick]_vars PROVE TurnInv'
  OBVIOUS
<1>1. CASE UNCHANGED vars
  BY <1>1 DEF TurnInv, FlashType, AnswersInOrder, CatchesUp, Behind, Stale, Fresh, vars, flash
<1>2. CASE Tick
  <2>1. FlashType' /\ AnswersInOrder' /\ CatchesUp'
    BY ONLY TurnInv, <1>2, TurnType, OrderKept, CatchUpKept
  <2>2. /\ reader \in {"idle", "get_read_address", "send_read_address"} => player = "idle" /\ player' = "idle"
        /\ reader = "idle" => reader' \in {"idle", "get_read_address"}
        /\ reader = "get_read_address" => reader' = "send_read_address"
        /\ reader = "send_read_address" => reader' = "finished"
        /\ reader = "finished" => reader' = IF player = "finished_sound" THEN "idle" ELSE "finished"
        /\ player' = "audio1" => player = "wait1" /\ since = 0
        /\ player' = "wait2" => player \in {"wait2", "audio1"}
        /\ player' = "audio2" => player = "wait2" /\ since = 0
        /\ player' = "finished_sound" => player = "audio2"
        /\ player = "finished_sound" => player' = "idle"
        /\ buffer' = IF player = "wait1" THEN readdata ELSE buffer
        /\ (since < Gap => since' = since + 1) /\ (since = Gap => since' \in {0, Gap})
        /\ waited' = IF flash_mem_read /\ waitrequest THEN waited + 1 ELSE 0
    BY ONLY TurnInv, <1>2, MachinesMove
  <2>3. /\ reader \in ReaderStates /\ player \in PlayerStates /\ since \in 0 .. Gap
        /\ reader # "finished" => player = "idle"
        /\ player \in {"audio1", "wait2", "audio2", "finished_sound"} => buffer = address /\ readdata = address
        /\ (player = "audio2" => since = 1) /\ (player = "finished_sound" => since = 2)
        /\ Gap \in Nat /\ Gap >= 2 /\ CatchesUp /\ AnswersInOrder /\ FlashType
    BY FlashAssumption DEF TurnInv, FlashType
  <2>4. reader' \in {"get_read_address", "send_read_address"} => waited' = 0
    BY ONLY <2>2, <2>3 DEF ReaderStates, flash_mem_read
  <2>5. reader' # "finished" => player' = "idle"
    BY ONLY <2>2, <2>3 DEF ReaderStates
  <2>6. (player' = "audio2" => since' = 1) /\ (player' = "finished_sound" => since' = 2)
    BY ONLY <2>2, <2>3
  <2>7. ASSUME player' \in {"audio1", "wait2", "audio2", "finished_sound"}
        PROVE  buffer' = address' /\ readdata' = address'
    <3>1. reader = "finished" /\ ((player = "wait1" /\ since = 0) \/ player \in {"audio1", "wait2", "audio2"})
      BY ONLY <2>2, <2>3, <2>7
    <3>2. address' = address
      <4>1. ReaderStep(startstop, direction, finish_sound)
        BY ONLY <1>2 DEF Tick
      <4> QED
        BY ONLY <3>1, <4>1, AddressKept DEF ReaderStep
    <3>3. readdata = address /\ buffer' = address
      <4>1. CASE player = "wait1" /\ since = 0
        <5>1. ~ Behind
          BY ONLY <2>3, <4>1 DEF CatchesUp
        <5>2. readdata = address
          BY ONLY <3>1, <4>1, <5>1 DEF Behind
        <5> QED
          BY ONLY <2>2, <4>1, <5>2
      <4>2. CASE player \in {"audio1", "wait2", "audio2"}
        BY ONLY <2>2, <2>3, <4>2
      <4> QED
        BY ONLY <3>1, <4>1, <4>2
    <3>4. readdata' = address
      <4>1. FlashStep /\ 1 \in 1 .. Longest
        BY ONLY <1>2, FlashAssumption DEF Tick
      <4>2. PICK c, l : Took(c, l) /\ Deliver(c)
        BY ONLY <2>3, <4>1, FlashTakes
      <4>3. readdata' = IF c[1] # NoWord THEN c[1] ELSE readdata
        BY ONLY <2>3, <4>2, Delivered
      <4>4. ~ Stale(1)
        BY ONLY <2>3, <3>1, <3>3, <4>1 DEF AnswersInOrder
      <4>5. c[1] \in {coming[1], address}
        BY ONLY <4>1, <4>2 DEF Took
      <4> QED
        BY ONLY <3>3, <4>3, <4>4, <4>5 DEF Stale
    <3> QED
      BY ONLY <3>2, <3>3, <3>4
  <2> QED
    BY ONLY <2>1, <2>4, <2>5, <2>6, <2>7 DEF TurnInv
<1> QED
  BY ONLY <1>1, <1>2, [Tick]_vars

(* The address stands while the player works, and what is sounded is the   *)
(* word the reader chose, however often the flash is asked for it and      *)
(* however late it answers (fsm_flash_read.sv, sound_out.sv).              *)
THEOREM TurnsHold == Spec => []Handshake /\ []SoundsTheWordRead
<1>1. TurnInv => Handshake /\ SoundsTheWordRead
  BY DEF TurnInv, Handshake, SoundsTheWordRead
<1> QED
  BY TurnInit, TurnStep, <1>1, PTL DEF Spec

(* The samples of a turn: the first one played is of the word in buffer.   *)
SoundInv ==
  /\ sound[2] \in {"early", "late"}
  /\ player \in {"wait2", "audio2"} => sound[1] = buffer

(* The word played last is at the address until the address moves, and     *)
(* next to it from then on until the new word has been played.             *)
PlayedInv ==
  played # NoWord =>
    IF reader \in {"idle", "get_read_address"} \/ player = "finished_sound"
    THEN played = address
    ELSE Neighbours(played, address)

LEMMA SoundStarts == Init => SoundInv /\ PlayedInv
  BY DEF Init, PlayerInit, SoundInv, PlayedInv

LEMMA SoundNext == SoundInv /\ [Tick]_vars => SoundInv'
<1> SUFFICES ASSUME SoundInv, [Tick]_vars PROVE SoundInv'
  OBVIOUS
<1>1. CASE UNCHANGED vars
  BY <1>1 DEF SoundInv, vars
<1>2. CASE Tick
  <2>1. /\ BufferStep(readdata) /\ SoundStep(direction)
        /\ \/ Begin(finish_read) \/ AwaitData(readdatavalid)
           \/ AwaitEdge(readNow) \/ Play
    BY <1>2 DEF Tick, PlayerStep
  <2>2. sound'[2] \in {"early", "late"}
    BY <2>1 DEF SoundStep, SoundInv
  <2>3. player' \in {"wait2", "audio2"} =>
           player = "audio1" \/ player = "wait2"
    BY <2>1 DEF Begin, AwaitData, AwaitEdge, Play
  <2>4. player' \in {"wait2", "audio2"} => sound'[1] = buffer'
    BY <2>1, <2>3 DEF SoundInv, SoundStep, BufferStep
  <2> QED
    BY <2>2, <2>4 DEF SoundInv
<1> QED
  BY <1>1, <1>2

LEMMA PlayedNext == TurnInv /\ PlayedInv /\ [Tick]_vars => PlayedInv'
<1> SUFFICES ASSUME TurnInv, PlayedInv, [Tick]_vars PROVE PlayedInv'
  OBVIOUS
<1>1. CASE UNCHANGED vars
  BY <1>1 DEF PlayedInv, Neighbours, Following, Preceding, vars
<1>2. CASE Tick
  <2>1. /\ ReaderStep(startstop, direction, finish_sound)
        /\ \/ Begin(finish_read) \/ AwaitData(readdatavalid)
           \/ AwaitEdge(readNow) \/ Play
        /\ played' = IF player = "audio2" THEN buffer ELSE played
    BY <1>2 DEF Tick, PlayerStep, HistoryStep
  <2>2. CASE player = "audio2"
    <3>1. reader = "finished" /\ buffer = address
      BY <2>2 DEF TurnInv
    <3>2. player' = "finished_sound" /\ played' = address /\ address' = address
      BY <2>1, <2>2, <3>1, AddressKept
      DEF Begin, AwaitData, AwaitEdge, Play, ReaderStep
    <3> QED
      BY <3>2 DEF PlayedInv
  <2>3. CASE player = "finished_sound"
    <3>1. reader = "finished" /\ reader' = "idle" /\ address' = address /\ played' = played
      BY <2>1, <2>3, AddressKept DEF TurnInv, ReaderStep, StartRead, GetAddress,
         SendAddress, AwaitSound, finish_sound
    <3> QED
      BY <2>3, <3>1 DEF PlayedInv
  <2>4. CASE player \notin {"audio2", "finished_sound"}
    <3>1. player' # "finished_sound" /\ played' = played
      BY <2>1, <2>4 DEF Begin, AwaitData, AwaitEdge, Play
    <3>2. CASE reader = "get_read_address"
      <4>1. reader' = "send_read_address" /\ address' \in {Following(address), Preceding(address)}
        BY <2>1, <3>2 DEF ReaderStep, StartRead, GetAddress, SendAddress, AwaitSound,
           AddressStep, get_address
      <4> QED
        BY <3>1, <3>2, <4>1 DEF PlayedInv, Neighbours, Following, Preceding
    <3>3. CASE reader # "get_read_address"
      <4>1. /\ address' = address
            /\ reader' \in {"idle", "get_read_address"} <=> reader = "idle"
        BY <2>1, <2>4, <3>3, AddressKept DEF TurnInv, FlashType, ReaderStates, ReaderStep, StartRead,
           GetAddress, SendAddress, AwaitSound, finish_sound
      <4> QED
        BY <2>4, <3>1, <3>3, <4>1 DEF PlayedInv, Neighbours, Following, Preceding
    <3> QED
      BY <3>2, <3>3
  <2> QED
    BY <2>2, <2>3, <2>4
<1> QED
  BY <1>1, <1>2

(* Each word sounded is next to the one sounded before it, and the second  *)
(* sample is the other half of the first one's word.                       *)
THEOREM WordsFollow == Spec => WordsInOrder
<1>1. TurnInv /\ PlayedInv /\ [Tick]_vars =>
        [player = "audio2" => played = NoWord \/ Neighbours(played, played')]_vars
  <2> SUFFICES ASSUME TurnInv, PlayedInv, Tick, player = "audio2", played # NoWord
               PROVE  Neighbours(played, played')
    OBVIOUS
  <2>1. reader = "finished" /\ buffer = address /\ played' = buffer
    BY DEF TurnInv, Tick, HistoryStep
  <2> QED
    BY <2>1 DEF PlayedInv
<1>2. SoundInv /\ [Tick]_vars =>
        [player = "audio2" /\ (direction <=> sound[2] = "early") =>
           sound'[1] = sound[1] /\ sound'[2] # sound[2]]_vars
  <2> SUFFICES ASSUME SoundInv, Tick, player = "audio2", direction <=> sound[2] = "early"
               PROVE  sound'[1] = sound[1] /\ sound'[2] # sound[2]
    OBVIOUS
  <2>1. sound' = <<buffer, IF direction THEN "late" ELSE "early">>
    BY DEF Tick, PlayerStep, SoundStep
  <2> QED
    BY <2>1 DEF SoundInv
<1> QED
  BY TurnInit, TurnStep, SoundStarts, SoundNext, PlayedNext, <1>1, <1>2, PTL
  DEF Spec, WordsInOrder, NoWordSkipped, OtherHalfFollows
-----------------------------------------------------------------------------
(* The sample clock. *)

(* Half a period lasts three cycles or more, so that an edge is through the *)
(* flip-flops, and the reset after it, before the next.                    *)
SyncInv ==
  /\ divisor \in Fastest .. Slowest /\ cycle_count \in Nat
  /\ outclk => /\ ff1
               /\ ff2 <=> cycle_count >= 1
               /\ ff3 <=> cycle_count >= 2
               /\ ff4 <=> cycle_count >= 3
               /\ owed = IF cycle_count >= 2 THEN 0 ELSE 1
  /\ ~ outclk => /\ ~ ff1
                 /\ ff2 => ff3 /\ cycle_count = 0
                 /\ ff3 => ff4 /\ cycle_count \in 0 .. 1
                 /\ owed = 0

LEMMA SyncNext ==
  ASSUME Fastest >= 6, SyncInv, [ClockTick]_clockvars
  PROVE  SyncInv'
<1>a. CASE UNCHANGED clockvars
  BY <1>a DEF SyncInv, clockvars, flops
<1> SUFFICES ASSUME ClockTick PROVE SyncInv'
  BY <1>a
<1>1. divisor' \in Fastest .. Slowest
  BY DivisorAssumption DEF ClockTick, SpeedStep, Faster, Slower, SyncInv
<1>2. divisor \in 6 .. Slowest /\ divisor \div 2 >= 3 /\ divisor \div 2 <= Slowest
      /\ divisor \div 2 \in Nat
  BY DivisorAssumption DEF SyncInv
<1>3. Toggles => cycle_count >= 2
  BY <1>2 DEF Toggles, SyncInv
<1>4. ~ Toggles => cycle_count' = cycle_count + 1 /\ outclk' = outclk
  <2> SUFFICES ASSUME ~ Toggles PROVE cycle_count' = cycle_count + 1 /\ outclk' = outclk
    OBVIOUS
  <2>1. cycle_count + 1 < Width
    BY <1>2, DivisorAssumption DEF Toggles, SyncInv
  <2>2. cycle_count \in Nat
    BY DEF SyncInv
  <2>3. (cycle_count + 1) % Width = cycle_count + 1
    BY <2>1, <2>2, DivisorAssumption
  <2> QED
    BY <2>3 DEF ClockTick, DividerStep
<1>5. /\ Toggles => cycle_count' = 0 /\ (outclk' <=> ~ outclk)
      /\ ff2' <=> ff1
      /\ ff3' <=> ff2
      /\ ff4' <=> ff3
      /\ (~ outclk /\ outclk') /\ ~ ff3 => ff1'
      /\ ~ (~ outclk /\ outclk') => IF ~ outclk' /\ ff3' THEN ~ ff1' ELSE ff1' <=> ff1
  BY DEF ClockTick, DividerStep, SyncStep, Trap
<1>6. /\ ~ outclk /\ outclk' /\ ~ edgedetect' /\ owed = 0 => owed' = 1
      /\ ~ (~ outclk /\ outclk') /\ edgedetect' /\ owed = 1 => owed' = 0
      /\ ~ (~ outclk /\ outclk') /\ ~ edgedetect' /\ owed \in 0 .. 1 => owed' = owed
  <2> HIDE DEF edgedetect
  <2> DEFINE rise  == ~ outclk /\ outclk'
             count == owed + (IF rise THEN 1 ELSE 0) - (IF edgedetect' THEN 1 ELSE 0)
  <2>1. owed' = IF count \in -1 .. 2 THEN count ELSE owed
    BY DEF ClockTick, CountOwed
  <2> QED
    BY <2>1
<1>7. cycle_count \in Nat
  BY DEF SyncInv
<1> HIDE DEF Toggles
<1>8. CASE Toggles /\ outclk
  <2>1. ff1 /\ ff2 /\ ff3 /\ owed = 0 /\ cycle_count' = 0 /\ ~ outclk'
    BY <1>3, <1>5, <1>7, <1>8 DEF SyncInv
  <2>2. ff2' /\ ff3' /\ ff4' /\ ~ ff1' /\ ~ edgedetect'
    BY <1>5, <2>1 DEF edgedetect
  <2>3. owed' = 0
    BY <1>6, <2>1, <2>2
  <2> QED
    BY <1>1, <2>1, <2>2, <2>3 DEF SyncInv
<1>9. CASE Toggles /\ ~ outclk
  <2>1. ~ ff1 /\ ~ ff2 /\ ~ ff3 /\ owed = 0 /\ cycle_count' = 0 /\ outclk'
    BY <1>3, <1>5, <1>7, <1>9 DEF SyncInv
  <2>2. ~ ff2' /\ ~ ff3' /\ ~ ff4' /\ ff1' /\ ~ edgedetect'
    BY <1>5, <1>9, <2>1 DEF edgedetect
  <2>3. owed' = 1
    BY <1>6, <1>9, <2>1, <2>2
  <2> QED
    BY <1>1, <2>1, <2>2, <2>3 DEF SyncInv
<1>10. CASE ~ Toggles /\ outclk
  <2>1. /\ cycle_count' = cycle_count + 1 /\ outclk' /\ ff1 /\ ff1' /\ ff2'
        /\ ff2 <=> cycle_count >= 1
        /\ ff3 <=> cycle_count >= 2
        /\ ff4 <=> cycle_count >= 3
        /\ owed = IF cycle_count >= 2 THEN 0 ELSE 1
    BY <1>4, <1>5, <1>10 DEF SyncInv
  <2>2. (ff3' <=> cycle_count >= 1) /\ (ff4' <=> cycle_count >= 2)
    BY <1>5, <2>1
  <2>3. edgedetect' <=> cycle_count = 1
    BY <1>7, <2>2 DEF edgedetect
  <2>4. owed' = IF cycle_count >= 1 THEN 0 ELSE 1
    BY <1>6, <1>7, <1>10, <2>1, <2>3
  <2> QED
    BY <1>1, <1>7, <2>1, <2>2, <2>4 DEF SyncInv
<1>11. CASE ~ Toggles /\ ~ outclk
  <2>1. /\ cycle_count' = cycle_count + 1 /\ ~ outclk' /\ ~ ff1 /\ ~ ff1' /\ ~ ff2'
        /\ ff2 => ff3 /\ cycle_count = 0
        /\ ff3 => ff4 /\ cycle_count \in 0 .. 1
        /\ owed = 0
    BY <1>4, <1>5, <1>11 DEF SyncInv
  <2>2. (ff3' => ff4' /\ cycle_count' = 1) /\ ~ edgedetect'
    BY <1>5, <1>7, <2>1 DEF edgedetect
  <2>3. owed' = 0
    BY <1>6, <2>1, <2>2
  <2> QED
    BY <1>1, <1>7, <2>1, <2>2, <2>3 DEF SyncInv
<1> QED
  BY <1>8, <1>9, <1>10, <1>11

(* While no press takes the divisor below 6, every rising edge of the      *)
(* divided clock gives exactly one pulse (clock_sync.sv:7-13).             *)
THEOREM PulsesMatchEdges ==
  ASSUME Fastest >= 6
  PROVE  ClockSpec => []OnePulsePerEdge
<1>1. ClockInit => SyncInv
  BY DivisorAssumption, 0 \in Nat DEF ClockInit, SyncInv
<1>2. SyncInv => OnePulsePerEdge
  BY DEF SyncInv, OnePulsePerEdge
<1>3. SyncInv /\ [ClockTick]_clockvars => SyncInv'
  BY SyncNext
<1> QED
  BY <1>1, <1>2, <1>3, PTL DEF ClockSpec
-----------------------------------------------------------------------------
(* The audio meter. *)

LEMMA InitPreserves == MeterInit => PreserveInv
BY DEF MeterInit, PreserveInv

LEMMA MainPreserves == PreserveInv /\ Main => PreserveInv'
BY DEF PreserveInv, Main, memory, meterhistory

LEMMA IsrPreserves == PreserveInv /\ Isr => PreserveInv'
<1> SUFFICES ASSUME PreserveInv, Isr PROVE PreserveInv'
  OBVIOUS
<1>1. CASE Save
  BY <1>1 DEF PreserveInv, Save, meterhistory
<1>2. CASE Sample
  BY <1>2 DEF PreserveInv, Sample, memory
<1>3. CASE Positive
  BY <1>3 DEF PreserveInv, Positive, memory, meterhistory
<1>4. CASE AddData
  BY <1>4 DEF PreserveInv, AddData, memory, meterhistory
<1>5. CASE IncrementCounter
  BY <1>5 DEF PreserveInv, IncrementCounter, memory, meterhistory
<1>6. CASE UpdateLed
  BY <1>6 DEF PreserveInv, UpdateLed, memory, meterhistory
<1>7. CASE ResetAllVal
  BY <1>7 DEF PreserveInv, ResetAllVal, memory
<1>8. CASE StoreData
  BY <1>8 DEF PreserveInv, StoreData
<1> QED
  BY <1>1, <1>2, <1>3, <1>4, <1>5, <1>6, <1>7, <1>8 DEF Isr

LEMMA NextPreserves == PreserveInv /\ [MeterNext]_metervars => PreserveInv'
<1> SUFFICES ASSUME PreserveInv, [MeterNext]_metervars PROVE PreserveInv'
  OBVIOUS
<1>1. CASE Main
  BY <1>1, MainPreserves
<1>2. CASE Interrupt
  BY <1>2 DEF PreserveInv, Interrupt
<1>3. CASE Isr
  BY <1>3, IsrPreserves
<1>4. CASE UNCHANGED metervars
  BY <1>4 DEF PreserveInv, metervars, memory, meterhistory
<1> QED
  BY <1>1, <1>2, <1>3, <1>4 DEF MeterNext

(* Only RETURNI ends the routine, and it takes the copies back. *)
LEMMA ReturnRestores ==
  PreserveInv /\ [MeterNext]_metervars =>
    [isr # "none" /\ isr' = "none" => s' = kept]_metervars
<1> SUFFICES ASSUME PreserveInv, MeterNext, isr # "none", isr' = "none"
             PROVE  s' = kept
  OBVIOUS
<1>1. StoreData
  BY DEF MeterNext, Main, Interrupt, Isr, Save, Sample, Positive, AddData,
         IncrementCounter, UpdateLed, ResetAllVal
<1> QED
  BY <1>1 DEF StoreData, PreserveInv

(* The main program finds its registers as it left them, wherever in its     *)
(* delay loops it was interrupted (pracPICO.psm:311-315, 338-343).           *)
THEOREM RegistersReturned == MeterSpec => MainUndisturbed
<1>1. MeterSpec => []PreserveInv
  BY InitPreserves, NextPreserves, PTL DEF MeterSpec
<1> QED
  BY <1>1, ReturnRestores, PTL DEF MeterSpec, MainUndisturbed

(* The sum of the block is in the three words of the scratchpad, or in the *)
(* registers while the routine runs: the low and the high byte of the sum, *)
(* and the count of the samples.                                           *)
Scale == 2^W
Total == s[2] + Scale * s[3]

BlockInv ==
  /\ block <= taken * (Scale - 1)
  /\ isr \in {"none", "ISR", "INPUT"} => /\ sum_1 + Scale * sum_2 = block
                                       /\ counter = taken
  /\ isr = "POSITIVE" => Total + Magnitude(s[1]) = block
  /\ isr = "ADD_DATA" => Total + s[1] = block
  /\ isr \in {"POSITIVE", "ADD_DATA", "INCREMENT_COUNTER"} => s[4] = taken - 1
  /\ isr \in {"INCREMENT_COUNTER", "UPDATE_LED", "STORE_DATA"} => Total = block
  /\ isr = "UPDATE_LED" => taken = Scale
  /\ isr = "STORE_DATA" => s[4] = taken

IsrLabels == {"none", "ISR", "INPUT", "POSITIVE", "ADD_DATA", "INCREMENT_COUNTER",
              "UPDATE_LED", "RESET_ALL_VAL", "STORE_DATA"}

MeterTypes ==
  /\ isr \in IsrLabels
  /\ s \in [Registers -> Int] /\ preserved \in [Registers -> Int]
  /\ led0 \in Int /\ block \in Nat /\ taken \in Nat
  /\ sum_1 \in Byte /\ sum_2 \in Byte /\ counter \in Byte
  /\ isr \notin {"none", "ISR", "INPUT"} => \A i \in 1 .. 4 : s[i] \in Byte

BarInv == MeterTypes /\ (whole => BlockInv)

LEMMA ScalePositive == Scale \in Nat \ {0} /\ 2^(W - 1) \in Nat \ {0}
<1>1. ASSUME NEW n \in Nat PROVE 2^n \in Nat \ {0}
  <2>1. IsFiniteSet(1 .. n) /\ Cardinality(1 .. n) = n
    BY <1>1, FS_Interval
  <2>2. IsFiniteSet(SUBSET (1 .. n)) /\ Cardinality(SUBSET (1 .. n)) = 2^n
    BY <2>1, FS_SUBSET
  <2>3. SUBSET (1 .. n) # {}
    OBVIOUS
  <2> QED
    BY <2>2, <2>3, FS_CardinalityType, FS_EmptySet
<1> QED
  BY <1>1, MeterAssumption DEF Scale

LEMMA Division ==
  ASSUME NEW B \in Nat \ {0}, NEW x \in Nat
  PROVE  x = (x % B) + B * (x \div B) /\ x % B \in 0 .. B - 1 /\ x \div B \in Nat
  OBVIOUS

(* A sum of two digits below B * B leaves the high digit below B.          *)
LEMMA HighDigit ==
  ASSUME NEW B \in Nat \ {0}, NEW n \in Nat, NEW lo \in 0 .. B - 1, NEW hi \in Int,
         n = lo + B * hi
  PROVE  /\ hi = n \div B /\ hi >= 0
         /\ n < B * B => hi < B
         /\ n >= B => hi # 0
<1>1. hi >= 0
  <2> SUFFICES ASSUME hi <= -1 PROVE FALSE
    OBVIOUS
  <2>1. B * hi <= -B
    <3>1. -1 - hi \in Nat /\ hi = -1 - (-1 - hi)
      OBVIOUS
    <3>2. B * hi = -B - B * (-1 - hi) /\ B * (-1 - hi) \in Nat
      BY <3>1
    <3> QED
      BY <3>2
  <2> QED
    BY <2>1
<1>2. hi = n \div B
  BY <1>1
<1>3. n < B * B => hi < B
  <2> SUFFICES ASSUME hi >= B, n < B * B PROVE FALSE
    OBVIOUS
  <2>1. hi - B \in Nat /\ B * hi = B * B + B * (hi - B) /\ B * (hi - B) \in Nat
    OBVIOUS
  <2> QED
    BY <2>1
<1>4. n >= B => hi # 0
  OBVIOUS
<1> QED
  BY <1>1, <1>2, <1>3, <1>4

(* Adding a number to the low digit of two, with the carry to the high one. *)
LEMMA Carry ==
  ASSUME NEW B \in Nat \ {0},
         NEW a \in 0 .. B - 1, NEW lo \in 0 .. B - 1, NEW hi \in 0 .. B - 1
  PROVE  /\ (lo + a) % B \in 0 .. B - 1
         /\ (hi + ((lo + a) \div B)) % B \in 0 .. B - 1
         /\ lo + B * hi + a < B * B =>
              ((lo + a) % B) + B * ((hi + ((lo + a) \div B)) % B) = lo + B * hi + a
<1> DEFINE x == lo + a
           r == x % B
           c == x \div B
<1>1. x \in Nat
  OBVIOUS
<1>2. x = r + B * c /\ r \in 0 .. B - 1 /\ c \in Nat
  BY <1>1, Division
<1>3. hi + c \in Nat
  BY <1>2
<1> HIDE DEF r, c
<1>4. (hi + c) % B \in 0 .. B - 1
  BY <1>3
<1>5. ASSUME lo + B * hi + a < B * B
      PROVE  r + B * ((hi + c) % B) = lo + B * hi + a
  <2>1. B * (hi + c) = B * hi + B * c /\ B * hi \in Nat /\ B * c \in Nat
    BY <1>2
  <2>2. lo + B * hi + a = r + B * (hi + c)
    BY <1>2, <2>1
  <2>3. lo + B * hi + a \in Nat
    BY <2>1
  <2>4. hi + c \in 0 .. B - 1
    BY <1>2, <1>3, <1>5, <2>2, <2>3, HighDigit
  <2>5. (hi + c) % B = hi + c
    BY <2>4
  <2> QED
    BY <2>2, <2>5
<1> QED
  BY <1>2, <1>4, <1>5 DEF r, c

(* A block of at most B samples below B.                                   *)
LEMMA BlockFits ==
  ASSUME NEW B \in Nat \ {0}, NEW n \in 0 .. B, NEW x \in Nat, x <= n * (B - 1)
  PROVE  x < B * B
<1>1. /\ B * B = n * (B - 1) + (B - n) * (B - 1) + B
      /\ (B - n) * (B - 1) \in Nat /\ n * (B - 1) \in Nat
  <2>1. B - n \in Nat /\ B - 1 \in Nat
    OBVIOUS
  <2> QED
    BY <2>1
<1> QED
  BY <1>1

LEMMA BarStarts == MeterInit => BarInv
<1> SUFFICES ASSUME MeterInit PROVE BarInv
  OBVIOUS
<1>1. s \in [Registers -> Int]
  BY DEF MeterInit
<1> QED
  BY <1>1, MeterAssumption DEF MeterInit, BarInv, MeterTypes, IsrLabels

LEMMA MainKeepsBlock == BarInv /\ Main => BarInv'
<1> SUFFICES ASSUME BarInv, Main PROVE BarInv'
  OBVIOUS
<1> USE DEF BarInv, MeterTypes
<1>1. isr = "none" /\ isr' = isr /\ UNCHANGED <<memory, meterhistory>>
  BY DEF Main
<1>2. s' \in [Registers -> Int] /\ led0' \in Int
  <2>1. CASE Blink
    <3>1. led0' \in Int /\ s \in [Registers -> Int]
      BY <2>1 DEF Blink
    <3>2. s' = [s EXCEPT ![0] = led0']
      BY <2>1 DEF Blink
    <3> QED
      BY <3>1, <3>2
  <2>2. ASSUME NEW i \in Registers, LoadDelay(i) PROVE s' \in [Registers -> Int] /\ led0' \in Int
    <3>1. Loops[i] \in Int
      BY MeterAssumption, ScalePositive DEF Byte, Scale
    <3> QED
      BY <2>2, <3>1 DEF LoadDelay
  <2>3. ASSUME NEW i \in Registers, CountDown(i) PROVE s' \in [Registers -> Int] /\ led0' \in Int
    <3>1. (s[i] - 1) % Scale \in Int
      BY ScalePositive
    <3> QED
      BY <2>3, <3>1 DEF CountDown, Scale
  <2> QED
    BY <2>1, <2>2, <2>3 DEF Main
<1>3. whole' => BlockInv'
  BY <1>1 DEF BlockInv, memory, meterhistory
<1> QED
  BY <1>1, <1>2, <1>3 DEF memory, meterhistory, IsrLabels

LEMMA SaveKeepsBlock == BarInv /\ (Interrupt \/ Save) => BarInv'
<1> SUFFICES ASSUME BarInv, Interrupt \/ Save PROVE BarInv'
  OBVIOUS
<1>1. CASE Interrupt
  BY <1>1 DEF Interrupt, BarInv, MeterTypes, BlockInv, IsrLabels, memory, main
<1>2. CASE Save
  BY <1>2 DEF Save, BarInv, MeterTypes, BlockInv, IsrLabels, meterhistory, main
<1> QED
  BY <1>1, <1>2

LEMMA MagnitudeIsByte ==
  ASSUME NEW b \in Byte
  PROVE  Magnitude(b) \in Byte
  BY ScalePositive DEF Byte, Magnitude, Negative, Scale

LEMMA SampleKeepsBlock == BarInv /\ Sample => BarInv'
<1> SUFFICES ASSUME BarInv, Sample PROVE BarInv'
  OBVIOUS
<1>1. PICK audio \in Byte :
        /\ s' = [s EXCEPT ![1] = audio, ![2] = sum_1, ![3] = sum_2, ![4] = counter]
        /\ block' = block + Magnitude(audio)
  BY DEF Sample
<1>2. /\ isr = "INPUT" /\ isr' = "POSITIVE" /\ taken' = taken + 1
      /\ UNCHANGED <<led0, sum_1, sum_2, counter, preserved, whole>>
  BY DEF Sample, main, memory
<1>3. /\ s \in [Registers -> Int] /\ block \in Nat /\ taken \in Nat
      /\ sum_1 \in Byte /\ sum_2 \in Byte /\ counter \in Byte
  BY DEF BarInv, MeterTypes
<1>4. s'[1] = audio /\ s'[2] = sum_1 /\ s'[3] = sum_2 /\ s'[4] = counter
  BY <1>1, <1>3 DEF Registers
<1>5. Byte \subseteq Nat
  BY DEF Byte
<1>6. MeterTypes'
  <2>1. s' \in [Registers -> Int]
    <3>1. audio \in Int /\ sum_1 \in Int /\ sum_2 \in Int /\ counter \in Int
      BY <1>3, <1>5
    <3> QED
      BY <1>1, <1>3, <3>1
  <2>2. block' \in Nat /\ taken' \in Nat
    <3>1. Magnitude(audio) \in Nat
      BY <1>5, MagnitudeIsByte
    <3> QED
      BY <1>1, <1>2, <1>3, <3>1
  <2>3. \A i \in 1 .. 4 : s'[i] \in Byte
    BY <1>3, <1>4
  <2> QED
    BY <1>2, <2>1, <2>2, <2>3 DEF BarInv, MeterTypes, IsrLabels
<1>7. ASSUME whole' PROVE BlockInv'
  <2>1. BlockInv
    BY <1>2, <1>7 DEF BarInv
  <2>2. block' <= taken' * (Scale - 1)
    <3>1. block <= taken * (Scale - 1)
      BY <2>1 DEF BlockInv
    <3>2. Magnitude(audio) \in 0 .. Scale - 1
      BY MagnitudeIsByte DEF Byte, Scale
    <3>3. (taken + 1) * (Scale - 1) = taken * (Scale - 1) + (Scale - 1)
      BY <1>3, ScalePositive
    <3> QED
      BY <1>1, <1>2, <1>3, <3>1, <3>2, <3>3, ScalePositive
  <2>3. Total' + Magnitude(s'[1]) = block' /\ s'[4] = taken' - 1
    <3>1. sum_1 + Scale * sum_2 = block /\ counter = taken
      BY <1>2, <2>1 DEF BlockInv
    <3>2. Total' = sum_1 + Scale * sum_2
      BY <1>4 DEF Total, Scale
    <3> QED
      BY <1>1, <1>2, <1>3, <1>4, <3>1, <3>2, <1>5
  <2> QED
    BY <1>2, <2>2, <2>3 DEF BlockInv, Scale
<1> QED
  BY <1>6, <1>7 DEF BarInv

LEMMA PositiveKeepsBlock == BarInv /\ Positive => BarInv'
<1> SUFFICES ASSUME BarInv, Positive PROVE BarInv'
  OBVIOUS
<1>1. /\ isr = "POSITIVE" /\ isr' = "ADD_DATA"
      /\ UNCHANGED <<led0, preserved, sum_1, sum_2, counter, block, taken, whole>>
      /\ s' = IF Negative(s[1]) THEN [s EXCEPT ![1] = 2^W - 1 - (@ - 1)] ELSE s
  BY DEF Positive, main, memory, meterhistory
<1>2. s \in [Registers -> Int] /\ \A i \in 1 .. 4 : s[i] \in Byte
  BY <1>1 DEF BarInv, MeterTypes
<1>3. s[1] \in Byte /\ s[1] \in Int /\ 2^W \in Int
  BY <1>2, ScalePositive DEF Scale, Byte
<1>4. /\ s'[1] = Magnitude(s[1]) /\ s' \in [Registers -> Int]
      /\ s'[2] = s[2] /\ s'[3] = s[3] /\ s'[4] = s[4]
  <2>1. 2^W - 1 - (s[1] - 1) = 2^W - s[1] /\ 2^W - s[1] \in Int
    BY <1>3
  <2> QED
    BY <1>1, <1>2, <2>1 DEF Magnitude, Registers
<1>5. MeterTypes'
  <2>1. \A i \in 1 .. 4 : s'[i] \in Byte
    BY <1>2, <1>3, <1>4, MagnitudeIsByte
  <2> QED
    BY <1>1, <1>4, <2>1 DEF BarInv, MeterTypes, IsrLabels
<1>6. whole' => BlockInv'
  <2>1. Total' = Total
    BY <1>4 DEF Total, Scale
  <2> QED
    BY <1>1, <1>4, <2>1 DEF BarInv, BlockInv, Scale
<1> QED
  BY <1>5, <1>6 DEF BarInv

LEMMA AddDataKeepsBlock == BarInv /\ AddData => BarInv'
<1> SUFFICES ASSUME BarInv, AddData PROVE BarInv'
  OBVIOUS
<1>1. /\ isr = "ADD_DATA" /\ isr' = "INCREMENT_COUNTER"
      /\ UNCHANGED <<led0, preserved, sum_1, sum_2, counter, block, taken, whole>>
      /\ s' = [s EXCEPT ![2] = (@ + s[1]) % Scale,
                        ![3] = (@ + (s[2] + s[1]) \div Scale) % Scale]
  BY DEF AddData, main, memory, meterhistory, Scale
<1>2. s \in [Registers -> Int] /\ \A i \in 1 .. 4 : s[i] \in Byte
  BY <1>1 DEF BarInv, MeterTypes
<1>3. /\ s[1] \in 0 .. Scale - 1 /\ s[2] \in 0 .. Scale - 1
      /\ s[3] \in 0 .. Scale - 1 /\ s[4] \in 0 .. Scale - 1
  BY <1>2 DEF Byte, Scale
<1> DEFINE lo == (s[2] + s[1]) % Scale
           hi == (s[3] + ((s[2] + s[1]) \div Scale)) % Scale
<1>4. /\ lo \in 0 .. Scale - 1 /\ hi \in 0 .. Scale - 1
      /\ s[2] + Scale * s[3] + s[1] < Scale * Scale =>
           lo + Scale * hi = s[2] + Scale * s[3] + s[1]
  <2>1. PICK B, a, low, high : B = Scale /\ a = s[1] /\ low = s[2] /\ high = s[3]
    OBVIOUS
  <2>2. B \in Nat \ {0} /\ a \in 0 .. B - 1 /\ low \in 0 .. B - 1 /\ high \in 0 .. B - 1
    BY <1>3, <2>1, ScalePositive
  <2>3. /\ (low + a) % B \in 0 .. B - 1
        /\ (high + ((low + a) \div B)) % B \in 0 .. B - 1
        /\ low + B * high + a < B * B =>
             ((low + a) % B) + B * ((high + ((low + a) \div B)) % B) = low + B * high + a
    BY ONLY ZenonT(40), <2>2, Carry
  <2> QED
    BY <2>1, <2>3
<1>5. s' = [s EXCEPT ![2] = lo, ![3] = hi]
  BY <1>1
<1> HIDE DEF lo, hi
<1>6. s'[1] = s[1] /\ s'[2] = lo /\ s'[3] = hi /\ s'[4] = s[4]
  BY <1>2, <1>5 DEF Registers
<1>7. MeterTypes'
  <2>1. s' \in [Registers -> Int]
    <3>1. lo \in Int /\ hi \in Int
      BY <1>4, ScalePositive
    <3> QED
      BY <1>2, <1>5, <3>1
  <2>2. \A i \in 1 .. 4 : s'[i] \in Byte
    BY <1>3, <1>4, <1>6 DEF Byte, Scale
  <2> QED
    BY <1>1, <2>1, <2>2 DEF BarInv, MeterTypes, IsrLabels
<1>8. ASSUME whole' PROVE BlockInv'
  <2>1. /\ s[2] + Scale * s[3] + s[1] = block /\ block <= taken * (Scale - 1)
        /\ s[4] = taken - 1 /\ block \in Nat /\ taken \in Nat
    BY <1>1, <1>8 DEF BarInv, BlockInv, MeterTypes, Total
  <2>2. block < Scale * Scale
    <3>1. taken \in 0 .. Scale
      BY <1>3, <2>1, ScalePositive
    <3> QED
      BY <2>1, <3>1, BlockFits, ScalePositive
  <2>3. Total' = block
    BY <1>4, <1>6, <2>1, <2>2 DEF Total, Scale
  <2> QED
    BY <1>1, <1>6, <2>1, <2>3 DEF BlockInv, Scale
<1> QED
  BY <1>7, <1>8 DEF BarInv

LEMMA CountKeepsBlock == BarInv /\ IncrementCounter => BarInv'
<1> SUFFICES ASSUME BarInv, IncrementCounter PROVE BarInv'
  OBVIOUS
<1>1. /\ isr = "INCREMENT_COUNTER"
      /\ UNCHANGED <<led0, preserved, sum_1, sum_2, counter, block, taken, whole>>
      /\ s' = [s EXCEPT ![4] = (s[4] + 1) % Scale]
      /\ isr' = IF s[4] + 1 = Scale THEN "UPDATE_LED" ELSE "STORE_DATA"
  BY DEF IncrementCounter, main, memory, meterhistory, Scale
<1>2. s \in [Registers -> Int] /\ \A i \in 1 .. 4 : s[i] \in 0 .. Scale - 1
  BY <1>1 DEF BarInv, MeterTypes, Byte, Scale
<1>3. s[4] \in 0 .. Scale - 1
  BY <1>2
<1>4. (s[4] + 1) % Scale = IF s[4] + 1 = Scale THEN 0 ELSE s[4] + 1
  BY <1>3, ScalePositive
<1>5. (s[4] + 1) % Scale \in 0 .. Scale - 1
  BY <1>3, <1>4, ScalePositive
<1>6. s'[1] = s[1] /\ s'[2] = s[2] /\ s'[3] = s[3] /\ s'[4] = (s[4] + 1) % Scale
  BY <1>1, <1>2 DEF Registers
<1>7. MeterTypes'
  <2>1. s' \in [Registers -> Int]
    <3>1. (s[4] + 1) % Scale \in Int
      BY <1>5, ScalePositive
    <3> QED
      BY <1>1, <1>2, <3>1
  <2>2. \A i \in 1 .. 4 : s'[i] \in Byte
    BY <1>2, <1>5, <1>6 DEF Byte, Scale
  <2> QED
    BY <1>1, <2>1, <2>2 DEF BarInv, MeterTypes, IsrLabels
<1>8. ASSUME whole' PROVE BlockInv'
  <2>1. /\ Total = block /\ block <= taken * (Scale - 1)
        /\ s[4] = taken - 1 /\ taken \in Nat
    BY <1>1, <1>8 DEF BarInv, BlockInv, MeterTypes
  <2>2. Total' = Total
    BY <1>6 DEF Total, Scale
  <2>3. CASE s[4] + 1 = Scale
    <3>1. taken = Scale /\ isr' = "UPDATE_LED"
      BY <1>1, <2>1, <2>3
    <3> QED
      BY <1>1, <2>1, <2>2, <3>1 DEF BlockInv, Scale
  <2>4. CASE s[4] + 1 # Scale
    <3>1. s'[4] = taken /\ isr' = "STORE_DATA"
      BY <1>1, <1>4, <1>6, <2>1, <2>4
    <3> QED
      BY <1>1, <2>1, <2>2, <3>1 DEF BlockInv, Scale
  <2> QED
    BY <2>3, <2>4
<1> QED
  BY <1>7, <1>8 DEF BarInv

LEMMA ResetKeepsBlock == BarInv /\ (UpdateLed \/ ResetAllVal \/ StoreData) => BarInv'
<1> SUFFICES ASSUME BarInv PROVE UpdateLed \/ ResetAllVal \/ StoreData => BarInv'
  OBVIOUS
<1>1. ASSUME UpdateLed PROVE BarInv'
  <2>1. /\ isr = "UPDATE_LED" /\ isr' = "RESET_ALL_VAL"
        /\ UNCHANGED <<led0, s, memory, block, taken, whole>>
    BY <1>1 DEF UpdateLed, main, meterhistory
  <2> QED
    BY <2>1 DEF BarInv, MeterTypes, BlockInv, IsrLabels, memory, Scale
<1>2. ASSUME ResetAllVal PROVE BarInv'
  <2>1. /\ isr = "RESET_ALL_VAL" /\ isr' = "STORE_DATA"
        /\ UNCHANGED <<led0, memory>>
        /\ block' = 0 /\ taken' = 0
        /\ s' = [s EXCEPT ![2] = 0, ![3] = 0, ![4] = 0]
    BY <1>2 DEF ResetAllVal, main
  <2>2. s \in [Registers -> Int] /\ \A i \in 1 .. 4 : s[i] \in Byte
    BY <2>1 DEF BarInv, MeterTypes
  <2>3. s' \in [Registers -> Int] /\ s'[1] = s[1] /\ s'[2] = 0 /\ s'[3] = 0 /\ s'[4] = 0
    BY <2>1, <2>2 DEF Registers
  <2>4. 0 \in Byte /\ Scale * 0 = 0 /\ 0 * (Scale - 1) = 0
    BY ScalePositive DEF Byte, Scale
  <2>5. MeterTypes'
    <3>1. \A i \in 1 .. 4 : s'[i] \in Byte
      BY <2>2, <2>3, <2>4
    <3> QED
      BY <2>1, <2>3, <3>1 DEF BarInv, MeterTypes, IsrLabels, memory
  <2>6. BlockInv'
    <3>1. Total' = 0
      BY <2>3, <2>4 DEF Total, Scale
    <3> QED
      BY <2>1, <2>3, <2>4, <3>1 DEF BlockInv, Scale
  <2> QED
    BY <2>5, <2>6 DEF BarInv
<1>3. ASSUME StoreData PROVE BarInv'
  <2>1. /\ isr = "STORE_DATA" /\ isr' = "none"
        /\ UNCHANGED <<led0, preserved, block, taken, whole>>
        /\ sum_1' = s[2] /\ sum_2' = s[3] /\ counter' = s[4] /\ s' = preserved
    BY <1>3 DEF StoreData, main, meterhistory
  <2>2. s[2] \in Byte /\ s[3] \in Byte /\ s[4] \in Byte
    BY <2>1 DEF BarInv, MeterTypes
  <2>3. MeterTypes'
    BY <2>1, <2>2 DEF BarInv, MeterTypes, IsrLabels
  <2>4. whole' => BlockInv'
    BY <2>1 DEF BarInv, BlockInv, Total, Scale
  <2> QED
    BY <2>3, <2>4 DEF BarInv
<1> QED
  BY <1>1, <1>2, <1>3

LEMMA BarNext == BarInv /\ [MeterNext]_metervars => BarInv'
<1> SUFFICES ASSUME BarInv, [MeterNext]_metervars PROVE BarInv'
  OBVIOUS
<1>1. CASE UNCHANGED metervars
  BY <1>1 DEF BarInv, MeterTypes, BlockInv, Total, Scale, metervars, memory, meterhistory
<1>2. CASE MeterNext
  BY <1>2, MainKeepsBlock, SaveKeepsBlock, SampleKeepsBlock, PositiveKeepsBlock,
     AddDataKeepsBlock, CountKeepsBlock, ResetKeepsBlock DEF MeterNext, Isr
<1> QED
  BY <1>1, <1>2

(* From the second block on the bar is brought up to date after exactly    *)
(* 2^W samples and shows their average, for every width of the registers   *)
(* and whatever the scratchpad held at power-up (pracPICO.psm:345-399).    *)
THEOREM AverageShown == MeterSpec => BarShowsAverage
<1>1. BarInv /\ [MeterNext]_metervars =>
        [isr = "UPDATE_LED" /\ whole =>
           taken = 2^W /\ (block >= 2^W => led' = Lights(block \div 2^W))]_metervars
  <2> SUFFICES ASSUME BarInv, MeterNext, isr = "UPDATE_LED", whole
               PROVE  taken = Scale /\ (block >= Scale => led' = Lights(block \div Scale))
    BY DEF Scale
  <2>1. UpdateLed
    BY DEF MeterNext, Main, Interrupt, Isr, Save, Sample, Positive, AddData,
       IncrementCounter, ResetAllVal, StoreData
  <2>2. /\ taken = Scale /\ s[2] + Scale * s[3] = block /\ block \in Nat
        /\ s[2] \in 0 .. Scale - 1 /\ s[3] \in 0 .. Scale - 1
    BY DEF BarInv, MeterTypes, BlockInv, Total, Byte, Scale
  <2>3. s[3] \in Int
    BY <2>2, ScalePositive
  <2>4. s[3] = block \div Scale /\ (block >= Scale => s[3] # 0)
    BY <2>2, <2>3, HighDigit, ScalePositive
  <2> QED
    BY <2>1, <2>2, <2>4 DEF UpdateLed
<1> QED
  BY BarStarts, BarNext, <1>1, PTL DEF MeterSpec, BarShowsAverage
=============================================================================
