-------------------------------- MODULE Ipod --------------------------------
(***************************************************************************)
(* The player of lab 2 as simple_ipod_solution.v composes it: the flash    *)
(* reader, the sound output and the keyboard control, all on CLOCK_50, with *)
(* the flash controller, the sample clock and the user around them.        *)
(*                                                                         *)
(* The flash controller is not in the repository.  It is modelled as its   *)
(* interface is used, with bursts of one word: at every clock edge at      *)
(* which the strobe is up and waitrequest is not it takes a read of the    *)
(* address on the pins, and answers the reads in the order it took them,   *)
(* each by one cycle of readdatavalid; readdata then keeps the word.  The  *)
(* strobe stays up until the sound is over, so one word is asked for many  *)
(* times, and the last answers may come when the next word is read.        *)
(***************************************************************************)
EXTENDS FsmFlashRead, SoundOut, KeyboardControl

CONSTANTS
  Latencies,       \* clock edges from a read taken to its readdatavalid
  Longest,         \* the largest of them
  Patience,        \* clock edges in a row at which a strobe meets waitrequest, at most
  Gap              \* clock edges without a sample edge between two of them, at least

\* Between two sample edges the flash has the time for the last read of a word
\* and the first of the next (50 MHz against 22 kHz).
ASSUME FlashAssumption ==
  /\ Longest \in Nat \ {0} /\ Latencies \subseteq 1 .. Longest /\ Longest \in Latencies
  /\ Patience \in Nat
  /\ Gap \in Nat /\ Gap >= 2 * Longest + Patience
ASSUME NoWordAssumption == NoWord \notin Addresses

VARIABLES
  key,             \* kbd_received_ascii_code
  since,           \* clock edges since the last sample edge, counted up to Gap
  waitrequest, readdatavalid, readdata,
  waited,          \* clock edges the strobe has met waitrequest at
  coming,          \* the answers under way: the word that comes in so many edges
  played           \* history: the word last played, NoWord before the first

flash == <<waitrequest, readdatavalid, readdata, waited, coming>>
vars  == <<reader, address, player, buffer, sound, control, key, since, flash, played>>

Init ==
  /\ ReaderInit /\ PlayerInit /\ ControlInit
  /\ key = "other" /\ since = Gap
  /\ waitrequest \in BOOLEAN /\ (Patience = 0 => ~ waitrequest) /\ waited = 0
  /\ readdatavalid = FALSE /\ readdata = NoWord
  /\ coming = [i \in 1 .. Longest |-> NoWord]
  /\ played = NoWord

-----------------------------------------------------------------------------
(* The flash controller. *)

(* One edge later: the first of the answers under way is on the bus.       *)
Deliver(answers) ==
  /\ readdatavalid' = (answers[1] # NoWord)
  /\ readdata' = IF answers[1] # NoWord THEN answers[1] ELSE readdata
  /\ coming' = [i \in 1 .. Longest |-> IF i < Longest THEN answers[i + 1] ELSE NoWord]

(* A read is taken: its answer comes after those of the reads before it.   *)
AcceptRead ==
  /\ flash_mem_read /\ ~ waitrequest
  /\ \E latency \in Latencies :
       /\ \A i \in latency .. Longest : coming[i] = NoWord
       /\ Deliver([coming EXCEPT ![latency] = address])

NoRead == ~ (flash_mem_read /\ ~ waitrequest) /\ Deliver(coming)

WaitStep ==
  /\ waited' = IF flash_mem_read /\ waitrequest THEN waited + 1 ELSE 0
  /\ waitrequest' \in IF waited' < Patience THEN BOOLEAN ELSE {FALSE}

FlashStep == (AcceptRead \/ NoRead) /\ WaitStep

(* The sample clock is far slower than CLOCK_50: an edge of it is a single  *)
(* cycle of edgedetect, and Gap cycles at least pass before the next.       *)
readNow    == since = 0
SampleStep == since' \in IF since < Gap THEN {since + 1} ELSE {0, Gap}

UserStep == key' \in KeyCodes

HistoryStep == played' = IF player = "audio2" THEN buffer ELSE played

(* One rising edge of CLOCK_50. *)
Tick ==
  /\ ReaderStep(startstop, direction, finish_sound)
  /\ PlayerStep(finish_read, readdatavalid, readdata, readNow, direction)
  /\ ControlStep(key)
  /\ FlashStep /\ SampleStep /\ UserStep
  /\ HistoryStep

Spec == Init /\ [][Tick]_vars

(* The sample clock never stops, and CLOCK_50 with it.  Nothing is assumed  *)
(* of the user.                                                             *)
Fairness == []<>readNow /\ []<>~readNow
FairSpec == Spec /\ Fairness

-----------------------------------------------------------------------------
(* Properties. *)

(* The word sounded is the word at the address the reader chose: when the   *)
(* bus is copied for the last time the answers to the reads of the word     *)
(* before are over, though one of them may have told the player to go on    *)
(* (sound_out.sv:35-43, 60; fsm_flash_read.sv:15, 21).                      *)
SoundsTheWordRead ==
  player \in {"audio1", "wait2", "audio2", "finished_sound"} => buffer = address

(* Nobody steals a turn: the player works only while the reader waits for   *)
(* it, so that the address stays until the word has been played.            *)
Handshake == reader # "finished" => player = "idle"

Neighbours(a, b) == b \in {Following(a), Preceding(a)}

(* Playback never skips a word nor repeats one, though the flash is asked   *)
(* for each many times: each word sounded is next to the one sounded before *)
(* it, in one direction or the other (address_controller.sv:14-27,          *)
(* sound_out.sv:44-51).                                                     *)
NoWordSkipped ==
  [][player = "audio2" =>
       played = NoWord \/ Neighbours(played, played')]_vars

(* Both halves of a word are played, unless the direction was changed in the *)
(* middle of the word: the second sample is the other half of the first      *)
(* one's word (sound_out.sv:61-69).                                          *)
OtherHalfFollows ==
  [][player = "audio2" /\ (direction <=> sound[2] = "early") =>
       sound'[1] = sound[1] /\ sound'[2] # sound[2]]_vars

(* The player's samples are whole words, played in the order of the song.   *)
WordsInOrder == NoWordSkipped /\ OtherHalfFollows

(* Once a key has been typed to stop the player and nothing restarts it, the *)
(* word being played is finished and no other is begun, whatever waitrequest *)
(* and the late answers do (fsm_flash_read.sv:34-45).                        *)
StopsCleanly == <>[](~ startstop) => <>[](reader = "idle" /\ player = "idle")

(* While it is not stopped the player plays on: the strobe is held until the *)
(* flash takes the read, and a word whose answer came early is answered      *)
(* again (fsm_flash_read.sv:15, 21).                                         *)
PlaysOn == <>[]startstop => []<>(player = "audio2")

-----------------------------------------------------------------------------
(* The inductive invariant behind Handshake and SoundsTheWordRead: what may *)
(* be on the bus, and on its way there, at each point of a turn.            *)
Stale(i) == coming[i] \notin {NoWord, address}
Fresh(i) == coming[i] = address

FlashType ==
  /\ coming \in [1 .. Longest -> Addresses \cup {NoWord}] /\ coming[Longest] = NoWord
  /\ since \in 0 .. Gap /\ waited \in 0 .. Patience
  /\ waitrequest \in BOOLEAN /\ (waited = Patience => ~ waitrequest)
  /\ reader \in ReaderStates /\ player \in PlayerStates /\ address \in Addresses
  /\ readdatavalid \in BOOLEAN

(* Before the strobe goes up the answers under way are those of the word    *)
(* just played, after it those of that word come first; and the last of     *)
(* them was asked for two edges after the second sample.                    *)
AnswersInOrder ==
  /\ reader \in {"idle", "get_read_address"} =>
       /\ readdata \in {NoWord, address}
       /\ \A i \in 1 .. Longest : ~ Stale(i) /\ (Fresh(i) => i + since <= Longest + 2)
  /\ reader = "send_read_address" =>
       readdata # address /\ \A i \in 1 .. Longest : ~ Fresh(i)
  /\ \A i \in 1 .. Longest : Stale(i) => i + since <= Longest + 2
  /\ reader = "finished" => \A i, j \in 1 .. Longest : i < j /\ Fresh(i) => ~ Stale(j)
  /\ reader = "finished" /\ readdata = address => \A i \in 1 .. Longest : ~ Stale(i)

(* The bus holds, or may come to hold, the last word when the player goes on. *)
Behind ==
  /\ reader = "finished" /\ readdata # address
  /\ readdatavalid \/ player = "wait1" \/ \E i \in 1 .. Longest : Stale(i)

(* Then the word asked for comes before the next sample edge.               *)
CatchesUp ==
  Behind =>
    /\ since > 0
    /\ \/ \E i \in 1 .. Longest : Fresh(i) /\ i + since <= 2 * Longest + Patience + 1
       \/ since <= Longest + 1 + waited /\ \A i \in 1 .. Longest : ~ Fresh(i)

TurnInv ==
  /\ FlashType /\ AnswersInOrder /\ CatchesUp
  /\ reader \in {"get_read_address", "send_read_address"} => waited = 0
  /\ reader # "finished" => player = "idle"
  /\ player \in {"audio1", "wait2", "audio2", "finished_sound"} => buffer = address /\ readdata = address
  /\ (player = "audio2" => since = 1) /\ (player = "finished_sound" => since = 2)
=============================================================================
