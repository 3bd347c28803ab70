------------------------------ MODULE SoundOut ------------------------------
(***************************************************************************)
(* sound_out.sv: plays the two samples of one flash word, at two edges of  *)
(* the sample clock.  A sample is the pair of the word it comes from and   *)
(* its half: "early" for bits 15..8 and "late" for bits 31..24.            *)
(***************************************************************************)
EXTENDS Integers

CONSTANT NoWord           \* what buffer and sound hold before the first read

VARIABLES player,         \* sound_out's state
          buffer,         \* the word being played
          sound           \* the sample on the audio output

PlayerStates == {"idle", "read", "wait1", "audio1", "wait2", "audio2",
                 "finished_sound"}

PlayerInit == player = "idle" /\ buffer = NoWord /\ sound = <<NoWord, "early">>

finish_sound == player = "finished_sound"

(* While waiting for the first edge the bus is copied at every clock edge. *)
BufferStep(readdata) ==
  buffer' = IF player = "wait1" THEN readdata ELSE buffer

SoundStepFault(forward) ==   \* fault: the second sample is the first half again
  sound' = CASE player \in {"audio1", "audio2"} ->
                  <<buffer, IF forward THEN "early" ELSE "late">>
             [] OTHER -> sound

(* Forward plays the early half first, backward the late one. *)
SoundStep(forward) ==
  sound' = CASE player = "audio1" -> <<buffer, IF forward THEN "early" ELSE "late">>
             [] player = "audio2" -> <<buffer, IF forward THEN "late" ELSE "early">>
             [] OTHER             -> sound

Begin(start) ==
  /\ player = "idle"
  /\ player' = IF start THEN "read" ELSE "idle"

AwaitDataFault(readdatavalid) ==   \* fault: plays what is on the bus
  /\ player = "read"
  /\ player' = "wait1"

AwaitData(readdatavalid) ==
  /\ player = "read"
  /\ player' = IF readdatavalid THEN "wait1" ELSE "read"

AwaitEdge(edgedetect) ==
  \/ player = "wait1" /\ player' = IF edgedetect THEN "audio1" ELSE "wait1"
  \/ player = "wait2" /\ player' = IF edgedetect THEN "audio2" ELSE "wait2"

Play ==
  \/ player = "audio1"         /\ player' = "wait2"
  \/ player = "audio2"         /\ player' = "finished_sound"
  \/ player = "finished_sound" /\ player' = "idle"

PlayerStep(start, readdatavalid, readdata, edgedetect, forward) ==
  /\ Begin(start) \/ AwaitData(readdatavalid) \/ AwaitEdge(edgedetect) \/ Play
  /\ BufferStep(readdata)
  /\ SoundStep(forward)
=============================================================================
