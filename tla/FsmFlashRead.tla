---------------------------- MODULE FsmFlashRead ----------------------------
(***************************************************************************)
(* fsm_flash_read.sv and address_controller.sv: the reader of the iPod     *)
(* (lab 2).  One word is read per turn of the state machine: the address   *)
(* moves on, the read strobe goes up and stays up while the reader waits   *)
(* for the sound to be played.  Both resets are tied to 0 in the design.   *)
(*                                                                         *)
(* The inputs of the module are the parameters of the step operators; one  *)
(* step is one rising edge of CLOCK_50.                                    *)
(***************************************************************************)
EXTENDS Integers

CONSTANT Finish           \* last address of the song (23'h7FFFF)
ASSUME FinishAssumption == Finish \in Nat \ {0}

VARIABLES reader,         \* the reader's state
          address         \* address_to_read, also flash_mem_address

ReaderStates == {"idle", "get_read_address", "send_read_address", "finished"}
Addresses    == 0 .. Finish

ReaderInit == reader = "idle" /\ address = 0

(* Outputs, decoded from the state bits. *)
flash_mem_readFault ==   \* fault: the strobe is up for one cycle only
  reader = "send_read_address"

flash_mem_read == reader \in {"send_read_address", "finished"}
finish_read    == reader = "finished"

get_addressFault ==  \* fault: the state bits overlap
  reader \in {"get_read_address", "send_read_address"}

get_address == reader = "get_read_address"

Following(a) == IF a = Finish THEN 0 ELSE a + 1
Preceding(a) == IF a = 0 THEN Finish ELSE a - 1

AddressStep(forward) ==
  address' = IF ~ get_address THEN address
             ELSE IF forward THEN Following(address) ELSE Preceding(address)

StartReadFault(start) ==  \* fault: start is not looked at
  /\ reader = "idle"
  /\ reader' = "get_read_address"

StartRead(start) ==
  /\ reader = "idle"
  /\ reader' = IF start THEN "get_read_address" ELSE "idle"

GetAddress  == reader = "get_read_address"  /\ reader' = "send_read_address"
SendAddress == reader = "send_read_address" /\ reader' = "finished"

AwaitSound(sound_finish) ==
  /\ reader = "finished"
  /\ reader' = IF sound_finish THEN "idle" ELSE "finished"

ReaderStep(start, forward, sound_finish) ==
  /\ StartRead(start) \/ GetAddress \/ SendAddress \/ AwaitSound(sound_finish)
  /\ AddressStep(forward)
=============================================================================
