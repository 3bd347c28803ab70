----------------------------- MODULE AudioMeter -----------------------------
(***************************************************************************)
(* pracPICO.psm: the PicoBlaze program of lab 2.  Its main program blinks   *)
(* LED0 with five nested delay loops; its interrupt routine, run at every   *)
(* sample of the sound, adds up the absolute values of a block of 2^W       *)
(* samples and shows their average as a bar of lights.                     *)
(*                                                                         *)
(* Both use registers s0 to s4.  The processor masks interrupts from the   *)
(* interrupt until RETURNI, and an interrupt may come between any two      *)
(* instructions of the main program.  A pulse that is masked is lost.      *)
(***************************************************************************)
EXTENDS Integers

CONSTANTS
  W,           \* bits of a register (8)
  Loops,       \* Loops[i]: what the delay loop on register i starts from
  Powerup      \* what the scratchpad may hold before it is written

Byte      == 0 .. 2^W - 1
Registers == 0 .. 4

ASSUME MeterAssumption ==
  /\ W \in Nat \ {0}
  /\ Loops \in [Registers -> Byte \ {0}]
  /\ Powerup \subseteq Byte /\ Powerup # {}

VARIABLES
  pc,                    \* of the main program: <<what, on which register>>
  isr,                   \* label of the interrupt routine, "none" outside it
  s,                     \* registers s0 to s4
  preserved,             \* ISR_preserve_s0 to ISR_preserve_s4
  sum_1, sum_2, counter, \* SUM_OF_DATA_1, SUM_OF_DATA_2, COUNTER
  led,                   \* lights of LED_port that are on, from the top
  led0,
  kept,                  \* history: the registers at the interruption
  block,                 \* history: absolute values of this block added up
  taken,                 \* history: samples of this block
  whole                  \* history: this block began with a reset

main         == <<pc, led0>>
memory       == <<preserved, sum_1, sum_2, counter>>
meterhistory == <<kept, block, taken, whole>>
metervars    == <<pc, isr, s, memory, led, led0, meterhistory>>

(* cold_start clears the lights but no word of the scratchpad that the      *)
(* interrupt routine reads.                                                *)
MeterInit ==
  /\ pc = <<"blink", 4>> /\ isr = "none"
  /\ s = [i \in Registers |-> 0] /\ preserved = s
  /\ sum_1 \in Powerup /\ sum_2 \in Powerup /\ counter \in Powerup
  /\ led = 0 /\ led0 = 0
  /\ kept = s /\ block = 0 /\ taken = 0 /\ whole = FALSE

-----------------------------------------------------------------------------
(* The main program. *)

Blink ==
  /\ pc = <<"blink", 4>>
  /\ led0' = 1 - led0 /\ s' = [s EXCEPT ![0] = led0']
  /\ pc' = <<"load", 4>>

(* The routines call one another down from s4: each loads its register and  *)
(* calls the next, or, the last one, counts.                               *)
Into(i) == IF i = 0 THEN <<"count", 0>> ELSE <<"load", i - 1>>

LoadDelay(i) ==
  /\ pc = <<"load", i>>
  /\ s' = [s EXCEPT ![i] = Loops[i]]
  /\ pc' = Into(i) /\ UNCHANGED led0

CountDown(i) ==
  /\ pc = <<"count", i>>
  /\ s' = [s EXCEPT ![i] = (@ - 1) % 2^W]
  /\ pc' = IF s'[i] # 0 THEN Into(i)
           ELSE IF i = 4 THEN <<"blink", 4>> ELSE <<"count", i + 1>>
  /\ UNCHANGED led0

Main ==
  /\ isr = "none"
  /\ Blink \/ \E i \in Registers : LoadDelay(i) \/ CountDown(i)
  /\ UNCHANGED <<isr, memory, led, meterhistory>>

-----------------------------------------------------------------------------
(* The interrupt routine, a label at a time. *)

Interrupt ==
  /\ isr = "none" /\ isr' = "ISR"
  /\ kept' = s
  /\ UNCHANGED <<main, s, memory, led, block, taken, whole>>

SaveFault ==   \* fault: s4 is not preserved
  /\ isr = "ISR" /\ isr' = "INPUT"
  /\ preserved' = [s EXCEPT ![4] = preserved[4]]
  /\ UNCHANGED <<main, s, sum_1, sum_2, counter, led, meterhistory>>

Save ==
  /\ isr = "ISR" /\ isr' = "INPUT"
  /\ preserved' = s
  /\ UNCHANGED <<main, s, sum_1, sum_2, counter, led, meterhistory>>

Negative(b)  == b >= 2^(W - 1)
Magnitude(b) == IF Negative(b) THEN 2^W - b ELSE b

Sample ==
  /\ isr = "INPUT" /\ isr' = "POSITIVE"
  /\ \E audio \in Byte :
       /\ s' = [s EXCEPT ![1] = audio, ![2] = sum_1, ![3] = sum_2, ![4] = counter]
       /\ block' = block + Magnitude(audio)
  /\ taken' = taken + 1
  /\ UNCHANGED <<main, memory, led, kept, whole>>

(* SUB s1, 01 and XOR s1, FF when bit 7 is set. *)
Positive ==
  /\ isr = "POSITIVE" /\ isr' = "ADD_DATA"
  /\ s' = IF Negative(s[1]) THEN [s EXCEPT ![1] = 2^W - 1 - (@ - 1)] ELSE s
  /\ UNCHANGED <<main, memory, led, meterhistory>>

AddData ==
  /\ isr = "ADD_DATA" /\ isr' = "INCREMENT_COUNTER"
  /\ s' = [s EXCEPT ![2] = (@ + s[1]) % 2^W,
                    ![3] = (@ + (s[2] + s[1]) \div 2^W) % 2^W]
  /\ UNCHANGED <<main, memory, led, meterhistory>>

IncrementCounterFault ==   \* fault: the last count is taken for the carry
  /\ isr = "INCREMENT_COUNTER"
  /\ s' = [s EXCEPT ![4] = (@ + 1) % 2^W]
  /\ isr' = IF s'[4] = 2^W - 1 THEN "UPDATE_LED" ELSE "STORE_DATA"
  /\ UNCHANGED <<main, memory, led, meterhistory>>

IncrementCounter ==
  /\ isr = "INCREMENT_COUNTER"
  /\ s' = [s EXCEPT ![4] = (@ + 1) % 2^W]
  /\ isr' = IF s[4] + 1 = 2^W THEN "UPDATE_LED" ELSE "STORE_DATA"
  /\ UNCHANGED <<main, memory, led, meterhistory>>

(* The lights for a number: as many as it has binary digits. *)
Lights(n) == IF n = 0 THEN 0 ELSE 1 + (CHOOSE k \in 0 .. W - 1 : 2^k <= n /\ n < 2^(k + 1))

(* Looks for the highest bit of s3, the average; for none of them does it   *)
(* write to the lights.                                                    *)
UpdateLed ==
  /\ isr = "UPDATE_LED" /\ isr' = "RESET_ALL_VAL"
  /\ led' = IF s[3] = 0 THEN led ELSE Lights(s[3])
  /\ UNCHANGED <<main, s, memory, meterhistory>>

ResetAllVal ==
  /\ isr = "RESET_ALL_VAL" /\ isr' = "STORE_DATA"
  /\ s' = [s EXCEPT ![2] = 0, ![3] = 0, ![4] = 0]
  /\ block' = 0 /\ taken' = 0 /\ whole' = TRUE
  /\ UNCHANGED <<main, memory, led, kept>>

StoreData ==
  /\ isr = "STORE_DATA" /\ isr' = "none"
  /\ sum_1' = s[2] /\ sum_2' = s[3] /\ counter' = s[4]
  /\ s' = preserved
  /\ UNCHANGED <<main, preserved, led, meterhistory>>

Isr == \/ Save \/ Sample \/ Positive \/ AddData \/ IncrementCounter
       \/ UpdateLed \/ ResetAllVal \/ StoreData

MeterNext == Main \/ Interrupt \/ Isr

MeterSpec == MeterInit /\ [][MeterNext]_metervars

-----------------------------------------------------------------------------
(* Properties. *)

(* The main program finds its registers as it left them, wherever in its     *)
(* delay loops it was interrupted (pracPICO.psm:311-315, 338-343).           *)
MainUndisturbed == [][isr # "none" /\ isr' = "none" => s' = kept]_metervars

(* Whatever the scratchpad held at power-up, from the second block on the    *)
(* bar is brought up to date after 2^W samples, and shows their average      *)
(* unless that is zero (pracPICO.psm:331, 345-399).                          *)
BarShowsAverage ==
  [][isr = "UPDATE_LED" /\ whole =>
       taken = 2^W /\ (block >= 2^W => led' = Lights(block \div 2^W))]_metervars

(* What the comment of BIT0 says: an average of zero is shown too            *)
(* (pracPICO.psm:389).                                                       *)
ZeroAverageShown ==
  [][isr = "UPDATE_LED" /\ whole /\ block < 2^W => led' = 0]_metervars

(* Why MainUndisturbed holds: the registers are copied before the routine    *)
(* writes to any, and the copies are not written to again.                   *)
PreserveInv ==
  /\ isr = "ISR" => s = kept
  /\ isr \notin {"none", "ISR"} => preserved = kept
=============================================================================
