----------------------------- MODULE SampleClock -----------------------------
(***************************************************************************)
(* The sample clock of lab 2: speed_controller.sv holds the divisor,       *)
(* clk_divider.v divides CLOCK_50 by it, and clock_sync.sv turns each      *)
(* rising edge of the divided clock into a pulse of one CLOCK_50 cycle.    *)
(* One step is one rising edge of CLOCK_50 and what follows it at once:    *)
(* the divided clock may rise and with it the first flip-flop of           *)
(* clock_sync, or that flip-flop may be reset.                             *)
(***************************************************************************)
EXTENDS Integers

CONSTANTS
  Width,       \* number of values of the 28-bit divisor and counter
  Standard,    \* the divisor of 22 kHz (28'd2273)
  Press,       \* what one press changes the divisor by (5)
  Fastest,     \* bound: no press takes the divisor below this value
  Slowest      \* bound: no press takes the divisor above this value

ASSUME DivisorAssumption ==
  /\ Width \in Nat /\ Press \in Nat \ {0}
  /\ Standard \in Fastest .. Slowest
  /\ Fastest \in 2 .. Slowest /\ Slowest \in 0 .. Width - 1

VARIABLES
  divisor,                  \* temp_divisor of speed_controller
  cycle_count, outclk,      \* clk_divider
  ff1, ff2, ff3, ff4,       \* clock_sync; ff4 is sync_signal
  owed                      \* history: edges of outclk not yet pulsed

flops == <<ff1, ff2, ff3, ff4>>
clockvars == <<divisor, cycle_count, outclk, flops, owed>>

ClockInit ==
  /\ divisor = Standard
  /\ cycle_count = 0 /\ outclk = FALSE
  /\ ff1 = FALSE /\ ff2 = FALSE /\ ff3 = FALSE /\ ff4 = FALSE
  /\ owed = 0

(* speed_controller; the bounds are on the presses, not in the code. *)
Faster == divisor - Press >= Fastest /\ divisor' = (divisor - Press) % Width
Slower == divisor + Press <= Slowest /\ divisor' = (divisor + Press) % Width
SpeedStep == Faster \/ Slower \/ divisor' = Standard \/ divisor' = divisor

(* clk_divider compares 32-bit unsigned values: with a divisor below 2 the   *)
(* right-hand side wraps and is never reached.                               *)
Toggles == divisor >= 2 /\ cycle_count >= (divisor \div 2) - 1

DividerStep ==
  /\ outclk' = IF Toggles THEN ~ outclk ELSE outclk
  /\ cycle_count' = IF Toggles THEN 0 ELSE (cycle_count + 1) % Width

edgedetect == ff3 /\ ~ ff4

(* ff1 is set by the rise of outclk and reset while outclk is low and ff3   *)
(* high.  A rise that meets the reset finds the flip-flop recovering: it may *)
(* or may not be set.                                                        *)
TrapFault ==   \* fault: ff1 is never reset
  ff1' = (ff1 \/ (~ outclk /\ outclk'))

Trap ==
  ff1' \in IF ~ outclk /\ outclk' THEN (IF ff3 THEN BOOLEAN ELSE {TRUE})
           ELSE IF ~ outclk' /\ ff3' THEN {FALSE}
           ELSE {ff1}

SyncStep ==
  /\ ff2' = ff1 /\ ff3' = ff2 /\ ff4' = ff3
  /\ Trap

(* The count stops at -1 and 2: by then OnePulsePerEdge is already broken.  *)
CountOwed ==
  LET count == owed + (IF ~ outclk /\ outclk' THEN 1 ELSE 0)
                    - (IF edgedetect' THEN 1 ELSE 0)
  IN  owed' = IF count \in -1 .. 2 THEN count ELSE owed

ClockTick == SpeedStep /\ DividerStep /\ SyncStep /\ CountOwed

ClockSpec == ClockInit /\ [][ClockTick]_clockvars /\ WF_clockvars(ClockTick)

-----------------------------------------------------------------------------
(* Every rising edge of the sample clock gives one pulse, neither lost nor   *)
(* doubled, whatever the user does to the speed meanwhile: at most the edge  *)
(* just seen is still owed (clock_sync.sv:7-13, clk_divider.v:33-39).        *)
OnePulsePerEdge == owed \in {0, 1}

(* The player is never left without sample edges (sound_out.sv:40, 46).      *)
PulsesForEver == []<>edgedetect
=============================================================================
