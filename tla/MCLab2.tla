------------------------------- MODULE MCLab2 -------------------------------
(* Lab 2 for TLC: the song player, the sample clock and the audio meter, which
   share no register.  A behaviour runs one of them, the others stay as they
   start.  Each delay loop of the meter turns once, but for that of s1, which
   turns twice. *)
EXTENDS Ipod, SampleClock, AudioMeter

VARIABLE part

MCLoops == [i \in Registers |-> IF i = 1 THEN 2 ELSE 1]

allvars == <<part, vars, clockvars, metervars>>

MCInit ==
  /\ part \in {"player", "clock", "meter"}
  /\ Init /\ ClockInit /\ MeterInit
  /\ part # "player" => ~ waitrequest
  /\ part # "meter" => sum_1 = 0 /\ sum_2 = 0 /\ counter = 0

Player == part = "player" /\ Tick /\ UNCHANGED <<part, clockvars, metervars>>
Clock  == part = "clock" /\ ClockTick /\ UNCHANGED <<part, vars, metervars>>
Meter  == part = "meter" /\ MeterNext /\ UNCHANGED <<part, vars, clockvars>>

MCSpec ==
  /\ MCInit /\ [][Player \/ Clock \/ Meter]_allvars
  /\ (part = "player" => Fairness) /\ WF_allvars(Clock)

\* While it is not stopped the player plays on, and the sample clock that it
\* waits for never stops pulsing.
SoundGoesOn == PlaysOn /\ (part = "clock" => PulsesForEver)
=============================================================================
