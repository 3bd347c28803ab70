------------------------------- MODULE MCParts -------------------------------
(***************************************************************************)
(* The small parts of lab 5 that share nothing with one another, in one    *)
(* model for TLC: the frequency keying interrupt, the alarms and the file  *)
(* descriptors of the HAL, the locks of newlib, the memory partitions and  *)
(* the bit maps of the kernel.  A behaviour runs one of them, the others   *)
(* stay as they start.                                                     *)
(***************************************************************************)
EXTENDS LfsrIsr, Alarms, HalFiles, NewlibLocks, OsMem, ReadyList

VARIABLE part

allvars == <<part, lvars, avars, fvars, nvars, mvars, rvars>>

\* Two partitions, of two blocks and of three.
Areas == {[addr |-> 1, n |-> 2], [addr |-> 3, n |-> 3]}

Init ==
  /\ part \in {"keying", "alarms", "files", "locks", "partitions", "maps"}
  /\ LfsrInit /\ AlarmInit /\ FilesInit /\ NewlibInit /\ MemInit /\ RInit
  /\ part # "keying" => age = 0 /\ ~ capture
  /\ part # "alarms" => nticks = 0
  /\ part # "locks" => lock = "heap"

Keying     == LfsrNext /\ UNCHANGED <<avars, fvars, nvars, mvars, rvars>>
Ticking(A) == A /\ UNCHANGED <<lvars, fvars, nvars, mvars, rvars>>
Files      == FilesNext /\ UNCHANGED <<lvars, avars, nvars, mvars, rvars>>
Library    == NewlibNext /\ UNCHANGED <<lvars, avars, fvars, mvars, rvars>>
Partitions == MemNext /\ UNCHANGED <<lvars, avars, fvars, nvars, rvars>>
Maps       == RNext /\ UNCHANGED <<lvars, avars, fvars, nvars, mvars>>

Next ==
  /\ UNCHANGED part
  /\ \/ part = "keying" /\ Keying
     \/ part = "alarms" /\ Ticking(AlarmNext)
     \/ part = "files" /\ Files
     \/ part = "locks" /\ Library
     \/ part = "partitions" /\ Partitions
     \/ part = "maps" /\ Maps

Spec ==
  /\ Init /\ [][Next]_allvars
  /\ WF_allvars(part = "keying" /\ Keying /\ UNCHANGED part)
  /\ WF_allvars(part = "alarms" /\ Ticking(alt_tick) /\ UNCHANGED part)

\* Interrupts end: the processor gets back to its tasks after every edge of the
\* LFSR clock, and every walk of alt_tick over its list comes to an end as long as
\* no callback stops an alarm that is not its own.
InterruptsEnd == TasksGoOn /\ TickEnds
=============================================================================
