--------------------------- MODULE KeyboardControl ---------------------------
(***************************************************************************)
(* keyboard_control.sv: start, stop and direction from the last key typed. *)
(* The input is the code of that key, a level that stays until the next    *)
(* key, so the machine sees it at every clock edge.  Upper and lower case  *)
(* are the same key; every key that is not a command is "other".           *)
(***************************************************************************)

VARIABLE control

KeyCodes == {"E", "D", "B", "F", "other"}
ControlStates == {"check_key", "start_forward", "start_backward",
                  "stop_forward", "stop_backward"}

ControlInit == control = "check_key"

(* Outputs, decoded from the state bits. *)
startstop == control \in {"start_forward", "start_backward"}
direction == control \in {"start_forward", "stop_forward"}   \* forward?

(* The moves the case statement lists; any other key leaves the state. *)
Moves ==
  {<<"check_key", "E", "start_forward">>,      <<"check_key", "B", "start_backward">>,
   <<"start_forward", "D", "stop_forward">>,   <<"start_forward", "B", "start_backward">>,
   <<"start_backward", "F", "start_forward">>, <<"start_backward", "D", "stop_backward">>,
   <<"stop_forward", "E", "start_forward">>,   <<"stop_forward", "B", "stop_backward">>,
   <<"stop_backward", "E", "start_backward">>, <<"stop_backward", "F", "stop_forward">>}

Command(key) == \E to \in ControlStates :
                  <<control, key, to>> \in Moves /\ control' = to

NoCommand(key) == /\ \A to \in ControlStates : <<control, key, to>> \notin Moves
                  /\ UNCHANGED control

ControlStep(key) == Command(key) \/ NoCommand(key)
=============================================================================
