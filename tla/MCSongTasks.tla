---------------------------- MODULE MCSongTasks ----------------------------
(* SongTasks for TLC: a short song, and three sets of buttons; a behaviour
   keeps to one of them. *)
EXTENDS SongTasks

Player == [does : {"play", "pause", "stop"}, n : {0}]
Panel == [does : {"modulation", "signal"}, n : {0, 3}] \cup [does : {"back", "ford", "none"}, n : {0}]
Both == [does : {"play", "stop", "ford"}, n : {0}]

AllButtons == Player \cup Panel

VARIABLE reach   \* the buttons the user goes to

MCInit == Init /\ reach \in {Player, Panel, Both} /\ over \in reach
MCNext == Next /\ over' \in reach /\ UNCHANGED reach
MCSpec == MCInit /\ [][MCNext]_<<svars, reach>> /\ Fairness
=============================================================================
