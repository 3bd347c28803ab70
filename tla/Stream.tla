-------------------------------- MODULE Stream --------------------------------
(***************************************************************************)
(* What a character device promises: the characters come out in the order  *)
(* they went in, none lost, doubled or changed.                            *)
(***************************************************************************)
EXTENDS Sequences, Integers

CONSTANTS Char, Most   \* the characters, and the most put in or taken at once

VARIABLES line,  \* what has been put in and not taken out
          out    \* what was last taken out

StInit == line = <<>> /\ out = <<>>

Put == /\ \E n \in 1 .. Most : \E s \in [1 .. n -> Char] : line' = line \o s
       /\ UNCHANGED out

Take == \E n \in 1 .. Len(line) :
          /\ out' = SubSeq(line, 1, n)
          /\ line' = SubSeq(line, n + 1, Len(line))

StSpec == StInit /\ [][Put \/ Take]_<<line, out>>
=============================================================================
