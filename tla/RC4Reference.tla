---------------------------- MODULE RC4Reference ----------------------------
(***************************************************************************)
(* The RC4 cipher as a pure function, the definition against which the     *)
(* lab 4 hardware is judged.  The hardware works on N = 256 one-byte cells *)
(* and a 24-bit secret read as three key bytes; here N is a parameter, so  *)
(* a secret is a number below N^3.  Recursion is by recursive functions.   *)
(***************************************************************************)
EXTENDS Integers

CONSTANTS
  N,          \* number of byte values and of cells of the S memory (256)
  MsgLen,     \* bytes of the encrypted message (32)
  Valid,      \* the characters a decrypted message may hold
  ByteXor(_, _)  \* bitwise exclusive or on bytes

ASSUME NAssumption == N \in Nat \ {0, 1}
ASSUME MsgLenAssumption == MsgLen \in 1 .. N - 1
ASSUME ValidAssumption == Valid \subseteq 0 .. N - 1
ASSUME XorAssumption ==
  \A a, b \in 0 .. N - 1 : ByteXor(a, b) \in 0 .. N - 1

Byte    == 0 .. N - 1
LastKey == N * N * N - 1
Keys    == 0 .. LastKey

(* secret_key[0], [1], [2]: the bytes of the secret, most significant first. *)
KeyByte(s, n) == CASE n = 0 -> s \div (N * N)
                   [] n = 1 -> (s \div N) % N
                   [] n = 2 -> s % N

Swapped(S, a, b) == [S EXCEPT ![a] = S[b], ![b] = S[a]]

(* Key scheduling: S and j after the first n exchanges. *)
KeySchedule(s) ==
  LET ks[n \in 0 .. N] ==
        IF n = 0
        THEN [S |-> [c \in Byte |-> c], j |-> 0]
        ELSE LET p == ks[n - 1]
                 j == (p.j + p.S[n - 1] + KeyByte(s, (n - 1) % 3)) % N
             IN  [S |-> Swapped(p.S, n - 1, j), j |-> j]
  IN  ks

(* Generation: S, i, j and the key-stream byte after n rounds. *)
KeyStream(s) ==
  LET gen[n \in 0 .. MsgLen] ==
        IF n = 0
        THEN [S |-> KeySchedule(s)[N].S, i |-> 0, j |-> 0, byte |-> 0]
        ELSE LET p == gen[n - 1]
                 i == (p.i + 1) % N
                 j == (p.j + p.S[i]) % N
                 T == Swapped(p.S, i, j)
             IN  [S |-> T, i |-> i, j |-> j, byte |-> T[(T[i] + T[j]) % N]]
  IN  gen

(* The key-stream bytes of every key. *)
KeyStreams == [s \in Keys |-> [m \in 0 .. MsgLen - 1 |-> KeyStream(s)[m + 1].byte]]

(* The decrypted message, byte 0 .. MsgLen - 1. *)
Decryption(s, msg) ==
  [m \in 0 .. MsgLen - 1 |-> ByteXor(KeyStreams[s][m], msg[m])]

(* The key yields a message of valid characters only. *)
Accepted(s, msg) == \A m \in 0 .. MsgLen - 1 : Decryption(s, msg)[m] \in Valid
=============================================================================
