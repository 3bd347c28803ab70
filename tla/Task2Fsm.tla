------------------------------ MODULE Task2Fsm ------------------------------
(***************************************************************************)
(* task2_fsm.sv: the state machine that searches the RC4 key space, cycle  *)
(* by cycle, with the three on-chip memories it drives.                    *)
(*                                                                         *)
(* One step is one rising edge of clk.  Every register takes the value     *)
(* computed from the values before the edge (the one blocking assignment,  *)
(* to wren, is the same register in the built circuit).  The memories      *)
(* sample address, data and write enable on the same edge, before the      *)
(* registers change, and their output is unregistered: out_mem is the cell *)
(* at the address sampled last.  A value is therefore readable two edges   *)
(* after its address was assigned, which is what the wait states are for.  *)
(*                                                                         *)
(* f, s_f and swap_flag are written and never read, and are left out.      *)
(***************************************************************************)
EXTENDS RC4Reference

CONSTANT ZNext   \* where "state <= 18'bz" may leave the state register

VARIABLES
  state,                      \* the controller's state
  counter_i, counter_j, counter_k, temp_i, temp_j,
  address, data, wren,        \* bus of the S memory
  address_in,                 \* address of the ROM that holds the message
  address_out, data_decrypted, wren_d,   \* bus of the result memory
  fsm1_done, secret, crack_success,
  s_mem, s_addr,              \* S memory: cells, address sampled
  en_mem, en_addr,            \* message ROM: cells, address sampled
  de_mem                      \* result memory: cells

indices  == <<counter_i, counter_j, temp_i, temp_j>>
bus      == <<address, data, wren>>
result   == <<counter_k, address_in, address_out, data_decrypted, wren_d>>
search   == <<fsm1_done, secret>>
memories == <<s_mem, s_addr, en_mem, en_addr, de_mem>>
vars == <<state, indices, bus, result, search, crack_success, memories>>

States ==
  {"write_mem", "check_done", "done_fill", "start_swap", "swap_1", "wait_1",
   "store_i", "calc_j", "wait_2", "store_j", "write_at_j", "wait_3",
   "write_at_i", "wait_4", "counter_inc", "done_swap", "start_swap2", "i_inc",
   "wait_0s", "j_update", "wait_1s", "store_i2", "wait_2s", "store_j2",
   "write_j2", "wait_3s", "write_i2", "wait_4s", "f_logic_i", "wait_5s",
   "f_logic_j", "wait_6s", "f_logic_sum", "wait_7s", "decrypt_state",
   "check_kloop", "done_swap2", "bad_message", "undriven"}

ASSUME ZNextAssumption == ZNext # {} /\ ZNext \subseteq States

(* Power-up: the declared initial values; every other register and cell 0. *)
Init ==
  /\ state = "write_mem"
  /\ counter_i = 0 /\ counter_j = 0 /\ counter_k = 0
  /\ temp_i = 0 /\ temp_j = 0
  /\ address = 0 /\ data = 0 /\ wren = FALSE
  /\ address_in = 0 /\ address_out = 0 /\ data_decrypted = 0 /\ wren_d = FALSE
  /\ fsm1_done = FALSE /\ secret = 0 /\ crack_success = "00"
  /\ s_mem = [c \in Byte |-> 0] /\ s_addr = 0
  /\ en_mem \in [0 .. MsgLen - 1 -> Byte] /\ en_addr = 0
  /\ de_mem = [c \in Byte |-> 0]

-----------------------------------------------------------------------------
out_mem         == s_mem[s_addr]
encrypted_input == en_mem[en_addr % MsgLen]   \* the ROM decodes the low bits
inc(n)          == (n + 1) % N                \* 8-bit increment

(* The memories' side of a clock edge. *)
SampleMemories ==
  /\ s_addr' = address
  /\ s_mem' = IF wren THEN [s_mem EXCEPT ![address] = data] ELSE s_mem
  /\ en_addr' = address_in
  /\ UNCHANGED en_mem
  /\ de_mem' = IF wren_d THEN [de_mem EXCEPT ![address_out] = data_decrypted]
                         ELSE de_mem

(* The verdict register lags the state by one edge. *)
LatchVerdict ==
  crack_success' = CASE state = "done_swap2"  -> "01"
                     [] state = "bad_message" -> "10"
                     [] OTHER                 -> crack_success

(* What every edge does, leaving one state for another. *)
Edge(from, to) ==
  /\ state = from
  /\ state' = to
  /\ SampleMemories
  /\ LatchVerdict

-----------------------------------------------------------------------------
(* Task 1: fill S with 0, 1, ..., N - 1. *)

WriteMem ==
  /\ Edge("write_mem", "check_done")
  /\ address' = counter_i /\ data' = counter_i /\ wren' = TRUE
  /\ UNCHANGED <<indices, result, search>>

CheckDone ==
  /\ IF counter_i = N - 1
     THEN /\ Edge("check_done", "done_fill")
          /\ fsm1_done' = TRUE
          /\ UNCHANGED counter_i
     ELSE /\ Edge("check_done", "write_mem")
          /\ counter_i' = inc(counter_i)
          /\ UNCHANGED fsm1_done
  /\ UNCHANGED <<counter_j, temp_i, temp_j, bus, result, secret>>

DoneFill ==
  /\ Edge("done_fill", "start_swap")
  /\ wren' = FALSE
  /\ UNCHANGED <<indices, address, data, result, search>>

-----------------------------------------------------------------------------
(* Task 2a: the key-scheduling exchanges. *)

StartSwapFault ==    \* fault: counter_j is not reset
  /\ Edge("start_swap", IF fsm1_done THEN "swap_1" ELSE "start_swap")
  /\ counter_i' = 0 /\ temp_i' = 0 /\ temp_j' = 0 /\ wren' = FALSE
  /\ UNCHANGED <<counter_j, address, data, result, search>>

StartSwap ==
  /\ Edge("start_swap", IF fsm1_done THEN "swap_1" ELSE "start_swap")
  /\ counter_i' = 0 /\ counter_j' = 0 /\ temp_i' = 0 /\ temp_j' = 0
  /\ wren' = FALSE
  /\ UNCHANGED <<address, data, result, search>>

Swap1 ==
  /\ Edge("swap_1", "wait_1")
  /\ address' = counter_i
  /\ UNCHANGED <<indices, data, wren, result, search>>

StoreI ==
  /\ Edge("store_i", "calc_j")
  /\ temp_i' = out_mem
  /\ UNCHANGED <<counter_i, counter_j, temp_j, bus, result, search>>

CalcJ ==
  /\ Edge("calc_j", "wait_2")
  /\ counter_j' = (counter_j + out_mem + KeyByte(secret, counter_i % 3)) % N
  /\ address' = counter_j'
  /\ UNCHANGED <<counter_i, temp_i, temp_j, data, wren, result, search>>

StoreJ ==
  /\ Edge("store_j", "write_at_j")
  /\ temp_j' = out_mem
  /\ UNCHANGED <<counter_i, counter_j, temp_i, bus, result, search>>

(* write_at_j and write_j2: put the old S[i] on the bus for cell j. *)
WriteAtJ ==
  /\ \/ Edge("write_at_j", "wait_3")
     \/ Edge("write_j2", "wait_3s")
  /\ data' = temp_i /\ wren' = TRUE
  /\ UNCHANGED <<indices, address, result, search>>

(* wait_3, wait_4, wait_3s, wait_4s: the write happens, the enable drops. *)
LowerWren ==
  /\ \/ Edge("wait_3", "write_at_i")
     \/ Edge("wait_4", "counter_inc")
     \/ Edge("wait_3s", "write_i2")
     \/ Edge("wait_4s", "f_logic_i")
  /\ wren' = FALSE
  /\ UNCHANGED <<indices, address, data, result, search>>

WriteAtIFault ==     \* fault: reads cell j again instead of using the copy
  /\ \/ Edge("write_at_i", "wait_4")
     \/ Edge("write_i2", "wait_4s")
  /\ address' = counter_i /\ data' = out_mem /\ wren' = TRUE
  /\ UNCHANGED <<indices, result, search>>

(* write_at_i and write_i2: put the old S[j] on the bus for cell i. *)
WriteAtI ==
  /\ \/ Edge("write_at_i", "wait_4")
     \/ Edge("write_i2", "wait_4s")
  /\ address' = counter_i /\ data' = temp_j /\ wren' = TRUE
  /\ UNCHANGED <<indices, result, search>>

CounterInc ==
  /\ IF counter_i = N - 1
     THEN /\ Edge("counter_inc", "done_swap")
          /\ UNCHANGED counter_i
     ELSE /\ Edge("counter_inc", "swap_1")
          /\ counter_i' = inc(counter_i)
  /\ UNCHANGED <<counter_j, temp_i, temp_j, bus, result, search>>

-----------------------------------------------------------------------------
(* Tasks 2b and 3: decrypt byte by byte, give the key up at the first byte *)
(* that is not a valid character.                                          *)

StartSwap2Fault ==   \* fault: counter_k is not reset
  /\ Edge("start_swap2", "i_inc")
  /\ counter_i' = 0 /\ counter_j' = 0 /\ temp_i' = 0 /\ temp_j' = 0
  /\ wren' = FALSE /\ wren_d' = FALSE
  /\ UNCHANGED <<address, data, counter_k, address_in, address_out,
                 data_decrypted, search>>

StartSwap2 ==
  /\ Edge("start_swap2", "i_inc")
  /\ counter_i' = 0 /\ counter_j' = 0 /\ temp_i' = 0 /\ temp_j' = 0
  /\ counter_k' = 0 /\ wren' = FALSE /\ wren_d' = FALSE
  /\ UNCHANGED <<address, data, address_in, address_out, data_decrypted, search>>

IInc ==
  /\ Edge("i_inc", "wait_0s")
  /\ counter_i' = inc(counter_i) /\ address' = inc(counter_i)
  /\ address_in' = counter_k /\ address_out' = counter_k
  /\ UNCHANGED <<counter_j, temp_i, temp_j, data, wren, counter_k,
                 data_decrypted, wren_d, search>>

JUpdate ==
  /\ Edge("j_update", "wait_1s")
  /\ counter_j' = (counter_j + out_mem) % N
  /\ UNCHANGED <<counter_i, temp_i, temp_j, bus, result, search>>

StoreI2 ==
  /\ Edge("store_i2", "wait_2s")
  /\ temp_i' = out_mem /\ address' = counter_j
  /\ UNCHANGED <<counter_i, counter_j, temp_j, data, wren, result, search>>

StoreJ2 ==
  /\ Edge("store_j2", "write_j2")
  /\ temp_j' = out_mem
  /\ UNCHANGED <<counter_i, counter_j, temp_i, bus, result, search>>

FLogicI ==
  /\ Edge("f_logic_i", "wait_5s")
  /\ address' = (temp_j + temp_i) % N
  /\ UNCHANGED <<indices, data, wren, result, search>>

DecryptState ==
  /\ Edge("decrypt_state", "check_kloop")
  /\ wren_d' = TRUE
  /\ data_decrypted' = ByteXor(out_mem, encrypted_input)
  /\ counter_k' = inc(counter_k)
  /\ UNCHANGED <<indices, bus, address_in, address_out, search>>

MoreBytesFault == counter_k < MsgLen - 1   \* fault: one byte short

(* counter_k already counts the byte being judged. *)
MoreBytes == counter_k <= MsgLen - 1

ValidByte ==
  /\ data_decrypted \in Valid
  /\ Edge("check_kloop", IF MoreBytes THEN "i_inc" ELSE "done_swap2")
  /\ UNCHANGED <<counter_i, secret>>

TryNextKey ==
  /\ data_decrypted \notin Valid /\ secret # LastKey
  /\ Edge("check_kloop", "write_mem")
  /\ secret' = secret + 1 /\ counter_i' = 0

GiveUp ==
  /\ data_decrypted \notin Valid /\ secret = LastKey
  /\ Edge("check_kloop", "bad_message")
  /\ UNCHANGED <<counter_i, secret>>

CheckKloop ==
  /\ ValidByte \/ TryNextKey \/ GiveUp
  /\ wren_d' = FALSE
  /\ UNCHANGED <<counter_j, temp_i, temp_j, bus, counter_k, address_in,
                 address_out, data_decrypted, fsm1_done>>

-----------------------------------------------------------------------------
(* States whose edge changes no register but the state. *)
Pass ==
  /\ \/ Edge("wait_1", "store_i")
     \/ Edge("wait_2", "store_j")
     \/ Edge("done_swap", "start_swap2")
     \/ Edge("wait_0s", "j_update")
     \/ Edge("wait_1s", "store_i2")
     \/ Edge("wait_2s", "store_j2")
     \/ Edge("wait_5s", "f_logic_j")
     \/ Edge("f_logic_j", "wait_6s")
     \/ Edge("wait_6s", "f_logic_sum")
     \/ Edge("f_logic_sum", "wait_7s")
     \/ Edge("wait_7s", "decrypt_state")
     \/ Edge("done_swap2", "done_swap2")
  /\ UNCHANGED <<indices, bus, result, search>>

(* bad_message has no branch of its own: the default assigns 18'bz, of which *)
(* the state register keeps one of the values ZNext.                         *)
Default ==
  /\ \E z \in ZNext : Edge("bad_message", z) \/ Edge("undriven", z)
  /\ UNCHANGED <<indices, bus, result, search>>

Next ==
  \/ WriteMem \/ CheckDone \/ DoneFill
  \/ StartSwap \/ Swap1 \/ StoreI \/ CalcJ \/ StoreJ \/ WriteAtJ
  \/ LowerWren \/ WriteAtI \/ CounterInc
  \/ StartSwap2 \/ IInc \/ JUpdate \/ StoreI2 \/ StoreJ2 \/ FLogicI
  \/ DecryptState \/ CheckKloop
  \/ Pass \/ Default

(* The clock never stops. *)
Spec == Init /\ [][Next]_vars /\ WF_vars(Next)
-----------------------------------------------------------------------------
(* Properties. *)

TypeOK ==
  /\ state \in States
  /\ counter_i \in Byte /\ counter_j \in Byte /\ counter_k \in Byte
  /\ temp_i \in Byte /\ temp_j \in Byte
  /\ address \in Byte /\ data \in Byte /\ wren \in BOOLEAN
  /\ address_in \in Byte /\ address_out \in Byte
  /\ data_decrypted \in Byte /\ wren_d \in BOOLEAN
  /\ fsm1_done \in BOOLEAN /\ secret \in Keys
  /\ crack_success \in {"00", "01", "10"}
  /\ s_mem \in [Byte -> Byte] /\ s_addr \in Byte
  /\ en_mem \in [0 .. MsgLen - 1 -> Byte] /\ en_addr \in Byte
  /\ de_mem \in [Byte -> Byte]

Filling == {"write_mem", "check_done"}

(* The S memory with the half of an exchange that is still on its way done: *)
(* cell j has been written and cell i has not.                              *)
Settled ==
  IF state \in {"write_at_i", "wait_4", "write_i2", "wait_4s"}
  THEN [s_mem EXCEPT ![counter_i] = temp_j]
  ELSE s_mem

Injective(S) == \A a, b \in Byte : S[a] = S[b] => a = b

(* Outside the fill, the S memory is a permutation of the byte values, up   *)
(* to the one exchange in flight (task2_fsm.sv:234-262 and 278-315): no     *)
(* exchange may lose or double a value, though each takes two writes spread *)
(* over eleven edges and works from copies read earlier.                    *)
Permutation ==
  state \notin Filling \cup {"done_fill"} => Injective(Settled)

(* When the message is about to be decrypted, S is the key schedule of the  *)
(* key being tried: nothing of the previous key's S is left in it.          *)
ScheduleOfThisKey ==
  state = "start_swap2" => s_mem = KeySchedule(secret)[N].S

(* Each byte judged is the RC4 decryption of that byte under the key being  *)
(* tried, and so is each byte already kept in the result memory.            *)
BytesDecrypted ==
  LET plain == Decryption(secret, en_mem)
  IN  /\ state = "check_kloop" => data_decrypted = plain[counter_k - 1]
      /\ state \in {"i_inc", "done_swap2"} =>
           \A m \in 0 .. counter_k - 1 : de_mem[m] = plain[m]

(* The circuit computes RC4, whatever keys it tried before: the schedule it *)
(* decrypts with, and every byte it judges and keeps, are those of the key  *)
(* being tried (task2_fsm.sv:208-349).                                      *)
DecryptionExact == ScheduleOfThisKey /\ BytesDecrypted

(* Once the search has ended well, the result memory holds the message: all *)
(* of it, and only valid characters.                                        *)
KeptBytesValid ==
  crack_success = "01" =>
    /\ counter_k = MsgLen
    /\ \A m \in 0 .. MsgLen - 1 : de_mem[m] \in Valid

(* The circuit implements the search the lights report on.                  *)
Search == INSTANCE KeySearch WITH
            key <- secret, verdict <- crack_success, msg <- en_mem
ImplementsSearch == Search!Spec
-----------------------------------------------------------------------------
(* The inductive invariant behind Permutation and KeptBytesValid: where     *)
(* each register stands in each state of the controller.                    *)

(* During the fill the cells below counter_i already hold their own number. *)
FillInv ==
  /\ state \in Filling => \A c \in Byte : c < counter_i => s_mem[c] = c
  /\ state = "write_mem" /\ wren => address = data
  /\ state = "check_done" => address = counter_i /\ data = counter_i /\ wren
  /\ state = "done_fill" => address = data /\ \A c \in Byte : s_mem[c] = c

(* The write enable is up only while a fill or one half of an exchange is on *)
(* the bus.                                                                  *)
WrenInv ==
  wren => state \in Filling \cup {"done_fill", "wait_3", "wait_3s", "wait_4", "wait_4s"}

(* The addresses reach the memory in time for the reads that need them.      *)
AddressInv ==
  /\ state \in {"wait_1", "wait_0s", "j_update", "wait_1s"} => address = counter_i
  /\ state \in {"store_i", "store_i2"} => s_addr = counter_i
  /\ state \in {"wait_2", "wait_2s", "store_j", "store_j2", "write_at_j",
               "write_j2", "wait_3", "wait_3s"} => address = counter_j
  /\ state \in {"store_j", "store_j2"} => s_addr = counter_j
  /\ state \in {"wait_4", "wait_4s"} => address = counter_i

(* The copies the exchange works from are the cells it exchanges.            *)
CopiesInv ==
  /\ state \in {"calc_j", "wait_2", "wait_2s", "store_j", "store_j2", "write_at_j",
               "write_j2", "wait_3", "wait_3s"} => temp_i = s_mem[counter_i]
  /\ state \in {"write_at_j", "write_j2", "wait_3", "wait_3s"}
       => temp_j = s_mem[counter_j]
  /\ state \in {"wait_3", "wait_3s"} => data = temp_i /\ wren
  /\ state \in {"wait_4", "wait_4s"} => data = temp_j /\ wren

(* What the undefined assignment may leave without disturbing an exchange:   *)
(* no state at all, as in simulation, or the all-zero code.                  *)
ZQuiet == ZNext \subseteq {"undriven", "start_swap"}

SwapInv == FillInv /\ WrenInv /\ AddressInv /\ CopiesInv /\ Permutation

(* Where the message is decrypted, and one byte of it.                      *)
InByte ==
  {"wait_0s", "j_update", "wait_1s", "store_i2", "wait_2s", "store_j2",
   "write_j2", "wait_3s", "write_i2", "wait_4s", "f_logic_i", "wait_5s",
   "f_logic_j", "wait_6s", "f_logic_sum", "wait_7s", "decrypt_state"}

KeptUpTo(k) == \A m \in Byte : m < k => de_mem[m] \in Valid

ResultInv ==
  /\ wren_d => state = "check_kloop"
  /\ state \in InByte => address_out = counter_k
  /\ state \in InByte \cup {"i_inc"} => counter_k < MsgLen /\ KeptUpTo(counter_k)
  /\ state = "check_kloop" =>
       /\ counter_k \in 1 .. MsgLen
       /\ wren_d /\ address_out = counter_k - 1
       /\ KeptUpTo(counter_k - 1)
  /\ state = "done_swap2" \/ crack_success = "01" => 
       /\ state = "done_swap2"
       /\ counter_k = MsgLen /\ KeptUpTo(MsgLen)
=============================================================================
