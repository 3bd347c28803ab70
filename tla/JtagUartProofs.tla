---------------------------- MODULE JtagUartProofs ----------------------------
(***************************************************************************)
(* That the driver's two directions are streams: for any buffer length,    *)
(* FIFO depths, characters and tasks, what the host sends is what tasks    *)
(* read and what tasks write is what the host gets, each in its order.     *)
(* Both are refinements of Stream, whatever the interleaving of the tasks, *)
(* the interrupt routine, the alarm and the host.                          *)
(***************************************************************************)
EXTENDS JtagUart, SequenceTheorems, TLAPS

Places == {"app", "look", "copy", "copied", "pend", "pending", "again", "unlock", "enable",
           "kick", "close"}
TaskState == [at : Places, in : Index, out : Index, left : Seq(Char), n : Int, done : {0, 1},
              block : BOOLEAN, rdy : SUBSET {READ_RDY, WRITE_RDY, TIMEOUT}]

TypeInv ==
  /\ rx_in \in Index /\ rx_out \in Index /\ rx_buf \in [Index -> Char]
  /\ tx_in \in Index /\ tx_out \in Index /\ tx_buf \in [Index -> Char]
  /\ rxhw \in Seq(Char) /\ txhw \in Seq(Char)
  /\ events \subseteq {READ_RDY, WRITE_RDY, TIMEOUT}
  /\ task \in [Task -> TaskState]
  /\ isr \in [at : {"idle", "control", "rx", "tx"}, wi : BOOLEAN, ravail : BOOLEAN, space : Int]

\* Characters in a buffer, and the place of its i-th.
Fill(in, out) == (in - out) % BufLen
Pos(out, i)   == (out + i - 1) % BufLen

\* A reader between its look at the indices and its move of rx_out: what it saw
\* lies at the front of the buffer still, and what it copied is what lies there.
Reading(t) ==
  /\ task[t].at \in {"look", "copy", "copied", "pend", "pending", "again", "unlock"} => read_lock = t
  /\ task[t].at \in {"copy", "copied"} =>
       task[t].out = rx_out /\ Fill(task[t].in, rx_out) <= Fill(rx_in, rx_out)
  /\ task[t].at = "copied" =>
       /\ Len(task[t].left) \in 1 .. Fill(rx_in, rx_out) /\ Len(task[t].left) <= task[t].n
       /\ \A i \in 1 .. Len(task[t].left) : task[t].left[i] = rx_buf[Pos(rx_out, i)]

\* A writer between its look and its move of tx_in: the room it saw is there
\* still, and what it copied lies behind the buffer's last character.
Writing(t) ==
  /\ task[t].at \in {"look", "copy", "copied", "kick", "pend", "pending", "again", "unlock"} => write_lock = t
  /\ task[t].at \in {"look", "copy", "copied", "pend", "pending", "again"} => task[t].left # <<>>
  /\ Len(task[t].left) <= MaxCount
  /\ task[t].at \in {"copy", "copied"} =>
       /\ task[t].in = tx_in
       /\ task[t].n \in 1 .. Len(task[t].left)
       /\ Fill(tx_in, tx_out) + task[t].n <= BufLen - 1
       /\ tx_in + task[t].n <= BufLen
  /\ task[t].at = "copied" =>
       \A i \in 1 .. task[t].n : tx_buf[tx_in + i - 1] = task[t].left[i]

\* The interrupt routine knows of no more room in the device than there is.
SpaceInv == isr.at \in {"rx", "tx"} => isr.space + Len(txhw) <= TxDepth

JtagInv == TypeInv /\ SpaceInv /\ (\A t \in Reader : Reading(t)) /\ (\A t \in Writer : Writing(t))
-----------------------------------------------------------------------------
(***************************************************************************)
(* The arithmetic of the circular buffers.                                 *)
(***************************************************************************)

\* The remainder of what is less than one turn out of range.
LEMMA Turns ==
  ASSUME NEW x \in Int
  PROVE  /\ x \in 0 .. BufLen - 1 => x % BufLen = x
         /\ x \in BufLen .. 2 * BufLen - 1 => x % BufLen = x - BufLen
         /\ x \in -BufLen .. -1 => x % BufLen = x + BufLen
<1>1. BufLen \in Nat /\ BufLen > 1
  BY JtagAssumption
<1>2. x \in 0 .. BufLen - 1 => x % BufLen = x
  BY <1>1
<1>3. x \in BufLen .. 2 * BufLen - 1 => x % BufLen = x - BufLen
  BY <1>1
<1>4. x \in -BufLen .. -1 => x % BufLen = x + BufLen
  BY <1>1
<1> QED BY <1>2, <1>3, <1>4

\* Fill and Pos without remainders.
LEMMA FillIs ==
  ASSUME NEW in \in Index, NEW out \in Index
  PROVE  /\ Fill(in, out) = IF in >= out THEN in - out ELSE in - out + BufLen
         /\ Fill(in, out) \in 0 .. BufLen - 1
<1>1. BufLen \in Nat /\ BufLen > 1
  BY JtagAssumption
<1>2. CASE in >= out
  <2>1. in - out \in Int /\ in - out \in 0 .. BufLen - 1
    BY <1>1, <1>2 DEF Index
  <2>2. (in - out) % BufLen = in - out
    BY <2>1, Turns
  <2> QED BY <2>1, <2>2, <1>2 DEF Fill
<1>3. CASE ~ (in >= out)
  <2>1. in - out \in Int /\ in - out \in -BufLen .. -1 /\ in - out + BufLen \in 0 .. BufLen - 1
    BY <1>1, <1>3 DEF Index
  <2>2. (in - out) % BufLen = in - out + BufLen
    BY <2>1, Turns
  <2> QED BY <2>1, <2>2, <1>3 DEF Fill
<1> QED BY <1>2, <1>3

LEMMA PosIs ==
  ASSUME NEW out \in Index, NEW i \in 1 .. BufLen
  PROVE  /\ Pos(out, i) = IF out + i - 1 < BufLen THEN out + i - 1 ELSE out + i - 1 - BufLen
         /\ Pos(out, i) \in Index
<1>1. BufLen \in Nat /\ BufLen > 1
  BY JtagAssumption
<1>2. CASE out + i - 1 < BufLen
  <2>1. out + i - 1 \in Int /\ out + i - 1 \in 0 .. BufLen - 1
    BY <1>1, <1>2 DEF Index
  <2>2. (out + i - 1) % BufLen = out + i - 1
    BY <2>1, Turns
  <2> QED BY <2>1, <2>2, <1>2 DEF Pos, Index
<1>3. CASE ~ (out + i - 1 < BufLen)
  <2>1. out + i - 1 \in Int /\ out + i - 1 \in BufLen .. 2 * BufLen - 1
    BY <1>1, <1>3 DEF Index
  <2>2. (out + i - 1) % BufLen = out + i - 1 - BufLen
    <3> DEFINE x == out + i - 1
    <3>1. x \in Int /\ x \in BufLen .. 2 * BufLen - 1
      BY <2>1
    <3> HIDE DEF x
    <3>2. x % BufLen = x - BufLen
      BY <3>1, Turns
    <3> QED BY <1>1, <3>2 DEF x, Index
  <2>3. out + i - 1 - BufLen \in Index
    BY <1>1, <2>1 DEF Index
  <2> QED BY <2>2, <2>3, <1>3 DEF Pos
<1> QED BY <1>2, <1>3

LEMMA StepIs ==
  ASSUME NEW a \in Index, NEW n \in 0 .. BufLen
  PROVE  /\ (a + n) % BufLen = IF a + n < BufLen THEN a + n ELSE a + n - BufLen
         /\ (a + n) % BufLen \in Index
<1>1. BufLen \in Nat /\ BufLen > 1
  BY JtagAssumption
<1>2. CASE a + n < BufLen
  <2>1. a + n \in Int /\ a + n \in 0 .. BufLen - 1
    BY <1>1, <1>2 DEF Index
  <2> QED BY <2>1, Turns, <1>2 DEF Index
<1>3. CASE ~ (a + n < BufLen)
  <2>1. a + n \in Int /\ a + n \in BufLen .. 2 * BufLen - 1
    BY <1>1, <1>3 DEF Index
  <2>2. (a + n) % BufLen = a + n - BufLen
    <3> DEFINE x == a + n
    <3>1. x \in Int /\ x \in BufLen .. 2 * BufLen - 1
      BY <2>1
    <3> HIDE DEF x
    <3>2. x % BufLen = x - BufLen
      BY <3>1, Turns
    <3> QED BY <1>1, <3>2 DEF x, Index
  <2>3. a + n - BufLen \in Index
    BY <1>1, <2>1 DEF Index
  <2> QED BY <2>2, <2>3, <1>3
<1> QED BY <1>2, <1>3

\* n more behind the last: the buffer holds n more, and they are where they were put.
LEMMA PutMany ==
  ASSUME NEW in \in Index, NEW out \in Index, NEW n \in 0 .. BufLen,
         Fill(in, out) + n <= BufLen - 1, in + n <= BufLen
  PROVE  /\ Fill((in + n) % BufLen, out) = Fill(in, out) + n
         /\ \A i \in 1 .. n : Pos(out, Fill(in, out) + i) = in + i - 1
         /\ \A i \in 1 .. Fill(in, out) : Pos(out, i) \notin in .. in + n - 1
<1>1. BufLen \in Nat /\ BufLen > 1
  BY JtagAssumption
<1> DEFINE last == (in + n) % BufLen
           f == Fill(in, out)
<1>2. last \in Index /\ last = IF in + n < BufLen THEN in + n ELSE in + n - BufLen
  BY StepIs
<1>3. f \in 0 .. BufLen - 1 /\ f = IF in >= out THEN in - out ELSE in - out + BufLen
  BY FillIs
<1>4. Fill(last, out) = IF last >= out THEN last - out ELSE last - out + BufLen
  BY <1>2, FillIs
<1> HIDE DEF last, f
<1>5. f + n <= BufLen - 1
  BY DEF f
<1>6. Fill(last, out) = f + n
  BY <1>1, <1>2, <1>3, <1>4, <1>5 DEF Index
<1>7. ASSUME NEW i \in 1 .. n PROVE Pos(out, f + i) = in + i - 1
  <2>1. f + i \in 1 .. BufLen
    BY <1>1, <1>3, <1>5
  <2>2. Pos(out, f + i) = IF out + (f + i) - 1 < BufLen THEN out + (f + i) - 1 ELSE out + (f + i) - 1 - BufLen
    BY <2>1, PosIs
  <2> QED BY <1>1, <1>3, <1>5, <2>1, <2>2 DEF Index
<1>8. ASSUME NEW i \in 1 .. f PROVE Pos(out, i) \notin in .. in + n - 1
  <2>1. i \in 1 .. BufLen
    BY <1>1, <1>3
  <2>2. Pos(out, i) = IF out + i - 1 < BufLen THEN out + i - 1 ELSE out + i - 1 - BufLen
    BY <2>1, PosIs
  <2>3. Pos(out, i) \in Index
    BY <2>1, PosIs
  <2> QED BY <1>1, <1>3, <1>5, <2>2, <2>3 DEF Index
<1> QED BY <1>6, <1>7, <1>8 DEF last, f

\* n fewer at the front: the buffer holds n fewer, the others are where they were.
LEMMA TakeMany ==
  ASSUME NEW in \in Index, NEW out \in Index, NEW n \in 0 .. Fill(in, out)
  PROVE  /\ (out + n) % BufLen \in Index
         /\ Fill(in, (out + n) % BufLen) = Fill(in, out) - n
         /\ \A i \in 1 .. Fill(in, out) - n : Pos((out + n) % BufLen, i) = Pos(out, n + i)
<1>1. BufLen \in Nat /\ BufLen > 1
  BY JtagAssumption
<1> DEFINE first == (out + n) % BufLen
           f == Fill(in, out)
<1>2. f \in 0 .. BufLen - 1 /\ f = IF in >= out THEN in - out ELSE in - out + BufLen
  BY FillIs
<1>3. n \in 0 .. BufLen /\ n <= f
  BY <1>1, <1>2
<1>4. first \in Index /\ first = IF out + n < BufLen THEN out + n ELSE out + n - BufLen
  BY <1>3, StepIs
<1>5. Fill(in, first) = IF in >= first THEN in - first ELSE in - first + BufLen
  BY <1>4, FillIs
<1> HIDE DEF first, f
<1>6. Fill(in, first) = f - n
  BY <1>1, <1>2, <1>3, <1>4, <1>5 DEF Index
<1>7. ASSUME NEW i \in 1 .. f - n PROVE Pos(first, i) = Pos(out, n + i)
  <2>1. i \in 1 .. BufLen /\ n + i \in 1 .. BufLen
    BY <1>1, <1>2, <1>3
  <2>2. Pos(first, i) = IF first + i - 1 < BufLen THEN first + i - 1 ELSE first + i - 1 - BufLen
    BY <2>1, <1>4, PosIs
  <2>3. Pos(out, n + i) = IF out + (n + i) - 1 < BufLen THEN out + (n + i) - 1 ELSE out + (n + i) - 1 - BufLen
    BY <2>1, PosIs
  <2> QED BY <1>1, <1>2, <1>3, <1>4, <2>1, <2>2, <2>3 DEF Index
<1> QED BY <1>4, <1>6, <1>7 DEF first, f
-----------------------------------------------------------------------------
(***************************************************************************)
(* What a buffer holds, as a sequence.                                     *)
(***************************************************************************)
LEMMA SameSeq ==
  ASSUME NEW S, NEW p \in Seq(S), NEW q \in Seq(S), Len(p) = Len(q),
         \A i \in 1 .. Len(p) : p[i] = q[i]
  PROVE  p = q
BY SeqEqual

\* A front and what comes behind it.
LEMMA PartsOf ==
  ASSUME NEW S, NEW s \in Seq(S), NEW n \in 0 .. Len(s)
  PROVE  /\ SubSeq(s, 1, n) \in Seq(S) /\ Len(SubSeq(s, 1, n)) = n
         /\ \A i \in 1 .. n : SubSeq(s, 1, n)[i] = s[i]
         /\ SubSeq(s, n + 1, Len(s)) \in Seq(S) /\ Len(SubSeq(s, n + 1, Len(s))) = Len(s) - n
         /\ \A i \in 1 .. Len(s) - n : SubSeq(s, n + 1, Len(s))[i] = s[n + i]
<1>1. Len(s) \in Nat
  BY LenProperties
<1>2. \A i \in 1 .. n : s[i] \in S
  BY <1>1, ElementOfSeq
<1>3. \A i \in n + 1 .. Len(s) : s[i] \in S
  BY <1>1, ElementOfSeq
<1>4. SubSeq(s, 1, n) \in Seq(S) /\ Len(SubSeq(s, 1, n)) = n
      /\ \A i \in 1 .. n : SubSeq(s, 1, n)[i] = s[i]
  BY <1>1, <1>2, SubSeqProperties
<1>5. SubSeq(s, n + 1, Len(s)) \in Seq(S) /\ Len(SubSeq(s, n + 1, Len(s))) = Len(s) - n
      /\ \A i \in 1 .. Len(s) - n : SubSeq(s, n + 1, Len(s))[i] = s[n + i]
  BY <1>1, <1>3, SubSeqProperties
<1> QED BY <1>4, <1>5

LEMMA HeldIs ==
  ASSUME NEW buf \in [Index -> Char], NEW in \in Index, NEW out \in Index
  PROVE  /\ Held(buf, out, in) \in Seq(Char)
         /\ Len(Held(buf, out, in)) = Fill(in, out)
         /\ \A i \in 1 .. Fill(in, out) : Held(buf, out, in)[i] = buf[Pos(out, i)]
<1>1. Fill(in, out) \in 0 .. BufLen - 1 /\ BufLen \in Nat
  BY FillIs, JtagAssumption
<1>2. \A i \in 1 .. Fill(in, out) : buf[Pos(out, i)] \in Char
  <2> TAKE i \in 1 .. Fill(in, out)
  <2>1. i \in 1 .. BufLen
    BY <1>1
  <2>2. Pos(out, i) \in Index
    BY <2>1, PosIs
  <2> QED BY <2>2
<1>3. Held(buf, out, in) = [i \in 1 .. Fill(in, out) |-> buf[Pos(out, i)]]
  BY DEF Held, Fill, Pos
<1>4. Fill(in, out) \in Nat
  BY <1>1
<1> DEFINE f == Fill(in, out)
           e(i) == buf[Pos(out, i)]
<1>5. Held(buf, out, in) = [i \in 1 .. f |-> e(i)] /\ \A i \in 1 .. f : e(i) \in Char
  BY <1>2, <1>3
<1> HIDE DEF f, e
<1>6. f \in Nat
  BY <1>4 DEF f
<1>7. /\ Held(buf, out, in) \in Seq(Char) /\ Len(Held(buf, out, in)) = f
      /\ \A i \in 1 .. f : Held(buf, out, in)[i] = e(i)
  BY <1>5, <1>6
<1> QED BY <1>7 DEF f, e

\* Putting s behind what is held.
LEMMA HeldPut ==
  ASSUME NEW buf \in [Index -> Char], NEW new \in [Index -> Char],
         NEW in \in Index, NEW out \in Index, NEW s \in Seq(Char),
         Fill(in, out) + Len(s) <= BufLen - 1, in + Len(s) <= BufLen,
         \A i \in 1 .. Len(s) : new[in + i - 1] = s[i],
         \A j \in Index : j \notin in .. in + Len(s) - 1 => new[j] = buf[j]
  PROVE  Held(new, out, (in + Len(s)) % BufLen) = Held(buf, out, in) \o s
<1>1. BufLen \in Nat /\ BufLen > 1 /\ Len(s) \in Nat
  BY JtagAssumption, LenProperties
<1>2. Fill(in, out) \in 0 .. BufLen - 1
  BY FillIs
<1>3. Len(s) \in 0 .. BufLen
  BY <1>1, <1>2
<1> DEFINE last == (in + Len(s)) % BufLen
           f == Fill(in, out)
           old == Held(buf, out, in)
           now == Held(new, out, last)
<1>4. last \in Index
  BY <1>3, StepIs
<1>5. /\ Fill(last, out) = f + Len(s)
      /\ \A i \in 1 .. Len(s) : Pos(out, f + i) = in + i - 1
      /\ \A i \in 1 .. f : Pos(out, i) \notin in .. in + Len(s) - 1
  BY <1>3, PutMany
<1>6. old \in Seq(Char) /\ Len(old) = f /\ \A i \in 1 .. f : old[i] = buf[Pos(out, i)]
  BY HeldIs
<1>7. now \in Seq(Char) /\ Len(now) = f + Len(s) /\ \A i \in 1 .. f + Len(s) : now[i] = new[Pos(out, i)]
  <2>1. /\ now \in Seq(Char) /\ Len(now) = Fill(last, out)
        /\ \A i \in 1 .. Fill(last, out) : now[i] = new[Pos(out, i)]
    BY <1>4, HeldIs
  <2> HIDE DEF now, last, f
  <2> QED BY <1>5, <2>1
<1>8. /\ old \o s \in Seq(Char) /\ Len(old \o s) = f + Len(s)
      /\ \A i \in 1 .. f + Len(s) : (old \o s)[i] = IF i <= f THEN old[i] ELSE s[i - f]
  <2> HIDE DEF old, f
  <2>1. /\ old \o s \in Seq(Char) /\ Len(old \o s) = Len(old) + Len(s)
        /\ \A i \in 1 .. Len(old) + Len(s) : (old \o s)[i] = IF i <= Len(old) THEN old[i] ELSE s[i - Len(old)]
    BY <1>6, ConcatProperties
  <2> QED BY <1>6, <2>1
<1> HIDE DEF last, f, old, now
<1>9. ASSUME NEW i \in 1 .. f + Len(s) PROVE now[i] = (old \o s)[i]
  <2>1. f \in 0 .. BufLen - 1
    BY <1>2 DEF f
  <2>2. CASE i <= f
    <3>1. i \in 1 .. f /\ i \in 1 .. BufLen
      BY <1>1, <2>1, <2>2
    <3>2. Pos(out, i) \in Index
      BY <3>1, PosIs
    <3>3. now[i] = buf[Pos(out, i)]
      BY <1>5, <1>7, <3>1, <3>2
    <3> QED BY <1>6, <1>8, <3>1, <3>3, <2>2
  <2>3. CASE ~ (i <= f)
    <3> DEFINE j == i - f
    <3>1. j \in 1 .. Len(s) /\ f + j = i
      BY <1>1, <2>1, <2>3
    <3> HIDE DEF j
    <3>2. Pos(out, i) = in + j - 1
      BY <1>5, <3>1
    <3>3. now[i] = s[j]
      BY <1>7, <3>1, <3>2
    <3>4. (old \o s)[i] = s[j]
      BY <1>8, <2>3 DEF j
    <3> QED BY <3>3, <3>4
  <2> QED BY <2>2, <2>3
<1>10. now = old \o s
  BY <1>7, <1>8, <1>9, SameSeq
<1> QED BY <1>10 DEF now, old, last

\* Taking the first n of what is held.
LEMMA HeldTake ==
  ASSUME NEW buf \in [Index -> Char], NEW in \in Index, NEW out \in Index,
         NEW n \in 0 .. Fill(in, out)
  PROVE  Held(buf, (out + n) % BufLen, in) = SubSeq(Held(buf, out, in), n + 1, Fill(in, out))
<1> DEFINE first == (out + n) % BufLen
           f == Fill(in, out)
           old == Held(buf, out, in)
           now == Held(buf, first, in)
<1>1. f \in 0 .. BufLen - 1 /\ BufLen \in Nat
  BY FillIs, JtagAssumption
<1>2. /\ first \in Index /\ Fill(in, first) = f - n
      /\ \A i \in 1 .. f - n : Pos(first, i) = Pos(out, n + i)
  BY TakeMany
<1>3. old \in Seq(Char) /\ Len(old) = f /\ \A i \in 1 .. f : old[i] = buf[Pos(out, i)]
  BY HeldIs
<1>4. now \in Seq(Char) /\ Len(now) = f - n /\ \A i \in 1 .. f - n : now[i] = buf[Pos(first, i)]
  BY SMTT(30), <1>2, HeldIs
<1>5. n \in 0 .. Len(old)
  BY <1>3
<1> HIDE DEF first, f, old, now
<1>6. /\ SubSeq(old, n + 1, f) \in Seq(Char) /\ Len(SubSeq(old, n + 1, f)) = f - n
      /\ \A i \in 1 .. f - n : SubSeq(old, n + 1, f)[i] = old[n + i]
  BY <1>3, <1>5, PartsOf
<1>7. \A i \in 1 .. f - n : n + i \in 1 .. f
  BY <1>1, <1>3, <1>5
<1>8. \A i \in 1 .. f - n : now[i] = SubSeq(old, n + 1, f)[i]
  BY <1>2, <1>3, <1>4, <1>6, <1>7
<1>9. now = SubSeq(old, n + 1, f)
  BY <1>4, <1>6, <1>8, SameSeq
<1> QED BY <1>9 DEF now, old, first, f

\* A character that goes from the front of a queue to the end of the one before it.
LEMMA Handed ==
  ASSUME NEW S, NEW p \in Seq(S), NEW q \in Seq(S), q # <<>>
  PROVE  /\ (p \o <<Head(q)>>) \o Tail(q) = p \o q
         /\ Head(q) \in S /\ Tail(q) \in Seq(S)
<1>1. Head(q) \in S /\ Tail(q) \in Seq(S) /\ q = <<Head(q)>> \o Tail(q)
  BY HeadTailProperties
<1>2. <<Head(q)>> \in Seq(S)
  BY <1>1
<1>3. (p \o <<Head(q)>>) \o Tail(q) = p \o (<<Head(q)>> \o Tail(q))
  BY <1>1, <1>2, ConcatAssociative
<1> QED BY <1>1, <1>3
-----------------------------------------------------------------------------
(***************************************************************************)
(* What the steps do to the tasks.                                         *)
(***************************************************************************)

\* The task keeps its place and what it holds; the flags it was woken with may change.
Kept(t) == /\ task'[t].at = task[t].at /\ task'[t].in = task[t].in /\ task'[t].out = task[t].out
           /\ task'[t].left = task[t].left /\ task'[t].n = task[t].n

\* A task writes down something of its own.
LEMMA Edited ==
  ASSUME NEW k \in TaskState
  PROVE  /\ \A p \in Places : [k EXCEPT !.at = p] \in TaskState
         /\ \A p \in Places, i \in Index, o \in Index :
              [k EXCEPT !.at = p, !.in = i, !.out = o] \in TaskState
         /\ \A p \in Places, s \in Seq(Char) : [k EXCEPT !.at = p, !.left = s] \in TaskState
         /\ \A p \in Places, i \in Index, m \in Int : [k EXCEPT !.at = p, !.in = i, !.n = m] \in TaskState
         /\ \A r \in SUBSET {READ_RDY, WRITE_RDY, TIMEOUT} : [k EXCEPT !.rdy = r] \in TaskState
         /\ \A p \in Places, r \in SUBSET {READ_RDY, WRITE_RDY, TIMEOUT} :
              [k EXCEPT !.at = p, !.rdy = r] \in TaskState
         /\ \A p \in Places, s \in Seq(Char), i \in Index :
              [k EXCEPT !.at = p, !.left = s, !.n = 0, !.in = i, !.done = 1] \in TaskState
<1>1. ASSUME NEW p \in Places, NEW s \in Seq(Char), NEW i \in Index
      PROVE  [k EXCEPT !.at = p, !.left = s, !.n = 0, !.in = i, !.done = 1] \in TaskState
  <2> DEFINE j == [k EXCEPT !.at = p, !.left = s]
  <2>1. j \in TaskState
    BY DEF TaskState
  <2>2. [k EXCEPT !.at = p, !.left = s, !.n = 0, !.in = i, !.done = 1] = [j EXCEPT !.n = 0, !.in = i, !.done = 1]
    OBVIOUS
  <2> HIDE DEF j
  <2>3. PICK m \in Int, d \in {0, 1} : m = 0 /\ d = 1
    OBVIOUS
  <2>4. [j EXCEPT !.n = m, !.in = i, !.done = d] \in TaskState
    BY <2>1 DEF TaskState
  <2> QED BY <2>2, <2>3, <2>4
<1>2. /\ \A p \in Places : [k EXCEPT !.at = p] \in TaskState
      /\ \A p \in Places, i \in Index, o \in Index :
           [k EXCEPT !.at = p, !.in = i, !.out = o] \in TaskState
      /\ \A p \in Places, s \in Seq(Char) : [k EXCEPT !.at = p, !.left = s] \in TaskState
      /\ \A p \in Places, i \in Index, m \in Int : [k EXCEPT !.at = p, !.in = i, !.n = m] \in TaskState
      /\ \A r \in SUBSET {READ_RDY, WRITE_RDY, TIMEOUT} : [k EXCEPT !.rdy = r] \in TaskState
      /\ \A p \in Places, r \in SUBSET {READ_RDY, WRITE_RDY, TIMEOUT} :
           [k EXCEPT !.at = p, !.rdy = r] \in TaskState
  BY DEF TaskState
<1> QED BY <1>1, <1>2

LEMMA CalmTyped ==
  /\ Calm \in TaskState /\ [Calm EXCEPT !.at = "enable"] \in TaskState
  /\ \A n \in Int, b \in BOOLEAN : [Calm EXCEPT !.at = "look", !.n = n, !.block = b] \in TaskState
  /\ \A s \in Seq(Char), b \in BOOLEAN : [Calm EXCEPT !.at = "look", !.left = s, !.block = b] \in TaskState
<1>1. BufLen \in Nat /\ BufLen > 1
  BY JtagAssumption
<1>2. 0 \in Index /\ <<>> \in Seq(Char)
  BY <1>1 DEF Index
<1>3. Calm \in TaskState
  BY <1>2 DEF Calm, TaskState, Places
<1>4. [Calm EXCEPT !.at = "enable"] \in TaskState
  BY <1>3 DEF TaskState, Places
<1>5. \A n \in Int, b \in BOOLEAN : [Calm EXCEPT !.at = "look", !.n = n, !.block = b] \in TaskState
  BY <1>3 DEF TaskState, Places
<1>6. \A s \in Seq(Char), b \in BOOLEAN : [Calm EXCEPT !.at = "look", !.left = s, !.block = b] \in TaskState
  BY <1>3 DEF TaskState, Places
<1> QED BY <1>3, <1>4, <1>5, <1>6

LEMMA CalmIs == Calm.at = "app" /\ Calm.left = <<>> /\ Calm.n = 0
BY DEF Calm

\* One task changes: the others keep what they have.
LEMMA OneEdited ==
  ASSUME task \in [Task -> TaskState], NEW t \in Task, NEW k \in TaskState,
         task' = [task EXCEPT ![t] = k]
  PROVE  task' \in [Task -> TaskState] /\ task'[t] = k /\ \A u \in Task \ {t} : Kept(u)
BY DEF Kept

LEMMA Going ==
  ASSUME task \in [Task -> TaskState], NEW t \in Task, NEW p \in Places, Goto(t, p)
  PROVE  /\ task' \in [Task -> TaskState] /\ \A u \in Task \ {t} : Kept(u)
         /\ task'[t].at = p /\ task'[t].in = task[t].in /\ task'[t].out = task[t].out
         /\ task'[t].left = task[t].left /\ task'[t].n = task[t].n
<1>1. task[t] \in TaskState
  OBVIOUS
<1> DEFINE k == [task[t] EXCEPT !.at = p]
<1>2. k \in TaskState /\ k.at = p /\ k.in = task[t].in /\ k.out = task[t].out
      /\ k.left = task[t].left /\ k.n = task[t].n
  BY <1>1 DEF TaskState
<1>3. task' = [task EXCEPT ![t] = k]
  BY DEF Goto
<1> HIDE DEF k
<1> QED BY <1>2, <1>3, OneEdited

LEMMA Waking ==
  ASSUME task \in [Task -> TaskState], events \subseteq {READ_RDY, WRITE_RDY, TIMEOUT},
         NEW flag \in {READ_RDY, WRITE_RDY, TIMEOUT}, Post(flag)
  PROVE  /\ task' \in [Task -> TaskState] /\ \A u \in Task : Kept(u)
         /\ events' \subseteq {READ_RDY, WRITE_RDY, TIMEOUT}
<1>1. events' \subseteq {READ_RDY, WRITE_RDY, TIMEOUT}
  BY DEF Post
<1> DEFINE k(u) == IF task[u].at = "pending" /\ task[u].rdy = {} /\ flag \in WaitsFor(u)
                   THEN [task[u] EXCEPT !.rdy = events' \cap WaitsFor(u)] ELSE task[u]
<1>2. ASSUME NEW u \in Task
      PROVE  k(u) \in TaskState /\ k(u).at = task[u].at /\ k(u).in = task[u].in /\ k(u).out = task[u].out
             /\ k(u).left = task[u].left /\ k(u).n = task[u].n
  <2>1. task[u] \in TaskState /\ events' \cap WaitsFor(u) \in SUBSET {READ_RDY, WRITE_RDY, TIMEOUT}
    BY <1>1
  <2> DEFINE r == events' \cap WaitsFor(u)
             w == [task[u] EXCEPT !.rdy = r]
  <2> HIDE DEF r
  <2>2. w \in TaskState /\ w.at = task[u].at /\ w.in = task[u].in /\ w.out = task[u].out
        /\ w.left = task[u].left /\ w.n = task[u].n
    BY <2>1 DEF TaskState, r
  <2> HIDE DEF w
  <2>3. k(u) = w \/ k(u) = task[u]
    BY DEF w, r
  <2> HIDE DEF k
  <2> QED BY <2>1, <2>2, <2>3
<1>3. task' = [u \in Task |-> k(u)]
  BY DEF Post
<1> HIDE DEF k
<1> QED BY <1>1, <1>2, <1>3 DEF Kept

\* OSFlagPend: the task goes on, or is pending.
LEMMA Pending ==
  ASSUME task \in [Task -> TaskState], events \subseteq {READ_RDY, WRITE_RDY, TIMEOUT},
         NEW t \in Task, Pend(t, "again")
  PROVE  /\ task' \in [Task -> TaskState] /\ \A u \in Task \ {t} : Kept(u)
         /\ events' \subseteq {READ_RDY, WRITE_RDY, TIMEOUT}
         /\ task[t].at \in {"pend", "pending"} /\ task'[t].at \in {"pending", "again"}
         /\ task'[t].left = task[t].left /\ task'[t].n = task[t].n
<1>1. "again" \in Places /\ "pending" \in Places
  BY DEF Places
<1>2. CASE events' \subseteq events /\ Goto(t, "again") /\ task[t].at \in {"pend", "pending"}
  BY <1>1, <1>2, Going
<1>3. CASE task' = [task EXCEPT ![t].at = "pending", ![t].rdy = {}] /\ UNCHANGED events /\ At(t, "pend")
  <2> DEFINE k == [task[t] EXCEPT !.at = "pending", !.rdy = {}]
  <2>1. task[t] \in TaskState
    OBVIOUS
  <2>2. k \in TaskState /\ k.at = "pending" /\ k.left = task[t].left /\ k.n = task[t].n
    BY <1>1, <2>1 DEF TaskState
  <2>3. task' = [task EXCEPT ![t] = k]
    BY <1>3
  <2> HIDE DEF k
  <2>4. task' \in [Task -> TaskState] /\ task'[t] = k /\ \A u \in Task \ {t} : Kept(u)
    BY <2>2, <2>3, OneEdited
  <2> QED BY <1>3, <2>2, <2>4 DEF At
<1> QED BY <1>2, <1>3 DEF Pend, At
-----------------------------------------------------------------------------
(***************************************************************************)
(* The receiving side.                                                     *)
(***************************************************************************)
RxQuiet == UNCHANGED <<rx_in, rx_out, rx_buf, read_lock>> /\ \A u \in Reader : Kept(u)
TxQuiet == UNCHANGED <<tx_in, tx_out, tx_buf, write_lock>> /\ \A u \in Writer : Kept(u)

LEMMA TaskFields ==
  ASSUME task \in [Task -> TaskState], NEW t \in Task
  PROVE  /\ task[t].at \in Places /\ task[t].in \in Index /\ task[t].out \in Index
         /\ task[t].left \in Seq(Char) /\ task[t].n \in Int /\ Len(task[t].left) \in Nat
<1>1. task[t] \in TaskState
  OBVIOUS
<1>2. /\ task[t].at \in Places /\ task[t].in \in Index /\ task[t].out \in Index
      /\ task[t].left \in Seq(Char) /\ task[t].n \in Int
  BY <1>1 DEF TaskState
<1> QED BY <1>2, LenProperties

\* What concerns no reader leaves the readers as they are.
LEMMA ReadingKept ==
  ASSUME RxQuiet, NEW u \in Reader, Reading(u)
  PROVE  Reading(u)'
BY DEF RxQuiet, Kept, Reading, Pos

LEMMA NotHolding ==
  ASSUME NEW u \in Reader, Reading(u), read_lock # u, Kept(u)
  PROVE  Reading(u)'
<1>1. task[u].at \notin {"look", "copy", "copied", "pend", "pending", "again", "unlock"}
  BY DEF Reading
<1>2. task'[u].at = task[u].at
  BY DEF Kept
<1> QED BY <1>1, <1>2 DEF Reading

\* A reader's step keeps the types, the readers' part, and the writers' side.
LEMMA ReaderSteps ==
  ASSUME JtagInv, NEW t \in Reader, altera_avalon_jtag_uart_read(t)
  PROVE  /\ TypeInv' /\ TxQuiet /\ UNCHANGED <<isr, rxhw, txhw, rx_in, rx_buf, sent>>
         /\ \A u \in Reader : Reading(u)'
<1> USE DEF JtagInv
<1>0. /\ t \in Task /\ Reader \subseteq Task /\ Writer \subseteq Task \ {t} /\ None \notin Reader
      /\ BufLen \in Nat /\ BufLen > 1
  BY JtagAssumption DEF Task
<1>1. /\ task \in [Task -> TaskState] /\ events \subseteq {READ_RDY, WRITE_RDY, TIMEOUT}
      /\ task[t].in \in Index /\ task[t].out \in Index /\ rx_in \in Index /\ rx_out \in Index
      /\ task[t].left \in Seq(Char) /\ task[t].n \in Int /\ rx_buf \in [Index -> Char]
      /\ Len(task[t].left) \in Nat /\ task[t] \in TaskState
  BY <1>0, TaskFields DEF TypeInv
<1>2. ASSUME task' \in [Task -> TaskState], rx_out' \in Index, \A u \in Task \ {t} : Kept(u),
             events' \subseteq {READ_RDY, WRITE_RDY, TIMEOUT},
             UNCHANGED <<rx_in, rx_buf, txsoft, isr, rxhw, txhw, write_lock>>
      PROVE  TypeInv' /\ TxQuiet
  BY <1>0, <1>2 DEF TypeInv, TxQuiet, txsoft
<1>3. ASSUME \A u \in Task \ {t} : Kept(u), read_lock \in {t, None}
      PROVE  \A u \in Reader \ {t} : Reading(u)'
  <2> TAKE u \in Reader \ {t}
  <2>1. u \in Reader /\ Reading(u) /\ Kept(u) /\ read_lock # u
    BY <1>0, <1>3
  <2> QED BY <2>1, NotHolding
<1>4. task[t].at \in {"look", "copy", "copied", "pend", "pending", "again", "unlock"} => read_lock = t
  BY DEF Reading
<1>5. CASE ReadCall(t)
  <2>1. PICK n \in 1 .. MaxCount, b \in BOOLEAN :
          task' = [task EXCEPT ![t] = [Calm EXCEPT !.at = "look", !.n = n, !.block = b]]
    BY <1>5 DEF ReadCall
  <2> DEFINE k == [Calm EXCEPT !.at = "look", !.n = n, !.block = b]
  <2>2. n \in Int
    BY JtagAssumption
  <2>3. k \in TaskState /\ k.at = "look"
    BY <2>2, CalmTyped DEF Calm
  <2>4. task' = [task EXCEPT ![t] = k]
    BY <2>1
  <2> HIDE DEF k
  <2>5. task' \in [Task -> TaskState] /\ task'[t] = k /\ \A u \in Task \ {t} : Kept(u)
    BY <1>0, <1>1, <2>3, <2>4, OneEdited
  <2>6. read_lock' = t
    BY <1>5 DEF ReadCall
  <2>7. Reading(t)'
    BY <2>3, <2>5, <2>6 DEF Reading
  <2>8. read_lock = None
    BY <1>5 DEF ReadCall
  <2> QED BY <1>1, <1>2, <1>3, <1>5, <2>5, <2>7, <2>8 DEF ReadCall, rxsoft, txsoft, hw
<1>6. CASE ReadLook(t)
  <2> DEFINE k == [task[t] EXCEPT !.at = "copy", !.in = rx_in, !.out = rx_out]
  <2>1. task' = [task EXCEPT ![t] = k] /\ task[t].at = "look"
    BY <1>6 DEF ReadLook, At
  <2>2. "copy" \in Places
    BY DEF Places
  <2>3. k \in TaskState
    BY <1>1, <2>2, Edited
  <2>4. k.at = "copy" /\ k.in = rx_in /\ k.out = rx_out
    BY <1>1 DEF TaskState
  <2> HIDE DEF k
  <2>5. task' \in [Task -> TaskState] /\ task'[t] = k /\ \A u \in Task \ {t} : Kept(u)
    BY <1>0, <1>1, <2>1, <2>3, OneEdited
  <2>6. UNCHANGED <<rx_in, rx_out, rx_buf, read_lock>>
    BY <1>6 DEF ReadLook, rxsoft, locks
  <2>7. Fill(rx_in, rx_out) <= Fill(rx_in, rx_out)
    BY <1>0, <1>1, FillIs
  <2>8. Reading(t)'
    BY <1>4, <2>1, <2>4, <2>5, <2>6, <2>7 DEF Reading
  <2> QED BY <1>1, <1>2, <1>3, <1>4, <1>6, <2>1, <2>5, <2>8 DEF ReadLook, rxsoft, txsoft, hw, locks
<1>7. CASE ReadCopy(t)
  <2> DEFINE n == Least(Ready(task[t].in, task[t].out), task[t].n)
             s == [i \in 1 .. n |-> rx_buf[task[t].out + i - 1]]
  <2>1. task[t].at = "copy" /\ UNCHANGED <<rx_in, rx_out, rx_buf, read_lock>> /\ read_lock = t
    BY <1>4, <1>7 DEF ReadCopy, At, rxsoft, locks
  <2>2. task[t].out = rx_out /\ Fill(task[t].in, rx_out) <= Fill(rx_in, rx_out)
    BY <2>1 DEF Reading
  <2>3. /\ Fill(task[t].in, rx_out) = IF task[t].in >= rx_out THEN task[t].in - rx_out
                                      ELSE task[t].in - rx_out + BufLen
        /\ Fill(rx_in, rx_out) \in 0 .. BufLen - 1
    BY <1>1, FillIs
  <2>4. CASE n > 0
    <3>1. /\ n \in Int /\ n <= task[t].n /\ n <= Fill(rx_in, rx_out) /\ n + rx_out <= BufLen
          /\ n \in 1 .. Fill(rx_in, rx_out)
      BY SMTT(30), <1>0, <1>1, <2>2, <2>3, <2>4 DEF Least, Ready, Index
    <3> HIDE DEF n
    <3>2. \A i \in 1 .. n : rx_out + i - 1 \in Index
      BY <1>0, <1>1, <3>1 DEF Index
    <3>3. \A i \in 1 .. n : rx_buf[rx_out + i - 1] \in Char
      BY <1>1, <3>2
    <3>4. n \in Nat /\ s = [i \in 1 .. n |-> rx_buf[rx_out + i - 1]]
      BY <2>2, <2>3, <3>1
    <3> HIDE DEF s
    <3>5. s \in Seq(Char) /\ Len(s) = n /\ \A i \in 1 .. n : s[i] = rx_buf[rx_out + i - 1]
      BY <3>3, <3>4
    <3>6. ASSUME NEW i \in 1 .. n PROVE s[i] = rx_buf[Pos(rx_out, i)]
      <4>1. i \in 1 .. BufLen /\ rx_out + i - 1 < BufLen
        BY <1>0, <1>1, <2>3, <3>1 DEF Index
      <4>2. Pos(rx_out, i) = rx_out + i - 1
        BY <1>1, <4>1, PosIs
      <4> QED BY <3>5, <4>2
    <3> DEFINE k == [task[t] EXCEPT !.at = "copied", !.left = s]
    <3>7. "copied" \in Places
      BY DEF Places
    <3>8. k \in TaskState
      BY <1>1, <3>5, <3>7, Edited
    <3>9. k.at = "copied" /\ k.in = task[t].in /\ k.out = task[t].out /\ k.left = s /\ k.n = task[t].n
      BY <1>1 DEF TaskState
    <3>10. task' = [task EXCEPT ![t] = k]
      BY <1>7, <2>4 DEF ReadCopy, n, s
    <3> HIDE DEF k
    <3>11. task' \in [Task -> TaskState] /\ task'[t] = k /\ \A u \in Task \ {t} : Kept(u)
      BY <1>0, <1>1, <3>8, <3>10, OneEdited
    <3>12. Reading(t)'
      BY <2>1, <2>2, <3>1, <3>5, <3>6, <3>9, <3>11 DEF Reading, Pos
    <3> QED BY <1>1, <1>2, <1>3, <1>7, <2>1, <3>11, <3>12 DEF ReadCopy, rxsoft, txsoft, hw, locks
  <2>5. CASE ~ (n > 0)
    <3>1. PICK p \in {"unlock", "pend"} : Goto(t, p)
      BY <1>7, <2>5 DEF ReadCopy
    <3>2. p \in Places
      BY <3>1 DEF Places
    <3>3. task' \in [Task -> TaskState] /\ task'[t].at = p /\ \A u \in Task \ {t} : Kept(u)
      BY <1>0, <1>1, <3>1, <3>2, Going
    <3>4. Reading(t)'
      BY <2>1, <3>3 DEF Reading
    <3> QED BY <1>1, <1>2, <1>3, <1>7, <2>1, <3>3, <3>4 DEF ReadCopy, rxsoft, txsoft, hw, locks
  <2> QED BY <2>4, <2>5
<1>8. CASE ReadTaken(t)
  <2> DEFINE n == Len(task[t].left)
             p == IF task[t].n > n THEN "look" ELSE "unlock"
             k == [task[t] EXCEPT !.at = p, !.n = @ - n, !.done = 1, !.left = <<>>, !.in = 0, !.out = 0]
  <2>1. task[t].at = "copied" /\ read_lock = t /\ read_lock' = read_lock
    BY <1>4, <1>8 DEF ReadTaken, At, locks
  <2>2. n \in 1 .. Fill(rx_in, rx_out) /\ task[t].out = rx_out /\ n \in Int
    BY <1>1, <2>1 DEF Reading
  <2>3. rx_out' = (rx_out + n) % BufLen
    BY <1>8, <2>2 DEF ReadTaken
  <2>4. rx_out' \in Index
    <3>1. n \in 0 .. Fill(rx_in, rx_out)
      BY <2>2
    <3> QED BY <1>1, <2>3, <3>1, TakeMany
  <2>5. task' = [task EXCEPT ![t] = k]
    BY <1>8 DEF ReadTaken
  <2> HIDE DEF n
  <2>6. k.at = p /\ k \in TaskState
    <3>1. p \in Places /\ 0 \in Index /\ <<>> \in Seq(Char) /\ task[t].n - n \in Int
      BY <1>0, <1>1, <2>2 DEF Places, Index
    <3> HIDE DEF p
    <3> QED BY <1>1, <3>1 DEF TaskState
  <2> HIDE DEF k
  <2>7. task' \in [Task -> TaskState] /\ task'[t] = k /\ \A u \in Task \ {t} : Kept(u)
    BY <1>0, <1>1, <2>5, <2>6, OneEdited
  <2>8. task'[t].at \in {"look", "unlock"}
    BY <2>6, <2>7
  <2>9. Reading(t)'
    BY <2>1, <2>8 DEF Reading
  <2> QED BY <1>1, <1>2, <1>3, <1>8, <2>1, <2>4, <2>7, <2>9 DEF ReadTaken, rxsoft, txsoft, hw, locks
<1>9. CASE ReadPend(t)
  <2>1. Pend(t, "again") /\ UNCHANGED <<rx_in, rx_out, rx_buf, read_lock>>
    BY <1>9 DEF ReadPend, rxsoft, locks
  <2>2. /\ task' \in [Task -> TaskState] /\ \A u \in Task \ {t} : Kept(u)
        /\ events' \subseteq {READ_RDY, WRITE_RDY, TIMEOUT}
        /\ task[t].at \in {"pend", "pending"} /\ task'[t].at \in {"pending", "again"}
    BY <1>0, <1>1, <2>1, Pending
  <2>3. Reading(t)'
    BY <1>4, <2>1, <2>2 DEF Reading
  <2> QED BY <1>1, <1>2, <1>3, <1>4, <1>9, <2>2, <2>3 DEF ReadPend, rxsoft, txsoft, hw, locks
<1>10. CASE ReadAgain(t)
  <2>1. task[t].at = "again" /\ UNCHANGED <<rx_in, rx_out, rx_buf, read_lock>>
    BY <1>10 DEF ReadAgain, At, rxsoft, locks
  <2>2. PICK p \in {"unlock", "look"} : Goto(t, p)
    BY <1>10 DEF ReadAgain
  <2>3. p \in Places
    BY <2>2 DEF Places
  <2>4. task' \in [Task -> TaskState] /\ task'[t].at = p /\ \A u \in Task \ {t} : Kept(u)
    BY <1>0, <1>1, <2>2, <2>3, Going
  <2>5. Reading(t)'
    BY <1>4, <2>1, <2>4 DEF Reading
  <2> QED BY <1>1, <1>2, <1>3, <1>4, <1>10, <2>1, <2>4, <2>5 DEF ReadAgain, rxsoft, txsoft, hw, locks
<1>11. CASE ReadUnlock(t)
  <2>1. task[t].at = "unlock"
    BY <1>11 DEF ReadUnlock, At
  <2>2. PICK k \in {[Calm EXCEPT !.at = "enable"], Calm} : task' = [task EXCEPT ![t] = k]
    BY <1>11 DEF ReadUnlock
  <2>3. k \in TaskState /\ k.at \in {"app", "enable"}
    <3>1. CASE k = Calm
      BY <3>1, CalmTyped, CalmIs
    <3>2. CASE k = [Calm EXCEPT !.at = "enable"]
      BY <3>2, CalmTyped DEF Calm
    <3> QED BY <2>2, <3>1, <3>2
  <2>4. task' \in [Task -> TaskState] /\ task'[t] = k /\ \A u \in Task \ {t} : Kept(u)
    BY <1>0, <1>1, <2>2, <2>3, OneEdited
  <2>5. Reading(t)'
    BY <2>3, <2>4 DEF Reading
  <2> QED BY <1>1, <1>2, <1>3, <1>4, <1>11, <2>1, <2>4, <2>5 DEF ReadUnlock, rxsoft, txsoft, hw
<1>12. CASE ReadEnable(t)
  <2>1. task' = [task EXCEPT ![t] = Calm] /\ UNCHANGED <<rx_in, rx_out, rx_buf, read_lock>>
    BY <1>12 DEF ReadEnable, rxsoft, locks
  <2>2. task' \in [Task -> TaskState] /\ task'[t] = Calm /\ \A u \in Task \ {t} : Kept(u)
    BY <1>0, <1>1, <2>1, CalmTyped, OneEdited
  <2>3. Reading(t)'
    BY <2>2, CalmIs DEF Reading
  <2>4. ASSUME NEW u \in Reader \ {t} PROVE Reading(u)'
    <3>1. Kept(u) /\ Reading(u)
      BY <1>0, <2>2
    <3> QED BY <2>1, <3>1 DEF Kept, Reading, Pos
  <2> QED BY <1>1, <1>2, <1>12, <2>2, <2>3, <2>4 DEF ReadEnable, rxsoft, txsoft, hw, locks
<1> QED BY <1>5, <1>6, <1>7, <1>8, <1>9, <1>10, <1>11, <1>12 DEF altera_avalon_jtag_uart_read
-----------------------------------------------------------------------------
(***************************************************************************)
(* The transmitting side.                                                  *)
(***************************************************************************)
LEMMA WritingKept ==
  ASSUME TxQuiet, NEW u \in Writer, Writing(u)
  PROVE  Writing(u)'
BY DEF TxQuiet, Kept, Writing, Fill

LEMMA NotWriting ==
  ASSUME NEW u \in Writer, Writing(u), write_lock # u, Kept(u)
  PROVE  Writing(u)'
<1>1. task[u].at \notin {"look", "copy", "copied", "kick", "pend", "pending", "again", "unlock"}
  BY DEF Writing
<1>2. task'[u].at = task[u].at /\ task'[u].left = task[u].left
  BY DEF Kept
<1> QED BY <1>1, <1>2 DEF Writing

\* The room a writer sees is room: it lies in one piece, and one place stays empty.
LEMMA RoomIs ==
  ASSUME NEW in \in Index, NEW out \in Index
  PROVE  Room(in, out) \in Nat /\ Fill(in, out) + Room(in, out) <= BufLen - 1 /\ in + Room(in, out) <= BufLen
<1>1. BufLen \in Nat /\ BufLen > 1
  BY JtagAssumption
<1>2. Fill(in, out) = IF in >= out THEN in - out ELSE in - out + BufLen
  BY FillIs
<1> QED BY <1>1, <1>2 DEF Room, Index

\* A writer's step keeps the types, the writers' part, and the readers' side.
LEMMA WriterSteps ==
  ASSUME JtagInv, NEW t \in Writer, altera_avalon_jtag_uart_write(t) \/ altera_avalon_jtag_uart_close(t)
  PROVE  /\ TypeInv' /\ RxQuiet /\ UNCHANGED <<isr, rxhw, txhw, tx_out, given, sent>>
         /\ \A u \in Writer : Writing(u)'
<1> USE DEF JtagInv
<1>0. /\ t \in Task /\ Writer \subseteq Task /\ Reader \subseteq Task \ {t} /\ None \notin Writer
      /\ BufLen \in Nat /\ BufLen > 1 /\ MaxCount \in Nat
  BY JtagAssumption DEF Task
<1>1. /\ task \in [Task -> TaskState] /\ events \subseteq {READ_RDY, WRITE_RDY, TIMEOUT}
      /\ task[t].in \in Index /\ task[t].out \in Index /\ tx_in \in Index /\ tx_out \in Index
      /\ task[t].left \in Seq(Char) /\ task[t].n \in Int /\ tx_buf \in [Index -> Char]
      /\ Len(task[t].left) \in Nat /\ task[t] \in TaskState
  BY <1>0, TaskFields DEF TypeInv
<1>2. ASSUME task' \in [Task -> TaskState], tx_in' \in Index, tx_buf' \in [Index -> Char],
             \A u \in Task \ {t} : Kept(u), events' \subseteq {READ_RDY, WRITE_RDY, TIMEOUT},
             UNCHANGED <<rxsoft, tx_out, isr, rxhw, txhw, read_lock>>
      PROVE  TypeInv' /\ RxQuiet
  BY <1>0, <1>2 DEF TypeInv, RxQuiet, rxsoft
<1>3. ASSUME \A u \in Task \ {t} : Kept(u), write_lock \in {t, None}
      PROVE  \A u \in Writer \ {t} : Writing(u)'
  <2> TAKE u \in Writer \ {t}
  <2>1. u \in Writer /\ Writing(u) /\ Kept(u) /\ write_lock # u
    BY <1>0, <1>3
  <2> QED BY <2>1, NotWriting
<1>4. /\ task[t].at \in {"look", "copy", "copied", "kick", "pend", "pending", "again", "unlock"} => write_lock = t
      /\ Len(task[t].left) <= MaxCount
      /\ task[t].at \in {"look", "copy", "copied", "pend", "pending", "again"} => task[t].left # <<>>
  BY DEF Writing
\* What only sends the task to another place.
<1>5. ASSUME NEW p \in {"kick", "pend", "unlock", "look"}, Goto(t, p), write_lock = t, write_lock' = write_lock,
             p \in {"look", "pend"} => task[t].left # <<>>
      PROVE  task' \in [Task -> TaskState] /\ (\A u \in Task \ {t} : Kept(u)) /\ Writing(t)'
  <2>1. p \in Places
    BY DEF Places
  <2>2. /\ task' \in [Task -> TaskState] /\ \A u \in Task \ {t} : Kept(u)
        /\ task'[t].at = p /\ task'[t].left = task[t].left
    BY <1>0, <1>1, <1>5, <2>1, Going
  <2> QED BY <1>4, <1>5, <2>2 DEF Writing
<1>6. CASE WriteCall(t)
  <2>1. PICK n \in 1 .. MaxCount, b \in BOOLEAN : \E s \in [1 .. n -> Char] :
          task' = [task EXCEPT ![t] = [Calm EXCEPT !.at = "look", !.left = s, !.block = b]]
    BY <1>6 DEF WriteCall
  <2>2. PICK s \in [1 .. n -> Char] :
          task' = [task EXCEPT ![t] = [Calm EXCEPT !.at = "look", !.left = s, !.block = b]]
    BY <2>1
  <2>3. n \in Nat /\ n >= 1 /\ n <= MaxCount
    BY <1>0
  <2>4. s \in Seq(Char) /\ Len(s) = n
    BY <2>3
  <2>5. s # <<>>
    BY <2>3, <2>4
  <2> DEFINE k == [Calm EXCEPT !.at = "look", !.left = s, !.block = b]
  <2>6. k \in TaskState /\ k.at = "look" /\ k.left = s
    BY <2>4, CalmTyped DEF Calm
  <2>7. task' = [task EXCEPT ![t] = k]
    BY <2>2
  <2> HIDE DEF k
  <2>8. task' \in [Task -> TaskState] /\ task'[t] = k /\ \A u \in Task \ {t} : Kept(u)
    BY <1>0, <1>1, <2>6, <2>7, OneEdited
  <2>9. write_lock' = t /\ write_lock = None
    BY <1>6 DEF WriteCall
  <2>10. Writing(t)'
    BY <2>3, <2>4, <2>5, <2>6, <2>8, <2>9 DEF Writing
  <2> QED BY <1>1, <1>2, <1>3, <1>6, <2>8, <2>9, <2>10 DEF WriteCall, rxsoft, txsoft, hw
<1>7. CASE WriteLook(t)
  <2> DEFINE room == Room(tx_in, tx_out)
             m == Least(room, Len(task[t].left))
             p == IF room = 0 THEN "kick" ELSE "copy"
             k == [task[t] EXCEPT !.at = p, !.in = tx_in, !.n = m]
  <2>1. task[t].at = "look" /\ task' = [task EXCEPT ![t] = k]
    BY <1>7 DEF WriteLook, At
  <2>2. UNCHANGED <<tx_in, tx_out, tx_buf, write_lock>> /\ write_lock = t
    BY <1>4, <1>7, <2>1 DEF WriteLook, txsoft, locks
  <2>3. room \in Nat /\ Fill(tx_in, tx_out) + room <= BufLen - 1 /\ tx_in + room <= BufLen
    BY <1>1, RoomIs
  <2>4. Len(task[t].left) >= 1
    BY <1>1, <1>4, <2>1, EmptySeq
  <2>5. m \in Int /\ m <= room /\ m <= Len(task[t].left) /\ (room # 0 => m >= 1)
    <3> HIDE DEF room
    <3> QED BY <1>1, <2>3, <2>4 DEF Least
  <2>6. Fill(tx_in, tx_out) \in Int
    BY <1>0, <1>1, FillIs
  <2>7. p \in Places
    BY DEF Places
  <2> HIDE DEF m
  <2>8. k \in TaskState
    BY <1>1, <2>5, <2>7, Edited
  <2>9. k.at = p /\ k.in = tx_in /\ k.n = m /\ k.left = task[t].left
    BY <1>1 DEF TaskState
  <2> HIDE DEF k
  <2>10. task' \in [Task -> TaskState] /\ task'[t] = k /\ \A u \in Task \ {t} : Kept(u)
    BY <1>0, <1>1, <2>1, <2>8, OneEdited
  <2>11. Writing(t)'
    <3>1. CASE room = 0
      BY <1>4, <2>1, <2>2, <2>9, <2>10, <3>1 DEF Writing
    <3>2. CASE room # 0
      <4>1. /\ m \in 1 .. Len(task[t].left) /\ Fill(tx_in, tx_out) + m <= BufLen - 1 /\ tx_in + m <= BufLen
        <5> HIDE DEF room
        <5> QED BY <1>0, <1>1, <2>3, <2>5, <2>6, <3>2 DEF Index
      <4>2. /\ task'[t].at = "copy" /\ task'[t].in = tx_in /\ task'[t].n = m
            /\ task'[t].left = task[t].left /\ task[t].left # <<>>
        BY <1>4, <2>1, <2>9, <2>10, <3>2
      <4> QED BY <1>4, <2>2, <4>1, <4>2 DEF Writing, Fill
    <3> QED BY <3>1, <3>2
  <2> QED BY <1>1, <1>2, <1>3, <1>7, <2>2, <2>10, <2>11 DEF WriteLook, rxsoft, txsoft, hw, locks
<1>8. CASE WriteCopy(t)
  <2> DEFINE from == task[t].in
             m == task[t].n
             s == task[t].left
  <2>1. /\ task[t].at = "copy" /\ Goto(t, "copied") /\ UNCHANGED <<tx_in, tx_out, write_lock>>
        /\ tx_buf' = [i \in Index |-> IF i \in from .. from + m - 1 THEN s[i - from + 1] ELSE tx_buf[i]]
    BY <1>8 DEF WriteCopy, At, locks
  <2>2. /\ from = tx_in /\ m \in 1 .. Len(s) /\ Fill(tx_in, tx_out) + m <= BufLen - 1
        /\ tx_in + m <= BufLen /\ s # <<>> /\ write_lock = t /\ Len(s) <= MaxCount
    BY <2>1 DEF Writing
  <2>3. from \in Index /\ m \in Int /\ s \in Seq(Char) /\ Len(s) \in Nat
    BY <1>1
  <2>4. "copied" \in Places
    BY DEF Places
  <2>5. /\ task' \in [Task -> TaskState] /\ \A u \in Task \ {t} : Kept(u)
        /\ task'[t].at = "copied" /\ task'[t].in = from /\ task'[t].n = m /\ task'[t].left = s
    BY <1>0, <1>1, <2>1, <2>4, Going
  <2> HIDE DEF from, m, s
  <2>6. tx_buf' \in [Index -> Char]
    <3>1. ASSUME NEW i \in Index, i \in from .. from + m - 1 PROVE s[i - from + 1] \in Char
      <4>1. i - from + 1 \in 1 .. Len(s)
        BY <1>0, <2>2, <2>3, <3>1 DEF Index
      <4> QED BY <2>3, <4>1, ElementOfSeq
    <3>2. \A i \in Index : tx_buf[i] \in Char
      BY <1>1
    <3> QED BY <2>1, <3>1, <3>2
  <2>7. ASSUME NEW i \in 1 .. m PROVE tx_buf'[tx_in + i - 1] = s[i]
    <3> DEFINE j == tx_in + i - 1
    <3>1. j \in Index /\ j \in from .. from + m - 1 /\ j - from + 1 = i
      BY <1>0, <1>1, <2>2, <2>3 DEF Index
    <3> HIDE DEF j
    <3>2. tx_buf'[j] = s[i]
      BY <2>1, <3>1
    <3> QED BY <3>2 DEF j
  <2>8. Writing(t)'
    BY <2>1, <2>2, <2>5, <2>7 DEF Writing, Fill
  <2> QED BY <1>1, <1>2, <1>3, <1>8, <2>2, <2>5, <2>6, <2>8 DEF WriteCopy, rxsoft, hw, locks
<1>9. CASE WritePut(t)
  <2> DEFINE m == task[t].n
             s == task[t].left
             rest == SubSeq(s, m + 1, Len(s))
             p == IF rest = <<>> THEN "kick" ELSE "look"
             k == [task[t] EXCEPT !.at = p, !.left = rest, !.n = 0, !.in = 0, !.done = 1]
  <2>1. /\ task[t].at = "copied" /\ UNCHANGED <<tx_out, tx_buf, write_lock>> /\ write_lock = t
        /\ tx_in' = (task[t].in + m) % BufLen /\ task' = [task EXCEPT ![t] = k]
    BY <1>4, <1>9 DEF WritePut, At, locks
  <2>2. /\ task[t].in = tx_in /\ m \in 1 .. Len(s) /\ tx_in + m <= BufLen /\ Len(s) <= MaxCount
    BY <2>1 DEF Writing
  <2>3. tx_in' \in Index
    <3>1. m \in 0 .. BufLen
      BY <1>0, <1>1, <2>2 DEF Index
    <3> QED BY <1>1, <2>1, <2>2, <3>1, StepIs
  <2>4. rest \in Seq(Char) /\ Len(rest) <= MaxCount
    <3>1. m \in 0 .. Len(s) /\ s \in Seq(Char) /\ Len(s) \in Nat
      BY <1>1, <2>2
    <3>2. rest \in Seq(Char) /\ Len(rest) = Len(s) - m
      BY ZenonT(40), <3>1, PartsOf
    <3> QED BY SMTT(30), <1>0, <2>2, <3>1, <3>2
  <2> HIDE DEF rest
  <2>5. k \in TaskState /\ k.at = p /\ k.left = rest
    <3>1. p \in Places /\ 0 \in Index
      BY <1>0 DEF Places, Index
    <3> HIDE DEF p
    <3>2. k \in TaskState
      BY <1>1, <2>4, <3>1, Edited
    <3>3. k.at = p /\ k.left = rest
      BY <1>1 DEF TaskState
    <3> QED BY <3>2, <3>3
  <2> HIDE DEF k
  <2>6. task' \in [Task -> TaskState] /\ task'[t] = k /\ \A u \in Task \ {t} : Kept(u)
    BY <1>0, <1>1, <2>1, <2>5, OneEdited
  <2>7. Writing(t)'
    BY <2>1, <2>4, <2>5, <2>6 DEF Writing
  <2> QED BY <1>1, <1>2, <1>3, <1>9, <2>1, <2>3, <2>6, <2>7 DEF WritePut, rxsoft, txsoft, hw, locks
<1>10. CASE WriteKick(t)
  <2>1. PICK p \in {"pend", "unlock"} : Goto(t, p) /\ (p = "pend" => task[t].left # <<>>)
    BY <1>10 DEF WriteKick
  <2>2. write_lock = t /\ write_lock' = write_lock
    BY <1>4, <1>10 DEF WriteKick, At, locks
  <2>3. task' \in [Task -> TaskState] /\ (\A u \in Task \ {t} : Kept(u)) /\ Writing(t)'
    BY <1>5, <2>1, <2>2
  <2> QED BY <1>1, <1>2, <1>3, <1>10, <2>2, <2>3 DEF WriteKick, rxsoft, txsoft, hw, locks
<1>11. CASE WritePend(t)
  <2>1. Pend(t, "again") /\ UNCHANGED <<tx_in, tx_out, tx_buf, write_lock>>
    BY <1>11 DEF WritePend, txsoft, locks
  <2>2. /\ task' \in [Task -> TaskState] /\ \A u \in Task \ {t} : Kept(u)
        /\ events' \subseteq {READ_RDY, WRITE_RDY, TIMEOUT}
        /\ task[t].at \in {"pend", "pending"} /\ task'[t].at \in {"pending", "again"}
        /\ task'[t].left = task[t].left
    BY <1>0, <1>1, <2>1, Pending
  <2>3. Writing(t)'
    BY <1>4, <2>1, <2>2 DEF Writing
  <2> QED BY <1>1, <1>2, <1>3, <1>4, <1>11, <2>2, <2>3 DEF WritePend, rxsoft, txsoft, hw, locks
<1>12. CASE WriteAgain(t)
  <2>1. PICK p \in {"look", "unlock"} : Goto(t, p)
    BY <1>12 DEF WriteAgain
  <2>2. task[t].at = "again" /\ write_lock = t /\ write_lock' = write_lock /\ task[t].left # <<>>
    BY <1>4, <1>12 DEF WriteAgain, At, locks
  <2>3. task' \in [Task -> TaskState] /\ (\A u \in Task \ {t} : Kept(u)) /\ Writing(t)'
    BY <1>5, <2>1, <2>2
  <2> QED BY <1>1, <1>2, <1>3, <1>12, <2>2, <2>3 DEF WriteAgain, rxsoft, txsoft, hw, locks
\* The task is done with its call.
<1>13. ASSUME task' = [task EXCEPT ![t] = Calm]
       PROVE  task' \in [Task -> TaskState] /\ (\A u \in Task \ {t} : Kept(u)) /\ Writing(t)'
  <2>1. task' \in [Task -> TaskState] /\ task'[t] = Calm /\ \A u \in Task \ {t} : Kept(u)
    BY <1>0, <1>1, <1>13, CalmTyped, OneEdited
  <2>2. Len(<<>>) <= MaxCount
    BY <1>0
  <2> QED BY <2>1, <2>2, CalmIs DEF Writing
<1>14. CASE WriteUnlock(t)
  <2>1. task[t].at = "unlock" /\ task' = [task EXCEPT ![t] = Calm]
    BY <1>14 DEF WriteUnlock, At
  <2>2. task' \in [Task -> TaskState] /\ (\A u \in Task \ {t} : Kept(u)) /\ Writing(t)'
    BY <1>13, <2>1
  <2> QED BY <1>1, <1>2, <1>3, <1>4, <1>14, <2>1, <2>2 DEF WriteUnlock, rxsoft, txsoft, hw
\* A close touches neither the lock nor the buffer.
<1>15. ASSUME UNCHANGED <<txsoft, write_lock>>, \A u \in Task \ {t} : Kept(u), Writing(t)'
       PROVE  \A u \in Writer : Writing(u)'
  <2>1. ASSUME NEW u \in Writer \ {t} PROVE Writing(u)'
    <3>1. Kept(u) /\ Writing(u)
      BY <1>0, <1>15
    <3> QED BY <1>15, <3>1 DEF Kept, Writing, Fill, txsoft
  <2> QED BY <1>15, <2>1
<1>16. CASE CloseCall(t)
  <2>1. Goto(t, "close") /\ "close" \in Places
    BY <1>16 DEF CloseCall, Places
  <2>2. /\ task' \in [Task -> TaskState] /\ \A u \in Task \ {t} : Kept(u)
        /\ task'[t].at = "close" /\ task'[t].left = task[t].left
    BY <1>0, <1>1, <2>1, Going
  <2>3. Writing(t)'
    BY <1>4, <2>2 DEF Writing
  <2> QED BY <1>1, <1>2, <1>15, <1>16, <2>2, <2>3 DEF CloseCall, rxsoft, txsoft, hw, locks
<1>17. CASE CloseEnds(t)
  <2>1. task' = [task EXCEPT ![t] = Calm]
    BY <1>17 DEF CloseEnds
  <2>2. task' \in [Task -> TaskState] /\ (\A u \in Task \ {t} : Kept(u)) /\ Writing(t)'
    BY <1>13, <2>1
  <2> QED BY <1>1, <1>2, <1>15, <1>17, <2>2 DEF CloseEnds, rxsoft, txsoft, hw, locks
<1> QED BY <1>6, <1>7, <1>8, <1>9, <1>10, <1>11, <1>12, <1>14, <1>16, <1>17
        DEF altera_avalon_jtag_uart_write, altera_avalon_jtag_uart_close
-----------------------------------------------------------------------------
(***************************************************************************)
(* The interrupt routine, the alarm and the host.                          *)
(***************************************************************************)
LEMMA AllQuiet ==
  ASSUME JtagInv
  PROVE  /\ RxQuiet => \A u \in Reader : Reading(u)'
         /\ TxQuiet => \A u \in Writer : Writing(u)'
BY ReadingKept, WritingKept DEF JtagInv

\* A step that changes no task but to wake it.
LEMMA NobodyMoves ==
  ASSUME task' = task \/ \A u \in Task : Kept(u)
  PROVE  /\ UNCHANGED <<rxsoft, read_lock>> => RxQuiet
         /\ UNCHANGED <<txsoft, write_lock>> => TxQuiet
         /\ \A u \in Task : Kept(u)
BY DEF Task, Kept, RxQuiet, TxQuiet, rxsoft, txsoft

\* What the buffer receives lies behind what a reader has seen.
LEMMA ReceiveSteps ==
  ASSUME JtagInv, IsrRead
  PROVE  TypeInv' /\ SpaceInv' /\ TxQuiet /\ \A u \in Reader : Reading(u)'
<1> USE DEF JtagInv
<1>1. /\ rx_in \in Index /\ rx_out \in Index /\ rx_buf \in [Index -> Char] /\ rxhw \in Seq(Char)
      /\ task \in [Task -> TaskState] /\ events \subseteq {READ_RDY, WRITE_RDY, TIMEOUT}
      /\ BufLen \in Nat /\ BufLen > 1
  BY JtagAssumption DEF TypeInv
<1>2. /\ (rx_in + 1) % BufLen # rx_out /\ rxhw # <<>> /\ rx_in' = (rx_in + 1) % BufLen
      /\ rx_buf' = [rx_buf EXCEPT ![rx_in] = Head(rxhw)] /\ rxhw' = Tail(rxhw) /\ Post(READ_RDY)
      /\ UNCHANGED <<rx_out, txsoft, read_lock, write_lock, txhw>> /\ isr.at = "rx"
      /\ isr' = [isr EXCEPT !.ravail = Tail(rxhw) # <<>>]
  BY DEF IsrRead, RxFull, locks
<1>3. Head(rxhw) \in Char /\ Tail(rxhw) \in Seq(Char)
  BY <1>1, <1>2, Handed
<1>4. rx_buf' \in [Index -> Char] /\ rx_in' \in Index
  <2>1. 1 \in 0 .. BufLen
    BY <1>1
  <2> QED BY <1>1, <1>2, <1>3, <2>1, StepIs
<1>5. /\ task' \in [Task -> TaskState] /\ \A u \in Task : Kept(u)
      /\ events' \subseteq {READ_RDY, WRITE_RDY, TIMEOUT}
  <2>1. READ_RDY \in {READ_RDY, WRITE_RDY, TIMEOUT}
    OBVIOUS
  <2> QED BY <1>1, <1>2, <2>1, Waking
<1>6. TxQuiet
  BY <1>2, <1>5, NobodyMoves
<1>7. isr' \in [at : {"idle", "control", "rx", "tx"}, wi : BOOLEAN, ravail : BOOLEAN, space : Int]
      /\ isr'.at = "rx" /\ isr'.space = isr.space
  BY <1>2 DEF TypeInv
<1>8. TypeInv'
  BY <1>1, <1>2, <1>3, <1>4, <1>5, <1>7 DEF TypeInv, txsoft
<1>9. SpaceInv'
  BY <1>2, <1>7 DEF SpaceInv
<1> DEFINE f == Fill(rx_in, rx_out)
<1>10. f \in 0 .. BufLen - 1 /\ f + 1 <= BufLen - 1
  <2>1. f \in 0 .. BufLen - 1 /\ f = IF rx_in >= rx_out THEN rx_in - rx_out ELSE rx_in - rx_out + BufLen
    BY <1>1, FillIs
  <2>2. 1 \in 0 .. BufLen
    BY <1>1
  <2>3. rx_in' = IF rx_in + 1 < BufLen THEN rx_in + 1 ELSE rx_in + 1 - BufLen
    BY <1>1, <1>2, <2>2, StepIs
  <2> HIDE DEF f
  <2> QED BY SMTT(30), <1>1, <1>2, <2>1, <2>3 DEF Index
<1>11. /\ Fill(rx_in', rx_out) = f + 1
       /\ \A i \in 1 .. f : Pos(rx_out, i) # rx_in
  <2>1. 1 \in 0 .. BufLen /\ rx_in + 1 <= BufLen
    BY <1>1 DEF Index
  <2>2. /\ Fill((rx_in + 1) % BufLen, rx_out) = f + 1
        /\ \A i \in 1 .. f : Pos(rx_out, i) \notin rx_in .. rx_in + 1 - 1
    BY <1>1, <1>10, <2>1, PutMany
  <2>3. rx_in \in rx_in .. rx_in + 1 - 1
    BY <1>1 DEF Index
  <2> QED BY <1>2, <2>2, <2>3
<1>12. ASSUME NEW u \in Reader PROVE Reading(u)'
  <2>1. Kept(u) /\ Reading(u) /\ u \in Task
    BY <1>5 DEF Task
  <2>2. /\ task'[u].at = task[u].at /\ task'[u].in = task[u].in /\ task'[u].out = task[u].out
        /\ task'[u].left = task[u].left /\ task'[u].n = task[u].n
    BY <2>1 DEF Kept
  <2>3. task'[u].at \in {"look", "copy", "copied", "pend", "pending", "again", "unlock"} => read_lock' = u
    BY <1>2, <2>1, <2>2 DEF Reading
  <2>4. task'[u].at \in {"copy", "copied"} =>
          task'[u].out = rx_out' /\ Fill(task'[u].in, rx_out') <= Fill(rx_in', rx_out')
    <3> SUFFICES ASSUME task[u].at \in {"copy", "copied"}
                 PROVE  task[u].out = rx_out /\ Fill(task[u].in, rx_out) <= f + 1
      BY <1>2, <1>11, <2>2
    <3>1. task[u].out = rx_out /\ Fill(task[u].in, rx_out) <= f
      BY <2>1 DEF Reading
    <3>2. Fill(task[u].in, rx_out) \in 0 .. BufLen - 1
      BY <1>1, <2>1, TaskFields, FillIs
    <3> HIDE DEF f
    <3> QED BY <1>1, <1>10, <3>1, <3>2
  <2>5. ASSUME task'[u].at = "copied"
        PROVE  /\ Len(task'[u].left) \in 1 .. Fill(rx_in', rx_out') /\ Len(task'[u].left) <= task'[u].n
               /\ \A i \in 1 .. Len(task'[u].left) : task'[u].left[i] = rx_buf'[Pos(rx_out', i)]
    <3>1. /\ Len(task[u].left) \in 1 .. f /\ Len(task[u].left) <= task[u].n
          /\ \A i \in 1 .. Len(task[u].left) : task[u].left[i] = rx_buf[Pos(rx_out, i)]
      BY <2>1, <2>2, <2>5 DEF Reading
    <3>2. Len(task[u].left) \in 1 .. f + 1
      <4> HIDE DEF f
      <4> QED BY <1>10, <3>1
    <3>3. ASSUME NEW i \in 1 .. Len(task[u].left) PROVE task[u].left[i] = rx_buf'[Pos(rx_out, i)]
      <4>1. i \in 1 .. f /\ i \in 1 .. BufLen
        <5> HIDE DEF f
        <5> QED BY <1>1, <1>10, <3>1
      <4>2. Pos(rx_out, i) \in Index /\ Pos(rx_out, i) # rx_in
        BY <1>1, <1>11, <4>1, PosIs
      <4> QED BY <1>1, <1>2, <3>1, <4>2
    <3> QED BY <1>2, <1>11, <2>2, <3>1, <3>2, <3>3
  <2> QED BY <2>3, <2>4, <2>5 DEF Reading, Pos
<1> QED BY <1>6, <1>8, <1>9, <1>12

\* What is sent makes room, and a writer needs no more than it saw.
LEMMA SendSteps ==
  ASSUME JtagInv, IsrWrite
  PROVE  /\ TypeInv' /\ SpaceInv' /\ RxQuiet /\ Len(txhw) < TxDepth
         /\ \A u \in Writer : Writing(u)'
<1> USE DEF JtagInv
<1>1. /\ tx_in \in Index /\ tx_out \in Index /\ tx_buf \in [Index -> Char] /\ txhw \in Seq(Char)
      /\ task \in [Task -> TaskState] /\ events \subseteq {READ_RDY, WRITE_RDY, TIMEOUT}
      /\ BufLen \in Nat /\ BufLen > 1 /\ TxDepth \in Nat /\ Len(txhw) \in Nat /\ isr.space \in Int
  BY JtagAssumption, LenProperties DEF TypeInv
<1>2. /\ isr.at = "tx" /\ isr.space > 0 /\ tx_out # tx_in /\ tx_out' = (tx_out + 1) % BufLen
      /\ txhw' = IF Len(txhw) < TxDepth THEN Append(txhw, tx_buf[tx_out]) ELSE txhw
      /\ Post(WRITE_RDY) /\ UNCHANGED <<rxsoft, tx_in, tx_buf, read_lock, write_lock, rxhw>>
      /\ isr' = [isr EXCEPT !.space = @ - 1]
  BY DEF IsrWrite, locks
<1>3. Len(txhw) < TxDepth /\ isr.space + Len(txhw) <= TxDepth
  BY <1>1, <1>2 DEF SpaceInv
<1>4. txhw' \in Seq(Char) /\ Len(txhw') = Len(txhw) + 1
  BY <1>1, <1>2, <1>3
<1>5. Fill(tx_in, tx_out) \in 1 .. BufLen - 1
  BY <1>1, <1>2, FillIs DEF Index
<1>6. tx_out' \in Index /\ Fill(tx_in, tx_out') = Fill(tx_in, tx_out) - 1
  <2>1. 1 \in 0 .. Fill(tx_in, tx_out)
    BY <1>5
  <2> QED BY <1>1, <1>2, <2>1, TakeMany
<1>7. /\ task' \in [Task -> TaskState] /\ \A u \in Task : Kept(u)
      /\ events' \subseteq {READ_RDY, WRITE_RDY, TIMEOUT}
  <2>1. WRITE_RDY \in {READ_RDY, WRITE_RDY, TIMEOUT}
    OBVIOUS
  <2> QED BY <1>1, <1>2, <2>1, Waking
<1>8. RxQuiet
  BY <1>2, <1>7, NobodyMoves
<1>9. isr' \in [at : {"idle", "control", "rx", "tx"}, wi : BOOLEAN, ravail : BOOLEAN, space : Int]
      /\ isr'.at = "tx" /\ isr'.space = isr.space - 1
  BY <1>2 DEF TypeInv
<1>10. TypeInv'
  BY <1>1, <1>2, <1>4, <1>6, <1>7, <1>9 DEF TypeInv, rxsoft
<1>11. SpaceInv'
  BY <1>1, <1>3, <1>4, <1>9 DEF SpaceInv
<1>12. ASSUME NEW u \in Writer PROVE Writing(u)'
  <2>1. Kept(u) /\ Writing(u) /\ u \in Task
    BY <1>7 DEF Task
  <2>2. /\ task'[u].at = task[u].at /\ task'[u].in = task[u].in
        /\ task'[u].left = task[u].left /\ task'[u].n = task[u].n
    BY <2>1 DEF Kept
  <2>3. task[u].at \in {"copy", "copied"} => Fill(tx_in, tx_out') + task[u].n <= BufLen - 1
    <3>1. task[u].n \in Int
      BY <1>1, <2>1, TaskFields
    <3>2. task[u].at \in {"copy", "copied"} => Fill(tx_in, tx_out) + task[u].n <= BufLen - 1
      BY <2>1 DEF Writing
    <3> QED BY <1>1, <1>5, <1>6, <3>1, <3>2
  <2> QED BY <1>2, <2>1, <2>2, <2>3 DEF Writing, Fill
<1> QED BY <1>3, <1>8, <1>10, <1>11, <1>12

LEMMA OtherSteps ==
  ASSUME JtagInv,
         \/ Interrupt \/ IsrControl \/ IsrReadEnds \/ IsrWriteEnds
         \/ altera_avalon_jtag_uart_ioctl \/ altera_avalon_jtag_uart_timeout
         \/ HostSends \/ HostTakes
  PROVE  TypeInv' /\ SpaceInv' /\ RxQuiet /\ TxQuiet
<1> USE DEF JtagInv
<1> DEFINE IsrState == [at : {"idle", "control", "rx", "tx"}, wi : BOOLEAN, ravail : BOOLEAN, space : Int]
<1>1. /\ rxhw \in Seq(Char) /\ txhw \in Seq(Char) /\ Len(txhw) \in Nat /\ isr \in IsrState
      /\ task \in [Task -> TaskState] /\ events \subseteq {READ_RDY, WRITE_RDY, TIMEOUT}
      /\ TxDepth \in Nat /\ isr.space \in Int
  BY JtagAssumption, LenProperties DEF TypeInv
\* The buffers and the locks stay as they are.
<1>2. ASSUME UNCHANGED <<rxsoft, txsoft, locks>>, rxhw' \in Seq(Char), txhw' \in Seq(Char), isr' \in IsrState,
             \/ UNCHANGED <<task, events>>
             \/ /\ task' \in [Task -> TaskState] /\ \A u \in Task : Kept(u)
                /\ events' \subseteq {READ_RDY, WRITE_RDY, TIMEOUT}
      PROVE  TypeInv' /\ RxQuiet /\ TxQuiet
  <2>1. RxQuiet /\ TxQuiet
    BY <1>2, NobodyMoves DEF locks
  <2>2. TypeInv'
    BY <1>2 DEF TypeInv, rxsoft, txsoft
  <2> QED BY <2>1, <2>2
<1>3. CASE Interrupt
  <2>1. isr' \in IsrState /\ isr'.at = "control"
    BY <1>1, <1>3 DEF Interrupt
  <2> QED BY <1>1, <1>2, <1>3, <2>1 DEF Interrupt, SpaceInv, hw
<1>4. CASE IsrControl
  <2>1. CASE RI \/ WI
    <3>1. PICK p \in {"rx", "tx"} :
            isr' = [at |-> p, wi |-> WI, ravail |-> TRUE, space |-> TxDepth - Len(txhw)]
      BY <1>4, <2>1 DEF IsrControl
    <3>2. WI \in BOOLEAN
      BY DEF WI
    <3>3. isr' \in IsrState /\ isr'.space = TxDepth - Len(txhw)
      <4> DEFINE w == WI
      <4>1. w \in BOOLEAN
        BY <3>2
      <4>2. isr' = [at |-> p, wi |-> w, ravail |-> TRUE, space |-> TxDepth - Len(txhw)]
        BY <3>1
      <4> HIDE DEF w
      <4> QED BY <1>1, <4>1, <4>2
    <3> QED BY <1>1, <1>2, <1>4, <3>3 DEF IsrControl, SpaceInv, hw
  <2>2. CASE ~ (RI \/ WI)
    <3>1. isr' \in IsrState /\ isr'.at = "idle"
      BY <1>4, <2>2 DEF IsrControl, IsrIdle
    <3> QED BY <1>1, <1>2, <1>4, <3>1 DEF IsrControl, SpaceInv, hw
  <2> QED BY <2>1, <2>2
<1>5. CASE IsrReadEnds
  <2>1. isr.at = "rx" /\ isr' \in IsrState /\ isr'.space = isr.space
    BY <1>1, <1>5 DEF IsrReadEnds
  <2> QED BY <1>1, <1>2, <1>5, <2>1 DEF IsrReadEnds, SpaceInv, hw
<1>6. CASE IsrWriteEnds
  <2>1. isr' \in IsrState /\ isr'.at = "control"
    BY <1>1, <1>6 DEF IsrWriteEnds
  <2> QED BY <1>1, <1>2, <1>6, <2>1 DEF IsrWriteEnds, SpaceInv, hw
<1>7. CASE altera_avalon_jtag_uart_ioctl
  BY <1>1, <1>2, <1>7 DEF altera_avalon_jtag_uart_ioctl, SpaceInv, hw
<1>8. CASE altera_avalon_jtag_uart_timeout
  <2>1. /\ UNCHANGED <<rxsoft, txsoft, locks, isr, rxhw, txhw>>
        /\ UNCHANGED <<task, events>> \/ Post(TIMEOUT)
    BY <1>8 DEF altera_avalon_jtag_uart_timeout
  <2>2. TIMEOUT \in {READ_RDY, WRITE_RDY, TIMEOUT}
    OBVIOUS
  <2>3. \/ UNCHANGED <<task, events>>
        \/ /\ task' \in [Task -> TaskState] /\ \A u \in Task : Kept(u)
           /\ events' \subseteq {READ_RDY, WRITE_RDY, TIMEOUT}
    BY <1>1, <2>1, <2>2, Waking
  <2>4. SpaceInv'
    BY <2>1 DEF SpaceInv
  <2> QED BY <1>1, <1>2, <2>1, <2>3, <2>4
<1>9. CASE HostSends
  <2>1. rxhw' \in Seq(Char)
    BY <1>1, <1>9 DEF HostSends
  <2> QED BY <1>1, <1>2, <1>9, <2>1 DEF HostSends, SpaceInv
<1>10. CASE HostTakes
  <2>1. txhw' = Tail(txhw) /\ txhw # <<>> /\ UNCHANGED <<rxsoft, txsoft, locks, events, task, isr, rxhw>>
    BY <1>10 DEF HostTakes
  <2>2. txhw' \in Seq(Char) /\ Len(txhw') = Len(txhw) - 1
    BY <1>1, <2>1, HeadTailProperties
  <2>3. SpaceInv'
    BY <1>1, <2>1, <2>2 DEF SpaceInv
  <2> QED BY <1>1, <1>2, <2>1, <2>2, <2>3
<1> QED BY <1>3, <1>4, <1>5, <1>6, <1>7, <1>8, <1>9, <1>10

LEMMA Steps == JtagInv /\ [Next]_jvars => JtagInv'
<1> SUFFICES ASSUME JtagInv, [Next]_jvars PROVE JtagInv'
  OBVIOUS
<1> USE DEF JtagInv
<1>1. CASE UNCHANGED jvars
  <2>1. UNCHANGED <<rxsoft, txsoft, events, read_lock, write_lock, task, isr, rxhw, txhw>>
    BY <1>1 DEF jvars, locks, hw
  <2>2. RxQuiet /\ TxQuiet
    BY <2>1, NobodyMoves
  <2>3. TypeInv' /\ SpaceInv'
    BY <2>1 DEF TypeInv, SpaceInv, rxsoft, txsoft
  <2> QED BY <2>2, <2>3, AllQuiet
<1>2. ASSUME NEW t \in Reader, altera_avalon_jtag_uart_read(t) PROVE JtagInv'
  <2>1. /\ TypeInv' /\ TxQuiet /\ UNCHANGED <<isr, txhw>> /\ \A u \in Reader : Reading(u)'
    BY <1>2, ReaderSteps
  <2>2. SpaceInv'
    BY <2>1 DEF SpaceInv
  <2> QED BY <2>1, <2>2, AllQuiet
<1>3. ASSUME NEW t \in Writer, altera_avalon_jtag_uart_write(t) \/ altera_avalon_jtag_uart_close(t)
      PROVE  JtagInv'
  <2>1. /\ TypeInv' /\ RxQuiet /\ UNCHANGED <<isr, txhw>> /\ \A u \in Writer : Writing(u)'
    BY <1>3, WriterSteps
  <2>2. SpaceInv'
    BY <2>1 DEF SpaceInv
  <2> QED BY <2>1, <2>2, AllQuiet
<1>4. CASE IsrRead
  BY <1>4, ReceiveSteps, AllQuiet
<1>5. CASE IsrWrite
  BY <1>5, SendSteps, AllQuiet
<1>6. CASE \/ Interrupt \/ IsrControl \/ IsrReadEnds \/ IsrWriteEnds
           \/ altera_avalon_jtag_uart_ioctl \/ altera_avalon_jtag_uart_timeout
           \/ HostSends \/ HostTakes
  BY <1>6, OtherSteps, AllQuiet
<1> QED BY <1>1, <1>2, <1>3, <1>4, <1>5, <1>6 DEF Next, altera_avalon_jtag_uart_irq

LEMMA Starts == Init => JtagInv
<1> SUFFICES ASSUME Init PROVE JtagInv
  OBVIOUS
<1>1. BufLen \in Nat /\ BufLen > 1 /\ MaxCount \in Nat
  BY JtagAssumption
<1>2. 0 \in Index /\ <<>> \in Seq(Char) /\ Len(<<>>) <= MaxCount
  BY <1>1 DEF Index
<1>3. (CHOOSE c \in Char : TRUE) \in Char
  BY JtagAssumption
<1>4. rx_buf \in [Index -> Char] /\ tx_buf \in [Index -> Char]
  BY <1>3 DEF Init
<1>5. task \in [Task -> TaskState] /\ \A t \in Task : task[t] = Calm
  BY CalmTyped DEF Init
<1>6. isr \in [at : {"idle", "control", "rx", "tx"}, wi : BOOLEAN, ravail : BOOLEAN, space : Int]
      /\ isr.at = "idle"
  BY DEF Init, IsrIdle
<1>7. TypeInv
  BY <1>2, <1>4, <1>5, <1>6 DEF Init, TypeInv
<1>8. SpaceInv
  BY <1>6 DEF SpaceInv
<1>9. \A t \in Reader : Reading(t)
  BY <1>5, CalmIs DEF Task, Reading
<1>10. \A t \in Writer : Writing(t)
  BY <1>2, <1>5, CalmIs DEF Task, Writing
<1> QED BY <1>7, <1>8, <1>9, <1>10 DEF JtagInv

\* Nobody reads without the read semaphore or writes without the write semaphore,
\* and what each saw of its buffer stays true until it has moved its index.
THEOREM DriverHolds == Spec => []JtagInv
<1>1. Init => JtagInv
  BY Starts
<1>2. JtagInv /\ [Next]_jvars => JtagInv'
  BY Steps
<1> QED BY <1>1, <1>2, PTL DEF Spec
-----------------------------------------------------------------------------
(***************************************************************************)
(* The two streams.                                                        *)
(***************************************************************************)
RxLine == Held(rx_buf, rx_out, rx_in) \o rxhw
TxLine == txhw \o Held(tx_buf, tx_out, tx_in)

LEMMA NothingHeld ==
  ASSUME NEW buf \in [Index -> Char], 0 \in Index
  PROVE  Held(buf, 0, 0) = <<>>
<1>1. BufLen \in Nat /\ BufLen > 1
  BY JtagAssumption
<1>2. Fill(0, 0) = 0
  BY <1>1, FillIs
<1>3. Held(buf, 0, 0) \in Seq(Char) /\ Len(Held(buf, 0, 0)) = 0
  BY <1>2, HeldIs
<1> QED BY <1>3, EmptySeq

\* A front of s \o t no longer than s is a front of s, and what is left is what is
\* left of s, and t.
LEMMA FrontOf ==
  ASSUME NEW S, NEW s \in Seq(S), NEW t \in Seq(S), NEW n \in 0 .. Len(s)
  PROVE  /\ SubSeq(s \o t, 1, n) = SubSeq(s, 1, n)
         /\ SubSeq(s \o t, n + 1, Len(s \o t)) = SubSeq(s, n + 1, Len(s)) \o t
<1> DEFINE a == s \o t
           rest == SubSeq(s, n + 1, Len(s))
<1>1. Len(s) \in Nat /\ Len(t) \in Nat /\ n \in Nat /\ n <= Len(s)
  BY LenProperties
<1>2. /\ a \in Seq(S) /\ Len(a) = Len(s) + Len(t)
      /\ \A i \in 1 .. Len(s) + Len(t) : a[i] = IF i <= Len(s) THEN s[i] ELSE t[i - Len(s)]
  BY ConcatProperties
<1> HIDE DEF a
<1>3. n \in 0 .. Len(a)
  BY <1>1, <1>2
<1>4. /\ SubSeq(a, 1, n) \in Seq(S) /\ Len(SubSeq(a, 1, n)) = n
      /\ \A i \in 1 .. n : SubSeq(a, 1, n)[i] = a[i]
      /\ SubSeq(a, n + 1, Len(a)) \in Seq(S) /\ Len(SubSeq(a, n + 1, Len(a))) = Len(a) - n
      /\ \A i \in 1 .. Len(a) - n : SubSeq(a, n + 1, Len(a))[i] = a[n + i]
  BY <1>2, <1>3, PartsOf
<1>5. /\ SubSeq(s, 1, n) \in Seq(S) /\ Len(SubSeq(s, 1, n)) = n
      /\ \A i \in 1 .. n : SubSeq(s, 1, n)[i] = s[i]
      /\ rest \in Seq(S) /\ Len(rest) = Len(s) - n
      /\ \A i \in 1 .. Len(s) - n : rest[i] = s[n + i]
  BY PartsOf
<1> HIDE DEF rest
<1>6. SubSeq(a, 1, n) = SubSeq(s, 1, n)
  <2>1. \A i \in 1 .. n : a[i] = s[i]
    BY <1>1, <1>2
  <2> QED BY <1>4, <1>5, <2>1, SameSeq
<1>7. /\ rest \o t \in Seq(S) /\ Len(rest \o t) = Len(rest) + Len(t)
      /\ \A i \in 1 .. Len(rest) + Len(t) :
           (rest \o t)[i] = IF i <= Len(rest) THEN rest[i] ELSE t[i - Len(rest)]
  BY <1>5, ConcatProperties
<1>8. ASSUME NEW i \in 1 .. Len(a) - n PROVE a[n + i] = (rest \o t)[i]
  <2>1. i \in 1 .. Len(rest) + Len(t) /\ n + i \in 1 .. Len(s) + Len(t)
    BY <1>1, <1>2, <1>5
  <2>2. CASE i <= Len(rest)
    <3>1. i \in 1 .. Len(s) - n /\ n + i <= Len(s)
      BY <1>1, <1>5, <2>1, <2>2
    <3> QED BY <1>2, <1>5, <1>7, <2>1, <2>2, <3>1
  <2>3. CASE ~ (i <= Len(rest))
    <3>1. ~ (n + i <= Len(s)) /\ n + i - Len(s) = i - Len(rest)
      BY <1>1, <1>5, <2>1, <2>3
    <3> DEFINE j == i - Len(rest)
    <3>2. (rest \o t)[i] = t[j]
      BY <1>7, <2>1, <2>3
    <3>3. a[n + i] = t[n + i - Len(s)]
      <4> DEFINE m == n + i
      <4>1. m \in 1 .. Len(s) + Len(t) /\ ~ (m <= Len(s))
        BY <2>1, <3>1
      <4> HIDE DEF m
      <4>2. a[m] = t[m - Len(s)]
        BY <1>2, <4>1
      <4> QED BY <1>1, <4>2 DEF m
    <3> QED BY <3>1, <3>2, <3>3
  <2> QED BY <2>2, <2>3
<1>9. SubSeq(a, n + 1, Len(a)) = rest \o t
  <2>1. Len(SubSeq(a, n + 1, Len(a))) = Len(rest \o t)
    BY <1>1, <1>2, <1>4, <1>5, <1>7
  <2> QED BY <1>4, <1>7, <1>8, <2>1, SameSeq
<1> QED BY <1>6, <1>9 DEF a, rest

\* A task takes the front of what has been received, and no more than it copied.
LEMMA TakenInOrder ==
  ASSUME JtagInv, NEW t \in Reader, ReadTaken(t)
  PROVE  Received!Take
<1> USE DEF JtagInv
<1> DEFINE n == Len(task[t].left)
           held == Held(rx_buf, rx_out, rx_in)
<1>1. /\ rx_in \in Index /\ rx_out \in Index /\ rx_buf \in [Index -> Char] /\ rxhw \in Seq(Char)
      /\ task[t].left \in Seq(Char) /\ task[t].at = "copied"
  BY TaskFields DEF TypeInv, Task, ReadTaken, At
<1>2. /\ n \in 1 .. Fill(rx_in, rx_out) /\ task[t].out = rx_out
      /\ \A i \in 1 .. n : task[t].left[i] = rx_buf[Pos(rx_out, i)]
  BY <1>1 DEF Reading
<1>3. /\ rx_out' = (rx_out + n) % BufLen /\ given' = task[t].left /\ UNCHANGED <<rx_in, rx_buf, rxhw>>
  BY <1>2 DEF ReadTaken, hw
<1>4. held \in Seq(Char) /\ Len(held) = Fill(rx_in, rx_out)
      /\ \A i \in 1 .. Fill(rx_in, rx_out) : held[i] = rx_buf[Pos(rx_out, i)]
  BY <1>1, HeldIs
<1>5. Fill(rx_in, rx_out) \in Nat
  BY <1>4, LenProperties
<1>6. n \in 0 .. Len(held) /\ n \in 0 .. Fill(rx_in, rx_out) /\ \A i \in 1 .. n : i \in 1 .. Fill(rx_in, rx_out)
  <2> HIDE DEF n, held
  <2> QED BY <1>2, <1>4, <1>5
<1>7. Held(rx_buf, (rx_out + n) % BufLen, rx_in) = SubSeq(held, n + 1, Len(held))
  BY <1>1, <1>4, <1>6, HeldTake
<1>8. task[t].left = SubSeq(held, 1, n)
  <2> HIDE DEF held
  <2>1. /\ SubSeq(held, 1, n) \in Seq(Char) /\ Len(SubSeq(held, 1, n)) = n
        /\ \A i \in 1 .. n : SubSeq(held, 1, n)[i] = held[i]
    BY <1>4, <1>6, PartsOf
  <2>2. \A i \in 1 .. n : task[t].left[i] = SubSeq(held, 1, n)[i]
    BY <1>2, <1>4, <1>6, <2>1
  <2> QED BY <1>1, <2>1, <2>2, SameSeq
<1>9. /\ SubSeq(held \o rxhw, 1, n) = SubSeq(held, 1, n)
      /\ SubSeq(held \o rxhw, n + 1, Len(held \o rxhw)) = SubSeq(held, n + 1, Len(held)) \o rxhw
  BY <1>1, <1>4, <1>6, FrontOf
<1>10. n \in 1 .. Len(held \o rxhw)
  <2> HIDE DEF held, n
  <2>1. Len(held \o rxhw) = Len(held) + Len(rxhw) /\ Len(rxhw) \in Nat /\ Len(held) \in Nat
    BY <1>1, <1>4, ConcatProperties, LenProperties
  <2> QED BY <1>2, <1>4, <2>1
<1>11. /\ given' = SubSeq(RxLine, 1, n)
       /\ RxLine' = SubSeq(RxLine, n + 1, Len(RxLine))
  <2>1. RxLine = held \o rxhw
    BY DEF RxLine
  <2>2. RxLine' = Held(rx_buf, (rx_out + n) % BufLen, rx_in) \o rxhw
    BY <1>3 DEF RxLine, Held
  <2> HIDE DEF held, n
  <2> QED BY <1>3, <1>7, <1>8, <1>9, <2>1, <2>2
<1>12. n \in 1 .. Len(RxLine)
  BY <1>10 DEF RxLine
<1> HIDE DEF n, held
<1> QED BY <1>11, <1>12 DEF Received!Take, RxLine

\* The interrupt routine only moves the device's first character behind the buffer's last.
LEMMA ReceivedInOrder ==
  ASSUME JtagInv, IsrRead
  PROVE  UNCHANGED <<RxLine, given>>
<1> USE DEF JtagInv
<1> DEFINE s == <<Head(rxhw)>>
<1>1. /\ rx_in \in Index /\ rx_out \in Index /\ rx_buf \in [Index -> Char] /\ rxhw \in Seq(Char)
      /\ BufLen \in Nat /\ BufLen > 1
  BY JtagAssumption DEF TypeInv
<1>2. /\ (rx_in + 1) % BufLen # rx_out /\ rxhw # <<>> /\ rx_in' = (rx_in + 1) % BufLen
      /\ rx_buf' = [rx_buf EXCEPT ![rx_in] = Head(rxhw)] /\ rxhw' = Tail(rxhw)
      /\ UNCHANGED <<rx_out, given>>
  BY DEF IsrRead, RxFull
<1>3. Head(rxhw) \in Char /\ Tail(rxhw) \in Seq(Char)
  BY <1>1, <1>2, Handed
<1>4. rx_buf' \in [Index -> Char]
  BY <1>1, <1>2, <1>3
<1>5. s \in Seq(Char) /\ Len(s) = 1 /\ s[1] = Head(rxhw)
  BY <1>3
<1>6. Fill(rx_in, rx_out) + 1 <= BufLen - 1 /\ rx_in + 1 <= BufLen
  <2> DEFINE f == Fill(rx_in, rx_out)
  <2>1. f \in 0 .. BufLen - 1 /\ f = IF rx_in >= rx_out THEN rx_in - rx_out ELSE rx_in - rx_out + BufLen
    BY <1>1, FillIs
  <2>2. 1 \in 0 .. BufLen
    BY <1>1
  <2>3. rx_in' = IF rx_in + 1 < BufLen THEN rx_in + 1 ELSE rx_in + 1 - BufLen
    BY <1>1, <1>2, <2>2, StepIs
  <2> HIDE DEF f
  <2>4. f + 1 <= BufLen - 1 /\ rx_in + 1 <= BufLen
    BY <1>1, <1>2, <2>1, <2>3 DEF Index
  <2> QED BY <2>4 DEF f
<1> HIDE DEF s
<1>7. \A i \in 1 .. Len(s) : rx_buf'[rx_in + i - 1] = s[i]
  <2> TAKE i \in 1 .. Len(s)
  <2>1. i = 1 /\ rx_in + i - 1 = rx_in
    BY <1>1, <1>5 DEF Index
  <2> QED BY <1>1, <1>2, <1>5, <2>1
<1>8. \A j \in Index : j \notin rx_in .. rx_in + Len(s) - 1 => rx_buf'[j] = rx_buf[j]
  <2>1. rx_in \in rx_in .. rx_in + Len(s) - 1
    BY <1>1, <1>5 DEF Index
  <2> QED BY <1>1, <1>2, <2>1
<1>9. Held(rx_buf', rx_out, (rx_in + 1) % BufLen) = Held(rx_buf, rx_out, rx_in) \o s
  <2>1. Fill(rx_in, rx_out) + Len(s) <= BufLen - 1 /\ rx_in + Len(s) <= BufLen
    BY <1>5, <1>6
  <2>2. Held(rx_buf', rx_out, (rx_in + Len(s)) % BufLen) = Held(rx_buf, rx_out, rx_in) \o s
    BY <1>1, <1>4, <1>5, <1>7, <1>8, <2>1, HeldPut
  <2> QED BY <1>5, <2>2
<1>10. Held(rx_buf, rx_out, rx_in) \in Seq(Char)
  BY <1>1, HeldIs
<1>11. (Held(rx_buf, rx_out, rx_in) \o s) \o Tail(rxhw) = Held(rx_buf, rx_out, rx_in) \o rxhw
  BY <1>1, <1>2, <1>10, Handed DEF s
<1>12. RxLine' = Held(rx_buf', rx_out, (rx_in + 1) % BufLen) \o Tail(rxhw)
  <2>1. RxLine' = Held(rx_buf', rx_out', rx_in') \o rxhw'
    BY DEF RxLine, Held
  <2> QED BY <1>2, <2>1
<1> QED BY <1>2, <1>9, <1>11, <1>12 DEF RxLine

LEMMA ReceiveRefines == JtagInv /\ [Next]_jvars => [Received!Put \/ Received!Take]_<<RxLine, given>>
<1> SUFFICES ASSUME JtagInv, [Next]_jvars
             PROVE  Received!Put \/ Received!Take \/ UNCHANGED <<RxLine, given>>
  OBVIOUS
\* What moves no character of this side.
<1>1. ASSUME UNCHANGED <<rxsoft, rxhw, given>> PROVE UNCHANGED <<RxLine, given>>
  BY <1>1 DEF RxLine, Held, rxsoft
<1>2. CASE UNCHANGED jvars
  BY <1>1, <1>2 DEF jvars, hw
<1>3. ASSUME NEW t \in Reader, altera_avalon_jtag_uart_read(t)
      PROVE  Received!Take \/ UNCHANGED <<RxLine, given>>
  <2>1. CASE ReadTaken(t)
    BY <2>1, TakenInOrder
  <2>2. CASE ~ ReadTaken(t)
    <3>1. UNCHANGED <<rxsoft, rxhw, given>>
      BY <1>3, <2>2 DEF altera_avalon_jtag_uart_read, ReadCall, ReadLook, ReadCopy, ReadPend, ReadAgain,
                        ReadUnlock, ReadEnable, hw
    <3> QED BY <1>1, <3>1
  <2> QED BY <2>1, <2>2
<1>4. ASSUME NEW t \in Writer, altera_avalon_jtag_uart_write(t) \/ altera_avalon_jtag_uart_close(t)
      PROVE  UNCHANGED <<RxLine, given>>
  <2>1. RxQuiet /\ UNCHANGED <<rxhw, given>>
    BY <1>4, WriterSteps
  <2> QED BY <1>1, <2>1 DEF RxQuiet, rxsoft
<1>5. CASE IsrRead
  BY <1>5, ReceivedInOrder
<1>6. CASE \/ Interrupt \/ IsrControl \/ IsrReadEnds \/ IsrWrite \/ IsrWriteEnds
           \/ altera_avalon_jtag_uart_ioctl \/ altera_avalon_jtag_uart_timeout \/ HostTakes
  BY <1>1, <1>6 DEF Interrupt, IsrControl, IsrReadEnds, IsrWrite, IsrWriteEnds,
                    altera_avalon_jtag_uart_ioctl, altera_avalon_jtag_uart_timeout, HostTakes, hw
<1>7. CASE HostSends
  <2>1. PICK c \in Char : rxhw' = Append(rxhw, c) /\ UNCHANGED <<rxsoft, given>>
    BY <1>7 DEF HostSends
  <2>2. rxhw \in Seq(Char) /\ Held(rx_buf, rx_out, rx_in) \in Seq(Char) /\ MaxCount \in Nat \ {0}
    BY HeldIs, JtagAssumption DEF JtagInv, TypeInv
  <2> DEFINE s == [i \in 1 .. 1 |-> c]
  <2>3. s \in [1 .. 1 -> Char] /\ s = <<c>> /\ s \in Seq(Char)
    OBVIOUS
  <2> HIDE DEF s
  <2>4. rxhw' = rxhw \o s
    BY <2>1, <2>2, <2>3
  <2>5. RxLine' = Held(rx_buf, rx_out, rx_in) \o (rxhw \o s)
    BY <2>1, <2>4 DEF RxLine, Held, rxsoft
  <2>6. RxLine' = RxLine \o s
    BY <2>2, <2>3, <2>5, ConcatAssociative DEF RxLine
  <2>7. 1 \in 1 .. MaxCount
    BY <2>2
  <2> QED BY <2>1, <2>3, <2>6, <2>7 DEF Received!Put, RxLine
<1> QED BY <1>2, <1>3, <1>4, <1>5, <1>6, <1>7 DEF Next, altera_avalon_jtag_uart_irq

\* What the host sends is what tasks read, in its order: the receiving side is a
\* stream, for every buffer length, every depth of the FIFO and any tasks.
THEOREM ReceivingIsAStream == Spec => ReceivesInOrder
<1>1. Init => Received!StInit
  <2> SUFFICES ASSUME Init PROVE RxLine = <<>> /\ given = <<>>
    BY DEF Received!StInit, RxLine
  <2>1. rx_buf \in [Index -> Char] /\ 0 \in Index
    BY Starts, JtagAssumption DEF JtagInv, TypeInv, Init
  <2>2. RxLine = <<>> \o <<>>
    BY <2>1, NothingHeld DEF Init, RxLine
  <2>3. <<>> \in Seq(Char) /\ <<>> \o <<>> = <<>>
    OBVIOUS
  <2> QED BY <2>2, <2>3 DEF Init
<1>2. JtagInv /\ [Next]_jvars => [Received!Put \/ Received!Take]_<<Held(rx_buf, rx_out, rx_in) \o rxhw, given>>
  BY ReceiveRefines DEF RxLine
<1>3. Spec => []JtagInv
  BY DriverHolds
<1> QED BY <1>1, <1>2, <1>3, PTL DEF Spec, ReceivesInOrder, Received!StSpec

\* A writer hands over what it copied, behind what the buffer holds.
LEMMA PutInOrder ==
  ASSUME JtagInv, NEW t \in Writer, WritePut(t)
  PROVE  Transmitted!Put
<1> USE DEF JtagInv
<1> DEFINE m == task[t].n
           left == task[t].left
           s == [i \in 1 .. m |-> left[i]]
           held == Held(tx_buf, tx_out, tx_in)
<1>1. /\ tx_in \in Index /\ tx_out \in Index /\ tx_buf \in [Index -> Char] /\ txhw \in Seq(Char)
      /\ left \in Seq(Char) /\ Len(left) \in Nat /\ m \in Int /\ task[t].at = "copied"
      /\ BufLen \in Nat /\ BufLen > 1 /\ MaxCount \in Nat
  <2>1. t \in Task /\ task \in [Task -> TaskState] /\ task[t].at = "copied"
    BY DEF TypeInv, Task, WritePut, At
  <2>2. left \in Seq(Char) /\ Len(left) \in Nat /\ m \in Int
    BY <2>1, TaskFields
  <2>3. tx_in \in Index /\ tx_out \in Index /\ tx_buf \in [Index -> Char] /\ txhw \in Seq(Char)
    BY DEF TypeInv
  <2>4. BufLen \in Nat /\ BufLen > 1 /\ MaxCount \in Nat
    BY JtagAssumption
  <2> HIDE DEF left, m
  <2> QED BY <2>1, <2>2, <2>3, <2>4
<1>2. /\ task[t].in = tx_in /\ m \in 1 .. Len(left) /\ Len(left) <= MaxCount
      /\ Fill(tx_in, tx_out) + m <= BufLen - 1 /\ tx_in + m <= BufLen
      /\ \A i \in 1 .. m : tx_buf[tx_in + i - 1] = left[i]
  BY <1>1 DEF Writing
<1>3. tx_in' = (tx_in + m) % BufLen /\ UNCHANGED <<tx_out, tx_buf, txhw, sent>>
  BY <1>2 DEF WritePut, hw
<1>4. \A i \in 1 .. m : left[i] \in Char
  <2>1. \A i \in 1 .. m : i \in 1 .. Len(left)
    <3> HIDE DEF m, left
    <3> QED BY <1>1, <1>2
  <2> QED BY <1>1, <2>1, ElementOfSeq
<1> HIDE DEF m, left
<1>5. /\ m \in 1 .. MaxCount /\ m \in Nat
      /\ s \in [1 .. m -> Char] /\ s \in Seq(Char) /\ Len(s) = m /\ \A i \in 1 .. m : s[i] = left[i]
  <2>1. m \in 1 .. MaxCount /\ m \in Nat
    BY <1>1, <1>2
  <2>2. s \in [1 .. m -> Char] /\ \A i \in 1 .. m : s[i] = left[i]
    BY <1>4
  <2>3. s \in Seq(Char) /\ Len(s) = m
    BY <1>4, <2>1
  <2> QED BY <2>1, <2>2, <2>3
<1> HIDE DEF s
<1>6. Held(tx_buf, tx_out, (tx_in + m) % BufLen) = held \o s
  <2>1. \A i \in 1 .. Len(s) : tx_buf[tx_in + i - 1] = s[i]
    BY <1>2, <1>5
  <2>2. Fill(tx_in, tx_out) + Len(s) <= BufLen - 1 /\ tx_in + Len(s) <= BufLen
    BY <1>2, <1>5
  <2>3. Held(tx_buf, tx_out, (tx_in + Len(s)) % BufLen) = Held(tx_buf, tx_out, tx_in) \o s
    BY <1>1, <1>5, <2>1, <2>2, HeldPut
  <2> QED BY <1>5, <2>3
<1>7. held \in Seq(Char)
  BY <1>1, HeldIs
<1>8. TxLine' = txhw \o Held(tx_buf, tx_out, (tx_in + m) % BufLen)
  <2>1. TxLine' = txhw' \o Held(tx_buf', tx_out', tx_in')
    BY DEF TxLine, Held
  <2> QED BY <1>3, <2>1
<1>9. TxLine = txhw \o held
  BY DEF TxLine
<1> HIDE DEF held
<1>10. TxLine' = TxLine \o s
  <2>1. (txhw \o held) \o s = txhw \o (held \o s)
    BY SMTT(30), <1>1, <1>5, <1>7, ConcatAssociative
  <2> QED BY <1>6, <1>8, <1>9, <2>1 DEF held
<1> QED BY <1>3, <1>5, <1>10 DEF Transmitted!Put, TxLine

\* What a writer copies lies behind what the buffer holds.
LEMMA CopiedBehind ==
  ASSUME JtagInv, NEW t \in Writer, WriteCopy(t)
  PROVE  UNCHANGED <<TxLine, sent>>
<1> USE DEF JtagInv
<1> DEFINE m == task[t].n
<1>1. /\ tx_in \in Index /\ tx_out \in Index /\ tx_buf \in [Index -> Char] /\ m \in Int
      /\ Len(task[t].left) \in Nat /\ task[t].at = "copy" /\ BufLen \in Nat /\ BufLen > 1
      /\ tx_buf' \in [Index -> Char]
  <2>1. tx_buf' \in [Index -> Char]
    BY WriterSteps DEF TypeInv, altera_avalon_jtag_uart_write
  <2> QED BY <2>1, TaskFields, JtagAssumption DEF TypeInv, Task, WriteCopy, At
<1>2. /\ task[t].in = tx_in /\ m \in 1 .. Len(task[t].left)
      /\ Fill(tx_in, tx_out) + m <= BufLen - 1 /\ tx_in + m <= BufLen
  BY <1>1 DEF Writing
<1>3. /\ \A i \in Index : i \notin tx_in .. tx_in + m - 1 => tx_buf'[i] = tx_buf[i]
      /\ UNCHANGED <<tx_in, tx_out, txhw, sent>>
  BY <1>2 DEF WriteCopy, hw
<1>4. m \in 0 .. BufLen
  BY <1>1, <1>2 DEF Index
<1>5. \A i \in 1 .. Fill(tx_in, tx_out) : Pos(tx_out, i) \notin tx_in .. tx_in + m - 1
  BY <1>1, <1>2, <1>4, PutMany
<1> HIDE DEF m
<1>6. Held(tx_buf', tx_out, tx_in) = Held(tx_buf, tx_out, tx_in)
  <2>1. /\ Held(tx_buf, tx_out, tx_in) \in Seq(Char) /\ Held(tx_buf', tx_out, tx_in) \in Seq(Char)
        /\ Len(Held(tx_buf, tx_out, tx_in)) = Fill(tx_in, tx_out)
        /\ Len(Held(tx_buf', tx_out, tx_in)) = Fill(tx_in, tx_out)
        /\ \A i \in 1 .. Fill(tx_in, tx_out) : Held(tx_buf, tx_out, tx_in)[i] = tx_buf[Pos(tx_out, i)]
        /\ \A i \in 1 .. Fill(tx_in, tx_out) : Held(tx_buf', tx_out, tx_in)[i] = tx_buf'[Pos(tx_out, i)]
    BY <1>1, HeldIs
  <2>2. ASSUME NEW i \in 1 .. Fill(tx_in, tx_out) PROVE tx_buf'[Pos(tx_out, i)] = tx_buf[Pos(tx_out, i)]
    <3>1. i \in 1 .. BufLen
      BY <1>1, FillIs
    <3>2. Pos(tx_out, i) \in Index
      BY <1>1, <3>1, PosIs
    <3> QED BY <1>3, <1>5, <3>2
  <2> QED BY <2>1, <2>2, SameSeq
<1>7. TxLine' = txhw' \o Held(tx_buf', tx_out', tx_in')
  BY DEF TxLine, Held
<1> QED BY <1>3, <1>6, <1>7 DEF TxLine

\* The interrupt routine only moves the buffer's first character behind the device's last.
LEMMA SentInOrder ==
  ASSUME JtagInv, IsrWrite
  PROVE  UNCHANGED <<TxLine, sent>>
<1> USE DEF JtagInv
<1> DEFINE held == Held(tx_buf, tx_out, tx_in)
<1>1. /\ tx_in \in Index /\ tx_out \in Index /\ tx_buf \in [Index -> Char] /\ txhw \in Seq(Char)
      /\ BufLen \in Nat /\ BufLen > 1
  BY JtagAssumption DEF TypeInv
<1>2. /\ tx_out # tx_in /\ tx_out' = (tx_out + 1) % BufLen /\ txhw' = Append(txhw, tx_buf[tx_out])
      /\ UNCHANGED <<tx_in, tx_buf, sent>>
  BY SendSteps DEF IsrWrite
<1>3. Fill(tx_in, tx_out) \in 1 .. BufLen - 1
  <2>1. tx_out # tx_in /\ tx_in \in Int /\ tx_out \in Int
    BY <1>1, <1>2 DEF Index
  <2>2. /\ Fill(tx_in, tx_out) = IF tx_in >= tx_out THEN tx_in - tx_out ELSE tx_in - tx_out + BufLen
        /\ Fill(tx_in, tx_out) \in 0 .. BufLen - 1
    BY <1>1, FillIs
  <2>3. tx_in < BufLen /\ tx_out < BufLen /\ 0 <= tx_in /\ 0 <= tx_out
    BY <1>1 DEF Index
  <2> QED BY <1>1, <2>1, <2>2, <2>3
<1>4. held \in Seq(Char) /\ Len(held) = Fill(tx_in, tx_out)
      /\ \A i \in 1 .. Fill(tx_in, tx_out) : held[i] = tx_buf[Pos(tx_out, i)]
  BY <1>1, HeldIs
<1>5. Pos(tx_out, 1) = tx_out
  BY <1>1, PosIs DEF Index
<1>6. 1 \in 0 .. Fill(tx_in, tx_out) /\ 1 \in 1 .. Fill(tx_in, tx_out)
  BY <1>1, <1>3
<1>7. Held(tx_buf, (tx_out + 1) % BufLen, tx_in) = SubSeq(held, 1 + 1, Len(held))
  BY <1>1, <1>4, <1>6, HeldTake
<1>8. held[1] = tx_buf[tx_out]
  BY <1>4, <1>5, <1>6
<1> HIDE DEF held
<1>9. held # <<>>
  BY <1>3, <1>4
<1>10. Head(held) = tx_buf[tx_out] /\ Tail(held) = SubSeq(held, 2, Len(held)) /\ Head(held) \in Char
       /\ Tail(held) \in Seq(Char)
  <2>1. Tail(held) = SubSeq(held, 2, Len(held))
    BY <1>4, <1>9, TailIsSubSeq
  <2>2. Head(held) \in Char /\ Tail(held) \in Seq(Char)
    BY <1>4, <1>9, Handed
  <2> QED BY <1>4, <1>8, <2>1, <2>2
<1>11. txhw' = txhw \o <<Head(held)>>
  BY <1>1, <1>2, <1>10
<1>12. (txhw \o <<Head(held)>>) \o Tail(held) = txhw \o held
  BY <1>1, <1>4, <1>9, Handed
<1>13. TxLine' = txhw' \o Held(tx_buf', tx_out', tx_in')
  BY DEF TxLine, Held
<1>14. Held(tx_buf', tx_out', tx_in') = Tail(held)
  <2>1. Held(tx_buf', tx_out', tx_in') = Held(tx_buf, (tx_out + 1) % BufLen, tx_in)
    BY <1>2
  <2>2. 1 + 1 = 2
    OBVIOUS
  <2> QED BY <1>7, <1>10, <2>1, <2>2
<1> QED BY <1>2, <1>11, <1>12, <1>13, <1>14 DEF TxLine, held

LEMMA TransmitRefines == JtagInv /\ [Next]_jvars => [Transmitted!Put \/ Transmitted!Take]_<<TxLine, sent>>
<1> SUFFICES ASSUME JtagInv, [Next]_jvars
             PROVE  Transmitted!Put \/ Transmitted!Take \/ UNCHANGED <<TxLine, sent>>
  OBVIOUS
<1>1. ASSUME UNCHANGED <<txsoft, txhw, sent>> PROVE UNCHANGED <<TxLine, sent>>
  BY <1>1 DEF TxLine, Held, txsoft
<1>2. CASE UNCHANGED jvars
  BY <1>1, <1>2 DEF jvars, hw
<1>3. ASSUME NEW t \in Reader, altera_avalon_jtag_uart_read(t)
      PROVE  UNCHANGED <<TxLine, sent>>
  <2>1. TxQuiet /\ UNCHANGED <<txhw, sent>>
    BY <1>3, ReaderSteps
  <2> QED BY <1>1, <2>1 DEF TxQuiet, txsoft
<1>4. ASSUME NEW t \in Writer, altera_avalon_jtag_uart_write(t)
      PROVE  Transmitted!Put \/ UNCHANGED <<TxLine, sent>>
  <2>1. CASE WritePut(t)
    BY <2>1, PutInOrder
  <2>2. CASE WriteCopy(t)
    BY <2>2, CopiedBehind
  <2>3. CASE ~ WritePut(t) /\ ~ WriteCopy(t)
    <3>1. UNCHANGED <<txsoft, txhw, sent>>
      BY <1>4, <2>3 DEF altera_avalon_jtag_uart_write, WriteCall, WriteLook, WriteKick, WritePend, WriteAgain,
                        WriteUnlock, hw
    <3> QED BY <1>1, <3>1
  <2> QED BY <2>1, <2>2, <2>3
<1>5. CASE IsrWrite
  BY <1>5, SentInOrder
<1>6. CASE \/ \E t \in Writer : altera_avalon_jtag_uart_close(t)
           \/ Interrupt \/ IsrControl \/ IsrRead \/ IsrReadEnds \/ IsrWriteEnds
           \/ altera_avalon_jtag_uart_ioctl \/ altera_avalon_jtag_uart_timeout \/ HostSends
  BY <1>1, <1>6 DEF altera_avalon_jtag_uart_close, CloseCall, CloseEnds,
                    Interrupt, IsrControl, IsrRead, IsrReadEnds, IsrWriteEnds,
                    altera_avalon_jtag_uart_ioctl, altera_avalon_jtag_uart_timeout, HostSends, hw
<1>7. CASE HostTakes
  <2> DEFINE held == Held(tx_buf, tx_out, tx_in)
  <2>1. /\ txhw # <<>> /\ txhw' = Tail(txhw) /\ sent' = <<Head(txhw)>>
        /\ UNCHANGED txsoft
    BY <1>7 DEF HostTakes
  <2>2. txhw \in Seq(Char) /\ held \in Seq(Char)
    BY HeldIs DEF JtagInv, TypeInv
  <2>3. TxLine = txhw \o held /\ TxLine' = txhw' \o held
    BY <2>1 DEF TxLine, Held, txsoft
  <2> HIDE DEF held
  <2>4. Len(txhw) \in Nat /\ Len(txhw) >= 1
    BY <2>1, <2>2, EmptySeq
  <2>5. 1 \in 0 .. Len(txhw)
    BY <2>4
  <2>6. /\ SubSeq(TxLine, 1, 1) = SubSeq(txhw, 1, 1)
        /\ SubSeq(TxLine, 1 + 1, Len(TxLine)) = SubSeq(txhw, 1 + 1, Len(txhw)) \o held
    BY <2>2, <2>3, <2>5, FrontOf
  <2>7. SubSeq(txhw, 1, 1) = <<Head(txhw)>>
    <3>1. /\ SubSeq(txhw, 1, 1) \in Seq(Char) /\ Len(SubSeq(txhw, 1, 1)) = 1
          /\ \A i \in 1 .. 1 : SubSeq(txhw, 1, 1)[i] = txhw[i]
      BY <2>2, <2>5, PartsOf
    <3>2. <<Head(txhw)>> \in Seq(Char) /\ Len(<<Head(txhw)>>) = 1 /\ <<Head(txhw)>>[1] = txhw[1]
      BY <2>1, <2>2, Handed
    <3>3. \A i \in 1 .. 1 : SubSeq(txhw, 1, 1)[i] = <<Head(txhw)>>[i]
      BY <3>1, <3>2
    <3> QED BY <3>1, <3>2, <3>3, SameSeq
  <2>8. Tail(txhw) = SubSeq(txhw, 2, Len(txhw))
    BY <2>1, <2>2, TailIsSubSeq
  <2>9. 1 \in 1 .. Len(TxLine)
    <3>1. Len(TxLine) = Len(txhw) + Len(held) /\ Len(held) \in Nat
      BY <2>2, <2>3, ConcatProperties, LenProperties
    <3> QED BY <2>4, <3>1
  <2>10. sent' = SubSeq(TxLine, 1, 1) /\ TxLine' = SubSeq(TxLine, 1 + 1, Len(TxLine))
    BY <2>1, <2>3, <2>6, <2>7, <2>8
  <2> QED BY <2>9, <2>10 DEF Transmitted!Take, TxLine
<1> QED BY <1>2, <1>3, <1>4, <1>5, <1>6, <1>7 DEF Next, altera_avalon_jtag_uart_irq

\* What tasks write is what the host gets, in its order: the transmitting side is
\* a stream, for every buffer length, every depth of the FIFO and any tasks.
THEOREM TransmittingIsAStream == Spec => TransmitsInOrder
<1>1. Init => Transmitted!StInit
  <2> SUFFICES ASSUME Init PROVE TxLine = <<>> /\ sent = <<>>
    BY DEF Transmitted!StInit, TxLine
  <2>1. tx_buf \in [Index -> Char] /\ 0 \in Index
    BY Starts, JtagAssumption DEF JtagInv, TypeInv, Init
  <2>2. TxLine = <<>> \o <<>>
    BY <2>1, NothingHeld DEF Init, TxLine
  <2>3. <<>> \in Seq(Char) /\ <<>> \o <<>> = <<>>
    OBVIOUS
  <2> QED BY <2>2, <2>3 DEF Init
<1>2. JtagInv /\ [Next]_jvars => [Transmitted!Put \/ Transmitted!Take]_<<txhw \o Held(tx_buf, tx_out, tx_in), sent>>
  BY TransmitRefines DEF TxLine
<1>3. Spec => []JtagInv
  BY DriverHolds
<1> QED BY <1>1, <1>2, <1>3, PTL DEF Spec, TransmitsInOrder, Transmitted!StSpec
==============================================================================
