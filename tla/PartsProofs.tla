----------------------------- MODULE PartsProofs -----------------------------
(***************************************************************************)
(* Theorems about the small parts that MCParts composes for TLC, for any   *)
(* number of rows, partitions, tasks, devices, descriptors, alarms and     *)
(* interrupts: the bit maps of a ready or wait list, the partitions of     *)
(* os_mem.c, the locks of newlib, the descriptors and the alarms of the    *)
(* HAL and the frequency keying interrupt.  One part for each, and nothing *)
(* of one is used in another.                                              *)
(***************************************************************************)
EXTENDS ReadyList, OsMem, NewlibLocks, HalFiles, Alarms, LfsrIsr, Ksa,
        SequenceTheorems, FiniteSetTheorems, WellFoundedInduction, TLAPS

(***************************************************************************)
(* That the bit maps of ReadyList summarise each other and that the two    *)
(* look-ups in OSUnMapTbl find the smallest priority, for every set of     *)
(* priorities and every number of rows.  What the table holds is taken     *)
(* from UnMapAssumption, which TLC evaluates for all 256 bytes.            *)
(***************************************************************************)

Row == 0 .. Rows - 1
Table == [Row -> SUBSET Bits]
Summary(t) == {y \in Row : t[y] # {}}

\* A priority is told by its row and its bit.
LEMMA Split == ASSUME NEW p \in Prio
               PROVE  /\ Y(p) \in Row /\ X(p) \in Bits
                      /\ Row \subseteq Bits
                      /\ p \in Int /\ p = 8 * Y(p) + X(p)
BY PrioAssumption, Z3 DEF Row, Bits, Y, X

\* Row and bit can be read back from the number they make.
LEMMA Join == ASSUME NEW y \in Bits, NEW x \in Bits
              PROVE  /\ 8 * y + x \in Int
                     /\ Y(8 * y + x) = y /\ X(8 * y + x) = x
BY Z3 DEF Bits, Y, X

LEMMA RowsAreBits == Row \subseteq Bits
BY PrioAssumption DEF Row, Bits

\* Bit x of byte y is set exactly when 8y + x is listed.
LEMMA ListedBit == ASSUME NEW t, NEW y \in Row, NEW x \in Bits
                   PROVE  8 * y + x \in ListedIn(t) <=> x \in t[y]
<1>1. Y(8 * y + x) = y /\ X(8 * y + x) = x
  BY Join, RowsAreBits
<1>2. 8 * y + x \in Prios
  BY DEF Prios, Row
<1> QED
  BY <1>1, <1>2 DEF ListedIn

\* Everything listed is such a bit.
LEMMA ListedForm == ASSUME NEW t, NEW p \in ListedIn(t)
                    PROVE  /\ p \in Int /\ Y(p) \in Row /\ X(p) \in Bits
                           /\ p = 8 * Y(p) + X(p) /\ X(p) \in t[Y(p)]
<1>1. PICK y \in Row, x \in Bits : p = 8 * y + x
  BY DEF ListedIn, Prios, Row
<1>2. p \in Int /\ Y(p) = y /\ X(p) = x
  BY <1>1, Join, RowsAreBits
<1> QED
  BY <1>1, <1>2 DEF ListedIn

\* OS_SchedNew returns the smallest of what is listed.
LEMMA NewIsLeast ==
  ASSUME NEW t \in Table
  PROVE  LET h == OS_SchedNew(Summary(t), t)
         IN  IF ListedIn(t) = {} THEN h = NoPrio
                                 ELSE h \in ListedIn(t) /\ \A p \in ListedIn(t) : h <= p
<1> DEFINE g == Summary(t)
           y == UnMap(g)
           x == UnMap(t[y])
           h == OS_SchedNew(g, t)
<1>1. CASE g = {}
  <2>1. ListedIn(t) = {}
    BY <1>1, ListedForm DEF Summary
  <2> QED
    BY <1>1, <2>1 DEF OS_SchedNew
<1>2. CASE g # {}
  <2>1. g \in SUBSET (0 .. 7)
    BY RowsAreBits DEF Summary, Bits
  <2>2. y \in g /\ \A b \in g : y <= b
    BY <1>2, <2>1, UnMapAssumption
  <2>3. y \in Row /\ t[y] # {} /\ t[y] \in SUBSET (0 .. 7)
    BY <2>2 DEF Summary, Table, Bits
  <2>4. x \in t[y] /\ \A b \in t[y] : x <= b
    BY <2>3, UnMapAssumption
  <2>5. h = 8 * y + x /\ x \in Bits /\ y \in Bits
    BY <1>2, <2>3, <2>4, RowsAreBits DEF OS_SchedNew, Bits
  <2>6. h \in ListedIn(t)
    BY <2>3, <2>4, <2>5, ListedBit
  <2>7. ASSUME NEW p \in ListedIn(t) PROVE h <= p
    <3>1. /\ p = 8 * Y(p) + X(p) /\ X(p) \in t[Y(p)]
          /\ Y(p) \in g /\ Y(p) \in Bits /\ X(p) \in Bits
      BY ListedForm, RowsAreBits DEF Summary
    <3>2. y <= Y(p) /\ (y = Y(p) => x <= X(p))
      BY <2>2, <2>4, <3>1
    <3> HIDE DEF y, x, h
    <3> QED
      BY <2>5, <3>1, <3>2 DEF Bits
  <2> QED
    BY <2>6, <2>7
<1> QED
  BY <1>1, <1>2

IInv == /\ RTypeOK
        /\ GroupSummarises
        /\ high = OS_SchedNew(grp, tbl)

\* What each change of the maps does to the set they stand for.
LEMMA Added ==
  ASSUME NEW t \in Table, NEW p \in Prio
  PROVE  /\ SetBit(t, p) \in Table
         /\ Summary(SetBit(t, p)) = Summary(t) \cup {Y(p)}
         /\ ListedIn(SetBit(t, p)) = ListedIn(t) \cup {p}
<1> DEFINE u == SetBit(t, p)
<1>1. u \in Table
  BY Split DEF SetBit, Table
<1>2. \A y \in Row : u[y] = IF y = Y(p) THEN t[y] \cup {X(p)} ELSE t[y]
  BY Split DEF SetBit, Table
<1>3. Summary(u) = Summary(t) \cup {Y(p)}
  BY <1>2, Split DEF Summary
<1>4. ASSUME NEW p2 \in ListedIn(u) PROVE p2 \in ListedIn(t) \cup {p}
  <2>1. p2 = 8 * Y(p2) + X(p2) /\ X(p2) \in u[Y(p2)] /\ Y(p2) \in Row /\ X(p2) \in Bits
    BY ListedForm
  <2>2. X(p2) \in t[Y(p2)] \/ (Y(p2) = Y(p) /\ X(p2) = X(p))
    BY <1>2, <2>1
  <2> QED
    BY <2>1, <2>2, ListedBit, Split
<1>5. ASSUME NEW p2 \in ListedIn(t) PROVE p2 \in ListedIn(u)
  <2>1. p2 = 8 * Y(p2) + X(p2) /\ X(p2) \in t[Y(p2)] /\ Y(p2) \in Row /\ X(p2) \in Bits
    BY ListedForm
  <2>2. X(p2) \in u[Y(p2)]
    BY <1>2, <2>1
  <2> HIDE DEF u
  <2> QED
    BY <2>1, <2>2, ListedBit
<1>6. p \in ListedIn(u)
  <2>1. p = 8 * Y(p) + X(p) /\ X(p) \in u[Y(p)] /\ Y(p) \in Row /\ X(p) \in Bits
    BY <1>2, Split
  <2> HIDE DEF u
  <2> QED
    BY <2>1, ListedBit
<1> QED
  BY <1>1, <1>3, <1>4, <1>5, <1>6

LEMMA Removed ==
  ASSUME NEW t \in Table, NEW p \in Prio
  PROVE  /\ ClearBit(t, p) \in Table
         /\ Summary(ClearBit(t, p)) = ClearGrp(Summary(t), ClearBit(t, p), p)
         /\ ListedIn(ClearBit(t, p)) = ListedIn(t) \ {p}
<1> DEFINE u == ClearBit(t, p)
<1>1. u \in Table
  BY Split DEF ClearBit, Table
<1>2. \A y \in Row : u[y] = IF y = Y(p) THEN t[y] \ {X(p)} ELSE t[y]
  BY Split DEF ClearBit, Table
<1>3. Summary(u) = ClearGrp(Summary(t), u, p)
  <2>1. \A y \in Row : y # Y(p) => u[y] = t[y]
    BY <1>2
  <2>2. u[Y(p)] \subseteq t[Y(p)]
    BY <1>2, Split
  <2> HIDE DEF u
  <2> QED
    BY <2>1, <2>2, Split DEF Summary, ClearGrp
<1>4. ASSUME NEW p2 \in ListedIn(u) PROVE p2 \in ListedIn(t) \ {p}
  <2>1. p2 = 8 * Y(p2) + X(p2) /\ X(p2) \in u[Y(p2)] /\ Y(p2) \in Row /\ X(p2) \in Bits
    BY ListedForm
  <2>2. X(p2) \in t[Y(p2)] /\ ~(Y(p2) = Y(p) /\ X(p2) = X(p))
    BY <1>2, <2>1
  <2> QED
    BY <2>1, <2>2, ListedBit
<1>5. ASSUME NEW p2 \in ListedIn(t), p2 # p PROVE p2 \in ListedIn(u)
  <2>1. p2 = 8 * Y(p2) + X(p2) /\ X(p2) \in t[Y(p2)] /\ Y(p2) \in Row /\ X(p2) \in Bits
    BY ListedForm
  <2>2. ~(Y(p2) = Y(p) /\ X(p2) = X(p))
    BY <1>5, <2>1, Split
  <2> QED
    BY <1>2, <2>1, <2>2, ListedBit
<1> QED
  BY <1>1, <1>3, <1>4, <1>5
-----------------------------------------------------------------------------
\* Both maps of a new list are empty.
LEMMA RInitInv == RInit => IInv
<1> SUFFICES ASSUME RInit PROVE IInv
  OBVIOUS
<1>1. RTypeOK /\ GroupSummarises
  BY DEF RInit, RTypeOK, GroupSummarises
<1> QED
  BY <1>1 DEF IInv, RInit, OS_SchedNew

\* The set a step leaves listed, and that the maps go on agreeing.
LEMMA RStep ==
  ASSUME IInv, RNext
  PROVE  /\ IInv'
         /\ \E p, p2 \in Prio : \/ Listed' = Listed \cup {p}
                               \/ Listed' = Listed \ {p}
                               \/ Listed' = (Listed \ {p}) \cup {p2}
<1>1. tbl \in Table /\ grp = Summary(tbl)
  BY DEF IInv, RTypeOK, GroupSummarises, Table, Row, Summary
<1>2. SUFFICES /\ tbl' \in Table /\ grp' = Summary(tbl')
               /\ \E p, p2 \in Prio : \/ ListedIn(tbl') = ListedIn(tbl) \cup {p}
                                     \/ ListedIn(tbl') = ListedIn(tbl) \ {p}
                                     \/ ListedIn(tbl') = (ListedIn(tbl) \ {p}) \cup {p2}
  <2>1. RTypeOK' /\ GroupSummarises'
    BY <1>2, RowsAreBits DEF RTypeOK, GroupSummarises, Table, Row, Summary
  <2>2. high' = OS_SchedNew(grp', tbl')
    BY DEF RNext, MakeReady, MakeUnready, Move, Look
  <2> QED
    BY <1>2, <2>1, <2>2 DEF IInv, Listed
<1>3. ASSUME NEW p \in Prio, MakeReady(p)
      PROVE  tbl' \in Table /\ grp' = Summary(tbl') /\ ListedIn(tbl') = ListedIn(tbl) \cup {p}
  BY <1>1, <1>3, Added DEF MakeReady
<1>4. ASSUME NEW p \in Prio, MakeUnready(p)
      PROVE  tbl' \in Table /\ grp' = Summary(tbl') /\ ListedIn(tbl') = ListedIn(tbl) \ {p}
  BY <1>1, <1>4, Removed DEF MakeUnready
<1>5. ASSUME NEW p \in Prio, NEW p2 \in Prio, Move(p, p2)
      PROVE  /\ tbl' \in Table /\ grp' = Summary(tbl')
             /\ ListedIn(tbl') = (ListedIn(tbl) \ {p}) \cup {p2}
  <2>1. ClearBit(tbl, p) \in Table
    BY <1>1, Removed
  <2> QED
    BY <1>1, <1>5, <2>1, Removed, Added DEF Move
<1> QED
  BY <1>3, <1>4, <1>5 DEF RNext

LEMMA RStutter == IInv /\ UNCHANGED rvars => IInv'
BY DEF IInv, RTypeOK, GroupSummarises, rvars

LEMMA RInvariant == RSpec => []IInv
<1>1. IInv /\ [RNext]_rvars => IInv'
  BY RStep, RStutter
<1> QED
  BY RInitInv, <1>1, PTL DEF RSpec

\* OSRdyGrp, and the group of every wait list, has a bit for exactly the bytes
\* that are not zero, whatever is made ready, taken out or moved.
THEOREM GroupIsTrue == RSpec => []GroupSummarises
<1>1. IInv => GroupSummarises
  BY DEF IInv
<1> QED
  BY RInvariant, <1>1, PTL

\* OS_SchedNew finds the smallest number that is listed.
THEOREM HighestIsFound == RSpec => []FindsHighest
<1>1. IInv => FindsHighest
  <2> SUFFICES ASSUME IInv PROVE FindsHighest
    OBVIOUS
  <2>1. tbl \in Table /\ grp = Summary(tbl) /\ high = OS_SchedNew(grp, tbl)
    BY DEF IInv, RTypeOK, GroupSummarises, Table, Row, Summary
  <2> QED
    BY <2>1, NewIsLeast DEF FindsHighest, Listed
<1> QED
  BY RInvariant, <1>1, PTL

\* The smallest of a set is the only number that can be called so.
LEMMA LeastIs ==
  ASSUME NEW S, \A p \in S : p \in Int,
         NEW h, IF S = {} THEN h = NoPrio ELSE h \in S /\ \A p \in S : h <= p
  PROVE  h = Abstract!Least(S)
<1>1. CASE S = {}
  BY <1>1 DEF Abstract!Least
<1>2. CASE S # {}
  <2> DEFINE c == CHOOSE p \in S : \A p2 \in S : p <= p2
  <2>1. c \in S /\ \A p2 \in S : c <= p2
    BY <1>2
  <2>2. h \in S /\ \A p \in S : h <= p
    BY <1>2
  <2>3. c = h
    <3> HIDE DEF c
    <3> QED
      BY <2>1, <2>2
  <2> QED
    BY <1>2, <2>3 DEF Abstract!Least
<1> QED
  BY <1>1, <1>2

\* The maps do what a set of priorities does: every step of theirs adds one,
\* removes one or puts one in place of another, and shows the smallest.
THEOREM MapsAreASet == RSpec => ActsAsSet
<1>1. RInit => Abstract!SInit
  <2> SUFFICES ASSUME RInit PROVE Abstract!SInit
    OBVIOUS
  <2>1. Listed = {}
    <3>1. \A y \in Row : tbl[y] = {}
      BY DEF RInit, Row
    <3> QED
      BY <3>1, ListedForm DEF Listed
  <2> QED
    BY <2>1 DEF RInit, Abstract!SInit
<1>2. ASSUME IInv, [RNext]_rvars PROVE [Abstract!SNext]_<<Listed, high>>
  <2>1. CASE RNext
    <3>1. /\ IInv'
          /\ \E p, p2 \in Prio : \/ Listed' = Listed \cup {p}
                                \/ Listed' = Listed \ {p}
                                \/ Listed' = (Listed \ {p}) \cup {p2}
      BY <1>2, <2>1, RStep
    <3>2. tbl' \in Table /\ grp' = Summary(tbl') /\ high' = OS_SchedNew(grp', tbl')
      BY <3>1 DEF IInv, RTypeOK, GroupSummarises, Table, Row, Summary
    <3>3. IF Listed' = {} THEN high' = NoPrio
                          ELSE high' \in Listed' /\ \A p \in Listed' : high' <= p
      BY <3>2, NewIsLeast DEF Listed
    <3>4. \A p \in Listed' : p \in Int
      BY ListedForm DEF Listed
    <3>5. high' = Abstract!Least(Listed')
      BY <3>3, <3>4, LeastIs
    <3> QED
      BY <3>1, <3>5 DEF Abstract!SNext, Abstract!Add, Abstract!Remove, Abstract!Replace
  <2>2. CASE UNCHANGED rvars
    BY <2>2 DEF rvars, Listed
  <2> QED
    BY <1>2, <2>1, <2>2
<1> QED
  BY RInvariant, <1>1, <1>2, PTL DEF RSpec, ActsAsSet, Abstract!SSpec
-----------------------------------------------------------------------------
(***************************************************************************)
(* That a partition keeps its blocks, for any number of partitions, blocks *)
(* and users: the words of the free blocks spell out the list that the     *)
(* calls made, no block is handed out twice, and none that comes back is   *)
(* refused.                                                                *)
(***************************************************************************)

MemTypes ==
  /\ mem \in [Part -> [used : BOOLEAN, free : Block \cup {Null}, nfree : Nat, nblks : Nat]]
  /\ DOMAIN link = Block
  /\ pool \subseteq Part /\ left \subseteq Area
  /\ half \in [User -> {<<>>} \cup (Part \X Area)]
  /\ own \in [User -> SUBSET (Part \X Block)]
  /\ chain \in [Part -> Seq(Block)]

\* A control block is in the list, or being made into a partition, or one.
PartsApart ==
  /\ \A u \in User : half[u] # <<>> => /\ half[u][1] \notin pool /\ half[u][2] \notin left
                                       /\ ~ mem[half[u][1]].used
  /\ \A u, v \in User : half[u] # <<>> /\ half[v] # <<>> /\ u # v =>
                           half[u][1] # half[v][1] /\ half[u][2] # half[v][2]
  /\ \A p \in pool : ~ mem[p].used
  /\ \A p \in Part : ~ mem[p].used => chain[p] = <<>> /\ \A u \in User, x \in Block : <<p, x>> \notin own[u]

Free(x)  == \E p \in Part : \E i \in 1 .. Len(chain[p]) : chain[p][i] = x
Owned(x) == \E u \in User, p \in Part : <<p, x>> \in own[u]
Raw(x)   == \/ \E a \in left : x \in BlocksOf(a)
            \/ \E u \in User : half[u] # <<>> /\ x \in BlocksOf(half[u][2])

\* Where a block is, it is once, and it is nowhere else.
FreeOnce ==
  \A p, p2 \in Part : \A i \in 1 .. Len(chain[p]), j \in 1 .. Len(chain[p2]) :
    chain[p][i] = chain[p2][j] => p = p2 /\ i = j
OwnedOnce ==
  \A u, v \in User, p, p2 \in Part, x \in Block :
    <<p, x>> \in own[u] /\ <<p2, x>> \in own[v] => u = v /\ p = p2
Apart == \A x \in Block : ~ (Free(x) /\ Owned(x)) /\ ~ (Raw(x) /\ (Free(x) \/ Owned(x)))
Nowhere == \A a \in Area : \A x \in BlocksOf(a) : Free(x) \/ Owned(x) \/ Raw(x)

\* A partition has no block but those of its array, and counts them.
BlocksOfPart(p, a) ==
  /\ mem[p].nblks = a.n
  /\ \A i \in 1 .. Len(chain[p]) : chain[p][i] \in BlocksOf(a)
  /\ \A u \in User, x \in Block : <<p, x>> \in own[u] => x \in BlocksOf(a)
FromOneArea == \A p \in Part : mem[p].used => \E a \in Area : BlocksOfPart(p, a)

MemInv == MemTypes /\ PartsApart /\ ListSpelled /\ FreeOnce /\ OwnedOnce /\ Apart /\ Nowhere /\ FromOneArea
-----------------------------------------------------------------------------
LEMMA PopList ==
  ASSUME NEW s \in Seq(Block), Len(s) > 0
  PROVE  /\ Tail(s) \in Seq(Block) /\ Len(Tail(s)) = Len(s) - 1 /\ s[1] \in Block
         /\ \A i \in 1 .. Len(s) - 1 : Tail(s)[i] = s[i + 1]
BY HeadTailProperties

LEMMA NewRecord ==
  ASSUME NEW r \in [used : BOOLEAN, free : Block \cup {Null}, nfree : Nat, nblks : Nat],
         NEW b \in Block \cup {Null}, NEW n \in Nat
  PROVE  [r EXCEPT !.free = b, !.nfree = n]
           \in [used : BOOLEAN, free : Block \cup {Null}, nfree : Nat, nblks : Nat]
OBVIOUS

LEMMA PushList ==
  ASSUME NEW s \in Seq(Block), NEW x \in Block
  PROVE  LET t == <<x>> \o s
         IN  /\ t \in Seq(Block) /\ Len(t) = Len(s) + 1 /\ t[1] = x
             /\ \A i \in 1 .. Len(s) : t[i + 1] = s[i]
             /\ \A j \in 2 .. Len(s) + 1 : t[j] = s[j - 1]
<1>1. <<x>> \in Seq(Block) /\ Len(<<x>>) = 1 /\ <<x>>[1] = x
  OBVIOUS
<1>2. /\ <<x>> \o s \in Seq(Block) /\ Len(<<x>> \o s) = 1 + Len(s)
      /\ \A i \in 1 .. 1 + Len(s) : (<<x>> \o s)[i] = IF i <= 1 THEN <<x>>[i] ELSE s[i - 1]
  BY <1>1, ConcatProperties
<1> QED
  BY <1>1, <1>2, LenProperties

LEMMA AreaFacts ==
  ASSUME NEW a \in Area
  PROVE  /\ a.addr \in Nat \ {0} /\ a.n \in Nat \ {0, 1} /\ BlocksOf(a) \subseteq Block
         /\ BlocksOf(a) \subseteq Nat /\ IsFiniteSet(BlocksOf(a)) /\ Cardinality(BlocksOf(a)) = a.n
         /\ a.addr \in BlocksOf(a) /\ a.addr + a.n - 1 \in BlocksOf(a)
         /\ \A b \in Area : \A x : x \in BlocksOf(a) /\ x \in BlocksOf(b) => a = b
<1>1. a.addr \in Nat \ {0} /\ a.n \in Nat \ {0, 1} /\ BlocksOf(a) \subseteq Block
  BY MemAssumption DEF BlocksOf
<1>2. IsFiniteSet(BlocksOf(a)) /\ Cardinality(BlocksOf(a)) = a.n
  <2>1. PICK y \in Int, z \in Int : y = a.addr /\ z = a.addr + a.n - 1 /\ ~ (y > z) /\ z - y + 1 = a.n
    BY <1>1
  <2>2. IsFiniteSet(y .. z) /\ Cardinality(y .. z) = IF y > z THEN 0 ELSE z - y + 1
    BY FS_Interval
  <2> QED
    BY <2>1, <2>2 DEF BlocksOf
<1>3. \A b \in Area : \A x : x \in BlocksOf(a) /\ x \in BlocksOf(b) => a = b
  BY MemAssumption DEF BlocksOf
<1>4. BlocksOf(a) \subseteq Nat /\ a.addr \in BlocksOf(a) /\ a.addr + a.n - 1 \in BlocksOf(a)
  BY ONLY <1>1 DEF BlocksOf
<1> QED
  BY ONLY <1>1, <1>2, <1>3, <1>4

\* A block that is out leaves room in its partition: what is free is fewer.
LEMMA OutMeansRoom ==
  ASSUME MemTypes, ListSpelled, FreeOnce, Apart, PartsApart, FromOneArea,
         NEW u \in User, NEW p \in Part, NEW x \in Block, <<p, x>> \in own[u]
  PROVE  mem[p].used /\ mem[p].nfree < mem[p].nblks
<1>1. mem[p].used
  BY DEF PartsApart
<1>2. PICK a \in Area : BlocksOfPart(p, a)
  BY <1>1 DEF FromOneArea
<1> DEFINE T == BlocksOf(a) \ {x}
           n == Len(chain[p])
<1>3. x \in BlocksOf(a) /\ IsFiniteSet(T) /\ Cardinality(T) = a.n - 1
  BY <1>2, AreaFacts, FS_RemoveElement DEF BlocksOfPart
<1>4. n \in Nat /\ n = mem[p].nfree /\ mem[p].nblks = a.n /\ a.n \in Nat
  BY <1>1, <1>2, AreaFacts, LenProperties DEF ListSpelled, BlocksOfPart, MemTypes
<1>5. \A i \in 1 .. n : chain[p][i] \in T
  BY <1>2 DEF BlocksOfPart, Apart, Free, Owned
<1>6. \A i, j \in 1 .. n : chain[p][i] = chain[p][j] => i = j
  BY DEF FreeOnce
<1> DEFINE f == [i \in 1 .. n |-> chain[p][i]]
<1>7. f \in Injection(1 .. n, T)
  BY <1>5, <1>6 DEF Injection, IsInjective
<1>8. Cardinality(1 .. n) <= Cardinality(T) /\ Cardinality(1 .. n) = n
  <2> HIDE DEF f, T
  <2>1. Cardinality(1 .. n) <= Cardinality(T)
    BY <1>3, <1>7, FS_Injection
  <2> HIDE DEF n
  <2>2. Cardinality(1 .. n) = n
    <3>1. PICK y \in Int : y = 1
      OBVIOUS
    <3>2. PICK z \in Int : z = n /\ z - y + 1 = n /\ (y > z => n = 0)
      BY <1>4, <3>1
    <3>3. IsFiniteSet(y .. z) /\ Cardinality(y .. z) = IF y > z THEN 0 ELSE z - y + 1
      BY FS_Interval
    <3> QED
      BY <3>1, <3>2, <3>3
  <2> QED
    BY <2>1, <2>2
<1> QED
  BY <1>1, <1>3, <1>4, <1>8

LEMMA MemStart == MemInit => MemInv
<1> SUFFICES ASSUME MemInit PROVE MemInv
  OBVIOUS
<1>1. MemTypes
  BY EmptySeq DEF MemInit, MemTypes, NoPart
<1>2. \A p \in Part : ~ mem[p].used /\ chain[p] = <<>> /\ Len(chain[p]) = 0
  BY DEF MemInit, NoPart
<1>3. \A u \in User : half[u] = <<>> /\ own[u] = {}
  BY DEF MemInit
<1>4. PartsApart /\ OwnedOnce
  BY <1>2, <1>3 DEF MemInit, PartsApart, OwnedOnce
<1>5. ListSpelled /\ FreeOnce /\ FromOneArea
  BY <1>2 DEF ListSpelled, FreeOnce, FromOneArea
<1>6. Apart /\ Nowhere
  BY <1>2, <1>3 DEF MemInit, Apart, Nowhere, Free, Owned, Raw
<1> QED
  BY <1>1, <1>4, <1>5, <1>6 DEF MemInv

-----------------------------------------------------------------------------
LEMMA CreateStep ==
  ASSUME MemInv, NEW u \in User, NEW a \in Area, OSMemCreate(u, a)
  PROVE  MemInv'
<1>1. PICK p \in pool : pool' = pool \ {p} /\ half' = [half EXCEPT ![u] = <<p, a>>]
  BY DEF OSMemCreate
<1>2. /\ half[u] = <<>> /\ a \in left /\ left' = left \ {a} /\ p \in Part
      /\ UNCHANGED <<mem, link, own, chain>>
  BY DEF OSMemCreate, MemInv, MemTypes
<1>3. MemTypes'
  BY <1>1, <1>2 DEF MemInv, MemTypes
<1>4. half'[u] = <<p, a>> /\ \A v \in User : v # u => half'[v] = half[v]
  BY <1>1 DEF MemInv, MemTypes
<1>5. PartsApart'
  BY <1>1, <1>2, <1>4 DEF MemInv, MemTypes, PartsApart
<1>6. \A x : (Raw(x)' <=> Raw(x)) /\ (Free(x)' <=> Free(x)) /\ (Owned(x)' <=> Owned(x))
  <2>1. ASSUME NEW x PROVE Raw(x)' <=> Raw(x)
    BY <1>2, <1>4 DEF Raw
  <2> QED
    BY <1>2, <2>1 DEF Free, Owned
<1>7. Apart' /\ Nowhere'
  BY <1>6 DEF MemInv, Apart, Nowhere
<1>8. ListSpelled' /\ FreeOnce' /\ OwnedOnce' /\ FromOneArea'
  BY <1>2 DEF MemInv, ListSpelled, FreeOnce, OwnedOnce, FromOneArea, BlocksOfPart
<1> QED
  BY <1>3, <1>5, <1>7, <1>8 DEF MemInv

LEMMA BuildStep ==
  ASSUME MemInv, NEW u \in User, BuildList(u)
  PROVE  MemInv'
<1>1. PICK p \in Part, a \in Area : half[u] = <<p, a>>
  BY DEF BuildList, MemInv, MemTypes
<1> DEFINE s == [i \in 1 .. a.n |-> a.addr + i - 1]
<1>2. /\ link' = [x \in Block |-> IF x \notin BlocksOf(a) THEN link[x]
                                 ELSE IF x = a.addr + a.n - 1 THEN Null ELSE x + 1]
      /\ mem' = [mem EXCEPT ![p] = [used |-> TRUE, free |-> a.addr, nfree |-> a.n, nblks |-> a.n]]
      /\ chain' = [chain EXCEPT ![p] = s]
      /\ half' = [half EXCEPT ![u] = <<>>]
      /\ UNCHANGED <<pool, left, own>>
  BY <1>1 DEF BuildList
<1>3. /\ a.addr \in Nat \ {0} /\ a.n \in Nat \ {0, 1}
      /\ \A i \in 1 .. a.n : s[i] = a.addr + i - 1 /\ s[i] \in BlocksOf(a) /\ s[i] \in Block
      /\ \A x \in BlocksOf(a) : \E i \in 1 .. a.n : s[i] = x
  <2>1. ASSUME NEW x \in BlocksOf(a) PROVE \E i \in 1 .. a.n : s[i] = x
    <3>1. x - a.addr + 1 \in 1 .. a.n /\ s[x - a.addr + 1] = x
      BY AreaFacts DEF BlocksOf
    <3> QED
      BY <3>1
  <2> QED
    BY <2>1, AreaFacts DEF BlocksOf
<1>4. s \in Seq(Block) /\ Len(s) = a.n
  BY <1>3
<1> HIDE DEF s
<1>5. MemTypes'
  BY <1>2, <1>3, <1>4, AreaFacts DEF MemInv, MemTypes
<1>6. /\ ~ mem[p].used /\ p \notin pool /\ chain[p] = <<>>
      /\ \A v \in User, x \in Block : <<p, x>> \notin own[v]
      /\ a \notin left
      /\ \A v \in User : v # u /\ half[v] # <<>> => half[v][1] # p /\ half[v][2] # a
  BY <1>1 DEF MemInv, PartsApart
<1>7. /\ half'[u] = <<>> /\ \A v \in User : v # u => half'[v] = half[v]
      /\ mem'[p] = [used |-> TRUE, free |-> a.addr, nfree |-> a.n, nblks |-> a.n]
      /\ chain'[p] = s
      /\ \A p2 \in Part : p2 # p => mem'[p2] = mem[p2] /\ chain'[p2] = chain[p2]
  BY <1>2 DEF MemInv, MemTypes
<1>8. PartsApart'
  BY <1>2, <1>6, <1>7 DEF MemInv, MemTypes, PartsApart
<1>9. \A x \in BlocksOf(a) : x \in Block /\ Raw(x) /\ ~ Free(x) /\ ~ Owned(x)
  <2>1. \A x \in BlocksOf(a) : x \in Block /\ Raw(x)
    BY <1>1, AreaFacts DEF Raw
  <2> QED
    BY <2>1 DEF MemInv, Apart
<1>10. ListSpelled'
  <2>1. ASSUME NEW p2 \in Part, p2 # p, mem[p2].used
        PROVE  \A i \in 1 .. Len(chain[p2]) : link'[chain[p2][i]] = link[chain[p2][i]]
    <3>1. \A i \in 1 .. Len(chain[p2]) : chain[p2][i] \in Block /\ Free(chain[p2][i])
      BY DEF MemInv, MemTypes, Free
    <3> QED
      BY <1>2, <1>9, <3>1
  <2>2. \A i \in 1 .. a.n : link'[s[i]] = IF i = a.n THEN Null ELSE s[i + 1]
    <3> SUFFICES ASSUME NEW i \in 1 .. a.n
                 PROVE  link'[s[i]] = IF i = a.n THEN Null ELSE s[i + 1]
      OBVIOUS
    <3>1. i = a.n <=> s[i] = a.addr + a.n - 1
      BY <1>3
    <3>2. i # a.n => i + 1 \in 1 .. a.n /\ s[i + 1] = s[i] + 1
      BY <1>3
    <3>3. link'[s[i]] = IF s[i] = a.addr + a.n - 1 THEN Null ELSE s[i] + 1
      BY <1>2, <1>3
    <3> QED
      BY <3>1, <3>2, <3>3
  <2>3. s[1] = a.addr
    BY <1>3
  <2>4. ASSUME NEW p2 \in Part, mem'[p2].used
        PROVE  /\ Len(chain'[p2]) = mem'[p2].nfree
               /\ mem'[p2].free = IF Len(chain'[p2]) = 0 THEN Null ELSE chain'[p2][1]
               /\ \A i \in 1 .. Len(chain'[p2]) :
                    link'[chain'[p2][i]] = IF i = Len(chain'[p2]) THEN Null ELSE chain'[p2][i + 1]
    <3>1. CASE p2 = p
      <4>1. chain'[p2] = s /\ mem'[p2].nfree = a.n /\ mem'[p2].free = a.addr /\ a.n # 0
        BY <1>3, <1>7, <3>1
      <4> QED
        BY <1>4, <2>2, <2>3, <4>1
    <3>2. CASE p2 # p
      BY <1>7, <2>1, <2>4, <3>2 DEF MemInv, ListSpelled
    <3> QED
      BY <3>1, <3>2
  <2> QED
    BY <2>4 DEF ListSpelled
<1>11. FreeOnce'
  <2> SUFFICES ASSUME NEW p2 \in Part, NEW r \in Part, NEW i \in 1 .. Len(chain'[p2]),
                      NEW j \in 1 .. Len(chain'[r]), chain'[p2][i] = chain'[r][j]
               PROVE  p2 = r /\ i = j
    BY DEF FreeOnce
  <2>1. ASSUME NEW t \in Part, t # p, NEW k \in 1 .. Len(chain'[t])
        PROVE  chain'[t][k] \notin BlocksOf(a)
    BY <1>7, <1>9, <2>1 DEF Free
  <2>2. ASSUME NEW k \in 1 .. Len(chain'[p]) PROVE chain'[p][k] \in BlocksOf(a)
    BY <1>3, <1>4, <1>7
  <2>3. CASE p2 = p /\ r = p
    <3>1. i \in 1 .. a.n /\ j \in 1 .. a.n /\ s[i] = s[j]
      BY <1>4, <1>7, <2>3
    <3>2. a.addr + i - 1 = a.addr + j - 1
      BY <1>3, <3>1
    <3> QED
      BY <1>3, <2>3, <3>1, <3>2
  <2>4. CASE p2 # p /\ r # p
    BY <1>7, <2>4 DEF MemInv, FreeOnce
  <2> QED
    BY <2>1, <2>2, <2>3, <2>4
<1>12. OwnedOnce'
  BY <1>2 DEF MemInv, OwnedOnce
<1>13. ASSUME NEW x
       PROVE  /\ Owned(x)' <=> Owned(x)
              /\ Free(x)' <=> Free(x) \/ x \in BlocksOf(a)
              /\ Raw(x)' => Raw(x) /\ x \notin BlocksOf(a)
              /\ Raw(x) => Raw(x)' \/ x \in BlocksOf(a)
  <2>1. Owned(x)' <=> Owned(x)
    BY <1>2 DEF Owned
  <2>2. Free(x) => Free(x)'
    <3> SUFFICES ASSUME Free(x) PROVE Free(x)'
      OBVIOUS
    <3>1. PICK p2 \in Part : \E i \in 1 .. Len(chain[p2]) : chain[p2][i] = x
      BY DEF Free
    <3>2. p2 # p
      BY <1>6, <3>1
    <3> QED
      BY <1>7, <3>1, <3>2 DEF Free
  <2>3. x \in BlocksOf(a) => Free(x)'
    BY <1>3, <1>4, <1>7 DEF Free
  <2>4. Free(x)' => Free(x) \/ x \in BlocksOf(a)
    <3> SUFFICES ASSUME Free(x)' PROVE Free(x) \/ x \in BlocksOf(a)
      OBVIOUS
    <3>1. PICK p2 \in Part : \E i \in 1 .. Len(chain'[p2]) : chain'[p2][i] = x
      BY DEF Free
    <3>2. CASE p2 = p
      BY <1>3, <1>4, <1>7, <3>1, <3>2
    <3>3. CASE p2 # p
      BY <1>7, <3>1, <3>3 DEF Free
    <3> QED
      BY <3>2, <3>3
  <2>5. Raw(x)' => Raw(x) /\ x \notin BlocksOf(a)
    <3> SUFFICES ASSUME Raw(x)' PROVE Raw(x) /\ x \notin BlocksOf(a)
      OBVIOUS
    <3>1. CASE \E b \in left' : x \in BlocksOf(b)
      BY <1>2, <1>6, <3>1, AreaFacts DEF Raw, MemInv, MemTypes
    <3>2. CASE \E v \in User : half'[v] # <<>> /\ x \in BlocksOf(half'[v][2])
      <4>1. PICK v \in User : half'[v] # <<>> /\ x \in BlocksOf(half'[v][2])
        BY <3>2
      <4>2. v # u /\ half[v] # <<>> /\ x \in BlocksOf(half[v][2]) /\ half[v][2] # a /\ half[v][2] \in Area
        BY <1>6, <1>7, <4>1 DEF MemInv, MemTypes
      <4> QED
        BY <4>2, AreaFacts DEF Raw
    <3> QED
      BY <3>1, <3>2 DEF Raw
  <2>6. Raw(x) => Raw(x)' \/ x \in BlocksOf(a)
    BY <1>1, <1>2, <1>7 DEF Raw
  <2> QED
    BY <2>1, <2>2, <2>3, <2>4, <2>5, <2>6
<1>14. Apart' /\ Nowhere'
  BY <1>9, <1>13 DEF MemInv, Apart, Nowhere
<1>15. FromOneArea'
  <2> SUFFICES ASSUME NEW p2 \in Part, mem'[p2].used PROVE \E b \in Area : BlocksOfPart(p2, b)'
    BY DEF FromOneArea
  <2>1. CASE p2 = p
    <3>1. BlocksOfPart(p, a)'
      BY <1>2, <1>3, <1>4, <1>6, <1>7 DEF BlocksOfPart
    <3> QED
      BY <2>1, <3>1
  <2>2. CASE p2 # p
    <3>1. PICK b \in Area : BlocksOfPart(p2, b)
      BY <1>7, <2>2 DEF MemInv, FromOneArea
    <3>2. BlocksOfPart(p2, b)'
      BY <1>2, <1>7, <2>2, <3>1 DEF BlocksOfPart
    <3> QED
      BY <3>2
  <2> QED
    BY <2>1, <2>2
<1> QED
  BY <1>5, <1>8, <1>10, <1>11, <1>12, <1>14, <1>15 DEF MemInv

LEMMA GetStep ==
  ASSUME MemInv, NEW u \in User, NEW p \in Part, OSMemGet(u, p)
  PROVE  MemInv'
<1>0. PICK x, c, t : x = mem[p].free /\ c = chain[p] /\ t = Tail(c)
  OBVIOUS
<1>1. /\ c \in Seq(Block) /\ Len(c) = mem[p].nfree /\ Len(c) \in Nat /\ Len(c) > 0
      /\ x = c[1] /\ x \in Block
      /\ link[x] = IF Len(c) = 1 THEN Null ELSE c[2]
      /\ mem[p].used
  <2>1. c \in Seq(Block) /\ mem[p].nfree > 0 /\ Len(c) = mem[p].nfree /\ mem[p].used
    BY <1>0 DEF OSMemGet, MemInv, MemTypes, ListSpelled
  <2>2. 1 \in 1 .. Len(c) /\ Len(c) # 0 /\ c[1] \in Block /\ Len(c) \in Nat
    BY <2>1
  <2>3. x = c[1] /\ link[c[1]] = IF 1 = Len(c) THEN Null ELSE c[1 + 1]
    BY <1>0, <2>1, <2>2 DEF MemInv, ListSpelled
  <2> QED
    BY <2>1, <2>2, <2>3
<1>2. /\ t \in Seq(Block) /\ Len(t) = Len(c) - 1
      /\ \A i \in 1 .. Len(c) - 1 : t[i] = c[i + 1]
      /\ \A i \in 1 .. Len(t) : t[i] = c[i + 1] /\ i + 1 \in 1 .. Len(c)
  BY <1>0, <1>1, PopList
<1>3. /\ mem'[p].free = link[x] /\ mem'[p].nfree = Len(c) - 1
      /\ mem'[p].used = mem[p].used /\ mem'[p].nblks = mem[p].nblks
      /\ chain'[p] = t
      /\ own'[u] = own[u] \cup {<<p, x>>}
      /\ \A p2 \in Part : p2 # p => mem'[p2] = mem[p2] /\ chain'[p2] = chain[p2]
      /\ \A v \in User : v # u => own'[v] = own[v]
      /\ UNCHANGED <<link, pool, half, left>>
  <2>1. mem[p] \in [used : BOOLEAN, free : Block \cup {Null}, nfree : Nat, nblks : Nat]
    BY DEF MemInv, MemTypes
  <2> QED
    BY <1>0, <1>1, <2>1 DEF OSMemGet, MemInv, MemTypes
<1>4. MemTypes'
  <2>1. link[x] \in Block \cup {Null} /\ Len(c) - 1 \in Nat
    BY <1>1
  <2>2. /\ mem' = [mem EXCEPT ![p] = [mem[p] EXCEPT !.free = link[x], !.nfree = Len(c) - 1]]
        /\ chain' = [chain EXCEPT ![p] = t]
        /\ own' = [own EXCEPT ![u] = own[u] \cup {<<p, x>>}]
    BY <1>0, <1>1 DEF OSMemGet, MemInv, MemTypes
  <2>3. [mem[p] EXCEPT !.free = link[x], !.nfree = Len(c) - 1]
          \in [used : BOOLEAN, free : Block \cup {Null}, nfree : Nat, nblks : Nat]
    <3>1. mem[p] \in [used : BOOLEAN, free : Block \cup {Null}, nfree : Nat, nblks : Nat]
      BY DEF MemInv, MemTypes
    <3> QED
      BY <2>1, <3>1, NewRecord
  <2>4. mem' \in [Part -> [used : BOOLEAN, free : Block \cup {Null}, nfree : Nat, nblks : Nat]]
    BY <2>2, <2>3 DEF MemInv, MemTypes
  <2>5. chain' \in [Part -> Seq(Block)]
    BY ONLY <1>2, <2>2, MemInv DEF MemInv, MemTypes
  <2>6. own' \in [User -> SUBSET (Part \X Block)]
    <3>1. x \in Block
      BY <1>1
    <3> QED
      BY ONLY <2>2, <3>1, MemInv, p \in Part DEF MemInv, MemTypes
  <2> QED
    BY ONLY <1>3, <2>4, <2>5, <2>6, MemInv DEF MemInv, MemTypes
<1>5. \A p2 \in Part : mem'[p2].used = mem[p2].used /\ mem'[p2].nblks = mem[p2].nblks
  BY <1>3
<1>6. PartsApart'
  <2>1. \A p2 \in Part : ~ mem[p2].used => p2 # p
    BY <1>1
  <2>2. half \in [User -> {<<>>} \cup (Part \X Area)] /\ pool \subseteq Part
    BY DEF MemInv, MemTypes
  <2> QED
    BY <1>3, <1>5, <2>1, <2>2 DEF MemInv, PartsApart
<1>7. ListSpelled'
  <2> SUFFICES ASSUME NEW p2 \in Part, mem'[p2].used
               PROVE  /\ Len(chain'[p2]) = mem'[p2].nfree
                      /\ mem'[p2].free = IF Len(chain'[p2]) = 0 THEN Null ELSE chain'[p2][1]
                      /\ \A i \in 1 .. Len(chain'[p2]) :
                           link'[chain'[p2][i]] = IF i = Len(chain'[p2]) THEN Null ELSE chain'[p2][i + 1]
    BY DEF ListSpelled
  <2>1. CASE p2 # p
    BY <1>3, <2>1 DEF MemInv, ListSpelled
  <2>2. CASE p2 = p
    <3>1. mem'[p].nfree = Len(c) - 1 /\ mem'[p].free = link[x]
      BY <1>3
    <3>2. /\ Len(t) = 0 => mem'[p].free = Null
          /\ Len(t) # 0 => mem'[p].free = t[1]
      <4>1. Len(t) = 0 => Len(c) = 1
        BY <1>1, <1>2
      <4>2. Len(t) # 0 => Len(c) # 1 /\ t[1] = c[2]
        BY <1>1, <1>2
      <4> QED
        BY <1>1, <3>1, <4>1, <4>2
    <3>3. ASSUME NEW i \in 1 .. Len(c) - 1
          PROVE  link[t[i]] = IF i = Len(c) - 1 THEN Null ELSE t[i + 1]
      <4>1. i + 1 \in 1 .. Len(c) /\ t[i] = c[i + 1]
        BY <1>1, <1>2
      <4>2. link[c[i + 1]] = IF i + 1 = Len(c) THEN Null ELSE c[i + 1 + 1]
        BY <1>0, <1>1, <4>1 DEF MemInv, ListSpelled
      <4>3. i # Len(c) - 1 => i + 1 # Len(c) /\ t[i + 1] = c[i + 1 + 1]
        BY <1>1, <1>2
      <4>4. i = Len(c) - 1 => i + 1 = Len(c)
        BY <1>1
      <4> QED
        BY <4>1, <4>2, <4>3, <4>4
    <3>4. chain'[p] = t /\ link' = link
      BY <1>3
    <3>5. Len(t) = Len(c) - 1 /\ Len(c) \in Nat
      BY <1>1, <1>2
    <3>6. \A i \in 1 .. Len(t) : link[t[i]] = IF i = Len(t) THEN Null ELSE t[i + 1]
      BY ONLY <3>3, <3>5
    <3> QED
      BY ONLY <2>2, <3>1, <3>2, <3>4, <3>5, <3>6
  <2> QED
    BY <2>1, <2>2
\* What is free now was free, one place further back in the list of p.
<1>8. ASSUME NEW p2 \in Part, NEW i \in 1 .. Len(chain'[p2])
      PROVE  \E k \in 1 .. Len(chain[p2]) : /\ chain'[p2][i] = chain[p2][k]
                                           /\ k = IF p2 = p THEN i + 1 ELSE i
  <2>1. CASE p2 = p
    <3>1. i \in 1 .. Len(c) - 1 /\ chain'[p][i] = t[i]
      BY <1>2, <1>3, <2>1
    <3>2. i + 1 \in 1 .. Len(c) /\ chain'[p][i] = c[i + 1]
      BY <1>1, <1>2, <3>1
    <3> QED
      BY <1>0, <2>1, <3>2
  <2>2. CASE p2 # p
    BY <1>3, <2>2
  <2> QED
    BY <2>1, <2>2
<1>9. FreeOnce'
  <2> SUFFICES ASSUME NEW p2 \in Part, NEW r \in Part, NEW i \in 1 .. Len(chain'[p2]),
                      NEW j \in 1 .. Len(chain'[r]), chain'[p2][i] = chain'[r][j]
               PROVE  p2 = r /\ i = j
    BY DEF FreeOnce
  <2>1. PICK k \in 1 .. Len(chain[p2]) : chain'[p2][i] = chain[p2][k] /\ k = IF p2 = p THEN i + 1 ELSE i
    BY <1>8
  <2>2. PICK l \in 1 .. Len(chain[r]) : chain'[r][j] = chain[r][l] /\ l = IF r = p THEN j + 1 ELSE j
    BY <1>8
  <2>3. chain[p2][k] = chain[r][l]
    BY <2>1, <2>2
  <2>4. p2 = r /\ k = l
    BY <2>3 DEF MemInv, FreeOnce
  <2> QED
    BY <2>1, <2>2, <2>4
<1>10. Free(x) /\ ~ Owned(x) /\ ~ Raw(x) /\ ~ Free(x)'
  <2>1. 1 \in 1 .. Len(chain[p]) /\ chain[p][1] = x
    BY <1>0, <1>1
  <2>2. Free(x)
    BY <2>1 DEF Free
  <2>3. ASSUME Free(x)' PROVE FALSE
    <3>1p. PICK p2 \in Part : \E i \in 1 .. Len(chain'[p2]) : chain'[p2][i] = x
      BY <2>3 DEF Free
    <3>1. PICK i \in 1 .. Len(chain'[p2]) : chain'[p2][i] = x
      BY <3>1p
    <3>2. PICK k \in 1 .. Len(chain[p2]) : x = chain[p2][k] /\ k = IF p2 = p THEN i + 1 ELSE i
      BY <1>8, <3>1
    <3>3. p2 = p /\ k = 1
      BY <2>1, <3>2 DEF MemInv, FreeOnce
    <3>4. i \in Nat /\ i # 0
      BY <1>2, <1>3, <3>3
    <3> QED
      BY <3>2, <3>3, <3>4
  <2> QED
    BY <1>1, <2>2, <2>3 DEF MemInv, Apart
<1>11. OwnedOnce'
  <2>1. \A v \in User, p2 \in Part : <<p2, x>> \notin own[v]
    BY <1>10 DEF Owned
  <2>2. \A v \in User, p2 \in Part, y \in Block :
          <<p2, y>> \in own'[v] <=> <<p2, y>> \in own[v] \/ (v = u /\ p2 = p /\ y = x)
    BY <1>3
  <2> QED
    BY <2>1, <2>2 DEF MemInv, OwnedOnce
<1>12. ASSUME NEW y
       PROVE  /\ Raw(y)' <=> Raw(y)
              /\ Free(y)' => Free(y)
              /\ Free(y) => Free(y)' \/ y = x
              /\ Owned(y)' <=> Owned(y) \/ y = x
  <2>1. Raw(y)' <=> Raw(y)
    BY <1>3 DEF Raw
  <2>2. Free(y)' => Free(y)
    BY <1>8 DEF Free
  <2>3. ASSUME Free(y), y # x PROVE Free(y)'
    <3>1p. PICK p2 \in Part : \E i \in 1 .. Len(chain[p2]) : chain[p2][i] = y
      BY <2>3 DEF Free
    <3>1. PICK i \in 1 .. Len(chain[p2]) : chain[p2][i] = y
      BY <3>1p
    <3>2. CASE p2 = p
      <4>1. i # 1 /\ i - 1 \in 1 .. Len(c) - 1 /\ i - 1 + 1 = i /\ c[i] = y
        BY <1>0, <1>1, <2>3, <3>1, <3>2
      <4>2. t[i - 1] = y
        BY <1>2, <4>1
      <4> QED
        BY <1>2, <1>3, <4>1, <4>2, i - 1 \in 1 .. Len(chain'[p]) DEF Free
    <3>3. CASE p2 # p
      BY <1>3, <3>1, <3>3 DEF Free
    <3> QED
      BY <3>2, <3>3
  <2>4. Owned(y)' <=> Owned(y) \/ y = x
    BY <1>3 DEF Owned
  <2> QED
    BY <2>1, <2>2, <2>3, <2>4
<1>13. Apart' /\ Nowhere'
  <2>1. Apart'
    BY <1>10, <1>12 DEF MemInv, Apart
  <2>2. Nowhere'
    BY <1>12 DEF MemInv, Nowhere
  <2> QED
    BY <2>1, <2>2
<1>14. FromOneArea'
  <2> SUFFICES ASSUME NEW p2 \in Part, mem'[p2].used PROVE \E b \in Area : BlocksOfPart(p2, b)'
    BY DEF FromOneArea
  <2>1. PICK b \in Area : BlocksOfPart(p2, b)
    BY <1>5 DEF MemInv, FromOneArea
  <2>2. \A i \in 1 .. Len(chain'[p2]) : chain'[p2][i] \in BlocksOf(b)
    BY <1>8, <2>1 DEF BlocksOfPart
  <2>3. p2 = p => x \in BlocksOf(b)
    <3>1. 1 \in 1 .. Len(c) /\ c[1] = x
      BY <1>1
    <3> QED
      BY <1>0, <2>1, <3>1 DEF BlocksOfPart
  <2>4. BlocksOfPart(p2, b)'
    BY <1>3, <1>5, <2>1, <2>2, <2>3 DEF BlocksOfPart
  <2> QED
    BY <2>4
<1> QED
  BY <1>4, <1>6, <1>7, <1>9, <1>11, <1>13, <1>14 DEF MemInv

\* An owner writes only into what is not free.
LEMMA WriteStep ==
  ASSUME MemInv, NEW u \in User, NEW p \in Part, NEW x \in Block, Write(u, p, x)
  PROVE  MemInv'
<1>1. link' = [link EXCEPT ![x] = Junk] /\ UNCHANGED <<mem, pool, half, left, own, chain>>
  BY DEF Write
<1>2. ~ Free(x)
  BY DEF Write, MemInv, Apart, Owned
<1>3. \A p2 \in Part : \A i \in 1 .. Len(chain[p2]) : link'[chain[p2][i]] = link[chain[p2][i]]
  <2>1. \A p2 \in Part : \A i \in 1 .. Len(chain[p2]) : chain[p2][i] \in Block
    BY DEF MemInv, MemTypes
  <2> QED
    BY <1>1, <1>2, <2>1 DEF Free, MemInv, MemTypes
<1>4. ListSpelled'
  BY <1>1, <1>3 DEF MemInv, ListSpelled
<1>5. MemTypes' /\ PartsApart' /\ FreeOnce' /\ OwnedOnce' /\ FromOneArea'
  <2>1. MemTypes'
    BY ONLY <1>1, MemInv DEF MemInv, MemTypes
  <2>2. PartsApart'
    BY ONLY <1>1, MemInv DEF MemInv, PartsApart
  <2>3. FreeOnce' /\ OwnedOnce'
    BY ONLY <1>1, MemInv DEF MemInv, FreeOnce, OwnedOnce
  <2>4. FromOneArea'
    BY ONLY <1>1, MemInv DEF MemInv, FromOneArea, BlocksOfPart
  <2> QED
    BY ONLY <2>1, <2>2, <2>3, <2>4
<1>6. Apart' /\ Nowhere'
  BY <1>1 DEF MemInv, Apart, Nowhere, Free, Owned, Raw
<1> QED
  BY <1>4, <1>5, <1>6 DEF MemInv

LEMMA PutStep ==
  ASSUME MemInv, NEW u \in User, NEW p \in Part, NEW x \in Block, OSMemPut(u, p, x)
  PROVE  MemInv'
<1>0. PICK c, t : c = chain[p] /\ t = <<x>> \o c
  OBVIOUS
<1>1. /\ <<p, x>> \in own[u] /\ mem[p].used
      /\ c \in Seq(Block) /\ Len(c) = mem[p].nfree /\ Len(c) \in Nat
      /\ mem[p].free = IF Len(c) = 0 THEN Null ELSE c[1]
  <2>1. <<p, x>> \in own[u]
    BY DEF OSMemPut
  <2>2. mem[p].used
    BY <2>1 DEF MemInv, PartsApart
  <2> QED
    BY <1>0, <2>1, <2>2 DEF MemInv, MemTypes, ListSpelled
<1>2. /\ t \in Seq(Block) /\ Len(t) = Len(c) + 1 /\ t[1] = x /\ Len(c) \in Nat
      /\ \A i \in 1 .. Len(c) : t[i + 1] = c[i]
      /\ \A j \in 2 .. Len(c) + 1 : t[j] = c[j - 1]
  BY <1>0, <1>1, PushList
<1>3. /\ mem'[p].free = x /\ mem'[p].nfree = Len(c) + 1
      /\ mem'[p].used = mem[p].used /\ mem'[p].nblks = mem[p].nblks
      /\ chain'[p] = t
      /\ own'[u] = own[u] \ {<<p, x>>}
      /\ link'[x] = mem[p].free
      /\ \A y \in Block : y # x => link'[y] = link[y]
      /\ \A p2 \in Part : p2 # p => mem'[p2] = mem[p2] /\ chain'[p2] = chain[p2]
      /\ \A v \in User : v # u => own'[v] = own[v]
      /\ UNCHANGED <<pool, half, left>>
  <2>1. mem[p] \in [used : BOOLEAN, free : Block \cup {Null}, nfree : Nat, nblks : Nat]
    BY DEF MemInv, MemTypes
  <2> QED
    BY <1>0, <1>1, <2>1 DEF OSMemPut, MemInv, MemTypes
<1>4. MemTypes'
  <2>1. /\ mem' = [mem EXCEPT ![p] = [mem[p] EXCEPT !.free = x, !.nfree = Len(c) + 1]]
        /\ chain' = [chain EXCEPT ![p] = t]
        /\ own' = [own EXCEPT ![u] = own[u] \ {<<p, x>>}]
        /\ link' = [link EXCEPT ![x] = mem[p].free]
    BY <1>0, <1>1 DEF OSMemPut, MemInv, MemTypes
  <2>2. [mem[p] EXCEPT !.free = x, !.nfree = Len(c) + 1]
          \in [used : BOOLEAN, free : Block \cup {Null}, nfree : Nat, nblks : Nat]
    <3>1. Len(c) + 1 \in Nat
      BY ONLY <1>1
    <3>2. mem[p] \in [used : BOOLEAN, free : Block \cup {Null}, nfree : Nat, nblks : Nat]
      BY ONLY MemInv, p \in Part DEF MemInv, MemTypes
    <3> QED
      BY ONLY <3>1, <3>2, x \in Block, NewRecord
  <2>3. mem' \in [Part -> [used : BOOLEAN, free : Block \cup {Null}, nfree : Nat, nblks : Nat]]
    BY <2>1, <2>2 DEF MemInv, MemTypes
  <2> QED
    BY <1>2, <1>3, <2>1, <2>3 DEF MemInv, MemTypes
<1>5. \A p2 \in Part : mem'[p2].used = mem[p2].used /\ mem'[p2].nblks = mem[p2].nblks
  BY <1>3
<1>6. PartsApart'
  <2>1. \A p2 \in Part : ~ mem[p2].used => p2 # p
    BY <1>1
  <2>2. half \in [User -> {<<>>} \cup (Part \X Area)] /\ pool \subseteq Part
    BY DEF MemInv, MemTypes
  <2>3. \A p2 \in Part, v \in User, y \in Block : <<p2, y>> \in own'[v] => <<p2, y>> \in own[v]
    BY <1>3
  <2> QED
    BY <1>3, <1>5, <2>1, <2>2, <2>3 DEF MemInv, PartsApart
<1>7. Owned(x) /\ ~ Free(x) /\ ~ Raw(x) /\ \A v \in User, p2 \in Part : <<p2, x>> \in own[v] => v = u /\ p2 = p
  BY <1>1 DEF MemInv, Apart, Owned, OwnedOnce
<1>8. ListSpelled'
  <2> SUFFICES ASSUME NEW p2 \in Part, mem'[p2].used
               PROVE  /\ Len(chain'[p2]) = mem'[p2].nfree
                      /\ mem'[p2].free = IF Len(chain'[p2]) = 0 THEN Null ELSE chain'[p2][1]
                      /\ \A i \in 1 .. Len(chain'[p2]) :
                           link'[chain'[p2][i]] = IF i = Len(chain'[p2]) THEN Null ELSE chain'[p2][i + 1]
    BY DEF ListSpelled
  <2>1. \A r \in Part : \A i \in 1 .. Len(chain[r]) : link'[chain[r][i]] = link[chain[r][i]]
    <3>1. \A r \in Part : \A i \in 1 .. Len(chain[r]) : chain[r][i] \in Block
      BY DEF MemInv, MemTypes
    <3> QED
      BY <1>3, <1>7, <3>1 DEF Free
  <2>2. CASE p2 # p
    <3>1. mem'[p2] = mem[p2] /\ chain'[p2] = chain[p2]
      BY ONLY <1>3, <2>2
    <3>2. PICK r, d : r \in Part /\ r = p2 /\ d = chain[r]
      OBVIOUS
    <3>3. mem[r].used
      BY ONLY <3>1, <3>2, mem'[p2].used
    <3>4. /\ Len(d) = mem[r].nfree /\ mem[r].free = IF Len(d) = 0 THEN Null ELSE d[1]
          /\ \A i \in 1 .. Len(d) : link[d[i]] = IF i = Len(d) THEN Null ELSE d[i + 1]
      BY ONLY <3>2, <3>3, MemInv DEF MemInv, ListSpelled
    <3>5. \A i \in 1 .. Len(d) : link'[d[i]] = link[d[i]]
      BY ONLY <2>1, <3>2
    <3>6. chain'[p2] = d /\ mem'[p2] = mem[r]
      BY ONLY <3>1, <3>2
    <3> QED
      BY ONLY <3>4, <3>5, <3>6
  <2>3. CASE p2 = p
    <3>1. mem'[p].nfree = Len(t) /\ mem'[p].free = t[1] /\ Len(t) # 0
      BY <1>2, <1>3
    <3>2. ASSUME NEW i \in 1 .. Len(t)
          PROVE  link'[t[i]] = IF i = Len(t) THEN Null ELSE t[i + 1]
      <4>1. CASE i = 1
        <5>1. link'[t[1]] = IF Len(c) = 0 THEN Null ELSE c[1]
          BY <1>1, <1>2, <1>3
        <5>2. Len(c) # 0 => t[2] = c[1] /\ Len(t) # 1
          BY <1>2
        <5>3. Len(c) = 0 => Len(t) = 1
          BY <1>2
        <5> QED
          BY <4>1, <5>1, <5>2, <5>3
      <4>2. CASE i # 1
        <5>1. PICK k \in 1 .. Len(c) : k = i - 1 /\ i = k + 1
          BY <1>2, <4>2
        <5>2. t[i] = c[k] /\ link'[c[k]] = IF k = Len(c) THEN Null ELSE c[k + 1]
          <6>1. t[i] = c[k]
            BY <1>2, <5>1
          <6>2. link'[c[k]] = link[c[k]]
            BY <1>0, <2>1
          <6>3. link[c[k]] = IF k = Len(c) THEN Null ELSE c[k + 1]
            BY <1>0, <1>1 DEF MemInv, ListSpelled
          <6> QED
            BY <6>1, <6>2, <6>3
        <5>3. k # Len(c) => i # Len(t) /\ t[i + 1] = c[k + 1]
          BY <1>2, <5>1
        <5>4. k = Len(c) => i = Len(t)
          BY <1>2, <5>1
        <5> QED
          BY <5>2, <5>3, <5>4
      <4> QED
        BY <4>1, <4>2
    <3> QED
      BY <1>3, <2>3, <3>1, <3>2
  <2> QED
    BY <2>2, <2>3
\* What is free now is x, or was free one place further in front.
<1>9. ASSUME NEW p2 \in Part, NEW i \in 1 .. Len(chain'[p2])
      PROVE  \/ p2 = p /\ i = 1 /\ chain'[p2][i] = x
             \/ \E k \in 1 .. Len(chain[p2]) : /\ chain'[p2][i] = chain[p2][k]
                                              /\ i = IF p2 = p THEN k + 1 ELSE k
  <2>1. CASE p2 = p /\ i = 1
    BY <1>2, <1>3, <2>1
  <2>2. CASE p2 = p /\ i # 1
    <3>1. PICK k \in 1 .. Len(c) : k = i - 1 /\ i = k + 1 /\ i \in 2 .. Len(c) + 1
      BY <1>2, <1>3, <2>2
    <3>2. chain'[p2][i] = c[k]
      BY <1>2, <1>3, <2>2, <3>1
    <3> QED
      BY <1>0, <2>2, <3>1, <3>2
  <2>3. CASE p2 # p
    BY <1>3, <2>3
  <2> QED
    BY <2>1, <2>2, <2>3
<1>10. FreeOnce'
  <2> SUFFICES ASSUME NEW p2 \in Part, NEW r \in Part, NEW i \in 1 .. Len(chain'[p2]),
                      NEW j \in 1 .. Len(chain'[r]), chain'[p2][i] = chain'[r][j]
               PROVE  p2 = r /\ i = j
    BY DEF FreeOnce
  <2>1. \A s \in Part : \A k \in 1 .. Len(chain[s]) : chain[s][k] # x
    BY <1>7 DEF Free
  <2>2. CASE chain'[p2][i] = x
    <3>1. p2 = p /\ i = 1
      BY <1>9, <2>1, <2>2
    <3>2. chain'[r][j] = x
      BY <2>2
    <3>3. r = p /\ j = 1
      BY <1>9, <2>1, <3>2
    <3> QED
      BY <3>1, <3>3
  <2>3. CASE chain'[p2][i] # x
    <3>1. PICK k \in 1 .. Len(chain[p2]) : chain'[p2][i] = chain[p2][k] /\ i = IF p2 = p THEN k + 1 ELSE k
      BY <1>9, <2>3
    <3>2. PICK l \in 1 .. Len(chain[r]) : chain'[r][j] = chain[r][l] /\ j = IF r = p THEN l + 1 ELSE l
      BY <1>9, <2>3
    <3>3. chain[p2][k] = chain[r][l]
      BY <3>1, <3>2
    <3>4. p2 = r /\ k = l
      BY <3>3 DEF MemInv, FreeOnce
    <3> QED
      BY <3>1, <3>2, <3>4
  <2> QED
    BY <2>2, <2>3
<1>11. OwnedOnce'
  BY <1>3 DEF MemInv, OwnedOnce
<1>12. ASSUME NEW y
       PROVE  /\ Raw(y)' <=> Raw(y)
              /\ Free(y)' <=> Free(y) \/ y = x
              /\ Owned(y)' => Owned(y) /\ y # x
              /\ Owned(y) => Owned(y)' \/ y = x
  <2>1. Raw(y)' <=> Raw(y)
    BY <1>3 DEF Raw
  <2>2. Free(y)' => Free(y) \/ y = x
    BY <1>9 DEF Free
  <2>3. Free(y) => Free(y)'
    <3> SUFFICES ASSUME Free(y) PROVE Free(y)'
      OBVIOUS
    <3>1p. PICK p2 \in Part : \E i \in 1 .. Len(chain[p2]) : chain[p2][i] = y
      BY DEF Free
    <3>1. PICK i \in 1 .. Len(chain[p2]) : chain[p2][i] = y
      BY <3>1p
    <3>2. CASE p2 = p
      <4>1. i + 1 \in 1 .. Len(t) /\ t[i + 1] = y
        BY <1>0, <1>2, <3>1, <3>2
      <4> QED
        BY <1>3, <4>1 DEF Free
    <3>3. CASE p2 # p
      BY <1>3, <3>1, <3>3 DEF Free
    <3> QED
      BY <3>2, <3>3
  <2>4. Free(x)'
    <3>1. 1 \in 1 .. Len(t) /\ t[1] = x
      BY <1>2
    <3> QED
      BY <1>3, <3>1 DEF Free
  <2>5. (Owned(y)' => Owned(y) /\ y # x) /\ (Owned(y) => Owned(y)' \/ y = x)
    BY <1>3, <1>7 DEF Owned
  <2> QED
    BY <2>1, <2>2, <2>3, <2>4, <2>5
<1>13. Apart' /\ Nowhere'
  BY <1>7, <1>12 DEF MemInv, Apart, Nowhere
<1>14. FromOneArea'
  <2> SUFFICES ASSUME NEW p2 \in Part, mem'[p2].used PROVE \E b \in Area : BlocksOfPart(p2, b)'
    BY DEF FromOneArea
  <2>1. PICK b \in Area : BlocksOfPart(p2, b)
    BY <1>5 DEF MemInv, FromOneArea
  <2>2. p2 = p => x \in BlocksOf(b)
    BY <1>1, <2>1 DEF BlocksOfPart
  <2>3. \A i \in 1 .. Len(chain'[p2]) : chain'[p2][i] \in BlocksOf(b)
    BY <1>9, <2>1, <2>2 DEF BlocksOfPart
  <2>4. BlocksOfPart(p2, b)'
    BY <1>3, <1>5, <2>1, <2>3 DEF BlocksOfPart
  <2> QED
    BY <2>4
<1> QED
  BY <1>4, <1>6, <1>8, <1>10, <1>11, <1>13, <1>14 DEF MemInv

-----------------------------------------------------------------------------
LEMMA MemStep == MemInv /\ [MemNext]_mvars => MemInv'
<1> SUFFICES ASSUME MemInv, [MemNext]_mvars PROVE MemInv'
  OBVIOUS
<1>1. CASE UNCHANGED mvars
  <2> USE <1>1 DEF mvars
  <2>1. MemTypes' /\ PartsApart' /\ ListSpelled' /\ FreeOnce' /\ OwnedOnce'
    BY DEF MemInv, MemTypes, PartsApart, ListSpelled, FreeOnce, OwnedOnce
  <2>2. Apart' /\ Nowhere'
    BY DEF MemInv, Apart, Nowhere, Free, Owned, Raw
  <2>3. FromOneArea'
    BY DEF MemInv, FromOneArea, BlocksOfPart
  <2> QED
    BY <2>1, <2>2, <2>3 DEF MemInv
<1>2. CASE MemNext
  BY <1>2, CreateStep, BuildStep, GetStep, WriteStep, PutStep DEF MemNext
<1> QED
  BY <1>1, <1>2

\* What is in one place at most has cardinality one at most.
LEMMA AtMostOne ==
  ASSUME NEW S, \A a, b \in S : a = b
  PROVE  IsFiniteSet(S) /\ Cardinality(S) \in {0, 1} /\ (Cardinality(S) = 1 => S # {})
<1>1. CASE S = {}
  BY <1>1, FS_EmptySet
<1>2. CASE S # {}
  <2>1. PICK e : S = {e}
    BY <1>2
  <2> QED
    BY <2>1, FS_Singleton
<1> QED
  BY <1>1, <1>2

LEMMA InvMeansOnePlace == ASSUME MemInv PROVE BlockInOnePlace
<1> SUFFICES ASSUME NEW x \in Block
             PROVE  LET free  == UNION {{<<p, i>> : i \in {j \in DOMAIN chain[p] : chain[p][j] = x}} : p \in Part}
                        owned == {w \in User \X Part : <<w[2], x>> \in own[w[1]]}
                        raw   == {a \in left : x \in BlocksOf(a)}
                                   \cup {u \in User : half[u] # <<>> /\ x \in BlocksOf(half[u][2])}
                    IN /\ Cardinality(free) + Cardinality(owned) + Cardinality(raw) <= 1
                       /\ x \in UNION {BlocksOf(a) : a \in Area} => free \cup owned \cup raw # {}
  BY DEF BlockInOnePlace
<1> DEFINE free  == UNION {{<<p, i>> : i \in {j \in DOMAIN chain[p] : chain[p][j] = x}} : p \in Part}
           owned == {w \in User \X Part : <<w[2], x>> \in own[w[1]]}
           rawA  == {a \in left : x \in BlocksOf(a)}
           rawU  == {u \in User : half[u] # <<>> /\ x \in BlocksOf(half[u][2])}
           raw   == rawA \cup rawU
<1>1. \A p \in Part : DOMAIN chain[p] = 1 .. Len(chain[p])
  BY DEF MemInv, MemTypes
<1>2. /\ \A e \in free : \E p \in Part : \E i \in 1 .. Len(chain[p]) : e = <<p, i>> /\ chain[p][i] = x
      /\ \A p \in Part : \A i \in 1 .. Len(chain[p]) : chain[p][i] = x => <<p, i>> \in free
  BY <1>1
<1>3. /\ \A e \in owned : \E u \in User, p \in Part : e = <<u, p>> /\ <<p, x>> \in own[u]
      /\ \A u \in User, p \in Part : <<p, x>> \in own[u] => <<u, p>> \in owned
  OBVIOUS
<1> HIDE DEF free, owned
<1>4. (free # {} <=> Free(x)) /\ (owned # {} <=> Owned(x)) /\ (raw # {} <=> Raw(x))
  BY <1>2, <1>3 DEF Free, Owned, Raw
<1>5. \A a, b \in free : a = b
  BY <1>2 DEF MemInv, FreeOnce
<1>6. \A a, b \in owned : a = b
  BY <1>3 DEF MemInv, OwnedOnce
<1>7. IsFiniteSet(raw) /\ Cardinality(raw) \in {0, 1} /\ (Cardinality(raw) = 1 => raw # {})
  <2>1. ASSUME NEW a \in rawA, NEW b \in rawA PROVE a = b
    BY AreaFacts DEF MemInv, MemTypes
  <2>2. ASSUME NEW a \in rawA, NEW u \in rawU PROVE FALSE
    <3>1. a \in left /\ a \in Area /\ half[u] # <<>> /\ half[u][2] \in Area /\ half[u][2] \notin left
      BY DEF MemInv, MemTypes, PartsApart
    <3> QED
      BY <3>1, AreaFacts
  <2>3. ASSUME NEW u \in rawU, NEW v \in rawU PROVE u = v
    <3>1. half[u] # <<>> /\ half[u][2] \in Area /\ half[v] # <<>> /\ half[v][2] \in Area
      BY DEF MemInv, MemTypes
    <3>2. half[u][2] = half[v][2]
      BY <3>1, AreaFacts
    <3> QED
      BY <3>1, <3>2 DEF MemInv, PartsApart
  <2>4. \A a, b \in raw : a = b
    BY <2>1, <2>2, <2>3
  <2> QED
    BY <2>4, AtMostOne
<1>8. /\ Cardinality(free) \in {0, 1} /\ (Cardinality(free) = 1 => Free(x))
      /\ Cardinality(owned) \in {0, 1} /\ (Cardinality(owned) = 1 => Owned(x))
      /\ Cardinality(raw) \in {0, 1} /\ (Cardinality(raw) = 1 => Raw(x))
  BY <1>4, <1>5, <1>6, <1>7, AtMostOne
<1>9. ~ (Free(x) /\ Owned(x)) /\ ~ (Raw(x) /\ Free(x)) /\ ~ (Raw(x) /\ Owned(x))
  BY DEF MemInv, Apart
<1>10. Cardinality(free) + Cardinality(owned) + Cardinality(raw) <= 1
  BY <1>8, <1>9
<1>11. x \in UNION {BlocksOf(a) : a \in Area} => Free(x) \/ Owned(x) \/ Raw(x)
  BY DEF MemInv, Nowhere
<1> HIDE DEF raw
<1>12. x \in UNION {BlocksOf(a) : a \in Area} => free \cup owned \cup raw # {}
  BY <1>4, <1>11
<1> QED
  BY <1>10, <1>12 DEF free, owned, raw

\* A partition keeps its blocks, whoever takes, fills and returns them.
THEOREM PartitionsKept == MemSpec => []PartitionsExact
<1>1. MemInv => PartitionsExact
  <2> SUFFICES ASSUME MemInv PROVE PartitionsExact
    OBVIOUS
  <2>1. \A u \in User : \A b \in own[u] : mem[b[1]].nfree < mem[b[1]].nblks
    <3> SUFFICES ASSUME NEW u \in User, NEW b \in own[u] PROVE mem[b[1]].nfree < mem[b[1]].nblks
      OBVIOUS
    <3>1. PICK p \in Part, x \in Block : b = <<p, x>>
      BY DEF MemInv, MemTypes
    <3> QED
      BY <3>1, OutMeansRoom DEF MemInv
  <2> QED
    BY <2>1, InvMeansOnePlace DEF MemInv, PartitionsExact
<1> QED
  BY <1>1, MemStart, MemStep, PTL DEF MemSpec
-----------------------------------------------------------------------------
(***************************************************************************)
(* That the locks of newlib admit one task at a time and count its calls,  *)
(* for every set of tasks and however deep the calls of __malloc_lock nest.*)
(* The calls of __env_lock do not nest: its owner would not know itself    *)
(* (OwnerNeverWaits).                                                      *)
(***************************************************************************)

LockPlaces == {"runs", "test", "waits", "claim", "post"}

LockTypes ==
  /\ lock \in {"heap", "env"}
  /\ OSEventCnt \in {0, 1} /\ waiting \subseteq Task
  /\ lockid \in Task \cup {-1} /\ locks \in Nat
  /\ lpc \in [Task -> LockPlaces]
  /\ semdata \in [Task -> [cnt : {0, 1}, grp : BOOLEAN]]
  /\ depth \in [Task -> Nat]

\* The unit is gone with a task that owns the lock, is about to, or is about to
\* give the unit back.
Holds(t) == depth[t] > 0 \/ lpc[t] \in {"claim", "post"}

OneHolds == /\ \A t, u \in Task : Holds(t) /\ Holds(u) => t = u
            /\ \A t \in Task : Holds(t) => OSEventCnt = 0

OwnerIsNamed ==
  /\ \A t \in Task : depth[t] > 0 => locks = depth[t] /\ lockid = t /\ lpc[t] \in {"runs", "test"}
  /\ \A t \in Task : lockid = t => depth[t] > 0

\* The owner's copy of the semaphore says that no unit is left.
OwnerKnows ==
  \A t \in Task : depth[t] > 0 /\ lpc[t] = "test" => lock = "heap" /\ semdata[t].cnt = 0

ListsWaiting == \A t \in Task : t \in waiting <=> lpc[t] = "waits"

LockInv == LockTypes /\ OneHolds /\ OwnerIsNamed /\ OwnerKnows /\ ListsWaiting

LEMMA LockInit == NewlibInit => LockInv
  BY NewlibAssumption DEF NewlibInit, LockInv, LockTypes, LockPlaces, Holds, OneHolds, OwnerIsNamed, OwnerKnows, ListsWaiting, NoCopy

\* What a step of t leaves alone.
OthersKeep(t) == \A u \in Task \ {t} :
  lpc'[u] = lpc[u] /\ depth'[u] = depth[u] /\ semdata'[u] = semdata[u]

LEMMA LockStep ==
  ASSUME EnvNests = 1, LockInv, [NewlibNext]_nvars
  PROVE  LockInv'
  <1> USE NewlibAssumption DEF LockInv
  <1>1. CASE UNCHANGED nvars
    BY <1>1 DEF nvars, LockTypes, Holds, OneHolds, OwnerIsNamed, OwnerKnows, ListsWaiting
  <1>2. ASSUME NEW t \in Task, Query(t)
        PROVE  LockInv'
    <2>1. /\ lpc[t] = "runs" /\ lpc'[t] = "test" /\ depth' = depth
          /\ semdata'[t].cnt = OSEventCnt
          /\ OthersKeep(t) /\ UNCHANGED <<lock, OSEventCnt, waiting, lockid, locks>>
      BY <1>2 DEF Query, Step, LockTypes, OthersKeep
    <2>2. depth[t] > 0 => lock = "heap"
      <3>1. depth[t] \in Nat /\ depth[t] < Nests /\ lock \in {"heap", "env"}
        BY ONLY <1>2, LockTypes DEF Query, LockTypes
      <3>2. lock = "env" => Nests = 1
        BY ONLY EnvNests = 1 DEF Nests
      <3> QED
        BY ONLY <3>1, <3>2
    <2>3. LockTypes'
      BY <1>2 DEF Query, Step, LockTypes, LockPlaces
    <2>4. OneHolds' /\ OwnerIsNamed' /\ OwnerKnows' /\ ListsWaiting'
      BY <2>1, <2>2, <2>3 DEF OthersKeep, LockTypes, Holds, OneHolds, OwnerIsNamed, OwnerKnows, ListsWaiting
    <2> QED
      BY <2>3, <2>4
  <1>3. ASSUME NEW t \in Task, Recurse(t)
        PROVE  LockInv'
    <2>1. /\ lpc[t] = "test" /\ lpc'[t] = "runs" /\ lockid = t
          /\ depth'[t] = depth[t] + 1 /\ locks' = locks + 1
          /\ OthersKeep(t) /\ UNCHANGED <<lock, OSEventCnt, waiting, lockid>>
      BY <1>3 DEF Recurse, OwnsAlready, Step, Forget, LockTypes, OthersKeep
    <2>2. LockTypes'
      BY <1>3 DEF Recurse, Step, Forget, NoCopy, LockTypes, LockPlaces
    <2>3. depth[t] > 0 /\ locks = depth[t]
      BY <2>1 DEF OwnerIsNamed
    <2>4. OneHolds' /\ OwnerIsNamed' /\ OwnerKnows' /\ ListsWaiting'
      BY <2>1, <2>2, <2>3 DEF OthersKeep, LockTypes, Holds, OneHolds, OwnerIsNamed, OwnerKnows, ListsWaiting
    <2> QED
      BY <2>2, <2>4
  <1>4. ASSUME NEW t \in Task, OSSemPend(t)
        PROVE  LockInv'
    <2>1. /\ lpc[t] = "test" /\ depth' = depth /\ UNCHANGED <<lock, lockid, locks>> /\ OthersKeep(t)
          /\ \/ /\ OSEventCnt = 1 /\ OSEventCnt' = 0 /\ lpc'[t] = "claim" /\ waiting' = waiting
             \/ /\ OSEventCnt' = OSEventCnt /\ lpc'[t] = "waits" /\ waiting' = waiting \cup {t}
      BY <1>4 DEF OSSemPend, Step, Forget, LockTypes, OthersKeep
    <2>2. LockTypes'
      <3>1. lpc' = [lpc EXCEPT ![t] = "claim"] \/ lpc' = [lpc EXCEPT ![t] = "waits"]
        BY <1>4 DEF OSSemPend, Step
      <3>2. semdata' \in [Task -> [cnt : {0, 1}, grp : BOOLEAN]]
        BY <1>4 DEF OSSemPend, Forget, NoCopy, LockTypes
      <3> QED
        BY <2>1, <3>1, <3>2 DEF LockTypes, LockPlaces
    <2>3. depth[t] = 0
      <3>1. SUFFICES ASSUME depth[t] > 0 PROVE FALSE
        BY DEF LockTypes
      <3>2. OwnsAlready(t)
        BY <2>1, <3>1 DEF OwnerIsNamed, OwnerKnows, OwnsAlready
      <3> QED
        BY <1>4, <3>2 DEF OSSemPend
    <2>4. OneHolds' /\ OwnerIsNamed' /\ OwnerKnows' /\ ListsWaiting'
      BY <2>1, <2>2, <2>3 DEF OthersKeep, LockTypes, Holds, OneHolds, OwnerIsNamed, OwnerKnows, ListsWaiting
    <2> QED
      BY <2>2, <2>4
  <1>5. ASSUME NEW t \in Task, Claim(t)
        PROVE  LockInv'
    <2>1. /\ lpc[t] = "claim" /\ lpc'[t] = "runs" /\ locks' = 1 /\ lockid' = t
          /\ depth'[t] = depth[t] + 1
          /\ OthersKeep(t) /\ UNCHANGED <<lock, OSEventCnt, waiting>>
      BY <1>5 DEF Claim, Step, LockTypes, OthersKeep
    <2>2. LockTypes'
      BY <1>5 DEF Claim, Step, LockTypes, LockPlaces
    <2>3. Holds(t) /\ depth[t] = 0
      BY <2>1 DEF LockTypes, Holds, OwnerIsNamed
    <2>4. OneHolds' /\ OwnerIsNamed' /\ OwnerKnows' /\ ListsWaiting'
      BY <2>1, <2>2, <2>3 DEF OthersKeep, LockTypes, Holds, OneHolds, OwnerIsNamed, OwnerKnows, ListsWaiting
    <2> QED
      BY <2>2, <2>4
  <1>6. ASSUME NEW t \in Task, Unlock(t)
        PROVE  LockInv'
    <2>1. /\ lpc[t] = "runs" /\ depth[t] > 0 /\ depth'[t] = depth[t] - 1
          /\ locks = depth[t] /\ lockid = t /\ locks' = locks - 1
          /\ OthersKeep(t) /\ UNCHANGED <<lock, OSEventCnt, waiting>>
      BY <1>6 DEF Unlock, Step, LockTypes, OwnerIsNamed, OthersKeep
    <2>2. \/ locks = 1 /\ lockid' = -1 /\ lpc'[t] = "post"
          \/ locks > 1 /\ lockid' = t /\ lpc'[t] = "runs"
      BY <1>6, <2>1 DEF Unlock, Step, LockTypes
    <2>3. LockTypes'
      <3>1. lpc' \in [Task -> LockPlaces] /\ depth' \in [Task -> Nat]
        BY <1>6, <2>1 DEF Unlock, Step, LockTypes, LockPlaces
      <3> QED
        BY <1>6, <2>1, <2>2, <3>1 DEF Unlock, LockTypes
    <2>4. OneHolds' /\ OwnerIsNamed' /\ OwnerKnows' /\ ListsWaiting'
      BY <2>1, <2>2, <2>3 DEF OthersKeep, LockTypes, Holds, OneHolds, OwnerIsNamed, OwnerKnows, ListsWaiting
    <2> QED
      BY <2>3, <2>4
  <1>7. ASSUME NEW t \in Task, OSSemPost(t)
        PROVE  LockInv'
    <2>1. /\ lpc[t] = "post" /\ depth' = depth /\ UNCHANGED <<lock, lockid, locks, semdata>>
          /\ depth[t] = 0 /\ OSEventCnt = 0
      BY <1>7 DEF OSSemPost, LockTypes, OwnerIsNamed, OneHolds, Holds
    <2>2. CASE waiting = {}
      <3>1. lpc' = [lpc EXCEPT ![t] = "runs"] /\ OSEventCnt' = 1 /\ waiting' = waiting
        BY <1>7, <2>1, <2>2 DEF OSSemPost
      <3>2. LockTypes'
        BY <2>1, <3>1 DEF LockTypes, LockPlaces
      <3> QED
        BY <2>1, <3>1, <3>2 DEF LockTypes, Holds, OneHolds, OwnerIsNamed, OwnerKnows, ListsWaiting
    <2>3. CASE waiting # {}
      <3>1. PICK w \in waiting : /\ waiting' = waiting \ {w} /\ OSEventCnt' = OSEventCnt
                                 /\ lpc' = [lpc EXCEPT ![t] = "runs", ![w] = "claim"]
        BY <1>7, <2>3 DEF OSSemPost
      <3>2. w \in Task /\ w # t /\ lpc[w] = "waits" /\ depth[w] = 0
        BY <2>1 DEF LockTypes, ListsWaiting, OwnerIsNamed
      <3>3. LockTypes'
        BY <2>1, <3>1, <3>2 DEF LockTypes, LockPlaces
      <3> QED
        BY <2>1, <3>1, <3>2, <3>3 DEF LockTypes, Holds, OneHolds, OwnerIsNamed, OwnerKnows, ListsWaiting
    <2> QED
      BY <2>2, <2>3
  <1> QED
    BY <1>1, <1>2, <1>3, <1>4, <1>5, <1>6, <1>7 DEF NewlibNext

\* One task at a time is between lock and unlock, its calls are counted and it
\* does not wait for itself.
THEOREM LocksHold ==
  ASSUME EnvNests = 1
  PROVE  NewlibSpec => []LocksExact
  <1>1. NewlibInit => LockInv
    BY LockInit
  <1>2. LockInv /\ [NewlibNext]_nvars => LockInv'
    BY LockStep
  <1>3. LockInv => LocksExact
    BY DEF LockInv, LockTypes, Holds, OneHolds, OwnerIsNamed, ListsWaiting, LocksExact
  <1> QED
    BY <1>1, <1>2, <1>3, PTL DEF NewlibSpec
-----------------------------------------------------------------------------
(***************************************************************************)
(* That a descriptor has one holder, a device at most one lock, and no     *)
(* open gets past a lock that was there before it, for any number of       *)
(* tasks, devices and descriptors.  alt_open and alt_release_fd do not     *)
(* take the semaphore of alt_get_fd and alt_fd_lock; what saves them is    *)
(* that a row alt_get_fd has taken is seen by every later search for a     *)
(* lock, and a lock by every open that has not come past its row.          *)
(***************************************************************************)

FilePlaces == {"idle", "get_fd", "search", "got", "flags", "check", "release", "released",
           "fd_lock", "others", "asked"}
Opening   == {"got", "flags", "check"}              \* open has its row
Held      == {"got", "flags", "check", "release", "released"}
InSection == {"search", "got", "others", "asked"}   \* alt_fd_list_lock is held

Excl(f)   == "EXCL" \in fd_flags[f]
Has(t, f) == f \in opened[t] \/ (call[t].fd = f /\ call[t].at \in Held)

CallType == [Caller -> [at : FilePlaces, fd : Fd \cup {-1}, dev : Device \cup {NoDev}, row : Nat]]

FileTypes ==
  /\ dev \in [Fd -> Device \cup {NoDev}]
  /\ fd_flags \in [Fd -> SUBSET {"DEV", "EXCL"}]
  /\ alt_max_fd \in Fd /\ alt_fd_list_lock \in {0, 1}
  /\ call \in CallType
  /\ opened \in [Caller -> SUBSET Fd] /\ locked \in [Caller -> SUBSET Fd]
  /\ against \in [Caller -> SUBSET Fd]

\* The semaphore admits one task.
Section ==
  /\ \A t \in Caller : call[t].at \in InSection => alt_fd_list_lock = 0
  /\ \A t, u \in Caller : call[t].at \in InSection /\ call[u].at \in InSection => t = u

\* What a call works with.
CallOk(t) ==
  /\ call[t].at \in {"flags", "check", "release", "released"} => call[t].fd \in Fd
  /\ call[t].at \in {"get_fd", "search", "got", "flags", "check"} => call[t].dev \in Device
  /\ call[t].at \in Opening /\ call[t].fd \in Fd => dev[call[t].fd] = call[t].dev
  /\ call[t].at \in {"fd_lock", "others"} => call[t].fd \in opened[t]
  /\ call[t].at \in Held => call[t].fd \notin opened[t]
  /\ call[t].at \in {"idle", "get_fd", "search"} => call[t].fd = -1

\* A row in use has a device and one holder.
Holders ==
  /\ \A t \in Caller, f \in Fd : Has(t, f) => dev[f] \in Device /\ f <= alt_max_fd /\ f >= Std
  /\ \A t, u \in Caller, f \in Fd : Has(t, f) /\ Has(u, f) => t = u

\* The exclusive mark is its holder's, until the row is released.
MarkOk(t) ==
  /\ locked[t] = {f \in opened[t] : Excl(f)}
  /\ call[t].at \in {"got", "flags", "check", "released"} /\ call[t].fd \in Fd => ~ Excl(call[t].fd)

MarksInUse == \A f \in Fd : Excl(f) => dev[f] \in Device /\ f <= alt_max_fd

\* How far the searches of alt_fd_lock and alt_file_locked have come.
SearchOk(t) ==
  /\ call[t].at = "others" =>
       \A j \in Fd : j < call[t].row /\ j # call[t].fd => dev[j] # dev[call[t].fd]
  /\ call[t].at = "check" =>
       \A m \in Fd : Excl(m) /\ call[t].fd < m /\ dev[m] = dev[call[t].fd] => call[t].row <= m

\* A lock is the only one of its device, and no row below it is open.
Exclusive ==
  \A m, f \in Fd : Excl(m) /\ f # m /\ dev[f] = dev[m] =>
    /\ ~ Excl(f)
    /\ f < m => \A t \in Caller : f \notin opened[t]

\* A lock that was there before open is one of its device, and still ahead.
AheadOk(t) ==
  call[t].at \in {"get_fd", "search", "got", "flags", "check"} =>
    \A f \in against[t] : /\ Excl(f) /\ dev[f] = call[t].dev
                          /\ call[t].at = "check" => call[t].row <= f

\* The standard streams are never free.
StdInUse == \A f \in Fd : f < Std => dev[f] \in Device

TaskOk(t) == CallOk(t) /\ MarkOk(t) /\ SearchOk(t) /\ AheadOk(t)

FileInv == /\ FileTypes /\ Section /\ Holders /\ StdInUse /\ MarksInUse /\ Exclusive
           /\ \A t \in Caller : TaskOk(t)
-----------------------------------------------------------------------------
LEMMA FdInt == \A f \in Fd : f \in Int /\ f >= 0
  BY FilesAssumption DEF Fd

LEMMA FileInit == FilesInit => FileInv
  <1> SUFFICES ASSUME FilesInit PROVE FileInv
    OBVIOUS
  <1>1. FileTypes
    BY FilesAssumption DEF FilesInit, NoCall, Fd, FileTypes, CallType, FilePlaces
  <1>2. \A t \in Caller : call[t].at = "idle" /\ call[t].fd = -1 /\ opened[t] = {} /\ locked[t] = {} /\ against[t] = {}
    BY DEF FilesInit, NoCall
  <1>3. \A f \in Fd : "EXCL" \notin fd_flags[f]
    BY DEF FilesInit
  <1>4. StdInUse
    BY FilesAssumption DEF FilesInit, StdInUse
  <1> QED
    BY <1>1, <1>2, <1>3, <1>4 DEF FileInv, Section, TaskOk, CallOk, Holders, MarkOk, MarksInUse, SearchOk, Exclusive, AheadOk,
                            Opening, Held, InSection, Excl, Has

\* What a step of t does to the calls.
CallBecomes(t, a, f, d, r) ==
  /\ call' \in CallType
  /\ call'[t].at = a /\ call'[t].fd = f /\ call'[t].dev = d /\ call'[t].row = r
  /\ \A u \in Caller \ {t} : call'[u] = call[u]

LEMMA GotoDoes ==
  ASSUME FileTypes, NEW t \in Caller, NEW p \in FilePlaces, Goto(t, p)
  PROVE  CallBecomes(t, p, call[t].fd, call[t].dev, 0)
  <1>1. call \in CallType
    BY DEF FileTypes
  <1> QED
    BY <1>1 DEF Goto, CallType, CallBecomes

LEMMA EndsDoes ==
  ASSUME FileTypes, NEW t \in Caller, Ends(t)
  PROVE  CallBecomes(t, "idle", -1, NoDev, 0)
  <1>1. call \in CallType
    BY DEF FileTypes
  <1> QED
    BY <1>1 DEF Ends, NoCall, CallType, CallBecomes, FilePlaces

LEMMA NextRowDoes ==
  ASSUME FileTypes, NEW t \in Caller, NextRow(t)
  PROVE  CallBecomes(t, call[t].at, call[t].fd, call[t].dev, call[t].row + 1)
  <1>1. call \in CallType
    BY DEF FileTypes
  <1> QED
    BY <1>1 DEF NextRow, CallType, CallBecomes

LEMMA TakesDoes ==
  ASSUME FileTypes, NEW t \in Caller, NEW p \in FilePlaces, NEW f \in Fd,
         call' = [call EXCEPT ![t].at = p, ![t].fd = f]
  PROVE  CallBecomes(t, p, f, call[t].dev, call[t].row)
  <1>1. call \in CallType
    BY DEF FileTypes
  <1> QED
    BY <1>1 DEF CallType, CallBecomes

LEMMA AsksDoes ==
  ASSUME FileTypes, NEW t \in Caller, NEW d \in Device,
         call' = [call EXCEPT ![t].at = "get_fd", ![t].dev = d]
  PROVE  CallBecomes(t, "get_fd", call[t].fd, d, call[t].row)
  <1>1. call \in CallType
    BY DEF FileTypes
  <1> QED
    BY <1>1 DEF CallType, CallBecomes, FilePlaces
-----------------------------------------------------------------------------
\* A step that moves one call on and touches no row.
LEMMA CallKeeps ==
  ASSUME FileInv, NEW t \in Caller, NEW a, NEW f, NEW d, NEW r, CallBecomes(t, a, f, d, r),
         alt_fd_list_lock' \in {0, 1}, Section', TaskOk(t)',
         a \in Held /\ f \in Fd => call[t].at \in Held /\ call[t].fd = f,
         against' \in [Caller -> SUBSET Fd],
         \A u \in Caller \ {t} : against'[u] = against[u],
         UNCHANGED <<dev, fd_flags, alt_max_fd, opened, locked>>
  PROVE  FileInv'
  <1> USE DEF FileInv, CallBecomes
  <1>1. FileTypes'
    BY DEF FileTypes
  <1>2. Holders'
    <2>1. \A u \in Caller, g \in Fd : Has(u, g)' => Has(u, g)
      BY DEF Has
    <2> QED
      BY <2>1 DEF Holders
  <1>3. MarksInUse' /\ StdInUse' /\ Exclusive'
    BY DEF StdInUse, MarksInUse, Exclusive, Excl
  <1>4. ASSUME NEW u \in Caller \ {t}
        PROVE  TaskOk(u)'
    <2>1. TaskOk(u) /\ call'[u] = call[u] /\ against'[u] = against[u]
      OBVIOUS
    <2> QED
      BY <2>1 DEF TaskOk, CallOk, MarkOk, SearchOk, AheadOk, Excl
  <1> QED
    BY <1>1, <1>2, <1>3, <1>4

\* Section stays true for a task that takes, keeps or gives back the semaphore.
LEMMA SectionKeeps ==
  ASSUME Section, NEW t \in Caller, NEW a, NEW f, NEW d, NEW r, CallBecomes(t, a, f, d, r),
         \/ alt_fd_list_lock = 1 /\ alt_fd_list_lock' = 0
         \/ call[t].at \in InSection /\ alt_fd_list_lock' = 1 /\ a \notin InSection
         \/ UNCHANGED alt_fd_list_lock /\ (a \in InSection => call[t].at \in InSection)
  PROVE  Section'
  BY DEF Section, CallBecomes
-----------------------------------------------------------------------------
LEMMA OpenKeeps ==
  ASSUME FileInv, NEW t \in Caller, Open(t)
  PROVE  FileInv'
  <1>1. PICK d \in Device : /\ call[t].at = "idle"
                            /\ call' = [call EXCEPT ![t].at = "get_fd", ![t].dev = d]
                            /\ against' = [against EXCEPT ![t] = LocksOn(d)]
                            /\ UNCHANGED <<dev, fd_flags, alt_max_fd, alt_fd_list_lock, opened, locked>>
    BY DEF Open, At
  <1>2. CallBecomes(t, "get_fd", call[t].fd, d, call[t].row)
    BY <1>1, AsksDoes DEF FileInv
  <1>3. /\ \A f \in against'[t] : Excl(f) /\ dev[f] = d
        /\ \A u \in Caller \ {t} : against'[u] = against[u]
        /\ against' \in [Caller -> SUBSET Fd]
    BY <1>1 DEF LocksOn, Excl, FileInv, FileTypes
  <1>4. UNCHANGED <<dev, fd_flags, alt_max_fd, alt_fd_list_lock, opened, locked>>
    BY <1>1
  <1>5. Section'
    BY <1>2, <1>4, SectionKeeps DEF FileInv, InSection
  <1>6. call[t].fd = -1
    BY <1>1 DEF FileInv, TaskOk, CallOk
  <1>7. TaskOk(t)'
    BY <1>2, <1>3, <1>4, <1>6 DEF FileInv, CallBecomes, TaskOk, CallOk, MarkOk, SearchOk, AheadOk, Excl, Opening, Held
  <1> QED
    BY <1>2, <1>3, <1>4, <1>5, <1>7, CallKeeps DEF Held, FileInv, FileTypes

LEMMA PendKeeps ==
  ASSUME FileInv, NEW t \in Caller,
         Pend(t, "get_fd", "search") \/ Pend(t, "fd_lock", "others")
  PROVE  FileInv'
  <1>1. CASE Pend(t, "get_fd", "search")
    <2>1. /\ call[t].at = "get_fd" /\ alt_fd_list_lock = 1 /\ alt_fd_list_lock' = 0
          /\ UNCHANGED <<dev, fd_flags, alt_max_fd, opened, locked, against>>
      BY <1>1 DEF Pend, At
    <2>2. CallBecomes(t, "search", call[t].fd, call[t].dev, 0)
      BY <1>1, GotoDoes DEF Pend, FilePlaces, FileInv
    <2>3. Section'
      BY <2>1, <2>2, SectionKeeps DEF FileInv
    <2>4. TaskOk(t)'
      BY <2>1, <2>2, FdInt DEF FileInv, CallBecomes, TaskOk, CallOk, MarkOk, SearchOk, AheadOk, Excl, Opening, Held
    <2> QED
      BY <2>1, <2>2, <2>3, <2>4, CallKeeps DEF Held, FileInv, FileTypes
  <1>2. CASE Pend(t, "fd_lock", "others")
    <2>1. /\ call[t].at = "fd_lock" /\ alt_fd_list_lock = 1 /\ alt_fd_list_lock' = 0
          /\ UNCHANGED <<dev, fd_flags, alt_max_fd, opened, locked, against>>
      BY <1>2 DEF Pend, At
    <2>2. CallBecomes(t, "others", call[t].fd, call[t].dev, 0)
      BY <1>2, GotoDoes DEF Pend, FilePlaces, FileInv
    <2>3. Section'
      BY <2>1, <2>2, SectionKeeps DEF FileInv
    <2>4. TaskOk(t)'
      BY <2>1, <2>2, FdInt DEF FileInv, CallBecomes, TaskOk, CallOk, MarkOk, SearchOk, AheadOk, Excl, Opening, Held
    <2> QED
      BY <2>1, <2>2, <2>3, <2>4, CallKeeps DEF Held, FileInv, FileTypes
  <1> QED
    BY <1>1, <1>2

LEMMA GotKeeps ==
  ASSUME FileInv, NEW t \in Caller, Got(t)
  PROVE  FileInv'
  <1>1. /\ call[t].at = "got" /\ alt_fd_list_lock' = 1
        /\ UNCHANGED <<dev, fd_flags, alt_max_fd, opened, locked, against>>
    BY DEF Got, At
  <1>2. call[t].fd \in Fd \cup {-1}
    BY DEF FileInv, FileTypes, CallType
  <1>3. CASE call[t].fd < 0
    <2>1. CallBecomes(t, "idle", -1, NoDev, 0)
      BY <1>3, EndsDoes DEF Got, FileInv
    <2>2. Section'
      BY <1>1, <2>1, SectionKeeps DEF FileInv, InSection
    <2>3. TaskOk(t)'
      BY <1>1, <2>1 DEF FileInv, CallBecomes, TaskOk, CallOk, MarkOk, SearchOk, AheadOk, Excl, Opening, Held
    <2> QED
      BY <1>1, <2>1, <2>2, <2>3, CallKeeps DEF Held, FileInv, FileTypes
  <1>4. CASE ~ call[t].fd < 0
    <2>1. CallBecomes(t, "flags", call[t].fd, call[t].dev, 0)
      BY <1>4, GotoDoes DEF Got, FileInv, FilePlaces
    <2>2. Section'
      BY <1>1, <2>1, SectionKeeps DEF FileInv, InSection
    <2>3. call[t].fd \in Fd
      BY <1>2, <1>4
    <2>4. TaskOk(t)'
      BY <1>1, <2>1, <2>3 DEF FileInv, CallBecomes, TaskOk, CallOk, MarkOk, SearchOk, AheadOk, Excl, Opening, Held
    <2> QED
      BY <1>1, <2>1, <2>2, <2>4, CallKeeps DEF Held, FileInv, FileTypes
  <1> QED
    BY <1>3, <1>4

LEMMA ExcludeKeeps ==
  ASSUME FileInv, NEW t \in Caller, Exclude(t)
  PROVE  FileInv'
  <1>1. PICK f \in opened[t] : call' = [call EXCEPT ![t].at = "fd_lock", ![t].fd = f]
    BY DEF Exclude
  <1>2. /\ call[t].at = "idle" /\ f \in Fd
        /\ UNCHANGED <<dev, fd_flags, alt_max_fd, alt_fd_list_lock, opened, locked, against>>
    BY DEF Exclude, At, FileInv, FileTypes
  <1>3. CallBecomes(t, "fd_lock", f, call[t].dev, call[t].row)
    BY <1>1, <1>2, TakesDoes DEF FilePlaces, FileInv
  <1>4. Section'
    BY <1>2, <1>3, SectionKeeps DEF FileInv, InSection
  <1>5. f \in opened'[t]
    BY <1>2
  <1>6. TaskOk(t)'
    BY <1>2, <1>3, <1>5 DEF FileInv, CallBecomes, TaskOk, CallOk, MarkOk, SearchOk, AheadOk, Excl, Opening, Held
  <1> QED
    BY <1>2, <1>3, <1>4, <1>6, CallKeeps DEF Held, FileInv, FileTypes

LEMMA AskedKeeps ==
  ASSUME FileInv, NEW t \in Caller, Asked(t)
  PROVE  FileInv'
  <1>1. /\ call[t].at = "asked" /\ alt_fd_list_lock' = 1
        /\ UNCHANGED <<dev, fd_flags, alt_max_fd, opened, locked, against>>
    BY DEF Asked, At
  <1>2. CallBecomes(t, "idle", -1, NoDev, 0)
    BY EndsDoes DEF Asked, FileInv
  <1>3. Section'
    BY <1>1, <1>2, SectionKeeps DEF FileInv, InSection
  <1>4. TaskOk(t)'
    BY <1>1, <1>2 DEF FileInv, CallBecomes, TaskOk, CallOk, MarkOk, SearchOk, AheadOk, Excl, Opening, Held
  <1> QED
    BY <1>1, <1>2, <1>3, <1>4, CallKeeps DEF Held, FileInv, FileTypes
-----------------------------------------------------------------------------
\* The row that is taken was nobody's.
LEMMA TakeKeeps ==
  ASSUME FileInv, NEW t \in Caller, NEW i \in Fd, dev[i] = NoDev, call[t].at = "search",
         CallBecomes(t, "got", i, call[t].dev, call[t].row),
         dev' \in [Fd -> Device \cup {NoDev}], dev'[i] = call[t].dev,
         \A f \in Fd \ {i} : dev'[f] = dev[f],
         alt_max_fd' \in Fd, i <= alt_max_fd', alt_max_fd <= alt_max_fd',
         UNCHANGED <<fd_flags, alt_fd_list_lock, opened, locked, against>>
  PROVE  FileInv'
  <1> USE DEF FileInv, CallBecomes
  <1>1. ~ Excl(i) /\ ~ Excl(i)' /\ \A u \in Caller : ~ Has(u, i)
    BY FilesAssumption DEF MarksInUse, Holders, Excl
  <1>2. call[t].dev \in Device /\ alt_max_fd \in Fd
    BY DEF TaskOk, CallOk, FileTypes
  <1>3. i >= Std
    BY FilesAssumption, FdInt DEF StdInUse
  <1>4. FileTypes'
    BY DEF FileTypes
  <1>5. Section'
    BY SectionKeeps DEF InSection
  <1>6. Holders' /\ StdInUse'
    <2>1. \A u \in Caller, g \in Fd : Has(u, g)' => Has(u, g) \/ (u = t /\ g = i)
      BY DEF Has
    <2>2. \A g \in Fd : g <= alt_max_fd => g <= alt_max_fd'
      BY <1>2, FdInt
    <2> QED
      BY <1>1, <1>2, <1>3, <2>1, <2>2 DEF Holders, StdInUse
  <1>7. MarksInUse'
    <2>1. \A g \in Fd : g <= alt_max_fd => g <= alt_max_fd'
      BY <1>2, FdInt
    <2> QED
      BY <1>1, <2>1 DEF MarksInUse, Excl
  <1>8. Exclusive'
    <2>1. \A u \in Caller : i \notin opened[u]
      BY <1>1 DEF Has
    <2> QED
      BY <1>1, <2>1 DEF Exclusive, Excl
  <1>9. TaskOk(t)'
    <2>1. i \notin opened[t] /\ locked[t] = {f \in opened[t] : Excl(f)}
      BY <1>1 DEF Has, TaskOk, MarkOk
    <2>2. \A f \in against[t] : f \in Fd /\ f # i /\ Excl(f) /\ dev[f] = call[t].dev
      BY <1>1 DEF TaskOk, AheadOk, FileTypes
    <2> QED
      BY <1>1, <1>2, <2>1, <2>2 DEF TaskOk, CallOk, MarkOk, SearchOk, AheadOk, Excl, Opening, Held
  <1>10. ASSUME NEW u \in Caller \ {t}
         PROVE  TaskOk(u)'
    <2>1. TaskOk(u) /\ call'[u] = call[u]
      OBVIOUS
    <2>2. /\ call[u].at # "others"
          /\ i \notin opened[u] /\ (call[u].at \in Held => call[u].fd # i)
      BY <1>1 DEF Section, InSection, Has
    <2>3. \A f \in against[u] : f \in Fd /\ (Excl(f) => dev'[f] = dev[f])
      BY <1>1 DEF FileTypes
    <2> QED
      BY <1>1, <2>1, <2>2, <2>3 DEF TaskOk, CallOk, MarkOk, SearchOk, AheadOk, Excl, Opening, Held
  <1> QED
    BY <1>4, <1>5, <1>6, <1>7, <1>8, <1>9, <1>10

LEMMA GetFdKeeps ==
  ASSUME FileInv, NEW t \in Caller, alt_get_fd(t)
  PROVE  FileInv'
  <1> DEFINE i == call[t].row
  <1>1. call[t].at = "search" /\ UNCHANGED <<fd_flags, alt_fd_list_lock, opened, locked, against>>
    BY DEF alt_get_fd, At
  <1>2. /\ i \in Nat /\ alt_max_fd \in Fd /\ call[t].dev \in Device
        /\ dev \in [Fd -> Device \cup {NoDev}]
    BY <1>1 DEF FileInv, FileTypes, CallType, TaskOk, CallOk
  <1>3. CASE /\ i < MaxFd /\ dev[i] = NoDev
             /\ dev' = [dev EXCEPT ![i] = call[t].dev]
             /\ alt_max_fd' = IF i > alt_max_fd THEN i ELSE alt_max_fd
             /\ call' = [call EXCEPT ![t].at = "got", ![t].fd = i]
    <2>1. i \in Fd
      BY <1>2, <1>3, FilesAssumption DEF Fd
    <2>2. CallBecomes(t, "got", i, call[t].dev, call[t].row)
      BY <1>3, <2>1, TakesDoes DEF FileInv, FilePlaces
    <2>3. /\ dev' \in [Fd -> Device \cup {NoDev}] /\ dev'[i] = call[t].dev
          /\ \A f \in Fd \ {i} : dev'[f] = dev[f]
      BY <1>2, <1>3, <2>1
    <2>4. alt_max_fd' \in Fd /\ i <= alt_max_fd' /\ alt_max_fd <= alt_max_fd'
      BY <1>2, <1>3, <2>1, FdInt
    <2> QED
      BY <1>1, <1>3, <2>1, <2>2, <2>3, <2>4, TakeKeeps
  <1>4. ASSUME NEW a \in {"search", "got"}, NEW r, CallBecomes(t, a, call[t].fd, call[t].dev, r),
               UNCHANGED <<dev, alt_max_fd>>
        PROVE  FileInv'
    <2>1. call[t].fd = -1 /\ -1 \notin Fd /\ opened[t] \subseteq Fd
      BY <1>1, FdInt DEF FileInv, FileTypes, TaskOk, CallOk
    <2>2. Section'
      BY <1>1, <1>4, SectionKeeps DEF FileInv, InSection
    <2>3. TaskOk(t)'
      <3>1. TaskOk(t) /\ call'[t].fd = -1 /\ call'[t].dev = call[t].dev /\ call'[t].at \in {"search", "got"}
        BY <1>4, <2>1 DEF FileInv, CallBecomes
      <3>2. CallOk(t)' /\ MarkOk(t)'
        BY <1>1, <1>4, <2>1, <3>1 DEF TaskOk, CallOk, MarkOk, Excl, Opening, Held
      <3>3. SearchOk(t)' /\ AheadOk(t)'
        BY <1>1, <1>4, <3>1 DEF TaskOk, SearchOk, AheadOk, Excl
      <3> QED
        BY <3>2, <3>3 DEF TaskOk
    <2> QED
      BY <1>1, <1>4, <2>1, <2>2, <2>3, CallKeeps DEF Held, FileInv, FileTypes
  <1>5. CASE NextRow(t) /\ UNCHANGED <<dev, alt_max_fd>>
    BY <1>1, <1>4, <1>5, NextRowDoes DEF FileInv
  <1>6. CASE Goto(t, "got") /\ UNCHANGED <<dev, alt_max_fd>>
    BY <1>1, <1>4, <1>6, GotoDoes DEF FileInv, FilePlaces
  <1> QED
    BY <1>3, <1>5, <1>6 DEF alt_get_fd
-----------------------------------------------------------------------------
\* Neither row nor device of t's call changes hands: the flags do.
LEMMA MarkDeviceKeeps ==
  ASSUME FileInv, NEW t \in Caller, MarkDevice(t)
  PROVE  FileInv'
  <1> DEFINE f == call[t].fd
  <1> USE DEF FileInv, CallBecomes
  <1>1. /\ call[t].at = "flags" /\ f \in Fd
        /\ fd_flags' = [fd_flags EXCEPT ![f] = {"DEV"}]
        /\ UNCHANGED <<dev, alt_max_fd, alt_fd_list_lock, opened, locked, against>>
    BY DEF MarkDevice, At, TaskOk, CallOk
  <1>2. CallBecomes(t, "check", f, call[t].dev, 0)
    BY GotoDoes DEF MarkDevice, FilePlaces
  <1>3. /\ fd_flags' \in [Fd -> SUBSET {"DEV", "EXCL"}]
        /\ \A g \in Fd : Excl(g)' = Excl(g)
    BY <1>1 DEF FileTypes, TaskOk, MarkOk, Excl
  <1>4. UNCHANGED <<dev, alt_max_fd, alt_fd_list_lock, opened, locked, against>>
    BY <1>1
  <1>5. FileTypes'
    BY <1>2, <1>3, <1>4 DEF FileTypes
  <1>6. Section'
    BY <1>1, <1>2, SectionKeeps DEF InSection
  <1>7. Holders'
    <2>1. \A u \in Caller, g \in Fd : Has(u, g)' => Has(u, g)
      BY <1>1, <1>2 DEF Has, Held
    <2> QED
      BY <1>4, <2>1 DEF Holders
  <1>8. StdInUse' /\ MarksInUse' /\ Exclusive'
    BY <1>3, <1>4 DEF StdInUse, MarksInUse, Exclusive
  <1>9. ASSUME NEW u \in Caller
        PROVE  TaskOk(u)'
    <2>1. TaskOk(u) /\ opened[u] \subseteq Fd /\ against[u] \subseteq Fd
      BY DEF FileTypes
    <2>2. CASE u = t
      <3>1. \A g \in Fd : 0 <= g
        BY FdInt
      <3>2. call'[u].at = "check" /\ call'[u].fd = f /\ call'[u].dev = call[t].dev /\ call'[u].row = 0
        BY <1>2, <2>2
      <3>3. CallOk(u)' /\ MarkOk(u)'
        BY <1>1, <1>3, <1>4, <2>1, <2>2, <3>2 DEF TaskOk, CallOk, MarkOk, Opening, Held
      <3>4. SearchOk(u)' /\ AheadOk(u)'
        BY <1>1, <1>3, <1>4, <2>1, <2>2, <3>1, <3>2 DEF TaskOk, SearchOk, AheadOk
      <3> QED
        BY <3>3, <3>4 DEF TaskOk
    <2>3. CASE u # t
      <3>1. call'[u] = call[u]
        BY <1>2, <2>3
      <3>2. CallOk(u)' /\ MarkOk(u)'
        BY <1>3, <1>4, <2>1, <3>1 DEF TaskOk, CallOk, MarkOk
      <3>3. SearchOk(u)' /\ AheadOk(u)'
        BY <1>3, <1>4, <2>1, <3>1 DEF TaskOk, SearchOk, AheadOk
      <3> QED
        BY <3>2, <3>3 DEF TaskOk
    <2> QED
      BY <2>2, <2>3
  <1> QED
    BY <1>5, <1>6, <1>7, <1>8, <1>9

\* The row becomes the task's: every lock of the device below alt_max_fd was
\* looked for.
LEMMA OpenedKeeps ==
  ASSUME FileInv, NEW t \in Caller, call[t].at = "check", call[t].row > alt_max_fd, Ends(t),
         opened' = [opened EXCEPT ![t] = opened[t] \cup {call[t].fd}],
         UNCHANGED <<dev, fd_flags, alt_max_fd, alt_fd_list_lock, locked, against>>
  PROVE  FileInv'
  <1> DEFINE f == call[t].fd
  <1> USE DEF FileInv, CallBecomes
  <1>1. CallBecomes(t, "idle", -1, NoDev, 0)
    BY EndsDoes
  <1>2. f \in Fd /\ ~ Excl(f) /\ TaskOk(t)
    BY DEF TaskOk, CallOk, MarkOk
  <1>3. /\ opened' \in [Caller -> SUBSET Fd] /\ opened'[t] = opened[t] \cup {f}
        /\ \A u \in Caller \ {t} : opened'[u] = opened[u]
    BY <1>2 DEF FileTypes
  <1>4. FileTypes'
    BY <1>1, <1>3 DEF FileTypes
  <1>5. Section'
    BY <1>1, SectionKeeps DEF InSection
  <1>6. Holders'
    <2>1. \A u \in Caller, g \in Fd : Has(u, g)' => Has(u, g)
      BY <1>1, <1>3 DEF Has, Held
    <2> QED
      BY <2>1 DEF Holders
  <1>7. StdInUse' /\ MarksInUse'
    BY DEF StdInUse, MarksInUse, Excl
  <1>8. Exclusive'
    <2>1. \A m \in Fd : Excl(m) /\ dev[f] = dev[m] => ~ f < m
      <3>1. SUFFICES ASSUME NEW m \in Fd, Excl(m), dev[f] = dev[m], f < m PROVE FALSE
        OBVIOUS
      <3>2. call[t].row <= m
        BY <1>2, <3>1 DEF TaskOk, SearchOk
      <3>3. m <= alt_max_fd /\ call[t].row \in Nat /\ alt_max_fd \in Fd
        BY <3>1 DEF MarksInUse, FileTypes, CallType
      <3> QED
        BY <3>2, <3>3, FdInt
    <2> QED
      BY <1>3, <2>1 DEF Exclusive, Excl
  <1>9. ASSUME NEW u \in Caller
        PROVE  TaskOk(u)'
    <2>1. CASE u = t
      BY <1>1, <1>2, <1>3, <2>1 DEF TaskOk, CallOk, MarkOk, SearchOk, AheadOk, Excl, Opening, Held
    <2>2. CASE u # t
      <3>1. TaskOk(u) /\ call'[u] = call[u] /\ opened'[u] = opened[u]
        BY <1>1, <1>3, <2>2
      <3> QED
        BY <3>1 DEF TaskOk, CallOk, MarkOk, SearchOk, AheadOk, Excl
    <2> QED
      BY <2>1, <2>2
  <1> QED
    BY <1>4, <1>5, <1>6, <1>7, <1>8, <1>9

LEMMA FileLockedKeeps ==
  ASSUME FileInv, NEW t \in Caller, alt_file_locked(t)
  PROVE  FileInv'
  <1> DEFINE i == call[t].row
             f == call[t].fd
  <1>1. /\ call[t].at = "check"
        /\ UNCHANGED <<dev, fd_flags, alt_max_fd, alt_fd_list_lock, locked, against>>
    BY DEF alt_file_locked, At
  <1>2. /\ i \in Nat /\ alt_max_fd \in Fd /\ f \in Fd /\ TaskOk(t)
        /\ dev[f] = call[t].dev /\ ~ Excl(f) /\ against[t] \subseteq Fd
    BY <1>1 DEF FileInv, FileTypes, CallType, TaskOk, CallOk, MarkOk, Opening
  <1>3. CASE /\ i <= alt_max_fd /\ ~ (Other(t, i) /\ Excl(i))
             /\ NextRow(t) /\ UNCHANGED opened
    <2>1. CallBecomes(t, "check", f, call[t].dev, i + 1)
      BY <1>1, <1>3, NextRowDoes DEF FileInv
    <2>2. Section'
      BY <1>1, <2>1, SectionKeeps DEF FileInv, InSection
    <2>3. SearchOk(t)'
      <3>1. SUFFICES ASSUME NEW m \in Fd, Excl(m), f < m, dev[m] = dev[f]
                     PROVE  i + 1 <= m
        BY <1>1, <2>1 DEF SearchOk, CallBecomes, Excl
      <3>2. i <= m
        BY <1>1, <1>2, <3>1 DEF TaskOk, SearchOk
      <3>3. i # m
        BY <1>2, <1>3, <3>1, FdInt DEF Other
      <3> QED
        BY <1>2, <3>2, <3>3, FdInt
    <2>4. AheadOk(t)'
      <3>1. SUFFICES ASSUME NEW m \in against[t]
                     PROVE  Excl(m) /\ dev[m] = call[t].dev /\ i + 1 <= m
        BY <1>1, <2>1 DEF AheadOk, CallBecomes, Excl
      <3>2. m \in Fd /\ Excl(m) /\ dev[m] = call[t].dev /\ i <= m
        BY <1>1, <1>2, <3>1 DEF TaskOk, AheadOk
      <3>3. i # m
        BY <1>2, <1>3, <3>2 DEF Other
      <3> QED
        BY <1>2, <3>2, <3>3, FdInt
    <2>5. TaskOk(t)'
      BY <1>1, <1>2, <1>3, <2>1, <2>3, <2>4 DEF CallBecomes, TaskOk, CallOk, MarkOk, Excl, Opening, Held
    <2> QED
      BY <1>1, <1>2, <1>3, <2>1, <2>2, <2>5, CallKeeps DEF Held, FileInv, FileTypes
  <1>4. CASE Goto(t, "release") /\ UNCHANGED opened
    <2>1. CallBecomes(t, "release", f, call[t].dev, 0)
      BY <1>4, GotoDoes DEF FileInv, FilePlaces
    <2>2. Section'
      BY <1>1, <2>1, SectionKeeps DEF FileInv, InSection
    <2>3. TaskOk(t)'
      BY <1>1, <1>2, <1>4, <2>1 DEF CallBecomes, TaskOk, CallOk, MarkOk, SearchOk, AheadOk, Excl, Opening, Held
    <2> QED
      BY <1>1, <1>2, <1>4, <2>1, <2>2, <2>3, CallKeeps DEF Held, FileInv, FileTypes
  <1>5. CASE i > alt_max_fd /\ Ends(t) /\ opened' = [opened EXCEPT ![t] = opened[t] \cup {f}]
    BY <1>1, <1>5, OpenedKeeps
  <1>6. ~ i <= alt_max_fd => i > alt_max_fd
    BY <1>2, FdInt
  <1> QED
    BY <1>3, <1>4, <1>5, <1>6 DEF alt_file_locked, Searched, Excl
-----------------------------------------------------------------------------
\* What is released has its holder still; its mark, if any, goes with it.
LEMMA ReleaseFlagsKeeps ==
  ASSUME FileInv, NEW t \in Caller, ReleaseFlags(t)
  PROVE  FileInv'
  <1> DEFINE f == call[t].fd
  <1> USE DEF FileInv, CallBecomes
  <1>1. /\ call[t].at = "release" /\ f \in Fd /\ TaskOk(t)
        /\ fd_flags' = [fd_flags EXCEPT ![f] = IF f >= Std THEN {} ELSE fd_flags[f]]
        /\ against' = [u \in Caller |-> against[u] \ {f}]
        /\ UNCHANGED <<dev, alt_max_fd, alt_fd_list_lock, opened, locked>>
    BY DEF ReleaseFlags, Unlocked, At, TaskOk, CallOk
  <1>2. CallBecomes(t, "released", f, call[t].dev, 0)
    BY GotoDoes DEF ReleaseFlags, FilePlaces
  <1>3. Has(t, f) /\ f >= Std
    BY <1>1 DEF Has, Held, Holders
  <1>4. /\ fd_flags' \in [Fd -> SUBSET {"DEV", "EXCL"}]
        /\ "EXCL" \notin fd_flags'[f] /\ \A g \in Fd \ {f} : Excl(g)' = Excl(g)
    BY <1>1, <1>3 DEF FileTypes, Excl
  <1>5. /\ against' \in [Caller -> SUBSET Fd]
        /\ \A u \in Caller : against'[u] = against[u] \ {f}
    BY <1>1 DEF FileTypes
  <1>6. UNCHANGED <<dev, alt_max_fd, alt_fd_list_lock, opened, locked>>
    BY <1>1
  <1>7. FileTypes'
    BY <1>2, <1>4, <1>5, <1>6 DEF FileTypes
  <1>8. Section'
    BY <1>1, <1>2, SectionKeeps DEF InSection
  <1>9. Holders'
    <2>1. \A u \in Caller, g \in Fd : Has(u, g)' => Has(u, g)
      BY <1>1, <1>2 DEF Has, Held
    <2> QED
      BY <1>6, <2>1 DEF Holders
  <1>10. StdInUse' /\ MarksInUse' /\ Exclusive'
    <2>1. \A g \in Fd : Excl(g)' => Excl(g)
      BY <1>4 DEF Excl
    <2> QED
      BY <1>6, <2>1 DEF StdInUse, MarksInUse, Exclusive
  <1>11. \A u \in Caller : f \notin opened[u]
    BY <1>1, <1>3 DEF Holders, Has, TaskOk, CallOk, Held
  <1>12. ASSUME NEW u \in Caller
         PROVE  TaskOk(u)'
    <2>1. TaskOk(u) /\ opened[u] \subseteq Fd /\ against[u] \subseteq Fd
      BY DEF FileTypes
    <2>2. locked'[u] = {g \in opened'[u] : Excl(g)'}
      BY <1>4, <1>6, <1>11, <2>1 DEF TaskOk, MarkOk
    <2>3. \A g \in Fd : (Excl(g)' => Excl(g)) /\ (g # f /\ Excl(g) => Excl(g)')
      BY <1>4 DEF Excl
    <2>4. CASE u = t
      <3>1. call'[u].at = "released" /\ call'[u].fd = f
        BY <1>2, <2>4
      <3> QED
        BY <1>1, <1>4, <1>6, <1>11, <2>2, <2>4, <3>1 DEF TaskOk, CallOk, MarkOk, SearchOk, AheadOk, Excl, Opening, Held
    <2>5. CASE u # t
      <3>1. call'[u] = call[u]
        BY <1>2, <2>5
      <3>2. CallOk(u)' /\ MarkOk(u)'
        BY <1>6, <2>1, <2>2, <2>3, <3>1 DEF TaskOk, CallOk, MarkOk, Opening
      <3>3. SearchOk(u)' /\ AheadOk(u)'
        BY <1>5, <1>6, <2>1, <2>3, <3>1 DEF TaskOk, SearchOk, AheadOk
      <3> QED
        BY <3>2, <3>3 DEF TaskOk
    <2> QED
      BY <2>4, <2>5
  <1> QED
    BY <1>7, <1>8, <1>9, <1>10, <1>12

LEMMA ReleaseDevKeeps ==
  ASSUME FileInv, NEW t \in Caller, ReleaseDev(t)
  PROVE  FileInv'
  <1> DEFINE f == call[t].fd
  <1> USE DEF FileInv, CallBecomes
  <1>1. /\ call[t].at = "released" /\ f \in Fd /\ TaskOk(t)
        /\ dev' = [dev EXCEPT ![f] = IF f >= Std THEN NoDev ELSE dev[f]]
        /\ UNCHANGED <<fd_flags, alt_max_fd, alt_fd_list_lock, opened, locked, against>>
    BY DEF ReleaseDev, At, TaskOk, CallOk
  <1>2. CallBecomes(t, "idle", -1, NoDev, 0)
    BY EndsDoes DEF ReleaseDev
  <1>3. Has(t, f) /\ f >= Std /\ ~ Excl(f)
    BY <1>1 DEF Has, Held, Holders, TaskOk, MarkOk
  <1>4. /\ dev' \in [Fd -> Device \cup {NoDev}]
        /\ dev'[f] = NoDev /\ \A g \in Fd \ {f} : dev'[g] = dev[g]
    BY <1>1, <1>3 DEF FileTypes
  <1>5. UNCHANGED <<fd_flags, alt_max_fd, alt_fd_list_lock, opened, locked, against>>
    BY <1>1
  <1>6. FileTypes'
    BY <1>2, <1>4, <1>5 DEF FileTypes
  <1>7. Section'
    BY <1>1, <1>2, SectionKeeps DEF InSection
  <1>8. Holders'
    <2>1. \A u \in Caller, g \in Fd : Has(u, g)' => Has(u, g) /\ g # f
      <3>1. \A g \in Fd : Has(t, g)' => g \in opened[t]
        BY <1>2, <1>5 DEF Has, Held
      <3>2. f \notin opened[t]
        BY <1>1 DEF TaskOk, CallOk, Held
      <3>3. \A u \in Caller \ {t}, g \in Fd : Has(u, g)' => Has(u, g)
        BY <1>2, <1>5 DEF Has
      <3>4. \A u \in Caller \ {t} : ~ Has(u, f)
        BY <1>1, <1>3 DEF Holders
      <3> QED
        BY <3>1, <3>2, <3>3, <3>4 DEF Has
    <2> QED
      BY <1>4, <1>5, <2>1 DEF Holders
  <1>9. MarksInUse'
    BY <1>3, <1>4, <1>5 DEF MarksInUse, Excl
  <1>10. StdInUse'
    <2>1. ~ f < Std
      BY <1>1, <1>3, FdInt, FilesAssumption
    <2> QED
      BY <1>4, <2>1 DEF StdInUse
  <1>11. Exclusive'
    <2>1. ASSUME NEW m \in Fd, NEW g \in Fd, Excl(m), g # m, dev'[g] = dev'[m]
          PROVE  dev[g] = dev[m] /\ g # f
      <3>1. m # f /\ dev'[m] = dev[m] /\ dev[m] # NoDev
        BY <1>3, <1>4, <2>1, FilesAssumption DEF MarksInUse
      <3> QED
        BY <1>4, <2>1, <3>1
    <2> QED
      BY <1>5, <2>1 DEF Exclusive, Excl
  <1>12. ASSUME NEW u \in Caller
         PROVE  TaskOk(u)'
    <2>1. TaskOk(u) /\ opened[u] \subseteq Fd /\ against[u] \subseteq Fd
      BY DEF FileTypes
    <2>2. CASE u = t
      <3>1. call'[u].at = "idle" /\ call'[u].fd = -1
        BY <1>2, <2>2
      <3> QED
        BY <1>5, <2>1, <3>1 DEF TaskOk, CallOk, MarkOk, SearchOk, AheadOk, Excl, Opening, Held
    <2>3. CASE u # t
      <3>1. call'[u] = call[u]
        BY <1>2, <2>3
      <3>2. f \notin opened[u] /\ (call[u].at \in Held => call[u].fd # f)
        BY <1>1, <1>3, <2>3 DEF Holders, Has
      <3>3. CallOk(u)' /\ MarkOk(u)'
        BY <1>4, <1>5, <2>1, <3>1, <3>2 DEF TaskOk, CallOk, MarkOk, Excl, Opening, Held
      <3>4. \A g \in Fd : Excl(g) => g # f /\ dev[g] # NoDev
        BY <1>3, FilesAssumption DEF MarksInUse
      <3>5. AheadOk(u)'
        BY <1>4, <1>5, <2>1, <3>1, <3>4 DEF TaskOk, AheadOk, Excl
      <3>6. SearchOk(u)'
        <4>1. call[u].at = "others" => call[u].fd # f /\ call[u].fd \in Fd /\ dev[call[u].fd] # NoDev
          BY <2>1, <3>2, FilesAssumption DEF TaskOk, CallOk, Holders, Has
        <4>2. call[u].at = "check" => call[u].fd # f /\ call[u].fd \in Fd
          BY <2>1, <3>2 DEF TaskOk, CallOk, Held
        <4> QED
          BY <1>4, <1>5, <2>1, <3>1, <3>4, <4>1, <4>2 DEF TaskOk, SearchOk, Excl
      <3> QED
        BY <3>3, <3>5, <3>6 DEF TaskOk
    <2> QED
      BY <2>2, <2>3
  <1> QED
    BY <1>6, <1>7, <1>8, <1>9, <1>10, <1>11, <1>12

LEMMA CloseKeeps ==
  ASSUME FileInv, NEW t \in Caller, Close(t)
  PROVE  FileInv'
  <1> USE DEF FileInv, CallBecomes
  <1>1. PICK f \in opened[t] :
          /\ call' = [call EXCEPT ![t].at = "release", ![t].fd = f]
          /\ opened' = [opened EXCEPT ![t] = opened[t] \ {f}]
          /\ locked' = [locked EXCEPT ![t] = locked[t] \ {f}]
    BY DEF Close
  <1>2. /\ call[t].at = "idle" /\ f \in Fd /\ TaskOk(t)
        /\ UNCHANGED <<dev, fd_flags, alt_max_fd, alt_fd_list_lock, against>>
    BY DEF Close, At, FileTypes
  <1>3. CallBecomes(t, "release", f, call[t].dev, call[t].row)
    BY <1>1, <1>2, TakesDoes DEF FilePlaces
  <1>4. /\ opened' \in [Caller -> SUBSET Fd] /\ locked' \in [Caller -> SUBSET Fd]
        /\ opened'[t] = opened[t] \ {f} /\ locked'[t] = locked[t] \ {f}
        /\ \A u \in Caller \ {t} : opened'[u] = opened[u] /\ locked'[u] = locked[u]
    BY <1>1, <1>2 DEF FileTypes
  <1>5. FileTypes'
    BY <1>2, <1>3, <1>4 DEF FileTypes
  <1>6. Section'
    BY <1>2, <1>3, SectionKeeps DEF InSection
  <1>7. Holders'
    <2>1. \A u \in Caller, g \in Fd : Has(u, g)' => Has(u, g)
      BY <1>3, <1>4 DEF Has
    <2> QED
      BY <1>2, <2>1 DEF Holders
  <1>8. StdInUse' /\ MarksInUse'
    BY <1>2 DEF StdInUse, MarksInUse, Excl
  <1>9. Exclusive'
    BY <1>2, <1>4 DEF Exclusive, Excl
  <1>10. ASSUME NEW u \in Caller
         PROVE  TaskOk(u)'
    <2>1. CASE u = t
      <3>1. call'[u].at = "release" /\ call'[u].fd = f
        BY <1>3, <2>1
      <3>2. MarkOk(u)'
        BY <1>2, <1>4, <2>1, <3>1 DEF TaskOk, MarkOk, Excl
      <3> QED
        BY <1>2, <1>4, <2>1, <3>1, <3>2 DEF TaskOk, CallOk, SearchOk, AheadOk, Excl, Opening, Held
    <2>2. CASE u # t
      <3>1. TaskOk(u) /\ call'[u] = call[u] /\ opened'[u] = opened[u] /\ locked'[u] = locked[u]
        BY <1>3, <1>4, <2>2
      <3> QED
        BY <1>2, <3>1 DEF TaskOk, CallOk, MarkOk, SearchOk, AheadOk, Excl
    <2> QED
      BY <2>1, <2>2
  <1> QED
    BY <1>5, <1>6, <1>7, <1>8, <1>9, <1>10
-----------------------------------------------------------------------------
\* Every row of the device below alt_max_fd was looked for; the one at
\* alt_max_fd is locked only if no open row is below it.
LEMMA GrantKeeps ==
  ASSUME FileInv, NEW t \in Caller, call[t].at = "others", call[t].row >= alt_max_fd,
         Goto(t, "asked"),
         fd_flags' = [fd_flags EXCEPT ![call[t].fd] = fd_flags[call[t].fd] \cup {"EXCL"}],
         locked' = [locked EXCEPT ![t] = locked[t] \cup {call[t].fd}],
         UNCHANGED <<dev, alt_max_fd, alt_fd_list_lock, opened, against>>
  PROVE  FileInv'
  <1> USE DEF FileInv, CallBecomes
  <1>1. PICK f : f = call[t].fd
    OBVIOUS
  <1>2. CallBecomes(t, "asked", f, call[t].dev, 0)
    BY <1>1, GotoDoes DEF FilePlaces
  <1>3. f \in opened[t] /\ f \in Fd /\ TaskOk(t) /\ dev[f] \in Device /\ f <= alt_max_fd
    BY <1>1 DEF TaskOk, CallOk, FileTypes, Holders, Has
  <1>4. /\ fd_flags' \in [Fd -> SUBSET {"DEV", "EXCL"}]
        /\ \A g \in Fd : Excl(g)' <=> Excl(g) \/ g = f
    BY <1>1, <1>3 DEF FileTypes, Excl
  <1>5. /\ locked' \in [Caller -> SUBSET Fd] /\ locked'[t] = locked[t] \cup {f}
        /\ \A u \in Caller \ {t} : locked'[u] = locked[u]
    BY <1>1, <1>3 DEF FileTypes
  <1>6. \A g \in Fd : g # f /\ dev[g] = dev[f] => ~ g < alt_max_fd
    <2>1. SUFFICES ASSUME NEW g \in Fd, g # f, dev[g] = dev[f], g < alt_max_fd PROVE FALSE
      OBVIOUS
    <2>2. g < call[t].row
      BY <2>1, FdInt DEF FileTypes, CallType
    <2> QED
      BY <1>1, <1>3, <2>1, <2>2 DEF TaskOk, SearchOk
  <1>7. \A g \in Fd : g # f /\ dev[g] = dev[f] => ~ g < f
    BY <1>3, <1>6, FdInt DEF FileTypes
  <1>8. \A g \in Fd : g # f /\ dev[g] = dev[f] => ~ Excl(g)
    <2>1. SUFFICES ASSUME NEW g \in Fd, g # f, dev[g] = dev[f], Excl(g) PROVE FALSE
      OBVIOUS
    <2>2. f < g
      BY <1>3, <1>7, <2>1, FdInt
    <2> QED
      BY <1>3, <2>1, <2>2 DEF Exclusive
  <1>9. FileTypes'
    BY <1>2, <1>4, <1>5 DEF FileTypes
  <1>10. Section'
    BY <1>2, SectionKeeps DEF InSection
  <1>11. Holders'
    <2>1. \A u \in Caller, g \in Fd : Has(u, g)' => Has(u, g)
      BY <1>2 DEF Has, Held
    <2> QED
      BY <2>1 DEF Holders
  <1>12. StdInUse' /\ MarksInUse'
    BY <1>3, <1>4 DEF StdInUse, MarksInUse
  <1>13. Exclusive'
    BY <1>3, <1>4, <1>7, <1>8 DEF Exclusive
  <1>14. ASSUME NEW u \in Caller
         PROVE  TaskOk(u)'
    <2>1. TaskOk(u) /\ opened[u] \subseteq Fd /\ against[u] \subseteq Fd
      BY DEF FileTypes
    <2>2. CASE u = t
      <3>1. call'[u].at = "asked"
        BY <1>2, <2>2
      <3>2. MarkOk(u)'
        BY <1>3, <1>4, <1>5, <2>1, <2>2, <3>1 DEF TaskOk, MarkOk
      <3> QED
        BY <3>1, <3>2 DEF TaskOk, CallOk, SearchOk, AheadOk, Opening, Held
    <2>3. CASE u # t
      <3>1. call'[u] = call[u] /\ locked'[u] = locked[u]
        BY <1>2, <1>5, <2>3
      <3>2. f \notin opened[u] /\ (call[u].at \in Held => call[u].fd # f)
        BY <1>3, <2>3 DEF Holders, Has
      <3>3. CallOk(u)' /\ MarkOk(u)'
        BY <1>4, <2>1, <3>1, <3>2 DEF TaskOk, CallOk, MarkOk, Held
      <3>4. AheadOk(u)'
        BY <1>4, <2>1, <3>1 DEF TaskOk, AheadOk
      <3>5. call[u].at = "check" /\ call[u].fd < f => dev[f] # dev[call[u].fd]
        BY <1>3, <1>7, <2>1, <3>2 DEF TaskOk, CallOk, Held
      <3>6. SearchOk(u)'
        BY <1>4, <2>1, <3>1, <3>5 DEF TaskOk, SearchOk
      <3> QED
        BY <3>3, <3>4, <3>6 DEF TaskOk
    <2> QED
      BY <2>2, <2>3
  <1> QED
    BY <1>9, <1>10, <1>11, <1>12, <1>13, <1>14

LEMMA FdLockKeeps ==
  ASSUME FileInv, NEW t \in Caller, alt_fd_lock(t)
  PROVE  FileInv'
  <1> DEFINE i == call[t].row
             f == call[t].fd
  <1>1. /\ call[t].at = "others" /\ UNCHANGED <<dev, alt_max_fd, alt_fd_list_lock, opened, against>>
    BY DEF alt_fd_lock, At
  <1>2. /\ i \in Nat /\ alt_max_fd \in Fd /\ f \in opened[t] /\ TaskOk(t)
    BY <1>1 DEF FileInv, FileTypes, CallType, TaskOk, CallOk
  <1>3. CASE ~ Other(t, i) /\ NextRow(t) /\ UNCHANGED <<fd_flags, locked>>
    <2>1. CallBecomes(t, "others", f, call[t].dev, i + 1)
      BY <1>1, <1>3, NextRowDoes DEF FileInv
    <2>2. Section'
      BY <1>1, <2>1, SectionKeeps DEF FileInv, InSection
    <2>3. SearchOk(t)'
      <3>1. SUFFICES ASSUME NEW j \in Fd, j < i + 1, j # f
                     PROVE  dev[j] # dev[f]
        BY <1>1, <2>1 DEF SearchOk, CallBecomes
      <3>2. j < i \/ j = i
        BY <1>2, <3>1, FdInt
      <3> QED
        BY <1>1, <1>2, <1>3, <3>1, <3>2 DEF Other, TaskOk, SearchOk
    <2>4. TaskOk(t)'
      BY <1>1, <1>2, <1>3, <2>1, <2>3 DEF CallBecomes, TaskOk, CallOk, MarkOk, AheadOk, Excl, Opening, Held
    <2> QED
      BY <1>1, <1>3, <2>1, <2>2, <2>4, CallKeeps DEF Held, FileInv, FileTypes
  <1>4. CASE Goto(t, "asked") /\ UNCHANGED <<fd_flags, locked>>
    <2>1. CallBecomes(t, "asked", f, call[t].dev, 0)
      BY <1>4, GotoDoes DEF FileInv, FilePlaces
    <2>2. Section'
      BY <1>1, <2>1, SectionKeeps DEF FileInv, InSection
    <2>3. TaskOk(t)'
      BY <1>1, <1>2, <1>4, <2>1 DEF CallBecomes, TaskOk, CallOk, MarkOk, SearchOk, AheadOk, Excl, Opening, Held
    <2> QED
      BY <1>1, <1>4, <2>1, <2>2, <2>3, CallKeeps DEF Held, FileInv, FileTypes
  <1>5. CASE /\ i >= alt_max_fd /\ Goto(t, "asked")
             /\ fd_flags' = [fd_flags EXCEPT ![f] = @ \cup {"EXCL"}]
             /\ locked' = [locked EXCEPT ![t] = @ \cup {f}]
    BY <1>1, <1>5, GrantKeeps
  <1> QED
    BY <1>3, <1>4, <1>5 DEF alt_fd_lock

LEMMA FdUnlockKeeps ==
  ASSUME FileInv, NEW t \in Caller, alt_fd_unlock(t)
  PROVE  FileInv'
  <1> USE DEF FileInv
  <1>1. PICK f \in locked[t] :
          /\ fd_flags' = [fd_flags EXCEPT ![f] = fd_flags[f] \ {"EXCL"}]
          /\ locked' = [locked EXCEPT ![t] = locked[t] \ {f}]
          /\ against' = [u \in Caller |-> against[u] \ {f}]
    BY DEF alt_fd_unlock, Unlocked
  <1>2. /\ f \in opened[t] /\ f \in Fd
        /\ UNCHANGED <<dev, alt_max_fd, alt_fd_list_lock, call, opened>>
    BY DEF alt_fd_unlock, TaskOk, MarkOk, FileTypes
  <1>3. /\ fd_flags' \in [Fd -> SUBSET {"DEV", "EXCL"}]
        /\ \A g \in Fd : Excl(g)' <=> Excl(g) /\ g # f
    BY <1>1, <1>2 DEF FileTypes, Excl
  <1>4. /\ locked' \in [Caller -> SUBSET Fd] /\ locked'[t] = locked[t] \ {f}
        /\ \A u \in Caller \ {t} : locked'[u] = locked[u]
    BY <1>1, <1>2 DEF FileTypes
  <1>5. /\ against' \in [Caller -> SUBSET Fd]
        /\ \A u \in Caller : against'[u] = against[u] \ {f}
    BY <1>1 DEF FileTypes
  <1>6. FileTypes'
    BY <1>2, <1>3, <1>4, <1>5 DEF FileTypes
  <1>7. Section' /\ Holders' /\ StdInUse'
    BY <1>2 DEF Section, Holders, StdInUse, Has
  <1>8. MarksInUse' /\ Exclusive'
    BY <1>2, <1>3 DEF MarksInUse, Exclusive
  <1>9. ASSUME NEW u \in Caller
        PROVE  TaskOk(u)'
    <2>1. TaskOk(u) /\ opened[u] \subseteq Fd /\ against[u] \subseteq Fd
      BY DEF FileTypes
    <2>2. locked'[u] = {g \in opened'[u] : Excl(g)'}
      <3>1. CASE u = t
        BY <1>2, <1>3, <1>4, <2>1, <3>1 DEF TaskOk, MarkOk
      <3>2. CASE u # t
        <4>1. f \notin opened[u]
          BY <1>2, <3>2 DEF Holders, Has
        <4> QED
          BY <1>2, <1>3, <1>4, <2>1, <3>2, <4>1 DEF TaskOk, MarkOk
      <3> QED
        BY <3>1, <3>2
    <2>3. CallOk(u)' /\ MarkOk(u)'
      BY <1>2, <1>3, <2>1, <2>2 DEF TaskOk, CallOk, MarkOk
    <2>4. SearchOk(u)' /\ AheadOk(u)'
      BY <1>2, <1>3, <1>5, <2>1 DEF TaskOk, SearchOk, AheadOk
    <2> QED
      BY <2>3, <2>4 DEF TaskOk
  <1> QED
    BY <1>6, <1>7, <1>8, <1>9
-----------------------------------------------------------------------------
LEMMA FileStep == FileInv /\ [FilesNext]_fvars => FileInv'
  <1> SUFFICES ASSUME FileInv, [FilesNext]_fvars PROVE FileInv'
    OBVIOUS
  <1>1. CASE UNCHANGED fvars
    BY <1>1 DEF fvars, FileInv, FileTypes, Section, Holders, StdInUse, MarksInUse, Exclusive, TaskOk, CallOk, MarkOk, SearchOk, AheadOk, Excl, Has
  <1>2. CASE FilesNext
    <2>1. PICK t \in Caller :
            \/ Open(t) \/ Pend(t, "get_fd", "search") \/ alt_get_fd(t) \/ Got(t) \/ MarkDevice(t) \/ alt_file_locked(t)
            \/ ReleaseFlags(t) \/ ReleaseDev(t) \/ Close(t)
            \/ Exclude(t) \/ Pend(t, "fd_lock", "others") \/ alt_fd_lock(t) \/ Asked(t) \/ alt_fd_unlock(t)
      BY <1>2 DEF FilesNext
    <2>2. CASE Open(t)
      BY <2>2, OpenKeeps
    <2>3. CASE Pend(t, "get_fd", "search")
      BY <2>3, PendKeeps
    <2>4. CASE alt_get_fd(t)
      BY <2>4, GetFdKeeps
    <2>5. CASE Got(t)
      BY <2>5, GotKeeps
    <2>6. CASE MarkDevice(t)
      BY <2>6, MarkDeviceKeeps
    <2>7. CASE alt_file_locked(t)
      BY <2>7, FileLockedKeeps
    <2>8. CASE ReleaseFlags(t)
      BY <2>8, ReleaseFlagsKeeps
    <2>9. CASE ReleaseDev(t)
      BY <2>9, ReleaseDevKeeps
    <2>10. CASE Close(t)
      BY <2>10, CloseKeeps
    <2>11. CASE Exclude(t)
      BY <2>11, ExcludeKeeps
    <2>12. CASE Pend(t, "fd_lock", "others")
      BY <2>12, PendKeeps
    <2>13. CASE alt_fd_lock(t)
      BY <2>13, FdLockKeeps
    <2>14. CASE Asked(t)
      BY <2>14, AskedKeeps
    <2>15. CASE alt_fd_unlock(t)
      BY <2>15, FdUnlockKeeps
    <2> QED
      BY <2>1, <2>2, <2>3, <2>4, <2>5, <2>6, <2>7, <2>8, <2>9, <2>10, <2>11, <2>12, <2>13, <2>14, <2>15
  <1> QED
    BY <1>1, <1>2

\* Two locked descriptors of one device would be below one another.
LEMMA OneLock == FileInv => OneLocked
  <1> SUFFICES ASSUME FileInv, NEW d \in Device PROVE Cardinality(LocksOn(d)) <= 1
    BY DEF OneLocked
  <1>1. \A f, g \in LocksOn(d) : f = g
    BY DEF LocksOn, FileInv, Exclusive, Excl
  <1>2. CASE LocksOn(d) = {}
    BY <1>2, FS_EmptySet
  <1>3. CASE LocksOn(d) # {}
    <2>1. PICK f \in LocksOn(d) : LocksOn(d) = {f}
      BY <1>1, <1>3
    <2> QED
      BY <2>1, FS_Singleton
  <1> QED
    BY <1>2, <1>3

\* A descriptor has one holder; its mark is what its holder asked for.
LEMMA OneHolder == FileInv => HoldersExact
  <1> SUFFICES ASSUME FileInv PROVE HoldersExact
    OBVIOUS
  <1>1. \A t \in Caller : opened[t] \subseteq Fd /\ MarkOk(t)
    BY DEF FileInv, FileTypes, TaskOk
  <1> QED
    BY <1>1 DEF FileInv, Holders, HoldersExact, Has, MarkOk, Excl

\* When open ends well, its search has come past alt_max_fd, and so past every
\* lock that was there all the time.
LEMMA OpenIsKeptOut ==
  ASSUME FileInv, [FilesNext]_fvars, NEW t \in Caller, opened'[t] \ opened[t] # {}
  PROVE  against[t] = {}
  <1>1. PICK u \in Caller : alt_file_locked(u) \/ Close(u)
    BY DEF FilesNext, fvars, Open, Pend, alt_get_fd, Got, MarkDevice, ReleaseFlags, ReleaseDev, Exclude, alt_fd_lock, Asked, alt_fd_unlock
  <1>2. opened \in [Caller -> SUBSET Fd]
    BY DEF FileInv, FileTypes
  <1>3. alt_file_locked(t) /\ ~ Searched(call[t].row)
    BY <1>1, <1>2 DEF alt_file_locked, Close
  <1>4. SUFFICES ASSUME NEW f \in against[t] PROVE FALSE
    OBVIOUS
  <1>5. f \in Fd /\ Excl(f) /\ call[t].row <= f
    BY <1>3 DEF alt_file_locked, At, FileInv, FileTypes, TaskOk, AheadOk
  <1>6. f <= alt_max_fd /\ alt_max_fd \in Fd /\ call[t].row \in Nat
    BY <1>5 DEF FileInv, MarksInUse, FileTypes, CallType
  <1> QED
    BY <1>3, <1>5, <1>6, FdInt DEF Searched

\* What a task has locked stays its own until it gives it up, and is kept from
\* every open that begins after it.
THEOREM FilesHold == FilesSpec => FilesExact
  <1>1. FilesInit => FileInv
    BY FileInit
  <1>2. FileInv /\ [FilesNext]_fvars => FileInv'
    BY FileStep
  <1>3. FileInv => HoldersExact /\ OneLocked
    BY OneLock, OneHolder
  <1>4. FileInv /\ [FilesNext]_fvars => [\A t \in Caller : opened'[t] \ opened[t] # {} => against[t] = {}]_fvars
    BY OpenIsKeptOut
  <1> QED
    BY <1>1, <1>2, <1>3, <1>4, PTL DEF FilesSpec, FilesExact, OpenKeptOut

(***************************************************************************)
(* That no alarm of the HAL is called before its time, and that one whose  *)
(* time has come has been called once the tick is over, for any number of  *)
(* alarms and any width of the tick counter, whatever the callbacks start  *)
(* and stop of their own.  What needs an argument is the list: it is a     *)
(* ring whatever is linked in or out of it, also below the walk of         *)
(* alt_tick, so that the walk meets every alarm once.                      *)
(***************************************************************************)

\* What the theorem asks of the callbacks and of the numbers of ticks: a callback
\* stops no alarm but its own, and no alarm is started for the longest time a
\* counter can hold (either of them does break the promise, see the README).
Gentle == "stopother" \notin Meddle /\ Waits \subseteq 0 .. Wrap - 2

AlarmTypes ==
  /\ next \in [Node -> Node] /\ prev \in [Node -> Node]
  /\ time \in [Alarm -> Int] /\ rollover \in [Alarm -> BOOLEAN] /\ due_in \in [Alarm -> Int]
  /\ nticks \in 0 .. Wrap - 1
  /\ at \in Node /\ after \in Node /\ called \in Node
  /\ on \subseteq Alarm /\ IsFiniteSet(on)

\* The list, and how the alarms are numbered along it.
Linked(pos) ==
  /\ pos \in [on \cup {Ring} -> 0 .. Cardinality(on)]
  /\ Numbering(pos)
  /\ \A a \in Alarm \ on : next[a] = a /\ prev[a] = a

\* Where alt_tick is: the node it looks at next, and what it holds meanwhile.
Front == IF called = Ring THEN at ELSE after
Walking(pos) ==
  /\ Front \in on \cup {Ring}
  /\ called # Ring => at = called
  /\ called \in on /\ after # Ring => pos[called] < pos[after]

Passed(pos, a) == Front = Ring \/ pos[a] < pos[Front]

\* The time of an alarm is d ticks from now.
Ahead(a) ==
  IF nticks + due_in[a] < Wrap THEN time[a] = nticks + due_in[a] /\ ~ rollover[a]
                               ELSE time[a] = nticks + due_in[a] - Wrap /\ rollover[a]

\* Of an alarm the tick has still to look at, rollover is out of date when the
\* counter has just wrapped.
Behind(a) == IF nticks = 0 THEN time[a] = due_in[a] /\ rollover[a] ELSE Ahead(a)

OneTimed(pos, a) ==
  /\ due_in[a] \in 0 .. Wrap - 1
  /\ a = called => due_in[a] = 0 /\ time[a] = nticks /\ ~ rollover[a]
  /\ a # called /\ Passed(pos, a) => due_in[a] > 0 /\ Ahead(a)
  /\ a # called /\ ~ Passed(pos, a) => Behind(a)
Timed(pos) == \A a \in on : OneTimed(pos, a)

Kept(pos) == Linked(pos) /\ Walking(pos) /\ Timed(pos)
AlarmInv == AlarmTypes /\ early = FALSE /\ \E pos : Kept(pos)

-----------------------------------------------------------------------------
LEMMA AlarmStart == AlarmInit => AlarmInv
<1> SUFFICES ASSUME AlarmInit PROVE AlarmInv
  OBVIOUS
<1>1. IsFiniteSet(on) /\ Cardinality(on) = 0
  BY FS_EmptySet DEF AlarmInit
<1>2. AlarmTypes
  BY <1>1, AlarmAssumption DEF AlarmInit, AlarmTypes, Node
<1> DEFINE p == [n \in {Ring} |-> 0]
<1>3. Linked(p)
  BY <1>1 DEF AlarmInit, Linked, Numbering, Node
<1>4. Walking(p)
  BY AlarmAssumption DEF AlarmInit, Walking, Front
<1>5. Timed(p)
  BY DEF AlarmInit, Timed
<1> QED
  BY <1>2, <1>3, <1>4, <1>5 DEF AlarmInit, AlarmInv, Kept

\* An alarm comes in at the head, and all others move one place on.
Shifted(pos, a) == [n \in DOMAIN pos \cup {a} |-> IF n = Ring THEN 0 ELSE IF n = a THEN 1 ELSE pos[n] + 1]

LEMMA Inserted ==
  ASSUME NEW pos, NEW a, AlarmTypes, Linked(pos), a \in Alarm, a \notin on,
         alt_llist_insert(a), on' = on \cup {a}
  PROVE  Linked(Shifted(pos, a))'
<1> DEFINE s == Shifted(pos, a)
           c == Cardinality(on)
<1>1. c \in Nat /\ Cardinality(on') = c + 1
  BY FS_AddElement, FS_CardinalityType DEF AlarmTypes
<1>2. DOMAIN pos = on \cup {Ring} /\ \A n \in on \cup {Ring} : pos[n] \in 0 .. c
  BY DEF Linked
<1>3. a # Ring /\ Ring \notin on
  BY AlarmAssumption DEF AlarmTypes
<1>4. s \in [on' \cup {Ring} -> 0 .. c + 1]
  BY <1>1, <1>2, <1>3 DEF Shifted
<1>5. /\ s[Ring] = 0 /\ s[a] = 1
      /\ \A n \in on : s[n] = pos[n] + 1 /\ pos[n] \in 1 .. c
  <2>1. pos[Ring] = 0 /\ \A m, n \in on \cup {Ring} : pos[m] = pos[n] => m = n
    BY DEF Linked, Numbering
  <2> QED
    BY <1>2, <1>3, <2>1 DEF Shifted
<1>6. \A m, n \in on' \cup {Ring} : s[m] = s[n] => m = n
  <2>1. \A m, n \in on : s[m] = s[n] => m = n
    BY <1>5 DEF Linked, Numbering
  <2> QED
    BY <1>3, <1>5, <2>1
<1>7. /\ next' = [next EXCEPT ![a] = next[Ring], ![Ring] = a]
      /\ prev' = [prev EXCEPT ![a] = Ring, ![next[Ring]] = a]
      /\ next \in [Node -> Node] /\ prev \in [Node -> Node] /\ a \in Node /\ Ring \in Node /\ on \subseteq Node
  BY DEF alt_llist_insert, AlarmTypes, Node
<1>8. /\ next[Ring] \in on \cup {Ring} /\ next[Ring] # a
      /\ next'[Ring] = a /\ next'[a] = next[Ring] /\ \A n \in Node \ {a, Ring} : next'[n] = next[n]
      /\ prev'[a] = Ring /\ prev'[next[Ring]] = a /\ \A n \in Node \ {a, next[Ring]} : prev'[n] = prev[n]
  <2>1. next[Ring] \in on \cup {Ring}
    BY DEF Linked, Numbering
  <2>2. next[Ring] # a
    BY <1>3, <2>1
  <2> QED
    BY <1>3, <1>7, <2>1, <2>2
<1>9. ASSUME NEW n \in on' \cup {Ring}
      PROVE  /\ next'[n] \in on' \cup {Ring} /\ prev'[n] \in on' \cup {Ring}
             /\ prev'[next'[n]] = n /\ next'[prev'[n]] = n
             /\ s[next'[n]] = IF s[n] = c + 1 THEN 0 ELSE s[n] + 1
  <2>0. \A m \in on \cup {Ring} :
          /\ next[m] \in on \cup {Ring} /\ prev[m] \in on \cup {Ring}
          /\ prev[next[m]] = m /\ next[prev[m]] = m
          /\ pos[next[m]] = IF pos[m] = c THEN 0 ELSE pos[m] + 1
    BY DEF Linked, Numbering
  <2>p. pos[Ring] = 0
    BY DEF Linked, Numbering
  <2>1. CASE n = Ring
    BY <1>1, <1>3, <1>5, <1>8, <2>0, <2>1, <2>p, <1>7
  <2>2. CASE n = a
    BY <1>1, <1>3, <1>5, <1>8, <2>0, <2>2, <2>p, <1>7
  <2>3. CASE n \in on
    <3>1. next'[n] = next[n] /\ next[n] # next[Ring]
      BY <1>3, <1>7, <1>8, <2>0, <2>3
    <3>2. next[n] \in Node \ {a, next[Ring]}
      BY <1>3, <1>7, <2>0, <2>3, <3>1
    <3>3. prev'[next'[n]] = n
      BY <1>8, <2>0, <2>3, <3>1, <3>2
    <3>4. prev'[n] \in on' \cup {Ring} /\ next'[prev'[n]] = n
      <4>1. CASE n = next[Ring]
        BY <1>8, <4>1
      <4>2. CASE n # next[Ring]
        <5>1. prev'[n] = prev[n] /\ prev[n] \in on
          BY <1>3, <1>7, <1>8, <2>0, <2>3, <4>2
        <5> QED
          BY <1>3, <1>7, <1>8, <2>0, <2>3, <5>1
      <4> QED
        BY <4>1, <4>2
    <3>5. s[next'[n]] = IF s[n] = c + 1 THEN 0 ELSE s[n] + 1
      <4>1. pos[next[n]] = IF pos[n] = c THEN 0 ELSE pos[n] + 1
        BY <2>0, <2>3
      <4>2. pos[n] \in 1 .. c /\ s[n] = pos[n] + 1
        BY <1>5, <2>3
      <4>3. CASE next[n] = Ring
        <5>1. pos[n] = c
          BY <1>1, <4>1, <4>2, <4>3, <2>p
        <5> QED
          BY <1>1, <1>5, <3>1, <4>2, <4>3, <5>1
      <4>4. CASE next[n] # Ring
        <5>1. next[n] \in on /\ pos[next[n]] \in 1 .. c /\ s[next[n]] = pos[next[n]] + 1
          BY <1>5, <2>0, <2>3, <4>4
        <5> QED
          BY <1>1, <3>1, <4>1, <4>2, <5>1
      <4> QED
        BY <4>3, <4>4
    <3> QED
      BY <2>0, <2>3, <3>1, <3>3, <3>4, <3>5
  <2> QED
    BY <2>1, <2>2, <2>3
<1>10. \A b \in Alarm \ on' : next'[b] = b /\ prev'[b] = b
  <2> SUFFICES ASSUME NEW b \in Alarm \ on' PROVE next'[b] = b /\ prev'[b] = b
    OBVIOUS
  <2>1. b \in Node /\ b # Ring /\ b # a /\ b \notin on /\ b # next[Ring]
    BY <1>3, <1>8, AlarmAssumption DEF Node
  <2>2. next[b] = b /\ prev[b] = b
    BY <2>1 DEF Linked
  <2> QED
    BY <1>8, <2>1, <2>2
<1> HIDE DEF s, c
<1>11. Numbering(s)'
  BY <1>1, <1>5, <1>6, <1>9 DEF Numbering
<1> QED
  BY <1>1, <1>4, <1>10, <1>11 DEF Linked, s

\* An alarm goes, and those behind it move up one place.
Closed(pos, a) == [n \in DOMAIN pos \ {a} |-> IF pos[n] > pos[a] THEN pos[n] - 1 ELSE pos[n]]

LEMMA Unlinking ==
  ASSUME NEW pos, NEW a, AlarmTypes, Linked(pos), a \in on,
         alt_llist_remove(a), on' = on \ {a}
  PROVE  Linked(Closed(pos, a))'
<1> DEFINE s == Closed(pos, a)
           c == Cardinality(on)
           R == on \cup {Ring}
<1>1. c \in Nat \ {0} /\ Cardinality(on') = c - 1
  <2>1. c \in Nat /\ Cardinality(on') = c - 1
    BY FS_RemoveElement, FS_CardinalityType DEF AlarmTypes
  <2>2. Cardinality(on') \in Nat
    BY FS_RemoveElement, FS_CardinalityType DEF AlarmTypes
  <2> QED
    BY <2>1, <2>2
<1>2. DOMAIN pos = R /\ \A n \in R : pos[n] \in 0 .. c
  BY DEF Linked
<1>3. a # Ring /\ Ring \notin on /\ a \in Node /\ Ring \in Node /\ R \subseteq Node /\ on' \cup {Ring} = R \ {a}
  BY AlarmAssumption DEF AlarmTypes, Node
<1>4. /\ pos[Ring] = 0
      /\ \A m, n \in R : pos[m] = pos[n] => m = n
      /\ \A n \in R : next[n] \in R /\ prev[n] \in R /\ prev[next[n]] = n /\ next[prev[n]] = n
      /\ \A n \in R : pos[next[n]] = IF pos[n] = c THEN 0 ELSE pos[n] + 1
  BY DEF Linked, Numbering
<1>5. pos[a] \in 1 .. c /\ next[a] # a /\ prev[a] # a
  <2>1. pos[a] \in 1 .. c
    BY <1>2, <1>3, <1>4
  <2>2. pos[next[a]] # pos[a]
    BY <1>1, <1>3, <1>4, <2>1
  <2> QED
    BY <1>4, <2>1, <2>2
<1>6. /\ \A n \in Node : next'[n] = IF n = a THEN a ELSE IF n = prev[a] THEN next[a] ELSE next[n]
      /\ \A n \in Node : prev'[n] = IF n = a THEN a ELSE IF n = next[a] THEN prev[a] ELSE prev[n]
  BY DEF alt_llist_remove, Unlinked
<1>7. \A n \in R \ {a} : s[n] = (IF pos[n] > pos[a] THEN pos[n] - 1 ELSE pos[n])
  BY <1>2 DEF Closed
<1>8. s \in [on' \cup {Ring} -> 0 .. c - 1]
  <2>1. s = [n \in R \ {a} |-> IF pos[n] > pos[a] THEN pos[n] - 1 ELSE pos[n]]
    BY <1>2 DEF Closed
  <2>2. ASSUME NEW n \in R \ {a} PROVE s[n] \in 0 .. c - 1
    BY <1>1, <1>2, <1>4, <1>5, <1>7
  <2> HIDE DEF s
  <2> QED
    BY <1>3, <2>1, <2>2
<1>9. s[Ring] = 0
  BY <1>3, <1>4, <1>5, <1>7
<1>10. \A m, n \in R \ {a} : s[m] = s[n] => m = n
  <2> SUFFICES ASSUME NEW m \in R \ {a}, NEW n \in R \ {a}, s[m] = s[n] PROVE m = n
    OBVIOUS
  <2>1. pos[m] # pos[a] /\ pos[n] # pos[a] /\ pos[m] \in Int /\ pos[n] \in Int /\ pos[a] \in Int
    BY <1>2, <1>4, <1>5
  <2>2. pos[m] = pos[n]
    BY <1>7, <2>1
  <2> QED
    BY <1>4, <2>2
<1>11. ASSUME NEW n \in R \ {a}
       PROVE  /\ next'[n] \in R \ {a} /\ prev'[n] \in R \ {a}
              /\ prev'[next'[n]] = n /\ next'[prev'[n]] = n
              /\ s[next'[n]] = IF s[n] = c - 1 THEN 0 ELSE s[n] + 1
  <2>1. next'[n] \in R \ {a} /\ prev'[next'[n]] = n
    <3>1. CASE n = prev[a]
      BY <1>3, <1>4, <1>5, <1>6, <3>1
    <3>2. CASE n # prev[a]
      <4>1. next'[n] = next[n] /\ next[n] # a /\ next[n] # next[a] /\ next[n] \in R
        BY <1>3, <1>4, <1>6, <3>2
      <4> QED
        BY <1>3, <1>4, <1>6, <4>1
    <3> QED
      BY <3>1, <3>2
  <2>2. prev'[n] \in R \ {a} /\ next'[prev'[n]] = n
    <3>1. CASE n = next[a]
      BY <1>3, <1>4, <1>5, <1>6, <3>1
    <3>2. CASE n # next[a]
      <4>1. prev'[n] = prev[n] /\ prev[n] # a /\ prev[n] # prev[a] /\ prev[n] \in R
        BY <1>3, <1>4, <1>6, <3>2
      <4> QED
        BY <1>3, <1>4, <1>6, <4>1
    <3> QED
      BY <3>1, <3>2
  <2>3. s[next'[n]] = IF s[n] = c - 1 THEN 0 ELSE s[n] + 1
    <3>0. pos[n] \in 0 .. c /\ pos[n] # pos[a]
      BY <1>2, <1>4
    <3>1. CASE n = prev[a]
      <4>1. next'[n] = next[a] /\ next[n] = a /\ next[a] \in R \ {a}
        BY <1>3, <1>4, <1>5, <1>6, <3>1
      <4>2. pos[a] = pos[n] + 1
        BY <1>4, <1>5, <3>0, <4>1
      <4>3. pos[next[a]] = (IF pos[a] = c THEN 0 ELSE pos[a] + 1)
        BY <1>3, <1>4
      <4>4. s[n] = pos[n]
        BY <1>5, <1>7, <3>0, <4>2
      <4>5. s[next[a]] = (IF pos[a] = c THEN 0 ELSE pos[a])
        BY <1>1, <1>5, <1>7, <4>1, <4>3
      <4> QED
        BY <1>1, <3>0, <4>1, <4>2, <4>4, <4>5
    <3>2. CASE n # prev[a]
      <4>1. next'[n] = next[n] /\ next[n] \in R \ {a}
        BY <1>3, <1>4, <1>6, <3>2
      <4>2. pos[next[n]] = (IF pos[n] = c THEN 0 ELSE pos[n] + 1) /\ pos[next[n]] # pos[a]
        BY <1>4, <4>1
      <4>3. s[next[n]] = (IF pos[next[n]] > pos[a] THEN pos[next[n]] - 1 ELSE pos[next[n]])
        BY <1>7, <4>1
      <4>4. s[n] = (IF pos[n] > pos[a] THEN pos[n] - 1 ELSE pos[n])
        BY <1>7
      <4>5. pos[n] = c => s[n] = c - 1 /\ s[next[n]] = 0
        BY <1>1, <1>5, <3>0, <4>2, <4>3, <4>4
      <4>6. pos[n] # c => s[n] # c - 1 /\ s[next[n]] = s[n] + 1
        \* the last but one is in front of a only if a is the last
        <5>1. SUFFICES ASSUME pos[n] # c PROVE s[n] # c - 1 /\ s[next[n]] = s[n] + 1
          OBVIOUS
        <5>2. CASE pos[n] > pos[a]
          BY <1>1, <1>5, <3>0, <4>2, <4>3, <4>4, <5>1, <5>2
        <5>3. CASE pos[n] < pos[a]
          BY <1>1, <1>5, <3>0, <4>2, <4>3, <4>4, <5>1, <5>3
        <5> QED
          BY <1>5, <3>0, <5>2, <5>3
      <4> QED
        BY <4>1, <4>5, <4>6
    <3> QED
      BY <3>1, <3>2
  <2> QED
    BY <2>1, <2>2, <2>3
<1>12. \A b \in Alarm \ on' : next'[b] = b /\ prev'[b] = b
  <2> SUFFICES ASSUME NEW b \in Alarm \ on', b # a PROVE next'[b] = b /\ prev'[b] = b
    BY <1>3, <1>6
  <2>1. b \in Node /\ b \notin R
    BY AlarmAssumption DEF Node
  <2>2. next[b] = b /\ prev[b] = b
    BY <2>1 DEF Linked
  <2>3. b # next[a] /\ b # prev[a]
    BY <1>3, <1>4, <2>1
  <2> QED
    BY <1>6, <2>1, <2>2, <2>3
<1> HIDE DEF s, c, R
<1>13. Numbering(s)'
  BY <1>1, <1>3, <1>9, <1>10, <1>11 DEF Numbering
<1> QED
  BY <1>1, <1>8, <1>12, <1>13 DEF Linked, s

\* The alarms that are off are unlinked already: to remove one changes nothing.
LEMMA TakenTwice ==
  ASSUME NEW pos, NEW a, AlarmTypes, Linked(pos), a \in Alarm, a \notin on, alt_llist_remove(a)
  PROVE  next' = next /\ prev' = prev
<1>1. next[a] = a /\ prev[a] = a
  BY DEF Linked
<1>2. \A n \in Node : next'[n] = next[n] /\ prev'[n] = prev[n]
  BY <1>1 DEF alt_llist_remove, Unlinked
<1>3. next' \in [Node -> Node] /\ prev' \in [Node -> Node]
  <2>1. next' = [n \in Node |-> next'[n]] /\ prev' = [n \in Node |-> prev'[n]]
    BY DEF alt_llist_remove, Unlinked
  <2> QED
    BY <1>2, <2>1 DEF AlarmTypes
<1> QED
  BY <1>2, <1>3 DEF AlarmTypes

\* The types, whatever is done to the list.
LEMMA LinksTyped ==
  ASSUME NEW a \in Alarm, AlarmTypes, alt_llist_insert(a) \/ alt_llist_remove(a)
  PROVE  next' \in [Node -> Node] /\ prev' \in [Node -> Node]
<1>1. a \in Node /\ Ring \in Node
  BY DEF Node
<1>2. CASE alt_llist_insert(a)
  BY <1>1, <1>2 DEF AlarmTypes, alt_llist_insert
<1>3. CASE alt_llist_remove(a)
  BY <1>1, <1>3 DEF AlarmTypes, alt_llist_remove, Unlinked
<1> QED
  BY <1>2, <1>3
-----------------------------------------------------------------------------
\* What the numbers along the list are.
LEMMA Places ==
  ASSUME NEW pos, AlarmTypes, Linked(pos)
  PROVE  /\ Cardinality(on) \in Nat /\ Ring \notin on /\ DOMAIN pos = on \cup {Ring} /\ pos[Ring] = 0
         /\ \A n \in on \cup {Ring} : pos[n] \in Int /\ pos[n] >= 0 /\ pos[n] <= Cardinality(on)
         /\ \A n \in on : pos[n] > 0
         /\ \A m, n \in on \cup {Ring} : pos[m] = pos[n] => m = n
         /\ \A n \in on \cup {Ring} : next[n] \in on \cup {Ring}
         /\ \A n \in on \cup {Ring} : pos[next[n]] = IF pos[n] = Cardinality(on) THEN 0 ELSE pos[n] + 1
<1>1. Cardinality(on) \in Nat /\ Ring \notin on
  BY FS_CardinalityType, AlarmAssumption DEF AlarmTypes
<1>2. \A n \in on \cup {Ring} : pos[n] \in 0 .. Cardinality(on)
  BY DEF Linked
<1>3. /\ pos[Ring] = 0
      /\ \A m, n \in on \cup {Ring} : pos[m] = pos[n] => m = n
  BY DEF Linked, Numbering
<1>4. \A n \in on : pos[n] > 0
  BY <1>1, <1>2, <1>3
<1> QED
  BY <1>1, <1>2, <1>3, <1>4 DEF Linked, Numbering

\* alt_alarm_start, between two ticks or from the callback of another alarm.
LEMMA StartKeeps ==
  ASSUME Gentle, AlarmInv, NEW a \in Alarm, NEW n \in Waits,
         Idle \/ called # Ring, a # called, alt_alarm_start(a, n)
  PROVE  AlarmInv'
<1>1. AlarmTypes /\ early = FALSE
  BY DEF AlarmInv
<1>2. PICK pos : Kept(pos)
  BY DEF AlarmInv
<1>3. Linked(pos) /\ Walking(pos) /\ Timed(pos)
  BY <1>2 DEF Kept
<1> DEFINE s == Shifted(pos, a)
<1>4. /\ a \notin on /\ a # Ring /\ on' = on \cup {a}
      /\ UNCHANGED <<nticks, at, after, called, early>>
  BY AlarmAssumption DEF alt_alarm_start
<1>5. Linked(s)'
  BY <1>1, <1>3, <1>4, Inserted DEF alt_alarm_start
<1>6. n \in Int /\ 0 <= n /\ n <= Wrap - 2 /\ Wrap \in Int /\ nticks \in Int /\ 0 <= nticks /\ nticks <= Wrap - 1
  BY <1>1, AlarmAssumption DEF Gentle, AlarmTypes
<1>7. (n + nticks + 1) % Wrap = IF n + nticks + 1 < Wrap THEN n + nticks + 1 ELSE n + nticks + 1 - Wrap
  BY ONLY <1>6, Z3
<1>8. /\ time' = [time EXCEPT ![a] = IF n + nticks + 1 < Wrap THEN n + nticks + 1 ELSE n + nticks + 1 - Wrap]
      /\ rollover' = [rollover EXCEPT ![a] = time'[a] < nticks]
      /\ due_in' = [due_in EXCEPT ![a] = n + 1]
  BY <1>7 DEF alt_alarm_start
<1>9. AlarmTypes'
  <2>1. next' \in [Node -> Node] /\ prev' \in [Node -> Node]
    BY <1>1, LinksTyped DEF alt_alarm_start
  <2>2. on' \subseteq Alarm /\ IsFiniteSet(on')
    BY <1>1, <1>4, FS_AddElement DEF AlarmTypes
  <2> QED
    BY <1>1, <1>4, <1>6, <1>8, <2>1, <2>2 DEF AlarmTypes
<1>10. /\ DOMAIN pos = on \cup {Ring} /\ Ring \notin on
       /\ \A m \in on \cup {Ring} : pos[m] \in Int
       /\ \A m \in on : pos[m] > 0
  BY <1>1, <1>3, Places
<1>11. /\ s[Ring] = 0 /\ s[a] = 1 /\ \A m \in on : s[m] = pos[m] + 1
  BY <1>4, <1>10 DEF Shifted
<1>12. Front' = Front /\ Front \in on \cup {Ring} /\ called \notin {a} /\ (called = Ring => Front = Ring)
  BY <1>3, <1>4 DEF Front, Walking, Idle
<1> HIDE DEF s
<1>13. Walking(s)'
  BY <1>3, <1>4, <1>10, <1>11, <1>12 DEF Walking, Front
<1>14. \A b \in on : Passed(s, b)' <=> Passed(pos, b)
  BY <1>4, <1>10, <1>11, <1>12 DEF Passed
<1>15. Passed(s, a)'
  BY <1>10, <1>11, <1>12 DEF Passed
<1>16. OneTimed(s, a)'
  <2>1. due_in'[a] = n + 1 /\ time'[a] = (IF n + nticks + 1 < Wrap THEN n + nticks + 1 ELSE n + nticks + 1 - Wrap)
    BY <1>1, <1>8 DEF AlarmTypes
  <2>2. rollover'[a] <=> time'[a] < nticks
    BY <1>1, <1>8 DEF AlarmTypes
  <2>3. Ahead(a)'
    <3>1. CASE n + nticks + 1 < Wrap
      <4>1. time'[a] = nticks' + due_in'[a] /\ nticks' + due_in'[a] < Wrap /\ ~ rollover'[a]
        BY <1>4, <1>6, <2>1, <2>2, <3>1
      <4> QED
        BY ONLY <4>1 DEF Ahead
    <3>2. CASE ~ (n + nticks + 1 < Wrap)
      <4>1. time'[a] = nticks' + due_in'[a] - Wrap /\ ~ (nticks' + due_in'[a] < Wrap) /\ rollover'[a]
        BY <1>4, <1>6, <2>1, <2>2, <3>2
      <4> QED
        BY ONLY <4>1 DEF Ahead
    <3> QED
      BY <3>1, <3>2
  <2> QED
    BY <1>4, <1>6, <1>12, <1>15, <2>1, <2>3 DEF OneTimed
<1>17. \A b \in on : OneTimed(s, b)'
  <2> SUFFICES ASSUME NEW b \in on PROVE OneTimed(s, b)'
    OBVIOUS
  <2>1. OneTimed(pos, b)
    BY <1>3 DEF Timed
  <2>2. due_in'[b] = due_in[b] /\ time'[b] = time[b] /\ rollover'[b] = rollover[b]
    BY <1>1, <1>4, <1>8 DEF AlarmTypes
  <2>3. Passed(s, b)' <=> Passed(pos, b)
    BY <1>14
  <2>4. nticks' = nticks /\ called' = called
    BY <1>4
  <2> QED
    BY ONLY <2>1, <2>2, <2>3, <2>4 DEF OneTimed, Ahead, Behind
<1>18. Timed(s)'
  BY <1>4, <1>16, <1>17 DEF Timed
<1> QED
  BY <1>1, <1>4, <1>5, <1>9, <1>13, <1>18 DEF AlarmInv, Kept

\* An alarm leaves the list: between two ticks any, from a callback its own.
LEMMA LeaveKeeps ==
  ASSUME AlarmInv, NEW a \in on, Idle \/ a = called,
         alt_llist_remove(a), on' = on \ {a},
         UNCHANGED <<time, rollover, nticks, due_in, early>>,
         \/ UNCHANGED <<at, after, called>>
         \/ (at' = after /\ called' = Ring /\ UNCHANGED after /\ a = called)
  PROVE  AlarmInv'
<1>1. AlarmTypes /\ early = FALSE
  BY DEF AlarmInv
<1>2. PICK pos : Kept(pos)
  BY DEF AlarmInv
<1>3. Linked(pos) /\ Walking(pos) /\ Timed(pos)
  BY <1>2 DEF Kept
<1> DEFINE s == Closed(pos, a)
<1>4. Linked(s)'
  BY <1>1, <1>3, Unlinking
<1>5. AlarmTypes'
  <2>1. next' \in [Node -> Node] /\ prev' \in [Node -> Node]
    BY <1>1, LinksTyped DEF AlarmTypes
  <2>2. on' \subseteq Alarm /\ IsFiniteSet(on')
    BY <1>1, FS_RemoveElement DEF AlarmTypes
  <2> QED
    BY <1>1, <2>1, <2>2 DEF AlarmTypes, Node
<1>6. /\ DOMAIN pos = on \cup {Ring} /\ Ring \notin on
      /\ \A m \in on \cup {Ring} : pos[m] \in Int
      /\ \A m \in on : pos[m] > 0
      /\ \A m, n \in on \cup {Ring} : pos[m] = pos[n] => m = n
  BY <1>1, <1>3, Places
<1>7. \A m \in (on \cup {Ring}) \ {a} : s[m] = IF pos[m] > pos[a] THEN pos[m] - 1 ELSE pos[m]
  BY <1>6 DEF Closed
<1>8. Front' = Front /\ Front \in (on \cup {Ring}) \ {a}
  BY <1>1, <1>3, <1>6 DEF Front, Walking, Idle
<1> HIDE DEF s
<1>10. Walking(s)'
  <2>1. called' \notin on'
    BY <1>6 DEF Idle
  <2> QED
    BY <1>3, <1>8, <2>1 DEF Walking, Front
<1>11. \A b \in on' : Passed(s, b)' <=> Passed(pos, b)
  <2> SUFFICES ASSUME NEW b \in on \ {a} PROVE Passed(s, b)' <=> Passed(pos, b)
    OBVIOUS
  <2>1. CASE Front = Ring
    BY <1>8, <2>1 DEF Passed
  <2>2. CASE Front # Ring
    <3> DEFINE f == Front
    <3>1. f \in on \ {a} /\ f # Ring /\ Front' = f
      BY <1>8, <2>2
    <3>2. pos[f] \in Int /\ pos[b] \in Int /\ pos[a] \in Int /\ pos[f] # pos[a] /\ pos[b] # pos[a]
      BY <1>6, <3>1
    <3>3. s[f] = (IF pos[f] > pos[a] THEN pos[f] - 1 ELSE pos[f]) /\ s[b] = (IF pos[b] > pos[a] THEN pos[b] - 1 ELSE pos[b])
      BY <1>6, <1>7, <3>1
    <3>4. s[b] < s[f] <=> pos[b] < pos[f]
      BY ONLY <3>2, <3>3
    <3> QED
      BY <3>1, <3>4 DEF Passed
  <2> QED
    BY <2>1, <2>2
<1>12. Timed(s)'
  <2> SUFFICES ASSUME NEW b \in on' PROVE OneTimed(s, b)'
    BY DEF Timed
  <2>1. OneTimed(pos, b) /\ b # called /\ b # called'
    BY <1>3, <1>6 DEF Timed, Idle
  <2>2. Passed(s, b)' <=> Passed(pos, b)
    BY <1>11
  <2>3. due_in'[b] = due_in[b] /\ time'[b] = time[b] /\ rollover'[b] = rollover[b] /\ nticks' = nticks
    OBVIOUS
  <2> QED
    BY ONLY <2>1, <2>2, <2>3 DEF OneTimed, Ahead, Behind
<1> QED
  BY <1>1, <1>4, <1>5, <1>10, <1>12 DEF AlarmInv, Kept
-----------------------------------------------------------------------------
\* The count goes on: every alarm is one tick nearer, and rollover is out of date
\* for all of them when the count has wrapped.
LEMMA BeginKeeps == ASSUME AlarmInv, TickBegins PROVE AlarmInv'
<1>1. AlarmTypes /\ early = FALSE
  BY DEF AlarmInv
<1>2. PICK pos : Kept(pos)
  BY DEF AlarmInv
<1>3. Linked(pos) /\ Walking(pos) /\ Timed(pos)
  BY <1>2 DEF Kept
<1>4. /\ at = Ring /\ called = Ring /\ at' = next[Ring]
      /\ nticks' = (nticks + 1) % Wrap
      /\ due_in' = [a \in Alarm |-> IF a \in on /\ due_in[a] > 0 THEN due_in[a] - 1 ELSE due_in[a]]
      /\ UNCHANGED <<next, prev, time, rollover, after, called, on, early>>
  BY DEF TickBegins, Idle
<1>5. Wrap \in Int /\ Wrap > 0 /\ nticks \in Int /\ 0 <= nticks /\ nticks <= Wrap - 1
  BY <1>1, AlarmAssumption DEF AlarmTypes
<1>6. nticks' = IF nticks + 1 < Wrap THEN nticks + 1 ELSE 0
  <2>1. (nticks + 1) % Wrap = IF nticks + 1 < Wrap THEN nticks + 1 ELSE 0
    BY ONLY <1>5, Z3
  <2> QED
    BY <1>4, <2>1
<1>7. /\ Cardinality(on) \in Nat /\ Ring \notin on /\ pos[Ring] = 0
      /\ \A m \in on : pos[m] \in Int /\ pos[m] > 0 /\ pos[m] <= Cardinality(on)
      /\ next[Ring] \in on \cup {Ring}
      /\ pos[next[Ring]] = IF Cardinality(on) = 0 THEN 0 ELSE 1
  BY <1>1, <1>3, Places
<1>8. Front' = next[Ring] /\ Front = Ring
  BY <1>4 DEF Front
<1>9. \A b \in on : ~ Passed(pos, b)'
  BY <1>4, <1>7, <1>8 DEF Passed
<1>10. AlarmTypes'
  <2>1. at' \in Node /\ nticks' \in 0 .. Wrap - 1
    BY <1>1, <1>4, <1>5, <1>6 DEF AlarmTypes, Node
  <2>2. due_in' \in [Alarm -> Int]
    BY <1>1, <1>4 DEF AlarmTypes
  <2> QED
    BY <1>1, <1>4, <2>1, <2>2 DEF AlarmTypes
<1>11. Linked(pos)'
  BY <1>3, <1>4 DEF Linked, Numbering
<1>12. Walking(pos)'
  BY <1>4, <1>7, <1>8 DEF Walking
<1>13. Timed(pos)'
  <2> SUFFICES ASSUME NEW b \in on PROVE OneTimed(pos, b)'
    BY <1>4 DEF Timed
  <2>1. b \in Alarm /\ b # called /\ b # called'
    BY <1>1, <1>4, <1>7 DEF AlarmTypes
  <2>2. Passed(pos, b) /\ ~ Passed(pos, b)'
    BY <1>8, <1>9 DEF Passed
  <2>3. due_in[b] \in 0 .. Wrap - 1 /\ due_in[b] > 0 /\ Ahead(b)
    BY <1>3, <2>1, <2>2 DEF Timed, OneTimed
  <2>4. due_in'[b] = due_in[b] - 1 /\ time'[b] = time[b] /\ rollover'[b] = rollover[b]
    BY <1>4, <2>1, <2>3
  <2>5. Behind(b)'
    <3>1. CASE nticks + 1 < Wrap
      <4>1. nticks' # 0 /\ nticks' + due_in'[b] = nticks + due_in[b]
        BY <1>5, <1>6, <2>3, <2>4, <3>1
      <4>2. nticks' \in Int /\ due_in'[b] \in Int /\ nticks \in Int /\ due_in[b] \in Int /\ Wrap \in Int
        BY <1>5, <1>6, <2>3, <2>4
      <4>3. CASE nticks + due_in[b] < Wrap
        <5>1. time'[b] = nticks' + due_in'[b] /\ nticks' + due_in'[b] < Wrap /\ ~ rollover'[b]
          BY ONLY <2>3, <2>4, <4>1, <4>2, <4>3 DEF Ahead
        <5> QED
          BY ONLY <4>1, <5>1 DEF Ahead, Behind
      <4>4. CASE ~ (nticks + due_in[b] < Wrap)
        <5>1. time'[b] = nticks' + due_in'[b] - Wrap /\ ~ (nticks' + due_in'[b] < Wrap) /\ rollover'[b]
          BY ONLY <2>3, <2>4, <4>1, <4>2, <4>4 DEF Ahead
        <5> QED
          BY ONLY <4>1, <5>1 DEF Ahead, Behind
      <4> QED
        BY <4>3, <4>4
    <3>2. CASE ~ (nticks + 1 < Wrap)
      <4>1. nticks' = 0 /\ nticks = Wrap - 1 /\ ~ (nticks + due_in[b] < Wrap)
        BY <1>5, <1>6, <2>3, <3>2
      <4>2. time[b] = nticks + due_in[b] - Wrap /\ rollover[b]
        BY <2>3, <4>1 DEF Ahead
      <4>3. time'[b] = due_in'[b] /\ rollover'[b]
        BY <1>5, <2>3, <2>4, <4>1, <4>2
      <4> QED
        BY <4>1, <4>3 DEF Behind
    <3> QED
      BY <3>1, <3>2
  <2> QED
    BY <1>5, <2>1, <2>2, <2>3, <2>4, <2>5 DEF OneTimed
<1> QED
  BY <1>1, <1>4, <1>10, <1>11, <1>12, <1>13 DEF AlarmInv, Kept

\* One alarm is looked at: it is called exactly if its ticks are over, and its
\* rollover is brought up to date.
LEMMA LookKeeps == ASSUME AlarmInv, LookAt PROVE AlarmInv'
<1>1. AlarmTypes /\ early = FALSE
  BY DEF AlarmInv
<1>2. PICK pos : Kept(pos)
  BY DEF AlarmInv
<1>3. Linked(pos) /\ Walking(pos) /\ Timed(pos)
  BY <1>2 DEF Kept
<1>4. PICK w : w = at
  OBVIOUS
<1>41. /\ w # Ring /\ called = Ring /\ after' = next[w]
       /\ rollover' = [rollover EXCEPT ![w] = @ /\ nticks # 0]
       /\ IF Due(w)
          THEN called' = w /\ early' = (early \/ (w \in on /\ due_in[w] > 0)) /\ UNCHANGED at
          ELSE at' = next[w] /\ UNCHANGED <<called, early>>
       /\ UNCHANGED <<next, prev, time, nticks, on, due_in>>
  BY <1>4 DEF LookAt
<1>5. Wrap \in Int /\ Wrap > 0 /\ nticks \in Int /\ 0 <= nticks /\ nticks <= Wrap - 1
  BY <1>1, AlarmAssumption DEF AlarmTypes
<1>6. /\ Cardinality(on) \in Nat /\ Ring \notin on /\ pos[Ring] = 0
      /\ \A m \in on : pos[m] \in Int /\ pos[m] > 0 /\ pos[m] <= Cardinality(on)
      /\ \A m, n \in on \cup {Ring} : pos[m] = pos[n] => m = n
      /\ \A m \in on : next[m] \in on \cup {Ring}
      /\ \A m \in on : pos[next[m]] = IF pos[m] = Cardinality(on) THEN 0 ELSE pos[m] + 1
  BY <1>1, <1>3, Places
<1>7. w = at /\ Front = w /\ Front' = next[w] /\ w \in on /\ w \in Alarm /\ next[w] \in on \cup {Ring}
  <2>1. w = at /\ Front = w /\ w \in on /\ w \in Alarm
    BY <1>1, <1>3, <1>4, <1>41 DEF Front, Walking, AlarmTypes
  <2>2. Front' = next[w]
    BY <1>4, <1>41 DEF Front
  <2> QED
    BY <1>6, <2>1, <2>2
<1>8. ~ Passed(pos, w) /\ Passed(pos, w)'
  BY <1>4, <1>41, <1>6, <1>7 DEF Passed
<1>9. \A b \in on \ {w} : Passed(pos, b)' <=> Passed(pos, b)
  <2> SUFFICES ASSUME NEW b \in on \ {w} PROVE Passed(pos, b)' <=> Passed(pos, b)
    OBVIOUS
  <2>1. pos[b] # pos[w] /\ pos[b] \in Int /\ pos[w] \in Int /\ pos[b] <= Cardinality(on)
    BY <1>6, <1>7
  <2>2. Passed(pos, b) <=> pos[b] < pos[w]
    BY <1>4, <1>41, <1>7 DEF Passed
  <2>3. CASE next[w] = Ring
    BY <1>6, <1>7, <2>1, <2>2, <2>3 DEF Passed
  <2>4. CASE next[w] # Ring
    <3>1. pos[next[w]] = pos[w] + 1
      BY <1>6, <1>7, <2>4
    <3> QED
      BY <1>7, <2>1, <2>2, <2>4, <3>1 DEF Passed
  <2> QED
    BY <2>3, <2>4
<1>10. due_in[w] \in 0 .. Wrap - 1 /\ Behind(w) /\ rollover[w] \in BOOLEAN
  BY <1>1, <1>3, <1>4, <1>41, <1>7, <1>8 DEF Timed, OneTimed, AlarmTypes
<1>11. rollover'[w] <=> rollover[w] /\ nticks # 0
  BY <1>1, <1>4, <1>41, <1>7 DEF AlarmTypes
<1>12. /\ Due(w) <=> due_in[w] = 0
       /\ Due(w) => time[w] = nticks /\ ~ rollover'[w]
       /\ Ahead(w)'
  <2>0. due_in'[w] = due_in[w] /\ time'[w] = time[w] /\ nticks' = nticks
    BY <1>4, <1>41
  <2>1. CASE nticks = 0
    <3>1. time[w] = due_in[w] /\ ~ rollover'[w]
      BY <1>10, <1>11, <2>1 DEF Behind
    <3>2. Due(w) <=> due_in[w] = 0
      BY <1>10, <2>1, <3>1 DEF Due
    <3>3. Ahead(w)'
      BY <1>5, <1>10, <2>0, <2>1, <3>1 DEF Ahead
    <3> QED
      BY <2>1, <3>1, <3>2, <3>3
  <2>2. CASE nticks # 0
    <3>1. Ahead(w) /\ (rollover'[w] <=> rollover[w])
      BY <1>10, <1>11, <2>2 DEF Behind
    <3>2. Ahead(w)'
      BY <2>0, <3>1 DEF Ahead
    <3>3. CASE nticks + due_in[w] < Wrap
      BY <1>5, <1>10, <2>2, <3>1, <3>2, <3>3 DEF Ahead, Due
    <3>4. CASE ~ (nticks + due_in[w] < Wrap)
      BY <1>5, <1>10, <2>2, <3>1, <3>2, <3>4 DEF Ahead, Due
    <3> QED
      BY <3>3, <3>4
  <2> QED
    BY <2>1, <2>2
<1>13. early' = FALSE
  BY <1>1, <1>4, <1>41, <1>10, <1>12
<1>14. AlarmTypes'
  <2>1. rollover' \in [Alarm -> BOOLEAN]
    BY <1>1, <1>4, <1>41, <1>7 DEF AlarmTypes
  <2>2. at' \in Node /\ called' \in Node /\ after' \in Node
    BY <1>1, <1>4, <1>41, <1>7 DEF AlarmTypes, Node
  <2> QED
    BY <1>1, <1>4, <1>41, <2>1, <2>2 DEF AlarmTypes
<1>15. Linked(pos)'
  BY <1>3, <1>4, <1>41 DEF Linked, Numbering
<1>16. Walking(pos)'
  <2>1. Due(w) /\ next[w] # Ring => pos[w] < pos[next[w]]
    BY <1>6, <1>7
  <2> QED
    BY <1>4, <1>41, <1>6, <1>7, <2>1 DEF Walking
<1>17. Timed(pos)'
  <2> SUFFICES ASSUME NEW b \in on PROVE OneTimed(pos, b)'
    BY <1>4, <1>41 DEF Timed
  <2>1. CASE b = w
    <3>1. called' = w <=> Due(w)
      BY <1>4, <1>41
    <3>2. due_in'[w] = due_in[w] /\ time'[w] = time[w] /\ nticks' = nticks
      BY <1>4, <1>41
    <3>3. due_in[w] = 0 \/ due_in[w] > 0
      BY <1>10
    <3> QED
      BY <1>8, <1>10, <1>12, <2>1, <3>1, <3>2, <3>3 DEF OneTimed
  <2>2. CASE b # w
    <3>1. b \in Alarm /\ b # called /\ b # called'
      BY <1>1, <1>4, <1>41, <1>6, <2>2 DEF AlarmTypes
    <3>2. due_in'[b] = due_in[b] /\ time'[b] = time[b] /\ nticks' = nticks /\ rollover'[b] = rollover[b]
      BY <1>1, <1>4, <1>41, <2>2, <3>1 DEF AlarmTypes
    <3>3. OneTimed(pos, b) /\ (Passed(pos, b)' <=> Passed(pos, b))
      BY <1>3, <1>9, <2>2 DEF Timed
    <3> QED
      BY ONLY <3>1, <3>2, <3>3 DEF OneTimed, Ahead, Behind
  <2> QED
    BY <2>1, <2>2
<1> QED
  BY <1>13, <1>14, <1>15, <1>16, <1>17 DEF AlarmInv, Kept

\* The callback returns the ticks till the next time, or 0 for never again.
LEMMA ReturnKeeps == ASSUME AlarmInv, NEW r \in Returns, CallbackReturns(r) PROVE AlarmInv'
<1>1. AlarmTypes /\ early = FALSE
  BY DEF AlarmInv
<1>2. PICK pos : Kept(pos)
  BY DEF AlarmInv
<1>3. Linked(pos) /\ Walking(pos) /\ Timed(pos)
  BY <1>2 DEF Kept
<1>4. called # Ring /\ at' = after /\ called' = Ring /\ UNCHANGED <<nticks, after, early>> /\ called \in Alarm
  BY <1>1 DEF CallbackReturns, AlarmTypes, Node
<1>5. Wrap \in Int /\ Wrap > 0 /\ nticks \in Int /\ 0 <= nticks /\ nticks <= Wrap - 1
      /\ r \in Int /\ 0 <= r /\ r <= Wrap - 1
  BY <1>1, AlarmAssumption DEF AlarmTypes
<1>6. Front' = Front
  BY <1>4 DEF Front
<1>7. Ring \notin on
  BY <1>1, <1>3, Places
<1>8. CASE r = 0 /\ called \in on
  BY <1>4, <1>8, LeaveKeeps DEF CallbackReturns
<1>9. CASE r = 0 /\ called \notin on
  <2>1. next' = next /\ prev' = prev
    BY <1>1, <1>3, <1>4, <1>9, TakenTwice DEF CallbackReturns
  <2>2. on' = on /\ UNCHANGED <<time, rollover, due_in>>
    BY <1>9 DEF CallbackReturns
  <2>3. AlarmTypes'
    BY <1>1, <1>4, <2>1, <2>2 DEF AlarmTypes, Node
  <2>4. Linked(pos)'
    BY <1>3, <2>1, <2>2 DEF Linked, Numbering
  <2>5. Walking(pos)'
    BY <1>3, <1>4, <1>6, <1>7, <2>2 DEF Walking
  <2>6. Timed(pos)'
    <3> SUFFICES ASSUME NEW b \in on PROVE OneTimed(pos, b)'
      BY <2>2 DEF Timed
    <3>1. OneTimed(pos, b) /\ b # called /\ b # called'
      BY <1>3, <1>4, <1>7, <1>9 DEF Timed
    <3>2. Passed(pos, b)' <=> Passed(pos, b)
      BY <1>6 DEF Passed
    <3>3. due_in'[b] = due_in[b] /\ time'[b] = time[b] /\ rollover'[b] = rollover[b] /\ nticks' = nticks
      BY <1>4, <2>2
    <3> QED
      BY ONLY <3>1, <3>2, <3>3 DEF OneTimed, Ahead, Behind
  <2> QED
    BY <1>1, <1>4, <2>3, <2>4, <2>5, <2>6 DEF AlarmInv, Kept
<1>10. CASE r # 0
  <2>1. /\ time' = [time EXCEPT ![called] = (@ + r) % Wrap]
        /\ rollover' = [rollover EXCEPT ![called] = @ \/ time'[called] < nticks]
        /\ due_in' = [due_in EXCEPT ![called] = r]
        /\ UNCHANGED <<next, prev, on>>
    BY <1>10 DEF CallbackReturns
  <2>2. AlarmTypes'
    <3>1. (time[called] + r) % Wrap \in Int
      <4>1. time[called] + r \in Int
        BY <1>1, <1>4, <1>5 DEF AlarmTypes
      <4> QED
        BY ONLY <4>1, <1>5, Z3
    <3>2. time' \in [Alarm -> Int] /\ due_in' \in [Alarm -> Int] /\ rollover' \in [Alarm -> BOOLEAN]
      BY <1>1, <1>4, <1>5, <2>1, <3>1 DEF AlarmTypes
    <3> QED
      BY <1>1, <1>4, <2>1, <3>2 DEF AlarmTypes, Node
  <2>3. Linked(pos)'
    BY <1>3, <2>1 DEF Linked, Numbering
  <2>4. Walking(pos)'
    BY <1>3, <1>4, <1>6, <1>7, <2>1 DEF Walking
  <2>5. Timed(pos)'
    <3> SUFFICES ASSUME NEW b \in on PROVE OneTimed(pos, b)'
      BY <2>1 DEF Timed
    <3>1. (Passed(pos, b)' <=> Passed(pos, b)) /\ b # called' /\ b \in Alarm /\ nticks' = nticks
      BY <1>1, <1>4, <1>6, <1>7 DEF Passed, AlarmTypes
    <3>2. OneTimed(pos, b)
      BY <1>3 DEF Timed
    <3>3. CASE b # called
      <4>1. due_in'[b] = due_in[b] /\ time'[b] = time[b] /\ rollover'[b] = rollover[b]
        BY <1>1, <2>1, <3>1, <3>3 DEF AlarmTypes
      <4> QED
        BY ONLY <3>1, <3>2, <3>3, <4>1 DEF OneTimed, Ahead, Behind
    <3>4. CASE b = called
      <4>1. due_in[b] = 0 /\ time[b] = nticks /\ ~ rollover[b]
        BY <3>2, <3>4 DEF OneTimed
      <4>2. Passed(pos, b)'
        BY <1>3, <1>4, <1>6, <3>4 DEF Passed, Walking, Front
      <4>3. (nticks + r) % Wrap = IF nticks + r < Wrap THEN nticks + r ELSE nticks + r - Wrap
        BY ONLY <1>5, Z3
      <4>4. /\ due_in'[b] = r
            /\ time'[b] = (IF nticks + r < Wrap THEN nticks + r ELSE nticks + r - Wrap)
            /\ rollover'[b] <=> time'[b] < nticks
        BY <1>1, <2>1, <3>1, <3>4, <4>1, <4>3 DEF AlarmTypes
      <4>5. Ahead(b)'
        <5>1. CASE nticks + r < Wrap
          BY <1>5, <3>1, <4>4, <5>1 DEF Ahead
        <5>2. CASE ~ (nticks + r < Wrap)
          BY <1>5, <3>1, <4>4, <5>2 DEF Ahead
        <5> QED
          BY <5>1, <5>2
      <4> QED
        BY <1>5, <1>10, <3>1, <4>2, <4>4, <4>5 DEF OneTimed
    <3> QED
      BY <3>3, <3>4
  <2> QED
    BY <1>1, <1>4, <2>2, <2>3, <2>4, <2>5 DEF AlarmInv, Kept
<1> QED
  BY <1>8, <1>9, <1>10

LEMMA AlarmStep == Gentle /\ AlarmInv /\ [AlarmNext]_avars => AlarmInv'
<1> SUFFICES ASSUME Gentle, AlarmInv, [AlarmNext]_avars PROVE AlarmInv'
  OBVIOUS
<1>1. CASE Idle /\ \E a \in Alarm : alt_alarm_stop(a) \/ \E n \in Waits : alt_alarm_start(a, n)
  <2>1. Idle
    BY <1>1
  <2>2. PICK a \in Alarm : alt_alarm_stop(a) \/ \E n \in Waits : alt_alarm_start(a, n)
    BY <1>1
  <2>3. a # called
    BY <2>1, AlarmAssumption DEF Idle
  <2>4. CASE alt_alarm_stop(a)
    BY <2>1, <2>4, LeaveKeeps DEF alt_alarm_stop
  <2>5. CASE \E n \in Waits : alt_alarm_start(a, n)
    BY <2>1, <2>3, <2>5, StartKeeps
  <2> QED
    BY <2>2, <2>4, <2>5
<1>2. CASE TickBegins
  BY <1>2, BeginKeeps
<1>3. CASE LookAt
  BY <1>3, LookKeeps
<1>4. CASE Meddles
  <2>1. called # Ring
    BY <1>4 DEF Meddles
  <2>2. PICK a \in Alarm : \/ a # called /\ \E n \in Waits : alt_alarm_start(a, n)
                           \/ a = called /\ alt_alarm_stop(a)
    BY <1>4 DEF Meddles, Gentle
  <2>3. CASE a # called /\ \E n \in Waits : alt_alarm_start(a, n)
    BY <2>1, <2>3, StartKeeps
  <2>4. CASE a = called /\ alt_alarm_stop(a)
    BY <2>4, LeaveKeeps DEF alt_alarm_stop
  <2> QED
    BY <2>2, <2>3, <2>4
<1>5. CASE \E r \in Returns : CallbackReturns(r)
  BY <1>5, ReturnKeeps
<1>6. CASE UNCHANGED avars
  BY <1>6 DEF avars, AlarmInv, AlarmTypes, Kept, Linked, Numbering, Walking, Front, Timed, OneTimed, Passed, Ahead, Behind
<1> QED
  BY <1>1, <1>2, <1>3, <1>4, <1>5, <1>6 DEF AlarmNext, alt_tick

LEMMA InvIsOnTime == AlarmInv => AlarmsOnTime
<1> SUFFICES ASSUME AlarmInv PROVE AlarmsOnTime
  OBVIOUS
<1>1. PICK pos : Kept(pos)
  BY DEF AlarmInv
<1>2. RingExact
  BY <1>1 DEF Kept, Linked, RingExact
<1>3. ASSUME Idle, NEW a \in on PROVE due_in[a] > 0
  <2>1. a # called
    BY <1>3, AlarmAssumption DEF Idle, AlarmInv, AlarmTypes
  <2>2. Passed(pos, a)
    BY <1>3 DEF Passed, Front, Idle
  <2> QED
    BY <1>1, <2>1, <2>2 DEF Kept, Timed, OneTimed
<1> QED
  BY <1>2, <1>3 DEF AlarmsOnTime, AlarmInv

\* The list of the alarms follows the calls, and an alarm is called in the very
\* tick it was started for, whatever is started or stopped meanwhile and whenever
\* the counter wraps: for any number of alarms, of ticks and of values a counter
\* can hold, if callbacks stop no alarm but their own and the longest time of all
\* is not asked for.
THEOREM AlarmsInTime == ASSUME Gentle PROVE AlarmSpec => []AlarmsOnTime
<1>1. AlarmInv /\ [AlarmNext]_avars => AlarmInv'
  BY AlarmStep
<1> QED
  BY <1>1, AlarmStart, InvIsOnTime, PTL DEF AlarmSpec

(***************************************************************************)
(* That the word is on the modulator's input in time, for any number of    *)
(* other devices, any critical section and any period that DeadlineAssump- *)
(* tion leaves room for.  It is a safety property with a bound on time:    *)
(* what the invariant needs is how many cycles are left at each place the  *)
(* processor can be at, and that every cycle spends one of them.           *)
(***************************************************************************)

\* The cycles the other devices may still cost are counted from the requests that
\* are up and from those that may yet come in this period.
Up == Cardinality(raised)
MayCome == Cardinality(Others \ came)

\* The cycles until the word is written, at most, from the moment the capture is
\* set (or, while the handler is being registered, from the edge).
Rank ==
  CASE main = "table" /\ pc = "out"      -> 2 * Up + 4 * MayCome + (IF raised = {} THEN 7 ELSE 9)
    [] main = "table" /\ pc = "pending"  -> 2 * Up + 4 * MayCome + 8
    [] main = "table" /\ pc = "call"     -> 2 * Up + 4 * MayCome + 7
    [] main = "enable"                   -> 2 * Up + 2 * MayCome + 6
    [] main = "tasks" /\ pc = "out"      -> 2 * Up + 2 * MayCome + (IF pie THEN 5 ELSE 5 + Critical - off)
    [] main = "tasks" /\ pc = "pending"  -> 2 * Up + 2 * MayCome + 4
    [] main = "tasks" /\ pc = "call"     -> 2 * Up + 2 * MayCome + 3
    [] main = "tasks" /\ pc = "read"     -> 2 * Up + 2 * MayCome + 2
    [] main = "tasks" /\ pc = "write"    -> 2 * Up + 2 * MayCome + 1
    [] OTHER                             -> 2 * Up + 2 * MayCome + 5

LfsrTypes ==
  /\ age \in 0 .. Period - 1 /\ off \in 0 .. Critical - 1
  /\ raised \subseteq Others /\ came \subseteq Others
  /\ d1 \in BOOLEAN /\ d2 \in BOOLEAN /\ capture \in BOOLEAN /\ mask \in BOOLEAN
  /\ pie \in BOOLEAN /\ armed \in BOOLEAN
  /\ main \in {"mask", "clear", "table", "enable", "tasks"}
  /\ pc \in {"out", "pending", "call", "read", "write", "clearedge", "readback"}

Starting == main \in {"mask", "clear"}
InHandler == pc \in {"read", "write", "clearedge"}

\* What the program has set up, and when interrupts are on.
SetUp ==
  /\ mask = (main # "mask")
  /\ ienable = IF main = "tasks" THEN Others \cup {Lfsr} ELSE Others
  /\ pc # "out" => ~ pie /\ main # "enable"
  /\ pc = "out" /\ main \in {"mask", "clear", "table"} => pie
  /\ main = "enable" => ~ pie
  /\ InHandler \/ pc = "readback" => main = "tasks"

\* The detector sees the edge in the cycle after it.
Detector ==
  /\ d1 <=> 1 <= age /\ age <= Period \div 2
  /\ d2 <=> 2 <= age /\ age <= Period \div 2 + 1

\* What the dispatcher is about to call still has its request up.
Calls ==
  pc = "call" => /\ active # {}
                 /\ active \subseteq raised \cup {Lfsr}
                 /\ Lfsr \in active => main = "tasks" /\ capture

Handles ==
  /\ InHandler => capture
  /\ pc = "write" => value = q
  /\ pc = "clearedge" => word = TuningWord(q)

\* A capture is younger than the edge that set it, and is served in time: it is gone
\* before the next edge comes.
Served ==
  ~ Starting =>
    /\ capture => age >= 2
    /\ capture /\ pc # "clearedge" => age + Rank <= Deadline
    /\ age < 2 /\ main # "tasks" => age + Rank <= Deadline

Followed ==
  armed => /\ ~ Starting
           /\ age >= 2 /\ ~ capture => word = TuningWord(q)

LfsrInv == LfsrTypes /\ SetUp /\ Detector /\ Calls /\ Handles /\ Served /\ Followed

-----------------------------------------------------------------------------
LEMMA Numbers ==
  /\ Period \in Int /\ Deadline \in Int /\ Critical \in Int /\ Critical >= 1 /\ Deadline < Period
  /\ Cardinality(Others) \in Int /\ Cardinality(Others) >= 0
  /\ 4 * Cardinality(Others) + Critical + 7 <= Deadline /\ 6 * Cardinality(Others) + 9 <= Deadline
  /\ Period > 9
  /\ Period \div 2 \in Int /\ 1 <= Period \div 2 /\ Period \div 2 + 1 < Period
<1>1. Cardinality(Others) \in Nat
  BY LfsrAssumption, FS_CardinalityType
<1>2. Period \in Int /\ Deadline \in Int /\ Critical \in Int /\ Critical >= 1 /\ Deadline < Period
  BY LfsrAssumption
<1>3. Period > 9
  BY <1>1, <1>2, DeadlineAssumption
<1>4. Period \div 2 \in Int /\ 1 <= Period \div 2 /\ Period \div 2 + 1 < Period
  BY ONLY <1>2, <1>3, Z3
<1> QED
  BY <1>1, <1>2, <1>3, <1>4, DeadlineAssumption

LEMMA LeastNat == ASSUME NEW S, S \subseteq Nat, S # {} PROVE Min(S) \in S
<1>1. PICK x \in S : \A y \in S : ~ (<<y, x>> \in OpToRel(<, Nat))
  BY NatLessThanWellFounded, WFMin, Zenon
<1>2. ASSUME NEW y \in S, y < x PROVE FALSE
  <2>1. <<y, x>> \in OpToRel(<, Nat)
    BY <1>2 DEF OpToRel
  <2> QED
    BY <1>1, <2>1, Zenon
<1>3. \A y \in S : x <= y
  BY <1>2
<1> QED
  BY <1>3 DEF Min

\* The numbers of the requests, and what one cycle does to them.
LEMMA Counts ==
  ASSUME LfsrTypes
  PROVE  /\ Up \in Int /\ Up >= 0 /\ Up <= Cardinality(Others) /\ (raised = {} <=> Up = 0)
         /\ MayCome \in Int /\ MayCome >= 0 /\ MayCome <= Cardinality(Others)
         /\ IsFiniteSet(raised) /\ IsFiniteSet(Others \ came)
<1>1. raised \in SUBSET Others /\ Others \ came \in SUBSET Others /\ IsFiniteSet(Others)
  BY LfsrAssumption DEF LfsrTypes
<1>2. /\ IsFiniteSet(raised) /\ IsFiniteSet(Others \ came)
      /\ Up <= Cardinality(Others) /\ MayCome <= Cardinality(Others)
  BY <1>1, FS_Subset DEF Up, MayCome
<1>3. Up \in Nat /\ MayCome \in Nat
  BY <1>2, FS_CardinalityType DEF Up, MayCome
<1>4. raised = {} <=> Up = 0
  BY <1>2, FS_EmptySet DEF Up
<1> QED
  BY <1>2, <1>3, <1>4

\* Requests that come are taken from those that may come; one that is served goes.
LEMMA CountsMove ==
  ASSUME LfsrTypes, NEW served \in SUBSET Others, OtherDevices(served)
  PROVE  /\ raised' \subseteq Others /\ came' \subseteq Others
         /\ raised \ served \subseteq raised'
         /\ Up' \in Int /\ Up' >= 0 /\ Up' <= Cardinality(Others)
         /\ MayCome' \in Int /\ MayCome' >= 0 /\ MayCome' <= Cardinality(Others)
         /\ (raised' = {} <=> Up' = 0)
         /\ (age + 1 # Period => \E k \in Nat :
              /\ MayCome' = MayCome - k
              /\ Up' <= Up + k
              /\ (Up = 0 /\ k = 0 => Up' = 0)
              /\ (\A i \in raised : served = {i} => Up' <= Up + k - 1))
<1>1. PICK new \in SUBSET (Others \ came) :
        /\ raised' = (raised \ served) \cup new
        /\ came' = (IF age + 1 = Period THEN {} ELSE came) \cup new
  BY DEF OtherDevices
<1>2. raised' \in SUBSET Others /\ Others \ came' \in SUBSET Others /\ came' \subseteq Others /\ IsFiniteSet(Others)
  BY <1>1, LfsrAssumption DEF LfsrTypes
<1>3. /\ IsFiniteSet(raised') /\ IsFiniteSet(Others \ came')
      /\ Up' <= Cardinality(Others) /\ MayCome' <= Cardinality(Others)
  BY <1>2, FS_Subset DEF Up, MayCome
<1>4. Up' \in Nat /\ MayCome' \in Nat
  BY <1>3, FS_CardinalityType DEF Up, MayCome
<1>5. raised' = {} <=> Up' = 0
  BY <1>3, FS_EmptySet DEF Up
<1>6. ASSUME age + 1 # Period
      PROVE  \E k \in Nat :
              /\ MayCome' = MayCome - k
              /\ Up' <= Up + k
              /\ (Up = 0 /\ k = 0 => Up' = 0)
              /\ (\A i \in raised : served = {i} => Up' <= Up + k - 1)
  <2> DEFINE k == Cardinality(new)
             old == raised \ served
  <2>1. IsFiniteSet(new) /\ IsFiniteSet(raised) /\ IsFiniteSet(Others \ came)
    BY Counts, FS_Subset
  <2>2. k \in Nat /\ (k = 0 <=> new = {})
    BY <2>1, FS_CardinalityType, FS_EmptySet
  <2>3. MayCome' = MayCome - k
    <3>1. Others \ came' = (Others \ came) \ new
      BY <1>1, <1>6
    <3>2. (Others \ came) \cap new = new
      OBVIOUS
    <3> QED
      BY <2>1, <3>1, <3>2, FS_Difference DEF MayCome
  <2>4. IsFiniteSet(old) /\ Cardinality(old) \in Nat /\ Cardinality(old) <= Up
    <3>1. old \in SUBSET raised
      OBVIOUS
    <3> QED
      BY <2>1, <3>1, FS_Subset, FS_CardinalityType DEF Up
  <2>5. Up' <= Cardinality(old) + k
    <3>1. Cardinality(old \cup new) = Cardinality(old) + Cardinality(new) - Cardinality(old \cap new)
      BY <2>1, <2>4, FS_Union
    <3>2. Cardinality(old \cap new) \in Nat
      BY <2>1, <2>4, FS_Intersection, FS_CardinalityType
    <3>3. Up' = Cardinality(old \cup new)
      BY <1>1 DEF Up
    <3> QED
      BY <2>2, <2>4, <3>1, <3>2, <3>3
  <2>6. ASSUME NEW i \in raised, served = {i} PROVE Cardinality(old) = Up - 1
    BY <2>1, <2>6, FS_RemoveElement DEF Up
  <2>7. Up \in Nat
    BY Counts
  <2>8. Up = 0 /\ k = 0 => Up' = 0
    BY <2>2, <2>4, <2>5, <2>7, <1>4
  <2> HIDE DEF k, old
  <2>9. /\ MayCome' = MayCome - k
        /\ Up' <= Up + k
        /\ (Up = 0 /\ k = 0 => Up' = 0)
        /\ (\A i \in raised : served = {i} => Up' <= Up + k - 1)
    BY <1>4, <2>2, <2>3, <2>4, <2>5, <2>6, <2>7, <2>8
  <2> QED
    BY <2>2, <2>9
<1> QED
  BY <1>1, <1>2, <1>3, <1>4, <1>5, <1>6
-----------------------------------------------------------------------------
RankFits ==
  /\ Rank \in Int /\ Rank >= 1 /\ Rank <= Deadline
  /\ main = "tasks" => Rank + 2 <= Deadline

LEMMA RankBounds == LfsrTypes /\ ~ Starting => RankFits
<1> SUFFICES ASSUME LfsrTypes, ~ Starting PROVE RankFits
  OBVIOUS
<1>1. PICK c : c = Cardinality(Others)
  OBVIOUS
<1>2. /\ Up \in Int /\ Up >= 0 /\ Up <= c
      /\ MayCome \in Int /\ MayCome >= 0 /\ MayCome <= c
      /\ c \in Int /\ Deadline \in Int /\ Critical \in Int /\ Critical >= 1
      /\ 4 * c + Critical + 7 <= Deadline /\ 6 * c + 9 <= Deadline
      /\ off \in Int /\ 0 <= off /\ off < Critical
  BY <1>1, Counts, Numbers DEF LfsrTypes
<1>3. CASE main = "table"
  BY <1>2, <1>3 DEF Rank, RankFits
<1>4. CASE main = "enable"
  BY <1>2, <1>4 DEF Rank, RankFits
<1>5. CASE main = "tasks"
  BY <1>2, <1>5 DEF Rank, RankFits
<1> QED
  BY <1>3, <1>4, <1>5 DEF LfsrTypes, Starting

LEMMA RankBoundsNext == LfsrTypes' /\ ~ Starting' => RankFits'
BY RankBounds, PTL

\* What the hardware does in a cycle.
LEMMA Cycle ==
  ASSUME LfsrInv, NEW strobe \in BOOLEAN, NEW served \in SUBSET Others, Around(strobe, served)
  PROVE  /\ age \in Int /\ 0 <= age /\ age < Period
         /\ age' \in 0 .. Period - 1
         /\ (age + 1 = Period => age' = 0)
         /\ (age + 1 # Period => age' = age + 1 /\ q' = q /\ armed' = armed)
         /\ Detector'
         /\ d1' \in BOOLEAN /\ d2' \in BOOLEAN /\ armed' \in BOOLEAN /\ capture' \in BOOLEAN
         /\ (capture' <=> ~ strobe /\ (capture \/ age = 1))
         /\ (armed' => armed \/ ~ Starting)
         /\ raised' \subseteq Others /\ came' \subseteq Others
         /\ raised \ served \subseteq raised'
<1>1. LfsrTypes /\ Detector
  BY DEF LfsrInv
<1>2. /\ Tick /\ EdgeCapture(strobe) /\ OtherDevices(served)
  BY DEF Around
<1>3. age \in Int /\ 0 <= age /\ age < Period
  BY <1>1, Numbers DEF LfsrTypes
<1>4. (age + 1) % Period = IF age + 1 = Period THEN 0 ELSE age + 1
  <2>1. Period \in Int /\ Period > 9
    BY Numbers
  <2>2. (age + 1) % Period = IF age + 1 < Period THEN age + 1 ELSE 0
    BY ONLY <1>3, <2>1, Z3
  <2> QED
    BY ONLY <1>3, <2>1, <2>2
<1>5. /\ age' = (IF age + 1 = Period THEN 0 ELSE age + 1)
      /\ q' = (IF age + 1 = Period THEN Shift(q) ELSE q)
      /\ d1' = LfsrClk(age) /\ d2' = d1
      /\ armed' = (IF age + 1 = Period THEN ~ Starting ELSE armed)
  BY <1>2, <1>4 DEF Tick, Starting
<1>6. age % Period = age
  BY ONLY <1>3, Numbers, Z3
<1>7. Detector'
  <2>1. d1' <=> age < Period \div 2
    BY <1>5, <1>6 DEF LfsrClk
  <2>2. d2' <=> (1 <= age /\ age <= Period \div 2)
    BY <1>1, <1>5 DEF Detector
  <2>3. CASE age + 1 = Period
    BY <1>3, <1>5, <2>1, <2>2, <2>3, Numbers DEF Detector
  <2>4. CASE age + 1 # Period
    BY <1>3, <1>5, <2>1, <2>2, <2>4, Numbers DEF Detector
  <2> QED
    BY <2>3, <2>4
<1>8. (d1 /\ ~ d2) <=> age = 1
  BY <1>1, <1>3, Numbers DEF Detector
<1>9. capture' \in BOOLEAN /\ (capture' <=> ~ strobe /\ (capture \/ age = 1))
  BY <1>1, <1>2, <1>8 DEF EdgeCapture, LfsrTypes
<1>10. d1' \in BOOLEAN /\ d2' \in BOOLEAN /\ armed' \in BOOLEAN
  <2>1. d1' \in BOOLEAN /\ d2' \in BOOLEAN
    BY <1>1, <1>5 DEF LfsrClk, LfsrTypes
  <2>2. armed \in BOOLEAN /\ Starting \in BOOLEAN
    BY <1>1 DEF LfsrTypes, Starting
  <2> QED
    BY ONLY <1>5, <2>1, <2>2
<1>11. age' \in 0 .. Period - 1
  BY <1>3, <1>5, Numbers
<1>12. raised' \subseteq Others /\ came' \subseteq Others /\ raised \ served \subseteq raised'
  BY <1>1, <1>2, CountsMove
<1> QED
  BY <1>3, <1>5, <1>7, <1>9, <1>10, <1>11, <1>12

\* A capture is served in time if every cycle brings the writing nearer: unless
\* the next edge comes, or the tasks run and there is nothing to serve.
LEMMA InTime ==
  ASSUME LfsrInv, NEW strobe \in BOOLEAN, NEW served \in SUBSET Others, Around(strobe, served),
         LfsrTypes', ~ Starting, ~ Starting', strobe <=> pc = "clearedge",
         main' = "tasks" \/ main # "tasks",
         pc' = "clearedge" => capture /\ pc # "clearedge",
         age + 1 # Period /\ (capture \/ main # "tasks") /\ pc # "clearedge" /\ pc' # "clearedge"
           => Rank' <= Rank - 1
  PROVE  Served'
<1>1. LfsrTypes /\ Served /\ Handles
  BY DEF LfsrInv
<1>2. PICK a, b, r, s : a = age /\ b = age' /\ r = Rank /\ s = Rank'
  OBVIOUS
<1>3. /\ a \in Int /\ 0 <= a /\ a < Period
      /\ a + 1 = Period => b = 0
      /\ a + 1 # Period => b = a + 1
  BY <1>2, Cycle, Zenon
<1>4. capture' <=> ~ strobe /\ (capture \/ a = 1)
  BY <1>2, Cycle, Zenon
<1>5. r \in Int /\ r >= 1
  BY <1>1, <1>2, RankBounds, Zenon DEF RankFits
<1>6. s \in Int /\ s >= 1 /\ s <= Deadline /\ (main' = "tasks" => s + 2 <= Deadline)
  BY <1>2, RankBoundsNext, Zenon DEF RankFits
<1>7. /\ capture => a >= 2
      /\ capture /\ pc # "clearedge" => a + r <= Deadline
      /\ a < 2 /\ main # "tasks" => a + r <= Deadline
  BY <1>1, <1>2, Zenon DEF Served
<1>8. a + 1 # Period /\ (capture \/ main # "tasks") /\ pc # "clearedge" /\ pc' # "clearedge"
        => s <= r - 1
  BY <1>2, Zenon
<1>9. Period \in Int /\ Deadline \in Int /\ Deadline < Period /\ Period > 9
  BY Numbers
<1>10. ASSUME capture' PROVE /\ a + 1 # Period /\ b = a + 1 /\ b >= 2 /\ pc # "clearedge"
                             /\ a + r <= Deadline \/ a = 1
  <2>1. pc # "clearedge" /\ (capture \/ a = 1)
    BY <1>4, <1>10
  <2>2. (a + r <= Deadline /\ a >= 2) \/ a = 1
    BY <1>7, <2>1, Zenon
  <2>3. a + 1 # Period /\ b = a + 1 /\ b >= 2
    BY ONLY <1>3, <1>5, <1>9, <2>2
  <2> QED
    BY <2>1, <2>2, <2>3
<1>11. ASSUME capture', pc' # "clearedge" PROVE b + s <= Deadline
  <2>1. a + 1 # Period /\ b = a + 1 /\ pc # "clearedge" /\ (capture \/ a = 1)
    BY <1>4, <1>10, <1>11
  <2>2. CASE capture \/ (main # "tasks" /\ a = 1)
    <3>1. s <= r - 1
      BY <1>8, <1>11, <2>1, <2>2
    <3>2. a + r <= Deadline
      <4>1. a = 1 => a < 2
        BY ONLY <1>3
      <4> QED
        BY <1>7, <2>1, <2>2, <4>1, Zenon
    <3> QED
      BY ONLY <1>3, <1>5, <1>6, <1>9, <2>1, <3>1, <3>2
  <2>3. CASE a = 1 /\ main = "tasks"
    <3>1. s + 2 <= Deadline
      BY <1>6, <2>3
    <3> QED
      BY ONLY <1>6, <1>9, <2>1, <2>3, <3>1
  <2> QED
    BY <2>1, <2>2, <2>3
<1>12. ASSUME b < 2, main' # "tasks" PROVE b + s <= Deadline
  <2>1. main # "tasks"
    BY <1>12
  <2>2. CASE a + 1 = Period
    BY ONLY <1>3, <1>6, <1>9, <2>2
  <2>3. CASE a + 1 # Period
    <3>1. b = a + 1 /\ a < 2 /\ ~ (a >= 2)
      BY ONLY <1>3, <1>12, <2>3
    <3>2. ~ capture /\ a + r <= Deadline
      BY <1>7, <2>1, <3>1
    <3>3. pc # "clearedge" /\ pc' # "clearedge"
      BY <1>1, <3>2 DEF Handles, InHandler
    <3>4. s <= r - 1
      BY <1>8, <2>1, <2>3, <3>3
    <3> QED
      BY ONLY <1>3, <1>5, <1>6, <1>9, <3>1, <3>2, <3>4
  <2> QED
    BY <2>2, <2>3
<1> QED
  BY <1>2, <1>10, <1>11, <1>12, Zenon DEF Served

\* The word stays the right one: only the handler writes it, and it clears the
\* capture after it has written.
LEMMA StillFollowed ==
  ASSUME LfsrInv, NEW strobe \in BOOLEAN, NEW served \in SUBSET Others, Around(strobe, served),
         ~ Starting => ~ Starting', strobe => Starting \/ pc = "clearedge",
         word' = word \/ (capture /\ pc = "write")
  PROVE  Followed'
<1>1. LfsrTypes /\ Followed /\ Handles /\ Served
  BY DEF LfsrInv
<1>2. /\ age \in Int /\ 0 <= age /\ age < Period
      /\ (age + 1 = Period => age' = 0)
  BY Cycle
<1>c. /\ (age + 1 # Period => age' = age + 1 /\ q' = q /\ armed' = armed)
      /\ (capture' <=> ~ strobe /\ (capture \/ age = 1))
      /\ (armed' => armed \/ ~ Starting)
  BY Cycle
<1>3. armed' => ~ Starting /\ ~ Starting'
  BY <1>1, <1>c DEF Followed
<1>4. ASSUME armed', age' >= 2, ~ capture' PROVE word' = TuningWord(q')
  <2>1. age + 1 # Period /\ age' = age + 1 /\ q' = q /\ armed
    <3>1. age + 1 # Period
      BY <1>2, <1>4
    <3> QED
      BY <1>4, <1>c, <3>1
  <2>2. strobe \/ (~ capture /\ age # 1)
    BY <1>4, <1>c
  <2>3. CASE strobe
    <3>1. pc = "clearedge" /\ capture
      BY <1>1, <1>3, <1>4, <2>3 DEF Handles, InHandler
    <3>2. word' = word /\ word = TuningWord(q)
      BY <1>1, <3>1 DEF Handles
    <3> QED
      BY <2>1, <3>2
  <2>4. CASE ~ capture /\ age # 1
    <3>a. age' = age + 1 /\ age # 1 /\ age' >= 2
      BY <1>4, <2>1, <2>4
    <3>b. age >= 2
      BY ONLY <1>2, <3>a
    <3>1. age >= 2 /\ word' = word
      BY <2>4, <3>b
    <3> QED
      BY <1>1, <2>1, <2>4, <3>1 DEF Followed
  <2> QED
    BY <2>2, <2>3, <2>4
<1> QED
  BY <1>3, <1>4 DEF Followed
-----------------------------------------------------------------------------
\* The part of the types the hardware leaves alone.
CpuTypes ==
  /\ off \in 0 .. Critical - 1 /\ mask \in BOOLEAN /\ pie \in BOOLEAN
  /\ main \in {"mask", "clear", "table", "enable", "tasks"}
  /\ pc \in {"out", "pending", "call", "read", "write", "clearedge", "readback"}

LEMMA TypesNext ==
  ASSUME LfsrInv, NEW strobe \in BOOLEAN, NEW served \in SUBSET Others, Around(strobe, served), CpuTypes'
  PROVE  LfsrTypes'
BY Cycle DEF LfsrTypes, CpuTypes

\* The requests before and after a cycle, in numbers; k new ones have come.
Moved(u, f, v, g, k) ==
  /\ u \in Int /\ u >= 0 /\ f \in Int /\ f >= 0 /\ v \in Int /\ v >= 0 /\ g \in Int /\ k \in Nat
  /\ g = f - k /\ v <= u + k /\ (u = 0 /\ k = 0 => v = 0)

LEMMA Moving ==
  ASSUME LfsrInv, NEW strobe \in BOOLEAN, NEW served \in SUBSET Others, Around(strobe, served), age + 1 # Period
  PROVE  \E u, f, v, g, k :
           /\ u = Up /\ f = MayCome /\ v = Up' /\ g = MayCome'
           /\ (raised = {} <=> u = 0) /\ (raised' = {} <=> v = 0)
           /\ f <= Cardinality(Others)
           /\ Moved(u, f, v, g, k)
           /\ \A i \in raised : served = {i} => v <= u + k - 1
<1>1. PICK u, f, v, g : u = Up /\ f = MayCome /\ v = Up' /\ g = MayCome'
  OBVIOUS
<1>2. LfsrTypes /\ OtherDevices(served)
  BY DEF LfsrInv, Around
<1>3. /\ u \in Int /\ u >= 0 /\ f \in Int /\ f >= 0 /\ f <= Cardinality(Others) /\ (raised = {} <=> u = 0)
  BY <1>1, <1>2, Counts, Zenon
<1>4. /\ v \in Int /\ v >= 0 /\ g \in Int /\ (raised' = {} <=> v = 0)
  BY <1>1, <1>2, CountsMove, Zenon
<1>5. \E k \in Nat :
              /\ g = f - k
              /\ v <= u + k
              /\ (u = 0 /\ k = 0 => v = 0)
              /\ (\A i \in raised : served = {i} => v <= u + k - 1)
  BY <1>1, <1>2, CountsMove, Zenon
<1>6. PICK k \in Nat : /\ g = f - k /\ v <= u + k /\ (u = 0 /\ k = 0 => v = 0)
                       /\ (\A i \in raised : served = {i} => v <= u + k - 1)
  BY <1>5
<1>7. Moved(u, f, v, g, k)
  BY <1>3, <1>4, <1>6 DEF Moved
<1> QED
  BY <1>1, <1>3, <1>4, <1>6, <1>7, Zenon

\* Two ranks with the requests told apart.
LEMMA LessByOne ==
  ASSUME NEW u, NEW f, NEW v, NEW g, NEW k, Moved(u, f, v, g, k), NEW m \in Int, NEW n \in Int, n <= m - 1
  PROVE  2 * v + 2 * g + n <= 2 * u + 2 * f + m - 1
BY DEF Moved

LEMMA NothingWaits ==
  ASSUME LfsrInv, pie, ~ Taken
  PROVE  raised = {} /\ (main = "tasks" => ~ capture)
<1>1. SetUp /\ LfsrTypes /\ Pending = {}
  BY DEF LfsrInv, Taken
<1>2. raised \subseteq ienable
  BY <1>1 DEF SetUp, LfsrTypes
<1>3. main = "tasks" => mask /\ Lfsr \in ienable
  BY <1>1 DEF SetUp
<1> QED
  BY <1>1, <1>2, <1>3 DEF Pending

LEMMA MaskKeeps == ASSUME LfsrInv, EnableMask PROVE LfsrInv'
<1>1. /\ pc = "out" /\ main = "mask" /\ mask' = TRUE /\ main' = "clear" /\ Around(FALSE, {})
      /\ UNCHANGED <<table, ienable, pie, active, value, off, pc, word>>
  BY DEF EnableMask, Runs, cpu
<1>2. LfsrTypes /\ SetUp
  BY DEF LfsrInv
<1>3. {} \in SUBSET Others /\ FALSE \in BOOLEAN
  OBVIOUS
<1>4. LfsrTypes'
  <2>1. CpuTypes'
    BY <1>1, <1>2 DEF LfsrTypes, CpuTypes
  <2> QED
    BY <1>1, <1>3, <2>1, TypesNext
<1>5. SetUp'
  BY <1>1, <1>2 DEF SetUp, InHandler
<1>6. Calls' /\ Handles' /\ Served'
  BY <1>1 DEF Calls, Handles, InHandler, Served, Starting
<1>7. Followed'
  BY <1>1, <1>3, StillFollowed DEF Starting
<1>8. Detector'
  BY <1>1, <1>3, Cycle
<1> QED
  BY <1>4, <1>5, <1>6, <1>7, <1>8 DEF LfsrInv

\* The capture is cleared; should the next edge be on its way, no request is up.
LEMMA ClearKeeps == ASSUME LfsrInv, ClearAtInit PROVE LfsrInv'
<1>1. /\ pc = "out" /\ main = "clear" /\ ~ Taken /\ main' = "table" /\ Around(TRUE, {})
      /\ UNCHANGED <<table, ienable, pie, active, value, off, mask, pc, word>>
  BY DEF ClearAtInit, Runs, cpu
<1>2. LfsrTypes /\ SetUp
  BY DEF LfsrInv
<1>3. {} \in SUBSET Others /\ TRUE \in BOOLEAN
  OBVIOUS
<1>4. LfsrTypes'
  <2>1. CpuTypes'
    BY <1>1, <1>2 DEF LfsrTypes, CpuTypes
  <2> QED
    BY <1>1, <1>3, <2>1, TypesNext
<1>5. SetUp'
  BY <1>1, <1>2 DEF SetUp, InHandler
<1>6. Calls' /\ Handles'
  BY <1>1 DEF Calls, Handles, InHandler
<1>7. ~ capture' /\ ~ Starting'
  BY <1>1, <1>3, Cycle DEF Starting
<1>8. Served'
  <2>1. PICK b, s : b = age' /\ s = Rank'
    OBVIOUS
  <2>2. s \in Int /\ s <= Deadline
    BY <1>4, <1>7, <2>1, RankBoundsNext, Zenon DEF RankFits
  <2>3. ASSUME b < 2 PROVE b + s <= Deadline
    <3>1. PICK a : a = age
      OBVIOUS
    <3>2. /\ a \in Int /\ 0 <= a /\ a < Period
          /\ a + 1 = Period => b = 0
          /\ a + 1 # Period => b = a + 1
      BY <1>1, <1>3, <2>1, <3>1, Cycle, Zenon
    <3>3. CASE a + 1 = Period
      BY ONLY <2>2, <3>2, <3>3
    <3>4. CASE a + 1 # Period
      <4>1. a = 0 /\ b = 1
        BY ONLY <2>3, <3>2, <3>4
      <4>2. raised = {}
        BY <1>1, <1>2, NothingWaits DEF SetUp
      <4>3. PICK u, f, v, g, k :
               /\ u = Up /\ f = MayCome /\ v = Up' /\ g = MayCome'
               /\ (raised = {} <=> u = 0) /\ (raised' = {} <=> v = 0)
               /\ f <= Cardinality(Others)
               /\ Moved(u, f, v, g, k)
        BY <1>1, <1>3, <3>1, <3>4, Moving, Zenon
      <4>4. u = 0
        BY <4>2, <4>3
      <4>5. s = 2 * v + 4 * g + (IF v = 0 THEN 7 ELSE 9)
        BY <1>1, <2>1, <4>3 DEF Rank
      <4>6. PICK c : c = Cardinality(Others)
        OBVIOUS
      <4>7. f <= c /\ c \in Int /\ c >= 0 /\ 6 * c + 9 <= Deadline /\ Deadline \in Int
        BY <4>3, <4>6, Numbers, Zenon
      <4>8. Moved(u, f, v, g, k)
        BY <4>3
      <4>9. s <= 4 * f + 7
        BY ONLY <4>4, <4>5, <4>8 DEF Moved
      <4> QED
        BY ONLY <2>2, <4>1, <4>7, <4>8, <4>9 DEF Moved
    <3> QED
      BY <3>3, <3>4
  <2> QED
    BY <1>7, <2>1, <2>3, Zenon DEF Served
<1>9. Followed'
  BY <1>1, <1>3, <1>7, StillFollowed DEF Starting
<1>10. Detector'
  BY <1>1, <1>3, Cycle
<1> QED
  BY <1>4, <1>5, <1>6, <1>8, <1>9, <1>10 DEF LfsrInv
-----------------------------------------------------------------------------
\* The table is filled when no other device waits to be served.
LEMMA FillKeeps == ASSUME LfsrInv, FillTable PROVE LfsrInv'
<1>1. /\ pc = "out" /\ main = "table" /\ ~ Taken /\ pie' = FALSE /\ main' = "enable" /\ Around(FALSE, {})
      /\ UNCHANGED <<ienable, active, value, off, mask, pc, word>>
  BY DEF FillTable, Runs
<1>2. LfsrTypes /\ SetUp /\ Calls /\ Handles
  BY DEF LfsrInv
<1>3. {} \in SUBSET Others /\ FALSE \in BOOLEAN
  OBVIOUS
<1>4. LfsrTypes'
  <2>1. CpuTypes'
    BY <1>1, <1>2 DEF LfsrTypes, CpuTypes
  <2> QED
    BY <1>1, <1>3, <2>1, TypesNext
<1>5. SetUp'
  BY <1>1, <1>2 DEF SetUp, InHandler
<1>6. Calls'
  BY <1>1 DEF Calls
<1>7. Handles'
  BY <1>1 DEF Handles, InHandler
<1>r. ASSUME age + 1 # Period PROVE Rank' <= Rank - 1
  <2>1. PICK u, f, v, g, k :
           /\ u = Up /\ f = MayCome /\ v = Up' /\ g = MayCome'
           /\ (raised = {} <=> u = 0) /\ (raised' = {} <=> v = 0)
           /\ f <= Cardinality(Others)
           /\ Moved(u, f, v, g, k)
           /\ \A i \in raised : {} = {i} => v <= u + k - 1
    BY <1>1, <1>3, <1>r, Moving
  <2>2. PICK r, s : r = Rank /\ s = Rank'
    OBVIOUS
  <2>m. Moved(u, f, v, g, k)
    BY <2>1
  <2>3. raised = {}
    BY <1>1, <1>2, NothingWaits DEF SetUp
  <2>4. u = 0 /\ r = 2 * u + 4 * f + 7 /\ s = 2 * v + 2 * g + 6
    BY <1>1, <2>1, <2>2, <2>3 DEF Rank
  <2>5. s <= r - 1
    BY ONLY <2>m, <2>4 DEF Moved
  <2> QED
    BY <2>2, <2>5, Zenon
<1>8. Served'
  BY <1>1, <1>3, <1>4, <1>r, InTime DEF Starting
<1>9. Followed'
  BY <1>1, <1>3, StillFollowed DEF Starting
<1>10. Detector'
  BY <1>1, <1>3, Cycle
<1> QED
  BY <1>4, <1>5, <1>6, <1>7, <1>8, <1>9, <1>10 DEF LfsrInv

LEMMA EnableKeeps == ASSUME LfsrInv, EnableIrq PROVE LfsrInv'
<1>1. /\ pc = "out" /\ main = "enable" /\ pie' = TRUE /\ main' = "tasks" /\ Around(FALSE, {})
      /\ ienable' = ienable \cup {Lfsr} /\ UNCHANGED <<active, value, off, mask, pc, word>>
  BY DEF EnableIrq, Runs
<1>2. LfsrTypes /\ SetUp /\ Calls /\ Handles
  BY DEF LfsrInv
<1>3. {} \in SUBSET Others /\ FALSE \in BOOLEAN
  OBVIOUS
<1>4. LfsrTypes'
  <2>1. CpuTypes'
    BY <1>1, <1>2 DEF LfsrTypes, CpuTypes
  <2> QED
    BY <1>1, <1>3, <2>1, TypesNext
<1>5. SetUp'
  BY <1>1, <1>2 DEF SetUp, InHandler
<1>6. Calls'
  BY <1>1 DEF Calls
<1>7. Handles'
  BY <1>1 DEF Handles, InHandler
<1>r. ASSUME age + 1 # Period PROVE Rank' <= Rank - 1
  <2>1. PICK u, f, v, g, k :
           /\ u = Up /\ f = MayCome /\ v = Up' /\ g = MayCome'
           /\ (raised = {} <=> u = 0) /\ (raised' = {} <=> v = 0)
           /\ f <= Cardinality(Others)
           /\ Moved(u, f, v, g, k)
           /\ \A i \in raised : {} = {i} => v <= u + k - 1
    BY <1>1, <1>3, <1>r, Moving
  <2>2. PICK r, s : r = Rank /\ s = Rank'
    OBVIOUS
  <2>m. Moved(u, f, v, g, k)
    BY <2>1
  <2>3. r = 2 * u + 2 * f + 6 /\ s = 2 * v + 2 * g + 5
    BY <1>1, <2>1, <2>2 DEF Rank
  <2>4. s <= r - 1
    BY ONLY <2>m, <2>3 DEF Moved
  <2> QED
    BY <2>2, <2>4, Zenon
<1>8. Served'
  BY <1>1, <1>3, <1>4, <1>r, InTime DEF Starting
<1>9. Followed'
  BY <1>1, <1>3, StillFollowed DEF Starting
<1>10. Detector'
  BY <1>1, <1>3, Cycle
<1> QED
  BY <1>4, <1>5, <1>6, <1>7, <1>8, <1>9, <1>10 DEF LfsrInv

\* The tasks go on: with a request of the shift register up, only towards the end of
\* a critical section.
LEMMA TasksKeep == ASSUME LfsrInv, Tasks PROVE LfsrInv'
<1>1. /\ pc = "out" /\ main = "tasks" /\ ~ Taken /\ Around(FALSE, {})
      /\ \/ pie /\ pie' \in {TRUE, FALSE} /\ off' = 0
         \/ ~pie /\ off < Critical - 1 /\ pie' \in {TRUE, FALSE} /\ off' = IF pie' THEN 0 ELSE off + 1
         \/ ~pie /\ off = Critical - 1 /\ pie' = TRUE /\ off' = 0
      /\ UNCHANGED <<table, ienable, active, value, mask, main, pc, word>>
  BY DEF Tasks, Runs
<1>2. LfsrTypes /\ SetUp /\ Calls /\ Handles
  BY DEF LfsrInv
<1>3. {} \in SUBSET Others /\ FALSE \in BOOLEAN
  OBVIOUS
<1>p. off' \in 0 .. Critical - 1 /\ pie' \in BOOLEAN
  <2>1. PICK o, p : o = off /\ p = off'
    OBVIOUS
  <2>2. o \in Int /\ 0 <= o /\ Critical \in Int /\ Critical >= 1
    BY <1>2, <2>1, Numbers DEF LfsrTypes
  <2>3. p = 0 \/ (o < Critical - 1 /\ p = o + 1)
    BY <1>1, <2>1
  <2>4. p \in 0 .. Critical - 1
    BY ONLY <2>2, <2>3
  <2> QED
    BY <1>1, <2>1, <2>4
<1>4. LfsrTypes'
  <2>1. CpuTypes'
    BY <1>1, <1>2, <1>p DEF LfsrTypes, CpuTypes
  <2> QED
    BY <1>1, <1>3, <2>1, TypesNext
<1>5. SetUp'
  BY <1>1, <1>2, <1>p DEF SetUp, InHandler
<1>6. Calls'
  BY <1>1 DEF Calls
<1>7. Handles'
  BY <1>1 DEF Handles, InHandler
<1>r. ASSUME age + 1 # Period, capture PROVE Rank' <= Rank - 1
  <2>1. PICK u, f, v, g, k :
           /\ u = Up /\ f = MayCome /\ v = Up' /\ g = MayCome'
           /\ (raised = {} <=> u = 0) /\ (raised' = {} <=> v = 0)
           /\ f <= Cardinality(Others)
           /\ Moved(u, f, v, g, k)
           /\ \A i \in raised : {} = {i} => v <= u + k - 1
    BY <1>1, <1>3, <1>r, Moving
  <2>2. PICK r, s : r = Rank /\ s = Rank'
    OBVIOUS
  <2>m. Moved(u, f, v, g, k)
    BY <2>1
  <2>3. ~ pie
    BY <1>1, <1>r, NothingWaits
  <2>4. PICK o, p : o = off /\ p = off'
    OBVIOUS
  <2>5. o \in Int /\ o <= Critical - 1 /\ Critical \in Int
    BY <1>2, <2>4, Numbers DEF LfsrTypes
  <2>6. r = 2 * u + 2 * f + (5 + Critical - o)
    BY <1>1, <2>1, <2>2, <2>3, <2>4 DEF Rank
  <2>7. CASE pie'
    <3>1. s = 2 * v + 2 * g + 5
      BY <1>1, <2>1, <2>2, <2>7 DEF Rank
    <3>2. s <= r - 1
      BY ONLY <2>m, <2>5, <2>6, <3>1 DEF Moved
    <3> QED
      BY <2>2, <3>2, Zenon
  <2>8. CASE ~ pie'
    <3>1. p = o + 1
      BY <1>1, <2>3, <2>4, <2>8
    <3>2. s = 2 * v + 2 * g + (5 + Critical - p)
      BY <1>1, <2>1, <2>2, <2>4, <2>8 DEF Rank
    <3>3. s <= r - 1
      BY ONLY <2>m, <2>5, <2>6, <3>1, <3>2 DEF Moved
    <3> QED
      BY <2>2, <3>3, Zenon
  <2> QED
    BY <2>7, <2>8
<1>8. Served'
  BY <1>1, <1>3, <1>4, <1>r, InTime DEF Starting
<1>9. Followed'
  BY <1>1, <1>3, StillFollowed DEF Starting
<1>10. Detector'
  BY <1>1, <1>3, Cycle
<1> QED
  BY <1>4, <1>5, <1>6, <1>7, <1>8, <1>9, <1>10 DEF LfsrInv

\* Between the edge and the writing of its word no other edge comes.
LEMMA NoEdge == ASSUME LfsrInv, capture, ~ Starting, pc # "clearedge" PROVE age + 1 # Period
<1>1. LfsrTypes /\ Served
  BY DEF LfsrInv
<1>2. PICK a, r : a = age /\ r = Rank
  OBVIOUS
<1>3. a + r <= Deadline
  BY <1>1, <1>2 DEF Served
<1>4. r \in Int /\ r >= 1
  BY <1>1, <1>2, RankBounds DEF RankFits
<1>5. a \in Int /\ Deadline \in Int /\ Period \in Int /\ Deadline < Period
  BY <1>1, <1>2, Numbers DEF LfsrTypes
<1>6. a + 1 # Period
  BY ONLY <1>3, <1>4, <1>5
<1> QED
  BY <1>2, <1>6

LEMMA InterruptKeeps == ASSUME LfsrInv, Interrupt PROVE LfsrInv'
<1>1. /\ pc = "out" /\ Taken /\ pie /\ pie' = FALSE /\ pc' = "pending" /\ Around(FALSE, {})
      /\ UNCHANGED <<table, ienable, active, value, off, mask, main, word>>
  BY DEF Interrupt, Taken
<1>2. LfsrTypes /\ SetUp /\ Calls /\ Handles
  BY DEF LfsrInv
<1>3. {} \in SUBSET Others /\ FALSE \in BOOLEAN
  OBVIOUS
<1>4. LfsrTypes'
  <2>1. CpuTypes'
    BY <1>1, <1>2 DEF LfsrTypes, CpuTypes
  <2> QED
    BY <1>1, <1>3, <2>1, TypesNext
<1>5. SetUp'
  BY <1>1, <1>2 DEF SetUp, InHandler
<1>6. Calls'
  BY <1>1 DEF Calls
<1>7. Handles'
  BY <1>1 DEF Handles, InHandler
<1>r. ASSUME age + 1 # Period, ~ Starting PROVE Rank' <= Rank - 1
  <2>1. PICK u, f, v, g, k :
           /\ u = Up /\ f = MayCome /\ v = Up' /\ g = MayCome'
           /\ (raised = {} <=> u = 0) /\ (raised' = {} <=> v = 0)
           /\ f <= Cardinality(Others)
           /\ Moved(u, f, v, g, k)
           /\ \A i \in raised : {} = {i} => v <= u + k - 1
    BY <1>1, <1>3, <1>r, Moving
  <2>2. PICK r, s : r = Rank /\ s = Rank'
    OBVIOUS
  <2>m. Moved(u, f, v, g, k)
    BY <2>1
  <2>3. CASE main = "table"
    <3>1. raised # {}
      BY <1>1, <1>2, <2>3, LfsrAssumption DEF Taken, Pending, SetUp
    <3>2. u # 0 /\ r = 2 * u + 4 * f + 9 /\ s = 2 * v + 4 * g + 8
      BY <1>1, <2>1, <2>2, <2>3, <3>1 DEF Rank
    <3>3. s <= r - 1
      BY ONLY <2>m, <3>2 DEF Moved
    <3> QED
      BY <2>2, <3>3, Zenon
  <2>4. CASE main = "tasks"
    <3>1. r = 2 * u + 2 * f + 5 /\ s = 2 * v + 2 * g + 4
      BY <1>1, <2>1, <2>2, <2>4 DEF Rank
    <3>2. s <= r - 1
      BY ONLY <2>m, <3>1 DEF Moved
    <3> QED
      BY <2>2, <3>2, Zenon
  <2>5. main # "enable"
    BY <1>1, <1>2 DEF SetUp
  <2> QED
    BY <1>2, <1>r, <2>3, <2>4, <2>5 DEF LfsrTypes, Starting
<1>8. Served'
  <2>1. CASE Starting
    BY <1>1, <2>1 DEF Served, Starting
  <2>2. CASE ~ Starting
    BY <1>1, <1>3, <1>4, <1>r, <2>2, InTime DEF Starting
  <2> QED
    BY <2>1, <2>2
<1>9. Followed'
  BY <1>1, <1>3, StillFollowed DEF Starting
<1>10. Detector'
  BY <1>1, <1>3, Cycle
<1> QED
  BY <1>4, <1>5, <1>6, <1>7, <1>8, <1>9, <1>10 DEF LfsrInv

\* The dispatcher goes back to the program only when nothing it may serve is left.
LEMMA PendingKeeps == ASSUME LfsrInv, ReadPending PROVE LfsrInv'
<1>1. /\ pc = "pending" /\ active' = Pending /\ Around(FALSE, {})
      /\ IF Pending = {} THEN pc' = "out" /\ pie' = TRUE ELSE pc' = "call" /\ UNCHANGED pie
      /\ UNCHANGED <<table, ienable, value, off, mask, main, word>>
  BY DEF ReadPending
<1>2. LfsrTypes /\ SetUp /\ Calls /\ Handles
  BY DEF LfsrInv
<1>3. {} \in SUBSET Others /\ FALSE \in BOOLEAN
  OBVIOUS
<1>4. LfsrTypes'
  <2>1. CpuTypes'
    BY <1>1, <1>2 DEF LfsrTypes, CpuTypes
  <2> QED
    BY <1>1, <1>3, <2>1, TypesNext
<1>5. SetUp'
  BY <1>1, <1>2 DEF SetUp, InHandler
<1>6. Calls'
  <2>1. raised \subseteq raised' /\ (capture => capture')
    BY <1>1, <1>3, Cycle
  <2>2. Pending \subseteq raised \cup {Lfsr}
    BY DEF Pending
  <2>3. Lfsr \in Pending => main = "tasks" /\ capture
    <3> SUFFICES ASSUME Lfsr \in Pending PROVE main = "tasks" /\ capture
      OBVIOUS
    <3>1. Lfsr \notin raised /\ Lfsr \notin Others
      BY <1>2, LfsrAssumption DEF LfsrTypes
    <3> QED
      BY <1>2, <3>1 DEF Pending, SetUp
  <2> QED
    BY <1>1, <2>1, <2>2, <2>3 DEF Calls
<1>7. Handles'
  BY <1>1 DEF Handles, InHandler
<1>r. ASSUME age + 1 # Period, ~ Starting, capture \/ main # "tasks" PROVE Rank' <= Rank - 1
  <2>1. PICK u, f, v, g, k :
           /\ u = Up /\ f = MayCome /\ v = Up' /\ g = MayCome'
           /\ (raised = {} <=> u = 0) /\ (raised' = {} <=> v = 0)
           /\ f <= Cardinality(Others)
           /\ Moved(u, f, v, g, k)
           /\ \A i \in raised : {} = {i} => v <= u + k - 1
    BY <1>1, <1>3, <1>r, Moving
  <2>2. PICK r, s : r = Rank /\ s = Rank'
    OBVIOUS
  <2>m. Moved(u, f, v, g, k)
    BY <2>1
  <2>3. CASE Pending = {}
    <3>1. main = "table"
      <4>1. main = "tasks" => Pending # {}
        BY <1>2, <1>r DEF Pending, SetUp
      <4>2. main # "enable"
        BY <1>1, <1>2 DEF SetUp
      <4> QED
        BY <1>2, <1>r, <2>3, <4>1, <4>2 DEF LfsrTypes, Starting
    <3>2. raised = {}
      BY <1>2, <2>3, <3>1 DEF Pending, SetUp, LfsrTypes
    <3>3. u = 0 /\ r = 2 * u + 4 * f + 8 /\ s = 2 * v + 4 * g + (IF v = 0 THEN 7 ELSE 9)
      BY <1>1, <2>1, <2>2, <2>3, <3>1, <3>2 DEF Rank
    <3>4. s <= r - 1
      BY ONLY <2>m, <3>3 DEF Moved
    <3> QED
      BY <2>2, <3>4, Zenon
  <2>4. CASE Pending # {} /\ main = "table"
    <3>1. r = 2 * u + 4 * f + 8 /\ s = 2 * v + 4 * g + 7
      BY <1>1, <2>1, <2>2, <2>4 DEF Rank
    <3>2. s <= r - 1
      BY ONLY <2>m, <3>1 DEF Moved
    <3> QED
      BY <2>2, <3>2, Zenon
  <2>5. CASE Pending # {} /\ main = "tasks"
    <3>1. r = 2 * u + 2 * f + 4 /\ s = 2 * v + 2 * g + 3
      BY <1>1, <2>1, <2>2, <2>5 DEF Rank
    <3>2. s <= r - 1
      BY ONLY <2>m, <3>1 DEF Moved
    <3> QED
      BY <2>2, <3>2, Zenon
  <2>6. main # "enable"
    BY <1>1, <1>2 DEF SetUp
  <2> QED
    BY <1>2, <1>r, <2>3, <2>4, <2>5, <2>6 DEF LfsrTypes, Starting
<1>8. Served'
  <2>1. CASE Starting
    BY <1>1, <2>1 DEF Served, Starting
  <2>2. CASE ~ Starting
    BY <1>1, <1>3, <1>4, <1>r, <2>2, InTime DEF Starting
  <2> QED
    BY <2>1, <2>2
<1>9. Followed'
  BY <1>1, <1>3, StillFollowed DEF Starting
<1>10. Detector'
  BY <1>1, <1>3, Cycle
<1> QED
  BY <1>4, <1>5, <1>6, <1>7, <1>8, <1>9, <1>10 DEF LfsrInv

\* The handler of the lowest number is called: another device's, which lets go of
\* its request, or that of the shift register.
LEMMA HandlerKeeps == ASSUME LfsrInv, CallHandler PROVE LfsrInv'
<1>1. /\ pc = "call" /\ pc' = (IF Min(active) = Lfsr THEN "read" ELSE "pending")
      /\ Around(FALSE, {Min(active)} \cap Others)
      /\ UNCHANGED <<table, ienable, pie, active, value, off, mask, main, word>>
  BY DEF CallHandler, cpu
<1>2. LfsrTypes /\ SetUp /\ Calls /\ Handles
  BY DEF LfsrInv
<1>3. ({Min(active)} \cap Others) \in SUBSET Others /\ FALSE \in BOOLEAN
  OBVIOUS
<1>m. /\ Min(active) \in raised \cup {Lfsr}
      /\ Min(active) = Lfsr => main = "tasks" /\ capture
  <2>1. active # {} /\ active \subseteq raised \cup {Lfsr} /\ (Lfsr \in active => main = "tasks" /\ capture)
    BY <1>1, <1>2 DEF Calls
  <2>2. active \subseteq Nat
    BY <1>2, <2>1, LfsrAssumption DEF LfsrTypes
  <2>3. Min(active) \in active
    BY <2>1, <2>2, LeastNat
  <2> QED
    BY <2>1, <2>3
<1>4. LfsrTypes'
  <2>1. CpuTypes'
    BY <1>1, <1>2 DEF LfsrTypes, CpuTypes
  <2> QED
    BY <1>1, <1>3, <2>1, TypesNext
<1>5. SetUp'
  BY <1>1, <1>2, <1>m DEF SetUp, InHandler
<1>6. Calls'
  BY <1>1 DEF Calls
<1>7. Handles'
  <2>1. pc' = "read" => capture'
    BY <1>1, <1>3, <1>m, Cycle
  <2> QED
    BY <1>1, <2>1 DEF Handles, InHandler
<1>r. ASSUME age + 1 # Period, ~ Starting PROVE Rank' <= Rank - 1
  <2>1. PICK u, f, v, g, k :
           /\ u = Up /\ f = MayCome /\ v = Up' /\ g = MayCome'
           /\ (raised = {} <=> u = 0) /\ (raised' = {} <=> v = 0)
           /\ f <= Cardinality(Others)
           /\ Moved(u, f, v, g, k)
           /\ \A i \in raised : ({Min(active)} \cap Others) = {i} => v <= u + k - 1
    BY <1>1, <1>3, <1>r, Moving
  <2>2. PICK r, s : r = Rank /\ s = Rank'
    OBVIOUS
  <2>m. Moved(u, f, v, g, k)
    BY <2>1
  <2>3. CASE Min(active) = Lfsr
    <3>1. main = "tasks" /\ pc' = "read"
      BY <1>1, <1>m, <2>3
    <3>2. r = 2 * u + 2 * f + 3 /\ s = 2 * v + 2 * g + 2
      BY <1>1, <2>1, <2>2, <3>1 DEF Rank
    <3>3. s <= r - 1
      BY ONLY <2>m, <3>2 DEF Moved
    <3> QED
      BY <2>2, <3>3, Zenon
  <2>4. CASE Min(active) # Lfsr
    <3>1. pc' = "pending" /\ v <= u + k - 1
      <4>1. {Min(active)} \cap Others = {Min(active)} /\ Min(active) \in raised
        BY <1>2, <1>m, <2>4 DEF LfsrTypes
      <4> QED
        BY <1>1, <2>1, <2>4, <4>1
    <3>2. CASE main = "table"
      <4>1. r = 2 * u + 4 * f + 7 /\ s = 2 * v + 4 * g + 8
        BY <1>1, <2>1, <2>2, <3>1, <3>2 DEF Rank
      <4>2. s <= r - 1
        BY ONLY <2>m, <3>1, <4>1 DEF Moved
      <4> QED
        BY <2>2, <4>2, Zenon
    <3>3. CASE main = "tasks"
      <4>1. r = 2 * u + 2 * f + 3 /\ s = 2 * v + 2 * g + 4
        BY <1>1, <2>1, <2>2, <3>1, <3>3 DEF Rank
      <4>2. s <= r - 1
        BY ONLY <2>m, <3>1, <4>1 DEF Moved
      <4> QED
        BY <2>2, <4>2, Zenon
    <3>4. main # "enable"
      BY <1>1, <1>2 DEF SetUp
    <3> QED
      BY <1>2, <1>r, <3>2, <3>3, <3>4 DEF LfsrTypes, Starting
  <2> QED
    BY <2>3, <2>4
<1>8. Served'
  <2>1. CASE Starting
    BY <1>1, <2>1 DEF Served, Starting
  <2>2. CASE ~ Starting
    BY <1>1, <1>3, <1>4, <1>r, <2>2, InTime DEF Starting
  <2> QED
    BY <2>1, <2>2
<1>9. Followed'
  BY <1>1, <1>3, StillFollowed DEF Starting
<1>10. Detector'
  BY <1>1, <1>3, Cycle
<1> QED
  BY <1>4, <1>5, <1>6, <1>7, <1>8, <1>9, <1>10 DEF LfsrInv

\* What the handler reads is still in the shift register when it writes the word.
LEMMA ReadKeeps == ASSUME LfsrInv, ReadLfsr PROVE LfsrInv'
<1>1. /\ pc = "read" /\ pc' = "write" /\ value' = q /\ Around(FALSE, {})
      /\ UNCHANGED <<table, ienable, pie, active, off, mask, main, word>>
  BY DEF ReadLfsr, cpu
<1>2. LfsrTypes /\ SetUp /\ Calls /\ Handles
  BY DEF LfsrInv
<1>3. {} \in SUBSET Others /\ FALSE \in BOOLEAN
  OBVIOUS
<1>h. main = "tasks" /\ ~ Starting
  BY <1>1, <1>2 DEF SetUp, InHandler, Starting
<1>e. capture /\ age + 1 # Period /\ q' = q /\ capture'
  <2>1. capture
    BY <1>1, <1>2 DEF Handles, InHandler
  <2>2. age + 1 # Period
    BY <1>1, <1>h, <2>1, NoEdge
  <2> QED
    BY <1>1, <1>3, <2>1, <2>2, Cycle
<1>4. LfsrTypes'
  <2>1. CpuTypes'
    BY <1>1, <1>2 DEF LfsrTypes, CpuTypes
  <2> QED
    BY <1>1, <1>3, <2>1, TypesNext
<1>5. SetUp'
  BY <1>1, <1>2 DEF SetUp, InHandler
<1>6. Calls'
  BY <1>1 DEF Calls
<1>7. Handles'
  BY <1>1, <1>e DEF Handles, InHandler
<1>r. ASSUME age + 1 # Period PROVE Rank' <= Rank - 1
  <2>1. PICK u, f, v, g, k :
           /\ u = Up /\ f = MayCome /\ v = Up' /\ g = MayCome'
           /\ (raised = {} <=> u = 0) /\ (raised' = {} <=> v = 0)
           /\ f <= Cardinality(Others)
           /\ Moved(u, f, v, g, k)
           /\ \A i \in raised : {} = {i} => v <= u + k - 1
    BY <1>1, <1>3, <1>r, Moving
  <2>2. PICK r, s : r = Rank /\ s = Rank'
    OBVIOUS
  <2>m. Moved(u, f, v, g, k)
    BY <2>1
  <2>3. r = 2 * u + 2 * f + 2 /\ s = 2 * v + 2 * g + 1
    BY <1>1, <1>h, <2>1, <2>2 DEF Rank
  <2>4. s <= r - 1
    BY ONLY <2>m, <2>3 DEF Moved
  <2> QED
    BY <2>2, <2>4, Zenon
<1>8. Served'
  BY <1>1, <1>3, <1>4, <1>h, <1>r, InTime DEF Starting
<1>9. Followed'
  BY <1>1, <1>3, StillFollowed DEF Starting
<1>10. Detector'
  BY <1>1, <1>3, Cycle
<1> QED
  BY <1>4, <1>5, <1>6, <1>7, <1>8, <1>9, <1>10 DEF LfsrInv

LEMMA WriteKeeps == ASSUME LfsrInv, WriteWord PROVE LfsrInv'
<1>1. /\ pc = "write" /\ pc' = "clearedge" /\ word' = TuningWord(value) /\ Around(FALSE, {})
      /\ UNCHANGED <<table, ienable, pie, active, off, mask, main, value>>
  BY DEF WriteWord, cpu
<1>2. LfsrTypes /\ SetUp /\ Calls /\ Handles
  BY DEF LfsrInv
<1>3. {} \in SUBSET Others /\ FALSE \in BOOLEAN
  OBVIOUS
<1>h. main = "tasks" /\ ~ Starting
  BY <1>1, <1>2 DEF SetUp, InHandler, Starting
<1>e. capture /\ age + 1 # Period /\ q' = q /\ capture'
  <2>1. capture
    BY <1>1, <1>2 DEF Handles, InHandler
  <2>2. age + 1 # Period
    BY <1>1, <1>h, <2>1, NoEdge
  <2> QED
    BY <1>1, <1>3, <2>1, <2>2, Cycle
<1>4. LfsrTypes'
  <2>1. CpuTypes'
    BY <1>1, <1>2 DEF LfsrTypes, CpuTypes
  <2> QED
    BY <1>1, <1>3, <2>1, TypesNext
<1>5. SetUp'
  BY <1>1, <1>2 DEF SetUp, InHandler
<1>6. Calls'
  BY <1>1 DEF Calls
<1>7. Handles'
  BY <1>1, <1>2, <1>e DEF Handles, InHandler
<1>8. Served'
  BY <1>1, <1>3, <1>4, <1>h, <1>e, InTime DEF Starting
<1>9. Followed'
  BY <1>1, <1>3, <1>h, <1>e, StillFollowed DEF Starting
<1>10. Detector'
  BY <1>1, <1>3, Cycle
<1> QED
  BY <1>4, <1>5, <1>6, <1>7, <1>8, <1>9, <1>10 DEF LfsrInv

LEMMA ClearEdgeKeeps == ASSUME LfsrInv, ClearEdge PROVE LfsrInv'
<1>1. /\ pc = "clearedge" /\ pc' = "readback" /\ Around(TRUE, {})
      /\ UNCHANGED <<table, ienable, pie, active, off, mask, main, value, word>>
  BY DEF ClearEdge, cpu
<1>2. LfsrTypes /\ SetUp /\ Calls /\ Handles
  BY DEF LfsrInv
<1>3. {} \in SUBSET Others /\ TRUE \in BOOLEAN
  OBVIOUS
<1>h. main = "tasks" /\ ~ Starting
  BY <1>1, <1>2 DEF SetUp, InHandler, Starting
<1>4. LfsrTypes'
  <2>1. CpuTypes'
    BY <1>1, <1>2 DEF LfsrTypes, CpuTypes
  <2> QED
    BY <1>1, <1>3, <2>1, TypesNext
<1>5. SetUp'
  BY <1>1, <1>2 DEF SetUp, InHandler
<1>6. Calls'
  BY <1>1 DEF Calls
<1>7. Handles'
  BY <1>1 DEF Handles, InHandler
<1>8. Served'
  BY <1>1, <1>3, <1>4, <1>h, InTime DEF Starting
<1>9. Followed'
  BY <1>1, <1>3, StillFollowed DEF Starting
<1>10. Detector'
  BY <1>1, <1>3, Cycle
<1> QED
  BY <1>4, <1>5, <1>6, <1>7, <1>8, <1>9, <1>10 DEF LfsrInv

LEMMA ReadBackKeeps == ASSUME LfsrInv, ReadBack PROVE LfsrInv'
<1>1. /\ pc = "readback" /\ pc' = "pending" /\ Around(FALSE, {})
      /\ UNCHANGED <<table, ienable, pie, active, off, mask, main, value, word>>
  BY DEF ReadBack, cpu
<1>2. LfsrTypes /\ SetUp /\ Calls /\ Handles
  BY DEF LfsrInv
<1>3. {} \in SUBSET Others /\ FALSE \in BOOLEAN
  OBVIOUS
<1>h. main = "tasks" /\ ~ Starting
  BY <1>1, <1>2 DEF SetUp, InHandler, Starting
<1>4. LfsrTypes'
  <2>1. CpuTypes'
    BY <1>1, <1>2 DEF LfsrTypes, CpuTypes
  <2> QED
    BY <1>1, <1>3, <2>1, TypesNext
<1>5. SetUp'
  BY <1>1, <1>2 DEF SetUp, InHandler
<1>6. Calls'
  BY <1>1 DEF Calls
<1>7. Handles'
  BY <1>1 DEF Handles, InHandler
<1>r. ASSUME age + 1 # Period PROVE Rank' <= Rank - 1
  <2>1. PICK u, f, v, g, k :
           /\ u = Up /\ f = MayCome /\ v = Up' /\ g = MayCome'
           /\ (raised = {} <=> u = 0) /\ (raised' = {} <=> v = 0)
           /\ f <= Cardinality(Others)
           /\ Moved(u, f, v, g, k)
           /\ \A i \in raised : {} = {i} => v <= u + k - 1
    BY <1>1, <1>3, <1>r, Moving
  <2>2. PICK r, s : r = Rank /\ s = Rank'
    OBVIOUS
  <2>m. Moved(u, f, v, g, k)
    BY <2>1
  <2>3. r = 2 * u + 2 * f + 5 /\ s = 2 * v + 2 * g + 4
    BY <1>1, <1>h, <2>1, <2>2 DEF Rank
  <2>4. s <= r - 1
    BY ONLY <2>m, <2>3 DEF Moved
  <2> QED
    BY <2>2, <2>4, Zenon
<1>8. Served'
  BY <1>1, <1>3, <1>4, <1>h, <1>r, InTime DEF Starting
<1>9. Followed'
  BY <1>1, <1>3, StillFollowed DEF Starting
<1>10. Detector'
  BY <1>1, <1>3, Cycle
<1> QED
  BY <1>4, <1>5, <1>6, <1>7, <1>8, <1>9, <1>10 DEF LfsrInv

LEMMA LfsrStart == LfsrInit => LfsrInv
<1> SUFFICES ASSUME LfsrInit PROVE LfsrInv
  OBVIOUS
<1>1. /\ age \in 0 .. Period - 1 /\ d1 = LfsrClk(age - 1) /\ d2 = LfsrClk(age - 2)
      /\ capture \in BOOLEAN /\ mask = FALSE /\ raised = {} /\ came = {} /\ ienable = Others /\ pie = TRUE
      /\ main = "mask" /\ pc = "out" /\ off = 0 /\ armed = FALSE
  BY DEF LfsrInit
<1>2. PICK a, p, h : a = age /\ p = Period /\ h = Period \div 2
  OBVIOUS
<1>3. a \in Int /\ 0 <= a /\ a < p /\ p \in Int /\ p > 9 /\ h \in Int /\ 1 <= h /\ h + 1 < p
  BY <1>1, <1>2, Numbers
<1>4. /\ (a - 1) % p = (IF a = 0 THEN p - 1 ELSE a - 1)
      /\ (a - 2) % p = (IF a < 2 THEN a - 2 + p ELSE a - 2)
  BY ONLY <1>3, Z3
<1>5. (d1 <=> (a - 1) % p < h) /\ (d2 <=> (a - 2) % p < h) /\ d1 \in BOOLEAN /\ d2 \in BOOLEAN
  <2>1. ASSUME NEW n, NEW b, b = LfsrClk(n) PROVE (b <=> n % Period < Period \div 2) /\ b \in BOOLEAN
    <3>1. LfsrClk(n) \in BOOLEAN
      BY DEF LfsrClk
    <3>2. LfsrClk(n) <=> n % Period < Period \div 2
      BY DEF LfsrClk
    <3> QED
      BY ONLY <2>1, <3>1, <3>2, Zenon
  <2>2. (d1 <=> (age - 1) % Period < Period \div 2) /\ d1 \in BOOLEAN
    BY ONLY <1>1, <2>1
  <2>3. (d2 <=> (age - 2) % Period < Period \div 2) /\ d2 \in BOOLEAN
    BY ONLY <1>1, <2>1
  <2> QED
    BY ONLY <1>2, <2>2, <2>3, Zenon
<1>6. Detector
  <2>1. d1 <=> 1 <= a /\ a <= h
    BY ONLY <1>3, <1>4, <1>5
  <2>2. d2 <=> 2 <= a /\ a <= h + 1
    BY ONLY <1>3, <1>4, <1>5
  <2> QED
    BY <1>2, <2>1, <2>2, Zenon DEF Detector
<1>7. LfsrTypes
  <2>1. 0 \in 0 .. Critical - 1
    BY Numbers
  <2>2. d1 \in BOOLEAN /\ d2 \in BOOLEAN
    BY <1>5
  <2> QED
    BY ONLY <1>1, <2>1, <2>2 DEF LfsrTypes
<1>8. SetUp
  BY <1>1 DEF SetUp, InHandler
<1>9. Calls /\ Handles /\ Served /\ Followed
  BY <1>1 DEF Calls, Handles, InHandler, Served, Starting, Followed
<1> QED
  BY <1>6, <1>7, <1>8, <1>9 DEF LfsrInv

LEMMA LfsrStep == LfsrInv /\ [LfsrNext]_lvars => LfsrInv'
<1> SUFFICES ASSUME LfsrInv, [LfsrNext]_lvars PROVE LfsrInv'
  OBVIOUS
<1>1. CASE EnableMask \/ ClearAtInit \/ FillTable \/ EnableIrq
  BY <1>1, MaskKeeps, ClearKeeps, FillKeeps, EnableKeeps
<1>2. CASE Tasks \/ Interrupt \/ ReadPending \/ CallHandler
  BY <1>2, TasksKeep, InterruptKeeps, PendingKeeps, HandlerKeeps
<1>3. CASE handle_lfsr_interrupts
  BY <1>3, ReadKeeps, WriteKeeps, ClearEdgeKeeps, ReadBackKeeps DEF handle_lfsr_interrupts
<1>4. CASE UNCHANGED lvars
  <2>1. /\ UNCHANGED <<q, age, d1, d2, armed, raised, came, table, ienable, pie, active, value, off>>
        /\ UNCHANGED <<capture, mask, main, pc, word>>
    BY <1>4 DEF lvars, hardware, devices, cpu
  <2>2. Rank' = Rank
    BY <2>1 DEF Rank, Up, MayCome
  <2> QED
    BY <2>1, <2>2 DEF LfsrInv, LfsrTypes, SetUp, Detector, Calls, Handles, Served, Followed, InHandler, Starting
<1> QED
  BY <1>1, <1>2, <1>3, <1>4 DEF LfsrNext

LEMMA InvFollows == LfsrInv => WordFollows
<1> SUFFICES ASSUME LfsrInv, armed, age >= Deadline PROVE word = TuningWord(q)
  BY DEF WordFollows
<1>1. LfsrTypes /\ Served /\ Followed /\ Handles /\ ~ Starting
  BY DEF LfsrInv, Followed
<1>2. PICK a, r : a = age /\ r = Rank
  OBVIOUS
<1>3. a \in Int /\ Deadline \in Int /\ a >= Deadline /\ r \in Int /\ r >= 1
  BY <1>1, <1>2, Numbers, RankBounds DEF LfsrTypes, RankFits
<1>4. Deadline >= 2
  <2>1. PICK c : c = Cardinality(Others)
    OBVIOUS
  <2>2. c \in Int /\ c >= 0 /\ 6 * c + 9 <= Deadline
    BY <2>1, Numbers
  <2> QED
    BY ONLY <1>3, <2>2
<1>5. CASE capture
  <2>1. ~ (a + r <= Deadline)
    BY ONLY <1>3
  <2>2. pc = "clearedge"
    BY <1>1, <1>2, <1>5, <2>1 DEF Served
  <2> QED
    BY <1>1, <2>2 DEF Handles
<1>6. CASE ~ capture
  <2>1. a >= 2
    BY ONLY <1>3, <1>4
  <2> QED
    BY <1>1, <1>2, <1>6, <2>1 DEF Followed
<1> QED
  BY <1>5, <1>6

\* However the other interrupts and the critical sections of the kernel fall, the
\* tuning word is that of the last edge by the deadline, for any number of devices
\* and any lengths that leave room for them: no edge is lost and none is served
\* with what was read before it.
THEOREM WordInTime == LfsrSpec => []WordFollows
<1> QED
  BY LfsrStart, LfsrStep, InvFollows, PTL DEF LfsrSpec


(***************************************************************************)
(* About Task2Fsm and Ksa, the RC4 key search, for every number N of byte  *)
(* values, message length, set of valid characters and message: the        *)
(* exchanges keep S a permutation, the circuit computes RC4, searches the  *)
(* keys as KeySearch says, and shows a truthful verdict.                   *)
(***************************************************************************)

LEMMA BytesAreIntegers ==
  /\ Byte \subseteq Int
  /\ 0 \in Byte
  /\ \A x \in Int : x % N \in Byte
  BY NAssumption DEF Byte

LEMMA IncByte ==
  ASSUME NEW n \in Byte
  PROVE  inc(n) \in Byte /\ (n # N - 1 => inc(n) = n + 1)
  BY NAssumption DEF Byte, inc

LEMMA KeysAreIntegers == Keys \subseteq Int /\ 0 \in Keys /\ LastKey \in Int
  <1>1. N * N \in Nat /\ N * N >= 1
    BY NAssumption
  <1>2. N * N * N \in Nat /\ N * N * N >= 1
    BY <1>1, NAssumption
  <1> QED
    BY <1>2 DEF Keys, LastKey

LEMMA NextKey ==
  ASSUME NEW s \in Keys, s # LastKey
  PROVE  s + 1 \in Keys
  BY KeysAreIntegers DEF Keys

LEMMA SumByte ==
  ASSUME NEW a \in Byte, NEW b \in Byte
  PROVE  (a + b) % N \in Byte
  <1>1. a + b \in Int
    BY BytesAreIntegers
  <1> QED
    BY <1>1, BytesAreIntegers

(* The next value of j is a byte whatever the key.                         *)
LEMMA KeyedIndexIsByte ==
  ASSUME NEW s \in Keys, NEW a \in Byte, NEW b \in Byte, NEW i \in Byte
  PROVE  (a + b + KeyByte(s, i % 3)) % N \in Byte
  <1>1. i % 3 \in {0, 1, 2}
    BY NAssumption DEF Byte
  <1>2. s \in Int /\ N * N \in Int /\ N * N > 0
    BY KeysAreIntegers, NAssumption
  <1>3. s \div (N * N) \in Int
    <2> DEFINE NN == N * N
    <2>1. NN \in Int /\ NN > 0
      BY <1>2
    <2> HIDE DEF NN
    <2>2. s \div NN \in Int
      BY <1>2, <2>1
    <2> QED
      BY <2>2 DEF NN
  <1>4. s \div N \in Int /\ (s \div N) % N \in Int /\ s % N \in Int
    BY <1>2, NAssumption
  <1>5. KeyByte(s, i % 3) \in Int
    BY <1>1, <1>3, <1>4 DEF KeyByte
  <1> QED
    BY <1>5, BytesAreIntegers

-----------------------------------------------------------------------------
(* Every register keeps its type.                                          *)
LEMMA TypeInit == Init => TypeOK
  BY BytesAreIntegers, KeysAreIntegers DEF Init, TypeOK, States

LEMMA TypeMemories ==
  ASSUME TypeOK, SampleMemories
  PROVE  /\ s_mem' \in [Byte -> Byte] /\ s_addr' \in Byte
         /\ en_mem' \in [0 .. MsgLen - 1 -> Byte] /\ en_addr' \in Byte
         /\ de_mem' \in [Byte -> Byte]
         /\ out_mem \in Byte
         /\ encrypted_input \in Byte
  <1>1. en_addr % MsgLen \in 0 .. MsgLen - 1
    <2>1. MsgLen \in Int /\ MsgLen > 0
      BY MsgLenAssumption, NAssumption
    <2>2. en_addr \in Int
      BY BytesAreIntegers DEF TypeOK
    <2> QED
      BY <2>1, <2>2
  <1>2. encrypted_input \in Byte
    BY <1>1 DEF encrypted_input, TypeOK
  <1> QED
    BY <1>2 DEF TypeOK, SampleMemories, out_mem

LEMMA TypeStep == TypeOK /\ [Next]_vars => TypeOK'
  <1> SUFFICES ASSUME TypeOK, [Next]_vars PROVE TypeOK'
    OBVIOUS
  <1>1. CASE UNCHANGED vars
    BY <1>1 DEF TypeOK, vars, indices, bus, result, search, memories
  <1> DEFINE RegistersOK ==
        /\ counter_i \in Byte /\ counter_j \in Byte /\ counter_k \in Byte
        /\ temp_i \in Byte /\ temp_j \in Byte
        /\ address \in Byte /\ data \in Byte /\ wren \in BOOLEAN
        /\ address_in \in Byte /\ address_out \in Byte
        /\ data_decrypted \in Byte /\ wren_d \in BOOLEAN
        /\ fsm1_done \in BOOLEAN /\ secret \in Keys
  <1>2. ASSUME NEW from, NEW to \in States, Edge(from, to), RegistersOK'
        PROVE  TypeOK'
    BY <1>2, TypeMemories DEF Edge, TypeOK, LatchVerdict
  <1> USE DEF RegistersOK, indices, bus, result, search
  <1>3. CASE WriteMem
    <2>1. RegistersOK'
      BY <1>3 DEF WriteMem, TypeOK
    <2>2. \E from, to \in States : Edge(from, to)
      BY <1>3 DEF WriteMem, States
    <2> QED
      BY <1>2, <2>1, <2>2
  <1>4. CASE CheckDone
    <2>1. RegistersOK'
      BY <1>4, IncByte DEF CheckDone, TypeOK
    <2>2. \E from, to \in States : Edge(from, to)
      BY <1>4 DEF CheckDone, States
    <2> QED
      BY <1>2, <2>1, <2>2
  <1>5. CASE DoneFill
    <2>1. RegistersOK'
      BY <1>5 DEF DoneFill, TypeOK
    <2>2. \E from, to \in States : Edge(from, to)
      BY <1>5 DEF DoneFill, States
    <2> QED
      BY <1>2, <2>1, <2>2
  <1>6. CASE StartSwap
    <2>1. RegistersOK'
      BY <1>6, BytesAreIntegers DEF StartSwap, TypeOK
    <2>2. \E from, to \in States : Edge(from, to)
      BY <1>6 DEF StartSwap, States
    <2> QED
      BY <1>2, <2>1, <2>2
  <1>7. CASE Swap1
    <2>1. RegistersOK'
      BY <1>7 DEF Swap1, TypeOK
    <2>2. \E from, to \in States : Edge(from, to)
      BY <1>7 DEF Swap1, States
    <2> QED
      BY <1>2, <2>1, <2>2
  <1>8. CASE StoreI
    <2>1. RegistersOK'
      BY <1>8, TypeMemories DEF StoreI, TypeOK, Edge, SampleMemories
    <2>2. \E from, to \in States : Edge(from, to)
      BY <1>8 DEF StoreI, States
    <2> QED
      BY <1>2, <2>1, <2>2
  <1>9. CASE CalcJ
    <2>1. RegistersOK'
      BY <1>9, TypeMemories, KeyedIndexIsByte DEF CalcJ, TypeOK, Edge, SampleMemories
    <2>2. \E from, to \in States : Edge(from, to)
      BY <1>9 DEF CalcJ, States
    <2> QED
      BY <1>2, <2>1, <2>2
  <1>10. CASE StoreJ
    <2>1. RegistersOK'
      BY <1>10, TypeMemories DEF StoreJ, TypeOK, Edge, SampleMemories
    <2>2. \E from, to \in States : Edge(from, to)
      BY <1>10 DEF StoreJ, States
    <2> QED
      BY <1>2, <2>1, <2>2
  <1>11. CASE WriteAtJ
    <2>1. RegistersOK'
      BY <1>11 DEF WriteAtJ, TypeOK
    <2>2. \E from, to \in States : Edge(from, to)
      BY <1>11 DEF WriteAtJ, States
    <2> QED
      BY <1>2, <2>1, <2>2
  <1>12. CASE LowerWren
    <2>1. RegistersOK'
      BY <1>12 DEF LowerWren, TypeOK
    <2>2. \E from, to \in States : Edge(from, to)
      BY <1>12 DEF LowerWren, States
    <2> QED
      BY <1>2, <2>1, <2>2
  <1>13. CASE WriteAtI
    <2>1. RegistersOK'
      BY <1>13 DEF WriteAtI, TypeOK
    <2>2. \E from, to \in States : Edge(from, to)
      BY <1>13 DEF WriteAtI, States
    <2> QED
      BY <1>2, <2>1, <2>2
  <1>14. CASE CounterInc
    <2>1. RegistersOK'
      BY <1>14, IncByte DEF CounterInc, TypeOK
    <2>2. \E from, to \in States : Edge(from, to)
      BY <1>14 DEF CounterInc, States
    <2> QED
      BY <1>2, <2>1, <2>2
  <1>15. CASE StartSwap2
    <2>1. RegistersOK'
      BY <1>15, BytesAreIntegers DEF StartSwap2, TypeOK
    <2>2. \E from, to \in States : Edge(from, to)
      BY <1>15 DEF StartSwap2, States
    <2> QED
      BY <1>2, <2>1, <2>2
  <1>16. CASE IInc
    <2>1. RegistersOK'
      BY <1>16, IncByte DEF IInc, TypeOK
    <2>2. \E from, to \in States : Edge(from, to)
      BY <1>16 DEF IInc, States
    <2> QED
      BY <1>2, <2>1, <2>2
  <1>17. CASE JUpdate
    <2>1. RegistersOK'
      BY <1>17, TypeMemories, SumByte DEF JUpdate, TypeOK, Edge, SampleMemories
    <2>2. \E from, to \in States : Edge(from, to)
      BY <1>17 DEF JUpdate, States
    <2> QED
      BY <1>2, <2>1, <2>2
  <1>18. CASE StoreI2
    <2>1. RegistersOK'
      BY <1>18, TypeMemories DEF StoreI2, TypeOK, Edge, SampleMemories
    <2>2. \E from, to \in States : Edge(from, to)
      BY <1>18 DEF StoreI2, States
    <2> QED
      BY <1>2, <2>1, <2>2
  <1>19. CASE StoreJ2
    <2>1. RegistersOK'
      BY <1>19, TypeMemories DEF StoreJ2, TypeOK, Edge, SampleMemories
    <2>2. \E from, to \in States : Edge(from, to)
      BY <1>19 DEF StoreJ2, States
    <2> QED
      BY <1>2, <2>1, <2>2
  <1>20. CASE FLogicI
    <2>1. RegistersOK'
      BY <1>20, SumByte DEF FLogicI, TypeOK
    <2>2. \E from, to \in States : Edge(from, to)
      BY <1>20 DEF FLogicI, States
    <2> QED
      BY <1>2, <2>1, <2>2
  <1>21. CASE DecryptState
    <2>1. RegistersOK'
      BY <1>21, TypeMemories, IncByte, XorAssumption DEF DecryptState, Byte, TypeOK, Edge, SampleMemories
    <2>2. \E from, to \in States : Edge(from, to)
      BY <1>21 DEF DecryptState, States
    <2> QED
      BY <1>2, <2>1, <2>2
  <1>22. CASE CheckKloop
    <2>1. RegistersOK'
      BY <1>22, BytesAreIntegers, NextKey DEF CheckKloop, ValidByte, MoreBytes, TryNextKey, GiveUp, TypeOK
    <2>2. \E from, to \in States : Edge(from, to)
      BY <1>22 DEF CheckKloop, ValidByte, MoreBytes, TryNextKey, GiveUp, States
    <2> QED
      BY <1>2, <2>1, <2>2
  <1>23. CASE Pass
    <2>1. RegistersOK'
      BY <1>23 DEF Pass, TypeOK
    <2>2. \E from, to \in States : Edge(from, to)
      BY <1>23 DEF Pass, States
    <2> QED
      BY <1>2, <2>1, <2>2
  <1>24. CASE Default
    <2>1. RegistersOK'
      BY <1>24 DEF Default, TypeOK
    <2>2. \E from, to \in States : Edge(from, to)
      BY <1>24, ZNextAssumption DEF Default, States
    <2> QED
      BY <1>2, <2>1, <2>2
  <1> QED
    BY <1>1, <1>3, <1>4, <1>5, <1>6, <1>7, <1>8, <1>9, <1>10, <1>11, <1>12, <1>13, <1>14, <1>15, <1>16, <1>17, <1>18, <1>19, <1>20, <1>21, <1>22, <1>23, <1>24 DEF Next

(* Every register keeps its width and every memory its shape.             *)
THEOREM TypeCorrect == Spec => []TypeOK
  BY TypeInit, TypeStep, PTL DEF Spec
-----------------------------------------------------------------------------
(* The exchange: writing the old S[i] to cell j and the old S[j] to cell i *)
(* keeps S injective, i = j included.                                      *)
LEMMA ExchangeInjective ==
  ASSUME NEW S \in [Byte -> Byte], NEW i \in Byte, NEW j \in Byte, Injective(S)
  PROVE  Injective([[S EXCEPT ![j] = S[i]] EXCEPT ![i] = S[j]])
  BY DEF Injective

LEMMA SwapInit == Init => SwapInv
  <1> SUFFICES ASSUME Init PROVE SwapInv
    OBVIOUS
  <1>1. FillInv
    BY NAssumption DEF Init, FillInv, Filling, Byte
  <1> QED
    BY <1>1 DEF Init, SwapInv, WrenInv, AddressInv, CopiesInv, Permutation, Filling

(* With the write enable down an edge leaves the S memory alone.           *)
LEMMA Undisturbed ==
  ASSUME SampleMemories, wren = FALSE
  PROVE  s_mem' = s_mem /\ s_addr' = address
  BY DEF SampleMemories

LEMMA SwapStep ==
  ASSUME ZQuiet
  PROVE  TypeOK /\ SwapInv /\ [Next]_vars => SwapInv'
  <1> SUFFICES ASSUME TypeOK, SwapInv, [Next]_vars PROVE SwapInv'
    OBVIOUS
  <1> USE DEF indices, bus, result, search, Filling
  <1>1. CASE UNCHANGED vars
    BY <1>1 DEF SwapInv, FillInv, WrenInv, AddressInv, CopiesInv, Permutation,
                Settled, vars, memories
  <1>2. CASE WriteMem
    <2>1. FillInv'
      BY <1>2 DEF WriteMem, Edge, SampleMemories, SwapInv, FillInv, TypeOK
    <2>2. WrenInv'
      BY <1>2 DEF WriteMem, Edge, WrenInv
    <2>3. AddressInv'
      BY <1>2 DEF WriteMem, Edge, SampleMemories, SwapInv, AddressInv
    <2>4. CopiesInv'
      BY <1>2 DEF WriteMem, Edge, SampleMemories, SwapInv, CopiesInv
    <2>5. Permutation'
      BY <1>2 DEF WriteMem, Edge, SampleMemories, SwapInv, CopiesInv, AddressInv, FillInv, Permutation, Settled
    <2> QED
      BY <2>1, <2>2, <2>3, <2>4, <2>5 DEF SwapInv
  <1>3. CASE CheckDone
    <2>1. FillInv'
      <3>1. \A c \in Byte : c < counter_i => s_mem'[c] = c
        BY <1>3 DEF CheckDone, Edge, SampleMemories, SwapInv, FillInv, TypeOK
      <3>2. s_mem'[counter_i] = counter_i
        BY <1>3 DEF CheckDone, Edge, SampleMemories, SwapInv, FillInv, TypeOK
      <3>3. \A c \in Byte : c < counter_i + 1 => s_mem'[c] = c
        BY <3>1, <3>2, BytesAreIntegers DEF TypeOK
      <3>4. CASE counter_i = N - 1
        BY <1>3, <3>3, <3>4, NAssumption
        DEF CheckDone, Edge, SwapInv, FillInv, Byte
      <3>5. CASE counter_i # N - 1
        BY <1>3, <3>3, <3>5, IncByte
        DEF CheckDone, Edge, SwapInv, FillInv, TypeOK
      <3> QED
        BY <3>4, <3>5
    <2>2. WrenInv'
      BY <1>3 DEF CheckDone, Edge, WrenInv
    <2>3. AddressInv'
      BY <1>3 DEF CheckDone, Edge, SampleMemories, SwapInv, AddressInv
    <2>4. CopiesInv'
      BY <1>3 DEF CheckDone, Edge, SampleMemories, SwapInv, CopiesInv
    <2>5. Permutation'
      BY <1>3 DEF CheckDone, Edge, SampleMemories, SwapInv, CopiesInv, AddressInv, FillInv, Permutation, Settled
    <2> QED
      BY <2>1, <2>2, <2>3, <2>4, <2>5 DEF SwapInv
  <1>4. CASE DoneFill
    <2>1. FillInv'
      BY <1>4 DEF DoneFill, Edge, SampleMemories, SwapInv, FillInv, TypeOK
    <2>2. WrenInv'
      BY <1>4 DEF DoneFill, Edge, WrenInv
    <2>3. AddressInv'
      BY <1>4 DEF DoneFill, Edge, SampleMemories, SwapInv, AddressInv
    <2>4. CopiesInv'
      BY <1>4 DEF DoneFill, Edge, SampleMemories, SwapInv, CopiesInv
    <2>5. Permutation'
      <3>1. \A c \in Byte : s_mem'[c] = c
        BY <1>4 DEF DoneFill, Edge, SampleMemories, SwapInv, FillInv, TypeOK
      <3> QED
        BY <1>4, <3>1 DEF DoneFill, Edge, Permutation, Settled, Injective
    <2> QED
      BY <2>1, <2>2, <2>3, <2>4, <2>5 DEF SwapInv
  <1>5. CASE StartSwap
    <2>1. wren = FALSE /\ s_mem' = s_mem /\ s_addr' = address
      BY <1>5, Undisturbed DEF StartSwap, Edge, SwapInv, WrenInv, TypeOK
    <2> QED
      BY <1>5, <2>1 DEF StartSwap, Edge, SwapInv, FillInv, WrenInv, AddressInv,
         CopiesInv, Permutation, Settled, out_mem
  <1>6. CASE Swap1
    <2>1. wren = FALSE /\ s_mem' = s_mem /\ s_addr' = address
      BY <1>6, Undisturbed DEF Swap1, Edge, SwapInv, WrenInv, TypeOK
    <2> QED
      BY <1>6, <2>1 DEF Swap1, Edge, SwapInv, FillInv, WrenInv, AddressInv,
         CopiesInv, Permutation, Settled, out_mem
  <1>7. CASE StoreI
    <2>1. wren = FALSE /\ s_mem' = s_mem /\ s_addr' = address
      BY <1>7, Undisturbed DEF StoreI, Edge, SwapInv, WrenInv, TypeOK
    <2> QED
      BY <1>7, <2>1 DEF StoreI, Edge, SwapInv, FillInv, WrenInv, AddressInv,
         CopiesInv, Permutation, Settled, out_mem
  <1>8. CASE CalcJ
    <2>1. wren = FALSE /\ s_mem' = s_mem /\ s_addr' = address
      BY <1>8, Undisturbed DEF CalcJ, Edge, SwapInv, WrenInv, TypeOK
    <2> QED
      BY <1>8, <2>1 DEF CalcJ, Edge, SwapInv, FillInv, WrenInv, AddressInv,
         CopiesInv, Permutation, Settled, out_mem
  <1>9. CASE StoreJ
    <2>1. wren = FALSE /\ s_mem' = s_mem /\ s_addr' = address
      BY <1>9, Undisturbed DEF StoreJ, Edge, SwapInv, WrenInv, TypeOK
    <2> QED
      BY <1>9, <2>1 DEF StoreJ, Edge, SwapInv, FillInv, WrenInv, AddressInv,
         CopiesInv, Permutation, Settled, out_mem
  <1>10. CASE WriteAtJ
    <2>1. wren = FALSE /\ s_mem' = s_mem /\ s_addr' = address
      BY <1>10, Undisturbed DEF WriteAtJ, Edge, SwapInv, WrenInv, TypeOK
    <2> QED
      BY <1>10, <2>1 DEF WriteAtJ, Edge, SwapInv, FillInv, WrenInv, AddressInv,
         CopiesInv, Permutation, Settled, out_mem
  <1>11. CASE LowerWren
    <2>1. FillInv'
      BY <1>11 DEF LowerWren, Edge, SampleMemories, SwapInv, FillInv, TypeOK
    <2>2. WrenInv'
      BY <1>11 DEF LowerWren, Edge, WrenInv
    <2>3. AddressInv'
      BY <1>11 DEF LowerWren, Edge, SampleMemories, SwapInv, AddressInv
    <2>4. CopiesInv'
      BY <1>11 DEF LowerWren, Edge, SampleMemories, SwapInv, CopiesInv
    <2>5. Permutation'
      <3>1. CASE state \in {"wait_3", "wait_3s"}
        <4>1. /\ s_mem' = [s_mem EXCEPT ![counter_j] = s_mem[counter_i]]
              /\ temp_j' = s_mem[counter_j] /\ counter_i' = counter_i
              /\ state' \in {"write_at_i", "write_i2"}
          BY <1>11, <3>1 DEF LowerWren, Edge, SampleMemories, SwapInv,
             CopiesInv, AddressInv
        <4>2. Injective(s_mem)
          BY <3>1 DEF SwapInv, Permutation, Settled
        <4>3. Injective([s_mem' EXCEPT ![counter_i'] = temp_j'])
          BY <4>1, <4>2, ExchangeInjective DEF TypeOK
        <4> QED
          BY <4>1, <4>3 DEF Permutation, Settled
      <3>2. CASE state \in {"wait_4", "wait_4s"}
        <4>1. /\ s_mem' = [s_mem EXCEPT ![counter_i] = temp_j]
              /\ state' \in {"counter_inc", "f_logic_i"}
          BY <1>11, <3>2 DEF LowerWren, Edge, SampleMemories, SwapInv,
             CopiesInv, AddressInv
        <4>2. Injective([s_mem EXCEPT ![counter_i] = temp_j])
          BY <3>2 DEF SwapInv, Permutation, Settled
        <4> QED
          BY <4>1, <4>2 DEF Permutation, Settled
      <3> QED
        BY <1>11, <3>1, <3>2 DEF LowerWren, Edge
    <2> QED
      BY <2>1, <2>2, <2>3, <2>4, <2>5 DEF SwapInv
  <1>12. CASE WriteAtI
    <2>1. wren = FALSE /\ s_mem' = s_mem /\ s_addr' = address
      BY <1>12, Undisturbed DEF WriteAtI, Edge, SwapInv, WrenInv, TypeOK
    <2> QED
      BY <1>12, <2>1 DEF WriteAtI, Edge, SwapInv, FillInv, WrenInv, AddressInv,
         CopiesInv, Permutation, Settled, out_mem
  <1>13. CASE CounterInc
    <2>1. wren = FALSE /\ s_mem' = s_mem /\ s_addr' = address
      BY <1>13, Undisturbed DEF CounterInc, Edge, SwapInv, WrenInv, TypeOK
    <2> QED
      BY <1>13, <2>1 DEF CounterInc, Edge, SwapInv, FillInv, WrenInv, AddressInv,
         CopiesInv, Permutation, Settled, out_mem
  <1>14. CASE StartSwap2
    <2>1. wren = FALSE /\ s_mem' = s_mem /\ s_addr' = address
      BY <1>14, Undisturbed DEF StartSwap2, Edge, SwapInv, WrenInv, TypeOK
    <2> QED
      BY <1>14, <2>1 DEF StartSwap2, Edge, SwapInv, FillInv, WrenInv, AddressInv,
         CopiesInv, Permutation, Settled, out_mem
  <1>15. CASE IInc
    <2>1. wren = FALSE /\ s_mem' = s_mem /\ s_addr' = address
      BY <1>15, Undisturbed DEF IInc, Edge, SwapInv, WrenInv, TypeOK
    <2> QED
      BY <1>15, <2>1 DEF IInc, Edge, SwapInv, FillInv, WrenInv, AddressInv,
         CopiesInv, Permutation, Settled, out_mem
  <1>16. CASE JUpdate
    <2>1. wren = FALSE /\ s_mem' = s_mem /\ s_addr' = address
      BY <1>16, Undisturbed DEF JUpdate, Edge, SwapInv, WrenInv, TypeOK
    <2> QED
      BY <1>16, <2>1 DEF JUpdate, Edge, SwapInv, FillInv, WrenInv, AddressInv,
         CopiesInv, Permutation, Settled, out_mem
  <1>17. CASE StoreI2
    <2>1. wren = FALSE /\ s_mem' = s_mem /\ s_addr' = address
      BY <1>17, Undisturbed DEF StoreI2, Edge, SwapInv, WrenInv, TypeOK
    <2> QED
      BY <1>17, <2>1 DEF StoreI2, Edge, SwapInv, FillInv, WrenInv, AddressInv,
         CopiesInv, Permutation, Settled, out_mem
  <1>18. CASE StoreJ2
    <2>1. wren = FALSE /\ s_mem' = s_mem /\ s_addr' = address
      BY <1>18, Undisturbed DEF StoreJ2, Edge, SwapInv, WrenInv, TypeOK
    <2> QED
      BY <1>18, <2>1 DEF StoreJ2, Edge, SwapInv, FillInv, WrenInv, AddressInv,
         CopiesInv, Permutation, Settled, out_mem
  <1>19. CASE FLogicI
    <2>1. wren = FALSE /\ s_mem' = s_mem /\ s_addr' = address
      BY <1>19, Undisturbed DEF FLogicI, Edge, SwapInv, WrenInv, TypeOK
    <2> QED
      BY <1>19, <2>1 DEF FLogicI, Edge, SwapInv, FillInv, WrenInv, AddressInv,
         CopiesInv, Permutation, Settled, out_mem
  <1>20. CASE DecryptState
    <2>1. wren = FALSE /\ s_mem' = s_mem /\ s_addr' = address
      BY <1>20, Undisturbed DEF DecryptState, Edge, SwapInv, WrenInv, TypeOK
    <2> QED
      BY <1>20, <2>1 DEF DecryptState, Edge, SwapInv, FillInv, WrenInv, AddressInv,
         CopiesInv, Permutation, Settled, out_mem
  <1>21. CASE CheckKloop
    <2>1. wren = FALSE /\ s_mem' = s_mem /\ s_addr' = address
      BY <1>21, Undisturbed DEF CheckKloop, ValidByte, MoreBytes, TryNextKey, GiveUp, Edge, SwapInv, WrenInv, TypeOK
    <2>2. \A c \in Byte : ~ (c < 0)
      BY NAssumption DEF Byte
    <2> QED
      BY <1>21, <2>1, <2>2 DEF CheckKloop, ValidByte, MoreBytes, TryNextKey, GiveUp, Edge, SwapInv, FillInv, WrenInv, AddressInv,
         CopiesInv, Permutation, Settled, out_mem
  <1>22. CASE Pass
    <2>1. wren = FALSE /\ s_mem' = s_mem /\ s_addr' = address
      BY <1>22, Undisturbed DEF Pass, Edge, SwapInv, WrenInv, TypeOK
    <2> QED
      BY <1>22, <2>1 DEF Pass, Edge, SwapInv, FillInv, WrenInv, AddressInv,
         CopiesInv, Permutation, Settled, out_mem
  <1>23. CASE Default
    <2>1. wren = FALSE /\ s_mem' = s_mem /\ s_addr' = address
      BY <1>23, Undisturbed, ZQuiet DEF Default, Edge, SwapInv, WrenInv, TypeOK
    <2> QED
      BY <1>23, <2>1, ZQuiet DEF Default, ZQuiet, Edge, SwapInv, FillInv, WrenInv, AddressInv,
         CopiesInv, Permutation, Settled, out_mem
  <1> QED
    BY <1>1, <1>2, <1>3, <1>4, <1>5, <1>6, <1>7, <1>8, <1>9, <1>10, <1>11, <1>12, <1>13, <1>14, <1>15, <1>16, <1>17, <1>18, <1>19, <1>20, <1>21, <1>22, <1>23 DEF Next

(* Exchanges neither lose nor double a value of S, for every N.            *)
THEOREM PermutationHolds ==
  ASSUME ZQuiet
  PROVE  Spec => []Permutation
  <1>1. Init => TypeOK /\ SwapInv
    BY TypeInit, SwapInit
  <1>2. TypeOK /\ SwapInv /\ [Next]_vars => TypeOK' /\ SwapInv'
    BY TypeStep, SwapStep
  <1>3. SwapInv => Permutation
    BY DEF SwapInv
  <1> QED
    BY <1>1, <1>2, <1>3, PTL DEF Spec

-----------------------------------------------------------------------------
LEMMA ResultInit == Init => ResultInv
  BY DEF Init, ResultInv, InByte

LEMMA MsgLenIsByte == MsgLen \in Byte /\ MsgLen - 1 \in Byte
  BY NAssumption, MsgLenAssumption DEF Byte

LEMMA ResultStep ==
  ASSUME ZQuiet
  PROVE  TypeOK /\ ResultInv /\ [Next]_vars => ResultInv'
  <1> SUFFICES ASSUME TypeOK, ResultInv, [Next]_vars PROVE ResultInv'
    OBVIOUS
  <1> USE DEF indices, bus, result, search
  <1>1. CASE UNCHANGED vars
    BY <1>1 DEF ResultInv, KeptUpTo, vars, memories
  <1>2. CASE WriteMem
    BY <1>2 DEF WriteMem, Edge, SampleMemories, LatchVerdict, ResultInv, InByte, KeptUpTo
  <1>3. CASE CheckDone
    BY <1>3 DEF CheckDone, Edge, SampleMemories, LatchVerdict, ResultInv, InByte, KeptUpTo
  <1>4. CASE DoneFill
    BY <1>4 DEF DoneFill, Edge, SampleMemories, LatchVerdict, ResultInv, InByte, KeptUpTo
  <1>5. CASE StartSwap
    BY <1>5 DEF StartSwap, Edge, SampleMemories, LatchVerdict, ResultInv, InByte, KeptUpTo
  <1>6. CASE Swap1
    BY <1>6 DEF Swap1, Edge, SampleMemories, LatchVerdict, ResultInv, InByte, KeptUpTo
  <1>7. CASE StoreI
    BY <1>7 DEF StoreI, Edge, SampleMemories, LatchVerdict, ResultInv, InByte, KeptUpTo
  <1>8. CASE CalcJ
    BY <1>8 DEF CalcJ, Edge, SampleMemories, LatchVerdict, ResultInv, InByte, KeptUpTo
  <1>9. CASE StoreJ
    BY <1>9 DEF StoreJ, Edge, SampleMemories, LatchVerdict, ResultInv, InByte, KeptUpTo
  <1>10. CASE CounterInc
    BY <1>10 DEF CounterInc, Edge, SampleMemories, LatchVerdict, ResultInv, InByte, KeptUpTo
  <1>11. CASE WriteAtJ
    BY <1>11 DEF WriteAtJ, Edge, SampleMemories, LatchVerdict, ResultInv, InByte, KeptUpTo
  <1>12. CASE LowerWren
    BY <1>12 DEF LowerWren, Edge, SampleMemories, LatchVerdict, ResultInv, InByte, KeptUpTo
  <1>13. CASE WriteAtI
    BY <1>13 DEF WriteAtI, Edge, SampleMemories, LatchVerdict, ResultInv, InByte, KeptUpTo
  <1>14. CASE JUpdate
    BY <1>14 DEF JUpdate, Edge, SampleMemories, LatchVerdict, ResultInv, InByte, KeptUpTo
  <1>15. CASE StoreI2
    BY <1>15 DEF StoreI2, Edge, SampleMemories, LatchVerdict, ResultInv, InByte, KeptUpTo
  <1>16. CASE StoreJ2
    BY <1>16 DEF StoreJ2, Edge, SampleMemories, LatchVerdict, ResultInv, InByte, KeptUpTo
  <1>17. CASE FLogicI
    BY <1>17 DEF FLogicI, Edge, SampleMemories, LatchVerdict, ResultInv, InByte, KeptUpTo
  <1>18. CASE Pass
    BY <1>18 DEF Pass, Edge, SampleMemories, LatchVerdict, ResultInv, InByte, KeptUpTo
  <1>19. CASE Default
    BY <1>19, ZQuiet DEF Default, Edge, SampleMemories, LatchVerdict, ResultInv, InByte, KeptUpTo, ZQuiet
  <1>20. CASE StartSwap2
    <2>1. 0 < MsgLen /\ \A m \in Byte : ~ (m < 0)
      BY NAssumption, MsgLenAssumption DEF Byte
    <2> QED
      BY <1>20, <2>1 DEF StartSwap2, Edge, SampleMemories, LatchVerdict, ResultInv,
         InByte, KeptUpTo
  <1>21. CASE IInc
    BY <1>21 DEF IInc, Edge, SampleMemories, LatchVerdict, ResultInv, InByte, KeptUpTo
  <1>22. CASE DecryptState
    <2>1. counter_k < MsgLen /\ KeptUpTo(counter_k)
      BY <1>22 DEF DecryptState, Edge, ResultInv, InByte
    <2>2. counter_k' = counter_k + 1 /\ counter_k' \in 1 .. MsgLen
      <3>1. counter_k \in Nat /\ MsgLen \in Nat /\ counter_k # N - 1
        BY <2>1, NAssumption, MsgLenAssumption DEF TypeOK, Byte
      <3> QED
        BY <1>22, <2>1, <3>1, IncByte DEF DecryptState, TypeOK
    <2>3. counter_k' - 1 = counter_k
      BY <2>2, BytesAreIntegers DEF TypeOK
    <2> QED
      BY <1>22, <2>1, <2>2, <2>3 DEF DecryptState, Edge, SampleMemories, LatchVerdict,
         ResultInv, InByte, KeptUpTo
  <1>23. CASE CheckKloop
    <2>1. /\ counter_k \in 1 .. MsgLen /\ counter_k \in Byte
          /\ wren_d /\ address_out = counter_k - 1 /\ counter_k - 1 \in Byte
          /\ KeptUpTo(counter_k - 1)
      BY <1>23, NAssumption, MsgLenAssumption
      DEF CheckKloop, ValidByte, MoreBytes, TryNextKey, GiveUp, Edge, ResultInv, TypeOK, Byte
    <2>2. de_mem' = [de_mem EXCEPT ![counter_k - 1] = data_decrypted]
      BY <1>23, <2>1 DEF CheckKloop, ValidByte, MoreBytes, TryNextKey, GiveUp, Edge, SampleMemories
    <2>3. CASE ValidByte
      <3>1. ASSUME NEW m \in Byte, m < counter_k PROVE de_mem'[m] \in Valid
        BY <2>1, <2>2, <2>3, <3>1 DEF ValidByte, KeptUpTo, TypeOK, Byte
      <3>2. counter_k' = counter_k /\ KeptUpTo(counter_k)'
        BY <1>23, <3>1 DEF CheckKloop, KeptUpTo
      <3>3. counter_k <= MsgLen - 1 \/ counter_k = MsgLen
        BY <2>1, MsgLenAssumption, NAssumption
      <3>4. counter_k <= MsgLen - 1 => counter_k < MsgLen
        BY <2>1, MsgLenAssumption, NAssumption
      <3>5. counter_k = MsgLen => ~ (counter_k <= MsgLen - 1)
        BY <2>1, MsgLenAssumption, NAssumption
      <3> QED
        BY <1>23, <2>3, <3>2, <3>3, <3>4, <3>5
        DEF CheckKloop, ValidByte, MoreBytes, Edge, LatchVerdict, ResultInv, InByte, KeptUpTo
    <2>4. CASE TryNextKey \/ GiveUp
      BY <1>23, <2>4 DEF CheckKloop, TryNextKey, GiveUp, Edge, LatchVerdict, ResultInv,
         InByte, KeptUpTo
    <2> QED
      BY <1>23, <2>3, <2>4 DEF CheckKloop
  <1> QED
    BY <1>1, <1>2, <1>3, <1>4, <1>5, <1>6, <1>7, <1>8, <1>9, <1>10, <1>11, <1>12, <1>13, <1>14, <1>15, <1>16, <1>17, <1>18, <1>19, <1>20, <1>21, <1>22, <1>23 DEF Next

(* The success light implies a whole message of valid characters, for every *)
(* message length and alphabet.                                             *)
THEOREM KeptBytesValidHolds ==
  ASSUME ZQuiet
  PROVE  Spec => []KeptBytesValid
  <1>1. Init => TypeOK /\ ResultInv
    BY TypeInit, ResultInit
  <1>2. TypeOK /\ ResultInv /\ [Next]_vars => TypeOK' /\ ResultInv'
    BY TypeStep, ResultStep
  <1>3. ResultInv => KeptBytesValid
    <2>1. \A m \in 0 .. MsgLen - 1 : m \in Byte /\ m < MsgLen
      BY NAssumption, MsgLenAssumption DEF Byte
    <2> QED
      BY <2>1 DEF ResultInv, KeptBytesValid, KeptUpTo
  <1> QED
    BY <1>1, <1>2, <1>3, PTL DEF Spec

-----------------------------------------------------------------------------
(* A round of the cipher, of the key scheduling or of the generation, and what the first round starts from. *)
First(generates, s) ==
  IF generates THEN [S |-> KeySchedule(s)[N].S, i |-> 0, j |-> 0, byte |-> 0]
               ELSE [S |-> [c \in Byte |-> c], j |-> 0]

Round(generates, s, n, p) ==
  IF generates
  THEN LET i == (p.i + 1) % N
           j == (p.j + p.S[i]) % N
           T == Swapped(p.S, i, j)
       IN  [S |-> T, i |-> i, j |-> j, byte |-> T[(T[i] + T[j]) % N]]
  ELSE LET j == (p.j + p.S[n - 1] + KeyByte(s, (n - 1) % 3)) % N
       IN  [S |-> Swapped(p.S, n - 1, j), j |-> j]

Follows(f, generates, s, L) ==
  f = [n \in 0 .. L |-> IF n = 0 THEN First(generates, s)
                        ELSE Round(generates, s, n, f[n - 1])]

(* The least number of a set of naturals.                                  *)
LEMMA Least ==
  ASSUME NEW T \in SUBSET Nat, T # {}
  PROVE  \E x \in T : \A y \in T : x <= y
<1>1. PICK x \in T : \A y \in T : ~ (<<y, x>> \in OpToRel(<, Nat))
  BY NatLessThanWellFounded, WFMin, Zenon
<1>2. ASSUME NEW y \in T, y < x PROVE FALSE
  <2>1. <<y, x>> \in OpToRel(<, Nat)
    BY <1>2 DEF OpToRel
  <2> QED
    BY <1>1, <2>1, Zenon
<1>3. ASSUME NEW y \in T PROVE x <= y
  <2>1. x \in Nat /\ y \in Nat
    OBVIOUS
  <2>2. ~ (y < x)
    BY <1>2
  <2> QED
    BY ONLY <2>1, <2>2
<1> QED
  BY <1>3

(* There is a function that follows the rounds, so that the recursive      *)
(* definitions of RC4Reference mean what they say.                         *)
LEMMA RoundsExist ==
  ASSUME NEW generates, NEW s, NEW L \in Nat
  PROVE  \E f : Follows(f, generates, s, L)
<1> DEFINE T == {n \in Nat : ~ \E f : Follows(f, generates, s, n)}
<1> SUFFICES ASSUME T # {} PROVE FALSE
  OBVIOUS
<1>1. PICK n \in T : \A y \in T : n <= y
  BY Least
<1>2. n \in Nat /\ ~ \E f : Follows(f, generates, s, n)
  OBVIOUS
<1>3. CASE n = 0
  <2>1. Follows([m \in 0 .. 0 |-> First(generates, s)], generates, s, 0)
    BY DEF Follows
  <2> QED
    BY <1>2, <1>3, <2>1
<1>4. CASE n # 0
  <2>1. n - 1 \in Nat /\ ~ (n <= n - 1)
    BY <1>2, <1>4
  <2>2. PICK g : Follows(g, generates, s, n - 1)
    BY <1>1, <2>1
  <2>3. \A m \in 0 .. n - 1 : g[m] = IF m = 0 THEN First(generates, s)
                                     ELSE Round(generates, s, m, g[m - 1])
    <3>1. g = [m \in 0 .. n - 1 |-> IF m = 0 THEN First(generates, s)
                                    ELSE Round(generates, s, m, g[m - 1])]
      BY <2>2 DEF Follows
    <3> QED
      BY ONLY <3>1
  <2> DEFINE f == [m \in 0 .. n |-> IF m = n THEN Round(generates, s, n, g[n - 1]) ELSE g[m]]
  <2>4. \A m \in 0 .. n : m # 0 => f[m - 1] = g[m - 1]
    BY <1>2
  <2>5. ASSUME NEW m \in 0 .. n
        PROVE  f[m] = IF m = 0 THEN First(generates, s) ELSE Round(generates, s, m, f[m - 1])
    <3>1. CASE m = n
      BY <3>1, <1>2, <1>4, <2>4
    <3>2. CASE m # n
      <4>1. m \in 0 .. n - 1 /\ f[m] = g[m]
        BY <1>2, <3>2
      <4> HIDE DEF f
      <4> QED
        BY <2>3, <2>4, <4>1
    <3> QED
      BY <3>1, <3>2
  <2>6. f = [m \in 0 .. n |-> f[m]]
    OBVIOUS
  <2> HIDE DEF f
  <2>7. Follows(f, generates, s, n)
    BY <2>5, <2>6 DEF Follows
  <2> QED
    BY <1>2, <2>7
<1> QED
  BY <1>3, <1>4

LEMMA ScheduleRound ==
  ASSUME NEW s
  PROVE  /\ KeySchedule(s)[0] = First(FALSE, s)
         /\ \A n \in 0 .. N - 1 :
              KeySchedule(s)[n + 1] = Round(FALSE, s, n + 1, KeySchedule(s)[n])
<1> DEFINE f == KeySchedule(s)
<1>1. f = CHOOSE g : Follows(g, FALSE, s, N)
  BY DEF KeySchedule, Follows, First, Round
<1>2. N \in Nat
  BY NAssumption
<1> HIDE DEF f
<1>3. Follows(f, FALSE, s, N)
  BY <1>1, <1>2, RoundsExist
<1>4. f = [m \in 0 .. N |-> IF m = 0 THEN First(FALSE, s) ELSE Round(FALSE, s, m, f[m - 1])]
  BY <1>3 DEF Follows
<1>5. f[0] = First(FALSE, s)
  BY ONLY <1>2, <1>4
<1>6. ASSUME NEW n \in 0 .. N - 1
      PROVE  f[n + 1] = Round(FALSE, s, n + 1, f[n])
  <2>1. PICK m \in 0 .. N : m = n + 1 /\ m # 0 /\ m - 1 = n
    BY <1>2
  <2>2. f[m] = IF m = 0 THEN First(FALSE, s) ELSE Round(FALSE, s, m, f[m - 1])
    BY ONLY <1>4, m \in 0 .. N
  <2> QED
    BY <2>1, <2>2
<1> QED
  BY <1>5, <1>6 DEF f

LEMMA StreamRound ==
  ASSUME NEW s
  PROVE  /\ KeyStream(s)[0] = First(TRUE, s)
         /\ \A n \in 0 .. MsgLen - 1 :
              KeyStream(s)[n + 1] = Round(TRUE, s, n + 1, KeyStream(s)[n])
<1> DEFINE f == KeyStream(s)
<1>1. f = CHOOSE g : Follows(g, TRUE, s, MsgLen)
  BY DEF KeyStream, Follows, First, Round
<1>2. MsgLen \in Nat
  BY NAssumption, MsgLenAssumption
<1> HIDE DEF f
<1>3. Follows(f, TRUE, s, MsgLen)
  BY <1>1, <1>2, RoundsExist
<1>4. f = [m \in 0 .. MsgLen |-> IF m = 0 THEN First(TRUE, s) ELSE Round(TRUE, s, m, f[m - 1])]
  BY <1>3 DEF Follows
<1>5. f[0] = First(TRUE, s)
  BY ONLY <1>2, <1>4
<1>6. ASSUME NEW n \in 0 .. MsgLen - 1
      PROVE  f[n + 1] = Round(TRUE, s, n + 1, f[n])
  <2>1. PICK m \in 0 .. MsgLen : m = n + 1 /\ m # 0 /\ m - 1 = n
    BY <1>2
  <2>2. f[m] = IF m = 0 THEN First(TRUE, s) ELSE Round(TRUE, s, m, f[m - 1])
    BY ONLY <1>4, m \in 0 .. MsgLen
  <2> QED
    BY <2>1, <2>2
<1> QED
  BY <1>5, <1>6 DEF f

-----------------------------------------------------------------------------
(* The cipher as the circuit meets it: one exchange of the key schedule and *)
(* one of the generation.                                                  *)
Schedule(n) == KeySchedule(secret)[n]
Stream(n)   == KeyStream(secret)[n]
Plain(m)    == Decryption(secret, en_mem)[m]

ToSchedule == {"swap_1", "wait_1", "store_i", "calc_j"}
Exchange   == {"wait_2", "store_j", "write_at_j", "wait_3"}
HalfDone   == {"write_at_i", "wait_4"}
ToUpdate   == {"wait_0s", "j_update"}
Exchange2  == {"wait_1s", "store_i2", "wait_2s", "store_j2", "write_j2", "wait_3s"}
HalfDone2  == {"write_i2", "wait_4s"}
AddressSum == {"wait_5s", "f_logic_j", "wait_6s", "f_logic_sum", "wait_7s", "decrypt_state"}

(* The key schedule: before the fetch of j, before the exchange and after. *)
ScheduleInv ==
  /\ state = "start_swap" => s_mem = [c \in Byte |-> c]
  /\ state \in ToSchedule => counter_j = Schedule(counter_i).j
  /\ state \in ToSchedule \cup Exchange => s_mem = Schedule(counter_i).S
  /\ state \in Exchange \cup HalfDone \cup {"counter_inc"} =>
       counter_j = Schedule(counter_i + 1).j
  /\ state \in HalfDone \cup {"counter_inc"} => Settled = Schedule(counter_i + 1).S
  /\ state \in {"done_swap", "start_swap2"} => s_mem = Schedule(N).S

(* The generation: counter_k bytes are done.                               *)
StreamInv ==
  /\ state \in {"i_inc", "check_kloop"} =>
       /\ counter_i = Stream(counter_k).i /\ counter_j = Stream(counter_k).j
       /\ s_mem = Stream(counter_k).S
  /\ state \in InByte => counter_i = Stream(counter_k + 1).i
  /\ state \in ToUpdate => counter_j = Stream(counter_k).j
  /\ state \in ToUpdate \cup Exchange2 => s_mem = Stream(counter_k).S
  /\ state \in InByte \ ToUpdate => counter_j = Stream(counter_k + 1).j
  /\ state \in HalfDone2 \cup {"f_logic_i"} \cup AddressSum =>
       Settled = Stream(counter_k + 1).S

(* The addresses that are on the buses for the reads that need them, and   *)
(* the operands of the last one.                                           *)
ReadInv ==
  /\ state \in {"wait_1", "store_i", "calc_j", "wait_0s", "j_update", "wait_1s", "store_i2"} =>
       address = counter_i
  /\ state \in {"store_i", "calc_j", "j_update", "wait_1s", "store_i2"} => s_addr = counter_i
  /\ state \in HalfDone2 \cup {"f_logic_i"} =>
       Settled[counter_i] = temp_j /\ Settled[counter_j] = temp_i
  /\ state \in AddressSum => address = (s_mem[counter_i] + s_mem[counter_j]) % N
  /\ state \in AddressSum \ {"wait_5s"} => s_addr = address
  /\ state \in InByte => address_in = counter_k
  /\ state \in InByte \ {"wait_0s"} => en_addr = counter_k

PlainUpTo(k) == \A m \in Byte : m < k => de_mem[m] = Plain(m)

(* What has been decrypted.                                                *)
PlainInv ==
  /\ state \in InByte \cup {"i_inc", "done_swap2"} => PlainUpTo(counter_k)
  /\ state = "check_kloop" => /\ data_decrypted = Plain(counter_k - 1)
                              /\ PlainUpTo(counter_k - 1)

CipherInv == ScheduleInv /\ StreamInv /\ ReadInv /\ PlainInv

(* What is known of the keys tried, and what the verdict says of them.     *)
VerdictInv ==
  /\ \A k \in Keys : k < secret => ~ Accepted(k, en_mem)
  /\ state = "done_swap2" => Accepted(secret, en_mem) /\ crack_success # "10"
  /\ state \in {"bad_message", "undriven"} =>
       secret = LastKey /\ ~ Accepted(secret, en_mem)
  /\ crack_success = "01" => state = "done_swap2"
  /\ crack_success = "10" <=> state = "undriven"

-----------------------------------------------------------------------------
LEMMA ScheduleStarts ==
  ASSUME NEW s
  PROVE  KeySchedule(s)[0].S = [c \in Byte |-> c] /\ KeySchedule(s)[0].j = 0
<1>1. KeySchedule(s)[0] = First(FALSE, s)
  BY ScheduleRound
<1> QED
  BY <1>1 DEF First

LEMMA ScheduleGoesOn ==
  ASSUME NEW s, NEW n \in Byte
  PROVE  LET p == KeySchedule(s)[n]
             nxt == KeySchedule(s)[n + 1]
         IN  /\ nxt.j = (p.j + p.S[n] + KeyByte(s, n % 3)) % N
             /\ nxt.S = Swapped(p.S, n, nxt.j)
<1> DEFINE p == KeySchedule(s)[n]
           nxt == KeySchedule(s)[n + 1]
<1>1. PICK m : m = n + 1 /\ m - 1 = n
  BY NAssumption DEF Byte
<1>2. nxt = Round(FALSE, s, m, p)
  BY <1>1, ScheduleRound DEF Byte
<1> HIDE DEF p, nxt
<1>3. Round(FALSE, s, m, p) =
        LET k == (p.j + p.S[m - 1] + KeyByte(s, (m - 1) % 3)) % N
        IN  [S |-> Swapped(p.S, m - 1, k), j |-> k]
  BY DEF Round
<1>4. nxt = LET k == (p.j + p.S[n] + KeyByte(s, n % 3)) % N
          IN  [S |-> Swapped(p.S, n, k), j |-> k]
  BY <1>1, <1>2, <1>3
<1>5. nxt.j = (p.j + p.S[n] + KeyByte(s, n % 3)) % N /\ nxt.S = Swapped(p.S, n, nxt.j)
  BY <1>4
<1> QED
  BY <1>5 DEF p, nxt

LEMMA StreamStarts ==
  ASSUME NEW s
  PROVE  /\ KeyStream(s)[0].S = KeySchedule(s)[N].S
         /\ KeyStream(s)[0].i = 0 /\ KeyStream(s)[0].j = 0
<1>1. KeyStream(s)[0] = First(TRUE, s)
  BY StreamRound
<1> QED
  BY <1>1 DEF First

LEMMA StreamGoesOn ==
  ASSUME NEW s, NEW n \in 0 .. MsgLen - 1
  PROVE  LET p == KeyStream(s)[n]
             nxt == KeyStream(s)[n + 1]
         IN  /\ nxt.i = inc(p.i)
             /\ nxt.j = (p.j + p.S[nxt.i]) % N
             /\ nxt.S = Swapped(p.S, nxt.i, nxt.j)
             /\ nxt.byte = nxt.S[(nxt.S[nxt.i] + nxt.S[nxt.j]) % N]
<1> DEFINE p == KeyStream(s)[n]
           nxt == KeyStream(s)[n + 1]
<1>1. nxt = Round(TRUE, s, n + 1, p)
  BY StreamRound
<1> HIDE DEF p, nxt
<1>2. /\ nxt.i = inc(p.i) /\ nxt.j = (p.j + p.S[nxt.i]) % N
      /\ nxt.S = Swapped(p.S, nxt.i, nxt.j)
      /\ nxt.byte = nxt.S[(nxt.S[nxt.i] + nxt.S[nxt.j]) % N]
  BY <1>1 DEF Round, inc
<1> QED
  BY <1>2 DEF p, nxt

(* A byte of the plain text is the byte of the stream over that of the     *)
(* message.                                                                *)
LEMMA PlainByte ==
  ASSUME NEW s \in Keys, NEW msg, NEW m \in 0 .. MsgLen - 1
  PROVE  Decryption(s, msg)[m] = ByteXor(KeyStream(s)[m + 1].byte, msg[m])
<1>1. KeyStreams[s] = [n \in 0 .. MsgLen - 1 |-> KeyStream(s)[n + 1].byte]
  BY DEF KeyStreams
<1> QED
  BY <1>1 DEF Decryption

(* The two writes of an exchange, the one to cell j first.                 *)
LEMMA TwoWrites ==
  ASSUME NEW S \in [Byte -> Byte], NEW i \in Byte, NEW j \in Byte
  PROVE  LET T == [[S EXCEPT ![j] = S[i]] EXCEPT ![i] = S[j]]
         IN  T = Swapped(S, i, j) /\ T[i] = S[j] /\ T[j] = S[i]
<1> DEFINE T == [[S EXCEPT ![j] = S[i]] EXCEPT ![i] = S[j]]
<1>1. \A c \in Byte : T[c] = Swapped(S, i, j)[c]
  BY DEF Swapped
<1>2. T \in [Byte -> Byte] /\ Swapped(S, i, j) \in [Byte -> Byte]
  BY DEF Swapped
<1>3. T = Swapped(S, i, j)
  BY <1>1, <1>2
<1> QED
  BY <1>3

-----------------------------------------------------------------------------
(* What the undefined assignment must do for the circuit to stop: leave no *)
(* state at all, as in simulation.                                         *)
ZStops == ZNext \subseteq {"undriven"}

CipherTypes == TypeOK /\ SwapInv /\ ResultInv

(* Every edge samples the memories and latches the verdict.                *)
LEMMA EveryEdge == Next => SampleMemories /\ LatchVerdict
  BY DEF Next, Edge, WriteMem, CheckDone, DoneFill, StartSwap, Swap1, StoreI, CalcJ, StoreJ,
     WriteAtJ, LowerWren, WriteAtI, CounterInc, StartSwap2, IInc, JUpdate, StoreI2, StoreJ2,
     FLogicI, DecryptState, CheckKloop, ValidByte, TryNextKey, GiveUp, Pass, Default

(* Where nothing is being written the S memory keeps its cells.            *)
LEMMA EdgeReads ==
  ASSUME CipherTypes, Next,
         state \notin {"write_mem", "check_done", "done_fill", "wait_3", "wait_3s", "wait_4", "wait_4s"}
  PROVE  /\ s_mem' = s_mem /\ s_addr' = address
         /\ en_addr' = address_in /\ en_mem' = en_mem
<1>1. wren = FALSE
  BY DEF CipherTypes, TypeOK, SwapInv, WrenInv, Filling
<1> QED
  BY <1>1, EveryEdge DEF SampleMemories

(* The two edges at which an exchange is written.                          *)
LEMMA EdgeWrites ==
  ASSUME CipherTypes, LowerWren
  PROVE  /\ s_mem \in [Byte -> Byte] /\ counter_i \in Byte /\ counter_j \in Byte
         /\ en_mem' = en_mem
         /\ state \in {"wait_3", "wait_3s"} =>
              LET T == [[s_mem EXCEPT ![counter_j] = s_mem[counter_i]]
                          EXCEPT ![counter_i] = s_mem[counter_j]]
              IN  /\ Settled' = T
                  /\ temp_j' = s_mem[counter_j] /\ temp_i' = s_mem[counter_i]
         /\ state \in {"wait_4", "wait_4s"} => s_mem' = Settled /\ Settled' = s_mem'
<1>1. SampleMemories /\ UNCHANGED <<counter_i, counter_j, temp_i, temp_j>>
  BY DEF LowerWren, Edge, indices
<1>2. CASE state \in {"wait_3", "wait_3s"}
  <2>1. /\ s_mem' = [s_mem EXCEPT ![counter_j] = s_mem[counter_i]]
        /\ temp_j = s_mem[counter_j] /\ temp_i = s_mem[counter_i]
        /\ state' \in {"write_at_i", "write_i2"}
    BY <1>1, <1>2 DEF LowerWren, Edge, SampleMemories, CipherTypes, SwapInv, CopiesInv, AddressInv
  <2> QED
    BY <1>1, <1>2, <2>1 DEF Settled, CipherTypes, TypeOK, SampleMemories
<1>3. CASE state \in {"wait_4", "wait_4s"}
  <2>1. /\ s_mem' = [s_mem EXCEPT ![counter_i] = temp_j]
        /\ state' \in {"counter_inc", "f_logic_i"}
    BY <1>1, <1>3 DEF LowerWren, Edge, SampleMemories, CipherTypes, SwapInv, CopiesInv, AddressInv
  <2> QED
    BY <1>1, <1>3, <2>1 DEF Settled, CipherTypes, TypeOK, SampleMemories
<1> QED
  BY <1>2, <1>3 DEF LowerWren, Edge

LEMMA ScheduleStep ==
  ASSUME ZStops, CipherTypes, ScheduleInv, ReadInv, Next
  PROVE  ScheduleInv'
<1> USE DEF ToSchedule, Exchange, HalfDone
<1>1. CASE WriteMem \/ CheckDone
  BY <1>1 DEF WriteMem, CheckDone, Edge, ScheduleInv
<1>2. CASE DoneFill
  <2>1. \A c \in Byte : s_mem'[c] = c
    BY <1>2 DEF DoneFill, Edge, SampleMemories, CipherTypes, SwapInv, FillInv, TypeOK
  <2>2. s_mem' \in [Byte -> Byte]
    BY <1>2, TypeMemories DEF DoneFill, Edge, CipherTypes
  <2>3. s_mem' = [c \in Byte |-> c]
    BY <2>1, <2>2
  <2> QED
    BY <1>2, <2>3 DEF DoneFill, Edge, ScheduleInv
<1>3. CASE StartSwap
  <2>1. s_mem' = s_mem /\ s_mem = [c \in Byte |-> c]
    BY <1>3, EdgeReads DEF StartSwap, Edge, ScheduleInv
  <2> QED
    BY <1>3, <2>1, ScheduleStarts DEF StartSwap, Edge, ScheduleInv, Schedule, search
<1>4. CASE Swap1 \/ StoreI \/ StoreJ \/ WriteAtJ \/ WriteAtI
  <2>1. s_mem' = s_mem /\ UNCHANGED <<counter_i, counter_j, secret>>
    BY <1>4, EdgeReads DEF Swap1, StoreI, StoreJ, WriteAtJ, WriteAtI, Edge, indices, search
  <2>2. temp_j' = temp_j \/ StoreJ
    BY <1>4 DEF Swap1, StoreI, WriteAtJ, WriteAtI, indices
  <2> QED
    BY <1>4, <2>1, <2>2 DEF Swap1, StoreI, StoreJ, WriteAtJ, WriteAtI, Edge, ScheduleInv,
       Schedule, Settled
<1>5. CASE CalcJ
  <2>1. /\ s_mem' = s_mem /\ UNCHANGED <<counter_i, secret>>
        /\ state = "calc_j" /\ state' = "wait_2"
        /\ counter_j' = (counter_j + out_mem + KeyByte(secret, counter_i % 3)) % N
    BY <1>5, EdgeReads DEF CalcJ, Edge, search
  <2>2. out_mem = Schedule(counter_i).S[counter_i] /\ counter_j = Schedule(counter_i).j
    BY <2>1 DEF ReadInv, ScheduleInv, out_mem
  <2>3. counter_j' = Schedule(counter_i + 1).j
    BY <2>1, <2>2, ScheduleGoesOn DEF Schedule, CipherTypes, TypeOK
  <2> QED
    BY <2>1, <2>3 DEF ScheduleInv, Schedule
<1>6. CASE LowerWren
  <2>1. UNCHANGED <<counter_i, counter_j, secret>>
    BY <1>6 DEF LowerWren, indices, search
  <2>2. CASE state = "wait_3"
    <3>1. state' = "write_at_i"
      BY <1>6, <2>2 DEF LowerWren, Edge
    <3>2. Settled' = Swapped(s_mem, counter_i, counter_j)
      BY <1>6, <2>2, EdgeWrites, TwoWrites
    <3>3. s_mem = Schedule(counter_i).S /\ counter_j = Schedule(counter_i + 1).j
      BY <2>2 DEF ScheduleInv
    <3>4. Settled' = Schedule(counter_i + 1).S
      BY <3>2, <3>3, ScheduleGoesOn DEF Schedule, CipherTypes, TypeOK
    <3> QED
      BY <2>1, <3>1, <3>3, <3>4 DEF ScheduleInv, Schedule
  <2>3. CASE state = "wait_4"
    <3>1. state' = "counter_inc" /\ Settled' = Settled
      BY <1>6, <2>3, EdgeWrites DEF LowerWren, Edge
    <3> QED
      BY <2>1, <2>3, <3>1 DEF ScheduleInv, Schedule
  <2>4. CASE state \in {"wait_3s", "wait_4s"}
    BY <1>6, <2>4 DEF LowerWren, Edge, ScheduleInv
  <2> QED
    BY <1>6, <2>2, <2>3, <2>4 DEF LowerWren, Edge
<1>7. CASE CounterInc
  <2>1. /\ s_mem' = s_mem /\ UNCHANGED <<counter_j, secret>> /\ state = "counter_inc"
        /\ Settled = s_mem
    BY <1>7, EdgeReads DEF CounterInc, Edge, search, Settled
  <2>2. CASE counter_i = N - 1
    <3>1. counter_i + 1 = N /\ state' = "done_swap"
      BY <1>7, <2>2, NAssumption DEF CounterInc, Edge
    <3> QED
      BY <2>1, <3>1 DEF ScheduleInv, Schedule
  <2>3. CASE counter_i # N - 1
    <3>1. counter_i' = counter_i + 1 /\ state' = "swap_1"
      BY <1>7, <2>3, IncByte DEF CounterInc, Edge, CipherTypes, TypeOK
    <3> QED
      BY <2>1, <3>1 DEF ScheduleInv, Schedule
  <2> QED
    BY <2>2, <2>3
<1>8. CASE Pass
  <2>1. /\ s_mem' = s_mem /\ UNCHANGED <<counter_i, counter_j, temp_j, secret>>
    BY <1>8, EdgeReads DEF Pass, Edge, indices, search
  <2> QED
    BY <1>8, <2>1 DEF Pass, Edge, ScheduleInv, Schedule, Settled
<1>9. CASE \/ StartSwap2 \/ IInc \/ JUpdate \/ StoreI2 \/ StoreJ2 \/ FLogicI
           \/ DecryptState \/ CheckKloop
  BY <1>9 DEF StartSwap2, IInc, JUpdate, StoreI2, StoreJ2, FLogicI, DecryptState, CheckKloop,
     ValidByte, TryNextKey, GiveUp, Edge, ScheduleInv
<1>10. CASE Default
  BY <1>10, ZStops DEF ZStops, Default, Edge, ScheduleInv
<1> QED
  BY <1>1, <1>2, <1>3, <1>4, <1>5, <1>6, <1>7, <1>8, <1>9, <1>10 DEF Next

LEMMA ReadStep ==
  ASSUME ZStops, CipherTypes, ReadInv, Next
  PROVE  ReadInv'
<1> USE DEF HalfDone2, AddressSum, InByte
<1>1. en_addr' = address_in
  BY EveryEdge DEF SampleMemories
<1>2. CASE WriteMem \/ CheckDone \/ DoneFill \/ StartSwap \/ CalcJ \/ StoreJ \/ CounterInc \/ StartSwap2
  BY <1>2 DEF WriteMem, CheckDone, DoneFill, StartSwap, CalcJ, StoreJ, CounterInc, StartSwap2,
     Edge, ReadInv
<1>3. CASE Swap1 \/ StoreI
  <2>1. s_addr' = address /\ counter_i' = counter_i
    BY <1>3, EdgeReads DEF Swap1, StoreI, Edge, indices
  <2>2. StoreI => address' = address /\ address = counter_i /\ state' = "calc_j"
    BY <1>3 DEF StoreI, Edge, ReadInv, bus
  <2>3. Swap1 => address' = counter_i /\ state' = "wait_1"
    BY <1>3 DEF Swap1, Edge
  <2> QED
    BY <1>3, <2>1, <2>2, <2>3 DEF ReadInv
<1>4. CASE IInc
  BY <1>4 DEF IInc, Edge, ReadInv
<1>5. CASE JUpdate \/ StoreI2 \/ StoreJ2
  <2>1. s_addr' = address /\ UNCHANGED <<counter_i, counter_k, address_in>>
    BY <1>5, EdgeReads DEF JUpdate, StoreI2, StoreJ2, Edge, result
  <2> QED
    BY <1>1, <1>5, <2>1 DEF JUpdate, StoreI2, StoreJ2, Edge, ReadInv, bus
<1>6. CASE WriteAtJ \/ WriteAtI
  <2>1. /\ s_mem' = s_mem
        /\ UNCHANGED <<counter_i, counter_j, counter_k, temp_i, temp_j, address_in>>
    BY <1>6, EdgeReads DEF WriteAtJ, WriteAtI, Edge, indices, result
  <2> QED
    BY <1>1, <1>6, <2>1 DEF WriteAtJ, WriteAtI, Edge, ReadInv, Settled
<1>7. CASE LowerWren
  <2>1. UNCHANGED <<counter_i, counter_j, counter_k, temp_i, temp_j, address_in>>
    BY <1>7 DEF LowerWren, indices, result
  <2>2. CASE state = "wait_3s"
    <3>1. state' = "write_i2"
      BY <1>7, <2>2 DEF LowerWren, Edge
    <3>2. Settled'[counter_i] = temp_j' /\ Settled'[counter_j] = temp_i'
      BY <1>7, <2>2, EdgeWrites, TwoWrites
    <3> QED
      BY <1>1, <2>1, <2>2, <3>1, <3>2 DEF ReadInv
  <2>3. CASE state = "wait_4s"
    <3>1. state' = "f_logic_i" /\ Settled' = Settled
      BY <1>7, <2>3, EdgeWrites DEF LowerWren, Edge
    <3> QED
      BY <1>1, <2>1, <2>3, <3>1 DEF ReadInv
  <2>4. CASE state \in {"wait_3", "wait_4"}
    BY <1>7, <2>4 DEF LowerWren, Edge, ReadInv
  <2> QED
    BY <1>7, <2>2, <2>3, <2>4 DEF LowerWren, Edge
<1>8. CASE FLogicI
  <2>1. /\ s_mem' = s_mem /\ Settled = s_mem
        /\ UNCHANGED <<counter_i, counter_j, counter_k, address_in>>
        /\ state = "f_logic_i" /\ state' = "wait_5s" /\ address' = (temp_j + temp_i) % N
    BY <1>8, EdgeReads DEF FLogicI, Edge, Settled, indices, result
  <2> QED
    BY <1>1, <2>1 DEF ReadInv
<1>9. CASE Pass
  <2>1. /\ s_mem' = s_mem /\ s_addr' = address
        /\ UNCHANGED <<counter_i, counter_j, counter_k, temp_i, temp_j, address, address_in>>
    BY <1>9, EdgeReads DEF Pass, Edge, indices, result, bus
  <2> QED
    BY <1>1, <1>9, <2>1 DEF Pass, Edge, ReadInv, Settled
<1>10. CASE DecryptState \/ CheckKloop \/ Default
  BY <1>10, ZStops DEF ZStops, DecryptState, CheckKloop, ValidByte, TryNextKey, GiveUp, Default,
     Edge, ReadInv
<1> QED
  BY <1>2, <1>3, <1>4, <1>5, <1>6, <1>7, <1>8, <1>9, <1>10 DEF Next

LEMMA StreamStep ==
  ASSUME ZStops, CipherTypes, ScheduleInv, ReadInv, StreamInv, Next
  PROVE  StreamInv'
<1> USE DEF ToUpdate, Exchange2, HalfDone2, AddressSum, InByte
<1>1. state \in InByte \cup {"i_inc"} => counter_k \in 0 .. MsgLen - 1
  BY MsgLenAssumption, NAssumption DEF CipherTypes, ResultInv, TypeOK, Byte
<1>2. CASE \/ WriteMem \/ CheckDone \/ DoneFill \/ StartSwap \/ Swap1 \/ StoreI \/ CalcJ
           \/ StoreJ \/ CounterInc
  BY <1>2 DEF WriteMem, CheckDone, DoneFill, StartSwap, Swap1, StoreI, CalcJ, StoreJ,
     CounterInc, Edge, StreamInv
<1>3. CASE StartSwap2
  <2>1. s_mem' = s_mem /\ s_mem = Schedule(N).S
    BY <1>3, EdgeReads DEF StartSwap2, Edge, ScheduleInv
  <2> QED
    BY <1>3, <2>1, StreamStarts DEF StartSwap2, Edge, StreamInv, Stream, Schedule, search
<1>4. CASE IInc
  <2>1. /\ s_mem' = s_mem /\ UNCHANGED <<counter_j, counter_k, secret>>
        /\ state = "i_inc" /\ state' = "wait_0s" /\ counter_i' = inc(counter_i)
    BY <1>4, EdgeReads DEF IInc, Edge, search
  <2>2. counter_i' = Stream(counter_k + 1).i
    BY <1>1, <2>1, StreamGoesOn DEF StreamInv, Stream
  <2> QED
    BY <2>1, <2>2 DEF StreamInv, Stream
<1>5. CASE JUpdate
  <2>1. /\ s_mem' = s_mem /\ UNCHANGED <<counter_i, counter_k, secret>>
        /\ state = "j_update" /\ state' = "wait_1s"
        /\ counter_j' = (counter_j + s_mem[counter_i]) % N
    BY <1>5, EdgeReads DEF JUpdate, Edge, search, result, ReadInv, out_mem
  <2>2. /\ counter_j = Stream(counter_k).j /\ counter_i = Stream(counter_k + 1).i
        /\ s_mem = Stream(counter_k).S
    BY <2>1 DEF StreamInv
  <2>3. counter_j' = Stream(counter_k + 1).j
    BY <1>1, <2>1, <2>2, StreamGoesOn DEF Stream
  <2> QED
    BY <2>1, <2>2, <2>3 DEF StreamInv, Stream
<1>6. CASE StoreI2 \/ StoreJ2 \/ WriteAtJ \/ WriteAtI \/ FLogicI
  <2>1. /\ s_mem' = s_mem /\ UNCHANGED <<counter_i, counter_j, counter_k, secret>>
        /\ temp_j' = temp_j \/ StoreJ2
    BY <1>6, EdgeReads DEF StoreI2, StoreJ2, WriteAtJ, WriteAtI, FLogicI, Edge, indices, result,
       search
  <2> QED
    BY <1>6, <2>1 DEF StoreI2, StoreJ2, WriteAtJ, WriteAtI, FLogicI, Edge, StreamInv, Stream,
       Settled
<1>7. CASE LowerWren
  <2>1. UNCHANGED <<counter_i, counter_j, counter_k, secret>>
    BY <1>7 DEF LowerWren, indices, search, result
  <2>2. CASE state = "wait_3s"
    <3>1. state' = "write_i2"
      BY <1>7, <2>2 DEF LowerWren, Edge
    <3>2. Settled' = Swapped(s_mem, counter_i, counter_j)
      BY <1>7, <2>2, EdgeWrites, TwoWrites
    <3>3. /\ s_mem = Stream(counter_k).S /\ counter_j = Stream(counter_k + 1).j
          /\ counter_i = Stream(counter_k + 1).i
      BY <2>2 DEF StreamInv
    <3>4. Settled' = Stream(counter_k + 1).S
      BY <1>1, <2>2, <3>2, <3>3, StreamGoesOn DEF Stream
    <3> QED
      BY <2>1, <3>1, <3>3, <3>4 DEF StreamInv, Stream
  <2>3. CASE state = "wait_4s"
    <3>1. state' = "f_logic_i" /\ Settled' = Settled
      BY <1>7, <2>3, EdgeWrites DEF LowerWren, Edge
    <3> QED
      BY <2>1, <2>3, <3>1 DEF StreamInv, Stream
  <2>4. CASE state \in {"wait_3", "wait_4"}
    BY <1>7, <2>4 DEF LowerWren, Edge, StreamInv
  <2> QED
    BY <1>7, <2>2, <2>3, <2>4 DEF LowerWren, Edge
<1>8. CASE DecryptState
  <2>1. /\ s_mem' = s_mem /\ Settled = s_mem /\ UNCHANGED <<counter_i, counter_j, secret>>
        /\ state = "decrypt_state" /\ state' = "check_kloop" /\ counter_k' = inc(counter_k)
    BY <1>8, EdgeReads DEF DecryptState, Edge, indices, search, Settled
  <2>2. counter_k' = counter_k + 1
    <3>1. counter_k \in Byte /\ counter_k # N - 1
      BY <1>1, <2>1, MsgLenAssumption, NAssumption DEF CipherTypes, TypeOK
    <3> QED
      BY <2>1, <3>1, IncByte
  <2> QED
    BY <2>1, <2>2 DEF StreamInv, Stream
<1>9. CASE CheckKloop
  <2>1. /\ s_mem' = s_mem /\ state = "check_kloop" /\ UNCHANGED <<counter_j, counter_k>>
        /\ ValidByte => UNCHANGED <<counter_i, secret>>
        /\ ~ ValidByte => state' \in {"write_mem", "bad_message"}
    BY <1>9, EdgeReads DEF CheckKloop, ValidByte, TryNextKey, GiveUp, Edge
  <2> QED
    BY <1>9, <2>1 DEF ValidByte, Edge, StreamInv, Stream
<1>10. CASE Pass
  <2>1. /\ s_mem' = s_mem
        /\ UNCHANGED <<counter_i, counter_j, counter_k, temp_j, secret>>
    BY <1>10, EdgeReads DEF Pass, Edge, indices, search, result
  <2> QED
    BY <1>10, <2>1 DEF Pass, Edge, StreamInv, Stream, Settled
<1>11. CASE Default
  BY <1>11, ZStops DEF ZStops, Default, Edge, StreamInv
<1> QED
  BY <1>2, <1>3, <1>4, <1>5, <1>6, <1>7, <1>8, <1>9, <1>10, <1>11 DEF Next

LEMMA PlainStep ==
  ASSUME ZStops, CipherTypes, StreamInv, ReadInv, PlainInv, Next
  PROVE  PlainInv'
<1> USE DEF InByte
<1>1. CASE \/ WriteMem \/ CheckDone \/ DoneFill \/ StartSwap \/ Swap1 \/ StoreI \/ CalcJ
           \/ StoreJ \/ CounterInc
  BY <1>1 DEF WriteMem, CheckDone, DoneFill, StartSwap, Swap1, StoreI, CalcJ, StoreJ,
     CounterInc, Edge, PlainInv
<1>2. wren_d = FALSE => de_mem' = de_mem
  BY EveryEdge DEF SampleMemories
<1>3. en_mem' = en_mem
  BY EveryEdge DEF SampleMemories
<1>4. state # "check_kloop" => wren_d = FALSE
  BY DEF CipherTypes, TypeOK, ResultInv
<1>5. CASE StartSwap2
  <2>1. \A m \in Byte : ~ (m < 0)
    BY NAssumption DEF Byte
  <2> QED
    BY <1>5, <2>1 DEF StartSwap2, Edge, PlainInv, PlainUpTo
<1>6. CASE IInc \/ JUpdate \/ StoreI2 \/ StoreJ2 \/ FLogicI \/ WriteAtJ \/ LowerWren \/ WriteAtI \/ Pass
  <2>1. de_mem' = de_mem /\ UNCHANGED <<counter_k, secret>>
    BY <1>2, <1>4, <1>6 DEF IInc, JUpdate, StoreI2, StoreJ2, FLogicI, WriteAtJ, LowerWren, WriteAtI,
       Pass, Edge, result, search
  <2> QED
    BY <1>3, <1>6, <2>1 DEF IInc, JUpdate, StoreI2, StoreJ2, FLogicI, WriteAtJ, LowerWren, WriteAtI,
       Pass, Edge, PlainInv, PlainUpTo, Plain
<1>7. CASE DecryptState
  <2>1. /\ de_mem' = de_mem /\ UNCHANGED secret
        /\ state = "decrypt_state" /\ state' = "check_kloop" /\ counter_k' = inc(counter_k)
        /\ data_decrypted' = ByteXor(out_mem, encrypted_input)
    BY <1>2, <1>4, <1>7 DEF DecryptState, Edge, search
  <2>2. counter_k \in 0 .. MsgLen - 1 /\ counter_k \in Byte /\ counter_k # N - 1
    BY <2>1, MsgLenAssumption, NAssumption DEF CipherTypes, ResultInv, TypeOK, Byte
  <2>3. counter_k' = counter_k + 1
    BY <2>1, <2>2, IncByte
  <2>4. counter_k' - 1 = counter_k
    BY <2>2, <2>3, BytesAreIntegers
  <2>5. encrypted_input = en_mem[counter_k]
    <3>1. en_addr = counter_k
      BY <2>1 DEF ReadInv
    <3>2. counter_k % MsgLen = counter_k
      BY <2>2, MsgLenAssumption, NAssumption
    <3> QED
      BY <3>1, <3>2 DEF encrypted_input
  <2>6. out_mem = Stream(counter_k + 1).byte
    <3>1. /\ s_mem = Stream(counter_k + 1).S /\ counter_i = Stream(counter_k + 1).i
          /\ counter_j = Stream(counter_k + 1).j
      BY <2>1 DEF StreamInv, ToUpdate, AddressSum, Settled
    <3>2. s_addr = (s_mem[counter_i] + s_mem[counter_j]) % N
      BY <2>1 DEF ReadInv, AddressSum
    <3> QED
      BY <2>2, <3>1, <3>2, StreamGoesOn DEF Stream, out_mem
  <2>7. data_decrypted' = Plain(counter_k)
    BY <2>1, <2>2, <2>5, <2>6, PlainByte DEF Plain, Stream, CipherTypes, TypeOK
  <2> QED
    BY <1>3, <2>1, <2>4, <2>7 DEF PlainInv, PlainUpTo, Plain
<1>8. CASE CheckKloop
  <2>1. /\ counter_k \in 1 .. MsgLen /\ counter_k \in Byte /\ counter_k - 1 \in Byte
        /\ wren_d /\ address_out = counter_k - 1 /\ counter_k' = counter_k
        /\ state = "check_kloop"
    BY <1>8, NAssumption, MsgLenAssumption
    DEF CheckKloop, ValidByte, TryNextKey, GiveUp, Edge, CipherTypes, ResultInv, TypeOK, Byte
  <2>2. de_mem' = [de_mem EXCEPT ![counter_k - 1] = data_decrypted]
    BY <2>1, EveryEdge DEF SampleMemories
  <2>3. data_decrypted = Plain(counter_k - 1) /\ PlainUpTo(counter_k - 1)
    BY <2>1 DEF PlainInv
  <2>4. ASSUME NEW m \in Byte, m < counter_k
        PROVE  de_mem'[m] = Plain(m)
    <3>1. m < counter_k - 1 \/ m = counter_k - 1
      BY <2>1, <2>4, BytesAreIntegers
    <3>2. de_mem \in [Byte -> Byte]
      BY DEF CipherTypes, TypeOK
    <3> QED
      BY <2>1, <2>2, <2>3, <3>1, <3>2 DEF PlainUpTo
  <2>5. CASE ValidByte
    BY <1>3, <2>1, <2>4, <2>5 DEF ValidByte, Edge, PlainInv, PlainUpTo, Plain
  <2>6. CASE TryNextKey \/ GiveUp
    BY <2>6 DEF TryNextKey, GiveUp, Edge, PlainInv
  <2> QED
    BY <1>8, <2>5, <2>6 DEF CheckKloop
<1>9. CASE Default
  BY <1>9, ZStops DEF ZStops, Default, Edge, PlainInv
<1> QED
  BY <1>1, <1>5, <1>6, <1>7, <1>8, <1>9 DEF Next

LEMMA VerdictStep ==
  ASSUME ZStops, CipherTypes, PlainInv, VerdictInv, Next, CipherTypes', PlainInv'
  PROVE  VerdictInv'
<1>1. en_mem' = en_mem
  BY EveryEdge DEF SampleMemories
<1>2. LatchVerdict
  BY EveryEdge
<1>3. CASE CheckKloop
  <2>1. counter_k \in 1 .. MsgLen /\ state = "check_kloop"
    BY <1>3 DEF CheckKloop, ValidByte, TryNextKey, GiveUp, Edge, CipherTypes, ResultInv
  <2>2. crack_success' = crack_success /\ crack_success # "01" /\ crack_success # "10"
    BY <1>2, <2>1 DEF LatchVerdict, VerdictInv
  <2>3. CASE ValidByte
    <3>1. state' = "done_swap2" => Accepted(secret', en_mem')
      <4> SUFFICES ASSUME state' = "done_swap2" PROVE Accepted(secret', en_mem')
        OBVIOUS
      <4>1. counter_k' = MsgLen /\ KeptUpTo(MsgLen)'
        BY DEF CipherTypes, ResultInv
      <4>2. PlainUpTo(MsgLen)'
        BY <4>1 DEF PlainInv
      <4>3. \A m \in 0 .. MsgLen - 1 : m \in Byte /\ m < MsgLen
        BY NAssumption, MsgLenAssumption DEF Byte
      <4> QED
        BY <4>1, <4>2, <4>3 DEF PlainUpTo, KeptUpTo, Plain, Accepted
    <3> QED
      BY <1>1, <2>2, <2>3, <3>1 DEF ValidByte, Edge, VerdictInv
  <2>4. CASE TryNextKey \/ GiveUp
    <3>1. ~ Accepted(secret, en_mem)
      <4>1. counter_k - 1 \in 0 .. MsgLen - 1
        BY <2>1, MsgLenAssumption, NAssumption
      <4>2. data_decrypted = Plain(counter_k - 1) /\ data_decrypted \notin Valid
        BY <2>1, <2>4 DEF PlainInv, TryNextKey, GiveUp
      <4> QED
        BY <4>1, <4>2 DEF Plain, Accepted
    <3>2. \A k \in Keys : k < secret + 1 => k < secret \/ k = secret
      BY KeysAreIntegers DEF CipherTypes, TypeOK
    <3> QED
      BY <1>1, <2>2, <2>4, <3>1, <3>2 DEF TryNextKey, GiveUp, Edge, VerdictInv
  <2> QED
    BY <1>3, <2>3, <2>4 DEF CheckKloop
<1>4. CASE Default
  BY <1>1, <1>2, <1>4, ZStops DEF ZStops, Default, Edge, LatchVerdict, VerdictInv, search
<1>5. CASE Pass
  BY <1>1, <1>2, <1>5 DEF Pass, Edge, LatchVerdict, VerdictInv, search
<1>6. CASE \/ WriteMem \/ CheckDone \/ DoneFill \/ StartSwap \/ Swap1 \/ StoreI \/ CalcJ
           \/ StoreJ \/ WriteAtJ \/ LowerWren
  <2>1. secret' = secret
    BY <1>6 DEF WriteMem, CheckDone, DoneFill, StartSwap, Swap1, StoreI, CalcJ, StoreJ, WriteAtJ,
       LowerWren, search
  <2> QED
    BY <1>1, <1>2, <1>6, <2>1 DEF WriteMem, CheckDone, DoneFill, StartSwap, Swap1, StoreI, CalcJ,
       StoreJ, WriteAtJ, LowerWren, Edge, LatchVerdict, VerdictInv
<1>7. CASE \/ WriteAtI \/ CounterInc \/ StartSwap2 \/ IInc \/ JUpdate \/ StoreI2 \/ StoreJ2
           \/ FLogicI \/ DecryptState
  <2>1. secret' = secret
    BY <1>7 DEF WriteAtI, CounterInc, StartSwap2, IInc, JUpdate, StoreI2, StoreJ2, FLogicI,
       DecryptState, search
  <2> QED
    BY <1>1, <1>2, <1>7, <2>1 DEF WriteAtI, CounterInc, StartSwap2, IInc, JUpdate, StoreI2,
       StoreJ2, FLogicI, DecryptState, Edge, LatchVerdict, VerdictInv
<1> QED
  BY <1>3, <1>4, <1>5, <1>6, <1>7 DEF Next

(* All that is needed of the circuit, and that every edge keeps it.         *)
CircuitInv == CipherTypes /\ CipherInv /\ VerdictInv

LEMMA CircuitInit == Init => CircuitInv
<1> SUFFICES ASSUME Init PROVE CircuitInv
  OBVIOUS
<1>1. CipherTypes
  BY TypeInit, SwapInit, ResultInit DEF CipherTypes
<1>2. \A k \in Keys : ~ (k < secret)
  BY KeysAreIntegers DEF Init, Keys
<1>3. ScheduleInv /\ PlainInv
  BY DEF Init, ScheduleInv, PlainInv, InByte, ToSchedule, Exchange, HalfDone
<1>4. StreamInv
  BY DEF Init, StreamInv, InByte, ToUpdate, Exchange2, HalfDone2, AddressSum
<1>5. ReadInv
  BY DEF Init, ReadInv, InByte, HalfDone2, AddressSum
<1>6. VerdictInv
  BY <1>2 DEF Init, VerdictInv
<1> QED
  BY <1>1, <1>3, <1>4, <1>5, <1>6 DEF CircuitInv, CipherInv

LEMMA CircuitStep ==
  ASSUME ZStops
  PROVE  CircuitInv /\ [Next]_vars => CircuitInv'
<1> SUFFICES ASSUME CircuitInv, [Next]_vars PROVE CircuitInv'
  OBVIOUS
<1>1. ZQuiet
  BY ZStops DEF ZStops, ZQuiet
<1>2. CipherTypes'
  BY <1>1, TypeStep, SwapStep, ResultStep DEF CipherTypes, CircuitInv
<1>3. CASE Next
  <2>1. ScheduleInv' /\ StreamInv' /\ ReadInv' /\ PlainInv'
    BY <1>3, ScheduleStep, StreamStep, ReadStep, PlainStep DEF CircuitInv, CipherInv
  <2>2. VerdictInv'
    BY <1>2, <1>3, <2>1, VerdictStep DEF CircuitInv, CipherInv
  <2> QED
    BY <1>2, <2>1, <2>2 DEF CircuitInv, CipherInv
<1>4. CASE UNCHANGED vars
  <2> USE <1>4 DEF vars, indices, bus, result, search, memories
  <2>1. ScheduleInv'
    BY DEF ScheduleInv, CircuitInv, CipherInv, Schedule, Settled
  <2>2. StreamInv'
    BY DEF StreamInv, CircuitInv, CipherInv, Stream, Settled
  <2>3. ReadInv'
    BY DEF ReadInv, CircuitInv, CipherInv, Settled
  <2>4. PlainInv'
    BY DEF PlainInv, CircuitInv, CipherInv, PlainUpTo, Plain
  <2>5. VerdictInv'
    BY DEF VerdictInv, CircuitInv
  <2> QED
    BY <1>2, <2>1, <2>2, <2>3, <2>4, <2>5 DEF CircuitInv, CipherInv
<1> QED
  BY <1>3, <1>4

(* The circuit computes RC4: the schedule it decrypts with and every byte   *)
(* it judges and keeps are those of the key being tried, whatever came      *)
(* before.                                                                  *)
THEOREM DecryptionIsExact ==
  ASSUME ZStops
  PROVE  Spec => []DecryptionExact
<1>1. CircuitInv => DecryptionExact
  <2> SUFFICES ASSUME CircuitInv PROVE DecryptionExact
    OBVIOUS
  <2>1. ScheduleOfThisKey
    BY DEF CircuitInv, CipherInv, ScheduleInv, Schedule, ScheduleOfThisKey
  <2>2. \A m \in 0 .. counter_k - 1 : m \in Byte /\ m < counter_k
    BY NAssumption DEF CircuitInv, CipherTypes, TypeOK, Byte
  <2>3. BytesDecrypted
    BY <2>2 DEF CircuitInv, CipherInv, PlainInv, PlainUpTo, Plain, BytesDecrypted
  <2> QED
    BY <2>1, <2>3 DEF DecryptionExact
<1> QED
  BY <1>1, CircuitInit, CircuitStep, PTL DEF Spec

(* The abstract search and the circuit speak of one cipher.                 *)
LEMMA SameCipher ==
  /\ Search!Byte = Byte /\ Search!LastKey = LastKey
  /\ \A s, msg : Search!Accepted(s, msg) <=> Accepted(s, msg)
<1>1. Search!Byte = Byte /\ Search!LastKey = LastKey /\ Search!Keys = Keys
  BY DEF Search!Byte, Byte, Search!LastKey, LastKey, Search!Keys, Keys
<1>2. ASSUME NEW s, NEW n PROVE Search!KeyByte(s, n) = KeyByte(s, n)
  BY DEF Search!KeyByte, KeyByte
<1>3. ASSUME NEW S, NEW a, NEW b PROVE Search!Swapped(S, a, b) = Swapped(S, a, b)
  BY DEF Search!Swapped, Swapped
<1>4. ASSUME NEW s PROVE Search!KeySchedule(s) = KeySchedule(s)
  BY ONLY ZenonT(60), <1>1, <1>2, <1>3 DEF Search!KeySchedule, KeySchedule
<1>5. ASSUME NEW s PROVE Search!KeyStream(s) = KeyStream(s)
  <2> DEFINE Gen(K) ==
        LET gen[n \in 0 .. MsgLen] ==
              IF n = 0
              THEN [S |-> K[N].S, i |-> 0, j |-> 0, byte |-> 0]
              ELSE LET p == gen[n - 1]
                       i == (p.i + 1) % N
                       j == (p.j + p.S[i]) % N
                       T == [p.S EXCEPT ![i] = p.S[j], ![j] = p.S[i]]
                   IN  [S |-> T, i |-> i, j |-> j, byte |-> T[(T[i] + T[j]) % N]]
        IN  gen
  <2>1. Search!KeyStream(s) = Gen(Search!KeySchedule(s))
    BY DEF Search!KeyStream, Search!Swapped
  <2>2. KeyStream(s) = Gen(KeySchedule(s))
    BY DEF KeyStream, Swapped
  <2> HIDE DEF Gen
  <2> QED
    BY <1>4, <2>1, <2>2
<1>6. Search!KeyStreams = KeyStreams
  BY <1>1, <1>5 DEF Search!KeyStreams, KeyStreams
<1>7. ASSUME NEW s, NEW msg PROVE Search!Decryption(s, msg) = Decryption(s, msg)
  BY <1>6 DEF Search!Decryption, Decryption
<1> QED
  BY <1>1, <1>7 DEF Search!Accepted, Accepted

(* The circuit searches as KeySearch says: no key is skipped, none is       *)
(* passed over that decrypts the message, and each verdict is the true one. *)
(* This is the part of ImplementsSearch that is not fairness.               *)
THEOREM SearchImplemented ==
  ASSUME ZStops
  PROVE  Spec => Search!Init /\ [][Search!Next]_Search!kvars
<1>1. Init => Search!Init
  BY SameCipher DEF Init, Search!Init
<1>2. CircuitInv /\ [Next]_vars => [Search!Next]_Search!kvars
  <2> SUFFICES ASSUME CircuitInv, [Next]_vars PROVE [Search!Next]_Search!kvars
    OBVIOUS
  <2>1. CASE UNCHANGED vars
    BY <2>1 DEF vars, search, memories, Search!kvars
  <2>2. CASE Next /\ state \notin {"check_kloop", "done_swap2", "bad_message"}
    <3>1. en_mem' = en_mem /\ crack_success' = crack_success
      BY <2>2, EveryEdge DEF SampleMemories, LatchVerdict
    <3>2. secret' = secret
      BY <2>2 DEF Next, WriteMem, CheckDone, DoneFill, StartSwap, Swap1, StoreI, CalcJ, StoreJ,
         WriteAtJ, LowerWren, WriteAtI, CounterInc, StartSwap2, IInc, JUpdate, StoreI2, StoreJ2,
         FLogicI, DecryptState, CheckKloop, ValidByte, TryNextKey, GiveUp, Edge, Pass, Default,
         search
    <3> QED
      BY <3>1, <3>2 DEF Search!kvars
  <2>3. CASE Next /\ state = "check_kloop"
    <3>1. CheckKloop /\ en_mem' = en_mem /\ crack_success' = crack_success
      BY <2>3, EveryEdge DEF Next, WriteMem, CheckDone, DoneFill, StartSwap, Swap1, StoreI, CalcJ,
         StoreJ, WriteAtJ, LowerWren, WriteAtI, CounterInc, StartSwap2, IInc, JUpdate, StoreI2,
         StoreJ2, FLogicI, DecryptState, Edge, Pass, Default, SampleMemories, LatchVerdict
    <3>2. CASE ~ TryNextKey
      BY <3>1, <3>2 DEF CheckKloop, ValidByte, GiveUp, Search!kvars
    <3>3. CASE TryNextKey
      <4>1. ~ Accepted(secret, en_mem)
        <5>1. counter_k - 1 \in 0 .. MsgLen - 1
          BY <2>3, MsgLenAssumption, NAssumption DEF CircuitInv, CipherTypes, ResultInv
        <5>2. data_decrypted = Plain(counter_k - 1) /\ data_decrypted \notin Valid
          BY <2>3, <3>3 DEF CircuitInv, CipherInv, PlainInv, TryNextKey
        <5> QED
          BY <5>1, <5>2 DEF Plain, Accepted
      <4>2. crack_success = "00"
        BY <2>3 DEF CircuitInv, CipherTypes, TypeOK, VerdictInv
      <4> QED
        BY <3>1, <3>3, <4>1, <4>2, SameCipher DEF TryNextKey, Search!Next, Search!Reject
    <3> QED
      BY <3>2, <3>3
  <2>4. CASE Next /\ state \in {"done_swap2", "bad_message"}
    <3>1. en_mem' = en_mem /\ LatchVerdict
      BY <2>4, EveryEdge DEF SampleMemories
    <3>2. secret' = secret
      BY <2>4 DEF Next, WriteMem, CheckDone, DoneFill, StartSwap, Swap1, StoreI, CalcJ, StoreJ,
         WriteAtJ, LowerWren, WriteAtI, CounterInc, StartSwap2, IInc, JUpdate, StoreI2, StoreJ2,
         FLogicI, DecryptState, CheckKloop, ValidByte, TryNextKey, GiveUp, Edge, Pass, Default,
         search
    <3>3. crack_success = "00" \/ (crack_success = "01" /\ state = "done_swap2")
      BY <2>4 DEF CircuitInv, CipherTypes, TypeOK, VerdictInv
    <3>4. state = "done_swap2" => crack_success' = "01" /\ Accepted(secret, en_mem)
      BY <3>1 DEF LatchVerdict, CircuitInv, VerdictInv
    <3>5. state = "bad_message" => crack_success' = "10" /\ secret = LastKey /\ ~ Accepted(secret, en_mem)
      BY <3>1 DEF LatchVerdict, CircuitInv, VerdictInv
    <3> QED
      BY <2>4, <3>1, <3>2, <3>3, <3>4, <3>5, SameCipher DEF Search!Next, Search!Succeed, Search!Fail,
         Search!kvars
  <2> QED
    BY <2>1, <2>2, <2>3, <2>4
<1> QED
  BY <1>1, <1>2, CircuitInit, CircuitStep, PTL DEF Spec

(* The lights come one edge after the verdict and tell the truth.           *)
THEOREM LightsHold ==
  ASSUME ZStops
  PROVE  KSpec => []LightsTruthful
<1> DEFINE LightInv == /\ CircuitInv
                       /\ 0 \in LED => crack_success = "01"
                       /\ 1 \in LED => crack_success = "10"
<1>1. KInit => LightInv
  BY CircuitInit DEF KInit
<1>2. LightInv /\ [KNext]_kvars => LightInv'
  <2> SUFFICES ASSUME LightInv, [KNext]_kvars PROVE LightInv'
    OBVIOUS
  <2>1. CircuitInv'
    BY CircuitStep DEF KNext, kvars
  <2>2. CASE KNext
    <3>1. LatchVerdict
      BY <2>2, EveryEdge DEF KNext
    <3>2. crack_success = "01" => crack_success' = "01"
      BY <3>1 DEF LatchVerdict, CircuitInv, VerdictInv
    <3>3. crack_success = "10" => crack_success' = "10"
      BY <3>1 DEF LatchVerdict, CircuitInv, VerdictInv
    <3> QED
      BY <2>1, <2>2, <3>2, <3>3 DEF KNext, Lights
  <2>3. CASE UNCHANGED kvars
    BY <2>1, <2>3 DEF kvars, vars
  <2> QED
    BY <2>2, <2>3
<1>3. LightInv => LightsTruthful
  <2> SUFFICES ASSUME LightInv PROVE LightsTruthful
    OBVIOUS
  <2>1. 0 \in LED => Accepted(secret, en_mem)
    BY DEF CircuitInv, VerdictInv
  <2>2. ASSUME 1 \in LED, NEW k \in Keys PROVE ~ Accepted(k, en_mem)
    <3>1. secret = LastKey /\ ~ Accepted(secret, en_mem) /\ (k < secret => ~ Accepted(k, en_mem))
      BY <2>2 DEF CircuitInv, VerdictInv
    <3>2. k < LastKey \/ k = LastKey
      BY KeysAreIntegers DEF Keys
    <3> QED
      BY <3>1, <3>2
  <2> QED
    BY <2>1, <2>2 DEF LightsTruthful
<1> QED
  BY <1>1, <1>2, <1>3, PTL DEF KSpec
=============================================================================
