--------------------------------- MODULE OsMem ---------------------------------
(***************************************************************************)
(* Fixed-size memory partitions (os_mem.c).  The free blocks of a          *)
(* partition are linked through their own first word, which the block's    *)
(* owner overwrites: link is the memory, chain the list it ought to hold.  *)
(* OSMemGet and OSMemPut are critical sections of tasks and of interrupt   *)
(* handlers; OSMemCreate takes a control block and then builds the list.   *)
(***************************************************************************)
EXTENDS Integers, Sequences, FiniteSets

CONSTANTS Part,   \* the partition control blocks, OSMemTbl
          Block,  \* the addresses of blocks, 1 and up, one apart
          User,   \* tasks and interrupt handlers
          Area,   \* the arrays partitions are made of: records [addr, n]
          Null,   \* the null pointer
          Junk    \* what an owner writes into its block

ASSUME MemAssumption ==
  /\ Block \subseteq Nat \ {0}
  /\ Null \notin Block
  /\ \A a \in Area : a.addr \in Block /\ a.n \in Nat \ {0, 1} /\ a.addr .. a.addr + a.n - 1 \subseteq Block
  /\ \A a, b \in Area : (a.addr .. a.addr + a.n - 1) \cap (b.addr .. b.addr + b.n - 1) # {} => a = b

VARIABLES mem,    \* the control blocks: [used, free, nfree, nblks, area]
          link,   \* the first word of every block
          pool,   \* OSMemFreeList, the unused control blocks
          half,   \* for each user the OSMemCreate under way: <<part, area>> or <<>>
          left,   \* the arrays no partition was made of yet
          own,    \* the blocks each user has, with their partition
          chain   \* for each partition its free blocks, first to last

mvars == <<mem, link, pool, half, left, own, chain>>
-----------------------------------------------------------------------------
NoPart == [used |-> FALSE, free |-> Null, nfree |-> 0, nblks |-> 0]
BlocksOf(a) == a.addr .. a.addr + a.n - 1

\* A control block is taken from the list.
OSMemCreate(u, a) ==
  /\ half[u] = <<>> /\ a \in left
  /\ \E p \in pool : /\ pool' = pool \ {p}
                     /\ half' = [half EXCEPT ![u] = <<p, a>>]
  /\ left' = left \ {a}
  /\ UNCHANGED <<mem, link, own, chain>>

\* The blocks of the array are linked in the order of their addresses.
BuildList(u) ==
  /\ half[u] # <<>>
  /\ LET p == half[u][1]
         a == half[u][2]
     IN /\ link' = [x \in Block |->
                      IF x \notin BlocksOf(a) THEN link[x]
                      ELSE IF x = a.addr + a.n - 1 THEN Null ELSE x + 1]
        /\ mem' = [mem EXCEPT ![p] = [used |-> TRUE, free |-> a.addr, nfree |-> a.n, nblks |-> a.n]]
        /\ chain' = [chain EXCEPT ![p] = [i \in 1 .. a.n |-> a.addr + i - 1]]
  /\ half' = [half EXCEPT ![u] = <<>>]
  /\ UNCHANGED <<pool, left, own>>

OSMemGetFault(u, p) ==   \* fault: the next free block is taken to be the next in memory
  /\ mem[p].used /\ mem[p].nfree > 0
  /\ mem' = [mem EXCEPT ![p].free = mem[p].free + 1, ![p].nfree = @ - 1]
  /\ own' = [own EXCEPT ![u] = @ \cup {<<p, mem[p].free>>}]
  /\ chain' = [chain EXCEPT ![p] = Tail(@)]
  /\ UNCHANGED <<link, pool, half, left>>

OSMemGet(u, p) ==
  /\ mem[p].used
  /\ mem[p].nfree > 0
  /\ mem' = [mem EXCEPT ![p].free = link[mem[p].free], ![p].nfree = @ - 1]
  /\ own' = [own EXCEPT ![u] = @ \cup {<<p, mem[p].free>>}]
  /\ chain' = [chain EXCEPT ![p] = Tail(@)]
  /\ UNCHANGED <<link, pool, half, left>>

\* The owner uses its block.
Write(u, p, x) ==
  /\ <<p, x>> \in own[u]
  /\ link' = [link EXCEPT ![x] = Junk]
  /\ UNCHANGED <<mem, pool, half, left, own, chain>>

\* A full partition refuses the block (OS_ERR_MEM_FULL).
OSMemPut(u, p, x) ==
  /\ <<p, x>> \in own[u]
  /\ mem[p].nfree < mem[p].nblks
  /\ link' = [link EXCEPT ![x] = mem[p].free]
  /\ mem' = [mem EXCEPT ![p].free = x, ![p].nfree = @ + 1]
  /\ own' = [own EXCEPT ![u] = @ \ {<<p, x>>}]
  /\ chain' = [chain EXCEPT ![p] = <<x>> \o @]
  /\ UNCHANGED <<pool, half, left>>

\* OS_MemInit.
MemInit ==
  /\ mem = [p \in Part |-> NoPart]
  /\ link \in [Block -> {Junk}]
  /\ pool = Part
  /\ half = [u \in User |-> <<>>]
  /\ left = Area
  /\ own = [u \in User |-> {}]
  /\ chain = [p \in Part |-> <<>>]

MemNext == \E u \in User :
  \/ \E a \in Area : OSMemCreate(u, a)
  \/ BuildList(u)
  \/ \E p \in Part : OSMemGet(u, p) \/ \E x \in Block : Write(u, p, x) \/ OSMemPut(u, p, x)

MemSpec == MemInit /\ [][MemNext]_mvars
-----------------------------------------------------------------------------
\* The control block and the words of the free blocks spell out the chain, up
\* to a null pointer, whatever was written into the blocks in use.
ListSpelled ==
  \A p \in Part : mem[p].used =>
    LET c == chain[p]
        n == Len(c)
    IN /\ n = mem[p].nfree
       /\ mem[p].free = IF n = 0 THEN Null ELSE c[1]
       /\ \A i \in 1 .. n : link[c[i]] = IF i = n THEN Null ELSE c[i + 1]

\* A block is free once, or in one user's hands, or in an array no partition was
\* finished of: OSMemGet never hands out a block that is in use.
BlockInOnePlace ==
  \A x \in Block :
    LET free  == UNION {{<<p, i>> : i \in {j \in DOMAIN chain[p] : chain[p][j] = x}} : p \in Part}
        owned == {w \in User \X Part : <<w[2], x>> \in own[w[1]]}
        raw   == {a \in left : x \in BlocksOf(a)}
                   \cup {u \in User : half[u] # <<>> /\ x \in BlocksOf(half[u][2])}
    IN /\ Cardinality(free) + Cardinality(owned) + Cardinality(raw) <= 1
       /\ x \in UNION {BlocksOf(a) : a \in Area} => free \cup owned \cup raw # {}

\* A partition keeps its blocks: its list is what OSMemGet and OSMemPut made it,
\* no block is handed out twice, and one that is given back is never refused.
PartitionsExact ==
  /\ ListSpelled /\ BlockInOnePlace
  /\ \A u \in User : \A b \in own[u] : mem[b[1]].nfree < mem[b[1]].nblks
=============================================================================
