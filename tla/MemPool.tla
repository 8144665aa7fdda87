------------------------------ MODULE MemPool ------------------------------
(***************************************************************************)
(* The block allocator of Users/Main/src/malloc.c (the branch built with   *)
(* USE_NEW_MALLOC_MOD = 0).  A pool is an array of bytes cut into blocks   *)
(* and a table with one 16-bit entry per block: 0 for a free block, else   *)
(* the number of blocks of the allocation the block belongs to.            *)
(*                                                                         *)
(* live is a history variable: the blocks the clients hold.  The clients   *)
(* (lan8720.c, the FatFs memory hooks) return a block once and write only  *)
(* inside the blocks they hold.                                            *)
(***************************************************************************)
EXTENDS Integers, FiniteSets

CONSTANTS Pools,        \* SRAMIN, SRAMEX, SRAMCCM
          ZeroedPools,  \* pools the C start-up code clears (.bss)
          TblSize,      \* memtblsize
          BlkSize,      \* memblksize
          Data,         \* values of a byte
          Sizes,        \* request sizes in bytes
          Junk          \* table entries found in memory nobody cleared

ASSUME PoolAssumption ==
    /\ ZeroedPools \subseteq Pools
    /\ TblSize \in [Pools -> Nat \ {0}]
    /\ BlkSize \in [Pools -> Nat \ {0}]
    /\ \A m \in Pools : TblSize[m] < 65536   \* an entry is a uint16_t

ASSUME ValueAssumption ==
    /\ 0 \in Data
    /\ Sizes \subseteq Nat
    /\ Junk \subseteq Nat

VARIABLES memrdy,   \* mallco_dev.memrdy
          memmap,   \* mallco_dev.memmap
          membase,  \* mallco_dev.membase: the bytes of the pools
          live      \* history: the blocks held by clients, [ptr, size]

vars == <<memrdy, memmap, membase, live>>

Blocks(m) == 0 .. (TblSize[m] - 1)
MemSize(m) == TblSize[m] * BlkSize[m]
Bytes(m) == 0 .. (MemSize(m) - 1)

-----------------------------------------------------------------------------
(* The table. *)

\* Blocks needed for size bytes: the quotient, rounded up.
Nmemb(m, size) ==
    (size \div BlkSize[m]) + (IF size % BlkSize[m] = 0 THEN 0 ELSE 1)

\* Places where n consecutive blocks are free.
Gaps(m, map, n) ==
    {o \in Blocks(m) : /\ o + n <= TblSize[m]
                       /\ \A i \in o .. (o + n - 1) : map[i] = 0}

\* The scan runs from the last block down and takes the first gap it sees.
IsHighestGap(m, map, n, o) ==
    /\ o \in Gaps(m, map, n)
    /\ \A p \in Gaps(m, map, n) : p <= o

\* Mutant: entries one too large.
MarkedOneMore(m, map, o, n) ==
    [i \in Blocks(m) |-> IF i \in o .. (o + n - 1) THEN n + 1 ELSE map[i]]

Marked(m, map, o, n) ==
    [i \in Blocks(m) |-> IF i \in o .. (o + n - 1) THEN n ELSE map[i]]

\* Mutant: the last block of an allocation is not freed.
ClearedOneLess(m, map, offset) ==
    LET index == offset \div BlkSize[m]
        n     == map[index]
    IN  [i \in Blocks(m) |-> IF i \in index .. (index + n - 2)
                             THEN 0 ELSE map[i]]

\* my_mem_free finds the length of the allocation in its first table entry.
Cleared(m, map, offset) ==
    LET index == offset \div BlkSize[m]
        n     == map[index]
    IN  [i \in Blocks(m) |-> IF i \in index .. (index + n - 1)
                             THEN 0 ELSE map[i]]

\* The block a client gets for the gap at block o.
Handle(m, o, size) == [ptr |-> o * BlkSize[m], size |-> size]

Zeroes(S) == [i \in S |-> 0]

\* Mutant: cmemb is not reset at a used block.
MallocLoopNoReset(m, map, n) ==
    LET scan[o \in -1 .. (TblSize[m] - 1)] ==
            [c \in 0 .. (n - 1) |->
                LET cmemb == IF map[o] = 0 THEN c + 1 ELSE c
                IN  IF o = -1 THEN -1
                    ELSE IF cmemb = n THEN o
                    ELSE scan[o - 1][cmemb]]
    IN  scan[TblSize[m] - 1][0]

\* The scan as the code runs it: cmemb counts the free blocks just passed.
MallocLoop(m, map, n) ==
    LET scan[o \in -1 .. (TblSize[m] - 1)] ==
            [c \in 0 .. (n - 1) |->
                LET cmemb == IF map[o] = 0 THEN c + 1 ELSE 0
                IN  IF o = -1 THEN -1
                    ELSE IF cmemb = n THEN o
                    ELSE scan[o - 1][cmemb]]
    IN  scan[TblSize[m] - 1][0]

-----------------------------------------------------------------------------
(* The operations.  A pool that is not ready is initialised first. *)

TableNow(m) == IF memrdy[m] THEN memmap[m] ELSE Zeroes(Blocks(m))
BytesNow(m) == IF memrdy[m] THEN membase[m] ELSE Zeroes(Bytes(m))

\* Called by main() before anything is allocated from the pool.
my_mem_init(m) ==
    /\ ~memrdy[m]
    /\ memrdy' = [memrdy EXCEPT ![m] = TRUE]
    /\ memmap' = [memmap EXCEPT ![m] = Zeroes(Blocks(m))]
    /\ membase' = [membase EXCEPT ![m] = Zeroes(Bytes(m))]
    /\ UNCHANGED live

\* size = 0, or no gap is long enough: NULL, and only the lazy initialisation
\* is left behind.
mymallocFails(m, size) ==
    /\ size = 0 \/ Gaps(m, TableNow(m), Nmemb(m, size)) = {}
    /\ memrdy' = [memrdy EXCEPT ![m] = TRUE]
    /\ memmap' = [memmap EXCEPT ![m] = TableNow(m)]
    /\ membase' = [membase EXCEPT ![m] = BytesNow(m)]
    /\ UNCHANGED live

mymalloc(m, size) ==
    /\ size # 0
    /\ \E o \in Blocks(m) :
          /\ IsHighestGap(m, TableNow(m), Nmemb(m, size), o)
          /\ memmap' = [memmap EXCEPT ![m] =
                            Marked(m, TableNow(m), o, Nmemb(m, size))]
          /\ live' = [live EXCEPT ![m] =
                            @ \cup {Handle(m, o, size)}]
    /\ memrdy' = [memrdy EXCEPT ![m] = TRUE]
    /\ membase' = [membase EXCEPT ![m] = BytesNow(m)]

\* The table after my_mem_free(m, offset) on a ready pool: an offset past the
\* pool is refused.
FreedTable(m, map, offset) ==
    IF offset < MemSize(m) THEN Cleared(m, map, offset) ELSE map

\* A client returns a block it holds.  On a pool that is not ready the code
\* only initialises it.
myfree(m, b) ==
    /\ memrdy' = [memrdy EXCEPT ![m] = TRUE]
    /\ memmap' = [memmap EXCEPT ![m] = IF memrdy[m]
                                       THEN FreedTable(m, @, b.ptr)
                                       ELSE TableNow(m)]
    /\ membase' = [membase EXCEPT ![m] = BytesNow(m)]
    /\ live' = [live EXCEPT ![m] = @ \ {b}]

\* mymemcpy copies upwards byte by byte, so when the destination lies above
\* the source and the ranges overlap the first (dst - src) bytes repeat.
CopySource(src, dst, i) ==
    IF src < dst THEN src + (i % (dst - src)) ELSE src + i

\* Mutant: one byte too many is copied.
CopiedOneMore(m, base, src, dst, n, beyond) ==
    [j \in Bytes(m) |->
        IF j \in dst .. (dst + n)
        THEN LET s == CopySource(src, dst, j - dst)
             IN  IF s \in Bytes(m) THEN base[s] ELSE beyond
        ELSE base[j]]

\* The bytes of the pool after mymemcpy.  myrealloc copies the NEW size: a
\* larger block is filled from behind the old one, past the pool too.
Copied(m, base, src, dst, n, beyond) ==
    [j \in Bytes(m) |->
        IF j \in dst .. (dst + n - 1)
        THEN LET s == CopySource(src, dst, j - dst)
             IN  IF s \in Bytes(m) THEN base[s] ELSE beyond
        ELSE base[j]]

\* Allocate, copy, free the old block: in that order, so the two never
\* overlap.  (When the allocation fails the old block stays as it is: that
\* step is mymallocFails.)
myrealloc(m, b, size) ==
    /\ size # 0
    /\ \E o \in Blocks(m), beyond \in Data :
          LET dst == o * BlkSize[m]
          IN  /\ IsHighestGap(m, memmap[m], Nmemb(m, size), o)
              /\ membase' = [membase EXCEPT ![m] =
                                Copied(m, @, b.ptr, dst, size, beyond)]
              /\ memmap' = [memmap EXCEPT ![m] =
                    FreedTable(m, Marked(m, @, o, Nmemb(m, size)), b.ptr)]
              /\ live' = [live EXCEPT ![m] =
                    (@ \ {b}) \cup {Handle(m, o, size)}]
    /\ UNCHANGED memrdy

\* The owner of a block stores a byte in it.
ClientWrite(m, b, i, d) ==
    /\ membase' = [membase EXCEPT ![m][b.ptr + i] = d]
    /\ UNCHANGED <<memrdy, memmap, live>>

-----------------------------------------------------------------------------

\* mem1base and its table are in .bss; the external and the core-coupled
\* memory hold whatever they held.
Init ==
    /\ memrdy = [m \in Pools |-> FALSE]
    /\ memmap \in [Pools -> UNION {[Blocks(m) -> Junk \cup {0}] : m \in Pools}]
    /\ membase \in [Pools -> UNION {[Bytes(m) -> Data] : m \in Pools}]
    /\ \A m \in Pools :
          /\ memmap[m] \in [Blocks(m) -> Junk \cup {0}]
          /\ membase[m] \in [Bytes(m) -> Data]
          /\ m \in ZeroedPools => /\ memmap[m] = Zeroes(Blocks(m))
                                  /\ membase[m] = Zeroes(Bytes(m))
    /\ live = [m \in Pools |-> {}]

Next ==
    \E m \in Pools :
        \/ my_mem_init(m)
        \/ \E size \in Sizes : mymalloc(m, size)
        \/ \E size \in Sizes : mymallocFails(m, size)
        \/ \E b \in live[m] : myfree(m, b)
        \/ \E b \in live[m], size \in Sizes : myrealloc(m, b, size)
        \/ \E b \in live[m], d \in Data :
              \E i \in 0 .. (b.size - 1) : ClientWrite(m, b, i, d)

Spec == Init /\ [][Next]_vars
-----------------------------------------------------------------------------
(* Properties. *)

First(m, b) == b.ptr \div BlkSize[m]
Span(m, b) == First(m, b) .. (First(m, b) + Nmemb(m, b.size) - 1)

\* Type correctness of the tables, the bytes and the blocks handed out
\* (malloc.c, struct _m_mallco_dev).
TypeOK ==
    /\ memrdy \in [Pools -> BOOLEAN]
    /\ memmap = [m \in Pools |-> memmap[m]]
    /\ membase = [m \in Pools |-> membase[m]]
    /\ live = [m \in Pools |-> live[m]]
    /\ \A m \in Pools :
          /\ memmap[m] \in [Blocks(m) -> Junk \cup (0 .. TblSize[m])]
          /\ membase[m] \in [Bytes(m) -> Data]
          /\ live[m] \subseteq [ptr : Nat, size : Nat]

\* Every block a client holds starts on a block boundary and lies in the pool.
BlocksInPool ==
    \A m \in Pools : \A b \in live[m] :
        /\ b.size > 0
        /\ b.ptr = First(m, b) * BlkSize[m]
        /\ First(m, b) \in Blocks(m)
        /\ First(m, b) + Nmemb(m, b.size) <= TblSize[m]

\* Each table entry of a held block stores the length of THAT block: this is
\* what my_mem_free will believe.
EntriesTellLength ==
    \A m \in Pools : \A b \in live[m] : \A i \in Span(m, b) :
        memmap[m][i] = Nmemb(m, b.size)

\* No leak: in a ready pool a non-zero entry belongs to a block somebody holds.
NoLeak ==
    \A m \in Pools : memrdy[m] =>
        \A i \in Blocks(m) :
            memmap[m][i] # 0 => \E b \in live[m] : i \in Span(m, b)

\* Two held blocks have no table entry in common.
SpansApart ==
    \A m \in Pools : \A b, c \in live[m] :
        b # c => \/ First(m, b) + Nmemb(m, b.size) <= First(m, c)
                 \/ First(m, c) + Nmemb(m, c.size) <= First(m, b)

\* Nothing can be held of a pool that was never initialised.
ReadyIfUsed == \A m \in Pools : live[m] # {} => memrdy[m]

\* The table and the blocks held by the clients agree, whatever sequence of
\* mymalloc, myfree and myrealloc led here (malloc.c:273-358): the invariant
\* that makes freeing by table entry safe.
TableMatchesBlocks ==
    /\ ReadyIfUsed
    /\ BlocksInPool
    /\ SpansApart
    /\ EntriesTellLength
    /\ NoLeak

\* The scan of my_mem_malloc (malloc.c:283-296) finds the highest gap exactly
\* when there is one, for every request, on every table that can arise.
ScanFindsHighestGap ==
    \A m \in Pools : memrdy[m] =>
        \A n \in 1 .. (TblSize[m] + 1) :
            LET o == MallocLoop(m, memmap[m], n)
            IN  IF Gaps(m, memmap[m], n) = {}
                THEN o = -1
                ELSE IsHighestGap(m, memmap[m], n, o)

\* The bytes and the place of a held block, as its owner sees them.
ObjectOf(base, b) ==
    [ptr  |-> b.ptr,
     size |-> b.size,
     data |-> [i \in 0 .. (b.size - 1) |-> base[b.ptr + i]]]

ObjectsOf(base, lv) == {ObjectOf(base, b) : b \in lv}

HeapView == [m \in Pools |-> ObjectsOf(membase[m], live[m])]
HeapLimit == [m \in Pools |-> MemSize(m)]

Abstract == INSTANCE Heap WITH Limit <- HeapLimit, objs <- HeapView

\* The allocator implements Heap: no call of malloc.c changes a byte of a
\* block another client holds, blocks never overlap byte-wise, and myrealloc
\* keeps the common prefix.
ImplementsHeap == Abstract!HeapSpec
=============================================================================
