--------------------------- MODULE MemPoolProofs ---------------------------
(***************************************************************************)
(* Proofs about MemPool for pools of any number, length and block size.    *)
(*                                                                         *)
(* The argument is made pool by pool: Good relates one table to the blocks *)
(* held of that pool, and one lemma each shows that marking a gap and      *)
(* clearing a held block preserve it.  myrealloc is the two in sequence.   *)
(* The last section shows that the scan of the code finds the highest gap. *)
(***************************************************************************)
EXTENDS MemPool, FiniteSetTheorems, TLAPS

-----------------------------------------------------------------------------
(* Arithmetic of blocks and bytes. *)

\* The constants of one pool.
LEMMA PoolConstants ==
    ASSUME NEW m \in Pools
    PROVE  /\ TblSize[m] \in Nat
           /\ TblSize[m] > 0
           /\ BlkSize[m] \in Nat
           /\ BlkSize[m] > 0
           /\ BlkSize[m] \in Nat \ {0}
  BY PoolAssumption DEF PoolAssumption

\* Dividing a block's byte offset by the block size gives the block back.
LEMMA DivMul ==
    ASSUME NEW k \in Nat, NEW b \in Nat \ {0}
    PROVE  (k * b) \div b = k
  OBVIOUS

\* Multiplying by the block size preserves order.
LEMMA MulMono ==
    ASSUME NEW i \in Int, NEW j \in Int, NEW b \in Nat, i <= j
    PROVE  i * b <= j * b
  OBVIOUS

\* Multiplication by the block size distributes over a sum of block numbers.
LEMMA MulDist ==
    ASSUME NEW i \in Int, NEW j \in Int, NEW b \in Int
    PROVE  (i + j) * b = i * b + j * b
  OBVIOUS

\* The quotient and the remainder make up the number.
LEMMA DivMod ==
    ASSUME NEW s \in Nat, NEW b \in Nat \ {0}
    PROVE  /\ s \div b \in Nat
           /\ s % b \in 0 .. (b - 1)
           /\ s = (s \div b) * b + (s % b)
  OBVIOUS

\* Nmemb blocks hold size bytes, and a request is given at least one block.
LEMMA NmembRoom ==
    ASSUME NEW m \in Pools, NEW s \in Nat
    PROVE  /\ Nmemb(m, s) \in Nat
           /\ s <= Nmemb(m, s) * BlkSize[m]
           /\ s # 0 => Nmemb(m, s) > 0
<1> DEFINE b == BlkSize[m]  q == s \div b  r == s % b
<1>1. b \in Nat \ {0}
  BY PoolConstants
<1>2. /\ q \in Nat
      /\ r \in 0 .. (b - 1)
      /\ s = q * b + r
  BY <1>1, DivMod
<1>3. Nmemb(m, s) = q + (IF r = 0 THEN 0 ELSE 1)
  BY DEF Nmemb
<1> HIDE DEF b, q, r
<1>4. CASE r = 0
  <2>1. Nmemb(m, s) = q
    BY <1>2, <1>3, <1>4
  <2>2. s = q * b
    BY <1>1, <1>2, <1>4
  <2>3. q = 0 => s = 0
    BY <1>1, <2>2
  <2> QED
    BY <1>1, <1>2, <2>1, <2>2, <2>3 DEF b
<1>5. CASE r # 0
  <2>1. Nmemb(m, s) = q + 1
    BY <1>2, <1>3, <1>5
  <2>2. (q + 1) * b = q * b + b
    BY <1>1, <1>2
  <2>3. q * b \in Nat
    BY <1>1, <1>2
  <2>4. s <= q * b + b
    BY <1>1, <1>2, <2>3
  <2> QED
    BY <1>1, <1>2, <2>1, <2>2, <2>4 DEF b
<1> QED
  BY <1>4, <1>5

-----------------------------------------------------------------------------
(* One pool: its table and the blocks held of it. *)

Held == [ptr : Nat, size : Nat]
Table(m) == [Blocks(m) -> Junk \cup (0 .. TblSize[m])]

InPool(m, b) ==
    /\ b.size > 0
    /\ b.ptr = First(m, b) * BlkSize[m]
    /\ First(m, b) \in Blocks(m)
    /\ First(m, b) + Nmemb(m, b.size) <= TblSize[m]

Clear(m, b, c) ==
    \/ First(m, b) + Nmemb(m, b.size) <= First(m, c)
    \/ First(m, c) + Nmemb(m, c.size) <= First(m, b)

\* TableMatchesBlocks for one pool, over values instead of variables.
Good(m, rdy, map, lv) ==
    /\ lv # {} => rdy
    /\ \A b \in lv : InPool(m, b)
    /\ \A b, c \in lv : b # c => Clear(m, b, c)
    /\ \A b \in lv : \A i \in Span(m, b) : map[i] = Nmemb(m, b.size)
    /\ rdy => \A i \in Blocks(m) :
                  map[i] # 0 => \E b \in lv : i \in Span(m, b)

\* A pool just initialised holds nothing and leaks nothing.
LEMMA GoodFresh ==
    ASSUME NEW m \in Pools
    PROVE  /\ Zeroes(Blocks(m)) \in Table(m)
           /\ Good(m, TRUE, Zeroes(Blocks(m)), {})
<1>1. Zeroes(Blocks(m)) \in Table(m)
  BY PoolConstants DEF Zeroes, Table
<1>2. \A i \in Blocks(m) : Zeroes(Blocks(m))[i] = 0
  BY DEF Zeroes
<1> QED
  BY <1>1, <1>2 DEF Good

\* The block handed out for gap o starts at block o.
LEMMA FirstOfNew ==
    ASSUME NEW m \in Pools, NEW o \in Nat, NEW s
    PROVE  First(m, Handle(m, o, s)) = o
  BY PoolConstants, DivMul DEF First, Handle

\* my_mem_malloc marks a gap: the table stays good with the new block added.
LEMMA GoodMark ==
    ASSUME NEW m \in Pools, NEW map \in Table(m), NEW lv \in SUBSET Held,
           Good(m, TRUE, map, lv),
           NEW s \in Nat, s # 0,
           NEW o \in Gaps(m, map, Nmemb(m, s))
    PROVE  /\ Marked(m, map, o, Nmemb(m, s)) \in Table(m)
           /\ Good(m, TRUE, Marked(m, map, o, Nmemb(m, s)),
                   lv \cup {Handle(m, o, s)})
           /\ \A c \in lv : Clear(m, c, Handle(m, o, s))
           /\ Handle(m, o, s) \in Held
           /\ Handle(m, o, s) \notin lv
<1> DEFINE b == Handle(m, o, s)
           n == Nmemb(m, s)
           new == Marked(m, map, o, n)
<1>1. /\ n \in Nat
      /\ n > 0
  BY NmembRoom
<1>2. /\ o \in Nat
      /\ o \in Blocks(m)
      /\ o + n <= TblSize[m]
      /\ \A i \in o .. (o + n - 1) : map[i] = 0
  BY PoolConstants DEF Gaps, Blocks
<1>3. /\ First(m, b) = o
      /\ b.size = s
      /\ b.ptr = o * BlkSize[m]
  BY <1>2, FirstOfNew DEF Handle
<1>4. b \in Held
  BY <1>2, PoolConstants DEF Held, Handle
<1>5. Span(m, b) = o .. (o + n - 1)
  BY <1>3 DEF Span
<1>6. ASSUME NEW c \in lv
      PROVE  /\ First(m, c) \in Nat
             /\ Nmemb(m, c.size) \in Nat
             /\ Nmemb(m, c.size) > 0
             /\ First(m, c) + Nmemb(m, c.size) <= TblSize[m]
             /\ \A i \in First(m, c) .. (First(m, c) + Nmemb(m, c.size) - 1) :
                    map[i] = Nmemb(m, c.size)
  <2>1. c.size \in Nat /\ c.size > 0
    BY DEF Good, InPool, Held
  <2> QED
    BY <2>1, NmembRoom DEF Good, InPool, Blocks, Span
<1> HIDE DEF n, b
<1>7. ASSUME NEW c \in lv
      PROVE  Clear(m, c, b)
  <2> DEFINE f == First(m, c)  k == Nmemb(m, c.size)
  <2>1. /\ f \in Nat /\ k \in Nat /\ k > 0
        /\ \A i \in f .. (f + k - 1) : map[i] = k
    BY <1>6
  <2> HIDE DEF f, k
  <2>2. f + k <= o \/ o + n <= f
    BY <2>1, <1>1, <1>2
  <2> QED
    BY <2>2, <1>3 DEF Clear, f, k, n
<1>8. \A c \in lv : Clear(m, b, c)
  BY <1>7 DEF Clear
<1>9. \A i \in Blocks(m) :
        new[i] = IF i \in o .. (o + n - 1) THEN n ELSE map[i]
  BY DEF Marked
<1>10. new \in Table(m)
  BY <1>1, <1>2, PoolConstants DEF Marked, Table
<1>11. InPool(m, b)
  BY <1>2, <1>3 DEF InPool, n
<1>12. \A c \in lv \cup {b} : InPool(m, c)
  BY <1>11 DEF Good
<1>13. \A c, d \in lv \cup {b} : c # d => Clear(m, c, d)
  BY <1>7, <1>8 DEF Good
<1>14. ASSUME NEW c \in lv \cup {b}, NEW i \in Span(m, c)
       PROVE  new[i] = Nmemb(m, c.size)
  <2>1. CASE c = b
    BY <2>1, <1>1, <1>2, <1>3, <1>5, <1>9, PoolConstants DEF n, Blocks
  <2>2. CASE c \in lv
    <3>1. i \in Blocks(m)
      BY <2>2, <1>6, PoolConstants DEF Span, Blocks
    <3>2. i \notin o .. (o + n - 1)
      BY <2>2, <1>6, <1>7, <1>3, <1>1, <1>2 DEF Span, Clear, n
    <3> QED
      BY <2>2, <3>1, <3>2, <1>9 DEF Good
  <2> QED
    BY <2>1, <2>2
<1>15. ASSUME NEW i \in Blocks(m), new[i] # 0
       PROVE  \E c \in lv \cup {b} : i \in Span(m, c)
  <2>1. CASE i \in o .. (o + n - 1)
    BY <2>1, <1>5
  <2>2. CASE i \notin o .. (o + n - 1)
    <3>1. map[i] # 0
      BY <2>2, <1>9, <1>15
    <3> QED
      BY <3>1 DEF Good
  <2> QED
    BY <2>1, <2>2
<1>16. b \notin lv
  BY <1>7, <1>3, <1>1, <1>2 DEF Clear, n
<1>17. Good(m, TRUE, new, lv \cup {b})
  BY <1>12, <1>13, <1>14, <1>15 DEF Good
<1> QED
  BY <1>4, <1>7, <1>10, <1>16, <1>17 DEF n, b

\* my_mem_free clears a held block: exactly its entries, and nobody else's.
LEMMA GoodFree ==
    ASSUME NEW m \in Pools, NEW map \in Table(m), NEW lv \in SUBSET Held,
           Good(m, TRUE, map, lv),
           NEW b \in lv
    PROVE  /\ FreedTable(m, map, b.ptr) \in Table(m)
           /\ Good(m, TRUE, FreedTable(m, map, b.ptr), lv \ {b})
<1> DEFINE f == First(m, b)
           n == Nmemb(m, b.size)
           new == Cleared(m, map, b.ptr)
<1>1. /\ b.size \in Nat
      /\ b.size > 0
      /\ InPool(m, b)
  BY DEF Good, InPool, Held
<1>2. /\ f \in Nat
      /\ n \in Nat
      /\ n > 0
      /\ f + n <= TblSize[m]
      /\ b.ptr = f * BlkSize[m]
  BY <1>1, NmembRoom DEF InPool, Blocks
<1>3. map[f] = n
  BY <1>2 DEF Good, Span
<1> HIDE DEF f, n
<1>4. b.ptr < MemSize(m)
  <2>1. f + 1 <= TblSize[m]
    BY <1>2, PoolConstants
  <2>2. (f + 1) * BlkSize[m] <= TblSize[m] * BlkSize[m]
    BY <2>1, <1>2, PoolConstants, MulMono
  <2>3. (f + 1) * BlkSize[m] = f * BlkSize[m] + 1 * BlkSize[m]
    BY <1>2, PoolConstants, MulDist
  <2>4. f * BlkSize[m] \in Nat /\ TblSize[m] * BlkSize[m] \in Nat
    BY <1>2, PoolConstants
  <2> QED
    BY <2>2, <2>3, <2>4, <1>2, PoolConstants DEF MemSize
<1>5. \A i \in Blocks(m) :
        new[i] = IF i \in f .. (f + n - 1) THEN 0 ELSE map[i]
  BY <1>3 DEF Cleared, f, First
<1>6. new \in Table(m)
  BY PoolConstants DEF Cleared, Table
<1>7. FreedTable(m, map, b.ptr) = new
  BY <1>4 DEF FreedTable
<1>8. ASSUME NEW c \in lv \ {b}, NEW i \in Span(m, c)
      PROVE  /\ i \in Blocks(m)
             /\ i \notin f .. (f + n - 1)
  <2>1. /\ c.size \in Nat
        /\ InPool(m, c)
        /\ Clear(m, b, c)
    BY DEF Good, Held
  <2>2. /\ First(m, c) \in Nat
        /\ Nmemb(m, c.size) \in Nat
        /\ First(m, c) + Nmemb(m, c.size) <= TblSize[m]
    BY <2>1, NmembRoom DEF InPool, Blocks
  <2> QED
    BY <2>1, <2>2, <1>2, PoolConstants DEF Span, Blocks, Clear, f, n
<1>9. \A c \in lv \ {b} : \A i \in Span(m, c) : new[i] = Nmemb(m, c.size)
  BY <1>5, <1>8 DEF Good
<1>10. ASSUME NEW i \in Blocks(m), new[i] # 0
       PROVE  \E c \in lv \ {b} : i \in Span(m, c)
  <2>1. /\ i \notin f .. (f + n - 1)
        /\ map[i] # 0
    BY <1>5, <1>10
  <2>2. PICK c \in lv : i \in Span(m, c)
    BY <2>1 DEF Good
  <2>3. c # b
    BY <2>1, <2>2 DEF Span, f, n
  <2> QED
    BY <2>2, <2>3
<1>11. Good(m, TRUE, new, lv \ {b})
  BY <1>9, <1>10 DEF Good
<1> QED
  BY <1>6, <1>7, <1>11

-----------------------------------------------------------------------------
(* The invariant. *)

\* TypeOK and TableMatchesBlocks are inductive together.
IInv == TypeOK /\ TableMatchesBlocks

\* The per-pool reading of the invariant, over values.
AllGood(rdy, map, base, lv) ==
    /\ rdy \in [Pools -> BOOLEAN]
    /\ map = [m \in Pools |-> map[m]]
    /\ base = [m \in Pools |-> base[m]]
    /\ lv = [m \in Pools |-> lv[m]]
    /\ \A m \in Pools :
          /\ map[m] \in Table(m)
          /\ base[m] \in [Bytes(m) -> Data]
          /\ lv[m] \in SUBSET Held
          /\ Good(m, rdy[m], map[m], lv[m])

\* AllGood of the variables is the invariant, before and after a step.
LEMMA IInvByPool ==
    /\ IInv <=> AllGood(memrdy, memmap, membase, live)
    /\ IInv' <=> AllGood(memrdy', memmap', membase', live')
  BY DEF IInv, TypeOK, TableMatchesBlocks, ReadyIfUsed, BlocksInPool,
         SpansApart, EntriesTellLength, NoLeak, Table, Held, Good, InPool,
         Clear, AllGood, Blocks, Bytes, MemSize, Span, First, Nmemb

\* A step that leaves one pool good and the others alone keeps the invariant.
LEMMA StepInOnePool ==
    ASSUME IInv, NEW m \in Pools,
           NEW r \in BOOLEAN, NEW map \in Table(m),
           NEW base \in [Bytes(m) -> Data], NEW lv \in SUBSET Held,
           Good(m, r, map, lv),
           memrdy' = [memrdy EXCEPT ![m] = r],
           memmap' = [memmap EXCEPT ![m] = map],
           membase' = [membase EXCEPT ![m] = base],
           live' = [live EXCEPT ![m] = lv]
    PROVE  IInv'
<1>1. AllGood(memrdy, memmap, membase, live)
  BY IInvByPool
<1>2. AllGood(memrdy', memmap', membase', live')
  BY <1>1 DEF AllGood
<1> QED
  BY <1>2, IInvByPool

\* What an operation finds after the lazy initialisation.
LEMMA ReadyPool ==
    ASSUME IInv, NEW m \in Pools
    PROVE  /\ TableNow(m) \in Table(m)
           /\ BytesNow(m) \in [Bytes(m) -> Data]
           /\ live[m] \in SUBSET Held
           /\ Good(m, TRUE, TableNow(m), live[m])
           /\ live[m] # {} => memrdy[m] = TRUE
<1>1. /\ memrdy[m] \in BOOLEAN
      /\ memmap[m] \in Table(m)
      /\ membase[m] \in [Bytes(m) -> Data]
      /\ live[m] \in SUBSET Held
      /\ Good(m, memrdy[m], memmap[m], live[m])
  BY IInvByPool DEF AllGood
<1>2. CASE memrdy[m] = TRUE
  BY <1>1, <1>2 DEF TableNow, BytesNow
<1>3. CASE memrdy[m] = FALSE
  <2>1. live[m] = {}
    BY <1>1, <1>3 DEF Good
  <2>2. TableNow(m) = Zeroes(Blocks(m))
    BY <1>3 DEF TableNow
  <2>3. BytesNow(m) = Zeroes(Bytes(m))
    BY <1>3 DEF BytesNow
  <2>4. Zeroes(Bytes(m)) \in [Bytes(m) -> Data]
    BY ValueAssumption DEF ValueAssumption, Zeroes
  <2> QED
    BY <1>1, <2>1, <2>2, <2>3, <2>4, GoodFresh
<1> QED
  BY <1>1, <1>2, <1>3

\* The bytes after the copy of myrealloc are bytes.
LEMMA CopiedType ==
    ASSUME NEW m \in Pools, NEW base \in [Bytes(m) -> Data],
           NEW src, NEW dst, NEW n, NEW beyond \in Data
    PROVE  Copied(m, base, src, dst, n, beyond) \in [Bytes(m) -> Data]
  BY DEF Copied

\* The initial states satisfy the invariant, whatever junk the memory holds.
LEMMA InitIInv == Init => IInv
<1> SUFFICES ASSUME Init
             PROVE  AllGood(memrdy, memmap, membase, live)
  BY IInvByPool
<1>1. ASSUME NEW m \in Pools
      PROVE  /\ memmap[m] \in Table(m)
             /\ membase[m] \in [Bytes(m) -> Data]
             /\ live[m] \in SUBSET Held
             /\ Good(m, memrdy[m], memmap[m], live[m])
  <2>1. /\ memrdy[m] = FALSE
        /\ live[m] = {}
        /\ membase[m] \in [Bytes(m) -> Data]
        /\ memmap[m] \in [Blocks(m) -> Junk \cup {0}]
    BY DEF Init
  <2>2. memmap[m] \in Table(m)
    BY <2>1, PoolConstants DEF Table
  <2>3. Good(m, memrdy[m], memmap[m], live[m])
    BY <2>1 DEF Good
  <2> QED
    BY <2>1, <2>2, <2>3
<1> QED
  BY <1>1 DEF Init, AllGood

\* Every step keeps the invariant.
LEMMA NextIInv == IInv /\ [Next]_vars => IInv'
<1> SUFFICES ASSUME IInv, [Next]_vars
             PROVE  IInv'
  OBVIOUS
<1>1. CASE UNCHANGED vars
  BY <1>1, IInvByPool DEF vars
<1>2. ASSUME NEW m \in Pools, my_mem_init(m)
      PROVE  IInv'
  <2>1. live[m] = {}
    BY <1>2, ReadyPool DEF my_mem_init
  <2>2. Zeroes(Bytes(m)) \in [Bytes(m) -> Data]
    BY ValueAssumption DEF ValueAssumption, Zeroes
  <2>3. live' = [live EXCEPT ![m] = {}]
    BY <1>2, <2>1, IInvByPool DEF my_mem_init, AllGood
  <2>4. {} \in SUBSET Held
    OBVIOUS
  <2> QED
    BY <1>2, <2>2, <2>3, <2>4, GoodFresh, StepInOnePool DEF my_mem_init
<1>3. ASSUME NEW m \in Pools, NEW size \in Sizes, mymalloc(m, size)
      PROVE  IInv'
  <2> DEFINE map == TableNow(m)
             n   == Nmemb(m, size)
  <2>1. size \in Nat /\ size # 0
    BY <1>3, ValueAssumption DEF ValueAssumption, mymalloc
  <2>2. PICK o \in Blocks(m) :
           /\ IsHighestGap(m, map, n, o)
           /\ memmap' = [memmap EXCEPT ![m] = Marked(m, map, o, n)]
           /\ live' = [live EXCEPT ![m] =
                           @ \cup {Handle(m, o, size)}]
    BY <1>3 DEF mymalloc
  <2> DEFINE b == Handle(m, o, size)
  <2>3. o \in Gaps(m, map, n)
    BY <2>2 DEF IsHighestGap
  <2>4. /\ map \in Table(m)
        /\ BytesNow(m) \in [Bytes(m) -> Data]
        /\ live[m] \in SUBSET Held
        /\ Good(m, TRUE, map, live[m])
    BY ReadyPool
  <2>5. /\ Marked(m, map, o, n) \in Table(m)
        /\ Good(m, TRUE, Marked(m, map, o, n), live[m] \cup {b})
        /\ b \in Held
    <3> HIDE DEF map
    <3> QED
      BY <2>1, <2>3, <2>4, GoodMark
  <2>6. live[m] \cup {b} \in SUBSET Held
    BY <2>4, <2>5
  <2>7. live' = [live EXCEPT ![m] = live[m] \cup {b}]
    BY <2>2
  <2>8. /\ memrdy' = [memrdy EXCEPT ![m] = TRUE]
        /\ membase' = [membase EXCEPT ![m] = BytesNow(m)]
    BY <1>3 DEF mymalloc
  <2> HIDE DEF map, n, b
  <2> QED
    BY <2>2, <2>4, <2>5, <2>6, <2>7, <2>8, StepInOnePool
<1>4. ASSUME NEW m \in Pools, NEW size \in Sizes, mymallocFails(m, size)
      PROVE  IInv'
  <2>1. live' = [live EXCEPT ![m] = live[m]]
    BY <1>4, IInvByPool DEF mymallocFails, AllGood
  <2> QED
    BY <1>4, <2>1, ReadyPool, StepInOnePool DEF mymallocFails
<1>5. ASSUME NEW m \in Pools, NEW b \in live[m], myfree(m, b)
      PROVE  IInv'
  <2>1. /\ memrdy[m] = TRUE
        /\ TableNow(m) = memmap[m]
    BY ReadyPool DEF TableNow
  <2>2. /\ FreedTable(m, memmap[m], b.ptr) \in Table(m)
        /\ Good(m, TRUE, FreedTable(m, memmap[m], b.ptr), live[m] \ {b})
    BY <2>1, ReadyPool, GoodFree
  <2>3. memmap' = [memmap EXCEPT ![m] = FreedTable(m, memmap[m], b.ptr)]
    BY <1>5, <2>1 DEF myfree
  <2>4. live[m] \ {b} \in SUBSET Held
    BY ReadyPool
  <2> QED
    BY <1>5, <2>2, <2>3, <2>4, ReadyPool, StepInOnePool DEF myfree
<1>6. ASSUME NEW m \in Pools, NEW b \in live[m], NEW size \in Sizes,
             myrealloc(m, b, size)
      PROVE  IInv'
  <2> DEFINE n == Nmemb(m, size)
  <2>1. size \in Nat /\ size # 0
    BY <1>6, ValueAssumption DEF ValueAssumption, myrealloc
  <2>2. PICK o \in Blocks(m), beyond \in Data :
           /\ IsHighestGap(m, memmap[m], n, o)
           /\ membase' = [membase EXCEPT ![m] =
                Copied(m, @, b.ptr, o * BlkSize[m], size, beyond)]
           /\ memmap' = [memmap EXCEPT ![m] =
                FreedTable(m, Marked(m, @, o, n), b.ptr)]
           /\ live' = [live EXCEPT ![m] =
                (@ \ {b}) \cup {Handle(m, o, size)}]
    BY <1>6 DEF myrealloc
  <2> DEFINE c   == Handle(m, o, size)
             map == Marked(m, memmap[m], o, n)
             lv  == live[m] \cup {c}
  <2>3. /\ memrdy[m] = TRUE
        /\ memmap[m] \in Table(m)
        /\ membase[m] \in [Bytes(m) -> Data]
        /\ live[m] \in SUBSET Held
        /\ Good(m, TRUE, memmap[m], live[m])
    BY ReadyPool DEF TableNow, BytesNow
  <2>4. o \in Gaps(m, memmap[m], n)
    BY <2>2 DEF IsHighestGap
  <2>5. /\ map \in Table(m)
        /\ Good(m, TRUE, map, lv)
        /\ c \in Held
        /\ c \notin live[m]
    BY <2>1, <2>3, <2>4, GoodMark
  <2>6. lv \in SUBSET Held /\ b \in lv
    BY <2>3, <2>5
  <2> HIDE DEF map, lv
  <2>7. /\ FreedTable(m, map, b.ptr) \in Table(m)
        /\ Good(m, TRUE, FreedTable(m, map, b.ptr), lv \ {b})
    BY <2>5, <2>6, GoodFree
  <2>8. lv \ {b} = (live[m] \ {b}) \cup {c}
    BY <2>5 DEF lv
  <2>9. Copied(m, membase[m], b.ptr, o * BlkSize[m], size, beyond)
            \in [Bytes(m) -> Data]
    BY <2>3, CopiedType
  <2>10. memrdy' = [memrdy EXCEPT ![m] = TRUE]
    BY <1>6, <2>3, IInvByPool DEF myrealloc, AllGood
  <2>11. lv \ {b} \in SUBSET Held
    BY <2>6
  <2>12. /\ memmap' = [memmap EXCEPT ![m] = FreedTable(m, map, b.ptr)]
         /\ live' = [live EXCEPT ![m] = lv \ {b}]
         /\ membase' = [membase EXCEPT ![m] =
                Copied(m, membase[m], b.ptr, o * BlkSize[m], size, beyond)]
    BY <2>2, <2>8 DEF map
  <2> QED
    BY <2>7, <2>9, <2>10, <2>11, <2>12, StepInOnePool
<1>7. ASSUME NEW m \in Pools, NEW b \in live[m], NEW d \in Data,
             NEW i \in 0 .. (b.size - 1), ClientWrite(m, b, i, d)
      PROVE  IInv'
  <2>1. AllGood(memrdy, memmap, membase, live)
    BY IInvByPool
  <2>2. AllGood(memrdy', memmap', membase', live')
    BY <1>7, <2>1 DEF ClientWrite, AllGood
  <2> QED
    BY <2>2, IInvByPool
<1> QED
  BY <1>1, <1>2, <1>3, <1>4, <1>5, <1>6, <1>7 DEF Next

\* The tables, the bytes and the blocks handed out keep their types: no entry
\* ever exceeds the length of its table (malloc.c:250-358).
THEOREM AllocatorTypeCorrect == Spec => []TypeOK
  BY InitIInv, NextIInv, PTL DEF Spec, IInv

\* The table tells exactly which blocks are held and how long each is, in
\* every state of the allocator (malloc.c:250-358), for pools of any size.
THEOREM TableIsSound == Spec => []TableMatchesBlocks
  BY InitIInv, NextIInv, PTL DEF Spec, IInv

-----------------------------------------------------------------------------
(* The bytes: the allocator implements Heap. *)

\* A held block lies inside the pool byte for byte.
LEMMA BytesInPool ==
    ASSUME NEW m \in Pools, NEW b \in Held, InPool(m, b)
    PROVE  /\ b.ptr \in Nat
           /\ b.size \in Nat
           /\ b.size > 0
           /\ b.ptr + b.size <= MemSize(m)
           /\ MemSize(m) \in Nat
<1> DEFINE B == BlkSize[m]  f == First(m, b)  n == Nmemb(m, b.size)
<1>1. /\ b.ptr \in Nat /\ b.size \in Nat /\ b.size > 0
      /\ f \in Nat
      /\ b.ptr = f * B
      /\ f + n <= TblSize[m]
  BY PoolConstants DEF Held, InPool, Blocks
<1>2. n \in Nat /\ b.size <= n * B
  BY <1>1, NmembRoom
<1>3. B \in Nat /\ TblSize[m] \in Nat
  BY PoolConstants
<1> HIDE DEF B, f, n
<1>4. (f + n) * B <= TblSize[m] * B
  BY <1>1, <1>2, <1>3, MulMono
<1>5. (f + n) * B = f * B + n * B
  BY <1>1, <1>2, <1>3, MulDist
<1>6. MemSize(m) = TblSize[m] * B
  BY DEF MemSize, B
<1>7. f * B \in Nat /\ n * B \in Nat /\ TblSize[m] * B \in Nat
  BY <1>1, <1>2, <1>3
<1> QED
  BY <1>1, <1>2, <1>4, <1>5, <1>6, <1>7

\* Blocks with no table entry in common have no byte in common.
LEMMA BytesApart ==
    ASSUME NEW m \in Pools, NEW b \in Held, NEW c \in Held,
           InPool(m, b), InPool(m, c),
           First(m, b) + Nmemb(m, b.size) <= First(m, c)
    PROVE  b.ptr + b.size <= c.ptr
<1> DEFINE B == BlkSize[m]  f == First(m, b)  n == Nmemb(m, b.size)
           g == First(m, c)
<1>1. /\ b.size \in Nat
      /\ f \in Nat
      /\ g \in Nat
      /\ b.ptr = f * B
      /\ c.ptr = g * B
  BY PoolConstants DEF Held, InPool, Blocks
<1>2. n \in Nat /\ b.size <= n * B
  BY <1>1, NmembRoom
<1>3. B \in Nat
  BY PoolConstants
<1>4. f + n <= g
  OBVIOUS
<1> HIDE DEF B, f, n, g
<1>5. (f + n) * B <= g * B
  BY <1>1, <1>2, <1>3, <1>4, MulMono
<1>6. (f + n) * B = f * B + n * B
  BY <1>1, <1>2, <1>3, MulDist
<1>7. f * B \in Nat /\ n * B \in Nat /\ g * B \in Nat
  BY <1>1, <1>2, <1>3
<1> QED
  BY <1>1, <1>2, <1>5, <1>6, <1>7

\* Any two different held blocks of a good pool are apart in bytes.
LEMMA HeldApart ==
    ASSUME NEW m \in Pools, NEW map, NEW lv \in SUBSET Held,
           Good(m, TRUE, map, lv), NEW b \in lv, NEW c \in lv, b # c
    PROVE  /\ b.ptr + b.size <= c.ptr \/ c.ptr + c.size <= b.ptr
           /\ b.ptr # c.ptr
<1>1. /\ InPool(m, b) /\ InPool(m, c)
      /\ Clear(m, b, c)
      /\ b \in Held /\ c \in Held
  BY DEF Good
<1>2. b.ptr + b.size <= c.ptr \/ c.ptr + c.size <= b.ptr
  BY <1>1, BytesApart DEF Clear
<1>3. /\ b.ptr \in Nat /\ c.ptr \in Nat
      /\ b.size \in Nat /\ c.size \in Nat
      /\ b.size > 0 /\ c.size > 0
  BY <1>1, BytesInPool
<1> QED
  BY <1>2, <1>3

\* An object does not change when the bytes of its block do not.
LEMMA SameObject ==
    ASSUME NEW base, NEW new, NEW b \in Held,
           \A j \in b.ptr .. (b.ptr + b.size - 1) : new[j] = base[j]
    PROVE  ObjectOf(new, b) = ObjectOf(base, b)
<1>1. b.ptr \in Nat /\ b.size \in Nat
  BY DEF Held
<1>2. \A i \in 0 .. (b.size - 1) : b.ptr + i \in b.ptr .. (b.ptr + b.size - 1)
  BY <1>1
<1>3. \A i \in 0 .. (b.size - 1) : new[b.ptr + i] = base[b.ptr + i]
  BY <1>2
<1> QED
  BY <1>3 DEF ObjectOf

\* Replacing a held block b by nothing, or by a block c whose bytes the other
\* holders do not own, changes exactly b's object.
LEMMA OthersKeep ==
    ASSUME NEW lv, NEW b \in lv, NEW base, NEW new,
           \A c \in lv \ {b} : /\ c.ptr # b.ptr
                               /\ ObjectOf(new, c) = ObjectOf(base, c)
    PROVE  ObjectsOf(new, lv \ {b}) = ObjectsOf(base, lv) \ {ObjectOf(base, b)}
<1>1. ObjectsOf(new, lv \ {b}) = ObjectsOf(base, lv \ {b})
  BY DEF ObjectsOf
<1>2. ASSUME NEW c \in lv \ {b}
      PROVE  ObjectOf(base, c) # ObjectOf(base, b)
  <2>1. ObjectOf(base, c).ptr = c.ptr /\ ObjectOf(base, b).ptr = b.ptr
    BY DEF ObjectOf
  <2> QED
    BY <2>1
<1> QED
  BY <1>1, <1>2 DEF ObjectsOf

\* The heap of the clients after a step in pool m.
LEMMA ViewStep ==
    ASSUME IInv, NEW m \in Pools, NEW base, NEW lv,
           membase' = [membase EXCEPT ![m] = base],
           live' = [live EXCEPT ![m] = lv]
    PROVE  HeapView' = [HeapView EXCEPT ![m] = ObjectsOf(base, lv)]
<1>1. /\ membase = [p \in Pools |-> membase[p]]
      /\ live = [p \in Pools |-> live[p]]
  BY DEF IInv, TypeOK
<1>2. /\ membase'[m] = base
      /\ live'[m] = lv
      /\ \A p \in Pools \ {m} : membase'[p] = membase[p] /\ live'[p] = live[p]
  BY <1>1
<1>3. HeapView' = [p \in Pools |-> ObjectsOf(membase'[p], live'[p])]
  BY DEF HeapView, ObjectsOf, ObjectOf
<1>4. HeapView = [p \in Pools |-> ObjectsOf(membase[p], live[p])]
  BY DEF HeapView
<1> QED
  BY <1>2, <1>3, <1>4

\* The lazy initialisation is invisible: nobody holds a block of that pool.
LEMMA ViewNow ==
    ASSUME IInv, NEW m \in Pools
    PROVE  ObjectsOf(BytesNow(m), live[m]) = HeapView[m]
<1>1. HeapView[m] = ObjectsOf(membase[m], live[m])
  BY DEF HeapView
<1>2. CASE live[m] = {}
  BY <1>1, <1>2 DEF ObjectsOf
<1>3. CASE live[m] # {}
  BY <1>1, <1>3, ReadyPool DEF BytesNow
<1> QED
  BY <1>2, <1>3

\* A block of a gap is placed clear of every object.
LEMMA NewPlaced ==
    ASSUME NEW m \in Pools, NEW map \in Table(m), NEW lv \in SUBSET Held,
           Good(m, TRUE, map, lv),
           NEW s \in Nat, s # 0,
           NEW o \in Gaps(m, map, Nmemb(m, s)), NEW old, NEW base
    PROVE  Abstract!Placed(m, ObjectOf(base, Handle(m, o, s)),
                           ObjectsOf(old, lv))
<1> DEFINE b == Handle(m, o, s)
           lw == lv \cup {b}
           mw == Marked(m, map, o, Nmemb(m, s))
<1>1. /\ Good(m, TRUE, mw, lw)
      /\ b \in Held
      /\ b \notin lv
  BY GoodMark
<1>2. lw \in SUBSET Held /\ b \in lw
  BY <1>1
<1> HIDE DEF b, mw
<1>3. /\ b.ptr \in Nat
      /\ b.size \in Nat
      /\ b.size > 0
      /\ b.ptr + b.size <= MemSize(m)
  BY <1>1, <1>2, BytesInPool DEF Good
<1>4. ASSUME NEW c \in lv
      PROVE  b.ptr + b.size <= c.ptr \/ c.ptr + c.size <= b.ptr
  <2>1. c \in lw /\ c # b
    BY <1>1
  <2> QED
    BY <1>1, <1>2, <2>1, HeldApart
<1>5. ASSUME NEW c \in lv
      PROVE  Abstract!Apart(ObjectOf(old, c), ObjectOf(base, b))
  BY <1>4 DEF Abstract!Apart, ObjectOf
<1>6. HeapLimit[m] = MemSize(m)
  BY DEF HeapLimit
<1>7. ObjectOf(base, b).ptr = b.ptr /\ ObjectOf(base, b).size = b.size
  BY DEF ObjectOf
<1> QED
  BY <1>3, <1>5, <1>6, <1>7 DEF Abstract!Placed, ObjectsOf, b

\* mymalloc is Alloc.
LEMMA MallocAllocs ==
    ASSUME IInv, NEW m \in Pools, NEW size \in Sizes, mymalloc(m, size)
    PROVE  Abstract!Alloc(m)
<1> DEFINE map == TableNow(m)
<1>1. size \in Nat /\ size # 0
  BY ValueAssumption DEF ValueAssumption, mymalloc
<1>2. PICK o \in Blocks(m) :
         /\ IsHighestGap(m, map, Nmemb(m, size), o)
         /\ live' = [live EXCEPT ![m] = @ \cup {Handle(m, o, size)}]
  BY DEF mymalloc
<1> DEFINE n == ObjectOf(BytesNow(m), Handle(m, o, size))
<1>3. o \in Gaps(m, map, Nmemb(m, size))
  BY <1>2 DEF IsHighestGap
<1>4. Abstract!Placed(m, n, ObjectsOf(BytesNow(m), live[m]))
  <2> HIDE DEF map
  <2> QED
    BY <1>1, <1>3, ReadyPool, NewPlaced DEF map
<1>5. HeapView' = [HeapView EXCEPT ![m] =
          ObjectsOf(BytesNow(m), live[m] \cup {Handle(m, o, size)})]
  <2>1. membase' = [membase EXCEPT ![m] = BytesNow(m)]
    BY DEF mymalloc
  <2>2. live' = [live EXCEPT ![m] = live[m] \cup {Handle(m, o, size)}]
    BY <1>2
  <2> QED
    BY <2>1, <2>2, ViewStep
<1>6. ObjectsOf(BytesNow(m), live[m] \cup {Handle(m, o, size)})
        = HeapView[m] \cup {n}
  BY ViewNow DEF ObjectsOf
<1>7. HeapView' = [HeapView EXCEPT ![m] = @ \cup {n}]
  BY <1>5, <1>6
<1>8. n \in HeapView'[m]
  BY <1>7 DEF HeapView
<1> HIDE DEF n
<1> QED
  BY <1>4, <1>7, <1>8, ViewNow DEF Abstract!Alloc

\* myfree is Free.
LEMMA FreeFrees ==
    ASSUME IInv, NEW m \in Pools, NEW b \in live[m], myfree(m, b)
    PROVE  \E o \in HeapView[m] : Abstract!Free(m, o)
<1> DEFINE o == ObjectOf(membase[m], b)
<1>1. /\ memrdy[m] = TRUE
      /\ BytesNow(m) = membase[m]
      /\ live[m] \in SUBSET Held
      /\ Good(m, TRUE, TableNow(m), live[m])
  BY ReadyPool DEF BytesNow
<1>2. HeapView' = [HeapView EXCEPT ![m] =
                      ObjectsOf(membase[m], live[m] \ {b})]
  BY <1>1, ViewStep DEF myfree
<1>3. ObjectsOf(membase[m], live[m] \ {b})
        = ObjectsOf(membase[m], live[m]) \ {o}
  <2>1. \A c \in live[m] \ {b} : c.ptr # b.ptr
    BY <1>1, HeldApart
  <2> QED
    BY <2>1, OthersKeep
<1>4. HeapView[m] = ObjectsOf(membase[m], live[m])
  BY DEF HeapView
<1>5. o \in HeapView[m]
  BY <1>4 DEF ObjectsOf
<1> HIDE DEF o
<1> QED
  BY <1>2, <1>3, <1>4, <1>5 DEF Abstract!Free

\* The common prefix survives the copy: the new block is clear of the old one.
LEMMA CopyKeepsPrefix ==
    ASSUME NEW m \in Pools, NEW base, NEW src \in Nat, NEW dst \in Nat,
           NEW n \in Nat, NEW beyond, NEW i \in Nat, i < n,
           MemSize(m) \in Nat,
           src + i < MemSize(m), dst + n <= MemSize(m),
           src + i < dst \/ dst + n <= src,
           NEW j, j = dst + i
    PROVE  Copied(m, base, src, dst, n, beyond)[j] = base[src + i]
<1>1. dst + i \in Bytes(m) /\ src + i \in Bytes(m)
  BY DEF Bytes
<1>2. dst + i \in dst .. (dst + n - 1) /\ (dst + i) - dst = i
  OBVIOUS
<1>3. CopySource(src, dst, i) = src + i
  <2>1. CASE src < dst
    <3>1. dst - src \in Nat /\ i < dst - src
      BY <2>1
    <3>2. i % (dst - src) = i
      BY <3>1
    <3> QED
      BY <2>1, <3>2 DEF CopySource
  <2>2. CASE ~(src < dst)
    BY <2>2 DEF CopySource
  <2> QED
    BY <2>1, <2>2
<1> QED
  BY <1>1, <1>2, <1>3 DEF Copied

\* myrealloc is Realloc.
LEMMA ReallocReallocs ==
    ASSUME IInv, NEW m \in Pools, NEW b \in live[m], NEW size \in Sizes,
           myrealloc(m, b, size)
    PROVE  \E o \in HeapView[m] : Abstract!Realloc(m, o)
<1> DEFINE base == membase[m]
           lv   == live[m]
           map  == memmap[m]
<1>1. size \in Nat /\ size # 0
  BY ValueAssumption DEF ValueAssumption, myrealloc
<1>2. PICK g \in Blocks(m), beyond \in Data :
         /\ IsHighestGap(m, memmap[m], Nmemb(m, size), g)
         /\ membase' = [membase EXCEPT ![m] =
                Copied(m, @, b.ptr, g * BlkSize[m], size, beyond)]
         /\ live' = [live EXCEPT ![m] =
                (@ \ {b}) \cup {Handle(m, g, size)}]
  BY DEF myrealloc
<1> DEFINE c   == Handle(m, g, size)
           new == Copied(m, base, b.ptr, c.ptr, size, beyond)
           o   == ObjectOf(base, b)
           n   == ObjectOf(new, c)
<1>3. c.ptr = g * BlkSize[m] /\ c.size = size
  BY DEF Handle
<1>4. /\ map \in Table(m)
      /\ lv \in SUBSET Held
      /\ Good(m, TRUE, map, lv)
  BY ReadyPool DEF TableNow
<1>5. g \in Gaps(m, map, Nmemb(m, size))
  BY <1>2 DEF IsHighestGap
<1>6. /\ c \in Held
      /\ c \notin lv
      /\ Good(m, TRUE, Marked(m, map, g, Nmemb(m, size)), lv \cup {c})
  BY <1>1, <1>4, <1>5, GoodMark
<1>7. Abstract!Placed(m, n, ObjectsOf(base, lv))
  <2> HIDE DEF base, lv, map, new
  <2> QED
    BY <1>1, <1>4, <1>5, NewPlaced
<1>8. HeapView' = [HeapView EXCEPT ![m] = ObjectsOf(new, (lv \ {b}) \cup {c})]
  <2>1. /\ membase' = [membase EXCEPT ![m] = new]
        /\ live' = [live EXCEPT ![m] = (lv \ {b}) \cup {c}]
    BY <1>2, <1>3
  <2> HIDE DEF new, lv, c
  <2> QED
    BY <2>1, ViewStep
<1>9. HeapView[m] = ObjectsOf(base, lv)
  BY DEF HeapView
<1>10. o \in HeapView[m]
  BY <1>9 DEF ObjectsOf
<1> DEFINE lw == lv \cup {c}
           mw == Marked(m, map, g, Nmemb(m, size))
<1>11. /\ lw \in SUBSET Held
       /\ b \in lw /\ c \in lw
       /\ b # c
       /\ Good(m, TRUE, mw, lw)
  BY <1>4, <1>6
<1> HIDE DEF base, lv, map, c, mw
<1>12. ASSUME NEW d \in lw
       PROVE  /\ d.ptr \in Nat /\ d.size \in Nat /\ d.size > 0
              /\ d.ptr + d.size <= MemSize(m)
              /\ MemSize(m) \in Nat
  BY <1>11, BytesInPool DEF Good
<1>13. ASSUME NEW d \in lv
       PROVE  /\ d \in lw
              /\ d.ptr + d.size <= c.ptr \/ c.ptr + c.size <= d.ptr
  BY <1>6, <1>11, HeldApart
<1>14. ASSUME NEW d \in lv
       PROVE  ObjectOf(new, d) = ObjectOf(base, d)
  <2>1. ASSUME NEW j \in d.ptr .. (d.ptr + d.size - 1)
        PROVE  new[j] = base[j]
    <3>1. j \in Bytes(m) /\ j \notin c.ptr .. (c.ptr + size - 1)
      BY <1>1, <1>3, <1>11, <1>12, <1>13 DEF Bytes, c
    <3> QED
      BY <3>1 DEF Copied
  <2>2. d \in Held
    BY <1>4
  <2> HIDE DEF new
  <2> QED
    BY <2>1, <2>2, SameObject
<1>15. ObjectsOf(new, lv \ {b}) = ObjectsOf(base, lv) \ {o}
  <2> HIDE DEF new
  <2>1. b \in lv
    BY DEF lv
  <2>2. \A d \in lv \ {b} : ObjectOf(new, d) = ObjectOf(base, d)
    BY <1>14
  <2>3. \A d \in lv \ {b} : d.ptr # b.ptr
    BY <1>4, <2>1, HeldApart
  <2> QED
    BY <2>1, <2>2, <2>3, OthersKeep
<1>16. HeapView' = [HeapView EXCEPT ![m] = (@ \ {o}) \cup {n}]
  <2>1. ObjectsOf(new, (lv \ {b}) \cup {c}) = ObjectsOf(new, lv \ {b}) \cup {n}
    BY DEF ObjectsOf
  <2> HIDE DEF new, o, n
  <2> QED
    BY <1>8, <1>9, <1>15, <2>1
<1>17. ASSUME NEW i \in 0 .. (o.size - 1), i < n.size
       PROVE  n.data[i] = o.data[i]
  <2>1. o.size = b.size /\ n.size = c.size /\ c.size = size
    BY <1>3 DEF ObjectOf, c
  <2>2. b \in lv
    BY DEF lv
  <2>3. /\ b.ptr \in Nat /\ b.size \in Nat /\ c.ptr \in Nat
        /\ b.ptr + b.size <= MemSize(m)
        /\ c.ptr + size <= MemSize(m)
        /\ MemSize(m) \in Nat
        /\ b.ptr + b.size <= c.ptr \/ c.ptr + size <= b.ptr
    BY <1>11, <1>12, <1>13, <2>1, <2>2
  <2>4. i \in Nat /\ i < b.size /\ i < size
    BY <1>17, <2>1, <2>3
  <2>5. new[c.ptr + i] = base[b.ptr + i]
    <3>1. /\ b.ptr + i < MemSize(m)
          /\ b.ptr + i < c.ptr \/ c.ptr + size <= b.ptr
      BY <1>1, <2>3, <2>4
    <3> DEFINE src == b.ptr  dst == c.ptr  j == dst + i
    <3>2. /\ src \in Nat /\ dst \in Nat /\ i \in Nat /\ size \in Nat
          /\ i < size /\ MemSize(m) \in Nat
          /\ src + i < MemSize(m) /\ dst + size <= MemSize(m)
          /\ src + i < dst \/ dst + size <= src
          /\ j = dst + i
      BY <1>1, <2>3, <2>4, <3>1
    <3> HIDE DEF src, dst, j
    <3>3. Copied(m, base, src, dst, size, beyond)[j] = base[src + i]
      BY <3>2, CopyKeepsPrefix
    <3> QED
      BY <3>3 DEF src, dst, j
  <2>6. n.data[i] = new[c.ptr + i] /\ o.data[i] = base[b.ptr + i]
    <3> HIDE DEF new
    <3> QED
      BY <1>1, <2>1, <2>3, <2>4 DEF ObjectOf
  <2> QED
    BY <2>5, <2>6
<1>18. n \in HeapView'[m]
  BY <1>16 DEF HeapView
<1> HIDE DEF o, n
<1> QED
  BY <1>7, <1>9, <1>10, <1>16, <1>17, <1>18 DEF Abstract!Realloc

\* A store by the owner is Write.
LEMMA WriteWrites ==
    ASSUME IInv, NEW m \in Pools, NEW b \in live[m], NEW d \in Data,
           NEW i \in 0 .. (b.size - 1), ClientWrite(m, b, i, d)
    PROVE  \E o \in HeapView[m] : Abstract!Write(m, o)
<1> DEFINE base == membase[m]
           lv   == live[m]
           new  == [base EXCEPT ![b.ptr + i] = d]
           o    == ObjectOf(base, b)
           n    == ObjectOf(new, b)
<1>1. /\ lv \in SUBSET Held
      /\ Good(m, TRUE, TableNow(m), lv)
      /\ base \in [Bytes(m) -> Data]
      /\ b \in lv
  BY ReadyPool DEF BytesNow
<1>2. /\ membase' = [membase EXCEPT ![m] = new]
      /\ live' = [live EXCEPT ![m] = lv]
  BY DEF ClientWrite, IInv, TypeOK
<1>3. HeapView' = [HeapView EXCEPT ![m] = ObjectsOf(new, lv)]
  <2> HIDE DEF new, lv
  <2> QED
    BY <1>2, ViewStep
<1>4. HeapView[m] = ObjectsOf(base, lv)
  BY DEF HeapView
<1>5. o \in HeapView[m]
  BY <1>1, <1>4 DEF ObjectsOf
<1> HIDE DEF base, lv
<1>6. ASSUME NEW c \in lv
      PROVE  /\ c.ptr \in Nat /\ c.size \in Nat /\ c.size > 0
             /\ c.ptr + c.size <= MemSize(m)
             /\ MemSize(m) \in Nat
             /\ c \in Held
  BY <1>1, BytesInPool DEF Good
<1>7. i \in Nat /\ i < b.size /\ b.ptr + i \in Bytes(m)
  BY <1>1, <1>6 DEF Bytes
<1>8. ASSUME NEW c \in lv \ {b}
      PROVE  /\ c.ptr # b.ptr
             /\ ObjectOf(new, c) = ObjectOf(base, c)
  <2>1. c.ptr # b.ptr
    BY <1>1, HeldApart
  <2>2. b.ptr + b.size <= c.ptr \/ c.ptr + c.size <= b.ptr
    BY <1>1, HeldApart
  <2>3. ASSUME NEW j \in c.ptr .. (c.ptr + c.size - 1)
        PROVE  new[j] = base[j]
    <3>1. /\ c.ptr \in Nat /\ c.size \in Nat
          /\ b.ptr \in Nat /\ b.size \in Nat
          /\ c.ptr + c.size <= MemSize(m)
          /\ MemSize(m) \in Nat
      BY <1>1, <1>6
    <3>2. j \in Bytes(m)
      BY <3>1 DEF Bytes
    <3>3. j # b.ptr + i
      BY <1>7, <2>2, <3>1
    <3> QED
      BY <1>1, <3>2, <3>3
  <2>4. c \in Held
    BY <1>6
  <2> HIDE DEF new
  <2> QED
    BY <2>1, <2>3, <2>4, SameObject
<1>9. ObjectsOf(new, lv \ {b}) = ObjectsOf(base, lv) \ {o}
  <2> HIDE DEF new
  <2> QED
    BY <1>1, <1>8, OthersKeep
<1>10. ObjectsOf(new, lv) = ObjectsOf(new, lv \ {b}) \cup {n}
  <2> HIDE DEF new
  <2> QED
    BY <1>1 DEF ObjectsOf
<1>11. HeapView' = [HeapView EXCEPT ![m] = (@ \ {o}) \cup {n}]
  <2> HIDE DEF new, o, n
  <2> QED
    BY <1>3, <1>4, <1>9, <1>10
<1>12. n = [ptr |-> o.ptr, size |-> o.size, data |-> [o.data EXCEPT ![i] = d]]
  <2>1. ASSUME NEW k \in 0 .. (b.size - 1)
        PROVE  new[b.ptr + k] = IF k = i THEN d ELSE base[b.ptr + k]
    <3>1. b.ptr + k \in Bytes(m)
      BY <1>1, <1>6 DEF Bytes
    <3>2. b.ptr + k = b.ptr + i <=> k = i
      BY <1>1, <1>6
    <3> QED
      BY <1>1, <1>7, <3>1, <3>2
  <2> HIDE DEF new
  <2>2. n.data = [o.data EXCEPT ![i] = d]
    BY <2>1, <1>7 DEF ObjectOf
  <2> QED
    BY <2>2 DEF ObjectOf
<1>13. n \in HeapView'[m]
  BY <1>11 DEF HeapView
<1>14. o.size = b.size
  BY DEF ObjectOf
<1> HIDE DEF o, n
<1> QED
  BY <1>5, <1>11, <1>12, <1>13, <1>14 DEF Abstract!Write

-----------------------------------------------------------------------------

\* The clients' view does not change in a step that only initialises.
LEMMA InitIsStutter ==
    ASSUME IInv, NEW m \in Pools,
           membase' = [membase EXCEPT ![m] = BytesNow(m)],
           live' = live
    PROVE  HeapView' = HeapView
<1>1. live' = [live EXCEPT ![m] = live[m]]
  BY DEF IInv, TypeOK
<1>2. HeapView' = [HeapView EXCEPT ![m] = ObjectsOf(BytesNow(m), live[m])]
  BY <1>1, ViewStep
<1>3. HeapView' = [HeapView EXCEPT ![m] = HeapView[m]]
  BY <1>2, ViewNow
<1> QED
  BY <1>3 DEF HeapView

\* No operation of malloc.c does to the clients' memory anything that Heap
\* does not allow: blocks never overlap, bytes of a held block change only
\* when their owner writes them, and myrealloc keeps the common prefix.
THEOREM AllocatorImplementsHeap == Spec => ImplementsHeap
<1>1. Init => Abstract!HeapInit
  BY DEF Init, Abstract!HeapInit, HeapView, ObjectsOf
<1>2. IInv /\ [Next]_vars => [Abstract!HeapNext]_HeapView
  <2> SUFFICES ASSUME IInv, [Next]_vars
               PROVE  [Abstract!HeapNext]_HeapView
    OBVIOUS
  <2>1. CASE UNCHANGED vars
    BY <2>1 DEF vars, HeapView, ObjectsOf, ObjectOf
  <2>2. ASSUME NEW m \in Pools, my_mem_init(m)
        PROVE  HeapView' = HeapView
    BY <2>2, InitIsStutter DEF my_mem_init, BytesNow
  <2>3. ASSUME NEW m \in Pools, NEW size \in Sizes, mymalloc(m, size)
        PROVE  Abstract!HeapNext
    BY <2>3, MallocAllocs DEF Abstract!HeapNext
  <2>4. ASSUME NEW m \in Pools, NEW size \in Sizes, mymallocFails(m, size)
        PROVE  HeapView' = HeapView
    BY <2>4, InitIsStutter DEF mymallocFails
  <2>5. ASSUME NEW m \in Pools, NEW b \in live[m], myfree(m, b)
        PROVE  Abstract!HeapNext
    BY <2>5, FreeFrees DEF Abstract!HeapNext
  <2>6. ASSUME NEW m \in Pools, NEW b \in live[m], NEW size \in Sizes,
               myrealloc(m, b, size)
        PROVE  Abstract!HeapNext
    BY <2>6, ReallocReallocs DEF Abstract!HeapNext
  <2>7. ASSUME NEW m \in Pools, NEW b \in live[m], NEW d \in Data,
               NEW i \in 0 .. (b.size - 1), ClientWrite(m, b, i, d)
        PROVE  Abstract!HeapNext
    BY <2>7, WriteWrites DEF Abstract!HeapNext
  <2> QED
    BY <2>1, <2>2, <2>3, <2>4, <2>5, <2>6, <2>7 DEF Next
<1>3. Spec => []IInv
  BY InitIInv, NextIInv, PTL DEF Spec
<1> QED
  BY <1>1, <1>2, <1>3, PTL DEF Spec, ImplementsHeap, Abstract!HeapSpec

-----------------------------------------------------------------------------
(* The scan.  The recursive definition is compared with a closed form: the *)
(* largest hit at or below o when c free blocks lie above o.  The closed   *)
(* form satisfies the recursion, so a solution exists, and by the smallest *)
(* counterexample there is no other.                                       *)

\* A non-empty set of numbers below a bound has a largest element.
LEMMA HasLargest ==
    ASSUME NEW N \in Nat, NEW G \in SUBSET (0 .. N), G # {}
    PROVE  \E p \in G : \A q \in G : q <= p
<1> DEFINE T == {p .. N : p \in G}
           R == StrictSubsetOrdering(0 .. N)
<1>1. IsFiniteSet(0 .. N)
  <2>1. 0 \in Int /\ N \in Int
    OBVIOUS
  <2> QED BY <2>1, FS_Interval
<1>2. IsWellFoundedOn(R, FiniteSubsetsOf(0 .. N))
  BY FS_StrictSubsetOrderingWellFounded
<1>3. T \subseteq FiniteSubsetsOf(0 .. N)
  <2>1. \A p \in G : p .. N \in SUBSET (0 .. N)
    OBVIOUS
  <2>2. FiniteSubsetsOf(0 .. N) = SUBSET (0 .. N)
    BY <1>1, FS_FiniteSubsetsOfFinite
  <2> QED BY <2>1, <2>2
<1>4. T # {}
  <2>1. PICK p \in G : TRUE
    OBVIOUS
  <2>2. p .. N \in T
    OBVIOUS
  <2> QED BY <2>2
<1>5. PICK x \in T : \A y \in T : ~(<<y, x>> \in R)
  <2> HIDE DEF T, R
  <2> QED BY <1>2, <1>3, <1>4, WFMin
<1>6. PICK p \in G : x = p .. N
  OBVIOUS
<1>7. ASSUME NEW q \in G, ~(q <= p) PROVE FALSE
  <2>1. q .. N \in SUBSET (0 .. N) /\ p .. N \in SUBSET (0 .. N) /\ q \in Int /\ p \in Int
    OBVIOUS
  <2>2. q .. N \subseteq p .. N /\ q .. N # p .. N
    BY <1>7, <2>1
  <2>3. <<q .. N, p .. N>> \in R
    BY <2>1, <2>2 DEF StrictSubsetOrdering
  <2> QED BY <1>5, <1>6, <2>3
<1> QED
  BY <1>7

\* And a smallest one.
LEMMA HasSmallest ==
    ASSUME NEW N \in Nat, NEW G \in SUBSET (0 .. N), G # {}
    PROVE  \E p \in G : \A q \in G : p <= q
<1> DEFINE H == {N - p : p \in G}
<1>1. H \in SUBSET (0 .. N) /\ H # {}
  <2>1. \A p \in G : N - p \in 0 .. N
    OBVIOUS
  <2>2. H \in SUBSET (0 .. N)
    BY <2>1
  <2>3. PICK p \in G : TRUE
    OBVIOUS
  <2>4. N - p \in H
    OBVIOUS
  <2> QED BY <2>2, <2>4
<1>2. PICK h \in H : \A k \in H : k <= h
  <2> HIDE DEF H
  <2> QED BY <1>1, HasLargest
<1>3. PICK p \in G : h = N - p
  OBVIOUS
<1>4. ASSUME NEW q \in G PROVE p <= q
  <2>1. N - q <= N - p /\ p \in Int /\ q \in Int
    BY <1>2, <1>3
  <2> QED BY <2>1
<1> QED
  BY <1>4

\* Where n blocks at p <= o are free, counting c blocks above o as free.
Hits(map, n, o, c) ==
    {p \in 0 .. o : /\ p + n - 1 <= o + c
                    /\ \A i \in p .. (p + n - 1) : i <= o => map[i] = 0}

\* The highest of them, -1 when there is none: what the scan is to return.
Best(map, n, o, c) ==
    IF Hits(map, n, o, c) = {} THEN -1
    ELSE CHOOSE p \in Hits(map, n, o, c) : \A q \in Hits(map, n, o, c) : q <= p

\* The body of the recursion.
ScanStep(m, map, n, f) ==
    [o \in -1 .. (TblSize[m] - 1) |->
        [c \in 0 .. (n - 1) |->
            LET cmemb == IF map[o] = 0 THEN c + 1 ELSE 0
            IN  IF o = -1 THEN -1
                ELSE IF cmemb = n THEN o
                ELSE f[o - 1][cmemb]]]

\* MallocLoop is what its recursive function is at the last block.
LEMMA LoopIsScan ==
    ASSUME NEW m \in Pools, NEW map, NEW n \in Nat
    PROVE  MallocLoop(m, map, n)
             = (CHOOSE f : f = ScanStep(m, map, n, f))[TblSize[m] - 1][0]
BY DEF MallocLoop, ScanStep

\* Best is the largest hit.
LEMMA BestIsLargest ==
    ASSUME NEW map, NEW n \in Nat, NEW o \in Int, o >= -1, NEW c \in Nat,
           Hits(map, n, o, c) # {}
    PROVE  /\ Best(map, n, o, c) \in Hits(map, n, o, c)
           /\ \A q \in Hits(map, n, o, c) : q <= Best(map, n, o, c)
<1> DEFINE G == Hits(map, n, o, c)
<1>1. G \in SUBSET (0 .. o)
  BY DEF Hits
<1>2. o \in Nat
  <2>1. PICK p \in 0 .. o : TRUE
    BY <1>1
  <2> QED BY <2>1
<1>3. \E p \in G : \A q \in G : q <= p
  <2> HIDE DEF G
  <2> QED BY <1>1, <1>2, HasLargest DEF G
<1> QED
  BY <1>3 DEF Best

\* The closed form satisfies the recursion.
LEMMA BestRecurs ==
    ASSUME NEW map, NEW n \in Nat, n > 0, NEW o \in Nat, NEW c \in 0 .. (n - 1)
    PROVE  LET cmemb == IF map[o] = 0 THEN c + 1 ELSE 0
           IN  Best(map, n, o, c) = IF cmemb = n THEN o ELSE Best(map, n, o - 1, cmemb)
<1>1. c \in Nat
  OBVIOUS
<1>2. CASE map[o] = 0 /\ c + 1 = n
  <2>1. o \in Hits(map, n, o, c)
    <3>1. o \in 0 .. o /\ o + n - 1 <= o + c
      BY <1>1, <1>2
    <3>2. \A i \in o .. (o + n - 1) : i <= o => map[i] = 0
      BY <1>2
    <3> QED BY <3>1, <3>2 DEF Hits
  <2>2. \A q \in Hits(map, n, o, c) : q \in Int /\ q <= o
    BY DEF Hits
  <2>3. /\ Best(map, n, o, c) \in Hits(map, n, o, c)
        /\ \A q \in Hits(map, n, o, c) : q <= Best(map, n, o, c)
    BY <1>1, <2>1, BestIsLargest
  <2>4. Best(map, n, o, c) = o
    BY <2>1, <2>2, <2>3
  <2> QED BY <1>2, <2>4
<1>3. CASE map[o] = 0 /\ c + 1 # n
  <2>1. Hits(map, n, o, c) = Hits(map, n, o - 1, c + 1)
    <3>1. ASSUME NEW p \in Hits(map, n, o, c) PROVE p \in Hits(map, n, o - 1, c + 1)
      <4>1. /\ p \in 0 .. o /\ p + n - 1 <= o + c
            /\ \A i \in p .. (p + n - 1) : i <= o => map[i] = 0
        BY DEF Hits
      <4>2. p \in 0 .. (o - 1) /\ p + n - 1 <= (o - 1) + (c + 1)
        BY <1>1, <1>3, <4>1
      <4>3. \A i \in p .. (p + n - 1) : i <= o - 1 => map[i] = 0
        BY <4>1
      <4> QED BY <4>2, <4>3 DEF Hits
    <3>2. ASSUME NEW p \in Hits(map, n, o - 1, c + 1) PROVE p \in Hits(map, n, o, c)
      <4>1. /\ p \in 0 .. (o - 1) /\ p + n - 1 <= (o - 1) + (c + 1)
            /\ \A i \in p .. (p + n - 1) : i <= o - 1 => map[i] = 0
        BY DEF Hits
      <4>2. p \in 0 .. o /\ p + n - 1 <= o + c
        BY <1>1, <4>1
      <4>3. \A i \in p .. (p + n - 1) : i <= o => map[i] = 0
        <5> TAKE i \in p .. (p + n - 1)
        <5> HAVE i <= o
        <5>1. CASE i = o
          BY <1>3, <5>1
        <5>2. CASE i # o
          <6>1. i <= o - 1
            BY <4>1, <5>2
          <6> QED BY <4>1, <6>1
        <5> QED BY <5>1, <5>2
      <4> QED BY <4>2, <4>3 DEF Hits
    <3> QED BY <3>1, <3>2
  <2>2. Best(map, n, o, c) = Best(map, n, o - 1, c + 1)
    BY <2>1 DEF Best
  <2> QED BY <1>3, <2>2
<1>4. CASE map[o] # 0
  <2>1. Hits(map, n, o, c) = Hits(map, n, o - 1, 0)
    <3>1. ASSUME NEW p \in Hits(map, n, o, c) PROVE p \in Hits(map, n, o - 1, 0)
      <4>1. /\ p \in 0 .. o /\ p + n - 1 <= o + c
            /\ \A i \in p .. (p + n - 1) : i <= o => map[i] = 0
        BY DEF Hits
      <4>2. o \notin p .. (p + n - 1)
        BY <1>4, <4>1
      <4>3. p \in 0 .. (o - 1) /\ p + n - 1 <= (o - 1) + 0
        BY <4>1, <4>2
      <4>4. \A i \in p .. (p + n - 1) : i <= o - 1 => map[i] = 0
        BY <4>1
      <4> QED BY <4>3, <4>4 DEF Hits
    <3>2. ASSUME NEW p \in Hits(map, n, o - 1, 0) PROVE p \in Hits(map, n, o, c)
      <4>1. /\ p \in 0 .. (o - 1) /\ p + n - 1 <= (o - 1) + 0
            /\ \A i \in p .. (p + n - 1) : i <= o - 1 => map[i] = 0
        BY DEF Hits
      <4>2. p \in 0 .. o /\ p + n - 1 <= o + c
        BY <1>1, <4>1
      <4>3. \A i \in p .. (p + n - 1) : i <= o => map[i] = 0
        <5> TAKE i \in p .. (p + n - 1)
        <5>1. i <= o - 1
          BY <4>1
        <5> QED BY <4>1, <5>1
      <4> QED BY <4>2, <4>3 DEF Hits
    <3> QED BY <3>1, <3>2
  <2>2. Best(map, n, o, c) = Best(map, n, o - 1, 0)
    BY <2>1 DEF Best
  <2> QED BY <1>4, <2>2
<1> QED
  BY <1>2, <1>3, <1>4

\* Below the first block there is nothing to hit.
LEMMA BestEnds ==
    ASSUME NEW map, NEW n, NEW c
    PROVE  Best(map, n, -1, c) = -1
<1>1. Hits(map, n, -1, c) = {}
  BY DEF Hits
<1> QED
  BY <1>1 DEF Best

\* The scan computes the largest hit.
LEMMA ScanIsBest ==
    ASSUME NEW m \in Pools, NEW map, NEW n \in Nat, n > 0
    PROVE  MallocLoop(m, map, n) = Best(map, n, TblSize[m] - 1, 0)
<1> DEFINE D == -1 .. (TblSize[m] - 1)
           C == 0 .. (n - 1)
           g == [o \in D |-> [c \in C |-> Best(map, n, o, c)]]
           f == CHOOSE h : h = ScanStep(m, map, n, h)
           Cmemb(o, c) == IF map[o] = 0 THEN c + 1 ELSE 0
<1>0. TblSize[m] \in Nat /\ TblSize[m] > 0
  BY PoolConstants
<1>1. g = ScanStep(m, map, n, g)
  <2>1. ASSUME NEW o \in D, NEW c \in C
        PROVE  Best(map, n, o, c) = IF o = -1 THEN -1
                                    ELSE IF Cmemb(o, c) = n THEN o ELSE g[o - 1][Cmemb(o, c)]
    <3>1. CASE o = -1
      BY <3>1, BestEnds
    <3>2. CASE o # -1
      <4>1. o \in Nat /\ o - 1 \in D
        BY <1>0, <3>2
      <4>2. Best(map, n, o, c) = IF Cmemb(o, c) = n THEN o ELSE Best(map, n, o - 1, Cmemb(o, c))
        BY <4>1, BestRecurs
      <4>3. Cmemb(o, c) # n => Cmemb(o, c) \in C
        OBVIOUS
      <4>4. Cmemb(o, c) # n => g[o - 1][Cmemb(o, c)] = Best(map, n, o - 1, Cmemb(o, c))
        BY <4>1, <4>3
      <4> QED BY <3>2, <4>2, <4>4
    <3> QED BY <3>1, <3>2
  <2> QED BY <2>1 DEF ScanStep
<1>2. f = ScanStep(m, map, n, f)
  <2> HIDE DEF g
  <2> QED BY <1>1
<1> HIDE DEF f
<1>3. ASSUME NEW o \in D, NEW c \in C
      PROVE  f[o][c] = IF o = -1 THEN -1
                       ELSE IF Cmemb(o, c) = n THEN o ELSE f[o - 1][Cmemb(o, c)]
  BY <1>2 DEF ScanStep
<1> DEFINE Bad == {k \in 0 .. TblSize[m] : \E c \in C : f[k - 1][c] # Best(map, n, k - 1, c)}
<1>4. Bad = {}
  <2> SUFFICES ASSUME Bad # {} PROVE FALSE
    OBVIOUS
  <2>1. PICK k \in Bad : \A j \in Bad : k <= j
    <3>1. Bad \in SUBSET (0 .. TblSize[m])
      OBVIOUS
    <3> HIDE DEF Bad
    <3> QED BY <1>0, <3>1, HasSmallest
  <2>a. k \in 0 .. TblSize[m] /\ \E c \in C : f[k - 1][c] # Best(map, n, k - 1, c)
    OBVIOUS
  <2>2. PICK c \in C : f[k - 1][c] # Best(map, n, k - 1, c)
    BY <2>a
  <2>3. k - 1 \in D /\ k \in Nat
    BY <1>0, <2>a
  <2>4. CASE k = 0
    <3>1. k - 1 = -1
      BY <2>4
    <3>2. f[k - 1][c] = -1 /\ Best(map, n, k - 1, c) = -1
      BY <1>3, <2>3, <3>1, BestEnds
    <3> QED BY <2>2, <3>2
  <2>5. CASE k # 0
    <3> DEFINE o == k - 1
    <3>1. o \in Nat /\ o # -1 /\ o \in D /\ o \in 0 .. TblSize[m] /\ ~(k <= o)
      BY <1>0, <2>3, <2>5
    <3>2. o \notin Bad
      BY <2>1, <3>1
    <3>3. \A d \in C : f[o - 1][d] = Best(map, n, o - 1, d)
      BY <3>1, <3>2
    <3> HIDE DEF o, Bad
    <3>4. Cmemb(o, c) # n => Cmemb(o, c) \in C
      OBVIOUS
    <3>5. f[o][c] = IF Cmemb(o, c) = n THEN o ELSE f[o - 1][Cmemb(o, c)]
      BY <1>3, <3>1
    <3>6. Best(map, n, o, c) = IF Cmemb(o, c) = n THEN o ELSE Best(map, n, o - 1, Cmemb(o, c))
      BY <3>1, BestRecurs
    <3>7. f[o][c] = Best(map, n, o, c)
      BY <3>3, <3>4, <3>5, <3>6
    <3> QED BY <2>2, <3>7 DEF o
  <2> QED BY <2>4, <2>5
<1>5. f[TblSize[m] - 1][0] = Best(map, n, TblSize[m] - 1, 0)
  <2>1. TblSize[m] \in 0 .. TblSize[m] /\ 0 \in C
    BY <1>0
  <2> QED BY <1>4, <2>1
<1> QED
  BY <1>5, LoopIsScan DEF f

\* The scan of my_mem_malloc (malloc.c:283-296) finds the highest gap exactly
\* when there is one, for tables of any length and whatever they hold.
THEOREM ScanIsRight == Spec => []ScanFindsHighestGap
<1>1. ScanFindsHighestGap
  <2> SUFFICES ASSUME NEW m \in Pools, NEW n \in 1 .. (TblSize[m] + 1)
               PROVE  LET o == MallocLoop(m, memmap[m], n)
                      IN  IF Gaps(m, memmap[m], n) = {}
                          THEN o = -1
                          ELSE IsHighestGap(m, memmap[m], n, o)
    BY DEF ScanFindsHighestGap
  <2> DEFINE map == memmap[m]
             t == TblSize[m] - 1
  <2>0. TblSize[m] \in Nat /\ TblSize[m] > 0 /\ n \in Nat /\ n > 0
    BY PoolConstants
  <2>1. Gaps(m, map, n) = Hits(map, n, t, 0)
    <3> HIDE DEF map
    <3>1. \A p \in 0 .. t : /\ p + n <= TblSize[m] <=> p + n - 1 <= t + 0
                            /\ p + n <= TblSize[m] => \A i \in p .. (p + n - 1) : i <= t
      BY <2>0
    <3> QED BY <3>1 DEF Gaps, Hits, Blocks
  <2>2. MallocLoop(m, map, n) = Best(map, n, t, 0)
    BY <2>0, ScanIsBest
  <2>3. CASE Gaps(m, map, n) = {}
    BY <2>1, <2>2, <2>3 DEF Best
  <2>4. CASE Gaps(m, map, n) # {}
    <3>1. t \in Int /\ t >= -1
      BY <2>0
    <3> HIDE DEF map, t
    <3>2. /\ Best(map, n, t, 0) \in Hits(map, n, t, 0)
          /\ \A q \in Hits(map, n, t, 0) : q <= Best(map, n, t, 0)
      BY <2>0, <2>1, <2>4, <3>1, BestIsLargest
    <3> QED BY <2>1, <2>2, <2>4, <3>2 DEF IsHighestGap, map
  <2> QED BY <2>3, <2>4
<1> QED
  BY <1>1, PTL
=============================================================================
