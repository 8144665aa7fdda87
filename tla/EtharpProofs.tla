---------------------------- MODULE EtharpProofs ----------------------------
(***************************************************************************)
(* Proofs about the ARP table, for any hosts, any size of the table and of *)
(* the queues and any number of packets, with the handler at any place of  *)
(* the main loop's calls.                                                  *)
(***************************************************************************)
EXTENDS Etharp, FiniteSetTheorems, TLAPS

States == {"empty", "pending"} \cup Stable
PCs == {"idle", "tmr", "index", "recycle", "take", "mark", "test", "use",
        "append", "link"}

\* Type correctness of the table.
TypedTable ==
    /\ state \in [Slots -> States]
    /\ ipaddr \in [Slots -> Hosts \cup {None}] /\ ethaddr \in [Slots -> Macs \cup {None}]
    /\ ctime \in [Slots -> Nat] /\ queue \in [Slots -> Seq(Packet)]
    /\ heard \in [Hosts -> Macs \cup {None}]

\* Type correctness of the main loop's call.
TypedCall ==
    /\ pc \in PCs /\ cur \in Slots /\ hint \in Slots
    /\ pkt \in Packet \cup {None} /\ r \in BOOLEAN /\ handed \in Nat

\* A host has one entry at most.
Unique ==
    /\ \A i \in Slots : state[i] # "empty" => ipaddr[i] \in Hosts
    /\ \A i, j \in Slots :
          state[i] # "empty" /\ state[j] # "empty" /\ ipaddr[i] = ipaddr[j] => i = j

\* Resolved entries hold what was heard last and have not expired.
Fresh == \A i \in Resolved : ethaddr[i] = heard[ipaddr[i]] /\ ctime[i] < MaxAge

TableInv == TypedTable /\ Unique /\ StableHasNoQueue /\ Fresh

\* The packets of s are for h, in the order they were handed over, up to n.
Ordered(s, h, n) ==
    \A k \in 1 .. Len(s) :
        /\ s[k].ip = h /\ s[k].no <= n
        /\ \A l \in 1 .. (k - 1) : s[l].no < s[k].no

QueuesInOrder == \A i \in Slots : Ordered(queue[i], ipaddr[i], handed)

\* The places at which etharp_query has its entry and a packet for it.
WithPacket == {"index", "test", "use", "append", "link"}

\* What the call of the main loop knows of its entry at each place.
InHand ==
    /\ pc \in {"idle", "tmr"} <=> pkt = None
    /\ pkt # None => pkt.no <= handed
    /\ pc \in {"recycle", "take"} => Match(pkt.ip) = {}
    /\ pc = "take" => state[cur] = "empty"
    /\ pc \in WithPacket \cup {"mark"} => ipaddr[cur] = pkt.ip
    /\ pc \in WithPacket => state[cur] # "empty" /\ pkt.no # 0
    /\ pc = "mark" /\ state[cur] = "empty" => Match(pkt.ip) = {}
    /\ pc \in {"mark", "test", "append", "link"} /\ pkt.no # 0 =>
          Ordered(queue[cur], pkt.ip, pkt.no - 1)
    /\ pc \in {"index", "use"} => state[cur] \in Stable
    /\ pc = "index" => hint = cur
    /\ pc \in {"append", "link"} => state[cur] = "pending"
    /\ pc = "link" => (r <=> queue[cur] # << >>)

\* The element in the hands of etharp_query.
Taken == IF pc = "link" THEN 1 ELSE 0

PoolInv ==
    /\ qfree \in Int
    /\ qfree + Held(Slots) + Taken = PoolSize
    /\ \A i \in Slots : Len(queue[i]) <= QueueLen

Good == TypedCall /\ TableInv /\ QueuesInOrder /\ InHand /\ PoolInv /\ wrong = FALSE

IInv == ~raced => Good

-----------------------------------------------------------------------------

\* What the configuration of the port guarantees.
LEMMA Constants ==
    /\ TableSize \in Nat /\ TableSize > 0 /\ QueueLen \in Nat /\ QueueLen > 0
    /\ MaxAge \in Nat /\ MaxAge > 0 /\ 0 \in Slots /\ None \notin Hosts /\ None \notin Macs
    /\ None \notin Packet
BY EtharpAssumption DEF EtharpAssumption, Packet, Slots

\* The empty queue.
LEMMA EmptyOrdered ==
    ASSUME NEW h, NEW n
    PROVE  << >> \in Seq(Packet) /\ Ordered(<< >>, h, n)
BY DEF Ordered

\* Appending a younger packet to a queue, with or without dropping its head.
LEMMA EnqueuedOrdered ==
    ASSUME NEW s \in Seq(Packet), NEW p \in Packet, NEW h, NEW n \in Int,
           Ordered(s, h, n), p.ip = h, p.no > n
    PROVE  /\ Enqueued(s, p) \in Seq(Packet)
           /\ Ordered(Enqueued(s, p), h, p.no)
           /\ Enqueued(s, p) # << >>
<1>0. Len(s) \in Nat /\ \A k \in 1 .. Len(s) : s[k] \in Packet
  OBVIOUS
<1>1. Len(s) \in Nat /\ \A k \in 1 .. Len(s) : s[k].no \in Nat
  BY <1>0 DEF Packet
<1>2. p.no \in Nat
  BY DEF Packet
<1>3. \A k \in 1 .. Len(s) : s[k].ip = h /\ s[k].no <= n /\ \A l \in 1 .. (k - 1) : s[l].no < s[k].no
  BY DEF Ordered
<1>4. CASE Len(s) < QueueLen
  <2> DEFINE u == Append(s, p)
  <2>1. Enqueued(s, p) = u
    BY <1>1, <1>4, Constants DEF Enqueued
  <2>2. u \in Seq(Packet) /\ Len(u) = Len(s) + 1
    OBVIOUS
  <2>3. u[Len(s) + 1] = p /\ \A k \in 1 .. Len(s) : u[k] = s[k]
    BY <1>1
  <2> HIDE DEF u
  <2>4. Ordered(u, h, p.no)
    <3> SUFFICES ASSUME NEW k \in 1 .. (Len(s) + 1)
                 PROVE  /\ u[k].ip = h /\ u[k].no <= p.no
                        /\ \A l \in 1 .. (k - 1) : u[l].no < u[k].no
      BY <2>2 DEF Ordered
    <3>1. CASE k = Len(s) + 1
      <4>1. u[k] = p
        BY <2>3, <3>1
      <4>2. \A l \in 1 .. (k - 1) : u[l].no <= n /\ u[l].no \in Nat
        BY <1>1, <1>3, <2>3, <3>1
      <4> QED BY <1>2, <4>1, <4>2
    <3>2. CASE k \in 1 .. Len(s)
      <4>1. u[k] = s[k] /\ \A l \in 1 .. (k - 1) : l \in 1 .. Len(s) /\ u[l] = s[l]
        BY <1>1, <2>3, <3>2
      <4>2. u[k].no <= n /\ u[k].no \in Nat
        BY <1>1, <1>3, <3>2, <4>1
      <4> QED BY <1>2, <1>3, <3>2, <4>1, <4>2
    <3> QED BY <1>1, <3>1, <3>2
  <2> QED BY <1>1, <2>1, <2>2, <2>4
<1>5. CASE Len(s) >= QueueLen
  <2> DEFINE t == Tail(s)
             u == Append(t, p)
  <2>1. Enqueued(s, p) = u
    BY <1>5 DEF Enqueued
  <2>2. Len(s) >= 1 /\ s # << >>
    BY <1>1, <1>5, Constants
  <2>3. t \in Seq(Packet) /\ Len(t) = Len(s) - 1 /\ \A k \in 1 .. (Len(s) - 1) : t[k] = s[k + 1]
    BY <2>2
  <2> HIDE DEF t
  <2>4. u \in Seq(Packet) /\ Len(u) = Len(t) + 1
    BY <2>3
  <2>5. u[Len(t) + 1] = p /\ \A k \in 1 .. Len(t) : u[k] = t[k]
    BY <2>3
  <2> HIDE DEF u
  <2>6. \A k \in 1 .. (Len(s) - 1) : u[k] = s[k + 1]
    BY <1>1, <2>3, <2>5
  <2>7. Ordered(u, h, p.no)
    <3> SUFFICES ASSUME NEW k \in 1 .. Len(s)
                 PROVE  /\ u[k].ip = h /\ u[k].no <= p.no
                        /\ \A l \in 1 .. (k - 1) : u[l].no < u[k].no
      BY <1>1, <2>3, <2>4 DEF Ordered
    <3>1. CASE k = Len(s)
      <4>1. u[k] = p
        BY <1>1, <2>3, <2>5, <3>1
      <4>2. \A l \in 1 .. (k - 1) : u[l] = s[l + 1] /\ l + 1 \in 1 .. Len(s)
        BY <1>1, <2>6, <3>1
      <4>3. \A l \in 1 .. (k - 1) : u[l].no <= n /\ u[l].no \in Nat
        BY <1>1, <1>3, <4>2
      <4> QED BY <1>2, <4>1, <4>3
    <3>2. CASE k < Len(s)
      <4>1. k + 1 \in 1 .. Len(s) /\ u[k] = s[k + 1]
        BY <1>1, <2>6, <3>2
      <4>2. \A l \in 1 .. (k - 1) : u[l] = s[l + 1] /\ l + 1 \in 1 .. k
        BY <1>1, <2>6, <3>2
      <4> QED BY <1>1, <1>2, <1>3, <4>1, <4>2
    <3> QED BY <1>1, <3>1, <3>2
  <2> QED BY <1>1, <2>1, <2>3, <2>4, <2>7
<1> QED
  BY <1>1, <1>4, <1>5, Constants

\* The entry that is found is that of the host, if it has one.
LEMMA FoundSlot ==
    ASSUME NEW h, NEW i \in Slots, FindEntry(h, i)
    PROVE  Match(h) # {} => i \in Match(h)
BY DEF FindEntry, First

\* A transmission is right if the address is and nothing older waits.
LEMMA TransmitRight ==
    ASSUME NEW s, NEW mac, Transmit(s, mac), ~wrong,
           \A k \in 1 .. Len(s) :
              /\ mac = heard'[s[k].ip]
              /\ \A l \in 1 .. (k - 1) : ~(s[l].no >= s[k].no)
              /\ \A i \in Slots : \A m \in 1 .. Len(queue'[i]) :
                    ~(queue'[i][m].ip = s[k].ip /\ queue'[i][m].no <= s[k].no)
    PROVE  wrong' = FALSE
<1>1. ASSUME NEW p \in Waiting
      PROVE  \E i \in Slots : \E m \in 1 .. Len(queue'[i]) : p = queue'[i][m]
  BY DEF Waiting
<1> DEFINE Bad(k) == \/ mac # heard'[s[k].ip]
                     \/ \E l \in 1 .. (k - 1) : s[l].no >= s[k].no
                     \/ \E p \in Waiting : p.ip = s[k].ip /\ p.no <= s[k].no
<1>2. \A k \in 1 .. Len(s) : ~Bad(k)
  BY <1>1
<1>3. wrong' = (wrong \/ \E k \in 1 .. Len(s) : Bad(k))
  BY DEF Transmit
<1> HIDE DEF Bad
<1> QED
  BY <1>2, <1>3

\* Younger packets have been handed over since.
LEMMA OrderedLater ==
    ASSUME NEW s \in Seq(Packet), NEW h, NEW n \in Int, NEW m \in Int,
           n <= m, Ordered(s, h, n)
    PROVE  Ordered(s, h, m)
<1>1. \A k \in 1 .. Len(s) : s[k] \in Packet
  OBVIOUS
<1>2. \A k \in 1 .. Len(s) : s[k].no \in Nat
  BY <1>1 DEF Packet
<1> QED
  BY <1>2 DEF Ordered

-----------------------------------------------------------------------------
(* The pool of queue elements. *)

\* The elements of the queues in S, each by its slot and its place.
Elems(q, S) == {p \in S \X (1 .. (QueueLen + 1)) : p[2] <= Len(q[p[1]])}

\* The first n places of slot i.
Row(i, n) == {<<i, k>> : k \in 1 .. n}

\* A row has as many elements as its length.
LEMMA RowSize ==
    ASSUME NEW i, NEW n \in Nat
    PROVE  IsFiniteSet(Row(i, n)) /\ Cardinality(Row(i, n)) = n
<1> DEFINE f == [k \in 1 .. n |-> <<i, k>>]
<1>1. f \in Surjection(1 .. n, Row(i, n)) /\ f \in Injection(1 .. n, Row(i, n))
  BY DEF Row, Surjection, Injection, IsInjective
<1>2. 1 \in Int /\ n \in Int /\ (IF 1 > n THEN 0 ELSE n - 1 + 1) = n
  OBVIOUS
<1>3. IsFiniteSet(1 .. n) /\ Cardinality(1 .. n) = n
  BY <1>2, FS_Interval
<1> HIDE DEF f
<1> QED
  BY <1>1, <1>3, FS_Surjection

\* The queues hold finitely many elements.
LEMMA ElemsFinite ==
    ASSUME NEW q, NEW S \in SUBSET Slots
    PROVE  IsFiniteSet(Elems(q, S)) /\ Cardinality(Elems(q, S)) \in Nat
<1>1. 0 \in Int /\ 1 \in Int /\ TableSize - 1 \in Int /\ QueueLen + 1 \in Int
  BY Constants
<1>2. IsFiniteSet(0 .. (TableSize - 1)) /\ IsFiniteSet(1 .. (QueueLen + 1))
  BY <1>1, FS_Interval
<1>3. IsFiniteSet(S)
  BY <1>2, FS_Subset DEF Slots
<1>4. IsFiniteSet(S \X (1 .. (QueueLen + 1)))
  BY <1>2, <1>3, FS_Product
<1>5. Elems(q, S) \in SUBSET (S \X (1 .. (QueueLen + 1)))
  BY DEF Elems
<1>6. IsFiniteSet(Elems(q, S))
  BY <1>4, <1>5, FS_Subset
<1> QED
  BY <1>6, FS_CardinalityType

\* The elements outside slot i, and those of slot i.
LEMMA ElemsSplit ==
    ASSUME NEW q, NEW i \in Slots, q[i] \in Seq(Packet), Len(q[i]) <= QueueLen
    PROVE  Cardinality(Elems(q, Slots)) = Cardinality(Elems(q, Slots \ {i})) + Len(q[i])
<1>1. Len(q[i]) \in Nat
  OBVIOUS
<1>2. Elems(q, Slots) = Elems(q, Slots \ {i}) \cup Row(i, Len(q[i]))
  <2>1. \A k : k \in 1 .. Len(q[i]) <=> k \in 1 .. (QueueLen + 1) /\ k <= Len(q[i])
    BY <1>1, Constants
  <2>2. ASSUME NEW p \in Elems(q, Slots)
        PROVE  p \in Elems(q, Slots \ {i}) \cup Row(i, Len(q[i]))
    <3>1. p = <<p[1], p[2]>> /\ p[1] \in Slots /\ p[2] \in 1 .. (QueueLen + 1)
          /\ p[2] <= Len(q[p[1]])
      BY DEF Elems
    <3>2. CASE p[1] = i
      BY <2>1, <3>1, <3>2 DEF Row
    <3>3. CASE p[1] # i
      BY <3>1, <3>3 DEF Elems
    <3> QED BY <3>2, <3>3
  <2>3. Elems(q, Slots \ {i}) \subseteq Elems(q, Slots)
    BY DEF Elems
  <2>4. Row(i, Len(q[i])) \subseteq Elems(q, Slots)
    BY <2>1 DEF Row, Elems
  <2> QED BY <2>2, <2>3, <2>4
<1>3. Elems(q, Slots \ {i}) \cap Row(i, Len(q[i])) = {}
  BY DEF Row, Elems
<1>4. IsFiniteSet(Elems(q, Slots \ {i})) /\ Cardinality(Elems(q, Slots \ {i})) \in Nat
  BY ElemsFinite
<1>5. /\ IsFiniteSet(Row(i, Len(q[i])))
      /\ Cardinality(Row(i, Len(q[i]))) = Len(q[i])
  BY <1>1, RowSize
<1>6. Cardinality(Elems(q, Slots \ {i}) \cap Row(i, Len(q[i]))) = 0
  BY <1>3, FS_EmptySet
<1>7. QED
  <2> DEFINE A == Elems(q, Slots \ {i})
             B == Row(i, Len(q[i]))
  <2>1. Cardinality(A \cup B) = Cardinality(A) + Cardinality(B) - Cardinality(A \cap B)
    BY <1>4, <1>5, FS_Union
  <2> QED BY <1>1, <1>2, <1>4, <1>5, <1>6, <2>1

\* The same for every value of the queues, to be used before and after a step.
LEMMA ElemsSplitAll ==
    \A q, i : i \in Slots /\ q[i] \in Seq(Packet) /\ Len(q[i]) <= QueueLen
        => /\ Cardinality(Elems(q, Slots))
                 = Cardinality(Elems(q, Slots \ {i})) + Len(q[i])
           /\ Cardinality(Elems(q, Slots \ {i})) \in Nat
BY ElemsSplit, ElemsFinite

\* A step that changes the queue of slot i only moves as many elements as the
\* queue becomes longer or shorter; t and u are in the call's hands before and
\* after it.
LEMMA QueueChange ==
    ASSUME PoolInv, NEW i \in Slots, queue[i] \in Seq(Packet), queue'[i] \in Seq(Packet),
           \A j \in Slots : j # i => queue'[j] = queue[j],
           Len(queue'[i]) <= QueueLen,
           NEW t \in Nat, t = IF pc = "link" THEN 1 ELSE 0,
           NEW u \in Nat, u = IF pc' = "link" THEN 1 ELSE 0,
           qfree' = qfree + t - u + Len(queue[i]) - Len(queue'[i])
    PROVE  PoolInv'
<1> DEFINE a == Cardinality(Elems(queue, Slots))
           b == Cardinality(Elems(queue', Slots))
           c == Cardinality(Elems(queue, Slots \ {i}))
<1>1. a = c + Len(queue[i]) /\ c \in Nat
  BY ElemsSplitAll DEF PoolInv
<1>2. b = c + Len(queue'[i])
  <2>1. Elems(queue', Slots \ {i}) = Elems(queue, Slots \ {i})
    BY DEF Elems
  <2> QED BY <2>1, ElemsSplitAll
<1>3. Len(queue[i]) \in Nat /\ Len(queue'[i]) \in Nat
  OBVIOUS
<1>4. qfree \in Int /\ qfree + a + t = PoolSize
  BY DEF PoolInv, Taken, Held, Elems
<1>5. qfree' \in Int /\ qfree' + b + u = PoolSize
  <2>1. PICK m \in Nat, n \in Nat, d \in Nat :
          /\ m = Len(queue[i]) /\ n = Len(queue'[i]) /\ d = c
    BY <1>1, <1>3
  <2>2. b = d + n
    BY <1>2, <2>1
  <2>3. qfree \in Int /\ qfree + (d + m) + t = PoolSize
    BY <1>1, <1>4, <2>1
  <2>4. qfree' = qfree + t - u + m - n
    BY <2>1
  <2> HIDE DEF a, b, c
  <2>5. qfree' \in Int
    BY <2>3, <2>4
  <2>6. (qfree + t - u + m - n) + (d + n) + u = qfree + (d + m) + t
    BY <2>3
  <2>7. qfree' + (d + n) + u = PoolSize
    BY <2>3, <2>4, <2>6
  <2> QED BY <2>2, <2>5, <2>7
<1> HIDE DEF b
<1>6. \A j \in Slots : Len(queue'[j]) <= QueueLen
  BY DEF PoolInv
<1> QED
  BY <1>5, <1>6 DEF b, PoolInv, Taken, Held, Elems

\* A step that leaves the queues alone.
LEMMA QueueKept ==
    ASSUME PoolInv, queue' = queue,
           NEW t \in Nat, t = IF pc = "link" THEN 1 ELSE 0,
           NEW u \in Nat, u = IF pc' = "link" THEN 1 ELSE 0,
           qfree' = qfree + t - u
    PROVE  PoolInv'
<1> DEFINE a == Cardinality(Elems(queue, Slots))
<1>1. a \in Nat
  BY ElemsFinite
<1>2. qfree \in Int /\ qfree + a + t = PoolSize
  BY DEF PoolInv, Taken, Held, Elems
<1> HIDE DEF a
<1>3. qfree' \in Int /\ qfree' + a + u = PoolSize
  BY <1>1, <1>2
<1> QED
  BY <1>3 DEF a, PoolInv, Taken, Held, Elems


\* A step that touches neither the queues nor the pool.
LEMMA PoolKept ==
    ASSUME PoolInv, queue' = queue, qfree' = qfree, pc = "link" <=> pc' = "link"
    PROVE  PoolInv'
BY DEF PoolInv, Taken, Held

\* A step that frees the queue of slot i.
LEMMA QueueFreed ==
    ASSUME PoolInv, queue \in [Slots -> Seq(Packet)], NEW i \in Slots, free_etharp_q(i),
           pc = "link" <=> pc' = "link"
    PROVE  PoolInv'
<1>1. PICK t \in Nat : t = IF pc = "link" THEN 1 ELSE 0
  OBVIOUS
<1>2. t = IF pc' = "link" THEN 1 ELSE 0
  BY <1>1
<1>3. queue'[i] = << >> /\ \A j \in Slots : j # i => queue'[j] = queue[j]
  BY DEF free_etharp_q
<1>4. queue'[i] \in Seq(Packet) /\ Len(queue'[i]) = 0
  BY <1>3
<1>5. queue[i] \in Seq(Packet) /\ Len(queue[i]) \in Nat /\ qfree \in Int
  BY DEF PoolInv
<1>6. qfree' = qfree + t - t + Len(queue[i]) - Len(queue'[i])
  BY <1>4, <1>5 DEF free_etharp_q
<1>7. Len(queue'[i]) <= QueueLen
  BY <1>4, Constants
<1> QED
  BY <1>1, <1>2, <1>3, <1>4, <1>5, <1>6, <1>7, QueueChange
-----------------------------------------------------------------------------
(* The table. *)

\* Freeing entry i, by etharp_tmr or to recycle it.
LEMMA FreeStep ==
    ASSUME TableInv, QueuesInOrder, NEW i \in Slots, FreeEntry(i), handed' = handed
    PROVE  /\ TableInv' /\ QueuesInOrder'
           /\ \A j \in Slots : /\ state'[j] = IF j = i THEN "empty" ELSE state[j]
                               /\ ipaddr'[j] = IF j = i THEN None ELSE ipaddr[j]
                               /\ queue'[j] = IF j = i THEN << >> ELSE queue[j]
<1>1. /\ \A j \in Slots : /\ state'[j] = IF j = i THEN "empty" ELSE state[j]
                          /\ ipaddr'[j] = IF j = i THEN None ELSE ipaddr[j]
                          /\ ethaddr'[j] = IF j = i THEN None ELSE ethaddr[j]
                          /\ ctime'[j] = IF j = i THEN 0 ELSE ctime[j]
      /\ state' \in [Slots -> States]
  BY DEF FreeEntry, TableInv, TypedTable, States
<1>2. \A j \in Slots : queue'[j] = IF j = i THEN << >> ELSE queue[j]
  BY DEF FreeEntry, free_etharp_q, TableInv, TypedTable
<1>3. \A g \in Hosts : heard'[g] = IF i \in Match(g) THEN None ELSE heard[g]
  BY DEF FreeEntry, Forget
<1>4. TypedTable'
  <2>1. ipaddr' \in [Slots -> Hosts \cup {None}] /\ ethaddr' \in [Slots -> Macs \cup {None}]
    BY DEF FreeEntry, TableInv, TypedTable
  <2>2. ctime' \in [Slots -> Nat]
    BY DEF FreeEntry, TableInv, TypedTable
  <2>3. queue' \in [Slots -> Seq(Packet)]
    BY EmptyOrdered DEF FreeEntry, free_etharp_q, TableInv, TypedTable
  <2>4. heard' \in [Hosts -> Macs \cup {None}]
    BY DEF FreeEntry, Forget, TableInv, TypedTable
  <2> QED BY <1>1, <2>1, <2>2, <2>3, <2>4 DEF TypedTable
<1>5. Unique' /\ StableHasNoQueue'
  BY <1>1, <1>2 DEF TableInv, Unique, StableHasNoQueue
<1>6. Fresh'
  <2> SUFFICES ASSUME NEW j \in Slots, state'[j] \in Stable
               PROVE  ethaddr'[j] = heard'[ipaddr'[j]] /\ ctime'[j] < MaxAge
    BY DEF Fresh, Resolved
  <2>1. j # i /\ state[j] \in Stable /\ state[j] # "empty"
    BY <1>1 DEF Stable
  <2>2. ipaddr[j] \in Hosts /\ i \notin Match(ipaddr[j])
    BY <2>1 DEF TableInv, Unique, Match
  <2> QED
    BY <1>1, <1>3, <2>1, <2>2 DEF TableInv, Fresh, Resolved
<1>7. QueuesInOrder'
  BY <1>1, <1>2, EmptyOrdered DEF QueuesInOrder
<1> QED
  BY <1>1, <1>2, <1>4, <1>5, <1>6, <1>7 DEF TableInv

\* No packet for h waits while h has a stable entry.
LEMMA NothingWaits ==
    ASSUME TableInv, QueuesInOrder, NEW i \in Slots, state[i] \in Stable,
           NEW j \in Slots, NEW m \in 1 .. Len(queue[j])
    PROVE  queue[j][m].ip # ipaddr[i]
<1>1. queue[j] # << >> /\ queue[j][m].ip = ipaddr[j]
  BY DEF QueuesInOrder, Ordered
<1>2. state[j] = "pending"
  BY <1>1 DEF TableInv, StableHasNoQueue
<1> QED
  BY <1>1, <1>2 DEF TableInv, Unique, Stable

\* One packet sent to the address of a stable entry of its host.
LEMMA SendRight ==
    ASSUME TableInv, QueuesInOrder, wrong = FALSE, NEW i \in Slots, state[i] \in Stable,
           NEW p, p.ip = ipaddr[i], queue' = queue, heard' = heard,
           Transmit(<<p>>, ethaddr[i])
    PROVE  wrong' = FALSE
<1> DEFINE s == <<p>>
<1>1. Len(s) = 1 /\ s[1] = p
  OBVIOUS
<1>2. ethaddr[i] = heard[ipaddr[i]]
  BY DEF TableInv, Fresh, Resolved
<1>3. Transmit(s, ethaddr[i])
  OBVIOUS
<1> HIDE DEF s
<1>4. ASSUME NEW k \in 1 .. Len(s)
      PROVE  /\ ethaddr[i] = heard'[s[k].ip]
             /\ \A l \in 1 .. (k - 1) : ~(s[l].no >= s[k].no)
             /\ \A j \in Slots : \A m \in 1 .. Len(queue'[j]) :
                   ~(queue'[j][m].ip = s[k].ip /\ queue'[j][m].no <= s[k].no)
  <2>1. k = 1 /\ 1 .. (k - 1) = {} /\ s[k].ip = ipaddr[i]
    BY <1>1
  <2> QED BY <1>2, <2>1, NothingWaits
<1> QED
  BY <1>3, <1>4, TransmitRight

\* An entry that changes among the stable states, or whose time does within
\* the age limit, remains what it was.
LEMMA SameTable ==
    ASSUME TableInv, QueuesInOrder, UNCHANGED <<ipaddr, ethaddr, queue, heard>>,
           state' \in [Slots -> States], ctime' \in [Slots -> Nat],
           \A j \in Slots : /\ state'[j] \in Stable <=> state[j] \in Stable
                            /\ state'[j] = "empty" <=> state[j] = "empty"
                            /\ state'[j] = "pending" <=> state[j] = "pending"
                            /\ state[j] \in Stable => ctime'[j] < MaxAge,
           handed' \in Nat, handed \in Nat, handed <= handed'
    PROVE  TableInv' /\ QueuesInOrder'
<1>1. TableInv'
  BY DEF TableInv, TypedTable, Unique, StableHasNoQueue, Fresh, Resolved
<1>2. QueuesInOrder'
  <2> SUFFICES ASSUME NEW j \in Slots PROVE Ordered(queue[j], ipaddr[j], handed')
    BY DEF QueuesInOrder
  <2>1. queue[j] \in Seq(Packet) /\ Ordered(queue[j], ipaddr[j], handed)
    BY DEF TableInv, TypedTable, QueuesInOrder
  <2> QED BY <2>1, OrderedLater
<1> QED
  BY <1>1, <1>2

\* The ages of the stable entries.
LEMMA StableAge ==
    ASSUME TableInv, NEW j \in Slots, state[j] \in Stable
    PROVE  ctime[j] < MaxAge
BY DEF TableInv, Fresh, Resolved


\* A step that leaves the table alone.
LEMMA TableKept ==
    ASSUME TableInv, QueuesInOrder, UNCHANGED <<state, ipaddr, ethaddr, ctime, queue, heard>>,
           handed' \in Nat, handed \in Nat, handed <= handed'
    PROVE  TableInv' /\ QueuesInOrder'
<1>1. state' \in [Slots -> States] /\ ctime' \in [Slots -> Nat]
  BY DEF TableInv, TypedTable
<1> QED
  BY <1>1, StableAge, SameTable

\* The call has returned.
LEMMA Returned ==
    ASSUME Return, hint' \in Slots, handed' \in Nat
    PROVE  TypedCall' /\ InHand'
BY Constants DEF Return, TypedCall, PCs, InHand, WithPacket
-----------------------------------------------------------------------------
(* The main loop. *)

\* The empty table.
LEMMA InitHolds == Init => IInv
<1> SUFFICES ASSUME Init PROVE Good
  BY DEF IInv
<1>1. TypedCall
  BY Constants DEF Init, TypedCall, PCs
<1>2. TypedTable
  BY Constants, EmptyOrdered DEF Init, TypedTable, States
<1>3. TableInv
  BY <1>2 DEF Init, TableInv, Unique, StableHasNoQueue, Fresh, Resolved, Stable
<1>4. QueuesInOrder
  BY EmptyOrdered DEF Init, QueuesInOrder
<1>5. PoolInv
  <2>1. \A i \in Slots : Len(queue[i]) = 0
    BY DEF Init
  <2>2. Elems(queue, Slots) = {}
    BY <2>1, Constants DEF Elems
  <2>3. Cardinality(Elems(queue, Slots)) = 0
    BY <2>2, FS_EmptySet
  <2>4. PoolSize \in Nat /\ pc = "idle" /\ qfree = PoolSize
    BY EtharpAssumption DEF EtharpAssumption, Init
  <2> QED BY <2>1, <2>3, <2>4, Constants DEF PoolInv, Taken, Held, Elems
<1>6. InHand
  BY DEF Init, InHand, WithPacket
<1> QED
  BY <1>1, <1>3, <1>4, <1>5, <1>6 DEF Good, Init

\* etharp_tmr is entered.
LEMMA TmrBeginStep ==
    ASSUME Good, TmrBegin
    PROVE  Good'
<1>1. /\ pc = "idle" /\ pc' = "tmr" /\ pkt = None /\ pkt' = None
      /\ UNCHANGED <<state, ipaddr, ethaddr, ctime, queue, qfree, hint, r, handed, heard, wrong>>
      /\ cur' \in Slots
  BY Constants DEF TmrBegin, Good, InHand, table, counts
<1>2. TypedCall'
  BY <1>1 DEF Good, TypedCall, PCs
<1>3. TableInv' /\ QueuesInOrder'
  BY <1>1 DEF Good, TableInv, TypedTable, Unique, StableHasNoQueue, Fresh, Resolved, QueuesInOrder
<1>4. PoolInv'
  BY <1>1, PoolKept DEF Good
<1>5. InHand'
  BY <1>1 DEF InHand, WithPacket
<1> QED
  BY <1>1, <1>2, <1>3, <1>4, <1>5 DEF Good

\* One entry of etharp_tmr.
LEMMA TmrEntryStep ==
    ASSUME Good, TmrEntry
    PROVE  Good'
<1>1. /\ pc = "tmr" /\ pkt = None /\ cur \in Slots /\ handed' = handed /\ handed \in Nat
      /\ hint' = hint /\ wrong' = FALSE
      /\ TableInv /\ QueuesInOrder /\ PoolInv
  BY DEF TmrEntry, Good, InHand, TypedCall, counts
<1>2. pc' \in {"idle", "tmr"} /\ pkt' = None /\ cur' \in Slots /\ r' \in BOOLEAN
  <2>1. CASE cur = TableSize - 1
    BY <1>1, <2>1, Constants DEF TmrEntry, Return
  <2>2. CASE cur # TableSize - 1
    <3>1. cur' = cur + 1 /\ pc' = pc /\ pkt' = pkt /\ r' = r
      BY <2>2 DEF TmrEntry
    <3>2. cur + 1 \in Slots
      BY <1>1, <2>2, Constants DEF Slots
    <3> QED BY <1>1, <3>1, <3>2 DEF Good, TypedCall
  <2> QED BY <2>1, <2>2
<1>3. TypedCall' /\ InHand'
  BY <1>1, <1>2 DEF Good, TypedCall, PCs, InHand, WithPacket
<1>4. CASE Expired(cur)
  <2>1. FreeEntry(cur)
    BY <1>4 DEF TmrEntry
  <2>2. /\ TableInv' /\ QueuesInOrder'
        /\ \A j \in Slots : queue'[j] = IF j = cur THEN << >> ELSE queue[j]
    BY <1>1, <2>1, FreeStep
  <2>3. PoolInv'
    BY <1>1, <1>2, <2>1, QueueFreed DEF FreeEntry, TableInv, TypedTable
  <2> QED BY <1>1, <1>3, <2>2, <2>3 DEF Good
<1>5. CASE ~Expired(cur)
  <2>1. /\ state' = [state EXCEPT ![cur] = CASE @ = "rereq1" -> "rereq2"
                                             [] @ = "rereq2" -> "stable"
                                             [] OTHER -> @]
        /\ ctime' = [ctime EXCEPT ![cur] = Aged(cur)]
        /\ UNCHANGED <<ipaddr, ethaddr, queue, qfree, heard>>
    BY <1>5 DEF TmrEntry
  <2>2. /\ state' \in [Slots -> States]
        /\ \A j \in Slots : /\ state'[j] \in Stable <=> state[j] \in Stable
                            /\ state'[j] = "empty" <=> state[j] = "empty"
                            /\ state'[j] = "pending" <=> state[j] = "pending"
    BY <1>1, <2>1 DEF TableInv, TypedTable, States, Stable
  <2>3. Aged(cur) \in Nat /\ (state[cur] \in Stable => Aged(cur) < MaxAge)
    BY <1>1, <1>5, Constants DEF Aged, Expired, TableInv, TypedTable, Stable
  <2>4. /\ ctime' \in [Slots -> Nat]
        /\ \A j \in Slots : state[j] \in Stable => ctime'[j] < MaxAge
    BY <1>1, <2>1, <2>3, StableAge DEF TableInv, TypedTable
  <2>5. TableInv' /\ QueuesInOrder'
    BY <1>1, <2>1, <2>2, <2>4, SameTable
  <2>6. PoolInv'
    BY <1>1, <1>2, <2>1, PoolKept
  <2> QED BY <1>1, <1>3, <2>5, <2>6 DEF Good
<1> QED
  BY <1>4, <1>5


\* etharp_output finds a stable entry.
LEMMA OutputFindStep ==
    ASSUME Good, NEW h \in Hosts, OutputFind(h)
    PROVE  Good'
<1>1. PICK i \in Slots : UsedEntry(h, i) /\ hint' = i /\ cur' = i
  BY DEF OutputFind
<1>2. state[i] \in Stable /\ ipaddr[i] = h /\ state[i] # "empty"
  BY <1>1 DEF UsedEntry, First, ResolvedFor, Resolved, Stable
<1>3. /\ pc = "idle" /\ pc' = "index" /\ handed' = handed + 1 /\ handed \in Nat
      /\ UNCHANGED <<state, ipaddr, ethaddr, ctime, queue, qfree, r, heard, wrong>>
  BY DEF OutputFind, table, Good, TypedCall
<1>4. pkt' \in Packet /\ pkt' # None /\ pkt'.ip = h /\ pkt'.no = handed + 1
  BY <1>3, Constants DEF OutputFind, NextPacket, Packet
<1>5. TypedCall'
  BY <1>1, <1>3, <1>4 DEF Good, TypedCall, PCs
<1>6. TableInv' /\ QueuesInOrder'
  BY <1>3, TableKept DEF Good
<1>7. PoolInv'
  BY <1>3, PoolKept DEF Good
<1>8. InHand'
  <2>1. pkt'.no <= handed' /\ pkt'.no # 0
    BY <1>3, <1>4
  <2> QED BY <1>1, <1>2, <1>3, <1>4, <2>1 DEF InHand, WithPacket
<1> QED
  BY <1>3, <1>5, <1>6, <1>7, <1>8 DEF Good

\* The packet goes to the stable entry i, which may be requested again.
LEMMA ToArpIndexStep ==
    ASSUME TableInv, QueuesInOrder, wrong = FALSE, NEW i \in Slots, NEW p,
           state[i] \in Stable, p.ip = ipaddr[i], ToArpIndex(i, p),
           handed' \in Nat, handed \in Nat, handed <= handed'
    PROVE  /\ TableInv' /\ QueuesInOrder' /\ wrong' = FALSE
           /\ \A j \in Slots : j # i => state'[j] = state[j]
           /\ UNCHANGED <<ipaddr, queue, qfree>>
<1>1. UNCHANGED <<ipaddr, ethaddr, ctime, queue, qfree, heard>> /\ Transmit(<<p>>, ethaddr[i])
  BY DEF ToArpIndex
<1>2. /\ state' \in [Slots -> States]
      /\ \A j \in Slots : /\ state'[j] \in Stable <=> state[j] \in Stable
                          /\ state'[j] = "empty" <=> state[j] = "empty"
                          /\ state'[j] = "pending" <=> state[j] = "pending"
                          /\ j # i => state'[j] = state[j]
  BY DEF ToArpIndex, TableInv, TypedTable, States, Stable
<1>3. ctime' \in [Slots -> Nat] /\ \A j \in Slots : state[j] \in Stable => ctime'[j] < MaxAge
  BY <1>1, StableAge DEF TableInv, TypedTable
<1>4. wrong' = FALSE
  BY <1>1, SendRight
<1> QED
  BY <1>1, <1>2, <1>3, <1>4, SameTable

\* The packet goes to the entry that was found.
LEMMA OutputIndexStep ==
    ASSUME Good, OutputIndex
    PROVE  Good'
<1>1. pc = "index" /\ hint = cur /\ cur \in Slots /\ state[cur] \in Stable /\ ipaddr[cur] = pkt.ip
  BY DEF OutputIndex, Good, InHand, TypedCall, WithPacket
<1>2. ToArpIndex(cur, pkt) /\ Return /\ hint' = hint /\ handed' = handed /\ handed \in Nat
  BY <1>1 DEF OutputIndex, counts, Good, TypedCall
<1>3. TableInv' /\ QueuesInOrder' /\ wrong' = FALSE /\ queue' = queue /\ qfree' = qfree
  <2>1. TableInv /\ QueuesInOrder /\ wrong = FALSE /\ handed' \in Nat /\ handed <= handed'
    BY <1>2 DEF Good
  <2>2. TableInv' /\ QueuesInOrder' /\ wrong' = FALSE /\ UNCHANGED <<ipaddr, queue, qfree>>
    BY <1>1, <1>2, <2>1, ToArpIndexStep
  <2> QED BY <2>2
<1>4. PoolInv'
  BY <1>1, <1>2, <1>3, PoolKept DEF Good, Return
<1>5. TypedCall' /\ InHand'
  BY <1>1, <1>2, Returned
<1> QED
  BY <1>3, <1>4, <1>5 DEF Good

\* The sweep for the entry of h, for packet n or for none.
LEMMA SweepStep ==
    ASSUME Good, NEW h \in Hosts, NEW n \in Nat, pc = "idle", Sweep(h),
           pkt' = [ip |-> h, no |-> n], handed' \in Nat, handed <= handed', n <= handed',
           n # 0 => handed = n - 1,
           UNCHANGED <<table, hint, r, heard, wrong>>
    PROVE  Good'
<1>1. PICK i \in Slots : /\ FindEntry(h, i) /\ cur' = i
                         /\ pc' = IF Match(h) # {} THEN "mark"
                                  ELSE IF state[i] = "empty" THEN "take" ELSE "recycle"
  BY DEF Sweep
<1>2. pkt' \in Packet /\ pkt' # None /\ pkt'.ip = h /\ pkt'.no = n
  BY Constants DEF Packet
<1>3. /\ UNCHANGED <<state, ipaddr, ethaddr, ctime, queue, qfree, hint, r, heard, wrong>>
      /\ handed \in Nat
  BY DEF table, Good, TypedCall
<1>4. TypedCall'
  BY <1>1, <1>2, <1>3 DEF Good, TypedCall, PCs
<1>5. TableInv' /\ QueuesInOrder'
  BY <1>3, TableKept DEF Good
<1>6. PoolInv'
  BY <1>1, <1>3, PoolKept DEF Good
<1>7. InHand'
  <2>1. Match(pkt.ip)' = Match(h)
    BY <1>2, <1>3 DEF Match
  <2>2. CASE Match(h) # {}
    <3>1. pc' = "mark" /\ state[i] # "empty" /\ ipaddr[i] = h
      BY <1>1, <2>2, FoundSlot DEF Match
    <3>2. n # 0 => Ordered(queue[i], h, n - 1)
      BY <3>1 DEF Good, QueuesInOrder
    <3> QED BY <1>1, <1>2, <1>3, <3>1, <3>2 DEF InHand, WithPacket
  <2>3. CASE Match(h) = {}
    <3>1. pc' \in {"take", "recycle"} /\ (pc' = "take" => state[i] = "empty")
      BY <1>1, <2>3
    <3> QED BY <1>1, <1>2, <1>3, <2>1, <2>3, <3>1 DEF InHand, WithPacket
  <2> QED BY <2>2, <2>3
<1> QED
  BY <1>3, <1>4, <1>5, <1>6, <1>7 DEF Good

\* A packet for a host without a stable entry.
LEMMA QueryPacketStep ==
    ASSUME Good, NEW h \in Hosts, QueryPacket(h)
    PROVE  Good'
<1>1. handed \in Nat
  BY DEF Good, TypedCall
<1>2. pc = "idle" /\ Sweep(h) /\ handed' = handed + 1
      /\ UNCHANGED <<table, hint, r, heard, wrong>>
  BY DEF QueryPacket
<1>3. pkt' = [ip |-> h, no |-> handed + 1]
  BY DEF QueryPacket, NextPacket
<1>4. handed + 1 \in Nat /\ handed' \in Nat /\ handed <= handed' /\ handed + 1 <= handed'
      /\ handed = (handed + 1) - 1
  BY <1>1, <1>2
<1> QED
  BY <1>2, <1>3, <1>4, SweepStep

\* A query of the DHCP client.
LEMMA QueryAddressStep ==
    ASSUME Good, NEW h \in Hosts, QueryAddress(h)
    PROVE  Good'
<1>1. handed \in Nat
  BY DEF Good, TypedCall
<1>2. pc = "idle" /\ Sweep(h) /\ handed' = handed /\ pkt' = [ip |-> h, no |-> 0]
      /\ UNCHANGED <<table, hint, r, heard, wrong>>
  BY DEF QueryAddress
<1>3. handed' \in Nat /\ handed <= handed' /\ 0 <= handed' /\ 0 \in Nat
  BY <1>1, <1>2
<1> QED
  BY <1>2, <1>3, SweepStep

\* etharp_find_entry frees the entry it recycles.
LEMMA QueryRecycleStep ==
    ASSUME Good, QueryRecycle
    PROVE  Good'
<1>1. /\ pc = "recycle" /\ pc' = "take" /\ cur \in Slots /\ FreeEntry(cur)
      /\ UNCHANGED <<hint, cur, pkt, r, handed, wrong>>
      /\ TableInv /\ QueuesInOrder /\ PoolInv /\ InHand
  BY DEF QueryRecycle, Good, TypedCall, counts
<1>2. /\ TableInv' /\ QueuesInOrder'
      /\ \A j \in Slots : /\ state'[j] = IF j = cur THEN "empty" ELSE state[j]
                          /\ ipaddr'[j] = IF j = cur THEN None ELSE ipaddr[j]
                          /\ queue'[j] = IF j = cur THEN << >> ELSE queue[j]
  BY <1>1, FreeStep
<1>3. PoolInv'
  BY <1>1, QueueFreed DEF FreeEntry, TableInv, TypedTable
<1>4. TypedCall'
  BY <1>1 DEF Good, TypedCall, PCs
<1>5. InHand'
  <2>1. Match(pkt.ip)' = {}
    BY <1>1, <1>2 DEF Match, InHand
  <2>2. state'[cur] = "empty"
    BY <1>1, <1>2
  <2> QED BY <1>1, <2>1, <2>2 DEF InHand, WithPacket
<1> QED
  BY <1>1, <1>2, <1>3, <1>4, <1>5 DEF Good

\* The packet of a call that has one.
LEMMA PacketOf ==
    ASSUME Good, pc \notin {"idle", "tmr"}
    PROVE  pkt \in Packet /\ pkt # None /\ pkt.ip \in Hosts /\ pkt.no \in Nat /\ pkt.no <= handed
<1>1. pkt # None /\ pkt \in Packet /\ pkt.no <= handed
  BY DEF Good, InHand, TypedCall
<1> QED
  BY <1>1 DEF Packet

\* The empty slot gets the address of the host.
LEMMA QueryTakeStep ==
    ASSUME Good, QueryTake
    PROVE  Good'
<1>1. /\ pc = "take" /\ pc' = "mark" /\ cur \in Slots
      /\ UNCHANGED <<state, ethaddr, queue, qfree, hint, cur, pkt, r, handed, heard, wrong>>
      /\ TableInv /\ QueuesInOrder /\ PoolInv /\ InHand
  BY DEF QueryTake, Good, TypedCall, counts
<1>2. pkt \in Packet /\ pkt # None /\ pkt.ip \in Hosts /\ pkt.no <= handed
  BY <1>1, PacketOf
<1>3. state[cur] = "empty" /\ Match(pkt.ip) = {}
  BY <1>1 DEF InHand
<1>4. queue[cur] = << >>
  BY <1>1, <1>3 DEF TableInv, StableHasNoQueue
<1>5. /\ ipaddr' \in [Slots -> Hosts \cup {None}] /\ ctime' \in [Slots -> Nat]
      /\ \A j \in Slots : /\ ipaddr'[j] = IF j = cur THEN pkt.ip ELSE ipaddr[j]
                          /\ ctime'[j] = IF j = cur THEN 0 ELSE ctime[j]
  BY <1>1, <1>2 DEF QueryTake, TableInv, TypedTable
<1>6. TypedTable'
  BY <1>1, <1>5 DEF TableInv, TypedTable
<1>7. Unique' /\ StableHasNoQueue'
  BY <1>1, <1>3, <1>5 DEF TableInv, Unique, StableHasNoQueue
<1>8. Fresh'
  BY <1>1, <1>3, <1>5 DEF TableInv, Fresh, Resolved, Stable
<1>9. QueuesInOrder'
  BY <1>1, <1>4, <1>5, EmptyOrdered DEF QueuesInOrder
<1>10. PoolInv'
  BY <1>1, PoolKept
<1>11. TypedCall'
  BY <1>1 DEF Good, TypedCall, PCs
<1>12. InHand'
  <2>1. Match(pkt.ip)' = {}
    BY <1>1, <1>3, <1>5 DEF Match
  <2>2. ipaddr'[cur] = pkt.ip /\ Ordered(queue[cur], pkt.ip, pkt.no - 1)
    BY <1>1, <1>4, <1>5, EmptyOrdered
  <2> QED BY <1>1, <1>2, <2>1, <2>2 DEF InHand, WithPacket
<1> QED
  BY <1>1, <1>6, <1>7, <1>8, <1>9, <1>10, <1>11, <1>12 DEF Good, TableInv

\* An empty entry becomes pending.
LEMMA QueryMarkStep ==
    ASSUME Good, QueryMark
    PROVE  Good'
<1>1. /\ pc = "mark" /\ cur \in Slots /\ hint \in Slots /\ handed \in Nat
      /\ UNCHANGED <<ipaddr, ethaddr, queue, qfree, hint, handed, heard, wrong>>
      /\ TableInv /\ QueuesInOrder /\ PoolInv /\ InHand
  BY DEF QueryMark, Good, TypedCall, counts
<1>2. pkt \in Packet /\ pkt # None /\ pkt.ip \in Hosts /\ pkt.no <= handed
  BY <1>1, PacketOf
<1>3. ipaddr[cur] = pkt.ip /\ (state[cur] = "empty" => Match(pkt.ip) = {})
  BY <1>1 DEF InHand, WithPacket
<1>4. /\ state' \in [Slots -> States]
      /\ \A j \in Slots : state'[j] = IF j = cur /\ state[j] = "empty" THEN "pending" ELSE state[j]
  BY <1>1 DEF QueryMark, TableInv, TypedTable, States
<1>5. /\ ctime' \in [Slots -> Nat]
      /\ \A j \in Slots : j # cur \/ state[cur] \in Stable => ctime'[j] = ctime[j]
  BY <1>1 DEF QueryMark, TableInv, TypedTable, Stable
<1>6. TypedTable'
  BY <1>1, <1>4, <1>5 DEF TableInv, TypedTable
<1>7. Unique'
  BY <1>1, <1>2, <1>3, <1>4 DEF TableInv, Unique, Match
<1>8. StableHasNoQueue'
  BY <1>1, <1>4 DEF TableInv, StableHasNoQueue
<1>9. Fresh'
  BY <1>1, <1>4, <1>5 DEF TableInv, Fresh, Resolved, Stable
<1>10. QueuesInOrder'
  BY <1>1 DEF QueuesInOrder
<1>11. TypedCall' /\ InHand' /\ pc' # "link"
  <2>1. CASE pkt.no = 0
    <3>1. Return
      BY <2>1 DEF QueryMark
    <3> QED BY <1>1, <3>1, Returned DEF Return
  <2>2. CASE pkt.no # 0
    <3>1. pc' = "test" /\ UNCHANGED <<cur, pkt, r>>
      BY <2>2 DEF QueryMark
    <3>2. Ordered(queue[cur], pkt.ip, pkt.no - 1)
      BY <1>1, <2>2 DEF InHand
    <3>3. state'[cur] # "empty"
      BY <1>1, <1>4
    <3>4. TypedCall'
      BY <1>1, <3>1 DEF Good, TypedCall, PCs
    <3> QED BY <1>1, <1>2, <1>3, <2>2, <3>1, <3>2, <3>3, <3>4 DEF InHand, WithPacket
  <2> QED BY <2>1, <2>2
<1>12. PoolInv'
  BY <1>1, <1>11, PoolKept
<1> QED
  BY <1>1, <1>6, <1>7, <1>8, <1>9, <1>10, <1>11, <1>12 DEF Good, TableInv

\* The state is tested.
LEMMA QueryTestStep ==
    ASSUME Good, QueryTest
    PROVE  Good'
<1>1. /\ pc = "test" /\ cur \in Slots /\ hint \in Slots /\ handed \in Nat /\ handed' \in Nat
      /\ handed <= handed'
      /\ UNCHANGED <<state, ipaddr, ethaddr, ctime, queue, qfree, cur, pkt, r, handed, heard, wrong>>
      /\ TableInv /\ QueuesInOrder /\ PoolInv /\ InHand
  BY DEF QueryTest, table, Good, TypedCall, counts
<1>2. pkt # None /\ pkt.no # 0 /\ pkt.no <= handed
  BY <1>1, PacketOf DEF InHand, WithPacket
<1>3. /\ ipaddr[cur] = pkt.ip /\ state[cur] # "empty"
      /\ Ordered(queue[cur], pkt.ip, pkt.no - 1)
  BY <1>1, <1>2 DEF InHand, WithPacket
<1>4. \/ pc' = "use" /\ state[cur] \in Stable /\ hint' = cur
      \/ pc' = "append" /\ state[cur] \notin Stable /\ hint' = hint
  BY DEF QueryTest
<1>5. state[cur] \in Stable \/ state[cur] = "pending"
  BY <1>1, <1>3 DEF TableInv, TypedTable, States
<1>6. TypedCall'
  BY <1>1, <1>4 DEF Good, TypedCall, PCs
<1>7. InHand'
  BY <1>1, <1>2, <1>3, <1>4, <1>5 DEF InHand, WithPacket
<1>8. TableInv' /\ QueuesInOrder'
  BY <1>1, TableKept
<1>9. PoolInv'
  BY <1>1, <1>4, PoolKept
<1> QED
  BY <1>1, <1>6, <1>7, <1>8, <1>9 DEF Good

\* The packet goes to the entry that has become stable.
LEMMA QueryUseStep ==
    ASSUME Good, QueryUse
    PROVE  Good'
<1>1. /\ pc = "use" /\ cur \in Slots /\ hint' \in Slots /\ handed \in Nat /\ handed' \in Nat
      /\ handed <= handed' /\ Return /\ Transmit(<<pkt>>, ethaddr[cur])
      /\ UNCHANGED <<state, ipaddr, ethaddr, ctime, queue, qfree, handed, heard>>
      /\ TableInv /\ QueuesInOrder /\ PoolInv /\ InHand /\ wrong = FALSE
  BY DEF QueryUse, table, Good, TypedCall, counts
<1>2. state[cur] \in Stable /\ pkt.ip = ipaddr[cur]
  BY <1>1 DEF InHand, WithPacket
<1>3. wrong' = FALSE
  BY <1>1, <1>2, SendRight
<1>4. TypedCall' /\ InHand'
  BY <1>1, Returned
<1>5. TableInv' /\ QueuesInOrder'
  BY <1>1, TableKept
<1>6. PoolInv'
  BY <1>1, PoolKept DEF Return
<1> QED
  BY <1>3, <1>4, <1>5, <1>6 DEF Good

\* An element is taken from the pool.
LEMMA QueryElementStep ==
    ASSUME Good, QueryElement
    PROVE  Good'
<1>1. /\ pc = "append" /\ cur \in Slots /\ hint' \in Slots /\ handed \in Nat /\ handed' \in Nat
      /\ handed <= handed'
      /\ UNCHANGED <<state, ipaddr, ethaddr, ctime, queue, hint, handed, heard, wrong>>
      /\ TableInv /\ QueuesInOrder /\ PoolInv /\ InHand
  BY DEF QueryElement, Good, TypedCall, counts
<1>2. TableInv' /\ QueuesInOrder'
  BY <1>1, TableKept
<1>3. CASE Return /\ qfree' = qfree
  <2>1. TypedCall' /\ InHand'
    BY <1>1, <1>3, Returned
  <2>2. PoolInv'
    BY <1>1, <1>3, PoolKept DEF Return
  <2> QED BY <1>1, <1>2, <2>1, <2>2 DEF Good
<1>4. CASE /\ qfree' = qfree - 1 /\ pc' = "link" /\ r' = (queue[cur] # << >>)
           /\ UNCHANGED <<cur, pkt>>
  <2>1. TypedCall'
    BY <1>1, <1>4 DEF Good, TypedCall, PCs
  <2>2. /\ pkt # None /\ pkt.no # 0 /\ pkt.no <= handed
        /\ ipaddr[cur] = pkt.ip /\ state[cur] = "pending"
        /\ Ordered(queue[cur], pkt.ip, pkt.no - 1)
    BY <1>1, PacketOf DEF InHand, WithPacket
  <2>3. InHand'
    BY <1>1, <1>4, <2>2 DEF InHand, WithPacket
  <2>4. PoolInv'
    <3>1. qfree' = qfree + 0 - 1 /\ 0 \in Nat /\ 1 \in Nat
      BY <1>1, <1>4 DEF PoolInv
    <3>2. 0 = (IF pc = "link" THEN 1 ELSE 0) /\ 1 = (IF pc' = "link" THEN 1 ELSE 0)
      BY <1>1, <1>4
    <3> QED BY <1>1, <3>1, <3>2, QueueKept
  <2> QED BY <1>1, <1>2, <2>1, <2>3, <2>4 DEF Good
<1> QED
  BY <1>3, <1>4 DEF QueryElement

\* How long a queue becomes.
LEMMA EnqueuedLen ==
    ASSUME NEW s \in Seq(Packet), NEW p \in Packet, Len(s) <= QueueLen
    PROVE  Len(Enqueued(s, p)) \in Nat /\ Len(Enqueued(s, p)) <= QueueLen
<1>1. Len(s) \in Nat /\ Len(Append(s, p)) = Len(s) + 1
  OBVIOUS
<1>2. CASE Len(s) < QueueLen
  BY <1>1, <1>2, Constants DEF Enqueued
<1>3. CASE Len(s) >= QueueLen
  <2> DEFINE t == Tail(s)
  <2>1. s # << >>
    BY <1>1, <1>3, Constants
  <2>2. t \in Seq(Packet) /\ Len(t) = Len(s) - 1
    BY <2>1
  <2>3. Enqueued(s, p) = Append(t, p)
    BY <1>3 DEF Enqueued
  <2> HIDE DEF t
  <2>4. Len(Append(t, p)) = Len(t) + 1
    BY <2>2
  <2> QED BY <1>1, <2>2, <2>3, <2>4
<1> QED
  BY <1>1, <1>2, <1>3, Constants

\* The queue of a pending entry i grows.
LEMMA GrowStep ==
    ASSUME TableInv, QueuesInOrder, NEW i \in Slots, state[i] = "pending",
           NEW s \in Seq(Packet), Ordered(s, ipaddr[i], handed),
           queue' = [queue EXCEPT ![i] = s],
           UNCHANGED <<state, ipaddr, ethaddr, ctime, heard, handed>>
    PROVE  TableInv' /\ QueuesInOrder'
<1>1. /\ queue' \in [Slots -> Seq(Packet)]
      /\ \A j \in Slots : queue'[j] = IF j = i THEN s ELSE queue[j]
  BY DEF TableInv, TypedTable
<1>2. TypedTable'
  BY <1>1 DEF TableInv, TypedTable
<1>3. Unique' /\ Fresh' /\ StableHasNoQueue'
  BY <1>1 DEF TableInv, Unique, Fresh, Resolved, StableHasNoQueue
<1>4. QueuesInOrder'
  BY <1>1 DEF QueuesInOrder
<1> QED
  BY <1>2, <1>3, <1>4 DEF TableInv

\* The packet is appended to the queue.
LEMMA QueryLinkStep ==
    ASSUME Good, QueryLink
    PROVE  Good'
<1>1. /\ pc = "link" /\ cur \in Slots /\ hint' \in Slots /\ handed \in Nat /\ handed' \in Nat
      /\ handed <= handed' /\ Return
      /\ UNCHANGED <<state, ipaddr, ethaddr, ctime, handed, heard, wrong>>
      /\ TableInv /\ QueuesInOrder /\ PoolInv /\ InHand
  BY DEF QueryLink, Good, TypedCall, counts
<1>2. /\ pkt \in Packet /\ pkt.ip \in Hosts /\ pkt.no \in Nat /\ pkt.no # 0 /\ pkt.no <= handed
  BY <1>1, PacketOf DEF InHand, WithPacket
<1>3. /\ ipaddr[cur] = pkt.ip /\ state[cur] = "pending"
      /\ Ordered(queue[cur], pkt.ip, pkt.no - 1) /\ (r <=> queue[cur] # << >>)
  BY <1>1, <1>2 DEF InHand, WithPacket
<1>4. queue[cur] \in Seq(Packet) /\ Len(queue[cur]) <= QueueLen /\ Len(queue[cur]) \in Nat
      /\ qfree \in Int
  BY <1>1 DEF TableInv, TypedTable, PoolInv
<1> DEFINE s == Enqueued(queue[cur], pkt)
<1>5. s \in Seq(Packet) /\ Len(s) <= QueueLen /\ Len(s) \in Nat
      /\ Ordered(s, pkt.ip, pkt.no)
  <2>1. pkt.no - 1 \in Int /\ pkt.no > pkt.no - 1
    BY <1>2
  <2> QED BY <1>2, <1>3, <1>4, <2>1, EnqueuedOrdered, EnqueuedLen
<1>6. /\ queue' = [queue EXCEPT ![cur] = s]
      /\ qfree' = qfree + 1 + Len(queue[cur]) - Len(s)
  <2>1. CASE r
    <3>1. /\ queue' = [queue EXCEPT ![cur] = Enqueued(@, pkt)]
          /\ qfree' = qfree + 1 + Len(queue[cur]) - Len(queue'[cur])
      BY <1>3, <2>1 DEF QueryLink
    <3>2. queue'[cur] = s
      BY <1>1, <3>1 DEF TableInv, TypedTable
    <3> QED BY <3>1, <3>2
  <2>2. CASE ~r
    <3>1. queue' = [queue EXCEPT ![cur] = <<pkt>>] /\ qfree' = qfree /\ queue[cur] = << >>
      BY <1>3, <2>2 DEF QueryLink
    <3>2. Len(<< >>) = 0 /\ Append(<< >>, pkt) = <<pkt>> /\ Len(<<pkt>>) = 1
      OBVIOUS
    <3>3. s = <<pkt>>
      BY <3>1, <3>2, Constants DEF Enqueued
    <3>4. qfree' = qfree + 1 + 0 - 1
      BY <1>4, <3>1
    <3>5. Len(queue[cur]) = 0 /\ Len(s) = 1
      BY <3>1, <3>2, <3>3
    <3> HIDE DEF s
    <3> QED BY <3>1, <3>3, <3>4, <3>5
  <2> QED BY <2>1, <2>2
<1> HIDE DEF s
<1>7. Ordered(s, ipaddr[cur], handed)
  BY <1>1, <1>2, <1>3, <1>5, OrderedLater
<1>8. TableInv' /\ QueuesInOrder'
  BY <1>1, <1>3, <1>5, <1>6, <1>7, GrowStep
<1>9. TypedCall' /\ InHand'
  BY <1>1, Returned
<1>10. PoolInv'
  <2>1. queue'[cur] = s /\ \A j \in Slots : j # cur => queue'[j] = queue[j]
    BY <1>1, <1>6 DEF TableInv, TypedTable
  <2>2. qfree' = qfree + 1 - 0 + Len(queue[cur]) - Len(queue'[cur])
    <3>1. PICK m \in Nat, n \in Nat : m = Len(queue[cur]) /\ n = Len(s)
      BY <1>4, <1>5
    <3>2. qfree' = qfree + 1 + m - n
      BY <1>6, <3>1
    <3>3. qfree + 1 - 0 + m - n = qfree + 1 + m - n
      BY <1>4
    <3> QED BY <2>1, <3>1, <3>2, <3>3
  <2>3. 1 = (IF pc = "link" THEN 1 ELSE 0) /\ 0 = (IF pc' = "link" THEN 1 ELSE 0)
        /\ 0 \in Nat /\ 1 \in Nat
    BY <1>1 DEF Return
  <2>4. queue'[cur] \in Seq(Packet) /\ Len(queue'[cur]) <= QueueLen
    BY <1>5, <2>1
  <2> QED BY <1>1, <1>4, <2>1, <2>2, <2>3, <2>4, QueueChange
<1> QED
  BY <1>1, <1>8, <1>9, <1>10 DEF Good

-----------------------------------------------------------------------------
(* The handler. *)

\* A step of the handler on another entry than the call's does not change what
\* the call knows of its own.
LEMMA HandKept ==
    ASSUME TypedCall, InHand, UNCHANGED query, NEW i \in Slots,
           pc \notin {"recycle", "take", "mark"}, pc # "idle" => i # cur,
           pc = "index" => hint' = hint, hint' \in Slots,
           handed' \in Nat, handed <= handed',
           \A j \in Slots : j # i => /\ state'[j] = state[j] /\ ipaddr'[j] = ipaddr[j]
                                     /\ queue'[j] = queue[j]
    PROVE  TypedCall' /\ InHand'
<1>1. UNCHANGED <<pc, cur, pkt, r>> /\ cur \in Slots /\ handed \in Nat
  BY DEF query, TypedCall
<1>2. TypedCall'
  BY <1>1 DEF TypedCall
<1>3. CASE pc = "idle"
  BY <1>1, <1>2, <1>3 DEF InHand, WithPacket
<1>4. CASE pc = "tmr"
  BY <1>1, <1>2, <1>4 DEF InHand, WithPacket
<1>5. CASE pc \notin {"idle", "tmr"}
  <2>1. state'[cur] = state[cur] /\ ipaddr'[cur] = ipaddr[cur] /\ queue'[cur] = queue[cur]
    BY <1>1, <1>5
  <2>2. pkt # None /\ pkt \in Packet /\ pkt.no <= handed
    BY <1>5 DEF InHand, TypedCall
  <2>3. pkt.no <= handed'
    <3>1. pkt.no \in Nat
      BY <2>2 DEF Packet
    <3> QED BY <1>1, <2>2, <3>1
  <2> QED
    BY <1>1, <1>2, <1>5, <2>1, <2>2, <2>3 DEF InHand, WithPacket
<1> QED
  BY <1>2, <1>3, <1>4, <1>5

\* etharp_update_arp_entry on entry i does not disturb the call.
LEMMA UpdateStep ==
    ASSUME Good, NEW h \in Hosts, NEW mac \in Macs, NEW i \in Slots,
           Match(h) # {} => i \in Match(h), ~raced',
           UpdateEntry(i, h, mac), UNCHANGED <<hint, query, counts>>
    PROVE  Good'
<1>1. /\ TableInv /\ TypedTable /\ QueuesInOrder /\ PoolInv /\ InHand /\ TypedCall /\ wrong = FALSE
      /\ UNCHANGED <<pc, cur, pkt, r, hint, handed>>
      /\ handed' \in Nat /\ handed <= handed' /\ hint' \in Slots
  BY DEF Good, TableInv, TypedCall, query, counts
<1>2. free_etharp_q(i) /\ \A j \in Slots : queue'[j] = IF j = i THEN << >> ELSE queue[j]
  BY <1>1 DEF UpdateEntry, free_etharp_q, TypedTable
<1>3. \A j \in Slots :
        /\ state'[j] = IF j = i THEN "stable" ELSE state[j]
        /\ ipaddr'[j] = IF j = i THEN h ELSE ipaddr[j]
        /\ ethaddr'[j] = IF j = i THEN mac ELSE ethaddr[j]
        /\ ctime'[j] = IF j = i THEN 0 ELSE ctime[j]
  BY <1>1 DEF UpdateEntry, TypedTable
<1>4. \A g \in Hosts : heard'[g] = IF g = h THEN mac
                                   ELSE IF i \in Match(g) THEN None ELSE heard[g]
  BY DEF UpdateEntry, Forget
<1>5. TypedTable'
  <2>1. state' \in [Slots -> States]
    BY <1>1 DEF UpdateEntry, TypedTable, States, Stable
  <2>2. ipaddr' \in [Slots -> Hosts \cup {None}] /\ ethaddr' \in [Slots -> Macs \cup {None}]
    BY <1>1 DEF UpdateEntry, TypedTable
  <2>3. ctime' \in [Slots -> Nat]
    BY <1>1 DEF UpdateEntry, TypedTable
  <2>4. heard' \in [Hosts -> Macs \cup {None}]
    BY <1>1 DEF UpdateEntry, Forget, TypedTable
  <2>5. queue' \in [Slots -> Seq(Packet)]
    BY <1>1, <1>2, EmptyOrdered DEF free_etharp_q, TypedTable
  <2> QED BY <2>1, <2>2, <2>3, <2>4, <2>5 DEF TypedTable
<1>6. \A j \in Slots : j # i /\ state[j] # "empty" => ipaddr[j] # h
  BY <1>1 DEF TableInv, Unique, Match
<1>7. Unique'
  BY <1>1, <1>3, <1>6 DEF TableInv, Unique
<1>8. StableHasNoQueue'
  BY <1>1, <1>2, <1>3 DEF TableInv, StableHasNoQueue
<1>9. Fresh'
  <2> SUFFICES ASSUME NEW j \in Slots, state'[j] \in Stable
               PROVE  ethaddr'[j] = heard'[ipaddr'[j]] /\ ctime'[j] < MaxAge
    BY DEF Fresh, Resolved
  <2>1. CASE j = i
    BY <1>3, <1>4, <2>1, Constants
  <2>2. CASE j # i
    <3>1. state[j] \in Stable /\ state[j] # "empty"
      BY <1>3, <2>2 DEF Stable
    <3>2. ipaddr[j] \in Hosts /\ ipaddr[j] # h /\ i \notin Match(ipaddr[j])
      BY <1>1, <1>6, <2>2, <3>1 DEF TableInv, Unique, Match
    <3> QED
      BY <1>1, <1>3, <1>4, <2>2, <3>1, <3>2 DEF TableInv, Fresh, Resolved
  <2> QED BY <2>1, <2>2
<1>10. QueuesInOrder'
  BY <1>1, <1>2, <1>3, EmptyOrdered DEF QueuesInOrder
<1>11. wrong' = FALSE
  <2>1. CASE Match(h) = {}
    <3>1. Transmit(<< >>, mac)
      BY <2>1 DEF UpdateEntry
    <3>2. 1 .. Len(<< >>) = {}
      OBVIOUS
    <3> QED BY <1>1, <3>1, <3>2, TransmitRight
  <2>2. CASE Match(h) # {}
    <3>1. Transmit(queue[i], mac)
      BY <2>2 DEF UpdateEntry
    <3>2. ipaddr[i] = h /\ Ordered(queue[i], h, handed)
      BY <1>1, <2>2 DEF Match, QueuesInOrder
    <3>3. ASSUME NEW k \in 1 .. Len(queue[i])
          PROVE  /\ mac = heard'[queue[i][k].ip]
                 /\ \A l \in 1 .. (k - 1) : ~(queue[i][l].no >= queue[i][k].no)
                 /\ \A j \in Slots : \A m \in 1 .. Len(queue'[j]) :
                       ~(queue'[j][m].ip = queue[i][k].ip /\ queue'[j][m].no <= queue[i][k].no)
      <4>1. queue[i][k].ip = h
        BY <3>2 DEF Ordered
      <4>2. \A l \in 1 .. Len(queue[i]) : queue[i][l].no \in Nat
        <5>1. \A l \in 1 .. Len(queue[i]) : queue[i][l] \in Packet
          BY <1>1 DEF TypedTable
        <5> QED BY <5>1 DEF Packet
      <4>3. \A l \in 1 .. (k - 1) : ~(queue[i][l].no >= queue[i][k].no)
        <5>1. Len(queue[i]) \in Nat
          BY <1>1 DEF TypedTable
        <5>2. \A l \in 1 .. (k - 1) : l \in 1 .. Len(queue[i]) /\ queue[i][l].no < queue[i][k].no
          BY <3>2, <5>1 DEF Ordered
        <5> QED BY <4>2, <5>2
      <4>4. ASSUME NEW j \in Slots, NEW m \in 1 .. Len(queue'[j])
            PROVE  queue'[j][m].ip # h
        <5>1. CASE j = i
          BY <1>2, <5>1
        <5>2. CASE j # i
          <6>1. queue'[j] = queue[j] /\ queue[j] # << >>
            BY <1>2, <5>2
          <6>2. state[j] # "empty" /\ queue[j][m].ip = ipaddr[j]
            BY <1>1, <6>1 DEF TableInv, StableHasNoQueue, QueuesInOrder, Ordered
          <6> QED BY <1>6, <5>2, <6>1, <6>2
        <5> QED BY <5>1, <5>2
      <4> QED BY <1>4, <4>1, <4>3, <4>4
    <3> QED
      BY <1>1, <3>1, <3>3, TransmitRight
  <2> QED BY <2>1, <2>2
<1>12. PoolInv'
  BY <1>1, <1>2, QueueFreed DEF TypedTable
<1>13. TypedCall' /\ InHand'
  <2>1. ~Disturbs(i) \/ (pc = "test" /\ ipaddr[i] = h)
    BY DEF UpdateEntry
  <2>2. CASE pc = "test" /\ i = cur
    <3>1. TypedCall'
      BY <1>1 DEF TypedCall
    <3>2. ipaddr[cur] = pkt.ip /\ ipaddr'[cur] = h /\ state'[cur] = "stable" /\ queue'[cur] = << >>
      BY <1>1, <1>2, <1>3, <2>2 DEF InHand, WithPacket
    <3>3. ipaddr[cur] = h
      BY <2>1, <2>2 DEF Disturbs
    <3>4. pkt.no # 0 /\ pkt # None /\ pkt.no <= handed
      BY <1>1, <2>2 DEF InHand, WithPacket
    <3> QED BY <1>1, <2>2, <3>1, <3>2, <3>3, <3>4, EmptyOrdered DEF InHand, WithPacket
  <2>3. CASE ~(pc = "test" /\ i = cur)
    <3>1. /\ pc \notin {"recycle", "take", "mark"} /\ (pc # "idle" => i # cur)
      BY <2>1, <2>3 DEF Disturbs
    <3> QED BY <1>1, <1>2, <1>3, <3>1, HandKept
  <2> QED BY <2>2, <2>3
<1> QED
  BY <1>5, <1>7, <1>8, <1>9, <1>10, <1>11, <1>12, <1>13 DEF Good, TableInv

\* etharp_output in the handler for a host with a stable entry.
LEMMA HandlerOutputStep ==
    ASSUME Good, NEW h \in Hosts, HandlerOutput(h), ~raced'
    PROVE  Good'
<1>1. PICK i \in Slots : /\ UsedEntry(h, i) /\ hint' = i /\ ToArpIndex(i, NextPacket(h))
                         /\ ~Disturbs(i)
  BY DEF HandlerOutput
<1>2. /\ TableInv /\ QueuesInOrder /\ PoolInv /\ InHand /\ TypedCall /\ wrong = FALSE
      /\ UNCHANGED query /\ pc' = pc /\ handed \in Nat /\ handed' \in Nat /\ handed <= handed'
  BY DEF Good, TypedCall, HandlerOutput, query
<1>3. state[i] \in Stable /\ ipaddr[i] = NextPacket(h).ip
  BY <1>1 DEF UsedEntry, First, ResolvedFor, Resolved, NextPacket
<1> DEFINE p == NextPacket(h)
<1>4. p.ip = ipaddr[i] /\ ToArpIndex(i, p)
  BY <1>1, <1>3
<1> HIDE DEF p
<1>5. /\ TableInv' /\ QueuesInOrder' /\ wrong' = FALSE
      /\ \A j \in Slots : j # i => state'[j] = state[j]
      /\ UNCHANGED <<ipaddr, queue, qfree>>
  BY <1>2, <1>3, <1>4, ToArpIndexStep
<1>6. PoolInv'
  BY <1>2, <1>5, PoolKept
<1>7. /\ pc \notin {"recycle", "take", "mark"} /\ (pc # "idle" => i # cur)
      /\ (pc = "index" => hint' = hint) /\ hint' \in Slots
  BY <1>1 DEF Disturbs
<1>8. TypedCall' /\ InHand'
  BY <1>2, <1>5, <1>7, HandKept
<1> QED
  BY <1>5, <1>6, <1>8 DEF Good

\* etharp_query in the handler, for a host that is pending or unknown.
LEMMA HandlerQueryStep ==
    ASSUME Good, NEW h \in Hosts, HandlerQuery(h), ~raced'
    PROVE  Good'
<1> DEFINE known == Match(h) # {}
           p == NextPacket(h)
<1>1. PICK i \in Slots :
        LET kept == IF known THEN queue[i] ELSE << >>
        IN  /\ FindEntry(h, i)
            /\ state' = [state EXCEPT ![i] = "pending"]
            /\ ipaddr' = [ipaddr EXCEPT ![i] = h]
            /\ ethaddr' = [ethaddr EXCEPT ![i] = IF known THEN @ ELSE None]
            /\ ctime' = [ctime EXCEPT ![i] = IF known THEN @ ELSE 0]
            /\ heard' = IF known THEN heard ELSE Forget(i)
            /\ \/ queue' = [queue EXCEPT ![i] = kept]
               \/ queue' = [queue EXCEPT ![i] = Enqueued(kept, p)]
            /\ qfree' = qfree + Len(queue[i]) - Len(queue'[i])
            /\ ~Disturbs(i)
  BY DEF HandlerQuery
<1> DEFINE kept == IF known THEN queue[i] ELSE << >>
<1>2. /\ TableInv /\ TypedTable /\ QueuesInOrder /\ PoolInv /\ InHand /\ TypedCall
      /\ UNCHANGED <<query, hint, wrong>> /\ pc' = pc /\ hint' \in Slots /\ wrong = FALSE
      /\ handed \in Nat /\ handed' = handed + 1 /\ handed' \in Nat /\ handed <= handed'
  BY DEF Good, TableInv, TypedCall, HandlerQuery, query
<1>3. p \in Packet /\ p.ip = h /\ p.no = handed + 1 /\ p.no = handed' /\ p.no > handed
  BY <1>2 DEF NextPacket, Packet
<1>4. known => state[i] = "pending" /\ ipaddr[i] = h
  <2>1. known => i \in Match(h)
    BY <1>1, FoundSlot
  <2>2. ResolvedFor(h) = {}
    BY DEF HandlerQuery
  <2> QED BY <1>2, <2>1, <2>2 DEF Match, ResolvedFor, Resolved, TypedTable, States
<1>5. kept \in Seq(Packet) /\ Ordered(kept, h, handed) /\ Len(kept) <= QueueLen
  <2>1. CASE known
    BY <1>2, <1>4, <2>1 DEF TypedTable, QueuesInOrder, PoolInv
  <2>2. CASE ~known
    <3>1. Len(<< >>) = 0 /\ kept = << >>
      BY <2>2
    <3>2. Len(kept) <= QueueLen
      BY <3>1, Constants
    <3> HIDE DEF kept
    <3> QED BY <3>1, <3>2, EmptyOrdered
  <2> QED BY <2>1, <2>2
<1> HIDE DEF known, p
<1>6. PICK s \in Seq(Packet) : /\ queue' = [queue EXCEPT ![i] = s]
                               /\ Ordered(s, h, handed') /\ Len(s) <= QueueLen
  <2>1. CASE queue' = [queue EXCEPT ![i] = kept]
    <3> HIDE DEF kept
    <3>1. Ordered(kept, h, handed')
      BY <1>2, <1>5, OrderedLater
    <3> QED BY <1>5, <2>1, <3>1
  <2>2. CASE queue' = [queue EXCEPT ![i] = Enqueued(kept, p)]
    <3> HIDE DEF kept
    <3>1. Enqueued(kept, p) \in Seq(Packet) /\ Ordered(Enqueued(kept, p), h, p.no)
      BY <1>2, <1>3, <1>5, EnqueuedOrdered
    <3>2. Len(Enqueued(kept, p)) <= QueueLen
      BY <1>3, <1>5, EnqueuedLen
    <3> QED BY <1>3, <2>2, <3>1, <3>2
  <2> QED BY <1>1, <2>1, <2>2
<1>7. \A j \in Slots :
        /\ state'[j] = IF j = i THEN "pending" ELSE state[j]
        /\ ipaddr'[j] = IF j = i THEN h ELSE ipaddr[j]
        /\ j # i => ethaddr'[j] = ethaddr[j] /\ ctime'[j] = ctime[j]
        /\ queue'[j] = IF j = i THEN s ELSE queue[j]
  BY <1>1, <1>2, <1>6 DEF TypedTable
<1>8. TypedTable'
  <2>1. state' \in [Slots -> States]
    BY <1>1, <1>2 DEF TypedTable, States
  <2>2. ipaddr' \in [Slots -> Hosts \cup {None}]
    BY <1>1, <1>2 DEF TypedTable
  <2>3. ethaddr' \in [Slots -> Macs \cup {None}]
    BY <1>1, <1>2 DEF TypedTable
  <2>4. ctime' \in [Slots -> Nat]
    BY <1>1, <1>2 DEF TypedTable
  <2>5. heard' \in [Hosts -> Macs \cup {None}]
    BY <1>1, <1>2 DEF TypedTable, Forget
  <2>6. queue' \in [Slots -> Seq(Packet)]
    BY <1>2, <1>6 DEF TypedTable
  <2> QED BY <2>1, <2>2, <2>3, <2>4, <2>5, <2>6 DEF TypedTable
<1>9. \A j \in Slots : j # i /\ state[j] # "empty" => ipaddr[j] # h
  <2>1. known => state[i] # "empty" /\ ipaddr[i] = h
    BY <1>4
  <2> QED BY <1>2, <2>1 DEF TableInv, Unique, Match, known
<1>10. Unique'
  BY <1>2, <1>7, <1>9 DEF TableInv, Unique
<1>11. StableHasNoQueue'
  BY <1>2, <1>7 DEF TableInv, StableHasNoQueue
<1>12. Fresh'
  <2> SUFFICES ASSUME NEW j \in Slots, state'[j] \in Stable
               PROVE  ethaddr'[j] = heard'[ipaddr'[j]] /\ ctime'[j] < MaxAge
    BY DEF Fresh, Resolved
  <2>1. j # i /\ state[j] \in Stable /\ state[j] # "empty"
    BY <1>7 DEF Stable
  <2>2. ipaddr[j] \in Hosts /\ i \notin Match(ipaddr[j])
    BY <1>2, <2>1 DEF TableInv, Unique, Match
  <2>3. heard'[ipaddr[j]] = heard[ipaddr[j]]
    BY <1>1, <2>2 DEF Forget
  <2> QED
    BY <1>2, <1>7, <2>1, <2>3 DEF TableInv, Fresh, Resolved
<1>13. QueuesInOrder'
  <2> SUFFICES ASSUME NEW j \in Slots PROVE Ordered(queue'[j], ipaddr'[j], handed')
    BY DEF QueuesInOrder
  <2>1. CASE j = i
    BY <1>6, <1>7, <2>1
  <2>2. CASE j # i
    <3>1. queue[j] \in Seq(Packet) /\ Ordered(queue[j], ipaddr[j], handed)
      BY <1>2 DEF TypedTable, QueuesInOrder
    <3>2. Ordered(queue[j], ipaddr[j], handed')
      BY <1>2, <3>1, OrderedLater
    <3> QED BY <1>7, <2>2, <3>2
  <2> QED BY <2>1, <2>2
<1>14. PoolInv'
  <2>1. PICK t \in Nat : t = IF pc = "link" THEN 1 ELSE 0
    OBVIOUS
  <2>2. t = IF pc' = "link" THEN 1 ELSE 0
    BY <1>2, <2>1
  <2>3. /\ queue[i] \in Seq(Packet) /\ queue'[i] \in Seq(Packet) /\ Len(queue'[i]) <= QueueLen
        /\ \A j \in Slots : j # i => queue'[j] = queue[j]
    BY <1>2, <1>6, <1>7 DEF TypedTable
  <2>4. Len(queue[i]) \in Nat /\ Len(queue'[i]) \in Nat /\ qfree \in Int
    BY <1>2, <2>3 DEF PoolInv
  <2>5. qfree' = qfree + t - t + Len(queue[i]) - Len(queue'[i])
    <3>1. PICK m \in Nat, n \in Nat : m = Len(queue[i]) /\ n = Len(queue'[i])
      BY <2>4
    <3>2. qfree' = qfree + m - n
      BY <1>1, <3>1
    <3>3. qfree + t - t + m - n = qfree + m - n
      BY <2>4
    <3> QED BY <3>1, <3>2, <3>3
  <2> QED BY <1>2, <2>1, <2>2, <2>3, <2>5, QueueChange
<1>15. TypedCall' /\ InHand'
  <2>1. /\ pc \notin {"recycle", "take", "mark"} /\ (pc # "idle" => i # cur)
    BY <1>1 DEF Disturbs
  <2> QED BY <1>2, <1>7, <2>1, HandKept
<1> QED
  BY <1>2, <1>8, <1>10, <1>11, <1>12, <1>13, <1>14, <1>15 DEF Good, TableInv

-----------------------------------------------------------------------------
(* The invariant. *)

\* Every step keeps what holds until a call is disturbed.
LEMMA Inductive == IInv /\ [Next]_vars => IInv'
<1> SUFFICES ASSUME IInv, [Next]_vars, ~raced' PROVE Good'
  BY DEF IInv
<1>1. CASE UNCHANGED vars
  <2>1. /\ UNCHANGED <<state, ipaddr, ethaddr, ctime, queue, hint, qfree>>
        /\ UNCHANGED <<pc, cur, pkt, r, handed, heard, wrong, raced>>
    BY <1>1 DEF vars
  <2>2. Good
    BY <2>1 DEF IInv
  <2>3. TypedCall' /\ InHand'
    BY <2>1, <2>2 DEF Good, TypedCall, InHand, Match
  <2>4. TableInv' /\ QueuesInOrder'
    <3>1. handed \in Nat /\ handed' \in Nat /\ handed <= handed'
      BY <2>1, <2>2 DEF Good, TypedCall
    <3> QED BY <2>1, <2>2, <3>1, TableKept DEF Good
  <2>5. PoolInv'
    BY <2>1, <2>2, PoolKept DEF Good
  <2> QED BY <2>1, <2>2, <2>3, <2>4, <2>5 DEF Good
<1>2. CASE etharp_tmr
  <2>1. Good
    BY <1>2 DEF IInv, etharp_tmr, TmrBegin, TmrEntry
  <2> QED BY <1>2, <2>1, TmrBeginStep, TmrEntryStep DEF etharp_tmr
<1>3. CASE Begin
  <2>1. PICK h \in Hosts : OutputFind(h) \/ QueryPacket(h) \/ QueryAddress(h)
    BY <1>3 DEF Begin
  <2>2. Good
    BY <2>1 DEF IInv, OutputFind, QueryPacket, QueryAddress
  <2> QED BY <2>1, <2>2, OutputFindStep, QueryPacketStep, QueryAddressStep
<1>4. CASE OutputIndex
  <2>1. Good
    BY <1>4 DEF IInv, OutputIndex
  <2> QED BY <1>4, <2>1, OutputIndexStep
<1>5. CASE Query
  <2>1. Good
    BY <1>5 DEF IInv, Query, QueryRecycle, QueryTake, QueryMark, QueryTest, QueryUse,
                QueryElement, QueryLink
  <2> QED
    BY <1>5, <2>1, QueryRecycleStep, QueryTakeStep, QueryMarkStep, QueryTestStep,
       QueryUseStep, QueryElementStep, QueryLinkStep DEF Query
<1>6. CASE Handler
  <2>1. PICK h \in Hosts :
          \/ \E mac \in Macs : InputNotForUs(h, mac) \/ InputForUs(h, mac)
          \/ HandlerOutput(h)
          \/ HandlerQuery(h)
    BY <1>6 DEF Handler
  <2>2. ASSUME NEW mac \in Macs, InputNotForUs(h, mac) \/ InputForUs(h, mac)
        PROVE  Good'
    <3>1. PICK i \in Slots : UpdateEntry(i, h, mac) /\ (Match(h) # {} => i \in Match(h))
      BY <2>2, FoundSlot DEF InputNotForUs, InputForUs, Match
    <3>2. Good
      BY <3>1 DEF IInv, UpdateEntry
    <3>3. UNCHANGED <<hint, query, counts>>
      BY <2>2 DEF InputNotForUs, InputForUs
    <3> QED BY <3>1, <3>2, <3>3, UpdateStep
  <2>3. CASE HandlerOutput(h)
    <3>1. Good
      BY <2>3 DEF IInv, HandlerOutput
    <3> QED BY <2>3, <3>1, HandlerOutputStep
  <2>4. CASE HandlerQuery(h)
    <3>1. Good
      BY <2>4 DEF IInv, HandlerQuery
    <3> QED BY <2>4, <3>1, HandlerQueryStep
  <2> QED BY <2>1, <2>2, <2>3, <2>4
<1> QED
  BY <1>1, <1>2, <1>3, <1>4, <1>5, <1>6 DEF Next

\* The invariant holds in every reachable state.
LEMMA ArpInvariant == Spec => []IInv
<1> QED
  BY InitHolds, Inductive, PTL DEF Spec

\* Two entries of arp_table stand for the same host only after the handler
\* has disturbed a call of the main loop, whatever etharp_find_entry recycles
\* in either of them and however the steps of the two interleave.
THEOREM HostHasOneEntry ==
    Spec => []OneEntryPerHost
<1>1. IInv => OneEntryPerHost
  BY DEF IInv, Good, TableInv, Unique, OneEntryPerHost
<1> QED
  BY <1>1, ArpInvariant, PTL

\* A queue is left on an entry that is not pending only after the handler has
\* disturbed a call: the comment at etharp.c:364 holds with the handler at any
\* other place, an answer just before etharp_query tests the state included.
THEOREM OnlyPendingHasQueue ==
    Spec => []QueueOnlyWhilePending
<1>1. IInv => QueueOnlyWhilePending
  BY DEF IInv, Good, TableInv, QueueOnlyWhilePending
<1> QED
  BY <1>1, ArpInvariant, PTL

\* A resolved entry has the address its host announced last and has not
\* reached ARP_MAXAGE, until the handler disturbs a call
\* (etharp_update_arp_entry, etharp_tmr).
THEOREM ResolvedEntriesAreFresh ==
    Spec => []ResolvedIsFresh
<1>1. IInv => ResolvedIsFresh
  BY DEF IInv, Good, TableInv, Fresh, ResolvedIsFresh
<1> QED
  BY <1>1, ArpInvariant, PTL

\* A packet goes to another host, to an address given up, out of order or
\* twice only after the handler has disturbed a call (etharp_output,
\* etharp_query and the queue sent by etharp_update_arp_entry).
THEOREM PacketsReachTheirHost ==
    Spec => []RightHostInOrder
<1>1. IInv => RightHostInOrder
  BY DEF IInv, Good, RightHostInOrder
<1> QED
  BY <1>1, ArpInvariant, PTL

\* The elements of MEMP_ARP_QUEUE in the queues, in the pool and in the hands
\* of etharp_query add up to its size, and no queue exceeds ARP_QUEUE_LEN,
\* until the handler disturbs a call; between taking the element and linking
\* it the handler may work on the other entries as long as it leaves the
\* queues alone.
THEOREM QueueElementsConserved ==
    Spec => []QueuePoolConserved
<1>1. IInv => QueuePoolConserved
  BY DEF IInv, Good, PoolInv, Taken, QueuePoolConserved
<1> QED
  BY <1>1, ArpInvariant, PTL
=============================================================================
