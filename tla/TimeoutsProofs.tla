--------------------------- MODULE TimeoutsProofs ---------------------------
(***************************************************************************)
(* Proofs about lwIP's timeout list, for every set of timers, every pool   *)
(* that is large enough, every counter and every tick.                     *)
(***************************************************************************)
EXTENDS Timeouts, FiniteSetTheorems, TLAPS

Entry == [id : Timers, time : Counter]

Ids(s) == {s[i].id : i \in 1 .. Len(s)}
Distinct(s) == \A i, j \in 1 .. Len(s) : i # j => s[i].id # s[j].id

\* TimersKept over the list itself; the pool's size is left out because it
\* follows from the number of timers.
Running(t) == pc = "handler" /\ cur = t
Kept ==
    /\ Distinct(next_timeout)
    /\ \A t \in Cyclic : t \in Ids(next_timeout) \/ Running(t)
    /\ tcp_active = (Tcp \in Ids(next_timeout) \/ Running(Tcp))
    /\ pcb => tcp_active
    /\ pc = "handler" => cur \notin Ids(next_timeout)

IInv == TypeOK /\ Kept

-----------------------------------------------------------------------------

\* The set of timers is finite and the pool has an element for each.
LEMMA TimersFinite ==
    /\ IsFiniteSet(Timers) /\ Cardinality(Timers) \in Nat
    /\ PoolSize \in Nat /\ Cardinality(Timers) <= PoolSize
<1>1. IsFiniteSet(Cyclic) /\ Tcp \notin Cyclic /\ PoolSize \in Nat /\ PoolSize > Cardinality(Cyclic)
  BY TimeoutsAssumption DEF TimeoutsAssumption
<1>2. Cardinality(Cyclic) \in Nat
  BY <1>1, FS_CardinalityType
<1>3. IsFiniteSet(Cyclic \cup {Tcp}) /\ Cardinality(Cyclic \cup {Tcp}) = Cardinality(Cyclic) + 1
  BY <1>1, FS_AddElement
<1> QED
  BY <1>1, <1>2, <1>3 DEF Timers

\* A list without duplicates that misses a timer leaves room in the pool.
LEMMA Room ==
    ASSUME NEW s \in Seq(Entry), Distinct(s), NEW id \in Timers, id \notin Ids(s)
    PROVE  Len(s) < PoolSize
<1> DEFINE D == 1 .. Len(s)
           T == Timers \ {id}
           f == [i \in D |-> s[i].id]
<1>1. Len(s) \in Nat /\ \A i \in D : s[i] \in Entry
  OBVIOUS
<1>2. \A i \in D : s[i].id \in Timers
  BY <1>1 DEF Entry
<1>3. f \in Injection(D, T)
  <2>1. \A i \in D : s[i].id \in T
    BY <1>2 DEF Ids
  <2>2. f \in [D -> T]
    BY <2>1
  <2>3. \A i, j \in D : f[i] = f[j] => i = j
    BY DEF Distinct
  <2> QED
    BY <2>2, <2>3 DEF Injection, IsInjective
<1>4. IsFiniteSet(T) /\ Cardinality(T) = Cardinality(Timers) - 1
  BY TimersFinite, FS_RemoveElement
<1>5. Cardinality(D) <= Cardinality(T)
  <2> HIDE DEF D, T, f
  <2> QED BY <1>3, <1>4, FS_Injection
<1>6. Cardinality(D) = Len(s)
  <2>1. 1 \in Int /\ Len(s) \in Int
    BY <1>1
  <2>2. Cardinality(1 .. Len(s)) = IF 1 > Len(s) THEN 0 ELSE Len(s) - 1 + 1
    BY <2>1, FS_Interval
  <2> QED BY <1>1, <2>2
<1> QED
  BY <1>1, <1>4, <1>5, <1>6, TimersFinite

\* What inserting an entry does to a list.
LEMMA InsertedList ==
    ASSUME NEW s \in Seq(Entry), NEW k \in 0 .. Len(s), NEW e \in Entry,
           Distinct(s), e.id \notin Ids(s)
    PROVE  /\ Inserted(s, k, e) \in Seq(Entry)
           /\ Distinct(Inserted(s, k, e))
           /\ Ids(Inserted(s, k, e)) = Ids(s) \cup {e.id}
<1> DEFINE n == Len(s)
           r == Inserted(s, k, e)
<1>1. n \in Nat /\ \A i \in 1 .. n : s[i] \in Entry
  OBVIOUS
<1>2. r = [i \in 1 .. (n + 1) |->
              IF i <= k THEN s[i] ELSE IF i = k + 1 THEN e ELSE s[i - 1]]
  BY DEF Inserted
<1>3. \A i \in 1 .. (n + 1) : r[i] \in Entry
  BY <1>1, <1>2
<1>4. r \in Seq(Entry) /\ Len(r) = n + 1
  <2>1. r \in [1 .. (n + 1) -> Entry]
    BY <1>2, <1>3
  <2> HIDE DEF r
  <2> QED BY <1>1, <2>1
<1>5. Distinct(r)
  <2> SUFFICES ASSUME NEW i \in 1 .. (n + 1), NEW j \in 1 .. (n + 1), i < j
               PROVE  r[i].id # r[j].id
    BY <1>1, <1>4 DEF Distinct
  <2>1. \A m \in 1 .. n : s[m].id # e.id
    BY DEF Ids
  <2>2. \A a, b \in 1 .. n : a # b => s[a].id # s[b].id
    BY DEF Distinct
  <2>3. CASE j <= k
    BY <1>1, <1>2, <2>2, <2>3
  <2>4. CASE j = k + 1
    BY <1>1, <1>2, <2>1, <2>4
  <2>5. CASE j > k + 1 /\ i = k + 1
    BY <1>1, <1>2, <2>1, <2>5
  <2>6. CASE j > k + 1 /\ i <= k
    BY <1>1, <1>2, <2>2, <2>6
  <2>7. CASE j > k + 1 /\ i > k + 1
    BY <1>1, <1>2, <2>2, <2>7
  <2> QED
    BY <1>1, <2>3, <2>4, <2>5, <2>6, <2>7
<1>6. Ids(r) = Ids(s) \cup {e.id}
  <2>1. ASSUME NEW i \in 1 .. (n + 1) PROVE r[i].id \in Ids(s) \cup {e.id}
    <3>1. CASE i <= k
      <4>1. i \in 1 .. n /\ r[i] = s[i]
        BY <1>1, <1>2, <3>1
      <4> QED BY <4>1 DEF Ids
    <3>2. CASE i = k + 1
      BY <1>1, <1>2, <3>2
    <3>3. CASE i > k + 1
      <4>1. i - 1 \in 1 .. n /\ r[i] = s[i - 1]
        BY <1>1, <1>2, <3>3
      <4> QED BY <4>1 DEF Ids
    <3> QED BY <1>1, <3>1, <3>2, <3>3
  <2>2. r[k + 1] = e /\ k + 1 \in 1 .. (n + 1)
    BY <1>1, <1>2
  <2>3. ASSUME NEW i \in 1 .. n PROVE \E j \in 1 .. (n + 1) : r[j] = s[i]
    <3>1. CASE i <= k
      BY <1>1, <1>2, <3>1
    <3>2. CASE i > k
      <4>1. i + 1 \in 1 .. (n + 1) /\ r[i + 1] = s[i]
        BY <1>1, <1>2, <3>2
      <4> QED BY <4>1
    <3> QED BY <1>1, <3>1, <3>2
  <2>4. ASSUME NEW x PROVE x \in Ids(r) <=> x \in Ids(s) \cup {e.id}
    <3> HIDE DEF r
    <3>1. x \in Ids(r) => x \in Ids(s) \cup {e.id}
      BY <1>4, <2>1 DEF Ids
    <3>2. x \in Ids(s) => x \in Ids(r)
      BY <1>4, <2>3 DEF Ids
    <3>3. e.id \in Ids(r)
      BY <1>4, <2>2 DEF Ids
    <3> QED BY <3>1, <3>2, <3>3
  <2> HIDE DEF r
  <2> QED BY <2>4
<1> QED
  BY <1>4, <1>5, <1>6

\* Taking the head off a list.
LEMMA TailOfList ==
    ASSUME NEW s \in Seq(Entry), s # << >>, Distinct(s)
    PROVE  /\ Tail(s) \in Seq(Entry) /\ Head(s) \in Entry
           /\ Distinct(Tail(s))
           /\ Ids(Tail(s)) = Ids(s) \ {Head(s).id}
           /\ Head(s).id \in Ids(s)
<1>1. Len(s) \in Nat /\ Len(s) >= 1 /\ Head(s) = s[1] /\ Tail(s) \in Seq(Entry) /\ Head(s) \in Entry
  OBVIOUS
<1>2. Len(Tail(s)) = Len(s) - 1 /\ \A i \in 1 .. (Len(s) - 1) : Tail(s)[i] = s[i + 1]
  OBVIOUS
<1>3. Distinct(Tail(s))
  BY <1>1, <1>2 DEF Distinct
<1>4. ASSUME NEW x PROVE x \in Ids(Tail(s)) <=> x \in Ids(s) \ {Head(s).id}
  <2>1. ASSUME x \in Ids(Tail(s)) PROVE x \in Ids(s) \ {Head(s).id}
    <3>1. PICK i \in 1 .. (Len(s) - 1) : x = s[i + 1].id
      BY <1>1, <1>2, <2>1 DEF Ids
    <3> QED BY <1>1, <3>1 DEF Ids, Distinct
  <2>2. ASSUME x \in Ids(s) \ {Head(s).id} PROVE x \in Ids(Tail(s))
    <3>1. PICK i \in 1 .. Len(s) : x = s[i].id
      BY <2>2 DEF Ids
    <3>2. i # 1
      BY <1>1, <2>2, <3>1
    <3>3. i - 1 \in 1 .. (Len(s) - 1) /\ Tail(s)[i - 1] = s[i]
      BY <1>1, <1>2, <3>2
    <3> QED BY <1>1, <1>2, <3>1, <3>3 DEF Ids
  <2> QED BY <2>1, <2>2
<1> QED
  BY <1>1, <1>3, <1>4 DEF Ids

\* A timer that is not on the list finds an element in the pool and is
\* inserted, wherever its time puts it.
LEMMA TimeoutInserted ==
    ASSUME TypeOK, Distinct(next_timeout),
           NEW id \in Timers, id \notin Ids(next_timeout),
           NEW time \in Counter, sys_timeout_abs(id, time)
    PROVE  /\ next_timeout' \in Seq(Entry)
           /\ Distinct(next_timeout')
           /\ Ids(next_timeout') = Ids(next_timeout) \cup {id}
<1> DEFINE e == [id |-> id, time |-> time]
<1>1. next_timeout \in Seq(Entry)
  BY DEF TypeOK, Entry
<1>2. Len(next_timeout) < PoolSize
  BY <1>1, Room
<1>3. PICK k \in 0 .. Len(next_timeout) : next_timeout' = Inserted(next_timeout, k, e)
  BY <1>1, <1>2, TimersFinite DEF sys_timeout_abs
<1>4. e \in Entry /\ e.id = id
  BY DEF Entry
<1> HIDE DEF e
<1>5. /\ Inserted(next_timeout, k, e) \in Seq(Entry)
      /\ Distinct(Inserted(next_timeout, k, e))
      /\ Ids(Inserted(next_timeout, k, e)) = Ids(next_timeout) \cup {e.id}
  BY <1>1, <1>4, InsertedList
<1> QED
  BY <1>3, <1>4, <1>5

-----------------------------------------------------------------------------

\* What the assumption says of single constants.
LEMMA Constants ==
    /\ Modulus \in Nat /\ Modulus > 0 /\ TickMs \in Nat
    /\ Len(Periodic) \in Nat /\ Len(Periodic) > 0
    /\ \A t \in Timers : Interval[t] \in Nat /\ Interval[t] < Modulus
<1>1. /\ Interval \in [Timers -> Nat] /\ Tcp \in Timers
      /\ TickMs \in Nat /\ MaxLate \in Nat /\ Modulus \in Nat
      /\ \A t \in Timers : 2 * (Interval[t] + MaxLate) < Modulus
      /\ Periodic \in Seq(Timers) /\ Periodic # << >>
  BY TimeoutsAssumption DEF TimeoutsAssumption, Timers
<1>2. \A t \in Timers : Interval[t] \in Nat
  BY <1>1
<1>3. Len(Periodic) \in Nat /\ Len(Periodic) > 0
  BY <1>1
<1> QED
  BY <1>1, <1>2, <1>3

\* A wrapped sum is a counter value.
LEMMA Wraps ==
    ASSUME NEW a \in Counter, NEW b \in Nat
    PROVE  (a + b) % Modulus \in Counter
<1>1. a + b \in Nat
  BY Constants DEF Counter
<1>2. (a + b) % Modulus \in 0 .. (Modulus - 1)
  BY <1>1, Constants
<1> QED
  BY <1>2 DEF Counter

\* The initial list has every cyclic timer, and each once because it is as
\* long as there are timers.
LEMMA InitKept == Init => IInv
<1> SUFFICES ASSUME Init PROVE IInv
  OBVIOUS
<1> DEFINE s == next_timeout
           n == Cardinality(Cyclic)
<1>1. IsFiniteSet(Cyclic) /\ n \in Nat /\ Tcp \notin Cyclic
  BY TimeoutsAssumption, FS_CardinalityType DEF TimeoutsAssumption
<1>2. s \in [1 .. n -> {FirstTimeout(t) : t \in Cyclic}]
  BY DEF Init
<1>0. lwip_sys_timer \in Counter /\ lwip_sys_timer \in Nat
  BY TimeoutsAssumption DEF Init, Counter, TimeoutsAssumption
<1>3. \A t \in Cyclic : t \in Timers /\ FirstTimeout(t).id = t /\ FirstTimeout(t) \in Entry
  <2> TAKE t \in Cyclic
  <2>1. t \in Timers
    BY DEF Timers
  <2>2. lwip_sys_timer + Interval[t] \in Nat
    BY <1>0, <2>1, TimeoutsAssumption DEF TimeoutsAssumption
  <2>3. (lwip_sys_timer + Interval[t]) % Modulus \in Counter
    BY <2>2, Constants DEF Counter
  <2> QED BY <2>1, <2>3 DEF FirstTimeout, Entry
<1>4. \A i \in 1 .. n : s[i] \in Entry /\ s[i].id \in Cyclic
  <2> TAKE i \in 1 .. n
  <2>1. PICK t \in Cyclic : s[i] = FirstTimeout(t)
    BY <1>2
  <2> QED BY <1>3, <2>1
<1>5. s \in Seq(Entry) /\ Len(s) = n
  <2>1. s \in [1 .. n -> Entry]
    BY <1>2, <1>4
  <2> HIDE DEF s, n
  <2> QED BY <1>1, <2>1
<1>6. \A t \in Cyclic : \E i \in 1 .. n : s[i].id = t
  <2> TAKE t \in Cyclic
  <2>1. PICK i \in 1 .. n : s[i] = FirstTimeout(t)
    BY <1>5 DEF Init, IsInitialList
  <2> QED BY <1>3, <2>1
<1> DEFINE f == [i \in 1 .. n |-> s[i].id]
<1>7. f \in Injection(1 .. n, Cyclic)
  <2>1. f \in [1 .. n -> Cyclic]
    BY <1>4
  <2>2. \A t \in Cyclic : \E i \in 1 .. n : f[i] = t
    BY <1>6
  <2>3. f \in Surjection(1 .. n, Cyclic)
    <3> HIDE DEF f, n, s
    <3> QED BY <2>1, <2>2 DEF Surjection
  <2>4. IsFiniteSet(1 .. n) /\ Cardinality(1 .. n) = n
    <3> HIDE DEF n
    <3>1. 1 \in Int /\ n \in Int
      BY <1>1
    <3>2. IsFiniteSet(1 .. n) /\ Cardinality(1 .. n) = IF 1 > n THEN 0 ELSE n - 1 + 1
      BY <3>1, FS_Interval
    <3> QED BY <1>1, <3>2
  <2>5. Cardinality(1 .. n) = Cardinality(Cyclic)
    BY <2>4
  <2> HIDE DEF f, n, s
  <2> QED BY <2>3, <2>4, <2>5, FS_SurjSameCardinalityImpliesInj
<1>8. Distinct(s)
  <2>1. \A i, j \in 1 .. n : f[i] = f[j] => i = j
    <3> HIDE DEF f, n, s
    <3> QED BY <1>7 DEF Injection, IsInjective
  <2>2. \A i \in 1 .. n : f[i] = s[i].id
    OBVIOUS
  <2> QED BY <1>5, <2>1, <2>2 DEF Distinct
<1>9. (\A t \in Cyclic : t \in Ids(s)) /\ Tcp \notin Ids(s)
  BY <1>1, <1>4, <1>5, <1>6 DEF Ids
<1>10. TypeOK
  <2>1. 0 \in Counter /\ Tcp \in Timers /\ 1 \in 1 .. (Len(Periodic) + 1)
    BY Constants DEF Counter, Timers
  <2> QED BY <1>0, <1>5, <2>1 DEF Init, TypeOK, Entry
<1> QED
  BY <1>8, <1>9, <1>10 DEF IInv, Kept, Running, Init

\* Steps that leave the list and the flag alone, and neither enter nor
\* leave a handler.
LEMMA ListAlone ==
    ASSUME IInv, TypeOK', next_timeout' = next_timeout, tcp_active' = tcp_active,
           pcb' => pcb, cur' = cur, (pc' = "handler") = (pc = "handler")
    PROVE  IInv'
BY DEF IInv, Kept, Running

\* Steps after which every timer is where it has to be, in terms of what
\* happened to the list.
LEMMA HandlerLeft ==
    ASSUME IInv, pc = "handler", pc' = "check", TypeOK',
           Distinct(next_timeout'),
           Ids(next_timeout') = Ids(next_timeout) \cup {cur},
           tcp_active' = tcp_active, pcb' = pcb
    PROVE  IInv'
BY DEF IInv, Kept, Running

\* The boot and the clock.
LEMMA BootKept ==
    ASSUME IInv, TIM3_IRQHandler \/ Boot
    PROVE  IInv'
<1>1. CASE TIM3_IRQHandler
  <2>1. lwip_sys_timer' \in Counter
    BY <1>1, Wraps, Constants DEF TIM3_IRQHandler, IInv, TypeOK
  <2>2. elapsed' \in [Handlers -> Nat]
    BY <1>1, Constants DEF TIM3_IRQHandler, IInv, TypeOK
  <2>3. TypeOK'
    BY <1>1, <2>1, <2>2 DEF TIM3_IRQHandler, listVars, IInv, TypeOK
  <2> QED BY <1>1, <2>3, ListAlone DEF TIM3_IRQHandler, listVars
<1>2. CASE PeriodicTest
  <2>1. at' \in 1 .. (Len(Periodic) + 1) /\ (pc' = "due" => at' \in Handlers)
    BY <1>2, Constants DEF PeriodicTest, Handlers, IInv, TypeOK
  <2>2. TypeOK'
    BY <1>2, <2>1 DEF PeriodicTest, listVars, IInv, TypeOK
  <2> QED BY <1>2, <2>2, ListAlone DEF PeriodicTest, listVars
<1>3. CASE PeriodicCall
  <2>1. at' \in 1 .. (Len(Periodic) + 1)
    BY <1>3, Constants DEF PeriodicCall, Handlers, IInv, TypeOK
  <2>2. TypeOK'
    BY <1>3, <2>1 DEF PeriodicCall, listVars, IInv, TypeOK
  <2> QED BY <1>3, <2>2, ListAlone DEF PeriodicCall, listVars
<1>4. CASE PeriodicAgain
  <2>1. TypeOK'
    BY <1>4, Constants DEF PeriodicAgain, listVars, IInv, TypeOK
  <2> QED BY <1>4, <2>1, ListAlone DEF PeriodicAgain, listVars
<1>5. CASE BootEnds
  <2>1. 0 \in Counter /\ 1 \in 1 .. (Len(Periodic) + 1)
    BY Constants DEF Counter
  <2>2. TypeOK'
    BY <1>5, <2>1 DEF BootEnds, listVars, IInv, TypeOK
  <2> QED BY <1>5, <2>2, ListAlone DEF BootEnds, listVars
<1> QED
  BY <1>1, <1>2, <1>3, <1>4, <1>5 DEF Boot

\* The main loop.
LEMMA LoopKept ==
    ASSUME IInv, tcp_connect \/ PcbGone \/ CheckEnter \/ CheckReturn \/ CheckFire
    PROVE  IInv'
<1> USE DEF Entry
<1>1. CASE tcp_connect
  <2>1. CASE tcp_active
    <3>1. TypeOK'
      BY <1>1, <2>1 DEF tcp_connect, tcp_timer_needed, bootVars, IInv, TypeOK
    <3> QED BY <1>1, <2>1, <3>1 DEF tcp_connect, tcp_timer_needed, IInv, Kept, Running
  <2>2. CASE ~tcp_active
    <3>1. TypeOK /\ Distinct(next_timeout) /\ Tcp \in Timers /\ Tcp \notin Ids(next_timeout)
      BY <2>2 DEF IInv, Kept, Timers
    <3>2. (lwip_sys_timer + Interval[Tcp]) % Modulus \in Counter
      BY <3>1, Wraps, Constants DEF TypeOK
    <3>3. sys_timeout_abs(Tcp, (lwip_sys_timer + Interval[Tcp]) % Modulus)
      BY <1>1, <2>2 DEF tcp_connect, tcp_timer_needed, sys_timeout
    <3>4. /\ next_timeout' \in Seq(Entry) /\ Distinct(next_timeout')
          /\ Ids(next_timeout') = Ids(next_timeout) \cup {Tcp}
      BY <3>1, <3>2, <3>3, TimeoutInserted
    <3>5. TypeOK'
      BY <1>1, <2>2, <3>4 DEF tcp_connect, tcp_timer_needed, bootVars, IInv, TypeOK
    <3> QED
      BY <1>1, <2>2, <3>4, <3>5 DEF tcp_connect, tcp_timer_needed, IInv, Kept, Running
  <2> QED BY <2>1, <2>2
<1>2. CASE PcbGone
  <2>1. TypeOK'
    BY <1>2 DEF PcbGone, listVars, bootVars, IInv, TypeOK
  <2> QED BY <1>2, <2>1, ListAlone DEF PcbGone, listVars
<1>3. CASE CheckEnter
  <2>1. TypeOK'
    BY <1>3 DEF CheckEnter, listVars, bootVars, IInv, TypeOK
  <2> QED BY <1>3, <2>1, ListAlone DEF CheckEnter, listVars
<1>4. CASE CheckReturn
  <2>1. 0 \in Counter
    BY Constants DEF Counter
  <2>2. TypeOK'
    BY <1>4, <2>1 DEF CheckReturn, listVars, bootVars, IInv, TypeOK
  <2> QED BY <1>4, <2>2, ListAlone DEF CheckReturn, listVars
<1>5. CASE CheckFire
  <2>1. next_timeout \in Seq(Entry) /\ next_timeout # << >> /\ Distinct(next_timeout)
    BY <1>5 DEF CheckFire, HeadExpired, IInv, TypeOK, Kept
  <2>2. /\ next_timeout' \in Seq(Entry) /\ Head(next_timeout) \in Entry
        /\ Distinct(next_timeout')
        /\ Ids(next_timeout') = Ids(next_timeout) \ {cur'}
        /\ cur' \in Ids(next_timeout)
    BY <1>5, <2>1, TailOfList DEF CheckFire
  <2>3. cur' \in Timers /\ due_time' \in Counter
    BY <1>5, <2>2 DEF CheckFire
  <2>4. TypeOK'
    BY <1>5, <2>2, <2>3 DEF CheckFire, bootVars, IInv, TypeOK
  <2> QED
    BY <1>5, <2>2, <2>4 DEF CheckFire, IInv, Kept, Running
<1> QED
  BY <1>1, <1>2, <1>3, <1>4, <1>5

\* The handlers.
LEMMA HandlerKept ==
    ASSUME IInv, lwip_cyclic_timer \/ tcpip_tcp_timer
    PROVE  IInv'
<1> USE DEF Entry
<1>0. 0 \in Counter /\ Tcp \in Timers /\ Tcp \notin Cyclic
  BY Constants, TimeoutsAssumption DEF TimeoutsAssumption, Counter, Timers
<1>1. TypeOK /\ Distinct(next_timeout) /\ cur \in Timers /\ pc = "handler"
      /\ cur \notin Ids(next_timeout)
  BY DEF IInv, Kept, TypeOK, lwip_cyclic_timer, tcpip_tcp_timer
<1>2. /\ (lwip_sys_timer + Interval[cur]) % Modulus \in Counter
      /\ (due_time + Interval[cur]) % Modulus \in Counter
  BY <1>1, Wraps, Constants DEF TypeOK
<1>3. CASE lwip_cyclic_timer
  <2>1. PICK time \in Counter : sys_timeout_abs(cur, time)
    BY <1>2, <1>3 DEF lwip_cyclic_timer, sys_timeout
  <2>2. /\ next_timeout' \in Seq(Entry) /\ Distinct(next_timeout')
        /\ Ids(next_timeout') = Ids(next_timeout) \cup {cur}
    BY <1>1, <2>1, TimeoutInserted
  <2>3. TypeOK'
    BY <1>0, <1>1, <1>3, <2>2 DEF lwip_cyclic_timer, BackInCheck, bootVars, TypeOK
  <2> QED
    BY <1>1, <1>3, <2>2, <2>3, HandlerLeft DEF lwip_cyclic_timer, BackInCheck
<1>4. CASE tcpip_tcp_timer /\ pcb
  <2>1. sys_timeout_abs(cur, (lwip_sys_timer + Interval[cur]) % Modulus)
    BY <1>4 DEF tcpip_tcp_timer, sys_timeout
  <2>2. /\ next_timeout' \in Seq(Entry) /\ Distinct(next_timeout')
        /\ Ids(next_timeout') = Ids(next_timeout) \cup {cur}
    BY <1>1, <1>2, <2>1, TimeoutInserted
  <2>3. TypeOK'
    BY <1>0, <1>1, <1>4, <2>2 DEF tcpip_tcp_timer, BackInCheck, bootVars, TypeOK
  <2> QED
    BY <1>1, <1>4, <2>2, <2>3, HandlerLeft DEF tcpip_tcp_timer, BackInCheck
<1>5. CASE tcpip_tcp_timer /\ ~pcb
  <2>1. TypeOK'
    BY <1>0, <1>1, <1>5 DEF tcpip_tcp_timer, BackInCheck, bootVars, TypeOK
  <2> QED
    BY <1>0, <1>1, <1>5, <2>1 DEF tcpip_tcp_timer, BackInCheck, IInv, Kept, Running
<1> QED
  BY <1>3, <1>4, <1>5

\* IInv implies the invariant the run checks.
LEMMA KeptImpliesTimersKept == IInv => TimersKept
<1> SUFFICES ASSUME IInv PROVE TimersKept
  OBVIOUS
<1>1. Waiting = Ids(next_timeout)
  BY DEF Waiting, Entries, Ids
<1>2. \A t \in Timers : (mode[t] # "off") = (t \in Ids(next_timeout) \/ Running(t))
  BY <1>1 DEF mode, Running
<1>3. pc = "handler" => Len(next_timeout) < PoolSize
  BY Room DEF IInv, Kept, TypeOK, Entry
<1> QED
  BY <1>1, <1>2, <1>3 DEF TimersKept, IInv, Kept, Distinct, Timers

\* The invariant holds in every state.
LEMMA ListInvariant == Spec => []IInv
<1>1. IInv /\ [Next]_vars => IInv'
  <2> SUFFICES ASSUME IInv, [Next]_vars PROVE IInv'
    OBVIOUS
  <2>1. CASE Next
    BY <2>1, BootKept, LoopKept, HandlerKept DEF Next, Check
  <2>2. CASE UNCHANGED vars
    BY <2>2 DEF vars, IInv, TypeOK, Kept, Running
  <2> QED BY <2>1, <2>2
<1> QED
  BY InitKept, <1>1, PTL DEF Spec

\* No timer of lwIP is ever lost or armed twice, the flag of the TCP timer
\* tells the truth and the pool of timeouts never runs dry, for any set of
\* timers and any pool with an element for each of them (timeouts.c).
THEOREM TimersAreKept == Spec => []TimersKept
BY ListInvariant, KeptImpliesTimersKept, PTL

-----------------------------------------------------------------------------
(* Arithmetic of the wrapping counter.  Everything below rests on the      *)
(* signed distance of two counter values and how it moves with the clock.  *)

\* The width of the counter.
LEMMA ModulusType == Modulus \in Nat /\ Modulus > 0
BY Constants

\* A number less than a counter's range away from it wraps at most once.
LEMMA WrapsOnce ==
    \A x \in Int :
        /\ 0 <= x /\ x < Modulus => x % Modulus = x
        /\ Modulus <= x /\ x < 2 * Modulus => x % Modulus = x - Modulus
        /\ -Modulus <= x /\ x < 0 => x % Modulus = x + Modulus
BY ModulusType

\* The distance of t from c, the shorter way round.
SignedAt(t, c) == LET d == (t - c) % Modulus
                  IN  IF 2 * d < Modulus THEN d ELSE d - Modulus

\* t is d away from c, up to one turn of the counter.
Near(t, c, d) == t - c = d \/ t - c = d + Modulus \/ t - c = d - Modulus

\* The signed distance is less than half a turn, and it is a distance.
LEMMA SignedFacts ==
    \A t, c \in Counter :
        /\ SignedAt(t, c) \in Int
        /\ -Modulus <= 2 * SignedAt(t, c) /\ 2 * SignedAt(t, c) < Modulus
        /\ Near(t, c, SignedAt(t, c))
<1> TAKE t, c \in Counter
<1>1. t - c \in Int /\ -Modulus < t - c /\ t - c < Modulus
  BY ModulusType DEF Counter
<1>2. (t - c) % Modulus = IF t - c < 0 THEN t - c + Modulus ELSE t - c
  BY <1>1, WrapsOnce, ModulusType
<1> QED
  BY <1>1, <1>2, ModulusType DEF SignedAt, Near

\* There is only one such distance.
LEMMA SignedUnique ==
    \A t, c \in Counter, d \in Int :
        -Modulus <= 2 * d /\ 2 * d < Modulus /\ Near(t, c, d) => SignedAt(t, c) = d
<1> TAKE t, c \in Counter, d \in Int
<1>1. /\ SignedAt(t, c) \in Int /\ t - c \in Int
      /\ -Modulus <= 2 * SignedAt(t, c) /\ 2 * SignedAt(t, c) < Modulus
      /\ Near(t, c, SignedAt(t, c))
  BY SignedFacts DEF Counter
<1> QED
  BY <1>1, ModulusType DEF Near

\* TIME_LESS_THAN is the sign of the distance.
LEMMA LessIsSigned ==
    \A t, c \in Counter : TIME_LESS_THAN(t, c) <=> SignedAt(t, c) < 0
<1> TAKE t, c \in Counter
<1>1. (t - c) % Modulus \in 0 .. (Modulus - 1)
  <2>1. t - c \in Int
    BY DEF Counter
  <2> QED BY <2>1, ModulusType
<1> QED
  BY <1>1, ModulusType DEF SignedAt, TIME_LESS_THAN

\* A time ahead of or behind c by d.
LEMMA SignedSum ==
    \A c \in Counter, d \in Int :
        -Modulus <= 2 * d /\ 2 * d < Modulus =>
            /\ (c + d) % Modulus \in Counter
            /\ SignedAt((c + d) % Modulus, c) = d
<1> TAKE c \in Counter, d \in Int
<1> HAVE -Modulus <= 2 * d /\ 2 * d < Modulus
<1>1. c + d \in Int /\ -Modulus <= c + d /\ c + d < 2 * Modulus
  BY ModulusType DEF Counter
<1>2. /\ (c + d) % Modulus \in Counter
      /\ Near((c + d) % Modulus, c, d)
  BY <1>1, WrapsOnce, ModulusType DEF Counter, Near
<1> QED
  BY <1>2, SignedUnique

\* The distance of two times that are both near the present.
LEMMA SignedDifference ==
    \A t, b, c \in Counter :
        /\ -Modulus <= 2 * (SignedAt(t, c) - SignedAt(b, c))
        /\ 2 * (SignedAt(t, c) - SignedAt(b, c)) < Modulus
        => SignedAt(t, b) = SignedAt(t, c) - SignedAt(b, c)
<1> TAKE t, b, c \in Counter
<1> DEFINE x == SignedAt(t, c)  y == SignedAt(b, c)
<1>1. x \in Int /\ y \in Int /\ Near(t, c, x) /\ Near(b, c, y)
  BY SignedFacts
<1> SUFFICES ASSUME -Modulus <= 2 * (x - y), 2 * (x - y) < Modulus
             PROVE  SignedAt(t, b) = x - y
  OBVIOUS
<1> HIDE DEF x, y
<1>2. x - y \in Int /\ t \in Int /\ b \in Int /\ c \in Int
  BY <1>1 DEF Counter
<1>3. t - b < Modulus /\ t - b > -Modulus
  BY ModulusType DEF Counter
<1>4. Near(t, b, x - y)
  BY <1>1, <1>2, <1>3, ModulusType DEF Near
<1> QED
  BY <1>2, <1>4, SignedUnique

\* Time goes on by k.
LEMMA SignedLater ==
    \A t, c \in Counter, k \in Nat :
        -Modulus <= 2 * (SignedAt(t, c) - k) =>
            SignedAt(t, (c + k) % Modulus) = SignedAt(t, c) - k
<1> TAKE t, c \in Counter, k \in Nat
<1> DEFINE x == SignedAt(t, c)  b == (c + k) % Modulus
<1>1. x \in Int /\ Near(t, c, x) /\ -Modulus <= 2 * x /\ 2 * x < Modulus
  BY SignedFacts
<1> SUFFICES ASSUME -Modulus <= 2 * (x - k)
             PROVE  SignedAt(t, b) = x - k
  OBVIOUS
<1> HIDE DEF x
<1>2. /\ t \in Int /\ c \in Int /\ c >= 0 /\ c < Modulus /\ k < Modulus /\ x - k \in Int
      /\ c + k \in Int /\ t < Modulus /\ t >= 0
  BY <1>1, ModulusType DEF Counter
<1>3. b = c + k \/ b = c + k - Modulus
  BY <1>2, WrapsOnce, ModulusType
<1>4. b \in Counter
  BY <1>2, ModulusType DEF Counter
<1> HIDE DEF b
<1>5. t - b < Modulus /\ t - b > -Modulus /\ b \in Int
  BY <1>2, <1>4, ModulusType DEF Counter
<1>6. Near(t, b, x - k)
  BY <1>1, <1>2, <1>3, <1>5, ModulusType DEF Near
<1>7. 2 * (x - k) < Modulus
  BY <1>1, ModulusType
<1> QED
  BY <1>2, <1>4, <1>6, <1>7, SignedUnique

\* A time t and an earlier present n.
LEMMA SignedSince ==
    \A t, c, n \in Counter :
        LET a == (c - n) % Modulus
        IN  -Modulus < 2 * (SignedAt(t, c) + a) /\ 2 * (SignedAt(t, c) + a) < Modulus
            => SignedAt(n, t) = -(SignedAt(t, c) + a)
<1> TAKE t, c, n \in Counter
<1> DEFINE x == SignedAt(t, c)  a == (c - n) % Modulus
<1>1. x \in Int /\ Near(t, c, x)
  BY SignedFacts
<1>2. /\ t \in Int /\ c \in Int /\ n \in Int /\ c - n \in Int /\ -Modulus < c - n /\ c - n < Modulus
      /\ n - t < Modulus /\ n - t > -Modulus
  BY ModulusType DEF Counter
<1>3. a \in Int /\ (a = c - n \/ a = c - n + Modulus)
  BY <1>2, WrapsOnce, ModulusType
<1> SUFFICES ASSUME -Modulus < 2 * (x + a), 2 * (x + a) < Modulus
             PROVE  SignedAt(n, t) = -(x + a)
  OBVIOUS
<1> HIDE DEF x, a
<1>4. -(x + a) \in Int /\ Near(n, t, -(x + a))
  BY <1>1, <1>2, <1>3, ModulusType DEF Near
<1>5. -Modulus <= 2 * (-(x + a)) /\ 2 * (-(x + a)) < Modulus
  BY <1>1, <1>3, ModulusType
<1> QED
  BY <1>4, <1>5, SignedUnique

\* The time since n grows with the counter.
LEMMA SinceLater ==
    \A c, n \in Counter, k \in Nat :
        ((c - n) % Modulus) + k < Modulus =>
            (((c + k) % Modulus) - n) % Modulus = ((c - n) % Modulus) + k
<1> TAKE c, n \in Counter, k \in Nat
<1> DEFINE a == (c - n) % Modulus  b == (c + k) % Modulus
<1>2. c \in Int /\ n \in Int /\ c - n \in Int /\ -Modulus < c - n /\ c - n < Modulus
      /\ c >= 0 /\ c < Modulus /\ n >= 0 /\ n < Modulus
  BY ModulusType DEF Counter
<1>3. a \in Int /\ a >= 0 /\ a < Modulus /\ (a = c - n \/ a = c - n + Modulus)
  BY <1>2, WrapsOnce, ModulusType
<1> SUFFICES ASSUME a + k < Modulus PROVE (b - n) % Modulus = a + k
  OBVIOUS
<1>4. k < Modulus /\ c + k \in Int
  BY <1>2, <1>3, ModulusType
<1>5. b \in Int /\ b >= 0 /\ b < Modulus /\ (b = c + k \/ b = c + k - Modulus)
  BY <1>2, <1>4, WrapsOnce, ModulusType
<1> HIDE DEF a, b
<1>6. b - n \in Int /\ (b - n = a + k \/ b - n = a + k - Modulus)
  BY <1>2, <1>3, <1>4, <1>5, ModulusType
<1> QED
  BY <1>3, <1>6, WrapsOnce, ModulusType
\* A time k after t.
LEMMA SignedAhead ==
    \A t, c \in Counter, k \in Nat :
        2 * (SignedAt(t, c) + k) < Modulus =>
            /\ (t + k) % Modulus \in Counter
            /\ SignedAt((t + k) % Modulus, c) = SignedAt(t, c) + k
<1> TAKE t, c \in Counter, k \in Nat
<1> DEFINE x == SignedAt(t, c)  b == (t + k) % Modulus
<1>1. x \in Int /\ Near(t, c, x) /\ -Modulus <= 2 * x
  BY SignedFacts
<1> SUFFICES ASSUME 2 * (x + k) < Modulus
             PROVE  b \in Counter /\ SignedAt(b, c) = x + k
  OBVIOUS
<1> HIDE DEF x
<1>2. /\ t \in Int /\ t >= 0 /\ t < Modulus /\ c \in Int /\ c >= 0 /\ c < Modulus
      /\ k < Modulus /\ x + k \in Int /\ t + k \in Int
  BY <1>1, ModulusType DEF Counter
<1>3. b \in Int /\ b >= 0 /\ b < Modulus /\ (b = t + k \/ b = t + k - Modulus)
  BY <1>2, WrapsOnce, ModulusType
<1> HIDE DEF b
<1>4. b \in Counter
  BY <1>3, ModulusType DEF Counter
<1>5. Near(b, c, x + k)
  BY <1>1, <1>2, <1>3, ModulusType DEF Near
<1>6. -Modulus <= 2 * (x + k)
  BY <1>1, ModulusType
<1> QED
  BY <1>2, <1>4, <1>5, <1>6, SignedUnique

-----------------------------------------------------------------------------
(* The times of the list. *)

\* No entry is later than the main code may be, nor further ahead than its
\* period.
TimesOK(s, c) ==
    \A i \in 1 .. Len(s) :
        /\ -MaxLate <= SignedAt(s[i].time, c)
        /\ SignedAt(s[i].time, c) <= Interval[s[i].id]

\* The list is sorted by true time.
SortedAt(s, c) ==
    \A i, j \in 1 .. Len(s) :
        i < j => SignedAt(s[i].time, c) <= SignedAt(s[j].time, c)

\* The time since sys_check_timeouts read the clock.
Age(c, n) == (c - n) % Modulus

\* Measured from that moment the entries are near, so that comparing them
\* with the old reading tells which have expired.
NearNow(s, c, n) ==
    \A i \in 1 .. Len(s) :
        /\ -MaxLate <= SignedAt(s[i].time, c) + Age(c, n)
        /\ SignedAt(s[i].time, c) + Age(c, n) <= Interval[s[i].id] + MaxLate

TimeInv ==
    /\ TimesOK(next_timeout, lwip_sys_timer)
    /\ SortedAt(next_timeout, lwip_sys_timer)
    /\ pc \in {"check", "handler"} => NearNow(next_timeout, lwip_sys_timer, now)
    /\ pc = "handler" =>
          /\ -MaxLate <= SignedAt(due_time, lwip_sys_timer)
          /\ SignedAt(due_time, lwip_sys_timer) + Age(lwip_sys_timer, now) <= 0

\* During the boot elapsed[i] is the distance of the clock from stamp[i].
StampInv ==
    InBoot => \A i \in Handlers :
        /\ 2 * elapsed[i] < Modulus
        /\ SignedAt(lwip_sys_timer, stamp[i]) = elapsed[i]

-----------------------------------------------------------------------------

\* The bounds of a period and of the lateness together.
LEMMA Bounds ==
    /\ MaxLate \in Nat /\ TickMs \in Nat /\ Modulus \in Nat /\ Modulus > 2 /\ 2 * MaxLate < Modulus
    /\ \A t \in Timers : /\ Interval[t] \in Nat /\ Interval[t] > 0
                         /\ 2 * (Interval[t] + MaxLate) < Modulus
<1>1. /\ MaxLate \in Nat /\ TickMs \in Nat /\ Modulus \in Nat /\ Tcp \in Timers
      /\ Interval \in [Timers -> Nat]
      /\ \A t \in Timers : Interval[t] > 0 /\ 2 * (Interval[t] + MaxLate) < Modulus
  BY TimeoutsAssumption DEF TimeoutsAssumption, Timers
<1>2. \A t \in Timers : Interval[t] \in Nat
  BY <1>1
<1>3. Interval[Tcp] \in Nat /\ Interval[Tcp] > 0 /\ 2 * (Interval[Tcp] + MaxLate) < Modulus
  BY <1>1, <1>2
<1>4. Modulus > 2 /\ 2 * MaxLate < Modulus
  BY <1>1, <1>3
<1> QED
  BY <1>1, <1>2, <1>4

\* What the mapping to TimerService says of a timer, by where the timer is.
Mapped ==
    /\ mode = [t \in Timers |-> mode[t]] /\ left = [t \in Timers |-> left[t]]
    /\ \A i \in 1 .. Len(next_timeout) :
          /\ mode[next_timeout[i].id] = "armed"
          /\ left[next_timeout[i].id] = SignedAt(next_timeout[i].time, lwip_sys_timer)
    /\ pc = "handler" =>
          mode[cur] = "running" /\ left[cur] = SignedAt(due_time, lwip_sys_timer)
    /\ \A t \in Timers : t \notin Ids(next_timeout) /\ ~Running(t) =>
          mode[t] = "off" /\ left[t] = 0

\* The mapping says exactly this in every state of the invariant.
LEMMA MappingHolds == IInv => Mapped
<1> SUFFICES ASSUME IInv PROVE Mapped
  OBVIOUS
<1> DEFINE s == next_timeout
<1>1. Waiting = Ids(s) /\ \A t : Signed(t) = SignedAt(t, lwip_sys_timer)
  BY DEF Waiting, Entries, Ids, Signed, SignedAt
<1>2. mode = [t \in Timers |-> mode[t]] /\ left = [t \in Timers |-> left[t]]
  BY DEF mode, left
<1>3. /\ \A i \in 1 .. Len(s) : s[i].id \in Timers /\ s[i].id \in Ids(s)
      /\ Distinct(s) /\ (pc = "handler" => cur \notin Ids(s) /\ cur \in Timers)
  <2>1. s \in Seq(Entry)
    BY DEF IInv, TypeOK, Entry
  <2>2. \A i \in 1 .. Len(s) : s[i] \in Entry
    BY <2>1
  <2> QED BY <2>2 DEF Entry, IInv, Kept, TypeOK, Ids
<1>4. ASSUME NEW i \in 1 .. Len(s)
      PROVE  mode[s[i].id] = "armed" /\ left[s[i].id] = SignedAt(s[i].time, lwip_sys_timer)
  <2>1. ~(pc = "handler" /\ cur = s[i].id)
    BY <1>3
  <2>2. (CHOOSE e \in Entries : e.id = s[i].id) = s[i]
    <3>1. s[i] \in Entries
      BY DEF Entries
    <3>2. \A e \in Entries : e.id = s[i].id => e = s[i]
      BY <1>3 DEF Entries, Distinct
    <3> QED BY <3>1, <3>2
  <2> QED BY <1>1, <1>3, <2>1, <2>2 DEF mode, left
<1>5. pc = "handler" => mode[cur] = "running" /\ left[cur] = SignedAt(due_time, lwip_sys_timer)
  BY <1>1, <1>3 DEF mode, left
<1>6. \A t \in Timers : t \notin Ids(s) /\ ~Running(t) => mode[t] = "off" /\ left[t] = 0
  BY <1>1 DEF mode, left, Running
<1> QED
  BY <1>2, <1>4, <1>5, <1>6 DEF Mapped

\* Every timer is in one of the three places.
LEMMA Places ==
    ASSUME NEW t \in Timers
    PROVE  \/ \E i \in 1 .. Len(next_timeout) : next_timeout[i].id = t
           \/ Running(t)
           \/ t \notin Ids(next_timeout) /\ ~Running(t)
BY DEF Ids

\* Entries of the list are typed.
LEMMA EntriesTyped ==
    IInv => \A i \in 1 .. Len(next_timeout) :
                /\ next_timeout[i] \in Entry /\ next_timeout[i].id \in Timers
                /\ next_timeout[i].time \in Counter
<1> SUFFICES ASSUME IInv, NEW i \in 1 .. Len(next_timeout)
             PROVE  /\ next_timeout[i] \in Entry /\ next_timeout[i].id \in Timers
                    /\ next_timeout[i].time \in Counter
  OBVIOUS
<1>1. next_timeout \in Seq(Entry)
  BY DEF IInv, TypeOK, Entry
<1>2. next_timeout[i] \in Entry
  BY <1>1
<1> QED
  BY <1>2 DEF Entry

-----------------------------------------------------------------------------
(* TIM3: a tick moves every time by the same amount. *)

\* A tick of TIM3 brings every time nearer by TickMs and none beyond the
\* lateness the main code is allowed.
LEMMA TickMoves ==
    ASSUME IInv, TimeInv, TIM3_IRQHandler
    PROVE  /\ \A i \in 1 .. Len(next_timeout) :
                 /\ SignedAt(next_timeout[i].time, lwip_sys_timer) - TickMs >= -MaxLate
                 /\ SignedAt(next_timeout[i].time, lwip_sys_timer')
                      = SignedAt(next_timeout[i].time, lwip_sys_timer) - TickMs
           /\ pc = "handler" =>
                 /\ SignedAt(due_time, lwip_sys_timer) - TickMs >= -MaxLate
                 /\ SignedAt(due_time, lwip_sys_timer')
                      = SignedAt(due_time, lwip_sys_timer) - TickMs
<1>1. /\ lwip_sys_timer' = (lwip_sys_timer + TickMs) % Modulus /\ lwip_sys_timer \in Counter
      /\ \A t \in Timers : left[t] - TickMs >= -MaxLate
  BY DEF TIM3_IRQHandler, OnTime, IInv, TypeOK
<1>2. Mapped
  BY MappingHolds
<1>3. ASSUME NEW t \in Counter, SignedAt(t, lwip_sys_timer) - TickMs >= -MaxLate
      PROVE  SignedAt(t, lwip_sys_timer') = SignedAt(t, lwip_sys_timer) - TickMs
  <2>1. SignedAt(t, lwip_sys_timer) \in Int
    BY <1>1, SignedFacts
  <2>2. -Modulus <= 2 * (SignedAt(t, lwip_sys_timer) - TickMs)
    BY <1>3, <2>1, Bounds
  <2> QED BY <1>1, <2>2, SignedLater, Bounds
<1>4. ASSUME NEW i \in 1 .. Len(next_timeout)
      PROVE  /\ SignedAt(next_timeout[i].time, lwip_sys_timer) - TickMs >= -MaxLate
             /\ SignedAt(next_timeout[i].time, lwip_sys_timer')
                  = SignedAt(next_timeout[i].time, lwip_sys_timer) - TickMs
  <2>1. next_timeout[i].id \in Timers /\ next_timeout[i].time \in Counter
    BY EntriesTyped
  <2>2. left[next_timeout[i].id] = SignedAt(next_timeout[i].time, lwip_sys_timer)
    BY <1>2 DEF Mapped
  <2>3. SignedAt(next_timeout[i].time, lwip_sys_timer) - TickMs >= -MaxLate
    BY <1>1, <2>1, <2>2
  <2> QED BY <1>3, <2>1, <2>3
<1>5. ASSUME pc = "handler"
      PROVE  /\ SignedAt(due_time, lwip_sys_timer) - TickMs >= -MaxLate
             /\ SignedAt(due_time, lwip_sys_timer')
                  = SignedAt(due_time, lwip_sys_timer) - TickMs
  <2>1. cur \in Timers /\ due_time \in Counter
    BY DEF IInv, TypeOK
  <2>2. left[cur] = SignedAt(due_time, lwip_sys_timer)
    BY <1>2, <1>5 DEF Mapped
  <2>3. SignedAt(due_time, lwip_sys_timer) - TickMs >= -MaxLate
    BY <1>1, <2>1, <2>2
  <2> QED BY <1>3, <2>1, <2>3
<1> QED
  BY <1>4, <1>5

\* The time since the reading of the clock grows by the tick, as long as
\* something that is near that reading is not later than allowed.
LEMMA AgeTicks ==
    ASSUME IInv, TIM3_IRQHandler, NEW d \in Int, NEW b \in Int,
           d - TickMs >= -MaxLate, d + Age(lwip_sys_timer, now) <= b,
           b + MaxLate < Modulus
    PROVE  Age(lwip_sys_timer', now) = Age(lwip_sys_timer, now) + TickMs
<1>1. /\ lwip_sys_timer' = (lwip_sys_timer + TickMs) % Modulus
      /\ lwip_sys_timer \in Counter /\ now \in Counter
  BY DEF TIM3_IRQHandler, IInv, TypeOK
<1>2. Age(lwip_sys_timer, now) \in Int
  BY <1>1, Bounds DEF Age, Counter
<1>3. Age(lwip_sys_timer, now) + TickMs < Modulus
  BY <1>2, Bounds
<1> QED
  BY <1>1, <1>3, SinceLater, Bounds DEF Age

\* So the list stays sorted and near.
LEMMA TickTimes ==
    ASSUME IInv, TimeInv, TIM3_IRQHandler
    PROVE  TimeInv'
<1> DEFINE s == next_timeout
           S(i) == SignedAt(s[i].time, lwip_sys_timer)
           A == Age(lwip_sys_timer, now)
<1>1. /\ next_timeout' = s /\ now' = now /\ pc' = pc /\ due_time' = due_time
      /\ lwip_sys_timer \in Counter /\ now \in Counter /\ due_time \in Counter
  BY DEF TIM3_IRQHandler, listVars, IInv, TypeOK
<1>2. \A i \in 1 .. Len(s) : S(i) \in Int /\ s[i].id \in Timers
  BY <1>1, EntriesTyped, SignedFacts
<1>3. \A i \in 1 .. Len(s) :
        /\ S(i) - TickMs >= -MaxLate
        /\ SignedAt(s[i].time, lwip_sys_timer') = S(i) - TickMs
  BY TickMoves
<1>4. A \in Int
  BY <1>1, Bounds DEF Age, Counter
<1> HIDE DEF S, A, s
<1>5. TimesOK(s, lwip_sys_timer')
  <2>1. \A i \in 1 .. Len(s) : S(i) <= Interval[s[i].id]
    BY DEF TimeInv, TimesOK, S, s
  <2> SUFFICES ASSUME NEW i \in 1 .. Len(s)
               PROVE  /\ -MaxLate <= SignedAt(s[i].time, lwip_sys_timer')
                      /\ SignedAt(s[i].time, lwip_sys_timer') <= Interval[s[i].id]
    BY DEF TimesOK
  <2>2. Interval[s[i].id] \in Nat /\ TickMs \in Nat
    BY <1>2, Bounds
  <2> QED BY <1>2, <1>3, <2>1, <2>2
<1>6. SortedAt(s, lwip_sys_timer')
  <2>1. \A i, j \in 1 .. Len(s) : i < j => S(i) <= S(j)
    BY DEF TimeInv, SortedAt, S, s
  <2> SUFFICES ASSUME NEW i \in 1 .. Len(s), NEW j \in 1 .. Len(s), i < j
               PROVE  SignedAt(s[i].time, lwip_sys_timer') <= SignedAt(s[j].time, lwip_sys_timer')
    BY DEF SortedAt
  <2> QED BY <1>2, <1>3, <2>1, Bounds
<1>7. ASSUME pc \in {"check", "handler"}
      PROVE  NearNow(s, lwip_sys_timer', now)
  <2>1. \A i \in 1 .. Len(s) : -MaxLate <= S(i) + A /\ S(i) + A <= Interval[s[i].id] + MaxLate
    BY <1>7 DEF TimeInv, NearNow, S, A, s
  <2> SUFFICES ASSUME NEW i \in 1 .. Len(s)
               PROVE  LET d == SignedAt(s[i].time, lwip_sys_timer') + Age(lwip_sys_timer', now)
                      IN  -MaxLate <= d /\ d <= Interval[s[i].id] + MaxLate
    BY DEF NearNow
  <2>2. /\ Interval[s[i].id] + MaxLate \in Int
        /\ (Interval[s[i].id] + MaxLate) + MaxLate < Modulus
    BY <1>2, Bounds
  <2>3. Age(lwip_sys_timer', now) = A + TickMs
    BY <1>2, <1>3, <2>1, <2>2, AgeTicks DEF A
  <2>4. SignedAt(s[i].time, lwip_sys_timer') + Age(lwip_sys_timer', now) = S(i) + A
    BY <1>2, <1>3, <1>4, <2>3, Bounds
  <2> QED BY <2>1, <2>4
<1>8. ASSUME pc = "handler"
      PROVE  /\ -MaxLate <= SignedAt(due_time, lwip_sys_timer')
             /\ SignedAt(due_time, lwip_sys_timer') + Age(lwip_sys_timer', now) <= 0
  <2> DEFINE d == SignedAt(due_time, lwip_sys_timer)
  <2>1. d \in Int /\ d + A <= 0
    BY <1>1, <1>8, SignedFacts DEF TimeInv, A
  <2>2. d - TickMs >= -MaxLate /\ SignedAt(due_time, lwip_sys_timer') = d - TickMs
    BY <1>8, TickMoves
  <2> HIDE DEF d
  <2>3. 0 + MaxLate < Modulus /\ 0 \in Int
    BY Bounds
  <2>4. Age(lwip_sys_timer', now) = A + TickMs
    BY <2>1, <2>2, <2>3, AgeTicks DEF A
  <2> QED BY <1>4, <2>1, <2>2, <2>4, Bounds
<1> QED
  BY <1>1, <1>5, <1>6, <1>7, <1>8 DEF TimeInv, s

\* A tick is a step of the service: every timer that is on moves by Step.
LEMMA TickElapses ==
    ASSUME IInv, IInv', TimeInv, TIM3_IRQHandler
    PROVE  Service!Elapse
<1>1. Mapped /\ Mapped'
  BY MappingHolds, PTL
<1>2. /\ next_timeout' = next_timeout /\ cur' = cur /\ pc' = pc /\ due_time' = due_time
  BY DEF TIM3_IRQHandler, listVars
<1>3. /\ mode = [t \in Timers |-> mode[t]] /\ left = [t \in Timers |-> left[t]]
      /\ mode' = [t \in Timers |-> mode'[t]] /\ left' = [t \in Timers |-> left'[t]]
  BY <1>1 DEF Mapped
<1>4. ASSUME NEW t \in Timers
      PROVE  /\ mode'[t] = mode[t]
             /\ left'[t] = IF mode[t] = "off" THEN 0 ELSE left[t] - TickMs
  <2>1. CASE \E i \in 1 .. Len(next_timeout) : next_timeout[i].id = t
    <3>1. PICK i \in 1 .. Len(next_timeout) : next_timeout[i].id = t
      BY <2>1
    <3>2. mode[t] = "armed" /\ left[t] = SignedAt(next_timeout[i].time, lwip_sys_timer)
      BY <1>1, <3>1 DEF Mapped
    <3>3. mode'[t] = "armed" /\ left'[t] = SignedAt(next_timeout[i].time, lwip_sys_timer')
      BY <1>1, <1>2, <3>1 DEF Mapped
    <3> QED BY <3>2, <3>3, TickMoves
  <2>2. CASE Running(t)
    <3>1. mode[t] = "running" /\ left[t] = SignedAt(due_time, lwip_sys_timer)
      BY <1>1, <2>2 DEF Mapped, Running
    <3>2. mode'[t] = "running" /\ left'[t] = SignedAt(due_time, lwip_sys_timer')
      BY <1>1, <1>2, <2>2 DEF Mapped, Running
    <3> QED BY <2>2, <3>1, <3>2, TickMoves DEF Running
  <2>3. CASE t \notin Ids(next_timeout) /\ ~Running(t)
    <3>1. mode[t] = "off" /\ left[t] = 0
      BY <1>1, <2>3 DEF Mapped
    <3>2. mode'[t] = "off" /\ left'[t] = 0
      BY <1>1, <1>2, <2>3 DEF Mapped, Running
    <3> QED BY <3>1, <3>2
  <2> QED BY <2>1, <2>2, <2>3, Places
<1>5. mode' = mode
  BY <1>3, <1>4
<1>6. left' = [t \in Timers |-> IF mode[t] = "off" THEN 0 ELSE left[t] - TickMs]
  BY <1>3, <1>4
<1> QED
  BY <1>5, <1>6 DEF Service!Elapse, Service!Timers, Timers

-----------------------------------------------------------------------------
(* sys_timeout_abs: the new entry goes to its place in true time. *)

\* What a list looks like after an insertion.
LEMMA InsertedPlaces ==
    ASSUME NEW s \in Seq(Entry), NEW k \in 0 .. Len(s), NEW e \in Entry
    PROVE  LET r == Inserted(s, k, e)
           IN  /\ Len(s) \in Nat /\ Len(r) = Len(s) + 1 /\ r[k + 1] = e
               /\ \A i \in 1 .. k : r[i] = s[i]
               /\ \A i \in (k + 1) .. Len(s) : r[i + 1] = s[i]
               /\ \A j \in 1 .. Len(r) :
                     \/ j <= k /\ j \in 1 .. Len(s) /\ r[j] = s[j]
                     \/ j = k + 1 /\ r[j] = e
                     \/ j > k + 1 /\ j - 1 \in 1 .. Len(s) /\ r[j] = s[j - 1]
<1> DEFINE n == Len(s)
           r == Inserted(s, k, e)
<1>1. n \in Nat /\ \A i \in 1 .. n : s[i] \in Entry
  OBVIOUS
<1>2. r = [i \in 1 .. (n + 1) |->
              IF i <= k THEN s[i] ELSE IF i = k + 1 THEN e ELSE s[i - 1]]
  BY DEF Inserted
<1>3. Len(r) = n + 1
  <2>1. \A i \in 1 .. (n + 1) : r[i] \in Entry
    BY <1>1, <1>2
  <2>2. r \in [1 .. (n + 1) -> Entry]
    BY <1>2, <2>1
  <2> HIDE DEF r
  <2> QED BY <1>1, <2>2
<1> HIDE DEF r, n
<1>4. r[k + 1] = e /\ \A i \in 1 .. k : r[i] = s[i]
  BY <1>1, <1>2 DEF n
<1>5. \A i \in (k + 1) .. n : r[i + 1] = s[i]
  BY <1>1, <1>2 DEF n
<1>6. ASSUME NEW j \in 1 .. (n + 1)
      PROVE  \/ j <= k /\ j \in 1 .. n /\ r[j] = s[j]
             \/ j = k + 1 /\ r[j] = e
             \/ j > k + 1 /\ j - 1 \in 1 .. n /\ r[j] = s[j - 1]
  <2>1. j \in Int /\ k \in Int /\ k <= n
    BY <1>1 DEF n
  <2>2. CASE j <= k
    BY <1>1, <1>2, <2>1, <2>2
  <2>3. CASE j = k + 1
    BY <1>1, <1>2, <2>1, <2>3
  <2>4. CASE j > k + 1
    <3>1. j - 1 \in 1 .. n /\ ~(j <= k) /\ j # k + 1
      BY <1>1, <2>1, <2>4
    <3> QED BY <1>2, <2>4, <3>1
  <2> QED BY <2>1, <2>2, <2>3, <2>4
<1> QED
  BY <1>1, <1>3, <1>4, <1>5, <1>6 DEF n, r

\* An entry between those due no later and those due later keeps the order.
LEMMA InsertTimes ==
    ASSUME NEW s \in Seq(Entry), NEW k \in 0 .. Len(s), NEW e \in Entry,
           NEW c \in Counter, NEW n \in Counter,
           TimesOK(s, c), SortedAt(s, c),
           -MaxLate <= SignedAt(e.time, c), SignedAt(e.time, c) <= Interval[e.id],
           \A i \in 1 .. k : SignedAt(s[i].time, c) <= SignedAt(e.time, c),
           k < Len(s) => SignedAt(e.time, c) <= SignedAt(s[k + 1].time, c)
    PROVE  LET r == Inserted(s, k, e)
           IN  /\ TimesOK(r, c) /\ SortedAt(r, c)
               /\ /\ NearNow(s, c, n)
                  /\ -MaxLate <= SignedAt(e.time, c) + Age(c, n)
                  /\ SignedAt(e.time, c) + Age(c, n) <= Interval[e.id] + MaxLate
                  => NearNow(r, c, n)
<1> DEFINE r == Inserted(s, k, e)
           S(x) == SignedAt(x.time, c)
<1>1. /\ Len(s) \in Nat /\ Len(r) = Len(s) + 1 /\ r[k + 1] = e
      /\ \A j \in 1 .. Len(r) :
            \/ j <= k /\ j \in 1 .. Len(s) /\ r[j] = s[j]
            \/ j = k + 1 /\ r[j] = e
            \/ j > k + 1 /\ j - 1 \in 1 .. Len(s) /\ r[j] = s[j - 1]
  BY InsertedPlaces
<1>2. S(e) \in Int /\ \A i \in 1 .. Len(s) : S(s[i]) \in Int
  <2>0. \A i \in 1 .. Len(s) : s[i] \in Entry
    OBVIOUS
  <2>1. e.time \in Counter /\ \A i \in 1 .. Len(s) : s[i] \in Entry
    BY <2>0 DEF Entry
  <2>2. \A i \in 1 .. Len(s) : s[i].time \in Counter
    BY <2>1 DEF Entry
  <2> QED BY <2>1, <2>2, SignedFacts
<1>3. TimesOK(r, c)
  BY <1>1 DEF TimesOK
<1>4. ASSUME NearNow(s, c, n),
             -MaxLate <= SignedAt(e.time, c) + Age(c, n),
             SignedAt(e.time, c) + Age(c, n) <= Interval[e.id] + MaxLate
      PROVE  NearNow(r, c, n)
  BY <1>1, <1>4 DEF NearNow
<1>5. SortedAt(r, c)
  <2>1. \A i, j \in 1 .. Len(s) : i < j => S(s[i]) <= S(s[j])
    BY DEF SortedAt
  <2>2. \A i \in 1 .. Len(s) : IF i <= k THEN S(s[i]) <= S(e) ELSE S(e) <= S(s[i])
    <3> SUFFICES ASSUME NEW i \in 1 .. Len(s), ~(i <= k) PROVE S(e) <= S(s[i])
      OBVIOUS
    <3>1. k \in Int /\ k < Len(s) /\ k + 1 \in 1 .. Len(s) /\ k + 1 <= i
      BY <1>1
    <3>2. S(e) <= S(s[k + 1]) /\ (k + 1 = i \/ S(s[k + 1]) <= S(s[i]))
      BY <2>1, <3>1
    <3>3. S(s[k + 1]) \in Int /\ S(s[i]) \in Int
      BY <1>2, <3>1
    <3> HIDE DEF S
    <3> QED BY <1>2, <3>2, <3>3
  <2> HIDE DEF S, r
  <2>3. ASSUME NEW i \in 1 .. Len(r), NEW j \in 1 .. Len(r), i < j
        PROVE  S(r[i]) <= S(r[j])
    <3>0. i \in Int /\ j \in Int /\ k \in Int
      BY <1>1
    <3>1. CASE j <= k
      <4>1. i \in 1 .. Len(s) /\ j \in 1 .. Len(s) /\ r[i] = s[i] /\ r[j] = s[j]
        BY <1>1, <2>3, <3>0, <3>1
      <4> QED BY <2>1, <2>3, <4>1
    <3>2. CASE j = k + 1
      <4>1. i \in 1 .. Len(s) /\ i <= k /\ r[i] = s[i] /\ r[j] = e
        BY <1>1, <2>3, <3>0, <3>2
      <4> QED BY <2>2, <4>1
    <3>3. CASE j > k + 1
      <4>1. j - 1 \in 1 .. Len(s) /\ r[j] = s[j - 1] /\ ~(j - 1 <= k)
        BY <1>1, <3>0, <3>3
      <4>2. CASE i <= k
        <5>1. i \in 1 .. Len(s) /\ r[i] = s[i] /\ i < j - 1
          BY <1>1, <3>0, <3>3, <4>2
        <5> QED BY <2>1, <4>1, <5>1
      <4>3. CASE i = k + 1
        <5>1. r[i] = e
          BY <1>1, <4>3
        <5> QED BY <2>2, <4>1, <5>1
      <4>4. CASE i > k + 1
        <5>1. i - 1 \in 1 .. Len(s) /\ r[i] = s[i - 1] /\ i - 1 < j - 1
          BY <1>1, <2>3, <3>0, <4>4
        <5> QED BY <2>1, <4>1, <5>1
      <4> QED BY <3>0, <4>2, <4>3, <4>4
    <3> QED BY <3>0, <3>1, <3>2, <3>3
  <2> QED BY <2>3 DEF SortedAt, S
<1> QED
  BY <1>3, <1>4, <1>5

\* Two times within their periods and the lateness are less than half a turn
\* apart.
LEMMA HalfTurn ==
    ASSUME NEW d \in Int, NEW x \in Int, NEW p \in Nat, NEW q \in Nat, NEW l \in Nat,
           NEW m \in Nat, 0 <= d, d <= p, -l <= x, x <= q,
           2 * (p + l) < m, 2 * (q + l) < m
    PROVE  -m <= 2 * (d - x) /\ 2 * (d - x) < m
OBVIOUS

\* A timer that is not on the list is put where its time belongs.
LEMMA TimeoutPlaced ==
    ASSUME IInv, TimeInv, NEW id \in Timers, id \notin Ids(next_timeout),
           NEW time \in Counter, sys_timeout_abs(id, time),
           0 <= SignedAt(time, lwip_sys_timer),
           SignedAt(time, lwip_sys_timer) <= Interval[id]
    PROVE  /\ TimesOK(next_timeout', lwip_sys_timer)
           /\ SortedAt(next_timeout', lwip_sys_timer)
           /\ /\ NearNow(next_timeout, lwip_sys_timer, now)
              /\ SignedAt(time, lwip_sys_timer) + Age(lwip_sys_timer, now) <= Interval[id] + MaxLate
              => NearNow(next_timeout', lwip_sys_timer, now)
           /\ \E j \in 1 .. Len(next_timeout') : next_timeout'[j] = [id |-> id, time |-> time]
           /\ \A i \in 1 .. Len(next_timeout) :
                 \E j \in 1 .. Len(next_timeout') : next_timeout'[j] = next_timeout[i]
<1> DEFINE e == [id |-> id, time |-> time]
           s == next_timeout
           c == lwip_sys_timer
           d == SignedAt(time, c)
<1>1. /\ s \in Seq(Entry) /\ c \in Counter /\ now \in Counter /\ Distinct(s)
      /\ e \in Entry /\ e.id = id /\ e.time = time /\ d \in Int
  BY SignedFacts DEF IInv, Kept, TypeOK, Entry
<1>2. Len(s) < PoolSize
  BY <1>1, Room
<1>3. PICK k \in 0 .. Len(s) :
        /\ \A i \in 1 .. k : ~ TIME_LESS_THAN(time, s[i].time)
        /\ k < Len(s) => TIME_LESS_THAN(time, s[k + 1].time)
        /\ next_timeout' = Inserted(s, k, e)
  BY <1>1, <1>2, TimersFinite DEF sys_timeout_abs
<1>4. ASSUME NEW i \in 1 .. Len(s)
      PROVE  /\ SignedAt(s[i].time, c) \in Int
             /\ TIME_LESS_THAN(time, s[i].time) <=> d < SignedAt(s[i].time, c)
  <2> DEFINE x == SignedAt(s[i].time, c)
  <2>1. s[i].id \in Timers /\ s[i].time \in Counter
    BY EntriesTyped
  <2>2. x \in Int /\ -MaxLate <= x /\ x <= Interval[s[i].id]
    BY <1>1, <2>1, SignedFacts DEF TimeInv, TimesOK
  <2>3. /\ Interval[id] \in Nat /\ 2 * (Interval[id] + MaxLate) < Modulus
        /\ Interval[s[i].id] \in Nat /\ 2 * (Interval[s[i].id] + MaxLate) < Modulus
    BY <2>1, Bounds
  <2> HIDE DEF x
  <2>4. -Modulus <= 2 * (d - x) /\ 2 * (d - x) < Modulus
    <3>1. d \in Int /\ 0 <= d /\ d <= Interval[id]
      BY <1>1
    <3>2. MaxLate \in Nat /\ Modulus \in Nat
      BY Bounds
    <3> HIDE DEF d, s
    <3> QED BY <2>2, <2>3, <3>1, <3>2, HalfTurn
  <2>5. SignedAt(time, s[i].time) = d - x
    BY <1>1, <2>1, <2>4, SignedDifference DEF x
  <2>6. TIME_LESS_THAN(time, s[i].time) <=> d - x < 0
    BY <2>1, <2>5, LessIsSigned
  <2>7. TIME_LESS_THAN(time, s[i].time) <=> d < x
    <3> HIDE DEF d
    <3>1. d - x < 0 <=> d < x
      BY <1>1, <2>2
    <3> QED BY <2>6, <3>1
  <2> QED BY <2>2, <2>7 DEF x
<1> HIDE DEF e, s, c, d
<1>5. \A i \in 1 .. k : SignedAt(s[i].time, c) <= d
  <2> TAKE i \in 1 .. k
  <2>1. i \in 1 .. Len(s)
    BY <1>1
  <2>2. SignedAt(s[i].time, c) \in Int /\ ~(d < SignedAt(s[i].time, c))
    BY <1>3, <1>4, <2>1
  <2> QED BY <1>1, <2>2
<1>6. k < Len(s) => d <= SignedAt(s[k + 1].time, c)
  <2> HAVE k < Len(s)
  <2>1. k + 1 \in 1 .. Len(s)
    BY <1>1
  <2>2. SignedAt(s[k + 1].time, c) \in Int /\ d < SignedAt(s[k + 1].time, c)
    BY <1>3, <1>4, <2>1
  <2> QED BY <1>1, <2>2
<1>7. TimesOK(s, c) /\ SortedAt(s, c) /\ -MaxLate <= d /\ d <= Interval[e.id]
      /\ d = SignedAt(e.time, c)
  <2>1. 0 <= d /\ -MaxLate <= 0
    BY Bounds DEF d, c
  <2>2. -MaxLate <= d
    BY <1>1, <2>1, Bounds
  <2> QED BY <1>1, <2>2 DEF TimeInv, s, c, d
<1>8. /\ TimesOK(Inserted(s, k, e), c) /\ SortedAt(Inserted(s, k, e), c)
      /\ /\ NearNow(s, c, now)
         /\ -MaxLate <= SignedAt(e.time, c) + Age(c, now)
         /\ SignedAt(e.time, c) + Age(c, now) <= Interval[e.id] + MaxLate
         => NearNow(Inserted(s, k, e), c, now)
  BY <1>1, <1>5, <1>6, <1>7, InsertTimes
<1>9. -MaxLate <= d + Age(c, now)
  <2>1. Age(c, now) \in Nat
    BY <1>1, Bounds DEF Age, Counter
  <2> QED BY <1>1, <1>7, <2>1, Bounds
<1>10. /\ Len(s) \in Nat /\ Len(next_timeout') = Len(s) + 1 /\ next_timeout'[k + 1] = e
       /\ \A i \in 1 .. k : next_timeout'[i] = s[i]
       /\ \A i \in (k + 1) .. Len(s) : next_timeout'[i + 1] = s[i]
  BY <1>1, <1>3, InsertedPlaces
<1>11. k + 1 \in 1 .. Len(next_timeout')
  BY <1>10
<1>12. ASSUME NEW i \in 1 .. Len(s)
       PROVE  \E j \in 1 .. Len(next_timeout') : next_timeout'[j] = s[i]
  <2>1. CASE i <= k
    <3>1. i \in 1 .. k /\ i \in 1 .. Len(next_timeout')
      BY <1>10, <2>1
    <3> QED BY <1>10, <3>1
  <2>2. CASE i > k
    <3>1. i \in (k + 1) .. Len(s) /\ i + 1 \in 1 .. Len(next_timeout')
      BY <1>10, <2>2
    <3> QED BY <1>10, <3>1
  <2> QED BY <1>10, <2>1, <2>2
<1> QED
  BY <1>1, <1>3, <1>7, <1>8, <1>9, <1>10, <1>11, <1>12 DEF e, s, c, d

\* To the service, an inserted timer is armed and the others stay as they are.
LEMMA TimeoutArms ==
    ASSUME IInv, IInv', TimeInv, NEW id \in Timers, id \notin Ids(next_timeout),
           NEW time \in Counter, sys_timeout_abs(id, time),
           0 <= SignedAt(time, lwip_sys_timer),
           SignedAt(time, lwip_sys_timer) <= Interval[id],
           lwip_sys_timer' = lwip_sys_timer, pc' # "handler", pc = "handler" => cur = id
    PROVE  /\ mode' = [mode EXCEPT ![id] = "armed"]
           /\ left' = [left EXCEPT ![id] = SignedAt(time, lwip_sys_timer)]
<1>1. Mapped /\ Mapped'
  BY MappingHolds, PTL
<1>2. Ids(next_timeout') = Ids(next_timeout) \cup {id}
  BY TimeoutInserted DEF IInv, Kept
<1>3. /\ \E j \in 1 .. Len(next_timeout') : next_timeout'[j] = [id |-> id, time |-> time]
      /\ \A i \in 1 .. Len(next_timeout) :
            \E j \in 1 .. Len(next_timeout') : next_timeout'[j] = next_timeout[i]
  BY TimeoutPlaced
<1>4. \A j \in 1 .. Len(next_timeout') :
        /\ mode'[next_timeout'[j].id] = "armed"
        /\ left'[next_timeout'[j].id] = SignedAt(next_timeout'[j].time, lwip_sys_timer)
  BY <1>1 DEF Mapped
<1>5. mode'[id] = "armed" /\ left'[id] = SignedAt(time, lwip_sys_timer)
  <2>1. PICK j \in 1 .. Len(next_timeout') : next_timeout'[j] = [id |-> id, time |-> time]
    BY <1>3
  <2>2. next_timeout'[j].id = id /\ next_timeout'[j].time = time
    BY <2>1
  <2> QED BY <1>4, <2>2
<1>6. ASSUME NEW t \in Timers, t # id
      PROVE  mode'[t] = mode[t] /\ left'[t] = left[t]
  <2>1. CASE \E i \in 1 .. Len(next_timeout) : next_timeout[i].id = t
    <3>1. PICK i \in 1 .. Len(next_timeout) : next_timeout[i].id = t
      BY <2>1
    <3>2. PICK j \in 1 .. Len(next_timeout') : next_timeout'[j] = next_timeout[i]
      BY <1>3
    <3>3. mode[t] = "armed" /\ left[t] = SignedAt(next_timeout[i].time, lwip_sys_timer)
      BY <1>1, <3>1 DEF Mapped
    <3>4. mode'[t] = "armed" /\ left'[t] = SignedAt(next_timeout[i].time, lwip_sys_timer)
      BY <1>4, <3>1, <3>2
    <3> QED BY <3>3, <3>4
  <2>2. CASE Running(t)
    BY <1>6, <2>2 DEF Running
  <2>3. CASE t \notin Ids(next_timeout) /\ ~Running(t)
    <3>1. mode[t] = "off" /\ left[t] = 0
      BY <1>1, <2>3 DEF Mapped
    <3>2. t \notin Ids(next_timeout') /\ ~(Running(t))'
      BY <1>2, <1>6, <2>3 DEF Running
    <3>3. mode'[t] = "off" /\ left'[t] = 0
      BY <1>1, <3>2 DEF Mapped
    <3> QED BY <3>1, <3>3
  <2> QED BY <2>1, <2>2, <2>3, Places
<1>7. /\ mode = [t \in Timers |-> mode[t]] /\ left = [t \in Timers |-> left[t]]
      /\ mode' = [t \in Timers |-> mode'[t]] /\ left' = [t \in Timers |-> left'[t]]
  BY <1>1 DEF Mapped
<1>8. mode' = [mode EXCEPT ![id] = "armed"]
  BY <1>5, <1>6, <1>7
<1>9. left' = [left EXCEPT ![id] = SignedAt(time, lwip_sys_timer)]
  BY <1>5, <1>6, <1>7
<1> QED
  BY <1>8, <1>9

-----------------------------------------------------------------------------
(* The other steps. *)

\* A step that moves neither the clock nor the list nor a handler.
LEMMA StutterTimes ==
    ASSUME IInv, TimeInv, next_timeout' = next_timeout, lwip_sys_timer' = lwip_sys_timer,
           due_time' = due_time, cur' = cur, now' = now, pc \notin {"check", "handler"},
           pc' \notin {"check", "handler"}
    PROVE  TimeInv' /\ mode' = mode /\ left' = left
<1>1. TimeInv'
  BY DEF TimeInv, TimesOK, SortedAt
<1>2. mode' = mode
  BY DEF mode, Waiting, Entries
<1>3. left' = left
  BY DEF left, Waiting, Entries, Signed
<1> QED BY <1>1, <1>2, <1>3

\* Entering sys_check_timeouts: the reading is the present.
LEMMA EnterTimes ==
    ASSUME IInv, TimeInv, CheckEnter
    PROVE  TimeInv' /\ mode' = mode /\ left' = left
<1>1. /\ next_timeout' = next_timeout /\ lwip_sys_timer' = lwip_sys_timer /\ now' = lwip_sys_timer
      /\ due_time' = due_time /\ cur' = cur /\ pc = "loop" /\ pc' = "check"
      /\ lwip_sys_timer \in Counter
  BY DEF CheckEnter, listVars, IInv, TypeOK
<1>2. Age(lwip_sys_timer, lwip_sys_timer) = 0
  <2>1. lwip_sys_timer - lwip_sys_timer = 0
    BY <1>1 DEF Counter
  <2>2. 0 % Modulus = 0
    BY WrapsOnce, ModulusType
  <2> QED BY <2>1, <2>2 DEF Age
<1>3. NearNow(next_timeout, lwip_sys_timer, lwip_sys_timer)
  <2> SUFFICES ASSUME NEW i \in 1 .. Len(next_timeout)
               PROVE  LET d == SignedAt(next_timeout[i].time, lwip_sys_timer)
                                 + Age(lwip_sys_timer, lwip_sys_timer)
                      IN  -MaxLate <= d /\ d <= Interval[next_timeout[i].id] + MaxLate
    BY DEF NearNow
  <2>1. next_timeout[i].id \in Timers /\ next_timeout[i].time \in Counter
    BY EntriesTyped
  <2>2. /\ SignedAt(next_timeout[i].time, lwip_sys_timer) \in Int
        /\ -MaxLate <= SignedAt(next_timeout[i].time, lwip_sys_timer)
        /\ SignedAt(next_timeout[i].time, lwip_sys_timer) <= Interval[next_timeout[i].id]
    BY <1>1, <2>1, SignedFacts DEF TimeInv, TimesOK
  <2>3. Interval[next_timeout[i].id] \in Nat /\ MaxLate \in Nat
    BY <2>1, Bounds
  <2> QED BY <1>2, <2>2, <2>3
<1>4. TimeInv'
  BY <1>1, <1>3 DEF TimeInv
<1>5. mode' = mode
  BY <1>1 DEF mode, Waiting, Entries
<1>6. left' = left
  BY <1>1 DEF left, Waiting, Entries, Signed
<1> QED BY <1>4, <1>5, <1>6

\* The head of the list has expired in true time, and is the longest overdue.
LEMMA HeadIsDue ==
    ASSUME IInv, TimeInv, CheckFire
    PROVE  /\ 1 \in 1 .. Len(next_timeout)
           /\ SignedAt(next_timeout[1].time, lwip_sys_timer) \in Int
           /\ SignedAt(next_timeout[1].time, lwip_sys_timer) + Age(lwip_sys_timer, now) <= 0
           /\ SignedAt(next_timeout[1].time, lwip_sys_timer) <= 0
           /\ \A i \in 1 .. Len(next_timeout) :
                 SignedAt(next_timeout[1].time, lwip_sys_timer)
                   <= SignedAt(next_timeout[i].time, lwip_sys_timer)
<1> DEFINE x == SignedAt(next_timeout[1].time, lwip_sys_timer)
           a == Age(lwip_sys_timer, now)
<1>1. /\ pc = "check" /\ next_timeout # << >> /\ next_timeout \in Seq(Entry)
      /\ lwip_sys_timer \in Counter /\ now \in Counter
      /\ ~ TIME_LESS_THAN(now, next_timeout[1].time)
  BY DEF CheckFire, HeadExpired, IInv, TypeOK, Entry
<1>2. Len(next_timeout) \in Nat /\ 1 \in 1 .. Len(next_timeout)
  BY <1>1
<1>3. next_timeout[1].id \in Timers /\ next_timeout[1].time \in Counter
  BY <1>2, EntriesTyped
<1>4. x \in Int /\ a \in Nat
  <2>1. x \in Int
    BY <1>1, <1>3, SignedFacts
  <2>2. a \in Nat
    BY <1>1, ModulusType DEF Age, Counter
  <2> QED BY <2>1, <2>2
<1>5. -MaxLate <= x + a /\ x + a <= Interval[next_timeout[1].id] + MaxLate
  BY <1>1, <1>2 DEF TimeInv, NearNow
<1>6. -Modulus < 2 * (x + a) /\ 2 * (x + a) < Modulus
  <2>1. /\ Interval[next_timeout[1].id] \in Nat /\ MaxLate \in Nat /\ Modulus \in Nat
        /\ 2 * (Interval[next_timeout[1].id] + MaxLate) < Modulus /\ 2 * MaxLate < Modulus
    BY <1>3, Bounds
  <2> HIDE DEF x, a
  <2> QED BY <1>4, <1>5, <2>1
<1>7. SignedAt(now, next_timeout[1].time) = -(x + a)
  BY <1>1, <1>3, <1>6, SignedSince DEF Age
<1>8. ~(-(x + a) < 0)
  BY <1>1, <1>3, <1>7, LessIsSigned
<1>9. x + a <= 0 /\ x <= 0
  <2> HIDE DEF x, a
  <2> QED BY <1>4, <1>8
<1>10. ASSUME NEW i \in 1 .. Len(next_timeout)
       PROVE  x <= SignedAt(next_timeout[i].time, lwip_sys_timer)
  <2>1. CASE i = 1
    BY <1>4, <2>1
  <2>2. CASE i # 1
    <3>1. 1 < i
      BY <1>2, <2>2
    <3> QED BY <1>2, <3>1 DEF TimeInv, SortedAt
  <2> QED BY <2>1, <2>2
<1> QED
  BY <1>2, <1>4, <1>9, <1>10

\* Taking the head off the list keeps the order of the rest, and the head was
\* expired when sys_check_timeouts read the clock.
LEMMA FireTimes ==
    ASSUME IInv, TimeInv, CheckFire
    PROVE  TimeInv'
<1> DEFINE s == next_timeout
           r == Tail(s)
<1>1. /\ next_timeout' = r /\ due_time' = s[1].time /\ lwip_sys_timer' = lwip_sys_timer
      /\ now' = now /\ pc = "check" /\ pc' = "handler" /\ s # << >> /\ s \in Seq(Entry)
  BY DEF CheckFire, HeadExpired, IInv, TypeOK, Entry
<1>2. /\ Len(s) \in Nat /\ Len(r) = Len(s) - 1 /\ 1 \in 1 .. Len(s)
      /\ \A i \in 1 .. Len(r) : i + 1 \in 1 .. Len(s) /\ r[i] = s[i + 1]
  BY <1>1
<1> HIDE DEF r
<1>3. TimesOK(r, lwip_sys_timer)
  BY <1>2 DEF TimeInv, TimesOK
<1>4. SortedAt(r, lwip_sys_timer)
  <2> SUFFICES ASSUME NEW i \in 1 .. Len(r), NEW j \in 1 .. Len(r), i < j
               PROVE  SignedAt(r[i].time, lwip_sys_timer) <= SignedAt(r[j].time, lwip_sys_timer)
    BY DEF SortedAt
  <2>1. i + 1 < j + 1
    BY <1>2
  <2> QED BY <1>2, <2>1 DEF TimeInv, SortedAt
<1>5. NearNow(r, lwip_sys_timer, now)
  BY <1>1, <1>2 DEF TimeInv, NearNow
<1>6. -MaxLate <= SignedAt(s[1].time, lwip_sys_timer)
  BY <1>2 DEF TimeInv, TimesOK
<1> QED
  BY <1>1, <1>3, <1>4, <1>5, <1>6, HeadIsDue DEF TimeInv

\* Calling a handler is a step of the service.
LEMMA FireFires ==
    ASSUME IInv, IInv', TimeInv, CheckFire
    PROVE  \E t \in Timers : Service!Fire(t)
<1> DEFINE s == next_timeout
           t == s[1].id
           x == SignedAt(s[1].time, lwip_sys_timer)
<1>1. /\ next_timeout' = Tail(s) /\ due_time' = s[1].time /\ lwip_sys_timer' = lwip_sys_timer
      /\ cur' = t /\ pc = "check" /\ pc' = "handler" /\ s # << >> /\ s \in Seq(Entry)
      /\ Distinct(s)
  BY DEF CheckFire, HeadExpired, IInv, TypeOK, Entry, Kept
<1>2. /\ Len(s) \in Nat /\ Len(Tail(s)) = Len(s) - 1 /\ 1 \in 1 .. Len(s)
      /\ \A i \in 1 .. Len(Tail(s)) : Tail(s)[i] = s[i + 1]
  BY <1>1
<1>3. t \in Timers
  BY <1>2, EntriesTyped
<1>4. Mapped /\ Mapped'
  BY MappingHolds, PTL
<1>5. mode[t] = "armed" /\ left[t] = x
  BY <1>2, <1>4 DEF Mapped
<1>6. mode'[t] = "running" /\ left'[t] = x
  BY <1>1, <1>4 DEF Mapped
<1>7. ASSUME NEW u \in Timers
      PROVE  /\ mode[u] # "running" /\ (mode[u] = "armed" => x <= left[u])
             /\ u # t => mode'[u] = mode[u] /\ left'[u] = left[u]
  <2>1. CASE \E i \in 1 .. Len(s) : s[i].id = u
    <3>1. PICK i \in 1 .. Len(s) : s[i].id = u
      BY <2>1
    <3>2. mode[u] = "armed" /\ left[u] = SignedAt(s[i].time, lwip_sys_timer)
      BY <1>4, <3>1 DEF Mapped
    <3>3. x <= left[u]
      BY <3>2, HeadIsDue
    <3>4. ASSUME u # t
          PROVE  mode'[u] = "armed" /\ left'[u] = SignedAt(s[i].time, lwip_sys_timer)
      <4>1. i # 1
        BY <3>1, <3>4
      <4>2. i - 1 \in 1 .. Len(next_timeout') /\ next_timeout'[i - 1] = s[i]
        BY <1>1, <1>2, <4>1
      <4> QED BY <1>1, <1>4, <3>1, <4>2 DEF Mapped
    <3> QED BY <3>2, <3>3, <3>4
  <2>2. CASE Running(u)
    BY <1>1, <2>2 DEF Running
  <2>3. CASE u \notin Ids(s) /\ ~Running(u)
    <3>1. mode[u] = "off" /\ left[u] = 0
      BY <1>4, <2>3 DEF Mapped
    <3>2. ASSUME u # t PROVE mode'[u] = "off" /\ left'[u] = 0
      <4>1. u \notin Ids(next_timeout')
        BY <1>1, <2>3, TailOfList
      <4>2. ~(Running(u))'
        BY <1>1, <3>2 DEF Running
      <4> QED BY <1>4, <4>1, <4>2 DEF Mapped
    <3> QED BY <3>1, <3>2
  <2> QED BY <2>1, <2>2, <2>3, Places
<1>8. x <= 0
  BY HeadIsDue
<1>9. /\ mode = [u \in Timers |-> mode[u]] /\ left = [u \in Timers |-> left[u]]
      /\ mode' = [u \in Timers |-> mode'[u]] /\ left' = [u \in Timers |-> left'[u]]
  BY <1>4 DEF Mapped
<1> HIDE DEF t, x, s
<1>10. mode' = [mode EXCEPT ![t] = "running"]
  BY <1>3, <1>6, <1>7, <1>9
<1>11. left' = left
  BY <1>3, <1>5, <1>6, <1>7, <1>9
<1>12. Service!Fire(t)
  BY <1>5, <1>7, <1>8, <1>10, <1>11 DEF Service!Fire, Service!Timers, Timers
<1> QED
  BY <1>3, <1>12

\* A handler that arms its timer again, by at most one period from now.
LEMMA HandlerTimes ==
    ASSUME IInv, TimeInv, pc = "handler", pc' = "check",
           NEW time \in Counter, sys_timeout_abs(cur, time),
           0 <= SignedAt(time, lwip_sys_timer),
           SignedAt(time, lwip_sys_timer) <= Interval[cur],
           lwip_sys_timer' = lwip_sys_timer, now' = now
    PROVE  TimeInv'
<1> DEFINE d == SignedAt(time, lwip_sys_timer)
           a == Age(lwip_sys_timer, now)
           x == SignedAt(due_time, lwip_sys_timer)
<1>1. /\ cur \in Timers /\ cur \notin Ids(next_timeout) /\ due_time \in Counter
      /\ lwip_sys_timer \in Counter /\ now \in Counter
  BY DEF IInv, Kept, TypeOK
<1>2. d \in Int /\ x \in Int
  BY <1>1, SignedFacts
<1>3. a \in Nat
  BY <1>1, ModulusType DEF Age, Counter
<1>4. -MaxLate <= x /\ x + a <= 0 /\ NearNow(next_timeout, lwip_sys_timer, now)
  BY DEF TimeInv
<1>5. d + a <= Interval[cur] + MaxLate
  <2>1. Interval[cur] \in Nat /\ MaxLate \in Nat /\ d <= Interval[cur]
    BY <1>1, Bounds
  <2> HIDE DEF d, a, x
  <2> QED BY <1>2, <1>3, <1>4, <2>1
<1>6. /\ TimesOK(next_timeout', lwip_sys_timer) /\ SortedAt(next_timeout', lwip_sys_timer)
      /\ NearNow(next_timeout', lwip_sys_timer, now)
  BY <1>1, <1>4, <1>5, TimeoutPlaced
<1> QED
  BY <1>6 DEF TimeInv

\* lwip_cyclic_timer: the period counts from the time the timer was due
\* unless that is more than a period ago.
LEMMA CyclicAgain ==
    ASSUME IInv, IInv', TimeInv, lwip_cyclic_timer
    PROVE  TimeInv' /\ \E t \in Cyclic : Service!Again(t)
<1> DEFINE c == lwip_sys_timer
           x == SignedAt(due_time, c)
           p == Interval[cur]
           next == (due_time + p) % Modulus
<1>1. /\ pc = "handler" /\ pc' = "check" /\ c' = c /\ now' = now /\ cur \in Cyclic
      /\ cur \in Timers /\ cur \notin Ids(next_timeout) /\ due_time \in Counter
      /\ c \in Counter /\ now \in Counter
  BY DEF lwip_cyclic_timer, BackInCheck, IInv, Kept, TypeOK
<1>2. p \in Nat /\ p > 0 /\ MaxLate \in Nat /\ Modulus \in Nat /\ 2 * (p + MaxLate) < Modulus
  BY <1>1, Bounds
<1>3. x \in Int /\ -MaxLate <= x /\ x <= 0
  <2>1. x \in Int
    BY <1>1, SignedFacts
  <2>2. Age(c, now) \in Nat
    BY <1>1, ModulusType DEF Age, Counter
  <2>3. -MaxLate <= x /\ x + Age(c, now) <= 0
    BY <1>1 DEF TimeInv
  <2> HIDE DEF x, c
  <2> QED BY <2>1, <2>2, <2>3
<1>4. /\ IF TIME_LESS_THAN(next, c)
           THEN sys_timeout_abs(cur, (c + p) % Modulus) ELSE sys_timeout_abs(cur, next)
  BY DEF lwip_cyclic_timer, sys_timeout
<1> HIDE DEF c, p
<1>5. next \in Counter /\ SignedAt(next, c) = x + p
  <2>1. 2 * (x + p) < Modulus
    <3> HIDE DEF x
    <3> QED BY <1>2, <1>3
  <2> QED BY <1>1, <1>2, <2>1, SignedAhead
<1>6. (c + p) % Modulus \in Counter /\ SignedAt((c + p) % Modulus, c) = p
  <2>1. -Modulus <= 2 * p /\ 2 * p < Modulus /\ p \in Int
    BY <1>2
  <2> QED BY <1>1, <2>1, SignedSum
<1>7. TIME_LESS_THAN(next, c) <=> x + p < 0
  BY <1>1, <1>5, LessIsSigned
<1> HIDE DEF x, next
<1>8. PICK time \in Counter : /\ sys_timeout_abs(cur, time)
                             /\ SignedAt(time, c) = IF x + p >= 0 THEN x + p ELSE p
  <2>1. CASE x + p < 0
    <3>1. ~(x + p >= 0)
      BY <1>2, <1>3, <2>1
    <3> QED BY <1>4, <1>6, <1>7, <2>1, <3>1
  <2>2. CASE ~(x + p < 0)
    <3>1. x + p >= 0
      BY <1>2, <1>3, <2>2
    <3> QED BY <1>4, <1>5, <1>7, <2>2, <3>1
  <2> QED BY <2>1, <2>2
<1>9. 0 <= SignedAt(time, c) /\ SignedAt(time, c) <= p
  <2>1. CASE x + p >= 0
    BY <1>2, <1>3, <1>8, <2>1
  <2>2. CASE ~(x + p >= 0)
    BY <1>2, <1>3, <1>8, <2>2
  <2> QED BY <2>1, <2>2
<1>10. TimeInv'
  BY <1>1, <1>8, <1>9, HandlerTimes DEF c, p
<1>11. /\ mode' = [mode EXCEPT ![cur] = "armed"]
       /\ left' = [left EXCEPT ![cur] = SignedAt(time, c)]
  BY <1>1, <1>8, <1>9, TimeoutArms DEF c, p
<1>12. mode[cur] = "running" /\ left[cur] = x /\ left = [t \in Timers |-> left[t]]
  BY <1>1, MappingHolds DEF Mapped, x, c
<1>13. left' = [left EXCEPT ![cur] = IF @ + Interval[cur] >= 0
                                       THEN @ + Interval[cur] ELSE Interval[cur]]
  BY <1>8, <1>11, <1>12 DEF p
<1>14. Service!Again(cur)
  BY <1>11, <1>12, <1>13 DEF Service!Again
<1> QED
  BY <1>1, <1>10, <1>14

\* Starting a timer for a whole period.
LEMMA WholePeriod ==
    ASSUME IInv, NEW id \in Timers
    PROVE  /\ (lwip_sys_timer + Interval[id]) % Modulus \in Counter
           /\ SignedAt((lwip_sys_timer + Interval[id]) % Modulus, lwip_sys_timer) = Interval[id]
           /\ Interval[id] \in Nat
<1>1. lwip_sys_timer \in Counter
  BY DEF IInv, TypeOK
<1>2. Interval[id] \in Nat /\ 2 * (Interval[id] + MaxLate) < Modulus /\ MaxLate \in Nat /\ Modulus \in Nat
  BY Bounds
<1>3. -Modulus <= 2 * Interval[id] /\ 2 * Interval[id] < Modulus /\ Interval[id] \in Int
  BY <1>2
<1> QED
  BY <1>1, <1>2, <1>3, SignedSum

\* tcpip_tcp_timer starts its timer again or stops it.
LEMMA TcpAgain ==
    ASSUME IInv, IInv', TimeInv, tcpip_tcp_timer
    PROVE  TimeInv' /\ (Service!Start(Tcp) \/ Service!Stop(Tcp))
<1>1. /\ pc = "handler" /\ pc' = "check" /\ lwip_sys_timer' = lwip_sys_timer /\ now' = now
      /\ cur = Tcp /\ cur \in Timers /\ cur \notin Ids(next_timeout)
  BY DEF tcpip_tcp_timer, BackInCheck, IInv, Kept, TypeOK
<1>2. mode[Tcp] = "running"
  BY <1>1, MappingHolds DEF Mapped
<1>3. CASE pcb
  <2> DEFINE time == (lwip_sys_timer + Interval[Tcp]) % Modulus
  <2>1. sys_timeout_abs(cur, time)
    BY <1>1, <1>3 DEF tcpip_tcp_timer, sys_timeout
  <2>2. time \in Counter /\ SignedAt(time, lwip_sys_timer) = Interval[Tcp] /\ Interval[Tcp] \in Nat
    BY <1>1, WholePeriod
  <2> HIDE DEF time
  <2>3. 0 <= SignedAt(time, lwip_sys_timer) /\ SignedAt(time, lwip_sys_timer) <= Interval[Tcp]
    BY <2>2
  <2>4. TimeInv'
    BY <1>1, <2>1, <2>2, <2>3, HandlerTimes
  <2>5. /\ mode' = [mode EXCEPT ![Tcp] = "armed"]
        /\ left' = [left EXCEPT ![Tcp] = Interval[Tcp]]
    BY <1>1, <2>1, <2>2, <2>3, TimeoutArms
  <2> QED BY <1>2, <2>4, <2>5 DEF Service!Start
<1>4. CASE ~pcb
  <2>1. next_timeout' = next_timeout
    BY <1>4 DEF tcpip_tcp_timer
  <2>2. TimeInv'
    BY <1>1, <2>1 DEF TimeInv
  <2>3. Mapped /\ Mapped'
    BY MappingHolds, PTL
  <2>4. mode'[Tcp] = "off" /\ left'[Tcp] = 0
    BY <1>1, <2>1, <2>3 DEF Mapped, Running
  <2>5. ASSUME NEW t \in Timers, t # Tcp
        PROVE  mode'[t] = mode[t] /\ left'[t] = left[t]
    <3>1. CASE \E i \in 1 .. Len(next_timeout) : next_timeout[i].id = t
      BY <1>1, <2>1, <2>3, <3>1 DEF Mapped
    <3>2. CASE t \notin Ids(next_timeout) /\ ~Running(t)
      BY <1>1, <2>1, <2>3, <3>2 DEF Mapped, Running
    <3> QED BY <1>1, <2>5, <3>1, <3>2, Places DEF Running
  <2>6. /\ mode = [t \in Timers |-> mode[t]] /\ left = [t \in Timers |-> left[t]]
        /\ mode' = [t \in Timers |-> mode'[t]] /\ left' = [t \in Timers |-> left'[t]]
    BY <2>3 DEF Mapped
  <2>7. mode' = [mode EXCEPT ![Tcp] = "off"]
    BY <1>1, <2>4, <2>5, <2>6
  <2>8. left' = [left EXCEPT ![Tcp] = 0]
    BY <1>1, <2>4, <2>5, <2>6
  <2> QED BY <1>2, <2>2, <2>7, <2>8 DEF Service!Stop
<1> QED
  BY <1>3, <1>4

\* tcp_connect starts the TCP timer unless it is on.
LEMMA ConnectStarts ==
    ASSUME IInv, IInv', TimeInv, tcp_connect
    PROVE  TimeInv' /\ (Service!Start(Tcp) \/ (mode' = mode /\ left' = left))
<1>1. /\ pc = "loop" /\ pc' = "loop" /\ lwip_sys_timer' = lwip_sys_timer /\ now' = now
      /\ cur' = cur /\ due_time' = due_time /\ Tcp \in Timers
  BY DEF tcp_connect, Timers
<1>2. CASE tcp_active
  <2>1. next_timeout' = next_timeout
    BY <1>2 DEF tcp_connect, tcp_timer_needed
  <2> QED BY <1>1, <2>1, StutterTimes
<1>3. CASE ~tcp_active
  <2> DEFINE time == (lwip_sys_timer + Interval[Tcp]) % Modulus
  <2>1. sys_timeout_abs(Tcp, time) /\ Tcp \notin Ids(next_timeout) /\ ~Running(Tcp)
    BY <1>3 DEF tcp_connect, tcp_timer_needed, sys_timeout, IInv, Kept
  <2>2. time \in Counter /\ SignedAt(time, lwip_sys_timer) = Interval[Tcp] /\ Interval[Tcp] \in Nat
    BY <1>1, WholePeriod
  <2> HIDE DEF time
  <2>3. 0 <= SignedAt(time, lwip_sys_timer) /\ SignedAt(time, lwip_sys_timer) <= Interval[Tcp]
    BY <2>2
  <2>4. TimesOK(next_timeout', lwip_sys_timer) /\ SortedAt(next_timeout', lwip_sys_timer)
    BY <1>1, <2>1, <2>2, <2>3, TimeoutPlaced
  <2>5. TimeInv'
    BY <1>1, <2>4 DEF TimeInv
  <2>6. /\ mode' = [mode EXCEPT ![Tcp] = "armed"]
        /\ left' = [left EXCEPT ![Tcp] = Interval[Tcp]]
    BY <1>1, <2>1, <2>2, <2>3, TimeoutArms
  <2>7. mode[Tcp] = "off"
    BY <1>1, <2>1, MappingHolds DEF Mapped
  <2> QED BY <2>5, <2>6, <2>7 DEF Service!Start
<1> QED
  BY <1>2, <1>3

\* All periods start in the same tick and the list is sorted by them.
LEMMA InitTimes == Init => TimeInv /\ Service!ServiceInit
<1> SUFFICES ASSUME Init PROVE TimeInv /\ Service!ServiceInit
  OBVIOUS
<1> DEFINE s == next_timeout
           n == Cardinality(Cyclic)
<1>1. IInv /\ Mapped
  BY InitKept, MappingHolds
<1>2. Len(s) = n /\ s \in [1 .. n -> {FirstTimeout(t) : t \in Cyclic}]
  BY DEF Init, IsInitialList
<1>3. ASSUME NEW i \in 1 .. Len(s)
      PROVE  /\ s[i].id \in Cyclic /\ Interval[s[i].id] \in Nat
             /\ SignedAt(s[i].time, lwip_sys_timer) = Interval[s[i].id]
  <2>1. PICK t \in Cyclic : s[i] = FirstTimeout(t)
    BY <1>2
  <2>2. s[i].id = t /\ s[i].time = (lwip_sys_timer + Interval[t]) % Modulus /\ t \in Timers
    BY <2>1 DEF FirstTimeout, Timers
  <2> QED BY <1>1, <2>2, WholePeriod
<1>4. TimesOK(s, lwip_sys_timer)
  BY <1>3, Bounds DEF TimesOK
<1>5. SortedAt(s, lwip_sys_timer)
  BY <1>3 DEF SortedAt, Init, IsInitialList
<1>6. TimeInv
  BY <1>4, <1>5 DEF TimeInv, Init
<1>7. pc = "boot" /\ ~tcp_active
  BY DEF Init
<1>8. ASSUME NEW t \in Timers
      PROVE  /\ left[t] = IF t \in Cyclic THEN Interval[t] ELSE 0
             /\ mode[t] = IF t \in Cyclic THEN "armed" ELSE "off"
  <2>1. CASE t \in Cyclic
    <3>1. PICK i \in 1 .. Len(s) : s[i].id = t
      BY <1>1, <1>7, <2>1 DEF IInv, Kept, Running, Ids
    <3> QED BY <1>1, <1>3, <2>1, <3>1 DEF Mapped
  <2>2. CASE t \notin Cyclic
    <3>1. t \notin Ids(s) /\ ~Running(t)
      BY <1>3, <1>7, <2>2 DEF Ids, Running
    <3> QED BY <1>1, <2>2, <3>1 DEF Mapped
  <2> QED BY <2>1, <2>2
<1>9. /\ left = [t \in Timers |-> IF t \in Cyclic THEN Interval[t] ELSE 0]
      /\ mode = [t \in Timers |-> IF t \in Cyclic THEN "armed" ELSE "off"]
  BY <1>1, <1>8 DEF Mapped
<1> QED
  BY <1>6, <1>9 DEF Service!ServiceInit, Service!Timers, Timers

\* Every step keeps the times right and is a step of the service or none.
LEMMA TimesStep ==
    ASSUME IInv, IInv', TimeInv, [Next]_vars
    PROVE  TimeInv' /\ [Service!ServiceNext]_(Service!tsvars)
<1>1. CASE TIM3_IRQHandler
  BY <1>1, TickTimes, TickElapses DEF Service!ServiceNext
<1>2. CASE Boot
  <2>1. /\ next_timeout' = next_timeout /\ lwip_sys_timer' = lwip_sys_timer
        /\ due_time' = due_time /\ cur' = cur /\ now' = now
        /\ pc \notin {"check", "handler"} /\ pc' \notin {"check", "handler"}
    BY <1>2 DEF Boot, PeriodicTest, PeriodicCall, PeriodicAgain, BootEnds, listVars
  <2> QED BY <2>1, StutterTimes DEF Service!tsvars
<1>3. CASE tcp_connect
  BY <1>3, ConnectStarts DEF Service!ServiceNext, Service!tsvars
<1>4. CASE PcbGone \/ UNCHANGED vars
  <2>1. /\ next_timeout' = next_timeout /\ lwip_sys_timer' = lwip_sys_timer
        /\ due_time' = due_time /\ cur' = cur /\ now' = now /\ pc' = pc
    BY <1>4 DEF PcbGone, vars, listVars
  <2>2. TimeInv'
    BY <2>1 DEF TimeInv
  <2>3. mode' = mode
    BY <2>1 DEF mode, Waiting, Entries
  <2>4. left' = left
    BY <2>1 DEF left, Waiting, Entries, Signed
  <2> QED BY <2>2, <2>3, <2>4 DEF Service!tsvars
<1>5. CASE CheckEnter
  BY <1>5, EnterTimes DEF Service!tsvars
<1>6. CASE CheckReturn
  <2>1. /\ next_timeout' = next_timeout /\ lwip_sys_timer' = lwip_sys_timer
        /\ due_time' = due_time /\ cur' = cur /\ pc = "check" /\ pc' = "loop"
    BY <1>6 DEF CheckReturn, listVars
  <2>2. TimeInv'
    BY <2>1 DEF TimeInv
  <2>3. mode' = mode
    BY <2>1 DEF mode, Waiting, Entries
  <2>4. left' = left
    BY <2>1 DEF left, Waiting, Entries, Signed
  <2> QED BY <2>2, <2>3, <2>4 DEF Service!tsvars
<1>7. CASE CheckFire
  BY <1>7, FireTimes, FireFires DEF Service!ServiceNext, Service!Timers, Timers
<1>8. CASE lwip_cyclic_timer
  BY <1>8, CyclicAgain DEF Service!ServiceNext
<1>9. CASE tcpip_tcp_timer
  BY <1>9, TcpAgain DEF Service!ServiceNext
<1> QED
  BY <1>1, <1>2, <1>3, <1>4, <1>5, <1>6, <1>7, <1>8, <1>9 DEF Next, Check

\* lwIP's timeout list over a counter that wraps (timeouts.c) is a timer
\* service over true time: no handler is called early, the one that has
\* waited longest goes first, and a cyclic timer keeps its rhythm, for any
\* set of timers, any periods, tick and width of the counter, across any
\* number of wraps, as long as the main code is less than half the counter
\* minus a period late.
THEOREM ListImplementsService == Spec => ImplementsTimerService
<1>1. Init => TimeInv /\ Service!ServiceInit
  BY InitTimes
<1>2. IInv /\ IInv' /\ TimeInv /\ [Next]_vars => TimeInv'
  BY TimesStep
<1>3. IInv /\ IInv' /\ TimeInv /\ [Next]_vars => [Service!ServiceNext]_(Service!tsvars)
  BY TimesStep
<1> QED
  BY <1>1, <1>2, <1>3, ListInvariant, PTL DEF Spec, ImplementsTimerService, Service!ServiceSpec

-----------------------------------------------------------------------------
(* The boot loop. *)

\* Every step of the boot loop keeps the stamps and the elapsed times together.
LEMMA StampStep ==
    ASSUME IInv, StampInv, [Next]_vars
    PROVE  StampInv'
<1>1. CASE TIM3_IRQHandler
  <2>1. /\ lwip_sys_timer' = (lwip_sys_timer + TickMs) % Modulus /\ lwip_sys_timer \in Counter
        /\ stamp' = stamp /\ pc' = pc /\ stamp \in [Handlers -> Counter]
        /\ elapsed \in [Handlers -> Nat]
        /\ InBoot => /\ elapsed' = [i \in Handlers |-> elapsed[i] + TickMs]
                     /\ \A i \in Handlers : elapsed[i] + TickMs < Modulus \div 2
    BY <1>1 DEF TIM3_IRQHandler, OnTime, IInv, TypeOK
  <2> SUFFICES ASSUME InBoot, NEW i \in Handlers
               PROVE  2 * elapsed'[i] < Modulus /\ SignedAt(lwip_sys_timer', stamp[i]) = elapsed'[i]
    BY <2>1 DEF StampInv, InBoot
  <2>2. /\ elapsed[i] \in Nat /\ stamp[i] \in Counter /\ elapsed'[i] = elapsed[i] + TickMs
        /\ elapsed[i] + TickMs < Modulus \div 2
    BY <2>1
  <2>3. SignedAt(lwip_sys_timer, stamp[i]) = elapsed[i]
    BY DEF StampInv
  <2>4. 2 * (elapsed[i] + TickMs) < Modulus
    BY <2>2, Bounds
  <2> QED BY <2>1, <2>2, <2>3, <2>4, SignedAhead, Bounds
<1>2. CASE PeriodicCall
  <2>1. /\ lwip_sys_timer' = lwip_sys_timer /\ InBoot /\ lwip_sys_timer \in Counter
        /\ stamp' = [stamp EXCEPT ![at] = lwip_sys_timer]
        /\ elapsed' = [elapsed EXCEPT ![at] = 0]
        /\ stamp \in [Handlers -> Counter] /\ elapsed \in [Handlers -> Nat]
    BY <1>2 DEF PeriodicCall, InBoot, IInv, TypeOK
  <2> SUFFICES ASSUME NEW i \in Handlers
               PROVE  2 * elapsed'[i] < Modulus /\ SignedAt(lwip_sys_timer, stamp'[i]) = elapsed'[i]
    BY <2>1 DEF StampInv
  <2>2. CASE i = at
    <3>1. stamp'[i] = lwip_sys_timer /\ elapsed'[i] = 0
      BY <2>1, <2>2
    <3>2. lwip_sys_timer - lwip_sys_timer = 0 /\ -Modulus <= 2 * 0 /\ 2 * 0 < Modulus
      BY <2>1, Bounds DEF Counter
    <3>3. SignedAt(lwip_sys_timer, lwip_sys_timer) = 0
      BY <2>1, <3>2, SignedUnique DEF Near
    <3> QED BY <3>1, <3>2, <3>3
  <2>3. CASE i # at
    BY <2>1, <2>3 DEF StampInv
  <2> QED BY <2>2, <2>3
<1>3. CASE PeriodicTest \/ PeriodicAgain
  BY <1>3 DEF PeriodicTest, PeriodicAgain, StampInv, InBoot
<1>4. CASE BootEnds \/ tcp_connect \/ Check
  BY <1>4 DEF BootEnds, tcp_connect, Check, CheckEnter, CheckReturn, CheckFire,
              lwip_cyclic_timer, tcpip_tcp_timer, BackInCheck, StampInv, InBoot
<1>5. CASE PcbGone \/ UNCHANGED vars
  BY <1>5 DEF PcbGone, vars, bootVars, StampInv, InBoot
<1> QED
  BY <1>1, <1>2, <1>3, <1>4, <1>5 DEF Next, Boot

\* The odd modulus takes one from every time but 0.
LEMMA DeltaIsElapsed ==
    ASSUME NEW c \in Counter, NEW b \in Counter, NEW e \in Nat,
           2 * e < Modulus, SignedAt(c, b) = e
    PROVE  ((c - b + (Modulus - 1)) % Modulus) % (Modulus - 1) = IF e = 0 THEN 0 ELSE e - 1
<1>1. /\ c \in Int /\ b \in Int /\ c - b < Modulus /\ Modulus \in Nat /\ Modulus > 2
  BY Bounds DEF Counter
<1>2. c - b = e \/ c - b = e - Modulus
  BY <1>1, SignedFacts DEF Near
<1> DEFINE x == c - b + (Modulus - 1)
<1>3. x \in Int /\ (x = e + Modulus - 1 \/ x = e - 1)
  BY <1>1, <1>2
<1> HIDE DEF x
<1>4. CASE e = 0
  <2>1. x % Modulus = Modulus - 1
    BY <1>1, <1>3, <1>4, WrapsOnce
  <2>2. (Modulus - 1) % (Modulus - 1) = 0
    BY <1>1
  <2> QED BY <1>4, <2>1, <2>2 DEF x
<1>5. CASE e # 0
  <2>1. x % Modulus = e - 1
    BY <1>1, <1>3, <1>5, WrapsOnce
  <2>2. e - 1 >= 0 /\ e - 1 < Modulus - 1 /\ e - 1 \in Nat
    BY <1>1, <1>5
  <2>3. (e - 1) % (Modulus - 1) = e - 1
    BY <1>1, <2>2
  <2> QED BY <1>5, <2>1, <2>3 DEF x
<1> QED
  BY <1>4, <1>5

\* lwip_periodic_handle departs from the interval its comments name
\* (lwip_app_comm.c:138, 158) by exactly the tick that follows it, whatever the
\* counter was at and although it reduces modulo 2^32 - 1: for any intervals,
\* tick and width of the counter a handler is called when more than its
\* interval of true time has passed, and only then.
THEOREM PeriodicHandlersTickLate == Spec => PeriodicTickLate
<1>1. Init => StampInv
  <2> SUFFICES ASSUME Init PROVE StampInv
    OBVIOUS
  <2>1. /\ lwip_sys_timer \in Nat /\ 2 * lwip_sys_timer < Modulus /\ Modulus \in Nat
    BY TimeoutsAssumption DEF TimeoutsAssumption, Init
  <2>2. lwip_sys_timer \in Counter /\ 0 \in Counter /\ lwip_sys_timer \in Int
    BY <2>1 DEF Counter
  <2>3. lwip_sys_timer - 0 = lwip_sys_timer /\ -Modulus <= 2 * lwip_sys_timer
    BY <2>1
  <2>4. SignedAt(lwip_sys_timer, 0) = lwip_sys_timer
    BY <2>1, <2>2, <2>3, SignedUnique DEF Near
  <2> QED BY <2>1, <2>4 DEF StampInv, Init
<1>2. IInv /\ StampInv /\ [Next]_vars => StampInv'
  BY StampStep
<1>3. IInv /\ StampInv
        => [PeriodicTest => (pc' = "due") = (elapsed[at] > Interval[Periodic[at]])]_vars
  <2> SUFFICES ASSUME IInv, StampInv, PeriodicTest
               PROVE  (pc' = "due") = (elapsed[at] > Interval[Periodic[at]])
    OBVIOUS
  <2> DEFINE e == elapsed[at]
             p == Interval[Periodic[at]]
  <2>1. /\ at \in Handlers /\ pc = "boot" /\ InBoot /\ lwip_sys_timer \in Counter
        /\ stamp[at] \in Counter /\ e \in Nat
    BY DEF PeriodicTest, InBoot, IInv, TypeOK
  <2>2. 2 * e < Modulus /\ SignedAt(lwip_sys_timer, stamp[at]) = e
    BY <2>1 DEF StampInv
  <2>3. numTimeDelta(at) = IF e = 0 THEN 0 ELSE e - 1
    <3> HIDE DEF e
    <3> QED BY <2>1, <2>2, DeltaIsElapsed DEF numTimeDelta
  <2>4. p \in Nat /\ p > 0
    <3>1. Periodic \in Seq(Timers)
      BY TimeoutsAssumption DEF TimeoutsAssumption
    <3>2. Periodic[at] \in Timers
      BY <2>1, <3>1 DEF Handlers
    <3> QED BY <3>2, Bounds
  <2>5. (pc' = "due") <=> numTimeDelta(at) >= p
    BY <2>1 DEF PeriodicTest
  <2> HIDE DEF e, p
  <2>6. numTimeDelta(at) >= p <=> e > p
    BY <2>1, <2>3, <2>4
  <2> QED BY <2>5, <2>6 DEF e, p
<1> QED
  BY <1>1, <1>2, <1>3, ListInvariant, PTL DEF Spec, PeriodicTickLate
=============================================================================
