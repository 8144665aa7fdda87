-------------------------- MODULE TcpClientProofs --------------------------
(***************************************************************************)
(* Proofs about the TCP client, for every pool, every width of the         *)
(* reference count and every number of segments.                           *)
(***************************************************************************)
EXTENDS TcpClient, TLAPS

\* Outside the poll callback there is no answer's pbuf, and what was written
\* came from one.
BuffInPoll ==
    /\ pc \in {"idle", "alloc"} => buff = 0
    /\ pc = "sent" => buff # 0

\* A poll that has read enTcpClientRecvOK still has a reception to answer, even
\* if an acknowledgement has changed the status since; so has the next poll.
Answering ==
    pc \in {"alloc", "write"} \/ (tcpStatus = "RecvOK" /\ pc \in {"idle", "free"})
        => answers + 1 <= received

AnswerInv ==
    /\ answers <= received
    /\ Answering

\* Between the two frees the answer's pbuf is on the free list without a
\* reference, or still the poll's own.
BetweenFrees ==
    ~taken /\ pc \in {"status", "free"} /\ buff # 0 =>
        IF buff \in Free THEN ref[buff] = 0 ELSE ref[buff] = 1

PoolInv == BetweenFrees /\ PoolSoundUnlessTaken

IInv == TypeOK /\ BuffInPoll /\ AnswerInv /\ PoolInv

-----------------------------------------------------------------------------

\* Elements and injectivity of a free list, as used in Free.
Elems(s) == {s[i] : i \in DOMAIN s}
Injective(s) == \A i, j \in DOMAIN s : s[i] = s[j] => i = j

\* memp_malloc takes the head of the free list.
LEMMA PopTyped ==
    ASSUME NEW S, NEW s \in Seq(S), s # <<>>
    PROVE  Tail(s) \in Seq(S) /\ Head(s) \in S
OBVIOUS

\* memp_free puts an element in front.
LEMMA PushTyped ==
    ASSUME NEW S, NEW s \in Seq(S), NEW b \in S
    PROVE  <<b>> \o s \in Seq(S)
OBVIOUS

\* What the free list holds after memp_malloc, when nothing is on it twice.
LEMMA PopElems ==
    ASSUME NEW S, NEW s \in Seq(S), s # <<>>, Injective(s)
    PROVE  /\ Head(s) \in Elems(s)
           /\ Elems(Tail(s)) = Elems(s) \ {Head(s)}
           /\ Injective(Tail(s))
<1>1. Len(s) \in Nat /\ Len(s) >= 1 /\ DOMAIN s = 1 .. Len(s) /\ Head(s) = s[1]
  OBVIOUS
<1>2. Len(Tail(s)) = Len(s) - 1 /\ DOMAIN Tail(s) = 1 .. (Len(s) - 1)
  OBVIOUS
<1>3. \A i \in 1 .. (Len(s) - 1) : Tail(s)[i] = s[i + 1]
  OBVIOUS
<1>4. Elems(Tail(s)) \subseteq Elems(s) \ {Head(s)}
  <2> SUFFICES ASSUME NEW i \in 1 .. (Len(s) - 1)
               PROVE  s[i + 1] \in Elems(s) /\ s[i + 1] # s[1]
    BY <1>1, <1>2, <1>3 DEF Elems
  <2>1. i + 1 \in 1 .. Len(s) /\ i + 1 # 1
    BY <1>1
  <2> QED
    BY <2>1, <1>1 DEF Elems, Injective
<1>5. Elems(s) \ {Head(s)} \subseteq Elems(Tail(s))
  <2> SUFFICES ASSUME NEW i \in 1 .. Len(s), s[i] # s[1]
               PROVE  s[i] \in Elems(Tail(s))
    BY <1>1 DEF Elems
  <2>1. i - 1 \in 1 .. (Len(s) - 1) /\ (i - 1) + 1 = i
    BY <1>1
  <2>2. Tail(s)[i - 1] = s[i]
    BY <2>1, <1>3
  <2> QED
    BY <2>1, <2>2, <1>2 DEF Elems
<1>6. Injective(Tail(s))
  <2> SUFFICES ASSUME NEW i \in 1 .. (Len(s) - 1), NEW j \in 1 .. (Len(s) - 1),
                      s[i + 1] = s[j + 1]
               PROVE  i = j
    BY <1>2, <1>3 DEF Injective
  <2>1. i + 1 \in 1 .. Len(s) /\ j + 1 \in 1 .. Len(s)
    BY <1>1
  <2> QED
    BY <2>1, <1>1 DEF Injective
<1> QED
  BY <1>1, <1>4, <1>5, <1>6 DEF Elems

\* What the free list holds after memp_free of something that is not on it.
LEMMA PushElems ==
    ASSUME NEW S, NEW s \in Seq(S), NEW b \in S, b \notin Elems(s), Injective(s)
    PROVE  /\ Elems(<<b>> \o s) = Elems(s) \cup {b}
           /\ Injective(<<b>> \o s)
<1> DEFINE t == <<b>> \o s
<1>1. Len(s) \in Nat /\ DOMAIN s = 1 .. Len(s)
  OBVIOUS
<1>2. DOMAIN t = 1 .. (Len(s) + 1) /\ t[1] = b
  OBVIOUS
<1>3. \A i \in 1 .. (Len(s) + 1) : i # 1 => i - 1 \in 1 .. Len(s) /\ t[i] = s[i - 1]
  OBVIOUS
<1>4. \A i \in 1 .. Len(s) : i + 1 \in 1 .. (Len(s) + 1) /\ t[i + 1] = s[i]
  OBVIOUS
<1> HIDE DEF t
<1>5. 1 \in 1 .. (Len(s) + 1)
  BY <1>1
<1>6. Elems(t) = Elems(s) \cup {b}
  <2>1. Elems(t) \subseteq Elems(s) \cup {b}
    BY <1>1, <1>2, <1>3 DEF Elems
  <2>2. Elems(s) \subseteq Elems(t)
    BY <1>1, <1>2, <1>4 DEF Elems
  <2>3. b \in Elems(t)
    BY <1>2, <1>5 DEF Elems
  <2> QED
    BY <2>1, <2>2, <2>3
<1>7. Injective(t)
  <2> SUFFICES ASSUME NEW i \in 1 .. (Len(s) + 1), NEW j \in 1 .. (Len(s) + 1),
                      t[i] = t[j]
               PROVE  i = j
    BY <1>2 DEF Injective
  <2>1. CASE i = 1 \/ j = 1
    BY <2>1, <1>1, <1>2, <1>3 DEF Elems
  <2>2. CASE i # 1 /\ j # 1
    <3>1. i - 1 = j - 1
      BY <2>2, <1>1, <1>3 DEF Injective
    <3> QED
      BY <3>1, <1>1
  <2> QED
    BY <2>1, <2>2
<1> QED
  BY <1>6, <1>7 DEF t

-----------------------------------------------------------------------------
\* Type correctness is inductive: no callback leaves the statuses, the pbufs or
\* the range of a reference count (lwip_app_tcp.c:49-193, pbuf.c:746-818).
LEMMA TypeStep == TypeOK /\ BuffInPoll /\ [Next]_vars => TypeOK'
<1> SUFFICES ASSUME TypeOK, BuffInPoll, [Next]_vars PROVE TypeOK'
  OBVIOUS
<1> USE TcpAssumption DEF TcpAssumption, TypeOK, Pbufs, history, connVars,
        pbufVars, Output
<1>a. pool # <<>> => Tail(pool) \in Seq(Pbufs) /\ Head(pool) \in Pbufs
  BY PopTyped
<1>b. \A b \in Pbufs : <<b>> \o pool \in Seq(Pbufs)
  BY PushTyped
<1>c. ASSUME NEW b \in Pbufs, PbufFree(b)
      PROVE  ref' \in [Pbufs -> 0 .. (RefMod - 1)] /\ pool' \in Seq(Pbufs)
  <2>1. (ref[b] + RefMod - 1) % RefMod \in 0 .. (RefMod - 1)
    OBVIOUS
  <2> QED
    BY <1>b, <1>c, <2>1 DEF PbufFree
<1>d. ASSUME PbufAlloc, pool # <<>>
      PROVE  ref' \in [Pbufs -> 0 .. (RefMod - 1)] /\ pool' \in Seq(Pbufs)
  <2>1. 1 \in 0 .. (RefMod - 1)
    OBVIOUS
  <2>2. ref' \in [Pbufs -> 0 .. (RefMod - 1)]
    BY <1>d, <1>a, <2>1 DEF PbufAlloc
  <2> QED
    BY <1>d, <1>a, <2>2 DEF PbufAlloc
<1>1. CASE lwip_app_tcp_client_init
  BY <1>1 DEF lwip_app_tcp_client_init
<1>2. CASE lwip_app_tcp_client_connect
  BY <1>2 DEF lwip_app_tcp_client_connect
<1>3. CASE lwip_app_tcp_client_recv
  <2>1. 0 \in 0 .. (RefMod - 1)
    OBVIOUS
  <2>2. ref' \in [Pbufs -> 0 .. (RefMod - 1)]
    BY <1>3, <1>a, <2>1 DEF lwip_app_tcp_client_recv
  <2>3. UNCHANGED <<conn, pc, buff, pool, held, answers, seen, missed, taken>>
        /\ tcpStatus' = "RecvOK"
    BY <1>3 DEF lwip_app_tcp_client_recv
  <2>4. received' \in Nat /\ unsent' \in Nat /\ flight' \in Nat
    BY <1>3 DEF lwip_app_tcp_client_recv
  <2> QED
    BY <2>2, <2>3, <2>4
<1>4. CASE RecvFin
  BY <1>4 DEF RecvFin
<1>5. CASE lwip_app_tcp_client_sent
  BY <1>5 DEF lwip_app_tcp_client_sent, Overwrite
<1>6. CASE lwip_app_tcp_client_error
  BY <1>6 DEF lwip_app_tcp_client_error
<1>7. CASE LwipKeeps
  <2>1. ref' \in [Pbufs -> 0 .. (RefMod - 1)] /\ pool' \in Seq(Pbufs)
    BY <1>7, <1>d DEF LwipKeeps
  <2>2. held' \subseteq Pbufs /\ taken' \in BOOLEAN
    BY <1>7, <1>a DEF LwipKeeps
  <2> QED
    BY <1>7, <2>1, <2>2 DEF LwipKeeps
<1>8. CASE LwipDrops
  <2> PICK b \in held : PbufFree(b) /\ held' = held \ {b}
    BY <1>8 DEF LwipDrops
  <2>1. ref' \in [Pbufs -> 0 .. (RefMod - 1)] /\ pool' \in Seq(Pbufs)
    BY <1>c
  <2> QED
    BY <1>8, <2>1 DEF LwipDrops
<1>9. CASE PollEnter
  BY <1>9 DEF PollEnter
<1>10. CASE PollAlloc
  <2>1. ref' \in [Pbufs -> 0 .. (RefMod - 1)] /\ pool' \in Seq(Pbufs)
    BY <1>10, <1>d DEF PollAlloc
  <2>2. buff' \in Pbufs \cup {0}
    BY <1>10, <1>a DEF PollAlloc
  <2> QED
    BY <1>10, <2>1, <2>2 DEF PollAlloc
<1>11. CASE PollWrite
  BY <1>11 DEF PollWrite
<1>12. CASE PollFreeSent
  <2>1. ref' \in [Pbufs -> 0 .. (RefMod - 1)] /\ pool' \in Seq(Pbufs)
    BY <1>12, <1>c DEF PollFreeSent, BuffInPoll
  <2> QED
    BY <1>12, <2>1 DEF PollFreeSent
<1>13. CASE PollStatus
  BY <1>13 DEF PollStatus, Overwrite
<1>14. CASE PollFree
  <2>1. ref' \in [Pbufs -> 0 .. (RefMod - 1)] /\ pool' \in Seq(Pbufs)
    BY <1>14, <1>c DEF PollFree
  <2> QED
    BY <1>14, <2>1 DEF PollFree
<1>15. CASE UNCHANGED vars
  BY <1>15 DEF vars
<1> QED
  BY <1>1, <1>2, <1>3, <1>4, <1>5, <1>6, <1>7, <1>8, <1>9, <1>10, <1>11, <1>12,
     <1>13, <1>14, <1>15 DEF Next, lwip_app_tcp_client_poll

\* The poll's local variable pBuff (lwip_app_tcp.c:146, 159, 202).
LEMMA BuffStep == BuffInPoll /\ [Next]_vars => BuffInPoll'
BY DEF BuffInPoll, vars, Next, lwip_app_tcp_client_poll,
   lwip_app_tcp_client_init, lwip_app_tcp_client_connect,
   lwip_app_tcp_client_recv, RecvFin, lwip_app_tcp_client_sent,
   lwip_app_tcp_client_error, LwipKeeps, LwipDrops, PollEnter, PollAlloc,
   PollWrite, PollFreeSent, PollStatus, PollFree

\* An answer uses a reception up, and the status asks for another one only
\* after another reception (lwip_app_tcp.c:110, 157-165, 191).
LEMMA AnswerStep == TypeOK /\ AnswerInv /\ [Next]_vars => AnswerInv'
BY DEF TypeOK, AnswerInv, Answering, vars, Next, lwip_app_tcp_client_poll,
   lwip_app_tcp_client_init, lwip_app_tcp_client_connect,
   lwip_app_tcp_client_recv, RecvFin, lwip_app_tcp_client_sent,
   lwip_app_tcp_client_error, LwipKeeps, LwipDrops, PollEnter, PollAlloc,
   PollWrite, PollFreeSent, PollStatus, PollFree, history

-----------------------------------------------------------------------------
\* pbuf_free of the last reference returns the pbuf (pbuf.c:746-818).
LEMMA FreeLast ==
    ASSUME TypeOK, NEW b \in Pbufs, ref[b] = 1, b \notin Free, Injective(pool),
           PbufFree(b)
    PROVE  /\ Free' = Free \cup {b}
           /\ Injective(pool')
           /\ ref' = [ref EXCEPT ![b] = 0]
<1>1. (1 + RefMod - 1) % RefMod = 0
  BY TcpAssumption DEF TcpAssumption
<1>2. pool' = <<b>> \o pool /\ ref' = [ref EXCEPT ![b] = 0]
  BY <1>1 DEF PbufFree
<1>3. pool \in Seq(Pbufs) /\ b \notin Elems(pool)
  BY DEF TypeOK, Free, Elems
<1>4. Elems(<<b>> \o pool) = Elems(pool) \cup {b} /\ Injective(<<b>> \o pool)
  BY <1>3, PushElems
<1> QED
  BY <1>2, <1>4 DEF Free, Elems

\* pbuf_free of a free pbuf only makes its count wrap (pbuf.c:753, compiled out).
LEMMA FreeAgain ==
    ASSUME TypeOK, NEW b \in Pbufs, ref[b] = 0, PbufFree(b)
    PROVE  pool' = pool /\ ref' = [ref EXCEPT ![b] = RefMod - 1]
<1>1. (0 + RefMod - 1) % RefMod = RefMod - 1 /\ RefMod - 1 # 0
  BY TcpAssumption DEF TcpAssumption
<1> QED
  BY <1>1 DEF PbufFree

\* pbuf_alloc takes a pbuf off the free list.
LEMMA AllocTakes ==
    ASSUME TypeOK, pool # <<>>, Injective(pool), PbufAlloc
    PROVE  /\ Head(pool) \in Free /\ Head(pool) \in Pbufs
           /\ Free' = Free \ {Head(pool)}
           /\ Injective(pool')
           /\ ref' = [ref EXCEPT ![Head(pool)] = 1]
<1>1. pool \in Seq(Pbufs) /\ Head(pool) \in Pbufs
  BY PopTyped DEF TypeOK
<1>2. /\ Head(pool) \in Elems(pool)
      /\ Elems(Tail(pool)) = Elems(pool) \ {Head(pool)}
      /\ Injective(Tail(pool))
  BY <1>1, PopElems
<1> QED
  BY <1>1, <1>2 DEF PbufAlloc, Free, Elems

\* As long as lwIP has not been given the answer's pbuf between its two frees,
\* no step of either context breaks the pool.
LEMMA PoolStep == TypeOK /\ BuffInPoll /\ PoolInv /\ [Next]_vars => PoolInv'
<1> SUFFICES ASSUME TypeOK, BuffInPoll, PoolInv, [Next]_vars, ~taken'
             PROVE  PoolInv'
  BY DEF PoolInv, BetweenFrees, PoolSoundUnlessTaken
<1>a. ~taken
  BY DEF Next, vars, lwip_app_tcp_client_poll, lwip_app_tcp_client_init,
     lwip_app_tcp_client_connect, lwip_app_tcp_client_recv, RecvFin,
     lwip_app_tcp_client_sent, lwip_app_tcp_client_error, LwipKeeps, LwipDrops,
     PollEnter, PollAlloc, PollWrite, PollFreeSent, PollStatus, PollFree, history
<1>b. /\ Free \cup held \cup ({buff} \ {0}) = Pbufs
      /\ Free \cap held = {} /\ buff \notin held
      /\ \A b \in held : ref[b] = 1
      /\ pc \in {"write", "sent"} /\ buff # 0 => ref[buff] = 1 /\ buff \notin Free
  BY <1>a DEF PoolInv, PoolSoundUnlessTaken
<1>c. Injective(pool)
  BY <1>a DEF PoolInv, PoolSoundUnlessTaken, Injective
<1>d. pc \in {"status", "free"} /\ buff # 0 =>
          IF buff \in Free THEN ref[buff] = 0 ELSE ref[buff] = 1
  BY <1>a DEF PoolInv, BetweenFrees
<1>e. /\ ref \in [Pbufs -> 0 .. (RefMod - 1)]
      /\ buff \in Pbufs \cup {0} /\ held \subseteq Pbufs /\ 0 \notin Pbufs
  BY TcpAssumption DEF TcpAssumption, TypeOK, Pbufs
\* What has to be shown, with Free as a set.
<1>f. SUFFICES
          /\ Free' \cup held' \cup ({buff'} \ {0}) = Pbufs
          /\ Free' \cap held' = {} /\ buff' \notin held'
          /\ Injective(pool')
          /\ \A b \in held' : ref'[b] = 1
          /\ pc' \in {"write", "sent"} /\ buff' # 0 =>
                ref'[buff'] = 1 /\ buff' \notin Free'
          /\ pc' \in {"status", "free"} /\ buff' # 0 =>
                IF buff' \in Free' THEN ref'[buff'] = 0 ELSE ref'[buff'] = 1
  BY DEF PoolInv, BetweenFrees, PoolSoundUnlessTaken, Injective, Pbufs
<1>u. UNCHANGED pool => Free' = Free
  BY DEF Free
<1>1. CASE UNCHANGED <<ref, pool, held, buff, pc>>
  BY <1>1, <1>b, <1>c, <1>d, <1>u
<1>2. CASE lwip_app_tcp_client_recv
  <2>1. pool # <<>> /\ Head(pool) \in Free /\ Head(pool) \in Pbufs
    BY <1>2, <1>c, PopElems, PopTyped
       DEF lwip_app_tcp_client_recv, TypeOK, Free, Elems
  <2>2. /\ ref' = [ref EXCEPT ![Head(pool)] = 0]
        /\ UNCHANGED <<pool, held, buff, pc>>
    BY <1>2 DEF lwip_app_tcp_client_recv
  <2> QED
    BY <2>1, <2>2, <1>b, <1>c, <1>d, <1>e, <1>u
<1>3. CASE LwipKeeps
  <2>1. /\ Head(pool) \in Free /\ Head(pool) \in Pbufs
        /\ Free' = Free \ {Head(pool)} /\ Injective(pool')
        /\ ref' = [ref EXCEPT ![Head(pool)] = 1]
    BY <1>3, <1>c, AllocTakes DEF LwipKeeps
  <2>2. held' = held \cup {Head(pool)} /\ UNCHANGED <<buff, pc>>
    BY <1>3 DEF LwipKeeps
  <2>3. buff # Head(pool)
    BY <2>1, <1>3, <1>b, <1>e DEF LwipKeeps, BuffInPoll, TypeOK
  <2> QED
    BY <2>1, <2>2, <2>3, <1>b, <1>d, <1>e
<1>4. CASE LwipDrops
  <2> PICK b \in held : PbufFree(b) /\ held' = held \ {b}
    BY <1>4 DEF LwipDrops
  <2>1. b \in Pbufs /\ ref[b] = 1 /\ b \notin Free /\ b # buff
    BY <1>b, <1>e
  <2>2. /\ Free' = Free \cup {b} /\ Injective(pool')
        /\ ref' = [ref EXCEPT ![b] = 0]
    BY <2>1, <1>c, FreeLast
  <2>3. UNCHANGED <<buff, pc>>
    BY <1>4 DEF LwipDrops
  <2> QED
    BY <2>1, <2>2, <2>3, <1>b, <1>d, <1>e
<1>5. CASE PollEnter
  BY <1>5, <1>b, <1>c, <1>u DEF PollEnter, pbufVars
<1>6. CASE PollAlloc
  <2>1. buff = 0 /\ pc' = "write" /\ UNCHANGED held
    BY <1>6 DEF PollAlloc, BuffInPoll
  <2>2. CASE pool = <<>>
    BY <2>1, <2>2, <1>6, <1>b, <1>c, <1>u DEF PollAlloc
  <2>3. CASE pool # <<>>
    <3>1. buff' = Head(pool) /\ PbufAlloc
      BY <1>6, <2>3 DEF PollAlloc
    <3>2. /\ Head(pool) \in Free /\ Head(pool) \in Pbufs
          /\ Free' = Free \ {Head(pool)} /\ Injective(pool')
          /\ ref' = [ref EXCEPT ![Head(pool)] = 1]
      BY <3>1, <2>3, <1>c, AllocTakes
    <3> QED
      BY <3>1, <3>2, <2>1, <1>b, <1>e
  <2> QED
    BY <2>2, <2>3
<1>7. CASE PollWrite
  BY <1>7, <1>b, <1>c, <1>u DEF PollWrite, pbufVars
<1>8. CASE PollFreeSent
  <2>1. buff \in Pbufs /\ ref[buff] = 1 /\ buff \notin Free
    BY <1>8, <1>b, <1>e DEF PollFreeSent, BuffInPoll
  <2>2. PbufFree(buff) /\ pc' = "status" /\ UNCHANGED <<buff, held>>
    BY <1>8 DEF PollFreeSent
  <2>3. /\ Free' = Free \cup {buff} /\ Injective(pool')
        /\ ref' = [ref EXCEPT ![buff] = 0]
    BY <2>1, <2>2, <1>c, FreeLast
  <2> QED
    BY <2>1, <2>2, <2>3, <1>b, <1>e
<1>9. CASE PollStatus
  BY <1>9, <1>b, <1>c, <1>d, <1>u DEF PollStatus, pbufVars
<1>10. CASE PollFree
  <2>1. buff' = 0 /\ pc' = "idle" /\ UNCHANGED held
    BY <1>10 DEF PollFree
  <2>2. CASE buff = 0
    BY <2>1, <2>2, <1>10, <1>b, <1>c, <1>e, <1>u DEF PollFree
  <2>3. CASE buff # 0 /\ buff \in Free
    <3>1. buff \in Pbufs /\ ref[buff] = 0 /\ PbufFree(buff)
      BY <2>3, <1>10, <1>d, <1>e DEF PollFree
    <3>2. pool' = pool /\ ref' = [ref EXCEPT ![buff] = RefMod - 1]
      BY <3>1, FreeAgain
    <3> QED
      BY <3>2, <2>1, <2>3, <1>b, <1>c, <1>e, <1>u
  <2>4. CASE buff # 0 /\ buff \notin Free
    <3>1. buff \in Pbufs /\ ref[buff] = 1 /\ PbufFree(buff)
      BY <2>4, <1>10, <1>d, <1>e DEF PollFree
    <3>2. /\ Free' = Free \cup {buff} /\ Injective(pool')
          /\ ref' = [ref EXCEPT ![buff] = 0]
      BY <3>1, <2>4, <1>c, FreeLast
    <3> QED
      BY <3>2, <2>1, <2>4, <1>b, <1>e
  <2> QED
    BY <2>2, <2>3, <2>4
<1>11. \/ UNCHANGED <<ref, pool, held, buff, pc>> \/ lwip_app_tcp_client_recv
       \/ LwipKeeps \/ LwipDrops \/ lwip_app_tcp_client_poll
  BY DEF Next, vars, lwip_app_tcp_client_init, lwip_app_tcp_client_connect,
     RecvFin, lwip_app_tcp_client_sent, lwip_app_tcp_client_error, pbufVars
<1> QED
  BY <1>1, <1>2, <1>3, <1>4, <1>5, <1>6, <1>7, <1>8, <1>9, <1>10, <1>11
     DEF lwip_app_tcp_client_poll

-----------------------------------------------------------------------------

\* Every strengthened invariant holds in every state of every instance.
LEMMA ClientInvariant == Spec => []IInv
<1>1. Init => IInv
  <2> SUFFICES ASSUME Init PROVE IInv
    OBVIOUS
  <2>1. pool = [i \in Pbufs |-> i] /\ ref = [b \in Pbufs |-> 0] /\ held = {}
    BY DEF Init
  <2>2. pool \in Seq(Pbufs)
    BY <2>1, TcpAssumption DEF TcpAssumption, Pbufs
  <2>3. Free = Pbufs /\ Injective(pool)
    BY <2>1 DEF Free, Injective
  <2>4. TypeOK
    <3>1. ref \in [Pbufs -> 0 .. (RefMod - 1)]
      BY <2>1, TcpAssumption DEF TcpAssumption
    <3> QED
      BY <2>2, <3>1 DEF Init, TypeOK
  <2>5. PoolInv
    BY <2>3, TcpAssumption
       DEF TcpAssumption, Init, PoolInv, BetweenFrees, PoolSoundUnlessTaken,
           Injective, Pbufs
  <2> QED
    BY <2>4, <2>5 DEF Init, IInv, BuffInPoll, AnswerInv, Answering
<1>2. IInv /\ [Next]_vars => IInv'
  BY TypeStep, BuffStep, AnswerStep, PoolStep DEF IInv
<1> QED
  BY <1>1, <1>2, PTL DEF Spec

\* The TCP client never answers a segment twice, however the poll callback in
\* the main loop interleaves with recv and sent in the interrupt handler.
THEOREM AnswersHaveReceptions == Spec => []AnsweredAtMostOnce
<1>1. IInv => AnsweredAtMostOnce
  BY DEF IInv, TypeOK, AnswerInv, Answering, AnsweredAtMostOnce
<1> QED
  BY <1>1, ClientInvariant, PTL

\* The connection, the status, the pbufs and their counts keep their types,
\* whatever order the callbacks of lwip_app_tcp.c and lwIP run in.
THEOREM ClientTypeCorrect == Spec => []TypeOK
<1>1. IInv => TypeOK
  BY DEF IInv
<1> QED
  BY <1>1, ClientInvariant, PTL

\* The double free of lwip_app_tcp.c:167 is harmless until lwIP gets the pbuf
\* between the two frees: up to then every pbuf has one owner and no count is
\* wrong, for every size of the pool.
THEOREM PoolSoundUntilTaken == Spec => []PoolSoundUnlessTaken
<1>1. IInv => PoolSoundUnlessTaken
  BY DEF IInv, PoolInv
<1> QED
  BY <1>1, ClientInvariant, PTL
=============================================================================
