----------------------------- MODULE TcpClient -----------------------------
(***************************************************************************)
(* The TCP client of lwip_app_tcp.c: it answers what it receives with a    *)
(* fixed text.  The poll callback, which writes the answer, runs in the    *)
(* main loop (tcp_slowtmr); the other callbacks run inside ETH_IRQHandler, *)
(* which can preempt the poll callback between any two of its steps.       *)
(*                                                                         *)
(* The answer travels through a pbuf of lwIP's pool, whose reference       *)
(* counts (pbuf.c) and free list (memp.c) are modelled; lwIP itself keeps  *)
(* pbufs of received frames there (segments out of order, fragments).      *)
(* A call of one of lwIP's functions is one step.                          *)
(*                                                                         *)
(* lwIP calls recv with ERR_OK only, and nothing assigns enTcpClientClose  *)
(* or enTcpClientSendErr: the branches for these are never taken.          *)
(***************************************************************************)
EXTENDS Integers, Sequences

CONSTANTS PoolSize,   \* PBUF_POOL_SIZE
          RefMod,     \* p->ref is an unsigned byte (256)
          MaxRecv     \* bound: segments with data the peer sends

ASSUME TcpAssumption ==
    /\ PoolSize \in Nat /\ PoolSize > 0
    /\ RefMod \in Nat /\ RefMod > 1
    /\ MaxRecv \in Nat

VARIABLES conn,      \* "none", "synsent", "up", "closewait" or "closed"
          tcpStatus, \* tcpStatus
          pc,        \* where the poll callback is, "idle" outside
          buff,      \* its local variable pBuff, 0 for NULL
          ref,       \* ref[b]: the reference count of pbuf b
          pool,      \* the free list of MEMP_PBUF_POOL, a stack
          held,      \* pbufs lwIP keeps
          unsent,    \* answers written, not yet on the wire
          flight,    \* answers on the wire, not yet acknowledged
          received,  \* history: segments received
          answers,   \* history: answers written
          seen,      \* history: receptions the poll callback has acted on
          missed,    \* history: receptions overwritten in tcpStatus before that
          taken      \* history: pBuff was given to lwIP between its two frees

connVars == <<conn, unsent, flight>>
pbufVars == <<ref, pool, held>>
history  == <<received, answers, seen, missed, taken>>
vars == <<conn, tcpStatus, pc, buff, ref, pool, held, unsent, flight,
          received, answers, seen, missed, taken>>

Pbufs == 1 .. PoolSize

Init ==
    /\ conn = "none" /\ tcpStatus = "None"
    /\ pc = "idle" /\ buff = 0
    /\ ref = [b \in Pbufs |-> 0] /\ pool = [i \in Pbufs |-> i] /\ held = {}
    /\ unsent = 0 /\ flight = 0
    /\ received = 0 /\ answers = 0 /\ seen = 0 /\ missed = 0 /\ taken = FALSE

-----------------------------------------------------------------------------
(* pbuf.c and memp.c, for a pbuf of the pool. *)

\* Mutant: a recycled pbuf keeps its old count.
PbufAllocKeepsRef ==
    /\ pool' = Tail(pool)
    /\ ref' = [ref EXCEPT ![Head(pool)] = (@ + 1) % RefMod]

\* pbuf_alloc: the head of the free list, with one reference.
PbufAlloc ==
    /\ pool' = Tail(pool)
    /\ ref' = [ref EXCEPT ![Head(pool)] = 1]

\* Mutant: the count is signed.
PbufFreeSigned(b) ==
    LET n == ref[b] - 1
    IN  /\ ref' = [ref EXCEPT ![b] = n]
        /\ pool' = IF n = 0 THEN <<b>> \o pool ELSE pool

\* pbuf_free: one reference less, modulo the width of ref (assertions are
\* compiled out); back to the free list when none is left.
PbufFree(b) ==
    LET n == (ref[b] + RefMod - 1) % RefMod
    IN  /\ ref' = [ref EXCEPT ![b] = n]
        /\ pool' = IF n = 0 THEN <<b>> \o pool ELSE pool

-----------------------------------------------------------------------------
(* The connection, as lwIP reports it. *)

\* lwip_app_tcp_client_init; main() ignores its result.
lwip_app_tcp_client_init ==
    /\ conn = "none"
    /\ conn' \in {"synsent", "closed"}
    /\ UNCHANGED <<tcpStatus, pc, buff, pbufVars, unsent, flight, history>>

lwip_app_tcp_client_connect ==
    /\ conn = "synsent"
    /\ conn' = "up"
    /\ tcpStatus' = "Conn"
    /\ UNCHANGED <<pc, buff, pbufVars, unsent, flight, history>>

\* tcp_output, at the end of tcp_input and after the poll, with f answers in
\* flight so far: it sends what it has or holds it back (window, Nagle).
Output(f) ==
    \/ flight' = f + unsent /\ unsent' = 0
    \/ flight' = f /\ UNCHANGED unsent

\* Data.  The frame's pbuf comes from the pool and is freed by the callback;
\* with an empty pool low_level_input drops the frame.
lwip_app_tcp_client_recv ==
    /\ conn = "up" /\ received < MaxRecv /\ pool # <<>>
    /\ received' = received + 1
    /\ tcpStatus' = "RecvOK"
    /\ ref' = [ref EXCEPT ![Head(pool)] = 0]
    /\ Output(flight)
    /\ UNCHANGED <<conn, pc, buff, pool, held, answers, seen, missed, taken>>

\* The peer closes: recv is called with p = NULL.  It does nothing and returns
\* an uninitialised value, which matters to nobody: if it is ERR_ABRT,
\* tcp_input skips tcp_output.
RecvFin ==
    /\ conn = "up"
    /\ conn' = "closewait"
    /\ Output(flight)
    /\ UNCHANGED <<tcpStatus, pc, buff, pbufVars, history>>

\* tcpStatus is assigned while it tells of receptions not acted on.
Overwrite == missed' = IF received > seen THEN received ELSE missed

\* The peer acknowledges some of what is on the wire.
lwip_app_tcp_client_sent ==
    /\ conn \in {"up", "closewait"}
    /\ \E n \in 1 .. flight : Output(flight - n)
    /\ tcpStatus' = "SendOK" /\ Overwrite
    /\ UNCHANGED <<conn, pc, buff, pbufVars, received, answers, seen, taken>>

\* A reset, or too many retransmissions: lwIP frees the pcb.  The error
\* callback is empty.
lwip_app_tcp_client_error ==
    /\ conn \in {"synsent", "up", "closewait"}
    /\ conn' = "closed"
    /\ unsent' = 0 /\ flight' = 0
    /\ UNCHANGED <<tcpStatus, pc, buff, pbufVars, history>>

\* lwIP keeps the pbuf of a frame, and lets go of it later.
LwipKeeps ==
    /\ pool # <<>>
    /\ PbufAlloc
    /\ held' = held \cup {Head(pool)}
    /\ taken' = (taken \/ (pc \in {"status", "free"} /\ buff = Head(pool)))
    /\ UNCHANGED <<conn, tcpStatus, pc, buff, unsent, flight, received, answers,
                   seen, missed>>

LwipDrops ==
    /\ \E b \in held : PbufFree(b) /\ held' = held \ {b}
    /\ UNCHANGED <<conn, tcpStatus, pc, buff, unsent, flight, history>>

-----------------------------------------------------------------------------
(* lwip_app_tcp_client_poll. *)

PollEnter ==
    /\ pc = "idle" /\ conn \in {"up", "closewait"} /\ tcpStatus = "RecvOK"
    /\ pc' = "alloc" /\ seen' = received
    /\ UNCHANGED <<tcpStatus, buff, connVars, pbufVars, received, answers, missed,
                   taken>>

\* pbuf_alloc and pbuf_take, which does nothing to a NULL pbuf.
PollAlloc ==
    /\ pc = "alloc"
    /\ IF pool = <<>>
       THEN buff' = 0 /\ UNCHANGED <<ref, pool>>
       ELSE buff' = Head(pool) /\ PbufAlloc
    /\ pc' = "write"
    /\ UNCHANGED <<tcpStatus, connVars, held, history>>

\* lwip_app_tcp_client_send_data: tcp_write, which may be out of memory (or
\* the send buffer too small), and which does nothing on a closed pcb; ...
PollWrite ==
    /\ pc = "write"
    /\ \/ /\ buff # 0 /\ conn # "closed"
          /\ unsent' = unsent + 1
          /\ answers' = answers + 1
          /\ pc' = "sent"
       \/ pc' = "status" /\ UNCHANGED <<unsent, answers>>
    /\ UNCHANGED <<conn, flight, tcpStatus, buff, pbufVars, received, seen, missed,
                   taken>>

\* ... after a successful write the pbuf is freed here, ...
PollFreeSent ==
    /\ pc = "sent"
    /\ PbufFree(buff)
    /\ pc' = "status"
    /\ UNCHANGED <<tcpStatus, buff, connVars, held, history>>

\* Mutant: the status is not changed.
PollStatusForgotten ==
    /\ pc = "status"
    /\ pc' = "free"
    /\ UNCHANGED <<tcpStatus, buff, connVars, pbufVars, history>>

\* ... then the status says that an answer is under way, ...
PollStatus ==
    /\ pc = "status"
    /\ tcpStatus' = "AckWait" /\ Overwrite
    /\ pc' = "free"
    /\ UNCHANGED <<buff, connVars, pbufVars, received, answers, seen, taken>>

\* Mutant: after a failed allocation the callback does not come back.
PollFreeStuck ==
    /\ pc = "free" /\ buff # 0
    /\ PbufFree(buff)
    /\ buff' = 0
    /\ IF conn = "closed" THEN UNCHANGED <<unsent, flight>> ELSE Output(flight)
    /\ pc' = "idle"
    /\ UNCHANGED <<tcpStatus, conn, held, history>>

\* ... and the pbuf is freed, once more if the write succeeded.  tcp_slowtmr
\* then calls tcp_output.
PollFree ==
    /\ pc = "free"
    /\ IF buff = 0 THEN UNCHANGED <<ref, pool>> ELSE PbufFree(buff)
    /\ buff' = 0
    /\ IF conn = "closed" THEN UNCHANGED <<unsent, flight>> ELSE Output(flight)
    /\ pc' = "idle"
    /\ UNCHANGED <<tcpStatus, conn, held, history>>

lwip_app_tcp_client_poll ==
    \/ PollEnter \/ PollAlloc \/ PollWrite \/ PollFreeSent \/ PollStatus
    \/ PollFree

-----------------------------------------------------------------------------

Next ==
    \/ lwip_app_tcp_client_init \/ lwip_app_tcp_client_connect
    \/ lwip_app_tcp_client_recv \/ RecvFin
    \/ lwip_app_tcp_client_sent \/ lwip_app_tcp_client_error
    \/ LwipKeeps \/ LwipDrops
    \/ lwip_app_tcp_client_poll

Spec == Init /\ [][Next]_vars

\* The main loop calls tcp_slowtmr for ever.  Nothing is assumed of the peer.
FairSpec == Spec /\ WF_vars(lwip_app_tcp_client_poll)

-----------------------------------------------------------------------------
(* Properties. *)

\* Type correctness; the statuses that are never assigned are left out.
TypeOK ==
    /\ conn \in {"none", "synsent", "up", "closewait", "closed"}
    /\ tcpStatus \in {"None", "Conn", "RecvOK", "SendOK", "AckWait"}
    /\ pc \in {"idle", "alloc", "write", "sent", "status", "free"}
    /\ buff \in Pbufs \cup {0}
    /\ ref \in [Pbufs -> 0 .. (RefMod - 1)]
    /\ pool \in Seq(Pbufs) /\ held \subseteq Pbufs
    /\ unsent \in Nat /\ flight \in Nat
    /\ received \in Nat /\ answers \in Nat /\ seen \in Nat /\ missed \in Nat
    /\ taken \in BOOLEAN

Free == {pool[i] : i \in DOMAIN pool}

\* The second free of the answer's pbuf (lwip_app_tcp.c:167) goes unnoticed as
\* long as lwIP did not get the pbuf in between: no pbuf is lost, none is free
\* and in use, none has two owners, and every count is right.
PoolSoundUnlessTaken ==
    ~taken =>
        /\ Free \cup held \cup ({buff} \ {0}) = Pbufs
        /\ Free \cap held = {} /\ buff \notin held
        /\ \A i, j \in DOMAIN pool : pool[i] = pool[j] => i = j
        /\ \A b \in held : ref[b] = 1
        /\ pc \in {"write", "sent"} /\ buff # 0 =>
              ref[buff] = 1 /\ buff \notin Free

\* A segment is answered at most once, however receptions, acknowledgements
\* and the poll interleave: every answer, and a poll that still has to write
\* one, has a reception of its own (lwip_app_tcp.c:110, 157-165, 191).
AnsweredAtMostOnce ==
    answers + (IF tcpStatus = "RecvOK" /\ pc \in {"idle", "alloc", "write"}
               THEN 1 ELSE 0) <= received

\* A reception is not forgotten while the connection lasts: the poll callback
\* acts on it, also when an earlier answer got no pbuf or could not be written,
\* unless tcpStatus is overwritten first, by an acknowledgement
\* (lwip_app_tcp.c:191) or by the AckWait of a poll that began before it (165).
ReceptionAttended ==
    \A n \in 1 .. MaxRecv :
        (received >= n) ~> (seen >= n \/ missed >= n \/ conn = "closed")

\* The assertion of pbuf_free, "pbuf_free: p->ref > 0" (pbuf.c:753), at the two
\* places where the client frees the answer's pbuf.
PbufFreeAssertion == pc \in {"sent", "free"} /\ buff # 0 => ref[buff] > 0
=============================================================================
