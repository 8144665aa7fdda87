------------------------------- MODULE EthTx -------------------------------
(***************************************************************************)
(* Frame transmission: low_level_output (ethernetif.c) and ETH_Tx_Packet   *)
(* (lan8720.c) put frames into the chain of Tx descriptors from which the  *)
(* Ethernet DMA sends.                                                     *)
(*                                                                         *)
(* lwIP calls low_level_output from two contexts: from its timers, in the  *)
(* main loop, and from its input functions, which ETH_IRQHandler runs.     *)
(* The handler can preempt the main loop between any two of these steps    *)
(* and then runs to its end.  A frame it sends while the main loop is      *)
(* inside low_level_output is the race that overlapped records.            *)
(***************************************************************************)
EXTENDS Integers, FiniteSets

CONSTANTS TxBufNb,    \* ETH_TXBUFNB: descriptors in the chain
          Contexts,   \* the contexts that send: "main", "isr"
          MaxFrames   \* bound: frames lwIP hands over

ASSUME TxAssumption ==
    /\ TxBufNb \in Nat /\ TxBufNb >= 2
    /\ Contexts \subseteq {"main", "isr"}
    /\ MaxFrames \in Nat

VARIABLES own,      \* own[i]: who owns descriptor i, "dma" (OWN set) or "cpu"
          buf,      \* buf[i]: the frame in the buffer of i, 0 for a mixture
          len,      \* len[i]: the frame whose length ControlBufferSize holds
          dma,      \* the descriptor the DMA uses next
          dmaState, \* "run", "fetched" a descriptor of the CPU, "suspended"
          tbus,     \* DMASR.TBUS
          set,      \* DMATxDescToSet
          handed,   \* number of frames handed to low_level_output
          pc,       \* pc[c]: where context c is
          frame,    \* frame[c]: the frame context c is sending
          buffer,   \* buffer[c]: the local variable of low_level_output
          desc,     \* desc[c]: DMATxDescToSet as ETH_Tx_Packet first read it
          accepted, \* history: frames for which ERR_OK was returned
          sent,     \* history: frames the DMA sent whole
          hitFull,  \* history: a frame was copied into a buffer of the DMA
          overlapped, \* history: a frame was sent inside the sending of another
          early     \* history: TBUS was tested while the DMA was suspending
                    \* itself, and no later test has found it set

chainVars == <<own, buf, len>>
dmaVars   == <<dma, dmaState, tbus, early>>
cpuVars   == <<set, handed, pc, frame, buffer, desc>>
history   == <<accepted, sent, hitFull, overlapped>>
vars == <<own, buf, len, dma, dmaState, tbus, set, handed, pc, frame, buffer,
          desc, accepted, sent, hitFull, overlapped, early>>

Desc == 0 .. (TxBufNb - 1)

\* Buffer2NextDescAddr: the last descriptor points back to the first.
NextDesc(i) == IF i = TxBufNb - 1 THEN 0 ELSE i + 1

\* ETH_DMATxDescChainInit, then ETH_Start.
Init ==
    /\ own = [i \in Desc |-> "cpu"]
    /\ buf = [i \in Desc |-> 0] /\ len = [i \in Desc |-> 0]
    /\ dma = 0 /\ dmaState = "run" /\ tbus = FALSE
    /\ set = 0 /\ handed = 0
    /\ pc = [c \in Contexts |-> "idle"]
    /\ frame = [c \in Contexts |-> 0]
    /\ buffer = [c \in Contexts |-> 0]
    /\ desc = [c \in Contexts |-> 0]
    /\ accepted = {} /\ sent = {} /\ hitFull = FALSE
    /\ overlapped = FALSE /\ early = FALSE

-----------------------------------------------------------------------------
(* low_level_output. *)

\* The main loop does not run while the handler does.
Runs(c) == c = "main" /\ "isr" \in Contexts => pc["isr"] = "idle"

At(c, l) == Runs(c) /\ pc[c] = l
Goto(c, l) == pc' = [pc EXCEPT ![c] = l]

\* lwIP hands over a frame; ETH_GetCurrentTxBuffer.
Output(c) ==
    /\ At(c, "idle") /\ handed < MaxFrames
    /\ handed' = handed + 1
    /\ frame' = [frame EXCEPT ![c] = handed + 1]
    /\ buffer' = [buffer EXCEPT ![c] = set]
    /\ overlapped' = (overlapped \/ \E d \in Contexts : pc[d] # "idle")
    /\ Goto(c, "copy")
    /\ UNCHANGED <<chainVars, dmaVars, set, desc, accepted, sent, hitFull>>

\* The copy into the buffer, with a moment at which it is half done.  What
\* another context wrote there in the meantime stays in the first half.
CopyBegin(c) ==
    /\ At(c, "copy")
    /\ buf' = [buf EXCEPT ![buffer[c]] = 0]
    /\ hitFull' = (hitFull \/ own[buffer[c]] = "dma")
    /\ Goto(c, "copying")
    /\ UNCHANGED <<own, len, dmaVars, set, handed, frame, buffer, desc,
                   accepted, sent, overlapped>>

CopyEnd(c) ==
    /\ At(c, "copying")
    /\ buf' = [buf EXCEPT ![buffer[c]] = IF @ = 0 THEN frame[c] ELSE 0]
    /\ Goto(c, "check")
    /\ UNCHANGED <<own, len, dmaVars, set, handed, frame, buffer, desc, history>>

-----------------------------------------------------------------------------
(* ETH_Tx_Packet.  DMATxDescToSet is not volatile: after the first read the *)
(* compiler may keep it in a register or read it again.                    *)

Current(c) == {desc[c], set}

\* Mutant: OWN is not looked at.
CheckOwnSkipped(c) ==
    /\ At(c, "check")
    /\ Goto(c, "setLen") /\ desc' = [desc EXCEPT ![c] = set]
    /\ UNCHANGED <<chainVars, dmaVars, set, handed, frame, buffer, history>>

\* A descriptor that still belongs to the DMA: ETH_ERROR, hence ERR_MEM.
CheckOwn(c) ==
    /\ At(c, "check")
    /\ IF own[set] = "dma"
       THEN Goto(c, "idle") /\ UNCHANGED desc
       ELSE Goto(c, "setLen") /\ desc' = [desc EXCEPT ![c] = set]
    /\ UNCHANGED <<chainVars, dmaVars, set, handed, frame, buffer, history>>

\* Mutant: the descriptor keeps the length of an earlier frame.
SetLenForgotten(c) ==
    /\ At(c, "setLen")
    /\ Goto(c, "setOwn")
    /\ UNCHANGED <<chainVars, dmaVars, set, handed, frame, buffer, desc, history>>

SetLen(c) ==
    /\ At(c, "setLen")
    /\ \E d \in Current(c) : len' = [len EXCEPT ![d] = frame[c]]
    /\ Goto(c, "setOwn")
    /\ UNCHANGED <<own, buf, dmaVars, set, handed, frame, buffer, desc, history>>

SetOwn(c) ==
    /\ At(c, "setOwn")
    /\ \E d \in Current(c) : own' = [own EXCEPT ![d] = "dma"]
    /\ Goto(c, "resume")
    /\ UNCHANGED <<buf, len, dmaVars, set, handed, frame, buffer, desc, history>>

\* Mutant: DMATPDR is not written.
ResumeTxForgotten(c) ==
    /\ At(c, "resume")
    /\ tbus' = FALSE
    /\ Goto(c, "advance")
    /\ UNCHANGED <<chainVars, dma, dmaState, early, set, handed, frame, buffer,
                   desc, history>>

\* TBUS set: clear it and write DMATPDR, which wakes the DMA.  Nothing is
\* written while the DMA is still on its way to the suspension.
ResumeTx(c) ==
    /\ At(c, "resume")
    /\ IF tbus
       THEN tbus' = FALSE /\ dmaState' = "run" /\ early' = FALSE
       ELSE /\ early' = (early \/ dmaState = "fetched")
            /\ UNCHANGED <<tbus, dmaState>>
    /\ Goto(c, "advance")
    /\ UNCHANGED <<chainVars, dma, set, handed, frame, buffer, desc, history>>

\* Move on to the next descriptor and return ETH_SUCCESS, hence ERR_OK.
Advance(c) ==
    /\ At(c, "advance")
    /\ \E d \in Current(c) : set' = NextDesc(d)
    /\ accepted' = accepted \cup {frame[c]}
    /\ Goto(c, "idle")
    /\ UNCHANGED <<chainVars, dmaVars, handed, frame, buffer, desc, sent,
                   hitFull, overlapped>>

low_level_output(c) ==
    \/ CopyBegin(c) \/ CopyEnd(c) \/ CheckOwn(c) \/ SetLen(c) \/ SetOwn(c)
    \/ ResumeTx(c) \/ Advance(c)

-----------------------------------------------------------------------------
(* The DMA. *)

\* It sends what the buffer holds, as many bytes as the descriptor says, and
\* returns the descriptor.
DmaSend ==
    /\ dmaState = "run" /\ own[dma] = "dma"
    /\ sent' = IF buf[dma] = len[dma] THEN sent \cup {buf[dma]} ELSE sent
    /\ own' = [own EXCEPT ![dma] = "cpu"]
    /\ dma' = NextDesc(dma)
    /\ UNCHANGED <<buf, len, dmaState, tbus, early, cpuVars, accepted, hitFull,
                   overlapped>>

\* The next descriptor belongs to the CPU when the DMA reads it.
DmaFetchBusy ==
    /\ dmaState = "run" /\ own[dma] = "cpu"
    /\ dmaState' = "fetched"
    /\ UNCHANGED <<chainVars, dma, tbus, early, cpuVars, history>>

\* It suspends itself with TBUS, whoever owns the descriptor by now.
DmaSuspend ==
    /\ dmaState = "fetched"
    /\ dmaState' = "suspended" /\ tbus' = TRUE
    /\ UNCHANGED <<chainVars, dma, early, cpuVars, history>>

Next ==
    \/ \E c \in Contexts : Output(c) \/ low_level_output(c)
    \/ DmaSend
    \/ DmaFetchBusy
    \/ DmaSuspend

Spec == Init /\ [][Next]_vars

\* A context that has entered low_level_output goes on, and the DMA is
\* hardware that keeps running.  lwIP need not send.
FairSpec ==
    /\ Spec
    /\ \A c \in Contexts : WF_vars(low_level_output(c))
    /\ WF_vars(DmaSend)
    /\ WF_vars(DmaFetchBusy)
    /\ WF_vars(DmaSuspend)

-----------------------------------------------------------------------------
(* Properties. *)

\* How far descriptor i lies ahead of descriptor j in the chain.
Dist(j, i) == IF i >= j THEN i - j ELSE (i - j) + TxBufNb

\* The descriptor after the youngest one given to the DMA.
Newest == IF \E c \in Contexts : pc[c] \in {"resume", "advance"}
          THEN NextDesc(set) ELSE set

\* Until the handler sends inside the sending of the main loop, the DMA's
\* descriptors are exactly those from the one it uses next up to
\* DMATxDescToSet: nothing is sent twice and the DMA never waits at a
\* descriptor while frames lie behind it (lan8720.c:221-237).
ChainShape ==
    ~overlapped =>
        \E k \in 0 .. TxBufNb :
            /\ \A i \in Desc : own[i] = "dma" <=> Dist(dma, i) < k
            /\ IF k = TxBufNb THEN Newest = dma ELSE Dist(dma, Newest) = k

\* The documented result of low_level_output (ethernetif.c:89-90): after
\* ERR_OK the frame is on the wire or lies intact in front of the DMA.
AcceptedIntact ==
    \A f \in accepted :
        \/ f \in sent
        \/ \E i \in Desc : own[i] = "dma" /\ buf[i] = f /\ len[i] = f

\* With both contexts sending, an accepted frame is damaged in two ways only:
\* the handler sends inside the sending of the main loop, or a frame is handed
\* over while the whole chain is with the DMA (low_level_output copies before
\* ETH_Tx_Packet looks at OWN, ethernetif.c:96-102).  Until one of these
\* happens every accepted frame is intact.
IntactUntilFull ==
    ~overlapped =>
        /\ ~hitFull => AcceptedIntact
        /\ \A c \in Contexts :
              pc[c] = "copy" /\ own[buffer[c]] = "dma" =>
                  Cardinality({i \in Desc : own[i] = "dma"}) = TxBufNb

\* The DMA sleeps in front of a frame in one case only, however the senders
\* overlap: TBUS was tested between its look at the descriptor and its
\* suspension (lan8720.c:227-232).  TBUS is set then, so the next frame wakes
\* it.
OversleepsOnlyAfterEarlyTest ==
    /\ dmaState = "suspended" => tbus
    /\ dmaState = "suspended" /\ own[dma] = "dma" =>
          early \/ \E c \in Contexts : pc[c] = "resume"

\* Every descriptor given to the DMA is sent and returned, whenever the DMA
\* suspended itself, unless TBUS was tested too early; then the next frame
\* gets it going again (lan8720.c:227-232).  Frames of two senders that
\* overlap may lie behind a gap in the chain for ever.
EveryDescriptorReturns ==
    \A i \in Desc :
        /\ (own[i] = "dma") ~> (own[i] = "cpu" \/ early \/ overlapped)
        /\ (own[i] = "dma" /\ tbus /\ \E c \in Contexts : pc[c] = "resume")
              ~> (own[i] = "cpu" \/ overlapped)
=============================================================================
