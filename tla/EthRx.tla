------------------------------- MODULE EthRx -------------------------------
(***************************************************************************)
(* Frame reception: the chain of Rx descriptors shared by the Ethernet DMA *)
(* and ETH_IRQHandler (lan8720.c, ethernetif.c, the descriptor helpers of  *)
(* stm32f4xx_eth.c).                                                       *)
(*                                                                         *)
(* The DMA runs concurrently with every instruction of the handler.  It    *)
(* fills the descriptors it owns, raises R and NIS, and suspends itself    *)
(* with RBUS when the descriptor it wants still belongs to the CPU.  The   *)
(* handler drains the chain, hands each frame to lwIP in a pbuf, and then  *)
(* clears the interrupt flags.                                             *)
(*                                                                         *)
(* The MAC is configured to drop error frames and to store and forward     *)
(* (lan8720.c:149-154), and the longest good frame fits one buffer, so     *)
(* every filled descriptor has FS and LS set and ES clear.                 *)
(***************************************************************************)
EXTENDS Integers, Sequences, FiniteSets

CONSTANTS RxBufNb,    \* ETH_RXBUFNB: descriptors in the chain
          FifoCap,    \* frames the MAC's receive FIFO can hold
          MaxFrames,  \* bound: frames that arrive on the wire
          PoolSize,   \* PBUF_POOL_SIZE
          WindowFrames, \* frames the DMA can store in the exit window
          MaxChain    \* pbufs a full-size frame needs (3 of 512 bytes)

ASSUME RxAssumption ==
    /\ RxBufNb \in Nat /\ RxBufNb >= 2
    /\ FifoCap \in Nat /\ FifoCap > 0
    /\ MaxFrames \in Nat
    /\ PoolSize \in Nat
    /\ MaxChain \in Nat /\ MaxChain > 0
    /\ WindowFrames \in 0 .. (RxBufNb - 1)

VARIABLES own,      \* own[i]: who owns descriptor i, "dma" (OWN set) or "cpu"
          slot,     \* slot[i]: the frame in the buffer of descriptor i
          dma,      \* the descriptor the DMA uses next
          dmaState, \* "run", "fetched" (saw a CPU descriptor) or "suspended"
          rbus,     \* DMASR.RBUS
          fifo,     \* frames in the MAC's FIFO
          arrived,  \* number of frames that came in on the wire
          r, nis,   \* DMASR.R and DMASR.NIS; the IRQ line follows NIS
          get,      \* DMARxDescToGet
          isr,      \* where the handler is
          cur,      \* frame.descriptor of low_level_input
          p,        \* the frame in the pbufs of low_level_input, 0 for NULL
          chain,    \* how many pbufs p consists of
          free,     \* pbufs left in the pool
          held,     \* pbufs lwIP has accepted and not yet freed
          last,     \* history: the last frame handed to lwIP
          late      \* history: descriptors filled in the exit window

ringVars == <<own, slot, late>>
dmaVars  == <<dma, dmaState, fifo, arrived>>
irqVars  == <<r, nis>>
cpuVars  == <<get, isr, cur>>
pbufVars == <<p, chain, free, held, last>>
vars == <<own, slot, dma, dmaState, rbus, fifo, arrived, r, nis, get, isr,
          cur, p, chain, free, held, last, late>>

Desc == 0 .. (RxBufNb - 1)
Frame == 1 .. MaxFrames

\* Mutant: the last descriptor does not point back.
NextDescNoWrap(i) == i + 1

\* Buffer2NextDescAddr: the last descriptor points back to the first.
NextDesc(i) == IF i = RxBufNb - 1 THEN 0 ELSE i + 1

\* ETH_DMARxDescChainInit, then ETH_Start.
Init ==
    /\ own = [i \in Desc |-> "dma"]
    /\ slot = [i \in Desc |-> 0]
    /\ dma = 0 /\ dmaState = "run" /\ rbus = FALSE
    /\ fifo = <<>> /\ arrived = 0
    /\ r = FALSE /\ nis = FALSE
    /\ get = 0 /\ isr = "idle" /\ cur = 0 /\ p = 0
    /\ chain = 0 /\ free = PoolSize /\ held = 0 /\ last = 0
    /\ late = {}

-----------------------------------------------------------------------------
(* The hardware. *)

\* A frame comes in.  It is lost when the FIFO is full; otherwise it also
\* makes a suspended DMA look at its descriptor again.
WireFrame ==
    /\ arrived < MaxFrames
    /\ arrived' = arrived + 1
    /\ IF Len(fifo) < FifoCap
       THEN /\ fifo' = Append(fifo, arrived + 1)
            /\ dmaState' = IF dmaState = "suspended" THEN "run" ELSE dmaState
       ELSE UNCHANGED <<fifo, dmaState>>
    /\ UNCHANGED <<ringVars, dma, rbus, irqVars, cpuVars, pbufVars>>

\* The handler has seen an empty chain and not yet cleared NIS: a frame stored
\* now raises an interrupt that the handler is about to clear.
\* The window is two register writes, a frame takes microseconds: the chain
\* does not fill up in it.
InExitWindow == isr \in {"clearR", "clearNIS"}
TimeToStore == InExitWindow => Cardinality(late) < WindowFrames

\* The DMA stores a frame, gives the descriptor to the CPU and raises the
\* receive interrupt.
DmaStore ==
    /\ dmaState = "run" /\ fifo # <<>> /\ own[dma] = "dma" /\ TimeToStore
    /\ slot' = [slot EXCEPT ![dma] = Head(fifo)]
    /\ own' = [own EXCEPT ![dma] = "cpu"]
    /\ late' = IF InExitWindow THEN late \cup {dma} ELSE late
    /\ dma' = NextDesc(dma)
    /\ fifo' = Tail(fifo)
    /\ r' = TRUE /\ nis' = TRUE
    /\ UNCHANGED <<dmaState, rbus, arrived, cpuVars, pbufVars>>

\* The DMA reads a descriptor the CPU still owns ...
DmaFetchBusy ==
    /\ dmaState = "run" /\ own[dma] = "cpu"
    /\ dmaState' = "fetched"
    /\ UNCHANGED <<ringVars, dma, rbus, fifo, arrived, irqVars, cpuVars, pbufVars>>

\* ... and suspends, whatever happened to the descriptor in the meantime.
DmaSuspend ==
    /\ dmaState = "fetched"
    /\ dmaState' = "suspended" /\ rbus' = TRUE
    /\ UNCHANGED <<ringVars, dma, fifo, arrived, irqVars, cpuVars, pbufVars>>

-----------------------------------------------------------------------------
(* ETH_IRQHandler. *)

\* ETH_GetRxPktSize(DMARxDescToGet) != 0
HasPacket(i) == own[i] = "cpu"

IrqEnter ==
    /\ isr = "idle" /\ nis
    /\ isr' = "check"
    /\ UNCHANGED <<ringVars, dmaVars, rbus, irqVars, get, cur, pbufVars>>

IrqCheck ==
    /\ isr = "check"
    /\ isr' = IF HasPacket(get) THEN "take" ELSE "clearR"
    /\ UNCHANGED <<ringVars, dmaVars, rbus, irqVars, get, cur, pbufVars>>

\* Mutant: DMARxDescToGet is not moved on.
ETH_Rx_PacketStays ==
    /\ isr = "take"
    /\ cur' = get
    /\ isr' = "copy"
    /\ UNCHANGED <<ringVars, get, dmaVars, rbus, irqVars, pbufVars>>

\* Mutant: the descriptor goes back to the DMA before the copy.
ETH_Rx_PacketReleasesEarly ==
    /\ isr = "take"
    /\ cur' = get
    /\ own' = [own EXCEPT ![get] = "dma"]
    /\ get' = NextDesc(get)
    /\ isr' = "copy"
    /\ UNCHANGED <<slot, late, dmaVars, rbus, irqVars, pbufVars>>

\* ETH_Rx_Packet: remember the descriptor and move on to the next one.
ETH_Rx_Packet ==
    /\ isr = "take"
    /\ cur' = get
    /\ get' = NextDesc(get)
    /\ isr' = "copy"
    /\ UNCHANGED <<ringVars, dmaVars, rbus, irqVars, pbufVars>>

\* pbuf_alloc and the copy out of the DMA buffer; when the pool cannot serve
\* the whole frame it is dropped.  The copy takes longer than the DMA's fetch
\* of a descriptor.
CopyToPbuf ==
    /\ isr = "copy" /\ dmaState # "fetched"
    /\ \E n \in 1 .. MaxChain :
          IF n <= free
          THEN free' = free - n /\ chain' = n /\ p' = slot[cur]
          ELSE p' = 0 /\ UNCHANGED <<free, chain>>
    /\ isr' = "giveBack"
    /\ UNCHANGED <<ringVars, dmaVars, rbus, irqVars, get, cur, held, last>>

\* frame.descriptor->Status = ETH_DMARxDesc_OWN
GiveBack ==
    /\ isr = "giveBack"
    /\ own' = [own EXCEPT ![cur] = "dma"]
    /\ late' = late \ {cur}
    /\ isr' = "resume"
    /\ UNCHANGED <<slot, dmaVars, rbus, irqVars, get, cur, pbufVars>>

\* Mutant: RBUS is cleared but DMARPDR is not written.
ResumeDmaForgotten ==
    /\ isr = "resume"
    /\ rbus' = FALSE
    /\ isr' = "input"
    /\ UNCHANGED <<ringVars, dmaVars, irqVars, get, cur, pbufVars>>

\* RBUS set: clear it and write DMARPDR, which wakes a suspended DMA.
ResumeDma ==
    /\ isr = "resume"
    /\ IF rbus
       THEN /\ rbus' = FALSE
            /\ dmaState' = IF dmaState = "suspended" THEN "run" ELSE dmaState
       ELSE UNCHANGED <<rbus, dmaState>>
    /\ isr' = "input"
    /\ UNCHANGED <<ringVars, dma, fifo, arrived, irqVars, get, cur, pbufVars>>

\* Mutant: a refused frame is not freed.
InputFrameLeaks ==
    /\ isr = "input"
    /\ \/ p # 0 /\ held' = held + chain
       \/ UNCHANGED held
    /\ last' = IF p # 0 THEN p ELSE last
    /\ p' = 0 /\ chain' = 0
    /\ isr' = "check"
    /\ UNCHANGED <<ringVars, dmaVars, rbus, irqVars, get, cur, free>>

\* Mutant: one frame per interrupt, as in the commented-out handler.
InputFrameOnce ==
    /\ isr = "input"
    /\ held' = held + chain
    /\ last' = IF p # 0 THEN p ELSE last
    /\ p' = 0 /\ chain' = 0
    /\ isr' = "clearR"
    /\ UNCHANGED <<ringVars, dmaVars, rbus, irqVars, get, cur, free>>

\* netif->input: lwIP keeps the pbufs until it is done with them, or refuses
\* them and ethernetif_input frees them.  Then the loop looks again.
InputFrame ==
    /\ isr = "input"
    /\ \/ p = 0 /\ UNCHANGED <<free, held, last>>
       \/ p # 0 /\ held' = held + chain /\ last' = p /\ UNCHANGED free
       \/ p # 0 /\ free' = free + chain /\ last' = p /\ UNCHANGED held
    /\ p' = 0 /\ chain' = 0
    /\ isr' = "check"
    /\ UNCHANGED <<ringVars, dmaVars, rbus, irqVars, get, cur>>

\* lwIP is done with a pbuf it had accepted, at the end of its input function
\* or in the main loop, which runs only while the handler does not.
StackFrees ==
    /\ held > 0 /\ isr \in {"idle", "check"}
    /\ held' = held - 1
    /\ free' = free + 1
    /\ UNCHANGED <<ringVars, dmaVars, rbus, irqVars, cpuVars, p, chain, last>>

ClearR ==
    /\ isr = "clearR"
    /\ r' = FALSE
    /\ isr' = "clearNIS"
    /\ UNCHANGED <<ringVars, dmaVars, rbus, nis, get, cur, pbufVars>>

ClearNIS ==
    /\ isr = "clearNIS"
    /\ nis' = FALSE
    /\ isr' = "idle"
    /\ UNCHANGED <<ringVars, dmaVars, rbus, r, get, cur, pbufVars>>

ETH_IRQHandler ==
    \/ IrqEnter \/ IrqCheck \/ ETH_Rx_Packet \/ CopyToPbuf \/ GiveBack
    \/ ResumeDma \/ InputFrame \/ ClearR \/ ClearNIS

Next ==
    \/ WireFrame \/ DmaStore \/ DmaFetchBusy \/ DmaSuspend
    \/ ETH_IRQHandler
    \/ StackFrees

Spec == Init /\ [][Next]_vars

\* The handler has the highest priority of the system and is never blocked;
\* the DMA engine is hardware that keeps running.  Frames need not arrive,
\* and lwIP may keep a pbuf for ever.
FairSpec ==
    /\ Spec
    /\ WF_vars(ETH_IRQHandler)
    /\ WF_vars(DmaStore)
    /\ WF_vars(DmaFetchBusy)
    /\ WF_vars(DmaSuspend)

-----------------------------------------------------------------------------
(* Properties. *)

IsrStates == {"idle", "check", "take", "copy", "giveBack", "resume", "input",
              "clearR", "clearNIS"}

\* Type correctness of the descriptors, the DMA and the handler.
TypeOK ==
    /\ own \in [Desc -> {"dma", "cpu"}]
    /\ slot \in [Desc -> Nat]
    /\ dma \in Desc /\ get \in Desc /\ cur \in Desc
    /\ dmaState \in {"run", "fetched", "suspended"}
    /\ rbus \in BOOLEAN /\ r \in BOOLEAN /\ nis \in BOOLEAN
    /\ fifo \in Seq(Nat) /\ arrived \in Nat
    /\ isr \in IsrStates
    /\ p \in Nat /\ last \in Nat
    /\ chain \in Nat /\ free \in Nat /\ held \in Nat
    /\ late \subseteq Desc

\* How far descriptor i lies behind descriptor j in the chain.
Dist(j, i) == IF i >= j THEN i - j ELSE (i - j) + RxBufNb

\* The oldest descriptor not yet returned to the DMA.
Oldest == IF isr \in {"copy", "giveBack"} THEN cur ELSE get

\* The CPU's descriptors are exactly those from the oldest one up to the one
\* the DMA uses next: the two sides never disagree about who is where in the
\* chain (lan8720.c:188-216, ethernetif.c:129).  The frame in the handler's
\* hands is one of them: the DMA does not touch the buffer that is copied, and
\* ETH_Rx_Packet never takes the early return that leaves frame.descriptor NULL
\* for low_level_input to write through (lan8720.c:193-202).
ChainShape ==
    \E k \in 0 .. RxBufNb :
        /\ \A i \in Desc : own[i] = "cpu" <=> Dist(Oldest, i) < k
        /\ IF k = RxBufNb THEN dma = Oldest ELSE Dist(Oldest, dma) = k
        /\ isr \in {"take", "copy", "giveBack"} => k > 0

\* Frames reach lwIP in the order of the wire and at most once, whatever was
\* dropped in between (lan8720.c:179-182).
InOrderOnce == isr = "input" /\ p # 0 => p > last

\* Every pbuf is in the pool, in the handler's hand or with lwIP: none is
\* lost on the error paths of ethernetif_input (ethernetif.c:148-156).
PbufsConserved ==
    /\ free + held + chain = PoolSize
    /\ chain # 0 <=> p # 0

\* While the handler is not running and no interrupt is pending, a frame can
\* sit unseen in the chain only if it was stored between the handler's last
\* look at the chain and its clearing of NIS (lan8720.c:179-184).
UnseenOnlyFromExitWindow ==
    isr = "idle" /\ ~nis => \A i \in Desc : own[i] = "cpu" => i \in late

\* An interrupt taken by the idle CPU empties the chain of every frame in it.
InterruptDrains ==
    \A i \in Desc :
        (isr = "idle" /\ nis /\ own[i] = "cpu") ~> (own[i] = "dma")

\* No frame is stuck in the MAC: a DMA that found the chain full is resumed
\* by one of the descriptors returned later (ethernetif.c:130-134).  With a
\* single descriptor in the chain this is false.
InFifo(f) == \E i \in DOMAIN fifo : fifo[i] = f
FifoDrains == \A f \in Frame : InFifo(f) ~> ~InFifo(f)
=============================================================================
