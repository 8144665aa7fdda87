---------------------------- MODULE EthRxProofs ----------------------------
(***************************************************************************)
(* Proofs about frame reception, for every length of the descriptor chain, *)
(* every FIFO and every pool.                                              *)
(***************************************************************************)
EXTENDS EthRx, TLAPS

\* Between ETH_Rx_Packet and the return of the descriptor, DMARxDescToGet is
\* one ahead of frame.descriptor.
CurBehindGet == isr \in {"copy", "giveBack"} => get = NextDesc(cur)

ChainInv == ChainShape /\ CurBehindGet

\* The frame in descriptor i still has to go to lwIP, and is not the one in p.
Waiting(i) == own[i] = "cpu" /\ (isr \in {"copy", "giveBack"} => i # cur)

\* Frames are numbered in the order of the wire, so what was handed over, what
\* is in p, what waits in the chain and what waits in the FIFO are increasing.
FifoOrder ==
    /\ \A x \in 1 .. Len(fifo) : last < fifo[x] /\ p < fifo[x] /\ fifo[x] <= arrived
    /\ \A x, y \in 1 .. Len(fifo) : x < y => fifo[x] < fifo[y]

SlotOrder ==
    /\ \A i \in Desc : own[i] = "cpu" =>
          /\ last < slot[i] /\ slot[i] <= arrived
          /\ \A x \in 1 .. Len(fifo) : slot[i] < fifo[x]
    /\ \A i \in Desc : Waiting(i) => p < slot[i]
    /\ \A i, j \in Desc :
          /\ own[i] = "cpu" /\ own[j] = "cpu"
          /\ Dist(Oldest, i) < Dist(Oldest, j)
          => slot[i] < slot[j]

FrameInHand ==
    /\ p <= arrived /\ last <= arrived
    /\ p # 0 => p > last /\ isr \in {"giveBack", "resume", "input"}

OrderInv == FifoOrder /\ SlotOrder /\ FrameInHand

\* From the handler's last look at the chain to the next interrupt, whatever
\* the CPU owns came in through the exit window.
LateInv ==
    InExitWindow \/ (isr = "idle" /\ ~nis) =>
        \A i \in Desc : own[i] = "cpu" => i \in late

IInv == TypeOK /\ ChainInv /\ OrderInv /\ PbufsConserved /\ LateInv

-----------------------------------------------------------------------------

\* The FIFO stays a sequence of frame numbers when one arrives.
LEMMA AppendFrame ==
    ASSUME NEW s \in Seq(Nat), NEW n \in Nat
    PROVE  Append(s, n) \in Seq(Nat)
OBVIOUS

\* Type correctness is inductive: no step of the DMA or of ETH_IRQHandler
\* (lan8720.c:171-216) leaves the chain or the counters.
LEMMA TypeStep == TypeOK /\ [Next]_vars => TypeOK'
<1> SUFFICES ASSUME TypeOK, [Next]_vars PROVE TypeOK'
  OBVIOUS
<1> USE RxAssumption DEF RxAssumption, TypeOK, Desc, NextDesc,
       ringVars, dmaVars, irqVars, cpuVars, pbufVars, IsrStates
<1>1. CASE WireFrame
  <2>1. fifo' = Append(fifo, arrived + 1) \/ fifo' = fifo
    BY <1>1 DEF WireFrame
  <2>2. fifo' \in Seq(Nat)
    <3>1. Append(fifo, arrived + 1) \in Seq(Nat)
      BY AppendFrame
    <3> QED
      BY <2>1, <3>1
  <2> QED
    BY <1>1, <2>2 DEF WireFrame
<1>2. CASE DmaStore
  BY <1>2 DEF DmaStore
<1>3. CASE DmaFetchBusy \/ DmaSuspend
  BY <1>3 DEF DmaFetchBusy, DmaSuspend
<1>4. CASE IrqEnter \/ IrqCheck
  BY <1>4 DEF IrqEnter, IrqCheck
<1>5. CASE ETH_Rx_Packet
  BY <1>5 DEF ETH_Rx_Packet
<1>6. CASE CopyToPbuf
  BY <1>6 DEF CopyToPbuf
<1>7. CASE GiveBack
  BY <1>7 DEF GiveBack
<1>8. CASE ResumeDma
  BY <1>8 DEF ResumeDma
<1>9. CASE InputFrame
  BY <1>9 DEF InputFrame
<1>10. CASE ClearR \/ ClearNIS
  BY <1>10 DEF ClearR, ClearNIS
<1>11. CASE StackFrees
  BY <1>11 DEF StackFrees
<1>12. CASE UNCHANGED vars
  BY <1>12 DEF vars
<1> QED
  BY <1>1, <1>2, <1>3, <1>4, <1>5, <1>6, <1>7, <1>8, <1>9, <1>10, <1>11, <1>12
  DEF Next, ETH_IRQHandler

-----------------------------------------------------------------------------

\* What every step other than those of the DMA's pointer, of DMARxDescToGet
\* and of the OWN bits leaves alone.
LEMMA ChainQuiet ==
    ASSUME TypeOK, ChainInv, UNCHANGED <<own, dma, get, cur>>,
           \/ UNCHANGED isr
           \/ /\ isr' \notin {"take", "copy", "giveBack"}
              /\ isr \notin {"copy", "giveBack"}
           \/ isr = "copy" /\ isr' = "giveBack"
    PROVE  ChainInv'
<1>1. Oldest' = Oldest
  BY DEF Oldest
<1>2. CurBehindGet'
  BY DEF ChainInv, CurBehindGet, NextDesc
<1>3. PICK k \in 0 .. RxBufNb :
          /\ \A i \in Desc : own[i] = "cpu" <=> Dist(Oldest, i) < k
          /\ IF k = RxBufNb THEN dma = Oldest ELSE Dist(Oldest, dma) = k
          /\ isr \in {"take", "copy", "giveBack"} => k > 0
  BY DEF ChainInv, ChainShape
<1>4. ChainShape'
  BY <1>1, <1>3 DEF ChainShape, Dist
<1> QED
  BY <1>2, <1>4 DEF ChainInv

\* The DMA and the handler keep agreeing about the chain: a step of either
\* moves one end of the CPU's part by one (lan8720.c:188-216,
\* ethernetif.c:129).
LEMMA ChainStep == TypeOK /\ ChainInv /\ [Next]_vars => ChainInv'
<1> SUFFICES ASSUME TypeOK, ChainInv, [Next]_vars PROVE ChainInv'
  OBVIOUS
<1>0. PICK k \in 0 .. RxBufNb :
          /\ \A i \in Desc : own[i] = "cpu" <=> Dist(Oldest, i) < k
          /\ IF k = RxBufNb THEN dma = Oldest ELSE Dist(Oldest, dma) = k
          /\ isr \in {"take", "copy", "giveBack"} => k > 0
  BY DEF ChainInv, ChainShape
<1>t. /\ Oldest \in Desc /\ dma \in Desc /\ get \in Desc /\ cur \in Desc
      /\ own \in [Desc -> {"dma", "cpu"}]
      /\ RxBufNb \in Nat /\ RxBufNb >= 2
  BY RxAssumption DEF RxAssumption, TypeOK, Oldest
<1>1. CASE DmaStore
  <2>1. k < RxBufNb
    BY <1>0, <1>1, <1>t DEF DmaStore, Dist, Desc
  <2>2. Oldest' = Oldest /\ CurBehindGet'
    BY <1>1 DEF DmaStore, cpuVars, Oldest, ChainInv, CurBehindGet, NextDesc
  <2>3. \A i \in Desc : own'[i] = "cpu" <=> Dist(Oldest, i) < k + 1
    BY <1>0, <1>1, <1>t, <2>1 DEF DmaStore, Dist, Desc
  <2>4. IF k + 1 = RxBufNb THEN NextDesc(dma) = Oldest
                           ELSE Dist(Oldest, NextDesc(dma)) = k + 1
    BY <1>0, <1>t, <2>1 DEF Dist, Desc, NextDesc
  <2>5. dma' = NextDesc(dma) /\ isr' = isr /\ k + 1 \in 0 .. RxBufNb /\ k + 1 > 0
    BY <1>1, <1>t, <2>1 DEF DmaStore, cpuVars
  <2> QED
    BY <2>2, <2>3, <2>4, <2>5 DEF ChainInv, ChainShape, Dist
<1>2. CASE ETH_Rx_Packet
  <2>1. Oldest' = Oldest /\ CurBehindGet' /\ UNCHANGED <<own, dma>> /\ k > 0
    BY <1>0, <1>2 DEF ETH_Rx_Packet, Oldest, CurBehindGet, ringVars, dmaVars,
       NextDesc
  <2> QED
    BY <1>0, <2>1 DEF ChainInv, ChainShape, Dist
<1>3. CASE GiveBack
  <2>1. Oldest = cur /\ get = NextDesc(cur) /\ k > 0
    BY <1>0, <1>3 DEF GiveBack, Oldest, ChainInv, CurBehindGet
  <2>2. Oldest' = get /\ UNCHANGED <<dma, get, cur>> /\ isr' = "resume"
        /\ own' = [own EXCEPT ![cur] = "dma"]
    BY <1>3 DEF GiveBack, Oldest, dmaVars
  <2>3. \A i \in Desc : own'[i] = "cpu" <=> Dist(get, i) < k - 1
    BY <1>0, <1>t, <2>1, <2>2 DEF Dist, Desc, NextDesc
  <2>4. Dist(get, dma) = k - 1 /\ k - 1 # RxBufNb /\ k - 1 \in 0 .. RxBufNb
    BY <1>0, <1>t, <2>1 DEF Dist, Desc, NextDesc
  <2> QED
    BY <2>2, <2>3, <2>4 DEF ChainInv, ChainShape, CurBehindGet, Dist
<1>4. CASE IrqCheck
  <2>1. UNCHANGED <<own, dma, get, cur>> /\ Oldest' = Oldest /\ CurBehindGet'
    BY <1>4 DEF IrqCheck, Oldest, CurBehindGet, ringVars, dmaVars
  <2>2. isr' \in {"take", "copy", "giveBack"} => own[get] = "cpu" /\ Oldest = get
    BY <1>4 DEF IrqCheck, HasPacket, Oldest
  <2>3. isr' \in {"take", "copy", "giveBack"} => k > 0
    BY <1>0, <1>t, <2>2 DEF Dist, Desc
  <2> QED
    BY <1>0, <2>1, <2>3 DEF ChainInv, ChainShape, Dist
<1>5. CASE \/ WireFrame \/ DmaFetchBusy \/ DmaSuspend \/ StackFrees
           \/ UNCHANGED vars
  <2>1. UNCHANGED <<own, dma, get, cur, isr>>
    BY <1>5 DEF WireFrame, DmaFetchBusy, DmaSuspend, StackFrees, vars, ringVars,
       dmaVars, cpuVars
  <2> QED
    BY <2>1, ChainQuiet
<1>6. CASE IrqEnter \/ CopyToPbuf \/ ResumeDma \/ InputFrame \/ ClearR \/ ClearNIS
  <2>1. UNCHANGED <<own, dma, get, cur>>
    BY <1>6 DEF IrqEnter, CopyToPbuf, ResumeDma, InputFrame, ClearR, ClearNIS,
       ringVars, dmaVars, cpuVars
  <2>2. \/ /\ isr' \notin {"take", "copy", "giveBack"}
           /\ isr \notin {"copy", "giveBack"}
        \/ isr = "copy" /\ isr' = "giveBack"
    BY <1>6 DEF IrqEnter, CopyToPbuf, ResumeDma, InputFrame, ClearR, ClearNIS
  <2> QED
    BY <2>1, <2>2, ChainQuiet
<1> QED
  BY <1>1, <1>2, <1>3, <1>4, <1>5, <1>6 DEF Next, ETH_IRQHandler

-----------------------------------------------------------------------------

\* In the chain the DMA's next descriptor comes after all the CPU owns.
LEMMA DmaIsLast ==
    ASSUME TypeOK, ChainInv, own[dma] = "dma"
    PROVE  \A i \in Desc : own[i] = "cpu" => Dist(Oldest, i) < Dist(Oldest, dma)
<1>0. PICK k \in 0 .. RxBufNb :
          /\ \A i \in Desc : own[i] = "cpu" <=> Dist(Oldest, i) < k
          /\ IF k = RxBufNb THEN dma = Oldest ELSE Dist(Oldest, dma) = k
  BY DEF ChainInv, ChainShape
<1>1. /\ Oldest \in Desc /\ dma \in Desc /\ RxBufNb \in Nat /\ RxBufNb >= 2
  BY RxAssumption DEF RxAssumption, TypeOK, Oldest
<1>2. k # RxBufNb
  BY <1>0, <1>1 DEF Dist, Desc
<1> QED
  BY <1>0, <1>2

\* Returning the oldest descriptor moves every other one closer by one.
LEMMA DistAfterReturn ==
    ASSUME NEW c \in Desc, NEW i \in Desc, i # c
    PROVE  Dist(NextDesc(c), i) = Dist(c, i) - 1
BY RxAssumption DEF RxAssumption, Dist, Desc, NextDesc

\* Frames keep the order of the wire through every step (lan8720.c:179-216,
\* ethernetif.c:109-136).
LEMMA OrderStep ==
    TypeOK /\ ChainInv /\ OrderInv /\ [Next]_vars => OrderInv'
<1> SUFFICES ASSUME TypeOK, ChainInv, OrderInv, [Next]_vars PROVE OrderInv'
  OBVIOUS
<1>t. /\ fifo \in Seq(Nat) /\ arrived \in Nat /\ p \in Nat /\ last \in Nat
      /\ slot \in [Desc -> Nat] /\ own \in [Desc -> {"dma", "cpu"}]
      /\ dma \in Desc /\ cur \in Desc /\ get \in Desc /\ Oldest \in Desc
  BY DEF TypeOK, Oldest
<1>f. Len(fifo) \in Nat /\ \A x \in 1 .. Len(fifo) : fifo[x] \in Nat
  BY <1>t
<1>o. FifoOrder /\ SlotOrder /\ FrameInHand
  BY DEF OrderInv
<1>1. CASE WireFrame
  <2>1. UNCHANGED <<own, slot, isr, cur, get, p, last>> /\ arrived' = arrived + 1
    BY <1>1 DEF WireFrame, ringVars, cpuVars, pbufVars
  <2>2. Oldest' = Oldest
    BY <2>1 DEF Oldest
  <2>3. CASE fifo' = Append(fifo, arrived + 1)
    <3>1. /\ Len(fifo') = Len(fifo) + 1
          /\ \A x \in 1 .. Len(fifo) : fifo'[x] = fifo[x]
          /\ fifo'[Len(fifo) + 1] = arrived + 1
          /\ Len(fifo) \in Nat
      BY <1>t, <2>3
    <3>a. /\ \A x \in 1 .. Len(fifo) :
                last < fifo[x] /\ p < fifo[x] /\ fifo[x] <= arrived
          /\ \A x, y \in 1 .. Len(fifo) : x < y => fifo[x] < fifo[y]
          /\ last <= arrived /\ p <= arrived
      BY <1>o DEF FifoOrder, FrameInHand
    <3>b. ASSUME NEW x \in 1 .. (Len(fifo) + 1)
          PROVE  last < fifo'[x] /\ p < fifo'[x] /\ fifo'[x] <= arrived + 1
      <4>1. CASE x \in 1 .. Len(fifo)
        BY <1>t, <1>f, <3>1, <3>a, <4>1
      <4>2. CASE x = Len(fifo) + 1
        BY <1>t, <3>1, <3>a, <4>2
      <4> QED
        BY <1>f, <4>1, <4>2
    <3>c. ASSUME NEW x \in 1 .. (Len(fifo) + 1), NEW y \in 1 .. (Len(fifo) + 1),
                 x < y
          PROVE  fifo'[x] < fifo'[y]
      <4>1. x \in 1 .. Len(fifo)
        BY <1>f, <3>c
      <4>2. CASE y \in 1 .. Len(fifo)
        BY <3>1, <3>a, <3>c, <4>1, <4>2
      <4>3. CASE y = Len(fifo) + 1
        BY <1>t, <1>f, <3>1, <3>a, <4>1, <4>3
      <4> QED
        BY <1>f, <4>2, <4>3
    <3>2. FifoOrder'
      BY <2>1, <3>1, <3>b, <3>c DEF FifoOrder
    <3>3. SlotOrder'
      BY <1>t, <1>o, <2>1, <2>2, <3>1 DEF SlotOrder, Waiting, Dist
    <3> QED
      BY <1>t, <1>o, <2>1, <3>2, <3>3 DEF OrderInv, FrameInHand
  <2>4. CASE UNCHANGED fifo
    BY <1>t, <1>o, <2>1, <2>2, <2>4
    DEF OrderInv, FifoOrder, SlotOrder, FrameInHand, Waiting, Dist
  <2> QED
    BY <1>1, <2>3, <2>4 DEF WireFrame
<1>2. CASE DmaStore
  <2>1. UNCHANGED <<arrived, isr, cur, get, p, last>> /\ own[dma] = "dma"
        /\ slot' = [slot EXCEPT ![dma] = fifo[1]]
        /\ own' = [own EXCEPT ![dma] = "cpu"]
    BY <1>2, <1>t DEF DmaStore, cpuVars, pbufVars
  <2>2. /\ Len(fifo') = Len(fifo) - 1 /\ Len(fifo) \in Nat /\ Len(fifo) > 0
        /\ \A x \in 1 .. (Len(fifo) - 1) :
              fifo'[x] = fifo[x + 1] /\ x + 1 \in 1 .. Len(fifo)
    BY <1>2, <1>t DEF DmaStore
  <2>3. Oldest' = Oldest
    BY <2>1 DEF Oldest
  <2>4. FifoOrder' /\ FrameInHand'
    <3>1. \A x \in 1 .. (Len(fifo) - 1) :
              last < fifo'[x] /\ p < fifo'[x] /\ fifo'[x] <= arrived
      BY <1>o, <2>2 DEF FifoOrder
    <3>2. \A x, y \in 1 .. (Len(fifo) - 1) : x < y => fifo'[x] < fifo'[y]
      <4> SUFFICES ASSUME NEW x \in 1 .. (Len(fifo) - 1),
                          NEW y \in 1 .. (Len(fifo) - 1), x < y
                   PROVE  fifo[x + 1] < fifo[y + 1]
        BY <2>2
      <4>1. x + 1 \in 1 .. Len(fifo) /\ y + 1 \in 1 .. Len(fifo) /\ x + 1 < y + 1
        BY <2>2
      <4> QED
        BY <1>o, <4>1 DEF FifoOrder
    <3> QED
      BY <1>o, <2>1, <2>2, <3>1, <3>2 DEF FifoOrder, FrameInHand
  <2>5. \A x \in 1 .. (Len(fifo) - 1) : fifo[1] < fifo'[x]
    <3> SUFFICES ASSUME NEW x \in 1 .. (Len(fifo) - 1)
                 PROVE  fifo[1] < fifo[x + 1]
      BY <2>2
    <3>1. x + 1 \in 1 .. Len(fifo) /\ 1 \in 1 .. Len(fifo) /\ 1 < x + 1
      BY <2>2
    <3> QED
      BY <1>o, <3>1 DEF FifoOrder
  <2>6. last < fifo[1] /\ p < fifo[1] /\ fifo[1] <= arrived
    BY <1>o, <2>2 DEF FifoOrder
  <2>7. \A i \in Desc : own[i] = "cpu" => slot[i] < fifo[1]
    BY <1>o, <2>2 DEF SlotOrder
  <2>8. \A i \in Desc : own'[i] = "cpu" =>
          /\ last < slot'[i] /\ slot'[i] <= arrived
          /\ \A x \in 1 .. Len(fifo') : slot'[i] < fifo'[x]
    <3> SUFFICES ASSUME NEW i \in Desc, own'[i] = "cpu"
                 PROVE  /\ last < slot'[i] /\ slot'[i] <= arrived
                        /\ \A x \in 1 .. Len(fifo') : slot'[i] < fifo'[x]
      OBVIOUS
    <3>1. CASE i = dma
      BY <1>t, <2>1, <2>2, <2>5, <2>6, <3>1
    <3>2. CASE i # dma
      <4>1. own[i] = "cpu" /\ slot'[i] = slot[i]
        BY <1>t, <2>1, <3>2
      <4> QED
        BY <1>o, <2>2, <4>1 DEF SlotOrder
    <3> QED
      BY <3>1, <3>2
  <2>9. \A i \in Desc : Waiting(i)' => p < slot'[i]
    BY <1>t, <1>o, <2>1, <2>6 DEF SlotOrder, Waiting
  <2>10. ASSUME NEW i \in Desc, NEW j \in Desc, own'[i] = "cpu", own'[j] = "cpu",
                Dist(Oldest, i) < Dist(Oldest, j)
         PROVE  slot'[i] < slot'[j]
    <3>0. Dist(Oldest, i) \in Int /\ Dist(Oldest, j) \in Int
      BY <1>t, RxAssumption DEF RxAssumption, Dist, Desc
    <3>1. CASE i = dma
      <4>1. j # dma /\ own[j] = "cpu"
        BY <1>t, <2>1, <2>10, <3>0, <3>1
      <4>2. Dist(Oldest, j) < Dist(Oldest, dma)
        BY <2>1, <4>1, DmaIsLast
      <4> QED
        BY <2>10, <3>0, <3>1, <4>2
    <3>2. CASE i # dma /\ j = dma
      BY <1>t, <2>1, <2>7, <2>10, <3>2
    <3>3. CASE i # dma /\ j # dma
      BY <1>t, <1>o, <2>1, <2>10, <3>3 DEF SlotOrder
    <3> QED
      BY <3>1, <3>2, <3>3
  <2>11. SlotOrder'
    BY <2>1, <2>3, <2>8, <2>9, <2>10 DEF SlotOrder, Dist
  <2> QED
    BY <2>4, <2>11 DEF OrderInv
<1>3. CASE ETH_Rx_Packet
  <2>1. UNCHANGED <<own, slot, fifo, arrived, p, last, Oldest>> /\ p = 0
    BY <1>3, <1>o DEF ETH_Rx_Packet, ringVars, dmaVars, pbufVars, Oldest, FrameInHand
  <2>2. FifoOrder' /\ FrameInHand'
    BY <1>o, <2>1 DEF FifoOrder, FrameInHand
  <2>3. \A i \in Desc : Waiting(i)' => p' < slot'[i]
    BY <1>t, <1>o, <2>1 DEF SlotOrder, Waiting
  <2>4. SlotOrder'
    BY <1>o, <2>1, <2>3 DEF SlotOrder, Dist
  <2> QED
    BY <2>2, <2>4 DEF OrderInv
<1>4. CASE CopyToPbuf
  <2>1. UNCHANGED <<own, slot, fifo, arrived, cur, last, Oldest>>
        /\ isr = "copy" /\ isr' = "giveBack" /\ Oldest = cur
    BY <1>4 DEF CopyToPbuf, ringVars, dmaVars, Oldest
  <2>2. p' = 0 \/ p' = slot[cur]
    BY <1>4 DEF CopyToPbuf
  <2>3. own[cur] = "cpu"
    <3>1. PICK k \in 0 .. RxBufNb :
             /\ \A i \in Desc : own[i] = "cpu" <=> Dist(Oldest, i) < k
             /\ k > 0
      BY <2>1 DEF ChainInv, ChainShape
    <3> QED
      BY <1>t, <2>1, <3>1, RxAssumption DEF RxAssumption, Dist, Desc
  <2>4. \A i \in Desc : i # cur => Dist(cur, cur) < Dist(cur, i)
    BY <1>t, RxAssumption DEF RxAssumption, Dist, Desc
  <2>5. \A i \in Desc : own[i] = "cpu" /\ i # cur => slot[cur] < slot[i]
    BY <1>t, <1>o, <2>1, <2>3, <2>4 DEF SlotOrder
  <2>6. \A i \in Desc : Waiting(i)' => p' < slot'[i]
    BY <1>t, <1>o, <2>1, <2>2, <2>5 DEF SlotOrder, Waiting
  <2>7. SlotOrder'
    BY <1>o, <2>1, <2>6 DEF SlotOrder, Dist
  <2>8. FifoOrder' /\ FrameInHand'
    BY <1>t, <1>o, <2>1, <2>2, <2>3 DEF FifoOrder, SlotOrder, FrameInHand
  <2> QED
    BY <2>7, <2>8 DEF OrderInv
<1>5. CASE GiveBack
  <2>1. /\ UNCHANGED <<slot, fifo, arrived, p, last, cur, get>>
        /\ isr = "giveBack" /\ isr' = "resume"
        /\ own' = [own EXCEPT ![cur] = "dma"]
        /\ Oldest = cur /\ Oldest' = NextDesc(cur)
    BY <1>5 DEF GiveBack, dmaVars, pbufVars, Oldest, ChainInv, CurBehindGet
  <2>2. FifoOrder' /\ FrameInHand'
    BY <1>o, <2>1 DEF FifoOrder, FrameInHand
  <2>3. \A i \in Desc : own'[i] = "cpu" => own[i] = "cpu" /\ i # cur
    BY <1>t, <2>1
  <2>4. \A i \in Desc : Waiting(i)' => p' < slot'[i]
    BY <1>o, <2>1, <2>3 DEF SlotOrder, Waiting
  <2>5. \A i, j \in Desc :
          /\ own'[i] = "cpu" /\ own'[j] = "cpu"
          /\ Dist(NextDesc(cur), i) < Dist(NextDesc(cur), j)
          => slot'[i] < slot'[j]
    <3> SUFFICES ASSUME NEW i \in Desc, NEW j \in Desc,
                        own'[i] = "cpu", own'[j] = "cpu",
                        Dist(NextDesc(cur), i) < Dist(NextDesc(cur), j)
                 PROVE  slot'[i] < slot'[j]
      OBVIOUS
    <3>1. Dist(NextDesc(cur), i) = Dist(cur, i) - 1
          /\ Dist(NextDesc(cur), j) = Dist(cur, j) - 1
      BY <1>t, <2>3, DistAfterReturn
    <3>2. Dist(cur, i) \in Int /\ Dist(cur, j) \in Int
      BY <1>t, RxAssumption DEF RxAssumption, Dist, Desc
    <3>3. Dist(cur, i) < Dist(cur, j)
      BY <3>1, <3>2
    <3> QED
      BY <1>o, <2>1, <2>3, <3>3 DEF SlotOrder
  <2>6. SlotOrder'
    BY <1>o, <2>1, <2>3, <2>4, <2>5 DEF SlotOrder, Dist, NextDesc
  <2> QED
    BY <2>2, <2>6 DEF OrderInv
<1>6. CASE InputFrame
  <2>1. /\ UNCHANGED <<own, slot, fifo, arrived, cur, get, Oldest>>
        /\ isr = "input" /\ isr' = "check" /\ p' = 0
        /\ last' = last \/ (last' = p /\ p # 0)
    BY <1>6 DEF InputFrame, ringVars, dmaVars, Oldest
  <2>2. FifoOrder' /\ FrameInHand'
    BY <1>t, <1>o, <2>1 DEF FifoOrder, FrameInHand
  <2>3. \A i \in Desc : own[i] = "cpu" => last' < slot[i] /\ 0 < slot[i]
    BY <1>t, <1>o, <2>1 DEF SlotOrder, Waiting
  <2>4. SlotOrder'
    BY <1>o, <2>1, <2>3 DEF SlotOrder, Waiting, Dist
  <2> QED
    BY <2>2, <2>4 DEF OrderInv
<1>7. CASE \/ DmaFetchBusy \/ DmaSuspend \/ StackFrees \/ UNCHANGED vars
           \/ IrqEnter \/ IrqCheck \/ ResumeDma \/ ClearR \/ ClearNIS
  <2>1. UNCHANGED <<own, slot, fifo, arrived, cur, get, p, last>>
    BY <1>7 DEF DmaFetchBusy, DmaSuspend, StackFrees, vars, IrqEnter, IrqCheck,
       ResumeDma, ClearR, ClearNIS, ringVars, dmaVars, cpuVars, pbufVars
  <2>2. \/ UNCHANGED isr
        \/ /\ isr \notin {"copy", "giveBack"} /\ isr' \notin {"copy", "giveBack"}
           /\ isr # "input"
           /\ isr = "resume" => isr' = "input"
    BY <1>7 DEF DmaFetchBusy, DmaSuspend, StackFrees, vars, IrqEnter, IrqCheck,
       ResumeDma, ClearR, ClearNIS, cpuVars
  <2>3. Oldest' = Oldest /\ \A i : Waiting(i)' <=> Waiting(i)
    BY <2>1, <2>2 DEF Oldest, Waiting
  <2>4. FrameInHand'
    BY <1>o, <2>1, <2>2 DEF FrameInHand
  <2>5. SlotOrder'
    BY <1>o, <2>1, <2>3 DEF SlotOrder, Dist
  <2>6. FifoOrder'
    BY <1>o, <2>1 DEF FifoOrder
  <2> QED
    BY <2>4, <2>5, <2>6 DEF OrderInv
<1> QED
  BY <1>1, <1>2, <1>3, <1>4, <1>5, <1>6, <1>7 DEF Next, ETH_IRQHandler

-----------------------------------------------------------------------------

\* What the chain's shape says about the descriptor in the handler's hands.
LEMMA OldestIsCpus ==
    ASSUME TypeOK, ChainInv
    PROVE  /\ isr \in {"take", "copy", "giveBack"} => own[Oldest] = "cpu"
           /\ own[Oldest] = "dma" => \A i \in Desc : own[i] = "dma"
<1>0. PICK k \in 0 .. RxBufNb :
          /\ \A i \in Desc : own[i] = "cpu" <=> Dist(Oldest, i) < k
          /\ isr \in {"take", "copy", "giveBack"} => k > 0
  BY DEF ChainInv, ChainShape
<1>1. Oldest \in Desc /\ RxBufNb \in Nat /\ own \in [Desc -> {"dma", "cpu"}]
  BY RxAssumption DEF RxAssumption, TypeOK, Oldest
<1>2. Dist(Oldest, Oldest) = 0 /\ \A i \in Desc : Dist(Oldest, i) >= 0
  BY <1>1 DEF Dist, Desc
<1>3. CASE k = 0
  BY <1>0, <1>1, <1>2, <1>3 DEF Dist, Desc
<1>4. CASE k > 0
  BY <1>0, <1>1, <1>2, <1>4
<1> QED
  BY <1>3, <1>4

\* Pbufs are neither lost nor invented by a step (ethernetif.c:109-158).
LEMMA PbufStep ==
    TypeOK /\ ChainInv /\ OrderInv /\ PbufsConserved /\ [Next]_vars
        => PbufsConserved'
<1> SUFFICES ASSUME TypeOK, ChainInv, OrderInv, PbufsConserved, [Next]_vars
             PROVE  PbufsConserved'
  OBVIOUS
<1>t. /\ p \in Nat /\ chain \in Nat /\ free \in Nat /\ held \in Nat
      /\ PoolSize \in Nat /\ MaxChain \in Nat
  BY RxAssumption DEF RxAssumption, TypeOK
<1>1. CASE CopyToPbuf
  <2>1. p = 0 /\ chain = 0
    BY <1>1, <1>t DEF CopyToPbuf, OrderInv, FrameInHand, PbufsConserved
  <2>2. own[cur] = "cpu" /\ cur \in Desc
    BY <1>1, OldestIsCpus DEF CopyToPbuf, Oldest, TypeOK
  <2>3. slot[cur] # 0
    BY <2>2 DEF OrderInv, SlotOrder, TypeOK
  <2>4. PICK n \in 1 .. MaxChain :
            IF n <= free
            THEN free' = free - n /\ chain' = n /\ p' = slot[cur]
            ELSE p' = 0 /\ UNCHANGED <<free, chain>>
    BY <1>1 DEF CopyToPbuf
  <2>5. held' = held
    BY <1>1 DEF CopyToPbuf
  <2> QED
    BY <1>t, <2>1, <2>3, <2>4, <2>5 DEF PbufsConserved
<1>2. CASE InputFrame
  <2>1. /\ p' = 0 /\ chain' = 0
        /\ \/ p = 0 /\ free' = free /\ held' = held
           \/ held' = held + chain /\ free' = free
           \/ free' = free + chain /\ held' = held
    BY <1>2 DEF InputFrame
  <2> QED
    BY <1>t, <2>1 DEF PbufsConserved
<1>3. CASE StackFrees
  <2>1. held' = held - 1 /\ free' = free + 1 /\ UNCHANGED <<p, chain>>
    BY <1>3 DEF StackFrees
  <2> QED
    BY <1>t, <2>1 DEF PbufsConserved
<1>4. CASE UNCHANGED pbufVars
  BY <1>4 DEF PbufsConserved, pbufVars
<1> QED
  BY <1>1, <1>2, <1>3, <1>4
  DEF Next, ETH_IRQHandler, vars, pbufVars, WireFrame, DmaStore, DmaFetchBusy,
      DmaSuspend, IrqEnter, IrqCheck, ETH_Rx_Packet, GiveBack, ResumeDma, ClearR,
      ClearNIS

\* Only the exit window hides a frame from the handler (lan8720.c:179-184).
LEMMA LateStep == TypeOK /\ ChainInv /\ LateInv /\ [Next]_vars => LateInv'
<1> SUFFICES ASSUME TypeOK, ChainInv, LateInv, [Next]_vars PROVE LateInv'
  OBVIOUS
<1>t. own \in [Desc -> {"dma", "cpu"}] /\ dma \in Desc /\ get \in Desc
  BY DEF TypeOK
<1>1. CASE DmaStore
  BY <1>1, <1>t DEF DmaStore, LateInv, InExitWindow, cpuVars
<1>2. CASE IrqCheck
  <2>1. UNCHANGED <<own, late>> /\ isr = "check"
        /\ (InExitWindow' => own[get] # "cpu") /\ isr' # "idle"
    BY <1>2 DEF IrqCheck, ringVars, InExitWindow, HasPacket
  <2>2. InExitWindow' => \A i \in Desc : own[i] = "dma"
    BY <1>t, <2>1, OldestIsCpus DEF Oldest
  <2> QED
    BY <2>1, <2>2 DEF LateInv
<1>3. CASE ClearR \/ ClearNIS
  BY <1>3 DEF ClearR, ClearNIS, LateInv, InExitWindow, ringVars
<1>4. CASE IrqEnter \/ ETH_Rx_Packet \/ CopyToPbuf \/ GiveBack \/ ResumeDma
           \/ InputFrame
  BY <1>4 DEF IrqEnter, ETH_Rx_Packet, CopyToPbuf, GiveBack, ResumeDma,
     InputFrame, LateInv, InExitWindow
<1>5. CASE WireFrame \/ DmaFetchBusy \/ DmaSuspend \/ StackFrees \/ UNCHANGED vars
  BY <1>5 DEF WireFrame, DmaFetchBusy, DmaSuspend, StackFrees, vars, ringVars,
     irqVars, cpuVars, LateInv, InExitWindow
<1> QED
  BY <1>1, <1>2, <1>3, <1>4, <1>5 DEF Next, ETH_IRQHandler

-----------------------------------------------------------------------------

\* After ETH_DMARxDescChainInit and ETH_Start everything is in place.
LEMMA InitHolds == Init => IInv
<1> SUFFICES ASSUME Init PROVE IInv
  OBVIOUS
<1>1. TypeOK
  <2>1. fifo \in Seq(Nat)
    BY DEF Init
  <2>2. 0 \in Desc /\ PoolSize \in Nat
    BY RxAssumption DEF RxAssumption, Desc
  <2>3. rbus \in BOOLEAN /\ r \in BOOLEAN /\ nis \in BOOLEAN /\ late \subseteq Desc
    BY DEF Init
  <2> QED
    BY <2>1, <2>2, <2>3 DEF Init, TypeOK, IsrStates
<1>2. ChainInv
  <2>1. /\ \A i \in Desc : own[i] = "cpu" <=> Dist(Oldest, i) < 0
        /\ Dist(Oldest, dma) = 0 /\ 0 # RxBufNb /\ 0 \in 0 .. RxBufNb
        /\ isr \notin {"take", "copy", "giveBack"}
    BY RxAssumption DEF RxAssumption, Init, Dist, Oldest, Desc
  <2> QED
    BY <2>1 DEF ChainInv, ChainShape, CurBehindGet
<1>3. OrderInv
  BY DEF Init, OrderInv, FifoOrder, SlotOrder, FrameInHand, Waiting
<1>4. PbufsConserved /\ LateInv
  BY RxAssumption DEF RxAssumption, Init, PbufsConserved, LateInv
<1> QED
  BY <1>1, <1>2, <1>3, <1>4 DEF IInv

\* The inductive invariant is preserved by every step.
LEMMA StepHolds == IInv /\ [Next]_vars => IInv'
BY TypeStep, ChainStep, OrderStep, PbufStep, LateStep DEF IInv

\* What the inductive invariant is for.
LEMMA InvImplies ==
    IInv => ChainShape /\ InOrderOnce /\ PbufsConserved /\ UnseenOnlyFromExitWindow
<1> SUFFICES ASSUME IInv
             PROVE  ChainShape /\ InOrderOnce /\ PbufsConserved /\ UnseenOnlyFromExitWindow
  OBVIOUS
<1>1. InOrderOnce
  BY DEF IInv, OrderInv, FrameInHand, InOrderOnce
<1>2. UnseenOnlyFromExitWindow
  BY DEF IInv, LateInv, UnseenOnlyFromExitWindow
<1> QED
  BY <1>1, <1>2 DEF IInv, ChainInv

-----------------------------------------------------------------------------
(* The theorems. *)

\* The descriptors, the state of the DMA and the variables of ETH_IRQHandler
\* keep their types, for every number of descriptors >= 2 (lan8720.c:170-216).
THEOREM RxTypeCorrect == Spec => []TypeOK
<1>1. IInv => TypeOK
  BY DEF IInv
<1> QED
  BY InitHolds, StepHolds, <1>1, PTL DEF Spec

\* The CPU owns one contiguous part of the chain, which ends where the DMA is,
\* for every number of descriptors >= 2 (lan8720.c:188-216, ethernetif.c:129).
THEOREM RxChainIsSound == Spec => []ChainShape
BY InitHolds, StepHolds, InvImplies, PTL DEF Spec

\* Frames reach lwIP in the order of the wire, each at most once
\* (lan8720.c:179-182).
THEOREM RxDeliversInOrder == Spec => []InOrderOnce
BY InitHolds, StepHolds, InvImplies, PTL DEF Spec

\* No pbuf is lost between the pool, the handler and lwIP, also when
\* low_level_input finds none or lwIP refuses the frame (ethernetif.c:141-158).
THEOREM RxConservesPbufs == Spec => []PbufsConserved
BY InitHolds, StepHolds, InvImplies, PTL DEF Spec

\* A frame is overlooked only if it was stored between the handler's last look
\* at the chain and its clearing of NIS (lan8720.c:179-184).
THEOREM RxOverlooksOnlyInExitWindow == Spec => []UnseenOnlyFromExitWindow
BY InitHolds, StepHolds, InvImplies, PTL DEF Spec
=============================================================================
