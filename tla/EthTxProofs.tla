---------------------------- MODULE EthTxProofs ----------------------------
(***************************************************************************)
(* Theorems about frame transmission from both contexts, for every length  *)
(* of the descriptor chain and any number of frames.                       *)
(***************************************************************************)
EXTENDS EthTx, FiniteSetTheorems, TLAPS

\* At most one context is inside low_level_output.
Alone == \A c, d \in Contexts : pc[c] # "idle" /\ pc[d] # "idle" => c = d

PCs == {"idle", "copy", "copying", "check", "setLen", "setOwn", "resume",
        "advance"}

\* Type correctness of the chain, the DMA and the sender.
TypeInv ==
    /\ own \in [Desc -> {"dma", "cpu"}]
    /\ buf \in [Desc -> Nat] /\ len \in [Desc -> Nat]
    /\ dma \in Desc /\ set \in Desc
    /\ handed \in Nat
    /\ dmaState \in {"run", "fetched", "suspended"} /\ tbus \in BOOLEAN
    /\ overlapped \in BOOLEAN /\ early \in BOOLEAN
    /\ pc \in [Contexts -> PCs]
    /\ frame \in [Contexts -> Nat]
    /\ buffer \in [Contexts -> Desc] /\ desc \in [Contexts -> Desc]

\* What the sender at its place in the code can rely on: the descriptor it
\* works with is DMATxDescToSet, it belongs to the CPU once OWN was looked at,
\* and its buffer holds the frame.
SenderInv ==
    \A c \in Contexts :
        /\ pc[c] # "idle" => buffer[c] = set
        /\ pc[c] \in {"setLen", "setOwn", "resume", "advance"} => desc[c] = set
        /\ pc[c] \in {"setLen", "setOwn"} => own[set] = "cpu"
        /\ pc[c] = "copying" => buf[set] = 0
        /\ pc[c] \in {"check", "setLen", "setOwn"} => buf[set] = frame[c]
        /\ pc[c] = "setOwn" => len[set] = frame[c]
        /\ pc[c] \in {"copying", "check"} /\ ~hitFull => own[set] = "cpu"

\* A frame is on the wire or lies whole in front of the DMA.
Intact(f) == \/ f \in sent
             \/ \E i \in Desc : own[i] = "dma" /\ buf[i] = f /\ len[i] = f

\* The promise of ERR_OK holds from the setting of OWN on.
IntactInv ==
    ~hitFull =>
        /\ \A f \in accepted : Intact(f)
        /\ \A c \in Contexts : pc[c] \in {"resume", "advance"} => Intact(frame[c])

\* The chain as ChainShape has it.
Chained ==
    \E k \in 0 .. TxBufNb :
        /\ \A i \in Desc : own[i] = "dma" <=> Dist(dma, i) < k
        /\ IF k = TxBufNb THEN Newest = dma ELSE Dist(dma, Newest) = k

\* TBUS tells that the DMA is suspended.  A frame it has looked past is one
\* whose sender is still to test TBUS, or has tested it too early.
WakeInv ==
    /\ tbus <=> dmaState = "suspended"
    /\ dmaState # "run" /\ own[dma] = "dma" =>
          early \/ \E c \in Contexts : pc[c] = "resume"

IInv ==
    /\ TypeInv
    /\ ~overlapped => Alone /\ SenderInv /\ Chained /\ IntactInv

-----------------------------------------------------------------------------

\* Positions in the chain of transmit descriptors.
LEMMA Chain ==
    /\ TxBufNb \in Nat /\ TxBufNb >= 2
    /\ \A i \in Desc : NextDesc(i) \in Desc /\ NextDesc(i) # i
    /\ \A i, j \in Desc : Dist(i, j) \in 0 .. (TxBufNb - 1)
    /\ 0 \in Desc
BY TxAssumption DEF TxAssumption, Desc, NextDesc, Dist

\* Two descriptors at the same distance are the same.
LEMMA DistInjective ==
    ASSUME NEW d \in Desc, NEW i \in Desc, NEW j \in Desc, Dist(d, i) = Dist(d, j)
    PROVE  i = j
BY TxAssumption DEF TxAssumption, Desc, Dist

\* Every descriptor comes one nearer when the DMA moves on, but the one it
\* leaves, which is then the farthest.
LEMMA DistNext ==
    ASSUME NEW d \in Desc, NEW i \in Desc
    PROVE  /\ Dist(d, d) = 0
           /\ i = d => Dist(NextDesc(d), i) = TxBufNb - 1
           /\ i # d => Dist(NextDesc(d), i) = Dist(d, i) - 1
BY TxAssumption DEF TxAssumption, Desc, Dist, NextDesc

\* Every step keeps the types.
LEMMA TypeStep == TypeInv /\ [Next]_vars => TypeInv'
<1> SUFFICES ASSUME TypeInv, [Next]_vars PROVE TypeInv'
  OBVIOUS
<1> USE Chain DEF TypeInv, PCs, Goto, chainVars, dmaVars, cpuVars, history
<1>1. ASSUME NEW c \in Contexts, Output(c) PROVE TypeInv'
  BY <1>1 DEF Output
<1>2. ASSUME NEW c \in Contexts, CopyBegin(c) PROVE TypeInv'
  BY <1>2 DEF CopyBegin
<1>3. ASSUME NEW c \in Contexts, CopyEnd(c) PROVE TypeInv'
  BY <1>3 DEF CopyEnd
<1>4. ASSUME NEW c \in Contexts, CheckOwn(c) PROVE TypeInv'
  BY <1>4 DEF CheckOwn
<1>5. ASSUME NEW c \in Contexts, SetLen(c) PROVE TypeInv'
  BY <1>5 DEF SetLen, Current
<1>6. ASSUME NEW c \in Contexts, SetOwn(c) PROVE TypeInv'
  BY <1>6 DEF SetOwn, Current
<1>7. ASSUME NEW c \in Contexts, ResumeTx(c) PROVE TypeInv'
  BY <1>7 DEF ResumeTx
<1>8. ASSUME NEW c \in Contexts, Advance(c) PROVE TypeInv'
  BY <1>8 DEF Advance, Current
<1>9. CASE DmaSend
  BY <1>9 DEF DmaSend
<1>10. CASE DmaFetchBusy \/ DmaSuspend
  BY <1>10 DEF DmaFetchBusy, DmaSuspend
<1>11. CASE UNCHANGED vars
  BY <1>11 DEF vars
<1> QED
  BY <1>1, <1>2, <1>3, <1>4, <1>5, <1>6, <1>7, <1>8, <1>9, <1>10, <1>11
  DEF Next, low_level_output

-----------------------------------------------------------------------------

\* A context enters low_level_output outside any other, or overlapped is set.
LEMMA AloneStep ==
    TypeInv /\ Alone /\ [Next]_vars /\ ~overlapped' => Alone'
<1> SUFFICES ASSUME TypeInv, Alone, [Next]_vars, ~overlapped' PROVE Alone'
  OBVIOUS
<1> USE DEF TypeInv, Alone, At, Goto, cpuVars
<1>1. ASSUME NEW c \in Contexts, Output(c) PROVE Alone'
  BY <1>1 DEF Output
<1>2. ASSUME NEW c \in Contexts, low_level_output(c) PROVE Alone'
  <2>1. pc[c] # "idle" /\ \E l \in PCs : pc' = [pc EXCEPT ![c] = l]
    BY <1>2 DEF low_level_output, CopyBegin, CopyEnd, CheckOwn, SetLen, SetOwn,
       ResumeTx, Advance, PCs
  <2> QED
    BY <2>1
<1>3. CASE DmaSend \/ DmaFetchBusy \/ DmaSuspend \/ UNCHANGED vars
  BY <1>3 DEF DmaSend, DmaFetchBusy, DmaSuspend, vars
<1> QED
  BY <1>1, <1>2, <1>3 DEF Next

\* While one context sends, the other is outside low_level_output.
LEMMA OthersIdle ==
    ASSUME TypeInv, Alone, ~overlapped', NEW c \in Contexts,
           Output(c) \/ low_level_output(c)
    PROVE  \A d \in Contexts : d # c => pc[d] = "idle" /\ pc'[d] = "idle"
<1> USE DEF TypeInv, At, Goto
<1>1. CASE Output(c)
  BY <1>1 DEF Output
<1>2. CASE low_level_output(c)
  <2>1. pc[c] # "idle" /\ \E l \in PCs : pc' = [pc EXCEPT ![c] = l]
    BY <1>2 DEF low_level_output, CopyBegin, CopyEnd, CheckOwn, SetLen, SetOwn,
       ResumeTx, Advance, PCs
  <2> QED
    BY <2>1 DEF Alone
<1> QED
  BY <1>1, <1>2

\* Overlapping is not forgotten.
LEMMA OverlapStays == [Next]_vars /\ overlapped => overlapped'
BY DEF Next, low_level_output, Output, CopyBegin, CopyEnd, CheckOwn, SetLen,
   SetOwn, ResumeTx, Advance, DmaSend, DmaFetchBusy, DmaSuspend, vars, history

\* The sender keeps its place (ethernetif.c:91-105, lan8720.c:219-240); the
\* DMA never takes a descriptor from it.
LEMMA SenderStep ==
    TypeInv /\ Alone /\ SenderInv /\ [Next]_vars /\ ~overlapped' => SenderInv'
<1> SUFFICES ASSUME TypeInv, Alone, SenderInv, [Next]_vars, ~overlapped'
             PROVE  SenderInv'
  OBVIOUS
<1> USE Chain DEF TypeInv, PCs, SenderInv, Alone, At, Goto, chainVars, dmaVars,
    cpuVars, history
<1>1. ASSUME NEW c \in Contexts, Output(c) PROVE SenderInv'
  BY <1>1 DEF Output
<1>2. ASSUME NEW c \in Contexts, CopyBegin(c) PROVE SenderInv'
  <2>1. pc'[c] = "copying" /\ buffer[c] = set /\ UNCHANGED <<own, set, buffer>>
    BY <1>2 DEF CopyBegin
  <2>2. buf'[set] = 0
    BY <1>2, <2>1 DEF CopyBegin
  <2>3. ~hitFull' => own[set] # "dma"
    BY <1>2, <2>1 DEF CopyBegin
  <2>4. \A d \in Contexts : d # c => pc'[d] = "idle"
    BY <1>2, OthersIdle DEF low_level_output
  <2> QED
    BY <2>1, <2>2, <2>3, <2>4
<1>3. ASSUME NEW c \in Contexts, CopyEnd(c) PROVE SenderInv'
  BY <1>3 DEF CopyEnd
<1>4. ASSUME NEW c \in Contexts, CheckOwn(c) PROVE SenderInv'
  BY <1>4 DEF CheckOwn
<1>5. ASSUME NEW c \in Contexts, SetLen(c) PROVE SenderInv'
  BY <1>5 DEF SetLen, Current
<1>6. ASSUME NEW c \in Contexts, SetOwn(c) PROVE SenderInv'
  BY <1>6 DEF SetOwn, Current
<1>7. ASSUME NEW c \in Contexts, ResumeTx(c) PROVE SenderInv'
  BY <1>7 DEF ResumeTx
<1>8. ASSUME NEW c \in Contexts, Advance(c) PROVE SenderInv'
  BY <1>8 DEF Advance, Current
<1>9. CASE DmaSend
  BY <1>9 DEF DmaSend
<1>10. CASE DmaFetchBusy \/ DmaSuspend
  BY <1>10 DEF DmaFetchBusy, DmaSuspend
<1>11. CASE UNCHANGED vars
  BY <1>11 DEF vars
<1> QED
  BY <1>1, <1>2, <1>3, <1>4, <1>5, <1>6, <1>7, <1>8, <1>9, <1>10, <1>11
  DEF Next, low_level_output

-----------------------------------------------------------------------------

\* Steps that leave the OWN bits, the DMA's descriptor and the end of its part
\* of the chain alone.
LEMMA ChainQuiet ==
    ASSUME Chained, UNCHANGED <<own, dma>>, Newest' = Newest
    PROVE  Chained'
BY DEF Chained, Dist

\* Every step keeps the DMA's descriptors in one piece.
LEMMA ChainStep ==
    TypeInv /\ Alone /\ SenderInv /\ Chained /\ [Next]_vars /\ ~overlapped'
        => Chained'
<1> SUFFICES ASSUME TypeInv, Alone, SenderInv, Chained, [Next]_vars, ~overlapped'
             PROVE  Chained'
  OBVIOUS
<1>0. PICK k \in 0 .. TxBufNb :
        /\ \A i \in Desc : own[i] = "dma" <=> Dist(dma, i) < k
        /\ IF k = TxBufNb THEN Newest = dma ELSE Dist(dma, Newest) = k
  BY DEF Chained
<1>1. ASSUME NEW c \in Contexts, SetOwn(c) PROVE Chained'
  <2>0. /\ pc[c] = "setOwn" /\ pc'[c] = "resume" /\ desc[c] = set
        /\ own[set] = "cpu" /\ UNCHANGED <<set, dma>>
    BY <1>1 DEF SetOwn, SenderInv, TypeInv, At, Goto, dmaVars
  <2>1. /\ Newest = set /\ own[set] = "cpu"
        /\ own' = [own EXCEPT ![set] = "dma"] /\ dma' = dma
        /\ Newest' = NextDesc(set)
    <3>1. own' = [own EXCEPT ![set] = "dma"]
      BY <1>1, <2>0 DEF SetOwn, Current
    <3>2. Newest = set
      BY <2>0 DEF Newest, Alone
    <3>3. Newest' = NextDesc(set)
      BY <2>0 DEF Newest, NextDesc
    <3> QED
      BY <2>0, <3>1, <3>2, <3>3
  <2>2. k < TxBufNb /\ Dist(dma, set) = k
    BY <1>0, <2>1, Chain DEF TypeInv
  <2>3. \A i \in Desc : own'[i] = "dma" <=> Dist(dma, i) < k + 1
    <3> SUFFICES ASSUME NEW i \in Desc
                 PROVE  own'[i] = "dma" <=> Dist(dma, i) < k + 1
      OBVIOUS
    <3>1. CASE i = set
      BY <2>1, <2>2, <3>1 DEF TypeInv
    <3>2. CASE i # set
      <4>1. Dist(dma, i) # k
        BY <2>2, <3>2, DistInjective DEF TypeInv
      <4>2. own'[i] = own[i] /\ Dist(dma, i) \in Int
        BY <2>1, <3>2, Chain DEF TypeInv
      <4> QED
        BY <1>0, <4>1, <4>2
    <3> QED
      BY <3>1, <3>2
  <2>4. IF k + 1 = TxBufNb THEN NextDesc(set) = dma
                           ELSE Dist(dma, NextDesc(set)) = k + 1
    BY <2>2, Chain DEF TypeInv, Dist, Desc, NextDesc
  <2> QED
    BY <2>1, <2>2, <2>3, <2>4, Chain DEF Chained, Dist
<1>2. CASE DmaSend
  <2>1. /\ own[dma] = "dma" /\ own' = [own EXCEPT ![dma] = "cpu"]
        /\ dma' = NextDesc(dma) /\ Newest' = Newest
    BY <1>2 DEF DmaSend, cpuVars, Newest, NextDesc
  <2>2. k > 0 /\ Newest \in Desc
    BY <1>0, <2>1, Chain DEF TypeInv, Newest
  <2>3. \A i \in Desc : own'[i] = "dma" <=> Dist(NextDesc(dma), i) < k - 1
    <3> SUFFICES ASSUME NEW i \in Desc
                 PROVE  own'[i] = "dma" <=> Dist(NextDesc(dma), i) < k - 1
      OBVIOUS
    <3>1. dma \in Desc /\ (own[i] = "dma" <=> Dist(dma, i) < k)
      BY <1>0 DEF TypeInv
    <3>2. CASE i = dma
      <4>1. own'[i] = "cpu"
        BY <2>1, <3>1, <3>2 DEF TypeInv
      <4>2. Dist(NextDesc(dma), i) = TxBufNb - 1
        BY <3>1, <3>2, DistNext
      <4> QED
        BY <4>1, <4>2, Chain
    <3>3. CASE i # dma
      <4>1. own'[i] = own[i]
        BY <2>1, <3>3 DEF TypeInv
      <4>2. Dist(NextDesc(dma), i) = Dist(dma, i) - 1 /\ Dist(dma, i) \in Int
        BY <3>1, <3>3, DistNext, Chain
      <4> QED
        BY <3>1, <4>1, <4>2, Chain
    <3> QED
      BY <3>2, <3>3
  <2>4. Dist(NextDesc(dma), Newest) = k - 1
    <3>1. dma \in Desc
      BY DEF TypeInv
    <3>2. CASE Newest = dma
      <4>1. Dist(NextDesc(dma), Newest) = TxBufNb - 1 /\ Dist(dma, dma) = 0
        BY <3>1, <3>2, DistNext
      <4> QED
        BY <1>0, <2>2, <3>2, <4>1, Chain
    <3>3. CASE Newest # dma
      <4>1. Dist(NextDesc(dma), Newest) = Dist(dma, Newest) - 1
        BY <2>2, <3>1, <3>3, DistNext
      <4> QED
        BY <1>0, <3>3, <4>1
    <3> QED
      BY <3>2, <3>3
  <2>5. k - 1 \in 0 .. TxBufNb /\ k - 1 # TxBufNb
    BY <2>2, Chain
  <2> QED
    BY <2>1, <2>3, <2>4, <2>5 DEF Chained, Dist
<1>3. ASSUME NEW c \in Contexts, Advance(c) PROVE Chained'
  <2>1. Newest' = Newest /\ UNCHANGED <<own, dma>>
    BY <1>3 DEF Advance, Current, Newest, SenderInv, Alone, TypeInv, At, Goto,
       chainVars, dmaVars, NextDesc
  <2> QED
    BY <2>1, ChainQuiet
<1>4. ASSUME NEW c \in Contexts,
             \/ Output(c) \/ CopyBegin(c) \/ CopyEnd(c) \/ CheckOwn(c)
             \/ SetLen(c) \/ ResumeTx(c)
      PROVE  Chained'
  <2>1. UNCHANGED <<own, dma, set>>
    BY <1>4 DEF Output, CopyBegin, CopyEnd, CheckOwn, SetLen, ResumeTx, chainVars,
       dmaVars
  <2>2. pc'[c] \in {"resume", "advance"} <=> pc[c] \in {"resume", "advance"}
    BY <1>4 DEF Output, CopyBegin, CopyEnd, CheckOwn, SetLen, ResumeTx, At, Goto,
       TypeInv
  <2>3. \A d \in Contexts : d # c => pc[d] = "idle" /\ pc'[d] = "idle"
    BY <1>4, OthersIdle DEF low_level_output
  <2>4. Newest' = Newest
    BY <2>1, <2>2, <2>3 DEF Newest, NextDesc
  <2> QED
    BY <2>1, <2>4, ChainQuiet
<1>5. CASE DmaFetchBusy \/ DmaSuspend \/ UNCHANGED vars
  <2>1. UNCHANGED <<own, dma, set, pc>>
    BY <1>5 DEF DmaFetchBusy, DmaSuspend, vars, chainVars, cpuVars
  <2> QED
    BY <2>1, ChainQuiet DEF Newest, NextDesc
<1> QED
  BY <1>1, <1>2, <1>3, <1>4, <1>5 DEF Next, low_level_output

-----------------------------------------------------------------------------

\* A frame stays intact when what was sent and the DMA's descriptors do.
LEMMA IntactKept ==
    ASSUME NEW f, Intact(f), sent \subseteq sent',
           \A i \in Desc : own[i] = "dma" =>
               own'[i] = "dma" /\ buf'[i] = buf[i] /\ len'[i] = len[i]
    PROVE  Intact(f)'
BY DEF Intact

\* Every step keeps the frames intact until the chain was full.
LEMMA IntactStep ==
    TypeInv /\ Alone /\ SenderInv /\ IntactInv /\ [Next]_vars /\ ~overlapped'
        => IntactInv'
<1> SUFFICES ASSUME TypeInv, Alone, SenderInv, IntactInv, [Next]_vars,
                    ~overlapped', ~hitFull'
             PROVE  IntactInv'
  BY DEF IntactInv
<1>0. ~hitFull
  BY DEF Next, low_level_output, Output, CopyBegin, CopyEnd, CheckOwn, SetLen,
     SetOwn, ResumeTx, Advance, DmaSend, DmaFetchBusy, DmaSuspend, vars, history
<1>1. ASSUME NEW c \in Contexts, Output(c) \/ CheckOwn(c) PROVE IntactInv'
  <2>1. UNCHANGED <<own, buf, len, sent, accepted>>
    BY <1>1 DEF Output, CheckOwn, chainVars, history
  <2>2. pc'[c] \notin {"resume", "advance"}
    BY <1>1 DEF Output, CheckOwn, Goto, TypeInv
  <2>3. \A d \in Contexts : d # c => pc'[d] = "idle"
    BY <1>1, OthersIdle DEF low_level_output
  <2> QED
    BY <1>0, <2>1, <2>2, <2>3, IntactKept DEF IntactInv
<1>2. ASSUME NEW c \in Contexts, CopyBegin(c) \/ CopyEnd(c) PROVE IntactInv'
  <2>1. buffer[c] = set /\ own[set] = "cpu"
    BY <1>0, <1>2 DEF CopyBegin, CopyEnd, At, SenderInv, TypeInv
  <2>2. /\ UNCHANGED <<own, len, sent, accepted>>
        /\ \A i \in Desc : own[i] = "dma" => buf'[i] = buf[i]
    BY <1>2, <2>1 DEF CopyBegin, CopyEnd, history, TypeInv
  <2>3. pc'[c] \notin {"resume", "advance"}
    BY <1>2 DEF CopyBegin, CopyEnd, Goto, TypeInv
  <2>4. \A d \in Contexts : d # c => pc'[d] = "idle"
    BY <1>2, OthersIdle DEF low_level_output
  <2> QED
    BY <1>0, <2>2, <2>3, <2>4, IntactKept DEF IntactInv
<1>3. ASSUME NEW c \in Contexts, SetLen(c) PROVE IntactInv'
  <2>1. desc[c] = set /\ own[set] = "cpu"
    BY <1>3 DEF SetLen, At, SenderInv
  <2>2. /\ UNCHANGED <<own, buf, sent, accepted>>
        /\ \A i \in Desc : own[i] = "dma" => len'[i] = len[i]
    BY <1>3, <2>1 DEF SetLen, Current, history, TypeInv
  <2>3. pc'[c] \notin {"resume", "advance"}
    BY <1>3 DEF SetLen, Goto, TypeInv
  <2>4. \A d \in Contexts : d # c => pc'[d] = "idle"
    BY <1>3, OthersIdle DEF low_level_output
  <2> QED
    BY <1>0, <2>2, <2>3, <2>4, IntactKept DEF IntactInv
<1>4. ASSUME NEW c \in Contexts, SetOwn(c) PROVE IntactInv'
  <2>1. desc[c] = set /\ buf[set] = frame[c] /\ len[set] = frame[c]
    BY <1>4 DEF SetOwn, At, SenderInv
  <2>2. /\ UNCHANGED <<buf, len, sent, accepted, frame>>
        /\ own' = [own EXCEPT ![set] = "dma"]
    BY <1>4, <2>1 DEF SetOwn, Current, history
  <2>3. Intact(frame[c])'
    BY <2>1, <2>2 DEF Intact, TypeInv
  <2>4. \A f \in accepted : Intact(f)'
    BY <1>0, <2>2, IntactKept DEF IntactInv, TypeInv
  <2>5. \A d \in Contexts : d # c => pc'[d] = "idle"
    BY <1>4, OthersIdle DEF low_level_output
  <2> QED
    BY <2>2, <2>3, <2>4, <2>5 DEF IntactInv
<1>5. ASSUME NEW c \in Contexts, ResumeTx(c) PROVE IntactInv'
  <2>1. UNCHANGED <<own, buf, len, sent, accepted, frame>> /\ pc[c] = "resume"
    BY <1>5 DEF ResumeTx, At, chainVars, history
  <2>2. \A d \in Contexts : d # c => pc'[d] = "idle"
    BY <1>5, OthersIdle DEF low_level_output
  <2> QED
    BY <1>0, <2>1, <2>2, IntactKept DEF IntactInv
<1>6. ASSUME NEW c \in Contexts, Advance(c) PROVE IntactInv'
  <2>1. /\ UNCHANGED <<own, buf, len, sent>> /\ pc[c] = "advance"
        /\ accepted' = accepted \cup {frame[c]} /\ pc'[c] = "idle"
    BY <1>6 DEF Advance, At, Goto, chainVars, TypeInv
  <2>2. \A f \in accepted' : Intact(f)
    BY <1>0, <2>1 DEF IntactInv
  <2>3. \A d \in Contexts : d # c => pc'[d] = "idle"
    BY <1>6, OthersIdle DEF low_level_output
  <2> QED
    BY <2>1, <2>2, <2>3, IntactKept DEF IntactInv
<1>7. CASE DmaSend
  <2>1. /\ UNCHANGED <<buf, len, accepted, frame, pc>>
        /\ own' = [own EXCEPT ![dma] = "cpu"]
        /\ sent' = IF buf[dma] = len[dma] THEN sent \cup {buf[dma]} ELSE sent
    BY <1>7 DEF DmaSend, cpuVars
  <2>2. ASSUME NEW f, Intact(f) PROVE Intact(f)'
    <3>1. CASE f \in sent
      BY <2>1, <3>1 DEF Intact
    <3>2. ASSUME NEW i \in Desc, own[i] = "dma", buf[i] = f, len[i] = f
          PROVE Intact(f)'
      BY <2>1, <3>2 DEF Intact, TypeInv
    <3> QED
      BY <2>2, <3>1, <3>2 DEF Intact
  <2> QED
    BY <1>0, <2>1, <2>2 DEF IntactInv
<1>8. CASE DmaFetchBusy \/ DmaSuspend \/ UNCHANGED vars
  <2>1. UNCHANGED <<own, buf, len, sent, accepted, frame, pc>>
    BY <1>8 DEF DmaFetchBusy, DmaSuspend, vars, chainVars, cpuVars, history
  <2> QED
    BY <1>0, <2>1, IntactKept DEF IntactInv
<1> QED
  BY <1>1, <1>2, <1>3, <1>4, <1>5, <1>6, <1>7, <1>8 DEF Next, low_level_output

-----------------------------------------------------------------------------
(* The theorems. *)

\* After ETH_DMATxDescChainInit everything is the CPU's.
LEMMA InitHolds == Init => IInv
<1> SUFFICES ASSUME Init PROVE IInv
  OBVIOUS
<1>1. TypeInv /\ Alone /\ SenderInv /\ IntactInv
  BY Chain DEF Init, TypeInv, PCs, Alone, SenderInv, IntactInv
<1>2. Newest = 0 /\ dma = 0 /\ \A i \in Desc : own[i] # "dma"
  BY DEF Init, Newest
<1>3. 0 \in 0 .. TxBufNb /\ 0 # TxBufNb /\ Dist(0, 0) = 0
      /\ \A i \in Desc : ~(Dist(0, i) < 0)
  BY Chain DEF Dist
<1>4. Chained
  BY <1>2, <1>3 DEF Chained
<1> QED
  BY <1>1, <1>4 DEF IInv

\* The invariant is inductive for both contexts.
LEMMA Inductive == IInv /\ [Next]_vars => IInv'
BY TypeStep, AloneStep, OverlapStays, SenderStep, ChainStep, IntactStep DEF IInv

\* A buffer that lwIP writes to belongs to the DMA only if the whole chain
\* does.
LEMMA FullChain ==
    ASSUME IInv, ~overlapped, NEW c \in Contexts,
           pc[c] = "copy", own[buffer[c]] = "dma"
    PROVE  Cardinality({i \in Desc : own[i] = "dma"}) = TxBufNb
<1>1. Newest = set /\ own[set] = "dma" /\ set \in Desc /\ dma \in Desc
  BY DEF IInv, SenderInv, TypeInv, Newest, Alone
<1>2. PICK k \in 0 .. TxBufNb :
        /\ \A i \in Desc : own[i] = "dma" <=> Dist(dma, i) < k
        /\ IF k = TxBufNb THEN Newest = dma ELSE Dist(dma, Newest) = k
  BY DEF IInv, Chained
<1>3. k = TxBufNb
  BY <1>1, <1>2, Chain
<1>4. {i \in Desc : own[i] = "dma"} = 0 .. (TxBufNb - 1)
  BY <1>1, <1>2, <1>3, Chain DEF Desc
<1>5. 0 \in Int /\ TxBufNb - 1 \in Int /\ ~(0 > TxBufNb - 1)
      /\ (TxBufNb - 1) - 0 + 1 = TxBufNb
  BY Chain
<1>6. Cardinality(0 .. (TxBufNb - 1)) = (TxBufNb - 1) - 0 + 1
  BY <1>5, FS_Interval
<1> QED
  BY <1>4, <1>5, <1>6

\* Whichever contexts send, the DMA's descriptors are exactly those from the
\* one it uses next up to DMATxDescToSet, until the handler sends inside the
\* sending of the main loop (lan8720.c:221-237).
THEOREM TxChainIsSound == Spec => []ChainShape
<1>1. IInv => ChainShape
  BY DEF IInv, Chained, ChainShape
<1> QED
  BY <1>1, InitHolds, Inductive, PTL DEF Spec

\* Whichever contexts send, a frame that was accepted is damaged only by a
\* frame the handler sends inside its sending, or by one handed over while the
\* whole chain is with the DMA (ethernetif.c:96-102).
THEOREM TxIntactUntilFull == Spec => []IntactUntilFull
<1>1. IInv => IntactUntilFull
  BY FullChain DEF IInv, IntactInv, Intact, IntactUntilFull, AcceptedIntact
<1> QED
  BY <1>1, InitHolds, Inductive, PTL DEF Spec

-----------------------------------------------------------------------------
(* The wake-up of the DMA, however the two senders overlap. *)

\* Every step keeps the DMA's sleep explained.
LEMMA WakeStep == TypeInv /\ WakeInv /\ [Next]_vars => WakeInv'
<1> SUFFICES ASSUME TypeInv, WakeInv, [Next]_vars PROVE WakeInv'
  OBVIOUS
<1> USE DEF TypeInv, WakeInv, At, Goto, dmaVars, chainVars, cpuVars
<1>1. ASSUME NEW c \in Contexts,
             \/ Output(c) \/ CopyBegin(c) \/ CopyEnd(c) \/ CheckOwn(c)
             \/ SetLen(c) \/ Advance(c)
      PROVE  WakeInv'
  <2>1. UNCHANGED <<own, dma, dmaState, tbus, early>> /\ pc[c] # "resume"
    BY <1>1 DEF Output, CopyBegin, CopyEnd, CheckOwn, SetLen, Advance
  <2>2. \A d \in Contexts : d # c => pc'[d] = pc[d]
    BY <1>1 DEF Output, CopyBegin, CopyEnd, CheckOwn, SetLen, Advance
  <2> QED
    BY <2>1, <2>2
<1>2. ASSUME NEW c \in Contexts, SetOwn(c) PROVE WakeInv'
  BY <1>2 DEF SetOwn
<1>3. ASSUME NEW c \in Contexts, ResumeTx(c) PROVE WakeInv'
  BY <1>3 DEF ResumeTx
<1>4. CASE DmaSend
  BY <1>4 DEF DmaSend
<1>5. CASE DmaFetchBusy \/ DmaSuspend
  BY <1>5 DEF DmaFetchBusy, DmaSuspend
<1>6. CASE UNCHANGED vars
  BY <1>6 DEF vars
<1> QED
  BY <1>1, <1>2, <1>3, <1>4, <1>5, <1>6 DEF Next, low_level_output

\* The DMA sleeps in front of a frame only if ETH_Tx_Packet tested TBUS before
\* the DMA had set it, whichever contexts send and however they overlap; the
\* next frame finds TBUS set (lan8720.c:227-232).
THEOREM TxOversleepsOnlyAfterEarlyTest == Spec => []OversleepsOnlyAfterEarlyTest
<1>1. Init => TypeInv /\ WakeInv
  BY InitHolds DEF IInv, Init, WakeInv
<1>2. TypeInv /\ WakeInv /\ [Next]_vars => (TypeInv /\ WakeInv)'
  BY TypeStep, WakeStep
<1>3. WakeInv => OversleepsOnlyAfterEarlyTest
  BY DEF WakeInv, OversleepsOnlyAfterEarlyTest
<1> QED
  BY <1>1, <1>2, <1>3, PTL DEF Spec
=============================================================================
