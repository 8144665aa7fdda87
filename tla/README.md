# Verification of the STM32F407ZGT6 firmware template

TLA+ modules for the firmware under `src/Application`, TLC configurations that
check them on small instances, and TLAPS proofs for every value of the
constants. `PROJECT.json` lists components, runs, mutants, the map from
definitions to source lines, findings, hazards and theorems.

## 1. The system

A bare-metal program for an STM32F407 board. `main()` (`Users/Main/src/main.c`)
sets the board up, waits in `lwip_app_init` for an IP address, opens a TCP
client and then calls `sys_check_timeouts()` for ever. There is no operating
system: two execution contexts share the stack, the **main loop** and
**interrupt handlers**. `ETH_IRQHandler` has the highest priority, runs lwIP's
input functions to the end, and can preempt the main loop at any instruction.
A third actor is the **Ethernet DMA**, which works on the descriptor chains in
memory in parallel to both.

| Component | State | Operations | Correct when |
|---|---|---|---|
| Block allocator, `malloc.c` | `memrdy`, `memmap`, `membase` per pool | `my_mem_init`, `mymalloc`, `myfree`, `myrealloc` | objects never overlap; the length found in the table at `myfree` is the length of that object; nothing leaks |
| Frame reception, `lan8720.c`, `ethernetif.c` | Rx descriptors, `DMARxDescToGet`, DMASR, pbuf pool | `ETH_IRQHandler`, `ETH_Rx_Packet`, `low_level_input`, `ethernetif_input` | DMA and handler agree on ownership; frames in order and once; no pbuf lost; no frame stuck |
| Frame transmission, same files | Tx descriptors, `DMATxDescToSet` | `low_level_output`, `ETH_Tx_Packet` | an accepted frame goes out unchanged; no lost wake-up |
| Address configuration, `lwip_app_comm.c`, `dhcp.c`, `autoip.c` | `stcLwipObject`, `lwip_netif`, `struct dhcp`, `struct autoip` | boot loop, DHCP and AutoIP timers, DHCP and ARP messages | the boot ends with an address; DHCP is given up only when it is silent; no link-local address without probing, none in place of a lease |
| Start-up of the MAC, `LAN8720_Init` | the four heap pointers | `ETH_Mem_Malloc`, `ETH_Mem_Free` | a failed allocation is noticed |
| Clock and timers, `timer.c`, `lwip_periodic_handle`, `timeouts.c` | `lwip_sys_timer`, four time stamps, the timeout list and its pool, the TCP timer's flag | TIM3 handler, the boot loop's polling, `sys_check_timeouts`, cyclic and on-demand timers | no timer lost, none early, none starved, over the wrap of the counter |
| ARP, `etharp.c` | the table, a packet queue per entry, the pool of queue elements, the cached index | timer, input, output, query | packets go to the right host, in order and once; entries unique and fresh; no packet waits for ever |
| TCP client, `lwip_app_tcp.c` | `tcpStatus`, the pcb, pbufs | connect, recv, sent, poll, error callbacks | each reception answered once; pbufs freed once; closed connections given up |
| UDP application, `lwip_app_udp.c` | `udpstatus`, the pcb | init, receive callback, client step, close | no reception lost; the pcb removed once |
| LCD events, `tftlcd_event.c` | cycle and once slots | register, log out, priorities, process | slots never overrun; order by priority |
| UART, SPI, DMA, CAN, I2C, EEPROM, keys | buffers, indices, flags | handlers and blocking calls | indices in bounds; waits end; flags cleared |
| FatFs disk layer, USB host application | `USB_Manage`, disk status | `disk_*`, host callbacks | errors reported; state follows the device |
| lwIP, FatFs, USB and CanFestival cores, peripheral library, boot loader tool | | | third-party, or no logic |

Interactions: the allocator provides the descriptor chains; the MAC interrupt
drives lwIP, whose output functions call back into transmission; DHCP messages
reach the client through reception while the boot loop polls it; TIM3's counter
drives the boot loop and then lwIP's timeouts, which drive ARP, DHCP and the
TCP client's poll; every packet that leaves goes through ARP to transmission.

The hard behaviours are the interleavings of the DMA, the handler and the main
loop (the code uses no locks and no critical sections), full chains and empty
pools, interrupt flags cleared after the last look, a wrapping clock, timers
that have to re-arm themselves, answers that come late or never, and the DHCP
client that outlives the loop that started it. `PROJECT.json` lists the hazards at their
lines.

## 2. Modules

| Module | Models |
|---|---|
| `Heap` | abstract specification of an allocator: sets of objects, no table |
| `MemPool` | `malloc.c`, for any pools; refines `Heap` |
| `MCMemPool` | the pools of the TLC run |
| `MemPoolProofs` | theorems about `MemPool` |
| `EthRx` | reception: wire, DMA, handler, pbuf pool |
| `EthRxProofs` | theorems about `EthRx` |
| `EthTx` | transmission: the two contexts that send, and the DMA |
| `EthTxProofs` | theorems about `EthTx` |
| `LwipAddress` | boot loop, DHCP and AutoIP clients |
| `MCLwipAddress` | the link-local addresses of the TLC runs |
| `LwipAddressProofs` | theorems about `LwipAddress` |
| `TcpClient` | callbacks of the TCP client in two contexts, the pbuf pool |
| `TcpClientProofs` | theorems about `TcpClient` |
| `TimerService` | abstract specification of timers over true time |
| `Timeouts` | TIM3, boot polling, lwIP's timeout list; refines `TimerService` |
| `MCTimeouts` | the timers of the TLC run |
| `TimeoutsProofs` | theorems about `Timeouts`, the refinement among them |
| `Etharp` | the ARP table, its queues, and its callers in both contexts |
| `EtharpProofs` | theorems about `Etharp` |

Operators whose comment starts with "Mutant" are plausible bugs of the operator
that follows; none of the specifications uses them. Each is listed in
`PROJECT.json` with the property that catches it.

### MemPool and Heap

The table is modelled entry by entry, the pool byte by byte. The state of an
uncleared pool (external SRAM, CCM) before its first use is arbitrary, as the
lazy initialisation in `my_mem_malloc` and `my_mem_free` has to cope with it.
`mymalloc` takes the highest gap, defined declaratively (`IsHighestGap`);
`MallocLoop` is the loop of the code, a recursive function of the block and of
the count so far, and `ScanFindsHighestGap` says that the two agree. `myrealloc` copies the *new* size with the
semantics of an upward byte loop, including the bytes behind a smaller old block
and behind the pool (an arbitrary value). A failing allocation is `mymallocFails`,
which leaves only the initialisation behind; it is also the failing `myrealloc`.
Clients hold the blocks in `live` (a history variable), return each once and
write inside them: double frees and frees of inner pointers are outside the
contract. A 16-bit table entry holds any length because pools have fewer than
65536 blocks (`PoolAssumption`).

### EthRx

A step of the handler is one access to shared state: look at OWN, take the
descriptor, copy, return it, test and clear RBUS, hand over, clear R, clear NIS.
The DMA and the wire interleave with all of them. Frames are numbered in the
order of the wire; a frame takes 1 to `MaxChain` pbufs.

Assumptions about the hardware:
 * the MAC drops error frames and stores and forwards (`lan8720.c:149-154`) and
   a maximal frame fits a buffer, so a filled descriptor has FS and LS and no ES;
 * a suspended DMA looks again when a frame arrives or DMARPDR is written;
 * a fetch of a descriptor and the suspension that follows take less time than
   the copy of a frame (`CopyToPbuf` waits for `"fetched"` to pass). Without
   this a suspension could overtake the return of a whole chain;
 * in the exit window (two register writes) fewer frames arrive than the chain
   has descriptors, `WindowFrames < RxBufNb`: at 100 Mbit/s a minimal frame takes
   about 7 microseconds.

What the window costs is stated exactly: `UnseenOnlyFromExitWindow`. A frame
stored in it waits until the next frame's interrupt.

### EthTx

A sender picks the buffer, copies (with a moment when the copy is half done),
checks OWN, writes the length, sets OWN, resumes the DMA and advances
`DMATxDescToSet`. The pointer is not volatile, so after the first read in
`ETH_Tx_Packet` the compiler may reuse or repeat it: `Current(c)` offers both.
The setting of LS and FS (line 226) is part of setting OWN; the read-modify-write
of line 227 is one step because the descriptor belongs to the CPU then. As in
`EthRx`, the DMA's look at a descriptor that is the CPU's (`DmaFetchBusy`) and
its suspension with TBUS (`DmaSuspend`) are two steps, and a sender may set OWN
and test TBUS between them.

`Contexts` selects who sends; the passing run and the proofs have both, the main
loop and the interrupt handler. The handler can begin to send between any two
steps of the main loop and then finishes first. `overlapped` records that a frame
was sent inside the sending of another: until then the chain is sound, and the
violation run `ethtx_preempted` shows what happens after it. `early` records that
TBUS was tested after the DMA looked and before it suspended, which leaves a frame
waiting until the next one is sent: `OversleepsOnlyAfterEarlyTest` says that there
is no other way to lose a wake-up, `EveryDescriptorReturns` that every descriptor
is sent in all other cases and that the next frame makes up for this one.

### LwipAddress

The boot loop of `lwip_app_init` alternates `dhcp_fine_tmr` and
`lwip_dhcp_process_handle`; after it `sys_check_timeouts` drives the DHCP and
AutoIP timers. A call into lwIP is one step; messages are handled between any
two steps, also between the reading of the address, the reading of
`dhcp->tries` and the decision. The DHCP client keeps its state, the counter
of tries with its reset on a change of state, the offered address and whether
lease timers run (they survive a NAK, as in the code). Request timeouts may
expire at any fine tick. AutoIP probes, announces and defends an address, and
goes on to the next one after a conflict; the count of addresses tried is a byte,
so the addresses form a cycle, of which `LinkLocals` is a short stand-in, and its
waiting times may be over at any tick. `autoip_tmr` is one step too except where
it takes an address into use: the test of the count, the assignment of the state
and that of the address (lines 390 to 396) are separate steps. A message in one
of these gaps sets `raced`: after a conflict there the address that is bound is
the next one, which was never probed, and after an ACK the lease is replaced by
the link-local address. TLC finds both when `~raced` is taken out of
`LinkLocalProbed` and `BoundHasLease`; they are findings 7 and 8. Two things about the code that the
properties have to respect: only in state bound does the interface surely have
the lease, since lease timers that survive a NAK lead from requesting to renewing
without an address; and a NAK also takes away a link-local address, while AutoIP
goes on believing in it. Netmask and gateway follow the address and are left
out, as are option parsing, link changes (`low_level_init` declares the link up
for good) and heap exhaustion.

### TcpClient

The poll callback runs in the main loop and is split at every access to shared
state; the connect, recv, sent and error callbacks run inside `ETH_IRQHandler`
and are one step each, between any two steps of the poll. A call of an lwIP
function is one step. The answer's pbuf comes from the pool that reception uses too; the
free list is a stack as in `memp.c`, and the reference count wraps at its
8 bits. `tcp_output` may send what is written or hold it back. A pcb that lwIP
has freed has the state CLOSED and refuses writes. The branches for
`enTcpClientClose`, `enTcpClientRecvErr` and `enTcpClientSendErr` can never be
taken and have no action. `taken` records that lwIP got the pbuf of an answer
between its two calls of `pbuf_free`: what happens after that is not described
by any property, `PoolSoundUnlessTaken` says that all is well before it.
`seen` is the number of receptions when a poll last found `enTcpClientRecvOK` and
acted on it, `missed` the number when another status was last written over one
that no poll had acted on (`Overwrite`: the acknowledgement at line 191, AckWait
at line 165). `ReceptionAttended` says that on a live connection every reception
ends up in one of the two.

### Timeouts and TimerService

The counter, the times on the list and the time stamps are residues modulo
`Modulus` (2^32 in the firmware). `TIME_LESS_THAN` and `numTimeDelta` are the
code's unsigned expressions; the latter includes the odd reduction modulo
2^32 - 1 of the port. TIM3 interrupts between any two steps of the main code:
`lwip_periodic_handle` reads the counter twice, `sys_check_timeouts` once at its
entry, `lwip_cyclic_timer` again after its handler. An element goes back to the
pool when its timeout fires and is allocated again by the handler. The refinement
mapping turns a residue into the signed distance from the present (`Signed`),
which is right as long as the main code is never held up for more than `MaxLate`
and a period and `MaxLate` together stay below half the counter
(`TimeoutsAssumption`; 24 days in the firmware): time stands still in the model
rather than pass that limit. `TimerService` knows neither list nor wrap: it says
a handler is never early, the longest overdue goes first, a cyclic timer keeps
its rhythm unless it is a whole period late.

TIM3 is started before the Ethernet set-up, so the counter has already advanced
(up to `StartTime`) when `sys_timeouts_init` arms the timers, all in the same
tick, while the time stamps of the boot loop start at 0. A connection may end in any step (a reset in the Ethernet handler)
and another one be opened in the main loop. During the boot no connection
exists, so the handlers that `lwip_periodic_handle` calls do not touch the list.
`PeriodicTickLate` states what the port's difference does: a handler runs when
*more* than its interval has passed, one tick of 10 ms later than the comments
(`lwip_app_comm.c:138` "every 250 ms", `:158` "every 500 ms") say, and never at
distance 0 although the sum wraps there. This deviation is finding 6.

### Etharp

The main loop's calls are split: `etharp_tmr` at every entry, `etharp_output` between
the choice of an entry and its use (the cached index may be read again), and
`etharp_query` after the sweep of the table, at the recycling of a slot, at each
assignment to it, at the test of the state, the allocation of a queue element and
its linking. `FindEntry` is the sweep of `etharp_find_entry` stated as a choice:
the match, else the first empty, else the last of the oldest resolved, pending
without and pending with packets; a sweep is one step. What a host announced
last is the history variable `heard`, from the moment it has an entry until it
loses it. `Transmit` compares every packet that reaches the wire with it, and
with the packets that wait, and records a mistake in `wrong`. Memory for a
request or a copy may be missing at any time (the alternatives of `ToArpIndex`,
`QueryMark` and `QueryElement`). Broadcast and multicast packets bypass the table.
The fields of an empty entry are never read; the model clears them.

lwIP expects calls not to interrupt each other. This port violates that:
`ETH_IRQHandler` runs `etharp_input`, and `etharp_output` for the answers of the
upper layers. Each such call is one step (the handler runs to its end) and can come
between any two steps of the main loop. Many of them do no harm: an answer for the
host being queried before the state is tested, and work on other entries
afterwards. Those that can are recorded in `raced`, by `Disturbs`: the handler
changes the table while the main loop is choosing an entry or has not yet marked
it, works on the entry in hand (except for that answer), takes from or returns to
the pool of queue elements while the main loop is about to do so (`memp.c` is not
protected), or changes the cached index between its comparison and its use. What
the properties claim, they claim up to such a step. `QueryLink` says what can
follow one: an element linked behind a queue that has been freed ends in the free
list of the pool, whose length is anything then. `FollowRaced` tells whether the
handler goes on after it has done harm; the violation run has it go on. `dhcp_check`
is a caller in the main loop here, though it can also run in the handler.

## 3. Runs

| Run | Result | Shows |
|---|---|---|
| `mempool` | pass, 80 676 states | `TableMatchesBlocks`, `ScanFindsHighestGap`, refinement of `Heap` |
| `ethrx` | pass, 104 253 states | `ChainShape`, `InOrderOnce`, `PbufsConserved`, `UnseenOnlyFromExitWindow`; liveness `InterruptDrains`, `FifoDrains` |
| `ethtx` | pass, 810 589 states | both contexts: `ChainShape`, `IntactUntilFull`, `OversleepsOnlyAfterEarlyTest`; liveness `EveryDescriptorReturns` |
| `ethtx_full` | violation | the copy before the check of OWN damages an accepted frame when the chain is full |
| `ethtx_preempted` | violation | two senders share a buffer |
| `lwip_address` | pass, 344 544 states | `LinkLocalProbed`, `BoundHasLease`, `BootLeavesAddress`, `StaticOnlyAfterSilence`; liveness `BootEnds` |
| `lwip_address_static` | violation | the static address does not last, `StaticAddressKept` |
| `tcp_client` | pass, 207 345 states | `PoolSoundUnlessTaken`, `AnsweredAtMostOnce`; liveness `ReceptionAttended` |
| `tcp_client_free` | violation | the answer's pbuf is freed twice, `PbufFreeAssertion` |
| `timers` | pass, 204 537 states | `TimersKept`, `PeriodicTickLate`, refinement of `TimerService`; liveness `CheckReturns`, `TimersServed` |
| `etharp` | pass, 1 096 377 states | both contexts: `OneEntryPerHost`, `QueueOnlyWhilePending`, `ResolvedIsFresh`, `RightHostInOrder`, `QueuePoolConserved`; liveness `NoPacketWaits` |
| `etharp_preempted` | violation | an answer between the test and the append leaves a packet on a stable entry, `StableHasNoQueue` |

Bounds. `mempool`: pools of 3 blocks of 2 bytes (cleared) and 2 blocks of 1 byte
(junk), requests 0 to more than a pool: holes, splitting, exact fits, odd sizes
and failures all occur, and the proofs remove the bound. `ethrx`: 3 descriptors,
2 places in the FIFO, 7 frames, 3 pbufs, chains of up to 2 pbufs: the chain wraps
twice, overruns, and the pool runs dry. `ethtx`: 3 descriptors, two contexts and 5
frames: the chain fills, wraps and is refilled, and a sender meets it full. `lwip_address`: 8 messages, two leases, three
link-local addresses, and the real limits: 4, 5 and 9 for tries, 3 probes, 2
announcements; `TriesCap` stands for 255, where the counter stops,
and only has to lie above the others. `tcp_client`: 3 pbufs and 3 segments, so
that the pool is empty, shared by answer and lwIP, or full at any step of the
poll, and receptions arrive before, during and after an answer; counts wrap
modulo the real 256. `timers`: two cyclic timers with periods 8 and 4 and the
TCP timer, a tick of 4, a delay of up to 16 (several periods, so that overload
happens), a counter modulo 50: it wraps every six periods, at ever different
residues since 50 is no multiple of the tick, and the run is finite without a
bound on time. `etharp`: three hosts for two entries with two hardware
addresses, so that recycling, changes of address and a stale cached index occur;
queues of 2 packets and a pool of 4, 3 packets and one query of the DHCP client,
so that a queue overflows; `MaxAge` 3, `Rerequest` 1 and `MaxPending` 2 for 300, 270
and 5: the age limit is above the other two, as there. The handler acts until it
has done harm once (`FollowRaced`). `MaxPackets` and `MaxChecks` bound the load; the timer goes on.

Deadlock is not checked in the Ethernet and TCP runs: with no more frames or
segments the system rests. In the other runs it is checked.

Fairness. `ethrx`: the handler has the highest priority (weak fairness of its
steps), the DMA keeps running (weak fairness of its three steps); frames need
not arrive and lwIP may keep pbufs for ever. `ethtx`: a sender that has entered
goes on, the DMA keeps running (weak fairness of its three steps); lwIP need not
send. `lwip_address`: TIM3 keeps
counting, so the boot loop keeps calling the fine timer (weak), and an armed
request timeout, which is at most 120 ticks long, expires (strong, as its
expiry is abstracted to a choice); nothing is assumed of the network, whose
messages are finite in number: a server that sent NAKs for ever could keep the
loop going for ever. `tcp_client`: the main loop calls `sys_check_timeouts`, and
with it `tcp_slowtmr` and the poll, for ever (weak fairness of the poll's
steps); nothing is assumed of the peer. `timers`: TIM3 runs and the main code
goes on (weak); that the boot ends is taken from `lwip_address` (strong, because
the loop has to come round to its test). `etharp`: lwIP's timer calls
`etharp_tmr` for ever, which is what `timers` shows, and a call of
the main loop goes on to its end (weak); nobody has to answer.

## 4. Findings

1. `ethernetif.c:99`: `low_level_output` overwrites a frame the DMA has not sent
   yet when the chain is full.
2. `ethernetif.c:96`: a sender in the interrupt handler and one in the main loop
   use the same buffer.
3. `lwip_app_comm.c:223`: giving DHCP up does not stop its client, which later
   changes the address.
4. `lwip_app_tcp.c:167`: after a successful write the pbuf that
   `lwip_app_tcp_client_send_data` has freed is freed again.
5. `etharp.c:1009`: an answer handled in the interrupt handler while
   `etharp_query` is between its test and its append leaves the packet queued on
   a stable entry, against the comment and the assertion at line 364.
6. `lwip_app_comm.c:137`: the elapsed time comes out one less than it is, so the
   boot loop's handlers run one tick of 10 ms later than the comments at lines 138
   and 158 say. `PeriodicTickLate` states the exact rule.
7. `autoip.c:392`: a conflict handled in the interrupt handler between the test of
   the number of probes and the binding makes `autoip_tmr` use the next address,
   which was never probed. Excluded from `LinkLocalProbed` by `~raced`.
8. `autoip.c:393`: a DHCP ACK handled there is followed by the binding of the
   link-local address in place of the lease. Excluded from `BoundHasLease` by
   `~raced`.

Findings 1 to 5 are shown by violation runs, finding 6 by the passing property.

## 5. Proofs

Every safety property that a passing run checks is also a theorem, for every
value of the constants that satisfies the named assumptions: the run shows it on
a small instance, the proof removes the bounds. All of them have the form
`Spec => []P` or `Spec => P` and suppose nothing beyond the assumptions on the
constants. Where the port's interrupt handler can break a property, the property
itself says from which recorded step on (`overlapped`, `raced`, `taken`), and the
theorem covers every behaviour up to it.

`MemPoolProofs`. Invariant: `TypeOK /\ TableMatchesBlocks`, which is inductive:
that held blocks lie in the pool (`BlocksInPool`), apart (`SpansApart`), with
their own length in every entry (`EntriesTellLength`), that no other entry is
non-zero (`NoLeak`) and that a pool in use is ready (`ReadyIfUsed`). No part is
inductive alone: freeing reads the length from the table, so it clears exactly
its own entries only if the entries tell the length; an allocation keeps clear
of the others only if their entries are non-zero. `AllocatorTypeCorrect` and
`TableIsSound` prove the invariant, `AllocatorImplementsHeap` the refinement from
it. Assumptions: `PoolAssumption`, `ValueAssumption`.

`ScanIsRight` needs no invariant of the allocator: it holds for any table. An
induction over the loop is out of the provers' reach, so the argument goes by a
closed form. `Best` is the highest place where n blocks are free when the c
blocks just passed are counted as free. It satisfies the recursion of
`MallocLoop` (`BestRecurs`, by the three cases of the loop's body), so a function
that satisfies the recursion exists and the one the definition chooses does. If
it differed from `Best` anywhere there would be a lowest block at which it does
(`HasSmallest`, from the well-foundedness of the finite subsets of an interval);
but the step at that block only looks at the one below.

`EthRxProofs`. `IInv` strengthens the checked invariants by: the position of the
descriptor being copied relative to `DMARxDescToGet`; the order of all frames
not yet delivered (the frame in hand, those in the chain from the oldest on,
those in the FIFO, then those still to arrive, and all above the last one
delivered); and which part of `late` the handler has already passed.
`RxTypeCorrect`, `RxChainIsSound`, `RxDeliversInOrder`,
`RxConservesPbufs` and `RxOverlooksOnlyInExitWindow` follow. Assumption:
`RxAssumption`.

`EthTxProofs`. Besides the types, `IInv` says, until two sendings overlap: at most
one context is inside `low_level_output` (`Alone`); what it can rely on at each
place in the code (`SenderInv`: its buffer and its descriptor are those of
`DMATxDescToSet`, the descriptor is the CPU's from the check of OWN until it is
given away, and the buffer holds the frame); the chain has its shape; and the
promise of ERR_OK holds already from the setting of OWN on (`IntactInv`).
`SenderInv` needs the shape of the chain: the descriptor the DMA finishes must not
be the one that is being filled, unless the chain was full when the copy began.
`TxChainIsSound` and `TxIntactUntilFull` follow. `TxOversleepsOnlyAfterEarlyTest`
holds however the senders overlap; its invariant `WakeInv` speaks of the DMA from
its look at the descriptor on: a frame it has looked past has a sender that is
still to test TBUS, or that tested it too early. Assumption: `TxAssumption`.

`LwipAddressProofs`. `IInv` has four parts. `CountInv`: the client's counter never
exceeds the number of requests without an answer, although changes of state
reset it, so giving up means silence (`GivesUpAfterSilence`). `BootInv`: during
the boot the interface has an address only if the client is bound, and the loop
takes it into use in the round in which it arrived (`BootHasAddress`).
`OfferInv`: the address that is being checked was offered. `AutoInv`, unless a
message came inside `autoip_tmr`: a bound client has stopped AutoIP, and the
address AutoIP uses, announces or is about to bind was probed often enough
(`LinkLocalIsProbed`, `LeaseIsKept`). That the two clients' addresses cannot be
confused is part of `AddressAssumption`: link-local addresses are neither leases
nor the zero or the static address (169.254/16 is reserved, and `autoip.c` keeps
to it).

`TcpClientProofs`. `IInv` adds three things to the checked invariants. A poll
that has read the status has a reception to answer even if the status has
changed since (`Answering`; `AnsweredAtMostOnce` alone says nothing of such a
poll). pBuff is NULL outside the poll and is not when something was written
(`BuffInPoll`, without which not even `TypeOK` is inductive). Between the two
frees the pbuf is free with no reference or still the poll's own
(`BetweenFrees`), so the second free either only makes the count wrap or returns
the pbuf. `ClientTypeCorrect`, `AnswersHaveReceptions` and `PoolSoundUntilTaken`
follow. Assumption: `TcpAssumption`.

`TimeoutsProofs`, first part. `IInv` is `TypeOK` and `Kept`: the ids on the list
differ from each other and from the one in its handler, every cyclic timer is one
of them, and the TCP timer is exactly when its flag is set. That the pool never
runs dry is the hard part: it follows from the ids being different, by a
pigeonhole argument (an injection from the positions of the list into the timers
that are not in their handler). `TimersAreKept` follows.

Second part: the refinement, `ListImplementsService`. All arithmetic is reduced to
the signed distance of two counter values (`SignedAt`), which is the true
distance as long as that is less than half the counter's range (`Near`,
`WrapsOnce`, `SignedFacts`): it moves by `TickMs` with every tick, and
`TIME_LESS_THAN` compares it. `TimeInv` says what makes it usable: every entry is
at most `MaxLate` overdue and at most its period ahead (`TimesOK`), the list is
sorted by true distance (`SortedAt`, so that the head is the longest overdue), and
the same bounds hold measured from the moment `sys_check_timeouts` read the clock
(`NearNow`), because it compares with that old reading while time goes on. A
handler's timeout was due at that moment, which is what lets `lwip_cyclic_timer`
tell a short delay from a lost period. Then every action maps to a step of
`TimerService` or to a stutter. The proof is step by step: TIM3, arming at the
start, the insertion into the sorted list, firing, the two outcomes of a cyclic
timer, the TCP timer.

Third part: `PeriodicHandlersTickLate`. `StampInv` says that in the boot loop
`elapsed` is the true distance of the clock from the stamp. The port's difference,
offset and reduced by one less than the counter's range, is then 0 at distance 0
and one less than the distance everywhere else, wherever the counter wraps
(`DeltaIsElapsed`), so it reaches the interval exactly when the distance exceeds
it. Assumption of all three: `TimeoutsAssumption`.

`EtharpProofs`, with the handler at any place of the main loop's calls. `IInv` is
`Good` until a step sets `raced`. `Good` adds to the checked invariants: every queue
holds packets for the host of its entry only, in the order they were handed over
(`QueuesInOrder`); and what the main loop's call knows of its entry at each place
(`InHand`: a slot it is taking has no match elsewhere, an entry it is about to use
is stable and has the packet's host, one that gets a packet is pending and its
queue older than the packet, and the queue is empty exactly if it was when
`etharp_query` read it). `InHand` is what a step of the handler can
destroy; every step that does not count as a disturbance preserves it. Uniqueness of entries is
needed for the order (a packet sent at once must not overtake one waiting
elsewhere), and the absence of queues on stable entries for the uniqueness of a
packet's way. `PoolInv` counts the elements of all queues as a finite set of
places, and the one in the hands of `etharp_query`. `HostHasOneEntry`,
`OnlyPendingHasQueue`, `ResolvedEntriesAreFresh`, `PacketsReachTheirHost` and
`QueueElementsConserved` follow. Nothing is proved of what comes after a
disturbance: finding 5 is such a case, and the elements of the pool may be lost
then too. Assumption: `EtharpAssumption`.

Only model-checked: the liveness properties (`InterruptDrains`, `FifoDrains`,
`EveryDescriptorReturns`, `BootEnds`, `ReceptionAttended`, `CheckReturns`,
`TimersServed`, `NoPacketWaits`), because TLAPS does not reason about fairness
here. What the violation runs show is a counterexample and needs no proof.

## 6. Not modelled

Worth proving next: what still holds of ARP and of transmission after the handler
has disturbed a call, and when they have recovered from it.

* Code that is compiled but that `main()` does not start (calls commented out):
  the UDP client, CAN, I2C with EEPROM and MPU6050, the disk layer, the USB host
  application. The LCD event queue has no caller at all.
* `LAN8720_Init` and `ETH_Mem_Malloc`: one sequential call at start-up; the
  allocations are those of `MemPool`, the rest is register set-up.
* The UART, SPI and DMA handlers: one index or flag each. Their faults (the
  unbounded index at `uart.c:109`, the flag of the wrong controller at
  `dma.c:94`) are at single lines and need no interleaving.
* lwIP's free lists at the grain of single instructions. `memp.c` runs in both
  contexts with empty protection macros; every model treats one call of
  `memp_malloc` or `memp_free` as a step.
* The rest of lwIP (TCP, IP, sockets, PPP, IPv6), FatFs, the USB stacks,
  CanFestival, the peripheral library: third-party code that makes up nearly all
  lines of the repository. What is modelled of lwIP is what carries state between
  the two contexts of this port.
* Pure register set-up (clocks, GPIO, FSMC, NVIC), pixel drawing, and the boot
  loader's desktop tool.
