------------------------------- MODULE Etharp -------------------------------
(***************************************************************************)
(* lwIP's ARP module (etharp.c) as this port configures it: one interface, *)
(* a table without static entries, a queue of packets per entry whose      *)
(* elements come from the pool MEMP_ARP_QUEUE, one cached index.           *)
(*                                                                         *)
(* Hosts are next hops: broadcasts, multicasts and missing routes do not   *)
(* reach the table.  A packet is its destination and its place in the      *)
(* order in which IP handed the packets over.  Requests that go out leave  *)
(* no trace but whether they could be sent: any answer may come or not.    *)
(*                                                                         *)
(* The main loop calls etharp_tmr, etharp_output and etharp_query.         *)
(* ETH_IRQHandler calls etharp_input, and etharp_output for the answers of *)
(* the upper layers; it can interrupt the main loop between any two of the *)
(* steps below and then runs to its end.  lwIP allows no such call; those  *)
(* that can do harm set raced.                                             *)
(***************************************************************************)
EXTENDS Integers, Sequences, FiniteSets

CONSTANTS Hosts,        \* IP addresses of the neighbours
          Macs,         \* their hardware addresses
          TableSize,    \* ARP_TABLE_SIZE
          QueueLen,     \* ARP_QUEUE_LEN
          PoolSize,     \* MEMP_NUM_ARP_QUEUE
          MaxAge,       \* ARP_MAXAGE
          Rerequest,    \* ARP_AGE_REREQUEST_USED_UNICAST
          MaxPending,   \* ARP_MAXPENDING
          MaxPackets,   \* bound: packets handed over by IP
          MaxChecks,    \* bound: queries of the DHCP client
          FollowRaced,  \* bound: follow the handler after it did harm
          None          \* no host, no packet, no hardware address

ASSUME EtharpAssumption ==
    /\ TableSize \in Nat \ {0} /\ QueueLen \in Nat \ {0} /\ PoolSize \in Nat \ {0}
    /\ MaxPending \in Nat \ {0} /\ Rerequest \in Nat /\ MaxAge \in Nat
    /\ MaxPending < MaxAge /\ Rerequest < MaxAge
    /\ MaxPackets \in Nat /\ MaxChecks \in Nat /\ FollowRaced \in BOOLEAN
    /\ None \notin Hosts \cup Macs \cup [ip : Hosts, no : Nat]

VARIABLES state,      \* arp_table[i].state
          ipaddr,     \* arp_table[i].ipaddr
          ethaddr,    \* arp_table[i].ethaddr
          ctime,      \* arp_table[i].ctime
          queue,      \* arp_table[i].q
          hint,       \* etharp_cached_entry
          qfree,      \* free elements of MEMP_ARP_QUEUE
          pc,         \* where the main loop is, "idle" outside etharp.c
          cur,        \* its local variable i
          pkt,        \* its packet and host; number 0: a host without a packet
          r,          \* the queue was not empty when etharp_query read it
          handed,     \* history: packets handed over
          checks,     \* history: queries of the DHCP client
          heard,      \* history: heard[h], what h announced last, for known hosts
          wrong,      \* history: a packet went to another host, late or twice
          raced       \* history: the handler disturbed a call of the main loop

table == <<state, ipaddr, ethaddr, ctime, queue, qfree>>
query == <<pc, cur, pkt, r>>
counts == <<handed, checks>>
vars == <<state, ipaddr, ethaddr, ctime, queue, hint, qfree, pc, cur, pkt, r,
          handed, checks, heard, wrong, raced>>

Slots == 0 .. (TableSize - 1)
Stable == {"stable", "rereq1", "rereq2"}
Packet == [ip : Hosts, no : Nat]

Init ==
    /\ state = [i \in Slots |-> "empty"]
    /\ ipaddr = [i \in Slots |-> None] /\ ethaddr = [i \in Slots |-> None]
    /\ ctime = [i \in Slots |-> 0] /\ queue = [i \in Slots |-> << >>]
    /\ hint = 0 /\ qfree = PoolSize
    /\ pc = "idle" /\ cur = 0 /\ pkt = None /\ r = FALSE
    /\ handed = 0 /\ checks = 0
    /\ heard = [h \in Hosts |-> None]
    /\ wrong = FALSE /\ raced = FALSE

-----------------------------------------------------------------------------
(* What reaches the wire. *)

\* The packets waiting in the table after the step.
Waiting == UNION {{queue'[i][k] : k \in 1 .. Len(queue'[i])} : i \in Slots}

\* The packets of s go to mac, in this order.  A packet is late or sent twice
\* if one like it or a younger one is on the wire while it waits.
Transmit(s, mac) ==
    wrong' = (wrong \/ \E k \in 1 .. Len(s) :
                 \/ mac # heard'[s[k].ip]
                 \/ \E l \in 1 .. (k - 1) : s[l].no >= s[k].no
                 \/ \E p \in Waiting : p.ip = s[k].ip /\ p.no <= s[k].no)

-----------------------------------------------------------------------------
(* The table. *)

First(S, i) == i \in S /\ \A j \in S : i <= j

\* The last of the oldest, as the sweep keeps it.
Oldest(S, i) ==
    i \in S /\ \A j \in S : ctime[j] < ctime[i] \/ (ctime[j] = ctime[i] /\ j <= i)

Empty == {i \in Slots : state[i] = "empty"}
Resolved == {i \in Slots : state[i] \in Stable}
Pending == {i \in Slots : state[i] = "pending"}
Idle == {i \in Pending : queue[i] = << >>}

Match(h) == {i \in Slots : state[i] # "empty" /\ ipaddr[i] = h}

\* Mutant: an empty slot is taken before the whole table has been searched.
FindEntryEager(h, i) ==
    IF Empty # {} THEN First(Empty, i) ELSE i \in Match(h)

\* etharp_find_entry with ETHARP_FLAG_TRY_HARD: slot i is the entry of h or
\* the one that is least destructive to recycle.
FindEntry(h, i) ==
    IF Match(h) # {} THEN First(Match(h), i)
    ELSE IF Empty # {} THEN First(Empty, i)
    ELSE IF Resolved # {} THEN Oldest(Resolved, i)
    ELSE IF Idle # {} THEN Oldest(Idle, i)
    ELSE Oldest(Pending, i)

\* Mutant: the elements of a freed queue do not go back to the pool.
FreeQueueLeaks(i) == queue' = [queue EXCEPT ![i] = << >>] /\ qfree' = qfree

\* free_etharp_q: the packets are dropped, their elements go to the pool.
free_etharp_q(i) ==
    queue' = [queue EXCEPT ![i] = << >>] /\ qfree' = qfree + Len(queue[i])

\* A host that loses its entry i is not listened to any more.
Forget(i) == [h \in Hosts |-> IF i \in Match(h) THEN None ELSE heard[h]]

\* etharp_free_entry.  The fields of an empty entry are never read; they are
\* cleared.
FreeEntry(i) ==
    /\ free_etharp_q(i)
    /\ state' = [state EXCEPT ![i] = "empty"]
    /\ ipaddr' = [ipaddr EXCEPT ![i] = None]
    /\ ethaddr' = [ethaddr EXCEPT ![i] = None]
    /\ ctime' = [ctime EXCEPT ![i] = 0]
    /\ heard' = Forget(i)

\* A step of the handler that works on entry i does harm if the main loop is
\* choosing an entry or works on this one, is at the pool, whose free list
\* nothing protects (SYS_ARCH_PROTECT is empty), or has compared the cached
\* index and is about to use it.
Disturbs(i) ==
    \/ pc \in {"recycle", "take", "mark"}
    \/ pc # "idle" /\ i = cur
    \/ pc \in {"tmr", "append", "link"} /\ queue' # queue
    \/ pc = "index" /\ hint' # hint

Followed == raced => FollowRaced

\* The locals are dead after the return: they keep a fixed value.
Return == pc' = "idle" /\ cur' = 0 /\ pkt' = None /\ r' = FALSE

-----------------------------------------------------------------------------
(* etharp_tmr, once per ARP_TMR_INTERVAL. *)

Expired(i) ==
    /\ state[i] # "empty"
    /\ \/ ctime[i] + 1 >= MaxAge
       \/ state[i] = "pending" /\ ctime[i] + 1 >= MaxPending

\* Mutant: repeating the request starts the time of a pending entry anew.
AgedFromRequest(i) == IF state[i] \in {"empty", "pending"} THEN 0 ELSE ctime[i] + 1

Aged(i) == IF state[i] = "empty" THEN 0 ELSE ctime[i] + 1

TmrBegin ==
    /\ pc = "idle"
    /\ pc' = "tmr" /\ cur' = 0
    /\ UNCHANGED <<table, hint, pkt, r, counts, heard, wrong, raced>>

\* One round of the loop.  Pending entries are requested again, which changes
\* nothing here.
TmrEntry ==
    /\ pc = "tmr"
    /\ IF Expired(cur)
         THEN FreeEntry(cur)
         ELSE /\ state' = [state EXCEPT ![cur] = CASE @ = "rereq1" -> "rereq2"
                                                   [] @ = "rereq2" -> "stable"
                                                   [] OTHER -> @]
              /\ ctime' = [ctime EXCEPT ![cur] = Aged(cur)]
              /\ UNCHANGED <<ipaddr, ethaddr, queue, qfree, heard>>
    /\ IF cur = TableSize - 1 THEN Return ELSE cur' = cur + 1 /\ UNCHANGED <<pc, pkt, r>>
    /\ UNCHANGED <<hint, counts, wrong, raced>>

etharp_tmr == TmrBegin \/ TmrEntry

-----------------------------------------------------------------------------
(* etharp_input: an ARP message from h, whose hardware address is mac. *)

\* Mutant: only the first packet of the queue is sent.
UpdateSendsFirst(i, h, mac) ==
    /\ state' = [state EXCEPT ![i] = "stable"]
    /\ ipaddr' = [ipaddr EXCEPT ![i] = h]
    /\ ethaddr' = [ethaddr EXCEPT ![i] = mac]
    /\ ctime' = [ctime EXCEPT ![i] = 0]
    /\ queue' = [queue EXCEPT ![i] = IF @ = << >> THEN @ ELSE Tail(@)]
    /\ qfree' = qfree + Len(queue[i]) - Len(queue'[i])
    /\ heard' = [Forget(i) EXCEPT ![h] = mac]
    /\ raced' = (raced \/ Disturbs(i))
    /\ Transmit(IF queue[i] = << >> THEN << >> ELSE <<Head(queue[i])>>, mac)

\* etharp_update_arp_entry for the entry or the recycled slot i.  It does no
\* harm to answer the host for which etharp_query is about to test the state.
UpdateEntry(i, h, mac) ==
    /\ state' = [state EXCEPT ![i] = "stable"]
    /\ ipaddr' = [ipaddr EXCEPT ![i] = h]
    /\ ethaddr' = [ethaddr EXCEPT ![i] = mac]
    /\ ctime' = [ctime EXCEPT ![i] = 0]
    /\ free_etharp_q(i)
    /\ heard' = [Forget(i) EXCEPT ![h] = mac]
    /\ raced' = (raced \/ (Disturbs(i) /\ ~(pc = "test" /\ ipaddr[i] = h)))
    /\ Transmit(IF Match(h) = {} THEN << >> ELSE queue[i], mac)

\* Mutant: a message for somebody else does not refresh the entry.
InputNotForUsIgnored(h, mac) ==
    /\ IF Match(h) # {} THEN heard' = [heard EXCEPT ![h] = mac] ELSE heard' = heard
    /\ UNCHANGED <<table, hint, query, counts, wrong, raced>>

\* A message to somebody else updates only an existing entry.
InputNotForUs(h, mac) ==
    /\ Followed
    /\ UNCHANGED <<hint, query, counts>>
    /\ \E i \in Match(h) : First(Match(h), i) /\ UpdateEntry(i, h, mac)

InputForUs(h, mac) ==
    /\ Followed
    /\ UNCHANGED <<hint, query, counts>>
    /\ \E i \in Slots : FindEntry(h, i) /\ UpdateEntry(i, h, mac)

-----------------------------------------------------------------------------
(* etharp_output in the main loop. *)

NextPacket(h) == [ip |-> h, no |-> handed + 1]

ResolvedFor(h) == {i \in Resolved : ipaddr[i] = h}

\* Mutant: the cached index is used without comparing the address.
UsedEntryAnyHost(h, i) ==
    IF hint \in Resolved THEN i = hint ELSE First(ResolvedFor(h), i)

\* The cached index first, then the table from its start.
UsedEntry(h, i) ==
    IF hint \in ResolvedFor(h) THEN i = hint ELSE First(ResolvedFor(h), i)

OutputFind(h) ==
    /\ pc = "idle" /\ handed < MaxPackets
    /\ \E i \in Slots : UsedEntry(h, i) /\ hint' = i /\ cur' = i
    /\ pc' = "index" /\ pkt' = NextPacket(h)
    /\ handed' = handed + 1
    /\ UNCHANGED <<table, r, checks, heard, wrong, raced>>

\* etharp_output_to_arp_index: an entry about to expire is requested again,
\* by unicast or later by broadcast, if the request can be allocated.
ToArpIndex(i, p) ==
    /\ \/ state' = state
       \/ /\ state[i] = "stable" /\ ctime[i] >= Rerequest
          /\ state' = [state EXCEPT ![i] = "rereq1"]
    /\ UNCHANGED <<ipaddr, ethaddr, ctime, queue, qfree, heard>>
    /\ Transmit(<<p>>, ethaddr[i])

\* etharp_cached_entry is not volatile: it may be read once more for the call.
OutputIndex ==
    /\ pc = "index"
    /\ \E i \in {cur, hint} : ToArpIndex(i, pkt)
    /\ Return
    /\ UNCHANGED <<hint, counts, raced>>

-----------------------------------------------------------------------------
(* etharp_query in the main loop. *)

\* The sweep of etharp_find_entry: the entry of h, an empty slot or one to be
\* recycled.
Sweep(h) ==
    \E i \in Slots :
        /\ FindEntry(h, i)
        /\ cur' = i
        /\ pc' = IF Match(h) # {} THEN "mark"
                 ELSE IF state[i] = "empty" THEN "take" ELSE "recycle"

\* etharp_output finds no stable entry.
QueryPacket(h) ==
    /\ pc = "idle" /\ handed < MaxPackets /\ ResolvedFor(h) = {}
    /\ Sweep(h)
    /\ pkt' = NextPacket(h)
    /\ handed' = handed + 1
    /\ UNCHANGED <<table, hint, r, checks, heard, wrong, raced>>

\* dhcp_check: a query without a packet.
QueryAddress(h) ==
    /\ pc = "idle" /\ checks < MaxChecks
    /\ Sweep(h)
    /\ pkt' = [ip |-> h, no |-> 0]
    /\ checks' = checks + 1
    /\ UNCHANGED <<table, hint, r, handed, heard, wrong, raced>>

QueryRecycle ==
    /\ pc = "recycle"
    /\ FreeEntry(cur)
    /\ pc' = "take"
    /\ UNCHANGED <<hint, cur, pkt, r, counts, wrong, raced>>

QueryTake ==
    /\ pc = "take"
    /\ ipaddr' = [ipaddr EXCEPT ![cur] = pkt.ip]
    /\ ctime' = [ctime EXCEPT ![cur] = 0]
    /\ pc' = "mark"
    /\ UNCHANGED <<state, ethaddr, queue, qfree, hint, cur, pkt, r, counts,
                   heard, wrong, raced>>

\* An empty entry becomes pending; the request may fail.
QueryMark ==
    /\ pc = "mark"
    /\ state' = IF state[cur] = "empty" THEN [state EXCEPT ![cur] = "pending"] ELSE state
    /\ \/ ctime' = ctime
       \/ /\ pkt.no = 0 /\ state[cur] = "pending"
          /\ ctime' = [ctime EXCEPT ![cur] = 0]
    /\ IF pkt.no = 0 THEN Return ELSE pc' = "test" /\ UNCHANGED <<cur, pkt, r>>
    /\ UNCHANGED <<ipaddr, ethaddr, queue, qfree, hint, counts, heard, wrong, raced>>

\* An entry that is stable by now is used at once.
QueryTest ==
    /\ pc = "test"
    /\ IF state[cur] \in Stable
         THEN hint' = cur /\ pc' = "use"
         ELSE hint' = hint /\ pc' = "append"
    /\ UNCHANGED <<table, cur, pkt, r, counts, heard, wrong, raced>>

QueryUse ==
    /\ pc = "use"
    /\ UNCHANGED <<table, heard>>
    /\ Transmit(<<pkt>>, ethaddr[cur])
    /\ Return
    /\ UNCHANGED <<hint, counts, raced>>

\* A packet that cannot be copied, or finds no element in the pool, is lost.
QueryElement ==
    /\ pc = "append"
    /\ \/ Return /\ qfree' = qfree
       \/ /\ qfree > 0
          /\ qfree' = qfree - 1
          /\ pc' = "link" /\ r' = (queue[cur] # << >>)
          /\ UNCHANGED <<cur, pkt>>
    /\ UNCHANGED <<state, ipaddr, ethaddr, ctime, queue, hint, counts, heard,
                   wrong, raced>>

\* Mutant: a new packet goes to the head of the queue.
EnqueueInFront(s, p) ==
    IF Len(s) >= QueueLen THEN <<p>> \o Tail(s) ELSE <<p>> \o s

\* The new packet is appended; a queue that was full loses its oldest.
Enqueued(s, p) == IF Len(s) >= QueueLen THEN Append(Tail(s), p) ELSE Append(s, p)

\* The element is linked to the last one seen, or becomes the queue.  If the
\* queue has gone to the pool in between, the link ends up in the free list of
\* the pool, whose length is anything then.
QueryLink ==
    /\ pc = "link"
    /\ \/ /\ r /\ queue[cur] = << >>
          /\ qfree' \in 0 .. PoolSize /\ queue' = queue
       \/ /\ r /\ queue[cur] # << >>
          /\ queue' = [queue EXCEPT ![cur] = Enqueued(@, pkt)]
          /\ qfree' = qfree + 1 + Len(queue[cur]) - Len(queue'[cur])
       \/ /\ ~r
          /\ queue' = [queue EXCEPT ![cur] = <<pkt>>]
          /\ qfree' = qfree
    /\ Return
    /\ UNCHANGED <<state, ipaddr, ethaddr, ctime, hint, counts, heard, wrong, raced>>

-----------------------------------------------------------------------------
(* etharp_output in the handler: from the look-up to the end in one step. *)

HandlerOutput(h) ==
    /\ Followed /\ handed < MaxPackets
    /\ \E i \in Slots :
         /\ UsedEntry(h, i)
         /\ hint' = i
         /\ ToArpIndex(i, NextPacket(h))
         /\ raced' = (raced \/ Disturbs(i))
    /\ handed' = handed + 1
    /\ UNCHANGED <<query, checks>>

\* The entry of h is pending or there is none.
HandlerQuery(h) ==
    /\ Followed /\ handed < MaxPackets /\ ResolvedFor(h) = {}
    /\ UNCHANGED <<hint, query, checks, wrong>>
    /\ \E i \in Slots :
         LET known == Match(h) # {}
             kept == IF known THEN queue[i] ELSE << >>
         IN  /\ FindEntry(h, i)
             /\ state' = [state EXCEPT ![i] = "pending"]
             /\ ipaddr' = [ipaddr EXCEPT ![i] = h]
             /\ ethaddr' = [ethaddr EXCEPT ![i] = IF known THEN @ ELSE None]
             /\ ctime' = [ctime EXCEPT ![i] = IF known THEN @ ELSE 0]
             /\ heard' = IF known THEN heard ELSE Forget(i)
             /\ \/ queue' = [queue EXCEPT ![i] = kept]
                \/ /\ qfree + Len(queue[i]) - Len(kept) > 0
                   /\ queue' = [queue EXCEPT ![i] = Enqueued(kept, NextPacket(h))]
             /\ qfree' = qfree + Len(queue[i]) - Len(queue'[i])
             /\ raced' = (raced \/ Disturbs(i))
    /\ handed' = handed + 1

-----------------------------------------------------------------------------
\* What ETH_IRQHandler does to the table.
Handler ==
    \E h \in Hosts : \/ \E mac \in Macs : InputNotForUs(h, mac) \/ InputForUs(h, mac)
                     \/ HandlerOutput(h)
                     \/ HandlerQuery(h)

Begin == \E h \in Hosts : OutputFind(h) \/ QueryPacket(h) \/ QueryAddress(h)

Query ==
    \/ QueryRecycle \/ QueryTake \/ QueryMark \/ QueryTest \/ QueryUse
    \/ QueryElement \/ QueryLink

Next == etharp_tmr \/ Begin \/ OutputIndex \/ Query \/ Handler

Spec == Init /\ [][Next]_vars

\* The timer of the main loop keeps running and a call goes on to its end.
FairSpec == Spec /\ WF_vars(etharp_tmr) /\ WF_vars(OutputIndex \/ Query)

-----------------------------------------------------------------------------
(* Properties. *)

\* Until the handler disturbs a call, two entries never stand for the same
\* host, whatever was recycled, expired or learnt in between, and an entry in
\* use is that of a host (etharp_find_entry).
OneEntryPerHost ==
    ~raced =>
        /\ \A i \in Slots : state[i] # "empty" => ipaddr[i] \in Hosts
        /\ \A i, j \in Slots :
              state[i] # "empty" /\ state[j] # "empty" /\ ipaddr[i] = ipaddr[j] => i = j

\* What the comment in etharp_find_entry says: no queued packets exist on
\* stable entries.
StableHasNoQueue == \A i \in Slots : queue[i] # << >> => state[i] = "pending"

\* That holds until the handler disturbs a call: also when the answer comes
\* between the request of etharp_query and its test of the state, and when the
\* handler works on other entries meanwhile (etharp.c:950-1064).
QueueOnlyWhilePending == ~raced => StableHasNoQueue

\* Until then a resolved entry has the hardware address its host announced
\* last, also in messages to others, and is younger than the age limit
\* (etharp_update_arp_entry, etharp_tmr).
ResolvedIsFresh ==
    ~raced => \A i \in Resolved : ethaddr[i] = heard[ipaddr[i]] /\ ctime[i] < MaxAge

\* A packet reaches the wire for another host than its own, at an address
\* that host has given up, out of order or twice only after the handler has
\* disturbed a call, whether it was sent at once, through the cached index, or
\* waited in a queue (etharp_output, etharp_query).
RightHostInOrder == wrong => raced

\* The queue elements in the slots of S.
Held(S) == Cardinality({p \in S \X (1 .. (QueueLen + 1)) : p[2] <= Len(queue[p[1]])})

\* Until the handler disturbs a call the queue elements in use, the one in the
\* hands of etharp_query and those in the pool add up: recycling, expiry, an
\* answer and the replacement of the oldest packet lose none.  No queue grows
\* past its limit (etharp.c:1038-1064).
QueuePoolConserved ==
    ~raced =>
        /\ qfree + Held(Slots) + (IF pc = "link" THEN 1 ELSE 0) = PoolSize
        /\ \A i \in Slots : Len(queue[i]) <= QueueLen

\* No packet waits for ever for an answer that does not come: it is sent or
\* dropped after ARP_MAXPENDING rounds of the timer (etharp_tmr).
NoPacketWaits == \A i \in Slots : (queue[i] # << >>) ~> (queue[i] = << >> \/ raced)
=============================================================================
