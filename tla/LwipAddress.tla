---------------------------- MODULE LwipAddress ----------------------------
(***************************************************************************)
(* How the board gets its address: the boot loop of lwip_app_init, which   *)
(* runs the DHCP client from lwip_periodic_handle and gives up after some  *)
(* tries (lwip_app_comm.c), and the DHCP and AutoIP clients of lwIP        *)
(* (dhcp.c, autoip.c), which go on after the boot loop, driven by          *)
(* sys_check_timeouts in main().                                           *)
(*                                                                         *)
(* Frames from the network are handled by ETH_IRQHandler, between any two  *)
(* steps of the main context.  A call of lwIP's own code is one step,      *)
(* except autoip_tmr where it takes an address into use.  The length of a  *)
(* request timeout is abstracted: the timeout may expire at any tick of    *)
(* the fine timer, and AutoIP's waiting times at any tick of its own.  The *)
(* link is up (low_level_init says so) and the heap has room for the two   *)
(* clients.                                                                *)
(***************************************************************************)
EXTENDS Integers, Sequences

CONSTANTS Leases,       \* addresses servers hand out
          MaxDhcpTries, \* LWIP_MAX_DHCP_TRIES
          CoopTries,    \* LWIP_DHCP_AUTOIP_COOP_TRIES
          SelectTries,  \* REQUESTs of one offer before starting over (5)
          TriesCap,     \* where dhcp->tries stops counting (255)
          LinkLocals,   \* the addresses AutoIP tries in turn (256 of them)
          ProbeNum,     \* PROBE_NUM
          AnnounceNum,  \* ANNOUNCE_NUM
          MaxMsgs       \* bound: messages received from the network

ASSUME AddressAssumption ==
    /\ Len(LinkLocals) \in Nat \ {0}
    /\ {LinkLocals[i] : i \in 1 .. Len(LinkLocals)} \cap {"zero", "static"} = {}
    /\ Leases \cap ({"zero", "static"} \cup {LinkLocals[i] : i \in 1 .. Len(LinkLocals)}) = {}
    /\ ProbeNum \in Nat /\ AnnounceNum \in Nat /\ 1 < AnnounceNum
    /\ MaxDhcpTries \in Nat /\ CoopTries \in Nat /\ SelectTries \in Nat
    /\ TriesCap \in Nat /\ MaxMsgs \in Nat
    /\ MaxDhcpTries < CoopTries /\ 1 < CoopTries /\ CoopTries < TriesCap

VARIABLES pc,         \* main(): "boot", "process", "decide", "giveup", "main"
          dhcpstatus, \* stcLwipObject.dhcpstatus
          cfg,        \* stcLwipObject.ip
          seen,       \* the local variable ip of lwip_dhcp_process_handle
          netif,      \* lwip_netif.ip_addr
          state,      \* dhcp->state
          tries,      \* dhcp->tries
          offered,    \* dhcp->offered_ip_addr
          leased,     \* the lease timers t0, t1, t2 are armed
          autoip,     \* autoip->state
          sent,       \* autoip->sent_num
          tried,      \* autoip->tried_llipaddr
          defending,  \* autoip->lastconflict > 0
          probes,     \* history: probes for the address since a conflict
          tmr,        \* autoip_tmr: "out", "announce", "bind"
          msgs,       \* messages received so far
          raced,      \* history: one of them interrupted autoip_tmr
          silence     \* history: requests sent since the last message

appVars  == <<pc, dhcpstatus, cfg, seen>>
dhcpVars == <<state, tries, offered, leased>>
autoipVars == <<autoip, sent, tried, defending, probes>>
msgVars == <<tmr, msgs, raced>>
vars == <<pc, dhcpstatus, cfg, seen, netif, state, tries, offered, leased,
          autoip, sent, tried, defending, probes, tmr, msgs, raced, silence>>

\* lwip_app_default_ip_set and netif_add; dhcpstatus = 0.
Init ==
    /\ pc = "boot" /\ dhcpstatus = 0
    /\ cfg = "static" /\ seen = "zero" /\ netif = "zero"
    /\ state = "off" /\ tries = 0 /\ offered = "zero" /\ leased = FALSE
    /\ autoip = "off" /\ sent = 0 /\ tried = 0 /\ defending = FALSE /\ probes = 0
    /\ tmr = "out" /\ msgs = 0 /\ raced = FALSE /\ silence = 0

-----------------------------------------------------------------------------
(* The AutoIP client. *)

LinkLocal == {LinkLocals[i] : i \in 1 .. Len(LinkLocals)}

\* autoip_create_addr: the address after as many others have been tried.
Candidate == LinkLocals[tried + 1]

\* Mutant: a new round of probes goes on counting where the last one stopped.
StartKeepsCount ==
    /\ netif' = "zero"
    /\ autoip' = "probing" /\ defending' = FALSE /\ probes' = 0
    /\ UNCHANGED sent

\* autoip_start takes the address away and starts to probe one of its own.
autoip_start ==
    /\ netif' = "zero"
    /\ autoip' = "probing" /\ sent' = 0 /\ defending' = FALSE /\ probes' = 0

\* autoip_stop gives up a link-local address; the dead counts are cleared.
StopAutoip ==
    /\ autoip' = "off" /\ sent' = 0 /\ defending' = FALSE /\ probes' = 0
    /\ UNCHANGED tried

AfterAutoipStop(addr) == IF autoip # "off" /\ addr \in LinkLocal THEN "zero" ELSE addr

\* Another address; the count is a byte and starts over.
autoip_restart ==
    /\ tried' = (tried + 1) % Len(LinkLocals)
    /\ autoip_start

\* The last wait is over without a conflict: the address can be used ...
AutoipProbed ==
    /\ tmr = "out" /\ autoip = "probing" /\ sent >= ProbeNum
    /\ tmr' = "announce" /\ defending' \in {FALSE, defending}
    /\ UNCHANGED <<autoip, sent, netif, probes>>

\* ... which takes two assignments, with the interrupt handler in between:
\* the state,
AutoipState ==
    /\ tmr = "announce"
    /\ autoip' = "announcing" /\ tmr' = "bind"
    /\ UNCHANGED <<sent, netif, probes, defending>>

\* and the address.
AutoipBind ==
    /\ tmr = "bind"
    /\ netif' = Candidate /\ sent' = 1 /\ tmr' = "out"
    /\ UNCHANGED <<autoip, probes, defending>>

AutoipProbe ==
    /\ tmr = "out" /\ autoip = "probing" /\ sent < ProbeNum
    /\ sent' = sent + 1 /\ probes' = probes + 1
    /\ defending' \in {FALSE, defending}
    /\ UNCHANGED <<autoip, netif, tmr>>

AutoipAnnounce ==
    /\ tmr = "out" /\ autoip = "announcing"
    /\ IF sent + 1 >= AnnounceNum THEN autoip' = "bound" /\ sent' = 0
       ELSE sent' = sent + 1 /\ UNCHANGED autoip
    /\ defending' \in {FALSE, defending}
    /\ UNCHANGED <<netif, probes, tmr>>

\* The client waits; the conflict it defends against may be long ago by now.
AutoipWait ==
    /\ tmr = "out" /\ autoip # "off"
    /\ defending' \in {FALSE, defending}
    /\ UNCHANGED <<autoip, sent, netif, probes, tmr>>

autoip_tmr ==
    /\ \/ AutoipProbed \/ AutoipState \/ AutoipBind
       \/ AutoipProbe \/ AutoipAnnounce \/ AutoipWait
    /\ UNCHANGED tried

\* autoip_handle_arp_conflict: the address is defended once, then given up.
autoip_handle_arp_conflict ==
    IF defending THEN autoip_restart
    ELSE defending' = TRUE /\ UNCHANGED <<netif, autoip, sent, tried, probes>>

-----------------------------------------------------------------------------
(* The DHCP client. *)

Supplied == state \in {"bound", "renewing", "rebinding"}

\* dhcp_set_state, which forgets the tries when the state changes, then one
\* more request.
Request(s) ==
    LET t == IF state = s THEN tries ELSE 0
    IN  /\ state' = s
        /\ tries' = IF t < TriesCap THEN t + 1 ELSE t
        /\ silence' = IF silence < TriesCap THEN silence + 1 ELSE silence

\* dhcp_discover; after enough of them AutoIP takes the address away and
\* starts to look for one of its own.
dhcp_discover ==
    /\ Request("selecting")
    /\ offered' = "zero"
    /\ IF tries' >= CoopTries /\ autoip = "off"
       THEN autoip_start /\ UNCHANGED tried
       ELSE UNCHANGED <<autoipVars, netif>>
    /\ UNCHANGED leased

\* dhcp_release_and_stop, then dhcp_start.
Restart ==
    /\ state' = "selecting" /\ tries' = 1 /\ offered' = "zero" /\ leased' = FALSE
    /\ netif' = IF Supplied THEN "zero" ELSE AfterAutoipStop(netif)
    /\ StopAutoip
    /\ silence' = IF silence < TriesCap THEN silence + 1 ELSE silence

\* Mutant: AutoIP is not stopped.
BindKeepsAutoip(addr) ==
    /\ state' = "bound" /\ tries' = 0 /\ leased' = TRUE
    /\ offered' = addr
    /\ netif' = addr
    /\ UNCHANGED <<autoipVars, silence>>

dhcp_bind(addr) ==
    /\ state' = "bound" /\ tries' = 0 /\ leased' = TRUE
    /\ offered' = addr
    /\ netif' = addr
    /\ StopAutoip
    /\ UNCHANGED silence

RequestOnly(s) == Request(s) /\ UNCHANGED <<offered, leased, netif, autoipVars>>

dhcp_timeout ==
    \/ state \in {"backing_off", "selecting"} /\ dhcp_discover
    \/ state = "requesting" /\ tries <= SelectTries /\ RequestOnly("requesting")
    \/ state = "requesting" /\ tries > SelectTries /\ Restart
    \/ state = "checking" /\ tries <= 1 /\ RequestOnly("checking")
    \/ state = "checking" /\ tries > 1 /\ dhcp_bind(offered)

TimeoutArmed == state \in {"backing_off", "selecting", "requesting", "checking"}

\* dhcp_fine_tmr, with or without the timeout of the current request.
dhcp_fine_tmr(expired) ==
    IF expired
    THEN TimeoutArmed /\ dhcp_timeout
    ELSE UNCHANGED <<dhcpVars, netif, autoipVars, silence>>

\* dhcp_coarse_tmr: the lease expires, or it is time to rebind or to renew.
dhcp_coarse_tmr ==
    /\ pc \in {"boot", "main"} /\ tmr = "out" /\ leased
    /\ \/ Restart
       \/ state \in {"requesting", "bound", "renewing", "rebinding"}
          /\ RequestOnly("rebinding")
       \/ state \in {"requesting", "bound", "renewing"} /\ RequestOnly("renewing")
    /\ UNCHANGED <<appVars, msgVars>>

-----------------------------------------------------------------------------
(* ETH_IRQHandler: a message for the DHCP client. *)

Message ==
    /\ msgs < MaxMsgs /\ msgs' = msgs + 1
    /\ raced' = (raced \/ tmr # "out")
    /\ UNCHANGED <<appVars, tmr>>

\* dhcp_handle_offer and dhcp_select.
RecvOffer(addr) ==
    /\ Message /\ state = "selecting"
    /\ state' = "requesting" /\ tries' = 1 /\ silence' = 1
    /\ offered' = addr
    /\ UNCHANGED <<leased, netif, autoipVars>>

\* An ACK is followed by an ARP probe, except for a lease that is renewed.
RecvAck(addr) ==
    /\ Message
    /\ \/ /\ state = "requesting"
          /\ state' = "checking" /\ tries' = 1 /\ silence' = 1
          /\ offered' = addr
          /\ UNCHANGED <<leased, netif, autoipVars>>
       \/ state \in {"renewing", "rebinding"} /\ dhcp_bind(addr)

\* dhcp_handle_nak: the address is removed, discovery starts again.
RecvNak ==
    /\ Message /\ state \in {"requesting", "renewing", "rebinding"}
    /\ state' = "selecting" /\ tries' = 1 /\ silence' = 1
    /\ offered' = "zero" /\ netif' = "zero"
    /\ UNCHANGED <<leased, autoipVars>>

\* dhcp_arp_reply: somebody has the address, dhcp_decline.
RecvArpReply ==
    /\ Message /\ state = "checking"
    /\ state' = "backing_off" /\ tries' = 1 /\ silence' = 1
    /\ UNCHANGED <<offered, leased, netif, autoipVars>>

\* autoip_arp_reply: another host uses or probes the link-local address.
RecvConflict ==
    /\ Message /\ autoip # "off"
    /\ IF autoip = "probing" THEN autoip_restart ELSE autoip_handle_arp_conflict
    /\ UNCHANGED <<dhcpVars, silence>>

-----------------------------------------------------------------------------
(* main(). *)

\* The DHCP part of lwip_periodic_handle: dhcp_fine_tmr ...
PeriodicFine(expired) ==
    /\ pc = "boot"
    /\ dhcp_fine_tmr(expired)
    /\ pc' = "process"
    /\ UNCHANGED <<dhcpstatus, cfg, seen, msgVars>>

\* ... and lwip_dhcp_process_handle: dhcp_start the first time,
ProcessStart ==
    /\ pc = "process" /\ dhcpstatus = 0
    /\ state' = "selecting" /\ tries' = 1 /\ silence' = silence + 1
    /\ dhcpstatus' = 1
    /\ pc' = "boot"
    /\ UNCHANGED <<cfg, seen, netif, offered, leased, autoipVars, msgVars>>

\* then read the address,
ProcessRead ==
    /\ pc = "process" /\ dhcpstatus = 1
    /\ seen' = netif
    /\ pc' = "decide"
    /\ UNCHANGED <<dhcpstatus, cfg, netif, dhcpVars, autoipVars, msgVars, silence>>

\* Mutant: the address is not copied to stcLwipObject.
ProcessBoundNoCopy ==
    /\ pc = "decide" /\ seen # "zero"
    /\ dhcpstatus' = 2
    /\ pc' = "main"
    /\ UNCHANGED <<cfg, seen, netif, dhcpVars, autoipVars, msgVars, silence>>

\* and take it over,
ProcessBound ==
    /\ pc = "decide" /\ seen # "zero"
    /\ dhcpstatus' = 2
    /\ cfg' = seen
    /\ pc' = "main"
    /\ UNCHANGED <<seen, netif, dhcpVars, autoipVars, msgVars, silence>>

\* Mutant: one try too few.
GiveUpEarly == tries >= MaxDhcpTries

\* dhcp->tries > LWIP_MAX_DHCP_TRIES
GiveUp == tries > MaxDhcpTries

\* or look at the tries and, with an answer possibly coming in between,
ProcessTries ==
    /\ pc = "decide" /\ seen = "zero" /\ GiveUp
    /\ pc' = "giveup"
    /\ UNCHANGED <<dhcpstatus, cfg, seen, netif, dhcpVars, autoipVars, msgVars, silence>>

\* fall back to the static one,
ProcessGiveUp ==
    /\ pc = "giveup"
    /\ dhcpstatus' = 255
    /\ netif' = cfg
    /\ pc' = "main"
    /\ UNCHANGED <<cfg, seen, dhcpVars, autoipVars, msgVars, silence>>

\* Mutant: the loop goes on waiting only while the client is asking for an
\* address, and does not come back while it probes one.
ProcessWaitStuck ==
    /\ pc = "decide" /\ seen = "zero" /\ ~GiveUp
    /\ pc' = IF state = "checking" THEN "decide" ELSE "boot"
    /\ UNCHANGED <<dhcpstatus, cfg, seen, netif, dhcpVars, autoipVars, msgVars, silence>>

\* or wait for the next tick.
ProcessWait ==
    /\ pc = "decide" /\ seen = "zero" /\ ~GiveUp
    /\ pc' = "boot"
    /\ UNCHANGED <<dhcpstatus, cfg, seen, netif, dhcpVars, autoipVars, msgVars, silence>>

lwip_dhcp_process_handle ==
    \/ ProcessStart \/ ProcessRead \/ ProcessBound
    \/ ProcessTries \/ ProcessGiveUp \/ ProcessWait

\* The main loop: sys_check_timeouts runs the timers of lwIP.
MainFine(expired) ==
    /\ pc = "main" /\ tmr = "out"
    /\ dhcp_fine_tmr(expired)
    /\ UNCHANGED <<appVars, msgVars>>

\* The boot loop does not call autoip_tmr.
MainAutoip ==
    /\ pc = "main"
    /\ autoip_tmr
    /\ UNCHANGED <<appVars, dhcpVars, msgs, raced, silence>>

Recv ==
    \/ \E addr \in Leases : RecvOffer(addr) \/ RecvAck(addr)
    \/ RecvNak
    \/ RecvArpReply
    \/ RecvConflict

Next ==
    \/ \E expired \in BOOLEAN : PeriodicFine(expired) \/ MainFine(expired)
    \/ lwip_dhcp_process_handle
    \/ dhcp_coarse_tmr
    \/ MainAutoip
    \/ Recv

Spec == Init /\ [][Next]_vars

\* TIM3 keeps lwip_sys_timer going, so the boot loop keeps calling the fine
\* timer, and a request timeout that is armed expires after at most 120 ticks.
\* Nothing is assumed of the network.
FairSpec ==
    /\ Spec
    /\ WF_vars(PeriodicFine(FALSE))
    /\ SF_vars(PeriodicFine(TRUE))
    /\ WF_vars(lwip_dhcp_process_handle)

-----------------------------------------------------------------------------
(* Properties. *)

\* AutoIP uses an address only after PROBE_NUM probes for that very address
\* with no conflict heard among them, also when conflicts, DHCP answers and
\* restarts of either client come in between (autoip.c:387-401, 474-488),
\* unless a message is handled inside autoip_tmr itself, between its test and
\* its assignments.
LinkLocalProbed ==
    ~raced /\ netif \in LinkLocal => netif = Candidate /\ probes >= ProbeNum

\* As long as the DHCP client is bound the interface has its lease: neither
\* AutoIP nor the boot loop, which may both be under way when the lease
\* arrives, replaces it (dhcp.c:1124-1137), with the same exception.
BoundHasLease == ~raced /\ state = "bound" => netif = offered

\* The boot loop ends with an address, and the application's copy of it is
\* the one lwIP uses (lwip_app_comm.c:69-72, 188-233).
BootLeavesAddress ==
    [][pc # "main" /\ pc' = "main" => netif' # "zero" /\ cfg' = netif']_vars

\* The loop decides for the static address only when more than
\* LWIP_MAX_DHCP_TRIES requests in a row went unanswered: an answer that comes
\* in between two steps of the loop, before the tries are looked at, is not
\* overlooked (lwip_app_comm.c:188-220).
StaticOnlyAfterSilence ==
    [][pc = "decide" /\ pc' = "giveup" => silence > MaxDhcpTries]_vars

\* The boot loop ends whatever the servers answer, as long as they do not
\* answer for ever (lwip_app_comm.c:69-72).
BootEnds == <>(pc = "main")

\* "DHCP failed: use the static address" (lwip_app_comm.c:222-224): with
\* dhcpstatus = 0xFF the interface has the static address.
StaticAddressKept == dhcpstatus = 255 => netif = "static"
=============================================================================
