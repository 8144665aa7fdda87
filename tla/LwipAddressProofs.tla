------------------------- MODULE LwipAddressProofs -------------------------
(***************************************************************************)
(* Theorems about LwipAddress: what the boot loop and the two clients      *)
(* guarantee about the address, for any number of tries, probes, leases,   *)
(* link-local addresses and messages.                                      *)
(***************************************************************************)
EXTENDS LwipAddress, TLAPS

\* The counters.  A request that is not answered counts in both, an answer
\* resets both.
CountInv ==
    /\ tries \in 0 .. TriesCap /\ silence \in 0 .. TriesCap
    /\ tries <= silence
    /\ sent \in Nat /\ probes \in Nat

\* During the boot a lease is taken into use in the very round of the loop in
\* which it was bound, so nothing can take it away before.
BootInv ==
    /\ dhcpstatus = 0 =>
          state = "off" /\ silence = 0 /\ pc \in {"boot", "process"} /\ ~leased
    /\ pc # "main" => tmr = "out" /\ cfg = "static"
    /\ pc \in {"boot", "giveup"} => ~leased
    /\ pc # "main" /\ leased =>
          state = "bound" /\ offered \in Leases /\ netif = offered /\ autoip = "off"
    /\ pc # "main" /\ ~leased => netif = "zero" /\ ~Supplied
    /\ pc = "decide" => seen = netif

\* The address that is probed before it is bound was offered by a server.
OfferInv == state = "checking" => offered \in Leases

\* As long as no message came inside autoip_tmr: a bound DHCP client has
\* stopped AutoIP, and an address AutoIP uses, or is about to use, was probed.
AutoInv ==
    ~raced =>
        /\ state = "bound" => autoip = "off" /\ netif = offered
        /\ netif \in LinkLocal =>
              autoip # "off" /\ netif = Candidate /\ probes >= ProbeNum
        /\ autoip = "probing" => probes >= sent
        /\ tmr = "announce" => autoip = "probing" /\ probes >= ProbeNum
        /\ tmr = "bind" => autoip = "announcing" /\ probes >= ProbeNum

IInv == CountInv /\ BootInv /\ OfferInv /\ AutoInv

\* What the proofs use of the constants.
LEMMA Constants ==
    /\ ProbeNum \in Nat /\ AnnounceNum \in Nat
    /\ MaxDhcpTries \in Nat /\ CoopTries \in Nat /\ TriesCap \in Nat
    /\ 1 < TriesCap /\ MaxDhcpTries < TriesCap
    /\ "zero" \notin LinkLocal /\ "static" \notin LinkLocal
    /\ "zero" \notin Leases
    /\ \A a \in Leases : a \notin LinkLocal
<1>1. /\ ProbeNum \in Nat /\ AnnounceNum \in Nat
      /\ MaxDhcpTries \in Nat /\ CoopTries \in Nat /\ TriesCap \in Nat
      /\ MaxDhcpTries < CoopTries /\ 1 < CoopTries /\ CoopTries < TriesCap
  BY AddressAssumption DEF AddressAssumption
<1>2. 1 < TriesCap /\ MaxDhcpTries < TriesCap
  BY <1>1
<1>3. LinkLocal \cap {"zero", "static"} = {} /\ Leases \cap ({"zero", "static"} \cup LinkLocal) = {}
  BY AddressAssumption DEF AddressAssumption, LinkLocal
<1>4. /\ "zero" \notin LinkLocal /\ "static" \notin LinkLocal /\ "zero" \notin Leases
      /\ \A a \in Leases : a \notin LinkLocal
  BY <1>3
<1> QED
  BY <1>1, <1>2, <1>4

\* Power-on.
LEMMA InitHolds == Init => IInv
BY Constants
   DEF Init, IInv, CountInv, BootInv, OfferInv, AutoInv, Supplied

-----------------------------------------------------------------------------
(* Steps of the DHCP client, wherever they are called from. *)

\* Every step keeps the counts in step.
LEMMA CountStep == CountInv /\ BootInv /\ [Next]_vars => CountInv'
<1> SUFFICES ASSUME CountInv, BootInv, [Next]_vars PROVE CountInv'
  OBVIOUS
<1> USE Constants DEF CountInv
<1>1. ASSUME NEW expired \in BOOLEAN, dhcp_fine_tmr(expired) PROVE CountInv'
  BY <1>1 DEF dhcp_fine_tmr, dhcp_timeout, dhcp_discover, Request, RequestOnly,
     Restart, dhcp_bind, StopAutoip, autoip_start, dhcpVars, autoipVars
<1>2. CASE dhcp_coarse_tmr
  <2>1. CASE Restart
    BY <2>1 DEF Restart, StopAutoip
  <2>2. ASSUME NEW s, RequestOnly(s) PROVE CountInv'
    BY <2>2 DEF RequestOnly, Request, autoipVars
  <2> QED
    BY <1>2, <2>1, <2>2 DEF dhcp_coarse_tmr
<1>3. CASE lwip_dhcp_process_handle
  BY <1>3 DEF lwip_dhcp_process_handle, ProcessStart, ProcessRead, ProcessBound,
     ProcessTries, ProcessGiveUp, ProcessWait, dhcpVars, autoipVars, BootInv
<1>4. CASE MainAutoip
  <2>1. UNCHANGED <<tries, silence>>
    BY <1>4 DEF MainAutoip, dhcpVars
  <2>2. sent' \in Nat /\ probes' \in Nat
    <3>1. CASE AutoipProbed \/ AutoipState \/ AutoipWait
      BY <3>1 DEF AutoipProbed, AutoipState, AutoipWait
    <3>2. CASE AutoipBind
      BY <3>2 DEF AutoipBind
    <3>3. CASE AutoipProbe
      BY <3>3 DEF AutoipProbe
    <3>4. CASE AutoipAnnounce
      BY <3>4 DEF AutoipAnnounce
    <3> QED
      BY <1>4, <3>1, <3>2, <3>3, <3>4 DEF MainAutoip, autoip_tmr
  <2> QED
    BY <2>1, <2>2
<1>5. CASE Recv
  BY <1>5 DEF Recv, RecvOffer, RecvAck, RecvNak, RecvArpReply, RecvConflict,
     dhcp_bind, StopAutoip, autoip_restart, autoip_handle_arp_conflict,
     autoip_start, dhcpVars, autoipVars
<1>6. CASE UNCHANGED vars
  BY <1>6 DEF vars
<1> QED
  BY <1>1, <1>2, <1>3, <1>4, <1>5, <1>6 DEF Next, PeriodicFine, MainFine

\* Every step keeps what is known of the offer.
LEMMA OfferStep == OfferInv /\ [Next]_vars => OfferInv'
<1> SUFFICES ASSUME OfferInv, [Next]_vars PROVE OfferInv'
  OBVIOUS
<1> USE DEF OfferInv
<1>1. ASSUME NEW expired \in BOOLEAN, dhcp_fine_tmr(expired) PROVE OfferInv'
  BY <1>1 DEF dhcp_fine_tmr, dhcp_timeout, dhcp_discover, Request, RequestOnly,
     Restart, dhcp_bind, dhcpVars
<1>2. CASE dhcp_coarse_tmr
  BY <1>2 DEF dhcp_coarse_tmr, Restart, RequestOnly, Request
<1>3. CASE lwip_dhcp_process_handle
  BY <1>3 DEF lwip_dhcp_process_handle, ProcessStart, ProcessRead, ProcessBound,
     ProcessTries, ProcessGiveUp, ProcessWait, dhcpVars
<1>4. CASE MainAutoip
  BY <1>4 DEF MainAutoip, dhcpVars
<1>5. CASE Recv
  BY <1>5 DEF Recv, RecvOffer, RecvAck, RecvNak, RecvArpReply, RecvConflict,
     dhcp_bind, dhcpVars
<1>6. CASE UNCHANGED vars
  BY <1>6 DEF vars
<1> QED
  BY <1>1, <1>2, <1>3, <1>4, <1>5, <1>6 DEF Next, PeriodicFine, MainFine

\* Every step keeps what the boot loop relies on.
LEMMA BootStep == CountInv /\ BootInv /\ OfferInv /\ [Next]_vars => BootInv'
<1> SUFFICES ASSUME CountInv, BootInv, OfferInv, [Next]_vars PROVE BootInv'
  OBVIOUS
<1> USE Constants DEF BootInv, Supplied
<1>1. ASSUME NEW expired \in BOOLEAN, PeriodicFine(expired) PROVE BootInv'
  BY <1>1 DEF PeriodicFine, dhcp_fine_tmr, TimeoutArmed, dhcp_timeout,
     dhcp_discover, Request, RequestOnly, Restart, AfterAutoipStop, StopAutoip,
     dhcp_bind, autoip_start, dhcpVars, autoipVars, msgVars, OfferInv
<1>2. ASSUME NEW expired \in BOOLEAN, MainFine(expired) PROVE BootInv'
  BY <1>2 DEF MainFine, dhcp_fine_tmr, TimeoutArmed, dhcp_timeout,
     dhcpVars, appVars
<1>3. CASE dhcp_coarse_tmr
  BY <1>3 DEF dhcp_coarse_tmr, Restart, RequestOnly, Request, appVars
<1>4. CASE lwip_dhcp_process_handle
  BY <1>4 DEF lwip_dhcp_process_handle, ProcessStart, ProcessRead, ProcessBound,
     ProcessTries, ProcessGiveUp, ProcessWait, dhcpVars, autoipVars, msgVars
<1>5. CASE MainAutoip
  BY <1>5 DEF MainAutoip, appVars, dhcpVars
<1>6. CASE Recv
  <2> USE DEF Message, appVars
  <2>1. ASSUME NEW addr \in Leases, RecvOffer(addr) PROVE BootInv'
    BY <2>1 DEF RecvOffer, autoipVars
  <2>2. ASSUME NEW addr \in Leases, RecvAck(addr) PROVE BootInv'
    BY <2>2 DEF RecvAck, dhcp_bind, StopAutoip, autoipVars
  <2>3. CASE RecvNak
    BY <2>3 DEF RecvNak, autoipVars
  <2>4. CASE RecvArpReply
    BY <2>4 DEF RecvArpReply, autoipVars
  <2>5. CASE RecvConflict
    BY <2>5 DEF RecvConflict, autoip_restart, autoip_handle_arp_conflict,
       autoip_start, dhcpVars
  <2> QED
    BY <1>6, <2>1, <2>2, <2>3, <2>4, <2>5 DEF Recv
<1>7. CASE UNCHANGED vars
  BY <1>7 DEF vars
<1> QED
  BY <1>1, <1>2, <1>3, <1>4, <1>5, <1>6, <1>7 DEF Next

-----------------------------------------------------------------------------

\* Every step keeps what is known of AutoIP.
LEMMA AutoStep == IInv /\ [Next]_vars => AutoInv'
<1> SUFFICES ASSUME IInv, [Next]_vars, ~raced' PROVE AutoInv'
  BY DEF AutoInv
<1> USE Constants DEF IInv, AutoInv, Candidate
<1>1. ASSUME NEW expired \in BOOLEAN, dhcp_fine_tmr(expired), tmr = "out",
             UNCHANGED msgVars
      PROVE AutoInv'
  BY <1>1 DEF dhcp_fine_tmr, TimeoutArmed, dhcp_timeout, dhcp_discover, Request,
     RequestOnly, Restart, Supplied, AfterAutoipStop, StopAutoip, dhcp_bind,
     autoip_start, dhcpVars, autoipVars, msgVars, OfferInv, CountInv
<1>2. CASE dhcp_coarse_tmr
  BY <1>2 DEF dhcp_coarse_tmr, Restart, Supplied, AfterAutoipStop, StopAutoip,
     RequestOnly, Request, autoipVars, msgVars, CountInv
<1>3. CASE lwip_dhcp_process_handle
  BY <1>3 DEF lwip_dhcp_process_handle, ProcessStart, ProcessRead, ProcessBound,
     ProcessTries, ProcessGiveUp, ProcessWait, dhcpVars, autoipVars, msgVars,
     BootInv, Supplied
<1>4. CASE MainAutoip
  <2>0. UNCHANGED <<state, offered, raced, tried>>
    BY <1>4 DEF MainAutoip, autoip_tmr, dhcpVars
  <2>1. CASE AutoipProbed
    BY <2>0, <2>1 DEF AutoipProbed, CountInv
  <2>2. CASE AutoipState
    BY <2>0, <2>2 DEF AutoipState
  <2>3. CASE AutoipBind
    BY <2>0, <2>3 DEF AutoipBind
  <2>4. CASE AutoipProbe
    BY <2>0, <2>4 DEF AutoipProbe, CountInv
  <2>5. CASE AutoipAnnounce
    BY <2>0, <2>5 DEF AutoipAnnounce
  <2>6. CASE AutoipWait
    BY <2>0, <2>6 DEF AutoipWait
  <2> QED
    BY <1>4, <2>1, <2>2, <2>3, <2>4, <2>5, <2>6 DEF MainAutoip, autoip_tmr
<1>5. CASE Recv
  <2>0. tmr = "out" /\ tmr' = "out" /\ ~raced
    BY <1>5 DEF Recv, Message, RecvOffer, RecvAck, RecvNak, RecvArpReply,
       RecvConflict
  <2>1. ASSUME NEW addr \in Leases, RecvOffer(addr) PROVE AutoInv'
    BY <2>0, <2>1 DEF RecvOffer, autoipVars
  <2>2. ASSUME NEW addr \in Leases, RecvAck(addr) PROVE AutoInv'
    BY <2>0, <2>2 DEF RecvAck, dhcp_bind, StopAutoip, autoipVars, CountInv
  <2>3. CASE RecvNak
    BY <2>0, <2>3 DEF RecvNak, autoipVars
  <2>4. CASE RecvArpReply
    BY <2>0, <2>4 DEF RecvArpReply, autoipVars
  <2>5. CASE RecvConflict
    BY <2>0, <2>5 DEF RecvConflict, autoip_restart, autoip_handle_arp_conflict,
       autoip_start, dhcpVars
  <2> QED
    BY <1>5, <2>1, <2>2, <2>3, <2>4, <2>5 DEF Recv
<1>6. CASE UNCHANGED vars
  BY <1>6 DEF vars
<1>7. ASSUME NEW expired \in BOOLEAN, PeriodicFine(expired) PROVE AutoInv'
  BY <1>1, <1>7 DEF PeriodicFine, BootInv
<1>8. ASSUME NEW expired \in BOOLEAN, MainFine(expired) PROVE AutoInv'
  BY <1>1, <1>8 DEF MainFine
<1> QED
  BY <1>2, <1>3, <1>4, <1>5, <1>6, <1>7, <1>8 DEF Next

\* The invariant holds in every state.
LEMMA AddressInvariant == Spec => []IInv
<1>1. IInv /\ [Next]_vars => IInv'
  BY CountStep, BootStep, OfferStep, AutoStep DEF IInv
<1> QED
  BY InitHolds, <1>1, PTL DEF Spec

-----------------------------------------------------------------------------
(* The theorems. *)

\* A link-local address in use was probed PROBE_NUM times without a conflict,
\* unless a message interrupted autoip_tmr (autoip.c:387-401, 474-488).
THEOREM LinkLocalIsProbed == Spec => []LinkLocalProbed
<1>1. IInv => LinkLocalProbed
  BY DEF IInv, AutoInv, LinkLocalProbed
<1> QED
  BY <1>1, AddressInvariant, PTL

\* Nobody replaces the lease of a bound DHCP client, with the same exception
\* (dhcp.c:1124-1137, lwip_app_comm.c:220-231).
THEOREM LeaseIsKept == Spec => []BoundHasLease
<1>1. IInv => BoundHasLease
  BY DEF IInv, AutoInv, BoundHasLease
<1> QED
  BY <1>1, AddressInvariant, PTL

\* The boot loop leaves with an address, the same in lwIP and in the
\* application (lwip_app_comm.c:188-233).
THEOREM BootHasAddress == Spec => BootLeavesAddress
<1>1. IInv /\ [Next]_vars =>
        [pc # "main" /\ pc' = "main" => netif' # "zero" /\ cfg' = netif']_vars
  <2> SUFFICES ASSUME IInv, Next, pc # "main", pc' = "main"
               PROVE  netif' # "zero" /\ cfg' = netif'
    OBVIOUS
  <2>1. ProcessBound \/ ProcessGiveUp
    BY DEF Next, PeriodicFine, MainFine, lwip_dhcp_process_handle, ProcessStart,
       ProcessRead, ProcessTries, ProcessWait, dhcp_coarse_tmr, MainAutoip, Recv,
       RecvOffer, RecvAck, RecvNak, RecvArpReply, RecvConflict, Message, appVars
  <2>2. CASE ProcessBound
    BY <2>2 DEF ProcessBound, IInv, BootInv
  <2>3. CASE ProcessGiveUp
    BY <2>3 DEF ProcessGiveUp, IInv, BootInv
  <2> QED
    BY <2>1, <2>2, <2>3
<1> QED
  BY <1>1, AddressInvariant, PTL DEF Spec, BootLeavesAddress

\* The static address is chosen only after more than LWIP_MAX_DHCP_TRIES
\* requests in a row without an answer (lwip_app_comm.c:188-220).
THEOREM GivesUpAfterSilence == Spec => StaticOnlyAfterSilence
<1>1. IInv /\ [Next]_vars =>
        [pc = "decide" /\ pc' = "giveup" => silence > MaxDhcpTries]_vars
  <2> SUFFICES ASSUME IInv, Next, pc = "decide", pc' = "giveup"
               PROVE  silence > MaxDhcpTries
    OBVIOUS
  <2>1. ProcessTries
    BY DEF Next, PeriodicFine, MainFine, lwip_dhcp_process_handle, ProcessStart,
       ProcessRead, ProcessBound, ProcessGiveUp, ProcessWait, dhcp_coarse_tmr,
       MainAutoip, Recv, RecvOffer, RecvAck, RecvNak, RecvArpReply, RecvConflict,
       Message, appVars
  <2> QED
    BY <2>1, Constants DEF ProcessTries, GiveUp, IInv, CountInv
<1> QED
  BY <1>1, AddressInvariant, PTL DEF Spec, StaticOnlyAfterSilence
=============================================================================
