----------------------------- MODULE MCTimeouts -----------------------------
(* Two of the cyclic timers and the TCP timer, for TLC.  The counter wraps *)
(* after a few periods and its modulus is no multiple of the tick.         *)
EXTENDS Timeouts

MCInterval == [t \in {"arp", "dhcp_fine", "tcp"} |-> IF t = "arp" THEN 8 ELSE 4]
MCPeriodic == <<"tcp", "dhcp_fine">>
=============================================================================
