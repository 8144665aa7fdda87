---------------------------- MODULE TimerService ----------------------------
(***************************************************************************)
(* What lwIP's timers promise, over true time: no list, no counter that    *)
(* wraps.  left[t] is the time until timer t is due, negative when it is   *)
(* late.  A handler is never called early and the one that has waited      *)
(* longest goes first.  A cyclic timer that is served less than a period   *)
(* late keeps its rhythm; one that is later than that starts afresh.       *)
(***************************************************************************)
EXTENDS Integers

CONSTANTS Cyclic,    \* timers that run for ever
          OnDemand,  \* timers that are started and stopped
          Interval,  \* Interval[t]: the period of timer t
          Step       \* the resolution of the clock

VARIABLES left,      \* left[t]: time until timer t is due, 0 while it is off
          mode       \* mode[t]: "off", "armed" or "running" (in its handler)

tsvars == <<left, mode>>

Timers == Cyclic \cup OnDemand

ServiceInit ==
    /\ left = [t \in Timers |-> IF t \in Cyclic THEN Interval[t] ELSE 0]
    /\ mode = [t \in Timers |-> IF t \in Cyclic THEN "armed" ELSE "off"]

Elapse ==
    /\ left' = [t \in Timers |-> IF mode[t] = "off" THEN 0 ELSE left[t] - Step]
    /\ mode' = mode

Fire(t) ==
    /\ mode[t] = "armed"
    /\ \A u \in Timers : mode[u] # "running"
    /\ left[t] <= 0
    /\ \A u \in Timers : mode[u] = "armed" => left[t] <= left[u]
    /\ mode' = [mode EXCEPT ![t] = "running"]
    /\ left' = left

Again(t) ==
    /\ mode[t] = "running"
    /\ mode' = [mode EXCEPT ![t] = "armed"]
    /\ left' = [left EXCEPT ![t] = IF @ + Interval[t] >= 0
                                     THEN @ + Interval[t] ELSE Interval[t]]

\* A timer on demand counts its period from the moment it is started.
Start(t) ==
    /\ mode[t] \in {"off", "running"}
    /\ mode' = [mode EXCEPT ![t] = "armed"]
    /\ left' = [left EXCEPT ![t] = Interval[t]]

Stop(t) ==
    /\ mode[t] = "running"
    /\ mode' = [mode EXCEPT ![t] = "off"]
    /\ left' = [left EXCEPT ![t] = 0]

ServiceNext ==
    \/ Elapse
    \/ \E t \in Timers : Fire(t)
    \/ \E t \in Cyclic : Again(t)
    \/ \E t \in OnDemand : Start(t) \/ Stop(t)

ServiceSpec == ServiceInit /\ [][ServiceNext]_tsvars
=============================================================================
