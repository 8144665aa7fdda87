------------------------------ MODULE Timeouts ------------------------------
(***************************************************************************)
(* The clock of the firmware and what is driven by it: TIM3 advances       *)
(* lwip_sys_timer (timer.c); during the boot lwip_periodic_handle polls it *)
(* (lwip_app_comm.c); afterwards the main loop calls sys_check_timeouts,   *)
(* which serves the list of lwIP's timeouts (timeouts.c).                  *)
(*                                                                         *)
(* The counter and the times in the list wrap; the TIM3 handler can run    *)
(* between any two steps of the main code, and so can the Ethernet handler,*)
(* in which a connection may end.  All of timeouts.c runs in the main code.*)
(*                                                                         *)
(* sys_untimeout, sys_restart_timeouts and sys_timeouts_sleeptime have no  *)
(* caller in this configuration and are left out.                          *)
(***************************************************************************)
EXTENDS Integers, Sequences, FiniteSets

CONSTANTS Cyclic,    \* the timers of lwip_cyclic_timers that always run
          Tcp,       \* the TCP timer, index 0, which runs on demand
          Interval,  \* Interval[t]: interval_ms of timer t
          Periodic,  \* the handlers of lwip_periodic_handle, in its order
          PoolSize,  \* MEMP_NUM_SYS_TIMEOUT
          Modulus,   \* the counter has 32 bits (2^32)
          TickMs,    \* what TIM3 adds to the counter (10)
          StartTime, \* bound: what the counter has reached when lwIP starts
          MaxLate    \* assumption: the main code is never held up for longer

Timers == Cyclic \cup {Tcp}

\* LWIP_MAX_TIMEOUT is half the counter: a period and the lateness of the
\* main code together stay below it (in the firmware, 24 days).
ASSUME TimeoutsAssumption ==
    /\ IsFiniteSet(Cyclic) /\ Tcp \notin Cyclic
    /\ Interval \in [Timers -> Nat]
    /\ Periodic \in Seq(Timers) /\ Periodic # << >>
    /\ PoolSize \in Nat /\ PoolSize > Cardinality(Cyclic)
    /\ TickMs \in Nat /\ TickMs > 0
    /\ MaxLate \in Nat
    /\ Modulus \in Nat
    /\ StartTime \in Nat /\ 2 * StartTime < Modulus
    /\ \A t \in Timers : Interval[t] > 0 /\ 2 * (Interval[t] + MaxLate) < Modulus

VARIABLES lwip_sys_timer,  \* lwip_sys_timer, in milliseconds, wraps
          next_timeout,    \* the list, as a sequence of [id, time]
          due_time,        \* current_timeout_due_time
          tcp_active,      \* tcpip_tcp_timer_active
          pcb,             \* tcp_active_pcbs is not empty
          pc,              \* where the main code is
          now,             \* local variable of sys_check_timeouts
          cur,             \* the timer whose handler runs
          at,              \* the handler lwip_periodic_handle is at
          stamp,           \* stamp[i]: TCPTimer, ARPTimer, ...
          elapsed          \* history: true time since stamp[i] was taken

listVars == <<next_timeout, due_time, tcp_active>>
bootVars == <<at, stamp, elapsed>>
vars == <<lwip_sys_timer, next_timeout, due_time, tcp_active, pcb, pc, now, cur,
          at, stamp, elapsed>>

Counter == 0 .. (Modulus - 1)
Handlers == 1 .. Len(Periodic)

-----------------------------------------------------------------------------
(* The timeout list. *)

\* Mutant: a plain comparison, which fails when the counter wraps.
TimeLessPlain(t, c) == t < c

\* The unsigned difference of an earlier and a later time is a large number.
TIME_LESS_THAN(t, c) == 2 * ((t - c) % Modulus) >= Modulus

\* s with e as its element number k + 1.
Inserted(s, k, e) ==
    [i \in 1 .. (Len(s) + 1) |->
        IF i <= k THEN s[i] ELSE IF i = k + 1 THEN e ELSE s[i - 1]]

\* Mutant: the new timeout always becomes the head of the list.
TimeoutAtHead(id, time) ==
    next_timeout' = Inserted(next_timeout, 0, [id |-> id, time |-> time])

\* Behind those that are due no later than the new one.
sys_timeout_abs(id, time) ==
    IF Len(next_timeout) = PoolSize
      THEN next_timeout' = next_timeout
      ELSE \E k \in 0 .. Len(next_timeout) :
             /\ \A i \in 1 .. k : ~ TIME_LESS_THAN(time, next_timeout[i].time)
             /\ k < Len(next_timeout) => TIME_LESS_THAN(time, next_timeout[k + 1].time)
             /\ next_timeout' = Inserted(next_timeout, k, [id |-> id, time |-> time])

sys_timeout(id) == sys_timeout_abs(id, (lwip_sys_timer + Interval[id]) % Modulus)

FirstTimeout(t) == [id |-> t, time |-> (lwip_sys_timer + Interval[t]) % Modulus]

\* sys_timeouts_init: the periods all start in the same tick, so the list
\* holds the cyclic timers by their periods.
IsInitialList(s) ==
    /\ Len(s) = Cardinality(Cyclic)
    /\ \A t \in Cyclic : \E i \in 1 .. Len(s) : s[i] = FirstTimeout(t)
    /\ \A i, j \in 1 .. Len(s) : i < j => Interval[s[i].id] <= Interval[s[j].id]

\* TIM3 is started before the Ethernet and LCD set-up and has counted by the
\* time lwip_init runs; the time stamps of the boot loop start at 0.
Init ==
    /\ lwip_sys_timer \in 0 .. StartTime /\ lwip_sys_timer % TickMs = 0
    /\ next_timeout \in [1 .. Cardinality(Cyclic) -> {FirstTimeout(t) : t \in Cyclic}]
    /\ IsInitialList(next_timeout)
    /\ due_time = 0 /\ tcp_active = FALSE /\ pcb = FALSE
    /\ pc = "boot" /\ now = 0 /\ cur = Tcp
    /\ at = 1
    /\ stamp = [i \in Handlers |-> 0] /\ elapsed = [i \in Handlers |-> lwip_sys_timer]

-----------------------------------------------------------------------------
(* The true distance of a time of the list from the present. *)

Signed(t) == LET d == (t - lwip_sys_timer) % Modulus
             IN  IF 2 * d < Modulus THEN d ELSE d - Modulus

Entries == {next_timeout[i] : i \in 1 .. Len(next_timeout)}
Waiting == {e.id : e \in Entries}

mode == [t \in Timers |->
            IF pc = "handler" /\ cur = t THEN "running"
            ELSE IF t \in Waiting THEN "armed" ELSE "off"]

left == [t \in Timers |->
            IF pc = "handler" /\ cur = t THEN Signed(due_time)
            ELSE IF t \in Waiting THEN Signed((CHOOSE e \in Entries : e.id = t).time)
            ELSE 0]

-----------------------------------------------------------------------------
(* TIM3.  Time goes on as long as the main code is not MaxLate behind with *)
(* anything it has to do.                                                  *)

InBoot == pc \in {"boot", "due"}

OnTime ==
    /\ \A t \in Timers : left[t] - TickMs >= -MaxLate
    /\ InBoot => \A i \in Handlers : elapsed[i] + TickMs < Modulus \div 2

TIM3_IRQHandler ==
    /\ OnTime
    /\ lwip_sys_timer' = (lwip_sys_timer + TickMs) % Modulus
    /\ elapsed' = IF InBoot THEN [i \in Handlers |-> elapsed[i] + TickMs] ELSE elapsed
    /\ UNCHANGED <<listVars, pcb, pc, now, cur, at, stamp>>

-----------------------------------------------------------------------------
(* The boot loop in lwip_app_init calls lwip_periodic_handle. *)

\* Mutant: no reduction, so that no time at all counts as the longest time.
DeltaNotReduced(i) == (lwip_sys_timer - stamp[i] + Modulus - 1) % Modulus

\* numTimeDelta: the sum wraps at 2^32 before it is reduced modulo 2^32 - 1.
numTimeDelta(i) ==
    ((lwip_sys_timer - stamp[i] + (Modulus - 1)) % Modulus) % (Modulus - 1)

PeriodicTest ==
    /\ pc = "boot" /\ at \in Handlers
    /\ IF numTimeDelta(at) >= Interval[Periodic[at]]
         THEN pc' = "due" /\ at' = at
         ELSE at' = at + 1 /\ pc' = pc
    /\ UNCHANGED <<lwip_sys_timer, listVars, pcb, now, cur, stamp, elapsed>>

\* The counter is read a second time, then the handler is called.  None of
\* the handlers touches the list: no connection exists yet.
PeriodicCall ==
    /\ pc = "due"
    /\ stamp' = [stamp EXCEPT ![at] = lwip_sys_timer]
    /\ elapsed' = [elapsed EXCEPT ![at] = 0]
    /\ at' = at + 1 /\ pc' = "boot"
    /\ UNCHANGED <<lwip_sys_timer, listVars, pcb, now, cur>>

\* The loop goes round until the address is settled.
PeriodicAgain ==
    /\ pc = "boot" /\ at = Len(Periodic) + 1
    /\ at' = 1
    /\ UNCHANGED <<lwip_sys_timer, listVars, pcb, pc, now, cur, stamp, elapsed>>

\* The time stamps are not read any more: they keep a fixed value.
BootEnds ==
    /\ pc = "boot" /\ at = Len(Periodic) + 1
    /\ pc' = "loop" /\ at' = 1
    /\ stamp' = [i \in Handlers |-> 0] /\ elapsed' = [i \in Handlers |-> 0]
    /\ UNCHANGED <<lwip_sys_timer, listVars, pcb, now, cur>>

-----------------------------------------------------------------------------
(* The main loop. *)

\* tcp_connect registers the pcb: tcp_timer_needed starts the timer unless
\* it is on.
tcp_timer_needed ==
    IF tcp_active THEN UNCHANGED <<tcp_active, next_timeout>>
    ELSE tcp_active' = TRUE /\ sys_timeout(Tcp)

tcp_connect ==
    /\ pc = "loop" /\ ~pcb
    /\ pcb' = TRUE
    /\ tcp_timer_needed
    /\ UNCHANGED <<lwip_sys_timer, due_time, pc, now, cur, bootVars>>

\* The connection ends: a reset in the Ethernet handler at any moment, or
\* tcp_tmr giving up.
PcbGone ==
    /\ pcb
    /\ pcb' = FALSE
    /\ UNCHANGED <<lwip_sys_timer, listVars, pc, now, cur, bootVars>>

\* Only what has expired when sys_check_timeouts is entered is served.
CheckEnter ==
    /\ pc = "loop"
    /\ pc' = "check" /\ now' = lwip_sys_timer
    /\ UNCHANGED <<lwip_sys_timer, listVars, pcb, cur, bootVars>>

HeadExpired ==
    next_timeout # << >> /\ ~ TIME_LESS_THAN(now, next_timeout[1].time)

\* The local variable is dead after the return: it keeps a fixed value.
CheckReturn ==
    /\ pc = "check" /\ ~HeadExpired
    /\ pc' = "loop" /\ now' = 0
    /\ UNCHANGED <<lwip_sys_timer, listVars, pcb, cur, bootVars>>

CheckFire ==
    /\ pc = "check" /\ HeadExpired
    /\ next_timeout' = Tail(next_timeout)
    /\ due_time' = Head(next_timeout).time
    /\ cur' = Head(next_timeout).id
    /\ pc' = "handler"
    /\ UNCHANGED <<lwip_sys_timer, tcp_active, pcb, now, bootVars>>

\* Mutant: the time is read again before every look at the list.
BackRereads ==
    /\ pc' = "check" /\ due_time' = 0 /\ cur' = Tcp
    /\ now' = lwip_sys_timer
    /\ UNCHANGED <<lwip_sys_timer, bootVars>>

\* current_timeout_due_time is read only in handlers: it keeps a fixed value.
BackInCheck ==
    /\ pc' = "check" /\ due_time' = 0 /\ cur' = Tcp
    /\ UNCHANGED <<lwip_sys_timer, now, bootVars>>

\* Mutant: the period always counts from the time the timer was due.
CyclicNoOverload ==
    /\ pc = "handler" /\ cur \in Cyclic
    /\ sys_timeout_abs(cur, (due_time + Interval[cur]) % Modulus)
    /\ BackInCheck
    /\ UNCHANGED <<tcp_active, pcb>>

\* lwip_cyclic_timer, after the handler proper has run.
lwip_cyclic_timer ==
    /\ pc = "handler" /\ cur \in Cyclic
    /\ LET next == (due_time + Interval[cur]) % Modulus
       IN  IF TIME_LESS_THAN(next, lwip_sys_timer)
             THEN sys_timeout(cur)
             ELSE sys_timeout_abs(cur, next)
    /\ BackInCheck
    /\ UNCHANGED <<tcp_active, pcb>>

\* Mutant: the flag is not cleared when the timer is not restarted.
TcpTimerFlagKept ==
    /\ pc = "handler" /\ cur = Tcp
    /\ IF pcb THEN sys_timeout(Tcp) ELSE UNCHANGED next_timeout
    /\ BackInCheck
    /\ UNCHANGED <<tcp_active, pcb>>

\* tcpip_tcp_timer, after tcp_tmr.
tcpip_tcp_timer ==
    /\ pc = "handler" /\ cur = Tcp
    /\ IF pcb THEN sys_timeout(Tcp) /\ UNCHANGED tcp_active
       ELSE tcp_active' = FALSE /\ UNCHANGED next_timeout
    /\ BackInCheck
    /\ UNCHANGED pcb

-----------------------------------------------------------------------------
Boot == PeriodicTest \/ PeriodicCall \/ PeriodicAgain \/ BootEnds
Check == CheckEnter \/ CheckReturn \/ CheckFire \/ lwip_cyclic_timer \/ tcpip_tcp_timer

Next == TIM3_IRQHandler \/ Boot \/ tcp_connect \/ PcbGone \/ Check

Spec == Init /\ [][Next]_vars

\* The timer hardware runs, the main code is never stopped for ever and the
\* boot ends (LwipAddress shows when it does).
FairSpec == /\ Spec
            /\ WF_vars(TIM3_IRQHandler)
            /\ WF_vars(PeriodicTest) /\ WF_vars(PeriodicCall) /\ SF_vars(BootEnds)
            /\ WF_vars(Check)

-----------------------------------------------------------------------------
TypeOK ==
    /\ lwip_sys_timer \in Counter /\ now \in Counter /\ due_time \in Counter
    /\ next_timeout \in Seq([id : Timers, time : Counter])
    /\ tcp_active \in BOOLEAN /\ pcb \in BOOLEAN
    /\ pc \in {"boot", "due", "loop", "check", "handler"}
    /\ cur \in Timers
    /\ at \in 1 .. (Len(Periodic) + 1)
    /\ pc = "due" => at \in Handlers
    /\ stamp \in [Handlers -> Counter] /\ elapsed \in [Handlers -> Nat]

\* No timer is ever lost, though each is taken off the list, and its element
\* returned to the pool, before its handler arms it again: a cyclic timer is
\* on the list or in its handler, never both and never twice; the TCP timer
\* is so exactly when its flag says so, and it is whenever a connection
\* exists; the pool is never too small for the next one.
TimersKept ==
    /\ \A i, j \in 1 .. Len(next_timeout) :
          i # j => next_timeout[i].id # next_timeout[j].id
    /\ \A t \in Cyclic : mode[t] # "off"
    /\ tcp_active = (mode[Tcp] # "off")
    /\ pcb => tcp_active
    /\ pc = "handler" => cur \notin Waiting
    /\ Len(next_timeout) < PoolSize \/ pc # "handler"

\* The wrapping counter and the sorted list implement timers over true time:
\* never early, longest overdue first, no drift, across any number of wraps.
Service == INSTANCE TimerService
             WITH OnDemand <- {Tcp}, Step <- TickMs
ImplementsTimerService == Service!ServiceSpec

\* How far lwip_periodic_handle departs from its comments, "call tcp_tmr() every
\* 250 ms" (lwip_app_comm.c:138) and "every 500 ms" (158): an interval of true
\* time that has just passed is not enough, the call comes at the first look
\* after it, a tick later; never earlier, and no later than that, whatever the
\* counter and the stamp are (137-173).
PeriodicTickLate ==
    [][PeriodicTest => (pc' = "due") = (elapsed[at] > Interval[Periodic[at]])]_vars

\* A call of sys_check_timeouts ends however long the handlers take: what
\* expires meanwhile is left to the next call.
CheckReturns == (pc = "check") ~> (pc = "loop")

\* Every cyclic timer is called again and again, and so is the TCP timer as
\* long as there is a connection.
TimersServed ==
    /\ \A t \in Cyclic : []<>(pc = "handler" /\ cur = t)
    /\ pcb ~> (pc = "handler" /\ cur = Tcp) \/ ~pcb
=============================================================================
