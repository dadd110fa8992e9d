------------------------------- MODULE Timer -------------------------------
(***************************************************************************)
(* The timer card, sys161/bus/dev_timer.c, with the time-of-day half of    *)
(* sys161/main/clock.c that its first two registers expose.                *)
(*                                                                         *)
(* A countdown cannot be cancelled: a store to the countdown register      *)
(* leaves the old event in the clock's queue and makes it stale by moving  *)
(* td_generation on.  The time unit is the clock's, in which countdowns    *)
(* are given too (the register counts microseconds, which timer_start      *)
(* multiplies out).  A countdown of c expires c units after it is started; *)
(* its event is queued for up to one part in JITTER of c later, because    *)
(* schedule_event adds a random delay, and is handled at most Late units   *)
(* after that (Clock's LateByAtMostARun).                                  *)
(***************************************************************************)
EXTENDS Integers, FiniteSets

CONSTANTS
    Counts,     \* countdown values the kernel stores
    JITTER,     \* schedule_event delays by up to 1/JITTER of the time asked (100)
    Late,       \* the longest an event waits in the queue after its time
    TimerPool,  \* bound: timed actions left for this device
    Horizon,    \* bound: the last instant considered
    MaxStarts,  \* bound: countdowns started; td_generation never wraps
    SEC,        \* NSECS_PER_SEC
    UINT,       \* 2^32, the modulus of the time registers
    Seconds,    \* values the kernel stores to TREG_TSEC
    Nsecs       \* values the kernel stores to TREG_TNSEC

ASSUME TimerAssumption ==
    /\ Counts \subseteq Nat /\ JITTER \in Nat \ {0} /\ Late \in Nat /\ TimerPool \in Nat
    /\ Horizon \in Nat /\ MaxStarts \in Nat
    /\ SEC \in Nat /\ SEC >= 2 /\ UINT \in Nat /\ UINT >= 2 * SEC
    /\ Seconds \subseteq Nat /\ Nsecs \subseteq Nat

VARIABLES
    vnow,             \* clock_vnow()
    td_restartflag, td_count_usecs, td_generation,
    timers,           \* timer_interrupt events in the clock's queue
    tirq,             \* the slot's bit in IRQS
    start_secs, start_nsecs,
    armed,            \* history: when the newest countdown expires, or Idle
    tpower            \* "on", "hung" (debugger) or "smoke" (pool exhausted)

regs == <<td_restartflag, td_count_usecs>>
tod  == <<start_secs, start_nsecs>>
timerVars == <<vnow, regs, td_generation, timers, tirq, tod, armed, tpower>>

Idle  == -1
Event == [due : Nat, gen : 1 .. MaxStarts]

TimerTypeOK ==
    /\ vnow \in 0 .. Horizon /\ td_restartflag \in BOOLEAN
    /\ td_count_usecs \in Counts \cup {0} /\ td_generation \in 0 .. MaxStarts
    /\ timers \subseteq Event /\ Cardinality(timers) <= TimerPool
    /\ tirq \in BOOLEAN /\ armed \in {Idle} \cup Nat
    /\ start_secs \in 0 .. UINT - 1 /\ start_nsecs \in 0 .. UINT - 1
    /\ tpower \in {"on", "hung", "smoke"}

(* timer_init and clock_init: the clock starts at the host's time of day.  *)
TimerInit ==
    /\ vnow = 0 /\ td_restartflag = FALSE /\ td_count_usecs = 0
    /\ td_generation = 0 /\ timers = {} /\ tirq = FALSE /\ armed = Idle
    /\ start_secs = 0 /\ start_nsecs \in 0 .. SEC - 1
    /\ tpower = "on"

-----------------------------------------------------------------------------
(* What schedule_event may add to a time of n, at random (clock.c:300).    *)
Jitter(n) == 0 .. n \div JITTER

(* timer_start with td_count_usecs = count, queue being what is scheduled. *)
timer_start(count, queue) ==
    /\ td_generation < MaxStarts
    /\ td_generation' = td_generation + 1
    /\ IF Cardinality(queue) >= TimerPool
       THEN tpower' = "smoke" /\ timers' = queue /\ UNCHANGED armed
       ELSE /\ \E late \in Jitter(count) :
                 timers' = queue \cup {[due |-> vnow + count + late, gen |-> td_generation']}
            /\ armed' = vnow + count /\ UNCHANGED tpower

(* Mutant: stale events are not told apart.                                *)
Stale_never(e) == FALSE

Stale(e) == e.gen # td_generation

timer_interrupt(e) ==
    /\ tpower = "on" /\ e \in timers /\ e.due <= vnow
    /\ \A f \in timers : e.due <= f.due
    /\ \/ /\ Stale(e)
          /\ timers' = timers \ {e}
          /\ UNCHANGED <<tirq, td_generation, armed, tpower>>
       \/ /\ ~Stale(e) /\ tirq' = TRUE
          /\ \/ td_restartflag /\ timer_start(td_count_usecs, timers \ {e})
             \/ /\ ~td_restartflag /\ timers' = timers \ {e} /\ armed' = Idle
                /\ UNCHANGED <<td_generation, tpower>>
    /\ UNCHANGED <<vnow, regs, tod>>

(* TREG_TIME: the new count starts at once, whatever is running.           *)
store_time(count) ==
    /\ tpower = "on" /\ td_count_usecs' = count
    /\ timer_start(count, timers)
    /\ UNCHANGED <<vnow, td_restartflag, tirq, tod>>

store_rest(flag) ==
    /\ tpower = "on" /\ td_restartflag' = flag
    /\ UNCHANGED <<vnow, td_count_usecs, td_generation, timers, tirq, tod, armed, tpower>>

(* TREG_IRQ: reading clears.                                               *)
fetch_irq ==
    /\ tpower = "on" /\ tirq /\ tirq' = FALSE
    /\ UNCHANGED <<vnow, regs, td_generation, timers, tod, armed, tpower>>

(* Reading TREG_BEEP or a reserved register, or storing to TREG_IRQ or a   *)
(* reserved one: hang().  Beeping has no effect on the state.              *)
illegal_register ==
    /\ tpower = "on" /\ tpower' = "hung"
    /\ UNCHANGED <<vnow, regs, td_generation, timers, tirq, tod, armed>>

-----------------------------------------------------------------------------
(***************************************************************************)
(* Time of day.  Both registers are offsets to the virtual time, added     *)
(* without regard to each other; the carry is made when they are read.     *)
(***************************************************************************)
rawnsecs(ns, t) == (ns + (t % SEC)) % UINT

clock_time(s, ns, t) ==
    LET secs == s + (t \div SEC)
        raw  == rawnsecs(ns, t)
    IN IF raw > SEC THEN [secs |-> (secs + 1) % UINT, nsecs |-> raw - SEC]
                    ELSE [secs |-> secs % UINT, nsecs |-> raw]

Now == clock_time(start_secs, start_nsecs, vnow)

clock_setsecs(new) ==
    /\ tpower = "on"
    /\ start_secs' = (new - (vnow \div SEC)) % UINT
    /\ UNCHANGED <<vnow, regs, td_generation, timers, tirq, start_nsecs, armed, tpower>>

clock_setnsecs(new) ==
    /\ tpower = "on"
    /\ start_nsecs' = (new - (vnow % SEC)) % UINT
    /\ UNCHANGED <<vnow, regs, td_generation, timers, tirq, start_secs, armed, tpower>>

(* Virtual time advances (clock.c), but not past an event by more than     *)
(* Late.                                                                   *)
clock_advance ==
    /\ tpower = "on" /\ vnow < Horizon /\ vnow' = vnow + 1
    /\ \A e \in timers : vnow < e.due + Late
    /\ UNCHANGED <<regs, td_generation, timers, tirq, tod, armed, tpower>>

TimerNext ==
    \/ \E e \in timers : timer_interrupt(e)
    \/ \E c \in Counts : store_time(c)
    \/ \E f \in BOOLEAN : store_rest(f)
    \/ fetch_irq
    \/ illegal_register
    \/ \E s \in Seconds : clock_setsecs(s)
    \/ \E ns \in Nsecs : clock_setnsecs(ns)
    \/ clock_advance

TimerSpec == TimerInit /\ [][TimerNext]_timerVars

-----------------------------------------------------------------------------
(* The generation number tells the newest countdown from every older event *)
(* still queued: the interrupt is raised neither before the newest         *)
(* countdown has expired, nor later than schedule_event's random delay of  *)
(* that countdown and the queue's own lateness together, however often the *)
(* countdown was changed before (timer_interrupt's early return); and a    *)
(* countdown that was started is in the queue exactly once until it        *)
(* expires, so a restarting timer never dies and never runs twice.         *)
OnlyNewestFires ==
    ~tirq /\ tirq' =>
        armed # Idle /\ \E late \in Jitter(td_count_usecs) : vnow \in armed .. armed + late + Late
Newest == {e \in timers : e.gen = td_generation}
NewestQueuedOnce ==
    tpower # "smoke" =>
        IF armed = Idle THEN Newest = {}
        ELSE \E late \in Jitter(td_count_usecs) :
                Newest = {[due |-> armed + late, gen |-> td_generation]}

(* Time of day as the kernel reads it never goes backwards while virtual   *)
(* time advances, across every carry, and its nanoseconds do not exceed a  *)
(* second - as long as the nanoseconds stored did not reach back before    *)
(* the current second, which clock_setnsecs turns into an offset near      *)
(* 2^32.  (They do reach a second: the comparison is > where >= is meant.) *)
TimeGoesForward ==
    vnow' # vnow /\ start_nsecs < SEC /\ start_secs + Horizon < UINT =>
        LET a == Now
            b == clock_time(start_secs', start_nsecs', vnow')
        IN /\ a.secs < b.secs \/ (a.secs = b.secs /\ a.nsecs < b.nsecs)
           /\ b.nsecs <= SEC

(* The timer card keeps its two promises: only the newest countdown        *)
(* interrupts, once and in time, and the time of day does not go back.     *)
TimerExact == [][OnlyNewestFires /\ NewestQueuedOnce' /\ TimeGoesForward]_timerVars
=============================================================================
