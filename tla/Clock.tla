-------------------------------- MODULE Clock --------------------------------
(***************************************************************************)
(* Virtual time: the event queue of sys161/main/clock.c, the main loop of  *)
(* main.c that feeds it, the select dispatcher of onsel.c, and the cycle   *)
(* budget of cpu_cycles() in mipscore.h.                                   *)
(*                                                                         *)
(* The loop grants the CPUs a run of goticks cycles computed from the head *)
(* of the queue; a device register store during that run may put a new     *)
(* event in front of the queue.  When every CPU idles, time jumps to the   *)
(* next event or follows a host-level sleep.  Input handlers run with      *)
(* extra_selecttime added to the clock, and gdb can single-step the        *)
(* machine from inside such a handler, whoever called select(): runloop(), *)
(* stoploop() or clock_waitirq().                                          *)
(*                                                                         *)
(* virtual_now only grows, so every time is kept relative to it: a queue   *)
(* entry's due is ta_vtime - virtual_now, and clock_vadvance(n) subtracts  *)
(* n from all of them.  The state space is finite without a bound on time. *)
(***************************************************************************)
EXTENDS Integers, Sequences

CONSTANTS
    NSECS_PER_CLOCK,  \* length of a CPU cycle
    ROTOR,            \* cycles between two polls of select()
    MAXRUN,           \* longest run getrunticks() grants, in cycles
    MAXACTIONS,       \* size of the pool of timed actions
    MinSleep,         \* shorter waits do not sleep (10 ms in clock_waitirq)
    Delays,           \* the delays devices ask for, jitter included
    MaxSleep,         \* bound: longest measured time in select()
    MaxSteps,         \* bound: single steps gdb asks for in one idle jump
    Tags,             \* {FALSE}, or BOOLEAN to follow one event's fate
    Debugger          \* whether the debugger can be entered

ASSUME ClockAssumption ==
    /\ NSECS_PER_CLOCK \in Nat \ {0} /\ ROTOR \in Nat \ {0}
    /\ MAXRUN \in Nat \ {0} /\ MAXACTIONS \in Nat \ {0}
    /\ MinSleep \in Nat /\ MaxSleep \in Nat /\ MaxSteps \in Nat
    /\ Delays \subseteq Nat /\ Tags \subseteq BOOLEAN /\ Debugger \in BOOLEAN

VARIABLES
    queue,                \* [due, runningto, prompt, tag], soonest first
    cpu_cycles_count,     \* cycles done in the current run
    goticks,              \* cycles granted for the current run
    cpu_cycling,          \* FALSE: cpu_cycles() must return
    running,              \* cpu_running_mask # 0
    rotor,                \* cycles left before the next poll
    extra_selecttime,     \* time slept, visible to the handlers of a select
    sleptnsecs,           \* what clock_waitirq() will advance the clock by
    jump,                 \* history: that advance is a jump, not a sleep
    stepped,              \* history: cycles gdb stepped inside that jump
    idleslop,             \* clock_waitirq's remainder below one cycle
    vnow,                 \* the time check_queue() compares with
    phase,                \* where the loop is
    caller,               \* who is in check_queue: runloop, waitirq, onecycle
    selector,             \* who is in tryselect: runloop, waitirq, stoploop
    stopped_in_debugger, shutoff_flag

cyclevars == <<cpu_cycles_count, goticks, cpu_cycling>>
idlevars  == <<sleptnsecs, jump, stepped, idleslop>>
flags     == <<stopped_in_debugger, shutoff_flag>>
vars == <<queue, cyclevars, running, rotor, extra_selecttime, idlevars, vnow,
          phase, caller, selector, flags>>

(* "tag" marks one event so that its fate can be followed; "prompt" says   *)
(* the loop knew of the event when it last chose how far to go.            *)
Event == [due : Int, runningto : BOOLEAN, prompt : BOOLEAN, tag : BOOLEAN]

TypeOK ==
    /\ queue \in Seq(Event) /\ Len(queue) <= MAXACTIONS
    /\ cpu_cycles_count \in 0 .. goticks /\ goticks \in 0 .. MAXRUN
    /\ rotor \in 1 .. ROTOR \/ (rotor = 0 /\ phase \in {"queue", "smoke"})
    /\ extra_selecttime \in 0 .. MaxSleep /\ sleptnsecs \in Nat
    /\ stepped \in 0 .. MaxSteps
    /\ idleslop \in 0 .. NSECS_PER_CLOCK - 1 /\ vnow \in Int
    /\ phase \in {"top", "run", "queue", "handlers", "break", "stop",
                 "idle", "off", "smoke"}
    /\ caller \in {"runloop", "waitirq", "onecycle"}
    /\ selector \in {"runloop", "waitirq", "stoploop"}
    /\ <<cpu_cycling, running, jump, stopped_in_debugger, shutoff_flag>>
         \in BOOLEAN \X BOOLEAN \X BOOLEAN \X BOOLEAN \X BOOLEAN

Init ==
    /\ queue = <<>>
    /\ cpu_cycles_count = 0 /\ goticks = 0 /\ cpu_cycling = FALSE
    /\ running = TRUE /\ rotor = ROTOR
    /\ extra_selecttime = 0 /\ sleptnsecs = 0 /\ jump = FALSE /\ stepped = 0
    /\ idleslop = 0
    /\ vnow = 0 /\ phase = "top" /\ caller = "runloop" /\ selector = "runloop"
    /\ stopped_in_debugger = FALSE /\ shutoff_flag = FALSE

-----------------------------------------------------------------------------
(***************************************************************************)
(* The queue.                                                              *)
(***************************************************************************)

(* The current time, relative to virtual_now.                              *)
clock_vnow == NSECS_PER_CLOCK * cpu_cycles_count + extra_selecttime

clock_vadvance(q, nsecs) == [i \in DOMAIN q |-> [q[i] EXCEPT !.due = @ - nsecs]]

(* Mutant: the search looks at the second event first.                     *)
InsertPos_skiphead(q, due) ==
    IF q = <<>> THEN 1
    ELSE CHOOSE p \in 2 .. Len(q) + 1 :
           /\ \A i \in 2 .. p - 1 : q[i].due <= due
           /\ p <= Len(q) => due < q[p].due

(* Sorted insert: behind every event that is due no later.                 *)
InsertPos(q, due) ==
    CHOOSE p \in 1 .. Len(q) + 1 :
        /\ \A i \in 1 .. p - 1 : q[i].due <= due
        /\ p <= Len(q) => due < q[p].due

(* Does the loop account for an event added now?  Not when it is already   *)
(* in a run without a deadline at the queue's head, nor when clock_waitirq *)
(* has already decided to jump.                                            *)
Noticed(q) ==
    /\ ~jump
    /\ phase = "run" => q # <<>> /\ q[1].runningto

(* Mutant: cpu_stopcycling() is never called.                              *)
Told_never(q, p) == FALSE

(* An event goes in at p, right before one the CPUs are running to.        *)
Told(q, p) == p <= Len(q) /\ q[p].runningto

(* schedule_event on a queue q while inuse further actions are allocated:  *)
(* the pool may be empty, which ends the simulation; otherwise insert, and *)
(* stop the CPUs if they were running towards the event now behind.        *)
schedule_event(q, inuse) ==
    IF Len(q) + inuse >= MAXACTIONS
      THEN phase' = "smoke" /\ queue' = q /\ UNCHANGED cpu_cycling
      ELSE \E d \in Delays, t \in Tags :
             LET new  == [due |-> clock_vnow + d, runningto |-> FALSE,
                          prompt |-> Noticed(q), tag |-> t]
                 p    == InsertPos(q, new.due)
                 told == Told(q, p)
                 rest == SubSeq(q, p, Len(q))
             IN  /\ t => \A i \in 1 .. Len(queue) : ~queue[i].tag
                 /\ queue' = SubSeq(q, 1, p - 1) \o <<new>> \o
                       (IF told THEN [rest EXCEPT ![1].runningto = FALSE] ELSE rest)
                 /\ cpu_cycling' = (cpu_cycling /\ ~told)
                 /\ UNCHANGED phase

(* What a device's event or input handler can do besides its own state:    *)
(* schedule an event, wake a CPU with an interrupt, ask to stop or to      *)
(* power off.                                                              *)
Handler(q, inuse) ==
    \/ /\ schedule_event(q, inuse) /\ UNCHANGED <<running, flags>>
    \/ /\ queue' = q /\ running' = TRUE
       /\ UNCHANGED <<phase, cpu_cycling, flags>>
    \/ /\ queue' = q /\ shutoff_flag' = TRUE /\ running' \in {running, TRUE}
       /\ UNCHANGED <<phase, cpu_cycling, stopped_in_debugger>>
    \/ /\ queue' = q /\ Debugger /\ stopped_in_debugger' = TRUE
       /\ UNCHANGED <<phase, cpu_cycling, running, shutoff_flag>>

-----------------------------------------------------------------------------
(***************************************************************************)
(* A run of the CPUs.                                                      *)
(***************************************************************************)

(* Mutant: round down.                                                     *)
Ticks_down(nsecs) == nsecs \div NSECS_PER_CLOCK

(* Round up: an event less than one cycle away is a cycle away.            *)
Ticks(nsecs) == (nsecs + NSECS_PER_CLOCK - 1) \div NSECS_PER_CLOCK

RunsToHead ==
    queue # <<>> /\ queue[1].due > 0 /\ queue[1].due < MAXRUN * NSECS_PER_CLOCK

clock_getrunticks ==
    IF RunsToHead THEN Ticks(queue[1].due)
    ELSE IF queue # <<>> /\ queue[1].due <= 0 THEN 0
    ELSE MAXRUN

(* The loop now knows of every event, and of the one it is running to.     *)
SeenQueue(to) ==
    [i \in DOMAIN queue |-> [queue[i] EXCEPT !.prompt = TRUE,
                                             !.runningto = @ \/ (to /\ i = 1)]]

(* Mutant: a run is not cut short for the poll of select().                *)
Budget_norotor == clock_getrunticks

(* The cycles runloop() grants.                                            *)
Budget == IF clock_getrunticks > rotor THEN rotor ELSE clock_getrunticks

(* Mutant: check_queue() before clock_vadvance().                          *)
clock_ticks_swapped(q, i) ==
    /\ queue' = clock_vadvance(q, i * NSECS_PER_CLOCK)
    /\ cpu_cycles_count' = 0 /\ goticks' = 0 /\ cpu_cycling' = FALSE
    /\ vnow' = extra_selecttime - i * NSECS_PER_CLOCK
    /\ rotor' = IF caller = "onecycle" THEN rotor ELSE rotor - i
    /\ phase' = "queue"

(* clock_ticks(i): advance, then check_queue(), which reads the time once. *)
(* rotor is runloop's; onecycle() bills nothing to it.  The three cycle    *)
(* variables are dead outside a run and are reset here.                    *)
clock_ticks(q, i) ==
    /\ queue' = clock_vadvance(q, i * NSECS_PER_CLOCK)
    /\ cpu_cycles_count' = 0 /\ goticks' = 0 /\ cpu_cycling' = FALSE
    /\ vnow' = extra_selecttime
    /\ rotor' = IF caller = "onecycle" THEN rotor ELSE rotor - i
    /\ phase' = "queue"

(* The top of runloop(): no cycle at all is run if an event is overdue.    *)
StartRun ==
    /\ phase = "top" /\ ~shutoff_flag
    /\ caller' = "runloop"
    /\ IF Budget = 0
         THEN /\ queue' = SeenQueue(FALSE) /\ vnow' = 0 /\ phase' = "queue"
              /\ UNCHANGED <<goticks, cpu_cycling>>
         ELSE /\ cpu_cycling' = TRUE
              /\ queue' = SeenQueue(RunsToHead) /\ phase' = "run"
              /\ goticks' = Budget
              /\ UNCHANGED vnow
    /\ UNCHANGED <<cpu_cycles_count, running, rotor, extra_selecttime, idlevars,
                   selector, flags>>

PowerOff ==
    /\ phase = "top" /\ shutoff_flag
    /\ phase' = "off"
    /\ UNCHANGED <<queue, cyclevars, running, rotor, extra_selecttime, idlevars,
                   vnow, caller, selector, flags>>

(* What the instructions of one cycle do to the clock: several CPUs may    *)
(* each store to a device, wait, hang or hit a breakpoint.                 *)
Instruction ==
    /\ phase = "run" /\ running
    /\ \/ schedule_event(queue, 0) /\ UNCHANGED <<running, flags>>
       \/ /\ running' = FALSE
          /\ UNCHANGED <<queue, phase, cpu_cycling, flags>>
       \/ /\ Debugger /\ stopped_in_debugger' = TRUE /\ cpu_cycling' = FALSE
          /\ UNCHANGED <<queue, phase, running, shutoff_flag>>
    /\ UNCHANGED <<cpu_cycles_count, goticks, rotor, extra_selecttime, idlevars,
                   vnow, caller, selector>>

(* The end of a cycle.  It is not billed if some CPU hit a breakpoint; if  *)
(* every CPU idles the rest of the run is skipped, unless an event was     *)
(* scheduled inside it.                                                    *)
CycleEnd ==
    /\ phase = "run"
    /\ \E billed \in {0, 1} :
         LET i == IF ~running /\ cpu_cycling THEN goticks
                  ELSE cpu_cycles_count + billed
         IN  /\ billed = 0 => stopped_in_debugger /\ ~cpu_cycling
             /\ IF i < goticks /\ cpu_cycling
                  THEN /\ cpu_cycles_count' = i
                       /\ UNCHANGED <<queue, goticks, cpu_cycling, vnow, rotor, phase>>
                  ELSE clock_ticks(queue, i)
    /\ UNCHANGED <<running, extra_selecttime, idlevars, caller,
                   selector, flags>>

-----------------------------------------------------------------------------
(***************************************************************************)
(* check_queue().                                                          *)
(***************************************************************************)
Due == queue # <<>> /\ queue[1].due <= vnow

(* The action goes back to the pool after its handler has run.             *)
Dispatch ==
    /\ phase = "queue" /\ Due
    /\ Handler(Tail(queue), 1)
    /\ UNCHANGED <<cpu_cycles_count, goticks, rotor, extra_selecttime, idlevars,
                   vnow, caller, selector>>

(* The bottom of runloop(): the debugger, then the idle loop.              *)
AfterStop   == IF running THEN "top" ELSE "idle"
AfterSelect == IF stopped_in_debugger THEN "break" ELSE AfterStop

(* check_queue() is done.  After clock_ticks' queue check the watchdog may *)
(* ask to stop; it is modelled by that outcome only.  runloop() polls      *)
(* select() when the rotor has run down.                                   *)
QueueDone ==
    /\ phase = "queue" /\ ~Due
    /\ CASE caller = "waitirq" ->
              /\ phase' = "idle" /\ stepped' = 0
              /\ UNCHANGED <<rotor, selector, stopped_in_debugger>>
         [] caller = "onecycle" ->
              /\ phase' = "handlers"
              /\ stopped_in_debugger' \in {stopped_in_debugger, Debugger}
              /\ UNCHANGED <<rotor, selector, stepped>>
         [] caller = "runloop" /\ rotor = 0 ->
              /\ rotor' = ROTOR
              /\ phase' = "handlers" /\ selector' = "runloop"
              /\ stopped_in_debugger' \in {stopped_in_debugger, Debugger}
              /\ UNCHANGED stepped
         [] OTHER ->
              /\ stopped_in_debugger' \in {stopped_in_debugger, Debugger}
              /\ phase' = IF stopped_in_debugger' THEN "break" ELSE AfterStop
              /\ UNCHANGED <<rotor, selector, stepped>>
    /\ vnow' = 0 /\ caller' = "runloop"
    /\ UNCHANGED <<queue, cyclevars, running, extra_selecttime, sleptnsecs, jump,
                   idleslop, shutoff_flag>>

-----------------------------------------------------------------------------
(***************************************************************************)
(* tryselect() and its callers.                                            *)
(***************************************************************************)

(* An input handler.  Those of gdb, which read packets in any select(),    *)
(* stopped or not, may also let the program continue, or run a single      *)
(* cycle on the spot.                                                      *)
InputHandler ==
    /\ phase = "handlers"
    /\ Handler(queue, 0)
    /\ UNCHANGED <<cpu_cycles_count, goticks, rotor, extra_selecttime, idlevars,
                   vnow, caller, selector>>

main_leave_debugger ==
    /\ phase = "handlers" /\ Debugger
    /\ stopped_in_debugger' = FALSE
    /\ UNCHANGED <<queue, cyclevars, running, rotor, extra_selecttime, idlevars,
                   vnow, phase, caller, selector, shutoff_flag>>

onecycle ==
    /\ phase = "handlers" /\ Debugger
    /\ jump => stepped < MaxSteps
    /\ stepped' = IF jump THEN stepped + 1 ELSE stepped
    /\ phase' = "run" /\ caller' = "onecycle"
    /\ goticks' = 1 /\ cpu_cycles_count' = 0 /\ cpu_cycling' = TRUE
    /\ UNCHANGED <<queue, running, rotor, extra_selecttime, sleptnsecs, jump,
                   idleslop, vnow, selector, flags>>

(* gdb_startbreak(): wait for the debugger, or with -X go on or give up.   *)
gdb_startbreak ==
    /\ phase = "break"
    /\ \/ phase' = "stop" /\ UNCHANGED stopped_in_debugger
       \/ phase' = "stop" /\ stopped_in_debugger' = FALSE
       \/ phase' = "off" /\ UNCHANGED stopped_in_debugger
    /\ UNCHANGED <<queue, cyclevars, running, rotor, extra_selecttime, idlevars,
                   vnow, caller, selector, shutoff_flag>>

(* tryselect() has measured a wait of nsecs and calls the ready handlers.  *)
(* An error or an empty set of descriptors is a select without handlers.   *)
tryselect(who, nsecs) ==
    /\ phase' = "handlers" /\ selector' = who /\ extra_selecttime' = nsecs

StopLoop ==
    /\ phase = "stop"
    /\ IF stopped_in_debugger /\ ~shutoff_flag
         THEN \E s \in 0 .. MaxSleep : tryselect("stoploop", s)
         ELSE phase' = AfterStop /\ UNCHANGED <<selector, extra_selecttime>>
    /\ UNCHANGED <<queue, cyclevars, running, rotor, idlevars, vnow, caller, flags>>

(* One pass of clock_waitirq() up to its select.  How far ahead of the     *)
(* host clock the next event is, wnsecs, can be anything up to the time    *)
(* until it is due.                                                        *)
WaitIrq ==
    /\ phase = "idle" /\ ~running
    /\ queue' = SeenQueue(FALSE)
    /\ IF queue = <<>>
         THEN \E s \in 0 .. MaxSleep :
                tryselect("waitirq", s) /\ sleptnsecs' = s /\ jump' = FALSE
         ELSE \E wnsecs \in 0 .. queue[1].due :
                \/ /\ wnsecs > MinSleep /\ jump' = FALSE
                   /\ \E s \in 0 .. MaxSleep :
                        /\ tryselect("waitirq", s)
                        /\ sleptnsecs' = IF s > wnsecs THEN wnsecs ELSE s
                \/ /\ wnsecs <= MinSleep /\ jump' = TRUE
                   /\ tryselect("waitirq", 0) /\ sleptnsecs' = queue[1].due
    /\ UNCHANGED <<cyclevars, running, rotor, stepped, idleslop, vnow, caller, flags>>

WaitIrqDone ==
    /\ phase = "idle" /\ running
    /\ phase' = "top"
    /\ UNCHANGED <<queue, cyclevars, running, rotor, extra_selecttime, idlevars,
                   vnow, caller, selector, flags>>

(* The handlers are done; clock_waitirq() advances time by the sleep and   *)
(* by the remainder left over from the previous one, whatever gdb stepped  *)
(* in the meantime.                                                        *)
SelectDone ==
    /\ phase = "handlers"
    /\ extra_selecttime' = 0
    /\ IF selector = "waitirq"
         THEN LET tmp == sleptnsecs + idleslop
              IN  /\ queue' = clock_vadvance(queue, tmp)
                  /\ idleslop' = tmp % NSECS_PER_CLOCK
                  /\ sleptnsecs' = 0 /\ jump' = FALSE /\ UNCHANGED stepped
                  /\ phase' = "queue" /\ caller' = "waitirq"
         ELSE /\ phase' = IF selector = "stoploop" THEN "stop" ELSE AfterSelect
              /\ UNCHANGED <<queue, idlevars, caller>>
    /\ selector' = "runloop"
    /\ UNCHANGED <<cyclevars, running, rotor, vnow, flags>>

Next == \/ StartRun \/ PowerOff \/ Instruction \/ CycleEnd
        \/ Dispatch \/ QueueDone
        \/ InputHandler \/ main_leave_debugger \/ onecycle \/ gdb_startbreak
        \/ StopLoop \/ WaitIrq \/ WaitIrqDone \/ SelectDone

Spec == Init /\ [][Next]_vars

(***************************************************************************)
(* Every step but the reactions of the outside world is sequential code    *)
(* that goes on.  The handlers of one select() are finitely many, and so   *)
(* are the instructions of one cycle.  A sleep takes host time: not every  *)
(* select() that sleeps is cut short at 0 ns for ever.  Dispatch has no    *)
(* fairness: a handler that schedules itself again with no delay leaves    *)
(* the state as it found it, a step the logic cannot tell from none, and   *)
(* check_queue() then never returns.                                       *)
(***************************************************************************)
Fairness ==
    /\ WF_vars(StartRun) /\ WF_vars(PowerOff) /\ SF_vars(CycleEnd)
    /\ WF_vars(QueueDone)
    /\ WF_vars(gdb_startbreak) /\ WF_vars(StopLoop)
    /\ WF_vars(WaitIrq) /\ SF_vars(WaitIrq /\ sleptnsecs' > 0)
    /\ WF_vars(WaitIrqDone) /\ SF_vars(SelectDone)

FairSpec == Spec /\ Fairness

-----------------------------------------------------------------------------
(***************************************************************************)
(* Properties.                                                             *)
(***************************************************************************)

(* The queue is sorted by due time: check_queue() stops at the first event *)
(* that is not due and getrunticks() and clock_waitirq() look at the head  *)
(* only, so one event out of order delays all those behind it.             *)
QueueSorted == \A i \in 1 .. Len(queue) - 1 : queue[i].due <= queue[i + 1].due

(* clock_waitirq() computes queuehead->ta_vtime - vnow in unsigned 64-bit  *)
(* arithmetic: the head must not be overdue when the idle loop looks at    *)
(* it, or virtual time jumps ahead by centuries.                           *)
NoUnderflow == phase = "idle" /\ queue # <<>> => queue[1].due >= 0

(* An event the loop knew of when it chose how far to let time run is      *)
(* never more than one cycle late, whatever is scheduled in the meantime:  *)
(* what ta_runningto and cpu_stopcycling() are for.  One thing adds to     *)
(* that: cycles gdb single-steps after clock_waitirq() has decided to jump *)
(* to the next event, because the jump is not shortened by them.  A sleep  *)
(* needs no such allowance: the handlers see it in clock_vnow(), and the   *)
(* check_queue() of the step dispatches what it makes due.                 *)
OnTime ==
    \A i \in 1 .. Len(queue) : queue[i].prompt =>
        NSECS_PER_CLOCK * cpu_cycles_count - queue[i].due
            <= NSECS_PER_CLOCK * (1 + stepped)

(* An event scheduled in the middle of a run that has no deadline (empty   *)
(* queue, or head beyond MAXRUN) does not stop the CPUs; it can be late,   *)
(* but never by more than the ROTOR cycles a run can take.                 *)
LateByAtMostARun ==
    phase \in {"top", "run"} \/ (phase = "queue" /\ caller # "waitirq") =>
        \A i \in 1 .. Len(queue) :
            NSECS_PER_CLOCK * cpu_cycles_count - queue[i].due
                <= NSECS_PER_CLOCK * ROTOR

(* clock.c on virtual time: "when the main loop is stopped in the          *)
(* debugger: not at all".  No event is dispatched there, by a step gdb     *)
(* asks stoploop()'s select() for, before virtual time has reached it.     *)
StoppedClockStands ==
    phase = "queue" /\ Due /\ selector = "stoploop" => queue[1].due <= 0

(* A scheduled event is eventually dispatched, unless the simulation ends, *)
(* the user leaves the machine stopped in the debugger, or check_queue()   *)
(* never returns: a handler that goes on scheduling with no delay (a timer *)
(* that restarts with a count of 0) keeps one call of it busy for ever and *)
(* starves every event that is due later.                                  *)
Dispatched ==
    <>[]~stopped_in_debugger /\ []<>(phase # "queue") =>
        ((\E i \in 1 .. Len(queue) : queue[i].tag)
            ~> (phase \in {"off", "smoke"}
                  \/ \A i \in 1 .. Len(queue) : ~queue[i].tag))
=============================================================================
