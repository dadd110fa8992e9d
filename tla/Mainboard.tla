------------------------------ MODULE Mainboard ------------------------------
(***************************************************************************)
(* The LAMEbus controller (sys161/bus/lamebus.c) wired to the run states   *)
(* and interrupt pins of the CPUs (sys161/mipseb/mips.c, mipscore.h), and  *)
(* driven by the phases of the main loop (sys161/main/main.c).             *)
(*                                                                         *)
(* Everything runs in one host thread.  What makes the interrupt logic     *)
(* subtle is that it is spread over caches of the same fact: the bus keeps *)
(* the raised slots and two levels of masks, remembers for each CPU        *)
(* whether its line is asserted, each CPU holds its own copy of the pins,  *)
(* and cpu_running_mask mirrors the CPU states.  Every path that changes   *)
(* one of them has to keep the others in step, or an idle CPU sleeps       *)
(* through its interrupt.                                                  *)
(*                                                                         *)
(* A 32-bit register mask is a set: of slots for IRQS/IRQE/CIRQE, of CPUs  *)
(* for CPUE and cpu_running_mask.                                          *)
(***************************************************************************)
EXTENDS Integers, FiniteSets

CONSTANTS
    NCPUS,           \* ncpus: number of CPUs on the board (1..32)
    Slot,            \* the LAMEbus slots of interest
    ControllerSlot,  \* LAMEBUS_CONTROLLER_SLOT, the bus controller's own slot
    IsOld            \* TRUE for the uniprocessor "oldmainboard"

ASSUME NCPUSAssumption == NCPUS \in Nat \ {0}
ASSUME SlotAssumption  == ControllerSlot \in Slot
ASSUME OldAssumption   == IsOld \in BOOLEAN /\ (IsOld => NCPUS = 1)

Cpu == 0 .. NCPUS - 1

VARIABLES
    bus_raised_interrupts,   \* IRQS
    bus_enabled_interrupts,  \* IRQE
    cpu_enabled_interrupts,  \* CIRQE of each CPU
    cpu_ipi,                 \* CIPI of each CPU
    cpu_interrupting,        \* the line level last sent to each CPU
    cpu_enabled,             \* the bits of CPUE
    state,                   \* CPU_DISABLED, CPU_IDLE or CPU_RUNNING
    cpu_running_mask,        \* the CPUs the main loop believes are running
    irq_lamebus, irq_ipi,    \* the external interrupt pins of each CPU
    irq_timer,               \* the on-chip timer interrupt of each CPU
    ex_compare_used,         \* whether the timer was ever programmed
    phase,                   \* where the main loop is
    whichcpu,                \* loop index of cpu_cycle(); NCPUS: cycle is over
    cpu_cycling,             \* FALSE: cpu_cycles() must return
    power_event,             \* a dopoweroff event is in the clock's queue
    shutoff_flag,            \* main_poweroff() was called
    stopped_in_debugger,     \* main_enter_debugger() was called
    stepping                 \* the cycle in progress is onecycle() under gdb

busvars  == <<bus_raised_interrupts, bus_enabled_interrupts,
              cpu_enabled_interrupts, cpu_ipi, cpu_interrupting, cpu_enabled>>
cpuvars  == <<state, cpu_running_mask, irq_lamebus, irq_ipi>>
timevars == <<irq_timer, ex_compare_used>>
loopvars == <<phase, whichcpu, cpu_cycling, power_event, shutoff_flag,
              stopped_in_debugger, stepping>>
vars     == <<busvars, cpuvars, timevars, loopvars>>

TypeOK ==
    /\ bus_raised_interrupts  \in SUBSET Slot
    /\ bus_enabled_interrupts \in SUBSET Slot
    /\ cpu_enabled_interrupts \in [Cpu -> SUBSET Slot]
    /\ cpu_ipi          \in [Cpu -> BOOLEAN]
    /\ cpu_interrupting \in [Cpu -> BOOLEAN]
    /\ cpu_enabled      \in SUBSET Cpu
    /\ state            \in [Cpu -> {"DISABLED", "IDLE", "RUNNING"}]
    /\ cpu_running_mask \in SUBSET Cpu
    /\ irq_lamebus      \in [Cpu -> BOOLEAN]
    /\ irq_ipi          \in [Cpu -> BOOLEAN]
    /\ irq_timer        \in [Cpu -> BOOLEAN]
    /\ ex_compare_used  \in [Cpu -> BOOLEAN]
    /\ phase            \in {"cycle", "events", "stop", "idle", "off"}
    /\ whichcpu         \in 0 .. NCPUS
    /\ <<cpu_cycling, power_event, shutoff_flag, stopped_in_debugger, stepping>>
          \in BOOLEAN \X BOOLEAN \X BOOLEAN \X BOOLEAN \X BOOLEAN

(***************************************************************************)
(* lamebus_commonmainboard_init, mips_init and cpu_init: the boot CPU runs, *)
(* every interrupt is enabled everywhere, nothing is raised.               *)
(***************************************************************************)
Init ==
    /\ bus_raised_interrupts  = {}
    /\ bus_enabled_interrupts = Slot
    /\ cpu_enabled_interrupts = [c \in Cpu |-> Slot]
    /\ cpu_ipi          = [c \in Cpu |-> FALSE]
    /\ cpu_interrupting = [c \in Cpu |-> FALSE]
    /\ cpu_enabled      = {0}
    /\ state            = [c \in Cpu |-> IF c = 0 THEN "RUNNING" ELSE "DISABLED"]
    /\ cpu_running_mask = {0}
    /\ irq_lamebus      = [c \in Cpu |-> FALSE]
    /\ irq_ipi          = [c \in Cpu |-> FALSE]
    /\ irq_timer        = [c \in Cpu |-> FALSE]
    /\ ex_compare_used  = [c \in Cpu |-> FALSE]
    /\ whichcpu = 0 /\ cpu_cycling = TRUE
    /\ \/ phase = "cycle" /\ stopped_in_debugger = FALSE
       \/ phase = "stop" /\ stopped_in_debugger = TRUE    \* sys161 -w
    /\ power_event = FALSE /\ shutoff_flag = FALSE /\ stepping = FALSE

-----------------------------------------------------------------------------
(***************************************************************************)
(* The interrupt lines.                                                    *)
(***************************************************************************)

(* Mutants: a wakeup forgets RUNNING_MASK_ON; wakes any CPU that is not    *)
(* running; wakes without looking at the levels.                           *)
cpu_set_irqs_nomask(C, lb, ipi) ==
    /\ irq_lamebus' = [c \in Cpu |-> IF c \in C THEN lb[c] ELSE irq_lamebus[c]]
    /\ irq_ipi' = [c \in Cpu |-> IF c \in C THEN ipi[c] ELSE irq_ipi[c]]
    /\ state' = [c \in Cpu |-> IF c \in C /\ state[c] = "IDLE" /\ (lb[c] \/ ipi[c])
                               THEN "RUNNING" ELSE state[c]]
    /\ UNCHANGED cpu_running_mask

cpu_set_irqs_wakeall(C, lb, ipi) ==
    LET woken == {c \in C : state[c] # "RUNNING" /\ (lb[c] \/ ipi[c])}
    IN  /\ irq_lamebus' = [c \in Cpu |-> IF c \in C THEN lb[c] ELSE irq_lamebus[c]]
        /\ irq_ipi' = [c \in Cpu |-> IF c \in C THEN ipi[c] ELSE irq_ipi[c]]
        /\ state' = [c \in Cpu |-> IF c \in woken THEN "RUNNING" ELSE state[c]]
        /\ cpu_running_mask' = cpu_running_mask \cup woken

cpu_set_irqs_always(C, lb, ipi) ==
    LET woken == {c \in C : state[c] = "IDLE"}
    IN  /\ irq_lamebus' = [c \in Cpu |-> IF c \in C THEN lb[c] ELSE irq_lamebus[c]]
        /\ irq_ipi' = [c \in Cpu |-> IF c \in C THEN ipi[c] ELSE irq_ipi[c]]
        /\ state' = [c \in Cpu |-> IF c \in woken THEN "RUNNING" ELSE state[c]]
        /\ cpu_running_mask' = cpu_running_mask \cup woken

(* The CPUs in C get new pin levels lb[c] and ipi[c]; one that was idle    *)
(* and now sees a level wakes up.                                          *)
cpu_set_irqs(C, lb, ipi) ==
    LET woken == {c \in C : state[c] = "IDLE" /\ (lb[c] \/ ipi[c])}
    IN  /\ irq_lamebus' = [c \in Cpu |-> IF c \in C THEN lb[c] ELSE irq_lamebus[c]]
        /\ irq_ipi' = [c \in Cpu |-> IF c \in C THEN ipi[c] ELSE irq_ipi[c]]
        /\ state' = [c \in Cpu |-> IF c \in woken THEN "RUNNING" ELSE state[c]]
        /\ cpu_running_mask' = cpu_running_mask \cup woken

(* Mutant: the global mask is not applied.                                 *)
irqupdate_noirqe(r, e, ce) ==
    LET irq == [c \in Cpu |-> r \cap ce[c] # {}]
    IN  /\ cpu_interrupting' = irq
        /\ cpu_set_irqs({c \in Cpu : irq[c] # cpu_interrupting[c]}, irq, cpu_ipi)

(* Recompute every CPU's line from raised slots r, global mask e and       *)
(* per-CPU masks ce; only the CPUs whose level changed are told.           *)
irqupdate(r, e, ce) ==
    LET irq     == [c \in Cpu |-> r \cap e \cap ce[c] # {}]
        changed == {c \in Cpu : irq[c] # cpu_interrupting[c]}
    IN  /\ cpu_interrupting' = irq
        /\ cpu_set_irqs(changed, irq, cpu_ipi)

raise_irq(s) ==
    /\ bus_raised_interrupts' = bus_raised_interrupts \cup {s}
    /\ irqupdate(bus_raised_interrupts \cup {s}, bus_enabled_interrupts,
                 cpu_enabled_interrupts)
    /\ UNCHANGED <<bus_enabled_interrupts, cpu_enabled_interrupts, cpu_ipi,
                   cpu_enabled>>

lower_irq(s) ==
    /\ bus_raised_interrupts' = bus_raised_interrupts \ {s}
    /\ irqupdate(bus_raised_interrupts \ {s}, bus_enabled_interrupts,
                 cpu_enabled_interrupts)
    /\ UNCHANGED <<bus_enabled_interrupts, cpu_enabled_interrupts, cpu_ipi,
                   cpu_enabled>>

(* Stores to the controller's IRQE, CIRQE and CIPI registers.              *)
store_irqe(mask) ==
    /\ bus_enabled_interrupts' = mask
    /\ irqupdate(bus_raised_interrupts, mask, cpu_enabled_interrupts)
    /\ UNCHANGED <<bus_raised_interrupts, cpu_enabled_interrupts, cpu_ipi,
                   cpu_enabled>>

(* Mutant: the CIRQE store forgets irqupdate().                            *)
store_cirqe_noupdate(c, mask) ==
    /\ cpu_enabled_interrupts' = [cpu_enabled_interrupts EXCEPT ![c] = mask]
    /\ UNCHANGED <<bus_raised_interrupts, bus_enabled_interrupts, cpu_ipi,
                   cpu_enabled, cpu_interrupting, cpuvars>>


store_cirqe(c, mask) ==
    LET ce == [cpu_enabled_interrupts EXCEPT ![c] = mask]
    IN  /\ cpu_enabled_interrupts' = ce
        /\ irqupdate(bus_raised_interrupts, bus_enabled_interrupts, ce)
        /\ UNCHANGED <<bus_raised_interrupts, bus_enabled_interrupts, cpu_ipi,
                       cpu_enabled>>

store_cipi(c, on) ==
    LET ipi == [cpu_ipi EXCEPT ![c] = on]
    IN  /\ cpu_ipi' = ipi
        /\ cpu_set_irqs({c}, cpu_interrupting, ipi)
        /\ UNCHANGED <<bus_raised_interrupts, bus_enabled_interrupts,
                       cpu_enabled_interrupts, cpu_interrupting, cpu_enabled>>

(* Mutant: the loop runs to i <= ncpus.                                    *)
set_cpue_offbyone(val) ==
    LET off == cpu_enabled \ val
        on  == val \ cpu_enabled
    IN  /\ cpu_enabled' = cpu_enabled \ off
        /\ state' = [c \in Cpu |-> IF c \in off THEN "DISABLED"
                                   ELSE IF c \in on THEN "RUNNING" ELSE state[c]]
        /\ cpu_running_mask' = (cpu_running_mask \ off) \cup on
        /\ UNCHANGED <<bus_raised_interrupts, bus_enabled_interrupts,
                       cpu_enabled_interrupts, cpu_ipi, cpu_interrupting,
                       irq_lamebus, irq_ipi>>

(* A store of val to CPUE.  A CPU being turned on gets its pc and stack    *)
(* from its CRAM (not modelled) and cpu_enable(); the code does not set    *)
(* its cpu_enabled bit.  Bits of CPUs that are not present are ignored:    *)
(* the loop runs over the ncpus CPUs of the board.                         *)
set_cpue(val) ==
    LET off == cpu_enabled \ val
        on  == (Cpu \cap val) \ cpu_enabled
    IN  /\ cpu_enabled' = cpu_enabled \ off
        /\ state' = [c \in Cpu |-> IF c \in off THEN "DISABLED"
                                   ELSE IF c \in on THEN "RUNNING"
                                   ELSE state[c]]
        /\ cpu_running_mask' = (cpu_running_mask \ off) \cup on
        /\ UNCHANGED <<bus_raised_interrupts, bus_enabled_interrupts,
                       cpu_enabled_interrupts, cpu_ipi, cpu_interrupting,
                       irq_lamebus, irq_ipi>>

(* Mutant: WAIT does not look at the IPI pin.                              *)
do_wait_noipi(c) ==
    /\ IF ~irq_lamebus[c] /\ ~irq_timer[c]
         THEN /\ state' = [state EXCEPT ![c] = "IDLE"]
              /\ cpu_running_mask' = cpu_running_mask \ {c}
         ELSE UNCHANGED <<state, cpu_running_mask>>
    /\ UNCHANGED <<irq_lamebus, irq_ipi>>

(* The WAIT instruction: idle only if no interrupt is pending already.     *)
do_wait(c) ==
    /\ IF ~irq_lamebus[c] /\ ~irq_ipi[c] /\ ~irq_timer[c]
         THEN /\ state' = [state EXCEPT ![c] = "IDLE"]
              /\ cpu_running_mask' = cpu_running_mask \ {c}
         ELSE UNCHANGED <<state, cpu_running_mask>>
    /\ UNCHANGED <<irq_lamebus, irq_ipi>>

-----------------------------------------------------------------------------
(***************************************************************************)
(* One CPU's share of cpu_cycle(): at most one instruction, then the       *)
(* timer.  Whether ex_count reaches ex_compare in this cycle is left open. *)
(***************************************************************************)
Turn(c) == phase = "cycle" /\ whichcpu = c

(* used and pending are ex_compare_used and irq_timer as the instruction   *)
(* leaves them.                                                            *)
cycle_timer(c, used, pending) ==
    /\ ex_compare_used' = [ex_compare_used EXCEPT ![c] = used]
    /\ \E match \in BOOLEAN :
          irq_timer' = [irq_timer EXCEPT ![c] = pending \/ (used /\ match)]

EndTurn(c) ==
    /\ whichcpu' = c + 1
    /\ UNCHANGED <<phase, shutoff_flag, stepping>>

Runs(c) == Turn(c) /\ state[c] = "RUNNING" /\ EndTurn(c)

(* A CPU that is idle or disabled only has its idle cycle counted.         *)
SkipCpu(c) ==
    /\ Turn(c) /\ state[c] # "RUNNING"
    /\ EndTurn(c)
    /\ UNCHANGED <<busvars, cpuvars, timevars, cpu_cycling, power_event,
                   stopped_in_debugger>>

NoSideEffects == UNCHANGED <<cpu_cycling, power_event, stopped_in_debugger>>

(* An instruction that touches neither the bus nor the timer registers.    *)
Compute(c) ==
    /\ Runs(c) /\ cycle_timer(c, ex_compare_used[c], irq_timer[c])
    /\ NoSideEffects /\ UNCHANGED <<busvars, cpuvars>>

(* mtc0 to COMPARE arms the timer and acknowledges its interrupt.          *)
SetCompare(c) ==
    /\ Runs(c) /\ cycle_timer(c, TRUE, FALSE)
    /\ NoSideEffects /\ UNCHANGED <<busvars, cpuvars>>

Wait(c) ==
    /\ Runs(c) /\ do_wait(c)
    /\ cycle_timer(c, ex_compare_used[c], irq_timer[c])
    /\ NoSideEffects /\ UNCHANGED busvars

(* Loads and stores to device registers: the device may raise or lower its *)
(* own slot before the access returns.                                     *)
DeviceAccess(c) ==
    /\ Runs(c) /\ cycle_timer(c, ex_compare_used[c], irq_timer[c])
    /\ \E s \in Slot \ {ControllerSlot} : raise_irq(s) \/ lower_irq(s)
    /\ NoSideEffects

(* lamebus_controller_store.  The old board has no per-CPU registers and   *)
(* no CPUE; there the access is a bus error and changes nothing here.      *)
StoreMask(c) ==
    /\ Runs(c) /\ cycle_timer(c, ex_compare_used[c], irq_timer[c])
    /\ \E mask \in SUBSET Slot :
          \/ store_irqe(mask)
          \/ ~IsOld /\ \E target \in Cpu : store_cirqe(target, mask)
    /\ NoSideEffects

StoreIpi(c) ==
    /\ ~IsOld
    /\ Runs(c) /\ cycle_timer(c, ex_compare_used[c], irq_timer[c])
    /\ \E target \in Cpu, on \in BOOLEAN : store_cipi(target, on)
    /\ NoSideEffects

StoreCpue(c) ==
    /\ ~IsOld
    /\ Runs(c) /\ cycle_timer(c, ex_compare_used[c], irq_timer[c])
    /\ \E val \in SUBSET (0 .. NCPUS) : set_cpue(val)
    /\ NoSideEffects

(* A store to POWER: 0 schedules the power-off; on the new board a nonzero *)
(* value without the mainboard's own bit is a hang().                      *)
StorePower(c) ==
    /\ Runs(c) /\ cycle_timer(c, ex_compare_used[c], irq_timer[c])
    /\ \/ /\ power_event' = TRUE
          /\ UNCHANGED <<cpu_cycling, stopped_in_debugger>>
       \/ /\ ~IsOld
          /\ cpu_cycling' = FALSE
          /\ stopped_in_debugger' = TRUE
          /\ UNCHANGED power_event
    /\ UNCHANGED <<busvars, cpuvars>>

Insn(c) == \/ Compute(c) \/ SetCompare(c) \/ Wait(c) \/ DeviceAccess(c)
           \/ StoreMask(c) \/ StoreIpi(c) \/ StoreCpue(c) \/ StorePower(c)

-----------------------------------------------------------------------------
(***************************************************************************)
(* The main loop.                                                          *)
(***************************************************************************)

(* cpu_cycles() starts another cycle ...                                   *)
NextCycle ==
    /\ phase = "cycle" /\ whichcpu = NCPUS
    /\ cpu_cycling /\ cpu_running_mask # {} /\ ~stepping
    /\ whichcpu' = 0
    /\ UNCHANGED <<busvars, cpuvars, timevars, phase, cpu_cycling, power_event,
                   shutoff_flag, stopped_in_debugger, stepping>>

(* ... or returns, at the latest when its budget is used up, and the clock *)
(* dispatches what has come due.                                           *)
CyclesReturn ==
    /\ phase = "cycle" /\ whichcpu = NCPUS
    /\ phase' = "events"
    /\ UNCHANGED <<busvars, cpuvars, timevars, whichcpu, cpu_cycling,
                   power_event, shutoff_flag, stopped_in_debugger, stepping>>

(* A timed event or an input handler of a device changes its irq line.     *)
(* While stopped in the debugger only input handlers run, but they raise   *)
(* interrupts too.                                                         *)
DeviceEvent ==
    /\ phase \in {"events", "stop", "idle"}
    /\ \E s \in Slot \ {ControllerSlot} : raise_irq(s) \/ lower_irq(s)
    /\ UNCHANGED <<timevars, loopvars>>

(* Mutant: the power-off event does not raise slot 31.                     *)
dopoweroff_noirq ==
    /\ phase \in {"events", "idle"} /\ power_event
    /\ power_event' = FALSE /\ shutoff_flag' = TRUE
    /\ UNCHANGED <<busvars, cpuvars, timevars, phase, whichcpu, cpu_cycling,
                   stopped_in_debugger, stepping>>


dopoweroff ==
    /\ phase \in {"events", "idle"} /\ power_event
    /\ raise_irq(ControllerSlot)
    /\ power_event' = FALSE /\ shutoff_flag' = TRUE
    /\ UNCHANGED <<timevars, phase, whichcpu, cpu_cycling, stopped_in_debugger,
                   stepping>>

(* An input handler (^G on the console, a gdb connection) asks to stop.    *)
main_enter_debugger ==
    /\ phase \in {"events", "idle"} /\ ~stepping
    /\ stopped_in_debugger' = TRUE
    /\ UNCHANGED <<busvars, cpuvars, timevars, phase, whichcpu, cpu_cycling,
                   power_event, shutoff_flag, stepping>>

(* The test at the top of runloop(); a run budget of 0 ticks skips the     *)
(* cycles, hence the two values of whichcpu.                               *)
LoopTop ==
    /\ phase' = IF shutoff_flag THEN "off" ELSE "cycle"
    /\ whichcpu' \in {0, NCPUS}
    /\ cpu_cycling' = TRUE

(* The bottom of runloop() once the debugger, if it was entered, has been  *)
(* left.                                                                   *)
LoopBottom ==
    IF cpu_running_mask = {}
      THEN phase' = "idle" /\ UNCHANGED <<whichcpu, cpu_cycling>>
      ELSE LoopTop

EventsDone ==
    /\ phase = "events"
    /\ IF stepping \/ stopped_in_debugger
         THEN phase' = "stop" /\ UNCHANGED <<whichcpu, cpu_cycling>>
         ELSE LoopBottom
    /\ stepping' = FALSE
    /\ UNCHANGED <<busvars, cpuvars, timevars, power_event, shutoff_flag,
                   stopped_in_debugger>>

(* gdb lets the program continue, or the connection is lost.               *)
main_leave_debugger ==
    /\ phase = "stop" /\ stopped_in_debugger
    /\ stopped_in_debugger' = FALSE
    /\ UNCHANGED <<busvars, cpuvars, timevars, phase, whichcpu, cpu_cycling,
                   power_event, shutoff_flag, stepping>>

(* gdb single-steps: onecycle() runs one cycle from inside stoploop().     *)
onecycle ==
    /\ phase = "stop" /\ stopped_in_debugger /\ ~shutoff_flag
    /\ phase' = "cycle" /\ whichcpu' = 0 /\ cpu_cycling' = TRUE
    /\ stepping' = TRUE
    /\ UNCHANGED <<busvars, cpuvars, timevars, power_event, shutoff_flag,
                   stopped_in_debugger>>

StopDone ==
    /\ phase = "stop" /\ (~stopped_in_debugger \/ shutoff_flag)
    /\ LoopBottom
    /\ UNCHANGED <<busvars, cpuvars, timevars, power_event, shutoff_flag,
                   stopped_in_debugger, stepping>>

(* clock_waitirq() returns only when some CPU runs again.                  *)
IdleDone ==
    /\ phase = "idle" /\ cpu_running_mask # {}
    /\ LoopTop
    /\ UNCHANGED <<busvars, cpuvars, timevars, power_event, shutoff_flag,
                   stopped_in_debugger, stepping>>

Loop == \/ NextCycle \/ CyclesReturn \/ EventsDone \/ StopDone \/ IdleDone
        \/ main_enter_debugger \/ main_leave_debugger \/ onecycle

Next == \/ \E c \in Cpu : SkipCpu(c) \/ Insn(c)
        \/ DeviceEvent \/ dopoweroff
        \/ Loop

Spec == Init /\ [][Next]_vars

(***************************************************************************)
(* The loop is ordinary sequential code: it never stops taking steps.      *)
(* cpu_cycles() has a finite budget (at most ROTOR cycles), so it returns  *)
(* again and again; a scheduled event comes due because virtual time       *)
(* advances with every cycle and in every pass of the idle loop.  Nothing  *)
(* makes the user at the debugger continue: main_leave_debugger and        *)
(* onecycle get no fairness.                                               *)
(***************************************************************************)
Fairness ==
    /\ WF_vars(\E c \in Cpu : SkipCpu(c) \/ Insn(c))
    /\ SF_vars(CyclesReturn)
    /\ WF_vars(EventsDone) /\ WF_vars(StopDone) /\ WF_vars(IdleDone)
    /\ SF_vars(dopoweroff)

FairSpec == Spec /\ Fairness

-----------------------------------------------------------------------------
(***************************************************************************)
(* The board implements the interface specification: the cached line       *)
(* levels are invisible.                                                   *)
(***************************************************************************)
Lines == INSTANCE InterruptLines
           WITH raised <- bus_raised_interrupts, irqe <- bus_enabled_interrupts,
                cirqe <- cpu_enabled_interrupts, ipi <- cpu_ipi

-----------------------------------------------------------------------------
(***************************************************************************)
(* Properties.                                                             *)
(***************************************************************************)

(* Seen through the registers and the CPU states alone, the board behaves  *)
(* like InterruptLines: an interrupt is never lost and never spurious,     *)
(* whatever interleaving of raises, mask changes, IPIs and WAITs occurs.   *)
ImplementsLines == Lines!Spec

(* The pins of every CPU are what the registers say they should be: the    *)
(* LAMEbus pin is the OR of the raised slots that IRQE and the CPU's CIRQE *)
(* let through, and the IPI pin is CIPI.  irqupdate() only tells a CPU     *)
(* about a change of level, so any path that forgets it leaves the pin     *)
(* stale for good (lamebus.c, irqupdate).                                  *)
LinesInStep ==
    \A c \in Cpu :
        /\ cpu_interrupting[c] <=>
              (bus_raised_interrupts \cap bus_enabled_interrupts
                 \cap cpu_enabled_interrupts[c] # {})
        /\ irq_lamebus[c] = cpu_interrupting[c]
        /\ irq_ipi[c] = cpu_ipi[c]

(* cpu_running_mask, which the main loop tests instead of the CPU states,  *)
(* is exact (mips.c: "Hold cpu->state == CPU_RUNNING across all cpus").    *)
RunningMaskExact == cpu_running_mask = {c \in Cpu : state[c] = "RUNNING"}

(* No lost wakeup: a CPU is never idle while one of its external interrupt *)
(* pins is asserted (mips.c, cpu_set_irqs; mipscore.h, do_wait).           *)
NoLostWakeup ==
    \A c \in Cpu : state[c] = "IDLE" => ~irq_lamebus[c] /\ ~irq_ipi[c]

(* The claim of the comment in cpu_set_irqs and of doc/mips.html: the      *)
(* on-chip timer too cannot be pending on a waiting CPU.                   *)
NoLostTimerWakeup == \A c \in Cpu : state[c] = "IDLE" => ~irq_timer[c]

(* Interrupts wake waiting CPUs only: a CPU that is powered down is        *)
(* started by a store to CPUE and by nothing else.                         *)
OnlyCpueStarts ==
    [][\A c \in Cpu : state[c] = "DISABLED" /\ state'[c] # "DISABLED"
          => /\ phase = "cycle"
             /\ UNCHANGED <<bus_raised_interrupts, bus_enabled_interrupts,
                            cpu_enabled_interrupts, cpu_ipi>>]_vars

(* A CPU that CPUE reports as enabled comes out of WAIT only because one   *)
(* of its pins is asserted at that moment (mips.c, cpu_set_irqs).          *)
WakeupHasCause ==
    [][\A c \in cpu_enabled : state[c] = "IDLE" /\ state'[c] = "RUNNING"
          => irq_lamebus'[c] \/ irq_ipi'[c]]_vars

(* Writing 0 to the power register switches the machine off, if the user   *)
(* does not leave it stopped in the debugger and as long as the controller *)
(* slot stays unmasked on some CPU that is powered up.  The second premise *)
(* is the one dopoweroff() in lamebus.c admits to: with slot 31 masked the *)
(* idle loop is never broken.                                              *)
ControllerHeard ==
    /\ ControllerSlot \in bus_enabled_interrupts
    /\ \E c \in Cpu : /\ state[c] # "DISABLED"
                      /\ ControllerSlot \in cpu_enabled_interrupts[c]

PowersOff ==
    ([]ControllerHeard /\ <>[]~stopped_in_debugger)
        => (power_event ~> phase = "off")
=============================================================================
