--------------------------- MODULE MainboardProofs ---------------------------
(***************************************************************************)
(* Theorems about the main board, for any number of CPUs and any set of    *)
(* slots.  The inductive invariant BoardInv is the conjunction of the type *)
(* invariant with the three coherence properties: none of the latter is    *)
(* inductive alone, because whether a wakeup is lost depends on whether    *)
(* the cached line level was right when irqupdate() skipped the CPU.       *)
(***************************************************************************)
EXTENDS Mainboard, TLAPS

BoardInv == TypeOK /\ LinesInStep /\ RunningMaskExact /\ NoLostWakeup

(* The part of BoardInv that the bus and CPU variables decide.             *)
BoardTyped ==
    /\ bus_raised_interrupts  \in SUBSET Slot
    /\ bus_enabled_interrupts \in SUBSET Slot
    /\ cpu_enabled_interrupts \in [Cpu -> SUBSET Slot]
    /\ cpu_ipi          \in [Cpu -> BOOLEAN]
    /\ cpu_interrupting \in [Cpu -> BOOLEAN]
    /\ cpu_enabled      \in SUBSET Cpu
    /\ state            \in [Cpu -> {"DISABLED", "IDLE", "RUNNING"}]
    /\ cpu_running_mask \in SUBSET Cpu
    /\ irq_lamebus      \in [Cpu -> BOOLEAN]
    /\ irq_ipi          \in [Cpu -> BOOLEAN]

Board == BoardTyped /\ LinesInStep /\ RunningMaskExact /\ NoLostWakeup

LoopTyped ==
    /\ phase    \in {"cycle", "events", "stop", "idle", "off"}
    /\ whichcpu \in 0 .. NCPUS
    /\ cpu_cycling \in BOOLEAN /\ power_event \in BOOLEAN
    /\ shutoff_flag \in BOOLEAN /\ stopped_in_debugger \in BOOLEAN
    /\ stepping \in BOOLEAN
    /\ irq_timer \in [Cpu -> BOOLEAN]
    /\ ex_compare_used \in [Cpu -> BOOLEAN]

LEMMA Split == BoardInv <=> Board /\ LoopTyped
  BY DEF BoardInv, Board, BoardTyped, LoopTyped, TypeOK

-----------------------------------------------------------------------------
(* Whatever the new registers are, irqupdate() leaves pins, states and     *)
(* running mask in step with them.                                         *)
LEMMA IrqupdateKeeps ==
  ASSUME Board,
         bus_raised_interrupts' \in SUBSET Slot,
         bus_enabled_interrupts' \in SUBSET Slot,
         cpu_enabled_interrupts' \in [Cpu -> SUBSET Slot],
         cpu_ipi' = cpu_ipi, cpu_enabled' = cpu_enabled,
         irqupdate(bus_raised_interrupts', bus_enabled_interrupts',
                   cpu_enabled_interrupts')
  PROVE  Board'
<1>1. BoardTyped'
  BY DEF Board, BoardTyped, irqupdate, cpu_set_irqs
<1>2. LinesInStep'
  BY DEF Board, BoardTyped, LinesInStep, irqupdate, cpu_set_irqs
<1>3. RunningMaskExact'
  BY DEF Board, BoardTyped, RunningMaskExact, irqupdate, cpu_set_irqs
<1>4. NoLostWakeup'
  BY DEF Board, BoardTyped, LinesInStep, NoLostWakeup, irqupdate, cpu_set_irqs
<1>5. QED
  BY <1>1, <1>2, <1>3, <1>4 DEF Board

LEMMA RaiseKeeps ==
  ASSUME Board, NEW s \in Slot, raise_irq(s) \/ lower_irq(s)
  PROVE  Board'
<1>1. CASE raise_irq(s)
  BY <1>1, IrqupdateKeeps DEF raise_irq, Board, BoardTyped
<1>2. CASE lower_irq(s)
  BY <1>2, IrqupdateKeeps DEF lower_irq, Board, BoardTyped
<1>3. QED
  BY <1>1, <1>2

LEMMA StoreIrqeKeeps ==
  ASSUME Board, NEW mask \in SUBSET Slot, store_irqe(mask)
  PROVE  Board'
BY IrqupdateKeeps DEF store_irqe, Board, BoardTyped

LEMMA StoreCirqeKeeps ==
  ASSUME Board, NEW mask \in SUBSET Slot, NEW c \in Cpu, store_cirqe(c, mask)
  PROVE  Board'
<1>1. cpu_enabled_interrupts' \in [Cpu -> SUBSET Slot]
  BY DEF store_cirqe, Board, BoardTyped
<1>2. QED
  BY <1>1, IrqupdateKeeps DEF store_cirqe, Board, BoardTyped

LEMMA StoreCipiKeeps ==
  ASSUME Board, NEW c \in Cpu, NEW on \in BOOLEAN, store_cipi(c, on)
  PROVE  Board'
<1>1. BoardTyped'
  BY DEF Board, BoardTyped, store_cipi, cpu_set_irqs
<1>2. LinesInStep'
  BY DEF Board, BoardTyped, LinesInStep, store_cipi, cpu_set_irqs
<1>3. RunningMaskExact'
  BY DEF Board, BoardTyped, RunningMaskExact, store_cipi, cpu_set_irqs
<1>4. NoLostWakeup'
  BY DEF Board, BoardTyped, LinesInStep, NoLostWakeup, store_cipi, cpu_set_irqs
<1>5. QED
  BY <1>1, <1>2, <1>3, <1>4 DEF Board

LEMMA SetCpueKeeps ==
  ASSUME Board, NEW val, set_cpue(val)
  PROVE  Board'
BY DEF Board, BoardTyped, LinesInStep, RunningMaskExact, NoLostWakeup, set_cpue

(* WAIT goes idle only with all pins low; the timer is not among the       *)
(* hypotheses: it can fire later in the same cycle.                        *)
LEMMA WaitKeeps ==
  ASSUME Board, NEW c \in Cpu, do_wait(c), UNCHANGED busvars
  PROVE  Board'
BY DEF Board, BoardTyped, LinesInStep, RunningMaskExact, NoLostWakeup, do_wait,
       busvars

LEMMA UnchangedKeeps ==
  ASSUME Board, UNCHANGED <<busvars, cpuvars>>
  PROVE  Board'
BY DEF Board, BoardTyped, LinesInStep, RunningMaskExact, NoLostWakeup, busvars,
       cpuvars

-----------------------------------------------------------------------------
LEMMA TimerTyped ==
  ASSUME LoopTyped, NEW c \in Cpu, NEW u \in BOOLEAN, NEW p \in BOOLEAN,
         cycle_timer(c, u, p)
  PROVE  irq_timer' \in [Cpu -> BOOLEAN] /\ ex_compare_used' \in [Cpu -> BOOLEAN]
BY DEF LoopTyped, cycle_timer

LEMMA InsnTyped ==
  ASSUME LoopTyped, NEW c \in Cpu, SkipCpu(c) \/ Insn(c)
  PROVE  LoopTyped'
<1>1. c + 1 \in 0 .. NCPUS
  BY NCPUSAssumption DEF Cpu
<1>2. CASE SkipCpu(c)
  BY <1>1, <1>2 DEF SkipCpu, EndTurn, LoopTyped, timevars
<1>3. CASE Insn(c)
  <2>1. phase' = phase /\ whichcpu' = c + 1 /\ shutoff_flag' = shutoff_flag
        /\ stepping' = stepping
    BY <1>3 DEF Insn, Compute, SetCompare, Wait, DeviceAccess, StoreMask,
                StoreIpi, StoreCpue, StorePower, Runs, EndTurn
  <2>2. irq_timer' \in [Cpu -> BOOLEAN] /\ ex_compare_used' \in [Cpu -> BOOLEAN]
    BY <1>3, TimerTyped
       DEF Insn, Compute, SetCompare, Wait, DeviceAccess, StoreMask, StoreIpi,
           StoreCpue, StorePower, LoopTyped
  <2>3. /\ cpu_cycling' \in BOOLEAN /\ power_event' \in BOOLEAN
        /\ stopped_in_debugger' \in BOOLEAN
    BY <1>3 DEF Insn, Compute, SetCompare, Wait, DeviceAccess, StoreMask,
                StoreIpi, StoreCpue, StorePower, NoSideEffects, LoopTyped
  <2>4. QED
    BY <1>1, <2>1, <2>2, <2>3 DEF LoopTyped
<1>4. QED
  BY <1>2, <1>3

LEMMA InsnKeeps ==
  ASSUME Board, NEW c \in Cpu, SkipCpu(c) \/ Insn(c)
  PROVE  Board'
<1>1. CASE SkipCpu(c) \/ Compute(c) \/ SetCompare(c) \/ StorePower(c)
  BY <1>1, UnchangedKeeps DEF SkipCpu, Compute, SetCompare, StorePower
<1>2. CASE Wait(c)
  BY <1>2, WaitKeeps DEF Wait
<1>3. CASE DeviceAccess(c)
  BY <1>3, RaiseKeeps DEF DeviceAccess
<1>4. CASE StoreMask(c)
  BY <1>4, StoreIrqeKeeps, StoreCirqeKeeps DEF StoreMask
<1>5. CASE StoreIpi(c)
  BY <1>5, StoreCipiKeeps DEF StoreIpi
<1>6. CASE StoreCpue(c)
  BY <1>6, SetCpueKeeps DEF StoreCpue
<1>7. QED
  BY <1>1, <1>2, <1>3, <1>4, <1>5, <1>6 DEF Insn

LEMMA LoopStepKeeps ==
  ASSUME Board, LoopTyped, DeviceEvent \/ dopoweroff \/ Loop
  PROVE  Board' /\ LoopTyped'
<1>1. CASE DeviceEvent
  BY <1>1, RaiseKeeps DEF DeviceEvent, LoopTyped, timevars, loopvars
<1>2. CASE dopoweroff
  BY <1>2, RaiseKeeps, SlotAssumption DEF dopoweroff, LoopTyped, timevars
<1>3. CASE Loop
  <2>1. UNCHANGED <<busvars, cpuvars, timevars>>
    BY <1>3 DEF Loop, NextCycle, CyclesReturn, EventsDone, StopDone, IdleDone,
                main_enter_debugger, main_leave_debugger, onecycle
  <2>2. phase' \in {"cycle", "events", "stop", "idle", "off"}
    BY <1>3 DEF Loop, NextCycle, CyclesReturn, EventsDone, StopDone, IdleDone,
                main_enter_debugger, main_leave_debugger, onecycle, LoopBottom,
                LoopTop, LoopTyped
  <2>3. whichcpu' \in 0 .. NCPUS
    BY <1>3, NCPUSAssumption
       DEF Loop, NextCycle, CyclesReturn, EventsDone, StopDone, IdleDone,
           main_enter_debugger, main_leave_debugger, onecycle, LoopBottom,
           LoopTop, LoopTyped
  <2>4. /\ cpu_cycling' \in {cpu_cycling, TRUE}
        /\ power_event' = power_event /\ shutoff_flag' = shutoff_flag
        /\ stopped_in_debugger' \in {stopped_in_debugger, TRUE, FALSE}
        /\ stepping' \in {stepping, TRUE, FALSE}
    BY <1>3
       DEF Loop, NextCycle, CyclesReturn, EventsDone, StopDone, IdleDone,
           main_enter_debugger, main_leave_debugger, onecycle, LoopBottom,
           LoopTop
  <2>5. LoopTyped'
    BY <2>1, <2>2, <2>3, <2>4 DEF LoopTyped, timevars
  <2>6. QED
    BY <2>1, <2>5, UnchangedKeeps
<1>4. QED
  BY <1>1, <1>2, <1>3

LEMMA InitBoard == Init => BoardInv
<1> SUFFICES ASSUME Init PROVE Board /\ LoopTyped
  BY Split
<1>1. 0 \in Cpu /\ 0 \in 0 .. NCPUS
  BY NCPUSAssumption DEF Cpu
<1>2. BoardTyped
  BY <1>1 DEF Init, BoardTyped
<1>3. LinesInStep /\ NoLostWakeup
  BY DEF Init, LinesInStep, NoLostWakeup
<1>4. RunningMaskExact
  BY <1>1 DEF Init, RunningMaskExact
<1>5. LoopTyped
  BY <1>1 DEF Init, LoopTyped
<1>6. QED
  BY <1>2, <1>3, <1>4, <1>5 DEF Board

LEMMA NextBoard == BoardInv /\ [Next]_vars => BoardInv'
<1> SUFFICES ASSUME Board, LoopTyped, [Next]_vars
             PROVE  Board' /\ LoopTyped'
  BY Split DEF BoardInv, Board, BoardTyped, LoopTyped, TypeOK
<1>1. ASSUME NEW c \in Cpu, SkipCpu(c) \/ Insn(c)
      PROVE  Board' /\ LoopTyped'
  BY <1>1, InsnKeeps, InsnTyped
<1>2. CASE DeviceEvent \/ dopoweroff \/ Loop
  BY <1>2, LoopStepKeeps
<1>3. CASE UNCHANGED vars
  <2>1. UNCHANGED <<busvars, cpuvars>> /\ UNCHANGED timevars /\ UNCHANGED loopvars
    BY <1>3 DEF vars
  <2>2. LoopTyped'
    BY <2>1 DEF LoopTyped, timevars, loopvars
  <2>3. QED
    BY <2>1, <2>2, UnchangedKeeps
<1>4. QED
  BY <1>1, <1>2, <1>3 DEF Next

(* The board's state is well typed and its three caches of the interrupt   *)
(* state agree, in every reachable state.                                  *)
THEOREM BoardInvariant == Spec => []BoardInv
<1>1. QED
  BY InitBoard, NextBoard, PTL DEF Spec

(* Every variable of the board, the CPUs and the main loop keeps its type, *)
(* whatever is stored to the controller's registers.                       *)
THEOREM BoardTypeCorrect == Spec => []TypeOK
<1>1. BoardInv => TypeOK
  BY DEF BoardInv
<1>2. QED
  BY <1>1, BoardInvariant, PTL

(* lamebus.c / mips.c: the pins always equal what IRQS, IRQE, CIRQE and    *)
(* CIPI dictate.                                                           *)
THEOREM PinsFollowRegisters == Spec => []LinesInStep
<1>1. BoardInv => LinesInStep
  BY DEF BoardInv
<1>2. QED
  BY <1>1, BoardInvariant, PTL

(* cpu_set_irqs / do_wait: no CPU sleeps through a LAMEbus interrupt or an *)
(* inter-processor interrupt.                                              *)
THEOREM NoWakeupIsLost == Spec => []NoLostWakeup
<1>1. BoardInv => NoLostWakeup
  BY DEF BoardInv
<1>2. QED
  BY <1>1, BoardInvariant, PTL

(* The main loop can trust cpu_running_mask.                               *)
THEOREM RunningMaskCorrect == Spec => []RunningMaskExact
<1>1. BoardInv => RunningMaskExact
  BY DEF BoardInv
<1>2. QED
  BY <1>1, BoardInvariant, PTL

-----------------------------------------------------------------------------
(***************************************************************************)
(* Refinement: every step of the board is a step of InterruptLines.        *)
(***************************************************************************)
LEMMA PinMeaning ==
  ASSUME Board, NEW c \in Cpu
  PROVE  Lines!Pin(c) <=> (irq_lamebus[c] \/ irq_ipi[c])
BY DEF Board, BoardTyped, LinesInStep, Lines!Pin

(* irqupdate() wakes exactly the waiting CPUs whose pin is now asserted:   *)
(* a CPU it skips had the same level before, so by NoLostWakeup it was not *)
(* waiting on an asserted pin.                                             *)
LEMMA IrqupdateRefines ==
  ASSUME Board, Board',
         cpu_ipi' = cpu_ipi,
         irqupdate(bus_raised_interrupts', bus_enabled_interrupts',
                   cpu_enabled_interrupts')
  PROVE  Lines!Rewire
<1>1. ASSUME NEW c \in Cpu
      PROVE  state'[c] = IF state[c] = "IDLE" /\ Lines!Pin(c)'
                         THEN "RUNNING" ELSE state[c]
  BY DEF Board, BoardTyped, LinesInStep, NoLostWakeup, irqupdate, cpu_set_irqs,
         Lines!Pin
<1>2. state' = [c \in Cpu |-> IF state[c] = "IDLE" /\ Lines!Pin(c)'
                              THEN "RUNNING" ELSE state[c]]
  BY <1>1 DEF Board, BoardTyped
<1>3. QED
  BY <1>2 DEF Lines!Rewire, Board, BoardTyped

LEMMA CipiRefines ==
  ASSUME Board, Board', NEW t \in Cpu, NEW on \in BOOLEAN, store_cipi(t, on)
  PROVE  Lines!Rewire
<1>1. ASSUME NEW c \in Cpu
      PROVE  state'[c] = IF state[c] = "IDLE" /\ Lines!Pin(c)'
                         THEN "RUNNING" ELSE state[c]
  BY DEF Board, BoardTyped, LinesInStep, NoLostWakeup, store_cipi, cpu_set_irqs,
         Lines!Pin
<1>2. state' = [c \in Cpu |-> IF state[c] = "IDLE" /\ Lines!Pin(c)'
                              THEN "RUNNING" ELSE state[c]]
  BY <1>1 DEF Board, BoardTyped
<1>3. QED
  BY <1>2 DEF Lines!Rewire, Board, BoardTyped

LEMMA IrqRefines ==
  ASSUME Board, Board', NEW s \in Slot, raise_irq(s) \/ lower_irq(s)
  PROVE  Lines!Rewire
BY IrqupdateRefines DEF raise_irq, lower_irq

LEMMA MaskRefines ==
  ASSUME Board, Board', NEW mask, NEW c \in Cpu,
         store_irqe(mask) \/ store_cirqe(c, mask)
  PROVE  Lines!Rewire
BY IrqupdateRefines DEF store_irqe, store_cirqe

LEMMA WaitRefines ==
  ASSUME Board, NEW c \in Cpu, state[c] = "RUNNING", do_wait(c),
         UNCHANGED busvars
  PROVE  Lines!Wait(c) \/ UNCHANGED Lines!vars
BY PinMeaning DEF do_wait, busvars, Lines!Wait, Lines!vars

LEMMA CpueRefines ==
  ASSUME Board, NEW val, set_cpue(val)
  PROVE  \E on, off \in SUBSET Cpu : Lines!Power(on, off)
<1> DEFINE off == cpu_enabled \ val
           on  == (Cpu \cap val) \ cpu_enabled
<1>1. on \in SUBSET Cpu /\ off \in SUBSET Cpu
  BY DEF Board, BoardTyped
<1>2. Lines!Power(on, off)
  BY DEF set_cpue, Lines!Power
<1>3. QED
  BY <1>1, <1>2

LEMMA StepRefines ==
  BoardInv /\ BoardInv' /\ [Next]_vars => [Lines!Next]_(Lines!vars)
<1> SUFFICES ASSUME Board, Board', [Next]_vars
             PROVE  Lines!Next \/ UNCHANGED Lines!vars
  BY Split DEF BoardInv, Board, BoardTyped, TypeOK
<1> USE DEF Lines!Next
<1>a. ASSUME UNCHANGED <<busvars, cpuvars>>
      PROVE  UNCHANGED Lines!vars
  BY <1>a DEF busvars, cpuvars, Lines!vars
<1>1. ASSUME NEW c \in Cpu, SkipCpu(c) \/ Insn(c)
      PROVE  Lines!Next \/ UNCHANGED Lines!vars
  <2>1. CASE SkipCpu(c) \/ Compute(c) \/ SetCompare(c) \/ StorePower(c)
    BY <2>1, <1>a DEF SkipCpu, Compute, SetCompare, StorePower
  <2>2. CASE Wait(c)
    BY <2>2, WaitRefines DEF Wait, Runs
  <2>3. CASE DeviceAccess(c)
    BY <2>3, IrqRefines DEF DeviceAccess
  <2>4. CASE StoreMask(c)
    BY <2>4, MaskRefines DEF StoreMask
  <2>5. CASE StoreIpi(c)
    BY <2>5, CipiRefines DEF StoreIpi
  <2>6. CASE StoreCpue(c)
    BY <2>6, CpueRefines DEF StoreCpue
  <2>7. QED
    BY <1>1, <2>1, <2>2, <2>3, <2>4, <2>5, <2>6 DEF Insn
<1>2. CASE DeviceEvent
  BY <1>2, IrqRefines DEF DeviceEvent
<1>3. CASE dopoweroff
  BY <1>3, IrqRefines, SlotAssumption DEF dopoweroff
<1>4. CASE Loop
  BY <1>4, <1>a DEF Loop, NextCycle, CyclesReturn, EventsDone, StopDone,
                    IdleDone, main_enter_debugger, main_leave_debugger, onecycle
<1>5. CASE UNCHANGED vars
  BY <1>5, <1>a DEF vars
<1>6. QED
  BY <1>1, <1>2, <1>3, <1>4, <1>5 DEF Next

(* lamebus.c and mips.c together implement the interface specification for *)
(* every board: the caching of line levels is invisible to the CPUs.       *)
THEOREM BoardImplementsLines == Spec => ImplementsLines
<1>1. Init => Lines!Init
  BY DEF Init, Lines!Init
<1>2. QED
  BY <1>1, StepRefines, BoardInvariant, PTL DEF Spec, Lines!Spec, ImplementsLines

-----------------------------------------------------------------------------
(***************************************************************************)
(* What a step may never do to the state of a CPU.                         *)
(***************************************************************************)

(* irqupdate() and a store to CIPI change the state of waiting CPUs only,  *)
(* and only of those that then see a level.                                *)
LEMMA LineWakesIdle ==
  ASSUME Board, NEW c \in Cpu, state'[c] # state[c],
         \/ \E r, e, ce : irqupdate(r, e, ce)
         \/ \E t \in Cpu, on \in BOOLEAN : store_cipi(t, on)
  PROVE  /\ state[c] = "IDLE" /\ state'[c] = "RUNNING"
         /\ irq_lamebus'[c] \/ irq_ipi'[c]
<1>1. ASSUME NEW r, NEW e, NEW ce, irqupdate(r, e, ce)
      PROVE  /\ state[c] = "IDLE" /\ state'[c] = "RUNNING"
             /\ irq_lamebus'[c] \/ irq_ipi'[c]
  BY <1>1 DEF Board, BoardTyped, irqupdate, cpu_set_irqs
<1>2. ASSUME NEW t \in Cpu, NEW on \in BOOLEAN, store_cipi(t, on)
      PROVE  /\ state[c] = "IDLE" /\ state'[c] = "RUNNING"
             /\ irq_lamebus'[c] \/ irq_ipi'[c]
  BY <1>2 DEF Board, BoardTyped, store_cipi, cpu_set_irqs
<1>3. QED
  BY <1>1, <1>2

(* The three ways the state of a CPU can change.                           *)
LEMMA StateChange ==
  ASSUME Board, [Next]_vars, NEW c \in Cpu, state'[c] # state[c]
  PROVE  \/ /\ state[c] = "IDLE" /\ state'[c] = "RUNNING"
            /\ irq_lamebus'[c] \/ irq_ipi'[c]
         \/ state[c] = "RUNNING" /\ state'[c] = "IDLE"
         \/ phase = "cycle" /\ \E val : set_cpue(val)
<1> DEFINE Goal == \/ /\ state[c] = "IDLE" /\ state'[c] = "RUNNING"
                      /\ irq_lamebus'[c] \/ irq_ipi'[c]
                   \/ state[c] = "RUNNING" /\ state'[c] = "IDLE"
                   \/ phase = "cycle" /\ \E val : set_cpue(val)
<1>1. ASSUME NEW s, raise_irq(s) \/ lower_irq(s) PROVE Goal
  <2>1. \E r, e, ce : irqupdate(r, e, ce)
    BY <1>1 DEF raise_irq, lower_irq
  <2>2. QED
    BY <2>1, LineWakesIdle
<1>2. ~(UNCHANGED cpuvars)
  BY DEF cpuvars
<1>3. ASSUME NEW d \in Cpu, SkipCpu(d) \/ Insn(d) PROVE Goal
  <2>1. CASE SkipCpu(d) \/ Compute(d) \/ SetCompare(d) \/ StorePower(d)
    BY <1>2, <2>1 DEF SkipCpu, Compute, SetCompare, StorePower
  <2>2. CASE Wait(d)
    BY <2>2 DEF Wait, Runs, do_wait, Board, BoardTyped
  <2>3. CASE DeviceAccess(d)
    BY <2>3, <1>1 DEF DeviceAccess
  <2>4. CASE StoreMask(d)
    <3>1. \E r, e, ce : irqupdate(r, e, ce)
      BY <2>4 DEF StoreMask, store_irqe, store_cirqe
    <3>2. QED
      BY <3>1, LineWakesIdle
  <2>5. CASE StoreIpi(d)
    BY <2>5, LineWakesIdle DEF StoreIpi
  <2>6. CASE StoreCpue(d)
    BY <2>6 DEF StoreCpue, Runs, Turn
  <2>7. QED
    BY <1>3, <2>1, <2>2, <2>3, <2>4, <2>5, <2>6 DEF Insn
<1>4. CASE DeviceEvent \/ dopoweroff
  BY <1>1, <1>4 DEF DeviceEvent, dopoweroff
<1>5. CASE Loop
  BY <1>2, <1>5 DEF Loop, NextCycle, CyclesReturn, EventsDone, StopDone, IdleDone,
                    main_enter_debugger, main_leave_debugger, onecycle
<1>6. CASE UNCHANGED vars
  BY <1>2, <1>6 DEF vars
<1>7. QED
  BY <1>3, <1>4, <1>5, <1>6 DEF Next

(* No interrupt, timed event or debugger command starts a CPU that is      *)
(* powered down: only a store to CPUE in a CPU's cycle does.               *)
THEOREM OnlyCpueStartsCpus == Spec => OnlyCpueStarts
<1>1. ASSUME Board, [Next]_vars, NEW c \in Cpu,
             state[c] = "DISABLED", state'[c] # "DISABLED"
      PROVE  /\ phase = "cycle"
             /\ UNCHANGED <<bus_raised_interrupts, bus_enabled_interrupts,
                            cpu_enabled_interrupts, cpu_ipi>>
  BY <1>1, StateChange DEF set_cpue
<1>2. BoardInv /\ [Next]_vars =>
        [\A c \in Cpu : state[c] = "DISABLED" /\ state'[c] # "DISABLED"
          => /\ phase = "cycle"
             /\ UNCHANGED <<bus_raised_interrupts, bus_enabled_interrupts,
                            cpu_enabled_interrupts, cpu_ipi>>]_vars
  BY <1>1, Split
<1>3. QED
  BY <1>2, BoardInvariant, PTL DEF Spec, OnlyCpueStarts

(* A CPU that CPUE reports as enabled leaves WAIT only with one of its     *)
(* pins asserted: there are no spurious wakeups.                           *)
THEOREM WakeupsHaveCauses == Spec => WakeupHasCause
<1>1. ASSUME Board, [Next]_vars, NEW c \in cpu_enabled,
             state[c] = "IDLE", state'[c] = "RUNNING"
      PROVE  irq_lamebus'[c] \/ irq_ipi'[c]
  <2>1. c \in Cpu
    BY <1>1 DEF Board, BoardTyped
  <2>2. ASSUME NEW val, set_cpue(val) PROVE FALSE
    BY <1>1, <2>1, <2>2 DEF set_cpue, Board, BoardTyped
  <2>3. QED
    BY <1>1, <2>1, <2>2, StateChange
<1>2. BoardInv /\ [Next]_vars =>
        [\A c \in cpu_enabled : state[c] = "IDLE" /\ state'[c] = "RUNNING"
          => irq_lamebus'[c] \/ irq_ipi'[c]]_vars
  BY <1>1, Split
<1>3. QED
  BY <1>2, BoardInvariant, PTL DEF Spec, WakeupHasCause
=============================================================================
