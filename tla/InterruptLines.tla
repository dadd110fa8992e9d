---------------------------- MODULE InterruptLines ----------------------------
(***************************************************************************)
(* What the main board promises its CPUs about interrupts, without any of  *)
(* the caching of lamebus.c and mips.c: a CPU's pin is simply a function   *)
(* of the raised slots and the mask registers, and waiting on a pin that   *)
(* is asserted, or having a pin asserted while waiting, never leaves the   *)
(* CPU asleep.                                                             *)
(***************************************************************************)
CONSTANTS Cpu, Slot

VARIABLES raised, irqe, cirqe, ipi, state

vars == <<raised, irqe, cirqe, ipi, state>>

Pin(c) == (raised \cap irqe \cap cirqe[c] # {}) \/ ipi[c]

Init ==
    /\ raised = {} /\ irqe = Slot
    /\ cirqe = [c \in Cpu |-> Slot]
    /\ ipi = [c \in Cpu |-> FALSE]
    /\ state = [c \in Cpu |-> IF c = 0 THEN "RUNNING" ELSE "DISABLED"]

(* Slots and registers change; exactly the waiting CPUs whose pin is       *)
(* asserted afterwards wake up.                                            *)
Rewire ==
    /\ raised' \in SUBSET Slot
    /\ irqe' \in SUBSET Slot
    /\ cirqe' \in [Cpu -> SUBSET Slot]
    /\ ipi' \in [Cpu -> BOOLEAN]
    /\ state' = [c \in Cpu |-> IF state[c] = "IDLE" /\ Pin(c)'
                               THEN "RUNNING" ELSE state[c]]

(* A CPU waits; a pin already asserted makes the instruction a no-op.      *)
Wait(c) ==
    /\ state[c] = "RUNNING" /\ ~Pin(c)
    /\ state' = [state EXCEPT ![c] = "IDLE"]
    /\ UNCHANGED <<raised, irqe, cirqe, ipi>>

(* CPUs are powered down, or (re)started.                                  *)
Power(on, off) ==
    /\ state' = [c \in Cpu |-> IF c \in off THEN "DISABLED"
                               ELSE IF c \in on THEN "RUNNING" ELSE state[c]]
    /\ UNCHANGED <<raised, irqe, cirqe, ipi>>

Next == \/ Rewire
        \/ \E c \in Cpu : Wait(c)
        \/ \E on, off \in SUBSET Cpu : Power(on, off)

Spec == Init /\ [][Next]_vars
=============================================================================
