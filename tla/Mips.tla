-------------------------------- MODULE Mips --------------------------------
(***************************************************************************)
(* The control half of the MIPS core, sys161/mipseb/mipscore.h and mips.c: *)
(* fetching through cached page translations, delay slots, exceptions and  *)
(* their return, the TLB, LL and SC.  Interrupt pins, WAIT and the on-chip *)
(* timer are in Mainboard, arithmetic is in Alu.                           *)
(*                                                                         *)
(* The unit of an address is one instruction.  Addresses below USEG are    *)
(* kuseg, mapped by the TLB; those from USEG to KTOP are kseg0, which maps *)
(* directly; kseg1 and kseg2 add no case of their own.  The program is not *)
(* fixed: any instruction may be fetched anywhere, except that a delay     *)
(* slot which the branch before it has looked at is what the branch saw.   *)
(* Other processors, devices and the debugger appear as stores to memory   *)
(* and as the interrupt line.                                              *)
(***************************************************************************)
EXTENDS Integers, FiniteSets

CONSTANTS
    PAGE,       \* instructions in a page
    USEG,       \* user addresses are 0 .. USEG - 1
    KTOP,       \* kernel addresses with memory behind them are USEG .. KTOP - 1
    UTLBVector, \* 0x80000000
    Vector,     \* 0x80000080
    NTLB,       \* entries of the TLB
    Pids,       \* address space ids
    Frames,     \* physical pages that may be mapped
    Values,     \* values of the words that LL and SC are used on
    LockUser,   \* the user address of such a word
    LockKernel, \* the kernel address of another
    LockFrame,  \* its frame
    KUDEPTH,    \* levels of mode and interrupt bits in STATUS, 3 in the code
    HiloWait,   \* cycles until hi and lo are ready
    Targets,    \* addresses branched to
    Loadable    \* TLB entries the kernel writes, but for the pid

VARIABLES
    mcpu        \* struct mipscpu, the memory it sees, and histories

mipsVars == <<mcpu>>

NoPage == <<"null", 0>>
None == -1
Vpage(a) == a \div PAGE
Entries == [vpn : 0 .. Vpage(USEG - 1), pid : Pids, pfn : Frames,
            global : BOOLEAN, valid : BOOLEAN, dirty : BOOLEAN]

(* kuseg and the memory behind kseg0 are made of whole pages, and the      *)
(* vectors are in kseg0.                                                   *)
ASSUME MipsAssumption ==
    /\ PAGE \in Nat \ {0} /\ KUDEPTH \in Nat \ {0} /\ USEG \in Nat /\ KTOP \in Nat
    /\ USEG = PAGE * Vpage(USEG) /\ KTOP = PAGE * Vpage(KTOP)
    /\ UTLBVector \in USEG .. KTOP - 2 /\ Vector \in USEG .. KTOP - 2
    /\ Targets \subseteq Nat /\ LockUser # LockKernel

(* reset_tlbentry: a page that no mapped address is in.                    *)
reset_tlbentry == [vpn |-> -1, pid |-> CHOOSE p \in Pids : TRUE,
                   pfn |-> CHOOSE f \in Frames : TRUE,
                   global |-> FALSE, valid |-> FALSE, dirty |-> FALSE]

MipsTypeOK ==
    /\ mcpu.pc \in 0 .. KTOP /\ mcpu.nextpc \in 0 .. KTOP + 1
    /\ mcpu.expc \in 0 .. KTOP /\ mcpu.epc \in {None} \cup 0 .. KTOP
    /\ mcpu.usermode \in [1 .. KUDEPTH -> BOOLEAN] /\ mcpu.irqon \in [1 .. KUDEPTH -> BOOLEAN]
    /\ \A i \in 1 .. NTLB : mcpu.tlb[i] \in Entries \cup {reset_tlbentry}
    /\ mcpu.wait \in 0 .. HiloWait
    /\ mcpu.mem \in [Frames \cup {LockFrame} -> Values]
    /\ mcpu.power \in {"on", "hung", "smoke"}

(* No link: ll_addr and ll_value are read only while ll_active is set.     *)
NoLink == [active |-> FALSE, addr |-> LockKernel, value |-> CHOOSE v \in Values : TRUE]

(* mips_init and cpu_set_entrypoint: kernel mode, interrupts off, TLB      *)
(* empty.  Histories: stale (a mode or address space changed since the     *)
(* pages were looked up), slot (what the delay slot was seen to hold),     *)
(* seen (the LL of this stay in user mode), sc, took, stalled, resume and  *)
(* saved (below).  Nothing here reads EPC: epc is what the last cycle      *)
(* stored there.                                                           *)
MipsInit ==
    \E m \in [Frames \cup {LockFrame} -> Values] :
    mcpu = [pc |-> Vector, nextpc |-> Vector + 1, expc |-> Vector, epc |-> None,
            pcpage |-> <<"kseg0", Vpage(Vector)>>,
            nextpcpage |-> <<"kseg0", Vpage(Vector + 1)>>,
            jumping |-> FALSE, in_jumpdelay |-> FALSE,
            usermode |-> [i \in 1 .. KUDEPTH |-> FALSE], irqon |-> [i \in 1 .. KUDEPTH |-> FALSE],
            tlb |-> [i \in 1 .. NTLB |-> reset_tlbentry], pid |-> CHOOSE p \in Pids : TRUE,
            ll |-> NoLink,
            wait |-> 0, mem |-> m, power |-> "on",
            stale |-> FALSE, slot |-> "any", seen |-> {}, sc |-> "none",
            took |-> FALSE, stalled |-> FALSE, resume |-> Vector, saved |-> None]

-----------------------------------------------------------------------------
(* Address translation.                                                    *)

(* findtlb: the entries matching a page; -1 is the empty set.  The current *)
(* address space is the pid in cpu->tlbentry; global entries are in all.   *)
findtlb(c, vpn) ==
    {i \in 1 .. NTLB : /\ c.tlb[i].vpn = vpn
                       /\ c.tlb[i].pid = c.pid \/ c.tlb[i].global}

Fault(code, utlb) == [ok |-> FALSE, code |-> code, utlb |-> utlb]

(* translatemem, without raising the exception it returns.                 *)
Translate(c, a, iswrite) ==
    LET hit == findtlb(c, Vpage(a))
        e   == c.tlb[CHOOSE i \in hit : TRUE]
        tlbcode == IF iswrite THEN "TLBS" ELSE "TLBL"
    IN CASE a >= USEG /\ c.usermode[1] -> Fault(IF iswrite THEN "ADES" ELSE "ADEL", FALSE)
         [] a >= USEG /\ ~c.usermode[1] -> [ok |-> TRUE, frame |-> <<"kseg0", Vpage(a)>>]
         [] a < USEG /\ hit = {} -> Fault(tlbcode, TRUE)
         [] a < USEG /\ hit # {} /\ ~e.valid -> Fault(tlbcode, FALSE)
         [] a < USEG /\ hit # {} /\ e.valid /\ iswrite /\ ~e.dirty -> Fault("MOD", FALSE)
         [] OTHER -> [ok |-> TRUE, frame |-> <<"ram", e.pfn>>]

(* mapmem: instructions come from RAM or ROM only.                         *)
mapmem(a) == a < KTOP

(* What an instruction fetch from a would see now.                         *)
Fetchable(c, a) == Translate(c, a, FALSE).ok /\ mapmem(a)
FetchPage(c, a) == Translate(c, a, FALSE).frame

FetchFault(c, a) ==
    IF Translate(c, a, FALSE).ok THEN Fault("IBE", FALSE) ELSE Translate(c, a, FALSE)

-----------------------------------------------------------------------------
(* Exceptions.                                                             *)

Push(s)  == [i \in 1 .. KUDEPTH |-> IF i = 1 THEN FALSE ELSE s[i - 1]]
Pop(s)   == [i \in 1 .. KUDEPTH |-> IF i = KUDEPTH THEN s[i] ELSE s[i + 1]]

(* Mutant: the exception PC is the delay slot's.                           *)
exception_ownpc(c, f) ==
    LET v == IF f.code \in {"TLBL", "TLBS"} /\ f.utlb THEN UTLBVector ELSE Vector
    IN [c EXCEPT !.jumping = FALSE, !.in_jumpdelay = FALSE, !.ll = NoLink, !.seen = {},
                 !.usermode = Push(c.usermode), !.irqon = Push(c.irqon),
                 !.epc = IF c.in_jumpdelay THEN c.expc + 1 ELSE c.expc,
                 !.pc = v, !.nextpc = v + 1,
                 !.pcpage = <<"kseg0", Vpage(v)>>,
                 !.nextpcpage = <<"kseg0", Vpage(v + 1)>>,
                 !.stale = FALSE, !.slot = "any", !.took = TRUE]

(* exception().  Its precomputations are of kseg0 addresses in kernel mode *)
(* and cannot fail.  The old BOOT vectors are not distinguished.           *)
exception(c, f) ==
    LET v == IF f.code \in {"TLBL", "TLBS"} /\ f.utlb THEN UTLBVector ELSE Vector
    IN [c EXCEPT !.jumping = FALSE, !.in_jumpdelay = FALSE, !.ll = NoLink, !.seen = {},
                 !.usermode = Push(c.usermode), !.irqon = Push(c.irqon),
                 !.epc = c.expc,
                 !.pc = v, !.nextpc = v + 1,
                 !.pcpage = <<"kseg0", Vpage(v)>>,
                 !.nextpcpage = <<"kseg0", Vpage(v + 1)>>,
                 !.stale = FALSE, !.slot = "any", !.took = TRUE]

(* An exception that is not the TLB's.                                     *)
raise(c, code) == exception(c, Fault(code, FALSE))

precompute_pc(c) ==
    IF Fetchable(c, c.pc) THEN [c EXCEPT !.pcpage = FetchPage(c, c.pc)]
                          ELSE exception(c, FetchFault(c, c.pc))

precompute_nextpc(c) ==
    IF Fetchable(c, c.nextpc) THEN [c EXCEPT !.nextpcpage = FetchPage(c, c.nextpc)]
                              ELSE exception(c, FetchFault(c, c.nextpc))

Precompute(c) == precompute_nextpc(precompute_pc([c EXCEPT !.stale = FALSE]))

(* phony_exception: back to the instruction, or to the branch before it,   *)
(* without disturbing the rest.  Its precomputations had better succeed.   *)
phony_exception(c) ==
    LET b == [c EXCEPT !.jumping = FALSE, !.in_jumpdelay = FALSE,
                       !.pc = c.expc, !.nextpc = c.expc + 1, !.stalled = TRUE]
    IN IF Fetchable(b, b.pc) /\ Fetchable(b, b.nextpc)
       THEN Precompute(b) ELSE [b EXCEPT !.power = "smoke"]

do_rfe(c) ==
    LET b == [c EXCEPT !.usermode = Pop(c.usermode), !.irqon = Pop(c.irqon),
                       !.in_jumpdelay = FALSE, !.expc = c.pc, !.seen = {}]
    IN Precompute(b)

-----------------------------------------------------------------------------
(* Instructions.  Each is a function of the processor after the fetch.     *)

(* abranch, to an aligned target; slot is what the delay slot holds.  The  *)
(* lookup of the target waits for an RFE that may leave for user mode.     *)
abranch(c, target, slot) ==
    LET b == [c EXCEPT !.nextpc = target, !.jumping = TRUE, !.slot = slot]
    IN IF slot = "rfe" THEN [b EXCEPT !.nextpcpage = NoPage] ELSE precompute_nextpc(b)

(* A branch to a misaligned target faults at once.                         *)
misaligned(c) == raise(c, "ADEL")

Privileged(c, d) == IF c.usermode[1] THEN raise(c, "CPU") ELSE d

mx_rfe(c) == Privileged(c, do_rfe(c))

(* setstatus, by mtc0: nothing is looked up again.                         *)
setstatus(c, user, irq) ==
    [c EXCEPT !.usermode = user, !.irqon = irq,
              !.stale = @ \/ user[1] # c.usermode[1]]

(* tlbsethi, by mtc0: the address space changes.                           *)
settlbhi(c, pid) == [c EXCEPT !.pid = pid, !.stale = @ \/ pid # c.pid]

(* mx_tlbr: the entry read replaces cpu->tlbentry, and with it the current *)
(* address space; the pages of pc and nextpc are not looked up again.      *)
mx_tlbr(c, i) == settlbhi(c, c.tlb[i].pid)

(* check_tlb_dups: another entry could match when the new one does.        *)
check_tlb_dups(t, newix) ==
    \E i \in 1 .. NTLB :
        /\ i # newix /\ t[i].vpn = t[newix].vpn
        /\ t[newix].global \/ t[i].global \/ t[i].pid = t[newix].pid

(* Mutant: the cached translations of the pc are not renewed.              *)
writetlb_keeps(c, i, e) == [c EXCEPT !.tlb[i] = [e EXCEPT !.pid = c.pid]]

(* writetlb, for tlbwi and tlbwr: cpu->tlbentry is written, so the entry's *)
(* pid is the current one.                                                 *)
writetlb(c, i, e) ==
    LET b == [c EXCEPT !.tlb[i] = [e EXCEPT !.pid = c.pid]]
    IN IF check_tlb_dups(b.tlb, i) THEN [b EXCEPT !.power = "hung"] ELSE Precompute(b)

(* A load or store: only its exceptions matter here.                       *)
domem(c, a, iswrite) ==
    IF Translate(c, a, iswrite).ok THEN c ELSE exception(c, Translate(c, a, iswrite))

LockFrameOf(c, a) == IF a >= USEG THEN LockFrame ELSE Translate(c, a, FALSE).frame[2]
Word(c, a) == [addr |-> a, value |-> c.mem[LockFrameOf(c, a)]]

(* mx_ll; the history seen is the user program's.                          *)
mx_ll(c, a) ==
    IF ~Translate(c, a, FALSE).ok THEN domem(c, a, FALSE)
    ELSE [c EXCEPT !.ll = [active |-> TRUE, addr |-> a, value |-> Word(c, a).value],
                   !.seen = IF c.usermode[1] THEN {Word(c, a)} ELSE {}]

(* Mutant: a link is tied to no address.                                   *)
Linked_anywhere(c, a) == c.ll.active

(* The tests mx_sc makes before it accesses memory.                        *)
Linked(c, a) == c.ll.active /\ c.ll.addr = a

(* mx_sc: a missing link fails without an access; otherwise the word is    *)
(* read again, as a write would be, and compared.  The link is not dropped.*)
mx_sc(c, a, v) ==
    CASE ~Linked(c, a) -> [c EXCEPT !.sc = "failed"]
      [] Linked(c, a) /\ ~Translate(c, a, TRUE).ok -> domem(c, a, TRUE)
      [] Linked(c, a) /\ Translate(c, a, TRUE).ok /\ Word(c, a).value # c.ll.value ->
            [c EXCEPT !.sc = "failed"]
      [] OTHER ->
            [c EXCEPT !.mem[LockFrameOf(c, a)] = v,
                      !.sc = IF c.usermode[1] => c.seen = {Word(c, a)} THEN "linked" ELSE "torn"]

(* mfhi, mthi, mult and the rest: STALL while the register is busy (WHI,   *)
(* WLO, WHILO), then it is busy (SETHI, SETLO, SETHILO).  hi and lo are    *)
(* alike, and wait stands for either.                                      *)
HiLoBusy(c) == IF c.wait > 0 THEN phony_exception(c) ELSE [c EXCEPT !.wait = HiloWait]

-----------------------------------------------------------------------------
(* cpu_cycle, for one processor.                                           *)

StartCycle(c) ==
    IF c.jumping THEN [c EXCEPT !.jumping = FALSE, !.in_jumpdelay = TRUE]
                 ELSE [c EXCEPT !.expc = c.pc]

(* An interrupt is taken before the fetch, and its handler's first         *)
(* instruction runs in the same cycle.                                     *)
TakeInterrupt(c) ==
    LET e == raise(c, "IRQ") IN [e EXCEPT !.expc = e.pc]

Advance(c) ==
    [c EXCEPT !.pc = c.nextpc, !.pcpage = c.nextpcpage, !.nextpc = c.nextpc + 1, !.slot = "any"]

Crosses(c) == c.nextpc % PAGE = 0

(* The fetch of insn, and the new page when nextpc enters one.             *)
Fetch(c, insn) ==
    LET a == Advance(c)
    IN CASE Crosses(a) /\ insn = "rfe" -> [a EXCEPT !.nextpcpage = NoPage]
         [] Crosses(a) /\ insn # "rfe" -> precompute_nextpc(a)
         [] OTHER -> a

FetchFails(c, insn) ==
    Crosses(Advance(c)) /\ insn # "rfe" /\ ~Fetchable(Advance(c), Advance(c).nextpc)

(* What follows the switch.                                                *)
EndCycle(c) ==
    [c EXCEPT !.wait = IF @ > 0 THEN @ - 1 ELSE 0, !.in_jumpdelay = FALSE]

(* History: where the program that runs would have to resume after an      *)
(* exception.  A taken branch is done only when its delay slot is.         *)
Resume(base, end) ==
    CASE end.took -> end.pc
      [] ~end.took /\ (end.jumping \/ end.stalled) -> base
      [] OTHER -> end.pc

Ready(irq) == LET c == StartCycle([mcpu EXCEPT !.epc = None, !.saved = None, !.sc = "none"])
              IN IF irq THEN [TakeInterrupt(c) EXCEPT !.took = FALSE] ELSE c

(* The end of a cycle: the histories.  Unless a branch is pending, expc is *)
(* overwritten before it is used again.                                    *)
Commit(irq, base, end) ==
    mcpu' = [end EXCEPT
              !.resume = Resume(base, end), !.took = FALSE, !.stalled = FALSE,
              !.saved = IF end.took THEN base ELSE IF irq THEN mcpu.resume ELSE @,
              !.expc = IF end.jumping THEN @ ELSE end.pc]

(* A cycle that executes insn, whose outcomes are the set Exec of the      *)
(* fetched processor; an exception at the page crossing ends the cycle     *)
(* before insn and before EndCycle.                                        *)
Cycle(insn, Exec(_)) ==
    \E irq \in {i \in BOOLEAN : i => mcpu.irqon[1]} :
        LET base == IF irq THEN Vector ELSE mcpu.resume
        IN /\ mcpu.power = "on"
           /\ ~irq /\ mcpu.slot = "rfe" => insn = "rfe"
           /\ ~irq /\ mcpu.slot = "other" => insn # "rfe"
           /\ \E c \in {Ready(irq)} : \E f \in {Fetch(c, insn)} :
                \/ FetchFails(c, insn) /\ Commit(irq, base, f)
                \/ /\ ~FetchFails(c, insn)
                   /\ \E d \in Exec(f) :
                        \E e \in {IF d.stalled /\ insn = "break" THEN d ELSE EndCycle(d)} :
                            Commit(irq, IF insn = "rfe" /\ ~f.usermode[1] THEN f.pc ELSE base, e)

-----------------------------------------------------------------------------
(* The instructions, by what they can do to the control state.             *)

(* add .. xori when nothing is raised, and branches that are not taken.    *)
Plain == Cycle("plain", LAMBDA c : {c})

(* syscall, break, overflow, an illegal instruction, a coprocessor.        *)
Trap == Cycle("trap", LAMBDA c : {raise(c, "SYS")})

(* j, jal, jr, jalr and the conditional branches when taken.               *)
Branch ==
    Cycle("branch", LAMBDA c : {misaligned(c)}
        \cup {abranch(c, t, s) : t \in Targets, s \in {"rfe", "other"}})

Rfe == Cycle("rfe", LAMBDA c : {mx_rfe(c)})

LoadStore ==
    Cycle("mem", LAMBDA c : {domem(c, a, w) : a \in {LockUser, LockKernel}, w \in BOOLEAN})

(* The kernel's own LL and SC are on kernel words.                         *)
LoadLinked ==
    Cycle("ll", LAMBDA c : {mx_ll(c, IF c.usermode[1] THEN LockUser ELSE LockKernel)})
StoreConditional ==
    Cycle("sc", LAMBDA c : {mx_sc(c, IF c.usermode[1] THEN LockUser ELSE LockKernel, v)
                              : v \in Values})

(* mfhi, mflo, mthi, mtlo, mult, multu, div, divu.                         *)
HiLoInsn == Cycle("hilo", LAMBDA c : {HiLoBusy(c)})

(* A kernel breakpoint with a debugger attached: gdb_canhandle(expc).      *)
Breakpoint ==
    Cycle("break", LAMBDA c : {IF c.expc >= USEG THEN phony_exception(c)
                               ELSE raise(c, "BP")})

(* mtc0 STATUS and TLBHI.                                                  *)
MtStatus ==
    Cycle("mtc0", LAMBDA c : {Privileged(c, setstatus(c, u, [n \in 1 .. KUDEPTH |-> i]))
                                : u \in [1 .. KUDEPTH -> BOOLEAN], i \in BOOLEAN})
MtTlbhi ==
    Cycle("mtc0", LAMBDA c : {Privileged(c, settlbhi(c, p)) : p \in Pids})

TlbRead ==
    Cycle("tlbr", LAMBDA c : {Privileged(c, mx_tlbr(c, i)) : i \in 1 .. NTLB})

TlbWrite ==
    Cycle("tlbwr", LAMBDA c : {Privileged(c, writetlb(c, i, e)) : i \in 1 .. NTLB, e \in Loadable})

(* Another processor or a device changes a lock word.                      *)
OtherStore(f, v) == mcpu.power = "on" /\ mcpu' = [mcpu EXCEPT !.mem[f] = v]

MipsNext ==
    \/ Plain \/ Trap \/ Branch \/ Rfe \/ LoadStore \/ LoadLinked \/ StoreConditional
    \/ HiLoInsn \/ Breakpoint \/ MtStatus \/ MtTlbhi \/ TlbRead \/ TlbWrite
    \/ \E f \in DOMAIN mcpu.mem, v \in Values : OtherStore(f, v)

MipsSpec == MipsInit /\ [][MipsNext]_mipsVars

-----------------------------------------------------------------------------
(* Every instruction is fetched from the page that the TLB and the mode of *)
(* the moment map its address to, although the translation was looked up   *)
(* cycles before: across branches, page crossings, exceptions, RFE into    *)
(* user mode and TLB writes.  The pages are missing only while an RFE in a *)
(* delay slot is pending.  The ways out are a kernel that changes its own  *)
(* mode or address space by mtc0, or its address space by TLBR, whose      *)
(* effect on the pages comes late.  It follows that a stalled or stopped   *)
(* instruction can be fetched again, which phony_exception relies on.      *)
FetchFresh ==
    /\ mcpu.power = "smoke" => mcpu.stale
    /\ mcpu.power = "on" /\ ~mcpu.stale =>
        /\ Fetchable(mcpu, mcpu.pc) /\ mcpu.pcpage = FetchPage(mcpu, mcpu.pc)
        /\ \/ mcpu.slot = "rfe" /\ mcpu.nextpcpage = NoPage
           \/ /\ Fetchable(mcpu, mcpu.nextpc)
              /\ mcpu.nextpcpage = FetchPage(mcpu, mcpu.nextpc)

(* EPC names the instruction that has to run next when the handler         *)
(* returns: the first one that has not completed, or the branch before it  *)
(* if it is in a delay slot - for interrupts, faults of the instruction,   *)
(* faults of the next page, of a branch target or of RFE's return address, *)
(* and after stalls and breakpoints in between.                            *)
PreciseEpc == mcpu.epc = mcpu.saved

(* An SC in user mode succeeds only on the word that the same stay in user *)
(* mode has loaded with LL and that still has that value, whatever links   *)
(* handlers and other programs have left: the exception drops the link.    *)
UserScLinked == mcpu.sc # "torn"
=============================================================================
