------------------------------- MODULE Riscv -------------------------------
(***************************************************************************)
(* The control half of the RISC-V core, sys161/riscv/riscvcore.h and       *)
(* riscv.c: page tables and the one-page translation cache, the cached     *)
(* page of the pc, instructions of two sizes that may straddle pages,      *)
(* traps and SRET, LR and SC.  Arithmetic is in Alu, decoding in Decode.   *)
(*                                                                         *)
(* The unit of an address is a halfword; a page has RPAGE of them.  A page *)
(* table maps pages to entries; satp selects one of Tables, or a place     *)
(* without memory (NoTable), and the contents of a table do not change (a  *)
(* kernel that changes one has to issue the same SFENCE.VMA).  As in Mips  *)
(* the program is arbitrary.                                               *)
(***************************************************************************)
EXTENDS Integers

CONSTANTS
    RPAGE,      \* halfwords in a page
    RTOP,       \* addresses are 0 .. RTOP - 1
    Tables,     \* page tables: table -> page -> entry
    stvec,      \* the trap handler's address
    Entrypoint, \* where the kernel starts
    Returns,    \* user addresses the kernel returns to
    Jumps,      \* addresses jumped to
    Accesses,   \* addresses loaded from and stored to
    RValues,    \* values of the words that LR and SC are used on
    WordUser, WordKernel,  \* the addresses of two such words
    RKERN       \* the debugger handles breakpoints at addresses from here on

VARIABLES
    rcpu        \* struct riscvcpu, the memory it sees, and histories

riscvVars == <<rcpu>>

RPageOf(a) == a \div RPAGE
Off(a)     == a % RPAGE
NoCache    == [vpage |-> -1, frame |-> -1, r |-> FALSE, w |-> FALSE, x |-> FALSE]
NoTable    == "null"
ASSUME RiscvAssumption ==
    /\ RPAGE \in Nat /\ RPAGE >= 2 /\ RTOP \in Nat \ {0} /\ DOMAIN Tables # {}
    /\ RKERN \in Nat
    /\ stvec \in Nat /\ Entrypoint \in Nat /\ Returns \subseteq Nat /\ Jumps \subseteq Nat
    /\ WordUser # WordKernel /\ {WordUser, WordKernel} \cup Accesses \subseteq Nat

(* Page table entries: valid, user, the permissions (w means W and D), a   *)
(* superpage or not.  Frames are page numbers; memory has those below      *)
(* RPageOf(RTOP).                                                          *)
RTypeOK ==
    /\ rcpu.pc \in 0 .. RTOP /\ rcpu.nextpc \in 0 .. RTOP + 1 /\ rcpu.sepc \in 0 .. RTOP
    /\ rcpu.pcoff \in -1 .. RPAGE - 1 /\ rcpu.nextpcoff \in -1 .. RPAGE + 1
    /\ rcpu.super \in BOOLEAN /\ rcpu.spp \in BOOLEAN
    /\ rcpu.sie \in BOOLEAN /\ rcpu.spie \in BOOLEAN /\ rcpu.sum \in BOOLEAN
    /\ {rcpu.pttop, rcpu.ptbase} \subseteq {NoTable} \cup DOMAIN Tables
    /\ rcpu.power \in {"on", "dead", "undefined"}

-----------------------------------------------------------------------------
(* Translation.                                                            *)

RFault == [ok |-> FALSE, frame |-> -1, cache |-> NoCache]

Permits(e, rwx) == CASE rwx = "read"    -> e.r
                     [] rwx = "write"   -> e.w
                     [] rwx = "execute" -> e.x

(* The table walk's check of the mode: with status_sum the supervisor may  *)
(* load from and store to user pages.                                      *)
ModePermits(c, e, rwx) ==
    IF c.super THEN e.u => rwx # "execute" /\ c.sum ELSE e.u

(* The page table walk of translatemem.                                    *)
Walk(c, a, rwx) ==
    LET e == Tables[c.pttop][RPageOf(a)]
    IN IF c.pttop = NoTable \/ a >= RTOP THEN RFault
       ELSE IF ~(e.v /\ ModePermits(c, e, rwx) /\ Permits(e, rwx)) THEN RFault
       ELSE [ok |-> TRUE, frame |-> e.frame,
             cache |-> IF e.superpage THEN c.cache
                       ELSE [vpage |-> RPageOf(a), frame |-> e.frame, r |-> e.r, w |-> e.w, x |-> e.x]]

(* translatemem: the cached page is used without looking at the mode.      *)
RTranslate(c, a, rwx) ==
    IF ~c.mmu_enable THEN [ok |-> TRUE, frame |-> RPageOf(a), cache |-> c.cache]
    ELSE IF RPageOf(a) = c.cache.vpage
         THEN IF Permits(c.cache, rwx)
              THEN [ok |-> TRUE, frame |-> c.cache.frame, cache |-> c.cache]
              ELSE RFault
    ELSE Walk(c, a, rwx)

(* mapmem: instructions are fetched from memory only.                      *)
HasMemory(frame) == frame < RPageOf(RTOP)

RFetchable(c, a) == \E t \in {RTranslate(c, a, "execute")} : t.ok /\ HasMemory(t.frame)

-----------------------------------------------------------------------------
(* Traps.                                                                  *)

(* The second half of precompute_pc, when the pc can be fetched.           *)
CachePc(c) ==
    LET t == RTranslate(c, c.pc, "execute")
    IN [c EXCEPT !.pcpage = t.frame, !.cache = t.cache, !.pcoff = Off(c.pc),
                 !.nextpcoff = Off(c.pc)]

(* trap(): a fault at the trap vector itself is the end (crashdie).        *)
trap(c) ==
    LET t == [c EXCEPT !.spp = c.super, !.spie = c.sie, !.sie = FALSE, !.super = TRUE,
                       !.sepc = c.pc, !.pc = stvec, !.nextpc = stvec,
                       !.saved = c.resume, !.resume = stvec, !.left = NoCache.vpage]
    IN IF c.pc = stvec \/ ~RFetchable(t, stvec) THEN [c EXCEPT !.power = "dead"]
       ELSE CachePc(t)

Rprecompute_pc(c) == IF RFetchable(c, c.pc) THEN CachePc(c) ELSE trap(c)

-----------------------------------------------------------------------------
(* Instructions, as functions of the processor after the fetch.            *)

(* rx_jump: a fault of the destination is reported at the destination.     *)
rx_jump(c, dest) == Rprecompute_pc([c EXCEPT !.pc = dest, !.nextpc = dest, !.resume = dest])

UserPage(c, page) ==
    c.pttop # NoTable /\ Tables[c.pttop][page].v /\ Tables[c.pttop][page].u

(* History: the kernel's page that the lookup of the pc leaves in the      *)
(* cache, because the pc is in that page or in a superpage.                *)
LeftBehind(c) ==
    IF \/ c.super \/ ~c.mmu_enable \/ c.cache = NoCache \/ UserPage(c, c.cache.vpage)
       \/ RTranslate(c, c.pc, "execute").cache # c.cache
    THEN NoCache.vpage ELSE c.cache.vpage

(* Mutant: the mode changes after the pc has been looked up.               *)
rx_do_sret_late(c) ==
    [Rprecompute_pc([c EXCEPT !.sie = c.spie, !.spie = TRUE,
                              !.pc = c.sepc, !.nextpc = c.sepc, !.resume = c.sepc])
        EXCEPT !.super = c.spp]

rx_do_sret(c) ==
    LET b == [c EXCEPT !.sie = c.spie, !.spie = TRUE, !.super = c.spp,
                       !.pc = c.sepc, !.nextpc = c.sepc, !.resume = c.sepc]
    IN Rprecompute_pc([b EXCEPT !.left = LeftBehind(b)])

(* write_csr_satp: the cache is dropped; the table is not loaded, and the  *)
(* pc's page is not looked up again.                                       *)
write_csr_satp(c, enable, base) ==
    [c EXCEPT !.mmu_enable = enable, !.ptbase = base, !.cache = NoCache]

(* rx_do_sfence_vma: the table is loaded, with the pc's page unchanged.    *)
(* When reload_pagetables finds no memory the cache is not dropped.        *)
rx_do_sfence_vma(c) ==
    IF c.ptbase = NoTable THEN trap([c EXCEPT !.pttop = NoTable])
    ELSE [c EXCEPT !.pttop = c.ptbase, !.cache = NoCache]

write_csr_sepc(c, a) == [c EXCEPT !.sepc = a, !.saved = a]
write_csr_sstatus(c, sum, spp, spie, sie) ==
    [c EXCEPT !.sum = sum, !.spp = spp, !.spie = spie, !.sie = sie]

(* csrwrite, sret and sfence.vma are for the supervisor: rx_ill otherwise. *)
Supervisor(c, d) == IF c.super THEN d ELSE trap(c)

(* doload and dostore: the reservation goes, whatever the access.          *)
Access(c, a, rwx) ==
    LET t == RTranslate(c, a, rwx)
        d == [c EXCEPT !.lr.active = FALSE]
    IN IF t.ok THEN [d EXCEPT !.cache = t.cache] ELSE trap(d)

(* rx_do_lr.  The history lastlr is what this mode's program loaded last.  *)
rx_do_lr(c, a) ==
    LET t == RTranslate(c, a, "read")
    IN IF ~t.ok THEN trap(c)
       ELSE [c EXCEPT !.cache = t.cache,
                      !.lr = [active |-> TRUE, addr |-> a, value |-> c.word[a]],
                      !.lastlr = IF c.super THEN @ ELSE c.word[a]]

(* Mutant: a reservation is tied to no address.                            *)
HasReservation_anywhere(c, a) == c.lr.active

(* The tests rx_do_sc makes before it accesses memory.                     *)
HasReservation(c, a) == c.lr.active /\ c.lr.addr = a

(* rx_do_sc: the reservation is used up; the word is read as a write.      *)
rx_do_sc(c, a, v) ==
    LET t == RTranslate(c, a, "write")
        d == [c EXCEPT !.lr.active = FALSE]
    IN CASE ~HasReservation(c, a) -> d
         [] HasReservation(c, a) /\ ~t.ok -> trap(d)
         [] HasReservation(c, a) /\ t.ok /\ c.word[a] # c.lr.value -> [d EXCEPT !.cache = t.cache]
         [] OTHER -> [d EXCEPT !.cache = t.cache, !.word[a] = v,
                               !.torn = @ \/ (~c.super /\ c.lastlr # c.word[a])]

(* try_breakpoint, for an EBREAK the debugger handles: the instruction is  *)
(* to be executed again.                                                   *)
try_breakpoint(c) == [c EXCEPT !.nextpc = c.pc, !.nextpcoff = c.pcoff]

-----------------------------------------------------------------------------
(* cpu_cycle, for one processor.                                           *)

(* An instruction of size halfwords at the end of its page.  Its second    *)
(* half is looked up as the pc.                                            *)
Straddles(c, size) == size = 2 /\ c.pcoff = RPAGE - 1
SecondHalf(c) == Rprecompute_pc([c EXCEPT !.pc = @ + 1])

(* Mutant: the first halfword's address is not restored in sepc.           *)
StraddleFault_second(t) == t

(* A fault of the second half is put at the start of the instruction.      *)
StraddleFault(t) == IF t.power = "on" THEN [t EXCEPT !.sepc = @ - 1] ELSE t

(* Otherwise the next page becomes the pc's page, with an offset before    *)
(* its start.                                                              *)
StraddlePage(t) == [t EXCEPT !.pc = @ - 1, !.pcoff = @ - 1]

FetchNext(c, size) == [c EXCEPT !.nextpc = c.pc + size, !.nextpcoff = c.pcoff + size]

(* The pc moves on; a new page is looked up, and a fault there is the next *)
(* instruction's.                                                          *)
UpdatePc(c) ==
    LET d == [c EXCEPT !.pc = c.nextpc, !.resume = c.nextpc]
    IN CASE c.power # "on" -> c
         [] c.power = "on" /\ Off(d.pc) = 0 -> Rprecompute_pc(d)
         [] OTHER -> [d EXCEPT !.pcoff = c.nextpcoff]

(* An interrupt is taken first, and its handler starts in the same cycle.  *)
RBegin(irq) == IF irq THEN trap(rcpu) ELSE rcpu

(* A cycle: an instruction of size halfwords whose outcomes are Exec.      *)
RCycle(size, Exec(_)) ==
    /\ rcpu.power = "on" /\ rcpu.pcoff >= 0
    /\ \E c \in {RBegin(irq) : irq \in {i \in BOOLEAN : i => rcpu.sie}} :
         LET Run(f) == \E d \in Exec(f) : rcpu' = UpdatePc(d)
         IN \/ c.power # "on" /\ rcpu' = c
            \/ /\ c.power = "on" /\ ~Straddles(c, size)
               /\ \E f \in {FetchNext(c, size)} : Run(f)
            \/ /\ c.power = "on" /\ Straddles(c, size)
               /\ \E t \in {SecondHalf(c)} :
                    IF RFetchable(c, c.pc + 1)
                    THEN \E f \in {FetchNext(StraddlePage(t), size)} : Run(f)
                    ELSE rcpu' = StraddleFault(t)

(* Fetching at an offset before the page.                                  *)
UndefinedFetch ==
    /\ rcpu.power = "on" /\ rcpu.pcoff < 0
    /\ rcpu' = [rcpu EXCEPT !.power = "undefined"]

-----------------------------------------------------------------------------
(* The instructions, by what they can do to the control state.             *)

RPlain == \E n \in {1, 2} : RCycle(n, LAMBDA c : {c})

(* ecall, rx_ill, ebreak without a debugger.                               *)
RTrap == \E n \in {1, 2} : RCycle(n, LAMBDA c : {trap(c)})

RJump == \E n \in {1, 2} : RCycle(n, LAMBDA c : {rx_jump(c, d) : d \in Jumps})

RBreakpoint ==
    \E n \in {1, 2} :
        RCycle(n, LAMBDA c : {IF c.pc >= RKERN THEN try_breakpoint(c) ELSE trap(c)})

RLoadStore ==
    RCycle(2, LAMBDA c : {Access(c, a, rwx) : a \in Accesses, rwx \in {"read", "write"}})

(* The kernel's own reservations are on kernel words, whose values do not  *)
(* matter.                                                                 *)
LoadReserved ==
    RCycle(2, LAMBDA c : {rx_do_lr(c, IF c.super THEN WordKernel ELSE WordUser)})
RStoreConditional ==
    RCycle(2, LAMBDA c : IF c.super THEN {rx_do_sc(c, WordKernel, c.word[WordKernel])}
                         ELSE {rx_do_sc(c, WordUser, v) : v \in RValues})

Sret == RCycle(2, LAMBDA c : {Supervisor(c, rx_do_sret(c))})

SfenceVma == RCycle(2, LAMBDA c : {Supervisor(c, rx_do_sfence_vma(c))})

(* csrwrite.                                                               *)
WriteSatp ==
    RCycle(2, LAMBDA c : {Supervisor(c, write_csr_satp(c, on, t))
                            : on \in BOOLEAN, t \in {NoTable} \cup DOMAIN Tables})
WriteReturn ==
    \E sum \in BOOLEAN, spp \in BOOLEAN, i \in BOOLEAN :
        RCycle(2, LAMBDA c : {Supervisor(c, write_csr_sepc(write_csr_sstatus(c, sum, spp, TRUE, i),
                                                          IF spp THEN Entrypoint ELSE a))
                                : a \in Returns})

ROtherStore(v) ==
    rcpu.power = "on" /\ rcpu' = [rcpu EXCEPT !.word[WordUser] = v]

(* riscv_init: supervisor mode, paging and interrupts off.  Histories:     *)
(* resume (the first instruction not completed), saved (its value at the   *)
(* last trap, or what the kernel put into SEPC since), left (the page that *)
(* the last SRET to user mode left in the cache), lastlr and torn.         *)
RiscvInit ==
    LET v == CHOOSE w \in RValues : TRUE IN
    rcpu = [pc |-> Entrypoint, nextpc |-> Entrypoint, pcpage |-> RPageOf(Entrypoint),
            pcoff |-> Off(Entrypoint), nextpcoff |-> Off(Entrypoint),
            super |-> TRUE, spp |-> TRUE, sie |-> FALSE, spie |-> FALSE, sum |-> FALSE,
            sepc |-> Entrypoint, mmu_enable |-> FALSE, ptbase |-> NoTable, pttop |-> NoTable,
            cache |-> NoCache, lr |-> [active |-> FALSE, addr |-> WordKernel, value |-> v],
            word |-> [a \in {WordUser, WordKernel} |-> v], power |-> "on",
            resume |-> Entrypoint, saved |-> Entrypoint, left |-> NoCache.vpage,
            lastlr |-> v, torn |-> FALSE]

RiscvNext ==
    \/ RPlain \/ RTrap \/ RJump \/ RBreakpoint \/ RLoadStore
    \/ LoadReserved \/ RStoreConditional \/ Sret \/ SfenceVma
    \/ WriteSatp \/ WriteReturn \/ UndefinedFetch
    \/ \E v \in RValues : ROtherStore(v)

RiscvSpec == RiscvInit /\ [][RiscvNext]_riscvVars

-----------------------------------------------------------------------------
(* In user mode with paging on, instructions come from a user page of the  *)
(* page table in use, and the translation cache, which is consulted        *)
(* without regard to the mode, holds no page of the kernel's - but for one *)
(* that the kernel used last and that SRET has left in the cache, which it *)
(* does when it returns to a superpage (superpages are not cached) or into *)
(* the kernel's page itself.  A breakpoint that straddles pages has taken  *)
(* the pc off its page (see FetchInPage).                                  *)
UserIsolated ==
    rcpu.power = "on" /\ ~rcpu.super /\ rcpu.mmu_enable =>
        /\ \/ rcpu.pcoff < 0 \/ RPageOf(rcpu.pc) = rcpu.left
           \/ /\ UserPage(rcpu, RPageOf(rcpu.pc))
              /\ rcpu.pcpage = Tables[rcpu.pttop][RPageOf(rcpu.pc)].frame
        /\ \/ rcpu.cache = NoCache \/ rcpu.cache.vpage = rcpu.left
           \/ UserPage(rcpu, rcpu.cache.vpage)

(* The comment on mmu_cached_vpage: "one-entry cache of pagetable          *)
(* lookups".  What user mode is given from the cache is what a lookup in   *)
(* the page table would have given it.                                     *)
CachedLookup ==
    rcpu.power = "on" /\ ~rcpu.super /\ rcpu.mmu_enable =>
        \A a \in Accesses, rwx \in {"read", "write"} :
            RTranslate(rcpu, a, rwx).ok => Walk(rcpu, a, rwx).ok

(* SEPC is the address of the first instruction that has not completed: at *)
(* interrupts, at faults of an instruction, of either half of one that     *)
(* straddles pages, of the next page, and of the destination of a jump     *)
(* that has been made.                                                     *)
PreciseSepc == rcpu.power # "dead" => rcpu.sepc = rcpu.saved

(* An SC in user mode succeeds only if the word still has the value that   *)
(* user mode's last LR returned, although traps leave reservations alone.  *)
ReservedSc == ~rcpu.torn

(* The comment in cpu_cycle on the negative offset that a straddling       *)
(* instruction leaves: "using it to access pcpage will be UB, but this     *)
(* will not happen".                                                       *)
FetchInPage == rcpu.pcoff >= 0
=============================================================================
