----------------------------- MODULE CoreProofs -----------------------------
(***************************************************************************)
(* Theorems about the two processor cores, for every page size, address    *)
(* space layout and page table, and every program, and about the           *)
(* arithmetic of both, for words of every length.                          *)
(*                                                                         *)
(* A cycle is a composition of C functions on the processor's record.      *)
(* Each gets a lemma about what it does to an abstract record, so that the *)
(* proof of an instruction follows the calls the code makes.               *)
(***************************************************************************)
EXTENDS Riscv, Mips, Arith, TLAPS, ProofBasics

(***************************************************************************)
(* RISC-V.                                                                 *)
(***************************************************************************)
RFields ==
    {"pc", "nextpc", "pcpage", "pcoff", "nextpcoff", "super", "spp", "sie", "spie", "sepc",
     "sum", "mmu_enable", "ptbase", "pttop", "cache", "lr", "word", "power", "resume",
     "saved", "left", "lastlr", "torn"}
IsRcpu(c) == c = [x \in RFields |-> c[x]]
IsLink(l) == l = [x \in {"active", "addr", "value"} |-> l[x]]

(* The cached translation is the one of the page table in use, if any.     *)
CacheFits(top, k) ==
    k = NoCache \/ top = NoTable \/ k.frame = Tables[top][k.vpage].frame

(* A translation that user mode may have in the cache.                     *)
UserCache(c, k) == k = NoCache \/ k.vpage = c.left \/ UserPage(c, k.vpage)

(* A reservation on the user's word has the value the user loaded last.    *)
LinkKnown(c) == c.lr.active /\ c.lr.addr = WordUser => c.lr.value = c.lastlr

(* What holds in the middle of a cycle, too.                               *)
Shape(c) ==
    /\ IsRcpu(c) /\ IsLink(c.lr) /\ c.pc \in Nat /\ c.nextpc \in Nat /\ c.sepc \in Nat
    /\ c.pcoff \in Int /\ c.nextpcoff \in Int /\ c.super \in BOOLEAN /\ c.spp \in BOOLEAN
    /\ CacheFits(c.pttop, c.cache) /\ LinkKnown(c) /\ ~c.torn

Precise(c) == c.power # "dead" => c.sepc = c.saved

(* In user mode nothing of the kernel's is in the translation cache but    *)
(* what SRET left there.                                                   *)
Confined(c) == ~c.super /\ c.mmu_enable => UserCache(c, c.cache)

(* The page that user mode finds for a.                                    *)
Finds(c, a, page) ==
    \/ RPageOf(a) = c.left
    \/ UserPage(c, RPageOf(a)) /\ page = Tables[c.pttop][RPageOf(a)].frame

(* In user mode the page at hand is that of a, which is at offset off.     *)
PageIs(c, a, off) ==
    ~c.super /\ c.mmu_enable /\ off >= 0 => Finds(c, a, c.pcpage) /\ off = Off(a)

(* Between cycles; after the fetch; and after the instruction.             *)
Between(c) ==
    /\ Shape(c) /\ Precise(c)
    /\ c.power = "on" => Confined(c) /\ c.pc = c.resume /\ PageIs(c, c.pc, c.pcoff)
Fetched(c) ==
    /\ Shape(c) /\ Precise(c) /\ c.power = "on" /\ Confined(c) /\ c.pc = c.resume
    /\ PageIs(c, c.pc, c.pcoff)
    /\ Off(c.nextpc) # 0 => PageIs(c, c.nextpc, c.nextpcoff)
Executed(c) ==
    /\ Shape(c) /\ Precise(c)
    /\ c.power = "on" => Confined(c) /\ (Off(c.nextpc) # 0 => PageIs(c, c.nextpc, c.nextpcoff))

-----------------------------------------------------------------------------
LEMMA PageFacts ==
    ASSUME NEW a \in Nat
    PROVE  /\ RPageOf(a) \in Nat /\ Off(a) \in 0 .. RPAGE - 1
           /\ a = RPAGE * RPageOf(a) + Off(a)
<1>1. RPAGE \in Nat \ {0}
  BY RiscvAssumption
<1>2. /\ a \div RPAGE \in Nat /\ a % RPAGE \in 0 .. RPAGE - 1
      /\ RPAGE * (a \div RPAGE) + (a % RPAGE) = a
  BY <1>1, DivModDef
<1> QED
  BY <1>2 DEF RPageOf, Off

(* translatemem: what it finds in user mode is in a user page of the page  *)
(* table in use, or the page that SRET left; likewise what it caches.      *)
LEMMA TranslateOK ==
    ASSUME NEW c, Shape(c), NEW a \in Nat, NEW rwx, NEW t, t = RTranslate(c, a, rwx), t.ok
    PROVE  /\ CacheFits(c.pttop, t.cache)
           /\ ~c.super /\ c.mmu_enable /\ (UserCache(c, c.cache) \/ t.cache # c.cache) =>
                Finds(c, a, t.frame) /\ UserCache(c, t.cache)
<1> DEFINE p == RPageOf(a)
           e == Tables[c.pttop][p]
<1>1. p \in Nat /\ CacheFits(c.pttop, c.cache) /\ c.super \in BOOLEAN
  BY PageFacts DEF Shape
<1>2. CASE ~c.mmu_enable
  <2>1. t.cache = c.cache
    BY <1>2 DEF RTranslate
  <2> QED
    BY <1>1, <1>2, <2>1
<1>3. CASE c.mmu_enable /\ p = c.cache.vpage
  <2>1. t.frame = c.cache.frame /\ t.cache = c.cache
    BY <1>3 DEF RTranslate, RFault
  <2>2. c.cache # NoCache
    BY <1>1, <1>3 DEF NoCache
  <2>3. UserPage(c, p) => c.cache.frame = e.frame
    BY <1>1, <1>3, <2>2 DEF CacheFits, UserPage
  <2>4. UserCache(c, c.cache) => p = c.left \/ UserPage(c, p)
    BY <1>3, <2>2 DEF UserCache
  <2> QED
    BY <1>1, <2>1, <2>3, <2>4 DEF Finds
<1>4. CASE c.mmu_enable /\ p # c.cache.vpage
  <2>1. t = Walk(c, a, rwx)
    BY <1>4 DEF RTranslate
  <2>2. c.pttop # NoTable /\ e.v /\ ModePermits(c, e, rwx)
    BY <2>1 DEF Walk, RFault
  <2>3. t.frame = e.frame
        /\ t.cache = IF e.superpage THEN c.cache
                     ELSE [vpage |-> p, frame |-> e.frame, r |-> e.r, w |-> e.w, x |-> e.x]
    BY <2>1 DEF Walk, RFault
  <2>4. ~c.super => UserPage(c, p)
    BY <2>2 DEF ModePermits, UserPage
  <2> HIDE DEF e
  <2>5. ~e.superpage => t.cache.vpage = p /\ t.cache.frame = e.frame
    BY <2>3
  <2>6. e.superpage => t.cache = c.cache
    BY <2>3
  <2>7. CacheFits(c.pttop, t.cache)
    BY <1>1, <2>5, <2>6 DEF CacheFits, e
  <2>8. ~c.super => Finds(c, a, t.frame)
    BY <2>3, <2>4 DEF Finds, e
  <2>9. ~c.super /\ (UserCache(c, c.cache) \/ t.cache # c.cache) => UserCache(c, t.cache)
    BY <2>4, <2>5, <2>6 DEF UserCache
  <2> QED
    BY <2>7, <2>8, <2>9
<1> QED
  BY <1>2, <1>3, <1>4

(* The lookup depends on the mode, the table and the cache only.           *)
LEMMA SameLookup ==
    ASSUME NEW c, NEW d, NEW a, NEW rwx,
           d.mmu_enable = c.mmu_enable, d.cache = c.cache, d.pttop = c.pttop, d.super = c.super,
           d.sum = c.sum
    PROVE  RTranslate(d, a, rwx) = RTranslate(c, a, rwx)
BY DEF RTranslate, Walk, ModePermits

(* precompute_pc, once the pc is known to be fetchable.                    *)
LEMMA CachePcOK ==
    ASSUME NEW c, Shape(c), RFetchable(c, c.pc), NEW d, d = CachePc(c),
           \/ c.super \/ ~c.mmu_enable \/ UserCache(c, c.cache)
           \/ RTranslate(c, c.pc, "execute").cache # c.cache
    PROVE  /\ Shape(d) /\ Confined(d) /\ PageIs(d, c.pc, d.pcoff)
           /\ d.pcoff = Off(c.pc) /\ d.nextpcoff = Off(c.pc)
           /\ d.pc = c.pc /\ d.nextpc = c.nextpc /\ d.sepc = c.sepc /\ d.saved = c.saved
           /\ d.resume = c.resume /\ d.power = c.power /\ d.super = c.super
           /\ d.mmu_enable = c.mmu_enable
<1> DEFINE t == RTranslate(c, c.pc, "execute")
<1>1. t.ok /\ IsRcpu(c) /\ c.pc \in Nat /\ c.super \in BOOLEAN
  BY DEF RFetchable, Shape
<1>2. /\ CacheFits(c.pttop, t.cache)
      /\ ~c.super /\ c.mmu_enable => Finds(c, c.pc, t.frame) /\ UserCache(c, t.cache)
  BY <1>1, TranslateOK
<1>3. d = [c EXCEPT !.pcpage = t.frame, !.cache = t.cache, !.pcoff = Off(c.pc),
                    !.nextpcoff = Off(c.pc)]
  BY DEF CachePc
<1> HIDE DEF t
<1>4. IsRcpu(d)
  BY <1>1, <1>3 DEF IsRcpu, RFields
<1>5. /\ d.pcpage = t.frame /\ d.cache = t.cache /\ d.pcoff = Off(c.pc)
      /\ d.nextpcoff = Off(c.pc) /\ d.left = c.left
  BY <1>1, <1>3 DEF IsRcpu, RFields
<1>6. /\ d.pc = c.pc /\ d.nextpc = c.nextpc /\ d.sepc = c.sepc /\ d.saved = c.saved
      /\ d.resume = c.resume /\ d.power = c.power /\ d.super = c.super
  BY <1>1, <1>3 DEF IsRcpu, RFields
<1>7. /\ d.spp = c.spp /\ d.pttop = c.pttop /\ d.ptbase = c.ptbase /\ d.lr = c.lr
      /\ d.lastlr = c.lastlr /\ d.torn = c.torn /\ d.mmu_enable = c.mmu_enable
  BY <1>1, <1>3 DEF IsRcpu, RFields
<1>8. Off(c.pc) \in Int
  BY <1>1, PageFacts
<1>9. Shape(d)
  BY <1>2, <1>4, <1>5, <1>6, <1>7, <1>8 DEF Shape, LinkKnown
<1>10. Confined(d)
  BY <1>2, <1>5, <1>6, <1>7 DEF Confined, UserCache, UserPage
<1>11. PageIs(d, c.pc, d.pcoff)
  BY <1>2, <1>5, <1>6, <1>7 DEF PageIs, Finds, UserPage
<1> QED
  BY <1>5, <1>6, <1>7, <1>9, <1>10, <1>11

(* trap(): unless the simulation ends, the kernel goes on at stvec with    *)
(* SEPC, and the history of what it ought to be, set.                      *)
LEMMA TrapOK ==
    ASSUME NEW c, Shape(c), c.power = "on", NEW d, d = trap(c)
    PROVE  /\ Shape(d)
           /\ \/ d.power = "dead"
              \/ /\ d.power = "on" /\ d.super = TRUE /\ d.sepc = c.pc /\ d.saved = c.resume
                 /\ d.pc = stvec /\ d.nextpc = stvec /\ d.resume = stvec
<1> DEFINE t == [c EXCEPT !.spp = c.super, !.spie = c.sie, !.sie = FALSE, !.super = TRUE,
                          !.sepc = c.pc, !.pc = stvec, !.nextpc = stvec,
                          !.saved = c.resume, !.resume = stvec, !.left = NoCache.vpage]
<1>1. IsRcpu(c)
  BY DEF Shape
<1>2. IsRcpu(t)
  BY <1>1 DEF IsRcpu, RFields
<1>3. /\ t.spp = c.super /\ t.super = TRUE /\ t.sepc = c.pc /\ t.pc = stvec
      /\ t.nextpc = stvec /\ t.saved = c.resume /\ t.resume = stvec
  BY <1>1 DEF IsRcpu, RFields
<1>4. /\ t.pcoff = c.pcoff /\ t.nextpcoff = c.nextpcoff /\ t.pttop = c.pttop
      /\ t.ptbase = c.ptbase /\ t.cache = c.cache /\ t.lr = c.lr /\ t.lastlr = c.lastlr
      /\ t.torn = c.torn /\ t.power = c.power
  BY <1>1 DEF IsRcpu, RFields
<1>5. d = IF c.pc = stvec \/ ~RFetchable(t, stvec) THEN [c EXCEPT !.power = "dead"]
          ELSE CachePc(t)
  BY DEF trap
<1> HIDE DEF t
<1>6. t.super \in BOOLEAN
  BY <1>3, Zenon
<1>7. Shape(t)
  BY <1>2, <1>3, <1>4, <1>6, RiscvAssumption DEF Shape, LinkKnown
<1>8. CASE c.pc = stvec \/ ~RFetchable(t, stvec)
  <2>1. d = [c EXCEPT !.power = "dead"]
    BY <1>5, <1>8
  <2>2. IsRcpu(d) /\ d.power = "dead"
    BY <1>1, <2>1 DEF IsRcpu, RFields
  <2>3. /\ d.pc = c.pc /\ d.nextpc = c.nextpc /\ d.sepc = c.sepc /\ d.pcoff = c.pcoff
        /\ d.nextpcoff = c.nextpcoff /\ d.super = c.super /\ d.spp = c.spp
    BY <1>1, <2>1 DEF IsRcpu, RFields
  <2>4. /\ d.pttop = c.pttop /\ d.ptbase = c.ptbase /\ d.cache = c.cache /\ d.lr = c.lr
        /\ d.lastlr = c.lastlr /\ d.torn = c.torn
    BY <1>1, <2>1 DEF IsRcpu, RFields
  <2> QED
    BY <2>2, <2>3, <2>4 DEF Shape, LinkKnown
<1>9. CASE ~(c.pc = stvec \/ ~RFetchable(t, stvec))
  <2>1. d = CachePc(t) /\ RFetchable(t, t.pc)
    BY <1>3, <1>5, <1>9
  <2>2. /\ Shape(d) /\ d.pc = t.pc /\ d.nextpc = t.nextpc /\ d.sepc = t.sepc
        /\ d.saved = t.saved /\ d.resume = t.resume /\ d.power = t.power /\ d.super = t.super
    BY <1>3, <1>7, <2>1, CachePcOK
  <2> QED
    BY <1>3, <1>4, <2>2
<1> QED
  BY <1>8, <1>9

LEMMA TrapBetween ==
    ASSUME NEW c, Shape(c), c.power = "on", c.pc = c.resume, NEW d, d = trap(c)
    PROVE  Between(d) /\ Executed(d)
<1>1. Shape(d)
  BY TrapOK
<1>2. \/ d.power = "dead"
      \/ /\ d.power = "on" /\ d.super = TRUE /\ d.sepc = c.pc /\ d.saved = c.resume
         /\ d.pc = stvec /\ d.nextpc = stvec /\ d.resume = stvec
  BY TrapOK
<1>3. Precise(d)
  BY <1>2 DEF Precise
<1> QED
  BY <1>1, <1>2, <1>3 DEF Between, Executed, Confined, PageIs

(* precompute_pc, for a pc that is the instruction to go on with.          *)
LEMMA PrecomputeOK ==
    ASSUME NEW c, Shape(c), Precise(c), c.power = "on", c.pc = c.resume, c.nextpc = c.pc,
           \/ c.super \/ ~c.mmu_enable \/ UserCache(c, c.cache)
           \/ RTranslate(c, c.pc, "execute").cache # c.cache,
           NEW d, d = Rprecompute_pc(c)
    PROVE  Between(d) /\ Executed(d)
<1>1. CASE RFetchable(c, c.pc)
  <2>1. d = CachePc(c)
    BY <1>1 DEF Rprecompute_pc
  <2>2. /\ Shape(d) /\ Confined(d) /\ PageIs(d, c.pc, d.pcoff)
        /\ d.pcoff = Off(c.pc) /\ d.nextpcoff = Off(c.pc)
    BY <1>1, <2>1, CachePcOK
  <2>3. /\ d.pc = c.pc /\ d.nextpc = c.nextpc /\ d.sepc = c.sepc /\ d.saved = c.saved
        /\ d.resume = c.resume /\ d.power = c.power /\ d.super = c.super
    BY <1>1, <2>1, CachePcOK
  <2> QED
    BY <2>2, <2>3 DEF Between, Executed, Precise, PageIs
<1>2. CASE ~RFetchable(c, c.pc)
  <2>1. d = trap(c)
    BY <1>2 DEF Rprecompute_pc
  <2> QED
    BY <2>1, TrapBetween
<1> QED
  BY <1>1, <1>2

-----------------------------------------------------------------------------
(* The cycle around the instruction.                                       *)

(* The pc moves on.                                                        *)
LEMMA UpdateOK ==
    ASSUME NEW c, Executed(c), NEW r, r = UpdatePc(c)
    PROVE  Between(r)
<1> DEFINE d == [c EXCEPT !.pc = c.nextpc, !.resume = c.nextpc]
<1>1. IsRcpu(c) /\ Shape(c) /\ Precise(c)
  BY DEF Executed, Shape
<1>2. IsRcpu(d)
  BY <1>1 DEF IsRcpu, RFields
<1>3. /\ d.pc = c.nextpc /\ d.resume = c.nextpc /\ d.nextpc = c.nextpc /\ d.sepc = c.sepc
      /\ d.saved = c.saved /\ d.pcoff = c.pcoff /\ d.nextpcoff = c.nextpcoff
  BY <1>1 DEF IsRcpu, RFields
<1>4. /\ d.super = c.super /\ d.spp = c.spp /\ d.pttop = c.pttop /\ d.ptbase = c.ptbase
      /\ d.cache = c.cache /\ d.lr = c.lr /\ d.lastlr = c.lastlr /\ d.torn = c.torn
      /\ d.power = c.power
  BY <1>1 DEF IsRcpu, RFields
<1>5. d.mmu_enable = c.mmu_enable /\ d.left = c.left /\ d.pcpage = c.pcpage
  BY <1>1 DEF IsRcpu, RFields
<1>6. /\ c.power # "on" => r = c
      /\ c.power = "on" /\ Off(d.pc) = 0 => r = Rprecompute_pc(d)
      /\ c.power = "on" /\ Off(d.pc) # 0 => r = [d EXCEPT !.pcoff = c.nextpcoff]
  BY DEF UpdatePc
<1> HIDE DEF d
<1>7. Shape(d) /\ Precise(d)
  BY <1>1, <1>2, <1>3, <1>4 DEF Shape, LinkKnown, Precise
<1>8. CASE c.power # "on"
  BY <1>1, <1>6, <1>8 DEF Between
<1>9. CASE c.power = "on" /\ Off(d.pc) = 0
  <2>1. d.super \/ ~d.mmu_enable \/ UserCache(d, d.cache)
    BY <1>4, <1>5, <1>9 DEF Executed, Confined, UserCache, UserPage
  <2> QED
    BY <1>3, <1>4, <1>6, <1>7, <1>9, <2>1, PrecomputeOK
<1>10. CASE c.power = "on" /\ Off(d.pc) # 0
  <2>1. r = [d EXCEPT !.pcoff = c.nextpcoff]
    BY <1>6, <1>10
  <2>2. IsRcpu(r)
    BY <1>2, <2>1 DEF IsRcpu, RFields
  <2>3. /\ r.pc = d.pc /\ r.nextpc = d.nextpc /\ r.sepc = d.sepc /\ r.pcoff = c.nextpcoff
        /\ r.nextpcoff = d.nextpcoff /\ r.super = d.super /\ r.spp = d.spp
        /\ r.saved = d.saved /\ r.resume = d.resume /\ r.power = d.power
    BY <1>2, <2>1 DEF IsRcpu, RFields
  <2>4. /\ r.pttop = d.pttop /\ r.ptbase = d.ptbase /\ r.cache = d.cache /\ r.lr = d.lr
        /\ r.lastlr = d.lastlr /\ r.torn = d.torn /\ r.mmu_enable = d.mmu_enable
        /\ r.left = d.left /\ r.pcpage = d.pcpage
    BY <1>2, <2>1 DEF IsRcpu, RFields
  <2>5. Shape(r) /\ Precise(r)
    BY <1>3, <1>7, <2>2, <2>3, <2>4 DEF Shape, LinkKnown, Precise
  <2>6. Confined(r)
    BY <1>4, <1>5, <1>10, <2>3, <2>4 DEF Executed, Confined, UserCache, UserPage
  <2>7. PageIs(r, r.pc, r.pcoff)
    BY <1>3, <1>4, <1>5, <1>10, <2>3, <2>4 DEF Executed, PageIs, Finds, UserPage
  <2> QED
    BY <1>3, <2>3, <2>5, <2>6, <2>7 DEF Between
<1> QED
  BY <1>8, <1>9, <1>10

LEMMA PageStep ==
    ASSUME NEW a \in Nat
    PROVE  \/ RPageOf(a + 1) = RPageOf(a) /\ Off(a + 1) = Off(a) + 1
           \/ /\ RPageOf(a + 1) = RPageOf(a) + 1 /\ Off(a + 1) = 0 /\ Off(a) = RPAGE - 1
<1>1. RPAGE \in Nat \ {0}
  BY RiscvAssumption
<1> QED
  BY <1>1, DivModStep DEF RPageOf, Off

(* The fetch of an instruction that ends in its page.                      *)
LEMMA FetchOK ==
    ASSUME NEW c, Between(c), c.power = "on", NEW size \in {1, 2}, ~Straddles(c, size),
           ~c.super => c.pcoff >= 0, NEW f, f = FetchNext(c, size)
    PROVE  Fetched(f)
<1>1. IsRcpu(c) /\ Shape(c) /\ Precise(c) /\ c.pc \in Nat /\ c.pcoff \in Int
  BY DEF Between, Shape
<1>2. f = [c EXCEPT !.nextpc = c.pc + size, !.nextpcoff = c.pcoff + size]
  BY DEF FetchNext
<1>3. IsRcpu(f)
  BY <1>1, <1>2 DEF IsRcpu, RFields
<1>4. /\ f.nextpc = c.pc + size /\ f.nextpcoff = c.pcoff + size /\ f.pc = c.pc
      /\ f.resume = c.resume /\ f.sepc = c.sepc /\ f.saved = c.saved /\ f.pcoff = c.pcoff
  BY <1>1, <1>2 DEF IsRcpu, RFields
<1>5. /\ f.super = c.super /\ f.spp = c.spp /\ f.pttop = c.pttop /\ f.ptbase = c.ptbase
      /\ f.cache = c.cache /\ f.lr = c.lr /\ f.lastlr = c.lastlr /\ f.torn = c.torn
      /\ f.power = c.power
  BY <1>1, <1>2 DEF IsRcpu, RFields
<1>6. f.mmu_enable = c.mmu_enable /\ f.left = c.left /\ f.pcpage = c.pcpage
  BY <1>1, <1>2 DEF IsRcpu, RFields
<1>7. Shape(f) /\ Precise(f)
  BY <1>1, <1>3, <1>4, <1>5 DEF Shape, LinkKnown, Precise
<1>8. Confined(f) /\ f.pc = f.resume
  BY <1>4, <1>5, <1>6 DEF Between, Confined, UserCache, UserPage
<1>9. PageIs(f, f.pc, f.pcoff)
  BY <1>4, <1>5, <1>6 DEF Between, PageIs, Finds, UserPage
<1>10. ASSUME ~c.super, c.mmu_enable, Off(f.nextpc) # 0
       PROVE  RPageOf(f.nextpc) = RPageOf(c.pc) /\ Off(f.nextpc) = f.nextpcoff
  <2>1. c.pcoff = Off(c.pc) /\ Off(c.pc) \in Int
    BY <1>1, <1>10, PageFacts DEF Between, PageIs
  <2>2. \/ RPageOf(c.pc + 1) = RPageOf(c.pc) /\ Off(c.pc + 1) = Off(c.pc) + 1
        \/ /\ RPageOf(c.pc + 1) = RPageOf(c.pc) + 1 /\ Off(c.pc + 1) = 0 /\ Off(c.pc) = RPAGE - 1
    BY <1>1, PageStep
  <2>3. CASE size = 1
    BY <1>4, <1>10, <2>1, <2>2, <2>3
  <2>4. CASE size = 2
    <3>1. Off(c.pc) # RPAGE - 1
      BY <2>1, <2>4 DEF Straddles
    <3>2. c.pc + 1 \in Nat /\ c.pc + 2 = (c.pc + 1) + 1
      BY <1>1
    <3>3. \/ RPageOf(c.pc + 2) = RPageOf(c.pc + 1) /\ Off(c.pc + 2) = Off(c.pc + 1) + 1
          \/ Off(c.pc + 2) = 0
      BY <3>2, PageStep
    <3> QED
      BY <1>4, <1>10, <2>1, <2>2, <2>4, <3>1, <3>3
  <2> QED BY <2>3, <2>4
<1>11. Off(f.nextpc) # 0 => PageIs(f, f.nextpc, f.nextpcoff)
  BY <1>5, <1>6, <1>10 DEF Between, PageIs, Finds, UserPage
<1> QED
  BY <1>4, <1>5, <1>7, <1>8, <1>9, <1>11 DEF Fetched

(* The fetch of one that straddles pages: its second half is looked up as  *)
(* the pc, and the offset goes back before the start of the new page.      *)
LEMMA StraddleOK ==
    ASSUME NEW c, Between(c), c.power = "on", Straddles(c, 2), NEW t, t = SecondHalf(c)
    PROVE  /\ RFetchable(c, c.pc + 1) =>
                \A f : f = FetchNext(StraddlePage(t), 2) => Fetched(f)
           /\ ~RFetchable(c, c.pc + 1) => \A f : f = StraddleFault(t) => Between(f)
<1> DEFINE b == [c EXCEPT !.pc = @ + 1]
<1>1. IsRcpu(c) /\ Shape(c) /\ Precise(c) /\ c.pc \in Nat /\ Confined(c) /\ c.pc = c.resume
  BY DEF Between, Shape
<1>2. IsRcpu(b)
  BY <1>1 DEF IsRcpu, RFields
<1>3. /\ b.pc = c.pc + 1 /\ b.resume = c.resume /\ b.nextpc = c.nextpc /\ b.sepc = c.sepc
      /\ b.saved = c.saved /\ b.pcoff = c.pcoff /\ b.nextpcoff = c.nextpcoff
  BY <1>1 DEF IsRcpu, RFields
<1>4. /\ b.super = c.super /\ b.spp = c.spp /\ b.pttop = c.pttop /\ b.ptbase = c.ptbase
      /\ b.cache = c.cache /\ b.lr = c.lr /\ b.lastlr = c.lastlr /\ b.torn = c.torn
      /\ b.power = c.power
  BY <1>1 DEF IsRcpu, RFields
<1>5. b.mmu_enable = c.mmu_enable /\ b.left = c.left /\ b.sum = c.sum
  BY <1>1 DEF IsRcpu, RFields
<1>6. t = Rprecompute_pc(b)
  BY DEF SecondHalf
<1> HIDE DEF b
<1>7. Shape(b)
  BY <1>1, <1>2, <1>3, <1>4 DEF Shape, LinkKnown
<1>8. RFetchable(b, b.pc) <=> RFetchable(c, c.pc + 1)
  <2>1. RTranslate(b, c.pc + 1, "execute") = RTranslate(c, c.pc + 1, "execute")
    BY <1>4, <1>5, SameLookup
  <2> QED
    BY <1>3, <2>1 DEF RFetchable
<1>9. ASSUME RFetchable(c, c.pc + 1), NEW f, f = FetchNext(StraddlePage(t), 2)
      PROVE  Fetched(f)
  <2>1. t = CachePc(b) /\ RFetchable(b, b.pc)
    BY <1>6, <1>8, <1>9 DEF Rprecompute_pc
  <2>2. b.super \/ ~b.mmu_enable \/ UserCache(b, b.cache)
    BY <1>1, <1>4, <1>5 DEF Confined, UserCache, UserPage
  <2>3. /\ Shape(t) /\ Confined(t) /\ PageIs(t, b.pc, t.pcoff) /\ t.pcoff = Off(b.pc)
        /\ t.pc = b.pc /\ t.sepc = b.sepc /\ t.saved = b.saved
    BY <1>7, <2>1, <2>2, CachePcOK
  <2>4. /\ t.resume = b.resume /\ t.power = b.power /\ t.super = b.super
        /\ t.mmu_enable = b.mmu_enable
    BY <1>7, <2>1, <2>2, CachePcOK
  <2> DEFINE s == StraddlePage(t)
  <2>5. IsRcpu(t) /\ t.pcoff \in Int /\ t.pc \in Int
    BY <2>3 DEF Shape
  <2>6. IsRcpu(s) /\ s.pc = t.pc - 1 /\ s.pcoff = t.pcoff - 1
    BY <2>5 DEF IsRcpu, RFields, StraddlePage
  <2>7. /\ s.sepc = t.sepc /\ s.saved = t.saved /\ s.resume = t.resume /\ s.super = t.super
        /\ s.spp = t.spp /\ s.pttop = t.pttop /\ s.ptbase = t.ptbase
    BY <2>5 DEF IsRcpu, RFields, StraddlePage
  <2>8. /\ s.cache = t.cache /\ s.lr = t.lr /\ s.lastlr = t.lastlr /\ s.torn = t.torn
        /\ s.power = t.power /\ s.mmu_enable = t.mmu_enable /\ s.left = t.left
        /\ s.pcpage = t.pcpage
    BY <2>5 DEF IsRcpu, RFields, StraddlePage
  <2>9. f = [s EXCEPT !.nextpc = s.pc + 2, !.nextpcoff = s.pcoff + 2]
    BY <1>9 DEF FetchNext
  <2> HIDE DEF s
  <2>10. /\ IsRcpu(f) /\ f.nextpc = s.pc + 2 /\ f.nextpcoff = s.pcoff + 2 /\ f.pc = s.pc
         /\ f.pcoff = s.pcoff
    BY <2>6, <2>9 DEF IsRcpu, RFields
  <2>11. /\ f.sepc = s.sepc /\ f.saved = s.saved /\ f.resume = s.resume /\ f.super = s.super
         /\ f.spp = s.spp /\ f.pttop = s.pttop /\ f.ptbase = s.ptbase
    BY <2>6, <2>9 DEF IsRcpu, RFields
  <2>12. /\ f.cache = s.cache /\ f.lr = s.lr /\ f.lastlr = s.lastlr /\ f.torn = s.torn
         /\ f.power = s.power /\ f.mmu_enable = s.mmu_enable /\ f.left = s.left
         /\ f.pcpage = s.pcpage
    BY <2>6, <2>9 DEF IsRcpu, RFields
  <2>13. /\ f.pc = c.pc /\ f.nextpc = c.pc + 2 /\ f.pcoff \in Int
         /\ f.nextpcoff = Off(c.pc + 1) + 1
    <3>1. Off(c.pc + 1) \in Int
      BY <1>1, PageFacts
    <3> QED
      BY <1>1, <1>3, <2>3, <2>5, <2>6, <2>10, <3>1
  <2>14. Shape(f)
    <3>1. f.nextpcoff \in Int /\ f.pc \in Nat /\ f.nextpc \in Nat
      BY <1>1, <2>5, <2>6, <2>10, <2>13
    <3> QED
      BY <2>3, <2>7, <2>8, <2>10, <2>11, <2>12, <2>13, <3>1 DEF Shape, LinkKnown
  <2>15. Precise(f) /\ f.power = "on" /\ f.pc = f.resume
    BY <1>1, <1>3, <1>4, <2>3, <2>4, <2>7, <2>8, <2>11, <2>12, <2>13 DEF Precise
  <2>16. Confined(f)
    BY <2>3, <2>7, <2>8, <2>11, <2>12 DEF Confined, UserCache, UserPage
  <2>18. ASSUME ~c.super, c.mmu_enable
         PROVE  /\ RPageOf(c.pc + 2) = RPageOf(c.pc + 1) /\ Off(c.pc + 2) = Off(c.pc + 1) + 1
                /\ Off(c.pc + 1) = 0
    <3>1. Off(c.pc) = RPAGE - 1
      BY <2>18, RiscvAssumption DEF Between, PageIs, Straddles
    <3>2. Off(c.pc + 1) = 0
      <4>1. RPAGE \in Nat /\ RPAGE >= 2
        BY RiscvAssumption
      <4>2. Off(c.pc + 1) \in 0 .. RPAGE - 1
        BY <1>1, PageFacts
      <4> QED BY <1>1, <3>1, <4>1, <4>2, PageStep
    <3>3. c.pc + 1 \in Nat /\ c.pc + 2 = (c.pc + 1) + 1
      BY <1>1
    <3>4. \/ RPageOf(c.pc + 2) = RPageOf(c.pc + 1) /\ Off(c.pc + 2) = Off(c.pc + 1) + 1
          \/ Off(c.pc + 1) = RPAGE - 1
      BY <3>3, PageStep
    <3> QED
      BY <3>2, <3>4, RiscvAssumption
  <2>20. f.super = c.super /\ f.mmu_enable = c.mmu_enable
    BY <1>4, <1>5, <2>4, <2>7, <2>8, <2>11, <2>12
  <2>19. PageIs(f, f.nextpc, f.nextpcoff)
    BY <1>3, <2>3, <2>7, <2>8, <2>11, <2>12, <2>13, <2>18, <2>20
       DEF PageIs, Finds, UserPage
  <2>17. PageIs(f, f.pc, f.pcoff)
    <3>1. f.pcoff = Off(c.pc + 1) - 1
      BY <1>3, <2>3, <2>6, <2>10
    <3> QED
      BY <2>18, <2>20, <3>1 DEF PageIs
  <2> QED
    BY <1>4, <2>4, <2>7, <2>11, <2>13, <2>14, <2>15, <2>16, <2>17, <2>19 DEF Fetched
<1>10. ASSUME ~RFetchable(c, c.pc + 1), NEW f, f = StraddleFault(t)
       PROVE  Between(f)
  <2>1. t = trap(b) /\ b.power = "on"
    BY <1>4, <1>6, <1>8, <1>10 DEF Rprecompute_pc
  <2>2. Shape(t)
    BY <1>7, <2>1, TrapOK
  <2>3. \/ t.power = "dead"
        \/ /\ t.power = "on" /\ t.super = TRUE /\ t.sepc = b.pc /\ t.saved = b.resume
           /\ t.pc = stvec /\ t.nextpc = stvec /\ t.resume = stvec
    BY <1>7, <2>1, TrapOK
  <2>4. CASE t.power = "dead"
    <3>1. f = t
      BY <1>10, <2>4 DEF StraddleFault
    <3> QED
      BY <2>2, <2>4, <3>1 DEF Between, Precise
  <2>5. CASE /\ t.power = "on" /\ t.super = TRUE /\ t.sepc = b.pc /\ t.saved = b.resume
             /\ t.pc = stvec /\ t.nextpc = stvec /\ t.resume = stvec
    <3>1. f = [t EXCEPT !.sepc = @ - 1] /\ IsRcpu(t)
      BY <1>10, <2>2, <2>5 DEF StraddleFault, Shape
    <3>2. /\ IsRcpu(f) /\ f.sepc = t.sepc - 1 /\ f.pc = t.pc /\ f.nextpc = t.nextpc
          /\ f.resume = t.resume /\ f.saved = t.saved /\ f.super = t.super
      BY <3>1 DEF IsRcpu, RFields
    <3>3. /\ f.spp = t.spp /\ f.pttop = t.pttop /\ f.ptbase = t.ptbase
          /\ f.cache = t.cache /\ f.lr = t.lr /\ f.lastlr = t.lastlr /\ f.torn = t.torn
      BY <3>1 DEF IsRcpu, RFields
    <3>4. f.pcoff = t.pcoff /\ f.nextpcoff = t.nextpcoff /\ f.power = t.power
      BY <3>1 DEF IsRcpu, RFields
    <3>5. f.sepc = c.pc
      BY <1>1, <1>3, <2>5, <3>2
    <3>6. Shape(f)
      BY <1>1, <2>2, <3>2, <3>3, <3>4, <3>5 DEF Shape, LinkKnown
    <3>7. Precise(f)
      BY <1>1, <1>3, <2>5, <3>2, <3>5 DEF Precise
    <3> QED
      BY <2>5, <3>2, <3>4, <3>6, <3>7 DEF Between, Confined, PageIs
  <2> QED BY <2>3, <2>4, <2>5
<1> QED
  BY <1>9, <1>10

-----------------------------------------------------------------------------
(* The instructions: each takes the processor after the fetch to one the   *)
(* pc can be moved on from.                                                *)

LEMMA PlainOK ==
    ASSUME NEW c, Fetched(c)
    PROVE  Executed(c)
BY DEF Fetched, Executed

LEMMA TrapInstructionOK ==
    ASSUME NEW c, Fetched(c), NEW d, d = trap(c)
    PROVE  Executed(d)
BY TrapBetween DEF Fetched

LEMMA JumpOK ==
    ASSUME NEW c, Fetched(c), NEW dest \in Nat, NEW d, d = rx_jump(c, dest)
    PROVE  Executed(d)
<1> DEFINE b == [c EXCEPT !.pc = dest, !.nextpc = dest, !.resume = dest]
<1>1. IsRcpu(c) /\ Shape(c) /\ Precise(c) /\ Confined(c) /\ c.power = "on"
  BY DEF Fetched, Shape
<1>2. IsRcpu(b) /\ b.pc = dest /\ b.nextpc = dest /\ b.resume = dest
  BY <1>1 DEF IsRcpu, RFields
<1>3. /\ b.sepc = c.sepc /\ b.saved = c.saved /\ b.pcoff = c.pcoff
      /\ b.nextpcoff = c.nextpcoff /\ b.super = c.super /\ b.spp = c.spp
  BY <1>1 DEF IsRcpu, RFields
<1>4. /\ b.pttop = c.pttop /\ b.ptbase = c.ptbase /\ b.cache = c.cache /\ b.lr = c.lr
      /\ b.lastlr = c.lastlr /\ b.torn = c.torn /\ b.power = c.power
      /\ b.mmu_enable = c.mmu_enable /\ b.left = c.left
  BY <1>1 DEF IsRcpu, RFields
<1>5. d = Rprecompute_pc(b)
  BY DEF rx_jump
<1> HIDE DEF b
<1>6. Shape(b) /\ Precise(b)
  BY <1>1, <1>2, <1>3, <1>4 DEF Shape, LinkKnown, Precise
<1>7. b.super \/ ~b.mmu_enable \/ UserCache(b, b.cache)
  BY <1>1, <1>3, <1>4 DEF Confined, UserCache, UserPage
<1> QED
  BY <1>1, <1>2, <1>4, <1>5, <1>6, <1>7, PrecomputeOK

LEMMA BreakpointOK ==
    ASSUME NEW c, Fetched(c), NEW d, d = try_breakpoint(c)
    PROVE  Executed(d)
<1>1. IsRcpu(c) /\ Shape(c) /\ Precise(c) /\ Confined(c) /\ c.pc \in Nat
  BY DEF Fetched, Shape
<1>3. IsRcpu(d) /\ d.nextpc = c.pc /\ d.nextpcoff = c.pcoff /\ d.pc = c.pc
  BY <1>1 DEF IsRcpu, RFields, try_breakpoint
<1>4. /\ d.sepc = c.sepc /\ d.saved = c.saved /\ d.pcoff = c.pcoff /\ d.super = c.super
      /\ d.spp = c.spp /\ d.pttop = c.pttop /\ d.ptbase = c.ptbase /\ d.cache = c.cache
  BY <1>1 DEF IsRcpu, RFields, try_breakpoint
<1>5. /\ d.lr = c.lr /\ d.lastlr = c.lastlr /\ d.torn = c.torn /\ d.power = c.power
      /\ d.mmu_enable = c.mmu_enable /\ d.left = c.left /\ d.pcpage = c.pcpage
  BY <1>1 DEF IsRcpu, RFields, try_breakpoint
<1>6. Shape(d) /\ Precise(d)
  BY <1>1, <1>3, <1>4, <1>5 DEF Shape, LinkKnown, Precise
<1>7. Confined(d)
  BY <1>1, <1>4, <1>5 DEF Confined, UserCache, UserPage
<1>8. PageIs(d, d.nextpc, d.nextpcoff)
  BY <1>3, <1>4, <1>5 DEF Fetched, PageIs, Finds, UserPage
<1> QED
  BY <1>6, <1>7, <1>8 DEF Executed

(* What an access leaves: the reservation gone, the cache as translatemem  *)
(* left it, and the word it may have written.                              *)
Accessed(c, k, w, lost) ==
    [c EXCEPT !.lr.active = FALSE, !.cache = k, !.word = w, !.torn = lost]

LEMMA AccessedOK ==
    ASSUME NEW c, Fetched(c), NEW a \in Nat, NEW rwx, NEW t, t = RTranslate(c, a, rwx),
           NEW d, NEW k, NEW w, NEW lost, ~lost,
           k = c.cache \/ (t.ok /\ k = t.cache),
           d = Accessed(c, k, w, lost)
    PROVE  /\ Executed(d) /\ Shape(d) /\ d.pc = d.resume /\ d.power = "on"
<1>1. IsRcpu(c) /\ Shape(c) /\ Precise(c) /\ Confined(c) /\ c.power = "on" /\ IsLink(c.lr)
      /\ c.pc = c.resume
  BY DEF Fetched, Shape
<1>2. /\ CacheFits(c.pttop, k)
      /\ ~c.super /\ c.mmu_enable => UserCache(c, k)
  <2>1. CASE k = c.cache
    BY <1>1, <2>1 DEF Confined, Shape
  <2>2. CASE t.ok /\ k = t.cache
    BY <1>1, <2>2, TranslateOK DEF Confined
  <2> QED
    BY <2>1, <2>2
<1>10. d = [c EXCEPT !.lr.active = FALSE, !.cache = k, !.word = w, !.torn = lost]
  BY DEF Accessed
<1>3. IsRcpu(d) /\ d.cache = k /\ d.lr = [c.lr EXCEPT !.active = FALSE] /\ d.torn = lost
  BY <1>1, <1>10 DEF IsRcpu, RFields
<1>4. /\ d.pc = c.pc /\ d.nextpc = c.nextpc /\ d.sepc = c.sepc /\ d.saved = c.saved
      /\ d.resume = c.resume /\ d.pcoff = c.pcoff /\ d.nextpcoff = c.nextpcoff
  BY <1>1, <1>10 DEF IsRcpu, RFields
<1>5. /\ d.super = c.super /\ d.spp = c.spp /\ d.pttop = c.pttop /\ d.ptbase = c.ptbase
      /\ d.lastlr = c.lastlr /\ d.power = c.power /\ d.pcpage = c.pcpage
      /\ d.mmu_enable = c.mmu_enable /\ d.left = c.left
  BY <1>1, <1>10 DEF IsRcpu, RFields
<1>6. IsLink(d.lr) /\ d.lr.active = FALSE
  BY <1>1, <1>3 DEF IsLink
<1>7. Shape(d) /\ Precise(d)
  BY <1>1, <1>2, <1>3, <1>4, <1>5, <1>6 DEF Shape, LinkKnown, Precise
<1>8. Confined(d)
  BY <1>2, <1>3, <1>5 DEF Confined, UserCache, UserPage
<1>9. Off(d.nextpc) # 0 => PageIs(d, d.nextpc, d.nextpcoff)
  BY <1>4, <1>5 DEF Fetched, PageIs, Finds, UserPage
<1> QED
  BY <1>1, <1>4, <1>5, <1>7, <1>8, <1>9 DEF Executed

(* The forms that doload, dostore and rx_do_sc leave the processor in.     *)
LEMMA AccessForms ==
    ASSUME NEW c, IsRcpu(c), NEW k, NEW a, NEW v, NEW x
    PROVE  /\ [c EXCEPT !.lr.active = FALSE]
                = Accessed(c, c.cache, c.word, c.torn)
           /\ [[c EXCEPT !.lr.active = FALSE] EXCEPT !.cache = k]
                = Accessed(c, k, c.word, c.torn)
           /\ [[c EXCEPT !.lr.active = FALSE] EXCEPT !.cache = k, !.word[a] = v, !.torn = x]
                = Accessed(c, k, [c.word EXCEPT ![a] = v], x)
BY DEF IsRcpu, RFields, Accessed

LEMMA AccessOK ==
    ASSUME NEW c, Fetched(c), NEW a \in Nat, NEW rwx, NEW d, d = Access(c, a, rwx)
    PROVE  Executed(d)
<1> DEFINE t == RTranslate(c, a, rwx)
           b == [c EXCEPT !.lr.active = FALSE]
<1>1. IsRcpu(c) /\ ~c.torn
  BY DEF Fetched, Shape
<1>2. d = IF t.ok THEN [b EXCEPT !.cache = t.cache] ELSE trap(b)
  BY DEF Access
<1>3. /\ b = Accessed(c, c.cache, c.word, c.torn)
      /\ [b EXCEPT !.cache = t.cache]
           = Accessed(c, t.cache, c.word, c.torn)
  BY <1>1, AccessForms
<1>4. t = RTranslate(c, a, rwx)
  OBVIOUS
<1> HIDE DEF t, b
<1>5. CASE t.ok
  BY <1>1, <1>2, <1>3, <1>4, <1>5, AccessedOK
<1>6. CASE ~t.ok
  <2>1. Shape(b) /\ b.pc = b.resume /\ b.power = "on"
    BY <1>1, <1>3, <1>4, AccessedOK
  <2> QED
    BY <1>2, <1>6, <2>1, TrapBetween
<1> QED
  BY <1>5, <1>6

LEMMA LoadReservedOK ==
    ASSUME NEW c, Fetched(c), NEW a, a = IF c.super THEN WordKernel ELSE WordUser,
           NEW d, d = rx_do_lr(c, a)
    PROVE  Executed(d)
<1> DEFINE t == RTranslate(c, a, "read")
           l == [active |-> TRUE, addr |-> a, value |-> c.word[a]]
           m == IF c.super THEN c.lastlr ELSE c.word[a]
<1>1. IsRcpu(c) /\ Shape(c) /\ Precise(c) /\ Confined(c) /\ c.power = "on"
  BY DEF Fetched, Shape
<1>2. a \in Nat
  BY RiscvAssumption
<1>3. d = IF ~t.ok THEN trap(c) ELSE [c EXCEPT !.cache = t.cache, !.lr = l, !.lastlr = m]
  BY DEF rx_do_lr
<1>4. t = RTranslate(c, a, "read") /\ IsLink(l) /\ l.addr = a /\ l.value = c.word[a]
  BY DEF IsLink
<1>5. c.super \/ m = c.word[a]
  OBVIOUS
<1> HIDE DEF t, l, m
<1>6. CASE ~t.ok
  BY <1>3, <1>6, TrapInstructionOK
<1>7. CASE t.ok
  <2>1. d = [c EXCEPT !.cache = t.cache, !.lr = l, !.lastlr = m]
    BY <1>3, <1>7
  <2>2. IsRcpu(d) /\ d.cache = t.cache /\ d.lr = l /\ d.lastlr = m
    BY <1>1, <2>1 DEF IsRcpu, RFields
  <2>3. /\ d.pc = c.pc /\ d.nextpc = c.nextpc /\ d.sepc = c.sepc /\ d.saved = c.saved
        /\ d.resume = c.resume /\ d.pcoff = c.pcoff /\ d.nextpcoff = c.nextpcoff
    BY <1>1, <2>1 DEF IsRcpu, RFields
  <2>4. /\ d.super = c.super /\ d.spp = c.spp /\ d.pttop = c.pttop /\ d.ptbase = c.ptbase
        /\ d.torn = c.torn /\ d.power = c.power /\ d.pcpage = c.pcpage
        /\ d.mmu_enable = c.mmu_enable /\ d.left = c.left
    BY <1>1, <2>1 DEF IsRcpu, RFields
  <2>5. LinkKnown(d)
    BY <1>4, <1>5, <2>2, RiscvAssumption DEF LinkKnown
  <2>6. CacheFits(c.pttop, t.cache) /\ (~c.super /\ c.mmu_enable => UserCache(c, t.cache))
    BY <1>1, <1>2, <1>4, <1>7, TranslateOK DEF Confined
  <2>7. Shape(d) /\ Precise(d)
    BY <1>1, <1>4, <2>2, <2>3, <2>4, <2>5, <2>6 DEF Shape, Precise
  <2>8. Confined(d)
    BY <2>2, <2>4, <2>6 DEF Confined, UserCache, UserPage
  <2>9. Off(d.nextpc) # 0 => PageIs(d, d.nextpc, d.nextpcoff)
    BY <2>3, <2>4 DEF Fetched, PageIs, Finds, UserPage
  <2> QED
    BY <2>7, <2>8, <2>9 DEF Executed
<1> QED
  BY <1>6, <1>7

(* A user's SC that succeeds finds the value its last LR returned: the     *)
(* reservation is the user's own, or a later one of the kernel's, on       *)
(* another word.                                                           *)
LEMMA StoreConditionalOK ==
    ASSUME NEW c, Fetched(c), NEW a, a = IF c.super THEN WordKernel ELSE WordUser, NEW v,
           NEW d, d = rx_do_sc(c, a, v)
    PROVE  Executed(d)
<1> DEFINE t == RTranslate(c, a, "write")
           b == [c EXCEPT !.lr.active = FALSE]
           x == c.torn \/ (~c.super /\ c.lastlr # c.word[a])
<1>1. IsRcpu(c) /\ ~c.torn /\ LinkKnown(c)
  BY DEF Fetched, Shape
<1>2. a \in Nat
  BY RiscvAssumption
<1>4. b.torn = c.torn
  BY <1>1 DEF IsRcpu, RFields
<1>5. \/ d = b
      \/ d = trap(b)
      \/ t.ok /\ d = [b EXCEPT !.cache = t.cache]
      \/ /\ t.ok /\ c.lr.active /\ c.lr.addr = a /\ c.word[a] = c.lr.value
         /\ d = [b EXCEPT !.cache = t.cache, !.word[a] = v, !.torn = x]
  BY <1>4 DEF rx_do_sc, HasReservation
<1>6. t = RTranslate(c, a, "write") /\ (x => c.torn \/ (~c.super /\ c.lastlr # c.word[a]))
  OBVIOUS
<1>3. /\ b = Accessed(c, c.cache, c.word, c.torn)
      /\ [b EXCEPT !.cache = t.cache]
           = Accessed(c, t.cache, c.word, c.torn)
      /\ [b EXCEPT !.cache = t.cache, !.word[a] = v, !.torn = x]
           = Accessed(c, t.cache, [c.word EXCEPT ![a] = v], x)
  <2> HIDE DEF t, x
  <2> QED BY <1>1 DEF IsRcpu, RFields, Accessed
<1> HIDE DEF t, b, x
<1>7. Executed(b) /\ Shape(b) /\ b.pc = b.resume /\ b.power = "on"
  BY <1>1, <1>2, <1>3, <1>6, AccessedOK
<1>8. CASE t.ok /\ d = [b EXCEPT !.cache = t.cache]
  BY <1>1, <1>2, <1>3, <1>6, <1>8, AccessedOK
<1>9. CASE /\ t.ok /\ c.lr.active /\ c.lr.addr = a /\ c.word[a] = c.lr.value
           /\ d = [b EXCEPT !.cache = t.cache, !.word[a] = v, !.torn = x]
  <2>1. ~x
    BY <1>1, <1>6, <1>9 DEF LinkKnown
  <2> QED
    BY <1>2, <1>3, <1>6, <1>9, <2>1, AccessedOK
<1> QED
  BY <1>5, <1>7, <1>8, <1>9, TrapBetween

(* SRET: the kernel's page that stays in the cache is the one left.        *)
LEMMA SretOK ==
    ASSUME NEW c, Fetched(c), NEW d, d = Supervisor(c, rx_do_sret(c))
    PROVE  Executed(d)
<1> DEFINE e == [c EXCEPT !.sie = c.spie, !.spie = TRUE, !.super = c.spp,
                          !.pc = c.sepc, !.nextpc = c.sepc, !.resume = c.sepc]
           l == LeftBehind(e)
           b == [e EXCEPT !.left = l]
<1>1. IsRcpu(c) /\ Shape(c) /\ Precise(c) /\ c.power = "on"
  BY DEF Fetched, Shape
<1>2. IsRcpu(e) /\ e.super = c.spp /\ e.pc = c.sepc /\ e.nextpc = c.sepc /\ e.resume = c.sepc
  BY <1>1 DEF IsRcpu, RFields
<1>3. /\ e.sepc = c.sepc /\ e.saved = c.saved /\ e.pcoff = c.pcoff /\ e.spp = c.spp
      /\ e.nextpcoff = c.nextpcoff /\ e.pttop = c.pttop
  BY <1>1 DEF IsRcpu, RFields
<1>4. /\ e.cache = c.cache /\ e.lr = c.lr /\ e.lastlr = c.lastlr /\ e.torn = c.torn
      /\ e.power = c.power
  BY <1>1 DEF IsRcpu, RFields
<1>5. d = IF c.super THEN Rprecompute_pc(b) ELSE trap(c)
  BY DEF Supervisor, rx_do_sret
<1>6. l = LeftBehind(e)
  OBVIOUS
<1> HIDE DEF e, l
<1>7. /\ IsRcpu(b) /\ b.left = l /\ b.super = e.super /\ b.pc = e.pc /\ b.nextpc = e.nextpc
      /\ b.resume = e.resume /\ b.sepc = e.sepc /\ b.saved = e.saved /\ b.pcoff = e.pcoff
  BY <1>2 DEF IsRcpu, RFields
<1>8. /\ b.spp = e.spp /\ b.nextpcoff = e.nextpcoff /\ b.pttop = e.pttop /\ b.cache = e.cache
      /\ b.lr = e.lr /\ b.lastlr = e.lastlr /\ b.torn = e.torn /\ b.power = e.power
  BY <1>2 DEF IsRcpu, RFields
<1>9. b.mmu_enable = e.mmu_enable /\ b.sum = e.sum
  BY <1>2 DEF IsRcpu, RFields
<1> HIDE DEF b
<1>10. CASE c.super
  <2>1. Shape(b) /\ Precise(b)
    BY <1>1, <1>2, <1>3, <1>4, <1>7, <1>8 DEF Shape, LinkKnown, Precise
  <2>2. RTranslate(b, b.pc, "execute") = RTranslate(e, e.pc, "execute")
    BY <1>7, <1>8, <1>9, SameLookup
  <2>3. \/ b.super \/ ~b.mmu_enable \/ UserCache(b, b.cache)
        \/ RTranslate(b, b.pc, "execute").cache # b.cache
    BY <1>6, <1>7, <1>8, <1>9, <2>2 DEF LeftBehind, UserCache, UserPage
  <2> QED
    BY <1>1, <1>2, <1>4, <1>5, <1>7, <1>8, <1>10, <2>1, <2>3, PrecomputeOK
<1>11. CASE ~c.super
  BY <1>5, <1>11, TrapInstructionOK
<1> QED
  BY <1>10, <1>11

(* SFENCE.VMA, with a table in memory or not.                              *)
LEMMA SfenceOK ==
    ASSUME NEW c, Fetched(c), NEW d, d = Supervisor(c, rx_do_sfence_vma(c))
    PROVE  Executed(d)
<1> DEFINE k == IF c.ptbase = NoTable THEN c.cache ELSE NoCache
           b == [c EXCEPT !.pttop = c.ptbase, !.cache = k]
<1>1. IsRcpu(c) /\ Shape(c) /\ Precise(c)
  BY DEF Fetched, Shape
<1>2. CASE c.super
  <2>1. d = IF c.ptbase = NoTable THEN trap(b) ELSE b
    <3>1. c.ptbase = NoTable => [c EXCEPT !.pttop = NoTable] = b
      BY <1>1 DEF IsRcpu, RFields
    <3> QED
      BY <1>2, <3>1 DEF Supervisor, rx_do_sfence_vma
  <2>2. k = NoCache \/ c.ptbase = NoTable
    OBVIOUS
  <2> HIDE DEF k
  <2>3. IsRcpu(b) /\ b.pttop = c.ptbase /\ b.cache = k /\ b.resume = c.resume
    BY <1>1 DEF IsRcpu, RFields
  <2>4. /\ b.pc = c.pc /\ b.nextpc = c.nextpc /\ b.sepc = c.sepc /\ b.saved = c.saved
        /\ b.pcoff = c.pcoff /\ b.nextpcoff = c.nextpcoff /\ b.super = c.super
    BY <1>1 DEF IsRcpu, RFields
  <2>5. /\ b.spp = c.spp /\ b.lr = c.lr /\ b.lastlr = c.lastlr
        /\ b.torn = c.torn /\ b.power = c.power
    BY <1>1 DEF IsRcpu, RFields
  <2> HIDE DEF b
  <2>6. Shape(b) /\ Precise(b)
    BY <1>1, <2>2, <2>3, <2>4, <2>5 DEF Shape, LinkKnown, Precise, CacheFits
  <2>7. Executed(b)
    BY <1>2, <2>4, <2>6 DEF Executed, Confined, PageIs
  <2>8. b.power = "on" /\ b.pc = b.resume
    BY <2>3, <2>4, <2>5 DEF Fetched
  <2> QED
    BY <2>1, <2>6, <2>7, <2>8, TrapBetween
<1>3. CASE ~c.super
  BY <1>3, TrapInstructionOK DEF Supervisor
<1> QED
  BY <1>2, <1>3

LEMMA SatpOK ==
    ASSUME NEW c, Fetched(c), NEW on, NEW t,
           NEW d, d = Supervisor(c, write_csr_satp(c, on, t))
    PROVE  Executed(d)
<1>1. IsRcpu(c) /\ Shape(c) /\ Precise(c)
  BY DEF Fetched, Shape
<1>2. CASE c.super
  <2>1. d = [c EXCEPT !.mmu_enable = on, !.ptbase = t, !.cache = NoCache]
    BY <1>2 DEF Supervisor, write_csr_satp
  <2>2. IsRcpu(d) /\ d.cache = NoCache
    BY <1>1, <2>1 DEF IsRcpu, RFields
  <2>3. /\ d.pc = c.pc /\ d.nextpc = c.nextpc /\ d.sepc = c.sepc /\ d.saved = c.saved
        /\ d.pcoff = c.pcoff /\ d.nextpcoff = c.nextpcoff /\ d.super = c.super
    BY <1>1, <2>1 DEF IsRcpu, RFields
  <2>4. /\ d.spp = c.spp /\ d.pttop = c.pttop /\ d.lr = c.lr /\ d.lastlr = c.lastlr
        /\ d.torn = c.torn /\ d.power = c.power
    BY <1>1, <2>1 DEF IsRcpu, RFields
  <2>5. Shape(d) /\ Precise(d)
    BY <1>1, <2>2, <2>3, <2>4 DEF Shape, LinkKnown, Precise, CacheFits
  <2> QED
    BY <1>2, <2>3, <2>5 DEF Executed, Confined, PageIs
<1>3. CASE ~c.super
  BY <1>3, TrapInstructionOK DEF Supervisor
<1> QED
  BY <1>2, <1>3

LEMMA ReturnOK ==
    ASSUME NEW c, Fetched(c), NEW sum, NEW spp \in BOOLEAN, NEW i, NEW a \in Nat,
           NEW d, d = Supervisor(c, write_csr_sepc(write_csr_sstatus(c, sum, spp, TRUE, i), a))
    PROVE  Executed(d)
<1>1. IsRcpu(c) /\ Shape(c) /\ Precise(c)
  BY DEF Fetched, Shape
<1>2. CASE c.super
  <2>1. d = [[c EXCEPT !.sum = sum, !.spp = spp, !.spie = TRUE, !.sie = i]
               EXCEPT !.sepc = a, !.saved = a]
    BY <1>2 DEF Supervisor, write_csr_sepc, write_csr_sstatus
  <2>2. IsRcpu(d) /\ d.spp = spp /\ d.sepc = a /\ d.saved = a
    BY <1>1, <2>1 DEF IsRcpu, RFields
  <2>3. /\ d.pc = c.pc /\ d.nextpc = c.nextpc /\ d.cache = c.cache
        /\ d.pcoff = c.pcoff /\ d.nextpcoff = c.nextpcoff /\ d.super = c.super
    BY <1>1, <2>1 DEF IsRcpu, RFields
  <2>4. /\ d.ptbase = c.ptbase /\ d.pttop = c.pttop /\ d.lr = c.lr /\ d.lastlr = c.lastlr
        /\ d.torn = c.torn /\ d.power = c.power
    BY <1>1, <2>1 DEF IsRcpu, RFields
  <2>5. Shape(d) /\ Precise(d)
    BY <1>1, <2>2, <2>3, <2>4 DEF Shape, LinkKnown, Precise
  <2> QED
    BY <1>2, <2>3, <2>5 DEF Executed, Confined, PageIs
<1>3. CASE ~c.super
  BY <1>3, TrapInstructionOK DEF Supervisor
<1> QED
  BY <1>2, <1>3

-----------------------------------------------------------------------------
(* The cycle up to the instruction: an interrupt, perhaps, and the fetch.  *)
LEMMA CycleOK ==
    ASSUME Between(rcpu), rcpu.power = "on", rcpu.pcoff >= 0, NEW irq \in BOOLEAN, NEW size \in {1, 2},
           NEW c, c = RBegin(irq)
    PROVE  /\ Between(c)
           /\ c.power = "on" /\ ~Straddles(c, size) => Fetched(FetchNext(c, size))
           /\ c.power = "on" /\ Straddles(c, size) =>
                IF RFetchable(c, c.pc + 1)
                THEN Fetched(FetchNext(StraddlePage(SecondHalf(c)), size))
                ELSE Between(StraddleFault(SecondHalf(c)))
<1>1. Between(c)
  <2>1. CASE irq
    BY <2>1, TrapBetween DEF RBegin, Between
  <2>2. CASE ~irq
    BY <2>2 DEF RBegin
  <2> QED BY <2>1, <2>2
<1>5. ~c.super /\ c.power = "on" => c.pcoff >= 0
  <2>1. CASE irq
    BY <2>1, TrapOK DEF RBegin, Between
  <2>2. CASE ~irq
    BY <2>2 DEF RBegin
  <2> QED BY <2>1, <2>2
<1>2. c.power = "on" /\ ~Straddles(c, size) => Fetched(FetchNext(c, size))
  BY <1>1, <1>5, FetchOK
<1>3. Straddles(c, size) => size = 2
  BY DEF Straddles
<1>4. ASSUME c.power = "on", Straddles(c, size)
      PROVE  IF RFetchable(c, c.pc + 1)
             THEN Fetched(FetchNext(StraddlePage(SecondHalf(c)), size))
             ELSE Between(StraddleFault(SecondHalf(c)))
  BY <1>1, <1>3, <1>4, StraddleOK
<1> QED
  BY <1>1, <1>2, <1>4

(* A cycle ends in a state between cycles, whatever its instruction.       *)
LEMMA RunOK ==
    ASSUME NEW d, Executed(d), rcpu' = UpdatePc(d)
    PROVE  Between(rcpu')
BY UpdateOK

LEMMA StepBetween ==
    ASSUME Between(rcpu), RiscvNext
    PROVE  Between(rcpu')
<1> USE CycleOK
<1>1. CASE RPlain
  <2>1. Between(rcpu') \/ \E f : Fetched(f) /\ \E d \in {f} : rcpu' = UpdatePc(d)
    BY <1>1 DEF RPlain, RCycle
  <2> QED BY <2>1, PlainOK, RunOK
<1>2. CASE RTrap
  <2>1. Between(rcpu') \/ \E f : Fetched(f) /\ \E d \in {trap(f)} : rcpu' = UpdatePc(d)
    BY <1>2 DEF RTrap, RCycle
  <2> QED BY <2>1, TrapInstructionOK, RunOK
<1>3. CASE RJump
  <2>1. Between(rcpu') \/ \E f : Fetched(f) /\ \E d \in {rx_jump(f, j) : j \in Jumps} : rcpu' = UpdatePc(d)
    BY <1>3 DEF RJump, RCycle
  <2> QED BY <2>1, JumpOK, RunOK, RiscvAssumption
<1>4. CASE RBreakpoint
  <2>1. \/ Between(rcpu')
        \/ \E f : /\ Fetched(f)
                  /\ \E d \in {IF f.pc >= RKERN THEN try_breakpoint(f) ELSE trap(f)} :
                       rcpu' = UpdatePc(d)
    BY <1>4 DEF RBreakpoint, RCycle
  <2> QED BY <2>1, BreakpointOK, TrapInstructionOK, RunOK
<1>5. CASE RLoadStore
  <2>1. \/ Between(rcpu')
        \/ \E f : /\ Fetched(f)
                  /\ \E a \in Accesses, rwx \in {"read", "write"} : rcpu' = UpdatePc(Access(f, a, rwx))
    BY <1>5 DEF RLoadStore, RCycle
  <2> QED BY <2>1, AccessOK, RunOK, RiscvAssumption
<1>6. CASE LoadReserved
  <2>1. \/ Between(rcpu')
        \/ \E f : /\ Fetched(f)
                  /\ rcpu' = UpdatePc(rx_do_lr(f, IF f.super THEN WordKernel ELSE WordUser))
    BY <1>6 DEF LoadReserved, RCycle
  <2> QED BY <2>1, LoadReservedOK, RunOK
<1>7. CASE RStoreConditional
  <2>1. \/ Between(rcpu')
        \/ \E f, v : /\ Fetched(f)
                     /\ rcpu' = UpdatePc(rx_do_sc(f, IF f.super THEN WordKernel ELSE WordUser, v))
    BY <1>7 DEF RStoreConditional, RCycle
  <2> QED BY <2>1, StoreConditionalOK, RunOK
<1>8. CASE Sret
  <2>1. \/ Between(rcpu')
        \/ \E f : Fetched(f) /\ rcpu' = UpdatePc(Supervisor(f, rx_do_sret(f)))
    BY <1>8 DEF Sret, RCycle
  <2> QED BY <2>1, SretOK, RunOK
<1>9. CASE SfenceVma
  <2>1. \/ Between(rcpu')
        \/ \E f : Fetched(f) /\ rcpu' = UpdatePc(Supervisor(f, rx_do_sfence_vma(f)))
    BY <1>9 DEF SfenceVma, RCycle
  <2> QED BY <2>1, SfenceOK, RunOK
<1>10. CASE WriteSatp
  <2>1. \/ Between(rcpu')
        \/ \E f : /\ Fetched(f)
                  /\ \E on \in BOOLEAN, t \in {NoTable} \cup DOMAIN Tables :
                       rcpu' = UpdatePc(Supervisor(f, write_csr_satp(f, on, t)))
    BY <1>10 DEF WriteSatp, RCycle
  <2> QED BY <2>1, SatpOK, RunOK
<1>11. CASE WriteReturn
  <2>1. PICK sum \in BOOLEAN, spp \in BOOLEAN, i \in BOOLEAN :
          RCycle(2, LAMBDA c : {Supervisor(c, write_csr_sepc(write_csr_sstatus(c, sum, spp, TRUE, i),
                                                            IF spp THEN Entrypoint ELSE a))
                                  : a \in Returns})
    BY <1>11 DEF WriteReturn
  <2>2. \/ Between(rcpu')
        \/ \E f : /\ Fetched(f)
                  /\ \E a \in Returns :
                       rcpu' = UpdatePc(Supervisor(f,
                                 write_csr_sepc(write_csr_sstatus(f, sum, spp, TRUE, i),
                                                IF spp THEN Entrypoint ELSE a)))
    BY <2>1 DEF RCycle
  <2> QED BY <2>2, ReturnOK, RunOK, RiscvAssumption
<1>12. CASE UndefinedFetch
  <2>1. IsRcpu(rcpu) /\ rcpu' = [rcpu EXCEPT !.power = "undefined"] /\ rcpu.power = "on"
    BY <1>12 DEF UndefinedFetch, Between, Shape
  <2> DEFINE d == rcpu'
  <2>2. IsRcpu(d) /\ d.power = "undefined"
    BY <2>1 DEF IsRcpu, RFields
  <2>3. /\ d.pc = rcpu.pc /\ d.nextpc = rcpu.nextpc /\ d.sepc = rcpu.sepc
        /\ d.saved = rcpu.saved /\ d.pcoff = rcpu.pcoff /\ d.nextpcoff = rcpu.nextpcoff
    BY <2>1 DEF IsRcpu, RFields
  <2>4. /\ d.super = rcpu.super /\ d.spp = rcpu.spp /\ d.pttop = rcpu.pttop
        /\ d.ptbase = rcpu.ptbase /\ d.cache = rcpu.cache /\ d.lr = rcpu.lr
        /\ d.lastlr = rcpu.lastlr /\ d.torn = rcpu.torn
    BY <2>1 DEF IsRcpu, RFields
  <2> HIDE DEF d
  <2>5. Between(d)
    BY <2>1, <2>2, <2>3, <2>4 DEF Between, Shape, LinkKnown, Precise
  <2> QED BY <2>5 DEF d
<1>13. ASSUME NEW v \in RValues, ROtherStore(v)
       PROVE  Between(rcpu')
  <2> DEFINE d == rcpu'
             w == [rcpu.word EXCEPT ![WordUser] = v]
  <2>1. IsRcpu(rcpu) /\ d = [rcpu EXCEPT !.word = w] /\ rcpu.power = "on"
    BY <1>13 DEF ROtherStore, Between, Shape
  <2> HIDE DEF d, w
  <2>2. IsRcpu(d) /\ d.power = rcpu.power /\ d.resume = rcpu.resume /\ d.pcpage = rcpu.pcpage
        /\ d.mmu_enable = rcpu.mmu_enable /\ d.left = rcpu.left
    BY <2>1 DEF IsRcpu, RFields
  <2>3. /\ d.pc = rcpu.pc /\ d.nextpc = rcpu.nextpc /\ d.sepc = rcpu.sepc
        /\ d.saved = rcpu.saved /\ d.pcoff = rcpu.pcoff /\ d.nextpcoff = rcpu.nextpcoff
    BY <2>1 DEF IsRcpu, RFields
  <2>4. /\ d.super = rcpu.super /\ d.spp = rcpu.spp /\ d.pttop = rcpu.pttop
        /\ d.ptbase = rcpu.ptbase /\ d.cache = rcpu.cache /\ d.lr = rcpu.lr
        /\ d.lastlr = rcpu.lastlr /\ d.torn = rcpu.torn
    BY <2>1 DEF IsRcpu, RFields
  <2>5. Between(d)
    BY <2>2, <2>3, <2>4 DEF Between, Shape, LinkKnown, Precise, Confined, UserCache, PageIs,
                           Finds, UserPage
  <2> QED BY <2>5 DEF d
<1> QED
  BY <1>1, <1>2, <1>3, <1>4, <1>5, <1>6, <1>7, <1>8, <1>9, <1>10, <1>11, <1>12, <1>13
     DEF RiscvNext

(* The state between cycles is as Between says: what a trap saves is the   *)
(* instruction to go on with, and in user mode the page at hand is the     *)
(* pc's and the translation cache has no page of the kernel's but the one  *)
(* that SRET left there.                                                   *)
THEOREM RiscvInvariant == RiscvSpec => []Between(rcpu)
<1>1. RiscvInit => Between(rcpu)
  <2> SUFFICES ASSUME RiscvInit PROVE Between(rcpu)
    OBVIOUS
  <2> DEFINE v == CHOOSE w \in RValues : TRUE
  <2>2. rcpu = [pc |-> Entrypoint, nextpc |-> Entrypoint, pcpage |-> RPageOf(Entrypoint),
            pcoff |-> Off(Entrypoint), nextpcoff |-> Off(Entrypoint),
            super |-> TRUE, spp |-> TRUE, sie |-> FALSE, spie |-> FALSE, sum |-> FALSE,
            sepc |-> Entrypoint, mmu_enable |-> FALSE, ptbase |-> NoTable, pttop |-> NoTable,
            cache |-> NoCache, lr |-> [active |-> FALSE, addr |-> WordKernel, value |-> v],
            word |-> [a \in {WordUser, WordKernel} |-> v], power |-> "on",
            resume |-> Entrypoint, saved |-> Entrypoint, left |-> NoCache.vpage,
            lastlr |-> v, torn |-> FALSE]
    BY DEF RiscvInit
  <2> HIDE DEF v
  <2>3. IsRcpu(rcpu)
    BY <2>2 DEF IsRcpu, RFields
  <2>4. /\ rcpu.pc = Entrypoint /\ rcpu.nextpc = Entrypoint /\ rcpu.sepc = Entrypoint
        /\ rcpu.resume = Entrypoint /\ rcpu.saved = Entrypoint
        /\ rcpu.pcoff = Off(Entrypoint) /\ rcpu.nextpcoff = Off(Entrypoint)
    BY <2>2
  <2>5. /\ rcpu.super = TRUE /\ rcpu.spp = TRUE /\ rcpu.torn = FALSE
        /\ rcpu.pttop = NoTable /\ rcpu.cache = NoCache
    BY <2>2
  <2>6. rcpu.lr = [active |-> FALSE, addr |-> WordKernel, value |-> v]
    BY <2>2
  <2>7. IsLink(rcpu.lr) /\ rcpu.lr.active = FALSE
    BY <2>6 DEF IsLink
  <2>8. Off(Entrypoint) \in Int
    BY PageFacts, RiscvAssumption
  <2>9. Shape(rcpu)
    <3>1. rcpu.super \in BOOLEAN /\ rcpu.spp \in BOOLEAN
      BY <2>5, Zenon
    <3> QED
      BY <2>3, <2>4, <2>5, <2>7, <2>8, <3>1, RiscvAssumption
         DEF Shape, CacheFits, LinkKnown
  <2> QED
    BY <2>4, <2>5, <2>9 DEF Between, Precise, Confined, PageIs
<1>2. Between(rcpu) /\ [RiscvNext]_riscvVars => Between(rcpu)'
  <2>1. Between(rcpu) /\ RiscvNext => Between(rcpu)'
    BY StepBetween
  <2>2. Between(rcpu) /\ UNCHANGED riscvVars => Between(rcpu)'
    BY DEF riscvVars
  <2> QED BY <2>1, <2>2
<1> QED
  BY <1>1, <1>2, PTL DEF RiscvSpec

(* SEPC always holds the first instruction that has not completed.         *)
THEOREM SepcIsPrecise == RiscvSpec => []PreciseSepc
<1>1. Between(rcpu) => PreciseSepc
  BY DEF Between, Precise, PreciseSepc
<1> QED
  BY <1>1, RiscvInvariant, PTL

(* User programs run in user pages and find no page of the kernel's in the *)
(* translation cache but the one that SRET left there, for every set of    *)
(* page tables, superpages and all.                                        *)
THEOREM UsersAreIsolated == RiscvSpec => []UserIsolated
<1>1. Between(rcpu) => UserIsolated
  BY DEF Between, Shape, Confined, PageIs, Finds, UserCache, UserIsolated
<1> QED
  BY <1>1, RiscvInvariant, PTL

(* A user's SC succeeds only on the value its last LR returned, although   *)
(* traps leave reservations alone.                                         *)
THEOREM ScIsReserved == RiscvSpec => []ReservedSc
<1>1. Between(rcpu) => ReservedSc
  BY DEF Between, Shape, ReservedSc
<1> QED
  BY <1>1, RiscvInvariant, PTL

-----------------------------------------------------------------------------
(***************************************************************************)
(* MIPS.                                                                   *)
(***************************************************************************)
MFields ==
    {"pc", "nextpc", "expc", "epc", "pcpage", "nextpcpage", "jumping", "in_jumpdelay",
     "usermode", "irqon", "tlb", "pid", "ll", "wait", "mem", "power", "stale", "slot",
     "seen", "sc", "took", "stalled", "resume", "saved"}
IsMcpu(c) == c = [x \in MFields |-> c[x]]

(* Only a user program's own LL leaves a link on the user's word, and only *)
(* until the next exception.                                               *)
LinkOwned(c) ==
    c.ll.active /\ c.ll.addr = LockUser =>
        c.usermode[1] /\ c.seen = {[addr |-> LockUser, value |-> c.ll.value]}

Standing(c) ==
    /\ IsMcpu(c) /\ c.pc \in Nat /\ c.nextpc \in Nat /\ c.expc \in Nat
    /\ c.usermode \in [1 .. KUDEPTH -> BOOLEAN] /\ LinkOwned(c) /\ c.sc # "torn"

(* The cached page of an address is what a lookup would find now.          *)
Fresh(c, a, page) == Fetchable(c, a) /\ page = FetchPage(c, a)

(* A processor with no change of mode or address space pending has the     *)
(* pages of pc and nextpc, and can go back to a branch and its delay slot. *)
Current(c) ==
    c.power = "on" /\ ~c.stale =>
        /\ Fresh(c, c.pc, c.pcpage)
        /\ (c.slot = "rfe" /\ c.nextpcpage = NoPage) \/ Fresh(c, c.nextpc, c.nextpcpage)
        /\ c.jumping => Fetchable(c, c.expc) /\ Fetchable(c, c.expc + 1)

(* Between cycles.                                                         *)
Settled(c) ==
    /\ Standing(c) /\ Current(c) /\ ~c.took /\ ~c.stalled
    /\ c.epc = c.saved /\ c.expc = c.resume
    /\ ~c.jumping => c.pc = c.expc /\ c.nextpc = c.pc + 1
    /\ c.power = "smoke" => c.stale

(* After the fetch, in a cycle whose exceptions are to resume at base; epc *)
(* is what an interrupt has stored.                                        *)
Begun(c, base, epc) ==
    /\ Standing(c) /\ c.power = "on" /\ ~c.took /\ ~c.stalled /\ ~c.jumping
    /\ c.saved = None /\ c.epc = epc /\ c.expc = base /\ c.nextpc = c.pc + 1
PagesReady(c, base) ==
    ~c.stale => /\ Fresh(c, c.pc, c.pcpage) /\ Fresh(c, c.nextpc, c.nextpcpage)
                /\ Fetchable(c, base) /\ Fetchable(c, base + 1)

(* After the instruction.                                                  *)
Done(d, base, epc) ==
    /\ Standing(d) /\ Current(d) /\ d.saved = None
    /\ d.epc = IF d.took THEN base ELSE epc
    /\ d.jumping => ~d.took /\ d.expc = base
    /\ ~d.took /\ d.stalled /\ ~d.jumping => d.pc = base
    /\ ~d.jumping => d.nextpc = d.pc + 1
    /\ d.power = "smoke" => d.stale

-----------------------------------------------------------------------------
(* The vectors are in memory, whole pages of which there is.               *)
LEMMA SameSide ==
    ASSUME NEW a \in Nat, (a + 1) % PAGE # 0
    PROVE  Vpage(a + 1) = Vpage(a) /\ (a + 1 >= USEG <=> a >= USEG) /\ (a + 1 < KTOP <=> a < KTOP)
<1>1. PAGE \in Nat \ {0}
  BY MipsAssumption
<1>2. Vpage(a + 1) = Vpage(a)
  BY <1>1, DivModStep DEF Vpage
<1>3. ASSUME NEW n \in Nat, n = PAGE * Vpage(n)
      PROVE  a + 1 # n
  <2>1. n = PAGE * (n \div PAGE) /\ n \div PAGE \in Nat /\ n % PAGE \in Nat
        /\ PAGE * (n \div PAGE) + (n % PAGE) = n
    BY <1>1, <1>3, DivModDef DEF Vpage
  <2>2. n % PAGE = 0
    BY <2>1
  <2> QED
    BY <2>2
<1>4. a + 1 # USEG /\ a + 1 # KTOP
  BY <1>3, MipsAssumption
<1> QED
  BY <1>2, <1>4, MipsAssumption

(* translatemem depends on the TLB, the address space and the mode, and on *)
(* the page only.                                                          *)
LEMMA SameTranslation ==
    ASSUME NEW c, NEW d, NEW a \in Nat, NEW b \in Nat,
           d.tlb = c.tlb, d.pid = c.pid, d.usermode[1] = c.usermode[1],
           Vpage(b) = Vpage(a), b >= USEG <=> a >= USEG
    PROVE  Translate(d, b, FALSE) = Translate(c, a, FALSE)
<1>1. findtlb(d, Vpage(b)) = findtlb(c, Vpage(a))
  BY DEF findtlb
<1>2. b < USEG <=> a < USEG
  BY MipsAssumption
<1> QED
  BY <1>1, <1>2 DEF Translate

LEMMA SameFresh ==
    ASSUME NEW c, NEW d, NEW a \in Nat,
           d.tlb = c.tlb, d.pid = c.pid, d.usermode[1] = c.usermode[1]
    PROVE  /\ Fetchable(d, a) <=> Fetchable(c, a)
           /\ FetchPage(d, a) = FetchPage(c, a)
           /\ \A page : Fresh(d, a, page) <=> Fresh(c, a, page)
<1>1. Translate(d, a, FALSE) = Translate(c, a, FALSE)
  BY SameTranslation
<1> QED
  BY <1>1 DEF Fetchable, FetchPage, Fresh

LEMMA NextFresh ==
    ASSUME NEW c, NEW a \in Nat, (a + 1) % PAGE # 0, NEW page, Fresh(c, a, page)
    PROVE  Fresh(c, a + 1, page)
<1>1. Vpage(a + 1) = Vpage(a) /\ (a + 1 >= USEG <=> a >= USEG) /\ (a + 1 < KTOP <=> a < KTOP)
  BY SameSide
<1>2. Translate(c, a + 1, FALSE) = Translate(c, a, FALSE)
  <2>1. a + 1 \in Nat
    OBVIOUS
  <2> QED BY <1>1, <2>1, SameTranslation
<1> QED
  BY <1>1, <1>2 DEF Fetchable, FetchPage, Fresh, mapmem

(* The kernel can fetch from kseg0 whatever the TLB holds.                 *)
LEMMA KernelFresh ==
    ASSUME NEW c, ~c.usermode[1], NEW a \in USEG .. KTOP - 1
    PROVE  Fresh(c, a, <<"kseg0", Vpage(a)>>)
<1>1. a \in Nat /\ a >= USEG /\ a < KTOP
  BY MipsAssumption
<1>2. Translate(c, a, FALSE) = [ok |-> TRUE, frame |-> <<"kseg0", Vpage(a)>>]
  <2> DEFINE t == Translate(c, a, FALSE)
  <2>1. ~(a < USEG)
    BY <1>1, MipsAssumption
  <2> QED
    BY <1>1, <2>1, Zenon DEF Translate
<1> DEFINE t == Translate(c, a, FALSE)
<1>3. t.ok /\ t.frame = <<"kseg0", Vpage(a)>>
  <2>1. t = [ok |-> TRUE, frame |-> <<"kseg0", Vpage(a)>>]
    BY <1>2
  <2> HIDE DEF t
  <2> QED BY <2>1
<1> QED
  BY <1>1, <1>3 DEF Fetchable, FetchPage, Fresh, mapmem

LEMMA PushPop ==
    ASSUME NEW s \in [1 .. KUDEPTH -> BOOLEAN]
    PROVE  Push(s) \in [1 .. KUDEPTH -> BOOLEAN] /\ Pop(s) \in [1 .. KUDEPTH -> BOOLEAN]
<1>1. KUDEPTH \in Nat \ {0}
  BY MipsAssumption
<1>2. ASSUME NEW i \in 1 .. KUDEPTH
      PROVE  (IF i = 1 THEN FALSE ELSE s[i - 1]) \in BOOLEAN
  <2>1. i = 1 \/ i - 1 \in 1 .. KUDEPTH
    BY <1>1
  <2>2. i # 1 => s[i - 1] \in BOOLEAN
    BY <2>1
  <2> QED BY <2>2, Zenon
<1>3. ASSUME NEW i \in 1 .. KUDEPTH
      PROVE  (IF i = KUDEPTH THEN s[i] ELSE s[i + 1]) \in BOOLEAN
  <2>1. i = KUDEPTH \/ i + 1 \in 1 .. KUDEPTH
    BY <1>1
  <2> QED BY <2>1, Zenon
<1> QED
  BY <1>2, <1>3, Zenon DEF Push, Pop

(* exception(): the processor is in kernel mode at a vector.               *)
LEMMA ExceptionOK ==
    ASSUME NEW c, Standing(c), c.power = "on", ~c.stalled, c.saved = None, NEW f,
           NEW d, d = exception(c, f)
    PROVE  /\ \A epc : Done(d, c.expc, epc)
           /\ d.took /\ ~d.jumping /\ ~d.stalled /\ ~d.stale /\ d.power = "on" /\ d.nextpc = d.pc + 1
           /\ d.epc = c.expc /\ d.expc = c.expc /\ d.sc = c.sc
           /\ Fresh(d, d.pc, d.pcpage) /\ Fresh(d, d.nextpc, d.nextpcpage)
           /\ d.pc \in {UTLBVector, Vector} /\ (f.code \notin {"TLBL", "TLBS"} => d.pc = Vector)
<1> DEFINE v == IF f.code \in {"TLBL", "TLBS"} /\ f.utlb THEN UTLBVector ELSE Vector
<1>1. IsMcpu(c)
  BY DEF Standing
<1>2. v \in {UTLBVector, Vector} /\ (f.code \notin {"TLBL", "TLBS"} => v = Vector)
  OBVIOUS
<1>3. d = [c EXCEPT !.jumping = FALSE, !.in_jumpdelay = FALSE, !.ll = NoLink, !.seen = {},
                    !.usermode = Push(c.usermode), !.irqon = Push(c.irqon),
                    !.epc = c.expc, !.pc = v, !.nextpc = v + 1,
                    !.pcpage = <<"kseg0", Vpage(v)>>, !.nextpcpage = <<"kseg0", Vpage(v + 1)>>,
                    !.stale = FALSE, !.slot = "any", !.took = TRUE]
  BY DEF exception
<1> HIDE DEF v
<1>4. IsMcpu(d)
  BY <1>1, <1>3 DEF IsMcpu, MFields
<1>5. /\ d.jumping = FALSE /\ d.ll = NoLink /\ d.seen = {} /\ d.usermode = Push(c.usermode)
      /\ d.epc = c.expc /\ d.pc = v /\ d.nextpc = v + 1
  <2>1. d.jumping = FALSE /\ d.ll = NoLink /\ d.seen = {}
    BY <1>1, <1>3 DEF IsMcpu, MFields
  <2>2. d.usermode = Push(c.usermode) /\ d.epc = c.expc
    BY <1>1, <1>3 DEF IsMcpu, MFields
  <2>3. d.pc = v /\ d.nextpc = v + 1
    BY <1>1, <1>3 DEF IsMcpu, MFields
  <2> QED BY <2>1, <2>2, <2>3
<1>6. /\ d.pcpage = <<"kseg0", Vpage(v)>> /\ d.nextpcpage = <<"kseg0", Vpage(v + 1)>>
      /\ d.stale = FALSE /\ d.slot = "any" /\ d.took = TRUE
  BY <1>1, <1>3 DEF IsMcpu, MFields
<1>7. /\ d.expc = c.expc /\ d.power = c.power /\ d.sc = c.sc /\ d.stalled = c.stalled
      /\ d.saved = c.saved
  <2>1. d.expc = c.expc /\ d.power = c.power
    BY <1>1, <1>3 DEF IsMcpu, MFields
  <2>2. d.sc = c.sc /\ d.saved = c.saved
    BY <1>1, <1>3 DEF IsMcpu, MFields
  <2>3. d.stalled = c.stalled
    BY <1>1, <1>3 DEF IsMcpu, MFields
  <2> QED BY <2>1, <2>2, <2>3
<1>8. v \in Nat /\ v + 1 \in Nat /\ v \in USEG .. KTOP - 1 /\ v + 1 \in USEG .. KTOP - 1
  BY <1>2, MipsAssumption
<1>9. d.usermode[1] = FALSE
  BY <1>5, MipsAssumption DEF Push
<1>10. Standing(d)
  <2>1. d.usermode \in [1 .. KUDEPTH -> BOOLEAN]
    BY <1>5, PushPop DEF Standing
  <2>2. ~d.ll.active
    BY <1>5 DEF NoLink
  <2> QED
    BY <1>4, <1>5, <1>7, <1>8, <2>1, <2>2 DEF Standing, LinkOwned
<1>11. Fresh(d, d.pc, d.pcpage) /\ Fresh(d, d.nextpc, d.nextpcpage)
  BY <1>5, <1>6, <1>8, <1>9, KernelFresh
<1>12. Current(d)
  BY <1>5, <1>11 DEF Current
<1> QED
  BY <1>2, <1>5, <1>6, <1>7, <1>8, <1>10, <1>11, <1>12 DEF Done

(* What an exception needs of the processor.                               *)
Running(c) == Standing(c) /\ c.power = "on" /\ ~c.stalled /\ c.saved = None

(* precompute_nextpc.                                                      *)
LEMMA NextPageOK ==
    ASSUME NEW c, Standing(c), Fetchable(c, c.nextpc), NEW d, d = precompute_nextpc(c)
    PROVE  /\ IsMcpu(d) /\ Standing(d) /\ Fresh(d, d.nextpc, d.nextpcpage)
           /\ d = [c EXCEPT !.nextpcpage = FetchPage(c, c.nextpc)]
           /\ d.pc = c.pc /\ d.nextpc = c.nextpc /\ d.pcpage = c.pcpage /\ d.expc = c.expc
           /\ d.tlb = c.tlb /\ d.pid = c.pid /\ d.usermode = c.usermode /\ d.epc = c.epc
           /\ d.power = c.power /\ d.stale = c.stale /\ d.took = c.took /\ d.slot = c.slot
           /\ d.stalled = c.stalled /\ d.jumping = c.jumping /\ d.saved = c.saved
<1>1. IsMcpu(c)
  BY DEF Standing
<1>2. d = [c EXCEPT !.nextpcpage = FetchPage(c, c.nextpc)]
  BY DEF precompute_nextpc
<1>3. IsMcpu(d) /\ d.nextpcpage = FetchPage(c, c.nextpc)
  BY <1>1, <1>2 DEF IsMcpu, MFields
<1>4. /\ d.pc = c.pc /\ d.nextpc = c.nextpc /\ d.pcpage = c.pcpage /\ d.expc = c.expc
      /\ d.tlb = c.tlb /\ d.pid = c.pid /\ d.usermode = c.usermode /\ d.epc = c.epc
  BY <1>1, <1>2 DEF IsMcpu, MFields
<1>5. /\ d.power = c.power /\ d.stale = c.stale /\ d.took = c.took /\ d.slot = c.slot
      /\ d.stalled = c.stalled /\ d.jumping = c.jumping /\ d.saved = c.saved
  BY <1>1, <1>2 DEF IsMcpu, MFields
<1>6. d.ll = c.ll /\ d.seen = c.seen /\ d.sc = c.sc
  BY <1>1, <1>2 DEF IsMcpu, MFields
<1>7. Standing(d)
  BY <1>3, <1>4, <1>6 DEF Standing, LinkOwned
<1>8. c.nextpc \in Nat
  BY DEF Standing
<1>9. Fresh(c, c.nextpc, d.nextpcpage)
  BY <1>3 DEF Fresh
<1>10. Fresh(d, d.nextpc, d.nextpcpage)
  BY <1>4, <1>8, <1>9, SameFresh
<1> QED
  BY <1>2, <1>3, <1>4, <1>5, <1>7, <1>10

(* Both lookups, when both pages are there.                                *)
LEMMA BothPagesOK ==
    ASSUME NEW c, Standing(c), Fetchable(c, c.pc), Fetchable(c, c.nextpc),
           NEW d, d = Precompute(c)
    PROVE  /\ Standing(d) /\ ~d.stale
           /\ Fresh(d, d.pc, d.pcpage) /\ Fresh(d, d.nextpc, d.nextpcpage)
           /\ d.pc = c.pc /\ d.nextpc = c.nextpc /\ d.expc = c.expc /\ d.epc = c.epc
           /\ d.power = c.power /\ d.took = c.took /\ d.stalled = c.stalled
           /\ d.jumping = c.jumping /\ d.saved = c.saved
<1> DEFINE b == [c EXCEPT !.stale = FALSE]
           e == precompute_pc(b)
<1>1. IsMcpu(c) /\ c.pc \in Nat /\ c.nextpc \in Nat
  BY DEF Standing
<1>2. /\ IsMcpu(b) /\ b.stale = FALSE /\ b.pc = c.pc /\ b.tlb = c.tlb /\ b.pid = c.pid
      /\ b.usermode = c.usermode
  BY <1>1 DEF IsMcpu, MFields
<1>3. Fetchable(b, b.pc) /\ Fresh(b, b.pc, FetchPage(b, b.pc))
  <2> HIDE DEF b
  <2> QED BY <1>1, <1>2, SameFresh DEF Fresh
<1>4. e = [b EXCEPT !.pcpage = FetchPage(b, b.pc)]
  <2> HIDE DEF b
  <2> QED BY <1>3 DEF precompute_pc
<1>5. d = precompute_nextpc(e)
  BY DEF Precompute
<1>6. e = [c EXCEPT !.stale = FALSE, !.pcpage = FetchPage(b, b.pc)]
  <2> DEFINE page == FetchPage(b, b.pc)
  <2>1. e = [b EXCEPT !.pcpage = page]
    BY <1>4
  <2> HIDE DEF page, e
  <2> QED BY <2>1 DEF page
<1> HIDE DEF b, e
<1>7. /\ IsMcpu(e) /\ e.stale = FALSE /\ e.pcpage = FetchPage(b, b.pc) /\ e.pc = c.pc
      /\ e.nextpc = c.nextpc /\ e.expc = c.expc /\ e.epc = c.epc
  BY <1>1, <1>6 DEF IsMcpu, MFields
<1>8. /\ e.tlb = c.tlb /\ e.pid = c.pid /\ e.usermode = c.usermode /\ e.ll = c.ll
      /\ e.seen = c.seen /\ e.sc = c.sc /\ e.power = c.power
  BY <1>1, <1>6 DEF IsMcpu, MFields
<1>9. e.took = c.took /\ e.stalled = c.stalled /\ e.jumping = c.jumping /\ e.saved = c.saved
  BY <1>1, <1>6 DEF IsMcpu, MFields
<1>10. Standing(e)
  BY <1>7, <1>8 DEF Standing, LinkOwned
<1>11. Fresh(e, e.pc, e.pcpage)
  BY <1>1, <1>2, <1>3, <1>7, <1>8, SameFresh
<1>12. Fetchable(e, e.nextpc)
  BY <1>1, <1>7, <1>8, SameFresh
<1>13. /\ Standing(d) /\ Fresh(d, d.nextpc, d.nextpcpage)
       /\ d.pc = e.pc /\ d.nextpc = e.nextpc /\ d.pcpage = e.pcpage /\ d.expc = e.expc
       /\ d.tlb = e.tlb /\ d.pid = e.pid /\ d.usermode = e.usermode /\ d.epc = e.epc
       /\ d.power = e.power /\ d.stale = e.stale /\ d.took = e.took
       /\ d.stalled = e.stalled /\ d.jumping = e.jumping /\ d.saved = e.saved
  BY <1>5, <1>10, <1>12, NextPageOK
<1>14. Fresh(d, d.pc, d.pcpage)
  BY <1>1, <1>7, <1>11, <1>13, SameFresh
<1> QED
  BY <1>7, <1>8, <1>9, <1>13, <1>14

(* Both lookups of a processor that goes on at its pc.  Only one of them   *)
(* can raise an exception, for the first one's vector can be fetched.      *)
LEMMA LookupsOK ==
    ASSUME NEW c, Running(c), ~c.took, ~c.jumping, c.nextpc = c.pc + 1,
           NEW d, d = Precompute(c)
    PROVE  Done(d, c.expc, c.epc)
<1> DEFINE b == [c EXCEPT !.stale = FALSE]
           e == precompute_pc(b)
<1>1. IsMcpu(c) /\ Standing(c) /\ c.pc \in Nat /\ c.nextpc \in Nat /\ c.power = "on"
  BY DEF Standing, Running
<1>2. /\ IsMcpu(b) /\ b.pc = c.pc /\ b.nextpc = c.nextpc /\ b.expc = c.expc
      /\ b.tlb = c.tlb /\ b.pid = c.pid /\ b.usermode = c.usermode
  BY <1>1 DEF IsMcpu, MFields
<1>3. /\ b.ll = c.ll /\ b.seen = c.seen /\ b.sc = c.sc /\ b.power = c.power
      /\ b.stalled = c.stalled /\ b.saved = c.saved
  BY <1>1 DEF IsMcpu, MFields
<1>4. d = precompute_nextpc(e)
  BY DEF Precompute
<1>5. e = IF Fetchable(b, b.pc) THEN [b EXCEPT !.pcpage = FetchPage(b, b.pc)]
          ELSE exception(b, FetchFault(b, b.pc))
  BY DEF precompute_pc
<1> HIDE DEF b, e
<1>6. Running(b)
  BY <1>1, <1>2, <1>3 DEF Running, Standing, LinkOwned
<1>7. Fetchable(b, b.pc) <=> Fetchable(c, c.pc)
  BY <1>1, <1>2, SameFresh
<1>8. CASE ~Fetchable(c, c.pc)
  <2>1. e = exception(b, FetchFault(b, b.pc))
    BY <1>5, <1>7, <1>8
  <2>2. Done(e, b.expc, c.epc) /\ Fresh(e, e.nextpc, e.nextpcpage)
    BY <1>6, <2>1, ExceptionOK DEF Running
  <2>3. Standing(e) /\ Fetchable(e, e.nextpc) /\ e.nextpcpage = FetchPage(e, e.nextpc)
    BY <2>2 DEF Done, Fresh
  <2>4. d = [e EXCEPT !.nextpcpage = FetchPage(e, e.nextpc)]
    BY <1>4, <2>3, NextPageOK
  <2>5. d = e
    BY <2>3, <2>4 DEF Standing, IsMcpu, MFields
  <2> QED BY <1>2, <2>2, <2>5
<1>9. CASE Fetchable(c, c.pc) /\ Fetchable(c, c.nextpc)
  <2>1. /\ Standing(d) /\ ~d.stale
        /\ Fresh(d, d.pc, d.pcpage) /\ Fresh(d, d.nextpc, d.nextpcpage)
        /\ d.pc = c.pc /\ d.nextpc = c.nextpc /\ d.expc = c.expc /\ d.epc = c.epc
        /\ d.power = c.power /\ d.took = c.took /\ d.stalled = c.stalled
        /\ d.jumping = c.jumping /\ d.saved = c.saved
    BY <1>1, <1>9, BothPagesOK
  <2> QED
    BY <1>1, <2>1 DEF Done, Current, Running
<1>10. CASE Fetchable(c, c.pc) /\ ~Fetchable(c, c.nextpc)
  <2> DEFINE page == FetchPage(b, b.pc)
  <2>1. e = [b EXCEPT !.pcpage = page]
    BY <1>5, <1>7, <1>10
  <2> HIDE DEF page
  <2>2. /\ IsMcpu(e) /\ e.pc = b.pc /\ e.nextpc = b.nextpc /\ e.expc = b.expc
        /\ e.tlb = b.tlb /\ e.pid = b.pid /\ e.usermode = b.usermode
    BY <1>2, <2>1 DEF IsMcpu, MFields
  <2>3. /\ e.ll = b.ll /\ e.seen = b.seen /\ e.sc = b.sc /\ e.power = b.power
        /\ e.stalled = b.stalled /\ e.saved = b.saved
    BY <1>2, <2>1 DEF IsMcpu, MFields
  <2>4. Running(e)
    BY <1>6, <2>2, <2>3 DEF Running, Standing, LinkOwned
  <2>5. ~Fetchable(e, e.nextpc)
    BY <1>1, <1>2, <1>10, <2>2, SameFresh
  <2>6. d = exception(e, FetchFault(e, e.nextpc))
    BY <1>4, <2>5 DEF precompute_nextpc
  <2>7. Done(d, e.expc, c.epc)
    BY <2>4, <2>6, ExceptionOK DEF Running
  <2> QED BY <1>2, <2>2, <2>7
<1> QED
  BY <1>8, <1>9, <1>10

-----------------------------------------------------------------------------
(* The instructions.                                                       *)

LEMMA BegunRunning ==
    ASSUME NEW c, NEW base, NEW epc, Begun(c, base, epc)
    PROVE  Running(c) /\ IsMcpu(c) /\ c.pc \in Nat /\ c.nextpc \in Nat /\ base \in Nat
BY DEF Begun, Running, Standing

LEMMA RaisedOK ==
    ASSUME NEW c, NEW base, NEW epc, Begun(c, base, epc), NEW f, NEW d, d = exception(c, f)
    PROVE  Done(d, base, epc)
<1>1. Running(c) /\ c.expc = base
  BY BegunRunning DEF Begun
<1> QED
  BY <1>1, ExceptionOK DEF Running

LEMMA RaiseOK ==
    ASSUME NEW c, NEW base, NEW epc, Begun(c, base, epc), NEW code, NEW d, d = raise(c, code)
    PROVE  Done(d, base, epc)
<1> DEFINE q == Fault(code, FALSE)
<1>1. d = exception(c, q)
  BY DEF raise
<1> HIDE DEF q
<1> QED
  BY <1>1, RaisedOK

(* An instruction that leaves the pc alone, and translation too unless it  *)
(* says that the pages are stale.                                          *)
LEMMA UnmovedOK ==
    ASSUME NEW c, NEW base, NEW epc, Begun(c, base, epc), PagesReady(c, base),
           NEW d, Standing(d),
           d.pc = c.pc, d.nextpc = c.nextpc, d.expc = c.expc, d.epc = c.epc,
           d.pcpage = c.pcpage, d.nextpcpage = c.nextpcpage, d.jumping = c.jumping,
           d.took = c.took, d.stalled = c.stalled, d.saved = c.saved, d.power = c.power,
           ~d.stale => /\ ~c.stale /\ d.tlb = c.tlb /\ d.pid = c.pid
                       /\ d.usermode[1] = c.usermode[1]
    PROVE  Done(d, base, epc)
<1>1. ASSUME ~d.stale
      PROVE  Fresh(d, d.pc, d.pcpage) /\ Fresh(d, d.nextpc, d.nextpcpage)
  <2>1. c.pc \in Nat /\ c.nextpc \in Nat
    BY BegunRunning
  <2>2. Fresh(c, c.pc, c.pcpage) /\ Fresh(c, c.nextpc, c.nextpcpage)
    BY <1>1 DEF PagesReady
  <2> QED BY <1>1, <2>1, <2>2, SameFresh
<1>2. Current(d)
  BY <1>1 DEF Current, Begun
<1> QED
  BY <1>2 DEF Done, Begun

LEMMA DomemOK ==
    ASSUME NEW c, NEW base, NEW epc, Begun(c, base, epc), PagesReady(c, base),
           NEW d, d = c \/ \E f : d = exception(c, f)
    PROVE  Done(d, base, epc)
<1>1. CASE d = c
  <2>1. Standing(d)
    BY <1>1 DEF Begun
  <2> QED BY <1>1, <2>1, UnmovedOK
<1> QED
  BY <1>1, RaisedOK

LEMMA BranchOK ==
    ASSUME NEW c, NEW base, NEW epc, Begun(c, base, epc), PagesReady(c, base),
           NEW target \in Nat, NEW slot, NEW d, d = abranch(c, target, slot)
    PROVE  Done(d, base, epc)
<1> DEFINE b == [c EXCEPT !.nextpc = target, !.jumping = TRUE, !.slot = slot]
<1>1. Running(c) /\ IsMcpu(c) /\ c.pc \in Nat /\ base \in Nat /\ base + 1 \in Nat /\ Standing(c)
      /\ c.power = "on" /\ ~c.took /\ ~c.stalled /\ c.saved = None /\ c.epc = epc
      /\ c.expc = base
  BY BegunRunning DEF Begun
<1>2. IsMcpu(b) /\ b.nextpc = target /\ b.jumping = TRUE /\ b.slot = slot
  BY <1>1 DEF IsMcpu, MFields
<1>3. /\ b.pc = c.pc /\ b.expc = c.expc /\ b.epc = c.epc /\ b.pcpage = c.pcpage
      /\ b.tlb = c.tlb /\ b.pid = c.pid /\ b.usermode = c.usermode
  BY <1>1 DEF IsMcpu, MFields
<1>4. /\ b.ll = c.ll /\ b.seen = c.seen /\ b.sc = c.sc /\ b.power = c.power
      /\ b.stalled = c.stalled /\ b.saved = c.saved /\ b.took = c.took /\ b.stale = c.stale
  BY <1>1 DEF IsMcpu, MFields
<1>5. d = IF slot = "rfe" THEN [b EXCEPT !.nextpcpage = NoPage] ELSE precompute_nextpc(b)
  BY DEF abranch
<1> HIDE DEF b
<1>6. Running(b) /\ Standing(b)
  BY <1>1, <1>2, <1>3, <1>4 DEF Running, Standing, LinkOwned
<1>7. ASSUME ~c.stale
      PROVE  Fresh(b, b.pc, b.pcpage) /\ Fetchable(b, base) /\ Fetchable(b, base + 1)
  <2>1. Fresh(c, c.pc, c.pcpage) /\ Fetchable(c, base) /\ Fetchable(c, base + 1)
    BY <1>7 DEF PagesReady
  <2> QED BY <1>1, <1>3, <2>1, SameFresh
<1>8. CASE slot = "rfe"
  <2>1. d = [b EXCEPT !.nextpcpage = NoPage]
    BY <1>5, <1>8
  <2>2. /\ IsMcpu(d) /\ d.nextpcpage = NoPage /\ d.pc = b.pc /\ d.nextpc = b.nextpc
        /\ d.expc = b.expc /\ d.epc = b.epc /\ d.pcpage = b.pcpage /\ d.jumping = b.jumping
    BY <1>2, <2>1 DEF IsMcpu, MFields
  <2>3. /\ d.tlb = b.tlb /\ d.pid = b.pid /\ d.usermode = b.usermode /\ d.slot = b.slot
        /\ d.ll = b.ll /\ d.seen = b.seen /\ d.sc = b.sc /\ d.power = b.power
    BY <1>2, <2>1 DEF IsMcpu, MFields
  <2>4. d.stalled = b.stalled /\ d.saved = b.saved /\ d.took = b.took /\ d.stale = b.stale
    BY <1>2, <2>1 DEF IsMcpu, MFields
  <2>5. Standing(d)
    BY <1>6, <2>2, <2>3 DEF Standing, LinkOwned
  <2>6. ASSUME ~c.stale
        PROVE  Fresh(d, d.pc, d.pcpage) /\ Fetchable(d, base) /\ Fetchable(d, base + 1)
    BY <1>1, <1>3, <1>7, <2>2, <2>3, <2>6, SameFresh
  <2>7. Current(d)
    BY <1>1, <1>2, <1>3, <1>4, <1>8, <2>2, <2>3, <2>4, <2>6 DEF Current
  <2> QED
    BY <1>1, <1>2, <1>3, <1>4, <2>2, <2>3, <2>4, <2>5, <2>7 DEF Done
<1>9. CASE slot # "rfe" /\ Fetchable(b, b.nextpc)
  <2>1. d = precompute_nextpc(b)
    BY <1>5, <1>9
  <2>2. /\ Standing(d) /\ Fresh(d, d.nextpc, d.nextpcpage)
        /\ d.pc = b.pc /\ d.nextpc = b.nextpc /\ d.pcpage = b.pcpage /\ d.expc = b.expc
        /\ d.tlb = b.tlb /\ d.pid = b.pid /\ d.usermode = b.usermode /\ d.epc = b.epc
        /\ d.power = b.power /\ d.stale = b.stale /\ d.took = b.took
        /\ d.stalled = b.stalled /\ d.jumping = b.jumping /\ d.saved = b.saved
    BY <1>6, <1>9, <2>1, NextPageOK
  <2>3. ASSUME ~c.stale
        PROVE  Fresh(d, d.pc, d.pcpage) /\ Fetchable(d, base) /\ Fetchable(d, base + 1)
    BY <1>1, <1>3, <1>7, <2>2, <2>3, SameFresh
  <2>4. Current(d)
    BY <1>1, <1>2, <1>3, <1>4, <2>2, <2>3 DEF Current
  <2> QED
    BY <1>1, <1>2, <1>3, <1>4, <2>2, <2>4 DEF Done
<1>10. CASE slot # "rfe" /\ ~Fetchable(b, b.nextpc)
  <2>1. d = exception(b, FetchFault(b, b.nextpc))
    BY <1>5, <1>10 DEF precompute_nextpc
  <2>2. Done(d, b.expc, epc)
    BY <1>6, <2>1, ExceptionOK DEF Running
  <2> QED
    BY <1>1, <1>3, <2>2
<1> QED
  BY <1>8, <1>9, <1>10

(* RFE: the instruction is over when the return address is looked up, so a *)
(* fault there is the next instruction's.                                  *)
LEMMA RfeOK ==
    ASSUME NEW c, NEW base, NEW epc, Begun(c, base, epc), NEW d, d = mx_rfe(c)
    PROVE  Done(d, IF ~c.usermode[1] THEN c.pc ELSE base, epc)
<1> DEFINE b == [c EXCEPT !.usermode = Pop(c.usermode), !.irqon = Pop(c.irqon),
                          !.in_jumpdelay = FALSE, !.expc = c.pc, !.seen = {}]
<1>1. Running(c) /\ IsMcpu(c) /\ c.pc \in Nat /\ Standing(c) /\ c.epc = epc
  BY BegunRunning DEF Begun
<1>2. CASE c.usermode[1]
  BY <1>2, RaiseOK DEF mx_rfe, Privileged
<1>3. CASE ~c.usermode[1]
  <2>1. d = Precompute(b)
    BY <1>3 DEF mx_rfe, Privileged, do_rfe
  <2>2. IsMcpu(b) /\ b.usermode = Pop(c.usermode) /\ b.expc = c.pc /\ b.seen = {}
    BY <1>1 DEF IsMcpu, MFields
  <2>3. /\ b.pc = c.pc /\ b.nextpc = c.nextpc /\ b.epc = c.epc /\ b.jumping = c.jumping
        /\ b.ll = c.ll /\ b.sc = c.sc
    BY <1>1 DEF IsMcpu, MFields
  <2>4. /\ b.power = c.power /\ b.stalled = c.stalled /\ b.saved = c.saved
        /\ b.took = c.took
    BY <1>1 DEF IsMcpu, MFields
  <2> HIDE DEF b
  <2>5. Pop(c.usermode) \in [1 .. KUDEPTH -> BOOLEAN]
    BY <1>1, PushPop DEF Standing
  <2>6. Running(b)
    BY <1>1, <1>3, <2>2, <2>3, <2>4, <2>5 DEF Running, Standing, LinkOwned
  <2>7. Done(d, b.expc, b.epc)
    BY <2>1, <2>3, <2>4, <2>6, LookupsOK DEF Begun
  <2> QED
    BY <1>1, <1>3, <2>2, <2>3, <2>7
<1> QED
  BY <1>2, <1>3

LEMMA LinkOK ==
    ASSUME NEW c, NEW base, NEW epc, Begun(c, base, epc), PagesReady(c, base),
           NEW a, a = IF c.usermode[1] THEN LockUser ELSE LockKernel, NEW d, d = mx_ll(c, a)
    PROVE  Done(d, base, epc)
<1> DEFINE l == [active |-> TRUE, addr |-> a, value |-> Word(c, a).value]
           s == IF c.usermode[1] THEN {Word(c, a)} ELSE {}
<1>1. IsMcpu(c) /\ Standing(c)
  BY BegunRunning DEF Begun
<1>2. CASE ~Translate(c, a, FALSE).ok
  BY <1>2, DomemOK DEF mx_ll, domem
<1>3. CASE Translate(c, a, FALSE).ok
  <2>1. d = [c EXCEPT !.ll = l, !.seen = s]
    BY <1>3 DEF mx_ll
  <2>2. l.addr = a /\ l.value = Word(c, a).value
    OBVIOUS
  <2>3. c.usermode[1] => a = LockUser /\ s = {[addr |-> LockUser, value |-> l.value]}
    BY DEF Word
  <2>4. ~c.usermode[1] => a # LockUser
    BY MipsAssumption
  <2> HIDE DEF l, s
  <2>5. /\ IsMcpu(d) /\ d.ll = l /\ d.seen = s /\ d.pc = c.pc /\ d.nextpc = c.nextpc
        /\ d.expc = c.expc /\ d.epc = c.epc /\ d.pcpage = c.pcpage
    BY <1>1, <2>1 DEF IsMcpu, MFields
  <2>6. /\ d.nextpcpage = c.nextpcpage /\ d.jumping = c.jumping /\ d.took = c.took
        /\ d.stalled = c.stalled /\ d.saved = c.saved /\ d.power = c.power
    BY <1>1, <2>1 DEF IsMcpu, MFields
  <2>7. /\ d.tlb = c.tlb /\ d.pid = c.pid /\ d.usermode = c.usermode /\ d.stale = c.stale
        /\ d.sc = c.sc
    BY <1>1, <2>1 DEF IsMcpu, MFields
  <2>8. LinkOwned(d)
    BY <2>2, <2>3, <2>4, <2>5, <2>7 DEF LinkOwned
  <2>9. Standing(d)
    BY <1>1, <2>5, <2>7, <2>8 DEF Standing
  <2> QED
    BY <2>5, <2>6, <2>7, <2>9, UnmovedOK
<1> QED
  BY <1>2, <1>3

(* An SC that succeeds in user mode is on the word the program has loaded. *)
LEMMA ScOK ==
    ASSUME NEW c, NEW base, NEW epc, Begun(c, base, epc), PagesReady(c, base),
           NEW a, a = IF c.usermode[1] THEN LockUser ELSE LockKernel, NEW v,
           NEW d, d = mx_sc(c, a, v)
    PROVE  Done(d, base, epc)
<1>1. IsMcpu(c) /\ Standing(c)
  BY BegunRunning DEF Begun
<1>2. \/ d = domem(c, a, TRUE)
      \/ d = [c EXCEPT !.sc = "failed"]
      \/ /\ Linked(c, a) /\ Word(c, a).value = c.ll.value
         /\ d = [c EXCEPT !.mem[LockFrameOf(c, a)] = v,
                      !.sc = IF c.usermode[1] => c.seen = {Word(c, a)} THEN "linked" ELSE "torn"]
  BY DEF mx_sc
<1>3. CASE d = domem(c, a, TRUE)
  BY <1>3, DomemOK DEF domem
<1>4. ASSUME NEW m, NEW s, s # "torn", d = [c EXCEPT !.mem = m, !.sc = s]
      PROVE  Done(d, base, epc)
  <2>1. /\ IsMcpu(d) /\ d.sc = s /\ d.pc = c.pc /\ d.nextpc = c.nextpc
        /\ d.expc = c.expc /\ d.epc = c.epc /\ d.pcpage = c.pcpage
    BY <1>1, <1>4 DEF IsMcpu, MFields
  <2>2. /\ d.nextpcpage = c.nextpcpage /\ d.jumping = c.jumping /\ d.took = c.took
        /\ d.stalled = c.stalled /\ d.saved = c.saved /\ d.power = c.power
    BY <1>1, <1>4 DEF IsMcpu, MFields
  <2>3. /\ d.tlb = c.tlb /\ d.pid = c.pid /\ d.usermode = c.usermode /\ d.stale = c.stale
        /\ d.ll = c.ll /\ d.seen = c.seen
    BY <1>1, <1>4 DEF IsMcpu, MFields
  <2>4. Standing(d)
    BY <1>1, <1>4, <2>1, <2>3 DEF Standing, LinkOwned
  <2> QED
    BY <2>1, <2>2, <2>3, <2>4, UnmovedOK
<1>5. CASE d = [c EXCEPT !.sc = "failed"]
  <2>1. d = [c EXCEPT !.mem = c.mem, !.sc = "failed"]
    BY <1>1, <1>5 DEF IsMcpu, MFields
  <2> QED BY <1>4, <2>1
<1>6. CASE /\ Linked(c, a) /\ Word(c, a).value = c.ll.value
           /\ d = [c EXCEPT !.mem[LockFrameOf(c, a)] = v,
                      !.sc = IF c.usermode[1] => c.seen = {Word(c, a)} THEN "linked" ELSE "torn"]
  <2>1. c.usermode[1] => c.seen = {Word(c, a)}
    <3>1. ASSUME c.usermode[1]
          PROVE  c.seen = {[addr |-> LockUser, value |-> c.ll.value]} /\ a = LockUser
      BY <1>1, <1>6, <3>1 DEF Standing, LinkOwned, Linked
    <3>2. Word(c, a) = [addr |-> a, value |-> Word(c, a).value]
      BY DEF Word
    <3> QED BY <1>6, <3>1, <3>2
  <2> DEFINE m == [c.mem EXCEPT ![LockFrameOf(c, a)] = v]
  <2>2. d = [c EXCEPT !.mem = m, !.sc = "linked"]
    BY <1>1, <1>6, <2>1 DEF IsMcpu, MFields
  <2> HIDE DEF m
  <2> QED BY <1>4, <2>2
<1> QED
  BY <1>2, <1>3, <1>5, <1>6

(* phony_exception: going back can fail only if the pages are stale.       *)
LEMMA PhonyOK ==
    ASSUME NEW c, NEW base, NEW epc, Begun(c, base, epc), PagesReady(c, base),
           NEW d, d = phony_exception(c)
    PROVE  Done(d, base, epc)
<1> DEFINE b == [c EXCEPT !.jumping = FALSE, !.in_jumpdelay = FALSE,
                          !.pc = c.expc, !.nextpc = c.expc + 1, !.stalled = TRUE]
<1>1. IsMcpu(c) /\ Standing(c) /\ base \in Nat /\ base + 1 \in Nat /\ c.expc = base
      /\ c.epc = epc /\ ~c.took /\ c.saved = None /\ c.power = "on"
  BY BegunRunning DEF Begun
<1>2. IsMcpu(b) /\ b.jumping = FALSE /\ b.pc = base /\ b.nextpc = base + 1 /\ b.stalled = TRUE
  BY <1>1 DEF IsMcpu, MFields
<1>3. /\ b.expc = c.expc /\ b.epc = c.epc /\ b.tlb = c.tlb /\ b.pid = c.pid
      /\ b.usermode = c.usermode /\ b.took = c.took /\ b.stale = c.stale
  BY <1>1 DEF IsMcpu, MFields
<1>4. b.ll = c.ll /\ b.seen = c.seen /\ b.sc = c.sc /\ b.saved = c.saved /\ b.power = c.power
  BY <1>1 DEF IsMcpu, MFields
<1>5. d = IF Fetchable(b, b.pc) /\ Fetchable(b, b.nextpc)
          THEN Precompute(b) ELSE [b EXCEPT !.power = "smoke"]
  BY DEF phony_exception
<1> HIDE DEF b
<1>6. Standing(b)
  BY <1>1, <1>2, <1>3, <1>4 DEF Standing, LinkOwned
<1>7. CASE Fetchable(b, b.pc) /\ Fetchable(b, b.nextpc)
  <2>1. /\ Standing(d) /\ ~d.stale
        /\ Fresh(d, d.pc, d.pcpage) /\ Fresh(d, d.nextpc, d.nextpcpage)
        /\ d.pc = b.pc /\ d.nextpc = b.nextpc /\ d.expc = b.expc /\ d.epc = b.epc
        /\ d.power = b.power /\ d.took = b.took
        /\ d.jumping = b.jumping /\ d.saved = b.saved
    BY <1>5, <1>6, <1>7, BothPagesOK
  <2>2. Current(d)
    BY <1>2, <2>1 DEF Current
  <2> QED
    BY <1>1, <1>2, <1>3, <1>4, <2>1, <2>2 DEF Done
<1>8. CASE ~(Fetchable(b, b.pc) /\ Fetchable(b, b.nextpc))
  <2>1. c.stale
    BY <1>1, <1>2, <1>3, <1>8, SameFresh DEF PagesReady
  <2>2. d = [b EXCEPT !.power = "smoke"]
    BY <1>5, <1>8
  <2>3. /\ IsMcpu(d) /\ d.power = "smoke" /\ d.jumping = b.jumping /\ d.pc = b.pc
        /\ d.nextpc = b.nextpc /\ d.expc = b.expc /\ d.epc = b.epc
    BY <1>2, <2>2 DEF IsMcpu, MFields
  <2>4. /\ d.usermode = b.usermode /\ d.took = b.took /\ d.stale = b.stale /\ d.ll = b.ll
        /\ d.seen = b.seen /\ d.sc = b.sc /\ d.saved = b.saved
    BY <1>2, <2>2 DEF IsMcpu, MFields
  <2>5. Standing(d)
    BY <1>6, <2>3, <2>4 DEF Standing, LinkOwned
  <2> QED
    BY <1>1, <1>2, <1>3, <1>4, <2>1, <2>3, <2>4, <2>5 DEF Done, Current
<1> QED
  BY <1>7, <1>8

LEMMA HiLoOK ==
    ASSUME NEW c, NEW base, NEW epc, Begun(c, base, epc), PagesReady(c, base),
           NEW d, d = HiLoBusy(c)
    PROVE  Done(d, base, epc)
<1>1. IsMcpu(c) /\ Standing(c)
  BY BegunRunning DEF Begun
<1>2. CASE d = phony_exception(c)
  BY <1>2, PhonyOK
<1>3. CASE d = [c EXCEPT !.wait = HiloWait]
  <2>1. /\ IsMcpu(d) /\ d.sc = c.sc /\ d.pc = c.pc /\ d.nextpc = c.nextpc
        /\ d.expc = c.expc /\ d.epc = c.epc /\ d.pcpage = c.pcpage
    BY <1>1, <1>3 DEF IsMcpu, MFields
  <2>2. /\ d.nextpcpage = c.nextpcpage /\ d.jumping = c.jumping /\ d.took = c.took
        /\ d.stalled = c.stalled /\ d.saved = c.saved /\ d.power = c.power
    BY <1>1, <1>3 DEF IsMcpu, MFields
  <2>3. /\ d.tlb = c.tlb /\ d.pid = c.pid /\ d.usermode = c.usermode /\ d.stale = c.stale
        /\ d.ll = c.ll /\ d.seen = c.seen
    BY <1>1, <1>3 DEF IsMcpu, MFields
  <2>4. Standing(d)
    BY <1>1, <2>1, <2>3 DEF Standing, LinkOwned
  <2> QED
    BY <2>1, <2>2, <2>3, <2>4, UnmovedOK
<1> QED
  BY <1>2, <1>3 DEF HiLoBusy

LEMMA StatusOK ==
    ASSUME NEW c, NEW base, NEW epc, Begun(c, base, epc), PagesReady(c, base),
           NEW u \in [1 .. KUDEPTH -> BOOLEAN], NEW i,
           NEW d, d = Privileged(c, setstatus(c, u, i))
    PROVE  Done(d, base, epc)
<1>1. IsMcpu(c) /\ Standing(c)
  BY BegunRunning DEF Begun
<1>2. CASE c.usermode[1]
  BY <1>2, RaiseOK DEF Privileged
<1>3. CASE ~c.usermode[1]
  <2> DEFINE s == c.stale \/ u[1] # c.usermode[1]
  <2>1. d = [c EXCEPT !.usermode = u, !.irqon = i, !.stale = s]
    BY <1>3 DEF Privileged, setstatus
  <2>2. ~s => ~c.stale /\ u[1] = c.usermode[1]
    OBVIOUS
  <2> HIDE DEF s
  <2>3. /\ IsMcpu(d) /\ d.usermode = u /\ d.stale = s /\ d.pc = c.pc /\ d.nextpc = c.nextpc
        /\ d.expc = c.expc /\ d.epc = c.epc /\ d.pcpage = c.pcpage
    BY <1>1, <2>1 DEF IsMcpu, MFields
  <2>4. /\ d.nextpcpage = c.nextpcpage /\ d.jumping = c.jumping /\ d.took = c.took
        /\ d.stalled = c.stalled /\ d.saved = c.saved /\ d.power = c.power
    BY <1>1, <2>1 DEF IsMcpu, MFields
  <2>5. d.tlb = c.tlb /\ d.pid = c.pid /\ d.sc = c.sc /\ d.ll = c.ll
    BY <1>1, <2>1 DEF IsMcpu, MFields
  <2>6. Standing(d)
    BY <1>1, <1>3, <2>3, <2>5 DEF Standing, LinkOwned
  <2> QED
    BY <2>2, <2>3, <2>4, <2>5, <2>6, UnmovedOK
<1> QED
  BY <1>2, <1>3

LEMMA TlbhiOK ==
    ASSUME NEW c, NEW base, NEW epc, Begun(c, base, epc), PagesReady(c, base),
           NEW p, NEW d, d = Privileged(c, settlbhi(c, p))
    PROVE  Done(d, base, epc)
<1>1. IsMcpu(c) /\ Standing(c)
  BY BegunRunning DEF Begun
<1>2. CASE c.usermode[1]
  BY <1>2, RaiseOK DEF Privileged
<1>3. CASE ~c.usermode[1]
  <2> DEFINE s == c.stale \/ p # c.pid
  <2>1. d = [c EXCEPT !.pid = p, !.stale = s]
    BY <1>3 DEF Privileged, settlbhi
  <2>2. ~s => ~c.stale /\ p = c.pid
    OBVIOUS
  <2> HIDE DEF s
  <2>3. /\ IsMcpu(d) /\ d.pid = p /\ d.stale = s /\ d.pc = c.pc /\ d.nextpc = c.nextpc
        /\ d.expc = c.expc /\ d.epc = c.epc /\ d.pcpage = c.pcpage
    BY <1>1, <2>1 DEF IsMcpu, MFields
  <2>4. /\ d.nextpcpage = c.nextpcpage /\ d.jumping = c.jumping /\ d.took = c.took
        /\ d.stalled = c.stalled /\ d.saved = c.saved /\ d.power = c.power
    BY <1>1, <2>1 DEF IsMcpu, MFields
  <2>5. /\ d.tlb = c.tlb /\ d.usermode = c.usermode /\ d.sc = c.sc /\ d.ll = c.ll
        /\ d.seen = c.seen
    BY <1>1, <2>1 DEF IsMcpu, MFields
  <2>6. Standing(d)
    BY <1>1, <2>3, <2>5 DEF Standing, LinkOwned
  <2> QED
    BY <2>2, <2>3, <2>4, <2>5, <2>6, UnmovedOK
<1> QED
  BY <1>2, <1>3

LEMMA TlbWriteOK ==
    ASSUME NEW c, NEW base, NEW epc, Begun(c, base, epc), NEW i, NEW e,
           NEW d, d = Privileged(c, writetlb(c, i, e))
    PROVE  Done(d, base, epc)
<1> DEFINE t == [c.tlb EXCEPT ![i] = [e EXCEPT !.pid = c.pid]]
           b == [c EXCEPT !.tlb = t]
<1>1. /\ IsMcpu(c) /\ Standing(c) /\ Running(c) /\ ~c.took /\ ~c.jumping /\ c.nextpc = c.pc + 1
      /\ c.expc = base /\ c.epc = epc
  BY BegunRunning DEF Begun
<1>2. CASE c.usermode[1]
  BY <1>2, RaiseOK DEF Privileged
<1>3. CASE ~c.usermode[1]
  <2>1. d = [b EXCEPT !.power = "hung"] \/ d = Precompute(b)
    BY <1>3 DEF Privileged, writetlb
  <2> HIDE DEF t
  <2>2. /\ IsMcpu(b) /\ b.pc = c.pc /\ b.nextpc = c.nextpc /\ b.expc = c.expc
        /\ b.epc = c.epc /\ b.jumping = c.jumping /\ b.took = c.took
    BY <1>1 DEF IsMcpu, MFields
  <2>3. /\ b.power = c.power /\ b.stalled = c.stalled /\ b.saved = c.saved
        /\ b.usermode = c.usermode /\ b.ll = c.ll /\ b.seen = c.seen /\ b.sc = c.sc
    BY <1>1 DEF IsMcpu, MFields
  <2> HIDE DEF b
  <2>4. Running(b)
    BY <1>1, <2>2, <2>3 DEF Running, Standing, LinkOwned
  <2>5. CASE d = Precompute(b)
    BY <1>1, <2>2, <2>4, <2>5, LookupsOK
  <2>6. CASE d = [b EXCEPT !.power = "hung"]
    <3>1. /\ IsMcpu(d) /\ d.power = "hung" /\ d.pc = b.pc /\ d.nextpc = b.nextpc
          /\ d.expc = b.expc /\ d.epc = b.epc /\ d.jumping = b.jumping /\ d.took = b.took
      BY <2>2, <2>6 DEF IsMcpu, MFields
    <3>2. /\ d.stalled = b.stalled /\ d.saved = b.saved /\ d.usermode = b.usermode
          /\ d.ll = b.ll /\ d.seen = b.seen /\ d.sc = b.sc
      BY <2>2, <2>6 DEF IsMcpu, MFields
    <3>3. Standing(d)
      BY <2>4, <3>1, <3>2 DEF Running, Standing, LinkOwned
    <3> QED
      BY <1>1, <2>2, <2>3, <3>1, <3>2, <3>3 DEF Done, Current, Running
  <2> QED BY <2>1, <2>5, <2>6
<1> QED
  BY <1>2, <1>3

-----------------------------------------------------------------------------
(* The cycle around the instruction.                                       *)

LEMMA EndOK ==
    ASSUME NEW d, NEW base, NEW epc, Done(d, base, epc), NEW e, e = EndCycle(d)
    PROVE  Done(e, base, epc)
<1> DEFINE w == IF d.wait > 0 THEN d.wait - 1 ELSE 0
<1>1. IsMcpu(d) /\ Standing(d)
  BY DEF Done, Standing
<1>2. e = [d EXCEPT !.wait = w, !.in_jumpdelay = FALSE]
  BY DEF EndCycle
<1> HIDE DEF w
<1>3. /\ IsMcpu(e) /\ e.pc = d.pc /\ e.nextpc = d.nextpc /\ e.expc = d.expc /\ e.epc = d.epc
      /\ e.pcpage = d.pcpage /\ e.nextpcpage = d.nextpcpage
  BY <1>1, <1>2 DEF IsMcpu, MFields
<1>4. /\ e.jumping = d.jumping /\ e.took = d.took /\ e.stalled = d.stalled /\ e.saved = d.saved
      /\ e.power = d.power /\ e.stale = d.stale /\ e.slot = d.slot
  BY <1>1, <1>2 DEF IsMcpu, MFields
<1>5. /\ e.tlb = d.tlb /\ e.pid = d.pid /\ e.usermode = d.usermode /\ e.ll = d.ll
      /\ e.seen = d.seen /\ e.sc = d.sc
  BY <1>1, <1>2 DEF IsMcpu, MFields
<1>6. Standing(e)
  BY <1>1, <1>3, <1>5 DEF Standing, LinkOwned
<1>7. Current(e)
  <2>1. \A a \in Nat : /\ Fetchable(e, a) <=> Fetchable(d, a)
                       /\ \A page : Fresh(e, a, page) <=> Fresh(d, a, page)
    BY <1>5, SameFresh
  <2>2. d.pc \in Nat /\ d.nextpc \in Nat /\ d.expc \in Nat /\ d.expc + 1 \in Nat
    BY <1>1 DEF Standing
  <2> QED
    BY <1>3, <1>4, <2>1, <2>2 DEF Done, Current
<1> QED
  BY <1>3, <1>4, <1>6, <1>7 DEF Done

(* What the cycle leaves.                                                  *)
LEMMA CommitOK ==
    ASSUME NEW irq \in BOOLEAN, NEW base \in Nat, NEW d,
           Done(d, base, IF irq THEN mcpu.resume ELSE None), Commit(irq, base, d)
    PROVE  Settled(mcpu')
<1> DEFINE r == Resume(base, d)
           s == IF d.took THEN base ELSE IF irq THEN mcpu.resume ELSE d.saved
           x == IF d.jumping THEN d.expc ELSE d.pc
           m == mcpu'
<1>1. IsMcpu(d) /\ Standing(d)
  BY DEF Done, Standing
<1>2. m = [d EXCEPT !.resume = r, !.took = FALSE, !.stalled = FALSE, !.saved = s, !.expc = x]
  BY DEF Commit
<1>3. x = r
  <2>1. CASE d.took
    BY <2>1 DEF Done, Resume
  <2>2. CASE ~d.took /\ (d.jumping \/ d.stalled)
    BY <2>2 DEF Done, Resume
  <2>3. CASE ~d.took /\ ~(d.jumping \/ d.stalled)
    BY <2>3 DEF Done, Resume
  <2> QED BY <2>1, <2>2, <2>3
<1>4. s = d.epc
  BY DEF Done
<1>5. x \in Nat /\ (d.jumping => x = d.expc) /\ (~d.jumping => x = d.pc)
  BY <1>1 DEF Standing
<1> HIDE DEF r, s, x, m
<1>6. /\ IsMcpu(m) /\ m.resume = r /\ m.took = FALSE /\ m.stalled = FALSE /\ m.saved = s
      /\ m.expc = x
  BY <1>1, <1>2 DEF IsMcpu, MFields
<1>7. /\ m.pc = d.pc /\ m.nextpc = d.nextpc /\ m.epc = d.epc /\ m.jumping = d.jumping
      /\ m.pcpage = d.pcpage /\ m.nextpcpage = d.nextpcpage
  BY <1>1, <1>2 DEF IsMcpu, MFields
<1>8. /\ m.power = d.power /\ m.stale = d.stale /\ m.slot = d.slot /\ m.tlb = d.tlb
      /\ m.pid = d.pid /\ m.usermode = d.usermode
  BY <1>1, <1>2 DEF IsMcpu, MFields
<1>9. m.ll = d.ll /\ m.seen = d.seen /\ m.sc = d.sc
  BY <1>1, <1>2 DEF IsMcpu, MFields
<1>10. Standing(m)
  BY <1>1, <1>5, <1>6, <1>7, <1>8, <1>9 DEF Standing, LinkOwned
<1>11. Current(m)
  <2>1. \A a \in Nat : /\ Fetchable(m, a) <=> Fetchable(d, a)
                       /\ \A page : Fresh(m, a, page) <=> Fresh(d, a, page)
    BY <1>8, SameFresh
  <2>2. d.pc \in Nat /\ d.nextpc \in Nat /\ d.expc \in Nat /\ d.expc + 1 \in Nat
    BY <1>1 DEF Standing
  <2> QED
    BY <1>5, <1>6, <1>7, <1>8, <2>1, <2>2 DEF Done, Current
<1>12. Settled(m)
  BY <1>3, <1>4, <1>5, <1>6, <1>7, <1>8, <1>10, <1>11 DEF Settled, Done
<1> QED
  BY <1>12 DEF m

(* The start of the cycle, before the fetch.  rfe says that the delay slot *)
(* is known to hold an RFE, so that the page of nextpc may be missing.     *)
Started(c, base, epc, rfe) ==
    /\ Running(c) /\ ~c.took /\ ~c.jumping /\ c.epc = epc /\ c.expc = base
    /\ ~c.stale => /\ Fresh(c, c.pc, c.pcpage) /\ Fetchable(c, base)
                   /\ ~rfe => Fresh(c, c.nextpc, c.nextpcpage) /\ Fetchable(c, base + 1)

LEMMA StartOK ==
    ASSUME Settled(mcpu), mcpu.power = "on", NEW c, c = Ready(FALSE)
    PROVE  Started(c, mcpu.resume, None, mcpu.slot = "rfe")
<1> DEFINE m == [mcpu EXCEPT !.epc = None, !.saved = None, !.sc = "none"]
           x == IF mcpu.jumping THEN mcpu.expc ELSE mcpu.pc
           j == IF mcpu.jumping THEN TRUE ELSE mcpu.in_jumpdelay
<1>1. IsMcpu(mcpu) /\ Standing(mcpu) /\ ~mcpu.took /\ ~mcpu.stalled
  BY DEF Settled, Standing
<1>2. x = mcpu.resume /\ x \in Nat
  BY <1>1 DEF Settled, Standing
<1>3. c = StartCycle(m)
  BY DEF Ready
<1>4. IsMcpu(m) /\ m.jumping = mcpu.jumping /\ m.pc = mcpu.pc
  BY <1>1 DEF IsMcpu, MFields
<1>5. \/ mcpu.jumping /\ c = [m EXCEPT !.jumping = FALSE, !.in_jumpdelay = TRUE]
      \/ ~mcpu.jumping /\ c = [m EXCEPT !.expc = mcpu.pc]
  <2> HIDE DEF m
  <2> QED BY <1>3, <1>4 DEF StartCycle
<1>6. IsMcpu(c) /\ ~c.jumping /\ c.expc = x
  <2>1. CASE mcpu.jumping /\ c = [m EXCEPT !.jumping = FALSE, !.in_jumpdelay = TRUE]
    BY <1>1, <2>1 DEF IsMcpu, MFields
  <2>2. CASE ~mcpu.jumping /\ c = [m EXCEPT !.expc = mcpu.pc]
    <3>1. IsMcpu(c) /\ c.expc = mcpu.pc
      BY <1>1, <2>2 DEF IsMcpu, MFields
    <3>2. c.jumping = mcpu.jumping
      BY <1>1, <2>2 DEF IsMcpu, MFields
    <3> QED BY <2>2, <3>1, <3>2
  <2> QED BY <1>5, <2>1, <2>2
<1>7. /\ c.epc = None /\ c.saved = None /\ c.sc = "none" /\ c.pc = mcpu.pc
      /\ c.nextpc = mcpu.nextpc /\ c.pcpage = mcpu.pcpage /\ c.nextpcpage = mcpu.nextpcpage
  BY <1>1, <1>5 DEF IsMcpu, MFields
<1>8. /\ c.power = mcpu.power /\ c.stale = mcpu.stale /\ c.took = mcpu.took
      /\ c.stalled = mcpu.stalled /\ c.tlb = mcpu.tlb /\ c.pid = mcpu.pid
  BY <1>1, <1>5 DEF IsMcpu, MFields
<1>9. c.usermode = mcpu.usermode /\ c.ll = mcpu.ll /\ c.seen = mcpu.seen
  BY <1>1, <1>5 DEF IsMcpu, MFields
<1> HIDE DEF m, x
<1>10. Running(c)
  BY <1>1, <1>2, <1>6, <1>7, <1>8, <1>9 DEF Running, Standing, LinkOwned
<1>11. ASSUME ~c.stale
       PROVE  /\ Fresh(c, c.pc, c.pcpage) /\ Fetchable(c, x)
              /\ mcpu.slot # "rfe" => Fresh(c, c.nextpc, c.nextpcpage) /\ Fetchable(c, x + 1)
  <2>1. /\ Fresh(mcpu, mcpu.pc, mcpu.pcpage)
        /\ mcpu.slot # "rfe" => Fresh(mcpu, mcpu.nextpc, mcpu.nextpcpage)
        /\ mcpu.jumping => Fetchable(mcpu, mcpu.expc) /\ Fetchable(mcpu, mcpu.expc + 1)
    BY <1>8, <1>11 DEF Settled, Current
  <2>2. Fetchable(mcpu, x) /\ (mcpu.slot # "rfe" => Fetchable(mcpu, x + 1))
    <3>1. CASE mcpu.jumping
      BY <2>1, <3>1 DEF x
    <3>2. CASE ~mcpu.jumping
      BY <2>1, <3>2 DEF x, Settled, Fresh
    <3> QED BY <3>1, <3>2
  <2>3. \A a \in Nat : /\ Fetchable(c, a) <=> Fetchable(mcpu, a)
                       /\ \A page : Fresh(c, a, page) <=> Fresh(mcpu, a, page)
    BY <1>8, <1>9, SameFresh
  <2>4. mcpu.pc \in Nat /\ mcpu.nextpc \in Nat /\ x \in Nat /\ x + 1 \in Nat
    BY <1>1, <1>2 DEF Standing
  <2> QED BY <1>7, <2>1, <2>2, <2>3, <2>4
<1> QED
  BY <1>1, <1>2, <1>6, <1>7, <1>8, <1>10, <1>11 DEF Started

(* An interrupt: the handler starts with everything at hand.               *)
LEMMA InterruptOK ==
    ASSUME Settled(mcpu), mcpu.power = "on", NEW c, c = Ready(TRUE)
    PROVE  Started(c, Vector, mcpu.resume, FALSE)
<1> DEFINE b == Ready(FALSE)
           q == Fault("IRQ", FALSE)
           e == raise(b, "IRQ")
<1>1. Started(b, mcpu.resume, None, mcpu.slot = "rfe")
  BY StartOK
<1>2. c = [[e EXCEPT !.expc = e.pc] EXCEPT !.took = FALSE]
  BY DEF Ready, TakeInterrupt
<1>3. q.code \notin {"TLBL", "TLBS"}
  BY DEF Fault
<1>0. e = exception(b, q)
  BY DEF raise
<1> HIDE DEF b, q, e
<1>4. Running(b) /\ b.expc = mcpu.resume
  BY <1>1 DEF Started
<1>5. /\ Done(e, b.expc, None)
      /\ e.took /\ ~e.jumping /\ ~e.stalled /\ ~e.stale /\ e.power = "on" /\ e.nextpc = e.pc + 1
      /\ e.epc = b.expc
      /\ Fresh(e, e.pc, e.pcpage) /\ Fresh(e, e.nextpc, e.nextpcpage) /\ e.pc = Vector
  <2>1. Standing(b) /\ b.power = "on" /\ ~b.stalled /\ b.saved = None
    BY <1>4 DEF Running
  <2>2. \A epc : Done(e, b.expc, epc)
    BY <1>0, <2>1, ExceptionOK
  <2>3. /\ e.took /\ ~e.jumping /\ ~e.stalled /\ ~e.stale /\ e.power = "on"
        /\ e.nextpc = e.pc + 1 /\ e.epc = b.expc
    BY <1>0, <2>1, ExceptionOK
  <2>4. Fresh(e, e.pc, e.pcpage) /\ Fresh(e, e.nextpc, e.nextpcpage)
    BY <1>0, <2>1, ExceptionOK
  <2>5. e.pc = Vector
    BY <1>0, <1>3, <2>1, ExceptionOK
  <2> QED BY <2>2, <2>3, <2>4, <2>5
<1>6. Standing(e) /\ IsMcpu(e) /\ e.saved = None
  BY <1>5 DEF Done, Standing
<1>7. /\ IsMcpu(c) /\ c.expc = e.pc /\ c.took = FALSE /\ c.pc = e.pc /\ c.nextpc = e.nextpc
      /\ c.pcpage = e.pcpage /\ c.nextpcpage = e.nextpcpage /\ c.epc = e.epc
  BY <1>2, <1>6 DEF IsMcpu, MFields
<1>8. /\ c.power = e.power /\ c.stale = e.stale /\ c.saved = e.saved /\ c.jumping = e.jumping
      /\ c.stalled = e.stalled /\ c.tlb = e.tlb /\ c.pid = e.pid
  BY <1>2, <1>6 DEF IsMcpu, MFields
<1>9. c.usermode = e.usermode /\ c.ll = e.ll /\ c.seen = e.seen /\ c.sc = e.sc
  BY <1>2, <1>6 DEF IsMcpu, MFields
<1>10. Running(c)
  BY <1>5, <1>6, <1>7, <1>8, <1>9 DEF Running, Standing, LinkOwned
<1>11. Fresh(c, c.pc, c.pcpage) /\ Fresh(c, c.nextpc, c.nextpcpage)
  BY <1>5, <1>6, <1>7, <1>8, <1>9, SameFresh DEF Standing
<1> QED
  BY <1>4, <1>5, <1>7, <1>8, <1>10, <1>11 DEF Started, Fresh

(* The fetch.                                                              *)
LEMMA FetchInsnOK ==
    ASSUME NEW c, NEW base \in Nat, NEW epc, NEW rfe \in BOOLEAN, Started(c, base, epc, rfe),
           NEW insn, rfe => insn = "rfe", NEW f, f = Fetch(c, insn)
    PROVE  /\ FetchFails(c, insn) => Done(f, base, epc)
           /\ ~FetchFails(c, insn) =>
                Begun(f, base, epc) /\ (insn # "rfe" => PagesReady(f, base))
<1> DEFINE a == Advance(c)
<1>1. IsMcpu(c) /\ Standing(c) /\ Running(c) /\ c.nextpc \in Nat
  BY DEF Started, Running, Standing
<1>2. a = [c EXCEPT !.pc = c.nextpc, !.pcpage = c.nextpcpage, !.nextpc = c.nextpc + 1,
                    !.slot = "any"]
  BY DEF Advance
<1>3. f = IF Crosses(a) THEN IF insn = "rfe" THEN [a EXCEPT !.nextpcpage = NoPage]
                                             ELSE precompute_nextpc(a)
          ELSE a
  BY DEF Fetch
<1>4. FetchFails(c, insn) <=> Crosses(a) /\ insn # "rfe" /\ ~Fetchable(a, a.nextpc)
  BY DEF FetchFails
<1> HIDE DEF a
<1>5. /\ IsMcpu(a) /\ a.pc = c.nextpc /\ a.pcpage = c.nextpcpage /\ a.nextpc = c.nextpc + 1
      /\ a.nextpcpage = c.nextpcpage /\ a.expc = c.expc /\ a.epc = c.epc
  BY <1>1, <1>2 DEF IsMcpu, MFields
<1>6. /\ a.power = c.power /\ a.stale = c.stale /\ a.saved = c.saved /\ a.jumping = c.jumping
      /\ a.stalled = c.stalled /\ a.took = c.took /\ a.tlb = c.tlb /\ a.pid = c.pid
  BY <1>1, <1>2 DEF IsMcpu, MFields
<1>7. a.usermode = c.usermode /\ a.ll = c.ll /\ a.seen = c.seen /\ a.sc = c.sc
  BY <1>1, <1>2 DEF IsMcpu, MFields
<1>8. Running(a)
  BY <1>1, <1>5, <1>6, <1>7 DEF Running, Standing, LinkOwned
<1>9. Begun(a, base, epc)
  BY <1>5, <1>6, <1>8 DEF Begun, Started, Running
<1>10. ASSUME ~a.stale, insn # "rfe"
       PROVE  Fresh(a, a.pc, a.pcpage) /\ Fetchable(a, base) /\ Fetchable(a, base + 1)
  <2>1. Fresh(c, c.nextpc, c.nextpcpage) /\ Fetchable(c, base) /\ Fetchable(c, base + 1)
    BY <1>6, <1>10 DEF Started
  <2>2. base + 1 \in Nat
    OBVIOUS
  <2> QED BY <1>1, <1>5, <1>6, <1>7, <2>1, <2>2, SameFresh
<1>11. CASE Crosses(a) /\ insn = "rfe"
  <2>1. f = [a EXCEPT !.nextpcpage = NoPage]
    BY <1>3, <1>11
  <2>2. /\ IsMcpu(f) /\ f.pc = a.pc /\ f.nextpc = a.nextpc /\ f.expc = a.expc /\ f.epc = a.epc
        /\ f.power = a.power /\ f.saved = a.saved /\ f.jumping = a.jumping
    BY <1>5, <2>1 DEF IsMcpu, MFields
  <2>3. /\ f.stalled = a.stalled /\ f.took = a.took /\ f.usermode = a.usermode
        /\ f.ll = a.ll /\ f.seen = a.seen /\ f.sc = a.sc
    BY <1>5, <2>1 DEF IsMcpu, MFields
  <2> QED
    BY <1>4, <1>9, <1>11, <2>2, <2>3 DEF Begun, Standing, LinkOwned
<1>12. CASE ~Crosses(a)
  <2>1. f = a
    BY <1>3, <1>12
  <2>2. ASSUME ~a.stale, insn # "rfe"
        PROVE  Fresh(a, a.nextpc, a.nextpcpage)
    <3>1. (c.nextpc + 1) % PAGE # 0
      BY <1>5, <1>12 DEF Crosses
    <3>2. Fresh(a, c.nextpc, c.nextpcpage)
      BY <1>5, <1>10, <2>2
    <3> QED
      BY <1>1, <1>5, <3>1, <3>2, NextFresh
  <2> QED
    BY <1>4, <1>9, <1>10, <1>12, <2>1, <2>2 DEF PagesReady
<1>13. CASE Crosses(a) /\ insn # "rfe" /\ Fetchable(a, a.nextpc)
  <2>1. f = precompute_nextpc(a) /\ Standing(a)
    BY <1>3, <1>9, <1>13 DEF Begun
  <2>2. /\ Standing(f) /\ Fresh(f, f.nextpc, f.nextpcpage)
        /\ f.pc = a.pc /\ f.nextpc = a.nextpc /\ f.pcpage = a.pcpage /\ f.expc = a.expc
        /\ f.tlb = a.tlb /\ f.pid = a.pid /\ f.usermode = a.usermode /\ f.epc = a.epc
        /\ f.power = a.power /\ f.stale = a.stale /\ f.took = a.took
        /\ f.stalled = a.stalled /\ f.jumping = a.jumping /\ f.saved = a.saved
    BY <1>13, <2>1, NextPageOK
  <2>3. Begun(f, base, epc)
    BY <1>9, <2>2 DEF Begun
  <2>4. ASSUME ~f.stale
        PROVE  Fresh(f, f.pc, f.pcpage) /\ Fetchable(f, base) /\ Fetchable(f, base + 1)
    <3>1. base + 1 \in Nat /\ a.pc \in Nat
      BY <1>1, <1>5
    <3> QED BY <1>10, <1>13, <2>2, <2>4, <3>1, SameFresh
  <2> QED
    BY <1>4, <1>13, <2>2, <2>3, <2>4 DEF PagesReady
<1>14. CASE Crosses(a) /\ insn # "rfe" /\ ~Fetchable(a, a.nextpc)
  <2>1. f = exception(a, FetchFault(a, a.nextpc))
    BY <1>3, <1>14 DEF precompute_nextpc
  <2> QED
    BY <1>4, <1>9, <1>14, <2>1, RaisedOK
<1> QED
  BY <1>11, <1>12, <1>13, <1>14

(* What an interrupt in this cycle has stored in EPC, and the cycle's end. *)
Stored(irq) == IF irq THEN mcpu.resume ELSE None
Finish(irq, base, d) == Commit(irq, base, d) \/ Commit(irq, base, EndCycle(d))

LEMMA CycleStart ==
    ASSUME Settled(mcpu), mcpu.power = "on", NEW irq \in BOOLEAN, NEW insn,
           ~irq /\ mcpu.slot = "rfe" => insn = "rfe",
           NEW base, base = IF irq THEN Vector ELSE mcpu.resume,
           NEW c, c = Ready(irq), NEW f, f = Fetch(c, insn)
    PROVE  /\ base \in Nat
           /\ FetchFails(c, insn) => Done(f, base, Stored(irq))
           /\ ~FetchFails(c, insn) =>
                Begun(f, base, Stored(irq)) /\ (insn # "rfe" => PagesReady(f, base))
<1>1. Vector \in Nat /\ mcpu.resume \in Nat
  BY MipsAssumption DEF Settled, Standing
<1>2. CASE irq
  <2>1. base = Vector /\ Stored(irq) = mcpu.resume
    BY <1>2 DEF Stored
  <2>2. c = Ready(TRUE)
    <3>1. irq = TRUE
      BY <1>2, Zenon
    <3> QED BY <3>1, Zenon
  <2>3. Started(c, Vector, mcpu.resume, FALSE)
    BY <2>2, InterruptOK
  <2>4. \A r \in BOOLEAN : ~r /\ Started(c, base, Stored(irq), r) =>
          /\ FetchFails(c, insn) => Done(f, base, Stored(irq))
          /\ ~FetchFails(c, insn) =>
                Begun(f, base, Stored(irq)) /\ (insn # "rfe" => PagesReady(f, base))
    BY <1>1, <2>1, FetchInsnOK
  <2> QED
    BY <1>1, <2>1, <2>3, <2>4
<1>3. CASE ~irq
  <2> DEFINE r == mcpu.slot = "rfe"
  <2>1. base = mcpu.resume /\ Stored(irq) = None
    BY <1>3 DEF Stored
  <2>2. c = Ready(FALSE)
    <3>1. irq = FALSE
      BY <1>3, Zenon
    <3> QED BY <3>1, Zenon
  <2>3. Started(c, base, Stored(irq), r) /\ r \in BOOLEAN /\ (r => insn = "rfe")
    BY <1>3, <2>1, <2>2, StartOK
  <2> HIDE DEF r
  <2> QED
    BY <1>1, <2>1, <2>3, FetchInsnOK
<1> QED
  BY <1>2, <1>3

LEMMA FinishOK ==
    ASSUME NEW irq \in BOOLEAN, NEW base \in Nat, NEW d, Done(d, base, Stored(irq)),
           Finish(irq, base, d)
    PROVE  Settled(mcpu')
<1>1. CASE Commit(irq, base, d)
  BY <1>1, CommitOK DEF Stored
<1>2. CASE Commit(irq, base, EndCycle(d))
  <2>1. Done(EndCycle(d), base, Stored(irq))
    BY EndOK
  <2> QED
    BY <1>2, <2>1, CommitOK DEF Stored
<1> QED
  BY <1>1, <1>2 DEF Finish

LEMMA StepSettled ==
    ASSUME Settled(mcpu), MipsNext
    PROVE  Settled(mcpu')
<1> USE CycleStart, FinishOK
<1>1. CASE Plain
  <2>1. \/ Settled(mcpu')
        \/ \E irq \in BOOLEAN, base \in Nat : \E f :
             /\ Begun(f, base, Stored(irq)) /\ PagesReady(f, base) /\ Finish(irq, base, f)
    BY <1>1 DEF Plain, Cycle, Finish
  <2> QED BY <2>1, DomemOK
<1>2. CASE Trap
  <2>1. \/ Settled(mcpu')
        \/ \E irq \in BOOLEAN, base \in Nat : \E f :
             /\ Begun(f, base, Stored(irq)) /\ PagesReady(f, base)
             /\ Finish(irq, base, raise(f, "SYS"))
    BY <1>2 DEF Trap, Cycle, Finish
  <2> QED BY <2>1, RaiseOK
<1>3. CASE Branch
  <2>1. \/ Settled(mcpu')
        \/ \E irq \in BOOLEAN, base \in Nat : \E f :
             /\ Begun(f, base, Stored(irq)) /\ PagesReady(f, base)
             /\ \E d \in {misaligned(f)}
                         \cup {abranch(f, t, s) : t \in Targets, s \in {"rfe", "other"}} :
                  Finish(irq, base, d)
    BY <1>3 DEF Branch, Cycle, Finish
  <2>2. ASSUME NEW f, NEW base, NEW epc, Begun(f, base, epc), PagesReady(f, base),
               NEW d \in {misaligned(f)}
                         \cup {abranch(f, t, s) : t \in Targets, s \in {"rfe", "other"}}
        PROVE  Done(d, base, epc)
    <3>1. \/ d = raise(f, "ADEL")
          \/ \E x \in Targets, s \in {"rfe", "other"} : d = abranch(f, x, s)
      BY <2>2 DEF misaligned
    <3> QED BY <2>2, <3>1, RaiseOK, BranchOK, MipsAssumption
  <2> QED BY <2>1, <2>2
<1>4. CASE Rfe
  <2>1. \/ Settled(mcpu')
        \/ \E irq \in BOOLEAN, base \in Nat : \E f :
             /\ Begun(f, base, Stored(irq))
             /\ Finish(irq, IF ~f.usermode[1] THEN f.pc ELSE base, mx_rfe(f))
    BY <1>4 DEF Rfe, Cycle, Finish
  <2>2. ASSUME NEW irq \in BOOLEAN, NEW base \in Nat, NEW f, Begun(f, base, Stored(irq)),
               Finish(irq, IF ~f.usermode[1] THEN f.pc ELSE base, mx_rfe(f))
        PROVE  Settled(mcpu')
    <3> DEFINE b == IF ~f.usermode[1] THEN f.pc ELSE base
    <3>1. b \in Nat
      BY <2>2, BegunRunning
    <3>2. Done(mx_rfe(f), b, Stored(irq))
      BY <2>2, RfeOK
    <3> HIDE DEF b
    <3>3. Finish(irq, b, mx_rfe(f))
      BY <2>2 DEF b
    <3> QED BY <3>1, <3>2, <3>3
  <2> QED BY <2>1, <2>2
<1>5. CASE LoadStore
  <2>1. \/ Settled(mcpu')
        \/ \E irq \in BOOLEAN, base \in Nat : \E f :
             /\ Begun(f, base, Stored(irq)) /\ PagesReady(f, base)
             /\ \E d \in {domem(f, a, w) : a \in {LockUser, LockKernel}, w \in BOOLEAN} :
                  Finish(irq, base, d)
    BY <1>5 DEF LoadStore, Cycle, Finish
  <2>2. ASSUME NEW f, NEW base, NEW epc, Begun(f, base, epc), PagesReady(f, base),
               NEW d \in {domem(f, a, w) : a \in {LockUser, LockKernel}, w \in BOOLEAN}
        PROVE  Done(d, base, epc)
    <3>1. d = f \/ \E q : d = exception(f, q)
      BY <2>2 DEF domem
    <3> QED BY <2>2, <3>1, DomemOK
  <2> QED BY <2>1, <2>2
<1>6. CASE LoadLinked
  <2>1. \/ Settled(mcpu')
        \/ \E irq \in BOOLEAN, base \in Nat : \E f :
             /\ Begun(f, base, Stored(irq)) /\ PagesReady(f, base)
             /\ Finish(irq, base, mx_ll(f, IF f.usermode[1] THEN LockUser ELSE LockKernel))
    BY <1>6 DEF LoadLinked, Cycle, Finish
  <2> QED BY <2>1, LinkOK
<1>7. CASE StoreConditional
  <2>1. \/ Settled(mcpu')
        \/ \E irq \in BOOLEAN, base \in Nat : \E f, v :
             /\ Begun(f, base, Stored(irq)) /\ PagesReady(f, base)
             /\ Finish(irq, base, mx_sc(f, IF f.usermode[1] THEN LockUser ELSE LockKernel, v))
    BY <1>7 DEF StoreConditional, Cycle, Finish
  <2> QED BY <2>1, ScOK
<1>8. CASE HiLoInsn
  <2>1. \/ Settled(mcpu')
        \/ \E irq \in BOOLEAN, base \in Nat : \E f :
             /\ Begun(f, base, Stored(irq)) /\ PagesReady(f, base)
             /\ Finish(irq, base, HiLoBusy(f))
    BY <1>8 DEF HiLoInsn, Cycle, Finish
  <2> QED BY <2>1, HiLoOK
<1>9. CASE Breakpoint
  <2>1. \/ Settled(mcpu')
        \/ \E irq \in BOOLEAN, base \in Nat : \E f :
             /\ Begun(f, base, Stored(irq)) /\ PagesReady(f, base)
             /\ Finish(irq, base, phony_exception(f)) \/ Finish(irq, base, raise(f, "BP"))
    BY <1>9 DEF Breakpoint, Cycle, Finish
  <2> QED BY <2>1, PhonyOK, RaiseOK
<1>10. CASE MtStatus
  <2>1. \/ Settled(mcpu')
        \/ \E irq \in BOOLEAN, base \in Nat : \E f :
             /\ Begun(f, base, Stored(irq)) /\ PagesReady(f, base)
             /\ \E u \in [1 .. KUDEPTH -> BOOLEAN], i \in BOOLEAN :
                  Finish(irq, base,
                         Privileged(f, setstatus(f, u, [n \in 1 .. KUDEPTH |-> i])))
    BY <1>10 DEF MtStatus, Cycle, Finish
  <2> QED BY <2>1, StatusOK
<1>11. CASE MtTlbhi
  <2>1. \/ Settled(mcpu')
        \/ \E irq \in BOOLEAN, base \in Nat : \E f, p :
             /\ Begun(f, base, Stored(irq)) /\ PagesReady(f, base)
             /\ Finish(irq, base, Privileged(f, settlbhi(f, p)))
    BY <1>11 DEF MtTlbhi, Cycle, Finish
  <2> QED BY <2>1, TlbhiOK
<1>12. CASE TlbRead
  <2>1. \/ Settled(mcpu')
        \/ \E irq \in BOOLEAN, base \in Nat : \E f, p :
             /\ Begun(f, base, Stored(irq)) /\ PagesReady(f, base)
             /\ Finish(irq, base, Privileged(f, settlbhi(f, p)))
    BY <1>12 DEF TlbRead, mx_tlbr, Cycle, Finish
  <2> QED BY <2>1, TlbhiOK
<1>13. CASE TlbWrite
  <2>1. \/ Settled(mcpu')
        \/ \E irq \in BOOLEAN, base \in Nat : \E f, i, e :
             /\ Begun(f, base, Stored(irq)) /\ PagesReady(f, base)
             /\ Finish(irq, base, Privileged(f, writetlb(f, i, e)))
    BY <1>13 DEF TlbWrite, Cycle, Finish
  <2> QED BY <2>1, TlbWriteOK
<1>14. ASSUME NEW f, NEW v, OtherStore(f, v)
       PROVE  Settled(mcpu')
  <2> DEFINE m == mcpu'
             w == [mcpu.mem EXCEPT ![f] = v]
  <2>1. IsMcpu(mcpu) /\ Standing(mcpu) /\ m = [mcpu EXCEPT !.mem = w]
    BY <1>14 DEF OtherStore, Settled, Standing
  <2> HIDE DEF m, w
  <2>2. /\ IsMcpu(m) /\ m.pc = mcpu.pc /\ m.nextpc = mcpu.nextpc /\ m.expc = mcpu.expc
        /\ m.epc = mcpu.epc /\ m.pcpage = mcpu.pcpage /\ m.nextpcpage = mcpu.nextpcpage
    BY <2>1 DEF IsMcpu, MFields
  <2>3. /\ m.jumping = mcpu.jumping /\ m.took = mcpu.took /\ m.stalled = mcpu.stalled
        /\ m.saved = mcpu.saved /\ m.resume = mcpu.resume /\ m.power = mcpu.power
    BY <2>1 DEF IsMcpu, MFields
  <2>4. /\ m.stale = mcpu.stale /\ m.slot = mcpu.slot /\ m.tlb = mcpu.tlb /\ m.pid = mcpu.pid
        /\ m.usermode = mcpu.usermode /\ m.ll = mcpu.ll
    BY <2>1 DEF IsMcpu, MFields
  <2>5. m.seen = mcpu.seen /\ m.sc = mcpu.sc
    BY <2>1 DEF IsMcpu, MFields
  <2>6. Standing(m)
    BY <2>1, <2>2, <2>4, <2>5 DEF Standing, LinkOwned
  <2>7. Current(m)
    <3>1. \A a \in Nat : /\ Fetchable(m, a) <=> Fetchable(mcpu, a)
                         /\ \A page : Fresh(m, a, page) <=> Fresh(mcpu, a, page)
      BY <2>4, SameFresh
    <3>2. /\ mcpu.pc \in Nat /\ mcpu.nextpc \in Nat /\ mcpu.expc \in Nat
          /\ mcpu.expc + 1 \in Nat
      BY <2>1 DEF Standing
    <3> QED
      BY <2>2, <2>3, <2>4, <3>1, <3>2 DEF Settled, Current
  <2>8. Settled(m)
    BY <2>2, <2>3, <2>4, <2>6, <2>7 DEF Settled
  <2> QED BY <2>8 DEF m
<1> QED
  BY <1>1, <1>2, <1>3, <1>4, <1>5, <1>6, <1>7, <1>8, <1>9, <1>10, <1>11, <1>12, <1>13, <1>14
     DEF MipsNext

(* Between cycles the processor is as Settled says: EPC, had the next      *)
(* instruction to raise an exception, would be set to where the program    *)
(* has to resume, the pages of pc and nextpc are what the TLB maps them to *)
(* unless mtc0 or TLBR has changed the mode or the address space since     *)
(* they were looked up, and a link on the user's word is the running       *)
(* program's.                                                              *)
THEOREM MipsInvariant == MipsSpec => []Settled(mcpu)
<1>1. MipsInit => Settled(mcpu)
  <2> SUFFICES ASSUME MipsInit PROVE Settled(mcpu)
    OBVIOUS
  <2> DEFINE t == [i \in 1 .. NTLB |-> reset_tlbentry]
             p == CHOOSE q \in Pids : TRUE
             k == [i \in 1 .. KUDEPTH |-> FALSE]
  <2>1. PICK m \in [Frames \cup {LockFrame} -> Values] :
          mcpu = [pc |-> Vector, nextpc |-> Vector + 1, expc |-> Vector, epc |-> None,
            pcpage |-> <<"kseg0", Vpage(Vector)>>,
            nextpcpage |-> <<"kseg0", Vpage(Vector + 1)>>,
            jumping |-> FALSE, in_jumpdelay |-> FALSE,
            usermode |-> k, irqon |-> k,
            tlb |-> t, pid |-> p,
            ll |-> NoLink,
            wait |-> 0, mem |-> m, power |-> "on",
            stale |-> FALSE, slot |-> "any", seen |-> {}, sc |-> "none",
            took |-> FALSE, stalled |-> FALSE, resume |-> Vector, saved |-> None]
    BY DEF MipsInit
  <2>2. k \in [1 .. KUDEPTH -> BOOLEAN] /\ k[1] = FALSE
    <3>1. 1 \in 1 .. KUDEPTH
      BY MipsAssumption
    <3> QED BY <3>1, Zenon
  <2>3. /\ Vector \in Nat /\ Vector + 1 \in Nat /\ Vector \in USEG .. KTOP - 1
        /\ Vector + 1 \in USEG .. KTOP - 1
    BY MipsAssumption
  <2> HIDE DEF t, p, k
  <2>4. IsMcpu(mcpu)
    BY <2>1 DEF IsMcpu, MFields
  <2>5. /\ mcpu.pc = Vector /\ mcpu.nextpc = Vector + 1 /\ mcpu.expc = Vector
        /\ mcpu.epc = None /\ mcpu.saved = None /\ mcpu.resume = Vector
    BY <2>1
  <2>6. /\ mcpu.pcpage = <<"kseg0", Vpage(Vector)>> /\ mcpu.usermode = k
        /\ mcpu.nextpcpage = <<"kseg0", Vpage(Vector + 1)>>
    BY <2>1
  <2>7. /\ mcpu.jumping = FALSE /\ mcpu.ll = NoLink /\ mcpu.power = "on" /\ mcpu.sc = "none"
        /\ mcpu.took = FALSE /\ mcpu.stalled = FALSE
    BY <2>1
  <2>8. ~mcpu.ll.active
    BY <2>7 DEF NoLink
  <2>9. Standing(mcpu)
    BY <2>2, <2>3, <2>4, <2>5, <2>6, <2>7, <2>8 DEF Standing, LinkOwned
  <2>10. Fresh(mcpu, mcpu.pc, mcpu.pcpage) /\ Fresh(mcpu, mcpu.nextpc, mcpu.nextpcpage)
    BY <2>2, <2>3, <2>5, <2>6, KernelFresh
  <2>11. Current(mcpu)
    BY <2>7, <2>10 DEF Current
  <2> QED
    BY <2>5, <2>7, <2>9, <2>11 DEF Settled
<1>2. Settled(mcpu) /\ [MipsNext]_mipsVars => Settled(mcpu)'
  <2>1. Settled(mcpu) /\ MipsNext => Settled(mcpu)'
    BY StepSettled
  <2>2. Settled(mcpu) /\ UNCHANGED mipsVars => Settled(mcpu)'
    BY DEF mipsVars
  <2> QED BY <2>1, <2>2
<1> QED
  BY <1>1, <1>2, PTL DEF MipsSpec

(* Instructions are fetched from where the TLB and the mode of the moment  *)
(* say, although the lookup was made cycles before, and a stalled one can  *)
(* be fetched again, unless the kernel has changed its own mode or address *)
(* space by mtc0 or TLBR since.                                            *)
THEOREM FetchesAreFresh == MipsSpec => []FetchFresh
<1>1. Settled(mcpu) => FetchFresh
  BY DEF Settled, Current, Fresh, FetchFresh
<1> QED
  BY <1>1, MipsInvariant, PTL

(* EPC names the first instruction that has not completed, or the branch   *)
(* before it, at every exception of every program.                         *)
THEOREM EpcIsPrecise == MipsSpec => []PreciseEpc
<1>1. Settled(mcpu) => PreciseEpc
  BY DEF Settled, PreciseEpc
<1> QED
  BY <1>1, MipsInvariant, PTL

(* A user's SC succeeds only on the word this stay in user mode has loaded *)
(* and that still has its value.                                           *)
THEOREM ScIsLinked == MipsSpec => []UserScLinked
<1>1. Settled(mcpu) => UserScLinked
  BY DEF Settled, Standing, UserScLinked
<1> QED
  BY <1>1, MipsInvariant, PTL

(***************************************************************************)
(* Arithmetic, of words of every even range.                               *)
(***************************************************************************)
(* SIGN is half the range of a word.                                       *)
LEMMA Halves ==
    /\ SIGN \in Nat /\ SIGN >= 1 /\ TOP \in Nat \ {0} /\ TOP = SIGN + SIGN /\ TOP >= 2
    /\ Ones = TOP - 1
  BY ArithAssumption DEF TOP, Ones

(* What \div and % are, of negative numbers too.                           *)
LEMMA DivBounds ==
    ASSUME NEW n \in Nat \ {0}, NEW t \in Int
    PROVE  t \div n \in Int /\ t % n \in 0 .. n - 1 /\ t = n * (t \div n) + (t % n)
OBVIOUS

(* Quotient and remainder of any number, by their equation.                *)
LEMMA DivModIs ==
    ASSUME NEW n \in Nat \ {0}, NEW q \in Int, NEW r \in 0 .. n - 1, NEW t, t = n * q + r
    PROVE  t \div n = q /\ t % n = r
<1> DEFINE p == t \div n
           s == t % n
<1>0. t \in Int
  OBVIOUS
<1>1. p \in Int /\ s \in 0 .. n - 1 /\ t = n * p + s
  BY <1>0, DivBounds
<1> HIDE DEF p, s
<1>2. n * (q - p) = s - r
  BY <1>1
<1>3. q - p = 0
  <2>1. ASSUME q - p >= 1 PROVE FALSE
    <3>1. n * 1 <= n * (q - p)
      BY <1>1, <2>1, MulMono
    <3> QED
      BY <1>1, <1>2, <3>1
  <2>2. ASSUME q - p <= -1 PROVE FALSE
    <3>1. n * 1 <= n * (p - q) /\ n * (p - q) = -(n * (q - p))
      BY <1>1, <2>2, MulMono
    <3> QED
      BY <1>1, <1>2, <3>1
  <2> QED
    BY <1>1, <2>1, <2>2
<1>4. q = p /\ s = r
  <2>1. q = p
    BY <1>1, <1>3
  <2>2. n * (q - p) = 0
    BY <1>1, <1>3
  <2> QED
    BY <1>1, <1>2, <2>1, <2>2
<1> QED
  BY <1>4 DEF p, s

(* Numbers that differ by a multiple of TOP.                               *)
Same(a, b) == \E k \in Int : a = b + TOP * k

(* A product distributes over sums, differences and negation.              *)
LEMMA Distrib ==
    ASSUME NEW n \in Int, NEW a \in Int, NEW b \in Int
    PROVE  /\ n * a \in Int /\ n * b \in Int /\ n * (a + b) = n * a + n * b
           /\ n * (-a) = -(n * a) /\ n * (a - b) = n * a - n * b
OBVIOUS

(* Sums and differences of numbers that are the same word are, too.        *)
LEMMA SameSum ==
    ASSUME NEW a \in Int, NEW b \in Int, NEW c \in Int, NEW d \in Int, Same(a, b), Same(c, d)
    PROVE  Same(a + c, b + d) /\ Same(a - c, b - d)
<1>0. TOP \in Int
  BY Halves
<1>1. PICK k \in Int : a = b + TOP * k
  BY DEF Same
<1>2. PICK l \in Int : c = d + TOP * l
  BY DEF Same
<1> HIDE DEF TOP
<1>3. TOP * (k + l) = TOP * k + TOP * l /\ TOP * (k - l) = TOP * k - TOP * l /\ TOP * k \in Int /\ TOP * l \in Int
  BY <1>0, Distrib
<1>4. a + c = (b + d) + TOP * (k + l) /\ a - c = (b - d) + TOP * (k - l)
  <2> DEFINE e == TOP * k
             f == TOP * l
             g == TOP * (k + l)
             h == TOP * (k - l)
  <2>1. e \in Int /\ f \in Int /\ g = e + f /\ h = e - f /\ a = b + e /\ c = d + f
    BY <1>1, <1>2, <1>3
  <2> HIDE DEF e, f, g, h
  <2>2. a + c = (b + d) + g /\ a - c = (b - d) + h
    BY <2>1
  <2> QED
    BY <2>2 DEF g, h
<1>5. k + l \in Int /\ k - l \in Int
  OBVIOUS
<1> QED
  BY <1>4, <1>5 DEF Same

(* So are their multiples by one number.                                   *)
LEMMA SameTimes ==
    ASSUME NEW a \in Int, NEW b \in Int, NEW c \in Int, Same(a, b)
    PROVE  Same(a * c, b * c) /\ Same(c * a, c * b)
<1>0. TOP \in Int
  BY Halves
<1>1. PICK k \in Int : a = b + TOP * k
  BY DEF Same
<1> HIDE DEF TOP
<1>2. k * c \in Int /\ a * c = b * c + TOP * (k * c) /\ c * a = a * c /\ c * b = b * c
  BY <1>0, <1>1
<1> QED
  BY <1>2 DEF Same

(* And their products: why mul needs no signed form.                       *)
LEMMA SameProduct ==
    ASSUME NEW a \in Int, NEW b \in Int, NEW c \in Int, NEW d \in Int, Same(a, b), Same(c, d)
    PROVE  Same(a * c, b * d)
<1>1. Same(a * c, b * c) /\ Same(b * c, b * d)
  BY SameTimes
<1>2. a * c \in Int /\ b * c \in Int /\ b * d \in Int
  OBVIOUS
<1> DEFINE e == a * c
           f == b * c
           g == b * d
<1> HIDE DEF e, f, g
<1>3. e \in Int /\ f \in Int /\ g \in Int /\ Same(e, f) /\ Same(f, g)
  BY <1>1, <1>2 DEF e, f, g
<1>4. Same(e + f, f + g)
  BY <1>3, SameSum
<1>5. Same(f, f)
  <2>1. f = f + TOP * 0
    BY <1>3, Halves
  <2> QED
    BY <2>1 DEF Same
<1>6. Same((e + f) - f, (f + g) - f)
  <2>1. e + f \in Int /\ f + g \in Int
    BY <1>3
  <2> QED
    BY <1>3, <1>4, <1>5, <2>1, SameSum
<1>7. (e + f) - f = e /\ (f + g) - f = g
  BY <1>3
<1>8. Same(e, g)
  BY <1>6, <1>7
<1> QED
  BY <1>8 DEF e, g

(* Numbers that differ by a multiple of TOP are the same word.             *)
LEMMA Congruent ==
    ASSUME NEW a \in Int, NEW b \in Int, Same(a, b)
    PROVE  Unsigned(a) = Unsigned(b)
<1>1. TOP \in Nat \ {0}
  BY Halves
<1>2. PICK k \in Int : a = b + TOP * k
  BY DEF Same
<1> HIDE DEF TOP
<1> DEFINE p == b \div TOP
           s == b % TOP
<1>3. p \in Int /\ s \in 0 .. TOP - 1 /\ b = TOP * p + s
  BY <1>1, DivBounds
<1> HIDE DEF p, s
<1>4. a = TOP * (p + k) + s /\ p + k \in Int
  BY <1>1, <1>2, <1>3
<1>5. a % TOP = s
  BY <1>1, <1>3, <1>4, DivModIs
<1> QED
  BY <1>5 DEF Unsigned, s

(* A number and its cast differ by a multiple of TOP.                      *)
LEMMA UnsignedSame ==
    ASSUME NEW a \in Int
    PROVE  Same(Unsigned(a), a)
<1> DEFINE p == a \div TOP
           u == Unsigned(a)
<1>1. p \in Int /\ u \in Int /\ a = TOP * p + u /\ TOP \in Int
  <2>1. TOP \in Nat \ {0}
    BY Halves
  <2>2. a \div TOP \in Int /\ a % TOP \in 0 .. TOP - 1 /\ a = TOP * (a \div TOP) + (a % TOP)
    BY <2>1, DivBounds
  <2> QED
    BY <2>1, <2>2 DEF Unsigned
<1> HIDE DEF p, u
<1>2. u = a + TOP * (-p) /\ -p \in Int
  <2>1. TOP * p \in Int /\ TOP * (-p) = -(TOP * p)
    BY <1>1, Distrib
  <2> QED
    BY <1>1, <2>1
<1> QED
  BY <1>2 DEF Same, u

(* A cast to unsigned is a word, and leaves a word alone.                  *)
LEMMA UnsignedIs ==
    ASSUME NEW a \in Int
    PROVE  Unsigned(a) \in WordW /\ (a \in WordW => Unsigned(a) = a)
<1>1. TOP \in Nat \ {0}
  BY Halves
<1> HIDE DEF TOP
<1> QED
  BY <1>1, ModRange, ModSmall DEF Unsigned, WordW

(* A cast to signed fits, and differs by a multiple of TOP.                *)
LEMMA SignedIs ==
    ASSUME NEW x \in WordW
    PROVE  /\ x \in Int /\ Signed(x) \in -SIGN .. SIGN - 1 /\ Signed(x) \in Int
           /\ Signed(x) = x \/ Signed(x) = x - TOP
           /\ Signed(x) < 0 <=> x >= SIGN
           /\ Unsigned(Signed(x)) = x
           /\ Same(x, Signed(x))
<1>1. SIGN \in Nat /\ TOP = SIGN + SIGN /\ x \in Nat /\ x < TOP /\ TOP \in Nat \ {0}
  BY Halves DEF WordW
<1> HIDE DEF TOP
<1>2. /\ Signed(x) \in -SIGN .. SIGN - 1 /\ Signed(x) \in Int
      /\ Signed(x) = x \/ Signed(x) = x - TOP
      /\ Signed(x) < 0 <=> x >= SIGN
  BY <1>1 DEF Signed
<1>3. Same(x, Signed(x))
  <2>1. CASE Signed(x) = x
    <3>1. x = Signed(x) + TOP * 0
      BY <1>1, <2>1
    <3> QED BY <3>1 DEF Same
  <2>2. CASE Signed(x) = x - TOP
    <3>1. x = Signed(x) + TOP * 1
      BY <1>1, <2>2
    <3> QED BY <3>1 DEF Same
  <2> QED BY <1>2, <2>1, <2>2
<1>4. Unsigned(Signed(x)) = x
  <2>1. Unsigned(x) = Unsigned(Signed(x))
    BY <1>1, <1>2, <1>3, Congruent
  <2>2. Unsigned(x) = x
    BY <1>1, UnsignedIs
  <2> QED
    BY <2>1, <2>2
<1> QED
  BY <1>1, <1>2, <1>3, <1>4

(* Casting to unsigned and back keeps what fits a signed word.             *)
LEMMA RoundTrip ==
    ASSUME NEW n \in Int
    PROVE  Signed(Unsigned(n)) = n <=> n \in -SIGN .. SIGN - 1
<1>1. SIGN \in Nat /\ TOP = SIGN + SIGN /\ TOP \in Nat \ {0}
  BY Halves
<1> HIDE DEF TOP
<1>2. Signed(Unsigned(n)) \in -SIGN .. SIGN - 1
  BY UnsignedIs, SignedIs
<1>3. ASSUME n \in -SIGN .. SIGN - 1 PROVE Signed(Unsigned(n)) = n
  <2>1. CASE n >= 0
    <3>1. Unsigned(n) = n
      BY <1>1, <1>3, <2>1, UnsignedIs DEF WordW
    <3> QED
      BY <1>1, <1>3, <3>1 DEF Signed
  <2>2. CASE n < 0
    <3>1. n + TOP \in WordW /\ n + TOP \in Int
      BY <1>1, <1>3, <2>2 DEF WordW
    <3>2. Same(n + TOP, n)
      <4>1. n + TOP = n + TOP * 1 /\ 1 \in Int
        BY <1>1
      <4> QED
        BY <4>1 DEF Same
    <3>3. Unsigned(n + TOP) = Unsigned(n)
      BY <3>1, <3>2, Congruent
    <3>4. Unsigned(n) = n + TOP
      BY <3>1, <3>3, UnsignedIs
    <3> QED
      BY <1>1, <1>3, <2>2, <3>4 DEF Signed
  <2> QED BY <1>1, <1>3, <2>1, <2>2
<1> QED
  BY <1>2, <1>3

(* Overflow is caught when and only when the sum does not fit.             *)
LEMMA SumsHold ==
    ASSUME NEW x \in WordW, NEW y \in WordW
    PROVE  Sums(x, y)
<1>1. /\ x \in Int /\ y \in Int /\ Signed(x) \in Int /\ Signed(y) \in Int /\ TOP \in Int
      /\ Signed(x) + Signed(y) \in Int /\ Signed(x) - Signed(y) \in Int /\ x + y \in Int
  BY SignedIs, Halves
<1>2. ASSUME NEW n \in Int
      PROVE  CHKOVF(n) = IF n \in -SIGN .. SIGN - 1 THEN Unsigned(n) ELSE OVF
  BY RoundTrip DEF CHKOVF
<1>3. Same(x, Signed(x)) /\ Same(y, Signed(y))
  BY SignedIs
<1> HIDE DEF TOP
<1>5. Unsigned(x + y) = Unsigned(Signed(x) + Signed(y))
  <2>1. Same(x + y, Signed(x) + Signed(y))
    BY <1>1, <1>3, SameSum
  <2> QED
    BY <1>1, <2>1, Congruent
<1>6. mx_add(x, y) # OVF => mx_addu(x, y) = mx_add(x, y)
  BY <1>1, <1>2, <1>5 DEF mx_add, mx_addu
<1>7. Unsigned(Unsigned(x + y) - y) = x
  <2> DEFINE u == Unsigned(x + y)
  <2>1. u \in Int /\ Same(u, x + y)
    BY <1>1, UnsignedIs, UnsignedSame DEF WordW
  <2> HIDE DEF u
  <2>2. Same(y, y)
    <3>1. y = y + TOP * 0
      BY <1>1
    <3> QED
      BY <3>1 DEF Same
  <2>3. Same(u - y, (x + y) - y) /\ (x + y) - y = x /\ u - y \in Int
    BY <1>1, <2>1, <2>2, SameSum
  <2>4. Same(u - y, x)
    BY <2>3
  <2>5. Unsigned(u - y) = Unsigned(x)
    BY <1>1, <2>3, <2>4, Congruent
  <2> QED
    BY <1>1, <2>5, UnsignedIs DEF u
<1>8. mx_subu(mx_addu(x, y), y) = x /\ rx_do_sub(rx_do_add(x, y), y) = x
  BY <1>7 DEF mx_subu, mx_addu, rx_do_sub, rx_do_add
<1>9. rx_do_addi(x, y) = rx_do_auipc(x, y) /\ rx_do_amoadd(x, y) = mx_addu(x, y)
  BY DEF rx_do_addi, rx_do_auipc, rx_do_amoadd, mx_addu
<1>10. /\ mx_add(x, y) = IF Signed(x) + Signed(y) \in -SIGN .. SIGN - 1 THEN Unsigned(Signed(x) + Signed(y)) ELSE OVF
       /\ mx_sub(x, y) = IF Signed(x) - Signed(y) \in -SIGN .. SIGN - 1 THEN Unsigned(Signed(x) - Signed(y)) ELSE OVF
  BY <1>1, <1>2 DEF mx_add, mx_sub
<1> QED
  BY <1>6, <1>8, <1>9, <1>10 DEF Sums

(* Quotient and remainder in C, which round towards zero.                  *)
LEMMA CDivMod ==
    ASSUME NEW a \in Int, NEW b \in Int, b # 0
    PROVE  /\ CDiv(a, b) \in Int /\ CMod(a, b) \in Int /\ CDiv(a, b) * b + CMod(a, b) = a
           /\ Abs(CMod(a, b)) < Abs(b) /\ (CMod(a, b) = 0 \/ (CMod(a, b) < 0 <=> a < 0))
           /\ Abs(CDiv(a, b)) <= Abs(a) /\ (b \notin {1, -1} /\ a # 0 => Abs(CDiv(a, b)) < Abs(a))
<1> DEFINE A == Abs(a)
           B == Abs(b)
           q == A \div B
           r == A % B
<1>1. A \in Nat /\ B \in Nat \ {0} /\ (a < 0 => a = -A) /\ (a >= 0 => a = A) /\ (b < 0 => b = -B) /\ (b >= 0 => b = B)
  BY DEF Abs
<1> HIDE DEF A, B
<1>2. q \in Nat /\ r \in 0 .. B - 1 /\ B * q + r = A
  BY <1>1, DivModDef
<1>3. q <= A /\ (B # 1 /\ A # 0 => q < A)
  <2>1. CASE B = 1
    <3>1. 1 * q = q /\ r = 0
      BY <1>2, <2>1
    <3> QED
      BY <1>1, <1>2, <2>1, <3>1
  <2>2. CASE B # 1
    BY <1>1, <2>2, DivSmaller
  <2> QED
    BY <2>1, <2>2
<1> HIDE DEF q, r
<1> DEFINE c == CDiv(a, b)
<1>4. CASE (a < 0) = (b < 0)
  <2>1. c = q
    BY <1>4 DEF CDiv, q, A, B
  <2> HIDE DEF c
  <2>2. CMod(a, b) = a - b * q
    BY <2>1 DEF CMod, c
  <2>3. CASE a < 0
    <3>1. a = -A /\ b = -B /\ b < 0
      BY <1>1, <1>4, <2>3
    <3>2. b * q = -(B * q) /\ q * b = -(B * q) /\ B * q \in Int
      BY <1>1, <1>2, <3>1
    <3>3. CMod(a, b) = -r /\ c * b = -(B * q)
      BY <1>1, <1>2, <2>1, <2>2, <3>1, <3>2
    <3> QED
      BY <1>1, <1>2, <1>3, <2>1, <2>3, <3>1, <3>2, <3>3 DEF c, Abs, A, B
  <2>4. CASE a >= 0
    <3>1. a = A /\ b = B /\ b > 0
      BY <1>1, <1>4, <2>4
    <3>2. b * q = B * q /\ q * b = B * q /\ B * q \in Int
      BY <1>1, <1>2, <3>1
    <3>3. CMod(a, b) = r /\ c * b = B * q
      BY <1>1, <1>2, <2>1, <2>2, <3>1, <3>2
    <3> QED
      BY <1>1, <1>2, <1>3, <2>1, <2>4, <3>1, <3>2, <3>3 DEF c, Abs, A, B
  <2> QED
    BY <2>3, <2>4
<1>5. CASE (a < 0) # (b < 0)
  <2>1. c = -q
    BY <1>5 DEF CDiv, q, A, B
  <2> HIDE DEF c
  <2>2. CMod(a, b) = a - b * (-q)
    BY <2>1 DEF CMod, c
  <2>3. CASE a < 0
    <3>1. a = -A /\ b = B /\ b > 0
      BY <1>1, <1>5, <2>3
    <3>2. b * (-q) = -(B * q) /\ (-q) * b = -(B * q) /\ B * q \in Int
      BY <1>1, <1>2, <3>1
    <3>3. CMod(a, b) = -r /\ c * b = -(B * q)
      BY <1>1, <1>2, <2>1, <2>2, <3>1, <3>2
    <3> QED
      BY <1>1, <1>2, <1>3, <2>1, <2>3, <3>1, <3>2, <3>3 DEF c, Abs, A, B
  <2>4. CASE a >= 0
    <3>1. a = A /\ b = -B /\ b < 0
      BY <1>1, <1>5, <2>4
    <3>2. b * (-q) = B * q /\ (-q) * b = B * q /\ B * q \in Int
      BY <1>1, <1>2, <3>1
    <3>3. CMod(a, b) = r /\ c * b = B * q
      BY <1>1, <1>2, <2>1, <2>2, <3>1, <3>2
    <3> QED
      BY <1>1, <1>2, <1>3, <2>1, <2>4, <3>1, <3>2, <3>3 DEF c, Abs, A, B
  <2> QED
    BY <2>3, <2>4
<1> QED
  BY <1>4, <1>5

(* The quotient fits a signed word but for the least number by -1.         *)
LEMMA QuotientFits ==
    ASSUME NEW x \in WordW, NEW y \in WordW, y # 0, ~(x = SIGN /\ y = Ones)
    PROVE  /\ Signed(y) # 0
           /\ CDiv(Signed(x), Signed(y)) \in -SIGN .. SIGN - 1
           /\ CMod(Signed(x), Signed(y)) \in -SIGN .. SIGN - 1
<1> DEFINE a == Signed(x)
           b == Signed(y)
<1>1. /\ SIGN \in Nat /\ SIGN >= 1 /\ TOP = SIGN + SIGN /\ Ones = TOP - 1
      /\ a \in -SIGN .. SIGN - 1 /\ b \in -SIGN .. SIGN - 1 /\ x \in 0 .. TOP - 1 /\ y \in 0 .. TOP - 1
      /\ (a = x \/ a = x - TOP) /\ (b = y \/ b = y - TOP)
      /\ (a < 0 <=> x >= SIGN) /\ (b < 0 <=> y >= SIGN)
  BY Halves, SignedIs DEF WordW
<1> HIDE DEF a, b
<1>2. b # 0 /\ ~(a = -SIGN /\ b = -1) /\ a \in Int /\ b \in Int
  BY <1>1
<1>3. /\ CDiv(a, b) \in Int /\ CMod(a, b) \in Int /\ Abs(CMod(a, b)) < Abs(b)
      /\ Abs(CDiv(a, b)) <= Abs(a) /\ (b \notin {1, -1} /\ a # 0 => Abs(CDiv(a, b)) < Abs(a))
      /\ CDiv(a, b) * b + CMod(a, b) = a
  BY <1>2, CDivMod
<1>4. CMod(a, b) \in -SIGN .. SIGN - 1
  <2> DEFINE m == CMod(a, b)
  <2>1. m \in Int /\ Abs(m) < Abs(b)
    BY <1>3
  <2> HIDE DEF m
  <2>2. m \in -SIGN .. SIGN - 1
    BY <1>1, <2>1 DEF Abs
  <2> QED
    BY <2>2 DEF m
<1>5. CDiv(a, b) \in -SIGN .. SIGN - 1
  <2> DEFINE q == CDiv(a, b)
             m == CMod(a, b)
  <2>1. /\ q \in Int /\ m \in Int /\ Abs(m) < Abs(b) /\ Abs(q) <= Abs(a)
        /\ (b \notin {1, -1} /\ a # 0 => Abs(q) < Abs(a)) /\ q * b + m = a
    BY <1>3
  <2> HIDE DEF q, m
  <2>2. q <= SIGN /\ q >= -SIGN
    BY <1>1, <2>1 DEF Abs
  <2>3. ASSUME q = SIGN PROVE FALSE
    <3>1. a = -SIGN /\ b = 1
      BY <1>1, <1>2, <2>1, <2>3 DEF Abs
    <3>2. m = 0
      BY <2>1, <3>1 DEF Abs
    <3>3. q * 1 = q
      BY <2>1
    <3> QED
      BY <1>1, <2>1, <2>3, <3>1, <3>2, <3>3
  <2>4. q \in -SIGN .. SIGN - 1
    BY <1>1, <2>1, <2>2, <2>3
  <2> QED
    BY <2>4 DEF q
<1> QED
  BY <1>2, <1>4, <1>5 DEF a, b

(* Division by zero and the least number by -1 are cases of their own.     *)
LEMMA QuotientsHold ==
    ASSUME NEW x \in WordW, NEW y \in WordW
    PROVE  Quotients(x, y)
<1> DEFINE sx == Signed(x)
           sy == Signed(y)
           q  == Signed(rx_do_div(x, y))
           r  == Signed(rx_do_rem(x, y))
<1>1. /\ SIGN \in Nat /\ SIGN >= 1 /\ TOP = SIGN + SIGN /\ TOP \in Nat \ {0} /\ Ones = TOP - 1
      /\ x \in 0 .. TOP - 1 /\ y \in 0 .. TOP - 1 /\ sx \in Int /\ sy \in Int
      /\ Unsigned(sx) = x
  BY Halves, SignedIs DEF WordW
<1>2. /\ Unsigned(q * sy + r) = x
      /\ y # 0 => Abs(r) < Abs(sy) /\ (r = 0 \/ (r < 0) = (sx < 0))
      /\ y # 0 => mx_div(x, y) \in {UNDEFINED, HiLo(r, q)}
  <2>1. CASE y = 0
    <3>1. r = sx /\ q \in Int /\ sy = 0
      <4>1. Ones \in WordW
        BY <1>1 DEF WordW
      <4>2. rx_do_rem(x, y) = x /\ rx_do_div(x, y) = Ones
        BY <1>1, <2>1 DEF rx_do_rem, rx_do_div
      <4> QED
        BY <1>1, <2>1, <4>1, <4>2, SignedIs DEF Signed
    <3> HIDE DEF q, r, sx, sy
    <3>2. q * sy + r = sx
      BY <1>1, <3>1
    <3> QED
      BY <1>1, <2>1, <3>2
  <2>2. CASE x = SIGN /\ y = Ones
    <3>1. y # 0
      BY <1>1, <2>2
    <3>2. rx_do_div(x, y) = SIGN /\ rx_do_rem(x, y) = 0 /\ mx_div(x, y) = UNDEFINED
      BY <2>2, <3>1 DEF rx_do_div, rx_do_rem, mx_div
    <3>3. q = -SIGN /\ r = 0 /\ sy = -1 /\ sx = -SIGN
      BY <1>1, <2>2, <3>2 DEF Signed
    <3> HIDE DEF q, r, sx, sy
    <3>4. q * sy + r = SIGN
      BY <1>1, <3>3
    <3>5. Unsigned(SIGN) = SIGN
      BY <1>1, UnsignedIs DEF WordW
    <3> QED
      BY <1>1, <2>2, <3>2, <3>3, <3>4, <3>5 DEF Abs
  <2>3. CASE y # 0 /\ ~(x = SIGN /\ y = Ones)
    <3> DEFINE cq == CDiv(sx, sy)
               cr == CMod(sx, sy)
    <3>1. sy # 0 /\ cq \in -SIGN .. SIGN - 1 /\ cr \in -SIGN .. SIGN - 1
      BY <2>3, QuotientFits
    <3>2. /\ cq \in Int /\ cr \in Int /\ cq * sy + cr = sx
          /\ Abs(cr) < Abs(sy) /\ (cr = 0 \/ (cr < 0 <=> sx < 0))
      BY <1>1, <3>1, CDivMod
    <3>3. /\ rx_do_div(x, y) = Unsigned(cq) /\ rx_do_rem(x, y) = Unsigned(cr)
          /\ mx_div(x, y) = HiLo(cr, cq)
      BY <2>3 DEF rx_do_div, rx_do_rem, mx_div
    <3>4. Signed(Unsigned(cq)) = cq /\ Signed(Unsigned(cr)) = cr
      BY <3>1, <3>2, RoundTrip
    <3>5. q = cq /\ r = cr
      BY <3>3, <3>4
    <3> HIDE DEF cq, cr, q, r, sx, sy
    <3> QED
      BY <1>1, <3>2, <3>3, <3>5
  <2> QED
    BY <2>1, <2>2, <2>3
<1>3. /\ rx_do_divu(x, y) * y + rx_do_remu(x, y) = x
      /\ y # 0 => /\ rx_do_remu(x, y) < y
                  /\ mx_divu(x, y) = [hi |-> rx_do_remu(x, y), lo |-> rx_do_divu(x, y)]
  <2>1. CASE y = 0
    <3>1. rx_do_divu(x, y) = Ones /\ rx_do_remu(x, y) = x
      BY <2>1 DEF rx_do_divu, rx_do_remu
    <3> QED
      BY <1>1, <2>1, <3>1
  <2>2. CASE y # 0
    <3> DEFINE p == x \div y
               s == x % y
    <3>1. y \in Nat \ {0} /\ x \in Nat
      BY <1>1, <2>2
    <3>2. p \in Nat /\ s \in 0 .. y - 1 /\ y * p + s = x
      BY <3>1, DivModDef
    <3>3. rx_do_divu(x, y) = p /\ rx_do_remu(x, y) = s /\ mx_divu(x, y) = HiLo(s, p)
      BY <2>2 DEF rx_do_divu, rx_do_remu, mx_divu
    <3> HIDE DEF p, s
    <3>4. p <= x
      <4>1. p * 1 <= p * y /\ p * 1 = p /\ p * y = y * p
        BY <3>1, <3>2, MulMono
      <4> QED
        BY <3>1, <3>2, <4>1
    <3>5. p \in WordW /\ s \in WordW
      BY <1>1, <3>1, <3>2, <3>4 DEF WordW
    <3>6. Unsigned(p) = p /\ Unsigned(s) = s
      BY <3>2, <3>5, UnsignedIs
    <3>7. p * y + s = x
      BY <3>1, <3>2
    <3> QED
      <4>1. HiLo(s, p) = [hi |-> s, lo |-> p]
        BY <3>6 DEF HiLo
      <4>2. s < y
        BY <3>1, <3>2
      <4> QED
        BY <2>2, <3>3, <3>7, <4>1, <4>2
  <2> QED
    BY <2>1, <2>2
<1> QED
  BY <1>2, <1>3 DEF Quotients

(* Comparisons, branches and the atomic minimum and maximum agree.         *)
LEMMA OrdersHold ==
    ASSUME NEW x \in WordW, NEW y \in WordW
    PROVE  Orders(x, y)
<1> DEFINE sx == Signed(x)
           sy == Signed(y)
<1>1. x \in Int /\ y \in Int /\ sx \in Int /\ sy \in Int /\ x >= 0
  BY SignedIs, Halves DEF WordW
<1>2. sx = sy => x = y
  BY SignedIs
<1>3. Signed(0) = 0
  BY Halves DEF Signed
<1>5. /\ rx_do_blt(x, y) = ~rx_do_bge(x, y) /\ rx_do_bltu(x, y) = ~rx_do_bgeu(x, y)
      /\ rx_do_beq(x, y) = ~rx_do_bne(x, y)
      /\ rx_do_bge(x, y) /\ rx_do_bge(y, x) => rx_do_beq(x, y)
  <2>1. (sx < sy) = ~(sx >= sy) /\ (x < y) = ~(x >= y) /\ (sx >= sy /\ sy >= sx => x = y)
    BY <1>1, <1>2
  <2>2. (x = y) = ~(x # y)
    OBVIOUS
  <2> QED
    BY <2>1, <2>2, Zenon DEF rx_do_blt, rx_do_bge, rx_do_bltu, rx_do_bgeu, rx_do_beq, rx_do_bne
<1>6. /\ \A r \in {mx_slt(x, y), rx_do_slt(x, y), rx_do_slti(x, y)} : r = Bool(rx_do_blt(x, y))
      /\ \A r \in {mx_sltu(x, y), rx_do_sltu(x, y), rx_do_sltiu(x, y)} : r = Bool(rx_do_bltu(x, y))
  BY DEF mx_slt, rx_do_slt, rx_do_slti, mx_sltu, rx_do_sltu, rx_do_sltiu, rx_do_blt, rx_do_bltu
<1>7. {rx_do_amomax(x, y), rx_do_amomin(x, y)} = {x, y} /\ rx_do_bge(rx_do_amomax(x, y), rx_do_amomin(x, y))
  <2>1. CASE sx > sy
    BY <1>1, <2>1 DEF rx_do_amomax, rx_do_amomin, rx_do_bge
  <2>2. CASE sx < sy
    BY <1>1, <2>2 DEF rx_do_amomax, rx_do_amomin, rx_do_bge
  <2>3. CASE sx = sy
    BY <1>1, <1>2, <2>3 DEF rx_do_amomax, rx_do_amomin, rx_do_bge
  <2> QED
    BY <1>1, <2>1, <2>2, <2>3
<1>8. {rx_do_amomaxu(x, y), rx_do_amominu(x, y)} = {x, y} /\ rx_do_bgeu(rx_do_amomaxu(x, y), rx_do_amominu(x, y))
  BY <1>1 DEF rx_do_amomaxu, rx_do_amominu, rx_do_bgeu
<1>9. /\ mx_taken("beq", x, y) = ~mx_taken("bne", x, y)
      /\ mx_taken("bltz", x, 0) = rx_do_blt(x, 0) /\ mx_taken("bltzal", x, 0) = rx_do_blt(x, 0)
      /\ mx_taken("bgez", x, 0) = ~rx_do_blt(x, 0) /\ mx_taken("bgezal", x, 0) = ~rx_do_blt(x, 0)
      /\ mx_taken("bgtz", x, 0) = rx_do_blt(0, x) /\ mx_taken("blez", x, 0) = ~rx_do_blt(0, x)
  <2>1. mx_taken("beq", x, y) = (x = y) /\ mx_taken("bne", x, y) = (x # y)
    BY DEF mx_taken
  <2>2. /\ mx_taken("bltz", x, 0) = (sx < 0) /\ mx_taken("bltzal", x, 0) = (sx < 0)
        /\ mx_taken("bgez", x, 0) = (sx >= 0) /\ mx_taken("bgezal", x, 0) = (sx >= 0)
        /\ mx_taken("bgtz", x, 0) = (sx > 0) /\ mx_taken("blez", x, 0) = (sx <= 0)
    BY DEF mx_taken
  <2>3. /\ (x = y) = ~(x # y) /\ (sx >= 0) = ~(sx < 0) /\ (sx > 0) = (0 < sx) /\ (sx <= 0) = ~(0 < sx)
    BY <1>1
  <2>4. rx_do_blt(x, 0) = (sx < 0) /\ rx_do_blt(0, x) = (0 < sx)
    BY <1>3, Zenon DEF rx_do_blt
  <2> QED
    BY <2>1, <2>2, <2>3, <2>4, Zenon
<1> QED
  BY <1>5, <1>6, <1>7, <1>8, <1>9 DEF Orders, rx_do_amoswap

(* Multiplying by a number keeps an order.                                 *)
LEMMA TimesOrder ==
    ASSUME NEW n \in Nat, NEW a \in Int, NEW b \in Int, a <= b
    PROVE  n * a <= n * b /\ n * a \in Int /\ n * b \in Int
<1>1. PICK c \in Nat : b = a + c
  <2>1. b - a \in Nat /\ b = a + (b - a)
    OBVIOUS
  <2> QED
    BY <2>1
<1>2. n * b = n * a + n * c /\ n * c \in Nat /\ n * a \in Int
  BY <1>1
<1> QED
  BY <1>2

(* A quotient by TOP is where the number is between the multiples of TOP.  *)
LEMMA HighWord ==
    ASSUME NEW n \in Int, NEW lo \in Int, NEW hi \in Int, TOP * lo <= n, n < TOP * hi
    PROVE  n \div TOP \in Int /\ lo <= n \div TOP /\ n \div TOP < hi
           /\ (n \div TOP) * TOP + Unsigned(n) = n
<1>1. TOP \in Nat \ {0}
  BY Halves
<1> DEFINE q == n \div TOP
           r == n % TOP
<1>2. q \in Int /\ r \in 0 .. TOP - 1 /\ n = TOP * q + r
  BY <1>1, DivBounds
<1> HIDE DEF q, r
<1>3. TOP * q \in Int /\ TOP * lo \in Int /\ TOP * hi \in Int /\ q * TOP = TOP * q
  BY <1>1, <1>2
<1>4. lo <= q
  <2>1. ASSUME q + 1 <= lo PROVE FALSE
    <3>1. TOP * (q + 1) <= TOP * lo /\ TOP * (q + 1) = TOP * q + TOP
      BY <1>1, <1>2, <2>1, TimesOrder, MulSucc
    <3> QED
      BY <1>1, <1>2, <1>3, <3>1
  <2> QED
    BY <1>2, <2>1
<1>5. q < hi
  <2>1. ASSUME hi <= q PROVE FALSE
    <3>1. TOP * hi <= TOP * q
      BY <1>1, <1>2, <2>1, TimesOrder
    <3> QED
      BY <1>1, <1>2, <1>3, <3>1
  <2> QED
    BY <1>2, <2>1
<1>6. q * TOP + r = n
  BY <1>2, <1>3
<1> QED
  BY <1>2, <1>4, <1>5, <1>6 DEF q, r, Unsigned

(* Products of words are less than their range squared.                    *)
LEMMA ProductRange ==
    ASSUME NEW a \in Nat, NEW b \in Nat, NEW m \in Nat, NEW n \in Nat, a <= m, b <= n
    PROVE  a * b \in Nat /\ a * b <= m * n /\ m * n \in Nat
<1>1. a * b <= a * n /\ a * b \in Nat /\ a * n \in Nat
  BY MulMono
<1>2. n * a <= n * m /\ n * a = a * n /\ n * m = m * n /\ n * m \in Nat
  BY MulMono
<1> QED
  BY <1>1, <1>2

(* A signed product is within the product of the bounds on both sides.     *)
LEMMA SignedProduct ==
    ASSUME NEW a \in Int, NEW b \in Int, NEW m \in Nat, NEW n \in Nat,
           Abs(a) <= m, Abs(b) <= n
    PROVE  a * b \in Int /\ -(m * n) <= a * b /\ a * b <= m * n /\ m * n \in Nat
<1>1. Abs(a) \in Nat /\ Abs(b) \in Nat
  BY DEF Abs
<1>2. Abs(a) * Abs(b) \in Nat /\ Abs(a) * Abs(b) <= m * n /\ m * n \in Nat
  BY <1>1, ProductRange
<1>3. a * b = Abs(a) * Abs(b) \/ a * b = -(Abs(a) * Abs(b))
  <2>1. CASE a < 0 /\ b < 0
    BY <2>1 DEF Abs
  <2>2. CASE a < 0 /\ b >= 0
    BY <2>2 DEF Abs
  <2>3. CASE a >= 0 /\ b < 0
    BY <2>3 DEF Abs
  <2>4. CASE a >= 0 /\ b >= 0
    BY <2>4 DEF Abs
  <2> QED
    BY <2>1, <2>2, <2>3, <2>4
<1> QED
  BY <1>2, <1>3

(* mulhsu's detour by the magnitude is the signed product's high word.     *)
LEMMA ProductsHold ==
    ASSUME NEW x \in WordW, NEW y \in WordW
    PROVE  Products(x, y)
<1> DEFINE sx == Signed(x)
           sy == Signed(y)
           lo == rx_do_mul(x, y)
<1>1. /\ SIGN \in Nat /\ SIGN >= 1 /\ TOP = SIGN + SIGN /\ TOP \in Nat \ {0}
      /\ x \in Int /\ x >= 0 /\ x < TOP /\ y \in Int /\ y >= 0 /\ y < TOP
      /\ sx \in Int /\ sy \in Int /\ sx \in -SIGN .. SIGN - 1 /\ sy \in -SIGN .. SIGN - 1
      /\ Same(x, sx) /\ Same(y, sy) /\ (sx >= 0 => sx = x)
  BY Halves, SignedIs DEF WordW
<1> HIDE DEF sx, sy, TOP
<1>2. Same(y, y)
  <2>1. y = y + TOP * 0
    BY <1>1
  <2> QED
    BY <2>1 DEF Same
<1>3. lo = Unsigned(x * y) /\ lo = Unsigned(sx * sy) /\ lo = Unsigned(sx * y)
  <2>1. Same(x * y, sx * sy) /\ Same(x * y, sx * y)
    BY <1>1, <1>2, SameProduct
  <2>2. x * y \in Int /\ sx * sy \in Int /\ sx * y \in Int
    BY <1>1
  <2> QED
    BY <2>1, <2>2, Congruent DEF rx_do_mul
<1> HIDE DEF lo
<1> DEFINE T == TOP * SIGN
<1>4. T \in Nat /\ SIGN * SIGN \in Nat /\ SIGN * SIGN < T /\ TOP * (-SIGN) = -T /\ SIGN * TOP = T
  <2>1. TOP * SIGN = SIGN * SIGN + SIGN * SIGN /\ SIGN * SIGN >= 1 * 1
    BY <1>1, ProductRange
  <2>2. SIGN * SIGN \in Nat /\ TOP * (-SIGN) = -(TOP * SIGN) /\ SIGN * TOP = TOP * SIGN
    BY <1>1
  <2> QED
    BY <2>1, <2>2
<1> HIDE DEF T
<1>5. Signed(rx_do_mulh(x, y)) * TOP + lo = sx * sy
  <2> DEFINE n == sx * sy
  <2>1. n \in Int /\ -(SIGN * SIGN) <= n /\ n <= SIGN * SIGN
    <3>1. Abs(sx) <= SIGN /\ Abs(sy) <= SIGN
      BY <1>1 DEF Abs
    <3> QED
      BY <1>1, <3>1, SignedProduct
  <2> HIDE DEF n
  <2> DEFINE low == -SIGN
  <2>2. TOP * low <= n /\ n < TOP * SIGN /\ low \in Int /\ SIGN \in Int
    BY <1>1, <1>4, <2>1 DEF T
  <2> HIDE DEF low
  <2>8. /\ n \div TOP \in Int /\ low <= n \div TOP /\ n \div TOP < SIGN
        /\ (n \div TOP) * TOP + Unsigned(n) = n
    BY <2>1, <2>2, HighWord
  <2>3. /\ n \div TOP \in Int /\ -SIGN <= n \div TOP /\ n \div TOP < SIGN
        /\ (n \div TOP) * TOP + Unsigned(n) = n
    BY <2>8 DEF low
  <2>4. Signed(Unsigned(n \div TOP)) = n \div TOP
    BY <1>1, <2>3, RoundTrip
  <2>5. rx_do_mulh(x, y) = Unsigned(n \div TOP)
    BY DEF rx_do_mulh, n, sx, sy
  <2>6. lo = Unsigned(n)
    BY <1>3 DEF n
  <2>7. Signed(rx_do_mulh(x, y)) * TOP + lo = n
    BY <2>3, <2>4, <2>5, <2>6
  <2> QED
    BY <2>7 DEF n
<1>6. rx_do_mulhu(x, y) \in WordW /\ rx_do_mulhu(x, y) * TOP + lo = x * y
  <2> DEFINE n == x * y
  <2>1. n \in Nat /\ n < TOP * TOP
    <3>1. x \in Nat /\ y \in Nat /\ x <= TOP /\ y <= TOP - 1 /\ TOP - 1 \in Nat /\ TOP \in Nat
      BY <1>1
    <3>2. n \in Nat /\ n <= TOP * (TOP - 1)
      BY <3>1, ProductRange
    <3>3. TOP * (TOP - 1) = TOP * TOP - TOP /\ TOP * TOP \in Nat
      BY <1>1
    <3> HIDE DEF n
    <3> QED
      BY <1>1, <3>2, <3>3
  <2> HIDE DEF n
  <2>2. TOP * 0 <= n /\ n \in Int /\ 0 \in Int /\ TOP \in Int
    BY <1>1, <2>1
  <2>3. n \div TOP \in Int /\ 0 <= n \div TOP /\ n \div TOP < TOP /\ (n \div TOP) * TOP + Unsigned(n) = n
    BY <2>1, <2>2, HighWord
  <2>4. rx_do_mulhu(x, y) = n \div TOP
    BY DEF rx_do_mulhu, n
  <2>5. lo = Unsigned(n)
    BY <1>3 DEF n
  <2>6. rx_do_mulhu(x, y) \in WordW /\ rx_do_mulhu(x, y) * TOP + lo = n
    BY <1>1, <2>3, <2>4, <2>5 DEF WordW
  <2> QED
    BY <2>6 DEF n
<1>7. Signed(rx_do_mulhsu(x, y)) * TOP + lo = sx * y
  <2> DEFINE n == sx * y
             h == n \div TOP
  <2>1. n \in Int /\ TOP * (-SIGN) <= n /\ n < TOP * SIGN
    <3>1. CASE sx >= 0
      <4>1. sx \in Nat /\ y \in Nat /\ sx <= SIGN /\ y <= TOP - 1 /\ TOP - 1 \in Nat
        BY <1>1, <3>1
      <4>2. n \in Nat /\ n <= SIGN * (TOP - 1) /\ SIGN * (TOP - 1) \in Nat
        BY <1>1, <4>1, ProductRange
      <4>3. SIGN * (TOP - 1) = SIGN * TOP - SIGN
        BY <1>1
      <4> HIDE DEF n
      <4> QED
        BY <1>1, <1>4, <4>2, <4>3 DEF T
    <3>2. CASE sx < 0
      <4>1. -sx \in Nat /\ y \in Nat /\ -sx <= SIGN /\ y <= TOP /\ TOP \in Nat
        BY <1>1, <3>2
      <4>2. (-sx) * y \in Nat /\ (-sx) * y <= SIGN * TOP
        BY <1>1, <4>1, ProductRange
      <4>3. n = -((-sx) * y)
        BY <1>1
      <4> HIDE DEF n
      <4> QED
        BY <1>1, <1>4, <4>2, <4>3 DEF T
    <3> QED
      BY <1>1, <3>1, <3>2
  <2> HIDE DEF n
  <2> DEFINE low == -SIGN
  <2>8. TOP * low <= n /\ n < TOP * SIGN /\ low \in Int /\ SIGN \in Int
    BY <1>1, <2>1
  <2> HIDE DEF low
  <2>9. h \in Int /\ low <= h /\ h < SIGN /\ h * TOP + Unsigned(n) = n
    BY <2>1, <2>8, HighWord
  <2>2. h \in Int /\ -SIGN <= h /\ h < SIGN /\ h * TOP + Unsigned(n) = n
    BY <2>9 DEF low
  <2> HIDE DEF h
  <2>3. sx < 0 <=> n < 0 \/ (sx < 0 /\ n = 0)
    <3>1. sx < 0 => n <= 0
      <4>1. ASSUME sx < 0 PROVE n <= 0
        <5>1. (-sx) * y \in Nat /\ n = -((-sx) * y)
          <6>1. -sx \in Nat /\ y \in Nat
            BY <1>1, <4>1
          <6> QED
            BY <1>1, <6>1, MulMono DEF n
        <5> QED
          BY <2>1, <5>1
      <4> QED BY <4>1
    <3>2. sx >= 0 => n >= 0
      <4>1. ASSUME sx >= 0 PROVE n >= 0
        <5>1. sx \in Nat /\ y \in Nat
          BY <1>1, <4>1
        <5> QED
          BY <5>1, MulMono DEF n
      <4> QED BY <4>1
    <3> QED
      BY <1>1, <2>1, <3>1, <3>2
  <2>4. rx_do_mulhsu(x, y) = Unsigned(h)
    <3>1. CASE sx >= 0
      <4>1. n >= 0 /\ Abs(sx) * y = n
        BY <1>1, <2>1, <2>3, <3>1 DEF Abs, n
      <4>2. rx_do_mulhsu(x, y) = h
        BY <1>1, <3>1, <4>1 DEF rx_do_mulhsu, h, sx
      <4>3. 0 <= h
        <5>1. TOP * 0 <= n /\ 0 \in Int
          BY <1>1, <2>1, <4>1
        <5> QED
          BY <1>1, <2>1, <5>1, HighWord DEF h
      <4>4. h \in WordW
        BY <1>1, <2>2, <4>3 DEF WordW
      <4> QED
        BY <2>2, <4>2, <4>4, UnsignedIs
    <3>2. CASE sx < 0
      <4> DEFINE Z == TOP * TOP
                 m == n % Z
      <4>1. -(Abs(sx) * y) = n
        BY <1>1, <3>2 DEF Abs, n
      <4>2. rx_do_mulhsu(x, y) = m \div TOP
        BY <3>2, <4>1 DEF rx_do_mulhsu, sx
      <4>3. Z \in Nat \ {0} /\ T + T = Z
        <5>1. TOP * TOP = TOP * SIGN + TOP * SIGN /\ TOP * SIGN \in Nat /\ TOP * SIGN > 0
          BY <1>1, <1>4 DEF T
        <5> QED
          BY <5>1 DEF T
      <4> HIDE DEF Z, m
      <4>4. n <= 0 /\ n >= -T
        BY <1>4, <2>1, <2>3, <3>2
      <4>5. n = TOP * h + Unsigned(n) /\ Unsigned(n) \in 0 .. TOP - 1 /\ TOP * h \in Int
        BY <1>1, <2>1, <2>2, UnsignedIs DEF WordW
      <4>6. \E j \in {0, TOP} : m = TOP * (h + j) + Unsigned(n)
        <5>1. CASE n = 0
          <6>1. m = 0
            BY <4>3, <5>1, ModSmall DEF m
          <6>2. m = TOP * (h + 0) + Unsigned(n)
            BY <2>2, <4>5, <5>1, <6>1
          <6> QED BY <6>2
        <5>2. CASE n < 0
          <6> DEFINE q == -1
                     r == n + Z
          <6>1. n = Z * q + r /\ q \in Int /\ r \in 0 .. Z - 1
            BY <1>4, <2>1, <4>3, <4>4, <5>2
          <6> HIDE DEF q, r
          <6>5. m = r
            <7>1. Z \in Nat \ {0} /\ q \in Int /\ r \in 0 .. Z - 1 /\ n = Z * q + r
              BY <4>3, <6>1
            <7>2. n % Z = r
              BY ONLY <7>1, DivModIs, Zenon
            <7> QED
              BY <7>2 DEF m
          <6>2. m = n + Z
            BY <6>5 DEF r
          <6>3. TOP * (h + TOP) = TOP * h + Z
            BY <1>1, <2>2 DEF Z
          <6>4. m = TOP * (h + TOP) + Unsigned(n)
            BY <1>1, <2>2, <4>3, <4>5, <6>2, <6>3
          <6> QED BY <6>4
        <5> QED
          BY <2>1, <4>4, <5>1, <5>2
      <4>7. PICK j \in {0, TOP} : m = TOP * (h + j) + Unsigned(n)
        BY <4>6
      <4>8. m \div TOP = h + j
        <5>1. h + j \in Int
          BY <1>1, <2>2
        <5> QED
          BY <1>1, <4>5, <4>7, <5>1, DivModIs
      <4>9. Unsigned(h + j) = Unsigned(h)
        <5>1. h + j \in Int /\ Same(h + j, h)
          <6>1. j = TOP * 0 \/ j = TOP * 1
            BY <1>1
          <6>2. h + TOP * 0 \in Int /\ h + TOP * 1 \in Int
            BY <1>1, <2>2
          <6> QED
            BY <6>1, <6>2 DEF Same
        <5> QED
          BY <2>2, <5>1, Congruent
      <4>10. h + j \in WordW
        <5>1. m >= 0 /\ m < TOP * TOP /\ m \in Int
          BY <2>1, <4>3, ModRange DEF m, Z
        <5>2. TOP * 0 <= m /\ 0 \in Int /\ TOP \in Int
          BY <1>1, <5>1
        <5>3. 0 <= m \div TOP /\ m \div TOP < TOP /\ m \div TOP \in Int
          BY <5>1, <5>2, HighWord
        <5> QED
          BY <1>1, <4>8, <5>3 DEF WordW
      <4>11. Unsigned(h + j) = h + j
        BY <1>1, <2>2, <4>10, UnsignedIs
      <4> QED
        BY <4>2, <4>8, <4>9, <4>11
    <3> QED
      BY <1>1, <3>1, <3>2
  <2>5. Signed(Unsigned(h)) = h
    BY <1>1, <2>2, RoundTrip
  <2>6. lo = Unsigned(n)
    BY <1>3 DEF n
  <2>7. Signed(rx_do_mulhsu(x, y)) * TOP + lo = n
    BY <2>2, <2>4, <2>5, <2>6
  <2> QED
    BY <2>7 DEF n
<1>8. mx_do_mult(x, y) = [hi |-> rx_do_mulh(x, y), lo |-> lo]
  <2>1. mx_do_mult(x, y) = [hi |-> Unsigned((sx * sy) \div TOP), lo |-> Unsigned(sx * sy)]
    BY DEF mx_do_mult, HiLo64, HiLo, sx, sy
  <2>2. rx_do_mulh(x, y) = Unsigned((sx * sy) \div TOP)
    BY DEF rx_do_mulh, sx, sy
  <2> QED
    BY <1>3, <2>1, <2>2
<1>9. mx_do_multu(x, y) = [hi |-> rx_do_mulhu(x, y), lo |-> lo]
  <2>1. mx_do_multu(x, y) = [hi |-> Unsigned(rx_do_mulhu(x, y)), lo |-> Unsigned(x * y)]
    BY DEF mx_do_multu, HiLo64, HiLo, rx_do_mulhu
  <2>2. Unsigned(rx_do_mulhu(x, y)) = rx_do_mulhu(x, y)
    BY <1>1, <1>6, UnsignedIs DEF WordW
  <2> QED
    BY <1>3, <2>1, <2>2
<1> QED
  BY <1>5, <1>6, <1>7, <1>8, <1>9 DEF Products, sx, sy, lo

(* For every word length, the arithmetic of the two cores, mx_... and      *)
(* rx_do_..., is exact: Sums, Products, Quotients and Orders, which TLC    *)
(* evaluates for words of four bits as parts of AluCorrect.                *)
THEOREM ArithmeticExact ==
    \A x, y \in WordW : Sums(x, y) /\ Products(x, y) /\ Quotients(x, y) /\ Orders(x, y)
  BY SumsHold, ProductsHold, QuotientsHold, OrdersHold
=============================================================================
