----------------------------- MODULE DiskProofs -----------------------------
(***************************************************************************)
(* Theorems about the fixed disk, for every geometry, image size, limit of *)
(* tries and doom count.                                                   *)
(*                                                                         *)
(* Geometry first: start, a recursive function, has the values its         *)
(* equation says, and every sector of the image lies on some track.  The   *)
(* induction behind both is the least-element principle LeastNat, applied  *)
(* to the set of counterexamples.                                          *)
(***************************************************************************)
EXTENDS Disk, TLAPS, ProofBasics, SequenceTheorems

(* The right-hand side of the equation of start.                           *)
StartRhs(f, t) == IF t = NUMTRACKS - 1 THEN 0 ELSE f[t + 1] + dd_sectors[t + 1]

(* By induction from the outermost track inwards, the equation has a       *)
(* solution.                                                               *)
LEMMA StartExists ==
    \E f \in [Track -> Nat] : \A t \in Track : f[t] = StartRhs(f, t)
<1> DEFINE Good(k) == \E f \in [Track -> Nat] : \A t \in Track :
                         t >= NUMTRACKS - 1 - k => f[t] = StartRhs(f, t)
           Bad == {k \in Nat : ~Good(k)}
<1> USE DiskAssumption DEF Track
<1>1. Good(0)
  <2>1. [t \in Track |-> 0] \in [Track -> Nat]
    OBVIOUS
  <2>2. ASSUME NEW t \in Track, t >= NUMTRACKS - 1 - 0
        PROVE  [u \in Track |-> 0][t] = StartRhs([u \in Track |-> 0], t)
    BY <2>2 DEF StartRhs
  <2> QED
    BY <2>1, <2>2
<1>2. ASSUME NEW k \in Nat, Good(k) PROVE Good(k + 1)
  <2>1. PICK f \in [Track -> Nat] : \A t \in Track :
           t >= NUMTRACKS - 1 - k => f[t] = StartRhs(f, t)
    BY <1>2
  <2> DEFINE n == NUMTRACKS - 2 - k
             g == [f EXCEPT ![n] = f[n + 1] + dd_sectors[n + 1]]
  <2>2. CASE n \in Track
    <3>1. n + 1 \in Track /\ n # NUMTRACKS - 1
      BY <2>2
    <3>2. g \in [Track -> Nat]
      BY <2>2, <3>1
    <3>3. ASSUME NEW t \in Track, t >= NUMTRACKS - 1 - (k + 1)
          PROVE  g[t] = StartRhs(g, t)
      BY <2>1, <2>2, <3>1, <3>3 DEF StartRhs
    <3> QED
      BY <3>2, <3>3
  <2>3. CASE n \notin Track
    <3>1. ASSUME NEW t \in Track, t >= NUMTRACKS - 1 - (k + 1)
          PROVE  f[t] = StartRhs(f, t)
      BY <2>1, <2>3, <3>1
    <3> QED
      BY <3>1
  <2> QED
    BY <2>2, <2>3
<1>3. Bad = {}
  <2> SUFFICES ASSUME Bad # {} PROVE FALSE
    OBVIOUS
  <2>1. PICK x \in Bad : \A y \in Bad : x <= y
    <3> HIDE DEF Good
    <3> QED BY LeastNat
  <2>2. x # 0
    BY <1>1, <2>1
  <2>3. x - 1 \in Nat /\ Good(x - 1)
    <3> HIDE DEF Good
    <3> QED BY <2>1, <2>2
  <2>4. Good((x - 1) + 1)
    <3> HIDE DEF Good
    <3> QED BY <1>2, <2>3
  <2>5. (x - 1) + 1 = x
    OBVIOUS
  <2> QED
    <3> HIDE DEF Good
    <3> QED BY <2>4, <2>5
<1>4. Good(NUMTRACKS - 1)
  <2> HIDE DEF Good
  <2> QED BY <1>3
<1> QED
  BY <1>4

LEMMA StartDef ==
    /\ start \in [Track -> Nat]
    /\ \A t \in Track : start[t] = StartRhs(start, t)
<1>1. PICK f \in [Track -> Nat] : \A t \in Track : f[t] = StartRhs(f, t)
  BY StartExists
<1>2. f = [t \in Track |-> IF t = NUMTRACKS - 1 THEN 0 ELSE f[t + 1] + dd_sectors[t + 1]]
  BY <1>1 DEF StartRhs
<1>3. start = [t \in Track |-> IF t = NUMTRACKS - 1 THEN 0
                               ELSE start[t + 1] + dd_sectors[t + 1]]
  BY <1>2, Zenon DEF start
<1>4. \A t \in Track : start[t] \in Nat
  <2> DEFINE Bad == {k \in 0 .. NUMTRACKS - 1 : start[NUMTRACKS - 1 - k] \notin Nat}
  <2>1. Bad = {}
    <3> SUFFICES ASSUME Bad # {} PROVE FALSE
      OBVIOUS
    <3>1. Bad \subseteq Nat
      BY DiskAssumption
    <3>2. PICK x \in Bad : \A y \in Bad : x <= y
      <4> HIDE DEF Bad
      <4> QED BY <3>1, LeastNat
    <3> DEFINE t == NUMTRACKS - 1 - x
    <3>3. t \in Track /\ start[t] \notin Nat
      BY DiskAssumption DEF Track
    <3>4. start[t] = IF t = NUMTRACKS - 1 THEN 0 ELSE start[t + 1] + dd_sectors[t + 1]
      BY <1>3, <3>3, Zenon
    <3>5. CASE x = 0
      BY <3>3, <3>4, <3>5, DiskAssumption
    <3>6. CASE x # 0
      <4>1. x - 1 \in 0 .. NUMTRACKS - 1 /\ x - 1 \notin Bad
        BY <3>2, <3>6, DiskAssumption
      <4>2. start[NUMTRACKS - 1 - (x - 1)] \in Nat
        BY <4>1
      <4>3. NUMTRACKS - 1 - (x - 1) = t + 1 /\ t + 1 \in Track /\ t # NUMTRACKS - 1
        BY <3>6, DiskAssumption DEF Track
      <4> QED
        BY <3>3, <3>4, <4>2, <4>3, DiskAssumption
    <3> QED
      BY <3>5, <3>6
  <2>2. ASSUME NEW t \in Track PROVE start[t] \in Nat
    <3>1. NUMTRACKS - 1 - t \in 0 .. NUMTRACKS - 1
      BY DiskAssumption DEF Track
    <3>2. start[NUMTRACKS - 1 - (NUMTRACKS - 1 - t)] \in Nat
      BY <2>1, <3>1
    <3> QED
      BY <3>2, DiskAssumption DEF Track
  <2> QED
    BY <2>2
<1>5. start \in [Track -> Nat]
  <2>1. start = [t \in Track |-> start[t]]
    BY <1>3, Zenon
  <2> QED
    BY <1>4, <2>1, Zenon
<1>6. ASSUME NEW t \in Track PROVE start[t] = StartRhs(start, t)
  BY <1>3, Zenon DEF StartRhs
<1> QED
  BY <1>5, <1>6

(* locate_sector finds a track for every sector of the image, and the      *)
(* sector lies on it.                                                      *)
THEOREM SectorHasTrack ==
    ASSUME NEW s \in Sector
    PROVE  /\ locate_sector(s) \in Track
           /\ start[locate_sector(s)] <= s
           /\ s < start[locate_sector(s)] + dd_sectors[locate_sector(s)]
<1> DEFINE T == {t \in Track : start[t] <= s}
<1>1. T \subseteq Nat /\ NUMTRACKS - 1 \in T
  BY StartDef, DiskAssumption DEF Track, Sector, StartRhs
<1>2. PICK t \in T : \A u \in T : t <= u
  <2> HIDE DEF T
  <2> QED BY <1>1, LeastNat
<1>3. s < start[t] + dd_sectors[t]
  <2>1. CASE t = 0
    BY <2>1, GeometryAssumption, StartDef, DiskAssumption DEF Track, Sector
  <2>2. CASE t # 0
    <3>1. t - 1 \in Track /\ t - 1 \notin T /\ t - 1 # NUMTRACKS - 1
      BY <1>2, <2>2, DiskAssumption DEF Track
    <3>2. start[t - 1] = start[t] + dd_sectors[t]
      BY <3>1, StartDef DEF StartRhs, Track
    <3>3. start[t - 1] \in Nat /\ start[t - 1] > s
      BY <3>1, StartDef DEF Sector
    <3> QED
      BY <3>2, <3>3
  <2> QED
    BY <2>1, <2>2
<1>4. \E u \in Track : start[u] <= s /\ s < start[u] + dd_sectors[u]
  BY <1>3
<1> QED
  BY <1>4, Zenon DEF locate_sector

-----------------------------------------------------------------------------
(***************************************************************************)
(* The inductive invariant.  The interrupt line is what disk_update() last *)
(* made of it; and every write that reached the image, every write still   *)
(* in progress and every tick left fit into the initial doom count.        *)
(***************************************************************************)
DD == [stat : Status, sect : 0 .. dd_totsectors, buf : Data,
       iostatus : -1 .. 3, timedop : BOOLEAN,
       worktries : 0 .. MAX_WORKTRIES, current_track : Track]

EventSet == [func : {"seekdone"}, arg : Track] \cup [func : {"waitdone"}, arg : 1 .. 3]

IrqShowsCompletion == irq <=> "COMPLETE" \in dd.stat

Pending(stat) == IF stat = WRITING THEN 1 ELSE 0

DoomInv ==
    Doom > 0 =>
        /\ writes + Pending(dd.stat) + doom_counter <= Doom
        /\ power # "dead" => doom_counter > 0
        /\ writes < Doom

DiskInv == TypeOK /\ OneEvent /\ IrqShowsCompletion /\ DoomInv

(* What the status register says at the end of an operation.               *)
LEMMA FinishStatus ==
    ASSUME NEW stat \in {READING, WRITING},
           NEW bits \in {{}, {"INVSECT"}, {"MEDIAERR"}}
    PROVE  /\ FINISH(stat, bits) \in Status
           /\ "COMPLETE" \in FINISH(stat, bits)
           /\ FINISH(stat, bits) # WRITING
<1>1. FINISH(stat, bits) = (IF stat = READING THEN {} ELSE {"ISWRITE"}) \cup {"COMPLETE"} \cup bits
  BY DEF FINISH, READING, WRITING
<1>2. FINISH(stat, bits) \in Status
  BY <1>1 DEF Status
<1> QED
  BY <1>1, <1>2 DEF WRITING

(* An operation is in progress exactly in two values of the register.      *)
LEMMA InProgress ==
    ASSUME NEW stat \in Status
    PROVE  /\ "INPROGRESS" \in stat <=> stat \in {READING, WRITING}
           /\ stat \in {READING, WRITING} => ("ISWRITE" \in stat <=> stat = WRITING)
           /\ stat \in {READING, WRITING, IDLE} => "COMPLETE" \notin stat
BY DEF Status, READING, WRITING, IDLE

(* Completion of the operation that d holds: what DiskStore's Complete     *)
(* says, of d instead of the current registers.                            *)
Completion(d) ==
    \/ /\ d.sect \notin Sector
       /\ dd'.stat = FINISH(d.stat, {"INVSECT"})
       /\ dd'.buf = d.buf /\ media' = media /\ writes' = writes
    \/ /\ d.sect \in Sector /\ d.stat = WRITING
       /\ dd'.buf = d.buf
       /\ \/ /\ dd'.stat = FINISH(d.stat, {})
             /\ media' = [media EXCEPT ![d.sect] = d.buf]
          \/ /\ dd'.stat = FINISH(d.stat, {"MEDIAERR"})
             /\ \E x \in Data : media' = [media EXCEPT ![d.sect] = x]
       /\ writes' = IF Doom = 0 THEN 0 ELSE writes + 1
    \/ /\ d.sect \in Sector /\ d.stat = READING
       /\ media' = media /\ writes' = writes
       /\ \/ dd'.stat = FINISH(d.stat, {}) /\ dd'.buf = media[d.sect]
          \/ dd'.stat = FINISH(d.stat, {"MEDIAERR"}) /\ dd'.buf \in Data

LEMMA ForceioEffect ==
    ASSUME NEW d \in DD, d.stat \in {READING, WRITING}, d.sect \in Sector,
           media \in [Sector -> Data], writes \in Nat, forceio(d)
    PROVE  /\ dd' \in DD /\ dd'.sect = d.sect /\ dd'.timedop = d.timedop
           /\ Completion(d)
<1>1. /\ FINISH(d.stat, {}) \in Status
      /\ FINISH(d.stat, {"MEDIAERR"}) \in Status
  BY FinishStatus
<1>2. 0 \in 0 .. MAX_WORKTRIES
  BY DiskAssumption
<1> DEFINE done(bits) == [d EXCEPT !.stat = FINISH(@, bits), !.worktries = 0]
<1>3. ASSUME NEW bits \in {{}, {"MEDIAERR"}}
      PROVE  /\ done(bits) \in DD /\ done(bits).sect = d.sect
             /\ done(bits).timedop = d.timedop /\ done(bits).buf = d.buf
             /\ done(bits).stat = FINISH(d.stat, bits)
  BY <1>1, <1>2 DEF DD
<1>4. CASE d.stat = WRITING
  <2>1. "ISWRITE" \in d.stat
    BY <1>4 DEF WRITING
  <2>2. writes' = IF Doom = 0 THEN 0 ELSE writes + 1
    BY <2>1 DEF forceio
  <2>3. CASE dd' = done({}) /\ media' = [media EXCEPT ![d.sect] = d.buf]
    BY <2>2, <2>3, <1>3, <1>4 DEF Completion
  <2>4. CASE dd' = done({"MEDIAERR"}) /\ \E x \in Data : media' = [media EXCEPT ![d.sect] = x]
    BY <2>2, <2>4, <1>3, <1>4 DEF Completion
  <2> QED
    BY <2>1, <2>3, <2>4 DEF forceio
<1>5. CASE d.stat = READING
  <2>1. "ISWRITE" \notin d.stat
    BY <1>5 DEF READING
  <2>2. media' = media /\ writes' = writes
    BY <2>1 DEF forceio
  <2>3. ASSUME NEW x \in Data, NEW bits \in {{}, {"MEDIAERR"}}
        PROVE  LET e == [done(bits) EXCEPT !.buf = x]
               IN  /\ e \in DD /\ e.sect = d.sect /\ e.timedop = d.timedop
                   /\ e.buf = x /\ e.stat = FINISH(d.stat, bits)
    BY <1>3 DEF DD
  <2>4. CASE dd' = [done({}) EXCEPT !.buf = media[d.sect]]
    BY <2>2, <2>3, <2>4, <1>5 DEF Completion
  <2>5. CASE \E x \in Data : dd' = [done({"MEDIAERR"}) EXCEPT !.buf = x]
    <3>1. PICK x \in Data : dd' = [done({"MEDIAERR"}) EXCEPT !.buf = x]
      BY <2>5
    <3>2. /\ dd' \in DD /\ dd'.sect = d.sect /\ dd'.timedop = d.timedop
          /\ dd'.buf = x /\ dd'.stat = FINISH(d.stat, {"MEDIAERR"})
      BY <3>1, <2>3
    <3> QED
      BY <3>2, <2>2, <1>5 DEF Completion
  <2>6. \/ dd' = [done({}) EXCEPT !.buf = media[d.sect]]
        \/ \E x \in Data : dd' = [done({"MEDIAERR"}) EXCEPT !.buf = x]
    BY <2>1, Zenon DEF forceio
  <2> QED
    BY <2>4, <2>5, <2>6
<1> QED
  BY <1>4, <1>5

(* schedule() waits for one event more and changes nothing else.           *)
LEMMA ScheduleEffect ==
    ASSUME NEW d \in DD, NEW ev \in Seq(EventSet), NEW func, NEW arg,
           [func |-> func, arg |-> arg] \in EventSet, ev = <<>>,
           schedule(d, ev, func, arg)
    PROVE  /\ dd' \in DD /\ events' \in Seq(EventSet)
           /\ Len(events') = IF dd'.timedop THEN 1 ELSE 0
           /\ dd'.sect = d.sect /\ dd'.stat = d.stat /\ dd'.buf = d.buf
           /\ forced' \in BOOLEAN /\ media' = media /\ writes' = writes
<1>1. /\ dd' = [d EXCEPT !.timedop = TRUE] /\ media' = media /\ writes' = writes
      /\ events' = <<[func |-> func, arg |-> arg]>> /\ forced' = FALSE
  BY DEF schedule
<1>2. /\ dd' \in DD /\ dd'.timedop = TRUE
      /\ dd'.sect = d.sect /\ dd'.stat = d.stat /\ dd'.buf = d.buf
  BY <1>1 DEF DD
<1>3. events' \in Seq(EventSet) /\ Len(events') = 1
  BY <1>1
<1> QED
  BY <1>1, <1>2, <1>3

(* The outcome of disk_work() on d with the events ev: types are kept, at  *)
(* most one event is in the queue, and either nothing visible happened or  *)
(* the operation in progress was completed.                                *)
Quiet(d) == dd'.stat = d.stat /\ dd'.buf = d.buf /\ media' = media /\ writes' = writes

Outcome(d) ==
    /\ dd' \in DD /\ events' \in Seq(EventSet) /\ forced' \in BOOLEAN
    /\ Len(events') = IF dd'.timedop THEN 1 ELSE 0
    /\ dd'.sect = d.sect
    /\ Quiet(d) \/ (d.stat \in {READING, WRITING} /\ Completion(d))

LEMMA StagesEffect ==
    ASSUME NEW d \in DD, NEW ev \in Seq(EventSet), ev = <<>>, ~d.timedop,
           d.stat \in {READING, WRITING}, d.sect \in Sector,
           media \in [Sector -> Data], writes \in Nat, Stages(d, ev)
    PROVE  Outcome(d)
<1> DEFINE cyl == locate_sector(d.sect)
           d2  == [d EXCEPT !.iostatus = 2]
<1>1. cyl \in Track
  BY SectorHasTrack
<1>2. ASSUME NEW n \in 1 .. 3, schedule(d, ev, "waitdone", n)
      PROVE  Outcome(d)
  <2>1. [func |-> "waitdone", arg |-> n] \in EventSet
    BY DEF EventSet
  <2> QED
    BY <1>2, <2>1, ScheduleEffect DEF Outcome, Quiet
<1>3. CASE schedule(d, ev, "seekdone", cyl)
  <2>1. [func |-> "seekdone", arg |-> cyl] \in EventSet
    BY <1>1 DEF EventSet
  <2> QED
    BY <1>3, <2>1, ScheduleEffect DEF Outcome, Quiet
<1>4. CASE schedule(d2, ev, "waitdone", 3)
  <2>1. [func |-> "waitdone", arg |-> 3] \in EventSet
    BY DEF EventSet
  <2>2. d2 \in DD /\ d2.stat = d.stat /\ d2.sect = d.sect /\ d2.buf = d.buf
    BY DEF DD
  <2> HIDE DEF d2
  <2> QED
    BY <1>4, <2>1, <2>2, ScheduleEffect DEF Outcome, Quiet
<1>5. CASE forceio(d) /\ events' = ev /\ forced' = FALSE
  BY <1>5, ForceioEffect DEF Outcome
<1>6. \/ schedule(d, ev, "seekdone", cyl)
      \/ \E n \in 1 .. 3 : schedule(d, ev, "waitdone", n)
      \/ schedule(d2, ev, "waitdone", 3)
      \/ forceio(d) /\ events' = ev /\ forced' = FALSE
  <2> HIDE DEF d2, cyl
  <2>1. 1 \in 1 .. 3 /\ 2 \in 1 .. 3 /\ 3 \in 1 .. 3
    OBVIOUS
  <2> QED
    BY <2>1 DEF Stages, cyl, d2
<1> QED
  BY <1>2, <1>3, <1>4, <1>5, <1>6

LEMMA WorkEffect ==
    ASSUME NEW d \in DD, NEW ev \in Seq(EventSet),
           Len(ev) = IF d.timedop THEN 1 ELSE 0,
           media \in [Sector -> Data], writes \in Nat, disk_work(d, ev)
    PROVE  Outcome(d)
<1>1. CASE d.timedop \/ "INPROGRESS" \notin d.stat
  <2>1. dd' = d /\ events' = ev /\ forced' = FALSE /\ UNCHANGED <<media, writes>>
    BY <1>1 DEF disk_work, DD
  <2> QED
    BY <2>1 DEF Outcome, Quiet
<1>2. CASE ~d.timedop /\ "INPROGRESS" \in d.stat
  <2>1. Proceed(d, ev) /\ ev = <<>> /\ d.stat \in {READING, WRITING}
    BY <1>2, InProgress DEF disk_work, DD
  <2>2. CASE d.sect >= dd_totsectors
    <3>1. dd' = [d EXCEPT !.stat = FINISH(@, {"INVSECT"}), !.worktries = 0]
          /\ events' = ev /\ forced' = FALSE /\ UNCHANGED <<media, writes>>
      BY <2>1, <2>2, DiskAssumption DEF Proceed, DD
    <3>2. FINISH(d.stat, {"INVSECT"}) \in Status /\ 0 \in 0 .. MAX_WORKTRIES
      BY <2>1, FinishStatus, DiskAssumption
    <3>3. d.sect \notin Sector
      BY <2>2, DiskAssumption DEF Sector, DD
    <3>4. /\ dd' \in DD /\ dd'.sect = d.sect /\ dd'.buf = d.buf
          /\ dd'.timedop = d.timedop /\ dd'.stat = FINISH(d.stat, {"INVSECT"})
      BY <3>1, <3>2 DEF DD
    <3> QED
      BY <1>2, <2>1, <3>1, <3>3, <3>4 DEF Outcome, Completion
  <2>3. CASE d.sect < dd_totsectors /\ d.worktries >= MAX_WORKTRIES
    <3> DEFINE e == [d EXCEPT !.current_track = 0, !.iostatus = -1]
    <3>1. forceio(e) /\ events' = ev /\ forced' = TRUE
      <4>1. ~(d.sect >= dd_totsectors)
        BY <2>3, DiskAssumption DEF DD
      <4> QED
        BY <2>1, <2>3, <4>1, Zenon DEF Proceed
    <3>2. /\ e \in DD /\ e.stat = d.stat /\ e.sect = d.sect /\ e.buf = d.buf
          /\ e.timedop = d.timedop
      <4>1. 0 \in Track /\ -1 \in -1 .. 3
        BY DiskAssumption DEF Track
      <4> QED
        BY <4>1 DEF DD
    <3>3. e.sect \in Sector
      BY <2>3, <3>2, DiskAssumption DEF Sector, DD
    <3> HIDE DEF e
    <3>4. /\ dd' \in DD /\ dd'.sect = e.sect /\ dd'.timedop = e.timedop
          /\ Completion(e)
      BY <2>1, <3>1, <3>2, <3>3, ForceioEffect
    <3>5. Completion(d)
      BY <3>2, <3>4 DEF Completion
    <3> QED
      BY <1>2, <2>1, <3>1, <3>2, <3>4, <3>5 DEF Outcome
  <2>4. CASE d.sect < dd_totsectors /\ ~(d.worktries >= MAX_WORKTRIES)
    <3> DEFINE e == [d EXCEPT !.worktries = @ + 1]
    <3>1. Stages(e, ev)
      <4>1. ~(d.sect >= dd_totsectors)
        BY <2>4, DiskAssumption DEF DD
      <4> QED
        BY <2>1, <2>4, <4>1, Zenon DEF Proceed
    <3>2. /\ e \in DD /\ e.stat = d.stat /\ e.sect = d.sect /\ e.buf = d.buf
          /\ e.timedop = d.timedop
      <4>1. d.worktries \in 0 .. MAX_WORKTRIES
        BY DEF DD
      <4>2. d.worktries + 1 \in 0 .. MAX_WORKTRIES
        BY <2>4, <4>1, DiskAssumption
      <4> QED
        BY <4>2 DEF DD
    <3>3. e.sect \in Sector
      BY <2>4, <3>2, DiskAssumption DEF Sector, DD
    <3> HIDE DEF e
    <3>4. Outcome(e)
      BY <1>2, <2>1, <3>1, <3>2, <3>3, StagesEffect
    <3> QED
      BY <3>2, <3>4 DEF Outcome, Quiet, Completion
  <2> QED
    BY <2>2, <2>3, <2>4, DiskAssumption DEF DD
<1> QED
  BY <1>1, <1>2

-----------------------------------------------------------------------------
LEMMA InitDisk == Init => DiskInv
<1> SUFFICES ASSUME Init PROVE DiskInv
  OBVIOUS
<1>1. dd \in DD
  <2>1. IDLE \in Status
    BY DEF Status
  <2>2. 0 \in 0 .. dd_totsectors /\ -1 \in -1 .. 3 /\ 0 \in 0 .. MAX_WORKTRIES /\ 0 \in Track
    BY DiskAssumption DEF Track
  <2> QED
    BY <2>1, <2>2 DEF Init, DD
<1>2. /\ dd.stat = IDLE /\ dd.timedop = FALSE
  <2>1. dd.stat \in {IDLE} /\ dd.timedop \in {FALSE}
    BY DEF Init
  <2> QED
    BY <2>1
<1>3. TypeOK
  <2>1. doom_counter \in 0 .. Doom /\ writes \in Nat
    BY DiskAssumption DEF Init
  <2>2. events \in Seq(EventSet)
    BY DEF Init
  <2> QED
    BY <1>1, <2>1, <2>2, Zenon DEF Init, TypeOK, DD, EventSet
<1>4. IrqShowsCompletion /\ OneEvent
  <2>1. irq = FALSE /\ "COMPLETE" \notin dd.stat
    BY <1>2 DEF Init, IDLE
  <2>2. IrqShowsCompletion
    BY <2>1 DEF IrqShowsCompletion
  <2>3. OneEvent
    BY <1>2 DEF Init, OneEvent
  <2> QED
    BY <2>2, <2>3
<1>5. DoomInv
  BY <1>2, DiskAssumption DEF Init, DoomInv, Pending, IDLE, WRITING
<1> QED
  BY <1>3, <1>4, <1>5 DEF DiskInv

LEMMA Budget ==
    ASSUME NEW a \in Nat, NEW b \in Nat, NEW c \in Nat, NEW p \in Nat, NEW D \in Nat,
           b + p + c <= D, a <= b + p
    PROVE  a + 0 + c <= D
OBVIOUS

(* disk_update() on a well-formed device keeps the invariant, if d leaves  *)
(* the doom count its due.                                                 *)
LEMMA UpdateKeeps ==
    ASSUME DiskInv, NEW d \in DD, NEW ev \in Seq(EventSet),
           Len(ev) = IF d.timedop THEN 1 ELSE 0, disk_update(d, ev),
           doom_counter' \in 0 .. Doom, power' = "on",
           meddled' \in BOOLEAN, turn' \in {0, 1},
           Doom > 0 => /\ writes + Pending(d.stat) + doom_counter' <= Doom
                       /\ doom_counter' > 0
    PROVE  DiskInv' /\ Outcome(d)
<1>1. Outcome(d)
  BY WorkEffect DEF disk_update, DiskInv, TypeOK
<1>2. irq' = ("COMPLETE" \in dd'.stat)
  BY DEF disk_update
<1>3. d.stat \in {READING, WRITING} => \A bits \in {{}, {"INVSECT"}, {"MEDIAERR"}} :
         FINISH(d.stat, bits) \in Status /\ FINISH(d.stat, bits) # WRITING
  BY FinishStatus
<1>4. media' \in [Sector -> Data] /\ writes' \in Nat
  <2>1. d.buf \in Data /\ media \in [Sector -> Data] /\ writes \in Nat
    BY DEF DD, DiskInv, TypeOK
  <2>2. CASE Quiet(d)
    BY <2>1, <2>2 DEF Quiet
  <2>3. CASE Completion(d)
    BY <2>1, <2>3, DiskAssumption DEF Completion
  <2> QED
    BY <1>1, <2>2, <2>3 DEF Outcome
<1>5. TypeOK'
  BY <1>1, <1>2, <1>4 DEF Outcome, TypeOK, DD, EventSet
<1>6. OneEvent' /\ IrqShowsCompletion'
  BY <1>1, <1>2 DEF Outcome, OneEvent, IrqShowsCompletion
<1>7. DoomInv'
  <2> SUFFICES ASSUME Doom > 0
               PROVE  writes' + Pending(dd'.stat) + doom_counter' <= Doom
    BY <1>4, DiskAssumption DEF DoomInv, Pending
  <2>1. writes \in Nat /\ doom_counter' \in Nat /\ Doom \in Nat
    BY DiskAssumption DEF DiskInv, TypeOK
  <2>2. CASE Quiet(d)
    BY <2>2 DEF Quiet
  <2>3. CASE d.stat \in {READING, WRITING} /\ Completion(d)
    <3>1. Pending(dd'.stat) = 0
      BY <1>3, <2>3 DEF Completion, Pending
    <3>2. writes' <= writes + Pending(d.stat)
      <4>1. CASE d.stat = WRITING
        BY <2>1, <2>3, <4>1 DEF Completion, Pending, READING, WRITING
      <4>2. CASE d.stat # WRITING
        BY <2>1, <2>3, <4>2 DEF Completion, Pending
      <4> QED
        BY <4>1, <4>2
    <3>3. Pending(d.stat) \in Nat
      BY DEF Pending
    <3>4. PICK p \in Nat : p = Pending(d.stat)
      BY <3>3
    <3>5. writes + p + doom_counter' <= Doom /\ writes' <= writes + p
      BY <3>2, <3>4
    <3>6. writes' + 0 + doom_counter' <= Doom
      BY <1>4, <2>1, <3>5, Budget
    <3> QED
      BY <3>1, <3>6
  <2> QED
    BY <1>1, <2>2, <2>3 DEF Outcome
<1> QED
  BY <1>1, <1>5, <1>6, <1>7 DEF DiskInv

(* Taking the one queued event out leaves none.                            *)
LEMMA RestEmpty ==
    ASSUME DiskInv, NEW i \in 1 .. Len(events)
    PROVE  Rest(i) = <<>> /\ Rest(i) \in Seq(EventSet) /\ Len(Rest(i)) = 0
<1>1. i = 1 /\ Len(events) = 1
  BY DEF DiskInv, OneEvent
<1>2. SubSeq(events, 1, 0) = <<>> /\ SubSeq(events, 2, 1) = <<>>
  BY SubSeqEmpty
<1> QED
  BY <1>1, <1>2 DEF Rest

(***************************************************************************)
(* Each action keeps the invariant and is a step, or a stutter, of         *)
(* DiskStore.                                                              *)
(***************************************************************************)
LEMMA CompletionRefines ==
    ASSUME NEW d \in DD, d.stat \in {READING, WRITING}, Completion(d),
           d.sect = dd.sect, d.buf = dd.buf,
           irq' = ("COMPLETE" \in dd'.stat)
    PROVE  Store!Complete(d.stat)
<1>1. \A bits \in {{}, {"INVSECT"}, {"MEDIAERR"}} :
        /\ "COMPLETE" \in FINISH(d.stat, bits)
        /\ FINISH(d.stat, bits) = (d.stat \ {"INPROGRESS"}) \cup {"COMPLETE"} \cup bits
  BY FinishStatus DEF FINISH
<1>2. irq' = TRUE
  BY <1>1 DEF Completion
<1>3. Store!Sectors = Sector
  BY DEF Store!Sectors, Sector
<1>4. CASE d.sect \notin Sector
  <2>1. /\ dd'.stat = (d.stat \ {"INPROGRESS"}) \cup {"COMPLETE", "INVSECT"}
        /\ dd'.buf = dd.buf /\ media' = media
    BY <1>1, <1>4 DEF Completion
  <2> QED
    BY <1>2, <1>3, <1>4, <2>1 DEF Store!Complete
<1>5. CASE d.sect \in Sector /\ d.stat = WRITING
  <2>1. "ISWRITE" \in d.stat /\ READING # WRITING
    BY <1>5 DEF WRITING, READING
  <2>2. dd'.buf = dd.buf
    BY <1>5, <2>1 DEF Completion
  <2>3. CASE dd'.stat = FINISH(d.stat, {}) /\ media' = [media EXCEPT ![d.sect] = d.buf]
    <3>1. dd'.stat = (d.stat \ {"INPROGRESS"}) \cup {"COMPLETE"}
      BY <1>1, <2>3
    <3> QED
      BY <1>2, <1>3, <1>5, <2>1, <2>2, <2>3, <3>1 DEF Store!Complete
  <2>4. CASE /\ dd'.stat = FINISH(d.stat, {"MEDIAERR"})
             /\ \E x \in Data : media' = [media EXCEPT ![d.sect] = x]
    <3>1. dd'.stat = (d.stat \ {"INPROGRESS"}) \cup {"COMPLETE", "MEDIAERR"}
      BY <1>1, <2>4
    <3> QED
      BY <1>2, <1>3, <1>5, <2>1, <2>2, <2>4, <3>1 DEF Store!Complete
  <2> QED
    BY <1>5, <2>1, <2>3, <2>4 DEF Completion
<1>6. CASE d.sect \in Sector /\ d.stat = READING
  <2>1. "ISWRITE" \notin d.stat /\ READING # WRITING
    BY <1>6 DEF WRITING, READING
  <2>2. media' = media
    BY <1>6, <2>1 DEF Completion
  <2>3. CASE dd'.stat = FINISH(d.stat, {}) /\ dd'.buf = media[d.sect]
    <3>1. dd'.stat = (d.stat \ {"INPROGRESS"}) \cup {"COMPLETE"}
      BY <1>1, <2>3
    <3> QED
      BY <1>2, <1>3, <1>6, <2>1, <2>2, <2>3, <3>1 DEF Store!Complete
  <2>4. CASE dd'.stat = FINISH(d.stat, {"MEDIAERR"}) /\ dd'.buf \in Data
    <3>1. dd'.stat = (d.stat \ {"INPROGRESS"}) \cup {"COMPLETE", "MEDIAERR"}
      BY <1>1, <2>4
    <3> QED
      BY <1>2, <1>3, <1>6, <2>1, <2>2, <2>4, <3>1 DEF Store!Complete
  <2> QED
    BY <1>6, <2>1, <2>3, <2>4 DEF Completion
<1> QED
  BY <1>4, <1>5, <1>6

LEMMA SetIdleStep ==
    ASSUME DiskInv, SetIdle
    PROVE  DiskInv' /\ Store!Idle
<1> DEFINE d == [dd EXCEPT !.stat = IDLE, !.iostatus = -1]
<1>1. /\ d \in DD /\ d.stat = IDLE /\ d.sect = dd.sect /\ d.buf = dd.buf
      /\ d.timedop = dd.timedop
  <2>1. IDLE \in Status /\ -1 \in -1 .. 3 /\ dd \in DD
    BY DEF Status, DiskInv, TypeOK, DD
  <2> QED
    BY <2>1 DEF DD
<1>2. events \in Seq(EventSet) /\ Len(events) = IF d.timedop THEN 1 ELSE 0
  BY <1>1 DEF DiskInv, TypeOK, OneEvent, EventSet
<1>3. disk_update(d, events) /\ power' = power /\ power = "on" /\ turn' = 1 - turn
      /\ doom_counter' = doom_counter /\ meddled' = meddled
  BY DEF SetIdle, Running
<1>4. Pending(d.stat) = 0
  BY <1>1 DEF Pending, IDLE, WRITING
<1>5. Doom > 0 => writes + Pending(d.stat) + doom_counter' <= Doom /\ doom_counter' > 0
  BY <1>3, <1>4, DiskAssumption DEF DiskInv, DoomInv, TypeOK, Pending
<1>6. turn' \in {0, 1} /\ meddled' \in BOOLEAN /\ doom_counter' \in 0 .. Doom
  BY <1>3 DEF DiskInv, TypeOK
<1> HIDE DEF d
<1>7. DiskInv' /\ Outcome(d)
  BY <1>1, <1>2, <1>3, <1>5, <1>6, UpdateKeeps
<1>8. Quiet(d) /\ dd'.stat = {} /\ irq' = FALSE
  <2>1. IDLE \notin {READING, WRITING} /\ IDLE = {}
    BY DEF IDLE, READING, WRITING
  <2>2. Quiet(d) /\ dd'.stat = {}
    BY <1>1, <1>7, <2>1 DEF Outcome, Quiet
  <2>3. irq' \in BOOLEAN /\ ~irq'
    BY <1>7, <2>2 DEF DiskInv, TypeOK, IrqShowsCompletion
  <2> QED
    BY <2>2, <2>3
<1> QED
  BY <1>1, <1>3, <1>7, <1>8 DEF Store!Idle, Quiet, Outcome

(* Starting an operation, once the doom count has been settled.            *)
LEMMA StartStep ==
    ASSUME DiskInv, NEW op \in {READING, WRITING}, power = "on", power' = "on",
           disk_update([dd EXCEPT !.stat = op, !.iostatus = 0], events),
           meddled' = FALSE, turn' = 1 - turn, doom_counter' \in 0 .. Doom,
           Doom > 0 => /\ writes + Pending(op) + doom_counter' <= Doom
                       /\ doom_counter' > 0
    PROVE  DiskInv' /\ Store!Start(op)
<1> DEFINE d == [dd EXCEPT !.stat = op, !.iostatus = 0]
<1>1. /\ d \in DD /\ d.stat = op /\ d.sect = dd.sect /\ d.buf = dd.buf
      /\ d.timedop = dd.timedop
  <2>1. op \in Status /\ 0 \in -1 .. 3 /\ dd \in DD
    BY DEF Status, DiskInv, TypeOK, DD
  <2> QED
    BY <2>1 DEF DD
<1>2. events \in Seq(EventSet) /\ Len(events) = IF d.timedop THEN 1 ELSE 0
  BY <1>1 DEF DiskInv, TypeOK, OneEvent, EventSet
<1>3. disk_update(d, events)
  OBVIOUS
<1>4. turn' \in {0, 1}
  BY DEF DiskInv, TypeOK
<1>5. meddled' \in BOOLEAN
  BY Zenon
<1> HIDE DEF d
<1>7. DiskInv' /\ Outcome(d)
  BY <1>1, <1>2, <1>3, <1>4, <1>5, UpdateKeeps
<1>8. irq' = ("COMPLETE" \in dd'.stat)
  BY <1>3 DEF disk_update
<1>9. CASE Quiet(d)
  <2>1. op \in Status /\ "COMPLETE" \notin op
    BY DEF READING, WRITING, Status
  <2>2. irq' \in BOOLEAN /\ ~irq'
    BY <1>1, <1>7, <1>9, <2>1 DEF Quiet, DiskInv, TypeOK, IrqShowsCompletion
  <2> QED
    BY <1>1, <1>7, <1>9, <2>2 DEF Store!Start, Quiet, Outcome
<1>10. CASE Completion(d)
  BY <1>1, <1>7, <1>8, <1>10, CompletionRefines DEF Store!Start, Outcome
<1> QED
  BY <1>7, <1>9, <1>10 DEF Outcome

LEMMA StartWriteStep ==
    ASSUME DiskInv, StartWrite
    PROVE  DiskInv' /\ (Store!Start(WRITING) \/ UNCHANGED Store!svars)
<1>1. power = "on" /\ doom_counter \in 0 .. Doom /\ writes \in Nat /\ Doom \in Nat
  BY DiskAssumption DEF StartWrite, Running, DiskInv, TypeOK
<1>2. Doom > 0 => /\ writes + Pending(dd.stat) + doom_counter <= Doom
                  /\ doom_counter > 0 /\ writes < Doom
  BY <1>1 DEF DiskInv, DoomInv
<1>3. Pending(dd.stat) \in {0, 1} /\ Pending(WRITING) = 1
  BY DEF Pending
<1>4. CASE doom_counter = 1
  <2>1. /\ doom_counter' = 0 /\ power' = "dead"
        /\ UNCHANGED <<dd, media, events, irq, meddled, forced, writes, turn>>
    BY <1>4 DEF StartWrite
  <2>2. Doom > 0 /\ writes + Pending(dd.stat) + 0 <= Doom
    BY <1>1, <1>2, <1>3, <1>4
  <2>3. DoomInv'
    BY <1>2, <2>1, <2>2 DEF DoomInv, Pending
  <2>4. TypeOK' /\ OneEvent' /\ IrqShowsCompletion'
    BY <2>1, <1>1 DEF DiskInv, TypeOK, OneEvent, IrqShowsCompletion
  <2> QED
    BY <2>1, <2>3, <2>4 DEF DiskInv, Store!svars
<1>5. CASE doom_counter # 1
  <2>1. /\ doom_counter' = IF doom_counter > 0 THEN doom_counter - 1 ELSE 0
        /\ meddled' = FALSE /\ turn' = 1 - turn /\ power' = power
        /\ disk_update([dd EXCEPT !.stat = WRITING, !.iostatus = 0], events)
    BY <1>5 DEF StartWrite
  <2>2. doom_counter' \in 0 .. Doom
    BY <1>1, <2>1
  <2>3. ASSUME Doom > 0
        PROVE  writes + Pending(WRITING) + doom_counter' <= Doom /\ doom_counter' > 0
    <3>1. doom_counter' = doom_counter - 1 /\ doom_counter > 1
      BY <1>1, <1>2, <1>5, <2>1, <2>3
    <3>2. writes + 0 + doom_counter <= Doom \/ writes + 1 + doom_counter <= Doom
      BY <1>2, <1>3, <2>3
    <3> QED
      BY <1>1, <1>3, <3>1, <3>2
  <2> QED
    BY <1>1, <2>1, <2>2, <2>3, StartStep
<1> QED
  BY <1>4, <1>5

LEMMA StartReadStep ==
    ASSUME DiskInv, StartRead
    PROVE  DiskInv' /\ Store!Start(READING)
<1>1. /\ power = "on" /\ power' = power /\ doom_counter' = doom_counter
      /\ meddled' = FALSE /\ turn' = 1 - turn
      /\ disk_update([dd EXCEPT !.stat = READING, !.iostatus = 0], events)
  BY DEF StartRead, Running
<1>2. doom_counter' \in 0 .. Doom /\ writes \in Nat /\ Doom \in Nat
  BY <1>1, DiskAssumption DEF DiskInv, TypeOK
<1>3. ASSUME Doom > 0
      PROVE  writes + Pending(READING) + doom_counter' <= Doom /\ doom_counter' > 0
  <2>1. Pending(READING) = 0 /\ Pending(dd.stat) \in {0, 1}
    BY DEF Pending, READING, WRITING
  <2>2. writes + Pending(dd.stat) + doom_counter <= Doom /\ doom_counter > 0
    BY <1>1, <1>3 DEF DiskInv, DoomInv
  <2>3. writes + 0 + doom_counter <= Doom
    BY <1>1, <1>2, <2>1, <2>2
  <2> QED
    BY <1>1, <2>1, <2>2, <2>3
<1> QED
  BY <1>1, <1>2, <1>3, StartStep

(* A timed event: the operation in progress may complete, no other effect  *)
(* is visible - whichever operation scheduled the event.                   *)
LEMMA EventStep ==
    ASSUME DiskInv, disk_seekdone \/ disk_waitdone
    PROVE  DiskInv' /\ (Store!Finish \/ UNCHANGED Store!svars)
<1>1. power = "on" /\ UNCHANGED <<doom_counter, power, meddled, turn>>
  BY DEF disk_seekdone, disk_waitdone, Running
<1>2. dd \in DD /\ events \in Seq(EventSet)
  BY DEF DiskInv, TypeOK, DD, EventSet
<1>3. PICK d : /\ d \in DD /\ d.stat = dd.stat /\ d.sect = dd.sect /\ d.buf = dd.buf
               /\ d.timedop = FALSE
               /\ disk_update(d, <<>>)
  <2>1. CASE disk_seekdone
    <3>1. PICK i \in 1 .. Len(events) :
            /\ events[i].func = "seekdone"
            /\ disk_update([dd EXCEPT !.current_track = events[i].arg,
                                      !.timedop = FALSE], Rest(i))
      BY <2>1 DEF disk_seekdone
    <3>2. events[i] \in EventSet
      BY <1>2
    <3>3. events[i].arg \in Track
      BY <3>1, <3>2 DEF EventSet
    <3> DEFINE d == [dd EXCEPT !.current_track = events[i].arg, !.timedop = FALSE]
    <3>4. /\ d \in DD /\ d.stat = dd.stat /\ d.sect = dd.sect /\ d.buf = dd.buf
          /\ d.timedop = FALSE
      BY <1>2, <3>3 DEF DD
    <3>5. disk_update(d, <<>>)
      BY <3>1, RestEmpty
    <3> QED
      BY <3>4, <3>5
  <2>2. CASE disk_waitdone
    <3>1. PICK i \in 1 .. Len(events) :
            /\ events[i].func = "waitdone"
            /\ disk_update([dd EXCEPT !.iostatus = events[i].arg,
                                      !.timedop = FALSE], Rest(i))
      BY <2>2 DEF disk_waitdone
    <3>2. events[i] \in EventSet
      BY <1>2
    <3>3. events[i].arg \in -1 .. 3
      BY <3>1, <3>2 DEF EventSet
    <3> DEFINE d == [dd EXCEPT !.iostatus = events[i].arg, !.timedop = FALSE]
    <3>4. /\ d \in DD /\ d.stat = dd.stat /\ d.sect = dd.sect /\ d.buf = dd.buf
          /\ d.timedop = FALSE
      BY <1>2, <3>3 DEF DD
    <3>5. disk_update(d, <<>>)
      BY <3>1, RestEmpty
    <3> QED
      BY <3>4, <3>5
  <2> QED
    BY <2>1, <2>2
<1>4. /\ doom_counter' \in 0 .. Doom /\ meddled' \in BOOLEAN /\ turn' \in {0, 1}
      /\ Doom > 0 => writes + Pending(d.stat) + doom_counter' <= Doom /\ doom_counter' > 0
  BY <1>1, <1>3 DEF DiskInv, TypeOK, DoomInv
<1>5. DiskInv' /\ Outcome(d)
  <2>1. PICK ev \in Seq(EventSet) : ev = <<>>
    BY EmptySeq
  <2>2. disk_update(d, ev) /\ Len(ev) = IF d.timedop THEN 1 ELSE 0
    BY <1>3, <2>1
  <2>3. power' = "on"
    BY <1>1
  <2> QED
    BY <1>3, <1>4, <2>2, <2>3, UpdateKeeps
<1>6. irq' = ("COMPLETE" \in dd'.stat)
  BY <1>3 DEF disk_update
<1>7. CASE Quiet(d)
  <2>1. irq' \in BOOLEAN /\ irq \in BOOLEAN /\ (irq' <=> irq)
    BY <1>3, <1>5, <1>7 DEF DiskInv, TypeOK, IrqShowsCompletion, Quiet
  <2>2. UNCHANGED <<dd.stat, dd.sect, dd.buf, media, turn>>
    BY <1>1, <1>3, <1>5, <1>7 DEF Quiet, Outcome
  <2>3. irq' = irq
    BY <2>1
  <2> QED
    BY <1>5, <2>2, <2>3 DEF Store!svars
<1>8. CASE d.stat \in {READING, WRITING} /\ Completion(d)
  <2>1. Store!Complete(dd.stat)
    BY <1>3, <1>6, <1>8, CompletionRefines
  <2>2. dd.stat \in Store!Op
    BY <1>3, <1>8 DEF Store!Op, READING, WRITING
  <2>3. UNCHANGED <<dd.sect, turn>>
    BY <1>1, <1>3, <1>5 DEF Outcome
  <2> QED
    BY <1>5, <2>1, <2>2, <2>3 DEF Store!Finish
<1> QED
  BY <1>5, <1>7, <1>8 DEF Outcome

LEMMA NextDisk ==
    ASSUME DiskInv, [Next]_vars
    PROVE  DiskInv' /\ [Store!SNext]_(Store!svars)
<1> USE DEF Store!SNext
<1>1. CASE SetIdle
  BY <1>1, SetIdleStep
<1>2. CASE StartRead
  BY <1>2, StartReadStep DEF Store!Op, READING
<1>3. CASE StartWrite
  BY <1>3, StartWriteStep DEF Store!Op, WRITING
<1>4. CASE BadStatus \/ Resume
  <2>1. /\ UNCHANGED <<dd, media, events, irq, doom_counter, meddled, forced, writes, turn>>
        /\ power' \in {"on", "hung"} /\ power # "dead"
    BY <1>4 DEF BadStatus, Resume, Running
  <2>2. DiskInv'
    BY <2>1 DEF DiskInv, TypeOK, OneEvent, IrqShowsCompletion, DoomInv, Pending
  <2> QED
    BY <2>1, <2>2 DEF Store!svars
<1>5. CASE StoreSect
  <2>1. PICK s \in 0 .. dd_totsectors : dd' = [dd EXCEPT !.sect = s]
    BY <1>5 DEF StoreSect
  <2>2. /\ UNCHANGED <<media, events, irq, doom_counter, power, forced, writes, turn>>
        /\ meddled' \in BOOLEAN
    BY <1>5 DEF StoreSect, DiskInv, TypeOK
  <2>3. /\ dd' \in DD /\ dd'.sect = s /\ dd'.stat = dd.stat /\ dd'.buf = dd.buf
        /\ dd'.timedop = dd.timedop
    BY <2>1 DEF DiskInv, TypeOK, DD
  <2>4. DiskInv'
    BY <2>2, <2>3 DEF DiskInv, TypeOK, DD, OneEvent, IrqShowsCompletion, DoomInv, Pending
  <2> QED
    BY <2>2, <2>3, <2>4 DEF Store!SetSect
<1>6. CASE StoreBuf
  <2>1. PICK x \in Data : dd' = [dd EXCEPT !.buf = x]
    BY <1>6 DEF StoreBuf
  <2>2. UNCHANGED <<media, events, irq, doom_counter, power, meddled, forced, writes, turn>>
    BY <1>6 DEF StoreBuf
  <2>3. /\ dd' \in DD /\ dd'.sect = dd.sect /\ dd'.stat = dd.stat /\ dd'.buf = x
        /\ dd'.timedop = dd.timedop
    BY <2>1 DEF DiskInv, TypeOK, DD
  <2>4. DiskInv'
    BY <2>2, <2>3 DEF DiskInv, TypeOK, DD, OneEvent, IrqShowsCompletion, DoomInv, Pending
  <2> QED
    BY <2>2, <2>3, <2>4 DEF Store!SetBuf
<1>7. CASE disk_seekdone \/ disk_waitdone
  BY <1>7, EventStep
<1>8. CASE UNCHANGED vars
  BY <1>8 DEF vars, DiskInv, TypeOK, OneEvent, IrqShowsCompletion, DoomInv, Pending,
              Store!svars
<1> QED
  BY <1>1, <1>2, <1>3, <1>4, <1>5, <1>6, <1>7, <1>8 DEF Next

(* dev_disk.c keeps its device state well formed, its one event accounted  *)
(* for, its interrupt line in step with the status register and its doom   *)
(* count exact.                                                            *)
THEOREM DiskInvariant == Spec => []DiskInv
<1>1. DiskInv /\ [Next]_vars => DiskInv'
  BY NextDisk
<1> QED
  BY <1>1, InitDisk, PTL DEF Spec

(* The registers, the event count and the doom counter of dev_disk.c keep  *)
(* their types, for every geometry and every -D.                           *)
THEOREM DiskTypeCorrect == Spec => []TypeOK
<1>1. DiskInv => TypeOK
  BY DEF DiskInv
<1> QED
  BY <1>1, DiskInvariant, PTL

(* disk_work(): however often the kernel aborts and restarts, at most one  *)
(* event of the device is in the clock's queue, and dd_timedop says so.    *)
THEOREM AtMostOneEvent == Spec => []OneEvent
<1>1. DiskInv => OneEvent
  BY DEF DiskInv
<1> QED
  BY <1>1, DiskInvariant, PTL

(* doom_tick(): with -D n fewer than n writes ever reach the image.        *)
THEOREM DoomIsExact == Spec => []DoomHalts
<1>1. DiskInv => DoomHalts
  BY DEF DiskInv, DoomInv, DoomHalts
<1> QED
  BY <1>1, DiskInvariant, PTL

(* dev_disk.c implements DiskStore for every geometry: late events of      *)
(* aborted operations are invisible, and the medium changes only when a    *)
(* write completes.                                                        *)
THEOREM DiskImplementsStore == Spec => ImplementsStore
<1>1. Init => Store!SInit
  <2> SUFFICES ASSUME Init PROVE Store!SInit
    OBVIOUS
  <2>1. dd.stat \in {IDLE} /\ dd.sect \in {0} /\ dd.buf \in Data
    BY DEF Init
  <2> QED
    BY <2>1 DEF Init, Store!SInit, Store!Sectors, Sector, IDLE
<1>2. DiskInv /\ [Next]_vars => [Store!SNext]_(Store!svars)
  BY NextDisk
<1> QED
  BY <1>1, <1>2, DiskInvariant, PTL DEF Spec, Store!SSpec, ImplementsStore
=============================================================================
