-------------------------------- MODULE Disk --------------------------------
(***************************************************************************)
(* The fixed disk, sys161/bus/dev_disk.c.                                  *)
(*                                                                         *)
(* An operation started through the status register is carried out in      *)
(* stages (seek, copy to the cache, rotation, copy from the cache), each a *)
(* timed event whose handler calls disk_work() to find out what is left to *)
(* do.  The kernel may meanwhile abort the operation, start another, or    *)
(* change the sector register; an event already in the queue cannot be     *)
(* taken back and is delivered to whatever operation is then current.      *)
(* Times are abstracted away: an event may be dispatched any time later    *)
(* (Clock is about when).                                                  *)
(***************************************************************************)
EXTENDS Integers, Sequences

CONSTANTS
    dd_sectors,     \* sectors on each track, dd_sectors[0] is the innermost
    NUMTRACKS,
    dd_totsectors,  \* sectors of the image
    MAX_WORKTRIES,  \* after that the timing model is given up
    Data,           \* contents of a sector
    Doom            \* -D: initial doom_counter, 0 is off

Track == 0 .. NUMTRACKS - 1

ASSUME DiskAssumption ==
    /\ NUMTRACKS \in Nat \ {0} /\ dd_sectors \in [Track -> Nat \ {0}]
    /\ dd_totsectors \in Nat \ {0}
    /\ MAX_WORKTRIES \in Nat \ {0} /\ Doom \in Nat /\ Data # {}

VARIABLES
    dd,            \* struct disk_data: registers and timing state
    media,         \* the image file
    events,        \* the device's events in the clock's queue
    irq,           \* the slot's bit in IRQS
    doom_counter,
    power,         \* "on"; "hung": stopped by hang(); "dead": exited
    meddled,       \* history: the sector register was changed during this I/O
    forced,        \* history: the last disk_work() gave up the timing model
    writes,        \* history, under -D: writes that reached the image
    turn           \* history: flips at every store to the status register

vars == <<dd, media, events, irq, doom_counter, power, meddled, forced,
          writes, turn>>

Sector == 0 .. dd_totsectors - 1

IDLE    == {}
READING == {"INPROGRESS"}
WRITING == {"INPROGRESS", "ISWRITE"}

(* The values the status register can show.                                *)
Status == {IDLE, READING, WRITING} \cup
          {w \cup {"COMPLETE"} \cup e : w \in {{}, {"ISWRITE"}},
                                       e \in {{}, {"INVSECT"}, {"MEDIAERR"}}}

TypeOK ==
    /\ dd \in [stat : Status, sect : 0 .. dd_totsectors, buf : Data,
               iostatus : -1 .. 3, timedop : BOOLEAN,
               worktries : 0 .. MAX_WORKTRIES, current_track : Track]
    /\ media \in [Sector -> Data]
    /\ events \in Seq([func : {"seekdone"}, arg : Track] \cup
                      [func : {"waitdone"}, arg : 1 .. 3])
    /\ irq \in BOOLEAN /\ doom_counter \in 0 .. Doom
    /\ power \in {"on", "hung", "dead"}
    /\ meddled \in BOOLEAN /\ forced \in BOOLEAN /\ writes \in Nat /\ turn \in {0, 1}

Init ==
    /\ dd \in [stat : {IDLE}, sect : {0}, buf : Data, iostatus : {-1},
               timedop : {FALSE}, worktries : {0}, current_track : {0}]
    /\ media \in [Sector -> Data]
    /\ events = <<>> /\ irq = FALSE /\ doom_counter = Doom /\ power = "on"
    /\ meddled = FALSE /\ forced = FALSE /\ writes = 0 /\ turn = 0

-----------------------------------------------------------------------------
(***************************************************************************)
(* Geometry.  Sectors are numbered from the outermost track inwards.       *)
(***************************************************************************)
start[t \in Track] ==
    IF t = NUMTRACKS - 1 THEN 0 ELSE start[t + 1] + dd_sectors[t + 1]

(* compute_sectors() refuses a geometry that does not hold the image.      *)
ASSUME GeometryAssumption == start[0] + dd_sectors[0] >= dd_totsectors

locate_sector(s) ==
    CHOOSE t \in Track : start[t] <= s /\ s < start[t] + dd_sectors[t]

-----------------------------------------------------------------------------
(***************************************************************************)
(* disk_work() and disk_update(), on the device state d and the remaining  *)
(* events ev.                                                              *)
(***************************************************************************)
(* Mutant: an operation ends without clearing "in progress".               *)
FINISH_keep(stat, bits) == stat \cup {"COMPLETE"} \cup bits

FINISH(stat, bits) == (stat \ {"INPROGRESS"}) \cup {"COMPLETE"} \cup bits

(* The transfer itself, and the end of the operation.  A failing host      *)
(* read or write may have moved part of the data.                          *)
forceio(d) ==
    LET done(bits) == [d EXCEPT !.stat = FINISH(@, bits), !.worktries = 0]
    IN  IF "ISWRITE" \in d.stat
          THEN /\ writes' = IF Doom = 0 THEN 0 ELSE writes + 1
               /\ \/ dd' = done({}) /\ media' = [media EXCEPT ![d.sect] = d.buf]
                  \/ /\ dd' = done({"MEDIAERR"})
                     /\ \E x \in Data : media' = [media EXCEPT ![d.sect] = x]
          ELSE /\ UNCHANGED <<media, writes>>
               /\ \/ dd' = [done({}) EXCEPT !.buf = media[d.sect]]
                  \/ \E x \in Data : dd' = [done({"MEDIAERR"}) EXCEPT !.buf = x]

(* Wait for a timed event.                                                 *)
schedule(d, ev, func, arg) ==
    /\ dd' = [d EXCEPT !.timedop = TRUE]
    /\ events' = Append(ev, [func |-> func, arg |-> arg])
    /\ forced' = FALSE /\ UNCHANGED <<media, writes>>

(* The stages of an operation whose sector is valid.  A write always waits *)
(* for the rotation; a read finds a sector that has already passed under   *)
(* the head in the track buffer.                                           *)
Stages(d, ev) ==
    LET cyl     == locate_sector(d.sect)
        iswrite == "ISWRITE" \in d.stat
    IN  CASE d.current_track # cyl -> schedule(d, ev, "seekdone", cyl)
          [] d.current_track = cyl /\ iswrite /\ d.iostatus < 1 ->
                schedule(d, ev, "waitdone", 1)
          [] d.current_track = cyl /\ iswrite /\ d.iostatus = 1 ->
                schedule(d, ev, "waitdone", 2)
          [] d.current_track = cyl /\ ~iswrite /\ d.iostatus < 2 ->
                \/ schedule(d, ev, "waitdone", 2)
                \/ schedule([d EXCEPT !.iostatus = 2], ev, "waitdone", 3)
          [] d.current_track = cyl /\ ~iswrite /\ d.iostatus = 2 ->
                schedule(d, ev, "waitdone", 3)
          [] OTHER -> forceio(d) /\ events' = ev /\ forced' = FALSE

(* An operation is in progress and nothing is being waited for.            *)
Proceed(d, ev) ==
    CASE d.sect >= dd_totsectors ->
           /\ dd' = [d EXCEPT !.stat = FINISH(@, {"INVSECT"}), !.worktries = 0]
           /\ events' = ev /\ forced' = FALSE /\ UNCHANGED <<media, writes>>
      [] d.sect < dd_totsectors /\ d.worktries >= MAX_WORKTRIES ->
           /\ forceio([d EXCEPT !.current_track = 0, !.iostatus = -1])
           /\ events' = ev /\ forced' = TRUE
      [] OTHER -> Stages([d EXCEPT !.worktries = @ + 1], ev)

(* Mutants: an operation goes ahead although an event is pending; although *)
(* it was aborted.                                                         *)
disk_work_nobusy(d, ev) ==
    \/ /\ "INPROGRESS" \notin d.stat
       /\ dd' = d /\ events' = ev /\ forced' = FALSE /\ UNCHANGED <<media, writes>>
    \/ /\ "INPROGRESS" \in d.stat
       /\ Proceed(d, ev)

disk_work_aborted(d, ev) ==
    \/ /\ d.timedop
       /\ dd' = d /\ events' = ev /\ forced' = FALSE /\ UNCHANGED <<media, writes>>
    \/ /\ ~d.timedop
       /\ Proceed(d, ev)

disk_work(d, ev) ==
    \/ /\ d.timedop \/ "INPROGRESS" \notin d.stat
       /\ dd' = d /\ events' = ev /\ forced' = FALSE /\ UNCHANGED <<media, writes>>
    \/ /\ ~d.timedop /\ "INPROGRESS" \in d.stat
       /\ Proceed(d, ev)

disk_update(d, ev) ==
    /\ disk_work(d, ev)
    /\ irq' = ("COMPLETE" \in dd'.stat)

-----------------------------------------------------------------------------
(***************************************************************************)
(* Register accesses of the kernel.                                        *)
(***************************************************************************)
Running == power = "on"

(* disk_setstatus for IDLE and READING.                                    *)
SetIdle ==
    /\ Running /\ turn' = 1 - turn
    /\ disk_update([dd EXCEPT !.stat = IDLE, !.iostatus = -1], events)
    /\ UNCHANGED <<doom_counter, power, meddled>>

StartRead ==
    /\ Running /\ turn' = 1 - turn
    /\ meddled' = FALSE
    /\ disk_update([dd EXCEPT !.stat = READING, !.iostatus = 0], events)
    /\ UNCHANGED <<doom_counter, power>>

(* Mutant: the counter is tested before it is decremented.                 *)
StartWrite_late ==
    /\ Running
    /\ doom_counter' = IF doom_counter > 0 THEN doom_counter - 1 ELSE 0
    /\ IF doom_counter = 0 /\ Doom # 0
         THEN /\ power' = "dead"
              /\ UNCHANGED <<dd, media, events, irq, meddled, forced, writes, turn>>
         ELSE /\ meddled' = FALSE /\ turn' = 1 - turn
              /\ disk_update([dd EXCEPT !.stat = WRITING, !.iostatus = 0], events)
              /\ UNCHANGED power

(* Starting a write ticks the doom counter; on its last tick the simulator *)
(* exits before anything else happens.                                     *)
StartWrite ==
    /\ Running
    /\ doom_counter' = IF doom_counter > 0 THEN doom_counter - 1 ELSE 0
    /\ IF doom_counter = 1
         THEN /\ power' = "dead"
              /\ UNCHANGED <<dd, media, events, irq, meddled, forced, writes, turn>>
         ELSE /\ meddled' = FALSE /\ turn' = 1 - turn
              /\ disk_update([dd EXCEPT !.stat = WRITING, !.iostatus = 0], events)
              /\ UNCHANGED power

(* Any other value hangs the machine; the debugger can let it go on.       *)
BadStatus ==
    /\ Running /\ power' = "hung"
    /\ UNCHANGED <<dd, media, events, irq, doom_counter, meddled, forced, writes, turn>>

Resume ==
    /\ power = "hung" /\ power' = "on"
    /\ UNCHANGED <<dd, media, events, irq, doom_counter, meddled, forced, writes, turn>>

StoreSect ==
    /\ Running
    /\ \E s \in 0 .. dd_totsectors : dd' = [dd EXCEPT !.sect = s]
    /\ meddled' = (meddled \/ "INPROGRESS" \in dd.stat)
    /\ UNCHANGED <<media, events, irq, doom_counter, power, forced, writes, turn>>

StoreBuf ==
    /\ Running
    /\ \E x \in Data : dd' = [dd EXCEPT !.buf = x]
    /\ UNCHANGED <<media, events, irq, doom_counter, power, meddled, forced,
                   writes, turn>>

(***************************************************************************)
(* Timed events.                                                           *)
(***************************************************************************)
Rest(i) == SubSeq(events, 1, i - 1) \o SubSeq(events, i + 1, Len(events))

(* Mutant: every seek starts the count of tries afresh.                    *)
disk_seekdone_retry ==
    /\ Running
    /\ \E i \in 1 .. Len(events) :
         /\ events[i].func = "seekdone"
         /\ disk_update([dd EXCEPT !.current_track = events[i].arg,
                                   !.worktries = 0, !.timedop = FALSE], Rest(i))
    /\ UNCHANGED <<doom_counter, power, meddled, turn>>


disk_seekdone ==
    /\ Running
    /\ \E i \in 1 .. Len(events) :
         /\ events[i].func = "seekdone"
         /\ disk_update([dd EXCEPT !.current_track = events[i].arg,
                                   !.timedop = FALSE], Rest(i))
    /\ UNCHANGED <<doom_counter, power, meddled, turn>>

disk_waitdone ==
    /\ Running
    /\ \E i \in 1 .. Len(events) :
         /\ events[i].func = "waitdone"
         /\ disk_update([dd EXCEPT !.iostatus = events[i].arg,
                                   !.timedop = FALSE], Rest(i))
    /\ UNCHANGED <<doom_counter, power, meddled, turn>>

Next == \/ SetIdle \/ StartRead \/ StartWrite \/ BadStatus \/ Resume
        \/ StoreSect \/ StoreBuf
        \/ disk_seekdone \/ disk_waitdone

Spec == Init /\ [][Next]_vars

(* A queued event is eventually dispatched (Clock!Dispatched).             *)
FairSpec == Spec /\ WF_vars(disk_seekdone \/ disk_waitdone)

-----------------------------------------------------------------------------
(***************************************************************************)
(* Properties.                                                             *)
(***************************************************************************)
Store == INSTANCE DiskStore
           WITH NSECT <- dd_totsectors, stat <- dd.stat, sect <- dd.sect,
                buf <- dd.buf

(* Whatever the kernel does with the registers, and whichever operation a  *)
(* late event of an aborted one lands in, the registers, the medium and    *)
(* the interrupt behave like DiskStore: a sector changes only when a write *)
(* completes, an aborted write never reaches the medium, and the interrupt *)
(* is raised exactly while a completion is reported (disk_update).         *)
ImplementsStore == Store!SSpec

(* dd_timedop says exactly whether an event is in the queue, and there is  *)
(* never a second one: aborting and restarting cannot pile events up in    *)
(* the clock's pool (disk_work, "Something's presently happening").        *)
OneEvent == Len(events) = IF dd.timedop THEN 1 ELSE 0

(* An operation in progress ends, even if the kernel keeps moving the      *)
(* sector register so that the head is never where it should be: the limit *)
(* MAX_WORKTRIES forces the I/O.  (Provided the machine is not left hung.) *)
Completes ==
    <>[](power = "on") =>
        ("INPROGRESS" \in dd.stat ~> "INPROGRESS" \notin dd.stat)

(* With -D n fewer than n writes reach the disks: the machine halts at the *)
(* n-th one, before it is carried out (doom_tick).                         *)
DoomHalts == Doom > 0 => writes < Doom

(* dev_disk.c counts in dd_worktries the "times dd_work called during this *)
(* I/O", to detect that "the timing code has lost its marbles".  So an     *)
(* operation whose sector register is left alone never trips it.           *)
NoFalseFault == forced => meddled
=============================================================================
