# A TLA+ model of System/161

System/161 simulates a small multiprocessor MIPS or RISC-V machine: a LAMEbus
main board, a few devices, and a gdb interface. This directory holds TLA+ modules for the
parts of it where order matters, TLC configurations that check them on small
instances, and TLAPS proofs for instances of any size.

The simulator is one host thread. Nothing in it runs in parallel, and yet
nearly all that can go wrong is concurrency: CPUs take turns inside a cycle,
events fire between runs, input handlers run inside `select()`, gdb
single-steps the machine from inside such a handler, and an event that a device
has queued cannot be taken back when the kernel changes its mind.

## Inventory

| Component | State | Operations | Interacts with |
|---|---|---|---|
| LAMEbus controller (`bus/lamebus.c`) | raised slots, IRQE; per CPU: CIRQE, CIPI, cached line level, CPUE bit | raise/lower a slot, register stores, power-off event | devices call `raise_irq`; calls `cpu_set_irqs`, `schedule_event`, `main_poweroff` |
| CPU run states (`mipseb/mips.c`, `mipscore.h`) | RUNNING/IDLE/DISABLED, running mask, three interrupt pins, COMPARE timer | `cpu_cycle`, `cpu_cycles`, WAIT, enable/disable, `cpu_set_irqs` | granted runs by the main loop; loads and stores reach the devices |
| Main loop (`main/main.c`) | shut-off and stopped flags, rotor | `runloop`, `stoploop`, `onecycle` | drives the CPUs, the clock, select and gdb |
| Virtual clock (`main/clock.c`) | virtual time, sorted event queue, action pool, idle slop | `schedule_event`, `clock_getrunticks`, `clock_ticks`, `clock_waitirq` | calls device handlers; stops the CPUs when an earlier event arrives |
| Select dispatcher (`main/onsel.c`) | descriptor table, `extra_selecttime` | `tryselect` | calls input handlers, which may call anything |
| Fixed disk (`bus/dev_disk.c`) | registers, transfer buffer, head position, stage of the operation, tries, doom counter | register stores, seek and wait events | clock, bus, image file |
| Serial port (`bus/dev_serial.c`) | input ring, two half-channels | key typed, character times, register accesses | console, clock, bus |
| gdb (`gdb/gdb_be.c`, `gdb_fe.c`) | connection, packet buffer | continue, step, memory and register access | main loop |
| Timer (`bus/dev_timer.c`) | countdown, restart flag, generation | register accesses, expiry | clock, bus |
| MIPS core (`mipseb/mipscore.h`) | pc, nextpc and their cached pages, mode and interrupt stack, TLB, link, hi and lo | one action per kind of instruction, interrupt, exception | bus memory, gdb, run states |
| RISC-V core (`riscv/riscvcore.h`) | pc with its page and offset, mode, SEPC, SSTATUS, SATP, translation cache, reservation | the same | the same |
| Network card (`bus/dev_net.c`), hub (`hub161/nethub.c`) | send/receive buffers, interrupt flags; table of senders | send, receive, keepalive; forward, drop senders | local datagram sockets, clock, bus |
| Meter (`main/meter.c`) | clients | accept, receive, timed update | select dispatcher, clock |
| emufs (`bus/dev_emufs.c`) | operation in progress, handle table | open, read, write, close, ... | host file system, clock, bus |
| Console, profiler, trace, boot, tools | buffers, files | I/O | host |

What makes each of them correct, and which of it is stated here:

* interrupts: pins, masks, cached levels and the running mask agree, no wakeup
  is lost, none is spurious (`Mainboard`);
* time: events are dispatched in order, with bounded lateness, and all of them as
  long as the queue check returns (`Clock`);
* disk: the medium changes only by writes that complete (`Disk`);
* serial: input is neither lost, reordered nor stranded (`Serial`);
* timer: only the newest countdown interrupts, once and within the clock's
  jitter and lateness, and the time
  of day does not go back (`Timer`);
* network: no duplicate and no reordering, and a received packet stays until it
  is taken (`Network`);
* emufs: a file has one handle, whatever other host processes rename (`Emufs`);
* sockets: no use of freed clients, one debugger (`Sockets`); gdb: packets are
  executed whole and in order, memory writes are exact (`Gdb`);
* processors: instructions come from the page that is mapped, exceptions are
  precise, SC is atomic, user mode is confined (`Mips`, `Riscv`), and the
  arithmetic and the decoder are those of the architecture (`Arith`, `Alu`,
  `Decode`).

The hazards behind these properties are listed line by line in `PROJECT.json`.

## Modules

### Mainboard, InterruptLines, MainboardProofs

`Mainboard` models `lamebus.c` together with the run states of the CPUs and the
phases of the main loop. A mask register is a set. `phase` is the program
counter of `runloop()`: `cycle` (in `cpu_cycles`), `events` (event handlers
and, behind them, the poll of `select`), `stop` (`stoploop`), `idle`
(`clock_waitirq`), `off`. In a cycle the CPUs take their turns one after the
other; an `Insn` is one instruction together with the timer compare that
follows it in the same turn. `DeviceAccess` and `DeviceEvent` stand for any
device; what they may do to the board is raise or lower their slot. Whether
`ex_count` reaches `ex_compare` in a turn is left open. An instruction that
takes an exception, and a trapped one, is a `Compute`.

`InterruptLines` says what the board promises: a pin is a function of registers
and slots, and a CPU never sleeps under an asserted pin. It has none of the
caches. `ImplementsLines` is the refinement.

### Clock, ClockProofs

The event queue, the main loop, `tryselect` and the cycle budget. Times are
relative to `virtual_now`, so that time needs no bound: an event's `due` is the
time that is left, and advancing the clock subtracts from all of them.
`Instruction` and `Handler` stand for any device: they schedule with some delay
of `Delays` (the random one per cent of jitter is one more delay), idle or wake
the CPUs, stop the machine or power it off. `running` is `cpu_running_mask # 0`.
Of the progress watchdog only the outcome is modelled: after `clock_ticks` the
machine may have been stopped. gdb's packets are read in any `select`, that of
`runloop`, of `stoploop` and of `clock_waitirq`; a continue or a single step
(`main_leave_debugger`, `onecycle`) can come in each of them, stopped or not.
The cycle variables are reset outside a run, where they are dead. `prompt`,
`tag` and `jump` are history: `prompt` records that the loop knew of the event
when it last decided how far time may go, and `stepped` counts the cycles gdb
stepped after `clock_waitirq` had chosen to jump: the jump is not shortened by
them, so events are later by that much (`OnTime`).

### Disk, DiskStore, DiskProofs

`disk_work()` is one operator over the device's state, called by every register
store that calls it in the code and by both event handlers; `Stages` is its
ladder of early returns. Durations are abstracted: a queued event is delivered
at any later time. A host write that fails part way leaves its target, and only
that, undefined. `DiskStore` is the disk of the documentation: one
operation at a time, and a medium that changes only on completion.
`ImplementsStore` is the refinement; `turn` flips with each store to the status
register so that "the kernel wrote the register" is visible to it.

### Serial, SerialProofs

Both half-channels with the ring and the number of pending events of each
kind. A character is its number, modulo `NumChars`, in order of arrival. The
pool of timed actions is bounded by `Pool`; running out of it is `smoke()`,
which ends the simulation. FetchChar and the stores are the kernel's register
accesses.

### Timer (DeviceProofs)

`dev_timer.c` and the time of day of `clock.c`. The event queue is a set of
events with their due times; `clock_advance` moves virtual time and never past
`Late` after the first event, which is what `Clock` establishes.
`schedule_event` adds up to one per cent of the time asked, at random; the model
adds up to one part in `JITTER`, and the bound on the interrupt has that term. A
store to the countdown register queues a further event under a new generation.
`armed` is history: when the newest countdown expires. Seconds and nanoseconds
are added modulo `UINT`, so the wrap-around of `clock_setnsecs` is there.

### Emufs (DeviceProofs)

One kernel operation at a time (`emufs_do_op` refuses another), with the result
posted by the timed `emufs_done`. `emufs_open` is split where the host can
interfere: between `stat` and `open` any other process may rename, remove or
create (`HostChanges`). An object is a device and inode number. With a full
table `pickhandle` returns -1, and the store to slot -1 clobbers the registers
in front of the table; they take any value.

### Network (DeviceProofs)

Cards, each in a simulator process of its own, and the hub process. `sendto()`
on a full queue blocks the process, which the model keeps as the `sending`
packet of a card and as the position `fwd` in the hub's loop. Any process may
die and be restarted at the same address. `nd_rirq` and `nd_control` are not
initialised by `net_init`: they start with any value of `Garbage`.

### Sockets (HostProofs)

`tryselect`'s walk over the descriptor table with the handlers of meter and gdb:
a handler can add entries, remove its own and close descriptors, and the host
reuses the lowest free descriptor at once. A meter is freed by its timed update
only. An `accept()` can fail, and must when no descriptor is left; the handler
then returns and the connection stays queued. Whatever peers do (connect, send,
leave) is `ClientActs`. The table (`MAXSELS`) is large enough for all clients.

### Gdb (HostProofs)

The byte stream of one debugger, cut into reads at any place. A symbol of the
stream is `$`, `#`, a command or a check digit; a checksum is right or wrong.
`debug_exec` is split by the effect of the command. `debug_write_mem` is a
function of address and length with the memory's mapped addresses `Addrs`.

### Mips, Riscv, CoreProofs

The control half of the two cores, one processor each; other processors, devices
and the debugger are stores to memory and an interrupt line. The processor is
one record, and the C functions are operators on it: `exception`,
`precompute_pc`, `phony_exception`, `do_rfe`, `trap`, `rx_jump` and so on. An
action is one cycle: interrupt check, fetch with the page caches, one kind of
instruction, update of the pc. Addresses count instructions (MIPS) or halfwords
(RISC-V), and pages have two of them, so that page crossings, delay slots at
page ends and instructions that straddle pages are next to each other. Programs
are arbitrary, and so are TLB contents, page tables (superpages, missing pages,
a SATP that points to no memory) and the kernel's returns; the one thing a
kernel is assumed to do is said in the comments of the two lock words. History
fields are listed at `MipsInit` and `RiscvInit`: `resume` is the first
instruction that has not completed, against which EPC and SEPC are compared;
`stale` says that `mtc0` or TLBR changed mode or address space and nothing was
looked up since; `left` is the kernel page that an SRET has left in the
translation cache. TLB entries for `Mips` are in `MCMips`, page tables for
`Riscv` in `MCRiscv`.

### Arith, Alu, Decode (CoreProofs)

`Arith` has the instructions of both cores that add, multiply, divide and
compare, on words of range `2 * SIGN`; `Alu` extends it with logic, shifts,
loads, stores and byte lanes, on words of `W` bits (`SIGN = 2 ^ (W - 1)`);
`Decode` is the RISC-V decoder on sets of bits.
They are compared with reference definitions: exact integers and bit
functions, and for the decoder an assembler written from the tables of the
architecture. Where the code deviates from the architecture the model does
too, and the property names the exception (below). There are no steps: the
initial states enumerate the inputs.

### MCParts

The components above share nothing with each other, so one run checks them all:
`focus` picks one in the initial state, and only that one takes steps.

## Runs

| Run | Instance | Shows |
|---|---|---|
| `mainboard` | 2 CPUs, a device slot and slot 31 | pins, caches and running mask coherent; no lost and no spurious wakeup; refinement of `InterruptLines` |
| `power_off` | 1 CPU, fair | power-off ends the simulation |
| `clock` | 3 events, 2 ns cycles, rotor 2, runs up to 3 cycles, delays 0, 3, 7, up to 2 steps in a jump | queue order, no unsigned underflow, bounds on lateness |
| `dispatched` | 3 events, delays 0, 2, fair | every event is dispatched if the queue check always returns |
| `disk` | 2 tracks (1 and 2 sectors), 4 tries, doom 3, fair | refinement of `DiskStore`, one event at a time, operations end, doom halts in time |
| `serial` | ring of 3, pool of 3, 4 character numbers, fair | order, no stranded input, delivery, exact busy flag and interrupt |
| `parts` | one component of `MCParts` at a time | the properties of Timer, Emufs, Network, Sockets, Gdb, Mips, Riscv, Alu and Decode |
| `timer_wakeup`, `stopped_clock`, `disk_false_fault`, `fetch_in_page`, `cached_lookup` | as above | expected violations, see Findings |

Why the bounds are enough. Two CPUs suffice for one that acts and one that is
acted upon, two slots for one masked and one not; slot 31 is distinct because
`dopoweroff` uses it. In `clock` the delays cover an event due at once, one that
is not a multiple of the cycle (the rounding), and one beyond the longest run (a
run without deadline); three events are needed to insert before, between and
behind. The rotor is shorter than the longest run so that a poll cuts a run
short. Two steps in one idle jump show that their effect adds up. In `disk` a
sector of each track and an invalid sector exist, and 4 tries is the least
number that an undisturbed write from another track fits into (seek, cache,
rotation, transfer); the code allows 10. In `serial` a ring of 3 holds two
characters and so can be empty, full and wrapped; more character numbers than
slots exist, so that a skipped or repeated character is seen.

In `parts`: three countdowns over a pool of two actions, so that stale events
and exhaustion happen, and a second of 3 ns over a horizon of 6, so that every
carry does; a jitter of one part in 2 moves a countdown of 2 by one. Two handles
and three objects fill the table; two renames are what it takes to change a name
and change it back between `stat` and `open`. Two cards (one that sends, one
that is sent to), queues of one datagram and one crash: every `sendto` can find
a full queue, a missing peer and a restarted one. Two debuggers and a meter
client compete for five descriptors. The gdb buffer of 7 holds a packet and a
bit, so packets are split and joined, and some are refused for their checksums;
five addresses and words of two cover every alignment and both ends. One page
table has ordinary pages and a kernel superpage, the other a user superpage and
a missing page. Words of 4 bits have all the cases of the arithmetic (the
smallest integer, overflow in both directions, every shift count); the decoder
gets every format with every pair of immediate bits and register numbers that
have every field bit set and clear.

For Mips two TLB entries hold two of three contents (a writable page of one
address space, the same page invalid and its neighbour read-only in every address
space): a user program runs on two pages once both are mapped, and entries are
replaced, invalid, global, mismatched and duplicate. Stores to read-only pages
are left to the proof; they fault like stores to invalid ones. Two levels of the
mode stack are what nested exceptions need. Branches go to the first user page;
the kernel is entered through its vectors, and the sequential flow crosses pages
in both modes. RISC-V jumps go to the last kernel word, returns to the end of a
user page, where a long instruction straddles.

CHECK_DEADLOCK is off everywhere, because the simulated machine really
may stop: power-off, `smoke()`, doom, or -X.

Fairness. The loop is sequential code and goes on (weak fairness of its steps).
`cpu_cycles` returns again and again since its budget is finite (strong fairness
of `CyclesReturn`, `CycleEnd`); a `select` has finitely many ready handlers
(`SelectDone`); a host-level sleep is not cut to 0 ns for ever. Devices assume
`Dispatched` of their events. `InputDrains` also assumes that the kernel reads
the character register. The user at the debugger gets no fairness: properties
that need it have "is not left stopped" as a premise. Event handlers get none
either: a handler that schedules itself again with no delay, as a restarting timer
with a count of 0 does, keeps one `check_queue` busy for ever, so `Dispatched` has
"`check_queue` returns" as a second premise. Without it TLC finds the starvation.

## Findings

1. `timer_wakeup`: the COMPARE timer can fire in the turn whose WAIT idled the
   CPU. Only `cpu_set_irqs` ends a WAIT, so the CPU sleeps with its timer
   interrupt pending, against the comment in `cpu_set_irqs` and `doc/mips.html`.
2. `stopped_clock`: a gdb step is handled while `extra_selecttime` holds the
   time spent waiting in the debugger, so events fire early.
3. `disk_false_fault`: the tries of aborted operations are counted against the
   next one, which can be reported as a geometry modelling fault.
4. `fetch_in_page`: a 4-byte EBREAK that straddles two pages and is handled by
   the debugger keeps a negative offset into the second page, and the fetch
   that the comment in `cpu_cycle` rules out happens.
5. `cached_lookup`: the RISC-V translation cache is used without regard to the
   mode, and lookups in a superpage do not replace it. After an SRET to a user
   program in a superpage the kernel's last page is still cached, and the user
   program gets from the "one-entry cache of pagetable lookups" what a lookup
   would refuse. (SSTATUS.SUM is bypassed the same way, and MXR is never looked
   at.)

What the code does and the properties exempt by name, because the models follow
the code: `clock_time` can return exactly 1000000000 nanoseconds and
`clock_setnsecs` below the current second stores an offset near 2^32
(`TimerExact`); cycles stepped inside an idle jump make events late by as much
(`OnTime`); `mtc0` of STATUS and TLBHI, and TLBR, which replaces the current
address space id, do not renew the pages of the pc, and a stall or breakpoint
then is `smoke()` (`FetchFresh`); MIPS `div` of the smallest integer by -1 is
undefined in C, misaligned RISC-V word stores put bytes in the wrong lanes
(`AluCorrect`); JAL sign-extends from bit 19, C.BEQZ and C.BNEZ are exchanged,
C.SLLI takes its count for a register, three-bit register fields are compared
(`>`) instead of shifted (`>>`), and C.LW and C.SW take bit 2 of the offset from
bit 4 (`DecodeCorrect`); reserved 32-bit opcodes are no-ops. `UserIsolated`
exempts the page that SRET left in the cache (finding 5) and the pc after a
straddling breakpoint (finding 4), and nothing else. `set_cpue` never sets
`cpu_enabled` for a CPU it starts, so CPUE does not read back as
`doc/lamebus.html` says, a second store of the same value restarts the CPU, and
it cannot be stopped any more. An uninitialised `nd_control` with the start bit
set makes the first transmit of a network card hang the machine. The hub sends a
packet back to its sender too, which the card ignores unless promiscuous. With a
full handle table an emufs open overwrites the device's own registers. A card
and the hub can block on each other's queues for ever.

Not a violation, but worth knowing: `serial_pushinput` leaves `sd_rbusy` clear
when it holds input up, so keys typed while the kernel does not read can each
start one more chain of events. `OneChain` therefore has the kernel keeping up
as its premise.

## Proofs

The properties below are proved for all values of the constants, each from an
inductive invariant. `ProofBasics` has what several proofs share: every non-empty set of
naturals has a least element (the searches for a slot, a descriptor or a place
in the queue are CHOOSE expressions), and facts about products, quotients and
remainders.

**`MainboardProofs`**, for any number of CPUs and any set of slots.

    BoardInv == TypeOK /\ LinesInStep /\ RunningMaskExact /\ NoLostWakeup

`NoLostWakeup` is not inductive: `irqupdate()` skips a CPU whose level did not
change, and that this is harmless depends on the cached level being right
(`LinesInStep`), which in turn needs the types of the pins. Lemmas about
`cpu_set_irqs` and `irqupdate` carry the argument; each action then reduces to
one of them or leaves the board alone. From `BoardInv`: the invariants, the two
action properties `OnlyCpueStarts` and `WakeupHasCause`, and
`BoardImplementsLines`, where each action is shown to be a step of
`InterruptLines` or a stutter.

**`SerialProofs`**, for every ring and pool size. `NoStrandedInput` needs that
`sd_rbusy` implies a pending event, because that is what `serial_input` relies
on when it does not start a chain; `OneChain` needs the converse, which holds
only until the first hold-up. Both are in `ChainInv`, a conjunct of `SerialInv`.
`InOrder` is about the ring's contents: `RingInv` says that the ring holds the
numbers that follow the one in the read register, without a gap, up to the next
one to be accepted.

**`ClockProofs`**, for every cycle length, rotor, longest run, pool and set of
delays. In each phase of the loop a lower bound holds for the due times of all
events (`OverdueInv`), and a sharper one for those the loop knew of
(`PromptInv`): while the CPUs may run on, none of these is due before the last
cycle granted, and while the idle loop jumps, none before the jump's end but for
the cycles `stepped` since. Inserting an event keeps both because it goes behind
those that are due no later, and because `schedule_event` stops the CPUs when it
lands in front of the event they run to. That the queue is sorted is what lets
the loops look at its head alone. `QueueSorted`, `NoUnderflow`, `OnTime` and
`LateByAtMostARun` follow from `ClockInv`.

**`DiskProofs`**, for every geometry, limit of tries and doom count. The start
sectors are a recursive function, and every sector of the image is on a track:
both by the least counterexample. `disk_work()` is analysed rung by rung of its
ladder, for an abstract device state; the register stores and the two events
are calls of it. `DiskInv` has `OneEvent`, the interrupt following the
completion bit, and `DoomInv`, which counts the write in progress.
`DiskImplementsStore` shows each action to be a step of `DiskStore` or a
stutter: events of aborted operations are invisible there.

**`DeviceProofs`**. For emufs, with every table size and name space: while
the slot `pickhandle` found waits for the host's `open`, no other handle has the
object it is meant for (`Picked`), and only one operation is under way
(`OneOperation`); hence `OneHandlePerFile`, against any renaming in between. For
the timer, with every lateness and jitter of the clock: queued events have generations
already used, so a new countdown is told apart from all of them, and its own is
queued once; and `clock_time` is monotonic over the carries, by cases on the
quotient and the remainder of the elapsed time. From these `TimerExact`, an
action property. For the network, with any number of cards, packets and crashes
and every queue length: a packet is in one place of a path (the card that is
sending, the hub's queue, the hub's loop, the queue at the receiver, its
buffer), and along that path the numbers of each sender increase. `NetInv`
states this place by place, since a broadcast is in the loop and, already, in
the queues of the cards that the loop has passed (`QueuesOK`, `ForwardOK`,
`HubOK`, `SendingOK`); `SendersOK` is why the loop passes no card twice although
dead senders are dropped from the table under it. From it `PacketsDelivered`, an
action property: no duplicates, no reordering, and a received packet stays until
the kernel takes it.

**`CoreProofs`**, for every page size, layout, program, TLB content and page
table. A cycle composes C functions on the processor's record, and each has a
lemma about an abstract record. RISC-V: `Between` holds between cycles,
`Fetched` and `Executed` inside. They say that `pc` is the instruction to resume
at, that in user mode the page in hand is the pc's own and the translation cache
has no kernel page but the one SRET left there, and that a reservation on the
user's word has the value the user loaded. MIPS: `Settled` holds between cycles,
`Begun` and `Started` inside: the exception pc is where to resume, a pending
jump has a branch and a delay slot that can be fetched again, the cached pages
are what a lookup would give now unless `mtc0` or TLBR has changed mode or
address space since, and a link on the user's word is this stay's own. From them
`PreciseSepc`, `UserIsolated`, `ReservedSc`, `FetchFresh`, `PreciseEpc`,
`UserScLinked`. Arithmetic, for words of every even range, 2^32 among them
(`ArithmeticExact`): a cast to unsigned keeps a number modulo `TOP` and a cast
back keeps what fits, so sums and products agree with exact ones, `CHKOVF` traps
exactly the sums that do not fit, and high and low word make the product,
through `mulhsu`'s detour by the magnitude too. Quotients are C's, which round
towards zero; only the least number by -1 does not fit. These are the arithmetic
parts of `AluCorrect`.

**`HostProofs`**. Sockets, for any number of clients and descriptors: the
listeners keep the first two slots, every other used slot is a connection
whose descriptor, client state, meter and context agree, and during a walk
(`WalkOK`) no free descriptor is in the reported set while listeners are
served, so that a recycled number is never taken for a reported one. Hence
`ConnectionsOwned`. gdb: the accesses of `debug_write_mem` partition the data,
and stopping at the first that fails stores a prefix (`WritesExactly`), for every
alignment and word size. And whatever pieces the host reads packets in: buffer
and wire together are, at any time, a run of whole pieces (acknowledgements and
packets, good and bad), whose good packets are the commands sent and not yet
executed, in order (`StreamInv`). So the first `$` of the buffer always begins a
packet, a buffer without a complete packet has room for the rest of it, and
`PacketsIntact` follows.

Assumptions: those of the modules, named, and evaluated by TLC in the runs.
Most give constants their types and signs. The ones with content:
`GeometryAssumption` (the tracks hold all sectors, which `compute_sectors` checks);
`SerialAssumption` (more character numbers than ring slots: a matter of the
numbering, not the code); `TimerAssumption` (a second has at least 2 ns, the
word holds two seconds' worth of nanoseconds); `MipsAssumption` (segments begin
at page boundaries, and the vectors lie in the kernel's); `RiscvAssumption`
(pages have room for a 4-byte instruction, and the user's lock word is not the
kernel's; nothing about the page tables); `SockAssumption` (there are
descriptors for the two listeners); `GdbAssumption` (finitely many mapped
addresses; commands have neither `$` nor `#` in them; the buffer has room for an
acknowledgement and a packet, without which `gdb_fe.c` ends in an assertion);
`NetAssumption` (no card has the hub's or the broadcast address, which
`net_init` refuses); `ArithAssumption` (a word has a sign bit).

Model-checked only. Liveness (`PowersOff`, `Dispatched`, `Completes`,
`InputDrains`): fairness is out of the prover's reach. Logic, shifts and byte
lanes, the rest of `AluCorrect`, and `DecodeCorrect`: they use `Bitwise` and
folds over sets of bits, recursive operators that the prover cannot reason
about. `PartsTypeOK`, of which the theorems have the parts they need. The
fairness of host sockets is not something the code can promise, so `Network`,
`Sockets` and `Gdb` have safety properties only.

## Not modelled

Durations of seeks and rotations; contents of memory, files and CRAM; the cache
instruction, TLBP (the index of TLBR and TLBWI is a free choice), kseg1 and
kseg2 and the boot vectors of the MIPS core; WFI, CSR reads and the cycle timer
of the RISC-V core (its run states are those of `Mainboard`); reply packets and
the register display of gdb; the text protocol of the meter; reading the
configuration and the boot image; formatting and terminal handling; profiler and
tracing output; `disk161` and `stat161`, which are sequential tools. The random,
trace and screen devices are register files without control state.

## Plan

The composition of a device with `Clock` instead of the assumption on lateness;
the progress watchdog; end of file on the console.

