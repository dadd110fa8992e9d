------------------------------- MODULE Serial -------------------------------
(***************************************************************************)
(* The serial port, sys161/bus/dev_serial.c: two half-channels that share  *)
(* one interrupt.                                                          *)
(*                                                                         *)
(* Console input arrives whenever the user types (serial_input) and goes   *)
(* through a ring buffer; a chain of timed events (serial_pushinput) moves *)
(* one character per character time into the register the kernel reads,    *)
(* and is held up while the kernel has not taken the last one.  The chain  *)
(* stops when the buffer runs empty and is restarted by serial_input: the  *)
(* two must agree on whether it is running, or input is stranded.          *)
(*                                                                         *)
(* A character is represented by its number, modulo NumChars, in the order *)
(* in which characters were accepted.                                      *)
(***************************************************************************)
EXTENDS Integers

CONSTANTS
    INBUF_SIZE,   \* slots of the ring; one always stays empty
    NumChars,     \* bound: character numbers are taken modulo this
    Pool          \* bound: timed actions left for this device

ASSUME SerialAssumption ==
    /\ INBUF_SIZE \in Nat \ {0, 1} /\ Pool \in Nat \ {0}
    /\ NumChars \in Nat /\ NumChars > INBUF_SIZE

VARIABLES
    sd_wbusy, sd_rbusy, sd_rirq, sd_wirq, sd_readch, sd_didread,
    sd_inbuf, sd_inbufhead, sd_inbuftail,
    readers,      \* serial_pushinput events in the clock's queue
    writers,      \* serial_writedone events in the clock's queue
    irq,          \* the slot's bit in IRQS
    accepted,     \* history: number of the next character
    suspended,    \* history: the chain was ever held up by the kernel
    power         \* "on", or "smoke": the pool of timed actions ran out

invars  == <<sd_inbuf, sd_inbufhead, sd_inbuftail, accepted>>
outvars == <<sd_wbusy, sd_wirq, writers>>
vars == <<outvars, sd_rbusy, sd_rirq, sd_readch, sd_didread, invars, readers,
          irq, suspended, power>>

Index  == 0 .. INBUF_SIZE - 1
Char   == 0 .. NumChars - 1
SerIrq == [on : BOOLEAN, ready : BOOLEAN, force : BOOLEAN]

TypeOK ==
    /\ sd_wbusy \in BOOLEAN /\ sd_rbusy \in BOOLEAN /\ sd_didread \in BOOLEAN
    /\ sd_rirq \in SerIrq /\ sd_wirq \in SerIrq
    /\ sd_readch \in Char /\ accepted \in Char
    /\ sd_inbuf \in [Index -> Char]
    /\ sd_inbufhead \in Index /\ sd_inbuftail \in Index
    /\ readers \in 0 .. Pool /\ writers \in 0 .. 1
    /\ irq \in BOOLEAN /\ suspended \in BOOLEAN /\ power \in {"on", "smoke"}

(* serial_init.  The first character accepted gets number 1; 0 stands for  *)
(* the initial contents of sd_readch.                                      *)
Init ==
    /\ sd_wbusy = FALSE /\ sd_rbusy = FALSE /\ sd_didread = TRUE
    /\ sd_rirq = [on |-> FALSE, ready |-> FALSE, force |-> FALSE]
    /\ sd_wirq = sd_rirq
    /\ sd_readch = 0 /\ accepted = 1
    /\ sd_inbuf = [i \in Index |-> 0] /\ sd_inbufhead = 0 /\ sd_inbuftail = 0
    /\ readers = 0 /\ writers = 0 /\ irq = FALSE /\ suspended = FALSE
    /\ power = "on"

-----------------------------------------------------------------------------
Asserts(si) == si.on /\ (si.ready \/ si.force)

(* Mutant: only the read half is looked at.                                *)
setirq_readonly(r, w) == irq' = Asserts(r)

setirq(r, w) == irq' = (Asserts(r) \/ Asserts(w))

(* Mutant: the index runs off the end of the ring.                         *)
Wrap_nomod(i) == i + 1

Wrap(i) == (i + 1) % INBUF_SIZE

(* Mutant: a full ring is not noticed.                                     *)
Full_never(tail) == FALSE

Full(tail) == Wrap(tail) = sd_inbufhead

(* The kernel has not read the last character and has not cleared "ready". *)
HeldUp == ~sd_didread /\ sd_rirq.ready

Exhausted == power' = "smoke" /\ UNCHANGED <<readers, writers>>

(* Mutant: sd_rbusy is not set with the next event.                        *)
Deliver_notbusy(buf, n, inuse) ==
    /\ sd_readch' = buf[sd_inbufhead] /\ sd_inbufhead' = Wrap(sd_inbufhead)
    /\ sd_didread' = FALSE
    /\ sd_rirq' = [sd_rirq EXCEPT !.ready = TRUE]
    /\ setirq([sd_rirq EXCEPT !.ready = TRUE], sd_wirq)
    /\ UNCHANGED <<sd_rbusy, suspended>>
    /\ IF n + writers + inuse >= Pool THEN Exhausted
       ELSE readers' = n + 1 /\ UNCHANGED <<writers, power>>

(* serial_pushinput with buf[head..tail) buffered, while inuse actions are *)
(* allocated besides the n readers and the writers.                        *)
Deliver(buf, n, inuse) ==
    /\ sd_readch' = buf[sd_inbufhead] /\ sd_inbufhead' = Wrap(sd_inbufhead)
    /\ sd_didread' = FALSE
    /\ sd_rirq' = [sd_rirq EXCEPT !.ready = TRUE]
    /\ setirq([sd_rirq EXCEPT !.ready = TRUE], sd_wirq)
    /\ sd_rbusy' = TRUE
    /\ UNCHANGED suspended
    /\ IF n + writers + inuse >= Pool THEN Exhausted
       ELSE readers' = n + 1 /\ UNCHANGED <<writers, power>>

(* The chain goes on polling, but sd_rbusy keeps its value.                *)
Hold(n, inuse) ==
    /\ suspended' = TRUE
    /\ IF n + writers + inuse >= Pool THEN Exhausted
       ELSE readers' = n + 1 /\ UNCHANGED <<writers, power>>
    /\ UNCHANGED <<sd_readch, sd_inbufhead, sd_didread, sd_rirq, irq, sd_rbusy>>

(* Mutant: the chain ends without saying so.                               *)
EndChain_busy(n) ==
    /\ readers' = n
    /\ UNCHANGED <<sd_readch, sd_inbufhead, sd_didread, sd_rirq, irq, writers,
                   suspended, power, sd_rbusy>>

EndChain(n) ==
    /\ sd_rbusy' = FALSE /\ readers' = n
    /\ UNCHANGED <<sd_readch, sd_inbufhead, sd_didread, sd_rirq, irq, writers,
                   suspended, power>>

pushinput(buf, tail, n, inuse) ==
    \/ sd_inbufhead = tail /\ EndChain(n)
    \/ sd_inbufhead # tail /\ HeldUp /\ Hold(n, inuse)
    \/ sd_inbufhead # tail /\ ~HeldUp /\ Deliver(buf, n, inuse)

-----------------------------------------------------------------------------
(***************************************************************************)
(* Input, timed events, and register accesses.                             *)
(***************************************************************************)
On == power = "on"

(* A key was typed: dropped if the ring is full; if no chain is running    *)
(* the first push happens at once.                                         *)
serial_input ==
    /\ On /\ ~Full(sd_inbuftail)
    /\ LET buf == [sd_inbuf EXCEPT ![sd_inbuftail] = accepted]
       IN  /\ sd_inbuf' = buf /\ sd_inbuftail' = Wrap(sd_inbuftail)
           /\ accepted' = (accepted + 1) % NumChars
           /\ IF sd_rbusy
                THEN UNCHANGED <<sd_readch, sd_inbufhead, sd_didread, sd_rirq,
                                 irq, sd_rbusy, readers, writers, suspended, power>>
                ELSE pushinput(buf, Wrap(sd_inbuftail), readers, 0)
    /\ UNCHANGED <<sd_wbusy, sd_wirq>>

serial_pushinput ==
    /\ On /\ readers > 0
    /\ pushinput(sd_inbuf, sd_inbuftail, readers - 1, 1)
    /\ UNCHANGED <<sd_inbuf, sd_inbuftail, accepted, sd_wbusy, sd_wirq>>

serial_writedone ==
    /\ On /\ writers > 0
    /\ writers' = writers - 1
    /\ sd_wbusy' = FALSE
    /\ sd_wirq' = [sd_wirq EXCEPT !.ready = TRUE]
    /\ setirq(sd_rirq, [sd_wirq EXCEPT !.ready = TRUE])
    /\ UNCHANGED <<sd_rbusy, sd_rirq, sd_readch, sd_didread, invars, readers,
                   suspended, power>>

(* serial_fetch of the character register; the others change nothing.      *)
FetchChar ==
    /\ On /\ sd_didread' = TRUE
    /\ UNCHANGED <<outvars, sd_rbusy, sd_rirq, sd_readch, invars, readers, irq,
                   suspended, power>>

(* serial_store of the character register: ignored while busy.             *)
StoreChar ==
    /\ On /\ ~sd_wbusy /\ sd_wbusy' = TRUE
    /\ IF readers + writers >= Pool THEN Exhausted
       ELSE writers' = writers + 1 /\ UNCHANGED <<readers, power>>
    /\ UNCHANGED <<sd_wirq, sd_rbusy, sd_rirq, sd_readch, sd_didread, invars,
                   irq, suspended>>

(* serial_store of RIRQ and WIRQ.                                          *)
StoreRirq ==
    /\ On
    /\ \E si \in SerIrq : sd_rirq' = si /\ setirq(si, sd_wirq)
    /\ UNCHANGED <<outvars, sd_rbusy, sd_readch, sd_didread, invars, readers,
                   suspended, power>>

StoreWirq ==
    /\ On
    /\ \E si \in SerIrq : sd_wirq' = si /\ setirq(sd_rirq, si)
    /\ UNCHANGED <<sd_wbusy, writers, sd_rbusy, sd_rirq, sd_readch, sd_didread,
                   invars, readers, suspended, power>>

Next == \/ serial_input \/ serial_pushinput \/ serial_writedone
        \/ FetchChar \/ StoreChar \/ StoreRirq \/ StoreWirq

Spec == Init /\ [][Next]_vars

(* Events are dispatched (Clock!Dispatched), and the kernel's interrupt    *)
(* handler keeps reading the character register.                           *)
FairSpec == Spec /\ WF_vars(serial_pushinput) /\ WF_vars(serial_writedone)
                 /\ WF_vars(FetchChar)

-----------------------------------------------------------------------------
(***************************************************************************)
(* Properties.                                                             *)
(***************************************************************************)

(* Buffered input is never stranded: as long as the ring is not empty a    *)
(* serial_pushinput is pending, although the chain of events stops and is  *)
(* restarted through sd_rbusy.                                             *)
NoStrandedInput ==
    On /\ sd_inbufhead # sd_inbuftail => readers > 0

(* Accepted characters reach the read register in the order they were      *)
(* typed, none skipped and none repeated (the ring's indices).             *)
InOrder ==
    [][sd_readch' # sd_readch => sd_readch' = (sd_readch + 1) % NumChars]_vars

(* As long as the kernel has kept up, a single chain of events is running, *)
(* so that input arrives at the line speed.  After the first hold-up this  *)
(* is no longer so: Hold leaves sd_rbusy clear, and every further key      *)
(* starts another chain.                                                   *)
OneChain == ~suspended => readers <= 1

(* sd_wbusy says exactly whether a completion is on its way, so a port     *)
(* that is busy becomes ready again and never loses a completion.          *)
WriterPending == On => (sd_wbusy <=> writers = 1)

(* Either half has the events its flags say, and no more: the port takes   *)
(* at most two actions from the shared pool while the kernel keeps up.     *)
EventsCounted == OneChain /\ WriterPending

(* The interrupt line is the OR of the two halves after every path: a      *)
(* register store of one half never drops the other's interrupt.           *)
IrqIsOr == irq <=> Asserts(sd_rirq) \/ Asserts(sd_wirq)

(* Under a kernel that reads, every accepted character is delivered.       *)
InputDrains ==
    \A c \in Char : (accepted = c /\ sd_readch # (c - 1) % NumChars)
        ~> (power = "smoke" \/ sd_readch = (c - 1) % NumChars)
=============================================================================
