-------------------------------- MODULE Gdb --------------------------------
(***************************************************************************)
(* The debugger's packet stream: framing in sys161/gdb/gdb_fe.c            *)
(* (gdb_receive), commands in gdb/gdb_be.c (debug_exec).                   *)
(*                                                                         *)
(* The stream is TCP-like: what gdb wrote in one piece may be read in      *)
(* many, with acknowledgements between packets.  A packet is $, a command, *)
(* #, and two check characters; a symbol of the model stands for one of    *)
(* these.  gdb_receive handles every complete packet in its buffer before  *)
(* it returns, so nothing is read while one is there.                      *)
(***************************************************************************)
EXTENDS Integers, Sequences, FiniteSets

CONSTANTS
    GDBBUF,     \* sizeof(ctx->buf), in symbols
    NCpus,      \* cpu_numcpus()
    ThreadIds,  \* thread ids gdb names, 0 .. 255 as hexbyte() returns them
    WORD,       \* 4, bytes in a word
    Addrs,      \* byte addresses the target has mapped for gdb
    Commands,   \* the commands gdb sends
    MaxCommands \* bound: packets sent

(* An acknowledgement and a packet fit the buffer; commands escape $ and #.*)
ASSUME GdbAssumption ==
    /\ GDBBUF \in Nat /\ GDBBUF >= 6 /\ Commands \cap {"$", "#"} = {}
    /\ NCpus \in Nat \ {0} /\ MaxCommands \in Nat /\ ThreadIds \subseteq Nat
    /\ WORD \in Nat \ {0} /\ Addrs \subseteq Nat /\ IsFiniteSet(Addrs)

VARIABLES
    wire,        \* symbols sent by gdb and not yet read
    buf,         \* ctx->buf[0 .. bufptr)
    sent,        \* history: commands sent with a good checksum
    executed,    \* history: commands executed
    debug_cpu,
    stopped,     \* stopped_in_debugger
    stored,      \* the bytes the last M command stored
    asked        \* history: the bytes it was asked to store

gdbVars == <<wire, buf, sent, executed, debug_cpu, stopped, stored, asked>>

GdbTypeOK ==
    /\ debug_cpu \in 0 .. NCpus - 1 /\ stopped \in BOOLEAN
    /\ Len(buf) <= GDBBUF /\ stored \subseteq Nat /\ asked \subseteq Nat
    /\ sent \in Seq(Commands) /\ executed \in Seq(Commands)

(* accepter, for a connection it takes: the machine stops.                 *)
GdbInit ==
    /\ wire = <<>> /\ buf = <<>> /\ sent = <<>> /\ executed = <<>>
    /\ debug_cpu \in 0 .. NCpus - 1 /\ stopped = TRUE
    /\ stored = {} /\ asked = {}

-----------------------------------------------------------------------------
(* gdb sends an acknowledgement and a packet; the check digits "bad" make  *)
(* debug_exec answer "-".                                                  *)
GdbSends(cmd, check) ==
    /\ Len(sent) < MaxCommands /\ Len(wire) <= 1
    /\ \E ack \in {<<>>, <<"+">>} : wire' = wire \o ack \o <<"$", cmd, "#", "x", check>>
    /\ sent' = IF check = "ok" THEN Append(sent, cmd) ELSE sent
    /\ UNCHANGED <<buf, executed, debug_cpu, stopped, stored, asked>>

First(s, sym) == {i \in 1 .. Len(s) : s[i] = sym /\ \A j \in 1 .. i - 1 : s[j] # sym}
Dollar == First(buf, "$")
Hash   == {h \in 1 .. Len(buf) : \E d \in Dollar :
             d < h /\ buf[h] = "#" /\ \A j \in d .. h - 1 : buf[j] # "#"}

(* Mutant: the second check digit is forgotten.                            *)
PacketEnd_short(h) == h + 1

(* packetlen is 3 more than hashpos.                                       *)
PacketEnd(h) == h + 2

Complete == \E h \in Hash : PacketEnd(h) <= Len(buf)

(* gdb_receive reads what fits, after throwing away a full buffer that     *)
(* holds no packet.                                                        *)
gdb_read(n) ==
    /\ ~Complete /\ n <= Len(wire)
    /\ LET have == IF Len(buf) >= GDBBUF THEN <<>> ELSE buf
       IN /\ Len(have) + n <= GDBBUF
          /\ buf' = have \o SubSeq(wire, 1, n)
    /\ wire' = SubSeq(wire, n + 1, Len(wire))
    /\ UNCHANGED <<sent, executed, debug_cpu, stopped, stored, asked>>

-----------------------------------------------------------------------------
(***************************************************************************)
(* debug_write_mem: bytes up to a word boundary, words, bytes for the      *)
(* rest, giving up with E03 at the first address that is not mapped.       *)
(***************************************************************************)
HeadLen(v, len) == CHOOSE i \in 0 .. len : (i = len \/ (v + i) % WORD = 0)
                        /\ \A j \in 0 .. i - 1 : (v + j) % WORD # 0

(* Mutant: words while anything is left, as debug_read_mem has it.         *)
WordsEnd_over(v, len) ==
    CHOOSE i \in HeadLen(v, len) .. len + WORD - 1 :
        (i - HeadLen(v, len)) % WORD = 0 /\ i >= len

WordsEnd(v, len) ==
    CHOOSE i \in HeadLen(v, len) .. len :
        (i - HeadLen(v, len)) % WORD = 0 /\ i + WORD > len

Bytes(v, from, to) == {v + i : i \in from .. to - 1}

(* The bytes stored before the first failing access.                       *)
debug_write_mem(v, len) ==
    LET h == HeadLen(v, len)
        w == WordsEnd(v, len)
        end == IF w > len THEN w ELSE len
        unit(i) == IF i < h \/ i >= w THEN Bytes(v, i, i + 1)
                   ELSE LET b == i - ((i - h) % WORD) IN Bytes(v, b, b + WORD)
        bad == {i \in 0 .. end - 1 : ~(unit(i) \subseteq Addrs)}
    IN UNION {unit(i) : i \in {j \in 0 .. end - 1 : \A k \in bad : unit(j) # unit(k) /\ j < k}}

(* getthreadid is unsigned: ids below 10 become huge (any modulus beyond   *)
(* the number of CPUs gives the same outcome).                             *)
getthreadid(t) == (t - 10) % (2 ^ 30)

-----------------------------------------------------------------------------
(***************************************************************************)
(* debug_exec, by the effect of the command.  Reply packets are output and *)
(* left out, and so is k, which ends the simulation.                       *)
(***************************************************************************)
debug_continue ==
    stopped' = FALSE /\ UNCHANGED <<debug_cpu, stored, asked>>

debug_detach == stopped' = FALSE /\ UNCHANGED <<debug_cpu, stored, asked>>

(* Mutant: any thread id is taken for a CPU.                               *)
debug_select_unchecked ==
    /\ \E t \in ThreadIds : debug_cpu' = getthreadid(t)
    /\ UNCHANGED <<stopped, stored, asked>>

(* Hg: later commands are about another CPU; unknown threads get E00.      *)
debug_select ==
    /\ \E t \in ThreadIds :
         debug_cpu' = IF getthreadid(t) < NCpus THEN getthreadid(t) ELSE debug_cpu
    /\ UNCHANGED <<stopped, stored, asked>>

debug_store ==
    /\ \E v \in Addrs, len \in 0 .. Cardinality(Addrs) :
         stored' = debug_write_mem(v, len) /\ asked' = Bytes(v, 0, len)
    /\ UNCHANGED <<debug_cpu, stopped>>

(* g, m, ?, T, q and all that is not supported: a reply and no change; the *)
(* single step s is Clock's and Mainboard's onecycle.                      *)
debug_query == UNCHANGED <<debug_cpu, stopped, stored, asked>>

debug_exec(cmd) ==
    \/ cmd = "c" /\ debug_continue
    \/ cmd = "D" /\ debug_detach
    \/ cmd = "Hg" /\ debug_select
    \/ cmd = "M" /\ debug_store
    \/ cmd = "g" /\ debug_query

(* One round of gdb_receive's loop.                                        *)
gdb_packet ==
    /\ Complete
    /\ LET d == CHOOSE x \in Dollar : TRUE
           h == CHOOSE x \in Hash : TRUE
           packet == SubSeq(buf, d, PacketEnd(h))
       IN /\ buf' = SubSeq(buf, PacketEnd(h) + 1, Len(buf))
          /\ \/ /\ packet[Len(packet)] # "ok"   \* bad checksum: "-"
                /\ UNCHANGED <<executed, debug_cpu, stopped, stored, asked>>
             \/ /\ packet[Len(packet)] = "ok"
                /\ executed' = Append(executed, packet[2])
                /\ debug_exec(packet[2])
    /\ UNCHANGED <<wire, sent>>

(* gdb_startbreak: the machine stops, and the debugger is told.            *)
gdb_startbreak(cpu) ==
    /\ ~stopped /\ stopped' = TRUE /\ debug_cpu' = cpu
    /\ UNCHANGED <<wire, buf, sent, executed, stored, asked>>

GdbNext ==
    \/ \E cmd \in Commands, check \in {"ok", "bad"} : GdbSends(cmd, check)
    \/ \E n \in 1 .. GDBBUF : gdb_read(n)
    \/ gdb_packet
    \/ \E cpu \in 0 .. NCpus - 1 : gdb_startbreak(cpu)

GdbSpec == GdbInit /\ [][GdbNext]_gdbVars

-----------------------------------------------------------------------------
(* However the stream is cut into reads, the commands executed are those   *)
(* sent, in order, none lost, doubled or mangled - as long as packet and   *)
(* acknowledgements fit the buffer.                                        *)
PacketsIntact ==
    /\ executed = SubSeq(sent, 1, Len(executed))
    /\ wire = <<>> /\ ~Complete => executed = sent

(* A memory write stores the bytes it was asked to and no others, at every *)
(* alignment and length; where an address is not mapped it stores a prefix.*)
WritesExactly ==
    /\ stored \subseteq asked
    /\ asked \subseteq Addrs => stored = asked
    /\ \A a \in stored, b \in asked : b < a => b \in stored
=============================================================================
