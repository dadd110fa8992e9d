------------------------------ MODULE Network ------------------------------
(***************************************************************************)
(* Network cards (sys161/bus/dev_net.c), one per simulator process, and    *)
(* the hub process that joins them (hub161/nethub.c).                      *)
(*                                                                         *)
(* They talk over Unix-domain datagram sockets, which neither side puts in *)
(* non-blocking mode: sendto() fails if the receiver is gone, and if the   *)
(* receiver's queue is full it blocks the whole process - a simulator that *)
(* is blocked runs no CPU, no event and no receive handler.  Processes die *)
(* and come back; the hub learns who exists from any packet, the cards'    *)
(* keepalives included.                                                    *)
(*                                                                         *)
(* A packet is its header plus a number; the numbers of one card increase. *)
(* Left out: the transmit interrupt register, which is set where the       *)
(* transmit bit is cleared and which only the kernel clears, and the       *)
(* promiscuous bit, which is the kernel's free choice at every packet.     *)
(***************************************************************************)
EXTENDS Integers, Sequences, FiniteSets

CONSTANTS
    Cards,        \* hardware addresses
    Talkers,      \* the cards that send data packets
    Addressees,   \* and where they send them
    QLEN,         \* datagrams a socket queues (the host kernel's limit)
    DROP_ERRORS,  \* the hub drops a sender after more errors than this (5)
    Garbage,      \* what an uninitialised register may hold
    MaxPackets,   \* bound: data packets sent, all cards together
    MaxCrashes    \* bound: processes that die or hang, all together

HUB_ADDR       == "hub"
BROADCAST_ADDR == "broadcast"

(* net_init refuses the hub's address and the broadcast address for a card.*)
ASSUME NetAssumption ==
    /\ Cards \cap {HUB_ADDR, BROADCAST_ADDR} = {} /\ Talkers \subseteq Cards
    /\ Addressees \subseteq Cards \cup {BROADCAST_ADDR}
    /\ QLEN \in Nat /\ DROP_ERRORS \in Nat /\ Garbage \subseteq BOOLEAN
    /\ MaxPackets \in Nat /\ MaxCrashes \in Nat

NoPacket       == [from |-> HUB_ADDR, to |-> HUB_ADDR, num |-> 0, runt |-> FALSE]
Packet == [from : Cards, to : Cards \cup {HUB_ADDR, BROADCAST_ADDR},
           num : 0 .. MaxPackets, runt : BOOLEAN]

VARIABLES
    nic,       \* the state of every card
    inq,       \* datagrams queued at every card's socket
    hubup,     \* the hub is running
    hubq,      \* datagrams queued at the hub's socket
    senders,   \* the hub's array of senders, with their error counts
    fwd,       \* the packet the hub is forwarding, and to which index
    packets,   \* history: data packets sent
    crashes,   \* history: processes that died or hung
    got        \* history: number of the last packet of m that n delivered

hubvars == <<hubup, hubq, senders, fwd>>
netVars == <<nic, inq, hubvars, packets, crashes, got>>

Card == [up : BOOLEAN, hung : BOOLEAN, rirq : BOOLEAN,
         start : BOOLEAN, trigger : BOOLEAN,
         rbuf : Packet \cup {NoPacket}, sending : Packet \cup {NoPacket}]
NotForwarding == [pkt |-> NoPacket, next |-> 0]

NetTypeOK ==
    /\ nic \in [Cards -> Card] /\ inq \in [Cards -> Seq(Packet)]
    /\ \A n \in Cards : Len(inq[n]) <= QLEN
    /\ hubup \in BOOLEAN /\ hubq \in Seq(Packet) /\ Len(hubq) <= QLEN
    /\ senders \in Seq([addr : Cards, errors : 0 .. DROP_ERRORS + 1])
    /\ fwd \in [pkt : Packet \cup {NoPacket}, next : 0 .. Len(senders) + 1]
    /\ packets \in 0 .. MaxPackets /\ crashes \in 0 .. MaxCrashes
    /\ got \in [Cards -> [Cards -> 0 .. MaxPackets]]

Keepalive(n) == [from |-> n, to |-> HUB_ADDR, num |-> 0, runt |-> FALSE]

(* net_init.  nd_rirq, nd_wirq and nd_control are never assigned: they are *)
(* whatever the allocator returned.  (A card that never transmits does not *)
(* look at its transmit bit.)                                              *)
Booted(n) ==
    [up : {TRUE}, hung : {FALSE}, rirq : Garbage,
     start : IF n \in Talkers THEN Garbage ELSE {FALSE}, trigger : {FALSE},
     rbuf : {NoPacket}, sending : {Keepalive(n)}]

NetInit ==
    /\ nic \in {f \in [Cards -> UNION {Booted(n) : n \in Cards}] : \A n \in Cards : f[n] \in Booted(n)}
    /\ inq = [n \in Cards |-> <<>>]
    /\ hubup = TRUE /\ hubq = <<>> /\ senders = <<>> /\ fwd = NotForwarding
    /\ packets = 0 /\ crashes = 0
    /\ got = [n \in Cards |-> [m \in Cards |-> 0]]

-----------------------------------------------------------------------------
(***************************************************************************)
(* The card.                                                               *)
(***************************************************************************)
Unblocked(n) == nic[n].up /\ nic[n].sending = NoPacket
Alive(n) == Unblocked(n) /\ ~nic[n].hung

Hang(n, c) ==
    /\ crashes < MaxCrashes /\ crashes' = crashes + 1
    /\ nic' = [nic EXCEPT ![n] = [c EXCEPT !.hung = TRUE]]

(* keepalive: rescheduled every second of virtual time, for ever.          *)
keepalive(n) ==
    /\ Alive(n) /\ nic' = [nic EXCEPT ![n].sending = Keepalive(n)]
    /\ UNCHANGED <<inq, hubvars, packets, crashes, got>>

(* triggersend, up to dosend's sendto(): the header's source is forced.    *)
(* A length above the buffer's size hangs the machine instead, and the     *)
(* transmit bit is cleared without an interrupt.                           *)
triggersend(n, to, runt) ==
    /\ Alive(n) /\ nic[n].trigger /\ packets < MaxPackets
    /\ packets' = packets + 1
    /\ nic' = [nic EXCEPT ![n].sending = [from |-> n, to |-> to, num |-> packets + 1,
                                          runt |-> runt],
                          ![n].trigger = FALSE]
    /\ UNCHANGED <<inq, hubvars, crashes, got>>

triggersend_toolong(n) ==
    /\ Alive(n) /\ nic[n].trigger
    /\ Hang(n, [nic[n] EXCEPT !.start = FALSE, !.trigger = FALSE])
    /\ UNCHANGED <<inq, hubvars, packets, got>>

IsData(p) == p.num # 0

(* What follows sendto(): a packet is done whether or not it could be      *)
(* sent; for a keepalive a change of the carrier is reported, no more.     *)
Sent(n) ==
    LET c == [nic[n] EXCEPT !.sending = NoPacket]
    IN nic' = [nic EXCEPT ![n] =
         IF IsData(nic[n].sending) THEN [c EXCEPT !.start = FALSE] ELSE c]

(* sendto() returns: refused without a hub, else once there is room.       *)
sendto(n) ==
    /\ nic[n].up /\ nic[n].sending # NoPacket
    /\ \/ ~hubup /\ Sent(n) /\ UNCHANGED hubq
       \/ /\ hubup /\ Len(hubq) < QLEN /\ Sent(n)
          /\ hubq' = Append(hubq, nic[n].sending)
    /\ UNCHANGED <<inq, hubup, senders, fwd, packets, crashes, got>>

Overrun(c) == c.rirq

Accepts(n, p, promisc) == ~p.runt /\ (p.to \in {n, BROADCAST_ADDR} \/ promisc)

(* dorecv: an overrun reads the datagram into a scratch buffer; otherwise  *)
(* even a packet for another card lands in the receive buffer.             *)
dorecv(n, promisc) ==
    /\ Unblocked(n) /\ inq[n] # <<>> /\ inq' = [inq EXCEPT ![n] = Tail(@)]
    /\ LET p == Head(inq[n])
       IN \/ /\ Overrun(nic[n]) /\ UNCHANGED <<nic, got>>
          \/ /\ ~Overrun(nic[n])
             /\ nic' = [nic EXCEPT ![n] =
                  IF Accepts(n, p, promisc) THEN [nic[n] EXCEPT !.rbuf = p, !.rirq = TRUE]
                                   ELSE [nic[n] EXCEPT !.rbuf = p]]
             /\ got' = IF Accepts(n, p, promisc) THEN [got EXCEPT ![n][p.from] = p.num] ELSE got
    /\ UNCHANGED <<hubvars, packets, crashes>>

(* setirq: the kernel clears the receive interrupt, or sets it.            *)
setirq(n, val) ==
    /\ Alive(n) /\ nic' = [nic EXCEPT ![n].rirq = val]
    /\ UNCHANGED <<inq, hubvars, packets, crashes, got>>

(* setctl: a transmit cannot be turned off, and starting twice hangs.      *)
setctl_start(n) ==
    /\ Alive(n) /\ n \in Talkers
    /\ \/ /\ ~nic[n].start
          /\ nic' = [nic EXCEPT ![n].start = TRUE, ![n].trigger = TRUE]
          /\ UNCHANGED crashes
       \/ nic[n].start /\ Hang(n, nic[n])
    /\ UNCHANGED <<inq, hubvars, packets, got>>

(* A store with reserved bits to READINTR, WRITEINTR or CONTROL: hang().   *)
illegal_store(n) ==
    /\ Alive(n) /\ Hang(n, nic[n])
    /\ UNCHANGED <<inq, hubvars, packets, got>>

(* The simulator exits or is killed, its socket with it; a new one binds   *)
(* the same path and announces itself.                                     *)
CardDies(n) ==
    /\ nic[n].up /\ crashes < MaxCrashes /\ crashes' = crashes + 1
    /\ nic' = [nic EXCEPT ![n].up = FALSE, ![n].sending = NoPacket]
    /\ inq' = [inq EXCEPT ![n] = <<>>]
    /\ UNCHANGED <<hubvars, packets, got>>

CardStarts(n) ==
    /\ ~nic[n].up
    /\ \E c \in Booted(n) : nic' = [nic EXCEPT ![n] = c]
    /\ UNCHANGED <<inq, hubvars, packets, crashes, got>>

-----------------------------------------------------------------------------
(***************************************************************************)
(* The hub's loop.                                                         *)
(***************************************************************************)
(* Mutant: every packet adds its sender.                                   *)
checksender_again(s, addr) == Append(s, [addr |-> addr, errors |-> 0])

(* checksender: a known address keeps its entry, and its error count.      *)
checksender(s, addr) ==
    IF \E i \in 1 .. Len(s) : s[i].addr = addr
    THEN s ELSE Append(s, [addr |-> addr, errors |-> 0])

(* loop: bad packets are dropped, keepalives only make the sender known.   *)
loop_recv ==
    /\ hubup /\ fwd = NotForwarding /\ hubq # <<>>
    /\ hubq' = Tail(hubq)
    /\ LET p == Head(hubq)
       IN \/ p.runt /\ UNCHANGED <<senders, fwd>>
          \/ /\ ~p.runt /\ senders' = checksender(senders, p.from)
             /\ fwd' = IF p.to = HUB_ADDR THEN fwd ELSE [pkt |-> p, next |-> 1]
    /\ UNCHANGED <<nic, inq, hubup, packets, crashes, got>>

(* dosend, one sender: the origin of the packet gets it back, too.         *)
dosend ==
    /\ hubup /\ fwd # NotForwarding /\ fwd.next <= Len(senders)
    /\ LET n == senders[fwd.next].addr
       IN \/ /\ ~nic[n].up
             /\ senders' = [senders EXCEPT ![fwd.next].errors = @ + 1]
             /\ UNCHANGED inq
          \/ /\ nic[n].up /\ Len(inq[n]) < QLEN
             /\ inq' = [inq EXCEPT ![n] = Append(@, fwd.pkt)]
             /\ UNCHANGED senders
    /\ fwd' = [fwd EXCEPT !.next = @ + 1]
    /\ UNCHANGED <<nic, hubup, hubq, packets, crashes, got>>

Survivors == {i \in 1 .. Len(senders) : senders[i].errors <= DROP_ERRORS}

(* killsenders, after the packet has gone to everybody: the array closes   *)
(* up over the senders removed, and those kept stay in their order.        *)
killsenders ==
    /\ hubup /\ fwd # NotForwarding /\ fwd.next > Len(senders)
    /\ \E keep \in [1 .. Cardinality(Survivors) -> Survivors] :
         /\ \A j, k \in DOMAIN keep : j < k => keep[j] < keep[k]
         /\ senders' = [k \in DOMAIN keep |-> senders[keep[k]]]
    /\ fwd' = NotForwarding
    /\ UNCHANGED <<nic, inq, hubup, hubq, packets, crashes, got>>

HubDies ==
    /\ hubup /\ crashes < MaxCrashes /\ crashes' = crashes + 1
    /\ hubup' = FALSE /\ hubq' = <<>> /\ senders' = <<>> /\ fwd' = NotForwarding
    /\ UNCHANGED <<nic, inq, packets, got>>

HubStarts ==
    /\ ~hubup /\ hubup' = TRUE
    /\ UNCHANGED <<nic, inq, hubq, senders, fwd, packets, crashes, got>>

-----------------------------------------------------------------------------
NetNext ==
    \/ \E n \in Cards :
        \/ keepalive(n)
        \/ \E to \in Addressees : triggersend(n, to, FALSE)
        \/ triggersend(n, BROADCAST_ADDR, TRUE)
        \/ triggersend_toolong(n)
        \/ sendto(n)
        \/ \E promisc \in BOOLEAN : dorecv(n, promisc)
        \/ \E val \in BOOLEAN : setirq(n, val)
        \/ setctl_start(n)
        \/ illegal_store(n)
        \/ CardDies(n)
        \/ CardStarts(n)
    \/ loop_recv
    \/ dosend
    \/ killsenders
    \/ HubDies
    \/ HubStarts

NetSpec == NetInit /\ [][NetNext]_netVars

-----------------------------------------------------------------------------
(* While the receive interrupt register is set the kernel can copy the     *)
(* packet out: neither packets that arrive meanwhile nor other cards'      *)
(* packets touch it (dorecv's scratch buffer).                             *)
ReceivedStays ==
    \A n \in Cards :
        nic[n].up /\ nic[n].rirq /\ nic'[n].up /\ nic'[n].rirq => nic'[n].rbuf = nic[n].rbuf

(* The packet that a step delivers to n, if any.                           *)
Delivers(n) == nic[n].up /\ inq'[n] # inq[n] /\ ~nic[n].rirq /\ nic'[n].rirq

(* A card delivers the packets of one sender in the order they were sent   *)
(* and none twice, whatever died, was re-registered or dropped meanwhile:  *)
(* the hub knows every address at most once.  And what was delivered stays *)
(* in the receive buffer until the kernel has taken it.                    *)
PacketsDelivered ==
    [][/\ ReceivedStays
       /\ \A n \in Cards : Delivers(n) =>
            LET p == nic'[n].rbuf IN p.num > got[n][p.from]]_netVars
=============================================================================
