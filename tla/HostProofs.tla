----------------------------- MODULE HostProofs -----------------------------
(***************************************************************************)
(* Theorems about the simulator's dealings with host programs: the select  *)
(* dispatcher with its meter and debugger connections, for every number of *)
(* clients and descriptors; the debugger's stores to memory, for every     *)
(* address, length, word size and set of mapped addresses; and its packet  *)
(* stream, for every buffer a packet fits and every way of reading it.     *)
(***************************************************************************)
EXTENDS Sockets, Gdb, TLAPS, ProofBasics, FiniteSetTheorems, SequenceTheorems

-----------------------------------------------------------------------------
Kinds == {"none", "gdb_accepter", "meter_accept", "gdb_receive", "meter_receive"}
Entry == [fd : FD \cup {NoFd}, kind : Kinds, who : Clients \cup {Free}]

ReceiveKind(c) == IF c \in Debuggers THEN "gdb_receive" ELSE "meter_receive"
NewEntry(fd, c) == [fd |-> fd, kind |-> ReceiveKind(c), who |-> c]

(* Descriptor fd gets to mean x; client c gets into another state; slot k  *)
(* becomes free.                                                           *)
Plugged(tab, fd, x) == [tab EXCEPT ![fd] = x]
Became(cl, c, st)   == [cl EXCEPT ![c] = st]
Freed(s, k)         == [s EXCEPT ![k] = Unused]

(* The host's side.                                                        *)
HostOK(tab, cl, un) ==
    /\ tab \in [FD -> Clients \cup {Free, "listen"}] /\ tab[0] = "listen" /\ tab[1] = "listen"
    /\ cl \in [Clients -> {"out", "connecting", "connected", "gone", "done"}]
    /\ un \subseteq Clients

(* A table entry of a connection, with what the host has for it.           *)
Connection(e, tab, cl) ==
    /\ e.fd \in FD /\ e.who \in Clients /\ e.kind = ReceiveKind(e.who)
    /\ tab[e.fd] = e.who /\ cl[e.who] \in {"connected", "gone"}

(* The table: the two listeners first, then connections and free slots, no *)
(* client twice.                                                           *)
TableOK(s, tab, cl) ==
    /\ s \in Seq(Entry) /\ Len(s) >= 2
    /\ s[1] = [fd |-> 0, kind |-> "gdb_accepter", who |-> Free]
    /\ s[2] = [fd |-> 1, kind |-> "meter_accept", who |-> Free]
    /\ \A i \in 3 .. Len(s) : s[i] = Unused \/ Connection(s[i], tab, cl)
    /\ \A i, j \in 3 .. Len(s) : s[i].who = s[j].who /\ s[i].who # Free => i = j

(* A meter has a descriptor exactly while it has a slot, and then the      *)
(* slot's; it is allocated exactly while its update is pending.            *)
MeterRec == [allocated : BOOLEAN, fd : FD \cup {NoFd}, updates : 0 .. 1]
MetersOK(s, m) ==
    /\ m \in [Meters -> MeterRec]
    /\ \A c \in Meters :
         /\ m[c].allocated <=> m[c].updates = 1
         /\ m[c].fd # NoFd => m[c].allocated /\ \E i \in 3 .. Len(s) : s[i].who = c
         /\ \A i \in 3 .. Len(s) : s[i].who = c => s[i].fd = m[c].fd

DebugOK(s, g) ==
    /\ g \in BOOLEAN
    /\ g <=> \E i \in 3 .. Len(s) : s[i].kind = "gdb_receive"
    /\ \A i, j \in 3 .. Len(s) : s[i].kind = "gdb_receive" /\ s[j].kind = "gdb_receive" => i = j

(* tryselect's walk: while the listeners are served no free descriptor is  *)
(* in the set, and the connections still to be served have something to    *)
(* read.                                                                   *)
Reported(ms, fd) == \E r \in ms : r[1] = fd
WalkOK(s, tab, cl, un, ms, t) ==
    /\ t \in 0 .. Len(s)
    /\ t \in {1, 2} => \A fd \in FD : tab[fd] = Free => ~Reported(ms, fd)
    /\ t > 0 => \A i \in 3 .. Len(s) :
                  i >= t /\ s[i].who \in Clients /\ Reported(ms, s[i].fd)
                  => s[i].who \in un \/ cl[s[i].who] = "gone"

SockInv ==
    /\ HostOK(fdtab, client, unread)
    /\ TableOK(selections, fdtab, client)
    /\ MetersOK(selections, meter)
    /\ DebugOK(selections, g_ctx_inuse)
    /\ WalkOK(selections, fdtab, client, unread, myset, turn)

-----------------------------------------------------------------------------
(* accept() returns a free descriptor when there is one.                   *)
LEMMA NewFdFree ==
    ASSUME CanAccept
    PROVE  NewFd \in FD /\ fdtab[NewFd] = Free
<1> DEFINE T == {fd \in FD : fdtab[fd] = Free}
<1>1. T \subseteq Nat /\ T # {}
  BY SockAssumption DEF CanAccept, FD
<1>2. PICK x \in T : \A y \in T : x <= y
  <2> HIDE DEF T
  <2> QED BY <1>1, LeastNat
<1>3. x \in FD /\ fdtab[x] = Free /\ \A g \in FD : g < x => fdtab[g] # Free
  BY <1>2, SockAssumption DEF FD
<1> QED
  BY <1>3 DEF NewFd

(* onselect() puts the entry into a slot that was free or new, behind the  *)
(* listeners, and leaves all others alone.                                 *)
LEMMA OnselectDoes ==
    ASSUME NEW s \in Seq(Entry), Len(s) >= 2, s[1].fd # NoFd, s[2].fd # NoFd,
           NEW fd \in FD, NEW kind \in Kinds, NEW who \in Clients \cup {Free},
           NEW t, t = onselect(s, fd, kind, who)
    PROVE  /\ t \in Seq(Entry) /\ Len(t) >= Len(s)
           /\ \E k \in 3 .. Len(t) :
                /\ t[k] = [fd |-> fd, kind |-> kind, who |-> who]
                /\ k > Len(s) \/ s[k].fd = NoFd
                /\ \A i \in 1 .. Len(t) : i # k => i \in 1 .. Len(s) /\ t[i] = s[i]
<1> DEFINE e == [fd |-> fd, kind |-> kind, who |-> who]
           T == {i \in 1 .. Len(s) : s[i].fd = NoFd}
<1>1. e \in Entry
  BY DEF Entry
<1>2. Len(s) \in Nat
  OBVIOUS
<1>3. CASE T = {}
  <2>1. findsel(s) = Len(s) + 1
    BY <1>3 DEF findsel
  <2>2. t = Append(s, e)
    BY <2>1, <1>2 DEF onselect
  <2>3. t \in Seq(Entry) /\ Len(t) = Len(s) + 1 /\ t[Len(s) + 1] = e
        /\ \A i \in 1 .. Len(s) : t[i] = s[i]
    <3> HIDE DEF e
    <3> QED BY <2>2, <1>1
  <2> QED
    BY <2>3, <1>2
<1>4. CASE T # {}
  <2>1. T \subseteq Nat
    OBVIOUS
  <2>2. PICK x \in T : \A y \in T : x <= y
    <3> HIDE DEF T
    <3> QED BY <1>4, <2>1, LeastNat
  <2>3. x \in 1 .. Len(s) /\ s[x].fd = NoFd /\ \A j \in 1 .. x - 1 : s[j].fd # NoFd
    BY <2>2
  <2>4. findsel(s) \in 1 .. Len(s) /\ s[findsel(s)].fd = NoFd
    BY <2>3 DEF findsel
  <2> DEFINE k == findsel(s)
  <2>5. t = [s EXCEPT ![k] = e]
    BY <2>4 DEF onselect
  <2> HIDE DEF k, e
  <2>6. t \in Seq(Entry) /\ Len(t) = Len(s) /\ t[k] = e
        /\ \A i \in 1 .. Len(s) : i # k => t[i] = s[i]
    BY <2>4, <2>5, <1>1 DEF k
  <2>7. k \in 3 .. Len(t)
    BY <2>4, <2>6 DEF k
  <2> QED
    BY <2>4, <2>6, <2>7 DEF k, e
<1> QED
  BY <1>3, <1>4

(* Descriptors are not negative, clients are none of the marks.            *)
LEMMA Marks == NoFd \notin FD /\ Free \notin Clients /\ 0 \in FD /\ 1 \in FD /\ 0 # NoFd /\ 1 # NoFd
BY SockAssumption DEF NoFd, FD, Free

(* A new connection: the table gains its entry, and nobody else's changes. *)
LEMMA AcceptTable ==
    ASSUME NEW s, NEW tab, NEW cl, NEW un, HostOK(tab, cl, un), TableOK(s, tab, cl),
           NEW c \in Clients, cl[c] = "connecting", NEW fd \in FD, tab[fd] = Free,
           NEW t, t = onselect(s, fd, ReceiveKind(c), c),
           NEW tab2, tab2 = Plugged(tab, fd, c),
           NEW cl2, cl2 = Became(cl, c, "connected")
    PROVE  /\ HostOK(tab2, cl2, un) /\ TableOK(t, tab2, cl2) /\ Len(t) >= Len(s)
           /\ \E k \in 3 .. Len(t) :
                /\ t[k] = NewEntry(fd, c) /\ (k <= Len(s) => s[k] = Unused)
                /\ \A i \in 3 .. Len(t) : i # k => i <= Len(s) /\ t[i] = s[i] /\ t[i].who # c
<1> USE DEF Plugged, Became
<1>1. s \in Seq(Entry) /\ Len(s) >= 2 /\ s[1].fd # NoFd /\ s[2].fd # NoFd /\ Len(s) \in Nat
  BY Marks DEF TableOK
<1>2. ReceiveKind(c) \in Kinds /\ c \in Clients \cup {Free}
  BY DEF ReceiveKind, Kinds
<1>3. t \in Seq(Entry) /\ Len(t) >= Len(s) /\ Len(t) \in Nat
  <2>1. t \in Seq(Entry) /\ Len(t) >= Len(s)
    BY <1>1, <1>2, OnselectDoes
  <2> QED
    BY <2>1
<1>4. PICK k \in 3 .. Len(t) :
        /\ t[k] = NewEntry(fd, c) /\ (k > Len(s) \/ s[k].fd = NoFd)
        /\ \A i \in 1 .. Len(t) : i # k => i \in 1 .. Len(s) /\ t[i] = s[i]
  BY <1>1, <1>2, OnselectDoes DEF NewEntry
<1>5. k <= Len(s) => s[k] = Unused
  BY <1>1, <1>3, <1>4, Marks DEF TableOK, Connection
<1>6. ASSUME NEW i \in 3 .. Len(s), s[i] # Unused
      PROVE  s[i].who # c /\ s[i].fd # fd /\ s[i].who # Free /\ Connection(s[i], tab, cl)
  BY <1>6, Marks DEF TableOK, Connection
<1>7. Unused.who # c /\ Unused.who = Free
  BY Marks DEF Unused
<1>8. ASSUME NEW i \in 3 .. Len(t), i # k PROVE i \in 3 .. Len(s) /\ t[i] = s[i] /\ t[i].who # c
  BY <1>8, <1>1, <1>3, <1>4, <1>6, <1>7
<1>9. HostOK(tab2, cl2, un)
  BY Marks DEF HostOK, Free
<1>10. Connection(t[k], tab2, cl2)
  BY <1>4, Marks DEF NewEntry, Connection, HostOK
<1>11. ASSUME NEW i \in 3 .. Len(t) PROVE t[i] = Unused \/ Connection(t[i], tab2, cl2)
  <2>1. CASE i = k
    BY <2>1, <1>10
  <2>2. CASE i # k /\ t[i] # Unused
    <3>1. s[i].who # c /\ s[i].fd # fd /\ Connection(s[i], tab, cl) /\ t[i] = s[i]
      BY <1>6, <1>8, <2>2
    <3> QED
      BY <3>1 DEF Connection, HostOK
  <2> QED
    BY <2>1, <2>2
<1>12. ASSUME NEW i \in 3 .. Len(t), NEW j \in 3 .. Len(t), t[i].who = t[j].who, t[i].who # Free
       PROVE  i = j
  <2>1. t[k].who = c
    BY <1>4 DEF NewEntry
  <2>2. CASE i # k /\ j # k
    BY <1>8, <1>12, <2>2 DEF TableOK
  <2> QED
    BY <1>8, <1>12, <2>1, <2>2
<1>13. 1 \in 1 .. Len(t) /\ 2 \in 1 .. Len(t) /\ 1 # k /\ 2 # k
  BY <1>1, <1>3
<1>14. t[1] = s[1] /\ t[2] = s[2]
  BY <1>4, <1>13
<1>15. TableOK(t, tab2, cl2)
  <2>1. /\ s[1] = [fd |-> 0, kind |-> "gdb_accepter", who |-> Free]
        /\ s[2] = [fd |-> 1, kind |-> "meter_accept", who |-> Free]
    BY DEF TableOK
  <2>2. Len(t) >= 2
    BY <1>1, <1>3
  <2> QED
    BY <2>1, <2>2, <1>3, <1>11, <1>12, <1>14, Zenon DEF TableOK
<1> QED
  BY <1>3, <1>4, <1>5, <1>8, <1>9, <1>15

(* A connection that ends: its slot and descriptor are free again.         *)
LEMMA HangupTable ==
    ASSUME NEW s, NEW tab, NEW cl, NEW un, HostOK(tab, cl, un), TableOK(s, tab, cl),
           NEW k \in 3 .. Len(s), s[k] # Unused,
           NEW t, t = Freed(s, k),
           NEW tab2, tab2 = Plugged(tab, s[k].fd, Free),
           NEW cl2, cl2 = Became(cl, s[k].who, "done")
    PROVE  /\ HostOK(tab2, cl2, un) /\ TableOK(t, tab2, cl2) /\ Len(t) = Len(s)
           /\ t[k] = Unused /\ \A i \in 1 .. Len(s) : i # k => t[i] = s[i]
           /\ \A i \in 3 .. Len(s) : i # k => s[i].who # s[k].who
<1> USE DEF Plugged, Became, Freed
<1>1. s \in Seq(Entry) /\ Len(s) \in Nat /\ Unused \in Entry /\ k \in 1 .. Len(s) /\ Len(s) >= 2
  BY DEF TableOK, Unused, Entry, Kinds
<1>2. /\ t \in Seq(Entry) /\ Len(t) = Len(s) /\ t[k] = Unused
      /\ \A i \in 1 .. Len(s) : i # k => t[i] = s[i]
  BY <1>1
<1>3. Connection(s[k], tab, cl) /\ s[k].who # Free
  BY Marks DEF TableOK, Connection
<1>4. \A i \in 3 .. Len(s) : i # k => s[i].who # s[k].who
  BY <1>3 DEF TableOK
<1>5. HostOK(tab2, cl2, un)
  <2>1. tab2 \in [FD -> Clients \cup {Free, "listen"}] /\ s[k].fd # 0 /\ s[k].fd # 1
    BY <1>3, SockAssumption DEF HostOK, Connection
  <2> QED
    BY <1>3, <2>1, Marks DEF HostOK, Connection
<1>6. ASSUME NEW i \in 3 .. Len(t) PROVE t[i] = Unused \/ Connection(t[i], tab2, cl2)
  <2>1. CASE i # k /\ s[i] # Unused
    <3>1. t[i] = s[i] /\ Connection(s[i], tab, cl) /\ s[i].who # s[k].who
      BY <1>1, <1>2, <1>4, <2>1 DEF TableOK
    <3>2. s[i].fd # s[k].fd
      BY <3>1, <1>3 DEF Connection
    <3> QED
      BY <3>1, <3>2, <1>3 DEF Connection, HostOK
  <2> QED
    BY <2>1, <1>1, <1>2
<1>7. ASSUME NEW i \in 3 .. Len(t), NEW j \in 3 .. Len(t), t[i].who = t[j].who, t[i].who # Free
      PROVE  i = j
  <2>1. Unused.who = Free
    BY DEF Unused
  <2> QED
    BY <1>1, <1>2, <1>7, <2>1 DEF TableOK
<1>8. t[1] = s[1] /\ t[2] = s[2]
  BY <1>1, <1>2
<1> QED
  BY <1>1, <1>2, <1>4, <1>5, <1>6, <1>7, <1>8 DEF TableOK

-----------------------------------------------------------------------------
(* Which slot a handler is called for, and what it will find to read.      *)
LEMMA CalledSlot ==
    ASSUME SockInv, Called
    PROVE  /\ turn \in 1 .. Len(selections)
           /\ Slot.kind = "gdb_accepter" => turn = 1
           /\ Slot.kind = "meter_accept" => turn = 2
           /\ Slot.kind \in {"gdb_receive", "meter_receive"} =>
                /\ turn \in 3 .. Len(selections) /\ Slot # Unused
                /\ Connection(Slot, fdtab, client) /\ Peer = Slot.who
                /\ Slot.who \in unread \/ client[Slot.who] = "gone"
<1>1. turn \in 1 .. Len(selections) /\ Slot = selections[turn]
  BY DEF SockInv, WalkOK, Called, Slot
<1>2. turn = 1 => Slot.kind = "gdb_accepter"
  BY <1>1 DEF SockInv, TableOK
<1>3. turn = 2 => Slot.kind = "meter_accept"
  BY <1>1 DEF SockInv, TableOK
<1>4. ASSUME turn >= 3
      PROVE  /\ Slot # Unused /\ Connection(Slot, fdtab, client) /\ Peer = Slot.who
             /\ Slot.kind \in {"gdb_receive", "meter_receive"}
             /\ Slot.who \in unread \/ client[Slot.who] = "gone"
  <2>1. turn \in 3 .. Len(selections)
    BY <1>1, <1>4
  <2>2. Slot # Unused
    BY DEF Called, Unused
  <2>3. Connection(Slot, fdtab, client)
    BY <1>1, <2>1, <2>2 DEF SockInv, TableOK
  <2>4. Reported(myset, Slot.fd)
    BY DEF Called, Reported
  <2>5. Slot.who \in unread \/ client[Slot.who] = "gone"
    BY <1>1, <2>1, <2>3, <2>4 DEF SockInv, WalkOK, Connection
  <2> QED
    BY <2>2, <2>3, <2>5 DEF Connection, Peer, ReceiveKind
<1> QED
  BY <1>1, <1>2, <1>3, <1>4

(* The walk goes to the next slot or ends.                                 *)
LEMMA NextSlot ==
    ASSUME SockInv, turn \in 1 .. Len(selections), EndOfTurn,
           Len(selections') \in Nat, Len(selections') >= Len(selections)
    PROVE  turn' \in 0 .. Len(selections') /\ (turn' = 0 \/ turn' = turn + 1)
BY DEF EndOfTurn, SockInv, TableOK

(* A step that changes neither table nor connections, and moves on.        *)
LEMMA WalkOn ==
    ASSUME NEW s, NEW tab, NEW cl, NEW un, NEW ms, NEW t, NEW u,
           WalkOK(s, tab, cl, un, ms, t), s \in Seq(Entry),
           u \in 0 .. Len(s), u = 0 \/ u = t + 1 \/ u = t, t > 0 \/ u = 0
    PROVE  WalkOK(s, tab, cl, un, ms, u)
BY DEF WalkOK

LEMMA InitSockInv == SockInit => SockInv
<1> SUFFICES ASSUME SockInit PROVE SockInv
  OBVIOUS
<1>1. HostOK(fdtab, client, unread)
  BY Marks DEF SockInit, HostOK, Free
<1>2. Len(selections) = 2 /\ selections \in Seq(Entry)
  <2>1. [fd |-> 0, kind |-> "gdb_accepter", who |-> Free] \in Entry
    BY Marks DEF Entry, Kinds
  <2>2. [fd |-> 1, kind |-> "meter_accept", who |-> Free] \in Entry
    BY Marks DEF Entry, Kinds
  <2> QED
    BY <2>1, <2>2 DEF SockInit
<1>3. TableOK(selections, fdtab, client)
  BY <1>2 DEF SockInit, TableOK
<1>4. MetersOK(selections, meter)
  BY <1>2 DEF SockInit, MetersOK, NoMeter, MeterRec
<1>5. DebugOK(selections, g_ctx_inuse)
  <2>1. 3 .. Len(selections) = {}
    BY <1>2
  <2>2. g_ctx_inuse = FALSE
    BY DEF SockInit
  <2> QED
    BY <2>1, <2>2, Zenon DEF DebugOK
<1>6. WalkOK(selections, fdtab, client, unread, myset, turn)
  BY <1>2 DEF SockInit, WalkOK
<1> QED
  BY <1>1, <1>3, <1>4, <1>5, <1>6 DEF SockInv

(* The clients.                                                            *)
LEMMA ClientKeeps ==
    ASSUME SockInv, NEW c \in Clients, ClientActs(c)
    PROVE  SockInv'
<1>1. UNCHANGED <<selections, fdtab, myset, turn, meter, g_ctx_inuse>>
  BY DEF ClientActs
<1>2. HostOK(fdtab, client', unread')
  BY DEF SockInv, HostOK, ClientActs
<1>3. ASSUME NEW d \in Clients
      PROVE  /\ client[d] \in {"connected", "gone"} => client'[d] \in {"connected", "gone"}
             /\ client[d] = "gone" => client'[d] = "gone"
             /\ d \in unread => d \in unread'
  BY DEF SockInv, HostOK, ClientActs
<1>4. TableOK(selections, fdtab, client')
  <2>1. ASSUME NEW e, Connection(e, fdtab, client) PROVE Connection(e, fdtab, client')
    BY <2>1, <1>3 DEF Connection
  <2> QED
    BY <2>1 DEF SockInv, TableOK
<1>5. WalkOK(selections, fdtab, client', unread', myset, turn)
  BY <1>3 DEF SockInv, WalkOK
<1> QED
  BY <1>1, <1>2, <1>4, <1>5 DEF SockInv

(* select() never reports a descriptor that is not in use.                 *)
LEMMA SelectKeeps ==
    ASSUME SockInv, tryselect
    PROVE  SockInv'
<1>1. UNCHANGED <<selections, fdtab, client, unread, meter, g_ctx_inuse>> /\ turn' = 1
  BY DEF tryselect
<1>2. ASSUME NEW fd, Reported(myset', fd) PROVE fd \in FD /\ Readable(fd)
  BY <1>2 DEF tryselect, Reported
<1>3. ASSUME NEW fd \in FD, Readable(fd), fd \notin {0, 1}
      PROVE  fdtab[fd] \in unread \/ (fdtab[fd] \in Clients /\ client[fdtab[fd]] = "gone")
  <2>1. ASSUME NEW i \in 1 .. Len(selections), selections[i].fd = fd
        PROVE  selections[i].kind \notin {"gdb_accepter", "meter_accept"}
    <3>1. i # 1 /\ i # 2
      BY <1>3, <2>1 DEF SockInv, TableOK
    <3>2. i \in 3 .. Len(selections)
      BY <3>1 DEF SockInv, TableOK
    <3> QED
      BY <3>2 DEF SockInv, TableOK, Connection, ReceiveKind, Unused
  <2> QED
    BY <1>3, <2>1 DEF Readable
<1>4. ASSUME NEW fd \in FD, fdtab[fd] = Free PROVE ~Reported(myset', fd)
  <2>1. fd \notin {0, 1}
    BY <1>4 DEF SockInv, HostOK, Free
  <2> QED
    BY <2>1, <1>2, <1>3, <1>4, Marks DEF SockInv, HostOK
<1>5. ASSUME NEW i \in 3 .. Len(selections), selections[i].who \in Clients,
             Reported(myset', selections[i].fd)
      PROVE  selections[i].who \in unread \/ client[selections[i].who] = "gone"
  <2>1. Connection(selections[i], fdtab, client)
    BY <1>5, Marks DEF SockInv, TableOK, Unused
  <2>2. selections[i].fd \notin {0, 1}
    BY <2>1, SockAssumption DEF SockInv, HostOK, Connection
  <2> QED
    BY <2>1, <2>2, <1>2, <1>3, <1>5 DEF Connection
<1>6. WalkOK(selections, fdtab, client, unread, myset', turn')
  BY <1>1, <1>4, <1>5 DEF WalkOK, SockInv, TableOK
<1> QED
  BY <1>1, <1>6 DEF SockInv

(* A slot that is not reported, and an accept() that fails.                *)
LEMMA SkipKeeps ==
    ASSUME SockInv, turn > 0, EndOfTurn,
           UNCHANGED <<selections, fdtab, client, unread, myset, meter, g_ctx_inuse>>
    PROVE  SockInv'
<1>1. turn \in 1 .. Len(selections) /\ selections \in Seq(Entry) /\ Len(selections) \in Nat
  BY DEF SockInv, WalkOK, TableOK
<1>2. turn' \in 0 .. Len(selections) /\ (turn' = 0 \/ turn' = turn + 1)
  BY <1>1, NextSlot
<1>3. WalkOK(selections, fdtab, client, unread, myset, turn')
  BY <1>1, <1>2, WalkOn DEF SockInv
<1> QED
  BY <1>3 DEF SockInv

(* What an accept, of either kind, does to the walk.                       *)
LEMMA AcceptWalk ==
    ASSUME SockInv, turn \in {1, 2}, EndOfTurn, UNCHANGED <<unread, myset>>,
           NEW c \in Clients, client[c] = "connecting", CanAccept,
           fdtab' = Plugged(fdtab, NewFd, c),
           client' = Became(client, c, "connected"),
           selections' = onselect(selections, NewFd, ReceiveKind(c), c)
    PROVE  /\ HostOK(fdtab', client', unread') /\ TableOK(selections', fdtab', client')
           /\ WalkOK(selections', fdtab', client', unread', myset', turn')
           /\ \E k \in 3 .. Len(selections') :
                /\ selections'[k] = NewEntry(NewFd, c)
                /\ k <= Len(selections) => selections[k] = Unused
                /\ \A i \in 3 .. Len(selections') :
                     i # k => /\ i <= Len(selections) /\ selections'[i] = selections[i]
                              /\ selections'[i].who # c
                /\ \A i \in 3 .. Len(selections) : i # k => selections'[i] = selections[i]
                /\ Len(selections') >= Len(selections)
<1> DEFINE fd == NewFd
<1>1. fd \in FD /\ fdtab[fd] = Free
  BY NewFdFree
<1> HIDE DEF fd
<1>2. /\ HostOK(fdtab', client', unread) /\ TableOK(selections', fdtab', client')
      /\ Len(selections') >= Len(selections)
      /\ \E k \in 3 .. Len(selections') :
           /\ selections'[k] = NewEntry(fd, c)
           /\ k <= Len(selections) => selections[k] = Unused
           /\ \A i \in 3 .. Len(selections') :
                i # k => i <= Len(selections) /\ selections'[i] = selections[i] /\ selections'[i].who # c
  <2>1. HostOK(fdtab, client, unread) /\ TableOK(selections, fdtab, client)
    BY DEF SockInv
  <2>2. /\ fdtab' = Plugged(fdtab, fd, c) /\ client' = Became(client, c, "connected")
        /\ selections' = onselect(selections, fd, ReceiveKind(c), c)
    BY DEF fd
  <2>3. HostOK(fdtab', client', unread)
    BY <1>1, <2>1, <2>2, AcceptTable
  <2>4. TableOK(selections', fdtab', client')
    BY <1>1, <2>1, <2>2, AcceptTable
  <2>5. Len(selections') >= Len(selections)
    BY <1>1, <2>1, <2>2, AcceptTable
  <2>6. \E k \in 3 .. Len(selections') :
           /\ selections'[k] = NewEntry(fd, c)
           /\ k <= Len(selections) => selections[k] = Unused
           /\ \A i \in 3 .. Len(selections') :
                i # k => i <= Len(selections) /\ selections'[i] = selections[i] /\ selections'[i].who # c
    BY <1>1, <2>1, <2>2, AcceptTable
  <2> QED
    BY <2>3, <2>4, <2>5, <2>6
<1>3. PICK k \in 3 .. Len(selections') :
           /\ selections'[k] = NewEntry(fd, c)
           /\ k <= Len(selections) => selections[k] = Unused
           /\ \A i \in 3 .. Len(selections') :
                i # k => i <= Len(selections) /\ selections'[i] = selections[i] /\ selections'[i].who # c
  BY <1>2
<1>4. /\ Len(selections) \in Nat /\ Len(selections') \in Nat /\ Len(selections) >= 2
      /\ Len(selections') >= Len(selections)
  BY <1>2 DEF SockInv, TableOK
<1>5. \A i \in 3 .. Len(selections) : i # k => selections'[i] = selections[i]
  BY <1>3, <1>4
<1>6. turn' \in 0 .. Len(selections') /\ (turn' = 0 \/ turn' = turn + 1)
  BY <1>4, NextSlot
<1>7. ASSUME NEW g \in FD, fdtab'[g] = Free PROVE fdtab[g] = Free /\ ~Reported(myset, g)
  BY <1>1, <1>7, Marks DEF SockInv, HostOK, WalkOK, fd, Plugged
<1>8. ~Reported(myset, fd)
  BY <1>1 DEF SockInv, WalkOK
<1>9. ASSUME NEW i \in 3 .. Len(selections'), i >= turn', selections'[i].who \in Clients,
             Reported(myset, selections'[i].fd), turn' > 0
      PROVE  selections'[i].who \in unread \/ client'[selections'[i].who] = "gone"
  <2>1. i # k
    BY <1>3, <1>8, <1>9 DEF NewEntry
  <2>2. selections'[i] = selections[i] /\ selections[i].who # c /\ i \in 3 .. Len(selections)
    BY <1>3, <1>4, <2>1
  <2>3. selections[i].who \in unread \/ client[selections[i].who] = "gone"
    BY <1>9, <2>2, <1>6 DEF SockInv, WalkOK
  <2> QED
    BY <1>9, <2>2, <2>3 DEF SockInv, HostOK, Became
<1>10. WalkOK(selections', fdtab', client', unread', myset', turn')
  BY <1>6, <1>7, <1>9 DEF WalkOK
<1> QED
  BY <1>2, <1>3, <1>4, <1>5, <1>10 DEF fd

(* meter_accept: the new structure has the slot just filled and an update. *)
LEMMA MeterAcceptKeeps ==
    ASSUME SockInv, meter_accept
    PROVE  SockInv'
<1>1. turn = 2
  BY CalledSlot DEF meter_accept
<1>2. PICK c \in Queued("meter_accept") :
         /\ fdtab' = Plugged(fdtab, NewFd, c)
         /\ client' = Became(client, c, "connected")
         /\ selections' = onselect(selections, NewFd, "meter_receive", c)
         /\ meter' = [meter EXCEPT ![c] = [allocated |-> TRUE, fd |-> NewFd, updates |-> 1]]
  BY DEF meter_accept, Plugged, Became
<1>3. c \in Clients /\ c \in Meters /\ client[c] = "connecting" /\ ReceiveKind(c) = "meter_receive"
  BY DEF Queued, Meters, ReceiveKind
<1>4. EndOfTurn /\ UNCHANGED <<unread, myset, g_ctx_inuse>> /\ CanAccept
  BY DEF meter_accept
<1>5. HostOK(fdtab', client', unread') /\ TableOK(selections', fdtab', client')
      /\ WalkOK(selections', fdtab', client', unread', myset', turn')
  BY <1>1, <1>2, <1>3, <1>4, AcceptWalk
<1>6. PICK k \in 3 .. Len(selections') :
                /\ selections'[k] = NewEntry(NewFd, c)
                /\ k <= Len(selections) => selections[k] = Unused
                /\ \A i \in 3 .. Len(selections') :
                     i # k => /\ i <= Len(selections) /\ selections'[i] = selections[i]
                              /\ selections'[i].who # c
                /\ \A i \in 3 .. Len(selections) : i # k => selections'[i] = selections[i]
                /\ Len(selections') >= Len(selections)
  BY <1>1, <1>2, <1>3, <1>4, AcceptWalk
<1>7. NewFd \in FD /\ NewFd # NoFd
  BY <1>4, NewFdFree, Marks
<1>8. Len(selections) \in Nat /\ Len(selections') \in Nat
  BY <1>5 DEF SockInv, TableOK
<1> DEFINE fd == NewFd
<1> HIDE DEF fd
<1>9. MetersOK(selections', meter')
  <2>1. meter' = [meter EXCEPT ![c] = [allocated |-> TRUE, fd |-> fd, updates |-> 1]] /\ fd \in FD
    BY <1>2, <1>7 DEF fd
  <2>2. meter' \in [Meters -> MeterRec]
    <3>1. [allocated |-> TRUE, fd |-> fd, updates |-> 1] \in MeterRec
      BY <2>1 DEF MeterRec
    <3> QED
      BY <2>1, <3>1 DEF SockInv, MetersOK
  <2>3. selections'[k].who = c /\ selections'[k].fd = fd
    BY <1>6 DEF NewEntry, fd
  <2>4. meter'[c].fd = fd /\ meter'[c].allocated /\ meter'[c].updates = 1
    BY <2>1, <1>3 DEF SockInv, MetersOK
  <2>5. ASSUME NEW d \in Meters, d # c PROVE meter'[d] = meter[d]
    BY <2>1, <2>5 DEF SockInv, MetersOK
  <2>6. ASSUME NEW d \in Meters, d # c, NEW i \in 3 .. Len(selections'), selections'[i].who = d
        PROVE  i \in 3 .. Len(selections) /\ selections[i].who = d /\ selections'[i] = selections[i]
    BY <1>6, <1>8, <2>3, <2>6
  <2>7. ASSUME NEW d \in Meters, d # c, NEW i \in 3 .. Len(selections), selections[i].who = d
        PROVE  i \in 3 .. Len(selections') /\ selections'[i].who = d
    BY <1>6, <1>8, <2>7, Marks DEF Unused, Meters
  <2>8. ASSUME NEW d \in Meters, d # c
        PROVE  /\ meter'[d].allocated <=> meter'[d].updates = 1
               /\ meter'[d].fd # NoFd => meter'[d].allocated
                                         /\ \E i \in 3 .. Len(selections') : selections'[i].who = d
               /\ \A i \in 3 .. Len(selections') : selections'[i].who = d => selections'[i].fd = meter'[d].fd
    BY <2>5, <2>6, <2>7, <2>8 DEF SockInv, MetersOK
  <2>9. \A i \in 3 .. Len(selections') : selections'[i].who = c => selections'[i].fd = meter'[c].fd
    BY <1>6, <2>3, <2>4
  <2> QED
    BY <2>2, <2>3, <2>4, <2>8, <2>9 DEF MetersOK
<1>10. DebugOK(selections', g_ctx_inuse')
  <2>1. selections'[k].kind = "meter_receive"
    BY <1>3, <1>6 DEF NewEntry
  <2>2. ASSUME NEW i \in 3 .. Len(selections'), selections'[i].kind = "gdb_receive"
        PROVE  i \in 3 .. Len(selections) /\ selections[i].kind = "gdb_receive"
    BY <1>6, <1>8, <2>1, <2>2
  <2>3. ASSUME NEW i \in 3 .. Len(selections), selections[i].kind = "gdb_receive"
        PROVE  i \in 3 .. Len(selections') /\ selections'[i].kind = "gdb_receive"
    BY <1>6, <1>8, <2>3 DEF Unused
  <2> QED
    BY <1>4, <2>2, <2>3, Zenon DEF SockInv, DebugOK
<1> QED
  BY <1>5, <1>9, <1>10 DEF SockInv

(* accepter: the first debugger takes the context, others are sent away.   *)
LEMMA GdbAcceptKeeps ==
    ASSUME SockInv, gdb_accepter
    PROVE  SockInv'
<1>1. turn = 1 /\ turn \in 1 .. Len(selections)
  BY CalledSlot DEF gdb_accepter
<1>2. EndOfTurn /\ UNCHANGED <<unread, myset, meter>> /\ CanAccept
  BY DEF gdb_accepter
<1>3. PICK c \in Queued("gdb_accepter") :
         \/ /\ g_ctx_inuse /\ client' = Became(client, c, "done")
            /\ UNCHANGED <<fdtab, selections, g_ctx_inuse>>
         \/ /\ ~g_ctx_inuse /\ g_ctx_inuse' = TRUE
            /\ fdtab' = Plugged(fdtab, NewFd, c)
            /\ client' = Became(client, c, "connected")
            /\ selections' = onselect(selections, NewFd, "gdb_receive", c)
  BY DEF gdb_accepter, Became, Plugged
<1>4. c \in Clients /\ c \notin Meters /\ client[c] = "connecting" /\ ReceiveKind(c) = "gdb_receive"
  BY DEF Queued, Meters, ReceiveKind
<1>5. CASE client' = Became(client, c, "done") /\ UNCHANGED <<fdtab, selections, g_ctx_inuse>>
  <2>1. selections \in Seq(Entry) /\ Len(selections) \in Nat
    BY DEF SockInv, TableOK
  <2>2. turn' \in 0 .. Len(selections) /\ (turn' = 0 \/ turn' = turn + 1)
    BY <1>1, <1>2, <1>5, <2>1, NextSlot
  <2>3. WalkOK(selections, fdtab, client, unread, myset, turn')
    BY <1>1, <2>1, <2>2, WalkOn DEF SockInv
  <2>4. ASSUME NEW d \in Clients, client[d] \in {"connected", "gone"} PROVE client'[d] = client[d]
    BY <1>4, <1>5, <2>4 DEF Became, SockInv, HostOK
  <2>5. HostOK(fdtab, client', unread)
    BY <1>5 DEF Became, SockInv, HostOK
  <2>6. TableOK(selections, fdtab, client')
    <3>1. ASSUME NEW e, Connection(e, fdtab, client) PROVE Connection(e, fdtab, client')
      BY <3>1, <2>4 DEF Connection
    <3> QED
      BY <3>1 DEF SockInv, TableOK
  <2>7. WalkOK(selections, fdtab, client', unread, myset, turn')
    BY <2>3, <2>4 DEF WalkOK
  <2> QED
    BY <1>2, <1>5, <2>5, <2>6, <2>7 DEF SockInv
<1>6. CASE /\ ~g_ctx_inuse /\ g_ctx_inuse' = TRUE /\ fdtab' = Plugged(fdtab, NewFd, c)
           /\ client' = Became(client, c, "connected")
           /\ selections' = onselect(selections, NewFd, "gdb_receive", c)
  <2>1. HostOK(fdtab', client', unread') /\ TableOK(selections', fdtab', client')
        /\ WalkOK(selections', fdtab', client', unread', myset', turn')
    BY <1>1, <1>2, <1>4, <1>6, AcceptWalk
  <2>2. PICK k \in 3 .. Len(selections') :
                /\ selections'[k] = NewEntry(NewFd, c)
                /\ k <= Len(selections) => selections[k] = Unused
                /\ \A i \in 3 .. Len(selections') :
                     i # k => /\ i <= Len(selections) /\ selections'[i] = selections[i]
                              /\ selections'[i].who # c
                /\ \A i \in 3 .. Len(selections) : i # k => selections'[i] = selections[i]
                /\ Len(selections') >= Len(selections)
    BY <1>1, <1>2, <1>4, <1>6, AcceptWalk
  <2>3. Len(selections) \in Nat /\ Len(selections') \in Nat
    BY <2>1 DEF SockInv, TableOK
  <2>4. selections'[k].who = c /\ selections'[k].kind = "gdb_receive"
    BY <2>2, <1>4 DEF NewEntry
  <2>5. MetersOK(selections', meter')
    <3>1. ASSUME NEW d \in Meters, NEW i \in 3 .. Len(selections'), selections'[i].who = d
          PROVE  i \in 3 .. Len(selections) /\ selections'[i] = selections[i]
      BY <1>4, <2>2, <2>3, <2>4, <3>1
    <3>2. ASSUME NEW d \in Meters, NEW i \in 3 .. Len(selections), selections[i].who = d
          PROVE  i \in 3 .. Len(selections') /\ selections'[i].who = d
      BY <2>2, <2>3, <3>2, Marks DEF Unused, Meters
    <3> QED
      BY <1>2, <3>1, <3>2 DEF SockInv, MetersOK
  <2>6. DebugOK(selections', g_ctx_inuse')
    <3>1. ASSUME NEW i \in 3 .. Len(selections'), selections'[i].kind = "gdb_receive" PROVE i = k
      BY <1>6, <2>2, <2>3, <3>1 DEF SockInv, DebugOK
    <3> QED
      BY <1>6, <2>4, <3>1, Zenon DEF DebugOK
  <2> QED
    BY <2>1, <2>5, <2>6 DEF SockInv
<1> QED
  BY <1>3, <1>5, <1>6

(* A handler that reads, and leaves the connection alone.                  *)
LEMMA ReadWalk ==
    ASSUME SockInv, Called, Slot.kind \in {"gdb_receive", "meter_receive"},
           unread' = unread \ {Peer}, UNCHANGED <<selections, fdtab, client, myset>>, EndOfTurn
    PROVE  /\ HostOK(fdtab', client', unread') /\ TableOK(selections', fdtab', client')
           /\ WalkOK(selections', fdtab', client', unread', myset', turn')
<1>1. /\ turn \in 3 .. Len(selections) /\ Connection(Slot, fdtab, client) /\ Peer = Slot.who
      /\ Slot = selections[turn]
  BY CalledSlot DEF Slot
<1>2. selections \in Seq(Entry) /\ Len(selections) \in Nat
  BY DEF SockInv, TableOK
<1>3. turn' \in 0 .. Len(selections) /\ (turn' = 0 \/ turn' = turn + 1)
  BY <1>1, <1>2, NextSlot
<1>4. WalkOK(selections, fdtab, client, unread, myset, turn')
  BY <1>1, <1>2, <1>3, WalkOn DEF SockInv
<1>5. ASSUME NEW i \in 3 .. Len(selections), i >= turn', turn' > 0, selections[i].who \in unread
      PROVE  selections[i].who \in unread'
  BY <1>1, <1>2, <1>3, <1>5, Marks DEF SockInv, TableOK, HostOK
<1>6. WalkOK(selections, fdtab, client, unread', myset, turn')
  BY <1>4, <1>5 DEF WalkOK
<1> QED
  BY <1>6 DEF SockInv, HostOK

(* A handler that closes its connection.                                   *)
LEMMA HangupWalk ==
    ASSUME SockInv, Called, Slot.kind \in {"gdb_receive", "meter_receive"},
           Hangup, UNCHANGED <<unread, myset>>, EndOfTurn
    PROVE  /\ HostOK(fdtab', client', unread') /\ TableOK(selections', fdtab', client')
           /\ WalkOK(selections', fdtab', client', unread', myset', turn')
           /\ Len(selections') = Len(selections) /\ selections'[turn] = Unused
           /\ \A i \in 3 .. Len(selections) :
                i # turn => selections'[i] = selections[i] /\ selections[i].who # Slot.who
<1> DEFINE k == turn
<1>1. /\ k \in 3 .. Len(selections) /\ selections[k] # Unused
      /\ Connection(selections[k], fdtab, client) /\ Slot = selections[k]
      /\ turn \in 1 .. Len(selections)
  BY CalledSlot DEF Slot
<1>2. selections \in Seq(Entry) /\ Len(selections) \in Nat
  BY DEF SockInv, TableOK
<1>3. HostOK(fdtab, client, unread) /\ TableOK(selections, fdtab, client)
  BY DEF SockInv
<1>4. /\ selections' = Freed(selections, k)
      /\ fdtab' = Plugged(fdtab, selections[k].fd, Free)
      /\ client' = Became(client, selections[k].who, "done")
  BY <1>1 DEF Hangup, Plugged, Became, Freed
<1> HIDE DEF k
<1>5. /\ HostOK(fdtab', client', unread) /\ TableOK(selections', fdtab', client')
      /\ Len(selections') = Len(selections) /\ selections'[k] = Unused
      /\ \A i \in 1 .. Len(selections) : i # k => selections'[i] = selections[i]
      /\ \A i \in 3 .. Len(selections) : i # k => selections[i].who # selections[k].who
  BY <1>1, <1>3, <1>4, HangupTable
<1>6. turn' \in 0 .. Len(selections') /\ (turn' = 0 \/ turn' = k + 1)
  <2>1. Len(selections') \in Nat /\ Len(selections') >= Len(selections)
    BY <1>2, <1>5
  <2> QED
    BY <1>1, <2>1, NextSlot DEF k
<1>7. WalkOK(selections', fdtab', client', unread', myset', turn')
  <2>1. ASSUME NEW i \in 3 .. Len(selections'), i >= turn', turn' > 0,
               selections'[i].who \in Clients, Reported(myset, selections'[i].fd)
        PROVE  selections'[i].who \in unread \/ client'[selections'[i].who] = "gone"
    <3>1. i \in 3 .. Len(selections) /\ i # k /\ i >= k /\ k > 0
      BY <1>1, <1>2, <1>5, <1>6, <2>1
    <3>2. selections'[i] = selections[i] /\ selections[i].who # selections[k].who
      BY <1>5, <3>1
    <3>3. selections[i].who \in unread \/ client[selections[i].who] = "gone"
      BY <2>1, <3>1, <3>2 DEF SockInv, WalkOK, k
    <3> QED
      BY <1>3, <1>4, <2>1, <3>2, <3>3 DEF HostOK, Became
  <2>2. turn' \notin {1, 2}
    BY <1>1, <1>6
  <2> QED
    BY <1>6, <2>1, <2>2 DEF WalkOK
<1>8. \A i \in 3 .. Len(selections) :
        i # k => selections'[i] = selections[i] /\ selections[i].who # Slot.who
  BY <1>1, <1>5
<1> QED
  BY <1>5, <1>7, <1>8 DEF k

(* The slots left by a hangup, for the meters and the debugger.            *)
LEMMA HangupMeters ==
    ASSUME NEW s, NEW t, NEW k \in 3 .. Len(s), NEW m, MetersOK(s, m),
           Len(t) = Len(s), t[k] = Unused, s \in Seq(Entry),
           \A i \in 3 .. Len(s) : i # k => t[i] = s[i] /\ s[i].who # s[k].who,
           NEW m2 \in [Meters -> MeterRec],
           \A d \in Meters : d # s[k].who => m2[d] = m[d],
           s[k].who \in Meters => /\ m2[s[k].who].fd = NoFd
                                  /\ m2[s[k].who].allocated <=> m2[s[k].who].updates = 1
    PROVE  MetersOK(t, m2)
<1>1. Unused.who \notin Meters
  BY Marks DEF Unused, Meters
<1>2. ASSUME NEW d \in Meters
      PROVE  /\ m2[d].allocated <=> m2[d].updates = 1
             /\ m2[d].fd # NoFd => m2[d].allocated /\ \E i \in 3 .. Len(t) : t[i].who = d
             /\ \A i \in 3 .. Len(t) : t[i].who = d => t[i].fd = m2[d].fd
  <2>1. CASE d = s[k].who
    <3>1. ASSUME NEW i \in 3 .. Len(t) PROVE t[i].who # d
      BY <1>1, <2>1
    <3> QED
      BY <2>1, <3>1
  <2>2. CASE d # s[k].who
    <3>1. m2[d] = m[d]
      BY <2>2
    <3>2. ASSUME NEW i \in 3 .. Len(s), s[i].who = d PROVE t[i].who = d
      BY <2>2, <3>2
    <3>3. ASSUME NEW i \in 3 .. Len(t), t[i].who = d PROVE i \in 3 .. Len(s) /\ t[i] = s[i]
      BY <1>1, <3>3
    <3> QED
      BY <3>1, <3>2, <3>3 DEF MetersOK
  <2> QED
    BY <2>1, <2>2
<1> QED
  BY <1>2 DEF MetersOK

(* meter_receive.                                                          *)
LEMMA MeterReceiveKeeps ==
    ASSUME SockInv, meter_receive
    PROVE  SockInv'
<1>1. /\ Called /\ Slot.kind \in {"gdb_receive", "meter_receive"} /\ Slot.kind = "meter_receive"
      /\ EndOfTurn /\ UNCHANGED <<myset, g_ctx_inuse>>
  BY DEF meter_receive
<1>2. CASE unread' = unread \ {Peer} /\ UNCHANGED <<selections, fdtab, client, meter>>
  <2>1. /\ HostOK(fdtab', client', unread') /\ TableOK(selections', fdtab', client')
        /\ WalkOK(selections', fdtab', client', unread', myset', turn')
    BY <1>1, <1>2, ReadWalk
  <2> QED
    BY <1>1, <1>2, <2>1 DEF SockInv
<1>3. CASE Hangup /\ meter' = [meter EXCEPT ![Slot.who] = meter_close(@)] /\ UNCHANGED unread
  <2>1. /\ HostOK(fdtab', client', unread') /\ TableOK(selections', fdtab', client')
        /\ WalkOK(selections', fdtab', client', unread', myset', turn')
    BY <1>1, <1>3, HangupWalk
  <2>2. /\ Len(selections') = Len(selections) /\ selections'[turn] = Unused
        /\ \A i \in 3 .. Len(selections) :
             i # turn => selections'[i] = selections[i] /\ selections[i].who # Slot.who
    BY <1>1, <1>3, HangupWalk
  <2>3. /\ turn \in 3 .. Len(selections) /\ Slot = selections[turn]
        /\ Connection(Slot, fdtab, client) /\ Slot.who \in Meters
    <3>1. turn \in 3 .. Len(selections) /\ Connection(Slot, fdtab, client)
      BY <1>1, CalledSlot
    <3> QED
      BY <1>1, <3>1 DEF Slot, Connection, ReceiveKind, Meters
  <2>4. selections \in Seq(Entry) /\ Len(selections) \in Nat /\ MetersOK(selections, meter)
    BY DEF SockInv, TableOK
  <2> DEFINE w == Slot.who
  <2>5. w \in Meters /\ meter' = [meter EXCEPT ![w] = meter_close(@)] /\ meter \in [Meters -> MeterRec]
    BY <1>3, <2>3, <2>4 DEF MetersOK
  <2> HIDE DEF w
  <2>6. /\ meter' \in [Meters -> MeterRec] /\ meter'[w].fd = NoFd
        /\ meter'[w].allocated = meter[w].allocated /\ meter'[w].updates = meter[w].updates
        /\ \A d \in Meters : d # w => meter'[d] = meter[d]
    <3>1. meter[w] \in MeterRec
      BY <2>5
    <3>2. /\ meter_close(meter[w]) \in MeterRec /\ meter_close(meter[w]).fd = NoFd
          /\ meter_close(meter[w]).allocated = meter[w].allocated
          /\ meter_close(meter[w]).updates = meter[w].updates
      BY <3>1 DEF MeterRec, meter_close
    <3> QED
      BY <2>5, <3>2
  <2>7. MetersOK(selections', meter')
    <3>1. meter[w].allocated <=> meter[w].updates = 1
      BY <2>4, <2>5 DEF MetersOK
    <3>2. w = selections[turn].who
      BY <2>3 DEF w
    <3>3. \A i \in 3 .. Len(selections) :
             i # turn => selections'[i] = selections[i] /\ selections[i].who # w
      BY <2>2 DEF w
    <3> QED
      BY <2>2, <2>3, <2>4, <2>6, <3>1, <3>2, <3>3, HangupMeters
  <2>8. DebugOK(selections', g_ctx_inuse')
    <3>1. ASSUME NEW i \in 3 .. Len(selections)
          PROVE  selections'[i].kind = "gdb_receive" <=> selections[i].kind = "gdb_receive"
      BY <1>1, <2>2, <2>3 DEF Unused
    <3> QED
      BY <1>1, <2>2, <3>1, Zenon DEF SockInv, DebugOK
  <2> QED
    BY <2>1, <2>7, <2>8 DEF SockInv
<1> QED
  BY <1>2, <1>3 DEF meter_receive

(* Updates, wherever they run, keep a meter that is registered.            *)
LEMMA UpdateMeter ==
    ASSUME NEW m \in MeterRec, m.allocated <=> m.updates = 1, m.fd # NoFd => m.allocated
    PROVE  /\ Updated(m) \in MeterRec /\ Updated(m).fd = m.fd
           /\ Updated(m).allocated <=> Updated(m).updates = 1
           /\ Updated(m).fd # NoFd => Updated(m).allocated
<1>1. CASE m.fd = NoFd
  <2>1. Updated(m) = [m EXCEPT !.allocated = FALSE, !.updates = 0]
    BY <1>1 DEF Updated
  <2>2. Updated(m) \in MeterRec /\ Updated(m).fd = m.fd /\ Updated(m).updates = 0
    <3>1. /\ m = [allocated |-> m.allocated, fd |-> m.fd, updates |-> m.updates]
          /\ m.fd \in FD \cup {NoFd} /\ 0 \in 0 .. 1 /\ FALSE \in BOOLEAN
      BY DEF MeterRec
    <3>2. Updated(m) = [allocated |-> FALSE, fd |-> m.fd, updates |-> 0]
      BY <2>1, <3>1
    <3>3. [allocated |-> FALSE, fd |-> m.fd, updates |-> 0] \in MeterRec
      BY <3>1, Zenon DEF MeterRec
    <3> QED
      BY <3>2, <3>3
  <2>3. ~Updated(m).allocated
    BY <2>1 DEF MeterRec
  <2>4. Updated(m).updates # 1
    BY <2>2
  <2> QED
    BY <1>1, <2>2, <2>3, <2>4, Zenon
<1>2. CASE m.fd # NoFd
  BY <1>2 DEF Updated
<1> QED
  BY <1>1, <1>2

LEMMA UpdateMeters ==
    ASSUME NEW s, NEW m, MetersOK(s, m), NEW due,
           NEW m2, m2 = [d \in Meters |-> IF d \in due THEN Updated(m[d]) ELSE m[d]]
    PROVE  MetersOK(s, m2)
<1>1. ASSUME NEW d \in Meters
      PROVE  /\ m2[d] \in MeterRec /\ m2[d].fd = m[d].fd
             /\ m2[d].allocated <=> m2[d].updates = 1
             /\ m2[d].fd # NoFd => m2[d].allocated
  <2>1. /\ m[d] \in MeterRec /\ (m[d].allocated <=> m[d].updates = 1)
        /\ m[d].fd # NoFd => m[d].allocated
    BY DEF MetersOK
  <2>2. CASE d \in due
    <3>1. m2[d] = Updated(m[d])
      BY <2>2
    <3> QED
      BY <2>1, <3>1, UpdateMeter
  <2>3. CASE d \notin due
    BY <2>1, <2>3
  <2> QED
    BY <2>2, <2>3
<1>2. m2 \in [Meters -> MeterRec]
  BY <1>1
<1> QED
  BY <1>1, <1>2 DEF MetersOK

(* gdb_receive: the meter updates its single step may run, and a debugger  *)
(* that hangs up.                                                          *)
LEMMA GdbReceiveKeeps ==
    ASSUME SockInv, gdb_receive
    PROVE  SockInv'
<1>1. /\ Called /\ Slot.kind \in {"gdb_receive", "meter_receive"} /\ Slot.kind = "gdb_receive"
      /\ EndOfTurn /\ UNCHANGED myset
  BY DEF gdb_receive
<1>2. CASE /\ unread' = unread \ {Peer} /\ UNCHANGED <<selections, fdtab, client, g_ctx_inuse>>
           /\ \E due \in SUBSET {m \in Meters : meter[m].updates > 0} :
                meter' = [m \in Meters |-> IF m \in due THEN Updated(meter[m]) ELSE meter[m]]
  <2>1. /\ HostOK(fdtab', client', unread') /\ TableOK(selections', fdtab', client')
        /\ WalkOK(selections', fdtab', client', unread', myset', turn')
    BY <1>1, <1>2, ReadWalk
  <2>2. PICK due : meter' = [m \in Meters |-> IF m \in due THEN Updated(meter[m]) ELSE meter[m]]
    BY <1>2
  <2>3. MetersOK(selections, meter')
    BY <2>2, UpdateMeters DEF SockInv
  <2> QED
    BY <1>1, <1>2, <2>1, <2>3 DEF SockInv
<1>3. CASE Hangup /\ gdb_cleanup /\ UNCHANGED <<unread, meter>>
  <2>1. /\ HostOK(fdtab', client', unread') /\ TableOK(selections', fdtab', client')
        /\ WalkOK(selections', fdtab', client', unread', myset', turn')
    BY <1>1, <1>3, HangupWalk
  <2>2. /\ Len(selections') = Len(selections) /\ selections'[turn] = Unused
        /\ \A i \in 3 .. Len(selections) :
             i # turn => selections'[i] = selections[i] /\ selections[i].who # Slot.who
    BY <1>1, <1>3, HangupWalk
  <2>3. /\ turn \in 3 .. Len(selections) /\ Slot = selections[turn]
        /\ Connection(Slot, fdtab, client) /\ Slot.who \notin Meters
    <3>1. turn \in 3 .. Len(selections) /\ Connection(Slot, fdtab, client)
      BY <1>1, CalledSlot
    <3> QED
      BY <1>1, <3>1 DEF Slot, Connection, ReceiveKind, Meters
  <2>4. selections \in Seq(Entry) /\ MetersOK(selections, meter) /\ meter \in [Meters -> MeterRec]
    BY DEF SockInv, TableOK, MetersOK
  <2>5. MetersOK(selections', meter')
    <3>1. \A i \in 3 .. Len(selections) :
             i # turn => selections'[i] = selections[i] /\ selections[i].who # selections[turn].who
      BY <2>2, <2>3
    <3>2. selections[turn].who \notin Meters /\ meter' = meter
      BY <1>3, <2>3
    <3>3. MetersOK(selections', meter)
      BY <2>2, <2>3, <2>4, <3>1, <3>2, HangupMeters
    <3> QED
      BY <3>2, <3>3
  <2>6. DebugOK(selections', g_ctx_inuse')
    <3>1. ASSUME NEW i \in 3 .. Len(selections') PROVE selections'[i].kind # "gdb_receive"
      BY <1>1, <2>2, <2>3 DEF SockInv, DebugOK, Unused
    <3>2. g_ctx_inuse' = FALSE
      BY <1>3 DEF gdb_cleanup
    <3> QED
      BY <3>1, <3>2, Zenon DEF DebugOK
  <2> QED
    BY <2>1, <2>5, <2>6 DEF SockInv
<1> QED
  BY <1>2, <1>3 DEF gdb_receive

(* meter_update, as the clock's event.                                     *)
LEMMA MeterUpdateKeeps ==
    ASSUME SockInv, NEW c \in Meters, meter_update(c)
    PROVE  SockInv'
<1>1. /\ meter' = [meter EXCEPT ![c] = Updated(@)]
      /\ UNCHANGED <<selections, fdtab, client, unread, myset, turn, g_ctx_inuse>>
  BY DEF meter_update
<1>2. meter' = [d \in Meters |-> IF d \in {c} THEN Updated(meter[d]) ELSE meter[d]]
  BY <1>1 DEF SockInv, MetersOK
<1>3. MetersOK(selections, meter')
  BY <1>2, UpdateMeters DEF SockInv
<1> QED
  BY <1>1, <1>3 DEF SockInv

(* Stuttering.                                                             *)
LEMMA SockStutter ==
    ASSUME SockInv, UNCHANGED sockVars
    PROVE  SockInv'
BY DEF SockInv, sockVars

(* The select table agrees with the host's descriptors, the meters and the *)
(* debugger context, and the walk over it only meets connections with      *)
(* something to read.                                                      *)
THEOREM SocketsInvariant == SockSpec => []SockInv
<1>1. SockInv /\ [SockNext]_sockVars => SockInv'
  <2> SUFFICES ASSUME SockInv, [SockNext]_sockVars PROVE SockInv'
    OBVIOUS
  <2>1. CASE skip_slot
    BY <2>1, SkipKeeps DEF skip_slot
  <2>2. CASE accept_fails
    BY <2>2, SkipKeeps DEF accept_fails, Called
  <2> QED
    BY <2>1, <2>2, ClientKeeps, SelectKeeps, MeterAcceptKeeps, GdbAcceptKeeps, MeterReceiveKeeps,
       GdbReceiveKeeps, MeterUpdateKeeps, SockStutter DEF SockNext
<1> QED
  BY <1>1, InitSockInv, PTL DEF SockSpec

(* One debugger: the slots that have its handler are one or none.          *)
LEMMA OneDebuggerFollows == SockInv => OneDebugger
<1> SUFFICES ASSUME SockInv PROVE OneDebugger
  OBVIOUS
<1> DEFINE S == {i \in 1 .. Len(selections) : selections[i].kind = "gdb_receive"}
<1>1. ASSUME NEW i \in S PROVE i \in 3 .. Len(selections)
  <2>1. i # 1 /\ i # 2 /\ i \in 1 .. Len(selections) /\ Len(selections) \in Nat
    BY DEF SockInv, TableOK
  <2> QED
    BY <2>1
<1>2. Len(selections) \in Nat
  BY DEF SockInv, TableOK
<1>3. CASE g_ctx_inuse
  <2>1. PICK k \in 3 .. Len(selections) : selections[k].kind = "gdb_receive"
    BY <1>3 DEF SockInv, DebugOK
  <2>2. S = {k}
    BY <1>1, <1>2, <2>1 DEF SockInv, DebugOK
  <2>3. Cardinality({k}) = 1
    BY FS_Singleton
  <2> QED
    BY <1>3, <2>2, <2>3 DEF OneDebugger
<1>4. CASE ~g_ctx_inuse
  <2>1. S = {}
    BY <1>1, <1>4 DEF SockInv, DebugOK
  <2>2. Cardinality({}) = 0
    BY FS_EmptySet
  <2> QED
    BY <1>4, <2>1, <2>2 DEF OneDebugger
<1> QED
  BY <1>3, <1>4

LEMMA MeterOwnedFollows == SockInv => MeterOwned
<1> SUFFICES ASSUME SockInv, NEW c \in Meters
             PROVE  /\ meter[c].allocated <=> meter[c].updates = 1
                    /\ (\E i \in 1 .. Len(selections) : selections[i].who = c) <=> meter[c].fd # NoFd
                    /\ meter[c].fd # NoFd => meter[c].allocated /\ fdtab[meter[c].fd] = c
  BY DEF MeterOwned
<1>1. Len(selections) \in Nat /\ Len(selections) >= 2 /\ c \in Clients /\ c # Free
  BY Marks DEF SockInv, TableOK, Meters
<1>2. ASSUME NEW i \in 1 .. Len(selections), selections[i].who = c
      PROVE  /\ i \in 3 .. Len(selections) /\ meter[c].fd = selections[i].fd
             /\ meter[c].fd # NoFd /\ fdtab[meter[c].fd] = c
  <2>1. i # 1 /\ i # 2
    BY <1>1, <1>2 DEF SockInv, TableOK
  <2>2. i \in 3 .. Len(selections)
    BY <1>1, <2>1
  <2>3. Connection(selections[i], fdtab, client)
    BY <1>1, <1>2, <2>2 DEF SockInv, TableOK, Unused
  <2>4. meter[c].fd = selections[i].fd
    BY <1>2, <2>2 DEF SockInv, MetersOK
  <2> QED
    BY <1>2, <2>2, <2>3, <2>4, Marks DEF Connection
<1>3. ASSUME meter[c].fd # NoFd
      PROVE  meter[c].allocated /\ \E i \in 1 .. Len(selections) : selections[i].who = c
  BY <1>1, <1>3 DEF SockInv, MetersOK
<1>4. meter[c].allocated <=> meter[c].updates = 1
  BY DEF SockInv, MetersOK
<1> QED
  BY <1>2, <1>3, <1>4

(* onsel.c, meter.c and gdb_fe.c: whatever clients connect, send and hang  *)
(* up in whatever order, and whatever descriptor numbers the host recycles *)
(* in the middle of a walk, no handler blocks in read(), no freed meter is *)
(* used and none is leaked, and at most one debugger is connected.         *)
THEOREM ConnectionsAreOwned == SockSpec => []ConnectionsOwned
<1>1. SockInv => NeverBlocks
  <2> SUFFICES ASSUME SockInv, Called, Slot.kind \in {"gdb_receive", "meter_receive"}
               PROVE  HasData \/ AtEof
    BY DEF NeverBlocks
  <2> QED
    BY CalledSlot DEF HasData, AtEof, Connection
<1>2. SockInv => ConnectionsOwned
  BY <1>1, OneDebuggerFollows, MeterOwnedFollows DEF ConnectionsOwned
<1> QED
  BY <1>2, SocketsInvariant, PTL

-----------------------------------------------------------------------------
(***************************************************************************)
(* debug_write_mem.                                                        *)
(***************************************************************************)
(* The loop over leading bytes ends at a word boundary or with the data.   *)
LEMMA HeadLenDef ==
    ASSUME NEW v \in Nat, NEW len \in Nat
    PROVE  HeadLen(v, len) \in 0 .. len
<1> DEFINE T == {i \in 0 .. len : i = len \/ (v + i) % WORD = 0}
<1>1. T \subseteq Nat /\ len \in T
  OBVIOUS
<1>2. PICK x \in T : \A y \in T : x <= y
  <2> HIDE DEF T
  <2> QED BY <1>1, LeastNat
<1>3. ASSUME NEW j \in 0 .. x - 1 PROVE (v + j) % WORD # 0
  <2>1. j \in 0 .. len /\ j \notin T
    BY <1>2
  <2> QED
    BY <2>1
<1>4. \E i \in 0 .. len : (i = len \/ (v + i) % WORD = 0) /\ \A j \in 0 .. i - 1 : (v + j) % WORD # 0
  BY <1>2, <1>3
<1> QED
  BY <1>4 DEF HeadLen

(* The words end inside the data, a whole number of them after the head.   *)
LEMMA WordsEndDef ==
    ASSUME NEW v \in Nat, NEW len \in Nat
    PROVE  /\ WordsEnd(v, len) \in HeadLen(v, len) .. len
           /\ (WordsEnd(v, len) - HeadLen(v, len)) % WORD = 0
<1> DEFINE h == HeadLen(v, len)
           q == (len - h) \div WORD
<1>1. h \in 0 .. len /\ WORD \in Nat \ {0} /\ len - h \in Nat
  BY HeadLenDef, GdbAssumption
<1> HIDE DEF h
<1>2. q \in Nat /\ (len - h) % WORD \in 0 .. WORD - 1 /\ WORD * q + ((len - h) % WORD) = len - h
  BY <1>1, DivModDef
<1> HIDE DEF q
<1>3. WORD * q \in Nat
  BY <1>1, <1>2, MulMono
<1>4. (WORD * q) % WORD = 0
  <2>1. 0 \in 0 .. WORD - 1 /\ WORD * q = WORD * q + 0
    BY <1>1, <1>3
  <2> QED
    BY <1>1, <1>2, <2>1, RemainderIs
<1> DEFINE w == h + WORD * q
<1>5. w \in h .. len /\ w - h = WORD * q /\ w + WORD > len
  BY <1>1, <1>2, <1>3
<1>6. \E i \in h .. len : (i - h) % WORD = 0 /\ i + WORD > len
  BY <1>4, <1>5
<1> QED
  BY <1>6 DEF WordsEnd, h

(* The access that byte i of the data is part of, from and to.             *)
UnitFrom(h, w, i) == IF i < h \/ i >= w THEN i ELSE i - ((i - h) % WORD)
UnitTo(h, w, i)   == IF i < h \/ i >= w THEN i + 1 ELSE UnitFrom(h, w, i) + WORD

(* The accesses partition the data.                                        *)
LEMMA UnitsPartition ==
    ASSUME NEW len \in Nat, NEW h \in 0 .. len, NEW w \in h .. len, (w - h) % WORD = 0,
           NEW i \in 0 .. len - 1
    PROVE  /\ UnitFrom(h, w, i) \in 0 .. i /\ UnitTo(h, w, i) \in i + 1 .. len
           /\ \A j \in UnitFrom(h, w, i) .. UnitTo(h, w, i) - 1 :
                UnitFrom(h, w, j) = UnitFrom(h, w, i) /\ UnitTo(h, w, j) = UnitTo(h, w, i)
<1>1. CASE i < h \/ i >= w
  BY <1>1 DEF UnitFrom, UnitTo
<1>2. CASE i >= h /\ i < w
  <2> DEFINE q == (i - h) \div WORD
             r == (i - h) % WORD
             p == (w - h) \div WORD
  <2>1. WORD \in Nat \ {0} /\ i - h \in Nat /\ w - h \in Nat /\ i \in Nat /\ h \in Nat /\ w \in Nat
    BY <1>2, GdbAssumption
  <2>2. q \in Nat /\ r \in 0 .. WORD - 1 /\ WORD * q + r = i - h
    BY <2>1, DivModDef
  <2>3. p \in Nat /\ WORD * p = w - h
    <3>1. p \in Nat /\ WORD * p + ((w - h) % WORD) = w - h
      BY <2>1, DivModDef
    <3> HIDE DEF p
    <3>2. WORD * p \in Nat
      BY <2>1, <3>1, MulMono
    <3> QED
      BY <3>1, <3>2
  <2>4. UnitFrom(h, w, i) = i - r /\ UnitTo(h, w, i) = i - r + WORD
    BY <1>2, <2>1 DEF UnitFrom, UnitTo
  <2> HIDE DEF q, r, p
  <2>5. WORD * q \in Nat /\ WORD * (q + 1) = WORD * q + WORD
    BY <2>1, <2>2, MulMono, MulSucc
  <2>6. q + 1 <= p
    <3>1. ASSUME p <= q PROVE FALSE
      <4>1. WORD * p <= WORD * q
        BY <2>1, <2>2, <2>3, <3>1, MulMono
      <4> QED
        BY <1>2, <2>1, <2>2, <2>3, <2>5, <4>1
    <3> QED
      BY <2>2, <2>3, <3>1
  <2>7. WORD * (q + 1) <= WORD * p
    BY <2>1, <2>2, <2>3, <2>6, MulMono
  <2>8. i - r = h + WORD * q /\ i - r + WORD <= w /\ i - r >= h
    BY <2>1, <2>2, <2>3, <2>5, <2>7
  <2>9. ASSUME NEW j \in i - r .. i - r + WORD - 1
        PROVE  UnitFrom(h, w, j) = i - r /\ UnitTo(h, w, j) = i - r + WORD
    <3> DEFINE s == j - (i - r)
    <3>1. s \in 0 .. WORD - 1 /\ j - h = WORD * q + s /\ j >= h /\ j < w /\ j \in Nat /\ j - h \in Nat
      BY <2>1, <2>2, <2>5, <2>8
    <3>2. (j - h) % WORD = s
      <4> DEFINE u == j - h
      <4>1. u = WORD * q + s /\ s \in 0 .. WORD - 1
        BY <3>1
      <4> HIDE DEF s, u
      <4>2. WORD \in Nat \ {0} /\ q \in Nat
        BY <2>1, <2>2
      <4>3. u % WORD = s
        BY ONLY <4>1, <4>2, RemainderIs
      <4> QED
        BY <4>3 DEF u
    <3>3. UnitFrom(h, w, j) = j - s
      BY <3>1, <3>2 DEF UnitFrom
    <3>4. UnitTo(h, w, j) = j - s + WORD
      BY <3>1, <3>3 DEF UnitTo
    <3> QED
      BY <2>1, <2>2, <3>1, <3>3, <3>4
  <2>10. i - r \in 0 .. i /\ i - r + WORD \in i + 1 .. len
    BY <2>1, <2>2, <2>8
  <2>11. ASSUME NEW j \in UnitFrom(h, w, i) .. UnitTo(h, w, i) - 1
         PROVE  UnitFrom(h, w, j) = UnitFrom(h, w, i) /\ UnitTo(h, w, j) = UnitTo(h, w, i)
    <3>1. j \in i - r .. i - r + WORD - 1
      BY <2>1, <2>2, <2>4
    <3> QED
      BY <2>4, <2>9, <3>1
  <2> QED
    BY <2>4, <2>10, <2>11
<1> QED
  BY <1>1, <1>2

(* What stopping at the first access that fails does to data cut into      *)
(* accesses, from F[i] to T[i] for byte i: a prefix is stored.             *)
Unit(v, F, T, i) == Bytes(v, F[i], T[i])
Good(v, len, F, T) ==
    {j \in 0 .. len - 1 : \A k \in 0 .. len - 1 :
        ~(Unit(v, F, T, k) \subseteq Addrs) => Unit(v, F, T, j) # Unit(v, F, T, k) /\ j < k}

Stored(v, len, F, T) == UNION {Unit(v, F, T, i) : i \in Good(v, len, F, T)}
Partition(len, F, T) ==
    /\ F \in [0 .. len - 1 -> Nat] /\ T \in [0 .. len - 1 -> Nat]
    /\ \A i \in 0 .. len - 1 :
         /\ F[i] \in 0 .. i /\ T[i] \in i + 1 .. len
         /\ \A j \in F[i] .. T[i] - 1 : F[j] = F[i] /\ T[j] = T[i]

LEMMA StoresPrefix ==
    ASSUME NEW v \in Nat, NEW len \in Nat, NEW F, NEW T, Partition(len, F, T),
           NEW S, S = Stored(v, len, F, T)
    PROVE  /\ S \subseteq Bytes(v, 0, len)
           /\ Bytes(v, 0, len) \subseteq Addrs => S = Bytes(v, 0, len)
           /\ \A a \in S, b \in Bytes(v, 0, len) : b < a => b \in S
<1> DEFINE I == 0 .. len - 1
<1>a. ASSUME NEW i \in I
      PROVE  F[i] \in Nat /\ T[i] \in Nat /\ F[i] <= i /\ i < T[i] /\ T[i] <= len /\ i \in Nat
  BY DEF Partition
<1>1. ASSUME NEW i \in I, NEW x
      PROVE  x \in Unit(v, F, T, i) <=> \E y \in I : y \in F[i] .. T[i] - 1 /\ x = v + y
  <2>1. ASSUME NEW y \in F[i] .. T[i] - 1 PROVE y \in I
    BY <1>a
  <2>2. Unit(v, F, T, i) = {v + y : y \in F[i] .. T[i] - 1}
    BY DEF Unit, Bytes
  <2> QED
    BY <2>1, <2>2
<1>2. ASSUME NEW x PROVE x \in Bytes(v, 0, len) <=> \E y \in I : x = v + y
  BY DEF Bytes
<1>3. ASSUME NEW i \in I PROVE v + i \in Unit(v, F, T, i) /\ i \in F[i] .. T[i] - 1
  BY <1>a, <1>1
<1>4. ASSUME NEW i \in I, NEW y \in F[i] .. T[i] - 1
      PROVE  y \in I /\ Unit(v, F, T, y) = Unit(v, F, T, i)
  <2>1. y \in I
    BY <1>a
  <2> QED
    BY <2>1 DEF Unit, Partition
<1>5. ASSUME NEW y \in I, NEW k \in I, Unit(v, F, T, y) = Unit(v, F, T, k)
      PROVE  F[y] = F[k] /\ T[y] = T[k]
  <2>1. y \in F[k] .. T[k] - 1
    <3>1. v + y \in Unit(v, F, T, k)
      BY <1>3, <1>5
    <3>2. PICK z \in I : z \in F[k] .. T[k] - 1 /\ v + y = v + z
      BY <1>1, <3>1
    <3> QED
      BY <3>2
  <2> QED
    BY <2>1 DEF Partition
<1>6. ASSUME NEW a PROVE a \in S <=> \E i \in Good(v, len, F, T) : a \in Unit(v, F, T, i)
  BY DEF Stored
<1>7. Good(v, len, F, T) \subseteq I
  BY DEF Good
<1>8. S \subseteq Bytes(v, 0, len)
  <2> SUFFICES ASSUME NEW a \in S PROVE a \in Bytes(v, 0, len)
    OBVIOUS
  <2>1. PICK i \in I : a \in Unit(v, F, T, i)
    BY <1>6, <1>7
  <2> QED
    BY <1>1, <1>2, <2>1
<1>9. ASSUME Bytes(v, 0, len) \subseteq Addrs PROVE S = Bytes(v, 0, len)
  <2>1. ASSUME NEW k \in I PROVE Unit(v, F, T, k) \subseteq Addrs
    BY <1>1, <1>2, <1>9
  <2>2. Good(v, len, F, T) = I
    BY <2>1 DEF Good
  <2>3. ASSUME NEW x \in Bytes(v, 0, len) PROVE x \in S
    BY <1>2, <1>3, <1>6, <2>2
  <2> QED
    BY <1>8, <2>3
<1>10. ASSUME NEW a \in S, NEW b \in Bytes(v, 0, len), b < a PROVE b \in S
  <2>1. PICK i \in Good(v, len, F, T) : a \in Unit(v, F, T, i)
    BY <1>6
  <2>2. PICK x \in I : x \in F[i] .. T[i] - 1 /\ a = v + x
    BY <1>1, <1>7, <2>1
  <2>3. PICK y \in I : b = v + y
    BY <1>2
  <2>4. y < x /\ i \in I
    BY <1>7, <1>10, <2>2, <2>3
  <2>a. F[i] \in Nat /\ T[i] \in Nat /\ F[i] <= i /\ i \in Nat
    BY <1>a, <2>4
  <2>b. x < T[i] /\ x \in Nat /\ y \in Nat
    BY <2>2, <2>3, <2>a
  <2>5. ASSUME NEW k \in I, ~(Unit(v, F, T, k) \subseteq Addrs)
        PROVE  Unit(v, F, T, y) # Unit(v, F, T, k) /\ y < k
    <3>1. Unit(v, F, T, i) # Unit(v, F, T, k) /\ i < k
      BY <2>1, <2>5 DEF Good
    <3>2. k \notin F[i] .. T[i] - 1
      BY <1>4, <2>4, <3>1
    <3>3. y < k
      <4>1. k \in Nat
        BY <2>5
      <4> QED
        BY ONLY <2>4, <2>a, <2>b, <3>1, <3>2, <4>1
    <3>4. ASSUME Unit(v, F, T, y) = Unit(v, F, T, k) PROVE FALSE
      <4>1. F[y] = F[k] /\ T[y] = T[k]
        BY <1>5, <3>4
      <4>2. CASE y <= i
        <5>1. i \in F[k] .. T[k] - 1
          <6>1. F[y] <= y /\ F[y] \in Nat
            BY <1>a, <2>3
          <6>2. k < T[k] /\ T[k] \in Nat /\ k \in Nat
            BY <1>a, <2>5
          <6> QED
            BY ONLY <2>a, <2>b, <3>1, <4>1, <4>2, <6>1, <6>2
        <5> QED
          BY <1>4, <3>1, <5>1
      <4>3. CASE y > i
        <5>1. y \in F[i] .. T[i] - 1
          BY ONLY <2>4, <2>a, <2>b, <4>3
        <5> QED
          BY <1>4, <2>4, <3>1, <3>4, <5>1
      <4> QED
        BY <2>4, <4>2, <4>3
    <3> QED
      BY <3>3, <3>4
  <2>6. y \in Good(v, len, F, T)
    BY <2>5 DEF Good
  <2> QED
    BY <1>3, <1>6, <2>3, <2>6
<1> QED
  BY <1>8, <1>9, <1>10

(* debug_write_mem stores what it is asked to, or a prefix of it.          *)
LEMMA WriteMemExact ==
    ASSUME NEW v \in Nat, NEW len \in Nat, NEW S, S = debug_write_mem(v, len)
    PROVE  /\ S \subseteq Bytes(v, 0, len)
           /\ Bytes(v, 0, len) \subseteq Addrs => S = Bytes(v, 0, len)
           /\ \A a \in S, b \in Bytes(v, 0, len) : b < a => b \in S
<1> DEFINE h == HeadLen(v, len)
           w == WordsEnd(v, len)
           F == [i \in 0 .. len - 1 |-> UnitFrom(h, w, i)]
           T == [i \in 0 .. len - 1 |-> UnitTo(h, w, i)]
           U(i) == IF i < h \/ i >= w THEN Bytes(v, i, i + 1)
                   ELSE LET b == i - ((i - h) % WORD) IN Bytes(v, b, b + WORD)
           Bad == {i \in 0 .. len - 1 : ~(U(i) \subseteq Addrs)}
           G == {j \in 0 .. len - 1 : \A k \in Bad : U(j) # U(k) /\ j < k}
<1>1. h \in 0 .. len /\ w \in h .. len /\ (w - h) % WORD = 0
  BY HeadLenDef, WordsEndDef
<1>2. S = UNION {U(i) : i \in G}
  <2>1. ~(w > len)
    BY <1>1
  <2> QED
    BY <2>1 DEF debug_write_mem
<1> HIDE DEF h, w
<1>3. ASSUME NEW i \in 0 .. len - 1
      PROVE  /\ UnitFrom(h, w, i) \in 0 .. i /\ UnitTo(h, w, i) \in i + 1 .. len
             /\ \A j \in UnitFrom(h, w, i) .. UnitTo(h, w, i) - 1 :
                  UnitFrom(h, w, j) = UnitFrom(h, w, i) /\ UnitTo(h, w, j) = UnitTo(h, w, i)
  BY <1>1, UnitsPartition
<1>4. ASSUME NEW i \in 0 .. len - 1 PROVE U(i) = Unit(v, F, T, i)
  BY DEF Unit, UnitFrom, UnitTo
<1>5. F \in [0 .. len - 1 -> Nat] /\ T \in [0 .. len - 1 -> Nat]
  <2>1. ASSUME NEW i \in 0 .. len - 1 PROVE UnitFrom(h, w, i) \in Nat /\ UnitTo(h, w, i) \in Nat
    BY <1>3
  <2> QED
    BY <2>1
<1>6. \A i \in 0 .. len - 1 :
         /\ F[i] \in 0 .. i /\ T[i] \in i + 1 .. len
         /\ \A j \in F[i] .. T[i] - 1 : F[j] = F[i] /\ T[j] = T[i]
  <2> SUFFICES ASSUME NEW i \in 0 .. len - 1
               PROVE  /\ F[i] \in 0 .. i /\ T[i] \in i + 1 .. len
                      /\ \A j \in F[i] .. T[i] - 1 : F[j] = F[i] /\ T[j] = T[i]
    OBVIOUS
  <2>1. F[i] = UnitFrom(h, w, i) /\ T[i] = UnitTo(h, w, i)
    OBVIOUS
  <2>2. F[i] \in 0 .. i /\ T[i] \in i + 1 .. len
    BY <1>3, <2>1
  <2>3. ASSUME NEW j \in F[i] .. T[i] - 1 PROVE F[j] = F[i] /\ T[j] = T[i]
    <3>1. j \in 0 .. len - 1
      <4> HIDE DEF F, T
      <4> QED BY <2>2
    <3>2. F[j] = UnitFrom(h, w, j) /\ T[j] = UnitTo(h, w, j)
      BY <3>1
    <3> HIDE DEF F, T
    <3> QED
      BY <1>3, <2>1, <3>2
  <2> QED
    BY <2>2, <2>3
<1>7. S = UNION {Unit(v, F, T, i) : i \in Good(v, len, F, T)}
  <2> HIDE DEF F, T, U
  <2>1. G = Good(v, len, F, T)
    BY <1>4 DEF Good
  <2>2. ASSUME NEW i \in G PROVE U(i) = Unit(v, F, T, i)
    BY <1>4
  <2> HIDE DEF G
  <2> QED
    BY <1>2, <2>1, <2>2
<1> HIDE DEF F, T
<1>8. S = Stored(v, len, F, T)
  BY <1>7 DEF Stored
<1>9. Partition(len, F, T)
  BY <1>5, <1>6 DEF Partition
<1> QED
  BY <1>8, <1>9, StoresPrefix

(* Only an M command changes what was stored and asked for.                *)
LEMMA StoreStep ==
    ASSUME [GdbNext]_gdbVars
    PROVE  \/ UNCHANGED <<stored, asked>>
           \/ \E v \in Addrs, len \in 0 .. Cardinality(Addrs) :
                stored' = debug_write_mem(v, len) /\ asked' = Bytes(v, 0, len)
<1>1. ASSUME NEW cmd, debug_exec(cmd)
      PROVE  \/ UNCHANGED <<stored, asked>>
             \/ \E v \in Addrs, len \in 0 .. Cardinality(Addrs) :
                  stored' = debug_write_mem(v, len) /\ asked' = Bytes(v, 0, len)
  BY <1>1 DEF debug_exec, debug_continue, debug_detach, debug_select, debug_query, debug_store
<1>2. CASE gdb_packet
  <2>1. \/ UNCHANGED <<stored, asked>>
        \/ \E cmd : debug_exec(cmd)
    BY <1>2, Zenon DEF gdb_packet
  <2> QED
    BY <1>1, <2>1
<1> QED
  BY <1>2 DEF GdbNext, GdbSends, gdb_read, gdb_startbreak, gdbVars

(* debug_write_mem, for every address, length and alignment, every word    *)
(* size and every set of mapped addresses: an M command stores the bytes   *)
(* it names and no others, and one that fails has stored a prefix.         *)
THEOREM WritesAreExact == GdbSpec => []WritesExactly
<1>1. GdbInit => WritesExactly
  BY DEF GdbInit, WritesExactly
<1>2. WritesExactly /\ [GdbNext]_gdbVars => WritesExactly'
  <2> SUFFICES ASSUME WritesExactly, [GdbNext]_gdbVars PROVE WritesExactly'
    OBVIOUS
  <2>1. CASE UNCHANGED <<stored, asked>>
    BY <2>1 DEF WritesExactly
  <2>2. ASSUME NEW v \in Addrs, NEW len \in 0 .. Cardinality(Addrs),
               stored' = debug_write_mem(v, len), asked' = Bytes(v, 0, len)
        PROVE  WritesExactly'
    <3>1. v \in Nat /\ len \in Nat
      BY GdbAssumption, FS_CardinalityType
    <3>2. /\ stored' \subseteq Bytes(v, 0, len)
          /\ Bytes(v, 0, len) \subseteq Addrs => stored' = Bytes(v, 0, len)
          /\ \A a \in stored', b \in Bytes(v, 0, len) : b < a => b \in stored'
      BY <2>2, <3>1, WriteMemExact
    <3> QED
      BY <2>2, <3>2 DEF WritesExactly
  <2> QED
    BY <2>1, <2>2, StoreStep
<1> QED
  BY <1>1, <1>2, PTL DEF GdbSpec

-----------------------------------------------------------------------------
(* The symbols of a stream.                                                *)
Symbol == Commands \cup {"$", "#", "+", "x", "ok", "bad"}

(* The symbols a + 1 to b of s are an acknowledgement or none, and a packet.*)
Chunk(s, a, b) ==
    /\ b - a \in {5, 6} /\ (b - a = 6 => s[a + 1] = "+")
    /\ s[b - 4] = "$" /\ s[b - 3] \in Commands /\ s[b - 2] = "#"
    /\ s[b - 1] = "x" /\ s[b] \in {"ok", "bad"}

(* Stream s is k chunks, ending at st[2], st[3], ..., and the good ones    *)
(* are the commands of all from number nm[1] + 1 on.                       *)
Framed(s, k, st, nm, all) ==
    /\ st \in [1 .. k + 1 -> Nat] /\ st[1] = 0 /\ st[k + 1] = Len(s)
    /\ nm \in [1 .. k + 1 -> Nat] /\ nm[k + 1] = Len(all)
    /\ \A i, j \in 1 .. k + 1 : i <= j => st[i] <= st[j]
    /\ \A i, j \in 1 .. k + 1 : i <= j => nm[i] <= nm[j]
    /\ \A i \in 1 .. k :
         /\ Chunk(s, st[i], st[i + 1])
         /\ s[st[i + 1]] = "ok" => nm[i + 1] = nm[i] + 1 /\ all[nm[i] + 1] = s[st[i + 1] - 3]
         /\ s[st[i + 1]] = "bad" => nm[i + 1] = nm[i]

FramedFrom(s, done, all) ==
    \E k, st, nm : k \in Nat /\ Framed(s, k, st, nm, all) /\ nm[1] = done

(* What is sent and not yet executed is a stream of whole chunks, however  *)
(* much of it is in the buffer.                                            *)
StreamInv ==
    /\ buf \in Seq(Symbol) /\ wire \in Seq(Symbol)
    /\ sent \in Seq(Commands) /\ executed \in Seq(Commands)
    /\ executed = SubSeq(sent, 1, Len(executed))
    /\ FramedFrom(buf \o wire, Len(executed), sent)

(* What is where in two sequences joined.                                  *)
LEMMA Joined ==
    ASSUME NEW S, NEW a \in Seq(S), NEW b \in Seq(S), NEW c, c = a \o b
    PROVE  /\ c \in Seq(S) /\ Len(c) = Len(a) + Len(b) /\ Len(a) \in Nat /\ Len(b) \in Nat
           /\ \A i \in 1 .. Len(a) : c[i] = a[i]
           /\ \A i \in 1 .. Len(b) : c[Len(a) + i] = b[i]
<1>1. /\ c \in Seq(S) /\ Len(c) = Len(a) + Len(b) /\ Len(a) \in Nat /\ Len(b) \in Nat
      /\ \A i \in 1 .. Len(a) + Len(b) : c[i] = IF i <= Len(a) THEN a[i] ELSE b[i - Len(a)]
  BY ConcatProperties
<1>2. ASSUME NEW i \in 1 .. Len(b) PROVE c[Len(a) + i] = b[i]
  <2>1. Len(a) + i \in 1 .. Len(a) + Len(b) /\ ~(Len(a) + i <= Len(a)) /\ Len(a) + i - Len(a) = i
    BY <1>1
  <2> QED BY <1>1, <2>1
<1> QED
  BY <1>1, <1>2

(* What gdb sends: a packet, an acknowledgement, and a stream s with both. *)
Packet5(cmd, check) == <<"$", cmd, "#", "x", check>>
Acks == {<<>>, <<"+">>}
Extended(s, ack, cmd, check) == (s \o ack) \o Packet5(cmd, check)

(* Stream t is s and a chunk with that command and check.                  *)
NewChunkIn(s, t, cmd, check) ==
    /\ t \in Seq(Symbol) /\ Len(t) \in {Len(s) + 5, Len(s) + 6}
    /\ \A i \in 1 .. Len(s) : t[i] = s[i]
    /\ Chunk(t, Len(s), Len(t)) /\ t[Len(t)] = check /\ t[Len(t) - 3] = cmd

LEMMA NewChunk ==
    ASSUME NEW s \in Seq(Symbol), NEW cmd \in Commands, NEW check \in {"ok", "bad"}, NEW ack \in Acks
    PROVE  NewChunkIn(s, Extended(s, ack, cmd, check), cmd, check)
<1> DEFINE t == Extended(s, ack, cmd, check)
<1> HIDE DEF t
<1> DEFINE p == Packet5(cmd, check)
           n == Len(s) + Len(ack)
<1>1. /\ p \in Seq(Symbol) /\ Len(p) = 5 /\ p[1] = "$" /\ p[2] = cmd /\ p[3] = "#" /\ p[4] = "x" /\ p[5] = check
  <2>1. /\ "$" \in Symbol /\ cmd \in Symbol /\ "#" \in Symbol /\ "x" \in Symbol /\ check \in Symbol
    BY DEF Symbol
  <2> HIDE DEF Symbol
  <2> QED
    BY <2>1 DEF Packet5
<1> HIDE DEF p
<1>2. ack \in Seq(Symbol) /\ Len(ack) \in {0, 1} /\ (Len(ack) = 1 => ack[1] = "+")
  <2>1. "+" \in Symbol
    BY DEF Symbol
  <2> HIDE DEF Symbol
  <2>2. <<"+">> \in Seq(Symbol) /\ Len(<<"+">>) = 1 /\ <<"+">>[1] = "+"
    BY <2>1
  <2>3. <<>> \in Seq(Symbol) /\ Len(<<>>) = 0
    OBVIOUS
  <2>4. CASE ack = <<>>
    BY <2>3, <2>4
  <2>5. CASE ack = <<"+">>
    BY <2>2, <2>5
  <2> QED
    BY <2>4, <2>5 DEF Acks
<1>3. /\ s \o ack \in Seq(Symbol) /\ Len(s \o ack) = n /\ \A i \in 1 .. Len(s) : (s \o ack)[i] = s[i]
      /\ Len(ack) = 1 => (s \o ack)[Len(s) + 1] = "+"
      /\ Len(s) \in Nat
  BY <1>2
<1> DEFINE u == s \o ack
<1> HIDE DEF u
<1>4. /\ t \in Seq(Symbol) /\ Len(t) = n + 5 /\ \A i \in 1 .. n : t[i] = u[i]
      /\ \A i \in 1 .. 5 : t[n + i] = p[i]
  <2>1. t = u \o p /\ u \in Seq(Symbol) /\ Len(u) = n
    <3>1. t = u \o p
      BY Zenon DEF t, u, p, Extended
    <3> QED
      BY <1>3, <3>1 DEF u
  <2>2. \A a \in Seq(Symbol), b \in Seq(Symbol) : \A c : c = a \o b =>
           /\ c \in Seq(Symbol) /\ Len(c) = Len(a) + Len(b)
           /\ \A i \in 1 .. Len(a) : c[i] = a[i]
           /\ \A i \in 1 .. Len(b) : c[Len(a) + i] = b[i]
    BY Joined
  <2>3. /\ t \in Seq(Symbol) /\ Len(t) = Len(u) + Len(p) /\ \A i \in 1 .. Len(u) : t[i] = u[i]
        /\ \A i \in 1 .. Len(p) : t[Len(u) + i] = p[i]
    <3>1. p \in Seq(Symbol)
      BY <1>1
    <3> HIDE DEF n
    <3>2. u \in Seq(Symbol) /\ t = u \o p
      BY <2>1
    <3> QED
      BY ONLY <3>1, <3>2, <2>2
  <2> QED
    BY <1>1, <2>1, <2>3
<1>5. /\ n \in {Len(s), Len(s) + 1} /\ n \in Nat
  <2>1. Len(ack) \in {0, 1} /\ Len(s) \in Nat
    BY <1>2, <1>3
  <2>2. CASE Len(ack) = 0
    BY <2>1, <2>2
  <2>3. CASE Len(ack) = 1
    BY <2>1, <2>3
  <2> QED
    BY <2>1, <2>2, <2>3
<1>6. t[n + 1] = "$" /\ t[n + 2] = cmd /\ t[n + 3] = "#" /\ t[n + 4] = "x" /\ t[n + 5] = check
  BY <1>1, <1>4
<1>7. \A i \in 1 .. Len(s) : t[i] = s[i]
  BY <1>3, <1>4, <1>5 DEF u
<1>8. n = Len(s) + 1 => t[Len(s) + 1] = "+"
  BY <1>2, <1>3, <1>4, <1>5 DEF u
<1> HIDE DEF n
<1>9. /\ Len(t) - 4 = n + 1 /\ Len(t) - 3 = n + 2 /\ Len(t) - 2 = n + 3 /\ Len(t) - 1 = n + 4
      /\ Len(t) - Len(s) \in {5, 6} /\ (Len(t) - Len(s) = 6 => n = Len(s) + 1)
      /\ Len(t) \in {Len(s) + 5, Len(s) + 6}
  BY <1>3, <1>4, <1>5
<1>10. Chunk(t, Len(s), Len(t))
  BY <1>4, <1>6, <1>8, <1>9 DEF Chunk
<1>11. NewChunkIn(s, t, cmd, check)
  BY <1>4, <1>6, <1>7, <1>9, <1>10 DEF NewChunkIn
<1> QED
  BY <1>11 DEF t

(* A stream of chunks with one more is a stream of chunks.                 *)
LEMMA FrameSend ==
    ASSUME NEW s \in Seq(Symbol), NEW all \in Seq(Commands), NEW done,
           FramedFrom(s, done, all),
           NEW t \in Seq(Symbol), Len(t) >= Len(s), \A i \in 1 .. Len(s) : t[i] = s[i],
           Chunk(t, Len(s), Len(t)),
           NEW al2, al2 = IF t[Len(t)] = "ok" THEN Append(all, t[Len(t) - 3]) ELSE all
    PROVE  FramedFrom(t, done, al2)
<1>1. PICK k, st, nm : k \in Nat /\ Framed(s, k, st, nm, all) /\ nm[1] = done
  BY DEF FramedFrom
<1> k \in Nat
  BY <1>1
<1>2. Len(s) \in Nat /\ Len(t) \in Nat /\ Len(all) \in Nat
  OBVIOUS
<1>3. t[Len(t)] \in {"ok", "bad"} /\ t[Len(t) - 3] \in Commands
  BY DEF Chunk
<1>4. /\ al2 \in Seq(Commands) /\ Len(al2) \in Nat /\ Len(al2) >= Len(all)
      /\ \A i \in 1 .. Len(all) : al2[i] = all[i]
      /\ t[Len(t)] = "ok" => Len(al2) = Len(all) + 1 /\ al2[Len(all) + 1] = t[Len(t) - 3]
      /\ t[Len(t)] = "bad" => Len(al2) = Len(all)
  BY <1>3
<1> DEFINE su == [i \in 1 .. k + 2 |-> IF i = k + 2 THEN Len(t) ELSE st[i]]
           nu == [i \in 1 .. k + 2 |-> IF i = k + 2 THEN Len(al2) ELSE nm[i]]
<1>5. /\ st \in [1 .. k + 1 -> Nat] /\ st[1] = 0 /\ st[k + 1] = Len(s)
      /\ nm \in [1 .. k + 1 -> Nat] /\ nm[k + 1] = Len(all)
      /\ \A i, j \in 1 .. k + 1 : i <= j => st[i] <= st[j]
      /\ \A i, j \in 1 .. k + 1 : i <= j => nm[i] <= nm[j]
  BY <1>1 DEF Framed
<1>6. /\ \A i \in 1 .. k + 1 : su[i] = st[i] /\ nu[i] = nm[i]
      /\ su[k + 2] = Len(t) /\ nu[k + 2] = Len(al2)
      /\ su \in [1 .. k + 2 -> Nat] /\ nu \in [1 .. k + 2 -> Nat]
  BY <1>2, <1>4, <1>5
<1> HIDE DEF su, nu
<1>7. \A i \in 1 .. k + 2 : i \in 1 .. k + 1 \/ i = k + 2
  OBVIOUS
<1>8. \A i \in 1 .. k + 1 : st[i] <= Len(s) /\ nm[i] <= Len(all)
  BY <1>5
<1>9. \A i, j \in 1 .. k + 2 : i <= j => su[i] <= su[j]
  <2> SUFFICES ASSUME NEW i \in 1 .. k + 2, NEW j \in 1 .. k + 2, i <= j PROVE su[i] <= su[j]
    OBVIOUS
  <2>1. CASE j = k + 2
    <3>1. CASE i = k + 2
      BY <1>2, <1>6, <2>1, <3>1
    <3>2. CASE i \in 1 .. k + 1
      <4>1. su[i] \in Nat /\ su[i] <= Len(s) /\ su[j] = Len(t)
        BY <1>5, <1>6, <1>8, <2>1, <3>2
      <4> QED BY <1>2, <4>1
    <3> QED BY <1>7, <3>1, <3>2
  <2>2. CASE j \in 1 .. k + 1
    <3>1. i \in 1 .. k + 1
      BY <2>2
    <3> QED BY <1>5, <1>6, <2>2, <3>1
  <2> QED BY <1>7, <2>1, <2>2
<1>10. \A i, j \in 1 .. k + 2 : i <= j => nu[i] <= nu[j]
  <2> SUFFICES ASSUME NEW i \in 1 .. k + 2, NEW j \in 1 .. k + 2, i <= j PROVE nu[i] <= nu[j]
    OBVIOUS
  <2>1. CASE j = k + 2
    <3>1. CASE i = k + 2
      BY <1>4, <1>6, <2>1, <3>1
    <3>2. CASE i \in 1 .. k + 1
      <4>1. nu[i] \in Nat /\ nu[i] <= Len(all) /\ nu[j] = Len(al2)
        BY <1>5, <1>6, <1>8, <2>1, <3>2
      <4> QED BY <1>2, <1>4, <4>1
    <3> QED BY <1>7, <3>1, <3>2
  <2>2. CASE j \in 1 .. k + 1
    <3>1. i \in 1 .. k + 1
      BY <2>2
    <3> QED BY <1>5, <1>6, <2>2, <3>1
  <2> QED BY <1>7, <2>1, <2>2
<1>11. ASSUME NEW i \in 1 .. k + 1
       PROVE  /\ Chunk(t, su[i], su[i + 1])
              /\ t[su[i + 1]] = "ok" => nu[i + 1] = nu[i] + 1 /\ al2[nu[i] + 1] = t[su[i + 1] - 3]
              /\ t[su[i + 1]] = "bad" => nu[i + 1] = nu[i]
  <2>1. CASE i = k + 1
    <3>1. k + 1 \in 1 .. k + 1 /\ i + 1 = k + 2
      BY <2>1
    <3>2. su[i] = Len(s) /\ su[i + 1] = Len(t) /\ nu[i] = Len(all) /\ nu[i + 1] = Len(al2)
      BY <1>5, <1>6, <2>1, <3>1
    <3> QED
      BY <1>4, <3>2
  <2>2. CASE i \in 1 .. k
    <3> DEFINE a == st[i]
               b == st[i + 1]
    <3>1. /\ Chunk(s, a, b)
          /\ s[b] = "ok" => nm[i + 1] = nm[i] + 1 /\ all[nm[i] + 1] = s[b - 3]
          /\ s[b] = "bad" => nm[i + 1] = nm[i]
      BY <1>1, <2>2 DEF Framed
    <3>2. /\ su[i] = a /\ su[i + 1] = b /\ nu[i] = nm[i] /\ nu[i + 1] = nm[i + 1]
          /\ a \in Nat /\ b \in Nat /\ b <= Len(s) /\ nm[i] \in Nat /\ nm[i + 1] \in Nat
          /\ nm[i + 1] <= Len(all)
      BY <1>5, <1>6, <1>8, <2>2
    <3> HIDE DEF a, b
    <3>3. b - a \in {5, 6}
      BY <3>1 DEF Chunk
    <3>4. /\ a + 1 \in 1 .. Len(s) /\ b - 4 \in 1 .. Len(s) /\ b - 3 \in 1 .. Len(s)
          /\ b - 2 \in 1 .. Len(s) /\ b - 1 \in 1 .. Len(s) /\ b \in 1 .. Len(s)
      BY <1>2, <3>2, <3>3
    <3>5. Chunk(t, a, b)
      BY <3>1, <3>4 DEF Chunk
    <3>6. nm[i + 1] = nm[i] + 1 => al2[nm[i] + 1] = all[nm[i] + 1]
      BY <1>2, <1>4, <3>2
    <3> QED
      BY <3>1, <3>2, <3>4, <3>5, <3>6
  <2>3. i \in 1 .. k \/ i = k + 1
    OBVIOUS
  <2> QED
    BY <2>1, <2>2, <2>3
<1>12. Framed(t, k + 1, su, nu, al2) /\ nu[1] = done
  <2>1. (k + 1) + 1 = k + 2 /\ 1 \in 1 .. k + 1
    OBVIOUS
  <2>2. su[1] = 0 /\ nu[1] = done
    BY <1>1, <1>5, <1>6, <2>1
  <2>3. Framed(t, k + 1, su, nu, al2) <=>
           /\ su \in [1 .. k + 2 -> Nat] /\ su[1] = 0 /\ su[k + 2] = Len(t)
           /\ nu \in [1 .. k + 2 -> Nat] /\ nu[k + 2] = Len(al2)
           /\ \A i, j \in 1 .. k + 2 : i <= j => su[i] <= su[j]
           /\ \A i, j \in 1 .. k + 2 : i <= j => nu[i] <= nu[j]
           /\ \A i \in 1 .. k + 1 :
                /\ Chunk(t, su[i], su[i + 1])
                /\ t[su[i + 1]] = "ok" => nu[i + 1] = nu[i] + 1 /\ al2[nu[i] + 1] = t[su[i + 1] - 3]
                /\ t[su[i + 1]] = "bad" => nu[i + 1] = nu[i]
    BY ONLY <2>1 DEF Framed
  <2> QED
    BY <1>6, <1>9, <1>10, <1>11, <2>2, <2>3
<1> QED
  BY <1>12 DEF FramedFrom

(* The first chunk of a stream.                                            *)
LEMMA FirstOf ==
    ASSUME NEW s \in Seq(Symbol), NEW k \in Nat, NEW st, NEW nm, NEW all \in Seq(Commands),
           Framed(s, k, st, nm, all), k > 0
    PROVE  /\ st[2] \in {5, 6} /\ st[2] <= Len(s) /\ Chunk(s, 0, st[2])
           /\ nm[1] \in Nat /\ nm[2] \in Nat /\ nm[2] <= Len(all)
           /\ s[st[2]] = "ok" => nm[2] = nm[1] + 1 /\ all[nm[1] + 1] = s[st[2] - 3]
           /\ s[st[2]] = "bad" => nm[2] = nm[1]
<1>1. 1 \in 1 .. k /\ 1 + 1 = 2 /\ 2 \in 1 .. k + 1 /\ 2 <= k + 1 /\ k + 1 \in 1 .. k + 1 /\ 1 \in 1 .. k + 1
  OBVIOUS
<1>2. /\ st[1] = 0 /\ Chunk(s, st[1], st[2]) /\ st[2] <= st[k + 1] /\ st[k + 1] = Len(s)
      /\ nm[2] <= nm[k + 1] /\ nm[k + 1] = Len(all)
      /\ st[2] \in Nat /\ nm[1] \in Nat /\ nm[2] \in Nat
      /\ s[st[2]] = "ok" => nm[2] = nm[1] + 1 /\ all[nm[1] + 1] = s[st[2] - 3]
      /\ s[st[2]] = "bad" => nm[2] = nm[1]
  BY <1>1 DEF Framed
<1>3. st[2] \in {5, 6}
  BY <1>2 DEF Chunk
<1> QED
  BY <1>2, <1>3

(* Taking it away leaves a stream of the others.                           *)
LEMMA FrameRest ==
    ASSUME NEW s \in Seq(Symbol), NEW k \in Nat, NEW st, NEW nm, NEW all \in Seq(Commands),
           Framed(s, k, st, nm, all), k > 0,
           NEW t \in Seq(Symbol), Len(t) = Len(s) - st[2],
           \A i \in 1 .. Len(t) : t[i] = s[st[2] + i]
    PROVE  FramedFrom(t, nm[2], all)
<1> DEFINE L == st[2]
           su == [i \in 1 .. k |-> st[i + 1] - L]
           nu == [i \in 1 .. k |-> nm[i + 1]]
<1>1. /\ st \in [1 .. k + 1 -> Nat] /\ st[k + 1] = Len(s)
      /\ nm \in [1 .. k + 1 -> Nat] /\ nm[k + 1] = Len(all)
      /\ \A i, j \in 1 .. k + 1 : i <= j => st[i] <= st[j]
      /\ \A i, j \in 1 .. k + 1 : i <= j => nm[i] <= nm[j]
  BY DEF Framed
<1>2. L \in Nat /\ Len(s) \in Nat /\ L <= Len(s)
  BY <1>1, FirstOf
<1>3. \A i \in 1 .. k : i + 1 \in 1 .. k + 1 /\ 2 <= i + 1
  OBVIOUS
<1>4. ASSUME NEW i \in 1 .. k
      PROVE  st[i + 1] \in Nat /\ nm[i + 1] \in Nat /\ st[i + 1] >= L /\ st[i + 1] <= Len(s)
  <2>1. 2 \in 1 .. k + 1 /\ k + 1 \in 1 .. k + 1 /\ i + 1 <= k + 1 /\ i + 1 \in 1 .. k + 1 /\ 2 <= i + 1
    OBVIOUS
  <2> QED
    BY <1>1, <2>1
<1> HIDE DEF L
<1>5. /\ \A i \in 1 .. k : su[i] = st[i + 1] - L /\ nu[i] = nm[i + 1]
      /\ su \in [1 .. k -> Nat] /\ nu \in [1 .. k -> Nat]
  <2>1. \A i \in 1 .. k : st[i + 1] - L \in Nat
    BY <1>2, <1>4
  <2> QED
    BY <1>4, <2>1
<1> HIDE DEF su, nu
<1>6. su[1] = 0 /\ nu[1] = nm[2]
  <2>1. 1 \in 1 .. k /\ 1 + 1 = 2
    OBVIOUS
  <2> QED
    BY <1>2, <1>5, <2>1 DEF L
<1>7. su[k] = Len(t) /\ nu[k] = Len(all)
  <2>1. k \in 1 .. k
    OBVIOUS
  <2> QED
    BY <1>1, <1>5, <2>1 DEF L
<1>8. ASSUME NEW i \in 1 .. k, NEW j \in 1 .. k, i <= j
      PROVE  su[i] <= su[j] /\ nu[i] <= nu[j]
  <2>1. i + 1 <= j + 1
    BY <1>8
  <2>2. st[i + 1] <= st[j + 1] /\ nm[i + 1] <= nm[j + 1]
    BY <1>1, <1>3, <2>1
  <2>3. /\ su[i] = st[i + 1] - L /\ su[j] = st[j + 1] - L /\ nu[i] = nm[i + 1] /\ nu[j] = nm[j + 1]
        /\ st[i + 1] \in Nat /\ st[j + 1] \in Nat /\ L \in Nat
    BY <1>2, <1>4, <1>5
  <2> QED
    BY <2>2, <2>3
<1>9. ASSUME NEW i \in 1 .. k - 1
      PROVE  /\ Chunk(t, su[i], su[i + 1])
             /\ t[su[i + 1]] = "ok" => nu[i + 1] = nu[i] + 1 /\ all[nu[i] + 1] = t[su[i + 1] - 3]
             /\ t[su[i + 1]] = "bad" => nu[i + 1] = nu[i]
  <2> DEFINE a == st[i + 1]
             b == st[i + 2]
  <2>1. i \in 1 .. k /\ i + 1 \in 1 .. k /\ (i + 1) + 1 = i + 2
    OBVIOUS
  <2>2. /\ su[i] = a - L /\ su[i + 1] = b - L /\ nu[i] = nm[i + 1] /\ nu[i + 1] = nm[i + 2]
        /\ a \in Nat /\ b \in Nat /\ a >= L /\ b <= Len(s)
    BY <1>4, <1>5, <2>1
  <2>3. /\ Chunk(s, a, b)
        /\ s[b] = "ok" => nm[i + 2] = nm[i + 1] + 1 /\ all[nm[i + 1] + 1] = s[b - 3]
        /\ s[b] = "bad" => nm[i + 2] = nm[i + 1]
    BY <2>1 DEF Framed
  <2> HIDE DEF a, b
  <2>4. b - a \in {5, 6}
    BY <2>3 DEF Chunk
  <2>5. Len(t) = Len(s) - L
    BY DEF L
  <2>6. \A c \in L + 1 .. Len(s) : t[c - L] = s[c]
    <3> SUFFICES ASSUME NEW c \in L + 1 .. Len(s) PROVE t[c - L] = s[c]
      OBVIOUS
    <3>1. c - L \in 1 .. Len(t) /\ L + (c - L) = c
      BY <1>2, <2>5
    <3> QED
      BY <3>1 DEF L
  <2>7. /\ a + 1 \in L + 1 .. Len(s) /\ b - 4 \in L + 1 .. Len(s) /\ b - 3 \in L + 1 .. Len(s)
        /\ b - 2 \in L + 1 .. Len(s) /\ b - 1 \in L + 1 .. Len(s) /\ b \in L + 1 .. Len(s)
    BY <1>2, <2>2, <2>4
  <2>8. /\ t[(a + 1) - L] = s[a + 1] /\ t[(b - 4) - L] = s[b - 4] /\ t[(b - 3) - L] = s[b - 3]
        /\ t[(b - 2) - L] = s[b - 2] /\ t[(b - 1) - L] = s[b - 1] /\ t[b - L] = s[b]
    BY <2>6, <2>7
  <2>9. /\ (a + 1) - L = (a - L) + 1 /\ (b - 4) - L = (b - L) - 4 /\ (b - 3) - L = (b - L) - 3
        /\ (b - 2) - L = (b - L) - 2 /\ (b - 1) - L = (b - L) - 1 /\ (b - L) - (a - L) = b - a
    BY <1>2, <2>2
  <2>10. Chunk(t, a - L, b - L)
    BY ONLY <2>3, <2>8, <2>9 DEF Chunk
  <2> QED
    BY ONLY <2>2, <2>3, <2>8, <2>9, <2>10
<1>10. Framed(t, k - 1, su, nu, all)
  <2>1. (k - 1) + 1 = k
    OBVIOUS
  <2>2. Framed(t, k - 1, su, nu, all) <=>
           /\ su \in [1 .. k -> Nat] /\ su[1] = 0 /\ su[k] = Len(t)
           /\ nu \in [1 .. k -> Nat] /\ nu[k] = Len(all)
           /\ \A i, j \in 1 .. k : i <= j => su[i] <= su[j]
           /\ \A i, j \in 1 .. k : i <= j => nu[i] <= nu[j]
           /\ \A i \in 1 .. k - 1 :
                /\ Chunk(t, su[i], su[i + 1])
                /\ t[su[i + 1]] = "ok" => nu[i + 1] = nu[i] + 1 /\ all[nu[i] + 1] = t[su[i + 1] - 3]
                /\ t[su[i + 1]] = "bad" => nu[i + 1] = nu[i]
    BY ONLY <2>1 DEF Framed
  <2>3. /\ \A i, j \in 1 .. k : i <= j => su[i] <= su[j]
        /\ \A i, j \in 1 .. k : i <= j => nu[i] <= nu[j]
    BY <1>8
  <2> QED
    BY ONLY <1>5, <1>6, <1>7, <1>9, <2>2, <2>3
<1>11. k - 1 \in Nat
  OBVIOUS
<1> QED
  BY <1>6, <1>10, <1>11 DEF FramedFrom

(* What gdb_receive sees of the stream's first chunk: once it is all there *)
(* its packet is found, and before that nothing is.                        *)
LEMMA ChunkSeen ==
    ASSUME buf \in Seq(Symbol), NEW s \in Seq(Symbol), Len(buf) <= Len(s),
           \A i \in 1 .. Len(buf) : buf[i] = s[i],
           NEW L \in {5, 6}, Chunk(s, 0, L)
    PROVE  /\ Complete <=> L <= Len(buf)
           /\ L <= Len(buf) => Dollar = {L - 4} /\ Hash = {L - 2}
<1>1. Len(buf) \in Nat /\ Len(s) \in Nat
  OBVIOUS
<1>2. /\ s[L - 4] = "$" /\ s[L - 3] # "#" /\ s[L - 2] = "#" /\ \A j \in 1 .. L - 5 : s[j] = "+"
  <2>1. /\ s[L - 4] = "$" /\ s[L - 3] \in Commands /\ s[L - 2] = "#" /\ (L = 6 => s[1] = "+")
    BY DEF Chunk
  <2>2. s[L - 3] # "#"
    BY <2>1, GdbAssumption
  <2>3. \A j \in 1 .. L - 5 : j = 1 /\ L = 6
    OBVIOUS
  <2> QED
    BY <2>1, <2>2, <2>3
<1>3. ASSUME NEW d \in Dollar PROVE d = L - 4
  <2>1. d \in 1 .. Len(buf) /\ buf[d] = "$" /\ \A j \in 1 .. d - 1 : buf[j] # "$"
    BY DEF Dollar, First
  <2>2. CASE d < L - 4
    <3>1. d \in 1 .. L - 5
      BY <1>1, <2>1, <2>2
    <3> QED
      BY <1>2, <2>1, <3>1
  <2>3. CASE d > L - 4
    <3>1. L - 4 \in 1 .. d - 1 /\ L - 4 \in 1 .. Len(buf)
      BY <1>1, <2>1, <2>3
    <3> QED
      BY <1>2, <2>1, <3>1
  <2> QED
    BY <2>1, <2>2, <2>3
<1>4. ASSUME NEW h \in Hash PROVE h = L - 2
  <2>1. PICK d \in Dollar : h \in 1 .. Len(buf) /\ d < h /\ buf[h] = "#" /\ \A j \in d .. h - 1 : buf[j] # "#"
    BY DEF Hash
  <2>2. d = L - 4
    BY <1>3
  <2>3. CASE h < L - 2
    <3>1. h = L - 3
      BY <1>1, <2>1, <2>2, <2>3
    <3> QED
      BY <1>2, <2>1, <3>1
  <2>4. CASE h > L - 2
    <3>1. L - 2 \in d .. h - 1 /\ L - 2 \in 1 .. Len(buf)
      BY <1>1, <2>1, <2>2, <2>4
    <3> QED
      BY <1>2, <2>1, <3>1
  <2> QED
    BY <2>1, <2>3, <2>4
<1>5. ASSUME L <= Len(buf) PROVE L - 4 \in Dollar /\ L - 2 \in Hash
  <2>1. L - 4 \in 1 .. Len(buf) /\ L - 3 \in 1 .. Len(buf) /\ L - 2 \in 1 .. Len(buf)
    BY <1>1, <1>5
  <2>2. buf[L - 4] = "$" /\ buf[L - 3] # "#" /\ buf[L - 2] = "#"
    BY <1>2, <2>1
  <2>3. \A j \in 1 .. (L - 4) - 1 : buf[j] # "$"
    <3> SUFFICES ASSUME NEW j \in 1 .. (L - 4) - 1 PROVE buf[j] # "$"
      OBVIOUS
    <3>1. j \in 1 .. L - 5 /\ j \in 1 .. Len(buf)
      BY <1>1, <1>5
    <3> QED
      BY <1>2, <3>1
  <2>4. L - 4 \in Dollar
    BY <2>1, <2>2, <2>3 DEF Dollar, First
  <2>5. \A j \in L - 4 .. (L - 2) - 1 : buf[j] # "#"
    <3> SUFFICES ASSUME NEW j \in L - 4 .. (L - 2) - 1 PROVE buf[j] # "#"
      OBVIOUS
    <3>1. j = L - 4 \/ j = L - 3
      OBVIOUS
    <3> QED
      BY <2>2, <3>1
  <2>6. L - 4 < L - 2
    OBVIOUS
  <2>7. L - 2 \in Hash
    BY <2>1, <2>2, <2>4, <2>5, <2>6 DEF Hash
  <2> QED
    BY <2>4, <2>7
<1>6. PacketEnd(L - 2) = L
  BY DEF PacketEnd
<1>7. L <= Len(buf) => Dollar = {L - 4} /\ Hash = {L - 2}
  BY <1>3, <1>4, <1>5
<1>8. Complete <=> L <= Len(buf)
  BY <1>4, <1>5, <1>6 DEF Complete
<1> QED
  BY <1>7, <1>8

(* An empty stream shows no packet.                                        *)
LEMMA NothingSeen ==
    ASSUME buf = <<>>
    PROVE  ~Complete
<1>1. \A h \in Hash : h \in 1 .. Len(buf)
  BY DEF Hash
<1>2. Len(buf) = 0
  OBVIOUS
<1>3. Hash = {}
  BY <1>1, <1>2
<1> QED
  BY <1>3 DEF Complete

(* The stream's first chunk, or that there is none, by what is in buf.     *)
LEMMA StreamStart ==
    ASSUME buf \in Seq(Symbol), wire \in Seq(Symbol), NEW s, s = buf \o wire,
           NEW all \in Seq(Commands), NEW k \in Nat, NEW st, NEW nm, Framed(s, k, st, nm, all)
    PROVE  /\ s \in Seq(Symbol)
           /\ k = 0 => s = <<>> /\ buf = <<>> /\ wire = <<>> /\ ~Complete /\ nm[1] = Len(all)
           /\ k > 0 => /\ Complete <=> st[2] <= Len(buf)
                       /\ Complete => Dollar = {st[2] - 4} /\ Hash = {st[2] - 2}
                       /\ st[2] \in {5, 6} /\ st[2] <= Len(buf) + Len(wire)
<1>1. /\ s \in Seq(Symbol) /\ Len(s) = Len(buf) + Len(wire) /\ Len(buf) \in Nat /\ Len(wire) \in Nat
      /\ \A i \in 1 .. Len(buf) : s[i] = buf[i]
  BY Joined
<1>2. ASSUME k = 0 PROVE s = <<>> /\ buf = <<>> /\ wire = <<>> /\ ~Complete /\ nm[1] = Len(all)
  <2>1. st[1] = 0 /\ st[k + 1] = Len(s) /\ nm[k + 1] = Len(all) /\ k + 1 = 1
    BY <1>2 DEF Framed
  <2>2. Len(s) = 0 /\ Len(buf) = 0 /\ Len(wire) = 0
    BY <1>1, <2>1
  <2>3. s = <<>> /\ buf = <<>> /\ wire = <<>>
    BY <1>1, <2>2, EmptySeq
  <2> QED
    BY <2>1, <2>3, NothingSeen
<1>3. ASSUME k > 0
      PROVE  /\ Complete <=> st[2] <= Len(buf)
             /\ Complete => Dollar = {st[2] - 4} /\ Hash = {st[2] - 2}
             /\ st[2] \in {5, 6} /\ st[2] <= Len(buf) + Len(wire)
  <2>1. st[2] \in {5, 6} /\ st[2] <= Len(s) /\ Chunk(s, 0, st[2])
    BY <1>1, <1>3, FirstOf
  <2>2. Len(buf) <= Len(s) /\ \A i \in 1 .. Len(buf) : buf[i] = s[i]
    BY <1>1
  <2> QED
    BY <1>1, <2>1, <2>2, ChunkSeen
<1> QED
  BY <1>1, <1>2, <1>3

(* A prefix, element by element.                                           *)
LEMMA PrefixIs ==
    ASSUME NEW S, NEW a \in Seq(S), NEW b \in Seq(S), Len(a) <= Len(b)
    PROVE  a = SubSeq(b, 1, Len(a)) <=> \A i \in 1 .. Len(a) : a[i] = b[i]
<1>1. Len(a) \in Nat /\ Len(b) \in Nat
  OBVIOUS
<1>2. /\ SubSeq(b, 1, Len(a)) \in Seq(S) /\ Len(SubSeq(b, 1, Len(a))) = Len(a)
      /\ \A i \in 1 .. Len(a) : SubSeq(b, 1, Len(a))[i] = b[i]
  BY <1>1
<1> DEFINE p == SubSeq(b, 1, Len(a))
<1> HIDE DEF p
<1>3. p \in Seq(S) /\ Len(p) = Len(a) /\ \A i \in 1 .. Len(a) : p[i] = b[i]
  BY <1>2 DEF p
<1>4. a = p <=> \A i \in 1 .. Len(a) : a[i] = b[i]
  BY <1>3, SeqEqual
<1> QED
  BY <1>4 DEF p

(* What was executed is no more than was sent, and the stream holds the    *)
(* rest.                                                                   *)
LEMMA StreamFacts ==
    ASSUME StreamInv
    PROVE  \E k, st, nm :
             /\ k \in Nat /\ Framed(buf \o wire, k, st, nm, sent) /\ nm[1] = Len(executed)
             /\ Len(executed) <= Len(sent) /\ Len(executed) \in Nat /\ Len(sent) \in Nat
<1>1. PICK k, st, nm : k \in Nat /\ Framed(buf \o wire, k, st, nm, sent) /\ nm[1] = Len(executed)
  BY DEF StreamInv, FramedFrom
<1> k \in Nat
  BY <1>1
<1>2. 1 \in 1 .. k + 1 /\ k + 1 \in 1 .. k + 1 /\ 1 <= k + 1
  OBVIOUS
<1>3. nm[1] <= nm[k + 1] /\ nm[k + 1] = Len(sent)
  BY <1>1, <1>2 DEF Framed
<1>4. Len(executed) \in Nat /\ Len(sent) \in Nat
  BY DEF StreamInv
<1> QED
  BY <1>1, <1>3, <1>4

(* A connection starts with an empty stream: no chunks.                    *)
LEMMA InitStream == GdbInit => StreamInv
<1> SUFFICES ASSUME GdbInit PROVE StreamInv
  OBVIOUS
<1>1. buf = <<>> /\ wire = <<>> /\ sent = <<>> /\ executed = <<>>
  BY DEF GdbInit
<1>2. buf \in Seq(Symbol) /\ wire \in Seq(Symbol) /\ sent \in Seq(Commands) /\ executed \in Seq(Commands)
  BY <1>1
<1>3. executed = SubSeq(sent, 1, Len(executed)) /\ Len(executed) = 0 /\ Len(sent) = 0
  BY <1>1
<1>4. buf \o wire = <<>> /\ Len(buf \o wire) = 0
  BY <1>1
<1> DEFINE z == [i \in 1 .. 1 |-> 0]
<1>5. z \in [1 .. 0 + 1 -> Nat] /\ z[1] = 0 /\ z[0 + 1] = 0 /\ \A i, j \in 1 .. 0 + 1 : z[i] <= z[j]
  OBVIOUS
<1> HIDE DEF z
<1>6. Framed(buf \o wire, 0, z, z, sent)
  BY <1>3, <1>4, <1>5 DEF Framed
<1>7. FramedFrom(buf \o wire, Len(executed), sent)
  BY <1>3, <1>5, <1>6 DEF FramedFrom
<1> QED
  BY <1>2, <1>3, <1>7 DEF StreamInv

(* The pieces are sequences of symbols.                                    *)
LEMMA SendPieces ==
    ASSUME NEW cmd \in Commands, NEW check \in {"ok", "bad"}, NEW ack \in Acks
    PROVE  ack \in Seq(Symbol) /\ Packet5(cmd, check) \in Seq(Symbol)
<1>1. "$" \in Symbol /\ cmd \in Symbol /\ "#" \in Symbol /\ "x" \in Symbol /\ check \in Symbol /\ "+" \in Symbol
  BY DEF Symbol
<1>2. Packet5(cmd, check) \in Seq(Symbol)
  BY <1>1 DEF Packet5
<1>3. <<"+">> \in Seq(Symbol) /\ <<>> \in Seq(Symbol)
  BY <1>1
<1>4. ack \in Seq(Symbol)
  BY <1>3 DEF Acks
<1> QED
  BY <1>2, <1>4

(* What is put on the wire is put at the end of the stream.                *)
LEMMA Regroup ==
    ASSUME NEW b \in Seq(Symbol), NEW w \in Seq(Symbol),
           NEW cmd \in Commands, NEW check \in {"ok", "bad"}, NEW ack \in Acks
    PROVE  /\ Extended(w, ack, cmd, check) \in Seq(Symbol)
           /\ b \o Extended(w, ack, cmd, check) = Extended(b \o w, ack, cmd, check)
<1> DEFINE u == w \o ack
           p == Packet5(cmd, check)
<1>1. ack \in Seq(Symbol) /\ p \in Seq(Symbol)
  BY SendPieces
<1> HIDE DEF p
<1>2. u \in Seq(Symbol) /\ b \o u = (b \o w) \o ack
  BY <1>1
<1> HIDE DEF u
<1>3. \A y \in Seq(Symbol) : b \o (y \o p) = (b \o y) \o p /\ y \o p \in Seq(Symbol)
  BY <1>1
<1>4. b \o (u \o p) = ((b \o w) \o ack) \o p /\ u \o p \in Seq(Symbol)
  BY <1>2, <1>3, Zenon
<1> QED
  BY <1>4, Zenon DEF u, p, Extended

(* Stream s with one more chunk at its end.                                *)
LEMMA SendStream ==
    ASSUME NEW s \in Seq(Symbol), NEW all \in Seq(Commands), NEW done, FramedFrom(s, done, all),
           NEW cmd \in Commands, NEW check \in {"ok", "bad"}, NEW ack \in Acks,
           NEW t, t = Extended(s, ack, cmd, check),
           NEW al2, al2 = IF check = "ok" THEN Append(all, cmd) ELSE all
    PROVE  FramedFrom(t, done, al2)
<1>1. /\ t \in Seq(Symbol) /\ Len(t) \in {Len(s) + 5, Len(s) + 6} /\ \A i \in 1 .. Len(s) : t[i] = s[i]
      /\ Chunk(t, Len(s), Len(t)) /\ t[Len(t)] = check /\ t[Len(t) - 3] = cmd
  <2>1. NewChunkIn(s, Extended(s, ack, cmd, check), cmd, check)
    BY NewChunk
  <2>2. NewChunkIn(s, t, cmd, check)
    BY <2>1
  <2> QED
    BY <2>2 DEF NewChunkIn
<1>2. Len(t) >= Len(s)
  BY <1>1
<1>3. al2 = IF t[Len(t)] = "ok" THEN Append(all, t[Len(t) - 3]) ELSE all
  BY <1>1
<1> QED
  BY <1>1, <1>2, <1>3, FrameSend

(* gdb puts a chunk at the stream's end.                                   *)
LEMMA SendKeeps ==
    ASSUME StreamInv, NEW cmd \in Commands, NEW check \in {"ok", "bad"}, GdbSends(cmd, check)
    PROVE  StreamInv'
<1>1. PICK ack \in Acks : wire' = Extended(wire, ack, cmd, check)
  BY Zenon DEF GdbSends, Packet5, Acks, Extended
<1>2. /\ sent' = IF check = "ok" THEN Append(sent, cmd) ELSE sent
      /\ buf' = buf /\ executed' = executed
  BY DEF GdbSends
<1>3. /\ buf \in Seq(Symbol) /\ wire \in Seq(Symbol) /\ sent \in Seq(Commands)
      /\ executed \in Seq(Commands) /\ executed = SubSeq(sent, 1, Len(executed))
      /\ FramedFrom(buf \o wire, Len(executed), sent)
  BY DEF StreamInv
<1>4. Len(executed) <= Len(sent) /\ Len(executed) \in Nat /\ Len(sent) \in Nat
  BY StreamFacts
<1>5. wire' \in Seq(Symbol) /\ buf \o wire' = Extended(buf \o wire, ack, cmd, check)
  <2>1. /\ Extended(wire, ack, cmd, check) \in Seq(Symbol)
        /\ buf \o Extended(wire, ack, cmd, check) = Extended(buf \o wire, ack, cmd, check)
    BY <1>3, Regroup
  <2> QED
    BY <1>1, <2>1, Zenon
<1>6. buf \o wire \in Seq(Symbol)
  BY <1>3
<1>7. FramedFrom(buf \o wire', Len(executed), sent')
  <2> DEFINE s == buf \o wire
             t == buf \o wire'
  <2>2. s \in Seq(Symbol) /\ FramedFrom(s, Len(executed), sent) /\ t = Extended(s, ack, cmd, check)
    BY <1>3, <1>5, <1>6, Zenon
  <2> HIDE DEF s, t
  <2>3. FramedFrom(t, Len(executed), sent')
    BY <1>1, <1>2, <1>3, <2>2, SendStream
  <2> QED
    BY <2>3 DEF t
<1>13. sent' \in Seq(Commands) /\ Len(sent') >= Len(sent) /\ \A i \in 1 .. Len(sent) : sent'[i] = sent[i]
  BY <1>2, <1>3
<1>14. executed = SubSeq(sent', 1, Len(executed))
  <2>1. \A i \in 1 .. Len(executed) : executed[i] = sent[i]
    BY <1>3, <1>4, PrefixIs
  <2>2. \A i \in 1 .. Len(executed) : executed[i] = sent'[i]
    BY <1>4, <1>13, <2>1
  <2>3. Len(executed) <= Len(sent')
    BY <1>3, <1>4, <1>13
  <2> QED
    BY <1>3, <1>13, <2>2, <2>3, PrefixIs
<1> QED
  BY <1>2, <1>3, <1>5, <1>7, <1>13, <1>14 DEF StreamInv

(* A read moves symbols from the wire to the buffer and throws none away:  *)
(* a buffer without a complete packet is not full.                         *)
LEMMA ReadKeeps ==
    ASSUME StreamInv, NEW n \in 1 .. GDBBUF, gdb_read(n)
    PROVE  StreamInv'
<1>1. /\ ~Complete /\ n <= Len(wire) /\ wire' = SubSeq(wire, n + 1, Len(wire))
      /\ Len(buf) < GDBBUF => buf' = buf \o SubSeq(wire, 1, n)
      /\ sent' = sent /\ executed' = executed
  <2>1. Len(buf) \in Nat /\ GDBBUF \in Nat
    BY GdbAssumption DEF StreamInv
  <2>2. ~Complete /\ n <= Len(wire) /\ wire' = SubSeq(wire, n + 1, Len(wire)) /\ sent' = sent /\ executed' = executed
    BY DEF gdb_read
  <2>3. buf' = (IF Len(buf) >= GDBBUF THEN <<>> ELSE buf) \o SubSeq(wire, 1, n)
    BY DEF gdb_read
  <2>4. ASSUME Len(buf) < GDBBUF PROVE buf' = buf \o SubSeq(wire, 1, n)
    <3>1. (IF Len(buf) >= GDBBUF THEN <<>> ELSE buf) = buf
      BY <2>1, <2>4
    <3> QED
      BY <2>3, <3>1, Zenon
  <2> QED
    BY <2>2, <2>4, Zenon
<1>2. /\ buf \in Seq(Symbol) /\ wire \in Seq(Symbol) /\ sent \in Seq(Commands)
      /\ executed \in Seq(Commands) /\ executed = SubSeq(sent, 1, Len(executed))
      /\ FramedFrom(buf \o wire, Len(executed), sent)
  BY DEF StreamInv
<1>3. Len(buf) < GDBBUF
  <2>1. PICK k, st, nm : k \in Nat /\ Framed(buf \o wire, k, st, nm, sent)
    BY StreamFacts
  <2> k \in Nat
    BY <2>1
  <2>2. CASE k = 0
    <3>1. buf = <<>>
      BY <1>2, <2>1, <2>2, StreamStart
    <3> QED
      BY <3>1, GdbAssumption
  <2>3. CASE k > 0
    <3>1. st[2] \in {5, 6} /\ ~(st[2] <= Len(buf))
      BY <1>1, <1>2, <2>1, <2>3, StreamStart
    <3> QED
      BY <1>2, <3>1, GdbAssumption
  <2> QED
    BY <2>2, <2>3
<1> DEFINE u == SubSeq(wire, 1, n)
           v == SubSeq(wire, n + 1, Len(wire))
<1>4. u \in Seq(Symbol) /\ v \in Seq(Symbol) /\ u \o v = wire
  <2>1. n \in Nat /\ n >= 1 /\ Len(wire) \in Nat
    BY <1>2, GdbAssumption
  <2>2. u \in Seq(Symbol) /\ v \in Seq(Symbol)
    BY <1>1, <1>2, <2>1
  <2>3. 1 \in 1 .. Len(wire) + 1 /\ n \in 1 - 1 .. Len(wire) /\ Len(wire) \in n .. Len(wire)
    BY <1>1, <2>1
  <2>4. u \o v = SubSeq(wire, 1, Len(wire))
    BY <1>2, <2>3, ConcatAdjacentSubSeq
  <2> QED
    BY <1>2, <2>2, <2>4, SubSeqFull
<1> HIDE DEF u, v
<1>5. buf' = buf \o u /\ wire' = v
  BY <1>1, <1>3 DEF u, v
<1>6. buf' \o wire' = buf \o wire
  <2>1. \A x \in Seq(Symbol), y \in Seq(Symbol), z \in Seq(Symbol) : (x \o y) \o z = x \o (y \o z)
    OBVIOUS
  <2>2. (buf \o u) \o v = buf \o (u \o v)
    BY <1>2, <1>4, <2>1, Zenon
  <2> QED
    BY <1>4, <1>5, <2>2, Zenon
<1>7. buf' \in Seq(Symbol) /\ wire' \in Seq(Symbol)
  BY <1>2, <1>4, <1>5
<1> QED
  BY <1>1, <1>2, <1>6, <1>7 DEF StreamInv

(* What CHOOSE picks from a set of one.                                    *)
LEMMA TheOnly ==
    ASSUME NEW x, NEW T, T = {x}
    PROVE  (CHOOSE y \in T : TRUE) = x
  OBVIOUS

(* Sequence c is a and then b.                                             *)
IsJoin(c, a, b) ==
    /\ a \in Seq(Symbol) /\ b \in Seq(Symbol) /\ c \in Seq(Symbol) /\ Len(c) = Len(a) + Len(b)
    /\ \A i \in 1 .. Len(a) : c[i] = a[i]
    /\ \A i \in 1 .. Len(b) : c[Len(a) + i] = b[i]

LEMMA JoinIs ==
    ASSUME NEW a \in Seq(Symbol), NEW b \in Seq(Symbol)
    PROVE  IsJoin(a \o b, a, b)
<1> DEFINE c == a \o b
<1>1. /\ c \in Seq(Symbol) /\ Len(c) = Len(a) + Len(b)
      /\ \A i \in 1 .. Len(a) : c[i] = a[i]
      /\ \A i \in 1 .. Len(b) : c[Len(a) + i] = b[i]
  BY Joined
<1> HIDE DEF c
<1>2. IsJoin(c, a, b)
  BY <1>1 DEF IsJoin
<1> QED
  BY <1>2 DEF c

(* The stream without its first L symbols, which are all in the buffer.    *)
IsRest(r, b, L) == Len(r) = Len(b) - L /\ \A i \in 1 .. Len(r) : r[i] = b[L + i]

LEMMA RestOf ==
    ASSUME NEW b, NEW w, NEW s, IsJoin(s, b, w), NEW L \in {5, 6}, L <= Len(b),
           NEW r, NEW t, IsJoin(t, r, w), IsRest(r, b, L)
    PROVE  IsRest(t, s, L)
<1>1. Len(b) \in Nat /\ Len(w) \in Nat /\ Len(r) \in Nat /\ Len(t) \in Nat
      /\ Len(r) = Len(b) - L /\ \A i \in 1 .. Len(r) : r[i] = b[L + i]
  BY DEF IsJoin, IsRest
<1>2. /\ Len(s) = Len(b) + Len(w)
      /\ \A i \in 1 .. Len(b) : s[i] = b[i]
      /\ \A i \in 1 .. Len(w) : s[Len(b) + i] = w[i]
  BY DEF IsJoin
<1>3. /\ Len(t) = Len(r) + Len(w)
      /\ \A i \in 1 .. Len(r) : t[i] = r[i]
      /\ \A i \in 1 .. Len(w) : t[Len(r) + i] = w[i]
  BY DEF IsJoin
<1>4. ASSUME NEW i \in 1 .. Len(t) PROVE t[i] = s[L + i]
  <2>1. CASE i <= Len(r)
    <3>1. i \in 1 .. Len(r) /\ L + i \in 1 .. Len(b)
      BY <1>1, <2>1
    <3> QED
      BY <1>1, <1>2, <1>3, <3>1
  <2>2. CASE i > Len(r)
    <3> DEFINE j == i - Len(r)
    <3>1. j \in 1 .. Len(w) /\ Len(r) + j = i /\ Len(b) + j = L + i
      BY <1>1, <1>3, <2>2
    <3> HIDE DEF j
    <3> QED
      BY <1>2, <1>3, <3>1
  <2> QED
    BY <1>1, <2>1, <2>2
<1>5. Len(t) = Len(s) - L
  BY <1>1, <1>2, <1>3
<1> QED
  BY <1>4, <1>5 DEF IsRest

(* gdb_receive takes the first chunk off the stream, and runs its command  *)
(* if the check is good: the one sent next.                                *)
LEMMA PacketKeeps ==
    ASSUME StreamInv, gdb_packet
    PROVE  StreamInv'
<1>1. /\ buf \in Seq(Symbol) /\ wire \in Seq(Symbol) /\ sent \in Seq(Commands)
      /\ executed \in Seq(Commands) /\ executed = SubSeq(sent, 1, Len(executed))
  BY DEF StreamInv
<1>2. PICK k, st, nm :
         /\ k \in Nat /\ Framed(buf \o wire, k, st, nm, sent) /\ nm[1] = Len(executed)
         /\ Len(executed) <= Len(sent) /\ Len(executed) \in Nat /\ Len(sent) \in Nat
  BY StreamFacts
<1> k \in Nat
  BY <1>2
<1> DEFINE s == buf \o wire
           L == st[2]
<1>3. s \in Seq(Symbol) /\ Framed(s, k, st, nm, sent)
  BY <1>1, <1>2
<1> HIDE DEF s
<1>4. Complete
  BY DEF gdb_packet
<1>5. /\ k > 0 /\ L \in {5, 6} /\ L <= Len(buf) /\ Dollar = {L - 4} /\ Hash = {L - 2}
  <2>1. k # 0
    BY <1>1, <1>3, <1>4, StreamStart DEF s
  <2>2. k > 0 => /\ Complete <=> st[2] <= Len(buf)
                 /\ Complete => Dollar = {st[2] - 4} /\ Hash = {st[2] - 2}
                 /\ st[2] \in {5, 6}
    BY <1>1, <1>2, StreamStart
  <2>3. k > 0
    BY <2>1
  <2> QED
    BY <1>4, <2>2, <2>3
<1>6. /\ Chunk(s, 0, L) /\ L <= Len(s) /\ nm[2] \in Nat /\ nm[2] <= Len(sent)
      /\ s[L] = "ok" => nm[2] = nm[1] + 1 /\ sent[nm[1] + 1] = s[L - 3]
      /\ s[L] = "bad" => nm[2] = nm[1]
  BY <1>1, <1>3, <1>5, FirstOf
<1> HIDE DEF L
<1> DEFINE packet == SubSeq(buf, L - 4, L)
<1>7. /\ buf' = SubSeq(buf, L + 1, Len(buf)) /\ wire' = wire /\ sent' = sent
      /\ \/ packet[Len(packet)] # "ok" /\ executed' = executed
         \/ packet[Len(packet)] = "ok" /\ executed' = Append(executed, packet[2])
  <2>1. (CHOOSE x \in Dollar : TRUE) = L - 4 /\ (CHOOSE x \in Hash : TRUE) = L - 2
    BY <1>5, TheOnly
  <2>2. PacketEnd(L - 2) = L
    BY <1>5 DEF PacketEnd
  <2> HIDE DEF packet
  <2>3. SubSeq(buf, CHOOSE x \in Dollar : TRUE, PacketEnd(CHOOSE x \in Hash : TRUE)) = packet
    BY <2>1, <2>2, Zenon DEF packet
  <2>4. SubSeq(buf, PacketEnd(CHOOSE x \in Hash : TRUE) + 1, Len(buf)) = SubSeq(buf, L + 1, Len(buf))
    BY <2>1, <2>2, Zenon
  <2>5. /\ buf' = SubSeq(buf, PacketEnd(CHOOSE x \in Hash : TRUE) + 1, Len(buf))
        /\ wire' = wire /\ sent' = sent
    BY DEF gdb_packet
  <2>6. \/ packet[Len(packet)] # "ok" /\ executed' = executed
        \/ packet[Len(packet)] = "ok" /\ executed' = Append(executed, packet[2])
    BY <2>3 DEF gdb_packet
  <2> QED
    BY <2>4, <2>5, <2>6, Zenon
<1>8. /\ s[L] \in {"ok", "bad"} /\ s[L - 3] \in Commands
  BY <1>6 DEF Chunk
<1>9. packet[Len(packet)] = s[L] /\ packet[2] = s[L - 3]
  <2>1. Len(packet) = 5 /\ packet[5] = buf[L] /\ packet[2] = buf[L - 3]
    BY <1>1, <1>5
  <2>2. L \in 1 .. Len(buf) /\ L - 3 \in 1 .. Len(buf)
    BY <1>1, <1>5
  <2>3. \A i \in 1 .. Len(buf) : s[i] = buf[i]
    BY <1>1, Joined DEF s
  <2> HIDE DEF packet
  <2> QED
    BY <2>1, <2>2, <2>3
<1> HIDE DEF packet
<1> DEFINE t == buf' \o wire
<1>10. /\ buf' \in Seq(Symbol) /\ t \in Seq(Symbol) /\ Len(t) = Len(s) - L
       /\ \A i \in 1 .. Len(t) : t[i] = s[L + i]
  <2>1. buf' \in Seq(Symbol) /\ Len(buf') = Len(buf) - L /\ \A i \in 1 .. Len(buf') : buf'[i] = buf[L + i]
    BY <1>1, <1>5, <1>7
  <2>2. IsJoin(s, buf, wire) /\ IsJoin(t, buf', wire)
    BY <1>1, <2>1, JoinIs DEF s
  <2> HIDE DEF t
  <2>3. t \in Seq(Symbol)
    BY <2>2 DEF IsJoin
  <2>4. IsRest(buf', buf, L)
    BY <2>1 DEF IsRest
  <2>5. IsRest(t, s, L)
    BY <1>5, <2>2, <2>4, RestOf
  <2> QED
    BY <2>1, <2>3, <2>5 DEF IsRest
<1> HIDE DEF t
<1>11. FramedFrom(t, nm[2], sent)
  BY <1>1, <1>3, <1>5, <1>10, FrameRest DEF L
<1>12. CASE s[L] = "bad"
  <2>1. executed' = executed /\ nm[2] = Len(executed)
    BY <1>2, <1>6, <1>7, <1>9, <1>12
  <2> QED
    BY <1>1, <1>7, <1>10, <1>11, <2>1 DEF StreamInv, t
<1>13. CASE s[L] = "ok"
  <2>1. executed' = Append(executed, s[L - 3]) /\ nm[2] = Len(executed) + 1 /\ s[L - 3] = sent[Len(executed) + 1]
    BY <1>2, <1>6, <1>7, <1>9, <1>13
  <2>2. /\ executed' \in Seq(Commands) /\ Len(executed') = Len(executed) + 1
        /\ executed'[Len(executed) + 1] = sent[Len(executed) + 1]
        /\ \A i \in 1 .. Len(executed) : executed'[i] = executed[i]
    BY <1>1, <1>8, <2>1
  <2>3. \A i \in 1 .. Len(executed) : executed[i] = sent[i]
    BY <1>1, <1>2, PrefixIs
  <2>4. \A i \in 1 .. Len(executed') : executed'[i] = sent[i]
    <3> SUFFICES ASSUME NEW i \in 1 .. Len(executed') PROVE executed'[i] = sent[i]
      OBVIOUS
    <3>1. i \in 1 .. Len(executed) \/ i = Len(executed) + 1
      BY <1>2, <2>2
    <3> QED
      BY <2>2, <2>3, <3>1
  <2>5. Len(executed') <= Len(sent)
    BY <1>6, <2>1, <2>2
  <2>6. executed' = SubSeq(sent, 1, Len(executed'))
    BY <1>1, <2>2, <2>4, <2>5, PrefixIs
  <2>7. nm[2] = Len(executed')
    BY <2>1, <2>2
  <2> QED
    BY <1>1, <1>7, <1>10, <1>11, <2>2, <2>6, <2>7 DEF StreamInv, t
<1> QED
  BY <1>8, <1>12, <1>13

(* From the code that frames packets (gdb_receive): between the commands   *)
(* executed and the end of what gdb sent lie whole chunks, whatever part   *)
(* of them has been read.                                                  *)
THEOREM StreamInvariant == GdbSpec => []StreamInv
<1>1. GdbInit => StreamInv
  BY InitStream
<1>2. ASSUME StreamInv, [GdbNext]_gdbVars PROVE StreamInv'
  <2>1. CASE \E cmd \in Commands, check \in {"ok", "bad"} : GdbSends(cmd, check)
    BY <1>2, <2>1, SendKeeps
  <2>2. CASE \E n \in 1 .. GDBBUF : gdb_read(n)
    BY <1>2, <2>2, ReadKeeps
  <2>3. CASE gdb_packet
    BY <1>2, <2>3, PacketKeeps
  <2>4. CASE \E cpu \in 0 .. NCpus - 1 : gdb_startbreak(cpu)
    BY <1>2, <2>4, Zenon DEF gdb_startbreak, StreamInv
  <2>5. CASE UNCHANGED gdbVars
    BY <1>2, <2>5, Zenon DEF gdbVars, StreamInv
  <2> QED
    BY <1>2, <2>1, <2>2, <2>3, <2>4, <2>5 DEF GdbNext
<1> QED
  BY <1>1, <1>2, PTL DEF GdbSpec

(* PacketsIntact for every buffer an acknowledgement and a packet fit, and *)
(* every way of cutting the stream into reads: gdb_receive executes what   *)
(* gdb sent, in order, and everything once all of it has been read.        *)
THEOREM PacketsAreIntact == GdbSpec => []PacketsIntact
<1>1. ASSUME StreamInv PROVE PacketsIntact
  <2>1. /\ buf \in Seq(Symbol) /\ wire \in Seq(Symbol) /\ sent \in Seq(Commands)
        /\ executed \in Seq(Commands) /\ executed = SubSeq(sent, 1, Len(executed))
    BY <1>1 DEF StreamInv
  <2>2. ASSUME wire = <<>>, ~Complete PROVE executed = sent
    <3>1. PICK k, st, nm : k \in Nat /\ Framed(buf \o wire, k, st, nm, sent) /\ nm[1] = Len(executed)
      BY <1>1, StreamFacts
    <3> k \in Nat
      BY <3>1
    <3>2. k = 0
      <4>1. Len(buf) \in Nat /\ Len(wire) = 0
        BY <2>1, <2>2
      <4>2. k > 0 => ~(st[2] <= Len(buf)) /\ st[2] \in {5, 6} /\ st[2] <= Len(buf) + Len(wire)
        BY <2>1, <2>2, <3>1, StreamStart
      <4> QED
        BY <4>1, <4>2
    <3>3. Len(executed) = Len(sent)
      BY <2>1, <3>1, <3>2, StreamStart
    <3> QED
      BY <2>1, <3>3, SubSeqFull
  <2> QED
    BY <2>1, <2>2, Zenon DEF PacketsIntact
<1> QED
  BY <1>1, StreamInvariant, PTL
=============================================================================
