------------------------------ MODULE Sockets ------------------------------
(***************************************************************************)
(* The select dispatcher (sys161/main/onsel.c) and its two servers: the    *)
(* meter socket (main/meter.c), which serves any number of clients, and    *)
(* the debugger socket (gdb/gdb_fe.c), which serves one at a time.         *)
(*                                                                         *)
(* tryselect() asks select() once which descriptors are readable and then  *)
(* calls their handlers in slot order.  A handler may close its descriptor *)
(* or accept a new connection, and the host gives out the lowest free      *)
(* descriptor, so a number select() reported can come to mean another      *)
(* connection before its slot is reached.                                  *)
(***************************************************************************)
EXTENDS Integers, Sequences, FiniteSets

CONSTANTS
    Clients,    \* programs that connect, each once
    Debuggers,  \* those of them that connect to the debugger socket
    MAXSELS,    \* slots of the table
    MAXFD       \* descriptors the host has for the simulator

ASSUME SockAssumption ==
    /\ MAXFD \in Nat /\ MAXFD >= 2 /\ Debuggers \subseteq Clients
    /\ "free" \notin Clients /\ "listen" \notin Clients

VARIABLES
    selections, \* the table: [fd, kind, who], fd = -1 in a free slot
    fdtab,      \* host: what a descriptor is connected to
    client,     \* the clients' state
    unread,     \* clients whose data has not been read yet
    myset,      \* what select() reported: descriptor and connection
    turn,       \* the slot tryselect() looks at next, 0 outside of it
    meter,      \* the state of the meter structure of each client
    g_ctx_inuse

sockVars == <<selections, fdtab, client, unread, myset, turn, meter, g_ctx_inuse>>

FD      == 0 .. MAXFD - 1
NoFd    == -1
Free    == "free"
Meters  == Clients \ Debuggers
Unused  == [fd |-> NoFd, kind |-> "none", who |-> Free]
NoMeter == [allocated |-> FALSE, fd |-> NoFd, updates |-> 0]

SockTypeOK ==
    /\ selections \in Seq([fd : FD \cup {NoFd}, kind : {"none", "gdb_accepter", "meter_accept",
                                            "gdb_receive", "meter_receive"},
                    who : Clients \cup {Free}])
    /\ Len(selections) <= MAXSELS /\ fdtab \in [FD -> Clients \cup {Free, "listen"}]
    /\ client \in [Clients -> {"out", "connecting", "connected", "gone", "done"}]
    /\ unread \subseteq Clients /\ turn \in 0 .. Len(selections)
    /\ meter \in [Meters -> [allocated : BOOLEAN, fd : FD \cup {NoFd}, updates : 0 .. 1]]
    /\ g_ctx_inuse \in BOOLEAN

(* gdb_unix_init and meter_init register the listening sockets before the  *)
(* simulation starts.                                                      *)
SockInit ==
    /\ selections = <<[fd |-> 0, kind |-> "gdb_accepter", who |-> Free],
               [fd |-> 1, kind |-> "meter_accept", who |-> Free]>>
    /\ fdtab = [fd \in FD |-> IF fd \in {0, 1} THEN "listen" ELSE Free]
    /\ client = [c \in Clients |-> "out"] /\ unread = {}
    /\ myset = {} /\ turn = 0
    /\ meter = [m \in Meters |-> NoMeter]
    /\ g_ctx_inuse = FALSE

-----------------------------------------------------------------------------
(* findsel and onselect: the first free slot, or one more at the end.      *)
findsel(s) ==
    IF \E i \in 1 .. Len(s) : s[i].fd = NoFd
    THEN CHOOSE i \in 1 .. Len(s) : s[i].fd = NoFd /\ \A j \in 1 .. i - 1 : s[j].fd # NoFd
    ELSE Len(s) + 1

onselect(s, fd, kind, who) ==
    LET i == findsel(s)
        entry == [fd |-> fd, kind |-> kind, who |-> who]
    IN IF i > Len(s) THEN Append(s, entry) ELSE [s EXCEPT ![i] = entry]

(* accept() takes the lowest free descriptor, and fails without one.       *)
CanAccept == \E fd \in FD : fdtab[fd] = Free
NewFd == CHOOSE fd \in FD : fdtab[fd] = Free /\ \A g \in FD : g < fd => fdtab[g] # Free

Queued(kind) == {c \in Clients : client[c] = "connecting"
                                 /\ (c \in Debuggers) = (kind = "gdb_accepter")}

Readable(fd) ==
    \/ \E i \in 1 .. Len(selections) : selections[i].fd = fd
            /\ selections[i].kind \in {"gdb_accepter", "meter_accept"} /\ Queued(selections[i].kind) # {}
    \/ fdtab[fd] \in unread
    \/ fdtab[fd] \in Clients /\ client[fdtab[fd]] = "gone"

(* select() returns something to dispatch.                                 *)
tryselect ==
    /\ turn = 0
    /\ LET reported == {fd \in FD : Readable(fd)}
       IN /\ reported # {} /\ myset' = {<<fd, fdtab[fd]>> : fd \in reported}
    /\ turn' = 1
    /\ UNCHANGED <<selections, fdtab, client, unread, meter, g_ctx_inuse>>

Slot == selections[turn]
Called == turn > 0 /\ Slot.fd # NoFd /\ \E r \in myset : r[1] = Slot.fd
EndOfTurn == turn' = IF turn = Len(selections') THEN 0 ELSE turn + 1

skip_slot ==
    /\ turn > 0 /\ ~Called
    /\ UNCHANGED <<selections, fdtab, client, unread, myset, meter, g_ctx_inuse>>
    /\ EndOfTurn

(* Closing the slot's descriptor and leaving with a nonzero status: the    *)
(* dispatcher runs the cleanup function and frees the slot.                *)
Hangup ==
    /\ fdtab' = [fdtab EXCEPT ![Slot.fd] = Free]
    /\ client' = [client EXCEPT ![Slot.who] = "done"]
    /\ selections' = [selections EXCEPT ![turn] = Unused]

-----------------------------------------------------------------------------
(***************************************************************************)
(* The handlers.                                                           *)
(***************************************************************************)
(* An accept() that fails, for want of a descriptor or otherwise: the      *)
(* handler returns, and the connection stays in the listener's queue.      *)
accept_fails ==
    /\ Called /\ Slot.kind \in {"gdb_accepter", "meter_accept"}
    /\ UNCHANGED <<selections, fdtab, client, unread, myset, meter, g_ctx_inuse>>
    /\ EndOfTurn

(* meter_accept sends the header and calls meter_update, which schedules   *)
(* the next one.                                                           *)
meter_accept ==
    /\ Called /\ Slot.kind = "meter_accept" /\ CanAccept
    /\ \E c \in Queued("meter_accept") :
         /\ fdtab' = [fdtab EXCEPT ![NewFd] = c]
         /\ client' = [client EXCEPT ![c] = "connected"]
         /\ selections' = onselect(selections, NewFd, "meter_receive", c)
         /\ meter' = [meter EXCEPT ![c] = [allocated |-> TRUE, fd |-> NewFd, updates |-> 1]]
    /\ EndOfTurn
    /\ UNCHANGED <<unread, myset, g_ctx_inuse>>

(* accepter: a second debugger is told off and closed at once.             *)
gdb_accepter ==
    /\ Called /\ Slot.kind = "gdb_accepter" /\ CanAccept
    /\ \E c \in Queued("gdb_accepter") :
         \/ /\ g_ctx_inuse /\ client' = [client EXCEPT ![c] = "done"]
            /\ UNCHANGED <<fdtab, selections, g_ctx_inuse>>
         \/ /\ ~g_ctx_inuse /\ g_ctx_inuse' = TRUE
            /\ fdtab' = [fdtab EXCEPT ![NewFd] = c]
            /\ client' = [client EXCEPT ![c] = "connected"]
            /\ selections' = onselect(selections, NewFd, "gdb_receive", c)
    /\ EndOfTurn
    /\ UNCHANGED <<unread, myset, meter>>

(* A handler reads from its descriptor, whatever that is connected to now. *)
Peer == fdtab[Slot.fd]
HasData == Peer \in unread
AtEof == Peer \in Clients /\ ~HasData /\ client[Peer] = "gone"

(* Mutant: the structure is freed with its connection.                     *)
meter_close_frees(m) == [m EXCEPT !.fd = NoFd, !.allocated = FALSE]

(* "m will be freed next update"                                           *)
meter_close(m) == [m EXCEPT !.fd = NoFd]

meter_receive ==
    /\ Called /\ Slot.kind = "meter_receive"
    /\ \/ /\ HasData /\ unread' = unread \ {Peer}
          /\ UNCHANGED <<selections, fdtab, client, meter>>
       \/ /\ AtEof /\ Hangup
          /\ meter' = [meter EXCEPT ![Slot.who] = meter_close(@)]
          /\ UNCHANGED unread
    /\ EndOfTurn
    /\ UNCHANGED <<myset, g_ctx_inuse>>

(* meter_update: the clock's event, for a connection that is gone the one  *)
(* place where the structure is freed.                                     *)
Updated(m) == IF m.fd = NoFd THEN [m EXCEPT !.allocated = FALSE, !.updates = 0] ELSE m

gdb_cleanup == g_ctx_inuse' = FALSE

(* gdb_receive.  A command that single-steps runs the clock's queue inside *)
(* the handler (onecycle), meter updates included.                         *)
gdb_receive ==
    /\ Called /\ Slot.kind = "gdb_receive"
    /\ \/ /\ HasData /\ unread' = unread \ {Peer}
          /\ \E due \in SUBSET {m \in Meters : meter[m].updates > 0} :
               meter' = [m \in Meters |-> IF m \in due THEN Updated(meter[m]) ELSE meter[m]]
          /\ UNCHANGED <<selections, fdtab, client, g_ctx_inuse>>
       \/ /\ AtEof /\ Hangup /\ gdb_cleanup
          /\ UNCHANGED <<unread, meter>>
    /\ EndOfTurn
    /\ UNCHANGED myset

meter_update(c) ==
    /\ turn = 0 /\ meter[c].updates > 0
    /\ meter' = [meter EXCEPT ![c] = Updated(@)]
    /\ UNCHANGED <<selections, fdtab, client, unread, myset, turn, g_ctx_inuse>>

-----------------------------------------------------------------------------
(* The clients: connect, send, hang up.                                    *)
ClientActs(c) ==
    /\ \/ client[c] = "out" /\ client' = [client EXCEPT ![c] = "connecting"] /\ UNCHANGED unread
       \/ client[c] = "connected" /\ unread' = unread \cup {c} /\ UNCHANGED client
       \/ client[c] = "connected" /\ client' = [client EXCEPT ![c] = "gone"] /\ UNCHANGED unread
    /\ UNCHANGED <<selections, fdtab, myset, turn, meter, g_ctx_inuse>>

SockNext ==
    \/ \E c \in Clients : ClientActs(c)
    \/ tryselect \/ skip_slot \/ accept_fails
    \/ meter_accept \/ gdb_accepter \/ meter_receive \/ gdb_receive
    \/ \E c \in Meters : meter_update(c)

SockSpec == SockInit /\ [][SockNext]_sockVars

-----------------------------------------------------------------------------
(* A handler is called only for the connection select() reported, never    *)
(* for one accepted meanwhile under a recycled descriptor: the simulator   *)
(* never blocks in a handler's read().  It rests on listening sockets      *)
(* coming first in the table.                                              *)
NeverBlocks ==
    Called /\ Slot.kind \in {"gdb_receive", "meter_receive"} => HasData \/ AtEof

(* Meter structures: what the select table or the clock's queue refers to  *)
(* is allocated, an allocated one has its one update pending, and its      *)
(* descriptor is its own connection's - so no use after free, no leak.     *)
MeterOwned ==
    \A c \in Meters :
        /\ meter[c].allocated <=> meter[c].updates = 1
        /\ (\E i \in 1 .. Len(selections) : selections[i].who = c) <=> meter[c].fd # NoFd
        /\ meter[c].fd # NoFd => meter[c].allocated /\ fdtab[meter[c].fd] = c

(* The debugger context is in use exactly while one connection is          *)
(* registered: neither two debuggers nor none that blocks all later ones.  *)
OneDebugger ==
    Cardinality({i \in 1 .. Len(selections) : selections[i].kind = "gdb_receive"})
        = IF g_ctx_inuse THEN 1 ELSE 0

(* Handlers never block, no use of freed meters, one debugger.             *)
ConnectionsOwned == NeverBlocks /\ MeterOwned /\ OneDebugger
=============================================================================
