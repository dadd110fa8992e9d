------------------------------- MODULE Emufs -------------------------------
(***************************************************************************)
(* The emulator file system device, sys161/bus/dev_emufs.c: a table of     *)
(* open handles on host files and one operation at a time.                 *)
(*                                                                         *)
(* An operation is carried out when it is started and only its result is   *)
(* held back, until emufs_done.  Opening a name takes several host calls   *)
(* (stat, open, fstat) and the host may rename or remove files between     *)
(* them; that is why emufs_open_existing loops.  File contents, offsets    *)
(* and names are left out; what a handle refers to is a host object.       *)
(***************************************************************************)
EXTENDS Integers, FiniteSets

CONSTANTS
    MAXHANDLES,   \* size of the table
    EMU_BUF_SIZE, \* size of the transfer buffer
    Names,        \* the host pathnames the kernel uses
    Objects,      \* host files and directories (device and inode)
    Dirs,         \* those that are directories
    RootDir,      \* the directory the device exports
    MaxRenames    \* bound: changes the host makes to the name space

ASSUME EmufsAssumption ==
    /\ MAXHANDLES \in Nat \ {0} /\ EMU_BUF_SIZE \in Nat \ {0} /\ MaxRenames \in Nat
    /\ Dirs \subseteq Objects /\ RootDir \in Dirs /\ "none" \notin Objects

VARIABLES
    named,          \* host: what a name refers to, or NoObject
    renames,        \* host: changes made so far
    ed_handle, ed_iolen, ed_result,
    ed_handles,     \* the table: fd is the object open, id what is recorded
    ed_busy, ed_busyresult,
    dones,          \* emufs_done events in the clock's queue
    call,           \* the open in progress between two host calls
    eirq,           \* the slot's bit in IRQS
    epower          \* "on", "hung" (debugger) or "smoke" (simulator aborts)

hostvars  == <<named, renames>>
opvars    == <<ed_busy, ed_busyresult, dones>>
emufsVars == <<hostvars, ed_handle, ed_iolen, ed_result, ed_handles, opvars,
               call, eirq, epower>>

NoObject == "none"
NoCall   == [pc |-> "idle"]
Handle   == 0 .. MAXHANDLES - 1
Failure  == {"BADHANDLE", "BADOP", "BADPATH", "BADSIZE", "EXISTS", "ISDIR",
             "MEDIA", "NOHANDLES"}
Result   == {"none", "SUCCESS"} \cup Failure
OpenOp   == {"OPEN", "CREATE", "EXCLCREATE"}

EmufsTypeOK ==
    /\ named \in [Names -> Objects \cup {NoObject}] /\ renames \in 0 .. MaxRenames
    /\ ed_handle \in 0 .. MAXHANDLES /\ ed_iolen \in 0 .. EMU_BUF_SIZE + 1
    /\ ed_result \in Result /\ ed_busyresult \in Result
    /\ ed_handles \in [Handle -> [fd : Objects \cup {NoObject}, id : Objects \cup {NoObject}]]
    /\ ed_busy \in BOOLEAN /\ dones \in 0 .. 1 /\ eirq \in BOOLEAN
    /\ call.pc \in {"idle", "create", "pick", "open"}
    /\ epower \in {"on", "hung", "smoke"}

(* emufs_init and emufs_openfirst.                                         *)
EmufsInit ==
    /\ named \in [Names -> Objects \ {RootDir}] /\ renames = 0
    /\ \A m, n \in Names : m # n => named[m] # named[n]
    /\ ed_handle = 0 /\ ed_iolen = 0 /\ ed_result = "none"
    /\ ed_handles = [h \in Handle |-> IF h = 0 THEN [fd |-> RootDir, id |-> RootDir]
                                               ELSE [fd |-> NoObject, id |-> NoObject]]
    /\ ed_busy = FALSE /\ ed_busyresult = "none" /\ dones = 0
    /\ call = NoCall /\ eirq = FALSE /\ epower = "on"

-----------------------------------------------------------------------------
IsOpen(h) == ed_handles[h].fd # NoObject
OpenObjects == {ed_handles[h].fd : h \in {k \in Handle : IsOpen(k)}}
FirstFree == CHOOSE h \in Handle : ~IsOpen(h) /\ \A k \in Handle : k < h => IsOpen(k)
TableFull == \A h \in Handle : IsOpen(h)
HandleOf(o) == CHOOSE h \in Handle : ed_handles[h].fd # NoObject /\ ed_handles[h].id = o

(* pickhandle finds o in the table.                                        *)
Known(o) == \E h \in Handle : IsOpen(h) /\ ed_handles[h].id = o

(* pickhandle with o unknown and no free slot records o in slot -1, which  *)
(* is where the registers lie: they end up with pieces of o's identity.    *)
Clobbered ==
    /\ ed_handle' \in 0 .. MAXHANDLES /\ ed_iolen' \in 0 .. EMU_BUF_SIZE + 1
    /\ ed_result' \in {"none", "BADHANDLE"}

emufs_setresult(res) == ed_result' = res /\ eirq' = (res # "none")

(* emufs_do_op once the result is known: it is posted by emufs_done.       *)
Finish(res) ==
    /\ ed_busy' = TRUE /\ ed_busyresult' = res /\ dones' = dones + 1
    /\ call' = NoCall /\ UNCHANGED <<eirq, epower>>

Fail(res) == Finish(res) /\ UNCHANGED <<ed_handle, ed_iolen, ed_result, ed_handles>>

(* Opening ended with handle h.                                            *)
Opened(h, isdir) ==
    /\ Finish("SUCCESS") /\ ed_handle' = h
    /\ ed_iolen' = IF isdir THEN 1 ELSE 0
    /\ UNCHANGED ed_result

Accepting == epower = "on" /\ call = NoCall

(* emufs_do_op while busy: hang().                                         *)
do_op_busy ==
    /\ Accepting /\ ed_busy /\ epower' = "hung"
    /\ UNCHANGED <<hostvars, ed_handle, ed_iolen, ed_result, ed_handles, opvars, call, eirq>>

-----------------------------------------------------------------------------
(***************************************************************************)
(* Opening.  emufs_open changes to the directory the handle register names *)
(* without looking whether that handle is open: if it is not, fchdir fails *)
(* and the simulator gives up.                                             *)
(***************************************************************************)
AtDirectory == ed_handle \in Handle /\ ed_handles[ed_handle].fd \in Dirs

pushdir_fails ==
    /\ ~AtDirectory
    /\ epower' = "smoke"
    /\ UNCHANGED <<ed_handle, ed_iolen, ed_result, ed_handles, opvars, call, eirq>>

emufs_open(op, n) ==
    /\ Accepting /\ ~ed_busy
    /\ \/ ed_iolen >= EMU_BUF_SIZE /\ Fail("BADSIZE")
       \/ ed_iolen < EMU_BUF_SIZE /\ pushdir_fails
       \/ /\ ed_iolen < EMU_BUF_SIZE /\ AtDirectory
          /\ \/ named[n] = NoObject /\ op = "OPEN" /\ Fail("BADPATH")
             \/ /\ named[n] # NoObject \/ op # "OPEN"
                /\ call' = IF named[n] = NoObject
                           THEN [pc |-> "create", op |-> op, name |-> n, isdir |-> FALSE]
                           ELSE [pc |-> "pick", op |-> op, name |-> n,
                                 isdir |-> named[n] \in Dirs, expected |-> named[n]]
                /\ UNCHANGED <<ed_handle, ed_iolen, ed_result, ed_handles, opvars,
                               eirq, epower>>
    /\ UNCHANGED hostvars

(* What open(2) and fstat(2) make of the name now: an error, the object    *)
(* that has it, or a new one where the flags ask for it.                   *)
RDONLY == call.op = "OPEN" /\ call.isdir

(* The object open(2) yields without creating one.                         *)
HostFinds(o) ==
    /\ o = named[call.name] /\ o # NoObject /\ call.op # "EXCLCREATE"
    /\ o \in Dirs => RDONLY
    /\ UNCHANGED hostvars

HostCreates(o) ==
    /\ named[call.name] = NoObject /\ call.op # "OPEN"
    /\ o \in (Objects \ (Dirs \cup OpenObjects)) /\ \A n \in Names : named[n] # o
    /\ named' = [named EXCEPT ![call.name] = o] /\ UNCHANGED renames

HostOpens(o) == HostFinds(o) \/ HostCreates(o)

HostErrors(res) ==
    /\ \/ res = "BADPATH" /\ named[call.name] = NoObject /\ call.op = "OPEN"
       \/ res = "EXISTS" /\ named[call.name] # NoObject /\ call.op = "EXCLCREATE"
       \/ res = "ISDIR" /\ named[call.name] \in Dirs /\ ~RDONLY /\ call.op # "EXCLCREATE"
       \/ res = "MEDIA"
    /\ UNCHANGED hostvars

(* emufs_open_create: the table is searched after the open.                *)
emufs_open_create ==
    /\ epower = "on" /\ call.pc = "create"
    /\ \/ \E res \in Failure : HostErrors(res) /\ Fail(res)
       \/ \E o \in Objects :
            /\ HostOpens(o)
            /\ \/ /\ Known(o) /\ Opened(HandleOf(o), call.isdir) /\ UNCHANGED ed_handles
               \/ /\ ~Known(o) /\ TableFull /\ Finish("NOHANDLES") /\ Clobbered
                  /\ UNCHANGED ed_handles
               \/ /\ ~Known(o) /\ ~TableFull /\ Opened(FirstFree, call.isdir)
                  /\ ed_handles' = [ed_handles EXCEPT ![FirstFree] = [fd |-> o, id |-> o]]

(* emufs_open_existing, the search for the object that stat found.         *)
open_existing_pick ==
    /\ epower = "on" /\ call.pc = "pick"
    /\ \/ /\ Known(call.expected) /\ Opened(HandleOf(call.expected), call.isdir)
          /\ UNCHANGED ed_handles
       \/ /\ ~Known(call.expected) /\ TableFull /\ Finish("NOHANDLES") /\ Clobbered
          /\ UNCHANGED ed_handles
       \/ /\ ~Known(call.expected) /\ ~TableFull
          /\ ed_handles' = [ed_handles EXCEPT ![FirstFree].id = call.expected]
          /\ call' = [call EXCEPT !.pc = "open"]
          /\ UNCHANGED <<ed_handle, ed_iolen, ed_result, opvars, eirq, epower>>
    /\ UNCHANGED hostvars

(* Mutant: whatever was opened is taken for what stat found.               *)
SameObject_unchecked(o) == TRUE

SameObject(o) == o = call.expected

(* ... then the open: on another object than expected the loop goes round. *)
open_existing_open ==
    /\ epower = "on" /\ call.pc = "open"
    /\ \/ \E res \in Failure : HostErrors(res) /\ Fail(res)
       \/ \E o \in Objects :
            /\ HostOpens(o)
            /\ \/ /\ SameObject(o) /\ Opened(FirstFree, call.isdir)
                  /\ ed_handles' = [ed_handles EXCEPT ![FirstFree].fd = o]
               \/ /\ ~SameObject(o)
                  /\ call' = [call EXCEPT !.pc = "pick", !.expected = o]
                  /\ UNCHANGED <<ed_handle, ed_iolen, ed_result, ed_handles, opvars,
                                 eirq, epower>>

-----------------------------------------------------------------------------
(***************************************************************************)
(* The other operations need an open handle and are one host call each.    *)
(***************************************************************************)
BadHandle == ~(ed_handle \in Handle /\ IsOpen(ed_handle))

emufs_close ==
    /\ ed_handles' = [ed_handles EXCEPT ![ed_handle].fd = NoObject]
    /\ Finish("SUCCESS") /\ UNCHANGED <<ed_handle, ed_iolen, ed_result>>

(* emufs_read, emufs_readdir and emufs_write move at most ed_iolen bytes.  *)
emufs_transfer ==
    \/ ed_iolen > EMU_BUF_SIZE /\ Fail("BADSIZE")
    \/ /\ ed_iolen <= EMU_BUF_SIZE
       /\ \/ \E res \in {"BADHANDLE", "ISDIR", "MEDIA"} : Fail(res)
          \/ /\ Finish("SUCCESS") /\ ed_iolen' \in 0 .. ed_iolen
             /\ UNCHANGED <<ed_handle, ed_result, ed_handles>>

emufs_getsize ==
    \/ Fail("MEDIA")
    \/ /\ Finish("SUCCESS") /\ ed_iolen' \in 0 .. EMU_BUF_SIZE + 1
       /\ UNCHANGED <<ed_handle, ed_result, ed_handles>>

emufs_trunc == \E res \in {"SUCCESS", "BADSIZE", "MEDIA"} : Fail(res)

emufs_op(op) ==
    /\ Accepting /\ ~ed_busy /\ UNCHANGED hostvars
    /\ \/ BadHandle /\ Fail("BADHANDLE")
       \/ ~BadHandle /\ op = "CLOSE" /\ emufs_close
       \/ ~BadHandle /\ op \in {"READ", "READDIR", "WRITE"} /\ emufs_transfer
       \/ ~BadHandle /\ op = "GETSIZE" /\ emufs_getsize
       \/ ~BadHandle /\ op = "TRUNC" /\ emufs_trunc
       \/ ~BadHandle /\ op = "other" /\ Fail("BADOP")

emufs_done ==
    /\ epower = "on" /\ call = NoCall /\ dones > 0 /\ dones' = dones - 1
    /\ IF ed_busy THEN /\ emufs_setresult(ed_busyresult)
                       /\ ed_busy' = FALSE /\ ed_busyresult' = "none"
                       /\ UNCHANGED epower
                  ELSE epower' = "smoke" /\ UNCHANGED <<ed_result, eirq, ed_busy, ed_busyresult>>
    /\ UNCHANGED <<hostvars, ed_handle, ed_iolen, ed_handles, call>>

(* Register stores, which a busy device does not refuse.                   *)
store_handle(h) ==
    /\ Accepting /\ ed_handle' = h
    /\ UNCHANGED <<hostvars, ed_iolen, ed_result, ed_handles, opvars, call, eirq, epower>>
store_iolen(n) ==
    /\ Accepting /\ ed_iolen' = n
    /\ UNCHANGED <<hostvars, ed_handle, ed_result, ed_handles, opvars, call, eirq, epower>>
store_result(res) ==
    /\ Accepting /\ emufs_setresult(res)
    /\ UNCHANGED <<hostvars, ed_handle, ed_iolen, ed_handles, opvars, call, epower>>

(* Outside programs rename, replace and remove files at any time; an       *)
(* object without a name that nobody has open may come back as a new file. *)
HostChanges ==
    /\ renames < MaxRenames /\ renames' = renames + 1
    /\ \E n \in Names, o \in (Objects \ {RootDir}) \cup {NoObject} :
         o # named[n] /\ named' = [named EXCEPT ![n] = o]
    /\ UNCHANGED <<ed_handle, ed_iolen, ed_result, ed_handles, opvars, call, eirq, epower>>

EmufsNext ==
    \/ do_op_busy
    \/ \E op \in OpenOp, n \in Names : emufs_open(op, n)
    \/ emufs_open_create
    \/ open_existing_pick
    \/ open_existing_open
    \/ \E op \in {"CLOSE", "READ", "READDIR", "WRITE", "GETSIZE", "TRUNC", "other"} : emufs_op(op)
    \/ emufs_done
    \/ \E h \in 0 .. MAXHANDLES : store_handle(h)
    \/ \E n \in 0 .. EMU_BUF_SIZE + 1 : store_iolen(n)
    \/ \E res \in Result : store_result(res)
    \/ HostChanges

EmufsSpec == EmufsInit /\ [][EmufsNext]_emufsVars

-----------------------------------------------------------------------------
(* Whatever the host does to names between stat, open and fstat, no object *)
(* is open under two handles and every handle is recorded under the object *)
(* its descriptor refers to: the promise of the comments in                *)
(* emufs_open_existing and emufs_open_create, on which pickhandle relies.  *)
OneHandlePerFile ==
    \A h, k \in Handle : IsOpen(h) =>
        /\ ed_handles[h].id = ed_handles[h].fd
        /\ ed_handles[k].fd = ed_handles[h].fd => h = k
=============================================================================
