---------------------------- MODULE DeviceProofs ----------------------------
(***************************************************************************)
(* Theorems about three devices that race with something they do not       *)
(* control: emufs with other programs on the host, for every table size    *)
(* and name space; the timer card with its own older events, for every set *)
(* of counts and every lateness of the clock; the network card with its    *)
(* hub, for every set of machines and packets.                             *)
(***************************************************************************)
EXTENDS Emufs, Timer, Network, TLAPS, ProofBasics, FiniteSetTheorems, SequenceTheorems

(***************************************************************************)
(* emufs.                                                                  *)
(***************************************************************************)
Slots == [Handle -> [fd : Objects \cup {NoObject}, id : Objects \cup {NoObject}]]

(* The open in progress, by how far it has come.                           *)
Creating == [pc : {"create"}, op : OpenOp, name : Names, isdir : BOOLEAN]
Existing == [pc : {"pick", "open"}, op : OpenOp, name : Names, isdir : BOOLEAN,
             expected : Objects]

(* An operation is either between host calls or waits for its one event.   *)
OneOperation ==
    /\ call \in {NoCall} \cup Creating \cup Existing
    /\ dones = IF ed_busy THEN 1 ELSE 0
    /\ call # NoCall => ~ed_busy

(* While pickhandle's slot waits for the open, no handle has its object.   *)
Picked ==
    call.pc = "open" =>
        /\ ~TableFull /\ ~Known(call.expected)
        /\ ed_handles[FirstFree].id = call.expected

EmufsInv == EmufsTypeOK /\ OneOperation /\ OneHandlePerFile /\ Picked

(* The search of pickhandle for a free slot succeeds.                      *)
LEMMA FreeSlot ==
    ASSUME NEW t \in Slots, \E h \in Handle : t[h].fd = NoObject
    PROVE  \E h \in Handle : /\ t[h].fd = NoObject
                             /\ \A k \in Handle : k < h => t[k].fd # NoObject
<1> DEFINE F == {h \in Handle : t[h].fd = NoObject}
<1>1. F \subseteq Nat /\ F # {}
  BY EmufsAssumption DEF Handle
<1>2. PICK m \in F : \A k \in F : m <= k
  <2> HIDE DEF F
  <2> QED BY <1>1, LeastNat
<1> QED
  BY <1>2, EmufsAssumption DEF Handle

LEMMA FirstFreeDef ==
    ASSUME ed_handles \in Slots, ~TableFull
    PROVE  /\ FirstFree \in Handle /\ ~IsOpen(FirstFree)
           /\ \A k \in Handle : k < FirstFree => IsOpen(k)
<1>1. \E h \in Handle : ~IsOpen(h) /\ \A k \in Handle : k < h => IsOpen(k)
  BY FreeSlot DEF TableFull, IsOpen
<1> QED
  BY <1>1, Zenon DEF FirstFree

LEMMA HandleOfDef ==
    ASSUME NEW o, Known(o)
    PROVE  HandleOf(o) \in Handle
<1>1. \E h \in Handle : ed_handles[h].fd # NoObject /\ ed_handles[h].id = o
  BY DEF Known, IsOpen
<1> QED
  BY <1>1, Zenon DEF HandleOf

LEMMA InitEmufs == EmufsInit => EmufsInv
<1> SUFFICES ASSUME EmufsInit PROVE EmufsInv
  OBVIOUS
<1> USE EmufsAssumption DEF EmufsInit, NoCall, NoObject, Handle
<1>1. EmufsTypeOK
  <2>1. ed_handles \in Slots
    BY DEF Slots
  <2>2. named \in [Names -> Objects \cup {NoObject}]
    OBVIOUS
  <2>3. ed_busy \in BOOLEAN /\ eirq \in BOOLEAN
    BY Zenon
  <2> QED
    BY <2>1, <2>2, <2>3 DEF EmufsTypeOK, Slots, Result
<1>2. OneOperation
  BY DEF OneOperation
<1>3. OneHandlePerFile
  BY DEF OneHandlePerFile, IsOpen
<1>4. Picked
  BY DEF Picked
<1> QED
  BY <1>1, <1>2, <1>3, <1>4 DEF EmufsInv

(* The parts of the invariant, for the steps to put together.              *)
HostOK  == named \in [Names -> Objects \cup {NoObject}] /\ renames \in 0 .. MaxRenames
RegsOK  == /\ ed_handle \in 0 .. MAXHANDLES /\ ed_iolen \in 0 .. EMU_BUF_SIZE + 1
           /\ ed_result \in Result
FlagsOK == /\ ed_busy \in BOOLEAN /\ ed_busyresult \in Result /\ eirq \in BOOLEAN
           /\ epower \in {"on", "hung", "smoke"}
TableOK == ed_handles \in Slots /\ OneHandlePerFile

LEMMA EmufsParts ==
    /\ EmufsInv <=> HostOK /\ RegsOK /\ FlagsOK /\ TableOK /\ OneOperation /\ Picked
    /\ EmufsInv' <=> HostOK' /\ RegsOK' /\ FlagsOK' /\ TableOK' /\ OneOperation' /\ Picked'
<1>1. OneOperation => dones \in 0 .. 1 /\ call.pc \in {"idle", "create", "pick", "open"}
  BY DEF OneOperation, NoCall, Creating, Existing
<1>2. OneOperation' => dones' \in 0 .. 1 /\ call'.pc \in {"idle", "create", "pick", "open"}
  BY DEF OneOperation, NoCall, Creating, Existing
<1> QED
  BY <1>1, <1>2 DEF EmufsInv, EmufsTypeOK, HostOK, RegsOK, FlagsOK, TableOK, Slots

LEMMA TableKept ==
    ASSUME TableOK, UNCHANGED ed_handles
    PROVE  TableOK'
BY DEF TableOK, OneHandlePerFile, IsOpen

LEMMA PickedKept ==
    ASSUME Picked, UNCHANGED <<ed_handles, call>>
    PROVE  Picked'
BY DEF Picked, TableFull, Known, FirstFree, IsOpen

(* An operation that ends leaves its result to its one event.              *)
LEMMA FinishOK ==
    ASSUME EmufsInv, NEW res \in Result, Finish(res), ~ed_busy
    PROVE  OneOperation' /\ Picked' /\ FlagsOK'
<1>1. call' = NoCall /\ call'.pc = "idle"
  BY DEF Finish, NoCall
<1>2. ed_busy' = TRUE /\ dones = 0 /\ dones' = 1
  BY EmufsParts DEF Finish, OneOperation
<1>3. OneOperation'
  BY <1>1, <1>2 DEF OneOperation
<1>4. ed_busy' \in BOOLEAN /\ eirq' \in BOOLEAN
  BY <1>2, EmufsParts, Zenon DEF Finish, FlagsOK
<1> QED
  BY <1>1, <1>3, <1>4, EmufsParts DEF Picked, FlagsOK, Finish

LEMMA FailOK ==
    ASSUME EmufsInv, NEW res \in Result, Fail(res), ~ed_busy, HostOK'
    PROVE  EmufsInv'
<1>1. OneOperation' /\ Picked' /\ FlagsOK'
  BY FinishOK DEF Fail
<1>2. RegsOK'
  BY EmufsParts DEF Fail, RegsOK
<1>3. TableOK'
  BY EmufsParts, TableKept DEF Fail
<1> QED
  BY <1>1, <1>2, <1>3, EmufsParts

(* A handle of an object nobody has open can be given out.                 *)
LEMMA NewHandle ==
    ASSUME EmufsInv, ~TableFull, NEW o \in Objects, ~Known(o),
           ed_handles' = [ed_handles EXCEPT ![FirstFree] = [fd |-> o, id |-> o]]
    PROVE  TableOK'
<1> DEFINE f == FirstFree
<1>1. f \in Handle /\ ed_handles \in Slots
  BY EmufsParts, FirstFreeDef DEF TableOK
<1>2. \A h \in Handle : ed_handles'[h] = IF h = f THEN [fd |-> o, id |-> o] ELSE ed_handles[h]
  BY <1>1 DEF Slots
<1>3. ed_handles' \in Slots
  BY <1>1 DEF Slots
<1>4. \A h \in Handle : IsOpen(h) => ed_handles[h].fd # o
  BY EmufsParts DEF Known, TableOK, OneHandlePerFile
<1> HIDE DEF f
<1>5. OneHandlePerFile'
  BY <1>2, <1>4, EmufsParts DEF TableOK, OneHandlePerFile, IsOpen
<1> QED
  BY <1>3, <1>5 DEF TableOK

LEMMA OpenedOK ==
    ASSUME EmufsInv, NEW h \in Handle, NEW isdir, Opened(h, isdir), ~ed_busy,
           HostOK', TableOK'
    PROVE  EmufsInv'
<1>1. OneOperation' /\ Picked' /\ FlagsOK'
  BY FinishOK DEF Opened, Result
<1>2. RegsOK'
  BY EmufsParts, EmufsAssumption DEF Opened, RegsOK, Handle
<1> QED
  BY <1>1, <1>2, EmufsParts

LEMMA NoHandlesOK ==
    ASSUME EmufsInv, Finish("NOHANDLES"), Clobbered, UNCHANGED ed_handles, ~ed_busy, HostOK'
    PROVE  EmufsInv'
<1>1. OneOperation' /\ Picked' /\ FlagsOK'
  BY FinishOK DEF Result, Failure
<1>2. RegsOK'
  BY DEF Clobbered, RegsOK, Result, Failure
<1>3. TableOK'
  BY EmufsParts, TableKept
<1> QED
  BY <1>1, <1>2, <1>3, EmufsParts

(* What open(2) does to the host's names.                                  *)
LEMMA HostOpensOK ==
    ASSUME EmufsInv, call \in Creating \cup Existing, NEW o \in Objects, HostOpens(o)
    PROVE  HostOK'
<1>1. call.name \in Names
  BY DEF Creating, Existing
<1>2. CASE HostFinds(o)
  BY <1>2, EmufsParts DEF HostFinds, HostOK, hostvars
<1>3. CASE HostCreates(o)
  BY <1>1, <1>3, EmufsParts DEF HostCreates, HostOK
<1> QED
  BY <1>2, <1>3 DEF HostOpens

LEMMA HostUnchanged ==
    ASSUME EmufsInv, UNCHANGED hostvars
    PROVE  HostOK'
BY EmufsParts DEF HostOK, hostvars

LEMMA OpenStep ==
    ASSUME EmufsInv, NEW op \in OpenOp, NEW n \in Names, emufs_open(op, n)
    PROVE  EmufsInv'
<1>1. ~ed_busy /\ call = NoCall /\ HostOK'
  BY HostUnchanged DEF emufs_open, Accepting
<1>2. CASE Fail("BADSIZE") \/ Fail("BADPATH")
  BY <1>1, <1>2, FailOK DEF Result, Failure
<1>3. CASE pushdir_fails
  <2>1. UNCHANGED <<ed_handle, ed_iolen, ed_result, ed_handles, opvars, call, eirq>>
        /\ epower' = "smoke"
    BY <1>3 DEF pushdir_fails
  <2> QED
    BY <1>1, <2>1, EmufsParts, TableKept, PickedKept
    DEF RegsOK, FlagsOK, OneOperation, opvars
<1>4. CASE /\ named[n] # NoObject \/ op # "OPEN"
           /\ call' = IF named[n] = NoObject
                      THEN [pc |-> "create", op |-> op, name |-> n, isdir |-> FALSE]
                      ELSE [pc |-> "pick", op |-> op, name |-> n,
                            isdir |-> named[n] \in Dirs, expected |-> named[n]]
           /\ UNCHANGED <<ed_handle, ed_iolen, ed_result, ed_handles, opvars, eirq, epower>>
  <2>1. named[n] \in Objects \cup {NoObject} /\ (named[n] \in Dirs) \in BOOLEAN
    BY EmufsParts DEF HostOK
  <2>2. call' \in Creating \cup Existing /\ call'.pc # "open"
    <3>1. CASE named[n] = NoObject
      BY <1>4, <3>1 DEF Creating
    <3>2. CASE named[n] # NoObject
      BY <1>4, <2>1, <3>2 DEF Existing
    <3> QED BY <3>1, <3>2
  <2>3. OneOperation'
    BY <1>1, <1>4, <2>2, EmufsParts DEF OneOperation, opvars
  <2> QED
    BY <1>1, <1>4, <2>2, <2>3, EmufsParts, TableKept
    DEF RegsOK, FlagsOK, opvars, Picked
<1> QED
  BY <1>2, <1>3, <1>4 DEF emufs_open

(* emufs_open_create: the table is searched after the open.                *)
LEMMA CreateStep ==
    ASSUME EmufsInv, emufs_open_create
    PROVE  EmufsInv'
<1>1. call \in Creating /\ ~ed_busy
  BY EmufsParts DEF emufs_open_create, OneOperation, NoCall, Creating, Existing
<1>2. ASSUME NEW res \in Failure, HostErrors(res), Fail(res)
      PROVE  EmufsInv'
  BY <1>1, <1>2, FailOK, HostUnchanged DEF HostErrors, Result
<1>3. ASSUME NEW o \in Objects, HostOpens(o), Known(o), Opened(HandleOf(o), call.isdir),
             UNCHANGED ed_handles
      PROVE  EmufsInv'
  BY <1>1, <1>3, HostOpensOK, HandleOfDef, OpenedOK, TableKept, EmufsParts
<1>4. ASSUME NEW o \in Objects, HostOpens(o), Finish("NOHANDLES"), Clobbered,
             UNCHANGED ed_handles
      PROVE  EmufsInv'
  BY <1>1, <1>4, HostOpensOK, NoHandlesOK
<1>5. ASSUME NEW o \in Objects, HostOpens(o), ~Known(o), ~TableFull,
             Opened(FirstFree, call.isdir),
             ed_handles' = [ed_handles EXCEPT ![FirstFree] = [fd |-> o, id |-> o]]
      PROVE  EmufsInv'
  <2>1. FirstFree \in Handle
    BY <1>5, FirstFreeDef, EmufsParts DEF TableOK
  <2> QED
    BY <1>1, <1>5, <2>1, HostOpensOK, NewHandle, OpenedOK
<1> QED
  BY <1>2, <1>3, <1>4, <1>5 DEF emufs_open_create

(* The slot pickhandle chose stays the first free one while only its id is *)
(* written.                                                                *)
LEMMA PickSlot ==
    ASSUME EmufsInv, ~TableFull, NEW o \in Objects, ~Known(o),
           ed_handles' = [ed_handles EXCEPT ![FirstFree].id = o]
    PROVE  /\ TableOK' /\ ~TableFull' /\ ~Known(o)'
           /\ ed_handles'[FirstFree'].id = o
<1> DEFINE f == FirstFree
<1>1. /\ f \in Handle /\ ed_handles \in Slots /\ ~IsOpen(f)
      /\ \A k \in Handle : k < f => IsOpen(k)
  BY EmufsParts, FirstFreeDef DEF TableOK
<1>2. ed_handles' = [ed_handles EXCEPT ![f].id = o]
  OBVIOUS
<1> HIDE DEF f
<1>3. /\ ed_handles' \in Slots
      /\ \A h \in Handle : ed_handles'[h].fd = ed_handles[h].fd
      /\ \A h \in Handle : h # f => ed_handles'[h].id = ed_handles[h].id
      /\ ed_handles'[f].id = o
  <2> DEFINE Slot1 == [fd : Objects \cup {NoObject}, id : Objects \cup {NoObject}]
             r == [ed_handles[f] EXCEPT !.id = o]
  <2>1. ed_handles[f] \in Slot1 /\ ed_handles' = [ed_handles EXCEPT ![f] = r]
    BY <1>1, <1>2 DEF Slots
  <2>2. r \in Slot1 /\ r.fd = ed_handles[f].fd /\ r.id = o
    BY <2>1
  <2> HIDE DEF r
  <2>3. \A h \in Handle : ed_handles'[h] = IF h = f THEN r ELSE ed_handles[h]
    BY <1>1, <2>1 DEF Slots
  <2>4. ed_handles' \in Slots
    BY <1>1, <2>1, <2>2 DEF Slots
  <2> QED
    BY <1>1, <2>2, <2>3, <2>4
<1>4. OneHandlePerFile'
  BY <1>1, <1>3, EmufsParts DEF TableOK, OneHandlePerFile, IsOpen
<1>5. ~TableFull' /\ ~Known(o)'
  BY <1>1, <1>3 DEF TableFull, Known, IsOpen
<1>6. \E h \in Handle : ~IsOpen(h)' /\ \A k \in Handle : k < h => IsOpen(k)'
  BY <1>1, <1>3 DEF IsOpen
<1>7. FirstFree' \in Handle /\ ~IsOpen(FirstFree') /\ ~(f < FirstFree') /\ ~(FirstFree' < f)
  <2>1. /\ FirstFree' \in Handle /\ ~(ed_handles'[FirstFree'].fd # NoObject)
        /\ \A k \in Handle : k < FirstFree' => ed_handles'[k].fd # NoObject
    BY <1>6, Zenon DEF FirstFree, IsOpen
  <2> QED
    BY <1>1, <1>3, <2>1 DEF IsOpen
<1>8. FirstFree' = f
  BY <1>1, <1>7, EmufsAssumption DEF Handle
<1> QED
  BY <1>3, <1>4, <1>5, <1>8 DEF TableOK

LEMMA PickStep ==
    ASSUME EmufsInv, open_existing_pick
    PROVE  EmufsInv'
<1>1. call \in Existing /\ ~ed_busy /\ HostOK' /\ call.expected \in Objects
  BY EmufsParts, HostUnchanged
  DEF open_existing_pick, OneOperation, NoCall, Creating, Existing
<1>2. CASE Known(call.expected) /\ Opened(HandleOf(call.expected), call.isdir)
           /\ UNCHANGED ed_handles
  BY <1>1, <1>2, HandleOfDef, OpenedOK, TableKept, EmufsParts
<1>3. CASE Finish("NOHANDLES") /\ Clobbered /\ UNCHANGED ed_handles
  BY <1>1, <1>3, NoHandlesOK
<1>4. CASE /\ ~Known(call.expected) /\ ~TableFull
           /\ ed_handles' = [ed_handles EXCEPT ![FirstFree].id = call.expected]
           /\ call' = [call EXCEPT !.pc = "open"]
           /\ UNCHANGED <<ed_handle, ed_iolen, ed_result, opvars, eirq, epower>>
  <2>1. call' \in Existing /\ call'.expected = call.expected
    BY <1>1, <1>4 DEF Existing
  <2>2. /\ TableOK' /\ ~TableFull' /\ ~Known(call.expected)'
        /\ ed_handles'[FirstFree'].id = call.expected
    <3> DEFINE o == call.expected
    <3>1. o \in Objects /\ ~Known(o) /\ ed_handles' = [ed_handles EXCEPT ![FirstFree].id = o]
      BY <1>1, <1>4
    <3>2. call'.expected = o
      BY <2>1
    <3> HIDE DEF o
    <3>3. /\ TableOK' /\ ~TableFull' /\ ~(\E h \in Handle : IsOpen(h)' /\ ed_handles'[h].id = o)
          /\ ed_handles'[FirstFree'].id = o
      BY <1>4, <3>1, PickSlot DEF Known
    <3> QED
      BY <3>2, <3>3 DEF o, Known
  <2>3. Picked'
    BY <2>1, <2>2 DEF Picked, Known
  <2>4. OneOperation'
    BY <1>1, <1>4, <2>1, EmufsParts DEF OneOperation, opvars
  <2> QED
    BY <1>1, <1>4, <2>2, <2>3, <2>4, EmufsParts DEF RegsOK, FlagsOK, opvars
<1> QED
  BY <1>2, <1>3, <1>4 DEF open_existing_pick

(* open(2) has opened what stat(2) saw: the slot is filled in.             *)
LEMMA FillSlot ==
    ASSUME EmufsInv, call.pc = "open", call.expected \in Objects,
           ed_handles' = [ed_handles EXCEPT ![FirstFree].fd = call.expected]
    PROVE  FirstFree \in Handle /\ TableOK'
<1> DEFINE f == FirstFree
           o == call.expected
           Slot1 == [fd : Objects \cup {NoObject}, id : Objects \cup {NoObject}]
           r == [ed_handles[f] EXCEPT !.fd = o]
<1>1. /\ f \in Handle /\ ed_handles \in Slots /\ ~Known(o) /\ ed_handles[f].id = o
      /\ o \in Objects
  BY EmufsParts, FirstFreeDef DEF TableOK, Picked
<1>2. ed_handles[f] \in Slot1 /\ ed_handles' = [ed_handles EXCEPT ![f] = r]
  BY <1>1 DEF Slots
<1>3. r \in Slot1 /\ r.fd = o /\ r.id = o
  <2> HIDE DEF f, o
  <2> QED BY <1>1, <1>2
<1> HIDE DEF f, o, r
<1>4. \A h \in Handle : ed_handles'[h] = IF h = f THEN r ELSE ed_handles[h]
  BY <1>1, <1>2 DEF Slots
<1>5. ed_handles' \in Slots
  BY <1>1, <1>2, <1>3 DEF Slots
<1>6. \A h \in Handle : ed_handles[h].fd # o
  BY <1>1, EmufsParts, EmufsAssumption DEF Known, TableOK, OneHandlePerFile, IsOpen, NoObject
<1>7. OneHandlePerFile'
  <2>1. OneHandlePerFile
    BY EmufsParts DEF TableOK
  <2>2. ASSUME NEW h \in Handle, IsOpen(h)' PROVE ed_handles'[h].id = ed_handles'[h].fd
    <3>1. CASE h = f
      BY <1>3, <1>4, <3>1
    <3>2. CASE h # f
      BY <1>4, <2>1, <2>2, <3>2 DEF OneHandlePerFile, IsOpen
    <3> QED BY <3>1, <3>2
  <2>3. ASSUME NEW h \in Handle, NEW k \in Handle, IsOpen(h)',
               ed_handles'[k].fd = ed_handles'[h].fd
        PROVE  h = k
    <3>1. CASE h = f \/ k = f
      BY <1>3, <1>4, <1>6, <2>3, <3>1
    <3>2. CASE h # f /\ k # f
      <4>1. ed_handles'[h] = ed_handles[h] /\ ed_handles'[k] = ed_handles[k]
        BY <1>4, <3>2
      <4>2. ed_handles[k].fd = ed_handles[h].fd /\ IsOpen(h)
        BY <2>3, <4>1 DEF IsOpen
      <4> QED BY <2>1, <4>2 DEF OneHandlePerFile
    <3> QED BY <3>1, <3>2
  <2> QED
    BY <2>2, <2>3 DEF OneHandlePerFile, IsOpen
<1> QED
  BY <1>1, <1>5, <1>7 DEF TableOK, f

LEMMA OpenExistingStep ==
    ASSUME EmufsInv, open_existing_open
    PROVE  EmufsInv'
<1>1. call \in Existing /\ ~ed_busy /\ call.expected \in Objects /\ call.pc = "open"
  <2>1. call.pc = "open" /\ call \in {NoCall} \cup Creating \cup Existing
    BY EmufsParts DEF open_existing_open, OneOperation
  <2>2. call # NoCall /\ call \in Existing
    BY <2>1 DEF NoCall, Creating
  <2> QED
    BY <2>1, <2>2, EmufsParts DEF OneOperation, Existing
<1>2. ASSUME NEW res \in Failure, HostErrors(res), Fail(res)
      PROVE  EmufsInv'
  BY <1>1, <1>2, FailOK, HostUnchanged DEF HostErrors, Result
<1>3. ASSUME NEW o \in Objects, HostOpens(o), SameObject(o), Opened(FirstFree, call.isdir),
             ed_handles' = [ed_handles EXCEPT ![FirstFree].fd = o]
      PROVE  EmufsInv'
  <2>1. FirstFree \in Handle /\ TableOK'
    BY <1>1, <1>3, FillSlot DEF SameObject
  <2> QED
    BY <1>1, <1>3, <2>1, HostOpensOK, OpenedOK
<1>4. ASSUME NEW o \in Objects, HostOpens(o),
             call' = [call EXCEPT !.pc = "pick", !.expected = o],
             UNCHANGED <<ed_handle, ed_iolen, ed_result, ed_handles, opvars, eirq, epower>>
      PROVE  EmufsInv'
  <2>1. call' \in Existing /\ call'.pc = "pick"
    BY <1>1, <1>4 DEF Existing
  <2>2. OneOperation'
    BY <1>1, <1>4, <2>1, EmufsParts DEF OneOperation, opvars
  <2>3. HostOK'
    BY <1>1, <1>4, HostOpensOK
  <2> QED
    BY <1>4, <2>1, <2>2, <2>3, EmufsParts, TableKept DEF RegsOK, FlagsOK, opvars, Picked
<1> QED
  BY <1>2, <1>3, <1>4 DEF open_existing_open

LEMMA OpStep ==
    ASSUME EmufsInv, NEW op, emufs_op(op)
    PROVE  EmufsInv'
<1>1. ~ed_busy /\ HostOK'
  BY HostUnchanged DEF emufs_op, Accepting
<1>2. \A res \in Result : Fail(res) => EmufsInv'
  BY <1>1, FailOK
<1>3. ASSUME Finish("SUCCESS"), UNCHANGED <<ed_handle, ed_result, ed_handles>>,
             ed_iolen' \in 0 .. EMU_BUF_SIZE + 1
      PROVE  EmufsInv'
  <2>1. OneOperation' /\ Picked' /\ FlagsOK'
    BY <1>1, <1>3, FinishOK DEF Result
  <2> QED
    BY <1>1, <1>3, <2>1, EmufsParts, TableKept DEF RegsOK
<1>4. CASE ~BadHandle /\ emufs_close
  <2>1. OneOperation' /\ Picked' /\ FlagsOK'
    BY <1>1, <1>4, FinishOK DEF Result, emufs_close
  <2>2. RegsOK'
    BY <1>4, EmufsParts DEF emufs_close, RegsOK
  <2>3. TableOK'
    <3> DEFINE r == [ed_handles[ed_handle] EXCEPT !.fd = NoObject]
               Slot1 == [fd : Objects \cup {NoObject}, id : Objects \cup {NoObject}]
    <3>1. ed_handle \in Handle /\ ed_handles \in Slots /\ ed_handles[ed_handle] \in Slot1
      BY <1>4, EmufsParts DEF BadHandle, TableOK, Slots
    <3>2. r \in Slot1 /\ r.fd = NoObject
      BY <3>1
    <3>3. ed_handles' = [ed_handles EXCEPT ![ed_handle] = r]
      BY <1>4, <3>1 DEF emufs_close, Slots
    <3> HIDE DEF r
    <3>4. \A h \in Handle : ed_handles'[h] = IF h = ed_handle THEN r ELSE ed_handles[h]
      BY <3>1, <3>3 DEF Slots
    <3>5. ed_handles' \in Slots
      BY <3>1, <3>2, <3>3 DEF Slots
    <3>6. OneHandlePerFile'
      BY <3>2, <3>4, EmufsParts DEF TableOK, OneHandlePerFile, IsOpen
    <3> QED
      BY <3>5, <3>6 DEF TableOK
  <2> QED
    BY <1>1, <2>1, <2>2, <2>3, EmufsParts
<1>5. CASE emufs_transfer
  <2>1. ed_iolen \in 0 .. EMU_BUF_SIZE + 1
    BY EmufsParts DEF RegsOK
  <2>2. ASSUME ed_iolen' \in 0 .. ed_iolen PROVE ed_iolen' \in 0 .. EMU_BUF_SIZE + 1
    BY <2>1, <2>2, EmufsAssumption
  <2> QED
    BY <1>2, <1>3, <1>5, <2>2 DEF emufs_transfer, Result, Failure
<1>6. CASE emufs_getsize
  BY <1>2, <1>3, <1>6 DEF emufs_getsize, Result, Failure
<1>7. CASE emufs_trunc
  BY <1>2, <1>7 DEF emufs_trunc, Result, Failure
<1>8. CASE Fail("BADHANDLE") \/ Fail("BADOP")
  BY <1>2, <1>8 DEF Result, Failure
<1> QED
  BY <1>4, <1>5, <1>6, <1>7, <1>8, Zenon DEF emufs_op

LEMMA DoneStep ==
    ASSUME EmufsInv, emufs_done
    PROVE  EmufsInv'
<1>1. ed_busy = TRUE /\ dones = 1 /\ dones' = 0
  BY EmufsParts DEF emufs_done, OneOperation, FlagsOK
<1>2. /\ ed_result' = ed_busyresult /\ eirq' = (ed_busyresult # "none") /\ ed_busy' = FALSE
      /\ ed_busyresult' = "none" /\ UNCHANGED epower
  BY <1>1, Zenon DEF emufs_done, emufs_setresult
<1>3. UNCHANGED <<hostvars, ed_handle, ed_iolen, ed_handles, call>>
  BY DEF emufs_done
<1>4. eirq' \in BOOLEAN /\ ed_busy' \in BOOLEAN
  BY <1>2, Zenon
<1>5. FlagsOK' /\ RegsOK'
  BY <1>2, <1>3, <1>4, EmufsParts DEF FlagsOK, RegsOK, Result
<1>6. OneOperation'
  BY <1>1, <1>2, <1>3, EmufsParts DEF OneOperation
<1> QED
  BY <1>3, <1>5, <1>6, EmufsParts, HostUnchanged, TableKept, PickedKept

LEMMA NextEmufs == EmufsInv /\ [EmufsNext]_emufsVars => EmufsInv'
<1> SUFFICES ASSUME EmufsInv, [EmufsNext]_emufsVars PROVE EmufsInv'
  OBVIOUS
<1>a. ASSUME HostOK', RegsOK', FlagsOK', UNCHANGED <<ed_handles, opvars, call>>
      PROVE  EmufsInv'
  BY <1>a, EmufsParts, TableKept, PickedKept DEF OneOperation, opvars
<1>1. CASE do_op_busy
  BY <1>1, <1>a, EmufsParts, HostUnchanged DEF do_op_busy, RegsOK, FlagsOK, opvars
<1>2. CASE \E op \in OpenOp, n \in Names : emufs_open(op, n)
  BY <1>2, OpenStep
<1>3. CASE emufs_open_create \/ open_existing_pick \/ open_existing_open
  BY <1>3, CreateStep, PickStep, OpenExistingStep
<1>4. CASE \E op \in {"CLOSE", "READ", "READDIR", "WRITE", "GETSIZE", "TRUNC", "other"} : emufs_op(op)
  BY <1>4, OpStep
<1>5. CASE emufs_done
  BY <1>5, DoneStep
<1>6. CASE \E h \in 0 .. MAXHANDLES : store_handle(h)
  BY <1>6, <1>a, EmufsParts, HostUnchanged DEF store_handle, RegsOK, FlagsOK, opvars
<1>7. CASE \E n \in 0 .. EMU_BUF_SIZE + 1 : store_iolen(n)
  BY <1>7, <1>a, EmufsParts, HostUnchanged DEF store_iolen, RegsOK, FlagsOK, opvars
<1>8. CASE \E res \in Result : store_result(res)
  <2>1. ed_result' \in Result
    BY <1>8 DEF store_result, emufs_setresult
  <2>2. eirq' \in BOOLEAN
    BY <1>8, Zenon DEF store_result, emufs_setresult
  <2> QED
    BY <1>8, <1>a, <2>1, <2>2, EmufsParts, HostUnchanged
    DEF store_result, RegsOK, FlagsOK, opvars
<1>9. CASE HostChanges
  <2>1. HostOK'
    BY <1>9, EmufsParts, EmufsAssumption DEF HostChanges, HostOK
  <2> QED
    BY <1>9, <1>a, <2>1, EmufsParts DEF HostChanges, RegsOK, FlagsOK, opvars
<1>10. CASE UNCHANGED emufsVars
  BY <1>10, <1>a, EmufsParts, HostUnchanged DEF emufsVars, RegsOK, FlagsOK, opvars
<1> QED
  BY <1>1, <1>2, <1>3, <1>4, <1>5, <1>6, <1>7, <1>8, <1>9, <1>10 DEF EmufsNext

(* emufs never has two operations under way, its handle table stays        *)
(* consistent, and no open in progress loses its slot.                     *)
THEOREM EmufsInvariant == EmufsSpec => []EmufsInv
<1> QED
  BY InitEmufs, NextEmufs, PTL DEF EmufsSpec

(* emufs_open_existing and emufs_open_create: no object is open under two  *)
(* handles and every handle is recorded under the object it refers to,     *)
(* whatever other programs rename between stat, open and fstat.            *)
THEOREM OneHandle == EmufsSpec => []OneHandlePerFile
<1>1. EmufsInv => OneHandlePerFile
  BY DEF EmufsInv
<1> QED
  BY <1>1, EmufsInvariant, PTL

-----------------------------------------------------------------------------
(***************************************************************************)
(* The timer card.                                                         *)
(***************************************************************************)
(* Events carry generations already used, and none waits longer than the   *)
(* clock lets it.                                                          *)
EventsOK(q) ==
    /\ q \subseteq Event /\ IsFiniteSet(q) /\ Cardinality(q) <= TimerPool
    /\ \A e \in q : e.gen <= td_generation /\ vnow <= e.due + Late

TimerScalars ==
    /\ vnow \in 0 .. Horizon /\ td_restartflag \in BOOLEAN
    /\ td_count_usecs \in Counts \cup {0} /\ td_generation \in 0 .. MaxStarts
    /\ tirq \in BOOLEAN /\ armed \in {Idle} \cup Nat
    /\ start_secs \in 0 .. UINT - 1 /\ start_nsecs \in 0 .. UINT - 1
    /\ tpower \in {"on", "hung", "smoke"}

TimerInv == TimerScalars /\ EventsOK(timers) /\ NewestQueuedOnce

LEMMA InitTimer == TimerInit => TimerInv
<1> SUFFICES ASSUME TimerInit PROVE TimerInv
  OBVIOUS
<1>1. td_restartflag \in BOOLEAN /\ tirq \in BOOLEAN
  BY Zenon DEF TimerInit
<1>2. TimerScalars
  BY <1>1, TimerAssumption DEF TimerInit, TimerScalars
<1>3. EventsOK(timers)
  BY FS_EmptySet, TimerAssumption DEF TimerInit, EventsOK
<1>4. NewestQueuedOnce
  BY DEF TimerInit, NewestQueuedOnce, Newest
<1> QED
  BY <1>2, <1>3, <1>4 DEF TimerInv

(* schedule_event's random delay is not negative.                          *)
LEMMA JitterNat ==
    ASSUME NEW n \in Nat
    PROVE  n \div JITTER \in Nat /\ \A late \in Jitter(n) : late \in Nat
BY DivModDef, TimerAssumption DEF Jitter

(* A new countdown has a generation of its own, so that the events before  *)
(* it are told apart from it.                                              *)
LEMMA StartOK ==
    ASSUME TimerScalars, NEW q, EventsOK(q), NEW count \in Nat,
           timer_start(count, q), UNCHANGED vnow, td_count_usecs' = count
    PROVE  /\ td_generation' \in 0 .. MaxStarts /\ armed' \in {Idle} \cup Nat
           /\ tpower' \in {"on", "hung", "smoke"}
           /\ EventsOK(timers)' /\ NewestQueuedOnce'
<1>1. /\ vnow \in Nat /\ td_generation \in Nat /\ td_generation + 1 \in 1 .. MaxStarts
      /\ td_generation' = td_generation + 1 /\ vnow' = vnow
  BY TimerAssumption DEF TimerScalars, timer_start
<1>2. CASE Cardinality(q) >= TimerPool
  <2>1. tpower' = "smoke" /\ timers' = q /\ UNCHANGED armed
    BY <1>2 DEF timer_start
  <2>2. \A e \in q : e.gen <= td_generation' /\ vnow' <= e.due + Late
    BY <1>1 DEF EventsOK, Event
  <2> QED
    BY <1>1, <2>1, <2>2, TimerAssumption DEF EventsOK, NewestQueuedOnce, TimerScalars
<1>3. CASE ~(Cardinality(q) >= TimerPool)
  <2>0. PICK late \in Jitter(count) :
           timers' = q \cup {[due |-> vnow + count + late, gen |-> td_generation']}
    BY <1>3 DEF timer_start
  <2>j. late \in Nat
    BY JitterNat
  <2> DEFINE e0 == [due |-> vnow + count + late, gen |-> td_generation']
  <2>1. timers' = q \cup {e0} /\ armed' = vnow + count /\ UNCHANGED tpower
    BY <1>3, <2>0 DEF timer_start
  <2>2. e0 \in Event /\ e0.gen = td_generation + 1 /\ e0.due = vnow + count + late
    BY <1>1, <2>j DEF Event
  <2> HIDE DEF e0
  <2>3. IsFiniteSet(timers') /\ Cardinality(timers') <= TimerPool
    <3>1. Cardinality(q) \in Nat
      BY FS_CardinalityType DEF EventsOK
    <3>2. /\ IsFiniteSet(q \cup {e0})
          /\ Cardinality(q \cup {e0}) = IF e0 \in q THEN Cardinality(q) ELSE Cardinality(q) + 1
      BY FS_AddElement DEF EventsOK
    <3> QED
      BY <1>3, <2>1, <3>1, <3>2, TimerAssumption
  <2>4. \A e \in q : e \in Event /\ e.gen <= td_generation /\ vnow <= e.due + Late
    BY DEF EventsOK
  <2>5. \A e \in timers' : e.gen <= td_generation' /\ vnow' <= e.due + Late
    BY <1>1, <2>1, <2>2, <2>j, <2>4, TimerAssumption DEF Event
  <2>6. EventsOK(timers)'
    BY <2>1, <2>2, <2>3, <2>5 DEF EventsOK
  <2>7. Newest' = {e0}
    BY <1>1, <2>1, <2>2, <2>4 DEF Event, Newest
  <2>8. armed' # Idle /\ e0 = [due |-> armed' + late, gen |-> td_generation']
    BY <1>1, <2>1, <2>2 DEF Idle, e0
  <2>9. NewestQueuedOnce'
    <3>1. late \in Jitter(td_count_usecs')
      BY <2>0
    <3> QED
      BY <2>7, <2>8, <3>1, Zenon DEF NewestQueuedOnce, Jitter
  <2> QED
    BY <1>1, <2>1, <2>6, <2>9 DEF TimerScalars
<1> QED
  BY <1>2, <1>3

LEMMA RemoveOK ==
    ASSUME TimerScalars, EventsOK(timers), NEW e \in timers
    PROVE  EventsOK(timers \ {e})
<1>1. Cardinality(timers) \in Nat
  BY FS_CardinalityType DEF EventsOK
<1>2. IsFiniteSet(timers \ {e}) /\ Cardinality(timers \ {e}) = Cardinality(timers) - 1
  BY FS_RemoveElement DEF EventsOK
<1> QED
  BY <1>1, <1>2, TimerAssumption DEF EventsOK

(* What does not touch the countdowns keeps what is known of them.         *)
LEMMA CountdownsKept ==
    ASSUME TimerInv, UNCHANGED <<vnow, td_count_usecs, td_generation, timers, armed>>,
           tpower # "smoke" \/ tpower' = "smoke"
    PROVE  EventsOK(timers)' /\ NewestQueuedOnce'
BY DEF TimerInv, EventsOK, NewestQueuedOnce, Newest, Jitter

LEMMA InterruptStep ==
    ASSUME TimerInv, NEW e \in timers, timer_interrupt(e)
    PROVE  TimerInv' /\ OnlyNewestFires
<1>1. /\ TimerScalars /\ EventsOK(timers) /\ EventsOK(timers \ {e}) /\ tpower = "on"
      /\ e \in Event /\ e.due <= vnow /\ vnow <= e.due + Late
      /\ UNCHANGED <<vnow, regs, tod>>
  BY RemoveOK DEF TimerInv, EventsOK, timer_interrupt
<1>2. td_count_usecs \in Nat
  BY <1>1, TimerAssumption DEF TimerScalars
<1>3. /\ armed = Idle => Newest = {}
      /\ armed # Idle => \E late \in Jitter(td_count_usecs) :
                            Newest = {[due |-> armed + late, gen |-> td_generation]}
  BY <1>1 DEF TimerInv, NewestQueuedOnce
<1>4. CASE /\ Stale(e) /\ timers' = timers \ {e}
           /\ UNCHANGED <<tirq, td_generation, armed, tpower>>
  <2>1. Newest' = Newest
    BY <1>4 DEF Stale, Newest
  <2>2. NewestQueuedOnce'
    BY <1>1, <1>3, <1>4, <2>1 DEF NewestQueuedOnce, Jitter, regs
  <2>3. EventsOK(timers)'
    BY <1>1, <1>4 DEF EventsOK
  <2> QED
    BY <1>1, <1>4, <2>2, <2>3 DEF TimerInv, TimerScalars, OnlyNewestFires, regs, tod
<1>5. CASE ~Stale(e) /\ tirq' = TRUE
  <2>1. e \in Newest
    BY <1>5 DEF Stale, Newest
  <2>a. armed # Idle
    BY <1>3, <2>1
  <2>b. PICK late \in Jitter(td_count_usecs) :
           Newest = {[due |-> armed + late, gen |-> td_generation]}
    BY <1>3, <2>a
  <2>2. armed # Idle /\ e.due = armed + late /\ Newest = {e}
    BY <2>1, <2>a, <2>b
  <2>3. OnlyNewestFires
    <3>1. late \in Nat /\ armed \in Nat
      BY <1>1, <1>2, <2>a, JitterNat DEF TimerScalars
    <3>2. vnow \in armed .. armed + late + Late
      BY <1>1, <2>2, <3>1, TimerAssumption DEF TimerScalars
    <3> QED
      BY <2>a, <3>2 DEF OnlyNewestFires
  <2>4. tirq' \in BOOLEAN
    BY <1>5, Zenon
  <2>5. CASE td_restartflag /\ timer_start(td_count_usecs, timers \ {e})
    <3>1. /\ td_generation' \in 0 .. MaxStarts /\ armed' \in {Idle} \cup Nat
          /\ tpower' \in {"on", "hung", "smoke"}
          /\ EventsOK(timers)' /\ NewestQueuedOnce'
      BY <1>1, <1>2, <2>5, StartOK DEF regs
    <3> QED
      BY <1>1, <2>3, <2>4, <3>1 DEF TimerInv, TimerScalars, regs, tod
  <2>6. CASE /\ ~td_restartflag /\ timers' = timers \ {e} /\ armed' = Idle
             /\ UNCHANGED <<td_generation, tpower>>
    <3>2. Newest' = {}
      BY <2>2, <2>6 DEF Newest
    <3>3. NewestQueuedOnce'
      BY <2>6, <3>2 DEF NewestQueuedOnce
    <3>4. EventsOK(timers)'
      BY <1>1, <2>6 DEF EventsOK
    <3> QED
      BY <1>1, <2>3, <2>4, <2>6, <3>3, <3>4 DEF TimerInv, TimerScalars, regs, tod
  <2> QED
    BY <1>5, <2>5, <2>6, Zenon DEF timer_interrupt, Stale
<1> QED
  BY <1>4, <1>5 DEF timer_interrupt

LEMMA Moduli == SEC \in Nat \ {0} /\ UINT \in Nat \ {0}
BY TimerAssumption

(* clock_time() without the moduli, which do not bite while the offset of  *)
(* the nanoseconds is below a second and the seconds do not wrap.          *)
LEMMA TimeExact ==
    ASSUME NEW s \in Nat, NEW ns \in 0 .. SEC - 1, NEW t \in 0 .. Horizon,
           s + Horizon < UINT,
           NEW q, q = t \div SEC, NEW r, r = t % SEC
    PROVE  /\ q \in Nat /\ r \in 0 .. SEC - 1
           /\ clock_time(s, ns, t).secs = IF ns + r > SEC THEN s + q + 1 ELSE s + q
           /\ clock_time(s, ns, t).nsecs = IF ns + r > SEC THEN ns + r - SEC ELSE ns + r
<1> DEFINE n == ns + r
<1>1. q \in Nat /\ r \in 0 .. SEC - 1 /\ q <= t /\ (t > 0 => q < t)
  BY DivModDef, DivSmaller, TimerAssumption
<1>2. n \in 0 .. UINT - 1
  BY <1>1, TimerAssumption
<1>3. rawnsecs(ns, t) = n
  BY <1>2, ModSmall, Moduli DEF rawnsecs
<1>4. n > SEC => t > 0
  <2> SUFFICES ASSUME t = 0 PROVE n <= SEC
    BY <1>2, TimerAssumption
  <2>1. 0 % SEC = 0
    BY ModSmall, TimerAssumption
  <2> QED
    BY <2>1, TimerAssumption
<1>5. (s + q) % UINT = s + q
  BY <1>1, ModSmall, TimerAssumption
<1>6. n > SEC => (s + q + 1) % UINT = s + q + 1
  BY <1>1, <1>4, ModSmall, TimerAssumption
<1> HIDE DEF n
<1>7. CASE n > SEC
  <2>1. clock_time(s, ns, t) = [secs |-> (s + q + 1) % UINT, nsecs |-> n - SEC]
    BY <1>3, <1>7 DEF clock_time
  <2>2. clock_time(s, ns, t).secs = s + q + 1 /\ clock_time(s, ns, t).nsecs = n - SEC
    BY <1>6, <1>7, <2>1
  <2>3. ns + r > SEC /\ n - SEC = ns + r - SEC
    <3>1. r \in Int /\ ns \in Int /\ SEC \in Int
      BY <1>1, TimerAssumption
    <3> QED
      BY <1>7, <3>1 DEF n
  <2>4. /\ (IF ns + r > SEC THEN s + q + 1 ELSE s + q) = s + q + 1
        /\ (IF ns + r > SEC THEN ns + r - SEC ELSE ns + r) = ns + r - SEC
    BY <2>3, Zenon
  <2> QED
    BY <1>1, <2>2, <2>3, <2>4, Zenon
<1>8. CASE ~(n > SEC)
  <2>1. clock_time(s, ns, t) = [secs |-> (s + q) % UINT, nsecs |-> n]
    BY <1>3, <1>8 DEF clock_time
  <2>2. clock_time(s, ns, t).secs = s + q /\ clock_time(s, ns, t).nsecs = n
    BY <1>5, <2>1
  <2> QED
    BY <1>1, <1>8, <2>2 DEF n
<1> QED
  BY <1>7, <1>8

(* One more tick of virtual time is later on the kernel's clock too.       *)
LEMMA TickForward ==
    ASSUME NEW s \in Nat, NEW ns \in 0 .. SEC - 1, NEW t \in Nat, t + 1 <= Horizon,
           s + Horizon < UINT
    PROVE  LET a == clock_time(s, ns, t)
               b == clock_time(s, ns, t + 1)
           IN  /\ a.secs < b.secs \/ (a.secs = b.secs /\ a.nsecs < b.nsecs)
               /\ b.nsecs <= SEC
<1> DEFINE a == clock_time(s, ns, t)
           b == clock_time(s, ns, t + 1)
           q == t \div SEC
           r == t % SEC
           p == (t + 1) \div SEC
           u == (t + 1) % SEC
<1>1. /\ q \in Nat /\ r \in 0 .. SEC - 1
      /\ a.secs = IF ns + r > SEC THEN s + q + 1 ELSE s + q
      /\ a.nsecs = IF ns + r > SEC THEN ns + r - SEC ELSE ns + r
  <2>1. t \in 0 .. Horizon
    BY TimerAssumption
  <2> QED
    BY <2>1, TimeExact
<1>2. /\ p \in Nat /\ u \in 0 .. SEC - 1
      /\ b.secs = IF ns + u > SEC THEN s + p + 1 ELSE s + p
      /\ b.nsecs = IF ns + u > SEC THEN ns + u - SEC ELSE ns + u
  <2>1. t + 1 \in 0 .. Horizon
    BY TimerAssumption
  <2> QED
    BY <2>1, TimeExact
<1>3. \/ p = q /\ u = r + 1
      \/ p = q + 1 /\ u = 0 /\ r = SEC - 1
  BY DivModStep, Moduli
<1> HIDE DEF a, b, q, r, p, u
<1>4. /\ a.secs < b.secs \/ (a.secs = b.secs /\ a.nsecs < b.nsecs)
      /\ b.nsecs <= SEC
  BY <1>1, <1>2, <1>3, TimerAssumption
<1> QED
  BY <1>4 DEF a, b

LEMMA NextTimer ==
    TimerInv /\ [TimerNext]_timerVars =>
        /\ TimerInv'
        /\ [OnlyNewestFires /\ NewestQueuedOnce' /\ TimeGoesForward]_timerVars
<1> SUFFICES ASSUME TimerInv, [TimerNext]_timerVars
             PROVE  TimerInv' /\ OnlyNewestFires /\ TimeGoesForward
  BY DEF TimerInv
<1>a. ASSUME vnow' = vnow PROVE TimeGoesForward
  BY <1>a DEF TimeGoesForward
<1>b. ASSUME UNCHANGED tirq PROVE OnlyNewestFires
  BY <1>b DEF OnlyNewestFires
<1>1. CASE \E e \in timers : timer_interrupt(e)
  BY <1>1, <1>a, InterruptStep DEF timer_interrupt
<1>2. ASSUME NEW c \in Counts, store_time(c)
      PROVE  TimerInv' /\ OnlyNewestFires /\ TimeGoesForward
  <2>1. /\ td_generation' \in 0 .. MaxStarts /\ armed' \in {Idle} \cup Nat
        /\ tpower' \in {"on", "hung", "smoke"}
        /\ EventsOK(timers)' /\ NewestQueuedOnce'
    BY <1>2, StartOK, TimerAssumption DEF store_time, TimerInv
  <2>2. TimerScalars'
    BY <1>2, <2>1 DEF store_time, TimerInv, TimerScalars, tod
  <2> QED
    BY <1>2, <1>a, <1>b, <2>1, <2>2 DEF store_time, TimerInv
<1>3. CASE \E f \in BOOLEAN : store_rest(f)
  <2>1. td_restartflag' \in BOOLEAN
    BY <1>3, Zenon DEF store_rest
  <2>2. TimerScalars'
    BY <1>3, <2>1 DEF store_rest, TimerInv, TimerScalars, tod
  <2> QED
    BY <1>3, <1>a, <1>b, <2>2, CountdownsKept DEF store_rest, TimerInv
<1>4. CASE fetch_irq
  <2>1. tirq' = FALSE /\ tirq' \in BOOLEAN
    BY <1>4, Zenon DEF fetch_irq
  <2>2. TimerScalars'
    BY <1>4, <2>1 DEF fetch_irq, TimerInv, TimerScalars, tod, regs
  <2>3. OnlyNewestFires
    BY <2>1 DEF OnlyNewestFires
  <2> QED
    BY <1>4, <1>a, <2>2, <2>3, CountdownsKept DEF fetch_irq, TimerInv, regs
<1>5. CASE illegal_register
  <2>1. TimerScalars'
    BY <1>5 DEF illegal_register, TimerInv, TimerScalars, tod, regs
  <2> QED
    BY <1>5, <1>a, <1>b, <2>1, CountdownsKept DEF illegal_register, TimerInv, regs
<1>6. ASSUME NEW x \in Seconds, clock_setsecs(x)
      PROVE  TimerInv' /\ OnlyNewestFires /\ TimeGoesForward
  <2>1. start_secs' \in 0 .. UINT - 1
    <3>0. vnow \in Nat
      BY TimerAssumption DEF TimerInv, TimerScalars
    <3>1. vnow \div SEC \in Nat
      BY <3>0, DivModDef, Moduli
    <3>2. x - (vnow \div SEC) \in Int
      BY <3>1, TimerAssumption
    <3> QED
      BY <1>6, <3>2, ModRange, Moduli DEF clock_setsecs
  <2>2. TimerScalars'
    BY <1>6, <2>1 DEF clock_setsecs, TimerInv, TimerScalars, regs
  <2> QED
    BY <1>6, <1>a, <1>b, <2>2, CountdownsKept DEF clock_setsecs, TimerInv, regs
<1>7. ASSUME NEW x \in Nsecs, clock_setnsecs(x)
      PROVE  TimerInv' /\ OnlyNewestFires /\ TimeGoesForward
  <2>1. start_nsecs' \in 0 .. UINT - 1
    <3>0. vnow \in Nat
      BY TimerAssumption DEF TimerInv, TimerScalars
    <3>1. vnow % SEC \in Nat
      BY <3>0, DivModDef, Moduli
    <3>2. x - (vnow % SEC) \in Int
      BY <3>1, TimerAssumption
    <3> QED
      BY <1>7, <3>2, ModRange, Moduli DEF clock_setnsecs
  <2>2. TimerScalars'
    BY <1>7, <2>1 DEF clock_setnsecs, TimerInv, TimerScalars, regs
  <2> QED
    BY <1>7, <1>a, <1>b, <2>2, CountdownsKept DEF clock_setnsecs, TimerInv, regs
<1>8. CASE clock_advance
  <2>1. /\ vnow \in Nat /\ vnow' = vnow + 1 /\ vnow + 1 <= Horizon
        /\ start_secs \in Nat /\ start_nsecs \in Nat
        /\ UNCHANGED <<regs, td_generation, timers, tirq, tod, armed, tpower>>
    BY <1>8, TimerAssumption DEF clock_advance, TimerInv, TimerScalars
  <2>2. TimerScalars'
    BY <2>1, TimerAssumption DEF TimerInv, TimerScalars, regs, tod
  <2>3. \A e \in timers : vnow' <= e.due + Late
    BY <1>8, <2>1, TimerAssumption DEF clock_advance, TimerInv, EventsOK, Event
  <2>4. EventsOK(timers)' /\ NewestQueuedOnce'
    BY <2>1, <2>3 DEF TimerInv, EventsOK, NewestQueuedOnce, Newest, Jitter, regs
  <2>5. TimeGoesForward
    <3> SUFFICES ASSUME start_nsecs < SEC, start_secs + Horizon < UINT
                 PROVE  LET a == Now
                            b == clock_time(start_secs', start_nsecs', vnow')
                        IN /\ a.secs < b.secs \/ (a.secs = b.secs /\ a.nsecs < b.nsecs)
                           /\ b.nsecs <= SEC
      BY DEF TimeGoesForward
    <3>1. start_nsecs \in 0 .. SEC - 1
      BY <2>1, TimerAssumption
    <3>2. start_secs' = start_secs /\ start_nsecs' = start_nsecs
      BY <2>1 DEF tod
    <3> QED
      BY <2>1, <3>1, <3>2, TickForward DEF Now
  <2> QED
    BY <2>1, <2>2, <2>4, <2>5, <1>b DEF TimerInv
<1>9. CASE UNCHANGED timerVars
  BY <1>9, <1>a, <1>b, CountdownsKept DEF timerVars, TimerInv, TimerScalars, regs, tod
<1> QED
  BY <1>1, <1>2, <1>3, <1>4, <1>5, <1>6, <1>7, <1>8, <1>9 DEF TimerNext

(* Every event in the queue has a generation already used and is not later *)
(* than the clock allows, and the newest countdown has exactly one event.  *)
THEOREM TimerInvariant == TimerSpec => []TimerInv
<1>1. TimerInv /\ [TimerNext]_timerVars => TimerInv'
  BY NextTimer
<1> QED
  BY <1>1, InitTimer, PTL DEF TimerSpec

(* dev_timer.c and clock_time(): only the newest countdown interrupts, not *)
(* early and no later than schedule_event's random delay and the clock's   *)
(* own lateness; it is queued exactly once; and the time of day goes       *)
(* forward across every carry.                                             *)
THEOREM TimerIsExact == TimerSpec => TimerExact
<1> QED
  BY NextTimer, TimerInvariant, PTL DEF TimerSpec, TimerExact

(***************************************************************************)
(* The network: cards and hub.                                             *)
(***************************************************************************)
(* p was sent before q, if they have the same sender.                      *)
Older(p, q) == p.from = q.from /\ q.num > 0 => p.num < q.num

(* Packets without a number, keepalives among them, are for the hub.       *)
ForHub(p) == p.num = 0 => p.to = HUB_ADDR

(* Packet p is newer than all that a card with queue q has or had.         *)
Newer(p, g, q) ==
    /\ p.num > 0 => g[p.from] < p.num
    /\ \A i \in 1 .. Len(q) : Older(q[i], p)

QueuesOK(g, qs, k) ==
    \A n \in Cards :
        /\ \A m \in Cards : g[n][m] <= k
        /\ \A i \in 1 .. Len(qs[n]) : qs[n][i].num \in 1 .. k /\ g[n][qs[n][i].from] < qs[n][i].num
        /\ \A i, j \in 1 .. Len(qs[n]) : i < j => Older(qs[n][i], qs[n][j])

ForwardOK(f, s, g, qs, k) ==
    f # NotForwarding =>
        /\ f.pkt \in Packet /\ f.pkt.num \in 1 .. k /\ f.next >= 1
        /\ \A i \in f.next .. Len(s) : Newer(f.pkt, g[s[i].addr], qs[s[i].addr])

(* at the hub and not yet forwarded *)
HubOK(hq, f, g, qs, k) ==
    /\ \A i \in 1 .. Len(hq) :
         /\ hq[i].num <= k /\ ForHub(hq[i]) /\ Older(f.pkt, hq[i])
         /\ \A n \in Cards : Newer(hq[i], g[n], qs[n])
    /\ \A i, j \in 1 .. Len(hq) : i < j => Older(hq[i], hq[j])

SendingOK(c, hq, f, g, qs, k) ==
    \A m \in Cards :
        LET p == c[m].sending
        IN /\ p.num <= k /\ (p.num > 0 => p.from = m) /\ ForHub(p) /\ Older(f.pkt, p)
           /\ \A n \in Cards : Newer(p, g[n], qs[n])
           /\ \A i \in 1 .. Len(hq) : Older(hq[i], p)

SendersOK(s, f) ==
    /\ \A i, j \in 1 .. Len(s) : s[i].addr = s[j].addr => i = j
    /\ \A i \in 1 .. Len(s) : i >= f.next => s[i].errors <= DROP_ERRORS

NetInv ==
    /\ NetTypeOK
    /\ QueuesOK(got, inq, packets)
    /\ ForwardOK(fwd, senders, got, inq, packets)
    /\ HubOK(hubq, fwd, got, inq, packets)
    /\ SendingOK(nic, hubq, fwd, got, inq, packets)
    /\ SendersOK(senders, fwd)

Queues  == [Cards -> Seq(Packet)]
Gots    == [Cards -> [Cards -> 0 .. MaxPackets]]
Sender  == [addr : Cards, errors : 0 .. DROP_ERRORS + 1]
Senders == Seq(Sender)
Forwards == [pkt : Packet \cup {NoPacket}, next : Nat]

LEMMA PacketFacts ==
    ASSUME NEW p \in Packet \cup {NoPacket}
    PROVE  /\ p.num \in 0 .. MaxPackets /\ p.num \in Nat
           /\ p.num > 0 => p \in Packet
           /\ p \in Packet => p.from \in Cards
BY NetAssumption DEF Packet, NoPacket

Silent(p) == p.num = 0 /\ p.to = HUB_ADDR

(* A state in which nothing but cards changed, none of them to send a data *)
(* packet it did not send before.                                          *)
LEMMA SendingQuiet ==
    ASSUME NEW c, NEW d, NEW hq, NEW f, NEW g, NEW qs, NEW k \in Nat,
           SendingOK(c, hq, f, g, qs, k),
           \A m \in Cards : d[m].sending = c[m].sending \/ Silent(d[m].sending)
    PROVE  SendingOK(d, hq, f, g, qs, k)
<1> SUFFICES ASSUME NEW m \in Cards, Silent(d[m].sending)
             PROVE  /\ d[m].sending.num <= k /\ (d[m].sending.num > 0 => d[m].sending.from = m)
                    /\ ForHub(d[m].sending) /\ Older(f.pkt, d[m].sending)
                    /\ \A n \in Cards : Newer(d[m].sending, g[n], qs[n])
                    /\ \A i \in 1 .. Len(hq) : Older(hq[i], d[m].sending)
  BY DEF SendingOK
<1> QED
  BY DEF Older, Newer, Silent, ForHub

(* The cards' steps that leave queues and hub alone.                       *)
CardStep(n) ==
    \/ keepalive(n) \/ triggersend_toolong(n) \/ (\E val \in BOOLEAN : setirq(n, val)) \/ setctl_start(n)
    \/ illegal_store(n) \/ CardStarts(n)

(* A card is still one, and sends what it sent, when its flags change.     *)
LEMMA FlagsChange ==
    ASSUME NEW c \in Card, NEW b \in BOOLEAN
    PROVE  /\ [c EXCEPT !.rirq = b] \in Card /\ [c EXCEPT !.rirq = b].sending = c.sending
           /\ [c EXCEPT !.hung = b] \in Card /\ [c EXCEPT !.hung = b].sending = c.sending
           /\ [c EXCEPT !.start = b] \in Card /\ [c EXCEPT !.start = b].sending = c.sending
           /\ [c EXCEPT !.trigger = b] \in Card /\ [c EXCEPT !.trigger = b].sending = c.sending
BY Zenon DEF Card

LEMMA CardStepChanges ==
    ASSUME NetTypeOK, NEW n \in Cards, CardStep(n)
    PROVE  /\ nic' \in [Cards -> Card] /\ crashes' \in 0 .. MaxCrashes
           /\ \A m \in Cards : nic'[m].sending = nic[m].sending \/ Silent(nic'[m].sending)
           /\ UNCHANGED <<inq, hubvars, packets, got>>
<1>1. nic \in [Cards -> Card] /\ crashes \in 0 .. MaxCrashes /\ nic[n] \in Card
  BY DEF NetTypeOK
<1>k. Keepalive(n) \in Packet /\ Silent(Keepalive(n))
  BY NetAssumption DEF Keepalive, Packet, Silent
<1>2. SUFFICES \E d \in Card : /\ nic' = [nic EXCEPT ![n] = d]
                               /\ d.sending = nic[n].sending \/ Silent(d.sending)
                               /\ crashes' \in 0 .. MaxCrashes
                               /\ UNCHANGED <<inq, hubvars, packets, got>>
  BY <1>1
<1>h. ASSUME NEW c \in Card, Hang(n, c), c.sending = nic[n].sending
      PROVE  \E d \in Card : /\ nic' = [nic EXCEPT ![n] = d]
                             /\ d.sending = nic[n].sending \/ Silent(d.sending)
                             /\ crashes' \in 0 .. MaxCrashes
  <2>1. crashes' \in 0 .. MaxCrashes
    BY <1>1, <1>h, NetAssumption DEF Hang
  <2>2. [c EXCEPT !.hung = TRUE] \in Card /\ [c EXCEPT !.hung = TRUE].sending = c.sending
    BY FlagsChange
  <2> QED
    BY <1>h, <2>1, <2>2, Zenon DEF Hang
<1>3. CASE keepalive(n)
  <2>1. [nic[n] EXCEPT !.sending = Keepalive(n)] \in Card
    BY <1>1, <1>k, Zenon DEF Card
  <2>2. [nic[n] EXCEPT !.sending = Keepalive(n)].sending = Keepalive(n)
    BY <1>1, Zenon DEF Card
  <2> QED
    BY <1>1, <1>3, <1>k, <2>1, <2>2 DEF keepalive
<1>4. CASE triggersend_toolong(n)
  <2> DEFINE c == [nic[n] EXCEPT !.start = FALSE, !.trigger = FALSE]
  <2>1. c \in Card /\ c.sending = nic[n].sending
    BY <1>1, Zenon DEF Card
  <2> HIDE DEF c
  <2> QED
    BY <1>4, <2>1, <1>h DEF triggersend_toolong, c
<1>5. CASE \E val \in BOOLEAN : setirq(n, val)
  <2>0. PICK val \in BOOLEAN : setirq(n, val)
    BY <1>5
  <2>1. [nic[n] EXCEPT !.rirq = val] \in Card /\ [nic[n] EXCEPT !.rirq = val].sending = nic[n].sending
    BY <1>1, FlagsChange
  <2>2. nic' = [nic EXCEPT ![n] = [nic[n] EXCEPT !.rirq = val]]
    BY <1>1, <2>0, Zenon DEF setirq
  <2> QED
    BY <1>1, <2>0, <2>1, <2>2, Zenon DEF setirq
<1>6. CASE setctl_start(n)
  <2>1. CASE nic[n].start /\ Hang(n, nic[n])
    BY <1>1, <1>6, <1>h, <2>1 DEF setctl_start
  <2>2. CASE nic' = [nic EXCEPT ![n].start = TRUE, ![n].trigger = TRUE] /\ UNCHANGED crashes
    <3> DEFINE c == [nic[n] EXCEPT !.start = TRUE, !.trigger = TRUE]
    <3>1. c \in Card /\ c.sending = nic[n].sending
      BY <1>1, Zenon DEF Card
    <3>2. nic' = [nic EXCEPT ![n] = c]
      BY <1>1, <2>2
    <3> HIDE DEF c
    <3> QED
      BY <1>1, <1>6, <2>2, <3>1, <3>2 DEF setctl_start
  <2> QED
    BY <1>6, <2>1, <2>2 DEF setctl_start
<1>7. CASE illegal_store(n)
  BY <1>1, <1>7, <1>h DEF illegal_store
<1>8. CASE CardStarts(n)
  <2>1. PICK b \in Booted(n) : nic' = [nic EXCEPT ![n] = b]
    BY <1>8 DEF CardStarts
  <2>2. b \in Card /\ b.sending = Keepalive(n)
    BY <2>1, <1>k, NetAssumption DEF Booted, Card
  <2> QED
    BY <1>1, <1>8, <1>k, <2>1, <2>2 DEF CardStarts
<1> QED
  BY <1>3, <1>4, <1>5, <1>6, <1>7, <1>8 DEF CardStep

LEMMA CardStepInv ==
    ASSUME NetInv, NEW n \in Cards, CardStep(n)
    PROVE  NetInv'
<1>1. /\ nic' \in [Cards -> Card] /\ crashes' \in 0 .. MaxCrashes
      /\ \A m \in Cards : nic'[m].sending = nic[m].sending \/ Silent(nic'[m].sending)
      /\ UNCHANGED <<inq, hubvars, packets, got>>
  BY CardStepChanges DEF NetInv
<1>2. NetTypeOK'
  BY <1>1 DEF NetInv, NetTypeOK, hubvars
<1>3. packets \in Nat
  BY DEF NetInv, NetTypeOK
<1>4. SendingOK(nic', hubq, fwd, got, inq, packets)
  BY <1>1, <1>3, SendingQuiet DEF NetInv
<1> QED
  BY <1>1, <1>2, <1>4 DEF NetInv, hubvars

LEMMA Typed ==
    ASSUME NetTypeOK
    PROVE  /\ nic \in [Cards -> Card] /\ packets \in Nat /\ packets <= MaxPackets
           /\ inq \in Queues /\ got \in Gots /\ hubq \in Seq(Packet) /\ fwd \in Forwards
           /\ senders \in Senders /\ fwd.next <= Len(senders) + 1
           /\ fwd.pkt \in Packet \cup {NoPacket} /\ fwd.next \in Nat
           /\ \A m \in Cards : Len(inq[m]) \in Nat /\ Len(inq[m]) <= QLEN
<1>1. Len(senders) \in Nat
  BY DEF NetTypeOK
<1>2. \A m \in Cards : Len(inq[m]) \in Nat /\ Len(inq[m]) <= QLEN
  BY DEF NetTypeOK
<1> QED
  BY <1>1, <1>2, NetAssumption DEF NetTypeOK, Queues, Gots, Forwards, Senders, Sender

(* Data packets get a number that was not used before.                     *)
LEMMA TriggersendInv ==
    ASSUME NetInv, NEW n \in Cards, NEW to \in Addressees \cup {BROADCAST_ADDR},
           NEW runt \in BOOLEAN, triggersend(n, to, runt)
    PROVE  NetInv'
<1> DEFINE p == [from |-> n, to |-> to, num |-> packets + 1, runt |-> runt]
           c == [nic[n] EXCEPT !.sending = p, !.trigger = FALSE]
<1>1. /\ nic \in [Cards -> Card] /\ nic[n] \in Card /\ packets \in Nat
      /\ packets + 1 \in 0 .. MaxPackets /\ packets' = packets + 1
      /\ inq \in Queues /\ got \in Gots /\ hubq \in Seq(Packet) /\ fwd \in Forwards
  BY Typed, NetAssumption DEF NetInv, triggersend
<1>2. p \in Packet /\ p.num = packets + 1 /\ p.from = n
  <2>1. to \in Cards \cup {HUB_ADDR, BROADCAST_ADDR}
    BY NetAssumption
  <2> QED
    BY <1>1, <2>1, Zenon DEF Packet
<1> HIDE DEF p
<1>3. c \in Card /\ c.sending = p
  BY <1>1, <1>2, Zenon DEF Card
<1>4. nic' = [nic EXCEPT ![n] = c]
  BY <1>1 DEF triggersend, p
<1> HIDE DEF c
<1>5. nic' \in [Cards -> Card] /\ UNCHANGED <<inq, hubvars, crashes, got>>
  BY <1>1, <1>3, <1>4 DEF triggersend
<1>6. NetTypeOK'
  BY <1>1, <1>5, NetAssumption DEF NetInv, NetTypeOK, hubvars
<1>7. QueuesOK(got, inq, packets + 1)
  <2> SUFFICES ASSUME NEW m \in Cards
               PROVE  /\ \A k \in Cards : got[m][k] <= packets + 1
                      /\ \A i \in 1 .. Len(inq[m]) :
                           inq[m][i].num \in 1 .. packets + 1 /\ got[m][inq[m][i].from] < inq[m][i].num
                      /\ \A i, j \in 1 .. Len(inq[m]) : i < j => Older(inq[m][i], inq[m][j])
    BY DEF QueuesOK
  <2>1. \A k \in Cards : got[m][k] \in Nat /\ got[m][k] <= packets
    BY <1>1 DEF NetInv, QueuesOK, Gots
  <2> QED
    BY <1>1, <2>1 DEF NetInv, QueuesOK
<1>8. ForwardOK(fwd, senders, got, inq, packets + 1)
  BY <1>1 DEF NetInv, ForwardOK
<1>9. HubOK(hubq, fwd, got, inq, packets + 1)
  <2>1. \A i \in 1 .. Len(hubq) : hubq[i] \in Packet /\ hubq[i].num \in Nat
    BY <1>1, PacketFacts
  <2> QED
    BY <1>1, <2>1 DEF NetInv, HubOK
<1>10. SendingOK(nic', hubq, fwd, got, inq, packets + 1)
  <2> SUFFICES ASSUME NEW m \in Cards
               PROVE  LET q == nic'[m].sending
                      IN /\ q.num <= packets + 1 /\ (q.num > 0 => q.from = m) /\ ForHub(q) /\ Older(fwd.pkt, q)
                         /\ \A k \in Cards : Newer(q, got[k], inq[k])
                         /\ \A i \in 1 .. Len(hubq) : Older(hubq[i], q)
    BY DEF SendingOK
  <2>1. CASE m = n
    <3>1. nic'[m].sending = p
      BY <1>1, <1>3, <1>4, <2>1
    <3>2. Older(fwd.pkt, p)
      <4>1. fwd # NotForwarding => fwd.pkt.num <= packets
        BY <1>1 DEF NetInv, ForwardOK
      <4>2. fwd = NotForwarding => fwd.pkt.num = 0
        BY DEF NotForwarding, NoPacket
      <4>3. fwd.pkt.num \in Nat
        BY <1>1, PacketFacts DEF Forwards
      <4> QED BY <1>1, <1>2, <4>1, <4>2, <4>3 DEF Older
    <3>3. \A k \in Cards : Newer(p, got[k], inq[k])
      <4> SUFFICES ASSUME NEW k \in Cards PROVE Newer(p, got[k], inq[k])
        OBVIOUS
      <4>1. got[k][n] \in Nat /\ got[k][n] <= packets
        BY <1>1 DEF NetInv, QueuesOK, Gots
      <4>2. \A i \in 1 .. Len(inq[k]) : inq[k][i].num \in 1 .. packets
        BY DEF NetInv, QueuesOK
      <4> QED
        BY <1>1, <1>2, <4>1, <4>2 DEF Newer, Older
    <3>4. \A i \in 1 .. Len(hubq) : Older(hubq[i], p)
      <4>1. \A i \in 1 .. Len(hubq) : hubq[i].num \in Nat /\ hubq[i].num <= packets
        BY <1>1, PacketFacts DEF NetInv, HubOK
      <4> QED
        BY <1>1, <1>2, <4>1 DEF Older
    <3>5. ForHub(p)
      BY <1>1, <1>2 DEF ForHub
    <3> QED
      BY <1>1, <1>2, <2>1, <3>1, <3>2, <3>3, <3>4, <3>5
  <2>2. CASE m # n
    <3>1. nic'[m] = nic[m]
      BY <1>1, <1>4, <2>2
    <3>2. nic[m].sending.num \in Nat
      BY <1>1, PacketFacts DEF Card
    <3> QED
      BY <1>1, <3>1, <3>2 DEF NetInv, SendingOK
  <2> QED
    BY <2>1, <2>2
<1> QED
  BY <1>1, <1>5, <1>6, <1>7, <1>8, <1>9, <1>10 DEF NetInv, hubvars

(* sendto(): what was sent queues up behind all older packets.             *)
LEMMA SendtoInv ==
    ASSUME NetInv, NEW n \in Cards, sendto(n)
    PROVE  NetInv'
<1> DEFINE p == nic[n].sending
<1>1. /\ nic \in [Cards -> Card] /\ nic[n] \in Card /\ packets \in Nat
      /\ inq \in Queues /\ got \in Gots /\ hubq \in Seq(Packet) /\ fwd \in Forwards
  BY Typed DEF NetInv
<1>2. PICK c \in Card : nic' = [nic EXCEPT ![n] = c] /\ c.sending = NoPacket
  <2> DEFINE a == [nic[n] EXCEPT !.sending = NoPacket]
             b == [a EXCEPT !.start = FALSE]
  <2>1. a \in Card /\ a.sending = NoPacket
    BY <1>1, Zenon DEF Card
  <2> HIDE DEF a
  <2>2. b \in Card /\ b.sending = NoPacket
    BY <2>1, FlagsChange
  <2> HIDE DEF b
  <2> QED
    BY <2>1, <2>2 DEF sendto, Sent, a, b
<1>3. /\ nic' \in [Cards -> Card] /\ nic'[n].sending = NoPacket
      /\ \A m \in Cards : m # n => nic'[m] = nic[m]
      /\ UNCHANGED <<inq, hubup, senders, fwd, packets, crashes, got>>
  BY <1>1, <1>2 DEF sendto
<1>4. Silent(NoPacket) /\ NoPacket.num = 0 /\ p \in Packet \cup {NoPacket} /\ p # NoPacket
  BY <1>1 DEF NoPacket, Card, sendto, Silent
<1>5. SendingOK(nic', hubq, fwd, got, inq, packets)
  BY <1>1, <1>3, <1>4, SendingQuiet DEF NetInv
<1>6. CASE UNCHANGED hubq
  BY <1>3, <1>5, <1>6 DEF NetInv, NetTypeOK
<1>7. CASE Len(hubq) < QLEN /\ hubq' = Append(hubq, p)
  <2> HIDE DEF p
  <2>1. /\ hubq' \in Seq(Packet) /\ Len(hubq') = Len(hubq) + 1 /\ hubq'[Len(hubq) + 1] = p
        /\ \A i \in 1 .. Len(hubq) : hubq'[i] = hubq[i]
        /\ Len(hubq) \in Nat
    BY <1>1, <1>4, <1>7
  <2>2. NetTypeOK'
    <3>1. Len(hubq') <= QLEN
      BY <1>7, <2>1, NetAssumption
    <3> QED
      BY <1>3, <2>1, <3>1 DEF NetInv, NetTypeOK
  <2>3. /\ p.num <= packets /\ (p.num > 0 => p.from = n) /\ ForHub(p) /\ Older(fwd.pkt, p)
        /\ \A m \in Cards : Newer(p, got[m], inq[m])
        /\ \A i \in 1 .. Len(hubq) : Older(hubq[i], p)
    BY DEF NetInv, SendingOK, p
  <2>4. HubOK(hubq', fwd, got, inq, packets)
    <3>1. ASSUME NEW i \in 1 .. Len(hubq')
          PROVE  /\ hubq'[i].num <= packets /\ ForHub(hubq'[i]) /\ Older(fwd.pkt, hubq'[i])
                 /\ \A m \in Cards : Newer(hubq'[i], got[m], inq[m])
      <4>1. hubq'[i] = p \/ (i \in 1 .. Len(hubq) /\ hubq'[i] = hubq[i])
        BY <2>1
      <4> QED
        BY <2>3, <4>1 DEF NetInv, HubOK
    <3>2. \A i, j \in 1 .. Len(hubq') : i < j => Older(hubq'[i], hubq'[j])
      BY <2>1, <2>3 DEF NetInv, HubOK
    <3> QED
      BY <3>1, <3>2 DEF HubOK
  <2>5. SendingOK(nic', hubq', fwd, got, inq, packets)
    <3>1. ASSUME NEW m \in Cards PROVE Older(p, nic'[m].sending)
      <4>1. CASE m = n
        BY <1>3, <1>4, <4>1 DEF Older
      <4>2. CASE m # n
        BY <1>3, <2>3, <4>2, <1>4, PacketFacts DEF NetInv, SendingOK, Older
      <4> QED BY <4>1, <4>2
    <3> QED
      BY <1>5, <2>1, <3>1 DEF SendingOK
  <2> QED
    BY <1>3, <2>2, <2>4, <2>5 DEF NetInv
<1> QED
  BY <1>6, <1>7 DEF sendto

(* Taking the first packet from a card's queue, whether the card delivers  *)
(* it or not, leaves newer packets newer than all the card has.            *)
Noted(g, p) == [g EXCEPT ![p.from] = p.num]

LEMMA NewerLater ==
    ASSUME NEW x \in Packet \cup {NoPacket}, NEW g \in [Cards -> 0 .. MaxPackets],
           NEW q \in Seq(Packet), q # <<>>, Newer(x, g, q)
    PROVE  Newer(x, g, Tail(q)) /\ Newer(x, Noted(g, Head(q)), Tail(q))
<1>1. /\ Tail(q) \in Seq(Packet) /\ Len(Tail(q)) = Len(q) - 1 /\ Len(q) \in Nat /\ Len(q) >= 1
      /\ \A i \in 1 .. Len(q) - 1 : Tail(q)[i] = q[i + 1]
      /\ Head(q) = q[1] /\ q[1] \in Packet
  OBVIOUS
<1>2. \A i \in 1 .. Len(Tail(q)) : Older(Tail(q)[i], x)
  BY <1>1 DEF Newer
<1>3. Older(q[1], x)
  BY <1>1 DEF Newer
<1>4. q[1].from \in Cards /\ x.num > 0 => x.from \in Cards
  BY <1>1, PacketFacts DEF Packet
<1>5. x.num > 0 => Noted(g, q[1])[x.from] < x.num
  BY <1>1, <1>3, <1>4 DEF Newer, Older, Noted, Packet
<1> QED
  BY <1>1, <1>2, <1>5 DEF Newer

(* If newer packets stay newer, then packets on their way stay in order.   *)
NewerKept(g, qs, h, rs) ==
    \A n \in Cards, x \in Packet \cup {NoPacket} :
        Newer(x, g[n], qs[n]) => Newer(x, h[n], rs[n])

LEMMA OrderKept ==
    ASSUME NEW g, NEW qs, NEW h, NEW rs, NewerKept(g, qs, h, rs),
           NEW c \in [Cards -> Card], NEW hq \in Seq(Packet), NEW f \in Forwards, NEW s \in Senders,
           NEW k, HubOK(hq, f, g, qs, k), SendingOK(c, hq, f, g, qs, k),
           ForwardOK(f, s, g, qs, k)
    PROVE  HubOK(hq, f, h, rs, k) /\ SendingOK(c, hq, f, h, rs, k) /\ ForwardOK(f, s, h, rs, k)
<1>1. HubOK(hq, f, h, rs, k)
  <2>1. \A i \in 1 .. Len(hq) : hq[i] \in Packet \cup {NoPacket}
    OBVIOUS
  <2> QED
    BY <2>1 DEF HubOK, NewerKept
<1>2. SendingOK(c, hq, f, h, rs, k)
  <2>1. \A m \in Cards : c[m].sending \in Packet \cup {NoPacket}
    BY DEF Card
  <2> QED
    BY <2>1 DEF SendingOK, NewerKept
<1>3. ForwardOK(f, s, h, rs, k)
  <2> SUFFICES ASSUME f # NotForwarding, NEW i \in f.next .. Len(s)
               PROVE  Newer(f.pkt, h[s[i].addr], rs[s[i].addr])
    BY DEF ForwardOK
  <2>1. f.pkt \in Packet \cup {NoPacket} /\ f.next \in Nat /\ f.next >= 1 /\ Len(s) \in Nat
    BY DEF Forwards, Senders, ForwardOK
  <2>2. s[i].addr \in Cards
    <3>1. i \in 1 .. Len(s)
      BY <2>1
    <3>2. s[i] \in Sender
      BY <3>1 DEF Senders
    <3> QED BY <3>2 DEF Sender
  <2> QED
    BY <2>1, <2>2 DEF ForwardOK, NewerKept
<1> QED
  BY <1>1, <1>2, <1>3

LEMMA DorecvInv ==
    ASSUME NetInv, NEW n \in Cards, NEW promisc \in BOOLEAN, dorecv(n, promisc)
    PROVE  NetInv'
<1> DEFINE p == Head(inq[n])
           q == inq[n]
<1>1. /\ nic \in [Cards -> Card] /\ packets \in Nat /\ packets <= MaxPackets
      /\ inq \in Queues /\ got \in Gots /\ hubq \in Seq(Packet) /\ fwd \in Forwards
      /\ senders \in Senders
  BY Typed DEF NetInv
<1>2. /\ q \in Seq(Packet) /\ q # <<>> /\ Len(q) \in Nat /\ Len(q) >= 1 /\ p = q[1] /\ p \in Packet
      /\ Tail(q) \in Seq(Packet) /\ Len(Tail(q)) = Len(q) - 1
      /\ \A i \in 1 .. Len(q) - 1 : Tail(q)[i] = q[i + 1]
  BY <1>1 DEF Queues, dorecv
<1>3. /\ p.from \in Cards /\ p.num \in 0 .. MaxPackets /\ p.num \in 1 .. packets
      /\ got[n] \in [Cards -> 0 .. MaxPackets]
  <2>1. p.from \in Cards /\ p.num \in 0 .. MaxPackets
    BY <1>2, PacketFacts
  <2>2. 1 \in 1 .. Len(inq[n])
    BY <1>2
  <2>3. inq[n][1].num \in 1 .. packets
    BY <2>2 DEF NetInv, QueuesOK
  <2> QED
    BY <1>1, <1>2, <2>1, <2>3 DEF Gots
<1>4. inq' = [inq EXCEPT ![n] = Tail(q)] /\ UNCHANGED <<hubvars, packets, crashes>>
  BY DEF dorecv
<1>5. got' = got \/ got' = [got EXCEPT ![n] = Noted(got[n], p)]
  BY <1>1, <1>3 DEF dorecv, Noted, Gots
<1>6. nic' \in [Cards -> Card] /\ \A m \in Cards : nic'[m].sending = nic[m].sending
  <2> DEFINE a == [nic[n] EXCEPT !.rbuf = p]
             b == [nic[n] EXCEPT !.rbuf = p, !.rirq = TRUE]
  <2>1. nic[n] \in Card /\ p \in Packet \cup {NoPacket}
    BY <1>1, <1>2
  <2> HIDE DEF p
  <2>2. a \in Card /\ a.sending = nic[n].sending
    BY <2>1, Zenon DEF Card
  <2>3. b \in Card /\ b.sending = nic[n].sending
    BY <2>1, Zenon DEF Card
  <2>4. nic' = nic \/ nic' = [nic EXCEPT ![n] = a] \/ nic' = [nic EXCEPT ![n] = b]
    BY DEF dorecv, p
  <2> HIDE DEF a, b
  <2> QED
    BY <1>1, <2>2, <2>3, <2>4
<1> HIDE DEF p, q
<1>7. /\ inq' \in Queues /\ got' \in Gots /\ inq'[n] = Tail(q)
      /\ \A m \in Cards : m # n => inq'[m] = inq[m] /\ got'[m] = got[m]
      /\ got'[n] = got[n] \/ got'[n] = Noted(got[n], p)
  <2>1. Noted(got[n], p) \in [Cards -> 0 .. MaxPackets]
    BY <1>3 DEF Noted
  <2> QED
    BY <1>1, <1>2, <1>4, <1>5, <2>1 DEF Queues, Gots
<1>8. NetTypeOK'
  <2>1. \A m \in Cards : Len(inq'[m]) <= QLEN
    <3>1. \A m \in Cards : Len(inq[m]) <= QLEN
      BY Typed DEF NetInv
    <3>2. Len(Tail(q)) <= QLEN
      BY <1>2, <3>1, NetAssumption DEF q
    <3> QED
      BY <1>7, <3>1, <3>2
  <2> QED
    BY <1>4, <1>6, <1>7, <2>1 DEF NetInv, NetTypeOK, Queues, Gots, hubvars
<1>9. NewerKept(got, inq, got', inq')
  <2> SUFFICES ASSUME NEW m \in Cards, NEW x \in Packet \cup {NoPacket}, Newer(x, got[m], inq[m])
               PROVE  Newer(x, got'[m], inq'[m])
    BY DEF NewerKept
  <2>1. CASE m = n
    BY <1>2, <1>3, <1>7, <2>1, NewerLater DEF p, q
  <2>2. CASE m # n
    BY <1>7, <2>2
  <2> QED BY <2>1, <2>2
<1>10. QueuesOK(got', inq', packets)
  <2> SUFFICES ASSUME NEW m \in Cards
               PROVE  /\ \A k \in Cards : got'[m][k] <= packets
                      /\ \A i \in 1 .. Len(inq'[m]) :
                           inq'[m][i].num \in 1 .. packets /\ got'[m][inq'[m][i].from] < inq'[m][i].num
                      /\ \A i, j \in 1 .. Len(inq'[m]) : i < j => Older(inq'[m][i], inq'[m][j])
    BY DEF QueuesOK
  <2>1. CASE m # n
    BY <1>7, <2>1 DEF NetInv, QueuesOK
  <2>2. CASE m = n
    <3>1. \A k \in Cards : got'[n][k] <= packets
      <4>1. \A k \in Cards : got[n][k] <= packets
        BY DEF NetInv, QueuesOK
      <4>2. \A k \in Cards : Noted(got[n], p)[k] = IF k = p.from THEN p.num ELSE got[n][k]
        BY <1>3 DEF Noted
      <4> QED
        BY <1>3, <1>7, <4>1, <4>2
    <3>2. /\ \A i \in 1 .. Len(q) : q[i].num \in 1 .. packets /\ got[n][q[i].from] < q[i].num
          /\ \A i, j \in 1 .. Len(q) : i < j => Older(q[i], q[j])
      BY DEF NetInv, QueuesOK, q
    <3>3. ASSUME NEW i \in 1 .. Len(Tail(q))
          PROVE  Tail(q)[i].num \in 1 .. packets /\ got'[n][Tail(q)[i].from] < Tail(q)[i].num
      <4>1. /\ i + 1 \in 1 .. Len(q) /\ Tail(q)[i] = q[i + 1] /\ 1 \in 1 .. Len(q) /\ 1 < i + 1
            /\ q[i + 1].from \in Cards
        BY <1>2, PacketFacts
      <4>2. Older(p, q[i + 1])
        BY <1>2, <3>2, <4>1
      <4>3. q[i + 1].num \in 1 .. packets /\ got[n][q[i + 1].from] < q[i + 1].num
        BY <3>2, <4>1
      <4> QED
        BY <1>3, <1>7, <4>1, <4>2, <4>3 DEF Older, Noted
    <3>4. \A i, j \in 1 .. Len(Tail(q)) : i < j => Older(Tail(q)[i], Tail(q)[j])
      BY <1>2, <3>2
    <3> QED
      BY <1>7, <2>2, <3>1, <3>3, <3>4
  <2> QED
    BY <2>1, <2>2
<1>11. /\ HubOK(hubq, fwd, got', inq', packets) /\ SendingOK(nic, hubq, fwd, got', inq', packets)
       /\ ForwardOK(fwd, senders, got', inq', packets)
  BY <1>1, <1>9, OrderKept DEF NetInv
<1>12. SendingOK(nic', hubq, fwd, got', inq', packets)
  BY <1>1, <1>6, <1>11, SendingQuiet
<1> QED
  BY <1>4, <1>8, <1>10, <1>11, <1>12 DEF NetInv, hubvars

LEMMA CardDiesInv ==
    ASSUME NetInv, NEW n \in Cards, CardDies(n)
    PROVE  NetInv'
<1>1. /\ nic \in [Cards -> Card] /\ packets \in Nat
      /\ inq \in Queues /\ got \in Gots /\ hubq \in Seq(Packet) /\ fwd \in Forwards
      /\ senders \in Senders
  BY Typed DEF NetInv
<1>2. /\ nic' \in [Cards -> Card]
      /\ \A m \in Cards : nic'[m].sending = nic[m].sending \/ Silent(nic'[m].sending)
  <2> DEFINE c == [nic[n] EXCEPT !.up = FALSE, !.sending = NoPacket]
  <2>1. nic[n] \in Card /\ Silent(NoPacket)
    BY <1>1 DEF NoPacket, Silent
  <2>2. c \in Card /\ c.sending = NoPacket
    BY <2>1, Zenon DEF Card
  <2>3. nic' = [nic EXCEPT ![n] = c]
    BY <1>1 DEF CardDies
  <2> HIDE DEF c
  <2> QED
    BY <1>1, <2>1, <2>2, <2>3
<1>3. crashes' \in 0 .. MaxCrashes /\ UNCHANGED <<hubvars, packets, got>>
  BY NetAssumption DEF NetInv, NetTypeOK, CardDies
<1>4. /\ inq' \in Queues /\ inq'[n] = <<>> /\ Len(inq'[n]) = 0
      /\ \A m \in Cards : m # n => inq'[m] = inq[m]
  BY <1>1 DEF CardDies, Queues
<1>5. NetTypeOK'
  <2>1. \A m \in Cards : Len(inq'[m]) <= QLEN
    <3>1. \A m \in Cards : Len(inq[m]) <= QLEN
      BY Typed DEF NetInv
    <3> QED
      BY <1>4, <3>1, NetAssumption
  <2> QED
    BY <1>2, <1>3, <1>4, <2>1 DEF NetInv, NetTypeOK, Queues, Gots, hubvars
<1>6. NewerKept(got, inq, got, inq')
  BY <1>4 DEF NewerKept, Newer
<1>7. QueuesOK(got, inq', packets)
  BY <1>4 DEF NetInv, QueuesOK
<1>8. /\ HubOK(hubq, fwd, got, inq', packets) /\ SendingOK(nic, hubq, fwd, got, inq', packets)
      /\ ForwardOK(fwd, senders, got, inq', packets)
  BY <1>1, <1>6, OrderKept DEF NetInv
<1>9. SendingOK(nic', hubq, fwd, got, inq', packets)
  BY <1>1, <1>2, <1>8, SendingQuiet
<1> QED
  BY <1>3, <1>5, <1>7, <1>8, <1>9 DEF NetInv, hubvars

(* The hub takes a packet from its queue.                                  *)
LEMMA ChecksenderDoes ==
    ASSUME NEW s \in Senders, NEW a \in Cards, NEW f, f.next = 0, SendersOK(s, f)
    PROVE  /\ checksender(s, a) \in Senders /\ Len(s) <= Len(checksender(s, a))
           /\ \A g : SendersOK(checksender(s, a), g)
<1> DEFINE t == checksender(s, a)
           e == [addr |-> a, errors |-> 0]
<1>0. Len(s) \in Nat
  BY DEF Senders
<1>1. /\ \A i, j \in 1 .. Len(s) : s[i].addr = s[j].addr => i = j
      /\ \A i \in 1 .. Len(s) : s[i].errors <= DROP_ERRORS
  BY <1>0 DEF SendersOK
<1>2. CASE \E i \in 1 .. Len(s) : s[i].addr = a
  BY <1>0, <1>1, <1>2 DEF checksender, SendersOK
<1>3. CASE ~ \E i \in 1 .. Len(s) : s[i].addr = a
  <2>1. t = Append(s, e) /\ e \in Sender /\ e.addr = a /\ e.errors = 0
    BY <1>3, NetAssumption DEF checksender, Sender
  <2> HIDE DEF e, t
  <2>2. /\ t \in Senders /\ Len(t) = Len(s) + 1 /\ t[Len(s) + 1] = e
        /\ \A i \in 1 .. Len(s) : t[i] = s[i]
    BY <2>1 DEF Senders
  <2>3. \A i \in 1 .. Len(t) : i = Len(s) + 1 \/ i \in 1 .. Len(s)
    BY <1>0, <2>2
  <2>4. \A i, j \in 1 .. Len(t) : t[i].addr = t[j].addr => i = j
    BY <1>1, <1>3, <2>1, <2>2, <2>3
  <2>5. \A i \in 1 .. Len(t) : t[i].errors <= DROP_ERRORS
    BY <1>1, <2>1, <2>2, <2>3, NetAssumption
  <2> QED
    BY <1>0, <2>2, <2>4, <2>5 DEF SendersOK, t
<1> QED
  BY <1>2, <1>3

LEMMA LoopRecvInv ==
    ASSUME NetInv, loop_recv
    PROVE  NetInv'
<1> DEFINE p == Head(hubq)
           q == Tail(hubq)
<1>1. /\ nic \in [Cards -> Card] /\ packets \in Nat /\ got \in Gots
      /\ inq \in Queues /\ hubq \in Seq(Packet) /\ fwd \in Forwards /\ senders \in Senders
  BY Typed DEF NetInv
<1>2. /\ Len(hubq) \in Nat /\ Len(hubq) >= 1 /\ p = hubq[1] /\ p \in Packet
      /\ q \in Seq(Packet) /\ Len(q) = Len(hubq) - 1 /\ \A i \in 1 .. Len(q) : q[i] = hubq[i + 1]
  BY <1>1 DEF loop_recv
<1>3. /\ hubq' = q /\ UNCHANGED <<nic, inq, hubup, packets, crashes, got>>
      /\ fwd = NotForwarding /\ fwd.next = 0 /\ fwd.pkt.num = 0
  BY DEF loop_recv, NotForwarding, NoPacket
<1>4. p.from \in Cards /\ p.num \in Nat /\ p.to \in Cards \cup {HUB_ADDR, BROADCAST_ADDR}
  BY <1>2, PacketFacts DEF Packet
<1>5. \/ senders' = senders /\ fwd' = fwd
      \/ senders' = checksender(senders, p.from) /\ fwd' = fwd
      \/ /\ p.to # HUB_ADDR /\ senders' = checksender(senders, p.from)
         /\ fwd' = [pkt |-> p, next |-> 1]
  BY DEF loop_recv
<1> HIDE DEF p, q
<1>6. senders' \in Senders /\ Len(senders') >= Len(senders) /\ SendersOK(senders', fwd')
  <2>1. SendersOK(senders, fwd) /\ Len(senders) \in Nat
    BY <1>1 DEF NetInv, Senders
  <2> QED
    BY <1>1, <1>3, <1>4, <1>5, <2>1, ChecksenderDoes
<1>7. /\ \A i \in 1 .. Len(hubq) : /\ hubq[i].num <= packets /\ ForHub(hubq[i])
                                   /\ \A n \in Cards : Newer(hubq[i], got[n], inq[n])
      /\ \A i, j \in 1 .. Len(hubq) : i < j => Older(hubq[i], hubq[j])
  BY DEF NetInv, HubOK
<1>8. \A i \in 1 .. Len(q) : i + 1 \in 1 .. Len(hubq) /\ 1 < i + 1
  BY <1>2
<1>9. 1 \in 1 .. Len(hubq)
  BY <1>2
<1>10. fwd'.pkt.num = 0 \/ fwd'.pkt = p
  BY <1>3, <1>5
<1>11. HubOK(q, fwd', got, inq, packets)
  <2>1. \A i \in 1 .. Len(q) : Older(fwd'.pkt, q[i])
    BY <1>2, <1>7, <1>8, <1>9, <1>10 DEF Older
  <2>2. \A i, j \in 1 .. Len(q) : i < j => Older(q[i], q[j])
    <3> SUFFICES ASSUME NEW i \in 1 .. Len(q), NEW j \in 1 .. Len(q), i < j
                 PROVE  Older(q[i], q[j])
      OBVIOUS
    <3> QED
      BY <1>2, <1>7, <1>8
  <2> QED
    BY <1>2, <1>7, <1>8, <2>1, <2>2 DEF HubOK
<1>12. SendingOK(nic, q, fwd', got, inq, packets)
  <2> SUFFICES ASSUME NEW m \in Cards
               PROVE  LET x == nic[m].sending
                      IN /\ x.num <= packets /\ (x.num > 0 => x.from = m) /\ ForHub(x) /\ Older(fwd'.pkt, x)
                         /\ \A n \in Cards : Newer(x, got[n], inq[n])
                         /\ \A i \in 1 .. Len(q) : Older(q[i], x)
    BY DEF SendingOK
  <2>1. \A i \in 1 .. Len(hubq) : Older(hubq[i], nic[m].sending)
    BY DEF NetInv, SendingOK
  <2>2. Older(fwd'.pkt, nic[m].sending)
    BY <1>2, <1>9, <1>10, <2>1 DEF Older
  <2>3. \A i \in 1 .. Len(q) : Older(q[i], nic[m].sending)
    BY <1>2, <1>8, <2>1
  <2> QED
    BY <2>2, <2>3 DEF NetInv, SendingOK
<1>13. ForwardOK(fwd', senders', got, inq, packets)
  <2>1. CASE fwd' = fwd
    BY <1>3, <2>1 DEF ForwardOK
  <2>2. CASE p.to # HUB_ADDR /\ fwd' = [pkt |-> p, next |-> 1]
    <3>1. p.num \in 1 .. packets
      BY <1>1, <1>2, <1>4, <1>7, <1>9, <2>2 DEF ForHub
    <3>2. \A n \in Cards : Newer(p, got[n], inq[n])
      BY <1>2, <1>7, <1>9
    <3>3. ASSUME NEW i \in 1 .. Len(senders') PROVE senders'[i].addr \in Cards
      <4>1. senders'[i] \in Sender
        BY <1>6 DEF Senders
      <4> QED BY <4>1 DEF Sender
    <3> QED
      BY <1>2, <2>2, <3>1, <3>2, <3>3 DEF ForwardOK
  <2> QED
    BY <1>5, <2>1, <2>2
<1>14. NetTypeOK'
  <2>1. fwd' \in [pkt : Packet \cup {NoPacket}, next : 0 .. Len(senders') + 1]
    <3>1. Len(senders) \in Nat /\ Len(senders') \in Nat
      BY <1>1, <1>6 DEF Senders
    <3>2. NotForwarding \in [pkt : Packet \cup {NoPacket}, next : 0 .. Len(senders') + 1]
      BY <3>1 DEF NotForwarding
    <3> QED
      BY <1>2, <1>3, <1>5, <3>1, <3>2
  <2>2. Len(q) <= QLEN
    BY <1>2, NetAssumption DEF NetInv, NetTypeOK
  <2> QED
    BY <1>2, <1>3, <1>6, <2>1, <2>2 DEF NetInv, NetTypeOK, Senders, Sender
<1> QED
  BY <1>3, <1>6, <1>11, <1>12, <1>13, <1>14 DEF NetInv

(* The hub sends the packet to one more card: to a card that is not in the *)
(* array again, for else it would get the packet twice.                    *)
LEMMA HubDosendInv ==
    ASSUME NetInv, dosend
    PROVE  NetInv'
<1> DEFINE k == fwd.next
           n == senders[k].addr
           p == fwd.pkt
<1>1. /\ nic \in [Cards -> Card] /\ packets \in Nat /\ got \in Gots
      /\ inq \in Queues /\ hubq \in Seq(Packet) /\ fwd \in Forwards /\ senders \in Senders
      /\ Len(senders) \in Nat
  BY Typed DEF NetInv, Senders
<1>2. /\ fwd # NotForwarding /\ k \in 1 .. Len(senders) /\ p \in Packet /\ p.num \in 1 .. packets
      /\ \A i \in k .. Len(senders) : Newer(p, got[senders[i].addr], inq[senders[i].addr])
  BY <1>1 DEF NetInv, ForwardOK, dosend, Forwards
<1>3. senders[k] \in Sender /\ n \in Cards
  <2>1. senders[k] \in Sender
    BY <1>1, <1>2 DEF Senders
  <2> QED BY <2>1 DEF Sender
<1>4. /\ fwd' = [fwd EXCEPT !.next = @ + 1] /\ fwd'.next = k + 1 /\ fwd'.pkt = p /\ fwd' \in Forwards
      /\ UNCHANGED <<nic, hubup, hubq, packets, crashes, got>>
  BY <1>1, <1>2 DEF dosend, Forwards
<1>5. fwd' # NotForwarding
  BY <1>2, <1>4 DEF NotForwarding
<1>6. CASE UNCHANGED senders /\ Len(inq[n]) < QLEN /\ inq' = [inq EXCEPT ![n] = Append(@, p)]
  <2> DEFINE q == inq[n]
             t == Append(q, p)
  <2> HIDE DEF n, k, p
  <2>1. /\ q \in Seq(Packet) /\ t \in Seq(Packet) /\ Len(q) \in Nat /\ Len(t) = Len(q) + 1
        /\ t[Len(q) + 1] = p /\ \A i \in 1 .. Len(q) : t[i] = q[i]
    BY <1>1, <1>2, <1>3 DEF Queues
  <2>2. inq' \in Queues /\ inq'[n] = t /\ \A m \in Cards : m # n => inq'[m] = inq[m]
    BY <1>1, <1>3, <1>6, <2>1 DEF Queues
  <2> HIDE DEF t, q
  <2>3. \A i \in 1 .. Len(t) : t[i] = p \/ (i \in 1 .. Len(q) /\ t[i] = q[i])
    BY <2>1
  <2>4. Newer(p, got[n], q)
    BY <1>2 DEF n, q
  <2>5. QueuesOK(got, inq', packets)
    <3> SUFFICES ASSUME NEW m \in Cards
                 PROVE  /\ \A c \in Cards : got[m][c] <= packets
                        /\ \A i \in 1 .. Len(inq'[m]) :
                             inq'[m][i].num \in 1 .. packets /\ got[m][inq'[m][i].from] < inq'[m][i].num
                        /\ \A i, j \in 1 .. Len(inq'[m]) : i < j => Older(inq'[m][i], inq'[m][j])
      BY DEF QueuesOK
    <3>1. CASE m # n
      BY <2>2, <3>1 DEF NetInv, QueuesOK
    <3>2. CASE m = n
      <4>1. /\ \A c \in Cards : got[n][c] <= packets
            /\ \A i \in 1 .. Len(q) : q[i].num \in 1 .. packets /\ got[n][q[i].from] < q[i].num
            /\ \A i, j \in 1 .. Len(q) : i < j => Older(q[i], q[j])
        BY <1>3 DEF NetInv, QueuesOK, q, n
      <4>2. got[n][p.from] < p.num /\ \A i \in 1 .. Len(q) : Older(q[i], p)
        BY <1>2, <2>4 DEF Newer
      <4>3. \A i \in 1 .. Len(t) : t[i].num \in 1 .. packets /\ got[n][t[i].from] < t[i].num
        BY <1>2, <2>3, <4>1, <4>2
      <4>4. ASSUME NEW i \in 1 .. Len(t), NEW j \in 1 .. Len(t), i < j
            PROVE  Older(t[i], t[j])
        <5>1. i \in 1 .. Len(q) /\ t[i] = q[i]
          BY <2>1, <4>4
        <5> QED
          BY <2>1, <4>1, <4>2, <4>4, <5>1
      <4> QED
        BY <2>2, <3>2, <4>1, <4>3, <4>4
    <3> QED
      BY <3>1, <3>2
  <2>6. ASSUME NEW x, Older(p, x), NEW m \in Cards, Newer(x, got[m], inq[m])
        PROVE  Newer(x, got[m], inq'[m])
    <3>1. CASE m # n
      BY <2>2, <2>6, <3>1
    <3>2. CASE m = n
      BY <2>2, <2>3, <2>6, <3>2 DEF Newer, q
    <3> QED BY <3>1, <3>2
  <2>7. HubOK(hubq, fwd', got, inq', packets)
    BY <1>4, <2>6 DEF NetInv, HubOK, p
  <2>8. SendingOK(nic, hubq, fwd', got, inq', packets)
    BY <1>4, <2>6 DEF NetInv, SendingOK, p
  <2>9. ForwardOK(fwd', senders, got, inq', packets)
    <3>1. ASSUME NEW i \in k + 1 .. Len(senders)
          PROVE  Newer(p, got[senders[i].addr], inq'[senders[i].addr])
      <4>1. i \in k .. Len(senders) /\ i # k /\ i \in 1 .. Len(senders)
        BY <1>2, <1>1, <3>1
      <4>2. senders[i].addr # n
        BY <1>2, <4>1 DEF NetInv, SendersOK, n
      <4>3. senders[i] \in Sender
        BY <1>1, <4>1 DEF Senders
      <4>4. senders[i].addr \in Cards
        BY <4>3 DEF Sender
      <4> QED
        BY <1>2, <2>2, <4>1, <4>2, <4>4
    <3> QED
      BY <1>2, <1>4, <3>1 DEF ForwardOK
  <2>10. SendersOK(senders, fwd')
    BY <1>1, <1>2, <1>4 DEF NetInv, SendersOK, k
  <2>11. NetTypeOK'
    <3>a. \A m \in Cards : Len(inq[m]) <= QLEN
      BY Typed DEF NetInv
    <3>b. Len(q) < QLEN
      BY <1>6 DEF q
    <3>c. Len(t) <= QLEN
      BY <2>1, <3>b, NetAssumption
    <3>1. \A m \in Cards : Len(inq'[m]) <= QLEN
      BY <2>2, <3>a, <3>c
    <3>2. fwd' \in [pkt : Packet \cup {NoPacket}, next : 0 .. Len(senders) + 1]
      BY <1>1, <1>2, <1>4 DEF Forwards
    <3> QED
      BY <1>4, <1>6, <2>2, <3>1, <3>2 DEF NetInv, NetTypeOK, Queues
  <2> QED
    BY <1>4, <1>6, <2>5, <2>7, <2>8, <2>9, <2>10, <2>11 DEF NetInv
<1>7. CASE UNCHANGED inq /\ senders' = [senders EXCEPT ![k].errors = @ + 1]
  <2> DEFINE e == [senders[k] EXCEPT !.errors = @ + 1]
  <2>1. senders[k].errors <= DROP_ERRORS
    BY <1>1, <1>2 DEF NetInv, SendersOK, Forwards
  <2>2. e \in Sender /\ e.addr = n
    BY <1>3, <2>1, NetAssumption DEF Sender
  <2>3. senders' = [senders EXCEPT ![k] = e]
    BY <1>1, <1>2, <1>7 DEF Senders
  <2> HIDE DEF e, k
  <2>4. /\ senders' \in Senders /\ Len(senders') = Len(senders) /\ senders'[k] = e
        /\ \A i \in 1 .. Len(senders) : i # k => senders'[i] = senders[i]
    BY <1>1, <1>2, <2>2, <2>3 DEF Senders
  <2>5. \A i \in 1 .. Len(senders) : senders'[i].addr = senders[i].addr
    BY <2>2, <2>4
  <2>6. SendersOK(senders', fwd')
    <3>1. \A i, j \in 1 .. Len(senders) : senders[i].addr = senders[j].addr => i = j
      BY DEF NetInv, SendersOK
    <3>2. ASSUME NEW i \in 1 .. Len(senders), i >= k + 1
          PROVE  senders'[i].errors <= DROP_ERRORS
      <4>1. i # k /\ i >= k
        BY <1>2, <3>2
      <4>2. senders'[i] = senders[i]
        BY <2>4, <4>1
      <4> QED
        BY <4>1, <4>2 DEF NetInv, SendersOK, k
    <3> QED
      BY <1>4, <2>4, <2>5, <3>1, <3>2 DEF SendersOK
  <2>7. ForwardOK(fwd', senders', got, inq, packets)
    <3>1. ASSUME NEW i \in k + 1 .. Len(senders)
          PROVE  Newer(p, got[senders'[i].addr], inq[senders'[i].addr])
      <4>1. i \in k .. Len(senders) /\ i \in 1 .. Len(senders)
        BY <1>1, <1>2, <3>1
      <4> QED
        BY <1>2, <2>5, <4>1
    <3> QED
      BY <1>2, <1>4, <2>4, <3>1 DEF ForwardOK
  <2>8. HubOK(hubq, fwd', got, inq, packets)
    BY <1>4 DEF NetInv, HubOK
  <2>9. SendingOK(nic, hubq, fwd', got, inq, packets)
    BY <1>4 DEF NetInv, SendingOK
  <2>10. NetTypeOK'
    <3>1. fwd' \in [pkt : Packet \cup {NoPacket}, next : 0 .. Len(senders') + 1]
      BY <1>1, <1>2, <1>4, <2>4 DEF Forwards
    <3> QED
      BY <1>4, <1>7, <2>4, <3>1 DEF NetInv, NetTypeOK, Senders, Sender
  <2> QED
    BY <1>4, <1>7, <2>6, <2>7, <2>8, <2>9, <2>10 DEF NetInv
<1> QED
  BY <1>6, <1>7 DEF dosend

(* The array closes up: the senders kept are still all different.          *)
LEMMA KillsendersInv ==
    ASSUME NetInv, killsenders
    PROVE  NetInv'
<1> DEFINE N == Cardinality(Survivors)
<1>1. PICK keep \in [1 .. N -> Survivors] :
          /\ \A j, k \in DOMAIN keep : j < k => keep[j] < keep[k]
          /\ senders' = [k \in DOMAIN keep |-> senders[keep[k]]]
  BY DEF killsenders
<1>2. senders \in Senders /\ Len(senders) \in Nat
  BY Typed DEF NetInv, Senders
<1>3. N \in Nat
  <2>1. IsFiniteSet(1 .. Len(senders)) /\ Survivors \subseteq 1 .. Len(senders)
    BY <1>2, FS_Interval DEF Survivors
  <2> QED
    BY <2>1, FS_Subset, FS_CardinalityType
<1> HIDE DEF N
<1>4. /\ DOMAIN keep = 1 .. N
      /\ \A k \in 1 .. N : keep[k] \in 1 .. Len(senders) /\ senders[keep[k]].errors <= DROP_ERRORS
  BY <1>1 DEF Survivors
<1>5. \A k \in 1 .. N : senders[keep[k]] \in Sender
  BY <1>2, <1>4 DEF Senders
<1>6. /\ senders' \in Senders /\ Len(senders') = N
      /\ \A k \in 1 .. N : senders'[k] = senders[keep[k]]
  BY <1>1, <1>3, <1>4, <1>5 DEF Senders
<1>7. fwd' = NotForwarding /\ UNCHANGED <<nic, inq, hubup, hubq, packets, crashes, got>>
  BY DEF killsenders
<1>8. SendersOK(senders', fwd')
  <2>1. ASSUME NEW i \in 1 .. N, NEW j \in 1 .. N, senders'[i].addr = senders'[j].addr
        PROVE  i = j
    <3>1. keep[i] = keep[j]
      BY <1>4, <1>6, <2>1 DEF NetInv, SendersOK
    <3>2. (i < j => keep[i] < keep[j]) /\ (j < i => keep[j] < keep[i])
      BY <1>1, <1>4
    <3>3. keep[i] \in Nat
      BY <1>2, <1>4
    <3> QED
      BY <1>3, <3>1, <3>2, <3>3
  <2> QED
    BY <1>4, <1>6, <2>1 DEF SendersOK
<1>9. NoPacket.num = 0 /\ fwd'.pkt = NoPacket /\ fwd'.next = 0
  BY <1>7 DEF NoPacket, NotForwarding
<1>10. HubOK(hubq, fwd', got, inq, packets)
  BY <1>9 DEF NetInv, HubOK, Older
<1>11. SendingOK(nic, hubq, fwd', got, inq, packets)
  BY <1>9 DEF NetInv, SendingOK, Older
<1>12. ForwardOK(fwd', senders', got, inq, packets)
  BY <1>7 DEF ForwardOK
<1>13. NetTypeOK'
  <2>1. fwd' \in [pkt : Packet \cup {NoPacket}, next : 0 .. Len(senders') + 1]
    BY <1>3, <1>6, <1>7 DEF NotForwarding
  <2> QED
    BY <1>6, <1>7, <2>1 DEF NetInv, NetTypeOK, Senders, Sender
<1> QED
  BY <1>7, <1>8, <1>10, <1>11, <1>12, <1>13 DEF NetInv

LEMMA HubDiesInv ==
    ASSUME NetInv, HubDies
    PROVE  NetInv'
<1>1. /\ hubup' = FALSE /\ hubq' = <<>> /\ senders' = <<>> /\ fwd' = NotForwarding
      /\ UNCHANGED <<nic, inq, packets, got>>
  BY DEF HubDies
<1>2. Len(hubq') = 0 /\ Len(senders') = 0 /\ fwd'.pkt.num = 0
  BY <1>1 DEF NotForwarding, NoPacket
<1>3. HubOK(hubq', fwd', got, inq, packets) /\ SendersOK(senders', fwd')
  BY <1>2 DEF HubOK, SendersOK
<1>4. ForwardOK(fwd', senders', got, inq, packets)
  BY <1>1 DEF ForwardOK
<1>5. SendingOK(nic, hubq', fwd', got, inq, packets)
  BY <1>2 DEF NetInv, SendingOK, Older
<1>6. NetTypeOK'
  <2>1. crashes' \in 0 .. MaxCrashes
    BY NetAssumption DEF NetInv, NetTypeOK, HubDies
  <2>2. fwd' \in [pkt : Packet \cup {NoPacket}, next : 0 .. Len(senders') + 1]
    BY <1>1, <1>2 DEF NotForwarding
  <2>3. hubq' \in Seq(Packet) /\ Len(hubq') <= QLEN /\ senders' \in Senders
    BY <1>1, <1>2, NetAssumption DEF Senders
  <2> QED
    BY <1>1, <2>1, <2>2, <2>3 DEF NetInv, NetTypeOK, Senders, Sender
<1> QED
  BY <1>1, <1>3, <1>4, <1>5, <1>6 DEF NetInv

LEMMA NetInitInv ==
    ASSUME NetInit
    PROVE  NetInv
<1>1. /\ inq = [n \in Cards |-> <<>>] /\ hubup = TRUE /\ hubq = <<>> /\ senders = <<>>
      /\ fwd = NotForwarding /\ packets = 0 /\ crashes = 0
      /\ got = [n \in Cards |-> [m \in Cards |-> 0]]
  BY DEF NetInit
<1>2. nic \in [Cards -> Card] /\ \A n \in Cards : nic[n].sending = Keepalive(n)
  <2>1. \A n \in Cards : Keepalive(n) \in Packet
    BY NetAssumption DEF Keepalive, Packet
  <2>2. ASSUME NEW n \in Cards, NEW b \in Booted(n)
        PROVE  b \in Card /\ b.sending = Keepalive(n)
    BY <2>1, <2>2, NetAssumption DEF Booted, Card
  <2>3. /\ nic \in [Cards -> UNION {Booted(n) : n \in Cards}]
        /\ \A n \in Cards : nic[n] \in Booted(n)
    BY DEF NetInit
  <2> QED
    BY <2>2, <2>3
<1>3. /\ Len(hubq) = 0 /\ Len(senders) = 0 /\ fwd.pkt.num = 0
      /\ \A n \in Cards : inq[n] = <<>> /\ Len(inq[n]) = 0
  BY <1>1 DEF NotForwarding, NoPacket
<1>4. HubOK(hubq, fwd, got, inq, packets) /\ SendersOK(senders, fwd)
  BY <1>3 DEF HubOK, SendersOK
<1>5. ForwardOK(fwd, senders, got, inq, packets)
  BY <1>1 DEF ForwardOK
<1>6. QueuesOK(got, inq, packets)
  BY <1>1, <1>3 DEF QueuesOK
<1>7. SendingOK(nic, hubq, fwd, got, inq, packets)
  <2>1. \A m \in Cards : Silent(nic[m].sending)
    <3>1. \A m \in Cards : Silent(Keepalive(m))
      BY DEF Silent, Keepalive
    <3> QED BY <1>2, <3>1
  <2> QED
    BY <1>1, <1>3, <2>1 DEF SendingOK, Silent, ForHub, Older, Newer
<1>8. NetTypeOK
  <2>1. inq \in [Cards -> Seq(Packet)] /\ got \in [Cards -> [Cards -> 0 .. MaxPackets]]
    BY <1>1, NetAssumption
  <2>2. fwd \in [pkt : Packet \cup {NoPacket}, next : 0 .. Len(senders) + 1]
    BY <1>1, <1>3 DEF NotForwarding
  <2>3. hubq \in Seq(Packet) /\ senders \in Senders
    BY <1>1 DEF Senders
  <2> QED
    BY <1>1, <1>2, <1>3, <2>1, <2>2, <2>3, NetAssumption DEF NetTypeOK, Senders, Sender
<1> QED
  BY <1>4, <1>5, <1>6, <1>7, <1>8 DEF NetInv

(* Every step preserves the invariant.                                     *)
LEMMA NetInvNext ==
    ASSUME NetInv, [NetNext]_netVars
    PROVE  NetInv'
<1>1. ASSUME NEW n \in Cards, NEW to \in Addressees, triggersend(n, to, FALSE) PROVE NetInv'
  BY <1>1, TriggersendInv
<1>2. ASSUME NEW n \in Cards, triggersend(n, BROADCAST_ADDR, TRUE) PROVE NetInv'
  BY <1>2, TriggersendInv
<1>3. ASSUME NEW n \in Cards, CardStep(n) PROVE NetInv'
  BY <1>3, CardStepInv
<1>4. ASSUME NEW n \in Cards, sendto(n) PROVE NetInv'
  BY <1>4, SendtoInv
<1>5. ASSUME NEW n \in Cards, NEW promisc \in BOOLEAN, dorecv(n, promisc) PROVE NetInv'
  BY <1>5, DorecvInv
<1>6. ASSUME NEW n \in Cards, CardDies(n) PROVE NetInv'
  BY <1>6, CardDiesInv
<1>7. CASE loop_recv \/ dosend \/ killsenders \/ HubDies
  BY <1>7, LoopRecvInv, HubDosendInv, KillsendersInv, HubDiesInv
<1>8. CASE HubStarts
  <2>1. NetTypeOK'
    BY <1>8 DEF HubStarts, NetInv, NetTypeOK
  <2> QED
    BY <1>8, <2>1 DEF HubStarts, NetInv
<1>9. CASE UNCHANGED netVars
  <2>1. NetTypeOK'
    BY <1>9 DEF netVars, hubvars, NetInv, NetTypeOK
  <2> QED
    BY <1>9, <2>1 DEF netVars, hubvars, NetInv
<1>10. ASSUME NEW n \in Cards,
              keepalive(n) \/ triggersend_toolong(n) \/ (\E val \in BOOLEAN : setirq(n, val)) \/ setctl_start(n)
                \/ illegal_store(n) \/ CardStarts(n)
       PROVE  NetInv'
  BY <1>3, <1>10, Zenon DEF CardStep
<1> QED
  BY <1>1, <1>2, <1>4, <1>5, <1>6, <1>7, <1>8, <1>9, <1>10, Zenon DEF NetNext

(* The invariant of cards and hub, in every reachable state.               *)
THEOREM NetworkInvariant == NetSpec => []NetInv
<1>1. NetInit => NetInv
  BY NetInitInv
<1>2. NetInv /\ [NetNext]_netVars => NetInv'
  BY NetInvNext
<1> QED
  BY <1>1, <1>2, PTL DEF NetSpec

(* What a step does to the receive side of a card: dorecv takes a packet,  *)
(* the kernel writes the register, a card that was down starts, or nothing.*)
Untouched(n) ==
    /\ nic'[n].rbuf = nic[n].rbuf
    /\ (nic'[n].rirq => nic[n].rirq) \/ inq' = inq

(* Steps that only cards take and that leave queues alone.                 *)
LEMMA ReceiveSide ==
    ASSUME NetInv, [NetNext]_netVars, NEW n \in Cards
    PROVE  \/ Untouched(n)
           \/ ~nic[n].up
           \/ \E promisc \in BOOLEAN : dorecv(n, promisc)
<1>1. nic \in [Cards -> Card] /\ nic[n] \in Card
  BY Typed DEF NetInv
<1>2. ASSUME nic' = nic PROVE Untouched(n)
  BY <1>2 DEF Untouched
<1>3. ASSUME NEW m \in Cards, m # n, NEW c, nic' = [nic EXCEPT ![m] = c] PROVE Untouched(n)
  BY <1>1, <1>3 DEF Untouched
<1>4. ASSUME NEW m \in Cards, NEW to, NEW runt, triggersend(m, to, runt) PROVE Untouched(n)
  BY <1>1, <1>4 DEF triggersend, Untouched, Card
<1>5. ASSUME NEW m \in Cards, keepalive(m) PROVE Untouched(n)
  BY <1>1, <1>5 DEF keepalive, Untouched, Card
<1>6. ASSUME NEW m \in Cards, triggersend_toolong(m) PROVE Untouched(n)
  BY <1>1, <1>6 DEF triggersend_toolong, Hang, Untouched, Card
<1>7. ASSUME NEW m \in Cards, sendto(m) PROVE Untouched(n)
  <2>1. Sent(m)
    BY <1>7 DEF sendto
  <2> QED
    BY <1>1, <2>1 DEF Sent, Untouched, Card
<1>8. ASSUME NEW m \in Cards, NEW val \in BOOLEAN, setirq(m, val) PROVE Untouched(n)
  BY <1>1, <1>8 DEF setirq, Untouched, Card
<1>9. ASSUME NEW m \in Cards, setctl_start(m) PROVE Untouched(n)
  BY <1>1, <1>9 DEF setctl_start, Hang, Untouched, Card
<1>10. ASSUME NEW m \in Cards, illegal_store(m) PROVE Untouched(n)
  BY <1>1, <1>10 DEF illegal_store, Hang, Untouched, Card
<1>11. ASSUME NEW m \in Cards, CardDies(m) PROVE Untouched(n)
  BY <1>1, <1>11 DEF CardDies, Untouched, Card
<1>12. ASSUME NEW m \in Cards, CardStarts(m) PROVE Untouched(n) \/ ~nic[n].up
  BY <1>3, <1>12 DEF CardStarts
<1>13. ASSUME NEW m \in Cards, NEW promisc \in BOOLEAN, dorecv(m, promisc)
       PROVE  Untouched(n) \/ \E x \in BOOLEAN : dorecv(n, x)
  <2>1. CASE m = n
    BY <1>13, <2>1
  <2>2. CASE m # n
    <3>1. nic' = nic \/ \E c : nic' = [nic EXCEPT ![m] = c]
      BY <1>13 DEF dorecv
    <3> QED
      BY <1>2, <1>3, <2>2, <3>1
  <2> QED BY <2>1, <2>2
<1>14. ASSUME loop_recv \/ dosend \/ killsenders \/ HubDies \/ HubStarts \/ UNCHANGED netVars
       PROVE  nic' = nic
  BY <1>14 DEF loop_recv, dosend, killsenders, HubDies, HubStarts, netVars
<1> QED
  BY <1>2, <1>4, <1>5, <1>6, <1>7, <1>8, <1>9, <1>10, <1>11, <1>12, <1>13, <1>14, Zenon DEF NetNext

(* For every set of cards, every length of the sockets' queues and every   *)
(* sequence of crashes, a card delivers one sender's packets in the order  *)
(* sent, none twice, and what it delivered is not overwritten.             *)
THEOREM PacketsAreDelivered == NetSpec => PacketsDelivered
<1> DEFINE Step == /\ ReceivedStays
                   /\ \A n \in Cards : Delivers(n) =>
                        LET p == nic'[n].rbuf IN p.num > got[n][p.from]
<1>1. ASSUME NetInv, [NetNext]_netVars PROVE Step
  <2>1. nic \in [Cards -> Card] /\ inq \in Queues
    BY <1>1, Typed DEF NetInv
  <2>2. ASSUME NEW n \in Cards, nic[n].up, nic[n].rirq, nic'[n].rirq
        PROVE  nic'[n].rbuf = nic[n].rbuf
    BY <1>1, <2>2, ReceiveSide DEF Untouched, dorecv, Overrun
  <2>3. ASSUME NEW n \in Cards, Delivers(n)
        PROVE  nic'[n].rbuf.num > got[n][nic'[n].rbuf.from]
    <3>1. PICK promisc \in BOOLEAN : dorecv(n, promisc)
      BY <1>1, <2>3, ReceiveSide DEF Untouched, Delivers
    <3>2. nic'[n].rbuf = Head(inq[n])
      <4>1. ~Overrun(nic[n]) /\ nic[n] \in Card
        BY <2>1, <2>3 DEF Delivers, Overrun
      <4> QED
        BY <2>1, <3>1, <4>1 DEF dorecv, Card
    <3>3. inq[n] \in Seq(Packet) /\ inq[n] # <<>> /\ 1 \in 1 .. Len(inq[n]) /\ Head(inq[n]) = inq[n][1]
      BY <2>1, <3>1 DEF dorecv, Queues
    <3>4. got[n][inq[n][1].from] < inq[n][1].num /\ inq[n][1].num \in Nat
      BY <1>1, <3>3 DEF NetInv, QueuesOK
    <3>5. got[n][inq[n][1].from] \in Nat
      <4>1. inq[n][1].from \in Cards
        BY <3>3, PacketFacts
      <4> QED
        BY <1>1, <4>1, Typed DEF NetInv, Gots
    <3> QED
      BY <3>2, <3>3, <3>4, <3>5
  <2> QED
    BY <2>2, <2>3 DEF ReceivedStays
<1>2. NetInv /\ [NetNext]_netVars => [Step]_netVars
  BY <1>1
<1> QED
  BY <1>2, NetworkInvariant, PTL DEF NetSpec, PacketsDelivered
=============================================================================
