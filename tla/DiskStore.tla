------------------------------ MODULE DiskStore ------------------------------
(***************************************************************************)
(* What the fixed disk promises the kernel (doc/devices.html, Fixed disk), *)
(* with nothing of the mechanics: one operation at a time, a status        *)
(* register, a transfer buffer, and a medium that changes only when a      *)
(* write operation completes.  Disk is shown to implement it.              *)
(***************************************************************************)
EXTENDS Integers

CONSTANTS Data, NSECT

VARIABLES
    stat,   \* the bits of the status register
    sect,   \* the sector register
    buf,    \* the transfer buffer
    media,  \* what is on the disk
    irq,    \* the device's interrupt request
    turn    \* flips whenever the kernel stores to the status register

svars == <<stat, sect, buf, media, irq, turn>>

Sectors == 0 .. NSECT - 1

Op == {{"INPROGRESS"}, {"INPROGRESS", "ISWRITE"}}

SInit ==
    /\ stat = {} /\ sect = 0 /\ buf \in Data /\ irq = FALSE
    /\ media \in [Sectors -> Data] /\ turn = 0

(* The operation op completes: an invalid sector touches nothing, a media  *)
(* error leaves the target of the transfer (and only that) undefined.      *)
Complete(op) ==
    /\ irq' = TRUE
    /\ \/ /\ sect \notin Sectors
          /\ stat' = (op \ {"INPROGRESS"}) \cup {"COMPLETE", "INVSECT"}
          /\ UNCHANGED <<buf, media>>
       \/ /\ sect \in Sectors
          /\ stat' = (op \ {"INPROGRESS"}) \cup {"COMPLETE"}
          /\ IF "ISWRITE" \in op
               THEN media' = [media EXCEPT ![sect] = buf] /\ UNCHANGED buf
               ELSE buf' = media[sect] /\ UNCHANGED media
       \/ /\ sect \in Sectors
          /\ stat' = (op \ {"INPROGRESS"}) \cup {"COMPLETE", "MEDIAERR"}
          /\ IF "ISWRITE" \in op
               THEN /\ \E d \in Data : media' = [media EXCEPT ![sect] = d]
                    /\ UNCHANGED buf
               ELSE buf' \in Data /\ UNCHANGED media

(* Starting an operation clears the interrupt; the operation may be over   *)
(* at once.                                                                *)
Start(op) ==
    /\ \/ stat' = op /\ irq' = FALSE /\ UNCHANGED <<buf, media>>
       \/ Complete(op)
    /\ turn' = 1 - turn /\ UNCHANGED sect

(* Writing zero acknowledges a completion or aborts the operation: a write *)
(* that is aborted never reaches the medium.                               *)
Idle ==
    /\ stat' = {} /\ irq' = FALSE
    /\ turn' = 1 - turn /\ UNCHANGED <<sect, buf, media>>

(* Only an operation in progress can complete, and at most once.           *)
Finish ==
    /\ stat \in Op
    /\ Complete(stat) /\ UNCHANGED <<sect, turn>>

SetSect == sect' \in 0 .. NSECT /\ UNCHANGED <<stat, buf, media, irq, turn>>
SetBuf  == buf' \in Data /\ UNCHANGED <<stat, sect, media, irq, turn>>

SNext == (\E op \in Op : Start(op)) \/ Idle \/ Finish \/ SetSect \/ SetBuf

SSpec == SInit /\ [][SNext]_svars
=============================================================================
