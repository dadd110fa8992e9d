------------------------------- MODULE MCDisk -------------------------------
(***************************************************************************)
(* A disk of two tracks: sectors 0 and 1 on the outer one, 2 on the inner. *)
(***************************************************************************)
EXTENDS Disk

MCSectors == [t \in 0 .. 1 |-> t + 1]
=============================================================================
