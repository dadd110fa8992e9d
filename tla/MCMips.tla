------------------------------- MODULE MCMips -------------------------------
(***************************************************************************)
(* TLB entries for Mips: a writable page of one address space, the same    *)
(* page invalid and its neighbour read-only in every address space.  A     *)
(* user program runs once both pages are mapped, and faults once one of    *)
(* them is replaced.                                                       *)
(***************************************************************************)
EXTENDS Mips

Entry(v, f, global, valid, dirty) ==
    [vpn |-> v, pid |-> 0, pfn |-> f, global |-> global, valid |-> valid, dirty |-> dirty]
SomeEntries == {Entry(0, "f", FALSE, TRUE, TRUE), Entry(0, "k", TRUE, FALSE, FALSE),
                Entry(1, "k", TRUE, TRUE, FALSE)}
=============================================================================
