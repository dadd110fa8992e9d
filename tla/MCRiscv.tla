------------------------------ MODULE MCRiscv ------------------------------
(***************************************************************************)
(* Two page tables for Riscv: in t the kernel's pages, as a superpage and  *)
(* an ordinary page, and two user pages, one of them read-only; in s the   *)
(* first user page is a superpage and the second is missing.               *)
(***************************************************************************)
EXTENDS Riscv, TLC

Pte(f, u, w, superpage) == [v |-> TRUE, u |-> u, frame |-> f, r |-> TRUE, w |-> w,
                            x |-> TRUE, superpage |-> superpage]
Invalid == [v |-> FALSE, u |-> FALSE, frame |-> 0, r |-> FALSE, w |-> FALSE,
            x |-> FALSE, superpage |-> FALSE]
KernelText == Pte(2, FALSE, TRUE, TRUE)
KernelData == Pte(3, FALSE, TRUE, FALSE)

TableSet == [
    t |-> 0 :> Pte(0, TRUE, TRUE, FALSE) @@ 1 :> Pte(1, TRUE, FALSE, FALSE)
          @@ 2 :> KernelText @@ 3 :> KernelData,
    s |-> 0 :> Pte(1, TRUE, TRUE, TRUE) @@ 1 :> Invalid
          @@ 2 :> KernelText @@ 3 :> KernelData]
=============================================================================
