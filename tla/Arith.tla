------------------------------- MODULE Arith -------------------------------
(***************************************************************************)
(* The arithmetic of both cores: the mx_ functions of                      *)
(* sys161/mipseb/mipscore.h and the rx_do_ functions of riscv/riscvcore.h  *)
(* that add, multiply, divide and compare, as a kernel and its compiler    *)
(* see them: words in, words out, in C's signed, unsigned and 64-bit       *)
(* arithmetic.  Logic, shifts and bytes are in Alu.                        *)
(***************************************************************************)
EXTENDS Integers

CONSTANTS
    SIGN         \* the sign bit of a word, 2^31 in the code

ASSUME ArithAssumption == SIGN \in Nat \ {0}

TOP   == 2 * SIGN
WordW == 0 .. TOP - 1
Ones  == TOP - 1

(* Casts: (uint32_t), (int32_t), truth values, and CHKOVF.                 *)
Unsigned(n) == n % TOP
Signed(x)   == IF x >= SIGN THEN x - TOP ELSE x
Bool(b)     == IF b THEN 1 ELSE 0
OVF         == -1                      \* exception(EX_OVF)
CHKOVF(n)   == IF Signed(Unsigned(n)) # n THEN OVF ELSE Unsigned(n)

(* C's / and %, which round towards zero.                                  *)
Abs(n) == IF n < 0 THEN -n ELSE n
CDiv(a, b) == IF (a < 0) = (b < 0) THEN Abs(a) \div Abs(b) ELSE -(Abs(a) \div Abs(b))
CMod(a, b) == a - b * CDiv(a, b)

-----------------------------------------------------------------------------
(* MIPS.  x is rs, y is rt or the immediate.                               *)
mx_add(x, y)  == CHKOVF(Signed(x) + Signed(y))      \* add, addi
mx_addu(x, y) == Unsigned(x + y)                    \* addu, addiu
mx_slt(x, y)  == Bool(Signed(x) < Signed(y))        \* slt, slti
mx_sltu(x, y) == Bool(x < y)                        \* sltu, sltiu
mx_sub(x, y)  == CHKOVF(Signed(x) - Signed(y))
mx_subu(x, y) == Unsigned(x - y)

(* hi and lo.  The quotient of the least number by -1 is undefined in C:   *)
(* on the usual hosts the division traps and the simulator dies.           *)
HiLo(hi, lo) == [hi |-> Unsigned(hi), lo |-> Unsigned(lo)]
UNDEFINED    == [trap |-> "host"]

mx_div(x, y) ==
    CASE y = 0 -> HiLo(0, IF x >= SIGN THEN Ones ELSE SIGN - 1)
      [] x = SIGN /\ y = Ones -> UNDEFINED
      [] OTHER -> HiLo(CMod(Signed(x), Signed(y)), CDiv(Signed(x), Signed(y)))
mx_divu(x, y)  == IF y = 0 THEN HiLo(0, Ones) ELSE HiLo(x % y, x \div y)
HiLo64(n)      == HiLo(n \div TOP, n)
mx_do_mult(x, y)  == HiLo64(Signed(x) * Signed(y))
mx_do_multu(x, y) == HiLo64(x * y)

(* The conditions of the branches; y is 0 for those of one register.       *)
mx_taken(op, x, y) ==
    CASE op = "beq" -> x = y
      [] op \in {"bgez", "bgezal"} -> Signed(x) >= 0
      [] op \in {"bltz", "bltzal"} -> Signed(x) < 0
      [] op = "bgtz" -> Signed(x) > 0
      [] op = "blez" -> Signed(x) <= 0
      [] op = "bne" -> x # y

-----------------------------------------------------------------------------
(* RISC-V.  x is rs1, y is rs2 or the immediate; auipc's x is the pc.      *)
rx_do_addi(x, y)  == Unsigned(x + y)
rx_do_slti(x, y)  == Bool(Signed(x) < Signed(y))
rx_do_sltiu(x, y) == Bool(x < y)
rx_do_auipc(x, y) == Unsigned(x + y)
rx_do_add(x, y)   == Unsigned(x + y)
rx_do_sub(x, y)   == Unsigned(x - y)
rx_do_slt(x, y)   == Bool(Signed(x) < Signed(y))
rx_do_sltu(x, y)  == Bool(x < y)

rx_do_mul(x, y)   == Unsigned(x * y)
rx_do_mulh(x, y)  == Unsigned((Signed(x) * Signed(y)) \div TOP)
rx_do_mulhu(x, y) == (x * y) \div TOP
rx_do_mulhsu(x, y) ==       \* by magnitude, then negated in two words
    LET res == Abs(Signed(x)) * y
    IN (IF Signed(x) < 0 THEN (-res) % (TOP * TOP) ELSE res) \div TOP

rx_do_div(x, y) ==
    CASE y = 0 -> Ones
      [] x = SIGN /\ y = Ones -> SIGN
      [] OTHER -> Unsigned(CDiv(Signed(x), Signed(y)))
rx_do_divu(x, y) == IF y = 0 THEN Ones ELSE x \div y
rx_do_rem(x, y) ==
    CASE y = 0 -> x
      [] x = SIGN /\ y = Ones -> 0
      [] OTHER -> Unsigned(CMod(Signed(x), Signed(y)))
rx_do_remu(x, y) == IF y = 0 THEN x ELSE x % y

(* What the atomic operations store; x is what was in memory.              *)
rx_do_amoswap(x, y) == y
rx_do_amoadd(x, y)  == Unsigned(x + y)
rx_do_amomax(x, y)  == IF Signed(x) > Signed(y) THEN x ELSE y
rx_do_amomaxu(x, y) == IF x > y THEN x ELSE y
rx_do_amomin(x, y)  == IF Signed(x) < Signed(y) THEN x ELSE y
rx_do_amominu(x, y) == IF x < y THEN x ELSE y

rx_do_beq(x, y)  == x = y
rx_do_bne(x, y)  == x # y
rx_do_blt(x, y)  == Signed(x) < Signed(y)
rx_do_bltu(x, y) == x < y
rx_do_bge(x, y)  == Signed(x) >= Signed(y)
rx_do_bgeu(x, y) == x >= y

-----------------------------------------------------------------------------
(* A sum traps exactly when it does not fit, and differences undo sums.    *)
Sums(x, y) ==
    LET Exact(n) == IF n \in -SIGN .. SIGN - 1 THEN Unsigned(n) ELSE OVF
    IN /\ mx_add(x, y) = Exact(Signed(x) + Signed(y))
       /\ mx_sub(x, y) = Exact(Signed(x) - Signed(y))
       /\ mx_add(x, y) # OVF => mx_addu(x, y) = mx_add(x, y)
       /\ mx_subu(mx_addu(x, y), y) = x /\ rx_do_sub(rx_do_add(x, y), y) = x
       /\ rx_do_addi(x, y) = rx_do_auipc(x, y) /\ rx_do_amoadd(x, y) = mx_addu(x, y)

(* High and low word make the exact product.                               *)
Products(x, y) ==
    LET sx == Signed(x)
        sy == Signed(y)
        lo == rx_do_mul(x, y)
    IN /\ Signed(rx_do_mulh(x, y)) * TOP + lo = sx * sy
       /\ rx_do_mulhu(x, y) * TOP + lo = x * y
       /\ Signed(rx_do_mulhsu(x, y)) * TOP + lo = sx * y
       /\ mx_do_mult(x, y) = [hi |-> rx_do_mulh(x, y), lo |-> lo]
       /\ mx_do_multu(x, y) = [hi |-> rx_do_mulhu(x, y), lo |-> lo]

(* Quotient and remainder belong together, also where the quotient does    *)
(* not fit; MIPS and RISC-V differ only where MIPS leaves it open.         *)
Quotients(x, y) ==
    LET sx == Signed(x)
        sy == Signed(y)
        q  == Signed(rx_do_div(x, y))
        r  == Signed(rx_do_rem(x, y))
    IN /\ Unsigned(q * sy + r) = x
       /\ y # 0 => Abs(r) < Abs(sy) /\ (r = 0 \/ (r < 0) = (sx < 0))
       /\ rx_do_divu(x, y) * y + rx_do_remu(x, y) = x
       /\ y # 0 => /\ rx_do_remu(x, y) < y
                   /\ mx_divu(x, y) = [hi |-> rx_do_remu(x, y), lo |-> rx_do_divu(x, y)]
                   /\ mx_div(x, y) \in {UNDEFINED, HiLo(r, q)}

(* One order for signed and one for unsigned comparisons.                  *)
Orders(x, y) ==
    /\ rx_do_blt(x, y) = ~rx_do_bge(x, y) /\ rx_do_bltu(x, y) = ~rx_do_bgeu(x, y)
    /\ rx_do_beq(x, y) = ~rx_do_bne(x, y)
    /\ rx_do_bge(x, y) /\ rx_do_bge(y, x) => rx_do_beq(x, y)
    /\ \A r \in {mx_slt(x, y), rx_do_slt(x, y), rx_do_slti(x, y)} : r = Bool(rx_do_blt(x, y))
    /\ \A r \in {mx_sltu(x, y), rx_do_sltu(x, y), rx_do_sltiu(x, y)} : r = Bool(rx_do_bltu(x, y))
    /\ {rx_do_amomax(x, y), rx_do_amomin(x, y)} = {x, y}
    /\ {rx_do_amomaxu(x, y), rx_do_amominu(x, y)} = {x, y}
    /\ rx_do_bge(rx_do_amomax(x, y), rx_do_amomin(x, y))
    /\ rx_do_bgeu(rx_do_amomaxu(x, y), rx_do_amominu(x, y))
    /\ rx_do_amoswap(x, y) = y
    /\ mx_taken("beq", x, y) = ~mx_taken("bne", x, y)
    /\ mx_taken("bltz", x, 0) = rx_do_blt(x, 0) /\ mx_taken("bltzal", x, 0) = rx_do_blt(x, 0)
    /\ mx_taken("bgez", x, 0) = ~rx_do_blt(x, 0) /\ mx_taken("bgezal", x, 0) = ~rx_do_blt(x, 0)
    /\ mx_taken("bgtz", x, 0) = rx_do_blt(0, x) /\ mx_taken("blez", x, 0) = ~rx_do_blt(0, x)
=============================================================================
