------------------------------- MODULE Decode -------------------------------
(***************************************************************************)
(* Instruction decoding of the RISC-V core, sys161/riscv/riscvcore.h: the  *)
(* wrappers that take 32-bit instructions apart, the dispatchers insn32    *)
(* and insn16, and the expansion of compressed instructions.               *)
(*                                                                         *)
(* An instruction word, like an immediate, is the set of the numbers of    *)
(* its one bits, so that masking and shifting are what they are in the     *)
(* code.  A decoded instruction is the rx_do_ function called and its      *)
(* operands.  The privilege checks in insn32 are in Riscv.                 *)
(***************************************************************************)
EXTENDS Integers, Sequences, FiniteSets, FiniteSetsExt

CONSTANTS
    Registers    \* the register numbers tried, as triples <<rd, rs1, rs2>>

VARIABLES
    asm          \* the instruction that was assembled

decodeVars == <<asm>>

(* (insn & mask) shifted, for the mask of the bits lo to hi: lo goes to to.*)
Bits(i, lo, hi, to) == {b - lo + to : b \in i \cap (lo .. hi)}
Num(i, lo, hi) == FoldSet(LAMBDA b, n : n + 2 ^ (b - lo), 0, i \cap (lo .. hi))

Insn(op, rd, rs1, rs2, imm) ==
    [op |-> op, rd |-> rd, rs1 |-> rs1, rs2 |-> rs2, imm |-> imm]
Ill == Insn("ill", 0, 0, 0, {})
Nop == Insn("nop", 0, 0, 0, {})

-----------------------------------------------------------------------------
(* 32-bit instructions: the macros.                                        *)
NEED_RS1(i) == Num(i, 15, 19)
NEED_RS2(i) == Num(i, 20, 24)
NEED_RD(i)  == Num(i, 7, 11)

SIGNEXT(i, k) == IF 31 \in i THEN k .. 31 ELSE {}
SET_I_IMM(i)  == SIGNEXT(i, 12) \cup Bits(i, 20, 31, 0)
SET_S_IMM(i)  == SIGNEXT(i, 12) \cup Bits(i, 25, 31, 5) \cup Bits(i, 7, 11, 0)

(* Mutant: bit 11 is put where the S format has its bit 0.                 *)
SET_B_IMM_as_S(i) ==
    SIGNEXT(i, 12) \cup Bits(i, 25, 30, 5) \cup Bits(i, 8, 11, 1) \cup Bits(i, 7, 7, 0)

SET_B_IMM(i) ==
    SIGNEXT(i, 12) \cup Bits(i, 25, 30, 5) \cup Bits(i, 8, 11, 1) \cup Bits(i, 7, 7, 11)
SET_U_IMM(i)  == i \cap (12 .. 31)

(* The sign is extended from bit 19 on, although bit 19 is in the          *)
(* instruction.                                                            *)
SET_J_IMM(i) ==
    SIGNEXT(i, 19) \cup (i \cap (12 .. 19)) \cup Bits(i, 20, 20, 11) \cup Bits(i, 21, 30, 1)
SET_SH_IMM(i) == SET_I_IMM(i) \cap (0 .. 4)

(* The wrappers, by what they extract.                                     *)
BaseImmediates == {"addi", "slti", "sltiu", "andi", "ori", "xori"}
ShiftImmediates == {"slli", "srli", "srai"}
UpperImmediates == {"lui", "auipc"}
RegisterOps == {"add", "slt", "sltu", "and", "or", "xor", "sll", "srl", "sra", "sub"}
Branches == {"beq", "bne", "blt", "bltu", "bge", "bgeu"}
Loads == {"lb", "lbu", "lh", "lhu", "lw"}
Stores == {"sb", "sh", "sw"}
MulDivs == {"mul", "mulh", "mulhu", "mulhsu", "div", "divu", "rem", "remu"}
Atomics == {"sc", "amoswap", "amoadd", "amoand", "amoor", "amoxor",
            "amomax", "amomaxu", "amomin", "amominu"}
Csrs == {"csrrw", "csrrs", "csrrc", "csrrwi", "csrrsi", "csrrci"}

(* csrread and csrwrite drop the upper bits of the sign-extended number.   *)
Operands(op, i) ==
    CASE op \in BaseImmediates \cup Loads \cup {"jalr"} ->
            Insn(op, NEED_RD(i), NEED_RS1(i), 0, SET_I_IMM(i))
      [] op \in ShiftImmediates -> Insn(op, NEED_RD(i), NEED_RS1(i), 0, SET_SH_IMM(i))
      [] op \in UpperImmediates -> Insn(op, NEED_RD(i), 0, 0, SET_U_IMM(i))
      [] op = "jal" -> Insn(op, NEED_RD(i), 0, 0, SET_J_IMM(i))
      [] op \in RegisterOps \cup MulDivs \cup Atomics ->
            Insn(op, NEED_RD(i), NEED_RS1(i), NEED_RS2(i), {})
      [] op = "lr" -> Insn(op, NEED_RD(i), NEED_RS1(i), 0, {})
      [] op \in Branches -> Insn(op, 0, NEED_RS1(i), NEED_RS2(i), SET_B_IMM(i))
      [] op \in Stores -> Insn(op, 0, NEED_RS1(i), NEED_RS2(i), SET_S_IMM(i))
      [] op \in Csrs -> Insn(op, NEED_RD(i), NEED_RS1(i), 0, SET_I_IMM(i) \cap (0 .. 11))
      [] op = "sfence.vma" -> Insn(op, 0, NEED_RS1(i), NEED_RS2(i), {})
      [] op = "ill" -> Ill
      [] OTHER -> Insn(op, 0, 0, 0, {})

(* insn32: a table per primary opcode, by funct3 or funct7.  The switch    *)
(* has no default: the reserved primary opcodes do nothing.                *)
At(table, n) == table[n + 1]
Amo(f5) == CASE f5 = 0 -> "amoadd" [] f5 = 1 -> "amoswap" [] f5 = 2 -> "lr" [] f5 = 3 -> "sc"
             [] f5 = 4 -> "amoxor" [] f5 = 8 -> "amoand" [] f5 = 12 -> "amoor"
             [] f5 = 16 -> "amomin" [] f5 = 20 -> "amomax" [] f5 = 24 -> "amominu"
             [] f5 = 28 -> "amomaxu" [] OTHER -> "ill"
Priv(f7, rs2) == CASE f7 = 0 /\ rs2 = 0 -> "ecall" [] f7 = 0 /\ rs2 = 1 -> "ebreak"
                   [] f7 = 8 /\ rs2 = 2 -> "sret" [] f7 = 8 /\ rs2 = 5 -> "wfi"
                   [] f7 = 9 -> "sfence.vma" [] OTHER -> "ill"

Opcode32(i) ==
    LET op == Num(i, 2, 6)
        f3 == Num(i, 12, 14)
        f7 == Num(i, 25, 31)
    IN CASE op = 0  -> At(<<"lb", "lh", "lw", "ill", "lbu", "lhu", "ill", "ill">>, f3)
         [] op = 3  -> IF f3 = 0 THEN "fence" ELSE IF f3 = 1 THEN "fence.i" ELSE "ill"
         [] op = 4  -> IF (f3 = 1 /\ f7 # 0) \/ (f3 = 5 /\ f7 \notin {0, 32}) THEN "ill"
                       ELSE IF f3 = 5 /\ f7 = 32 THEN "srai"
                       ELSE At(<<"addi", "slli", "slti", "sltiu", "xori", "srli", "ori", "andi">>, f3)
         [] op = 5  -> "auipc"
         [] op = 8  -> IF f3 <= 2 THEN At(<<"sb", "sh", "sw">>, f3) ELSE "ill"
         [] op = 11 -> IF f3 # 2 THEN "ill" ELSE Amo(f7 \div 4)
         [] op = 12 ->
              CASE f7 = 0 -> At(<<"add", "sll", "slt", "sltu", "xor", "srl", "or", "and">>, f3)
                [] f7 = 32 -> IF f3 = 0 THEN "sub" ELSE IF f3 = 5 THEN "sra" ELSE "ill"
                [] f7 = 1 -> At(<<"mul", "mulh", "mulhsu", "mulhu", "div", "divu", "rem", "remu">>, f3)
                [] OTHER -> "ill"
         [] op = 13 -> "lui"
         [] op = 24 -> At(<<"beq", "bne", "ill", "ill", "blt", "bge", "bltu", "bgeu">>, f3)
         [] op = 25 -> IF f3 = 0 THEN "jalr" ELSE "ill"
         [] op = 27 -> "jal"
         [] op = 28 -> IF f3 = 0 THEN Priv(f7, NEED_RS2(i))
                       ELSE At(<<"", "csrrw", "csrrs", "csrrc", "ill", "csrrwi", "csrrsi", "csrrci">>, f3)
         [] op \in {1, 6, 9, 14} \cup (16 .. 20) -> "ill"
         [] OTHER -> "nop"

insn32(i) == Operands(Opcode32(i), i)

-----------------------------------------------------------------------------
(* 16-bit instructions.  The three-bit register fields are compared with a *)
(* number where they should be shifted by it: every register but the first *)
(* comes out as the second.                                                *)
Short(i, lo, hi) == IF i \cap (lo .. hi) = {} THEN 8 ELSE 9
Ext(i, k) == IF 12 \in i THEN k .. 31 ELSE {}

ImmAddi(i) == Bits(i, 2, 6, 0) \cup Bits(i, 12, 12, 5)
ImmLw(i)   == Bits(i, 5, 5, 6) \cup Bits(i, 10, 12, 3) \cup Bits(i, 4, 4, 2)
ImmJal(i)  == Bits(i, 12, 12, 11) \cup Bits(i, 8, 8, 10) \cup Bits(i, 9, 10, 8)
              \cup Bits(i, 6, 6, 7) \cup Bits(i, 7, 7, 6) \cup Bits(i, 2, 2, 5)
              \cup Bits(i, 11, 11, 4) \cup Bits(i, 3, 5, 1) \cup Ext(i, 12)
ImmBeqz(i) == Bits(i, 12, 12, 8) \cup Bits(i, 5, 6, 6) \cup Bits(i, 2, 2, 5)
              \cup Bits(i, 10, 11, 3) \cup Bits(i, 3, 4, 1) \cup Ext(i, 9)

Quadrant0(i) ==
    LET op == Num(i, 13, 15)
        r1 == Short(i, 7, 9)
        r2 == Short(i, 2, 4)
        spn == Bits(i, 7, 10, 6) \cup Bits(i, 11, 12, 4) \cup Bits(i, 5, 5, 3) \cup Bits(i, 6, 6, 2)
    IN CASE op = 0 /\ spn # {} -> Insn("addi", r2, 2, 0, spn)
         [] op = 2 -> Insn("lw", r2, r1, 0, ImmLw(i))
         [] op = 6 -> Insn("sw", 0, r1, r2, ImmLw(i))
         [] OTHER -> Ill

(* C.ADDI16SP and C.LUI, by the register.                                  *)
Upper16(i) ==
    LET rd == Num(i, 7, 11)
        sp == Bits(i, 12, 12, 9) \cup Bits(i, 3, 4, 7) \cup Bits(i, 5, 5, 6)
              \cup Bits(i, 2, 2, 5) \cup Bits(i, 6, 6, 4) \cup Ext(i, 9)
        up == Bits(i, 2, 6, 12) \cup Bits(i, 12, 12, 17) \cup Ext(i, 18)
    IN CASE rd = 0 -> Nop
         [] rd = 2 -> IF sp = {} THEN Ill ELSE Insn("addi", 2, 2, 0, sp)
         [] OTHER  -> IF up = {} THEN Ill ELSE Insn("lui", rd, 0, 0, up)

(* C.SRLI, C.SRAI, C.ANDI, C.SUB, C.XOR, C.OR and C.AND.                   *)
Arith16(i) ==
    LET r1 == Short(i, 7, 9)
        r2 == Short(i, 2, 4)
        f  == Num(i, 10, 11)
    IN CASE f = 2 -> Insn("andi", r1, r1, 0, ImmAddi(i) \cup Ext(i, 6))
         [] f # 2 /\ 12 \in i -> Ill
         [] f \in {0, 1} /\ 12 \notin i ->
               Insn(IF f = 0 THEN "srli" ELSE "srai", r1, r1, 0, ImmAddi(i))
         [] f = 3 /\ 12 \notin i -> Insn(At(<<"sub", "xor", "or", "and">>, Num(i, 5, 6)), r1, r1, r2, {})

(* C.BEQZ and C.BNEZ are taken for each other.                             *)
Quadrant1(i) ==
    LET op == Num(i, 13, 15)
        rd == Num(i, 7, 11)
    IN CASE op = 0 -> Insn("addi", rd, rd, 0, ImmAddi(i) \cup Ext(i, 6))
         [] op = 1 -> Insn("jal", 1, 0, 0, ImmJal(i))
         [] op = 2 -> IF rd = 0 THEN Nop ELSE Insn("addi", rd, 0, 0, ImmAddi(i) \cup Ext(i, 6))
         [] op = 3 -> Upper16(i)
         [] op = 4 -> Arith16(i)
         [] op = 5 -> Insn("jal", 0, 0, 0, ImmJal(i))
         [] op = 6 -> Insn("bne", 0, Short(i, 7, 9), 0, ImmBeqz(i))
         [] op = 7 -> Insn("beq", 0, Short(i, 7, 9), 0, ImmBeqz(i))

(* C.SLLI passes its shift count as a register number.                     *)
Quadrant2(i) ==
    LET op  == Num(i, 13, 15)
        rd  == Num(i, 7, 11)
        rs2 == Num(i, 2, 6)
        lwsp == Bits(i, 12, 12, 5) \cup Bits(i, 4, 6, 2) \cup Bits(i, 2, 3, 6)
        swsp == Bits(i, 7, 8, 6) \cup Bits(i, 9, 12, 2)
    IN CASE op = 0 -> IF 12 \in i THEN Ill ELSE Insn("sll", rd, rd, rs2, {})
         [] op = 2 -> IF rd = 0 THEN Ill ELSE Insn("lw", rd, 2, 0, lwsp)
         [] op = 4 /\ 12 \in i ->
               CASE rd = 0 /\ rs2 = 0 -> Insn("ebreak", 0, 0, 0, {})
                 [] rd # 0 /\ rs2 = 0 -> Insn("jalr", 1, rd, 0, {})
                 [] OTHER -> Insn("add", rd, rd, rs2, {})
         [] op = 4 /\ 12 \notin i ->
               CASE rd = 0 /\ rs2 = 0 -> Ill
                 [] rd # 0 /\ rs2 = 0 -> Insn("jalr", 0, rd, 0, {})
                 [] OTHER -> Insn("add", rd, 0, rs2, {})
         [] op = 6 -> Insn("sw", 0, 2, rs2, swsp)
         [] OTHER -> Ill

insn16(i) == CASE Num(i, 0, 1) = 0 -> Quadrant0(i)
               [] Num(i, 0, 1) = 1 -> Quadrant1(i)
               [] Num(i, 0, 1) = 2 -> Quadrant2(i)

-----------------------------------------------------------------------------
(***************************************************************************)
(* The assembler, from the tables of the architecture: for every format    *)
(* which immediate bit is where, from bit 31 or 12 down (-1: none).        *)
(***************************************************************************)
None5 == <<-1, -1, -1, -1, -1>>
Down(a, b) == [k \in 1 .. a - b + 1 |-> a + 1 - k]
Layout == [
    I   |-> Down(11, 0),
    CSR |-> Down(11, 0),
    S   |-> Down(11, 5) \o None5 \o None5 \o <<-1, -1, -1>> \o Down(4, 0),
    B   |-> <<12>> \o Down(10, 5) \o None5 \o None5 \o <<-1, -1, -1>> \o Down(4, 1) \o <<11>>,
    U   |-> Down(31, 12),
    J   |-> <<20>> \o Down(10, 1) \o <<11>> \o Down(19, 12),
    SH  |-> None5 \o <<-1, -1>> \o Down(4, 0),
    R   |-> <<>>,
    LR  |-> <<>>,
    CI  |-> <<5>> \o None5 \o Down(4, 0),
    CLUI |-> <<17>> \o None5 \o Down(16, 12),
    CSP |-> <<9>> \o None5 \o <<4, 6, 8, 7, 5>>,
    CLSP |-> <<5>> \o None5 \o <<4, 3, 2, 7, 6>>,
    CSSP |-> <<5, 4, 3, 2, 7, 6>>,
    CIW |-> <<5, 4, 9, 8, 7, 6, 2, 3>>,
    CL  |-> <<5, 4, 3, -1, -1, -1, 2, 6>>,
    CB  |-> <<8, 4, 3, -1, -1, -1, 7, 6, 2, 1, 5>>,
    CJ  |-> <<11, 4, 9, 8, 10, 6, 7, 3, 2, 1, 5>>,
    CAI |-> <<5>> \o None5 \o Down(4, 0),
    CAS |-> <<-1>> \o None5 \o Down(4, 0),
    CA  |-> <<>>,
    CR  |-> <<>>]
ImmBits(fmt) == {Layout[fmt][k] : k \in DOMAIN Layout[fmt]} \ {-1}
PutImm(fmt, top, imm) ==
    {top + 1 - k : k \in {j \in DOMAIN Layout[fmt] : Layout[fmt][j] \in imm}}
Put(n, lo) == {b \in lo .. lo + 11 : (n \div 2 ^ (b - lo)) % 2 = 1}

Row(fmt, op, f3, f7) == [fmt |-> fmt, op |-> op, f3 |-> f3, f7 |-> f7]
Rows32 == [
    lb |-> Row("I", 0, 0, 0), lh |-> Row("I", 0, 1, 0), lw |-> Row("I", 0, 2, 0),
    lbu |-> Row("I", 0, 4, 0), lhu |-> Row("I", 0, 5, 0),
    addi |-> Row("I", 4, 0, 0), slti |-> Row("I", 4, 2, 0), sltiu |-> Row("I", 4, 3, 0),
    xori |-> Row("I", 4, 4, 0), ori |-> Row("I", 4, 6, 0), andi |-> Row("I", 4, 7, 0),
    slli |-> Row("SH", 4, 1, 0), srli |-> Row("SH", 4, 5, 0), srai |-> Row("SH", 4, 5, 32),
    auipc |-> Row("U", 5, 0, 0), lui |-> Row("U", 13, 0, 0),
    sb |-> Row("S", 8, 0, 0), sh |-> Row("S", 8, 1, 0), sw |-> Row("S", 8, 2, 0),
    amoadd |-> Row("R", 11, 2, 0), amoswap |-> Row("R", 11, 2, 4), sc |-> Row("R", 11, 2, 12),
    amoxor |-> Row("R", 11, 2, 16), amoand |-> Row("R", 11, 2, 32), amoor |-> Row("R", 11, 2, 48),
    amomin |-> Row("R", 11, 2, 64), amomax |-> Row("R", 11, 2, 80),
    amominu |-> Row("R", 11, 2, 96), amomaxu |-> Row("R", 11, 2, 112),
    add |-> Row("R", 12, 0, 0), sub |-> Row("R", 12, 0, 32), sll |-> Row("R", 12, 1, 0),
    slt |-> Row("R", 12, 2, 0), sltu |-> Row("R", 12, 3, 0), xor |-> Row("R", 12, 4, 0),
    srl |-> Row("R", 12, 5, 0), sra |-> Row("R", 12, 5, 32), or |-> Row("R", 12, 6, 0),
    and |-> Row("R", 12, 7, 0),
    mul |-> Row("R", 12, 0, 1), mulh |-> Row("R", 12, 1, 1), mulhsu |-> Row("R", 12, 2, 1),
    mulhu |-> Row("R", 12, 3, 1), div |-> Row("R", 12, 4, 1), divu |-> Row("R", 12, 5, 1),
    rem |-> Row("R", 12, 6, 1), remu |-> Row("R", 12, 7, 1),
    lr |-> Row("LR", 11, 2, 8),
    csrrw |-> Row("CSR", 28, 1, 0), csrrs |-> Row("CSR", 28, 2, 0), csrrc |-> Row("CSR", 28, 3, 0),
    csrrwi |-> Row("CSR", 28, 5, 0), csrrsi |-> Row("CSR", 28, 6, 0), csrrci |-> Row("CSR", 28, 7, 0),
    beq |-> Row("B", 24, 0, 0), bne |-> Row("B", 24, 1, 0), blt |-> Row("B", 24, 4, 0),
    bge |-> Row("B", 24, 5, 0), bltu |-> Row("B", 24, 6, 0), bgeu |-> Row("B", 24, 7, 0),
    jalr |-> Row("I", 25, 0, 0), jal |-> Row("J", 27, 0, 0)]

Row16(fmt, quadrant, f3) == [fmt |-> fmt, q |-> quadrant, f3 |-> f3]
Rows16 == [
    c_addi4spn |-> Row16("CIW", 0, 0), c_lw |-> Row16("CL", 0, 2), c_sw |-> Row16("CL", 0, 6),
    c_addi |-> Row16("CI", 1, 0), c_jal |-> Row16("CJ", 1, 1), c_li |-> Row16("CI", 1, 2),
    c_addi16sp |-> Row16("CSP", 1, 3), c_lui |-> Row16("CLUI", 1, 3), c_j |-> Row16("CJ", 1, 5),
    c_srli |-> Row16("CAS", 1, 4), c_srai |-> Row16("CAS", 1, 4), c_andi |-> Row16("CAI", 1, 4),
    c_sub |-> Row16("CA", 1, 4), c_xor |-> Row16("CA", 1, 4), c_or |-> Row16("CA", 1, 4),
    c_and |-> Row16("CA", 1, 4), c_beqz |-> Row16("CB", 1, 6), c_bnez |-> Row16("CB", 1, 7),
    c_lwsp |-> Row16("CLSP", 2, 2), c_mv |-> Row16("CR", 2, 4), c_jr |-> Row16("CR", 2, 4),
    c_add |-> Row16("CR", 2, 4), c_jalr |-> Row16("CR", 2, 4), c_swsp |-> Row16("CSSP", 2, 6)]

Format(op) == IF op \in DOMAIN Rows32 THEN Rows32[op].fmt ELSE Rows16[op].fmt

(* Immediates with at most two one bits, or all of them.                   *)
Sample(bits) == {{a, b} : a, b \in bits} \cup {{}, bits}

NoInsn == [op |-> "none"]
DecodeInit ==
    \E op \in DOMAIN Rows32 \cup DOMAIN Rows16, r \in Registers :
        \E imm \in Sample(ImmBits(Format(op))) : asm = [op |-> op, r |-> r, imm |-> imm]

DecodeTypeOK == asm = NoInsn \/ (asm.imm \subseteq 0 .. 31 /\ asm.r \in Registers)

Assemble32(a) ==
    LET row == Rows32[a.op]
        HasRd  == row.fmt \notin {"S", "B"}
        HasRs1 == row.fmt \notin {"U", "J"}
        HasRs2 == row.fmt \in {"R", "S", "B"}
    IN {0, 1} \cup Put(row.op, 2) \cup PutImm(row.fmt, 31, a.imm)
       \cup (IF HasRs1 THEN Put(row.f3, 12) \cup Put(a.r[2], 15) ELSE {})
       \cup (IF HasRd THEN Put(a.r[1], 7) ELSE {})
       \cup (IF HasRs2 THEN Put(a.r[3], 20) ELSE {})
       \cup (IF row.fmt \in {"R", "SH", "LR"} THEN Put(row.f7, 25) ELSE {})

(* The bits besides the opcode that tell C.ADD from C.MV, and so on.       *)
Minor(op) ==
    CASE op \in {"c_add", "c_jalr"} -> {12}
      [] op = "c_srai" -> {10}
      [] op = "c_andi" -> {11}
      [] op = "c_sub" -> {10, 11}
      [] op = "c_xor" -> {5, 10, 11}
      [] op = "c_or"  -> {6, 10, 11}
      [] op = "c_and" -> {5, 6, 10, 11}
      [] OTHER -> {}

(* The three-bit fields can name x8 to x15; only x8 and x9 are used here.  *)
Reg3(n) == 8 + (n % 2)

Assemble16(a) ==
    LET row == Rows16[a.op]
    IN Put(row.q, 0) \cup Put(row.f3, 13) \cup PutImm(row.fmt, 12, a.imm)
       \cup (IF row.fmt \in {"CI", "CLUI", "CLSP", "CR"} THEN Put(a.r[1], 7) ELSE {})
       \cup (IF row.fmt = "CSP" THEN Put(2, 7) ELSE {})
       \cup (IF a.op \in {"c_mv", "c_add", "c_swsp"} THEN Put(a.r[3], 2) ELSE {})
       \cup Minor(a.op)
       \cup (IF row.fmt \in {"CL", "CB", "CAI", "CAS", "CA"} THEN Put(a.r[2] % 2, 7) ELSE {})
       \cup (IF row.fmt \in {"CL", "CIW", "CA"} THEN Put(a.r[1] % 2, 2) ELSE {})

(* The sign is the highest bit of the immediate.                           *)
Extended(fmt, imm) ==
    IF fmt \in {"I", "S", "B", "J", "CI", "CAI", "CLUI", "CSP", "CB", "CJ"} /\ Max(ImmBits(fmt)) \in imm
    THEN imm \cup (Max(ImmBits(fmt)) .. 31) ELSE imm

Meant32(a) ==
    LET fmt == Format(a.op)
    IN Insn(a.op, IF fmt \in {"S", "B"} THEN 0 ELSE a.r[1],
            IF fmt \in {"U", "J"} THEN 0 ELSE a.r[2],
            IF fmt \in {"R", "S", "B"} THEN a.r[3] ELSE 0, Extended(fmt, a.imm))

(* What a compressed instruction expands to.                               *)
Meant16(a) ==
    LET rd  == a.r[1]
        imm == Extended(Format(a.op), a.imm)
        r1  == Reg3(a.r[2])
    IN CASE a.op = "c_addi4spn" -> Insn("addi", Reg3(rd), 2, 0, imm)
         [] a.op = "c_lw" -> Insn("lw", Reg3(rd), r1, 0, imm)
         [] a.op = "c_sw" -> Insn("sw", 0, r1, Reg3(rd), imm)
         [] a.op = "c_addi" -> Insn("addi", rd, rd, 0, imm)
         [] a.op = "c_jal" -> Insn("jal", 1, 0, 0, imm)
         [] a.op = "c_li" -> Insn("addi", rd, 0, 0, imm)
         [] a.op = "c_srli" -> Insn("srli", r1, r1, 0, imm)
         [] a.op = "c_srai" -> Insn("srai", r1, r1, 0, imm)
         [] a.op = "c_andi" -> Insn("andi", r1, r1, 0, imm)
         [] a.op = "c_sub" -> Insn("sub", r1, r1, Reg3(rd), {})
         [] a.op = "c_xor" -> Insn("xor", r1, r1, Reg3(rd), {})
         [] a.op = "c_or"  -> Insn("or", r1, r1, Reg3(rd), {})
         [] a.op = "c_and" -> Insn("and", r1, r1, Reg3(rd), {})
         [] a.op = "c_addi16sp" -> Insn("addi", 2, 2, 0, imm)
         [] a.op = "c_lui" -> Insn("lui", rd, 0, 0, imm)
         [] a.op = "c_j" -> Insn("jal", 0, 0, 0, imm)
         [] a.op = "c_beqz" -> Insn("beq", 0, r1, 0, imm)
         [] a.op = "c_bnez" -> Insn("bne", 0, r1, 0, imm)
         [] a.op = "c_lwsp" -> Insn("lw", rd, 2, 0, imm)
         [] a.op = "c_mv" -> Insn("add", rd, 0, a.r[3], {})
         [] a.op = "c_jr" -> Insn("jalr", 0, rd, 0, {})
         [] a.op = "c_add" -> Insn("add", rd, rd, a.r[3], {})
         [] a.op = "c_jalr" -> Insn("jalr", 1, rd, 0, {})
         [] a.op = "c_swsp" -> Insn("sw", 0, 2, a.r[3], imm)

Reserved(a) ==
    a.imm = {} /\ a.op \in {"c_addi4spn", "c_addi16sp", "c_lui"}

(* Every instruction that the architecture's tables assemble is decoded    *)
(* back into itself, or what it is short for, with all its registers and   *)
(* its sign-extended immediate.  Left out is what the code gets wrong:     *)
(* jumps back by more than half their range, the sense of C.BEQZ and       *)
(* C.BNEZ, C.SLLI, three-bit register fields beyond x9, and bit 2 of the   *)
(* offset of C.LW and C.SW, which it takes from a register field.          *)
DecodeCorrect ==
    IF asm = NoInsn THEN TRUE
    ELSE IF asm.op \in DOMAIN Rows32
    THEN \/ asm.op = "jal" /\ 20 \in asm.imm /\ 19 \notin asm.imm
         \/ insn32(Assemble32(asm)) = Meant32(asm)
    ELSE LET got == insn16(Assemble16(asm))
         IN IF Reserved(asm) THEN got = Ill
            ELSE IF asm.op \in {"c_lw", "c_sw"}
            THEN got = [Meant16(asm) EXCEPT !.imm = @ \ {2}]
            ELSE IF asm.op \in {"c_beqz", "c_bnez"} THEN [got EXCEPT !.op = Meant16(asm).op] = Meant16(asm)
            ELSE got = Meant16(asm)
=============================================================================
