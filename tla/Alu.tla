-------------------------------- MODULE Alu --------------------------------
(***************************************************************************)
(* What the instructions of both cores compute, besides the arithmetic of  *)
(* Arith: the mx_ functions of sys161/mipseb/mipscore.h and the rx_do_     *)
(* functions of riscv/riscvcore.h for logic and shifts, and the byte lanes *)
(* of their loads and stores.                                              *)
(*                                                                         *)
(* Words have W bits, 32 in the code.  Memory accesses move whole bytes,   *)
(* so there a byte is not a number: it is the set of the bytes that were   *)
(* ORed into it, {} for zero, and a word is a sequence of four.            *)
(***************************************************************************)
EXTENDS Arith, Sequences, Bitwise

CONSTANTS
    W            \* bits in a word

ASSUME AluAssumption == W \in Nat \ {0} /\ SIGN = 2 ^ (W - 1)

VARIABLES
    alu          \* the operands of an instruction: x, y and an address offset o

aluVars == <<alu>>

Shl(x, n) == Unsigned(x * 2 ^ n)
Shr(x, n) == x \div 2 ^ n

(* Mutant: the mask starts two bits too high.                              *)
signedshift_short(x, n) ==
    IF x >= SIGN THEN Shr(x, n) | Shl(Ones, W + 1 - n) ELSE Shr(x, n)

(* signedshift, the same in both cores.                                    *)
signedshift(x, n) ==
    IF x >= SIGN THEN Shr(x, n) | Shl(Ones, W - 1 - n) ELSE Shr(x, n)

-----------------------------------------------------------------------------
(***************************************************************************)
(* MIPS.  x is rs, y is rt or the immediate; shifts are of y by x.         *)
(***************************************************************************)
mx_and(x, y)  == x & y                              \* and, andi
mx_lui(x, y)  == Shl(y, W \div 2)
mx_nor(x, y)  == Ones - (x | y)
mx_or(x, y)   == x | y                              \* or, ori
mx_sll(x, y)  == Shl(y, x % W)                      \* sll, sllv
mx_sra(x, y)  == signedshift(y, x % W)              \* sra, srav
mx_srl(x, y)  == Shr(y, x % W)                      \* srl, srlv
mx_xor(x, y)  == x ^^ y                             \* xor, xori

-----------------------------------------------------------------------------
(***************************************************************************)
(* RISC-V.  x is rs1, y is rs2 or the immediate.                           *)
(***************************************************************************)
rx_do_andi(x, y)  == x & y
rx_do_ori(x, y)   == x | y
rx_do_xori(x, y)  == x ^^ y
rx_do_slli(x, y)  == Shl(x, y % W)
rx_do_srli(x, y)  == Shr(x, y % W)
rx_do_srai(x, y)  == signedshift(x, y % W)
rx_do_lui(x, y)   == y
rx_do_and(x, y)   == x & y
rx_do_or(x, y)    == x | y
rx_do_xor(x, y)   == x ^^ y
rx_do_sll(x, y)   == Shl(x, y % W)
rx_do_srl(x, y)   == Shr(x, y % W)
rx_do_sra(x, y)   == signedshift(x, y % W)

(* What the atomic operations store; x is what was in memory.              *)
rx_do_amoand(x, y)  == x & y
rx_do_amoor(x, y)   == x | y
rx_do_amoxor(x, y)  == x ^^ y

-----------------------------------------------------------------------------
(***************************************************************************)
(* Bytes.  Memory is two words; a register is four bytes.                  *)
(***************************************************************************)
Lanes  == 1 .. 4
Zero   == {}
Mem(a) == {<<"m", a>>}
Reg(i) == {<<"v", i>>}                       \* lane i of the stored register
SignOf(b) == {<<"sign", b>>}

(* (int32_t)(int8_t) and the like, with the most significant byte first.   *)
ExtendBE(s, signed) ==
    [i \in 1 .. 4 - Len(s) |-> IF signed THEN SignOf(Head(s)) ELSE Zero] \o s

(* The MIPS is big-endian: lane 1, the most significant, is byte 0.  m is  *)
(* the word at the address without its offset o, r the register.           *)
mips_doload(ms, m, o, r) ==
    CASE ms \in {"sbyte", "ubyte"} -> ExtendBE(<<m[1 + o]>>, ms = "sbyte")
      [] ms \in {"shalf", "uhalf"} -> ExtendBE(SubSeq(m, 1 + o, 2 + o), ms = "shalf")
      [] ms = "wordl" -> [i \in Lanes |-> IF i <= 4 - o THEN m[i + o] ELSE r[i]]
      [] ms = "wordr" -> [i \in Lanes |-> IF i >= 4 - o THEN m[i + o - 3] ELSE r[i]]

mips_dostore(ms, m, o, r) ==
    CASE ms = "ubyte" -> [m EXCEPT ![1 + o] = r[4]]
      [] ms = "uhalf" -> [m EXCEPT ![1 + o] = r[3], ![2 + o] = r[4]]
      [] ms = "wordl" -> [i \in Lanes |-> IF i > o THEN r[i - o] ELSE m[i]]
      [] ms = "wordr" -> [i \in Lanes |-> IF i <= o + 1 THEN r[i + 3 - o] ELSE m[i]]

(* The RISC-V is little-endian: lane 1, the least significant, is byte 0.  *)
(* m is eight bytes: an access may go over into the next word.             *)
ExtendLE(s, signed) ==
    s \o [i \in 1 .. 4 - Len(s) |-> IF signed THEN SignOf(s[Len(s)]) ELSE Zero]

riscv_doload(ms, m, o) ==
    CASE ms \in {"sbyte", "ubyte"} -> ExtendLE(<<m[1 + o]>>, ms = "sbyte")
      [] ms \in {"shalf", "uhalf"} -> ExtendLE(SubSeq(m, 1 + o, 2 + o), ms = "shalf")
      [] ms = "word" -> SubSeq(m, 1 + o, 4 + o)

(* A misaligned word is put together for a big-endian machine: the first   *)
(* word keeps its o low bytes and is ORed with the register shifted down   *)
(* by o bytes, the second its high bytes and with the register shifted up. *)
SplitStore(m, o, r) ==
    [i \in 1 .. 8 |->
        IF i <= 4 THEN (IF i <= o THEN m[i] ELSE Zero)
                       \cup (IF i + o <= 4 THEN r[i + o] ELSE Zero)
        ELSE LET j == i - 4
             IN (IF j > o THEN m[i] ELSE Zero)
                \cup (IF j > 4 - o THEN r[j - (4 - o)] ELSE Zero)]

riscv_dostore(ms, m, o, r) ==
    CASE ms = "ubyte" -> [m EXCEPT ![1 + o] = r[1]]
      [] ms = "uhalf" -> [m EXCEPT ![1 + o] = r[1], ![2 + o] = r[2]]
      [] ms = "word" /\ o = 0 -> r \o SubSeq(m, 5, 8)
      [] ms = "word" /\ o # 0 -> SplitStore(m, o, r)

-----------------------------------------------------------------------------
(* An instruction's operands and the offset of its address are arbitrary.  *)
NoOperands == [x |-> -1, y |-> -1, o |-> 0]
AluInit == alu \in [x : WordW, y : WordW, o : 0 .. 3]

AluTypeOK == alu = NoOperands \/ (alu.x \in WordW /\ alu.y \in WordW /\ alu.o \in 0 .. 3)

-----------------------------------------------------------------------------
BitOf(x, i) == (x \div 2 ^ i) % 2 = 1
Bitwise3(x, y, r, R(_, _)) == \A i \in 0 .. W - 1 : BitOf(r, i) = R(BitOf(x, i), BitOf(y, i))

Logic(x, y) ==
    /\ \A r \in {mx_and(x, y), rx_do_andi(x, y), rx_do_and(x, y), rx_do_amoand(x, y)} :
         Bitwise3(x, y, r, LAMBDA a, b : a /\ b)
    /\ \A r \in {mx_or(x, y), rx_do_ori(x, y), rx_do_or(x, y), rx_do_amoor(x, y)} :
         Bitwise3(x, y, r, LAMBDA a, b : a \/ b)
    /\ \A r \in {mx_xor(x, y), rx_do_xori(x, y), rx_do_xor(x, y), rx_do_amoxor(x, y)} :
         Bitwise3(x, y, r, LAMBDA a, b : a # b)
    /\ Bitwise3(x, y, mx_nor(x, y), LAMBDA a, b : ~(a \/ b))

(* A right shift is a division that rounds down, signed or not.            *)
Shifts(x, y) ==
    LET d == 2 ^ (x % W)
    IN /\ Signed(mx_sra(x, y)) = Signed(y) \div d /\ mx_srl(x, y) = y \div d
       /\ \A r \in {rx_do_sra(y, x), rx_do_srai(y, x)} : r = mx_sra(x, y)
       /\ \A r \in {rx_do_srl(y, x), rx_do_srli(y, x)} : r = mx_srl(x, y)
       /\ \A r \in {rx_do_sll(y, x), rx_do_slli(y, x), mx_sll(x, y)} :
            r % d = 0 /\ Shr(r, x % W) = y % 2 ^ (W - (x % W))
       /\ mx_lui(x, y) % 2 ^ (W \div 2) = 0 /\ rx_do_lui(x, y) = y

Memory == [i \in 1 .. 8 |-> Mem(i)]
Register == [i \in Lanes |-> Reg(i)]

(* LWL at an address and LWR at its third successor load the word there,   *)
(* whatever its alignment, and SWL and SWR store it and nothing else; the  *)
(* other accesses are of the bytes they name.  RISC-V accesses may be      *)
(* misaligned, except for stores of words, which the code gets wrong.      *)
Lane(o) ==
    LET first  == SubSeq(Memory, 1, 4)
        second == SubSeq(Memory, 5, 8)
        Right(ms, f(_, _, _, _), r) ==    \* the access at o + 3
            f(ms, IF o = 0 THEN first ELSE second, (o + 3) % 4, r)
        stored == mips_dostore("wordl", first, o, Register)
    IN /\ Right("wordr", mips_doload, mips_doload("wordl", first, o, Register))
            = SubSeq(Memory, 1 + o, 4 + o)
       /\ IF o = 0 THEN mips_dostore("wordr", stored, 3, Register) = Register
          ELSE stored \o Right("wordr", mips_dostore, Register)
                 = SubSeq(Memory, 1, o) \o Register \o SubSeq(Memory, o + 5, 8)
       /\ \A ms \in {"ubyte", "sbyte"} : mips_doload(ms, first, o, Register)[4] = Mem(o + 1)
       /\ mips_doload("ubyte", mips_dostore("ubyte", first, o, Register), o, Register)[4] = Reg(4)
       /\ o % 2 = 0 => mips_doload("shalf", first, o, Register)
                         = <<SignOf(Mem(o + 1)), SignOf(Mem(o + 1)), Mem(o + 1), Mem(o + 2)>>
       /\ riscv_doload("word", Memory, o) = SubSeq(Memory, o + 1, o + 4)
       /\ riscv_doload("shalf", Memory, o)
            = <<Mem(o + 1), Mem(o + 2), SignOf(Mem(o + 2)), SignOf(Mem(o + 2))>>
       /\ \A ms \in {"ubyte", "uhalf", "word"} :
            ms # "word" \/ o = 0 =>
              LET n == CASE ms = "ubyte" -> 1 [] ms = "uhalf" -> 2 [] ms = "word" -> 4
              IN riscv_dostore(ms, Memory, o, Register)
                   = SubSeq(Memory, 1, o) \o SubSeq(Register, 1, n) \o SubSeq(Memory, o + n + 1, 8)

(* Both cores compute what the two architectures define, for every pair of *)
(* operands: sums with their overflow traps, logic, shifts built from      *)
(* masks, double-word products by magnitude and sign, quotients at the     *)
(* edges of the range, comparisons, atomic operations, and the byte lanes  *)
(* of partial-word accesses in both byte orders.                           *)
AluCorrect ==
    alu # NoOperands =>
        /\ Sums(alu.x, alu.y) /\ Logic(alu.x, alu.y) /\ Shifts(alu.x, alu.y)
        /\ Products(alu.x, alu.y) /\ Quotients(alu.x, alu.y) /\ Orders(alu.x, alu.y)
        /\ Lane(alu.o)
=============================================================================
