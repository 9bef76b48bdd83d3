---------------------------- MODULE RV32IReference ----------------------------
(***************************************************************************)
(* The RV32I base integer instructions as the ISA defines them, on vectors *)
(* of XLEN bits (XLEN = 32 for RV32I; a byte and a halfword are XLEN/4 and *)
(* XLEN/2 bits): x0 reads as zero and ignores writes; arithmetic is two's  *)
(* complement; shifts move bits (sra replicating the top bit) by the low   *)
(* log2(XLEN) bits of the shift operand; signed comparison looks at the    *)
(* top bit; lb/lh replicate the loaded sign bit; jalr clears bit 0 of its  *)
(* target.  Nothing here is taken from the simulator's code: it is the     *)
(* reference RV32ISemantics is compared with.                              *)
(***************************************************************************)
EXTENDS Integers

CONSTANT XLEN   \* register width in bits, a power of two at least 8

Bit(x, k) == (x \div 2^k) % 2

Lanes == 0 .. XLEN - 1
Top == XLEN - 1

ByteBits == XLEN \div 4
HalfBits == XLEN \div 2
ShBits == CHOOSE n \in 0 .. XLEN : 2^n = XLEN

\* The number whose bit k is f[k], for k < n.
RECURSIVE FromBits(_, _)
FromBits(f, n) == IF n = 0 THEN 0 ELSE f[n - 1] * 2^(n - 1) + FromBits(f, n - 1)

Vec(f) == FromBits(f, XLEN)

\* Ripple-carry addition of two vectors, modulo 2^XLEN.
RECURSIVE Carry(_, _, _)
Carry(a, b, k) ==
    IF k = 0 THEN 0
    ELSE LET c == Carry(a, b, k - 1)
         IN  IF Bit(a, k - 1) + Bit(b, k - 1) + c >= 2 THEN 1 ELSE 0
RefAdd(a, b) == Vec([k \in Lanes |-> (Bit(a, k) + Bit(b, k) + Carry(a, b, k)) % 2])

RefNeg(b) == RefAdd(Vec([k \in Lanes |-> 1 - Bit(b, k)]), 1)

RefShamt(b) == FromBits([k \in 0 .. ShBits - 1 |-> Bit(b, k)], ShBits)

RefSll(a, s) == Vec([k \in Lanes |-> IF k >= s THEN Bit(a, k - s) ELSE 0])
RefSrl(a, s) == Vec([k \in Lanes |-> IF k + s <= Top THEN Bit(a, k + s) ELSE 0])
RefSra(a, s) == Vec([k \in Lanes |-> IF k + s <= Top THEN Bit(a, k + s) ELSE Bit(a, Top)])

RefLtu(a, b) == a < b
RefLt(a, b) == IF Bit(a, Top) # Bit(b, Top) THEN Bit(a, Top) = 1 ELSE a < b

RefAlu(op, a, b) ==
    CASE op = "add"  -> RefAdd(a, b)
      [] op = "sub"  -> RefAdd(a, RefNeg(b))
      [] op = "and"  -> Vec([k \in Lanes |-> Bit(a, k) * Bit(b, k)])
      [] op = "or"   -> Vec([k \in Lanes |-> IF Bit(a, k) + Bit(b, k) > 0 THEN 1 ELSE 0])
      [] op = "xor"  -> Vec([k \in Lanes |-> (Bit(a, k) + Bit(b, k)) % 2])
      [] op = "sll"  -> RefSll(a, RefShamt(b))
      [] op = "srl"  -> RefSrl(a, RefShamt(b))
      [] op = "sra"  -> RefSra(a, RefShamt(b))
      [] op = "sltu" -> IF RefLtu(a, b) THEN 1 ELSE 0

RefTaken(op, a, b) ==
    CASE op = "beq"  -> a = b
      [] op = "bne"  -> a # b
      [] op = "blt"  -> RefLt(a, b)
      [] op = "bge"  -> ~RefLt(a, b)
      [] op = "bltu" -> RefLtu(a, b)
      [] op = "bgeu" -> ~RefLtu(a, b)

\* The low n bits of m, sign- or zero-extended.
RefExtend(m, n, signed) ==
    Vec([k \in Lanes |-> IF k < n THEN Bit(m, k)
                         ELSE IF signed THEN Bit(m, n - 1) ELSE 0])

RefLoad(op, word) ==
    CASE op = "lb"  -> RefExtend(word, ByteBits, TRUE)
      [] op = "lbu" -> RefExtend(word, ByteBits, FALSE)
      [] op = "lh"  -> RefExtend(word, HalfBits, TRUE)
      [] op = "lhu" -> RefExtend(word, HalfBits, FALSE)
      [] op = "lw"  -> word

\* sb/sh/sw write the low byte/halfword/word of the value at the word's address.
RefStore(op, word, v) ==
    LET n == CASE op = "sb" -> ByteBits [] op = "sh" -> HalfBits [] OTHER -> XLEN
    IN  Vec([k \in Lanes |-> IF k < n THEN Bit(v, k) ELSE Bit(word, k)])

RefX(regs, n) == IF n = 0 THEN 0 ELSE regs[n]
RefSetX(regs, n, v) == IF n = 0 THEN regs ELSE [regs EXCEPT ![n] = v]

\* The state after instruction i at pc, fields as RV32ISemantics!Execute.
RefExecute(i, regs, pc, mem) ==
    LET a    == RefX(regs, i.rs1)
        b    == RefX(regs, i.rs2)
        seq  == RefAdd(pc, 4)
        R(v) == RefSetX(regs, i.rd, v)
        same == [regs |-> regs, pc |-> seq, mem |-> mem]
    IN  CASE i.op \in {"add", "sub", "and", "or", "xor", "sll", "srl", "sra", "sltu"} ->
               [same EXCEPT !.regs = R(RefAlu(i.op, a, b))]
          [] i.op = "lui" -> [same EXCEPT !.regs = R(i.imm)]
          [] i.op = "auipc" -> [same EXCEPT !.regs = R(RefAdd(i.imm, pc))]
          [] i.op \in {"beq", "bne", "blt", "bge", "bltu", "bgeu"} ->
               IF RefTaken(i.op, a, b) THEN [same EXCEPT !.pc = RefAdd(i.imm, pc)]
               ELSE same
          [] i.op = "jal" -> [regs |-> R(seq), pc |-> RefAdd(i.imm, pc), mem |-> mem]
          [] i.op = "jalr" ->
               [regs |-> R(seq),
                pc   |-> Vec([k \in Lanes |-> IF k = 0 THEN 0 ELSE Bit(RefAdd(a, i.imm), k)]),
                mem  |-> mem]
          [] i.op \in {"lb", "lbu", "lh", "lhu", "lw"} -> [same EXCEPT !.regs = R(RefLoad(i.op, mem))]
          [] i.op \in {"sb", "sh", "sw"} -> [same EXCEPT !.mem = RefStore(i.op, mem, b)]
=============================================================================
