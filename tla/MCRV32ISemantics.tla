--------------------------- MODULE MCRV32ISemantics ---------------------------
(* RV32ISemantics at XLEN = 16 (a byte is 4 bits, a halfword 8).  Operand *)
(* values: zero, one, 17 (low log2(XLEN) bits 1 but above XLEN - 1: the   *)
(* shift mask), the signed extremes 2^15 - 1 and 2^15 (overflow, sra,     *)
(* blt/bge against bltu/bgeu) and all ones; 2^15 - 1 has a negative byte *)
(* and halfword (lb, lh), 17 a positive one.  Immediates are +4 and -4    *)
(* and an odd one for jalr; a pc near 2^XLEN makes pc + imm and pc + 4    *)
(* wrap.                                                                   *)
EXTENDS RV32ISemantics

MCXlen == 16
MCVals == {0, 1, 17, 2^15 - 1, 2^15, 2^16 - 1}
MCPcVals == {0, 2^16 - 4}
MCImms == {4, 2^16 - 4, 3}
=============================================================================
