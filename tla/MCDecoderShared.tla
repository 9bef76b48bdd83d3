---------------------------- MODULE MCDecoderShared ----------------------------
(* Three instruction words: two with different opcodes, and a third with *)
(* the first one's opcode but other operand fields.                      *)
EXTENDS DecoderShared, TLC

MCAddrs == {0, 1, 2}
MCMem == (0 :> "w_addi_a") @@ (1 :> "w_lw") @@ (2 :> "w_addi_b")
MCOpcode(w) == IF w = "w_lw" THEN "lw" ELSE "addi"
=============================================================================
