------------------------------ MODULE MCRV32ITop ------------------------------
(***************************************************************************)
(* Model-checking instance of RV32ITop: a four-word program that has a     *)
(* loop (a branch back to 0), the program's own ebreak and a store to the  *)
(* semihosting tohost word, and falls off its last word back to 0 (the     *)
(* uint32_t wrap of next_pc).                                              *)
(*     0: alu    1: branch -> 0    2: ebreak    3: store tohost            *)
(***************************************************************************)
EXTENDS RV32ITop

MCCode == [a \in Addr |-> CASE a = 0 -> Alu
                            [] a = 1 -> Branch(0)
                            [] a = 2 -> EBreak
                            [] OTHER -> ToHost]

\* The same program with a store into its own first word at 1 (self-
\* modifying code; the ISA has no fence.i, and FenceI would do nothing).
\*     0: alu    1: store -> 0    2: ebreak    3: store tohost
MCSelfModCode == [MCCode EXCEPT ![1] = StoreCode(0)]

\* The debugger may patch an ebreak into the program by hand.
MCPatch == {EBreak}
=============================================================================
