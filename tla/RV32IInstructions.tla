-------------------------- MODULE RV32IInstructions --------------------------
(***************************************************************************)
(* What an RV32I instruction does to control flow, as the semantic        *)
(* functions of riscv_semantic_functions/solution/rv32i_instructions.cc    *)
(* and the ebreak handler chain of other/riscv_simple_state.cc do it.     *)
(*                                                                         *)
(* Data is abstracted away: an instruction is its control class and, for   *)
(* a branch or jal, the absolute target (offset + address, folded at      *)
(* decode).  A branch condition reads registers the model does not keep,   *)
(* so a branch may be taken or not.  Addresses are word indices 0 ..       *)
(* NumAddr-1; the fall-through successor wraps as the uint32_t next_pc of  *)
(* the run loop wraps at 2^32.                                             *)
(***************************************************************************)
EXTENDS Integers

CONSTANT NumAddr

ASSUME NumAddr \in Nat \ {0}

Addr == 0 .. NumAddr - 1

\* An instruction object: its class and its jump target (0 when unused).
Inst(op, t) == [op |-> op, target |-> t]

\* ALU, lui, auipc, loads and ordinary stores: they never write the pc.
Alu == Inst("alu", 0)
\* The program's own ebreak (RV32IEbreak).
EBreak == Inst("ebreak", 0)
\* A store to the semihosting tohost word (StoreValue through the watcher).
ToHost == Inst("tohost", 0)
\* The ebreak the breakpoint manager puts at an enabled breakpoint.  It runs
\* RV32IEbreak exactly like a program ebreak; it is a distinct value so the
\* model can tell the architectural program from the debugger's overlay.
Trap == Inst("trap", 0)
\* A store (sw, sh, sb) whose effective address is program word t: the
\* program writes into its own code through RiscVState::StoreMemory.
StoreCode(t) == Inst("store", t)
Branch(t) == Inst("branch", t)
Jal(t) == Inst("jal", t)

Instr == {Alu, EBreak, ToHost} \cup
         UNION {{Branch(t), Jal(t), StoreCode(t)} : t \in Addr}

\* Halt reasons of CoreDebugInterface, as RequestHalt receives them.
HaltReasons == {"None", "UserRequest", "SoftwareBreakpoint", "SemihostHaltRequest"}

\* The outcome of one Execute(): the value submitted to the pc destination
\* operand (NoPcWrite when none), the halt it requested ("None" if none)
\* and the program word it stored into (NoStore when none).
NoPcWrite == -1
NoStore == -1
Outcome(p, h) == [pc |-> p, halt |-> h, st |-> NoStore]

(* Mutant of Succ: next_pc + size computed in a wider type than uint32_t. *)
SuccNoWrap(a) == a + 1

\* next_pc += inst->size(): uint32_t arithmetic, wrapping.
Succ(a) == (a + 1) % NumAddr

\* The ebreak handler registered by RV32ITop: it claims an ebreak at an
\* address that has a breakpoint record (enabled or not), requesting a
\* software-breakpoint halt.
EBreakHandler(hasBp) == hasBp

\* RiscVState::EBreak: the first handler that claims the ebreak decides;
\* when none does, the ebreak is treated as a nop.
EBreakHalt(hasBp) == IF EBreakHandler(hasBp) THEN "SoftwareBreakpoint" ELSE "None"

\* The outcomes of executing instruction i at address a.  hasBp: the
\* breakpoint manager has a record at a; semihost: semihosting is set up.
Effects(i, hasBp, semihost) ==
    CASE i.op = "alu"    -> {Outcome(NoPcWrite, "None")}
      [] i.op = "branch" -> {Outcome(i.target, "None"), Outcome(NoPcWrite, "None")}
      [] i.op = "jal"    -> {Outcome(i.target, "None")}
      [] i.op \in {"ebreak", "trap"} -> {Outcome(NoPcWrite, EBreakHalt(hasBp))}
      [] i.op = "store"  -> {[pc |-> NoPcWrite, halt |-> "None", st |-> i.target]}
      [] i.op = "tohost" ->
           {Outcome(NoPcWrite, IF semihost THEN "SemihostHaltRequest" ELSE "None")}

\* The run loop's next_pc after executing at a: the submitted pc if the
\* instruction replaced the pc data buffer, else the fall-through address.
NextPc(a, o) == IF o.pc = NoPcWrite THEN Succ(a) ELSE o.pc

\* The memory after outcome o: StoreMemory writes memory_ (or the watcher
\* over it, which passes a store outside tohost through) and nothing else:
\* the decode cache is not told, and FenceI (riscv_simple_state.cc:97)
\* is an empty TODO.  The word stored is register data: one of W.
Stored(mem, o, W) ==
    IF o.st = NoStore THEN {mem} ELSE {[mem EXCEPT ![o.st] = v] : v \in W}
=============================================================================
