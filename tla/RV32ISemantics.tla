---------------------------- MODULE RV32ISemantics ----------------------------
(***************************************************************************)
(* The data semantics of one RV32I instruction, as the semantic functions  *)
(* of riscv_semantic_functions/solution/rv32i_instructions.cc compute it   *)
(* through the operand getters of riscv_full_decoder/solution/            *)
(* riscv32i_encoding.cc.                                                   *)
(*                                                                         *)
(* The code computes in uint32_t, casting to int32_t (sra, blt, bge) and   *)
(* from int8_t/int16_t (lb, lh).  Here the width is the constant XLEN of   *)
(* RV32IReference: uint32_t is XLEN-bit unsigned arithmetic, int8_t and    *)
(* int16_t are XLEN/4 and XLEN/2 bits, and the shift mask 0x1f is         *)
(* XLEN - 1.  With XLEN = 32 the definitions are the code's; the model is  *)
(* checked at a smaller XLEN, since TLC's integers are 32-bit signed.     *)
(* Immediates are the uint32_t values their ImmediateOperand yields.       *)
(***************************************************************************)
EXTENDS Integers, Bitwise, RV32IReference

CONSTANTS
    Vals,     \* register and memory values to try
    PcVals,   \* instruction addresses to try
    Imms      \* immediate operands to try (as unsigned values)

W == 2^XLEN

\* uint32_t arithmetic.
Wrap(x) == x % W

\* The value of a uint32_t read as int32_t.
Signed(x) == IF x >= 2^(XLEN - 1) THEN x - W ELSE x

-----------------------------------------------------------------------------
(* Operand getters (riscv32i_encoding.cc lines 106-140): register 0 as a   *)
(* source is the literal 0, as a destination a DevNull operand.           *)

ReadRs(regs, n) == IF n = 0 THEN 0 ELSE regs[n]

WriteRd(regs, n, v) == IF n = 0 THEN regs ELSE [regs EXCEPT ![n] = v]

-----------------------------------------------------------------------------
(* Semantic functions (rv32i_instructions.cc). *)

\* b & 0x1f
ShAmt(b) == b % XLEN

(* Mutant of Shl: the shift computed without truncation to the width. *)
ShlNoWrap(a, s) == a * 2^s

\* a << s in uint32_t: the bits shifted past the top are lost.
Shl(a, s) == (a % 2^(XLEN - s)) * 2^s

(* Mutant of Sra: the lambda takes uint32_t, a logical shift. *)
SraLogical(a, b) == a \div 2^ShAmt(b)

\* RV32ISra: int32_t >> (b & 0x1f), an arithmetic (flooring) shift.
Sra(a, b) == Wrap(Signed(a) \div 2^ShAmt(b))

\* RV32IAdd .. RV32IXor (lines 48-91), shared by the immediate forms.
AluOps == {"add", "and", "or", "sll", "sltu", "sra", "srl", "sub", "xor"}
Alu(op, a, b) ==
    CASE op = "add"  -> Wrap(a + b)
      [] op = "and"  -> a & b
      [] op = "or"   -> a | b
      [] op = "sll"  -> Shl(a, ShAmt(b))
      [] op = "sltu" -> IF a < b THEN 1 ELSE 0
      [] op = "sra"  -> Sra(a, b)
      [] op = "srl"  -> a \div 2^ShAmt(b)
      [] op = "sub"  -> Wrap(a - b)
      [] op = "xor"  -> a ^^ b

\* BranchConditional's comparisons: beq, bne, bltu, bgeu on uint32_t;
\* blt, bge on int32_t.
BranchOps == {"beq", "bne", "blt", "bge", "bltu", "bgeu"}
Taken(op, a, b) ==
    CASE op = "beq"  -> a = b
      [] op = "bne"  -> a # b
      [] op = "blt"  -> Signed(a) < Signed(b)
      [] op = "bge"  -> Signed(a) >= Signed(b)
      [] op = "bltu" -> a < b
      [] op = "bgeu" -> a >= b

\* LoadValue / LoadValueChild: the loaded ValueType is cast to uint32_t,
\* sign-extending int8_t and int16_t.  Memory is little-endian: a load of
\* n bytes at the word's address reads its low n bytes.
LoadOps == {"lb", "lbu", "lh", "lhu", "lw"}
LoadBits(op) == CASE op \in {"lb", "lbu"} -> ByteBits
                  [] op \in {"lh", "lhu"} -> HalfBits
                  [] OTHER                -> XLEN
Load(op, word) ==
    LET n == LoadBits(op)
        m == word % 2^n
    IN  IF op \in {"lb", "lh"} /\ m >= 2^(n - 1) THEN Wrap(m - 2^n) ELSE m

\* StoreValue: the ValueType low bytes of the value replace those of the word.
StoreOps == {"sb", "sh", "sw"}
StoreBits(op) == CASE op = "sb" -> ByteBits [] op = "sh" -> HalfBits [] OTHER -> XLEN
Store(op, word, v) ==
    LET k == 2^StoreBits(op) IN (word \div k) * k + (v % k)

\* RV32IJalr: target = offset + reg_base (bit 0 left as computed).
JalrTarget(base, off) == Wrap(off + base)

-----------------------------------------------------------------------------
(* The buffers a load or store allocates.  LoadValue allocates value_db   *)
(* and a LoadContext holding it, and passes both to LoadMemory; the       *)
(* memory copies the word into value_db and, the buffer's latency being   *)
(* 0, runs the child instruction at once with the context, so the child   *)
(* reads context->value_db while LoadValue still holds the context.       *)
(* StoreValue allocates a buffer that StoreMemory copies from.  A count   *)
(* below zero is a DecRef of an object already released.                 *)
Objs == {"value_db", "context", "store_db"}
Null == "null"

\* DataBufferFactory::Allocate / new LoadContext: one reference.
Alloc(r, o) == [r EXCEPT ![o] = 1]
DecRef(r, o) == [r EXCEPT ![o] = @ - 1]

\* ~LoadContext: release value_db if it is still set.
CtxDestroy(r, vdb) == IF vdb # Null THEN DecRef(r, vdb) ELSE r

(* Mutant of CtxOnZero: value_db is released but not reset to nullptr. *)
CtxOnZeroKeep(r, vdb) == CtxDestroy(IF vdb # Null THEN DecRef(r, vdb) ELSE r, vdb)

\* LoadContext::OnRefCountIsZero: release value_db, reset it to nullptr,
\* then ReferenceCount::OnRefCountIsZero deletes the context.
CtxOnZero(r, vdb) == CtxDestroy(IF vdb # Null THEN DecRef(r, vdb) ELSE r, Null)

\* context->DecRef(): dropping the last reference calls OnRefCountIsZero.
CtxDecRef(r) ==
    LET r1 == DecRef(r, "context")
    IN  IF r1["context"] = 0 THEN CtxOnZero(r1, "value_db") ELSE r1

\* LoadValue: Allocate, new LoadContext(db), LoadMemory (the child runs in
\* it), context->DecRef().  LoadValue never releases db itself: its
\* reference passes to the context.
LoadRefs(r) == CtxDecRef(Alloc(Alloc(r, "value_db"), "context"))

\* StoreValue: Allocate, StoreMemory (the memory copies the data), DecRef.
StoreRefs(r) == DecRef(Alloc(r, "store_db"), "store_db")

(* One instruction: its class, destination, sources and immediate. *)
Ops == AluOps \cup BranchOps \cup LoadOps \cup StoreOps
       \cup {"lui", "auipc", "jal", "jalr"}

\* The reference counts after the semantic function of i.
BufferRefs(i, r) ==
    CASE i.op \in LoadOps  -> LoadRefs(r)
      [] i.op \in StoreOps -> StoreRefs(r)
      [] OTHER             -> r

\* The machine state after executing i at pc: registers, pc and memory.
\* A pc of Wrap(pc + 4) is the run loop's fall-through.
Execute(i, regs, pc, mem) ==
    LET a    == ReadRs(regs, i.rs1)
        b    == ReadRs(regs, i.rs2)
        seq  == Wrap(pc + 4)
        R(v) == WriteRd(regs, i.rd, v)
    IN  CASE i.op \in AluOps ->
               [regs |-> R(Alu(i.op, a, b)), pc |-> seq, mem |-> mem]
          [] i.op = "lui" ->
               [regs |-> R(i.imm), pc |-> seq, mem |-> mem]
          [] i.op = "auipc" ->
               [regs |-> R(Wrap(i.imm + pc)), pc |-> seq, mem |-> mem]
          [] i.op \in BranchOps ->
               [regs |-> regs,
                pc   |-> IF Taken(i.op, a, b) THEN Wrap(i.imm + pc) ELSE seq,
                mem  |-> mem]
          [] i.op = "jal" ->
               [regs |-> R(seq), pc |-> Wrap(i.imm + pc), mem |-> mem]
          [] i.op = "jalr" ->
               [regs |-> R(seq), pc |-> JalrTarget(a, i.imm), mem |-> mem]
          [] i.op \in LoadOps ->
               [regs |-> R(Load(i.op, mem)), pc |-> seq, mem |-> mem]
          [] i.op \in StoreOps ->
               [regs |-> regs, pc |-> seq, mem |-> Store(i.op, mem, b)]

-----------------------------------------------------------------------------
(* One instruction executed by the run loop: the decoded instruction and   *)
(* the architectural state it reads, then the state its semantic function  *)
(* and the pc update leave.  Registers x0..x2 suffice: a source that is   *)
(* x0, a source that is not, and a destination that is or is not x0.  The *)
(* x0 register object itself may hold any value (WriteRegister("x0")).    *)
(* Loads and stores address the one memory word (the effective address   *)
(* base + offset is not observed).                                        *)

Regs == 0 .. 2

Instrs ==
    LET I(o, d, s, t, m) == [op |-> o, rd |-> d, rs1 |-> s, rs2 |-> t, imm |-> m]
    IN  {I(o, d, s, t, 0) : o \in AluOps, d \in {0, 1}, s \in {0, 1}, t \in {0, 2}}
        \cup {I(o, d, 0, 0, m) : o \in {"lui", "auipc", "jal"}, d \in {0, 1}, m \in Imms}
        \cup {I(o, 0, s, t, m) : o \in BranchOps, s \in {0, 1}, t \in {0, 2}, m \in Imms}
        \cup {I("jalr", d, s, 0, m) : d \in {0, 1}, s \in {0, 1}, m \in Imms}
        \cup {I(o, d, 0, 0, 0) : o \in LoadOps, d \in {0, 1}}
        \cup {I(o, 0, 0, t, 0) : o \in StoreOps, t \in {0, 2}}

\* The instructions whose outcome depends on the pc, or on memory.
UsesPc(i) == i.op \in BranchOps \cup {"auipc", "jal", "jalr"}
UsesMem(i) == i.op \in LoadOps \cup StoreOps

VARIABLES inst, regs, pc, mem, executed,
          refs   \* reference counts of the buffers: [Objs -> Int]

semVars == <<inst, regs, pc, mem, executed, refs>>

SemTypeOK ==
    /\ inst \in Instrs
    /\ regs \in [Regs -> 0 .. W - 1]
    /\ pc \in 0 .. W - 1
    /\ mem \in 0 .. W - 1
    /\ executed \in BOOLEAN
    /\ refs \in [Objs -> Int]

SemInit ==
    /\ inst \in Instrs
    /\ regs \in [Regs -> Vals]
    /\ pc \in IF UsesPc(inst) THEN PcVals ELSE {0}
    /\ mem \in IF UsesMem(inst) THEN Vals ELSE {0}
    /\ executed = FALSE
    /\ refs = [o \in Objs |-> 0]

\* The semantic function runs and its destination writes (and the
\* run loop's pc update) take effect.
Exec ==
    /\ ~executed
    /\ LET s == Execute(inst, regs, pc, mem)
       IN  /\ regs' = s.regs
           /\ pc' = s.pc
           /\ mem' = s.mem
    /\ refs' = BufferRefs(inst, refs)
    /\ executed' = TRUE
    /\ UNCHANGED inst

SemSpec == SemInit /\ [][Exec]_semVars

-----------------------------------------------------------------------------
(* Properties. *)

(* Every instruction but jalr leaves the registers, the pc and the memory
   word as the RV32I definition says: uint32_t wrap-around, the int32_t
   casts of sra, blt and bge, the int8_t/int16_t casts of the load
   children, the partial stores, and x0 read as the literal 0 and written
   to DevNull.  For jalr, the link register and memory agree, and the
   target agrees in every bit but bit 0, which RV32IJalr does not clear. *)
ExecMatchesReference ==
    [][~executed /\ executed' =>
         LET r == RefExecute(inst, regs, pc, mem)
         IN  /\ regs' = r.regs
             /\ mem' = r.mem
             /\ IF inst.op = "jalr" THEN pc' \div 2 = r.pc \div 2 ELSE pc' = r.pc
      ]_semVars

(* Every buffer a load or store allocates is released exactly once: after
   the instruction, value_db, the LoadContext and the store buffer are all
   back to no reference, none leaked and none DecRef'd after its release.
   For a load this needs the hand-over of value_db to the context, the
   context's last DecRef calling OnRefCountIsZero, and OnRefCountIsZero
   resetting value_db so that ~LoadContext does not release it again
   (riscv_simple_state.h lines 50-61). *)
BuffersReleased == \A o \in Objs : refs[o] = 0
=============================================================================
