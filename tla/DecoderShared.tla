----------------------------- MODULE DecoderShared -----------------------------
(***************************************************************************)
(* The decoder's shared scratch state under the two threads that reach it  *)
(* through the decode cache: the Run worker fetching, and the main thread  *)
(* calling GetDisassembly or GetInstruction (other/rv32i_top.cc).          *)
(*                                                                         *)
(* RiscV32Decoder owns one instruction-word buffer inst_db_ and one        *)
(* RiscV32IEncoding whose inst_word_ and opcode_ hold the word being       *)
(* decoded.  DecodeInstruction loads the word into inst_db_, reads it      *)
(* back and parses it into the encoding; the generated decoder then asks   *)
(* the encoding for the opcode (GetOpcode) and for the operands            *)
(* (GetSource/GetDestination extract fields of inst_word_).  Each is a     *)
(* step here.  A decoded instruction is the opcode and operand word it was *)
(* built from.  Memory does not change, breakpoints are left out, and      *)
(* control flow is abstracted: the worker may fetch any address.           *)
(***************************************************************************)
CONSTANTS
    Addrs,      \* instruction addresses
    Mem,        \* the instruction word at each address: [Addrs -> words]
    Opcode(_),  \* DecodeRiscVInst32: the opcode of an instruction word
    CallWhileRunning  \* whether the debugger calls GetInstruction while the core runs

Callers == {"worker", "main"}

\* Scratch state not yet written.
None == "none"

\* The instruction the ISA decoder builds from opcode o and operand word w.
Decoded(o, w) == [op |-> o, word |-> w]

\* An empty cache slot.
Empty == Decoded(None, None)

VARIABLES
    cache,      \* the decode cache: [Addrs -> decoded instruction or Empty]
    inst_db,    \* RiscV32Decoder::inst_db_
    inst_word,  \* RiscV32IEncoding::inst_word_
    opcode,     \* RiscV32IEncoding::opcode_
    cpc,        \* each caller's position in DecodeInstruction
    caddr,      \* the address each caller decodes
    cop,        \* the opcode each caller's ISA decoder has read
    running,    \* run_status_ = kRunning
    halted      \* halted_

decVars == <<cache, inst_db, inst_word, opcode, cpc, caddr, cop, running, halted>>

\* RV32ITop's constructor: an empty cache; the decoder's buffer allocated,
\* nothing parsed yet.
DecInit ==
    /\ cache = [a \in Addrs |-> Empty]
    /\ inst_db = None /\ inst_word = None /\ opcode = None
    /\ cpc = [c \in Callers |-> "idle"]
    /\ caddr = [c \in Callers |-> CHOOSE a \in Addrs : TRUE]
    /\ cop = [c \in Callers |-> None]
    /\ running = FALSE /\ halted = FALSE

\* GetDecodedInstruction(a) by caller c: a hit returns the cached object and
\* changes nothing; a miss calls DecodeInstruction(a).
Miss(c, a) ==
    /\ cpc[c] = "idle"
    /\ cache[a] = Empty
    /\ cpc' = [cpc EXCEPT ![c] = "load"]
    /\ caddr' = [caddr EXCEPT ![c] = a]

\* The worker's loop fetches while halted_ is clear.
WorkerFetch(a) ==
    /\ running /\ ~halted
    /\ Miss("worker", a)
    /\ UNCHANGED <<cache, inst_db, inst_word, opcode, cop, running, halted>>

\* The loop sees halted_ and the worker sets kHalted.
WorkerStop ==
    /\ running /\ halted /\ cpc["worker"] = "idle"
    /\ running' = FALSE
    /\ UNCHANGED <<cache, inst_db, inst_word, opcode, cpc, caddr, cop, halted>>

Run ==
    /\ ~running /\ cpc["main"] = "idle"
    /\ running' = TRUE /\ halted' = FALSE
    /\ UNCHANGED <<cache, inst_db, inst_word, opcode, cpc, caddr, cop>>

Halt ==
    /\ running /\ ~halted /\ cpc["main"] = "idle"
    /\ halted' = TRUE
    /\ UNCHANGED <<cache, inst_db, inst_word, opcode, cpc, caddr, cop, running>>

(* Mutant of GetDisassembly: the run-status check is dropped. *)
GetDisassemblyUnguarded(a) ==
    /\ Miss("main", a)
    /\ UNCHANGED <<cache, inst_db, inst_word, opcode, cop, running, halted>>

\* GetDisassembly fails unless the core is halted.
GetDisassembly(a) ==
    /\ ~running
    /\ Miss("main", a)
    /\ UNCHANGED <<cache, inst_db, inst_word, opcode, cop, running, halted>>

\* GetInstruction has no run-status check; whether it is called while the
\* core runs is up to the debugger.
GetInstruction(a) ==
    /\ CallWhileRunning \/ ~running
    /\ Miss("main", a)
    /\ UNCHANGED <<cache, inst_db, inst_word, opcode, cop, running, halted>>

\* memory_->Load(address, inst_db_, nullptr, nullptr).
LoadWord(c) ==
    /\ cpc[c] = "load"
    /\ inst_db' = Mem[caddr[c]]
    /\ cpc' = [cpc EXCEPT ![c] = "parse"]
    /\ UNCHANGED <<cache, inst_word, opcode, caddr, cop, running, halted>>

\* iword = inst_db_->Get<uint32_t>(0); riscv_encoding_->ParseInstruction(iword).
Parse(c) ==
    /\ cpc[c] = "parse"
    /\ inst_word' = inst_db
    /\ opcode' = Opcode(inst_db)
    /\ cpc' = [cpc EXCEPT ![c] = "getop"]
    /\ UNCHANGED <<cache, inst_db, caddr, cop, running, halted>>

\* riscv_isa_->Decode asks the encoding for the opcode ...
GetOp(c) ==
    /\ cpc[c] = "getop"
    /\ cop' = [cop EXCEPT ![c] = opcode]
    /\ cpc' = [cpc EXCEPT ![c] = "getopnd"]
    /\ UNCHANGED <<cache, inst_db, inst_word, opcode, caddr, running, halted>>

\* ... then for the operands, extracted from inst_word_; the cache stores
\* the new instruction at the address.
GetOperands(c) ==
    /\ cpc[c] = "getopnd"
    /\ cache' = [cache EXCEPT ![caddr[c]] = Decoded(cop[c], inst_word)]
    /\ cpc' = [cpc EXCEPT ![c] = "idle"]
    /\ cop' = [cop EXCEPT ![c] = None]
    /\ UNCHANGED <<inst_db, inst_word, opcode, caddr, running, halted>>

DecNext ==
    \/ \E a \in Addrs : WorkerFetch(a)
    \/ WorkerStop
    \/ Run
    \/ Halt
    \/ \E a \in Addrs : GetDisassembly(a)
    \/ \E a \in Addrs : GetInstruction(a)
    \/ \E c \in Callers : LoadWord(c) \/ Parse(c) \/ GetOp(c) \/ GetOperands(c)

DecSpec == DecInit /\ [][DecNext]_decVars

-----------------------------------------------------------------------------
(* Properties. *)

(* The decode cache only holds what decoding memory gives (spec 3: staleness
   is never acceptable; concurrent decodes are not supported): every cached
   instruction has the opcode and the operand fields of the word at its
   address.  Breaks when two DecodeInstruction calls interleave on the
   shared inst_db_, inst_word_ and opcode_, so one instruction is built from
   parts of another's word. *)
DecodeFaithful ==
    \A a \in Addrs : cache[a] # Empty => cache[a] = Decoded(Opcode(Mem[a]), Mem[a])
=============================================================================
