------------------------------ MODULE RunControl ------------------------------
(***************************************************************************)
(* What the debug interface of RV32ITop promises a debugger, as the        *)
(* CoreDebugInterface contract of spec.md sections 4.3 and 6 states it:    *)
(* the core is halted or running; while running, it executes the           *)
(* program's own instructions in program order from where it stopped,      *)
(* and a program store may change the program;                             *)
(* while halted, the debugger may redirect the pc, each write counted,     *)
(* and patch memory; nothing else moves the resume point while halted.   *)
(* Breakpoints, the decode cache and the threads are invisible here.       *)
(* Resuming may execute the first instruction at once: Step and Run begin  *)
(* by stepping over the breakpoint they stopped at.                        *)
(***************************************************************************)
EXTENDS RV32IInstructions

CONSTANTS
    InitMem,  \* the program loaded before the session starts
    InitPc    \* the pc at reset

VARIABLES
    status,   \* "Halted" or "Running" (single-stepping counts as running)
    apc,      \* the address of the program's next instruction
    mem,      \* the program in memory: [Addr -> Instr]
    pcWrites  \* how many times the debugger has written the pc

rcVars == <<status, apc, mem, pcWrites>>

\* One instruction of the program at apc: it goes to one of its successors
\* (a branch may be taken or not) and a store may write any word into the
\* program.
ProgramStep ==
    \E o \in Effects(mem[apc], FALSE, FALSE) :
        /\ apc' = NextPc(apc, o)
        /\ mem' \in Stored(mem, o, Instr)

RCInit ==
    /\ status = "Halted"
    /\ apc = InitPc
    /\ mem = InitMem
    /\ pcWrites = 0

Execute ==
    /\ status = "Running"
    /\ ProgramStep
    /\ UNCHANGED <<status, pcWrites>>

Resume ==
    /\ status = "Halted"
    /\ status' = "Running"
    /\ \/ UNCHANGED <<apc, mem>>
       \/ ProgramStep
    /\ UNCHANGED pcWrites

Stop ==
    /\ status = "Running"
    /\ status' = "Halted"
    /\ UNCHANGED <<apc, mem, pcWrites>>

SetPc(v) ==
    /\ status = "Halted"
    /\ apc' = v
    /\ pcWrites' = pcWrites + 1
    /\ UNCHANGED <<status, mem>>

Patch(a, i) ==
    /\ status = "Halted"
    /\ mem' = [mem EXCEPT ![a] = i]
    /\ UNCHANGED <<status, apc, pcWrites>>

RCNext ==
    \/ Execute
    \/ Resume
    \/ Stop
    \/ \E v \in Addr : SetPc(v)
    \/ \E a \in Addr, i \in Instr : Patch(a, i)

RCSpec == RCInit /\ [][RCNext]_rcVars
=============================================================================
