------------------------------- MODULE RV32ITop -------------------------------
(***************************************************************************)
(* The run-control engine of other/rv32i_top.cc: the debug interface      *)
(* (Step, Run, Wait, Halt, register and memory writes, breakpoints,       *)
(* disassembly, semihosting set-up), the detached worker thread that Run   *)
(* starts, and the Halt caller, which is either the interactive shell on   *)
(* the main thread or the SIGINT handler of other/rv32i_sim.cc.           *)
(*                                                                         *)
(* Three kinds of actor interleave:                                        *)
(*   main    - the thread calling the debug interface (mpc: where it is   *)
(*             inside a multi-step call);                                  *)
(*   worker  - one per Run call, w \in Workers (wpc[w]);                   *)
(*   handler - the Halt() caller (hpc), which preempts the main thread     *)
(*             while it runs.                                              *)
(* Calls that return an error without changing state are not actions.     *)
(* archPc is a ghost: the address the program executes next, advanced by  *)
(* every real instruction and redirected by a debugger write of "pc".     *)
(***************************************************************************)
EXTENDS BreakpointManager, FiniteSets

CONSTANTS
    Code,          \* the program in memory at start: [Addr -> Instr]
    BpAddr,        \* addresses the debugger may set breakpoints at
    PatchInstr,    \* instructions the debugger may write into memory
    MaxStep,       \* largest count passed to Step
    MaxRuns,       \* number of Run calls (one worker thread each)
    MaxMemWrites,  \* number of WriteMemory calls
    WriteToHost,   \* the debugger may write an HTIF exit word to tohost
    HaltMode       \* "none", "shell" (Halt between calls) or "signal" (anywhere)

ASSUME /\ Code \in [Addr -> Instr]
       /\ BpAddr \subseteq Addr
       /\ PatchInstr \subseteq Instr
       /\ MaxStep \in Nat \ {0}
       /\ MaxRuns \in Nat
       /\ MaxMemWrites \in Nat
       /\ WriteToHost \in BOOLEAN
       /\ HaltMode \in {"none", "shell", "signal"}

Workers == 1 .. MaxRuns
\* Null for run_halted_ (notification ids are the worker ids).
Null == 0
\* An uninitialized local `uint32_t pc` of a run loop.
Undef == -1

VARIABLES
    code,         \* instruction words in memory (FlatDemandMemory)
    dcache,       \* rv32_decode_cache_
    bp,           \* breakpoint records of rv_bp_manager_
    semihost,     \* SetUpSemiHosting has installed the watcher
    run_status,   \* run_status_
    halt_reason,  \* halt_reason_
    halted,       \* halted_ (plain bool shared with the worker)
    previous_pc,  \* previous_pc_ (uninitialized at construction)
    pc,           \* the pc register's current data buffer value
    run_halted,   \* run_halted_: Null or the id of a live Notification
    notified,     \* the Notification run_halted_ points at has been notified
    runs,         \* Run calls that spawned a worker
    wpc, wnext, wlast,                   \* worker: location, next_pc, pc
    mpc, snum, scount, snext, slast,     \* main thread inside Step/Run/Wait
    hpc,          \* the Halt caller's location
    crashed,      \* the process dereferenced a null notification
    memWrites,    \* WriteMemory calls so far
    archPc        \* ghost: next address of the program's execution

vars == <<code, dcache, bp, semihost, run_status, halt_reason, halted,
          previous_pc, pc, run_halted, notified, runs, wpc, wnext, wlast,
          mpc, snum, scount, snext, slast, hpc, crashed, memWrites, archPc>>

MainPcs == {"idle", "step", "stepEnd", "spawn", "waiting", "destroying", "gone"}
WorkerPcs == {"none", "check", "exec", "exit", "notify", "done"}

TypeOK ==
    /\ code \in [Addr -> Instr]
    /\ dcache \in [Addr -> CacheSlots]
    /\ bp \in [Addr -> BpStates]
    /\ semihost \in BOOLEAN
    /\ run_status \in {"Halted", "Running", "SingleStep"}
    /\ halt_reason \in HaltReasons
    /\ halted \in BOOLEAN
    /\ previous_pc \in Addr
    /\ pc \in Addr
    /\ run_halted \in {Null} \cup Workers
    /\ notified \in BOOLEAN
    /\ runs \in 0 .. MaxRuns
    /\ wpc \in [Workers -> WorkerPcs]
    /\ wnext \in [Workers -> Addr]
    /\ wlast \in [Workers -> Addr \cup {Undef}]
    /\ mpc \in MainPcs
    /\ snum \in 0 .. MaxStep
    /\ scount \in 0 .. MaxStep
    /\ snext \in Addr
    /\ slast \in Addr \cup {Undef}
    /\ hpc \in {"idle", "reason", "flag"}
    /\ crashed \in BOOLEAN
    /\ memWrites \in 0 .. MaxMemWrites
    /\ archPc \in Addr

(* Constructor: pc is 0 (RiscVState), the cache and breakpoints are empty,
   previous_pc_ holds whatever the allocation held. *)
\* The RiscVState constructor gives the pc register a data buffer holding 0.
ResetPc == 0

Init ==
    /\ code = Code
    /\ dcache = [a \in Addr |-> NoInst]
    /\ bp = [a \in Addr |-> "none"]
    /\ semihost = FALSE
    /\ run_status = "Halted"
    /\ halt_reason = "None"
    /\ halted = FALSE
    /\ previous_pc \in Addr
    /\ pc = ResetPc
    /\ run_halted = Null
    /\ notified = FALSE
    /\ runs = 0
    /\ wpc = [w \in Workers |-> "none"]
    /\ wnext = [w \in Workers |-> 0]
    /\ wlast = [w \in Workers |-> Undef]
    /\ mpc = "idle"
    /\ snum = 0
    /\ scount = 0
    /\ snext = 0
    /\ slast = Undef
    /\ hpc = "idle"
    /\ crashed = FALSE
    /\ memWrites = 0
    /\ archPc = ResetPc

-----------------------------------------------------------------------------
(* Helpers shared by the run loops. *)

\* The instruction GetDecodedInstruction(a) returns in the current state.
Fetch(a) == Lookup(dcache, a, Decode(code, bp, a))

\* A value read from an uninitialized `uint32_t pc`: any address.
LoadedPc(l) == IF l = Undef THEN Addr ELSE {l}

\* The ghost program counter after executing i at a with outcome o: the
\* trap leaves the program where it is, a real instruction advances it.
ArchAfter(i, a, o) == IF i = Trap THEN archPc ELSE NextPc(a, o)

\* The pc register after an Execute() with outcome o (Submit of the pc
\* destination operand replaces the register's data buffer).
PcAfter(o) == IF o.pc = NoPcWrite THEN pc ELSE o.pc

\* RequestHalt(reason): first halt_reason_, then halted_.
ReasonAfter(r0, o) == IF o.halt = "None" THEN r0 ELSE o.halt
HaltedAfter(h0, o) == h0 \/ o.halt # "None"

\* The step over a software breakpoint that Step and Run both begin with
\* when the last halt was one: disable the breakpoint at previous_pc_,
\* execute the real instruction there, re-enable the breakpoint if the
\* disable succeeded.  The result records the state after it; h0 is halted_
\* before it.  With any other halt reason nothing is done.
Resume(h0) ==
    IF halt_reason # "SoftwareBreakpoint"
    THEN {[bp |-> bp, dcache |-> dcache, pc |-> pc, halted |-> h0,
           arch |-> archPc, code |-> code]}
    ELSE LET a   == previous_pc
             ok  == HasBreakpoint(bp, a)
             bp1 == IF ok THEN DisableBreakpoint(bp, a) ELSE bp
             c1  == IF ok THEN Invalidate(dcache, {a}) ELSE dcache
             i   == Lookup(c1, a, Decode(code, bp1, a))
             c2  == Fill(c1, a, Decode(code, bp1, a))
         IN  UNION {{[bp     |-> IF ok THEN EnableBreakpoint(bp1, a) ELSE bp1,
                      dcache |-> IF ok THEN Invalidate(c2, {a}) ELSE c2,
                      pc     |-> PcAfter(o),
                      halted |-> HaltedAfter(h0, o),
                      arch   |-> ArchAfter(i, a, o),
                      code   |-> m] : m \in Stored(code, o, PatchInstr)} :
                    o \in Effects(i, HasBreakpoint(bp1, a), semihost)}

\* The main thread runs only while the process lives and no Halt() call
\* preempts it.
MainFree == hpc = "idle" /\ ~crashed

-----------------------------------------------------------------------------
(* Step(num): lines 117-181. *)

StepBegin(n) ==
    /\ mpc = "idle" /\ MainFree
    /\ run_status = "Halted"
    /\ \E r \in Resume(FALSE) :
         LET over == halt_reason = "SoftwareBreakpoint"
             cnt  == IF over THEN 1 ELSE 0
         IN  /\ bp' = r.bp
             /\ dcache' = r.dcache
             /\ pc' = r.pc
             /\ halted' = r.halted
             /\ archPc' = r.arch
             /\ code' = r.code
             /\ halt_reason' = IF over THEN "None" ELSE halt_reason
             /\ run_status' = "SingleStep"
             /\ snum' = n
             /\ scount' = cnt
             /\ snext' = r.pc
             /\ slast' = Undef
             /\ mpc' = IF cnt < n THEN "step" ELSE "stepEnd"
    /\ UNCHANGED <<semihost, previous_pc, run_halted, notified, runs,
                   wpc, wnext, wlast, hpc, crashed, memWrites>>

\* One iteration of the Step loop; it leaves the loop when the count is
\* reached or halted_ is set after the instruction.
StepExec ==
    /\ mpc = "step" /\ MainFree
    /\ LET a == snext
           i == Fetch(a)
       IN  \E o \in Effects(i, HasBreakpoint(bp, a), semihost) :
             /\ dcache' = Fill(dcache, a, Decode(code, bp, a))
             /\ pc' = PcAfter(o)
             /\ halt_reason' = ReasonAfter(halt_reason, o)
             /\ halted' = HaltedAfter(halted, o)
             /\ archPc' = ArchAfter(i, a, o)
             /\ code' \in Stored(code, o, PatchInstr)
             /\ scount' = scount + 1
             /\ slast' = a
             /\ snext' = NextPc(a, o)
             /\ mpc' = IF HaltedAfter(halted, o) \/ scount + 1 >= snum
                       THEN "stepEnd" ELSE "step"
    /\ UNCHANGED <<bp, semihost, run_status, previous_pc, run_halted,
                   notified, runs, wpc, wnext, wlast, snum, hpc,
                   crashed, memWrites>>

\* After the loop: previous_pc_ = pc, the pc register = next_pc, the halt
\* reason cleared unless halted_; Step's locals die with the call.
StepEnd ==
    /\ mpc = "stepEnd" /\ MainFree
    /\ previous_pc' \in LoadedPc(slast)
    /\ pc' = snext
    /\ halt_reason' = IF halted THEN halt_reason ELSE "None"
    /\ run_status' = "Halted"
    /\ mpc' = "idle"
    /\ snum' = 0 /\ scount' = 0 /\ snext' = 0 /\ slast' = Undef
    /\ UNCHANGED <<code, dcache, bp, semihost, halted, run_halted, notified,
                   runs, wpc, wnext, wlast, hpc, crashed, memWrites, archPc>>

-----------------------------------------------------------------------------
(* Run(): lines 183-245.  RunStart is everything up to run_status_ =
   kRunning; RunSpawn clears halted_, allocates run_halted_ (the previous
   one, if Wait never deleted it, is leaked) and starts the detached
   worker.  A SIGINT may arrive between the two. *)

(* Mutant of RunStart: Run does not check that the core is not running. *)
RunStartNoStatusCheck ==
    /\ mpc = "idle" /\ MainFree
    /\ runs < MaxRuns
    /\ \E r \in Resume(halted) :
         /\ bp' = r.bp
         /\ dcache' = r.dcache
         /\ pc' = r.pc
         /\ halted' = r.halted
         /\ archPc' = r.arch
         /\ code' = r.code
         /\ halt_reason' = IF halt_reason = "SoftwareBreakpoint"
                           THEN "None" ELSE halt_reason
    /\ run_status' = "Running"
    /\ mpc' = "spawn"
    /\ UNCHANGED <<semihost, previous_pc, run_halted, notified, runs,
                   wpc, wnext, wlast, snum, scount, snext, slast, hpc,
                   crashed, memWrites>>

RunStart ==
    /\ mpc = "idle" /\ MainFree
    /\ run_status # "Running"
    /\ runs < MaxRuns
    /\ \E r \in Resume(halted) :
         /\ bp' = r.bp
         /\ dcache' = r.dcache
         /\ pc' = r.pc
         /\ halted' = r.halted
         /\ archPc' = r.arch
         /\ code' = r.code
         /\ halt_reason' = IF halt_reason = "SoftwareBreakpoint"
                           THEN "None" ELSE halt_reason
    /\ run_status' = "Running"
    /\ mpc' = "spawn"
    /\ UNCHANGED <<semihost, previous_pc, run_halted, notified, runs,
                   wpc, wnext, wlast, snum, scount, snext, slast, hpc,
                   crashed, memWrites>>

RunSpawn ==
    /\ mpc = "spawn" /\ MainFree
    /\ LET w == runs + 1
       IN  /\ halted' = FALSE
           /\ run_halted' = w
           /\ notified' = FALSE
           /\ runs' = w
           /\ wpc' = [wpc EXCEPT ![w] = "check"]
           /\ wnext' = [wnext EXCEPT ![w] = pc]
    /\ mpc' = "idle"
    /\ UNCHANGED <<code, dcache, bp, semihost, run_status, halt_reason,
                   previous_pc, pc, wlast, snum, scount, snext, slast, hpc,
                   crashed, memWrites, archPc>>

-----------------------------------------------------------------------------
(* The worker thread's loop and exit: lines 219-243. *)

WorkerCheck(w) ==
    /\ ~crashed
    /\ wpc[w] = "check"
    /\ wpc' = [wpc EXCEPT ![w] = IF halted THEN "exit" ELSE "exec"]
    /\ UNCHANGED <<code, dcache, bp, semihost, run_status, halt_reason, halted,
                   previous_pc, pc, run_halted, notified, runs, wnext, wlast,
                   mpc, snum, scount, snext, slast, hpc, crashed,
                   memWrites, archPc>>

WorkerExec(w) ==
    /\ ~crashed
    /\ wpc[w] = "exec"
    /\ LET a == wnext[w]
           i == Fetch(a)
       IN  \E o \in Effects(i, HasBreakpoint(bp, a), semihost) :
             /\ dcache' = Fill(dcache, a, Decode(code, bp, a))
             /\ pc' = PcAfter(o)
             /\ halt_reason' = ReasonAfter(halt_reason, o)
             /\ halted' = HaltedAfter(halted, o)
             /\ archPc' = ArchAfter(i, a, o)
             /\ code' \in Stored(code, o, PatchInstr)
             /\ wlast' = [wlast EXCEPT ![w] = a]
             /\ wnext' = [wnext EXCEPT ![w] = NextPc(a, o)]
    /\ wpc' = [wpc EXCEPT ![w] = "check"]
    /\ UNCHANGED <<bp, semihost, run_status, previous_pc, run_halted,
                   notified, runs, mpc, snum, scount, snext, slast, hpc,
                   crashed, memWrites>>

(* Mutant of WorkerHalt: the pc register gets the loop-local pc, the
   address of the last instruction, instead of next_pc. *)
WorkerHaltStoresPc(w) ==
    /\ ~crashed
    /\ wpc[w] = "exit"
    /\ previous_pc' \in LoadedPc(wlast[w])
    /\ pc' \in LoadedPc(wlast[w])
    /\ run_status' = "Halted"
    /\ wpc' = [wpc EXCEPT ![w] = "notify"]
    /\ UNCHANGED <<code, dcache, bp, semihost, halt_reason, halted, run_halted,
                   notified, runs, wnext, wlast, mpc, snum, scount, snext,
                   slast, hpc, crashed, memWrites, archPc>>

\* After the loop: previous_pc_ = pc; pc register = next_pc; kHalted.
WorkerHalt(w) ==
    /\ ~crashed
    /\ wpc[w] = "exit"
    /\ previous_pc' \in LoadedPc(wlast[w])
    /\ pc' = wnext[w]
    /\ run_status' = "Halted"
    /\ wpc' = [wpc EXCEPT ![w] = "notify"]
    /\ UNCHANGED <<code, dcache, bp, semihost, halt_reason, halted, run_halted,
                   notified, runs, wnext, wlast, mpc, snum, scount, snext,
                   slast, hpc, crashed, memWrites, archPc>>

(* Mutant of WorkerNotify: the worker ends without calling Notify(). *)
WorkerNotifyDropped(w) ==
    /\ ~crashed
    /\ wpc[w] = "notify"
    /\ wpc' = [wpc EXCEPT ![w] = "done"]
    /\ wnext' = [wnext EXCEPT ![w] = 0]
    /\ wlast' = [wlast EXCEPT ![w] = Undef]
    /\ UNCHANGED <<code, dcache, bp, semihost, run_status, halt_reason, halted,
                   previous_pc, pc, run_halted, notified, runs, mpc, snum,
                   scount, snext, slast, hpc, crashed, memWrites, archPc>>

\* run_halted_->Notify(): the member is read now, not when the worker
\* began, so it may be null or a later Run's.  The thread then ends.
WorkerNotify(w) ==
    /\ ~crashed
    /\ wpc[w] = "notify"
    /\ IF run_halted = Null
       THEN crashed' = TRUE /\ UNCHANGED notified
       ELSE notified' = TRUE /\ UNCHANGED crashed
    /\ wpc' = [wpc EXCEPT ![w] = "done"]
    /\ wnext' = [wnext EXCEPT ![w] = 0]
    /\ wlast' = [wlast EXCEPT ![w] = Undef]
    /\ UNCHANGED <<code, dcache, bp, semihost, run_status, halt_reason, halted,
                   previous_pc, pc, run_halted, runs, mpc, snum, scount, snext,
                   slast, hpc, memWrites, archPc>>

-----------------------------------------------------------------------------
(* Wait(): lines 247-261.  Not running: delete run_halted_ and null it.
   Running: block on run_halted_ (null: the process crashes), then delete
   and null it. *)

(* Mutant of WaitBegin: the not-running branch returns without deleting
   run_halted_. *)
WaitBeginNoDelete ==
    /\ mpc = "idle" /\ MainFree
    /\ IF run_status # "Running"
       THEN UNCHANGED <<run_halted, notified, mpc, crashed>>
       ELSE IF run_halted = Null
            THEN crashed' = TRUE /\ UNCHANGED <<run_halted, notified, mpc>>
            ELSE mpc' = "waiting" /\ UNCHANGED <<run_halted, notified, crashed>>
    /\ UNCHANGED <<code, dcache, bp, semihost, run_status, halt_reason, halted,
                   previous_pc, pc, runs, wpc, wnext, wlast, snum, scount,
                   snext, slast, hpc, memWrites, archPc>>

WaitBegin ==
    /\ mpc = "idle" /\ MainFree
    /\ IF run_status # "Running"
       THEN /\ run_halted' = Null
            /\ notified' = FALSE
            /\ UNCHANGED <<mpc, crashed>>
       ELSE IF run_halted = Null
            THEN crashed' = TRUE /\ UNCHANGED <<run_halted, notified, mpc>>
            ELSE mpc' = "waiting" /\ UNCHANGED <<run_halted, notified, crashed>>
    /\ UNCHANGED <<code, dcache, bp, semihost, run_status, halt_reason, halted,
                   previous_pc, pc, runs, wpc, wnext, wlast, snum, scount,
                   snext, slast, hpc, memWrites, archPc>>

WaitEnd ==
    /\ mpc = "waiting" /\ MainFree
    /\ notified
    /\ run_halted' = Null
    /\ notified' = FALSE
    /\ mpc' = "idle"
    /\ UNCHANGED <<code, dcache, bp, semihost, run_status, halt_reason, halted,
                   previous_pc, pc, runs, wpc, wnext, wlast, snum, scount,
                   snext, slast, hpc, crashed, memWrites, archPc>>

-----------------------------------------------------------------------------
(* Halt(): lines 103-115, called by the shell between commands or by the
   SIGINT handler at any point of the main thread.  A call that finds the
   core halted or single-stepping returns without effect. *)

HaltBegin ==
    /\ ~crashed
    /\ hpc = "idle"
    /\ \/ HaltMode = "signal"
       \/ HaltMode = "shell" /\ mpc = "idle"
    /\ run_status = "Running"
    /\ hpc' = "reason"
    /\ UNCHANGED <<code, dcache, bp, semihost, run_status, halt_reason, halted,
                   previous_pc, pc, run_halted, notified, runs, wpc, wnext,
                   wlast, mpc, snum, scount, snext, slast, crashed,
                   memWrites, archPc>>

HaltSetReason ==
    /\ ~crashed
    /\ hpc = "reason"
    /\ halt_reason' = "UserRequest"
    /\ hpc' = "flag"
    /\ UNCHANGED <<code, dcache, bp, semihost, run_status, halted, previous_pc,
                   pc, run_halted, notified, runs, wpc, wnext, wlast, mpc, snum,
                   scount, snext, slast, crashed, memWrites, archPc>>

(* Mutant of HaltSetFlag: the halt reason is written, halted_ is not. *)
HaltSetFlagLost ==
    /\ ~crashed
    /\ hpc = "flag"
    /\ hpc' = "idle"
    /\ UNCHANGED <<code, dcache, bp, semihost, run_status, halt_reason, halted,
                   previous_pc, pc, run_halted, notified, runs, wpc, wnext,
                   wlast, mpc, snum, scount, snext, slast, crashed, memWrites,
                   archPc>>

HaltSetFlag ==
    /\ ~crashed
    /\ hpc = "flag"
    /\ halted' = TRUE
    /\ hpc' = "idle"
    /\ UNCHANGED <<code, dcache, bp, semihost, run_status, halt_reason,
                   previous_pc, pc, run_halted, notified, runs, wpc, wnext,
                   wlast, mpc, snum, scount, snext, slast, crashed,
                   memWrites, archPc>>

-----------------------------------------------------------------------------
(* Calls valid only while halted, and GetInstruction. *)

\* Variables a halted-state debugger call never touches.
DebugFrame == <<semihost, run_status, halted, previous_pc, run_halted,
                notified, runs, wpc, wnext, wlast, mpc, snum, scount, snext,
                slast, hpc, crashed>>

HaltedCall == mpc = "idle" /\ MainFree /\ run_status = "Halted"

(* Mutant of WriteRegisterPc: the breakpoint halt reason is kept. *)
WriteRegisterPcKeepReason(v) ==
    /\ HaltedCall
    /\ pc' = v
    /\ archPc' = v
    /\ UNCHANGED <<halt_reason, code, dcache, bp, memWrites>>
    /\ UNCHANGED DebugFrame

\* WriteRegister("pc", v): lines 309-344.
WriteRegisterPc(v) ==
    /\ HaltedCall
    /\ halt_reason' = IF halt_reason = "SoftwareBreakpoint"
                      THEN "None" ELSE halt_reason
    /\ pc' = v
    /\ archPc' = v
    /\ UNCHANGED <<code, dcache, bp, memWrites>>
    /\ UNCHANGED DebugFrame

\* The tohost word of the HTIF semihost lies past the program.
ToHostAddr == NumAddr

\* The addresses the debugger writes: program words, and tohost.
WriteTargets == Addr \cup (IF WriteToHost THEN {ToHostAddr} ELSE {})

\* WriteMemory: lines 359-371; it does not touch the decode cache.  The
\* store goes to state_->memory(), which is the watcher once
\* SetUpSemiHosting has run: a word written to tohost reaches the HTIF
\* semihost, and a RISC-V instruction word is odd, an exit request, whose
\* callback is RequestHalt(kSemihostHaltRequest) (lines 464-468).
WriteMemory(a, i) ==
    /\ HaltedCall
    /\ memWrites < MaxMemWrites
    /\ memWrites' = memWrites + 1
    /\ IF a = ToHostAddr
       THEN /\ halt_reason' = IF semihost THEN "SemihostHaltRequest" ELSE halt_reason
            /\ halted' = (semihost \/ halted)
            /\ UNCHANGED code
       ELSE /\ code' = [code EXCEPT ![a] = i]
            /\ UNCHANGED <<halt_reason, halted>>
    /\ UNCHANGED <<dcache, bp, pc, archPc, semihost, run_status, previous_pc,
                   run_halted, notified, runs, wpc, wnext, wlast, mpc, snum,
                   scount, snext, slast, hpc, crashed>>

(* Mutant of SetSwBreakpoint: the decode cache entry is not invalidated. *)
SetSwBreakpointNoInvalidate(a) ==
    /\ HaltedCall
    /\ bp' = SetBreakpoint(bp, a)
    /\ UNCHANGED <<code, dcache, halt_reason, pc, memWrites, archPc>>
    /\ UNCHANGED DebugFrame

\* SetSwBreakpoint: lines 377-389.
SetSwBreakpoint(a) ==
    /\ HaltedCall
    /\ bp' = SetBreakpoint(bp, a)
    /\ dcache' = Invalidate(dcache, {a})
    /\ UNCHANGED <<code, halt_reason, pc, memWrites, archPc>>
    /\ UNCHANGED DebugFrame

\* ClearSwBreakpoint: lines 391-401 (no record: NotFound, nothing changes).
ClearSwBreakpoint(a) ==
    /\ HaltedCall
    /\ HasBreakpoint(bp, a)
    /\ bp' = ClearBreakpoint(bp, a)
    /\ dcache' = Invalidate(dcache, {a})
    /\ UNCHANGED <<code, halt_reason, pc, memWrites, archPc>>
    /\ UNCHANGED DebugFrame

\* ClearAllSwBreakpoints: lines 403-414.
ClearAllSwBreakpoints ==
    /\ HaltedCall
    /\ \E a \in Addr : HasBreakpoint(bp, a)
    /\ bp' = [a \in Addr |-> "none"]
    /\ dcache' = Invalidate(dcache, {a \in Addr : HasBreakpoint(bp, a)})
    /\ UNCHANGED <<code, halt_reason, pc, memWrites, archPc>>
    /\ UNCHANGED DebugFrame

\* GetDisassembly: lines 421-445.  At an enabled breakpoint it disables
\* it, decodes the real instruction and re-enables it (which invalidates
\* the entry again); elsewhere it decodes through the cache.
GetDisassembly(a) ==
    /\ HaltedCall
    /\ dcache' = IF IsBreakpoint(bp, a)
                 THEN Invalidate(Fill(Invalidate(dcache, {a}), a,
                                      Decode(code, DisableBreakpoint(bp, a), a)),
                                 {a})
                 ELSE Fill(dcache, a, Decode(code, bp, a))
    /\ UNCHANGED <<code, bp, halt_reason, pc, memWrites, archPc>>
    /\ UNCHANGED DebugFrame

\* GetInstruction: lines 416-419; no run-status check.
GetInstruction(a) ==
    /\ mpc = "idle" /\ MainFree
    /\ dcache' = Fill(dcache, a, Decode(code, bp, a))
    /\ UNCHANGED <<code, bp, halt_reason, pc, memWrites, archPc>>
    /\ UNCHANGED DebugFrame

\* SetUpSemiHosting: lines 447-462.  The watcher's halt callbacks call
\* RequestHalt(kSemihostHaltRequest) (see Effects of ToHost).  A second
\* call is allowed: it builds a new watcher and semihost over memory_ and
\* leaks the first ones, with the same behaviour.
SetUpSemiHosting ==
    /\ HaltedCall
    /\ semihost' = TRUE
    /\ UNCHANGED <<code, dcache, bp, run_status, halt_reason, halted,
                   previous_pc, pc, run_halted, notified, runs, wpc, wnext,
                   wlast, mpc, snum, scount, snext, slast, hpc, crashed,
                   memWrites, archPc>>

-----------------------------------------------------------------------------
(* ~RV32ITop(): lines 85-101, run when main() returns (after the shell
   session or the batch run).  Its comment says it requests a halt, but it
   only waits on run_halted_ while the core is running (a null run_halted_
   crashes).  "gone": the object is deleted and the process exits. *)

Destroy ==
    /\ mpc = "idle" /\ MainFree
    /\ IF run_status # "Running"
       THEN mpc' = "gone" /\ UNCHANGED crashed
       ELSE IF run_halted = Null
            THEN crashed' = TRUE /\ UNCHANGED mpc
            ELSE mpc' = "destroying" /\ UNCHANGED crashed
    /\ UNCHANGED <<code, dcache, bp, semihost, run_status, halt_reason, halted,
                   previous_pc, pc, run_halted, notified, runs, wpc, wnext,
                   wlast, snum, scount, snext, slast, hpc, memWrites, archPc>>

DestroyEnd ==
    /\ mpc = "destroying" /\ MainFree
    /\ notified
    /\ run_halted' = Null
    /\ notified' = FALSE
    /\ mpc' = "gone"
    /\ UNCHANGED <<code, dcache, bp, semihost, run_status, halt_reason, halted,
                   previous_pc, pc, runs, wpc, wnext, wlast, snum, scount,
                   snext, slast, hpc, crashed, memWrites, archPc>>

-----------------------------------------------------------------------------

Next ==
       \/ \E n \in 1 .. MaxStep : StepBegin(n)
       \/ StepExec
       \/ StepEnd
       \/ RunStart
       \/ RunSpawn
       \/ \E w \in Workers : \/ WorkerCheck(w) \/ WorkerExec(w)
                             \/ WorkerHalt(w) \/ WorkerNotify(w)
       \/ WaitBegin
       \/ WaitEnd
       \/ HaltBegin
       \/ HaltSetReason
       \/ HaltSetFlag
       \/ \E v \in Addr : WriteRegisterPc(v)
       \/ \E a \in WriteTargets, i \in PatchInstr : WriteMemory(a, i)
       \/ \E a \in BpAddr : SetSwBreakpoint(a)
       \/ \E a \in BpAddr : ClearSwBreakpoint(a)
       \/ ClearAllSwBreakpoints
       \/ \E a \in Addr : GetDisassembly(a)
       \/ \E a \in Addr : GetInstruction(a)
       \/ SetUpSemiHosting
       \/ Destroy
       \/ DestroyEnd

(* Fairness.  The worker is an OS thread and a running Halt() call
   completes: both weakly fair.  The main thread, once inside Step, Run or
   Wait, finishes the call when it can.  Debugger calls themselves are the
   user's choice and carry no fairness. *)
Fairness ==
    /\ \A w \in Workers : WF_vars(WorkerCheck(w) \/ WorkerExec(w)
                                  \/ WorkerHalt(w) \/ WorkerNotify(w))
    /\ WF_vars(HaltSetReason \/ HaltSetFlag)
    /\ WF_vars(StepExec \/ StepEnd \/ RunSpawn \/ WaitEnd \/ DestroyEnd)

Spec == Init /\ [][Next]_vars /\ Fairness

-----------------------------------------------------------------------------
(* Properties. *)

\* Threads that are executing, or about to execute, instructions.
Executing == {w \in Workers : wpc[w] \in {"check", "exec", "exit"}}

\* What ReadRegister("pc") returns while halted (lines 285-289).
VisiblePc == IF halt_reason = "SoftwareBreakpoint" THEN previous_pc ELSE pc

\* Where a loop that leaves now resumes: at the trapping instruction after
\* a breakpoint halt (it becomes previous_pc_), else at next_pc.
StopPoint(last, next) ==
    IF halted /\ halt_reason = "SoftwareBreakpoint" THEN last ELSE next

\* The address the engine will fetch from next: the loop's next_pc while it
\* goes on, its stop point once halted_ makes it leave, and between runs
\* the address Step and Run resume from.
NextFetch ==
    IF Executing # {}
    THEN LET w == CHOOSE x \in Executing : TRUE
         IN  IF wpc[w] = "exec" \/ ~halted THEN wnext[w]
             ELSE StopPoint(wlast[w], wnext[w])
    ELSE CASE mpc = "step"    -> snext
           [] mpc = "stepEnd" -> StopPoint(slast, snext)
           [] OTHER           -> VisiblePc

(* The engine resumes where the program stopped: in every state the next
   fetch address - the worker's or Step's next_pc, or, between runs, what
   ReadRegister("pc") reports and Step/Run resume from (previous_pc_ after
   a breakpoint halt, else the pc register) - is the program's next
   instruction.  Breaks if a breakpoint's instruction is skipped or run
   twice, or the halt bookkeeping of the loops, Halt() and WriteRegister
   disagree. *)
NextFetchIsArchPc == NextFetch = archPc

(* An enabled breakpoint is never bypassed: the decode cache holds either
   nothing or the trap at every address with an enabled breakpoint, across
   SetSwBreakpoint, the resume step-over and GetDisassembly's
   disable/decode/enable. *)
CacheServesTrapAtBreakpoint ==
    \A a \in Addr : IsBreakpoint(bp, a) /\ dcache[a] # NoInst => dcache[a] = Trap

(* The decode cache is never stale (spec 3 and 4.1): every cached entry is
   what decoding memory, with the breakpoint overlay, would give now. *)
CacheCoherent ==
    \A a \in Addr : dcache[a] # NoInst => dcache[a] = Decode(code, bp, a)

(* One executor (spec 5): at most one thread executes instructions - a Run
   worker in its loop or the main thread inside Step. *)
SingleExecutor ==
    Cardinality(Executing) + (IF mpc \in {"step", "stepEnd"} THEN 1 ELSE 0) <= 1

(* The process never hangs: unless it has crashed or main() has returned
   through the destructor, some thread can move; in particular a Wait() or
   the destructor never blocks on a notification nobody will raise. *)
NoHang == crashed \/ mpc = "gone" \/ ENABLED Next

(* A Halt() that found the core running is honoured: once it has written
   the halt reason, the core eventually reaches kHalted (or the process has
   died). *)
HaltHonoured ==
    (hpc = "flag" /\ run_status = "Running") ~> (run_status = "Halted" \/ crashed)

(* The destructor returns.  Its comment (line 86) says that when the core
   is still running it requests a halt and then waits for the run to end;
   destroying the top while a program runs must therefore finish. *)
DestroyReturns == (mpc = "destroying") ~> (mpc = "gone" \/ crashed)

=============================================================================
