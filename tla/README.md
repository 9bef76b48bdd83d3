# TLA+ models of the RV32I codelab simulator

This directory holds TLA+ models of the simulator in `src/`, checked with
TLC. The models focus on run control in `src/other/rv32i_top.cc`: the debug
interface, the detached worker thread that `Run()` starts, and the `Halt()`
callers. Run control is where several threads share unsynchronised state, and
where tests hardly reach. A second model covers the data semantics of the RV32I
semantic functions, checked against a bit-level definition of the ISA.

## 1. Inventory

### Components and how they interact

| Component | Source | State | Operations |
|---|---|---|---|
| Run control (`RV32ITop`) | `other/rv32i_top.cc`, `.h` | `run_status_`, `halt_reason_`, `halted_` (plain `bool`), `previous_pc_` (uninitialised), `run_halted_` (`Notification*`) | `Step`, `Run`, `Wait`, `Halt`, `RequestHalt`, `Read/WriteRegister`, `Read/WriteMemory`, `Set/Clear/ClearAllSwBreakpoint(s)`, `GetInstruction`, `GetDisassembly`, `SetUpSemiHosting`, destructor |
| Run worker thread | `rv32i_top.cc:219-243` | locals `next_pc`, `pc`, `pc_db` | loop while `!halted_`; then `previous_pc_ = pc`, pc register, `kHalted`, `run_halted_->Notify()` |
| Driver and Ctrl-C handler | `other/rv32i_sim.cc` | global `top` | SIGINT calls `top->Halt()` on the main thread, at any point. Batch mode: `Run(); Wait();`. Interactive mode: a debug shell that calls the interface. |
| RISC-V state | `other/riscv_simple_state.cc` | the pc register (starts at 0), memory, handler chains | `EBreak` (handler chain; an unclaimed ebreak is a nop), `ECall`, `WFI`, `Fence`, `FenceI` (no-op), `Load/StoreMemory` |
| Semantic functions | `riscv_semantic_functions/solution/rv32i_instructions.cc` | none | an ALU op writes a register; branch/jal/jalr submit a new pc value; ebreak calls `RiscVState::EBreak`; a store goes through memory (and the semihosting watcher) |
| Decoder | `riscv_full_decoder/solution/*.cc` | none | `DecodeInstruction(address)`: load the word, parse it, build the instruction |
| Decode cache | mpact-sim (outside `src/`) | address → decoded instruction | `GetDecodedInstruction`, `Invalidate` |
| Breakpoint manager | mpact-riscv (outside `src/`) | per-address record, enabled or disabled | set / clear / disable / enable / clear all; each change invalidates the cache entry through a callback |
| Semihosting | mpact-riscv (outside `src/`) | watcher on the tohost words | a store to tohost calls `RequestHalt(kSemihostHaltRequest)` |

These parts interact as follows:
- The worker, or the main thread inside `Step`, fetches through the decode cache.
- The cache decodes through the decoder. The decoder sees the breakpoint manager's ebreak overlay in memory.
- Executing an ebreak runs RV32ITop's handler. At an address that has a breakpoint record, the handler calls `RequestHalt(kSoftwareBreakpoint)`, which sets the reason and then `halted_`.
- The worker polls `halted_` between instructions.
- `Halt()` writes the same two fields from another thread.

### Hard behaviours

- **Interleaving of three actors with no lock.** The actors are the main thread (the shell or batch driver), one worker per `Run`, and the SIGINT handler. They share `run_status_`, `halt_reason_`, `halted_` and `run_halted_`.
- **Multi-step protocols.**
  - The step over a software breakpoint on resume: disable, execute through the cache, re-enable.
  - `GetDisassembly` at a breakpoint.
  - The worker's exit sequence: `previous_pc_`, the pc register, `kHalted`, then `Notify`.
  - `Wait`'s delete-and-null of the notification.
- **The decode cache as a cache.** Every change of memory or breakpoints must evict the affected entries.
- **Uninitialised state.**
  - `previous_pc_` at construction.
  - The loop-local `pc` when `Step`'s count is used up by the step-over.
- **Numeric edge.** `next_pc` is `uint32_t` and wraps.
- **Liveness.**
  - `Wait()` returns only when the worker notifies.
  - A `Halt()` must stop a running program.

### Properties each component needs

- **Run control:**
  - execution resumes exactly where the program stopped (no instruction skipped or repeated);
  - at most one thread executes instructions;
  - the worker notifies the notification of its own run;
  - no thread waits forever;
  - a `Halt()` that found the core running stops it.
- **Decode cache and breakpoint manager:**
  - an enabled breakpoint is never bypassed by a cached real instruction;
  - a cached entry is what decoding memory would give now.
- **Semantic functions:** for run control, only their effect on control flow: the pc write, the halt request, the wrap of the fall-through address. On their own, each must compute what RV32I defines: wrap-around, the signed casts of `sra`, `blt`, `bge`, `lb`, `lh`, the shift mask, partial stores, and x0 as a zero source and a discarded destination.
- **Driver:** a batch run ends, and nothing runs after the destructor.

## 2. Modules

The run-control modules each EXTEND the one before it:

1. `RV32IInstructions`: the instruction classes and their control effects (`Effects`, `NextPc`, the wrapping `Succ`, `EBreakHalt`). An outcome also names the program word a store writes (`StoreCode(t)`); `Stored` is `StoreMemory`, which changes memory and nothing else, the value being one of the words `PatchInstr` allows.
2. `DecodeCache`: the cache contract (`Lookup`, `Fill`, `Invalidate`).
3. `BreakpointManager`: breakpoint records and `Decode`, the decoder with the breakpoint overlay.
4. `RV32ITop`: the run-control engine with its three kinds of actor. It composes the three modules above.
5. `MCRV32ITop`: the TLC instance, a four-word program.
   - `0: alu`
   - `1: branch -> 0` (a loop)
   - `2: ebreak`
   - `3: store to tohost`

   Word 3 falls through to 0 by the `uint32_t` wrap. `MCSelfModCode` is the same program with `1: store -> 0`, a store into the program's own first word.
6. `RV32ISim` (with `MCRV32ISim`): the batch driver of `rv32i_sim.cc` composed with `RV32ITop`. `dpc` is `main()`'s position: load and write pc, set up semihosting or not, `Run()`, `Wait()`, and the destructor at the end of `main()`.

The data-semantics modules are separate:

7. `RV32IReference`: RV32I defined on bit vectors (ripple-carry addition, shifts as bit moves, sign extension by replicating the sign bit, jalr clearing bit 0). It is written from the ISA, not from the code.
8. `RV32ISemantics`: the semantic functions and the x0 operand getters of `riscv32i_encoding.cc` as operators (`Alu`, `Taken`, `Load`, `Store`, `JalrTarget`, `Execute`). A one-step machine executes one instruction from registers x0..x2, a pc and a memory word. It also follows the data buffers of `riscv_simple_state` through the instruction: `refs` holds the reference counts of a load's value buffer and `LoadContext`, and of a store's buffer (`Objs`). `LoadRefs` is `LoadValue`: it allocates both, runs the child inline (latency 0), and drops the context, whose `OnRefCountIsZero` (`CtxOnZero`) releases the value buffer and nulls it before the base class deletes the context, so the destructor (`CtxDestroy`) finds nothing to release. `StoreRefs` is `StoreValue`: allocate, store, release. The width is the constant `XLEN`, where `uint32_t` is XLEN-bit unsigned arithmetic, `int8_t`/`int16_t` are XLEN/4 and XLEN/2 bits, and the mask `0x1f` is XLEN-1. With XLEN = 32 the definitions are the code's. TLC's integers are 32-bit signed, so `MCRV32ISemantics` checks XLEN = 16.

The decoder's internals are a separate model:

9. `DecoderShared` (with `MCDecoderShared`): `RiscV32Decoder::DecodeInstruction` split into its steps on the decoder's shared scratch state. `LoadWord` is `memory_->Load` into the single `inst_db_`. `Parse` is `ParseInstruction`, setting `inst_word_` and `opcode_`. `GetOp` is the ISA decoder reading `GetOpcode()`. `GetOperands` covers the operand getters that read `inst_word_`, and the cache filling the slot. Two callers run these steps: the Run worker (`WorkerFetch`, while `halted_` is clear) and the main thread (`GetDisassembly`, which requires kHalted, and `GetInstruction`, which checks nothing). The constant `CallWhileRunning` says whether the debugger calls `GetInstruction` while the core runs. A decoded instruction is the pair (opcode, operand word). The MC instance has three addresses, holding two different opcodes.

The abstract specification:

10. `RunControl`: the debug contract of `generic::CoreDebugInterface` (spec.md sections 4.3 and 6), which the batch engine (`RV32ISim` over `RV32ITop`) implements.
    - The core is `Halted` or `Running`.
    - While running, it executes its own instructions in program order from `apc`, its resume point (`Execute`).
    - `Resume` may execute one instruction at once, because Step and Run begin by stepping over the breakpoint they stopped at.
    - A program store may change the program (`ProgramStep`).
    - `Stop` halts the core.
    - Only while halted can the debugger redirect the pc (`SetPc`, counted in `pcWrites`) or patch memory (`Patch`). Nothing else moves the resume point while halted.
    - It knows nothing of breakpoints, the cache or threads.
    `RV32ISim` defines `RC == INSTANCE RunControl WITH status <- AbstractStatus, apc <- NextFetch, mem <- code, pcWrites <- IF dpc = "load" THEN 0 ELSE 1`: `main()` writes the pc exactly once, when it loads the program, so any other change of the resume point while halted is not a legal step. `AbstractStatus` is `Halted` iff `run_status_` is kHalted, so a Step in progress counts as running. `NextFetch` is the engine's real next fetch address, not the ghost `archPc`. The refinement is stated as `ImplementsRunControl == RC!RCSpec`. A breakpoint trap leaves the next fetch address where it is, so it is a stuttering step of the abstract spec.

    The refinement is checked for the batch composition only. In the debug-shell model (`RV32ITop` alone) the shell may write the pc at any time while halted, so the write count has no value to map to, and an abstract `SetPc` would absorb any change of the resume point while halted, including the `haltrace` skip of the instruction at 2. That run-control behaviour is checked by `NextFetchIsArchPc` instead. The refinement also sees control flow only: skipping an instruction whose successor is the next word (an ALU op, or an unclaimed ebreak) while running looks like executing it.

### How RV32ITop corresponds to the code

| Code | Model |
|---|---|
| `run_status_`, `halt_reason_`, `halted_`, `previous_pc_`, the pc register | `run_status`, `halt_reason`, `halted`, `previous_pc`, `pc` |
| `run_halted_` | `run_halted`: `Null` or the id of the Run that allocated it |
| notified flag of that `Notification` | `notified` |
| memory, cache, breakpoint records, watcher installed | `code`, `dcache`, `bp`, `semihost` |
| worker `w`'s position, `next_pc`, local `pc` | `wpc[w]`, `wnext[w]`, `wlast[w]` (`Undef` = uninitialised) |
| main thread inside `Step`/`Run`/`Wait` | `mpc`, and `snum`, `scount`, `snext`, `slast` for `Step`'s locals |
| `Halt()` in progress | `hpc` (`"reason"`, `"flag"`) |
| null or freed notification dereferenced | `crashed` |

`archPc` is a ghost variable: the address the program executes next. Every real instruction advances it; the breakpoint trap does not; a debugger write of pc redirects it.

Each call is split where another thread can observe a half-done state.

**`Step`** (lines 117-181): `StepBegin`, then `StepExec` per iteration, then `StepEnd`.
- `StepBegin` covers the check, `halted_ = false`, the step-over and the reads of the pc.
- `StepExec` is one loop iteration.
- `StepEnd` sets `previous_pc_`, writes the pc, and clears the reason unless halted.

**`Run`** (lines 183-245): `RunStart`, then `RunSpawn`.
- `RunStart` runs up to `run_status_ = kRunning`.
- `RunSpawn` covers `halted_ = false`, the new notification, and the thread start.

**Worker:** `WorkerCheck`, `WorkerExec`, `WorkerHalt`, `WorkerNotify`.
- `WorkerCheck` is the loop test.
- `WorkerExec` is one iteration.
- `WorkerHalt` covers lines 237-240.
- `WorkerNotify` is line 242. It crashes on a null `run_halted_`.

**`Wait`:** `WaitBegin` and `WaitEnd`.

**Destructor** (lines 85-101): `Destroy` and `DestroyEnd`. If the core is running, the destructor waits on `run_halted_` (crashing when it is null). It never sets `halted_`, despite its comment.

**`Halt`** (lines 103-115): `HaltBegin` covers the two status checks, `HaltSetReason` is line 112, `HaltSetFlag` is line 113.

The calls valid only while halted are one action each:
- `WriteRegisterPc`
- `WriteMemory`: it writes through `state_->memory()`, which after `SetUpSemiHosting` is the HTIF watcher. The constant `WriteToHost` adds the tohost word (`ToHostAddr`, past the program) to its targets (`WriteTargets`). A debugger write there with semihosting set up is an exit request (any RV32 instruction word is odd) and calls `RequestHalt(kSemihostHaltRequest)`.
- `SetSwBreakpoint`, `ClearSwBreakpoint`, `ClearAllSwBreakpoints`
- `GetDisassembly`
- `SetUpSemiHosting`

`GetInstruction` has no status check, so it is enabled whenever the main thread is idle.

Calls that fail without a state change are not actions: `Step` with the core not halted, `Run` while running, `Halt` while halted. `ReadRegister("pc")` changes nothing, and appears as `VisiblePc`.

`HaltMode` selects the `Halt()` caller:
- `"none"`: no `Halt()` calls.
- `"shell"`: the debug shell, which calls `Halt()` only between commands.
- `"signal"`: the SIGINT handler, which runs on the main thread and preempts it at any point. While it runs, `MainFree` is false.

### Planned next

- Model the load/store effective address (base + offset) over a small memory of several words, together with misalignment.

## 3. Runs

All run-control runs use `NumAddr = 4`, the four-word program above, and `PatchInstr = {ebreak}`. `WriteToHost` is FALSE except in `tohostwrite`.

| Run | cfg | Bounds | Checks | Result |
|---|---|---|---|---|
| `resume` | `MCRV32ITop_resume.cfg` | breakpoints at {0, 2}, `Step(1..2)`, 2 Runs, 1 memory write, no Halt | `TypeOK`, `NextFetchIsArchPc`, `CacheServesTrapAtBreakpoint`, `NoHang` | pass, 5.2M states, about 2 min |
| `halt` | `MCRV32ITop_halt.cfg` | breakpoint at {2}, `Step(1)`, 2 Runs, shell Halt | `SingleExecutor`, `NoHang`, `HaltHonoured` | pass, 2.35M states, about 3 min |
| `batch` | `MCRV32ISim_batch.cfg` | no breakpoints, 1 Run, SIGINT Halt | `NotificationFreed`, `BatchEnds`, `ImplementsRunControl` | pass, 9.8K states |
| `semantics` | `MCRV32ISemantics.cfg` | XLEN 16; values {0, 1, 17, 2^15-1, 2^15, 2^16-1}; pc {0, 2^16-4}; immediates {4, -4, 3} | `SemTypeOK`, `BuffersReleased`, `ExecMatchesReference` | pass, 140K states, under 20 s |
| `decoder` | `MCDecoderShared_decode.cfg` | 3 addresses, debugger decodes only while halted | `DecodeFaithful` | pass, 460 states |
| `haltrace` | `MCRV32ITop_haltrace.cfg` | breakpoint at {2}, 1 Run, shell Halt | `NextFetchIsArchPc` | violated |
| `tohostwrite` | `MCRV32ITop_tohostwrite.cfg` | breakpoint at {2}, 1 Run, 1 debugger write to tohost, no Halt | `NextFetchIsArchPc` | violated |
| `losthalt` | `MCRV32ITop_losthalt.cfg` | no breakpoints, 1 Run, SIGINT Halt | `HaltHonoured` | violated |
| `stale` | `MCRV32ITop_stale.cfg` | the self-modifying program (below), no breakpoints, no debugger writes | `CacheCoherent` | violated |
| `destroyhang` | `MCRV32ITop_destroyhang.cfg` | no breakpoints, 1 Run, no Halt | `DestroyReturns` | violated |
| `batchexit` | `MCRV32ISim_batchexit.cfg` | 1 Run, no Halt | `NoUseAfterDestroy` | violated |
| `decoderrace` | `MCDecoderShared_getinstrace.cfg` | 3 addresses, `GetInstruction` while running | `DecodeFaithful` | violated |

### Why the bounds are enough

- **Four words** are enough to give a loop, a fall-through wrap, a program ebreak, a tohost store, and breakpoints both on an ordinary instruction and on an ebreak.
- **Two Runs** are needed for a second Run to overlap the first worker's exit.
- **`Step(2)`** lets the step-over be followed by a loop iteration.
- **One memory write** is enough to patch an ebreak over a decoded instruction.
- **Refinement:** `ImplementsRunControl` is checked in the `batch` run: the load's pc write, semihosting set up or not, a Run that ends by a tohost exit or a Ctrl-C at any point, `Wait()` on both of its paths, and the destructor. Batch mode sets no breakpoints and writes no memory, so the step-over and the stale cache (`stale`) are not part of it. Breaking the worker's exit (storing the last pc instead of `next_pc`) violates it.
- **Decoder:** two callers and two different opcodes are the least that can mix an opcode of one word with the operands of another. Deadlock checking is on, because Run and Halt can always follow.
- **Buffers:** each load and store class is executed from every initial state, so every path of `LoadValue` and `StoreValue` is followed once; one instruction is enough because each call starts from released buffers.
- **Semantics values** reach every boundary the code's casts and masks meet: the sign bit of the word, of the halfword and of the byte, overflow of add and sub, a shift operand above the mask, equal and opposite-signed comparison operands, and a pc whose fall-through and target wrap. x0 holds a non-zero value in some initial states (the debugger can write it), so reading it as a literal 0 is checked.

The passing runs fire every action of `Next`, `SimNext` and the semantics step. In the run-control cfgs, deadlock checking is off because a crashed process (a null `Notify`) and a finished `main()` have no successor. `NoHang` (`crashed \/ mpc = "gone" \/ ENABLED Next`) checks that nothing else ever stops. The semantics machine executes one instruction and stops.

### What the violations show

See `findings` in PROJECT.json.

- **`haltrace`:** the worker hits the breakpoint at 2 (reason `kSoftwareBreakpoint`, `halted_`). A shell `Halt()` that had already seen `kRunning` overwrites the reason with `kUserRequest`. The worker stores pc = 3, and the program's instruction at 2 is never executed.
- **`tohostwrite`:** the core halts at the breakpoint at 2 (reason `kSoftwareBreakpoint`). The debugger sets up semihosting and writes an instruction word to tohost. `WriteMemory` goes through the watcher, which sees an exit request and overwrites the reason with `kSemihostHaltRequest`. The next Step or Run does not step over the breakpoint: it starts at 3, and the program's instruction at 2 is never executed. The code's comment and spec section 6 say the memory accessors bypass the watch layer.
- **`losthalt`:** Ctrl-C lands between lines 210 and 211, and the loop at 0-1 never halts.
- **`stale`:** word 0 is decoded into the cache (in TLC's shortest trace by the debugger's `GetDisassembly` after a pc write to 1; executing word 0 fills it the same way), and the program's store at 1 writes an ebreak over word 0. No store path invalidates the cache, the decoder has no `fence.i`, and `FenceI` is an empty TODO, so the cache still serves the `alu`. With `Code <- MCCode` and one debugger write allowed, the same invariant fails in two steps (`GetDisassembly`, then `WriteMemory`): the debugger path has the same gap.
- **`destroyhang`:** the program loops at 0-1. The destructor of a running core waits on `run_halted_`, but it never sets `halted_`, so it waits forever.
- **`batchexit`:** the worker sets `kHalted` and has not yet notified. `Wait()` returns on `kHalted`, `main()` destroys the core (the destructor does not wait, since the core is halted), and the worker then runs `Notify` on freed memory. In the same window, a `Wait()` of the debug shell deletes and nulls `run_halted_` (the worker then crashes on null), or a second `Run()` replaces it (the worker then notifies the second Run's notification, and a later `Wait()` returns while the second worker still runs).

- **`decoderrace`:** the worker loads and parses the word at one address. The main thread's `GetInstruction` then parses another word into the same `inst_word_`/`opcode_` before the worker's ISA decoder reads them. The cache keeps an instruction whose opcode or operands belong to another address.

Two more observations come from reading the code and exploring the model, and are not separate runs:
- **Unclaimed ebreak.** A program ebreak at an address with no breakpoint record is claimed by no handler, and `RiscVState::EBreak` (riscv_simple_state.cc:123) treats it as a nop (`EBreakHalt`). The spec's end-to-end scenario expects a software-breakpoint halt.
- **Repeated semihosting set-up.** `SetUpSemiHosting` checks only that the core is halted. A second call replaces `watcher_` and `rv32_semihost_` and leaks the first ones; the new watcher wraps `memory_` as before, so the model allows the call and nothing else changes.
- **Leaked notification.** A run whose worker halts (tohost, with no breakpoints) followed by the end of the session without a `Wait()` leaves `run_halted_` allocated. The destructor deletes it only while the core is running (lines 88-92). A second `Run()` overwrites it in the same way (line 216). The batch driver does not leak: it pairs its one `Run()` with a `Wait()`, which deletes the notification on both of its paths (after waiting, or at once when a tohost exit or Ctrl-C has already halted the core); `NotificationFreed` checks this in the `batch` run.

`ExecMatchesReference` holds for every instruction. For `jalr` it compares the target only above bit 0: `RV32IJalr` does not clear bit 0 as the RV32I manual requires. No comment, test or spec sentence states that requirement for this code, so it is recorded here rather than as a finding. The run loop then fetches from the odd address.

## 4. Fairness

- Each worker is an OS thread, so it is weakly fair (`WF_vars`).
- A `Halt()` call in progress completes, so its two steps are weakly fair.
- The main thread, once inside `Step`, `Run`, `Wait` or the destructor, finishes the call when it can, so `StepExec`, `StepEnd`, `RunSpawn`, `WaitEnd` and `DestroyEnd` are weakly fair.
- In `RV32ISim`, `main()` is straight-line code, so each driver step is weakly fair.
- Starting a call (`StepBegin`, `RunStart`, `WaitBegin`, the debugger commands) is the user's choice and carries no fairness.

## 5. Not modelled

- **Register and memory data in run control.** ALU results, loads and ordinary stores are abstracted away, so a branch may be taken or not. Their values are modelled separately, in `RV32ISemantics`.
- **In the semantics model:** effective addresses and alignment (one memory word is accessed), `fence` (no state), `ecall`/`wfi` (no handlers are installed), and the illegal-instruction path.
- **`ReadMemory`, `GetRunStatus`, `GetLastHaltReason`.** They change no state.
- **Counters, ELF loading, proto export, console I/O.**
- **The bit-level instruction encoding.**
- **The exercise stubs.** They are unfinished skeletons; the simulator is built from the `solution/` files.
- **The delayed load path.** `LoadValue` passes latency 0, so the child runs inline; the delayed path of the library memory's `Load` (outside this repository) is never taken by this simulator.
- **Register set-up** (`AddRegister`, `AddRegisterAlias`, `GetRegister`): done once at construction, before any operation.
- **The decode cache's eviction at 16K entries.** It only affects performance.
- **Compiler reordering of the plain-bool `halted_`.** Shared loads and stores are modelled as sequentially consistent, so a load hoisted out of the worker loop is not represented.
