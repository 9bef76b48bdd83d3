------------------------------- MODULE RV32ISim -------------------------------
(***************************************************************************)
(* The batch driver of other/rv32i_sim.cc composed with RV32ITop.         *)
(* Without -i, main() writes the ELF entry point to pc, sets up            *)
(* semihosting when the tohost/fromhost symbols exist, calls Run() and     *)
(* then Wait(), exports the counters and returns, which runs              *)
(* ~RV32ITop().  Meanwhile the worker runs, and the SIGINT handler may     *)
(* call Halt() on the global `top` (HaltMode "signal").                   *)
(*                                                                         *)
(* dpc is main()'s position in that straight-line code.  The Run, Wait     *)
(* and destructor calls are RV32ITop's actions; their continuations and    *)
(* the other actors are RV32ITop's actions with dpc unchanged.            *)
(***************************************************************************)
EXTENDS RV32ITop

VARIABLE dpc

simVars == <<vars, dpc>>


SimInit == Init /\ dpc = "load"

\* Lines 107-119: load the ELF file, WriteRegister("pc", entry_point).
BatchLoad ==
    /\ dpc = "load"
    /\ \E v \in Addr : WriteRegisterPc(v)
    /\ dpc' = "semihost"

\* Lines 122-129: the magic symbols are found and semihosting is set up.
BatchSemihost ==
    /\ dpc = "semihost"
    /\ SetUpSemiHosting
    /\ dpc' = "run"

\* The program has no tohost/fromhost symbols.
BatchNoSemihost ==
    /\ dpc = "semihost"
    /\ dpc' = "run"
    /\ UNCHANGED vars

\* Lines 139-142: Run().
BatchRun ==
    /\ dpc = "run"
    /\ RunStart
    /\ dpc' = "wait"

\* Lines 144-147: Wait().
BatchWait ==
    /\ dpc = "wait"
    /\ WaitBegin
    /\ dpc' = "exit"

\* Lines 152-172: export the counters (no run-control state), then the end
\* of main() destroys rv32i_top.
BatchExit ==
    /\ dpc = "exit"
    /\ Destroy
    /\ dpc' = "done"

\* Steps of the worker, of the SIGINT handler, and the ends of calls that
\* main() is inside.
BatchOthers ==
    /\ \/ RunSpawn
       \/ WaitEnd
       \/ DestroyEnd
       \/ \E w \in Workers : \/ WorkerCheck(w) \/ WorkerExec(w)
                             \/ WorkerHalt(w) \/ WorkerNotify(w)
       \/ HaltBegin
       \/ HaltSetReason
       \/ HaltSetFlag
    /\ UNCHANGED dpc

SimNext ==
    \/ BatchLoad
    \/ BatchSemihost
    \/ BatchNoSemihost
    \/ BatchRun
    \/ BatchWait
    \/ BatchExit
    \/ BatchOthers

(* main() is straight-line code: once the process lives, it goes on
   (weakly fair), in addition to RV32ITop's fairness. *)
SimSpec ==
    /\ SimInit
    /\ [][SimNext]_simVars
    /\ Fairness
    /\ WF_simVars(BatchLoad \/ BatchSemihost \/ BatchNoSemihost \/ BatchRun
                  \/ BatchWait \/ BatchExit)

-----------------------------------------------------------------------------
(* Properties. *)

(* The batch simulation ends once the program halts: after the worker has
   finished, Wait() returns and main() reaches the end of the destructor
   (or the process has died). *)
BatchEnds == (\A w \in Workers : wpc[w] = "done") ~> (mpc = "gone" \/ crashed)

(* No thread outlives the top: when ~RV32ITop() has deleted the cache, the
   state and run_halted_ and main() returns, no worker thread is still
   running code that uses them. *)
NoUseAfterDestroy ==
    mpc = "gone" => \A w \in Workers : wpc[w] \in {"none", "done"}

(* No Notification outlives the batch run: Run() allocates run_halted_, and
   the destructor deletes it only while the core is running (lines 88-92),
   so main()'s Wait() must delete it on both of its paths - after waiting,
   and at once when the worker (a tohost exit or a Ctrl-C) has already
   halted the core.  When main() is gone, run_halted_ is null. *)
NotificationFreed == mpc = "gone" => run_halted = Null
-----------------------------------------------------------------------------
(* Refinement.  The debugger's view of the batch engine: halted when
   run_status_ is kHalted, else running; the resume point is NextFetch,
   the address the engine really fetches from next (not the ghost archPc);
   the memory is the program memory; main() writes the pc once, when it
   loads the program. *)

AbstractStatus == IF run_status = "Halted" THEN "Halted" ELSE "Running"

RC == INSTANCE RunControl
        WITH status <- AbstractStatus, apc <- NextFetch, mem <- code,
             pcWrites <- IF dpc = "load" THEN 0 ELSE 1,
             InitMem <- Code, InitPc <- ResetPc

(* The batch simulation implements RunControl: every step of main(), the
   worker and the SIGINT handler leaves the debugger's view unchanged or is
   a step of RunControl.  The resume point moves only as the program's own
   instruction there dictates, or by main()'s one pc write; the worker's
   exit (previous_pc_, the pc register, kHalted), Wait(), a Ctrl-C Halt()
   and a tohost exit must leave it where the program stopped. *)
ImplementsRunControl == RC!RCSpec
=============================================================================
