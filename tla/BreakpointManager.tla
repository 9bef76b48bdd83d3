-------------------------- MODULE BreakpointManager --------------------------
(***************************************************************************)
(* The contract of riscv::RiscVBreakpointManager (mpact-riscv, outside     *)
(* this repository) as the spec states it: at most one record per address, *)
(* enabled or disabled; every change of a record invalidates the decode    *)
(* cache entry at that address (the callback RV32ITop binds to            *)
(* DecodeCache::Invalidate), so that the decoder serves the trap while     *)
(* the record is enabled and the real instruction otherwise.              *)
(***************************************************************************)
EXTENDS DecodeCache

BpStates == {"none", "enabled", "disabled"}

HasBreakpoint(bp, a) == bp[a] # "none"

IsBreakpoint(bp, a) == bp[a] = "enabled"

\* SetBreakpoint: idempotent; the record ends enabled.
SetBreakpoint(bp, a) == [bp EXCEPT ![a] = "enabled"]

\* ClearBreakpoint / DisableBreakpoint / EnableBreakpoint on an existing
\* record (each fails with no state change when there is none).
ClearBreakpoint(bp, a) == [bp EXCEPT ![a] = "none"]
DisableBreakpoint(bp, a) == [bp EXCEPT ![a] = "disabled"]
EnableBreakpoint(bp, a) == [bp EXCEPT ![a] = "enabled"]

\* What decoding address a yields: the trap while a breakpoint is enabled
\* there, else the instruction held in memory.
Decode(code, bp, a) == IF IsBreakpoint(bp, a) THEN Trap ELSE code[a]
=============================================================================
