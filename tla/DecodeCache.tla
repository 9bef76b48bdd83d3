----------------------------- MODULE DecodeCache -----------------------------
(***************************************************************************)
(* The contract of generic::DecodeCache (mpact-sim, outside this          *)
(* repository): an address-keyed memo of decoded instruction objects.     *)
(* GetDecodedInstruction returns the cached object or decodes and stores   *)
(* a new one; Invalidate evicts entries.  The capacity (16K entries) never *)
(* fills in the model, so eviction is not represented; the spec allows any *)
(* eviction policy, which only affects performance.                       *)
(***************************************************************************)
EXTENDS RV32IInstructions

\* An empty cache slot.
NoInst == Inst("none", 0)

CacheSlots == Instr \cup {Trap, NoInst}

\* GetDecodedInstruction(a): the cached object, else the freshly decoded one.
Lookup(cache, a, decoded) == IF cache[a] = NoInst THEN decoded ELSE cache[a]

\* The cache after GetDecodedInstruction(a).
Fill(cache, a, decoded) == [cache EXCEPT ![a] = Lookup(cache, a, decoded)]

\* The cache after Invalidate of every address in A.
Invalidate(cache, A) == [x \in DOMAIN cache |-> IF x \in A THEN NoInst ELSE cache[x]]
=============================================================================
