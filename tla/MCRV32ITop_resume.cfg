\* Breakpoints, stepping, runs, pc and memory writes, no Halt() calls.
CONSTANTS
    NumAddr = 4
    Code <- MCCode
    PatchInstr <- MCPatch
    BpAddr = {0, 2}
    MaxStep = 2
    MaxRuns = 2
    MaxMemWrites = 1
    WriteToHost = FALSE
    HaltMode = "none"
SPECIFICATION Spec
INVARIANT TypeOK
INVARIANT NextFetchIsArchPc
INVARIANT CacheServesTrapAtBreakpoint
INVARIANT NoHang
\* A process that crashed on a null notification (see batchexit)
\* has no successor; NoHang checks that nothing else ever stops.
CHECK_DEADLOCK FALSE
