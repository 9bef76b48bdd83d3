\* Batch mode: Wait() returns before the worker has notified.
CONSTANTS
    NumAddr = 4
    Code <- MCCode
    PatchInstr <- MCPatch
    BpAddr = {}
    MaxStep = 1
    MaxRuns = 1
    MaxMemWrites = 0
    WriteToHost = FALSE
    HaltMode = "none"
SPECIFICATION SimSpec
INVARIANT NoUseAfterDestroy
\* Main() ends with the process; a crash stops every thread.
CHECK_DEADLOCK FALSE
