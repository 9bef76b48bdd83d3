\* A user Halt() racing a breakpoint hit overwrites the halt reason.
CONSTANTS
    NumAddr = 4
    Code <- MCCode
    PatchInstr <- MCPatch
    BpAddr = {2}
    MaxStep = 1
    MaxRuns = 1
    MaxMemWrites = 0
    WriteToHost = FALSE
    HaltMode = "shell"
SPECIFICATION Spec
INVARIANT NextFetchIsArchPc
CHECK_DEADLOCK FALSE
