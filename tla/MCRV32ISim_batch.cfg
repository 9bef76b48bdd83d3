\* Batch mode with Ctrl-C at any point.
CONSTANTS
    NumAddr = 4
    Code <- MCCode
    PatchInstr <- MCPatch
    BpAddr = {}
    MaxStep = 1
    MaxRuns = 1
    MaxMemWrites = 0
    WriteToHost = FALSE
    HaltMode = "signal"
SPECIFICATION SimSpec
INVARIANT NotificationFreed
\* Main() ends with the process; a crash stops every thread.
CHECK_DEADLOCK FALSE
PROPERTY BatchEnds
PROPERTY ImplementsRunControl
