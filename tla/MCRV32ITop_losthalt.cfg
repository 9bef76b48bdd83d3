\* A SIGINT between Run's two halves of its start-up.
CONSTANTS
    NumAddr = 4
    Code <- MCCode
    PatchInstr <- MCPatch
    BpAddr = {}
    MaxStep = 1
    MaxRuns = 1
    MaxMemWrites = 0
    WriteToHost = FALSE
    HaltMode = "signal"
SPECIFICATION Spec
PROPERTY HaltHonoured
CHECK_DEADLOCK FALSE
