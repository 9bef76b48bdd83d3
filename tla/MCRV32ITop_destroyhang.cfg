\* The session ends (main() returns) while a program is running.
CONSTANTS
    NumAddr = 4
    Code <- MCCode
    PatchInstr <- MCPatch
    BpAddr = {}
    MaxStep = 1
    MaxRuns = 1
    MaxMemWrites = 0
    WriteToHost = FALSE
    HaltMode = "none"
SPECIFICATION Spec
PROPERTY DestroyReturns
CHECK_DEADLOCK FALSE
