\* Halt() from the interactive shell between commands, with breakpoints.
\* RV32ITop must also implement the RunControl debug contract here.
CONSTANTS
    NumAddr = 4
    Code <- MCCode
    PatchInstr <- MCPatch
    BpAddr = {2}
    MaxStep = 1
    MaxRuns = 2
    MaxMemWrites = 0
    WriteToHost = FALSE
    HaltMode = "shell"
SPECIFICATION Spec
INVARIANT SingleExecutor
INVARIANT NoHang
PROPERTY HaltHonoured
\* Only a crashed process stops; NoHang checks it.
CHECK_DEADLOCK FALSE
