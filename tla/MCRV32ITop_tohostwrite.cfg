\* The debugger writes the HTIF exit word to tohost while the core is
\* halted at a breakpoint, with semihosting set up.
CONSTANTS
    NumAddr = 4
    Code <- MCCode
    PatchInstr <- MCPatch
    BpAddr = {2}
    MaxStep = 1
    MaxRuns = 1
    MaxMemWrites = 1
    WriteToHost = TRUE
    HaltMode = "none"
SPECIFICATION Spec
INVARIANT NextFetchIsArchPc
\* A process that crashed on a null notification has no successor.
CHECK_DEADLOCK FALSE
