\* The program stores an ebreak over its own first word after executing
\* it once; no debugger memory writes.
CONSTANTS
    NumAddr = 4
    Code <- MCSelfModCode
    PatchInstr <- MCPatch
    BpAddr = {}
    MaxStep = 1
    MaxRuns = 1
    MaxMemWrites = 0
    WriteToHost = FALSE
    HaltMode = "none"
SPECIFICATION Spec
INVARIANT CacheCoherent
\* A finished main() and a crashed process have no successor.
CHECK_DEADLOCK FALSE
