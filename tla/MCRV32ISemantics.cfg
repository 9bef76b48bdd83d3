CONSTANTS
    XLEN <- MCXlen
    Vals <- MCVals
    PcVals <- MCPcVals
    Imms <- MCImms
SPECIFICATION SemSpec
\* One instruction is executed, after which no step is enabled.
CHECK_DEADLOCK FALSE
INVARIANT SemTypeOK
INVARIANT BuffersReleased
PROPERTY ExecMatchesReference
