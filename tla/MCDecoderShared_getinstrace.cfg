\* GetInstruction from the debugger while the worker runs.
CONSTANTS
    Addrs <- MCAddrs
    Mem <- MCMem
    Opcode <- MCOpcode
    CallWhileRunning = TRUE
SPECIFICATION DecSpec
INVARIANT DecodeFaithful
