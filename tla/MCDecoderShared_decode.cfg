\* GetDisassembly and GetInstruction only while the core is halted.
CONSTANTS
    Addrs <- MCAddrs
    Mem <- MCMem
    Opcode <- MCOpcode
    CallWhileRunning = FALSE
SPECIFICATION DecSpec
INVARIANT DecodeFaithful
