\* Expected to fail: see the findings.
CONSTANTS
    RPAGE = 2
    RTOP = 8
    Tables <- TableSet
    stvec = 4
    Entrypoint = 5
    Returns = {0, 1}
    Jumps = {1, 7}
    Accesses = {0, 6}
    RValues = {0, 1}
    WordUser = 0
    WordKernel = 6
    RKERN = 4
SPECIFICATION RiscvSpec
INVARIANT FetchInPage
CHECK_DEADLOCK FALSE
