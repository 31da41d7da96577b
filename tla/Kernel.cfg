CONSTANTS
    Parts = {"core", "proc", "raw", "tty"}
    CProcs = {p1, p2, p3}
    Progs = {f1, f2}
    Sticky = {f2}
    NTEXT = 1
    Pages = 13
    Swap = 8
    NPM = 4
    Sizes = {2}
    NPROC = 5
    PIDMAX = 11
    MAXUPRC = 2
    Sigs = {2}
    PCalls = 3
    Pid0 = 9
    Trees <- PTrees
    Swappers = {s1, s2}
    Raws = {r1, r2}
    RawDevs = {"d1"}
    MaxPieces = 2
    Readers = {t1}
    Writers = {t2}
    Classes = {"a", "nl", "intr", "stop", "start"}
    Typed = 3
    Written = 1
    NCLIST = 4
    CBSIZE = 2
    TTYHOG = 1
    TTHIWAT = 1
    TTLOWAT = 1
    TTHOLDQ = 2
    CANBSIZ = 4
    TXFIFO = 1
SPECIFICATION KernelSpec
CHECK_DEADLOCK FALSE
INVARIANTS
    
    FamilyTree
    NobodyForgotten
    HeadersShared
    
    OutputGoesOn
