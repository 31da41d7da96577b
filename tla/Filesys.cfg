CONSTANTS
    Parts = {"inode", "blocks", "mount", "files"}
    IProcs = {p1, p2}
    Names = {a, b}
    NINODE = 3
    NInos = 2
    INOPB = 1
    NICINOD = 1
    ICalls = {"open", "creat", "link", "unlink", "pipe", "sync"}
    BProcs = {p1, p2}
    FileSet = {a, b}
    FSIZE = 5
    NICFREE = 2
    NDIR = 1
    NINDIR = 2
    Lbns = {0, 7}
    BCalls = 3
    MProcs = {q1, q2}
    Mounters = {q1}
    Points = {a}
    Devs = {p1, p2}
    NMOUNT = 3
    FProcs = {f1, f2}
    NFILE = 3
    NOFILE = 2
    Plain = {"a"}
    Pipes = {"i1"}
    Ends = {"close"}
SYMMETRY FilesysSymmetry
SPECIFICATION FilesysSpec
CHECK_DEADLOCK FALSE
INVARIANTS
    
    
    EveryBlockOnce
    SuperSaved
    MountTableSound
    FilesCounted
