CONSTANTS
    Parts = {"ed", "dc", "calc", "fs", "dump", "init", "malloc", "stdio", "sort", "lines", "diff",
             "regex", "sed", "sh", "shword", "shsame", "names", "cron", "dates"}
    EdBlk = 3
    EdLBSIZE = 4
    EdMaxLines = 4
    EdMaxText = 8
    EdCmds = 3
    EdTyped <- EdLineAB
    EdFile0 <- EdFileB
    DcSTKSZ = 2
    DcBlocks = {1, 2, 3, 4, 5}
    DcMoves = 9
    FsNICFREE = 3
    FsNINDIR = 2
    FsNDIRECT = 2
    FsLADDR = 2
    FsINOPB = 2
    FsMAXFN = 6
    FsHSIZE = 5
    FsProtos <- Protos
    FsSizes <- Sizes
    FsRatios <- Ratios
    DuInos = {4, 5}
    DuShapes <- Shapes
    DuLevels = {0, 1, 2}
    DuNTREC = 3
    DuCap = 2
    DuSteps = 3
    DuDevice <- Device
    InTABSIZ = 3
    InPids = {1, 2, 3, 4}
    InFiles <- Ttys
    InEvents = 2
    ArBlock = 4
    ArBreak = 4
    ArTop = 12
    ArWords = {1, 2, 4}
    ArTags = {1, 2}
    StBUFSIZ = 3
    StTexts <- Streams
    StBytes = {6}
    StMax = 6
    StOps = 5
    StReuse = FALSE
    SoN = 2
    SoL = 9
    SoNF = 3
    SoNlines = 2
    SoNtext = 100
    LiLBIN = 5
    LiBIG = 5000
    DiMod = 3
    RgNBRA = 2
    RgChars = {10, 97, 98, 120}
    SdPTRSIZE = 8
    SdDEPTH = 2
    SdLBSIZE = 30
    SdABUFSIZE = 3
    ShNames = {"a", "b", "x", "y", "e", "echo", "true", "false", "cat", "kill", "break", "continue", "exit", "set",
               "trap", "wait", "eval", "read", "proc", "env", "export", "readonly", "shift", "exec", "."}
    ShOrder <- ShellOrder
    ShProcs <- ShellProcs
    NaTrees <- TreeTable
    NaMAXN = 20
    CrLISTS = 12
SPECIFICATION ProgramsSpec
CHECK_DEADLOCK FALSE
INVARIANTS
    
    
    EdKeepsLines
    
    BlocksIntact
    StreamsFaithful
PROPERTIES
    ToolsAgree
    ScriptsMeanWhatTheySay
    FilesKept
