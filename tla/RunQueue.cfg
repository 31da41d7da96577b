CONSTANTS
    Swapper = Swapper
    None = None
    Users = {u1, u2}
    Chans = {c1, c2}
    Runout = Runout
    Runin = Runin
    Swbuf = Swbuf
    Buckets = {b1, b2}
    b1 = b1
    b2 = b2
    Hash <- HashApart
    Sigs = {"caught", "ignored"}
    Core = 1
SPECIFICATION FairSpec
INVARIANTS QueuesExact SignalEndsSleep
PROPERTIES
    SwapperGetsToRun
    ImplementsSleepWakeup
