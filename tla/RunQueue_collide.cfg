CONSTANTS
    Swapper = Swapper
    None = None
    Users = {u1, u2, u3}
    Chans = {c1}
    Runout = Runout
    Runin = Runin
    Swbuf = Swbuf
    Buckets = {b1, b2}
    b1 = b1
    b2 = b2
    Hash <- HashTogether
    Sigs = {"caught"}
    Core = 1
SPECIFICATION Spec
INVARIANT RunnableIsQueued
