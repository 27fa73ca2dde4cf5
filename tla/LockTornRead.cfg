\* Three threads of two processes, told apart by their start times, and nobody is killed.
SPECIFICATION Spec
CONSTANTS
    p1 = p1
    p2 = p2
    p3 = p3
    t1 = t1
    t2 = t2
    t3 = t3
    NoProc = NoProc
    Procs = {p1, p2}
    Threads = {t1, t2, t3}
    Host <- TwoAndOne
    StartToken <- Tokens
    Mortal = {}
    SafePoints = {"recordOwner", "clearToken", "release"}
INVARIANT
    MutualExclusion
CHECK_DEADLOCK FALSE
