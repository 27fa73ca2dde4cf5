\* The holder is killed before it has recorded itself, or after it has erased itself.
SPECIFICATION FairSpec
CONSTANTS
    p1 = p1
    p2 = p2
    p3 = p3
    t1 = t1
    t2 = t2
    t3 = t3
    NoProc = NoProc
    Procs = {p1, p2}
    Threads = {t1, t2, t3}
    Host <- TwoAndOne
    StartToken <- Tokens
    Mortal = {p1}
    SafePoints = {}
PROPERTY
    LockRecovers
CHECK_DEADLOCK FALSE
