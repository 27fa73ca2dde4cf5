\* A thread in each of three processes with start times, of which two may be killed, so that
\* two waiters survive the first death and a thief may die too.
SPECIFICATION FairSpec
CONSTANTS
    p1 = p1
    p2 = p2
    p3 = p3
    t1 = t1
    t2 = t2
    t3 = t3
    NoProc = NoProc
    Procs = {p1, p2, p3}
    Threads = {t1, t2, t3}
    Host <- OneEach
    StartToken <- Tokens
    Mortal = {p1, p2}
    SafePoints = {"recordOwner", "clearToken", "release"}
INVARIANTS
    TypeOK
    ExclusionKept
PROPERTY
    LockRecovers
CHECK_DEADLOCK FALSE
