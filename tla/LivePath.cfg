\* Both processes may be killed and started again. The bridge streams two epochs; a
\* Python process reads through one Consumer that is closed and opened again, and
\* publishes through a SlotWriter when it gets the role.  2 slots, 3 sequences across the wrap.
SPECIFICATION LiveSpec
CONSTANTS
    p1 = p1
    p2 = p2
    c1 = c1
    pending = pending
    copy = copy
    python = python
    NoProc = NoProc
    Procs = {p1, p2}
    Consumers = {c1}
    Writers = {pending, copy, python}
    DirectWriters = {pending, python}
    PyWriters = {python}
    Bridge = p1
    PendingWriter = pending
    CopyWriter = copy
    ConsumerHost <- ReadersAtP2
    WriterHost <- WritersOfEach
    SlotCount = 2
    MaxConsumers = 1
    SeqMod = 8
    FirstSeq = 7
    Mortal = {p1, p2}
    MaxTokens = 2
    MaxHandles <- OneHandleEach
    AbortAfterRegister = TRUE
    ClaimDuringDrop = FALSE
    StaleReleaseRaces = FALSE
    Expected = 1
    MaxEpochs = 2
    MaxSequences = 3
INVARIANTS
    LiveTypeOK
    ViewsUndisturbed
    TraceContiguous
    EpochsReachAudience
    WholeFrames
PROPERTIES
    PublishedFrozen
    OnlyReadersLetGo
CHECK_DEADLOCK FALSE
