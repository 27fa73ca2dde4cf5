\* Ownership: p1 writes through two SlotWriters, reads, dies and restarts; p2 takes over the role.
SPECIFICATION Spec
CONSTANTS
    p1 = p1
    p2 = p2
    c1 = c1
    c2 = c2
    w1 = w1
    w2 = w2
    NoProc = NoProc
    Procs = {p1, p2}
    Consumers = {c2}
    Writers = {w1, w2}
    DirectWriters = {w1}
    ConsumerHost <- ReaderEach
    WriterHost <- WriterProcess
    SlotCount = 2
    MaxConsumers = 1
    SeqMod = 6
    FirstSeq = 1
    Mortal = {p1}
    MaxTokens = 2
    MaxHandles <- OneHandleEach
    AbortAfterRegister = TRUE
    ClaimDuringDrop = FALSE
INVARIANTS
    TypeOK
    ActiveReaderNeverOverwritten
    WritersExclusive
    SingleProducer
    NoOrphanBits
    RegistryConsistent
CHECK_DEADLOCK FALSE
