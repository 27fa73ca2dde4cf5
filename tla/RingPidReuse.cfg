\* The pid of a dead consumer is inherited by a new process.
SPECIFICATION FairSpec
CONSTANTS
    p1 = p1
    p2 = p2
    c1 = c1
    c2 = c2
    w1 = w1
    w2 = w2
    NoProc = NoProc
    Procs = {p1, p2}
    Consumers = {c1, c2}
    Writers = {w1}
    DirectWriters = {}
    ConsumerHost <- ReaderEach
    WriterHost <- WriterProcess
    SlotCount = 2
    MaxConsumers = 2
    SeqMod = 6
    FirstSeq = 1
    Mortal = {p2}
    MaxTokens = 2
    MaxHandles <- OneHandleAtP1
    AbortAfterRegister = FALSE
    ClaimDuringDrop = TRUE
PROPERTY
    ProducerUnblocked
CHECK_DEADLOCK FALSE
