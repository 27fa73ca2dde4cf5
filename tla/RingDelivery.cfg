\* Delivery: p1 publishes and aborts; two consumers of p2 share the slots, and p2 may die.
SPECIFICATION Spec
CONSTANTS
    p1 = p1
    p2 = p2
    c1 = c1
    c2 = c2
    w1 = w1
    w2 = w2
    NoProc = NoProc
    Procs = {p1, p2}
    Consumers = {c1, c2}
    Writers = {w1}
    DirectWriters = {w1}
    ConsumerHost <- ReaderProcess
    WriterHost <- WriterProcess
    SlotCount = 2
    MaxConsumers = 2
    SeqMod = 6
    FirstSeq = 1
    Mortal = {p2}
    MaxTokens = 1
    MaxHandles <- OneHandleAtP1
    AbortAfterRegister = FALSE
    ClaimDuringDrop = FALSE
INVARIANTS
    ActiveReaderNeverOverwritten
    DeliveredOnce
    NoneStranded
PROPERTIES
    DeliveryContiguous
    ImplementsMulticast
CHECK_DEADLOCK FALSE
