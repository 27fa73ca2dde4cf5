\* A producer that may be killed, its successor, a consumer and one that may be
\* killed; 2 slots, one entry, 3 publications across the wrap of the counter.
SPECIFICATION Spec
CONSTANTS
    P1 = P1
    P2 = P2
    c1 = c1
    c2 = c2
    Producers = {P1, P2}
    Consumers = {c1, c2}
    NoProc = NoProc
    SlotCount = 2
    MaxConsumers = 1
    SeqMod = 8
    FirstSeq = 7
    Mortal = {P1, c2}
    MaxPublications = 3
INVARIANTS
    TypeOK
    LeasesIntact
    NoSlotLost
    CountKept
    SleepersWoken
PROPERTY
    ImplementsMulticast
CHECK_DEADLOCK FALSE
