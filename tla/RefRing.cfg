\* Two consumers that may close early; the process of c2 may be killed, and the producer cut off in its copy.
SPECIFICATION FairSpec
CONSTANTS
    Consumers = {c1, c2}
    SlotCount = 2
    MaxConsumers = 2
    LastSeq = 6
    Mortal = {c2}
    Interruptible = {"copying"}
INVARIANTS
    TypeOK
    ViewsUndisturbed
    ReadersCounted
PROPERTIES
    ImplementsMulticast
    SlotsDrain
CHECK_DEADLOCK FALSE
