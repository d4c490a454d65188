SPECIFICATION FairSpec
CONSTANTS
    Events <- MCEvents
    LsnOf <- MCLsnOf
    SizeOf <- MCSizeOf
    LsnMax = 7
    Capacity = 2
    MaxBytes = 4
    MaxAge = 2
    MaxPushes = 4
INVARIANTS
    NoLossInOrder
    BatchSummary
PROPERTIES
    ImplementsEventLog
    EventuallyDelivered
