SPECIFICATION IngestFairSpec
CONSTANTS
    Txns <- MCTxns
    Events <- MCEvents
    LsnOf <- MCLsnOf
    SizeOf <- MCSizeOf
    XidOf <- MCXidOf
    LsnMax = 6
    Capacity = 1
    MaxBytes = 2
    MaxAge = 1
    MaxPushes = 12
    MaxRestarts = 2
INVARIANTS
    AckedIsStored
    NoGap
PROPERTY
    EventuallyStored
