SPECIFICATION StartupSpec
CONSTANTS
    r1 = r1
    r2 = r2
    r3 = r3
    tables <- MCTables
    a = a
    b = b
    numbered = numbered
    Values = {a, b, numbered}
    TryGet <- MCTryGet
    None = None
    Half = 2
    MaxWal = 3
    MaxRestarts = 1
    orders = orders
    users = users
    publication <- MCPublication
    Definitions <- MCDefinitions
    Hash <- MCHash
    MaxLoads = 2
INVARIANTS
    StartupTypeOK
    SnapshotThenStreamConverges
    LoadedIsRecent
    
    ReadyWhileRunning
PROPERTY
    ShutdownCompletes
