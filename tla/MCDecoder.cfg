SPECIFICATION StreamSpec
CONSTANTS
    orders = orders
    users = users
    x = x
    Tables = {orders, users}
    Xids = {7}
    Texts <- MCTexts
    Chars <- MCChars
    Null = Null
    Unchanged = Unchanged
    None = None
    Failed = Failed
    Configs <- MCConfigs
    U16 = 4
    U32 = 4
    NoRule = NoRule
    OpPrefix = OpPrefix
    Bang = Bang
    Equals = Equals
    Greater = Greater
    Less = Less
    Compare <- MCCompare
    MaxVersion = 2
    Lsns = {1, 2, 3}
    Contents <- MCContents
    Publications = {{users}, {orders, users}}
    MaxCalls = 4
    Unit = 7
    rate = 3
    burst = 2
    MaxTime = 9
INVARIANTS
    StreamTypeOK
    EventDescribesChange
    StoredIfRowPasses
    ReadAsWritten
    DdlTakenOnce
    
    RateLimited
    BackoffIsEnough
