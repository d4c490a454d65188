SPECIFICATION BackpressureSpec
CONSTANTS
    Threads = {t1, t2}
    window = 3
    None = None
    buffer_size = 1
    max_pending = 2
    MaxEvents = 4
    MaxStreams = 1
    Callers = {p1, p2}
    Reasons = {RingBufferFull}
    NoReason = NoReason
    Idle = Idle
    MaxClosings = 2
INVARIANTS
    BackpressureTypeOK
    CreditsConserved
    LayersAgree
    SentInOrder
    ReasonSettles
PROPERTY
    AllReceived
