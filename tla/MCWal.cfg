SPECIFICATION WalSpec
CONSTANTS
    max_segment_bytes = 2
    Sizes = {1, 2}
    Torn = Torn
    NoFile = NoFile
    MaxAppends = 6
INVARIANTS
    WalTypeOK
    ReplayInOrder
    SegmentsBounded
