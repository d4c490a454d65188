SPECIFICATION FairSpec
CONSTANTS
    hard_cap_bytes = 4
    MaxHead = 9
PROPERTY
    PauseEnds
