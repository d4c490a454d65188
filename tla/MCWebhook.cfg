SPECIFICATION FairSpec
CONSTANTS
    w1 = w1
    w2 = w2
    Tasks <- Two
    Events <- Four
    max_batch_size = 2
    failure_threshold = 2
    max_attempts = 2
    max_size = 2
    MaxFailures = 5
    None = None
INVARIANTS
    ExactlyOnePlace
    ClosedBelowThreshold
    ProbeUnderWay
PROPERTY
    AllSettled
