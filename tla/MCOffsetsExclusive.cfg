SPECIFICATION OffsetsSpec
CONSTANTS
    c1 = c1
    c2 = c2
    t1 = t1
    t2 = t2
    Consumers = {c1, c2}
    Workers = {t1, t2}
    Owner <- Exclusive
    LsnMax = 3
    Nothing = Nothing
INVARIANT
    WatermarkSafe
PROPERTY
    NeverRegresses
