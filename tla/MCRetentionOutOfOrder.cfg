SPECIFICATION Spec
CONSTANTS
    Consumers = {c1, c2}
    Arrivals <- OutOfOrder
    PageSize = 2
    LsnMax = 4
    None = None
SYMMETRY
    Interchangeable
INVARIANT
    StreamHasNoGap
