SPECIFICATION Spec
CONSTANTS
    ByteBits = 4
    HeaderBytes = 1
    ExceptionBytes = 1
    TileScales = 4
    MaxDirectory = 2
    Experts = 3
    Capacity = 2
    Samples <- MCSamples
    MaxRequests <- MCMaxRequests
    Routes <- MCRoutes
    MaxShort = 1
    MaxFaults = 1
INVARIANT CacheHoldsTheOriginals
INVARIANT ServesItsRequest
INVARIANT CountersAddUp
INVARIANT RowsAreIndexed

\* no call is made after the last one
CHECK_DEADLOCK FALSE
