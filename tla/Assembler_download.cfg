CONSTANTS
    s1 = s1
    s2 = s2
    Shards = {s1, s2}
    Chunks <- TwoShards
    SupportFiles = {f1}
    Workers = 2
    Retries = 2
    NoProgress = NoProgress
    MaxCrashes = 2
    MaxFaults = 3

SPECIFICATION FairSpec

INVARIANT ProgressIsTrue
INVARIANT LosesOneChunk
INVARIANT FinalIsRight
INVARIANT AcceptedIsComplete
PROPERTY Completes
