CONSTANTS
    Layers = {3, 4}
    Contents = {v1, v2}
    NoFile = NoFile
    NoLayer = NoLayer
    MaxRuns = 4

SPECIFICATION Spec

INVARIANT ShardsAreWhole
INVARIANT OuterFilesAreWhole
INVARIANT SuccessIsUniform
PROPERTY ImplementsLossless

\* the owner may stop running the command
CHECK_DEADLOCK FALSE
