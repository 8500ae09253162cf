CONSTANTS
    Workers = {w1, w2}
    Main = main
    Nobody = nobody
    DecodeStart = 1
    DecodeStop = 3
    MaxSteps = 4
    MaxReads = 2

SPECIFICATION Spec
SYMMETRY WorkerSymmetry

INVARIANT FlowsInOrder
INVARIANT SummaryIsTrue
INVARIANT OnlyTheWindow
INVARIANT OnlyAFailedStepLosesEvents

\* a closed runtime takes no further step
CHECK_DEADLOCK FALSE
