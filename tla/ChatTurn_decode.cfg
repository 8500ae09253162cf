CONSTANTS
    begins = begins
    ends = ends
    eos = eos
    Tokens <- MCTokens
    EOS <- MCEnd
    Special <- MCEnd
    Piece <- MCPiece
    ContextLimit = 6
    Unstaged = Unstaged

SPECIFICATION ChatSpec

INVARIANT TypeOK
INVARIANT CachesHoldTheText
INVARIANT DrafterPairsTheText
INVARIANT GuardsNeverRaise
INVARIANT StatisticsAddUp
INVARIANT ShownIsTheText
PROPERTY ImplementsGreedy

\* a finished or failed request takes no further step
CHECK_DEADLOCK FALSE
