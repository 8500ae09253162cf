CONSTANTS
    First = 3
    Last = 4
    AtOnce = 2

SPECIFICATION Spec

INVARIANT ServesWhatItPlanned
INVARIANT ServesOnlyAudited
PROPERTY DownloadKeepsConverted

\* a settled owner leaves a runtime that is up alone
CHECK_DEADLOCK FALSE
