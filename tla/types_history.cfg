SPECIFICATION HistorySpec
CONSTANTS
    Images = {i1}
    Variants = {v1}
    Types = {t1, t2}
    NoType = NoType
    NoDownload = NoDownload
    NoImage = NoImage
    PutStates <- ImageStates
\* A deleted image accepts no further request that changes it.
CHECK_DEADLOCK FALSE
INVARIANTS
    TypeMatchesFirst
