SPECIFICATION WorkflowFairSpec
CONSTANTS
    Images = {i1}
    Variants = {v1, v2}
    Types = {}
    NoType = NoType
    NoDownload = NoDownload
    NoImage = NoImage
    Workers = {w1, w2}
    Requests <- WorkflowRequests
    NoRequest = NoRequest
    Free = Free
    Orphan = Orphan
    MaxFaults = 2
\* At the end of the life of every image nobody wants anything more.
CHECK_DEADLOCK FALSE
INVARIANTS
    NothingLeftBehind
PROPERTIES
    RequestsAnswered
    EveryImageEnds
