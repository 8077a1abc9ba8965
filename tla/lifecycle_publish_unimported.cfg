SPECIFICATION Spec
CONSTANTS
    Images = {i1}
    Variants = {v1, v2}
    Types = {}
    NoType = NoType
    NoDownload = NoDownload
    NoImage = NoImage
    PutStates <- ImageStates
\* A deleted image accepts no further request that changes it.
CHECK_DEADLOCK FALSE
PROPERTIES
    DownloadsFollowTable
