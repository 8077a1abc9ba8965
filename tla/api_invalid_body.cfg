SPECIFICATION Spec
CONSTANTS
    Images = {i1}
    Variants = {v1}
    Types = {}
    NoType = NoType
    NoDownload = NoDownload
    NoImage = NoImage
    Workers = {w1}
    Requests <- InvalidRequests
    NoRequest = NoRequest
    Free = Free
    Orphan = Orphan
    MaxFaults = 0
INVARIANTS
    InvalidBodyIsBadRequest
