SPECIFICATION LooseSpec
CONSTANTS
    Images = {i1}
    Variants = {v1}
    Types = {}
    NoType = NoType
    NoDownload = NoDownload
    NoImage = NoImage
    Workers = {w1, w2}
    Requests <- ImporterRequests
    NoRequest = NoRequest
    Free = Free
    Orphan = Orphan
    MaxFaults = 2
SYMMETRY Symmetry
INVARIANTS
    LooseTypeOK
    UploadedIsAnnounced
    AnnouncedOncePerFault
    PublishedAgainOncePerFault
