SPECIFICATION Spec
CONSTANTS
    Images = {i1}
    Variants = {v1, v2}
    Types = {}
    NoType = NoType
    NoDownload = NoDownload
    NoImage = NoImage
    Workers = {w1, w2}
    Requests <- ImporterRequests
    NoRequest = NoRequest
    Free = Free
    Orphan = Orphan
    MaxFaults = 3
SYMMETRY Symmetry
INVARIANTS
    AnnouncedOncePerFault
    ImporterIsNotEarly
PROPERTIES
    LostOnlyByItsSender
