SPECIFICATION Spec
CONSTANTS
    Images = {i1}
    Variants = {v1, v2}
    Types = {}
    NoType = NoType
    NoDownload = NoDownload
    NoImage = NoImage
    Workers = {w1, w2}
    Requests <- AnyClientRequests
    NoRequest = NoRequest
    Free = Free
    Orphan = Orphan
    MaxFaults = 1
SYMMETRY Symmetry
INVARIANTS
    TypeOK
    DecisionIsCurrent
    PublishingIsStable
    PublishedOnce
    EventsFollowPublication
    UploadedIsAnnounced
    PublishReplyMeansQueued
PROPERTIES
    ImplementsLifecycle
