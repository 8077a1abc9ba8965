SPECIFICATION ReadSpec
CONSTANTS
    Images = {i1}
    Variants = {v1, v2, v3}
    Types = {t1}
    NoType = NoType
    NoDownload = NoDownload
    NoImage = NoImage
    PutStates <- ImageStates
SYMMETRY VariantSymmetry
INVARIANTS
    ReadTypeOK
    DownloadsFitState
    ReadsFollowNoNil
PROPERTIES
    NeverGoesBack
