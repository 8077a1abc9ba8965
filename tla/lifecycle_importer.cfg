SPECIFICATION Spec
CONSTANTS
    Images = {i1}
    Variants = {v1, v2, v3}
    Types = {t1}
    NoType = NoType
    NoDownload = NoDownload
    NoImage = NoImage
    PutStates <- ImporterPutStates
SYMMETRY VariantSymmetry
\* A deleted image accepts no further request that changes it.
CHECK_DEADLOCK FALSE
INVARIANTS
    TypeOK
    VariantsBackState
PROPERTIES
    ImportedOnlyWhenAllImported
    DownloadsFollowTable
