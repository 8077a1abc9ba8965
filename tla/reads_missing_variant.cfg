SPECIFICATION ReadSpec
CONSTANTS
    Images = {i1}
    Variants = {v1, v2}
    Types = {}
    NoType = NoType
    NoDownload = NoDownload
    NoImage = NoImage
    PutStates <- ImageStates
SYMMETRY VariantSymmetry
INVARIANTS
    MissingVariantIsNotFound
