SPECIFICATION MCSpec
CONSTANTS
    Names = {plain, cache}
    Keeps = {cache}
    Pages <- SomePages
    Rects <- SomeRects
    Sizes <- SomeSizes
    MaxCalls = 4
INVARIANTS
    TypeOK
    BuffersCoverPictures
    RotationAsserts
PROPERTIES
    ImplementsPictures
CHECK_DEADLOCK FALSE
