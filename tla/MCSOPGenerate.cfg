SPECIFICATION FairSpec
CONSTANTS
    MaxCores = 3
    MaxShapes = 3
    IndexHalf = 4
INVARIANTS
    TypeOK
    OutputComplete
    OwnGroupAndAttributes
    OcclusionBeforeGeneration
    AbortOnlyIfAllErred
PROPERTIES
    HolesAfterLastAdd
    CookReturns
