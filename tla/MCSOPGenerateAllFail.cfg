SPECIFICATION Spec
CONSTANTS
    MaxCores = 2
    MaxShapes = 2
    IndexHalf = 4
INVARIANTS
    AllFailedAborts
