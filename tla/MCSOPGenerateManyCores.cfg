SPECIFICATION Spec
CONSTANTS
    MaxCores = 3
    MaxShapes = 3
    IndexHalf = 2
INVARIANTS
    OutputComplete
