SPECIFICATION Spec
CONSTANTS
    MaxInitialShapes = 2
    MaxLeaves = 2
    Leaves <- MCLeaves
    ShapeIdOf <- MCShapeIdOf
    Keys <- MCKeys
    Blacklist <- MCBlacklist
    EmitOptions <- MCEmitOptions
INVARIANTS
    CornersOwn
    HolesOwn
    KeepsValues
PROPERTIES
    NoForeignValues
CHECK_DEADLOCK FALSE
