SPECIFICATION Spec
CONSTANTS
    MaxInitialShapes = 1
    MaxLeaves = 2
    Leaves <- MCLeaves
    ShapeIdOf <- MCShapeIdOf
    Keys <- MCKeys
    Blacklist <- MCBlacklist
    EmitOptions <- MCEmitOptions
INVARIANTS
    ShapeIdPerRange
CHECK_DEADLOCK FALSE
