SPECIFICATION Spec
CONSTANTS
    Packages = {"facade", "facade2", "facade3", "city", "door"}
    RuleFile <- RuleFiles
    Edits <- UserEdits
    MaxItems = 2
    Folder = 49
    Parts <- DottedParts
    Spelling <- Colours
    Black = 0
INVARIANTS
    TypeOK
    ShowsGenerated
    GenerateGetsOverrides
    NoAttributeLost
    ParmsInOrder
PROPERTIES
    SetValuesKept
    Settles
CHECK_DEADLOCK FALSE
