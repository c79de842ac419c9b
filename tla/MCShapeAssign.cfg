SPECIFICATION Spec
CONSTANTS
    r1 = r1
    r2 = r2
    height = height
    width = width
    NumPrims = 3
    ClsValues <- FallbackAndTwo
    ClsAttribute = cls
    ClsNames = {cls}
    Rpks = {r1, r2}
    Seeds = {7}
    Keys = {height, width}
    RuleAttrs <- TwoRuleFiles
    HiddenAttrs <- OneHides
    None = None
INVARIANTS
    TypeOK
    GenerateSeesAssigned
    OwnAttributes
    DefaultsOfFirstPart
CHECK_DEADLOCK FALSE
