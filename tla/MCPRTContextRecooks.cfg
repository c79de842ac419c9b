SPECIFICATION FairSpec
CONSTANTS
    AssignNodes = {a1}
    Clients = {}
    Rpks = {r1, r2}
    AttrRpks = {r1}
    MaxVersion = 2
    NoRpk = NoRpk
    Nobody = Nobody
PROPERTIES
    RecooksEnd
CHECK_DEADLOCK FALSE
