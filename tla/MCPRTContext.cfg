SPECIFICATION FairSpec
CONSTANTS
    AssignNodes = {a1, a2}
    Clients = {c1}
    Rpks = {r1}
    AttrRpks = {}
    MaxVersion = 2
    NoRpk = NoRpk
    Nobody = Nobody
INVARIANTS
    TypeOK
    EntryFresh
    RulesNotOlder
PROPERTIES
    ReloadReachesNodes
