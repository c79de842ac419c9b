SPECIFICATION Spec
CONSTANTS
    Threads = {t1, t2}
    NameStrings <- Names
    ValueStrings <- OtherValues
    Keys <- AllStrings
    Values <- AllConversions
    Capacity = 3
INVARIANTS
    CacheTypeOK
    IteratorsValid
    ConversionRight
PROPERTIES
    EvictsLeastRecentlyUsed
