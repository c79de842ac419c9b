SPECIFICATION Spec
CONSTANTS
    Threads = {t1}
    NameStrings <- SharedStrings
    ValueStrings <- SharedStrings
    Keys <- AllStrings
    Values <- AllConversions
    Capacity = 3
INVARIANTS
    ConversionRight
