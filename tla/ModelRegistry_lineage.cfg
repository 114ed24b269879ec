SPECIFICATION Spec
CONSTANTS
    Operators = {o1}
    Apis = {a1}
    MaxVersion = 4
    KeepPrevious = 2
    HasLegacy = TRUE
    NoVersion = NoVersion
    LegacyFlat = LegacyFlat
    Events = {}
    MaxFaults = 0
INVARIANT LineagePermitsRestore
