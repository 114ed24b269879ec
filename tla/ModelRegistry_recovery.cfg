SPECIFICATION Spec
CONSTANTS
    Operators = {o1}
    Apis = {a1}
    MaxVersion = 3
    KeepPrevious = 1
    HasLegacy = TRUE
    NoVersion = NoVersion
    LegacyFlat = LegacyFlat
    Events = {"damaged"}
    MaxFaults = 1
PROPERTY RecoveryReplacesFailed
