SPECIFICATION FairSpec
CONSTANTS
    Operators = {o1}
    Apis = {a1, a2}
    MaxVersion = 3
    KeepPrevious = 1
    HasLegacy = TRUE
    NoVersion = NoVersion
    LegacyFlat = LegacyFlat
    Events = {"dies", "damaged"}
    MaxFaults = 2
INVARIANTS TypeOK PromotedIsSound
PROPERTIES RetentionKeeps ActivationCatchesUp
