SPECIFICATION Spec
CONSTANTS
    FilmOf <- MCFilmOf
    Draw <- MCDraw
    FoldCount = 3
    HoldoutLimit = 1
    NoTarget = NoTarget
    SvdDepth = 4
    PopularityDepth = 4
    GroupCap = 5
    TopRank = 2
    Cutoff = 3
    Prediction <- MCPrediction
    Weights <- MCWeights
    RrfK = {1, 2, 6}
    DefaultConfiguration <- MCDefault
    PlateauWidth = 1000
    Csvs <- MCCsvs
    Plans <- MCPlans
    Seeds = {1, 2}
    AblationNames <- MCAblationNames
    Leftovers <- MCLeftovers
    MaxJobs = 3
    MaxCrashes = 1
    None = None
INVARIANTS
    TypeOK
    NoLeak
    GroupsHonest
    EveryTargetCountedOnce
    ReportOverOwnFiles
CHECK_DEADLOCK FALSE
