SPECIFICATION Spec
CONSTANTS
    Artifact <- MCArtifact
    Popularity <- MCPopularity
    Similarity <- MCSimilarity
    Catalog <- MCCatalog
    Names <- MCNames
    Policy <- MCPolicy
    Unknown = Unknown
    Histories <- MCHistories
    Watches <- MCWatches
    Ties <- MCTies
    NoHistory = NoHistory
    NoRating = NoRating
    MaxImports = 1
    Unrated = NoRating
    NoBaseline = NoBaseline
    NewUsersThreshold = 2
    NewFilmsThreshold = 2
    MaxModelAge = 3
INVARIANTS
    TypeOK
    RepeatsAllowed
    RowsVaried
    RelaxedOnlyForMinimum
    FusionRespectsSources
    SourcesAreFull
    ShelvesWorthShowing
PROPERTIES
    AllocationEnds
