SPECIFICATION Spec
CONSTANTS
    Imports = {i1, i2}
    Batches = {b1, b2}
    Users = {u1, u2}
    Slugs = {s1, s2}
    HalfStars = {r1}
    NoRating = unrated
    Years = {y1}
    NoYear = NoYear
    Blank = Blank
    y1 = y1
    unknown = unknown
    Catalog <- MCCatalog
    Archives <- MCArchives
    FilmPages <- MCFilmPages
    Answers <- MCAnswers
    None = unrated
    Unusable = Unusable
    NoLog = NoLog
    NoSlug = NoSlug
    BatchSize = 1
    MaxWatches = 1
    MaxFailures = 1
    Events = {"abandoned", "outlives", "batch_fails", "persist_fails", "import_fails", "catalog_load"}
INVARIANTS
    TypeOK
    ProcessedHasFilm
    NothingLost
    LogsAreImported
    ExportStaysResolved
    QueuedOnce
PROPERTIES
    ProcessedFallsToOverlap
SYMMETRY Symmetry
