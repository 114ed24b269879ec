SPECIFICATION Spec
CONSTANTS
    Imports = {i1, i2}
    Batches = {b1}
    Users = {u1}
    Slugs = {s1}
    HalfStars = {}
    NoRating = unrated
    Years = {y1}
    NoYear = NoYear
    Blank = Blank
    y1 = y1
    unknown = unknown
    Catalog <- MCCatalog
    Archives <- MCArchives
    FilmPages <- MCFilmPages
    Answers <- MCAnswers
    None = unrated
    Unusable = Unusable
    NoLog = NoLog
    NoSlug = NoSlug
    BatchSize = 1
    MaxWatches = 1
    MaxFailures = 1
    Events = {}
INVARIANTS
    SharedSnapshot
SYMMETRY Symmetry
