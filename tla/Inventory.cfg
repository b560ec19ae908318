CONSTANTS
    web = web
    Web = Web
    db = db
    star = star
    h1 = h1
    github = github
    p1 = p1
    p22 = p22
    bad = bad
    Git = Git
    Unset = Unset
    Lines <- MCLines
    Lower <- MCLower
    Patterns = {star}
    ScmHosts = {github}
    Numbers = {p1, p22}
    DefaultPort = p22
    NodeCount = 2
    Fleets <- MCFleets
    Configs <- MCConfigs
    Sources <- MCSources
    HostLists <- MCHostLists
    Alias <- MCAlias
    StoreFails = TRUE
    Tokens <- MCTokens
    Rows <- MCRows
    MaxListings = 2
    MaxChanges = 1
    MaxEdits = 1
    MaxLines = 6
    MaxTyped = 3
    Parts = {"config", "listing", "filter"}
SPECIFICATION MCSpec
INVARIANTS
    TypeOK
    NodesAreListed
    ProvidersFailApart
    FilterMeansWhatItSays
    ParsersAgree
    RemovalIsExact
    TargetsAreSpared
    CleanupGoesByBlocks
PROPERTIES
    EditsKeepMachines
    ListingEnds
    LinesAreSeparate
CHECK_DEADLOCK FALSE
