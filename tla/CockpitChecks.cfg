CONSTANTS
    web = web
    db = db
    NoObs = NoObs
    NoPrefs = NoPrefs
    NoMachine = NoMachine
    Machine <- MCMachine
    Marks <- MCMarks
    NoMarks <- MCNoMarks
    Obs <- MCObs
    Session <- MCSession
    Prefs = {NoPrefs}
    HistoryLimit = 1
    Listed = 0
    Inventories <- MCInventories
    SearchHits = {web}
    Searches = {FALSE}
    Shows = {FALSE}
    Filters = {"none"}
    StoreFails = FALSE
    MaxEdits = 0
    MaxRefreshes = 2
    MaxChecks = 3
    MaxSessions = 1
SPECIFICATION Spec
INVARIANTS
    GlyphMeansPending
PROPERTIES
    GlyphsClear
