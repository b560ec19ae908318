CONSTANTS
    web = web
    db = db
    NoObs = NoObs
    NoPrefs = NoPrefs
    NoMachine = NoMachine
    Machine <- MCMachine
    Marks <- MCMarks
    NoMarks <- MCNoMarks
    Obs <- MCObs
    Session <- MCSession
    Prefs = {NoPrefs}
    HistoryLimit = 1
    Listed = 0
    Inventories <- MCInventories
    SearchHits = {web}
    Searches = {TRUE, FALSE}
    Shows = {TRUE, FALSE}
    Filters = {"none"}
    StoreFails = FALSE
    MaxEdits = 0
    MaxRefreshes = 2
    MaxChecks = 0
    MaxSessions = 0
SPECIFICATION Spec
PROPERTIES
    StaleRefreshIsDropped
