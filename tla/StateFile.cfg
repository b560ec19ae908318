CONSTANTS
    ui = ui
    worker = worker
    web = web
    pinned = pinned
    o1 = o1
    prod = prod
    NoMarks = NoMarks
    NoObs = NoObs
    NoPrefs = NoPrefs
    NoRequest = NoRequest
    Garbled = Garbled
    Absent = Absent
    Free = Free
    Machine <- MCMachine
    Marks <- MCMarks
    Obs <- MCObs
    Session <- MCSession
    Prefs <- MCPrefs
    Caller <- MCCaller
    Request <- MCRequest
    HistoryLimit = 1
    MaxCalls = 3
    MaxCrashes = 1
SPECIFICATION Spec
INVARIANTS
    TypeOK
    NoTempLeak
PROPERTIES
    CallsReturn
    StoreIsAtomic
