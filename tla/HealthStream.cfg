CONSTANTS
    m1 = m1
    m2 = m2
    m3 = m3
    id1 = id1
    id2 = id2
    NoMachine = NoMachine
    Machine <- MCMachine
    IdOf <- MCIdOf
    Checkable <- MCCheckable
    MaxConcurrent = 2
    CanCancel = TRUE
    MaxExec = 1
    MaxSingles = 1
    Later = {second}
    Views <- MCViews
SPECIFICATION Spec
INVARIANTS
    TypeOK
    ConcurrencyBounded
    NoSendAfterClose
    RecordedBeforeShown
    GlyphsMatchPending
PROPERTIES
    BatchCompletes
    StreamKeepsPromise
