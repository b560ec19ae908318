CONSTANTS
    web = web
    dup = dup
    git = git
    star = star
    t1 = t1
    t2 = t2
    Place <- MCPlace
    Alias <- MCAlias
    Patterns = {star}
    Target <- MCTarget
    Configs <- MCConfigs
    Drafts <- MCDrafts
    MaxClock = 1
    MaxApplies = 2
    MaxEdits = 1
SPECIFICATION Spec
INVARIANTS
    TypeOK
    Recoverable
    OnlyAskedForGoes
    CandidatesAreSpare
