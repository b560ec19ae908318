CONSTANTS
    web = web
    dup = dup
    git = git
    star = star
    t1 = t1
    t2 = t2
    Place <- MCPlace
    Alias <- MCAlias
    Patterns = {star}
    Target <- MCTarget
    Configs <- MCTwiceNamed
    Drafts <- MCDrafts
    MaxClock = 1
    MaxApplies = 1
    MaxEdits = 0
SPECIFICATION Spec
INVARIANTS
    OnlyCandidatesGo
