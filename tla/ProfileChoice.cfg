CONSTANTS
    dev = dev
    prod = prod
    NoProfile = NoProfile
    Profile <- MCProfile
    Static = {dev}
    Flags = {NoProfile}
    SourceFlags = {"all", "ssh"}
    Preferences = {NoProfile, prod}
    ProfileLists <- MCProfileLists
    IdentityFails = TRUE
    MaxAsked = 2
SPECIFICATION Spec
INVARIANTS
    TypeOK
    PickerInRange
    ChoiceHolds
    RestIsCurrent
