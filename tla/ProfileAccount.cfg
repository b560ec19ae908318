CONSTANTS
    dev = dev
    prod = prod
    NoProfile = NoProfile
    Profile <- MCProfile
    Static = {dev}
    Flags = {NoProfile}
    SourceFlags = {"all"}
    Preferences = {prod}
    ProfileLists <- MCProfileLists
    IdentityFails = FALSE
    MaxAsked = 2
SPECIFICATION Spec
PROPERTIES
    MachineIDsAreStable
