SPECIFICATION Spec
CONSTANTS
    Versions <- MCVersions
    NoPre = NoPre
    None = None
    MaxMishaps = 3
INVARIANTS
    PublicStateIsConsistent
    NeverBackwardsUnasked
PROPERTIES
    PrereleaseCompletes
CHECK_DEADLOCK FALSE
