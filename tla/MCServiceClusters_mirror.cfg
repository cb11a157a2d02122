\* Services come, change and go; one override makes a cluster invalid.
CONSTANTS
    a = a
    b = b
    bad = bad
    tls = tls
    None = None
    Gone = Gone
    BaseConfig <- Base
    Overrides <- OneBadOverride
    LocalityConfig <- NoLocality
    IncludeNotReady = FALSE
    InvalidOptions = {bad}
    Objects = {a, b}
    ContentsOf <- SomePorts
    MaxChanges = 4
    MaxBreaks = 2
SPECIFICATION FairSpec
INVARIANTS
    TypeOK
    EveryPortServed
    GhostsAreLostPorts
    OnlyValidClusters
    DumpShowsServed
PROPERTIES
    EventuallyServed
CHECK_DEADLOCK FALSE
