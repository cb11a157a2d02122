\* A service loses a port.
CONSTANTS
    a = a
    b = b
    bad = bad
    tls = tls
    None = None
    Gone = Gone
    BaseConfig <- Base
    Overrides <- SomeOverrides
    LocalityConfig <- NoLocality
    IncludeNotReady = FALSE
    InvalidOptions = {}
    Objects = {a, b}
    ContentsOf <- SomePorts
    MaxChanges = 2
    MaxBreaks = 0
SPECIFICATION Spec
INVARIANTS
    NoGhostClusters
CHECK_DEADLOCK FALSE
