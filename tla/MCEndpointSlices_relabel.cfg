\* The service label of a slice changes.
CONSTANTS
    es1 = es1
    es2 = es2
    es3 = es3
    a = a
    b = b
    m = m
    None = None
    Gone = Gone
    BaseConfig <- Base
    Overrides <- NoOverrides
    LocalityConfig <- RegionByLabel
    IncludeNotReady = FALSE
    Objects = {es1, es2}
    ContentsOf <- Relabelled
    Services = {a, b}
    Nodes = {m}
    NodeLabels = {}
    MaxChanges = 2
    MaxBreaks = 0
SPECIFICATION Spec
INVARIANTS
    ClustersMirrored
CHECK_DEADLOCK FALSE
