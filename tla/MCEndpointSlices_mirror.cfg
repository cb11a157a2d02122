\* Slices of two services change, a watch breaks or the process restarts.
CONSTANTS
    es1 = es1
    es2 = es2
    es3 = es3
    a = a
    b = b
    m = m
    None = None
    Gone = Gone
    BaseConfig <- Base
    Overrides <- NoOverrides
    LocalityConfig <- RegionByLabel
    IncludeNotReady = FALSE
    Objects = {es1, es2, es3}
    ContentsOf <- ThreeSlices
    Services = {a, b}
    Nodes = {m}
    NodeLabels <- Labels
    MaxChanges = 3
    MaxBreaks = 1
SPECIFICATION FairSpec
INVARIANTS
    TypeOK
    ClustersMirrored
    EndpointsMirrored
    LocalitiesCatchUp
    DumpShowsServed
PROPERTIES
    NeverWithdrawn
    ImplementsAssignments
    EventuallyMirrored
CHECK_DEADLOCK FALSE
