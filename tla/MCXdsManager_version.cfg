\* Two clients that hold the same version.
CONSTANTS
    n1 = n1
    n2 = n2
    Names = {n1}
    Values = {v1}
    Absent = Absent
    Invalid = {}
    Unmarshalable = {}
    Batches <- FullOrOne
    Writers = {w1}
    Streams = {s1, s2}
    Subscriptions <- WildcardOnly
    RequestNodes = {TRUE}
    Nobody = Nobody
    MaxVersion = 2
    MaxPushes = 1
SPECIFICATION Spec
INVARIANTS
    VersionIdentifiesConfig
CHECK_DEADLOCK FALSE
