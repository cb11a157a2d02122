\* Two writers, and one client that may be answered twice.
CONSTANTS
    n1 = n1
    n2 = n2
    Names = {n1, n2}
    Values = {v1}
    Absent = Absent
    Invalid = {}
    Unmarshalable = {}
    Batches <- FullOrOne
    Writers = {w1, w2}
    Streams = {s1}
    Subscriptions <- OrderedPairs
    RequestNodes = {TRUE}
    Nobody = Nobody
    MaxVersion = 1
    MaxPushes = 2
SYMMETRY WriterSymmetry
SPECIFICATION Spec
INVARIANTS
    NoLostUpdate
    CurrentVersionIsCurrent
PROPERTIES
    SubscriptionFixed
    ImplementsService
CHECK_DEADLOCK FALSE
