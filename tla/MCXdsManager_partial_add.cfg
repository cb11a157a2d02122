\* Add is given an invalid resource after a valid one.
CONSTANTS
    n1 = n1
    n2 = n2
    Names = {n1, n2}
    Values = {v1, bad}
    Absent = Absent
    Invalid = {bad}
    Unmarshalable = {}
    Batches <- AllBatches
    Writers = {w1}
    Streams = {s1}
    Subscriptions <- WildcardOrOne
    RequestNodes = {TRUE}
    Nobody = Nobody
    MaxVersion = 2
    MaxPushes = 1
SPECIFICATION Spec
INVARIANTS
    NoLostUpdate
CHECK_DEADLOCK FALSE
