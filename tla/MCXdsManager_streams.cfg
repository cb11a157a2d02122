\* One writer (a reflector) and two clients.
CONSTANTS
    n1 = n1
    n2 = n2
    Names = {n1, n2}
    Values = {v1}
    Absent = Absent
    Invalid = {}
    Unmarshalable = {}
    Batches <- FullBatches
    Writers = {w1}
    Streams = {s1, s2}
    Subscriptions <- WildcardOrOne
    RequestNodes = {TRUE}
    Nobody = Nobody
    MaxVersion = 2
    MaxPushes = 1
SYMMETRY StreamSymmetry
SPECIFICATION Spec
INVARIANTS
    TypeOK
    NoLostUpdate
    NoSendOnClosed
CHECK_DEADLOCK FALSE
