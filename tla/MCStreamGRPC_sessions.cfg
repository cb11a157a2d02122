\* One client, two streams, late answers, and a process that restarts once.
CONSTANTS
    Names = {n1}
    Values = {v1, v2}
    Absent = Absent
    Invalid = {}
    Unmarshalable = {}
    Batches <- AllBatches
    Writers = {w1}
    Streams = {s1, s2}
    Subscriptions <- WildcardOnly
    RequestNodes = {TRUE}
    Nobody = Nobody
    MaxVersion = 1
    MaxPushes = 6
    NoStream = NoStream
    NoVersion = NoVersion
    Prefixes <- TwoPods
    Refused = {v2}
    Window = 1
    MaxForgotten = 1
    MaxOpen = 1
SYMMETRY StreamSymmetry
SPECIFICATION SessionSpec
INVARIANTS
    SessionTypeOK
    InFlightAccounted
    PushesAccounted
    HeldVersionIsCurrent
    QuietClientIsCurrent
PROPERTIES
    EveryProcessServes
CHECK_DEADLOCK FALSE
