\* A writer and two clients under fair scheduling: a slow one stops nobody.
CONSTANTS
    n1 = n1
    n2 = n2
    Names = {n1}
    Values = {v1}
    Absent = Absent
    Invalid = {}
    Unmarshalable = {}
    Batches <- FullOrOne
    Writers = {w1}
    Streams = {s1, s2}
    Subscriptions <- WildcardOnly
    RequestNodes = {TRUE}
    Nobody = Nobody
    MaxVersion = 1
    MaxPushes = 1
SPECIFICATION FairSpec
PROPERTIES
    StreamsRegister
    DrainEnds
CHECK_DEADLOCK FALSE
