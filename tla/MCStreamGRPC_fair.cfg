\* One client with one stream, versions that follow each other, a fair scheduler.
CONSTANTS
    Names = {n1}
    Values = {v1}
    Absent = Absent
    Invalid = {}
    Unmarshalable = {}
    Batches <- FullBatches
    Writers = {w1}
    Streams = {s1}
    Subscriptions <- WildcardOnly
    RequestNodes = {TRUE}
    Nobody = Nobody
    MaxVersion = 2
    MaxPushes = 6
    NoStream = NoStream
    NoVersion = NoVersion
    Prefixes <- OnePod
    Refused = {}
    Window = 1
    MaxForgotten = 0
    MaxOpen = 1
SPECIFICATION FairSessionSpec
PROPERTIES
    GoroutinesEnd
    ClientConverges
CHECK_DEADLOCK FALSE
