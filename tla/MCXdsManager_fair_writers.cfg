\* Two writers under fair scheduling, with resources that do not validate or
\* cannot be marshalled, and requests without a node id.
CONSTANTS
    n1 = n1
    n2 = n2
    Names = {n1}
    Values = {v1, bad, poison}
    Absent = Absent
    Invalid = {bad}
    Unmarshalable = {poison}
    Batches <- FullOrOne
    Writers = {w1, w2}
    Streams = {s1}
    Subscriptions <- WildcardOnly
    RequestNodes = {TRUE, FALSE}
    Nobody = Nobody
    MaxVersion = 1
    MaxPushes = 1
SPECIFICATION FairSpec
INVARIANTS
    OnlyValidServed
PROPERTIES
    WritersReturn
    Converges
CHECK_DEADLOCK FALSE
