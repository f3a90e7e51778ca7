\* An actor-scoped value: replies carry fingers only when the value is absent.
CONSTANTS
    Bits = 3
    Nodes <- MCNodes
    Knows <- MCKnows
    Connected <- MCConnected
    Openness <- MCOpenness
    NoOption = {}
    Addrs = 1
    BucketSize = 2
    VisitLimit = 4
    None = None
    Holders = {1, 6}
    Accepted = {6}
    ActorScoped = TRUE
    ExpectFingers = FALSE
    Calls = 2
SPECIFICATION Spec
\* The caller stops calling next() after Calls calls; the model stops there.
CHECK_DEADLOCK FALSE
INVARIANT FingersNotLost
