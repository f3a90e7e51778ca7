\* An overlay-level value: every reply carries fingers.
CONSTANTS
    Bits = 3
    Nodes <- MCNodes
    Knows <- MCKnows
    Connected <- MCConnected
    Openness <- MCOpenness
    NoOption = {}
    Addrs = 1
    BucketSize = 2
    VisitLimit = 4
    None = None
    Holders = {1, 6}
    Accepted = {6}
    ActorScoped = FALSE
    ExpectFingers = TRUE
    Calls = 2
SPECIFICATION Spec
\* The caller stops calling next() after Calls calls; the model stops there.
CHECK_DEADLOCK FALSE
INVARIANT TypeOK
 
INVARIANT FingersNotLost
PROPERTY CallReturns
