\* One contact option per node: the result must be the nearest nodes learnt.
CONSTANTS
    Bits = 3
    Nodes <- MCNodes
    Knows <- MCKnows
    Connected <- MCConnected
    Openness <- MCOpenness
    NoOption = {}
    Addrs = 1
    BucketSize = 2
    ResultLimit = 2
    VisitLimit = 3
    None = None
SPECIFICATION Spec
\* find_node_from_fingers returns; the model stops when it has.
CHECK_DEADLOCK FALSE
INVARIANT TypeOK
INVARIANT FoundIsNearestSeen
INVARIANT DialsWithinVisitLimit
PROPERTY Terminates
