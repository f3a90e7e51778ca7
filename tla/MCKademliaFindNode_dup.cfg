\* Peers may report a node under either of two contact options.
CONSTANTS
    Bits = 3
    Nodes <- MCNodes
    Knows <- MCKnows
    Connected <- MCConnected
    Openness <- MCOpenness
    NoOption = {}
    Addrs = 2
    BucketSize = 2
    ResultLimit = 2
    VisitLimit = 3
    None = None
SPECIFICATION Spec
\* find_node_from_fingers returns; the model stops when it has.
CHECK_DEADLOCK FALSE
INVARIANT NoDuplicateResults
