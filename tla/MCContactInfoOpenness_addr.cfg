\* test_openness racing HELLO_ACK updates of our contact info.
CONSTANTS
    Families = {"v4", "v6"}
    Present <- MCPresent
    Config <- MCConfig
    Addrs = {"a0", "a1", "a2"}
    InitAddr = "a0"
    Openness = {"Bidirectional", "Punchable", "Unidirectional"}
    Unset = Unset
    Invalid = Invalid
    None = None
    MaxAcks = 2
    Peers <- MCPeers
    MaxDials = 1
SPECIFICATION Spec
\* test_openness returns and the node keeps running; the model bounds the
\* HELLO_ACKs, so its last state has no successor.
CHECK_DEADLOCK FALSE
INVARIANT AdvertisedAddressCurrent
