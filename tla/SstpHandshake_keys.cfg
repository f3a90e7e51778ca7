\* Two hosts with two session ids each, one connect call that may resend its HELLO once.
CONSTANTS
    Hosts = {a, b}
    IdBits = 1
    Attempts = {c1}
    MaxHelloSends = 2
    MaxDh = 3
    None = None
    NoId = NoId
    NoHost = NoHost
    NoSession = NoSession
SPECIFICATION Spec
\* The servers wait for datagrams forever; the bounds make the model stop.
CHECK_DEADLOCK FALSE
INVARIANT KeyAgreement
