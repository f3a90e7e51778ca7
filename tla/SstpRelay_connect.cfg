\* One relay_with_timeout call from Source through Relay to Target.
CONSTANTS
    Source = Source
    Relay = Relay
    Target = Target
    IdBits = 1
    MaxSends = 2
    None = None
    NoId = NoId
    NoHost = NoHost
SPECIFICATION Spec
\* The servers wait for datagrams forever; the model stops when the call
\* has ended and nothing is in flight.
CHECK_DEADLOCK FALSE
PROPERTY RelayConnects
