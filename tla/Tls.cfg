SPECIFICATION TlsSpec
CONSTANTS
    Streams = {a, b}
    Libraries = {"OpenSsl", "MbedTls", "MbedTlsHandle", "WolfSslInCallback", "WolfSslAfterHandshake", "WolfSslRefused"}
    PinLists <- MCPinLists
    Digests = {"sha-256"}
    Budget = 3
    PollInterval = 2
INVARIANTS PeerAuthorised FirstFaultNamed MaterialHeld
PROPERTY OpenReturns
