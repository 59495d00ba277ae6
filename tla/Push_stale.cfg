\* PROTOCOL.md: the reasons for which the server cuts a connection.
SPECIFICATION Spec
CONSTANTS
    p1 = p1
    p2 = p2
    Peers = {p1, p2}
    Fds = {5, 6}
    Kinds = {"hello", "query"}
    MaxSend = 1
    MaxEvents = 5
    MaxLine = 2
    MaxOutBuf = 1
    SndBuf = 1
    HelloTimeout = 1
    PingInterval = 2
    MaxNow = 3
SYMMETRY MCSymmetry
INVARIANTS CutForCause
