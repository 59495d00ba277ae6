\* Two clients, two descriptors, a hello from each, timeouts and pings; evs has room
\* for two events.
SPECIFICATION Spec
CONSTANTS
    p1 = p1
    p2 = p2
    Peers = {p1, p2}
    Fds = {5, 6}
    Kinds = {"hello"}
    MaxSend = 1
    MaxEvents = 2
    MaxLine = 2
    MaxOutBuf = 1
    SndBuf = 1
    HelloTimeout = 1
    PingInterval = 1
    MaxNow = 2
SYMMETRY MCSymmetry
INVARIANTS TimersServed
