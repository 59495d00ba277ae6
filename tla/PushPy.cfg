\* One client, three pieces, a ping and a hello timeout, room for one line.
SPECIFICATION FairSpec
CONSTANTS
    p1 = p1
    Peers = {p1}
    Kinds = {"part", "hello", "query"}
    MaxSend = 3
    MaxLine = 2
    SndBuf = 1
    High = 0
    Low = 0
    HelloTimeout = 1
    PingInterval = 1
    MaxNow = 1
PROPERTIES ImplementsService RequestsServed StopEnds
