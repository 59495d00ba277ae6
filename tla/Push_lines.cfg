\* One client, lines of up to three pieces with a limit of two, a send buffer
\* of one reply, one tick (hence a ping), room for all events, fair scheduling.
SPECIFICATION FairSpec
CONSTANTS
    p1 = p1
    Peers = {p1}
    Fds = {5}
    Kinds = {"part", "blank", "query"}
    MaxSend = 3
    MaxEvents = 4
    MaxLine = 2
    MaxOutBuf = 1
    SndBuf = 1
    HelloTimeout = 1
    PingInterval = 1
    MaxNow = 1
INVARIANTS TypeOK NothingHeldBack BuffersBounded
PROPERTIES ImplementsService DescriptorsReturned RequestsServed StopEnds StopBounded
