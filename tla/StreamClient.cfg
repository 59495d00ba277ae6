\* Two handles, up to four lines of two parts on a connection, two parts of
\* input that are not handled yet.
SPECIFICATION FairSpec
CONSTANTS
    h1 = h1
    h2 = h2
    Handles = {h1, h2}
    MaxWire = 8
    MaxInput = 2
INVARIANTS LinesWhole LineOfOneConnection NothingLeft ConnectedHasSocket
PROPERTIES StopReturns StopBounded Reconnects
