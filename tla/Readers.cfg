\* One channel, two titles, two viewer counts, four minutes, two ranges.
SPECIFICATION ReaderFairSpec
CONSTANTS
    c1 = c1
    a = a
    b = b
    Channels = {c1}
    Titles = {a, b}
    Viewers = {1, 2}
    Pages <- MCPages
    TopN = 2
    PollSec = 1
    Retain = 1
    PurgeEvery = 1
    StartTime = 2
    MaxNow = 4
    Ranges <- MCRanges
    Window = 1
INVARIANTS ShownObserved ShownIsTitleAt CurrentInWindow
PROPERTIES ImplementsLog StopHonoured
CHECK_DEADLOCK FALSE
