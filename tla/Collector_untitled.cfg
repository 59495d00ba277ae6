\* README.md: the title at T is the newest row not after T.
SPECIFICATION Spec
CONSTANTS
    c1 = c1
    a = a
    b = b
    Channels = {c1}
    Titles = {a, b}
    Viewers = {1}
    Pages <- ShortPages
    TopN = 1
    PollSec = 2
    Retain = 2
    PurgeEvery = 1
    StartTime = 2
    MaxNow = 8
SYMMETRY MCSymmetry
INVARIANTS EverySampleTitled
CHECK_DEADLOCK FALSE
