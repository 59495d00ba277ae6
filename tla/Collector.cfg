\* Two channels, of which any may leave the list or be listed twice, two
\* titles, three minutes.
SPECIFICATION Spec
CONSTANTS
    c1 = c1
    c2 = c2
    a = a
    b = b
    Channels = {c1, c2}
    Titles = {a, b}
    Viewers = {1}
    Pages <- ShortPages
    TopN = 2
    PollSec = 2
    Retain = 2
    PurgeEvery = 1
    StartTime = 2
    MaxNow = 6
SYMMETRY MCSymmetry
INVARIANTS TypeOK OnlyChanges CurrentKnown TitleObserved TitleKept
PROPERTIES ImplementsLog RoundBounded
CHECK_DEADLOCK FALSE
