\* One channel, two titles, two viewer counts, three minutes.
SPECIFICATION Spec
CONSTANTS
    c1 = c1
    a = a
    b = b
    Channels = {c1}
    Titles = {a, b}
    Viewers = {1, 2}
    Lists <- MCLists
    PollSec = 2
    Retain = 2
    PurgeEvery = 1
    StartTime = 2
    MaxNow = 6
INVARIANTS OnlyChanges CompletePolls
PROPERTIES KeptWhileYoung
CHECK_DEADLOCK FALSE
