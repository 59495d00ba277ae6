\* Two channels, one of them in the multi chart, a week boundary at 27, fair.
SPECIFICATION FairSpec
CONSTANTS
    ChannelLists <- FadingLists
    MultiCount = 1
    Minute = 1
    Tolerance = 2
    Day = 3
    Week = 9
    LiveWindow = 1
    StartTime = 26
    MaxNow = 27
    MaxPending = 3
INVARIANTS RowsValid MultiOfListed
PROPERTIES SelectionStays QueryShown
