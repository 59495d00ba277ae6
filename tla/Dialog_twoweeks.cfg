\* README.md: the single chart shows two weeks.
SPECIFICATION Spec
CONSTANTS
    ChannelLists <- MCLists
    MultiCount = 1
    Minute = 1
    Tolerance = 2
    Day = 3
    Week = 9
    LiveWindow = 1
    StartTime = 25
    MaxNow = 26
    MaxPending = 3
INVARIANTS TwoWeeksShown
