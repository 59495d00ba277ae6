\* Two channels, two histories, a week boundary.
SPECIFICATION Spec
CONSTANTS
    Histories <- MCHistories
    Rankings <- MCRankings
    Day = 4
    KstOffset = 1
    Minute = 2
    Width = 4
    Near = 1
    StartTime = 94
    MaxNow = 95
INVARIANTS RowsAreWeeks
PROPERTIES TipTracksMouse
