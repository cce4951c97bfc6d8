SPECIFICATION MainSpec
CONSTANTS
    Histories <- SmallHistories
    OldSettings = {FALSE}
    MaxLaunches = 2
INVARIANT CleanupFlagTurnsOff
