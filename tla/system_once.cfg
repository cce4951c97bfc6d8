SPECIFICATION SysSpec
CONSTANTS
    v1 = v1
    v2 = v2
    NoVersion = NoVersion
    Flows = {f1, f2}
    Versions = {v1, v2}
    Listings <- TwoVersions
    Starts <- OneFlag
    Ends <- NoLimit
    Dumps = {FALSE}
    OldDumps = {}
    Histories <- Results
    OldSettings = {FALSE}
    MaxLaunches = 1
INVARIANT OnlyOnce
