SPECIFICATION FairSpec
CONSTANTS
    v1 = v1
    v2 = v2
    NoVersion = NoVersion
    Flows = {f1, f2}
    Versions = {v1, v2}
    Listings <- RangeListings
    Starts <- RangeStarts
    Ends <- RangeEnds
    Dumps = {TRUE, FALSE}
    OldDumps <- OldFiles
INVARIANTS TypeOK ReplayedInOrder NothingLost AlignedUnlessAbandoned FourAttemptsEach DumpsKept
PROPERTIES DeliversOnce QueryDelivers
