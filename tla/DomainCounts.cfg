CONSTANTS
    Key = {k1}
    Window = 2
    Keep = 2
    MaxCalls = 2
    MaxClock = 5
SPECIFICATION FairSpec
INVARIANT Conserved
INVARIANT TotalsMatchDays
INVARIANT RankingsAreRight
PROPERTY MemoryIsFlushed
