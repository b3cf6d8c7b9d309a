CONSTANTS
    Request = {r1, r2}
    Endpoint = {e1}
    MaxCalls = 2
    MaxNights = 1
    DiskFails = TRUE
SPECIFICATION FairSpec
INVARIANT EveryRedirectIsCounted
INVARIANT CleanMeansSaved
INVARIANT GracefulKeepsEarlierCalls
INVARIANT TodayIsToday
PROPERTY RequestsEnd
PROPERTY SettlesInTheEnd
