CONSTANTS
    Source = {s1, s2, s3}
    Permits = 2
    MaxStarts = 2
SPECIFICATION FairSpec
INVARIANT TypeOK
INVARIANT NoCheckBeginsDuringInit
PROPERTY InitEnds
PROPERTY LoopLivesUntilStop
