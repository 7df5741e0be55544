CONSTANTS
    Feeder = {f1, f2}
    Slots = 2
    MaxItems = 3
    BatchSize = 2
    MaxRetries = 1
    SlowFeeders = FALSE
    MayDie = TRUE
    None = None
SPECIFICATION FairSpec
INVARIANTS
    TypeOK
    JoinMeansTaken
    EveryItemProcessed
    NothingLeftBehind
PROPERTIES
    FeedCompletes
CHECK_DEADLOCK FALSE
