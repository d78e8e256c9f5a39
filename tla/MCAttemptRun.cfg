SPECIFICATION FairSpec
CONSTANTS
    Conversations = {"c"}
    StepIndices = {"s"}
    Tools = {}
    Expected = None
    None = None
    Lines <- MCLines
    MaxImages = 2
INVARIANTS TypeOK ReplaySafeIsTrue NothingLeftUnsaid CompletedIsComplete
PROPERTIES FilesOutliveReaders AttemptReturns
