CONSTANTS
    OptionSets <- OneOption
    Models <- PlainModel
    Batches <- SharedBatches
    MaxFeeds = 1
    MaxTrains = 1
    CharLen <- MCCharLen
    Hardware = 2
    HalfInt32 = 1000
SPECIFICATION Spec
INVARIANT PositionsComplete
