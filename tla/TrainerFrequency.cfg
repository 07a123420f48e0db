CONSTANTS
    OptionSets <- OneOption
    Models <- PlainModel
    Batches <- MCBatches
    MaxFeeds = 1
    MaxTrains = 1
    CharLen <- MCCharLen
    Hardware = 2
    HalfInt32 = 1000
SPECIFICATION Spec
PROPERTY MergesFrequent
