CONSTANTS
    OptionSets <- MCOptionSets
    Models <- MCModels
    Batches <- MCBatches
    MaxFeeds = 2
    MaxTrains = 2
    CharLen <- MCCharLen
    Hardware = 2
    HalfInt32 = 1000
SPECIFICATION Spec
INVARIANTS TypeOK CountsExact StopsComplete WordsKeepText VocabConsistent
PROPERTIES GreedyChoice LoopDecreases
