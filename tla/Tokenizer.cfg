\* All options, components and files, one way of saving at a time.
CONSTANTS
    None = None
    Torn = Torn
    Foreign = Foreign
    Utf8 <- MCUtf8
    Starts <- MCStarts
    Inputs <- MCInputs
    Trained <- MCTrained
    RowOptions <- MCRowOptions
    Batches <- MCBatches
    ByteChar <- MCByteChar
SPECIFICATION Spec
CONSTRAINT OneStory
INVARIANTS TypeOK SoundModels ReloadEncodesSame RowsFaithful BatchRectangular DecodeExact
