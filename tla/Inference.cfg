CONSTANTS
    Feeder = {f1, f2}
    Slots = 2
    MaxItems = 3
    BatchSize = 2
    MaxRetries = 1
    EndPartition = EndPartition
    None = None
SPECIFICATION FairSpec
INVARIANTS
    TypeOK
    OwnResultsIfAlone
    PipelineInOrder
PROPERTIES
    InferenceCompletes
CHECK_DEADLOCK FALSE
