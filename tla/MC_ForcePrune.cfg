CONSTANTS
    Height = 5
    FullHeight = 2
    MinHeight = 1
    BatchMaxSize = 2
    MaxRuns = 3
    ValSetChanges = {1, 4}
    ParamsChanges = {1}
    ValSetCheckpointInterval = 4
SPECIFICATION Spec
INVARIANT TypeOK
PROPERTY
    PruneRefined
CHECK_DEADLOCK FALSE
