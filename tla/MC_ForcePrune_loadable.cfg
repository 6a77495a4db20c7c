CONSTANTS
    Height = 5
    FullHeight = 2
    MinHeight = 1
    BatchMaxSize = 2
    MaxRuns = 3
    ValSetChanges = {1, 4}
    ParamsChanges = {1}
    ValSetCheckpointInterval = 4
SPECIFICATION Spec
INVARIANT RetainedStateLoadable
CHECK_DEADLOCK FALSE
