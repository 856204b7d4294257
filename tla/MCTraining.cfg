SPECIFICATION FairSpec
CONSTANTS
    N = 2
    BatchSizes = {1, 2}
    MaxIters = 2
    EvalInterval = 1
    EvalIters = 1
    MaxLoss = 3
    MaxNaNs = 1
    MaxLaunches = 2
INVARIANTS
    TrainingTypeOK
    CollectivesMatch
    ReplicasAgree
    
    CheckpointIsBest
PROPERTIES
    TrainingCompletes
    NobodyHangs
CHECK_DEADLOCK FALSE
