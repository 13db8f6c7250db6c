\* Two batches: of S4 in one arm or in two, or one of S4 and one of S5.
CONSTANTS
    b1 = b1
    b2 = b2
    Signer = Signer
    Receiver = Receiver
    Processor = Processor
    None = None
    Process <- MCProcess
    Batch <- MCBatch
    Configs <- MCConfigs
    Cost <- MCCost
SPECIFICATION FairSpec
INVARIANTS
    TypeOK
    OkIsSettled
    RowsMatchObservations
    NoChildSurvives
PROPERTIES
    ProofsStand
    ObserveEnds
    LeavingEnds
CHECK_DEADLOCK FALSE
