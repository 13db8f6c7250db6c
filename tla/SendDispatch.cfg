\* Two sends, in one batch or in two.
CONSTANTS
    t1 = t1
    t2 = t2
    None = None
    Tx <- MCTx
    Configs <- MCConfigs
SPECIFICATION FairSpec
INVARIANTS
    TypeOK
    NothingLost
    SuccessIsFinal
    OneObservationPerCall
PROPERTIES
    ObservationStands
    S4Ends
CHECK_DEADLOCK TRUE
