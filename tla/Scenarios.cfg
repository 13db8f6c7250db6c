\* The reference configuration and three local ones; rounds of one, two and four transactions.
CONSTANTS
    None = None
    Configs <- MCConfigs
    doubling_rounds = 2
    fanout_outputs_per_tx = 3
    volume_target = 12
    Calls = 1
SPECIFICATION Spec
INVARIANTS
    TypeOK
    NothingOnFailedS1
    EarlierRoundsWhole
    EveryCellSettled
CHECK_DEADLOCK FALSE
