\* Two sends, in one batch or in two: what an observation called rejected says.
CONSTANTS
    t1 = t1
    t2 = t2
    None = None
    Tx <- MCTx
    Configs <- MCConfigs
SPECIFICATION Spec
INVARIANT RejectedIsNotHeld
CHECK_DEADLOCK TRUE
