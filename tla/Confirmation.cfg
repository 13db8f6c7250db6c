\* Two transactions, each in a block of its own or none; chains of up to two blocks,
\* final at a depth of one; one query open at a time.
CONSTANTS
    a = a
    b = b
    c = c
    t1 = t1
    t2 = t2
    Branch <- MCBranch
    Tx <- MCTx
    Holds <- MCHolds
    MaxHeight = 2
    CMin = 1
    QueryCap = 1
SPECIFICATION FairSpec
INVARIANTS
    TypeOK
    ConfirmedWasDeep
    NobodyStopsEarly
PROPERTIES
    ConfirmationStands
    ObservationEnds
CHECK_DEADLOCK TRUE
