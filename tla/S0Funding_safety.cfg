\* Two namespaces share the source wallet, one invocation at a time, none in a namespace
\* that was left for another.
CONSTANTS
    n1 = n1
    n2 = n2
    t1 = t1
    t2 = t2
    t3 = t3
    None = None
    Namespace = {n1, n2}
    Tx = {t1, t2, t3}
    Discipline = "forward"
SYMMETRY Symmetry
SPECIFICATION Spec
INVARIANTS
    TypeOK
    NothingUnaccounted
    FundedOnce
    EvidenceIsTrue
    ReadyMeansFunded
    RejectedNotResubmitted
    RecordsAgree
    ResumableInitialization
PROPERTIES
    EvidenceNeverReplaced
    FundsOnce
CHECK_DEADLOCK FALSE
