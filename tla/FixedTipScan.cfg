\* Chains of up to two blocks on two branches.
CONSTANTS
    a = a
    b = b
    Branch = {a, b}
    MaxHeight = 2
SPECIFICATION FairSpec
INVARIANTS
    TypeOK
    EndsAtTarget
    TargetStood
PROPERTY ScanEnds
