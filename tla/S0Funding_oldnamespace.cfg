CONSTANTS
    n1 = n1
    n2 = n2
    t1 = t1
    t2 = t2
    t3 = t3
    None = None
    Namespace = {n1, n2}
    Tx = {t1, t2, t3}
    Discipline = "serial"
SYMMETRY Symmetry
SPECIFICATION Spec
INVARIANT FundedOnce
CHECK_DEADLOCK FALSE
