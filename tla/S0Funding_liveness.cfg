\* One namespace, and every way an invocation of it can end.
CONSTANTS
    n1 = n1
    t1 = t1
    t2 = t2
    None = None
    Namespace = {n1}
    Tx = {t1, t2}
    Discipline = "forward"
SPECIFICATION FairSpec
PROPERTIES InvocationEnds FundingSettles
CHECK_DEADLOCK FALSE
