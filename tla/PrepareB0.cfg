\* Chains of up to two blocks on two branches; prepare-b0 is stopped and repeated.
CONSTANTS
    a = a
    b = b
    None = None
    Branch = {a, b}
    MaxHeight = 2
SYMMETRY Symmetry
SPECIFICATION B0Spec
INVARIANTS
    B0TypeOK
    AnchorOutlivesScans
