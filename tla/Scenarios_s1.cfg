\* The reference configuration: what a successful S1 proves.
CONSTANTS
    None = None
    Configs <- MCReference
    doubling_rounds = 2
    fanout_outputs_per_tx = 3
    volume_target = 12
    Calls = 1
SPECIFICATION Spec
INVARIANT S1SuccessIsExact
CHECK_DEADLOCK FALSE
