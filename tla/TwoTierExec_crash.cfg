SPECIFICATION Spec
CONSTANTS
    Front = {f1, f2}
    MaxCalls = 1
    Faults = {"drop", "crash"}
    Stalls = TRUE
SYMMETRY FrontSymmetry
INVARIANT NoLateAccess
CHECK_DEADLOCK FALSE
