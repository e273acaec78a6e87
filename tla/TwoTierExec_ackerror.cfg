SPECIFICATION Spec
CONSTANTS
    Front = {f1}
    MaxCalls = 1
    Faults = {"ackError"}
    Stalls = FALSE
INVARIANT NoLateAccess
CHECK_DEADLOCK FALSE
