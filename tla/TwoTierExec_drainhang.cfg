SPECIFICATION FairSpec
CONSTANTS
    Front = {f1}
    MaxCalls = 1
    Faults = {"drop"}
    Stalls = FALSE
PROPERTY DestroyTerminates
CHECK_DEADLOCK FALSE
