SPECIFICATION FairSpec
CONSTANTS
    Front = {f1}
    MaxCalls = 2
    Faults = {}
    Stalls = TRUE
PROPERTIES ImplementsLease EveryExecCompletes DestroyTerminates
CHECK_DEADLOCK FALSE
