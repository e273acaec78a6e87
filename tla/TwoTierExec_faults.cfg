SPECIFICATION Spec
CONSTANTS
    Front = {f1}
    MaxCalls = 2
    Faults = {"drop", "crash", "overtake", "ackError", "fwdError", "progressError"}
    Stalls = FALSE
INVARIANTS CompletesOnce NoCallbackOnFreedCall ClosedChannelIsEmpty
CHECK_DEADLOCK FALSE
