SPECIFICATION FairSpec
CONSTANTS
    v1 = v1
    v2 = v2
    Key = {k1}
    LongKey = {}
    Module = {m1}
    LongResult = {}
    Value <- MCValue
    Pages <- MCPages
    Obj = {o1, o2}
    MaxCount = 1
    MaxBytes = 0
    MaxWarm = 1
    Builtin = {}
    Job = {j1}
    MaxStops = 1
PROPERTY QueuedJobsComplete
