SPECIFICATION ExSpec
CONSTANTS
    v1 = v1
    v2 = v2
    Key = {k1}
    LongKey = {}
    Module = {m1}
    LongResult = {}
    Value <- MCValue
    Pages <- MCPages
    Obj = {o1, o2}
    MaxCount = 2
    MaxBytes = 1
    MaxWarm = 2
    MaxRestarts = 0
INVARIANT FilledObjectSurvives
