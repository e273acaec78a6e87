SPECIFICATION Spec
CONSTANTS
    v1 = v1
    v2 = v2
    Key = {k1, k2}
    LongKey = {}
    Module = {m1, b1}
    LongResult = {}
    Builtin = {b1}
    Value <- MCValue
    Pages <- MCPages
    Obj = {o1, o2, o3, o4}
    MaxCount = 1
    MaxBytes = 0
    MaxWarm = 1
    Job = {j1, j2}
    MaxStops = 1
SYMMETRY WorkerSymmetry
INVARIANTS EntriesLiveWhileUsed PinnedVersionServed
CONSTRAINT StoresElseStops
