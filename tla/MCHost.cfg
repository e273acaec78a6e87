SPECIFICATION HostSpec
CONSTANTS
    v1 = v1
    v2 = v2
    Key = {k1}
    LongKey = {}
    Module = {m1, b1}
    LongResult = {}
    Value <- OneValue
    Pages <- OnePages
    Obj = {o1, o2, o3}
    MaxCount = 1
    MaxBytes = 0
    MaxWarm = 1
    Builtin = {b1}
    Job = {j1, j2}
    MaxStops = 1
    KvIo = {c1}
    KvAbsent = KvAbsent
    EpEngine = {e1, e2}
    EpNone = EpNone
    EpTicks = 2
    RkvProcess = {d1, d2}
    RkvClient = {x1}
    RkvNone = RkvNone
    RkvLength = {1, 3, 5}
    RkvHint = 2
    RkvMax = 4
INVARIANTS
    
    KvMemoryExact 
    EpTicksLiveEngine
    RkvCommandExact RkvOneDaemon
PROPERTIES
    QueuedBeforeStopCompletes KvIoCompletes EpRunawayEnds RkvTermReleases
