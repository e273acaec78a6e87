SPECIFICATION TenantSpec
CONSTANTS
    Buffer = {b1, b2}
    DmaBuf = {d1}
    Handle = {h1, h2, h3}
    Holder = {x1, x2, x3}
    NSlots = 2
    MaxSeq = 4
    NoHandle = NoHandle
    VfuDepth = 2
    VfuCids = 3
    VfuRegion = 4
    VfuPage = 2
    VfuHead = 1
    VfuIova = {0, 2}
    VfuLen = {0, 1, 6}
    VfuNone = VfuNone
    KpKeyMax = 3
    KpKeyLen = {1, 3, 4, 5}
    KpInline = 3
    BdName = {"d0"}
    BdAuto <- MCBdAuto
    BdOpts <- MCBdOpts
    BdDefault <- MCBdDefault
    BdOp = {1, 2, 3}
    BdTierMax = 3
    BdMaxChan = 1
    BdNone = BdNone
    WtPublisher = {u1, u2}
    WtRevision = {r1}
    WtSource <- MCWtSource
    WtPack = {"p1"}
    WtMax = 2
    ShAddr = {0, 1, 2}
    ShMaxOps = 5
INVARIANTS
    RegisteredExactly
    VfuOwnCompletion VfuMemoryExact 
    KpValueIntact 
     BdNothingDangles
    WtLiveManifestIsWhole WtLoadsWhatWasPublished
    ShOwnResult ShMemoryExact
PROPERTIES
    BdRestartKeepsDisks WtMergeKeepsPrecisions
