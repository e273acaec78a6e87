SPECIFICATION TierSpec
CONSTANTS
    v1 = v1
    v2 = v2
    Key = {k1, k2, k3}
    LongKey = {k3}
    Module = {m1, m2}
    LongResult = {}
    Value <- MCValue
    Pages <- MCPages
    Obj = {o1, o2, o3}
    MaxCount = 2
    MaxBytes = 3
    MaxWarm = 2
    MaxRestarts = 1
    ca = ca
    cb = cb
    cc = cc
    MgThread = {t1, t2}
    MgName = {n1}
    MgCode = {ca, cb, cc}
    MgNoCode = MgNoCode
    MgSize <- MCMgSize
    MgMaxCount = 2
    MgMaxBytes = 3
    RcConsumer = {c1, c2}
    RcModule <- MCRcModule
    RcContent = {0, 1}
    RcInput <- MCRcInput
    RcLen = 2
    RcOutLen = {1, 2}
    RcMax = 2
    LsKey <- MCLsKey
    LsForeign <- MCLsForeign
    LsMaxLen = 3
    LsBase = 2
    LsOSize = {8, 12, 16}
    WcInlineMax = 2
    WcMaxLen = 4
    WcMaxKey = 1
    WcStatus = {0, 1, 2, 3}
    WcFailed = 1
    WcNotSupported = 2
    WcTooSmall = 3
    WcForeign = {9}
SYMMETRY TierSymmetry
INVARIANTS
    AtRestConsistent
     MgCacheCoherent
    
    
    
PROPERTIES
    ServesStoredValue
