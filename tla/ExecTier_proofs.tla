---------------------------- MODULE ExecTier_proofs ----------------------------
(**************************************************************************)
(* The theorems of the executor: the laws of the caches hold; the worker  *)
(* accounts for its pins and serves the version it pinned; and the caches *)
(* are in order between two verbs and mirror the store.                   *)
(**************************************************************************)
EXTENDS ExecSteps_proofs, CacheSteps_proofs

\* A leaf that names no backend goes to Zenon.
USE ZenonT(60)

\* The laws of the caches hold, for every value of the constants.
LEMMA LawsHold == Laws
<1>1. CountLaw
  BY FS_EmptySet, FS_Singleton, FS_Subset, FS_CardinalityType, FS_AddElement DEF CountLaw
<1>2. AppendLaw
  BY AppendList, SMT DEF AppendLaw
<1>3. EntriesLaw
  BY EntriesFinite DEF EntriesLaw
<1>4. LookupLaw
  BY LiveListed, SMT DEF LookupLaw
<1>5. EmptyLaw
  BY EmptySound DEF EmptyLaw
<1>6. InvalidateLaw
  BY InvalidateSound DEF InvalidateLaw
<1>7. RefLaw
  BY RefFields, RefSound DEF RefLaw
<1>8. UnrefLaw
  BY UnrefOneSound DEF UnrefLaw
<1>9. TouchLaw
  BY TouchSound, SMT DEF TouchLaw
<1>10. RunLaw
  BY RunSound DEF RunLaw
<1>11. FillLaw
  BY ColdFillSound, SMT DEF FillLaw
<1> QED BY <1>1, <1>2, <1>3, <1>4, <1>5, <1>6, <1>7, <1>8, <1>9, <1>10, <1>11 DEF Laws

\* The cache accounts for the pins of the jobs and the pool for its thread, for every
\* number of jobs, keys, entries and stops, and every size of the caps
\* (kvdev_rados_nkvx.c, kvdev_rados_nkvx_wasm.c).
THEOREM WorkerInvariant == Spec => []WkIInv
<1>1. Init => WkIInv
  BY LawsHold, WorkerInit
<1>2. WkIInv /\ [Next]_vars => WkIInv'
  BY LawsHold, WorkerStep
<1> QED BY <1>1, <1>2, PTL DEF Spec

\* Stop, start and dispatch in any order leave one worker, and no pin that no job
\* accounts for, a refused dispatch included (kvdev_rados_nkvx_start, _stop, _dispatch).
THEOREM PoolIsExact == Spec => []PoolExact
<1>1. WkIInv => PoolExact
  BY LawsHold, WorkerFacts DEF PoolExact
<1> QED BY <1>1, WorkerInvariant, PTL

\* While the byte cap SPDK_NKVX_OBJ_CACHE_MAX_BYTES is off, an entry of the object cache
\* lives exactly as long as it is used: every count is exact, nothing is used after its
\* free (nkvx_obj_unref), and nothing stays behind.
THEOREM WorkerEntries ==
    ASSUME MaxBytes = 0
    PROVE  Spec => []EntriesLiveWhileUsed
<1>1. Init => WkIInv /\ ~ freed_use
  BY LawsHold, WorkerInit
<1>2. WkIInv /\ ~ freed_use /\ [Next]_vars => (WkIInv /\ ~ freed_use)'
  BY LawsHold, WorkerStep, NoFreedUse
<1>3. WkIInv /\ ~ freed_use => EntriesLiveWhileUsed
  BY LawsHold, WorkerFacts DEF EntriesLiveWhileUsed
<1> QED BY <1>1, <1>2, <1>3, PTL DEF Spec

\* While no module overruns the result area, a job is served the version its probe
\* pinned (kvdev_rados_nkvx_wasm_cache_pin), through any invalidation, eviction and fill
\* before the worker runs it.
THEOREM WorkerServes ==
    ASSUME LongResult = {}
    PROVE  Spec => []PinnedVersionServed
<1>1. Init => WkIInv /\ ServedOK(g_cache, job)
  <2>1. Init => WkIInv
    BY LawsHold, WorkerInit
  <2>2. Init => ServedOK(g_cache, job)
    BY SMT DEF Init, ServedOK, NewJob
  <2> QED BY <2>1, <2>2
<1>2. WkIInv /\ ServedOK(g_cache, job) /\ [Next]_vars => (WkIInv /\ ServedOK(g_cache, job))'
  BY LawsHold, WorkerStep, ServedStep
<1>3. WkIInv /\ ServedOK(g_cache, job) => PinnedVersionServed
  <2> SUFFICES ASSUME WkIInv, ServedOK(g_cache, job), NEW j \in Job, job[j].pin # NoPin
               PROVE  /\ job[j].pin \in DOMAIN g_cache.ent
                      /\ g_cache.ent[job[j].pin].content = job[j].bytes
    BY DEF PinnedVersionServed
  <2>1. job[j].pin \in DOMAIN g_cache.ent
    BY LawsHold, PinnedInCache DEF WkIInv, WkTypes
  <2> QED BY <2>1 DEF ServedOK
<1> QED BY <1>1, <1>2, <1>3, PTL DEF Spec

--------------------------------------------------------------------------------
\* The empty cache is at rest.
LEMMA EmptyRested == ASSUME NEW g, g = EmptyCache PROVE Rested(g) /\ DOMAIN g.ent = {}
<1>1. NoPins \in [Obj -> Nat] /\ \A o \in Obj : NoPins[o] = 0
  BY DEF NoPins
<1>2. Sound(g, NoPins) /\ DOMAIN g.ent = {} /\ WarmCapped(g)
  BY <1>1, EmptySound
<1>3. ~ OverCaps(g)
  BY <1>2, EmptyWithinCaps DEF Sound
<1> QED BY <1>2, <1>3 DEF Rested, NoneDead, OnePerKey

\* The laws of the caches at rest hold too.
LEMMA RestLawsHold == RestLaws
<1>1. LookupLaw
  BY LawsHold DEF Laws
<1>2. RestedEmptyLaw
  BY EmptyRested DEF RestedEmptyLaw
<1>3. RestedRunLaw
  BY RunRested DEF RestedRunLaw
<1>4. PinnedRunLaw
  BY PinnedRunRested DEF PinnedRunLaw
<1>5. RestedInvalidateLaw
  BY InvalidateRested DEF RestedInvalidateLaw
<1>6. RestedFillLaw
  BY FillRested DEF RestedFillLaw
<1> QED BY <1>1, <1>2, <1>3, <1>4, <1>5, <1>6 DEF RestLaws

\* A cache at rest is consistent.
LEMMA RestedFacts ==
    ASSUME ExIInv
    PROVE  AtRestConsistent
<1>1. Rested(g_cache) /\ ExTyped /\ Sound(g_cache, NoPins) /\ Listed(g_cache)
  BY DEF ExIInv, Rested, Sound
<1>2. CacheOK(g_cache)
  <2>1. DOMAIN g_cache.ent \subseteq Obj /\ g_cache.obj_bytes \in Nat
    BY <1>1, EntriesFinite
  <2> QED BY <1>1, <2>1 DEF Listed, CacheOK
<1>3. ExTypeOK
  BY <1>1, <1>2 DEF ExTypeOK, ExTyped
<1>4. AtRestWithinCaps
  <2>1. Live(g_cache) = DOMAIN g_cache.ent
    BY <1>1, LiveListed DEF Rested, NoneDead
  <2> QED BY <1>1, <2>1 DEF AtRestWithinCaps, Rested, WarmCapped, Listed
<1>5. AtRestBalanced
  <2>1. Cardinality(DOMAIN g_cache.ent) = Len(g_cache.objects) /\ DOMAIN g_cache.ent \subseteq Obj
    BY <1>1, EntriesFinite
  <2>2. ASSUME NEW o \in DOMAIN g_cache.ent
        PROVE  g_cache.ent[o].refcount = WarmPins(g_cache, o)
    <3>1. NoPins[o] = 0
      BY <2>1 DEF NoPins
    <3>2. WarmPins(g_cache, o) \in Nat
      BY <1>1, WarmPinsNat
    <3>3. g_cache.ent[o].refcount = NoPins[o] + WarmPins(g_cache, o)
      BY <1>1 DEF Sound, Counted
    <3> QED BY <3>1, <3>2, <3>3, SMT
  <2> QED BY <1>1, <2>1, <2>2 DEF AtRestBalanced, ListedOnce, Listed
<1>6. OneEntryPerKey
  BY <1>1 DEF Rested, OnePerKey, OneEntryPerKey
<1> QED BY <1>3, <1>4, <1>5, <1>6 DEF AtRestConsistent

\* Between two verbs of the executor (nkvx_executor.c) the caches are in order: every
\* count is exact, nothing dead is kept, both LRU caps and the warm cap hold, and an
\* object has one entry, for every size of the caches and every history.
THEOREM ExecutorAtRest == ExSpec => []AtRestConsistent
<1>s. ExIInv /\ [ExNext]_exVars => ExIInv'
  BY RestLawsHold, StoreStays
<1>1. ExInit => ExIInv
  BY RestLawsHold, StoreInit
<1>2. ExIInv => AtRestConsistent
  BY RestedFacts
<1> QED BY <1>1, <1>2, <1>s, PTL DEF ExSpec

\* The run that follows a fill (nkvx_run_wasm after nkvx_obj_cache_enforce_caps) is on
\* an entry that is still allocated, whenever every object fits SPDK_NKVX_OBJ_CACHE_MAX_BYTES
\* or that cap is off.
THEOREM FilledSurvives ==
    ASSUME MaxBytes = 0 \/ \A v \in Value : Pages[v] =< MaxBytes
    PROVE  ExSpec => []FilledObjectSurvives
<1>s. ExIInv /\ [ExNext]_exVars => ExIInv'
  BY RestLawsHold, StoreStays
<1>1. ExInit => ExIInv /\ ~ freed_use
  BY RestLawsHold, StoreInit
<1>2. ExIInv /\ ~ freed_use /\ [ExNext]_exVars => (ExIInv /\ ~ freed_use)'
  <2>1. ASSUME ~ freed_use, UNCHANGED exVars PROVE ~ freed_use'
    BY <2>1 DEF exVars
  <2>2. ASSUME ~ freed_use, ExIInv, ExNext PROVE ~ freed_use'
    BY <2>2, RestLawsHold, StoreStep DEF GoodStep, ObjectsFit
  <2> QED BY <2>1, <2>2, <1>s
<1>3. ~ freed_use => FilledObjectSurvives
  BY DEF FilledObjectSurvives
<1> QED BY <1>1, <1>2, <1>3, PTL DEF ExSpec

\* While no module overruns the result area, the object cache mirrors RADOS and every
\* Retrieve and Exec serves the stored value (nkvx_retrieve, nkvx_run_wasm, with the
\* invalidations of nkvx_store and nkvx_delete), through failures, evictions and restarts.
THEOREM ExecutorCoherent ==
    ASSUME LongResult = {}
    PROVE  ExSpec => []CacheIsStore /\ ServesStoredValue
<1> DEFINE Inv == ExIInv /\ CacheIsStore
<1>s. ExIInv /\ [ExNext]_exVars => ExIInv'
  BY RestLawsHold, StoreStays
<1>0. CacheIsStore <=> StoreOK(g_cache, stored)
  BY DEF CacheIsStore, StoreOK
<1>1. ExInit => Inv
  BY <1>0, RestLawsHold, StoreInit
<1>2. ASSUME Inv, ExNext PROVE CacheIsStore' /\ Serves
  <2>1. StoreOK(g_cache', stored') /\ Serves
    BY <1>0, <1>2, RestLawsHold, StoreStep DEF GoodStep
  <2> QED BY <2>1 DEF CacheIsStore, StoreOK
<1>3. Inv /\ [ExNext]_exVars => Inv'
  <2>1. ASSUME CacheIsStore, UNCHANGED exVars PROVE CacheIsStore'
    BY <2>1 DEF CacheIsStore, exVars
  <2> QED BY <1>2, <2>1, <1>s
<1>4. Inv /\ [ExNext]_exVars
        => [reply'.served # Absent => reply'.served = stored[reply'.key]]_exVars
  BY <1>2 DEF Serves
<1> QED BY <1>1, <1>3, <1>4, PTL DEF ExSpec, ServesStoredValue
================================================================================
