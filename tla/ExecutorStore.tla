------------------------------ MODULE ExecutorStore ------------------------------
(************************************************************************************)
(* The verbs of one executor over RADOS through the object cache                    *)
(* (rados-nkvx/nkvx_executor.c: nkvx_run_wasm, nkvx_retrieve, nkvx_store,           *)
(* nkvx_delete, nkvx_exist).  The executor runs each verb to its end on its         *)
(* one progress thread, so a verb is a step; it may fail at its RADOS calls,        *)
(* and the process may restart between verbs.                                       *)
(************************************************************************************)
EXTENDS ObjectCache

CONSTANT MaxRestarts   \* bound: restarts of the executor

ASSUME ExecutorAssumption == MaxRestarts \in Nat

VARIABLES
    stored,    \* RADOS: per key, the stored value or Absent
    reply,     \* the last verb's answer: its key and the bytes it served
    restarts   \* restarts so far

exVars == <<g_cache, stored, reply, restarts, freed_use>>

NoReply == [key |-> Absent, served |-> Absent]
Answer(k, v) == reply' = [key |-> k, served |-> v]
Fails == reply' = NoReply

(************************************************************************************)
(* Types of the cache, the store and the answer.                                    *)
(************************************************************************************)
ExTypeOK ==
    /\ CacheOK(g_cache)
    /\ stored \in [Key -> Value \cup {Absent}]
    /\ reply \in [key : Key \cup {Absent}, served : Value \cup {Absent, Clobbered}]
    /\ restarts \in 0..MaxRestarts
    /\ freed_use \in BOOLEAN

ExInit ==
    /\ g_cache = EmptyCache
    /\ stored = [k \in Key |-> Absent]
    /\ reply = NoReply
    /\ restarts = 0
    /\ freed_use = FALSE

Lookup(k) == nkvx_obj_lookup(g_cache, k)

--------------------------------------------------------------------------------
\* nkvx_run_wasm: pin and run on a hit, without a touch of the LRU order.
ExecHit(k, m) ==
    /\ Lookup(k) # {}
    /\ LET o == Hit(g_cache, k)
       IN  /\ \E r \in RunOutcome :
                 g_cache' = nkvx_obj_unref(
                     nkvx_run_on_object_locked(Ref(g_cache, o), m, o, r), {Pin(o)})
           /\ Answer(k, g_cache.ent[o].content)
    /\ UNCHANGED <<stored, restarts, freed_use>>

\* On a miss, stat, fill and run; the fill may fail and leaves nothing.
ExecMiss(k, m) ==
    /\ Lookup(k) = {} /\ stored[k] # Absent
    /\ \/ Fails /\ UNCHANGED <<g_cache, freed_use>>
       \/ \E o \in FreshObj(g_cache) :
            LET g == ColdFill(g_cache, k, stored[k], o)
            IN  /\ Answer(k, stored[k])
                /\ IF o \in DOMAIN g.ent
                   THEN /\ \E r \in RunOutcome :
                              g_cache' = nkvx_run_on_object_locked(g, m, o, r)
                        /\ UNCHANGED freed_use
                   ELSE g_cache' = g /\ freed_use' = TRUE
    /\ UNCHANGED <<stored, restarts>>

\* nkvx_retrieve: the pinned bytes on a hit.
RetrieveHit(k) ==
    /\ Lookup(k) # {}
    /\ Answer(k, g_cache.ent[Hit(g_cache, k)].content)
    /\ UNCHANGED <<g_cache, stored, restarts, freed_use>>

\* On a miss, fill the cache and serve from it, or read directly when the entry
\* is not found again or the fill failed; the direct read may fail too.
RetrieveMiss(k) ==
    /\ Lookup(k) = {} /\ stored[k] # Absent
    /\ \/ \E o \in FreshObj(g_cache) :
            LET g == ColdFill(g_cache, k, stored[k], o)
                found == nkvx_obj_lookup(g, k)
            IN  /\ g_cache' = g
                /\ Answer(k, IF found # {} THEN g.ent[Hit(g, k)].content
                                             ELSE stored[k])
       \/ Answer(k, stored[k]) /\ UNCHANGED g_cache
       \/ Fails /\ UNCHANGED g_cache
    /\ UNCHANGED <<stored, restarts, freed_use>>

\* Retrieve and Exec of an absent object: KEY_NOT_EXIST.  nkvx_exist reads only
\* RADOS.
NotFound(k) ==
    /\ Lookup(k) = {} /\ stored[k] = Absent
    /\ Fails
    /\ UNCHANGED <<g_cache, stored, restarts, freed_use>>

\* A verb declined before it touches the store or the cache: a mutation of a
\* read-only namespace, an Exec whose module is not bound, fetched or verified.
Declined ==
    /\ Fails
    /\ UNCHANGED <<g_cache, stored, restarts, freed_use>>

\* nkvx_store: invalidate, then one conditional RADOS operation.  A failed
\* operation may still have been applied.
StoreAllowed(k, flag) ==
    /\ flag = "SINKE" => stored[k] = Absent
    /\ flag = "SIKE" => stored[k] # Absent

nkvx_store_Fresh(k, v, flag) ==
    /\ g_cache' = IF flag = "SIKE" THEN nkvx_cache_invalidate_locked(g_cache, k)
                  ELSE g_cache
    /\ \/ StoreAllowed(k, flag) /\ stored' = [stored EXCEPT ![k] = v]
       \/ UNCHANGED stored
    /\ Fails
    /\ UNCHANGED <<restarts, freed_use>>
nkvx_store(k, v, flag) ==
    /\ g_cache' = nkvx_cache_invalidate_locked(g_cache, k)
    /\ \/ StoreAllowed(k, flag) /\ stored' = [stored EXCEPT ![k] = v]
       \/ UNCHANGED stored
    /\ Fails
    /\ UNCHANGED <<restarts, freed_use>>

\* nkvx_delete: invalidate, then remove.
nkvx_delete(k) ==
    /\ g_cache' = nkvx_cache_invalidate_locked(g_cache, k)
    /\ stored' \in {stored, [stored EXCEPT ![k] = Absent]}
    /\ Fails
    /\ UNCHANGED <<restarts, freed_use>>

\* The process ends (cache_reset on close, or a crash) and starts again.
Restart ==
    /\ restarts < MaxRestarts
    /\ restarts' = restarts + 1
    /\ g_cache' = EmptyCache
    /\ Fails
    /\ UNCHANGED <<stored, freed_use>>

ExNext ==
    \/ \E k \in Key :
          \/ \E m \in Module : ExecHit(k, m) \/ ExecMiss(k, m)
          \/ RetrieveHit(k)
          \/ RetrieveMiss(k)
          \/ NotFound(k)
          \/ \E v \in Value, flag \in {"none", "SIKE", "SINKE"} : nkvx_store(k, v, flag)
          \/ nkvx_delete(k)
    \/ Declined
    \/ Restart

ExSpec == ExInit /\ [][ExNext]_exVars

--------------------------------------------------------------------------------
(************************************************************************************)
(* Retrieve and Exec work on the stored value: what a verb serves is what           *)
(* RADOS held when it ran, through any history of Stores, Deletes, failures,        *)
(* evictions and restarts ("MANDATORY coherence ... never a stale read").           *)
(************************************************************************************)
ServesStoredValue ==
    [][reply'.served # Absent => reply'.served = stored[reply'.key]]_exVars

(************************************************************************************)
(* The coherence behind it: every cached object is the stored one, and a key        *)
(* that is not in RADOS has no entry.                                               *)
(************************************************************************************)
CacheIsStore ==
    \A o \in DOMAIN g_cache.ent : \A k \in Key :
        g_cache.ent[o].obj_key = k => g_cache.ent[o].content = stored[k]

(************************************************************************************)
(* At rest the executor holds its caps: no entry is dead, so none is kept by        *)
(* a pin, and both LRU caps and the warm cap hold ("BOUNDED by an LRU               *)
(* eviction policy").                                                               *)
(************************************************************************************)
AtRestWithinCaps ==
    /\ Live(g_cache) = Range(g_cache.objects)
    /\ ~ OverCaps(g_cache)
    /\ MaxWarm # 0 => Len(g_cache.warm) <= MaxWarm

(************************************************************************************)
(* Accounting at rest: entries are listed once, obj_bytes is their sum, and         *)
(* the only references are the warm entries'.                                       *)
(************************************************************************************)
AtRestBalanced ==
    /\ ListedOnce(g_cache)
    /\ g_cache.obj_bytes = BytesOf(g_cache, DOMAIN g_cache.ent)
    /\ \A o \in DOMAIN g_cache.ent :
          g_cache.ent[o].refcount = WarmPins(g_cache, o)

(************************************************************************************)
(* "The just-filled object is MRU (tail), so it is never the victim": the run       *)
(* after a fill is on an entry that is still allocated.                             *)
(************************************************************************************)
FilledObjectSurvives == ~ freed_use

(************************************************************************************)
(* Cold-fill once: an object whose id fits obj_key has at most one entry, so        *)
(* a fill puts it where the next probe finds it ("a subsequent Retrieve OR          *)
(* Exec of the same oid a content hit").                                            *)
(************************************************************************************)
OneEntryPerKey ==
    \A o \in DOMAIN g_cache.ent : \A p \in DOMAIN g_cache.ent \ {o} :
        g_cache.ent[o].obj_key = g_cache.ent[p].obj_key
            => g_cache.ent[o].obj_key = Truncated

(************************************************************************************)
(* Between verbs the caches are in order: balanced, within their caps, and with one *)
(* entry for a key.                                                                 *)
(************************************************************************************)
AtRestConsistent == ExTypeOK /\ AtRestWithinCaps /\ AtRestBalanced /\ OneEntryPerKey

===============================================================================
