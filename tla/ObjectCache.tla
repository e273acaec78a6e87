------------------------------ MODULE ObjectCache ------------------------------
(*****************************************************************************)
(* The identity-addressed object cache and the warm-instance cache of the    *)
(* WebAssembly runtime (target/kvdev_rados_nkvx_wasm.c).  Both are LRU lists *)
(* under one mutex that every entry point holds from start to end, so each   *)
(* entry point maps the cache g to its next value: the operators below are   *)
(* those functions.  ExecWorker and ExecutorStore are its two users.         *)
(*****************************************************************************)
EXTENDS Naturals, Sequences, FiniteSetsExt

CONSTANTS
    Key,        \* object ids (hex of the key)
    LongKey,    \* those of 256 characters or more: obj_key[] truncates them
    Module,     \* run names of WebAssembly modules
    LongResult, \* those whose result reaches past WASM_OBJ_OFF - WASM_RES_OFF
    Value,      \* contents an object may have
    Pages,      \* Value -> pages of its page-rounded backing
    Obj,        \* addresses of struct nkvx_obj_entry; freed ones are reused
    MaxCount,   \* SPDK_NKVX_OBJ_CACHE_MAX_COUNT, 0 disables
    MaxBytes,   \* SPDK_NKVX_OBJ_CACHE_MAX_BYTES in pages, 0 disables
    MaxWarm     \* SPDK_NKVX_WARM_CACHE_MAX_COUNT, 0 disables

\* What obj_key[256] holds of k, what a module leaves of an object it overran,
\* and an absent object.
Truncated == "truncated"
Clobbered == "clobbered"
Absent == "absent"
StoredKey(k) == IF k \in LongKey THEN Truncated ELSE k

ASSUME CacheAssumption ==
    /\ LongKey \subseteq Key /\ LongResult \subseteq Module
    /\ IsFiniteSet(Obj)
    /\ Pages \in [Value -> Nat \ {0}]
    /\ {MaxCount, MaxBytes, MaxWarm} \subseteq Nat
    /\ Truncated \notin Key /\ Absent \notin Key
    /\ {Clobbered, Absent} \cap Value = {}

VARIABLES
    g_cache,   \* the object and warm caches of the process
    freed_use  \* a run has used a freed entry: all is undefined from there on

ObjEntry == [obj_key : Key \cup {Truncated}, content : Value \cup {Clobbered},
             mem_cap : Nat, refcount : Nat, dead : BOOLEAN]
WarmEntry == [module : Module, obj_key : Key \cup {Truncated}, obj : Obj]

\* g_cache; the domain of ent is the set of allocated entries.
CacheOK(g) ==
    /\ g.objects \in Seq(Obj) /\ g.warm \in Seq(WarmEntry)
    /\ DOMAIN g.ent \subseteq Obj
    /\ \A o \in DOMAIN g.ent : g.ent[o] \in ObjEntry
    /\ g.obj_bytes \in Nat

EmptyCache == [objects |-> <<>>, ent |-> <<>>, warm |-> <<>>, obj_bytes |-> 0]

--------------------------------------------------------------------------------
\* F(x), where TLC computes x once however often F names it.
With(x, F(_)) == CHOOSE r \in {F(y) : y \in {x}} : TRUE

\* A list without the members of X (SelectSeq, in a form the proofs can unfold),
\* and the member of S nearest to its head.
Without(s, X) ==
    LET kept[n \in 0..Len(s)] ==
            IF n = 0 THEN <<>>
            ELSE IF s[n] \in X THEN kept[n - 1] ELSE Append(kept[n - 1], s[n])
    IN  kept[Len(s)]

FirstOf(s, S) == s[Min({i \in DOMAIN s : s[i] \in S})]

\* The pages that back the entries S, and how many they are.
BackingOf(g, S) == UNION {{o} \X (1..g.ent[o].mem_cap) : o \in S}
BytesOf(g, S) == Cardinality(BackingOf(g, S))

Live(g) == {o \in Range(g.objects) : ~ g.ent[o].dead}

\* The live entries for k; the code returns the first, hit.
nkvx_obj_lookup(g, k) == {o \in Live(g) : g.ent[o].obj_key = k}
Hit(g, k) == FirstOf(g.objects, nkvx_obj_lookup(g, k))

nkvx_obj_list_add(g, o) ==
    [g EXCEPT !.objects = Append(@, o), !.obj_bytes = @ + g.ent[o].mem_cap]

nkvx_obj_touch(g, o) == [g EXCEPT !.objects = Append(Without(@, {o}), o)]

\* A pin is a record that names its entry: a job's, a warm entry.
Pin(o) == [obj |-> o]
Ref(g, o) == [g EXCEPT !.ent[o].refcount = @ + 1]

\* The pins of P on o, and the dead entries whose last pins P are.
Count(P, o) == Cardinality({p \in P : p.obj = o})
Unpinned_Eager(g, P) == {o \in {p.obj : p \in P} : g.ent[o].dead}
Unpinned(g, P) ==
    {o \in {p.obj : p \in P} : g.ent[o].dead /\ g.ent[o].refcount - Count(P, o) = 0}

\* The pins P are dropped; a dead entry is unlinked and freed with its last pin
\* (nkvx_obj_list_remove, nkvx_obj_free).
Dropped(g, P, freed) ==
    [objects |-> Without(g.objects, freed),
     obj_bytes |-> g.obj_bytes - BytesOf(g, freed),
     ent |-> [o \in DOMAIN g.ent \ freed |->
                 [g.ent[o] EXCEPT !.refcount = @ - Count(P, o)]],
     warm |-> g.warm]
nkvx_obj_unref(g, P) ==
    With(g, LAMBDA h : With(P, LAMBDA Q :
        With(Unpinned(h, Q), LAMBDA freed : Dropped(h, Q, freed))))

\* The warm entries W go, each with its pin.
nkvx_warm_destroy(g, W) == nkvx_obj_unref([g EXCEPT !.warm = Without(@, W)], W)

\* The entries S are marked dead under a temporary pin each: one is freed now
\* unless something else pins it.
Dying(e) == [e EXCEPT !.dead = TRUE, !.refcount = @ + 1]
Kill(g, S) ==
    nkvx_obj_unref([g EXCEPT !.ent = [o \in DOMAIN @ |->
                                         IF o \in S THEN Dying(@[o]) ELSE @[o]]],
                   {Pin(o) : o \in S})

nkvx_cache_invalidate_locked(g, k) ==
    With(nkvx_warm_destroy(g, {w \in Range(g.warm) : w.obj_key = k}),
         LAMBDA cold : Kill(cold, nkvx_obj_lookup(cold, k)))

\* The entries S are evicted, one after the other.
nkvx_obj_evict_locked(g, S) ==
    Kill(nkvx_warm_destroy(g, {w \in Range(g.warm) : w.obj \in S}), S)

OverCaps(g) ==
    \/ MaxCount # 0 /\ Cardinality(Live(g)) > MaxCount
    \/ MaxBytes # 0 /\ g.obj_bytes > MaxBytes

\* The live entries among the n least recently used, and the cache without them.
Oldest(g, n) == {g.objects[i] : i \in 1..n} \cap Live(g)
Evicted(g, n) == With(Oldest(g, n), LAMBDA S : nkvx_obj_evict_locked(g, S))

\* Evict from the least recently used live entry on while a cap is exceeded.
Enough(g) == {n \in 0..Len(g.objects) : ~ With(Evicted(g, n), OverCaps)}
nkvx_obj_cache_enforce_caps(g) ==
    With(g, LAMBDA h : With(Enough(h), LAMBDA enough :
        Evicted(h, IF enough = {} THEN Len(h.objects) ELSE Min(enough))))

nkvx_warm_cache_enforce_caps(g) ==
    IF MaxWarm = 0 THEN g
    ELSE With(g, LAMBDA h :
             nkvx_warm_destroy(h, {h.warm[i] : i \in 1..(Len(h.warm) - MaxWarm)}))

nkvx_warm_build_Unpinned(g, m, o) ==
    nkvx_warm_cache_enforce_caps(
        [g EXCEPT !.warm = Append(@, [module |-> m, obj_key |-> g.ent[o].obj_key,
                                      obj |-> o])])
nkvx_warm_build(g, m, o) ==
    nkvx_warm_cache_enforce_caps(
        [Ref(g, o) EXCEPT !.warm = Append(@, [module |-> m,
                                              obj_key |-> g.ent[o].obj_key,
                                              obj |-> o])])

\* A module runs in a linear memory that is the cached buffer: a long result
\* overwrites the object's first bytes.
Clobber(g, m, o) ==
    IF m \in LongResult THEN [g EXCEPT !.ent[o].content = Clobbered] ELSE g

\* nkvx_run_on_object_locked: the warm build may fail, the run may fail before
\* the module is called, and the module may run.
RunOutcome == {"not_built", "not_called", "called"}
nkvx_run_on_object_locked(g, m, o, outcome) ==
    With(g, LAMBDA h :
        LET hits == {w \in Range(h.warm) : w.obj = o /\ w.module = m}
            hit == FirstOf(h.warm, hits)
            ready == IF hits # {}
                     THEN [h EXCEPT !.warm = Append(Without(@, {hit}), hit)]
                     ELSE nkvx_warm_build(h, m, o)
        IN  CASE outcome = "called" -> Clobber(ready, m, o)
              [] outcome = "not_called" -> ready
              [] outcome = "not_built" -> IF hits = {} THEN h ELSE ready)

\* The miss arm of run_cached and cache_fill: o is allocated, filled with v,
\* listed, and the caps are enforced.
ColdFill(g, k, v, o) ==
    LET entry == [obj_key |-> StoredKey(k), content |-> v, mem_cap |-> Pages[v],
                  refcount |-> 0, dead |-> FALSE]
        filled == [g EXCEPT !.ent = [p \in DOMAIN @ \cup {o} |->
                                        IF p = o THEN entry ELSE @[p]]]
    IN  nkvx_obj_cache_enforce_caps(nkvx_obj_list_add(filled, o))

\* calloc: the entries not allocated.
FreshObj_Recycled(g) == {o \in Obj : o \in DOMAIN g.ent => g.ent[o].dead}
FreshObj(g) == Obj \ DOMAIN g.ent

--------------------------------------------------------------------------------
(*****************************************************************************)
(* Facts that hold of the cache between two calls.                           *)
(*****************************************************************************)

\* Every allocated entry is on the list once, and nothing freed is: what lets
\* cache_reset find every entry.
ListedOnce(g) ==
    /\ DOMAIN g.ent = Range(g.objects)
    /\ Cardinality(DOMAIN g.ent) = Len(g.objects)

\* The warm entries that alias o.
WarmPins(g, o) == Cardinality({w \in Range(g.warm) : w.obj = o})

===============================================================================
