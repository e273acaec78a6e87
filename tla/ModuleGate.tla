------------------------------- MODULE ModuleGate -------------------------------
(*******************************************************************************)
(* The deny-by-default hash gate and the compiled-module cache (rados-nkvx/    *)
(* nkvx_executor.c:420-645, target/kvdev_rados_nkvx_wasm.c:735-1135).  A bound *)
(* Exec names a module and a sha256; the module object is fetched on a cache   *)
(* miss, verified, compiled without holding g_modcache.mutex and cached under  *)
(* its hash, while the run itself holds g_cache.mutex.  Compile jobs of other  *)
(* workers, rebinding, overwritten module objects, evictions and resets        *)
(* interleave.  A module's code is identified with its hash.                   *)
(*******************************************************************************)
EXTENDS Naturals, Sequences, FiniteSets

CONSTANTS
    MgThread,    \* threads that run or compile
    MgName,      \* module keys
    MgCode,      \* codes, each its own hash
    MgNoCode,    \* no module object, nothing fetched, no warm engine
    MgSize,      \* per code, its serialized_len
    MgMaxCount,  \* NKVX_ENV_MOD_CACHE_MAX_COUNT; 0 is unbounded
    MgMaxBytes   \* NKVX_ENV_MOD_CACHE_MAX_BYTES; 0 is unbounded

ASSUME MgAssumption ==
    /\ MgNoCode \notin MgCode
    /\ MgMaxCount \in Nat /\ MgMaxBytes \in Nat
    /\ MgSize \in [MgCode -> Nat]

VARIABLES
    g_modcache,  \* entries [sha256, serialized], least recently used first
    mgBinding,   \* per name, the hash bound to it
    mgBound,     \* history: per name, every hash it was bound to
    mgStored,    \* per name, the module object
    mgWarm,      \* per name, the code of the warm engine over the object
    mgMutex,     \* holder of g_cache.mutex
    mgRun,       \* per thread, what it is doing
    mgRan        \* the last code entered

mgVars == <<g_modcache, mgBinding, mgBound, mgStored, mgWarm, mgMutex, mgRun, mgRan>>

MgIdle == [pc |-> "idle"]
MgNone == [entered |-> FALSE]
Free == "free"

(*******************************************************************************)
(* Types: a cached artifact and a warm engine hold compiled code.              *)
(*******************************************************************************)
MgTypeOK ==
    /\ \A i \in DOMAIN g_modcache : g_modcache[i] \in [sha256 : MgCode, serialized : MgCode]
    /\ mgBinding \in [MgName -> MgCode]
    /\ mgStored \in [MgName -> MgCode \cup {MgNoCode}]
    /\ mgWarm \in [MgName -> MgCode \cup {MgNoCode}]
    /\ mgMutex \in MgThread \cup {Free}
    /\ \A t \in MgThread : mgRun[t].pc \in {"idle", "gated", "compile", "job", "obtain"}

MgInit ==
    /\ g_modcache = <<>>
    /\ mgBinding \in [MgName -> MgCode]
    /\ mgBound = [n \in MgName |-> {mgBinding[n]}]
    /\ mgStored = mgBinding
    /\ mgWarm = [n \in MgName |-> MgNoCode]
    /\ mgMutex = Free
    /\ mgRun = [t \in MgThread |-> MgIdle]
    /\ mgRan = MgNone

--------------------------------------------------------------------------------
nkvx_modcache_lookup(sha256) == {i \in DOMAIN g_modcache : g_modcache[i].sha256 = sha256}
kvdev_rados_nkvx_wasm_module_cached(sha256) == nkvx_modcache_lookup(sha256) # {}

nkvx_wasm_verify_Trusting(code, sha256) == TRUE
nkvx_wasm_verify(code, sha256) == code = sha256

Bytes(entries) ==
    LET f[i \in 0..Len(entries)] ==
            IF i = 0 THEN 0 ELSE f[i - 1] + MgSize[entries[i].serialized]
    IN  f[Len(entries)]

Fits(entries) ==
    /\ MgMaxCount # 0 => Len(entries) <= MgMaxCount
    /\ MgMaxBytes # 0 => Bytes(entries) <= MgMaxBytes

\* nkvx_modcache_enforce_caps: drop from the head until the rest, if any, fits both caps.
nkvx_modcache_enforce_caps(entries) ==
    LET first == CHOOSE k \in 1..(Len(entries) + 1) :
                    /\ k <= Len(entries) => Fits(SubSeq(entries, k, Len(entries)))
                    /\ \A j \in 1..(k - 1) : ~ Fits(SubSeq(entries, j, Len(entries)))
    IN  SubSeq(entries, first, Len(entries))

TouchedEntry(i) ==
    Append([j \in 1..(Len(g_modcache) - 1) |-> g_modcache[IF j < i THEN j ELSE j + 1]],
           g_modcache[i])

\* The engine of the given code is warm; its entry function runs, or the store, the instance
\* or the caps fail before it does.  The thread is done.
Enter(t, code, warm) ==
    /\ mgRan' \in {MgNone, [entered |-> TRUE, name |-> mgRun[t].name, sha256 |-> mgRun[t].sha256,
                            code |-> code, warm |-> warm]}
    /\ mgWarm' = [mgWarm EXCEPT ![mgRun[t].name] = code]
    /\ mgRun' = [mgRun EXCEPT ![t] = MgIdle]
    /\ mgMutex' = Free

Fail(t) ==
    /\ mgRun' = [mgRun EXCEPT ![t] = MgIdle]
    /\ mgRan' = MgNone
    /\ UNCHANGED mgWarm

--------------------------------------------------------------------------------
\* nkvx_run_wasm up to the run: fetch and verify on a miss only; a missing module object
\* or a mismatch is INVALID, and a failed fetch or an absent runtime ends the Exec too.
nkvx_run_wasm(t, n) ==
    LET sha256 == mgBinding[n]
        cached == kvdev_rados_nkvx_wasm_module_cached(sha256)
        fetched == mgStored[n]
    IN  /\ mgRun[t] = MgIdle
        /\ \/ /\ cached \/ (fetched # MgNoCode /\ nkvx_wasm_verify(fetched, sha256))
              /\ mgRun' = [mgRun EXCEPT ![t] =
                    [pc |-> "gated", name |-> n, sha256 |-> sha256,
                     bytes |-> IF cached THEN MgNoCode ELSE fetched]]
              /\ mgRan' = MgNone
              /\ UNCHANGED mgWarm
           \/ ~ cached /\ Fail(t)
        /\ UNCHANGED <<g_modcache, mgBinding, mgBound, mgStored, mgMutex>>

\* nkvx_run_on_object_locked up to the entry: a warm engine of this name, else nkvx_module_obtain
\* from the cached artifact, else the compile of the fetched bytes.  It fails if there are
\* none (evicted since the probe), and for an absent object, memory or instantiation.
nkvx_run_on_object_locked_Module(t) ==
    LET hits == nkvx_modcache_lookup(mgRun[t].sha256)
        warm == mgWarm[mgRun[t].name]
    IN  /\ mgRun[t].pc = "gated"
        /\ mgMutex = Free
        /\ \/ warm # MgNoCode /\ Enter(t, warm, TRUE) /\ UNCHANGED g_modcache
           \/ \E i \in hits :
                 /\ warm = MgNoCode
                 /\ g_modcache' = TouchedEntry(i)
                 /\ Enter(t, g_modcache[i].serialized, FALSE)
           \/ /\ warm = MgNoCode /\ hits = {}
              /\ mgRun[t].bytes # MgNoCode
              /\ nkvx_wasm_verify(mgRun[t].bytes, mgRun[t].sha256)
              /\ mgRun' = [mgRun EXCEPT ![t] = [mgRun[t] EXCEPT !.pc = "compile"]]
              /\ mgMutex' = t
              /\ UNCHANGED <<g_modcache, mgWarm, mgRan>>
           \/ /\ Fail(t)
              /\ g_modcache' \in {g_modcache} \cup
                    {TouchedEntry(i) : i \in IF warm = MgNoCode THEN hits ELSE {}}
              /\ UNCHANGED mgMutex
        /\ UNCHANGED <<mgBinding, mgBound, mgStored>>

\* A worker's COMPILE job calls kvdev_rados_nkvx_wasm_module_insert on gated bytes.
nkvx_compile_job(t, n) ==
    /\ mgRun[t] = MgIdle
    /\ mgStored[n] # MgNoCode
    /\ nkvx_wasm_verify(mgStored[n], mgBinding[n])
    /\ ~ kvdev_rados_nkvx_wasm_module_cached(mgBinding[n])
    /\ mgRun' = [mgRun EXCEPT ![t] = [pc |-> "job", name |-> n, sha256 |-> mgBinding[n],
                                      bytes |-> mgStored[n]]]
    /\ UNCHANGED <<g_modcache, mgBinding, mgBound, mgStored, mgWarm, mgMutex, mgRan>>

AfterInsert(t) ==
    [mgRun EXCEPT ![t] = IF mgRun[t].pc = "job" THEN MgIdle
                         ELSE [mgRun[t] EXCEPT !.pc = "obtain"]]

\* The compile is over: the winner is cached at the tail and the caps enforced, the loser of
\* a race drops its artifact, and a compile error or out of memory fails the caller.
kvdev_rados_nkvx_wasm_module_insert_Blind(t) ==
    /\ mgRun[t].pc \in {"compile", "job"}
    /\ g_modcache' = nkvx_modcache_enforce_caps(
              Append(g_modcache, [sha256 |-> mgRun[t].sha256, serialized |-> mgRun[t].bytes]))
    /\ mgRun' = AfterInsert(t)
    /\ UNCHANGED <<mgMutex, mgRan, mgWarm, mgBinding, mgBound, mgStored>>
kvdev_rados_nkvx_wasm_module_insert(t) ==
    /\ mgRun[t].pc \in {"compile", "job"}
    /\ \/ /\ ~ kvdev_rados_nkvx_wasm_module_cached(mgRun[t].sha256)
          /\ g_modcache' = nkvx_modcache_enforce_caps(
                Append(g_modcache, [sha256 |-> mgRun[t].sha256, serialized |-> mgRun[t].bytes]))
          /\ mgRun' = AfterInsert(t)
          /\ UNCHANGED <<mgMutex, mgRan, mgWarm>>
       \/ /\ kvdev_rados_nkvx_wasm_module_cached(mgRun[t].sha256)
          /\ mgRun' = AfterInsert(t)
          /\ UNCHANGED <<g_modcache, mgMutex, mgRan, mgWarm>>
       \/ /\ Fail(t)
          /\ mgMutex' = IF mgMutex = t THEN Free ELSE mgMutex
          /\ UNCHANGED g_modcache
    /\ UNCHANGED <<mgBinding, mgBound, mgStored>>

\* nkvx_module_obtain after its insert: the artifact is looked up again, and may be gone; the
\* copy or the deserialization may fail too.
nkvx_module_obtain(t) ==
    LET hits == nkvx_modcache_lookup(mgRun[t].sha256)
    IN  /\ mgRun[t].pc = "obtain"
        /\ \/ \E i \in hits : Enter(t, g_modcache[i].serialized, FALSE)
           \/ Fail(t) /\ mgMutex' = Free
        /\ UNCHANGED <<g_modcache, mgBinding, mgBound, mgStored>>

kvdev_rados_nkvx_wasm_module_cache_reset ==
    /\ g_modcache # <<>>
    /\ g_modcache' = <<>>
    /\ UNCHANGED <<mgBinding, mgBound, mgStored, mgWarm, mgMutex, mgRun, mgRan>>

\* The object cache drops the object, and its warm engines with it.
MgWarmDrop(n) ==
    /\ mgWarm[n] # MgNoCode
    /\ mgMutex = Free
    /\ mgWarm' = [mgWarm EXCEPT ![n] = MgNoCode]
    /\ UNCHANGED <<g_modcache, mgBinding, mgBound, mgStored, mgMutex, mgRun, mgRan>>

\* Operators bind a name to another hash and overwrite or remove module objects.
MgBind(n, sha256) ==
    /\ sha256 # mgBinding[n]
    /\ mgBinding' = [mgBinding EXCEPT ![n] = sha256]
    /\ mgBound' = [mgBound EXCEPT ![n] = @ \cup {sha256}]
    /\ UNCHANGED <<g_modcache, mgStored, mgWarm, mgMutex, mgRun, mgRan>>

MgOverwrite(n, code) ==
    /\ code # mgStored[n]
    /\ mgStored' = [mgStored EXCEPT ![n] = code]
    /\ UNCHANGED <<g_modcache, mgBinding, mgBound, mgWarm, mgMutex, mgRun, mgRan>>

MgNext ==
    \/ \E t \in MgThread, n \in MgName : nkvx_run_wasm(t, n) \/ nkvx_compile_job(t, n)
    \/ \E t \in MgThread : \/ nkvx_run_on_object_locked_Module(t)
                           \/ kvdev_rados_nkvx_wasm_module_insert(t)
                           \/ nkvx_module_obtain(t)
    \/ kvdev_rados_nkvx_wasm_module_cache_reset
    \/ \E n \in MgName : MgWarmDrop(n) \/ \E k \in MgCode : MgBind(n, k)
    \/ \E n \in MgName, k \in MgCode \cup {MgNoCode} : MgOverwrite(n, k)

MgSpec == MgInit /\ [][MgNext]_mgVars

--------------------------------------------------------------------------------
(*******************************************************************************)
(* The gate: the code a thread enters is the bound code, whatever was stored   *)
(* under the module's name and whoever compiled, evicted or reset in between.  *)
(* On a warm hit, which is keyed by name and object and not by hash, it is a   *)
(* code that name was bound to at some time: a rebound name runs its former    *)
(* code until the warm engine is dropped.                                      *)
(*******************************************************************************)
MgEntersBoundCode ==
    mgRan.entered =>
        /\ mgRan.code \in mgBound[mgRan.name]
        /\ ~ mgRan.warm => mgRan.code = mgRan.sha256

(*******************************************************************************)
(* Compiles race outside g_modcache.mutex, and still one artifact per hash is  *)
(* cached, compiled from bytes of that hash, and both caps hold after every    *)
(* insert.                                                                     *)
(*******************************************************************************)
OneArtifact(entries) ==
    \A i, j \in DOMAIN entries :
        /\ entries[i].serialized = entries[i].sha256
        /\ entries[i].sha256 = entries[j].sha256 => i = j
MgCacheCoherent == MgTypeOK /\ OneArtifact(g_modcache) /\ Fits(g_modcache)

================================================================================
