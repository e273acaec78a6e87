------------------------------- MODULE ExecWorker -------------------------------
(**********************************************************************************)
(* The off-reactor Exec of one process (target/kvdev_rados_nkvx.c): reactors      *)
(* probe and pin the object cache and queue jobs, one worker thread runs them     *)
(* against the cache and sends each back to its reactor, Stores invalidate        *)
(* meanwhile, and the pool is stopped and restarted.  The datapath that           *)
(* probes, reads RADOS and stores is outside the repository; it is modelled       *)
(* from the contract kvdev_rados_nkvx.h and kvdev_rados_nkvx_wasm.h give it.      *)
(**********************************************************************************)
EXTENDS ObjectCache

CONSTANTS
    Job,       \* Exec requests
    Builtin,   \* the modules that are C built-ins and use no cache
    MaxStops   \* bound: calls of kvdev_rados_nkvx_stop

VARIABLES
    rados,     \* per key, the stored value
    writing,   \* per key, the value of a Store submitted but not applied
    job,       \* the jobs
    queue,     \* g_nkvx.queue
    pool,      \* g_nkvx.running, g_nkvx.stop, the thread, the caller of stop
    stops      \* calls of stop so far

vars == <<g_cache, rados, writing, job, queue, pool, stops, freed_use>>

NoPin == "none"

ASSUME WorkerAssumption ==
    /\ Builtin \subseteq Module /\ MaxStops \in Nat
    /\ IsFiniteSet(Job) /\ NoPin \notin Obj

NewJob == [state |-> "idle", key |-> Absent, module |-> Absent,
           pin |-> NoPin, bytes |-> Absent]

JobRecord ==
    [state : {"idle", "probed", "queued", "running", "ran", "done"},
     key : Key \cup {Absent}, module : Module \cup {Absent},
     pin : Obj \cup {NoPin}, bytes : Value \cup {Absent, Clobbered}]

(**********************************************************************************)
(* Types of the cache, the jobs and the pool (g_cache, struct                     *)
(* kvdev_rados_nkvx_job, g_nkvx).                                                 *)
(**********************************************************************************)
TypeOK ==
    /\ CacheOK(g_cache)
    /\ rados \in [Key -> Value]
    /\ writing \in [Key -> Value \cup {Absent}]
    /\ job \in [Job -> JobRecord]
    /\ queue \in Seq(Job)
    /\ pool \in [running : BOOLEAN, stop : BOOLEAN, joining : BOOLEAN,
                 thread : {"none", "idle", "busy", "exited"}]
    /\ stops \in 0..MaxStops
    /\ freed_use \in BOOLEAN

Init ==
    /\ g_cache = EmptyCache
    /\ rados \in [Key -> Value]
    /\ writing = [k \in Key |-> Absent]
    /\ job = [j \in Job |-> NewJob]
    /\ queue = <<>>
    /\ pool = [running |-> FALSE, stop |-> FALSE, joining |-> FALSE, thread |-> "none"]
    /\ stops = 0
    /\ freed_use = FALSE

--------------------------------------------------------------------------------
\* The datapath.  A probe that hits pins the version it found.
kvdev_rados_nkvx_wasm_cache_pin(j, k, m) ==
    /\ job[j].state = "idle"
    /\ nkvx_obj_lookup(g_cache, k) # {}
    /\ LET o == Hit(g_cache, k)
       IN  /\ g_cache' = Ref(g_cache, o)
           /\ job' = [job EXCEPT ![j] = [state |-> "probed", key |-> k, module |-> m,
                                         pin |-> o, bytes |-> g_cache.ent[o].content]]
    /\ UNCHANGED <<rados, writing, queue, pool, stops, freed_use>>

\* A probe that misses reads the object and carries its bytes on the job.
ReadObject(j, k, m) ==
    /\ job[j].state = "idle"
    /\ nkvx_obj_lookup(g_cache, k) = {}
    /\ job' = [job EXCEPT ![j] = [state |-> "probed", key |-> k, module |-> m,
                                  pin |-> NoPin, bytes |-> rados[k]]]
    /\ UNCHANGED <<g_cache, rados, writing, queue, pool, stops, freed_use>>

\* A Store invalidates when it is submitted and takes effect later.
kvdev_rados_nkvx_wasm_cache_invalidate(k, v) ==
    /\ writing[k] = Absent
    /\ writing' = [writing EXCEPT ![k] = v]
    /\ g_cache' = nkvx_cache_invalidate_locked(g_cache, k)
    /\ UNCHANGED <<rados, job, queue, pool, stops, freed_use>>

StoreApplied(k) ==
    /\ writing[k] # Absent
    /\ rados' = [rados EXCEPT ![k] = writing[k]]
    /\ writing' = [writing EXCEPT ![k] = Absent]
    /\ UNCHANGED <<g_cache, job, queue, pool, stops, freed_use>>

\* kvdev_rados_nkvx_dispatch (and _dispatch_compile): refused when the pool is
\* not running, and the caller then gives its pin back.
kvdev_rados_nkvx_dispatch_KeepsPin(j) ==
    /\ job[j].state = "probed"
    /\ IF pool.running
       THEN /\ queue' = Append(queue, j)
            /\ job' = [job EXCEPT ![j].state = "queued"]
       ELSE job' = [job EXCEPT ![j] = NewJob] /\ UNCHANGED queue
    /\ UNCHANGED <<g_cache, rados, writing, pool, stops, freed_use>>
kvdev_rados_nkvx_dispatch(j) ==
    /\ job[j].state = "probed"
    /\ IF pool.running
       THEN /\ queue' = Append(queue, j)
            /\ job' = [job EXCEPT ![j].state = "queued"]
            /\ UNCHANGED g_cache
       ELSE /\ job' = [job EXCEPT ![j] = NewJob]
            /\ g_cache' = IF job[j].pin = NoPin THEN g_cache
                          ELSE nkvx_obj_unref(g_cache, {Pin(job[j].pin)})
            /\ UNCHANGED queue
    /\ UNCHANGED <<rados, writing, pool, stops, freed_use>>

\* kvdev_rados_nkvx_complete_on_spdk: done_fn fires on the reactor.
kvdev_rados_nkvx_complete_on_spdk(j) ==
    /\ job[j].state = "done"
    /\ job' = [job EXCEPT ![j] = NewJob]
    /\ UNCHANGED <<g_cache, rados, writing, queue, pool, stops, freed_use>>

--------------------------------------------------------------------------------
\* The worker takes the head of the queue.
TakeJob ==
    /\ pool.thread = "idle" /\ queue # <<>>
    /\ queue' = Tail(queue)
    /\ job' = [job EXCEPT ![Head(queue)].state = "running"]
    /\ pool' = [pool EXCEPT !.thread = "busy"]
    /\ UNCHANGED <<g_cache, rados, writing, stops, freed_use>>

\* It leaves only when asked to and the queue is empty.
WorkerExits_Undrained ==
    /\ pool.thread = "idle" /\ pool.stop
    /\ pool' = [pool EXCEPT !.thread = "exited"]
    /\ UNCHANGED <<g_cache, rados, writing, job, queue, stops, freed_use>>
WorkerExits ==
    /\ pool.thread = "idle" /\ pool.stop /\ queue = <<>>
    /\ pool' = [pool EXCEPT !.thread = "exited"]
    /\ UNCHANGED <<g_cache, rados, writing, job, queue, stops, freed_use>>

\* The end of a job on the worker: the completion is sent to the reactor.
SendCompletion(j) ==
    /\ job' = [job EXCEPT ![j].state = "done", ![j].pin = NoPin]
    /\ pool' = [pool EXCEPT !.thread = "idle"]

\* kvdev_rados_nkvx_run_module with a pin: run_pinned, then unpin.
kvdev_rados_nkvx_wasm_run_pinned(j) ==
    /\ job[j].state = "running" /\ job[j].pin # NoPin
    /\ job[j].module \notin Builtin
    /\ job' = [job EXCEPT ![j].state = "ran"]
    /\ IF job[j].pin \in DOMAIN g_cache.ent
       THEN /\ \E r \in RunOutcome :
                  g_cache' = nkvx_run_on_object_locked(g_cache, job[j].module,
                                                       job[j].pin, r)
            /\ UNCHANGED freed_use
       ELSE freed_use' = TRUE /\ UNCHANGED g_cache
    /\ UNCHANGED <<rados, writing, queue, pool, stops>>

kvdev_rados_nkvx_wasm_cache_unpin(j) ==
    /\ \/ job[j].state = "ran"
       \/ /\ job[j].state = "running" /\ job[j].pin # NoPin
          /\ job[j].module \in Builtin
    /\ g_cache' = nkvx_obj_unref(g_cache, {Pin(job[j].pin)})
    /\ SendCompletion(j)
    /\ UNCHANGED <<rados, writing, queue, stops, freed_use>>

\* With a key and no pin: run_cached, filled from the bytes on the job.
kvdev_rados_nkvx_wasm_run_cached(j) ==
    /\ job[j].state = "running" /\ job[j].pin = NoPin
    /\ job[j].module \notin Builtin
    /\ SendCompletion(j)
    /\ LET hit == Hit(g_cache, job[j].key)
       IN  IF nkvx_obj_lookup(g_cache, job[j].key) # {}
           THEN /\ \E r \in RunOutcome :
                      g_cache' = nkvx_run_on_object_locked(
                          nkvx_obj_touch(g_cache, hit), job[j].module, hit, r)
                /\ UNCHANGED freed_use
           ELSE \E o \in FreshObj(g_cache) :
                  \E g \in {ColdFill(g_cache, job[j].key, job[j].bytes, o)} :
                      IF o \in DOMAIN g.ent
                      THEN /\ \E r \in RunOutcome :
                                 g_cache' = nkvx_run_on_object_locked(
                                                g, job[j].module, o, r)
                           /\ UNCHANGED freed_use
                      ELSE g_cache' = g /\ freed_use' = TRUE
    /\ UNCHANGED <<rados, writing, queue, stops>>

\* A built-in over the carried bytes, or a compile job: no object cache.
RunBuiltin(j) ==
    /\ job[j].state = "running" /\ job[j].pin = NoPin
    /\ job[j].module \in Builtin
    /\ SendCompletion(j)
    /\ UNCHANGED <<g_cache, rados, writing, queue, stops, freed_use>>

--------------------------------------------------------------------------------
kvdev_rados_nkvx_start ==
    /\ ~ pool.running
    /\ queue' = <<>>
    /\ pool' = [pool EXCEPT !.running = TRUE, !.stop = FALSE, !.thread = "idle"]
    /\ UNCHANGED <<g_cache, rados, writing, job, stops, freed_use>>

\* kvdev_rados_nkvx_stop: ask, join the thread, and only then clear running.
kvdev_rados_nkvx_stop ==
    /\ pool.running /\ ~ pool.joining /\ stops < MaxStops
    /\ stops' = stops + 1
    /\ pool' = [pool EXCEPT !.stop = TRUE, !.joining = TRUE]
    /\ UNCHANGED <<g_cache, rados, writing, job, queue, freed_use>>

StopJoined ==
    /\ pool.joining /\ pool.thread = "exited"
    /\ pool' = [pool EXCEPT !.running = FALSE, !.joining = FALSE, !.thread = "none"]
    /\ UNCHANGED <<g_cache, rados, writing, job, queue, stops, freed_use>>

Worker ==
    \/ TakeJob
    \/ WorkerExits
    \/ \E j \in Job : \/ kvdev_rados_nkvx_wasm_run_pinned(j)
                      \/ kvdev_rados_nkvx_wasm_cache_unpin(j)
                      \/ kvdev_rados_nkvx_wasm_run_cached(j)
                      \/ RunBuiltin(j)

Next ==
    \/ \E j \in Job : \/ \E k \in Key, m \in Module :
                            \/ kvdev_rados_nkvx_wasm_cache_pin(j, k, m)
                            \/ ReadObject(j, k, m)
                      \/ kvdev_rados_nkvx_dispatch(j)
                      \/ kvdev_rados_nkvx_complete_on_spdk(j)
    \/ \E k \in Key : \/ \E v \in Value : kvdev_rados_nkvx_wasm_cache_invalidate(k, v)
                      \/ StoreApplied(k)
    \/ Worker
    \/ kvdev_rados_nkvx_start
    \/ kvdev_rados_nkvx_stop
    \/ StopJoined

Spec == Init /\ [][Next]_vars

\* The worker and the reactors run, and a started stop goes on.  Nothing makes
\* anyone submit, store, start or stop.
Fairness ==
    /\ WF_vars(Worker)
    /\ WF_vars(StopJoined)
    /\ \A j \in Job : /\ WF_vars(kvdev_rados_nkvx_dispatch(j))
                      /\ WF_vars(kvdev_rados_nkvx_complete_on_spdk(j))

FairSpec == Spec /\ Fairness

--------------------------------------------------------------------------------
Pinned(o) == {j \in Job : job[j].pin = o}

(**********************************************************************************)
(* The carry-ref of nkvx_obj_unref: refcount is the number of jobs and warm       *)
(* entries that use the entry, whatever Stores and evictions happen between       *)
(* the probe and the run.                                                         *)
(**********************************************************************************)
RefcountExact ==
    \A o \in DOMAIN g_cache.ent :
        g_cache.ent[o].refcount = Cardinality(Pinned(o)) + WarmPins(g_cache, o)

(**********************************************************************************)
(* No use after free: nothing a job has pinned and nothing a warm entry           *)
(* aliases is ever freed, and no run is on a freed entry ("never frees a          *)
(* PINNED object; it marks it dead and defers the free to the last unpin").       *)
(**********************************************************************************)
NoUseAfterFree ==
    /\ ~ freed_use
    /\ \A j \in Job : job[j].pin # NoPin => job[j].pin \in DOMAIN g_cache.ent
    /\ \A i \in DOMAIN g_cache.warm :
          LET w == g_cache.warm[i]
          IN  w.obj \in DOMAIN g_cache.ent /\ g_cache.ent[w.obj].obj_key = w.obj_key

(**********************************************************************************)
(* An Exec that probed a version serves that version: its buffer is not           *)
(* changed or reused between the probe on the reactor and the run on the          *)
(* worker ("the in-flight Exec serves exactly the pinned version").               *)
(**********************************************************************************)
PinnedVersionServed ==
    \A j \in Job : job[j].pin # NoPin =>
        /\ job[j].pin \in DOMAIN g_cache.ent
        /\ g_cache.ent[job[j].pin].content = job[j].bytes

(**********************************************************************************)
(* Nothing leaks: every allocated entry is on the list exactly once, a dead       *)
(* one is still in use, and obj_bytes is what the list holds.                     *)
(**********************************************************************************)
NothingLeaks ==
    /\ ListedOnce(g_cache)
    /\ \A o \in DOMAIN g_cache.ent : g_cache.ent[o].dead => g_cache.ent[o].refcount > 0
    /\ g_cache.obj_bytes = BytesOf(g_cache, DOMAIN g_cache.ent)

(**********************************************************************************)
(* An entry of the object cache lives exactly as long as it is used: its count is *)
(* exact, nothing is used after its free, and nothing stays behind.               *)
(**********************************************************************************)
EntriesLiveWhileUsed == TypeOK /\ RefcountExact /\ NoUseAfterFree /\ NothingLeaks

\* The jobs the worker is executing.
Executing == {j \in Job : job[j].state \in {"running", "ran"}}

(**********************************************************************************)
(* One worker runs one job at a time, across stop and restart: a start that       *)
(* finds the pool running, or still stopping, creates no second thread.           *)
(**********************************************************************************)
OneWorker == Cardinality(Executing) = (IF pool.thread = "busy" THEN 1 ELSE 0)

(**********************************************************************************)
(* Stop, start and dispatch in any order leave one worker, and no pin that no job *)
(* accounts for, a refused dispatch included.                                     *)
(**********************************************************************************)
PoolExact == RefcountExact /\ OneWorker

(**********************************************************************************)
(* A job that was queued while the pool was not stopping completes, also when     *)
(* kvdev_rados_nkvx_stop comes right after it: the worker drains the queue        *)
(* before it leaves.                                                              *)
(**********************************************************************************)
QueuedBeforeStopCompletes ==
    \A j \in Job : (j \in Range(queue) /\ ~ pool.stop) ~> job[j].state = "done"

(**********************************************************************************)
(* A job that was queued completes ("Returns 0 if the job was queued (done_fn     *)
(* will fire later)").                                                            *)
(**********************************************************************************)
QueuedJobsComplete ==
    \A j \in Job : job[j].state = "queued" ~> job[j].state = "done"

===============================================================================
