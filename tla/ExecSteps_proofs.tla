--------------------------- MODULE ExecSteps_proofs ----------------------------
(*****************************************************************************)
(* The steps of the executor: the ticker thread of the WebAssembly runtime;  *)
(* the worker pool over the object cache, which accounts for the pins of the *)
(* jobs and serves each the version it pinned; and the verbs, which leave    *)
(* the caches at rest and coherent with the store.  The functions of the     *)
(* caches are known here by their laws only.                                 *)
(*****************************************************************************)
EXTENDS EpochTicker, ExecWorker, ExecutorStore, CacheAtRest, TLAPS

\* A leaf that names no backend goes to Zenon.
USE ZenonT(60)

(*****************************************************************************)
(* The epoch ticker is safe for any engines and any deadline.                *)
(*****************************************************************************)
\* The registered engine is the one of a capped run that is still under way.
ArmedByRun ==
    g_epoch.engine # EpNone =>
        /\ epRun.at \in {"ready", "call", "returned"}
        /\ epRun.capped
        /\ epRun.engine = g_epoch.engine

\* A run's engine exists, as a warm or as the private one, until the run has disarmed.  A
\* warm run arms with its call, a plain one before.
RunHasEngine ==
    /\ epWarm \cap epPrivate = {}
    /\ epRun.at = "idle" => epPrivate = {}
    /\ epRun.at \in {"ready", "call", "returned"} => epRun.engine \in EpLive
    /\ epPrivate \subseteq {epRun.engine}
    /\ (epRun.at = "ready" /\ epRun.engine \in epWarm) => ~epRun.capped

\* Between a stop and its join nothing runs, and at other times no stop is pending.
StopIsJoined ==
    /\ epClosing = "open" => ~g_epoch.stop
    /\ epClosing = "joining" => /\ epRun.at = "idle"
                                /\ g_epoch.engine = EpNone

\* The inductive invariant.
EpIInv == EpTypeOK /\ ArmedByRun /\ RunHasEngine /\ StopIsJoined /\ EpOneTicker

\* An idle run is a run.
LEMMA IdleTyped ==
    /\ EpIdle \in [at : {"idle", "ready", "call", "returned", "out"},
                   engine : EpEngine \cup {EpNone}, capped : BOOLEAN,
                   left : 0..EpTicks, endless : BOOLEAN]
    /\ EpIdle.at = "idle" /\ EpIdle.engine = EpNone /\ EpIdle.capped = FALSE
  BY EpAssumption, SMT DEF EpIdle

LEMMA EpInitial == EpInit => EpIInv
  BY IdleTyped, EpAssumption, SMT
  DEF EpInit, EpIInv, EpTypeOK, ArmedByRun, RunHasEngine, StopIsJoined, EpOneTicker, EpLive

\* Arming for an engine: one thread, and that engine registered.
LEMMA RegisterArms ==
    ASSUME EpIInv, epClosing = "open", NEW e \in EpEngine, nkvx_wasm_epoch_register(e)
    PROVE  /\ g_epoch' \in [started : BOOLEAN, stop : BOOLEAN, engine : EpEngine \cup {EpNone}]
           /\ g_epoch'.engine = e /\ ~g_epoch'.stop
           /\ epThreads' \in 0..1
           /\ epThreads' = IF g_epoch'.started THEN 1 ELSE 0
<1>1. CASE g_epoch.started
  BY <1>1 DEF nkvx_wasm_epoch_register, EpIInv, EpTypeOK, StopIsJoined, EpOneTicker
<1>2. CASE ~g_epoch.started
  <2>1. PICK created \in BOOLEAN :
            /\ epThreads' = IF created THEN epThreads + 1 ELSE epThreads
            /\ g_epoch' = [started |-> created, stop |-> FALSE, engine |-> e]
    BY <1>2 DEF nkvx_wasm_epoch_register
  <2>2. epThreads = 0
    BY <1>2 DEF EpIInv, EpOneTicker
  <2> QED BY <2>1, <2>2, SMT
<1> QED BY <1>1, <1>2

\* Disarming for the run's engine leaves nothing registered.
LEMMA UnregisterDisarms ==
    ASSUME EpIInv, epRun.at \in {"ready", "call", "returned"},
           IF epRun.capped THEN nkvx_wasm_epoch_unregister(epRun.engine) ELSE UNCHANGED g_epoch
    PROVE  g_epoch' = [g_epoch EXCEPT !.engine = EpNone]
<1>1. CASE epRun.capped
  BY <1>1 DEF nkvx_wasm_epoch_unregister, Unregistered, EpIInv, EpTypeOK, ArmedByRun
<1>2. CASE ~epRun.capped
  BY <1>2 DEF EpIInv, EpTypeOK, ArmedByRun
<1> QED BY <1>1, <1>2

LEMMA EpStep == EpIInv /\ [EpNext]_epVars => EpIInv'
<1> SUFFICES ASSUME EpIInv, [EpNext]_epVars PROVE EpIInv'
  OBVIOUS
<1> USE EpAssumption
<1>inv. EpTypeOK /\ ArmedByRun /\ RunHasEngine /\ StopIsJoined /\ EpOneTicker
  BY DEF EpIInv
<1> USE DEF EpIInv, ArmedByRun, RunHasEngine, StopIsJoined, EpOneTicker, EpLive
<1>1. CASE nkvx_wasm_epoch_thread_Tick
  BY <1>1, SMT DEF nkvx_wasm_epoch_thread_Tick, EpTypeOK
<1>2. CASE nkvx_wasm_epoch_thread_Exit
  BY <1>2, SMT DEF nkvx_wasm_epoch_thread_Exit, EpTypeOK
<1>3. ASSUME NEW e \in EpEngine, WarmEngine(e) PROVE EpIInv'
  <2>1. epRun'.at = "ready" /\ epRun'.engine = e /\ epRun'.capped = FALSE
    BY <1>3, IdleTyped DEF WarmEngine, EpIdle
  <2>2. EpTypeOK'
    BY <1>3, IdleTyped DEF WarmEngine, EpTypeOK
  <2> QED BY <1>3, <2>1, <2>2 DEF WarmEngine
<1>4. ASSUME NEW e \in EpEngine, WarmDestroyed(e) PROVE EpIInv'
  BY <1>4, SMT DEF WarmDestroyed, Mutex, EpTypeOK
<1>5. ASSUME NEW e \in EpEngine, NEW capped \in BOOLEAN, PlainArm(e, capped) PROVE EpIInv'
  <2>1. epRun'.at = "ready" /\ epRun'.engine = e /\ epRun'.capped = capped
    BY <1>5, IdleTyped DEF PlainArm, EpIdle
  <2>2. epRun' \in [at : {"idle", "ready", "call", "returned", "out"},
                    engine : EpEngine \cup {EpNone}, capped : BOOLEAN,
                    left : 0..EpTicks, endless : BOOLEAN]
    BY <1>5, IdleTyped DEF PlainArm
  <2>3. CASE capped
    BY <1>5, <2>1, <2>2, <2>3, RegisterArms, SMT DEF PlainArm, EpTypeOK
  <2>4. CASE ~capped
    BY <1>5, <2>1, <2>2, <2>4, SMT DEF PlainArm, EpTypeOK
  <2> QED BY <2>3, <2>4
<1>6. CASE WarmBuildFails
  BY <1>6 DEF WarmBuildFails, EpTypeOK
<1>7. CASE WarmRefused
  BY <1>7, IdleTyped, SMT DEF WarmRefused, EpTypeOK
<1>8. ASSUME NEW capped \in BOOLEAN, NEW endless \in BOOLEAN, WarmCall(capped, endless)
      PROVE  EpIInv'
  <2>1. /\ epRun'.at = "call" /\ epRun'.engine = epRun.engine /\ epRun'.capped = capped
        /\ epRun' \in [at : {"idle", "ready", "call", "returned", "out"},
                       engine : EpEngine \cup {EpNone}, capped : BOOLEAN,
                       left : 0..EpTicks, endless : BOOLEAN]
    <3>1. (IF capped THEN EpTicks ELSE 0) \in 0..EpTicks
      BY SMT
    <3> QED BY <1>8, <3>1 DEF WarmCall, EpTypeOK
  <2>2. epRun.engine \in EpEngine /\ epRun.engine \in epWarm /\ epClosing = "open"
    BY <1>8 DEF WarmCall, EpTypeOK
  <2>3. CASE capped
    BY <1>8, <2>1, <2>2, <2>3, RegisterArms, SMT DEF WarmCall, EpTypeOK
  <2>4. CASE ~capped
    BY <1>8, <2>1, <2>2, <2>4 DEF WarmCall, EpTypeOK
  <2> QED BY <2>3, <2>4
<1>9. ASSUME NEW status \in {"SUCCESS", "BUFFER_TOO_SMALL", "FAILED", "ABORTED"}, Return(status)
      PROVE  EpIInv'
  BY <1>9 DEF Return, EpTypeOK
<1>10. CASE WarmOut
  <2>1. g_epoch' = [g_epoch EXCEPT !.engine = EpNone]
    BY <1>10, UnregisterDisarms DEF WarmOut
  <2> QED BY <1>10, <2>1, IdleTyped, SMT DEF WarmOut, EpTypeOK
<1>11. CASE PlainRefused
  BY <1>11 DEF PlainRefused, EpTypeOK
<1>12. ASSUME NEW endless \in BOOLEAN, PlainCall(endless) PROVE EpIInv'
  <2>1. (IF epRun.capped THEN EpTicks ELSE 0) \in 0..EpTicks
    BY SMT
  <2>2. /\ epRun' \in [at : {"idle", "ready", "call", "returned", "out"},
                       engine : EpEngine \cup {EpNone}, capped : BOOLEAN,
                       left : 0..EpTicks, endless : BOOLEAN]
        /\ epRun'.at = "call" /\ epRun'.engine = epRun.engine /\ epRun'.capped = epRun.capped
    BY <1>12, <2>1 DEF PlainCall, EpTypeOK
  <2> QED BY <1>12, <2>2 DEF PlainCall, EpTypeOK
<1>13. CASE PlainDisarm
  <2>1. g_epoch' = [g_epoch EXCEPT !.engine = EpNone]
    BY <1>13, UnregisterDisarms DEF PlainDisarm
  <2> QED BY <1>13, <2>1 DEF PlainDisarm, EpTypeOK
<1>14. CASE PlainDelete
  BY <1>14, IdleTyped DEF PlainDelete, EpTypeOK
<1>15. CASE nkvx_executor_close
  <2>1. CASE g_epoch.started
    BY <1>15, <2>1 DEF nkvx_executor_close, EpTypeOK
  <2>2. CASE ~g_epoch.started
    BY <1>15, <2>2 DEF nkvx_executor_close, EpTypeOK
  <2> QED BY <2>1, <2>2
<1>16. CASE nkvx_wasm_epoch_stop_Joined
  BY <1>16 DEF nkvx_wasm_epoch_stop_Joined, EpTypeOK
<1>17. CASE UNCHANGED epVars
  BY <1>17, SMT DEF epVars, EpTypeOK
<1> QED BY <1>1, <1>2, <1>3, <1>4, <1>5, <1>6, <1>7, <1>8, <1>9, <1>10, <1>11, <1>12, <1>13,
           <1>14, <1>15, <1>16, <1>17
        DEF EpNext, Ticker, ModuleReturns, EpochTrap, FuelTrap

--------------------------------------------------------------------------------
\* For any engines and deadline: whatever the ticker finds registered under g_epoch.mutex is
\* an engine that exists (nkvx_wasm_epoch_thread and the order of disarm and delete).
THEOREM TickerFindsLiveEngine == EpSpec => []EpTicksLiveEngine
<1>1. EpIInv => EpTicksLiveEngine
  BY DEF EpIInv, ArmedByRun, RunHasEngine, EpTicksLiveEngine
<1> QED BY <1>1, EpInitial, EpStep, PTL DEF EpSpec

\* Through any sequence of runs, closes and failed thread creations there is at most one
\* ticker thread, and `started' says whether there is one (nkvx_wasm_epoch_register and _stop).
THEOREM TickerIsUnique == EpSpec => []EpOneTicker
<1>1. EpIInv => EpOneTicker
  BY DEF EpIInv
<1> QED BY <1>1, EpInitial, EpStep, PTL DEF EpSpec

--------------------------------------------------------------------------------

\* The pins jobs hold on each entry.
Pins(jb) == [o \in Obj |-> Cardinality({j \in Job : jb[j].pin = o})]

\* The pins of the jobs are counted by numbers; a job that pins an entry counts.
LEMMA PinsNat ==
    ASSUME Laws, NEW jb
    PROVE  /\ Pins(jb) \in [Obj -> Nat]
           /\ \A o \in Obj : \A j \in Job : jb[j].pin = o => Pins(jb)[o] > 0
<1>1. ASSUME NEW o \in Obj
      PROVE  /\ Cardinality({j \in Job : jb[j].pin = o}) \in Nat
             /\ \A j \in Job : jb[j].pin = o => Cardinality({i \in Job : jb[i].pin = o}) > 0
  <2> DEFINE A == {j \in Job : jb[j].pin = o}
  <2>1. IsFiniteSet(A)
    BY A \subseteq Job, WorkerAssumption DEF Laws, CountLaw
  <2>2. \A j \in Job : jb[j].pin = o => A # {}
    OBVIOUS
  <2> HIDE DEF A
  <2>3. Cardinality(A) \in Nat /\ (Cardinality(A) = 0 <=> A = {})
    BY <2>1 DEF Laws, CountLaw
  <2>4. \A j \in Job : jb[j].pin = o => Cardinality(A) > 0
    BY <2>2, <2>3, SMT
  <2> QED BY <2>3, <2>4 DEF A
<1> QED BY <1>1 DEF Pins

\* The other jobs hold the pins they held.
OthersKeep(jb, jc, j) == \A i \in Job : i # j => jc[i].pin = jb[i].pin

\* Jobs that hold the same pins.
LEMMA PinsSame ==
    ASSUME NEW jb, NEW jc, NEW j \in Job, jc[j].pin = jb[j].pin, OthersKeep(jb, jc, j)
    PROVE  Pins(jc) = Pins(jb)
<1>1. \A o \in Obj : {i \in Job : jc[i].pin = o} = {i \in Job : jb[i].pin = o}
  BY DEF OthersKeep
<1> QED BY <1>1 DEF Pins

\* The job j takes a pin on o; read the other way, it drops it.
TakesPin(jb, jc, j, o) ==
    /\ j \in Job /\ o \in Obj /\ jb[j].pin = NoPin /\ jc[j].pin = o
    /\ OthersKeep(jb, jc, j)

\* One job takes or drops a pin: the count moves by one.
LEMMA PinTaken ==
    ASSUME Laws, NEW jb, NEW jc, NEW j, NEW o, TakesPin(jb, jc, j, o)
    PROVE  OneMore(Pins(jb), Pins(jc), o)
<1>0. NoPin \notin Obj
  BY WorkerAssumption
<1>1. ASSUME NEW p \in Obj PROVE Pins(jc)[p] = Pins(jb)[p] + One({o}, p)
  <2> DEFINE A == {i \in Job : jb[i].pin = p}
             B == {i \in Job : jc[i].pin = p}
  <2>1. IsFiniteSet(A)
    BY A \subseteq Job, WorkerAssumption DEF Laws, CountLaw
  <2>2. Pins(jc)[p] = Cardinality(B) /\ Pins(jb)[p] = Cardinality(A)
    BY DEF Pins
  <2>3. CASE p = o
    <3>1. j \notin A /\ B = A \cup {j}
      BY <1>0, <2>3 DEF OthersKeep, TakesPin
    <3> HIDE DEF A, B
    <3>2. Cardinality(B) = Cardinality(A) + 1
      BY <2>1, <3>1 DEF Laws, CountLaw
    <3> QED BY <2>2, <2>3, <3>2 DEF One
  <2>4. CASE p # o
    <3>1. B = A
      BY <1>0, <2>4 DEF OthersKeep, TakesPin
    <3> HIDE DEF A, B
    <3>2. Cardinality(A) \in Nat
      BY <2>1 DEF Laws, CountLaw
    <3> QED BY <2>2, <2>4, <3>1, <3>2, SMT DEF One
  <2> QED BY <2>3, <2>4
<1>2. Pins(jc) \in [Obj -> Nat]
  BY PinsNat
<1> QED BY <1>1, <1>2 DEF OneMore

\* An entry a job has pinned is allocated.
LEMMA PinnedAllocated ==
    ASSUME Laws, NEW g, NEW jb, Sound(g, Pins(jb)), NEW j \in Job, NEW o \in Obj, jb[j].pin = o
    PROVE  o \in DOMAIN g.ent /\ Pins(jb)[o] > 0 /\ Held(g, Pins(jb), o)
<1>1. Pins(jb)[o] > 0
  BY PinsNat
<1>2. o \in DOMAIN g.ent
  BY <1>1, SMT DEF Sound, Counted
<1> QED BY <1>1, <1>2 DEF Held

--------------------------------------------------------------------------------
(*****************************************************************************)
(* The inductive invariant of ExecWorker.                                    *)
(*****************************************************************************)

Thread == {"none", "idle", "busy", "exited"}
PoolRecord == [running : BOOLEAN, stop : BOOLEAN, joining : BOOLEAN, thread : Thread]

WkTypes ==
    /\ rados \in [Key -> Value]
    /\ writing \in [Key -> Value \cup {Absent}]
    /\ job \in [Job -> JobRecord]
    /\ queue \in Seq(Job)
    /\ pool \in PoolRecord
    /\ stops \in 0..MaxStops
    /\ freed_use \in BOOLEAN

\* What a job carries in each of its states.
JobOK(e) ==
    /\ e.state \in {"idle", "done"} => e.pin = NoPin
    /\ e.state = "ran" => e.pin # NoPin
    /\ e.state \in {"probed", "queued", "running", "ran"} =>
          /\ e.key \in Key /\ e.module \in Module
          /\ e.pin = NoPin => e.bytes \in Value

WkJobs == \A j \in Job : JobOK(job[j])

\* The queue holds jobs that are queued, each once.
QueueOK(q, jb) == Once(q) /\ \A i \in DOMAIN q : jb[q[i]].state = "queued"

\* The worker thread executes one job when it is busy, and none otherwise.
IsExecuting(e) == e.state \in {"running", "ran"}
ThreadOK(t, jb) ==
    /\ t # "busy" => \A j \in Job : ~ IsExecuting(jb[j])
    /\ t = "busy" => \E j \in Job : \A i \in Job : IsExecuting(jb[i]) <=> i = j

PoolOK ==
    /\ ~ pool.running => pool.thread = "none"
    /\ ThreadOK(pool.thread, job)

WkIInv ==
    /\ Sound(g_cache, Pins(job))
    /\ WkTypes /\ WkJobs /\ QueueOK(queue, job) /\ PoolOK

\* jc is jb with another state and another pin of the job j.
JobMoves(jb, jc, j, s, p) ==
    /\ jc \in [Job -> JobRecord]
    /\ jc[j].state = s /\ jc[j].pin = p /\ jc[j].key = jb[j].key
    /\ jc[j].module = jb[j].module /\ jc[j].bytes = jb[j].bytes
    /\ \A i \in Job : i # j => jc[i] = jb[i]

JobState == {"idle", "probed", "queued", "running", "ran", "done"}

\* A job whose state is set moves, with its pin.
LEMMA StateSet ==
    ASSUME NEW jb \in [Job -> JobRecord], NEW j \in Job, NEW s \in JobState,
           NEW jc, jc = [jb EXCEPT ![j].state = s]
    PROVE  JobMoves(jb, jc, j, s, jb[j].pin)
<1> DEFINE e == [jb[j] EXCEPT !.state = s]
<1>1. e \in JobRecord /\ e.state = s /\ e.pin = jb[j].pin /\ e.key = jb[j].key
      /\ e.module = jb[j].module /\ e.bytes = jb[j].bytes
  BY DEF JobRecord, JobState
<1>2. jc = [jb EXCEPT ![j] = e]
  OBVIOUS
<1> HIDE DEF e
<1> QED BY <1>1, <1>2 DEF JobMoves

\* A job that completes moves, without its pin.
LEMMA CompletionSent ==
    ASSUME NEW jb \in [Job -> JobRecord], NEW j \in Job,
           NEW jc, jc = [jb EXCEPT ![j].state = "done", ![j].pin = NoPin]
    PROVE  JobMoves(jb, jc, j, "done", NoPin)
<1> PICK jd : jd = [jb EXCEPT ![j].state = "done"]
  OBVIOUS
<1>1. JobMoves(jb, jd, j, "done", jb[j].pin)
  BY StateSet DEF JobState
<1>2. jd \in [Job -> JobRecord]
  BY <1>1 DEF JobMoves
<1>3. jc = [jd EXCEPT ![j].pin = NoPin]
  OBVIOUS
<1> DEFINE e == [jd[j] EXCEPT !.pin = NoPin]
<1>4. e \in JobRecord /\ e.state = jd[j].state /\ e.pin = NoPin /\ e.key = jd[j].key
      /\ e.module = jd[j].module /\ e.bytes = jd[j].bytes
  BY <1>2 DEF JobRecord
<1>5. jc = [jd EXCEPT ![j] = e]
  BY <1>3
<1> HIDE DEF e
<1>6. jc \in [Job -> JobRecord] /\ jc[j] = e /\ \A i \in Job : i # j => jc[i] = jd[i]
  BY <1>2, <1>4, <1>5
<1> QED BY <1>1, <1>4, <1>6 DEF JobMoves

\* A job set to a record.
LEMMA JobSet ==
    ASSUME NEW jb \in [Job -> JobRecord], NEW j \in Job, NEW e \in JobRecord,
           NEW jc, jc = [jb EXCEPT ![j] = e]
    PROVE  /\ jc \in [Job -> JobRecord] /\ jc[j] = e
           /\ \A i \in Job : i # j => jc[i] = jb[i]
  OBVIOUS

\* The records a job is set to.
LEMMA NewRecords ==
    ASSUME NEW k \in Key, NEW m \in Module, NEW p \in Obj \cup {NoPin},
           NEW b \in Value \cup {Absent, Clobbered},
           NEW e, e = [state |-> "probed", key |-> k, module |-> m, pin |-> p, bytes |-> b]
    PROVE  /\ NewJob \in JobRecord /\ NewJob.pin = NoPin /\ NewJob.state = "idle"
           /\ e \in JobRecord /\ e.state = "probed" /\ e.key = k /\ e.module = m
           /\ e.pin = p /\ e.bytes = b
  BY DEF NewJob, JobRecord

--------------------------------------------------------------------------------
\* What a lookup hits is in use.
LEMMA HitHeld ==
    ASSUME Laws, NEW g, NEW pins, Sound(g, pins), NEW k, nkvx_obj_lookup(g, k) # {},
           NEW o, o = Hit(g, k)
    PROVE  Held(g, pins, o) /\ g.ent[o].obj_key = k /\ ~ g.ent[o].dead /\ o \in Obj
<1>1. Listed(g)
  BY DEF Sound
<1>2. /\ nkvx_obj_lookup(g, k)
           = {p \in DOMAIN g.ent : ~ g.ent[p].dead /\ g.ent[p].obj_key = k}
      /\ Hit(g, k) \in nkvx_obj_lookup(g, k)
  BY <1>1, SMT DEF Laws, LookupLaw
<1>3. o \in DOMAIN g.ent /\ ~ g.ent[o].dead /\ g.ent[o].obj_key = k
  BY <1>2
<1>4. o \in Obj
  BY <1>1, <1>3 DEF Laws, EntriesLaw
<1> QED BY <1>3, <1>4 DEF Held

\* The cache a run of run_cached leaves: it ran on a hit, or on a fill, or the fill
\* was evicted at once.
CachedRun(g, k, m, v, h, u) ==
    \E r \in RunOutcome :
        \/ /\ nkvx_obj_lookup(g, k) # {} /\ ~ u
           /\ h = nkvx_run_on_object_locked(nkvx_obj_touch(g, Hit(g, k)), m, Hit(g, k), r)
        \/ \E o \in FreshObj(g) :
              \/ /\ o \in DOMAIN ColdFill(g, k, v, o).ent /\ ~ u
                 /\ h = nkvx_run_on_object_locked(ColdFill(g, k, v, o), m, o, r)
              \/ /\ o \notin DOMAIN ColdFill(g, k, v, o).ent /\ u
                 /\ h = ColdFill(g, k, v, o)

\* The entries pinned outside keep what a run without long results leaves them.
PinnedKeeps(g, h, pins, m) ==
    \A o \in Obj : pins[o] > 0 /\ m \notin LongResult =>
        h.ent[o].content = g.ent[o].content

\* What is pinned is allocated.
LEMMA PinnedStays ==
    ASSUME NEW g, NEW pins, Sound(g, pins)
    PROVE  \A o \in Obj : pins[o] > 0 => o \in DOMAIN g.ent
  BY SMT DEF Sound, Counted

\* run_cached keeps the account and what others have pinned.
LEMMA CachedRunSound ==
    ASSUME Laws, NEW g, NEW pins, Sound(g, pins),
           NEW k \in Key, NEW m \in Module, NEW v \in Value, NEW h, NEW u,
           CachedRun(g, k, m, v, h, u)
    PROVE  Sound(h, pins) /\ PinnedKeeps(g, h, pins, m) /\ (MaxBytes = 0 => ~ u)
<1> PICK r \in RunOutcome :
        \/ /\ nkvx_obj_lookup(g, k) # {} /\ ~ u
           /\ h = nkvx_run_on_object_locked(nkvx_obj_touch(g, Hit(g, k)), m, Hit(g, k), r)
        \/ \E o \in FreshObj(g) :
              \/ /\ o \in DOMAIN ColdFill(g, k, v, o).ent /\ ~ u
                 /\ h = nkvx_run_on_object_locked(ColdFill(g, k, v, o), m, o, r)
              \/ /\ o \notin DOMAIN ColdFill(g, k, v, o).ent /\ u
                 /\ h = ColdFill(g, k, v, o)
  BY DEF CachedRun
<1>1. CASE /\ nkvx_obj_lookup(g, k) # {} /\ ~ u
           /\ h = nkvx_run_on_object_locked(nkvx_obj_touch(g, Hit(g, k)), m, Hit(g, k), r)
  <2> PICK o, t : o = Hit(g, k) /\ t = nkvx_obj_touch(g, o)
    OBVIOUS
  <2>1. Held(g, pins, o)
    BY <1>1, HitHeld
  <2>2. o \in DOMAIN g.ent
    BY <2>1 DEF Held
  <2>3. Sound(t, pins) /\ t.ent = g.ent
    BY <2>2 DEF Laws, TouchLaw
  <2>4. Held(t, pins, o)
    BY <2>1, <2>3 DEF Held
  <2>5. Sound(h, pins) /\ RunKeeps(t, h, m)
    BY <1>1, <2>3, <2>4, SMT DEF Laws, RunLaw
  <2>6. PinnedKeeps(g, h, pins, m)
    BY <2>3, <2>5, PinnedStays DEF PinnedKeeps, RunKeeps
  <2> QED BY <1>1, <2>5, <2>6
<1>2. ASSUME NEW o \in FreshObj(g), NEW f, f = ColdFill(g, k, v, o),
             \/ o \in DOMAIN f.ent /\ ~ u /\ h = nkvx_run_on_object_locked(f, m, o, r)
             \/ o \notin DOMAIN f.ent /\ u /\ h = f
      PROVE  Sound(h, pins) /\ PinnedKeeps(g, h, pins, m) /\ (MaxBytes = 0 => ~ u)
  <2>1. o \in Obj /\ o \notin DOMAIN g.ent
    BY DEF FreshObj
  <2>2. Sound(f, pins) /\ FillKeeps(g, f, k, v, o) /\ (MaxBytes = 0 => o \in DOMAIN f.ent)
    BY <1>2, <2>1 DEF Laws, FillLaw
  <2>3. PinnedKeeps(g, f, pins, m)
    <3>1. \A p \in Obj : pins[p] > 0 => p \in DOMAIN g.ent /\ p \in DOMAIN f.ent
      BY <2>2, PinnedStays
    <3> QED BY <3>1, <2>2 DEF PinnedKeeps, FillKeeps
  <2>4. CASE o \notin DOMAIN f.ent
    BY <1>2, <2>2, <2>3, <2>4
  <2>5. CASE o \in DOMAIN f.ent
    <3>1. Held(f, pins, o)
      BY <2>2, <2>5 DEF Held, FillKeeps
    <3>2. Sound(h, pins) /\ RunKeeps(f, h, m) /\ ~ u
      BY <1>2, <2>2, <2>5, <3>1 DEF Laws, RunLaw
    <3>3. \A p \in Obj : pins[p] > 0 => p \in DOMAIN f.ent /\ p \in DOMAIN h.ent
      BY <2>2, <3>2, PinnedStays
    <3>4. PinnedKeeps(g, h, pins, m)
      BY <2>3, <3>2, <3>3 DEF PinnedKeeps, RunKeeps
    <3> QED BY <3>2, <3>4
  <2> QED BY <2>4, <2>5
<1>3. CASE \E o \in FreshObj(g) :
              \/ /\ o \in DOMAIN ColdFill(g, k, v, o).ent /\ ~ u
                 /\ h = nkvx_run_on_object_locked(ColdFill(g, k, v, o), m, o, r)
              \/ /\ o \notin DOMAIN ColdFill(g, k, v, o).ent /\ u
                 /\ h = ColdFill(g, k, v, o)
  BY <1>2, <1>3
<1> QED BY <1>1, <1>3

--------------------------------------------------------------------------------
\* The pins of a job that moves.
LEMMA MovesPins ==
    ASSUME NEW jb, NEW jc, NEW j \in Job, NEW s, NEW p, JobMoves(jb, jc, j, s, p)
    PROVE  jc[j].pin = p /\ OthersKeep(jb, jc, j) /\ (p = jb[j].pin => Pins(jc) = Pins(jb))
<1>1. jc[j].pin = p /\ OthersKeep(jb, jc, j)
  BY DEF JobMoves, OthersKeep
<1> QED BY <1>1, PinsSame

\* The pin of one job dropped.
LEMMA DropSound ==
    ASSUME Laws, NEW g, NEW jb, NEW jc, NEW j, NEW o, Sound(g, Pins(jb)), TakesPin(jc, jb, j, o),
           NEW h, h = nkvx_obj_unref(g, {Pin(o)})
    PROVE  Sound(h, Pins(jc)) /\ Keeps(g, h)
<1>1. OneMore(Pins(jc), Pins(jb), o)
  BY PinTaken
<1>2. Pins(jc) \in [Obj -> Nat]
  BY PinsNat
<1>3. j \in Job /\ o \in Obj /\ jb[j].pin = o
  BY DEF TakesPin
<1>4. o \in DOMAIN g.ent
  BY <1>3, PinnedAllocated
<1> QED BY <1>1, <1>2, <1>4 DEF Laws, UnrefLaw

\* Each action keeps the cache in account with the pins of the jobs.
LEMMA SoundPin ==
    ASSUME Laws, WkIInv, NEW j \in Job, NEW k \in Key, NEW m \in Module,
           kvdev_rados_nkvx_wasm_cache_pin(j, k, m)
    PROVE  /\ Sound(g_cache, Pins(job))' /\ job' \in [Job -> JobRecord]
           /\ job'[j].state = "probed" /\ job'[j].key = k /\ job'[j].module = m
           /\ job'[j].pin # NoPin /\ job[j].pin = NoPin
           /\ job'[j].bytes = g_cache.ent[job'[j].pin].content /\ Keeps(g_cache, g_cache')
           /\ \A i \in Job : i # j => job'[i] = job[i]
<1> PICK o, h, jc : o = Hit(g_cache, k) /\ h = g_cache' /\ jc = job'
  OBVIOUS
<1> PICK b : b = g_cache.ent[o].content
  OBVIOUS
<1> DEFINE e == [state |-> "probed", key |-> k, module |-> m, pin |-> o, bytes |-> b]
<1>1. /\ job[j].state = "idle" /\ nkvx_obj_lookup(g_cache, k) # {}
      /\ h = Ref(g_cache, o) /\ jc = [job EXCEPT ![j] = e]
  BY DEF kvdev_rados_nkvx_wasm_cache_pin
<1>2. Sound(g_cache, Pins(job)) /\ job \in [Job -> JobRecord] /\ job[j].pin = NoPin
  BY <1>1 DEF WkIInv, WkTypes, WkJobs, JobOK
<1>3. Held(g_cache, Pins(job), o) /\ o \in Obj
  BY <1>1, <1>2, HitHeld
<1>4. o \in DOMAIN g_cache.ent
  BY <1>3 DEF Held
<1>5. b \in Value \cup {Absent, Clobbered}
  <2>1. g_cache.ent[o] \in ObjEntry
    BY <1>2, <1>4 DEF Sound, Listed
  <2> QED BY <2>1 DEF ObjEntry
<1>6. e \in JobRecord /\ e.state = "probed" /\ e.key = k /\ e.module = m /\ e.pin = o
      /\ e.bytes = b
  BY <1>3, <1>5, NewRecords, SMT
<1> HIDE DEF e
<1>7. jc \in [Job -> JobRecord] /\ jc[j] = e /\ \A i \in Job : i # j => jc[i] = job[i]
  BY <1>1, <1>2, <1>6, JobSet, SMT
<1>8. TakesPin(job, jc, j, o)
  BY <1>2, <1>3, <1>6, <1>7 DEF OthersKeep, TakesPin
<1>a. OneMore(Pins(job), Pins(jc), o)
  BY <1>8, PinTaken
<1>9. Sound(h, Pins(jc))
  BY <1>1, <1>2, <1>4, <1>a DEF Laws, RefLaw
<1>10. Keeps(g_cache, h)
  <2>1. Listed(g_cache)
    BY <1>2 DEF Sound
  <2>2. OnePinMore(g_cache, h, o)
    BY <1>1, <1>4, <2>1 DEF Laws, RefLaw
  <2> QED BY <2>2 DEF OnePinMore, Keeps
<1> QED BY <1>2, <1>3, <1>6, <1>7, <1>9, <1>10, WorkerAssumption

\* A run on the pinned entry.
LEMMA SoundRunPinned ==
    ASSUME Laws, WkIInv, NEW j \in Job,
           kvdev_rados_nkvx_wasm_run_pinned(j)
    PROVE  /\ Sound(g_cache, Pins(job))' /\ JobMoves(job, job', j, "ran", job[j].pin)
           /\ freed_use' = freed_use /\ PinnedKeeps(g_cache, g_cache', Pins(job), job[j].module)
<1> PICK o, m, h, jc : o = job[j].pin /\ m = job[j].module /\ h = g_cache' /\ jc = job'
  OBVIOUS
<1>1. /\ job[j].state = "running" /\ o # NoPin
      /\ jc = [job EXCEPT ![j].state = "ran"]
      /\ IF o \in DOMAIN g_cache.ent
         THEN /\ \E r \in RunOutcome : h = nkvx_run_on_object_locked(g_cache, m, o, r)
              /\ freed_use' = freed_use
         ELSE freed_use' = TRUE /\ h = g_cache
  BY DEF kvdev_rados_nkvx_wasm_run_pinned
<1>2. Sound(g_cache, Pins(job)) /\ job \in [Job -> JobRecord] /\ m \in Module
  BY <1>1 DEF WkIInv, WkTypes, WkJobs, JobOK
<1>3. o \in Obj
  BY <1>1, <1>2 DEF JobRecord
<1>4. Held(g_cache, Pins(job), o)
  BY <1>2, <1>3, PinnedAllocated
<1>5. o \in DOMAIN g_cache.ent
  BY <1>4 DEF Held
<1>6. PICK r \in RunOutcome : h = nkvx_run_on_object_locked(g_cache, m, o, r)
  BY <1>1, <1>5
<1>7. Sound(h, Pins(job)) /\ RunKeeps(g_cache, h, m)
  BY <1>2, <1>4, <1>6, SMT DEF Laws, RunLaw
<1>8. JobMoves(job, jc, j, "ran", o)
  BY <1>1, <1>2, StateSet DEF JobState
<1>9. Pins(jc) = Pins(job)
  BY <1>8, MovesPins, SMT
<1>10. PinnedKeeps(g_cache, h, Pins(job), m)
  BY <1>2, <1>7, PinnedStays DEF PinnedKeeps, RunKeeps
<1> QED BY <1>1, <1>5, <1>7, <1>8, <1>9, <1>10

\* The worker drops the pin of the job it ran.
LEMMA SoundUnpin ==
    ASSUME Laws, WkIInv, NEW j \in Job,
           kvdev_rados_nkvx_wasm_cache_unpin(j)
    PROVE  /\ Sound(g_cache, Pins(job))' /\ JobMoves(job, job', j, "done", NoPin)
           /\ freed_use' = freed_use /\ IsExecuting(job[j])
           /\ Keeps(g_cache, g_cache')
<1> PICK o, h, jc : o = job[j].pin /\ h = g_cache' /\ jc = job'
  OBVIOUS
<1>1. /\ job[j].state = "ran" \/ (job[j].state = "running" /\ job[j].pin # NoPin)
      /\ h = nkvx_obj_unref(g_cache, {Pin(o)})
      /\ jc = [job EXCEPT ![j].state = "done", ![j].pin = NoPin]
      /\ freed_use' = freed_use
  BY DEF kvdev_rados_nkvx_wasm_cache_unpin, SendCompletion
<1>2. Sound(g_cache, Pins(job)) /\ job \in [Job -> JobRecord] /\ o # NoPin
  BY <1>1 DEF WkIInv, WkTypes, WkJobs, JobOK
<1>3. o \in Obj
  BY <1>2 DEF JobRecord
<1>4. JobMoves(job, jc, j, "done", NoPin)
  BY <1>1, <1>2, CompletionSent
<1>5. jc[j].pin = NoPin /\ OthersKeep(job, jc, j)
  BY <1>4, MovesPins
<1>6. TakesPin(jc, job, j, o)
  BY <1>3, <1>5 DEF TakesPin, OthersKeep
<1>7. Sound(h, Pins(jc)) /\ Keeps(g_cache, h)
  BY <1>1, <1>2, <1>6, DropSound
<1> QED BY <1>1, <1>4, <1>7 DEF IsExecuting

\* A run on a hit or a fill of the worker's own.
LEMMA SoundRunCached ==
    ASSUME Laws, WkIInv, NEW j \in Job,
           kvdev_rados_nkvx_wasm_run_cached(j)
    PROVE  /\ Sound(g_cache, Pins(job))' /\ JobMoves(job, job', j, "done", NoPin)
           /\ MaxBytes = 0 => freed_use' = freed_use
           /\ freed_use' \in {freed_use, TRUE}
           /\ PinnedKeeps(g_cache, g_cache', Pins(job), job[j].module)
<1> PICK k, m, v, h, jc : k = job[j].key /\ m = job[j].module /\ v = job[j].bytes
                          /\ h = g_cache' /\ jc = job'
  OBVIOUS
<1>1. /\ job[j].state = "running" /\ job[j].pin = NoPin
      /\ jc = [job EXCEPT ![j].state = "done", ![j].pin = NoPin]
  BY DEF kvdev_rados_nkvx_wasm_run_cached, SendCompletion
<1>2. \E u \in BOOLEAN : CachedRun(g_cache, k, m, v, h, u) /\ freed_use' = IF u THEN TRUE ELSE freed_use
  <2>1. CASE nkvx_obj_lookup(g_cache, k) # {}
    <3>1. /\ \E r \in RunOutcome : h = nkvx_run_on_object_locked(
                          nkvx_obj_touch(g_cache, Hit(g_cache, k)), m, Hit(g_cache, k), r)
          /\ freed_use' = freed_use
      BY <2>1 DEF kvdev_rados_nkvx_wasm_run_cached
    <3>2. CachedRun(g_cache, k, m, v, h, FALSE)
      BY <2>1, <3>1 DEF CachedRun
    <3> QED BY <3>1, <3>2
  <2>2. CASE nkvx_obj_lookup(g_cache, k) = {}
    <3>1. PICK o \in FreshObj(g_cache) :
             \E g \in {ColdFill(g_cache, k, v, o)} :
                IF o \in DOMAIN g.ent
                THEN /\ \E r \in RunOutcome :
                           g_cache' = nkvx_run_on_object_locked(g, m, o, r)
                     /\ UNCHANGED freed_use
                ELSE g_cache' = g /\ freed_use' = TRUE
      BY <2>2 DEF kvdev_rados_nkvx_wasm_run_cached
    <3> PICK f : f = ColdFill(g_cache, k, v, o)
      OBVIOUS
    <3>2. CASE o \in DOMAIN f.ent
      <4>1. CachedRun(g_cache, k, m, v, h, FALSE) /\ freed_use' = freed_use
        BY <3>1, <3>2 DEF CachedRun
      <4> QED BY <4>1
    <3>3. CASE o \notin DOMAIN f.ent
      <4>1. CachedRun(g_cache, k, m, v, h, TRUE) /\ freed_use' = TRUE
        BY <3>1, <3>3 DEF CachedRun, RunOutcome
      <4> QED BY <4>1
    <3> QED BY <3>2, <3>3
  <2> QED BY <2>1, <2>2
<1>3. /\ Sound(g_cache, Pins(job)) /\ job \in [Job -> JobRecord]
      /\ k \in Key /\ m \in Module /\ v \in Value
  BY <1>1 DEF WkIInv, WkTypes, WkJobs, JobOK
<1>4. PICK u \in BOOLEAN : CachedRun(g_cache, k, m, v, h, u)
                           /\ freed_use' = IF u THEN TRUE ELSE freed_use
  BY <1>2
<1>5. Sound(h, Pins(job)) /\ PinnedKeeps(g_cache, h, Pins(job), m) /\ (MaxBytes = 0 => ~ u)
  BY <1>3, <1>4, CachedRunSound
<1>6. JobMoves(job, jc, j, "done", NoPin)
  BY <1>1, <1>3, CompletionSent
<1>7. Pins(jc) = Pins(job)
  <2>1. JobMoves(job, jc, j, "done", job[j].pin)
    BY <1>1, <1>6
  <2> QED BY <2>1, MovesPins, SMT
<1> QED BY <1>4, <1>5, <1>6, <1>7

\* A dispatch, which drops the pin when it is refused.
LEMMA SoundDispatch ==
    ASSUME Laws, WkIInv, NEW j \in Job,
           kvdev_rados_nkvx_dispatch(j)
    PROVE  /\ Sound(g_cache, Pins(job))' /\ Keeps(g_cache, g_cache')
           /\ job' \in [Job -> JobRecord] /\ \A i \in Job : i # j => job'[i] = job[i]
           /\ job[j].state = "probed"
           /\ \/ /\ queue' = queue /\ job'[j] = NewJob
              \/ /\ queue' = Append(queue, j) /\ g_cache' = g_cache
                 /\ JobMoves(job, job', j, "queued", job[j].pin)
<1> PICK o, h, jc : o = job[j].pin /\ h = g_cache' /\ jc = job'
  OBVIOUS
<1>0. Sound(g_cache, Pins(job)) /\ job \in [Job -> JobRecord]
  BY DEF WkIInv, WkTypes
<1>k. Keeps(g_cache, g_cache)
  BY DEF Keeps
<1>s. job[j].state = "probed"
  BY DEF kvdev_rados_nkvx_dispatch
<1>1. CASE pool.running
  <2>1. queue' = Append(queue, j) /\ jc = [job EXCEPT ![j].state = "queued"] /\ h = g_cache
    BY <1>1 DEF kvdev_rados_nkvx_dispatch
  <2>2. JobMoves(job, jc, j, "queued", o)
    BY <1>0, <2>1, StateSet DEF JobState
  <2>3. Pins(jc) = Pins(job)
    BY <2>2, MovesPins, SMT
  <2> QED BY <1>0, <1>k, <1>s, <2>1, <2>2, <2>3 DEF JobMoves
<1>2. CASE ~ pool.running
  <2>1. /\ queue' = queue /\ jc = [job EXCEPT ![j] = NewJob]
        /\ h = IF o = NoPin THEN g_cache ELSE nkvx_obj_unref(g_cache, {Pin(o)})
    BY <1>2 DEF kvdev_rados_nkvx_dispatch
  <2>2. NewJob \in JobRecord /\ NewJob.pin = NoPin
    BY DEF NewJob, JobRecord
  <2>3. jc \in [Job -> JobRecord] /\ jc[j] = NewJob /\ \A i \in Job : i # j => jc[i] = job[i]
    BY <1>0, <2>1, <2>2, JobSet, SMT
  <2>6. OthersKeep(job, jc, j)
    BY <2>3 DEF OthersKeep
  <2>4. CASE o = NoPin
    <3>1. Pins(jc) = Pins(job)
      BY <2>2, <2>3, <2>4, <2>6, PinsSame
    <3> QED BY <1>0, <1>k, <1>s, <2>1, <2>3, <2>4, <3>1
  <2>5. CASE o # NoPin
    <3>1. o \in Obj
      BY <1>0, <2>5 DEF JobRecord
    <3>2. TakesPin(jc, job, j, o)
      BY <2>2, <2>3, <2>6, <3>1 DEF TakesPin, OthersKeep
    <3>3. Sound(h, Pins(jc)) /\ Keeps(g_cache, h)
      BY <1>0, <2>1, <2>5, <3>2, DropSound
    <3> QED BY <1>s, <2>1, <2>3, <3>3
  <2> QED BY <2>4, <2>5
<1> QED BY <1>1, <1>2

--------------------------------------------------------------------------------
\* Only the job j changes.
Only(jb, jc, j) == \A i \in Job : i # j => jc[i] = jb[i]

\* The worker thread goes on executing what it executes.
LEMMA SameThread ==
    ASSUME NEW t, NEW jb, NEW jc, NEW j \in Job, Only(jb, jc, j), ThreadOK(t, jb),
           IsExecuting(jc[j]) <=> IsExecuting(jb[j])
    PROVE  ThreadOK(t, jc)
<1>1. \A i \in Job : IsExecuting(jc[i]) <=> IsExecuting(jb[i])
  BY DEF Only
<1> QED BY <1>1 DEF ThreadOK

\* The idle worker takes a job.
LEMMA ThreadTakes ==
    ASSUME NEW jb, NEW jc, NEW j \in Job, Only(jb, jc, j), ThreadOK("idle", jb),
           IsExecuting(jc[j])
    PROVE  ThreadOK("busy", jc)
<1>1. \A i \in Job : ~ IsExecuting(jb[i])
  BY DEF ThreadOK
<1>2. \A i \in Job : IsExecuting(jc[i]) <=> i = j
  BY <1>1 DEF Only
<1> QED BY <1>2 DEF ThreadOK

\* The busy worker ends its job.
LEMMA ThreadDone ==
    ASSUME NEW t, NEW jb, NEW jc, NEW j \in Job, Only(jb, jc, j), ThreadOK(t, jb),
           IsExecuting(jb[j]), ~ IsExecuting(jc[j])
    PROVE  ThreadOK("idle", jc)
<1>1. t = "busy"
  BY DEF ThreadOK
<1>2. PICK k \in Job : \A i \in Job : IsExecuting(jb[i]) <=> i = k
  BY <1>1 DEF ThreadOK
<1>3. \A i \in Job : ~ IsExecuting(jc[i])
  BY <1>2 DEF Only
<1> QED BY <1>3 DEF ThreadOK

\* A thread that is not busy executes nothing.
LEMMA ThreadLeaves ==
    ASSUME NEW t, NEW u, NEW jb, ThreadOK(t, jb), t # "busy", u # "busy"
    PROVE  ThreadOK(u, jb)
  BY DEF ThreadOK

\* A job that is not queued may change without the queue.
LEMMA SameQueue ==
    ASSUME NEW q \in Seq(Job), NEW jb, NEW jc, NEW j \in Job, Only(jb, jc, j), QueueOK(q, jb),
           jb[j].state # "queued"
    PROVE  QueueOK(q, jc)
<1>1. \A i \in DOMAIN q : q[i] \in Job /\ q[i] # j
  BY SMT DEF QueueOK
<1> QED BY <1>1 DEF QueueOK, Only

\* A job is queued.
LEMMA QueuePuts ==
    ASSUME Laws, NEW q \in Seq(Job), NEW jb, NEW jc, NEW j \in Job, Only(jb, jc, j), QueueOK(q, jb),
           jb[j].state # "queued", jc[j].state = "queued"
    PROVE  Append(q, j) \in Seq(Job) /\ QueueOK(Append(q, j), jc)
<1> PICK s : s = Append(q, j)
  OBVIOUS
<1>1. j \notin Range(q)
  BY DEF QueueOK, Range
<1>2. Once(q)
  BY DEF QueueOK
<1>3. /\ s \in Seq(Job) /\ Once(s) /\ Len(s) = Len(q) + 1 /\ s[Len(q) + 1] = j
      /\ \A i \in 1..Len(q) : s[i] = q[i]
  BY <1>1, <1>2, SMT DEF Laws, AppendLaw
<1>4. QueueOK(q, jc)
  BY SameQueue
<1>5. ASSUME NEW i \in DOMAIN s PROVE jc[s[i]].state = "queued"
  <2>1. i \in 1..Len(q) \/ i = Len(q) + 1
    BY <1>3, SMT
  <2>2. CASE i \in 1..Len(q)
    BY <1>3, <1>4, <2>2, SMT DEF QueueOK
  <2> QED BY <1>3, <2>1, <2>2
<1> QED BY <1>3, <1>5 DEF QueueOK

\* The head of the queue is taken.
LEMMA QueueTakes ==
    ASSUME NEW q \in Seq(Job), q # <<>>, NEW jb, NEW jc, NEW j, j = Head(q),
           Only(jb, jc, j), QueueOK(q, jb)
    PROVE  j \in Job /\ jb[j].state = "queued" /\ Tail(q) \in Seq(Job) /\ QueueOK(Tail(q), jc)
<1>1. j \in Job /\ j = q[1] /\ 1 \in DOMAIN q /\ Tail(q) \in Seq(Job)
  BY SMT
<1>2. ASSUME NEW i \in DOMAIN Tail(q)
      PROVE  i + 1 \in DOMAIN q /\ Tail(q)[i] = q[i + 1] /\ i \in Nat
  BY SMT
<1>3. Once(q) /\ \A i \in DOMAIN q : jb[q[i]].state = "queued" /\ q[i] \in Job
  BY SMT DEF QueueOK
<1>4. ASSUME NEW i \in DOMAIN Tail(q) PROVE jc[Tail(q)[i]].state = "queued"
  <2>1. q[i + 1] # j
    <3>1. i + 1 # 1 /\ i + 1 \in DOMAIN q
      BY <1>2, SMT
    <3> QED BY <1>1, <1>3, <3>1 DEF Once
  <2> QED BY <1>2, <1>3, <2>1, SMT DEF Only
<1>5. Once(Tail(q))
  <2> SUFFICES ASSUME NEW a \in DOMAIN Tail(q), NEW b \in DOMAIN Tail(q), Tail(q)[a] = Tail(q)[b]
               PROVE  a = b
    BY DEF Once
  <2>1. a + 1 = b + 1
    BY <1>2, <1>3 DEF Once
  <2> QED BY <1>2, <2>1, SMT
<1> QED BY <1>1, <1>3, <1>4, <1>5 DEF QueueOK

\* One job changes to a record that is in order.
LEMMA JobsKept ==
    ASSUME NEW jb, NEW jc, NEW j \in Job, Only(jb, jc, j), JobOK(jc[j]),
           \A i \in Job : JobOK(jb[i])
    PROVE  \A i \in Job : JobOK(jc[i])
  BY DEF Only

\* A job that moves is the only one to change.
LEMMA MovesOnly ==
    ASSUME NEW jb, NEW jc, NEW j, NEW s, NEW p, JobMoves(jb, jc, j, s, p)
    PROVE  Only(jb, jc, j) /\ jc \in [Job -> JobRecord]
  BY DEF JobMoves, Only

\* The fields of the pool after an assignment.
LEMMA PoolSet ==
    ASSUME NEW p \in PoolRecord, NEW t \in Thread
    PROVE  /\ [p EXCEPT !.thread = t] \in PoolRecord
           /\ [p EXCEPT !.thread = t].thread = t
           /\ [p EXCEPT !.thread = t].running = p.running
  BY DEF PoolRecord

\* The pool as kvdev_rados_nkvx_start leaves it.
LEMMA PoolStarts ==
    ASSUME NEW p \in PoolRecord
    PROVE  /\ [p EXCEPT !.running = TRUE, !.stop = FALSE, !.thread = "idle"] \in PoolRecord
           /\ [p EXCEPT !.running = TRUE, !.stop = FALSE, !.thread = "idle"].thread = "idle"
           /\ [p EXCEPT !.running = TRUE, !.stop = FALSE, !.thread = "idle"].running = TRUE
  BY DEF PoolRecord, Thread

\* The pool as kvdev_rados_nkvx_stop leaves it.
LEMMA PoolStops ==
    ASSUME NEW p \in PoolRecord
    PROVE  /\ [p EXCEPT !.stop = TRUE, !.joining = TRUE] \in PoolRecord
           /\ [p EXCEPT !.stop = TRUE, !.joining = TRUE].thread = p.thread
           /\ [p EXCEPT !.stop = TRUE, !.joining = TRUE].running = p.running
           /\ [p EXCEPT !.running = FALSE, !.joining = FALSE, !.thread = "none"] \in PoolRecord
           /\ [p EXCEPT !.running = FALSE, !.joining = FALSE, !.thread = "none"].thread = "none"
  BY DEF PoolRecord, Thread

--------------------------------------------------------------------------------
\* kvdev_rados_nkvx_wasm_cache_pin keeps the invariant.
LEMMA StepPin ==
    ASSUME Laws, WkIInv, NEW j \in Job, NEW k \in Key, NEW m \in Module,
           kvdev_rados_nkvx_wasm_cache_pin(j, k, m)
    PROVE  WkIInv'
<1> PICK jc : jc = job'
  OBVIOUS
<1>0. /\ job \in [Job -> JobRecord] /\ queue \in Seq(Job) /\ QueueOK(queue, job)
      /\ ThreadOK(pool.thread, job) /\ \A i \in Job : JobOK(job[i])
  BY DEF WkIInv, WkTypes, WkJobs, PoolOK
<1>1. /\ Sound(g_cache, Pins(job))' /\ jc \in [Job -> JobRecord]
      /\ jc[j].state = "probed" /\ jc[j].key = k /\ jc[j].module = m
      /\ jc[j].pin # NoPin /\ \A i \in Job : i # j => jc[i] = job[i]
  BY SoundPin
<1>2. job[j].state = "idle" /\ UNCHANGED <<rados, writing, queue, pool, stops, freed_use>>
  BY DEF kvdev_rados_nkvx_wasm_cache_pin
<1>3. Only(job, jc, j) /\ JobOK(jc[j])
  BY <1>1 DEF Only, JobOK
<1>4. QueueOK(queue, jc)
  BY <1>0, <1>2, <1>3, SameQueue
<1>5. ThreadOK(pool.thread, jc)
  BY <1>0, <1>1, <1>2, <1>3, SameThread DEF IsExecuting
<1>6. \A i \in Job : JobOK(jc[i])
  BY <1>0, <1>3, JobsKept
<1> QED BY <1>1, <1>2, <1>4, <1>5, <1>6 DEF WkIInv, WkTypes, WkJobs, PoolOK

\* A probe that misses keeps the invariant.
LEMMA StepRead ==
    ASSUME WkIInv, NEW j \in Job, NEW k \in Key, NEW m \in Module, ReadObject(j, k, m)
    PROVE  WkIInv'
<1> PICK jc, b : jc = job' /\ b = rados[k]
  OBVIOUS
<1>0. /\ job \in [Job -> JobRecord] /\ queue \in Seq(Job) /\ QueueOK(queue, job)
      /\ ThreadOK(pool.thread, job) /\ (\A i \in Job : JobOK(job[i]))
      /\ Sound(g_cache, Pins(job)) /\ b \in Value
  BY DEF WkIInv, WkTypes, WkJobs, PoolOK
<1> DEFINE e == [state |-> "probed", key |-> k, module |-> m, pin |-> NoPin, bytes |-> b]
<1>1. /\ job[j].state = "idle" /\ jc = [job EXCEPT ![j] = e]
      /\ UNCHANGED <<g_cache, rados, writing, queue, pool, stops, freed_use>>
  BY DEF ReadObject
<1>2. e \in JobRecord /\ e.state = "probed" /\ e.key = k /\ e.module = m /\ e.pin = NoPin
      /\ e.bytes = b
  BY <1>0, NewRecords, SMT
<1> HIDE DEF e
<1>3. jc \in [Job -> JobRecord] /\ jc[j] = e /\ \A i \in Job : i # j => jc[i] = job[i]
  BY <1>0, <1>1, <1>2, JobSet, SMT
<1>4. Only(job, jc, j) /\ JobOK(jc[j])
  BY <1>0, <1>2, <1>3 DEF Only, JobOK
<1>5. job[j].pin = NoPin
  BY <1>0, <1>1 DEF JobOK
<1>6. OthersKeep(job, jc, j) /\ jc[j].pin = job[j].pin
  BY <1>2, <1>3, <1>5 DEF OthersKeep
<1>7. Pins(jc) = Pins(job)
  BY <1>6, PinsSame
<1>8. QueueOK(queue, jc)
  BY <1>0, <1>1, <1>4, SameQueue
<1>9. ThreadOK(pool.thread, jc)
  BY <1>0, <1>1, <1>2, <1>3, <1>4, SameThread DEF IsExecuting
<1>10. \A i \in Job : JobOK(jc[i])
  BY <1>0, <1>4, JobsKept
<1> QED BY <1>0, <1>1, <1>3, <1>7, <1>8, <1>9, <1>10 DEF WkIInv, WkTypes, WkJobs, PoolOK

\* kvdev_rados_nkvx_dispatch keeps the invariant.
LEMMA StepDispatch ==
    ASSUME Laws, WkIInv, NEW j \in Job, kvdev_rados_nkvx_dispatch(j)
    PROVE  WkIInv'
<1> PICK jc, q : jc = job' /\ q = queue'
  OBVIOUS
<1>0. /\ job \in [Job -> JobRecord] /\ queue \in Seq(Job) /\ QueueOK(queue, job)
      /\ ThreadOK(pool.thread, job) /\ (\A i \in Job : JobOK(job[i]))
  BY DEF WkIInv, WkTypes, WkJobs, PoolOK
<1>1. /\ Sound(g_cache, Pins(job))'
      /\ jc \in [Job -> JobRecord] /\ \A i \in Job : i # j => jc[i] = job[i]
      /\ job[j].state = "probed"
      /\ \/ /\ q = queue /\ jc[j] = NewJob
         \/ /\ q = Append(queue, j)
            /\ JobMoves(job, jc, j, "queued", job[j].pin)
  BY SoundDispatch
<1>2. UNCHANGED <<rados, writing, pool, stops, freed_use>>
  BY DEF kvdev_rados_nkvx_dispatch
<1>3. Only(job, jc, j)
  BY <1>1 DEF Only
<1>4. q \in Seq(Job) /\ QueueOK(q, jc) /\ JobOK(jc[j]) /\ ~ IsExecuting(jc[j])
  <2>1. CASE q = queue /\ jc[j] = NewJob
    <3>1. QueueOK(queue, jc)
      BY <1>0, <1>1, <1>3, SameQueue
    <3>2. JobOK(jc[j]) /\ ~ IsExecuting(jc[j])
      BY <2>1, SMT DEF NewJob, JobOK, IsExecuting
    <3> QED BY <1>0, <2>1, <3>1, <3>2
  <2>2. CASE q = Append(queue, j) /\ JobMoves(job, jc, j, "queued", job[j].pin)
    <3>1. /\ jc[j].state = "queued" /\ jc[j].pin = job[j].pin /\ jc[j].key = job[j].key
          /\ jc[j].module = job[j].module /\ jc[j].bytes = job[j].bytes
      BY <2>2 DEF JobMoves
    <3>2. q \in Seq(Job) /\ QueueOK(q, jc)
      BY <1>0, <1>1, <1>3, <2>2, <3>1, QueuePuts
    <3>3. JobOK(jc[j]) /\ ~ IsExecuting(jc[j])
      BY <1>0, <1>1, <3>1 DEF JobOK, IsExecuting
    <3> QED BY <3>2, <3>3
  <2> QED BY <1>1, <2>1, <2>2
<1>5. ThreadOK(pool.thread, jc)
  BY <1>0, <1>1, <1>3, <1>4, SameThread DEF IsExecuting
<1>6. \A i \in Job : JobOK(jc[i])
  BY <1>0, <1>3, <1>4, JobsKept
<1> QED BY <1>1, <1>2, <1>4, <1>5, <1>6 DEF WkIInv, WkTypes, WkJobs, PoolOK

\* kvdev_rados_nkvx_complete_on_spdk keeps the invariant.
LEMMA StepComplete ==
    ASSUME WkIInv, NEW j \in Job, kvdev_rados_nkvx_complete_on_spdk(j)
    PROVE  WkIInv'
<1> PICK jc : jc = job'
  OBVIOUS
<1>0. /\ job \in [Job -> JobRecord] /\ queue \in Seq(Job) /\ QueueOK(queue, job)
      /\ ThreadOK(pool.thread, job) /\ (\A i \in Job : JobOK(job[i]))
      /\ Sound(g_cache, Pins(job))
  BY DEF WkIInv, WkTypes, WkJobs, PoolOK
<1>1. /\ job[j].state = "done" /\ jc = [job EXCEPT ![j] = NewJob]
      /\ UNCHANGED <<g_cache, rados, writing, queue, pool, stops, freed_use>>
  BY DEF kvdev_rados_nkvx_complete_on_spdk
<1>2. NewJob \in JobRecord /\ NewJob.state = "idle" /\ NewJob.pin = NoPin
  BY DEF NewJob, JobRecord
<1>3. jc \in [Job -> JobRecord] /\ jc[j] = NewJob /\ \A i \in Job : i # j => jc[i] = job[i]
  BY <1>0, <1>1, <1>2, JobSet, SMT
<1>4. Only(job, jc, j) /\ JobOK(jc[j])
  BY <1>2, <1>3 DEF Only, JobOK
<1>5. job[j].pin = NoPin
  BY <1>0, <1>1 DEF JobOK
<1>6. OthersKeep(job, jc, j) /\ jc[j].pin = job[j].pin
  BY <1>2, <1>3, <1>5 DEF OthersKeep
<1>7. Pins(jc) = Pins(job)
  BY <1>6, PinsSame
<1>8. QueueOK(queue, jc)
  BY <1>0, <1>1, <1>4, SameQueue
<1>9. ThreadOK(pool.thread, jc)
  BY <1>0, <1>1, <1>2, <1>3, <1>4, SameThread DEF IsExecuting
<1>10. \A i \in Job : JobOK(jc[i])
  BY <1>0, <1>4, JobsKept
<1> QED BY <1>0, <1>1, <1>3, <1>7, <1>8, <1>9, <1>10 DEF WkIInv, WkTypes, WkJobs, PoolOK

\* A Store, submitted or applied, keeps the invariant.
LEMMA StepStores ==
    ASSUME Laws, WkIInv, NEW k \in Key,
           \/ \E v \in Value : kvdev_rados_nkvx_wasm_cache_invalidate(k, v)
           \/ StoreApplied(k)
    PROVE  WkIInv'
<1>0. /\ Sound(g_cache, Pins(job)) /\ rados \in [Key -> Value]
      /\ writing \in [Key -> Value \cup {Absent}]
  BY DEF WkIInv, WkTypes
<1>1. UNCHANGED <<job, queue, pool, stops, freed_use>>
  BY DEF kvdev_rados_nkvx_wasm_cache_invalidate, StoreApplied
<1>2. /\ rados' \in [Key -> Value] /\ writing' \in [Key -> Value \cup {Absent}]
  BY <1>0 DEF kvdev_rados_nkvx_wasm_cache_invalidate, StoreApplied
<1>3. Sound(g_cache', Pins(job))
  <2>1. g_cache' = nkvx_cache_invalidate_locked(g_cache, k) \/ g_cache' = g_cache
    BY DEF kvdev_rados_nkvx_wasm_cache_invalidate, StoreApplied
  <2> QED BY <1>0, <2>1 DEF Laws, InvalidateLaw
<1> QED BY <1>1, <1>2, <1>3 DEF WkIInv, WkTypes, WkJobs, PoolOK

--------------------------------------------------------------------------------
\* The worker's dequeue keeps the invariant.
LEMMA StepTake ==
    ASSUME WkIInv, TakeJob
    PROVE  WkIInv'
<1> PICK j, jc, q : j = Head(queue) /\ jc = job' /\ q = queue'
  OBVIOUS
<1>0. /\ job \in [Job -> JobRecord] /\ queue \in Seq(Job) /\ QueueOK(queue, job)
      /\ ThreadOK(pool.thread, job) /\ (\A i \in Job : JobOK(job[i]))
      /\ Sound(g_cache, Pins(job)) /\ pool \in PoolRecord /\ (~ pool.running => pool.thread = "none")
  BY DEF WkIInv, WkTypes, WkJobs, PoolOK
<1>1. /\ pool.thread = "idle" /\ queue # <<>> /\ q = Tail(queue)
      /\ jc = [job EXCEPT ![j].state = "running"] /\ pool' = [pool EXCEPT !.thread = "busy"]
      /\ UNCHANGED <<g_cache, rados, writing, stops, freed_use>>
  BY DEF TakeJob
<1>2. j \in Job
  BY <1>0, <1>1, SMT
<1>3. JobMoves(job, jc, j, "running", job[j].pin)
  BY <1>0, <1>1, <1>2, StateSet DEF JobState
<1>4. Only(job, jc, j) /\ jc \in [Job -> JobRecord]
  BY <1>3, MovesOnly
<1>5. job[j].state = "queued" /\ q \in Seq(Job) /\ QueueOK(q, jc)
  BY <1>0, <1>1, <1>4, QueueTakes, SMT
<1>6. Pins(jc) = Pins(job)
  BY <1>2, <1>3, MovesPins, SMT
<1>7. /\ jc[j].state = "running" /\ jc[j].pin = job[j].pin /\ jc[j].key = job[j].key
      /\ jc[j].module = job[j].module /\ jc[j].bytes = job[j].bytes
  BY <1>3 DEF JobMoves
<1>8. JobOK(jc[j]) /\ IsExecuting(jc[j])
  BY <1>0, <1>2, <1>5, <1>7 DEF JobOK, IsExecuting
<1>9. ThreadOK("busy", jc)
  <2>1. /\ job \in [Job -> JobRecord] /\ ThreadOK("idle", job) /\ Only(job, jc, j)
        /\ IsExecuting(jc[j])
    BY <1>0, <1>1, <1>4, <1>8
  <2> QED BY <1>2, <2>1, ThreadTakes
<1>10. pool' \in PoolRecord /\ pool'.thread = "busy" /\ pool'.running = pool.running
  BY <1>0, <1>1, PoolSet DEF Thread
<1>11. \A i \in Job : JobOK(jc[i])
  BY <1>0, <1>2, <1>4, <1>8, JobsKept
<1> QED BY <1>0, <1>1, <1>4, <1>5, <1>6, <1>9, <1>10, <1>11 DEF WkIInv, WkTypes, WkJobs, PoolOK

\* kvdev_rados_nkvx_wasm_run_pinned keeps the invariant.
LEMMA StepRunPinned ==
    ASSUME Laws, WkIInv, NEW j \in Job, kvdev_rados_nkvx_wasm_run_pinned(j)
    PROVE  WkIInv'
<1> PICK jc : jc = job'
  OBVIOUS
<1>0. /\ job \in [Job -> JobRecord] /\ queue \in Seq(Job) /\ QueueOK(queue, job)
      /\ ThreadOK(pool.thread, job) /\ (\A i \in Job : JobOK(job[i]))
  BY DEF WkIInv, WkTypes, WkJobs, PoolOK
<1>1. /\ Sound(g_cache, Pins(job))' /\ JobMoves(job, jc, j, "ran", job[j].pin)
      /\ freed_use' = freed_use
  BY SoundRunPinned
<1>2. /\ job[j].state = "running" /\ job[j].pin # NoPin
      /\ UNCHANGED <<rados, writing, queue, pool, stops>>
  BY DEF kvdev_rados_nkvx_wasm_run_pinned
<1>3. Only(job, jc, j) /\ jc \in [Job -> JobRecord]
  BY <1>1, MovesOnly
<1>4. /\ jc[j].state = "ran" /\ jc[j].pin = job[j].pin /\ jc[j].key = job[j].key
      /\ jc[j].module = job[j].module /\ jc[j].bytes = job[j].bytes
  BY <1>1 DEF JobMoves
<1>5. JobOK(jc[j]) /\ IsExecuting(jc[j]) /\ IsExecuting(job[j])
  BY <1>0, <1>2, <1>4 DEF JobOK, IsExecuting
<1>6. QueueOK(queue, jc)
  BY <1>0, <1>2, <1>3, SameQueue
<1>7. ThreadOK(pool.thread, jc)
  BY <1>0, <1>3, <1>5, SameThread
<1>8. \A i \in Job : JobOK(jc[i])
  BY <1>0, <1>3, <1>5, JobsKept
<1> QED BY <1>1, <1>2, <1>3, <1>6, <1>7, <1>8 DEF WkIInv, WkTypes, WkJobs, PoolOK

\* The end of a job on the worker.
LEMMA StepDone ==
    ASSUME WkIInv, NEW j \in Job, IsExecuting(job[j]), JobMoves(job, job', j, "done", NoPin),
           Sound(g_cache, Pins(job))', pool' = [pool EXCEPT !.thread = "idle"],
           freed_use' \in BOOLEAN, UNCHANGED <<rados, writing, queue, stops>>
    PROVE  WkIInv'
<1> PICK jc : jc = job'
  OBVIOUS
<1>0. /\ job \in [Job -> JobRecord] /\ queue \in Seq(Job) /\ QueueOK(queue, job)
      /\ ThreadOK(pool.thread, job) /\ (\A i \in Job : JobOK(job[i]))
      /\ pool \in PoolRecord /\ (~ pool.running => pool.thread = "none")
  BY DEF WkIInv, WkTypes, WkJobs, PoolOK
<1>1. Only(job, jc, j) /\ jc \in [Job -> JobRecord]
  BY MovesOnly
<1>2. jc[j].state = "done" /\ jc[j].pin = NoPin
  BY DEF JobMoves
<1>3. JobOK(jc[j]) /\ ~ IsExecuting(jc[j]) /\ job[j].state # "queued"
  BY <1>2 DEF JobOK, IsExecuting
<1>4. QueueOK(queue, jc)
  BY <1>0, <1>1, <1>3, SameQueue
<1>5. ThreadOK("idle", jc)
  BY <1>0, <1>1, <1>3, ThreadDone
<1>6. pool.thread = "busy"
  BY <1>0 DEF ThreadOK
<1>7. pool' \in PoolRecord /\ pool'.thread = "idle" /\ pool'.running = pool.running
  BY <1>0, PoolSet DEF Thread
<1>8. \A i \in Job : JobOK(jc[i])
  BY <1>0, <1>1, <1>3, JobsKept
<1> QED BY <1>0, <1>1, <1>4, <1>5, <1>6, <1>7, <1>8 DEF WkIInv, WkTypes, WkJobs, PoolOK

\* kvdev_rados_nkvx_wasm_cache_unpin keeps the invariant.
LEMMA StepUnpin ==
    ASSUME Laws, WkIInv, NEW j \in Job, kvdev_rados_nkvx_wasm_cache_unpin(j)
    PROVE  WkIInv'
<1>1. /\ Sound(g_cache, Pins(job))' /\ JobMoves(job, job', j, "done", NoPin)
      /\ freed_use' = freed_use /\ IsExecuting(job[j])
  BY SoundUnpin
<1>2. /\ pool' = [pool EXCEPT !.thread = "idle"] /\ UNCHANGED <<rados, writing, queue, stops>>
  BY DEF kvdev_rados_nkvx_wasm_cache_unpin, SendCompletion
<1>3. freed_use \in BOOLEAN
  BY DEF WkIInv, WkTypes
<1> QED BY <1>1, <1>2, <1>3, StepDone

\* kvdev_rados_nkvx_wasm_run_cached keeps the invariant.
LEMMA StepRunCached ==
    ASSUME Laws, WkIInv, NEW j \in Job, kvdev_rados_nkvx_wasm_run_cached(j)
    PROVE  WkIInv'
<1>1. /\ Sound(g_cache, Pins(job))' /\ JobMoves(job, job', j, "done", NoPin)
      /\ freed_use' \in {freed_use, TRUE}
  BY SoundRunCached
<1>2. /\ pool' = [pool EXCEPT !.thread = "idle"] /\ UNCHANGED <<rados, writing, queue, stops>>
      /\ job[j].state = "running"
  BY DEF kvdev_rados_nkvx_wasm_run_cached, SendCompletion
<1>3. freed_use' \in BOOLEAN /\ IsExecuting(job[j])
  BY <1>1, <1>2 DEF WkIInv, WkTypes, IsExecuting
<1> QED BY <1>1, <1>2, <1>3, StepDone

\* A built-in keeps the invariant.
LEMMA StepRunBuiltin ==
    ASSUME WkIInv, NEW j \in Job, RunBuiltin(j)
    PROVE  WkIInv'
<1> PICK jc : jc = job'
  OBVIOUS
<1>1. /\ job[j].state = "running" /\ job[j].pin = NoPin
      /\ jc = [job EXCEPT ![j].state = "done", ![j].pin = NoPin]
      /\ pool' = [pool EXCEPT !.thread = "idle"]
      /\ UNCHANGED <<g_cache, rados, writing, queue, stops, freed_use>>
  BY DEF RunBuiltin, SendCompletion
<1>2. job \in [Job -> JobRecord] /\ Sound(g_cache, Pins(job)) /\ freed_use \in BOOLEAN
  BY DEF WkIInv, WkTypes
<1>3. JobMoves(job, jc, j, "done", NoPin)
  BY <1>1, <1>2, CompletionSent
<1>4. Pins(jc) = Pins(job)
  <2>1. JobMoves(job, jc, j, "done", job[j].pin)
    BY <1>1, <1>3
  <2> QED BY <2>1, MovesPins, SMT
<1>5. Sound(g_cache, Pins(job))' /\ IsExecuting(job[j]) /\ freed_use' \in BOOLEAN
  BY <1>1, <1>2, <1>4 DEF IsExecuting
<1> QED BY <1>1, <1>3, <1>5, StepDone

\* Start, stop, the join and the worker's exit keep the invariant.
LEMMA StepPool ==
    ASSUME WkIInv, WorkerExits \/ kvdev_rados_nkvx_start \/ kvdev_rados_nkvx_stop \/ StopJoined
    PROVE  WkIInv'
<1>0. /\ Sound(g_cache, Pins(job)) /\ queue \in Seq(Job) /\ QueueOK(queue, job)
      /\ ThreadOK(pool.thread, job) /\ (~ pool.running => pool.thread = "none")
      /\ pool \in PoolRecord /\ stops \in 0..MaxStops
  BY DEF WkIInv, WkTypes, PoolOK
<1>1. UNCHANGED <<g_cache, rados, writing, job, freed_use>>
  BY DEF WorkerExits, kvdev_rados_nkvx_start, kvdev_rados_nkvx_stop, StopJoined
<1>2. queue' \in Seq(Job) /\ QueueOK(queue', job)
  <2>1. QueueOK(<<>>, job) /\ <<>> \in Seq(Job)
    BY SMT DEF QueueOK, Once
  <2> QED BY <1>0, <2>1 DEF WorkerExits, kvdev_rados_nkvx_start, kvdev_rados_nkvx_stop, StopJoined
<1>3. stops' \in 0..MaxStops
  BY <1>0, WorkerAssumption, SMT DEF WorkerExits, kvdev_rados_nkvx_start, kvdev_rados_nkvx_stop, StopJoined
<1>4. pool' \in PoolRecord /\ ThreadOK(pool'.thread, job) /\ (~ pool'.running => pool'.thread = "none")
  <2>1. CASE WorkerExits
    <3>1. pool.thread = "idle" /\ pool' = [pool EXCEPT !.thread = "exited"]
      BY <2>1 DEF WorkerExits
    <3>2. pool' \in PoolRecord /\ pool'.thread = "exited" /\ pool'.running = pool.running
      BY <1>0, <3>1, PoolSet DEF Thread
    <3> QED BY <1>0, <3>1, <3>2, ThreadLeaves
  <2>2. CASE kvdev_rados_nkvx_start
    <3>1. /\ ~ pool.running
          /\ pool' = [pool EXCEPT !.running = TRUE, !.stop = FALSE, !.thread = "idle"]
      BY <2>2 DEF kvdev_rados_nkvx_start
    <3>2. pool' \in PoolRecord /\ pool'.thread = "idle" /\ pool'.running = TRUE
      BY <1>0, <3>1, PoolStarts
    <3> QED BY <1>0, <3>1, <3>2, ThreadLeaves
  <2>3. CASE kvdev_rados_nkvx_stop
    <3>1. pool' = [pool EXCEPT !.stop = TRUE, !.joining = TRUE]
      BY <2>3 DEF kvdev_rados_nkvx_stop
    <3>2. pool' \in PoolRecord /\ pool'.thread = pool.thread /\ pool'.running = pool.running
      BY <1>0, <3>1, PoolStops
    <3> QED BY <1>0, <3>2
  <2>4. CASE StopJoined
    <3>1. /\ pool.thread = "exited"
          /\ pool' = [pool EXCEPT !.running = FALSE, !.joining = FALSE, !.thread = "none"]
      BY <2>4 DEF StopJoined
    <3>2. pool' \in PoolRecord /\ pool'.thread = "none"
      BY <1>0, <3>1, PoolStops
    <3> QED BY <1>0, <3>1, <3>2, ThreadLeaves
  <2> QED BY <2>1, <2>2, <2>3, <2>4
<1> QED BY <1>0, <1>1, <1>2, <1>3, <1>4 DEF WkIInv, WkTypes, WkJobs, PoolOK

--------------------------------------------------------------------------------
\* The pool and the cache as they start.
LEMMA WorkerInit ==
    ASSUME Laws, Init
    PROVE  WkIInv /\ ~ freed_use
<1>1. job = [j \in Job |-> NewJob] /\ g_cache = EmptyCache /\ queue = <<>> /\ freed_use = FALSE
      /\ pool = [running |-> FALSE, stop |-> FALSE, joining |-> FALSE, thread |-> "none"]
  BY DEF Init
<1>2. NewJob \in JobRecord /\ NewJob.pin = NoPin /\ NewJob.state = "idle"
  BY DEF NewJob, JobRecord
<1>3. job \in [Job -> JobRecord] /\ \A j \in Job : job[j] = NewJob
  BY <1>1, <1>2
<1>4. Sound(g_cache, Pins(job))
  <2>1. ASSUME NEW o \in Obj PROVE Pins(job)[o] = 0
    <3>1. {j \in Job : job[j].pin = o} = {}
      BY <1>2, <1>3, WorkerAssumption
    <3>2. Cardinality({}) = 0
      BY DEF Laws, CountLaw
    <3> QED BY <3>1, <3>2 DEF Pins
  <2>2. Pins(job) \in [Obj -> Nat]
    BY PinsNat
  <2> QED BY <1>1, <2>1, <2>2 DEF Laws, EmptyLaw
<1>5. WkJobs
  BY <1>2, <1>3 DEF WkJobs, JobOK
<1>6. QueueOK(queue, job)
  BY <1>1, SMT DEF QueueOK, Once
<1>7. PoolOK
  BY <1>1, <1>2, <1>3 DEF PoolOK, ThreadOK, IsExecuting
<1>8. WkTypes
  <2>1. pool \in PoolRecord
    BY <1>1 DEF PoolRecord, Thread
  <2>2. rados \in [Key -> Value] /\ writing \in [Key -> Value \cup {Absent}] /\ stops \in 0..MaxStops
    BY WorkerAssumption, SMT DEF Init
  <2>3. <<>> \in Seq(Job)
    BY SMT
  <2>4. queue \in Seq(Job) /\ freed_use \in BOOLEAN
    BY <1>1, <2>3
  <2> QED BY <1>3, <2>1, <2>2, <2>4 DEF WkTypes
<1> QED BY <1>1, <1>4, <1>5, <1>6, <1>7, <1>8 DEF WkIInv

\* The invariant is inductive.
LEMMA WorkerStep ==
    ASSUME Laws, WkIInv, [Next]_vars
    PROVE  WkIInv'
<1>1. CASE UNCHANGED vars
  BY <1>1 DEF vars, WkIInv, WkTypes, WkJobs, PoolOK
<1>2. CASE Next
  BY <1>2, StepPin, StepRead, StepDispatch, StepComplete, StepStores, StepTake, StepRunPinned,
     StepUnpin, StepRunCached, StepRunBuiltin, StepPool DEF Next, Worker
<1> QED BY <1>1, <1>2

\* An account in order is well typed.
LEMMA CacheTyped ==
    ASSUME Laws, NEW g, Listed(g)
    PROVE  CacheOK(g)
<1>1. DOMAIN g.ent \subseteq Obj /\ g.obj_bytes \in Nat
  BY DEF Laws, EntriesLaw
<1> QED BY <1>1 DEF Listed, CacheOK

\* What the invariant says of the cache and of the pool.
LEMMA WorkerFacts ==
    ASSUME Laws, WkIInv
    PROVE  /\ TypeOK /\ RefcountExact /\ OneWorker /\ NothingLeaks
           /\ ~ freed_use => NoUseAfterFree
<1>0. Sound(g_cache, Pins(job)) /\ Listed(g_cache) /\ Aliased(g_cache) /\ Counted(g_cache, Pins(job))
  BY DEF WkIInv, Sound
<1>1. TypeOK
  <2>1. CacheOK(g_cache)
    BY <1>0, CacheTyped
  <2> QED BY <2>1 DEF TypeOK, WkIInv, WkTypes, PoolRecord, Thread
<1>2. RefcountExact
  <2>1. ASSUME NEW o \in DOMAIN g_cache.ent
        PROVE  g_cache.ent[o].refcount = Cardinality(Pinned(o)) + WarmPins(g_cache, o)
    <3>1. o \in Obj
      BY <1>0 DEF Laws, EntriesLaw
    <3>2. Pins(job)[o] = Cardinality(Pinned(o))
      BY <3>1 DEF Pins, Pinned
    <3> QED BY <1>0, <3>2 DEF Counted
  <2> QED BY <2>1 DEF RefcountExact
<1>3. OneWorker
  <2>0. ThreadOK(pool.thread, job) /\ Executing = {j \in Job : IsExecuting(job[j])}
    BY DEF WkIInv, PoolOK, Executing, IsExecuting
  <2>1. CASE pool.thread = "busy"
    <3>1. PICK j \in Job : \A i \in Job : IsExecuting(job[i]) <=> i = j
      BY <2>0, <2>1 DEF ThreadOK
    <3>2. Executing = {j}
      BY <2>0, <3>1
    <3>3. Cardinality({j}) = 1
      BY DEF Laws, CountLaw
    <3> QED BY <2>1, <3>2, <3>3 DEF OneWorker
  <2>2. CASE pool.thread # "busy"
    <3>1. Executing = {}
      BY <2>0, <2>2 DEF ThreadOK
    <3>2. Cardinality({}) = 0
      BY DEF Laws, CountLaw
    <3> QED BY <2>2, <3>1, <3>2 DEF OneWorker
  <2> QED BY <2>1, <2>2
<1>4. NothingLeaks
  <2>1. Cardinality(DOMAIN g_cache.ent) = Len(g_cache.objects)
    BY <1>0 DEF Laws, EntriesLaw
  <2> QED BY <1>0, <2>1 DEF NothingLeaks, ListedOnce, Listed, Counted
<1>5. ASSUME ~ freed_use PROVE NoUseAfterFree
  <2>1. ASSUME NEW j \in Job, job[j].pin # NoPin PROVE job[j].pin \in DOMAIN g_cache.ent
    <3>1. job[j].pin \in Obj
      BY <2>1 DEF WkIInv, WkTypes, JobRecord
    <3> QED BY <1>0, <3>1, PinnedAllocated
  <2>2. ASSUME NEW i \in DOMAIN g_cache.warm
        PROVE  /\ g_cache.warm[i].obj \in DOMAIN g_cache.ent
               /\ g_cache.ent[g_cache.warm[i].obj].obj_key = g_cache.warm[i].obj_key
    <3>1. g_cache.warm[i] \in Range(g_cache.warm)
      BY DEF Range
    <3> QED BY <1>0, <3>1 DEF Aliased
  <2> QED BY <1>5, <2>1, <2>2 DEF NoUseAfterFree
<1> QED BY <1>1, <1>2, <1>3, <1>4, <1>5

\* No run is on a freed entry: only a byte cap lets a fill be its own victim.
LEMMA NoFreedUse ==
    ASSUME Laws, MaxBytes = 0, WkIInv, ~ freed_use, [Next]_vars
    PROVE  ~ freed_use'
<1>1. ASSUME NEW j \in Job, kvdev_rados_nkvx_wasm_run_pinned(j) PROVE freed_use' = freed_use
  BY <1>1, SoundRunPinned
<1>2. ASSUME NEW j \in Job, kvdev_rados_nkvx_wasm_run_cached(j) PROVE freed_use' = freed_use
  BY <1>2, SoundRunCached
<1>3. ASSUME NEW j \in Job,
             \/ \E k \in Key, m \in Module : kvdev_rados_nkvx_wasm_cache_pin(j, k, m) \/ ReadObject(j, k, m)
             \/ kvdev_rados_nkvx_dispatch(j) \/ kvdev_rados_nkvx_complete_on_spdk(j)
             \/ kvdev_rados_nkvx_wasm_cache_unpin(j) \/ RunBuiltin(j)
      PROVE  freed_use' = freed_use
  BY <1>3 DEF kvdev_rados_nkvx_wasm_cache_pin, ReadObject, kvdev_rados_nkvx_dispatch,
     kvdev_rados_nkvx_complete_on_spdk, kvdev_rados_nkvx_wasm_cache_unpin, RunBuiltin
<1>4. ASSUME NEW k \in Key, (\E v \in Value : kvdev_rados_nkvx_wasm_cache_invalidate(k, v)) \/ StoreApplied(k)
      PROVE  freed_use' = freed_use
  BY <1>4 DEF kvdev_rados_nkvx_wasm_cache_invalidate, StoreApplied
<1>5. ASSUME TakeJob \/ WorkerExits \/ kvdev_rados_nkvx_start \/ kvdev_rados_nkvx_stop \/ StopJoined
      PROVE  freed_use' = freed_use
  BY <1>5 DEF TakeJob, WorkerExits, kvdev_rados_nkvx_start, kvdev_rados_nkvx_stop, StopJoined
<1>6. CASE UNCHANGED vars
  BY <1>6 DEF vars
<1>7. CASE Next
  BY <1>1, <1>2, <1>3, <1>4, <1>5, <1>7 DEF Next, Worker
<1> QED BY <1>6, <1>7

--------------------------------------------------------------------------------
\* Every job that does not take a pin keeps its pin and its bytes.
KeepsPins(jb, jc) ==
    \A i \in Job : jc[i].pin # NoPin => jc[i].pin = jb[i].pin /\ jc[i].bytes = jb[i].bytes

\* h keeps the content of what the jobs jc pin.
KeepsPinned(g, h, jc) ==
    \A i \in Job : jc[i].pin # NoPin => h.ent[jc[i].pin].content = g.ent[jc[i].pin].content

\* Each pin is of the version its job carries.
ServedOK(g, jb) == \A i \in Job : jb[i].pin # NoPin => g.ent[jb[i].pin].content = jb[i].bytes

\* Jobs that keep their pins, of entries that keep their contents, are served.
LEMMA ServedStays ==
    ASSUME NEW g, NEW h, NEW jb, NEW jc, ServedOK(g, jb), KeepsPins(jb, jc), KeepsPinned(g, h, jc)
    PROVE  ServedOK(h, jc)
  BY DEF ServedOK, KeepsPins, KeepsPinned

\* A job that moves keeps its pin or drops it.
LEMMA MovesKeepPins ==
    ASSUME NEW jb, NEW jc, NEW j \in Job, NEW s, NEW p, JobMoves(jb, jc, j, s, p),
           p \in {NoPin, jb[j].pin}
    PROVE  KeepsPins(jb, jc)
  BY DEF JobMoves, KeepsPins

\* The pin of a job is an allocated entry.
LEMMA PinnedInCache ==
    ASSUME Laws, NEW g, NEW jb, jb \in [Job -> JobRecord], Sound(g, Pins(jb)), NEW j \in Job,
           jb[j].pin # NoPin
    PROVE  jb[j].pin \in Obj /\ jb[j].pin \in DOMAIN g.ent /\ Pins(jb)[jb[j].pin] > 0
<1>1. jb[j].pin \in Obj
  BY DEF JobRecord
<1>2. jb[j].pin \in DOMAIN g.ent
  BY <1>1, PinnedAllocated
<1>3. Pins(jb)[jb[j].pin] > 0
  BY <1>1, PinsNat
<1> QED BY <1>1, <1>2, <1>3

\* A cache that keeps its entries keeps what is pinned.
LEMMA KeptPinned ==
    ASSUME Laws, NEW g, NEW h, NEW jc, jc \in [Job -> JobRecord], Sound(h, Pins(jc)), Keeps(g, h)
    PROVE  KeepsPinned(g, h, jc)
<1>1. ASSUME NEW i \in Job, jc[i].pin # NoPin PROVE jc[i].pin \in DOMAIN h.ent
  BY <1>1, PinnedInCache
<1> QED BY <1>1 DEF Keeps, KeepsPinned

\* A run without long results keeps what is pinned.
LEMMA RunKeptPinned ==
    ASSUME Laws, NEW g, NEW h, NEW jb, NEW jc, jb \in [Job -> JobRecord], Sound(g, Pins(jb)),
           KeepsPins(jb, jc), NEW m \in Module, LongResult = {}, PinnedKeeps(g, h, Pins(jb), m)
    PROVE  KeepsPinned(g, h, jc)
<1>1. ASSUME NEW i \in Job, jc[i].pin # NoPin
      PROVE  h.ent[jc[i].pin].content = g.ent[jc[i].pin].content
  <2>1. jb[i].pin # NoPin /\ jc[i].pin = jb[i].pin
    BY <1>1 DEF KeepsPins
  <2>2. jb[i].pin \in Obj /\ Pins(jb)[jb[i].pin] > 0
    BY <2>1, PinnedInCache
  <2> QED BY <2>1, <2>2 DEF PinnedKeeps
<1> QED BY <1>1 DEF KeepsPinned

\* The cache is left alone.
LEMMA ServedSame ==
    ASSUME ServedOK(g_cache, job), g_cache' = g_cache, KeepsPins(job, job')
    PROVE  ServedOK(g_cache, job)'
<1>1. KeepsPinned(g_cache, g_cache', job')
  BY DEF KeepsPinned
<1>2. ServedOK(g_cache', job')
  BY <1>1, ServedStays
<1> QED BY <1>2 DEF ServedOK

\* Every step leaves each job the version it pinned.
LEMMA ServedStep ==
    ASSUME Laws, LongResult = {}, WkIInv, WkIInv', ServedOK(g_cache, job), [Next]_vars
    PROVE  ServedOK(g_cache, job)'
<1>0. /\ job \in [Job -> JobRecord] /\ Sound(g_cache, Pins(job))
      /\ \A i \in Job : job[i] \in JobRecord
  BY DEF WkIInv, WkTypes
<1>1. job' \in [Job -> JobRecord] /\ Sound(g_cache', Pins(job'))
  <2>1. job' \in [Job -> JobRecord]
    BY DEF WkIInv, WkTypes
  <2>2. Sound(g_cache, Pins(job))'
    BY DEF WkIInv
  <2>3. Sound(g_cache, Pins(job))' = Sound(g_cache', Pins(job'))
    BY DEF Sound, Pins
  <2> QED BY <2>1, <2>2, <2>3
<1>g. ASSUME KeepsPinned(g_cache, g_cache', job'), KeepsPins(job, job')
      PROVE  ServedOK(g_cache, job)'
  <2>1. ServedOK(g_cache', job')
    BY <1>g, ServedStays
  <2> QED BY <2>1 DEF ServedOK
<1>2. ASSUME NEW j \in Job, NEW k \in Key, NEW m \in Module,
             kvdev_rados_nkvx_wasm_cache_pin(j, k, m)
      PROVE  ServedOK(g_cache, job)'
  <2>1. /\ job'[j].bytes = g_cache.ent[job'[j].pin].content /\ Keeps(g_cache, g_cache')
        /\ \A i \in Job : i # j => job'[i] = job[i]
    BY <1>2, SoundPin
  <2>2. KeepsPinned(g_cache, g_cache', job')
    BY <1>1, <2>1, KeptPinned
  <2>3. ASSUME NEW i \in Job, job'[i].pin # NoPin
        PROVE  g_cache'.ent[job'[i].pin].content = job'[i].bytes
    <3>1. g_cache'.ent[job'[i].pin].content = g_cache.ent[job'[i].pin].content
      BY <2>2, <2>3 DEF KeepsPinned
    <3> QED BY <2>1, <2>3, <3>1 DEF ServedOK
  <2> QED BY <2>3 DEF ServedOK
<1>3. ASSUME NEW j \in Job, kvdev_rados_nkvx_dispatch(j) PROVE ServedOK(g_cache, job)'
  <2>1. /\ Keeps(g_cache, g_cache') /\ \A i \in Job : i # j => job'[i] = job[i]
        /\ job'[j] = NewJob \/ JobMoves(job, job', j, "queued", job[j].pin)
    BY <1>3, SoundDispatch
  <2>2. KeepsPins(job, job')
    BY <2>1, SMT DEF KeepsPins, NewJob, JobMoves
  <2>3. KeepsPinned(g_cache, g_cache', job')
    BY <1>1, <2>1, KeptPinned
  <2> QED BY <1>g, <2>2, <2>3
<1>4. ASSUME NEW j \in Job, kvdev_rados_nkvx_wasm_cache_unpin(j) PROVE ServedOK(g_cache, job)'
  <2>1. JobMoves(job, job', j, "done", NoPin) /\ Keeps(g_cache, g_cache')
    BY <1>4, SoundUnpin
  <2>2. KeepsPins(job, job') /\ KeepsPinned(g_cache, g_cache', job')
    BY <1>1, <2>1, KeptPinned, MovesKeepPins
  <2> QED BY <1>g, <2>2
<1>5. ASSUME NEW j \in Job, kvdev_rados_nkvx_wasm_run_pinned(j) PROVE ServedOK(g_cache, job)'
  <2>1. /\ JobMoves(job, job', j, "ran", job[j].pin)
        /\ PinnedKeeps(g_cache, g_cache', Pins(job), job[j].module)
    BY <1>5, SoundRunPinned
  <2>2. job[j].module \in Module
    BY <1>5 DEF kvdev_rados_nkvx_wasm_run_pinned, WkIInv, WkJobs, JobOK
  <2>3. KeepsPins(job, job')
    BY <2>1, MovesKeepPins
  <2>4. KeepsPinned(g_cache, g_cache', job')
    BY <1>0, <2>1, <2>2, <2>3, RunKeptPinned
  <2> QED BY <1>g, <2>3, <2>4
<1>6. ASSUME NEW j \in Job, kvdev_rados_nkvx_wasm_run_cached(j) PROVE ServedOK(g_cache, job)'
  <2>1. /\ JobMoves(job, job', j, "done", NoPin)
        /\ PinnedKeeps(g_cache, g_cache', Pins(job), job[j].module)
    BY <1>6, SoundRunCached
  <2>2. job[j].module \in Module
    BY <1>6 DEF kvdev_rados_nkvx_wasm_run_cached, WkIInv, WkJobs, JobOK
  <2>3. KeepsPins(job, job')
    BY <2>1, MovesKeepPins
  <2>4. KeepsPinned(g_cache, g_cache', job')
    BY <1>0, <2>1, <2>2, <2>3, RunKeptPinned
  <2> QED BY <1>g, <2>3, <2>4
<1>7. ASSUME NEW k \in Key, NEW v \in Value, kvdev_rados_nkvx_wasm_cache_invalidate(k, v)
      PROVE  ServedOK(g_cache, job)'
  <2>1. g_cache' = nkvx_cache_invalidate_locked(g_cache, k) /\ job' = job
    BY <1>7 DEF kvdev_rados_nkvx_wasm_cache_invalidate
  <2>2. AfterInvalidate(g_cache, g_cache', k)
    BY <1>0, <2>1 DEF Laws, InvalidateLaw
  <2>3. Keeps(g_cache, g_cache')
    BY <2>2 DEF AfterInvalidate
  <2>4. KeepsPinned(g_cache, g_cache', job') /\ KeepsPins(job, job')
    BY <1>1, <2>1, <2>3, KeptPinned DEF KeepsPins
  <2> QED BY <1>g, <2>4
<1>8. ASSUME NEW j \in Job,
             \/ \E k \in Key, m \in Module : ReadObject(j, k, m)
             \/ kvdev_rados_nkvx_complete_on_spdk(j)
      PROVE  ServedOK(g_cache, job)'
  <2>1. /\ g_cache' = g_cache
        /\ \E e : e.pin = NoPin /\ job' = [job EXCEPT ![j] = e]
    BY <1>8 DEF ReadObject, kvdev_rados_nkvx_complete_on_spdk, NewJob
  <2>2. KeepsPins(job, job')
    BY <1>0, <2>1 DEF KeepsPins
  <2> QED BY <2>1, <2>2, ServedSame
<1>9. ASSUME NEW j \in Job, RunBuiltin(j) PROVE ServedOK(g_cache, job)'
  <2>1. g_cache' = g_cache /\ job' = [job EXCEPT ![j].state = "done", ![j].pin = NoPin]
    BY <1>9 DEF RunBuiltin, SendCompletion
  <2>2. JobMoves(job, job', j, "done", NoPin)
    BY <1>0, <2>1, CompletionSent
  <2>3. KeepsPins(job, job')
    BY <2>2, MovesKeepPins
  <2> QED BY <2>1, <2>3, ServedSame
<1>10. ASSUME TakeJob PROVE ServedOK(g_cache, job)'
  <2>1. g_cache' = g_cache /\ job' = [job EXCEPT ![Head(queue)].state = "running"]
        /\ queue # <<>>
    BY <1>10 DEF TakeJob
  <2>2. Head(queue) \in Job
    BY <2>1, SMT DEF WkIInv, WkTypes
  <2>3. JobMoves(job, job', Head(queue), "running", job[Head(queue)].pin)
    BY <1>0, <2>1, <2>2, StateSet DEF JobState
  <2>4. KeepsPins(job, job')
    BY <2>2, <2>3, MovesKeepPins
  <2> QED BY <2>1, <2>4, ServedSame
<1>11. ASSUME \/ \E k \in Key : StoreApplied(k)
              \/ WorkerExits \/ kvdev_rados_nkvx_start \/ kvdev_rados_nkvx_stop
              \/ StopJoined \/ UNCHANGED vars
       PROVE  ServedOK(g_cache, job)'
  <2>1. g_cache' = g_cache /\ job' = job
    BY <1>11 DEF StoreApplied, WorkerExits, kvdev_rados_nkvx_start, kvdev_rados_nkvx_stop,
       StopJoined, vars
  <2> QED BY <2>1 DEF ServedOK
<1> QED BY <1>2, <1>3, <1>4, <1>5, <1>6, <1>7, <1>8, <1>9, <1>10, <1>11 DEF Next, Worker

--------------------------------------------------------------------------------
ExTyped ==
    /\ stored \in [Key -> Value \cup {Absent}]
    /\ reply \in [key : Key \cup {Absent}, served : Value \cup {Absent, Clobbered}]
    /\ restarts \in 0..MaxRestarts
    /\ freed_use \in BOOLEAN

ExIInv == Rested(g_cache) /\ ExTyped

\* The cached objects are the stored ones.
StoreOK(g, st) ==
    \A o \in DOMAIN g.ent : \A k \in Key : g.ent[o].obj_key = k => g.ent[o].content = st[k]

\* A verb that leaves the contents leaves the cache coherent.
LEMMA LeftStore ==
    ASSUME NEW g, NEW h, NEW st, StoreOK(g, st), LeavesContent(g, h), LongResult = {}
    PROVE  StoreOK(h, st)
  BY DEF StoreOK, LeavesContent

\* A run leaves the contents when no result is long.
LEMMA RunLeaves ==
    ASSUME NEW g, NEW h, NEW m, RunKeeps(g, h, m)
    PROVE  LeavesContent(g, h)
  BY DEF LeavesContent, RunKeeps

\* A fill with the stored value leaves the cache coherent.
LEMMA FilledStore ==
    ASSUME NEW g, NEW h, NEW st, StoreOK(g, st), NEW k \in Key, NEW o,
           FillKeeps(g, h, k, st[k], o)
    PROVE  StoreOK(h, st)
<1> SUFFICES ASSUME NEW p \in DOMAIN h.ent, NEW q \in Key, h.ent[p].obj_key = q
             PROVE  h.ent[p].content = st[q]
  BY DEF StoreOK
<1>1. CASE p = o
  <2>1. h.ent[o].content = st[k] /\ h.ent[o].obj_key = StoredKey(k)
    BY <1>1 DEF FillKeeps
  <2>2. q = k
    BY <1>1, <2>1, CacheAssumption DEF StoredKey
  <2> QED BY <1>1, <2>1, <2>2
<1>2. CASE p # o
  BY <1>2 DEF FillKeeps, StoreOK
<1> QED BY <1>1, <1>2

\* A hit of the cache is the object of the key.
LEMMA HitIsStored ==
    ASSUME RestLaws, NEW g, Rested(g), NEW k \in Key, nkvx_obj_lookup(g, k) # {}, NEW o, o = Hit(g, k)
    PROVE  /\ o \in DOMAIN g.ent /\ g.ent[o].content \in Value \cup {Clobbered}
           /\ \A st : StoreOK(g, st) => g.ent[o].content = st[k]
<1>1. Listed(g)
  BY DEF Rested, Sound
<1>2. o \in DOMAIN g.ent /\ g.ent[o].obj_key = k
  BY <1>1 DEF RestLaws, LookupLaw
<1>3. g.ent[o].content \in Value \cup {Clobbered}
  BY <1>1, <1>2 DEF Listed, ObjEntry
<1> QED BY <1>2, <1>3 DEF StoreOK

--------------------------------------------------------------------------------
\* What a verb serves is what RADOS holds.
Serves == reply'.served # Absent => reply'.served = stored[reply'.key]

\* What a step of the executor does.
GoodStep ==
    /\ ExIInv'
    /\ ObjectsFit => freed_use' = freed_use
    /\ LongResult = {} /\ StoreOK(g_cache, stored) => StoreOK(g_cache', stored') /\ Serves

\* A verb that fails serves nothing.
LEMMA Failed == ASSUME Fails PROVE Serves /\ reply' \in [key : Key \cup {Absent}, served : Value \cup {Absent, Clobbered}]
  BY DEF Fails, NoReply, Serves

\* A verb that answers with the stored value serves it.
LEMMA Answered ==
    ASSUME NEW k \in Key, NEW v \in Value \cup {Clobbered}, Answer(k, v)
    PROVE  /\ reply' \in [key : Key \cup {Absent}, served : Value \cup {Absent, Clobbered}]
           /\ v = stored[k] => Serves
  BY DEF Answer, Serves

\* Exec on a hit.
LEMMA StepExecHit ==
    ASSUME RestLaws, ExIInv, NEW k \in Key, NEW m \in Module, ExecHit(k, m)
    PROVE  GoodStep
<1> PICK o : o = Hit(g_cache, k)
  OBVIOUS
<1>1. /\ Lookup(k) # {} /\ Answer(k, g_cache.ent[o].content)
      /\ stored' = stored /\ restarts' = restarts /\ freed_use' = freed_use
      /\ \E r \in RunOutcome : g_cache' = nkvx_obj_unref(
             nkvx_run_on_object_locked(Ref(g_cache, o), m, o, r), {Pin(o)})
  BY DEF ExecHit
<1>2. Rested(g_cache) /\ ExTyped
  BY DEF ExIInv
<1>3. /\ o \in DOMAIN g_cache.ent /\ g_cache.ent[o].content \in Value \cup {Clobbered}
      /\ StoreOK(g_cache, stored) => g_cache.ent[o].content = stored[k]
  BY <1>1, <1>2, HitIsStored, SMT DEF Lookup
<1>4. Rested(g_cache') /\ LeavesContent(g_cache, g_cache')
  BY <1>1, <1>2, <1>3 DEF RestLaws, PinnedRunLaw
<1>5. /\ reply' \in [key : Key \cup {Absent}, served : Value \cup {Absent, Clobbered}]
      /\ g_cache.ent[o].content = stored[k] => Serves
  BY <1>1, <1>3, Answered
<1>6. ExTyped'
  BY <1>1, <1>2, <1>5 DEF ExTyped
<1>7. LongResult = {} /\ StoreOK(g_cache, stored) => StoreOK(g_cache', stored)
  BY <1>4, LeftStore
<1>8. ExIInv'
  BY <1>4, <1>6 DEF ExIInv
<1> QED BY <1>1, <1>3, <1>5, <1>7, <1>8 DEF GoodStep

--------------------------------------------------------------------------------
\* A stored object has a content.
LEMMA StoredIsValue ==
    ASSUME ExTyped, NEW k \in Key, stored[k] # Absent
    PROVE  stored[k] \in Value
  BY DEF ExTyped

\* Exec on a miss.
LEMMA StepExecMiss ==
    ASSUME RestLaws, ExIInv, NEW k \in Key, NEW m \in Module, ExecMiss(k, m)
    PROVE  GoodStep
<1>1. /\ Lookup(k) = {} /\ stored[k] # Absent /\ stored' = stored /\ restarts' = restarts
  BY DEF ExecMiss
<1>2. Rested(g_cache) /\ ExTyped /\ stored[k] \in Value
  BY <1>1, StoredIsValue DEF ExIInv
<1>3. CASE Fails /\ g_cache' = g_cache /\ freed_use' = freed_use
  <2>1. ExIInv'
    BY <1>1, <1>2, <1>3, Failed DEF ExIInv, ExTyped
  <2> QED BY <1>1, <1>3, <2>1, Failed DEF GoodStep
<1>4. ASSUME NEW o \in FreshObj(g_cache), NEW g, g = ColdFill(g_cache, k, stored[k], o),
             Answer(k, stored[k]),
             IF o \in DOMAIN g.ent
             THEN /\ \E r \in RunOutcome : g_cache' = nkvx_run_on_object_locked(g, m, o, r)
                  /\ freed_use' = freed_use
             ELSE g_cache' = g /\ freed_use' = TRUE
      PROVE  GoodStep
  <2>1. o \in Obj /\ o \notin DOMAIN g_cache.ent /\ nkvx_obj_lookup(g_cache, k) = {}
    BY <1>1 DEF FreshObj, Lookup
  <2>2. /\ Rested(g) /\ FillKeeps(g_cache, g, k, stored[k], o)
        /\ ObjectsFit => o \in DOMAIN g.ent
    BY <1>2, <1>4, <2>1 DEF RestLaws, RestedFillLaw
  <2>3. Rested(g_cache') /\ LeavesContent(g, g_cache')
    <3>1. CASE o \in DOMAIN g.ent
      <4>1. PICK r \in RunOutcome : g_cache' = nkvx_run_on_object_locked(g, m, o, r)
        BY <1>4, <3>1
      <4>2. Rested(g_cache') /\ RunKeeps(g, g_cache', m)
        BY <2>2, <3>1, <4>1 DEF RestLaws, RestedRunLaw
      <4> QED BY <4>2, RunLeaves
    <3>2. CASE o \notin DOMAIN g.ent
      <4>1. g_cache' = g
        BY <1>4, <3>2
      <4> QED BY <2>2, <4>1 DEF LeavesContent
    <3> QED BY <3>1, <3>2
  <2>4. /\ reply' \in [key : Key \cup {Absent}, served : Value \cup {Absent, Clobbered}]
        /\ Serves
    BY <1>2, <1>4, Answered
  <2>5. freed_use' \in BOOLEAN /\ (ObjectsFit => freed_use' = freed_use)
    BY <1>2, <1>4, <2>2 DEF ExTyped
  <2>6. ExTyped'
    BY <1>1, <1>2, <2>4, <2>5 DEF ExTyped
  <2>7. ExIInv'
    BY <2>3, <2>6 DEF ExIInv
  <2>8. StoreOK(g_cache, stored) => StoreOK(g, stored)
    BY <2>2, FilledStore
  <2>9. LongResult = {} /\ StoreOK(g_cache, stored) => StoreOK(g_cache', stored)
    BY <2>3, <2>8, LeftStore
  <2> QED BY <1>1, <2>4, <2>5, <2>7, <2>9 DEF GoodStep
<1>5. \/ Fails /\ g_cache' = g_cache /\ freed_use' = freed_use
      \/ \E o \in FreshObj(g_cache) :
            /\ Answer(k, stored[k])
            /\ IF o \in DOMAIN ColdFill(g_cache, k, stored[k], o).ent
               THEN /\ \E r \in RunOutcome : g_cache'
                          = nkvx_run_on_object_locked(ColdFill(g_cache, k, stored[k], o), m, o, r)
                    /\ freed_use' = freed_use
               ELSE g_cache' = ColdFill(g_cache, k, stored[k], o) /\ freed_use' = TRUE
  BY DEF ExecMiss
<1> QED BY <1>3, <1>4, <1>5

\* Retrieve on a hit.
LEMMA StepRetrieveHit ==
    ASSUME RestLaws, ExIInv, NEW k \in Key, RetrieveHit(k)
    PROVE  GoodStep
<1> PICK o : o = Hit(g_cache, k)
  OBVIOUS
<1>1. /\ Lookup(k) # {} /\ Answer(k, g_cache.ent[o].content) /\ g_cache' = g_cache
      /\ stored' = stored /\ restarts' = restarts /\ freed_use' = freed_use
  BY DEF RetrieveHit
<1>2. Rested(g_cache) /\ ExTyped
  BY DEF ExIInv
<1>3. /\ g_cache.ent[o].content \in Value \cup {Clobbered}
      /\ StoreOK(g_cache, stored) => g_cache.ent[o].content = stored[k]
  BY <1>1, <1>2, HitIsStored, SMT DEF Lookup
<1>4. /\ reply' \in [key : Key \cup {Absent}, served : Value \cup {Absent, Clobbered}]
      /\ g_cache.ent[o].content = stored[k] => Serves
  BY <1>1, <1>3, Answered
<1>5. ExIInv'
  BY <1>1, <1>2, <1>4 DEF ExIInv, ExTyped
<1> QED BY <1>1, <1>3, <1>4, <1>5 DEF GoodStep

\* Retrieve on a miss.
LEMMA StepRetrieveMiss ==
    ASSUME RestLaws, ExIInv, NEW k \in Key, RetrieveMiss(k)
    PROVE  GoodStep
<1>1. /\ Lookup(k) = {} /\ stored[k] # Absent /\ stored' = stored /\ restarts' = restarts
      /\ freed_use' = freed_use
  BY DEF RetrieveMiss
<1>2. Rested(g_cache) /\ ExTyped /\ stored[k] \in Value
  BY <1>1, StoredIsValue DEF ExIInv
<1>3. CASE g_cache' = g_cache /\ (Fails \/ Answer(k, stored[k]))
  <2>1. /\ reply' \in [key : Key \cup {Absent}, served : Value \cup {Absent, Clobbered}]
        /\ Serves
    BY <1>2, <1>3, Failed, Answered
  <2>2. ExIInv'
    BY <1>1, <1>2, <1>3, <2>1 DEF ExIInv, ExTyped
  <2> QED BY <1>1, <1>3, <2>1, <2>2 DEF GoodStep
<1>4. ASSUME NEW o \in FreshObj(g_cache), NEW g, g = ColdFill(g_cache, k, stored[k], o),
             g_cache' = g,
             Answer(k, IF nkvx_obj_lookup(g, k) # {} THEN g.ent[Hit(g, k)].content ELSE stored[k])
      PROVE  GoodStep
  <2>1. o \in Obj /\ o \notin DOMAIN g_cache.ent /\ nkvx_obj_lookup(g_cache, k) = {}
    BY <1>1 DEF FreshObj, Lookup
  <2>2. Rested(g) /\ FillKeeps(g_cache, g, k, stored[k], o)
    BY <1>2, <1>4, <2>1 DEF RestLaws, RestedFillLaw
  <2>3. StoreOK(g_cache, stored) => StoreOK(g, stored)
    BY <2>2, FilledStore
  <2> PICK v : v = IF nkvx_obj_lookup(g, k) # {} THEN g.ent[Hit(g, k)].content ELSE stored[k]
    OBVIOUS
  <2>4. v \in Value \cup {Clobbered} /\ (StoreOK(g, stored) => v = stored[k])
    BY <1>2, <2>2, HitIsStored, SMT
  <2>5. /\ reply' \in [key : Key \cup {Absent}, served : Value \cup {Absent, Clobbered}]
        /\ v = stored[k] => Serves
    BY <1>4, <2>4, Answered
  <2>6. ExTyped'
    BY <1>1, <1>2, <2>5 DEF ExTyped
  <2>7. ExIInv'
    BY <1>4, <2>2, <2>6 DEF ExIInv
  <2> QED BY <1>1, <1>4, <2>3, <2>4, <2>5, <2>7 DEF GoodStep
<1>5. \/ g_cache' = g_cache /\ (Fails \/ Answer(k, stored[k]))
      \/ \E o \in FreshObj(g_cache) : \E g :
            /\ g = ColdFill(g_cache, k, stored[k], o) /\ g_cache' = g
            /\ Answer(k, IF nkvx_obj_lookup(g, k) # {} THEN g.ent[Hit(g, k)].content
                         ELSE stored[k])
  BY DEF RetrieveMiss
<1> QED BY <1>3, <1>4, <1>5

\* nkvx_store and nkvx_delete: the key's entries go before the object changes.
LEMMA StepMutate ==
    ASSUME RestLaws, ExIInv, NEW k \in Key, NEW v \in Value \cup {Absent},
           g_cache' = nkvx_cache_invalidate_locked(g_cache, k),
           stored' = stored \/ stored' = [stored EXCEPT ![k] = v],
           Fails, restarts' = restarts, freed_use' = freed_use
    PROVE  GoodStep
<1>1. Rested(g_cache) /\ ExTyped
  BY DEF ExIInv
<1>2. /\ Rested(g_cache') /\ LeavesContent(g_cache, g_cache')
      /\ \A o \in DOMAIN g_cache'.ent : g_cache'.ent[o].obj_key # k
  BY <1>1 DEF RestLaws, RestedInvalidateLaw
<1>3. stored \in [Key -> Value \cup {Absent}]
  BY <1>1 DEF ExTyped
<1>4. stored' \in [Key -> Value \cup {Absent}] /\ \A q \in Key : q # k => stored'[q] = stored[q]
  BY <1>3
<1>5. ExTyped'
  BY <1>1, <1>4, Failed DEF ExTyped
<1>6. ExIInv'
  BY <1>2, <1>5 DEF ExIInv
<1>7. ASSUME LongResult = {}, StoreOK(g_cache, stored) PROVE StoreOK(g_cache', stored')
  <2>1. StoreOK(g_cache', stored)
    BY <1>2, <1>7, LeftStore
  <2> QED BY <1>2, <1>4, <2>1 DEF StoreOK
<1> QED BY <1>6, <1>7, Failed DEF GoodStep

--------------------------------------------------------------------------------
\* A restart.
LEMMA StepRestart ==
    ASSUME RestLaws, ExIInv, Restart
    PROVE  GoodStep
<1>1. /\ g_cache' = EmptyCache /\ Fails /\ stored' = stored /\ freed_use' = freed_use
      /\ restarts < MaxRestarts /\ restarts' = restarts + 1
  BY DEF Restart
<1>2. Rested(g_cache') /\ DOMAIN g_cache'.ent = {}
  BY <1>1 DEF RestLaws, RestedEmptyLaw
<1>3. ExTyped
  BY DEF ExIInv
<1>4. restarts' \in 0..MaxRestarts
  BY <1>1, <1>3, ExecutorAssumption, SMT DEF ExTyped
<1>5. ExTyped'
  BY <1>1, <1>3, <1>4, Failed DEF ExTyped
<1>6. ExIInv'
  BY <1>2, <1>5 DEF ExIInv
<1> QED BY <1>1, <1>2, <1>6, Failed DEF GoodStep, StoreOK

\* A verb that is declined, or finds no object.
LEMMA StepAside ==
    ASSUME ExIInv, Declined \/ \E k \in Key : NotFound(k)
    PROVE  GoodStep
<1>1. /\ Fails /\ g_cache' = g_cache /\ stored' = stored /\ restarts' = restarts
      /\ freed_use' = freed_use
  BY DEF Declined, NotFound
<1>2. ExIInv'
  BY <1>1, Failed DEF ExIInv, ExTyped
<1> QED BY <1>1, <1>2, Failed DEF GoodStep

\* Every verb.
LEMMA StoreStep ==
    ASSUME RestLaws, ExIInv, ExNext
    PROVE  GoodStep
<1>1. ASSUME NEW k \in Key, NEW v \in Value, NEW flag, nkvx_store(k, v, flag)
      PROVE  GoodStep
  <2>1. /\ g_cache' = nkvx_cache_invalidate_locked(g_cache, k)
        /\ stored' = stored \/ stored' = [stored EXCEPT ![k] = v]
        /\ Fails /\ restarts' = restarts /\ freed_use' = freed_use
    BY <1>1 DEF nkvx_store
  <2> QED BY <2>1, StepMutate
<1>2. ASSUME NEW k \in Key, nkvx_delete(k)
      PROVE  GoodStep
  <2>1. /\ g_cache' = nkvx_cache_invalidate_locked(g_cache, k)
        /\ stored' = stored \/ stored' = [stored EXCEPT ![k] = Absent]
        /\ Fails /\ restarts' = restarts /\ freed_use' = freed_use
    BY <1>2 DEF nkvx_delete
  <2>2. Absent \in Value \cup {Absent}
    OBVIOUS
  <2> QED BY <2>1, <2>2, StepMutate
<1> QED BY <1>1, <1>2, StepExecHit, StepExecMiss, StepRetrieveHit, StepRetrieveMiss, StepRestart,
           StepAside DEF ExNext

\* The executor as it starts.
LEMMA StoreInit ==
    ASSUME RestLaws, ExInit
    PROVE  ExIInv /\ ~ freed_use /\ StoreOK(g_cache, stored)
<1>1. Rested(g_cache) /\ DOMAIN g_cache.ent = {}
  BY DEF ExInit, RestLaws, RestedEmptyLaw
<1>2. ExTyped
  <2>1. /\ stored = [k \in Key |-> Absent] /\ reply = NoReply /\ restarts = 0
        /\ freed_use = FALSE
    BY DEF ExInit
  <2>2. NoReply \in [key : Key \cup {Absent}, served : Value \cup {Absent, Clobbered}]
    BY DEF NoReply
  <2>3. stored \in [Key -> Value \cup {Absent}] /\ restarts \in 0..MaxRestarts
    BY <2>1, ExecutorAssumption, SMT
  <2> QED BY <2>1, <2>2, <2>3 DEF ExTyped
<1> QED BY <1>1, <1>2 DEF ExInit, ExIInv, StoreOK

\* The invariant of the executor is inductive.
LEMMA StoreStays ==
    ASSUME RestLaws
    PROVE  ExIInv /\ [ExNext]_exVars => ExIInv'
<1>1. ASSUME ExIInv, UNCHANGED exVars PROVE ExIInv'
  BY <1>1 DEF exVars, ExIInv, ExTyped
<1> QED BY <1>1, StoreStep DEF GoodStep

================================================================================
