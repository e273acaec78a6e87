------------------------------ MODULE EpochTicker ------------------------------
(********************************************************************************)
(* The wall-clock cap of a WebAssembly run                                      *)
(* (target/kvdev_rados_nkvx_wasm.c): a ticker thread, started with the first    *)
(* capped run, advances the epoch of the engine that is registered, and a run   *)
(* whose deadline passes traps.  One thread runs modules (the pool's worker,    *)
(* or the executor's progress thread), on a warm engine under g_cache.mutex or  *)
(* on a private engine without it; reactors invalidate objects meanwhile, which *)
(* deletes warm engines; the executor is closed and opened again.               *)
(********************************************************************************)
EXTENDS Naturals

CONSTANTS
    EpEngine,   \* addresses of engines, reused once freed
    EpNone,     \* NULL
    EpTicks     \* epoch_deadline_ticks of a capped run

ASSUME EpAssumption == EpNone \notin EpEngine /\ EpTicks \in Nat \ {0}

VARIABLES
    g_epoch,    \* started, stop and engine of the ticker
    epThreads,  \* ticker threads that have not returned
    epWarm,     \* engines of the warm entries
    epPrivate,  \* the engine of a plain run
    epRun,      \* the run: its place, engine, remaining ticks
    epStatus,   \* the status of the last run
    epClosing   \* the caller of epoch_stop

epVars == <<g_epoch, epThreads, epWarm, epPrivate, epRun, epStatus, epClosing>>

EpIdle == [at |-> "idle", engine |-> EpNone, capped |-> FALSE, left |-> 0, endless |-> FALSE]
EpLive == epWarm \cup epPrivate

(********************************************************************************)
(* Types of g_epoch, the engines and the run.                                   *)
(********************************************************************************)
EpTypeOK ==
    /\ g_epoch \in [started : BOOLEAN, stop : BOOLEAN, engine : EpEngine \cup {EpNone}]
    /\ epThreads \in 0..1
    /\ epWarm \in SUBSET EpEngine /\ epPrivate \in SUBSET EpEngine
    /\ epRun \in [at : {"idle", "ready", "call", "returned", "out"},
                  engine : EpEngine \cup {EpNone}, capped : BOOLEAN,
                  left : 0..EpTicks, endless : BOOLEAN]
    /\ epStatus \in {"SUCCESS", "BUFFER_TOO_SMALL", "FAILED", "ABORTED", "READ_ONLY"}
    /\ epClosing \in {"open", "joining"}

EpInit ==
    /\ g_epoch = [started |-> FALSE, stop |-> FALSE, engine |-> EpNone]
    /\ epThreads = 0
    /\ epWarm = {} /\ epPrivate = {}
    /\ epRun = EpIdle
    /\ epStatus = "SUCCESS"
    /\ epClosing = "open"

--------------------------------------------------------------------------------
(********************************************************************************)
(* The ticker.                                                                  *)
(********************************************************************************)
\* A tick; nothing is done while no engine is registered.
nkvx_wasm_epoch_thread_Tick ==
    /\ epThreads > 0 /\ ~g_epoch.stop
    /\ g_epoch.engine # EpNone
    /\ epRun.at = "call" /\ epRun.engine = g_epoch.engine /\ epRun.left > 0
    /\ epRun' = [epRun EXCEPT !.left = @ - 1]
    /\ UNCHANGED <<g_epoch, epThreads, epWarm, epPrivate, epStatus, epClosing>>

nkvx_wasm_epoch_thread_Exit ==
    /\ epThreads > 0 /\ g_epoch.stop
    /\ epThreads' = epThreads - 1
    /\ UNCHANGED <<g_epoch, epWarm, epPrivate, epRun, epStatus, epClosing>>

\* nkvx_wasm_epoch_register: start the thread once; its creation may fail.
nkvx_wasm_epoch_register(e) ==
    IF g_epoch.started
    THEN g_epoch' = [g_epoch EXCEPT !.engine = e] /\ UNCHANGED epThreads
    ELSE \E created \in BOOLEAN :
            /\ epThreads' = IF created THEN epThreads + 1 ELSE epThreads
            /\ g_epoch' = [started |-> created, stop |-> FALSE, engine |-> e]

Unregistered(e) == [g_epoch EXCEPT !.engine = IF @ = e THEN EpNone ELSE @]
nkvx_wasm_epoch_unregister(e) == g_epoch' = Unregistered(e)

--------------------------------------------------------------------------------
(********************************************************************************)
(* A run on a warm engine: nkvx_run_on_object_locked, from the lookup to the    *)
(* return with the mutex held.                                                  *)
(********************************************************************************)
Mutex == epRun.at # "idle" /\ epRun.engine \in epWarm

\* The warm engine found, or built; building may evict another, never this one.
WarmEngine(e) ==
    /\ epRun.at = "idle" /\ epClosing = "open" /\ e \notin epPrivate
    /\ \E evicted \in {{}} \cup {{w} : w \in epWarm \ {e}} :
          /\ e \in epWarm => evicted = {}
          /\ epWarm' = (epWarm \ evicted) \cup {e}
    /\ epRun' = [EpIdle EXCEPT !.at = "ready", !.engine = e]
    /\ UNCHANGED <<g_epoch, epThreads, epPrivate, epStatus, epClosing>>

\* Building it fails: nothing is cached, and nothing was evicted for it.
WarmBuildFails ==
    /\ epRun.at = "idle" /\ epClosing = "open"
    /\ epStatus' = "FAILED"
    /\ UNCHANGED <<g_epoch, epThreads, epWarm, epPrivate, epRun, epClosing>>

\* Store, instance, memory, entry point or fuel fail, or the module declares that it
\* writes and the namespace is read-only: out, before anything is armed.
WarmRefused ==
    /\ epRun.at = "ready" /\ epRun.engine \in epWarm
    /\ epStatus' \in {"FAILED", "READ_ONLY"}
    /\ epRun' = EpIdle
    /\ UNCHANGED <<g_epoch, epThreads, epWarm, epPrivate, epClosing>>

\* nkvx_wasm_caps_load: the binding's tier, or the environment, which may turn the
\* epoch cap off; then the deadline is never reached and the ticker not armed.
WarmCall(capped, endless) ==
    /\ epRun.at = "ready" /\ epRun.engine \in epWarm
    /\ epRun' = [epRun EXCEPT !.at = "call", !.capped = capped, !.endless = endless,
                              !.left = IF capped THEN EpTicks ELSE 0]
    /\ IF capped THEN nkvx_wasm_epoch_register(epRun.engine)
       ELSE UNCHANGED <<g_epoch, epThreads>>
    /\ UNCHANGED <<epWarm, epPrivate, epStatus, epClosing>>

\* The call comes back: the module returns or faults, the deadline has passed, or the
\* fuel is spent, which an endless module may never do.
Return(status) ==
    /\ epRun.at = "call"
    /\ epStatus' = status
    /\ epRun' = [epRun EXCEPT !.at = "returned"]
    /\ UNCHANGED <<g_epoch, epThreads, epWarm, epPrivate, epClosing>>
ModuleReturns ==
    ~epRun.endless /\ \E status \in {"SUCCESS", "BUFFER_TOO_SMALL", "FAILED"} : Return(status)
FuelTrap == Return("ABORTED")
EpochTrap == epRun.capped /\ epRun.left = 0 /\ Return("ABORTED")

\* Disarm, delete the store, drop the mutex.
WarmOut ==
    /\ epRun.at = "returned" /\ epRun.engine \in epWarm
    /\ IF epRun.capped THEN nkvx_wasm_epoch_unregister(epRun.engine) ELSE UNCHANGED g_epoch
    /\ epRun' = EpIdle
    /\ UNCHANGED <<epThreads, epWarm, epPrivate, epStatus, epClosing>>

--------------------------------------------------------------------------------
(********************************************************************************)
(* kvdev_rados_nkvx_wasm_run, the run on a private engine.  It arms before the  *)
(* module is built, and every exit passes by `out'.                             *)
(********************************************************************************)
PlainArm(e, capped) ==
    /\ epRun.at = "idle" /\ epClosing = "open" /\ e \notin epWarm
    /\ epPrivate' = {e}
    /\ epRun' = [EpIdle EXCEPT !.at = "ready", !.engine = e, !.capped = capped]
    /\ IF capped THEN nkvx_wasm_epoch_register(e) ELSE UNCHANGED <<g_epoch, epThreads>>
    /\ UNCHANGED <<epWarm, epStatus, epClosing>>

\* No store, module, instance, memory, entry point, room for the object, or fuel.
PlainRefused ==
    /\ epRun.at = "ready" /\ epRun.engine \in epPrivate
    /\ epStatus' = "FAILED"
    /\ epRun' = [epRun EXCEPT !.at = "returned"]
    /\ UNCHANGED <<g_epoch, epThreads, epWarm, epPrivate, epClosing>>

PlainCall(endless) ==
    /\ epRun.at = "ready" /\ epRun.engine \in epPrivate
    /\ epRun' = [epRun EXCEPT !.at = "call", !.endless = endless,
                              !.left = IF epRun.capped THEN EpTicks ELSE 0]
    /\ UNCHANGED <<g_epoch, epThreads, epWarm, epPrivate, epStatus, epClosing>>

\* out: disarm, and only then delete the engine.
PlainDisarm_Swapped ==
    /\ epRun.at = "returned" /\ epRun.engine \in epPrivate
    /\ epPrivate' = {}
    /\ epRun' = [epRun EXCEPT !.at = "out"]
    /\ UNCHANGED <<g_epoch, epThreads, epWarm, epStatus, epClosing>>
PlainDisarm ==
    /\ epRun.at = "returned" /\ epRun.engine \in epPrivate
    /\ IF epRun.capped THEN nkvx_wasm_epoch_unregister(epRun.engine) ELSE UNCHANGED g_epoch
    /\ epRun' = [epRun EXCEPT !.at = "out"]
    /\ UNCHANGED <<epThreads, epWarm, epPrivate, epStatus, epClosing>>

PlainDelete ==
    /\ epRun.at = "out"
    /\ epPrivate' = {}
    /\ epRun' = EpIdle
    /\ UNCHANGED <<g_epoch, epThreads, epWarm, epStatus, epClosing>>

--------------------------------------------------------------------------------
\* A Store or Delete invalidates an object: its warm engines go, under the mutex.
WarmDestroyed(e) ==
    /\ ~Mutex /\ e \in epWarm
    /\ epWarm' = epWarm \ {e}
    /\ UNCHANGED <<g_epoch, epThreads, epPrivate, epRun, epStatus, epClosing>>

\* nkvx_executor_close once nothing runs: drop the caches, engines included, then stop
\* the ticker and join it.
nkvx_executor_close ==
    /\ epRun.at = "idle" /\ epClosing = "open"
    /\ epWarm' = {}
    /\ IF g_epoch.started
       THEN /\ g_epoch' = [g_epoch EXCEPT !.engine = EpNone, !.stop = TRUE]
            /\ epClosing' = "joining"
       ELSE UNCHANGED <<g_epoch, epClosing>>
    /\ UNCHANGED <<epThreads, epPrivate, epRun, epStatus>>

nkvx_wasm_epoch_stop_Joined_Stays ==
    /\ epClosing = "joining" /\ epThreads = 0
    /\ g_epoch' = [g_epoch EXCEPT !.stop = FALSE]
    /\ epClosing' = "open"
    /\ UNCHANGED <<epThreads, epWarm, epPrivate, epRun, epStatus>>
nkvx_wasm_epoch_stop_Joined ==
    /\ epClosing = "joining" /\ epThreads = 0
    /\ g_epoch' = [g_epoch EXCEPT !.started = FALSE, !.stop = FALSE]
    /\ epClosing' = "open"
    /\ UNCHANGED <<epThreads, epWarm, epPrivate, epRun, epStatus>>

Ticker == nkvx_wasm_epoch_thread_Tick \/ nkvx_wasm_epoch_thread_Exit

EpNext ==
    \/ Ticker
    \/ \E e \in EpEngine :
          WarmEngine(e) \/ WarmDestroyed(e) \/ \E capped \in BOOLEAN : PlainArm(e, capped)
    \/ WarmBuildFails \/ WarmRefused
    \/ \E capped, endless \in BOOLEAN : WarmCall(capped, endless)
    \/ ModuleReturns \/ EpochTrap \/ FuelTrap
    \/ WarmOut
    \/ PlainRefused \/ (\E endless \in BOOLEAN : PlainCall(endless)) \/ PlainDisarm \/ PlainDelete
    \/ nkvx_executor_close \/ nkvx_wasm_epoch_stop_Joined

EpSpec == EpInit /\ [][EpNext]_epVars

--------------------------------------------------------------------------------
(********************************************************************************)
(* The ticker never advances a freed engine: whatever is registered when it     *)
(* takes g_epoch.mutex is an engine that exists ("can never let us touch a      *)
(* torn-down engine").                                                          *)
(********************************************************************************)
EpTicksLiveEngine == g_epoch.engine # EpNone => g_epoch.engine \in EpLive

(********************************************************************************)
(* "No leaked thread on restart, no double-start": `started' counts the ticker  *)
(* threads exactly, except between a stop and its join.                         *)
(********************************************************************************)
EpOneTicker ==
    /\ epThreads <= 1
    /\ epClosing = "open" => epThreads = (IF g_epoch.started THEN 1 ELSE 0)

(********************************************************************************)
(* A capped run ends, even one that never returns and burns no fuel, through    *)
(* any number of runs, closes and restarts of the ticker; the exception the     *)
(* code logs is a ticker thread that could not be created for this run.         *)
(********************************************************************************)
EpRunawayEnds ==
    (epRun.at = "call" /\ epRun.capped /\ g_epoch.started) ~> (epRun.at # "call")

================================================================================
