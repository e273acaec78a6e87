------------------------------- MODULE KvHostShim -------------------------------
(************************************************************************************)
(* The in-process NVMe-KV host that plug-ins link against                           *)
(* (clients/nvme-kv/kv_shim/kv_host_shim.c): synchronous calls over an SPDK         *)
(* queue pair, each polled with a time-out.  Over vfio-user the driver does not     *)
(* abort an outstanding request when the queue pair is disconnected or              *)
(* reconnected, so requests that were given up stay outstanding, any number of      *)
(* them, and call back during a later call, or when the queue pair is freed.        *)
(*                                                                                  *)
(* Store, Retrieve, Exist and Delete have the same control and are one call         *)
(* here.  A request is named by the count of calls before it; a kv_op_ctx has an    *)
(* address, which malloc uses again once it is free.                                *)
(************************************************************************************)
EXTENDS Naturals, FiniteSets

CONSTANTS
    ShAddr,    \* addresses for a kv_op_ctx
    ShMaxOps   \* bound on the requests of an open shim

ASSUME ShAssumption == ShAddr \subseteq Nat /\ ShMaxOps \in Nat

VARIABLES
    shHost,   \* struct kv_host_shim: next_op_id, armed_op_id, done, last status, qpair_failed
    shCtx,    \* per address, the op_id in it; 0 is free
    shOut,    \* requests the driver owes a callback, each with its cb_arg
    shCall,   \* the call: its place, its request, and the request whose status it returned
    shHeld    \* what the shim holds: itself, the env, the controller, the queue pair

shVars == <<shHost, shCtx, shOut, shCall, shHeld>>

ShFresh == [next |-> 0, armed |-> 0, done |-> FALSE, last |-> 0, failed |-> FALSE]
ShIdle == [pc |-> "idle", req |-> 0, got |-> 0]

(************************************************************************************)
(* Types.                                                                           *)
(************************************************************************************)
ShTypeOK ==
    /\ shHost \in [next : 0..ShMaxOps, armed : 0..ShMaxOps, done : BOOLEAN,
                   last : 0..ShMaxOps, failed : BOOLEAN]
    /\ shCtx \in [ShAddr -> 0..ShMaxOps]
    /\ shOut \subseteq [req : 1..ShMaxOps, ctx : ShAddr]
    /\ shCall \in [pc : {"idle", "ready", "poll"}, req : 0..ShMaxOps, got : 0..ShMaxOps]
    /\ shHeld \subseteq {"shim", "env", "ctrlr", "qpair"}

ShInit ==
    /\ shHost = ShFresh /\ shCtx = [a \in ShAddr |-> 0] /\ shOut = {}
    /\ shCall = ShIdle /\ shHeld = {}

--------------------------------------------------------------------------------
\* What kv_host_shim_open has acquired when a step of it fails, and what its labels release.
Acquired(init_env, failing) ==
    {"shim"} \cup (IF init_env /\ failing # "env" THEN {"env"} ELSE {})
             \cup (IF failing \in {"ns", "qpair", "none"} THEN {"ctrlr"} ELSE {})
             \cup (IF failing = "none" THEN {"qpair"} ELSE {})
OpenUnwinds(failing) ==
    IF failing = "none" THEN {}
    ELSE {"shim"} \cup (IF failing # "env" THEN {"env"} ELSE {})
                  \cup (IF failing \in {"ns", "qpair"} THEN {"ctrlr"} ELSE {})

kv_host_shim_open(init_env, failing) ==
    /\ shHeld = {}
    /\ failing = "env" => init_env
    /\ shHeld' = Acquired(init_env, failing) \ OpenUnwinds(failing)
    /\ shHost' = ShFresh /\ shCall' = ShIdle
    /\ UNCHANGED <<shCtx, shOut>>

\* io_complete: recorded if the op_id found in the ctx is the armed one; the ctx is freed.
io_complete(host, op_id, r) ==
    IF op_id = host.armed THEN [host EXCEPT !.armed = 0, !.last = r.req, !.done = TRUE]
    ELSE host
CtxFreed(ctxs, requests) ==
    [a \in ShAddr |-> IF \E r \in requests : r.ctx = a THEN 0 ELSE ctxs[a]]

disarm_op(host) == [host EXCEPT !.armed = 0]

\* The queue pair is freed first: every request that is still owed its callback gets it.
kv_host_shim_close ==
    /\ "qpair" \in shHeld /\ shCall.pc = "idle"
    /\ shHeld' = {}
    /\ shCtx' = CtxFreed(shCtx, shOut)
    /\ shOut' = {}
    /\ shHost' = ShFresh /\ shCall' = ShIdle

\* The start of a call: reconnect after a failure, and drain what is ready with nothing
\* armed; or the target is still down.
ensure_connected(ready) ==
    /\ "qpair" \in shHeld /\ shCall.pc = "idle"
    /\ IF shHost.failed
       THEN \/ /\ shHost' = [disarm_op(shHost) EXCEPT !.failed = FALSE]
               /\ shCtx' = CtxFreed(shCtx, ready)
               /\ shOut' = shOut \ ready
               /\ shCall' = [ShIdle EXCEPT !.pc = "ready"]
            \/ /\ shCall' = ShIdle
               /\ UNCHANGED <<shHost, shCtx, shOut>>
       ELSE /\ ready = {}
            /\ shCall' = [ShIdle EXCEPT !.pc = "ready"]
            /\ UNCHANGED <<shHost, shCtx, shOut>>
    /\ UNCHANGED shHeld

\* arm_op: the address of the new ctx.
FreshCtx_Ring(a) == a = (shHost.next + 1) % Cardinality(ShAddr)
FreshCtx(a) == shCtx[a] = 0
arm_op(op_id) == [shHost EXCEPT !.next = op_id, !.done = FALSE, !.armed = op_id]

\* The request is queued, and polled from now on; or it is not, and the ctx is given back.
kv_host_shim_op(a, queued) ==
    LET op_id == shHost.next + 1
    IN  /\ shCall.pc = "ready" /\ shHost.next < ShMaxOps /\ FreshCtx(a)
        /\ IF queued
           THEN /\ shHost' = arm_op(op_id)
                /\ shCtx' = [shCtx EXCEPT ![a] = op_id]
                /\ shOut' = shOut \cup {[req |-> op_id, ctx |-> a]}
                /\ shCall' = [pc |-> "poll", req |-> op_id, got |-> 0]
           ELSE /\ shHost' = disarm_op(arm_op(op_id))
                /\ shCall' = ShIdle
                /\ UNCHANGED <<shCtx, shOut>>
        /\ UNCHANGED shHeld

\* No memory for a ctx: nothing is armed and the token is taken back.
kv_host_shim_op_NoMemory ==
    /\ shCall.pc = "ready"
    /\ shCall' = ShIdle
    /\ UNCHANGED <<shHost, shCtx, shOut, shHeld>>

\* A callback out of spdk_nvme_qpair_process_completions, of this request or of any other.
poll_to_completion_Callback(r) ==
    /\ shCall.pc = "poll" /\ r \in shOut
    /\ shHost' = io_complete(shHost, shCtx[r.ctx], r)
    /\ shCtx' = CtxFreed(shCtx, {r})
    /\ shOut' = shOut \ {r}
    /\ UNCHANGED <<shCall, shHeld>>

poll_to_completion_Done ==
    /\ shCall.pc = "poll" /\ shHost.done
    /\ shCall' = [pc |-> "idle", req |-> shCall.req, got |-> shHost.last]
    /\ UNCHANGED <<shHost, shCtx, shOut, shHeld>>

\* The queue pair failed, perhaps in the pass that completed the request, or the deadline
\* is over: disconnected, to be reconnected by the next call.  The disconnect calls back
\* what the driver had queued and not yet sent.
poll_to_completion_Fails_Frees(unsent) ==
    /\ shCall.pc = "poll"
    /\ shHost' = [disarm_op(shHost) EXCEPT !.failed = TRUE]
    /\ shCtx' = CtxFreed(shCtx, unsent \cup {r \in shOut : r.req = shCall.req})
    /\ shOut' = shOut \ unsent
    /\ shCall' = ShIdle
    /\ UNCHANGED shHeld
poll_to_completion_Fails(unsent) ==
    /\ shCall.pc = "poll"
    /\ shHost' = [disarm_op(shHost) EXCEPT !.failed = TRUE]
    /\ shCtx' = CtxFreed(shCtx, unsent)
    /\ shOut' = shOut \ unsent
    /\ shCall' = ShIdle
    /\ UNCHANGED shHeld

-----------------------------------------------------------------------------------
ShNext ==
    \/ \E init_env \in BOOLEAN, failing \in {"env", "probe", "ns", "qpair", "none"} :
          kv_host_shim_open(init_env, failing)
    \/ kv_host_shim_close
    \/ \E ready \in SUBSET shOut : ensure_connected(ready)
    \/ \E a \in ShAddr, queued \in BOOLEAN : kv_host_shim_op(a, queued)
    \/ kv_host_shim_op_NoMemory
    \/ \E r \in shOut : poll_to_completion_Callback(r)
    \/ poll_to_completion_Done
    \/ \E unsent \in SUBSET shOut : poll_to_completion_Fails(unsent)

ShSpec == ShInit /\ [][ShNext]_shVars

--------------------------------------------------------------------------------
(************************************************************************************)
(* "An orphan from op A can never be recorded as op B's result", with any number    *)
(* of orphans and with every address a freed ctx leaves behind used again: a call   *)
(* returns the status of its own request, and between calls nothing is armed        *)
(* that a late callback could match.                                                *)
(************************************************************************************)
ShOwnResult ==
    /\ shCall.got \in {0, shCall.req}
    /\ shCall.pc # "poll" => shHost.armed = 0

(************************************************************************************)
(* A kv_op_ctx is freed "exactly once": the allocated ones are those of the         *)
(* requests that are still owed a callback, one each, so that no callback reads a   *)
(* freed or recycled one and none is lost.                                          *)
(************************************************************************************)
ShContextsExact ==
    /\ {a \in ShAddr : shCtx[a] # 0} = {r.ctx : r \in shOut}
    /\ \A r \in shOut : shCtx[r.ctx] = r.req

(************************************************************************************)
(* A shim that is not open holds nothing, whichever step of the open failed, and    *)
(* is owed no callback: none can find it freed.                                     *)
(************************************************************************************)
ShClosedHoldsNothing == "qpair" \notin shHeld => shHeld = {} /\ shOut = {}

(************************************************************************************)
(* Memory is neither lost nor used after its free: contexts live exactly as long as *)
(* their requests, and a closed shim is owed nothing.                               *)
(************************************************************************************)
ShMemoryExact == ShTypeOK /\ ShContextsExact /\ ShClosedHoldsNothing

================================================================================
