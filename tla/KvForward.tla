------------------------------- MODULE KvForward -------------------------------
(*************************************************************************************)
(* The base KV verbs across the two tiers: kvrados_handle_kv_io of the bdev          *)
(* (target/bdev_kvrados.c), the bridge (target/kvdev_rados_nkvx_front.c),            *)
(* nkvx_front_kv_forward of the front client, and nkvx_kv_handler with its           *)
(* value PULL and result PUSH in the executor (rados-nkvx/nkvx_service.c).           *)
(* Unlike an Exec, a KV call is on no in-flight list: nothing cancels it,            *)
(* and a channel destroy does not wait for it.                                       *)
(*                                                                                   *)
(* One key.  A value is named by the io that stores it; of a length the model        *)
(* keeps whether it exceeds NKVX_INLINE_MAX ("large").                               *)
(*************************************************************************************)
EXTENDS Naturals

CONSTANTS
    KvIo,     \* bdev ios of one channel, reused once reaped
    KvAbsent  \* the key has no value

ASSUME KvAssumption == KvIo \cap {KvAbsent, "garbage", "listing"} = {}

VARIABLES
    kvDisk,   \* read_only, and whether the executor has a cluster (g_executor)
    kvFront,  \* kch->front is set and polled
    kvIo,     \* per io: its state, verb, length and completion
    kvHeld,   \* per io: what the front tier has allocated for it
    kvBuf,    \* per io: what the tenant's buffer holds
    kvReq,    \* per io: its request in the executor
    kvFault,  \* per io: the transport or the executor failed under it
    kvStore   \* the stored value

kvVars == <<kvDisk, kvFront, kvIo, kvHeld, kvBuf, kvReq, kvFault, kvStore>>

Verb == {"retrieve", "store", "delete", "exist", "list"}
Mutating == {"store", "delete"}
Length == {"small", "large"}
KvValue == [by : KvIo \cup {"garbage", "listing"}, len : Length]
Resource == {"bounce", "kctx", "fwd_ctx", "call", "value_bulk", "sink_bulk", "handle"}
NvmeStatus == {"SUCCESS", "KEY_DOES_NOT_EXIST", "CAPACITY_EXCEEDED", "INVALID_FIELD",
               "INVALID_OPCODE", "INTERNAL_DEVICE_ERROR", "WRITE_TO_RO_RANGE"}
KvStatus == {"SUCCESS", "KEY_NOT_EXIST", "BUFFER_TOO_SMALL", "INVALID",
             "NOT_SUPPORTED", "NOMEM", "FAILED", "READ_ONLY"}

\* What a buffer or a response carries: a stored value, all or the start of it.
KvData == [value : KvValue, part : {"nothing", "whole", "prefix", "torn"}]
KvNothing == [value |-> [by |-> "garbage", len |-> "small"], part |-> "nothing"]

KvIdle == [state |-> "idle", verb |-> "list", len |-> "small", cqe |-> "SUCCESS"]
KvNoReq == [state |-> "none", status |-> "SUCCESS", data |-> KvNothing]

(*************************************************************************************)
(* Types of the ios, their resources (struct kvrados_kv_io_ctx, struct               *)
(* nkvx_kv_call) and the executor's requests (struct nkvx_kv_req).                   *)
(*************************************************************************************)
KvTypeOK ==
    /\ kvDisk \in [read_only : BOOLEAN, cluster : BOOLEAN]
    /\ kvFront \in BOOLEAN
    /\ kvIo \in [KvIo -> [state : {"idle", "flight", "done", "stranded"},
                          verb : Verb, len : Length, cqe : NvmeStatus]]
    /\ kvHeld \in [KvIo -> SUBSET Resource]
    /\ kvBuf \in [KvIo -> KvData]
    /\ kvReq \in [KvIo -> [state : {"none", "sent", "pull", "push", "answered", "dead"},
                           status : KvStatus, data : KvData]]
    /\ kvFault \in [KvIo -> BOOLEAN]
    /\ kvStore \in KvValue \cup {KvAbsent}

KvInit ==
    /\ kvDisk \in [read_only : BOOLEAN, cluster : BOOLEAN]
    /\ kvFront = FALSE
    /\ kvIo = [c \in KvIo |-> KvIdle]
    /\ kvHeld = [c \in KvIo |-> {}]
    /\ kvBuf = [c \in KvIo |-> KvNothing]
    /\ kvReq = [c \in KvIo |-> KvNoReq]
    /\ kvFault = [c \in KvIo |-> FALSE]
    /\ kvStore \in {KvAbsent} \cup [by : KvIo, len : Length]

--------------------------------------------------------------------------------
(*************************************************************************************)
(* The bdev: submission and completion.                                              *)
(*************************************************************************************)
kvrados_kvdev_status_to_nvme(status) ==
    CASE status = "SUCCESS" -> "SUCCESS"
      [] status = "KEY_NOT_EXIST" -> "KEY_DOES_NOT_EXIST"
      [] status = "BUFFER_TOO_SMALL" -> "CAPACITY_EXCEEDED"
      [] status = "INVALID" -> "INVALID_FIELD"
      [] status = "NOT_SUPPORTED" -> "INVALID_OPCODE"
      [] status = "READ_ONLY" -> "WRITE_TO_RO_RANGE"
      [] OTHER -> "INTERNAL_DEVICE_ERROR"

\* spdk_bdev_io_complete_nvme_status
KvComplete(c, cqe) ==
    kvIo' = [kvIo EXCEPT ![c] = [kvIo[c] EXCEPT !.state = "done", !.cqe = cqe]]

\* What stands between a verb and its forward, in the order of the handler: the
\* read-only gate, the key header (LIST takes a missing one as "from the first key"),
\* the executor endpoint.
Rejection(verb, keyed) ==
    IF kvDisk.read_only /\ verb \in Mutating THEN "WRITE_TO_RO_RANGE"
    ELSE IF ~keyed /\ verb # "list" THEN "INVALID_FIELD"
    ELSE IF ~kvFront THEN "INTERNAL_DEVICE_ERROR"
    ELSE "SUCCESS"

kvrados_handle_kv_io_Rejects(c, verb, len, keyed) ==
    /\ kvIo[c].state = "idle"
    /\ Rejection(verb, keyed) # "SUCCESS"
    /\ kvIo' = [kvIo EXCEPT ![c] = [state |-> "done", verb |-> verb, len |-> len,
                                    cqe |-> Rejection(verb, keyed)]]
    /\ UNCHANGED <<kvDisk, kvFront, kvHeld, kvBuf, kvReq, kvFault, kvStore>>

\* A Store's value is gathered into a bounce unless it is small and contiguous.
StoreNeeds(len, scattered) ==
    (IF len = "large" \/ scattered THEN {"bounce"} ELSE {})
    \cup (IF len = "large" THEN {"value_bulk"} ELSE {})
RetrieveNeeds(len) == IF len = "large" THEN {"sink_bulk"} ELSE {}
ListNeeds(len) == IF len = "large" THEN {"sink_bulk"} ELSE {}
DeleteExistNeeds == {}

Needs(verb, len, scattered) ==
    {"kctx", "fwd_ctx", "call", "handle"} \cup
    CASE verb = "store" -> StoreNeeds(len, scattered)
      [] verb = "retrieve" -> RetrieveNeeds(len)
      [] verb = "list" -> ListNeeds(len)
      [] OTHER -> DeleteExistNeeds

\* The order in which the three layers acquire them.
Rank(r) == CASE r = "bounce" -> 1 [] r = "kctx" -> 2 [] r = "fwd_ctx" -> 3
             [] r = "call" -> 4 [] r = "value_bulk" -> 5 [] r = "sink_bulk" -> 6
             [] r = "handle" -> 7 [] r = "forward" -> 8

Before(needs, step) == {r \in needs : Rank(r) < Rank(step)}

\* What each layer releases when `step' fails: nkvx_front_kv_forward for its own
\* steps, the bridge and the bdev whenever the layer below returns an error.
ReleasedByFront_Leaky(step) ==
    CASE step \in {"call", "value_bulk"} -> {"call"} \ {step}
      [] step = "sink_bulk" -> {"call", "value_bulk"}
      [] step = "handle" -> {"call", "sink_bulk"}
      [] step = "forward" -> {"call", "value_bulk", "sink_bulk", "handle"}
      [] OTHER -> {}
ReleasedByFront(step) ==
    CASE step \in {"call", "value_bulk"} -> {"call"} \ {step}
      [] step = "sink_bulk" -> {"call", "value_bulk"}
      [] step = "handle" -> {"call", "value_bulk", "sink_bulk"}
      [] step = "forward" -> {"call", "value_bulk", "sink_bulk", "handle"}
      [] OTHER -> {}
ReleasedByBridge(step) == IF Rank(step) > Rank("fwd_ctx") THEN {"fwd_ctx"} ELSE {}
ReleasedByBdev(step) ==
    (IF Rank(step) > Rank("kctx") THEN {"kctx"} ELSE {})
    \cup (IF Rank(step) >= Rank("kctx") THEN {"bounce"} ELSE {})

\* A step of the forward fails: all three layers unwind, and the bdev completes the io.
ForwardFails(c, verb, len, scattered, step) ==
    LET needs == Needs(verb, len, scattered)
    IN  /\ kvIo[c].state = "idle"
        /\ Rejection(verb, TRUE) = "SUCCESS"
        /\ step \in needs \cup {"forward"}
        /\ kvIo' = [kvIo EXCEPT ![c] = [state |-> "done", verb |-> verb, len |-> len,
                                        cqe |-> "INTERNAL_DEVICE_ERROR"]]
        /\ kvHeld' = [kvHeld EXCEPT ![c] = Before(needs, step) \
                        (ReleasedByFront(step) \cup ReleasedByBridge(step)
                         \cup ReleasedByBdev(step))]
        /\ UNCHANGED <<kvDisk, kvFront, kvBuf, kvReq, kvFault, kvStore>>

\* HG_Forward accepts the request.
nkvx_front_kv_forward(c, verb, len, scattered) ==
    /\ kvIo[c].state = "idle"
    /\ Rejection(verb, TRUE) = "SUCCESS"
    /\ kvIo' = [kvIo EXCEPT ![c] = [state |-> "flight", verb |-> verb, len |-> len,
                                    cqe |-> "SUCCESS"]]
    /\ kvHeld' = [kvHeld EXCEPT ![c] = Needs(verb, len, scattered)]
    /\ kvReq' = [kvReq EXCEPT ![c] = [KvNoReq EXCEPT !.state = "sent"]]
    /\ UNCHANGED <<kvDisk, kvFront, kvBuf, kvFault, kvStore>>

\* kvdev_rados_nkvx_front_done: an inline result is copied into the tenant's buffer.
CopyInline(c) ==
    IF kvReq[c].data.part # "nothing" /\ kvIo[c].verb \in {"retrieve", "list"}
    THEN kvReq[c].data ELSE kvBuf[c]

\* What the completion leaves: kvrados_retrieve_done frees kctx and bounce, the bridge its
\* context, and nkvx_kv_forward_cb both bulks, the handle and the call.
HeldAfterDone(c) ==
    kvHeld[c] \ {"kctx", "bounce", "fwd_ctx", "value_bulk", "sink_bulk", "handle", "call"}

nkvx_kv_forward_cb(c) ==
    /\ kvFront
    /\ kvIo[c].state = "flight"
    /\ kvHeld' = [kvHeld EXCEPT ![c] = HeldAfterDone(c)]
    /\ \/ /\ kvReq[c].state = "answered"
          /\ KvComplete(c, kvrados_kvdev_status_to_nvme(kvReq[c].status))
          /\ kvBuf' = [kvBuf EXCEPT ![c] = CopyInline(c)]
          /\ UNCHANGED kvFault
       \/ \* a transport error, or a response that does not decode
          /\ KvComplete(c, kvrados_kvdev_status_to_nvme("FAILED"))
          /\ kvFault' = [kvFault EXCEPT ![c] = TRUE]
          /\ UNCHANGED kvBuf
    /\ UNCHANGED <<kvDisk, kvFront, kvReq, kvStore>>

\* The tenant reads its completion and uses the io again.
Reap(c) ==
    /\ kvIo[c].state = "done"
    /\ kvReq[c].state \in {"none", "answered", "dead"}
    /\ kvIo' = [kvIo EXCEPT ![c] = KvIdle]
    /\ kvBuf' = [kvBuf EXCEPT ![c] = KvNothing]
    /\ kvReq' = [kvReq EXCEPT ![c] = KvNoReq]
    /\ kvFault' = [kvFault EXCEPT ![c] = FALSE]
    /\ UNCHANGED <<kvDisk, kvFront, kvHeld, kvStore>>

kvrados_create_channel_cb ==
    /\ ~kvFront
    /\ kvFront' = TRUE
    /\ UNCHANGED <<kvDisk, kvIo, kvHeld, kvBuf, kvReq, kvFault, kvStore>>

\* No Exec is outstanding, so the drain ends at once and the front goes away with
\* whatever KV calls are in flight: nobody will complete them.
kvrados_destroy_channel ==
    /\ kvFront
    /\ kvFront' = FALSE
    /\ kvIo' = [c \in KvIo |-> IF kvIo[c].state = "flight"
                               THEN [kvIo[c] EXCEPT !.state = "stranded"] ELSE kvIo[c]]
    /\ UNCHANGED <<kvDisk, kvHeld, kvBuf, kvReq, kvFault, kvStore>>

--------------------------------------------------------------------------------
(*************************************************************************************)
(* The executor.                                                                     *)
(*************************************************************************************)
\* nkvx_kv_req_finish: HG_Respond may fail, which is only logged.
nkvx_kv_req_finish(c, status, data) ==
    \E sent \in BOOLEAN :
        /\ kvReq' = [kvReq EXCEPT ![c] = [state |-> IF sent THEN "answered" ELSE "dead",
                                         status |-> status, data |-> data]]
        /\ kvFault' = [kvFault EXCEPT ![c] = @ \/ ~sent]

nkvx_kv_req_fail(c, status) ==
    nkvx_kv_req_finish(c, status, KvNothing) /\ UNCHANGED kvBuf

\* Whether a value of length v fits a buffer of length b.
Parts(v, b) == CASE v = "small" /\ b = "large" -> {"whole"}
                 [] v = "large" /\ b = "small" -> {"prefix"}
                 [] OTHER -> {"whole", "prefix"}

\* nkvx_executor_kv: every outcome of a verb, as status, body and stored value.  The
\* verbs themselves are ExecutorStore's.
Outcomes(c, value) ==
    LET verb == kvIo[c].verb
        Body(v) == {[status |-> IF p = "whole" THEN "SUCCESS" ELSE "BUFFER_TOO_SMALL",
                     data |-> [value |-> v, part |-> p], store |-> kvStore] :
                        p \in Parts(v.len, kvIo[c].len)}
        Plain(status, store) == [status |-> status, data |-> KvNothing, store |-> store]
    IN  IF kvDisk.read_only /\ verb \in Mutating THEN {Plain("READ_ONLY", kvStore)} ELSE
        CASE verb = "list" ->
                (UNION {Body([by |-> "listing", len |-> n]) : n \in Length})
                \cup {Plain("FAILED", kvStore)}
          [] verb = "store" -> {Plain("SUCCESS", value)}
                               \cup {Plain("FAILED", s) : s \in {kvStore, value}}
          [] verb = "delete" ->
                {Plain("FAILED", s) : s \in {kvStore, KvAbsent}}
                \cup {Plain(IF kvStore = KvAbsent THEN "KEY_NOT_EXIST" ELSE "SUCCESS", KvAbsent)}
          [] OTHER ->
                {Plain("FAILED", kvStore)} \cup
                IF kvStore = KvAbsent THEN {Plain("KEY_NOT_EXIST", kvStore)}
                ELSE IF verb = "exist" THEN {Plain("SUCCESS", kvStore)} ELSE Body(kvStore)

\* More than NKVX_INLINE_MAX bytes are to be delivered.
BigResult(c, data) ==
    data.part # "nothing" /\ data.value.len = "large" /\ kvIo[c].len = "large"

\* A big result is PUSHed into the sink and answered when the PUSH ends; without a sink
\* it is declined; any other is answered inline.
nkvx_kv_run_and_deliver_Early(c, value) ==
    \E o \in Outcomes(c, value) :
        /\ kvStore' = o.store
        /\ nkvx_kv_req_finish(c, o.status, IF BigResult(c, o.data) THEN KvNothing ELSE o.data)
        /\ kvBuf' = [kvBuf EXCEPT ![c] =
                IF BigResult(c, o.data) THEN [o.data EXCEPT !.part = "torn"] ELSE kvBuf[c]]
nkvx_kv_run_and_deliver(c, value) ==
    \E o \in Outcomes(c, value) :
        /\ kvStore' = o.store
        /\ IF ~BigResult(c, o.data)
           THEN nkvx_kv_req_finish(c, o.status, o.data) /\ UNCHANGED kvBuf
           ELSE \/ /\ "sink_bulk" \in Needs(kvIo[c].verb, kvIo[c].len, FALSE)
                   /\ kvReq' = [kvReq EXCEPT ![c] = [state |-> "push", status |-> o.status,
                                                    data |-> o.data]]
                   /\ kvBuf' = [kvBuf EXCEPT ![c] = [o.data EXCEPT !.part = "torn"]]
                   /\ UNCHANGED kvFault
                \/ nkvx_kv_req_fail(c, IF "sink_bulk" \in Needs(kvIo[c].verb, kvIo[c].len, FALSE)
                                       THEN "FAILED" ELSE "NOT_SUPPORTED")

\* nkvx_kv_submit_value_pull: no buffer, or HG_Bulk_create or HG_Bulk_transfer refused.
nkvx_kv_submit_value_pull(c) ==
    \/ nkvx_kv_req_fail(c, "NOMEM")
    \/ nkvx_kv_req_fail(c, "FAILED")
    \/ /\ kvReq' = [kvReq EXCEPT ![c] = [kvReq[c] EXCEPT !.state = "pull"]]
       /\ UNCHANGED <<kvBuf, kvFault>>

\* nkvx_kv_handler; out of memory or an undecodable request is never answered.
nkvx_kv_handler(c) ==
    /\ kvReq[c].state = "sent"
    /\ \/ /\ kvReq' = [kvReq EXCEPT ![c] = [kvReq[c] EXCEPT !.state = "dead"]]
          /\ kvFault' = [kvFault EXCEPT ![c] = TRUE]
          /\ UNCHANGED <<kvBuf, kvStore>>
       \/ /\ ~kvDisk.cluster
          /\ nkvx_kv_req_fail(c, "NOT_SUPPORTED")
          /\ UNCHANGED kvStore
       \/ /\ kvDisk.cluster
          /\ IF kvIo[c].verb = "store" /\ kvIo[c].len = "large"
             THEN UNCHANGED kvStore /\ nkvx_kv_submit_value_pull(c)
             ELSE nkvx_kv_run_and_deliver(c, [by |-> c, len |-> kvIo[c].len])
    /\ UNCHANGED <<kvDisk, kvFront, kvIo, kvHeld>>

\* nkvx_kv_value_pulled_cb.  A source released meanwhile yields an error or anything.
nkvx_kv_value_pulled_cb(c) ==
    /\ kvReq[c].state = "pull"
    /\ \/ nkvx_kv_req_fail(c, "FAILED") /\ UNCHANGED kvStore
       \/ LET intact == {"bounce", "value_bulk"} \subseteq kvHeld[c]
          IN  nkvx_kv_run_and_deliver(c, [by |-> IF intact THEN c ELSE "garbage",
                                          len |-> "large"])
    /\ UNCHANGED <<kvDisk, kvFront, kvIo, kvHeld>>

nkvx_kv_result_pushed_cb_Silent(c) ==
    /\ kvReq[c].state = "push"
    /\ \/ /\ kvReq' = [kvReq EXCEPT ![c] = [kvReq[c] EXCEPT !.state = "dead"]]
          /\ UNCHANGED <<kvBuf, kvFault>>
       \/ /\ nkvx_kv_req_finish(c, kvReq[c].status, KvNothing)
          /\ kvBuf' = [kvBuf EXCEPT ![c] = kvReq[c].data]
    /\ UNCHANGED <<kvDisk, kvFront, kvIo, kvHeld, kvStore>>
nkvx_kv_result_pushed_cb(c) ==
    /\ kvReq[c].state = "push"
    /\ \/ nkvx_kv_req_fail(c, "FAILED")
       \/ /\ nkvx_kv_req_finish(c, kvReq[c].status, KvNothing)
          /\ kvBuf' = [kvBuf EXCEPT ![c] = kvReq[c].data]
    /\ UNCHANGED <<kvDisk, kvFront, kvIo, kvHeld, kvStore>>

--------------------------------------------------------------------------------
KvTenant ==
    \/ kvrados_create_channel_cb
    \/ kvrados_destroy_channel
    \/ \E c \in KvIo : Reap(c)
    \/ \E c \in KvIo, verb \in Verb, len \in Length :
          \/ \E keyed \in BOOLEAN : kvrados_handle_kv_io_Rejects(c, verb, len, keyed)
          \/ \E scattered \in BOOLEAN :
                \/ nkvx_front_kv_forward(c, verb, len, scattered)
                \/ \E step \in Resource \cup {"forward"} :
                      ForwardFails(c, verb, len, scattered, step)

KvExecutor(c) ==
    nkvx_kv_handler(c) \/ nkvx_kv_value_pulled_cb(c) \/ nkvx_kv_result_pushed_cb(c)

KvNext == KvTenant \/ \E c \in KvIo : KvExecutor(c) \/ nkvx_kv_forward_cb(c)

KvSpec == KvInit /\ [][KvNext]_kvVars

--------------------------------------------------------------------------------
(*************************************************************************************)
(* A bulk transfer in flight has its memory: the source of a PULL is held and        *)
(* registered (the bounce "MUST outlive the forward"), and the sink of a PUSH        *)
(* is registered and its io not completed, unless the transport reported the         *)
(* call as failed.  A KV call has no cancel handshake to rely on.                    *)
(*************************************************************************************)
KvTransferCovered ==
    \A c \in KvIo : kvFault[c] \/
        /\ kvReq[c].state = "pull" => {"bounce", "value_bulk"} \subseteq kvHeld[c]
        /\ kvReq[c].state = "push" => /\ "sink_bulk" \in kvHeld[c]
                                      /\ kvIo[c].state # "done"

(*************************************************************************************)
(* A tenant never reads a partly written buffer as a result: when a Retrieve or      *)
(* a List completes with success, the buffer holds all of a value, and with          *)
(* CAPACITY_EXCEEDED the start of one (the response follows the PUSH).               *)
(*************************************************************************************)
KvSuccessIsWhole ==
    \A c \in KvIo :
        (kvIo[c].state = "done" /\ kvIo[c].verb \in {"retrieve", "list"}) =>
            /\ kvIo[c].cqe = "SUCCESS" => kvBuf[c].part = "whole"
            /\ kvIo[c].cqe = "CAPACITY_EXCEEDED" => kvBuf[c].part = "prefix"

(*************************************************************************************)
(* Whatever step of the three layers fails, a completed io has left nothing          *)
(* allocated or registered: kctx, bounce, bridge context, call, bulks, handle.       *)
(*************************************************************************************)
KvNothingHeldAfterDone ==
    \A c \in KvIo : kvIo[c].state \in {"idle", "done"} => kvHeld[c] = {}

(*************************************************************************************)
(* What an io holds: enough for the transfer in flight, and nothing when it is done. *)
(*************************************************************************************)
KvMemoryExact == KvTransferCovered /\ KvNothingHeldAfterDone

(*************************************************************************************)
(* Every forwarded KV io completes, unless the transport or the executor failed      *)
(* under it, or its channel was destroyed: a drain does not see KV calls.            *)
(*************************************************************************************)
KvIoCompletes ==
    \A c \in KvIo : kvIo[c].state = "flight" ~>
                        (kvIo[c].state \in {"done", "stranded"} \/ kvFault[c])

================================================================================
