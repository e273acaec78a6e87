------------------------------ MODULE ExecService ------------------------------
(*****************************************************************************)
(* The executor service (rados-nkvx/nkvx_service.c): the Exec and the cancel *)
(* handlers, the bulk-transfer callbacks and the in-flight registry.  The    *)
(* service has one progress thread: each handler and callback is one step.   *)
(* A bulk transfer is on the wire between the step that submits it and the   *)
(* callback that reports it.                                                 *)
(*****************************************************************************)
EXTENDS ExecWire

VARIABLES
    req,       \* per call, its struct nkvx_req
    sinkData   \* per call, the tenant's output buffer as the transfers left it

serviceVars == <<req, sinkData>>

\* Where a request is.  The first two are the ends; in pull_pending and
\* push_pending it waits for a stall countdown, in pulling and pushing a bulk
\* transfer against the front's memory is in flight (push_in_flight).
Phase == {"none", "gone", "pull_pending", "pulling", "push_pending", "pushing"}

\* bulk_canceled: HG_Bulk_cancel was accepted for the transfer in flight.
\* cancel_handle: {} or the call whose nkvx_cancel awaits its ack from here.
ReqRecord == [phase : Phase, do_not_push : BOOLEAN,
              bulk_canceled : BOOLEAN, cancel_handle : SUBSET Call]

ServiceTypeOK ==
    /\ req \in [Call -> ReqRecord]
    /\ sinkData \in [Call -> {"old", "torn", "whole"}]

NewReq == [phase |-> "none", do_not_push |-> FALSE,
           bulk_canceled |-> FALSE, cancel_handle |-> {}]

ServiceInit ==
    /\ req = [c \in Call |-> NewReq]
    /\ sinkData = [c \in Call |-> "old"]

\* The request of c is on g_inflight.
Registered(c) == req[c].phase \notin {"none", "gone"}

\* push_in_flight of the request r: a PULL or a PUSH is on the wire.
push_in_flight(r) == r.phase \in {"pulling", "pushing"}

\* nkvx_reg_lookup: the requests a cancel for the call c may find.
nkvx_reg_lookup_AnyOrigin(c) == {d \in Call : Registered(d) /\ d[2] = c[2]}
nkvx_reg_lookup(c) == {d \in Call : Registered(d) /\ d[2] = c[2] /\ d[1] = c[1]}

--------------------------------------------------------------------------------
\* HG_Respond to the nkvx_cancel of each call of S.
Ack(S) ==
    \/ ackWire' = [c \in Call |-> IF c \in S THEN ackWire[c] + 1 ELSE ackWire[c]]
    \/ "drop" \in Faults /\ S # {} /\ UNCHANGED ackWire

\* nkvx_req_finish (and nkvx_req_fail) of the request r of c with status st:
\* leave the registry, respond, and ack the cancel that r holds.
nkvx_req_finish_NoAck(c, r, st) ==
    /\ req' = [req EXCEPT ![c] = [NewReq EXCEPT !.phase = "gone"]]
    /\ SendResponse(c, st)
    /\ UNCHANGED ackWire
nkvx_req_finish(c, r, st) ==
    /\ req' = [req EXCEPT ![c] = [NewReq EXCEPT !.phase = "gone"]]
    /\ \/ SendResponse(c, st)
       \/ "drop" \in Faults /\ UNCHANGED respWire
    /\ Ack(r.cancel_handle)

\* The request r of c stays registered, as r.
Keep(c, r) ==
    /\ req' = [req EXCEPT ![c] = r]
    /\ UNCHANGED <<respWire, ackWire>>

\* nkvx_submit_result_push: the PUSH starts to write the tenant's buffer, unless
\* a cancel came first or the transfer cannot be set up.
nkvx_submit_result_push(c, r) ==
    IF r.do_not_push
    THEN nkvx_req_finish(c, r, "ABORTED") /\ UNCHANGED sinkData
    ELSE \/ nkvx_req_finish(c, r, "FAILED") /\ UNCHANGED sinkData
         \/ /\ Keep(c, [r EXCEPT !.phase = "pushing"])
            /\ sinkData' = [sinkData EXCEPT ![c] = "torn"]

\* nkvx_req_run_and_deliver: the module runs; a result above NKVX_INLINE_MAX
\* goes to the sink (it has one, see the front), a smaller one or an error
\* status rides in the response.
nkvx_req_run_and_deliver(c, r) ==
    \/ \E st \in {"INLINE", "FAILED", "ABORTED"} :
          nkvx_req_finish(c, r, st) /\ UNCHANGED sinkData
    \/ /\ "sink" \in shape[c]
       /\ \/ nkvx_submit_result_push(c, r)
          \/ /\ Stalls
             /\ IF r.do_not_push
                THEN nkvx_req_finish(c, r, "ABORTED")
                ELSE Keep(c, [r EXCEPT !.phase = "push_pending"])
             /\ UNCHANGED sinkData

\* nkvx_submit_input_pull: FAILED stands for the malloc, the handle or the
\* transfer that cannot be had.
nkvx_submit_input_pull(c, r) ==
    /\ IF r.do_not_push
       THEN nkvx_req_finish(c, r, "ABORTED")
       ELSE \/ nkvx_req_finish(c, r, "FAILED")
            \/ Keep(c, [r EXCEPT !.phase = "pulling"])
    /\ UNCHANGED sinkData

--------------------------------------------------------------------------------
\* nkvx_exec_handler.  A request that cannot be decoded is dropped unanswered;
\* without a backend it is declined.
nkvx_exec_handler(c) ==
    /\ up
    /\ c \in execWire
    /\ execWire' = execWire \ {c}
    /\ \/ /\ "drop" \in Faults
          /\ req' = [req EXCEPT ![c] = [req[c] EXCEPT !.phase = "gone"]]
          /\ UNCHANGED <<respWire, ackWire, sinkData>>
       \/ nkvx_req_finish(c, req[c], "FAILED") /\ UNCHANGED sinkData
       \/ /\ "src" \in shape[c]
          /\ \/ nkvx_submit_input_pull(c, req[c])
             \/ /\ Stalls
                /\ Keep(c, [req[c] EXCEPT !.phase = "pull_pending"])
                /\ UNCHANGED sinkData
       \/ "src" \notin shape[c] /\ nkvx_req_run_and_deliver(c, req[c])
    /\ UNCHANGED <<up, fwd, shape, cancelWire, severed>>

\* nkvx_input_pulled_cb: the PULL was cancelled, failed, or completed (which an
\* accepted HG_Bulk_cancel does not exclude).
nkvx_input_pulled_cb(c) ==
    LET r == [req[c] EXCEPT !.bulk_canceled = FALSE] IN
    /\ up
    /\ req[c].phase = "pulling"
    /\ \/ /\ req[c].bulk_canceled
          /\ nkvx_req_finish(c, r, "ABORTED") /\ UNCHANGED sinkData
       \/ nkvx_req_finish(c, r, "FAILED") /\ UNCHANGED sinkData
       \/ nkvx_req_run_and_deliver(c, r)
    /\ UNCHANGED <<up, fwd, shape, execWire, cancelWire, severed>>

\* nkvx_result_pushed_cb: as above for the PUSH; only a completed one is
\* reported as a success.
nkvx_result_pushed_cb(c) ==
    /\ up
    /\ req[c].phase = "pushing"
    /\ \/ /\ req[c].bulk_canceled
          /\ nkvx_req_finish(c, req[c], "ABORTED") /\ UNCHANGED sinkData
       \/ nkvx_req_finish(c, req[c], "FAILED") /\ UNCHANGED sinkData
       \/ /\ nkvx_req_finish(c, req[c], "SINK")
          /\ sinkData' = [sinkData EXCEPT ![c] = "whole"]
    /\ UNCHANGED <<up, fwd, shape, execWire, cancelWire, severed>>

\* nkvx_service_tick_stalls: the countdown of a stalled transfer has run out.
nkvx_service_tick_stalls(c) ==
    /\ up
    /\ \/ req[c].phase = "pull_pending" /\ nkvx_submit_input_pull(c, req[c])
       \/ req[c].phase = "push_pending" /\ nkvx_submit_result_push(c, req[c])
    /\ UNCHANGED <<up, fwd, shape, execWire, cancelWire, severed>>

(*****************************************************************************)
(* nkvx_cancel_handler, for a cancel that names the call c: (a) no request,  *)
(* or one that holds a cancel already, is acked at once; (c) a transfer in   *)
(* flight is cancelled, and if that is refused the request is marked; (b)    *)
(* any other request is marked.  The ack of (b) and (c) is left to           *)
(* nkvx_req_finish.                                                          *)
(*****************************************************************************)
Mark(r, c) ==
    {m \in {[r EXCEPT !.cancel_handle = {c}, !.bulk_canceled = TRUE],
            [r EXCEPT !.cancel_handle = {c}, !.do_not_push = TRUE]} :
        push_in_flight(r) \/ m.do_not_push}

nkvx_cancel_handler(c) ==
    /\ up
    /\ cancelWire[c] > 0
    /\ "overtake" \in Faults \/ c \notin execWire
    /\ cancelWire' = [cancelWire EXCEPT ![c] = @ - 1]
    /\ \/ nkvx_reg_lookup(c) = {} /\ Ack({c}) /\ UNCHANGED <<req, respWire>>
       \/ \E d \in nkvx_reg_lookup(c) :
             IF req[d].cancel_handle # {}
             THEN Ack({c}) /\ UNCHANGED <<req, respWire>>
             ELSE \E m \in Mark(req[d], c) : Keep(d, m)
       \/ "drop" \in Faults /\ UNCHANGED <<req, respWire, ackWire>>
    /\ UNCHANGED <<sinkData, up, fwd, shape, execWire, severed>>

--------------------------------------------------------------------------------
\* The process dies: its requests and transfers end, what is in transit to it is
\* lost, and every forward it had not answered is left without a peer.
Crash ==
    /\ "crash" \in Faults
    /\ up
    /\ up' = FALSE
    /\ req' = [c \in Call |-> IF Registered(c)
                              THEN [NewReq EXCEPT !.phase = "gone"] ELSE req[c]]
    /\ execWire' = {}
    /\ cancelWire' = [c \in Call |-> 0]
    /\ severed' = severed \cup {c \in Call : fwd[c] # "none"}
    /\ UNCHANGED <<sinkData, fwd, shape, respWire, ackWire>>

\* It is started again at the same address, with an empty registry.
Restart ==
    /\ ~up
    /\ up' = TRUE
    /\ UNCHANGED <<serviceVars, fwd, shape, execWire, respWire, cancelWire,
                   ackWire, severed>>

===============================================================================
