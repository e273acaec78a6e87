-------------------------- MODULE TwoTierExec_proofs ---------------------------
(******************************************************************************)
(* The two tiers of Exec, for any number of fronts, calls and sessions.       *)
(* First what the steps keep that needs no counting: the accounting of a      *)
(* cancel and of the executor, what the two sides know of each other while    *)
(* a buffer is lent, and the lease they implement.  Then the counters of      *)
(* the fronts, with the facts about finite sets, and the theorems.            *)
(******************************************************************************)
EXTENDS TwoTierExec, TLAPS

\* A leaf that names no backend goes to Zenon.
USE ZenonT(60)

\* What the fields of a struct nkvx_call, the lists it is on, its two Mercury
\* operations and its io have to do with each other.
CallOK(c) ==
    LET r == call[c] IN
    /\ c \in inflight <=> (r.mem = "live" /\ ~r.detached)
    /\ c \in exec_inflight <=> c \in inflight
    /\ c[2] > next_call_id[c[1]] => r.mem = "unused"
    /\ r.mem = "unused" => /\ fwd[c] = "none" /\ fired[c] = 0
                           /\ ~r.cancel_handle /\ ~r.cancelling
    /\ r.mem = "freed" => ~Outstanding(c) /\ ~r.cancel_handle /\ fired[c] = 1
    /\ c \in inflight =>
          /\ ~r.tenant_done /\ fired[c] = 0 /\ chan[c[1]] # "closed"
          /\ Outstanding(c) <=> ~r.forward_done
          /\ r.forward_done => r.cancelling
          /\ r.cancel_handle <=> (r.cancelling /\ ~r.cancel_acked)
          /\ ~JoinReady(r)
    /\ (r.mem = "live" /\ r.detached) => chan[c[1]] = "closed" /\ fired[c] = 1

\* The counter of each front counts its part of the in-flight list.
Counted == \A f \in Front : n_inflight[f] = Cardinality(inflight \cap CallsOf(f))

\* The inductive invariant of the accounting.
AInv == TypeOK /\ Counted /\ \A c \in Call : CallOK(c)

--------------------------------------------------------------------------------
\* A call is its front and its client_call_id.
LEMMA CallParts ==
    ASSUME NEW c \in Call
    PROVE  c = <<c[1], c[2]>> /\ c[1] \in Front /\ c[2] \in 1..MaxCalls
BY SMT DEF Call

\* nkvx_call_begin_cancel on calls in flight, as the abort and the destroy use it.
LEMMA BeginCancelAInv ==
    ASSUME AInv, NEW S \in SUBSET inflight, NEW U, nkvx_call_begin_cancel(S, U),
           UNCHANGED <<tenantVars, next_call_id, up, shape, execWire, respWire,
                       ackWire, severed, serviceVars>>,
           chan' \in [Front -> {"open", "draining", "closed"}],
           \A f \in Front : chan'[f] = "closed" <=> chan[f] = "closed"
    PROVE  AInv'
<1>0. TypeOK /\ Counted /\ \A d \in Call : CallOK(d)
  BY DEF AInv
<1> DEFINE T == CancelTargets(S)
           sig == NeedsHandshake(T) \ U
<1>1. T \subseteq S /\ sig \subseteq T /\ S \subseteq Call
  BY <1>0 DEF CancelTargets, NeedsHandshake, TypeOK, FrontTypeOK
<1>2. call' = [c \in Call |->
                 IF c \in T
                 THEN [call[c] EXCEPT !.cancelling = TRUE,
                                      !.cancel_acked = c \notin sig,
                                      !.cancel_handle = c \in sig]
                 ELSE call[c]]
  BY DEF nkvx_call_begin_cancel
<1>3. PostCancels(sig, OriginCancelled(T, U)) /\ UNCHANGED <<inflight, n_inflight>>
  BY DEF nkvx_call_begin_cancel
<1>3a. ASSUME NEW c \in T
      PROVE  /\ call'[c] \in CallRecord
             /\ call'[c].cancelling = TRUE /\ call'[c].cancel_acked = (c \notin sig)
             /\ call'[c].cancel_handle = (c \in sig) /\ call'[c].mem = call[c].mem
             /\ call'[c].detached = call[c].detached
             /\ call'[c].tenant_done = call[c].tenant_done
             /\ call'[c].forward_done = call[c].forward_done
             /\ call'[c].bulks = call[c].bulks
  <2>1. c \in Call /\ call[c] \in CallRecord
    BY <1>0, <1>1 DEF TypeOK, FrontTypeOK
  <2> DEFINE a == c \notin sig
             h == c \in sig
  <2>2. call'[c] = [call[c] EXCEPT !.cancelling = TRUE, !.cancel_acked = a,
                                   !.cancel_handle = h]
    BY <1>2, <2>1
  <2>3. a \in BOOLEAN /\ h \in BOOLEAN
    BY SMT
  <2> HIDE DEF a, h
  <2>4. /\ call'[c] \in CallRecord
        /\ call'[c].cancelling = TRUE /\ call'[c].cancel_acked = a
        /\ call'[c].cancel_handle = h /\ call'[c].mem = call[c].mem
        /\ call'[c].detached = call[c].detached
        /\ call'[c].tenant_done = call[c].tenant_done
        /\ call'[c].forward_done = call[c].forward_done
        /\ call'[c].bulks = call[c].bulks
    BY <2>1, <2>2, <2>3 DEF CallRecord
  <2> QED BY <2>4 DEF a, h
<1>4. ASSUME NEW c \in Call PROVE call'[c] \in CallRecord
  <2>1. c \notin T => call'[c] = call[c]
    BY <1>2
  <2> QED BY <1>0, <1>3a, <2>1 DEF TypeOK, FrontTypeOK
<1>5. FrontTypeOK'
  <2>1. call' \in [Call -> CallRecord]
    BY <1>2, <1>4
  <2> QED BY <1>0, <1>3, <2>1 DEF TypeOK, FrontTypeOK, tenantVars
<1>6. WireTypeOK'
  <2>1. cancelWire' \in [Call -> Nat]
    BY <1>0, <1>3, SMT DEF TypeOK, WireTypeOK, PostCancels
  <2>2. fwd' \in [Call -> {"none", "posted", "canceled", "done"}]
    BY <1>0, <1>3 DEF TypeOK, WireTypeOK, PostCancels
  <2> QED BY <1>0, <2>1, <2>2 DEF TypeOK, WireTypeOK
<1>7. ServiceTypeOK' /\ Counted'
  BY <1>0, <1>3 DEF TypeOK, ServiceTypeOK, serviceVars, Counted, CallsOf
<1>8. ASSUME NEW c \in Call PROVE CallOK(c)'
  <2>1. /\ Outstanding(c)' <=> Outstanding(c)
        /\ fwd[c] = "none" => fwd'[c] = "none"
    BY <1>3 DEF PostCancels, Outstanding
  <2>2. c[1] \in Front
    BY CallParts
  <2>3. CASE c \in T
    <3>1. c \in inflight /\ ~call[c].cancelling
      BY <1>1, <2>3 DEF CancelTargets
    <3>2. /\ call'[c].mem = call[c].mem /\ call'[c].detached = call[c].detached
          /\ call'[c].tenant_done = call[c].tenant_done
          /\ call'[c].forward_done = call[c].forward_done
          /\ call'[c].cancelling = TRUE
          /\ call'[c].cancel_acked = (c \notin sig)
          /\ call'[c].cancel_handle = (c \in sig)
      BY <1>3a, <2>3
    <3>3. call[c].mem = "live" /\ ~call[c].detached /\ ~call[c].forward_done
      BY <1>0, <3>1 DEF CallOK
    <3> QED BY <1>0, <1>3, <2>1, <2>2, <3>1, <3>2, <3>3
            DEF CallOK, JoinReady, tenantVars
  <2>4. CASE c \notin T
    <3>1. call'[c] = call[c]
      BY <1>2, <2>4
    <3> QED BY <1>0, <1>3, <2>1, <2>2, <3>1, SMT DEF CallOK, JoinReady, tenantVars
  <2> QED BY <2>3, <2>4
<1> QED BY <1>5, <1>6, <1>7, <1>8 DEF AInv, TypeOK

\* The records the two callbacks make of a call's record.
LEMMA ForwardDoneRecord ==
    ASSUME NEW k \in CallRecord
    PROVE  LET r == [k EXCEPT !.forward_done = TRUE]
           IN  /\ r \in CallRecord /\ r.forward_done = TRUE /\ r.mem = k.mem
               /\ r.detached = k.detached /\ r.tenant_done = k.tenant_done
               /\ r.cancelling = k.cancelling /\ r.cancel_handle = k.cancel_handle
               /\ r.cancel_acked = k.cancel_acked /\ r.bulks = k.bulks
BY DEF CallRecord

\* What nkvx_cancel_ack_cb makes of a call.
LEMMA AckedRecord ==
    ASSUME NEW k \in CallRecord
    PROVE  LET r == [k EXCEPT !.cancel_handle = FALSE, !.cancel_acked = TRUE]
           IN  /\ r \in CallRecord /\ r.cancel_acked = TRUE /\ r.cancel_handle = FALSE
               /\ r.mem = k.mem /\ r.detached = k.detached
               /\ r.tenant_done = k.tenant_done /\ r.cancelling = k.cancelling
               /\ r.forward_done = k.forward_done /\ r.bulks = k.bulks
BY DEF CallRecord

\* What freeing a call makes of it.
LEMMA ReapedRecord ==
    ASSUME NEW k \in CallRecord
    PROVE  LET r == [k EXCEPT !.mem = "freed", !.bulks = {}, !.detached = TRUE]
           IN  /\ r \in CallRecord /\ r.mem = "freed" /\ r.detached = TRUE
               /\ r.cancel_handle = k.cancel_handle /\ r.cancelling = k.cancelling
BY DEF CallRecord

--------------------------------------------------------------------------------
\* A request in phase r.phase has the bulk handle that phase is about.
PhaseFits(r, s) ==
    /\ r.phase \in {"pull_pending", "pulling"} => "src" \in s
    /\ r.phase \in {"push_pending", "pushing"} => "sink" \in s

\* What it does to the tenant's output buffer: a PUSH that starts tears it, one
\* that completed has written it to its end.
SinkStep(c, q) ==
    \/ sinkData' = sinkData
    \/ sinkData' = [sinkData EXCEPT ![c] = "torn"] /\ q.phase = "pushing"
    \/ /\ sinkData' = [sinkData EXCEPT ![c] = "whole"]
       /\ q.phase = "gone" /\ req[c].phase = "pushing"

\* A response was sent or lost, and only a whole buffer is reported as one.
Answered(c) ==
    \/ respWire' = respWire
    \/ \E st \in Status : /\ respWire' = [respWire EXCEPT ![c] = st]
                          /\ st = "SINK" => sinkData'[c] = "whole"

\* The cancel that the request of c held was acked, or the ack was lost.
Acked(c) ==
    \/ ackWire' = ackWire
    \/ ackWire' = [d \in Call |-> IF d \in req[c].cancel_handle
                                  THEN ackWire[d] + 1 ELSE ackWire[d]]

\* What a handler or callback of the service does to its request: it becomes q,
\* still registered, or it is over, answered or not, its cancel acked or not.
ServiceStep(c, q) ==
    /\ req' = [req EXCEPT ![c] = q]
    /\ SinkStep(c, q)
    /\ PhaseFits(req[c], shape[c]) => PhaseFits(q, shape[c])
    /\ \/ /\ q.phase \notin {"none", "gone"}
          /\ q.cancel_handle = req[c].cancel_handle
          /\ UNCHANGED <<respWire, ackWire>>
       \/ /\ q.phase = "gone"
          /\ q.cancel_handle \in {{}, req[c].cancel_handle}
          /\ Answered(c) /\ Acked(c)

Stepped(c) == \E q \in ReqRecord : ServiceStep(c, q)

\* The record r a handler works on is its request, up to bulk_canceled.
Current(c, r) ==
    /\ r \in ReqRecord
    /\ r.phase = req[c].phase
    /\ r.cancel_handle = req[c].cancel_handle

\* nkvx_req_finish is a step.
LEMMA FinishStep ==
    ASSUME TypeOK, NEW c \in Call, NEW r, Current(c, r), NEW st \in Status,
           nkvx_req_finish(c, r, st),
           \/ st # "SINK" /\ sinkData' = sinkData
           \/ sinkData' = [sinkData EXCEPT ![c] = "whole"] /\ req[c].phase = "pushing"
    PROVE  Stepped(c)
<1>1. PICK q \in ReqRecord : q = [NewReq EXCEPT !.phase = "gone"]
  BY DEF NewReq, ReqRecord, Phase
<1>2. q.phase = "gone" /\ q.cancel_handle = {}
  BY <1>1 DEF NewReq
<1>3. req' = [req EXCEPT ![c] = q]
  BY <1>1 DEF nkvx_req_finish
<1>a. st = "SINK" => sinkData'[c] = "whole"
  BY DEF TypeOK, ServiceTypeOK
<1>4. Answered(c)
  BY <1>a DEF nkvx_req_finish, SendResponse, Answered
<1>5. Acked(c)
  BY DEF nkvx_req_finish, Ack, Current, Acked
<1>6. PhaseFits(q, shape[c])
  BY <1>2 DEF PhaseFits
<1>7. SinkStep(c, q)
  BY <1>2 DEF SinkStep
<1>8. q.cancel_handle \in {{}, req[c].cancel_handle}
  BY <1>2, ZenonT(60)
<1>9. ServiceStep(c, q)
  BY <1>2, <1>3, <1>4, <1>5, <1>6, <1>7, <1>8 DEF ServiceStep
<1> QED BY <1>9 DEF Stepped

\* Going on to a phase whose bulk handle the request has is a step.
LEMMA KeepStep ==
    ASSUME TypeOK, NEW c \in Call, NEW r, Current(c, r),
           NEW p \in Phase \ {"none", "gone"}, Keep(c, [r EXCEPT !.phase = p]),
           PhaseFits(req[c], shape[c]) => PhaseFits([phase |-> p], shape[c]),
           \/ sinkData' = sinkData
           \/ sinkData' = [sinkData EXCEPT ![c] = "torn"] /\ p = "pushing"
    PROVE  Stepped(c)
<1>1. PICK q \in ReqRecord : q = [r EXCEPT !.phase = p]
  BY DEF Current, ReqRecord
<1>2. q.phase = p /\ q.cancel_handle = r.cancel_handle
  BY <1>1 DEF Current, ReqRecord
<1>3. req' = [req EXCEPT ![c] = q] /\ UNCHANGED <<respWire, ackWire>>
  BY <1>1 DEF Keep
<1>4. PhaseFits(req[c], shape[c]) => PhaseFits(q, shape[c])
  BY <1>2 DEF PhaseFits
<1>5. q.cancel_handle = req[c].cancel_handle
  BY <1>2 DEF Current
<1>6. SinkStep(c, q)
  BY <1>2 DEF SinkStep
<1> QED BY <1>2, <1>3, <1>4, <1>5, <1>6 DEF Stepped, ServiceStep

\* nkvx_submit_result_push for a request that has a sink.
LEMMA PushStep ==
    ASSUME TypeOK, NEW c \in Call, NEW r, Current(c, r), nkvx_submit_result_push(c, r),
           PhaseFits(req[c], shape[c]) => "sink" \in shape[c]
    PROVE  Stepped(c)
<1>2. ASSUME NEW st \in {"ABORTED", "FAILED"}, nkvx_req_finish(c, r, st),
             UNCHANGED sinkData
      PROVE  Stepped(c)
  BY <1>2, FinishStep DEF Status
<1>3. ASSUME Keep(c, [r EXCEPT !.phase = "pushing"]),
             sinkData' = [sinkData EXCEPT ![c] = "torn"]
      PROVE  Stepped(c)
  <2>2. "pushing" \in Phase \ {"none", "gone"}
    BY DEF Phase
  <2>3. PhaseFits(req[c], shape[c]) => PhaseFits([phase |-> "pushing"], shape[c])
    BY DEF PhaseFits
  <2> QED BY <1>3, <2>2, <2>3, KeepStep
<1> QED BY <1>2, <1>3 DEF nkvx_submit_result_push

\* nkvx_submit_input_pull for a request that has a source.
LEMMA PullStep ==
    ASSUME TypeOK, NEW c \in Call, NEW r, Current(c, r), nkvx_submit_input_pull(c, r),
           PhaseFits(req[c], shape[c]) => "src" \in shape[c]
    PROVE  Stepped(c)
<1>1. sinkData' = sinkData
  BY DEF nkvx_submit_input_pull
<1>2. ASSUME NEW st \in {"ABORTED", "FAILED"}, nkvx_req_finish(c, r, st)
      PROVE  Stepped(c)
  BY <1>1, <1>2, FinishStep DEF Status
<1>3. ASSUME Keep(c, [r EXCEPT !.phase = "pulling"]) PROVE Stepped(c)
  <2>1. "pulling" \in Phase \ {"none", "gone"}
    BY DEF Phase
  <2>2. PhaseFits(req[c], shape[c]) => PhaseFits([phase |-> "pulling"], shape[c])
    BY DEF PhaseFits
  <2> QED BY <1>1, <1>3, <2>1, <2>2, KeepStep
<1> QED BY <1>2, <1>3 DEF nkvx_submit_input_pull

\* nkvx_req_run_and_deliver.
LEMMA DeliverStep ==
    ASSUME TypeOK, NEW c \in Call, NEW r, Current(c, r), nkvx_req_run_and_deliver(c, r)
    PROVE  Stepped(c)
<1>1. ASSUME NEW st \in {"INLINE", "FAILED", "ABORTED"}, nkvx_req_finish(c, r, st),
             UNCHANGED sinkData
      PROVE  Stepped(c)
  BY <1>1, FinishStep DEF Status
<1>2. ASSUME "sink" \in shape[c], nkvx_submit_result_push(c, r) PROVE Stepped(c)
  BY <1>2, PushStep
<1>3. ASSUME "sink" \in shape[c], Keep(c, [r EXCEPT !.phase = "push_pending"]),
             UNCHANGED sinkData
      PROVE  Stepped(c)
  <2>2. "push_pending" \in Phase \ {"none", "gone"}
    BY DEF Phase
  <2>3. PhaseFits([phase |-> "push_pending"], shape[c])
    BY <1>3 DEF PhaseFits
  <2> QED BY <1>3, <2>2, <2>3, KeepStep
<1> QED BY <1>1, <1>2, <1>3 DEF nkvx_req_run_and_deliver

\* A step of the service on one of its requests: the four actions that are.
OnRequest(c) ==
    \/ nkvx_exec_handler(c)
    \/ nkvx_input_pulled_cb(c)
    \/ nkvx_result_pushed_cb(c)
    \/ nkvx_service_tick_stalls(c)

\* Every handler and transfer callback of the service is a step on its request.
LEMMA OnRequestStep ==
    ASSUME TypeOK, NEW c \in Call, OnRequest(c)
    PROVE  Stepped(c)
<1>0. req[c] \in ReqRecord
  BY DEF TypeOK, ServiceTypeOK
<1>1. Current(c, req[c])
  BY <1>0 DEF Current
<1>2. ASSUME NEW r, Current(c, r), NEW st \in {"FAILED", "ABORTED"},
             nkvx_req_finish(c, r, st), UNCHANGED sinkData
      PROVE  Stepped(c)
  BY <1>2, FinishStep DEF Status
<1>3. CASE nkvx_exec_handler(c)
  <2>1. ASSUME req' = [req EXCEPT ![c] = [req[c] EXCEPT !.phase = "gone"]],
               UNCHANGED <<respWire, ackWire, sinkData>>
        PROVE  Stepped(c)
    <3>1. PICK q \in ReqRecord : q = [req[c] EXCEPT !.phase = "gone"]
      BY <1>0 DEF ReqRecord, Phase
    <3>2. q.phase = "gone" /\ q.cancel_handle = req[c].cancel_handle
      BY <1>0, <3>1 DEF ReqRecord
    <3> QED BY <1>0, <2>1, <3>1, <3>2
            DEF Stepped, ServiceStep, SinkStep, PhaseFits, Answered, Acked
  <2>2. ASSUME "src" \in shape[c], Keep(c, [req[c] EXCEPT !.phase = "pull_pending"]),
               UNCHANGED sinkData
        PROVE  Stepped(c)
    <3>1. "pull_pending" \in Phase \ {"none", "gone"}
      BY DEF Phase
    <3>2. PhaseFits([phase |-> "pull_pending"], shape[c])
      BY <2>2 DEF PhaseFits
    <3> QED BY <1>1, <2>2, <3>1, <3>2, KeepStep
  <2>3. ASSUME "src" \in shape[c], nkvx_submit_input_pull(c, req[c]) PROVE Stepped(c)
    BY <1>1, <2>3, PullStep
  <2>4. ASSUME nkvx_req_run_and_deliver(c, req[c]) PROVE Stepped(c)
    BY <1>1, <2>4, DeliverStep
  <2> QED BY <1>1, <1>2, <1>3, <2>1, <2>2, <2>3, <2>4 DEF nkvx_exec_handler
<1>4. CASE nkvx_input_pulled_cb(c)
  <2>1. PICK r \in ReqRecord : r = [req[c] EXCEPT !.bulk_canceled = FALSE]
    BY <1>0 DEF ReqRecord
  <2>2. Current(c, r)
    BY <1>0, <2>1 DEF Current, ReqRecord
  <2>3. \/ \E st \in {"FAILED", "ABORTED"} : nkvx_req_finish(c, r, st) /\ UNCHANGED sinkData
        \/ nkvx_req_run_and_deliver(c, r)
    BY <1>4, <2>1 DEF nkvx_input_pulled_cb
  <2> QED BY <1>2, <2>2, <2>3, DeliverStep
<1>5. CASE nkvx_result_pushed_cb(c)
  <2>1. ASSUME nkvx_req_finish(c, req[c], "SINK"),
               sinkData' = [sinkData EXCEPT ![c] = "whole"]
        PROVE  Stepped(c)
    <3>1. req[c].phase = "pushing"
      BY <1>5 DEF nkvx_result_pushed_cb
    <3> QED BY <1>1, <2>1, <3>1, FinishStep DEF Status
  <2> QED BY <1>1, <1>2, <1>5, <2>1 DEF nkvx_result_pushed_cb
<1>6. CASE nkvx_service_tick_stalls(c)
  <2>1. ASSUME req[c].phase = "pull_pending", nkvx_submit_input_pull(c, req[c])
        PROVE  Stepped(c)
    <3>1. PhaseFits(req[c], shape[c]) => "src" \in shape[c]
      BY <2>1 DEF PhaseFits
    <3> QED BY <1>1, <2>1, <3>1, PullStep
  <2>2. ASSUME req[c].phase = "push_pending", nkvx_submit_result_push(c, req[c])
        PROVE  Stepped(c)
    <3>1. PhaseFits(req[c], shape[c]) => "sink" \in shape[c]
      BY <2>2 DEF PhaseFits
    <3> QED BY <1>1, <2>2, <3>1, PushStep
  <2> QED BY <1>6, <2>1, <2>2 DEF nkvx_service_tick_stalls
<1> QED BY <1>3, <1>4, <1>5, <1>6 DEF OnRequest

\* Such a step moves nothing but its request, its answers and its place on the wire.
LEMMA OnRequestFrame ==
    ASSUME NEW c \in Call, OnRequest(c)
    PROVE  /\ up = TRUE /\ UNCHANGED <<up, fwd, shape, cancelWire, severed>>
           /\ \/ c \in execWire /\ execWire' = execWire \ {c}
              \/ Registered(c) /\ execWire' = execWire
<1>1. CASE nkvx_exec_handler(c)
  BY <1>1 DEF nkvx_exec_handler
<1>2. CASE nkvx_input_pulled_cb(c)
  BY <1>2 DEF nkvx_input_pulled_cb, Registered
<1>3. CASE nkvx_result_pushed_cb(c)
  BY <1>3 DEF nkvx_result_pushed_cb, Registered
<1>4. CASE nkvx_service_tick_stalls(c)
  BY <1>4 DEF nkvx_service_tick_stalls, Registered
<1> QED BY <1>1, <1>2, <1>3, <1>4 DEF OnRequest

\* A service step has no part in the accounting of the fronts.
LEMMA ServiceAInv ==
    ASSUME AInv, UNCHANGED frontVars, fwd' = fwd, WireTypeOK', ServiceTypeOK'
    PROVE  AInv'
<1>0. TypeOK /\ Counted /\ \A d \in Call : CallOK(d)
  BY DEF AInv
<1>1. UNCHANGED <<call, inflight, n_inflight, exec_inflight, fired, outcome,
                  next_call_id, chan>>
  BY DEF frontVars, callVars, tenantVars
<1>2. FrontTypeOK' /\ Counted'
  BY <1>0, <1>1, ZenonT(60) DEF TypeOK, FrontTypeOK, Counted, CallsOf
<1>3. ASSUME NEW c \in Call PROVE CallOK(c)'
  BY <1>0, <1>1 DEF CallOK, Outstanding, JoinReady
<1> QED BY <1>2, <1>3 DEF AInv, TypeOK

\* The service keeps the types of its requests and of the messages.
LEMMA OnRequestTypes ==
    ASSUME TypeOK, NEW c \in Call, OnRequest(c)
    PROVE  WireTypeOK' /\ ServiceTypeOK'
<1>1. PICK q \in ReqRecord : ServiceStep(c, q)
  BY OnRequestStep DEF Stepped
<1>2. WireTypeOK /\ ServiceTypeOK
  BY DEF TypeOK
<1>3. ServiceTypeOK'
  BY <1>1, <1>2, ZenonT(60) DEF ServiceStep, SinkStep, ServiceTypeOK
<1>4. ackWire' \in [Call -> Nat]
  BY <1>1, <1>2, SMT DEF ServiceStep, Acked, WireTypeOK
<1>5. respWire' \in [Call -> Status \cup {"none"}]
  BY <1>1, <1>2 DEF ServiceStep, Answered, WireTypeOK
<1>6. execWire' \in SUBSET Call
  BY <1>2, OnRequestFrame DEF WireTypeOK
<1> QED BY <1>2, <1>3, <1>4, <1>5, <1>6, OnRequestFrame DEF WireTypeOK

\* What a cancel leaves of the request r it finds: r with the ack pending.
LEMMA MarkedRecord ==
    ASSUME NEW c \in Call, NEW r \in ReqRecord, NEW m \in Mark(r, c)
    PROVE  m \in ReqRecord /\ m.phase = r.phase /\ m.cancel_handle = {c}
BY ZenonT(60) DEF Mark, ReqRecord

\* nkvx_cancel_handler: the cancel is acked or dropped, or the request it finds
\* takes it over.
LEMMA CancelHandlerStep ==
    ASSUME TypeOK, NEW c \in Call, nkvx_cancel_handler(c)
    PROVE  /\ UNCHANGED <<sinkData, respWire, up, fwd, shape, execWire, severed>>
           /\ cancelWire[c] > 0 /\ cancelWire' = [cancelWire EXCEPT ![c] = @ - 1]
           /\ "overtake" \in Faults \/ c \notin execWire
           /\ \/ /\ req' = req /\ ackWire' = ackWire
              \/ /\ req' = req
                 /\ ackWire' = [d \in Call |-> IF d \in {c} THEN ackWire[d] + 1
                                                            ELSE ackWire[d]]
                 /\ ~Registered(c) \/ req[c].cancel_handle # {}
              \/ /\ ackWire' = ackWire
                 /\ Registered(c) /\ req[c].cancel_handle = {}
                 /\ \E m \in ReqRecord : /\ req' = [req EXCEPT ![c] = m]
                                         /\ m.phase = req[c].phase
                                         /\ m.cancel_handle = {c}
<1>0. req \in [Call -> ReqRecord]
  BY DEF TypeOK, ServiceTypeOK
<1>1. \A d \in nkvx_reg_lookup(c) : d = c /\ Registered(c)
  BY CallParts DEF nkvx_reg_lookup
<1>2. nkvx_reg_lookup(c) = {} => ~Registered(c)
  BY DEF nkvx_reg_lookup
<1>3. UNCHANGED <<sinkData, up, fwd, shape, execWire, severed>>
      /\ cancelWire[c] > 0 /\ cancelWire' = [cancelWire EXCEPT ![c] = @ - 1]
      /\ ("overtake" \in Faults \/ c \notin execWire)
  BY DEF nkvx_cancel_handler
<1>4. CASE nkvx_reg_lookup(c) = {} /\ Ack({c}) /\ UNCHANGED <<req, respWire>>
  BY <1>2, <1>3, <1>4 DEF Ack
<1>5. CASE \E d \in nkvx_reg_lookup(c) :
             IF req[d].cancel_handle # {}
             THEN Ack({c}) /\ UNCHANGED <<req, respWire>>
             ELSE \E m \in Mark(req[d], c) : Keep(d, m)
  <2>1. IF req[c].cancel_handle # {}
        THEN Ack({c}) /\ UNCHANGED <<req, respWire>>
        ELSE \E m \in Mark(req[c], c) : Keep(c, m)
    BY <1>1, <1>5
  <2>2. CASE req[c].cancel_handle # {}
    BY <1>3, <2>1, <2>2 DEF Ack
  <2>3. CASE req[c].cancel_handle = {}
    <3>1. PICK m \in Mark(req[c], c) : Keep(c, m)
      BY <2>1, <2>3
    <3>2. m \in ReqRecord /\ m.phase = req[c].phase /\ m.cancel_handle = {c}
      BY <1>0, MarkedRecord
    <3> QED BY <1>1, <1>3, <1>5, <2>3, <3>1, <3>2 DEF Keep
  <2> QED BY <2>2, <2>3
<1>6. CASE "drop" \in Faults /\ UNCHANGED <<req, respWire, ackWire>>
  BY <1>3, <1>6
<1> QED BY <1>4, <1>5, <1>6 DEF nkvx_cancel_handler

\* nkvx_cancel_handler leaves the executor and the wire well typed.
LEMMA CancelHandlerTypes ==
    ASSUME TypeOK, NEW c \in Call, nkvx_cancel_handler(c)
    PROVE  WireTypeOK' /\ ServiceTypeOK'
<1>1. WireTypeOK /\ ServiceTypeOK
  BY DEF TypeOK
<1>2. ServiceTypeOK'
  BY <1>1, CancelHandlerStep, ZenonT(60) DEF ServiceTypeOK
<1>3. cancelWire' \in [Call -> Nat]
  BY <1>1, CancelHandlerStep, SMT DEF WireTypeOK
<1>4. ackWire' \in [Call -> Nat]
  BY <1>1, CancelHandlerStep, SMT DEF WireTypeOK
<1> QED BY <1>1, <1>2, <1>3, <1>4, CancelHandlerStep DEF WireTypeOK

\* Crash and restart keep the types.
LEMMA ProcessTypes ==
    ASSUME TypeOK, Crash \/ Restart
    PROVE  WireTypeOK' /\ ServiceTypeOK'
<1>1. WireTypeOK /\ ServiceTypeOK
  BY DEF TypeOK
<1>2. CASE Crash
  <2>1. [NewReq EXCEPT !.phase = "gone"] \in ReqRecord
    BY DEF NewReq, ReqRecord, Phase
  <2>2. ServiceTypeOK'
    BY <1>1, <1>2, <2>1 DEF Crash, ServiceTypeOK
  <2>3. WireTypeOK'
    BY <1>1, <1>2 DEF Crash, WireTypeOK
  <2> QED BY <2>2, <2>3
<1>3. CASE Restart
  BY <1>1, <1>3 DEF Restart, WireTypeOK, ServiceTypeOK, serviceVars
<1> QED BY <1>2, <1>3

\* kvrados_handle_abort and kvrados_destroy_channel_cb begin cancels only.
LEMMA AbortAInv ==
    ASSUME AInv, NEW c \in Call, kvrados_handle_abort(c), UNCHANGED serviceVars
    PROVE  AInv'
<1>1. PICK U \in SUBSET {c} : nkvx_call_begin_cancel({c}, U)
  BY DEF kvrados_handle_abort
<1>2. {c} \in SUBSET inflight
  BY DEF kvrados_handle_abort
<1>3. /\ chan' \in [Front -> {"open", "draining", "closed"}]
      /\ \A f \in Front : chan'[f] = "closed" <=> chan[f] = "closed"
  BY DEF kvrados_handle_abort, AInv, TypeOK, FrontTypeOK
<1>4. UNCHANGED <<tenantVars, next_call_id, up, shape, execWire, respWire,
                  ackWire, severed, serviceVars>>
  BY DEF kvrados_handle_abort
<1> QED BY <1>1, <1>2, <1>3, <1>4, BeginCancelAInv

\* A destroy of the channel, which cancels every call on it, keeps the accounting.
LEMMA DestroyAInv ==
    ASSUME AInv, NEW f \in Front, kvrados_destroy_channel_cb(f), UNCHANGED serviceVars
    PROVE  AInv'
<1>1. PICK U \in SUBSET (inflight \cap CallsOf(f)) :
          nkvx_call_begin_cancel(inflight \cap CallsOf(f), U)
  BY DEF kvrados_destroy_channel_cb
<1>2. inflight \cap CallsOf(f) \in SUBSET inflight
  OBVIOUS
<1>3. /\ chan' \in [Front -> {"open", "draining", "closed"}]
      /\ \A g \in Front : chan'[g] = "closed" <=> chan[g] = "closed"
  BY DEF kvrados_destroy_channel_cb, AInv, TypeOK, FrontTypeOK
<1>4. UNCHANGED <<tenantVars, next_call_id, up, shape, execWire, respWire,
                  ackWire, severed, serviceVars>>
  BY DEF kvrados_destroy_channel_cb
<1> QED BY <1>1, <1>2, <1>3, <1>4, BeginCancelAInv

--------------------------------------------------------------------------------
(******************************************************************************)
(* The tenant's buffer, as long as the only faults are lost messages and      *)
(* crashes of the executor.                                                   *)
(******************************************************************************)
\* The executor may lose messages and die; it is not mistaken for dead.
HonestFaults == Faults \subseteq {"drop", "crash"}

\* The executor has the request of c, or will have it.
Busy(c) == Registered(c) \/ c \in execWire

\* What the two sides know of each other about the call c.  The last conjunct is
\* the heart: while the executor may touch the buffer, the io is pending, the
\* handles are held, and the front awaits either the response or the ack.
QuietOK(c) ==
    /\ call[c].mem = "unused" => /\ req[c] = NewReq /\ c \notin execWire
                                 /\ c \notin severed
                                 /\ respWire[c] = "none" /\ ackWire[c] = 0
    /\ c \in execWire => req[c] = NewReq
    /\ (respWire[c] # "none" \/ ackWire[c] > 0 \/ c \in severed) => ~Busy(c)
    /\ ~call[c].cancelling => cancelWire[c] = 0 /\ req[c].cancel_handle = {}
    /\ cancelWire[c] > 0 => cancelWire[c] = 1 /\ req[c].cancel_handle = {}
    /\ req[c].cancel_handle \subseteq {c}
    /\ PhaseFits(req[c], shape[c])
    /\ (Busy(c) /\ shape[c] # {}) =>
          /\ fired[c] = 0 /\ call[c].bulks = shape[c]
          /\ fwd[c] = "posted" \/ (call[c].cancelling /\ ~call[c].cancel_acked)

Quiet == \A c \in Call : QuietOK(c)

\* The inductive invariant.
QInv == AInv /\ Quiet

--------------------------------------------------------------------------------
\* No call, nothing to know.
LEMMA InitQuiet == Init => Quiet
BY SMT DEF Init, WireInit, FrontInit, ServiceInit, Quiet, QuietOK, Busy, Registered,
       NewReq, NewCall, PhaseFits

\* A call that a step leaves alone on both sides stays as it is.
LEMMA SameQuiet ==
    ASSUME NEW d \in Call, QuietOK(d), call'[d] = call[d], fired'[d] = fired[d],
           req'[d] = req[d], fwd'[d] = fwd[d], shape'[d] = shape[d],
           d \in execWire' <=> d \in execWire, d \in severed' <=> d \in severed,
           respWire'[d] = respWire[d], ackWire'[d] = ackWire[d],
           cancelWire'[d] = cancelWire[d]
    PROVE  QuietOK(d)'
BY DEF QuietOK, Busy, Registered, PhaseFits

\* Handlers and transfer callbacks: the request goes on or is over, and what is
\* sent about it is sent when it is over.
LEMMA OnRequestQuiet ==
    ASSUME QInv, NEW c \in Call, OnRequest(c), UNCHANGED frontVars
    PROVE  Quiet'
<1>0. TypeOK /\ \A d \in Call : QuietOK(d)
  BY DEF QInv, AInv, Quiet
<1>1. PICK q \in ReqRecord : ServiceStep(c, q)
  BY <1>0, OnRequestStep DEF Stepped
<1>2. UNCHANGED <<call, fired>>
  BY DEF frontVars, callVars, tenantVars
<1>3. /\ UNCHANGED <<fwd, shape, cancelWire, severed>>
      /\ \/ c \in execWire /\ execWire' = execWire \ {c}
         \/ Registered(c) /\ execWire' = execWire
  BY OnRequestFrame
<1>4. /\ req \in [Call -> ReqRecord] /\ ackWire \in [Call -> Nat]
      /\ respWire \in [Call -> Status \cup {"none"}]
  BY <1>0 DEF TypeOK, WireTypeOK, ServiceTypeOK
<1>5. req' = [req EXCEPT ![c] = q] /\ req'[c] = q
  BY <1>1, <1>4 DEF ServiceStep
<1>6. Busy(c) /\ c \notin execWire' /\ call[c].mem # "unused"
  BY <1>0, <1>3, SMT DEF Busy, QuietOK, Registered, NewReq
<1>7. respWire[c] = "none" /\ ~(ackWire[c] > 0) /\ c \notin severed
  BY <1>0, <1>6 DEF QuietOK
<1>8. QuietOK(c)'
  <2>1. PhaseFits(q, shape[c]) /\ q.cancel_handle \in {{}, req[c].cancel_handle}
    BY <1>0, <1>1 DEF ServiceStep, QuietOK
  <2>2. CASE q.phase \notin {"none", "gone"} /\ UNCHANGED <<respWire, ackWire>>
    BY <1>0, <1>2, <1>3, <1>5, <1>6, <1>7, <2>1, <2>2, ZenonT(60)
       DEF QuietOK, Busy, Registered, PhaseFits
  <2>3. CASE q.phase = "gone"
    BY <1>0, <1>2, <1>3, <1>5, <1>6, <2>1, <2>3, SMT DEF QuietOK, Busy, Registered, PhaseFits
  <2> QED BY <1>1, <2>2, <2>3 DEF ServiceStep
<1>9. ASSUME NEW d \in Call, d # c PROVE QuietOK(d)'
  <2>1. req'[d] = req[d] /\ (d \in execWire' <=> d \in execWire)
    BY <1>3, <1>4, <1>5, <1>9
  <2>2. respWire'[d] = respWire[d]
    BY <1>1, <1>4, <1>9 DEF ServiceStep, Answered
  <2>3. d \notin req[c].cancel_handle
    BY <1>0, <1>9 DEF QuietOK
  <2>4. ackWire'[d] = ackWire[d]
    BY <1>1, <1>4, <2>3 DEF ServiceStep, Acked
  <2> QED BY <1>0, <1>2, <1>3, <2>1, <2>2, <2>4, SameQuiet
<1> QED BY <1>8, <1>9 DEF Quiet

\* nkvx_cancel_handler: an ack at once means there is no request and none to come.
LEMMA CancelHandlerQuiet ==
    ASSUME QInv, HonestFaults, NEW c \in Call, nkvx_cancel_handler(c), UNCHANGED frontVars
    PROVE  Quiet'
<1>0. TypeOK /\ (\A d \in Call : QuietOK(d)) /\ CallOK(c)
  BY DEF QInv, AInv, Quiet
<1>1. UNCHANGED <<call, fired>>
  BY DEF frontVars, callVars, tenantVars
<1>2. /\ req \in [Call -> ReqRecord] /\ ackWire \in [Call -> Nat]
      /\ cancelWire \in [Call -> Nat]
  BY <1>0 DEF TypeOK, WireTypeOK, ServiceTypeOK
<1>3. /\ UNCHANGED <<respWire, fwd, shape, execWire, severed>>
      /\ cancelWire[c] > 0 /\ cancelWire' = [cancelWire EXCEPT ![c] = @ - 1]
      /\ c \notin execWire
  BY <1>0, CancelHandlerStep DEF HonestFaults
<1>4. /\ cancelWire[c] = 1 /\ cancelWire'[c] = 0 /\ req[c].cancel_handle = {}
      /\ call[c].cancelling /\ call[c].mem # "unused"
  BY <1>0, <1>2, <1>3, SMT DEF QuietOK, CallOK
<1>5. \A d \in Call : d # c => cancelWire'[d] = cancelWire[d]
  BY <1>2, <1>3
<1>6. CASE req' = req /\ ackWire' = ackWire
  <2>1. QuietOK(c)'
    BY <1>0, <1>1, <1>3, <1>4, <1>6, SMT DEF QuietOK, Busy, Registered, PhaseFits
  <2>2. ASSUME NEW d \in Call, d # c PROVE QuietOK(d)'
    BY <1>0, <1>1, <1>3, <1>5, <1>6, <2>2, SameQuiet
  <2> QED BY <2>1, <2>2 DEF Quiet
<1>7. CASE /\ req' = req
           /\ ackWire' = [d \in Call |-> IF d \in {c} THEN ackWire[d] + 1
                                                      ELSE ackWire[d]]
           /\ ~Registered(c) \/ req[c].cancel_handle # {}
  <2>1. ~Busy(c)
    BY <1>3, <1>4, <1>7 DEF Busy
  <2>2. QuietOK(c)'
    BY <1>0, <1>1, <1>3, <1>4, <1>7, <2>1, SMT DEF QuietOK, Busy, Registered, PhaseFits
  <2>3. ASSUME NEW d \in Call, d # c PROVE QuietOK(d)'
    <3>1. ackWire'[d] = ackWire[d]
      BY <1>7, <2>3
    <3> QED BY <1>0, <1>1, <1>3, <1>5, <1>7, <2>3, <3>1, SameQuiet, ZenonT(60)
  <2> QED BY <2>2, <2>3 DEF Quiet
<1>8. CASE /\ ackWire' = ackWire
           /\ Registered(c) /\ req[c].cancel_handle = {}
           /\ \E m \in ReqRecord : /\ req' = [req EXCEPT ![c] = m]
                                   /\ m.phase = req[c].phase
                                   /\ m.cancel_handle = {c}
  <2>1. PICK m \in ReqRecord : /\ req' = [req EXCEPT ![c] = m]
                               /\ m.phase = req[c].phase
                               /\ m.cancel_handle = {c}
    BY <1>8
  <2>2. req'[c] = m /\ \A d \in Call : d # c => req'[d] = req[d]
    BY <1>2, <2>1
  <2>3. QuietOK(c)'
    BY <1>0, <1>1, <1>3, <1>4, <1>8, <2>1, <2>2, SMT DEF QuietOK, Busy, Registered, PhaseFits
  <2>4. ASSUME NEW d \in Call, d # c PROVE QuietOK(d)'
    BY <1>0, <1>1, <1>3, <1>5, <1>8, <2>2, <2>4, SameQuiet
  <2> QED BY <2>3, <2>4 DEF Quiet
<1> QED BY <1>0, <1>6, <1>7, <1>8, CancelHandlerStep

\* A crash ends every request and loses what was on its way to the executor.
LEMMA ProcessQuiet ==
    ASSUME QInv, Crash \/ Restart, UNCHANGED frontVars
    PROVE  Quiet'
<1>0. TypeOK /\ \A d \in Call : QuietOK(d) /\ CallOK(d)
  BY DEF QInv, AInv, Quiet
<1>1. UNCHANGED <<call, fired>>
  BY DEF frontVars, callVars, tenantVars
<1>2. CASE Crash
  <2> SUFFICES ASSUME NEW c \in Call PROVE QuietOK(c)'
    BY DEF Quiet
  <2>1. /\ execWire' = {} /\ cancelWire'[c] = 0
        /\ UNCHANGED <<fwd, shape, respWire, ackWire>>
        /\ severed' = severed \cup {d \in Call : fwd[d] # "none"}
        /\ req'[c] = IF Registered(c) THEN [NewReq EXCEPT !.phase = "gone"] ELSE req[c]
    BY <1>2 DEF Crash
  <2>2. ~Busy(c)' /\ req'[c].cancel_handle \in {{}, req[c].cancel_handle}
        /\ PhaseFits(req'[c], shape[c])
    BY <1>0, <2>1 DEF Busy, Registered, NewReq, PhaseFits
  <2>3. call[c].mem = "unused" => req'[c] = NewReq /\ c \notin severed'
    BY <1>0, <2>1, SMT DEF QuietOK, CallOK, Registered, NewReq
  <2> QED BY <1>0, <1>1, <2>1, <2>2, <2>3, SMT DEF QuietOK, PhaseFits
<1>3. CASE Restart
  <2> SUFFICES ASSUME NEW c \in Call PROVE QuietOK(c)'
    BY DEF Quiet
  <2>1. UNCHANGED <<req, fwd, shape, execWire, respWire, cancelWire, ackWire, severed>>
    BY <1>3 DEF Restart, serviceVars
  <2> QED BY <1>0, <1>1, <2>1, SameQuiet
<1> QED BY <1>2, <1>3

--------------------------------------------------------------------------------
\* nkvx_front_forward: the request of a new call, or nothing, goes on the wire.
LEMMA ForwardQuiet ==
    ASSUME QInv, NEW f \in Front, nkvx_front_forward(f), UNCHANGED serviceVars
    PROVE  Quiet'
<1>0. TypeOK /\ \A d \in Call : QuietOK(d) /\ CallOK(d)
  BY DEF QInv, AInv, Quiet
<1>1. next_call_id[f] \in Nat /\ MaxCalls \in Nat /\ next_call_id[f] < MaxCalls
  BY <1>0, WireAssumption, SMT DEF TypeOK, FrontTypeOK, nkvx_front_forward
<1>2. next_call_id[f] + 1 \in 1..MaxCalls
  BY <1>1, SMT
<1>3. PICK c \in Call : c = <<f, next_call_id[f] + 1>>
  BY <1>2 DEF Call
<1>4. call[c].mem = "unused" /\ ~call[c].cancelling /\ fired[c] = 0
  BY <1>0, <1>1, <1>3, SMT DEF CallOK
<1>5. /\ call \in [Call -> CallRecord] /\ fwd \in [Call -> {"none", "posted", "canceled", "done"}]
      /\ shape \in [Call -> SUBSET Bulk] /\ fired \in [Call -> Nat]
  BY <1>0 DEF TypeOK, FrontTypeOK, WireTypeOK
<1>6. UNCHANGED <<req, respWire, cancelWire, ackWire>>
  BY DEF nkvx_front_forward, serviceVars
<1>7. /\ req[c] = NewReq /\ c \notin execWire /\ c \notin severed
      /\ respWire[c] = "none" /\ ackWire[c] = 0 /\ cancelWire[c] = 0
  BY <1>0, <1>4 DEF QuietOK
<1>8. CASE \E s \in SUBSET Bulk :
             /\ call' = [call EXCEPT ![c] = NewCall(s)]
             /\ Attach(c)
             /\ exec_inflight' = exec_inflight \cup {c}
             /\ PostExec(c, s)
             /\ UNCHANGED <<fired, outcome>>
  <2>1. PICK s \in SUBSET Bulk : /\ call' = [call EXCEPT ![c] = NewCall(s)]
                                 /\ PostExec(c, s)
                                 /\ UNCHANGED fired
    BY <1>8
  <2>2. call'[c] = NewCall(s) /\ fwd'[c] = "posted" /\ shape'[c] = s
    BY <1>5, <2>1 DEF PostExec
  <2>3. ~(c \in execWire' /\ c \in severed')
    BY <1>7, <2>1 DEF PostExec
  <2>4. QuietOK(c)'
    BY <1>4, <1>6, <1>7, <2>1, <2>2, <2>3, SMT
       DEF QuietOK, Busy, Registered, NewReq, NewCall, PhaseFits
  <2>5. ASSUME NEW d \in Call, d # c PROVE QuietOK(d)'
    <3>1. /\ call'[d] = call[d] /\ fwd'[d] = fwd[d] /\ shape'[d] = shape[d]
          /\ d \in execWire' <=> d \in execWire
          /\ d \in severed' <=> d \in severed
      BY <1>5, <2>1, <2>5 DEF PostExec
    <3> QED BY <1>0, <1>6, <2>1, <3>1, SameQuiet
  <2> QED BY <2>4, <2>5 DEF Quiet
<1>9. CASE /\ call' = [call EXCEPT ![c] = [call[c] EXCEPT !.mem = "freed"]]
           /\ Complete(c, "FAILED")
           /\ UNCHANGED <<inflight, n_inflight, fwd, shape, execWire, severed>>
  <2>1. ~Busy(c)
    BY <1>7, SMT DEF Busy, Registered, NewReq
  <2>2. call'[c].mem = "freed"
    BY <1>5, <1>9 DEF CallRecord
  <2>3. QuietOK(c)'
    BY <1>6, <1>7, <1>9, <2>1, <2>2, SMT DEF QuietOK, Busy, Registered, NewReq, PhaseFits
  <2>4. ASSUME NEW d \in Call, d # c PROVE QuietOK(d)'
    <3>1. call'[d] = call[d] /\ fired'[d] = fired[d]
      BY <1>5, <1>9, <2>4 DEF Complete
    <3> QED BY <1>0, <1>6, <1>9, <3>1, SameQuiet
  <2> QED BY <2>3, <2>4 DEF Quiet
<1> QED BY <1>3, <1>8, <1>9 DEF nkvx_front_forward

\* nkvx_call_begin_cancel: the front awaits the ack from now on, or it goes on
\* awaiting the response.
LEMMA BeginCancelQuiet ==
    ASSUME QInv, NEW S \in SUBSET inflight, NEW U, nkvx_call_begin_cancel(S, U),
           UNCHANGED <<tenantVars, shape, execWire, respWire, ackWire, severed, serviceVars>>
    PROVE  Quiet'
<1>0. TypeOK /\ \A d \in Call : QuietOK(d) /\ CallOK(d)
  BY DEF QInv, AInv, Quiet
<1> DEFINE T == CancelTargets(S)
           sig == NeedsHandshake(T) \ U
<1>1. /\ call' = [c \in Call |->
                   IF c \in T
                   THEN [call[c] EXCEPT !.cancelling = TRUE,
                                        !.cancel_acked = c \notin sig,
                                        !.cancel_handle = c \in sig]
                   ELSE call[c]]
      /\ PostCancels(sig, OriginCancelled(T, U))
  BY DEF nkvx_call_begin_cancel
<1>2. UNCHANGED <<fired, req>>
  BY DEF tenantVars, serviceVars
<1>3. /\ call \in [Call -> CallRecord] /\ cancelWire \in [Call -> Nat]
  BY <1>0 DEF TypeOK, FrontTypeOK, WireTypeOK
<1> SUFFICES ASSUME NEW c \in Call PROVE QuietOK(c)'
  BY DEF Quiet
<1>4. CASE c \notin T
  <2>1. call'[c] = call[c]
    BY <1>1, <1>4
  <2>2. c \notin sig /\ c \notin OriginCancelled(T, U)
    BY <1>4 DEF NeedsHandshake, OriginCancelled
  <2>3. cancelWire'[c] = cancelWire[c] /\ fwd'[c] = fwd[c]
    BY <1>1, <2>2 DEF PostCancels
  <2> QED BY <1>0, <1>2, <2>1, <2>3, SameQuiet
<1>5. CASE c \in T
  <2>1. ~call[c].cancelling /\ c \in inflight /\ call[c].mem = "live"
    BY <1>0, <1>5 DEF CancelTargets, CallOK
  <2>2. cancelWire[c] = 0 /\ req[c].cancel_handle = {}
    BY <1>0, <2>1 DEF QuietOK
  <2>3. cancelWire'[c] \in {0, 1}
    <3>1. cancelWire' = [d \in Call |-> IF d \in sig /\ up THEN cancelWire[d] + 1
                                                         ELSE cancelWire[d]]
      BY <1>1 DEF PostCancels
    <3> HIDE DEF sig
    <3> QED BY <2>2, <3>1, SMT
  <2>4. /\ call'[c].mem = "live" /\ call'[c].cancelling = TRUE
        /\ call'[c].cancel_acked = (c \notin sig) /\ call'[c].bulks = call[c].bulks
    <3> DEFINE a == c \notin sig
               h == c \in sig
    <3>1. call'[c] = [call[c] EXCEPT !.cancelling = TRUE, !.cancel_acked = a,
                                     !.cancel_handle = h]
      BY <1>1, <1>5
    <3>2. a \in BOOLEAN /\ h \in BOOLEAN
      BY SMT
    <3> HIDE DEF a, h
    <3>3. /\ call'[c].mem = call[c].mem /\ call'[c].cancelling = TRUE
          /\ call'[c].cancel_acked = a /\ call'[c].bulks = call[c].bulks
      BY <1>3, <3>1, <3>2, SMT DEF CallRecord
    <3> QED BY <2>1, <3>3 DEF a
  <2>5. (Busy(c) /\ shape[c] # {}) =>
          /\ fired[c] = 0 /\ call'[c].bulks = shape[c]
          /\ fwd'[c] = "posted" \/ (call'[c].cancelling /\ ~call'[c].cancel_acked)
    <3> SUFFICES ASSUME Busy(c), shape[c] # {}
                 PROVE  /\ fired[c] = 0 /\ call'[c].bulks = shape[c]
                        /\ c \in sig \/ fwd'[c] = "posted"
      BY <2>4
    <3>1. fired[c] = 0 /\ call[c].bulks = shape[c] /\ fwd[c] = "posted"
      BY <1>0, <2>1 DEF QuietOK
    <3>2. c \in NeedsHandshake(T)
      BY <1>5, <3>1 DEF NeedsHandshake
    <3>3. c \notin sig => c \notin OriginCancelled(T, U)
      BY <3>2 DEF OriginCancelled
    <3>4. c \notin sig => fwd'[c] = "posted"
      BY <1>1, <3>1, <3>3 DEF PostCancels
    <3> QED BY <2>4, <3>1, <3>4
  <2>6. call'[c].mem # "unused" /\ call'[c].cancelling
    BY <2>4
  <2> HIDE DEF T, sig
  <2> QED BY <1>0, <1>2, <2>2, <2>3, <2>5, <2>6 DEF QuietOK, Busy, Registered, PhaseFits
<1> QED BY <1>4, <1>5

\* A callback of the front on the call c.  If the executor may still touch the
\* buffer, the callback leaves the io and the handles alone, and an ack awaited.
LEMMA CallbackQuiet ==
    ASSUME QInv, NEW c \in Call, UNCHANGED serviceVars,
           UNCHANGED <<shape, cancelWire, severed>>,
           \A d \in Call : d # c =>
              /\ call'[d] = call[d] /\ fired'[d] = fired[d] /\ fwd'[d] = fwd[d]
              /\ d \in execWire' <=> d \in execWire
              /\ respWire'[d] = respWire[d] /\ ackWire'[d] = ackWire[d],
           call'[c].mem # "unused", call'[c].cancelling = call[c].cancelling,
           execWire' \subseteq execWire,
           respWire'[c] \in {respWire[c], "none"},
           ackWire'[c] > 0 => ackWire[c] > 0,
           (Busy(c) /\ shape[c] # {}) =>
              /\ fired'[c] = 0 /\ call'[c].bulks = shape[c]
              /\ call'[c].cancelling /\ ~call'[c].cancel_acked
    PROVE  Quiet'
<1>0. \A d \in Call : QuietOK(d)
  BY DEF QInv, Quiet
<1>1. UNCHANGED req
  BY DEF serviceVars
<1>2. QuietOK(c)'
  BY <1>0, <1>1 DEF QuietOK, Busy, Registered, PhaseFits
<1>3. ASSUME NEW d \in Call, d # c PROVE QuietOK(d)'
  BY <1>0, <1>1, <1>3, SameQuiet
<1> QED BY <1>2, <1>3 DEF Quiet

\* nkvx_call_try_complete touches one call, and keeps whether it is cancelling.
LEMMA TryCompleteFrame ==
    ASSUME TypeOK, NEW c \in Call, NEW r \in CallRecord, nkvx_call_try_complete(c, r)
    PROVE  /\ \A d \in Call : d # c => call'[d] = call[d] /\ fired'[d] = fired[d]
           /\ call'[c].mem \in {r.mem, "freed"} /\ call'[c].cancelling = r.cancelling
           /\ ~JoinReady(r) => call'[c] = r /\ fired'[c] = fired[c]
<1>0. call \in [Call -> CallRecord] /\ fired \in [Call -> Nat]
  BY DEF TypeOK, FrontTypeOK
<1>1. CASE JoinReady(r)
  <2>1. PICK q : q = [r EXCEPT !.mem = "freed", !.bulks = {},
                              !.tenant_done = TRUE, !.detached = TRUE]
    OBVIOUS
  <2>2. q.mem = "freed" /\ q.cancelling = r.cancelling
    BY <2>1 DEF CallRecord
  <2>3. call' = [call EXCEPT ![c] = q]
    BY <1>1, <2>1 DEF nkvx_call_try_complete
  <2>4. \A d \in Call : d # c => fired'[d] = fired[d]
    BY <1>0, <1>1 DEF nkvx_call_try_complete, Complete, tenantVars
  <2> QED BY <1>0, <1>1, <2>2, <2>3, <2>4
<1>2. CASE ~JoinReady(r)
  BY <1>0, <1>2 DEF nkvx_call_try_complete, tenantVars
<1> QED BY <1>1, <1>2

\* nkvx_front_forward_cb: a forward that resolves with the executor still busy was
\* cancelled at the origin, and then the ack is awaited.
LEMMA ForwardCbQuiet ==
    ASSUME QInv, HonestFaults, NEW c \in Call, nkvx_front_forward_cb(c),
           UNCHANGED serviceVars
    PROVE  Quiet'
<1>0. TypeOK /\ QuietOK(c) /\ CallOK(c)
  BY DEF QInv, AInv, Quiet
<1>1. PICK st \in ForwardResults(c) :
         IF call[c].cancelling
         THEN nkvx_call_try_complete(c, [call[c] EXCEPT !.forward_done = TRUE])
         ELSE /\ call' = [call EXCEPT ![c] = [call[c] EXCEPT !.mem = "freed",
                                               !.bulks = {}, !.detached = TRUE]]
              /\ IF call[c].tenant_done
                 THEN UNCHANGED <<inflight, n_inflight, tenantVars>>
                 ELSE Detach(c) /\ Complete(c, st)
  BY DEF nkvx_front_forward_cb
<1>2. /\ call \in [Call -> CallRecord] /\ call[c] \in CallRecord
      /\ fired \in [Call -> Nat] /\ call[c].mem # "unused"
  BY <1>0 DEF TypeOK, FrontTypeOK, CallOK, nkvx_front_forward_cb, Outstanding
<1>3. Busy(c) => fwd[c] = "canceled"
  BY <1>0, ZenonT(60) DEF QuietOK, ForwardResults, HonestFaults
<1>4. (Busy(c) /\ shape[c] # {}) =>
         /\ fired[c] = 0 /\ call[c].bulks = shape[c]
         /\ call[c].cancelling /\ ~call[c].cancel_acked
  BY <1>0, <1>3 DEF QuietOK
<1>5. /\ fwd' = [fwd EXCEPT ![c] = "done"] /\ respWire' = [respWire EXCEPT ![c] = "none"]
      /\ execWire' = execWire \/ execWire' = execWire \ {c}
      /\ UNCHANGED <<shape, cancelWire, ackWire, severed>>
  BY DEF nkvx_front_forward_cb
<1>6. /\ \A d \in Call : d # c => fwd'[d] = fwd[d] /\ respWire'[d] = respWire[d]
      /\ respWire'[c] = "none" /\ execWire' \subseteq execWire
      /\ \A d \in Call : d # c => (d \in execWire' <=> d \in execWire)
  BY <1>0, <1>5 DEF TypeOK, WireTypeOK
<1>7. CASE call[c].cancelling
  <2> DEFINE r == [call[c] EXCEPT !.forward_done = TRUE]
  <2>1. /\ r \in CallRecord /\ r.mem = call[c].mem /\ r.cancelling = call[c].cancelling
        /\ r.cancel_acked = call[c].cancel_acked /\ r.bulks = call[c].bulks
    BY <1>2, ForwardDoneRecord
  <2>2. nkvx_call_try_complete(c, r)
    BY <1>1, <1>7
  <2> HIDE DEF r
  <2>3. /\ \A d \in Call : d # c => call'[d] = call[d] /\ fired'[d] = fired[d]
        /\ call'[c].mem \in {r.mem, "freed"} /\ call'[c].cancelling = r.cancelling
        /\ ~JoinReady(r) => call'[c] = r /\ fired'[c] = fired[c]
    BY <1>0, <2>1, <2>2, TryCompleteFrame
  <2>4. (Busy(c) /\ shape[c] # {}) =>
           /\ fired'[c] = 0 /\ call'[c].bulks = shape[c]
           /\ call'[c].cancelling /\ ~call'[c].cancel_acked
    BY <1>4, <2>1, <2>3 DEF JoinReady
  <2> QED BY <1>2, <1>5, <1>6, <2>1, <2>3, <2>4, CallbackQuiet, ZenonT(60)
<1>8. CASE ~call[c].cancelling
  <2>1. ~(Busy(c) /\ shape[c] # {})
    BY <1>4, <1>8
  <2> DEFINE q == [call[c] EXCEPT !.mem = "freed", !.bulks = {}, !.detached = TRUE]
  <2>2. q.mem = "freed" /\ q.cancelling = call[c].cancelling
    BY <1>2, ReapedRecord
  <2>3. call' = [call EXCEPT ![c] = q]
    BY <1>1, <1>8
  <2> HIDE DEF q
  <2>4. \A d \in Call : d # c => call'[d] = call[d] /\ fired'[d] = fired[d]
    BY <1>1, <1>2, <1>8, <2>3 DEF Complete, tenantVars
  <2>5. call'[c].mem # "unused" /\ call'[c].cancelling = call[c].cancelling
    BY <1>2, <2>2, <2>3
  <2> QED BY <1>5, <1>6, <2>1, <2>4, <2>5, CallbackQuiet, ZenonT(60)
<1> QED BY <1>7, <1>8

\* nkvx_cancel_ack_cb: an ack, or a dead connection, means that the executor is
\* through with the call.
LEMMA AckCbQuiet ==
    ASSUME QInv, HonestFaults, NEW c \in Call, nkvx_cancel_ack_cb(c),
           UNCHANGED serviceVars
    PROVE  Quiet'
<1>0. TypeOK /\ QuietOK(c) /\ CallOK(c)
  BY DEF QInv, AInv, Quiet
<1>1. call[c] \in CallRecord /\ call[c].mem # "unused" /\ ackWire \in [Call -> Nat]
  BY <1>0 DEF TypeOK, FrontTypeOK, WireTypeOK, CallOK, nkvx_cancel_ack_cb
<1>2. ~Busy(c)
  BY <1>0 DEF QuietOK, nkvx_cancel_ack_cb, HonestFaults
<1>3. ackWire' = ackWire \/ (ackWire' = [ackWire EXCEPT ![c] = @ - 1] /\ ackWire[c] > 0)
  BY DEF nkvx_cancel_ack_cb
<1>4. /\ ackWire'[c] > 0 => ackWire[c] > 0
      /\ \A d \in Call : d # c => ackWire'[d] = ackWire[d]
  BY <1>1, <1>3
<1>5. UNCHANGED <<fwd, shape, execWire, respWire, cancelWire, severed>>
  BY DEF nkvx_cancel_ack_cb
<1> DEFINE r == [call[c] EXCEPT !.cancel_handle = FALSE, !.cancel_acked = TRUE]
<1>6. r \in CallRecord /\ r.mem = call[c].mem /\ r.cancelling = call[c].cancelling
  BY <1>1, AckedRecord
<1>7. nkvx_call_try_complete(c, r)
  BY DEF nkvx_cancel_ack_cb
<1> HIDE DEF r
<1>8. /\ \A d \in Call : d # c => call'[d] = call[d] /\ fired'[d] = fired[d]
      /\ call'[c].mem \in {r.mem, "freed"} /\ call'[c].cancelling = r.cancelling
  BY <1>0, <1>6, <1>7, TryCompleteFrame
<1>9. call'[c].mem # "unused" /\ call'[c].cancelling = call[c].cancelling
  BY <1>1, <1>6, <1>8
<1> QED BY <1>2, <1>4, <1>5, <1>8, <1>9, CallbackQuiet

--------------------------------------------------------------------------------
\* Every step of either tier keeps what they know of each other.
LEMMA NextQuiet ==
    ASSUME HonestFaults, QInv, [Next]_vars
    PROVE  Quiet'
<1>1. ASSUME NEW f \in Front, nkvx_front_forward(f), UNCHANGED serviceVars PROVE Quiet'
  BY <1>1, ForwardQuiet
<1>2. ASSUME NEW f \in Front, kvrados_destroy_channel_cb(f), UNCHANGED serviceVars
      PROVE  Quiet'
  <2>1. PICK U \in SUBSET (inflight \cap CallsOf(f)) :
            nkvx_call_begin_cancel(inflight \cap CallsOf(f), U)
    BY <1>2 DEF kvrados_destroy_channel_cb
  <2>2. inflight \cap CallsOf(f) \in SUBSET inflight
    OBVIOUS
  <2>3. UNCHANGED <<tenantVars, shape, execWire, respWire, ackWire, severed, serviceVars>>
    BY <1>2 DEF kvrados_destroy_channel_cb
  <2> QED BY <2>1, <2>2, <2>3, BeginCancelQuiet
<1>3. ASSUME NEW c \in Call, kvrados_handle_abort(c), UNCHANGED serviceVars
      PROVE  Quiet'
  <2>1. PICK U \in SUBSET {c} : nkvx_call_begin_cancel({c}, U)
    BY <1>3 DEF kvrados_handle_abort
  <2>2. {c} \in SUBSET inflight
    BY <1>3 DEF kvrados_handle_abort
  <2>3. UNCHANGED <<tenantVars, shape, execWire, respWire, ackWire, severed, serviceVars>>
    BY <1>3 DEF kvrados_handle_abort
  <2> QED BY <2>1, <2>2, <2>3, BeginCancelQuiet
<1>4. ASSUME UNCHANGED <<call, fired, wireVars, serviceVars>> PROVE Quiet'
  <2>1. UNCHANGED <<call, fired, req, fwd, shape, execWire, respWire, cancelWire,
                    ackWire, severed>>
    BY <1>4 DEF wireVars, serviceVars
  <2>2. \A c \in Call : QuietOK(c)
    BY DEF QInv, Quiet
  <2> SUFFICES ASSUME NEW c \in Call PROVE QuietOK(c)'
    BY DEF Quiet
  <2> QED BY <2>1, <2>2, SameQuiet
<1>5. ASSUME NEW f \in Front, DrainDone(f), UNCHANGED serviceVars PROVE Quiet'
  <2>1. UNCHANGED <<call, fired, wireVars, serviceVars>>
    BY <1>5 DEF DrainDone, callVars, tenantVars
  <2> QED BY <1>4, <2>1, SMT
<1>6. ASSUME NEW f \in Front, DrainError(f) PROVE FALSE
  BY <1>6 DEF DrainError, HonestFaults
<1>7. ASSUME NEW c \in Call, UNCHANGED serviceVars,
             nkvx_front_forward_cb(c) \/ nkvx_cancel_ack_cb(c)
      PROVE  Quiet'
  BY <1>7, ForwardCbQuiet, AckCbQuiet
<1>8. ASSUME NEW c \in Call, UNCHANGED frontVars, OnRequest(c) \/ nkvx_cancel_handler(c)
      PROVE  Quiet'
  BY <1>8, OnRequestQuiet, CancelHandlerQuiet
<1>9. ASSUME UNCHANGED frontVars, Crash \/ Restart PROVE Quiet'
  BY <1>9, ProcessQuiet
<1>10. CASE UNCHANGED vars
  <2>1. UNCHANGED <<call, fired, wireVars, serviceVars>>
    BY <1>10 DEF vars, frontVars, callVars, tenantVars
  <2> QED BY <1>4, <2>1
<1> QED BY <1>1, <1>2, <1>3, <1>5, <1>6, <1>7, <1>8, <1>9, <1>10 DEF Next, OnRequest

--------------------------------------------------------------------------------
(******************************************************************************)
(* The two tiers implement the lease of the tenant's buffer, for any number   *)
(* of fronts and calls, when the only faults are lost messages and crashes.   *)
(******************************************************************************)

\* A reported result is whole, and nothing is whole before a PUSH completed.
SinkOK(c) ==
    /\ (respWire[c] = "SINK" \/ outcome[c] = "SINK") => sinkData[c] = "whole"
    /\ (Busy(c) \/ call[c].mem = "unused") => sinkData[c] # "whole"

\* The inductive invariant.
SInv == QInv /\ \A c \in Call : SinkOK(c)

\* A step of the lease, or none.
LeaseStep == [Lease!LeaseNext]_(Lease!leaseVars)

--------------------------------------------------------------------------------
\* Initially every buffer is idle.
LEMMA InitSink == Init => Lease!LeaseInit /\ \A c \in Call : SinkOK(c)
<1> SUFFICES ASSUME Init PROVE Lease!LeaseInit /\ \A c \in Call : SinkOK(c)
  OBVIOUS
<1> USE DEF Init, WireInit, FrontInit, ServiceInit
<1>1. \A c \in Call : SinkOK(c)
  BY SMT DEF SinkOK
<1>2. Touched = {} /\ Filled = {}
  BY SMT DEF Touched, Filled, Touching, push_in_flight, NewReq
<1>3. LeaseState = [c \in Call |-> "idle"]
  BY SMT DEF LeaseState, NewCall
<1> QED BY <1>1, <1>2, <1>3 DEF Lease!LeaseInit

\* A step that changes neither the io nor the request nor the buffer of any call.
LEMMA Stutter ==
    ASSUME UNCHANGED <<fired, outcome, sinkData>>,
           \A c \in Call : /\ call'[c].mem = "unused" <=> call[c].mem = "unused"
                           /\ req'[c].phase = req[c].phase
    PROVE  LeaseStep
<1>1. LeaseState' = LeaseState
  BY DEF LeaseState
<1>2. Touched' = Touched
  BY DEF Touched, Touching, push_in_flight
<1>3. Filled' = Filled
  BY DEF Filled
<1> QED BY <1>1, <1>2, <1>3 DEF LeaseStep, Lease!leaseVars

\* A step that completes the io of c with st, the executor through with c.
LEMMA ReturnStep ==
    ASSUME TypeOK, NEW c \in Call, NEW st \in Status, Complete(c, st), fired[c] = 0,
           ~Touching(c), st = "SINK" => sinkData[c] = "whole",
           UNCHANGED serviceVars,
           \A d \in Call : d # c => call'[d] = call[d]
    PROVE  LeaseStep
<1>0. fired \in [Call -> Nat] /\ outcome \in [Call -> Status \cup {"none"}]
  BY DEF TypeOK, FrontTypeOK
<1>1. LeaseState[c] \in {"idle", "lent"}
  BY SMT DEF LeaseState
<1>2. c \notin Touched /\ (st = "SINK" => c \in Filled)
  BY DEF Touched, Filled
<1>3. UNCHANGED <<Touched, Filled>>
  BY DEF Touched, Filled, Touching, push_in_flight, serviceVars
<1>4. LeaseState' = [LeaseState EXCEPT ![c] = st]
  <2>1. fired' = [fired EXCEPT ![c] = @ + 1] /\ outcome' = [outcome EXCEPT ![c] = st]
    BY DEF Complete
  <2>2. fired'[c] > 0 /\ outcome'[c] = st
    BY <1>0, <2>1, SMT
  <2>3. \A d \in Call : d # c => fired'[d] = fired[d] /\ outcome'[d] = outcome[d]
    BY <1>0, <2>1
  <2> QED BY <2>2, <2>3 DEF LeaseState
<1>5. Lease!Return(c, st)
  BY <1>1, <1>2, <1>3, <1>4 DEF Lease!Return
<1>6. st \in {"INLINE", "SINK", "FAILED", "ABORTED"}
  BY DEF Status
<1> QED BY <1>5, <1>6 DEF LeaseStep, Lease!LeaseNext

--------------------------------------------------------------------------------
\* A handler or transfer callback of c keeps the other calls' buffers.
LEMMA OnRequestOthers ==
    ASSUME SInv, NEW c \in Call, OnRequest(c), UNCHANGED frontVars,
           SinkOK(c)'
    PROVE  \A d \in Call : SinkOK(d)'
<1>0. TypeOK /\ \A d \in Call : SinkOK(d)
  BY DEF SInv, QInv, AInv
<1>1. PICK q \in ReqRecord : ServiceStep(c, q)
  BY <1>0, OnRequestStep DEF Stepped
<1>2. UNCHANGED <<call, outcome>>
  BY DEF frontVars, callVars, tenantVars
<1>3. execWire' = execWire \ {c} \/ execWire' = execWire
  BY OnRequestFrame
<1>4. /\ req \in [Call -> ReqRecord] /\ sinkData \in [Call -> {"old", "torn", "whole"}]
      /\ respWire \in [Call -> Status \cup {"none"}]
  BY <1>0 DEF TypeOK, WireTypeOK, ServiceTypeOK
<1>5. ASSUME NEW d \in Call, d # c PROVE SinkOK(d)'
  <2>1. req'[d] = req[d]
    BY <1>1, <1>4, <1>5 DEF ServiceStep
  <2>2. sinkData'[d] = sinkData[d]
    BY <1>1, <1>4, <1>5 DEF ServiceStep, SinkStep
  <2>3. respWire'[d] = respWire[d]
    BY <1>1, <1>4, <1>5 DEF ServiceStep, Answered
  <2> QED BY <1>0, <1>2, <1>3, <1>5, <2>1, <2>2, <2>3 DEF SinkOK, Busy, Registered
<1> QED BY <1>5

\* A handler or transfer callback starts a transfer, ends one, or neither.
LEMMA OnRequestSim ==
    ASSUME SInv, NEW c \in Call, OnRequest(c), UNCHANGED frontVars
    PROVE  LeaseStep /\ \A d \in Call : SinkOK(d)'
<1>0. TypeOK /\ QuietOK(c) /\ CallOK(c) /\ \A d \in Call : SinkOK(d)
  BY SMT DEF SInv, QInv, Quiet, AInv
<1>1. PICK q \in ReqRecord : ServiceStep(c, q)
  BY <1>0, OnRequestStep DEF Stepped
<1>2. UNCHANGED <<call, fired, outcome>>
  BY DEF frontVars, callVars, tenantVars
<1>3. /\ UNCHANGED shape
      /\ \/ c \in execWire /\ execWire' = execWire \ {c}
         \/ Registered(c) /\ execWire' = execWire
  BY OnRequestFrame
<1>4. /\ req \in [Call -> ReqRecord] /\ sinkData \in [Call -> {"old", "torn", "whole"}]
      /\ respWire \in [Call -> Status \cup {"none"}]
  BY <1>0 DEF TypeOK, WireTypeOK, ServiceTypeOK
<1>5. req'[c] = q /\ \A d \in Call : d # c => req'[d] = req[d]
  BY <1>1, <1>4 DEF ServiceStep
<1>6. /\ Busy(c) /\ c \notin execWire' /\ call[c].mem # "unused"
      /\ sinkData[c] # "whole" /\ respWire[c] = "none" /\ outcome[c] # "SINK"
  BY <1>0, <1>3, SMT DEF Busy, QuietOK, SinkOK, Registered, NewReq
<1>7. SinkStep(c, q) /\ PhaseFits(q, shape[c])
  BY <1>0, <1>1 DEF ServiceStep, QuietOK
<1>8. \A d \in Call : d # c => sinkData'[d] = sinkData[d]
  BY <1>4, <1>7 DEF SinkStep
<1>9. LeaseState' = LeaseState
  BY <1>2 DEF LeaseState
<1>10. push_in_flight(q) => LeaseState[c] = "lent"
  <2> SUFFICES ASSUME push_in_flight(q) PROVE fired[c] = 0
    BY <1>6, SMT DEF LeaseState
  <2>1. shape[c] # {}
    BY <1>7 DEF PhaseFits, push_in_flight
  <2> QED BY <1>0, <1>6, <2>1 DEF QuietOK
<1>11. /\ push_in_flight(q) => Touched' = Touched \cup {c}
       /\ ~push_in_flight(q) => Touched' = Touched \ {c}
  BY <1>5 DEF Touched, Touching
<1>12. CASE sinkData'[c] # "whole"
  <2>1. Filled' = Filled
    BY <1>6, <1>8, <1>12 DEF Filled
  <2>2. ASSUME push_in_flight(q) PROVE LeaseStep
    <3>1. Lease!Touch(c)
      BY <1>9, <1>10, <1>11, <2>1, <2>2 DEF Lease!Touch
    <3> QED BY <3>1 DEF LeaseStep, Lease!LeaseNext
  <2>3. ASSUME ~push_in_flight(q) /\ c \in Touched PROVE LeaseStep
    <3>1. Lease!Untouch(c)
      BY <1>9, <1>11, <2>1, <2>3 DEF Lease!Untouch
    <3> QED BY <3>1 DEF LeaseStep, Lease!LeaseNext
  <2>4. ASSUME ~push_in_flight(q) /\ c \notin Touched PROVE LeaseStep
    BY <1>9, <1>11, <2>1, <2>4 DEF LeaseStep, Lease!leaseVars
  <2>5. LeaseStep
    BY <2>2, <2>3, <2>4
  <2>6. SinkOK(c)'
    <3>1. respWire'[c] # "SINK"
      BY <1>1, <1>4, <1>6, <1>12 DEF ServiceStep, Answered
    <3> QED BY <1>2, <1>6, <1>12, <3>1 DEF SinkOK
  <2> QED BY <1>0, <2>5, <2>6, OnRequestOthers
<1>13. CASE sinkData'[c] = "whole"
  <2>1. q.phase = "gone" /\ req[c].phase = "pushing"
    BY <1>4, <1>6, <1>7, <1>13 DEF SinkStep
  <2>2. Filled' = Filled \cup {c}
    BY <1>8, <1>13 DEF Filled
  <2>3. c \in Touched /\ ~push_in_flight(q)
    BY <2>1 DEF Touched, Touching, push_in_flight
  <2>4. Lease!Untouch(c)
    BY <1>9, <1>11, <2>2, <2>3 DEF Lease!Untouch
  <2>5. LeaseStep
    BY <2>4 DEF LeaseStep, Lease!LeaseNext
  <2>6. SinkOK(c)'
    BY <1>2, <1>5, <1>6, <1>13, <2>1 DEF SinkOK, Busy, Registered
  <2> QED BY <1>0, <2>5, <2>6, OnRequestOthers
<1> QED BY <1>12, <1>13, SMT

\* A cancel starts and ends no transfer.
LEMMA CancelHandlerSim ==
    ASSUME SInv, NEW c \in Call, nkvx_cancel_handler(c), UNCHANGED frontVars
    PROVE  LeaseStep /\ \A d \in Call : SinkOK(d)'
<1>0. TypeOK /\ \A d \in Call : SinkOK(d)
  BY DEF SInv, QInv, AInv
<1>1. UNCHANGED <<call, fired, outcome>>
  BY DEF frontVars, callVars, tenantVars
<1>2. UNCHANGED <<sinkData, respWire, execWire>>
  BY <1>0, CancelHandlerStep
<1>3. \A d \in Call : req'[d].phase = req[d].phase
  BY <1>0, CancelHandlerStep DEF TypeOK, ServiceTypeOK
<1>4. \A d \in Call : SinkOK(d)'
  BY <1>0, <1>1, <1>2, <1>3 DEF SinkOK, Busy, Registered
<1> QED BY <1>1, <1>2, <1>3, <1>4, Stutter

\* A crash ends all transfers, a restart none.
LEMMA ProcessSim ==
    ASSUME SInv, Crash \/ Restart, UNCHANGED frontVars
    PROVE  LeaseStep /\ \A d \in Call : SinkOK(d)'
<1>0. \A d \in Call : SinkOK(d)
  BY DEF SInv
<1>1. UNCHANGED <<call, fired, outcome>>
  BY DEF frontVars, callVars, tenantVars
<1>2. CASE Crash
  <2>1. \A d \in Call : ~Registered(d)' /\ ~Touching(d)'
    BY <1>2 DEF Crash, Registered, Touching, push_in_flight, NewReq
  <2>2. UNCHANGED <<sinkData, respWire>> /\ execWire' = {}
    BY <1>2 DEF Crash
  <2>3. \A d \in Call : SinkOK(d)'
    BY <1>0, <1>1, <2>1, <2>2 DEF SinkOK, Busy
  <2>4. Touched' = {} /\ Filled' = Filled /\ LeaseState' = LeaseState
    BY <1>1, <2>1, <2>2 DEF Touched, Filled, LeaseState
  <2>5. Lease!UntouchAll
    BY <2>4 DEF Lease!UntouchAll
  <2> QED BY <2>3, <2>5 DEF LeaseStep, Lease!LeaseNext
<1>3. CASE Restart
  <2>1. UNCHANGED <<req, sinkData, respWire, execWire>>
    BY <1>3 DEF Restart, serviceVars
  <2>2. \A d \in Call : SinkOK(d)'
    BY <1>0, <1>1, <2>1 DEF SinkOK, Busy, Registered
  <2> QED BY <1>1, <2>1, <2>2, Stutter
<1> QED BY <1>2, <1>3

--------------------------------------------------------------------------------
\* nkvx_front_forward lends the buffer, or returns it at once.
LEMMA ForwardSim ==
    ASSUME SInv, NEW f \in Front, nkvx_front_forward(f), UNCHANGED serviceVars
    PROVE  LeaseStep /\ \A d \in Call : SinkOK(d)'
<1>0. TypeOK /\ \A d \in Call : SinkOK(d) /\ QuietOK(d) /\ CallOK(d)
  BY DEF SInv, QInv, AInv, Quiet
<1>1. next_call_id[f] \in Nat /\ MaxCalls \in Nat /\ next_call_id[f] < MaxCalls
  BY <1>0, WireAssumption, SMT DEF TypeOK, FrontTypeOK, nkvx_front_forward
<1>2. next_call_id[f] + 1 \in 1..MaxCalls
  BY <1>1, SMT
<1>3. PICK c \in Call : c = <<f, next_call_id[f] + 1>>
  BY <1>2 DEF Call
<1>4. call[c].mem = "unused" /\ fired[c] = 0
  BY <1>0, <1>1, <1>3, SMT DEF CallOK
<1>5. req[c] = NewReq /\ c \notin execWire /\ sinkData[c] # "whole" /\ respWire[c] # "SINK"
      /\ outcome[c] # "SINK"
  BY <1>0, <1>4 DEF QuietOK, SinkOK
<1>6. /\ call \in [Call -> CallRecord] /\ fired \in [Call -> Nat]
      /\ outcome \in [Call -> Status \cup {"none"}]
  BY <1>0 DEF TypeOK, FrontTypeOK
<1>7. UNCHANGED <<req, sinkData, respWire>>
  BY DEF nkvx_front_forward, serviceVars
<1>8. CASE \E s \in SUBSET Bulk :
             /\ call' = [call EXCEPT ![c] = NewCall(s)]
             /\ Attach(c)
             /\ exec_inflight' = exec_inflight \cup {c}
             /\ PostExec(c, s)
             /\ UNCHANGED <<fired, outcome>>
  <2>1. PICK s \in SUBSET Bulk : /\ call' = [call EXCEPT ![c] = NewCall(s)]
                                 /\ PostExec(c, s)
                                 /\ UNCHANGED <<fired, outcome>>
    BY <1>8
  <2>2. call'[c].mem = "live" /\ \A d \in Call : d # c => call'[d] = call[d]
    BY <1>6, <2>1 DEF NewCall
  <2>3. LeaseState[c] = "idle" /\ LeaseState' = [LeaseState EXCEPT ![c] = "lent"]
    <3>1. LeaseState[c] = "idle"
      BY <1>4, SMT DEF LeaseState
    <3>2. LeaseState'[c] = "lent"
      BY <1>4, <2>1, <2>2, SMT DEF LeaseState
    <3>3. \A d \in Call : d # c => LeaseState'[d] = LeaseState[d]
      BY <2>1, <2>2 DEF LeaseState
    <3> QED BY <3>1, <3>2, <3>3 DEF LeaseState
  <2>4. UNCHANGED <<Touched, Filled>>
    BY <1>7 DEF Touched, Filled, Touching, push_in_flight
  <2>5. Lease!Lend(c)
    BY <2>3, <2>4 DEF Lease!Lend
  <2>6. LeaseStep
    BY <2>5 DEF LeaseStep, Lease!LeaseNext
  <2>7. SinkOK(c)'
    BY <1>5, <1>7, <2>1 DEF SinkOK
  <2>8. ASSUME NEW d \in Call, d # c PROVE SinkOK(d)'
    <3>1. d \in execWire' <=> d \in execWire
      BY <2>1, <2>8 DEF PostExec
    <3> QED BY <1>0, <1>7, <2>1, <2>2, <2>8, <3>1 DEF SinkOK, Busy, Registered
  <2> QED BY <2>6, <2>7, <2>8
<1>9. CASE /\ call' = [call EXCEPT ![c] = [call[c] EXCEPT !.mem = "freed"]]
           /\ Complete(c, "FAILED")
           /\ UNCHANGED <<inflight, n_inflight, fwd, shape, execWire, severed>>
  <2>1. \A d \in Call : d # c => call'[d] = call[d]
    BY <1>6, <1>9
  <2>2. ~Touching(c)
    BY <1>5, SMT DEF Touching, push_in_flight, NewReq
  <2>3. LeaseStep
    BY <1>0, <1>4, <1>9, <2>1, <2>2, ReturnStep DEF Status
  <2>4. outcome'[c] = "FAILED" /\ \A d \in Call : d # c => outcome'[d] = outcome[d]
    BY <1>6, <1>9 DEF Complete
  <2>5. SinkOK(c)'
    BY <1>5, <1>7, <2>4 DEF SinkOK
  <2>6. ASSUME NEW d \in Call, d # c PROVE SinkOK(d)'
    BY <1>0, <1>7, <1>9, <2>1, <2>4, <2>6 DEF SinkOK, Busy, Registered
  <2> QED BY <2>3, <2>5, <2>6
<1> QED BY <1>3, <1>8, <1>9 DEF nkvx_front_forward

\* Beginning a cancel, and closing a drained channel, leave the lease alone.
LEMMA BeginCancelSim ==
    ASSUME SInv, NEW S \in SUBSET inflight, NEW U, nkvx_call_begin_cancel(S, U),
           UNCHANGED <<tenantVars, execWire, respWire, serviceVars>>
    PROVE  LeaseStep /\ \A d \in Call : SinkOK(d)'
<1>0. TypeOK /\ \A d \in Call : SinkOK(d)
  BY DEF SInv, QInv, AInv
<1> DEFINE T == CancelTargets(S)
           sig == NeedsHandshake(T) \ U
<1>1. ASSUME NEW c \in Call PROVE call'[c].mem = call[c].mem
  <2>1. CASE c \in T
    <3> DEFINE a == c \notin sig
               h == c \in sig
    <3>1. call' = [d \in Call |->
                     IF d \in T
                     THEN [call[d] EXCEPT !.cancelling = TRUE,
                                          !.cancel_acked = d \notin sig,
                                          !.cancel_handle = d \in sig]
                     ELSE call[d]]
      BY DEF nkvx_call_begin_cancel
    <3>2. call'[c] = [call[c] EXCEPT !.cancelling = TRUE, !.cancel_acked = a,
                                     !.cancel_handle = h]
      BY <2>1, <3>1
    <3>3. a \in BOOLEAN /\ h \in BOOLEAN /\ call[c] \in CallRecord
      BY <1>0, SMT DEF TypeOK, FrontTypeOK
    <3> HIDE DEF a, h
    <3> QED BY <3>2, <3>3, SMT DEF CallRecord
  <2>2. CASE c \notin T
    BY <2>2 DEF nkvx_call_begin_cancel
  <2> QED BY <2>1, <2>2, SMT
<1> HIDE DEF T, sig
<1>2. UNCHANGED <<fired, outcome, req, sinkData>>
  BY DEF tenantVars, serviceVars
<1>3. \A d \in Call : SinkOK(d)'
  BY <1>0, <1>1, <1>2 DEF SinkOK, Busy, Registered
<1> QED BY <1>1, <1>2, <1>3, Stutter

\* nkvx_call_try_complete returns the buffer when it completes the io, which is
\* never while a transfer uses it.
LEMMA TryCompleteSim ==
    ASSUME SInv, NEW c \in inflight, NEW r \in CallRecord, nkvx_call_try_complete(c, r),
           r.mem = "live", ~r.tenant_done, JoinReady(r) => ~Touching(c),
           UNCHANGED serviceVars
    PROVE  /\ LeaseStep
           /\ \A d \in Call : /\ call'[d].mem = "unused" <=> call[d].mem = "unused"
                              /\ outcome'[d] = "SINK" => outcome[d] = "SINK"
<1>0. TypeOK /\ c \in Call /\ CallOK(c)
  BY DEF SInv, QInv, AInv, TypeOK, FrontTypeOK
<1>1. call[c].mem = "live" /\ fired[c] = 0
  BY <1>0 DEF CallOK
<1>2. /\ \A d \in Call : d # c => call'[d] = call[d] /\ fired'[d] = fired[d]
      /\ call'[c].mem \in {r.mem, "freed"}
      /\ ~JoinReady(r) => call'[c] = r /\ fired'[c] = fired[c]
  BY <1>0, TryCompleteFrame
<1>3. \A d \in Call : call'[d].mem = "unused" <=> call[d].mem = "unused"
  BY <1>1, <1>2
<1>4. outcome \in [Call -> Status \cup {"none"}]
  BY <1>0 DEF TypeOK, FrontTypeOK
<1>5. CASE JoinReady(r)
  <2>1. Complete(c, "ABORTED")
    BY <1>5 DEF nkvx_call_try_complete
  <2>2. \A d \in Call : outcome'[d] = "SINK" => outcome[d] = "SINK"
    BY <1>0, <1>4, <2>1 DEF Complete
  <2>3. LeaseStep
    BY <1>0, <1>1, <1>2, <1>5, <2>1, ReturnStep DEF Status
  <2> QED BY <1>3, <2>2, <2>3
<1>6. CASE ~JoinReady(r)
  <2>1. UNCHANGED <<fired, outcome>>
    BY <1>6 DEF nkvx_call_try_complete, tenantVars
  <2>2. UNCHANGED <<sinkData, req>>
    BY DEF serviceVars
  <2>3. LeaseStep
    BY <1>3, <2>1, <2>2, Stutter
  <2> QED BY <1>3, <2>1, <2>3
<1> QED BY <1>5, <1>6

\* nkvx_front_forward_cb returns the buffer, with what the response says of it.
LEMMA ForwardCbSim ==
    ASSUME SInv, HonestFaults, NEW c \in Call, nkvx_front_forward_cb(c),
           UNCHANGED serviceVars
    PROVE  LeaseStep /\ \A d \in Call : SinkOK(d)'
<1>0. TypeOK /\ QuietOK(c) /\ CallOK(c) /\ \A d \in Call : SinkOK(d)
  BY DEF SInv, QInv, AInv, Quiet
<1>1. PICK st \in ForwardResults(c) :
         IF call[c].cancelling
         THEN nkvx_call_try_complete(c, [call[c] EXCEPT !.forward_done = TRUE])
         ELSE /\ call' = [call EXCEPT ![c] = [call[c] EXCEPT !.mem = "freed",
                                               !.bulks = {}, !.detached = TRUE]]
              /\ IF call[c].tenant_done
                 THEN UNCHANGED <<inflight, n_inflight, tenantVars>>
                 ELSE Detach(c) /\ Complete(c, st)
  BY DEF nkvx_front_forward_cb
<1>2. /\ call \in [Call -> CallRecord] /\ call[c] \in CallRecord
      /\ outcome \in [Call -> Status \cup {"none"}]
      /\ respWire \in [Call -> Status \cup {"none"}]
  BY <1>0 DEF TypeOK, FrontTypeOK, WireTypeOK
<1>3. c \in inflight
  BY <1>0, <1>2 DEF CallOK, nkvx_front_forward_cb, Outstanding, CallRecord
<1>4. call[c].mem = "live" /\ ~call[c].tenant_done /\ fired[c] = 0
  BY <1>0, <1>3 DEF CallOK
<1>5. UNCHANGED <<req, sinkData>>
  BY DEF serviceVars
<1>6. /\ respWire' = [respWire EXCEPT ![c] = "none"]
      /\ execWire' = execWire \/ execWire' = execWire \ {c}
  BY DEF nkvx_front_forward_cb
<1>7. Touching(c) => call[c].cancelling /\ ~call[c].cancel_acked
  <2> SUFFICES ASSUME Touching(c) PROVE call[c].cancelling /\ ~call[c].cancel_acked
    OBVIOUS
  <2>1. Busy(c) /\ shape[c] # {}
    BY <1>0 DEF Touching, push_in_flight, Busy, Registered, QuietOK, PhaseFits
  <2>2. fwd[c] = "canceled"
    BY <1>0, <2>1 DEF QuietOK, ForwardResults, HonestFaults
  <2> QED BY <1>0, <2>1, <2>2 DEF QuietOK
<1>8. ASSUME \A d \in Call : /\ call'[d].mem = "unused" <=> call[d].mem = "unused"
                             /\ outcome'[d] = "SINK" => (outcome[d] = "SINK" \/ respWire[d] = "SINK")
      PROVE  \A d \in Call : SinkOK(d)'
  <2>1. \A d \in Call : Busy(d)' => Busy(d)
    BY <1>5, <1>6 DEF Busy, Registered
  <2>2. \A d \in Call : respWire'[d] = "SINK" => respWire[d] = "SINK"
    BY <1>2, <1>6
  <2> QED BY <1>0, <1>5, <1>8, <2>1, <2>2 DEF SinkOK
<1>9. CASE call[c].cancelling
  <2> DEFINE r == [call[c] EXCEPT !.forward_done = TRUE]
  <2>1. /\ r \in CallRecord /\ r.mem = call[c].mem /\ r.tenant_done = call[c].tenant_done
        /\ r.cancel_acked = call[c].cancel_acked
    BY <1>2, ForwardDoneRecord
  <2>2. nkvx_call_try_complete(c, r)
    BY <1>1, <1>9
  <2> HIDE DEF r
  <2>3. JoinReady(r) => ~Touching(c)
    BY <1>7, <2>1 DEF JoinReady
  <2>4. /\ LeaseStep
        /\ \A d \in Call : /\ call'[d].mem = "unused" <=> call[d].mem = "unused"
                           /\ outcome'[d] = "SINK" => outcome[d] = "SINK"
    BY <1>3, <1>4, <2>1, <2>2, <2>3, TryCompleteSim
  <2> QED BY <1>8, <2>4, SMT
<1>10. CASE ~call[c].cancelling
  <2>1. /\ call' = [call EXCEPT ![c] = [call[c] EXCEPT !.mem = "freed",
                                         !.bulks = {}, !.detached = TRUE]]
        /\ Complete(c, st)
    BY <1>1, <1>4, <1>10
  <2>2. call'[c].mem = "freed" /\ \A d \in Call : d # c => call'[d] = call[d]
    BY <1>2, <2>1 DEF CallRecord
  <2>3. st \in Status /\ (st = "SINK" => respWire[c] = "SINK")
    BY DEF ForwardResults
  <2>4. LeaseStep
    BY <1>0, <1>4, <1>7, <1>10, <2>1, <2>2, <2>3, ReturnStep DEF SinkOK
  <2>5. \A d \in Call : outcome'[d] = "SINK" => (outcome[d] = "SINK" \/ respWire[d] = "SINK")
    BY <1>2, <2>1, <2>3 DEF Complete
  <2>6. \A d \in Call : call'[d].mem = "unused" <=> call[d].mem = "unused"
    BY <1>4, <2>2
  <2> QED BY <1>8, <2>4, <2>5, <2>6
<1> QED BY <1>9, <1>10

\* nkvx_cancel_ack_cb returns the buffer of a cancelled call.
LEMMA AckCbSim ==
    ASSUME SInv, HonestFaults, NEW c \in Call, nkvx_cancel_ack_cb(c),
           UNCHANGED serviceVars
    PROVE  LeaseStep /\ \A d \in Call : SinkOK(d)'
<1>0. TypeOK /\ QuietOK(c) /\ CallOK(c) /\ \A d \in Call : SinkOK(d)
  BY DEF SInv, QInv, AInv, Quiet
<1>1. call[c] \in CallRecord
  BY <1>0 DEF TypeOK, FrontTypeOK
<1>2. c \in inflight
  BY <1>0, <1>1 DEF CallOK, nkvx_cancel_ack_cb, CallRecord
<1>3. call[c].mem = "live" /\ ~call[c].tenant_done
  BY <1>0, <1>2 DEF CallOK
<1>4. ~Busy(c)
  BY <1>0 DEF QuietOK, nkvx_cancel_ack_cb, HonestFaults
<1>5. ~Touching(c)
  BY <1>4 DEF Touching, push_in_flight, Busy, Registered
<1> DEFINE r == [call[c] EXCEPT !.cancel_handle = FALSE, !.cancel_acked = TRUE]
<1>6. r \in CallRecord /\ r.mem = call[c].mem /\ r.tenant_done = call[c].tenant_done
  BY <1>1, AckedRecord
<1>7. nkvx_call_try_complete(c, r)
  BY DEF nkvx_cancel_ack_cb
<1> HIDE DEF r
<1>8. /\ LeaseStep
      /\ \A d \in Call : /\ call'[d].mem = "unused" <=> call[d].mem = "unused"
                         /\ outcome'[d] = "SINK" => outcome[d] = "SINK"
  BY <1>2, <1>3, <1>5, <1>6, <1>7, TryCompleteSim
<1>9. UNCHANGED <<req, sinkData, respWire, execWire>>
  BY DEF nkvx_cancel_ack_cb, serviceVars
<1>10. \A d \in Call : SinkOK(d)'
  BY <1>0, <1>8, <1>9 DEF SinkOK, Busy, Registered
<1> QED BY <1>8, <1>10

--------------------------------------------------------------------------------
\* Every step of the two tiers is a step of the lease, or none.
LEMMA NextSim ==
    ASSUME HonestFaults, SInv, [Next]_vars
    PROVE  LeaseStep /\ \A d \in Call : SinkOK(d)'
<1>1. ASSUME NEW f \in Front, nkvx_front_forward(f), UNCHANGED serviceVars
      PROVE  LeaseStep /\ \A d \in Call : SinkOK(d)'
  BY <1>1, ForwardSim
<1>2. ASSUME NEW f \in Front, kvrados_destroy_channel_cb(f), UNCHANGED serviceVars
      PROVE  LeaseStep /\ \A d \in Call : SinkOK(d)'
  <2>1. PICK U \in SUBSET (inflight \cap CallsOf(f)) :
            nkvx_call_begin_cancel(inflight \cap CallsOf(f), U)
    BY <1>2 DEF kvrados_destroy_channel_cb
  <2>2. inflight \cap CallsOf(f) \in SUBSET inflight
    OBVIOUS
  <2>3. UNCHANGED <<tenantVars, execWire, respWire, serviceVars>>
    BY <1>2, SMT DEF kvrados_destroy_channel_cb
  <2> QED BY <2>1, <2>2, <2>3, BeginCancelSim
<1>3. ASSUME NEW c \in Call, kvrados_handle_abort(c), UNCHANGED serviceVars
      PROVE  LeaseStep /\ \A d \in Call : SinkOK(d)'
  <2>1. PICK U \in SUBSET {c} : nkvx_call_begin_cancel({c}, U)
    BY <1>3 DEF kvrados_handle_abort
  <2>2. {c} \in SUBSET inflight
    BY <1>3 DEF kvrados_handle_abort
  <2>3. UNCHANGED <<tenantVars, execWire, respWire, serviceVars>>
    BY <1>3 DEF kvrados_handle_abort
  <2> QED BY <2>1, <2>2, <2>3, BeginCancelSim
<1>4. ASSUME UNCHANGED <<callVars, tenantVars, wireVars, serviceVars>>
      PROVE  LeaseStep /\ \A d \in Call : SinkOK(d)'
  <2>1. UNCHANGED <<call, fired, outcome, req, sinkData, respWire, execWire>>
    BY <1>4 DEF callVars, tenantVars, wireVars, serviceVars
  <2>2. \A d \in Call : SinkOK(d)'
    BY <2>1 DEF SInv, SinkOK, Busy, Registered
  <2> QED BY <2>1, <2>2, Stutter
<1>5. ASSUME NEW f \in Front, DrainDone(f), UNCHANGED serviceVars
      PROVE  LeaseStep /\ \A d \in Call : SinkOK(d)'
  BY <1>4, <1>5 DEF DrainDone
<1>6. ASSUME NEW f \in Front, DrainError(f) PROVE FALSE
  BY <1>6 DEF DrainError, HonestFaults
<1>7. ASSUME NEW c \in Call, UNCHANGED serviceVars,
             nkvx_front_forward_cb(c) \/ nkvx_cancel_ack_cb(c)
      PROVE  LeaseStep /\ \A d \in Call : SinkOK(d)'
  BY <1>7, ForwardCbSim, AckCbSim
<1>8. ASSUME NEW c \in Call, UNCHANGED frontVars, OnRequest(c) \/ nkvx_cancel_handler(c)
      PROVE  LeaseStep /\ \A d \in Call : SinkOK(d)'
  BY <1>8, OnRequestSim, CancelHandlerSim
<1>9. ASSUME UNCHANGED frontVars, Crash \/ Restart
      PROVE  LeaseStep /\ \A d \in Call : SinkOK(d)'
  BY <1>9, ProcessSim
<1>10. CASE UNCHANGED vars
  BY <1>4, <1>10 DEF vars, frontVars
<1> QED BY <1>1, <1>2, <1>3, <1>5, <1>6, <1>7, <1>8, <1>9, <1>10 DEF Next, OnRequest

--------------------------------------------------------------------------------
(******************************************************************************)
(* The counters of the fronts.                                                *)
(******************************************************************************)
INSTANCE FiniteSetTheorems

\* A front has finitely many calls in flight.
LEMMA InflightFinite ==
    ASSUME NEW S \in SUBSET Call, NEW f
    PROVE  /\ IsFiniteSet(S \cap CallsOf(f))
           /\ Cardinality(S \cap CallsOf(f)) \in Nat
<1>1. IsFiniteSet(1..MaxCalls)
  BY WireAssumption, FS_Interval, SMT
<1>2. IsFiniteSet(Call)
  BY <1>1, WireAssumption, FS_Product DEF Call
<1>3. IsFiniteSet(S \cap CallsOf(f))
  BY <1>2, FS_Subset DEF CallsOf
<1> QED BY <1>3, FS_CardinalityType

\* Attach on a call that is not on the list keeps the counters exact.
LEMMA AttachCounts ==
    ASSUME TypeOK, Counted, NEW c \in Call, c \notin inflight, Attach(c)
    PROVE  Counted' /\ n_inflight' \in [Front -> Nat]
<1>0. inflight \in SUBSET Call /\ n_inflight \in [Front -> Nat] /\ c[1] \in Front
  BY CallParts, SMT DEF TypeOK, FrontTypeOK
<1>1. (inflight \cap CallsOf(c[1])) \cup {c} = inflight' \cap CallsOf(c[1])
  BY DEF Attach, CallsOf
<1>2. c \notin inflight \cap CallsOf(c[1])
  OBVIOUS
<1>3. Cardinality(inflight' \cap CallsOf(c[1])) = Cardinality(inflight \cap CallsOf(c[1])) + 1
  BY <1>0, <1>1, <1>2, InflightFinite, FS_AddElement
<1>4. \A f \in Front : f # c[1] => inflight' \cap CallsOf(f) = inflight \cap CallsOf(f)
  BY DEF Attach, CallsOf
<1>5. n_inflight' = [n_inflight EXCEPT ![c[1]] = @ + 1]
  BY DEF Attach
<1>6. \A f \in Front : n_inflight'[f] = Cardinality(inflight' \cap CallsOf(f))
  BY <1>0, <1>3, <1>4, <1>5 DEF Counted
<1>7. Counted'
  BY <1>6 DEF Counted, CallsOf
<1> QED BY <1>0, <1>5, <1>7, SMT

\* Detach of a call on the list keeps the counters exact, and above zero.
LEMMA DetachCounts ==
    ASSUME TypeOK, Counted, NEW c \in Call, c \in inflight, Detach(c)
    PROVE  Counted' /\ n_inflight' \in [Front -> Nat]
<1>0. inflight \in SUBSET Call /\ n_inflight \in [Front -> Nat] /\ c[1] \in Front
  BY CallParts DEF TypeOK, FrontTypeOK
<1>1. (inflight \cap CallsOf(c[1])) \ {c} = inflight' \cap CallsOf(c[1])
  BY DEF Detach, CallsOf
<1>2. c \in inflight \cap CallsOf(c[1])
  BY DEF CallsOf
<1>3. Cardinality(inflight' \cap CallsOf(c[1])) = Cardinality(inflight \cap CallsOf(c[1])) - 1
  <2>1. IsFiniteSet(inflight \cap CallsOf(c[1]))
    BY <1>0, InflightFinite
  <2>2. Cardinality((inflight \cap CallsOf(c[1])) \ {c})
            = Cardinality(inflight \cap CallsOf(c[1])) - 1
    BY <1>2, <2>1, FS_RemoveElement
  <2> QED BY <1>1, <2>2
<1>4. \A f \in Front : f # c[1] => inflight' \cap CallsOf(f) = inflight \cap CallsOf(f)
  BY DEF Detach, CallsOf
<1>5. n_inflight' = [n_inflight EXCEPT ![c[1]] = @ - 1]
  BY DEF Detach
<1>6. \A f \in Front : n_inflight'[f] = Cardinality(inflight' \cap CallsOf(f))
  BY <1>0, <1>3, <1>4, <1>5 DEF Counted
<1>7. inflight' \in SUBSET Call
  BY <1>0 DEF Detach
<1>8. \A f \in Front : Cardinality(inflight' \cap CallsOf(f)) \in Nat
  BY <1>7, InflightFinite
<1>9. Counted'
  BY <1>6 DEF Counted, CallsOf
<1> QED BY <1>0, <1>5, <1>6, <1>8, <1>9

--------------------------------------------------------------------------------
\* The system starts with no call.
LEMMA InitAInv == Init => AInv
<1> SUFFICES ASSUME Init PROVE AInv
  OBVIOUS
<1> USE DEF Init, WireInit, FrontInit, ServiceInit
<1>1. WireTypeOK
  BY DEF WireTypeOK
<1>2. FrontTypeOK
  <2>1. [NewCall({}) EXCEPT !.mem = "unused"] \in CallRecord
    BY DEF NewCall, CallRecord
  <2>2. n_inflight \in [Front -> Nat] /\ next_call_id \in [Front -> 0..MaxCalls]
    BY WireAssumption, SMT
  <2> QED BY <2>1, <2>2 DEF FrontTypeOK
<1>3. ServiceTypeOK
  BY DEF ServiceTypeOK, ReqRecord, NewReq, Phase
<1>4. Counted
  BY FS_EmptySet DEF Counted
<1>5. \A c \in Call : CallOK(c)
  BY DEF CallOK, NewCall, Outstanding
<1> QED BY <1>1, <1>2, <1>3, <1>4, <1>5 DEF AInv, TypeOK

\* nkvx_front_forward: a new call, or one that fails at once.
LEMMA ForwardAInv ==
    ASSUME AInv, NEW f \in Front, nkvx_front_forward(f), UNCHANGED serviceVars
    PROVE  AInv'
<1>0. TypeOK /\ Counted /\ \A d \in Call : CallOK(d)
  BY DEF AInv
<1>1. next_call_id[f] \in Nat /\ MaxCalls \in Nat /\ next_call_id[f] < MaxCalls
  BY <1>0, WireAssumption, SMT DEF TypeOK, FrontTypeOK, nkvx_front_forward
<1>n. next_call_id[f] + 1 \in 1..MaxCalls
  BY <1>1, SMT
<1>c. PICK c \in Call : c = <<f, next_call_id[f] + 1>>
  BY <1>n DEF Call
<1>2. c \in Call /\ c[1] = f /\ c[2] = next_call_id[f] + 1
  BY <1>c
<1>3. call[c].mem = "unused" /\ c \notin inflight /\ fwd[c] = "none" /\ fired[c] = 0
  BY <1>0, <1>1, <1>2, SMT DEF CallOK
<1>4. ServiceTypeOK'
  BY <1>0 DEF TypeOK, ServiceTypeOK, serviceVars
<1>5. next_call_id' \in [Front -> 0..MaxCalls] /\ chan' = chan
  BY <1>0, <1>1, SMT DEF TypeOK, FrontTypeOK, nkvx_front_forward
<1>6. \A d \in Call : d # c => (d[2] > next_call_id'[d[1]] => d[2] > next_call_id[d[1]])
  BY <1>0, <1>2, <1>1, CallParts, SMT DEF TypeOK, FrontTypeOK, nkvx_front_forward
<1>7. ~(c[2] > next_call_id'[c[1]])
  BY <1>0, <1>1, <1>2, SMT DEF TypeOK, FrontTypeOK, nkvx_front_forward
<1>8. CASE \E s \in SUBSET Bulk :
             /\ call' = [call EXCEPT ![c] = NewCall(s)]
             /\ Attach(c)
             /\ exec_inflight' = exec_inflight \cup {c}
             /\ PostExec(c, s)
             /\ UNCHANGED <<fired, outcome>>
  <2>1. PICK s \in SUBSET Bulk :
             /\ call' = [call EXCEPT ![c] = NewCall(s)]
             /\ Attach(c)
             /\ exec_inflight' = exec_inflight \cup {c}
             /\ PostExec(c, s)
             /\ UNCHANGED <<fired, outcome>>
    BY <1>8
  <2>2. Counted' /\ n_inflight' \in [Front -> Nat]
    BY <1>0, <1>2, <1>3, <2>1, AttachCounts
  <2>3. NewCall(s) \in CallRecord
    BY DEF NewCall, CallRecord
  <2>4. FrontTypeOK'
    BY <1>0, <1>2, <1>5, <2>1, <2>2, <2>3 DEF TypeOK, FrontTypeOK, Attach
  <2>5. WireTypeOK'
    BY <1>0, <1>2, <2>1, SMT DEF TypeOK, WireTypeOK, PostExec, nkvx_front_forward
  <2>6. CallOK(c)'
    BY <1>0, <1>2, <1>3, <1>5, <1>7, <2>1, SMT
       DEF TypeOK, FrontTypeOK, WireTypeOK, CallOK, NewCall, PostExec, Outstanding, Attach,
           JoinReady, nkvx_front_forward
  <2>7. ASSUME NEW d \in Call, d # c PROVE CallOK(d)'
    BY <1>0, <1>2, <1>5, <1>6, <2>1, <2>7, SMT
       DEF TypeOK, FrontTypeOK, WireTypeOK, CallOK, PostExec, Outstanding, Attach, JoinReady
  <2> QED BY <1>4, <2>2, <2>4, <2>5, <2>6, <2>7 DEF AInv, TypeOK
<1>9. CASE /\ call' = [call EXCEPT ![c] = [call[c] EXCEPT !.mem = "freed"]]
           /\ Complete(c, "FAILED")
           /\ UNCHANGED <<inflight, n_inflight, fwd, shape, execWire, severed>>
  <2>a. [call[c] EXCEPT !.mem = "freed"] \in CallRecord
    BY <1>0, <1>2, SMT DEF TypeOK, FrontTypeOK, CallRecord
  <2>b. fired' \in [Call -> Nat] /\ outcome' \in [Call -> Status \cup {"none"}]
    BY <1>0, <1>9, SMT DEF TypeOK, FrontTypeOK, Complete, Status
  <2>1. FrontTypeOK'
    BY <1>0, <1>2, <1>5, <1>9, <2>a, <2>b DEF TypeOK, FrontTypeOK, Complete
  <2>2. WireTypeOK'
    BY <1>0, <1>9 DEF TypeOK, WireTypeOK, nkvx_front_forward
  <2>3. Counted'
    BY <1>0, <1>9 DEF Counted, CallsOf
  <2>4. CallOK(c)'
    BY <1>0, <1>2, <1>3, <1>5, <1>7, <1>9, SMT
       DEF TypeOK, FrontTypeOK, CallRecord, CallOK, Complete, Outstanding
  <2>5. ASSUME NEW d \in Call, d # c PROVE CallOK(d)'
    BY <1>0, <1>2, <1>5, <1>6, <1>9, <2>5, SMT
       DEF TypeOK, FrontTypeOK, CallOK, Complete, Outstanding, JoinReady
  <2> QED BY <1>4, <2>1, <2>2, <2>3, <2>4, <2>5 DEF AInv, TypeOK
<1> QED BY <1>c, <1>8, <1>9 DEF nkvx_front_forward

\* nkvx_call_try_complete on a call in flight whose record became r: with both
\* halves resolved the call is completed, taken off the list and freed.
LEMMA TryCompleteAInv ==
    ASSUME AInv, NEW c \in inflight, NEW r \in CallRecord, nkvx_call_try_complete(c, r),
           r.mem = "live", ~r.detached, ~r.tenant_done, r.cancelling,
           Outstanding(c)' <=> ~r.forward_done,
           r.cancel_handle <=> ~r.cancel_acked,
           \A d \in Call : d # c => fwd'[d] = fwd[d],
           UNCHANGED <<next_call_id, chan, serviceVars>>, WireTypeOK'
    PROVE  AInv'
<1>0. TypeOK /\ Counted /\ \A d \in Call : CallOK(d)
  BY DEF AInv
<1>1. c \in Call /\ c[1] \in Front
  BY <1>0, CallParts DEF TypeOK, FrontTypeOK
<1>2. ServiceTypeOK'
  BY <1>0 DEF TypeOK, ServiceTypeOK, serviceVars
<1>3. fired[c] = 0 /\ chan[c[1]] # "closed" /\ ~(c[2] > next_call_id[c[1]])
  BY <1>0, <1>1 DEF CallOK
<1>4. CASE JoinReady(r)
  <2> DEFINE q == [r EXCEPT !.mem = "freed", !.bulks = {},
                            !.tenant_done = TRUE, !.detached = TRUE]
  <2>1. call' = [call EXCEPT ![c] = q] /\ Complete(c, "ABORTED") /\ Detach(c)
    BY <1>4 DEF nkvx_call_try_complete
  <2>2. /\ q \in CallRecord /\ q.mem = "freed" /\ q.detached
        /\ q.cancel_handle = r.cancel_handle
    BY DEF CallRecord
  <2>3. Counted' /\ n_inflight' \in [Front -> Nat]
    BY <1>0, <1>1, <2>1, DetachCounts
  <2>4. fired' \in [Call -> Nat] /\ outcome' \in [Call -> Status \cup {"none"}]
    BY <1>0, <1>1, <2>1, SMT DEF TypeOK, FrontTypeOK, Complete, Status
  <2>5. call' \in [Call -> CallRecord] /\ call'[c] = q
    BY <1>0, <1>1, <2>1, <2>2 DEF TypeOK, FrontTypeOK
  <2> HIDE DEF q
  <2>6. FrontTypeOK'
    BY <1>0, <2>1, <2>3, <2>4, <2>5 DEF TypeOK, FrontTypeOK, Complete, Detach
  <2>7. ~Outstanding(c)' /\ ~r.cancel_handle
    BY <1>4 DEF JoinReady
  <2>8. c \notin inflight' /\ c \notin exec_inflight' /\ fired'[c] = 1
    BY <1>0, <1>1, <1>3, <2>1, SMT DEF TypeOK, FrontTypeOK, Complete, Detach
  <2>9. CallOK(c)'
    BY <1>3, <2>2, <2>5, <2>7, <2>8 DEF CallOK
  <2>10. ASSUME NEW d \in Call, d # c PROVE CallOK(d)'
    <3>1. /\ call'[d] = call[d] /\ fired'[d] = fired[d] /\ fwd'[d] = fwd[d]
          /\ d \in inflight' <=> d \in inflight
          /\ d \in exec_inflight' <=> d \in exec_inflight
      BY <1>0, <2>1, <2>10 DEF TypeOK, FrontTypeOK, Complete, Detach
    <3> QED BY <1>0, <3>1, SMT DEF CallOK, Outstanding, JoinReady
  <2> QED BY <1>2, <2>3, <2>6, <2>9, <2>10, SMT DEF AInv, TypeOK
<1>5. CASE ~JoinReady(r)
  <2>1. call' = [call EXCEPT ![c] = r] /\ UNCHANGED <<inflight, n_inflight, tenantVars>>
    BY <1>5 DEF nkvx_call_try_complete
  <2>2. call' \in [Call -> CallRecord] /\ call'[c] = r
    BY <1>0, <1>1, <2>1 DEF TypeOK, FrontTypeOK
  <2>3. FrontTypeOK' /\ Counted'
    BY <1>0, <2>1, <2>2 DEF TypeOK, FrontTypeOK, tenantVars, Counted, CallsOf
  <2>4. CallOK(c)'
    BY <1>0, <1>1, <1>3, <1>5, <2>1, <2>2 DEF CallOK, tenantVars, JoinReady
  <2>5. ASSUME NEW d \in Call, d # c PROVE CallOK(d)'
    <3>1. call'[d] = call[d] /\ fwd'[d] = fwd[d]
      BY <1>0, <2>1, <2>5 DEF TypeOK, FrontTypeOK
    <3> QED BY <1>0, <2>1, <3>1, SMT DEF CallOK, Outstanding, JoinReady, tenantVars
  <2> QED BY <1>2, <2>3, <2>4, <2>5 DEF AInv, TypeOK
<1> QED BY <1>4, <1>5

\* nkvx_front_forward_cb: the callback's call is on the list, whichever branch runs.
LEMMA ForwardCbAInv ==
    ASSUME AInv, NEW c \in Call, nkvx_front_forward_cb(c), UNCHANGED serviceVars
    PROVE  AInv'
<1>0. TypeOK /\ Counted /\ \A d \in Call : CallOK(d)
  BY DEF AInv
<1>1. PICK st \in ForwardResults(c) :
         IF call[c].cancelling
         THEN nkvx_call_try_complete(c, [call[c] EXCEPT !.forward_done = TRUE])
         ELSE /\ call' = [call EXCEPT ![c] = [call[c] EXCEPT !.mem = "freed",
                                               !.bulks = {}, !.detached = TRUE]]
              /\ IF call[c].tenant_done
                 THEN UNCHANGED <<inflight, n_inflight, tenantVars>>
                 ELSE Detach(c) /\ Complete(c, st)
  BY DEF nkvx_front_forward_cb
<1>2. c \in inflight /\ call[c] \in CallRecord
  BY <1>0 DEF TypeOK, FrontTypeOK, CallOK, nkvx_front_forward_cb, Outstanding, CallRecord
<1>3. /\ call[c].mem = "live" /\ ~call[c].detached /\ ~call[c].tenant_done
      /\ fired[c] = 0 /\ ~call[c].forward_done
      /\ call[c].cancel_handle <=> (call[c].cancelling /\ ~call[c].cancel_acked)
      /\ ~(c[2] > next_call_id[c[1]])
  BY <1>0, <1>2 DEF CallOK, nkvx_front_forward_cb
<1>4. fwd' = [fwd EXCEPT ![c] = "done"] /\ UNCHANGED <<next_call_id, chan>>
  BY DEF nkvx_front_forward_cb
<1>5. ~Outstanding(c)' /\ \A d \in Call : d # c => fwd'[d] = fwd[d]
  BY <1>0, <1>4 DEF TypeOK, WireTypeOK, Outstanding
<1>6. WireTypeOK'
  BY <1>0 DEF TypeOK, WireTypeOK, nkvx_front_forward_cb
<1>7. CASE call[c].cancelling
  <2> DEFINE r == [call[c] EXCEPT !.forward_done = TRUE]
  <2>1. nkvx_call_try_complete(c, r)
    BY <1>1, <1>7
  <2>2. /\ r \in CallRecord /\ r.mem = "live" /\ ~r.detached /\ ~r.tenant_done
        /\ r.cancelling /\ r.forward_done /\ (r.cancel_handle <=> ~r.cancel_acked)
    <3>1. /\ r \in CallRecord /\ r.forward_done = TRUE /\ r.mem = call[c].mem
          /\ r.detached = call[c].detached /\ r.tenant_done = call[c].tenant_done
          /\ r.cancelling = call[c].cancelling
          /\ r.cancel_handle = call[c].cancel_handle
          /\ r.cancel_acked = call[c].cancel_acked
      BY <1>2, ForwardDoneRecord
    <3> HIDE DEF r
    <3> QED BY <1>3, <1>7, <3>1
  <2> HIDE DEF r
  <2> QED BY <1>2, <1>4, <1>5, <1>6, <2>1, <2>2, TryCompleteAInv
<1>8. CASE ~call[c].cancelling
  <2> DEFINE q == [call[c] EXCEPT !.mem = "freed", !.bulks = {}, !.detached = TRUE]
  <2>1. call' = [call EXCEPT ![c] = q] /\ Complete(c, st) /\ Detach(c)
    BY <1>1, <1>3, <1>8
  <2>2. /\ q \in CallRecord /\ q.mem = "freed" /\ q.detached = TRUE
        /\ q.cancel_handle = call[c].cancel_handle
    BY <1>2, ReapedRecord
  <2>3. Counted' /\ n_inflight' \in [Front -> Nat]
    BY <1>0, <1>2, <2>1, DetachCounts
  <2>4. fired' \in [Call -> Nat] /\ outcome' \in [Call -> Status \cup {"none"}]
    BY <1>0, <2>1, SMT DEF TypeOK, FrontTypeOK, Complete, ForwardResults
  <2>5. call' \in [Call -> CallRecord] /\ call'[c] = q
    BY <1>0, <2>1, <2>2 DEF TypeOK, FrontTypeOK
  <2> HIDE DEF q
  <2>6. FrontTypeOK' /\ ServiceTypeOK'
    BY <1>0, <1>4, <2>1, <2>3, <2>4, <2>5
       DEF TypeOK, FrontTypeOK, Complete, Detach, ServiceTypeOK, serviceVars
  <2>7. c \notin inflight' /\ c \notin exec_inflight' /\ fired'[c] = 1
    BY <1>0, <1>3, <2>1, SMT DEF TypeOK, FrontTypeOK, Complete, Detach
  <2>8. CallOK(c)'
    BY <1>3, <1>4, <1>5, <1>8, <2>2, <2>5, <2>7, ZenonT(60) DEF CallOK
  <2>9. ASSUME NEW d \in Call, d # c PROVE CallOK(d)'
    <3>1. /\ call'[d] = call[d] /\ fired'[d] = fired[d] /\ fwd'[d] = fwd[d]
          /\ d \in inflight' <=> d \in inflight
          /\ d \in exec_inflight' <=> d \in exec_inflight
      BY <1>0, <1>5, <2>1, <2>9 DEF TypeOK, FrontTypeOK, Complete, Detach
    <3> QED BY <1>0, <1>4, <3>1, SMT DEF CallOK, Outstanding, JoinReady
  <2> QED BY <1>6, <2>3, <2>6, <2>8, <2>9 DEF AInv, TypeOK
<1> QED BY <1>7, <1>8, SMT

\* nkvx_cancel_ack_cb: likewise.
LEMMA AckCbAInv ==
    ASSUME AInv, NEW c \in Call, nkvx_cancel_ack_cb(c), UNCHANGED serviceVars
    PROVE  AInv'
<1>0. TypeOK /\ Counted /\ \A d \in Call : CallOK(d)
  BY DEF AInv
<1> DEFINE r == [call[c] EXCEPT !.cancel_handle = FALSE, !.cancel_acked = TRUE]
<1>1. nkvx_call_try_complete(c, r)
  BY DEF nkvx_cancel_ack_cb
<1>2. c \in inflight /\ call[c] \in CallRecord
  BY <1>0, SMT DEF TypeOK, FrontTypeOK, CallOK, nkvx_cancel_ack_cb, CallRecord
<1>3. /\ call[c].mem = "live" /\ ~call[c].detached /\ ~call[c].tenant_done
      /\ call[c].cancelling /\ (Outstanding(c) <=> ~call[c].forward_done)
  BY <1>0, <1>2 DEF CallOK, nkvx_cancel_ack_cb
<1>4. /\ r \in CallRecord /\ r.mem = "live" /\ ~r.detached /\ ~r.tenant_done
      /\ r.cancelling /\ r.cancel_acked /\ ~r.cancel_handle
      /\ r.forward_done = call[c].forward_done
  <2>1. /\ r \in CallRecord /\ r.cancel_acked = TRUE /\ r.cancel_handle = FALSE
        /\ r.mem = call[c].mem /\ r.detached = call[c].detached
        /\ r.tenant_done = call[c].tenant_done
        /\ r.cancelling = call[c].cancelling /\ r.forward_done = call[c].forward_done
    BY <1>2, AckedRecord
  <2> HIDE DEF r
  <2> QED BY <1>3, <2>1
<1>5. UNCHANGED <<next_call_id, chan, fwd>>
  BY DEF nkvx_cancel_ack_cb
<1>6. Outstanding(c)' <=> ~r.forward_done
  BY <1>3, <1>4, <1>5 DEF Outstanding
<1>7. WireTypeOK'
  BY <1>0, SMT DEF TypeOK, WireTypeOK, nkvx_cancel_ack_cb
<1> HIDE DEF r
<1> QED BY <1>1, <1>2, <1>4, <1>5, <1>6, <1>7, TryCompleteAInv

\* kvrados_destroy_channel_cb, the drain loop left with nothing outstanding.
LEMMA DrainDoneAInv ==
    ASSUME AInv, NEW f \in Front, DrainDone(f), UNCHANGED serviceVars
    PROVE  AInv'
<1>0. TypeOK /\ Counted /\ \A d \in Call : CallOK(d)
  BY DEF AInv
<1>1. chan' = [chan EXCEPT ![f] = "closed"]
      /\ UNCHANGED <<callVars, tenantVars, next_call_id, wireVars>>
  BY DEF DrainDone
<1>2. inflight \cap CallsOf(f) = {}
  <2>1. Cardinality(inflight \cap CallsOf(f)) = 0
    BY <1>0 DEF Counted, DrainDone, Drained
  <2>2. IsFiniteSet(inflight \cap CallsOf(f))
    BY <1>0, InflightFinite DEF TypeOK, FrontTypeOK
  <2> QED BY <2>1, <2>2, FS_EmptySet
<1>3. TypeOK' /\ Counted'
  BY <1>0, <1>1, ZenonT(60) DEF TypeOK, FrontTypeOK, WireTypeOK, ServiceTypeOK, callVars,
                    tenantVars, wireVars, serviceVars, Counted, CallsOf
<1>4. ASSUME NEW c \in Call PROVE CallOK(c)'
  <2>1. c[1] \in Front /\ (c \in inflight => c[1] # f)
    BY <1>2, CallParts DEF CallsOf
  <2>2. chan'[c[1]] = IF c[1] = f THEN "closed" ELSE chan[c[1]]
    BY <1>0, <1>1, <2>1 DEF TypeOK, FrontTypeOK
  <2> QED BY <1>0, <1>1, <2>1, <2>2, SMT
          DEF CallOK, callVars, tenantVars, wireVars, Outstanding, JoinReady
<1> QED BY <1>3, <1>4 DEF AInv

\* The drain loop left on a progress error: nkvx_front_fail_all_pending.
LEMMA DrainErrorAInv ==
    ASSUME AInv, NEW f \in Front, DrainError(f), UNCHANGED serviceVars
    PROVE  AInv'
<1>0. TypeOK /\ Counted /\ \A d \in Call : CallOK(d)
  BY DEF AInv
<1>l. PICK left \in SUBSET Call : left = inflight \cap CallsOf(f)
  BY <1>0 DEF TypeOK, FrontTypeOK
<1>1. /\ chan' = [chan EXCEPT ![f] = "closed"]
      /\ call' = [c \in Call |->
                    IF c \in left
                    THEN [call[c] EXCEPT !.tenant_done = TRUE, !.bulks = {},
                                         !.detached = TRUE]
                    ELSE call[c]]
      /\ inflight' = inflight \ left
      /\ n_inflight' = [n_inflight EXCEPT ![f] = @ - Cardinality(left)]
      /\ exec_inflight' = exec_inflight \ left
      /\ fired' = [c \in Call |-> IF c \in left THEN fired[c] + 1 ELSE fired[c]]
      /\ outcome' = [c \in Call |-> IF c \in left THEN "FAILED" ELSE outcome[c]]
      /\ UNCHANGED <<next_call_id, wireVars>>
  BY <1>l DEF DrainError
<1>a. n_inflight \in [Front -> Nat] /\ fired \in [Call -> Nat]
      /\ outcome \in [Call -> Status \cup {"none"}]
  BY <1>0 DEF TypeOK, FrontTypeOK
<1>b. n_inflight' = [n_inflight EXCEPT ![f] = @ - Cardinality(left)]
  BY <1>1
<1>c. fired' = [c \in Call |-> IF c \in left THEN fired[c] + 1 ELSE fired[c]]
  BY <1>1
<1>d. outcome' = [c \in Call |-> IF c \in left THEN "FAILED" ELSE outcome[c]]
  BY <1>1
<1>e. n_inflight[f] = Cardinality(left)
  BY <1>0, <1>l DEF Counted
<1>2. n_inflight'[f] = 0 /\ \A g \in Front \ {f} : n_inflight'[g] = n_inflight[g]
  BY <1>a, <1>b, <1>e, SMT
<1>3. inflight' \cap CallsOf(f) = {}
      /\ \A g \in Front \ {f} : inflight' \cap CallsOf(g) = inflight \cap CallsOf(g)
  BY <1>1, <1>l DEF CallsOf
<1>4. \A g \in Front : n_inflight'[g] = Cardinality(inflight' \cap CallsOf(g))
  BY <1>0, <1>2, <1>3, FS_EmptySet DEF Counted
<1>5. Counted'
  BY <1>4 DEF Counted, CallsOf
<1>6. ASSUME NEW c \in left
      PROVE  /\ call'[c] \in CallRecord /\ call'[c].mem = call[c].mem
             /\ call'[c].detached = TRUE
             /\ call'[c].cancel_handle = call[c].cancel_handle
             /\ call'[c].cancelling = call[c].cancelling
  <2>1. call[c] \in CallRecord
    BY <1>0 DEF TypeOK, FrontTypeOK
  <2>2. call'[c] = [call[c] EXCEPT !.tenant_done = TRUE, !.bulks = {}, !.detached = TRUE]
    BY <1>1
  <2> QED BY <2>1, <2>2 DEF CallRecord
<1>7. call' \in [Call -> CallRecord]
  BY <1>0, <1>1, <1>6 DEF TypeOK, FrontTypeOK
<1>8. n_inflight' \in [Front -> Nat]
  BY <1>a, <1>b, <1>e, SMT
<1>9. fired' \in [Call -> Nat] /\ outcome' \in [Call -> Status \cup {"none"}]
  BY <1>a, <1>c, <1>d, SMT DEF Status
<1>10. TypeOK'
  BY <1>0, <1>1, <1>7, <1>8, <1>9
     DEF TypeOK, FrontTypeOK, WireTypeOK, ServiceTypeOK, wireVars, serviceVars
<1>11. ASSUME NEW c \in Call PROVE CallOK(c)'
  <2>1. c[1] \in Front /\ (c \in left <=> c \in inflight /\ c[1] = f)
    BY <1>l, CallParts DEF CallsOf
  <2>2. chan'[c[1]] = IF c[1] = f THEN "closed" ELSE chan[c[1]]
    BY <1>0, <1>1, <2>1 DEF TypeOK, FrontTypeOK
  <2>3. UNCHANGED <<next_call_id, fwd>>
    BY <1>1 DEF wireVars
  <2>4. CASE c \in left
    <3>1. fired[c] = 0 /\ call[c].mem = "live" /\ ~(c[2] > next_call_id[c[1]])
      BY <1>0, <2>1, <2>4 DEF CallOK
    <3>a. inflight' = inflight \ left /\ exec_inflight' = exec_inflight \ left
      BY <1>1
    <3>2. fired'[c] = 1 /\ c \notin inflight' /\ c \notin exec_inflight'
      <4>1. fired'[c] = fired[c] + 1
        BY <1>c, <2>4
      <4>2. fired'[c] = 1
        BY <3>1, <4>1, SMT
      <4> QED BY <2>4, <3>a, <4>2
    <3> QED BY <1>6, <2>1, <2>2, <2>3, <2>4, <3>1, <3>2 DEF CallOK
  <2>5. CASE c \notin left
    <3>1. /\ call'[c] = call[c] /\ fired'[c] = fired[c]
          /\ c \in inflight' <=> c \in inflight
          /\ c \in exec_inflight' <=> c \in exec_inflight
      BY <1>1, <2>5
    <3> QED BY <1>0, <2>1, <2>2, <2>3, <2>5, <3>1, SMT DEF CallOK, Outstanding, JoinReady
  <2> QED BY <2>4, <2>5
<1> QED BY <1>5, <1>10, <1>11 DEF AInv

\* Every step of either tier keeps the accounting.
LEMMA NextAInv == AInv /\ [Next]_vars => AInv'
<1> SUFFICES ASSUME AInv, [Next]_vars PROVE AInv'
  OBVIOUS
<1>0. TypeOK
  BY DEF AInv
<1>1. ASSUME NEW f \in Front, UNCHANGED serviceVars,
             \/ nkvx_front_forward(f) \/ kvrados_destroy_channel_cb(f)
             \/ DrainDone(f) \/ DrainError(f)
      PROVE  AInv'
  BY <1>1, ForwardAInv, DestroyAInv, DrainDoneAInv, DrainErrorAInv
<1>2. ASSUME NEW c \in Call, UNCHANGED serviceVars,
             kvrados_handle_abort(c) \/ nkvx_front_forward_cb(c) \/ nkvx_cancel_ack_cb(c)
      PROVE  AInv'
  BY <1>2, AbortAInv, ForwardCbAInv, AckCbAInv
<1>3. ASSUME NEW c \in Call, UNCHANGED frontVars, OnRequest(c)
      PROVE  AInv'
  BY <1>0, <1>3, OnRequestTypes, OnRequestFrame, ServiceAInv, ZenonT(60)
<1>4. ASSUME NEW c \in Call, UNCHANGED frontVars, nkvx_cancel_handler(c)
      PROVE  AInv'
  BY <1>0, <1>4, CancelHandlerTypes, CancelHandlerStep, ServiceAInv
<1>5. ASSUME UNCHANGED frontVars, Crash \/ Restart
      PROVE  AInv'
  <2>1. fwd' = fwd
    BY <1>5 DEF Crash, Restart
  <2> QED BY <1>0, <1>5, <2>1, ProcessTypes, ServiceAInv
<1>6. CASE UNCHANGED vars
  <2>1. UNCHANGED frontVars /\ fwd' = fwd /\ WireTypeOK' /\ ServiceTypeOK'
    BY <1>0, <1>6 DEF vars, wireVars, serviceVars, TypeOK, WireTypeOK, ServiceTypeOK
  <2> QED BY <2>1, ServiceAInv
<1> QED BY <1>1, <1>2, <1>3, <1>4, <1>5, <1>6 DEF Next, OnRequest

\* The inductive invariant holds always.
LEMMA AlwaysAInv == Spec => []AInv
BY InitAInv, NextAInv, PTL DEF Spec

(******************************************************************************)
(* The structs, lists, counters and messages of both tiers keep their types   *)
(* under every fault; n_inflight, unsigned in the code, never wraps.          *)
(******************************************************************************)
THEOREM TypesHold == Spec => []TypeOK
<1>1. AInv => TypeOK
  BY DEF AInv
<1> QED BY <1>1, AlwaysAInv, PTL

(******************************************************************************)
(* Under every fault, the counter the drain loop waits on is the length of    *)
(* the in-flight list, and the list is the calls submitted and not detached.  *)
(******************************************************************************)
THEOREM CounterIsExact == Spec => []InflightCounted
<1>1. AInv => InflightCounted
  BY ZenonT(60) DEF AInv, TypeOK, FrontTypeOK, Counted, CallOK, InflightCounted
<1> QED BY <1>1, AlwaysAInv, PTL

(******************************************************************************)
(* Under every fault, an io completes at most once, and exactly once before   *)
(* its struct nkvx_call is freed.                                             *)
(******************************************************************************)
THEOREM CompletionIsUnique == Spec => []CompletesOnce
<1>1. AInv => CompletesOnce
  <2> SUFFICES ASSUME AInv, NEW c \in Call
               PROVE  fired[c] <= 1 /\ (call[c].mem = "freed" => fired[c] = 1)
    BY DEF CompletesOnce
  <2>1. CallOK(c) /\ call[c].mem \in {"unused", "live", "freed"}
    BY ZenonT(60) DEF AInv, TypeOK, FrontTypeOK, CallRecord
  <2> QED BY <2>1, SMT DEF CallOK
<1> QED BY <1>1, AlwaysAInv, PTL

(******************************************************************************)
(* Under every fault, no Mercury callback that can still fire carries a freed *)
(* struct nkvx_call.                                                          *)
(******************************************************************************)
THEOREM CallbacksFindTheirCall == Spec => []NoCallbackOnFreedCall
<1>1. AInv => NoCallbackOnFreedCall
  <2> SUFFICES ASSUME AInv, NEW c \in Call, Outstanding(c) \/ call[c].cancel_handle
               PROVE  call[c].mem = "live"
    BY DEF NoCallbackOnFreedCall
  <2>1. CallOK(c) /\ call[c].mem \in {"unused", "live", "freed"}
    BY DEF AInv, TypeOK, FrontTypeOK, CallRecord
  <2> QED BY <2>1 DEF CallOK, Outstanding
<1> QED BY <1>1, AlwaysAInv, PTL

(******************************************************************************)
(* Under every fault, a destroyed channel has no io left on its               *)
(* exec_inflight list.                                                        *)
(******************************************************************************)
THEOREM DestroyStrandsNothing == Spec => []ClosedChannelIsEmpty
<1>1. AInv => ClosedChannelIsEmpty
  BY DEF AInv, CallOK, ClosedChannelIsEmpty, CallsOf
<1> QED BY <1>1, AlwaysAInv, PTL

\* The two invariants together.
LEMMA AlwaysQInv ==
    ASSUME HonestFaults
    PROVE  Spec => []QInv
<1>1. Init => QInv
  BY InitAInv, InitQuiet DEF QInv
<1>2. QInv /\ [Next]_vars => QInv'
  BY NextAInv, NextQuiet DEF QInv
<1> QED BY <1>1, <1>2, PTL DEF Spec

(******************************************************************************)
(* While the executor PULLs from or PUSHes into a tenant's buffer, the io is  *)
(* pending and the front holds the handle: whatever the tenant aborts or      *)
(* destroys, whichever messages are lost, and whenever the executor dies.     *)
(******************************************************************************)
THEOREM BufferIsSafe ==
    ASSUME HonestFaults
    PROVE  Spec => []NoLateAccess
<1>1. QInv => NoLateAccess
  <2> SUFFICES ASSUME QInv, NEW c \in Call, Touching(c)
               PROVE  /\ fired[c] = 0
                      /\ (IF req[c].phase = "pulling" THEN "src" ELSE "sink")
                            \in call[c].bulks
    BY DEF NoLateAccess
  <2>1. QuietOK(c) /\ req[c].phase \in {"pulling", "pushing"}
    BY DEF QInv, Quiet, Touching, push_in_flight
  <2>2. Busy(c)
    BY <2>1 DEF Busy, Registered
  <2>3. (IF req[c].phase = "pulling" THEN "src" ELSE "sink") \in shape[c]
    BY <2>1 DEF QuietOK, PhaseFits
  <2> QED BY <2>1, <2>2, <2>3 DEF QuietOK
<1> QED BY <1>1, AlwaysQInv, PTL

(******************************************************************************)
(* An nkvx_cancel ack in transit proves that the executor has no request of   *)
(* the call and will get none.                                                *)
(******************************************************************************)
THEOREM AckIsProof ==
    ASSUME HonestFaults
    PROVE  Spec => []AckProvesQuiescence
<1>1. QInv => AckProvesQuiescence
  BY DEF QInv, Quiet, QuietOK, Busy, AckProvesQuiescence
<1> QED BY <1>1, AlwaysQInv, PTL

\* The inductive invariant holds always.
LEMMA AlwaysSInv ==
    ASSUME HonestFaults
    PROVE  Spec => []SInv
<1>1. Init => SInv
  BY InitAInv, InitQuiet, InitSink DEF SInv, QInv
<1>2. SInv /\ [Next]_vars => SInv'
  BY NextAInv, NextQuiet, NextSim DEF SInv, QInv
<1> QED BY <1>1, <1>2, PTL DEF Spec

(******************************************************************************)
(* A command that reports its result in the sink has its whole result there,  *)
(* whatever is aborted, lost or crashes.                                      *)
(******************************************************************************)
THEOREM ReportedSinkIsWhole ==
    ASSUME HonestFaults
    PROVE  Spec => []SinkSuccessIsWhole
<1>1. SInv => SinkSuccessIsWhole
  BY DEF SInv, SinkOK, SinkSuccessIsWhole
<1> QED BY <1>1, AlwaysSInv, PTL

(******************************************************************************)
(* The two tiers implement the lease of the tenant's buffer: whatever is      *)
(* aborted, lost or crashes, the buffer is touched only while it is lent,     *)
(* returned once, and reported filled only if it is.                          *)
(******************************************************************************)
THEOREM TiersImplementLease ==
    ASSUME HonestFaults
    PROVE  Spec => ImplementsLease
<1>1. Init => Lease!LeaseInit
  BY InitSink
<1>2. SInv /\ [Next]_vars => [Lease!LeaseNext]_(Lease!leaseVars)
  BY NextSim DEF LeaseStep
<1> QED BY <1>1, <1>2, AlwaysSInv, PTL DEF Spec, ImplementsLease, Lease!LeaseSpec
================================================================================
