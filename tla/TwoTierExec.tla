------------------------------ MODULE TwoTierExec ------------------------------
(******************************************************************************)
(* The two tiers together: the fronts of target/nkvx_front_client.c and the   *)
(* executor service of rados-nkvx/nkvx_service.c, over the Mercury            *)
(* operations of ExecWire.  The properties are about what the two-phase       *)
(* cancel handshake exists for: a tenant's buffer is never touched after its  *)
(* command completed, and every command completes once.                       *)
(******************************************************************************)
EXTENDS FrontClient, ExecService

vars == <<frontVars, serviceVars, wireVars>>

Init == WireInit /\ FrontInit /\ ServiceInit

Next ==
    \/ \E f \in Front :
          \/ nkvx_front_forward(f) /\ UNCHANGED serviceVars
          \/ kvrados_destroy_channel_cb(f) /\ UNCHANGED serviceVars
          \/ DrainDone(f) /\ UNCHANGED serviceVars
          \/ DrainError(f) /\ UNCHANGED serviceVars
    \/ \E c \in Call :
          \/ kvrados_handle_abort(c) /\ UNCHANGED serviceVars
          \/ nkvx_front_forward_cb(c) /\ UNCHANGED serviceVars
          \/ nkvx_cancel_ack_cb(c) /\ UNCHANGED serviceVars
          \/ nkvx_exec_handler(c) /\ UNCHANGED frontVars
          \/ nkvx_input_pulled_cb(c) /\ UNCHANGED frontVars
          \/ nkvx_result_pushed_cb(c) /\ UNCHANGED frontVars
          \/ nkvx_service_tick_stalls(c) /\ UNCHANGED frontVars
          \/ nkvx_cancel_handler(c) /\ UNCHANGED frontVars
    \/ Crash /\ UNCHANGED frontVars
    \/ Restart /\ UNCHANGED frontVars

Spec == Init /\ [][Next]_vars

(******************************************************************************)
(* Fairness: the front's poller (and the drain loop) keep progressing and     *)
(* triggering, the service's progress loop does, and Mercury delivers what    *)
(* was sent and resolves what was cancelled.  Nothing forces a tenant to      *)
(* submit, abort or destroy, nor a fault to happen.                           *)
(******************************************************************************)
Fairness ==
    /\ \A c \in Call :
          /\ WF_vars(nkvx_front_forward_cb(c) /\ UNCHANGED serviceVars)
          /\ WF_vars(nkvx_cancel_ack_cb(c) /\ UNCHANGED serviceVars)
          /\ WF_vars(nkvx_exec_handler(c) /\ UNCHANGED frontVars)
          /\ WF_vars(nkvx_input_pulled_cb(c) /\ UNCHANGED frontVars)
          /\ WF_vars(nkvx_result_pushed_cb(c) /\ UNCHANGED frontVars)
          /\ WF_vars(nkvx_service_tick_stalls(c) /\ UNCHANGED frontVars)
          /\ WF_vars(nkvx_cancel_handler(c) /\ UNCHANGED frontVars)
    /\ \A f \in Front : WF_vars(DrainDone(f) /\ UNCHANGED serviceVars)

FairSpec == Spec /\ Fairness

--------------------------------------------------------------------------------
(******************************************************************************)
(* Types of the whole state: of the call and request structs, the lists and   *)
(* the messages.  n_inflight is an unsigned in the code, so this includes     *)
(* that it never goes below zero.                                             *)
(******************************************************************************)
TypeOK == WireTypeOK /\ FrontTypeOK /\ ServiceTypeOK

\* A remote transfer of the executor is using the memory of call c.
Touching(c) == push_in_flight(req[c])

(******************************************************************************)
(* While the executor PULLs from or PUSHes into a tenant's buffer, the        *)
(* command has not completed and the front still holds the bulk handle the    *)
(* transfer goes through.  It is what nkvx_front_cancel_all promises: "no     *)
(* PUSH can land in the DPTR after release" (nkvx_front_client.h:245).        *)
(******************************************************************************)
NoLateAccess ==
    \A c \in Call : Touching(c) =>
        /\ fired[c] = 0
        /\ (IF req[c].phase = "pulling" THEN "src" ELSE "sink") \in call[c].bulks

(******************************************************************************)
(* An nkvx_cancel ack on its way to the front proves that the executor is     *)
(* done with the call: no request in its registry, none still to arrive       *)
(* (nkvx_req_finish acks last, "POST-quiesce").                               *)
(******************************************************************************)
AckProvesQuiescence ==
    \A c \in Call : ackWire[c] > 0 => ~Registered(c) /\ c \notin execWire

(******************************************************************************)
(* An io completes at most once, and its call is freed only after that: the   *)
(* done-callback "will fire exactly once" (nkvx_front_client.h:123), through  *)
(* whichever of the forward callback, the cancel join, the forced teardown    *)
(* and the submit error gets there.                                           *)
(******************************************************************************)
CompletesOnce ==
    \A c \in Call : /\ fired[c] <= 1
                    /\ call[c].mem = "freed" => fired[c] = 1

(******************************************************************************)
(* A Mercury operation that carries a call as its argument, and can still     *)
(* fire, carries a live one: neither the forward callback nor the ack         *)
(* callback runs on a freed struct nkvx_call.                                 *)
(******************************************************************************)
NoCallbackOnFreedCall ==
    \A c \in Call :
        (Outstanding(c) \/ call[c].cancel_handle) /\ chan[c[1]] # "closed"
            => call[c].mem = "live"

(******************************************************************************)
(* n_inflight, which the drain loop waits on, counts the in-flight list; and  *)
(* the list is the calls submitted and not detached.  The two are updated     *)
(* side by side in five functions of the front.                               *)
(******************************************************************************)
InflightCounted ==
    /\ inflight = {c \in Call : call[c].mem = "live" /\ ~call[c].detached}
    /\ \A f \in Front : n_inflight[f] = Cardinality(inflight \cap CallsOf(f))

(******************************************************************************)
(* When a channel is gone, its exec_inflight list is empty (the assertion at  *)
(* the end of kvrados_destroy_channel_cb): no io is stranded.                 *)
(******************************************************************************)
ClosedChannelIsEmpty ==
    \A f \in Front : chan[f] = "closed" => exec_inflight \cap CallsOf(f) = {}

(******************************************************************************)
(* A command that reports its result in the sink has its whole result there:  *)
(* the executor awaits the PUSH before it responds, so the tenant never reads *)
(* a partially written DPTR behind a success (nkvx_service.c:116).            *)
(******************************************************************************)
SinkSuccessIsWhole ==
    \A c \in Call : outcome[c] = "SINK" => sinkData[c] = "whole"

(******************************************************************************)
(* Every forwarded command completes: by its response, or by the join after   *)
(* an abort or a channel destroy.                                             *)
(******************************************************************************)
EveryExecCompletes ==
    \A c \in Call : (call[c].mem = "live") ~> (fired[c] = 1)

(******************************************************************************)
(* Destroying a channel comes to an end: the drain of                         *)
(* kvrados_destroy_channel_cb is a "bounded drain" (bdev_kvrados.c:1515).     *)
(******************************************************************************)
DestroyTerminates ==
    \A f \in Front : (chan[f] = "draining") ~> (chan[f] = "closed")

--------------------------------------------------------------------------------
\* The refinement mapping: a call's buffer is lent from its submission to its
\* completion, and then it is what the command reports.
LeaseState == [c \in Call |-> IF fired[c] > 0 THEN outcome[c]
                              ELSE IF call[c].mem = "unused" THEN "idle" ELSE "lent"]
Touched == {c \in Call : Touching(c)}
Filled == {c \in Call : sinkData[c] = "whole"}

(******************************************************************************)
(* The two tiers implement the abstract lease of the tenant's buffer: each    *)
(* step of either side is a step of DptrLease or leaves the lease alone.      *)
(******************************************************************************)
Lease == INSTANCE DptrLease WITH lease <- LeaseState, touching <- Touched, filled <- Filled

ImplementsLease == Lease!LeaseSpec

===============================================================================
