------------------------------ MODULE FrontClient ------------------------------
(****************************************************************************)
(* The front: the Mercury client of one bdev channel                        *)
(* (target/nkvx_front_client.c), and the part of target/bdev_kvrados.c that *)
(* submits an Exec to it, aborts one, and destroys the channel.  A front    *)
(* runs on its channel's reactor thread: each function and each Mercury     *)
(* callback is one step.                                                    *)
(****************************************************************************)
EXTENDS ExecWire

VARIABLES
    call,          \* per call, its struct nkvx_call
    inflight,      \* the calls on the in-flight list of their front
    n_inflight,    \* per front, the counter kept beside that list
    next_call_id,  \* per front, the last client_call_id given out
    chan,          \* per front, its channel: open, draining or closed
    exec_inflight, \* the calls on the bdev channel's exec_inflight list
    fired,         \* per call, how often the bdev io was completed
    outcome        \* per call, the status it was last completed with

callVars   == <<call, inflight, n_inflight>>
tenantVars == <<exec_inflight, fired, outcome>>
frontVars  == <<callVars, tenantVars, next_call_id, chan>>

CallRecord ==
    [mem : {"unused", "live", "freed"}, bulks : SUBSET Bulk,
     cancelling : BOOLEAN, forward_done : BOOLEAN, cancel_acked : BOOLEAN,
     tenant_done : BOOLEAN, detached : BOOLEAN, cancel_handle : BOOLEAN]

FrontTypeOK ==
    /\ call \in [Call -> CallRecord]
    /\ inflight \in SUBSET Call
    /\ n_inflight \in [Front -> Nat]
    /\ next_call_id \in [Front -> 0..MaxCalls]
    /\ chan \in [Front -> {"open", "draining", "closed"}]
    /\ exec_inflight \in SUBSET Call
    /\ fired \in [Call -> Nat]
    /\ outcome \in [Call -> Status \cup {"none"}]

NewCall(s) ==
    [mem |-> "live", bulks |-> s, cancelling |-> FALSE, forward_done |-> FALSE,
     cancel_acked |-> FALSE, tenant_done |-> FALSE, detached |-> FALSE,
     cancel_handle |-> FALSE]

FrontInit ==
    /\ call = [c \in Call |-> [NewCall({}) EXCEPT !.mem = "unused"]]
    /\ inflight = {}
    /\ n_inflight = [f \in Front |-> 0]
    /\ next_call_id = [f \in Front |-> 0]
    /\ chan = [f \in Front |-> "open"]
    /\ exec_inflight = {}
    /\ fired = [c \in Call |-> 0]
    /\ outcome = [c \in Call |-> "none"]

\* kvrados_exec_complete: unlink the io of c, complete it with status st.
Complete(c, st) ==
    /\ exec_inflight' = exec_inflight \ {c}
    /\ fired' = [fired EXCEPT ![c] = @ + 1]
    /\ outcome' = [outcome EXCEPT ![c] = st]

\* Put c on the in-flight list and count it in; take it off and count it out.
Attach(c) ==
    /\ inflight' = inflight \cup {c}
    /\ n_inflight' = [n_inflight EXCEPT ![c[1]] = @ + 1]

Detach_Uncounted(c) ==
    /\ inflight' = inflight \ {c}
    /\ UNCHANGED n_inflight
Detach(c) ==
    /\ inflight' = inflight \ {c}
    /\ n_inflight' = [n_inflight EXCEPT ![c[1]] = @ - 1]

--------------------------------------------------------------------------------
(****************************************************************************)
(* nkvx_front_forward_full, called by kvrados_handle_exec.  The handles the *)
(* request needs are acquired, the call goes on the in-flight list, and the *)
(* request is posted; or one of those steps fails, everything is undone, no *)
(* callback is armed, and the bdev completes the io FAILED itself.          *)
(****************************************************************************)
nkvx_front_forward(f) ==
    /\ chan[f] = "open"
    /\ next_call_id[f] < MaxCalls
    /\ next_call_id' = [next_call_id EXCEPT ![f] = @ + 1]
    /\ LET c == <<f, next_call_id[f] + 1>> IN
       \/ \E s \in SUBSET Bulk :
             /\ call' = [call EXCEPT ![c] = NewCall(s)]
             /\ Attach(c)
             /\ exec_inflight' = exec_inflight \cup {c}
             /\ PostExec(c, s)
             /\ UNCHANGED <<fired, outcome>>
       \/ /\ call' = [call EXCEPT ![c] = [call[c] EXCEPT !.mem = "freed"]]
          /\ Complete(c, "FAILED")
          /\ UNCHANGED <<inflight, n_inflight, fwd, shape, execWire, severed>>
    /\ UNCHANGED <<chan, up, respWire, cancelWire, ackWire>>

--------------------------------------------------------------------------------
\* The call r may be reaped: both halves of the cancel join have resolved.
JoinReady_NoForward(r) == r.cancelling /\ r.cancel_acked
JoinReady(r) == r.cancelling /\ r.forward_done /\ r.cancel_acked

\* nkvx_call_try_complete on the call c, whose record the caller has made r.
nkvx_call_try_complete(c, r) ==
    IF JoinReady(r)
    THEN /\ call' = [call EXCEPT ![c] = [r EXCEPT !.mem = "freed", !.bulks = {},
                                          !.tenant_done = TRUE, !.detached = TRUE]]
         /\ IF r.tenant_done THEN UNCHANGED tenantVars ELSE Complete(c, "ABORTED")
         /\ IF r.detached THEN UNCHANGED <<inflight, n_inflight>> ELSE Detach(c)
    ELSE /\ call' = [call EXCEPT ![c] = r]
         /\ UNCHANGED <<inflight, n_inflight, tenantVars>>

(****************************************************************************)
(* nkvx_call_begin_cancel on each call of S.  A call already cancelling is  *)
(* left alone.  A call with no bulk handle needs no handshake.  For the     *)
(* calls of U, nkvx_cancel cannot be created or forwarded: their Exec is    *)
(* not cancelled either, and their natural completion is awaited.           *)
(****************************************************************************)
CancelTargets(S) == {c \in S : ~call[c].cancelling}

\* The calls of T that go through the handshake.
NeedsHandshake_SinkOnly(T) == {c \in T : "sink" \in call[c].bulks}
NeedsHandshake(T) == {c \in T : call[c].bulks # {}}

\* The calls of T whose Exec forward is cancelled at the origin.
OriginCancelled(T, U) == T \ (NeedsHandshake(T) \cap U)

nkvx_call_begin_cancel(S, U) ==
    LET T == CancelTargets(S)
        signalled == NeedsHandshake(T) \ U
    IN  /\ call' = [c \in Call |->
                      IF c \in T
                      THEN [call[c] EXCEPT !.cancelling = TRUE,
                                           !.cancel_acked = c \notin signalled,
                                           !.cancel_handle = c \in signalled]
                      ELSE call[c]]
        /\ PostCancels(signalled, OriginCancelled(T, U))
        /\ UNCHANGED <<inflight, n_inflight>>

\* kvrados_handle_abort: the io is looked up on exec_inflight, its call on the
\* in-flight list (nkvx_front_cancel); either miss makes the abort a no-op.
kvrados_handle_abort_Completes(c) ==
    /\ chan[c[1]] = "open"
    /\ c \in exec_inflight
    /\ c \in inflight
    /\ \E U \in SUBSET {c} : nkvx_call_begin_cancel({c}, U)
    /\ Complete(c, "ABORTED")
    /\ UNCHANGED <<next_call_id, chan,
                   up, shape, execWire, respWire, ackWire, severed>>
kvrados_handle_abort(c) ==
    /\ chan[c[1]] = "open"
    /\ c \in exec_inflight
    /\ c \in inflight
    /\ \E U \in SUBSET {c} : nkvx_call_begin_cancel({c}, U)
    /\ UNCHANGED <<tenantVars, next_call_id, chan,
                   up, shape, execWire, respWire, ackWire, severed>>

--------------------------------------------------------------------------------
(****************************************************************************)
(* nkvx_front_forward_cb: the Exec forward of c resolves with status st.    *)
(* On the cancel path only the join may release anything.  The branch for a *)
(* call completed by fail_all_pending but not cancelling reaps it silently. *)
(* An HG_CANCELED may have kept the request from being sent.                *)
(****************************************************************************)
nkvx_front_forward_cb(c) ==
    /\ Outstanding(c)
    /\ chan[c[1]] # "closed"
    /\ \E st \in ForwardResults(c) :
         IF call[c].cancelling
         THEN nkvx_call_try_complete(c, [call[c] EXCEPT !.forward_done = TRUE])
         ELSE /\ call' = [call EXCEPT ![c] = [call[c] EXCEPT !.mem = "freed",
                                            !.bulks = {}, !.detached = TRUE]]
              /\ IF call[c].tenant_done
                 THEN UNCHANGED <<inflight, n_inflight, tenantVars>>
                 ELSE Detach(c) /\ Complete(c, st)
    /\ fwd' = [fwd EXCEPT ![c] = "done"]
    /\ respWire' = [respWire EXCEPT ![c] = "none"]
    /\ \/ UNCHANGED execWire
       \/ fwd[c] = "canceled" /\ execWire' = execWire \ {c}
    /\ UNCHANGED <<next_call_id, chan, up, shape, cancelWire, ackWire, severed>>

\* nkvx_cancel_ack_cb: the cancel RPC of c resolves, with the executor's ack or
\* with an error; both count as the ack.
nkvx_cancel_ack_cb(c) ==
    /\ call[c].cancel_handle
    /\ chan[c[1]] # "closed"
    /\ \/ /\ ackWire[c] > 0
          /\ ackWire' = [ackWire EXCEPT ![c] = @ - 1]
       \/ /\ "ackError" \in Faults \/ c \in severed
          /\ UNCHANGED ackWire
    /\ nkvx_call_try_complete(c, [call[c] EXCEPT !.cancel_handle = FALSE,
                                                 !.cancel_acked = TRUE])
    /\ UNCHANGED <<next_call_id, chan,
                   up, fwd, shape, execWire, respWire, cancelWire, severed>>

--------------------------------------------------------------------------------
(****************************************************************************)
(* kvrados_destroy_channel_cb: cancel everything, then progress until       *)
(* nothing is outstanding (the callbacks above run meanwhile) or until      *)
(* HG_Progress fails; then force-fail what is left and finalize.            *)
(****************************************************************************)
CallsOf(f) == {c \in Call : c[1] = f}

kvrados_destroy_channel_cb(f) ==
    /\ chan[f] = "open"
    /\ chan' = [chan EXCEPT ![f] = "draining"]
    /\ \E U \in SUBSET (inflight \cap CallsOf(f)) :
          nkvx_call_begin_cancel(inflight \cap CallsOf(f), U)
    /\ UNCHANGED <<tenantVars, next_call_id,
                   up, shape, execWire, respWire, ackWire, severed>>

\* The condition on which the drain loop is left without an error.
Drained_Early(f) == n_inflight[f] <= 1
Drained(f) == n_inflight[f] = 0

DrainDone(f) ==
    /\ chan[f] = "draining"
    /\ Drained(f)
    /\ chan' = [chan EXCEPT ![f] = "closed"]
    /\ UNCHANGED <<callVars, tenantVars, next_call_id, wireVars>>

\* The loop breaks on a progress error: nkvx_front_fail_all_pending, then fini.
DrainError(f) ==
    LET left == inflight \cap CallsOf(f) IN
    /\ "progressError" \in Faults
    /\ chan[f] = "draining"
    /\ n_inflight[f] > 0
    /\ chan' = [chan EXCEPT ![f] = "closed"]
    /\ call' = [c \in Call |->
                  IF c \in left
                  THEN [call[c] EXCEPT !.tenant_done = TRUE, !.bulks = {},
                                       !.detached = TRUE]
                  ELSE call[c]]
    /\ inflight' = inflight \ left
    /\ n_inflight' = [n_inflight EXCEPT ![f] = @ - Cardinality(left)]
    /\ exec_inflight' = exec_inflight \ left
    /\ fired' = [c \in Call |-> IF c \in left THEN fired[c] + 1 ELSE fired[c]]
    /\ outcome' = [c \in Call |-> IF c \in left THEN "FAILED" ELSE outcome[c]]
    /\ UNCHANGED <<next_call_id, wireVars>>

===============================================================================
