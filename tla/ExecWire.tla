------------------------------- MODULE ExecWire -------------------------------
(****************************************************************************)
(* What the two tiers of a KV Exec share: the calls, the Mercury operations *)
(* and messages between a front (target/nkvx_front_client.c) and the        *)
(* executor service (rados-nkvx/nkvx_service.c), and the faults of the      *)
(* transport and of the executor process that a model may switch on.        *)
(*                                                                          *)
(* A call is named by its front and its client_call_id, the pair the        *)
(* executor keys its registry on.  Mercury is outside the repository: its   *)
(* operations are modelled from how the two sides use them.                 *)
(****************************************************************************)
EXTENDS Naturals, FiniteSets

CONSTANTS
    Front,      \* the front instances: one per I/O channel of the bdev
    MaxCalls,   \* bound: Exec forwards per front
    Faults,     \* the faults switched on, a subset of FaultKinds
    Stalls      \* the service's stall hooks (NKVX_TEST_*_STALL_TICKS) are set

(****************************************************************************)
(* "drop"      the executor fails to decode a request, or to send a         *)
(*             response: it logs and carries on, the front hears nothing    *)
(* "crash"     the executor process dies and may be started again           *)
(* "overtake"  a cancel may be handled before the Exec it is about          *)
(* "ackError"  a cancel RPC may resolve with an error, the executor alive   *)
(* "fwdError"  an Exec RPC may resolve with an error, the executor alive    *)
(* "progressError"  the front's own HG_Progress may fail                    *)
(****************************************************************************)
FaultKinds == {"drop", "crash", "overtake", "ackError", "fwdError", "progressError"}

ASSUME WireAssumption ==
    /\ IsFiniteSet(Front)
    /\ MaxCalls \in Nat
    /\ Faults \subseteq FaultKinds
    /\ Stalls \in BOOLEAN

Call == Front \X (1..MaxCalls)

(****************************************************************************)
(* The bulk handles an Exec may carry: "src" (input_bulk, registered when   *)
(* the input exceeds NKVX_INLINE_MAX) and "sink" (result_sink, registered   *)
(* when the output buffer does).                                            *)
(****************************************************************************)
Bulk == {"src", "sink"}

(****************************************************************************)
(* Status of a completion.  INLINE and SINK are both SUCCESS: the result    *)
(* rode in the response, or was PUSHed into the sink.  FAILED stands for    *)
(* every error status but ABORTED.                                          *)
(****************************************************************************)
Status == {"INLINE", "SINK", "FAILED", "ABORTED"}

VARIABLES
    up,         \* the executor process runs
    fwd,        \* per call, the HG_Forward of the Exec: none, posted,
                \* canceled (HG_Cancel issued, not resolved) or done
    shape,      \* per call, the bulk handles its request carries
    execWire,   \* the calls whose Exec request is in transit
    respWire,   \* per call, the Exec response in transit, or "none"
    cancelWire, \* per call, the nkvx_cancel requests in transit
    ackWire,    \* per call, the nkvx_cancel responses in transit
    severed     \* the calls whose connection died with the executor

wireVars == <<up, fwd, shape, execWire, respWire, cancelWire, ackWire, severed>>

WireTypeOK ==
    /\ up \in BOOLEAN
    /\ fwd \in [Call -> {"none", "posted", "canceled", "done"}]
    /\ shape \in [Call -> SUBSET Bulk]
    /\ execWire \in SUBSET Call
    /\ respWire \in [Call -> Status \cup {"none"}]
    /\ cancelWire \in [Call -> Nat]
    /\ ackWire \in [Call -> Nat]
    /\ severed \in SUBSET Call

WireInit ==
    /\ up = TRUE
    /\ fwd = [c \in Call |-> "none"]
    /\ shape = [c \in Call |-> {}]
    /\ execWire = {}
    /\ respWire = [c \in Call |-> "none"]
    /\ cancelWire = [c \in Call |-> 0]
    /\ ackWire = [c \in Call |-> 0]
    /\ severed = {}

\* HG_Forward of the Exec of c carrying the bulk handles s.
PostExec(c, s) ==
    /\ fwd' = [fwd EXCEPT ![c] = "posted"]
    /\ shape' = [shape EXCEPT ![c] = s]
    /\ execWire' = IF up THEN execWire \cup {c} ELSE execWire
    /\ severed' = IF up THEN severed ELSE severed \cup {c}

\* HG_Forward of one nkvx_cancel for each call of S, and HG_Cancel of the Exec
\* forward of each call of C (a no-op on a forward that already resolved).
PostCancels(S, C) ==
    /\ cancelWire' = [c \in Call |-> IF c \in S /\ up THEN cancelWire[c] + 1
                                                      ELSE cancelWire[c]]
    /\ fwd' = [c \in Call |-> IF c \in C /\ fwd[c] = "posted" THEN "canceled"
                                                              ELSE fwd[c]]

\* The Exec forward of c has not resolved at the front.
Outstanding(c) == fwd[c] \in {"posted", "canceled"}

\* HG_Respond to the Exec of c; the origin discards the response to a forward
\* that has resolved.
SendResponse(c, st) ==
    respWire' = IF Outstanding(c) THEN [respWire EXCEPT ![c] = st] ELSE respWire

\* The ways the Exec forward of c can resolve, as the status the front derives
\* from each: the executor's response (or one that does not decode), the
\* HG_CANCELED that follows an HG_Cancel, a transport error.
ForwardResults(c) ==
    {s \in Status :
        \/ respWire[c] # "none" /\ s \in {respWire[c], "FAILED"}
        \/ fwd[c] = "canceled" /\ s = "ABORTED"
        \/ ("fwdError" \in Faults \/ c \in severed) /\ s = "FAILED"}

===============================================================================
