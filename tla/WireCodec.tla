------------------------------- MODULE WireCodec -------------------------------
(**********************************************************************************)
(* The inter-tier wire format (target/nkvx_exec_rpc.c) and the buffers of one     *)
(* request and its response: field-by-field serialisation with length-prefixed    *)
(* opaque bytes, a payload inline up to NKVX_INLINE_MAX and by bulk transfer      *)
(* beyond, the status as an integer, and who frees what.  The nkvx_exec and the   *)
(* nkvx_kv envelopes have the same shape here: verb stands for the fixed fields   *)
(* (op_id, call id, read_only, sha256, module names), value for the Exec input    *)
(* and the Store value.                                                           *)
(**********************************************************************************)
EXTENDS Integers, Sequences

CONSTANTS
    WcInlineMax,  \* NKVX_INLINE_MAX
    WcMaxLen,     \* bound on lengths of values, results and output buffers
    WcMaxKey,     \* bound on key lengths
    WcStatus,     \* enum spdk_kvdev_io_status, as integers
    WcFailed,     \* SPDK_KVDEV_IO_STATUS_FAILED
    WcNotSupported,
    WcTooSmall,   \* SPDK_KVDEV_IO_STATUS_BUFFER_TOO_SMALL
    WcForeign     \* integers outside the enum

ASSUME WcAssumption ==
    /\ WcInlineMax \in Nat /\ WcMaxLen \in Nat /\ WcMaxKey \in Nat
    /\ {0, WcFailed, WcNotSupported, WcTooSmall} \subseteq WcStatus
    /\ WcStatus \subseteq Int /\ WcForeign \subseteq Int /\ WcStatus \cap WcForeign = {}
    /\ {WcFailed, WcNotSupported} \cap {0, WcTooSmall} = {}

VARIABLES
    wcCall,   \* the call at the front: what was sent and the output buffer
    wcWire,   \* the message in transit
    wcReq,    \* the executor's request: decoded fields and result
    wcHeap,   \* per executor buffer, allocations less frees
    wcDone    \* the completion seen by the front's caller

wcVars == <<wcCall, wcWire, wcReq, wcHeap, wcDone>>

Data(tag, len) == [i \in 1..len |-> <<tag, i>>]
Prefix(s, n) == SubSeq(s, 1, IF n < Len(s) THEN n ELSE Len(s))
WcBuffer == {"decoded", "pulled", "result"}
WcNothing == [at |-> "nowhere"]

WcInit ==
    /\ wcCall = WcNothing /\ wcReq = WcNothing /\ wcDone = WcNothing
    /\ wcWire = <<>>
    /\ wcHeap = [b \in WcBuffer |-> 0]

--------------------------------------------------------------------------------
nkvx_status_to_wire(status) == IF status \in WcStatus THEN status ELSE WcFailed
nkvx_status_from_wire(wire) == IF wire \in WcStatus THEN wire ELSE WcFailed

\* nkvx_proc_opaque: encoding, and decoding at position p.
nkvx_proc_opaque(buf) == <<Len(buf)>> \o buf
OpaqueAt(wire, p) == SubSeq(wire, p + 1, p + wire[p])

InlineValue_Below(value) == IF Len(value) < WcInlineMax THEN value ELSE <<>>
InlineValue(value) == IF Len(value) <= WcInlineMax THEN value ELSE <<>>

hg_proc_nkvx_kv_in_t(in) ==
    <<in.verb, Len(in.key)>> \o in.key
    \o <<in.osize, Len(in.value)>> \o nkvx_proc_opaque(InlineValue(in.value))
    \o <<in.value_bulk, in.result_sink>>

hg_proc_nkvx_kv_in_t_Decode(wire) ==
    LET key_len == wire[2]
        p == 3 + key_len
        inline == OpaqueAt(wire, p + 2)
        q == p + 3 + Len(inline)
    IN  [verb |-> wire[1], key |-> SubSeq(wire, 3, 2 + key_len), osize |-> wire[p],
         value_len |-> wire[p + 1], value_inline |-> inline,
         value_bulk |-> wire[q], result_sink |-> wire[q + 1]]

hg_proc_nkvx_kv_out_t(out) ==
    <<out.status, out.result_len>> \o nkvx_proc_opaque(out.result_inline)
hg_proc_nkvx_kv_out_t_Decode(wire) ==
    [status |-> wire[1], result_len |-> wire[2], result_inline |-> OpaqueAt(wire, 3)]

--------------------------------------------------------------------------------
\* nkvx_front_kv_forward (and nkvx_front_forward_full): bulk handles for a value and an
\* output buffer past the inline limit (a caller may offer none), then the request is encoded.
NeedsBulk(len) == len > WcInlineMax
WcForward(key_len, value_len, osize, sink) ==
    LET in == [verb |-> "verb", key |-> Data("key", key_len), value |-> Data("value", value_len),
               osize |-> osize, value_bulk |-> NeedsBulk(value_len),
               result_sink |-> sink /\ NeedsBulk(osize)]
    IN  /\ wcCall = WcNothing
        /\ wcCall' = [at |-> "sent", in |-> in, host |-> <<>>]
        /\ wcWire' = hg_proc_nkvx_kv_in_t(in)
        /\ wcDone' = WcNothing
        /\ UNCHANGED <<wcReq, wcHeap>>

\* nkvx_kv_handler: decoding allocates the inline value; a value that comes by bulk is
\* pulled first into a buffer of the request.
WcHandle ==
    LET in == hg_proc_nkvx_kv_in_t_Decode(wcWire)
        pull == in.value_bulk /\ in.value_len > WcInlineMax
        inline == IF in.value_inline = <<>> THEN "null" ELSE "decoded"
    IN  /\ wcReq = WcNothing /\ wcCall.at = "sent"
        /\ wcReq' = [at |-> IF pull THEN "pull" ELSE "run", in |-> in,
                     value |-> in.value_inline, value_inline |-> inline,
                     value_buf |-> IF pull THEN "pulled" ELSE "null"]
        /\ wcHeap' = [wcHeap EXCEPT !["decoded"] = IF inline = "null" THEN 0 ELSE 1,
                                    !["pulled"] = IF pull THEN 1 ELSE 0]
        /\ wcWire' = <<>>
        /\ UNCHANGED <<wcCall, wcDone>>

\* nkvx_kv_req_finish: value_buf is detached from value_inline, which the decoder's own
\* HG_FREE pass then frees; HG_Respond has encoded the response before.
Freed ==
    LET value_inline == IF wcReq.value_buf = "null" THEN wcReq.value_inline ELSE "null"
    IN  [b \in WcBuffer |-> wcHeap[b] - (IF b = wcReq.value_buf THEN 1 ELSE 0)
                                    - (IF b = value_inline THEN 1 ELSE 0)
                                    - (IF b = "result" THEN wcHeap[b] ELSE 0)]

nkvx_kv_req_finish(out, host) ==
    /\ wcWire' = hg_proc_nkvx_kv_out_t(out)
    /\ wcHeap' = Freed
    /\ wcReq' = WcNothing
    /\ wcCall' = [wcCall EXCEPT !.at = "answered", !.host = host]
    /\ UNCHANGED wcDone

nkvx_kv_req_fail(status) ==
    nkvx_kv_req_finish([status |-> nkvx_status_to_wire(status), result_len |-> 0,
                        result_inline |-> <<>>], wcCall.host)

\* nkvx_kv_value_pulled_cb: value_inline now points at the pulled buffer.
WcPulled ==
    /\ wcReq.at = "pull"
    /\ \/ /\ wcReq' = [wcReq EXCEPT !.at = "run", !.value_inline = "pulled",
                                    !.value = SubSeq(wcCall.in.value, 1, wcReq.in.value_len)]
          /\ UNCHANGED <<wcCall, wcWire, wcHeap, wcDone>>
       \/ nkvx_kv_req_fail(WcFailed)

\* nkvx_executor_kv: any status, and a result of any length cut to osize.
WcRun(status, result_len) ==
    LET truncated == result_len > wcReq.in.osize
        buf == Prefix(Data("result", result_len), wcReq.in.osize)
    IN  /\ wcReq.at = "run"
        /\ IF status \in {0, WcTooSmall} THEN (status = WcTooSmall) = truncated
           ELSE result_len = 0
        /\ wcReq' = [at |-> "deliver", in |-> wcReq.in, value |-> wcReq.value,
                     value_inline |-> wcReq.value_inline, value_buf |-> wcReq.value_buf,
                     status |-> status, result_len |-> result_len, buf |-> buf]
        /\ wcHeap' = [wcHeap EXCEPT !["result"] = IF buf = <<>> THEN 0 ELSE 1]
        /\ UNCHANGED <<wcCall, wcWire, wcDone>>

\* nkvx_kv_run_and_deliver: PUSH into the sink, or inline, or NOT_SUPPORTED.
nkvx_kv_run_and_deliver ==
    LET big == Len(wcReq.buf) > WcInlineMax
        out(inline) == [status |-> nkvx_status_to_wire(wcReq.status),
                        result_len |-> wcReq.result_len, result_inline |-> inline]
    IN  /\ wcReq.at = "deliver"
        /\ \/ /\ big /\ wcReq.in.result_sink
              /\ nkvx_kv_req_finish(out(<<>>), wcReq.buf)
           \/ big /\ wcReq.in.result_sink /\ nkvx_kv_req_fail(WcFailed)
           \/ big /\ ~ wcReq.in.result_sink /\ nkvx_kv_req_fail(WcNotSupported)
           \/ ~ big /\ nkvx_kv_req_finish(out(wcReq.buf), wcCall.host)

\* nkvx_kv_forward_cb and the copy of an inline result into the output buffer.
WcComplete ==
    LET out == hg_proc_nkvx_kv_out_t_Decode(wcWire)
        copied == Prefix(out.result_inline, wcCall.in.osize)
    IN  /\ wcCall.at = "answered"
        /\ wcDone' = [at |-> "host", in |-> wcCall.in,
                      status |-> nkvx_status_from_wire(out.status),
                      result_len |-> out.result_len,
                      host |-> IF out.result_inline = <<>> THEN wcCall.host ELSE copied]
        /\ wcCall' = WcNothing
        /\ wcWire' = <<>>
        /\ UNCHANGED <<wcReq, wcHeap>>

WcNext ==
    \/ \E key_len \in 0..WcMaxKey, value_len, osize \in 0..WcMaxLen, sink \in BOOLEAN :
          WcForward(key_len, value_len, osize, sink)
    \/ WcHandle \/ WcPulled
    \/ \E status \in WcStatus \cup WcForeign, result_len \in 0..WcMaxLen :
          WcRun(status, result_len)
    \/ nkvx_kv_run_and_deliver
    \/ WcComplete

WcSpec == WcInit /\ [][WcNext]_wcVars

--------------------------------------------------------------------------------
(**********************************************************************************)
(* The executor runs the verb on the key and the value the front was given, for   *)
(* every length around NKVX_INLINE_MAX: a payload is inline or pulled, and the    *)
(* two tiers never disagree on which.                                             *)
(**********************************************************************************)
WcRequestArrives ==
    wcReq.at \in {"run", "deliver"} =>
        /\ wcReq.in.key = wcCall.in.key /\ wcReq.in.osize = wcCall.in.osize
        /\ wcReq.value = wcCall.in.value

(**********************************************************************************)
(* A completion that reports a result has it in the output buffer: the first      *)
(* min(result_len, osize) bytes, inline or pushed, with a status of the enum, and *)
(* BUFFER_TOO_SMALL exactly when result_len exceeds osize.                        *)
(**********************************************************************************)
WcResultArrives ==
    wcDone # WcNothing =>
        /\ wcDone.status \in WcStatus
        /\ wcDone.status \in {0, WcTooSmall} =>
              /\ wcDone.host = Prefix(Data("result", wcDone.result_len), wcDone.in.osize)
              /\ (wcDone.status = WcTooSmall) <=> (wcDone.result_len > wcDone.in.osize)

(**********************************************************************************)
(* Every buffer of a request is freed once, on every path: the decoded value by   *)
(* Mercury's HG_FREE pass, the pulled one by the service.                         *)
(**********************************************************************************)
WcFreedOnce == wcReq = WcNothing => \A b \in WcBuffer : wcHeap[b] = 0

(**********************************************************************************)
(* A request and its result cross the wire intact, and leave no buffer behind.    *)
(**********************************************************************************)
WcRoundTrip == WcRequestArrives /\ WcResultArrives /\ WcFreedOnce

================================================================================
