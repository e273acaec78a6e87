------------------------------- MODULE KvPayload -------------------------------
(***********************************************************************************)
(* A KV command's payload from end to end: the client lays head and value out      *)
(* in DMA memory and describes them with data blocks (nkv_vfu.h, nkvx_shim.c,      *)
(* the layout operators of VfuQueue); the target maps each block to one iovec;     *)
(* the bdev (target/bdev_kvrados.c) parses the key out of the iovecs and finds     *)
(* the value or the result sink behind it; the executor stores or returns the      *)
(* value; the client reads its buffer.  A byte of memory is an address and a       *)
(* content.                                                                        *)
(***********************************************************************************)
EXTENDS VfuQueue

LOCAL INSTANCE SequencesExt

CONSTANTS
    KpKeyMax,   \* KVRADOS_KEY_MAX_LEN
    KpKeyLen,   \* key lengths the clients use
    KpInline    \* NKVX_INLINE_MAX

ASSUME KpAssumption ==
    /\ KpKeyMax \in Nat \ {0} /\ KpKeyLen \subseteq Nat \ {0} /\ KpInline \in Nat

VARIABLES
    kpReq,     \* the command on its way
    kpReply,   \* what the client got for it
    kpStore    \* the value stored under the key of each length

kpVars == <<kpReq, kpReply, kpStore>>

KpNone == [verb |-> "none"]
HdrLen == 2
HeadAt == 1000                                \* where the shim's separate head lies
KeyOf(n) == [i \in 1..n |-> 100 + i]
ValueOf(n) == [i \in 1..n |-> 200 + i]        \* a value to store, an input to Exec

KpInit ==
    /\ kpReq = KpNone
    /\ kpReply = KpNone
    /\ kpStore = [n \in 1..KpKeyMax |-> <<>>]

Placed(s, at) == [i \in DOMAIN s |-> [at |-> at + i - 1, byte |-> s[i]]]
Contents(s) == [i \in DOMAIN s |-> s[i].byte]
Padded(s, n) == s \o [i \in 1..(IF n > Len(s) THEN n - Len(s) ELSE 0) |-> 0]

--------------------------------------------------------------------------------
(***********************************************************************************)
(* The client.                                                                     *)
(***********************************************************************************)
\* The clients keep the key's length in a uint8_t, without a look at its range.
StagedLen(klen) == klen % (KpKeyMax + 1)

\* [u16 key_len][key], little-endian.
StagedHead(klen) == <<StagedLen(klen), 0>> \o KeyOf(StagedLen(klen))

\* The target's iovecs: one for each data block.
Iovecs(segs, buf, iova) ==
    [i \in DOMAIN segs |-> SubSeq(buf, segs[i].at - iova + 1, segs[i].at - iova + segs[i].len)]

\* Head and value in one buffer (nvfu_kv_*_lk, nvfu_kv_exec, nkvx_exec) or apart
\* (nvfu_kv_xfer_sgl); the buffer reaches as far as the larger of request and response.
Described(apart, klen, body, room, iova) ==
    IF apart
    THEN LET buf == Placed(Padded(body, room), iova)
         IN  <<Placed(StagedHead(klen), HeadAt)>>
               \o Iovecs(nvfu_sgl_set_dptr_kv(iova, Len(buf)), buf, iova)
    ELSE LET buf == Placed(Padded(StagedHead(klen) \o body, room), iova)
         IN  Iovecs(nvfu_sgl_set_dptr(iova, Len(buf)), buf, iova)

Sends(verb, apart, klen, body, room, out, iova) ==
    /\ kpReq = KpNone
    /\ kpReq' = [verb |-> verb, apart |-> apart, klen |-> klen, body |-> body, out |-> out,
                 iova |-> iova, iovs |-> Described(apart, klen, body, room, iova)]
    /\ kpReply' = KpNone
    /\ UNCHANGED kpStore

SendStore(apart, klen, n, iova) == Sends("store", apart, klen, ValueOf(n), 0, 0, iova)
SendRetrieve(apart, klen, out, iova) ==
    Sends("retrieve", apart, klen, <<>>, IF apart THEN out ELSE HdrLen + StagedLen(klen) + out, out, iova)
SendExec(klen, n, out, iova) == Sends("exec", FALSE, klen, ValueOf(n), out, out, iova)

--------------------------------------------------------------------------------
(***********************************************************************************)
(* The bdev.                                                                       *)
(***********************************************************************************)
\* kvrados_gather: one pass over the iovecs.
kvrados_gather_Restart(iovs, off, n) ==
    LET take(acc, iov) ==
            IF Len(acc.out) = n \/ acc.off >= acc.pos + Len(iov)
            THEN [acc EXCEPT !.pos = @ + Len(iov)]
            ELSE [acc EXCEPT !.pos = @ + Len(iov), !.off = acc.pos + Len(iov),
                             !.out = @ \o SubSeq(iov, 1, Min({Len(iov), n - Len(acc.out)}))]
    IN  FoldLeft(take, [pos |-> 0, off |-> off, out |-> <<>>], iovs).out
kvrados_gather(iovs, off, n) ==
    LET take(acc, iov) ==
            IF Len(acc.out) = n \/ acc.off >= acc.pos + Len(iov)
            THEN [acc EXCEPT !.pos = @ + Len(iov)]
            ELSE LET seg_off == IF acc.off > acc.pos THEN acc.off - acc.pos ELSE 0
                     last == Min({Len(iov), seg_off + n - Len(acc.out)})
                 IN  [acc EXCEPT !.pos = @ + Len(iov), !.off = acc.pos + Len(iov),
                                 !.out = @ \o SubSeq(iov, seg_off + 1, last)]
    IN  FoldLeft(take, [pos |-> 0, off |-> off, out |-> <<>>], iovs).out

payload_len(iovs) == FoldLeft(LAMBDA n, iov : n + Len(iov), 0, iovs)

\* kvrados_parse_inpayload_key: the key, empty when malformed or cut short.
kvrados_parse_inpayload_key(iovs) ==
    LET hdr == Contents(kvrados_gather(iovs, 0, HdrLen))
        key_len == hdr[1] + 256 * hdr[2]
        key == Contents(kvrados_gather(iovs, HdrLen, key_len))
    IN  IF payload_len(iovs) < HdrLen THEN <<>>
        ELSE IF key_len \notin 1..KpKeyMax \/ payload_len(iovs) < HdrLen + key_len THEN <<>>
        ELSE key

value_off(iovs) == HdrLen + Len(kvrados_parse_inpayload_key(iovs))

\* The walk to the iovec that holds an offset: what is left of it, or nothing.
SpanAt(iovs, off) ==
    LET walk(acc, iov) ==
            IF acc.found THEN acc
            ELSE IF off < acc.pos + Len(iov)
            THEN [acc EXCEPT !.found = TRUE, !.span = SubSeq(iov, off - acc.pos + 1, Len(iov))]
            ELSE [acc EXCEPT !.pos = @ + Len(iov)]
    IN  FoldLeft(walk, [pos |-> 0, found |-> FALSE, span |-> <<>>], iovs).span

\* STORE: a small value that lies in one iovec is sent as it is, any other is gathered.
StoreValue(iovs) ==
    LET off == value_off(iovs)
        n == IF payload_len(iovs) > off THEN payload_len(iovs) - off ELSE 0
    IN  IF n <= KpInline /\ Len(SpanAt(iovs, off)) >= n
        THEN SubSeq(SpanAt(iovs, off), 1, n)
        ELSE kvrados_gather(iovs, off, n)

\* RETRIEVE: the sink is the iovec that holds value_off.
RetrieveSink(iovs) == SpanAt(iovs, value_off(iovs))

\* EXEC: the input is all of the payload behind the key; the sink is behind the key in
\* the first iovec.
ExecInput(iovs) ==
    LET off == value_off(iovs)
        n == IF payload_len(iovs) > off THEN payload_len(iovs) - off ELSE 0
    IN  IF Len(iovs[1]) >= off + n THEN SubSeq(iovs[1], off + 1, off + n)
        ELSE kvrados_gather(iovs, off, n)
ExecSink_Unbounded(iovs, osize) == SubSeq(iovs[1], value_off(iovs) + 1, Len(iovs[1]))
ExecSink(iovs, osize) ==
    LET rest == SubSeq(iovs[1], value_off(iovs) + 1, Len(iovs[1]))
    IN  SubSeq(rest, 1, Min({Len(rest), osize}))

--------------------------------------------------------------------------------
(***********************************************************************************)
(* The answers: status, length in DW0, and the bytes the client finds in its       *)
(* buffer.  A result longer than the sink is delivered in part and fails with      *)
(* BUFFER_TOO_SMALL, which the bdev completes as an error.                         *)
(***********************************************************************************)
\* The client copies out of the value's place min(DW0, out_len) bytes; those that the
\* target did not write hold what they held before.
Delivered(sink, result) ==
    [i \in 1..Min({Len(sink), Len(result)}) |-> [at |-> sink[i].at, byte |-> result[i]]]
ReadBack(written, at, n) ==
    [i \in 1..n |->
        IF \E w \in Range(written) : w.at = at + i - 1
        THEN (CHOOSE w \in Range(written) : w.at = at + i - 1).byte ELSE 0]

Answers(reply) ==
    /\ kpReply' = reply
    /\ kpReq' = KpNone

AnswerStore ==
    LET key == kvrados_parse_inpayload_key(kpReq.iovs)
    IN  /\ kpReq.verb = "store"
        /\ IF key = <<>>
           THEN Answers([verb |-> "refused", klen |-> kpReq.klen]) /\ UNCHANGED kpStore
           ELSE /\ kpStore' = [kpStore EXCEPT ![Len(key)] = Contents(StoreValue(kpReq.iovs))]
                /\ Answers([verb |-> "store", klen |-> kpReq.klen, sent |-> kpReq.body])

AnswerRetrieve ==
    LET key == kvrados_parse_inpayload_key(kpReq.iovs)
        sink == RetrieveSink(kpReq.iovs)
        value == kpStore[Len(key)]
        at == IF kpReq.apart THEN kpReq.iova ELSE kpReq.iova + HdrLen + StagedLen(kpReq.klen)
    IN  /\ kpReq.verb = "retrieve"
        /\ IF key = <<>>
           THEN Answers([verb |-> "refused", klen |-> kpReq.klen])
           ELSE Answers([verb |-> "retrieve", klen |-> kpReq.klen, out |-> kpReq.out,
                         ok |-> Len(value) <= Len(sink), at |-> at,
                         got |-> ReadBack(Delivered(sink, value), at, Min({Len(value), kpReq.out}))])
        /\ UNCHANGED kpStore

\* The module's result is its input, as `inputecho' makes it.
AnswerExec ==
    LET key == kvrados_parse_inpayload_key(kpReq.iovs)
        sink == ExecSink(kpReq.iovs, kpReq.out)
    IN  /\ kpReq.verb = "exec"
        /\ IF key = <<>>
           THEN Answers([verb |-> "refused", klen |-> kpReq.klen])
           ELSE Answers([verb |-> "exec", sent |-> kpReq.body, out |-> kpReq.out,
                         klen |-> kpReq.klen,
                         input |-> Contents(ExecInput(kpReq.iovs)),
                         sink |-> [i \in DOMAIN sink |-> sink[i].at - kpReq.iova]])
        /\ UNCHANGED kpStore

KpNext ==
    \/ \E iova \in VfuIova, klen \in KpKeyLen, n, out \in VfuLen, apart \in BOOLEAN :
          \/ SendStore(apart, klen, n, iova)
          \/ SendRetrieve(apart, klen, out, iova)
          \/ SendExec(klen, n, out, iova)
    \/ AnswerStore \/ AnswerRetrieve \/ AnswerExec

KpSpec == KpInit /\ [][KpNext]_kpVars

--------------------------------------------------------------------------------
(***********************************************************************************)
(* A value reaches the store under its key, byte for byte, whatever its            *)
(* alignment, the blocks it is cut into and the place of its head, if the key      *)
(* has at most 255 bytes.  A longer one is cut to its length modulo 256: the       *)
(* command then acts on another key.                                               *)
(***********************************************************************************)
KpStoreArrives ==
    kpReply.verb = "store" /\ kpReply.klen <= KpKeyMax => kpStore[kpReply.klen] = kpReply.sent

(***********************************************************************************)
(* A successful retrieve has put the whole stored value where the client reads     *)
(* it; and it succeeds when the client's buffer is large enough and lies in one    *)
(* DMA region.  Across regions only the first block is the sink, so that a         *)
(* buffer that is large enough may still be refused.                               *)
(***********************************************************************************)
KpRetrieveIsWhole ==
    kpReply.verb = "retrieve" /\ kpReply.klen <= KpKeyMax =>
        LET value == kpStore[kpReply.klen]
        IN  /\ kpReply.ok => (Len(value) <= kpReply.out => kpReply.got = value)
            /\ (Len(value) <= kpReply.out /\ kpReply.out <= first_chunk(kpReply.at)) => kpReply.ok

(***********************************************************************************)
(* An Exec's input begins with what the client sent and is exactly that when the   *)
(* output is not the longer of the two: the bdev takes the input's length from     *)
(* the transfer, which covers both, and not from CDW10.  The result goes behind    *)
(* the key, never over the head nor beyond the output length asked for.            *)
(***********************************************************************************)
KpExecInput ==
    kpReply.verb = "exec" =>
        LET sent == kpReply.sent
        IN  /\ SubSeq(kpReply.input, 1, Len(sent)) = sent
            /\ kpReply.out <= HdrLen + StagedLen(kpReply.klen) + Len(sent) => kpReply.input = sent
            /\ Len(kpReply.sink) <= kpReply.out
            /\ \A i \in DOMAIN kpReply.sink : kpReply.sink[i] = HdrLen + StagedLen(kpReply.klen) + i - 1

(***********************************************************************************)
(* The key is found however the head is cut: only a command whose key does not     *)
(* fit is refused.                                                                 *)
(***********************************************************************************)
KpKeyIsFound == kpReply.verb = "refused" => kpReply.klen > KpKeyMax

(***********************************************************************************)
(* A value goes in and comes back intact, wherever the head, the key and the value *)
(* are cut: no command is refused whose key fits, what is stored is what was sent, *)
(* and what a successful retrieve returns is what is stored.                       *)
(***********************************************************************************)
KpValueIntact == KpKeyIsFound /\ KpStoreArrives /\ KpRetrieveIsWhole

================================================================================
