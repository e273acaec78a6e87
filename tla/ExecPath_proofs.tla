---------------------------- MODULE ExecPath_proofs ----------------------------
(**********************************************************************************)
(* The path of an Exec outside the object caches: the wire format carries the     *)
(* request and the result (WireCodec); the memo of results answers with the       *)
(* result of the same request (ResultCache); and only the code bound to a name    *)
(* runs, from a cache with one artifact per hash (ModuleGate).                    *)
(**********************************************************************************)
EXTENDS WireCodec, ResultCache, ModuleGate, TLAPS

\* A leaf that names no backend goes to Zenon.
USE ZenonT(60)

\* What a term added and taken out again leaves of a sum.
LEMMA TakenOut ==
    ASSUME NEW a \in Int, NEW u \in Int, NEW w \in Int
    PROVE  ((a + u) + w) - u = a + w
BY SMT

\* A term may be taken out of a sum before another is added.
LEMMA TakenOutFirst ==
    ASSUME NEW a \in Int, NEW u \in Int, NEW w \in Int
    PROVE  (a + w) - u = (a - u) + w
BY SMT

(**********************************************************************************)
(* The wire format carries any request and any result, for every limit of         *)
(* inline payloads, every length and every status.                                *)
(**********************************************************************************)
WcTag == {"verb", "key", "value", "result"}
WcDatum == WcTag \X Nat
WcItem == WcTag \cup Int \cup BOOLEAN \cup WcDatum

\* The members of a concatenation.
WcJoins(r, s, t) ==
    /\ Len(r) = Len(s) + Len(t)
    /\ \A i \in 1..Len(s) : r[i] = s[i]
    /\ \A i \in 1..Len(t) : r[Len(s) + i] = t[i]

LEMMA WcJoined ==
    ASSUME NEW U, NEW s \in Seq(U), NEW t \in Seq(U)
    PROVE  s \o t \in Seq(U) /\ WcJoins(s \o t, s, t)
  BY SMT DEF WcJoins

\* A part of a sequence that has the members of t is t.
LEMMA WcPart ==
    ASSUME NEW U, NEW w \in Seq(U), NEW t \in Seq(U), NEW p \in Nat, p + Len(t) <= Len(w),
           \A i \in 1..Len(t) : w[p + i] = t[i]
    PROVE  SubSeq(w, p + 1, p + Len(t)) = t
<1> DEFINE r == SubSeq(w, p + 1, p + Len(t))
<1>1. Len(t) \in Nat /\ Len(w) \in Nat /\ DOMAIN t = 1..Len(t)
  BY SMT
<1>2. r \in Seq(U) /\ Len(r) = Len(t)
  BY <1>1, SMT
<1>3. \A i \in 1..Len(t) : r[i] = w[p + i]
  BY <1>1, SMT
<1> HIDE DEF r
<1> QED BY <1>1, <1>2, <1>3, SMT DEF r

\* The payloads of the model.
LEMMA WcDataTyped ==
    ASSUME NEW tag \in WcTag, NEW n \in Nat
    PROVE  Data(tag, n) \in Seq(WcDatum) /\ Len(Data(tag, n)) = n
<1> DEFINE d == [i \in 1..n |-> <<tag, i>>]
<1>1. \A i \in 1..n : d[i] \in WcDatum
  <2>1. \A i \in Nat : <<tag, i>> \in WcTag \X Nat
    OBVIOUS
  <2>2. \A i \in 1..n : d[i] = <<tag, i>>
    OBVIOUS
  <2>3. \A i \in 1..n : i \in Nat
    BY SMT
  <2> HIDE DEF d
  <2> QED BY <2>1, <2>2, <2>3 DEF WcDatum
<1>2. d = [i \in 1..n |-> d[i]]
  OBVIOUS
<1> HIDE DEF d
<1>3. d \in Seq(WcDatum) /\ Len(d) = n
  BY <1>1, <1>2, SMT
<1> QED BY <1>3 DEF Data, d

LEMMA WcPrefixTyped ==
    ASSUME NEW U, NEW s \in Seq(U), NEW n \in Nat
    PROVE  /\ Prefix(s, n) \in Seq(U) /\ Len(Prefix(s, n)) <= n /\ Len(Prefix(s, n)) <= Len(s)
           /\ Len(s) <= n => Prefix(s, n) = s
  BY SMT DEF Prefix

--------------------------------------------------------------------------------
\* A request as WcForward makes it, and what the executor reads of it.
WcIn == [verb : WcTag, key : Seq(WcDatum), value : Seq(WcDatum), osize : Nat,
         value_bulk : BOOLEAN, result_sink : BOOLEAN]
WcRead(in) ==
    [verb |-> in.verb, key |-> in.key, osize |-> in.osize, value_len |-> Len(in.value),
     value_inline |-> InlineValue(in.value), value_bulk |-> in.value_bulk,
     result_sink |-> in.result_sink]

\* The wire format of a request, item by item.
WcLayout(w, verb, key, osize, len, value, bulk, sink) ==
    LET k == Len(key)
        v == Len(value)
    IN  /\ Len(w) = 7 + k + v
        /\ w[1] = verb /\ w[2] = k /\ \A i \in 1..k : w[2 + i] = key[i]
        /\ w[3 + k] = osize /\ w[4 + k] = len /\ w[5 + k] = v
        /\ \A i \in 1..v : w[(5 + k) + i] = value[i]
        /\ w[6 + k + v] = bulk /\ w[7 + k + v] = sink

LEMMA WcLaidOut ==
    ASSUME NEW in \in WcIn
    PROVE  LET w == hg_proc_nkvx_kv_in_t(in)
           IN  /\ w \in Seq(WcItem)
               /\ WcLayout(w, in.verb, in.key, in.osize, Len(in.value), InlineValue(in.value),
                           in.value_bulk, in.result_sink)
<1> DEFINE U == WcItem
           verb == in.verb
           key == in.key
           osize == in.osize
           len == Len(in.value)
           value == InlineValue(in.value)
           bulk == in.value_bulk
           sink == in.result_sink
           w == hg_proc_nkvx_kv_in_t(in)
<1>a. in.value \in Seq(WcDatum) /\ Len(in.value) \in Nat
  BY SMT DEF WcIn
<1>b. verb \in U /\ osize \in U /\ len \in U /\ bulk \in U /\ sink \in U /\ Nat \subseteq U
  BY <1>a, SMT DEF WcIn, WcItem
<1>c. key \in Seq(U) /\ value \in Seq(U)
  <2>1. WcDatum \subseteq WcItem
    BY DEF WcItem
  <2>2. key \in Seq(WcDatum) /\ value \in Seq(WcDatum)
    BY <1>a, SMT DEF WcIn, InlineValue
  <2> QED BY <2>1, <2>2, SMT
<1>d. w = <<verb, Len(key)>> \o key \o <<osize, len>> \o (<<Len(value)>> \o value) \o <<bulk, sink>>
  BY DEF hg_proc_nkvx_kv_in_t, nkvx_proc_opaque
<1> SUFFICES w \in Seq(U) /\ WcLayout(w, verb, key, osize, len, value, bulk, sink)
  OBVIOUS
<1> HIDE DEF U, verb, key, osize, len, value, bulk, sink, w
<1> DEFINE k == Len(key)
           v == Len(value)
           a == <<verb, k>>
           x == <<osize, len>>
           y == <<v>>
           z == <<bulk, sink>>
           b == a \o key
           c == b \o x
           d == y \o value
           e == c \o d
           r == e \o z
<1>0. k \in Nat /\ v \in Nat /\ k \in U /\ v \in U
  BY <1>b, <1>c, SMT
<1>1. /\ a \in Seq(U) /\ Len(a) = 2 /\ a[1] = verb /\ a[2] = k
      /\ x \in Seq(U) /\ Len(x) = 2 /\ x[1] = osize /\ x[2] = len
      /\ y \in Seq(U) /\ Len(y) = 1 /\ y[1] = v
      /\ z \in Seq(U) /\ Len(z) = 2 /\ z[1] = bulk /\ z[2] = sink
  BY <1>0, <1>b, SMT
<1> HIDE DEF a, x, y, z
<1>2. b \in Seq(U) /\ WcJoins(b, a, key)
  BY <1>1, <1>c, WcJoined
<1> HIDE DEF b
<1>3. c \in Seq(U) /\ WcJoins(c, b, x)
  BY <1>1, <1>2, WcJoined
<1>4. d \in Seq(U) /\ WcJoins(d, y, value)
  BY <1>1, <1>c, WcJoined
<1> HIDE DEF c, d
<1>5. e \in Seq(U) /\ WcJoins(e, c, d)
  BY <1>3, <1>4, WcJoined
<1> HIDE DEF e
<1>6. r \in Seq(U) /\ WcJoins(r, e, z)
  BY <1>1, <1>5, WcJoined
<1> HIDE DEF r
<1>7. Len(b) = 2 + k /\ Len(c) = 4 + k /\ Len(d) = 1 + v /\ Len(e) = 5 + k + v /\ Len(r) = 7 + k + v
  BY <1>0, <1>1, <1>2, <1>3, <1>4, <1>5, <1>6, SMT DEF WcJoins
<1>8. \A i \in 1..(4 + k) : r[i] = c[i]
  BY <1>0, <1>5, <1>6, <1>7, SMT DEF WcJoins
<1>9. \A i \in 1..(1 + v) : r[4 + k + i] = d[i]
  <2> TAKE i \in 1..(1 + v)
  <2>1. e[4 + k + i] = d[i] /\ 4 + k + i \in 1..(5 + k + v)
    BY <1>0, <1>5, <1>7, SMT DEF WcJoins
  <2> QED BY <1>6, <1>7, <2>1 DEF WcJoins
<1>10. r[1] = verb /\ r[2] = k
  <2>1. c[1] = a[1] /\ c[2] = a[2]
    BY <1>0, <1>1, <1>2, <1>3, <1>7, SMT DEF WcJoins
  <2>2. 1 \in 1..(4 + k) /\ 2 \in 1..(4 + k)
    BY <1>0, SMT
  <2> QED BY <1>1, <1>8, <2>1, <2>2
<1>11. r[3 + k] = osize /\ r[4 + k] = len
  <2>1. c[(2 + k) + 1] = x[1] /\ c[(2 + k) + 2] = x[2]
    BY <1>1, <1>3, <1>7, SMT DEF WcJoins
  <2>2. 3 + k = (2 + k) + 1 /\ 4 + k = (2 + k) + 2 /\ 3 + k \in 1..(4 + k) /\ 4 + k \in 1..(4 + k)
    BY <1>0, SMT
  <2> QED BY <1>1, <1>8, <2>1, <2>2
<1>12. r[5 + k] = v
  <2>1. r[4 + k + 1] = d[1] /\ 4 + k + 1 = 5 + k
    BY <1>0, <1>9, SMT
  <2>2. d[1] = y[1]
    BY <1>1, <1>4, SMT DEF WcJoins
  <2> QED BY <1>1, <2>1, <2>2
<1>13. ASSUME NEW i \in 1..k PROVE r[2 + i] = key[i]
  <2>1. r[2 + i] = c[2 + i]
    BY <1>0, <1>8, SMT
  <2>2. c[2 + i] = b[2 + i]
    BY <1>0, <1>3, <1>7, SMT DEF WcJoins
  <2>3. b[2 + i] = key[i]
    BY <1>1, <1>2 DEF WcJoins
  <2> QED BY <2>1, <2>2, <2>3
<1>14. ASSUME NEW i \in 1..v PROVE r[(5 + k) + i] = value[i]
  <2>1. 1 + i \in 1..(1 + v) /\ 4 + k + (1 + i) = (5 + k) + i
    BY <1>0, SMT
  <2>2. r[4 + k + (1 + i)] = d[1 + i]
    BY <1>9, <2>1
  <2>3. d[1 + i] = value[i]
    BY <1>1, <1>4 DEF WcJoins
  <2> QED BY <2>1, <2>2, <2>3
<1>15. r[6 + k + v] = bulk /\ r[7 + k + v] = sink
  <2>1. r[Len(e) + 1] = z[1] /\ r[Len(e) + 2] = z[2]
    BY <1>1, <1>6, SMT DEF WcJoins
  <2>2. Len(e) + 1 = 6 + k + v /\ Len(e) + 2 = 7 + k + v
    BY <1>0, <1>7, SMT
  <2> QED BY <1>1, <2>1, <2>2
<1>16. w = r
  BY <1>d DEF r, e, d, c, b, a, x, y, z
<1> QED BY <1>6, <1>7, <1>10, <1>11, <1>12, <1>13, <1>14, <1>15, <1>16 DEF WcLayout

\* The two opaque fields of it.
LEMMA WcFieldsRead ==
    ASSUME NEW U, NEW w \in Seq(U), NEW key \in Seq(U), NEW value \in Seq(U),
           NEW verb, NEW osize, NEW len, NEW bulk, NEW sink,
           WcLayout(w, verb, key, osize, len, value, bulk, sink)
    PROVE  /\ SubSeq(w, 3, 2 + Len(key)) = key
           /\ SubSeq(w, 6 + Len(key), 5 + Len(key) + Len(value)) = value
<1> DEFINE k == Len(key)
           v == Len(value)
<1>a. /\ Len(w) = 7 + k + v
      /\ \A i \in 1..k : w[2 + i] = key[i]
      /\ \A i \in 1..v : w[(5 + k) + i] = value[i]
  BY DEF WcLayout
<1>0. k \in Nat /\ v \in Nat
  BY SMT
<1>1. SubSeq(w, 2 + 1, 2 + k) = key
  BY <1>a, <1>0, WcPart, SMT
<1>2. SubSeq(w, (5 + k) + 1, (5 + k) + v) = value
  <2>1. 5 + k \in Nat /\ (5 + k) + v <= Len(w)
    BY <1>a, <1>0, SMT
  <2> QED BY <1>a, <2>1, WcPart
<1>3. 2 + 1 = 3 /\ (5 + k) + 1 = 6 + k /\ (5 + k) + v = 5 + k + v
  BY <1>0, SMT
<1> QED BY <1>1, <1>2, <1>3

\* What the executor decodes is what the front encoded.
LEMMA WcDecoded ==
    ASSUME NEW in \in WcIn
    PROVE  hg_proc_nkvx_kv_in_t_Decode(hg_proc_nkvx_kv_in_t(in)) = WcRead(in)
<1> DEFINE key == in.key
           inl == InlineValue(in.value)
           k == Len(key)
           v == Len(inl)
           w == hg_proc_nkvx_kv_in_t(in)
<1>2. key \in Seq(WcItem) /\ inl \in Seq(WcItem)
  <2>1. WcDatum \subseteq WcItem
    BY DEF WcItem
  <2>2. key \in Seq(WcDatum) /\ inl \in Seq(WcDatum)
    BY SMT DEF WcIn, InlineValue
  <2> QED BY <2>1, <2>2, SMT
<1>3. k \in Nat /\ v \in Nat
  BY <1>2, SMT
<1>b. /\ w \in Seq(WcItem)
      /\ WcLayout(w, in.verb, key, in.osize, Len(in.value), inl, in.value_bulk, in.result_sink)
  BY WcLaidOut
<1> HIDE DEF key, inl, w
<1>5. SubSeq(w, 3, 2 + k) = key /\ SubSeq(w, 6 + k, 5 + k + v) = inl
  BY <1>2, <1>b, WcFieldsRead
<1>4. /\ w[1] = in.verb /\ w[2] = k
      /\ w[3 + k] = in.osize /\ w[4 + k] = Len(in.value) /\ w[5 + k] = v
      /\ w[6 + k + v] = in.value_bulk /\ w[7 + k + v] = in.result_sink
  BY <1>b DEF WcLayout
<1> HIDE DEF k, v
<1>6. OpaqueAt(w, (3 + k) + 2) = inl
  <2>1. (3 + k) + 2 = 5 + k /\ ((3 + k) + 2) + 1 = 6 + k /\ ((3 + k) + 2) + v = 5 + k + v
    BY <1>3, SMT
  <2> QED BY <1>4, <1>5, <2>1 DEF OpaqueAt
<1>8. /\ (3 + k) + 1 = 4 + k /\ (3 + k) + 3 + v = 6 + k + v /\ (3 + k) + 3 + v + 1 = 7 + k + v
  BY <1>3, SMT
<1>9. hg_proc_nkvx_kv_in_t_Decode(w)
        = [verb |-> w[1], key |-> SubSeq(w, 3, 2 + k), osize |-> w[3 + k],
           value_len |-> w[4 + k], value_inline |-> inl,
           value_bulk |-> w[6 + k + v], result_sink |-> w[7 + k + v]]
  BY <1>4, <1>6, <1>8, v = Len(inl) DEF hg_proc_nkvx_kv_in_t_Decode, v
<1> QED BY <1>4, <1>5, <1>9 DEF WcRead, key, inl, w

\* What the front decodes is what the executor answered.
WcOut == [status : Int, result_len : Nat, result_inline : Seq(WcDatum)]
LEMMA WcAnswerDecoded ==
    ASSUME NEW out \in WcOut
    PROVE  hg_proc_nkvx_kv_out_t_Decode(hg_proc_nkvx_kv_out_t(out)) = out
<1> DEFINE U == WcItem
           buf == out.result_inline
           a == <<out.status, out.result_len>>
           y == <<Len(buf)>>
           b == y \o buf
           w == a \o b
<1>1. buf \in Seq(U) /\ Len(buf) \in Nat
  <2>1. WcDatum \subseteq WcItem /\ buf \in Seq(WcDatum)
    BY DEF WcItem, WcOut
  <2> QED BY <2>1, SMT
<1>2. /\ a \in Seq(U) /\ Len(a) = 2 /\ a[1] = out.status /\ a[2] = out.result_len
      /\ y \in Seq(U) /\ Len(y) = 1 /\ y[1] = Len(buf)
  BY <1>1, SMT DEF WcOut, WcItem
<1> HIDE DEF a, y, buf, U
<1>3. b \in Seq(U) /\ WcJoins(b, y, buf)
  BY <1>1, <1>2, WcJoined
<1> HIDE DEF b
<1>4. w \in Seq(U) /\ WcJoins(w, a, b)
  BY <1>2, <1>3, WcJoined
<1> HIDE DEF w
<1>5. Len(b) = 1 + Len(buf) /\ Len(w) = 3 + Len(buf)
  BY <1>1, <1>2, <1>3, <1>4, SMT DEF WcJoins
<1>6. w[1] = out.status /\ w[2] = out.result_len
  BY <1>2, <1>4, SMT DEF WcJoins
<1>7. w[3] = Len(buf)
  <2>1. w[2 + 1] = b[1] /\ b[1] = y[1]
    BY <1>1, <1>2, <1>3, <1>4, <1>5, SMT DEF WcJoins
  <2> QED BY <1>2, <2>1, SMT
<1>8. ASSUME NEW i \in 1..Len(buf) PROVE w[3 + i] = buf[i]
  <2>1. 1 + i \in 1..Len(b) /\ 2 + (1 + i) = 3 + i
    BY <1>1, <1>5, SMT
  <2>2. w[2 + (1 + i)] = b[1 + i]
    BY <1>2, <1>4, <2>1 DEF WcJoins
  <2>3. b[1 + i] = buf[i]
    BY <1>2, <1>3 DEF WcJoins
  <2> QED BY <2>1, <2>2, <2>3
<1>9. OpaqueAt(w, 3) = buf
  <2>1. SubSeq(w, 3 + 1, 3 + Len(buf)) = buf
    BY <1>1, <1>4, <1>5, <1>8, WcPart, SMT
  <2> QED BY <1>7, <2>1 DEF OpaqueAt
<1>10. w = hg_proc_nkvx_kv_out_t(out)
  BY DEF w, a, b, y, buf, hg_proc_nkvx_kv_out_t, nkvx_proc_opaque
<1> QED BY <1>6, <1>9, <1>10 DEF hg_proc_nkvx_kv_out_t_Decode, WcOut, buf

\* Cutting twice to the same length is cutting once.
LEMMA WcCutTwice ==
    ASSUME NEW S, NEW s \in Seq(S), NEW n \in Nat
    PROVE  Prefix(Prefix(s, n), n) = Prefix(s, n)
<1> DEFINE m == IF n < Len(s) THEN n ELSE Len(s)
           t == Prefix(s, n)
<1>1. m \in Nat /\ m <= Len(s) /\ m <= n
  BY SMT
<1>2. t \in Seq(S) /\ Len(t) = m
  BY <1>1, SMT DEF Prefix
<1> HIDE DEF m, t
<1>3. SubSeq(t, 1, Len(t)) = t
  BY <1>2, SMT
<1>4. (IF n < Len(t) THEN n ELSE Len(t)) = Len(t)
  BY <1>1, <1>2, SMT
<1>5. Prefix(t, n) = t
  BY <1>3, <1>4 DEF Prefix
<1> QED BY <1>5 DEF t

--------------------------------------------------------------------------------
(**********************************************************************************)
(* Where a call can be: nowhere, on the wire, in the executor (waiting for a      *)
(* pull, running, delivering), or answered.  In each place the two tiers' copies  *)
(* of the request agree, and the buffers held are exactly the ones that Freed     *)
(* will release.                                                                  *)
(**********************************************************************************)
WcHeld(decoded, pulled, result) ==
    wcHeap = [b \in WcBuffer |-> IF b = "decoded" THEN decoded
                               ELSE IF b = "pulled" THEN pulled ELSE result]
WcSent ==
    /\ wcCall = [at |-> "sent", in |-> wcCall.in, host |-> <<>>]
    /\ wcCall.in \in WcIn
    /\ wcCall.in.value_bulk = NeedsBulk(Len(wcCall.in.value))
WcBuffers(result) ==
    \/ wcReq.value_inline = "pulled" /\ wcReq.value_buf = "pulled" /\ WcHeld(0, 1, result)
    \/ wcReq.value_inline = "decoded" /\ wcReq.value_buf = "null" /\ WcHeld(1, 0, result)
    \/ wcReq.value_inline = "null" /\ wcReq.value_buf = "null" /\ WcHeld(0, 0, result)
WcReported(status, result_len, osize) ==
    IF status \in {0, WcTooSmall} THEN (status = WcTooSmall) = (result_len > osize)
    ELSE result_len = 0

WcIdle == wcCall = WcNothing /\ wcReq = WcNothing /\ WcHeld(0, 0, 0)
WcOnTheWay ==
    /\ WcSent /\ wcReq = WcNothing
    /\ wcWire = hg_proc_nkvx_kv_in_t(wcCall.in)
    /\ WcHeld(0, 0, 0)
WcPulling ==
    /\ WcSent /\ WcHeld(0, 1, 0)
    /\ wcReq = [at |-> "pull", in |-> WcRead(wcCall.in), value |-> <<>>,
                value_inline |-> "null", value_buf |-> "pulled"]
WcRunning ==
    /\ WcSent /\ WcBuffers(0)
    /\ wcReq = [at |-> "run", in |-> WcRead(wcCall.in), value |-> wcCall.in.value,
                value_inline |-> wcReq.value_inline, value_buf |-> wcReq.value_buf]
WcDelivering ==
    /\ WcSent
    /\ wcReq = [at |-> "deliver", in |-> WcRead(wcCall.in), value |-> wcCall.in.value,
                value_inline |-> wcReq.value_inline, value_buf |-> wcReq.value_buf,
                status |-> wcReq.status, result_len |-> wcReq.result_len,
                buf |-> Prefix(Data("result", wcReq.result_len), wcCall.in.osize)]
    /\ wcReq.status \in WcStatus \cup WcForeign /\ wcReq.result_len \in Nat
    /\ WcReported(wcReq.status, wcReq.result_len, wcCall.in.osize)
    /\ WcBuffers(IF wcReq.buf = <<>> THEN 0 ELSE 1)
WcHolds(out, osize, host) ==
    /\ out \in WcOut /\ out.status \in WcStatus
    /\ out.status \in {0, WcTooSmall} =>
          /\ (out.status = WcTooSmall) <=> (out.result_len > osize)
          /\ (IF out.result_inline = <<>> THEN host ELSE Prefix(out.result_inline, osize))
                = Prefix(Data("result", out.result_len), osize)
WcAnswered ==
    /\ wcReq = WcNothing /\ WcHeld(0, 0, 0)
    /\ wcCall = [at |-> "answered", in |-> wcCall.in, host |-> wcCall.host]
    /\ wcCall.in \in WcIn
    /\ \E out \in WcOut : /\ wcWire = hg_proc_nkvx_kv_out_t(out)
                          /\ WcHolds(out, wcCall.in.osize, wcCall.host)
WcIInv ==
    /\ WcIdle \/ WcOnTheWay \/ WcPulling \/ WcRunning \/ WcDelivering \/ WcAnswered
    /\ WcResultArrives

\* The statuses that carry a result are not the ones a failure reports.
LEMMA WcFailures ==
    ASSUME NEW out \in WcOut, out.status \in {WcFailed, WcNotSupported}, NEW osize, NEW host
    PROVE  WcHolds(out, osize, host)
BY WcAssumption DEF WcHolds

\* Freed empties the heap: it releases each buffer a request holds, once.
LEMMA WcAllFreed ==
    ASSUME WcPulling \/ WcRunning \/ WcDelivering, wcHeap' = Freed
    PROVE  WcHeld(0, 0, 0)'
<1>1. PICK result \in {0, 1} :
         \/ WcPulling /\ wcReq.value_inline = "null" /\ wcReq.value_buf = "pulled" /\ WcHeld(0, 1, result)
         \/ WcBuffers(result)
  BY SMT DEF WcPulling, WcRunning, WcDelivering
<1>2. wcHeap' = [b \in WcBuffer |-> 0]
  <2>1. CASE wcReq.value_buf = "pulled" /\ WcHeld(0, 1, result)
    BY <2>1, SMT DEF Freed, WcHeld, WcBuffer
  <2>2. CASE wcReq.value_inline = "decoded" /\ wcReq.value_buf = "null" /\ WcHeld(1, 0, result)
    BY <2>2, SMT DEF Freed, WcHeld, WcBuffer
  <2>3. CASE wcReq.value_inline = "null" /\ wcReq.value_buf = "null" /\ WcHeld(0, 0, result)
    BY <2>3, SMT DEF Freed, WcHeld, WcBuffer
  <2> QED BY <1>1, <2>1, <2>2, <2>3 DEF WcBuffers
<1> QED BY <1>2 DEF WcHeld

\* A finished request is answered.
LEMMA WcFinished ==
    ASSUME WcPulling \/ WcRunning \/ WcDelivering, WcResultArrives,
           NEW out \in WcOut, NEW host, nkvx_kv_req_finish(out, host),
           WcHolds(out, wcCall.in.osize, host)
    PROVE  WcIInv'
<1>1. WcHeld(0, 0, 0)'
  BY WcAllFreed DEF nkvx_kv_req_finish
<1>2. WcSent
  BY DEF WcPulling, WcRunning, WcDelivering
<1>3. wcCall' = [at |-> "answered", in |-> wcCall.in, host |-> host]
  BY <1>2 DEF nkvx_kv_req_finish, WcSent
<1>4. WcAnswered'
  BY <1>1, <1>2, <1>3 DEF nkvx_kv_req_finish, WcSent, WcAnswered
<1>5. WcResultArrives'
  BY DEF nkvx_kv_req_finish, WcResultArrives
<1> QED BY <1>4, <1>5 DEF WcIInv

\* A failed request is answered with its failure.
LEMMA WcFailedStep ==
    ASSUME WcPulling \/ WcRunning \/ WcDelivering, WcResultArrives,
           NEW status \in {WcFailed, WcNotSupported}, nkvx_kv_req_fail(status)
    PROVE  WcIInv'
<1> DEFINE out == [status |-> nkvx_status_to_wire(status), result_len |-> 0, result_inline |-> <<>>]
<1>1. status \in WcStatus /\ status \in Int
  BY WcAssumption
<1>a. <<>> \in Seq(WcDatum)
  BY SMT
<1>2. out \in WcOut /\ out.status = status
  BY <1>1, <1>a DEF WcOut, nkvx_status_to_wire
<1>3. nkvx_kv_req_finish(out, wcCall.host)
  BY DEF nkvx_kv_req_fail
<1> HIDE DEF out
<1>4. WcHolds(out, wcCall.in.osize, wcCall.host)
  BY <1>2, WcFailures
<1> QED BY <1>2, <1>3, <1>4, WcFinished

\* The front encodes the request.
LEMMA WcForwardStep ==
    ASSUME WcIInv, NEW key_len \in Nat, NEW value_len \in Nat, NEW osize \in Nat,
           NEW sink \in BOOLEAN, WcForward(key_len, value_len, osize, sink)
    PROVE  WcIInv'
<1> DEFINE in == [verb |-> "verb", key |-> Data("key", key_len), value |-> Data("value", value_len),
                  osize |-> osize, value_bulk |-> NeedsBulk(value_len),
                  result_sink |-> sink /\ NeedsBulk(osize)]
<1>1. /\ Data("key", key_len) \in Seq(WcDatum)
      /\ Data("value", value_len) \in Seq(WcDatum) /\ Len(Data("value", value_len)) = value_len
  <2>1. "key" \in WcTag /\ "value" \in WcTag
    BY DEF WcTag
  <2> QED BY <2>1, WcDataTyped
<1>2. NeedsBulk(value_len) \in BOOLEAN /\ (sink /\ NeedsBulk(osize)) \in BOOLEAN
  BY SMT DEF NeedsBulk
<1>3. in \in WcIn /\ in.value_bulk = NeedsBulk(Len(in.value))
  <2> DEFINE key == Data("key", key_len)
             value == Data("value", value_len)
             bulk == NeedsBulk(value_len)
             to == sink /\ NeedsBulk(osize)
  <2>1. /\ key \in Seq(WcDatum) /\ value \in Seq(WcDatum) /\ bulk \in BOOLEAN /\ to \in BOOLEAN
        /\ bulk = NeedsBulk(Len(value)) /\ "verb" \in WcTag
    BY <1>1, <1>2 DEF WcTag
  <2> HIDE DEF key, value, bulk, to
  <2>2. in = [verb |-> "verb", key |-> key, value |-> value, osize |-> osize,
              value_bulk |-> bulk, result_sink |-> to]
    BY DEF key, value, bulk, to
  <2> HIDE DEF in
  <2>3. in \in WcIn
    BY <2>1, <2>2 DEF WcIn
  <2> QED BY <2>1, <2>2, <2>3
<1>4. /\ wcCall = WcNothing /\ wcReq' = wcReq /\ wcHeap' = wcHeap /\ wcDone' = WcNothing
      /\ wcCall' = [at |-> "sent", in |-> in, host |-> <<>>] /\ wcWire' = hg_proc_nkvx_kv_in_t(in)
  BY DEF WcForward
<1> HIDE DEF in
<1>5. WcIdle
  BY <1>4 DEF WcIInv, WcNothing, WcOnTheWay, WcPulling, WcRunning, WcDelivering, WcAnswered, WcSent
<1>6. WcSent'
  BY <1>3, <1>4 DEF WcSent
<1>7. WcOnTheWay'
  BY <1>4, <1>5, <1>6 DEF WcIdle, WcOnTheWay, WcHeld
<1> QED BY <1>4, <1>7 DEF WcIInv, WcResultArrives

\* The executor decodes the request; a value the front sent by bulk is one it pulls.
LEMMA WcHandleStep == ASSUME WcIInv, WcHandle PROVE WcIInv'
<1> DEFINE in == hg_proc_nkvx_kv_in_t_Decode(wcWire)
           value == wcCall.in.value
           pull == in.value_bulk /\ in.value_len > WcInlineMax
           inline == IF in.value_inline = <<>> THEN "null" ELSE "decoded"
<1>1. WcOnTheWay /\ WcResultArrives
  BY SMT DEF WcIInv, WcHandle, WcNothing, WcIdle, WcPulling, WcRunning, WcDelivering, WcAnswered
<1>2. in = WcRead(wcCall.in) /\ value \in Seq(WcDatum)
  BY <1>1, WcDecoded DEF WcOnTheWay, WcSent, WcIn
<1>3. /\ in.value_inline = InlineValue(value) /\ in.value_len = Len(value)
      /\ in.value_bulk = NeedsBulk(Len(value)) /\ Len(value) \in Nat
  BY <1>1, <1>2, SMT DEF WcRead, WcOnTheWay, WcSent
<1>4. /\ wcReq' = [at |-> IF pull THEN "pull" ELSE "run", in |-> in,
                   value |-> in.value_inline, value_inline |-> inline,
                   value_buf |-> IF pull THEN "pulled" ELSE "null"]
      /\ wcHeap' = [wcHeap EXCEPT !["decoded"] = IF inline = "null" THEN 0 ELSE 1,
                                  !["pulled"] = IF pull THEN 1 ELSE 0]
      /\ wcCall' = wcCall /\ wcDone' = wcDone
  BY DEF WcHandle
<1>a. pull <=> Len(value) > WcInlineMax
  BY <1>3 DEF NeedsBulk
<1>b. inline \in {"null", "decoded"}
  OBVIOUS
<1>c. in.value_inline = <<>> => inline = "null"
  OBVIOUS
<1> HIDE DEF in, value, pull, inline
<1>5. WcSent' /\ WcResultArrives' /\ wcCall'.in.value = value
  BY <1>1, <1>4 DEF WcOnTheWay, WcSent, WcResultArrives, value
<1>6. wcHeap' = [b \in WcBuffer |-> IF b = "decoded" THEN IF inline = "null" THEN 0 ELSE 1
                                  ELSE IF b = "pulled" THEN IF pull THEN 1 ELSE 0 ELSE 0]
  <2> DEFINE d == IF inline = "null" THEN 0 ELSE 1
             p == IF pull THEN 1 ELSE 0
  <2>1. wcHeap = [b \in WcBuffer |-> 0]
    BY <1>1 DEF WcOnTheWay, WcHeld
  <2>2. wcHeap' = [wcHeap EXCEPT !["decoded"] = d, !["pulled"] = p]
    BY <1>4
  <2> HIDE DEF d, p
  <2>3. wcHeap' = [b \in WcBuffer |-> IF b = "decoded" THEN d ELSE IF b = "pulled" THEN p ELSE 0]
    BY <2>1, <2>2 DEF WcBuffer
  <2> QED BY <2>3 DEF d, p
<1>7. CASE pull
  <2>1. in.value_inline = <<>> /\ inline = "null"
    BY <1>3, <1>7, <1>a, <1>c, WcAssumption, SMT DEF InlineValue
  <2>3. WcHeld(0, 1, 0)'
    BY <1>6, <1>7, <2>1 DEF WcHeld
  <2>4. wcReq' = [at |-> "pull", in |-> WcRead(wcCall'.in), value |-> <<>>,
                  value_inline |-> "null", value_buf |-> "pulled"]
    BY <1>2, <1>4, <1>7, <2>1
  <2>2. WcPulling'
    BY <1>5, <2>3, <2>4 DEF WcPulling
  <2> QED BY <1>5, <2>2 DEF WcIInv
<1>8. CASE ~ pull
  <2>1. in.value_inline = value
    BY <1>3, <1>8, <1>a, WcAssumption, SMT DEF InlineValue
  <2>4. wcReq' = [at |-> "run", in |-> WcRead(wcCall'.in), value |-> wcCall'.in.value,
                  value_inline |-> inline, value_buf |-> "null"]
    BY <1>2, <1>4, <1>5, <1>8, <2>1
  <2>5. \/ inline = "null" /\ WcHeld(0, 0, 0)'
        \/ inline = "decoded" /\ WcHeld(1, 0, 0)'
    BY <1>6, <1>8, <1>b DEF WcHeld
  <2>2. WcBuffers(0)'
    BY <2>4, <2>5 DEF WcBuffers
  <2>3. WcRunning'
    BY <1>5, <2>2, <2>4 DEF WcRunning
  <2> QED BY <1>5, <2>3 DEF WcIInv
<1> QED BY <1>7, <1>8

\* The pull fetches the front's value, or the request fails.
LEMMA WcPulledStep == ASSUME WcIInv, WcPulled PROVE WcIInv'
<1>1. WcPulling /\ WcResultArrives
  BY SMT DEF WcIInv, WcPulled, WcNothing, WcIdle, WcOnTheWay, WcRunning, WcDelivering, WcAnswered
<1>2. CASE nkvx_kv_req_fail(WcFailed)
  BY <1>1, <1>2, WcFailedStep
<1>3. CASE ~ nkvx_kv_req_fail(WcFailed)
  <2>1. /\ wcReq' = [wcReq EXCEPT !.at = "run", !.value_inline = "pulled",
                                  !.value = SubSeq(wcCall.in.value, 1, wcReq.in.value_len)]
        /\ UNCHANGED <<wcCall, wcWire, wcHeap, wcDone>>
    BY <1>3 DEF WcPulled
  <2>2. wcCall.in.value \in Seq(WcDatum) /\ wcReq.in.value_len = Len(wcCall.in.value)
    BY <1>1 DEF WcPulling, WcSent, WcIn, WcRead
  <2>3. SubSeq(wcCall.in.value, 1, wcReq.in.value_len) = wcCall.in.value
    BY <2>2, SMT
  <2>4. wcReq' = [at |-> "run", in |-> WcRead(wcCall.in), value |-> wcCall.in.value,
                  value_inline |-> "pulled", value_buf |-> "pulled"]
    BY <1>1, <2>1, <2>3 DEF WcPulling
  <2>5. WcSent' /\ WcResultArrives' /\ WcHeld(0, 1, 0)'
    BY <1>1, <2>1 DEF WcPulling, WcSent, WcResultArrives, WcHeld
  <2>6. WcBuffers(0)'
    BY <2>4, <2>5 DEF WcBuffers
  <2>8. wcCall' = wcCall
    BY <2>1
  <2>7. WcRunning'
    BY <2>4, <2>5, <2>6, <2>8 DEF WcRunning
  <2> QED BY <2>5, <2>7 DEF WcIInv
<1> QED BY <1>2, <1>3

\* The verb runs on the key and the value of the call, into a buffer of osize.
LEMMA WcRunStep ==
    ASSUME WcIInv, NEW status \in WcStatus \cup WcForeign, NEW result_len \in Nat,
           WcRun(status, result_len)
    PROVE  WcIInv'
<1> DEFINE buf == Prefix(Data("result", result_len), wcReq.in.osize)
<1>1. WcRunning /\ WcResultArrives
  BY SMT DEF WcIInv, WcRun, WcNothing, WcIdle, WcOnTheWay, WcPulling, WcDelivering, WcAnswered
<1>2. wcReq.in = WcRead(wcCall.in) /\ wcReq.in.osize = wcCall.in.osize /\ wcReq.value = wcCall.in.value
  BY <1>1, SMT DEF WcRunning, WcRead
<1>3. /\ wcReq' = [at |-> "deliver", in |-> wcReq.in, value |-> wcReq.value,
                   value_inline |-> wcReq.value_inline, value_buf |-> wcReq.value_buf,
                   status |-> status, result_len |-> result_len, buf |-> buf]
      /\ wcHeap' = [wcHeap EXCEPT !["result"] = IF buf = <<>> THEN 0 ELSE 1]
      /\ wcCall' = wcCall /\ wcDone' = wcDone
      /\ WcReported(status, result_len, wcReq.in.osize)
  BY DEF WcRun, WcReported
<1> HIDE DEF buf
<1>4. WcSent' /\ WcResultArrives'
  BY <1>1, <1>3 DEF WcRunning, WcSent, WcResultArrives
<1>5. WcBuffers(IF wcReq.buf = <<>> THEN 0 ELSE 1)'
  <2> DEFINE n == IF buf = <<>> THEN 0 ELSE 1
  <2>1. wcHeap' = [wcHeap EXCEPT !["result"] = n] /\ n = IF wcReq'.buf = <<>> THEN 0 ELSE 1
    BY <1>3
  <2>2. wcReq'.value_inline = wcReq.value_inline /\ wcReq'.value_buf = wcReq.value_buf
    BY <1>3
  <2> HIDE DEF n
  <2>3. ASSUME NEW d \in {0, 1}, NEW p \in {0, 1}, WcHeld(d, p, 0)
        PROVE  wcHeap' = [b \in WcBuffer |-> IF b = "decoded" THEN d ELSE IF b = "pulled" THEN p ELSE n]
    BY <2>1, <2>3 DEF WcHeld, WcBuffer
  <2> QED BY <1>1, <2>1, <2>2, <2>3, SMT DEF WcRunning, WcBuffers, WcHeld
<1>6. wcReq' = [at |-> "deliver", in |-> WcRead(wcCall'.in), value |-> wcCall'.in.value,
                value_inline |-> wcReq'.value_inline, value_buf |-> wcReq'.value_buf,
                status |-> wcReq'.status, result_len |-> wcReq'.result_len,
                buf |-> Prefix(Data("result", wcReq'.result_len), wcCall'.in.osize)]
  BY <1>2, <1>3 DEF buf
<1>7. /\ wcReq'.status \in WcStatus \cup WcForeign /\ wcReq'.result_len \in Nat
      /\ WcReported(wcReq'.status, wcReq'.result_len, wcCall'.in.osize)
  BY <1>2, <1>3
<1>8. WcDelivering'
  BY <1>4, <1>5, <1>6, <1>7 DEF WcDelivering
<1> QED BY <1>4, <1>8 DEF WcIInv

\* The result is answered inline or pushed, or the request fails.
LEMMA WcDeliverStep == ASSUME WcIInv, nkvx_kv_run_and_deliver PROVE WcIInv'
<1> DEFINE out(inline) == [status |-> nkvx_status_to_wire(wcReq.status),
                           result_len |-> wcReq.result_len, result_inline |-> inline]
           osize == wcCall.in.osize
           data == Data("result", wcReq.result_len)
           buf == wcReq.buf
<1>1. WcDelivering /\ WcResultArrives
  BY SMT DEF WcIInv, nkvx_kv_run_and_deliver, WcNothing, WcIdle, WcOnTheWay, WcPulling, WcRunning, WcAnswered
<1>2. osize \in Nat /\ wcCall.host = <<>>
  BY <1>1, SMT DEF WcDelivering, WcSent, WcIn
<1>3. wcReq.result_len \in Nat /\ wcReq.status \in WcStatus \cup WcForeign /\ buf = Prefix(data, osize)
  BY <1>1, SMT DEF WcDelivering
<1>4. data \in Seq(WcDatum)
  <2>1. "result" \in WcTag
    BY DEF WcTag
  <2> QED BY <1>3, <2>1, WcDataTyped
<1> HIDE DEF osize, data, buf
<1>5. buf \in Seq(WcDatum) /\ Prefix(buf, osize) = buf
  BY <1>2, <1>3, <1>4, WcPrefixTyped, WcCutTwice
<1>6. ASSUME NEW inline \in Seq(WcDatum), NEW host,
             (IF inline = <<>> THEN host ELSE Prefix(inline, osize)) = buf
      PROVE  out(inline) \in WcOut /\ WcHolds(out(inline), osize, host)
  <2>1. nkvx_status_to_wire(wcReq.status) \in WcStatus /\ nkvx_status_to_wire(wcReq.status) \in Int
    BY WcAssumption DEF nkvx_status_to_wire
  <2>2. out(inline) \in WcOut
    BY <1>3, <2>1 DEF WcOut
  <2>3. ASSUME out(inline).status \in {0, WcTooSmall}
        PROVE  (out(inline).status = WcTooSmall) <=> (wcReq.result_len > osize)
    <3>1. nkvx_status_to_wire(wcReq.status) = wcReq.status
      BY <2>3, WcAssumption DEF nkvx_status_to_wire
    <3> QED BY <1>1, <2>3, <3>1 DEF WcDelivering, WcReported, osize
  <2>4. /\ out(inline).result_len = wcReq.result_len /\ out(inline).result_inline = inline
        /\ out(inline).status \in WcStatus
    BY <2>1
  <2> HIDE DEF out
  <2>5. Prefix(Data("result", out(inline).result_len), osize) = buf
    BY <1>3, <2>4 DEF data
  <2> QED BY <1>6, <2>2, <2>3, <2>4, <2>5 DEF WcHolds
<1>7. ASSUME nkvx_kv_req_fail(WcFailed) \/ nkvx_kv_req_fail(WcNotSupported) PROVE WcIInv'
  BY <1>1, <1>7, WcFailedStep
<1>8. ASSUME nkvx_kv_req_finish(out(<<>>), buf) PROVE WcIInv'
  <2>1. out(<<>>) \in WcOut /\ WcHolds(out(<<>>), osize, buf)
    <3>1. <<>> \in Seq(WcDatum)
      BY SMT
    <3> HIDE DEF out
    <3> QED BY <1>6, <3>1
  <2> HIDE DEF out
  <2> QED BY <1>1, <1>8, <2>1, WcFinished DEF osize
<1>9. ASSUME nkvx_kv_req_finish(out(buf), wcCall.host) PROVE WcIInv'
  <2>1. (IF buf = <<>> THEN wcCall.host ELSE Prefix(buf, osize)) = buf
    BY <1>2, <1>5
  <2> HIDE DEF out
  <2>2. out(buf) \in WcOut /\ WcHolds(out(buf), osize, wcCall.host)
    BY <1>5, <1>6, <2>1
  <2> QED BY <1>1, <1>9, <2>2, WcFinished DEF osize
<1> QED BY <1>7, <1>8, <1>9 DEF nkvx_kv_run_and_deliver, buf

\* The front decodes the answer and hands the result to its caller.
LEMMA WcCompleteStep == ASSUME WcIInv, WcComplete PROVE WcIInv'
<1>1. WcAnswered
  BY SMT DEF WcIInv, WcComplete, WcNothing, WcIdle, WcOnTheWay, WcPulling, WcRunning, WcDelivering, WcSent
<1>2. PICK out \in WcOut : /\ wcWire = hg_proc_nkvx_kv_out_t(out)
                           /\ WcHolds(out, wcCall.in.osize, wcCall.host)
  BY <1>1 DEF WcAnswered
<1>3. hg_proc_nkvx_kv_out_t_Decode(wcWire) = out
  BY <1>2, WcAnswerDecoded
<1>4. /\ wcCall' = WcNothing /\ wcReq' = wcReq /\ wcHeap' = wcHeap
      /\ wcDone' = [at |-> "host", in |-> wcCall.in, status |-> nkvx_status_from_wire(out.status),
                    result_len |-> out.result_len,
                    host |-> IF out.result_inline = <<>> THEN wcCall.host
                             ELSE Prefix(out.result_inline, wcCall.in.osize)]
  BY <1>3 DEF WcComplete
<1>5. nkvx_status_from_wire(out.status) = out.status
  BY <1>2 DEF WcHolds, nkvx_status_from_wire
<1>6. WcResultArrives'
  BY <1>2, <1>4, <1>5 DEF WcResultArrives, WcHolds
<1>7. WcIdle'
  BY <1>1, <1>4 DEF WcAnswered, WcIdle, WcHeld
<1> QED BY <1>6, <1>7 DEF WcIInv

(**********************************************************************************)
(* A request and its result cross the wire intact, and leave no buffer behind:    *)
(* for every inline limit, every length of key, value, result and output buffer,  *)
(* and every status the executor produces.                                        *)
(**********************************************************************************)
THEOREM WireRoundTrip == WcSpec => []WcRoundTrip
<1>1. WcInit => WcIInv
  BY DEF WcInit, WcIInv, WcIdle, WcHeld, WcResultArrives
<1>2. ASSUME WcIInv, [WcNext]_wcVars PROVE WcIInv'
  <2>1. CASE UNCHANGED wcVars
    BY <1>2, <2>1 DEF wcVars, WcIInv, WcIdle, WcOnTheWay, WcPulling, WcRunning, WcDelivering, WcAnswered,
       WcSent, WcHeld, WcBuffers, WcResultArrives
  <2>2. ASSUME NEW key_len \in 0..WcMaxKey, NEW value_len \in 0..WcMaxLen,
               NEW osize \in 0..WcMaxLen, NEW sink \in BOOLEAN,
               WcForward(key_len, value_len, osize, sink)
        PROVE  WcIInv'
    <3>1. key_len \in Nat /\ value_len \in Nat /\ osize \in Nat
      BY WcAssumption, SMT
    <3> QED BY <1>2, <2>2, <3>1, WcForwardStep
  <2>3. ASSUME NEW status \in WcStatus \cup WcForeign, NEW result_len \in 0..WcMaxLen,
               WcRun(status, result_len)
        PROVE  WcIInv'
    <3>1. result_len \in Nat
      BY WcAssumption, SMT
    <3> QED BY <1>2, <2>3, <3>1, WcRunStep
  <2> QED BY <1>2, <2>1, <2>2, <2>3, WcHandleStep, WcPulledStep, WcDeliverStep, WcCompleteStep DEF WcNext
<1>3. WcIInv => WcRoundTrip
  <2> SUFFICES ASSUME WcIInv PROVE WcRoundTrip
    OBVIOUS
  <2>1. WcRequestArrives
    BY SMT DEF WcIInv, WcIdle, WcOnTheWay, WcPulling, WcRunning, WcDelivering, WcAnswered, WcRequestArrives,
       WcRead, WcNothing
  <2>2. WcFreedOnce
    BY SMT DEF WcIInv, WcIdle, WcOnTheWay, WcPulling, WcRunning, WcDelivering, WcAnswered, WcFreedOnce,
       WcHeld, WcNothing
  <2> QED BY <2>1, <2>2 DEF WcIInv, WcRoundTrip
<1> QED BY <1>1, <1>2, <1>3, PTL DEF WcSpec

-----------------------------------------------------------------------------
\* Sequences of one length with the same members are equal.
LEMMA RcSame ==
    ASSUME NEW U, NEW s \in Seq(U), NEW t \in Seq(U), Len(s) = Len(t),
           \A i \in 1..Len(s) : s[i] = t[i]
    PROVE  s = t
  BY SMT

\* The items the digested requests are made of.
RcItem == Nat \cup RcContent

(**********************************************************************************)
(* A component behind its length can be read back from the front of a sequence:   *)
(* this is what the length prefixes of nkvx_result_hash_update are for.           *)
(**********************************************************************************)
RcFront(f, c) == nkvx_result_hash_update(f) \o c

LEMMA RcFieldRead ==
    ASSUME NEW f \in Seq(RcItem), NEW g \in Seq(RcItem), NEW c \in Seq(RcItem), NEW d \in Seq(RcItem),
           RcFront(f, c) = RcFront(g, d)
    PROVE  f = g /\ c = d
<1> DEFINE a == <<Len(f)>>
           b == <<Len(g)>>
           p == a \o f
           q == b \o g
           v == p \o c
           w == q \o d
<1>1. Len(f) \in Nat /\ Len(g) \in Nat /\ Len(c) \in Nat /\ Len(d) \in Nat
  BY SMT
<1>2. /\ a \in Seq(RcItem) /\ Len(a) = 1 /\ a[1] = Len(f)
      /\ b \in Seq(RcItem) /\ Len(b) = 1 /\ b[1] = Len(g)
  BY <1>1, SMT DEF RcItem
<1>3. v = w
  BY DEF RcFront, nkvx_result_hash_update
<1> HIDE DEF a, b
<1>4. p \in Seq(RcItem) /\ WcJoins(p, a, f) /\ q \in Seq(RcItem) /\ WcJoins(q, b, g)
  BY <1>2, WcJoined
<1> HIDE DEF p, q
<1>5. WcJoins(v, p, c) /\ WcJoins(w, q, d)
  BY <1>4, WcJoined
<1> HIDE DEF v, w
<1>6. Len(p) = 1 + Len(f) /\ Len(q) = 1 + Len(g) /\ p[1] = Len(f) /\ q[1] = Len(g)
  BY <1>1, <1>2, <1>4, SMT DEF WcJoins
<1>7. v[1] = p[1] /\ w[1] = q[1]
  BY <1>1, <1>5, <1>6, SMT DEF WcJoins
<1>8. Len(f) = Len(g) /\ Len(c) = Len(d)
  BY <1>1, <1>3, <1>5, <1>6, <1>7, SMT DEF WcJoins
<1>9. ASSUME NEW i \in 1..Len(f) PROVE f[i] = g[i]
  <2>1. 1 + i \in 1..Len(p) /\ 1 + i \in 1..Len(q)
    BY <1>1, <1>6, <1>8, SMT
  <2>2. v[1 + i] = p[1 + i] /\ w[1 + i] = q[1 + i]
    BY <1>5, <2>1 DEF WcJoins
  <2>3. p[1 + i] = f[i] /\ q[1 + i] = g[i]
    BY <1>2, <1>4, <1>8 DEF WcJoins
  <2> QED BY <1>3, <2>2, <2>3, SMT
<1>10. ASSUME NEW i \in 1..Len(c) PROVE c[i] = d[i]
  <2>1. v[Len(p) + i] = c[i] /\ w[Len(q) + i] = d[i]
    BY <1>5, <1>8 DEF WcJoins
  <2>2. Len(p) = Len(q)
    BY <1>6, <1>8
  <2> QED BY <1>3, <2>1, <2>2
<1>11. f = g
  BY <1>8, <1>9, RcSame
<1>12. c = d
  BY <1>8, <1>10, RcSame
<1> QED BY <1>11, <1>12

\* Concatenation is associative.
RcAssociates(a, b, c) == (a \o b) \o c = a \o (b \o c)

LEMMA RcAssociative ==
    ASSUME NEW U, NEW a \in Seq(U), NEW b \in Seq(U), NEW c \in Seq(U)
    PROVE  RcAssociates(a, b, c)
<1> DEFINE p == a \o b
           q == b \o c
           v == p \o c
           w == a \o q
<1>1. /\ p \in Seq(U) /\ WcJoins(p, a, b) /\ q \in Seq(U) /\ WcJoins(q, b, c)
      /\ Len(a) \in Nat /\ Len(b) \in Nat /\ Len(c) \in Nat
  BY WcJoined, SMT
<1> HIDE DEF p, q
<1>2. v \in Seq(U) /\ WcJoins(v, p, c) /\ w \in Seq(U) /\ WcJoins(w, a, q)
  BY <1>1, WcJoined
<1> HIDE DEF v, w
<1>3. /\ Len(p) = Len(a) + Len(b) /\ Len(q) = Len(b) + Len(c)
      /\ Len(v) = Len(a) + Len(b) + Len(c) /\ Len(w) = Len(v)
  BY <1>1, <1>2, SMT DEF WcJoins
<1>4. ASSUME NEW i \in 1..Len(v) PROVE v[i] = w[i]
  <2>1. CASE i <= Len(a)
    <3>1. i \in 1..Len(a) /\ i \in 1..Len(p)
      BY <1>1, <1>3, <2>1, SMT
    <3> QED BY <1>1, <1>2, <3>1, SMT DEF WcJoins
  <2>2. CASE i > Len(a) /\ i <= Len(a) + Len(b)
    <3> DEFINE j == i - Len(a)
    <3>1. j \in 1..Len(b) /\ j \in 1..Len(q) /\ i \in 1..Len(p) /\ i = Len(a) + j
      BY <1>1, <1>3, <2>2, SMT
    <3> HIDE DEF j
    <3>2. v[i] = p[i] /\ p[i] = b[j] /\ w[i] = q[j] /\ q[j] = b[j]
      BY <1>1, <1>2, <3>1 DEF WcJoins
    <3> QED BY <3>2
  <2>3. CASE i > Len(a) + Len(b)
    <3> DEFINE j == i - Len(a)
               k == i - Len(p)
    <3>1. j \in 1..Len(q) /\ k \in 1..Len(c) /\ i = Len(a) + j /\ i = Len(p) + k /\ j = Len(b) + k
      BY <1>1, <1>3, <2>3, SMT
    <3> HIDE DEF j, k
    <3>2. v[i] = c[k] /\ w[i] = q[j] /\ q[j] = c[k]
      BY <1>1, <1>2, <3>1, SMT DEF WcJoins
    <3> QED BY <3>2
  <2> QED BY <1>1, <2>1, <2>2, <2>3, SMT
<1>5. v = w
  BY <1>2, <1>3, <1>4, RcSame
<1> QED BY <1>5 DEF v, w, p, q, RcAssociates

(**********************************************************************************)
(* The digested sequence determines the request: no two requests share a key,     *)
(* whatever the lengths of name, hash and input.                                  *)
(**********************************************************************************)
RcHash(request) ==
    IF request.module.sha256 # <<>> THEN nkvx_result_hash_update(request.module.sha256) ELSE <<>>
RcMarker(request) == <<IF request.module.sha256 # <<>> THEN 1 ELSE 0>>
RcRest(request) == RcFront(<<request.object>>, nkvx_result_hash_update(request.input))

LEMMA RcFieldTyped ==
    ASSUME NEW f \in Seq(RcItem)
    PROVE  nkvx_result_hash_update(f) \in Seq(RcItem)
<1>1. <<Len(f)>> \in Seq(RcItem)
  BY SMT DEF RcItem
<1> QED BY <1>1, WcJoined DEF nkvx_result_hash_update

LEMMA RcFields ==
    ASSUME NEW r \in RcRequest
    PROVE  /\ r.module.name \in Seq(RcItem) /\ r.module.sha256 \in Seq(RcItem) /\ r.input \in Seq(RcItem)
           /\ RcMarker(r) \in Seq(RcItem) /\ <<r.object>> \in Seq(RcItem)
           /\ RcHash(r) \in Seq(RcItem) /\ RcRest(r) \in Seq(RcItem)
<1>1. Nat \subseteq RcItem /\ r.object \in RcItem
  BY DEF RcItem, RcRequest
<1>2. r.module.name \in Seq(Nat) /\ r.module.sha256 \in Seq(Nat) /\ r.input \in Seq(Nat)
  BY RcAssumption DEF RcRequest
<1>3. r.module.name \in Seq(RcItem) /\ r.module.sha256 \in Seq(RcItem) /\ r.input \in Seq(RcItem)
  BY <1>1, <1>2, SMT
<1>4. RcMarker(r) \in Seq(RcItem)
  <2>1. (IF r.module.sha256 # <<>> THEN 1 ELSE 0) \in RcItem
    BY <1>1
  <2> DEFINE m == IF r.module.sha256 # <<>> THEN 1 ELSE 0
  <2> HIDE DEF m
  <2>2. m \in RcItem
    BY <2>1 DEF m
  <2>3. <<m>> \in Seq(RcItem)
    BY <2>2, SMT
  <2> QED BY <2>3 DEF RcMarker, m
<1>5. <<r.object>> \in Seq(RcItem) /\ <<>> \in Seq(RcItem)
  BY <1>1, SMT
<1>6. RcHash(r) \in Seq(RcItem)
  BY <1>3, <1>5, RcFieldTyped DEF RcHash
<1>7. RcRest(r) \in Seq(RcItem)
  BY <1>3, <1>5, RcFieldTyped, WcJoined DEF RcRest, RcFront
<1> QED BY <1>3, <1>4, <1>5, <1>6, <1>7

LEMMA RcKeyParts ==
    ASSUME NEW r \in RcRequest
    PROVE  kvdev_rados_nkvx_result_key(r)
             = RcFront(r.module.name, RcFront(RcMarker(r), RcHash(r) \o RcRest(r)))
<1> DEFINE a == nkvx_result_hash_update(r.module.name)
           b == nkvx_result_hash_update(RcMarker(r))
           c == RcHash(r)
           d == nkvx_result_hash_update(<<r.object>>)
           e == nkvx_result_hash_update(r.input)
<1>1. /\ a \in Seq(RcItem) /\ b \in Seq(RcItem) /\ c \in Seq(RcItem)
      /\ d \in Seq(RcItem) /\ e \in Seq(RcItem)
  BY RcFields, RcFieldTyped
<1>2. kvdev_rados_nkvx_result_key(r) = (((a \o b) \o c) \o d) \o e
  BY DEF kvdev_rados_nkvx_result_key, RcMarker, RcHash
<1>3. RcRest(r) = d \o e
  BY DEF RcRest, RcFront
<1> HIDE DEF a, b, c, d, e
<1>4. a \o b \in Seq(RcItem) /\ (a \o b) \o c \in Seq(RcItem) /\ d \o e \in Seq(RcItem) /\ c \o (d \o e) \in Seq(RcItem)
  BY <1>1, WcJoined
<1>5. /\ RcAssociates((a \o b) \o c, d, e)
      /\ RcAssociates(a \o b, c, d \o e)
      /\ RcAssociates(a, b, c \o (d \o e))
  BY <1>1, <1>4, RcAssociative
<1>6. (((a \o b) \o c) \o d) \o e = a \o (b \o (c \o (d \o e)))
  BY <1>5 DEF RcAssociates
<1> QED BY <1>2, <1>3, <1>6 DEF a, b, c, RcFront

LEMMA RcKeyIsRequest ==
    ASSUME NEW r \in RcRequest, NEW s \in RcRequest,
           kvdev_rados_nkvx_result_key(r) = kvdev_rados_nkvx_result_key(s)
    PROVE  r = s
<1> DEFINE rt == RcHash(r) \o RcRest(r)
           st == RcHash(s) \o RcRest(s)
           ru == RcFront(RcMarker(r), rt)
           su == RcFront(RcMarker(s), st)
<1>1. rt \in Seq(RcItem) /\ st \in Seq(RcItem)
  BY RcFields, WcJoined
<1>2. ru \in Seq(RcItem) /\ su \in Seq(RcItem)
  BY <1>1, RcFields, RcFieldTyped, WcJoined DEF RcFront
<1>3. RcFront(r.module.name, ru) = RcFront(s.module.name, su)
  BY RcKeyParts
<1> HIDE DEF ru, su
<1>4. r.module.name = s.module.name /\ ru = su
  BY <1>2, <1>3, RcFields, RcFieldRead, SMT
<1> HIDE DEF rt, st
<1>5. RcMarker(r) = RcMarker(s) /\ rt = st
  BY <1>1, <1>4, RcFields, RcFieldRead, SMT DEF ru, su
<1>6. (r.module.sha256 # <<>>) <=> (s.module.sha256 # <<>>)
  BY <1>5, SMT DEF RcMarker
<1>7. r.module.sha256 = s.module.sha256 /\ RcRest(r) = RcRest(s)
  <2>1. CASE r.module.sha256 # <<>>
    <3>1. RcFront(r.module.sha256, RcRest(r)) = RcFront(s.module.sha256, RcRest(s))
      BY <1>5, <1>6, <2>1 DEF rt, st, RcHash, RcFront
    <3> QED BY <3>1, RcFields, RcFieldRead, SMT
  <2>2. CASE r.module.sha256 = <<>>
    <3>1. <<>> \o RcRest(r) = <<>> \o RcRest(s)
      BY <1>5, <1>6, <2>2 DEF rt, st, RcHash
    <3>2. <<>> \o RcRest(r) = RcRest(r) /\ <<>> \o RcRest(s) = RcRest(s)
      BY RcFields, SMT
    <3> QED BY <1>6, <2>2, <3>1, <3>2
  <2> QED BY <2>1, <2>2
<1>8. <<r.object>> = <<s.object>> /\ nkvx_result_hash_update(r.input) = nkvx_result_hash_update(s.input)
  <2>1. nkvx_result_hash_update(r.input) \in Seq(RcItem) /\ nkvx_result_hash_update(s.input) \in Seq(RcItem)
    BY RcFields, RcFieldTyped
  <2> DEFINE ro == <<r.object>>
             so == <<s.object>>
             ri == nkvx_result_hash_update(r.input)
             si == nkvx_result_hash_update(s.input)
  <2>2. ro \in Seq(RcItem) /\ so \in Seq(RcItem) /\ ri \in Seq(RcItem) /\ si \in Seq(RcItem)
    BY <2>1, RcFields
  <2>3. RcFront(ro, ri) = RcFront(so, si)
    BY <1>7 DEF RcRest
  <2> HIDE DEF ro, so, ri, si
  <2>4. ro = so /\ ri = si
    BY <2>2, <2>3, RcFieldRead, SMT
  <2> QED BY <2>4 DEF ro, so, ri, si
<1>9. r.input = s.input
  <2>1. <<>> \in Seq(RcItem)
    BY SMT
  <2>2. RcFront(r.input, <<>>) = RcFront(s.input, <<>>)
    BY <1>8 DEF RcFront
  <2> DEFINE e == <<>>
  <2>3. e \in Seq(RcItem) /\ RcFront(r.input, e) = RcFront(s.input, e)
    BY <2>1, <2>2
  <2> HIDE DEF e
  <2>4. r.input \in Seq(RcItem) /\ s.input \in Seq(RcItem)
    BY RcFields
  <2> QED BY <2>3, <2>4, RcFieldRead, SMT
<1>10. r.object = s.object
  BY <1>8
<1>11. r.module = s.module
  <2>1. r.module \in [name : Seq(Nat), sha256 : Seq(Nat)] /\ s.module \in [name : Seq(Nat), sha256 : Seq(Nat)]
    BY RcAssumption DEF RcRequest
  <2> QED BY <1>4, <1>7, <2>1, SMT
<1> QED BY <1>9, <1>10, <1>11, SMT DEF RcRequest

--------------------------------------------------------------------------------
(**********************************************************************************)
(* Every entry is the outcome of a run of the request its key digests, and the    *)
(* requests in progress are requests.                                             *)
(**********************************************************************************)
RcOutcome(request, out_len) ==
    [key |-> kvdev_rados_nkvx_result_key(request), result |-> RcComputed(request, out_len),
     out_len |-> out_len]
RcEntry == {RcOutcome(request, out_len) : request \in RcRequest, out_len \in RcOutLen}
RcMissed == [state : {"missed"}, request : RcRequest, out_len : RcOutLen]
RcUnique(entries) ==
    \A i, j \in 1..Len(entries) : entries[i].key = entries[j].key => i = j
RcIInv ==
    /\ rcEntries \in Seq(RcEntry) /\ RcUnique(rcEntries)
    /\ RcMax # 0 => Len(rcEntries) <= RcMax
    /\ rcObject \in RcContent
    /\ rcExec \in [RcConsumer -> {RcIdle} \cup RcMissed]
    /\ RcHitIsRecomputation

LEMMA RcEntryIs ==
    ASSUME NEW e \in RcEntry
    PROVE  \E request \in RcRequest, out_len \in RcOutLen : e = RcOutcome(request, out_len)
  BY SMT DEF RcEntry

\* The i-th entry moved to the tail: the same entries in another order.
LEMMA RcTouched ==
    ASSUME rcEntries \in Seq(RcEntry), RcUnique(rcEntries), NEW i \in 1..Len(rcEntries)
    PROVE  Touched(i) \in Seq(RcEntry) /\ RcUnique(Touched(i)) /\ Len(Touched(i)) = Len(rcEntries)
<1> DEFINE n == Len(rcEntries)
           at == [j \in 1..n |-> IF j = n THEN i ELSE IF j < i THEN j ELSE j + 1]
           t == Touched(i)
           w == RcWithout(i)
<1>1. n \in Nat /\ n > 0 /\ i \in Nat /\ i >= 1 /\ i <= n
  BY SMT
<1>2. \A j \in 1..n : rcEntries[j] \in RcEntry
  BY SMT
<1> HIDE DEF n
<1>3. w \in Seq(RcEntry) /\ Len(w) = n - 1 /\ \A j \in 1..(n - 1) : w[j] = rcEntries[IF j < i THEN j ELSE j + 1]
  <2> DEFINE g == [j \in 1..(n - 1) |-> rcEntries[IF j < i THEN j ELSE j + 1]]
  <2>1. \A j \in 1..(n - 1) : (IF j < i THEN j ELSE j + 1) \in 1..n
    BY <1>1, SMT
  <2>2. n - 1 \in Nat /\ \A j \in 1..(n - 1) : g[j] \in RcEntry
    BY <1>1, <1>2, <2>1, SMT
  <2>3. g \in Seq(RcEntry) /\ Len(g) = n - 1
    BY <2>2, SMT
  <2> QED BY <2>3 DEF RcWithout, n
<1> HIDE DEF w
<1>4. t \in Seq(RcEntry) /\ Len(t) = n /\ \A j \in 1..n : t[j] = rcEntries[at[j]]
  <2>1. t = Append(w, rcEntries[i])
    BY DEF Touched, w
  <2> HIDE DEF t
  <2>2. t \in Seq(RcEntry) /\ Len(t) = n /\ t[n] = rcEntries[i] /\ \A j \in 1..(n - 1) : t[j] = w[j]
    BY <1>1, <1>2, <1>3, <2>1, SMT
  <2> QED BY <1>1, <1>3, <2>2, SMT
<1>5. \A j \in 1..n : at[j] \in 1..n
  BY <1>1, SMT
<1>6. \A j, k \in 1..n : at[j] = at[k] => j = k
  BY <1>1, SMT
<1> HIDE DEF at, t
<1>7. RcUnique(t)
  <2> SUFFICES ASSUME NEW j \in 1..Len(t), NEW k \in 1..Len(t), t[j].key = t[k].key PROVE j = k
    BY DEF RcUnique
  <2>1. j \in 1..n /\ k \in 1..n
    BY <1>4
  <2>2. rcEntries[at[j]].key = rcEntries[at[k]].key
    BY <1>4, <2>1
  <2>3. at[j] \in 1..n /\ at[k] \in 1..n
    BY <1>5, <2>1
  <2>4. at[j] = at[k]
    BY <2>2, <2>3 DEF RcUnique, n
  <2> QED BY <1>6, <2>1, <2>4, SMT
<1> QED BY <1>4, <1>7 DEF t, n

\* What a lookup that hits replies is what a run would give now.
LEMMA RcServed ==
    ASSUME NEW e \in RcEntry, NEW request \in RcRequest, NEW out_len \in RcOutLen,
           e.key = kvdev_rados_nkvx_result_key(request),
           request.object = rcObject', 
           rcReply' = [served |-> TRUE, request |-> request, out_len |-> out_len,
                       result |-> [e.result EXCEPT !.bytes = RcMinimum(@, out_len)],
                       memo_len |-> e.out_len]
    PROVE  RcHitIsRecomputation'
<1>1. PICK q \in RcRequest, len \in RcOutLen : e = RcOutcome(q, len)
  BY RcEntryIs
<1>2. q = request
  BY <1>1, RcKeyIsRequest DEF RcOutcome
<1>3. /\ out_len \in Nat /\ len \in Nat /\ RcLen \in Nat
  BY RcAssumption
<1> DEFINE status == IF RcLen > len THEN "BUFFER_TOO_SMALL" ELSE "SUCCESS"
           bytes == RcMinimum(RcMinimum(RcLen, len), out_len)
<1>4. e.result = [status |-> status, of |-> request, len |-> RcLen, bytes |-> RcMinimum(RcLen, len)] /\ e.out_len = len
  BY <1>1, <1>2 DEF RcOutcome, RcComputed
<1> HIDE DEF status
<1>5. [e.result EXCEPT !.bytes = RcMinimum(@, out_len)]
        = [status |-> status, of |-> request, len |-> RcLen, bytes |-> bytes]
  BY <1>4, SMT
<1>6. bytes <= RcMinimum(RcLen, out_len) /\ (out_len = len => bytes = RcMinimum(RcLen, out_len))
  BY <1>3, SMT DEF RcMinimum
<1> HIDE DEF bytes
<1>7. rcReply' = [served |-> TRUE, request |-> request, out_len |-> out_len,
                  result |-> [status |-> status, of |-> request, len |-> RcLen, bytes |-> bytes],
                  memo_len |-> len]
  BY <1>4, <1>5
<1>8. out_len = len => rcReply'.result = RcComputed(request, out_len)
  BY <1>6, <1>7, SMT DEF RcComputed, status
<1> QED BY <1>6, <1>7, <1>8, SMT DEF RcHitIsRecomputation, RcComputed

LEMMA RcLookupStep ==
    ASSUME RcIInv, NEW c \in RcConsumer, NEW request \in RcRequest, NEW out_len \in RcOutLen,
           kvdev_rados_nkvx_result_lookup(c, request, out_len)
    PROVE  RcIInv'
<1> DEFINE key == kvdev_rados_nkvx_result_key(request)
           hits == nkvx_result_lookup_locked(key)
<1>1. request.object = rcObject /\ rcObject' = rcObject
  BY DEF kvdev_rados_nkvx_result_lookup
<1>2. CASE hits = {}
  <2>1. /\ rcExec' = [rcExec EXCEPT ![c] = [state |-> "missed", request |-> request, out_len |-> out_len]]
        /\ rcReply' = RcNoReply /\ rcEntries' = rcEntries
    BY <1>2 DEF kvdev_rados_nkvx_result_lookup
  <2>2. [state |-> "missed", request |-> request, out_len |-> out_len] \in RcMissed
    BY DEF RcMissed
  <2>3. rcExec' \in [RcConsumer -> {RcIdle} \cup RcMissed]
    BY <2>1, <2>2 DEF RcIInv
  <2>4. RcHitIsRecomputation'
    BY <2>1 DEF RcHitIsRecomputation, RcNoReply
  <2> QED BY <1>1, <2>1, <2>3, <2>4 DEF RcIInv
<1>3. CASE hits # {}
  <2>1. PICK i \in hits :
          /\ rcEntries' = Touched(i)
          /\ rcReply' = [served |-> TRUE, request |-> request, out_len |-> out_len,
                         result |-> [rcEntries[i].result EXCEPT !.bytes = RcMinimum(@, out_len)],
                         memo_len |-> rcEntries[i].out_len]
          /\ rcExec' = rcExec
    BY <1>3 DEF kvdev_rados_nkvx_result_lookup
  <2>2. i \in 1..Len(rcEntries) /\ rcEntries[i] \in RcEntry /\ rcEntries[i].key = key
    BY SMT DEF nkvx_result_lookup_locked, RcIInv
  <2>3. RcHitIsRecomputation'
    BY <1>1, <2>1, <2>2, RcServed
  <2>4. rcEntries' \in Seq(RcEntry) /\ RcUnique(rcEntries') /\ Len(rcEntries') = Len(rcEntries)
    BY <2>1, <2>2, RcTouched DEF RcIInv
  <2> QED BY <1>1, <2>1, <2>3, <2>4, SMT DEF RcIInv, RcUnique
<1> QED BY <1>2, <1>3

\* A new entry at the tail, and the head evicted past the cap.
LEMMA RcTrimmed ==
    ASSUME rcEntries \in Seq(RcEntry), RcUnique(rcEntries), RcMax # 0 => Len(rcEntries) <= RcMax,
           NEW e \in RcEntry, \A i \in 1..Len(rcEntries) : rcEntries[i].key # e.key,
           NEW t, t = Trimmed(Append(rcEntries, e))
    PROVE  t \in Seq(RcEntry) /\ RcUnique(t) /\ (RcMax # 0 => Len(t) <= RcMax)
<1> DEFINE n == Len(rcEntries)
           a == Append(rcEntries, e)
<1>1. n \in Nat /\ RcMax \in Nat /\ (RcMax # 0 => n <= RcMax)
  BY RcAssumption, SMT
<1>2. /\ a \in Seq(RcEntry) /\ Len(a) = n + 1 /\ a[n + 1] = e
      /\ \A i \in 1..n : a[i] = rcEntries[i]
  BY SMT
<1> HIDE DEF a, n
<1>3. ASSUME NEW i \in 1..(n + 1), NEW j \in 1..(n + 1), a[i].key = a[j].key PROVE i = j
  <2>1. i \in 1..n \/ i = n + 1
    BY <1>1, SMT
  <2>2. j \in 1..n \/ j = n + 1
    BY <1>1, SMT
  <2>3. \A k \in 1..n : a[k].key # e.key
    BY <1>2 DEF n
  <2> QED BY <1>2, <1>3, <2>1, <2>2, <2>3 DEF RcUnique, n
<1>4. CASE RcMax # 0 /\ Len(a) > RcMax
  <2>1. t = Tail(a)
    BY <1>4 DEF Trimmed, a
  <2>2. /\ t \in Seq(RcEntry) /\ Len(t) = n /\ \A i \in 1..n : t[i] = a[i + 1]
    BY <1>1, <1>2, <2>1, SMT
  <2>3. \A i \in 1..n : i + 1 \in 1..(n + 1)
    BY <1>1, SMT
  <2>4. \A i, j \in 1..n : i + 1 = j + 1 => i = j
    BY <1>1, SMT
  <2>5. RcUnique(t)
    BY <1>3, <2>2, <2>3, <2>4, SMT DEF RcUnique
  <2> QED BY <1>1, <2>2, <2>5
<1>5. CASE ~ (RcMax # 0 /\ Len(a) > RcMax)
  <2>1. t = a
    BY <1>5 DEF Trimmed, a
  <2>2. RcUnique(t)
    BY <1>2, <1>3, <2>1 DEF RcUnique
  <2> QED BY <1>1, <1>2, <1>5, <2>1, <2>2, SMT
<1> QED BY <1>4, <1>5

LEMMA RcInsertStep ==
    ASSUME RcIInv, NEW c \in RcConsumer, kvdev_rados_nkvx_result_insert(c)
    PROVE  RcIInv'
<1> DEFINE request == rcExec[c].request
           out_len == rcExec[c].out_len
           key == kvdev_rados_nkvx_result_key(request)
           hits == nkvx_result_lookup_locked(key)
           e == [key |-> key, result |-> RcComputed(request, out_len), out_len |-> out_len]
<1>1. /\ rcExec[c].state = "missed" /\ rcExec' = [rcExec EXCEPT ![c] = RcIdle]
      /\ rcReply' = RcNoReply /\ rcObject' = rcObject
      /\ rcEntries' \in {rcEntries} \cup (IF hits # {} THEN {Touched(i) : i \in hits}
                                          ELSE {Trimmed(Append(rcEntries, e))})
  BY DEF kvdev_rados_nkvx_result_insert
<1>2. request \in RcRequest /\ out_len \in RcOutLen
  <2>1. rcExec[c] \in {RcIdle} \cup RcMissed /\ rcExec[c] # RcIdle
    BY <1>1, SMT DEF RcIInv, RcIdle
  <2> QED BY <2>1 DEF RcMissed
<1>3. e \in RcEntry /\ e.key = key
  <2>1. e = RcOutcome(request, out_len) /\ e.key = key
    BY DEF RcOutcome
  <2> HIDE DEF e, request, out_len
  <2> QED BY <1>2, <2>1, SMT DEF RcEntry
<1> HIDE DEF e, key
<1>4. rcExec' \in [RcConsumer -> {RcIdle} \cup RcMissed]
  BY <1>1 DEF RcIInv
<1>5. RcHitIsRecomputation'
  BY <1>1 DEF RcHitIsRecomputation, RcNoReply
<1>6. /\ rcEntries' \in Seq(RcEntry) /\ RcUnique(rcEntries') /\ (RcMax # 0 => Len(rcEntries') <= RcMax)
  <2>1. CASE rcEntries' = rcEntries
    BY <2>1 DEF RcIInv
  <2>2. ASSUME NEW i \in hits, rcEntries' = Touched(i) 
        PROVE  rcEntries' \in Seq(RcEntry) /\ RcUnique(rcEntries') /\ (RcMax # 0 => Len(rcEntries') <= RcMax)
    <3>1. i \in 1..Len(rcEntries)
      BY SMT DEF nkvx_result_lookup_locked, RcIInv
    <3> QED BY <2>2, <3>1, RcTouched DEF RcIInv
  <2>3. CASE hits = {} /\ rcEntries' = Trimmed(Append(rcEntries, e))
    <3>1. \A i \in 1..Len(rcEntries) : rcEntries[i].key # e.key
      BY <1>3, <2>3, SMT DEF nkvx_result_lookup_locked, RcIInv
    <3> QED BY <1>3, <2>3, <3>1, RcTrimmed DEF RcIInv
  <2> QED BY <1>1, <2>1, <2>2, <2>3
<1> QED BY <1>1, <1>4, <1>5, <1>6 DEF RcIInv, RcUnique

(**********************************************************************************)
(* What the cache serves is what would be computed, and it has one entry per      *)
(* request within its cap: for any modules, inputs, contents and buffer lengths.  *)
(**********************************************************************************)
THEOREM ResultMemoExact == RcSpec => []RcMemoExact
<1>1. RcInit => RcIInv
  <2> SUFFICES ASSUME RcInit PROVE RcIInv
    OBVIOUS
  <2>1. rcEntries \in Seq(RcEntry) /\ Len(rcEntries) = 0
    BY SMT DEF RcInit
  <2>2. RcUnique(rcEntries)
    BY <2>1, SMT DEF RcUnique
  <2>3. RcHitIsRecomputation
    BY DEF RcInit, RcHitIsRecomputation, RcNoReply
  <2> QED BY <2>1, <2>2, <2>3, RcAssumption, SMT DEF RcInit, RcIInv
<1>2. ASSUME RcIInv, [RcNext]_rcVars PROVE RcIInv'
  <2>1. CASE UNCHANGED rcVars
    BY <1>2, <2>1 DEF rcVars, RcIInv, RcUnique, RcHitIsRecomputation
  <2>2. CASE kvdev_rados_nkvx_result_cache_reset
    <3>1. rcEntries' = <<>> /\ rcReply' = RcNoReply /\ rcObject' = rcObject /\ rcExec' = rcExec
      BY <2>2 DEF kvdev_rados_nkvx_result_cache_reset
    <3>2. rcEntries' \in Seq(RcEntry) /\ Len(rcEntries') = 0
      BY <3>1, SMT
    <3>3. RcUnique(rcEntries') /\ RcHitIsRecomputation'
      BY <3>1, <3>2, SMT DEF RcUnique, RcHitIsRecomputation, RcNoReply
    <3> QED BY <1>2, <3>1, <3>2, <3>3, RcAssumption, SMT DEF RcIInv, RcUnique
  <2>3. ASSUME NEW v \in RcContent, RcOverwrite(v) PROVE RcIInv'
    BY <1>2, <2>3 DEF RcOverwrite, RcIInv, RcUnique, RcHitIsRecomputation, RcNoReply
  <2> QED BY <1>2, <2>1, <2>2, <2>3, RcLookupStep, RcInsertStep DEF RcNext
<1>3. RcIInv => RcMemoExact
  <2> SUFFICES ASSUME RcIInv PROVE RcMemoExact
    OBVIOUS
  <2>1. ASSUME NEW i \in DOMAIN rcEntries
        PROVE  rcEntries[i].result.of \in RcRequest /\ rcEntries[i].result.bytes <= rcEntries[i].result.len
    <3>1. rcEntries[i] \in RcEntry
      BY <2>1, SMT DEF RcIInv
    <3>2. PICK q \in RcRequest, len \in RcOutLen : rcEntries[i] = RcOutcome(q, len)
      BY <3>1, RcEntryIs
    <3>3. rcEntries[i].result = RcComputed(q, len) /\ len \in Nat /\ RcLen \in Nat
      BY <3>2, RcAssumption, SMT DEF RcOutcome
    <3> QED BY <3>3, SMT DEF RcComputed, RcMinimum
  <2>2. ASSUME NEW c \in RcConsumer PROVE rcExec[c].state \in {"idle", "missed"}
    BY <2>2, SMT DEF RcIInv, RcIdle, RcMissed
  <2>3. RcTypeOK
    BY <2>1, <2>2 DEF RcIInv, RcTypeOK
  <2>4. RcOneEntryPerRequest
    BY SMT DEF RcIInv, RcUnique, RcOneEntryPerRequest
  <2> QED BY <2>3, <2>4 DEF RcMemoExact, RcIInv
<1> QED BY <1>1, <1>2, <1>3, PTL DEF RcSpec

-----------------------------------------------------------------------------
INSTANCE WellFoundedInduction

\* What holds of 0 and, with n, of n + 1 holds of every number.
LEMMA MgInduction ==
    ASSUME NEW P, 0 \in P, \A n \in Nat : n \in P => n + 1 \in P
    PROVE  \A n \in Nat : n \in P
<1> SUFFICES ASSUME \E n \in Nat : n \notin P PROVE FALSE
  OBVIOUS
<1> DEFINE S == {n \in Nat : n \notin P}
<1>1. S \subseteq Nat /\ S # {}
  OBVIOUS
<1>2. PICK m \in S : \A x \in S : ~ (<<x, m>> \in OpToRel(<, Nat))
  BY <1>1, WFMin, NatLessThanWellFounded
<1>3. m # 0 /\ m - 1 \in Nat
  BY SMT
<1>4. m - 1 \notin S
  <2>1. <<m - 1, m>> \in OpToRel(<, Nat)
    BY <1>3, SMT DEF OpToRel
  <2> QED BY <2>1, <1>2
<1>5. m - 1 \in P
  BY <1>3, <1>4
<1>6. (m - 1) + 1 \in P
  BY <1>3, <1>5
<1>7. (m - 1) + 1 = m
  BY SMT
<1> QED BY <1>6, <1>7

(**********************************************************************************)
(* The module gate holds for any threads, names, codes and caps.                  *)
(**********************************************************************************)
MgEntry == [sha256 : MgCode, serialized : MgCode]
Busy == [pc : {"gated", "compile", "job", "obtain"}, name : MgName, sha256 : MgCode,
         bytes : MgCode \cup {MgNoCode}]

\* A thread is idle, or after the gate: its hash was bound to its name, and the bytes it
\* carries, if any, have that hash.
Gated(t) ==
    mgRun[t] = MgIdle \/
        /\ mgRun[t] \in Busy
        /\ mgRun[t].sha256 \in mgBound[mgRun[t].name]
        /\ mgRun[t].bytes \in {MgNoCode, mgRun[t].sha256}
        /\ mgRun[t].pc \in {"compile", "job"} => mgRun[t].bytes = mgRun[t].sha256

\* Bindings and warm engines are on record.
OnRecord ==
    \A n \in MgName : /\ mgBinding[n] \in mgBound[n]
                      /\ mgWarm[n] # MgNoCode => mgWarm[n] \in mgBound[n]

MgTypes ==
    /\ g_modcache \in Seq(MgEntry)
    /\ mgBinding \in [MgName -> MgCode]
    /\ mgBound \in [MgName -> SUBSET MgCode]
    /\ mgWarm \in [MgName -> MgCode \cup {MgNoCode}]
    /\ DOMAIN mgRun = MgThread
    /\ mgRun = [t \in MgThread |-> mgRun[t]]
    /\ mgRan.entered => mgRan.name \in MgName

\* The inductive invariant.
MgIInv ==
    /\ MgTypes
    /\ OneArtifact(g_modcache)
    /\ \A t \in MgThread : Gated(t)
    /\ OnRecord
    /\ MgEntersBoundCode

\* The caps leave a suffix of the entries, which is empty or fits.
LEMMA CapsLeaveSuffix ==
    ASSUME NEW s \in Seq(MgEntry)
    PROVE  \E k \in 1..(Len(s) + 1) : /\ nkvx_modcache_enforce_caps(s) = SubSeq(s, k, Len(s))
                                      /\ k <= Len(s) => Fits(SubSeq(s, k, Len(s)))
<1> DEFINE P(k) == k <= Len(s) => Fits(SubSeq(s, k, Len(s)))
           T == {k \in 1..(Len(s) + 1) : P(k)}
           Q(k) == /\ P(k)
                   /\ \A j \in 1..(k - 1) : ~ Fits(SubSeq(s, j, Len(s)))
<1>1. Len(s) \in Nat
  BY SMT
<1>2. T \subseteq Nat /\ Len(s) + 1 \in T
  BY <1>1, SMT
<1>3. PICK m \in T : \A y \in T : ~ (<<y, m>> \in OpToRel(<, Nat))
  <2> HIDE DEF T
  <2> QED BY <1>2, WFMin, NatLessThanWellFounded
<1>4. \A y \in T : ~ (y < m)
  BY <1>2, <1>3 DEF OpToRel
<1>5. Q(m)
  <2>1. ASSUME NEW j \in 1..(m - 1), Fits(SubSeq(s, j, Len(s))) PROVE FALSE
    BY <1>1, <1>4, <2>1, SMT
  <2> QED BY <2>1
<1>6. \E k \in 1..(Len(s) + 1) : Q(k)
  BY <1>5
<1> DEFINE first == CHOOSE k \in 1..(Len(s) + 1) : Q(k)
<1>7. first \in 1..(Len(s) + 1) /\ Q(first)
  <2> HIDE DEF Q
  <2> QED BY <1>6
<1>8. nkvx_modcache_enforce_caps(s) = SubSeq(s, first, Len(s))
  BY DEF nkvx_modcache_enforce_caps
<1>9. P(first)
  BY <1>7
<1> HIDE DEF first
<1> QED BY <1>7, <1>8, <1>9

\* Evicting keeps the artifacts apart.
LEMMA CapsKeepArtifacts ==
    ASSUME NEW s \in Seq(MgEntry), OneArtifact(s)
    PROVE  /\ nkvx_modcache_enforce_caps(s) \in Seq(MgEntry)
           /\ OneArtifact(nkvx_modcache_enforce_caps(s))
<1>1. PICK k \in 1..(Len(s) + 1) : nkvx_modcache_enforce_caps(s) = SubSeq(s, k, Len(s))
  BY CapsLeaveSuffix, SMT
<1> DEFINE r == SubSeq(s, k, Len(s))
<1>2. r \in Seq(MgEntry) /\ Len(r) = Len(s) - k + 1
  BY SMT
<1>3. \A j \in 1..Len(r) : r[j] = s[j + k - 1] /\ j + k - 1 \in 1..Len(s)
  BY SMT
<1>4. OneArtifact(r)
  <2> HIDE DEF r
  <2>1. DOMAIN r = 1..Len(r) /\ DOMAIN s = 1..Len(s) /\ Len(s) \in Nat
    BY <1>2, SMT
  <2>2. ASSUME NEW a \in 1..Len(r), NEW b \in 1..Len(r), r[a].sha256 = r[b].sha256
        PROVE  a = b
    <3>1. /\ a + k - 1 \in 1..Len(s) /\ r[a] = s[a + k - 1]
          /\ b + k - 1 \in 1..Len(s) /\ r[b] = s[b + k - 1]
      BY <1>3, SMT
    <3>2. a + k - 1 = b + k - 1
      BY <2>1, <2>2, <3>1, SMT DEF OneArtifact
    <3> QED BY <1>2, <2>1, <3>2, SMT
  <2>3. ASSUME NEW a \in 1..Len(r) PROVE r[a].serialized = r[a].sha256
    BY <1>3, <2>1, SMT DEF OneArtifact
  <2> QED BY <2>1, <2>2, <2>3 DEF OneArtifact
<1> QED BY <1>1, <1>2, <1>4

\* Appending an artifact of a hash that is not cached.
LEMMA AppendKeepsArtifacts ==
    ASSUME NEW s \in Seq(MgEntry), OneArtifact(s), NEW k \in MgCode,
           \A i \in DOMAIN s : s[i].sha256 # k
    PROVE  /\ Append(s, [sha256 |-> k, serialized |-> k]) \in Seq(MgEntry)
           /\ OneArtifact(Append(s, [sha256 |-> k, serialized |-> k]))
<1> DEFINE e == [sha256 |-> k, serialized |-> k]
<1>1. e \in MgEntry /\ e.sha256 = k /\ e.serialized = k
  BY DEF MgEntry
<1> HIDE DEF e
<1>2. /\ Append(s, e) \in Seq(MgEntry) /\ Len(Append(s, e)) = Len(s) + 1
      /\ \A i \in 1..(Len(s) + 1) : Append(s, e)[i] = IF i <= Len(s) THEN s[i] ELSE e
  BY <1>1, SMT
<1>3. OneArtifact(Append(s, e))
  BY <1>1, <1>2, SMT DEF OneArtifact
<1> QED BY <1>2, <1>3 DEF e

\* A lookup that touches its entry reorders the cache.
LEMMA TouchKeepsArtifacts ==
    ASSUME g_modcache \in Seq(MgEntry), OneArtifact(g_modcache), NEW i \in DOMAIN g_modcache
    PROVE  TouchedEntry(i) \in Seq(MgEntry) /\ OneArtifact(TouchedEntry(i))
<1> DEFINE n == Len(g_modcache)
           rest == [j \in 1..(n - 1) |-> g_modcache[IF j < i THEN j ELSE j + 1]]
<1>1. n \in Nat /\ i \in 1..n /\ n - 1 \in Nat
  BY SMT
<1>2. \A j \in 1..(n - 1) : rest[j] \in MgEntry
  BY <1>1, SMT
<1>3. rest \in Seq(MgEntry) /\ Len(rest) = n - 1
  BY <1>1, <1>2, SMT
<1>4. g_modcache[i] \in MgEntry
  BY <1>1, SMT
<1>5. /\ TouchedEntry(i) \in Seq(MgEntry) /\ Len(TouchedEntry(i)) = n
      /\ \A j \in 1..n : TouchedEntry(i)[j] =
            g_modcache[IF j = n THEN i ELSE IF j < i THEN j ELSE j + 1]
  <2>1. TouchedEntry(i) = Append(rest, g_modcache[i])
    BY DEF TouchedEntry
  <2>2. \A j \in 1..(n - 1) : rest[j] = g_modcache[IF j < i THEN j ELSE j + 1]
    OBVIOUS
  <2> HIDE DEF rest, n
  <2>3. /\ Append(rest, g_modcache[i]) \in Seq(MgEntry) /\ Len(Append(rest, g_modcache[i])) = n
        /\ \A j \in 1..n : Append(rest, g_modcache[i])[j] =
              IF j = n THEN g_modcache[i] ELSE rest[j]
    BY <1>1, <1>3, <1>4, SMT
  <2> QED BY <1>1, <2>1, <2>2, <2>3, SMT
<1>6. OneArtifact(TouchedEntry(i))
  <2>1. DOMAIN TouchedEntry(i) = 1..n /\ DOMAIN g_modcache = 1..n
    BY <1>5, SMT
  <2> HIDE DEF n
  <2>2. ASSUME NEW a \in 1..n, NEW b \in 1..n,
               TouchedEntry(i)[a].sha256 = TouchedEntry(i)[b].sha256
        PROVE  a = b
    <3> DEFINE at(j) == IF j = n THEN i ELSE IF j < i THEN j ELSE j + 1
    <3>1. at(a) \in 1..n /\ at(b) \in 1..n
      BY <1>1, SMT
    <3>2. TouchedEntry(i)[a] = g_modcache[at(a)] /\ TouchedEntry(i)[b] = g_modcache[at(b)]
      BY <1>5
    <3>3. at(a) = at(b)
      <4> HIDE DEF at
      <4> QED BY <2>1, <2>2, <3>1, <3>2, SMT DEF OneArtifact
    <3> QED BY <1>1, <3>3, SMT
  <2>3. ASSUME NEW a \in 1..n
        PROVE  TouchedEntry(i)[a].serialized = TouchedEntry(i)[a].sha256
    <3> DEFINE at == IF a = n THEN i ELSE IF a < i THEN a ELSE a + 1
    <3>1. at \in 1..n /\ TouchedEntry(i)[a] = g_modcache[at]
      BY <1>1, <1>5, SMT
    <3> HIDE DEF at
    <3> QED BY <2>1, <3>1 DEF OneArtifact
  <2> QED BY <2>1, <2>2, <2>3 DEF OneArtifact
<1> QED BY <1>5, <1>6

--------------------------------------------------------------------------------
LEMMA MgInitial == MgInit => MgIInv
<1> SUFFICES ASSUME MgInit PROVE MgIInv
  OBVIOUS
<1>1. mgRan.entered = FALSE
  BY DEF MgInit, MgNone
<1>2. MgTypes
  BY <1>1, MgAssumption, SMT DEF MgInit, MgTypes
<1>3. OneArtifact(g_modcache)
  BY SMT DEF MgInit, OneArtifact
<1>4. OnRecord
  BY DEF MgInit, OnRecord
<1>5. \A t \in MgThread : Gated(t)
  BY DEF MgInit, Gated
<1> QED BY <1>1, <1>2, <1>3, <1>4, <1>5 DEF MgIInv, MgEntersBoundCode

\* A thread that a step does not touch stays as it was.
LEMMA GatedElsewhere ==
    ASSUME NEW t \in MgThread, Gated(t), mgRun'[t] = mgRun[t],
           \A n \in MgName : mgBound[n] \subseteq mgBound'[n]
    PROVE  Gated(t)'
  BY DEF Gated, Busy

\* The end of a run: code is entered for a hash that was checked.
LEMMA EnterPreserves ==
    ASSUME MgIInv, NEW t \in MgThread, mgRun[t] \in Busy, NEW code, NEW warm \in BOOLEAN,
           code \in mgBound[mgRun[t].name], ~warm => code = mgRun[t].sha256,
           Enter(t, code, warm),
           UNCHANGED <<mgBinding, mgBound, mgStored>>,
           g_modcache' \in Seq(MgEntry), OneArtifact(g_modcache')
    PROVE  MgIInv'
<1>1. mgRun' = [mgRun EXCEPT ![t] = MgIdle]
  BY DEF Enter
<1>2. mgRan' = MgNone \/ mgRan' = [entered |-> TRUE, name |-> mgRun[t].name,
                                   sha256 |-> mgRun[t].sha256, code |-> code, warm |-> warm]
  BY DEF Enter
<1>3. mgRun[t].name \in MgName /\ code \in MgCode
  BY DEF Busy, MgIInv, MgTypes
<1>4. MgTypes'
  <2>1. mgRan'.entered => mgRan'.name \in MgName
    BY <1>2, <1>3, SMT DEF MgNone
  <2>2. mgWarm' \in [MgName -> MgCode \cup {MgNoCode}]
    BY <1>3 DEF MgIInv, MgTypes, Enter
  <2> QED BY <1>1, <2>1, <2>2 DEF MgIInv, MgTypes
<1>5. \A u \in MgThread : Gated(u)'
  <2>1. Gated(t)'
    BY <1>1, SMT DEF Gated, MgIInv, MgTypes
  <2>2. ASSUME NEW u \in MgThread, u # t PROVE Gated(u)'
    BY <1>1, <2>2, GatedElsewhere DEF MgIInv, MgTypes
  <2> QED BY <2>1, <2>2
<1>6. OnRecord'
  BY <1>3 DEF MgIInv, MgTypes, OnRecord, Enter
<1>7. MgEntersBoundCode'
  BY <1>2, SMT DEF MgEntersBoundCode, MgNone
<1> QED BY <1>4, <1>5, <1>6, <1>7 DEF MgIInv

\* A run that fails, or a step that only changes what a thread is doing.
LEMMA RunPreserves ==
    ASSUME MgIInv, NEW t \in MgThread, NEW r, mgRun' = [mgRun EXCEPT ![t] = r], Gated(t)',
           mgRan' \in {mgRan, MgNone},
           UNCHANGED <<mgBinding, mgBound, mgStored, mgWarm>>,
           g_modcache' \in Seq(MgEntry), OneArtifact(g_modcache')
    PROVE  MgIInv'
<1>1. MgTypes'
  <2>1. mgRan'.entered => mgRan'.name \in MgName
    BY SMT DEF MgIInv, MgTypes, MgNone
  <2>2. DOMAIN mgRun' = MgThread /\ mgRun' = [u \in MgThread |-> mgRun'[u]]
    BY DEF MgIInv, MgTypes
  <2> QED BY <2>1, <2>2 DEF MgIInv, MgTypes
<1>2. ASSUME NEW u \in MgThread, u # t PROVE Gated(u)'
  BY <1>2, GatedElsewhere DEF MgIInv, MgTypes
<1>3. OnRecord'
  BY DEF MgIInv, OnRecord
<1>4. MgEntersBoundCode'
  BY SMT DEF MgIInv, MgEntersBoundCode, MgNone
<1> QED BY <1>1, <1>2, <1>3, <1>4 DEF MgIInv

LEMMA RunWasmPreserves ==
    ASSUME MgIInv, NEW t \in MgThread, NEW n \in MgName, nkvx_run_wasm(t, n)
    PROVE  MgIInv'
<1>1. /\ UNCHANGED <<g_modcache, mgBinding, mgBound, mgStored, mgMutex>>
      /\ g_modcache' \in Seq(MgEntry) /\ OneArtifact(g_modcache')
  BY DEF nkvx_run_wasm, MgIInv, MgTypes
<1>2. CASE Fail(t)
  <2>1. Gated(t)'
    BY <1>2 DEF Fail, Gated, MgIInv, MgTypes
  <2> QED BY <1>1, <1>2, <2>1, RunPreserves DEF Fail
<1>3. ASSUME NEW bytes \in {MgNoCode, mgBinding[n]},
             mgRun' = [mgRun EXCEPT ![t] = [pc |-> "gated", name |-> n, sha256 |-> mgBinding[n],
                                            bytes |-> bytes]],
             mgRan' = MgNone, UNCHANGED mgWarm
      PROVE  MgIInv'
  <2>1. mgBinding[n] \in MgCode /\ mgBinding[n] \in mgBound[n]
    BY DEF MgIInv, MgTypes, OnRecord
  <2>2. Gated(t)'
    BY <1>1, <1>3, <2>1, SMT DEF Gated, Busy, MgIInv, MgTypes
  <2> QED BY <1>1, <1>3, <2>2, RunPreserves
<1>4. CASE /\ \/ kvdev_rados_nkvx_wasm_module_cached(mgBinding[n])
              \/ mgStored[n] # MgNoCode /\ nkvx_wasm_verify(mgStored[n], mgBinding[n])
           /\ mgRun' = [mgRun EXCEPT ![t] =
                 [pc |-> "gated", name |-> n, sha256 |-> mgBinding[n],
                  bytes |-> IF kvdev_rados_nkvx_wasm_module_cached(mgBinding[n]) THEN MgNoCode
                            ELSE mgStored[n]]]
           /\ mgRan' = MgNone /\ UNCHANGED mgWarm
  BY <1>3, <1>4 DEF nkvx_wasm_verify
<1> QED BY <1>2, <1>4 DEF nkvx_run_wasm

LEMMA CompileJobPreserves ==
    ASSUME MgIInv, NEW t \in MgThread, NEW n \in MgName, nkvx_compile_job(t, n)
    PROVE  MgIInv'
<1> USE DEF nkvx_compile_job
<1>1. mgBinding[n] \in MgCode /\ mgBinding[n] \in mgBound[n] /\ mgStored[n] = mgBinding[n]
  BY DEF MgIInv, MgTypes, OnRecord, nkvx_wasm_verify
<1>2. Gated(t)'
  BY <1>1 DEF Gated, Busy, MgIInv, MgTypes
<1> QED BY <1>2, RunPreserves DEF MgIInv, MgTypes

LEMMA ModulePreserves ==
    ASSUME MgIInv, NEW t \in MgThread, nkvx_run_on_object_locked_Module(t)
    PROVE  MgIInv'
<1> DEFINE hits == nkvx_modcache_lookup(mgRun[t].sha256)
           warm == mgWarm[mgRun[t].name]
<1>1. /\ mgRun[t].pc = "gated"
      /\ UNCHANGED <<mgBinding, mgBound, mgStored>>
  BY DEF nkvx_run_on_object_locked_Module
<1>2. /\ mgRun[t] \in Busy
      /\ mgRun[t].sha256 \in mgBound[mgRun[t].name]
      /\ mgRun[t].name \in MgName
      /\ mgRun[t].bytes \in {MgNoCode, mgRun[t].sha256}
  BY <1>1, SMT DEF MgIInv, Gated, MgIdle, Busy
<1>3. g_modcache \in Seq(MgEntry) /\ OneArtifact(g_modcache)
  BY DEF MgIInv, MgTypes
<1>4. \A i \in hits : i \in DOMAIN g_modcache /\ g_modcache[i].serialized = mgRun[t].sha256
  BY <1>3 DEF nkvx_modcache_lookup, OneArtifact
<1>5. \A i \in hits : TouchedEntry(i) \in Seq(MgEntry) /\ OneArtifact(TouchedEntry(i))
  BY <1>3, <1>4, TouchKeepsArtifacts, SMT
<1>6. CASE warm # MgNoCode /\ Enter(t, warm, TRUE) /\ UNCHANGED g_modcache
  <2>1. warm \in mgBound[mgRun[t].name]
    BY <1>2, <1>6 DEF MgIInv, OnRecord
  <2> HIDE DEF warm
  <2> QED BY <1>1, <1>2, <1>3, <1>6, <2>1, EnterPreserves
<1>7. ASSUME NEW i \in hits, g_modcache' = TouchedEntry(i),
             Enter(t, g_modcache[i].serialized, FALSE)
      PROVE  MgIInv'
  <2>1. g_modcache[i].serialized = mgRun[t].sha256
    BY <1>4
  <2> QED BY <1>1, <1>2, <1>5, <1>7, <2>1, EnterPreserves
<1>8. CASE /\ mgRun[t].bytes # MgNoCode
           /\ mgRun' = [mgRun EXCEPT ![t] = [mgRun[t] EXCEPT !.pc = "compile"]]
           /\ UNCHANGED <<g_modcache, mgWarm, mgRan>>
  <2>1. Gated(t)'
    BY <1>1, <1>2, <1>8 DEF Gated, Busy, MgIInv, MgTypes
  <2> QED BY <1>1, <1>3, <1>8, <2>1, RunPreserves
<1>9. CASE /\ Fail(t)
           /\ g_modcache' \in {g_modcache} \cup
                 {TouchedEntry(i) : i \in IF warm = MgNoCode THEN hits ELSE {}}
  <2>1. Gated(t)'
    BY <1>9 DEF Fail, Gated, MgIInv, MgTypes
  <2>2. g_modcache' \in Seq(MgEntry) /\ OneArtifact(g_modcache')
    BY <1>3, <1>5, <1>9
  <2> QED BY <1>1, <1>9, <2>1, <2>2, RunPreserves DEF Fail
<1> QED BY <1>6, <1>7, <1>8, <1>9 DEF nkvx_run_on_object_locked_Module

LEMMA InsertPreserves ==
    ASSUME MgIInv, NEW t \in MgThread, kvdev_rados_nkvx_wasm_module_insert(t)
    PROVE  MgIInv'
<1>1. /\ mgRun[t].pc \in {"compile", "job"}
      /\ UNCHANGED <<mgBinding, mgBound, mgStored>>
  BY DEF kvdev_rados_nkvx_wasm_module_insert
<1>2. /\ mgRun[t] \in Busy
      /\ mgRun[t].sha256 \in mgBound[mgRun[t].name]
      /\ mgRun[t].bytes = mgRun[t].sha256
  BY <1>1, SMT DEF MgIInv, Gated, MgIdle
<1>3. g_modcache \in Seq(MgEntry) /\ OneArtifact(g_modcache)
  BY DEF MgIInv, MgTypes
<1>4. CASE Fail(t) /\ UNCHANGED g_modcache
  <2>1. Gated(t)'
    BY <1>4 DEF Fail, Gated, MgIInv, MgTypes
  <2> QED BY <1>1, <1>3, <1>4, <2>1, RunPreserves DEF Fail
<1>5. ASSUME mgRun' = AfterInsert(t), UNCHANGED <<mgRan, mgWarm>>,
             g_modcache' \in Seq(MgEntry), OneArtifact(g_modcache')
      PROVE  MgIInv'
  <2> DEFINE r == IF mgRun[t].pc = "job" THEN MgIdle ELSE [mgRun[t] EXCEPT !.pc = "obtain"]
  <2>1. mgRun' = [mgRun EXCEPT ![t] = r]
    BY <1>5 DEF AfterInsert
  <2>2. Gated(t)'
    <3>1. mgRun'[t] = r
      BY <2>1 DEF MgIInv, MgTypes
    <3> QED BY <1>1, <1>2, <3>1, SMT DEF Gated, Busy
  <2> HIDE DEF r
  <2> QED BY <1>1, <1>5, <2>1, <2>2, RunPreserves
<1>6. CASE /\ ~ kvdev_rados_nkvx_wasm_module_cached(mgRun[t].sha256)
           /\ g_modcache' = nkvx_modcache_enforce_caps(
                 Append(g_modcache, [sha256 |-> mgRun[t].sha256, serialized |-> mgRun[t].bytes]))
           /\ mgRun' = AfterInsert(t)
           /\ UNCHANGED <<mgRan, mgWarm>>
  <2> DEFINE s == Append(g_modcache, [sha256 |-> mgRun[t].sha256,
                                      serialized |-> mgRun[t].sha256])
  <2>1. \A i \in DOMAIN g_modcache : g_modcache[i].sha256 # mgRun[t].sha256
    BY <1>6 DEF kvdev_rados_nkvx_wasm_module_cached, nkvx_modcache_lookup
  <2>2. mgRun[t].sha256 \in MgCode
    BY <1>2 DEF Busy
  <2>3. s \in Seq(MgEntry) /\ OneArtifact(s)
    BY <1>3, <2>1, <2>2, AppendKeepsArtifacts
  <2>4. g_modcache' = nkvx_modcache_enforce_caps(s)
    BY <1>2, <1>6
  <2> HIDE DEF s
  <2>5. g_modcache' \in Seq(MgEntry) /\ OneArtifact(g_modcache')
    BY <2>3, <2>4, CapsKeepArtifacts
  <2> QED BY <1>5, <1>6, <2>5
<1>7. CASE mgRun' = AfterInsert(t) /\ UNCHANGED <<g_modcache, mgRan, mgWarm>>
  BY <1>3, <1>5, <1>7
<1> QED BY <1>4, <1>6, <1>7 DEF kvdev_rados_nkvx_wasm_module_insert

LEMMA ObtainPreserves ==
    ASSUME MgIInv, NEW t \in MgThread, nkvx_module_obtain(t)
    PROVE  MgIInv'
<1>1. /\ mgRun[t].pc = "obtain"
      /\ UNCHANGED <<g_modcache, mgBinding, mgBound, mgStored>>
  BY DEF nkvx_module_obtain
<1>2. mgRun[t] \in Busy /\ mgRun[t].sha256 \in mgBound[mgRun[t].name]
  BY <1>1, SMT DEF MgIInv, Gated, MgIdle
<1>3. g_modcache' \in Seq(MgEntry) /\ OneArtifact(g_modcache')
  BY <1>1 DEF MgIInv, MgTypes
<1>4. CASE Fail(t)
  <2>1. Gated(t)'
    BY <1>4 DEF Fail, Gated, MgIInv, MgTypes
  <2> QED BY <1>1, <1>3, <1>4, <2>1, RunPreserves DEF Fail
<1>5. ASSUME NEW i \in nkvx_modcache_lookup(mgRun[t].sha256),
             Enter(t, g_modcache[i].serialized, FALSE)
      PROVE  MgIInv'
  <2>1. g_modcache[i].serialized = mgRun[t].sha256
    BY DEF MgIInv, OneArtifact, nkvx_modcache_lookup
  <2> QED BY <1>1, <1>2, <1>3, <1>5, <2>1, EnterPreserves
<1> QED BY <1>4, <1>5 DEF nkvx_module_obtain

\* A step of no thread keeps every thread's gate, as long as bindings are only added.
LEMMA OthersPreserve ==
    ASSUME MgIInv, UNCHANGED <<mgRun, mgRan>>, MgTypes', OneArtifact(g_modcache'), OnRecord',
           \A n \in MgName : mgBound[n] \subseteq mgBound'[n]
    PROVE  MgIInv'
<1>1. ASSUME NEW t \in MgThread PROVE Gated(t)'
  BY GatedElsewhere DEF MgIInv
<1>2. MgEntersBoundCode'
  BY DEF MgIInv, MgTypes, MgEntersBoundCode
<1> QED BY <1>1, <1>2 DEF MgIInv

LEMMA MgStep == MgIInv /\ [MgNext]_mgVars => MgIInv'
<1> SUFFICES ASSUME MgIInv, [MgNext]_mgVars PROVE MgIInv'
  OBVIOUS
<1>1. ASSUME NEW t \in MgThread, NEW n \in MgName, nkvx_run_wasm(t, n) \/ nkvx_compile_job(t, n)
      PROVE  MgIInv'
  BY <1>1, RunWasmPreserves, CompileJobPreserves
<1>2. ASSUME NEW t \in MgThread,
             \/ nkvx_run_on_object_locked_Module(t)
             \/ kvdev_rados_nkvx_wasm_module_insert(t)
             \/ nkvx_module_obtain(t)
      PROVE  MgIInv'
  BY <1>2, ModulePreserves, InsertPreserves, ObtainPreserves, SMT
<1>3. CASE kvdev_rados_nkvx_wasm_module_cache_reset
  <2>1. g_modcache' = <<>>
    BY <1>3 DEF kvdev_rados_nkvx_wasm_module_cache_reset
  <2>2. MgTypes' /\ OneArtifact(g_modcache') /\ OnRecord'
    BY <1>3, <2>1, SMT
    DEF kvdev_rados_nkvx_wasm_module_cache_reset, MgIInv, MgTypes, OneArtifact, OnRecord
  <2> QED BY <1>3, <2>2, OthersPreserve DEF kvdev_rados_nkvx_wasm_module_cache_reset
<1>4. ASSUME NEW n \in MgName, MgWarmDrop(n) PROVE MgIInv'
  <2>1. MgTypes' /\ OnRecord'
    BY <1>4, SMT DEF MgWarmDrop, MgIInv, MgTypes, OnRecord
  <2> QED BY <1>4, <2>1, OthersPreserve DEF MgWarmDrop, MgIInv
<1>5. ASSUME NEW n \in MgName, NEW k \in MgCode, MgBind(n, k) PROVE MgIInv'
  <2>1. MgTypes' /\ OnRecord' /\ \A m \in MgName : mgBound[m] \subseteq mgBound'[m]
    BY <1>5 DEF MgBind, MgIInv, MgTypes, OnRecord
  <2> QED BY <1>5, <2>1, OthersPreserve DEF MgBind, MgIInv
<1>6. ASSUME NEW n \in MgName, NEW k \in MgCode \cup {MgNoCode}, MgOverwrite(n, k) PROVE MgIInv'
  <2>1. MgTypes' /\ OnRecord'
    BY <1>6 DEF MgOverwrite, MgIInv, MgTypes, OnRecord
  <2> QED BY <1>6, <2>1, OthersPreserve DEF MgOverwrite, MgIInv
<1>7. CASE UNCHANGED mgVars
  <2>1. MgTypes' /\ OnRecord'
    BY <1>7 DEF mgVars, MgIInv, MgTypes, OnRecord
  <2> QED BY <1>7, <2>1, OthersPreserve DEF mgVars, MgIInv
<1> QED BY <1>1, <1>2, <1>3, <1>4, <1>5, <1>6, <1>7 DEF MgNext

--------------------------------------------------------------------------------
\* For any threads, names, codes and caps: an Exec enters the code of the hash its name is
\* bound to, or on a warm hit one its name was bound to before, whatever is stored under the
\* name and however compiles, evictions and resets interleave (nkvx_run_wasm to
\* nkvx_module_obtain).
THEOREM OnlyBoundCodeRuns == MgSpec => []MgEntersBoundCode
<1>1. MgIInv => MgEntersBoundCode
  BY DEF MgIInv
<1> QED BY <1>1, MgInitial, MgStep, PTL DEF MgSpec

\* The cache holds one artifact per hash, compiled from bytes of that hash, although compiles
\* race outside g_modcache.mutex (kvdev_rados_nkvx_wasm_module_insert).
THEOREM ArtifactsAreUnique == MgSpec => []OneArtifact(g_modcache)
<1>1. MgIInv => OneArtifact(g_modcache)
  BY DEF MgIInv
<1> QED BY <1>1, MgInitial, MgStep, PTL DEF MgSpec

--------------------------------------------------------------------------------
(**********************************************************************************)
(* The bytes of the cache.  Bytes is a sum from the head; f is such a sum of s.   *)
(**********************************************************************************)
MgSum(s, f) ==
    /\ f \in [0..Len(s) -> Int]
    /\ f[0] = 0
    /\ \A i \in 1..Len(s) : f[i] = f[i - 1] + MgSize[s[i].serialized]

LEMMA MgSumRuns ==
    ASSUME NEW s \in Seq(MgEntry)
    PROVE  \E f : MgSum(s, f) /\ Bytes(s) = f[Len(s)]
<1> DEFINE z(i) == MgSize[s[i].serialized]
           n == Len(s)
           Run(f, m) == f = [i \in 0..m |-> IF i = 0 THEN 0 ELSE f[i - 1] + z(i)]
           P == {m \in Nat : \E f : Run(f, m)}
<1>0. n \in Nat /\ \A i \in 1..n : z(i) \in Int
  <2>1. \A i \in 1..n : s[i] \in MgEntry
    BY SMT
  <2> QED BY <2>1, MgAssumption, SMT DEF MgEntry
<1> HIDE DEF z
<1>1. 0 \in P
  <2>1. Run([i \in 0..0 |-> 0], 0)
    BY SMT
  <2> QED BY <2>1
<1>2. ASSUME NEW m \in Nat, m \in P PROVE m + 1 \in P
  <2>1. PICK f : Run(f, m)
    BY <1>2
  <2> DEFINE next == f[m] + z(m + 1)
             g == [i \in 0..(m + 1) |-> IF i = m + 1 THEN next ELSE f[i]]
  <2>2. \A i \in 0..m : f[i] = IF i = 0 THEN 0 ELSE f[i - 1] + z(i)
    BY <2>1
  <2>3. \A i \in 0..m : g[i] = f[i]
    BY SMT
  <2>4. \A i \in 0..(m + 1) : g[i] = IF i = 0 THEN 0 ELSE g[i - 1] + z(i)
    <3> SUFFICES ASSUME NEW i \in 0..(m + 1) PROVE g[i] = IF i = 0 THEN 0 ELSE g[i - 1] + z(i)
      OBVIOUS
    <3>1. CASE i = m + 1
      <4>1. m \in 0..m /\ m + 1 # 0 /\ i - 1 = m
        BY <3>1, SMT
      <4> QED BY <2>3, <3>1, <4>1, SMT
    <3>2. CASE i # m + 1
      <4>1. i \in 0..m /\ (i # 0 => i - 1 \in 0..m)
        BY <3>2, SMT
      <4> QED BY <4>1, <2>2, <2>3
    <3> QED BY <3>1, <3>2
  <2>5. Run(g, m + 1)
    BY <2>4
  <2>6. \E f1 : Run(f1, m + 1)
    <3> HIDE DEF Run, g
    <3> QED BY <2>5
  <2> QED BY <2>6, SMT
<1>3. \A m \in Nat : m \in P
  <2> HIDE DEF P
  <2> QED BY <1>1, <1>2, MgInduction
<1>4. \E f : Run(f, n)
  <2> HIDE DEF Run
  <2> QED BY <1>0, <1>3
<1> DEFINE c == CHOOSE f : Run(f, n)
<1>5. Run(c, n)
  BY <1>4
<1>6. Bytes(s) = c[n]
  BY DEF Bytes, z
<1> HIDE DEF c
<1>7. DOMAIN c = 0..n /\ \A i \in 0..n : c[i] = IF i = 0 THEN 0 ELSE c[i - 1] + z(i)
  BY <1>5
<1>8. \A m \in Nat : m \in 0..n => c[m] \in Int
  <2> DEFINE Q == {m \in Nat : m \in 0..n => c[m] \in Int}
  <2>1. 0 \in Q
    BY <1>0, <1>7, SMT
  <2>2. ASSUME NEW m \in Nat, m \in Q PROVE m + 1 \in Q
    <3> SUFFICES ASSUME m + 1 \in 0..n PROVE c[m + 1] \in Int
      BY SMT
    <3>1. m \in 0..n /\ m + 1 \in 1..n /\ m + 1 # 0 /\ (m + 1) - 1 = m
      BY <1>0, SMT
    <3>2. c[m + 1] = c[m] + z(m + 1) /\ c[m] \in Int /\ z(m + 1) \in Int
      BY <1>0, <1>7, <2>2, <3>1
    <3> QED BY <3>2, SMT
  <2> HIDE DEF Q
  <2>3. \A m \in Nat : m \in Q
    BY <2>1, <2>2, MgInduction
  <2> QED BY <2>3 DEF Q
<1>9. MgSum(s, c)
  <2>1. c \in [0..n -> Int]
    <3>1. \A i \in 0..n : c[i] \in Int
      BY <1>0, <1>8, SMT
    <3>2. c = [i \in 0..n |-> c[i]]
      BY <1>5
    <3> QED BY <3>1, <3>2, SMT
  <2>2. c[0] = 0
    BY <1>0, <1>7, SMT
  <2>3. \A i \in 1..n : c[i] = c[i - 1] + z(i)
    BY <1>0, <1>7, SMT
  <2> QED BY <2>1, <2>2, <2>3 DEF MgSum, z
<1> QED BY <1>6, <1>9

\* Two sums of one cache agree.
LEMMA MgSumsAgree ==
    ASSUME NEW s, Len(s) \in Nat, NEW f, NEW g, MgSum(s, f), MgSum(s, g)
    PROVE  f[Len(s)] = g[Len(s)]
<1> DEFINE P == {m \in Nat : m \in 0..Len(s) => f[m] = g[m]}
<1>1. 0 \in P
  BY DEF MgSum
<1>2. ASSUME NEW m \in Nat, m \in P PROVE m + 1 \in P
  <2> SUFFICES ASSUME m + 1 \in 0..Len(s) PROVE f[m + 1] = g[m + 1]
    BY SMT
  <2>1. m \in 0..Len(s) /\ m + 1 \in 1..Len(s) /\ (m + 1) - 1 = m
    BY SMT
  <2>2. f[m] = g[m]
    BY <1>2, <2>1
  <2>3. /\ f[m + 1] = f[m] + MgSize[s[m + 1].serialized]
        /\ g[m + 1] = g[m] + MgSize[s[m + 1].serialized]
    BY <2>1 DEF MgSum
  <2> QED BY <2>2, <2>3
<1>3. \A m \in Nat : m \in P
  <2> HIDE DEF P
  <2> QED BY <1>1, <1>2, MgInduction
<1> QED BY <1>3, SMT

\* Moving an entry to the tail leaves the length and the bytes as they were.
LEMMA TouchKeepsBytes ==
    ASSUME g_modcache \in Seq(MgEntry), OneArtifact(g_modcache), NEW i \in DOMAIN g_modcache
    PROVE  Len(TouchedEntry(i)) = Len(g_modcache) /\ Bytes(TouchedEntry(i)) = Bytes(g_modcache)
<1> DEFINE n == Len(g_modcache)
           t == TouchedEntry(i)
           z(j) == MgSize[g_modcache[j].serialized]
           at(j) == IF j = n THEN i ELSE IF j < i THEN j ELSE j + 1
           rest == [j \in 1..(n - 1) |-> g_modcache[IF j < i THEN j ELSE j + 1]]
<1>1. n \in Nat /\ i \in 1..n /\ \A j \in 1..n : g_modcache[j] \in MgEntry
  BY SMT
<1>2. \A j \in 1..n : z(j) \in Int
  BY <1>1, MgAssumption, SMT DEF MgEntry
<1>3. t \in Seq(MgEntry)
  BY TouchKeepsArtifacts
<1>4. Len(t) = n /\ \A j \in 1..n : t[j] = g_modcache[at(j)]
  <2>1. \A j \in 1..(n - 1) : (IF j < i THEN j ELSE j + 1) \in 1..n
    BY <1>1, SMT
  <2>2. rest \in Seq(MgEntry) /\ Len(rest) = n - 1
    BY <1>1, <2>1, SMT
  <2>3. t = Append(rest, g_modcache[i])
    BY DEF TouchedEntry
  <2>4. \A j \in 1..(n - 1) : rest[j] = g_modcache[IF j < i THEN j ELSE j + 1]
    OBVIOUS
  <2> HIDE DEF rest, t, n
  <2>5. Len(t) = n /\ \A j \in 1..n : t[j] = IF j = n THEN g_modcache[i] ELSE rest[j]
    BY <1>1, <2>2, <2>3, SMT
  <2> QED BY <1>1, <2>4, <2>5, SMT
<1>5. PICK f : MgSum(g_modcache, f) /\ Bytes(g_modcache) = f[n]
  BY MgSumRuns
<1>6. PICK g : MgSum(t, g) /\ Bytes(t) = g[Len(t)]
  BY <1>3, MgSumRuns
<1> DEFINE h == [j \in 0..n |-> IF j < i \/ j = n THEN f[j] ELSE f[j + 1] - z(i)]
<1>7. f \in [0..n -> Int] /\ f[0] = 0 /\ \A j \in 1..n : f[j] = f[j - 1] + z(j)
  BY <1>5 DEF MgSum
<1> HIDE DEF n, z, t
<1>8. ASSUME NEW j \in 0..n PROVE h[j] \in Int
  <2>1. f[j] \in Int /\ z(i) \in Int
    BY <1>1, <1>2, <1>7
  <2>2. CASE j < i \/ j = n
    BY <2>1, <2>2
  <2>3. CASE ~ (j < i \/ j = n)
    <3>1. j + 1 \in 0..n
      BY <1>1, <2>3, SMT
    <3>2. f[j + 1] \in Int /\ h[j] = f[j + 1] - z(i)
      BY <1>7, <2>3, <3>1
    <3> HIDE DEF h
    <3> QED BY <2>1, <3>2, SMT
  <2> QED BY <2>2, <2>3
<1>9. h \in [0..n -> Int] /\ h[0] = 0
  BY <1>1, <1>7, <1>8, SMT
<1>10. ASSUME NEW j \in 1..n PROVE h[j] = h[j - 1] + z(at(j))
  <2>0. j \in 0..n /\ j - 1 \in 0..n /\ z(i) \in Int
    BY <1>1, <1>2, SMT
  <2>1. CASE j < i
    <3>1. h[j] = f[j] /\ h[j - 1] = f[j - 1] /\ at(j) = j
      BY <1>1, <2>0, <2>1, SMT
    <3> HIDE DEF h, at
    <3> QED BY <1>7, <3>1
  <2>2. CASE j >= i /\ j < n
    <3>1. h[j] = f[j + 1] - z(i) /\ j + 1 \in 1..n /\ (j + 1) - 1 = j /\ at(j) = j + 1
      BY <1>1, <2>0, <2>2, SMT
    <3>2. f[j + 1] = f[j] + z(j + 1) /\ f[j] = f[j - 1] + z(j)
      BY <1>7, <3>1
    <3>3. /\ f[j + 1] \in Int /\ f[j] \in Int /\ f[j - 1] \in Int /\ z(j) \in Int /\ z(j + 1) \in Int
      BY <1>1, <1>2, <1>7, <2>0, <3>1, SMT
    <3>4. CASE j = i
      <4>1. h[j - 1] = f[j - 1]
        BY <1>1, <2>0, <3>4, SMT
      <4> HIDE DEF h, at
      <4>2. z(i) = z(j) /\ z(at(j)) = z(j + 1)
        BY <3>1, <3>4
      <4>3. h[j] = ((f[j - 1] + z(j)) + z(j + 1)) - z(j)
        BY <3>1, <3>2, <4>2
      <4>4. ((f[j - 1] + z(j)) + z(j + 1)) - z(j) = f[j - 1] + z(j + 1)
        BY <3>3, TakenOut
      <4> QED BY <4>1, <4>2, <4>3, <4>4
    <3>5. CASE j # i
      <4>1. h[j - 1] = f[j] - z(i)
        BY <1>1, <2>0, <2>2, <3>5, SMT
      <4> HIDE DEF h, at
      <4>2. h[j] = (f[j] + z(j + 1)) - z(i) /\ h[j - 1] + z(at(j)) = (f[j] - z(i)) + z(j + 1)
        BY <3>1, <3>2, <4>1
      <4>3. (f[j] + z(j + 1)) - z(i) = (f[j] - z(i)) + z(j + 1)
        BY <2>0, <3>3, TakenOutFirst
      <4> QED BY <4>2, <4>3
    <3> QED BY <3>4, <3>5
  <2>3. CASE j = n
    <3>1. h[j] = f[n] /\ at(j) = i /\ f[n] = f[n - 1] + z(n) /\ f[n] \in Int /\ f[n - 1] \in Int /\ z(n) \in Int
      BY <1>1, <1>2, <1>7, <2>0, <2>3
    <3>2. CASE i = n
      <4>1. h[j - 1] = f[n - 1]
        BY <1>1, <2>0, <2>3, <3>2, SMT
      <4> HIDE DEF h, at
      <4> QED BY <3>1, <3>2, <4>1
    <3>3. CASE i # n
      <4>1. h[j - 1] = f[n] - z(i)
        BY <1>1, <2>0, <2>3, <3>3, SMT
      <4> HIDE DEF h, at
      <4> QED BY <2>0, <3>1, <4>1, SMT
    <3> QED BY <3>2, <3>3
  <2> QED BY <1>1, <2>1, <2>2, <2>3, SMT
<1>11. h[n] = f[n]
  BY <1>1, SMT
<1> HIDE DEF h
<1>12. MgSum(t, h)
  <2>1. \A j \in 1..n : MgSize[t[j].serialized] = z(at(j))
    BY <1>4 DEF z
  <2> HIDE DEF at
  <2> QED BY <1>4, <1>9, <1>10, <2>1 DEF MgSum
<1>13. g[n] = h[n]
  BY <1>1, <1>4, <1>6, <1>12, MgSumsAgree
<1> QED BY <1>4, <1>5, <1>6, <1>11, <1>13 DEF n, t

\* The empty cache fits, and so does what the caps leave.
LEMMA EmptyFits == Fits(<<>>)
<1>1. <<>> \in Seq(MgEntry) /\ Len(<<>>) = 0
  BY SMT
<1>2. PICK f : MgSum(<<>>, f) /\ Bytes(<<>>) = f[Len(<<>>)]
  BY <1>1, MgSumRuns
<1>3. Bytes(<<>>) = 0
  BY <1>1, <1>2 DEF MgSum
<1> QED BY <1>1, <1>3, MgAssumption, SMT DEF Fits

LEMMA CapsFit == ASSUME NEW s \in Seq(MgEntry) PROVE Fits(nkvx_modcache_enforce_caps(s))
<1>1. PICK k \in 1..(Len(s) + 1) : /\ nkvx_modcache_enforce_caps(s) = SubSeq(s, k, Len(s))
                                   /\ k <= Len(s) => Fits(SubSeq(s, k, Len(s)))
  BY CapsLeaveSuffix
<1>2. CASE k <= Len(s)
  BY <1>1, <1>2
<1>3. CASE k = Len(s) + 1
  <2>1. SubSeq(s, k, Len(s)) = <<>>
    BY <1>3, SMT
  <2> QED BY <1>1, <2>1, EmptyFits
<1>4. k <= Len(s) \/ k = Len(s) + 1
  BY SMT
<1> QED BY <1>2, <1>3, <1>4

\* How a step changes the cache.
LEMMA MgCacheStep ==
    ASSUME MgIInv, [MgNext]_mgVars
    PROVE  \/ g_modcache' = g_modcache \/ g_modcache' = <<>>
           \/ \E i \in DOMAIN g_modcache : g_modcache' = TouchedEntry(i)
           \/ \E s \in Seq(MgEntry) : g_modcache' = nkvx_modcache_enforce_caps(s)
<1>1. ASSUME NEW t \in MgThread, NEW n \in MgName, nkvx_run_wasm(t, n) \/ nkvx_compile_job(t, n)
      PROVE  g_modcache' = g_modcache
  BY <1>1 DEF nkvx_run_wasm, nkvx_compile_job
<1>2. ASSUME NEW t \in MgThread, nkvx_run_on_object_locked_Module(t)
      PROVE  g_modcache' = g_modcache \/ \E i \in DOMAIN g_modcache : g_modcache' = TouchedEntry(i)
  <2> DEFINE hits == nkvx_modcache_lookup(mgRun[t].sha256)
             warm == mgWarm[mgRun[t].name]
  <2>1. \/ g_modcache' = g_modcache
        \/ \E i \in hits : g_modcache' = TouchedEntry(i)
        \/ g_modcache' \in {g_modcache} \cup {TouchedEntry(i) : i \in IF warm = MgNoCode THEN hits ELSE {}}
    BY <1>2 DEF nkvx_run_on_object_locked_Module
  <2>2. hits \subseteq DOMAIN g_modcache
    BY DEF nkvx_modcache_lookup
  <2> HIDE DEF hits
  <2> QED BY <2>1, <2>2
<1>3. ASSUME NEW t \in MgThread, kvdev_rados_nkvx_wasm_module_insert(t)
      PROVE  g_modcache' = g_modcache \/ \E s \in Seq(MgEntry) : g_modcache' = nkvx_modcache_enforce_caps(s)
  <2> DEFINE e == [sha256 |-> mgRun[t].sha256, serialized |-> mgRun[t].bytes]
  <2>1. mgRun[t].pc \in {"compile", "job"}
    BY <1>3 DEF kvdev_rados_nkvx_wasm_module_insert
  <2>2. mgRun[t] \in Busy /\ mgRun[t].bytes = mgRun[t].sha256
    BY <2>1, SMT DEF MgIInv, Gated, MgIdle
  <2>3. e \in MgEntry
    BY <2>2 DEF Busy, MgEntry
  <2>4. g_modcache' = g_modcache \/ g_modcache' = nkvx_modcache_enforce_caps(Append(g_modcache, e))
    BY <1>3 DEF kvdev_rados_nkvx_wasm_module_insert
  <2> HIDE DEF e
  <2>5. Append(g_modcache, e) \in Seq(MgEntry)
    BY <2>3, SMT DEF MgIInv, MgTypes
  <2> QED BY <2>4, <2>5
<1>4. ASSUME NEW t \in MgThread, nkvx_module_obtain(t) PROVE g_modcache' = g_modcache
  BY <1>4 DEF nkvx_module_obtain
<1>5. ASSUME kvdev_rados_nkvx_wasm_module_cache_reset PROVE g_modcache' = <<>>
  BY <1>5 DEF kvdev_rados_nkvx_wasm_module_cache_reset
<1>6. ASSUME NEW n \in MgName, NEW k, MgWarmDrop(n) \/ MgBind(n, k) \/ MgOverwrite(n, k)
      PROVE  g_modcache' = g_modcache
  BY <1>6 DEF MgWarmDrop, MgBind, MgOverwrite
<1>7. UNCHANGED mgVars => g_modcache' = g_modcache
  BY DEF mgVars
<1> QED BY <1>1, <1>2, <1>3, <1>4, <1>5, <1>6, <1>7 DEF MgNext

\* The rest of the types.
MgPlaces ==
    /\ mgStored \in [MgName -> MgCode \cup {MgNoCode}]
    /\ mgMutex \in MgThread \cup {Free}

LEMMA MgPlacesStep == ASSUME MgPlaces, [MgNext]_mgVars PROVE MgPlaces'
<1>1. mgMutex' \in MgThread \cup {Free}
  <2>1. ASSUME NEW t \in MgThread, NEW n \in MgName, nkvx_run_wasm(t, n) \/ nkvx_compile_job(t, n)
        PROVE  mgMutex' = mgMutex
    BY <2>1 DEF nkvx_run_wasm, nkvx_compile_job
  <2>2. ASSUME NEW t \in MgThread, nkvx_run_on_object_locked_Module(t)
        PROVE  mgMutex' \in {mgMutex, t, Free}
    BY <2>2 DEF nkvx_run_on_object_locked_Module, Enter
  <2>3. ASSUME NEW t \in MgThread, kvdev_rados_nkvx_wasm_module_insert(t)
        PROVE  mgMutex' \in {mgMutex, Free}
    BY <2>3 DEF kvdev_rados_nkvx_wasm_module_insert
  <2>4. ASSUME NEW t \in MgThread, nkvx_module_obtain(t) PROVE mgMutex' = Free
    BY <2>4 DEF nkvx_module_obtain, Enter
  <2>5. ASSUME NEW n \in MgName, NEW k, MgWarmDrop(n) \/ MgBind(n, k) \/ MgOverwrite(n, k)
        PROVE  mgMutex' = mgMutex
    BY <2>5 DEF MgWarmDrop, MgBind, MgOverwrite
  <2>6. kvdev_rados_nkvx_wasm_module_cache_reset \/ UNCHANGED mgVars => mgMutex' = mgMutex
    BY DEF kvdev_rados_nkvx_wasm_module_cache_reset, mgVars
  <2> QED BY <2>1, <2>2, <2>3, <2>4, <2>5, <2>6 DEF MgNext, MgPlaces
<1>2. mgStored' \in [MgName -> MgCode \cup {MgNoCode}]
  <2>1. ASSUME NEW t \in MgThread, NEW n \in MgName, nkvx_run_wasm(t, n) \/ nkvx_compile_job(t, n)
        PROVE  mgStored' = mgStored
    BY <2>1 DEF nkvx_run_wasm, nkvx_compile_job
  <2>2. ASSUME NEW t \in MgThread, \/ nkvx_run_on_object_locked_Module(t)
                                  \/ kvdev_rados_nkvx_wasm_module_insert(t)
                                  \/ nkvx_module_obtain(t)
        PROVE  mgStored' = mgStored
    BY <2>2
    DEF nkvx_run_on_object_locked_Module, kvdev_rados_nkvx_wasm_module_insert, nkvx_module_obtain
  <2>3. ASSUME NEW n \in MgName, NEW k, MgWarmDrop(n) \/ MgBind(n, k) PROVE mgStored' = mgStored
    BY <2>3 DEF MgWarmDrop, MgBind
  <2>4. ASSUME NEW n \in MgName, NEW k \in MgCode \cup {MgNoCode}, MgOverwrite(n, k)
        PROVE  mgStored' \in [MgName -> MgCode \cup {MgNoCode}]
    BY <2>4 DEF MgOverwrite, MgPlaces
  <2>5. kvdev_rados_nkvx_wasm_module_cache_reset \/ UNCHANGED mgVars => mgStored' = mgStored
    BY DEF kvdev_rados_nkvx_wasm_module_cache_reset, mgVars
  <2> QED BY <2>1, <2>2, <2>3, <2>4, <2>5 DEF MgNext, MgPlaces
<1> QED BY <1>1, <1>2 DEF MgPlaces

(**********************************************************************************)
(* The compiled-module cache is coherent for any threads, names, codes, sizes and *)
(* caps: one artifact per hash, compiled from bytes of that hash, and both caps   *)
(* hold whenever a step is over, although compiles race outside g_modcache.mutex. *)
(**********************************************************************************)
THEOREM ModuleCacheCoherent == MgSpec => []MgCacheCoherent
<1> DEFINE Inv == MgIInv /\ MgPlaces /\ Fits(g_modcache)
<1>1. MgInit => Inv
  <2> SUFFICES ASSUME MgInit PROVE MgPlaces /\ Fits(g_modcache)
    BY MgInitial
  <2>1. Fits(g_modcache)
    BY EmptyFits DEF MgInit
  <2>2. MgPlaces
    BY DEF MgInit, MgPlaces
  <2> QED BY <2>1, <2>2
<1>2. ASSUME Inv, [MgNext]_mgVars PROVE Inv'
  <2>1. MgIInv' /\ MgPlaces'
    BY <1>2, MgStep, MgPlacesStep
  <2>2. ASSUME NEW i \in DOMAIN g_modcache, g_modcache' = TouchedEntry(i) PROVE Fits(g_modcache')
    <3>1. Len(g_modcache') = Len(g_modcache) /\ Bytes(g_modcache') = Bytes(g_modcache)
      BY <1>2, <2>2, TouchKeepsBytes DEF MgIInv, MgTypes
    <3> QED BY <1>2, <3>1 DEF Fits
  <2>3. Fits(g_modcache')
    BY <1>2, <2>2, MgCacheStep, EmptyFits, CapsFit
  <2>4. Fits(g_modcache)'
    BY <2>3 DEF Fits, Bytes
  <2> QED BY <2>1, <2>4
<1>3. Inv => MgCacheCoherent
  <2> SUFFICES ASSUME Inv PROVE MgCacheCoherent
    OBVIOUS
  <2>1. \A i \in DOMAIN g_modcache : g_modcache[i] \in [sha256 : MgCode, serialized : MgCode]
    <3>1. g_modcache \in Seq(MgEntry)
      BY DEF MgIInv, MgTypes
    <3>2. \A i \in DOMAIN g_modcache : g_modcache[i] \in MgEntry
      BY <3>1, SMT
    <3> QED BY <3>2 DEF MgEntry
  <2>2. ASSUME NEW t \in MgThread PROVE mgRun[t].pc \in {"idle", "gated", "compile", "job", "obtain"}
    BY SMT DEF MgIInv, Gated, MgIdle, Busy
  <2> QED BY <2>1, <2>2 DEF MgIInv, MgTypes, MgPlaces, MgTypeOK, MgCacheCoherent
<1> QED BY <1>1, <1>2, <1>3, PTL DEF MgSpec
================================================================================
