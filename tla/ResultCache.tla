------------------------------ MODULE ResultCache ------------------------------
(*************************************************************************************)
(* The cross-consumer result cache (target/kvdev_rados_nkvx.c, g_nkvx_result):       *)
(* before an Exec is dispatched its memoized result is looked up, and a result       *)
(* that was computed is inserted when the run completes.  Between the two the        *)
(* object may be overwritten and other consumers may run the same request.           *)
(* The datapath that calls it is outside the repository; it is modelled from         *)
(* the contract in kvdev_rados_nkvx.h.                                               *)
(*                                                                                   *)
(* SHA-256 is modelled as injective: a digest is the sequence it digests.            *)
(*************************************************************************************)
EXTENDS Naturals, Sequences

CONSTANTS
    RcConsumer,  \* reactors with an Exec each
    RcModule,    \* bound modules: a name and its hash, <<>> for a built-in
    RcContent,   \* contents of the object
    RcInput,     \* per-invocation inputs
    RcLen,       \* length of every result
    RcOutLen,    \* lengths of output buffers
    RcMax        \* max_count; 0 is unbounded

ASSUME RcAssumption ==
    /\ RcLen \in Nat /\ RcMax \in Nat /\ RcOutLen \subseteq Nat
    /\ RcModule \subseteq [name : Seq(Nat), sha256 : Seq(Nat)]
    /\ RcInput \subseteq Seq(Nat)

VARIABLES
    rcEntries,  \* g_nkvx_result.entries, least recently used first
    rcObject,   \* the stored object
    rcExec,     \* per consumer, the request in progress
    rcReply     \* the last answer served from the cache

rcVars == <<rcEntries, rcObject, rcExec, rcReply>>

RcRequest == [module : RcModule, object : RcContent, input : RcInput]
RcMinimum(a, b) == IF a < b THEN a ELSE b

\* What running the request gives in a buffer of out_len bytes.
RcComputed(request, out_len) ==
    [status |-> IF RcLen > out_len THEN "BUFFER_TOO_SMALL" ELSE "SUCCESS",
     of |-> request, len |-> RcLen, bytes |-> RcMinimum(RcLen, out_len)]

RcNoReply == [served |-> FALSE]
RcIdle == [state |-> "idle"]

(*************************************************************************************)
(* Types of the entries and of the requests in progress.                             *)
(*************************************************************************************)
RcTypeOK ==
    /\ \A i \in DOMAIN rcEntries :
          /\ rcEntries[i].result.of \in RcRequest
          /\ rcEntries[i].result.bytes <= rcEntries[i].result.len
    /\ rcObject \in RcContent
    /\ \A c \in RcConsumer : rcExec[c].state \in {"idle", "missed"}

RcInit ==
    /\ rcEntries = <<>>
    /\ rcObject \in RcContent
    /\ rcExec = [c \in RcConsumer |-> RcIdle]
    /\ rcReply = RcNoReply

--------------------------------------------------------------------------------
\* nkvx_result_hash_update: one component, behind its length.
nkvx_result_hash_update(field) == <<Len(field)>> \o field

\* The digest of name, marker, hash of a verified module, object content and input.
kvdev_rados_nkvx_result_key_ByModule(request) ==
    LET verified == request.module.sha256 # <<>>
    IN  nkvx_result_hash_update(request.module.name)
        \o nkvx_result_hash_update(<<IF verified THEN 1 ELSE 0>>)
        \o nkvx_result_hash_update(request.input)
kvdev_rados_nkvx_result_key(request) ==
    LET verified == request.module.sha256 # <<>>
    IN  nkvx_result_hash_update(request.module.name)
        \o nkvx_result_hash_update(<<IF verified THEN 1 ELSE 0>>)
        \o (IF verified THEN nkvx_result_hash_update(request.module.sha256) ELSE <<>>)
        \o nkvx_result_hash_update(<<request.object>>)
        \o nkvx_result_hash_update(request.input)

nkvx_result_lookup_locked(key) == {i \in DOMAIN rcEntries : rcEntries[i].key = key}

RcWithout(i) == [j \in 1..(Len(rcEntries) - 1) |-> rcEntries[IF j < i THEN j ELSE j + 1]]
Touched(i) == Append(RcWithout(i), rcEntries[i])

\* Eviction from the head past the cap.
Trimmed(entries) ==
    IF RcMax # 0 /\ Len(entries) > RcMax THEN Tail(entries) ELSE entries

\* kvdev_rados_nkvx_result_lookup: the memoized status and length, and the stored bytes
\* that fit this buffer; or a miss, and the run is dispatched.
kvdev_rados_nkvx_result_lookup(c, request, out_len) ==
    LET hits == nkvx_result_lookup_locked(kvdev_rados_nkvx_result_key(request))
    IN  /\ rcExec[c] = RcIdle
        /\ request.object = rcObject
        /\ IF hits = {}
           THEN /\ rcExec' = [rcExec EXCEPT ![c] = [state |-> "missed", request |-> request,
                                                    out_len |-> out_len]]
                /\ rcReply' = RcNoReply
                /\ UNCHANGED rcEntries
           ELSE \E i \in hits :
                /\ rcEntries' = Touched(i)
                /\ rcReply' = [served |-> TRUE, request |-> request, out_len |-> out_len,
                               result |-> [rcEntries[i].result EXCEPT
                                              !.bytes = RcMinimum(@, out_len)],
                               memo_len |-> rcEntries[i].out_len]
                /\ UNCHANGED rcExec
        /\ UNCHANGED rcObject

\* kvdev_rados_nkvx_result_insert with the outcome of the run: a transient failure is
\* not kept, a duplicate only refreshes its place, and out of memory skips the insert.
kvdev_rados_nkvx_result_insert(c) ==
    LET key == kvdev_rados_nkvx_result_key(rcExec[c].request)
        hits == nkvx_result_lookup_locked(key)
    IN  /\ rcExec[c].state = "missed"
        /\ rcEntries' \in
              {rcEntries} \cup
              (IF hits # {} THEN {Touched(i) : i \in hits}
               ELSE {Trimmed(Append(rcEntries,
                       [key |-> key,
                        result |-> RcComputed(rcExec[c].request, rcExec[c].out_len),
                        out_len |-> rcExec[c].out_len]))})
        /\ rcExec' = [rcExec EXCEPT ![c] = RcIdle]
        /\ rcReply' = RcNoReply
        /\ UNCHANGED rcObject

kvdev_rados_nkvx_result_cache_reset ==
    /\ rcEntries # <<>>
    /\ rcEntries' = <<>>
    /\ rcReply' = RcNoReply
    /\ UNCHANGED <<rcObject, rcExec>>

\* A Store of the object.
RcOverwrite(v) ==
    /\ v # rcObject
    /\ rcObject' = v
    /\ rcReply' = RcNoReply
    /\ UNCHANGED <<rcEntries, rcExec>>

RcNext ==
    \/ \E c \in RcConsumer, request \in RcRequest, out_len \in RcOutLen :
          kvdev_rados_nkvx_result_lookup(c, request, out_len)
    \/ \E c \in RcConsumer : kvdev_rados_nkvx_result_insert(c)
    \/ kvdev_rados_nkvx_result_cache_reset
    \/ \E v \in RcContent : RcOverwrite(v)

RcSpec == RcInit /\ [][RcNext]_rcVars

--------------------------------------------------------------------------------
(*************************************************************************************)
(* A hit is a recomputation: whatever was overwritten or run meanwhile, the          *)
(* served bytes are those of this module, this input and the content stored          *)
(* now, with the true length; with a buffer of the memoized length status and        *)
(* bytes are exactly the recomputed ones.  With another length the memoized          *)
(* status is replayed, so only the reported length tells of a truncation.            *)
(*************************************************************************************)
RcHitIsRecomputation ==
    rcReply.served =>
        LET fresh == RcComputed(rcReply.request, rcReply.out_len)
        IN  /\ rcReply.request.object = rcObject
            /\ rcReply.result.of = fresh.of /\ rcReply.result.len = fresh.len
            /\ rcReply.result.bytes <= fresh.bytes
            /\ rcReply.out_len = rcReply.memo_len => rcReply.result = fresh

(*************************************************************************************)
(* Consumers that miss together leave one entry per request, and the count is        *)
(* within max_count ("a concurrent/duplicate insert just refreshes LRU               *)
(* position").                                                                       *)
(*************************************************************************************)
RcOneEntryPerRequest ==
    /\ RcMax # 0 => Len(rcEntries) <= RcMax
    /\ \A i, j \in DOMAIN rcEntries : rcEntries[i].key = rcEntries[j].key => i = j

(*************************************************************************************)
(* The cache is a memo of the computation: what it serves is what would be computed, *)
(* and it has one entry per request within its cap, whoever misses together.         *)
(*************************************************************************************)
RcMemoExact == RcTypeOK /\ RcHitIsRecomputation /\ RcOneEntryPerRequest

================================================================================
