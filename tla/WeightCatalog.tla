------------------------------ MODULE WeightCatalog ------------------------------
(*************************************************************************************)
(* The Weights catalog (clients/vllm-weights/src/rados_nkv_weights): publishers      *)
(* chunk, pack and Store tensors and then the Weight manifest (publisher.py),        *)
(* a collector marks and sweeps (gc.py) and a loader reassembles (loader.py), all    *)
(* over one key-value namespace whose single operations are atomic and nothing       *)
(* more.  A Chunk key is the hash of its Value, so a Value stands for its own        *)
(* key.                                                                              *)
(*************************************************************************************)
EXTENDS Naturals, Sequences

CONSTANTS
    WtPublisher,  \* publisher jobs
    WtRevision,   \* Model revisions
    WtSource,     \* per Precision variant, the bytes of each tensor in order
    WtPack,       \* the precisions that are published with packing
    WtMax         \* max_value_len

ASSUME WtAssumption == WtMax \in Nat \ {0} /\ WtPack \subseteq DOMAIN WtSource

VARIABLES
    wtValues,    \* Values in the namespace
    wtManifest,  \* per revision, precision -> slices of each tensor; empty: no manifest
    wtPub,       \* per publisher, its job
    wtGc,        \* the collector
    wtLoad,      \* the loader
    wtUnsafe     \* history: revisions condemned by a collection, published across one, or
                 \* merged into the manifest of such a revision

wtVars == <<wtValues, wtManifest, wtPub, wtGc, wtLoad, wtUnsafe>>

Precision == DOMAIN WtSource
NoManifest == [p \in {} |-> <<>>]
WtIdle == [pc |-> "idle"]

--------------------------------------------------------------------------------
\* op over the members of s from the first on, starting from base.
Folded(op(_, _), base, s) ==
    LET after[i \in 0..Len(s)] == IF i = 0 THEN base ELSE op(after[i - 1], s[i])
    IN  after[Len(s)]

\* iter_chunks: fixed-size slices, the last one shorter.
iter_chunks(data) ==
    [i \in 1..((Len(data) + WtMax - 1) \div WtMax) |->
        SubSeq(data, (i - 1) * WtMax + 1, IF i * WtMax < Len(data) THEN i * WtMax ELSE Len(data))]

Slice(key, offset, size) == [key |-> key, offset |-> offset, size |-> size]

\* _Builder._flush_pending: the Value is stored and its members learn its key.
_flush_pending(b) ==
    LET mine(t) == SelectSeq(b.members, LAMBDA m : m.tensor = t)
        filled(t) == [i \in DOMAIN mine(t) |-> Slice(b.buf, mine(t)[i].offset, mine(t)[i].size)]
    IN  IF b.members = <<>> THEN b
        ELSE [values |-> Append(b.values, b.buf),
              slices |-> [t \in DOMAIN b.slices |-> b.slices[t] \o filled(t)],
              buf |-> <<>>, members |-> <<>>]

_append_packed(b, t, chunk) ==
    LET c == IF Len(b.buf) + Len(chunk) > WtMax THEN _flush_pending(b) ELSE b
    IN  [c EXCEPT !.buf = @ \o chunk,
                  !.members = Append(@, [tensor |-> t, offset |-> Len(c.buf), size |-> Len(chunk)])]

_store_whole(b, t, chunk) ==
    LET c == _flush_pending(b)
    IN  [c EXCEPT !.values = Append(@, chunk),
                  !.slices = [c.slices EXCEPT ![t] = Append(@, Slice(chunk, 0, Len(chunk)))]]

\* _Builder.add_tensor: a chunk of the full length, or without packing, is a Value.
add_tensor(b, t, data, pack) ==
    LET step(c, chunk) == IF ~ pack \/ Len(chunk) = WtMax THEN _store_whole(c, t, chunk)
                          ELSE _append_packed(c, t, chunk)
    IN  Folded(step, b, iter_chunks(data))

\* Per precision, the Values a publish stores, in order, and the slices its manifest records.
Built ==
    [precision \in Precision |->
        LET source == WtSource[precision]
            empty == [values |-> <<>>, slices |-> [t \in DOMAIN source |-> <<>>],
                      buf |-> <<>>, members |-> <<>>]
            step(b, t) == add_tensor(b, t, source[t], precision \in WtPack)
        IN  _flush_pending(Folded(step, empty, [t \in DOMAIN source |-> t]))]

\* _reassemble: concatenated slices of the retrieved Values.
Window(value, slice) == SubSeq(value, slice.offset + 1, slice.offset + slice.size)
Reassembled(slices, retrieved) ==
    [t \in DOMAIN slices |->
        Folded(\o, <<>>, [i \in DOMAIN slices[t] |-> Window(retrieved[slices[t][i].key], slices[t][i])])]

Keys(slices) == UNION {{slices[t][i].key : i \in DOMAIN slices[t]} : t \in DOMAIN slices}
ManifestKeys(manifest) == UNION {Keys(manifest[p]) : p \in DOMAIN manifest}

--------------------------------------------------------------------------------
WtInit ==
    /\ wtValues = {}
    /\ wtManifest = [r \in WtRevision |-> NoManifest]
    /\ wtPub = [u \in WtPublisher |-> WtIdle]
    /\ wtGc = WtIdle /\ wtLoad = WtIdle
    /\ wtUnsafe = {}

\* publish: the base of a merge is read first.
publish(u, r, precision, merge) ==
    /\ wtPub[u] = WtIdle
    /\ wtPub' = [wtPub EXCEPT ![u] =
          [pc |-> "storing", revision |-> r, precision |-> precision, next |-> 1,
           merge |-> merge, base |-> IF merge THEN wtManifest[r] ELSE NoManifest,
           stale |-> FALSE,
           across |-> wtGc # WtIdle \/ (merge /\ r \in wtUnsafe)]]
    /\ UNCHANGED <<wtValues, wtManifest, wtGc, wtLoad, wtUnsafe>>

\* _store_value: Exist, and Store if absent.  The two calls are one step: what others do
\* between them cannot change a Value, only make this Store a repetition.
_store_value(u) ==
    LET values == Built[wtPub[u].precision].values
    IN  /\ wtPub[u].pc = "storing" /\ wtPub[u].next <= Len(values)
        /\ wtValues' = wtValues \cup {values[wtPub[u].next]}
        /\ wtPub' = [wtPub EXCEPT ![u].next = @ + 1]
        /\ UNCHANGED <<wtManifest, wtGc, wtLoad, wtUnsafe>>

\* Another publisher's manifest makes the base read by this one stale.
Finished(u, r) ==
    [v \in WtPublisher |->
        IF v = u THEN WtIdle
        ELSE IF wtPub[v] # WtIdle /\ wtPub[v].revision = r /\ wtPub[v].merge
        THEN [wtPub[v] EXCEPT !.stale = TRUE]
        ELSE wtPub[v]]

\* finalize: the manifest is stored last; a precision already in the base is an error.
finalize_Replacing(u) ==
    LET job == wtPub[u]
        built == Built[job.precision]
    IN  /\ job.pc = "storing" /\ job.next > Len(built.values)
        /\ wtManifest' = [wtManifest EXCEPT ![job.revision] =
                             [p \in {job.precision} |-> built.slices]]
        /\ wtPub' = Finished(u, job.revision)
        /\ wtUnsafe' = IF job.across THEN wtUnsafe \cup {job.revision}
                       ELSE wtUnsafe \ {job.revision}
        /\ UNCHANGED <<wtValues, wtGc, wtLoad>>
finalize(u) ==
    LET job == wtPub[u]
        built == Built[job.precision]
    IN  /\ job.pc = "storing" /\ job.next > Len(built.values)
        /\ IF job.precision \in DOMAIN job.base
           THEN /\ wtPub' = [wtPub EXCEPT ![u] = WtIdle]
                /\ UNCHANGED <<wtManifest, wtUnsafe>>
           ELSE /\ wtManifest' = [wtManifest EXCEPT ![job.revision] =
                      [p \in DOMAIN job.base \cup {job.precision} |->
                          IF p = job.precision THEN built.slices ELSE job.base[p]]]
                /\ wtPub' = Finished(u, job.revision)
                /\ wtUnsafe' = IF job.across THEN wtUnsafe \cup {job.revision}
                               ELSE wtUnsafe \ {job.revision}
        /\ UNCHANGED <<wtValues, wtGc, wtLoad>>

\* A Store fails, or the job dies: Values stay, the manifest is not written.
WtPublishFails(u) ==
    /\ wtPub[u] # WtIdle
    /\ wtPub' = [wtPub EXCEPT ![u] = WtIdle]
    /\ UNCHANGED <<wtValues, wtManifest, wtGc, wtLoad, wtUnsafe>>

--------------------------------------------------------------------------------
\* _mark: the collection is aborted unless every live manifest is there and readable.
_mark_BestEffort(live, readable) == TRUE
_mark(live, readable) == \A r \in live : wtManifest[r] # NoManifest /\ r \in readable

LiveKeys(live, readable) == UNION {ManifestKeys(wtManifest[r]) : r \in live \cap readable}

\* gc: mark, then the enumeration that the sweep runs through.
gc(live, readable) ==
    /\ wtGc = WtIdle
    /\ _mark(live, readable)
    /\ wtGc' = [pc |-> "sweep", values |-> wtValues \ LiveKeys(live, readable),
                manifests |-> {r \in WtRevision \ live : wtManifest[r] # NoManifest}]
    /\ wtPub' = [u \in WtPublisher |-> IF wtPub[u] = WtIdle THEN WtIdle
                                       ELSE [wtPub[u] EXCEPT !.across = TRUE]]
    /\ wtUnsafe' = wtUnsafe \cup {r \in WtRevision \ live : wtManifest[r] # NoManifest}
    /\ UNCHANGED <<wtValues, wtManifest, wtLoad>>

\* One deletion, in any order of the keys.
gc_Sweep ==
    /\ wtGc # WtIdle
    /\ \/ \E value \in wtGc.values :
             /\ wtValues' = wtValues \ {value}
             /\ wtGc' = [wtGc EXCEPT !.values = @ \ {value}]
             /\ UNCHANGED wtManifest
       \/ \E r \in wtGc.manifests :
             /\ wtManifest' = [wtManifest EXCEPT ![r] = NoManifest]
             /\ wtGc' = [wtGc EXCEPT !.manifests = @ \ {r}]
             /\ UNCHANGED wtValues
    /\ UNCHANGED <<wtPub, wtLoad, wtUnsafe>>

\* The sweep is over, or the collector dies in it.
gc_Ends ==
    /\ wtGc # WtIdle
    /\ wtGc' = WtIdle
    /\ UNCHANGED <<wtValues, wtManifest, wtPub, wtLoad, wtUnsafe>>

--------------------------------------------------------------------------------
\* load: the manifest first; an absent one, or an absent precision, is an error.
load(r, precision) ==
    /\ wtLoad.pc \in {"idle", "loaded"}
    /\ wtLoad' = IF precision \in DOMAIN wtManifest[r]
                 THEN [pc |-> "retrieving", precision |-> precision,
                       slices |-> wtManifest[r][precision], retrieved |-> NoManifest]
                 ELSE WtIdle
    /\ UNCHANGED <<wtValues, wtManifest, wtPub, wtGc, wtUnsafe>>

\* _get_verified: MissingChunkError, IntegrityError, or a Value that hashes to its key.
_get_verified_Trusting(key, value) == TRUE
_get_verified(key, value) == value = key

Damaged(value) == [i \in DOMAIN value |-> 0]

\* _reassemble: the Values one by one, and the tensors from the last of them.
_reassemble ==
    LET missing == Keys(wtLoad.slices) \ DOMAIN wtLoad.retrieved
        key == CHOOSE k \in missing : TRUE
        with(value) == [k \in DOMAIN wtLoad.retrieved \cup {key} |->
                           IF k = key THEN value ELSE wtLoad.retrieved[k]]
    IN  /\ wtLoad.pc = "retrieving"
        /\ \E value \in {key, Damaged(key)} :
              wtLoad' = IF ~ (key \in wtValues /\ _get_verified(key, value)) THEN WtIdle
                        ELSE IF missing # {key} THEN [wtLoad EXCEPT !.retrieved = with(value)]
                        ELSE [pc |-> "loaded", precision |-> wtLoad.precision,
                              tensors |-> Reassembled(wtLoad.slices, with(value))]
        /\ UNCHANGED <<wtValues, wtManifest, wtPub, wtGc, wtUnsafe>>

WtNext ==
    \/ \E u \in WtPublisher, r \in WtRevision, p \in Precision, merge \in BOOLEAN :
          publish(u, r, p, merge)
    \/ \E u \in WtPublisher : _store_value(u) \/ finalize(u) \/ WtPublishFails(u)
    \/ \E live, readable \in SUBSET WtRevision : gc(live, readable)
    \/ gc_Sweep \/ gc_Ends
    \/ \E r \in WtRevision, p \in Precision : load(r, p)
    \/ _reassemble

WtSpec == WtInit /\ [][WtNext]_wtVars

--------------------------------------------------------------------------------
(*************************************************************************************)
(* What the builder owes the catalog: every key it records is a Value it stores, and *)
(* the recorded slices of those Values are the tensors.                              *)
(*************************************************************************************)
BuilderCovers ==
    \A p \in Precision :
        LET values == Built[p].values
        IN  /\ Len(values) \in Nat /\ DOMAIN values = 1..Len(values)
            /\ Keys(Built[p].slices) \subseteq {values[i] : i \in DOMAIN values}
BuilderReassembles ==
    \A p \in Precision :
        LET slices == Built[p].slices
        IN  Reassembled(slices, [k \in Keys(slices) |-> k]) = WtSource[p]

ASSUME WtBuilderAssumption == BuilderCovers /\ BuilderReassembles

(*************************************************************************************)
(* "A Value referenced by ANY live manifest is never deleted": the manifest of a     *)
(* revision that every collection so far was told is live has all its Values, as     *)
(* long as it was not published while a collection ran (nothing keeps the sweep      *)
(* from the Values of a publish whose manifest is not stored yet).                   *)
(*************************************************************************************)
WtLiveManifestIsWhole ==
    \A r \in WtRevision \ wtUnsafe : ManifestKeys(wtManifest[r]) \subseteq wtValues

(*************************************************************************************)
(* A load that succeeds returns the tensors as published, byte for byte: chunked,    *)
(* packed with neighbours, deduplicated, swept or damaged, a wrong tensor is never   *)
(* handed out.                                                                       *)
(*************************************************************************************)
WtLoadsWhatWasPublished ==
    wtLoad.pc = "loaded" => wtLoad.tensors = WtSource[wtLoad.precision]

(*************************************************************************************)
(* Publishing a precision with merge keeps the precisions already recorded, unless   *)
(* another publisher of the revision, or a sweep, came between its read of the       *)
(* manifest and its write.                                                           *)
(*************************************************************************************)
WtMergeKeepsPrecisions ==
    [][\A u \in WtPublisher :
          (/\ wtPub[u] # WtIdle /\ wtPub[u].merge /\ ~ wtPub[u].stale /\ ~ wtPub[u].across
           /\ wtManifest'[wtPub[u].revision] # wtManifest[wtPub[u].revision]
           /\ wtPub'[u] = WtIdle)
             => DOMAIN wtManifest[wtPub[u].revision]
                   \subseteq DOMAIN wtManifest'[wtPub[u].revision]]_wtVars

================================================================================
