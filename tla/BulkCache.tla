------------------------------- MODULE BulkCache -------------------------------
(**********************************************************************************)
(* The cache of registered bulk handles of one front                              *)
(* (target/nkvx_front_client.c, nkvx_bulk_acquire and nkvx_bulk_release): a       *)
(* fixed array of reference-counted slots, evicting the least recently used       *)
(* slot that no in-flight RPC holds, with an uncached handle when there is        *)
(* none.  A front is single-threaded: each function is one step.                  *)
(**********************************************************************************)
EXTENDS Naturals, FiniteSets

CONSTANTS
    Buffer,    \* address ranges (addr, len) that RPCs register
    DmaBuf,    \* dma-buf regions (fd, offset), registered uncached
    Handle,    \* the values an hg_bulk_t may take; freed ones are reused
    Holder,    \* the handle fields (input_bulk, result_sink) of calls
    NSlots,    \* NKVX_BULK_CACHE_SLOTS
    MaxSeq,    \* bound: acquires that stamp a slot
    NoHandle   \* HG_BULK_NULL

ASSUME CacheAssumption ==
    /\ NSlots \in Nat \ {0}
    /\ MaxSeq \in Nat
    /\ IsFiniteSet(Holder)
    /\ NoHandle \notin Handle

\* What a registration covers: a buffer with access flags, or a dma-buf.
Flags == {"read_only", "write_only"}
Key == Buffer \X Flags
NoKey == <<>>
Region == Key \cup {<<d>> : d \in DmaBuf}

Slots == 1..NSlots

VARIABLES
    bulk_cache, \* the slots
    bulk_seq,   \* the LRU stamp last given out
    registered, \* per handle, the region Mercury has it registered for
    held,       \* per holder, its handle or NoHandle
    wanted      \* per holder, the region its handle was acquired for

bcVars == <<bulk_cache, bulk_seq, registered, held, wanted>>

Entry == [key : Key \cup {NoKey}, handle : Handle \cup {NoHandle},
          refs : Nat, used_seq : Nat]

(**********************************************************************************)
(* Types of the slots (struct nkvx_bulk_entry), of Mercury's registrations        *)
(* and of the callers' handles.                                                   *)
(**********************************************************************************)
BcTypeOK ==
    /\ bulk_cache \in [Slots -> Entry]
    /\ bulk_seq \in Nat
    /\ registered \in [Handle -> Region \cup {NoKey}]
    /\ held \in [Holder -> Handle \cup {NoHandle}]
    /\ wanted \in [Holder -> Region \cup {NoKey}]

BcInit ==
    /\ bulk_cache = [i \in Slots |-> [key |-> NoKey, handle |-> NoHandle,
                                      refs |-> 0, used_seq |-> 0]]
    /\ bulk_seq = 0
    /\ registered = [h \in Handle |-> NoKey]
    /\ held = [x \in Holder |-> NoHandle]
    /\ wanted = [x \in Holder |-> NoKey]

--------------------------------------------------------------------------------
\* The slots a request for k hits.
Hits(k) == {i \in Slots : bulk_cache[i].handle # NoHandle /\ bulk_cache[i].key = k}

EmptySlots == {i \in Slots : bulk_cache[i].handle = NoHandle}

\* The unreferenced slots, and the least recently used of them.
Evictable_All == Slots \ EmptySlots
Evictable == {i \in Slots \ EmptySlots : bulk_cache[i].refs = 0}
Victims == {i \in Evictable : \A j \in Evictable :
               bulk_cache[i].used_seq <= bulk_cache[j].used_seq}

\* Where a miss is inserted: the first empty slot, else a victim.
Targets == IF EmptySlots # {}
           THEN {i \in EmptySlots : \A j \in EmptySlots : i <= j}
           ELSE Victims

\* HG_Bulk_create: a handle Mercury is not using.
Fresh == {h \in Handle : registered[h] = NoKey}

\* The caller's handle field x receives the handle h for region k.
Give(x, h, k) ==
    /\ held' = [held EXCEPT ![x] = h]
    /\ wanted' = [wanted EXCEPT ![x] = k]

\* nkvx_bulk_acquire finds k: one more reference, no registration.
AcquireHit(x, k) ==
    /\ held[x] = NoHandle
    /\ bulk_seq < MaxSeq
    /\ bulk_seq' = bulk_seq + 1
    /\ \E i \in Hits(k) :
          /\ \A j \in Hits(k) : i <= j
          /\ bulk_cache' = [bulk_cache EXCEPT ![i] =
                              [key |-> @.key, handle |-> @.handle,
                               refs |-> @.refs + 1, used_seq |-> bulk_seq + 1]]
          /\ Give(x, bulk_cache[i].handle, k)
    /\ UNCHANGED registered

\* It misses: register, and insert in an empty slot or in the victim's, whose
\* handle is freed.
AcquireMiss(x, k) ==
    /\ held[x] = NoHandle
    /\ Hits(k) = {}
    /\ bulk_seq < MaxSeq
    /\ bulk_seq' = bulk_seq + 1
    /\ \E h \in Fresh, i \in Targets :
          /\ bulk_cache' = [bulk_cache EXCEPT ![i] =
                              [key |-> k, handle |-> h, refs |-> 1,
                               used_seq |-> bulk_seq + 1]]
          /\ registered' = [g \in Handle |->
                              IF g = h THEN k
                              ELSE IF g = bulk_cache[i].handle THEN NoKey
                              ELSE registered[g]]
          /\ Give(x, h, k)

\* It misses with every slot referenced: an uncached handle.
AcquireOverflow(x, k) ==
    /\ held[x] = NoHandle
    /\ Hits(k) = {}
    /\ Targets = {}
    /\ \E h \in Fresh : /\ registered' = [registered EXCEPT ![h] = k]
                        /\ Give(x, h, k)
    /\ UNCHANGED <<bulk_cache, bulk_seq>>

\* nkvx_bulk_acquire_dmabuf: always a fresh, uncached handle.
nkvx_bulk_acquire_dmabuf(x, d) ==
    /\ held[x] = NoHandle
    /\ \E h \in Fresh : /\ registered' = [registered EXCEPT ![h] = <<d>>]
                        /\ Give(x, h, <<d>>)
    /\ UNCHANGED <<bulk_cache, bulk_seq>>

\* nkvx_bulk_release of the handle of x: a cached one loses a reference and
\* stays registered, any other is freed.
CachedIn(h) == {i \in Slots : bulk_cache[i].handle = h}

Unregister(h) == [registered EXCEPT ![h] = NoKey]

DropRef(i) == [bulk_cache EXCEPT ![i].refs = IF @ > 0 THEN @ - 1 ELSE @]

nkvx_bulk_release(x) ==
    /\ held[x] # NoHandle
    /\ \/ \E i \in CachedIn(held[x]) :
             /\ \A j \in CachedIn(held[x]) : i <= j
             /\ bulk_cache' = DropRef(i)
             /\ UNCHANGED registered
       \/ /\ CachedIn(held[x]) = {}
          /\ registered' = Unregister(held[x])
          /\ UNCHANGED bulk_cache
    /\ Give(x, NoHandle, NoKey)
    /\ UNCHANGED bulk_seq

BcNext ==
    \E x \in Holder :
        \/ \E k \in Key : \/ AcquireHit(x, k)
                          \/ AcquireMiss(x, k)
                          \/ AcquireOverflow(x, k)
        \/ \E d \in DmaBuf : nkvx_bulk_acquire_dmabuf(x, d)
        \/ nkvx_bulk_release(x)

BcSpec == BcInit /\ [][BcNext]_bcVars

--------------------------------------------------------------------------------
(**********************************************************************************)
(* A handle an RPC holds is registered, and for exactly the region and the        *)
(* access it was acquired for: eviction never takes a handle from under an        *)
(* in-flight Exec ("refs guards an in-flight handle from eviction"), and a        *)
(* reused handle never stands for another buffer, another access mode or a        *)
(* dma-buf.                                                                       *)
(**********************************************************************************)
HeldIsRegistered ==
    \A x \in Holder : held[x] # NoHandle => registered[held[x]] = wanted[x]

\* The holders of a handle.
HoldersOf(h) == {x \in Holder : held[x] = h}

(**********************************************************************************)
(* The reference count of a slot is the number of RPCs that hold its handle;      *)
(* in particular the "refs > 0" test of nkvx_bulk_release never hides an          *)
(* unbalanced release.                                                            *)
(**********************************************************************************)
RefsCountHolders ==
    \A i \in Slots \ EmptySlots :
        bulk_cache[i].refs = Cardinality(HoldersOf(bulk_cache[i].handle))

(**********************************************************************************)
(* Nothing stays registered that neither a slot nor an RPC refers to: every       *)
(* overflow, dma-buf and evicted handle is freed exactly when it must be.         *)
(**********************************************************************************)
NoLeakedHandle ==
    \A h \in Handle : registered[h] # NoKey =>
        (\E i \in Slots : bulk_cache[i].handle = h) \/ HoldersOf(h) # {}

(**********************************************************************************)
(* What is registered is exactly what is used: a handle stays registered for the  *)
(* region it was acquired for while an RPC holds it, and no longer than a slot or *)
(* an RPC refers to it.                                                           *)
(**********************************************************************************)
RegisteredExactly == HeldIsRegistered /\ NoLeakedHandle

===============================================================================
