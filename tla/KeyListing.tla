------------------------------- MODULE KeyListing -------------------------------
(**********************************************************************************)
(* Listing a namespace: the executor's LIST over the sorted object names of its   *)
(* in-memory backend (rados-nkvx/nkvx_executor.c:989-1170, nkvx_oid.h) and the    *)
(* client that pages through it (clients/rkv/src/commands/list.rs), while other   *)
(* hosts store and delete keys between two pages.  nvmf_ns_kv_list, between the   *)
(* two, is outside the repository: it passes the start key on and reports         *)
(* `more' for a truncated page.                                                   *)
(*                                                                                *)
(* A byte is two digits of base LsBase; a digit of LsBase or more is a            *)
(* character that is no hex digit.                                                *)
(**********************************************************************************)
EXTENDS Naturals, Sequences, SequencesExt, FiniteSetsExt

CONSTANTS
    LsKey,      \* keys that hosts store
    LsForeign,  \* names of other objects in the pool
    LsMaxLen,   \* SPDK_KVDEV_EXEC_KEY_MAX_LEN, 16 in list.rs
    LsBase,     \* number of hex digits
    LsOSize     \* lengths of the output buffer

ASSUME LsAssumption ==
    /\ LsMaxLen \in Nat \ {0} /\ LsBase \in Nat \ {0, 1}
    /\ \A key \in LsKey : /\ Len(key) \in 1..LsMaxLen
                          /\ \A i \in DOMAIN key : key[i] \in 0..(LsBase * LsBase - 1)

VARIABLES
    lsObjects,  \* names in the pool
    lsWalk,     \* list_keys: state, start_key, osize and the keys printed
    lsStable    \* history: keys present ever since the walk began

lsVars == <<lsObjects, lsWalk, lsStable>>

LsFirst == <<>>   \* key_len 0: from the first key
NRK == 4          \* NKVX_LIST_NRK_SIZE
MaxByte == LsBase * LsBase - 1

(**********************************************************************************)
(* Types.                                                                         *)
(**********************************************************************************)
LsTypeOK ==
    /\ lsWalk.state \in {"paging", "done", "failed"}
    /\ lsStable \subseteq LsKey
    /\ \A i \in DOMAIN lsWalk.printed : lsWalk.printed[i] \in LsKey

--------------------------------------------------------------------------------
nkvx_key_to_oid(key) ==
    [i \in 1..(2 * Len(key)) |-> IF i % 2 = 1 THEN key[(i + 1) \div 2] \div LsBase
                                 ELSE key[i \div 2] % LsBase]

\* The empty key for a name that is not the name of a key.
nkvx_oid_to_key(oid) ==
    IF \/ Len(oid) = 0 \/ Len(oid) % 2 = 1 \/ Len(oid) \div 2 > LsMaxLen
       \/ \E i \in DOMAIN oid : oid[i] >= LsBase
    THEN <<>>
    ELSE [i \in 1..(Len(oid) \div 2) |-> oid[2 * i - 1] * LsBase + oid[2 * i]]

nkvx_list_entry_size(key) == ((2 + Len(key) + 3) \div 4) * 4

\* strcmp(a, b) < 0.
Before_strcmp(a, b) ==
    \E n \in 0..Len(a) :
        /\ n <= Len(b) /\ SubSeq(a, 1, n) = SubSeq(b, 1, n)
        /\ n < Len(b) /\ (n < Len(a) => a[n + 1] < b[n + 1])

\* One eligible key: counted in full_len, and emitted if every key before it was and it fits.
nkvx_list_emit(page, key, cap) ==
    LET entry == nkvx_list_entry_size(key)
        fits == ~ page.overflow /\ page.off + entry <= cap
    IN  [keys |-> IF fits THEN Append(page.keys, key) ELSE page.keys,
         off |-> IF fits THEN page.off + entry ELSE page.off,
         full_len |-> page.full_len + entry,
         overflow |-> ~ fits]

\* The keys at or after start among the names in strcmp order, foreign names left out.
Eligible(start) ==
    LET oids == [i \in 1..Cardinality(lsObjects) |->
                    CHOOSE oid \in lsObjects :
                        Cardinality({o \in lsObjects : Before_strcmp(o, oid)}) = i - 1]
        at == {i \in DOMAIN oids : ~ Before_strcmp(oids[i], nkvx_key_to_oid(start))}
        rest == IF start = LsFirst THEN oids
                ELSE IF at = {} THEN <<>> ELSE SubSeq(oids, Min(at), Len(oids))
        keys == [i \in DOMAIN rest |-> nkvx_oid_to_key(rest[i])]
    IN  SelectSeq(keys, LAMBDA key : key # <<>>)

nkvx_list(start, osize) ==
    LET cap == IF osize > NRK THEN osize ELSE NRK
        emit(page, key) == nkvx_list_emit(page, key, cap)
        page == FoldLeft(emit, [keys |-> <<>>, off |-> NRK, full_len |-> NRK,
                                overflow |-> FALSE], Eligible(start))
    IN  [status |-> IF page.full_len > osize THEN "BUFFER_TOO_SMALL" ELSE "SUCCESS",
         result_len |-> page.full_len, keys |-> page.keys, buf_len |-> page.off]

\* The smallest key after this one: longer by a zero byte, or at the longest the next with
\* carry; the last key of all is its own successor.
next_hex_key_Carryless(key) ==
    IF Len(key) < LsMaxLen THEN Append(key, 0)
    ELSE [key EXCEPT ![Len(key)] = IF @ = MaxByte THEN 0 ELSE @ + 1]
next_hex_key(key) ==
    LET below == {i \in DOMAIN key : key[i] # MaxByte}
    IN  IF Len(key) < LsMaxLen THEN Append(key, 0)
        ELSE IF below = {} THEN key
        ELSE Append(SubSeq(key, 1, Max(below) - 1), key[Max(below)] + 1)

--------------------------------------------------------------------------------
LsInit ==
    /\ lsObjects \in {{nkvx_key_to_oid(key) : key \in keys} \cup foreign :
                         keys \in SUBSET LsKey, foreign \in {{}, LsForeign}}
    /\ lsWalk = [state |-> "done", start |-> LsFirst, osize |-> 0, printed |-> <<>>]
    /\ lsStable = {}

\* `rados-nkv list' begins.
list_keys(osize) ==
    /\ lsWalk.state # "paging"
    /\ lsWalk' = [state |-> "paging", start |-> LsFirst, osize |-> osize, printed |-> <<>>]
    /\ lsStable' = {key \in LsKey : nkvx_key_to_oid(key) \in lsObjects}
    /\ UNCHANGED lsObjects

\* One page: print it, and stop, fail on an empty truncated page, or resume after its last key.
list_keys_Page ==
    LET page == nkvx_list(lsWalk.start, lsWalk.osize)
        more == page.status = "BUFFER_TOO_SMALL"
        printed == lsWalk.printed \o page.keys
    IN  /\ lsWalk.state = "paging"
        /\ lsWalk' =
              IF ~ more THEN [lsWalk EXCEPT !.state = "done", !.printed = printed]
              ELSE IF page.keys = <<>> THEN [lsWalk EXCEPT !.state = "failed"]
              ELSE [lsWalk EXCEPT !.printed = printed, !.start = next_hex_key(Last(page.keys))]
        /\ UNCHANGED <<lsObjects, lsStable>>

\* Another host stores or deletes a key.
LsStore(key) ==
    /\ nkvx_key_to_oid(key) \notin lsObjects
    /\ lsObjects' = lsObjects \cup {nkvx_key_to_oid(key)}
    /\ UNCHANGED <<lsWalk, lsStable>>

LsDelete(key) ==
    /\ nkvx_key_to_oid(key) \in lsObjects
    /\ lsObjects' = lsObjects \ {nkvx_key_to_oid(key)}
    /\ lsStable' = lsStable \ {key}
    /\ UNCHANGED lsWalk

LsNext ==
    \/ \E osize \in LsOSize : list_keys(osize)
    \/ list_keys_Page
    \/ \E key \in LsKey : LsStore(key) \/ LsDelete(key)

LsSpec == LsInit /\ [][LsNext]_lsVars

--------------------------------------------------------------------------------
(**********************************************************************************)
(* A finished listing is complete: every key that was there from its first page   *)
(* to its last is printed, however the pages were cut and whatever other hosts    *)
(* stored or deleted meanwhile.                                                   *)
(**********************************************************************************)
LsListsEveryStableKey ==
    lsWalk.state = "done" => lsStable \subseteq ToSet(lsWalk.printed)

(**********************************************************************************)
(* No key is printed twice, and the keys come in byte order: resuming at the      *)
(* byte successor of the last key ("the prior page's last key is not re-emitted") *)
(* never steps back.                                                              *)
(**********************************************************************************)
LsPrintsInOrder ==
    \A i \in DOMAIN lsWalk.printed, j \in DOMAIN lsWalk.printed :
        i < j => Before_strcmp(nkvx_key_to_oid(lsWalk.printed[i]),
                               nkvx_key_to_oid(lsWalk.printed[j]))

(**********************************************************************************)
(* The listing is the set of stable keys, each printed once and in order.         *)
(**********************************************************************************)
LsListingExact == LsTypeOK /\ LsListsEveryStableKey /\ LsPrintsInOrder

================================================================================
