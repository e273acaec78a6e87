------------------------------- MODULE CacheLaws -------------------------------
(*********************************************************************************)
(* The account of the object and warm caches, and the laws of their functions.   *)
(* Sound(g, pins) says that the allocated entries are those on the list, each    *)
(* once, that every warm entry aliases an allocated entry of its key, and that a *)
(* refcount is the pins held outside and the warm entries.                       *)
(*********************************************************************************)
EXTENDS ObjectCache

\* No member is on the list twice.
Once(s) == \A i, j \in DOMAIN s : s[i] = s[j] => i = j

\* The fields of the cache record.
IsCache(g) ==
    g \in [objects : {g.objects}, ent : {g.ent}, warm : {g.warm}, obj_bytes : {g.obj_bytes}]

\* The lists and the entries are well formed, and the allocated entries are those
\* on the list.
Listed(g) ==
    /\ IsCache(g)
    /\ g.objects \in Seq(Obj) /\ Once(g.objects)
    /\ DOMAIN g.ent = Range(g.objects)
    /\ \A o \in DOMAIN g.ent : g.ent[o] \in ObjEntry
    /\ g.warm \in Seq(WarmEntry) /\ Once(g.warm)
    /\ g.obj_bytes = BytesOf(g, DOMAIN g.ent)

\* A warm entry aliases an allocated entry of its key.
Aliased(g) ==
    \A w \in Range(g.warm) :
        w.obj \in DOMAIN g.ent /\ g.ent[w.obj].obj_key = w.obj_key

\* The refcount of an entry is pins[o], the pins held outside the caches, and
\* the warm entries that alias it; a dead entry has one.
Counted(g, pins) ==
    /\ pins \in [Obj -> Nat]
    /\ \A o \in Obj \ DOMAIN g.ent : pins[o] = 0
    /\ \A o \in DOMAIN g.ent :
          /\ g.ent[o].refcount = pins[o] + WarmPins(g, o)
          /\ g.ent[o].dead => g.ent[o].refcount > 0

\* The account of the caches, given the pins held outside them.
Sound(g, pins) == Listed(g) /\ Aliased(g) /\ Counted(g, pins)

\* What the entries of h keep of those of g.
Keeps(g, h) ==
    /\ DOMAIN h.ent \subseteq DOMAIN g.ent
    /\ \A o \in DOMAIN h.ent : /\ h.ent[o].content = g.ent[o].content
                               /\ h.ent[o].obj_key = g.ent[o].obj_key
                               /\ h.ent[o].mem_cap = g.ent[o].mem_cap

\* One for each member of S.
One(S, o) == IF o \in S THEN 1 ELSE 0

\* nkvx_cache_invalidate_locked: nothing live and nothing warm is left of k.
AfterInvalidate(g, h, k) ==
    /\ Keeps(g, h)
    /\ Range(h.warm) = {w \in Range(g.warm) : w.obj_key # k}
    /\ \A o \in DOMAIN h.ent : h.ent[o].dead <=> (g.ent[o].dead \/ g.ent[o].obj_key = k)

\* h is g with a pin more on o.
OnePinMore(g, h, o) ==
    /\ IsCache(h) /\ h.objects = g.objects /\ h.obj_bytes = g.obj_bytes
    /\ h.warm = g.warm /\ DOMAIN h.ent = DOMAIN g.ent
    /\ \A p \in DOMAIN g.ent :
          /\ h.ent[p] \in ObjEntry
          /\ h.ent[p].refcount = g.ent[p].refcount + One({o}, p)
          /\ h.ent[p].dead = g.ent[p].dead
          /\ h.ent[p].content = g.ent[p].content
          /\ h.ent[p].obj_key = g.ent[p].obj_key
          /\ h.ent[p].mem_cap = g.ent[p].mem_cap

\* A pin more on o, in account.
OneMore(pins, after, o) ==
    /\ after \in [Obj -> Nat]
    /\ \A p \in Obj : after[p] = pins[p] + One({o}, p)

\* What a run leaves of the entries: it marks none, and drops only dead ones.
RunKeeps(g, h, m) ==
    /\ DOMAIN h.ent \subseteq DOMAIN g.ent
    /\ \A o \in DOMAIN h.ent : /\ h.ent[o].dead = g.ent[o].dead
                               /\ h.ent[o].obj_key = g.ent[o].obj_key
                               /\ h.ent[o].mem_cap = g.ent[o].mem_cap
                               /\ m \notin LongResult => h.ent[o].content = g.ent[o].content
    /\ \A o \in DOMAIN g.ent \ DOMAIN h.ent : g.ent[o].dead

\* An entry in use: on the list and live, or pinned from outside.
Held(g, pins, o) == o \in DOMAIN g.ent /\ (~ g.ent[o].dead \/ pins[o] > 0)

\* The warm list is within its cap.
WarmCapped(g) == MaxWarm # 0 => Len(g.warm) =< MaxWarm

\* What a fill leaves of the entries.
FillKeeps(g, h, k, v, o) ==
    /\ DOMAIN h.ent \subseteq DOMAIN g.ent \cup {o}
    /\ \A p \in DOMAIN h.ent \cap DOMAIN g.ent :
          h.ent[p].content = g.ent[p].content /\ h.ent[p].obj_key = g.ent[p].obj_key
    /\ o \in DOMAIN h.ent => /\ h.ent[o].content = v /\ h.ent[o].obj_key = StoredKey(k)
                             /\ ~ h.ent[o].dead

--------------------------------------------------------------------------------
(*********************************************************************************)
(* The laws: what the functions of the caches leave of an account that is sound, *)
(* for any pins.  ExecSteps_proofs takes them as a hypothesis, so that its       *)
(* proofs rest on them and on nothing else of the caches; ExecTier_proofs        *)
(* proves them.                                                                  *)
(*********************************************************************************)
CountLaw ==
    /\ Cardinality({}) = 0 /\ \A x : Cardinality({x}) = 1
    /\ \A S, T : IsFiniteSet(S) /\ T \subseteq S => IsFiniteSet(T)
    /\ \A S : IsFiniteSet(S) => Cardinality(S) \in Nat /\ (Cardinality(S) = 0 <=> S = {})
    /\ \A S, x : IsFiniteSet(S) /\ x \notin S =>
          Cardinality(S \cup {x}) = Cardinality(S) + 1

AppendLaw ==
    \A A : \A s \in Seq(A) : \A x \in A :
        /\ Append(s, x) \in Seq(A)
        /\ Once(s) /\ x \notin Range(s) => Once(Append(s, x))
        /\ Len(Append(s, x)) = Len(s) + 1
        /\ Append(s, x)[Len(s) + 1] = x
        /\ \A i \in 1..Len(s) : Append(s, x)[i] = s[i]

EntriesLaw ==
    \A g : Listed(g) =>
        /\ IsFiniteSet(DOMAIN g.ent) /\ DOMAIN g.ent \subseteq Obj
        /\ Cardinality(DOMAIN g.ent) = Len(g.objects)
        /\ \A o \in DOMAIN g.ent : g.ent[o].mem_cap \in Nat /\ g.ent[o].refcount \in Nat
        /\ g.obj_bytes \in Nat

LookupLaw ==
    \A g : Listed(g) =>
        \A k : /\ nkvx_obj_lookup(g, k)
                    = {o \in DOMAIN g.ent : ~ g.ent[o].dead /\ g.ent[o].obj_key = k}
               /\ nkvx_obj_lookup(g, k) # {} => Hit(g, k) \in nkvx_obj_lookup(g, k)

EmptyLaw ==
    \A pins \in [Obj -> Nat] : (\A o \in Obj : pins[o] = 0) => Sound(EmptyCache, pins)

InvalidateLaw ==
    \A g, pins, k, h :
        Sound(g, pins) /\ h = nkvx_cache_invalidate_locked(g, k) =>
            Sound(h, pins) /\ AfterInvalidate(g, h, k)

RefLaw ==
    /\ \A g, h : Listed(g) => \A o \in DOMAIN g.ent : h = Ref(g, o) => OnePinMore(g, h, o)
    /\ \A g, pins, after, h : Sound(g, pins) => \A o \in DOMAIN g.ent :
          OneMore(pins, after, o) /\ h = Ref(g, o) => Sound(h, after)

UnrefLaw ==
    \A g, pins, after, h : Sound(g, pins) => \A o \in DOMAIN g.ent :
        after \in [Obj -> Nat] /\ OneMore(after, pins, o) /\ h = nkvx_obj_unref(g, {Pin(o)}) =>
            Sound(h, after) /\ Keeps(g, h)

TouchLaw ==
    \A g, pins, h : Sound(g, pins) => \A o \in DOMAIN g.ent :
        h = nkvx_obj_touch(g, o) => Sound(h, pins) /\ h.ent = g.ent

RunLaw ==
    \A g, pins, o, h : \A m \in Module : \A r \in RunOutcome :
        Sound(g, pins) /\ Held(g, pins, o) /\ h = nkvx_run_on_object_locked(g, m, o, r) =>
            Sound(h, pins) /\ RunKeeps(g, h, m) /\ Held(h, pins, o)

FillLaw ==
    \A g, pins, h : \A k \in Key : \A v \in Value : \A o \in Obj :
        Sound(g, pins) /\ o \notin DOMAIN g.ent /\ h = ColdFill(g, k, v, o) =>
            /\ Sound(h, pins) /\ FillKeeps(g, h, k, v, o)
            /\ MaxBytes = 0 => o \in DOMAIN h.ent

Laws ==
    /\ CountLaw /\ AppendLaw /\ EntriesLaw /\ LookupLaw /\ EmptyLaw /\ InvalidateLaw
    /\ RefLaw /\ UnrefLaw /\ TouchLaw /\ RunLaw /\ FillLaw
================================================================================
