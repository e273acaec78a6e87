------------------------------ MODULE CacheAtRest ------------------------------
(*****************************************************************************)
(* The object and warm caches between two verbs of the executor, which holds *)
(* no pin then, and the laws of what a verb leaves of such caches.           *)
(*****************************************************************************)
EXTENDS CacheLaws

\* The pins of an executor between two verbs: none.
NoPins == [o \in Obj |-> 0]

NoneDead(g) == \A o \in DOMAIN g.ent : ~ g.ent[o].dead
OnePerKey(g) ==
    \A o \in DOMAIN g.ent : \A p \in DOMAIN g.ent \ {o} :
        g.ent[o].obj_key = g.ent[p].obj_key => g.ent[o].obj_key = Truncated

\* The caches between two verbs.
Rested(g) ==
    /\ Sound(g, NoPins) /\ NoneDead(g) /\ OnePerKey(g)
    /\ WarmCapped(g) /\ ~ OverCaps(g)

\* What a verb leaves of the contents.
LeavesContent(g, h) ==
    /\ DOMAIN h.ent \subseteq DOMAIN g.ent
    /\ \A o \in DOMAIN h.ent : /\ h.ent[o].obj_key = g.ent[o].obj_key
                               /\ LongResult = {} => h.ent[o].content = g.ent[o].content

\* Every object fits the byte cap, or there is none.
ObjectsFit == MaxBytes = 0 \/ \A v \in Value : Pages[v] =< MaxBytes

--------------------------------------------------------------------------------
(*****************************************************************************)
(* The laws.  ExecSteps_proofs takes them as a hypothesis; ExecTier_proofs   *)
(* proves them.                                                              *)
(*****************************************************************************)
RestedEmptyLaw == Rested(EmptyCache) /\ DOMAIN EmptyCache.ent = {}

RestedRunLaw ==
    \A g, h : Rested(g) => \A o \in DOMAIN g.ent : \A m \in Module : \A r \in RunOutcome :
        h = nkvx_run_on_object_locked(g, m, o, r) => Rested(h) /\ RunKeeps(g, h, m)

PinnedRunLaw ==
    \A g, h : Rested(g) => \A o \in DOMAIN g.ent : \A m \in Module : \A r \in RunOutcome :
        h = nkvx_obj_unref(nkvx_run_on_object_locked(Ref(g, o), m, o, r), {Pin(o)}) =>
            Rested(h) /\ LeavesContent(g, h)

RestedInvalidateLaw ==
    \A g, h : Rested(g) => \A k \in Key :
        h = nkvx_cache_invalidate_locked(g, k) =>
            Rested(h) /\ LeavesContent(g, h) /\ \A o \in DOMAIN h.ent : h.ent[o].obj_key # k

RestedFillLaw ==
    \A g, h : Rested(g) => \A k \in Key : \A v \in Value : \A o \in Obj \ DOMAIN g.ent :
        nkvx_obj_lookup(g, k) = {} /\ h = ColdFill(g, k, v, o) =>
            Rested(h) /\ FillKeeps(g, h, k, v, o) /\ (ObjectsFit => o \in DOMAIN h.ent)

RestLaws ==
    /\ LookupLaw /\ RestedEmptyLaw /\ RestedRunLaw /\ PinnedRunLaw
    /\ RestedInvalidateLaw /\ RestedFillLaw
================================================================================
