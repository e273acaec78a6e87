-------------------------- MODULE CacheSteps_proofs ----------------------------
(********************************************************************************)
(* What a pin, a run and a cold fill leave of the caches, for any pins; and     *)
(* what they leave of caches that are at rest, as the executor has them between *)
(* two verbs.                                                                   *)
(********************************************************************************)
EXTENDS ObjectCache_proofs, CacheAtRest

\* A leaf that names no backend goes to Zenon.
USE ZenonT(60)

\* Ref, field by field.
LEMMA RefFields ==
    ASSUME NEW g, Listed(g), NEW o \in DOMAIN g.ent, NEW h, h = Ref(g, o)
    PROVE  OnePinMore(g, h, o)
<1> DEFINE e == [g.ent[o] EXCEPT !.refcount = g.ent[o].refcount + 1]
           ent == [g.ent EXCEPT ![o] = e]
<1>1. h = [g EXCEPT !.ent = ent]
  BY DEF Ref
<1>2. /\ DOMAIN ent = DOMAIN g.ent /\ ent[o] = e
      /\ \A p \in DOMAIN g.ent : p # o => ent[p] = g.ent[p]
  <2> HIDE DEF e
  <2> QED OBVIOUS
<1> HIDE DEF ent
<1>3. /\ IsCache(h) /\ h.objects = g.objects /\ h.ent = ent /\ h.obj_bytes = g.obj_bytes
      /\ h.warm = g.warm
  BY <1>1 DEF Listed, IsCache
<1>4. \A p \in DOMAIN g.ent : g.ent[p] \in ObjEntry /\ g.ent[p].refcount \in Nat
  BY EntriesFinite DEF Listed
<1>5. /\ e \in ObjEntry /\ e.refcount = g.ent[o].refcount + 1 /\ e.dead = g.ent[o].dead
      /\ e.content = g.ent[o].content
      /\ e.obj_key = g.ent[o].obj_key /\ e.mem_cap = g.ent[o].mem_cap
  BY <1>4, EntryRef, SMT
<1> HIDE DEF e
<1>6. ASSUME NEW p \in DOMAIN g.ent
      PROVE  /\ h.ent[p] \in ObjEntry
             /\ h.ent[p].refcount = g.ent[p].refcount + One({o}, p)
             /\ h.ent[p].dead = g.ent[p].dead
             /\ h.ent[p].content = g.ent[p].content
             /\ h.ent[p].obj_key = g.ent[p].obj_key
             /\ h.ent[p].mem_cap = g.ent[p].mem_cap
  <2>1. CASE p = o
    BY <1>2, <1>3, <1>5, <2>1 DEF One
  <2>2. CASE p # o
    BY <1>2, <1>3, <1>4, <2>2, SMT DEF One
  <2> QED BY <2>1, <2>2
<1> QED BY <1>2, <1>3, <1>6 DEF OnePinMore

\* Another list or bookkeeping over the same entries is as well formed.
LEMMA SameEntries ==
    ASSUME NEW g, Listed(g), NEW h, IsCache(h), DOMAIN h.ent = DOMAIN g.ent,
           h.obj_bytes = g.obj_bytes, h.objects \in Seq(Obj), Once(h.objects),
           Range(h.objects) = Range(g.objects), h.warm \in Seq(WarmEntry), Once(h.warm),
           \A o \in DOMAIN g.ent : h.ent[o] \in ObjEntry /\ h.ent[o].mem_cap = g.ent[o].mem_cap
    PROVE  Listed(h)
<1>1. BytesOf(h, DOMAIN g.ent) = BytesOf(g, DOMAIN g.ent)
  BY BytesSame
<1> QED BY <1>1 DEF Listed

\* A pin more, counted.
LEMMA RefSound ==
    ASSUME NEW g, NEW pins, Sound(g, pins), NEW o \in DOMAIN g.ent,
           NEW after, OneMore(pins, after, o), NEW h, h = Ref(g, o)
    PROVE  Sound(h, after)
<1>0. Listed(g) /\ Aliased(g) /\ Counted(g, pins) /\ pins \in [Obj -> Nat]
  BY DEF Sound, Counted
<1>1. /\ IsCache(h) /\ h.objects = g.objects /\ h.obj_bytes = g.obj_bytes
      /\ h.warm = g.warm /\ DOMAIN h.ent = DOMAIN g.ent
      /\ \A p \in DOMAIN g.ent :
            /\ h.ent[p] \in ObjEntry
            /\ h.ent[p].refcount = g.ent[p].refcount + One({o}, p)
            /\ h.ent[p].dead = g.ent[p].dead
            /\ h.ent[p].obj_key = g.ent[p].obj_key
            /\ h.ent[p].mem_cap = g.ent[p].mem_cap
  <2>1. OnePinMore(g, h, o)
    BY <1>0, RefFields
  <2> QED BY <2>1 DEF OnePinMore
<1>2. Listed(h)
  <2>1. /\ g.objects \in Seq(Obj) /\ Once(g.objects)
        /\ g.warm \in Seq(WarmEntry) /\ Once(g.warm)
    BY <1>0 DEF Listed
  <2> QED BY <1>0, <1>1, <2>1, SameEntries
<1>3. Aliased(h)
  BY <1>0, <1>1 DEF Aliased
<1>4. Counted(h, after)
  <2>1. ASSUME NEW p \in Obj \ DOMAIN h.ent PROVE after[p] = 0
    BY <1>0, <1>1, SMT DEF Counted, One, OneMore
  <2>2. ASSUME NEW p \in DOMAIN h.ent
        PROVE  /\ h.ent[p].refcount = after[p] + WarmPins(h, p)
               /\ h.ent[p].dead => h.ent[p].refcount > 0
    <3>1. /\ g.ent[p].refcount = pins[p] + WarmPins(g, p)
          /\ g.ent[p].dead => g.ent[p].refcount > 0
      BY <1>0, <1>1 DEF Counted
    <3>2. WarmPins(h, p) = WarmPins(g, p)
      BY <1>1 DEF WarmPins
    <3>6. WarmPins(g, p) \in Nat
      BY <1>0, WarmPinsNat
    <3>3. p \in Obj
      BY <1>0, <1>1, EntriesFinite
    <3>4. pins[p] \in Nat /\ after[p] = pins[p] + One({o}, p) /\ One({o}, p) \in {0, 1}
      BY <1>0, <3>3 DEF One, OneMore
    <3>5. h.ent[p].refcount = g.ent[p].refcount + One({o}, p) /\ h.ent[p].dead = g.ent[p].dead
      BY <1>1
    <3> QED BY <3>1, <3>2, <3>4, <3>5, <3>6, SMT
  <2> QED BY <2>1, <2>2 DEF Counted, OneMore
<1> QED BY <1>2, <1>3, <1>4 DEF Sound

\* A pin on o dropped.
LEMMA UnrefOneSound ==
    ASSUME NEW g, NEW pins, Sound(g, pins), NEW o \in DOMAIN g.ent,
           NEW after \in [Obj -> Nat], OneMore(after, pins, o),
           NEW h, h = nkvx_obj_unref(g, {Pin(o)})
    PROVE  Sound(h, after) /\ Keeps(g, h) /\ h.warm = g.warm
           /\ \A p \in DOMAIN h.ent : h.ent[p].dead = g.ent[p].dead
<1> DEFINE P == PinSet({o})
<1>1. IsFiniteSet({o})
  BY FS_Singleton
<1>2. IsFiniteSet(P) /\ (\A p \in P : p.obj \in {o}) /\ \A p : Count(P, p) = One({o}, p)
  BY <1>1, PinsOf
<1>3. P = {Pin(o)}
  BY DEF PinSet
<1> HIDE DEF P
<1>4. h = nkvx_obj_unref(g, P)
  BY <1>3
<1>5. /\ \A p \in P : p.obj \in DOMAIN g.ent
      /\ \A p \in Obj : pins[p] = after[p] + Count(P, p)
  BY <1>2 DEF OneMore
<1>6. Sound(h, after)
  BY <1>2, <1>4, <1>5, UnrefSound
<1>7. Listed(g)
  BY DEF Sound
<1>8. /\ Keeps(g, h) /\ h.warm = g.warm
      /\ \A p \in DOMAIN h.ent : h.ent[p].dead = g.ent[p].dead
  BY <1>4, <1>7, UnrefKeeps, SMT DEF Keeps
<1> QED BY <1>6, <1>8

\* nkvx_obj_touch moves an entry on the list and nothing else.
LEMMA TouchSound ==
    ASSUME NEW g, NEW pins, Sound(g, pins), NEW o \in DOMAIN g.ent,
           NEW h, h = nkvx_obj_touch(g, o)
    PROVE  Sound(h, pins) /\ h.ent = g.ent /\ h.warm = g.warm /\ Range(h.objects) = Range(g.objects)
<1> DEFINE s == Append(Without(g.objects, {o}), o)
<1>0. /\ Listed(g) /\ g.objects \in Seq(Obj) /\ Once(g.objects)
      /\ o \in Range(g.objects) /\ o \in Obj /\ IsCache(g)
      /\ g.warm \in Seq(WarmEntry) /\ Once(g.warm)
      /\ \A p \in DOMAIN g.ent : g.ent[p] \in ObjEntry
  BY EntriesFinite DEF Sound, Listed
<1>1. h = [g EXCEPT !.objects = s]
  BY DEF nkvx_obj_touch
<1>2. s \in Seq(Obj) /\ Once(s) /\ Range(s) = Range(g.objects)
  <2> DEFINE t == Without(g.objects, {o})
  <2>1. t \in Seq(Obj) /\ Once(t) /\ Range(t) = Range(g.objects) \ {o}
    BY <1>0, WithoutList, SMT
  <2> HIDE DEF t
  <2>2. /\ Append(t, o) \in Seq(Obj) /\ Range(Append(t, o)) = Range(t) \cup {o}
        /\ Once(Append(t, o))
    BY <1>0, <2>1, AppendList, SMT
  <2> QED BY <1>0, <2>1, <2>2 DEF t
<1> HIDE DEF s
<1>3. /\ IsCache(h) /\ h.objects = s /\ h.ent = g.ent /\ h.obj_bytes = g.obj_bytes
      /\ h.warm = g.warm
  BY <1>0, <1>1 DEF IsCache
<1>4. Listed(h)
  BY <1>0, <1>2, <1>3, SameEntries
<1>5. \A p : WarmPins(h, p) = WarmPins(g, p)
  BY <1>3 DEF WarmPins
<1>6. Aliased(h) /\ Counted(h, pins)
  BY <1>3, <1>5 DEF Sound, Aliased, Counted
<1> QED BY <1>2, <1>3, <1>4, <1>6 DEF Sound

--------------------------------------------------------------------------------

\* What is in use stays in use over a run.
LEMMA HeldStays ==
    ASSUME NEW g, NEW pins, Sound(g, pins), NEW o, Held(g, pins, o), NEW m,
           NEW h, Sound(h, pins), RunKeeps(g, h, m)
    PROVE  Held(h, pins, o)
<1>1. o \in DOMAIN h.ent
  <2> SUFFICES ASSUME o \notin DOMAIN h.ent PROVE FALSE
    OBVIOUS
  <2>1. g.ent[o].dead /\ pins[o] > 0
    BY DEF Held, RunKeeps
  <2>2. o \in Obj
    BY EntriesFinite DEF Held, Sound
  <2>3. pins[o] = 0
    BY <2>2 DEF Sound, Counted
  <2> QED BY <2>1, <2>3, SMT
<1> QED BY <1>1 DEF Held, RunKeeps

\* A warm entry more on o.
NewWarm(g, m, o) == [module |-> m, obj_key |-> g.ent[o].obj_key, obj |-> o]
WarmAdded(g, o, w) == [Ref(g, o) EXCEPT !.warm = Append(@, w)]

\* A new warm entry comes with its pin.
LEMMA WarmAddSound ==
    ASSUME NEW g, NEW pins, Sound(g, pins), NEW o \in DOMAIN g.ent, NEW m \in Module,
           \A w \in Range(g.warm) : ~ (w.obj = o /\ w.module = m),
           NEW w, w = NewWarm(g, m, o), NEW u, u = WarmAdded(g, o, w)
    PROVE  /\ Sound(u, pins) /\ DOMAIN u.ent = DOMAIN g.ent
           /\ \A p \in DOMAIN g.ent : /\ u.ent[p].dead = g.ent[p].dead
                                      /\ u.ent[p].content = g.ent[p].content
                                      /\ u.ent[p].obj_key = g.ent[p].obj_key
                                      /\ u.ent[p].mem_cap = g.ent[p].mem_cap
           /\ Range(u.warm) = Range(g.warm) \cup {w}
<1> PICK r : r = Ref(g, o)
  OBVIOUS
<1>0. Listed(g) /\ Aliased(g) /\ Counted(g, pins) /\ pins \in [Obj -> Nat]
  BY DEF Sound, Counted
<1>1. /\ IsCache(r) /\ r.objects = g.objects /\ r.obj_bytes = g.obj_bytes
      /\ r.warm = g.warm /\ DOMAIN r.ent = DOMAIN g.ent
      /\ \A p \in DOMAIN g.ent :
            /\ r.ent[p] \in ObjEntry
            /\ r.ent[p].refcount = g.ent[p].refcount + One({o}, p)
            /\ r.ent[p].dead = g.ent[p].dead
            /\ r.ent[p].content = g.ent[p].content
            /\ r.ent[p].obj_key = g.ent[p].obj_key
            /\ r.ent[p].mem_cap = g.ent[p].mem_cap
  <2>1. OnePinMore(g, r, o)
    BY <1>0, RefFields
  <2> QED BY <2>1 DEF OnePinMore
<1>2. /\ IsCache(u) /\ u.objects = r.objects /\ u.ent = r.ent /\ u.obj_bytes = r.obj_bytes
      /\ u.warm = Append(g.warm, w)
  BY <1>1 DEF IsCache, WarmAdded
<1>3. o \in Obj /\ g.ent[o].obj_key \in Key \cup {Truncated}
  BY <1>0, EntriesFinite DEF Listed, ObjEntry
<1>4. w \in WarmEntry /\ w.obj = o /\ w.module = m /\ w.obj_key = g.ent[o].obj_key
  BY <1>3 DEF WarmEntry, NewWarm
<1>5. w \notin Range(g.warm)
  BY <1>4
<1>6. /\ g.objects \in Seq(Obj) /\ Once(g.objects)
      /\ g.warm \in Seq(WarmEntry) /\ Once(g.warm)
  BY <1>0 DEF Listed
<1>7. u.warm \in Seq(WarmEntry) /\ Once(u.warm) /\ Range(u.warm) = Range(g.warm) \cup {w}
  BY <1>2, <1>4, <1>5, <1>6, AppendList, SMT
<1>8. Listed(u)
  <2>1. /\ DOMAIN u.ent = DOMAIN g.ent /\ u.obj_bytes = g.obj_bytes
        /\ u.objects \in Seq(Obj) /\ Once(u.objects) /\ Range(u.objects) = Range(g.objects)
    BY <1>1, <1>2, <1>6
  <2>2. \A p \in DOMAIN g.ent : u.ent[p] \in ObjEntry /\ u.ent[p].mem_cap = g.ent[p].mem_cap
    BY <1>1, <1>2
  <2>3. IsCache(u) /\ Listed(g) /\ u.warm \in Seq(WarmEntry) /\ Once(u.warm)
    BY <1>0, <1>2, <1>7
  <2> QED BY <2>1, <2>2, <2>3, SameEntries
<1>9. Aliased(u)
  BY <1>0, <1>1, <1>2, <1>4, <1>7, SMT DEF Aliased
<1>10. ASSUME NEW p \in DOMAIN g.ent
       PROVE  WarmPins(u, p) = WarmPins(g, p) + One({o}, p) /\ WarmPins(g, p) \in Nat
  <2> DEFINE A == {x \in Range(g.warm) : x.obj = p}
  <2>1. IsFiniteSet(A)
    BY <1>0, WarmPinsNat, CountNat
  <2>2. WarmPins(g, p) \in Nat /\ WarmPins(g, p) = Cardinality(A)
    BY <1>0, WarmPinsNat DEF WarmPins
  <2>3. CASE p = o
    <3>1. {x \in Range(u.warm) : x.obj = p} = A \cup {w} /\ w \notin A
      BY <1>4, <1>5, <1>7, <2>3
    <3>2. Cardinality(A \cup {w}) = Cardinality(A) + 1
      BY <2>1, <3>1, FS_AddElement
    <3>3. WarmPins(u, p) = Cardinality(A) + 1
      BY <3>1, <3>2 DEF WarmPins
    <3> QED BY <2>2, <2>3, <3>3 DEF One
  <2>4. CASE p # o
    <3>1. {x \in Range(u.warm) : x.obj = p} = A
      BY <1>4, <1>7, <2>4
    <3>2. WarmPins(u, p) = Cardinality(A)
      BY <3>1 DEF WarmPins
    <3> QED BY <2>2, <2>4, <3>2, SMT DEF One
  <2> QED BY <2>3, <2>4
<1>11. Counted(u, pins)
  <2>1. ASSUME NEW p \in DOMAIN u.ent
        PROVE  /\ u.ent[p].refcount = pins[p] + WarmPins(u, p)
               /\ u.ent[p].dead => u.ent[p].refcount > 0
    <3>1. p \in DOMAIN g.ent /\ p \in Obj
      BY <1>0, <1>1, <1>2, EntriesFinite
    <3>2. /\ g.ent[p].refcount = pins[p] + WarmPins(g, p)
          /\ g.ent[p].dead => g.ent[p].refcount > 0
          /\ pins[p] \in Nat
      BY <1>0, <3>1 DEF Counted
    <3>3. u.ent[p].refcount = g.ent[p].refcount + One({o}, p) /\ u.ent[p].dead = g.ent[p].dead
      BY <1>1, <1>2, <3>1
    <3>4. WarmPins(u, p) = WarmPins(g, p) + One({o}, p) /\ WarmPins(g, p) \in Nat
      BY <1>10, <3>1
    <3>5. One({o}, p) \in {0, 1}
      BY DEF One
    <3> QED BY <3>2, <3>3, <3>4, <3>5, SMT
  <2> QED BY <2>1, <1>0, <1>1, <1>2 DEF Counted
<1> QED BY <1>1, <1>2, <1>7, <1>8, <1>9, <1>11 DEF Sound

\* nkvx_warm_build keeps the account and the cap.
LEMMA BuildSound ==
    ASSUME NEW g, NEW pins, Sound(g, pins),
           NEW o \in DOMAIN g.ent, NEW m \in Module,
           \A w \in Range(g.warm) : ~ (w.obj = o /\ w.module = m),
           NEW h, h = nkvx_warm_build(g, m, o)
    PROVE  Sound(h, pins) /\ RunKeeps(g, h, m) /\ (MaxWarm # 0 => Len(h.warm) =< MaxWarm)
<1> DEFINE w == NewWarm(g, m, o)
           u == WarmAdded(g, o, w)
<1>1. h = nkvx_warm_cache_enforce_caps(u)
  BY DEF nkvx_warm_build, NewWarm, WarmAdded
<1>2. /\ Sound(u, pins) /\ DOMAIN u.ent = DOMAIN g.ent
      /\ \A p \in DOMAIN g.ent : /\ u.ent[p].dead = g.ent[p].dead
                                 /\ u.ent[p].content = g.ent[p].content
                                 /\ u.ent[p].obj_key = g.ent[p].obj_key
                                 /\ u.ent[p].mem_cap = g.ent[p].mem_cap
  BY WarmAddSound, SMT
<1> HIDE DEF u
<1>3. /\ Sound(h, pins) /\ Keeps(u, h)
      /\ \A p \in DOMAIN h.ent : h.ent[p].dead = u.ent[p].dead
      /\ \A p \in DOMAIN u.ent \ DOMAIN h.ent : u.ent[p].dead
      /\ MaxWarm # 0 => Len(h.warm) =< MaxWarm
  BY <1>1, <1>2, WarmCapsSound, SMT
<1>4. RunKeeps(g, h, m)
  BY <1>2, <1>3, SMT DEF RunKeeps, Keeps
<1> QED BY <1>3, <1>4

--------------------------------------------------------------------------------
\* A member moved to the tail.
Moved(s, x) == Append(Without(s, {x}), x)

\* A member moved to the tail.
LEMMA MovedList ==
    ASSUME NEW A, NEW s \in Seq(A), Once(s), NEW x \in Range(s)
    PROVE  /\ Moved(s, x) \in Seq(A) /\ Once(Moved(s, x))
           /\ Range(Moved(s, x)) = Range(s) /\ Len(Moved(s, x)) = Len(s)
<1> DEFINE t == Without(s, {x})
<1>1. t \in Seq(A) /\ Once(t) /\ Range(t) = Range(s) \ {x} /\ x \in A
  BY WithoutList, RangeFinite
<1> HIDE DEF t
<1>2. /\ Append(t, x) \in Seq(A) /\ Range(Append(t, x)) = Range(t) \cup {x}
      /\ Once(Append(t, x))
  BY <1>1, AppendList, SMT
<1>3. /\ Moved(s, x) \in Seq(A) /\ Once(Moved(s, x)) /\ Range(Moved(s, x)) = Range(s)
  BY <1>1, <1>2 DEF Moved, t
<1>4. Cardinality(Range(s)) = Len(s) /\ Cardinality(Range(Moved(s, x))) = Len(Moved(s, x))
  BY <1>3, OnceCard
<1> QED BY <1>3, <1>4

\* The warm entry w becomes the most recently used.
WarmTouched(g, w) == [g EXCEPT !.warm = Moved(@, w)]

\* A warm hit moves the warm entry to the tail.
LEMMA WarmTouchSound ==
    ASSUME NEW g, NEW pins, Sound(g, pins), NEW w \in Range(g.warm),
           NEW h, h = WarmTouched(g, w)
    PROVE  Sound(h, pins) /\ h.ent = g.ent /\ Len(h.warm) = Len(g.warm)
<1>0. /\ Listed(g) /\ g.objects \in Seq(Obj) /\ Once(g.objects) /\ IsCache(g)
      /\ g.warm \in Seq(WarmEntry) /\ Once(g.warm)
      /\ \A p \in DOMAIN g.ent : g.ent[p] \in ObjEntry
  BY DEF Sound, Listed
<1> DEFINE s == Moved(g.warm, w)
<1>1. s \in Seq(WarmEntry) /\ Once(s) /\ Range(s) = Range(g.warm) /\ Len(s) = Len(g.warm)
  BY <1>0, MovedList
<1> HIDE DEF s
<1>2. h = [g EXCEPT !.warm = s]
  BY DEF WarmTouched, s
<1>3. /\ IsCache(h) /\ h.objects = g.objects /\ h.ent = g.ent /\ h.obj_bytes = g.obj_bytes
      /\ h.warm = s
  BY <1>0, <1>2 DEF IsCache
<1>4. Listed(h)
  BY <1>0, <1>1, <1>3, SameEntries
<1>5. \A p : WarmPins(h, p) = WarmPins(g, p)
  BY <1>1, <1>3 DEF WarmPins
<1>6. Aliased(h) /\ Counted(h, pins)
  BY <1>1, <1>3, <1>5 DEF Sound, Aliased, Counted
<1> QED BY <1>1, <1>3, <1>4, <1>6 DEF Sound

\* The content of one entry overwritten.
LEMMA ClobberSound ==
    ASSUME NEW g, NEW pins, Sound(g, pins), NEW o \in DOMAIN g.ent, NEW m,
           NEW h, h = Clobber(g, m, o)
    PROVE  Sound(h, pins) /\ RunKeeps(g, h, m) /\ h.warm = g.warm
<1>1. CASE m \notin LongResult
  <2>1. h = g
    BY <1>1 DEF Clobber
  <2> QED BY <2>1 DEF RunKeeps
<1>2. CASE m \in LongResult
  <2>0. /\ Listed(g) /\ g.objects \in Seq(Obj) /\ Once(g.objects) /\ IsCache(g)
        /\ g.warm \in Seq(WarmEntry) /\ Once(g.warm)
        /\ \A p \in DOMAIN g.ent : g.ent[p] \in ObjEntry
    BY DEF Sound, Listed
  <2> DEFINE e == [g.ent[o] EXCEPT !.content = Clobbered]
             ent == [g.ent EXCEPT ![o] = e]
  <2>1. h = [g EXCEPT !.ent = ent]
    BY <1>2 DEF Clobber
  <2>2. /\ DOMAIN ent = DOMAIN g.ent /\ ent[o] = e
        /\ \A p \in DOMAIN g.ent : p # o => ent[p] = g.ent[p]
    <3> HIDE DEF e
    <3> QED OBVIOUS
  <2> HIDE DEF ent
  <2>3. /\ IsCache(h) /\ h.objects = g.objects /\ h.ent = ent /\ h.obj_bytes = g.obj_bytes
        /\ h.warm = g.warm
    BY <2>0, <2>1 DEF IsCache
  <2>4. g.ent[o] \in ObjEntry
    BY <2>0
  <2>5. /\ e \in ObjEntry /\ e.refcount = g.ent[o].refcount /\ e.dead = g.ent[o].dead
        /\ e.obj_key = g.ent[o].obj_key /\ e.mem_cap = g.ent[o].mem_cap
    BY <2>4 DEF ObjEntry
  <2> HIDE DEF e
  <2>6. /\ DOMAIN h.ent = DOMAIN g.ent
        /\ \A p \in DOMAIN g.ent : /\ h.ent[p] \in ObjEntry
                                   /\ h.ent[p].refcount = g.ent[p].refcount
                                   /\ h.ent[p].dead = g.ent[p].dead
                                   /\ h.ent[p].obj_key = g.ent[p].obj_key
                                   /\ h.ent[p].mem_cap = g.ent[p].mem_cap
    BY <2>0, <2>2, <2>3, <2>5
  <2>7. Listed(h)
    BY <2>0, <2>3, <2>6, SameEntries
  <2>8. \A p : WarmPins(h, p) = WarmPins(g, p)
    BY <2>3 DEF WarmPins
  <2>9. Aliased(h)
    BY <2>3, <2>6, SMT DEF Sound, Aliased
  <2>10. Counted(h, pins)
    BY <2>6, <2>8, SMT DEF Sound, Counted
  <2> QED BY <1>2, <2>3, <2>6, <2>7, <2>9, <2>10 DEF Sound, RunKeeps
<1> QED BY <1>1, <1>2

\* What two steps of a run keep, the run keeps.
LEMMA RunKeepsTwice ==
    ASSUME NEW g, NEW h, NEW u, NEW m, RunKeeps(g, u, m), RunKeeps(u, h, m)
    PROVE  RunKeeps(g, h, m)
  BY DEF RunKeeps

\* nkvx_run_on_object_locked of an entry in use.
LEMMA RunSound ==
    ASSUME NEW g, NEW pins, Sound(g, pins),
           NEW o, Held(g, pins, o), NEW m \in Module, NEW r \in RunOutcome,
           NEW h, h = nkvx_run_on_object_locked(g, m, o, r)
    PROVE  /\ Sound(h, pins) /\ RunKeeps(g, h, m) /\ Held(h, pins, o)
           /\ WarmCapped(g) => WarmCapped(h)
<1> DEFINE hits == {w \in Range(g.warm) : w.obj = o /\ w.module = m}
           hit == FirstOf(g.warm, hits)
           ready == IF hits # {} THEN WarmTouched(g, hit) ELSE nkvx_warm_build(g, m, o)
<1>0. o \in DOMAIN g.ent /\ g.warm \in Seq(WarmEntry)
  BY DEF Held, Sound, Listed
<1>1. h \in {Clobber(ready, m, o), ready, g}
  BY DEF nkvx_run_on_object_locked, With, RunOutcome, WarmTouched, Moved
<1>2. Sound(ready, pins) /\ RunKeeps(g, ready, m) /\ (WarmCapped(g) => WarmCapped(ready))
  <2>1. CASE hits # {}
    <3>1. hit \in Range(g.warm)
      <4>1. hit \in hits
        <5> HIDE DEF hit
        <5>1. hits \subseteq Range(g.warm)
          OBVIOUS
        <5> HIDE DEF hits
        <5> QED BY <1>0, <2>1, <5>1, FirstIsMember DEF hit
      <4> HIDE DEF hit
      <4> QED BY <4>1
    <3>2. ready = WarmTouched(g, hit)
      BY <2>1
    <3> HIDE DEF ready, hit, hits
    <3>3. Sound(ready, pins) /\ ready.ent = g.ent /\ Len(ready.warm) = Len(g.warm)
      BY <3>1, <3>2, WarmTouchSound
    <3> QED BY <3>3 DEF RunKeeps, WarmCapped
  <2>2. CASE hits = {}
    <3>1. \A w \in Range(g.warm) : ~ (w.obj = o /\ w.module = m)
      BY <2>2
    <3>2. ready = nkvx_warm_build(g, m, o)
      BY <2>2
    <3> HIDE DEF ready, hit, hits
    <3>3. Sound(ready, pins) /\ RunKeeps(g, ready, m) /\ (MaxWarm # 0 => Len(ready.warm) =< MaxWarm)
      BY <1>0, <3>1, <3>2, BuildSound
    <3> QED BY <3>3 DEF WarmCapped
  <2> QED BY <2>1, <2>2
<1> HIDE DEF ready
<1>3. Held(ready, pins, o)
  BY <1>2, HeldStays
<1>4. o \in DOMAIN ready.ent
  BY <1>3 DEF Held
<1>5. PICK c : c = Clobber(ready, m, o)
  OBVIOUS
<1>6. Sound(c, pins) /\ RunKeeps(ready, c, m) /\ c.warm = ready.warm
  BY <1>2, <1>4, <1>5, ClobberSound
<1>7. RunKeeps(g, c, m) /\ (WarmCapped(g) => WarmCapped(c))
  BY <1>2, <1>6, RunKeepsTwice DEF WarmCapped
<1>8. RunKeeps(g, g, m)
  BY DEF RunKeeps
<1>9. Sound(h, pins) /\ RunKeeps(g, h, m) /\ (WarmCapped(g) => WarmCapped(h))
  BY <1>1, <1>2, <1>5, <1>6, <1>7, <1>8
<1>10. Held(h, pins, o)
  BY <1>9, HeldStays
<1> QED BY <1>9, <1>10

--------------------------------------------------------------------------------
\* The entry of a fill, and the cache with it before the caps are enforced.
FilledEntry(k, v) ==
    [obj_key |-> StoredKey(k), content |-> v, mem_cap |-> Pages[v],
     refcount |-> 0, dead |-> FALSE]
WithEntry(g, o, e) ==
    [g EXCEPT !.ent = [p \in DOMAIN @ \cup {o} |-> IF p = o THEN e ELSE @[p]]]
Filled(g, k, v, o) == nkvx_obj_list_add(WithEntry(g, o, FilledEntry(k, v)), o)

\* The fields of a filled entry.
LEMMA EntryFilled ==
    ASSUME NEW k \in Key, NEW v \in Value, NEW e, e = FilledEntry(k, v)
    PROVE  /\ e \in ObjEntry /\ e.obj_key = StoredKey(k) /\ e.content = v
           /\ e.mem_cap = Pages[v] /\ e.refcount = 0 /\ ~ e.dead
           /\ Pages[v] \in Nat
<1>1. StoredKey(k) \in Key \cup {Truncated} /\ Pages[v] \in Nat
  BY CacheAssumption DEF StoredKey
<1> QED BY <1>1 DEF FilledEntry, ObjEntry

\* f is g with the entry e at o.
OneEntryMore(g, f, o, e) ==
    /\ IsCache(f) /\ f.objects = Append(g.objects, o) /\ f.warm = g.warm
    /\ f.obj_bytes = g.obj_bytes + e.mem_cap
    /\ DOMAIN f.ent = DOMAIN g.ent \cup {o} /\ f.ent[o] = e
    /\ \A p \in DOMAIN g.ent : f.ent[p] = g.ent[p]

\* The cache with the filled entry on its list, field by field.
LEMMA FillFields ==
    ASSUME NEW g, IsCache(g), NEW o, o \notin DOMAIN g.ent, NEW e, NEW u, u = WithEntry(g, o, e),
           NEW f, f = nkvx_obj_list_add(u, o)
    PROVE  OneEntryMore(g, f, o, e)
<1> DEFINE ent == [p \in DOMAIN g.ent \cup {o} |-> IF p = o THEN e ELSE g.ent[p]]
<1>1. u = [g EXCEPT !.ent = ent]
  BY DEF WithEntry
<1>2. /\ DOMAIN ent = DOMAIN g.ent \cup {o} /\ ent[o] = e
      /\ \A p \in DOMAIN g.ent : ent[p] = g.ent[p]
  OBVIOUS
<1> HIDE DEF ent
<1>3. IsCache(u) /\ u.objects = g.objects /\ u.ent = ent /\ u.obj_bytes = g.obj_bytes /\ u.warm = g.warm
  BY <1>1 DEF IsCache
<1>4. f = [u EXCEPT !.objects = Append(u.objects, o), !.obj_bytes = u.obj_bytes + u.ent[o].mem_cap]
  BY DEF nkvx_obj_list_add
<1> DEFINE a == Append(u.objects, o)
           b == u.obj_bytes + u.ent[o].mem_cap
<1> HIDE DEF a, b
<1>5. f = [u EXCEPT !.objects = a, !.obj_bytes = b]
  BY <1>4 DEF a, b
<1>6. IsCache(f) /\ f.objects = a /\ f.ent = u.ent /\ f.obj_bytes = b /\ f.warm = u.warm
  BY <1>3, <1>5 DEF IsCache
<1> QED BY <1>2, <1>3, <1>6 DEF a, b, OneEntryMore

\* A fill, before the caps are enforced, keeps the account.
LEMMA FillSound ==
    ASSUME NEW g, NEW pins, Sound(g, pins),
           NEW k \in Key, NEW v \in Value, NEW o \in Obj, o \notin DOMAIN g.ent,
           NEW f, f = Filled(g, k, v, o)
    PROVE  /\ Sound(f, pins) /\ f.objects = Append(g.objects, o) /\ f.warm = g.warm
           /\ DOMAIN f.ent = DOMAIN g.ent \cup {o} /\ f.ent[o] = FilledEntry(k, v)
           /\ \A p \in DOMAIN g.ent : f.ent[p] = g.ent[p]
<1> PICK e : e = FilledEntry(k, v)
  OBVIOUS
<1>0. /\ Listed(g) /\ Aliased(g) /\ Counted(g, pins) /\ g.objects \in Seq(Obj) /\ Once(g.objects)
      /\ IsCache(g) /\ DOMAIN g.ent = Range(g.objects)
      /\ g.obj_bytes = BytesOf(g, DOMAIN g.ent)
      /\ \A p \in DOMAIN g.ent : g.ent[p] \in ObjEntry
      /\ g.warm \in Seq(WarmEntry) /\ Once(g.warm)
  BY DEF Sound, Listed
<1>1. /\ e \in ObjEntry /\ e.mem_cap \in Nat /\ e.refcount = 0 /\ ~ e.dead
  BY EntryFilled, SMT
<1>2. /\ IsCache(f) /\ f.objects = Append(g.objects, o) /\ f.warm = g.warm
      /\ f.obj_bytes = g.obj_bytes + e.mem_cap
      /\ DOMAIN f.ent = DOMAIN g.ent \cup {o} /\ f.ent[o] = e
      /\ \A p \in DOMAIN g.ent : f.ent[p] = g.ent[p]
  <2> PICK u : u = WithEntry(g, o, e)
    OBVIOUS
  <2>1. f = nkvx_obj_list_add(u, o)
    BY DEF Filled
  <2>2. OneEntryMore(g, f, o, e)
    BY <1>0, <2>1, FillFields
  <2> QED BY <2>2 DEF OneEntryMore
<1>3. /\ f.objects \in Seq(Obj) /\ Once(f.objects) /\ Range(f.objects) = DOMAIN f.ent
  <2> PICK s : s = Append(g.objects, o)
    OBVIOUS
  <2>1. s \in Seq(Obj) /\ Once(s) /\ Range(s) = Range(g.objects) \cup {o}
    BY <1>0, AppendList, SMT
  <2> QED BY <1>0, <1>2, <2>1
<1>4. f.obj_bytes = BytesOf(f, DOMAIN f.ent)
  <2> DEFINE D == DOMAIN g.ent
             O == {o}
  <2>1. IsFiniteSet(D) /\ \A p \in D : g.ent[p].mem_cap \in Nat
    BY <1>0, EntriesFinite
  <2>2. IsFiniteSet(O) /\ D \cap O = {}
    BY FS_Singleton
  <2>3. \A p \in D \cup O : f.ent[p].mem_cap \in Nat
    BY <1>1, <1>2, <2>1
  <2>4. BytesOf(f, O) = e.mem_cap
    <3>1. f.ent[o].mem_cap = e.mem_cap /\ f.ent[o].mem_cap \in Nat
      BY <1>1, <1>2
    <3> QED BY <3>1, BytesOne
  <2>5. BytesOf(f, D) = BytesOf(g, D)
    BY <1>2, BytesSame, SMT
  <2> HIDE DEF D, O
  <2>6. BytesOf(f, D \cup O) = BytesOf(f, D) + BytesOf(f, O)
    BY <2>1, <2>2, <2>3, BytesAdd
  <2> QED BY <1>0, <1>2, <2>4, <2>5, <2>6 DEF D, O
<1>5. Listed(f)
  BY <1>0, <1>1, <1>2, <1>3, <1>4 DEF Listed
<1>6. Aliased(f)
  BY <1>0, <1>2 DEF Aliased
<1>7. Counted(f, pins)
  <2>0. \A p : WarmPins(f, p) = WarmPins(g, p)
    BY <1>2 DEF WarmPins
  <2>1. WarmPins(g, o) = 0
    BY <1>0, WarmPinsNat, SMT DEF Aliased
  <2>2. pins[o] = 0 /\ pins \in [Obj -> Nat] /\ \A p \in Obj \ DOMAIN g.ent : pins[p] = 0
    BY <1>0 DEF Counted
  <2>3. \A p \in DOMAIN g.ent : /\ g.ent[p].refcount = pins[p] + WarmPins(g, p)
                                /\ g.ent[p].dead => g.ent[p].refcount > 0
    BY <1>0 DEF Counted
  <2>4. \A p \in DOMAIN f.ent : /\ f.ent[p].refcount = pins[p] + WarmPins(f, p)
                                /\ f.ent[p].dead => f.ent[p].refcount > 0
    BY <1>1, <1>2, <2>0, <2>1, <2>2, <2>3, SMT
  <2> QED BY <1>2, <2>2, <2>4 DEF Counted
<1> QED BY <1>2, <1>5, <1>6, <1>7 DEF Sound

\* Enforcing the caps after a fill: some of the live entries go, all of them or
\* enough to hold the caps, and the filled one only when the others were not enough.
LEMMA ColdFillIs ==
    ASSUME NEW g, NEW pins, Sound(g, pins),
           NEW k \in Key, NEW v \in Value, NEW o \in Obj, o \notin DOMAIN g.ent,
           NEW f, f = Filled(g, k, v, o), NEW h, h = ColdFill(g, k, v, o)
    PROVE  \E S \in SUBSET Live(f) :
              /\ h = nkvx_obj_evict_locked(f, S)
              /\ S = Live(f) \/ ~ OverCaps(h)
              /\ o \in S => OverCaps(nkvx_obj_evict_locked(f, Live(f) \ {o}))
<1>0. /\ Sound(f, pins) /\ f.objects = Append(g.objects, o)
  BY FillSound, SMT
<1>1. h = nkvx_obj_cache_enforce_caps(f)
  BY DEF ColdFill, Filled, WithEntry, FilledEntry
<1>2. Listed(f) /\ Range(f.objects) = DOMAIN f.ent /\ Once(f.objects) /\ f.objects \in Seq(Obj)
  BY <1>0 DEF Sound, Listed
<1>3. PICK n \in 0..Len(f.objects) :
         /\ h = nkvx_obj_evict_locked(f, Oldest(f, n))
         /\ n = Len(f.objects) \/ ~ OverCaps(h)
         /\ \A m \in 0..Len(f.objects) :
               m < n => OverCaps(nkvx_obj_evict_locked(f, Oldest(f, m)))
  BY <1>1, <1>2, EnforceIs
<1> DEFINE L == Len(f.objects)
<1>4. L \in Nat /\ L > 0 /\ f.objects[L] = o /\ DOMAIN f.objects = 1..L
  <2>1. g.objects \in Seq(Obj)
    BY DEF Sound, Listed
  <2>2. Len(Append(g.objects, o)) = Len(g.objects) + 1 /\ Append(g.objects, o)[Len(g.objects) + 1] = o
    BY <2>1, AppendList, SMT
  <2> QED BY <1>0, <1>2, <2>1, <2>2, SMT
<1>5. Oldest(f, L) = Live(f)
  BY <1>4 DEF Oldest, Live, Range
<1>6. Oldest(f, L - 1) = Live(f) \ {o}
  <2>1. {f.objects[i] : i \in 1..(L - 1)} = Range(f.objects) \ {o}
    <3>1. ASSUME NEW i \in 1..L PROVE f.objects[i] = o <=> i = L
      <4>1. i \in DOMAIN f.objects /\ L \in DOMAIN f.objects
        BY <1>4, SMT
      <4> QED BY <1>2, <1>4, <4>1 DEF Once
    <3>2. \A i \in 1..L : i \in 1..(L - 1) <=> i # L
      BY <1>4, SMT
    <3>3. 1..(L - 1) \subseteq 1..L
      BY <1>4, SMT
    <3> HIDE DEF L
    <3> QED BY <1>4, <3>1, <3>2, <3>3 DEF Range
  <2> QED BY <2>1 DEF Oldest, Live
<1>7. o \in Oldest(f, n) => n = L
  <2> SUFFICES ASSUME NEW i \in 1..n, f.objects[i] = o PROVE n = L
    BY DEF Oldest
  <2>1. i = L
    BY <1>2, <1>4, SMT DEF Once
  <2> QED BY <2>1, <1>4, SMT
<1>8. L - 1 \in 0..L /\ (n = L => L - 1 < n)
  BY <1>4, SMT
<1> HIDE DEF L
<1>9. o \in Oldest(f, n) => OverCaps(nkvx_obj_evict_locked(f, Live(f) \ {o}))
  BY <1>3, <1>6, <1>7, <1>8 DEF L
<1>10. Oldest(f, n) \in SUBSET Live(f)
  BY DEF Oldest
<1>11. Oldest(f, n) = Live(f) \/ ~ OverCaps(h)
  BY <1>3, <1>5 DEF L
<1> QED BY <1>3, <1>9, <1>10, <1>11

--------------------------------------------------------------------------------
\* Fewer warm entries are within the cap too.
LEMMA FewerWarm ==
    ASSUME NEW g, Listed(g), NEW h, Listed(h), Range(h.warm) \subseteq Range(g.warm),
           WarmCapped(g)
    PROVE  WarmCapped(h)
<1> DEFINE R == Range(g.warm)
           Q == Range(h.warm)
<1>1. IsFiniteSet(R) /\ Cardinality(R) = Len(g.warm) /\ Cardinality(Q) = Len(h.warm)
  BY OnceCard DEF Listed
<1>2. Q \subseteq R
  OBVIOUS
<1> HIDE DEF Q, R
<1>3. Cardinality(Q) =< Cardinality(R)
  BY <1>1, <1>2, FS_Subset
<1>4. Len(g.warm) \in Nat /\ Len(h.warm) \in Nat /\ MaxWarm \in Nat
  BY CacheAssumption, SMT DEF Listed
<1> QED BY <1>1, <1>3, <1>4, SMT DEF WarmCapped

\* ColdFill: the filled entry is live or gone, and only a byte cap makes it go.
LEMMA ColdFillSound ==
    ASSUME NEW g, NEW pins, Sound(g, pins),
           NEW k \in Key, NEW v \in Value, NEW o \in Obj, o \notin DOMAIN g.ent,
           NEW h, h = ColdFill(g, k, v, o)
    PROVE  /\ Sound(h, pins) /\ FillKeeps(g, h, k, v, o)
           /\ WarmCapped(g) => WarmCapped(h)
           /\ MaxBytes = 0 => o \in DOMAIN h.ent
<1> PICK f : f = Filled(g, k, v, o)
  OBVIOUS
<1>1. /\ Sound(f, pins) /\ f.warm = g.warm
      /\ DOMAIN f.ent = DOMAIN g.ent \cup {o} /\ f.ent[o] = FilledEntry(k, v)
      /\ \A p \in DOMAIN g.ent : f.ent[p] = g.ent[p]
  BY FillSound, SMT
<1>2. /\ f.ent[o].obj_key = StoredKey(k) /\ f.ent[o].content = v /\ ~ f.ent[o].dead
  BY <1>1, EntryFilled, SMT
<1>3. PICK S \in SUBSET Live(f) :
         /\ h = nkvx_obj_evict_locked(f, S)
         /\ S = Live(f) \/ ~ OverCaps(h)
         /\ o \in S => OverCaps(nkvx_obj_evict_locked(f, Live(f) \ {o}))
  BY ColdFillIs, SMT
<1>a. Sound(h, pins) /\ AfterEvict(f, h, S)
  BY <1>1, <1>3, EvictSound
<1>4. /\ Sound(h, pins) /\ Keeps(f, h)
      /\ Range(h.warm) = {w \in Range(f.warm) : w.obj \notin S}
      /\ \A p \in DOMAIN h.ent : h.ent[p].dead <=> (f.ent[p].dead \/ p \in S)
      /\ \A p \in DOMAIN f.ent \ DOMAIN h.ent : f.ent[p].dead \/ p \in S
  BY <1>a DEF AfterEvict
<1>5. Listed(g) /\ Listed(h) /\ Listed(f) /\ Counted(h, pins) /\ Counted(g, pins)
  BY <1>1, <1>4 DEF Sound
<1>6. ASSUME o \in DOMAIN h.ent PROVE ~ h.ent[o].dead
  <2> SUFFICES ASSUME h.ent[o].dead PROVE FALSE
    OBVIOUS
  <2>1. o \in S
    BY <1>2, <1>4, <1>6
  <2>2. WarmPins(h, o) = 0
    BY <1>4, <1>5, <2>1, WarmPinsNat
  <2>3. pins[o] = 0
    BY <1>5 DEF Counted
  <2> QED BY <1>5, <1>6, <2>2, <2>3, SMT DEF Counted
<1>7. FillKeeps(g, h, k, v, o)
  BY <1>1, <1>2, <1>4, <1>6, SMT DEF FillKeeps, Keeps
<1>8. WarmCapped(g) => WarmCapped(h)
  <2>1. Range(h.warm) \subseteq Range(g.warm)
    BY <1>1, <1>4
  <2> QED BY <1>5, <2>1, FewerWarm
<1>9. ASSUME MaxBytes = 0 PROVE o \in DOMAIN h.ent
  <2> SUFFICES ASSUME o \notin DOMAIN h.ent PROVE FALSE
    OBVIOUS
  <2>1. o \in S
    BY <1>1, <1>2, <1>4
  <2> PICK T : T = Live(f) \ {o}
    OBVIOUS
  <2> PICK e : e = nkvx_obj_evict_locked(f, T)
    OBVIOUS
  <2>2. OverCaps(e)
    BY <1>3, <2>1
  <2>b. Sound(e, pins) /\ AfterEvict(f, e, T)
    BY <1>1, EvictSound, T \subseteq Live(f)
  <2>3. /\ Sound(e, pins) /\ Keeps(f, e)
        /\ \A p \in DOMAIN e.ent : e.ent[p].dead <=> (f.ent[p].dead \/ p \in T)
    BY <2>b DEF AfterEvict
  <2>4. Listed(e)
    BY <2>3 DEF Sound
  <2>5. Live(e) = {p \in DOMAIN e.ent : ~ e.ent[p].dead}
    BY <2>4, LiveListed
  <2>6. Live(f) = {p \in DOMAIN f.ent : ~ f.ent[p].dead}
    BY <1>5, LiveListed
  <2>7. Live(e) \subseteq {o}
    BY <2>3, <2>5, <2>6 DEF Keeps
  <2>8. IsFiniteSet({o}) /\ Cardinality({o}) = 1
    BY FS_Singleton
  <2>9. IsFiniteSet(Live(e)) /\ Cardinality(Live(e)) =< 1
    <3> PICK A, B : A = Live(e) /\ B = {o}
      OBVIOUS
    <3>1. IsFiniteSet(A) /\ Cardinality(A) =< Cardinality(B)
      BY <2>7, <2>8, FS_Subset
    <3> QED BY <3>1, <2>8
  <2>10. Cardinality(Live(e)) \in Nat /\ MaxCount \in Nat
    BY <2>9, FS_CardinalityType, CacheAssumption
  <2> QED BY <1>9, <2>2, <2>9, <2>10, SMT DEF OverCaps
<1> QED BY <1>4, <1>7, <1>8, <1>9

\* The empty cache, with nothing pinned.
LEMMA EmptySound ==
    ASSUME NEW g, g = EmptyCache, NEW pins \in [Obj -> Nat], \A o \in Obj : pins[o] = 0
    PROVE  Sound(g, pins) /\ DOMAIN g.ent = {} /\ WarmCapped(g)
<1>1. /\ g.objects = <<>> /\ g.ent = <<>> /\ g.warm = <<>> /\ g.obj_bytes = 0 /\ IsCache(g)
  BY DEF EmptyCache, IsCache
<1>2. /\ Range(<<>>) = {} /\ DOMAIN <<>> = {} /\ Once(<<>>)
  BY SMT DEF Range, Once
<1>3. BytesOf(g, {}) = 0
  BY BytesNone
<1>4. Listed(g)
  BY <1>1, <1>2, <1>3, SMT DEF Listed
<1>5. Aliased(g)
  BY <1>1, <1>2 DEF Aliased
<1>6. Counted(g, pins)
  BY <1>1, <1>2 DEF Counted
<1>7. WarmCapped(g)
  BY <1>1, CacheAssumption, SMT DEF WarmCapped
<1> QED BY <1>1, <1>2, <1>4, <1>5, <1>6, <1>7 DEF Sound

--------------------------------------------------------------------------------
\* h has entries of g, with their keys and sizes.
Within(g, h) ==
    /\ DOMAIN h.ent \subseteq DOMAIN g.ent
    /\ \A o \in DOMAIN h.ent :
          h.ent[o].obj_key = g.ent[o].obj_key /\ h.ent[o].mem_cap = g.ent[o].mem_cap

\* Fewer entries are within the caps too.
LEMMA FewerLive ==
    ASSUME NEW g, Listed(g), NoneDead(g), NEW h, Listed(h), NoneDead(h), Within(g, h),
           ~ OverCaps(g)
    PROVE  ~ OverCaps(h)
<1> PICK D, E : D = DOMAIN g.ent /\ E = DOMAIN h.ent
  OBVIOUS
<1>1. Live(g) = D /\ Live(h) = E
  BY LiveListed DEF NoneDead
<1>2. IsFiniteSet(D) /\ IsFiniteSet(E) /\ E \subseteq D
  BY EntriesFinite DEF Within
<1>3. Cardinality(E) =< Cardinality(D) /\ Cardinality(E) \in Nat /\ Cardinality(D) \in Nat
  BY <1>2, FS_Subset, FS_CardinalityType
<1>4. \A o \in D : g.ent[o].mem_cap \in Nat
  BY EntriesFinite
<1>5. BytesOf(h, E) = BytesOf(g, E)
  BY BytesSame DEF Within
<1> PICK F : F = D \ E
  OBVIOUS
<1>6. IsFiniteSet(F) /\ E \cap F = {} /\ E \cup F = D
  BY <1>2, FS_Subset
<1>7. BytesOf(g, D) = BytesOf(g, E) + BytesOf(g, F)
  BY <1>2, <1>4, <1>6, BytesAdd
<1>8. BytesOf(g, E) \in Nat /\ BytesOf(g, F) \in Nat
  BY <1>2, <1>4, <1>6, BytesFinite
<1>9. g.obj_bytes = BytesOf(g, D) /\ h.obj_bytes = BytesOf(h, E)
  BY DEF Listed
<1>10. MaxCount \in Nat /\ MaxBytes \in Nat
  BY CacheAssumption
<1> QED BY <1>1, <1>3, <1>5, <1>7, <1>8, <1>9, <1>10, SMT DEF OverCaps

\* A cache with fewer entries is at rest too.
LEMMA FewerRested ==
    ASSUME NEW g, Rested(g), NEW h, Sound(h, NoPins), NoneDead(h), WarmCapped(h), Within(g, h)
    PROVE  Rested(h)
<1>1. Listed(g) /\ Listed(h)
  BY DEF Rested, Sound
<1>2. ~ OverCaps(h)
  BY <1>1, FewerLive DEF Rested
<1>3. OnePerKey(h)
  BY DEF Rested, OnePerKey, Within
<1> QED BY <1>2, <1>3 DEF Rested

\* Without pins, a dead entry is aliased by a warm entry of its key.
LEMMA DeadIsWarm ==
    ASSUME NEW h, Sound(h, NoPins), NEW o \in DOMAIN h.ent, h.ent[o].dead
    PROVE  \E w \in Range(h.warm) : w.obj = o /\ w.obj_key = h.ent[o].obj_key
<1>1. o \in Obj
  BY EntriesFinite DEF Sound
<1>2. NoPins[o] = 0
  BY <1>1 DEF NoPins
<1>3. h.ent[o].refcount = NoPins[o] + WarmPins(h, o) /\ h.ent[o].refcount > 0
  BY DEF Sound, Counted
<1>4. WarmPins(h, o) \in Nat /\ (WarmPins(h, o) = 0 <=> \A w \in Range(h.warm) : w.obj # o)
  BY WarmPinsNat DEF Sound
<1>5. PICK w \in Range(h.warm) : w.obj = o
  BY <1>2, <1>3, <1>4, SMT
<1> QED BY <1>5 DEF Sound, Aliased

\* A run on an entry.
LEMMA RunRested ==
    ASSUME NEW g, Rested(g), NEW o \in DOMAIN g.ent, NEW m \in Module, NEW r \in RunOutcome,
           NEW h, h = nkvx_run_on_object_locked(g, m, o, r)
    PROVE  Rested(h) /\ RunKeeps(g, h, m)
<1>1. Sound(g, NoPins) /\ WarmCapped(g) /\ NoneDead(g)
  BY DEF Rested
<1>2. Held(g, NoPins, o)
  BY <1>1 DEF Held, NoneDead
<1>3. Sound(h, NoPins) /\ RunKeeps(g, h, m) /\ WarmCapped(h)
  BY <1>1, <1>2, RunSound
<1>4. NoneDead(h) /\ Within(g, h)
  BY <1>1, <1>3 DEF NoneDead, RunKeeps, Within
<1> QED BY <1>3, <1>4, FewerRested

\* A run under a pin of its own.
LEMMA PinnedRunRested ==
    ASSUME NEW g, Rested(g), NEW o \in DOMAIN g.ent, NEW m \in Module, NEW r \in RunOutcome,
           NEW h, h = nkvx_obj_unref(nkvx_run_on_object_locked(Ref(g, o), m, o, r), {Pin(o)})
    PROVE  Rested(h) /\ LeavesContent(g, h)
<1> PICK t, u : t = Ref(g, o) /\ u = nkvx_run_on_object_locked(t, m, o, r)
  OBVIOUS
<1> PICK one : one = [p \in Obj |-> One({o}, p)]
  OBVIOUS
<1>1. Sound(g, NoPins) /\ Listed(g) /\ WarmCapped(g) /\ NoneDead(g) /\ o \in Obj
  BY EntriesFinite DEF Rested, Sound
<1>2. OneMore(NoPins, one, o) /\ NoPins \in [Obj -> Nat]
  BY SMT DEF OneMore, NoPins, One
<1>3. Sound(t, one)
  BY <1>1, <1>2, RefSound
<1>4. OnePinMore(g, t, o)
  BY <1>1, RefFields
<1>5. /\ DOMAIN t.ent = DOMAIN g.ent /\ t.warm = g.warm
      /\ \A p \in DOMAIN t.ent : /\ ~ t.ent[p].dead
                                 /\ t.ent[p].content = g.ent[p].content
                                 /\ t.ent[p].obj_key = g.ent[p].obj_key
                                 /\ t.ent[p].mem_cap = g.ent[p].mem_cap
  BY <1>1, <1>4 DEF OnePinMore, NoneDead
<1>6. Held(t, one, o) /\ WarmCapped(t)
  BY <1>1, <1>5 DEF Held, WarmCapped
<1>7. Sound(u, one) /\ RunKeeps(t, u, m) /\ Held(u, one, o) /\ WarmCapped(u)
  BY <1>3, <1>6, RunSound
<1>8. o \in DOMAIN u.ent /\ h = nkvx_obj_unref(u, {Pin(o)})
  BY <1>7 DEF Held
<1>9. Sound(h, NoPins) /\ Keeps(u, h) /\ h.warm = u.warm
      /\ \A p \in DOMAIN h.ent : h.ent[p].dead = u.ent[p].dead
  BY <1>2, <1>7, <1>8, UnrefOneSound, SMT
<1>10. NoneDead(h)
  BY <1>5, <1>7, <1>9 DEF NoneDead, RunKeeps, Keeps
<1>11. WarmCapped(h)
  BY <1>7, <1>9 DEF WarmCapped
<1>12. Within(g, h) /\ LeavesContent(g, h)
  <2>1. DOMAIN h.ent \subseteq DOMAIN u.ent /\ DOMAIN u.ent \subseteq DOMAIN g.ent
    BY <1>5, <1>7, <1>9 DEF RunKeeps, Keeps
  <2>2. ASSUME NEW p \in DOMAIN h.ent
        PROVE  /\ h.ent[p].obj_key = g.ent[p].obj_key /\ h.ent[p].mem_cap = g.ent[p].mem_cap
               /\ m \notin LongResult => h.ent[p].content = g.ent[p].content
    <3>1. p \in DOMAIN u.ent /\ p \in DOMAIN t.ent
      BY <1>5, <2>1
    <3>2. /\ h.ent[p].obj_key = u.ent[p].obj_key /\ h.ent[p].mem_cap = u.ent[p].mem_cap
          /\ h.ent[p].content = u.ent[p].content
      BY <1>9 DEF Keeps
    <3>3. /\ u.ent[p].obj_key = t.ent[p].obj_key /\ u.ent[p].mem_cap = t.ent[p].mem_cap
          /\ m \notin LongResult => u.ent[p].content = t.ent[p].content
      BY <1>7, <3>1 DEF RunKeeps
    <3> QED BY <1>5, <3>1, <3>2, <3>3
  <2> QED BY <2>1, <2>2 DEF Within, LeavesContent
<1> QED BY <1>9, <1>10, <1>11, <1>12, FewerRested

\* nkvx_cache_invalidate_locked leaves no entry of the key.
LEMMA InvalidateRested ==
    ASSUME NEW g, Rested(g), NEW k \in Key, NEW h, h = nkvx_cache_invalidate_locked(g, k)
    PROVE  Rested(h) /\ LeavesContent(g, h) /\ \A o \in DOMAIN h.ent : h.ent[o].obj_key # k
<1>1. Sound(g, NoPins) /\ Listed(g) /\ WarmCapped(g) /\ NoneDead(g)
  BY DEF Rested, Sound
<1>2. Sound(h, NoPins) /\ AfterInvalidate(g, h, k) /\ Listed(h)
  BY <1>1, InvalidateSound DEF Sound
<1>3. /\ Keeps(g, h)
      /\ Range(h.warm) = {w \in Range(g.warm) : w.obj_key # k}
      /\ \A o \in DOMAIN h.ent : h.ent[o].dead <=> (g.ent[o].dead \/ g.ent[o].obj_key = k)
  BY <1>2 DEF AfterInvalidate
<1>4. Within(g, h) /\ LeavesContent(g, h)
  BY <1>3 DEF Keeps, Within, LeavesContent
<1>5. ASSUME NEW o \in DOMAIN h.ent PROVE ~ h.ent[o].dead
  <2> SUFFICES ASSUME h.ent[o].dead PROVE FALSE
    OBVIOUS
  <2>1. PICK w \in Range(h.warm) : w.obj_key = h.ent[o].obj_key
    BY <1>2, DeadIsWarm, SMT
  <2>2. h.ent[o].obj_key = k
    BY <1>1, <1>3, <1>4 DEF NoneDead, Within
  <2> QED BY <1>3, <2>1, <2>2
<1>6. WarmCapped(h)
  BY <1>1, <1>2, <1>3, FewerWarm
<1>7. \A o \in DOMAIN h.ent : h.ent[o].obj_key # k
  BY <1>3, <1>4, <1>5 DEF Within
<1>8. NoneDead(h)
  BY <1>5 DEF NoneDead
<1> QED BY <1>2, <1>4, <1>6, <1>7, <1>8, FewerRested

--------------------------------------------------------------------------------
\* An executor without entries is within its caps.
LEMMA EmptyWithinCaps ==
    ASSUME NEW h, Listed(h), DOMAIN h.ent = {}
    PROVE  ~ OverCaps(h)
<1>1. Live(h) = {}
  BY LiveListed
<1>2. h.obj_bytes = 0
  BY BytesNone DEF Listed
<1>3. Cardinality({}) = 0
  BY FS_EmptySet
<1>4. MaxCount \in Nat /\ MaxBytes \in Nat
  BY CacheAssumption
<1> QED BY <1>1, <1>2, <1>3, <1>4, SMT DEF OverCaps

\* Eviction at rest frees what it evicts.
LEMMA EvictRested ==
    ASSUME NEW f, Sound(f, NoPins), NoneDead(f), NEW S, S \subseteq Live(f),
           NEW h, h = nkvx_obj_evict_locked(f, S)
    PROVE  /\ Sound(h, NoPins) /\ NoneDead(h) /\ Keeps(f, h)
           /\ DOMAIN h.ent = DOMAIN f.ent \ S /\ Range(h.warm) \subseteq Range(f.warm)
<1>a. Sound(h, NoPins) /\ AfterEvict(f, h, S)
  BY EvictSound
<1>1. /\ Keeps(f, h)
      /\ Range(h.warm) = {w \in Range(f.warm) : w.obj \notin S}
      /\ \A p \in DOMAIN h.ent : h.ent[p].dead <=> (f.ent[p].dead \/ p \in S)
      /\ \A p \in DOMAIN f.ent \ DOMAIN h.ent : f.ent[p].dead \/ p \in S
  BY <1>a DEF AfterEvict
<1>2. DOMAIN h.ent \subseteq DOMAIN f.ent /\ \A p \in DOMAIN f.ent : ~ f.ent[p].dead
  BY <1>1 DEF Keeps, NoneDead
<1>3. ASSUME NEW p \in DOMAIN h.ent PROVE ~ h.ent[p].dead
  <2> SUFFICES ASSUME h.ent[p].dead PROVE FALSE
    OBVIOUS
  <2>1. PICK w \in Range(h.warm) : w.obj = p
    BY <1>a, DeadIsWarm
  <2>2. p \in S
    BY <1>1, <1>2
  <2> QED BY <1>1, <2>1, <2>2
<1>4. DOMAIN h.ent = DOMAIN f.ent \ S
  BY <1>1, <1>2, <1>3
<1>5. NoneDead(h)
  BY <1>3 DEF NoneDead
<1>6. Range(h.warm) \subseteq Range(f.warm)
  BY <1>1
<1> QED BY <1>a, <1>1, <1>4, <1>5, <1>6

\* A fill on a miss: one entry of a key, within the caps, and the filled entry
\* stays when it fits.
LEMMA FillRested ==
    ASSUME NEW g, Rested(g), NEW k \in Key, NEW v \in Value, NEW o \in Obj,
           o \notin DOMAIN g.ent, nkvx_obj_lookup(g, k) = {},
           NEW h, h = ColdFill(g, k, v, o)
    PROVE  Rested(h) /\ FillKeeps(g, h, k, v, o) /\ (ObjectsFit => o \in DOMAIN h.ent)
<1>1. Sound(g, NoPins) /\ Listed(g) /\ WarmCapped(g) /\ NoneDead(g) /\ OnePerKey(g)
  BY DEF Rested, Sound
<1>2. Sound(h, NoPins) /\ FillKeeps(g, h, k, v, o) /\ WarmCapped(h) /\ Listed(h)
  BY <1>1, ColdFillSound DEF Sound
<1> PICK f : f = Filled(g, k, v, o)
  OBVIOUS
<1>3. /\ Sound(f, NoPins) /\ Listed(f)
      /\ DOMAIN f.ent = DOMAIN g.ent \cup {o} /\ f.ent[o] = FilledEntry(k, v)
      /\ \A p \in DOMAIN g.ent : f.ent[p] = g.ent[p]
  BY <1>1, FillSound, SMT DEF Sound
<1>4. f.ent[o].mem_cap = Pages[v] /\ ~ f.ent[o].dead /\ Pages[v] \in Nat
  BY <1>3, EntryFilled, SMT
<1>5. NoneDead(f) /\ Live(f) = DOMAIN f.ent
  <2>1. NoneDead(f)
    BY <1>1, <1>3, <1>4 DEF NoneDead
  <2> QED BY <1>3, <2>1, LiveListed DEF NoneDead
<1>6. PICK S \in SUBSET Live(f) :
         /\ h = nkvx_obj_evict_locked(f, S)
         /\ S = Live(f) \/ ~ OverCaps(h)
         /\ o \in S => OverCaps(nkvx_obj_evict_locked(f, Live(f) \ {o}))
  BY <1>1, ColdFillIs, SMT
<1>7. NoneDead(h) /\ DOMAIN h.ent = DOMAIN f.ent \ S
  BY <1>3, <1>5, <1>6, EvictRested
<1>8. ~ OverCaps(h)
  <2>1. CASE S = Live(f)
    BY <1>2, <1>5, <1>7, <2>1, EmptyWithinCaps
  <2> QED BY <1>6, <2>1
<1>9. OnePerKey(h)
  <2> SUFFICES ASSUME NEW p \in DOMAIN h.ent, NEW q \in DOMAIN h.ent, p # q,
                      h.ent[p].obj_key = h.ent[q].obj_key
               PROVE  h.ent[p].obj_key = Truncated
    BY DEF OnePerKey
  <2>1. /\ DOMAIN h.ent \subseteq DOMAIN g.ent \cup {o}
        /\ \A e \in DOMAIN h.ent \cap DOMAIN g.ent : h.ent[e].obj_key = g.ent[e].obj_key
        /\ o \in DOMAIN h.ent => h.ent[o].obj_key \in {k, Truncated}
    BY <1>2 DEF FillKeeps, StoredKey
  <2>2. \A e \in DOMAIN g.ent : g.ent[e].obj_key # k
    BY <1>1, LiveListed DEF NoneDead
  <2>3. CASE p \in DOMAIN g.ent /\ q \in DOMAIN g.ent
    BY <1>1, <2>1, <2>3 DEF OnePerKey
  <2>4. CASE p = o \/ q = o
    BY <2>1, <2>2, <2>4
  <2> QED BY <2>1, <2>3, <2>4
<1>10. ASSUME ObjectsFit PROVE o \in DOMAIN h.ent
  <2> SUFFICES ASSUME o \notin DOMAIN h.ent PROVE FALSE
    OBVIOUS
  <2> PICK T : T = Live(f) \ {o}
    OBVIOUS
  <2> PICK e : e = nkvx_obj_evict_locked(f, T)
    OBVIOUS
  <2>1. OverCaps(e)
    BY <1>3, <1>6, <1>7
  <2>2. T \subseteq Live(f) /\ Sound(f, NoPins) /\ NoneDead(f)
    BY <1>3, <1>5
  <2>3. Sound(e, NoPins) /\ NoneDead(e) /\ Keeps(f, e) /\ DOMAIN e.ent = DOMAIN f.ent \ T
    BY <2>2, EvictRested
  <2>4. DOMAIN e.ent = {o} /\ e.ent[o].mem_cap = Pages[v] /\ Listed(e)
    BY <1>3, <1>4, <1>5, <2>3 DEF Keeps, Sound
  <2>5. Live(e) = {o}
    BY <2>3, <2>4, LiveListed DEF NoneDead
  <2>6. Cardinality({o}) = 1
    BY FS_Singleton
  <2>7. e.obj_bytes = Pages[v]
    <3>1. BytesOf(e, {o}) = e.ent[o].mem_cap
      BY <1>4, <2>4, BytesOne
    <3>2. e.obj_bytes = BytesOf(e, DOMAIN e.ent)
      BY <2>4 DEF Listed
    <3> QED BY <2>4, <3>1, <3>2
  <2>8. MaxCount \in Nat /\ MaxBytes \in Nat
    BY CacheAssumption
  <2> QED BY <1>4, <1>10, <2>1, <2>5, <2>6, <2>7, <2>8, SMT DEF OverCaps, ObjectsFit
<1>11. Rested(h)
  BY <1>2, <1>7, <1>8, <1>9 DEF Rested
<1> QED BY <1>2, <1>10, <1>11

================================================================================
