------------------------- MODULE ObjectCache_proofs ----------------------------
(*****************************************************************************)
(* The object and warm caches: lists, backing, and the account of pins.  The *)
(* functions of kvdev_rados_nkvx_wasm.c that drop a pin, mark, evict and     *)
(* invalidate are shown to keep an account that is sound.                    *)
(*****************************************************************************)
EXTENDS CacheLaws, TLAPS, FiniteSetTheorems

\* A leaf that names no backend goes to Zenon.
USE ZenonT(60)

\* What holds of 0 and, with n, of n + 1 holds of every number.
LEMMA Induction ==
    ASSUME NEW P, 0 \in P, \A n \in Nat : n \in P => n + 1 \in P
    PROVE  \A n \in Nat : n \in P
<1> SUFFICES ASSUME \E n \in Nat : n \notin P PROVE FALSE
  OBVIOUS
<1> DEFINE S == {n \in Nat : n \notin P}
<1>1. S \subseteq Nat /\ S # {}
  OBVIOUS
<1>2. PICK m \in S : \A x \in S : ~ (<<x, m>> \in OpToRel(<, Nat))
  BY <1>1, WFMin, NatLessThanWellFounded
<1>3. m # 0 /\ m - 1 \in Nat
  BY SMT
<1>4. m - 1 \notin S
  <2>1. <<m - 1, m>> \in OpToRel(<, Nat)
    BY <1>3, SMT DEF OpToRel
  <2> QED BY <2>1, <1>2
<1>5. m - 1 \in P
  BY <1>3, <1>4
<1>6. (m - 1) + 1 \in P
  BY <1>3, <1>5
<1>7. (m - 1) + 1 = m
  BY SMT
<1> QED BY <1>6, <1>7

\* The loop of Without has a run.
LEMMA WithoutRun ==
    ASSUME NEW s, Len(s) \in Nat, NEW X
    PROVE  \E h : /\ h = [n \in 0..Len(s) |->
                             IF n = 0 THEN <<>>
                             ELSE IF s[n] \in X THEN h[n - 1] ELSE Append(h[n - 1], s[n])]
                  /\ Without(s, X) = h[Len(s)]
<1> DEFINE Run(h, m) == h = [n \in 0..m |->
                             IF n = 0 THEN <<>>
                             ELSE IF s[n] \in X THEN h[n - 1] ELSE Append(h[n - 1], s[n])]
           P == {m \in Nat : \E h : Run(h, m)}
<1>1. 0 \in P
  <2>1. Run([n \in 0..0 |-> <<>>], 0)
    BY SMT
  <2> QED BY <2>1
<1>2. ASSUME NEW m \in Nat, m \in P PROVE m + 1 \in P
  <2>1. PICK h : Run(h, m)
    BY <1>2
  <2> DEFINE next == IF s[m + 1] \in X THEN h[m] ELSE Append(h[m], s[m + 1])
             k == [n \in 0..(m + 1) |-> IF n = m + 1 THEN next ELSE h[n]]
  <2>2. \A n \in 0..m : h[n] = IF n = 0 THEN <<>>
                               ELSE IF s[n] \in X THEN h[n - 1] ELSE Append(h[n - 1], s[n])
    BY <2>1
  <2>3. \A n \in 0..m : k[n] = h[n]
    BY SMT
  <2>4. \A n \in 0..(m + 1) : k[n] = IF n = 0 THEN <<>>
                               ELSE IF s[n] \in X THEN k[n - 1] ELSE Append(k[n - 1], s[n])
    <3> SUFFICES ASSUME NEW n \in 0..(m + 1)
                 PROVE  k[n] = IF n = 0 THEN <<>>
                               ELSE IF s[n] \in X THEN k[n - 1] ELSE Append(k[n - 1], s[n])
      OBVIOUS
    <3>1. CASE n = m + 1
      <4>1. m \in 0..m /\ m + 1 # 0 /\ n - 1 = m
        BY <3>1, SMT
      <4> QED BY <2>3, <3>1, <4>1, SMT
    <3>2. CASE n # m + 1
      <4>1. n \in 0..m /\ (n # 0 => n - 1 \in 0..m)
        BY <3>2, SMT
      <4> QED BY <4>1, <2>2, <2>3, SMT
    <3> QED BY <3>1, <3>2
  <2>5. Run(k, m + 1)
    BY <2>4
  <2>6. \E g : Run(g, m + 1)
    <3> HIDE DEF Run, k
    <3> QED BY <2>5
  <2> QED BY <2>6, SMT
<1>3. \E h : Run(h, Len(s))
  <2> HIDE DEF P
  <2>1. \A m \in Nat : m \in P
    BY <1>1, <1>2, Induction
  <2> QED BY <2>1 DEF P
<1> DEFINE c == CHOOSE h : Run(h, Len(s))
<1>4. Run(c, Len(s))
  BY <1>3
<1>5. Without(s, X) = c[Len(s)]
  BY DEF Without
<1> QED BY <1>4, <1>5

--------------------------------------------------------------------------------
\* A new member at the tail.
LEMMA AppendList ==
    ASSUME NEW A, NEW s \in Seq(A), NEW x \in A
    PROVE  /\ Append(s, x) \in Seq(A)
           /\ Range(Append(s, x)) = Range(s) \cup {x}
           /\ Once(s) /\ x \notin Range(s) => Once(Append(s, x))
           /\ Len(Append(s, x)) = Len(s) + 1
           /\ Append(s, x)[Len(s) + 1] = x
           /\ \A i \in 1..Len(s) : Append(s, x)[i] = s[i]
<1> DEFINE u == Append(s, x)
<1>1. /\ u \in Seq(A) /\ Len(u) = Len(s) + 1 /\ Len(s) \in Nat
      /\ u[Len(s) + 1] = x /\ \A i \in 1..Len(s) : u[i] = s[i]
  BY SMT
<1>2. DOMAIN u = 1..(Len(s) + 1) /\ DOMAIN s = 1..Len(s)
  BY <1>1, SMT
<1>3. 1..(Len(s) + 1) = 1..Len(s) \cup {Len(s) + 1}
  BY <1>1, SMT
<1> HIDE DEF u
<1>4. Range(u) = Range(s) \cup {x}
  <2>1. \A i \in DOMAIN u : u[i] \in Range(s) \cup {x}
    BY <1>1, <1>2, <1>3 DEF Range
  <2>2. \A i \in DOMAIN s : s[i] \in Range(u)
    BY <1>1, <1>2, <1>3 DEF Range
  <2>3. x \in Range(u)
    BY <1>1, <1>2, <1>3 DEF Range
  <2> QED BY <2>1, <2>2, <2>3 DEF Range
<1>5. Once(s) /\ x \notin Range(s) => Once(u)
  BY <1>1, <1>2, <1>3, SMT DEF Once, Range
<1> QED BY <1>1, <1>4, <1>5 DEF u

\* What a list keeps of itself when the members of X are taken off it.
LEMMA WithoutList ==
    ASSUME NEW A, NEW s \in Seq(A), NEW X
    PROVE  /\ Without(s, X) \in Seq(A)
           /\ Range(Without(s, X)) = Range(s) \ X
           /\ Once(s) => Once(Without(s, X))
<1>0. Len(s) \in Nat
  BY SMT
<1>1. PICK h : /\ h = [n \in 0..Len(s) |->
                          IF n = 0 THEN <<>>
                          ELSE IF s[n] \in X THEN h[n - 1] ELSE Append(h[n - 1], s[n])]
               /\ Without(s, X) = h[Len(s)]
  BY <1>0, WithoutRun
<1>2. /\ h[0] = <<>>
      /\ \A n \in 0..(Len(s) - 1) : h[n + 1] = IF s[n + 1] \in X THEN h[n]
                                              ELSE Append(h[n], s[n + 1])
  <2>1. \A n \in 0..Len(s) : h[n] = IF n = 0 THEN <<>>
                             ELSE IF s[n] \in X THEN h[n - 1] ELSE Append(h[n - 1], s[n])
    BY <1>1
  <2>2. Len(s) \in Nat /\ 0 \in 0..Len(s)
    BY SMT
  <2>3. ASSUME NEW n \in 0..(Len(s) - 1)
        PROVE  h[n + 1] = IF s[n + 1] \in X THEN h[n] ELSE Append(h[n], s[n + 1])
    <3>1. n + 1 \in 0..Len(s) /\ n + 1 # 0 /\ (n + 1) - 1 = n
      BY <2>2, SMT
    <3> QED BY <2>1, <3>1
  <2> QED BY <2>1, <2>2, <2>3
<1> DEFINE First(n) == {s[i] : i \in 1..n}
           Kept(t, n) == /\ t \in Seq(A)
                         /\ Range(t) = First(n) \ X
                         /\ Once(s) => Once(t)
           P == {n \in Nat : n <= Len(s) => Kept(h[n], n)}
<1>3. 0 \in P
  <2>1. h[0] = <<>> /\ First(0) = {} /\ Range(<<>>) = {} /\ Once(<<>>) /\ <<>> \in Seq(A)
    BY <1>2, SMT DEF Range, Once
  <2> QED BY <2>1
<1>4. ASSUME NEW n \in Nat, n \in P PROVE n + 1 \in P
  <2> SUFFICES ASSUME n + 1 <= Len(s) PROVE Kept(h[n + 1], n + 1)
    BY SMT
  <2>0. Len(s) \in Nat /\ n \in 0..(Len(s) - 1)
    BY SMT
  <2>1. Kept(h[n], n)
    BY <1>4, <2>0, SMT
  <2>2. s[n + 1] \in A /\ First(n + 1) = First(n) \cup {s[n + 1]}
    BY SMT
  <2>3. CASE s[n + 1] \in X
    <3>1. h[n + 1] = h[n]
      BY <1>2, <2>0, <2>3
    <3> QED BY <3>1, <2>1, <2>2, <2>3
  <2>4. CASE s[n + 1] \notin X
    <3> DEFINE t == h[n]  u == Append(t, s[n + 1])
    <3>1. h[n + 1] = u
      BY <1>2, <2>0, <2>4
    <3>2. /\ u \in Seq(A) /\ Range(u) = Range(t) \cup {s[n + 1]}
          /\ Once(t) /\ s[n + 1] \notin Range(t) => Once(u)
      BY <2>1, <2>2, AppendList, SMT
    <3>3. ASSUME Once(s) PROVE Once(u)
      <4>1. s[n + 1] \notin First(n)
        BY <3>3, SMT DEF Once
      <4> QED BY <2>1, <3>2, <3>3, <4>1
    <3> HIDE DEF u
    <3> QED BY <3>1, <3>2, <3>3, <2>1, <2>2, <2>4
  <2> QED BY <2>3, <2>4
<1>5. Len(s) \in P
  <2> HIDE DEF P
  <2> QED BY <1>3, <1>4, Induction, SMT
<1>6. Kept(h[Len(s)], Len(s))
  BY <1>5, SMT
<1>7. First(Len(s)) = Range(s)
  BY SMT DEF Range
<1> QED BY <1>1, <1>6, <1>7

\* A list without repetition has as many members as it is long.
LEMMA OnceCard ==
    ASSUME NEW A, NEW s \in Seq(A), Once(s)
    PROVE  IsFiniteSet(Range(s)) /\ Cardinality(Range(s)) = Len(s)
<1>1. Len(s) \in Nat /\ IsFiniteSet(1..Len(s)) /\ Cardinality(1..Len(s)) = Len(s)
  <2>1. Len(s) \in Nat /\ 1 \in Int /\ Len(s) \in Int /\ (1 > Len(s) => Len(s) = 0)
        /\ Len(s) - 1 + 1 = Len(s)
    BY SMT
  <2>2. /\ IsFiniteSet(1..Len(s))
        /\ Cardinality(1..Len(s)) = IF 1 > Len(s) THEN 0 ELSE Len(s) - 1 + 1
    BY <2>1, FS_Interval
  <2> QED BY <2>1, <2>2
<1>2. s \in Bijection(1..Len(s), Range(s))
  <2>1. s \in [1..Len(s) -> Range(s)] /\ DOMAIN s = 1..Len(s)
    BY SMT DEF Range
  <2> QED BY <2>1 DEF Bijection, Injection, Surjection, IsInjective, Range, Once
<1>3. ExistsBijection(1..Len(s), Range(s))
  BY <1>2 DEF ExistsBijection
<1> QED BY <1>1, <1>3, FS_Bijection

\* The members of a list are finitely many.
LEMMA RangeFinite ==
    ASSUME NEW A, NEW s \in Seq(A) PROVE IsFiniteSet(Range(s)) /\ Range(s) \subseteq A
<1>1. 1 \in Int /\ Len(s) \in Int
  BY SMT
<1>2. IsFiniteSet(1..Len(s))
  BY <1>1, FS_Interval
<1>3. s \in Surjection(1..Len(s), Range(s))
  <2>1. s \in [1..Len(s) -> Range(s)] /\ DOMAIN s = 1..Len(s)
    BY SMT DEF Range
  <2> QED BY <2>1 DEF Surjection, Range
<1>4. Range(s) \subseteq A
  BY SMT DEF Range
<1> QED BY <1>2, <1>3, <1>4, FS_Surjection

\* The least of a set of numbers is one of them and below the others.
LEMMA MinIsLeast ==
    ASSUME NEW S, S \subseteq Nat, S # {}
    PROVE  Min(S) \in S /\ \A n \in S : Min(S) =< n
<1>1. PICK m \in S : \A y \in S : ~ (<<y, m>> \in OpToRel(<, Nat))
  BY WFMin, NatLessThanWellFounded
<1>2. \A y \in S : ~ (y < m)
  BY <1>1 DEF OpToRel
<1>3. \A y \in S : m =< y
  BY <1>2, SMT
<1> QED BY <1>3 DEF Min

\* The member nearest to the head is a member.
LEMMA FirstIsMember ==
    ASSUME NEW A, NEW s \in Seq(A), NEW S, S \subseteq Range(s), S # {}
    PROVE  FirstOf(s, S) \in S
<1> DEFINE at == {i \in DOMAIN s : s[i] \in S}
<1>1. at \subseteq Nat /\ at # {}
  BY SMT DEF Range
<1>2. Min(at) \in at
  BY <1>1, MinIsLeast
<1> QED BY <1>2 DEF FirstOf

--------------------------------------------------------------------------------
\* The sizes of disjoint sets of entries add up.
LEMMA BytesFinite ==
    ASSUME NEW g, NEW S, IsFiniteSet(S), \A o \in S : g.ent[o].mem_cap \in Nat
    PROVE  IsFiniteSet(BackingOf(g, S)) /\ BytesOf(g, S) \in Nat
<1> DEFINE part(o) == {o} \X (1..g.ent[o].mem_cap)
           T == {part(o) : o \in S}
           f == [o \in S |-> part(o)]
<1>1. \A o \in S : IsFiniteSet(part(o))
  <2> SUFFICES ASSUME NEW o \in S PROVE IsFiniteSet(part(o))
    OBVIOUS
  <2>1. 1 \in Int /\ g.ent[o].mem_cap \in Int
    BY SMT
  <2>2. IsFiniteSet(1..g.ent[o].mem_cap)
    BY <2>1, FS_Interval
  <2>3. IsFiniteSet({o})
    BY FS_Singleton
  <2> QED BY <2>2, <2>3, FS_Product
<1> HIDE DEF part
<1>2. f \in Surjection(S, T)
  BY DEF Surjection
<1>3. IsFiniteSet(T)
  BY <1>2, FS_Surjection
<1>4. \A p \in T : IsFiniteSet(p)
  BY <1>1
<1>5. IsFiniteSet(UNION T)
  BY <1>3, <1>4, FS_UNION
<1>6. BackingOf(g, S) = UNION T
  BY DEF BackingOf, part
<1> QED BY <1>5, <1>6, FS_CardinalityType DEF BytesOf

\* The backing of two disjoint sets of entries adds up.
LEMMA BytesAdd ==
    ASSUME NEW g, NEW S, NEW T, IsFiniteSet(S), IsFiniteSet(T), S \cap T = {},
           \A o \in S \cup T : g.ent[o].mem_cap \in Nat
    PROVE  BytesOf(g, S \cup T) = BytesOf(g, S) + BytesOf(g, T)
<1>1. /\ IsFiniteSet(BackingOf(g, S)) /\ IsFiniteSet(BackingOf(g, T))
      /\ BytesOf(g, S) \in Nat /\ BytesOf(g, T) \in Nat
  BY BytesFinite
<1>2. BackingOf(g, S \cup T) = BackingOf(g, S) \cup BackingOf(g, T)
  BY DEF BackingOf
<1>3. BackingOf(g, S) \cap BackingOf(g, T) = {}
  <2> SUFFICES ASSUME NEW x \in BackingOf(g, S), x \in BackingOf(g, T) PROVE FALSE
    OBVIOUS
  <2>1. PICK o \in S : x \in {o} \X (1..g.ent[o].mem_cap)
    BY DEF BackingOf
  <2>2. PICK p \in T : x \in {p} \X (1..g.ent[p].mem_cap)
    BY DEF BackingOf
  <2>3. x[1] = o /\ x[1] = p
    BY <2>1, <2>2
  <2> QED BY <2>3
<1>4. Cardinality(BackingOf(g, S) \cup BackingOf(g, T))
        = Cardinality(BackingOf(g, S)) + Cardinality(BackingOf(g, T)) - Cardinality({})
  BY <1>1, <1>3, FS_Union, SMT
<1>5. Cardinality({}) = 0
  BY FS_EmptySet
<1>6. BytesOf(g, S \cup T) = BytesOf(g, S) + BytesOf(g, T) - 0
  BY <1>2, <1>4, <1>5 DEF BytesOf
<1> QED BY <1>1, <1>6, SMT

\* The size of one entry, and of none.
LEMMA BytesOne ==
    ASSUME NEW g, NEW o, g.ent[o].mem_cap \in Nat
    PROVE  BytesOf(g, {o}) = g.ent[o].mem_cap
<1> DEFINE n == g.ent[o].mem_cap
<1>1. BackingOf(g, {o}) = {o} \X (1..n)
  BY DEF BackingOf
<1> HIDE DEF n
<1>2. n \in Nat
  BY DEF n
<1>3. IsFiniteSet({o}) /\ Cardinality({o}) = 1
  BY FS_Singleton
<1>4. IsFiniteSet(1..n) /\ Cardinality(1..n) = IF 1 > n THEN 0 ELSE n - 1 + 1
  <2>1. 1 \in Int /\ n \in Int
    BY <1>2, SMT
  <2> QED BY <2>1, FS_Interval
<1>5. Cardinality(1..n) = n
  BY <1>2, <1>4, SMT
<1>6. Cardinality({o} \X (1..n)) = Cardinality({o}) * Cardinality(1..n)
  BY <1>3, <1>4, FS_Product
<1>7. BytesOf(g, {o}) = 1 * n
  BY <1>1, <1>3, <1>5, <1>6 DEF BytesOf
<1>8. 1 * n = n
  BY <1>2, SMT
<1> QED BY <1>7, <1>8 DEF n

\* No entry has no backing.
LEMMA BytesNone == ASSUME NEW g PROVE BytesOf(g, {}) = 0
<1>1. BackingOf(g, {}) = {}
  BY DEF BackingOf
<1> QED BY <1>1, FS_EmptySet DEF BytesOf

\* The size of a set depends on the mem_cap of its entries alone.
LEMMA BytesSame ==
    ASSUME NEW g, NEW h, NEW S, \A o \in S : h.ent[o].mem_cap = g.ent[o].mem_cap
    PROVE  BytesOf(h, S) = BytesOf(g, S)
<1>1. BackingOf(h, S) = BackingOf(g, S)
  BY DEF BackingOf
<1> QED BY <1>1 DEF BytesOf

--------------------------------------------------------------------------------

\* nkvx_obj_unref, field by field.
LEMMA UnrefFields ==
    ASSUME NEW g, NEW P, NEW h, h = nkvx_obj_unref(g, P)
    PROVE  /\ IsCache(h)
           /\ h.objects = Without(g.objects, Unpinned(g, P))
           /\ h.obj_bytes = g.obj_bytes - BytesOf(g, Unpinned(g, P))
           /\ h.warm = g.warm
           /\ DOMAIN h.ent = DOMAIN g.ent \ Unpinned(g, P)
           /\ \A o \in DOMAIN h.ent :
                 h.ent[o] = [g.ent[o] EXCEPT !.refcount = g.ent[o].refcount - Count(P, o)]
<1> DEFINE freed == Unpinned(g, P)
           objects == Without(g.objects, freed)
           bytes == g.obj_bytes - BytesOf(g, freed)
           ent == [o \in DOMAIN g.ent \ freed |->
                      [g.ent[o] EXCEPT !.refcount = @ - Count(P, o)]]
<1>1. h = Dropped(g, P, freed)
  BY DEF nkvx_obj_unref, With
<1>2. h = [objects |-> objects, obj_bytes |-> bytes, ent |-> ent, warm |-> g.warm]
  BY <1>1 DEF Dropped
<1> HIDE DEF objects, bytes, ent
<1>4. /\ DOMAIN ent = DOMAIN g.ent \ freed
      /\ \A o \in DOMAIN ent :
            ent[o] = [g.ent[o] EXCEPT !.refcount = g.ent[o].refcount - Count(P, o)]
  BY DEF ent
<1> HIDE DEF freed
<1>6. IsCache(h) /\ h.objects = objects /\ h.ent = ent /\ h.warm = g.warm /\ h.obj_bytes = bytes
  BY <1>2, SMT DEF IsCache
<1>7. objects = Without(g.objects, freed) /\ bytes = g.obj_bytes - BytesOf(g, freed)
  BY DEF objects, bytes
<1> QED BY <1>4, <1>6, <1>7 DEF freed

\* An entry with another refcount.
LEMMA EntryRef ==
    ASSUME NEW e \in ObjEntry, NEW n, NEW f, f = [e EXCEPT !.refcount = n]
    PROVE  /\ f.refcount = n /\ f.dead = e.dead /\ f.content = e.content
           /\ f.obj_key = e.obj_key /\ f.mem_cap = e.mem_cap
           /\ n \in Nat => f \in ObjEntry
  BY DEF ObjEntry

\* What dropping pins leaves of a cache: no content, key or mark changes, and only
\* dead entries go.
LEMMA UnrefKeeps ==
    ASSUME NEW g, NEW P, Listed(g), NEW h, h = nkvx_obj_unref(g, P)
    PROVE  /\ DOMAIN h.ent = DOMAIN g.ent \ Unpinned(g, P)
           /\ h.warm = g.warm
           /\ \A o \in DOMAIN h.ent :
                 /\ h.ent[o].refcount = g.ent[o].refcount - Count(P, o)
                 /\ h.ent[o].dead = g.ent[o].dead
                 /\ h.ent[o].content = g.ent[o].content
                 /\ h.ent[o].obj_key = g.ent[o].obj_key
                 /\ h.ent[o].mem_cap = g.ent[o].mem_cap
                 /\ h.ent[o].refcount \in Nat => h.ent[o] \in ObjEntry
<1>1. /\ h.warm = g.warm /\ DOMAIN h.ent = DOMAIN g.ent \ Unpinned(g, P)
      /\ \A o \in DOMAIN h.ent :
            h.ent[o] = [g.ent[o] EXCEPT !.refcount = g.ent[o].refcount - Count(P, o)]
  BY UnrefFields, SMT
<1>5. ASSUME NEW o \in DOMAIN h.ent
      PROVE  /\ h.ent[o].refcount = g.ent[o].refcount - Count(P, o)
             /\ h.ent[o].dead = g.ent[o].dead
             /\ h.ent[o].content = g.ent[o].content
             /\ h.ent[o].obj_key = g.ent[o].obj_key
             /\ h.ent[o].mem_cap = g.ent[o].mem_cap
             /\ h.ent[o].refcount \in Nat => h.ent[o] \in ObjEntry
  <2>1. g.ent[o] \in ObjEntry
    BY <1>1 DEF Listed
  <2>2. h.ent[o] = [g.ent[o] EXCEPT !.refcount = g.ent[o].refcount - Count(P, o)]
    BY <1>1
  <2> HIDE DEF Count
  <2> QED BY <2>1, <2>2, EntryRef, SMT
<1> QED BY <1>1, <1>5

--------------------------------------------------------------------------------
\* A finite set of pins has finitely many on an entry.
LEMMA CountNat ==
    ASSUME NEW P, IsFiniteSet(P), NEW o
    PROVE  /\ IsFiniteSet({p \in P : p.obj = o}) /\ Count(P, o) \in Nat
           /\ Count(P, o) = 0 <=> \A p \in P : p.obj # o
<1> DEFINE Q == {p \in P : p.obj = o}
<1>1. IsFiniteSet(Q)
  <2>1. Q \in SUBSET P
    OBVIOUS
  <2> HIDE DEF Q
  <2> QED BY <2>1, FS_Subset
<1>2. Cardinality(Q) \in Nat /\ (Cardinality(Q) = 0 <=> Q = {})
  BY <1>1, FS_CardinalityType, FS_EmptySet
<1> QED BY <1>1, <1>2 DEF Count

\* WarmPins counts the warm list.
LEMMA WarmPinsNat ==
    ASSUME NEW g, Listed(g), NEW o
    PROVE  /\ IsFiniteSet(Range(g.warm)) /\ Range(g.warm) \subseteq WarmEntry
           /\ WarmPins(g, o) = Count(Range(g.warm), o)
           /\ WarmPins(g, o) \in Nat
           /\ WarmPins(g, o) = 0 <=> \A w \in Range(g.warm) : w.obj # o
<1>1. IsFiniteSet(Range(g.warm)) /\ Range(g.warm) \subseteq WarmEntry
  BY RangeFinite DEF Listed
<1>2. WarmPins(g, o) = Count(Range(g.warm), o)
  BY DEF WarmPins, Count
<1> DEFINE R == Range(g.warm)
<1> HIDE DEF R
<1>3. IsFiniteSet(R)
  BY <1>1 DEF R
<1>4. /\ Count(R, o) \in Nat
      /\ Count(R, o) = 0 <=> \A w \in R : w.obj # o
  BY <1>3, CountNat
<1> QED BY <1>1, <1>2, <1>4 DEF R

\* The allocated entries are finite, and their numbers are numbers.
LEMMA EntriesFinite ==
    ASSUME NEW g, Listed(g)
    PROVE  /\ IsFiniteSet(DOMAIN g.ent) /\ DOMAIN g.ent \subseteq Obj
           /\ Cardinality(DOMAIN g.ent) = Len(g.objects)
           /\ \A o \in DOMAIN g.ent : g.ent[o].mem_cap \in Nat /\ g.ent[o].refcount \in Nat
           /\ g.obj_bytes \in Nat
<1>1. /\ IsFiniteSet(DOMAIN g.ent) /\ Cardinality(DOMAIN g.ent) = Len(g.objects)
      /\ DOMAIN g.ent \subseteq Obj
  BY OnceCard, RangeFinite DEF Listed
<1>2. \A o \in DOMAIN g.ent : g.ent[o].mem_cap \in Nat /\ g.ent[o].refcount \in Nat
  BY DEF Listed, ObjEntry
<1>3. g.obj_bytes \in Nat
  BY <1>1, <1>2, BytesFinite DEF Listed
<1> QED BY <1>1, <1>2, <1>3

\* The lists after pins were dropped.
LEMMA UnrefListed ==
    ASSUME NEW g, NEW P, Listed(g), \A p \in P : p.obj \in DOMAIN g.ent,
           NEW h, h = nkvx_obj_unref(g, P),
           \A o \in DOMAIN h.ent : h.ent[o].refcount \in Nat
    PROVE  Listed(h)
<1> DEFINE F == Unpinned(g, P)  D == DOMAIN g.ent
<1>1. /\ IsCache(h) /\ h.objects = Without(g.objects, F) /\ h.warm = g.warm
      /\ h.obj_bytes = g.obj_bytes - BytesOf(g, F)
  BY UnrefFields, SMT
<1>2. /\ DOMAIN h.ent = D \ F
      /\ \A o \in DOMAIN h.ent : h.ent[o] \in ObjEntry /\ h.ent[o].mem_cap = g.ent[o].mem_cap
  BY UnrefKeeps, SMT
<1>3. F \subseteq D
  BY DEF Unpinned
<1> HIDE DEF F, D
<1>4. /\ g.objects \in Seq(Obj) /\ Once(g.objects) /\ D = Range(g.objects)
      /\ g.warm \in Seq(WarmEntry) /\ Once(g.warm) /\ g.obj_bytes = BytesOf(g, D)
  BY DEF Listed, D
<1>5. h.objects \in Seq(Obj) /\ Once(h.objects) /\ Range(h.objects) = D \ F
  BY <1>1, <1>4, WithoutList, SMT
<1>6. h.obj_bytes = BytesOf(h, D \ F)
  <2>1. IsFiniteSet(D) /\ \A o \in D : g.ent[o].mem_cap \in Nat
    BY EntriesFinite DEF D
  <2>2. IsFiniteSet(F) /\ IsFiniteSet(D \ F)
    BY <2>1, <1>3, FS_Subset, FS_Difference
  <2>3. BytesOf(g, F \cup (D \ F)) = BytesOf(g, F) + BytesOf(g, D \ F)
    BY <2>1, <2>2, <1>3, BytesAdd, SMT
  <2>4. F \cup (D \ F) = D
    BY <1>3
  <2>5. BytesOf(g, F) \in Nat /\ BytesOf(g, D \ F) \in Nat
    BY <2>1, <2>2, <1>3, BytesFinite
  <2>6. BytesOf(h, D \ F) = BytesOf(g, D \ F)
    BY <1>2, BytesSame, SMT
  <2>7. BytesOf(g, D) = BytesOf(g, F) + BytesOf(g, D \ F)
    BY <2>3, <2>4
  <2> QED BY <2>5, <2>6, <2>7, <1>1, <1>4, SMT
<1> QED BY <1>1, <1>2, <1>4, <1>5, <1>6 DEF Listed

\* Dropping the pins P, of which the refcounts were in account.
LEMMA UnrefSound ==
    ASSUME NEW g, NEW P, NEW before, NEW after \in [Obj -> Nat], Sound(g, before),
           IsFiniteSet(P), \A p \in P : p.obj \in DOMAIN g.ent,
           \A o \in Obj : before[o] = after[o] + Count(P, o),
           NEW h, h = nkvx_obj_unref(g, P)
    PROVE  Sound(h, after)
<1> DEFINE F == Unpinned(g, P)
<1>0. Listed(g) /\ Aliased(g) /\ Counted(g, before) /\ before \in [Obj -> Nat]
  BY DEF Sound, Counted
<1>1. /\ DOMAIN h.ent = DOMAIN g.ent \ F /\ h.warm = g.warm
      /\ \A o \in DOMAIN h.ent :
            /\ h.ent[o].refcount = g.ent[o].refcount - Count(P, o)
            /\ h.ent[o].dead = g.ent[o].dead
            /\ h.ent[o].obj_key = g.ent[o].obj_key
  BY <1>0, UnrefKeeps, SMT
<1>2. \A o \in Obj : WarmPins(g, o) \in Nat /\ Count(P, o) \in Nat
  BY <1>0, WarmPinsNat, CountNat
<1>3. DOMAIN g.ent \subseteq Obj
  BY <1>0, EntriesFinite
<1>4. \A o \in DOMAIN g.ent :
          g.ent[o].refcount - Count(P, o) = after[o] + WarmPins(g, o)
  BY <1>0, <1>2, <1>3, SMT DEF Counted
<1>5. \A o : WarmPins(h, o) = WarmPins(g, o)
  BY <1>1 DEF WarmPins
<1>6. Listed(h)
  BY <1>0, <1>1, <1>2, <1>3, <1>4, UnrefListed, SMT
<1>7. \A o \in F : after[o] = 0 /\ WarmPins(g, o) = 0
  <2> SUFFICES ASSUME NEW o \in F PROVE after[o] = 0 /\ WarmPins(g, o) = 0
    OBVIOUS
  <2>1. o \in DOMAIN g.ent /\ g.ent[o].refcount - Count(P, o) = 0
    BY DEF Unpinned
  <2> QED BY <2>1, <1>2, <1>3, <1>4, SMT
<1>8. Aliased(h)
  <2> SUFFICES ASSUME NEW w \in Range(h.warm)
               PROVE  w.obj \in DOMAIN h.ent /\ h.ent[w.obj].obj_key = w.obj_key
    BY DEF Aliased
  <2>1. w.obj \in DOMAIN g.ent /\ g.ent[w.obj].obj_key = w.obj_key
    BY <1>0, <1>1 DEF Aliased
  <2>2. w.obj \notin F
    BY <1>0, <1>1, <1>7, WarmPinsNat, SMT
  <2> QED BY <1>1, <2>1, <2>2
<1>9. Counted(h, after)
  <2>1. ASSUME NEW o \in Obj \ DOMAIN h.ent PROVE after[o] = 0
    <3>1. CASE o \in F
      BY <3>1, <1>7
    <3>2. CASE o \notin DOMAIN g.ent
      <4>1. before[o] = 0
        BY <3>2, <1>0 DEF Counted
      <4> QED BY <4>1, <1>2, SMT
    <3> QED BY <3>1, <3>2, <1>1
  <2>2. ASSUME NEW o \in DOMAIN h.ent
        PROVE  /\ h.ent[o].refcount = after[o] + WarmPins(h, o)
               /\ h.ent[o].dead => h.ent[o].refcount > 0
    <3>1. o \in DOMAIN g.ent /\ o \notin F
      BY <1>1
    <3>2. h.ent[o].refcount = after[o] + WarmPins(h, o)
      BY <3>1, <1>1, <1>4, <1>5
    <3>3. h.ent[o].refcount \in Nat
      BY <3>1, <3>2, <1>2, <1>3, <1>5, SMT
    <3>4. ASSUME h.ent[o].dead PROVE h.ent[o].refcount # 0
      <4>1. g.ent[o].dead /\ g.ent[o].refcount > 0
        BY <3>4, <3>1, <1>0, <1>1 DEF Counted
      <4>2. CASE \E p \in P : p.obj = o
        <5>1. o \in {p.obj : p \in P}
          BY <4>2
        <5>2. g.ent[o].refcount - Count(P, o) # 0
          BY <5>1, <4>1, <3>1 DEF Unpinned
        <5> QED BY <5>2, <1>1
      <4>3. CASE \A p \in P : p.obj # o
        <5>1. Count(P, o) = 0
          BY <4>3, CountNat
        <5>2. g.ent[o].refcount \in Nat
          BY <3>1, <1>0, EntriesFinite
        <5> QED BY <5>1, <5>2, <4>1, <1>1, SMT
      <4> QED BY <4>2, <4>3
    <3> QED BY <3>2, <3>3, <3>4, SMT
  <2> QED BY <2>1, <2>2 DEF Counted
<1> QED BY <1>6, <1>8, <1>9 DEF Sound

--------------------------------------------------------------------------------

\* nkvx_warm_destroy of warm entries on the list.
LEMMA WarmDestroySound ==
    ASSUME NEW g, NEW pins, Sound(g, pins), NEW W, W \subseteq Range(g.warm),
           NEW h, h = nkvx_warm_destroy(g, W)
    PROVE  /\ Sound(h, pins)
           /\ Keeps(g, h)
           /\ Range(h.warm) = Range(g.warm) \ W
           /\ \A o \in DOMAIN h.ent : h.ent[o].dead = g.ent[o].dead
           /\ \A o \in DOMAIN g.ent \ DOMAIN h.ent : g.ent[o].dead
<1> DEFINE u == [g EXCEPT !.warm = Without(g.warm, W)]
           before == [o \in Obj |-> pins[o] + Count(W, o)]
<1>0. Listed(g) /\ Aliased(g) /\ Counted(g, pins) /\ pins \in [Obj -> Nat] /\ IsCache(g)
  BY DEF Sound, Counted, Listed
<1>1. h = nkvx_obj_unref(u, W)
  BY DEF nkvx_warm_destroy
<1>2. /\ IsCache(u) /\ u.objects = g.objects /\ u.ent = g.ent /\ u.obj_bytes = g.obj_bytes
      /\ u.warm = Without(g.warm, W)
  BY <1>0 DEF IsCache
<1> HIDE DEF u
<1>3. u.warm \in Seq(WarmEntry) /\ Once(u.warm) /\ Range(u.warm) = Range(g.warm) \ W
  BY <1>0, <1>2, WithoutList, SMT DEF Listed
<1>4. BytesOf(u, DOMAIN g.ent) = BytesOf(g, DOMAIN g.ent)
  BY <1>2, BytesSame
<1>5. Listed(u)
  BY <1>0, <1>2, <1>3, <1>4 DEF Listed
<1>6. IsFiniteSet(Range(g.warm)) /\ IsFiniteSet(W)
  BY <1>0, WarmPinsNat, FS_Subset
<1>7. \A o \in Obj : /\ Count(W, o) \in Nat /\ WarmPins(u, o) \in Nat
                     /\ WarmPins(g, o) = WarmPins(u, o) + Count(W, o)
  <2> SUFFICES ASSUME NEW o \in Obj
               PROVE  /\ Count(W, o) \in Nat /\ WarmPins(u, o) \in Nat
                      /\ WarmPins(g, o) = WarmPins(u, o) + Count(W, o)
    OBVIOUS
  <2> DEFINE A == {w \in Range(g.warm) : w.obj = o}
             B == {w \in W : w.obj = o}
             C == {w \in Range(u.warm) : w.obj = o}
  <2>1. A = B \cup C /\ B \cap C = {}
    BY <1>3
  <2>2. IsFiniteSet(B) /\ IsFiniteSet(C)
    BY <1>6, <1>5, WarmPinsNat, CountNat
  <2>3. Cardinality(B) \in Nat /\ Cardinality(C) \in Nat
    BY <2>2, FS_CardinalityType
  <2>4. Cardinality(B \cup C) = Cardinality(B) + Cardinality(C) - Cardinality(B \cap C)
    BY <2>2, FS_Union
  <2>5. Cardinality(B \cap C) = 0
    BY <2>1, FS_EmptySet
  <2>6. Cardinality(A) = Cardinality(B) + Cardinality(C)
    <3> HIDE DEF A, B, C
    <3> QED BY <2>1, <2>3, <2>4, <2>5, SMT
  <2>7. WarmPins(g, o) = Cardinality(A) /\ WarmPins(u, o) = Cardinality(C) /\ Count(W, o) = Cardinality(B)
    BY DEF WarmPins, Count
  <2> HIDE DEF A, B, C
  <2> QED BY <2>3, <2>6, <2>7, SMT
<1>8. DOMAIN g.ent \subseteq Obj /\ DOMAIN u.ent = DOMAIN g.ent
  BY <1>0, <1>2, EntriesFinite
<1>9. before \in [Obj -> Nat] /\ \A o \in Obj : before[o] = pins[o] + Count(W, o)
  BY <1>0, <1>7, SMT
<1> HIDE DEF before
<1>10. \A p \in W : p.obj \in DOMAIN u.ent
  BY <1>0, <1>8 DEF Aliased
<1>11. Aliased(u)
  BY <1>0, <1>2, <1>3 DEF Aliased
<1>12. Counted(u, before)
  <2>1. ASSUME NEW o \in Obj \ DOMAIN u.ent PROVE before[o] = 0
    <3>1. pins[o] = 0
      BY <1>0, <1>8 DEF Counted
    <3>2. Count(W, o) = 0
      <4>1. \A p \in W : p.obj # o
        BY <1>10
      <4> QED BY <4>1, <1>6, CountNat
    <3> QED BY <3>1, <3>2, <1>9, SMT
  <2>2. ASSUME NEW o \in DOMAIN u.ent
        PROVE  /\ u.ent[o].refcount = before[o] + WarmPins(u, o)
               /\ u.ent[o].dead => u.ent[o].refcount > 0
    <3>1. /\ g.ent[o].refcount = pins[o] + WarmPins(g, o)
          /\ g.ent[o].dead => g.ent[o].refcount > 0
      BY <1>0, <1>8 DEF Counted
    <3>2. pins[o] + WarmPins(g, o) = before[o] + WarmPins(u, o)
      BY <1>0, <1>7, <1>8, <1>9, SMT
    <3> QED BY <3>1, <3>2, <1>2
  <2> QED BY <2>1, <2>2, <1>9 DEF Counted
<1>13. Sound(u, before)
  BY <1>5, <1>11, <1>12 DEF Sound
<1>14. Sound(h, pins)
  BY <1>0, <1>1, <1>6, <1>9, <1>10, <1>13, UnrefSound
<1>15. /\ DOMAIN h.ent = DOMAIN g.ent \ Unpinned(u, W) /\ h.warm = u.warm
       /\ \A o \in DOMAIN h.ent : /\ h.ent[o].dead = g.ent[o].dead
                                  /\ h.ent[o].content = g.ent[o].content
                                  /\ h.ent[o].obj_key = g.ent[o].obj_key
                                  /\ h.ent[o].mem_cap = g.ent[o].mem_cap
  BY <1>1, <1>2, <1>5, UnrefKeeps, SMT
<1>16. \A o \in Unpinned(u, W) : g.ent[o].dead
  BY <1>2 DEF Unpinned
<1> QED BY <1>3, <1>14, <1>15, <1>16 DEF Keeps

--------------------------------------------------------------------------------
\* One pin for each entry of S.
PinSet(S) == {Pin(o) : o \in S}

\* One pin for each entry of S: their number on an entry.
LEMMA PinsOf ==
    ASSUME NEW S, IsFiniteSet(S), NEW P, P = PinSet(S)
    PROVE  /\ IsFiniteSet(P) /\ \A p \in P : p.obj \in S
           /\ \A o : Count(P, o) = One(S, o)
<1> DEFINE f == [o \in S |-> Pin(o)]
<1> USE DEF PinSet, One
<1>1. \A o : Pin(o).obj = o
  BY DEF Pin
<1>2. f \in Surjection(S, P)
  BY DEF Surjection
<1>3. IsFiniteSet(P)
  BY <1>2, FS_Surjection
<1>4. ASSUME NEW o PROVE Count(P, o) = One(S, o)
  <2>1. CASE o \in S
    <3>1. {p \in P : p.obj = o} = {Pin(o)}
      BY <1>1, <2>1
    <3>2. Cardinality({Pin(o)}) = 1
      BY FS_Singleton
    <3> QED BY <3>1, <3>2, <2>1 DEF Count
  <2>2. CASE o \notin S
    <3>1. {p \in P : p.obj = o} = {}
      BY <1>1, <2>2
    <3> QED BY <3>1, <2>2, FS_EmptySet DEF Count
  <2> QED BY <2>1, <2>2
<1> QED BY <1>1, <1>3, <1>4

\* An entry marked dead under one more pin.
LEMMA EntryDead ==
    ASSUME NEW e \in ObjEntry, NEW f, f = Dying(e)
    PROVE  /\ f.refcount = e.refcount + 1 /\ f.dead = TRUE /\ f.content = e.content
           /\ f.obj_key = e.obj_key /\ f.mem_cap = e.mem_cap
           /\ f \in ObjEntry
<1>1. /\ f.refcount = e.refcount + 1 /\ f.dead = TRUE /\ f.content = e.content
      /\ f.obj_key = e.obj_key /\ f.mem_cap = e.mem_cap
  BY DEF Dying, ObjEntry
<1>2. PICK d \in ObjEntry, n \in Nat : f = [d EXCEPT !.refcount = n]
  <2>1. [e EXCEPT !.dead = TRUE] \in ObjEntry
    BY DEF ObjEntry
  <2>3. e.refcount + 1 \in Nat
    BY SMT DEF ObjEntry
  <2>2. f = [[e EXCEPT !.dead = TRUE] EXCEPT !.refcount = e.refcount + 1]
    BY DEF Dying, ObjEntry
  <2> QED BY <2>1, <2>2, <2>3
<1>3. f \in ObjEntry
  BY <1>2, EntryRef
<1> QED BY <1>1, <1>3

\* The cache with the entries of S so marked.
Marked(g, S) ==
    [g EXCEPT !.ent = [o \in DOMAIN @ |-> IF o \in S THEN Dying(@[o]) ELSE @[o]]]

\* The entries S marked dead under a temporary pin, field by field.
LEMMA MarkedFields ==
    ASSUME NEW g, Listed(g), NEW S, S \subseteq DOMAIN g.ent, NEW u, u = Marked(g, S)
    PROVE  /\ IsCache(u) /\ u.objects = g.objects /\ u.obj_bytes = g.obj_bytes
           /\ u.warm = g.warm /\ DOMAIN u.ent = DOMAIN g.ent
           /\ \A o \in DOMAIN g.ent :
                 /\ u.ent[o] \in ObjEntry
                 /\ u.ent[o].refcount = g.ent[o].refcount + One(S, o)
                 /\ u.ent[o].dead <=> (g.ent[o].dead \/ o \in S)
                 /\ u.ent[o].content = g.ent[o].content
                 /\ u.ent[o].obj_key = g.ent[o].obj_key
                 /\ u.ent[o].mem_cap = g.ent[o].mem_cap
<1> DEFINE marked == [o \in DOMAIN g.ent |-> IF o \in S THEN Dying(g.ent[o]) ELSE g.ent[o]]
<1>1. u = [g EXCEPT !.ent = marked]
  BY DEF Marked
<1>2. /\ DOMAIN marked = DOMAIN g.ent
      /\ \A o \in S : marked[o] = Dying(g.ent[o])
      /\ \A o \in DOMAIN g.ent \ S : marked[o] = g.ent[o]
  OBVIOUS
<1> HIDE DEF marked
<1>3. /\ IsCache(u) /\ u.objects = g.objects /\ u.ent = marked /\ u.obj_bytes = g.obj_bytes
      /\ u.warm = g.warm
  BY <1>1 DEF Listed, IsCache
<1>4. ASSUME NEW o \in DOMAIN g.ent
      PROVE  /\ u.ent[o] \in ObjEntry
             /\ u.ent[o].refcount = g.ent[o].refcount + One(S, o)
             /\ u.ent[o].dead <=> (g.ent[o].dead \/ o \in S)
             /\ u.ent[o].content = g.ent[o].content
             /\ u.ent[o].obj_key = g.ent[o].obj_key
             /\ u.ent[o].mem_cap = g.ent[o].mem_cap
  <2>1. g.ent[o] \in ObjEntry /\ g.ent[o].refcount \in Nat
    BY EntriesFinite DEF Listed
  <2>2. CASE o \in S
    <3>1. u.ent[o] = Dying(g.ent[o])
      BY <1>2, <1>3, <2>2
    <3> QED BY <2>1, <2>2, <3>1, EntryDead DEF One
  <2>3. CASE o \notin S
    <3>1. u.ent[o] = g.ent[o]
      BY <1>2, <1>3, <2>3
    <3> QED BY <2>1, <2>3, <3>1, SMT DEF One
  <2> QED BY <2>2, <2>3
<1> QED BY <1>2, <1>3, <1>4

\* Kill of entries on the list: they are dead, and those that go are among them.
LEMMA KillSound ==
    ASSUME NEW g, NEW pins, Sound(g, pins), NEW S, S \subseteq DOMAIN g.ent,
           NEW h, h = Kill(g, S)
    PROVE  /\ Sound(h, pins)
           /\ Keeps(g, h)
           /\ h.warm = g.warm
           /\ \A o \in DOMAIN h.ent : h.ent[o].dead <=> (g.ent[o].dead \/ o \in S)
           /\ DOMAIN g.ent \ DOMAIN h.ent \subseteq S
<1> DEFINE u == Marked(g, S)
           P == PinSet(S)
           before == [o \in Obj |-> pins[o] + One(S, o)]
<1>0. Listed(g) /\ Aliased(g) /\ Counted(g, pins) /\ pins \in [Obj -> Nat]
  BY DEF Sound, Counted
<1>1. h = nkvx_obj_unref(u, P)
  BY DEF Kill, Marked, PinSet
<1>2. /\ IsCache(u) /\ u.objects = g.objects /\ u.obj_bytes = g.obj_bytes
      /\ u.warm = g.warm /\ DOMAIN u.ent = DOMAIN g.ent
  BY <1>0, MarkedFields, SMT
<1>4. \A o \in DOMAIN g.ent :
         /\ u.ent[o] \in ObjEntry
         /\ u.ent[o].refcount = g.ent[o].refcount + One(S, o)
         /\ u.ent[o].dead <=> (g.ent[o].dead \/ o \in S)
         /\ u.ent[o].content = g.ent[o].content
         /\ u.ent[o].obj_key = g.ent[o].obj_key
         /\ u.ent[o].mem_cap = g.ent[o].mem_cap
  BY <1>0, MarkedFields, SMT
<1>5. DOMAIN g.ent \subseteq Obj /\ IsFiniteSet(S)
  <2>1. IsFiniteSet(DOMAIN g.ent) /\ DOMAIN g.ent \subseteq Obj
    BY <1>0, EntriesFinite
  <2> QED BY <2>1, FS_Subset
<1>6. /\ IsFiniteSet(P) /\ \A p \in P : p.obj \in S
      /\ \A o \in Obj : Count(P, o) = One(S, o)
  BY <1>5, PinsOf
<1> HIDE DEF u, P
<1>60. \A p \in P : p.obj \in DOMAIN u.ent
  BY <1>2, <1>6
<1>7. BytesOf(u, DOMAIN g.ent) = BytesOf(g, DOMAIN g.ent)
  BY <1>4, BytesSame
<1>8. Listed(u)
  BY <1>0, <1>2, <1>4, <1>7 DEF Listed
<1>9. Aliased(u)
  BY <1>0, <1>2, <1>4 DEF Aliased
<1>10. before \in [Obj -> Nat] /\ \A o \in Obj : before[o] = pins[o] + One(S, o)
  BY <1>0, SMT DEF One
<1> HIDE DEF before
<1>11. Counted(u, before)
  <2>1. ASSUME NEW o \in Obj \ DOMAIN u.ent PROVE before[o] = 0
    BY <1>0, <1>2, <1>10, SMT DEF Counted, One
  <2>2. ASSUME NEW o \in DOMAIN u.ent
        PROVE  /\ u.ent[o].refcount = before[o] + WarmPins(u, o)
               /\ u.ent[o].dead => u.ent[o].refcount > 0
    <3>1. /\ g.ent[o].refcount = pins[o] + WarmPins(g, o)
          /\ g.ent[o].dead => g.ent[o].refcount > 0
      BY <1>0, <1>2 DEF Counted
    <3>2. WarmPins(u, o) = WarmPins(g, o)
      BY <1>2 DEF WarmPins
    <3>3. WarmPins(g, o) \in Nat
      BY <1>0, WarmPinsNat
    <3>4. o \in Obj /\ pins[o] \in Nat
      BY <1>0, <1>2, <1>5
    <3>5. u.ent[o].refcount = g.ent[o].refcount + One(S, o)
      BY <1>2, <1>4
    <3>6. u.ent[o].dead => (g.ent[o].dead \/ o \in S)
      BY <1>2, <1>4
    <3> QED BY <3>1, <3>2, <3>3, <3>4, <3>5, <3>6, <1>10, SMT DEF One
  <2> QED BY <2>1, <2>2, <1>10 DEF Counted
<1>12. Sound(u, before)
  BY <1>8, <1>9, <1>11 DEF Sound
<1>13. Sound(h, pins)
  BY <1>0, <1>1, <1>6, <1>60, <1>10, <1>12, UnrefSound
<1>14. /\ DOMAIN h.ent = DOMAIN u.ent \ Unpinned(u, P) /\ h.warm = u.warm
       /\ \A o \in DOMAIN h.ent : /\ h.ent[o].dead = u.ent[o].dead
                                  /\ h.ent[o].content = u.ent[o].content
                                  /\ h.ent[o].obj_key = u.ent[o].obj_key
                                  /\ h.ent[o].mem_cap = u.ent[o].mem_cap
  BY <1>1, <1>8, UnrefKeeps, SMT
<1>15. Unpinned(u, P) \subseteq S
  BY <1>6 DEF Unpinned
<1>16. \A o \in DOMAIN h.ent : /\ h.ent[o].dead <=> (g.ent[o].dead \/ o \in S)
                              /\ h.ent[o].content = g.ent[o].content
                              /\ h.ent[o].obj_key = g.ent[o].obj_key
                              /\ h.ent[o].mem_cap = g.ent[o].mem_cap
  BY <1>2, <1>4, <1>14
<1> QED BY <1>2, <1>13, <1>14, <1>15, <1>16 DEF Keeps

--------------------------------------------------------------------------------
\* The entries of Live and what a lookup returns are on the list.
LEMMA LiveListed ==
    ASSUME NEW g, Listed(g)
    PROVE  /\ Live(g) = {o \in DOMAIN g.ent : ~ g.ent[o].dead}
           /\ \A k : nkvx_obj_lookup(g, k)
                       = {o \in DOMAIN g.ent : ~ g.ent[o].dead /\ g.ent[o].obj_key = k}
           /\ \A k : nkvx_obj_lookup(g, k) # {} => Hit(g, k) \in nkvx_obj_lookup(g, k)
<1>1. Live(g) = {o \in DOMAIN g.ent : ~ g.ent[o].dead}
  BY DEF Live, Listed
<1>2. ASSUME NEW k
      PROVE  nkvx_obj_lookup(g, k) = {o \in DOMAIN g.ent : ~ g.ent[o].dead /\ g.ent[o].obj_key = k}
  BY <1>1 DEF nkvx_obj_lookup
<1>3. ASSUME NEW k, nkvx_obj_lookup(g, k) # {} PROVE Hit(g, k) \in nkvx_obj_lookup(g, k)
  <2>1. nkvx_obj_lookup(g, k) \subseteq Range(g.objects) /\ g.objects \in Seq(Obj)
    BY <1>2 DEF Listed
  <2> QED BY <1>3, <2>1, FirstIsMember DEF Hit
<1> QED BY <1>1, <1>2, <1>3

\* What evicting S leaves of a cache.
AfterEvict(g, h, S) ==
    /\ Keeps(g, h)
    /\ Range(h.warm) = {w \in Range(g.warm) : w.obj \notin S}
    /\ \A o \in DOMAIN h.ent : h.ent[o].dead <=> (g.ent[o].dead \/ o \in S)
    /\ \A o \in DOMAIN g.ent \ DOMAIN h.ent : g.ent[o].dead \/ o \in S

\* nkvx_obj_evict_locked keeps the account and evicts what it was given.
LEMMA EvictSound ==
    ASSUME NEW g, NEW pins, Sound(g, pins), NEW S, S \subseteq Live(g),
           NEW h, h = nkvx_obj_evict_locked(g, S)
    PROVE  Sound(h, pins) /\ AfterEvict(g, h, S)
<1> DEFINE W == {w \in Range(g.warm) : w.obj \in S}
           c == nkvx_warm_destroy(g, W)
<1>1. h = Kill(c, S)
  BY DEF nkvx_obj_evict_locked
<1>2. /\ Sound(c, pins) /\ Keeps(g, c) /\ Range(c.warm) = Range(g.warm) \ W
      /\ \A o \in DOMAIN c.ent : c.ent[o].dead = g.ent[o].dead
      /\ \A o \in DOMAIN g.ent \ DOMAIN c.ent : g.ent[o].dead
  BY WarmDestroySound, SMT
<1> HIDE DEF c
<1>3. S \subseteq DOMAIN c.ent
  BY <1>2, LiveListed DEF Sound
<1>4. /\ Sound(h, pins) /\ Keeps(c, h) /\ h.warm = c.warm
      /\ \A o \in DOMAIN h.ent : h.ent[o].dead <=> (c.ent[o].dead \/ o \in S)
      /\ DOMAIN c.ent \ DOMAIN h.ent \subseteq S
  BY <1>1, <1>2, <1>3, KillSound
<1>5. Keeps(g, h)
  BY <1>2, <1>4, SMT DEF Keeps
<1>6. \A o \in DOMAIN h.ent : h.ent[o].dead <=> (g.ent[o].dead \/ o \in S)
  BY <1>2, <1>4 DEF Keeps
<1>7. \A o \in DOMAIN g.ent \ DOMAIN h.ent : g.ent[o].dead \/ o \in S
  BY <1>2, <1>4
<1> QED BY <1>2, <1>4, <1>5, <1>6, <1>7 DEF AfterEvict

\* nkvx_cache_invalidate_locked keeps the account; what it leaves of the key is dead.
LEMMA InvalidateSound ==
    ASSUME NEW g, NEW pins, Sound(g, pins), NEW k,
           NEW h, h = nkvx_cache_invalidate_locked(g, k)
    PROVE  Sound(h, pins) /\ AfterInvalidate(g, h, k)
<1> DEFINE W == {w \in Range(g.warm) : w.obj_key = k}
           c == nkvx_warm_destroy(g, W)
           S == nkvx_obj_lookup(c, k)
<1>1. h = Kill(c, S)
  BY DEF nkvx_cache_invalidate_locked, With
<1>2. /\ Sound(c, pins) /\ Keeps(g, c) /\ Range(c.warm) = Range(g.warm) \ W
      /\ \A o \in DOMAIN c.ent : c.ent[o].dead = g.ent[o].dead
  BY WarmDestroySound, SMT
<1> HIDE DEF c
<1>3. S = {o \in DOMAIN c.ent : ~ c.ent[o].dead /\ c.ent[o].obj_key = k}
  BY <1>2, LiveListed, SMT DEF Sound
<1> HIDE DEF S
<1>4. /\ Sound(h, pins) /\ Keeps(c, h) /\ h.warm = c.warm
      /\ \A o \in DOMAIN h.ent : h.ent[o].dead <=> (c.ent[o].dead \/ o \in S)
  BY <1>1, <1>2, <1>3, KillSound, SMT
<1>5. Keeps(g, h)
  BY <1>2, <1>4 DEF Keeps
<1>6. \A o \in DOMAIN h.ent : h.ent[o].dead <=> (g.ent[o].dead \/ g.ent[o].obj_key = k)
  BY <1>2, <1>3, <1>4, SMT DEF Keeps
<1> QED BY <1>2, <1>4, <1>5, <1>6 DEF AfterInvalidate

\* Enforcing the caps evicts the fewest that hold them, or all.
LEMMA EnforceIs ==
    ASSUME NEW g, Listed(g), NEW h, h = nkvx_obj_cache_enforce_caps(g)
    PROVE  \E n \in 0..Len(g.objects) :
              /\ h = nkvx_obj_evict_locked(g, Oldest(g, n))
              /\ n = Len(g.objects) \/ ~ OverCaps(h)
              /\ \A m \in 0..Len(g.objects) :
                    m < n => OverCaps(nkvx_obj_evict_locked(g, Oldest(g, m)))
<1> DEFINE E(n) == nkvx_obj_evict_locked(g, Oldest(g, n))
           enough == {n \in 0..Len(g.objects) : ~ OverCaps(E(n))}
           n == IF enough = {} THEN Len(g.objects) ELSE Min(enough)
<1>1. h = E(n)
  <2>1. \A m : Evicted(g, m) = E(m)
    BY DEF Evicted, With
  <2>2. \A m : With(Evicted(g, m), OverCaps) = OverCaps(Evicted(g, m))
    BY DEF With
  <2>3. Enough(g) = enough
    <3> HIDE DEF E
    <3> QED BY <2>1, <2>2 DEF Enough
  <2>4. h = Evicted(g, IF Enough(g) = {} THEN Len(g.objects) ELSE Min(Enough(g)))
    BY DEF nkvx_obj_cache_enforce_caps, With
  <2> HIDE DEF E, enough
  <2> QED BY <2>1, <2>3, <2>4
<1>2. Len(g.objects) \in Nat
  BY SMT DEF Listed
<1> HIDE DEF E
<1>3. CASE enough = {}
  <2>1. n = Len(g.objects) /\ n \in 0..Len(g.objects)
    BY <1>2, <1>3, SMT
  <2>2. \A m \in 0..Len(g.objects) : OverCaps(E(m))
    BY <1>3
  <2> HIDE DEF n
  <2> QED BY <1>1, <2>1, <2>2 DEF E
<1>4. CASE enough # {}
  <2>1. Min(enough) \in enough /\ \A m \in enough : Min(enough) =< m
    <3>1. enough \subseteq Nat
      BY <1>2, SMT
    <3> HIDE DEF enough
    <3> QED BY <1>4, <3>1, MinIsLeast
  <2>2. n = Min(enough)
    BY <1>4
  <2>3. n \in 0..Len(g.objects) /\ ~ OverCaps(E(n))
    BY <2>1, <2>2
  <2>4. ASSUME NEW m \in 0..Len(g.objects), m < n PROVE OverCaps(E(m))
    <3>1. m \notin enough
      BY <2>1, <2>2, <2>3, <2>4, <1>2, SMT
    <3> QED BY <3>1
  <2> HIDE DEF n
  <2> QED BY <1>1, <2>3, <2>4 DEF E
<1> QED BY <1>3, <1>4

\* nkvx_warm_cache_enforce_caps keeps the account and leaves the cap held.
LEMMA WarmCapsSound ==
    ASSUME NEW g, NEW pins, Sound(g, pins),
           NEW h, h = nkvx_warm_cache_enforce_caps(g)
    PROVE  /\ Sound(h, pins)
           /\ Keeps(g, h)
           /\ Range(h.warm) \subseteq Range(g.warm)
           /\ \A o \in DOMAIN h.ent : h.ent[o].dead = g.ent[o].dead
           /\ \A o \in DOMAIN g.ent \ DOMAIN h.ent : g.ent[o].dead
           /\ MaxWarm # 0 => Len(h.warm) =< MaxWarm
<1>1. CASE MaxWarm = 0
  <2>1. h = g
    BY <1>1 DEF nkvx_warm_cache_enforce_caps
  <2> QED BY <1>1, <2>1 DEF Keeps
<1>2. CASE MaxWarm # 0
  <2> DEFINE n == Len(g.warm) - MaxWarm
             W == {g.warm[i] : i \in 1..n}
  <2>0. /\ g.warm \in Seq(WarmEntry) /\ Once(g.warm) /\ Len(g.warm) \in Nat
        /\ MaxWarm \in Nat /\ n \in Int
    BY CacheAssumption, SMT DEF Sound, Listed
  <2>1. h = nkvx_warm_destroy(g, W)
    BY <1>2 DEF nkvx_warm_cache_enforce_caps, With
  <2>2. W \subseteq Range(g.warm)
    BY <2>0, SMT DEF Range
  <2>3. /\ Sound(h, pins) /\ Keeps(g, h) /\ Range(h.warm) = Range(g.warm) \ W
        /\ \A o \in DOMAIN h.ent : h.ent[o].dead = g.ent[o].dead
        /\ \A o \in DOMAIN g.ent \ DOMAIN h.ent : g.ent[o].dead
    <3> HIDE DEF W
    <3> QED BY <2>1, <2>2, WarmDestroySound, SMT
  <2>4. Len(h.warm) =< MaxWarm
    <3> DEFINE R == Range(g.warm)
    <3>1. IsFiniteSet(R) /\ Cardinality(R) = Len(g.warm)
      BY <2>0, OnceCard
    <3>2. Cardinality(Range(h.warm)) = Len(h.warm)
      BY <2>3, OnceCard DEF Sound, Listed
    <3>3. R \cap W = W
      BY <2>2
    <3>4. Cardinality(R \ W) = Cardinality(R) - Cardinality(R \cap W)
      BY <3>1, FS_Difference
    <3>5. Len(h.warm) = Len(g.warm) - Cardinality(W)
      <4> HIDE DEF R, W
      <4> QED BY <2>3, <3>1, <3>2, <3>3, <3>4 DEF R
    <3>6. CASE n =< 0
      <4>1. W = {}
        BY <3>6, <2>0, SMT
      <4>2. Cardinality(W) = 0
        BY <4>1, FS_EmptySet
      <4> HIDE DEF W
      <4> QED BY <4>2, <3>5, <3>6, <2>0, SMT
    <3>7. CASE n > 0
      <4> HIDE DEF n
      <4>1. n \in Nat /\ 1 \in Int /\ n \in Int /\ ~ (1 > n) /\ n - 1 + 1 = n
        BY <3>7, <2>0, SMT
      <4>2. IsFiniteSet(1..n) /\ Cardinality(1..n) = IF 1 > n THEN 0 ELSE n - 1 + 1
        BY <4>1, FS_Interval
      <4>3. \A i \in 1..n : i \in DOMAIN g.warm
        BY <2>0, <4>1, SMT DEF n
      <4> DEFINE f == [i \in 1..n |-> g.warm[i]]
      <4>4. f \in Bijection(1..n, W)
        BY <2>0, <4>3 DEF Bijection, Injection, Surjection, IsInjective, Once
      <4>5. ExistsBijection(1..n, W)
        BY <4>4 DEF ExistsBijection
      <4>6. Cardinality(W) = Cardinality(1..n)
        BY <4>2, <4>5, FS_Bijection
      <4>7. Cardinality(W) = n
        BY <4>1, <4>2, <4>6
      <4> HIDE DEF W
      <4> QED BY <4>7, <3>5, <2>0, SMT DEF n
    <3> QED BY <3>6, <3>7, <2>0, SMT
  <2> QED BY <2>3, <2>4
<1> QED BY <1>1, <1>2

================================================================================
