-------------------------- MODULE LRUCache_proofs ---------------------------
(***************************************************************************)
(* The cache keeps its list in order of use, for any number of keys,       *)
(* values and slots.                                                       *)
(*                                                                         *)
(* The lemmas say what the slot functions do to a list that holds the      *)
(* slots of a set in the reverse of an order (Linked), and to the chain of *)
(* unused slots (Chained).  Every action of the cache is one or two slot   *)
(* functions followed by a touch of the order, so the invariant follows    *)
(* from these lemmas.                                                      *)
(***************************************************************************)
EXTENDS LRUCache, TLAPS, FiniteSetTheorems, FunctionTheorems

-----------------------------------------------------------------------------
(***************************************************************************)
(* Slot functions map lists to lists, field by field.                      *)
(***************************************************************************)
LEMMA BypassFields ==
  ASSUME NEW l \in Lists, NEW s \in Slot
  PROVE  LET b == Bypass(l, s)
         IN  /\ b \in Lists
             /\ b.unused = l.unused
             /\ b.fresh = IF l.fresher[s] = Null THEN l.staler[s] ELSE l.fresh
             /\ b.stale = IF l.staler[s] = Null THEN l.fresher[s] ELSE l.stale
             /\ \A t \in Slot : b.staler[t] = IF t = l.fresher[s] THEN l.staler[s]
                                              ELSE l.staler[t]
             /\ \A t \in Slot : b.fresher[t] = IF t = l.staler[s] THEN l.fresher[s]
                                               ELSE l.fresher[t]
  BY DEF Bypass, Lists, Pointer

LEMMA FreshenFields ==
  ASSUME NEW l \in Lists, NEW s \in Slot
  PROVE  LET f == Freshen(l, s)
         IN  /\ f \in Lists
             /\ f.unused = l.unused
             /\ f.fresh = s
             /\ f.stale = IF l.stale = Null THEN s ELSE l.stale
             /\ \A t \in Slot : f.staler[t] = IF t = s THEN l.fresh ELSE l.staler[t]
             /\ \A t \in Slot : f.fresher[t] = IF t = s THEN Null
                                               ELSE IF t = l.fresh THEN s
                                               ELSE l.fresher[t]
  BY DEF Freshen, Lists, Pointer

LEMMA DiscardFields ==
  ASSUME NEW l \in Lists, NEW s \in Slot
  PROVE  LET b == Bypass(l, s)
             d == Discard(l, s)
         IN  /\ d \in Lists
             /\ d.unused = s
             /\ d.fresh = b.fresh
             /\ d.stale = b.stale
             /\ \A t \in Slot : d.staler[t] = IF t = s THEN l.unused ELSE b.staler[t]
             /\ \A t \in Slot : d.fresher[t] = b.fresher[t]
<1> DEFINE b == Bypass(l, s)
           d == [b EXCEPT !.staler = [b.staler EXCEPT ![s] = b.unused],
                          !.unused = s]
<1>1. b \in Lists /\ b.unused = l.unused  BY BypassFields
<1>2. Discard(l, s) = d  BY DEF Discard
<1>3. /\ d \in Lists
      /\ d.unused = s
      /\ d.fresh = b.fresh
      /\ d.stale = b.stale
      /\ \A t \in Slot : d.staler[t] = IF t = s THEN b.unused ELSE b.staler[t]
      /\ \A t \in Slot : d.fresher[t] = b.fresher[t]
  <2> HIDE DEF b
  <2> QED  BY <1>1 DEF Lists, Pointer
<1> HIDE DEF b, d
<1> QED  BY <1>1, <1>2, <1>3 DEF b

LEMMA PopUnusedFields ==
  ASSUME NEW l \in Lists, l.unused # Null
  PROVE  LET p == PopUnused(l)
         IN  /\ p \in Lists
             /\ p.unused = l.staler[l.unused]
             /\ p.fresh = l.fresh
             /\ p.stale = l.stale
             /\ p.staler = l.staler
             /\ p.fresher = l.fresher
  BY DEF PopUnused, Lists, Pointer

LEMMA CutStaleFields ==
  ASSUME NEW l \in Lists, l.stale # Null
  PROVE  LET c    == CutStale(l)
             next == l.fresher[l.stale]
         IN  /\ c \in Lists
             /\ c.unused = l.unused
             /\ c.fresh = l.fresh
             /\ c.stale = next
             /\ \A t \in Slot : c.staler[t] = IF t = next THEN Null ELSE l.staler[t]
             /\ c.fresher = l.fresher
  BY DEF CutStale, Lists, Pointer

-----------------------------------------------------------------------------
(***************************************************************************)
(* Touching a slot makes it the last of the order and leaves the order of  *)
(* the others.                                                             *)
(***************************************************************************)
LEMMA TouchPairs ==
  ASSUME NEW R \in SUBSET (Slot \X Slot), NEW U \in SUBSET Slot, NEW s \in Slot
  PROVE  /\ Touch(R, U, s) \in SUBSET (Slot \X Slot)
         /\ \A p, q \in Slot : p # s /\ q # s =>
              (<<p, q>> \in Touch(R, U, s) <=> <<p, q>> \in R)
         /\ \A q \in Slot : <<q, s>> \in Touch(R, U, s) <=> q \in U /\ q # s
         /\ \A q \in Slot : <<s, q>> \notin Touch(R, U, s)
  BY DEF Touch

LEMMA TouchOrdered ==
  ASSUME NEW R \in SUBSET (Slot \X Slot), NEW U \in SUBSET Slot, NEW s \in Slot,
         Ordered(R, U)
  PROVE  Ordered(Touch(R, U, s), U \union {s})
  BY TouchPairs DEF Ordered

(***************************************************************************)
(* A slot that leaves the list leaves a list behind.                       *)
(***************************************************************************)
LEMMA BypassLinked ==
  ASSUME NEW l \in Lists, NEW R \in SUBSET (Slot \X Slot), NEW S \in SUBSET Slot,
         NEW s \in S, LRUAssumption, Ordered(R, S), Linked(l, R, S)
  PROVE  Linked(Bypass(l, s), R, S \ {s})
<1> DEFINE b == Bypass(l, s)
           T == S \ {s}
<1>0. Null \notin Slot /\ s \in Slot  BY DEF LRUAssumption
<1>1. /\ b.fresh = IF l.fresher[s] = Null THEN l.staler[s] ELSE l.fresh
      /\ b.stale = IF l.staler[s] = Null THEN l.fresher[s] ELSE l.stale
      /\ \A t \in Slot : b.staler[t] = IF t = l.fresher[s] THEN l.staler[s]
                                       ELSE l.staler[t]
      /\ \A t \in Slot : b.fresher[t] = IF t = l.staler[s] THEN l.fresher[s]
                                        ELSE l.fresher[t]
  BY BypassFields
<1> HIDE DEF b
<1>2. IsNewest(b.fresh, R, T)
  <2>1. CASE l.fresher[s] = Null
    <3>1. s = l.fresh  BY <2>1 DEF Linked
    <3>2. \A r \in T : <<r, s>> \in R
      BY <3>1, <1>0 DEF Linked, IsNewest
    <3>3. IsBefore(l.staler[s], s, R, S)  BY DEF Linked
    <3>4. b.fresh = l.staler[s]  BY <1>1, <2>1
    <3> QED  BY <3>2, <3>3, <3>4, <1>0 DEF IsBefore, IsNewest, Ordered
  <2>2. CASE l.fresher[s] # Null
    <3>1. l.fresher[s] \in S /\ l.staler[l.fresher[s]] = s
      BY <2>2 DEF Linked
    <3>2. <<s, l.fresher[s]>> \in R
      BY <3>1, <1>0 DEF Linked, IsBefore
    <3>3. l.fresh # s
      BY <3>1, <3>2, <1>0 DEF Linked, IsNewest, Ordered
    <3>4. b.fresh = l.fresh  BY <1>1, <2>2
    <3> QED  BY <3>3, <3>4, <1>0 DEF Linked, IsNewest
  <2> QED  BY <2>1, <2>2
<1>3. IsOldest(b.stale, R, T)
  <2>1. CASE l.staler[s] = Null
    <3>1. \A r \in S : <<r, s>> \notin R  BY <2>1 DEF Linked, IsBefore
    <3>2. \A r \in T : <<s, r>> \in R  BY <3>1 DEF Ordered
    <3>3. b.stale = l.fresher[s]  BY <1>1, <2>1
    <3>4. CASE l.fresher[s] = Null
      <4>1. \A r \in T : <<r, s>> \in R
        BY <3>4, <1>0 DEF Linked, IsNewest
      <4>2. T = {}  BY <4>1, <3>1
      <4> QED  BY <4>2, <3>3, <3>4 DEF IsOldest
    <3>5. CASE l.fresher[s] # Null
      <4>1. l.fresher[s] \in S /\ l.staler[l.fresher[s]] = s
        BY <3>5 DEF Linked
      <4>2. IsBefore(s, l.fresher[s], R, S)  BY <4>1 DEF Linked
      <4>3. <<s, l.fresher[s]>> \in R /\ l.fresher[s] # s
        BY <4>2, <1>0 DEF IsBefore, Ordered
      <4>4. \A r \in T : r # l.fresher[s] => <<l.fresher[s], r>> \in R
        BY <4>1, <4>2, <3>1, <1>0 DEF IsBefore, Ordered
      <4> QED  BY <4>1, <4>3, <4>4, <3>3, <3>5 DEF IsOldest
    <3> QED  BY <3>4, <3>5
  <2>2. CASE l.staler[s] # Null
    <3>1. l.staler[s] \in S /\ <<l.staler[s], s>> \in R
      BY <2>2 DEF Linked, IsBefore
    <3>2. l.stale # s
      BY <3>1, <1>0 DEF Linked, IsOldest, Ordered
    <3>3. b.stale = l.stale  BY <1>1, <2>2
    <3> QED  BY <3>2, <3>3, <1>0 DEF Linked, IsOldest
  <2> QED  BY <2>1, <2>2
<1>4. \A t \in T : IsBefore(b.staler[t], t, R, T)
  <2> SUFFICES ASSUME NEW t \in T  PROVE IsBefore(b.staler[t], t, R, T)
    OBVIOUS
  <2>1. IsBefore(l.staler[t], t, R, S) /\ IsBefore(l.staler[s], s, R, S)
    BY DEF Linked
  <2>2. CASE t = l.fresher[s]
    <3>1. l.staler[t] = s  BY <2>2, <1>0 DEF Linked
    <3>2. b.staler[t] = l.staler[s]  BY <1>1, <2>2
    <3>3. <<s, t>> \in R /\ \A r \in S : <<r, t>> \in R => r = s \/ <<r, s>> \in R
      BY <2>1, <3>1, <1>0 DEF IsBefore
    <3> QED  BY <2>1, <3>2, <3>3, <1>0 DEF IsBefore, Ordered
  <2>3. CASE t # l.fresher[s]
    <3>1. l.staler[t] # s
      BY <2>3, <1>0 DEF Linked
    <3>2. b.staler[t] = l.staler[t]  BY <1>1, <2>3
    <3> QED  BY <2>1, <3>1, <3>2 DEF IsBefore
  <2> QED  BY <2>2, <2>3
<1>5. \A t \in T : l.staler[t] = s => l.fresher[s] = t
  BY <1>0 DEF Linked
<1>6. \A t \in T : l.fresher[t] = s => l.staler[s] = t
  BY <1>0 DEF Linked
<1>7. \A t \in S : t # l.staler[t]
  <2> TAKE t \in S
  <2>1. IsBefore(l.staler[t], t, R, S)
    BY DEF Linked
  <2>2. l.staler[t] # Null => <<l.staler[t], t>> \in R
    BY <2>1 DEF IsBefore
  <2>3. <<t, t>> \notin R /\ t # Null
    BY <1>0 DEF Ordered
  <2> QED  BY <2>2, <2>3
<1>8. s # l.staler[s] /\ s # l.fresher[s]
  BY <1>0, <1>7 DEF Linked
<1>9. \A t \in T : IF b.fresher[t] = Null THEN t = b.fresh
                   ELSE b.fresher[t] \in T /\ b.staler[b.fresher[t]] = t
  <2> SUFFICES ASSUME NEW t \in T
               PROVE  IF b.fresher[t] = Null THEN t = b.fresh
                      ELSE b.fresher[t] \in T /\ b.staler[b.fresher[t]] = t
    OBVIOUS
  <2>1. CASE t = l.staler[s]
    <3>1. b.fresher[t] = l.fresher[s]  BY <1>1, <2>1
    <3>2. CASE l.fresher[s] = Null
      BY <3>1, <3>2, <2>1, <1>1
    <3>3. CASE l.fresher[s] # Null
      <4>1. l.fresher[s] \in T  BY <3>3, <1>8 DEF Linked
      <4> QED  BY <3>1, <3>3, <4>1, <2>1, <1>1
    <3> QED  BY <3>2, <3>3
  <2>2. CASE t # l.staler[s]
    <3>1. b.fresher[t] = l.fresher[t]  BY <1>1, <2>2
    <3>2. l.fresher[t] # s  BY <1>6, <2>2
    <3>3. CASE l.fresher[t] = Null
      <4>1. t = l.fresh  BY <3>3 DEF Linked
      <4>2. l.fresher[s] # Null
        BY <4>1 DEF Linked
      <4> QED  BY <3>1, <3>3, <4>1, <4>2, <1>1
    <3>4. CASE l.fresher[t] # Null
      <4>1. l.fresher[t] \in T /\ l.staler[l.fresher[t]] = t
        BY <3>4, <3>2 DEF Linked
      <4>2. l.fresher[t] # l.fresher[s]
        BY <4>1, <1>0 DEF Linked
      <4> QED  BY <3>1, <3>4, <4>1, <4>2, <1>1
    <3> QED  BY <3>3, <3>4
  <2> QED  BY <2>1, <2>2
<1>10. \A t \in T : b.staler[t] # Null => b.fresher[b.staler[t]] = t
  <2> SUFFICES ASSUME NEW t \in T, b.staler[t] # Null
               PROVE  b.fresher[b.staler[t]] = t
    OBVIOUS
  <2>1. CASE t = l.fresher[s]
    <3>1. b.staler[t] = l.staler[s]  BY <1>1, <2>1
    <3>2. l.staler[s] \in Slot  BY <3>1 DEF Linked, IsBefore
    <3> QED  BY <3>1, <3>2, <1>1, <2>1
  <2>2. CASE t # l.fresher[s]
    <3>1. b.staler[t] = l.staler[t]  BY <1>1, <2>2
    <3>2. l.staler[t] \in Slot /\ l.fresher[l.staler[t]] = t
      BY <3>1 DEF Linked, IsBefore
    <3>3. l.staler[t] # l.staler[s]
      BY <3>1, <3>2, <1>0 DEF Linked
    <3> QED  BY <3>1, <3>2, <3>3, <1>1
  <2> QED  BY <2>1, <2>2
<1> QED  BY <1>2, <1>3, <1>4, <1>9, <1>10 DEF Linked, b

(***************************************************************************)
(* A slot put at the fresh end is the newest of a list that was linked.    *)
(***************************************************************************)
LEMMA FreshenLinked ==
  ASSUME NEW l \in Lists, NEW R \in SUBSET (Slot \X Slot), NEW U \in SUBSET Slot,
         NEW S \in SUBSET U, NEW s \in Slot \ S,
         LRUAssumption, Ordered(R, S), Linked(l, R, S)
  PROVE  Linked(Freshen(l, s), Touch(R, U, s), S \union {s})
<1> DEFINE f == Freshen(l, s)
           Q == Touch(R, U, s)
           T == S \union {s}
<1>0. Null \notin Slot  BY DEF LRUAssumption
<1>1. /\ f.fresh = s
      /\ f.stale = IF l.stale = Null THEN s ELSE l.stale
      /\ \A t \in Slot : f.staler[t] = IF t = s THEN l.fresh ELSE l.staler[t]
      /\ \A t \in Slot : f.fresher[t] = IF t = s THEN Null
                                        ELSE IF t = l.fresh THEN s
                                        ELSE l.fresher[t]
  BY FreshenFields
<1>2. /\ \A p, q \in Slot : p # s /\ q # s => (<<p, q>> \in Q <=> <<p, q>> \in R)
      /\ \A q \in Slot : <<q, s>> \in Q <=> q \in U /\ q # s
      /\ \A q \in Slot : <<s, q>> \notin Q
  BY TouchPairs
<1> HIDE DEF f, Q
<1>3. IsNewest(f.fresh, Q, T)  BY <1>0, <1>1, <1>2 DEF IsNewest
<1>4. IsOldest(f.stale, Q, T)
  <2>1. CASE l.stale = Null  BY <2>1, <1>0, <1>1 DEF Linked, IsOldest
  <2>2. CASE l.stale # Null  BY <2>2, <1>0, <1>1, <1>2 DEF Linked, IsOldest
  <2> QED  BY <2>1, <2>2
<1>5. \A t \in T : IsBefore(f.staler[t], t, Q, T)
  <2>1. IsBefore(f.staler[s], s, Q, T)
    <3>1. f.staler[s] = l.fresh /\ IsNewest(l.fresh, R, S)  BY <1>1 DEF Linked
    <3>2. CASE l.fresh = Null
      BY <3>1, <3>2, <1>2 DEF IsNewest, IsBefore
    <3>3. CASE l.fresh # Null
      BY <3>1, <3>3, <1>2 DEF IsNewest, IsBefore
    <3> QED  BY <3>2, <3>3
  <2>2. ASSUME NEW t \in S  PROVE IsBefore(f.staler[t], t, Q, T)
    <3>1. f.staler[t] = l.staler[t] /\ IsBefore(l.staler[t], t, R, S)
      BY <1>1 DEF Linked
    <3> QED  BY <3>1, <1>2 DEF IsBefore
  <2> QED  BY <2>1, <2>2
<1>6. \A t \in T : IF f.fresher[t] = Null THEN t = f.fresh
                   ELSE f.fresher[t] \in T /\ f.staler[f.fresher[t]] = t
  <2>1. ASSUME NEW t \in S, t = l.fresh
        PROVE  f.fresher[t] = s /\ f.staler[s] = t
    BY <2>1, <1>1
  <2>2. ASSUME NEW t \in S, t # l.fresh
        PROVE  f.fresher[t] \in S /\ f.staler[f.fresher[t]] = t
    BY <2>2, <1>1 DEF Linked
  <2>3. f.fresher[s] = Null  BY <1>1
  <2> QED  BY <2>1, <2>2, <2>3, <1>0, <1>1
<1>7. \A t \in T : f.staler[t] # Null => f.fresher[f.staler[t]] = t
  <2>1. l.fresh # Null => f.fresher[l.fresh] = s
    BY <1>1 DEF Linked, IsNewest
  <2>2. ASSUME NEW t \in S, l.staler[t] # Null
        PROVE  f.fresher[l.staler[t]] = t
    <3>1. /\ l.staler[t] \in S /\ <<l.staler[t], t>> \in R
          /\ l.fresher[l.staler[t]] = t
      BY <2>2 DEF Linked, IsBefore
    <3>2. l.staler[t] # l.fresh
      BY <3>1, <1>0 DEF Linked, IsNewest, Ordered
    <3> QED  BY <3>1, <3>2, <1>1
  <2> QED  BY <2>1, <2>2, <1>1
<1> QED  BY <1>3, <1>4, <1>5, <1>6, <1>7 DEF Linked, f, Q

(***************************************************************************)
(* Whether a set of slots is linked, or chained, depends only on the slots *)
(* of the set.                                                             *)
(***************************************************************************)
LEMMA LinkedSame ==
  ASSUME NEW l \in Lists, NEW m \in Lists, NEW R, NEW Q, NEW S \in SUBSET Slot,
         Linked(l, R, S),
         m.fresh = l.fresh, m.stale = l.stale,
         \A t \in S : m.staler[t] = l.staler[t] /\ m.fresher[t] = l.fresher[t],
         \A p, q \in S : <<p, q>> \in Q <=> <<p, q>> \in R
  PROVE  Linked(m, Q, S)
<1>1. IsNewest(m.fresh, Q, S) /\ IsOldest(m.stale, Q, S)
  BY DEF Linked, IsNewest, IsOldest
<1>2. \A t \in S : IsBefore(m.staler[t], t, Q, S)
  BY DEF Linked, IsBefore
<1>3. \A t \in S : l.staler[t] # Null => l.staler[t] \in S
  BY DEF Linked, IsBefore
<1> QED  BY <1>1, <1>2, <1>3 DEF Linked

LEMMA ChainedSame ==
  ASSUME NEW l \in Lists, NEW m \in Lists, NEW R, NEW Q, NEW S \in SUBSET Slot,
         Chained(l, R, S),
         m.unused = l.unused,
         \A t \in S : m.staler[t] = l.staler[t],
         \A p, q \in S : <<p, q>> \in Q <=> <<p, q>> \in R
  PROVE  Chained(m, Q, S)
<1>1. IsNewest(m.unused, Q, S)  BY DEF Chained, IsNewest
<1>2. \A t \in S : IsBefore(m.staler[t], t, Q, S)
  BY DEF Chained, IsBefore
<1> QED  BY <1>1, <1>2 DEF Chained

\* A slot put at the head of the chain, and the head taken from it.
LEMMA ChainedAdd ==
  ASSUME NEW l \in Lists, NEW m \in Lists, NEW R \in SUBSET (Slot \X Slot),
         NEW U \in SUBSET Slot, NEW S \in SUBSET U, NEW s \in Slot \ S,
         LRUAssumption, Chained(l, R, S),
         m.unused = s, m.staler[s] = l.unused,
         \A t \in S : m.staler[t] = l.staler[t]
  PROVE  Chained(m, Touch(R, U, s), S \union {s})
<1> DEFINE Q == Touch(R, U, s)
<1>0. Null \notin Slot  BY DEF LRUAssumption
<1>1. /\ \A p, q \in Slot : p # s /\ q # s => (<<p, q>> \in Q <=> <<p, q>> \in R)
      /\ \A q \in Slot : <<q, s>> \in Q <=> q \in U /\ q # s
      /\ \A q \in Slot : <<s, q>> \notin Q
  BY TouchPairs
<1> HIDE DEF Q
<1>2. IsNewest(m.unused, Q, S \union {s})  BY <1>0, <1>1 DEF IsNewest
<1>3. IsBefore(m.staler[s], s, Q, S \union {s})
  BY <1>1 DEF Chained, IsNewest, IsBefore
<1>4. \A t \in S : IsBefore(m.staler[t], t, Q, S \union {s})
  BY <1>1 DEF Chained, IsBefore
<1> QED  BY <1>2, <1>3, <1>4 DEF Chained, Q

LEMMA ChainedPop ==
  ASSUME NEW l \in Lists, NEW m \in Lists, NEW R \in SUBSET (Slot \X Slot),
         NEW S \in SUBSET Slot,
         LRUAssumption, Ordered(R, S), Chained(l, R, S), l.unused # Null,
         m.unused = l.staler[l.unused], m.staler = l.staler
  PROVE  /\ l.unused \in S
         /\ Chained(m, R, S \ {l.unused})
<1> DEFINE s == l.unused
<1>0. Null \notin Slot  BY DEF LRUAssumption
<1>1. s \in S /\ \A r \in S \ {s} : <<r, s>> \in R  BY DEF Chained, IsNewest
<1>2. IsBefore(l.staler[s], s, R, S)  BY <1>1 DEF Chained
<1>3. IsNewest(m.unused, R, S \ {s})
  <2>1. CASE l.staler[s] = Null  BY <2>1, <1>1, <1>2 DEF IsBefore, IsNewest
  <2>2. CASE l.staler[s] # Null
    BY <2>2, <1>0, <1>1, <1>2 DEF IsBefore, IsNewest, Ordered
  <2> QED  BY <2>1, <2>2
<1>4. \A t \in S \ {s} : IsBefore(m.staler[t], t, R, S \ {s})
  BY <1>0, <1>1 DEF Chained, IsBefore, Ordered
<1> QED  BY <1>1, <1>3, <1>4 DEF Chained

(***************************************************************************)
(* An entry that is used again moves to the fresh end.                     *)
(***************************************************************************)
LEMMA ReuseKeeps ==
  ASSUME NEW l \in Lists, NEW R \in SUBSET (Slot \X Slot), NEW U \in SUBSET Slot,
         NEW S \in SUBSET U, NEW s \in S,
         LRUAssumption, Ordered(R, U), Linked(l, R, S), Chained(l, R, U \ S)
  PROVE  /\ Reuse(l, s) \in Lists
         /\ Linked(Reuse(l, s), Touch(R, U, s), S)
         /\ Chained(Reuse(l, s), Touch(R, U, s), U \ S)
<1> DEFINE Q == Touch(R, U, s)
           b == Bypass(l, s)
           f == Freshen(b, s)
<1>0. Null \notin Slot /\ s \in Slot  BY DEF LRUAssumption
<1>1. \A p, q \in U \ S : <<p, q>> \in Q <=> <<p, q>> \in R  BY TouchPairs
<1>2. Ordered(R, S) /\ Ordered(R, S \ {s})  BY DEF Ordered
<1>3. CASE l.fresh = s
  <2>1. Reuse(l, s) = l  BY <1>3 DEF Reuse
  <2>2. \A t \in S \ {s} : <<t, s>> \in R /\ <<s, t>> \notin R
    BY <1>2, <1>3, <1>0 DEF Linked, IsNewest, Ordered
  <2>3. \A p, q \in S : <<p, q>> \in Q <=> <<p, q>> \in R
    BY ZenonT(60), <2>2, <1>2, TouchPairs DEF Ordered
  <2>4. Linked(l, Q, S)  BY <2>3, LinkedSame
  <2>5. Chained(l, Q, U \ S)  BY <1>1, ChainedSame
  <2> QED  BY <2>1, <2>4, <2>5
<1>4. CASE l.fresh # s
  <2>1. Reuse(l, s) = f  BY <1>4 DEF Reuse
  <2>2. b \in Lists /\ Linked(b, R, S \ {s})
    BY <1>2, BypassFields, BypassLinked
  <2>3. f \in Lists  BY <2>2, FreshenFields
  <2>4. Linked(f, Q, (S \ {s}) \union {s})
    <3> HIDE DEF b
    <3> QED  BY <2>2, <1>2, FreshenLinked
  <2>5. (S \ {s}) \union {s} = S  OBVIOUS
  <2>6. f.unused = l.unused
    BY <2>2, BypassFields, FreshenFields
  <2>7. \A t \in U \ S : f.staler[t] = l.staler[t]
    <3> SUFFICES ASSUME NEW t \in U \ S  PROVE f.staler[t] = l.staler[t]
      OBVIOUS
    <3>1. t # l.fresher[s]  BY <1>0 DEF Linked
    <3>2. b.staler[t] = l.staler[t]  BY <3>1, BypassFields
    <3>3. f.staler[t] = b.staler[t]  BY <2>2, FreshenFields
    <3> QED  BY <3>2, <3>3
  <2>8. Chained(f, Q, U \ S)
    <3> HIDE DEF f, Q
    <3> QED  BY <2>3, <2>6, <2>7, <1>1, ChainedSame
  <2> QED  BY <2>1, <2>3, <2>4, <2>5, <2>8
<1> QED  BY <1>3, <1>4

(***************************************************************************)
(* A deleted entry's slot goes from the list to the chain.                 *)
(***************************************************************************)
LEMMA DiscardKeeps ==
  ASSUME NEW l \in Lists, NEW R \in SUBSET (Slot \X Slot), NEW U \in SUBSET Slot,
         NEW S \in SUBSET U, NEW s \in S,
         LRUAssumption, Ordered(R, U), Linked(l, R, S), Chained(l, R, U \ S)
  PROVE  /\ Discard(l, s) \in Lists
         /\ Linked(Discard(l, s), Touch(R, U, s), S \ {s})
         /\ Chained(Discard(l, s), Touch(R, U, s), (U \ S) \union {s})
<1> DEFINE Q == Touch(R, U, s)
           b == Bypass(l, s)
           d == Discard(l, s)
<1>0. Null \notin Slot /\ s \in Slot  BY DEF LRUAssumption
<1>1. Ordered(R, S)  BY DEF Ordered
<1>2. b \in Lists /\ Linked(b, R, S \ {s})
  BY <1>1, BypassFields, BypassLinked
<1>3. /\ d \in Lists
      /\ d.unused = s
      /\ d.fresh = b.fresh
      /\ d.stale = b.stale
      /\ \A t \in Slot : d.staler[t] = IF t = s THEN l.unused ELSE b.staler[t]
      /\ \A t \in Slot : d.fresher[t] = b.fresher[t]
  BY DiscardFields
<1>4. \A p, q \in Slot \ {s} : <<p, q>> \in Q <=> <<p, q>> \in R  BY TouchPairs
<1>5. Linked(d, Q, S \ {s})
  <2> HIDE DEF b, d, Q
  <2> QED  BY <1>2, <1>3, <1>4, LinkedSame
<1>6. \A t \in U \ S : d.staler[t] = l.staler[t]
  <2> SUFFICES ASSUME NEW t \in U \ S  PROVE d.staler[t] = l.staler[t]
    OBVIOUS
  <2>1. t # l.fresher[s]  BY <1>0 DEF Linked
  <2>2. b.staler[t] = l.staler[t]  BY <2>1, BypassFields
  <2> QED  BY <2>2, <1>3
<1>7. Chained(d, Q, (U \ S) \union {s})
  <2> HIDE DEF b, d
  <2> QED  BY <1>3, <1>6, ChainedAdd
<1> QED  BY <1>3, <1>5, <1>7

(***************************************************************************)
(* A new entry's slot comes from the chain, is new, or is the stalest one. *)
(***************************************************************************)
LEMMA FreshenKeeps ==
  ASSUME NEW l \in Lists, NEW R \in SUBSET (Slot \X Slot), NEW U \in SUBSET Slot,
         NEW S \in SUBSET U, NEW P \in SUBSET U, NEW s \in Slot \ (S \union P),
         LRUAssumption, Ordered(R, S), Linked(l, R, S), Chained(l, R, P)
  PROVE  /\ Freshen(l, s) \in Lists
         /\ Linked(Freshen(l, s), Touch(R, U, s), S \union {s})
         /\ Chained(Freshen(l, s), Touch(R, U, s), P)
<1> DEFINE f == Freshen(l, s)
           Q == Touch(R, U, s)
<1>1. /\ f \in Lists
      /\ f.unused = l.unused
      /\ \A t \in P : f.staler[t] = l.staler[t]
  BY FreshenFields
<1>2. \A p, q \in P : <<p, q>> \in Q <=> <<p, q>> \in R  BY ZenonT(60), TouchPairs
<1>3. Linked(f, Q, S \union {s})  BY FreshenLinked
<1>4. Chained(f, Q, P)
  <2> HIDE DEF f, Q
  <2> QED  BY <1>1, <1>2, ChainedSame
<1> QED  BY <1>1, <1>3, <1>4

LEMMA PopKeeps ==
  ASSUME NEW l \in Lists, NEW R \in SUBSET (Slot \X Slot), NEW U \in SUBSET Slot,
         NEW S \in SUBSET U, l.unused # Null,
         LRUAssumption, Ordered(R, U), Linked(l, R, S), Chained(l, R, U \ S)
  PROVE  /\ PopUnused(l) \in Lists
         /\ l.unused \in U \ S
         /\ Linked(PopUnused(l), R, S)
         /\ Chained(PopUnused(l), R, (U \ S) \ {l.unused})
<1> DEFINE p == PopUnused(l)
<1>1. /\ p \in Lists
      /\ p.unused = l.staler[l.unused]
      /\ p.fresh = l.fresh
      /\ p.stale = l.stale
      /\ p.staler = l.staler
      /\ p.fresher = l.fresher
  BY PopUnusedFields
<1>2. Ordered(R, U \ S)  BY DEF Ordered
<1> HIDE DEF p
<1>3. Linked(p, R, S)  BY <1>1, LinkedSame
<1>4. l.unused \in U \ S /\ Chained(p, R, (U \ S) \ {l.unused})
  BY <1>1, <1>2, ChainedPop
<1> QED  BY <1>1, <1>3, <1>4 DEF p

\* With a slot besides the stalest one, cutting that off is bypassing it.
LEMMA CutStaleKeeps ==
  ASSUME NEW l \in Lists, NEW R \in SUBSET (Slot \X Slot), NEW S \in SUBSET Slot,
         NEW t \in S, t # l.stale,
         LRUAssumption, Ordered(R, S), Linked(l, R, S), Chained(l, R, {})
  PROVE  /\ l.stale \in S
         /\ CutStale(l) \in Lists
         /\ Linked(CutStale(l), R, S \ {l.stale})
         /\ Chained(CutStale(l), R, {})
<1> DEFINE s == l.stale
           b == Bypass(l, s)
           c == CutStale(l)
<1>0. Null \notin Slot  BY DEF LRUAssumption
<1>1. s \in S /\ \A r \in S \ {s} : <<s, r>> \in R
  BY DEF Linked, IsOldest
<1>2. l.staler[s] = Null
  <2>1. IsBefore(l.staler[s], s, R, S)  BY <1>1 DEF Linked
  <2> SUFFICES ASSUME l.staler[s] # Null  PROVE FALSE
    OBVIOUS
  <2>2. l.staler[s] \in S /\ <<l.staler[s], s>> \in R  BY <2>1 DEF IsBefore
  <2>3. <<s, l.staler[s]>> \in R \/ s = l.staler[s]  BY <2>2, <1>1
  <2> QED  BY <2>2, <2>3, <1>1 DEF Ordered
<1>3. l.fresher[s] # Null
  <2>1. <<s, t>> \in R  BY <1>1
  <2>2. l.fresh # s  BY <2>1, <1>1, <1>0 DEF Linked, IsNewest, Ordered
  <2> QED  BY <2>2, <1>1 DEF Linked
<1>4. /\ c \in Lists
      /\ c.unused = l.unused
      /\ c.fresh = l.fresh
      /\ c.stale = l.fresher[s]
      /\ \A r \in Slot : c.staler[r] = IF r = l.fresher[s] THEN Null ELSE l.staler[r]
      /\ c.fresher = l.fresher
  BY <1>0, <1>1, CutStaleFields
<1>5. /\ b \in Lists
      /\ b.fresh = c.fresh
      /\ b.stale = c.stale
      /\ \A r \in S : c.staler[r] = b.staler[r] /\ c.fresher[r] = b.fresher[r]
  <2>1. /\ b \in Lists
        /\ b.fresh = IF l.fresher[s] = Null THEN l.staler[s] ELSE l.fresh
        /\ b.stale = IF l.staler[s] = Null THEN l.fresher[s] ELSE l.stale
        /\ \A r \in Slot : b.staler[r] = IF r = l.fresher[s] THEN l.staler[s]
                                         ELSE l.staler[r]
        /\ \A r \in Slot : b.fresher[r] = IF r = l.staler[s] THEN l.fresher[s]
                                          ELSE l.fresher[r]
    <3>1. s \in Slot  BY <1>1
    <3> HIDE DEF s
    <3> QED  BY <3>1, BypassFields
  <2> HIDE DEF b, c
  <2>2. b.fresh = c.fresh /\ b.stale = c.stale  BY <2>1, <1>2, <1>3, <1>4
  <2>3. ASSUME NEW r \in S
        PROVE  c.staler[r] = b.staler[r] /\ c.fresher[r] = b.fresher[r]
    <3>1. r \in Slot /\ r # Null  BY <1>0
    <3>2. c.staler[r] = b.staler[r]  BY <3>1, <2>1, <1>2, <1>4
    <3>3. c.fresher[r] = b.fresher[r]  BY <3>1, <2>1, <1>2, <1>4
    <3> QED  BY <3>2, <3>3
  <2> QED  BY <2>1, <2>2, <2>3
<1>6. Linked(b, R, S \ {s})  BY <1>1, BypassLinked
<1>7. Linked(c, R, S \ {s})
  <2> HIDE DEF b, c
  <2> QED  BY <1>4, <1>5, <1>6, LinkedSame
<1>8. Chained(c, R, {})
  <2> HIDE DEF b, c
  <2> QED  BY <1>4, ChainedSame
<1> QED  BY <1>1, <1>4, <1>7, <1>8

-----------------------------------------------------------------------------
(***************************************************************************)
(* Type correctness: no action follows a NULL pointer or writes outside of *)
(* the slots.  The loop of hemp_cache_lru_empty always is at a slot.       *)
(***************************************************************************)
CursorOK == phase = "cleaning" => cursor \in Slot

TypeInv == TypeOK /\ CursorOK

LEMMA FieldsOK ==
  ASSUME NEW l \in Lists
  PROVE  /\ l.fresh \in Pointer /\ l.stale \in Pointer /\ l.unused \in Pointer
         /\ l.fresher \in [Slot -> Pointer] /\ l.staler \in [Slot -> Pointer]
  BY DEF Lists

LEMMA ReuseInLists ==
  ASSUME NEW l \in Lists, NEW s \in Slot
  PROVE  Reuse(l, s) \in Lists
<1>1. Bypass(l, s) \in Lists  BY BypassFields
<1>2. Freshen(Bypass(l, s), s) \in Lists  BY <1>1, FreshenFields
<1> QED  BY <1>2 DEF Reuse

LEMMA TouchInSlots ==
  ASSUME NEW R \in SUBSET (Slot \X Slot), NEW U \in SUBSET Slot, NEW s \in Slot
  PROVE  Touch(R, U, s) \in SUBSET (Slot \X Slot)
  BY TouchPairs

LEMMA TypeInvInit == LRUAssumption /\ Init => TypeInv
<1> SUFFICES ASSUME LRUAssumption, Init  PROVE TypeInv
  OBVIOUS
<1>1. list \in Lists  BY DEF Init, Lists, Pointer
<1>2. used \in 0..MaxSlots  BY DEF Init, LRUAssumption
<1> QED  BY <1>1, <1>2 DEF Init, TypeInv, TypeOK, CursorOK, Pointer, Phases

LEMMA TypeInvNext == LRUAssumption /\ TypeInv /\ [Next]_vars => TypeInv'
<1> SUFFICES ASSUME LRUAssumption, TypeOK, CursorOK, [Next]_vars
             PROVE  TypeOK' /\ CursorOK'
  BY DEF TypeInv
<1> USE DEF Slot
<1>0. /\ Null \notin Slot /\ MaxSlots \in Nat
      /\ list \in Lists /\ older \in SUBSET (Slot \X Slot)
      /\ 1..used \in SUBSET Slot
      /\ \A k \in Key : index[k] # Null => index[k] \in Slot
  BY DEF LRUAssumption, TypeOK, Pointer
<1>1. ASSUME NEW k \in Key, Fetch(k)  PROVE TypeOK' /\ CursorOK'
  <2>1. CASE index[k] = Null
    BY <1>1, <2>1 DEF Fetch, TypeOK, CursorOK
  <2>2. CASE index[k] # Null
    <3>1. index[k] \in Slot  BY <1>0, <2>2
    <3>2. list' \in Lists  BY <1>0, <1>1, <2>2, <3>1, ReuseInLists DEF Fetch
    <3>3. older' \in SUBSET (Slot \X Slot)
      <4>1. older' = Touch(older, 1..used, index[k])  BY <1>1, <2>2 DEF Fetch
      <4> QED  BY <1>0, <4>1, <3>1, TouchInSlots
    <3>4. result' \in Value \union {Missing}
      BY <1>1, <2>2, <3>1 DEF Fetch, TypeOK
    <3>5. UNCHANGED <<index, key, value, used, phase, cursor, held, misfreed>>
      BY <1>1 DEF Fetch
    <3> QED  BY <3>2, <3>3, <3>4, <3>5 DEF TypeOK, CursorOK
  <2> QED  BY <2>1, <2>2
<1>2. ASSUME NEW k \in Key, Delete(k)  PROVE TypeOK' /\ CursorOK'
  <2>1. index[k] \in Slot  BY <1>0, <1>2 DEF Delete
  <2>2. list' \in Lists  BY <1>0, <1>2, <2>1, DiscardFields DEF Delete
  <2>3. older' \in SUBSET (Slot \X Slot)
    BY <1>0, <1>2, <2>1, TouchInSlots DEF Delete
  <2>4. index' \in [Key -> Pointer]  BY <1>2 DEF Delete, TypeOK, Pointer
  <2>5. held' \subseteq Value /\ misfreed' \in BOOLEAN
    BY <1>2 DEF Delete, FreeValue, TypeOK
  <2> QED  BY <1>2, <2>2, <2>3, <2>4, <2>5 DEF Delete, TypeOK, CursorOK
<1>3. ASSUME NEW k \in Key, NEW v \in Value, Store(k, v)
      PROVE  TypeOK' /\ CursorOK'
  <2>0. phase = "open" /\ UNCHANGED <<result, cursor>>  BY <1>3 DEF Store
  <2>1. CASE StoreAgain(k)
    <3>1. index[k] \in Slot  BY <1>0, <2>1 DEF StoreAgain
    <3>2. list' \in Lists  BY <1>0, <2>1, <3>1, ReuseInLists DEF StoreAgain
    <3>3. older' \in SUBSET (Slot \X Slot)
      BY <1>0, <2>1, <3>1, TouchInSlots DEF StoreAgain
    <3> QED  BY <2>0, <2>1, <3>2, <3>3 DEF StoreAgain, TypeOK, CursorOK
  <2>2. CASE StoreUnused(k, v)
    <3> DEFINE s == list.unused
    <3>1. s \in Slot  BY <1>0, <2>2, FieldsOK DEF StoreUnused, Pointer
    <3>2. list' \in Lists
      BY <1>0, <2>2, <3>1, PopUnusedFields, FreshenFields DEF StoreUnused
    <3>3. older' \in SUBSET (Slot \X Slot)
      BY <1>0, <2>2, <3>1, TouchInSlots DEF StoreUnused, Fill
    <3> HIDE DEF s
    <3> QED  BY <2>0, <2>2, <3>1, <3>2, <3>3
             DEF StoreUnused, Fill, TypeOK, CursorOK, Pointer, s
  <2>3. CASE StoreEvicting(k, v)
    <3> DEFINE s == list.stale
    <3>1. CASE s = Null
      BY <2>0, <2>3, <3>1 DEF StoreEvicting, TypeOK, CursorOK, Phases
    <3>2. CASE s # Null
      <4>1. s \in Slot  BY <1>0, <3>2, FieldsOK DEF Pointer
      <4>2. list' \in Lists
        BY <1>0, <2>3, <3>2, <4>1, CutStaleFields, FreshenFields
           DEF StoreEvicting, Evict
      <4>3. older' \in SUBSET (Slot \X Slot)
        <5>1. older' = Touch(older, 1..used, s)
          BY <2>3, <3>2 DEF StoreEvicting, Evict, Fill
        <5> QED  BY <1>0, <4>1, <5>1, TouchInSlots
      <4>4. held' \subseteq Value /\ misfreed' \in BOOLEAN
        <5>1. /\ held' = (held \ {value[s]}) \union {v}
              /\ misfreed' = (misfreed \/ (value[s] # Missing /\ value[s] \notin held))
          BY <2>3, <3>2 DEF StoreEvicting, Evict
        <5>2. held \subseteq Value /\ misfreed \in BOOLEAN  BY DEF TypeOK
        <5> QED  BY <5>1, <5>2
      <4>5. /\ index' = [index EXCEPT ![key[s]] = Null, ![k] = s]
            /\ key' = [key EXCEPT ![s] = k]
            /\ value' = [value EXCEPT ![s] = v]
            /\ UNCHANGED <<used, phase>>
        BY <2>3, <3>2 DEF StoreEvicting, Evict, Fill
      <4> HIDE DEF s
      <4> QED  BY <2>0, <4>1, <4>2, <4>3, <4>4, <4>5 DEF TypeOK, CursorOK, Pointer
    <3> QED  BY <3>1, <3>2
  <2>4. CASE StoreNew(k, v)
    <3> DEFINE s == used + 1
    <3>1. s \in Slot  BY <2>4, <1>0 DEF StoreNew, TypeOK
    <3>2. list' \in Lists  BY <1>0, <2>4, <3>1, FreshenFields DEF StoreNew
    <3>3. older' \in SUBSET (Slot \X Slot)
      BY <1>0, <2>4, <3>1, TouchInSlots DEF StoreNew, Fill
    <3>4. /\ used' = s /\ index' = [index EXCEPT ![k] = s]
          /\ key' = [key EXCEPT ![s] = k] /\ value' = [value EXCEPT ![s] = v]
          /\ held' = held \union {v} /\ UNCHANGED <<phase, misfreed>>
      BY <2>4 DEF StoreNew, Fill
    <3> HIDE DEF s
    <3>5. s \in 0..MaxSlots  BY <3>1, <1>0
    <3> QED  BY <2>0, <3>1, <3>2, <3>3, <3>4, <3>5 DEF TypeOK, CursorOK, Pointer
  <2> QED  BY <1>3, <2>1, <2>2, <2>3, <2>4 DEF Store
<1>4. ASSUME Clean  PROVE TypeOK' /\ CursorOK'
  <2>1. list.fresh \in Pointer  BY <1>0, FieldsOK
  <2> QED  BY <1>4, <2>1 DEF Clean, TypeOK, CursorOK, Pointer, Phases
<1>5. ASSUME WalkStep  PROVE TypeOK' /\ CursorOK'
  <2>0. cursor \in Slot /\ phase = "cleaning"
    BY <1>5 DEF WalkStep, CursorOK
  <2>1. list.staler[cursor] \in Pointer  BY <1>0, <2>0, FieldsOK
  <2>2. held' \subseteq Value /\ misfreed' \in BOOLEAN
    BY <1>5 DEF WalkStep, FreeValue, TypeOK
  <2>3. value' \in [Slot -> Value \union {Missing}]
    BY <1>5 DEF WalkStep, TypeOK
  <2>4. CASE list.staler[cursor] # Null
    BY <1>5, <2>0, <2>1, <2>2, <2>3, <2>4 DEF WalkStep, TypeOK, CursorOK, Pointer
  <2>5. CASE list.staler[cursor] = Null
    <3>1. list' = [list EXCEPT
                     !.staler = [list.staler EXCEPT ![cursor] = list.unused],
                     !.unused = cursor]
      BY <1>5, <2>5 DEF WalkStep
    <3>2. list' \in Lists
      BY <3>1, <2>0, <1>0 DEF Lists, Pointer
    <3>3. cursor' = Null /\ phase' = "freed"
      BY <1>5, <2>5 DEF WalkStep
    <3> QED  BY <1>5, <2>2, <2>3, <3>2, <3>3
             DEF WalkStep, TypeOK, CursorOK, Pointer, Phases
  <2> QED  BY <2>4, <2>5
<1>6. CASE UNCHANGED vars  BY <1>6 DEF vars, TypeOK, CursorOK
<1> QED  BY <1>1, <1>2, <1>3, <1>4, <1>5, <1>6 DEF Next

(***************************************************************************)
(* Whatever the size of the cache and however it is used, its pointers are *)
(* slots or NULL.                                                          *)
(***************************************************************************)
THEOREM TypeCorrect == Spec => []TypeOK
<1>1. LRUAssumption /\ Init => TypeInv  BY TypeInvInit
<1>2. LRUAssumption /\ TypeInv /\ [Next]_vars => TypeInv'  BY TypeInvNext
<1>3. TypeInv => TypeOK  BY DEF TypeInv
<1> QED  BY <1>1, <1>2, <1>3, LRUAssumption, PTL DEF Spec

-----------------------------------------------------------------------------
(***************************************************************************)
(* The invariant of the list.  It needs what holds of the callers: a limit *)
(* is not 1 (with one slot, cutting off the stalest slot leaves lru->fresh *)
(* on it).                                                                 *)
(***************************************************************************)
Careful == Size # 1

ListInv ==
  /\ TypeInv
  /\ phase \in {"open", "cleaning", "freed"}
  /\ IndexMatchesSlots
  /\ WithinLimit
  /\ ListIsRecency
  /\ NoSlotIsLost

\* What the invariant says while the cache is open, in the form used below.
LEMMA OpenFacts ==
  ASSUME LRUAssumption, ListInv, phase = "open"
  PROVE  /\ list \in Lists /\ older \in SUBSET (Slot \X Slot)
         /\ 1..used \in SUBSET Slot /\ Live \in SUBSET (1..used)
         /\ Spare = (1..used) \ Live
         /\ Ordered(older, 1..used)
         /\ Linked(list, older, Live)
         /\ Chained(list, older, Spare)
         /\ \A k \in Key : index[k] # Null => index[k] \in Live
         /\ \A k \in Key : index[k] # Null => key[index[k]] = k
<1>1. used \in 0..MaxSlots /\ MaxSlots \in Nat
  BY DEF ListInv, TypeInv, TypeOK, LRUAssumption
<1>2. 1..used \in SUBSET Slot  BY <1>1 DEF Slot
<1>3. \A k \in Key : index[k] # Null => index[k] \in Live
  BY DEF ListInv, TypeInv, TypeOK, Pointer, Live
<1>4. list \in Lists /\ older \in SUBSET (Slot \X Slot)
  BY DEF ListInv, TypeInv, TypeOK
<1>5. Live \in SUBSET (1..used) /\ \A k \in Key : index[k] # Null => key[index[k]] = k
  BY DEF ListInv, IndexMatchesSlots
<1> QED  BY <1>2, <1>3, <1>4, <1>5 DEF ListInv, ListIsRecency, NoSlotIsLost, Spare

LEMMA ListInvInit == LRUAssumption /\ TypeInv /\ Init => ListInv
<1> SUFFICES ASSUME LRUAssumption, TypeInv, Init  PROVE ListInv
  OBVIOUS
<1>1. used = 0 /\ 1..used = {}  BY DEF Init
<1>2. Live = {} /\ Spare = {}  BY <1>1 DEF Live, Spare, Init, LRUAssumption
<1>3. list.fresh = Null /\ list.stale = Null /\ list.unused = Null
  BY DEF Init
<1>4. Linked(list, older, {}) /\ Chained(list, older, {}) /\ Ordered(older, {})
  BY <1>3 DEF Linked, Chained, Ordered, IsNewest, IsOldest
<1>5. IndexMatchesSlots  BY <1>2 DEF IndexMatchesSlots, Init
<1>6. WithinLimit  BY <1>1 DEF WithinLimit, LRUAssumption
<1> QED  BY <1>1, <1>2, <1>4, <1>5, <1>6
         DEF ListInv, ListIsRecency, NoSlotIsLost, Init

(***************************************************************************)
(* What an action on the open cache has to show.                           *)
(***************************************************************************)
LEMMA ListInvOpen ==
  ASSUME TypeInv', phase' = "open", WithinLimit',
         Live' \subseteq 1..used',
         \A k \in Key : index'[k] # Null => key'[index'[k]] = k,
         Ordered(older', 1..used'),
         Linked(list', older', Live'),
         Chained(list', older', Spare')
  PROVE  ListInv'
  BY DEF ListInv, IndexMatchesSlots, ListIsRecency, NoSlotIsLost

\* An entry more, and an entry less.
LEMMA LiveAdded ==
  ASSUME index \in [Key -> Pointer], Null \notin Slot, NEW k \in Key, NEW s \in Slot,
         index[k] = Null, index' = [index EXCEPT ![k] = s]
  PROVE  Live' = Live \union {s}
<1>1. \A t \in Slot : (\E j \in Key : index'[j] = t) <=> (t = s \/ \E j \in Key : index[j] = t)
  OBVIOUS
<1> QED  BY <1>1 DEF Live

LEMMA LiveRemoved ==
  ASSUME LRUAssumption, ListInv, phase = "open", NEW k \in Key, index[k] # Null,
         index' = [index EXCEPT ![k] = Null]
  PROVE  Live' = Live \ {index[k]}
<1>1. /\ index \in [Key -> Pointer] /\ Null \notin Slot
      /\ \A j \in Key : j # k /\ index[j] # Null => index[j] # index[k]
  BY OpenFacts DEF ListInv, TypeInv, TypeOK, LRUAssumption
<1>2. \A t \in Slot : (\E j \in Key : index'[j] = t)
                        <=> (t # index[k] /\ \E j \in Key : index[j] = t)
  BY <1>1
<1> QED  BY <1>2 DEF Live

\* The entry that an eviction drops is that of the stale slot, and of no other key.
LEMMA EvictedEntry ==
  ASSUME LRUAssumption, Careful, ListInv, NEW k \in Key, NEW v \in Value,
         phase = "open", StoreEvicting(k, v)
  PROVE  LET s == list.stale
         IN  /\ s \in Live /\ Live = 1..used
             /\ Evict(s, k, v)
             /\ key[s] \in Key /\ key[s] # k /\ index[key[s]] = s
             /\ \A i \in Key : index'[i] = IF i = k THEN s
                                           ELSE IF i = key[s] THEN Null ELSE index[i]
             /\ Live' = Live
<1> DEFINE s == list.stale
           U == 1..used
<1>1. /\ U \in SUBSET Slot /\ Live \in SUBSET U /\ Spare = U \ Live
      /\ Linked(list, older, Live) /\ Chained(list, older, Spare)
      /\ \A j \in Key : index[j] # Null => index[j] \in Live /\ key[index[j]] = j
  BY OpenFacts
<1>2. index[k] = Null /\ list.unused = Null /\ Full  BY DEF StoreEvicting
<1>3. Live = U
  <2>1. U \ Live = {}  BY <1>1, <1>2 DEF Chained, IsNewest
  <2> QED  BY <2>1, <1>1
<1>4. used \in Nat /\ used >= 2
  BY <1>2 DEF Full, Careful, LRUAssumption, ListInv, TypeInv, TypeOK
<1>5. s # Null /\ s \in Live
  <2>1. 1 \in Live  BY <1>3, <1>4
  <2> QED  BY <2>1, <1>1 DEF Linked, IsOldest
<1>6. index' = [index EXCEPT ![key[s]] = Null, ![k] = s] /\ Evict(s, k, v)
  BY <1>5 DEF StoreEvicting
<1>7. index \in [Key -> Pointer] /\ Null \notin Slot
  BY DEF ListInv, TypeInv, TypeOK, LRUAssumption
<1> HIDE DEF s, U
<1>8. PICK j \in Key : index[j] = s  BY <1>5 DEF Live
<1>9. s \in Slot  BY <1>5 DEF Live
<1>10. key[s] = j /\ j # k /\ \A i \in Key : i # j => index[i] # s
  BY <1>1, <1>2, <1>5, <1>8
<1>11. \A i \in Key : index'[i] = IF i = k THEN s
                                  ELSE IF i = j THEN Null ELSE index[i]
  BY <1>6, <1>7, <1>10
<1>12. Live' = Live
  <2>1. ASSUME NEW r \in Slot
        PROVE  (\E i \in Key : index'[i] = r) <=> (\E i \in Key : index[i] = r)
    <3>1. CASE r = s  BY <3>1, <1>8, <1>11
    <3>2. CASE r # s
      <4>1. \A i \in Key : index'[i] = r => index[i] = r
        BY <3>2, <1>7, <1>11
      <4>2. \A i \in Key : index[i] = r => index'[i] = r
        BY <3>2, <1>2, <1>7, <1>8, <1>11
      <4> QED  BY <4>1, <4>2
    <3> QED  BY <3>1, <3>2
  <2> QED  BY <2>1 DEF Live
<1> QED  BY <1>3, <1>5, <1>6, <1>8, <1>10, <1>11, <1>12 DEF s, U

\* An entry that exists becomes the freshest: hemp_cache_lru_reuse_slot.
LEMMA ReuseStep ==
  ASSUME LRUAssumption, ListInv, TypeInv', NEW k \in Key, index[k] # Null,
         phase = "open",
         list' = Reuse(list, index[k]), older' = Touch(older, 1..used, index[k]),
         UNCHANGED <<index, key, used, phase>>
  PROVE  ListInv'
<1> DEFINE s == index[k]
           U == 1..used
<1>1. /\ list \in Lists /\ older \in SUBSET (Slot \X Slot)
      /\ U \in SUBSET Slot /\ Live \in SUBSET U /\ Spare = U \ Live
      /\ Ordered(older, U) /\ Linked(list, older, Live)
      /\ Chained(list, older, U \ Live)
      /\ s \in Live
      /\ \A j \in Key : index[j] # Null => key[index[j]] = j
  BY OpenFacts
<1>2. Live' = Live /\ Spare' = Spare  BY DEF Live, Spare
<1> HIDE DEF s, U
<1>3. list' = Reuse(list, s) /\ older' = Touch(older, U, s)  BY DEF s, U
<1>4. Linked(list', older', Live) /\ Chained(list', older', U \ Live)
  <2>1. /\ Linked(Reuse(list, s), Touch(older, U, s), Live)
        /\ Chained(Reuse(list, s), Touch(older, U, s), U \ Live)
    BY <1>1, ReuseKeeps, Zenon
  <2> QED  BY <2>1, <1>3
<1>5. Ordered(older', U)
  <2>1. U \union {s} = U  BY <1>1
  <2>2. Ordered(older', U \union {s})
    <3>1. s \in Slot  BY <1>1
    <3> QED  BY <3>1, <1>1, <1>3, TouchOrdered
  <2> QED  BY <2>1, <2>2
<1>6. WithinLimit'  BY DEF ListInv, WithinLimit
<1>7. Live' \subseteq 1..used' /\ Ordered(older', 1..used')
  BY <1>1, <1>2, <1>5 DEF U
<1>8. Linked(list', older', Live') /\ Chained(list', older', Spare')
  BY <1>1, <1>2, <1>4
<1>9. \A j \in Key : index'[j] # Null => key'[index'[j]] = j  BY <1>1
<1>10. phase' = "open"  OBVIOUS
<1> QED  BY <1>6, <1>7, <1>8, <1>9, <1>10, ListInvOpen

\* A new entry in a slot from the chain of unused ones.
LEMMA UnusedStep ==
  ASSUME LRUAssumption, ListInv, TypeInv', NEW k \in Key, NEW v \in Value,
         phase = "open", StoreUnused(k, v)
  PROVE  ListInv'
<1> DEFINE s == list.unused
           U == 1..used
           p == PopUnused(list)
<1>1. /\ list \in Lists /\ older \in SUBSET (Slot \X Slot)
      /\ U \in SUBSET Slot /\ Live \in SUBSET U /\ Spare = U \ Live
      /\ Ordered(older, U) /\ Linked(list, older, Live)
      /\ Chained(list, older, U \ Live)
      /\ \A j \in Key : index[j] # Null => index[j] \in Live
      /\ \A j \in Key : index[j] # Null => key[index[j]] = j
  BY OpenFacts
<1>2. /\ s # Null /\ index[k] = Null
      /\ list' = Freshen(p, s)
      /\ index' = [index EXCEPT ![k] = s]
      /\ key' = [key EXCEPT ![s] = k]
      /\ older' = Touch(older, U, s)
      /\ UNCHANGED <<used, phase>>
  BY DEF StoreUnused, Fill
<1>3. /\ p \in Lists /\ s \in U \ Live
      /\ Linked(p, older, Live) /\ Chained(p, older, (U \ Live) \ {s})
  <2> HIDE DEF U
  <2> QED  BY <1>1, <1>2, PopKeeps
<1> HIDE DEF s, U, p
<1>4. /\ Linked(list', older', Live \union {s})
      /\ Chained(list', older', (U \ Live) \ {s})
  <2>1. Ordered(older, Live)  BY <1>1 DEF Ordered
  <2>2. s \in Slot \ (Live \union ((U \ Live) \ {s}))  BY <1>1, <1>3
  <2> QED  BY <2>1, <2>2, <1>1, <1>2, <1>3, FreshenKeeps
<1>5. index \in [Key -> Pointer] /\ key \in [Slot -> Key \union {Null}] /\ Null \notin Slot
  BY DEF ListInv, TypeInv, TypeOK, LRUAssumption
<1>6. Live' = Live \union {s}
  <2>1. s \in Slot  BY <1>1, <1>3
  <2> QED  BY <2>1, <1>2, <1>5, LiveAdded
<1>7. Spare' = (U \ Live) \ {s}  BY <1>2, <1>6 DEF Spare, U
<1>8. Ordered(older', U)
  <2>1. U \union {s} = U /\ s \in Slot  BY <1>1, <1>3
  <2>2. Ordered(older', U \union {s})  BY <2>1, <1>1, <1>2, TouchOrdered
  <2> QED  BY <2>1, <2>2
<1>9. \A j \in Key : index'[j] # Null => key'[index'[j]] = j
  <2> SUFFICES ASSUME NEW j \in Key, index'[j] # Null  PROVE key'[index'[j]] = j
    OBVIOUS
  <2>1. s \in Slot  BY <1>1, <1>3
  <2>2. CASE j = k  BY <2>1, <2>2, <1>2, <1>5
  <2>3. CASE j # k
    <3>1. index'[j] = index[j] /\ index[j] \in Live  BY <2>3, <1>1, <1>2, <1>5
    <3>2. index[j] # s  BY <3>1, <1>3
    <3> QED  BY <3>1, <3>2, <1>1, <1>2, <1>5
  <2> QED  BY <2>2, <2>3
<1>10. WithinLimit'  BY <1>2 DEF ListInv, WithinLimit
<1>11. Live' \subseteq 1..used' /\ Ordered(older', 1..used')
  BY <1>1, <1>2, <1>3, <1>6, <1>8 DEF U
<1>12. Linked(list', older', Live') /\ Chained(list', older', Spare')
  BY <1>4, <1>6, <1>7
<1>13. phase' = "open"  BY <1>2
<1> QED  BY <1>9, <1>10, <1>11, <1>12, <1>13, ListInvOpen

\* A new entry in a new slot.
LEMMA NewStep ==
  ASSUME LRUAssumption, ListInv, TypeInv', NEW k \in Key, NEW v \in Value,
         phase = "open", StoreNew(k, v)
  PROVE  ListInv'
<1> DEFINE s == used + 1
           U == 1..used
<1>1. /\ list \in Lists /\ older \in SUBSET (Slot \X Slot)
      /\ U \in SUBSET Slot /\ Live \in SUBSET U /\ Spare = U \ Live
      /\ Ordered(older, U) /\ Linked(list, older, Live)
      /\ Chained(list, older, U \ Live)
      /\ \A j \in Key : index[j] # Null => index[j] \in Live
      /\ \A j \in Key : index[j] # Null => key[index[j]] = j
  BY OpenFacts
<1>2. /\ index[k] = Null /\ ~Full /\ used < MaxSlots
      /\ used' = s
      /\ list' = Freshen(list, s)
      /\ index' = [index EXCEPT ![k] = s]
      /\ key' = [key EXCEPT ![s] = k]
      /\ older' = Touch(older, U, s)
      /\ UNCHANGED phase
  BY DEF StoreNew, Fill
<1>3. used \in Nat /\ MaxSlots \in Nat /\ Size \in Nat
  BY DEF ListInv, TypeInv, TypeOK, LRUAssumption
<1>4. s \in Slot \ U  BY <1>2, <1>3 DEF Slot
<1>5. 1..used' = U \union {s}  BY <1>2, <1>3
<1>6. WithinLimit'  BY <1>2, <1>3 DEF Full, WithinLimit
<1> HIDE DEF s, U
<1>7. /\ Linked(list', older', Live \union {s})
      /\ Chained(list', older', U \ Live)
  <2>1. Ordered(older, Live)  BY <1>1 DEF Ordered
  <2>2. s \in Slot \ (Live \union (U \ Live))  BY <1>1, <1>4
  <2> QED  BY <2>1, <2>2, <1>1, <1>2, FreshenKeeps
<1>8. index \in [Key -> Pointer] /\ key \in [Slot -> Key \union {Null}] /\ Null \notin Slot
  BY DEF ListInv, TypeInv, TypeOK, LRUAssumption
<1>9. Live' = Live \union {s}
  <2>1. s \in Slot  BY <1>4
  <2> QED  BY <2>1, <1>2, <1>8, LiveAdded
<1>10. Spare' = U \ Live  BY <1>1, <1>4, <1>5, <1>9 DEF Spare
<1>11. Ordered(older', U \union {s})  BY <1>1, <1>2, <1>4, TouchOrdered
<1>12. \A j \in Key : index'[j] # Null => key'[index'[j]] = j
  <2> SUFFICES ASSUME NEW j \in Key, index'[j] # Null  PROVE key'[index'[j]] = j
    OBVIOUS
  <2>1. CASE j = k  BY <2>1, <1>2, <1>4, <1>8
  <2>2. CASE j # k
    <3>1. index'[j] = index[j] /\ index[j] \in Live  BY <2>2, <1>1, <1>2, <1>8
    <3>2. index[j] # s  BY <3>1, <1>1, <1>4
    <3> QED  BY <3>1, <3>2, <1>1, <1>2, <1>8
  <2> QED  BY <2>1, <2>2
<1>13. Live' \subseteq 1..used' /\ Ordered(older', 1..used')
  BY <1>1, <1>5, <1>9, <1>11
<1>14. Linked(list', older', Live') /\ Chained(list', older', Spare')
  BY <1>7, <1>9, <1>10
<1>15. phase' = "open"  BY <1>2
<1> QED  BY <1>6, <1>12, <1>13, <1>14, <1>15, ListInvOpen

(***************************************************************************)
(* A new entry in the slot of the stalest one.  The cache is full and no   *)
(* slot is unused, so that every slot is in use and, the limit not being   *)
(* 1, there is a stale slot and another one besides.                       *)
(***************************************************************************)
LEMMA EvictingStep ==
  ASSUME LRUAssumption, Careful, ListInv, TypeInv', NEW k \in Key, NEW v \in Value,
         phase = "open", StoreEvicting(k, v)
  PROVE  ListInv'
<1> DEFINE s == list.stale
           U == 1..used
           c == CutStale(list)
<1>1. /\ list \in Lists /\ older \in SUBSET (Slot \X Slot)
      /\ U \in SUBSET Slot
      /\ Ordered(older, U) /\ Linked(list, older, Live)
      /\ Chained(list, older, U \ Live)
      /\ \A j \in Key : index[j] # Null => index[j] \in Live
      /\ \A j \in Key : index[j] # Null => key[index[j]] = j
  BY OpenFacts
<1>2. /\ s \in U /\ Live = U /\ Live' = U /\ Evict(s, k, v)
      /\ \A i \in Key : index'[i] = IF i = k THEN s
                                    ELSE IF i = key[s] THEN Null ELSE index[i]
  BY EvictedEntry
<1>3. used \in Nat /\ used >= 2 /\ Size \in Nat
  BY DEF StoreEvicting, Full, Careful, LRUAssumption, ListInv, TypeInv, TypeOK
<1>4. /\ list' = Freshen(c, s)
      /\ key' = [key EXCEPT ![s] = k]
      /\ older' = Touch(older, U, s)
      /\ UNCHANGED <<used, phase>>
  BY <1>2 DEF Evict, Fill
<1>5. PICK t \in U : t # s
  <2>1. 1 \in U /\ 2 \in U  BY <1>3
  <2> QED  BY <2>1
<1>6. c \in Lists /\ Linked(c, older, U \ {s}) /\ Chained(c, older, {})
  <2>1. Linked(list, older, U) /\ Chained(list, older, {})
    <3>1. U \ Live = {}  BY <1>2
    <3> QED  BY <3>1, <1>1, <1>2
  <2> HIDE DEF U
  <2> QED  BY <2>1, <1>1, <1>2, <1>5, CutStaleKeeps
<1> HIDE DEF s, U, c
<1>7. Linked(list', older', U) /\ Chained(list', older', {})
  <2>1. Ordered(older, U \ {s})  BY <1>1 DEF Ordered
  <2>2. s \in Slot \ ((U \ {s}) \union {}) /\ (U \ {s}) \union {s} = U
    BY <1>1, <1>2
  <2>3. /\ Linked(Freshen(c, s), Touch(older, U, s), (U \ {s}) \union {s})
        /\ Chained(Freshen(c, s), Touch(older, U, s), {})
    BY <2>1, <2>2, <1>1, <1>6, FreshenKeeps
  <2> QED  BY <2>2, <2>3, <1>4
<1>8. key \in [Slot -> Key \union {Null}] /\ s \in Slot
  BY <1>1, <1>2 DEF ListInv, TypeInv, TypeOK
<1>9. Spare' = {}  BY <1>2, <1>4 DEF Spare, U
<1>10. Ordered(older', U)
  <2>1. U \union {s} = U  BY <1>2
  <2>2. Ordered(older', U \union {s})  BY <1>1, <1>4, <1>8, TouchOrdered
  <2> QED  BY <2>1, <2>2
<1>11. \A i \in Key : index'[i] # Null => key'[index'[i]] = i
  <2> SUFFICES ASSUME NEW i \in Key, index'[i] # Null  PROVE key'[index'[i]] = i
    OBVIOUS
  <2>1. CASE i = k  BY <2>1, <1>2, <1>4, <1>8
  <2>2. CASE i # k
    <3>1. i # key[s] /\ index'[i] = index[i]  BY <2>2, <1>2
    <3>2. index[i] \in Slot /\ key[index[i]] = i  BY <3>1, <1>1, <1>2
    <3>3. index[i] # s  BY <3>1, <3>2
    <3> QED  BY <3>1, <3>2, <3>3, <1>4, <1>8
  <2> QED  BY <2>1, <2>2
<1>12. WithinLimit'  BY <1>4 DEF ListInv, WithinLimit
<1>13. Live' \subseteq 1..used' /\ Ordered(older', 1..used')
  BY <1>2, <1>4, <1>10 DEF U
<1>14. Linked(list', older', Live') /\ Chained(list', older', Spare')
  BY <1>2, <1>7, <1>9
<1>15. phase' = "open"  BY <1>4
<1> QED  BY <1>11, <1>12, <1>13, <1>14, <1>15, ListInvOpen

\* An entry is deleted.
LEMMA DeleteStep ==
  ASSUME LRUAssumption, ListInv, TypeInv', NEW k \in Key, Delete(k)
  PROVE  ListInv'
<1> DEFINE s == index[k]
           U == 1..used
<1>0. phase = "open"  BY DEF Delete
<1>1. /\ list \in Lists /\ older \in SUBSET (Slot \X Slot)
      /\ U \in SUBSET Slot /\ Live \in SUBSET U /\ Spare = U \ Live
      /\ Ordered(older, U) /\ Linked(list, older, Live)
      /\ Chained(list, older, U \ Live)
      /\ \A j \in Key : index[j] # Null => index[j] \in Live
      /\ \A j \in Key : index[j] # Null => key[index[j]] = j
  BY <1>0, OpenFacts
<1>2. /\ s # Null
      /\ index' = [index EXCEPT ![k] = Null]
      /\ list' = Discard(list, s)
      /\ older' = Touch(older, U, s)
      /\ UNCHANGED <<key, used, phase>>
  BY DEF Delete
<1>3. s \in Live  BY <1>1, <1>2
<1> HIDE DEF s, U
<1>4. /\ Linked(list', older', Live \ {s})
      /\ Chained(list', older', (U \ Live) \union {s})
  <2>1. /\ Linked(Discard(list, s), Touch(older, U, s), Live \ {s})
        /\ Chained(Discard(list, s), Touch(older, U, s), (U \ Live) \union {s})
    BY <1>1, <1>3, DiscardKeeps, Zenon
  <2> QED  BY <2>1, <1>2
<1>5. index \in [Key -> Pointer] /\ Null \notin Slot
  BY DEF ListInv, TypeInv, TypeOK, LRUAssumption
<1>7. Live' = Live \ {s}
  BY <1>0, <1>2, LiveRemoved DEF s
<1>8. Spare' = (U \ Live) \union {s}  BY <1>1, <1>2, <1>3, <1>7 DEF Spare, U
<1>9. Ordered(older', U)
  <2>1. U \union {s} = U /\ s \in Slot  BY <1>1, <1>3
  <2>2. Ordered(older', U \union {s})  BY <2>1, <1>1, <1>2, TouchOrdered
  <2> QED  BY <2>1, <2>2
<1>10. \A j \in Key : index'[j] # Null => key'[index'[j]] = j
  BY <1>1, <1>2, <1>5
<1>11. WithinLimit'  BY <1>2 DEF ListInv, WithinLimit
<1>12. Live' \subseteq 1..used' /\ Ordered(older', 1..used')
  BY <1>1, <1>2, <1>7, <1>9 DEF U
<1>13. Linked(list', older', Live') /\ Chained(list', older', Spare')
  BY <1>4, <1>7, <1>8
<1>14. phase' = "open"  BY <1>0, <1>2
<1> QED  BY <1>10, <1>11, <1>12, <1>13, <1>14, ListInvOpen

\* The loop of hemp_cache_lru_empty never comes back to an open cache.
LEMMA WalkingStep ==
  ASSUME LRUAssumption, ListInv, TypeInv', Clean \/ WalkStep
  PROVE  ListInv'
<1>1. phase' \in {"cleaning", "freed"}
  BY DEF Clean, WalkStep, ListInv
<1>2. UNCHANGED <<index, key, used>>  BY DEF Clean, WalkStep
<1>3. Live' = Live  BY <1>2 DEF Live
<1>4. IndexMatchesSlots' /\ WithinLimit'
  BY <1>2, <1>3 DEF ListInv, IndexMatchesSlots, WithinLimit
<1> QED  BY <1>1, <1>4 DEF ListInv, ListIsRecency, NoSlotIsLost

LEMMA ListInvNext ==
  LRUAssumption /\ Careful /\ TypeInv' /\ ListInv /\ [Next]_vars => ListInv'
<1> SUFFICES ASSUME LRUAssumption, Careful, TypeInv', ListInv, [Next]_vars
             PROVE  ListInv'
  OBVIOUS
<1>1. ASSUME NEW k \in Key, Fetch(k)  PROVE ListInv'
  <2>1. CASE index[k] = Null
    <3>1. UNCHANGED <<list, index, key, used, phase, older>>
      BY <1>1, <2>1 DEF Fetch
    <3>2. Live' = Live /\ Spare' = Spare  BY <3>1 DEF Live, Spare
    <3> QED  BY <3>1, <3>2 DEF ListInv, IndexMatchesSlots, WithinLimit,
                               ListIsRecency, NoSlotIsLost
  <2>2. CASE index[k] # Null
    <3>1. /\ phase = "open"
          /\ list' = Reuse(list, index[k]) /\ older' = Touch(older, 1..used, index[k])
          /\ UNCHANGED <<index, key, used, phase>>
      BY <1>1, <2>2 DEF Fetch
    <3> QED  BY <2>2, <3>1, ReuseStep
  <2> QED  BY <2>1, <2>2
<1>2. ASSUME NEW k \in Key, Delete(k)  PROVE ListInv'
  BY <1>2, DeleteStep
<1>3. ASSUME NEW k \in Key, NEW v \in Value, Store(k, v)  PROVE ListInv'
  <2>0. phase = "open"  BY <1>3 DEF Store
  <2>1. CASE StoreAgain(k)
    <3>1. /\ index[k] # Null
          /\ list' = Reuse(list, index[k]) /\ older' = Touch(older, 1..used, index[k])
          /\ UNCHANGED <<index, key, used, phase>>
      BY <2>1 DEF StoreAgain
    <3> QED  BY <2>0, <3>1, ReuseStep
  <2>2. CASE StoreUnused(k, v)  BY <2>0, <2>2, UnusedStep
  <2>3. CASE StoreEvicting(k, v)  BY <2>0, <2>3, EvictingStep
  <2>4. CASE StoreNew(k, v)  BY <2>0, <2>4, NewStep
  <2> QED  BY <1>3, <2>1, <2>2, <2>3, <2>4 DEF Store
<1>4. CASE Clean \/ WalkStep  BY <1>4, WalkingStep
<1>5. CASE UNCHANGED vars
  <2>1. UNCHANGED <<list, index, key, used, phase, older>>  BY <1>5 DEF vars
  <2>2. Live' = Live /\ Spare' = Spare  BY <2>1 DEF Live, Spare
  <2> QED  BY <2>1, <2>2 DEF ListInv, IndexMatchesSlots, WithinLimit,
                             ListIsRecency, NoSlotIsLost
<1> QED  BY <1>1, <1>2, <1>3, <1>4, <1>5 DEF Next

LEMMA ListInvariant == Careful => (Spec => []ListInv)
<1>1. LRUAssumption /\ Init => TypeInv  BY TypeInvInit
<1>2. LRUAssumption /\ TypeInv /\ [Next]_vars => TypeInv'  BY TypeInvNext
<1>3. LRUAssumption /\ TypeInv /\ Init => ListInv  BY ListInvInit
<1>4. LRUAssumption /\ Careful /\ TypeInv' /\ ListInv /\ [Next]_vars => ListInv'
  BY ListInvNext
<1>5. TypeInv /\ [Next]_vars => TypeInv'  BY <1>2, LRUAssumption
<1>6. ASSUME Careful  PROVE Spec => []ListInv
  <2>1. Init => TypeInv /\ ListInv  BY <1>1, <1>3, LRUAssumption
  <2>2. TypeInv /\ ListInv /\ [Next]_vars => (TypeInv /\ ListInv)'
    BY <1>4, <1>5, <1>6, LRUAssumption
  <2> QED  BY <2>1, <2>2, PTL DEF Spec
<1> QED  BY <1>6

(***************************************************************************)
(* The list of the cache is in the order of use, its stale end the entry   *)
(* whose last use is the longest ago.                                      *)
(***************************************************************************)
THEOREM RecencyOrder == Careful => (Spec => []ListIsRecency)
<1>1. ListInv => ListIsRecency  BY DEF ListInv
<1> QED  BY <1>1, ListInvariant, PTL

(***************************************************************************)
(* Every slot is an entry's or on the chain of unused slots, never both.   *)
(***************************************************************************)
THEOREM SlotsAccounted == Careful => (Spec => []NoSlotIsLost)
<1>1. ListInv => NoSlotIsLost  BY DEF ListInv
<1> QED  BY <1>1, ListInvariant, PTL

(***************************************************************************)
(* No two keys share a slot, and a slot knows the key that refers to it.   *)
(***************************************************************************)
THEOREM IndexSound == Careful => (Spec => []IndexMatchesSlots)
<1>1. ListInv => IndexMatchesSlots  BY DEF ListInv
<1> QED  BY <1>1, ListInvariant, PTL

(***************************************************************************)
(* A full cache always has a stale slot to use again.                      *)
(***************************************************************************)
THEOREM StaleSlotExists == Careful => (Spec => []NeverFatal)
<1>1. ListInv => NeverFatal  BY DEF ListInv, NeverFatal
<1> QED  BY <1>1, ListInvariant, PTL

-----------------------------------------------------------------------------
(***************************************************************************)
(* While the cache is cleaned the walk is at an entry, and the list is as  *)
(* it was when the cleaning began.                                         *)
(***************************************************************************)
WalkInv == phase = "cleaning" => Linked(list, older, Live) /\ cursor \in Live

LEMMA WalkInvNext ==
  ASSUME LRUAssumption, ListInv, WalkInv, [Next]_vars
  PROVE  WalkInv'
<1>1. CASE Clean
  <2>1. UNCHANGED <<list, older, index>> /\ cursor' = list.fresh /\ phase = "open"
        /\ (phase' = "cleaning" => list.fresh # Null)
    BY <1>1 DEF Clean
  <2>2. Live' = Live  BY <2>1 DEF Live
  <2>3. Linked(list, older, Live)  BY <2>1 DEF ListInv, ListIsRecency
  <2>4. list.fresh # Null => list.fresh \in Live  BY <2>3 DEF Linked, IsNewest
  <2> QED  BY <2>1, <2>2, <2>3, <2>4 DEF WalkInv
<1>2. CASE WalkStep
  <2>1. SUFFICES ASSUME phase' = "cleaning"
                 PROVE  Linked(list', older', Live') /\ cursor' \in Live'
    BY DEF WalkInv
  <2>2. /\ phase = "cleaning"
        /\ UNCHANGED <<list, older, index>>
        /\ list.staler[cursor] # Null /\ cursor' = list.staler[cursor]
    BY <1>2, <2>1 DEF WalkStep
  <2>3. Live' = Live  BY <2>2 DEF Live
  <2>4. Linked(list, older, Live) /\ cursor \in Live  BY <2>2 DEF WalkInv
  <2>5. cursor' \in Live  BY <2>2, <2>4 DEF Linked, IsBefore
  <2> QED  BY <2>2, <2>3, <2>4, <2>5
<1>3. CASE UNCHANGED vars
  <2>1. UNCHANGED <<list, older, index, cursor, phase>>  BY <1>3 DEF vars
  <2>2. Live' = Live  BY <2>1 DEF Live
  <2> QED  BY <2>1, <2>2 DEF WalkInv
<1>4. ASSUME NEW k \in Key, NEW v \in Value, Fetch(k) \/ Delete(k) \/ Store(k, v)
      PROVE  WalkInv'
  <2>1. phase' # "cleaning"
    BY <1>4 DEF Fetch, Delete, Store, StoreAgain, StoreUnused, StoreEvicting, Evict, StoreNew
  <2> QED  BY <2>1 DEF WalkInv
<1>5. ASSUME NEW k \in Key, Fetch(k) \/ Delete(k)  PROVE WalkInv'
  <2>1. phase' # "cleaning"  BY <1>5 DEF Fetch, Delete
  <2> QED  BY <2>1 DEF WalkInv
<1> QED  BY <1>1, <1>2, <1>3, <1>4, <1>5 DEF Next

LEMMA WalkAdvances ==
  ASSUME WalkInv, [Next]_vars
  PROVE  phase = "cleaning" /\ phase' = "cleaning" /\ ~ UNCHANGED vars
           => <<cursor', cursor>> \in older
<1> SUFFICES ASSUME phase = "cleaning", phase' = "cleaning", ~ UNCHANGED vars
             PROVE  <<cursor', cursor>> \in older
  OBVIOUS
<1>1. WalkStep
  BY DEF Next, Fetch, Delete, Store, Clean
<1>2. list.staler[cursor] # Null /\ cursor' = list.staler[cursor]
  BY <1>1 DEF WalkStep
<1> QED  BY <1>2 DEF WalkInv, Linked, IsBefore

(***************************************************************************)
(* The walk that frees a cache goes from every entry to one that was used  *)
(* before it, so that it ends.                                             *)
(***************************************************************************)
THEOREM CleaningGoesOn == Careful => (Spec => CleaningAdvances)
<1>1. Init => WalkInv  BY DEF Init, WalkInv
<1>2. ListInv /\ WalkInv /\ [Next]_vars => WalkInv'  BY WalkInvNext, LRUAssumption
<1>3. WalkInv /\ [Next]_vars
        => [phase = "cleaning" /\ phase' = "cleaning" => <<cursor', cursor>> \in older]_vars
  BY WalkAdvances
<1> QED  BY <1>1, <1>2, <1>3, ListInvariant, PTL DEF Spec, CleaningAdvances

-----------------------------------------------------------------------------
(***************************************************************************)
(* The values.  What the entries refer to is what is held, and no two of   *)
(* them share one; the walk that frees the cache has the entries from the  *)
(* cursor on still to free.                                                *)
(***************************************************************************)
Ahead == {s \in Live : s = cursor \/ <<s, cursor>> \in older}

HeldBy(S) == /\ held = {value[s] : s \in S}
             /\ \A s, t \in S : value[s] = value[t] => s = t

ValueInv ==
  /\ ~misfreed
  /\ phase = "open" => HeldBy(Live)
  /\ phase = "cleaning" => Ordered(older, Live) /\ HeldBy(Ahead)
  /\ phase = "freed" => held = {}

\* An entry in a slot that had none gets a value that the cache does not hold.
LEMMA HeldMore ==
  ASSUME NEW s \in Slot, NEW v \in Value, value \in [Slot -> Value \union {Missing}],
         HeldBy(Live), Live \subseteq Slot, s \notin Live, v \notin held,
         Live' = Live \union {s}, value' = [value EXCEPT ![s] = v], held' = held \union {v}
  PROVE  HeldBy(Live)'
<1>1. value'[s] = v /\ \A t \in Live : value'[t] = value[t]
  OBVIOUS
<1>2. \A t \in Live : value[t] \in held
  BY DEF HeldBy
<1>3. held' = {value'[t] : t \in Live'}
  <2>1. {value[t] : t \in Live} = {value'[t] : t \in Live}  BY <1>1
  <2>2. {value'[t] : t \in Live'} = {value'[t] : t \in Live} \union {v}  BY <1>1
  <2> QED  BY <2>1, <2>2 DEF HeldBy
<1>4. \A t, r \in Live' : value'[t] = value'[r] => t = r
  BY <1>1, <1>2 DEF HeldBy
<1> QED  BY <1>3, <1>4 DEF HeldBy

\* The value of one of the slots S is freed, and S is left with the others.
LEMMA HeldLess ==
  ASSUME NEW S \in SUBSET Slot, NEW s \in S, HeldBy(S)
  PROVE  /\ value[s] \in held
         /\ held \ {value[s]} = {value[t] : t \in S \ {s}}
         /\ \A t, r \in S \ {s} : value[t] = value[r] => t = r
  BY DEF HeldBy

LEMMA ValueInvStore ==
  ASSUME LRUAssumption, Careful, ListInv, ValueInv, NEW k \in Key, NEW v \in Value, Store(k, v)
  PROVE  ValueInv'
<1>1. phase = "open" /\ v \notin held  BY DEF Store
<1>2. /\ index \in [Key -> Pointer] /\ value \in [Slot -> Value \union {Missing}]
      /\ Null \notin Slot /\ Missing \notin Value /\ held \subseteq Value
      /\ used \in 0..MaxSlots /\ MaxSlots \in Nat
  BY DEF ListInv, TypeInv, TypeOK, LRUAssumption
<1>3. Live \subseteq 1..used /\ 1..used \subseteq Slot /\ Chained(list, older, (1..used) \ Live)
  BY <1>1, OpenFacts
<1>4. ~misfreed /\ HeldBy(Live)  BY <1>1 DEF ValueInv
<1>5. SUFFICES ~misfreed' /\ phase' = "open" /\ HeldBy(Live)'
  BY DEF ValueInv
<1>6. CASE StoreAgain(k)
  <2>1. UNCHANGED <<index, value, held, misfreed, phase>>  BY <1>6 DEF StoreAgain
  <2>2. Live' = Live  BY <2>1 DEF Live
  <2> QED  BY <1>1, <1>4, <2>1, <2>2 DEF HeldBy
<1>7. CASE StoreUnused(k, v)
  <2> DEFINE s == list.unused
  <2>1. /\ s # Null /\ index[k] = Null /\ index' = [index EXCEPT ![k] = s]
        /\ value' = [value EXCEPT ![s] = v] /\ held' = held \union {v}
        /\ UNCHANGED <<misfreed, phase>>
    BY <1>7 DEF StoreUnused, Fill
  <2>2. s \in Slot /\ s \notin Live
    BY <1>3, <2>1 DEF Chained, IsNewest
  <2> HIDE DEF s
  <2>3. Live' = Live \union {s}  BY <1>2, <2>1, <2>2, LiveAdded
  <2>4. HeldBy(Live)'
    BY <1>1, <1>2, <1>3, <1>4, <2>1, <2>2, <2>3, HeldMore
  <2> QED  BY <1>1, <1>4, <2>1, <2>4
<1>8. CASE StoreEvicting(k, v)
  <2> DEFINE s == list.stale
  <2>1. s \in Live /\ Live' = Live /\ Evict(s, k, v)
    BY <1>1, <1>8, EvictedEntry
  <2>2. /\ value' = [value EXCEPT ![s] = v] /\ held' = (held \ {value[s]}) \union {v}
        /\ misfreed' = (misfreed \/ (value[s] # Missing /\ value[s] \notin held))
        /\ UNCHANGED phase
    BY <2>1 DEF Evict, Fill
  <2> HIDE DEF s
  <2>3. s \in Slot /\ Live \in SUBSET Slot  BY <2>1, <1>3
  <2>4. /\ value[s] \in held
        /\ held \ {value[s]} = {value[t] : t \in Live \ {s}}
        /\ \A t, r \in Live \ {s} : value[t] = value[r] => t = r
    BY <1>4, <2>1, <2>3, HeldLess
  <2>5. ~misfreed'  BY <1>4, <2>2, <2>4
  <2>6. value'[s] = v /\ \A t \in Live \ {s} : value'[t] = value[t] /\ value[t] \in held
    BY <1>2, <1>4, <2>2, <2>3 DEF HeldBy
  <2>7. held' = {value'[t] : t \in Live'}
    <3>1. {value[t] : t \in Live \ {s}} = {value'[t] : t \in Live \ {s}}  BY <2>6
    <3>2. {value'[t] : t \in Live} = {value'[t] : t \in Live \ {s}} \union {v}  BY <2>1, <2>6
    <3> QED  BY <2>1, <2>2, <2>4, <3>1, <3>2
  <2>8. \A t, r \in Live' : value'[t] = value'[r] => t = r
    BY <1>1, <2>1, <2>4, <2>6
  <2> QED  BY <1>1, <2>2, <2>5, <2>7, <2>8 DEF HeldBy
<1>9. CASE StoreNew(k, v)
  <2> DEFINE s == used + 1
  <2>1. /\ used < MaxSlots /\ index[k] = Null /\ index' = [index EXCEPT ![k] = s]
        /\ value' = [value EXCEPT ![s] = v] /\ held' = held \union {v}
        /\ UNCHANGED <<misfreed, phase>>
    BY <1>9 DEF StoreNew, Fill
  <2>2. s \in Slot /\ s \notin Live
    BY <1>2, <1>3, <2>1 DEF Slot
  <2> HIDE DEF s
  <2>3. Live' = Live \union {s}  BY <1>2, <2>1, <2>2, LiveAdded
  <2>4. HeldBy(Live)'
    BY <1>1, <1>2, <1>3, <1>4, <2>1, <2>2, <2>3, HeldMore
  <2> QED  BY <1>1, <1>4, <2>1, <2>4
<1> QED  BY <1>6, <1>7, <1>8, <1>9 DEF Store

LEMMA ValueInvDelete ==
  ASSUME LRUAssumption, ListInv, ValueInv, NEW k \in Key, Delete(k)
  PROVE  ValueInv'
<1> DEFINE s == index[k]
<1>1. /\ phase = "open" /\ s # Null /\ index' = [index EXCEPT ![k] = Null]
      /\ held' = held \ {value[s]}
      /\ misfreed' = (misfreed \/ (value[s] # Missing /\ value[s] \notin held))
      /\ UNCHANGED <<value, phase>>
  BY DEF Delete, FreeValue
<1>2. s \in Live /\ Live \in SUBSET Slot /\ Live' = Live \ {s}
  BY <1>1, OpenFacts, LiveRemoved
<1> HIDE DEF s
<1>3. ~misfreed /\ HeldBy(Live)  BY <1>1 DEF ValueInv
<1>4. /\ value[s] \in held
      /\ held \ {value[s]} = {value[t] : t \in Live \ {s}}
      /\ \A t, r \in Live \ {s} : value[t] = value[r] => t = r
  BY <1>2, <1>3, HeldLess
<1>5. HeldBy(Live)'  BY <1>1, <1>2, <1>4 DEF HeldBy
<1> QED  BY <1>1, <1>3, <1>4, <1>5 DEF ValueInv

\* The walk begins with all entries ahead, and each step leaves one behind.
LEMMA ValueInvClean ==
  ASSUME LRUAssumption, ListInv, ValueInv, Clean
  PROVE  ValueInv'
<1>1. /\ phase = "open" /\ cursor' = list.fresh
      /\ phase' = IF list.fresh = Null THEN "freed" ELSE "cleaning"
      /\ UNCHANGED <<index, value, held, misfreed, older>>
  BY DEF Clean
<1>2. ~misfreed /\ HeldBy(Live)  BY <1>1 DEF ValueInv
<1>3. Ordered(older, 1..used) /\ Live \subseteq 1..used /\ IsNewest(list.fresh, older, Live)
  BY <1>1, OpenFacts DEF Linked
<1>4. Live' = Live  BY <1>1 DEF Live
<1>5. CASE list.fresh = Null
  <2>1. held = {}  BY <1>2, <1>3, <1>5 DEF IsNewest, HeldBy
  <2> QED  BY <1>1, <1>2, <1>5, <2>1 DEF ValueInv
<1>6. CASE list.fresh # Null
  <2>1. Ahead' = Live  BY <1>1, <1>3, <1>4, <1>6 DEF Ahead, IsNewest
  <2>2. Ordered(older, Live)  BY <1>3 DEF Ordered
  <2>3. HeldBy(Ahead)'  BY <1>1, <1>2, <2>1 DEF HeldBy
  <2> QED  BY <1>1, <1>2, <1>4, <1>6, <2>2, <2>3 DEF ValueInv
<1> QED  BY <1>5, <1>6

LEMMA ValueInvWalk ==
  ASSUME LRUAssumption, ListInv, WalkInv, ValueInv, WalkStep
  PROVE  ValueInv'
<1>1. /\ phase = "cleaning"
      /\ held' = held \ {value[cursor]}
      /\ misfreed' = (misfreed \/ (value[cursor] # Missing /\ value[cursor] \notin held))
      /\ value' = [value EXCEPT ![cursor] = Missing]
      /\ UNCHANGED <<index, older>>
  BY DEF WalkStep, FreeValue
<1>2. /\ ~misfreed /\ Ordered(older, Live) /\ HeldBy(Ahead)
      /\ cursor \in Live /\ IsBefore(list.staler[cursor], cursor, older, Live)
  BY <1>1 DEF ValueInv, WalkInv, Linked
<1>3. Live' = Live /\ Live \in SUBSET Slot  BY <1>1 DEF Live
<1>4. cursor \in Ahead /\ Ahead \in SUBSET Slot  BY <1>2, <1>3 DEF Ahead
<1>5. /\ value[cursor] \in held
      /\ held \ {value[cursor]} = {value[t] : t \in Ahead \ {cursor}}
      /\ \A t, r \in Ahead \ {cursor} : value[t] = value[r] => t = r
  BY <1>2, <1>4, HeldLess
<1>6. ~misfreed'  BY <1>1, <1>2, <1>5
<1>7. CASE list.staler[cursor] # Null
  <2>1. cursor' = list.staler[cursor] /\ UNCHANGED phase  BY <1>7 DEF WalkStep
  <2>2. Ahead' = Ahead \ {cursor}
    <3>1. /\ cursor' \in Live /\ <<cursor', cursor>> \in older
          /\ \A r \in Live : <<r, cursor>> \in older => r = cursor' \/ <<r, cursor'>> \in older
      BY <1>2, <1>7, <2>1 DEF IsBefore
    <3>2. \A r \in Live : (r = cursor' \/ <<r, cursor'>> \in older)
                            <=> r # cursor /\ <<r, cursor>> \in older
      BY <1>2, <3>1 DEF Ordered
    <3>3. <<cursor, cursor>> \notin older  BY <1>2 DEF Ordered
    <3>4. Ahead' = {r \in Live : r = cursor' \/ <<r, cursor'>> \in older}
      BY <1>1, <1>3 DEF Ahead
    <3> QED  BY <3>2, <3>3, <3>4 DEF Ahead
  <2>3. \A t \in Ahead \ {cursor} : value'[t] = value[t]
    BY <1>1, <1>4 DEF ListInv, TypeInv, TypeOK
  <2>4. held' = {value'[t] : t \in Ahead \ {cursor}}  BY <1>1, <1>5, <2>3
  <2>5. HeldBy(Ahead)'  BY <1>5, <2>2, <2>3, <2>4 DEF HeldBy
  <2> QED  BY <1>1, <1>2, <1>3, <1>6, <2>1, <2>5 DEF ValueInv
<1>8. CASE list.staler[cursor] = Null
  <2>1. phase' = "freed"  BY <1>8 DEF WalkStep
  <2>2. Ahead = {cursor}  BY <1>2, <1>8 DEF Ahead, IsBefore
  <2>3. held' = {}  BY <1>1, <1>5, <2>2
  <2> QED  BY <1>6, <2>1, <2>3 DEF ValueInv
<1> QED  BY <1>7, <1>8

LEMMA ValueInvNext ==
  ASSUME LRUAssumption, Careful, ListInv, WalkInv, ValueInv, [Next]_vars
  PROVE  ValueInv'
<1>1. ASSUME UNCHANGED <<index, value, phase, cursor, held, misfreed>>,
             phase # "open" => UNCHANGED older
      PROVE  ValueInv'
  <2>1. Live' = Live  BY <1>1 DEF Live
  <2>2. CASE phase = "open"
    BY <1>1, <2>1, <2>2 DEF ValueInv, HeldBy
  <2>3. CASE phase # "open"
    <3>1. Ahead' = Ahead  BY <1>1, <2>1, <2>3 DEF Ahead
    <3>2. HeldBy(Ahead) => HeldBy(Ahead)'  BY <1>1, <3>1 DEF HeldBy
    <3>3. Ordered(older, Live) => Ordered(older, Live)'  BY <1>1, <2>1, <2>3
    <3> QED  BY <1>1, <2>3, <3>2, <3>3 DEF ValueInv
  <2> QED  BY <2>2, <2>3
<1>2. ASSUME NEW k \in Key, Fetch(k)  PROVE ValueInv'
  BY <1>1, <1>2 DEF Fetch
<1>3. ASSUME NEW k \in Key, Delete(k)  PROVE ValueInv'
  BY <1>3, ValueInvDelete
<1>4. ASSUME NEW k \in Key, NEW v \in Value, Store(k, v)  PROVE ValueInv'
  BY <1>4, ValueInvStore
<1>5. CASE Clean  BY <1>5, ValueInvClean
<1>6. CASE WalkStep  BY <1>6, ValueInvWalk
<1>7. CASE UNCHANGED vars  BY <1>1, <1>7 DEF vars
<1> QED  BY <1>2, <1>3, <1>4, <1>5, <1>6, <1>7 DEF Next

\* What the proofs below carry.
CacheInv == ListInv /\ WalkInv /\ ValueInv

LEMMA CacheInvariant == Careful => (Spec => []CacheInv)
<1>1. Init => WalkInv /\ ValueInv
  <2> SUFFICES ASSUME Init  PROVE WalkInv /\ ValueInv
    OBVIOUS
  <2>1. Live = {}
    BY LRUAssumption DEF Init, Live
  <2> QED  BY <2>1 DEF Init, WalkInv, ValueInv, HeldBy
<1>2. ASSUME Careful
      PROVE  ListInv /\ WalkInv /\ ValueInv /\ [Next]_vars => (WalkInv /\ ValueInv)'
  BY <1>2, WalkInvNext, ValueInvNext, LRUAssumption
<1>3. ASSUME Careful  PROVE Spec => []CacheInv
  <2>1. ListInv /\ WalkInv /\ ValueInv => CacheInv  BY DEF CacheInv
  <2>2. Spec => []ListInv  BY <1>3, ListInvariant
  <2>3. ListInv /\ (WalkInv /\ ValueInv) /\ [Next]_vars => (WalkInv /\ ValueInv)'
    BY <1>2, <1>3
  <2> QED  BY <1>1, <2>1, <2>2, <2>3, PTL DEF Spec
<1> QED  BY <1>3

(***************************************************************************)
(* A value is freed when its entry goes, by the cache and once: no fetch   *)
(* returns a value that was freed, and a freed cache leaves none behind.   *)
(***************************************************************************)
THEOREM FreedExactlyWithEntry == Careful => (Spec => []ValuesFreedOnce)
<1>1. CacheInv => ValuesFreedOnce
  BY DEF CacheInv, ValueInv, HeldBy, ValuesFreedOnce
<1> QED  BY <1>1, CacheInvariant, PTL

-----------------------------------------------------------------------------
(***************************************************************************)
(* The cache as its callers see it.  The keys it holds are those of the    *)
(* index, each with a slot of its own and a value that is not Missing, and *)
(* they were used in the order in which their slots were touched.          *)
(***************************************************************************)
Entries == {k \in Key : index[k] # Null}

LEMMA OpenView ==
  ASSUME LRUAssumption, CacheInv, phase = "open"
  PROVE  /\ Contents = [k \in Key |-> IF index[k] # Null THEN value[index[k]] ELSE Missing]
         /\ \A k \in Entries : value[index[k]] \in Value
         /\ Abstract!Cached = Entries
         /\ Recency = {p \in Entries \X Entries : <<index[p[1]], index[p[2]]>> \in older}
<1>1. \A k \in Key : index[k] # Null => index[k] \in Live
  BY OpenFacts DEF CacheInv
<1>2. held = {value[s] : s \in Live} /\ held \subseteq Value
  BY DEF CacheInv, ValueInv, HeldBy, ListInv, TypeInv, TypeOK
<1>3. \A k \in Entries : value[index[k]] \in Value
  BY <1>1, <1>2 DEF Entries
<1>4. Contents = [k \in Key |-> IF index[k] # Null THEN value[index[k]] ELSE Missing]
  BY DEF Contents
<1>5. Abstract!Cached = Entries
  BY <1>3, <1>4 DEF Abstract!Cached, Entries, LRUAssumption
<1>6. Recency = {p \in Entries \X Entries : <<index[p[1]], index[p[2]]>> \in older}
  BY DEF Recency, Entries
<1> QED  BY <1>3, <1>4, <1>5, <1>6

\* As many keys are held as slots are in use.
LEMMA EntriesCounted ==
  ASSUME LRUAssumption, CacheInv, phase = "open"
  PROVE  /\ IsFiniteSet(Live)
         /\ Cardinality(Entries) = Cardinality(Live)
<1>1. /\ Live \in SUBSET (1..used) /\ used \in Int /\ Null \notin Slot
      /\ \A k \in Key : index[k] # Null => index[k] \in Live /\ key[index[k]] = k
  BY OpenFacts DEF CacheInv, ListInv, TypeInv, TypeOK, LRUAssumption
<1>2. IsFiniteSet(Live)
  <2> DEFINE U == 1..used
  <2>1. IsFiniteSet(U)  BY <1>1, FS_Interval
  <2>2. Live \in SUBSET U  BY <1>1
  <2> HIDE DEF U
  <2> QED  BY <2>1, <2>2, FS_Subset
<1> DEFINE F == [s \in Live |-> key[s]]
<1>3. \A s \in Live : key[s] \in Entries /\ index[key[s]] = s
  BY <1>1 DEF Live, Entries
<1>4. F \in [Live -> Entries] /\ \A r, s \in Live : F[r] = F[s] => r = s
  BY <1>3
<1>5. \A k \in Entries : \E s \in Live : F[s] = k
  BY <1>1 DEF Entries
<1> HIDE DEF F
<1>6. F \in Bijection(Live, Entries)
  BY <1>4, <1>5, Fun_IsBij
<1>7. ExistsBijection(Live, Entries)
  BY <1>6, Fun_ExistsBij
<1> QED  BY <1>2, <1>7, FS_Bijection

\* Key k, whose slot s is touched, becomes the last used of the keys left.
LEMMA RecencyTouched ==
  ASSUME LRUAssumption, CacheInv, phase = "open", phase' = "open",
         NEW k \in Key, NEW s \in Slot, index'[k] = s,
         \A i \in Key : i # k /\ index'[i] # Null => index'[i] = index[i] /\ index'[i] # s,
         older' = Touch(older, 1..used, s)
  PROVE  Recency' = {p \in Recency : /\ p[1] \in Entries' /\ p[2] \in Entries'
                                     /\ p[1] # k /\ p[2] # k}
                      \union {<<i, k>> : i \in Entries' \ {k}}
<1> DEFINE P == {p \in Recency : p[1] \in Entries' /\ p[2] \in Entries' /\ p[1] # k /\ p[2] # k}
           Q == {<<i, k>> : i \in Entries' \ {k}}
<1>1. /\ older \in SUBSET (Slot \X Slot) /\ 1..used \in SUBSET Slot
      /\ \A i \in Key : index[i] # Null => index[i] \in 1..used
      /\ Null \notin Slot
  BY OpenFacts DEF CacheInv, LRUAssumption
<1>2. /\ \A p, q \in Slot : p # s /\ q # s => (<<p, q>> \in older' <=> <<p, q>> \in older)
      /\ \A q \in Slot : <<q, s>> \in older' <=> q \in 1..used /\ q # s
      /\ \A q \in Slot : <<s, q>> \notin older'
  <2> DEFINE U == 1..used
  <2>1. U \in SUBSET Slot /\ older' = Touch(older, U, s)  BY <1>1
  <2> HIDE DEF U
  <2>2. /\ \A p, q \in Slot : p # s /\ q # s => (<<p, q>> \in older' <=> <<p, q>> \in older)
        /\ \A q \in Slot : <<q, s>> \in older' <=> q \in U /\ q # s
        /\ \A q \in Slot : <<s, q>> \notin older'
    BY <1>1, <2>1, TouchPairs
  <2> QED  BY <2>2 DEF U
<1>3. Recency' = {p \in Key \X Key : /\ index'[p[1]] # Null /\ index'[p[2]] # Null
                                     /\ <<index'[p[1]], index'[p[2]]>> \in older'}
  BY DEF Recency
<1>4. Recency = {p \in Key \X Key : /\ index[p[1]] # Null /\ index[p[2]] # Null
                                    /\ <<index[p[1]], index[p[2]]>> \in older}
  BY DEF Recency
<1>5. k \in Entries' /\ Entries' \subseteq Key
  BY <1>1 DEF Entries
<1>6. ASSUME NEW i \in Key, NEW j \in Key
      PROVE  <<i, j>> \in Recency' <=> <<i, j>> \in P \/ <<i, j>> \in Q
  <2>1. CASE i \notin Entries' \/ j \notin Entries'
    BY <2>1, <1>3, <1>5 DEF Entries
  <2>2. CASE i \in Entries' /\ j \in Entries' /\ i # k /\ j # k
    <3>1. /\ index'[i] = index[i] /\ index[i] \in Slot /\ index[i] # s /\ index[i] # Null
          /\ index'[j] = index[j] /\ index[j] \in Slot /\ index[j] # s /\ index[j] # Null
      BY <2>2, <1>1 DEF Entries
    <3>2. <<i, j>> \in Recency' <=> <<index[i], index[j]>> \in older
      BY <3>1, <1>2, <1>3
    <3>3. <<i, j>> \in Recency <=> <<index[i], index[j]>> \in older
      BY <3>1, <1>4
    <3>4. <<i, j>> \notin Q  BY <2>2
    <3> QED  BY <2>2, <3>2, <3>3, <3>4
  <2>3. CASE i \in Entries' /\ i # k /\ j = k
    <3>1. index'[i] = index[i] /\ index[i] \in 1..used /\ index[i] \in Slot /\ index[i] # s
      BY <2>3, <1>1 DEF Entries
    <3>2. <<i, j>> \in Recency'
      BY <2>3, <3>1, <1>1, <1>2, <1>3
    <3> QED  BY <2>3, <3>2
  <2>4. CASE i = k /\ j \in Entries'
    <3>1. index'[j] \in Slot
      BY <2>4, <1>1 DEF Entries
    <3>2. <<i, j>> \notin Recency'
      BY <2>4, <3>1, <1>2, <1>3
    <3> QED  BY <2>4, <3>2
  <2> QED  BY <2>1, <2>2, <2>3, <2>4
<1>7. Recency' \subseteq Key \X Key /\ P \subseteq Key \X Key /\ Q \subseteq Key \X Key
  BY <1>3, <1>4, <1>5
<1> HIDE DEF P, Q
<1>8. Recency' = P \union Q
  BY <1>6, <1>7
<1> QED  BY <1>8 DEF P, Q

\* A key that is held becomes the last used, and no key goes.
LEMMA RecencyRefreshed ==
  ASSUME LRUAssumption, CacheInv, phase = "open", NEW k \in Key, index[k] # Null,
         older' = Touch(older, 1..used, index[k]), UNCHANGED <<index, phase>>
  PROVE  Recency' = Abstract!Used(k, Entries)
<1>1. /\ index[k] \in Slot
      /\ \A i \in Key : i # k /\ index[i] # Null => index[i] # index[k]
  BY OpenFacts DEF CacheInv, ListInv, TypeInv, TypeOK, Pointer
<1>2. Entries' = Entries  BY DEF Entries
<1>3. Recency' = {p \in Recency : p[1] \in Entries' /\ p[2] \in Entries' /\ p[1] # k /\ p[2] # k}
                   \union {<<i, k>> : i \in Entries' \ {k}}
  BY <1>1, RecencyTouched
<1>4. Recency \subseteq Entries \X Entries  BY OpenView
<1> QED  BY <1>2, <1>3, <1>4 DEF Abstract!Used

\* The promise counts with the same Cardinality.
LEMMA SameCount ==
  ASSUME NEW S
  PROVE  Abstract!Cardinality(S) = Cardinality(S)
  BY DEF Abstract!Cardinality, Cardinality

(***************************************************************************)
(* Every step of the cache is a step of the map it promises, or none.      *)
(***************************************************************************)
LEMMA FetchIsFetch ==
  ASSUME LRUAssumption, CacheInv, NEW k \in Key, Fetch(k)
  PROVE  Abstract!Fetch(k)
<1>1. phase = "open" /\ UNCHANGED <<index, value, phase>>  BY DEF Fetch
<1>2. UNCHANGED <<Contents, Entries>>
  <2>1. UNCHANGED Contents  BY <1>1 DEF Contents
  <2>2. UNCHANGED Entries  BY <1>1 DEF Entries
  <2> QED  BY <2>1, <2>2
<1>3. /\ Contents = [i \in Key |-> IF index[i] # Null THEN value[index[i]] ELSE Missing]
      /\ Abstract!Cached = Entries
      /\ Recency = {p \in Entries \X Entries : <<index[p[1]], index[p[2]]>> \in older}
  BY <1>1, OpenView
<1>4. result' = Contents[k]  BY <1>3 DEF Fetch
<1>5. CASE index[k] = Null
  <2>1. UNCHANGED older /\ k \notin Entries  BY <1>5 DEF Fetch, Entries
  <2>2. Recency' = Recency  BY <1>1, <2>1 DEF Recency
  <2> QED  BY <1>1, <1>2, <1>3, <1>4, <2>1, <2>2 DEF Abstract!Fetch
<1>6. CASE index[k] # Null
  <2>1. older' = Touch(older, 1..used, index[k]) /\ k \in Entries
    BY <1>6 DEF Fetch, Entries
  <2>2. Recency' = Abstract!Used(k, Entries)  BY <1>1, <1>6, <2>1, RecencyRefreshed
  <2> QED  BY <1>1, <1>2, <1>3, <1>4, <2>1, <2>2 DEF Abstract!Fetch
<1> QED  BY <1>5, <1>6

LEMMA AgainIsRefresh ==
  ASSUME LRUAssumption, CacheInv, phase = "open", NEW k \in Key, StoreAgain(k)
  PROVE  Abstract!Refresh(k)
<1>1. /\ index[k] # Null /\ older' = Touch(older, 1..used, index[k])
      /\ UNCHANGED <<index, value, phase>>
  BY DEF StoreAgain
<1>2. UNCHANGED Contents /\ k \in Entries  BY <1>1 DEF Contents, Entries
<1>3. Abstract!Cached = Entries  BY OpenView
<1>4. Recency' = Abstract!Used(k, Entries)  BY <1>1, RecencyRefreshed
<1> QED  BY <1>2, <1>3, <1>4 DEF Abstract!Refresh

\* A new entry in slot s, which none had.
LEMMA AddedIsAdd ==
  ASSUME LRUAssumption, CacheInv, phase = "open", phase' = "open",
         NEW k \in Key, NEW v \in Value, NEW s \in Slot \ Live, index[k] = Null,
         index' = [index EXCEPT ![k] = s], value' = [value EXCEPT ![s] = v],
         older' = Touch(older, 1..used, s), Size = 0 \/ Cardinality(Live) < Size
  PROVE  Abstract!Add(k, v)
<1>1. /\ index \in [Key -> Pointer] /\ value \in [Slot -> Value \union {Missing}]
      /\ Null \notin Slot
      /\ \A i \in Key : index[i] # Null => index[i] \in Live
  BY OpenFacts DEF CacheInv, ListInv, TypeInv, TypeOK, LRUAssumption
<1>2. /\ Contents = [i \in Key |-> IF index[i] # Null THEN value[index[i]] ELSE Missing]
      /\ Abstract!Cached = Entries
      /\ Recency = {p \in Entries \X Entries : <<index[p[1]], index[p[2]]>> \in older}
  BY OpenView
<1>3. k \notin Entries /\ Entries' = Entries \union {k}
  BY <1>1 DEF Entries
<1>4. Contents' = [Contents EXCEPT ![k] = v]
  <2>1. Contents' = [i \in Key |-> IF index'[i] # Null THEN value'[index'[i]] ELSE Missing]
    BY DEF Contents
  <2>2. \A i \in Key : i # k => index'[i] = index[i]
                                /\ (index[i] # Null => value'[index[i]] = value[index[i]])
    <3>1. \A t \in Live : value'[t] = value[t]  BY <1>1 DEF Live
    <3> QED  BY <1>1, <3>1
  <2>3. index'[k] = s /\ s # Null /\ value'[s] = v  BY <1>1
  <2>4. \A i \in Key : (IF index'[i] # Null THEN value'[index'[i]] ELSE Missing)
                       = IF i = k THEN v ELSE Contents[i]
    BY <1>2, <2>2, <2>3
  <2>5. [Contents EXCEPT ![k] = v] = [i \in Key |-> IF i = k THEN v ELSE Contents[i]]
    BY <1>2
  <2> QED  BY <2>1, <2>4, <2>5
<1>5. Recency' = Abstract!Used(k, Entries)
  <2>1. \A i \in Key : i # k /\ index'[i] # Null => index'[i] = index[i] /\ index'[i] # s
    BY <1>1
  <2>2. index'[k] = s  BY <1>1
  <2>3. Recency' = {p \in Recency : p[1] \in Entries' /\ p[2] \in Entries' /\ p[1] # k /\ p[2] # k}
                     \union {<<i, k>> : i \in Entries' \ {k}}
    BY <2>1, <2>2, RecencyTouched
  <2> QED  BY <1>2, <1>3, <2>3 DEF Abstract!Used
<1>6. Size = 0 \/ Cardinality(Entries) < Size  BY EntriesCounted
<1> QED  BY <1>2, <1>3, <1>4, <1>5, <1>6, SameCount DEF Abstract!Add

\* The slots in use are no more than were taken, and as many only if all are.
LEMMA LiveCounted ==
  ASSUME LRUAssumption, CacheInv, phase = "open"
  PROVE  /\ Cardinality(Live) \in Nat /\ used \in Nat /\ Cardinality(Live) <= used
         /\ Cardinality(Live) = used => Live = 1..used
<1> DEFINE U == 1..used
<1>1. used \in Nat /\ Live \in SUBSET U
  BY OpenFacts DEF CacheInv, ListInv, TypeInv, TypeOK, LRUAssumption
<1>2. IsFiniteSet(U) /\ Cardinality(U) = used  BY <1>1, FS_Interval
<1>3. Cardinality(Live) \in Nat  BY EntriesCounted, FS_CardinalityType
<1> HIDE DEF U
<1>4. Cardinality(Live) <= Cardinality(U) /\ (Cardinality(U) = Cardinality(Live) => U = Live)
  BY <1>1, <1>2, FS_Subset
<1> QED  BY <1>1, <1>2, <1>3, <1>4 DEF U

LEMMA UnusedIsAdd ==
  ASSUME LRUAssumption, CacheInv, phase = "open", NEW k \in Key, NEW v \in Value,
         StoreUnused(k, v)
  PROVE  Abstract!Add(k, v)
<1> DEFINE s == list.unused
<1>1. /\ index[k] = Null /\ s # Null
      /\ index' = [index EXCEPT ![k] = s] /\ value' = [value EXCEPT ![s] = v]
      /\ older' = Touch(older, 1..used, s) /\ UNCHANGED phase
  BY DEF StoreUnused, Fill
<1>2. Chained(list, older, Spare) /\ Spare = (1..used) \ Live /\ 1..used \in SUBSET Slot
  BY OpenFacts DEF CacheInv
<1>3. s \in 1..used /\ s \notin Live  BY <1>1, <1>2 DEF Chained, IsNewest
<1> HIDE DEF s
<1>4. Size = 0 \/ Cardinality(Live) < Size
  <2>1. Cardinality(Live) # used  BY <1>3, LiveCounted
  <2>2. Size = 0 \/ used <= Size  BY DEF CacheInv, ListInv, WithinLimit
  <2>3. Size \in Nat  BY DEF LRUAssumption
  <2> QED  BY <2>1, <2>2, <2>3, LiveCounted
<1>5. s \in Slot \ Live  BY <1>2, <1>3
<1> QED  BY <1>1, <1>4, <1>5, AddedIsAdd

LEMMA NewIsAdd ==
  ASSUME LRUAssumption, CacheInv, phase = "open", NEW k \in Key, NEW v \in Value,
         StoreNew(k, v)
  PROVE  Abstract!Add(k, v)
<1> DEFINE s == used + 1
<1>1. /\ index[k] = Null /\ ~Full /\ used < MaxSlots
      /\ index' = [index EXCEPT ![k] = s] /\ value' = [value EXCEPT ![s] = v]
      /\ older' = Touch(older, 1..used, s) /\ UNCHANGED phase
  BY DEF StoreNew, Fill
<1>2. used \in Nat /\ Size \in Nat /\ MaxSlots \in Nat /\ Live \in SUBSET (1..used)
  BY LiveCounted, OpenFacts DEF CacheInv, LRUAssumption
<1>3. s \in Slot \ Live  BY <1>1, <1>2 DEF Slot
<1>4. Size = 0 \/ Cardinality(Live) < Size  BY <1>1, <1>2, LiveCounted DEF Full
<1> HIDE DEF s
<1> QED  BY <1>1, <1>3, <1>4, AddedIsAdd

\* A full cache drops the key whose last use is the longest ago.
LEMMA EvictingIsDisplace ==
  ASSUME LRUAssumption, Careful, CacheInv, phase = "open", NEW k \in Key, NEW v \in Value,
         StoreEvicting(k, v)
  PROVE  Abstract!Displace(k, v) /\ phase' = "open"
<1> DEFINE s == list.stale
           j == key[s]
<1>1. /\ s \in Live /\ Live = 1..used
      /\ Evict(s, k, v)
      /\ j \in Key /\ j # k /\ index[j] = s
      /\ \A i \in Key : index'[i] = IF i = k THEN s ELSE IF i = j THEN Null ELSE index[i]
  BY EvictedEntry DEF CacheInv
<1>2. /\ index[k] = Null /\ Full /\ phase' = "open"
      /\ value' = [value EXCEPT ![s] = v] /\ older' = Touch(older, 1..used, s)
  BY <1>1 DEF StoreEvicting, Evict, Fill
<1>3. IsOldest(s, older, Live)
  BY OpenFacts DEF CacheInv, Linked
<1> HIDE DEF s, j
<1>4. /\ index \in [Key -> Pointer] /\ value \in [Slot -> Value \union {Missing}]
      /\ Null \notin Slot
      /\ \A i \in Key : index[i] # Null => index[i] \in Live /\ key[index[i]] = i
  BY OpenFacts DEF CacheInv, ListInv, TypeInv, TypeOK, LRUAssumption
<1>5. s \in Slot /\ s # Null  BY <1>1, <1>4 DEF Live
<1>6. \A i \in Key : i # j /\ index[i] # Null => index[i] # s  BY <1>1, <1>4
<1>7. /\ Contents = [i \in Key |-> IF index[i] # Null THEN value[index[i]] ELSE Missing]
      /\ Abstract!Cached = Entries
      /\ Recency = {p \in Entries \X Entries : <<index[p[1]], index[p[2]]>> \in older}
  BY OpenView
<1>8. k \notin Entries /\ j \in Entries /\ Entries' = (Entries \ {j}) \union {k}
  BY <1>1, <1>2, <1>5 DEF Entries
<1>9. Size # 0 /\ Cardinality(Entries) >= Size
  <2>1. Cardinality(Live) = used
    <3>1. used \in Int /\ used >= 1
      BY <1>2, LiveCounted DEF Full, LRUAssumption
    <3> QED  BY <1>1, <3>1, FS_Interval
  <2> QED  BY <1>2, <2>1, EntriesCounted DEF Full
<1>10. Abstract!Stalest(j)
  <2> SUFFICES ASSUME NEW i \in Entries \ {j}  PROVE <<j, i>> \in Recency
    BY <1>7, <1>8 DEF Abstract!Stalest
  <2>1. i \in Key /\ index[i] # Null  BY DEF Entries
  <2>2. index[i] \in Live \ {s}  BY <2>1, <1>4, <1>6
  <2>3. <<index[j], index[i]>> \in older  BY <2>2, <1>1, <1>3, <1>5 DEF IsOldest
  <2> QED  BY <2>3, <1>7, <1>8
<1>11. Contents' = [Contents EXCEPT ![j] = Missing, ![k] = v]
  <2>1. Contents' = [i \in Key |-> IF index'[i] # Null THEN value'[index'[i]] ELSE Missing]
    BY <1>2 DEF Contents
  <2>2. \A t \in Live \ {s} : value'[t] = value[t]  BY <1>2, <1>4 DEF Live
  <2>3. value'[s] = v  BY <1>2, <1>4, <1>5
  <2>4. \A i \in Key : (IF index'[i] # Null THEN value'[index'[i]] ELSE Missing)
                       = IF i = k THEN v ELSE IF i = j THEN Missing ELSE Contents[i]
    <3> TAKE i \in Key
    <3>1. CASE i = k  BY <3>1, <2>3, <1>1, <1>5
    <3>2. CASE i # k /\ i = j  BY <3>2, <1>1
    <3>3. CASE i # k /\ i # j
      <4>1. index'[i] = index[i]  BY <3>3, <1>1
      <4>2. index[i] # Null => index[i] \in Live \ {s}  BY <3>3, <1>4, <1>6
      <4> QED  BY <3>3, <4>1, <4>2, <2>2, <1>7
    <3> QED  BY <3>1, <3>2, <3>3
  <2>5. [Contents EXCEPT ![j] = Missing, ![k] = v]
          = [i \in Key |-> IF i = k THEN v ELSE IF i = j THEN Missing ELSE Contents[i]]
    BY <1>1, <1>7
  <2> QED  BY <2>1, <2>4, <2>5
<1>12. Recency' = Abstract!Forget(j) \union {<<i, k>> : i \in Entries \ {j}}
  <2>1. \A i \in Key : i # k /\ index'[i] # Null => index'[i] = index[i] /\ index'[i] # s
    BY <1>1, <1>6
  <2>2. index'[k] = s  BY <1>1
  <2>3. Recency' = {p \in Recency : p[1] \in Entries' /\ p[2] \in Entries' /\ p[1] # k /\ p[2] # k}
                     \union {<<i, k>> : i \in Entries' \ {k}}
    BY <2>1, <2>2, <1>2, <1>5, RecencyTouched
  <2>4. Entries' \ {k} = Entries \ {j}  BY <1>8
  <2>5. {p \in Recency : p[1] \in Entries' /\ p[2] \in Entries' /\ p[1] # k /\ p[2] # k}
          = {p \in Recency : p[1] # j /\ p[2] # j}
    BY <1>7, <1>8
  <2> QED  BY <2>3, <2>4, <2>5 DEF Abstract!Forget
<1> QED  BY <1>1, <1>2, <1>7, <1>8, <1>9, <1>10, <1>11, <1>12, SameCount DEF Abstract!Displace

LEMMA DeleteIsDelete ==
  ASSUME LRUAssumption, CacheInv, NEW k \in Key, Delete(k)
  PROVE  Abstract!Delete(k)
<1> DEFINE s == index[k]
<1>1. /\ phase = "open" /\ s # Null /\ index' = [index EXCEPT ![k] = Null]
      /\ older' = Touch(older, 1..used, s) /\ UNCHANGED <<value, result, phase>>
  BY DEF Delete
<1>2. /\ index \in [Key -> Pointer] /\ Null \notin Slot
      /\ older \in SUBSET (Slot \X Slot) /\ 1..used \in SUBSET Slot
      /\ \A i \in Key : index[i] # Null => index[i] \in 1..used
      /\ \A i \in Key : i # k /\ index[i] # Null => index[i] # s
  BY <1>1, OpenFacts DEF CacheInv, ListInv, TypeInv, TypeOK, LRUAssumption
<1>3. s \in Slot  BY <1>1, <1>2
<1>4. /\ Contents = [i \in Key |-> IF index[i] # Null THEN value[index[i]] ELSE Missing]
      /\ Abstract!Cached = Entries
      /\ Recency = {p \in Entries \X Entries : <<index[p[1]], index[p[2]]>> \in older}
  BY <1>1, OpenView
<1> HIDE DEF s
<1>5. \A i \in Key : index'[i] = IF i = k THEN Null ELSE index[i]  BY <1>1, <1>2
<1>6. k \in Entries /\ Entries' = Entries \ {k}
  BY <1>1, <1>5 DEF Entries, s
<1>7. Contents' = [Contents EXCEPT ![k] = Missing]
  <2>1. Contents' = [i \in Key |-> IF index'[i] # Null THEN value[index'[i]] ELSE Missing]
    BY <1>1 DEF Contents
  <2> QED  BY <2>1, <1>4, <1>5
<1>8. Recency' = Abstract!Forget(k)
  <2>1. \A p, q \in Slot : p # s /\ q # s => (<<p, q>> \in older' <=> <<p, q>> \in older)
    <3> DEFINE U == 1..used
    <3>1. U \in SUBSET Slot /\ older' = Touch(older, U, s)  BY <1>1, <1>2
    <3> HIDE DEF U
    <3> QED  BY <3>1, <1>2, <1>3, TouchPairs
  <2>2. Recency' = {p \in Entries' \X Entries' : <<index'[p[1]], index'[p[2]]>> \in older'}
    BY <1>1 DEF Recency, Entries
  <2>3. \A i \in Entries' : index'[i] = index[i] /\ index[i] \in Slot /\ index[i] # s
    BY <1>2, <1>5, <1>6 DEF Entries
  <2>4. Recency' = {p \in Entries' \X Entries' : <<index[p[1]], index[p[2]]>> \in older}
    BY <2>1, <2>2, <2>3
  <2> QED  BY <2>4, <1>4, <1>6 DEF Abstract!Forget
<1> QED  BY <1>1, <1>4, <1>6, <1>7, <1>8 DEF Abstract!Delete

\* Once the cache is being freed there is nothing to see of it.
LEMMA ClosedView ==
  /\ phase # "open" => Contents = [k \in Key |-> Missing] /\ Recency = {}
  /\ phase' # "open" => Contents' = [k \in Key |-> Missing] /\ Recency' = {}
  BY DEF Contents, Recency

LEMMA StepIsStep ==
  ASSUME LRUAssumption, Careful, CacheInv, [Next]_vars
  PROVE  [Abstract!Next]_(Abstract!vars)
<1>1. ASSUME NEW k \in Key, Fetch(k)  PROVE Abstract!Next
  BY <1>1, FetchIsFetch DEF Abstract!Next
<1>2. ASSUME NEW k \in Key, Delete(k)  PROVE Abstract!Next
  BY <1>2, DeleteIsDelete DEF Abstract!Next
<1>3. ASSUME NEW k \in Key, NEW v \in Value, Store(k, v)  PROVE Abstract!Next
  <2>1. phase = "open" /\ UNCHANGED result  BY <1>3 DEF Store
  <2>2. /\ Abstract!Refresh(k) \/ Abstract!Add(k, v) \/ Abstract!Displace(k, v)
        /\ phase' = "open"
    <3>1. CASE StoreAgain(k)  BY <2>1, <3>1, AgainIsRefresh DEF StoreAgain
    <3>2. CASE StoreUnused(k, v)  BY <2>1, <3>2, UnusedIsAdd DEF StoreUnused
    <3>3. CASE StoreEvicting(k, v)  BY <2>1, <3>3, EvictingIsDisplace
    <3>4. CASE StoreNew(k, v)  BY <2>1, <3>4, NewIsAdd DEF StoreNew
    <3> QED  BY <1>3, <3>1, <3>2, <3>3, <3>4 DEF Store
  <2> QED  BY <2>1, <2>2 DEF Abstract!Store, Abstract!Next
<1>4. CASE Clean
  <2>1. phase = "open" /\ phase' # "open" /\ UNCHANGED result  BY <1>4 DEF Clean
  <2> QED  BY <2>1, ClosedView DEF Abstract!Free, Abstract!Next
<1>5. CASE WalkStep
  <2>1. phase # "open" /\ phase' # "open" /\ UNCHANGED result  BY <1>5 DEF WalkStep
  <2> QED  BY <2>1, ClosedView DEF Abstract!vars
<1>6. CASE UNCHANGED vars
  <2>1. UNCHANGED <<index, value, phase, older, result>>  BY <1>6 DEF vars
  <2>2. UNCHANGED Contents /\ UNCHANGED Recency  BY <2>1 DEF Contents, Recency
  <2> QED  BY <2>1, <2>2 DEF Abstract!vars
<1> QED  BY <1>1, <1>2, <1>3, <1>4, <1>5, <1>6 DEF Next

(***************************************************************************)
(* The cache is a map of at most Size keys in which a new key displaces    *)
(* the one used the longest ago: what it holds, what a fetch returns and   *)
(* which entry goes do not depend on pools, slots and links.               *)
(***************************************************************************)
THEOREM CacheIsLRU == Careful => (Spec => ImplementsAbstractLRU)
<1>1. Init => Abstract!Init
  <2> SUFFICES ASSUME Init  PROVE Abstract!Init
    OBVIOUS
  <2>1. Contents = [k \in Key |-> Missing] /\ Recency = {}
    BY DEF Init, Contents, Recency
  <2> QED  BY <2>1 DEF Init, Abstract!Init
<1>2. ASSUME Careful  PROVE Spec => ImplementsAbstractLRU
  <2>1. CacheInv /\ [Next]_vars => [Abstract!Next]_(Abstract!vars)
    BY <1>2, StepIsStep, LRUAssumption
  <2>2. Spec => []CacheInv  BY <1>2, CacheInvariant
  <2> QED  BY <1>1, <2>1, <2>2, PTL DEF Spec, ImplementsAbstractLRU, Abstract!Spec
<1> QED  BY <1>2
=============================================================================
