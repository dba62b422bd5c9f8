-------------------------- MODULE HashTable_proofs --------------------------
(***************************************************************************)
(* Proofs about the hash tables, for any tables, keys and values, any hash *)
(* function, any set of widths and any density.                            *)
(*                                                                         *)
(* The invariant is the conjunction of the type invariant, of ColumnsSound *)
(* and of LoadBounded: a fetch looks in one column only, so what a table   *)
(* holds is what its columns hold (the type invariant is needed to know    *)
(* that the column a lookup computes exists), and a slot is found because  *)
(* it is in the column of its key.  The columns are reasoned about as      *)
(* values: Sound and Held below say what a row of columns is and contains, *)
(* and the lemmas what adding, replacing, removing and rehashing do to it. *)
(***************************************************************************)
EXTENDS HashTable, TLAPS, WellFoundedInduction

Held(cs) == UNION {cs[c] : c \in DOMAIN cs}

Sound(cs, w) ==
  /\ cs \in [0..(w - 1) -> SUBSET Slot]
  /\ \A c \in 0..(w - 1) : \A s \in cs[c] :
       /\ Column(s.key, w) = c
       /\ \A r \in cs[c] : HashOf[r.key] = HashOf[s.key] => r = s

Items(S) == {<<HashOf[s.key], s.value>> : s \in S}

(***************************************************************************)
(* Widths.                                                                 *)
(***************************************************************************)
LEMMA LeastOf ==
  ASSUME NEW S \in SUBSET Nat, S # {}
  PROVE  \E p \in S : \A q \in S : p <= q
<1>1. PICK p \in S : \A q \in S : ~ (<<q, p>> \in OpToRel(<, Nat))
  BY NatLessThanWellFounded, WFMin
<1>2. ASSUME NEW q \in S  PROVE p <= q
  <2>1. p \in Nat /\ q \in Nat  OBVIOUS
  <2>2. ~ (q < p)  BY <1>1, <2>1 DEF OpToRel
  <2> QED  BY <2>1, <2>2
<1> QED  BY <1>2

LEMMA GreatestOf ==
  ASSUME NEW S \in SUBSET Nat, S # {}, NEW n \in Nat, \A p \in S : p <= n
  PROVE  \E p \in S : \A q \in S : q <= p
<1> DEFINE D == {n - p : p \in S}
<1>1. D \in SUBSET Nat /\ D # {}
  <2>1. \A p \in S : n - p \in Nat  OBVIOUS
  <2> QED  BY <2>1
<1>2. PICK d \in D : \A e \in D : d <= e  BY <1>1, LeastOf
<1>3. PICK p \in S : d = n - p  BY <1>2
<1>4. ASSUME NEW q \in S  PROVE q <= p
  <2>1. d <= n - q  BY <1>2
  <2> QED  BY <2>1, <1>3
<1> QED  BY <1>4

\* A width is followed by a wider one, unless it is the last.
LEMMA WiderIs ==
  ASSUME NEW n \in Nat
  PROVE  /\ Wider(n) \in Primes
         /\ Wider(n) > n \/ \A p \in Primes : p <= Wider(n)
<1>0. Primes \in SUBSET Nat /\ Primes # {}  BY HashAssumption
<1>1. CASE \E p \in Primes : p > n
  <2> DEFINE S == {p \in Primes : p > n}
  <2>1. \E p \in S : \A q \in S : p <= q
    <3>1. S \in SUBSET Nat /\ S # {}  BY <1>0, <1>1
    <3> QED  BY <3>1, LeastOf
  <2>2. \E p \in Primes : p > n /\ \A q \in Primes : q > n => p <= q
    BY <2>1
  <2> QED  BY <1>1, <2>2 DEF Wider
<1>2. CASE ~ \E p \in Primes : p > n
  <2>1. \A p \in Primes : p <= n  BY <1>0, <1>2
  <2>2. \E p \in Primes : \A q \in Primes : q <= p
    BY <1>0, <2>1, GreatestOf
  <2> QED  BY <1>2, <2>2 DEF Wider
<1> QED  BY <1>1, <1>2

(***************************************************************************)
(* Rows of columns.                                                        *)
(***************************************************************************)
LEMMA ColumnExists ==
  ASSUME NEW k \in Key, NEW w \in Primes
  PROVE  HashOf[k] \in Nat /\ Column(k, w) \in 0..(w - 1)
<1>1. HashOf[k] \in Nat /\ w \in Nat /\ w > 0  BY HashAssumption
<1>2. HashOf[k] % w \in 0..(w - 1)  BY <1>1
<1> QED  BY <1>1, <1>2 DEF Column

\* Two slots of one row with the same number are one slot.
LEMMA OneSlotPerNumber ==
  ASSUME NEW w \in Primes, NEW cs, Sound(cs, w),
         NEW r \in Held(cs), NEW s \in Held(cs), HashOf[r.key] = HashOf[s.key]
  PROVE  r = s
<1>1. PICK c \in 0..(w - 1) : r \in cs[c]  BY DEF Held, Sound
<1>2. PICK d \in 0..(w - 1) : s \in cs[d]  BY DEF Held, Sound
<1>3. c = Column(r.key, w) /\ d = Column(s.key, w)  BY <1>1, <1>2 DEF Sound
<1>4. c = d  BY <1>3 DEF Column
<1> QED  BY <1>1, <1>2, <1>4 DEF Sound

LEMMA HeldSlots ==
  ASSUME NEW w, NEW cs, Sound(cs, w)
  PROVE  Held(cs) \in SUBSET Slot
BY DEF Held, Sound

LEMMA EmptySound ==
  ASSUME NEW w \in Nat
  PROVE  Sound(EmptyColumns(w), w) /\ Held(EmptyColumns(w)) = {}
BY DEF Sound, Held, EmptyColumns

\* What a walk down the column of a key stops at is what the row holds under
\* the number of the key.
LEMMA WalkFinds ==
  ASSUME NEW w \in Primes, NEW cs, Sound(cs, w), NEW k \in Key
  PROVE  {s \in cs[Column(k, w)] : Match(s, k)} =
         {s \in Held(cs) : HashOf[s.key] = HashOf[k]}
<1>1. Column(k, w) \in 0..(w - 1)  BY ColumnExists
<1>2. ASSUME NEW s \in cs[Column(k, w)], Match(s, k)
      PROVE  s \in Held(cs) /\ HashOf[s.key] = HashOf[k]
  BY <1>1, <1>2 DEF Held, Sound, Match
<1>3. ASSUME NEW s \in Held(cs), HashOf[s.key] = HashOf[k]
      PROVE  s \in cs[Column(k, w)] /\ Match(s, k)
  <2>1. PICK c \in 0..(w - 1) : s \in cs[c]  BY DEF Held, Sound
  <2>2. c = Column(s.key, w)  BY <2>1 DEF Sound
  <2>3. c = Column(k, w)  BY <2>2, <1>3 DEF Column
  <2> QED  BY <2>1, <2>3, <1>3 DEF Match
<1> QED  BY <1>2, <1>3

\* hemp_hash_grow keeps the slots and puts each where its key is looked for.
LEMMA RehashSound ==
  ASSUME NEW w \in Primes, NEW cs, Sound(cs, w), NEW x \in Primes,
         NEW new, new = [c \in 0..(x - 1) |-> {s \in Held(cs) : Column(s.key, x) = c}]
  PROVE  Sound(new, x) /\ Held(new) = Held(cs)
<1>1. Held(cs) \subseteq Slot  BY DEF Held, Sound
<1>2. new \in [0..(x - 1) -> SUBSET Slot]  BY <1>1
<1>3. ASSUME NEW c \in 0..(x - 1), NEW s \in new[c], NEW r \in new[c],
             HashOf[r.key] = HashOf[s.key]
      PROVE  r = s
  BY <1>3, OneSlotPerNumber
<1>4. Sound(new, x)  BY <1>2, <1>3 DEF Sound
<1>5. ASSUME NEW s \in Held(cs)  PROVE s \in Held(new)
  <2>1. s.key \in Key  BY <1>1 DEF Slot
  <2>2. Column(s.key, x) \in 0..(x - 1)  BY <2>1, ColumnExists
  <2>3. s \in new[Column(s.key, x)]  BY <2>2
  <2> QED  BY <2>2, <2>3 DEF Held
<1>6. Held(new) \subseteq Held(cs)  BY DEF Held
<1> QED  BY <1>4, <1>5, <1>6

\* Column c of row cs has become col.
Changed(cs, new, w, c, col) ==
  /\ new \in [0..(w - 1) -> SUBSET Slot]
  /\ new[c] = col
  /\ \A d \in 0..(w - 1) : d # c => new[d] = cs[d]

LEMMA ExceptChanges ==
  ASSUME NEW w, NEW cs, Sound(cs, w), NEW c \in 0..(w - 1), NEW col \in SUBSET Slot
  PROVE  Changed(cs, [cs EXCEPT ![c] = col], w, c, col)
BY DEF Changed, Sound

\* A slot with a number that its column lacks is added.
LEMMA AddSound ==
  ASSUME NEW w \in Primes, NEW cs, Sound(cs, w),
         NEW n \in Slot, NEW c \in 0..(w - 1), c = Column(n.key, w),
         \A s \in cs[c] : HashOf[s.key] # HashOf[n.key],
         NEW col, \A r : r \in col <=> r = n \/ r \in cs[c],
         NEW new, Changed(cs, new, w, c, col)
  PROVE  /\ Sound(new, w)
         /\ \A r : r \in Held(new) <=> r = n \/ r \in Held(cs)
<1>1. ASSUME NEW d \in 0..(w - 1), NEW s \in new[d]
      PROVE  /\ Column(s.key, w) = d
             /\ \A r \in new[d] : HashOf[r.key] = HashOf[s.key] => r = s
  <2>1. CASE d # c
    BY <1>1, <2>1 DEF Sound, Changed
  <2>2. CASE d = c
    <3>1. \A r \in new[d] : r = n \/ r \in cs[c]  BY <2>2 DEF Changed
    <3> QED  BY <1>1, <2>2, <3>1 DEF Sound
  <2> QED  BY <2>1, <2>2
<1>2. \A r : r \in Held(new) <=> r = n \/ r \in Held(cs)
  <2>1. \A r : r \in Held(new) <=> \E d \in 0..(w - 1) : r \in new[d]
    BY DEF Held, Changed
  <2>2. \A r : r \in Held(cs) <=> \E d \in 0..(w - 1) : r \in cs[d]
    BY DEF Held, Sound
  <2> QED  BY <2>1, <2>2 DEF Changed
<1> QED  BY <1>1, <1>2 DEF Sound, Changed

\* A slot gives way to one of the same number.
LEMMA SwapSound ==
  ASSUME NEW w \in Primes, NEW cs, Sound(cs, w), NEW c \in 0..(w - 1),
         NEW s \in cs[c], NEW n \in Slot, n.key = s.key,
         NEW col, \A r : r \in col <=> r = n \/ (r \in cs[c] /\ r # s),
         NEW new, Changed(cs, new, w, c, col)
  PROVE  /\ Sound(new, w)
         /\ \A r : r \in Held(new) <=> r = n \/ (r \in Held(cs) /\ r # s)
<1>1. ASSUME NEW d \in 0..(w - 1), NEW r \in new[d]
      PROVE  /\ Column(r.key, w) = d
             /\ \A q \in new[d] : HashOf[q.key] = HashOf[r.key] => q = r
  <2>1. CASE d # c
    BY <1>1, <2>1 DEF Sound, Changed
  <2>2. CASE d = c
    <3>1. Column(s.key, w) = c /\ Column(n.key, w) = c  BY DEF Sound
    <3>2. \A q \in cs[c] : HashOf[q.key] = HashOf[n.key] => q = s
      BY DEF Sound
    <3>3. r = n \/ (r \in cs[c] /\ r # s)  BY <1>1, <2>2 DEF Changed
    <3>4. \A q \in new[d] : q = n \/ (q \in cs[c] /\ q # s)  BY <2>2 DEF Changed
    <3> QED  BY <2>2, <3>1, <3>2, <3>3, <3>4 DEF Sound
  <2> QED  BY <2>1, <2>2
<1>2. \A r : r \in Held(new) <=> r = n \/ (r \in Held(cs) /\ r # s)
  <2>1. \A d \in 0..(w - 1) : d # c => s \notin cs[d]
    BY DEF Sound
  <2>2. \A r : r \in Held(new) <=> \E d \in 0..(w - 1) : r \in new[d]
    BY DEF Held, Changed
  <2>3. \A r : r \in Held(cs) <=> \E d \in 0..(w - 1) : r \in cs[d]
    BY DEF Held, Sound
  <2> QED  BY <2>1, <2>2, <2>3 DEF Changed
<1> QED  BY <1>1, <1>2 DEF Sound, Changed

\* The slots of a number are removed.
LEMMA RemoveSound ==
  ASSUME NEW w \in Primes, NEW cs, Sound(cs, w), NEW k \in Key,
         NEW c \in 0..(w - 1), c = Column(k, w),
         NEW col, \A r : r \in col <=> r \in cs[c] /\ ~ Match(r, k),
         NEW new, Changed(cs, new, w, c, col)
  PROVE  /\ Sound(new, w)
         /\ \A r : r \in Held(new) <=> r \in Held(cs) /\ HashOf[r.key] # HashOf[k]
<1>1. \A d \in 0..(w - 1) : new[d] \subseteq cs[d]  BY DEF Changed
<1>2. Sound(new, w)  BY <1>1 DEF Sound, Changed
<1>3. \A r : r \in Held(new) <=> \E d \in 0..(w - 1) : r \in new[d]
  BY DEF Held, Changed
<1>4. \A r : r \in Held(cs) <=> \E d \in 0..(w - 1) : r \in cs[d]
  BY DEF Held, Sound
<1>5. \A d \in 0..(w - 1) : \A r \in cs[d] :
        r \in new[d] <=> HashOf[r.key] # HashOf[k]
  <2> SUFFICES ASSUME NEW d \in 0..(w - 1), NEW r \in cs[d]
               PROVE  r \in new[d] <=> HashOf[r.key] # HashOf[k]
    OBVIOUS
  <2>1. Column(r.key, w) = d  BY DEF Sound
  <2>2. CASE d = c  BY <2>2 DEF Match, Changed
  <2>3. CASE d # c
    <3>1. HashOf[r.key] # HashOf[k]  BY <2>1, <2>3 DEF Column
    <3> QED  BY <2>3, <3>1 DEF Changed
  <2> QED  BY <2>2, <2>3
<1> QED  BY <1>1, <1>2, <1>3, <1>4, <1>5

(***************************************************************************)
(* Tables.                                                                 *)
(***************************************************************************)
LEMMA TableSound ==
  ASSUME TablesOK, ColumnsSound, NEW t \in live
  PROVE  /\ t \in Table /\ width[t] \in Primes
         /\ Sound(slots[t], width[t]) /\ AllSlots(t) = Held(slots[t])
<1>1. t \in Table /\ width[t] \in Primes /\ slots[t] \in [0..(width[t] - 1) -> SUBSET Slot]
  BY DEF TablesOK
<1>2. AllSlots(t) = Held(slots[t])  BY DEF AllSlots, Held
<1>3. DOMAIN slots[t] = 0..(width[t] - 1)  BY <1>1
<1> QED  BY <1>1, <1>2, <1>3 DEF ColumnsSound, Sound

LEMMA TableCounts ==
  ASSUME TablesOK, NEW t \in live
  PROVE  /\ t \in Table /\ width[t] \in Nat /\ width[t] > 0
         /\ size[t] \in Nat /\ size[t] \in 0..MaxSize
<1>1. t \in Table  BY DEF TablesOK
<1>5. width[t] \in Primes  BY DEF TablesOK
<1>2. size \in [Table -> 0..MaxSize]  BY DEF TablesOK
<1>3. size[t] \in 0..MaxSize  BY <1>1, <1>2
<1>4. MaxSize \in Nat /\ Primes \subseteq Nat \ {0}  BY HashAssumption
<1>6. width[t] \in Nat /\ width[t] > 0
  <2>1. width[t] \in Nat /\ width[t] # 0  BY <1>4, <1>5
  <2> QED  BY <2>1
<1>7. size[t] \in Nat  BY <1>3, <1>4
<1> QED  BY <1>1, <1>3, <1>6, <1>7

\* The columns a store works with are sound and hold what the table holds.
LEMMA StoreBase ==
  ASSUME TablesOK, ColumnsSound, NEW t \in live
  PROVE  /\ StoreWidth(t) \in Primes
         /\ Sound(StoreColumns(t), StoreWidth(t))
         /\ Held(StoreColumns(t)) = AllSlots(t)
<1>1. width[t] \in Primes /\ width[t] \in Nat  BY TableSound, HashAssumption
<1>2. StoreWidth(t) \in Primes  BY <1>1, WiderIs DEF StoreWidth
<1>3. CASE StoreWidth(t) = width[t]
  BY <1>2, <1>3, TableSound DEF StoreColumns
<1>4. CASE StoreWidth(t) # width[t]
  <2> DEFINE x == StoreWidth(t)
             cs == slots[t]
  <2>1. StoreColumns(t) = [c \in 0..(x - 1) |-> {s \in Held(cs) : Column(s.key, x) = c}]
    BY <1>4, TableSound DEF StoreColumns, Rehashed
  <2>2. Sound(cs, width[t]) /\ AllSlots(t) = Held(cs)  BY TableSound
  <2> HIDE DEF x, cs
  <2>3. x \in Primes  BY <1>2 DEF x
  <2>4. Sound(StoreColumns(t), x)  BY <1>1, <2>1, <2>2, <2>3, RehashSound
  <2>5. Held(StoreColumns(t)) = Held(cs)  BY <1>1, <2>1, <2>2, <2>3, RehashSound
  <2> QED  BY <1>2, <2>2, <2>4, <2>5 DEF x
<1> QED  BY <1>3, <1>4

LEMMA Quotient ==
  ASSUME NEW m \in Nat, NEW w \in Nat, w > 0, NEW d \in Nat, ~ (m \div w > d)
  PROVE  m + 1 <= (d + 1) * w
<1> DEFINE q == m \div w
           r == m % w
<1>1. q \in Nat /\ r \in Nat /\ m = w * q + r /\ r < w  OBVIOUS
<1>2. q <= d  BY <1>1
<1> HIDE DEF q, r
<1>3. w * q <= w * d  BY <1>1, <1>2
<1>4. (d + 1) * w = w * d + w  OBVIOUS
<1> DEFINE a == w * q
           b == w * d
<1>5. a \in Nat /\ b \in Nat /\ a <= b  BY <1>1, <1>3
<1>6. m = a + r /\ (d + 1) * w = b + w  BY <1>1, <1>4
<1> HIDE DEF a, b
<1> QED  BY <1>1, <1>5, <1>6

\* There is room for another slot in the width a store works with.
LEMMA StoreRoom ==
  ASSUME TablesOK, LoadBounded, NEW t \in live
  PROVE  \/ size[t] + 1 <= (Density + 1) * StoreWidth(t)
         \/ \A p \in Primes : p <= StoreWidth(t)
<1>1. /\ width[t] \in Nat /\ width[t] > 0
      /\ size[t] \in Nat /\ Density \in Nat
  BY TableCounts, HashAssumption
<1>2. CASE ~ Crowded(t)
  <2>1. size[t] + 1 <= (Density + 1) * width[t]
    BY <1>1, <1>2, Quotient DEF Crowded
  <2> QED  BY <1>2, <2>1 DEF StoreWidth
<1>3. CASE Crowded(t)
  <2> DEFINE x == Wider(width[t])
  <2>1. x \in Primes /\ (x > width[t] \/ \A p \in Primes : p <= x)
    BY <1>1, WiderIs
  <2>2. StoreWidth(t) = x  BY <1>3 DEF StoreWidth
  <2>3. x \in Nat  BY <2>1, HashAssumption
  <2> HIDE DEF x
  <2>4. CASE \A p \in Primes : p <= x
    BY <2>2, <2>4
  <2>5. CASE x > width[t]
    <3>1. size[t] <= (Density + 1) * width[t]
      BY <1>1, <2>1, <2>3, <2>5 DEF LoadBounded
    <3>2. (Density + 1) * (width[t] + 1) <= (Density + 1) * x
      BY <1>1, <2>3, <2>5
    <3>3. (Density + 1) * (width[t] + 1) = (Density + 1) * width[t] + Density + 1
      BY <1>1
    <3> DEFINE a == (Density + 1) * width[t]
               b == (Density + 1) * x
    <3>4. a \in Nat /\ b \in Nat  BY <1>1, <2>3
    <3>5. size[t] <= a /\ a + Density + 1 <= b  BY <3>1, <3>2, <3>3
    <3> HIDE DEF a, b
    <3>6. size[t] + 1 <= b  BY <1>1, <3>4, <3>5
    <3> QED  BY <2>2, <3>6 DEF b
  <2> QED  BY <2>1, <2>4, <2>5
<1> QED  BY <1>2, <1>3

\* What hemp_hash_store does to a table: it stays sound, keeps within its
\* load, and binds the number of the key to the value.
Bound(S, k, v, R) ==
  \A p : p \in Items(R) <=>
           p = <<HashOf[k], v>> \/ (p \in Items(S) /\ p[1] # HashOf[k])

Becomes(t, w, cs, n) ==
  /\ width' = [width EXCEPT ![t] = w]
  /\ slots' = [slots EXCEPT ![t] = cs]
  /\ size' = [size EXCEPT ![t] = n]

LEMMA SetFacts ==
  ASSUME TablesOK, ColumnsSound, LoadBounded,
         NEW t \in live, NEW k \in Key, NEW v \in Value, Set(t, k, v)
  PROVE  \E w \in Primes : \E cs : \E n \in 0..MaxSize :
           /\ Becomes(t, w, cs, n) /\ Sound(cs, w)
           /\ n <= (Density + 1) * w \/ \A p \in Primes : p <= w
           /\ Bound(AllSlots(t), k, v, Held(cs))
<1> DEFINE w == StoreWidth(t)
           cs == StoreColumns(t)
           c == Column(k, w)
           new == [key |-> k, value |-> v]
<1>1. w \in Primes /\ Sound(cs, w) /\ Held(cs) = AllSlots(t)  BY StoreBase
<1>2. \/ size[t] + 1 <= (Density + 1) * w
      \/ \A p \in Primes : p <= w
  BY StoreRoom
<1>3. /\ t \in Table /\ size[t] \in 0..MaxSize /\ size[t] \in Nat /\ MaxSize \in Nat
      /\ (Density + 1) * w \in Nat
  <2>1. w \in Nat /\ Density \in Nat /\ MaxSize \in Nat  BY <1>1, HashAssumption
  <2>2. (Density + 1) * w \in Nat  BY <2>1
  <2> QED  BY <2>1, <2>2, TableCounts
<1>4. c \in 0..(w - 1) /\ HashOf[k] \in Nat  BY <1>1, ColumnExists
<1>5. new \in Slot /\ new.key = k /\ new.value = v  BY DEF Slot
<1>6. {s \in cs[c] : Match(s, k)} = {s \in Held(cs) : HashOf[s.key] = HashOf[k]}
  BY <1>1, WalkFinds
<1>7. size = [size EXCEPT ![t] = size[t]]  BY <1>3 DEF TablesOK
<1> DEFINE same == {s \in cs[c] : Match(s, k)}
           grown == cs[c] \union {new}
           swapped == (cs[c] \ same) \union {[key |-> s.key, value |-> v] : s \in same}
<1>8. \/ /\ same # {}
         /\ Becomes(t, w, [cs EXCEPT ![c] = swapped], size[t])
      \/ /\ same = {} /\ size[t] < MaxSize
         /\ Becomes(t, w, [cs EXCEPT ![c] = grown], size[t] + 1)
  BY <1>7 DEF Set, Becomes
<1> HIDE DEF w, cs, c, new
<1>9. CASE same = {}
  <2> DEFINE r == [cs EXCEPT ![c] = grown]
  <2>1. Becomes(t, w, r, size[t] + 1) /\ size[t] + 1 \in 0..MaxSize
    BY <1>3, <1>8, <1>9
  <2>2. cs[c] \in SUBSET Slot  BY <1>1, <1>4 DEF Sound
  <2>3. grown \in SUBSET Slot  BY <1>5, <2>2
  <2>4. \A s : s \in grown <=> s = new \/ s \in cs[c]  OBVIOUS
  <2>5. \A s \in cs[c] : HashOf[s.key] # HashOf[new.key]  BY <1>5, <1>9 DEF Match
  <2>6. c = Column(new.key, w)  BY <1>5 DEF c
  <2> HIDE DEF grown
  <2>7. Changed(cs, r, w, c, grown)  BY <1>1, <1>4, <2>3, ExceptChanges
  <2> HIDE DEF r
  <2>8. Sound(r, w)
    BY <1>1, <1>4, <1>5, <2>4, <2>5, <2>6, <2>7, AddSound
  <2>9. \A s : s \in Held(r) <=> s = new \/ s \in Held(cs)
    BY <1>1, <1>4, <1>5, <2>4, <2>5, <2>6, <2>7, AddSound
  <2>10. \A s \in Held(cs) : HashOf[s.key] # HashOf[k]  BY <1>6, <1>9
  <2>11. Bound(AllSlots(t), k, v, Held(r))
    BY <1>1, <1>5, <2>9, <2>10 DEF Bound, Items
  <2>12. size[t] + 1 <= (Density + 1) * w \/ \A p \in Primes : p <= w  BY <1>2
  <2> QED  BY <1>1, <2>1, <2>8, <2>11, <2>12
<1>10. CASE same # {}
  <2> DEFINE r == [cs EXCEPT ![c] = swapped]
  <2>1. Becomes(t, w, r, size[t])  BY <1>8, <1>10
  <2>2. PICK s \in same : TRUE  BY <1>10
  <2>3. s \in Held(cs) /\ s \in cs[c] /\ HashOf[s.key] = HashOf[k]
    BY <1>6, <2>2
  <2>4. s \in Slot  BY <1>1, <1>4, <2>3 DEF Sound
  <2>5. same = {s}
    <3> SUFFICES ASSUME NEW x \in same  PROVE x = s
      BY <2>2
    <3>1. x \in Held(cs) /\ HashOf[x.key] = HashOf[s.key]  BY <1>6, <2>3
    <3> QED  BY <3>1, <2>3, <1>1, OneSlotPerNumber
  <2> DEFINE n == [key |-> s.key, value |-> v]
  <2>6. n \in Slot /\ n.key = s.key /\ n.value = v  BY <2>4 DEF Slot
  <2>7. \A x : x \in swapped <=> x = n \/ (x \in cs[c] /\ x # s)  BY <2>5
  <2> HIDE DEF n, same
  <2>8. swapped \in SUBSET Slot
    <3>1. cs[c] \in SUBSET Slot  BY <1>1, <1>4 DEF Sound
    <3> HIDE DEF swapped
    <3> QED  BY <3>1, <2>6, <2>7
  <2> HIDE DEF swapped
  <2>9. Changed(cs, r, w, c, swapped)  BY <1>1, <1>4, <2>8, ExceptChanges
  <2> HIDE DEF r
  <2>10. /\ Sound(r, w)
         /\ \A x : x \in Held(r) <=> x = n \/ (x \in Held(cs) /\ x # s)
    <3> HIDE <1>2, <1>3, <1>5, <1>6, <1>7, <1>8, <1>10, <2>1
    <3> QED  BY <1>1, <1>4, <2>3, <2>6, <2>7, <2>9, SwapSound
  <2>11. \A x : x \in Held(r) <=> x = n \/ (x \in Held(cs) /\ x # s)
    BY <2>10
  <2>12. \A x \in Held(cs) : HashOf[x.key] = HashOf[k] <=> x = s
    BY <1>1, <2>3, OneSlotPerNumber
  <2>13. Bound(AllSlots(t), k, v, Held(r))
    BY <1>1, <2>3, <2>6, <2>11, <2>12 DEF Bound, Items
  <2>14. size[t] <= (Density + 1) * w \/ \A p \in Primes : p <= w
    <3> DEFINE m == (Density + 1) * w
    <3>1. m \in Nat /\ size[t] \in Nat  BY <1>3
    <3>2. size[t] + 1 <= m \/ \A p \in Primes : p <= w  BY <1>2
    <3> HIDE DEF m
    <3>3. size[t] <= m \/ \A p \in Primes : p <= w  BY <3>1, <3>2
    <3> QED  BY <3>3 DEF m
  <2> QED  BY <1>1, <1>3, <2>1, <2>10, <2>13, <2>14
<1> QED  BY <1>9, <1>10

(***************************************************************************)
(* Steps.                                                                  *)
(***************************************************************************)
LoadOK(n, w) == n <= (Density + 1) * w \/ \A p \in Primes : p <= w

\* One table changes, or comes to life, or is freed; the others stay.
LEMMA TablesStep ==
  ASSUME TablesOK, ColumnsSound, LoadBounded,
         NEW t \in Table, NEW w \in Primes \union {0}, NEW cs, NEW n \in 0..MaxSize,
         Becomes(t, w, cs, n), cs \in [0..(w - 1) -> SUBSET Slot],
         t \in live' => w \in Primes /\ Sound(cs, w) /\ LoadOK(n, w),
         t \notin live' => w = 0,
         \A u \in Table : u # t => (u \in live' <=> u \in live),
         live' \subseteq Table,
         parent' \in [Table -> live' \union {Null}],
         \A u \in Table : u \notin live' => parent'[u] = Null
  PROVE  TablesOK' /\ ColumnsSound' /\ LoadBounded'
<1>1. /\ \A u \in Table : u # t => width'[u] = width[u] /\ slots'[u] = slots[u]
                                   /\ size'[u] = size[u]
      /\ width'[t] = w /\ slots'[t] = cs /\ size'[t] = n
      /\ DOMAIN slots' = Table
  BY DEF Becomes, TablesOK
<1>2. width' \in [Table -> Primes \union {0}]
  BY DEF Becomes, TablesOK
<1>3. size' \in [Table -> 0..MaxSize]
  BY DEF Becomes, TablesOK
<1>4. \A u \in live' : width'[u] \in Primes
  BY <1>1 DEF TablesOK
<1>5. \A u \in Table \ live' : width'[u] = 0 /\ parent'[u] = Null
  BY <1>1 DEF TablesOK
<1>6. \A u \in Table : slots'[u] \in [0..(width'[u] - 1) -> SUBSET Slot]
  <2> SUFFICES ASSUME NEW u \in Table
               PROVE  slots'[u] \in [0..(width'[u] - 1) -> SUBSET Slot]
    OBVIOUS
  <2>1. CASE u = t  BY <1>1, <2>1
  <2>2. CASE u # t  BY <1>1, <2>2 DEF TablesOK
  <2> QED  BY <2>1, <2>2
<1>7. TablesOK'  BY <1>1, <1>2, <1>3, <1>4, <1>5, <1>6 DEF TablesOK
<1>8. ColumnsSound'
  <2> SUFFICES ASSUME NEW u \in live'
               PROVE  \A c \in DOMAIN slots'[u] : \A s \in slots'[u][c] :
                        /\ Column(s.key, width'[u]) = c
                        /\ \A r \in slots'[u][c] : HashOf[r.key] = HashOf[s.key] => r = s
    BY DEF ColumnsSound, Column
  <2>1. CASE u = t
    <3>1. DOMAIN slots'[u] = 0..(w - 1)  BY <1>1, <2>1
    <3> QED  BY <1>1, <2>1, <3>1 DEF Sound
  <2>2. CASE u # t
    <3>1. u \in live /\ u \in Table  BY <2>2
    <3> QED  BY <1>1, <2>2, <3>1 DEF ColumnsSound
  <2> QED  BY <2>1, <2>2
<1>9. LoadBounded'
  <2> SUFFICES ASSUME NEW u \in live'  PROVE LoadOK(size'[u], width'[u])
    BY DEF LoadBounded, LoadOK
  <2>1. CASE u = t  BY <1>1, <2>1
  <2>2. CASE u # t
    <3>1. u \in live /\ u \in Table  BY <2>2
    <3> QED  BY <1>1, <2>2, <3>1 DEF LoadBounded, LoadOK
  <2> QED  BY <2>1, <2>2
<1> QED  BY <1>7, <1>8, <1>9

\* The body of a store.
LEMMA SetKeeps ==
  ASSUME TablesOK, ColumnsSound, LoadBounded,
         NEW t \in live, NEW k \in Key, NEW v \in Value, Set(t, k, v),
         live' = live, parent' = parent
  PROVE  TablesOK' /\ ColumnsSound' /\ LoadBounded'
<1>1. PICK w \in Primes : \E cs : \E n \in 0..MaxSize :
           /\ Becomes(t, w, cs, n) /\ Sound(cs, w)
           /\ n <= (Density + 1) * w \/ \A p \in Primes : p <= w
  BY SetFacts
<1>2. PICK cs : \E n \in 0..MaxSize :
           /\ Becomes(t, w, cs, n) /\ Sound(cs, w)
           /\ n <= (Density + 1) * w \/ \A p \in Primes : p <= w
  BY <1>1
<1>3. PICK n \in 0..MaxSize :
           /\ Becomes(t, w, cs, n) /\ Sound(cs, w)
           /\ n <= (Density + 1) * w \/ \A p \in Primes : p <= w
  BY <1>2
<1>4. Becomes(t, w, cs, n) /\ Sound(cs, w) /\ LoadOK(n, w)  BY <1>3 DEF LoadOK
<1>5. cs \in [0..(w - 1) -> SUBSET Slot]  BY <1>4 DEF Sound
<1>6. /\ t \in Table /\ live' \subseteq Table
      /\ parent' \in [Table -> live' \union {Null}]
      /\ \A u \in Table : u \notin live' => parent'[u] = Null
  BY DEF TablesOK
<1> QED  BY <1>4, <1>5, <1>6, TablesStep

\* A delete keeps the columns sound and takes out what has the number.
LEMMA DeleteFacts ==
  ASSUME TablesOK, ColumnsSound, NEW t \in live, NEW k \in Key, Delete(t, k)
  PROVE  \E cs : /\ Becomes(t, width[t], cs, size[t]) /\ Sound(cs, width[t])
                 /\ \A r : r \in Held(cs) <=>
                             r \in AllSlots(t) /\ HashOf[r.key] # HashOf[k]
<1> DEFINE w == width[t]
           old == slots[t]
           c == Column(k, w)
           col == old[c] \ Matching(t, k)
           new == [old EXCEPT ![c] = col]
<1>1. t \in Table /\ w \in Primes /\ Sound(old, w) /\ AllSlots(t) = Held(old)
  BY TableSound
<1>2. c \in 0..(w - 1)  BY <1>1, ColumnExists
<1>3. \A r : r \in col <=> r \in old[c] /\ ~ Match(r, k)
  BY DEF Matching
<1>4. Becomes(t, w, new, size[t])
  BY <1>1 DEF Becomes, Delete, TablesOK
<1>5. col \in SUBSET Slot
  <2>1. old[c] \in SUBSET Slot  BY <1>1, <1>2 DEF Sound
  <2> QED  BY <2>1
<1> HIDE DEF w, old, c, col
<1>6. Changed(old, new, w, c, col)  BY <1>1, <1>2, <1>5, ExceptChanges
<1> HIDE DEF new
<1>7. c = Column(k, w)  BY DEF c
<1>8. Sound(new, w)  BY <1>1, <1>2, <1>3, <1>6, <1>7, RemoveSound
<1>9. \A r : r \in Held(new) <=> r \in Held(old) /\ HashOf[r.key] # HashOf[k]
  BY <1>1, <1>2, <1>3, <1>6, <1>7, RemoveSound
<1> QED  BY <1>1, <1>4, <1>8, <1>9 DEF w

(***************************************************************************)
(* The invariant.                                                          *)
(***************************************************************************)
HashInv == TablesOK /\ CallsOK /\ ColumnsSound /\ LoadBounded

LEMMA InitHashInv ==
  ASSUME Init  PROVE HashInv
<1>1. 0 \in 0..MaxSize  BY HashAssumption
<1>2. \A t \in Table : slots[t] \in [0..(width[t] - 1) -> SUBSET Slot]
  BY DEF Init, EmptyColumns
<1>3. TablesOK  BY <1>1, <1>2 DEF Init, TablesOK, EmptyColumns
<1>4. CallsOK  BY DEF Init, CallsOK, Seeks, Copies
<1> QED  BY <1>3, <1>4 DEF HashInv, Init, ColumnsSound, LoadBounded

LEMMA NewKeeps ==
  ASSUME HashInv, NEW t \in Table, New(t)  PROVE HashInv'
<1> DEFINE w == Wider(0)
           cs == EmptyColumns(w)
<1>1. w \in Primes /\ w \in Nat /\ 0 \in 0..MaxSize
  <2>1. w \in Primes  BY WiderIs
  <2> HIDE DEF w
  <2> QED  BY <2>1, HashAssumption
<1>2. Sound(cs, w)  BY <1>1, EmptySound
<1>3. LoadOK(0, w)
  <2>1. (Density + 1) * w \in Nat  BY <1>1, HashAssumption
  <2> QED  BY <2>1 DEF LoadOK
<1>4. Becomes(t, w, cs, 0)  BY DEF New, Becomes
<1> HIDE DEF w, cs
<1>5. cs \in [0..(w - 1) -> SUBSET Slot]  BY <1>2 DEF Sound
<1>6. /\ \A u \in Table : u # t => (u \in live' <=> u \in live)
      /\ live' \subseteq Table /\ t \in live'
      /\ parent' \in [Table -> live' \union {Null}]
      /\ \A u \in Table : u \notin live' => parent'[u] = Null
  BY DEF New, HashInv, TablesOK
<1>7. TablesOK' /\ ColumnsSound' /\ LoadBounded'
  BY <1>1, <1>2, <1>3, <1>4, <1>5, <1>6, TablesStep DEF HashInv
<1>8. CallsOK'  BY DEF New, HashInv, CallsOK, Ready
<1> QED  BY <1>7, <1>8 DEF HashInv

LEMMA FreeKeeps ==
  ASSUME HashInv, NEW t \in Table, Free(t)  PROVE HashInv'
<1> DEFINE cs == EmptyColumns(0)
<1>1. 0 \in 0..MaxSize  BY HashAssumption
<1>2. cs \in [0..(0 - 1) -> SUBSET Slot]  BY DEF EmptyColumns
<1>4. Becomes(t, 0, cs, 0)  BY DEF Free, Becomes
<1> HIDE DEF cs
<1>6. /\ \A u \in Table : u # t => (u \in live' <=> u \in live)
      /\ live' \subseteq Table /\ t \notin live'
      /\ parent' \in [Table -> live' \union {Null}]
      /\ \A u \in Table : u \notin live' => parent'[u] = Null
  BY DEF Free, HashInv, TablesOK
<1>7. TablesOK' /\ ColumnsSound' /\ LoadBounded'
  BY <1>1, <1>2, <1>4, <1>6, TablesStep DEF HashInv
<1>8. CallsOK'  BY DEF Free, HashInv, CallsOK, Ready
<1> QED  BY <1>7, <1>8 DEF HashInv

\* A step that changes no table.
LEMMA TablesStay ==
  ASSUME TablesOK, ColumnsSound, LoadBounded,
         UNCHANGED <<live, width, size, slots>>,
         parent' \in [Table -> live \union {Null}],
         \A u \in Table \ live : parent'[u] = Null
  PROVE  TablesOK' /\ ColumnsSound' /\ LoadBounded'
<1>1. TablesOK'  BY DEF TablesOK
<1>2. ColumnsSound'  BY DEF ColumnsSound, Column
<1>3. LoadBounded'  BY DEF LoadBounded
<1> QED  BY <1>1, <1>2, <1>3

LEMMA LinkKeeps ==
  ASSUME HashInv, NEW t \in Table, NEW p \in Table,
         Attach(t, p) \/ Detach(t)
  PROVE  HashInv'
<1>1. /\ UNCHANGED <<live, width, size, slots>>
      /\ parent' \in [Table -> live \union {Null}]
      /\ \A u \in Table \ live : parent'[u] = Null
  BY SMTT(60) DEF Attach, Detach, HashInv, TablesOK
<1>2. TablesOK' /\ ColumnsSound' /\ LoadBounded'
  BY <1>1, TablesStay DEF HashInv
<1>3. CallsOK'  BY DEF Attach, Detach, HashInv, CallsOK, Ready
<1> QED  BY <1>2, <1>3 DEF HashInv

LEMMA StoreKeeps ==
  ASSUME HashInv, NEW t \in Table, NEW k \in Key, NEW v \in Value, Store(t, k, v)
  PROVE  HashInv'
<1>1. t \in live /\ Set(t, k, v) /\ live' = live /\ parent' = parent
  BY DEF Store
<1>2. TablesOK' /\ ColumnsSound' /\ LoadBounded'  BY <1>1, SetKeeps DEF HashInv
<1>3. CallsOK'  BY DEF Store, HashInv, CallsOK, Ready
<1> QED  BY <1>2, <1>3 DEF HashInv

LEMMA DeleteKeeps ==
  ASSUME HashInv, NEW t \in Table, NEW k \in Key, Delete(t, k)
  PROVE  HashInv'
<1>1. TablesOK /\ ColumnsSound /\ LoadBounded /\ t \in live
  BY DEF HashInv, Delete
<1>2. PICK cs : Becomes(t, width[t], cs, size[t]) /\ Sound(cs, width[t])
  BY <1>1, DeleteFacts
<1>3. width[t] \in Primes /\ size[t] \in 0..MaxSize /\ LoadOK(size[t], width[t])
  BY <1>1, TableSound, TableCounts DEF LoadOK, LoadBounded
<1>4. cs \in [0..(width[t] - 1) -> SUBSET Slot]  BY <1>2 DEF Sound
<1>5. /\ live' = live /\ parent' = parent /\ live' \subseteq Table
      /\ parent' \in [Table -> live' \union {Null}]
      /\ \A u \in Table : u \notin live' => parent'[u] = Null
  BY <1>1 DEF Delete, TablesOK
<1>6. TablesOK' /\ ColumnsSound' /\ LoadBounded'
  BY <1>1, <1>2, <1>3, <1>4, <1>5, TablesStep
<1>7. Matching(t, k) \subseteq Slot
  <2>1. Sound(slots[t], width[t]) /\ width[t] \in Primes  BY <1>1, TableSound
  <2>2. Column(k, width[t]) \in 0..(width[t] - 1)  BY <2>1, ColumnExists
  <2>3. slots[t][Column(k, width[t])] \in SUBSET Slot  BY <2>1, <2>2 DEF Sound
  <2> QED  BY <2>3 DEF Matching
<1>8. result' \in Value \union {Missing}
  BY <1>7 DEF Delete, Slot
<1>9. CallsOK'  BY <1>5, <1>8 DEF Delete, HashInv, CallsOK, Ready
<1> QED  BY <1>6, <1>9 DEF HashInv

LEMMA FetchKeeps ==
  ASSUME HashInv, NEW t \in Table, NEW k \in Key, Fetch(t, k)
  PROVE  HashInv'
<1>1. /\ UNCHANGED <<live, parent, width, size, slots>>
      /\ parent' \in [Table -> live \union {Null}]
      /\ \A u \in Table \ live : parent'[u] = Null
  BY DEF Fetch, HashInv, TablesOK
<1>2. TablesOK' /\ ColumnsSound' /\ LoadBounded'
  BY <1>1, TablesStay DEF HashInv
<1>3. CallsOK'  BY DEF Fetch, HashInv, CallsOK, Ready, Seeks
<1> QED  BY <1>2, <1>3 DEF HashInv

LEMMA SeekTyped ==
  ASSUME CallsOK, seek # Null
  PROVE  /\ seek.table \in live /\ seek.key \in Key
         /\ seek = [start |-> seek.start, table |-> seek.table, key |-> seek.key]
BY DEF CallsOK, Seeks

\* What a lookup stops at are slots.
LEMMA MatchingSlots ==
  ASSUME TablesOK, ColumnsSound, NEW t \in live, NEW k \in Key
  PROVE  /\ Matching(t, k) \subseteq Slot
         /\ \A s : s \in Matching(t, k) <=> s \in AllSlots(t) /\ HashOf[s.key] = HashOf[k]
<1> DEFINE w == width[t]
           cs == slots[t]
<1>1. w \in Primes /\ Sound(cs, w) /\ AllSlots(t) = Held(cs)  BY TableSound
<1>2. Matching(t, k) = {s \in cs[Column(k, w)] : Match(s, k)}  BY DEF Matching
<1> HIDE DEF w, cs
<1>3. {s \in cs[Column(k, w)] : Match(s, k)} = {s \in Held(cs) : HashOf[s.key] = HashOf[k]}
  BY <1>1, WalkFinds
<1>4. Held(cs) \subseteq Slot  BY <1>1 DEF Held, Sound
<1> QED  BY <1>1, <1>2, <1>3, <1>4

LEMMA AnswerKeeps ==
  ASSUME HashInv, FetchFound \/ FetchDefer
  PROVE  HashInv'
<1>1. /\ UNCHANGED <<live, parent, width, size, slots>>
      /\ parent' \in [Table -> live \union {Null}]
      /\ \A u \in Table \ live : parent'[u] = Null
  BY DEF FetchFound, FetchDefer, HashInv, TablesOK
<1>2. TablesOK' /\ ColumnsSound' /\ LoadBounded'
  BY <1>1, TablesStay DEF HashInv
<1>3. seek # Null  BY DEF FetchFound, FetchDefer
<1>4. seek.table \in live /\ seek.key \in Key  BY <1>3, SeekTyped DEF HashInv
<1>5. result' \in Value \union {Missing}
  <2>1. CASE FetchFound
    <3>1. Matching(seek.table, seek.key) \subseteq Slot
      BY <1>4, MatchingSlots DEF HashInv
    <3> QED  BY <2>1, <3>1 DEF FetchFound, Slot
  <2>2. CASE FetchDefer
    BY <2>2 DEF FetchDefer, HashInv, CallsOK
  <2> QED  BY <2>1, <2>2
<1>6. seek' \in Seeks /\ (seek' # Null => seek'.start \in live /\ seek'.table \in live)
  <2>1. CASE seek' = Null  BY <2>1 DEF Seeks
  <2>2. CASE seek' # Null
    <3>1. /\ parent[seek.table] # Null
          /\ seek' = [seek EXCEPT !.table = parent[seek.table]]
      BY <2>2 DEF FetchFound, FetchDefer
    <3>2. parent[seek.table] \in live  BY <1>4, <3>1 DEF HashInv, TablesOK
    <3>3. live \subseteq Table  BY DEF HashInv, TablesOK
    <3> QED  BY <1>3, <3>1, <3>2, <3>3 DEF HashInv, CallsOK, Seeks
  <2> QED  BY <2>1, <2>2
<1>7. CallsOK'
  BY <1>1, <1>5, <1>6 DEF FetchFound, FetchDefer, HashInv, CallsOK
<1> QED  BY <1>2, <1>7 DEF HashInv

LEMMA PairsKeeps ==
  ASSUME HashInv, NEW t \in Table, NEW u \in Table, Pairs(t, u)
  PROVE  HashInv'
<1>1. /\ UNCHANGED <<live, parent, width, size, slots>>
      /\ parent' \in [Table -> live \union {Null}]
      /\ \A x \in Table \ live : parent'[x] = Null
  BY DEF Pairs, HashInv, TablesOK
<1>2. TablesOK' /\ ColumnsSound' /\ LoadBounded'
  BY <1>1, TablesStay DEF HashInv
<1>3. AllSlots(t) \in SUBSET Slot
  <2>1. t \in live  BY DEF Pairs
  <2>2. Sound(slots[t], width[t]) /\ AllSlots(t) = Held(slots[t])
    BY <2>1, TableSound DEF HashInv
  <2>3. Held(slots[t]) \in SUBSET Slot  BY <2>2, HeldSlots
  <2> QED  BY <2>2, <2>3
<1>4. CallsOK'  BY <1>3 DEF Pairs, HashInv, CallsOK, Ready, Copies
<1> QED  BY <1>2, <1>4 DEF HashInv

LEMMA PairsStepKeeps ==
  ASSUME HashInv, PairsStep
  PROVE  HashInv'
<1>1. copy # Null /\ live' = live /\ parent' = parent  BY DEF PairsStep
<1>2. /\ copy \in [from : Table, to : Table, left : SUBSET Slot]
      /\ copy.to \in live /\ copy.from \in live
  BY <1>1 DEF HashInv, CallsOK, Copies
<1>3. PICK s \in copy.left : /\ Set(copy.to, s.key, s.value)
                             /\ copy' = [copy EXCEPT !.left = @ \ {s}]
  BY DEF PairsStep
<1>4. s.key \in Key /\ s.value \in Value  BY <1>2 DEF Slot
<1>5. TablesOK' /\ ColumnsSound' /\ LoadBounded'
  BY <1>1, <1>2, <1>3, <1>4, SetKeeps DEF HashInv
<1>6. CallsOK'
  BY <1>1, <1>2, <1>3 DEF PairsStep, HashInv, CallsOK, Copies
<1> QED  BY <1>5, <1>6 DEF HashInv

LEMMA PairsEndKeeps ==
  ASSUME HashInv, PairsEnd
  PROVE  HashInv'
<1>1. /\ UNCHANGED <<live, parent, width, size, slots>>
      /\ parent' \in [Table -> live \union {Null}]
      /\ \A x \in Table \ live : parent'[x] = Null
  BY DEF PairsEnd, HashInv, TablesOK
<1>2. TablesOK' /\ ColumnsSound' /\ LoadBounded'
  BY <1>1, TablesStay DEF HashInv
<1>3. CallsOK'  BY DEF PairsEnd, HashInv, CallsOK, Copies
<1> QED  BY <1>2, <1>3 DEF HashInv

LEMMA NextHashInv ==
  ASSUME HashInv, [Next]_vars  PROVE HashInv'
<1>1. ASSUME NEW t \in Table, New(t)  PROVE HashInv'  BY <1>1, NewKeeps
<1>2. ASSUME NEW t \in Table, Free(t)  PROVE HashInv'  BY <1>2, FreeKeeps
<1>3. ASSUME NEW t \in Table, Detach(t)  PROVE HashInv'  BY <1>3, LinkKeeps
<1>4. ASSUME NEW t \in Table, NEW u \in Table, Attach(t, u)  PROVE HashInv'
  BY <1>4, LinkKeeps
<1>5. ASSUME NEW t \in Table, NEW u \in Table, Pairs(t, u)  PROVE HashInv'
  BY <1>5, PairsKeeps
<1>6. ASSUME NEW t \in Table, NEW k \in Key, NEW v \in Value, Store(t, k, v)
      PROVE  HashInv'
  BY <1>6, StoreKeeps
<1>7. ASSUME NEW t \in Table, NEW k \in Key, Delete(t, k)  PROVE HashInv'
  BY <1>7, DeleteKeeps
<1>8. ASSUME NEW t \in Table, NEW k \in Key, Fetch(t, k)  PROVE HashInv'
  BY <1>8, FetchKeeps
<1>9. CASE FetchFound \/ FetchDefer  BY <1>9, AnswerKeeps
<1>10. CASE PairsStep  BY <1>10, PairsStepKeeps
<1>11. CASE PairsEnd  BY <1>11, PairsEndKeeps
<1>12. CASE UNCHANGED vars
  <2>1. UNCHANGED <<live, parent, width, size, slots>>  BY <1>12 DEF vars
  <2>2. TablesOK' /\ ColumnsSound' /\ LoadBounded'
    BY <2>1, TablesStay DEF HashInv, TablesOK
  <2>3. CallsOK'  BY <1>12 DEF vars, HashInv, CallsOK
  <2> QED  BY <2>2, <2>3 DEF HashInv
<1> QED
  BY <1>1, <1>2, <1>3, <1>4, <1>5, <1>6, <1>7, <1>8, <1>9, <1>10, <1>11, <1>12
  DEF Next

(***************************************************************************)
(* The tables implement AbstractHash.                                      *)
(***************************************************************************)
LEMMA EntriesStep ==
  ASSUME DOMAIN slots = Table, NEW t \in Table, NEW w, NEW cs, NEW n,
         Becomes(t, w, cs, n)
  PROVE  Entries' = [Entries EXCEPT ![t] = Items(Held(cs))]
<1>1. slots'[t] = cs /\ \A u \in Table : u # t => slots'[u] = slots[u]
  BY DEF Becomes
<1>2. AllSlots(t)' = Held(cs)  BY <1>1 DEF AllSlots, Held
<1>3. \A u \in Table : u # t => AllSlots(u)' = AllSlots(u)
  BY <1>1 DEF AllSlots
<1> QED  BY <1>2, <1>3 DEF Entries, Items

LEMMA EntriesStay ==
  ASSUME slots' = slots
  PROVE  Entries' = Entries
BY DEF Entries, AllSlots

\* What the abstract lookup of a number finds.
LEMMA NamedIs ==
  ASSUME TablesOK, ColumnsSound, NEW t \in live, NEW k \in Key
  PROVE  \A p : p \in Promised!Named(t, HashOf[k]) <=>
                 \E s \in Matching(t, k) : p = <<HashOf[k], s.value>>
<1>1. Entries[t] = Items(AllSlots(t))  BY DEF Entries, Items, TablesOK
<1>2. \A s : s \in Matching(t, k) <=> s \in AllSlots(t) /\ HashOf[s.key] = HashOf[k]
  BY MatchingSlots
<1> QED  BY <1>1, <1>2 DEF Items, Promised!Named

\* Storing in a table is storing in its map.
LEMMA SetIsStore ==
  ASSUME TablesOK, ColumnsSound, LoadBounded,
         NEW t \in live, NEW k \in Key, NEW v \in Value, Set(t, k, v),
         UNCHANGED <<live, parent, seek, result>>
  PROVE  Promised!Store(t, HashOf[k], v)
<1>1. PICK w \in Primes : \E cs : \E n \in 0..MaxSize :
           /\ Becomes(t, w, cs, n) /\ Bound(AllSlots(t), k, v, Held(cs))
  BY SetFacts
<1>2. PICK cs : \E n \in 0..MaxSize :
           /\ Becomes(t, w, cs, n) /\ Bound(AllSlots(t), k, v, Held(cs))
  BY <1>1
<1>3. PICK n \in 0..MaxSize :
           /\ Becomes(t, w, cs, n) /\ Bound(AllSlots(t), k, v, Held(cs))
  BY <1>2
<1>4. t \in Table /\ DOMAIN slots = Table  BY DEF TablesOK
<1>5. Entries' = [Entries EXCEPT ![t] = Items(Held(cs))]
  BY <1>3, <1>4, EntriesStep
<1>6. Entries[t] = Items(AllSlots(t))  BY <1>4 DEF Entries, Items
<1>7. Items(Held(cs)) =
        (Entries[t] \ Promised!Named(t, HashOf[k])) \union {<<HashOf[k], v>>}
  BY <1>3, <1>6 DEF Bound, Promised!Named
<1>8. Seeking' = Seeking  BY DEF Seeking
<1> QED  BY <1>5, <1>7, <1>8 DEF Promised!Store

LEMMA DeleteIsDelete ==
  ASSUME TablesOK, ColumnsSound, NEW t \in live, NEW k \in Key, Delete(t, k)
  PROVE  Promised!Delete(t, HashOf[k])
<1>1. PICK cs : /\ Becomes(t, width[t], cs, size[t])
                /\ \A r : r \in Held(cs) <=>
                            r \in AllSlots(t) /\ HashOf[r.key] # HashOf[k]
  BY DeleteFacts
<1>2. t \in Table /\ DOMAIN slots = Table  BY DEF TablesOK
<1>3. Entries' = [Entries EXCEPT ![t] = Items(Held(cs))]
  BY <1>1, <1>2, EntriesStep
<1>4. Entries[t] = Items(AllSlots(t))  BY <1>2 DEF Entries, Items
<1>5. Items(Held(cs)) = Entries[t] \ Promised!Named(t, HashOf[k])
  BY <1>1, <1>4 DEF Items, Promised!Named
<1>6. \A p : p \in Promised!Named(t, HashOf[k]) <=>
                 \E s \in Matching(t, k) : p = <<HashOf[k], s.value>>
  BY NamedIs
<1>7. IF Promised!Named(t, HashOf[k]) = {}
      THEN result' = Missing
      ELSE \E p \in Promised!Named(t, HashOf[k]) : result' = p[2]
  <2>1. CASE Matching(t, k) = {}
    <3>1. Promised!Named(t, HashOf[k]) = {}  BY <1>6, <2>1
    <3> QED  BY <2>1, <3>1 DEF Delete
  <2>2. CASE Matching(t, k) # {}
    <3>1. PICK s \in Matching(t, k) : result' = s.value  BY <2>2 DEF Delete
    <3>2. <<HashOf[k], s.value>> \in Promised!Named(t, HashOf[k])  BY <1>6
    <3>3. <<HashOf[k], s.value>>[2] = s.value  OBVIOUS
    <3> QED  BY <3>1, <3>2, <3>3
  <2> QED  BY <2>1, <2>2
<1>8. Seeking' = Seeking  BY DEF Delete, Seeking
<1> QED  BY <1>3, <1>5, <1>7, <1>8 DEF Promised!Delete, Delete

LEMMA NewIsNew ==
  ASSUME TablesOK, NEW t \in Table, New(t)
  PROVE  Promised!New(t)
<1>1. Becomes(t, Wider(0), EmptyColumns(Wider(0)), 0) /\ DOMAIN slots = Table
  BY DEF New, Becomes, TablesOK
<1>2. Wider(0) \in Nat
  <2>1. Wider(0) \in Primes  BY WiderIs
  <2> QED  BY <2>1, HashAssumption
<1>3. Held(EmptyColumns(Wider(0))) = {}  BY <1>2, EmptySound
<1>4. Entries' = [Entries EXCEPT ![t] = Items({})]
  BY <1>1, <1>3, EntriesStep
<1>5. AllSlots(t) = {}
  <2>1. t \notin live  BY DEF New
  <2>2. slots[t] \in [0..(0 - 1) -> SUBSET Slot]  BY <2>1 DEF TablesOK
  <2> QED  BY <2>2 DEF AllSlots
<1>6. Entries[t] = Items({}) /\ Entries = [u \in Table |-> Entries[u]]
  BY <1>5 DEF Entries, Items
<1>7. Entries' = Entries
  <2> DEFINE E == Entries
             F == Entries'
  <2>1. E = [u \in Table |-> E[u]] /\ E[t] = Items({}) /\ F = [E EXCEPT ![t] = Items({})]
    BY <1>4, <1>6
  <2> HIDE DEF E, F
  <2>2. F = E  BY <2>1
  <2> QED  BY <2>2 DEF E, F
<1>8. parent' = parent
  <2>1. parent[t] = Null  BY DEF New, TablesOK
  <2> QED  BY <2>1 DEF New, TablesOK
<1>9. Seeking' = Seeking  BY DEF New, Seeking
<1> QED  BY <1>7, <1>8, <1>9 DEF New, Promised!New

LEMMA FreeIsFree ==
  ASSUME TablesOK, NEW t \in Table, Free(t)
  PROVE  Promised!Free(t)
<1>1. Becomes(t, 0, EmptyColumns(0), 0) /\ DOMAIN slots = Table
  BY DEF Free, Becomes, TablesOK
<1>2. Held(EmptyColumns(0)) = {}  BY EmptySound
<1>3. Entries' = [Entries EXCEPT ![t] = Items({})]
  BY <1>1, <1>2, EntriesStep
<1>4. Items({}) = {}  BY DEF Items
<1>5. Seeking' = Seeking  BY DEF Free, Seeking
<1> QED  BY <1>3, <1>4, <1>5 DEF Free, Promised!Free

\* The end of a fetch, or its climb to the parent.
LEMMA AnswerIsAnswer ==
  ASSUME TablesOK, CallsOK, ColumnsSound, FetchFound \/ FetchDefer
  PROVE  Promised!Found \/ Promised!Defer
<1> DEFINE t == seek.table
           k == seek.key
           found == Promised!Named(t, HashOf[k])
<1>1. seek # Null /\ t \in live /\ k \in Key
  <2>1. seek # Null  BY DEF FetchFound, FetchDefer
  <2> QED  BY <2>1, SeekTyped
<1>2. Seeking = [table |-> t, name |-> HashOf[k]]  BY <1>1 DEF Seeking
<1>3. Seeking # Null
  <2>1. t \in Table /\ HashOf[k] \in Nat  BY <1>1, HashAssumption DEF TablesOK
  <2>2. [table |-> t, name |-> HashOf[k]] \in [table : Table, name : Nat]  BY <2>1
  <2>3. Null \notin [table : Table, name : Nat]  BY HashAssumption
  <2> QED  BY <1>2, <2>2, <2>3
<1>4. \A p : p \in found <=> \E s \in Matching(t, k) : p = <<HashOf[k], s.value>>
  BY <1>1, NamedIs
<1>5. Entries' = Entries  BY EntriesStay DEF FetchFound, FetchDefer
<1>6. Seeking.table = t /\ Seeking.name = HashOf[k]  BY <1>2
<1>7. CASE FetchFound
  <2>1. PICK s \in Matching(t, k) : result' = s.value  BY <1>7 DEF FetchFound
  <2>2. <<HashOf[k], s.value>> \in found  BY <1>4
  <2>3. <<HashOf[k], s.value>>[2] = s.value  OBVIOUS
  <2>4. Seeking' = Null  BY <1>7 DEF FetchFound, Seeking
  <2> QED  BY <1>3, <1>5, <1>6, <1>7, <2>1, <2>2, <2>3, <2>4 DEF FetchFound, Promised!Found
<1>8. CASE FetchDefer
  <2>1. found = {}  BY <1>4, <1>8 DEF FetchDefer
  <2>2. CASE parent[t] = Null
    <3>1. Seeking' = Null /\ result' = Missing  BY <1>8, <2>2 DEF FetchDefer, Seeking
    <3> QED  BY <1>3, <1>5, <1>6, <1>8, <2>1, <2>2, <3>1 DEF FetchDefer, Promised!Defer
  <2>3. CASE parent[t] # Null
    <3>1. seek' = [start |-> seek.start, table |-> parent[t], key |-> k]
      BY <1>1, <1>8, <2>3, SeekTyped DEF FetchDefer
    <3>2. Seeking' = [table |-> parent[t], name |-> HashOf[k]] /\ result' = result
      <4>1. parent[t] \in Table /\ seek.start \in Table
        BY <1>1, <2>3 DEF TablesOK, CallsOK
      <4>2. seek' \in [start : Table, table : Table, key : Key]
        BY <1>1, <3>1, <4>1
      <4>3. seek' # Null  BY <4>2, HashAssumption
      <4>4. seek'.table = parent[t] /\ seek'.key = k  BY <3>1
      <4> QED  BY <1>8, <2>3, <4>3, <4>4 DEF FetchDefer, Seeking
    <3>3. Seeking' = [Seeking EXCEPT !.table = parent[t]]  BY <1>2, <3>2
    <3> QED  BY <1>3, <1>5, <1>6, <1>8, <2>1, <2>3, <3>2, <3>3 DEF FetchDefer, Promised!Defer
  <2> QED  BY <2>2, <2>3
<1> QED  BY <1>7, <1>8

LEMMA FetchIsSeek ==
  ASSUME TablesOK, NEW t \in Table, NEW k \in Key, Fetch(t, k)
  PROVE  Promised!Seek(t, HashOf[k])
<1>1. seek = Null /\ seek' = [start |-> t, table |-> t, key |-> k]
  BY DEF Fetch, Ready
<1>2. seek' # Null  BY <1>1, HashAssumption
<1>3. Seeking = Null  BY <1>1 DEF Seeking
<1>4. Seeking' = [table |-> t, name |-> HashOf[k]]  BY <1>1, <1>2 DEF Seeking
<1>5. Entries' = Entries  BY EntriesStay DEF Fetch
<1> QED  BY <1>3, <1>4, <1>5 DEF Fetch, Promised!Seek

LEMMA LinkIsLink ==
  ASSUME NEW t \in Table, NEW p \in Table, Attach(t, p) \/ Detach(t)
  PROVE  Promised!Link(t, p) \/ Promised!Link(t, Null)
<1>1. Entries' = Entries  BY EntriesStay DEF Attach, Detach
<1>2. Seeking' = Seeking  BY DEF Attach, Detach, Seeking
<1> QED  BY <1>1, <1>2 DEF Attach, Detach, Promised!Link

LEMMA InitIsInit ==
  ASSUME Init  PROVE Promised!Init
<1>1. \A t \in Table : AllSlots(t) = {}  BY DEF Init, AllSlots, EmptyColumns
<1>2. Entries = [t \in Table |-> {}]  BY <1>1 DEF Entries
<1> QED  BY <1>2 DEF Init, Promised!Init, Seeking

LEMMA StepIsStep ==
  ASSUME HashInv, [Next]_vars
  PROVE  [Promised!Next]_(Promised!vars)
<1> USE DEF HashInv
<1>1. ASSUME NEW t \in Table, New(t)  PROVE Promised!Next
  BY <1>1, NewIsNew DEF Promised!Next
<1>2. ASSUME NEW t \in Table, Free(t)  PROVE Promised!Next
  BY <1>2, FreeIsFree DEF Promised!Next
<1>3. ASSUME NEW t \in Table, NEW p \in Table, Attach(t, p) \/ Detach(t)
      PROVE  Promised!Next
  BY <1>3, LinkIsLink DEF Promised!Next
<1>4. ASSUME NEW t \in Table, NEW k \in Key, NEW v \in Value, Store(t, k, v)
      PROVE  Promised!Next
  <2>1. Promised!Store(t, HashOf[k], v)  BY <1>4, SetIsStore DEF Store
  <2> QED  BY <2>1 DEF Promised!Next
<1>5. ASSUME NEW t \in Table, NEW k \in Key, Delete(t, k)  PROVE Promised!Next
  <2>1. Promised!Delete(t, HashOf[k])  BY <1>5, DeleteIsDelete DEF Delete
  <2> QED  BY <2>1 DEF Promised!Next
<1>6. ASSUME NEW t \in Table, NEW k \in Key, Fetch(t, k)  PROVE Promised!Next
  BY <1>6, FetchIsSeek DEF Promised!Next
<1>7. CASE FetchFound \/ FetchDefer
  BY <1>7, AnswerIsAnswer DEF Promised!Next
<1>8. CASE PairsStep
  <2>1. copy # Null  BY <1>8 DEF PairsStep
  <2>2. copy.to \in live /\ copy.to \in Table /\ copy.left \subseteq Slot
    BY <2>1 DEF CallsOK, Copies
  <2>3. PICK s \in copy.left : Set(copy.to, s.key, s.value)  BY <1>8 DEF PairsStep
  <2>4. s.key \in Key /\ s.value \in Value  BY <2>2 DEF Slot
  <2>5. Promised!Store(copy.to, HashOf[s.key], s.value)
    BY <1>8, <2>2, <2>3, <2>4, SetIsStore DEF PairsStep
  <2> QED  BY <2>2, <2>4, <2>5 DEF Promised!Next
<1>9. ASSUME \/ \E t, u \in Table : Pairs(t, u)
             \/ PairsEnd
             \/ UNCHANGED vars
      PROVE  UNCHANGED Promised!vars
  <2>1. UNCHANGED <<live, parent, slots, seek, result>>
    BY <1>9 DEF Pairs, PairsEnd, vars
  <2>2. Entries' = Entries /\ Seeking' = Seeking  BY <2>1, EntriesStay DEF Seeking
  <2> QED  BY <2>1, <2>2 DEF Promised!vars
<1> QED
  BY <1>1, <1>2, <1>3, <1>4, <1>5, <1>6, <1>7, <1>8, <1>9 DEF Next

\* The invariant holds in every reachable state.
THEOREM HashInvariant == Spec => []HashInv
<1>1. Init => HashInv  BY InitHashInv
<1>2. HashInv /\ [Next]_vars => HashInv'  BY NextHashInv
<1> QED  BY <1>1, <1>2, PTL DEF Spec

\* Every part of the state has its type: a live table has a width of
\* hemp_primes and that many columns, and nothing freed is in use.
THEOREM TypeCorrect == Spec => []TypeOK
<1>1. HashInv => TypeOK  BY DEF HashInv, TypeOK
<1> QED  BY <1>1, HashInvariant, PTL

\* Every slot is in the column where its key is looked for, whatever the
\* growth of the table, and no two slots of a column have the same number.
THEOREM ColumnsAreSound == Spec => []ColumnsSound
<1>1. HashInv => ColumnsSound  BY DEF HashInv
<1> QED  BY <1>1, HashInvariant, PTL

\* Columns stay within the density as long as there are wider widths: one
\* step to the next width is always enough, whatever the widths are.
THEOREM LoadIsBounded == Spec => []LoadBounded
<1>1. HashInv => LoadBounded  BY DEF HashInv
<1> QED  BY <1>1, HashInvariant, PTL

\* The tables are maps from hash numbers to values that defer to their
\* parents: growth, the order of columns and the copying of pairs are steps
\* of such maps, or no step at all.
THEOREM HashesAreMaps == Spec => ImplementsAbstractHash
<1>1. Init => Promised!Init  BY InitIsInit
<1>2. HashInv /\ [Next]_vars => [Promised!Next]_(Promised!vars)  BY StepIsStep
<1> QED  BY <1>1, <1>2, HashInvariant, PTL DEF Spec, ImplementsAbstractHash, Promised!Spec
=============================================================================
