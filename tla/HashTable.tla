----------------------------- MODULE HashTable ------------------------------
(***************************************************************************)
(* The hash tables that hold every variable, element, tag, module, method  *)
(* and configuration item: columns of slots selected by the 32-bit hash of *)
(* a key, a wider row of columns when they grow long, and a parent that    *)
(* answers for the keys a table does not have.                             *)
(*                                                                         *)
(* The numeric index of a slot is the hash of the key it was created for,  *)
(* HashOf[slot.key].  A column is the set of its slots: which slot of a    *)
(* column comes first is visible only if two slots of one column match the *)
(* same key, and ColumnsSound says that this does not happen.  The loop of *)
(* a lookup over the parents, and the loop that copies one table into      *)
(* another, take a step per table and per slot.                            *)
(***************************************************************************)
EXTENDS Integers, FiniteSets

CONSTANTS
  Table,     \* the addresses of tables
  Key,       \* the keys callers use
  Value,     \* the values they store
  HashOf,    \* hemp_hash_function
  Primes,    \* hemp_primes, the widths a table can have
  Density,   \* HEMP_HASH_DENSITY
  MaxSize,   \* bound: the greatest size a table reaches
  Null,      \* the NULL pointer
  Missing    \* HempMissing

ASSUME HashAssumption ==
  /\ HashOf \in [Key -> Nat]
  /\ Primes \subseteq Nat \ {0} /\ Primes # {}
  /\ Density \in Nat
  /\ MaxSize \in Nat
  /\ Null \notin Table
  /\ Null \notin [start : Table, table : Table, key : Key]
  /\ Null \notin [table : Table, name : Nat]
  /\ Missing \notin Value

VARIABLES
  live,      \* the tables that exist
  parent,    \* hash->parent
  width,     \* hash->width
  size,      \* hash->size
  slots,     \* hash->slots: the slots of every column
  seek,      \* the fetch under way
  copy,      \* the hash.pairs call under way
  result     \* what the last fetch or delete returned

vars == <<live, parent, width, size, slots, seek, copy, result>>

Slot == [key : Key, value : Value]

\* No call is under way.
Ready == seek = Null /\ copy = Null

(***************************************************************************)
(* Columns.                                                                *)
(***************************************************************************)

\* hemp_hash_wider: the first width above n, the last one if there is none.
Wider(n) ==
  IF \E p \in Primes : p > n
  THEN CHOOSE p \in Primes : p > n /\ \A q \in Primes : q > n => p <= q
  ELSE CHOOSE p \in Primes : \A q \in Primes : q <= p

EmptyColumns(w) == [c \in 0..(w - 1) |-> {}]

Column(k, w) == HashOf[k] % w

AllSlots(t) == UNION {slots[t][c] : c \in DOMAIN slots[t]}

\* The comparison of the loops over a column: the numbers first, then the keys.
Match(slot, k) == HashOf[slot.key] = HashOf[k] \/ slot.key = k

\* The slots of table t that a walk down the column of key k stops at.
Matching(t, k) == {s \in slots[t][Column(k, width[t])] : Match(s, k)}

\* Mutant: the table is filled before it grows.
CrowdedLate(t) == size[t] \div width[t] > Density + 1

\* The test for growth, made before every store.
Crowded(t) == size[t] \div width[t] > Density

\* Mutant: the slots stay in the columns they are in.
RehashedInPlace(t, w) ==
  [c \in 0..(w - 1) |-> IF c \in DOMAIN slots[t] THEN slots[t][c] ELSE {}]

\* hemp_hash_grow: the slots of table t in w columns.
Rehashed(t, w) ==
  [c \in 0..(w - 1) |-> {s \in AllSlots(t) : Column(s.key, w) = c}]

\* The width and the columns that a store into table t works with.
StoreWidth(t) == IF Crowded(t) THEN Wider(width[t]) ELSE width[t]

StoreColumns(t) ==
  IF StoreWidth(t) = width[t] THEN slots[t] ELSE Rehashed(t, StoreWidth(t))

-----------------------------------------------------------------------------
Init ==
  /\ live = {}
  /\ parent = [t \in Table |-> Null]
  /\ width = [t \in Table |-> 0]
  /\ size = [t \in Table |-> 0]
  /\ slots = [t \in Table |-> EmptyColumns(0)]
  /\ seek = Null
  /\ copy = Null
  /\ result = Missing

\* hemp_hash_init.
New(t) ==
  /\ Ready /\ t \notin live
  /\ live' = live \union {t}
  /\ width' = [width EXCEPT ![t] = Wider(0)]
  /\ size' = [size EXCEPT ![t] = 0]
  /\ parent' = [parent EXCEPT ![t] = Null]
  /\ slots' = [slots EXCEPT ![t] = EmptyColumns(Wider(0))]
  /\ UNCHANGED <<seek, copy, result>>

\* Mutant: a table is freed while others defer to it.
FreeUnderneath(t) ==
  /\ Ready /\ t \in live
  /\ live' = live \ {t}
  /\ parent' = [parent EXCEPT ![t] = Null]
  /\ width' = [width EXCEPT ![t] = 0]
  /\ size' = [size EXCEPT ![t] = 0]
  /\ slots' = [slots EXCEPT ![t] = EmptyColumns(0)]
  /\ UNCHANGED <<seek, copy, result>>

\* hemp_hash_free.  Nobody frees a table that others still defer to.
Free(t) ==
  /\ Ready /\ t \in live
  /\ \A u \in live : parent[u] # t
  /\ live' = live \ {t}
  /\ parent' = [parent EXCEPT ![t] = Null]
  /\ width' = [width EXCEPT ![t] = 0]
  /\ size' = [size EXCEPT ![t] = 0]
  /\ slots' = [slots EXCEPT ![t] = EmptyColumns(0)]
  /\ UNCHANGED <<seek, copy, result>>

\* Mutant: a table is attached to one that may defer to it.
AttachAnywhere(t, p) ==
  /\ Ready /\ t \in live /\ p \in live \ {t}
  /\ parent' = [parent EXCEPT ![t] = p]
  /\ UNCHANGED <<live, width, size, slots, seek, copy, result>>

\* hemp_hash_attach.  Callers attach tables that are nobody's parent.
Attach(t, p) ==
  /\ Ready /\ t \in live /\ p \in live \ {t}
  /\ \A u \in live : parent[u] # t
  /\ parent' = [parent EXCEPT ![t] = p]
  /\ UNCHANGED <<live, width, size, slots, seek, copy, result>>

\* hemp_hash_detach.
Detach(t) ==
  /\ Ready /\ t \in live
  /\ parent' = [parent EXCEPT ![t] = Null]
  /\ UNCHANGED <<live, width, size, slots, seek, copy, result>>

\* Mutant: the value of a slot that matches is left alone.
SetOnce(t, k, v) ==
  LET c    == Column(k, StoreWidth(t))
      same == {s \in StoreColumns(t)[c] : Match(s, k)}
  IN  /\ width' = [width EXCEPT ![t] = StoreWidth(t)]
      /\ \/ /\ same # {}
            /\ slots' = [slots EXCEPT ![t] = StoreColumns(t)]
            /\ UNCHANGED size
         \/ /\ same = {} /\ size[t] < MaxSize
            /\ slots' = [slots EXCEPT ![t] =
                 [StoreColumns(t) EXCEPT ![c] = @ \union {[key |-> k, value |-> v]}]]
            /\ size' = [size EXCEPT ![t] = @ + 1]

\* Mutant: keys are told apart by their characters alone, and no slot matches.
SetAnew(t, k, v) ==
  LET c == Column(k, StoreWidth(t))
  IN  /\ width' = [width EXCEPT ![t] = StoreWidth(t)]
      /\ size[t] < MaxSize
      /\ slots' = [slots EXCEPT ![t] =
           [StoreColumns(t) EXCEPT ![c] = @ \union {[key |-> k, value |-> v]}]]
      /\ size' = [size EXCEPT ![t] = @ + 1]

\* The body of hemp_hash_store: grow a crowded table, then set the value of
\* the slot that key k matches, which keeps its own key, or add a slot.
Set(t, k, v) ==
  LET c    == Column(k, StoreWidth(t))
      same == {s \in StoreColumns(t)[c] : Match(s, k)}
  IN  /\ width' = [width EXCEPT ![t] = StoreWidth(t)]
      /\ \/ /\ same # {}
            /\ slots' = [slots EXCEPT ![t] =
                 [StoreColumns(t) EXCEPT ![c] =
                    (@ \ same) \union {[key |-> s.key, value |-> v] : s \in same}]]
            /\ UNCHANGED size
         \/ /\ same = {} /\ size[t] < MaxSize
            /\ slots' = [slots EXCEPT ![t] =
                 [StoreColumns(t) EXCEPT ![c] = @ \union {[key |-> k, value |-> v]}]]
            /\ size' = [size EXCEPT ![t] = @ + 1]

Store(t, k, v) ==
  /\ Ready /\ t \in live
  /\ Set(t, k, v)
  /\ UNCHANGED <<live, parent, seek, copy, result>>

\* Mutant: the slot is looked for in the columns the table began with.
DeleteNarrow(t, k) ==
  LET c    == Column(k, Wider(0))
      same == {s \in slots[t][c] : Match(s, k)}
  IN  /\ Ready /\ t \in live
      /\ IF same = {} THEN result' = Missing
                      ELSE \E s \in same : result' = s.value
      /\ slots' = [slots EXCEPT ![t][c] = @ \ same]
      /\ UNCHANGED <<live, parent, width, size, seek, copy>>

\* hemp_hash_delete: take the slot out of its column; the size stays.
Delete(t, k) ==
  LET same == Matching(t, k)
  IN  /\ Ready /\ t \in live
      /\ IF same = {} THEN result' = Missing
                      ELSE \E s \in same : result' = s.value
      /\ slots' = [slots EXCEPT ![t][Column(k, width[t])] = @ \ same]
      /\ UNCHANGED <<live, parent, width, size, seek, copy>>

(***************************************************************************)
(* hemp_hash_fetch: the loop up the parents.                               *)
(***************************************************************************)
Fetch(t, k) ==
  /\ Ready /\ t \in live
  /\ seek' = [start |-> t, table |-> t, key |-> k]
  /\ UNCHANGED <<live, parent, width, size, slots, copy, result>>

FetchFound ==
  /\ seek # Null
  /\ \E s \in Matching(seek.table, seek.key) : result' = s.value
  /\ seek' = Null
  /\ UNCHANGED <<live, parent, width, size, slots, copy>>

\* Mutant: the lookup gives up before it asks the last parent.
FetchDeferOnce ==
  /\ seek # Null
  /\ Matching(seek.table, seek.key) = {}
  /\ IF \A t \in {parent[seek.table]} \ {Null} : parent[t] = Null
     THEN seek' = Null /\ result' = Missing
     ELSE seek' = [seek EXCEPT !.table = parent[seek.table]] /\ UNCHANGED result
  /\ UNCHANGED <<live, parent, width, size, slots, copy>>

FetchDefer ==
  /\ seek # Null
  /\ Matching(seek.table, seek.key) = {}
  /\ IF parent[seek.table] = Null
     THEN seek' = Null /\ result' = Missing
     ELSE seek' = [seek EXCEPT !.table = parent[seek.table]] /\ UNCHANGED result
  /\ UNCHANGED <<live, parent, width, size, slots, copy>>

(***************************************************************************)
(* hemp_type_hash_pairs: store every slot of one table in another.         *)
(***************************************************************************)
Pairs(t, u) ==
  /\ Ready /\ t \in live /\ u \in live \ {t}
  /\ copy' = [from |-> t, to |-> u, left |-> AllSlots(t)]
  /\ UNCHANGED <<live, parent, width, size, slots, seek, result>>

PairsStep ==
  /\ copy # Null
  /\ \E s \in copy.left :
       /\ Set(copy.to, s.key, s.value)
       /\ copy' = [copy EXCEPT !.left = @ \ {s}]
  /\ UNCHANGED <<live, parent, seek, result>>

PairsEnd ==
  /\ copy # Null /\ copy.left = {}
  /\ copy' = Null
  /\ UNCHANGED <<live, parent, width, size, slots, seek, result>>

-----------------------------------------------------------------------------
Next ==
  \/ \E t \in Table : New(t) \/ Free(t) \/ Detach(t)
  \/ \E t, u \in Table : Attach(t, u) \/ Pairs(t, u)
  \/ \E t \in Table, k \in Key, v \in Value : Store(t, k, v)
  \/ \E t \in Table, k \in Key : Delete(t, k) \/ Fetch(t, k)
  \/ FetchFound
  \/ FetchDefer
  \/ PairsStep
  \/ PairsEnd

Spec == Init /\ [][Next]_vars

\* Once called, hemp_hash_fetch runs until it returns.
FairSpec == Spec /\ WF_vars(FetchFound \/ FetchDefer)

(***************************************************************************)
(* Properties.                                                             *)
(***************************************************************************)
Seeks == [start : Table, table : Table, key : Key] \union {Null}
Copies == [from : Table, to : Table, left : SUBSET Slot] \union {Null}

TablesOK ==
  /\ live \subseteq Table
  /\ parent \in [Table -> live \union {Null}]
  /\ width \in [Table -> Primes \union {0}]
  /\ \A t \in live : width[t] \in Primes
  /\ \A t \in Table \ live : width[t] = 0 /\ parent[t] = Null
  /\ size \in [Table -> 0..MaxSize]
  /\ DOMAIN slots = Table
  /\ \A t \in Table : slots[t] \in [0..(width[t] - 1) -> SUBSET Slot]

CallsOK ==
  /\ seek \in Seeks
  /\ seek # Null => seek.start \in live /\ seek.table \in live
  /\ copy \in Copies
  /\ copy # Null => copy.from \in live /\ copy.to \in live
  /\ result \in Value \union {Missing}

\* Every part of the state has its type; a live table has one of the widths
\* of hemp_primes and that many columns, and only live tables are in use.
TypeOK == TablesOK /\ CallsOK

\* Growing a table (hash.c:136) moves every slot to the column where the next
\* lookup of its key will look, and a column never holds two slots that the
\* same lookup would stop at: no store is ever shadowed by an older slot.
ColumnsSound ==
  \A t \in live : \A c \in DOMAIN slots[t] : \A s \in slots[t][c] :
    /\ Column(s.key, width[t]) = c
    /\ \A r \in slots[t][c] : HashOf[r.key] = HashOf[s.key] => r = s

\* Until there is no wider width to grow to, the columns of a table hold no
\* more than one slot over the density on average (hash.c:187).
LoadBounded ==
  \A t \in live :
    \/ size[t] <= (Density + 1) * width[t]
    \/ \A p \in Primes : p <= width[t]

\* Table t and those it defers to.
Chain(t) ==
  LET Up[n \in 0..Cardinality(Table)] ==
        IF n = 0 THEN {t}
        ELSE (Up[n - 1] \union {parent[u] : u \in Up[n - 1]}) \ {Null}
  IN  Up[Cardinality(Table)]

\* A child hides the items of its parents and nothing else: a fetch that ends
\* with a value has found it in the nearest table that has the key, and one
\* that ends without has asked every table of the chain (hash.c:232-244).
NearestWins ==
  [][seek # Null /\ seek' = Null =>
       \/ \E t \in Chain(seek.start) :
            /\ \E s \in Matching(t, seek.key) : result' = s.value
            /\ \A u \in Chain(seek.start) \ Chain(t) : Matching(u, seek.key) = {}
       \/ /\ result' = Missing
          /\ \A t \in Chain(seek.start) : Matching(t, seek.key) = {}]_vars

\* A pairs call leaves every item of the one table in the other, though the
\* target grows and moves its slots while it is being filled (hash.c:628).
PairsComplete ==
  [][copy # Null /\ copy' = Null =>
       \A s \in AllSlots(copy.from) :
         \E r \in Matching(copy.to, s.key) : r.value = s.value]_vars

\* Every fetch returns: no chain of parents is circular (hash.c:232).
FetchEnds == (seek # Null) ~> (seek = Null)

\* hash.c:193-196 says that the key strings are compared too "if the hash
\* values are identical": a fetch stops at a slot of its own key only.
KeysCompared ==
  [][FetchFound => \A s \in Matching(seek.table, seek.key) : s.key = seek.key]_vars

\* include/hemp/type/hash.h:14 calls the size of a table the "total number of
\* entries", which is what the length method of a hash (hash.c:654) returns.
SizeCountsEntries == \A t \in live : size[t] = Cardinality(AllSlots(t))

\* What the columns of every table hold, by number, and the fetch by number.
Entries == [t \in Table |-> {<<HashOf[s.key], s.value>> : s \in AllSlots(t)}]

Seeking ==
  IF seek = Null THEN Null ELSE [table |-> seek.table, name |-> HashOf[seek.key]]

Promised == INSTANCE AbstractHash WITH
  Name <- {HashOf[k] : k \in Key}, entries <- Entries, seeking <- Seeking

\* The tables implement maps from hash numbers to values that defer to their
\* parents, whatever the widths and the density: growing is invisible, and
\* the slot that a store or delete finds is the only one of its number.
ImplementsAbstractHash == Promised!Spec
=============================================================================
