------------------------------ MODULE LRUCache ------------------------------
(***************************************************************************)
(* The least-recently-used cache: a hash from keys to slots, slots taken   *)
(* from a pool and never given back to it, a doubly linked list of the     *)
(* slots in use from the freshest to the stalest, and a singly linked list *)
(* of the slots that deletion left unused.                                 *)
(*                                                                         *)
(* A slot is the number of the pool item that holds it, in the order       *)
(* hemp_pool_take() hands them out.  The three pointers of the cache and   *)
(* the two pointers of every slot are one record, `list', so that the slot *)
(* functions are operators from list to list; index, key and value are the *)
(* rest of the state.  The index is a map from keys to slots.              *)
(*                                                                         *)
(* Values are the addresses of the objects handed to the cache, which      *)
(* frees each of them: `held' is the history of what it has taken and not  *)
(* yet freed, `older' the history of which slot was touched (used or       *)
(* deleted) before which.                                                  *)
(***************************************************************************)
EXTENDS Integers, FiniteSets

CONSTANTS
  Key,          \* the keys callers use
  Value,        \* the addresses of the values callers store
  Size,         \* lru->size, the greatest number of slots; 0 for no limit
  MaxSlots,     \* bound: slots the pool can hand out
  Null,         \* the NULL pointer
  Missing       \* HempMissing

Slot == 1..MaxSlots

ASSUME LRUAssumption ==
  /\ Size \in Nat
  /\ MaxSlots \in Nat
  /\ Null \notin Slot
  /\ Missing \notin Value

VARIABLES
  list,      \* fresh, stale and unused of the cache; fresher, staler of slots
  index,     \* lru->index
  key,       \* slot->key
  value,     \* slot->value
  used,      \* lru->pool->used
  result,    \* what the last fetch returned
  phase,     \* what the cache is doing
  cursor,    \* the slot the loop of hemp_cache_lru_empty has reached
  held,      \* history: values the cache has to free
  misfreed,  \* history: a value was freed that the cache did not hold
  older      \* history: <<s, t>> when slot s was touched before slot t

vars == <<list, index, key, value, used, result, phase, cursor,
          held, misfreed, older>>

Pointer == Slot \union {Null}
Lists == [fresh : Pointer, stale : Pointer, unused : Pointer,
          fresher : [Slot -> Pointer], staler : [Slot -> Pointer]]

Phases == {"open", "cleaning", "freed", "fatal"}

\* The slots the index refers to, and those on the way to be used again.
Live == {s \in Slot : \E k \in Key : index[k] = s}
Spare == (1..used) \ Live

(***************************************************************************)
(* The slot functions.                                                     *)
(***************************************************************************)

\* Mutant: the first slot is not recorded as the stalest.
FreshenFresh(l, s) ==
  [l EXCEPT !.fresher = [t \in Slot |-> IF t = s THEN Null
                                        ELSE IF t = l.fresh THEN s
                                        ELSE l.fresher[t]],
            !.staler = [l.staler EXCEPT ![s] = l.fresh],
            !.fresh = s]

\* hemp_cache_lru_freshen_slot: put slot s at the fresh end.
Freshen(l, s) ==
  [l EXCEPT !.fresher = [t \in Slot |-> IF t = s THEN Null
                                        ELSE IF t = l.fresh THEN s
                                        ELSE l.fresher[t]],
            !.staler = [l.staler EXCEPT ![s] = l.fresh],
            !.fresh = s,
            !.stale = IF l.stale = Null THEN s ELSE l.stale]

\* Mutant: the stale end of the list is left on the slot.
BypassKeepingStale(l, s) ==
  [l EXCEPT !.fresh = IF l.fresher[s] = Null THEN l.staler[s] ELSE l.fresh,
            !.staler = [t \in Slot |-> IF t = l.fresher[s] THEN l.staler[s]
                                       ELSE l.staler[t]],
            !.fresher = [t \in Slot |-> IF t = l.staler[s] THEN l.fresher[s]
                                        ELSE l.fresher[t]]]

\* Have the links on either side bypass slot s.
Bypass(l, s) ==
  [l EXCEPT !.fresh = IF l.fresher[s] = Null THEN l.staler[s] ELSE l.fresh,
            !.stale = IF l.staler[s] = Null THEN l.fresher[s] ELSE l.stale,
            !.staler = [t \in Slot |-> IF t = l.fresher[s] THEN l.staler[s]
                                       ELSE l.staler[t]],
            !.fresher = [t \in Slot |-> IF t = l.staler[s] THEN l.fresher[s]
                                        ELSE l.fresher[t]]]

\* hemp_cache_lru_reuse_slot: slot s has been used again.
Reuse(l, s) == IF l.fresh = s THEN l ELSE Freshen(Bypass(l, s), s)

\* Mutant: the slot is not chained to the other unused slots.
DiscardUnchained(l, s) ==
  LET rest == Bypass(l, s)
  IN  [rest EXCEPT !.staler = [rest.staler EXCEPT ![s] = Null],
                   !.unused = s]

\* hemp_cache_lru_unused_slot: move slot s to the head of the unused list.
Discard(l, s) ==
  LET rest == Bypass(l, s)
  IN  [rest EXCEPT !.staler = [rest.staler EXCEPT ![s] = rest.unused],
                   !.unused = s]

\* Take the head of the unused list.
PopUnused(l) == [l EXCEPT !.unused = l.staler[l.unused]]

\* Cut the stalest slot off the list.
CutStale(l) ==
  LET next == l.fresher[l.stale]
  IN  [l EXCEPT !.stale = next,
                !.staler = [t \in Slot |-> IF t = next THEN Null ELSE l.staler[t]]]

(***************************************************************************)
(* History.                                                                *)
(***************************************************************************)

\* Slot s is touched after every slot of `others'.
Touch(order, others, s) ==
  {p \in order : p[1] # s /\ p[2] # s} \union {<<t, s>> : t \in others \ {s}}

\* hemp_value_free of a value the cache holds, or should hold.
FreeValue(v) ==
  /\ held' = held \ {v}
  /\ misfreed' = (misfreed \/ (v # Missing /\ v \notin held))

-----------------------------------------------------------------------------
\* hemp_cache_lru_new.
Init ==
  /\ list = [fresh |-> Null, stale |-> Null, unused |-> Null,
             fresher |-> [s \in Slot |-> Null], staler |-> [s \in Slot |-> Null]]
  /\ index = [k \in Key |-> Null]
  /\ key = [s \in Slot |-> Null]
  /\ value = [s \in Slot |-> Missing]
  /\ used = 0
  /\ result = Missing
  /\ phase = "open"
  /\ cursor = Null
  /\ held = {}
  /\ misfreed = FALSE
  /\ older = {}

\* Mutant: fetching an entry does not make it the freshest.
FetchOnly(k) ==
  /\ phase = "open"
  /\ result' = IF index[k] = Null THEN Missing ELSE value[index[k]]
  /\ older' = IF index[k] = Null THEN older ELSE Touch(older, 1..used, index[k])
  /\ UNCHANGED <<list, index, key, value, used, phase, cursor, held, misfreed>>

\* hemp_cache_lru_fetch: an entry that is found becomes the freshest.
Fetch(k) ==
  /\ phase = "open"
  /\ IF index[k] = Null
     THEN result' = Missing /\ UNCHANGED <<list, older>>
     ELSE LET s == index[k]
          IN  /\ result' = value[s]
              /\ list' = Reuse(list, s)
              /\ older' = Touch(older, 1..used, s)
  /\ UNCHANGED <<index, key, value, used, phase, cursor, held, misfreed>>

(***************************************************************************)
(* hemp_cache_lru_store.  An entry that exists becomes the freshest and    *)
(* keeps the value it has.  A new one goes into a slot from the unused     *)
(* list, else into the stalest slot when the cache is full, else into a    *)
(* new slot.  The caller hands over a value no cache entry holds.          *)
(***************************************************************************)
StoreAgain(k) ==
  /\ index[k] # Null
  /\ list' = Reuse(list, index[k])
  /\ older' = Touch(older, 1..used, index[k])
  /\ UNCHANGED <<index, key, value, used, phase, held, misfreed>>

\* Slot s, which use_slot() has just put at the fresh end, gets the entry.
Fill(s, k, v) ==
  /\ key' = [key EXCEPT ![s] = k]
  /\ value' = [value EXCEPT ![s] = v]
  /\ older' = Touch(older, 1..used, s)

StoreUnused(k, v) ==
  LET s == list.unused
  IN  /\ index[k] = Null
      /\ s # Null
      /\ list' = Freshen(PopUnused(list), s)
      /\ index' = [index EXCEPT ![k] = s]
      /\ Fill(s, k, v)
      /\ held' = held \union {v}
      /\ UNCHANGED <<used, phase, misfreed>>

Full == Size # 0 /\ used >= Size

\* The entry that slot s holds is dropped for the entry of key k.
Evict(s, k, v) ==
  /\ list' = Freshen(CutStale(list), s)
  /\ Fill(s, k, v)
  /\ held' = (held \ {value[s]}) \union {v}
  /\ misfreed' = (misfreed \/ (value[s] # Missing /\ value[s] \notin held))
  /\ UNCHANGED <<used, phase>>

\* Mutant: the index keeps the entry whose slot is taken.
StoreEvictingIndexed(k, v) ==
  /\ index[k] = Null /\ list.unused = Null /\ Full
  /\ index' = [index EXCEPT ![k] = list.stale]
  /\ Evict(list.stale, k, v)

\* Without a stale slot - "No stale slot to use" - the program ends.
StoreEvicting(k, v) ==
  LET s == list.stale
  IN  /\ index[k] = Null /\ list.unused = Null /\ Full
      /\ IF s = Null
         THEN phase' = "fatal"
              /\ UNCHANGED <<list, index, key, value, used, held, misfreed, older>>
         ELSE /\ index' = [index EXCEPT ![key[s]] = Null, ![k] = s]
              /\ Evict(s, k, v)

\* Mutant: slots are counted before they are taken.
StoreNewBefore(k, v) ==
  LET s == used
  IN  /\ index[k] = Null /\ list.unused = Null /\ ~Full
      /\ used < MaxSlots
      /\ used' = s + 1
      /\ list' = Freshen(list, s)
      /\ index' = [index EXCEPT ![k] = s]
      /\ Fill(s, k, v)
      /\ held' = held \union {v}
      /\ UNCHANGED <<phase, misfreed>>

StoreNew(k, v) ==
  LET s == used + 1
  IN  /\ index[k] = Null /\ list.unused = Null /\ ~Full
      /\ used < MaxSlots
      /\ used' = s
      /\ list' = Freshen(list, s)
      /\ index' = [index EXCEPT ![k] = s]
      /\ Fill(s, k, v)
      /\ held' = held \union {v}
      /\ UNCHANGED <<phase, misfreed>>

Store(k, v) ==
  /\ phase = "open"
  /\ v \notin held
  /\ \/ StoreAgain(k)
     \/ StoreUnused(k, v)
     \/ StoreEvicting(k, v)
     \/ StoreNew(k, v)
  /\ UNCHANGED <<result, cursor>>

\* Mutant: the value of the entry is not freed.
DeleteOnly(k) ==
  /\ phase = "open"
  /\ index[k] # Null
  /\ index' = [index EXCEPT ![k] = Null]
  /\ list' = Discard(list, index[k])
  /\ older' = Touch(older, 1..used, index[k])
  /\ UNCHANGED <<key, value, used, result, phase, cursor, held, misfreed>>

\* Mutant: the slot is discarded but the index still refers to it.
DeleteIndexed(k) ==
  /\ phase = "open"
  /\ index[k] # Null
  /\ FreeValue(value[index[k]])
  /\ list' = Discard(list, index[k])
  /\ older' = Touch(older, 1..used, index[k])
  /\ UNCHANGED <<index, key, value, used, result, phase, cursor>>

\* hemp_cache_lru_delete.
Delete(k) ==
  /\ phase = "open"
  /\ index[k] # Null
  /\ LET s == index[k]
     IN  /\ index' = [index EXCEPT ![k] = Null]
         /\ FreeValue(value[s])
         /\ list' = Discard(list, s)
         /\ older' = Touch(older, 1..used, s)
  /\ UNCHANGED <<key, value, used, result, phase, cursor>>

(***************************************************************************)
(* hemp_cache_lru_clean empties the cache, its only caller, and then frees *)
(* the pool and the index.  hemp_cache_lru_empty walks the list from the   *)
(* fresh end, and hooks the last slot to the unused list.                  *)
(***************************************************************************)
Clean ==
  /\ phase = "open"
  /\ cursor' = list.fresh
  /\ phase' = IF list.fresh = Null THEN "freed" ELSE "cleaning"
  /\ UNCHANGED <<list, index, key, value, used, result, held, misfreed, older>>

\* Mutant: the loop goes on after the last slot has been attached.
WalkStepOn ==
  /\ phase = "cleaning"
  /\ FreeValue(value[cursor])
  /\ value' = [value EXCEPT ![cursor] = Missing]
  /\ IF list.staler[cursor] # Null
     THEN cursor' = list.staler[cursor] /\ UNCHANGED list
     ELSE /\ list' = [list EXCEPT !.staler = [list.staler EXCEPT ![cursor] = list.unused],
                                  !.unused = cursor]
          /\ UNCHANGED cursor
  /\ UNCHANGED <<index, key, used, result, phase, older>>

WalkStep ==
  /\ phase = "cleaning"
  /\ FreeValue(value[cursor])
  /\ value' = [value EXCEPT ![cursor] = Missing]
  /\ IF list.staler[cursor] # Null
     THEN /\ cursor' = list.staler[cursor]
          /\ UNCHANGED <<list, phase>>
     ELSE /\ list' = [list EXCEPT !.staler = [list.staler EXCEPT ![cursor] = list.unused],
                                  !.unused = cursor]
          /\ cursor' = Null
          /\ phase' = "freed"
  /\ UNCHANGED <<index, key, used, result, older>>

Next ==
  \/ \E k \in Key : Fetch(k) \/ Delete(k)
  \/ \E k \in Key, v \in Value : Store(k, v)
  \/ Clean \/ WalkStep

Spec == Init /\ [][Next]_vars
-----------------------------------------------------------------------------
(***************************************************************************)
(* Type invariant.                                                         *)
(***************************************************************************)
TypeOK ==
  /\ list \in Lists
  /\ index \in [Key -> Pointer]
  /\ key \in [Slot -> Key \union {Null}]
  /\ value \in [Slot -> Value \union {Missing}]
  /\ used \in 0..MaxSlots
  /\ result \in Value \union {Missing}
  /\ phase \in Phases
  /\ cursor \in Pointer
  /\ held \subseteq Value
  /\ misfreed \in BOOLEAN
  /\ older \subseteq Slot \X Slot

(***************************************************************************)
(* R puts the slots of S in a strict total order.                          *)
(***************************************************************************)
Ordered(R, S) ==
  /\ \A s \in S : <<s, s>> \notin R
  /\ \A s, t \in S : s # t => <<s, t>> \in R \/ <<t, s>> \in R
  /\ \A r, s, t \in S : <<r, s>> \in R /\ <<s, t>> \in R => <<r, t>> \in R

\* t is the slot of S touched last before s, Null if there is none.
IsBefore(t, s, R, S) ==
  IF t = Null
  THEN \A r \in S : <<r, s>> \notin R
  ELSE /\ t \in S /\ <<t, s>> \in R
       /\ \A r \in S : <<r, s>> \in R => r = t \/ <<r, t>> \in R

\* t is the first or the last slot of S to have been touched, Null for none.
IsOldest(t, R, S) ==
  IF t = Null THEN S = {} ELSE t \in S /\ \A r \in S \ {t} : <<t, r>> \in R
IsNewest(t, R, S) ==
  IF t = Null THEN S = {} ELSE t \in S /\ \A r \in S \ {t} : <<r, t>> \in R

\* The fresh-to-stale list l holds the slots S in the reverse of the order R.
Linked(l, R, S) ==
  /\ IsNewest(l.fresh, R, S)
  /\ IsOldest(l.stale, R, S)
  /\ \A s \in S : IsBefore(l.staler[s], s, R, S)
  /\ \A s \in S : IF l.fresher[s] = Null THEN s = l.fresh
                  ELSE l.fresher[s] \in S /\ l.staler[l.fresher[s]] = s
  /\ \A s \in S : l.staler[s] # Null => l.fresher[l.staler[s]] = s

\* The unused list of l holds the slots S in the reverse of the order R.
Chained(l, R, S) ==
  /\ IsNewest(l.unused, R, S)
  /\ \A s \in S : IsBefore(l.staler[s], s, R, S)

(***************************************************************************)
(* The list of the cache runs through the indexed slots and no others,     *)
(* from the one used last to the one used first, whichever of fetch, store *)
(* and delete touched them and in whatever order: the stale end is the     *)
(* least recently used entry.                                              *)
(***************************************************************************)
ListIsRecency ==
  phase = "open" => Ordered(older, 1..used) /\ Linked(list, older, Live)

(***************************************************************************)
(* Every slot ever taken from the pool is in use or on the unused list,    *)
(* never both, and the unused list ends.  Nothing else keeps a deleted     *)
(* slot from being lost, since the pool takes no slot back.                *)
(***************************************************************************)
NoSlotIsLost == phase = "open" => Chained(list, older, Spare)

(***************************************************************************)
(* Each key has a slot of its own, which knows that key: the entry that is *)
(* dropped from the index when its slot is evicted is the right one.       *)
(***************************************************************************)
IndexMatchesSlots ==
  /\ Live \subseteq 1..used
  /\ \A k \in Key : index[k] # Null => key[index[k]] = k

(***************************************************************************)
(* A value is freed once, by the cache, and only when its entry goes: what *)
(* the entries refer to is what is still to be freed, so that a fetch      *)
(* never returns a freed value, and a freed cache leaves none behind.      *)
(***************************************************************************)
ValuesFreedOnce ==
  /\ ~misfreed
  /\ phase = "open" =>
       /\ held = {value[s] : s \in Live}
       /\ \A s, t \in Live : value[s] = value[t] => s = t
  /\ phase = "freed" => held = {}

\* "No stale slot to use" is never reached: a full cache has a stalest slot.
NeverFatal == phase # "fatal"

\* A cache with a limit never takes more slots from the pool.
WithinLimit == Size # 0 => used <= Size

(***************************************************************************)
(* The cache implements AbstractLRU: what it holds, what a fetch returns   *)
(* and which entry is displaced are those of a map with a recency order.   *)
(***************************************************************************)
Contents == [k \in Key |-> IF phase = "open" /\ index[k] # Null
                           THEN value[index[k]] ELSE Missing]
Recency == {p \in Key \X Key :
              /\ phase = "open"
              /\ index[p[1]] # Null /\ index[p[2]] # Null
              /\ <<index[p[1]], index[p[2]]>> \in older}

Abstract == INSTANCE AbstractLRU
              WITH content <- Contents, order <- Recency, open <- (phase = "open")

ImplementsAbstractLRU == Abstract!Spec

(***************************************************************************)
(* Freeing the cache ends: every step of the walk of hemp_cache_lru_empty  *)
(* goes to a slot that was touched before the one it leaves, and the order *)
(* in which slots were touched is a strict one.                            *)
(***************************************************************************)
CleaningAdvances ==
  [][phase = "cleaning" /\ phase' = "cleaning" => <<cursor', cursor>> \in older]_vars

(***************************************************************************)
(* The staler slot of an entry is a "less recently used slot".             *)
(***************************************************************************)
StalerIsLessRecent ==
  phase = "open" =>
    \A s \in Live : list.staler[s] # Null => <<list.staler[s], s>> \in older
=============================================================================
