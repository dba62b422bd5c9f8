------------------------------- MODULE Names -------------------------------
(***************************************************************************)
(* Dotted names: hemp_hash_fetch_dotted() and hemp_hash_store_dotted(),    *)
(* which configuration values go through, and the dots and assignments of  *)
(* templates, over the fetch, store and dot functions of the types.        *)
(*                                                                         *)
(* A slot of a hash has the address of its name and the number hashed from *)
(* it.  A dotted store splits its name into strings that it frees when it  *)
(* returns: the slots that were made with them are stale, and what is at   *)
(* the address of their names may be equal to any name later on.           *)
(***************************************************************************)
EXTENDS Integers, Sequences, FiniteSets, SequencesExt, Functions

CONSTANTS
  Keys,       \* names between dots
  Column,     \* the column of a hash that a name falls into
  IndexOf,    \* the numbers of the names that are digits only
  Hashes,     \* hash tables; some of them are there from the start
  Tables,     \* these
  Lists,      \* lists
  NoHash,
  MaxStores,  \* bound: stores of a behaviour
  MaxPath     \* bound: names in a dotted name

ASSUME NamesAssumption ==
  /\ Tables \subseteq Hashes
  /\ NoHash \notin Hashes
  /\ Column \in [Keys -> Nat]
  /\ DOMAIN IndexOf \subseteq Keys
  /\ \A k \in DOMAIN IndexOf : IndexOf[k] \in Nat
  /\ "length" \in Keys => "length" \notin DOMAIN IndexOf

VARIABLES
  heap,    \* the hashes and the lists that are in use
  stores,  \* the stores that were made
  last     \* what the last call was, and its outcome

namesVars == <<heap, stores, last>>

-----------------------------------------------------------------------------
\* Values; what is undefined is missing or nothing, and only the first is not found.
Integer(n) == [type |-> "integer", is |-> n]
HashOf(h) == [type |-> "hash", is |-> h]
ListOf(l) == [type |-> "list", is |-> l]
HempMissing == [type |-> "identity", is |-> "missing"]
HempNothing == [type |-> "identity", is |-> "nothing"]
IsFound(v) == v # HempMissing
IsDefined(v) == v.type # "identity"

\* What a call gives besides values: an error that was thrown, or the end of the program.
Thrown == [type |-> "error", is |-> "thrown"]
Fatal == [type |-> "error", is |-> "fatal"]
Failed(v) == v.type = "error"

Slot(key, stale, value) == [key |-> key, stale |-> stale, value |-> value]
Empty == [parent |-> NoHash, slots |-> <<>>]

Paths == UNION {[1..n -> Keys] : n \in 1..MaxPath}

-----------------------------------------------------------------------------
\* The slots that the search for a name may stop at: the one with the number of the name,
\* or a stale one before it whose name happens to match.
InColumn(slots, key) == {i \in DOMAIN slots : Column[slots[i].key] = Column[key]}
Stops(slots, key) ==
  {i \in InColumn(slots, key) :
    /\ slots[i].key = key \/ slots[i].stale
    /\ \A j \in InColumn(slots, key) : j < i => slots[j].key # key}
RunsOut(slots, key) == \A i \in InColumn(slots, key) : slots[i].key # key

\* The values a name may have in a hash or the next of its parents that has it.
RECURSIVE Finds(_, _, _)
Finds(hp, h, key) ==
  LET slots == hp.hashes[h].slots
      next == hp.hashes[h].parent
  IN {slots[i].value : i \in Stops(slots, key)} \union
     (IF ~RunsOut(slots, key) THEN {} ELSE IF next = NoHash THEN {HempMissing} ELSE Finds(hp, next, key))

\* hemp_list_index(): whether a name is a number.
HasIndex(key) == key \in DOMAIN IndexOf

\* An item that is not there is missing, and so is one without a number.
Item(hp, l, key) ==
  IF HasIndex(key) /\ IndexOf[key] < Len(hp.lists[l])
    THEN hp.lists[l][IndexOf[key] + 1] ELSE HempMissing

\* Mutant: a value without a fetch function has nothing under any name.
FetchFromAny(hp, v, key) ==
  CASE v.type = "hash" -> Finds(hp, v.is, key)
    [] v.type = "list" -> {Item(hp, v.is, key)}
    [] OTHER -> {HempMissing}

\* The fetch function of the type of a value; most types have none and throw an error.
FetchFrom(hp, v, key) ==
  CASE v.type = "hash" -> Finds(hp, v.is, key)
    [] v.type = "list" -> {Item(hp, v.is, key)}
    [] OTHER -> {Thrown}

\* The dot function: an item, or else a method of the type.
Method(hp, v, key) ==
  IF key # "length" THEN HempMissing
    ELSE CASE v.type = "hash" -> Integer(Len(hp.hashes[v.is].slots))
           [] v.type = "list" -> Integer(Len(hp.lists[v.is]))
           [] OTHER -> HempMissing
DotFrom(hp, v, key) ==
  IF v.type \in {"hash", "list"}
    THEN {IF IsFound(r) THEN r ELSE Method(hp, v, key) : r \in FetchFrom(hp, v, key)}
    ELSE {Method(hp, v, key)}

-----------------------------------------------------------------------------
\* Outcomes are a heap and a result.
Gives(hp, v) == [heap |-> hp, result |-> v]

\* A store into a hash: in the slot that the search stops at, or a new first slot; the
\* parents are not looked at.
StoreInHash(hp, h, key, v, stale) ==
  LET slots == hp.hashes[h].slots
      Put(s) == [hp EXCEPT !.hashes[h].slots = s]
  IN {Gives(Put([slots EXCEPT ![i].value = v]), v) : i \in Stops(slots, key)} \union
     (IF RunsOut(slots, key) THEN {Gives(Put(<<Slot(key, stale, v)>> \o slots), v)} ELSE {})

\* Mutant: an item beyond the end is put at the end.
StoreInListNext(hp, l, key, v) ==
  IF ~HasIndex(key) THEN Gives(hp, HempMissing)
  ELSE LET items == hp.lists[l]
           at == IndexOf[key] + 1
       IN Gives([hp EXCEPT !.lists[l] =
            IF at > Len(items) THEN Append(items, v) ELSE [items EXCEPT ![at] = v]], v)

\* A store into a list fills up what is before the item; without a number it does nothing.
StoreInList(hp, l, key, v) ==
  IF ~HasIndex(key) THEN Gives(hp, HempMissing)
  ELSE LET items == hp.lists[l]
           at == IndexOf[key] + 1
       IN Gives([hp EXCEPT !.lists[l] =
            [i \in 1..(IF at > Len(items) THEN at ELSE Len(items)) |->
              IF i = at THEN v ELSE IF i <= Len(items) THEN items[i] ELSE HempNothing]], v)

\* The store function of the type of a value.
StoreIn(hp, c, key, v, stale) ==
  CASE c.type = "hash" -> StoreInHash(hp, c.is, key, v, stale)
    [] c.type = "list" -> {StoreInList(hp, c.is, key, v)}
    [] OTHER -> {Gives(hp, Thrown)}

-----------------------------------------------------------------------------
\* hemp_hash_fetch_dotted(): each node is fetched from the one before; when one is not found
\* the names are tried again from the parent of the hash on.
RECURSIVE Along(_, _, _)
Along(hp, v, path) ==
  IF path = <<>> \/ ~IsFound(v) \/ Failed(v) THEN {v}
    ELSE UNION {Along(hp, w, Tail(path)) : w \in FetchFrom(hp, v, Head(path))}

RECURSIVE FetchDotted(_, _, _)
FetchDotted(hp, h, path) ==
  LET found == UNION {Along(hp, v, Tail(path)) : v \in Finds(hp, h, Head(path))}
      next == hp.hashes[h].parent
  IN (found \ {HempMissing}) \union
     (IF HempMissing \notin found THEN {}
      ELSE IF Len(path) = 1 \/ next = NoHash THEN {HempMissing} ELSE FetchDotted(hp, next, path))

\* hemp_hash_store_dotted(): the nodes before the last are fetched; a hash is made for those
\* that are undefined, in the hash or list before.
Unused(hp) == CHOOSE h \in Hashes : h \notin DOMAIN hp.hashes
Made(hp) == [hp EXCEPT !.hashes = (Unused(hp) :> Empty) @@ @]

RECURSIVE StoreAlong(_, _, _, _)
StoreAlong(hp, c, path, v) ==
  LET key == Head(path)
      Vivified ==
        UNION {IF Failed(o.result) THEN {o} ELSE StoreAlong(o.heap, HashOf(Unused(hp)), Tail(path), v) :
                 o \in StoreIn(Made(hp), c, key, HashOf(Unused(hp)), TRUE)}
  IN IF Len(path) = 1 THEN StoreIn(hp, c, key, v, TRUE)
     ELSE UNION {IF Failed(child) THEN {Gives(hp, child)}
                 ELSE IF IsDefined(child) THEN StoreAlong(hp, child, Tail(path), v)
                 ELSE Vivified : child \in FetchFrom(hp, c, key)}

StoreDotted(hp, h, path, v) ==
  IF Len(path) = 1 THEN StoreInHash(hp, h, path[1], v, FALSE) ELSE StoreAlong(hp, HashOf(h), path, v)

-----------------------------------------------------------------------------
\* A dotted expression: a word is fetched from the variables, and dots take it from there.
RECURSIVE Dots(_, _, _)
Dots(hp, v, path) ==
  IF path = <<>> \/ Failed(v) THEN {v}
  ELSE IF ~IsDefined(v) THEN {Fatal}
  ELSE UNION {Dots(hp, w, Tail(path)) : w \in DotFrom(hp, v, Head(path))}
Expression(hp, h, path) == UNION {Dots(hp, v, Tail(path)) : v \in Finds(hp, h, Head(path))}

\* An assignment to it: the strings of its names belong to the template.
Assign(hp, h, path, v) ==
  IF Len(path) = 1 THEN StoreInHash(hp, h, path[1], v, FALSE)
  ELSE UNION {IF Failed(c) THEN {Gives(hp, c)} ELSE StoreIn(hp, c, Last(path), v, FALSE) :
                c \in Expression(hp, h, Front(path))}

-----------------------------------------------------------------------------
NothingCalled == [call |-> "none", hash |-> NoHash, path |-> <<>>, value |-> HempNothing, result |-> HempNothing]

NamesInit ==
  /\ heap = [hashes |-> [h \in Tables |-> Empty], lists |-> [l \in {} |-> <<>>]]
  /\ stores = 0
  /\ last = NothingCalled

Store(call, h, path, v, hp, Outcomes(_, _, _, _)) ==
  \E o \in Outcomes(hp, h, path, v) :
    /\ heap' = o.heap
    /\ last' = [call |-> call, hash |-> h, path |-> path, value |-> v, result |-> o.result]
    /\ stores' = stores + 1

\* A value to store: a new number or a new list.
Storing(call, Outcomes(_, _, _, _)) ==
  /\ stores < MaxStores
  /\ last.result # Fatal
  /\ \E h \in Tables, path \in Paths :
     /\ Len(path) - 1 <= Cardinality(Hashes \ DOMAIN heap.hashes)
     /\
       \/ Store(call, h, path, Integer(stores + 1), heap, Outcomes)
       \/ \E l \in Lists \ DOMAIN heap.lists :
            Store(call, h, path, ListOf(l), [heap EXCEPT !.lists = (l :> <<>>) @@ @], Outcomes)

\* hemp_config_set().
SetConfig == Storing("set", StoreDotted)

\* The value of an assignment of a template.
AssignDotted == Storing("assign", Assign)

\* hemp_hash_attach(), hemp_context_with(): a hash gets the variables around it as its
\* parent, and loses them again.
AttachHash(child, to) ==
  /\ last.result # Fatal
  /\ heap.hashes[child].parent = NoHash
  /\ child # to
  /\ heap.hashes[to].parent = NoHash
  /\ heap' = [heap EXCEPT !.hashes[child].parent = to]
  /\ last' = NothingCalled
  /\ UNCHANGED stores

DetachHash(child) ==
  /\ last.result # Fatal
  /\ heap.hashes[child].parent # NoHash
  /\ heap' = [heap EXCEPT !.hashes[child].parent = NoHash]
  /\ last' = NothingCalled
  /\ UNCHANGED stores

NamesNext ==
  \/ SetConfig
  \/ AssignDotted
  \/ \E child, to \in Tables : AttachHash(child, to)
  \/ \E child \in Tables : DetachHash(child)

NamesSpec == NamesInit /\ [][NamesNext]_namesVars

-----------------------------------------------------------------------------
\* The shape of the state.
NamesTypeOK ==
  /\ Tables \subseteq DOMAIN heap.hashes /\ DOMAIN heap.hashes \subseteq Hashes
  /\ DOMAIN heap.lists \subseteq Lists
  /\ \A h \in DOMAIN heap.hashes : heap.hashes[h].parent \in Tables \union {NoHash}
  /\ stores \in 0..MaxStores

\* A list is asked for a name that is no number on the way to this one.
AsksList ==
  \E i \in 1..Len(last.path) - 1 :
    /\ ~HasIndex(last.path[i + 1])
    /\ \E v \in Finds(heap, last.hash, last.path[1]) :
        \E w \in Along(heap, v, SubSeq(last.path, 2, i)) : w.type = "list"

\* What is stored under a dotted name is what the name has from then on, through whatever
\* hashes, lists and parents it leads: a store that did not throw an error is read back
\* (hash.c:305 by hash.c:260; the dots of a template by themselves).
ReadsBack ==
  last.call # "none" /\ last.result = last.value /\ ~AsksList =>
    {last.value} = IF last.call = "set" THEN FetchDotted(heap, last.hash, last.path)
                   ELSE Expression(heap, last.hash, last.path)

\* A store that throws an error has changed nothing, although it makes hashes on its way:
\* none is made before the last value that can refuse (hash.c:325).
FailedStoresNothing ==
  [][last'.call # "none" /\ Failed(last'.result)
      => heap'.hashes = heap.hashes /\ Restrict(heap'.lists, DOMAIN heap.lists) = heap.lists]_namesVars

\* A store changes what no other name has that leads neither through this one nor to it.
\* The code does not keep it: the names of the slots are freed (hash.c:344).
Apart(p, q) == ~IsPrefix(p, q) /\ ~IsPrefix(q, p)
OthersStay ==
  [][\A path \in Paths :
      last'.call # "none" /\ Apart(path, last'.path)
        => LET had == FetchDotted(heap, last'.hash, path)
           IN (\A v \in had : IsDefined(v) /\ ~Failed(v)) => FetchDotted(heap', last'.hash, path) = had]_namesVars

\* What a hash has is not changed by a store into another that defers to it: its values
\* are masked (tests/core/hemp.c:66). The code does not keep it: the nodes are looked for
\* in the parents, and the value is stored where they are found (hash.c:327).
ParentsStay ==
  [][last'.call # "none" /\ heap.hashes[last'.hash].parent # NoHash
      => LET parent == heap.hashes[last'.hash].parent
         IN \A path \in Paths : FetchDotted(heap', parent, path) = FetchDotted(heap, parent, path)]_namesVars

\* A store that returns the value has stored it. The code does not keep it: a list ignores
\* names that are no numbers, and what is below them.
StoresOrThrows ==
  last.call = "set" /\ last.result = last.value => last.value \in FetchDotted(heap, last.hash, last.path)
=============================================================================
