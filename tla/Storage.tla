------------------------------- MODULE Storage ------------------------------
(***************************************************************************)
(* The temporary values of a context: texts, lists and code that runtime   *)
(* functions take from the pools of a context, write to, and leave for the *)
(* context to release when it is freed.  Nothing gives an item back before.*)
(*                                                                         *)
(* An item is known by its address: the pool, the slab it is in (slabs are *)
(* numbered in the order they were allocated) and its place there.  The    *)
(* memory of a text is the sequence `cells', and `size' is what was asked  *)
(* of malloc() for it; no memory is size 0.  A cell that was allocated and *)
(* not written is Junk.  Writing past the end of the memory is shown as    *)
(* cells that are more than its size.  Likewise for the items of a list.   *)
(*                                                                         *)
(* Two variables are history: `meant', the sequence that each text or list *)
(* should hold given the calls that were made, and `freed', what the last  *)
(* release of a context freed, each block with the place in the list of    *)
(* the slab where it was found.                                            *)
(***************************************************************************)
EXTENDS Integers, FiniteSets, SequencesExt

CONSTANTS
  Letter,     \* the characters that callers write
  Word,       \* the strings that callers write: sequences of characters
  Value,      \* the values that callers put in lists
  Sizes,      \* the room that callers ask for a text
  Offset,     \* the places at which callers insert and store
  FirstSize,  \* HEMP_TMP_POOL_SIZE
  Nul, Junk,
  Missing, Nothing,
  MaxLength,  \* bound: the length of all texts and lists together
  MaxSize     \* bound: that and the number of temporaries together

Pools == {"text", "list", "code"}

ASSUME StorageAssumption ==
  /\ Word \subseteq Seq(Letter) /\ Nul \notin Letter /\ Junk \notin Letter /\ Nul # Junk
  /\ Junk \notin Value /\ Missing # Junk /\ Nothing # Junk
  /\ Offset \subseteq Int /\ Sizes \subseteq Nat
  /\ FirstSize \in Nat \ {0} /\ MaxSize \in Nat
  /\ MaxLength \in Nat /\ MaxLength <= 16384  \* what hemp_list_grow() can double in 16 bits

VARIABLES
  open,    \* there is a context
  pool,    \* its pools
  text,    \* the texts at the addresses taken from the text pool
  list,    \* the lists at those taken from the list pool
  code,    \* whether the code at an address has a prototype
  heap,    \* the blocks of memory that are allocated for all of these
  meant,
  freed

storageVars == <<open, pool, text, list, code, heap, meant, freed>>

-----------------------------------------------------------------------------
(***************************************************************************)
(* Memory.                                                                 *)
(***************************************************************************)
\* The function f with v at x as well.
With(f, x, v) == [y \in DOMAIN f \union {x} |-> IF y = x THEN v ELSE f[y]]

Fresh(n) == [i \in 1..n |-> Junk]

\* Write the sequence w from offset on: what is past the end is written too.
Write(cells, offset, w) ==
  [i \in 1..Max({Len(cells), offset + Len(w)}) |->
     IF i \in offset + 1..offset + Len(w) THEN w[i - offset]
     ELSE IF i <= Len(cells) THEN cells[i] ELSE Junk]

\* realloc() keeps what fits, and what is new is not written.
Resized(cells, n) == [i \in 1..n |-> IF i <= Len(cells) THEN cells[i] ELSE Junk]

(***************************************************************************)
(* Texts (type/text.c).                                                    *)
(***************************************************************************)
\* hemp_text_init_size: room for the size and a NUL, which is not written.
NewText(size) ==
  IF size = 0 THEN [cells |-> <<>>, size |-> 0, capacity |-> 0, length |-> 0]
  ELSE [cells |-> Fresh(size + 1), size |-> size + 1, capacity |-> size, length |-> 0]

\* Mutant: the NUL is not counted.
CapacityShort(t, length) ==
  IF t.capacity < length
  THEN [t EXCEPT !.cells = Resized(@, length), !.size = length, !.capacity = length]
  ELSE t

\* hemp_text_capacity: make room for length characters and the NUL.
Capacity(t, length) ==
  IF t.capacity < length + 1
  THEN [t EXCEPT !.cells = Resized(@, length + 1), !.size = length + 1, !.capacity = length]
  ELSE t

\* End a text, whose characters are written, after length of them.
Ended(t, length) ==
  [t EXCEPT !.cells = Write(@, length, <<Nul>>), !.length = length]

Characters(t) == SubSeq(t.cells, 1, t.length)

\* hemp_text_append_stringn, and hemp_text_append_text for those of a text.
Appended(t, w) ==
  LET n == t.length + Len(w)
      r == Capacity(t, n)
  IN  Ended([r EXCEPT !.cells = Write(@, t.length, w)], n)

\* The place of an insertion, when it is not an append.
Place(t, offset) == IF offset < 0 THEN Max({0, offset + t.length}) ELSE offset

\* hemp_text_insert_string: move what follows, write the string in between.
Insert(t, offset, w) ==
  IF offset >= 0 /\ (offset > t.length \/ t.length = 0) THEN Appended(t, w)
  ELSE LET n == t.length + Len(w)
           r == Capacity(t, n)
           p == Place(t, offset)
           rest == SubSeq(r.cells, p + 1, t.length)
       IN  Ended([r EXCEPT !.cells = Write(Write(@, p + Len(w), rest), p, w)], n)

\* hemp_text_replace_string.
Replace(t, w) ==
  Ended([Capacity(t, Len(w)) EXCEPT !.cells = Write(@, 0, w \o <<Nul>>)], Len(w))

\* hemp_text_truncate.
Truncate(t, length) == IF t.length > length THEN Ended(t, length) ELSE t

(***************************************************************************)
(* Lists (type/list.c).                                                    *)
(***************************************************************************)
NewList == [items |-> <<>>, size |-> 0, capacity |-> 0, length |-> 0]

\* hemp_list_grow: double the capacity, or 1, until it is large enough.  The
\* sizes are 16 bits there: Doubled has what can be reached before they wrap.
Doubled(n) ==
  LET m == Max({n, 1})
  IN  {d \in {m, 2 * m, 4 * m, 8 * m, 16 * m, 32 * m, 64 * m, 128 * m, 256 * m, 512 * m,
              1024 * m, 2048 * m, 4096 * m, 8192 * m, 16384 * m, 32768 * m} : d < 65536}

Grow(l, least) ==
  LET n == Min({d \in Doubled(l.capacity) : d >= least})
  IN  IF n <= l.capacity THEN l
      ELSE [l EXCEPT !.items = Resized(@, n), !.size = n, !.capacity = n]

\* The items of v, in the places after those the list has.
Add(l, v) == [l EXCEPT !.items = Write(@, l.length, v), !.length = @ + Len(v)]

Items(l) == SubSeq(l.items, 1, l.length)

Push(l, v) ==
  Add(IF l.length = l.capacity THEN Grow(l, l.capacity + 1) ELSE l, <<v>>)

\* hemp_list_push_list: the two lists may be one.
PushList(l, m) ==
  Add(IF l.length + m.length > l.capacity THEN Grow(l, l.length + m.length) ELSE l, Items(m))

Shift(l) ==
  IF l.length < 1 THEN l
  ELSE [l EXCEPT !.items = Write(@, 0, SubSeq(l.items, 2, l.length)), !.length = @ - 1]

Pop(l) == IF l.length < 1 THEN l ELSE [l EXCEPT !.length = @ - 1]

Padding(n, x) == [i \in 1..n |-> x]

\* hemp_list_resize: a shorter list keeps its memory.
Resize(l, n) ==
  IF n > l.length THEN Add(Grow(l, n), Padding(n - l.length, Missing))
  ELSE [l EXCEPT !.length = n]

\* Mutant: the items between the end of the list and the index are not set.
StoreUnfilled(l, index, v) ==
  LET r == IF index >= l.capacity THEN Grow(l, index + 1) ELSE l
  IN  IF index < 0 THEN l
      ELSE [r EXCEPT !.items = Write(@, index, <<v>>), !.length = Max({@, index + 1})]

\* hemp_type_list_store.
StoreAt(l, index, v) ==
  LET r == IF index >= l.capacity THEN Grow(l, index + 1) ELSE l
      f == IF index > r.length THEN Add(r, Padding(index - r.length, Nothing)) ELSE r
  IN  IF index < 0 THEN l
      ELSE [f EXCEPT !.items = Write(@, index, <<v>>), !.length = Max({@, index + 1})]

\* hemp_type_list_fetch.
FetchAt(l, index) == IF index < 0 \/ index >= l.length THEN Missing ELSE l.items[index + 1]

(***************************************************************************)
(* What the operations mean: the same on sequences, without memory.        *)
(***************************************************************************)
Spliced(s, offset, w) ==
  LET p == IF offset > Len(s) THEN Len(s)
           ELSE IF offset >= 0 THEN offset
           ELSE IF Len(s) + offset >= 0 THEN Len(s) + offset ELSE 0
  IN  SubSeq(s, 1, p) \o w \o SubSeq(s, p + 1, Len(s))

Longer(s, n, x) == s \o Padding(IF n > Len(s) THEN n - Len(s) ELSE 0, x)
Sized(s, n) == SubSeq(Longer(s, n, Missing), 1, n)

Stored(s, index, v) ==
  IF index < 0 THEN s ELSE [Longer(s, index + 1, Nothing) EXCEPT ![index + 1] = v]

-----------------------------------------------------------------------------
(***************************************************************************)
(* Pools and slabs (pool.c, slab.c).  The slabs are a list, the newest     *)
(* first; `next' is the address of the item to hand out.                   *)
(***************************************************************************)
NewPool == [slabs |-> <<[id |-> 1, size |-> FirstSize]>>, next |-> <<1, 0>>,
            used |-> 0, capacity |-> FirstSize]

\* Mutant: the slabs there are get lost.
GrowLost(p) ==
  LET slab == [id |-> Len(p.slabs) + 1, size |-> p.capacity]
  IN  [p EXCEPT !.slabs = <<slab>>, !.next = <<slab.id, 0>>, !.capacity = @ * 2]

\* hemp_pool_grow: a slab as large as all there is, at the head of the list.
GrowPool(p) ==
  LET slab == [id |-> Len(p.slabs) + 1, size |-> p.capacity]
  IN  [p EXCEPT !.slabs = <<slab>> \o @, !.next = <<slab.id, 0>>, !.capacity = @ * 2]

Ready(p) == IF p.used = p.capacity THEN GrowPool(p) ELSE p

\* hemp_pool_take, which hands out Ready(p).next.
Taken(p) == [Ready(p) EXCEPT !.next = <<@[1], @[2] + 1>>, !.used = @ + 1]

\* hemp_pool_each: the items of a slab until its end or the next item.
Visited(p, slab) ==
  {<<slab.id, k>> : k \in {k \in 0..slab.size - 1 : \A h \in 0..k : <<slab.id, h>> # p.next}}

\* The blocks of memory, and those that the slabs of a pool are in.
Block(k, address) == <<k, "item", address>>
Slab(k, id) == <<k, "slab", <<id, 0>>>>
Slabs(k, p) == {Slab(k, p.slabs[i].id) : i \in DOMAIN p.slabs}

Addresses(k) == CASE k = "text" -> DOMAIN text [] k = "list" -> DOMAIN list [] OTHER -> DOMAIN code
Count == Cardinality(DOMAIN text) + Cardinality(DOMAIN list) + Cardinality(DOMAIN code)

\* The length of all the texts and lists.
Length == MapThenSumSet(LAMBDA i : Len(meant[i]), DOMAIN meant)

\* The item at the address has memory of its own to be released.
Owns(k, address) ==
  CASE k = "text" -> text[address].size > 0
    [] k = "list" -> list[address].size > 0
    [] OTHER -> code[address]

-----------------------------------------------------------------------------
StorageInit ==
  /\ open = FALSE
  /\ pool = [k \in Pools |-> NewPool]
  /\ text = <<>> /\ list = <<>> /\ code = <<>> /\ meant = <<>>
  /\ heap = {} /\ freed = {}

\* hemp_context_new.
New ==
  /\ ~ open
  /\ open' = TRUE
  /\ pool' = [k \in Pools |-> NewPool]
  /\ heap' = UNION {Slabs(k, NewPool) : k \in Pools}
  /\ freed' = {}
  /\ UNCHANGED <<text, list, code, meant>>

\* Take an item from pool k, and keep the slab that was needed for it.
Take(k, blocks) ==
  /\ open /\ Count + Length < MaxSize
  /\ pool' = [pool EXCEPT ![k] = Taken(@)]
  /\ heap' = heap \union Slabs(k, Taken(pool[k])) \union blocks

Address(k) == Ready(pool[k]).next

\* hemp_context_tmp_text_size.
TakeText ==
  \E size \in Sizes :
    LET a == Address("text")
    IN  /\ Take("text", IF size = 0 THEN {} ELSE {Block("text", a)})
        /\ text' = With(text, a, NewText(size))
        /\ meant' = With(meant, <<"text", a>>, <<>>)
        /\ UNCHANGED <<open, list, code, freed>>

\* hemp_context_tmp_list.
TakeList ==
  LET a == Address("list")
  IN  /\ Take("list", {})
      /\ list' = With(list, a, NewList)
      /\ meant' = With(meant, <<"list", a>>, <<>>)
      /\ UNCHANGED <<open, text, code, freed>>

\* hemp_context_tmp_code.
TakeCode ==
  LET a == Address("code")
  IN  /\ Take("code", {})
      /\ code' = With(code, a, FALSE)
      /\ UNCHANGED <<open, text, list, meant, freed>>

\* hemp_code_proto, which makes the prototype when there is none.
CodeProto(a) ==
  /\ open /\ a \in DOMAIN code
  /\ code' = [code EXCEPT ![a] = TRUE]
  /\ heap' = heap \union {Block("code", a)}
  /\ UNCHANGED <<open, pool, text, list, meant, freed>>

\* What a text or a list should hold from now on, within the bounds.
Means(k, a, w) ==
  /\ Len(w) <= MaxLength
  /\ meant' = [meant EXCEPT ![<<k, a>>] = w]
  /\ Length' <= MaxLength /\ Count + Length' <= MaxSize

\* The text at the address becomes t, which should hold the sequence w.
SetText(a, t, w) ==
  /\ Means("text", a, w)
  /\ text' = [text EXCEPT ![a] = t]
  /\ heap' = IF t.size = 0 THEN heap ELSE heap \union {Block("text", a)}
  /\ UNCHANGED <<open, pool, list, code, freed>>

SetList(a, l, w) ==
  /\ Means("list", a, w)
  /\ list' = [list EXCEPT ![a] = l]
  /\ heap' = IF l.size = 0 THEN heap ELSE heap \union {Block("list", a)}
  /\ UNCHANGED <<open, pool, text, code, freed>>

MeantText(a) == meant[<<"text", a>>]
MeantList(a) == meant[<<"list", a>>]

AppendString(a, w) == SetText(a, Appended(text[a], w), MeantText(a) \o w)
AppendText(a, b) ==
  SetText(a, Appended(text[a], Characters(text[b])), MeantText(a) \o MeantText(b))
InsertString(a, offset, w) ==
  SetText(a, Insert(text[a], offset, w), Spliced(MeantText(a), offset, w))
ReplaceString(a, w) == SetText(a, Replace(text[a], w), w)
TruncateText(a, n) ==
  n < text[a].length /\ SetText(a, Truncate(text[a], n), SubSeq(MeantText(a), 1, n))

UseText ==
  \E a \in DOMAIN text :
    \/ \E w \in Word : AppendString(a, w) \/ ReplaceString(a, w)
    \/ \E b \in DOMAIN text : AppendText(a, b)
    \/ \E w \in Word, offset \in Offset : InsertString(a, offset, w)
    \/ \E n \in 0..MaxLength : TruncateText(a, n)

PushValue(a, v) == SetList(a, Push(list[a], v), Append(MeantList(a), v))
PushValues(a, b) == SetList(a, PushList(list[a], list[b]), MeantList(a) \o MeantList(b))
ShiftValue(a) == list[a].length > 0 /\ SetList(a, Shift(list[a]), Tail(MeantList(a)))
PopValue(a) == list[a].length > 0 /\ SetList(a, Pop(list[a]), Front(MeantList(a)))
ResizeList(a, n) == n <= MaxLength /\ SetList(a, Resize(list[a], n), Sized(MeantList(a), n))
StoreItem(a, index, v) ==
  index < MaxLength /\ SetList(a, StoreAt(list[a], index, v), Stored(MeantList(a), index, v))

UseList ==
  \E a \in DOMAIN list :
    \/ \E v \in Value : PushValue(a, v) \/ \E index \in Offset : StoreItem(a, index, v)
    \/ \E b \in DOMAIN list : PushValues(a, b)
    \/ ShiftValue(a) \/ PopValue(a)
    \/ \E n \in 0..MaxLength : ResizeList(a, n)

\* What freeing pool k frees: the memory of every item that hemp_pool_each()
\* visits in each slab of the list, whatever is there, and the slabs.
Cleaned(k) ==
  LET p == pool[k]
      Of(i) == {a \in Visited(p, p.slabs[i]) : a \in Addresses(k) => Owns(k, a)}
      Found(i) == {Block(k, a) : a \in Of(i)} \union {Slab(k, p.slabs[i].id)}
  IN  UNION {{[slab |-> i, block |-> b] : b \in Found(i)} : i \in DOMAIN p.slabs}

Blocks(f) == {x.block : x \in f}

\* hemp_context_free.
Free ==
  /\ open
  /\ open' = FALSE
  /\ freed' = UNION {Cleaned(k) : k \in Pools}
  /\ heap' = heap \ Blocks(freed')
  /\ text' = <<>> /\ list' = <<>> /\ code' = <<>> /\ meant' = <<>>
  /\ pool' = [k \in Pools |-> NewPool]

StorageNext ==
  \/ New \/ Free
  \/ TakeText \/ TakeList \/ TakeCode
  \/ UseText \/ UseList
  \/ \E a \in DOMAIN code : CodeProto(a)

StorageSpec == StorageInit /\ [][StorageNext]_storageVars

-----------------------------------------------------------------------------
(***************************************************************************)
(* Properties.                                                             *)
(***************************************************************************)
\* The character, the sequence and the memory of every text and list.
StorageTypeOK ==
  /\ open \in BOOLEAN
  /\ \A a \in DOMAIN text : text[a].capacity >= text[a].length
  /\ \A a \in DOMAIN list : list[a].capacity >= list[a].length

\* A temporary holds what was put into it, however it got and moved its
\* memory: no cell that was never written shows, none that was cut off comes
\* back, and no operation changes another temporary (type/text.c, type/list.c).
HoldsWhatWasPut ==
  /\ \A a \in DOMAIN text : Characters(text[a]) = MeantText(a)
  /\ \A a \in DOMAIN list :
       /\ Items(list[a]) = MeantList(a)
       /\ \A i \in Offset : FetchAt(list[a], i) =
            IF i \in 0..Len(MeantList(a)) - 1 THEN MeantList(a)[i + 1] ELSE Missing

\* No pool hands out an item that is in use, nor one behind the end of its
\* slab, however the slabs were added (pool.c:65-113).
NextIsFree ==
  \A k \in Pools :
    /\ Address(k) \notin Addresses(k)
    /\ Address(k)[2] < Ready(pool[k]).slabs[1].size

\* Nothing is written past the end of the memory that was asked for, and a
\* text that has characters is a C string: strtod() and strcmp() read it up to
\* a NUL that is there, and that is the first (text.c:118-129, 190-231).
StaysInMemory ==
  /\ \A a \in DOMAIN text :
       /\ Len(text[a].cells) = text[a].size
       /\ text[a].length > 0 =>
            /\ text[a].cells[text[a].length + 1] = Nul
            /\ Nul \notin Range(Characters(text[a]))
  /\ \A a \in DOMAIN list : Len(list[a].items) = list[a].size

\* Freeing a context frees every block that its temporaries and its pools came
\* to, each of them once, and nothing else (context.c:62-66, pool.c:116-155).
ReleasedOnce ==
  [][Free => /\ heap' = {} /\ Blocks(freed') = heap
             /\ \A f, g \in freed' : f.block = g.block => f = g]_storageVars
=============================================================================
