------------------------------- MODULE Ptree --------------------------------
(***************************************************************************)
(* The prefix tree in which grammars keep their operators and tagsets      *)
(* their tags: a ternary search tree whose nodes hold the rest of a key    *)
(* for as long as no other key branches off.  Storing a key splits the     *)
(* nodes it passes.  The scanners ask the tree for the longest key at the  *)
(* start of what is left of a text.                                        *)
(*                                                                         *)
(* A text is a sequence of characters, and the NUL that ends it is 0.  A   *)
(* key is its own payload.  Each turn of the loops of the code is a step.  *)
(***************************************************************************)
EXTENDS Integers, Sequences, FiniteSets, SequencesExt

CONSTANTS
  Char,     \* the characters
  RootOf,   \* RootOf[c]: the root of the keys that start with c
  Key,      \* the keys that may be stored
  Source,   \* the texts that may be matched
  MaxKeys,  \* the number of keys a tree is given at most
  Null

Roots == {RootOf[c] : c \in Char}
Text == Key \union Source

ASSUME PtreeAssumption ==
  /\ Char \subseteq Nat \ {0}
  /\ RootOf \in [Char -> Nat]
  /\ Key \subseteq Seq(Char) \ {<<>>}
  /\ Source \subseteq Seq(Char) \ {<<>>}
  /\ MaxKeys \in Nat
  /\ Null \notin Key

VARIABLES
  nodes,   \* the nodes, in the order in which the pool gave them out
  roots,   \* the node of every root, 0 if it has none
  keys,    \* the keys that were stored
  call     \* the call under way, Null between calls

vars == <<nodes, roots, keys, call>>

First(s) == IF s = <<>> THEN 0 ELSE Head(s)

\* hemp_ptree_node.
Node(key, value) == [key |-> key, value |-> value, before |-> 0, equal |-> 0, after |-> 0]

Root(text) == roots[RootOf[Head(text)]]
NewNode == Len(nodes) + 1
At(op) == call # Null /\ call.op = op /\ call.stage = "compare"
Current == nodes[call.node]

\* The characters compared are the same, or the key's comes before or after.
Same == First(call.src) = First(call.cmp)
Earlier == First(call.src) < First(call.cmp)
Later == First(call.src) > First(call.cmp)

\* The call goes on, or returns v.
Begin(op, text) ==
  [op |-> op, stage |-> "compare", text |-> text, node |-> Root(text), src |-> text,
   cmp |-> IF Root(text) = 0 THEN <<>> ELSE nodes[Root(text)].key, value |-> Null,
   known |-> text \in keys]
Go(n, src, tree) == [call EXCEPT !.node = n, !.src = src, !.cmp = tree[n].key]
Return(v) == call' = [call EXCEPT !.stage = "done", !.value = v]

-----------------------------------------------------------------------------
Init ==
  /\ nodes = <<>>
  /\ roots = [r \in Roots |-> 0]
  /\ keys = {}
  /\ call = Null

(***************************************************************************)
(* hemp_ptree_store.                                                       *)
(***************************************************************************)
Store(k) ==
  /\ call = Null /\ Cardinality(keys) < MaxKeys
  /\ call' = Begin("store", k)
  /\ UNCHANGED <<nodes, roots, keys>>

\* The root is not in use.
StoreRoot ==
  /\ At("store") /\ call.node = 0
  /\ nodes' = Append(nodes, Node(call.text, call.text))
  /\ roots' = [roots EXCEPT ![RootOf[Head(call.text)]] = NewNode]
  /\ keys' = keys \union {call.text}
  /\ Return(call.text)

Storing == At("store") /\ call.node # 0
Ends == Tail(call.src) = <<>>

\* Mutant: the key of the node may end as well.
StoreShortAny ==
  /\ Storing /\ Same /\ Ends
  /\ Current.value # Null /\ Current.equal = 0
  /\ nodes' = Append([nodes EXCEPT ![call.node].equal = NewNode,
                                   ![call.node].value = call.text],
                     Node(Tail(call.cmp), Current.value))
  /\ keys' = keys \union {call.text}
  /\ Return(call.text)
  /\ UNCHANGED roots

\* Mutant: a node that keys branch off from is split again.
StoreShortOver ==
  /\ Storing /\ Same /\ Ends
  /\ Current.value # Null /\ Tail(call.cmp) # <<>>
  /\ nodes' = Append([nodes EXCEPT ![call.node].equal = NewNode,
                                   ![call.node].value = call.text],
                     Node(Tail(call.cmp), Current.value))
  /\ keys' = keys \union {call.text}
  /\ Return(call.text)
  /\ UNCHANGED roots

\* The key ends inside the key of a node: the rest becomes a node.
StoreShort ==
  /\ Storing /\ Same /\ Ends
  /\ Current.value # Null /\ Tail(call.cmp) # <<>> /\ Current.equal = 0
  /\ nodes' = Append([nodes EXCEPT ![call.node].equal = NewNode,
                                   ![call.node].value = call.text],
                     Node(Tail(call.cmp), Current.value))
  /\ keys' = keys \union {call.text}
  /\ Return(call.text)
  /\ UNCHANGED roots

\* The key is there already.
StoreDuplicate ==
  /\ Storing /\ Same /\ Ends
  /\ Current.value # Null /\ (Tail(call.cmp) = <<>> \/ Current.equal # 0)
  /\ Return(Null)
  /\ UNCHANGED <<nodes, roots, keys>>

\* Its node has no payload yet.
StoreValue ==
  /\ Storing /\ Same /\ Ends /\ Current.value = Null
  /\ nodes' = [nodes EXCEPT ![call.node].value = call.text]
  /\ keys' = keys \union {call.text}
  /\ Return(call.text)
  /\ UNCHANGED roots

StoreEqual ==
  /\ Storing /\ Same /\ ~ Ends /\ Current.equal # 0
  /\ call' = Go(Current.equal, Tail(call.src), nodes)
  /\ UNCHANGED <<nodes, roots, keys>>

\* Both go on: the rest of the node's key becomes a node, with its payload.
StoreSplit ==
  /\ Storing /\ Same /\ ~ Ends /\ Current.equal = 0 /\ Tail(call.cmp) # <<>>
  /\ nodes' = Append([nodes EXCEPT ![call.node].equal = NewNode,
                                   ![call.node].value = Null],
                     Node(Tail(call.cmp), Current.value))
  /\ call' = Go(NewNode, Tail(call.src), nodes')
  /\ UNCHANGED <<roots, keys>>

\* The key extends the node's key.
StoreExtend ==
  /\ Storing /\ Same /\ ~ Ends /\ Current.equal = 0 /\ Tail(call.cmp) = <<>>
  /\ nodes' = Append([nodes EXCEPT ![call.node].equal = NewNode],
                     Node(Tail(call.src), call.text))
  /\ keys' = keys \union {call.text}
  /\ Return(call.text)
  /\ UNCHANGED roots

\* The key branches off, to a node that exists or to a new one.
StoreAside(side) ==
  /\ Storing /\ (IF side = "before" THEN Earlier ELSE Later)
  /\ IF Current[side] # 0
     THEN /\ call' = Go(Current[side], call.src, nodes)
          /\ UNCHANGED <<nodes, keys>>
     ELSE /\ nodes' = Append([nodes EXCEPT ![call.node][side] = NewNode],
                             Node(call.src, call.text))
          /\ keys' = keys \union {call.text}
          /\ Return(call.text)
  /\ UNCHANGED roots

(***************************************************************************)
(* hemp_ptree_fetch.                                                       *)
(***************************************************************************)
Fetch(k) ==
  /\ call = Null
  /\ call' = Begin("fetch", k)
  /\ UNCHANGED <<nodes, roots, keys>>

Fetching == At("fetch") /\ call.node # 0

\* Mutant: the key of a node is the whole of its text.
FetchSameWhole ==
  /\ Fetching /\ Same
  /\ IF ~ Ends
     THEN call' = IF Current.equal # 0
                  THEN Go(Current.equal, Tail(call.src), nodes)
                  ELSE [call EXCEPT !.src = Tail(@), !.cmp = Tail(@)]
     ELSE Return(IF Tail(call.cmp) # <<>> THEN Null ELSE Current.value)
  /\ UNCHANGED <<nodes, roots, keys>>

\* One turn of the loop when the characters are the same.
FetchSame ==
  /\ Fetching /\ Same
  /\ IF ~ Ends
     THEN call' = IF Current.equal # 0
                  THEN Go(Current.equal, Tail(call.src), nodes)
                  ELSE [call EXCEPT !.src = Tail(@), !.cmp = Tail(@)]
     ELSE Return(IF Tail(call.cmp) # <<>> /\ Current.equal = 0
                 THEN Null ELSE Current.value)
  /\ UNCHANGED <<nodes, roots, keys>>

\* The way to another node when the characters differ, 0 if there is none.
Aside == IF Earlier THEN Current.before ELSE Current.after

\* Mutant: the key of the other node is compared, and the node is not left.
FetchAsideStays ==
  /\ Fetching /\ ~ Same
  /\ IF Aside # 0 THEN call' = [call EXCEPT !.cmp = nodes[Aside].key] ELSE Return(Null)
  /\ UNCHANGED <<nodes, roots, keys>>

FetchAside ==
  /\ Fetching /\ ~ Same
  /\ IF Aside # 0 THEN call' = Go(Aside, call.src, nodes) ELSE Return(Null)
  /\ UNCHANGED <<nodes, roots, keys>>

FetchNone ==
  /\ At("fetch") /\ call.node = 0
  /\ Return(Null)
  /\ UNCHANGED <<nodes, roots, keys>>

(***************************************************************************)
(* hemp_pnode_match_more, from the root of the first character.            *)
(***************************************************************************)
Match(s) ==
  /\ call = Null /\ Root(s) # 0
  /\ call' = Begin("match", s)
  /\ UNCHANGED <<nodes, roots, keys>>

MatchEqual ==
  /\ At("match") /\ Same /\ Current.equal # 0
  /\ call' = [Go(Current.equal, Tail(call.src), nodes) EXCEPT !.value = Current.value]
  /\ UNCHANGED <<nodes, roots, keys>>

\* Inside the key of a node, or at its end.
MatchMore ==
  /\ At("match") /\ Same /\ Current.equal = 0
  /\ call' = IF Tail(call.cmp) # <<>>
             THEN [call EXCEPT !.src = Tail(@), !.cmp = Tail(@)]
             ELSE [call EXCEPT !.src = Tail(@), !.value = Current.value, !.stage = "done"]
  /\ UNCHANGED <<nodes, roots, keys>>

\* Mutant: what was found before the end is forgotten.
MatchAsideNone ==
  /\ At("match") /\ ~ Same
  /\ IF Aside # 0 THEN call' = Go(Aside, call.src, nodes) ELSE Return(Null)
  /\ UNCHANGED <<nodes, roots, keys>>

MatchAside ==
  /\ At("match") /\ ~ Same
  /\ IF Aside # 0 THEN call' = Go(Aside, call.src, nodes) ELSE Return(call.value)
  /\ UNCHANGED <<nodes, roots, keys>>

\* The caller has its answer.
Done == call # Null /\ call.stage = "done"

Leave ==
  /\ Done
  /\ call' = Null
  /\ UNCHANGED <<nodes, roots, keys>>

-----------------------------------------------------------------------------
Step ==
  \/ StoreRoot \/ StoreShort \/ StoreDuplicate \/ StoreValue
  \/ StoreEqual \/ StoreSplit \/ StoreExtend \/ StoreAside("before") \/ StoreAside("after")
  \/ FetchSame \/ FetchAside \/ FetchNone
  \/ MatchEqual \/ MatchMore \/ MatchAside
  \/ Leave

Next ==
  \/ \E k \in Key : Store(k)
  \/ \E s \in Text : Fetch(s) \/ Match(s)
  \/ Step

Spec == Init /\ [][Next]_vars

\* A call runs to its end.
FairSpec == Spec /\ WF_vars(Step)

(***************************************************************************)
(* Properties.                                                             *)
(***************************************************************************)
Index == 0..Len(nodes)

\* Every part of the state has its type, and the rests of keys that nodes
\* hold are never empty.
TypeOK ==
  /\ \A i \in DOMAIN nodes :
       /\ nodes[i].key \in Seq(Char) \ {<<>>}
       /\ nodes[i].value \in keys \union {Null}
       /\ {nodes[i].before, nodes[i].equal, nodes[i].after} \subseteq Index
  /\ roots \in [Roots -> Index]
  /\ keys \subseteq Key
  /\ call # Null =>
       /\ call.op \in {"store", "fetch", "match"} /\ call.stage \in {"compare", "done"}
       /\ call.text \in Text /\ call.node \in Index /\ IsSuffix(call.src, call.text)
       /\ call.value \in keys \union {Null}

\* A key is refused if and only if it was stored before: no shape of the tree
\* makes it mistake another key, or a place where keys branch, for it
\* (ptree.c:108-126).
StoresNewKeys ==
  Done /\ call.op = "store" => (call.value = Null <=> call.known)

\* What was stored is found, however the nodes were split since.
FetchFinds ==
  Done /\ call.op = "fetch" /\ call.text \in keys => call.value = call.text

Beginnings(s) == {k \in keys : IsPrefix(k, s)}
Longest(s) ==
  IF Beginnings(s) = {} THEN Null
  ELSE CHOOSE k \in Beginnings(s) : \A j \in Beginnings(s) : Len(j) <= Len(k)

Exact == call.value = Longest(call.text) /\ (call.value # Null => call.text = call.value \o call.src)

\* When every beginning of a key is a key, as for "<", "<=" and "<=>", the
\* longest key that the text starts with is matched, and the scanner is left
\* right behind it (ptree.c:237-285), in whatever order the keys were stored.
ClosedMatchesLongest ==
  Done /\ call.op = "match" /\ (\A k \in keys : \A n \in 1..Len(k) : SubSeq(k, 1, n) \in keys)
    => Exact

\* The comment at ptree.c:254 says that the payload passed on the way to a
\* longer key is kept, not to "trash previous match": some key is matched if
\* the text starts with one.
MatchKept ==
  Done /\ call.op = "match" /\ Beginnings(call.text) # {} => call.value # Null

\* grammar.c:75 says that the scanner uses the tree to "match longest tokens":
\* so what it matches is what the text starts with.
MatchIsPrefix ==
  Done /\ call.op = "match" /\ call.value # Null => IsPrefix(call.value, call.text)

\* tests/core/ptree.c:104 says of a key that was not stored that there is
\* "no entry" for it.
FetchNothingElse ==
  Done /\ call.op = "fetch" /\ call.text \notin keys => call.value = Null

\* Every call comes to its end: no chain of nodes leads back to itself.
CallsEnd == call # Null ~> call = Null
=============================================================================
