--------------------------- MODULE Library_proofs ---------------------------
(***************************************************************************)
(* What a source is scanned with: the prefix trees that the tokens of      *)
(* tags and operators are found in, the tables that are made of them, and  *)
(* the accounts of the memory that all of it takes.                        *)
(*                                                                         *)
(* Part one, about Ptree: a tree finds a key if and only if it was stored, *)
(* and finds the longest of the stored keys that a text starts with, for   *)
(* any characters, roots and keys.  The argument gives every node a place  *)
(* (Ghost): how many characters come before it, which they are, and how    *)
(* many of the stored keys go through it.                                  *)
(*                                                                         *)
(* Part two, about Tables: no block of memory behind a scan is lost or     *)
(* freed twice, and what sources are scanned with is what their dialect    *)
(* asked for, for any grammars and dialects, whatever step throws.  It     *)
(* begins with memory alone: which blocks are owned by the grammars G, the *)
(* set of tags t and the errors E, and which ones L are left.  Each        *)
(* operation on memory keeps the account of them, and the actions are put  *)
(* together from these operations.  Then comes what the tables hold: a     *)
(* grammar that is made has the elements that its constructor adds, one    *)
(* that is being made has the first of them, and a set of tags has the     *)
(* first of its dialect's.  The allocator is taken to find memory: Room    *)
(* says that it does.                                                      *)
(*                                                                         *)
(* Part three, about Memory: the records of a build that debugs memory     *)
(* tell which blocks are allocated, and how large they are.                *)
(***************************************************************************)
EXTENDS Ptree, Tables, Memory, TLAPS, SequenceTheorems, WellFoundedInduction

-----------------------------------------------------------------------------
(***************************************************************************)
(* Sequences.                                                              *)
(***************************************************************************)
LEMMA HeadFirst ==
  ASSUME NEW S, NEW s \in Seq(S), s # <<>>
  PROVE  /\ Head(s) \in S /\ Head(s) = s[1] /\ Tail(s) \in Seq(S)
         /\ Len(s) \in Nat \ {0} /\ Len(Tail(s)) = Len(s) - 1
         /\ \A i \in 1..Len(s) - 1 : Tail(s)[i] = s[i + 1]
         /\ Tail(s) = <<>> <=> Len(s) = 1
<1>1. Len(s) \in Nat \ {0}  BY EmptySeq
<1>2. Head(s) = s[1]  OBVIOUS
<1>3. /\ Head(s) \in S /\ Tail(s) \in Seq(S) /\ Len(Tail(s)) = Len(s) - 1
      /\ \A i \in 1..Len(Tail(s)) : Tail(s)[i] = s[i + 1]
  BY HeadTailProperties
<1>4. Tail(s) = <<>> <=> Len(Tail(s)) = 0  BY <1>3, EmptySeq
<1> QED  BY <1>1, <1>2, <1>3, <1>4

\* A character goes over from what follows to what comes before.
LEMMA Shift ==
  ASSUME NEW S, NEW p \in Seq(S), NEW s \in Seq(S), s # <<>>
  PROVE  /\ Append(p, Head(s)) \in Seq(S)
         /\ Append(p, Head(s)) # <<>>
         /\ p \o s = Append(p, Head(s)) \o Tail(s)
         /\ Tail(s) = <<>> => p \o s = Append(p, Head(s))
         /\ SubSeq(p \o s, 1, Len(p) + 1) = Append(p, Head(s))
<1> DEFINE q == Append(p, Head(s))
<1>1. /\ Head(s) \in S /\ Head(s) = s[1] /\ Tail(s) \in Seq(S)
      /\ Len(s) \in Nat \ {0} /\ Len(Tail(s)) = Len(s) - 1
      /\ \A i \in 1..Len(s) - 1 : Tail(s)[i] = s[i + 1]
  BY HeadFirst
<1>2. q \in Seq(S) /\ Len(q) = Len(p) + 1 /\ Len(p) \in Nat
      /\ \A i \in 1..Len(p) + 1 : q[i] = IF i <= Len(p) THEN p[i] ELSE s[1]
  BY <1>1
<1>3. p \o s \in Seq(S) /\ Len(p \o s) = Len(p) + Len(s)
      /\ \A i \in 1..Len(p) + Len(s) : (p \o s)[i] = IF i <= Len(p) THEN p[i] ELSE s[i - Len(p)]
  BY ConcatProperties
<1> HIDE DEF q
<1>4. q \o Tail(s) \in Seq(S) /\ Len(q \o Tail(s)) = Len(q) + Len(Tail(s))
      /\ \A i \in 1..Len(q) + Len(Tail(s)) :
           (q \o Tail(s))[i] = IF i <= Len(q) THEN q[i] ELSE Tail(s)[i - Len(q)]
  BY <1>1, <1>2, ConcatProperties
<1>5. p \o s = q \o Tail(s)
  <2>1. Len(p \o s) = Len(q \o Tail(s))  BY <1>1, <1>2, <1>3, <1>4
  <2>2. ASSUME NEW i \in 1..Len(p \o s)  PROVE (p \o s)[i] = (q \o Tail(s))[i]
    <3>1. CASE i <= Len(p)  BY <1>1, <1>2, <1>3, <1>4, <3>1
    <3>2. CASE i = Len(p) + 1  BY <1>1, <1>2, <1>3, <1>4, <3>2
    <3>3. CASE i > Len(p) + 1
      <4>1. i - Len(q) \in 1..Len(s) - 1 /\ (i - Len(q)) + 1 = i - Len(p)  BY <1>1, <1>2, <1>3, <3>3
      <4>2. (q \o Tail(s))[i] = Tail(s)[i - Len(q)]  BY <1>1, <1>2, <1>3, <1>4, <3>3
      <4>3. (p \o s)[i] = s[i - Len(p)]  BY <1>1, <1>2, <1>3, <3>3
      <4> QED  BY <1>1, <4>1, <4>2, <4>3
    <3> QED  BY <1>2, <1>3, <3>1, <3>2, <3>3
  <2> QED  BY <1>3, <1>4, <2>1, <2>2, SeqEqual
<1>6. q # <<>>  BY <1>2, EmptySeq
<1>7. Tail(s) = <<>> => p \o s = q  BY <1>2, <1>5, ConcatEmptySeq
<1>8. SubSeq(p \o s, 1, Len(p) + 1) = q
  <2>1. \A i \in 1..Len(p) + 1 : (p \o s)[i] \in S  BY <1>1, <1>2, <1>3
  <2>2. /\ SubSeq(p \o s, 1, Len(p) + 1) \in Seq(S)
        /\ Len(SubSeq(p \o s, 1, Len(p) + 1)) = Len(p) + 1
        /\ \A i \in 1..Len(p) + 1 : SubSeq(p \o s, 1, Len(p) + 1)[i] = (p \o s)[i]
    BY <1>2, <2>1, SubSeqProperties
  <2>3. \A i \in 1..Len(p) + 1 : (p \o s)[i] = q[i]  BY <1>1, <1>2, <1>3
  <2> QED  BY <1>2, <2>2, <2>3, SeqEqual
<1> QED  BY <1>2, <1>5, <1>6, <1>7, <1>8 DEF q

LEMMA AppendSame ==
  ASSUME NEW p \in Seq(Char), NEW q \in Seq(Char), NEW c \in Char, NEW d \in Char,
         Append(p, c) = Append(q, d)
  PROVE  p = q /\ c = d
<1>1. Len(p) = Len(q)  OBVIOUS
<1>2. c = d
  <2>1. Append(p, c)[Len(p) + 1] = c /\ Append(q, d)[Len(q) + 1] = d  OBVIOUS
  <2> QED  BY <1>1, <2>1
<1>3. \A i \in 1..Len(p) : p[i] = Append(p, c)[i] /\ q[i] = Append(q, d)[i]  BY <1>1
<1>4. p = q  BY <1>1, <1>3, SeqEqual
<1> QED  BY <1>2, <1>4

\* The first characters of one sequence are those of another that begins like it.
LEMMA Beginning ==
  ASSUME NEW S, NEW p \in Seq(S), NEW s \in Seq(S), NEW n \in 0..Len(p)
  PROVE  SubSeq(p \o s, 1, n) = SubSeq(p, 1, n)
<1>1. p \o s \in Seq(S) /\ Len(p \o s) = Len(p) + Len(s) /\ Len(p) \in Nat /\ Len(s) \in Nat
      /\ \A i \in 1..Len(p) : (p \o s)[i] = p[i]
  BY ConcatProperties
<1>2. \A i \in 1..n : p[i] \in S /\ (p \o s)[i] = p[i]  BY <1>1
<1>3. /\ SubSeq(p, 1, n) \in Seq(S) /\ Len(SubSeq(p, 1, n)) = n
      /\ \A i \in 1..n : SubSeq(p, 1, n)[i] = p[i]
  BY <1>2, SubSeqProperties
<1>4. \A i \in 1..n : (p \o s)[i] \in S  BY <1>2
<1>5. /\ SubSeq(p \o s, 1, n) \in Seq(S) /\ Len(SubSeq(p \o s, 1, n)) = n
      /\ \A i \in 1..n : SubSeq(p \o s, 1, n)[i] = (p \o s)[i]
  BY <1>4, SubSeqProperties
<1> QED  BY <1>2, <1>3, <1>5, SeqEqual

LEMMA AppendBegins ==
  ASSUME NEW S, NEW p \in Seq(S), NEW c \in S
  PROVE  /\ Append(p, c) \in Seq(S) /\ Len(Append(p, c)) = Len(p) + 1 /\ Len(p) \in Nat
         /\ Append(p, c) # <<>>
         /\ \A n \in 0..Len(p) : SubSeq(Append(p, c), 1, n) = SubSeq(p, 1, n)
         /\ SubSeq(Append(p, c), 1, Len(p) + 1) = Append(p, c)
         /\ SubSeq(p, 1, Len(p)) = p
<1>1. <<c>> \in Seq(S) /\ <<c>> # <<>> /\ Head(<<c>>) = c /\ Tail(<<c>>) = <<>>  OBVIOUS
<1>2. Append(p, c) = p \o <<c>>  BY <1>1, Shift
<1>3. \A n \in 0..Len(p) : SubSeq(p \o <<c>>, 1, n) = SubSeq(p, 1, n)  BY <1>1, Beginning
<1>4. Append(p, c) \in Seq(S) /\ Len(Append(p, c)) = Len(p) + 1 /\ Len(p) \in Nat  OBVIOUS
<1>5. Append(p, c) # <<>>  BY <1>4, EmptySeq
<1>6. SubSeq(Append(p, c), 1, Len(p) + 1) = Append(p, c)  BY <1>1, <1>2, Shift
<1>7. SubSeq(p, 1, Len(p)) = p
  <2>1. \A i \in 1..Len(p) : p[i] \in S  OBVIOUS
  <2>2. /\ SubSeq(p, 1, Len(p)) \in Seq(S) /\ Len(SubSeq(p, 1, Len(p))) = Len(p)
        /\ \A i \in 1..Len(p) : SubSeq(p, 1, Len(p))[i] = p[i]
    BY <1>4, <2>1, SubSeqProperties
  <2> QED  BY <2>2, SeqEqual
<1> QED  BY <1>2, <1>3, <1>4, <1>5, <1>6, <1>7

-----------------------------------------------------------------------------
(***************************************************************************)
(* The tree.  A node stands for a character at a place: `pre' is what the   *)
(* nodes above it spell, `lev' the node that leads to its level, 0 for that *)
(* of the roots, and `span' the characters for which the way down comes to  *)
(* the node.                                                               *)
(***************************************************************************)
NodeSet ==
  [key : Seq(Char) \ {<<>>}, value : Key \union {Null}, before : Nat, equal : Nat, after : Nat]
Ghost == [lev : Nat, pre : Seq(Char), span : SUBSET Char]
Sides == {"before", "after"}

HeadOf(ns, i) == Head(ns[i].key)
Point(ns, g, i) == Append(g[i].pre, HeadOf(ns, i))
Way(ns, i, s) == IF s = "before" THEN ns[i].before ELSE ns[i].after
Beyond(s, c, h) == IF s = "before" THEN c < h ELSE c > h

\* The way to c ends at a node that leads nowhere on this side.
InGap(ns, g, i, s, c) == Way(ns, i, s) = 0 /\ c \in g[i].span /\ Beyond(s, c, HeadOf(ns, i))

Typed(ns, rs, ks, g) ==
  /\ ns \in Seq(NodeSet) /\ g \in Seq(Ghost) /\ Len(g) = Len(ns)
  /\ rs \in [Roots -> Nat] /\ ks \subseteq Key

\* Where the links lead, and what a node lies below.
Linked(ns, rs, g) ==
  /\ \A i \in 1..Len(ns) : HeadOf(ns, i) \in g[i].span
  /\ \A i \in 1..Len(ns) : \A s \in Sides : Way(ns, i, s) # 0 =>
       /\ Way(ns, i, s) \in 1..Len(ns) /\ g[Way(ns, i, s)].lev = g[i].lev
       /\ \A c \in g[i].span : Beyond(s, c, HeadOf(ns, i)) => c \in g[Way(ns, i, s)].span
  /\ \A i \in 1..Len(ns) : ns[i].equal # 0 =>
       ns[i].equal \in 1..Len(ns) /\ g[ns[i].equal].lev = i /\ g[ns[i].equal].span = Char
  /\ \A r \in Roots : rs[r] # 0 =>
       /\ rs[r] \in 1..Len(ns) /\ g[rs[r]].lev = 0
       /\ \A c \in Char : RootOf[c] = r => c \in g[rs[r]].span
  /\ \A i \in 1..Len(ns) : g[i].lev = 0 =>
       g[i].pre = <<>> /\ \A c \in g[i].span : rs[RootOf[c]] # 0
  /\ \A i \in 1..Len(ns) : g[i].lev # 0 =>
       /\ g[i].lev \in 1..Len(ns) /\ ns[g[i].lev].equal # 0
       /\ g[i].pre = Point(ns, g, g[i].lev)

\* The nodes of a level stand for different characters, and share no gap.
Apart(ns, g) ==
  \A i, j \in 1..Len(ns) : g[i].lev = g[j].lev =>
    /\ \A s, t \in Sides, c \in Char :
         InGap(ns, g, i, s, c) /\ InGap(ns, g, j, t, c) => i = j /\ s = t
    /\ \A s \in Sides : ~ InGap(ns, g, i, s, HeadOf(ns, j))
    /\ HeadOf(ns, i) = HeadOf(ns, j) => i = j

\* No two nodes spell the same, and what leads to a node is spelt by nodes.
Spelt(ns, g, p) ==
  \A n \in 1..Len(p) :
    \E j \in 1..Len(ns) : ns[j].equal # 0 /\ Point(ns, g, j) = SubSeq(p, 1, n)

Paths(ns, g) ==
  /\ \A i, j \in 1..Len(ns) : Point(ns, g, i) = Point(ns, g, j) => i = j
  /\ \A i \in 1..Len(ns) : Spelt(ns, g, g[i].pre)

\* The payloads are the keys, each at its node, and every node is on the way to one.
Vals(ns, ks, g) ==
  /\ \A i \in 1..Len(ns) : ns[i].value # Null =>
       /\ ns[i].value \in ks
       /\ ns[i].equal = 0 => ns[i].value = g[i].pre \o ns[i].key
       /\ ns[i].equal # 0 => ns[i].value = Point(ns, g, i)
  /\ \A i \in 1..Len(ns) : ns[i].equal = 0 => ns[i].value # Null
  /\ \A k \in ks : \E i \in 1..Len(ns) : ns[i].value = k
  /\ \A i \in 1..Len(ns) : \E k \in ks :
       /\ Len(g[i].pre) + 1 \in 1..Len(k)
       /\ SubSeq(k, 1, Len(g[i].pre) + 1) = Point(ns, g, i)

Tree(ns, rs, ks, g) ==
  Typed(ns, rs, ks, g) /\ Linked(ns, rs, g) /\ Apart(ns, g) /\ Paths(ns, g) /\ Vals(ns, ks, g)

-----------------------------------------------------------------------------
LEMMA NodeTypes ==
  ASSUME NEW ns, NEW rs, NEW ks, NEW g, Typed(ns, rs, ks, g), NEW i \in 1..Len(ns)
  PROVE  /\ ns[i] \in NodeSet /\ g[i] \in Ghost
         /\ ns[i].key \in Seq(Char) /\ ns[i].key # <<>> /\ ns[i].value \in Key \union {Null}
         /\ ns[i].before \in Nat /\ ns[i].equal \in Nat /\ ns[i].after \in Nat
         /\ g[i].lev \in Nat /\ g[i].pre \in Seq(Char) /\ g[i].span \subseteq Char
         /\ Len(g[i].pre) \in Nat
         /\ HeadOf(ns, i) \in Char
         /\ Point(ns, g, i) \in Seq(Char) /\ Point(ns, g, i) # <<>>
         /\ Len(Point(ns, g, i)) = Len(g[i].pre) + 1
<1>1. ns[i] \in NodeSet /\ g[i] \in Ghost  BY DEF Typed
<1>2. ns[i].key \in Seq(Char) /\ ns[i].key # <<>>  BY <1>1 DEF NodeSet
<1>3. HeadOf(ns, i) \in Char  BY <1>2, HeadFirst DEF HeadOf
<1>4. g[i].pre \in Seq(Char)  BY <1>1 DEF Ghost
<1>5. /\ Point(ns, g, i) \in Seq(Char) /\ Point(ns, g, i) # <<>>
      /\ Len(Point(ns, g, i)) = Len(g[i].pre) + 1 /\ Len(g[i].pre) \in Nat
  BY <1>3, <1>4, AppendBegins DEF Point
<1> QED  BY <1>1, <1>2, <1>3, <1>4, <1>5 DEF NodeSet, Ghost

\* What leads to the nodes of a level is the same, and differs from level to level.
LEMMA SameLevel ==
  ASSUME NEW ns, NEW rs, NEW ks, NEW g,
         Typed(ns, rs, ks, g), Linked(ns, rs, g), Paths(ns, g),
         NEW i \in 1..Len(ns), NEW j \in 1..Len(ns)
  PROVE  /\ g[i].pre = g[j].pre <=> g[i].lev = g[j].lev
         /\ g[i].pre = <<>> <=> g[i].lev = 0
         /\ g[i].pre = Point(ns, g, j) => g[i].lev = j /\ ns[j].equal # 0
<1>1. \A m \in 1..Len(ns) : /\ g[m].lev = 0 => g[m].pre = <<>>
                            /\ g[m].lev # 0 => /\ g[m].lev \in 1..Len(ns) /\ ns[g[m].lev].equal # 0
                                               /\ g[m].pre = Point(ns, g, g[m].lev)
  BY DEF Linked
<1>2. \A m \in 1..Len(ns) : Point(ns, g, m) # <<>>  BY NodeTypes
<1>3. \A m, n \in 1..Len(ns) : Point(ns, g, m) = Point(ns, g, n) => m = n  BY DEF Paths
<1>4. \A m \in 1..Len(ns) : g[m].pre = <<>> <=> g[m].lev = 0  BY <1>1, <1>2
<1>5. g[i].pre = g[j].pre => g[i].lev = g[j].lev  BY <1>1, <1>3, <1>4
<1>6. g[i].lev = g[j].lev => g[i].pre = g[j].pre  BY <1>1
<1>7. g[i].pre = Point(ns, g, j) => g[i].lev = j /\ ns[j].equal # 0  BY <1>1, <1>2, <1>3
<1> QED  BY <1>4, <1>5, <1>6, <1>7

\* A key is on the way from every place that it passes.
LEMMA Reach ==
  ASSUME NEW ns, NEW rs, NEW ks, NEW g, Tree(ns, rs, ks, g),
         NEW p \in Seq(Char), NEW s \in Seq(Char), s # <<>>, p \o s \in ks, Spelt(ns, g, p)
  PROVE  \E j \in 1..Len(ns) :
           /\ g[j].pre = p /\ HeadOf(ns, j) = Head(s)
           /\ ns[j].equal = 0 \/ Tail(s) = <<>> => ns[j].value = p \o s
<1> DEFINE k == p \o s
<1>1. PICK v \in 1..Len(ns) : ns[v].value = k  BY DEF Tree, Vals
<1>2. k # Null /\ k \in Key  BY PtreeAssumption DEF Tree, Typed
<1>3. /\ ns[v].equal = 0 => k = g[v].pre \o ns[v].key
      /\ ns[v].equal # 0 => k = Point(ns, g, v)
  BY <1>1, <1>2 DEF Tree, Vals
<1>4. Typed(ns, rs, ks, g)  BY DEF Tree
<1>5. /\ ns[v].key \in Seq(Char) /\ ns[v].key # <<>> /\ g[v].pre \in Seq(Char)
      /\ HeadOf(ns, v) \in Char /\ Len(g[v].pre) \in Nat
      /\ Point(ns, g, v) \in Seq(Char) /\ Len(Point(ns, g, v)) = Len(g[v].pre) + 1
  BY <1>4, NodeTypes
<1>6. /\ SubSeq(k, 1, Len(p) + 1) = Append(p, Head(s)) /\ k = Append(p, Head(s)) \o Tail(s)
      /\ Tail(s) = <<>> => k = Append(p, Head(s))
  BY Shift
<1>7. Head(s) \in Char /\ Len(s) \in Nat \ {0} /\ Len(k) = Len(p) + Len(s) /\ Len(p) \in Nat
  BY HeadFirst, ConcatProperties
<1>8. /\ Len(Append(p, Head(s))) = Len(p) + 1
      /\ \A n \in 0..Len(p) : SubSeq(k, 1, n) = SubSeq(p, 1, n)
  BY <1>7, AppendBegins, Beginning
<1> HIDE DEF k
<1>9. SubSeq(k, 1, Len(g[v].pre) + 1) = Point(ns, g, v) /\ Len(g[v].pre) < Len(k)
  <2>1. CASE ns[v].equal = 0
    <3>1. SubSeq(g[v].pre \o ns[v].key, 1, Len(g[v].pre) + 1) = Append(g[v].pre, Head(ns[v].key))
      BY <1>5, Shift
    <3>2. Len(ns[v].key) \in Nat \ {0}  BY <1>5, HeadFirst
    <3>3. Len(g[v].pre \o ns[v].key) = Len(g[v].pre) + Len(ns[v].key)  BY <1>5, ConcatProperties
    <3>4. k = g[v].pre \o ns[v].key  BY <1>3, <2>1
    <3>5. Point(ns, g, v) = Append(g[v].pre, Head(ns[v].key))  BY DEF Point, HeadOf
    <3>6. SubSeq(k, 1, Len(g[v].pre) + 1) = Point(ns, g, v)  BY <3>1, <3>4, <3>5
    <3>8. PICK a \in Nat, b \in Nat \ {0} : a = Len(g[v].pre) /\ b = Len(ns[v].key)  BY <1>5, <3>2
    <3>9. Len(k) = a + b  BY <3>3, <3>4, <3>8
    <3>10. a < a + b  OBVIOUS
    <3>7. Len(g[v].pre) < Len(k)  BY <3>8, <3>9, <3>10, Zenon
    <3> QED  BY <3>6, <3>7
  <2>2. CASE ns[v].equal # 0
    <3>1. SubSeq(Append(g[v].pre, HeadOf(ns, v)), 1, Len(g[v].pre) + 1) = Append(g[v].pre, HeadOf(ns, v))
      BY SMTT(60), <1>5, AppendBegins
    <3> QED  BY <1>3, <1>5, <2>2, <3>1 DEF Point
  <2> QED  BY <2>1, <2>2
<1>10. \A n \in 0..Len(g[v].pre) : SubSeq(k, 1, n) = SubSeq(g[v].pre, 1, n)
  <2>1. CASE ns[v].equal = 0
    <3>1. k = g[v].pre \o ns[v].key  BY <1>3, <2>1
    <3>2. \A n \in 0..Len(g[v].pre) : SubSeq(g[v].pre \o ns[v].key, 1, n) = SubSeq(g[v].pre, 1, n)
      BY <1>5, Beginning
    <3> QED  BY <3>1, <3>2
  <2>2. CASE ns[v].equal # 0
    <3>1. k = Append(g[v].pre, HeadOf(ns, v))  BY <1>3, <2>2 DEF Point
    <3>2. \A n \in 0..Len(g[v].pre) :
            SubSeq(Append(g[v].pre, HeadOf(ns, v)), 1, n) = SubSeq(g[v].pre, 1, n)
      BY <1>5, AppendBegins
    <3> QED  BY <3>1, <3>2
  <2> QED  BY <2>1, <2>2
<1>11. CASE Len(g[v].pre) > Len(p)
  <2>1. Len(p) + 1 \in 1..Len(g[v].pre)  BY <1>5, <1>7, <1>11
  <2>2. PICK j \in 1..Len(ns) : ns[j].equal # 0 /\ Point(ns, g, j) = SubSeq(g[v].pre, 1, Len(p) + 1)
    BY <2>1 DEF Tree, Paths, Spelt
  <2>3. SubSeq(g[v].pre, 1, Len(p) + 1) = SubSeq(k, 1, Len(p) + 1)  BY <1>5, <1>10, <2>1
  <2>4. Append(g[j].pre, HeadOf(ns, j)) = Append(p, Head(s))  BY <1>6, <2>2, <2>3 DEF Point
  <2>5. g[j].pre \in Seq(Char) /\ HeadOf(ns, j) \in Char  BY <1>4, NodeTypes
  <2>8. Head(s) \in Char  BY <1>7
  <2>6. g[j].pre = p /\ HeadOf(ns, j) = Head(s)  BY <2>4, <2>5, <2>8, AppendSame
  <2>7. Tail(s) # <<>>
    <3>1. Tail(s) = <<>> => Len(k) = Len(p) + 1  BY <1>6, <1>8
    <3> QED  BY <1>5, <1>7, <1>9, <1>11, <3>1
  <2> QED  BY <2>2, <2>6, <2>7
<1>12. CASE Len(g[v].pre) = Len(p)
  <2>1. Append(g[v].pre, HeadOf(ns, v)) = Append(p, Head(s))  BY <1>6, <1>9, <1>12 DEF Point
  <2>2. g[v].pre = p /\ HeadOf(ns, v) = Head(s)  BY ZenonT(60), <1>5, <1>7, <2>1, AppendSame
  <2> QED  BY <1>1, <2>2 DEF k
<1>13. CASE Len(g[v].pre) < Len(p)
  <2>1. Len(g[v].pre) + 1 \in 1..Len(p)  BY <1>5, <1>7, <1>13
  <2>2. SubSeq(k, 1, Len(g[v].pre) + 1) = SubSeq(p, 1, Len(g[v].pre) + 1)  BY <1>7, <1>8, <2>1
  <2>3. PICK j \in 1..Len(ns) : ns[j].equal # 0 /\ Point(ns, g, j) = SubSeq(p, 1, Len(g[v].pre) + 1)
    BY <2>1 DEF Spelt
  <2>4. Point(ns, g, j) = Point(ns, g, v)  BY <1>9, <2>2, <2>3
  <2>5. j = v  BY <2>4 DEF Tree, Paths
  <2>6. Len(k) = Len(g[v].pre) + 1  BY <1>3, <1>5, <2>3, <2>5
  <2> QED  BY <1>5, <1>7, <1>13, <2>6
<1>14. \/ Len(g[v].pre) > Len(p) \/ Len(g[v].pre) = Len(p) \/ Len(g[v].pre) < Len(p)
  BY <1>5, <1>7
<1> QED  BY <1>11, <1>12, <1>13, <1>14

\* A node of the level that stands for a character is met on the way to it.
LEMMA Turn ==
  ASSUME NEW ns, NEW rs, NEW ks, NEW g, Tree(ns, rs, ks, g),
         NEW i \in 1..Len(ns), NEW j \in 1..Len(ns), g[j].pre = g[i].pre,
         HeadOf(ns, j) \in g[i].span
  PROVE  /\ HeadOf(ns, j) = HeadOf(ns, i) => i = j
         /\ \A s \in Sides : Beyond(s, HeadOf(ns, j), HeadOf(ns, i)) => Way(ns, i, s) # 0
<1>1. g[i].lev = g[j].lev  BY SameLevel DEF Tree
<1>2. HeadOf(ns, j) = HeadOf(ns, i) => i = j  BY <1>1 DEF Tree, Apart
<1>3. \A s \in Sides : ~ InGap(ns, g, i, s, HeadOf(ns, j))  BY <1>1 DEF Tree, Apart
<1> QED  BY <1>2, <1>3 DEF InGap

\* Where a call is that looks for a key of the tree.
LEMMA Arrive ==
  ASSUME NEW ns, NEW rs, NEW ks, NEW g, Tree(ns, rs, ks, g),
         NEW i \in 1..Len(ns), NEW s \in Seq(Char), s # <<>>, g[i].pre \o s \in ks,
         Head(s) \in g[i].span
  PROVE  /\ Head(s) = HeadOf(ns, i) =>
              (ns[i].equal = 0 \/ Tail(s) = <<>> => ns[i].value = g[i].pre \o s)
         /\ \A t \in Sides : Beyond(t, Head(s), HeadOf(ns, i)) => Way(ns, i, t) # 0
<1>1. g[i].pre \in Seq(Char)  BY NodeTypes DEF Tree
<1>2. Spelt(ns, g, g[i].pre)  BY DEF Tree, Paths
<1>3. PICK j \in 1..Len(ns) :
        /\ g[j].pre = g[i].pre /\ HeadOf(ns, j) = Head(s)
        /\ ns[j].equal = 0 \/ Tail(s) = <<>> => ns[j].value = g[i].pre \o s
  <2>1. PICK p \in Seq(Char) : p = g[i].pre  BY <1>1
  <2>2. Spelt(ns, g, p) /\ p \o s \in ks  BY <1>2, <2>1
  <2>3. \E j \in 1..Len(ns) :
          /\ g[j].pre = p /\ HeadOf(ns, j) = Head(s)
          /\ ns[j].equal = 0 \/ Tail(s) = <<>> => ns[j].value = p \o s
    BY SMTT(60), <2>2, Reach
  <2> QED  BY <2>1, <2>3
<1>4. /\ HeadOf(ns, j) = HeadOf(ns, i) => i = j
      /\ \A t \in Sides : Beyond(t, HeadOf(ns, j), HeadOf(ns, i)) => Way(ns, i, t) # 0
  BY <1>3, Turn
<1> QED  BY <1>3, <1>4

LEMMA RootReach ==
  ASSUME NEW ns, NEW rs, NEW ks, NEW g, Tree(ns, rs, ks, g), NEW k \in ks
  PROVE  k \in Seq(Char) /\ k # <<>> /\ Head(k) \in Char /\ rs[RootOf[Head(k)]] # 0
<1>1. k \in Seq(Char) /\ k # <<>>  BY PtreeAssumption DEF Tree, Typed
<1>2. <<>> \in Seq(Char) /\ <<>> \o k = k  BY <1>1, ConcatEmptySeq
<1>3. Len(<<>>) = 0  OBVIOUS
<1>4. Spelt(ns, g, <<>>)  BY <1>3 DEF Spelt
<1>5. PICK j \in 1..Len(ns) : g[j].pre = <<>> /\ HeadOf(ns, j) = Head(k)
  <2>1. PICK p \in Seq(Char) : p = <<>>  BY <1>2
  <2>2. Spelt(ns, g, p) /\ p \o k \in ks  BY <1>2, <1>4, <2>1
  <2>3. \E j \in 1..Len(ns) : g[j].pre = p /\ HeadOf(ns, j) = Head(k)  BY <1>1, <2>2, Reach
  <2> QED  BY <2>1, <2>3
<1>6. g[j].lev = 0  BY <1>5, SameLevel DEF Tree
<1>7. HeadOf(ns, j) \in g[j].span  BY DEF Tree, Linked
<1>8. rs[RootOf[HeadOf(ns, j)]] # 0  BY <1>6, <1>7 DEF Tree, Linked
<1> QED  BY <1>1, <1>5, <1>8, HeadFirst

\* Where every beginning of a key is a key, every node holds what it spells.
Complete(ks) == \A k \in ks : \A n \in 1..Len(k) : SubSeq(k, 1, n) \in ks

LEMMA ClosedNodes ==
  ASSUME NEW ns, NEW rs, NEW ks, NEW g, Tree(ns, rs, ks, g), Complete(ks), NEW i \in 1..Len(ns)
  PROVE  /\ ns[i].value = Point(ns, g, i) /\ Point(ns, g, i) \in ks
         /\ ns[i].equal = 0 => Tail(ns[i].key) = <<>>
<1>1. /\ ns[i].key \in Seq(Char) /\ ns[i].key # <<>> /\ g[i].pre \in Seq(Char)
      /\ HeadOf(ns, i) \in Char /\ Point(ns, g, i) # <<>> /\ Len(g[i].pre) \in Nat
      /\ Len(Point(ns, g, i)) = Len(g[i].pre) + 1
  BY NodeTypes DEF Tree
<1>2. PICK k \in ks : /\ Len(g[i].pre) + 1 \in 1..Len(k)
                      /\ SubSeq(k, 1, Len(g[i].pre) + 1) = Point(ns, g, i)
  BY DEF Tree, Vals
<1>3. Point(ns, g, i) \in ks  BY <1>2 DEF Complete
<1> DEFINE c == <<HeadOf(ns, i)>>
<1>4. c \in Seq(Char) /\ c # <<>> /\ Head(c) = HeadOf(ns, i) /\ Tail(c) = <<>>  BY <1>1
<1> HIDE DEF c
<1>5. g[i].pre \o c = Point(ns, g, i)  BY <1>1, <1>4, Shift DEF Point
<1>6. PICK j \in 1..Len(ns) :
        /\ g[j].pre = g[i].pre /\ HeadOf(ns, j) = Head(c)
        /\ ns[j].equal = 0 \/ Tail(c) = <<>> => ns[j].value = g[i].pre \o c
  <2>1. PICK p \in Seq(Char) : p = g[i].pre  BY <1>1
  <2>2. Spelt(ns, g, p) /\ p \o c \in ks  BY <1>3, <1>5, <2>1 DEF Tree, Paths
  <2>3. \E j \in 1..Len(ns) :
          /\ g[j].pre = p /\ HeadOf(ns, j) = Head(c)
          /\ ns[j].equal = 0 \/ Tail(c) = <<>> => ns[j].value = p \o c
    <3>1. p \in Seq(Char) /\ c \in Seq(Char) /\ c # <<>>  BY <1>4, <2>1
    <3> QED  BY <2>2, <3>1, Reach
  <2> QED  BY <2>1, <2>3
<1>7. Point(ns, g, j) = Point(ns, g, i)  BY <1>4, <1>6 DEF Point
<1>8. j = i  BY <1>7 DEF Tree, Paths
<1>9. ns[i].value = Point(ns, g, i)  BY <1>4, <1>5, <1>6, <1>8
<1>10. ASSUME ns[i].equal = 0  PROVE Tail(ns[i].key) = <<>>
  <2>1. ns[i].value # Null  BY <1>10 DEF Tree, Vals
  <2>2. ns[i].value = g[i].pre \o ns[i].key  BY <1>10, <2>1 DEF Tree, Vals
  <2>3. Len(g[i].pre \o ns[i].key) = Len(g[i].pre) + Len(ns[i].key)  BY <1>1, ConcatProperties
  <2>4. Len(g[i].pre) + Len(ns[i].key) = Len(g[i].pre) + 1  BY <1>1, <1>9, <2>2, <2>3
  <2>5. Len(ns[i].key) \in Nat /\ (Tail(ns[i].key) = <<>> <=> Len(ns[i].key) = 1)  BY <1>1, HeadFirst
  <2>6. PICK a \in Nat, b \in Nat : a = Len(g[i].pre) /\ b = Len(ns[i].key)  BY <1>1, <2>5
  <2>7. a + b = a + 1  BY <2>4, <2>6
  <2>8. b = 1  BY <2>7
  <2> QED  BY <2>5, <2>6, <2>8
<1> QED  BY <1>3, <1>9, <1>10

\* The rest of a text after the same beginning is the same.
LEMMA Cancel ==
  ASSUME NEW p \in Seq(Char), NEW s \in Seq(Char), NEW t \in Seq(Char), p \o s = p \o t
  PROVE  s = t
<1>1. /\ Len(p \o s) = Len(p) + Len(s) /\ Len(p \o t) = Len(p) + Len(t)
      /\ \A i \in 1..Len(p) + Len(s) : (p \o s)[i] = IF i <= Len(p) THEN p[i] ELSE s[i - Len(p)]
      /\ \A i \in 1..Len(p) + Len(t) : (p \o t)[i] = IF i <= Len(p) THEN p[i] ELSE t[i - Len(p)]
      /\ Len(p) \in Nat /\ Len(s) \in Nat /\ Len(t) \in Nat
  BY ConcatProperties
<1>2. Len(s) = Len(t)
  <2>1. Len(p) + Len(s) = Len(p) + Len(t)  BY <1>1
  <2> QED  BY <1>1, <2>1
<1>3. ASSUME NEW i \in 1..Len(s)  PROVE s[i] = t[i]
  <2>1. i + Len(p) \in 1..Len(p) + Len(s) /\ ~ (i + Len(p) <= Len(p)) /\ (i + Len(p)) - Len(p) = i
    BY <1>1
  <2>2. (p \o s)[i + Len(p)] = s[(i + Len(p)) - Len(p)]  BY <1>1, <2>1
  <2>3. (p \o t)[i + Len(p)] = t[(i + Len(p)) - Len(p)]  BY <1>1, <1>2, <2>1
  <2> QED  BY <2>1, <2>2, <2>3
<1> QED  BY <1>2, <1>3, SeqEqual

-----------------------------------------------------------------------------
(***************************************************************************)
(* A new node m.                                                           *)
(***************************************************************************)
\* Nothing leads on from m, one link at most leads to it, and the others are as they were.
Grown(ns, rs, g, ns2, rs2, g2, m) ==
  /\ m = Len(ns) + 1 /\ Len(ns2) = m
  /\ \A j \in 1..Len(ns) : g2[j] = g[j] /\ HeadOf(ns2, j) = HeadOf(ns, j)
  /\ ns2[m].before = 0 /\ ns2[m].equal = 0 /\ ns2[m].after = 0
  /\ \A j \in 1..Len(ns) : \A s \in Sides :
       \/ Way(ns2, j, s) = Way(ns, j, s)
       \/ /\ Way(ns2, j, s) = m /\ Way(ns, j, s) = 0 /\ g2[m].lev = g[j].lev
          /\ \A c \in g[j].span : Beyond(s, c, HeadOf(ns, j)) => c \in g2[m].span
  /\ \A j \in 1..Len(ns) :
       \/ ns2[j].equal = ns[j].equal
       \/ ns2[j].equal = m /\ ns[j].equal = 0 /\ g2[m].lev = j /\ g2[m].span = Char
  /\ \A r \in Roots :
       \/ rs2[r] = rs[r]
       \/ /\ rs2[r] = m /\ rs[r] = 0 /\ g2[m].lev = 0
          /\ \A c \in Char : RootOf[c] = r => c \in g2[m].span
  /\ HeadOf(ns2, m) \in g2[m].span
  /\ g2[m].lev = 0 => g2[m].pre = <<>> /\ \A c \in g2[m].span : rs2[RootOf[c]] # 0
  /\ g2[m].lev # 0 => /\ g2[m].lev \in 1..Len(ns) /\ ns2[g2[m].lev].equal # 0
                      /\ g2[m].pre = Point(ns, g, g2[m].lev)

\* The place of m was free on its level.
Free(ns, ns2, g, g2, m) ==
  \A j \in 1..Len(ns) : g[j].lev = g2[m].lev =>
    /\ HeadOf(ns, j) # HeadOf(ns2, m)
    /\ \A t \in Sides : ~ InGap(ns2, g2, j, t, HeadOf(ns2, m))
    /\ \A s \in Sides, c \in Char : InGap(ns2, g2, m, s, c) =>
         c # HeadOf(ns, j) /\ \A t \in Sides : ~ InGap(ns2, g2, j, t, c)

LEMMA RootsOf == \A c \in Char : RootOf[c] \in Roots
BY DEF Roots

LEMMA GrowLinked ==
  ASSUME NEW ns, NEW rs, NEW ks, NEW g, NEW ns2, NEW rs2, NEW ks2, NEW g2, NEW m,
         Typed(ns, rs, ks, g), Typed(ns2, rs2, ks2, g2), Linked(ns, rs, g),
         Grown(ns, rs, g, ns2, rs2, g2, m)
  PROVE  Linked(ns2, rs2, g2)
<1>1. /\ m = Len(ns) + 1 /\ Len(ns2) = m /\ Len(ns) \in Nat
      /\ \A j \in 1..Len(ns) : g2[j] = g[j] /\ HeadOf(ns2, j) = HeadOf(ns, j)
      /\ ns2[m].before = 0 /\ ns2[m].equal = 0 /\ ns2[m].after = 0
  <2>1. Len(ns) \in Nat  BY DEF Typed
  <2>2. /\ m = Len(ns) + 1 /\ Len(ns2) = m
        /\ \A j \in 1..Len(ns) : g2[j] = g[j] /\ HeadOf(ns2, j) = HeadOf(ns, j)
        /\ ns2[m].before = 0 /\ ns2[m].equal = 0 /\ ns2[m].after = 0
    BY DEF Grown
  <2> QED  BY <2>1, <2>2
<1>2. 1..Len(ns2) = 1..Len(ns) \union {m} /\ m \notin 1..Len(ns) /\ m # 0  BY <1>1
<1>3. \A j \in 1..Len(ns) : Point(ns2, g2, j) = Point(ns, g, j)  BY <1>1 DEF Point
<1>4. \A i \in 1..Len(ns2) : HeadOf(ns2, i) \in g2[i].span
  <2>1. \A i \in 1..Len(ns) : HeadOf(ns, i) \in g[i].span  BY DEF Linked
  <2>2. HeadOf(ns2, m) \in g2[m].span  BY DEF Grown
  <2> QED  BY <1>1, <1>2, <2>1, <2>2
<1>5. ASSUME NEW i \in 1..Len(ns2), NEW s \in Sides, Way(ns2, i, s) # 0
      PROVE  /\ Way(ns2, i, s) \in 1..Len(ns2) /\ g2[Way(ns2, i, s)].lev = g2[i].lev
             /\ \A c \in g2[i].span : Beyond(s, c, HeadOf(ns2, i)) => c \in g2[Way(ns2, i, s)].span
  <2>1. i \in 1..Len(ns)  BY <1>1, <1>2, <1>5 DEF Way
  <2>2. CASE Way(ns2, i, s) = Way(ns, i, s)
    <3>1. /\ Way(ns, i, s) \in 1..Len(ns) /\ g[Way(ns, i, s)].lev = g[i].lev
          /\ \A c \in g[i].span : Beyond(s, c, HeadOf(ns, i)) => c \in g[Way(ns, i, s)].span
      BY <1>5, <2>1, <2>2 DEF Linked
    <3>2. g2[Way(ns, i, s)] = g[Way(ns, i, s)] /\ g2[i] = g[i] /\ HeadOf(ns2, i) = HeadOf(ns, i)
      BY <1>1, <2>1, <3>1
    <3> QED  BY <1>2, <2>2, <3>1, <3>2
  <2>3. CASE Way(ns2, i, s) # Way(ns, i, s)
    <3>1. /\ Way(ns2, i, s) = m /\ g2[m].lev = g[i].lev
          /\ \A c \in g[i].span : Beyond(s, c, HeadOf(ns, i)) => c \in g2[m].span
      BY <2>1, <2>3 DEF Grown
    <3> QED  BY <1>1, <1>2, <2>1, <3>1
  <2> QED  BY <2>2, <2>3
<1>6. ASSUME NEW i \in 1..Len(ns2), ns2[i].equal # 0
      PROVE  ns2[i].equal \in 1..Len(ns2) /\ g2[ns2[i].equal].lev = i /\ g2[ns2[i].equal].span = Char
  <2>1. i \in 1..Len(ns)  BY <1>1, <1>2, <1>6
  <2>2. CASE ns2[i].equal = ns[i].equal
    <3>1. ns[i].equal \in 1..Len(ns) /\ g[ns[i].equal].lev = i /\ g[ns[i].equal].span = Char
      BY <1>6, <2>1, <2>2 DEF Linked
    <3> QED  BY <1>1, <1>2, <2>2, <3>1
  <2>3. CASE ns2[i].equal # ns[i].equal
    <3>1. ns2[i].equal = m /\ g2[m].lev = i /\ g2[m].span = Char  BY <2>1, <2>3 DEF Grown
    <3> QED  BY <1>2, <3>1
  <2> QED  BY <2>2, <2>3
<1>7. ASSUME NEW r \in Roots, rs2[r] # 0
      PROVE  /\ rs2[r] \in 1..Len(ns2) /\ g2[rs2[r]].lev = 0
             /\ \A c \in Char : RootOf[c] = r => c \in g2[rs2[r]].span
  <2>1. CASE rs2[r] = rs[r]
    <3>1. /\ rs[r] \in 1..Len(ns) /\ g[rs[r]].lev = 0
          /\ \A c \in Char : RootOf[c] = r => c \in g[rs[r]].span
      BY <1>7, <2>1 DEF Linked
    <3> QED  BY <1>1, <1>2, <2>1, <3>1
  <2>2. CASE rs2[r] # rs[r]
    <3>1. /\ rs2[r] = m /\ g2[m].lev = 0 /\ \A c \in Char : RootOf[c] = r => c \in g2[m].span
      BY <2>2 DEF Grown
    <3> QED  BY <1>2, <3>1
  <2> QED  BY <2>1, <2>2
<1>8. ASSUME NEW i \in 1..Len(ns2), g2[i].lev = 0
      PROVE  g2[i].pre = <<>> /\ \A c \in g2[i].span : rs2[RootOf[c]] # 0
  <2>1. CASE i = m  BY <1>8, <2>1 DEF Grown
  <2>2. CASE i # m
    <3>1. i \in 1..Len(ns) /\ g2[i] = g[i]  BY <1>1, <1>2, <2>2
    <3>2. g[i].pre = <<>> /\ \A c \in g[i].span : rs[RootOf[c]] # 0  BY <1>8, <3>1 DEF Linked
    <3>3. \A r \in Roots : rs[r] # 0 => rs2[r] # 0  BY DEF Grown
    <3>4. g[i].span \subseteq Char  BY <3>1, NodeTypes
    <3> QED  BY <3>1, <3>2, <3>3, <3>4, RootsOf
  <2> QED  BY <2>1, <2>2
<1>9. ASSUME NEW i \in 1..Len(ns2), g2[i].lev # 0
      PROVE  /\ g2[i].lev \in 1..Len(ns2) /\ ns2[g2[i].lev].equal # 0
             /\ g2[i].pre = Point(ns2, g2, g2[i].lev)
  <2>1. CASE i = m
    <3>1. /\ g2[m].lev \in 1..Len(ns) /\ ns2[g2[m].lev].equal # 0
          /\ g2[m].pre = Point(ns, g, g2[m].lev)
      BY <1>9, <2>1 DEF Grown
    <3> QED  BY <1>2, <1>3, <2>1, <3>1
  <2>2. CASE i # m
    <3>1. i \in 1..Len(ns) /\ g2[i] = g[i]  BY <1>1, <1>2, <2>2
    <3>2. /\ g[i].lev \in 1..Len(ns) /\ ns[g[i].lev].equal # 0
          /\ g[i].pre = Point(ns, g, g[i].lev)
      BY <1>9, <3>1 DEF Linked
    <3>3. ns2[g[i].lev].equal # 0  BY <1>2, <3>2 DEF Grown
    <3> QED  BY <1>2, <1>3, <3>1, <3>2, <3>3
  <2> QED  BY <2>1, <2>2
<1> QED  BY <1>4, <1>5, <1>6, <1>7, <1>8, <1>9 DEF Linked

LEMMA GrowApart ==
  ASSUME NEW ns, NEW rs, NEW ks, NEW g, NEW ns2, NEW rs2, NEW ks2, NEW g2, NEW m,
         Typed(ns, rs, ks, g), Typed(ns2, rs2, ks2, g2), Apart(ns, g),
         Grown(ns, rs, g, ns2, rs2, g2, m), Free(ns, ns2, g, g2, m)
  PROVE  Apart(ns2, g2)
<1>1. /\ m = Len(ns) + 1 /\ Len(ns2) = m /\ Len(ns) \in Nat
      /\ \A j \in 1..Len(ns) : g2[j] = g[j] /\ HeadOf(ns2, j) = HeadOf(ns, j)
  BY DEF Grown, Typed
<1>2. 1..Len(ns2) = 1..Len(ns) \union {m} /\ m \notin 1..Len(ns) /\ m # 0  BY <1>1
<1>3. \A j \in 1..Len(ns), s \in Sides, c \in Char : InGap(ns2, g2, j, s, c) => InGap(ns, g, j, s, c)
  <2>1. \A j \in 1..Len(ns), s \in Sides : Way(ns2, j, s) = 0 => Way(ns, j, s) = 0
    BY <1>2 DEF Grown
  <2> QED  BY <1>1, <2>1 DEF InGap
<1>4. \A j \in 1..Len(ns2) : HeadOf(ns2, j) \in Char  BY NodeTypes
<1>5. ASSUME NEW i \in 1..Len(ns), NEW j \in 1..Len(ns), g2[i].lev = g2[j].lev
      PROVE  /\ \A s, t \in Sides, c \in Char :
                  InGap(ns2, g2, i, s, c) /\ InGap(ns2, g2, j, t, c) => i = j /\ s = t
             /\ \A s \in Sides : ~ InGap(ns2, g2, i, s, HeadOf(ns2, j))
             /\ HeadOf(ns2, i) = HeadOf(ns2, j) => i = j
  <2>1. g[i].lev = g[j].lev  BY <1>1, <1>5
  <2>2. HeadOf(ns2, i) = HeadOf(ns, i) /\ HeadOf(ns2, j) = HeadOf(ns, j)  BY <1>1
  <2>3. HeadOf(ns2, j) \in Char  BY <1>2, <1>4
  <2>4. \A s, t \in Sides, c \in Char :
          InGap(ns, g, i, s, c) /\ InGap(ns, g, j, t, c) => i = j /\ s = t
    BY <2>1 DEF Apart
  <2>5. \A s \in Sides : ~ InGap(ns, g, i, s, HeadOf(ns, j))  BY <2>1 DEF Apart
  <2>6. HeadOf(ns, i) = HeadOf(ns, j) => i = j  BY <2>1 DEF Apart
  <2> QED  BY <1>3, <2>2, <2>3, <2>4, <2>5, <2>6
<1>6. ASSUME NEW j \in 1..Len(ns), g2[j].lev = g2[m].lev
      PROVE  /\ \A s, t \in Sides, c \in Char : ~ (InGap(ns2, g2, m, s, c) /\ InGap(ns2, g2, j, t, c))
             /\ \A s \in Sides : /\ ~ InGap(ns2, g2, m, s, HeadOf(ns2, j))
                                 /\ ~ InGap(ns2, g2, j, s, HeadOf(ns2, m))
             /\ HeadOf(ns2, m) # HeadOf(ns2, j)
  <2>1. g[j].lev = g2[m].lev /\ HeadOf(ns2, j) = HeadOf(ns, j)  BY <1>1, <1>6
  <2>2. HeadOf(ns2, j) \in Char  BY <1>2, <1>4
  <2> QED  BY <2>1, <2>2 DEF Free
<1>7. /\ \A s, t \in Sides, c \in Char : InGap(ns2, g2, m, s, c) /\ InGap(ns2, g2, m, t, c) => s = t
      /\ \A s \in Sides : ~ InGap(ns2, g2, m, s, HeadOf(ns2, m))
  <2>1. HeadOf(ns2, m) \in Nat /\ Char \subseteq Nat  BY <1>2, <1>4, PtreeAssumption
  <2>2. \A c, h \in Nat, s, t \in Sides : Beyond(s, c, h) /\ Beyond(t, c, h) => s = t
    BY DEF Beyond, Sides
  <2>3. \A h \in Nat, s \in Sides : ~ Beyond(s, h, h)  BY DEF Beyond
  <2> QED  BY <2>1, <2>2, <2>3 DEF InGap
<1> QED  BY <1>2, <1>5, <1>6, <1>7 DEF Apart

LEMMA GrowPaths ==
  ASSUME NEW ns, NEW rs, NEW ks, NEW g, NEW ns2, NEW rs2, NEW ks2, NEW g2, NEW m,
         Typed(ns, rs, ks, g), Typed(ns2, rs2, ks2, g2), Linked(ns, rs, g), Paths(ns, g),
         Grown(ns, rs, g, ns2, rs2, g2, m), Free(ns, ns2, g, g2, m)
  PROVE  Paths(ns2, g2)
<1>1. /\ m = Len(ns) + 1 /\ Len(ns2) = m /\ Len(ns) \in Nat
      /\ \A j \in 1..Len(ns) : g2[j] = g[j] /\ HeadOf(ns2, j) = HeadOf(ns, j)
  BY DEF Grown, Typed
<1>2. 1..Len(ns2) = 1..Len(ns) \union {m} /\ m \notin 1..Len(ns) /\ m # 0  BY <1>1
<1>3. \A j \in 1..Len(ns) : Point(ns2, g2, j) = Point(ns, g, j)  BY <1>1 DEF Point
<1>4. \A j \in 1..Len(ns) : ns[j].equal # 0 => ns2[j].equal # 0  BY <1>2 DEF Grown
<1>5. \A i, j \in 1..Len(ns) : Point(ns, g, i) = Point(ns, g, j) => i = j  BY DEF Paths
<1>6. ASSUME NEW j \in 1..Len(ns)  PROVE Point(ns2, g2, m) # Point(ns, g, j)
  <2>1. SUFFICES ASSUME Point(ns2, g2, m) = Point(ns, g, j)  PROVE FALSE  OBVIOUS
  <2>2. /\ g2[m].pre \in Seq(Char) /\ HeadOf(ns2, m) \in Char
        /\ g[j].pre \in Seq(Char) /\ HeadOf(ns, j) \in Char
    BY <1>2, NodeTypes
  <2>3. Append(g2[m].pre, HeadOf(ns2, m)) = Append(g[j].pre, HeadOf(ns, j))  BY <2>1 DEF Point
  <2>6. PICK q \in Seq(Char), p \in Seq(Char) : q = g2[m].pre /\ p = g[j].pre  BY <2>2
  <2>7. PICK c \in Char, d \in Char : c = HeadOf(ns2, m) /\ d = HeadOf(ns, j)  BY <2>2
  <2>8. Append(q, c) = Append(p, d)  BY <2>3, <2>6, <2>7
  <2>9. q = p /\ c = d  BY <2>8, AppendSame
  <2>4. g2[m].pre = g[j].pre /\ HeadOf(ns2, m) = HeadOf(ns, j)  BY <2>6, <2>7, <2>9
  <2>5. g[j].lev = g2[m].lev
    <3>1. CASE g2[m].lev = 0
      <4>1. g[j].pre = <<>>  BY <2>4, <3>1 DEF Grown
      <4> QED  BY <3>1, <4>1, SameLevel
    <3>2. CASE g2[m].lev # 0
      <4>1. PICK l \in 1..Len(ns) : l = g2[m].lev /\ g[j].pre = Point(ns, g, l)
        BY <2>4, <3>2 DEF Grown
      <4> QED  BY <4>1, SameLevel
    <3> QED  BY <3>1, <3>2
  <2> QED  BY <2>4, <2>5 DEF Free
<1>7. \A p : Spelt(ns, g, p) => Spelt(ns2, g2, p)
  BY <1>2, <1>3, <1>4 DEF Spelt
<1>8. \A i \in 1..Len(ns) : Spelt(ns2, g2, g2[i].pre)  BY <1>1, <1>7 DEF Paths
<1>9. Spelt(ns2, g2, g2[m].pre)
  <2>1. CASE g2[m].lev = 0
    <3>1. g2[m].pre = <<>>  BY <2>1 DEF Grown
    <3>2. Len(<<>>) = 0  OBVIOUS
    <3>3. 1..Len(g2[m].pre) = {}  BY <3>1, <3>2
    <3> QED  BY <3>3 DEF Spelt
  <2>2. CASE g2[m].lev # 0
    <3>1. PICK l \in 1..Len(ns) : l = g2[m].lev /\ ns2[l].equal # 0 /\ g2[m].pre = Point(ns, g, l)
      BY <2>2 DEF Grown
    <3>2. Spelt(ns2, g2, g[l].pre)  BY <1>1, <1>8
    <3>3. g[l].pre \in Seq(Char) /\ HeadOf(ns, l) \in Char  BY NodeTypes
    <3>4. PICK q \in Seq(Char) : q = g[l].pre  BY <3>3
    <3>5. PICK d \in Char : d = HeadOf(ns, l)  BY <3>3
    <3>6. g2[m].pre = Append(q, d)  BY <3>1, <3>4, <3>5 DEF Point
    <3>7. /\ Len(Append(q, d)) = Len(q) + 1 /\ Len(q) \in Nat
          /\ \A n \in 0..Len(q) : SubSeq(Append(q, d), 1, n) = SubSeq(q, 1, n)
          /\ SubSeq(Append(q, d), 1, Len(q) + 1) = Append(q, d)
      BY AppendBegins
    <3>8. ASSUME NEW n \in 1..Len(Append(q, d))
          PROVE  \E j \in 1..Len(ns2) : ns2[j].equal # 0 /\ Point(ns2, g2, j) = SubSeq(Append(q, d), 1, n)
      <4>1. CASE n = Len(q) + 1
        <5>1. Point(ns2, g2, l) = Append(q, d)  BY <1>3, <3>4, <3>5 DEF Point
        <5>2. l \in 1..Len(ns2)  BY <1>2
        <5> QED  BY <3>1, <3>7, <4>1, <5>1, <5>2
      <4>2. CASE n # Len(q) + 1
        <5>3. PICK l2 \in Nat : l2 = Len(q)  BY <3>7
        <5>4. n \in 1..(l2 + 1) /\ n # l2 + 1  BY <3>7, <4>2, <5>3
        <5>5. n \in 1..l2 /\ n \in 0..l2  BY <5>4
        <5>1. n \in 1..Len(q) /\ n \in 0..Len(q)  BY <5>3, <5>5
        <5>2. \E j \in 1..Len(ns2) : ns2[j].equal # 0 /\ Point(ns2, g2, j) = SubSeq(q, 1, n)
          BY <3>2, <3>4, <5>1 DEF Spelt
        <5> QED  BY <3>7, <5>1, <5>2
      <4> QED  BY <4>1, <4>2
    <3> QED  BY <3>6, <3>8 DEF Spelt
  <2> QED  BY <2>1, <2>2
<1>10. \A i \in 1..Len(ns2) : Spelt(ns2, g2, g2[i].pre)  BY <1>2, <1>8, <1>9
<1>11. \A i, j \in 1..Len(ns2) : Point(ns2, g2, i) = Point(ns2, g2, j) => i = j
  BY <1>2, <1>3, <1>5, <1>6
<1> QED  BY <1>10, <1>11 DEF Paths

\* The node m holds a payload with its key, and so does the node i above it, unless it is 0.
Valued(ns, ks, g, ns2, ks2, g2, m, i) ==
  /\ ks \subseteq ks2
  /\ \A j \in 1..Len(ns) : j # i => /\ ns2[j].value = ns[j].value /\ ns2[j].key = ns[j].key
                                     /\ ns2[j].equal = ns[j].equal
  /\ i # 0 => /\ i \in 1..Len(ns) /\ ns2[i].equal # 0
              /\ ns2[i].value # Null => ns2[i].value \in ks2 /\ ns2[i].value = Point(ns, g, i)
              /\ ns[i].value # Null => ns[i].value \in {ns2[i].value, ns2[m].value}
  /\ ns2[m].value \in ks2 /\ ns2[m].value = g2[m].pre \o ns2[m].key
  /\ \A k \in ks2 : k \in ks \/ (i # 0 /\ ns2[i].value = k) \/ ns2[m].value = k

LEMMA GrowVals ==
  ASSUME NEW ns, NEW rs, NEW ks, NEW g, NEW ns2, NEW rs2, NEW ks2, NEW g2, NEW m, NEW i,
         Typed(ns, rs, ks, g), Typed(ns2, rs2, ks2, g2), Vals(ns, ks, g),
         Grown(ns, rs, g, ns2, rs2, g2, m), Valued(ns, ks, g, ns2, ks2, g2, m, i)
  PROVE  Vals(ns2, ks2, g2)
<1>0. /\ ks \subseteq ks2
      /\ \A j \in 1..Len(ns) : j # i => /\ ns2[j].value = ns[j].value /\ ns2[j].key = ns[j].key
                                         /\ ns2[j].equal = ns[j].equal
      /\ i # 0 => /\ i \in 1..Len(ns) /\ ns2[i].equal # 0
                  /\ ns2[i].value # Null => ns2[i].value \in ks2 /\ ns2[i].value = Point(ns, g, i)
                  /\ ns[i].value # Null => ns[i].value \in {ns2[i].value, ns2[m].value}
      /\ ns2[m].value \in ks2 /\ ns2[m].value = g2[m].pre \o ns2[m].key
      /\ \A k \in ks2 : k \in ks \/ (i # 0 /\ ns2[i].value = k) \/ ns2[m].value = k
  BY DEF Valued
<1>1. /\ m = Len(ns) + 1 /\ Len(ns2) = m /\ Len(ns) \in Nat
      /\ \A j \in 1..Len(ns) : g2[j] = g[j] /\ HeadOf(ns2, j) = HeadOf(ns, j)
      /\ ns2[m].equal = 0
  BY DEF Grown, Typed
<1>2. 1..Len(ns2) = 1..Len(ns) \union {m} /\ m \notin 1..Len(ns) /\ m # 0  BY <1>1
<1>3. \A j \in 1..Len(ns) : Point(ns2, g2, j) = Point(ns, g, j)  BY <1>1 DEF Point
<1>4. ns2[m].value # Null  BY <1>0, PtreeAssumption DEF Typed
<1>5. ASSUME NEW j \in 1..Len(ns2), ns2[j].value # Null
      PROVE  /\ ns2[j].value \in ks2
             /\ ns2[j].equal = 0 => ns2[j].value = g2[j].pre \o ns2[j].key
             /\ ns2[j].equal # 0 => ns2[j].value = Point(ns2, g2, j)
  <2>1. CASE j = m  BY <1>0, <1>1, <2>1
  <2>2. CASE j # m /\ j = i
    <3>1. i # 0  BY <1>1, <2>2
    <3>2. /\ i \in 1..Len(ns) /\ ns2[i].equal # 0
          /\ ns2[i].value # Null => ns2[i].value \in ks2 /\ ns2[i].value = Point(ns, g, i)
      BY <1>0, <3>1
    <3> QED  BY <1>3, <1>5, <2>2, <3>2
  <2>3. CASE j # m /\ j # i
    <3>1. j \in 1..Len(ns)  BY <1>2, <2>3
    <3>2. /\ ns2[j].value = ns[j].value /\ ns2[j].key = ns[j].key /\ ns2[j].equal = ns[j].equal
          /\ g2[j] = g[j]
      BY <1>0, <1>1, <2>3, <3>1
    <3>3. /\ ns[j].value \in ks
          /\ ns[j].equal = 0 => ns[j].value = g[j].pre \o ns[j].key
          /\ ns[j].equal # 0 => ns[j].value = Point(ns, g, j)
      BY <1>5, <3>1, <3>2 DEF Vals
    <3> QED  BY <1>0, <1>3, <3>1, <3>2, <3>3
  <2> QED  BY <2>1, <2>2, <2>3
<1>6. ASSUME NEW j \in 1..Len(ns2), ns2[j].equal = 0  PROVE ns2[j].value # Null
  <2>1. CASE j = m  BY <1>4, <2>1
  <2>2. CASE j # m
    <3>4. j \in 1..Len(ns) /\ j # 0  BY <1>1, <1>2, <2>2
    <3>5. i # 0 => ns2[i].equal # 0  BY <1>0
    <3>1. j \in 1..Len(ns) /\ j # i  BY <1>6, <3>4, <3>5
    <3>2. ns[j].equal = 0  BY <1>0, <1>6, <3>1
    <3>3. ns[j].value # Null  BY <3>1, <3>2 DEF Vals
    <3> QED  BY <1>0, <3>1, <3>3
  <2> QED  BY <2>1, <2>2
<1>7. ASSUME NEW k \in ks2  PROVE \E j \in 1..Len(ns2) : ns2[j].value = k
  <2>1. CASE k \in ks
    <3>1. PICK j \in 1..Len(ns) : ns[j].value = k  BY <2>1 DEF Vals
    <3>2. k # Null  BY PtreeAssumption DEF Typed
    <3>3. CASE j # i  BY <1>0, <1>2, <3>1, <3>3
    <3>4. CASE j = i
      <4>1. i # 0  BY <3>4
      <4>2. k \in {ns2[i].value, ns2[m].value}  BY <1>0, <3>1, <3>2, <3>4, <4>1
      <4> QED  BY <1>2, <3>4, <4>2
    <3> QED  BY <3>3, <3>4
  <2>2. CASE k \notin ks
    <3>1. (i # 0 /\ ns2[i].value = k) \/ ns2[m].value = k  BY <1>0, <2>2
    <3>2. i # 0 => i \in 1..Len(ns2)  BY <1>0, <1>2
    <3> QED  BY <1>2, <3>1, <3>2
  <2> QED  BY <2>1, <2>2
<1>8. ASSUME NEW j \in 1..Len(ns2)
      PROVE  \E k \in ks2 : /\ Len(g2[j].pre) + 1 \in 1..Len(k)
                            /\ SubSeq(k, 1, Len(g2[j].pre) + 1) = Point(ns2, g2, j)
  <2>1. CASE j = m
    <3>1. g2[m].pre \in Seq(Char) /\ ns2[m].key \in Seq(Char) /\ ns2[m].key # <<>>
      BY <1>2, NodeTypes
    <3>2. PICK p \in Seq(Char), s \in Seq(Char) : p = g2[m].pre /\ s = ns2[m].key  BY <3>1
    <3>3. SubSeq(p \o s, 1, Len(p) + 1) = Append(p, Head(s))  BY <3>1, <3>2, Shift
    <3>4. Len(p \o s) = Len(p) + Len(s) /\ Len(s) \in Nat \ {0} /\ Len(p) \in Nat
      BY <3>1, <3>2, HeadFirst, ConcatProperties
    <3>5. PICK a \in Nat, b \in Nat \ {0} : a = Len(p) /\ b = Len(s)  BY <3>4
    <3>6. a + 1 \in 1..(a + b)  OBVIOUS
    <3>7. Len(p) + 1 \in 1..Len(p \o s)  BY <3>4, <3>5, <3>6
    <3>8. Point(ns2, g2, m) = Append(p, Head(s))  BY <3>2 DEF Point, HeadOf
    <3>9. p \o s \in ks2  BY <1>0, <3>2
    <3> QED  BY <2>1, <3>2, <3>3, <3>7, <3>8, <3>9
  <2>2. CASE j # m
    <3>1. j \in 1..Len(ns) /\ g2[j] = g[j]  BY <1>1, <1>2, <2>2
    <3>2. \E k \in ks : /\ Len(g[j].pre) + 1 \in 1..Len(k)
                        /\ SubSeq(k, 1, Len(g[j].pre) + 1) = Point(ns, g, j)
      BY <3>1 DEF Vals
    <3> QED  BY <1>0, <1>3, <3>1, <3>2
  <2> QED  BY <2>1, <2>2
<1> QED  BY <1>5, <1>6, <1>7, <1>8 DEF Vals

-----------------------------------------------------------------------------
\* A key that branches off.
LEMMA PutAside ==
  ASSUME NEW ns, NEW rs, NEW ks, NEW g, Tree(ns, rs, ks, g),
         NEW i \in 1..Len(ns), NEW side \in Sides, NEW s \in Seq(Char), s # <<>>,
         NEW k \in Key, k = g[i].pre \o s,
         Head(s) \in g[i].span, Beyond(side, Head(s), HeadOf(ns, i)), Way(ns, i, side) = 0
  PROVE  \E g2 : Tree(Append([ns EXCEPT ![i][side] = Len(ns) + 1], Node(s, k)), rs, ks \union {k}, g2)
<1> DEFINE m == Len(ns) + 1
           ns2 == Append([ns EXCEPT ![i][side] = m], Node(s, k))
           e == [lev |-> g[i].lev, pre |-> g[i].pre,
                 span |-> {c \in g[i].span : Beyond(side, c, HeadOf(ns, i))}]
           g2 == Append(g, e)
           ks2 == ks \union {k}
<1>1. Typed(ns, rs, ks, g) /\ Linked(ns, rs, g) /\ Apart(ns, g) /\ Paths(ns, g) /\ Vals(ns, ks, g)
  BY DEF Tree
<1>2. ns \in Seq(NodeSet) /\ g \in Seq(Ghost) /\ Len(g) = Len(ns) /\ Len(ns) \in Nat
  BY <1>1 DEF Typed
<1>3. g[i] \in Ghost /\ e \in Ghost  BY <1>1, NodeTypes DEF Ghost
<1>4. /\ Node(s, k) \in NodeSet /\ Node(s, k).before = 0 /\ Node(s, k).equal = 0
      /\ Node(s, k).after = 0 /\ Node(s, k).key = s /\ Node(s, k).value = k
  BY DEF Node, NodeSet
<1>5. PICK w \in NodeSet :
        /\ w = [ns[i] EXCEPT ![side] = m]
        /\ w.key = ns[i].key /\ w.value = ns[i].value /\ w.equal = ns[i].equal
        /\ side = "before" => w.before = m /\ w.after = ns[i].after
        /\ side # "before" => w.after = m /\ w.before = ns[i].before
  <2>1. PICK x \in NodeSet : x = ns[i]  BY <1>2
  <2>2. m \in Nat  BY <1>2
  <2> HIDE DEF m
  <2>3. CASE side = "before"
    <3>1. [x EXCEPT !["before"] = m] \in NodeSet  BY <2>2 DEF NodeSet
    <3> QED  BY <2>1, <2>3, <3>1 DEF NodeSet
  <2>4. CASE side = "after"
    <3>1. [x EXCEPT !["after"] = m] \in NodeSet  BY <2>2 DEF NodeSet
    <3> QED  BY <2>1, <2>4, <3>1 DEF NodeSet
  <2> QED  BY <2>3, <2>4 DEF Sides
<1>6. /\ ns2 \in Seq(NodeSet) /\ Len(ns2) = m /\ ns2[m] = Node(s, k)
      /\ \A j \in 1..Len(ns) : ns2[j] = IF j = i THEN w ELSE ns[j]
  <2>1. [ns EXCEPT ![i][side] = m] = [ns EXCEPT ![i] = w]  BY <1>5
  <2>2. PICK n \in NodeSet : n = Node(s, k)  BY <1>4
  <2>3. ns2 = Append([ns EXCEPT ![i] = w], n)  BY <2>1, <2>2
  <2>4. /\ [ns EXCEPT ![i] = w] \in Seq(NodeSet) /\ Len([ns EXCEPT ![i] = w]) = Len(ns)
        /\ \A j \in 1..Len(ns) : [ns EXCEPT ![i] = w][j] = IF j = i THEN w ELSE ns[j]
    BY <1>2
  <2>5. PICK t \in Seq(NodeSet) : t = [ns EXCEPT ![i] = w]  BY <2>4
  <2>6. ns2 = Append(t, n)  BY <2>3, <2>5
  <2>7. /\ Append(t, n) \in Seq(NodeSet) /\ Len(Append(t, n)) = Len(t) + 1
        /\ Append(t, n)[Len(t) + 1] = n /\ \A j \in 1..Len(t) : Append(t, n)[j] = t[j]
    OBVIOUS
  <2> QED  BY <2>2, <2>4, <2>5, <2>6, <2>7
<1>7. /\ g2 \in Seq(Ghost) /\ Len(g2) = m /\ g2[m] = e
      /\ \A j \in 1..Len(ns) : g2[j] = g[j]
  <2>1. PICK h \in Seq(Ghost), x \in Ghost : h = g /\ x = e  BY <1>2, <1>3
  <2>2. /\ Append(h, x) \in Seq(Ghost) /\ Len(Append(h, x)) = Len(h) + 1
        /\ Append(h, x)[Len(h) + 1] = x /\ \A j \in 1..Len(h) : Append(h, x)[j] = h[j]
    OBVIOUS
  <2> QED  BY <1>2, <2>1, <2>2
<1>8. ks2 \subseteq Key /\ rs \in [Roots -> Nat]  BY <1>1 DEF Typed
<1>9. Typed(ns2, rs, ks2, g2)  BY <1>6, <1>7, <1>8 DEF Typed
<1>10. /\ e.lev = g[i].lev /\ e.pre = g[i].pre
       /\ \A c : c \in e.span <=> c \in g[i].span /\ Beyond(side, c, HeadOf(ns, i))
  OBVIOUS
<1> HIDE DEF m, ns2, e, g2, ks2
<1>11. \A j \in 1..Len(ns) : HeadOf(ns2, j) = HeadOf(ns, j)  BY <1>5, <1>6 DEF HeadOf
<1>12. HeadOf(ns2, m) = Head(s)  BY <1>4, <1>6 DEF HeadOf
<1>13. /\ \A j \in 1..Len(ns) : \A t \in Sides :
            Way(ns2, j, t) = IF j = i /\ t = side THEN m ELSE Way(ns, j, t)
       /\ \A j \in 1..Len(ns) : ns2[j].equal = ns[j].equal
  BY <1>5, <1>6 DEF Way, Sides
<1>14. m = Len(ns) + 1 /\ m # 0  BY <1>2 DEF m
<1>15. Grown(ns, rs, g, ns2, rs, g2, m)
  <2>1. /\ e.lev = 0 => e.pre = <<>> /\ \A c \in e.span : rs[RootOf[c]] # 0
        /\ e.lev # 0 => /\ e.lev \in 1..Len(ns) /\ ns[e.lev].equal # 0
                        /\ e.pre = Point(ns, g, e.lev)
    BY <1>1, <1>10 DEF Linked
  <2>2. ns2[m].before = 0 /\ ns2[m].equal = 0 /\ ns2[m].after = 0  BY <1>4, <1>6
  <2>3. \A j \in 1..Len(ns) : \A t \in Sides :
           \/ Way(ns2, j, t) = Way(ns, j, t)
           \/ /\ Way(ns2, j, t) = m /\ Way(ns, j, t) = 0 /\ g2[m].lev = g[j].lev
              /\ \A c \in g[j].span : Beyond(t, c, HeadOf(ns, j)) => c \in g2[m].span
    BY <1>7, <1>10, <1>13
  <2>4. HeadOf(ns2, m) \in g2[m].span  BY <1>7, <1>10, <1>12
  <2> QED  BY <1>6, <1>7, <1>11, <1>13, <1>14, <2>1, <2>2, <2>3, <2>4 DEF Grown
<1>16. Free(ns, ns2, g, g2, m)
  <2>1. SUFFICES ASSUME NEW j \in 1..Len(ns), g[j].lev = g2[m].lev
                 PROVE  /\ HeadOf(ns, j) # HeadOf(ns2, m)
                        /\ \A t \in Sides : ~ InGap(ns2, g2, j, t, HeadOf(ns2, m))
                        /\ \A t \in Sides, c \in Char : InGap(ns2, g2, m, t, c) =>
                             c # HeadOf(ns, j) /\ \A u \in Sides : ~ InGap(ns2, g2, j, u, c)
    BY DEF Free
  <2>2. g[j].lev = g[i].lev  BY <1>7, <1>10, <2>1
  <2>3. /\ \A u \in Sides, c \in Char : InGap(ns, g, i, side, c) /\ InGap(ns, g, j, u, c) => i = j /\ side = u
        /\ ~ InGap(ns, g, i, side, HeadOf(ns, j))
    BY <1>1, <2>2 DEF Apart
  <2>4. \A c \in Char : c \in e.span =>
          InGap(ns, g, i, side, c) /\ \A u \in Sides : ~ InGap(ns2, g2, j, u, c)
    <3>1. SUFFICES ASSUME NEW c \in Char, c \in e.span, NEW u \in Sides
                   PROVE  InGap(ns, g, i, side, c) /\ ~ InGap(ns2, g2, j, u, c)
      BY DEF Sides
    <3>2. InGap(ns, g, i, side, c)  BY <1>10, <3>1 DEF InGap
    <3>3. CASE j = i /\ u = side
      <4>1. Way(ns2, j, u) # 0  BY <1>13, <1>14, <3>3
      <4> QED  BY <3>2, <4>1 DEF InGap
    <3>4. CASE ~ (j = i /\ u = side)
      <4>1. InGap(ns2, g2, j, u, c) => InGap(ns, g, j, u, c)
        BY <1>7, <1>11, <1>13, <3>4 DEF InGap
      <4> QED  BY <2>3, <3>2, <3>4, <4>1
    <3> QED  BY <3>3, <3>4
  <2>5. HeadOf(ns2, m) \in Char /\ HeadOf(ns2, m) \in e.span
    <3>1. Head(s) \in Char  BY HeadFirst
    <3> QED  BY <1>10, <1>12, <3>1
  <2>6. \A t \in Sides, c \in Char : InGap(ns2, g2, m, t, c) => c \in e.span  BY <1>7 DEF InGap
  <2> QED  BY <2>3, <2>4, <2>5, <2>6
<1>17. Linked(ns2, rs, g2)  BY <1>1, <1>9, <1>15, GrowLinked
<1>18. Apart(ns2, g2)  BY <1>1, <1>9, <1>15, <1>16, GrowApart
<1>19. Paths(ns2, g2)  BY <1>1, <1>9, <1>15, <1>16, GrowPaths
<1>20. Vals(ns2, ks2, g2)
  <2>1. \A j \in 1..Len(ns) : /\ ns2[j].value = ns[j].value /\ ns2[j].key = ns[j].key
                              /\ ns2[j].equal = ns[j].equal
    BY <1>5, <1>6
  <2>2. ns2[m].value \in ks2 /\ ns2[m].value = g2[m].pre \o ns2[m].key
    BY <1>4, <1>6, <1>7, <1>10 DEF ks2
  <2>3. ks \subseteq ks2 /\ \A q \in ks2 : q \in ks \/ ns2[m].value = q  BY <1>4, <1>6 DEF ks2
  <2>4. Valued(ns, ks, g, ns2, ks2, g2, m, 0)  BY <2>1, <2>2, <2>3 DEF Valued
  <2> QED  BY <1>1, <1>9, <1>15, <2>4, GrowVals
<1>21. Tree(ns2, rs, ks2, g2)  BY <1>9, <1>17, <1>18, <1>19, <1>20 DEF Tree
<1> QED  BY <1>21 DEF ns2, m, ks2

\* What a node says of its own key is that of its beginning.
LEMMA FreshLevel ==
  ASSUME NEW ns, NEW rs, NEW g, Linked(ns, rs, g), NEW i \in 1..Len(ns), ns[i].equal = 0
  PROVE  \A j \in 1..Len(ns) : g[j].lev # i
<1>1. \A j \in 1..Len(ns) : g[j].lev # 0 => ns[g[j].lev].equal # 0  BY DEF Linked
<1>2. i # 0  OBVIOUS
<1> QED  BY <1>1, <1>2

\* Everything that goes on after p comes to the node n.
LeadsTo(g, n, p) == g[n].pre = p /\ g[n].span = Char

\* A node below another: the rest of its key, or that of the key stored.
LEMMA PutEqual ==
  ASSUME NEW ns, NEW rs, NEW ks, NEW g, Tree(ns, rs, ks, g),
         NEW i \in 1..Len(ns), ns[i].equal = 0,
         NEW v \in Key \union {Null}, NEW w \in Key, NEW s \in Seq(Char), s # <<>>,
         NEW ks2 \in SUBSET Key, ks \subseteq ks2,
         w \in ks2, w = Point(ns, g, i) \o s,
         v # Null => v \in ks2 /\ v = Point(ns, g, i),
         ns[i].value \in {v, w},
         \A k \in ks2 : k \in ks \/ k = v \/ k = w
  PROVE  \E g2 : /\ Tree(Append([ns EXCEPT ![i].equal = Len(ns) + 1, ![i].value = v], Node(s, w)),
                         rs, ks2, g2)
                 /\ LeadsTo(g2, Len(ns) + 1, Point(ns, g, i))
<1> DEFINE m == Len(ns) + 1
           ns2 == Append([ns EXCEPT ![i].equal = m, ![i].value = v], Node(s, w))
           e == [lev |-> i, pre |-> Point(ns, g, i), span |-> Char]
           g2 == Append(g, e)
<1>1. Typed(ns, rs, ks, g) /\ Linked(ns, rs, g) /\ Apart(ns, g) /\ Paths(ns, g) /\ Vals(ns, ks, g)
  BY DEF Tree
<1>2. ns \in Seq(NodeSet) /\ g \in Seq(Ghost) /\ Len(g) = Len(ns) /\ Len(ns) \in Nat
  BY <1>1 DEF Typed
<1>3. Point(ns, g, i) \in Seq(Char) /\ e \in Ghost  BY <1>1, NodeTypes DEF Ghost
<1>4. /\ Node(s, w) \in NodeSet /\ Node(s, w).before = 0 /\ Node(s, w).equal = 0
      /\ Node(s, w).after = 0 /\ Node(s, w).key = s /\ Node(s, w).value = w
  BY DEF Node, NodeSet
<1>5. PICK x \in NodeSet :
        /\ x = [ns[i] EXCEPT !.equal = m, !.value = v]
        /\ x.key = ns[i].key /\ x.value = v /\ x.equal = m
        /\ x.before = ns[i].before /\ x.after = ns[i].after
  <2>1. PICK y \in NodeSet : y = ns[i]  BY <1>2
  <2>2. m \in Nat  BY <1>2
  <2> HIDE DEF m
  <2>3. [y EXCEPT !.equal = m, !.value = v] \in NodeSet  BY <2>2 DEF NodeSet
  <2> QED  BY <2>1, <2>3 DEF NodeSet
<1>6. /\ ns2 \in Seq(NodeSet) /\ Len(ns2) = m /\ ns2[m] = Node(s, w)
      /\ \A j \in 1..Len(ns) : ns2[j] = IF j = i THEN x ELSE ns[j]
  <2>1. [ns EXCEPT ![i].equal = m, ![i].value = v] = [ns EXCEPT ![i] = x]  BY <1>2, <1>5
  <2>2. PICK n \in NodeSet : n = Node(s, w)  BY <1>4
  <2>3. ns2 = Append([ns EXCEPT ![i] = x], n)  BY <2>1, <2>2
  <2>4. /\ [ns EXCEPT ![i] = x] \in Seq(NodeSet) /\ Len([ns EXCEPT ![i] = x]) = Len(ns)
        /\ \A j \in 1..Len(ns) : [ns EXCEPT ![i] = x][j] = IF j = i THEN x ELSE ns[j]
    BY <1>2
  <2>5. PICK t \in Seq(NodeSet) : t = [ns EXCEPT ![i] = x]  BY <2>4
  <2>6. ns2 = Append(t, n)  BY <2>3, <2>5
  <2>7. /\ Append(t, n) \in Seq(NodeSet) /\ Len(Append(t, n)) = Len(t) + 1
        /\ Append(t, n)[Len(t) + 1] = n /\ \A j \in 1..Len(t) : Append(t, n)[j] = t[j]
    OBVIOUS
  <2> QED  BY <2>2, <2>4, <2>5, <2>6, <2>7
<1>7. /\ g2 \in Seq(Ghost) /\ Len(g2) = m /\ g2[m] = e
      /\ \A j \in 1..Len(ns) : g2[j] = g[j]
  <2>1. PICK h \in Seq(Ghost), y \in Ghost : h = g /\ y = e  BY <1>2, <1>3
  <2>2. /\ Append(h, y) \in Seq(Ghost) /\ Len(Append(h, y)) = Len(h) + 1
        /\ Append(h, y)[Len(h) + 1] = y /\ \A j \in 1..Len(h) : Append(h, y)[j] = h[j]
    OBVIOUS
  <2> QED  BY <1>2, <2>1, <2>2
<1>8. rs \in [Roots -> Nat]  BY <1>1 DEF Typed
<1>9. Typed(ns2, rs, ks2, g2)  BY <1>6, <1>7, <1>8 DEF Typed
<1>10. e.lev = i /\ e.pre = Point(ns, g, i) /\ e.span = Char  OBVIOUS
<1> HIDE DEF m, ns2, e, g2
<1>11. \A j \in 1..Len(ns) : HeadOf(ns2, j) = HeadOf(ns, j)  BY <1>5, <1>6 DEF HeadOf
<1>12. HeadOf(ns2, m) = Head(s) /\ Head(s) \in Char  BY <1>4, <1>6, HeadFirst DEF HeadOf
<1>13. /\ \A j \in 1..Len(ns) : \A t \in Sides : Way(ns2, j, t) = Way(ns, j, t)
       /\ \A j \in 1..Len(ns) : ns2[j].equal = IF j = i THEN m ELSE ns[j].equal
  BY <1>5, <1>6 DEF Way
<1>14. m = Len(ns) + 1 /\ m # 0 /\ i # 0  BY <1>2 DEF m
<1>15. Grown(ns, rs, g, ns2, rs, g2, m)
  <2>1. ns2[m].before = 0 /\ ns2[m].equal = 0 /\ ns2[m].after = 0  BY <1>4, <1>6
  <2>2. \A j \in 1..Len(ns) :
          \/ ns2[j].equal = ns[j].equal
          \/ ns2[j].equal = m /\ ns[j].equal = 0 /\ g2[m].lev = j /\ g2[m].span = Char
    BY <1>7, <1>10, <1>13
  <2>3. HeadOf(ns2, m) \in g2[m].span  BY <1>7, <1>10, <1>12
  <2>4. g2[m].lev = i /\ g2[m].pre = Point(ns, g, g2[m].lev) /\ ns2[i].equal # 0
    BY <1>7, <1>10, <1>13, <1>14
  <2> QED  BY <1>6, <1>7, <1>11, <1>13, <1>14, <2>1, <2>2, <2>3, <2>4 DEF Grown
<1>16. Free(ns, ns2, g, g2, m)
  <2>1. \A j \in 1..Len(ns) : g[j].lev # i  BY <1>1, FreshLevel
  <2> QED  BY <1>7, <1>10, <2>1 DEF Free
<1>17. Linked(ns2, rs, g2)  BY <1>1, <1>9, <1>15, GrowLinked
<1>18. Apart(ns2, g2)  BY <1>1, <1>9, <1>15, <1>16, GrowApart
<1>19. Paths(ns2, g2)  BY <1>1, <1>9, <1>15, <1>16, GrowPaths
<1>20. Vals(ns2, ks2, g2)
  <2>1. \A j \in 1..Len(ns) : j # i => /\ ns2[j].value = ns[j].value /\ ns2[j].key = ns[j].key
                                       /\ ns2[j].equal = ns[j].equal
    BY <1>6
  <2>2. ns2[m].value = w /\ ns2[m].key = s /\ g2[m].pre = Point(ns, g, i)
    BY <1>4, <1>6, <1>7, <1>10
  <2>3. ns2[i].value = v /\ ns2[i].equal # 0  BY <1>5, <1>6, <1>13, <1>14
  <2>4. Valued(ns, ks, g, ns2, ks2, g2, m, i)  BY <2>1, <2>2, <2>3 DEF Valued
  <2> QED  BY <1>1, <1>9, <1>15, <2>4, GrowVals
<1>21. Tree(ns2, rs, ks2, g2)  BY <1>9, <1>17, <1>18, <1>19, <1>20 DEF Tree
<1>22. LeadsTo(g2, m, Point(ns, g, i))  BY <1>7, <1>10 DEF LeadsTo
<1> QED  BY <1>21, <1>22 DEF ns2, m

\* The first key of a root.
LEMMA PutRoot ==
  ASSUME NEW ns, NEW rs, NEW ks, NEW g, Tree(ns, rs, ks, g),
         NEW k \in Key, rs[RootOf[Head(k)]] = 0
  PROVE  \E g2 : Tree(Append(ns, Node(k, k)), [rs EXCEPT ![RootOf[Head(k)]] = Len(ns) + 1],
                      ks \union {k}, g2)
<1> DEFINE m == Len(ns) + 1
           r == RootOf[Head(k)]
           ns2 == Append(ns, Node(k, k))
           rs2 == [rs EXCEPT ![r] = m]
           e == [lev |-> 0, pre |-> <<>>, span |-> {c \in Char : RootOf[c] = r}]
           g2 == Append(g, e)
           ks2 == ks \union {k}
<1>1. Typed(ns, rs, ks, g) /\ Linked(ns, rs, g) /\ Apart(ns, g) /\ Paths(ns, g) /\ Vals(ns, ks, g)
  BY DEF Tree
<1>2. ns \in Seq(NodeSet) /\ g \in Seq(Ghost) /\ Len(g) = Len(ns) /\ Len(ns) \in Nat
      /\ rs \in [Roots -> Nat] /\ ks \subseteq Key
  BY <1>1 DEF Typed
<1>3. k \in Seq(Char) /\ k # <<>>  BY PtreeAssumption
<1>4. Head(k) \in Char /\ r \in Roots  BY <1>3, HeadFirst, RootsOf
<1>5. <<>> \in Seq(Char) /\ e \in Ghost  BY DEF Ghost
<1>6. /\ Node(k, k) \in NodeSet /\ Node(k, k).before = 0 /\ Node(k, k).equal = 0
      /\ Node(k, k).after = 0 /\ Node(k, k).key = k /\ Node(k, k).value = k
  BY <1>3 DEF Node, NodeSet
<1>7. /\ ns2 \in Seq(NodeSet) /\ Len(ns2) = m /\ ns2[m] = Node(k, k)
      /\ \A j \in 1..Len(ns) : ns2[j] = ns[j]
  <2>1. PICK t \in Seq(NodeSet), n \in NodeSet : t = ns /\ n = Node(k, k)  BY <1>2, <1>6
  <2>2. /\ Append(t, n) \in Seq(NodeSet) /\ Len(Append(t, n)) = Len(t) + 1
        /\ Append(t, n)[Len(t) + 1] = n /\ \A j \in 1..Len(t) : Append(t, n)[j] = t[j]
    OBVIOUS
  <2> QED  BY <2>1, <2>2
<1>8. /\ g2 \in Seq(Ghost) /\ Len(g2) = m /\ g2[m] = e
      /\ \A j \in 1..Len(ns) : g2[j] = g[j]
  <2>1. PICK h \in Seq(Ghost), y \in Ghost : h = g /\ y = e  BY <1>2, <1>5
  <2>2. /\ Append(h, y) \in Seq(Ghost) /\ Len(Append(h, y)) = Len(h) + 1
        /\ Append(h, y)[Len(h) + 1] = y /\ \A j \in 1..Len(h) : Append(h, y)[j] = h[j]
    OBVIOUS
  <2> QED  BY <1>2, <2>1, <2>2
<1>9. e.lev = 0 /\ e.pre = <<>> /\ \A c : c \in e.span <=> c \in Char /\ RootOf[c] = r  OBVIOUS
<1>10. m = Len(ns) + 1 /\ m # 0 /\ m \in Nat  BY <1>2
<1> HIDE DEF m, ns2, e, g2
<1>11. rs2 \in [Roots -> Nat] /\ rs2[r] = m /\ \A q \in Roots : q # r => rs2[q] = rs[q]
  BY <1>2, <1>4, <1>10
<1> HIDE DEF rs2, r
<1>12. Typed(ns2, rs2, ks2, g2)  BY <1>2, <1>7, <1>8, <1>11 DEF Typed
<1>13. \A j \in 1..Len(ns) : HeadOf(ns2, j) = HeadOf(ns, j)  BY <1>7 DEF HeadOf
<1>14. HeadOf(ns2, m) = Head(k) /\ Head(k) \in e.span
  <2>1. RootOf[Head(k)] = r  BY DEF r
  <2> QED  BY <1>4, <1>6, <1>7, <1>9, <2>1 DEF HeadOf
<1>15. rs[r] = 0  BY DEF r
<1>16. /\ \A j \in 1..Len(ns) : \A t \in Sides : Way(ns2, j, t) = Way(ns, j, t)
       /\ \A j \in 1..Len(ns) : ns2[j].equal = ns[j].equal
  BY <1>7 DEF Way
<1>17. Grown(ns, rs, g, ns2, rs2, g2, m)
  <2>1. ns2[m].before = 0 /\ ns2[m].equal = 0 /\ ns2[m].after = 0  BY <1>6, <1>7
  <2>2. \A q \in Roots :
           \/ rs2[q] = rs[q]
           \/ /\ rs2[q] = m /\ rs[q] = 0 /\ g2[m].lev = 0
              /\ \A c \in Char : RootOf[c] = q => c \in g2[m].span
    BY <1>8, <1>9, <1>11, <1>15
  <2>3. HeadOf(ns2, m) \in g2[m].span  BY <1>8, <1>14
  <2>4. g2[m].lev = 0 /\ g2[m].pre = <<>> /\ \A c \in g2[m].span : rs2[RootOf[c]] # 0
    BY <1>8, <1>9, <1>10, <1>11
  <2> QED  BY <1>7, <1>8, <1>10, <1>13, <1>16, <2>1, <2>2, <2>3, <2>4 DEF Grown
<1>18. Free(ns, ns2, g, g2, m)
  <2>1. SUFFICES ASSUME NEW j \in 1..Len(ns), g[j].lev = g2[m].lev
                 PROVE  /\ HeadOf(ns, j) # HeadOf(ns2, m)
                        /\ \A t \in Sides : ~ InGap(ns2, g2, j, t, HeadOf(ns2, m))
                        /\ \A t \in Sides, c \in Char : InGap(ns2, g2, m, t, c) =>
                             c # HeadOf(ns, j) /\ \A u \in Sides : ~ InGap(ns2, g2, j, u, c)
    BY DEF Free
  <2>2. g[j].lev = 0  BY <1>8, <1>9, <2>1
  <2>3. \A c \in g[j].span : rs[RootOf[c]] # 0  BY <1>1, <2>2 DEF Linked
  <2>4. \A c : c \in e.span => c \notin g[j].span  BY <1>9, <1>15, <2>3
  <2>5. HeadOf(ns, j) \in g[j].span  BY <1>1 DEF Linked
  <2>6. g2[m] = e /\ g2[j] = g[j]  BY <1>8
  <2> QED  BY <1>14, <2>4, <2>5, <2>6 DEF InGap
<1>19. Linked(ns2, rs2, g2)  BY <1>1, <1>12, <1>17, GrowLinked
<1>20. Apart(ns2, g2)  BY <1>1, <1>12, <1>17, <1>18, GrowApart
<1>21. Paths(ns2, g2)  BY <1>1, <1>12, <1>17, <1>18, GrowPaths
<1>22. Vals(ns2, ks2, g2)
  <2>1. \A j \in 1..Len(ns) : /\ ns2[j].value = ns[j].value /\ ns2[j].key = ns[j].key
                              /\ ns2[j].equal = ns[j].equal
    BY <1>7
  <2>2. <<>> \o k = k  BY <1>3, ConcatEmptySeq
  <2>3. ns2[m].value = k /\ ns2[m].value = g2[m].pre \o ns2[m].key
    BY <1>6, <1>7, <1>8, <1>9, <2>2
  <2>4. Valued(ns, ks, g, ns2, ks2, g2, m, 0)  BY <2>1, <2>3 DEF Valued
  <2> QED  BY <1>1, <1>12, <1>17, <2>4, GrowVals
<1>23. Tree(ns2, rs2, ks2, g2)  BY <1>12, <1>19, <1>20, <1>21, <1>22 DEF Tree
<1> QED  BY <1>23 DEF ns2, rs2, m, r

\* A node that led on only is given a payload.
LEMMA PutValue ==
  ASSUME NEW ns, NEW rs, NEW ks, NEW g, Tree(ns, rs, ks, g),
         NEW i \in 1..Len(ns), ns[i].value = Null, NEW k \in Key, k = Point(ns, g, i)
  PROVE  Tree([ns EXCEPT ![i].value = k], rs, ks \union {k}, g)
<1> DEFINE ns2 == [ns EXCEPT ![i].value = k]
           ks2 == ks \union {k}
<1>1. Typed(ns, rs, ks, g) /\ Linked(ns, rs, g) /\ Apart(ns, g) /\ Paths(ns, g) /\ Vals(ns, ks, g)
  BY DEF Tree
<1>2. ns \in Seq(NodeSet) /\ g \in Seq(Ghost) /\ Len(g) = Len(ns) /\ Len(ns) \in Nat
      /\ rs \in [Roots -> Nat] /\ ks \subseteq Key
  BY <1>1 DEF Typed
<1>3. PICK x \in NodeSet :
        /\ x = [ns[i] EXCEPT !.value = k]
        /\ x.key = ns[i].key /\ x.value = k /\ x.equal = ns[i].equal
        /\ x.before = ns[i].before /\ x.after = ns[i].after
  <2>1. PICK y \in NodeSet : y = ns[i]  BY <1>2
  <2>2. [y EXCEPT !.value = k] \in NodeSet  BY DEF NodeSet
  <2> QED  BY <2>1, <2>2 DEF NodeSet
<1>4. /\ ns2 \in Seq(NodeSet) /\ Len(ns2) = Len(ns)
      /\ \A j \in 1..Len(ns) : ns2[j] = IF j = i THEN x ELSE ns[j]
  <2>1. ns2 = [ns EXCEPT ![i] = x]  BY <1>2, <1>3
  <2>2. /\ [ns EXCEPT ![i] = x] \in Seq(NodeSet) /\ Len([ns EXCEPT ![i] = x]) = Len(ns)
        /\ \A j \in 1..Len(ns) : [ns EXCEPT ![i] = x][j] = IF j = i THEN x ELSE ns[j]
    BY <1>2
  <2> HIDE DEF ns2
  <2> QED  BY <2>1, <2>2
<1> HIDE DEF ns2
<1>5. Typed(ns2, rs, ks2, g)  BY <1>2, <1>4 DEF Typed
<1>6. /\ \A j \in 1..Len(ns) : HeadOf(ns2, j) = HeadOf(ns, j) /\ Point(ns2, g, j) = Point(ns, g, j)
      /\ \A j \in 1..Len(ns) : \A t \in Sides : Way(ns2, j, t) = Way(ns, j, t)
      /\ \A j \in 1..Len(ns) : ns2[j].equal = ns[j].equal /\ ns2[j].key = ns[j].key
  BY <1>3, <1>4 DEF HeadOf, Point, Way
<1>7. \A j \in 1..Len(ns), s \in Sides, c \in Char : InGap(ns2, g, j, s, c) <=> InGap(ns, g, j, s, c)
  BY <1>6 DEF InGap
<1>8. Linked(ns2, rs, g)  BY <1>1, <1>4, <1>6 DEF Linked
<1>9. Apart(ns2, g)
  <2>1. \A j \in 1..Len(ns) : HeadOf(ns, j) \in Char  BY <1>1, NodeTypes
  <2> QED  BY <1>1, <1>4, <1>6, <1>7, <2>1 DEF Apart
<1>10. Paths(ns2, g)
  <2>1. \A p : Spelt(ns, g, p) => Spelt(ns2, g, p)  BY <1>4, <1>6 DEF Spelt
  <2>2. \A a, b \in 1..Len(ns) : Point(ns2, g, a) = Point(ns2, g, b) => a = b
    BY <1>1, <1>6 DEF Paths
  <2>3. \A a \in 1..Len(ns) : Spelt(ns2, g, g[a].pre)  BY <1>1, <2>1 DEF Paths
  <2> QED  BY <1>4, <2>2, <2>3 DEF Paths
<1>11. ns[i].equal # 0  BY <1>1 DEF Vals
<1>12. \A j \in 1..Len(ns) : ns2[j].value = IF j = i THEN k ELSE ns[j].value  BY <1>3, <1>4
<1>13. k # Null  BY PtreeAssumption
<1>14. Vals(ns2, ks2, g)
  <2>1. ASSUME NEW j \in 1..Len(ns2), ns2[j].value # Null
        PROVE  /\ ns2[j].value \in ks2
               /\ ns2[j].equal = 0 => ns2[j].value = g[j].pre \o ns2[j].key
               /\ ns2[j].equal # 0 => ns2[j].value = Point(ns2, g, j)
    <3>1. CASE j = i  BY <1>4, <1>6, <1>11, <1>12, <3>1
    <3>2. CASE j # i
      <4>1. j \in 1..Len(ns) /\ ns2[j].value = ns[j].value  BY <1>4, <1>12, <3>2
      <4>2. /\ ns[j].value \in ks
            /\ ns[j].equal = 0 => ns[j].value = g[j].pre \o ns[j].key
            /\ ns[j].equal # 0 => ns[j].value = Point(ns, g, j)
        BY <1>1, <2>1, <4>1 DEF Vals
      <4> QED  BY <1>6, <4>1, <4>2
    <3> QED  BY <3>1, <3>2
  <2>2. \A j \in 1..Len(ns2) : ns2[j].equal = 0 => ns2[j].value # Null
    BY <1>1, <1>4, <1>6, <1>12, <1>13 DEF Vals
  <2>3. ASSUME NEW q \in ks2  PROVE \E j \in 1..Len(ns2) : ns2[j].value = q
    <3>1. CASE q = k  BY <1>4, <1>12, <3>1
    <3>2. CASE q # k
      <4>1. PICK j \in 1..Len(ns) : ns[j].value = q  BY <1>1, <3>2 DEF Vals
      <4>2. q # Null  BY <1>2, <3>2, PtreeAssumption
      <4>3. j # i  BY <4>1, <4>2
      <4> QED  BY <1>4, <1>12, <4>1, <4>3
    <3> QED  BY <3>1, <3>2
  <2>4. \A j \in 1..Len(ns2) : \E q \in ks2 :
          /\ Len(g[j].pre) + 1 \in 1..Len(q)
          /\ SubSeq(q, 1, Len(g[j].pre) + 1) = Point(ns2, g, j)
    <3>1. \A j \in 1..Len(ns) : \E q \in ks :
            /\ Len(g[j].pre) + 1 \in 1..Len(q)
            /\ SubSeq(q, 1, Len(g[j].pre) + 1) = Point(ns, g, j)
      BY <1>1 DEF Vals
    <3> QED  BY <1>4, <1>6, <3>1
  <2> QED  BY <2>1, <2>2, <2>3, <2>4 DEF Vals
<1> QED  BY <1>5, <1>8, <1>9, <1>10, <1>14 DEF Tree, ns2

-----------------------------------------------------------------------------
(***************************************************************************)
(* The calls.                                                              *)
(***************************************************************************)
CallSet ==
  [op : {"store", "fetch", "match"}, stage : {"compare", "done"}, text : Text, node : Nat,
   src : Seq(Char), cmp : Seq(Char), value : Key \union {Null}, known : BOOLEAN]

\* The call c compares what is left of its text with the whole key of a node on its way.
Sought(ns, g, c) ==
  /\ c.node # 0 /\ c.text = g[c.node].pre \o c.src /\ c.cmp = ns[c.node].key
  /\ c.src # <<>> => Head(c.src) \in g[c.node].span

Comparing(ns, rs, ks, g, c) ==
  /\ c.known <=> c.text \in ks
  /\ c.node \in 0..Len(ns)
  /\ c.node = 0 => c.op # "match" /\ c.src = c.text /\ rs[RootOf[Head(c.text)]] = 0
  /\ c.op # "match" => c.src # <<>>
  /\ c.op = "match" => c.cmp # <<>>
  /\ c.op = "store" => c.text \in Key /\ (c.node # 0 => Sought(ns, g, c))
  /\ c.op = "fetch" /\ c.text \in ks =>
       /\ c.node # 0
       /\ \/ Sought(ns, g, c)
          \/ ns[c.node].equal = 0 /\ ns[c.node].value = c.text /\ c.src = c.cmp
  /\ c.op = "match" /\ Complete(ks) =>
       /\ Sought(ns, g, c)
       /\ g[c.node].pre = <<>> => c.value = Null
       /\ g[c.node].pre # <<>> => c.value = g[c.node].pre

\* v is the longest key that the text starts with, and s what follows it.
Right(ks, text, v, s) ==
  /\ v # Null => v \in ks /\ IsPrefix(v, text) /\ text = v \o s
  /\ \A k \in ks : IsPrefix(k, text) => v # Null /\ Len(k) <= Len(v)

Answered(ks, c) ==
  /\ c.op = "store" => (c.value = Null <=> c.known)
  /\ c.op = "fetch" /\ c.text \in ks => c.value = c.text
  /\ c.op = "match" /\ Complete(ks) => Right(ks, c.text, c.value, c.src)

Good(ns, rs, ks, g, c) ==
  /\ c \in CallSet
  /\ c.stage = "compare" => Comparing(ns, rs, ks, g, c)
  /\ c.stage = "done" => Answered(ks, c)

Inv ==
  \E g : Tree(nodes, roots, keys, g) /\ (call # Null => Good(nodes, roots, keys, g, call))

LEMMA FirstOf ==
  ASSUME NEW s \in Seq(Char)
  PROVE  /\ First(s) \in Nat
         /\ s = <<>> => First(s) = 0
         /\ s # <<>> => First(s) = Head(s) /\ First(s) > 0 /\ Head(s) \in Char
<1>1. s # <<>> => Head(s) \in Char  BY HeadFirst
<1>2. \A c \in Char : c \in Nat /\ c > 0  BY PtreeAssumption
<1> QED  BY <1>1, <1>2 DEF First

\* The characters of a node and of what is sought there.
LEMMA Compared ==
  ASSUME NEW g, Tree(nodes, roots, keys, g), call \in CallSet, call.node \in 1..Len(nodes),
         call.cmp = nodes[call.node].key
  PROVE  /\ First(call.cmp) = HeadOf(nodes, call.node) /\ First(call.cmp) \in Char
         /\ call.src \in Seq(Char) /\ call.cmp # <<>>
         /\ Same => call.src # <<>> /\ Head(call.src) = HeadOf(nodes, call.node)
         /\ ~ Same /\ call.src # <<>> =>
              IF Earlier THEN Beyond("before", Head(call.src), HeadOf(nodes, call.node))
              ELSE Beyond("after", Head(call.src), HeadOf(nodes, call.node))
         /\ call.src = <<>> => Earlier /\ ~ Same
<1>1. call.src \in Seq(Char) /\ call.cmp \in Seq(Char)  BY DEF CallSet
<1>2. call.cmp # <<>>  BY NodeTypes DEF Tree
<1>3. /\ First(call.cmp) = Head(call.cmp) /\ First(call.cmp) > 0 /\ Head(call.cmp) \in Char
      /\ First(call.cmp) \in Nat
  BY <1>1, <1>2, FirstOf
<1>4. Head(call.cmp) = HeadOf(nodes, call.node)  BY DEF HeadOf
<1>5. /\ First(call.src) \in Nat
      /\ call.src = <<>> => First(call.src) = 0
      /\ call.src # <<>> => First(call.src) = Head(call.src)
  BY <1>1, FirstOf
<1>6. PICK a \in Nat, b \in Nat : a = First(call.src) /\ b = First(call.cmp)  BY <1>3, <1>5
<1>7. b > 0 /\ b = HeadOf(nodes, call.node) /\ b \in Char  BY <1>3, <1>4, <1>6
<1>8. /\ Same <=> a = b
      /\ Earlier <=> a < b
  BY <1>6 DEF Same, Earlier
<1>9. CASE call.src = <<>>
  <2>1. a = 0  BY <1>5, <1>6, <1>9
  <2> QED  BY <1>1, <1>2, <1>6, <1>7, <1>8, <1>9, <2>1
<1>10. CASE call.src # <<>>
  <2>1. a = Head(call.src)  BY <1>5, <1>6, <1>10
  <2>2. ~ Same => IF Earlier THEN a < b ELSE a > b  BY <1>8
  <2>3. ~ Same => IF Earlier THEN Beyond("before", a, b) ELSE Beyond("after", a, b)
    BY <2>2 DEF Beyond
  <2>4. Same => a = b  BY <1>8
  <2> QED  BY <1>1, <1>2, <1>6, <1>7, <1>10, <2>1, <2>3, <2>4
<1> QED  BY <1>9, <1>10

\* The character of its node is the next of the call.
Meets(ns, g, c) ==
  /\ c \in CallSet /\ c.node \in 1..Len(ns) /\ Sought(ns, g, c) /\ c.src # <<>>
  /\ Head(c.src) = HeadOf(ns, c.node)

\* Down to the next character.
LEMMA Down ==
  ASSUME NEW ns, NEW rs, NEW ks, NEW g, NEW c, Tree(ns, rs, ks, g), Meets(ns, g, c)
  PROVE  /\ Point(ns, g, c.node) \in Seq(Char) /\ Point(ns, g, c.node) # <<>>
         /\ Tail(c.src) \in Seq(Char) /\ c.text = Point(ns, g, c.node) \o Tail(c.src)
         /\ Tail(c.src) = <<>> => c.text = Point(ns, g, c.node)
<1>1. c.src \in Seq(Char) /\ c.src # <<>> /\ c.text = g[c.node].pre \o c.src
  BY DEF Meets, Sought, CallSet
<1>2. g[c.node].pre \in Seq(Char)  BY NodeTypes DEF Tree, Meets
<1>3. PICK p \in Seq(Char), s \in Seq(Char) : p = g[c.node].pre /\ s = c.src  BY <1>1, <1>2
<1>4. s # <<>>  BY <1>1, <1>3
<1>5. /\ Append(p, Head(s)) \in Seq(Char) /\ Append(p, Head(s)) # <<>>
      /\ p \o s = Append(p, Head(s)) \o Tail(s)
      /\ Tail(s) = <<>> => p \o s = Append(p, Head(s))
  BY <1>4, Shift
<1>6. Tail(s) \in Seq(Char)  BY <1>4, HeadFirst
<1>7. Point(ns, g, c.node) = Append(p, Head(s))  BY <1>3 DEF Point, Meets
<1>8. c.text = p \o s  BY <1>1, <1>3
<1> QED  BY <1>3, <1>5, <1>6, <1>7, <1>8

\* What the way down from a node leads to.
LEMMA Below ==
  ASSUME NEW ns, NEW rs, NEW ks, NEW g, NEW i \in 1..Len(ns), Tree(ns, rs, ks, g), ns[i].equal # 0
  PROVE  ns[i].equal \in 1..Len(ns) /\ LeadsTo(g, ns[i].equal, Point(ns, g, i))
<1>1. PICK n \in 1..Len(ns) : n = ns[i].equal /\ g[n].lev = i /\ g[n].span = Char
  BY DEF Tree, Linked
<1>2. g[n].lev # 0  BY <1>1
<1>3. g[n].pre = Point(ns, g, g[n].lev)  BY <1>2 DEF Tree, Linked
<1> QED  BY <1>1, <1>3 DEF LeadsTo

\* To the side, on the same level.
LEMMA Across ==
  ASSUME NEW ns, NEW rs, NEW ks, NEW g, Tree(ns, rs, ks, g), NEW c \in CallSet,
         c.node \in 1..Len(ns), Sought(ns, g, c), NEW s \in Sides, Way(ns, c.node, s) # 0,
         c.src # <<>> => Beyond(s, Head(c.src), HeadOf(ns, c.node))
  PROVE  LET n == Way(ns, c.node, s)
         IN  /\ n \in 1..Len(ns) /\ g[n].pre = g[c.node].pre
             /\ c.src # <<>> => Head(c.src) \in g[n].span
<1>1. PICK n \in 1..Len(ns) :
        /\ n = Way(ns, c.node, s) /\ g[n].lev = g[c.node].lev
        /\ \A d \in g[c.node].span : Beyond(s, d, HeadOf(ns, c.node)) => d \in g[n].span
  BY DEF Tree, Linked
<1>2. g[n].pre = g[c.node].pre  BY <1>1, SameLevel DEF Tree
<1> QED  BY <1>1, <1>2 DEF Sought

\* A call goes on at another node.
LEMMA Goes ==
  ASSUME NEW n \in Nat, NEW s \in Seq(Char), NEW tree, tree[n].key \in Seq(Char),
         call \in CallSet
  PROVE  /\ Go(n, s, tree) \in CallSet
         /\ Go(n, s, tree).node = n /\ Go(n, s, tree).src = s
         /\ Go(n, s, tree).cmp = tree[n].key
         /\ Go(n, s, tree).op = call.op /\ Go(n, s, tree).stage = call.stage
         /\ Go(n, s, tree).text = call.text /\ Go(n, s, tree).value = call.value
         /\ Go(n, s, tree).known = call.known
BY DEF Go, CallSet

LEMMA Returns ==
  ASSUME NEW v \in Key \union {Null}, call \in CallSet, Return(v)
  PROVE  /\ call' \in CallSet /\ call'.stage = "done" /\ call'.value = v
         /\ call'.op = call.op /\ call'.text = call.text /\ call'.known = call.known
         /\ call'.src = call.src
BY DEF Return, CallSet

\* A call begins at the root of the first character.
LEMMA Begins ==
  ASSUME NEW g, Tree(nodes, roots, keys, g), NEW op \in {"store", "fetch", "match"},
         NEW text \in Text, op = "store" => text \in Key, op = "match" => Root(text) # 0
  PROVE  Good(nodes, roots, keys, g, Begin(op, text))
<1> DEFINE c == Begin(op, text)
<1>1. text \in Seq(Char) /\ text # <<>>  BY PtreeAssumption DEF Text
<1>2. Head(text) \in Char /\ RootOf[Head(text)] \in Roots  BY <1>1, HeadFirst, RootsOf
<1>3. PICK r \in Nat : r = Root(text) /\ r = roots[RootOf[Head(text)]]
  BY <1>2 DEF Tree, Typed, Root
<1>4. r # 0 => /\ r \in 1..Len(nodes) /\ g[r].lev = 0 /\ Head(text) \in g[r].span
               /\ g[r].pre = <<>> /\ nodes[r].key \in Seq(Char) /\ nodes[r].key # <<>>
  <2>1. r # 0 => r \in 1..Len(nodes) /\ g[r].lev = 0 /\ Head(text) \in g[r].span
    BY <1>2, <1>3 DEF Tree, Linked
  <2>2. r # 0 => g[r].pre = <<>>  BY <2>1 DEF Tree, Linked
  <2>3. r # 0 => nodes[r].key \in Seq(Char) /\ nodes[r].key # <<>>  BY <2>1, NodeTypes DEF Tree
  <2> QED  BY <2>1, <2>2, <2>3
<1>5. <<>> \in Seq(Char)  OBVIOUS
<1>6. /\ c \in CallSet /\ c.op = op /\ c.stage = "compare" /\ c.text = text /\ c.node = r
      /\ c.src = text /\ c.value = Null /\ (c.known <=> text \in keys)
      /\ r # 0 => c.cmp = nodes[r].key
  <2>1. PICK z \in Seq(Char) : z = IF Root(text) = 0 THEN <<>> ELSE nodes[Root(text)].key
    BY <1>3, <1>4, <1>5
  <2>2. PICK b \in BOOLEAN : b = (text \in keys)
    <3>1. CASE text \in keys
      <4>1. (text \in keys) = TRUE  BY <3>1
      <4> QED  BY <4>1
    <3>2. CASE text \notin keys
      <4>1. (text \in keys) = FALSE  BY <3>2
      <4> QED  BY <4>1
    <3> QED  BY <3>1, <3>2
  <2>3. c = [op |-> op, stage |-> "compare", text |-> text, node |-> r, src |-> text, cmp |-> z,
             value |-> Null, known |-> b]
    BY <1>3, <2>1, <2>2 DEF Begin
  <2> HIDE DEF c
  <2>4. c \in CallSet  BY <1>1, <2>3 DEF CallSet
  <2> QED  BY <1>3, <2>1, <2>2, <2>3, <2>4
<1> HIDE DEF c
<1>7. r # 0 => Sought(nodes, g, c)
  <2>1. <<>> \o text = text  BY <1>1, ConcatEmptySeq
  <2> QED  BY <1>4, <1>6, <2>1 DEF Sought
<1>8. text \in keys => r # 0  BY <1>3, RootReach
<1>9. c.node \in 0..Len(nodes)
  <2>1. Len(nodes) \in Nat  BY DEF Tree, Typed
  <2> QED  BY <1>4, <1>6, <2>1
<1>10. op = "match" => r # 0  BY <1>3
<1>11. Comparing(nodes, roots, keys, g, c)
  BY <1>1, <1>3, <1>4, <1>6, <1>7, <1>8, <1>9, <1>10 DEF Comparing
<1>12. Good(nodes, roots, keys, g, c)  BY <1>6, <1>11 DEF Good
<1> QED  BY <1>12 DEF c

-----------------------------------------------------------------------------
\* What a store knows of its node.
LEMMA StoreAt ==
  ASSUME NEW g, Tree(nodes, roots, keys, g), Good(nodes, roots, keys, g, call), Storing
  PROVE  /\ call \in CallSet /\ call.op = "store" /\ call.stage = "compare" /\ call.text \in Key
         /\ call.node \in 1..Len(nodes) /\ Sought(nodes, g, call) /\ call.src # <<>>
         /\ call.src \in Seq(Char) /\ call.cmp \in Seq(Char) /\ call.cmp # <<>>
         /\ call.cmp = nodes[call.node].key /\ Head(call.src) \in g[call.node].span
         /\ call.known <=> call.text \in keys
         /\ Same => Head(call.src) = HeadOf(nodes, call.node)
         /\ Earlier => Beyond("before", Head(call.src), HeadOf(nodes, call.node))
         /\ Later => Beyond("after", Head(call.src), HeadOf(nodes, call.node))
         /\ call.text \in keys => /\ Same /\ (Current.equal = 0 \/ Ends) => Current.value = call.text
                                  /\ Earlier => Current.before # 0
                                  /\ Later => Current.after # 0
<1>1. /\ call \in CallSet /\ call.op = "store" /\ call.stage = "compare" /\ call.node # 0
      /\ Comparing(nodes, roots, keys, g, call)
  BY DEF Storing, At, Good
<1>2. /\ call.known <=> call.text \in keys
      /\ call.node \in 0..Len(nodes) /\ call.src # <<>> /\ call.text \in Key
      /\ Sought(nodes, g, call)
  BY <1>1 DEF Comparing
<1>3. call.node \in 1..Len(nodes)
  <2>1. Len(nodes) \in Nat  BY DEF Tree, Typed
  <2>2. PICK n \in 0..Len(nodes) : n = call.node  BY <1>2
  <2>3. n # 0  BY <1>1, <2>2
  <2>4. n \in 1..Len(nodes)  BY <2>1, <2>3
  <2> QED  BY <2>2, <2>4
<1>4. /\ call.cmp = nodes[call.node].key /\ Head(call.src) \in g[call.node].span
      /\ call.text = g[call.node].pre \o call.src
  BY <1>2 DEF Sought
<1>5. call.src \in Seq(Char) /\ call.cmp \in Seq(Char)  BY <1>1 DEF CallSet
<1>6. /\ First(call.cmp) = HeadOf(nodes, call.node) /\ First(call.cmp) \in Char
      /\ call.cmp # <<>>
      /\ Same => Head(call.src) = HeadOf(nodes, call.node)
  BY <1>1, <1>3, <1>4, Compared
<1>7. First(call.src) = Head(call.src)  BY <1>2, <1>5, FirstOf
<1>8. /\ Earlier => Beyond("before", Head(call.src), HeadOf(nodes, call.node))
      /\ Later => Beyond("after", Head(call.src), HeadOf(nodes, call.node))
  BY <1>6, <1>7 DEF Earlier, Later, Beyond
<1>9. ASSUME call.text \in keys
      PROVE  /\ Same /\ (Current.equal = 0 \/ Ends) => Current.value = call.text
             /\ Earlier => Current.before # 0
             /\ Later => Current.after # 0
  <2>1. PICK s \in Seq(Char), i \in 1..Len(nodes) : s = call.src /\ i = call.node  BY <1>3, <1>5
  <2>2. s # <<>> /\ g[i].pre \o s \in keys /\ Head(s) \in g[i].span  BY <1>2, <1>4, <1>9, <2>1
  <2>3. /\ Head(s) = HeadOf(nodes, i) =>
              (nodes[i].equal = 0 \/ Tail(s) = <<>> => nodes[i].value = g[i].pre \o s)
        /\ \A t \in Sides : Beyond(t, Head(s), HeadOf(nodes, i)) => Way(nodes, i, t) # 0
    BY <2>2, Arrive
  <2>4. Same /\ (Current.equal = 0 \/ Ends) => Current.value = call.text
    BY <1>4, <1>6, <2>1, <2>3 DEF Current, Ends
  <2>5. /\ Earlier => Way(nodes, i, "before") # 0
        /\ Later => Way(nodes, i, "after") # 0
    BY <1>8, <2>1, <2>3 DEF Sides
  <2> QED  BY <2>1, <2>4, <2>5 DEF Way, Current
<1> QED  BY <1>1, <1>2, <1>3, <1>4, <1>5, <1>6, <1>8, <1>9

\* A key that was not known is stored: the answer is that key.
LEMMA StoreReturns ==
  ASSUME NEW g, NEW ns, NEW rs, NEW ks, call \in CallSet, call.op = "store", call.text \in Key,
         ~ call.known, Return(call.text)
  PROVE  Good(ns, rs, ks, g, call')
<1>1. /\ call' \in CallSet /\ call'.stage = "done" /\ call'.value = call.text
      /\ call'.op = "store" /\ call'.known = call.known
  BY Returns
<1>2. call.text # Null  BY PtreeAssumption
<1> QED  BY <1>1, <1>2 DEF Good, Answered

LEMMA RootKept ==
  ASSUME Inv, StoreRoot
  PROVE  Inv'
<1>1. PICK g : Tree(nodes, roots, keys, g) /\ Good(nodes, roots, keys, g, call)
  BY DEF Inv, StoreRoot, At
<1>2. /\ call \in CallSet /\ call.op = "store" /\ Comparing(nodes, roots, keys, g, call)
      /\ call.node = 0
  BY <1>1 DEF StoreRoot, At, Good
<1>3. /\ call.known <=> call.text \in keys
      /\ call.text \in Key /\ roots[RootOf[Head(call.text)]] = 0
  BY <1>2 DEF Comparing
<1>4. call.text \notin keys  BY <1>1, <1>3, RootReach
<1>5. /\ nodes' = Append(nodes, Node(call.text, call.text))
      /\ roots' = [roots EXCEPT ![RootOf[Head(call.text)]] = Len(nodes) + 1]
      /\ keys' = keys \union {call.text} /\ Return(call.text)
  BY DEF StoreRoot, NewNode
<1>6. PICK k \in Key : k = call.text  BY <1>3
<1>7. PICK g2 : Tree(nodes', roots', keys', g2)
  <2>1. roots[RootOf[Head(k)]] = 0  BY <1>3, <1>6
  <2>2. \E g2 : Tree(Append(nodes, Node(k, k)), [roots EXCEPT ![RootOf[Head(k)]] = Len(nodes) + 1],
                     keys \union {k}, g2)
    BY <1>1, <2>1, PutRoot
  <2> QED  BY <1>5, <1>6, <2>2
<1>8. Good(nodes', roots', keys', g2, call')  BY <1>2, <1>3, <1>4, <1>5, StoreReturns
<1> QED  BY <1>7, <1>8 DEF Inv

LEMMA ShortKept ==
  ASSUME Inv, StoreShort
  PROVE  Inv'
<1>1. PICK g : Tree(nodes, roots, keys, g) /\ Good(nodes, roots, keys, g, call)
  BY DEF Inv, StoreShort, Storing, At
<1>2. Storing /\ Same /\ Ends /\ Current.value # Null /\ Tail(call.cmp) # <<>>
      /\ Current.equal = 0 /\ roots' = roots /\ keys' = keys \union {call.text}
      /\ Return(call.text)
  BY DEF StoreShort
<1>3. PICK i \in 1..Len(nodes) : i = call.node  BY <1>1, <1>2, StoreAt
<1>4. /\ call \in CallSet /\ call.op = "store" /\ call.text \in Key /\ Sought(nodes, g, call)
      /\ call.src # <<>> /\ call.src \in Seq(Char) /\ call.cmp \in Seq(Char) /\ call.cmp # <<>>
      /\ call.cmp = nodes[i].key /\ Head(call.src) = HeadOf(nodes, i)
      /\ call.known <=> call.text \in keys
      /\ call.text \in keys => nodes[i].value = call.text
  BY <1>1, <1>2, <1>3, StoreAt DEF Current
<1>5. call.text = Point(nodes, g, i)
  <2>1. Meets(nodes, g, call)  BY <1>3, <1>4 DEF Meets
  <2> QED  BY ZenonT(60), <1>1, <1>2, <1>3, <2>1, Down DEF Ends
<1>6. g[i].pre \in Seq(Char)  BY <1>1, NodeTypes DEF Tree
<1>7. nodes[i].value # Null /\ nodes[i].equal = 0  BY <1>2, <1>3 DEF Current
<1>8. nodes[i].value \in keys /\ nodes[i].value = g[i].pre \o nodes[i].key
  BY <1>1, <1>7 DEF Tree, Vals
<1>9. call.text \notin keys
  <2>1. SUFFICES ASSUME call.text \in keys  PROVE FALSE  OBVIOUS
  <2>2. g[i].pre \o call.src = g[i].pre \o call.cmp  BY <1>3, <1>4, <1>8, <2>1 DEF Sought
  <2>3. PICK p \in Seq(Char), s \in Seq(Char), t \in Seq(Char) :
          p = g[i].pre /\ s = call.src /\ t = call.cmp
    BY <1>4, <1>6
  <2>4. s = t  BY <2>2, <2>3, Cancel
  <2> QED  BY <1>2, <2>3, <2>4 DEF Ends
<1>10. PICK k \in Key, w \in Key, t \in Seq(Char) :
         k = call.text /\ w = nodes[i].value /\ t = Tail(call.cmp)
  <2>1. Tail(call.cmp) \in Seq(Char)  BY <1>4, HeadFirst
  <2>2. keys \subseteq Key  BY <1>1 DEF Tree, Typed
  <2> QED  BY <1>4, <1>8, <2>1, <2>2
<1>11. w = Point(nodes, g, i) \o t
  <2>1. PICK p \in Seq(Char), c \in Seq(Char) : p = g[i].pre /\ c = call.cmp  BY <1>4, <1>6
  <2>2. p \o c = Append(p, Head(c)) \o Tail(c)  BY <1>4, <2>1, Shift
  <2> QED  BY <1>4, <1>8, <1>10, <2>1, <2>2 DEF Point, HeadOf
<1>12. PICK ks2 \in SUBSET Key : ks2 = keys \union {k}  BY <1>1 DEF Tree, Typed
<1>13. PICK g2 : Tree(nodes', roots', keys', g2)
  <2>1. /\ keys \subseteq ks2 /\ w \in ks2 /\ t # <<>> /\ nodes[i].equal = 0
        /\ k # Null => k \in ks2 /\ k = Point(nodes, g, i)
        /\ nodes[i].value \in {k, w} /\ \A q \in ks2 : q \in keys \/ q = k \/ q = w
    BY <1>2, <1>5, <1>7, <1>8, <1>10, <1>12
  <2>3. nodes' = Append([nodes EXCEPT ![i].equal = Len(nodes) + 1, ![i].value = k], Node(t, w))
    BY <1>3, <1>10 DEF StoreShort, NewNode, Current
  <2>2. \E g2 : Tree(Append([nodes EXCEPT ![i].equal = Len(nodes) + 1, ![i].value = k], Node(t, w)),
                     roots, ks2, g2)
    BY <1>1, <1>11, <2>1, PutEqual
  <2> QED  BY <1>2, <1>10, <1>12, <2>2, <2>3
<1>14. Good(nodes', roots', keys', g2, call')  BY <1>2, <1>4, <1>9, StoreReturns
<1> QED  BY <1>13, <1>14 DEF Inv

LEMMA DuplicateKept ==
  ASSUME Inv, StoreDuplicate
  PROVE  Inv'
<1>1. PICK g : Tree(nodes, roots, keys, g) /\ Good(nodes, roots, keys, g, call)
  BY DEF Inv, StoreDuplicate, Storing, At
<1>2. /\ Storing /\ Same /\ Ends /\ Current.value # Null
      /\ Tail(call.cmp) = <<>> \/ Current.equal # 0
      /\ Return(Null) /\ nodes' = nodes /\ roots' = roots /\ keys' = keys
  BY DEF StoreDuplicate
<1>3. PICK i \in 1..Len(nodes) : i = call.node  BY <1>1, <1>2, StoreAt
<1>4. /\ call \in CallSet /\ call.op = "store" /\ call.text \in Key /\ Sought(nodes, g, call)
      /\ call.src # <<>> /\ call.src \in Seq(Char) /\ call.cmp \in Seq(Char) /\ call.cmp # <<>>
      /\ call.cmp = nodes[i].key /\ Head(call.src) = HeadOf(nodes, i)
      /\ call.known <=> call.text \in keys
  BY <1>1, <1>2, <1>3, StoreAt
<1>5. call.text = Point(nodes, g, i)
  <2>1. Meets(nodes, g, call)  BY <1>3, <1>4 DEF Meets
  <2> QED  BY ZenonT(60), <1>1, <1>2, <1>3, <2>1, Down DEF Ends
<1>6. nodes[i].value # Null /\ (Tail(nodes[i].key) = <<>> \/ nodes[i].equal # 0)
  BY <1>2, <1>3, <1>4 DEF Current
<1>7. g[i].pre \in Seq(Char)  BY <1>1, NodeTypes DEF Tree
<1>8. /\ nodes[i].value \in keys
      /\ nodes[i].equal = 0 => nodes[i].value = g[i].pre \o nodes[i].key
      /\ nodes[i].equal # 0 => nodes[i].value = Point(nodes, g, i)
  BY <1>1, <1>6 DEF Tree, Vals
<1>9. nodes[i].equal = 0 => nodes[i].value = Point(nodes, g, i)
  <2>1. PICK p \in Seq(Char), c \in Seq(Char) : p = g[i].pre /\ c = call.cmp  BY <1>4, <1>7
  <2>2. Tail(c) = <<>> => p \o c = Append(p, Head(c))  BY <1>4, <2>1, Shift
  <2> QED  BY <1>4, <1>6, <1>8, <2>1, <2>2 DEF Point, HeadOf
<1>10. call.text \in keys  BY <1>5, <1>8, <1>9
<1>11. /\ call' \in CallSet /\ call'.stage = "done" /\ call'.value = Null
       /\ call'.op = "store" /\ call'.known = call.known
  <2>1. PICK v \in Key \union {Null} : v = Null  OBVIOUS
  <2> QED  BY <1>2, <1>4, <2>1, Returns
<1>12. Good(nodes', roots', keys', g, call')  BY <1>4, <1>10, <1>11 DEF Good, Answered
<1>13. Tree(nodes', roots', keys', g)  BY <1>1, <1>2
<1> QED  BY <1>12, <1>13 DEF Inv

LEMMA ValueKept ==
  ASSUME Inv, StoreValue
  PROVE  Inv'
<1>1. PICK g : Tree(nodes, roots, keys, g) /\ Good(nodes, roots, keys, g, call)
  BY DEF Inv, StoreValue, Storing, At
<1>2. /\ Storing /\ Same /\ Ends /\ Current.value = Null /\ Return(call.text)
      /\ nodes' = [nodes EXCEPT ![call.node].value = call.text]
      /\ roots' = roots /\ keys' = keys \union {call.text}
  BY DEF StoreValue
<1>3. PICK i \in 1..Len(nodes) : i = call.node  BY <1>1, <1>2, StoreAt
<1>4. /\ call \in CallSet /\ call.op = "store" /\ call.text \in Key /\ Sought(nodes, g, call)
      /\ call.src # <<>> /\ Head(call.src) = HeadOf(nodes, i)
      /\ call.known <=> call.text \in keys
      /\ call.text \in keys => nodes[i].value = call.text
  BY <1>1, <1>2, <1>3, StoreAt DEF Current
<1>5. call.text = Point(nodes, g, i)
  <2>1. Meets(nodes, g, call)  BY <1>3, <1>4 DEF Meets
  <2> QED  BY ZenonT(60), <1>1, <1>2, <1>3, <2>1, Down DEF Ends
<1>6. PICK k \in Key : k = call.text  BY <1>4
<1>7. nodes[i].value = Null  BY <1>2, <1>3 DEF Current
<1>8. call.text \notin keys  BY <1>4, <1>7, PtreeAssumption
<1>9. Tree(nodes', roots', keys', g)
  <2>1. Tree([nodes EXCEPT ![i].value = k], roots, keys \union {k}, g)
    BY <1>1, <1>5, <1>6, <1>7, PutValue
  <2> QED  BY <1>2, <1>3, <1>6, <2>1
<1>10. Good(nodes', roots', keys', g, call')  BY <1>2, <1>4, <1>8, StoreReturns
<1> QED  BY <1>9, <1>10 DEF Inv

\* A store goes on with the rest of its text.
LEMMA StoreGoes ==
  ASSUME NEW ns, NEW rs, NEW g, NEW g2, NEW n \in 1..Len(ns), NEW s \in Seq(Char), s # <<>>,
         Tree(ns, rs, keys, g2), Good(nodes, roots, keys, g, call), Storing,
         call' = Go(n, s, ns), call.text = g2[n].pre \o s, Head(s) \in g2[n].span
  PROVE  Good(ns, rs, keys, g2, call')
<1>1. /\ call \in CallSet /\ call.op = "store" /\ call.stage = "compare"
      /\ Comparing(nodes, roots, keys, g, call)
  BY DEF Storing, At, Good
<1>2. ns[n].key \in Seq(Char) /\ ns[n].key # <<>>  BY NodeTypes DEF Tree
<1>3. n \in Nat /\ n # 0 /\ n \in 0..Len(ns)
  <2>1. Len(ns) \in Nat  BY DEF Tree, Typed
  <2> QED  BY <2>1
<1>4. /\ call' \in CallSet /\ call'.node = n /\ call'.src = s /\ call'.cmp = ns[n].key
      /\ call'.op = "store" /\ call'.stage = "compare" /\ call'.text = call.text
      /\ call'.known = call.known
  BY <1>1, <1>2, <1>3, Goes
<1>5. /\ call.known <=> call.text \in keys
      /\ call.text \in Key
  BY <1>1 DEF Comparing
<1>6. Sought(ns, g2, call')  BY <1>3, <1>4 DEF Sought
<1>7. Comparing(ns, rs, keys, g2, call')  BY <1>3, <1>4, <1>5, <1>6 DEF Comparing
<1> QED  BY <1>4, <1>7 DEF Good

LEMMA EqualKept ==
  ASSUME Inv, StoreEqual
  PROVE  Inv'
<1>1. PICK g : Tree(nodes, roots, keys, g) /\ Good(nodes, roots, keys, g, call)
  BY DEF Inv, StoreEqual, Storing, At
<1>2. /\ Storing /\ Same /\ ~ Ends /\ Current.equal # 0
      /\ call' = Go(Current.equal, Tail(call.src), nodes)
      /\ nodes' = nodes /\ roots' = roots /\ keys' = keys
  BY DEF StoreEqual
<1>3. PICK i \in 1..Len(nodes) : i = call.node  BY <1>1, <1>2, StoreAt
<1>4. /\ call \in CallSet /\ Sought(nodes, g, call) /\ call.src # <<>>
      /\ call.src \in Seq(Char) /\ call.cmp \in Seq(Char) /\ call.cmp # <<>>
      /\ call.cmp = nodes[i].key
      /\ Head(call.src) = HeadOf(nodes, i)
  BY <1>1, <1>2, <1>3, StoreAt
<1>5. nodes[i].equal # 0 /\ Current.equal = nodes[i].equal  BY <1>2, <1>3 DEF Current
<1>6. /\ Tail(call.src) \in Seq(Char) /\ call.text = Point(nodes, g, i) \o Tail(call.src)
      /\ Tail(call.src) # <<>> => Head(Tail(call.src)) \in Char
      /\ nodes[i].equal \in 1..Len(nodes)
      /\ g[nodes[i].equal].pre = Point(nodes, g, i) /\ g[nodes[i].equal].span = Char
  <2>1. Tail(call.src) \in Seq(Char) /\ call.text = Point(nodes, g, i) \o Tail(call.src)
    <3>1. Meets(nodes, g, call)  BY <1>3, <1>4 DEF Meets
    <3> QED  BY ZenonT(60), <1>1, <1>3, <3>1, Down
  <2>2. /\ nodes[i].equal \in 1..Len(nodes)
        /\ g[nodes[i].equal].pre = Point(nodes, g, i) /\ g[nodes[i].equal].span = Char
    BY <1>1, <1>5, Below DEF LeadsTo
  <2>4. Tail(call.src) # <<>> => Head(Tail(call.src)) \in Char
    <3>1. PICK s \in Seq(Char) : s = Tail(call.src)  BY <2>1
    <3>2. s # <<>> => Head(s) \in Char  BY HeadFirst
    <3> QED  BY <3>1, <3>2
  <2> QED  BY <2>1, <2>2, <2>4
<1>7. PICK n \in 1..Len(nodes), s \in Seq(Char) : n = nodes[i].equal /\ s = Tail(call.src)  BY <1>6
<1>8. Good(nodes, roots, keys, g, call')
  <2>1. s # <<>> /\ call' = Go(n, s, nodes) /\ call.text = g[n].pre \o s /\ Head(s) \in g[n].span
    BY <1>2, <1>5, <1>6, <1>7 DEF Ends
  <2> QED  BY <1>1, <1>2, <2>1, StoreGoes
<1> QED  BY <1>1, <1>2, <1>8 DEF Inv

LEMMA SplitKept ==
  ASSUME Inv, StoreSplit
  PROVE  Inv'
<1>1. PICK g : Tree(nodes, roots, keys, g) /\ Good(nodes, roots, keys, g, call)
  BY DEF Inv, StoreSplit, Storing, At
<1>2. /\ Storing /\ Same /\ ~ Ends /\ Current.equal = 0 /\ Tail(call.cmp) # <<>>
      /\ call' = Go(NewNode, Tail(call.src), nodes') /\ roots' = roots /\ keys' = keys
  BY DEF StoreSplit
<1>3. PICK i \in 1..Len(nodes) : i = call.node  BY <1>1, <1>2, StoreAt
<1>4. /\ call \in CallSet /\ Sought(nodes, g, call) /\ call.src # <<>>
      /\ call.src \in Seq(Char)
      /\ call.cmp \in Seq(Char) /\ call.cmp # <<>> /\ call.cmp = nodes[i].key
      /\ Head(call.src) = HeadOf(nodes, i)
  BY <1>1, <1>2, <1>3, StoreAt
<1>5. /\ Tail(call.src) \in Seq(Char) /\ call.text = Point(nodes, g, i) \o Tail(call.src)
      /\ Tail(call.src) # <<>> => Head(Tail(call.src)) \in Char
  <2>1. Tail(call.src) \in Seq(Char) /\ call.text = Point(nodes, g, i) \o Tail(call.src)
    <3>1. Meets(nodes, g, call)  BY <1>3, <1>4 DEF Meets
    <3> QED  BY ZenonT(60), <1>1, <1>3, <3>1, Down
  <2>4. Tail(call.src) # <<>> => Head(Tail(call.src)) \in Char
    <3>1. PICK s \in Seq(Char) : s = Tail(call.src)  BY <2>1
    <3>2. s # <<>> => Head(s) \in Char  BY HeadFirst
    <3> QED  BY <3>1, <3>2
  <2> QED  BY <2>1, <2>4
<1>6. nodes[i].equal = 0  BY <1>2, <1>3 DEF Current
<1>7. nodes[i].value # Null  BY <1>1, <1>6 DEF Tree, Vals
<1>8. nodes[i].value \in keys /\ nodes[i].value = g[i].pre \o nodes[i].key
  BY <1>1, <1>6, <1>7 DEF Tree, Vals
<1>9. PICK w \in Key, t \in Seq(Char), ks2 \in SUBSET Key :
        w = nodes[i].value /\ t = Tail(call.cmp) /\ ks2 = keys
  <2>1. Tail(call.cmp) \in Seq(Char)  BY <1>4, HeadFirst
  <2>2. keys \subseteq Key  BY <1>1 DEF Tree, Typed
  <2> QED  BY <1>8, <2>1, <2>2
<1>10. w = Point(nodes, g, i) \o t
  <2>1. g[i].pre \in Seq(Char)  BY <1>1, NodeTypes DEF Tree
  <2>2. PICK p \in Seq(Char), c \in Seq(Char) : p = g[i].pre /\ c = call.cmp  BY <1>4, <2>1
  <2>3. p \o c = Append(p, Head(c)) \o Tail(c)  BY <1>4, <2>2, Shift
  <2> QED  BY <1>4, <1>8, <1>9, <2>2, <2>3 DEF Point, HeadOf
<1>11. PICK v \in Key \union {Null} : v = Null  OBVIOUS
<1>12. nodes' = Append([nodes EXCEPT ![i].equal = Len(nodes) + 1, ![i].value = v], Node(t, w))
  BY <1>3, <1>9, <1>11 DEF StoreSplit, NewNode, Current
<1>13. PICK g2 : /\ Tree(nodes', roots, keys, g2)
                 /\ g2[Len(nodes) + 1].pre = Point(nodes, g, i) /\ g2[Len(nodes) + 1].span = Char
  <2>1. /\ keys \subseteq ks2 /\ w \in ks2 /\ t # <<>>
        /\ v # Null => v \in ks2 /\ v = Point(nodes, g, i)
        /\ nodes[i].value \in {v, w} /\ \A q \in ks2 : q \in keys \/ q = v \/ q = w
    BY <1>2, <1>8, <1>9, <1>11
  <2>2. \E g2 : /\ Tree(Append([nodes EXCEPT ![i].equal = Len(nodes) + 1, ![i].value = v],
                               Node(t, w)), roots, ks2, g2)
                /\ LeadsTo(g2, Len(nodes) + 1, Point(nodes, g, i))
    BY ZenonT(60), <1>1, <1>6, <1>10, <2>1, PutEqual
  <2> QED  BY <1>9, <1>12, <2>2 DEF LeadsTo
<1>14. NewNode \in 1..Len(nodes') /\ NewNode = Len(nodes) + 1
  <2>1. PICK l \in Nat : l = Len(nodes)  BY <1>1 DEF Tree, Typed
  <2>2. Len(nodes') = Len([nodes EXCEPT ![i].equal = Len(nodes) + 1, ![i].value = v]) + 1
    <3>1. nodes \in Seq(NodeSet)  BY <1>1 DEF Tree, Typed
    <3> QED  BY <1>12, <3>1
  <2>3. Len([nodes EXCEPT ![i].equal = Len(nodes) + 1, ![i].value = v]) = Len(nodes)
    BY <1>1 DEF Tree, Typed
  <2>4. Len(nodes') = l + 1  BY <2>1, <2>2, <2>3
  <2>5. l + 1 \in 1..(l + 1)  OBVIOUS
  <2> QED  BY <2>1, <2>4, <2>5 DEF NewNode
<1>15. PICK n \in 1..Len(nodes'), s \in Seq(Char) : n = NewNode /\ s = Tail(call.src)  BY <1>5, <1>14
<1>16. Good(nodes', roots, keys, g2, call')
  <2>1. s # <<>> /\ call' = Go(n, s, nodes') /\ call.text = g2[n].pre \o s /\ Head(s) \in g2[n].span
    BY <1>2, <1>5, <1>13, <1>14, <1>15 DEF Ends
  <2> QED  BY <1>1, <1>2, <1>13, <2>1, StoreGoes
<1> QED  BY <1>2, <1>13, <1>16 DEF Inv

LEMMA ExtendKept ==
  ASSUME Inv, StoreExtend
  PROVE  Inv'
<1>1. PICK g : Tree(nodes, roots, keys, g) /\ Good(nodes, roots, keys, g, call)
  BY DEF Inv, StoreExtend, Storing, At
<1>2. /\ Storing /\ Same /\ ~ Ends /\ Current.equal = 0 /\ Tail(call.cmp) = <<>>
      /\ Return(call.text) /\ roots' = roots /\ keys' = keys \union {call.text}
  BY DEF StoreExtend
<1>3. PICK i \in 1..Len(nodes) : i = call.node  BY <1>1, <1>2, StoreAt
<1>4. /\ call \in CallSet /\ call.op = "store" /\ call.text \in Key /\ Sought(nodes, g, call)
      /\ call.src # <<>> /\ call.src \in Seq(Char) /\ call.cmp \in Seq(Char) /\ call.cmp # <<>>
      /\ call.cmp = nodes[i].key /\ Head(call.src) = HeadOf(nodes, i)
      /\ call.known <=> call.text \in keys
      /\ call.text \in keys => nodes[i].value = call.text
  BY <1>1, <1>2, <1>3, StoreAt DEF Current
<1>5. Tail(call.src) \in Seq(Char) /\ call.text = Point(nodes, g, i) \o Tail(call.src)
  <2>1. Meets(nodes, g, call)  BY <1>3, <1>4 DEF Meets
  <2> QED  BY ZenonT(60), <1>1, <1>3, <2>1, Down
<1>6. g[i].pre \in Seq(Char) /\ nodes[i] \in NodeSet  BY <1>1, NodeTypes DEF Tree
<1>7. nodes[i].equal = 0  BY <1>2, <1>3 DEF Current
<1>8. nodes[i].value # Null  BY <1>1, <1>7 DEF Tree, Vals
<1>9. nodes[i].value \in keys /\ nodes[i].value = g[i].pre \o nodes[i].key
  BY <1>1, <1>7, <1>8 DEF Tree, Vals
<1>10. call.text \notin keys
  <2>1. SUFFICES ASSUME call.text \in keys  PROVE FALSE  OBVIOUS
  <2>2. g[i].pre \o call.src = g[i].pre \o call.cmp  BY <1>3, <1>4, <1>9, <2>1 DEF Sought
  <2>3. PICK p \in Seq(Char), s \in Seq(Char), t \in Seq(Char) :
          p = g[i].pre /\ s = call.src /\ t = call.cmp
    BY <1>4, <1>6
  <2>4. s = t  BY <2>2, <2>3, Cancel
  <2> QED  BY <1>2, <2>3, <2>4 DEF Ends
<1>11. nodes[i].value = Point(nodes, g, i)
  <2>1. PICK p \in Seq(Char), c \in Seq(Char) : p = g[i].pre /\ c = call.cmp  BY <1>4, <1>6
  <2>2. p \o c = Append(p, Head(c))  BY <1>2, <1>4, <2>1, Shift
  <2> QED  BY <1>4, <1>9, <2>1, <2>2 DEF Point, HeadOf
<1>12. PICK v \in Key \union {Null}, w \in Key, t \in Seq(Char), ks2 \in SUBSET Key :
         v = nodes[i].value /\ w = call.text /\ t = Tail(call.src) /\ ks2 = keys \union {call.text}
  <2>1. keys \subseteq Key  BY <1>1 DEF Tree, Typed
  <2>2. nodes[i].value \in Key  BY <1>9, <2>1
  <2> QED  BY <1>4, <1>5, <2>1, <2>2
<1>13. nodes' = Append([nodes EXCEPT ![i].equal = Len(nodes) + 1, ![i].value = v], Node(t, w))
  <2>1. PICK x \in NodeSet : x = nodes[i]  BY <1>6
  <2>2. PICK m \in Nat : m = Len(nodes) + 1  BY <1>1 DEF Tree, Typed
  <2>3. [x EXCEPT !.equal = m, !.value = x.value] = [x EXCEPT !.equal = m]  BY <2>2 DEF NodeSet
  <2>4. [nodes EXCEPT ![i].equal = m, ![i].value = v] = [nodes EXCEPT ![i].equal = m]
    <3>1. nodes \in Seq(NodeSet)  BY <1>1 DEF Tree, Typed
    <3> QED  BY <1>12, <2>1, <2>3, <3>1
  <2>5. nodes' = Append([nodes EXCEPT ![i].equal = m], Node(t, w))
    BY <1>3, <1>12, <2>2 DEF StoreExtend, NewNode
  <2> QED  BY <2>2, <2>4, <2>5
<1>14. PICK g2 : Tree(nodes', roots', keys', g2)
  <2>1. /\ keys \subseteq ks2 /\ w \in ks2 /\ t # <<>> /\ w = Point(nodes, g, i) \o t
        /\ v # Null => v \in ks2 /\ v = Point(nodes, g, i)
        /\ nodes[i].value \in {v, w} /\ \A q \in ks2 : q \in keys \/ q = v \/ q = w
    BY <1>2, <1>5, <1>9, <1>11, <1>12 DEF Ends
  <2>2. \E g2 : Tree(Append([nodes EXCEPT ![i].equal = Len(nodes) + 1, ![i].value = v], Node(t, w)),
                     roots, ks2, g2)
    BY <1>1, <1>7, <2>1, PutEqual
  <2> QED  BY <1>2, <1>12, <1>13, <2>2
<1>15. Good(nodes', roots', keys', g2, call')  BY <1>2, <1>4, <1>10, StoreReturns
<1> QED  BY <1>14, <1>15 DEF Inv

LEMMA StoreAsideKept ==
  ASSUME Inv, NEW side \in Sides, StoreAside(side)
  PROVE  Inv'
<1>1. PICK g : Tree(nodes, roots, keys, g) /\ Good(nodes, roots, keys, g, call)
  BY DEF Inv, StoreAside, Storing, At
<1>2. Storing /\ (IF side = "before" THEN Earlier ELSE Later) /\ roots' = roots
  BY DEF StoreAside
<1>3. PICK i \in 1..Len(nodes) : i = call.node  BY <1>1, <1>2, StoreAt
<1>4. /\ call \in CallSet /\ call.op = "store" /\ call.text \in Key /\ Sought(nodes, g, call)
      /\ call.src # <<>> /\ call.src \in Seq(Char) /\ Head(call.src) \in g[i].span
      /\ call.known <=> call.text \in keys
  BY <1>1, <1>2, <1>3, StoreAt
<1>5. Beyond(side, Head(call.src), HeadOf(nodes, i))
  <2>1. /\ Earlier => Beyond("before", Head(call.src), HeadOf(nodes, call.node))
        /\ Later => Beyond("after", Head(call.src), HeadOf(nodes, call.node))
    BY <1>1, <1>2, StoreAt
  <2> QED  BY <1>2, <1>3, <2>1 DEF Sides
<1>6. Current[side] = Way(nodes, i, side)  BY <1>3 DEF Current, Way, Sides
<1>7. CASE Current[side] # 0
  <2>1. call' = Go(Current[side], call.src, nodes) /\ nodes' = nodes /\ keys' = keys
    BY <1>7 DEF StoreAside
  <2>2. /\ Way(nodes, i, side) \in 1..Len(nodes)
        /\ g[Way(nodes, i, side)].pre = g[i].pre
        /\ Head(call.src) \in g[Way(nodes, i, side)].span
    BY <1>1, <1>3, <1>4, <1>5, <1>6, <1>7, Across
  <2>3. PICK n \in 1..Len(nodes), s \in Seq(Char) : n = Way(nodes, i, side) /\ s = call.src
    BY <1>4, <2>2
  <2>4. s # <<>> /\ call' = Go(n, s, nodes) /\ call.text = g[n].pre \o s /\ Head(s) \in g[n].span
    BY <1>3, <1>4, <1>6, <2>1, <2>2, <2>3 DEF Sought
  <2>5. Good(nodes, roots, keys, g, call')  BY <1>1, <1>2, <2>4, StoreGoes
  <2> QED  BY <1>1, <1>2, <2>1, <2>5 DEF Inv
<1>8. CASE Current[side] = 0
  <2>1. /\ nodes' = Append([nodes EXCEPT ![call.node][side] = NewNode], Node(call.src, call.text))
        /\ keys' = keys \union {call.text} /\ Return(call.text)
    BY <1>8 DEF StoreAside
  <2>2. call.text \notin keys
    <3>1. PICK s \in Seq(Char) : s = call.src  BY <1>4
    <3>2. g[i].pre \o s \in keys =>
            \A t \in Sides : Beyond(t, Head(s), HeadOf(nodes, i)) => Way(nodes, i, t) # 0
      BY <1>1, <1>4, <3>1, Arrive
    <3> QED  BY <1>3, <1>4, <1>5, <1>6, <1>8, <3>1, <3>2 DEF Sought
  <2>3. PICK s \in Seq(Char), k \in Key : s = call.src /\ k = call.text  BY <1>4
  <2>4. PICK g2 : Tree(nodes', roots', keys', g2)
    <3>1. /\ s # <<>> /\ k = g[i].pre \o s /\ Head(s) \in g[i].span
          /\ Beyond(side, Head(s), HeadOf(nodes, i)) /\ Way(nodes, i, side) = 0
      BY <1>3, <1>4, <1>5, <1>6, <1>8, <2>3 DEF Sought
    <3>2. \E g2 : Tree(Append([nodes EXCEPT ![i][side] = Len(nodes) + 1], Node(s, k)), roots,
                       keys \union {k}, g2)
      BY <1>1, <3>1, PutAside
    <3> QED  BY <1>2, <1>3, <2>1, <2>3, <3>2 DEF NewNode
  <2>5. Good(nodes', roots', keys', g2, call')  BY <1>4, <2>1, <2>2, StoreReturns
  <2> QED  BY <2>4, <2>5 DEF Inv
<1> QED  BY <1>7, <1>8

-----------------------------------------------------------------------------
\* Every step of a fetch leaves it at a node where a key that was stored is to be found.
Found(ns, g, c) ==
  \/ Sought(ns, g, c)
  \/ ns[c.node].equal = 0 /\ ns[c.node].value = c.text /\ c.src = c.cmp

LEMMA FetchAt ==
  ASSUME NEW g, Tree(nodes, roots, keys, g), Good(nodes, roots, keys, g, call), Fetching
  PROVE  /\ call \in CallSet /\ call.op = "fetch" /\ call.stage = "compare"
         /\ call.node \in 1..Len(nodes)
         /\ call.src \in Seq(Char) /\ call.src # <<>> /\ call.cmp \in Seq(Char)
         /\ Same => call.cmp # <<>>
         /\ call.known <=> call.text \in keys
         /\ call.text \in keys => Found(nodes, g, call)
<1>1. /\ call \in CallSet /\ call.op = "fetch" /\ call.stage = "compare" /\ call.node # 0
      /\ Comparing(nodes, roots, keys, g, call)
  BY DEF Fetching, At, Good
<1>2. /\ call.known <=> call.text \in keys
      /\ call.node \in 0..Len(nodes) /\ call.src # <<>>
      /\ call.text \in keys => Found(nodes, g, call)
  BY <1>1 DEF Comparing, Found
<1>3. call.node \in 1..Len(nodes)
  <2>1. Len(nodes) \in Nat  BY DEF Tree, Typed
  <2>2. PICK n \in 0..Len(nodes) : n = call.node  BY <1>2
  <2>3. n # 0  BY <1>1, <2>2
  <2>4. n \in 1..Len(nodes)  BY <2>1, <2>3
  <2> QED  BY <2>2, <2>4
<1>4. call.src \in Seq(Char) /\ call.cmp \in Seq(Char)  BY <1>1 DEF CallSet
<1>5. Same => call.cmp # <<>>
  <2>1. First(call.src) > 0 /\ First(call.src) \in Nat  BY <1>2, <1>4, FirstOf
  <2>2. call.cmp = <<>> => First(call.cmp) = 0  BY <1>4, FirstOf
  <2> QED  BY <2>1, <2>2 DEF Same
<1> QED  BY <1>1, <1>2, <1>3, <1>4, <1>5

LEMMA FetchOn ==
  ASSUME NEW g, NEW c \in CallSet, c.op = "fetch", c.stage = "compare",
         c.node \in 1..Len(nodes), c.src # <<>>, c.known <=> c.text \in keys,
         c.text \in keys => Found(nodes, g, c), Len(nodes) \in Nat
  PROVE  Good(nodes, roots, keys, g, c)
<1>1. c.node # 0 /\ c.node \in 0..Len(nodes)
  <2>1. PICK n \in 1..Len(nodes) : n = c.node  OBVIOUS
  <2>2. n # 0 /\ n \in 0..Len(nodes)  OBVIOUS
  <2> QED  BY <2>1, <2>2
<1>2. Comparing(nodes, roots, keys, g, c)  BY <1>1 DEF Comparing, Found
<1> QED  BY <1>2 DEF Good

\* A fetch returns what it should.
LEMMA FetchReturns ==
  ASSUME NEW g, NEW v \in Key \union {Null}, call \in CallSet, call.op = "fetch", Return(v),
         call.text \in keys => v = call.text
  PROVE  Good(nodes, roots, keys, g, call')
<1>1. /\ call' \in CallSet /\ call'.stage = "done" /\ call'.value = v /\ call'.op = "fetch"
      /\ call'.text = call.text
  BY Returns
<1> QED  BY <1>1 DEF Good, Answered

\* At the node of a key: it is the node's own, or the way goes on.
LEMMA FetchHere ==
  ASSUME NEW g, Tree(nodes, roots, keys, g), call \in CallSet, call.node \in 1..Len(nodes),
         call.src \in Seq(Char), call.src # <<>>, call.text \in keys, Found(nodes, g, call)
  PROVE  /\ Same /\ (Current.equal = 0 \/ Ends) => Current.value = call.text
         /\ Current.equal = 0 /\ Same => call.src = call.cmp
         /\ ~ Same => Sought(nodes, g, call) /\ Aside # 0
<1>1. PICK i \in 1..Len(nodes) : i = call.node  OBVIOUS
<1>2. CASE ~ Sought(nodes, g, call)
  <2>1. nodes[i].equal = 0 /\ nodes[i].value = call.text /\ call.src = call.cmp
    BY <1>1, <1>2 DEF Found
  <2> QED  BY <1>1, <2>1 DEF Current, Same
<1>3. CASE Sought(nodes, g, call)
  <2>1. /\ call.cmp = nodes[i].key /\ Head(call.src) \in g[i].span
        /\ call.text = g[i].pre \o call.src
    BY <1>1, <1>3 DEF Sought
  <2>2. PICK s \in Seq(Char) : s = call.src  OBVIOUS
  <2>3. s # <<>> /\ g[i].pre \o s \in keys /\ Head(s) \in g[i].span  BY <2>1, <2>2
  <2>4. /\ Head(s) = HeadOf(nodes, i) =>
             (nodes[i].equal = 0 \/ Tail(s) = <<>> => nodes[i].value = g[i].pre \o s)
        /\ \A t \in Sides : Beyond(t, Head(s), HeadOf(nodes, i)) => Way(nodes, i, t) # 0
    BY <2>3, Arrive
  <2>5. /\ Same => Head(call.src) = HeadOf(nodes, call.node)
        /\ ~ Same => IF Earlier THEN Beyond("before", Head(call.src), HeadOf(nodes, call.node))
                     ELSE Beyond("after", Head(call.src), HeadOf(nodes, call.node))
    BY <1>1, <2>1, Compared
  <2>6. Same /\ (Current.equal = 0 \/ Ends) => Current.value = call.text
    BY <1>1, <2>1, <2>2, <2>4, <2>5 DEF Current, Ends
  <2>7. ~ Same => IF Earlier THEN Way(nodes, i, "before") # 0 ELSE Way(nodes, i, "after") # 0
    BY <1>1, <2>2, <2>4, <2>5 DEF Sides
  <2>8. ~ Same => Aside # 0  BY <1>1, <2>7 DEF Aside, Current, Way
  <2>9. ASSUME Current.equal = 0, Same  PROVE call.src = call.cmp
    <3>1. nodes[i].equal = 0 /\ nodes[i].value = call.text  BY <1>1, <2>6, <2>9 DEF Current
    <3>2. call.text # Null  BY PtreeAssumption DEF Tree, Typed
    <3>3. nodes[i].value = g[i].pre \o nodes[i].key  BY <3>1, <3>2 DEF Tree, Vals
    <3>4. g[i].pre \o call.src = g[i].pre \o call.cmp  BY <2>1, <3>1, <3>3
    <3>5. g[i].pre \in Seq(Char) /\ call.cmp \in Seq(Char)  BY NodeTypes DEF Tree, CallSet
    <3>6. PICK p \in Seq(Char), t \in Seq(Char) : p = g[i].pre /\ t = call.cmp  BY <3>5
    <3>7. p \o s = p \o t  BY <2>2, <3>4, <3>6
    <3>8. s = t  BY <3>7, Cancel
    <3> QED  BY <2>2, <3>6, <3>8
  <2> QED  BY <1>3, <2>6, <2>8, <2>9
<1> QED  BY <1>2, <1>3

LEMMA FetchSameKept ==
  ASSUME Inv, FetchSame
  PROVE  Inv'
<1>1. PICK g : Tree(nodes, roots, keys, g) /\ Good(nodes, roots, keys, g, call)
  BY DEF Inv, FetchSame, Fetching, At
<1>2. Fetching /\ Same /\ nodes' = nodes /\ roots' = roots /\ keys' = keys  BY DEF FetchSame
<1>3. /\ call \in CallSet /\ call.op = "fetch" /\ call.stage = "compare"
      /\ call.node \in 1..Len(nodes)
      /\ call.src \in Seq(Char) /\ call.src # <<>> /\ call.cmp \in Seq(Char) /\ call.cmp # <<>>
      /\ call.known <=> call.text \in keys
      /\ call.text \in keys => Found(nodes, g, call)
  BY <1>1, <1>2, FetchAt
<1>4. PICK i \in 1..Len(nodes) : i = call.node  BY <1>3
<1>5. /\ nodes[i].key \in Seq(Char) /\ nodes[i].equal \in Nat /\ Len(nodes) \in Nat
      /\ nodes[i].value \in Key \union {Null}
  <2>1. Typed(nodes, roots, keys, g)  BY <1>1 DEF Tree
  <2>2. Len(nodes) \in Nat  BY <2>1 DEF Typed
  <2> QED  BY <2>1, <2>2, NodeTypes
<1>6. call.text \in keys => /\ Current.equal = 0 \/ Ends => Current.value = call.text
                            /\ Current.equal = 0 => call.src = call.cmp
  BY <1>1, <1>2, <1>3, FetchHere
<1>7. Tail(call.src) \in Seq(Char) /\ Tail(call.cmp) \in Seq(Char)  BY <1>3, HeadFirst
<1>8. Good(nodes, roots, keys, g, call')
  <2>1. CASE ~ Ends /\ Current.equal # 0
    <3>1. call' = Go(Current.equal, Tail(call.src), nodes)  BY <2>1 DEF FetchSame
    <3>2. Current.equal = nodes[i].equal /\ nodes[i].equal # 0  BY <1>4, <2>1 DEF Current
    <3>3. nodes[i].equal \in 1..Len(nodes) /\ LeadsTo(g, nodes[i].equal, Point(nodes, g, i))
      BY <1>1, <3>2, Below
    <3>4. PICK n \in 1..Len(nodes), s \in Seq(Char) : n = nodes[i].equal /\ s = Tail(call.src)
      BY <1>7, <3>3
    <3>5. nodes[n].key \in Seq(Char) /\ n \in Nat /\ n # 0  BY <1>1, NodeTypes DEF Tree
    <3>6. call' = Go(n, s, nodes) /\ s # <<>>  BY <2>1, <3>1, <3>2, <3>4 DEF Ends
    <3>7. /\ call' \in CallSet /\ call'.node = n /\ call'.src = s /\ call'.cmp = nodes[n].key
          /\ call'.op = "fetch" /\ call'.stage = "compare" /\ call'.text = call.text
          /\ call'.known = call.known
      BY <1>3, <3>5, <3>6, Goes
    <3>8. ASSUME call.text \in keys  PROVE Sought(nodes, g, call')
      <4>1. Sought(nodes, g, call)  BY <1>3, <1>4, <3>2, <3>8 DEF Found
      <4>2. nodes[i].key # <<>> /\ call.cmp = nodes[i].key  BY <1>1, <1>4, <4>1, NodeTypes DEF Tree, Sought
      <4>3. Head(call.src) = HeadOf(nodes, call.node)  BY <1>1, <1>2, <1>3, <1>4, <4>2, Compared
      <4>4. Meets(nodes, g, call)  BY <1>3, <4>1, <4>3 DEF Meets
      <4>5. call.text = Point(nodes, g, i) \o s  BY ZenonT(60), <1>1, <1>4, <3>4, <4>4, Down
      <4>6. Head(s) \in Char  BY <3>6, HeadFirst
      <4> QED  BY <3>3, <3>4, <3>5, <3>7, <4>5, <4>6 DEF Sought, LeadsTo
    <3> QED  BY <1>3, <1>5, <3>6, <3>7, <3>8, FetchOn DEF Found
  <2>2. CASE ~ Ends /\ Current.equal = 0
    <3>1. call' = [call EXCEPT !.src = Tail(@), !.cmp = Tail(@)]  BY <2>2 DEF FetchSame
    <3>2. /\ call' \in CallSet /\ call'.node = call.node /\ call'.src = Tail(call.src)
          /\ call'.cmp = Tail(call.cmp) /\ call'.op = "fetch" /\ call'.stage = "compare"
          /\ call'.text = call.text /\ call'.known = call.known
      BY <1>3, <1>7, <3>1 DEF CallSet
    <3>3. call.text \in keys => Found(nodes, g, call')
      BY <1>4, <1>6, <2>2, <3>2 DEF Found, Current
    <3> QED  BY <1>3, <1>5, <2>2, <3>2, <3>3, FetchOn DEF Ends
  <2>3. CASE Ends
    <3>1. PICK v : v = (IF Tail(call.cmp) # <<>> /\ Current.equal = 0 THEN Null ELSE Current.value)
      OBVIOUS
    <3>2. Return(v)  BY <2>3, <3>1 DEF FetchSame
    <3>3. v \in Key \union {Null}  BY <1>4, <1>5, <3>1 DEF Current
    <3>4. call.text \in keys => v = call.text  BY <1>6, <2>3, <3>1 DEF Ends
    <3> QED  BY <1>3, <3>2, <3>3, <3>4, FetchReturns
  <2> QED  BY <2>1, <2>2, <2>3
<1> QED  BY <1>1, <1>2, <1>8 DEF Inv

\* The way to the side, as a call takes it.
LEMMA AsideOf ==
  ASSUME NEW g, Tree(nodes, roots, keys, g), call.node \in 1..Len(nodes), Aside # 0
  PROVE  \E s \in Sides : /\ Aside = Way(nodes, call.node, s) /\ Aside \in 1..Len(nodes)
                          /\ s = "before" <=> Earlier
<1>1. PICK s \in Sides : Aside = Way(nodes, call.node, s) /\ (s = "before" <=> Earlier)
  BY DEF Aside, Current, Way, Sides
<1>2. Aside \in 1..Len(nodes)  BY <1>1 DEF Tree, Linked
<1> QED  BY <1>1, <1>2

LEMMA FetchAsideKept ==
  ASSUME Inv, FetchAside
  PROVE  Inv'
<1>1. PICK g : Tree(nodes, roots, keys, g) /\ Good(nodes, roots, keys, g, call)
  BY DEF Inv, FetchAside, Fetching, At
<1>2. Fetching /\ ~ Same /\ nodes' = nodes /\ roots' = roots /\ keys' = keys  BY DEF FetchAside
<1>3. /\ call \in CallSet /\ call.op = "fetch" /\ call.stage = "compare"
      /\ call.node \in 1..Len(nodes)
      /\ call.src \in Seq(Char) /\ call.src # <<>> /\ call.cmp \in Seq(Char)
      /\ call.known <=> call.text \in keys
      /\ call.text \in keys => Found(nodes, g, call)
  BY <1>1, <1>2, FetchAt
<1>4. call.text \in keys => Sought(nodes, g, call) /\ Aside # 0
  BY <1>1, <1>2, <1>3, FetchHere
<1>5. CASE Aside = 0
  <2>1. PICK v \in Key \union {Null} : v = Null  OBVIOUS
  <2>2. Return(v)  BY <1>5, <2>1 DEF FetchAside
  <2>3. Good(nodes, roots, keys, g, call')  BY <1>3, <1>4, <1>5, <2>2, FetchReturns
  <2> QED  BY <1>1, <1>2, <2>3 DEF Inv
<1>6. CASE Aside # 0
  <2>1. call' = Go(Aside, call.src, nodes)  BY <1>6 DEF FetchAside
  <2>2. PICK t \in Sides : /\ Aside = Way(nodes, call.node, t) /\ Aside \in 1..Len(nodes)
                           /\ t = "before" <=> Earlier
    BY <1>1, <1>3, <1>6, AsideOf
  <2>3. PICK n \in 1..Len(nodes), s \in Seq(Char) : n = Aside /\ s = call.src  BY <1>3, <2>2
  <2>4. nodes[n].key \in Seq(Char) /\ n \in Nat /\ n # 0 /\ Len(nodes) \in Nat
    <3>1. Typed(nodes, roots, keys, g)  BY <1>1 DEF Tree
    <3>2. Len(nodes) \in Nat  BY <3>1 DEF Typed
    <3> QED  BY <3>1, <3>2, NodeTypes
  <2>5. call' = Go(n, s, nodes) /\ s # <<>>  BY <1>3, <2>1, <2>3
  <2>6. /\ call' \in CallSet /\ call'.node = n /\ call'.src = s /\ call'.cmp = nodes[n].key
        /\ call'.op = "fetch" /\ call'.stage = "compare" /\ call'.text = call.text
        /\ call'.known = call.known
    BY <1>3, <2>4, <2>5, Goes
  <2>7. ASSUME call.text \in keys  PROVE Sought(nodes, g, call')
    <3>1. Sought(nodes, g, call) /\ call.cmp = nodes[call.node].key  BY <1>4, <2>7 DEF Sought
    <3>2. IF Earlier THEN Beyond("before", Head(call.src), HeadOf(nodes, call.node))
          ELSE Beyond("after", Head(call.src), HeadOf(nodes, call.node))
      BY <1>1, <1>2, <1>3, <3>1, Compared
    <3>3. Beyond(t, Head(call.src), HeadOf(nodes, call.node))  BY <2>2, <3>2 DEF Sides
    <3>4. /\ g[n].pre = g[call.node].pre
          /\ Head(call.src) \in g[n].span
      BY <1>1, <1>3, <1>6, <2>2, <2>3, <3>1, <3>3, Across
    <3> QED  BY <2>3, <2>4, <2>6, <3>1, <3>4 DEF Sought
  <2>8. Good(nodes, roots, keys, g, call')  BY <1>3, <2>4, <2>5, <2>6, <2>7, FetchOn DEF Found
  <2> QED  BY <1>1, <1>2, <2>8 DEF Inv
<1> QED  BY <1>5, <1>6

LEMMA FetchNoneKept ==
  ASSUME Inv, FetchNone
  PROVE  Inv'
<1>1. PICK g : Tree(nodes, roots, keys, g) /\ Good(nodes, roots, keys, g, call)
  BY DEF Inv, FetchNone, At
<1>2. /\ call \in CallSet /\ call.op = "fetch" /\ Comparing(nodes, roots, keys, g, call)
      /\ call.node = 0
  BY <1>1 DEF FetchNone, At, Good
<1>3. call.text \notin keys  BY <1>2 DEF Comparing
<1>4. PICK v \in Key \union {Null} : v = Null  OBVIOUS
<1>5. Return(v) /\ nodes' = nodes /\ roots' = roots /\ keys' = keys  BY <1>4 DEF FetchNone
<1>6. Good(nodes, roots, keys, g, call')  BY <1>2, <1>3, <1>5, FetchReturns
<1> QED  BY <1>1, <1>5, <1>6 DEF Inv

-----------------------------------------------------------------------------
\* What a match knows of its node.
LEMMA MatchAt ==
  ASSUME NEW g, Tree(nodes, roots, keys, g), Good(nodes, roots, keys, g, call), At("match")
  PROVE  /\ call \in CallSet /\ call.op = "match" /\ call.stage = "compare"
         /\ call.node \in 1..Len(nodes)
         /\ call.src \in Seq(Char) /\ call.cmp \in Seq(Char) /\ call.cmp # <<>>
         /\ Same => call.src # <<>>
         /\ Complete(keys) => /\ Sought(nodes, g, call)
                              /\ g[call.node].pre = <<>> => call.value = Null
                              /\ g[call.node].pre # <<>> => call.value = g[call.node].pre
<1>1. /\ call \in CallSet /\ call.op = "match" /\ call.stage = "compare"
      /\ Comparing(nodes, roots, keys, g, call)
  BY DEF At, Good
<1>2. /\ call.node \in 0..Len(nodes) /\ call.node # 0 /\ call.cmp # <<>>
      /\ Complete(keys) => /\ Sought(nodes, g, call)
                           /\ g[call.node].pre = <<>> => call.value = Null
                           /\ g[call.node].pre # <<>> => call.value = g[call.node].pre
  BY <1>1 DEF Comparing
<1>3. call.node \in 1..Len(nodes)
  <2>1. Len(nodes) \in Nat  BY DEF Tree, Typed
  <2>2. PICK n \in 0..Len(nodes) : n = call.node  BY <1>2
  <2>3. n # 0  BY <1>2, <2>2
  <2>4. n \in 1..Len(nodes)  BY <2>1, <2>3
  <2> QED  BY <2>2, <2>4
<1>4. call.src \in Seq(Char) /\ call.cmp \in Seq(Char)  BY <1>1 DEF CallSet
<1>5. Same => call.src # <<>>
  <2>1. First(call.cmp) > 0 /\ First(call.cmp) \in Nat  BY <1>2, <1>4, FirstOf
  <2>2. call.src = <<>> => First(call.src) = 0  BY <1>4, FirstOf
  <2> QED  BY <2>1, <2>2 DEF Same
<1> QED  BY <1>1, <1>2, <1>3, <1>4, <1>5

LEMMA MatchOn ==
  ASSUME NEW g, NEW c \in CallSet, c.op = "match", c.stage = "compare",
         c.node \in 1..Len(nodes), c.cmp # <<>>, c.known <=> c.text \in keys,
         Complete(keys) => /\ Sought(nodes, g, c)
                           /\ g[c.node].pre = <<>> => c.value = Null
                           /\ g[c.node].pre # <<>> => c.value = g[c.node].pre,
         Len(nodes) \in Nat
  PROVE  Good(nodes, roots, keys, g, c)
<1>1. c.node # 0 /\ c.node \in 0..Len(nodes)
  <2>1. PICK n \in 1..Len(nodes) : n = c.node  OBVIOUS
  <2>2. n # 0 /\ n \in 0..Len(nodes)  OBVIOUS
  <2> QED  BY <2>1, <2>2
<1>2. Comparing(nodes, roots, keys, g, c)  BY <1>1 DEF Comparing
<1> QED  BY <1>2 DEF Good

\* Where no node goes on with the text, no longer key does.
LEMMA Rightmost ==
  ASSUME NEW ns, NEW rs, NEW ks, NEW g, Tree(ns, rs, ks, g), Complete(ks),
         NEW p \in Seq(Char), NEW s \in Seq(Char), NEW v,
         p # <<>> => p \in ks /\ v = p, p = <<>> => v = Null,
         s # <<>> => \A j \in 1..Len(ns) : g[j].pre = p => HeadOf(ns, j) # Head(s)
  PROVE  Right(ks, p \o s, v, s)
<1>1. ks \subseteq Seq(Char) \ {<<>>} /\ Null \notin ks  BY PtreeAssumption DEF Tree, Typed
<1>2. PICK t \in Seq(Char) : t = p \o s  BY ConcatProperties
<1>3. /\ Len(t) = Len(p) + Len(s) /\ Len(p) \in Nat /\ Len(s) \in Nat
      /\ \A n \in 0..Len(p) : SubSeq(t, 1, n) = SubSeq(p, 1, n)
  BY <1>2, ConcatProperties, Beginning
<1>4. v # Null => v \in ks /\ IsPrefix(v, t) /\ t = v \o s
  <2>1. Len(p) <= Len(t) /\ Len(p) \in 0..Len(p)
    <3>1. PICK a \in Nat, b \in Nat : a = Len(p) /\ b = Len(s)  BY <1>3
    <3>2. a <= a + b /\ a \in 0..a  OBVIOUS
    <3> QED  BY <1>3, <3>1, <3>2
  <2>2. SubSeq(p, 1, Len(p)) = SubSeq(t, 1, Len(p))  BY <1>3, <2>1
  <2> QED  BY <1>2, <2>1, <2>2 DEF IsPrefix
<1>5. ASSUME NEW k \in ks, IsPrefix(k, t)  PROVE v # Null /\ Len(k) <= Len(v)
  <2>1. /\ k \in Seq(Char) /\ k # <<>> /\ Len(k) <= Len(t) /\ Len(k) \in Nat \ {0}
        /\ SubSeq(k, 1, Len(k)) = SubSeq(t, 1, Len(k))
    BY <1>1, <1>5, HeadFirst DEF IsPrefix
  <2>2. PICK a \in Nat, b \in Nat, l \in Nat \ {0} : a = Len(p) /\ b = Len(s) /\ l = Len(k)
    BY <1>3, <2>1
  <2>3. l <= a + b  BY <1>3, <2>1, <2>2
  <2>4. CASE l > a
    <3>1. b # 0 /\ a + 1 \in 1..l  BY <2>3, <2>4
    <3>2. s # <<>>  BY <2>2, <3>1, EmptySeq
    <3>3. /\ SubSeq(t, 1, Len(p) + 1) = Append(p, Head(s))
          /\ Head(s) \in Char
      BY <1>2, <3>2, Shift, HeadFirst
    <3>4. SubSeq(k, 1, Len(p) + 1) = SubSeq(t, 1, Len(p) + 1)
      <4>1. a + 1 \in 1..Len(k) /\ a + 1 \in 1..Len(t)
        <5>1. a + 1 \in 1..(a + b)  BY <2>3, <2>4
        <5> QED  BY <1>3, <2>2, <3>1, <5>1
      <4>2. \A n \in 1..l : k[n] = t[n]
        <5>1. \A n \in 1..l : k[n] \in Char /\ t[n] \in Char
          <6>1. Len(t) = a + b  BY <1>3, <2>2
          <6> QED  BY <2>1, <2>2, <2>3, <6>1
        <5>2. \A n \in 1..l : SubSeq(k, 1, l)[n] = k[n] /\ SubSeq(t, 1, l)[n] = t[n]
          BY <5>1, SubSeqProperties
        <5>3. SubSeq(k, 1, l) = SubSeq(t, 1, l)  BY <2>1, <2>2
        <5> QED  BY <5>2, <5>3
      <4>3. \A n \in 1..a + 1 : k[n] \in Char /\ t[n] \in Char  BY <2>1, <4>1
      <4>4. /\ SubSeq(k, 1, a + 1) \in Seq(Char) /\ Len(SubSeq(k, 1, a + 1)) = a + 1
            /\ \A n \in 1..a + 1 : SubSeq(k, 1, a + 1)[n] = k[n]
        BY <4>3, SubSeqProperties
      <4>5. /\ SubSeq(t, 1, a + 1) \in Seq(Char) /\ Len(SubSeq(t, 1, a + 1)) = a + 1
            /\ \A n \in 1..a + 1 : SubSeq(t, 1, a + 1)[n] = t[n]
        BY <4>3, SubSeqProperties
      <4>6. \A n \in 1..a + 1 : k[n] = t[n]  BY <2>4, <4>2
      <4> QED  BY <2>2, <4>4, <4>5, <4>6, SeqEqual
    <3>5. Len(p) + 1 \in 1..Len(k)  BY <2>2, <3>1
    <3>6. SubSeq(k, 1, Len(p) + 1) \in ks  BY <3>5 DEF Complete
    <3>7. Append(p, Head(s)) \in ks  BY <3>3, <3>4, <3>6
    <3>8. PICK j \in 1..Len(ns) : ns[j].value = Append(p, Head(s))  BY <3>7 DEF Tree, Vals
    <3>9. ns[j].value = Point(ns, g, j)  BY ClosedNodes
    <3>10. g[j].pre \in Seq(Char) /\ HeadOf(ns, j) \in Char  BY NodeTypes DEF Tree
    <3>11. PICK q \in Seq(Char), c \in Char, d \in Char : q = g[j].pre /\ c = HeadOf(ns, j) /\ d = Head(s)
      BY <3>3, <3>10
    <3>12. Append(q, c) = Append(p, d)  BY <3>8, <3>9, <3>11 DEF Point
    <3>13. q = p /\ c = d  BY <3>12, AppendSame
    <3> QED  BY <3>2, <3>11, <3>13
  <2>5. CASE ~ (l > a)
    <3>1. l <= a /\ a # 0  BY <2>5
    <3>2. p # <<>>  BY <2>2, <3>1, EmptySeq
    <3>3. v = p /\ v # Null  BY <1>1, <3>2
    <3> QED  BY <2>2, <3>1, <3>3
  <2> QED  BY <2>4, <2>5
<1> QED  BY <1>2, <1>4, <1>5 DEF Right

LEMMA MatchEqualKept ==
  ASSUME Inv, MatchEqual
  PROVE  Inv'
<1>1. PICK g : Tree(nodes, roots, keys, g) /\ Good(nodes, roots, keys, g, call)
  BY DEF Inv, MatchEqual, At
<1>2. /\ At("match") /\ Same /\ Current.equal # 0
      /\ nodes' = nodes /\ roots' = roots /\ keys' = keys
  BY DEF MatchEqual
<1>3. /\ call \in CallSet /\ call.op = "match" /\ call.stage = "compare"
      /\ call.node \in 1..Len(nodes) /\ call.src \in Seq(Char) /\ call.src # <<>>
      /\ Complete(keys) => Sought(nodes, g, call)
  BY <1>1, <1>2, MatchAt
<1>4. PICK i \in 1..Len(nodes) : i = call.node  BY <1>3
<1>5. call.known <=> call.text \in keys  BY <1>1, <1>3 DEF Good, Comparing
<1>6. nodes[i].equal # 0 /\ Current = nodes[i]  BY <1>2, <1>4 DEF Current
<1>7. nodes[i].equal \in 1..Len(nodes) /\ LeadsTo(g, nodes[i].equal, Point(nodes, g, i))
  BY <1>1, <1>6, Below
<1>8. Tail(call.src) \in Seq(Char)  BY <1>3, HeadFirst
<1>9. PICK n \in 1..Len(nodes), s \in Seq(Char) : n = nodes[i].equal /\ s = Tail(call.src)
  BY <1>7, <1>8
<1>10. Typed(nodes, roots, keys, g)  BY <1>1 DEF Tree
<1>11. /\ nodes[n].key \in Seq(Char) /\ nodes[n].key # <<>> /\ n \in Nat /\ n # 0
       /\ nodes[i].value \in Key \union {Null} /\ Point(nodes, g, i) # <<>>
  BY <1>10, NodeTypes
<1>12. Len(nodes) \in Nat  BY <1>10 DEF Typed
<1>13. PICK c \in CallSet : /\ c = Go(n, s, nodes) /\ c.node = n /\ c.src = s /\ c.cmp = nodes[n].key
                            /\ c.op = "match" /\ c.stage = "compare" /\ c.text = call.text
                            /\ c.known = call.known
  BY <1>3, <1>11, Goes
<1>14. PICK v \in Key \union {Null} : v = nodes[i].value  BY <1>11
<1>15. call' = [c EXCEPT !.value = v]
  BY <1>6, <1>9, <1>13, <1>14 DEF MatchEqual
<1>16. /\ call' \in CallSet /\ call'.node = n /\ call'.src = s /\ call'.cmp = nodes[n].key
       /\ call'.op = "match" /\ call'.stage = "compare" /\ call'.text = call.text
       /\ call'.known = call.known /\ call'.value = v
  BY <1>13, <1>15 DEF CallSet
<1>17. ASSUME Complete(keys)
       PROVE  /\ Sought(nodes, g, call')
              /\ g[n].pre = v /\ g[n].pre # <<>>
  <2>1. Sought(nodes, g, call) /\ call.cmp = nodes[call.node].key  BY <1>3, <1>17 DEF Sought
  <2>2. Head(call.src) = HeadOf(nodes, call.node)  BY <1>1, <1>2, <1>3, <2>1, Compared
  <2>3. Meets(nodes, g, call)  BY <1>3, <2>1, <2>2 DEF Meets
  <2>4. call.text = Point(nodes, g, i) \o s  BY ZenonT(60), <1>1, <1>4, <1>9, <2>3, Down
  <2>5. s # <<>> => Head(s) \in Char  BY HeadFirst
  <2>6. g[n].pre = Point(nodes, g, i) /\ g[n].span = Char  BY <1>7, <1>9 DEF LeadsTo
  <2>7. v = Point(nodes, g, i)  BY <1>1, <1>14, <1>17, ClosedNodes
  <2> QED  BY <1>11, <1>16, <2>4, <2>5, <2>6, <2>7 DEF Sought
<1>18. Good(nodes, roots, keys, g, call')  BY <1>5, <1>11, <1>12, <1>16, <1>17, MatchOn
<1> QED  BY <1>1, <1>2, <1>18 DEF Inv

LEMMA MatchMoreKept ==
  ASSUME Inv, MatchMore
  PROVE  Inv'
<1>1. PICK g : Tree(nodes, roots, keys, g) /\ Good(nodes, roots, keys, g, call)
  BY DEF Inv, MatchMore, At
<1>2. /\ At("match") /\ Same /\ Current.equal = 0
      /\ nodes' = nodes /\ roots' = roots /\ keys' = keys
  BY DEF MatchMore
<1>3. /\ call \in CallSet /\ call.op = "match" /\ call.stage = "compare"
      /\ call.node \in 1..Len(nodes) /\ call.src \in Seq(Char) /\ call.src # <<>>
      /\ call.cmp \in Seq(Char) /\ call.cmp # <<>>
      /\ Complete(keys) => Sought(nodes, g, call)
  BY <1>1, <1>2, MatchAt
<1>4. PICK i \in 1..Len(nodes) : i = call.node  BY <1>3
<1>5. call.known <=> call.text \in keys  BY <1>1, <1>3 DEF Good, Comparing
<1>6. nodes[i].equal = 0 /\ Current = nodes[i]  BY <1>2, <1>4 DEF Current
<1>7. Tail(call.src) \in Seq(Char) /\ Tail(call.cmp) \in Seq(Char)  BY <1>3, HeadFirst
<1>8. Typed(nodes, roots, keys, g)  BY <1>1 DEF Tree
<1>9. nodes[i].value \in Key \union {Null} /\ Point(nodes, g, i) # <<>> /\ Point(nodes, g, i) \in Seq(Char)
  BY <1>8, NodeTypes
<1>10. Len(nodes) \in Nat  BY <1>8 DEF Typed
<1>11. Complete(keys) => Tail(call.cmp) = <<>>
  <2>1. Complete(keys) => call.cmp = nodes[i].key  BY <1>3, <1>4 DEF Sought
  <2>2. Complete(keys) => Tail(nodes[i].key) = <<>>  BY <1>1, <1>6, ClosedNodes
  <2> QED  BY <2>1, <2>2
<1>12. Good(nodes, roots, keys, g, call')
  <2>1. CASE Tail(call.cmp) # <<>>
    <3>1. call' = [call EXCEPT !.src = Tail(@), !.cmp = Tail(@)]  BY <2>1 DEF MatchMore
    <3>2. /\ call' \in CallSet /\ call'.node = call.node /\ call'.cmp = Tail(call.cmp)
          /\ call'.op = "match" /\ call'.stage = "compare" /\ call'.text = call.text
          /\ call'.known = call.known
      BY <1>3, <1>7, <3>1 DEF CallSet
    <3>3. ~ Complete(keys)  BY <1>11, <2>1
    <3> QED  BY <1>3, <1>5, <1>10, <2>1, <3>2, <3>3, MatchOn
  <2>2. CASE Tail(call.cmp) = <<>>
    <3>1. PICK v \in Key \union {Null} : v = nodes[i].value  BY <1>9
    <3>2. call' = [call EXCEPT !.src = Tail(@), !.value = v, !.stage = "done"]
      BY <1>6, <2>2, <3>1 DEF MatchMore
    <3>3. /\ call' \in CallSet /\ call'.src = Tail(call.src) /\ call'.value = v
          /\ call'.op = "match" /\ call'.stage = "done" /\ call'.text = call.text
      BY <1>3, <1>7, <3>2 DEF CallSet
    <3>4. ASSUME Complete(keys)  PROVE Right(keys, call'.text, call'.value, call'.src)
      <4>1. Sought(nodes, g, call) /\ call.cmp = nodes[call.node].key  BY <1>3, <3>4 DEF Sought
      <4>2. Head(call.src) = HeadOf(nodes, call.node)  BY <1>1, <1>2, <1>3, <4>1, Compared
      <4>3. Meets(nodes, g, call)  BY <1>3, <4>1, <4>2 DEF Meets
      <4>4. call.text = Point(nodes, g, i) \o Tail(call.src)  BY ZenonT(60), <1>1, <1>4, <4>3, Down
      <4>5. v = Point(nodes, g, i) /\ Point(nodes, g, i) \in keys  BY <1>1, <3>1, <3>4, ClosedNodes
      <4>6. \A j \in 1..Len(nodes) : g[j].pre # Point(nodes, g, i)
        <5>1. Linked(nodes, roots, g) /\ Paths(nodes, g)  BY <1>1 DEF Tree
        <5> QED  BY <1>6, <1>8, <5>1, SameLevel
      <4>7. PICK p \in Seq(Char), s \in Seq(Char) : p = Point(nodes, g, i) /\ s = Tail(call.src)
        BY <1>7, <1>9
      <4>8. Right(keys, p \o s, v, s)
        <5>1. /\ p # <<>> => p \in keys /\ v = p
              /\ p = <<>> => v = Null
              /\ s # <<>> => \A j \in 1..Len(nodes) : g[j].pre = p => HeadOf(nodes, j) # Head(s)
          BY <1>9, <4>5, <4>6, <4>7
        <5> QED  BY <1>1, <3>4, <5>1, Rightmost
      <4> QED  BY <3>3, <4>4, <4>7, <4>8
    <3> QED  BY <3>3, <3>4 DEF Good, Answered
  <2> QED  BY <2>1, <2>2
<1> QED  BY <1>1, <1>2, <1>12 DEF Inv

LEMMA MatchAsideKept ==
  ASSUME Inv, MatchAside
  PROVE  Inv'
<1>1. PICK g : Tree(nodes, roots, keys, g) /\ Good(nodes, roots, keys, g, call)
  BY DEF Inv, MatchAside, At
<1>2. At("match") /\ ~ Same /\ nodes' = nodes /\ roots' = roots /\ keys' = keys
  BY DEF MatchAside
<1>3. /\ call \in CallSet /\ call.op = "match" /\ call.stage = "compare"
      /\ call.node \in 1..Len(nodes) /\ call.src \in Seq(Char)
      /\ Complete(keys) => /\ Sought(nodes, g, call)
                           /\ g[call.node].pre = <<>> => call.value = Null
                           /\ g[call.node].pre # <<>> => call.value = g[call.node].pre
  BY <1>1, <1>2, MatchAt
<1>4. PICK i \in 1..Len(nodes) : i = call.node  BY <1>3
<1>5. call.known <=> call.text \in keys  BY <1>1, <1>3 DEF Good, Comparing
<1>6. Typed(nodes, roots, keys, g)  BY <1>1 DEF Tree
<1>7. Len(nodes) \in Nat  BY <1>6 DEF Typed
<1>8. Complete(keys) =>
        /\ call.cmp = nodes[i].key /\ call.text = g[i].pre \o call.src
        /\ call.src # <<>> => Head(call.src) \in g[i].span
  BY <1>3, <1>4 DEF Sought
<1>9. Complete(keys) /\ call.src # <<>> =>
        IF Earlier THEN Beyond("before", Head(call.src), HeadOf(nodes, i))
        ELSE Beyond("after", Head(call.src), HeadOf(nodes, i))
  BY <1>1, <1>2, <1>3, <1>4, <1>8, Compared
<1>10. CASE Aside # 0
  <2>1. call' = Go(Aside, call.src, nodes)  BY <1>10 DEF MatchAside
  <2>2. PICK t \in Sides : /\ Aside = Way(nodes, call.node, t) /\ Aside \in 1..Len(nodes)
                           /\ t = "before" <=> Earlier
    BY <1>1, <1>3, <1>10, AsideOf
  <2>3. PICK n \in 1..Len(nodes), s \in Seq(Char) : n = Aside /\ s = call.src  BY <1>3, <2>2
  <2>4. nodes[n].key \in Seq(Char) /\ nodes[n].key # <<>> /\ n \in Nat /\ n # 0  BY <1>6, NodeTypes
  <2>5. call' = Go(n, s, nodes)  BY <2>1, <2>3
  <2>6. /\ call' \in CallSet /\ call'.node = n /\ call'.src = s /\ call'.cmp = nodes[n].key
        /\ call'.op = "match" /\ call'.stage = "compare" /\ call'.text = call.text
        /\ call'.known = call.known /\ call'.value = call.value
    BY <1>3, <2>4, <2>5, Goes
  <2>7. ASSUME Complete(keys)
        PROVE  /\ Sought(nodes, g, call')
               /\ g[n].pre = g[i].pre
    <3>1. Sought(nodes, g, call)  BY <1>3, <2>7
    <3>2. call.src # <<>> => Beyond(t, Head(call.src), HeadOf(nodes, call.node))
      BY <1>4, <1>9, <2>2, <2>7 DEF Sides
    <3>3. /\ g[n].pre = g[call.node].pre
          /\ call.src # <<>> => Head(call.src) \in g[n].span
      BY <1>1, <1>3, <1>10, <2>2, <2>3, <3>1, <3>2, Across
    <3> QED  BY <1>4, <1>8, <2>3, <2>4, <2>6, <2>7, <3>3 DEF Sought
  <2>8. Good(nodes, roots, keys, g, call')
    BY <1>3, <1>4, <1>5, <1>7, <2>4, <2>6, <2>7, MatchOn
  <2> QED  BY <1>1, <1>2, <2>8 DEF Inv
<1>11. CASE Aside = 0
  <2>1. PICK v \in Key \union {Null} : v = call.value  BY <1>3 DEF CallSet
  <2>2. Return(v)  BY <1>11, <2>1 DEF MatchAside
  <2>3. /\ call' \in CallSet /\ call'.stage = "done" /\ call'.value = v
        /\ call'.op = "match" /\ call'.text = call.text /\ call'.src = call.src
    BY <1>3, <2>2, Returns
  <2>4. ASSUME Complete(keys)  PROVE Right(keys, call.text, v, call.src)
    <3>1. g[i].pre \in Seq(Char)  BY <1>6, NodeTypes
    <3>2. PICK p \in Seq(Char), s \in Seq(Char) : p = g[i].pre /\ s = call.src  BY <1>3, <3>1
    <3>3. (p = <<>> => v = Null) /\ (p # <<>> => v = p)  BY <1>3, <1>4, <2>1, <2>4, <3>2
    <3>4. p # <<>> => p \in keys
      <4>1. p # <<>> => \E l \in 1..Len(nodes) : p = Point(nodes, g, l)
        BY <1>1, <3>2 DEF Tree, Linked
      <4>2. \A l \in 1..Len(nodes) : Point(nodes, g, l) \in keys  BY <1>1, <2>4, ClosedNodes
      <4> QED  BY <4>1, <4>2
    <3>5. ASSUME s # <<>>, NEW j \in 1..Len(nodes), g[j].pre = p, HeadOf(nodes, j) = Head(s)
          PROVE  FALSE
      <4>1. HeadOf(nodes, j) \in g[i].span  BY <1>8, <2>4, <3>2, <3>5
      <4>2. /\ HeadOf(nodes, j) = HeadOf(nodes, i) => i = j
            /\ \A u \in Sides : Beyond(u, HeadOf(nodes, j), HeadOf(nodes, i)) => Way(nodes, i, u) # 0
        BY <1>1, <3>2, <3>5, <4>1, Turn
      <4>3. IF Earlier THEN Way(nodes, i, "before") # 0 ELSE Way(nodes, i, "after") # 0
        BY <1>9, <2>4, <3>2, <3>5, <4>2 DEF Sides
      <4> QED  BY <1>4, <1>11, <4>3 DEF Aside, Current, Way
    <3>6. Right(keys, p \o s, v, s)
      <4>1. /\ p # <<>> => p \in keys /\ v = p
            /\ p = <<>> => v = Null
            /\ s # <<>> => \A j \in 1..Len(nodes) : g[j].pre = p => HeadOf(nodes, j) # Head(s)
        BY <3>3, <3>4, <3>5
      <4> QED  BY <1>1, <2>4, <4>1, Rightmost
    <3> QED  BY <1>8, <2>4, <3>2, <3>6
  <2>5. Good(nodes, roots, keys, g, call')  BY <2>3, <2>4 DEF Good, Answered
  <2> QED  BY <1>1, <1>2, <2>5 DEF Inv
<1> QED  BY <1>10, <1>11

-----------------------------------------------------------------------------
LEMMA BeginKept ==
  ASSUME Inv, NEW op \in {"store", "fetch", "match"}, NEW text \in Text,
         op = "store" => text \in Key, op = "match" => Root(text) # 0,
         call' = Begin(op, text), nodes' = nodes, roots' = roots, keys' = keys
  PROVE  Inv'
<1>1. PICK g : Tree(nodes, roots, keys, g)  BY DEF Inv
<1>2. Good(nodes, roots, keys, g, Begin(op, text))  BY <1>1, Begins
<1> QED  BY <1>1, <1>2 DEF Inv

LEMMA LeaveKept ==
  ASSUME Inv, Leave
  PROVE  Inv'
<1>1. PICK g : Tree(nodes, roots, keys, g)  BY DEF Inv
<1>2. call' = Null /\ nodes' = nodes /\ roots' = roots /\ keys' = keys  BY DEF Leave
<1> QED  BY <1>1, <1>2 DEF Inv

LEMMA InitInv == Init => Inv
<1> SUFFICES ASSUME Init  PROVE Inv  OBVIOUS
<1>1. nodes = <<>> /\ roots = [r \in Roots |-> 0] /\ keys = {} /\ call = Null  BY DEF Init
<1>2. Len(<<>>) = 0 /\ <<>> \in Seq(NodeSet) /\ <<>> \in Seq(Ghost)  OBVIOUS
<1>3. 1..Len(nodes) = {} /\ \A r \in Roots : roots[r] = 0  BY <1>1, <1>2
<1>4. Typed(nodes, roots, keys, <<>>)
  <2>1. roots \in [Roots -> Nat]  BY <1>1
  <2> QED  BY <1>1, <1>2, <2>1 DEF Typed
<1>5. Linked(nodes, roots, <<>>) /\ Apart(nodes, <<>>) /\ Paths(nodes, <<>>)
  BY <1>3 DEF Linked, Apart, Paths
<1>6. Vals(nodes, keys, <<>>)  BY <1>1, <1>3 DEF Vals
<1>7. Tree(nodes, roots, keys, <<>>)  BY <1>4, <1>5, <1>6 DEF Tree
<1> QED  BY <1>1, <1>7 DEF Inv

LEMMA NextInv == Inv /\ [Next]_vars => Inv'
<1> SUFFICES ASSUME Inv, [Next]_vars  PROVE Inv'  OBVIOUS
<1>1. ASSUME NEW k \in Key, Store(k)  PROVE Inv'
  <2>1. k \in Text  BY DEF Text
  <2> QED  BY <1>1, <2>1, BeginKept DEF Store
<1>2. ASSUME NEW s \in Text, Fetch(s)  PROVE Inv'  BY <1>2, BeginKept DEF Fetch
<1>3. ASSUME NEW s \in Text, Match(s)  PROVE Inv'  BY <1>3, BeginKept DEF Match
<1>4. ASSUME StoreAside("before")  PROVE Inv'  BY <1>4, StoreAsideKept DEF Sides
<1>5. ASSUME StoreAside("after")  PROVE Inv'  BY <1>5, StoreAsideKept DEF Sides
<1>6. ASSUME Step  PROVE Inv'
  BY <1>4, <1>5, <1>6, RootKept, ShortKept, DuplicateKept, ValueKept, EqualKept, SplitKept,
     ExtendKept, FetchSameKept, FetchAsideKept, FetchNoneKept, MatchEqualKept, MatchMoreKept,
     MatchAsideKept, LeaveKept DEF Step
<1>7. ASSUME UNCHANGED vars  PROVE Inv'
  <2>1. nodes' = nodes /\ roots' = roots /\ keys' = keys /\ call' = call  BY <1>7 DEF vars
  <2> QED  BY <2>1 DEF Inv
<1> QED  BY <1>1, <1>2, <1>3, <1>6, <1>7 DEF Next

LEMMA TreeInv == Spec => []Inv
BY InitInv, NextInv, PTL DEF Spec

\* Two beginnings of a text that are as long are the same.
LEMMA SameBeginning ==
  ASSUME NEW k \in Seq(Char), NEW j \in Seq(Char), NEW t,
         IsPrefix(k, t), IsPrefix(j, t), Len(k) = Len(j)
  PROVE  k = j
<1>1. SubSeq(k, 1, Len(k)) = SubSeq(j, 1, Len(j))  BY DEF IsPrefix
<1>2. \A p \in Seq(Char) : SubSeq(p, 1, Len(p)) = p
  <2>1. SUFFICES ASSUME NEW p \in Seq(Char)  PROVE SubSeq(p, 1, Len(p)) = p  OBVIOUS
  <2>2. \A i \in 1..Len(p) : p[i] \in Char  OBVIOUS
  <2>3. Len(p) \in Nat  OBVIOUS
  <2>4. /\ SubSeq(p, 1, Len(p)) \in Seq(Char) /\ Len(SubSeq(p, 1, Len(p))) = Len(p)
        /\ \A i \in 1..Len(p) : SubSeq(p, 1, Len(p))[i] = p[i]
    BY <2>2, <2>3, SubSeqProperties
  <2> QED  BY <2>4, SeqEqual
<1> QED  BY <1>1, <1>2

\* What is right is the longest key.
LEMMA RightIsLongest ==
  ASSUME keys \subseteq Seq(Char) \ {<<>>}, Null \notin keys,
         NEW text, NEW v, NEW s, Right(keys, text, v, s)
  PROVE  v = Longest(text) /\ (v # Null => text = v \o s)
<1>1. CASE v = Null
  <2>1. Beginnings(text) = {}  BY <1>1 DEF Right, Beginnings
  <2> QED  BY <1>1, <2>1 DEF Longest
<1>2. CASE v # Null
  <2>1. v \in Beginnings(text) /\ \A j \in Beginnings(text) : Len(j) <= Len(v)
    BY <1>2 DEF Right, Beginnings
  <2>2. PICK w : w = CHOOSE k \in Beginnings(text) : \A j \in Beginnings(text) : Len(j) <= Len(k)
    OBVIOUS
  <2>3. w \in Beginnings(text) /\ \A j \in Beginnings(text) : Len(j) <= Len(w)  BY <2>1, <2>2
  <2>4. w \in Seq(Char) /\ v \in Seq(Char) /\ IsPrefix(w, text) /\ IsPrefix(v, text)
    BY <2>1, <2>3 DEF Beginnings
  <2>5. Len(w) = Len(v)
    <3>1. Len(w) \in Nat /\ Len(v) \in Nat  BY <2>4
    <3>2. Len(w) <= Len(v) /\ Len(v) <= Len(w)  BY <2>1, <2>3
    <3> QED  BY <3>1, <3>2
  <2>6. w = v  BY <2>4, <2>5, SameBeginning
  <2>7. Longest(text) = w  BY <2>1, <2>2 DEF Longest
  <2> QED  BY <1>2, <2>6, <2>7 DEF Right
<1> QED  BY <1>1, <1>2

(***************************************************************************)
(* Theorems.                                                               *)
(***************************************************************************)
\* However the nodes were split by what was stored since, and in whatever order: when every
\* beginning of a key is a key, hemp_pnode_match_more matches the longest key that a text
\* starts with, and leaves the scanner right behind it (ptree.c:237-285).
THEOREM MatchesLongest == Spec => []ClosedMatchesLongest
<1>1. Inv => ClosedMatchesLongest
  <2> SUFFICES ASSUME Inv, Done, call.op = "match",
                      \A k \in keys : \A n \in 1..Len(k) : SubSeq(k, 1, n) \in keys
               PROVE  Exact
    BY DEF ClosedMatchesLongest
  <2>1. PICK g : Tree(nodes, roots, keys, g) /\ Good(nodes, roots, keys, g, call)
    BY DEF Inv, Done
  <2>2. Complete(keys)  BY DEF Complete
  <2>3. Right(keys, call.text, call.value, call.src)
    BY <2>1, <2>2 DEF Done, Good, Answered
  <2>4. keys \subseteq Seq(Char) \ {<<>>} /\ Null \notin keys
    BY <2>1, PtreeAssumption DEF Tree, Typed
  <2> QED  BY <2>3, <2>4, RightIsLongest DEF Exact
<1> QED  BY <1>1, TreeInv, PTL

\* hemp_ptree_store refuses a key if and only if it was stored before (ptree.c:108-126).
THEOREM RefusesKnownKeys == Spec => []StoresNewKeys
<1>1. Inv => StoresNewKeys
  BY DEF Inv, StoresNewKeys, Done, Good, Answered
<1> QED  BY <1>1, TreeInv, PTL

\* hemp_ptree_fetch finds every key that was stored, wherever splits have moved it
\* (ptree.c:168-222).
THEOREM FindsStoredKeys == Spec => []FetchFinds
<1>1. Inv => FetchFinds
  BY DEF Inv, FetchFinds, Done, Good, Answered
<1> QED  BY <1>1, TreeInv, PTL

-----------------------------------------------------------------------------
(***************************************************************************)
(* Part two: the tables.                                                   *)
(***************************************************************************)

Used(m) == {a \in Heap : m[a] # Unallocated}
IsHeap(m) == m = [a \in Heap |-> m[a]]

IsGrammar(m, g) ==
  /\ g \in Heap /\ m[g].kind = "grammar"
  /\ DOMAIN m[g] = {"kind", "name", "elements", "operators"}
  /\ \A x \in Listed(m[g].elements) : x \in Heap /\ m[x].kind = "element" /\ m[x].grammar = g

IsTagset(m, t) ==
  /\ t \in Heap /\ m[t].kind = "tagset"
  /\ DOMAIN m[t] = {"kind", "tags", "inline", "outline", "unplugged"}
  /\ \A x \in Listed(m[t].tags) : x \in Heap /\ m[x].kind = "tag"

IsError(m, e) ==
  /\ e \in Heap /\ m[e].kind = "error"
  /\ m[e].location # NoBlock => m[e].location \in Heap /\ m[m[e].location].kind = "location"

\* What the grammars G, the set of tags t and the errors E own.
Owned(m, G, t, E) ==
  (UNION {GrammarBlocks(m, g) : g \in G}) \union TagsetBlocks(m, t)
    \union (UNION {ErrorBlocks(m, e) : e \in E})

Known(m, G, t, E) ==
  /\ \A g \in G : IsGrammar(m, g)
  /\ t # NoBlock => IsTagset(m, t)
  /\ \A e \in E : IsError(m, e)

\* The blocks that are allocated are owned or were left, and none is both.
Accounted(m, G, t, E, L) ==
  /\ IsHeap(m) /\ Known(m, G, t, E)
  /\ Used(m) = Owned(m, G, t, E) \union L
  /\ Owned(m, G, t, E) \intersect L = {}

-----------------------------------------------------------------------------
(***************************************************************************)
(* What a grammar, a set of tags and an error own.                         *)
(***************************************************************************)
LEMMA HeapFacts == NoBlock \notin Heap /\ Heap \subseteq Nat
  BY TablesAssumption

LEMMA OwnedMember ==
  ASSUME NEW m, NEW G, NEW t, NEW E, NEW x
  PROVE  x \in Owned(m, G, t, E) <=> \/ \E g \in G : x \in GrammarBlocks(m, g)
                                    \/ x \in TagsetBlocks(m, t)
                                    \/ \E e \in E : x \in ErrorBlocks(m, e)
<1> DEFINE OfGrammars == UNION {GrammarBlocks(m, g) : g \in G}
           OfErrors == UNION {ErrorBlocks(m, e) : e \in E}
<1>1. x \in OfGrammars <=> \E g \in G : x \in GrammarBlocks(m, g)  OBVIOUS
<1>2. x \in OfErrors <=> \E e \in E : x \in ErrorBlocks(m, e)  OBVIOUS
<1>3. Owned(m, G, t, E) = OfGrammars \union TagsetBlocks(m, t) \union OfErrors  BY DEF Owned
<1> HIDE DEF OfGrammars, OfErrors
<1> QED  BY <1>1, <1>2, <1>3

\* One more grammar, one more error, or a set of tags owns its blocks besides.
LEMMA OwnedWithGrammar ==
  ASSUME NEW m, NEW G, NEW t, NEW E, NEW g
  PROVE  Owned(m, G \union {g}, t, E) = Owned(m, G, t, E) \union GrammarBlocks(m, g)
<1>1. ASSUME NEW y
      PROVE  y \in Owned(m, G \union {g}, t, E) <=> y \in Owned(m, G, t, E) \union GrammarBlocks(m, g)
  BY OwnedMember
<1> QED  BY <1>1

LEMMA OwnedWithError ==
  ASSUME NEW m, NEW G, NEW t, NEW E, NEW e
  PROVE  Owned(m, G, t, E \union {e}) = Owned(m, G, t, E) \union ErrorBlocks(m, e)
<1>1. ASSUME NEW y
      PROVE  y \in Owned(m, G, t, E \union {e}) <=> y \in Owned(m, G, t, E) \union ErrorBlocks(m, e)
  BY OwnedMember
<1> QED  BY <1>1

LEMMA OwnedWithTagset ==
  ASSUME NEW m, NEW G, NEW t, NEW E
  PROVE  Owned(m, G, t, E) = Owned(m, G, NoBlock, E) \union TagsetBlocks(m, t)
<1>1. ASSUME NEW y
      PROVE  y \in Owned(m, G, t, E) <=> y \in Owned(m, G, NoBlock, E) \union TagsetBlocks(m, t)
  <2>1. y \notin TagsetBlocks(m, NoBlock)  BY DEF TagsetBlocks
  <2> QED  BY <2>1, OwnedMember
<1> QED  BY <1>1

LEMMA GrammarOwns ==
  ASSUME NEW m, NEW g, IsGrammar(m, g), NEW x \in GrammarBlocks(m, g)
  PROVE  /\ x \in Used(m) /\ x \in Heap /\ m[x].kind \in {"grammar", "element"}
         /\ x # g => m[x].kind = "element" /\ m[x].grammar = g
<1>1. x = g \/ x \in Listed(m[g].elements)  BY DEF GrammarBlocks
<1>2. x \in Heap /\ m[x].kind \in {"grammar", "element"}  BY <1>1 DEF IsGrammar
<1>3. m[x] # Unallocated  BY <1>2 DEF Unallocated
<1> QED  BY <1>1, <1>2, <1>3 DEF IsGrammar, Used

LEMMA TagsetOwns ==
  ASSUME NEW m, NEW t, t # NoBlock => IsTagset(m, t), NEW x \in TagsetBlocks(m, t)
  PROVE  x \in Used(m) /\ x \in Heap /\ m[x].kind \in {"tagset", "tag"}
<1>1. t # NoBlock /\ (x = t \/ x \in Listed(m[t].tags))  BY DEF TagsetBlocks
<1>2. x \in Heap /\ m[x].kind \in {"tagset", "tag"}  BY <1>1 DEF IsTagset
<1>3. m[x] # Unallocated  BY <1>2 DEF Unallocated
<1> QED  BY <1>2, <1>3 DEF Used

LEMMA ErrorOwns ==
  ASSUME NEW m, NEW e, IsError(m, e), NEW x \in ErrorBlocks(m, e)
  PROVE  x \in Used(m) /\ x \in Heap /\ m[x].kind \in {"error", "location"}
<1>1. CASE x = e  BY <1>1 DEF IsError, Unallocated, Used
<1>2. CASE x = m[e].location /\ x # NoBlock  BY <1>2 DEF IsError, Unallocated, Used
<1> QED  BY <1>1, <1>2 DEF ErrorBlocks

\* Two grammars have no block in common: their elements know whose they are.
LEMMA GrammarsApart ==
  ASSUME NEW m, NEW g, NEW h, IsGrammar(m, g), IsGrammar(m, h), g # h
  PROVE  GrammarBlocks(m, g) \intersect GrammarBlocks(m, h) = {}
<1> SUFFICES ASSUME NEW x \in GrammarBlocks(m, g), x \in GrammarBlocks(m, h)  PROVE FALSE
  OBVIOUS
<1>1. x # g => m[x].kind = "element" /\ m[x].grammar = g  BY GrammarOwns
<1>2. x # h => m[x].kind = "element" /\ m[x].grammar = h  BY GrammarOwns
<1>3. m[g].kind = "grammar" /\ m[h].kind = "grammar"  BY DEF IsGrammar
<1> QED  BY <1>1, <1>2, <1>3

\* Memory that is the same where they are is the same to them.
LEMMA GrammarSame ==
  ASSUME NEW m, NEW n, NEW g, IsGrammar(m, g), \A x \in GrammarBlocks(m, g) : n[x] = m[x]
  PROVE  IsGrammar(n, g) /\ GrammarBlocks(n, g) = GrammarBlocks(m, g)
<1>1. n[g] = m[g] /\ \A x \in Listed(m[g].elements) : n[x] = m[x]  BY DEF GrammarBlocks
<1> QED  BY <1>1 DEF IsGrammar, GrammarBlocks

LEMMA TagsetSame ==
  ASSUME NEW m, NEW n, NEW t, t # NoBlock => IsTagset(m, t),
         \A x \in TagsetBlocks(m, t) : n[x] = m[x]
  PROVE  (t # NoBlock => IsTagset(n, t)) /\ TagsetBlocks(n, t) = TagsetBlocks(m, t)
<1>1. CASE t = NoBlock  BY <1>1 DEF TagsetBlocks
<1>2. CASE t # NoBlock
  <2>1. n[t] = m[t] /\ \A x \in Listed(m[t].tags) : n[x] = m[x]  BY <1>2 DEF TagsetBlocks
  <2> QED  BY <1>2, <2>1 DEF IsTagset, TagsetBlocks
<1> QED  BY <1>1, <1>2

LEMMA ErrorSame ==
  ASSUME NEW m, NEW n, NEW e, IsError(m, e), \A x \in ErrorBlocks(m, e) : n[x] = m[x]
  PROVE  IsError(n, e) /\ ErrorBlocks(n, e) = ErrorBlocks(m, e)
<1>1. n[e] = m[e] /\ (m[e].location # NoBlock => n[m[e].location] = m[m[e].location])
  BY DEF ErrorBlocks
<1> QED  BY <1>1 DEF IsError, ErrorBlocks

LEMMA OwnedSame ==
  ASSUME NEW m, NEW n, NEW G, NEW t, NEW E, Known(m, G, t, E),
         \A x \in Owned(m, G, t, E) : n[x] = m[x]
  PROVE  Known(n, G, t, E) /\ Owned(n, G, t, E) = Owned(m, G, t, E)
<1>1. \A g \in G : IsGrammar(n, g) /\ GrammarBlocks(n, g) = GrammarBlocks(m, g)
  <2> SUFFICES ASSUME NEW g \in G
               PROVE  IsGrammar(n, g) /\ GrammarBlocks(n, g) = GrammarBlocks(m, g)
    OBVIOUS
  <2>1. \A x \in GrammarBlocks(m, g) : n[x] = m[x]  BY OwnedMember
  <2>2. IsGrammar(m, g)  BY DEF Known
  <2> QED  BY <2>1, <2>2, GrammarSame
<1>2. (t # NoBlock => IsTagset(n, t)) /\ TagsetBlocks(n, t) = TagsetBlocks(m, t)
  <2>1. \A x \in TagsetBlocks(m, t) : n[x] = m[x]  BY OwnedMember
  <2>2. t # NoBlock => IsTagset(m, t)  BY DEF Known
  <2> QED  BY <2>1, <2>2, TagsetSame
<1>3. \A e \in E : IsError(n, e) /\ ErrorBlocks(n, e) = ErrorBlocks(m, e)
  <2> SUFFICES ASSUME NEW e \in E
               PROVE  IsError(n, e) /\ ErrorBlocks(n, e) = ErrorBlocks(m, e)
    OBVIOUS
  <2>1. \A x \in ErrorBlocks(m, e) : n[x] = m[x]  BY OwnedMember
  <2>2. IsError(m, e)  BY DEF Known
  <2> QED  BY <2>1, <2>2, ErrorSame
<1>4. {GrammarBlocks(n, g) : g \in G} = {GrammarBlocks(m, g) : g \in G}  BY <1>1
<1>5. {ErrorBlocks(n, e) : e \in E} = {ErrorBlocks(m, e) : e \in E}  BY <1>3
<1> QED  BY <1>1, <1>2, <1>3, <1>4, <1>5 DEF Known, Owned

LEMMA OwnedUsed ==
  ASSUME NEW m, NEW G, NEW t, NEW E, Known(m, G, t, E), NEW x \in Owned(m, G, t, E)
  PROVE  x \in Used(m) /\ x \in Heap
<1>1. CASE \E g \in G : x \in GrammarBlocks(m, g)
  BY <1>1, GrammarOwns DEF Known
<1>2. CASE x \in TagsetBlocks(m, t)
  BY <1>2, TagsetOwns DEF Known
<1>3. CASE \E e \in E : x \in ErrorBlocks(m, e)
  BY <1>3, ErrorOwns DEF Known
<1> QED  BY <1>1, <1>2, <1>3, OwnedMember

-----------------------------------------------------------------------------
(***************************************************************************)
(* More memory in use, and what becomes known by it.                       *)
(***************************************************************************)
\* What was in use is as it was, and the new blocks are apart from it.
LEMMA MoreUsed ==
  ASSUME NEW m, NEW n, NEW G, NEW t, NEW E, NEW L, Accounted(m, G, t, E, L), IsHeap(n),
         \A x \in Used(m) : n[x] = m[x]
  PROVE  Known(n, G, t, E) /\ Owned(n, G, t, E) = Owned(m, G, t, E)
<1>1. Known(m, G, t, E) /\ Used(m) = Owned(m, G, t, E) \union L  BY DEF Accounted
<1>2. \A x \in Owned(m, G, t, E) : n[x] = m[x]  BY <1>1
<1> QED  BY <1>1, <1>2, OwnedSame

LEMMA ErrorMade ==
  ASSUME NEW m, NEW n, NEW G, NEW t, NEW E, NEW L, Accounted(m, G, t, E, L), IsHeap(n),
         \A x \in Used(m) : n[x] = m[x],
         NEW e, IsError(n, e), ErrorBlocks(n, e) = Used(n) \ Used(m)
  PROVE  Accounted(n, G, t, E \union {e}, L)
<1>1. Known(n, G, t, E)  BY MoreUsed
<1>2. Owned(n, G, t, E) = Owned(m, G, t, E)  BY MoreUsed
<1>3. Used(m) \subseteq Used(n)  BY DEF Used
<1>4. Known(n, G, t, E \union {e})  BY <1>1 DEF Known
<1>5. Owned(n, G, t, E \union {e}) = Owned(n, G, t, E) \union ErrorBlocks(n, e)
  BY OwnedWithError
<1>6. Used(m) = Owned(m, G, t, E) \union L /\ Owned(m, G, t, E) \intersect L = {}
  BY DEF Accounted
<1>7. Used(n) = Owned(n, G, t, E \union {e}) \union L  BY <1>2, <1>3, <1>5, <1>6
<1>8. Owned(n, G, t, E \union {e}) \intersect L = {}  BY <1>2, <1>3, <1>5, <1>6
<1> QED  BY <1>4, <1>7, <1>8 DEF Accounted

LEMMA GrammarBegun ==
  ASSUME NEW m, NEW n, NEW G, NEW t, NEW E, NEW L, Accounted(m, G, t, E, L), IsHeap(n),
         \A x \in Used(m) : n[x] = m[x],
         NEW g, IsGrammar(n, g), GrammarBlocks(n, g) = Used(n) \ Used(m)
  PROVE  Accounted(n, G \union {g}, t, E, L)
<1>1. Known(n, G, t, E)  BY MoreUsed
<1>2. Owned(n, G, t, E) = Owned(m, G, t, E)  BY MoreUsed
<1>3. Used(m) \subseteq Used(n)  BY DEF Used
<1>4. Known(n, G \union {g}, t, E)  BY <1>1 DEF Known
<1>5. Owned(n, G \union {g}, t, E) = Owned(n, G, t, E) \union GrammarBlocks(n, g)
  BY OwnedWithGrammar
<1>6. Used(m) = Owned(m, G, t, E) \union L /\ Owned(m, G, t, E) \intersect L = {}
  BY DEF Accounted
<1>7. Used(n) = Owned(n, G \union {g}, t, E) \union L  BY <1>2, <1>3, <1>5, <1>6
<1>8. Owned(n, G \union {g}, t, E) \intersect L = {}  BY <1>2, <1>3, <1>5, <1>6
<1> QED  BY <1>4, <1>7, <1>8 DEF Accounted

LEMMA TagsetBegun ==
  ASSUME NEW m, NEW n, NEW G, NEW E, NEW L, Accounted(m, G, NoBlock, E, L), IsHeap(n),
         \A x \in Used(m) : n[x] = m[x],
         NEW t, IsTagset(n, t), TagsetBlocks(n, t) = Used(n) \ Used(m)
  PROVE  Accounted(n, G, t, E, L)
<1>1. Known(n, G, NoBlock, E)  BY MoreUsed
<1>2. Owned(n, G, NoBlock, E) = Owned(m, G, NoBlock, E)  BY MoreUsed
<1>3. Used(m) \subseteq Used(n)  BY DEF Used
<1>4. Known(n, G, t, E)  BY <1>1 DEF Known
<1>5. Owned(n, G, t, E) = Owned(n, G, NoBlock, E) \union TagsetBlocks(n, t)
  BY OwnedWithTagset
<1>6. Used(m) = Owned(m, G, NoBlock, E) \union L /\ Owned(m, G, NoBlock, E) \intersect L = {}
  BY DEF Accounted
<1>7. Used(n) = Owned(n, G, t, E) \union L  BY <1>2, <1>3, <1>5, <1>6
<1>8. Owned(n, G, t, E) \intersect L = {}  BY <1>2, <1>3, <1>5, <1>6
<1> QED  BY <1>4, <1>7, <1>8 DEF Accounted

LEMMA BlocksLeft ==
  ASSUME NEW m, NEW n, NEW G, NEW t, NEW E, NEW L, Accounted(m, G, t, E, L), IsHeap(n),
         \A x \in Used(m) : n[x] = m[x]
  PROVE  Accounted(n, G, t, E, L \union (Used(n) \ Used(m)))
<1>1. Known(n, G, t, E)  BY MoreUsed
<1>2. Owned(n, G, t, E) = Owned(m, G, t, E)  BY MoreUsed
<1>3. Used(m) \subseteq Used(n)  BY DEF Used
<1>4. Used(m) = Owned(m, G, t, E) \union L /\ Owned(m, G, t, E) \intersect L = {}
  BY DEF Accounted
<1>5. Used(n) = Owned(n, G, t, E) \union (L \union (Used(n) \ Used(m)))  BY <1>2, <1>3, <1>4
<1>6. Owned(n, G, t, E) \intersect (L \union (Used(n) \ Used(m))) = {}  BY <1>2, <1>3, <1>4
<1> QED  BY <1>1, <1>5, <1>6 DEF Accounted

-----------------------------------------------------------------------------
(***************************************************************************)
(* A grammar or a set of tags taken out, to be left or to be freed.        *)
(***************************************************************************)
\* The blocks of one grammar are apart from all the others.
LEMMA GrammarOut ==
  ASSUME NEW m, NEW G, NEW t, NEW E, NEW g, Known(m, G \union {g}, t, E), g \notin G
  PROVE  /\ Known(m, G, t, E)
         /\ Owned(m, G \union {g}, t, E) = Owned(m, G, t, E) \union GrammarBlocks(m, g)
         /\ Owned(m, G, t, E) \intersect GrammarBlocks(m, g) = {}
<1>1. Known(m, G, t, E) /\ IsGrammar(m, g)  BY DEF Known
<1>2. Owned(m, G \union {g}, t, E) = Owned(m, G, t, E) \union GrammarBlocks(m, g)
  <2>1. ASSUME NEW y
        PROVE  y \in Owned(m, G \union {g}, t, E) <=> y \in Owned(m, G, t, E) \union GrammarBlocks(m, g)
    BY OwnedMember
  <2> QED  BY <2>1
<1>3. ASSUME NEW x \in GrammarBlocks(m, g), x \in Owned(m, G, t, E)  PROVE FALSE
  <2>1. m[x].kind \in {"grammar", "element"}  BY <1>1, GrammarOwns
  <2>2. CASE \E h \in G : x \in GrammarBlocks(m, h)
    <3>1. PICK h \in G : x \in GrammarBlocks(m, h)  BY <2>2
    <3>2. IsGrammar(m, h) /\ h # g  BY <1>1 DEF Known
    <3> QED  BY <1>1, <3>1, <3>2, GrammarsApart
  <2>3. CASE x \in TagsetBlocks(m, t)
    <3>1. m[x].kind \in {"tagset", "tag"}  BY <1>1, <2>3, TagsetOwns DEF Known
    <3> QED  BY <2>1, <3>1
  <2>4. CASE \E e \in E : x \in ErrorBlocks(m, e)
    <3>1. m[x].kind \in {"error", "location"}  BY <1>1, <2>4, ErrorOwns DEF Known
    <3> QED  BY <2>1, <3>1
  <2> QED  BY <1>3, <2>2, <2>3, <2>4, OwnedMember
<1> QED  BY <1>1, <1>2, <1>3

LEMMA TagsetOut ==
  ASSUME NEW m, NEW G, NEW t, NEW E, Known(m, G, t, E)
  PROVE  /\ Known(m, G, NoBlock, E)
         /\ Owned(m, G, t, E) = Owned(m, G, NoBlock, E) \union TagsetBlocks(m, t)
         /\ Owned(m, G, NoBlock, E) \intersect TagsetBlocks(m, t) = {}
<1>1. Known(m, G, NoBlock, E)  BY DEF Known
<1>2. Owned(m, G, t, E) = Owned(m, G, NoBlock, E) \union TagsetBlocks(m, t)
  BY OwnedWithTagset
<1>3. ASSUME NEW x \in TagsetBlocks(m, t), x \in Owned(m, G, NoBlock, E)  PROVE FALSE
  <2>1. m[x].kind \in {"tagset", "tag"}  BY TagsetOwns DEF Known
  <2>2. CASE \E h \in G : x \in GrammarBlocks(m, h)
    <3>1. m[x].kind \in {"grammar", "element"}  BY <2>2, GrammarOwns DEF Known
    <3> QED  BY <2>1, <3>1
  <2>3. CASE x \in TagsetBlocks(m, NoBlock)  BY <2>3 DEF TagsetBlocks
  <2>4. CASE \E e \in E : x \in ErrorBlocks(m, e)
    <3>1. m[x].kind \in {"error", "location"}  BY <2>4, ErrorOwns DEF Known
    <3> QED  BY <2>1, <3>1
  <2> QED  BY <1>3, <2>2, <2>3, <2>4, OwnedMember
<1> QED  BY <1>1, <1>2, <1>3

\* The blocks in out, which nothing else owns, are left: nothing knows them any more.
LEMMA Left ==
  ASSUME NEW m, NEW G, NEW t, NEW E, NEW L, Accounted(m, G, t, E, L),
         NEW H, NEW u, NEW out, Known(m, H, u, E),
         Owned(m, G, t, E) = Owned(m, H, u, E) \union out,
         Owned(m, H, u, E) \intersect out = {}
  PROVE  Accounted(m, H, u, E, L \union out)
  BY DEF Accounted

\* Or they are freed, each of them an allocated one.
LEMMA Freed ==
  ASSUME NEW m, NEW G, NEW t, NEW E, NEW L, Accounted(m, G, t, E, L),
         NEW H, NEW u, NEW F, NEW out, Known(m, H, u, F),
         Owned(m, G, t, E) = Owned(m, H, u, F) \union out,
         Owned(m, H, u, F) \intersect out = {}
  PROVE  Accounted(Freeing(m, out), H, u, F, L) /\ ~Dangling(m, out)
<1> DEFINE n == Freeing(m, out)
<1>1. /\ Used(m) = Owned(m, H, u, F) \union out \union L
      /\ (Owned(m, H, u, F) \union out) \intersect L = {}
  BY DEF Accounted
<1>2. out \subseteq Used(m)  BY <1>1
<1>3. IsHeap(n)  BY DEF IsHeap, Freeing
<1>4. \A x \in Heap : n[x] = IF x \in out THEN Unallocated ELSE m[x]  BY DEF Freeing
<1>5. Used(n) = Used(m) \ out  BY <1>4 DEF Used
<1>6. \A x \in Owned(m, H, u, F) : n[x] = m[x]
  <2>1. Owned(m, H, u, F) \subseteq Heap  BY <1>1 DEF Used
  <2> QED  BY <1>4, <2>1
<1> HIDE DEF n
<1>7. Known(n, H, u, F) /\ Owned(n, H, u, F) = Owned(m, H, u, F)  BY <1>6, OwnedSame
<1>8. Accounted(n, H, u, F, L)  BY <1>1, <1>3, <1>5, <1>7 DEF Accounted
<1>9. ~Dangling(m, out)  BY <1>2 DEF Dangling, Used
<1> QED  BY <1>8, <1>9 DEF n

-----------------------------------------------------------------------------
(***************************************************************************)
(* An element for a grammar, a tag for a set.                              *)
(***************************************************************************)
\* A grammar is given a block of its own, and nothing else is changed.
LEMMA GrammarGrows ==
  ASSUME NEW m, NEW n, NEW G, NEW t, NEW E, NEW L, NEW g, g \notin G,
         Accounted(m, G \union {g}, t, E, L), IsHeap(n),
         NEW a, a \notin Used(m), Used(n) = Used(m) \union {a},
         \A x \in Used(m) \ {g} : n[x] = m[x],
         IsGrammar(n, g), GrammarBlocks(n, g) = GrammarBlocks(m, g) \union {a}
  PROVE  Accounted(n, G \union {g}, t, E, L)
<1>1. /\ Known(m, G \union {g}, t, E)
      /\ Used(m) = Owned(m, G \union {g}, t, E) \union L
      /\ Owned(m, G \union {g}, t, E) \intersect L = {}
  BY DEF Accounted
<1>2. /\ Known(m, G, t, E)
      /\ Owned(m, G \union {g}, t, E) = Owned(m, G, t, E) \union GrammarBlocks(m, g)
      /\ Owned(m, G, t, E) \intersect GrammarBlocks(m, g) = {}
  BY <1>1, GrammarOut
<1>3. g \in GrammarBlocks(m, g)  BY DEF GrammarBlocks
<1>4. \A x \in Owned(m, G, t, E) : n[x] = m[x]  BY <1>1, <1>2, <1>3
<1>5. Known(n, G, t, E) /\ Owned(n, G, t, E) = Owned(m, G, t, E)  BY <1>2, <1>4, OwnedSame
<1>6. Known(n, G \union {g}, t, E)  BY <1>5 DEF Known
<1>7. Owned(n, G \union {g}, t, E) = Owned(n, G, t, E) \union GrammarBlocks(n, g)  BY OwnedWithGrammar
<1>8. Owned(n, G \union {g}, t, E) = Owned(m, G \union {g}, t, E) \union {a}
  BY <1>2, <1>5, <1>7
<1> QED  BY <1>1, <1>6, <1>8 DEF Accounted

LEMMA TagsetGrows ==
  ASSUME NEW m, NEW n, NEW G, NEW t, NEW E, NEW L, t # NoBlock,
         Accounted(m, G, t, E, L), IsHeap(n),
         NEW a, a \notin Used(m), Used(n) = Used(m) \union {a},
         \A x \in Used(m) \ {t} : n[x] = m[x],
         IsTagset(n, t), TagsetBlocks(n, t) = TagsetBlocks(m, t) \union {a}
  PROVE  Accounted(n, G, t, E, L)
<1>1. /\ Known(m, G, t, E)
      /\ Used(m) = Owned(m, G, t, E) \union L
      /\ Owned(m, G, t, E) \intersect L = {}
  BY DEF Accounted
<1>2. /\ Known(m, G, NoBlock, E)
      /\ Owned(m, G, t, E) = Owned(m, G, NoBlock, E) \union TagsetBlocks(m, t)
      /\ Owned(m, G, NoBlock, E) \intersect TagsetBlocks(m, t) = {}
  BY <1>1, TagsetOut
<1>3. t \in TagsetBlocks(m, t)  BY DEF TagsetBlocks
<1>4. \A x \in Owned(m, G, NoBlock, E) : n[x] = m[x]  BY <1>1, <1>2, <1>3
<1>5. Known(n, G, NoBlock, E) /\ Owned(n, G, NoBlock, E) = Owned(m, G, NoBlock, E)
  BY <1>2, <1>4, OwnedSame
<1>6. Known(n, G, t, E)  BY <1>5 DEF Known
<1>7. Owned(n, G, t, E) = Owned(n, G, NoBlock, E) \union TagsetBlocks(n, t)
  BY OwnedWithTagset
<1>8. Owned(n, G, t, E) = Owned(m, G, t, E) \union {a}  BY <1>2, <1>5, <1>7
<1> QED  BY <1>1, <1>6, <1>8 DEF Accounted

-----------------------------------------------------------------------------
(***************************************************************************)
(* The allocator: the next free address is one, if there is any.           *)
(***************************************************************************)
\* A set of numbers that is not empty has a lowest.
LEMMA LowestIsIn ==
  ASSUME NEW A, A \subseteq Nat, A # {}
  PROVE  Lowest(A) \in A
<1> DEFINE R == OpToRel(<, Nat)
<1>1. IsWellFoundedOn(R, Nat)  BY NatLessThanWellFounded
<1>2. PICK x \in A : \A y \in A : ~ (<<y, x>> \in R)
  BY <1>1, WFMin
<1>3. \A y \in A : x <= y
  <2> SUFFICES ASSUME NEW y \in A  PROVE x <= y
    OBVIOUS
  <2>1. ~ (y < x)  BY <1>2 DEF R, OpToRel
  <2>2. x \in Nat /\ y \in Nat  OBVIOUS
  <2> QED  BY <2>1, <2>2
<1> QED  BY <1>3 DEF Lowest

LEMMA NextIsFree ==
  ASSUME NEW m, NEW b \in Heap, m[b] = Unallocated
  PROVE  NextFree(m) \in Heap /\ m[NextFree(m)] = Unallocated
<1> DEFINE A == {a \in Heap : m[a] = Unallocated}
<1>1. b \in A /\ A \subseteq Nat  BY HeapFacts
<1> HIDE DEF A
<1>2. Lowest(A) \in A  BY <1>1, LowestIsIn
<1>3. NextFree(m) \in A  BY <1>2 DEF NextFree, A
<1> QED  BY <1>3 DEF A

LEMMA PutFacts ==
  ASSUME NEW m, IsHeap(m), NEW a \in Heap, NEW v
  PROVE  /\ IsHeap(Put(m, a, v)) /\ Put(m, a, v)[a] = v
         /\ \A x \in Heap : x # a => Put(m, a, v)[x] = m[x]
<1>1. DOMAIN m = Heap /\ Heap \union {a} = Heap  BY DEF IsHeap
<1>2. Put(m, a, v) = [y \in Heap |-> IF y = a THEN v ELSE m[y]]  BY <1>1 DEF Put
<1> QED  BY <1>2 DEF IsHeap

\* A block is put where there is none.
LEMMA BlockPut ==
  ASSUME NEW m, IsHeap(m), NEW a \in Heap, m[a] = Unallocated, NEW v, v # Unallocated
  PROVE  /\ a \notin Used(m)
         /\ Used(Put(m, a, v)) = Used(m) \union {a}
         /\ \A x \in Used(m) : Put(m, a, v)[x] = m[x]
<1> DEFINE n == Put(m, a, v)
<1>1. n[a] = v /\ \A x \in Heap : x # a => n[x] = m[x]  BY PutFacts
<1> HIDE DEF n
<1>2. a \notin Used(m) /\ Used(n) = Used(m) \union {a}  BY <1>1 DEF Used
<1>3. \A x \in Used(m) : n[x] = m[x]  BY <1>1, <1>2 DEF Used
<1> QED  BY <1>2, <1>3 DEF n

\* A block is changed where it is.
LEMMA BlockChanged ==
  ASSUME NEW m, IsHeap(m), NEW a \in Used(m), NEW v, v # Unallocated
  PROVE  /\ Used(Put(m, a, v)) = Used(m)
         /\ \A x \in Used(m) \ {a} : Put(m, a, v)[x] = m[x]
<1> DEFINE n == Put(m, a, v)
<1>0. a \in Heap  BY DEF Used
<1>1. n[a] = v /\ \A x \in Heap : x # a => n[x] = m[x]  BY <1>0, PutFacts
<1> HIDE DEF n
<1>2. Used(n) = Used(m)  BY <1>1 DEF Used
<1>3. \A x \in Used(m) \ {a} : n[x] = m[x]  BY <1>1 DEF Used
<1> QED  BY <1>2, <1>3 DEF n

LEMMA ListedPut ==
  ASSUME NEW f, NEW x, NEW v, x \notin DOMAIN f
  PROVE  Listed(Put(f, x, v)) = Listed(f) \union {v}
<1> DEFINE g == Put(f, x, v)
<1>1. DOMAIN g = DOMAIN f \union {x} /\ g[x] = v /\ \A y \in DOMAIN f : g[y] = f[y]
  BY DEF Put
<1> HIDE DEF g
<1>2. Listed(g) = Listed(f) \union {v}  BY <1>1 DEF Listed
<1> QED  BY <1>1, <1>2 DEF g

-----------------------------------------------------------------------------
(***************************************************************************)
(* Each operation on memory keeps the account.                             *)
(***************************************************************************)
HasRoom(m) == \E b \in Heap : m[b] = Unallocated
HasRoomForTwo(m) == \E b, c \in Heap : b # c /\ m[b] = Unallocated /\ m[c] = Unallocated

LEMMA RoomFacts ==
  ASSUME NEW m, IsHeap(m), HasRoomForTwo(m), NEW a \in Heap, NEW v
  PROVE  HasRoom(m) /\ HasRoom(Put(m, a, v))
<1>1. PICK b \in Heap, c \in Heap : b # c /\ m[b] = Unallocated /\ m[c] = Unallocated
  BY DEF HasRoomForTwo
<1>2. HasRoom(m)  BY <1>1 DEF HasRoom
<1>3. \A x \in Heap : x # a => Put(m, a, v)[x] = m[x]  BY PutFacts
<1>4. CASE b = a  BY <1>1, <1>3, <1>4 DEF HasRoom
<1>5. CASE b # a  BY <1>1, <1>3, <1>5 DEF HasRoom
<1> QED  BY <1>2, <1>4, <1>5

LEMMA NextIsApart ==
  ASSUME NEW m, HasRoom(m)
  PROVE  NextFree(m) \in Heap /\ m[NextFree(m)] = Unallocated /\ NextFree(m) \notin Used(m)
<1>1. PICK b \in Heap : m[b] = Unallocated  BY DEF HasRoom
<1> QED  BY <1>1, NextIsFree DEF Used

LEMMA NewError_Accounted ==
  ASSUME NEW m, NEW G, NEW t, NEW E, NEW L, Accounted(m, G, t, E, L), HasRoom(m), NEW number
  PROVE  Accounted(WithError(m, number), G, t, E \union {NextFree(m)}, L)
<1>1. PICK a : a = NextFree(m)  OBVIOUS
<1>2. a \in Heap /\ m[a] = Unallocated  BY <1>1, NextIsApart
<1>3. PICK v : v = NewError(number)  OBVIOUS
<1>4. v.kind = "error" /\ v.location = NoBlock /\ v # Unallocated
  BY <1>3 DEF NewError, Unallocated
<1>5. PICK n : n = Put(m, a, v)  OBVIOUS
<1>6. IsHeap(m)  BY DEF Accounted
<1>7. IsHeap(n) /\ n[a] = v  BY <1>2, <1>5, <1>6, PutFacts
<1>8. a \notin Used(m) /\ Used(n) = Used(m) \union {a} /\ \A x \in Used(m) : n[x] = m[x]
  BY <1>2, <1>4, <1>5, <1>6, BlockPut
<1>9. IsError(n, a) /\ ErrorBlocks(n, a) = Used(n) \ Used(m)
  BY <1>2, <1>4, <1>7, <1>8 DEF IsError, ErrorBlocks
<1>10. Accounted(n, G, t, E \union {a}, L)  BY <1>7, <1>8, <1>9, ErrorMade
<1> QED  BY <1>1, <1>3, <1>5, <1>10 DEF WithError

LEMMA LocatedFacts ==
  ASSUME NEW m, NEW G, NEW t, NEW E, NEW L, Accounted(m, G, t, E, L), HasRoomForTwo(m), NEW number
  PROVE  /\ Accounted(WithLocated(m, number), G, t, E \union {NextFree(m)}, L)
         /\ \A x \in Used(m) : WithLocated(m, number)[x] = m[x]
<1>1. PICK a : a = NextFree(m)  OBVIOUS
<1>2. PICK n1 : n1 = WithError(m, number)  OBVIOUS
<1>3. PICK b : b = NextFree(n1)  OBVIOUS
<1>4. IsHeap(m)  BY DEF Accounted
<1>5. HasRoom(m)
  <2>1. PICK c \in Heap, d \in Heap : c # d /\ m[c] = Unallocated /\ m[d] = Unallocated
    BY DEF HasRoomForTwo
  <2> QED  BY <2>1 DEF HasRoom
<1>6. a \in Heap /\ m[a] = Unallocated  BY <1>1, <1>5, NextIsApart
<1>7. PICK v : v = NewError(number)  OBVIOUS
<1>8. n1 = Put(m, a, v)  BY <1>1, <1>2, <1>7 DEF WithError
<1>9. HasRoom(n1)  BY <1>4, <1>6, <1>8, RoomFacts
<1>10. b \in Heap /\ n1[b] = Unallocated  BY <1>3, <1>9, NextIsApart
<1>11. n1[a] = v /\ \A x \in Heap : x # a => n1[x] = m[x]  BY <1>4, <1>6, <1>8, PutFacts
<1>12. b # a /\ m[b] = Unallocated
  <2>1. v # Unallocated  BY <1>7 DEF NewError, Unallocated
  <2> QED  BY <1>10, <1>11, <2>1
<1>13. PICK w : w = Located(v, b)  OBVIOUS
<1>14. w.kind = "error" /\ w.location = b /\ w # Unallocated
  BY <1>7, <1>13 DEF NewError, Located, Unallocated
<1>15. PICK n2 : n2 = Put(m, a, w)  OBVIOUS
<1>16. IsHeap(n2) /\ n2[a] = w /\ \A x \in Heap : x # a => n2[x] = m[x]
  BY <1>4, <1>6, <1>15, PutFacts
<1>17. a \notin Used(m) /\ Used(n2) = Used(m) \union {a} /\ \A x \in Used(m) : n2[x] = m[x]
  BY <1>4, <1>6, <1>14, <1>15, BlockPut
<1>18. PICK n : n = Put(n2, b, NewLocation)  OBVIOUS
<1>19. IsHeap(n) /\ n[b] = NewLocation /\ \A x \in Heap : x # b => n[x] = n2[x]
  BY <1>10, <1>16, <1>18, PutFacts
<1>20. n2[b] = Unallocated  BY <1>10, <1>12, <1>16
<1>21. NewLocation # Unallocated /\ NewLocation.kind = "location"  BY DEF NewLocation, Unallocated
<1>22. b \notin Used(n2) /\ Used(n) = Used(n2) \union {b} /\ \A x \in Used(n2) : n[x] = n2[x]
  BY <1>10, <1>16, <1>18, <1>20, <1>21, BlockPut
<1>23. \A x \in Used(m) : n[x] = m[x]  BY <1>17, <1>22
<1>24. n[a] = w  BY <1>6, <1>12, <1>16, <1>19
<1>25. b # NoBlock  BY <1>10, HeapFacts
<1>26. IsError(n, a)  BY <1>6, <1>10, <1>14, <1>19, <1>21, <1>24 DEF IsError
<1>27. ErrorBlocks(n, a) = Used(n) \ Used(m)
  BY <1>14, <1>17, <1>22, <1>24, <1>25 DEF ErrorBlocks
<1>28. Accounted(n, G, t, E \union {a}, L)  BY <1>19, <1>23, <1>26, <1>27, ErrorMade
<1>29. n = WithLocated(m, number)  BY <1>1, <1>2, <1>3, <1>7, <1>13, <1>15, <1>18 DEF WithLocated
<1> QED  BY <1>1, <1>23, <1>28, <1>29

LEMMA LocatedError_Accounted ==
  ASSUME NEW m, NEW G, NEW t, NEW E, NEW L, Accounted(m, G, t, E, L), HasRoomForTwo(m), NEW number
  PROVE  Accounted(WithLocated(m, number), G, t, E \union {NextFree(m)}, L)
  BY LocatedFacts

LEMMA LocatedError_Keeps ==
  ASSUME NEW m, NEW G, NEW t, NEW E, NEW L, Accounted(m, G, t, E, L), HasRoomForTwo(m), NEW number
  PROVE  \A x \in Used(m) : WithLocated(m, number)[x] = m[x]
  BY LocatedFacts

\* What is put at the next free address leaves all else as it was.
LEMMA NewBlock_Keeps ==
  ASSUME NEW m, IsHeap(m), HasRoom(m), NEW v, v # Unallocated
  PROVE  \A x \in Used(m) : Put(m, NextFree(m), v)[x] = m[x]
<1>1. PICK a : a = NextFree(m)  OBVIOUS
<1>2. a \in Heap /\ m[a] = Unallocated  BY <1>1, NextIsApart
<1>3. \A x \in Used(m) : Put(m, a, v)[x] = m[x]  BY <1>2, BlockPut
<1> QED  BY <1>1, <1>3

LEMMA NewError_Keeps ==
  ASSUME NEW m, IsHeap(m), HasRoom(m), NEW number
  PROVE  \A x \in Used(m) : WithError(m, number)[x] = m[x]
<1>1. PICK v : v = NewError(number)  OBVIOUS
<1>2. v # Unallocated  BY <1>1 DEF NewError, Unallocated
<1>3. \A x \in Used(m) : Put(m, NextFree(m), v)[x] = m[x]  BY <1>2, NewBlock_Keeps
<1> QED  BY <1>1, <1>3 DEF WithError

LEMMA NewGrammar_Accounted ==
  ASSUME NEW m, NEW G, NEW t, NEW E, NEW L, Accounted(m, G, t, E, L), HasRoom(m), NEW name
  PROVE  Accounted(Put(m, NextFree(m), NewGrammar(name)), G \union {NextFree(m)}, t, E, L)
<1>1. PICK a : a = NextFree(m)  OBVIOUS
<1>2. a \in Heap /\ m[a] = Unallocated  BY <1>1, NextIsApart
<1>3. PICK v : v = NewGrammar(name)  OBVIOUS
<1>4. /\ v.kind = "grammar" /\ v.elements = << >> /\ v # Unallocated
      /\ DOMAIN v = {"kind", "name", "elements", "operators"}
  BY <1>3 DEF NewGrammar, Unallocated
<1>5. PICK n : n = Put(m, a, v)  OBVIOUS
<1>6. IsHeap(m)  BY DEF Accounted
<1>7. IsHeap(n) /\ n[a] = v  BY <1>2, <1>5, <1>6, PutFacts
<1>8. a \notin Used(m) /\ Used(n) = Used(m) \union {a} /\ \A x \in Used(m) : n[x] = m[x]
  BY <1>2, <1>4, <1>5, <1>6, BlockPut
<1>9. Listed(<< >>) = {}  BY DEF Listed
<1>10. IsGrammar(n, a) /\ GrammarBlocks(n, a) = Used(n) \ Used(m)
  BY <1>2, <1>4, <1>7, <1>8, <1>9 DEF IsGrammar, GrammarBlocks
<1>11. Accounted(n, G \union {a}, t, E, L)  BY <1>7, <1>8, <1>10, GrammarBegun
<1> QED  BY <1>1, <1>3, <1>5, <1>11

LEMMA NewTagset_Accounted ==
  ASSUME NEW m, NEW G, NEW E, NEW L, Accounted(m, G, NoBlock, E, L), HasRoom(m)
  PROVE  Accounted(Put(m, NextFree(m), NewTagset), G, NextFree(m), E, L)
<1>1. PICK a : a = NextFree(m)  OBVIOUS
<1>2. a \in Heap /\ m[a] = Unallocated  BY <1>1, NextIsApart
<1>3. PICK v : v = NewTagset  OBVIOUS
<1>4. /\ v.kind = "tagset" /\ v.tags = << >> /\ v # Unallocated
      /\ DOMAIN v = {"kind", "tags", "inline", "outline", "unplugged"}
  BY <1>3 DEF NewTagset, Unallocated
<1>5. PICK n : n = Put(m, a, v)  OBVIOUS
<1>6. IsHeap(m)  BY DEF Accounted
<1>7. IsHeap(n) /\ n[a] = v  BY <1>2, <1>5, <1>6, PutFacts
<1>8. a \notin Used(m) /\ Used(n) = Used(m) \union {a} /\ \A x \in Used(m) : n[x] = m[x]
  BY <1>2, <1>4, <1>5, <1>6, BlockPut
<1>9. Listed(<< >>) = {} /\ a # NoBlock  BY <1>2, HeapFacts DEF Listed
<1>10. IsTagset(n, a) /\ TagsetBlocks(n, a) = Used(n) \ Used(m)
  BY <1>2, <1>4, <1>7, <1>8, <1>9 DEF IsTagset, TagsetBlocks
<1>11. Accounted(n, G, a, E, L)  BY <1>7, <1>8, <1>10, TagsetBegun
<1> QED  BY <1>1, <1>3, <1>5, <1>11

\* A block that nothing will know: an element that is refused, a buffer.
LEMMA NewLost_Accounted ==
  ASSUME NEW m, NEW G, NEW t, NEW E, NEW L, Accounted(m, G, t, E, L), HasRoom(m),
         NEW v, v # Unallocated
  PROVE  Accounted(Put(m, NextFree(m), v), G, t, E, L \union {NextFree(m)})
<1>1. PICK a : a = NextFree(m)  OBVIOUS
<1>2. a \in Heap /\ m[a] = Unallocated  BY <1>1, NextIsApart
<1>3. PICK n : n = Put(m, a, v)  OBVIOUS
<1>4. IsHeap(m)  BY DEF Accounted
<1>5. IsHeap(n)  BY <1>2, <1>3, <1>4, PutFacts
<1>6. a \notin Used(m) /\ Used(n) = Used(m) \union {a} /\ \A x \in Used(m) : n[x] = m[x]
  BY <1>2, <1>3, <1>4, BlockPut
<1>7. Accounted(n, G, t, E, L \union (Used(n) \ Used(m)))  BY <1>5, <1>6, BlocksLeft
<1>8. Used(n) \ Used(m) = {a}  BY <1>6
<1> QED  BY <1>1, <1>3, <1>7, <1>8

LEMMA Added_Accounted ==
  ASSUME NEW m, NEW G, NEW t, NEW E, NEW L, NEW g, g \notin G,
         Accounted(m, G \union {g}, t, E, L), HasRoom(m),
         NEW e, NameOf(e) \notin DOMAIN m[g].elements
  PROVE  Accounted(Added(m, g, e, NextFree(m)), G \union {g}, t, E, L)
<1>1. PICK a : a = NextFree(m)  OBVIOUS
<1>2. a \in Heap /\ m[a] = Unallocated  BY <1>1, NextIsApart
<1>3. PICK v : v = NewElement(e.type, e.start, g)  OBVIOUS
<1>4. v.kind = "element" /\ v.grammar = g /\ v # Unallocated
  BY <1>3 DEF NewElement, Unallocated
<1>5. IsHeap(m) /\ IsGrammar(m, g)  BY DEF Accounted, Known
<1>6. g \in Heap /\ m[g].kind = "grammar"  BY <1>5 DEF IsGrammar
<1>7. g # a /\ g \in Used(m)  BY <1>2, <1>6 DEF Unallocated, Used
<1>8. PICK n1 : n1 = Put(m, a, v)  OBVIOUS
<1>9. IsHeap(n1) /\ n1[a] = v  BY <1>2, <1>5, <1>8, PutFacts
<1>10. a \notin Used(m) /\ Used(n1) = Used(m) \union {a} /\ \A x \in Used(m) : n1[x] = m[x]
  BY <1>2, <1>4, <1>5, <1>8, BlockPut
<1>11. PICK w : w = [m[g] EXCEPT
                      !.operators = IF e.start = None THEN @ ELSE StoreInTree(@, e.start, a),
                      !.elements = Put(@, NameOf(e), a)]
  OBVIOUS
<1>12. /\ DOMAIN w = DOMAIN m[g] /\ w.kind = "grammar"
       /\ w.elements = Put(m[g].elements, NameOf(e), a)
  BY <1>5, <1>11 DEF IsGrammar
<1>13. w # Unallocated  BY <1>12 DEF Unallocated
<1>14. PICK n : n = Put(n1, g, w)  OBVIOUS
<1>15. IsHeap(n) /\ n[g] = w /\ \A x \in Heap : x # g => n[x] = n1[x]
  BY <1>6, <1>9, <1>14, PutFacts
<1>16. g \in Used(n1)  BY <1>7, <1>10
<1>17. Used(n) = Used(n1)  BY <1>9, <1>13, <1>14, <1>16, BlockChanged
<1>18. \A x \in Used(m) \ {g} : n[x] = m[x]  BY <1>10, <1>15 DEF Used
<1>19. Listed(w.elements) = Listed(m[g].elements) \union {a}
  <2>1. Listed(Put(m[g].elements, NameOf(e), a)) = Listed(m[g].elements) \union {a}  BY ListedPut
  <2> QED  BY <1>12, <2>1
<1>20. IsGrammar(n, g)
  <2>1. ASSUME NEW x \in Listed(m[g].elements)
        PROVE  x \in Heap /\ n[x].kind = "element" /\ n[x].grammar = g
    <3>1. x \in Heap /\ m[x].kind = "element" /\ m[x].grammar = g  BY <1>5 DEF IsGrammar
    <3>2. x \in Used(m) \ {g}  BY <1>6, <3>1 DEF Unallocated, Used
    <3> QED  BY <1>18, <3>1, <3>2
  <2>2. n[a] = v  BY <1>2, <1>7, <1>9, <1>15
  <2>3. \A x \in Listed(w.elements) : x \in Heap /\ n[x].kind = "element" /\ n[x].grammar = g
    BY <1>2, <1>4, <1>19, <2>1, <2>2
  <2> QED  BY <1>5, <1>6, <1>12, <1>15, <2>3 DEF IsGrammar
<1>21. GrammarBlocks(n, g) = GrammarBlocks(m, g) \union {a}
  BY <1>15, <1>19 DEF GrammarBlocks
<1>22. Used(n) = Used(m) \union {a}  BY <1>10, <1>17
<1>23. Accounted(n, G \union {g}, t, E, L)
  BY <1>10, <1>15, <1>18, <1>20, <1>21, <1>22, GrammarGrows
<1>24. n = Added(m, g, e, a)  BY <1>3, <1>8, <1>11, <1>14 DEF Added
<1> QED  BY <1>1, <1>23, <1>24

LEMMA TagAdded_Accounted ==
  ASSUME NEW m, NEW G, NEW t, NEW E, NEW L, t # NoBlock,
         Accounted(m, G, t, E, L), HasRoom(m),
         NEW tag, DOMAIN tag = {"kind", "type", "name", "start", "grammar", "style", "scanner", "tagset"},
         tag.kind = "tag", tag.name \notin DOMAIN m[t].tags
  PROVE  Accounted(TagAdded(m, t, tag, NextFree(m)), G, t, E, L)
<1>1. PICK a : a = NextFree(m)  OBVIOUS
<1>2. a \in Heap /\ m[a] = Unallocated  BY <1>1, NextIsApart
<1>3. PICK v : v = [tag EXCEPT !.tagset = t]  OBVIOUS
<1>4. v.kind = "tag" /\ v # Unallocated
  BY <1>3 DEF Unallocated
<1>5. IsHeap(m) /\ IsTagset(m, t)  BY DEF Accounted, Known
<1>6. t \in Heap /\ m[t].kind = "tagset"  BY <1>5 DEF IsTagset
<1>7. t # a /\ t \in Used(m)  BY <1>2, <1>6 DEF Unallocated, Used
<1>8. PICK n1 : n1 = Put(m, a, v)  OBVIOUS
<1>9. IsHeap(n1) /\ n1[a] = v  BY <1>2, <1>5, <1>8, PutFacts
<1>10. a \notin Used(m) /\ Used(n1) = Used(m) \union {a} /\ \A x \in Used(m) : n1[x] = m[x]
  BY <1>2, <1>4, <1>5, <1>8, BlockPut
<1>11. PICK w :
         w = [m[t] EXCEPT
               !.tags = Put(@, tag.name, a),
               !.inline = IF tag.style = "inline" THEN StoreInTree(@, tag.start, a) ELSE @,
               !.outline = IF tag.style = "outline" THEN StoreInTree(@, tag.start, a) ELSE @,
               !.unplugged = IF tag.style = "unplugged" THEN a ELSE @]
  OBVIOUS
<1>12. /\ DOMAIN w = DOMAIN m[t] /\ w.kind = "tagset"
       /\ w.tags = Put(m[t].tags, tag.name, a)
  BY <1>5, <1>11 DEF IsTagset
<1>13. w # Unallocated  BY <1>12 DEF Unallocated
<1>14. PICK n : n = Put(n1, t, w)  OBVIOUS
<1>15. IsHeap(n) /\ n[t] = w /\ \A x \in Heap : x # t => n[x] = n1[x]
  BY <1>6, <1>9, <1>14, PutFacts
<1>16. t \in Used(n1)  BY <1>7, <1>10
<1>17. Used(n) = Used(n1)  BY <1>9, <1>13, <1>14, <1>16, BlockChanged
<1>18. \A x \in Used(m) \ {t} : n[x] = m[x]  BY <1>10, <1>15 DEF Used
<1>19. Listed(w.tags) = Listed(m[t].tags) \union {a}
  <2>1. Listed(Put(m[t].tags, tag.name, a)) = Listed(m[t].tags) \union {a}  BY ListedPut
  <2> QED  BY <1>12, <2>1
<1>20. IsTagset(n, t)
  <2>1. ASSUME NEW x \in Listed(m[t].tags)
        PROVE  x \in Heap /\ n[x].kind = "tag"
    <3>1. x \in Heap /\ m[x].kind = "tag"  BY <1>5 DEF IsTagset
    <3>2. x \in Used(m) \ {t}  BY <1>6, <3>1 DEF Unallocated, Used
    <3> QED  BY <1>18, <3>1, <3>2
  <2>2. n[a] = v  BY <1>2, <1>7, <1>9, <1>15
  <2>3. \A x \in Listed(w.tags) : x \in Heap /\ n[x].kind = "tag"
    BY <1>2, <1>4, <1>19, <2>1, <2>2
  <2> QED  BY <1>5, <1>6, <1>12, <1>15, <2>3 DEF IsTagset
<1>21. TagsetBlocks(n, t) = TagsetBlocks(m, t) \union {a}
  BY <1>15, <1>19 DEF TagsetBlocks
<1>22. Used(n) = Used(m) \union {a}  BY <1>10, <1>17
<1>23. Accounted(n, G, t, E, L)
  BY <1>10, <1>15, <1>18, <1>20, <1>21, <1>22, TagsetGrows
<1>24. n = TagAdded(m, t, tag, a)  BY <1>3, <1>8, <1>11, <1>14 DEF TagAdded
<1> QED  BY <1>1, <1>23, <1>24

-----------------------------------------------------------------------------
(***************************************************************************)
(* What an error leaves, and what the end of a scan and of the Hemp free.  *)
(***************************************************************************)
LEMMA SetLeft ==
  ASSUME NEW m, NEW G, NEW t, NEW E, NEW L, Accounted(m, G, t, E, L)
  PROVE  Accounted(m, G, NoBlock, E, L \union TagsetBlocks(m, t))
<1>1. Known(m, G, t, E)  BY DEF Accounted
<1>2. /\ Known(m, G, NoBlock, E)
      /\ Owned(m, G, t, E) = Owned(m, G, NoBlock, E) \union TagsetBlocks(m, t)
      /\ Owned(m, G, NoBlock, E) \intersect TagsetBlocks(m, t) = {}
  BY <1>1, TagsetOut
<1> QED  BY <1>2, Left

LEMMA MakingLeft ==
  ASSUME NEW m, NEW G, NEW t, NEW E, NEW L, NEW g, g \notin G,
         Accounted(m, G \union {g}, t, E, L)
  PROVE  Accounted(m, G, NoBlock, E, L \union (GrammarBlocks(m, g) \union TagsetBlocks(m, t)))
<1>1. PICK M : M = L \union TagsetBlocks(m, t)  OBVIOUS
<1>2. Accounted(m, G \union {g}, NoBlock, E, M)  BY <1>1, SetLeft
<1>3. Known(m, G \union {g}, NoBlock, E)  BY <1>2 DEF Accounted
<1>4. /\ Known(m, G, NoBlock, E)
      /\ Owned(m, G \union {g}, NoBlock, E) = Owned(m, G, NoBlock, E) \union GrammarBlocks(m, g)
      /\ Owned(m, G, NoBlock, E) \intersect GrammarBlocks(m, g) = {}
  BY <1>3, GrammarOut
<1>5. Accounted(m, G, NoBlock, E, M \union GrammarBlocks(m, g))  BY <1>2, <1>4, Left
<1>6. M \union GrammarBlocks(m, g) = L \union (GrammarBlocks(m, g) \union TagsetBlocks(m, t))
  BY <1>1
<1> QED  BY <1>5, <1>6

LEMMA SetFreed ==
  ASSUME NEW m, NEW G, NEW t, NEW E, NEW L, Accounted(m, G, t, E, L)
  PROVE  /\ Accounted(Freeing(m, TagsetBlocks(m, t)), G, NoBlock, E, L)
         /\ ~Dangling(m, TagsetBlocks(m, t))
<1>1. Known(m, G, t, E)  BY DEF Accounted
<1>2. /\ Known(m, G, NoBlock, E)
      /\ Owned(m, G, t, E) = Owned(m, G, NoBlock, E) \union TagsetBlocks(m, t)
      /\ Owned(m, G, NoBlock, E) \intersect TagsetBlocks(m, t) = {}
  BY <1>1, TagsetOut
<1> QED  BY <1>2, Freed

LEMMA AllFreed ==
  ASSUME NEW m, NEW G, NEW E, NEW L, Accounted(m, G, NoBlock, E, L),
         NEW gone, gone = Owned(m, G, NoBlock, E)
  PROVE  Accounted(Freeing(m, gone), {}, NoBlock, {}, L) /\ ~Dangling(m, gone)
<1>1. PICK N : N = {}  OBVIOUS
<1>2. Known(m, N, NoBlock, N)  BY <1>1 DEF Known
<1>3. Owned(m, N, NoBlock, N) = {}
  <2>1. ASSUME NEW x  PROVE x \notin Owned(m, N, NoBlock, N)
    BY <1>1, OwnedMember DEF TagsetBlocks
  <2> QED  BY <2>1
<1>4. Owned(m, G, NoBlock, E) = Owned(m, N, NoBlock, N) \union gone  BY <1>3
<1>5. Owned(m, N, NoBlock, N) \intersect gone = {}  BY <1>3
<1>6. Accounted(Freeing(m, gone), N, NoBlock, N, L) /\ ~Dangling(m, gone)
  BY <1>2, <1>4, <1>5, Freed
<1> QED  BY <1>1, <1>6

-----------------------------------------------------------------------------
(***************************************************************************)
(* Blocks are of the known kinds.                                          *)
(***************************************************************************)
Kinds == {"free", "grammar", "element", "tagset", "tag", "error", "location", "buffer"}
Kindly(m) == IsHeap(m) /\ \A a \in Heap : m[a].kind \in Kinds

LEMMA KindlyPut ==
  ASSUME NEW m, Kindly(m), NEW a \in Heap, NEW v, v.kind \in Kinds
  PROVE  Kindly(Put(m, a, v))
<1>1. IsHeap(m) /\ \A x \in Heap : m[x].kind \in Kinds  BY DEF Kindly
<1>2. PICK n : n = Put(m, a, v)  OBVIOUS
<1>3. IsHeap(n) /\ n[a] = v /\ \A x \in Heap : x # a => n[x] = m[x]  BY <1>1, <1>2, PutFacts
<1>4. \A x \in Heap : n[x].kind \in Kinds  BY <1>1, <1>3
<1> QED  BY <1>2, <1>3, <1>4 DEF Kindly

LEMMA KindlyFreeing ==
  ASSUME NEW m, Kindly(m), NEW gone
  PROVE  Kindly(Freeing(m, gone))
<1>1. "free" \in Kinds /\ Unallocated.kind = "free"  BY DEF Kinds, Unallocated
<1> QED  BY <1>1 DEF Kindly, IsHeap, Freeing

LEMMA KindlyError ==
  ASSUME NEW m, Kindly(m), HasRoom(m), NEW number
  PROVE  Kindly(WithError(m, number))
<1>1. NextFree(m) \in Heap  BY NextIsApart
<1>2. NewError(number).kind \in Kinds  BY DEF NewError, Kinds
<1> QED  BY <1>1, <1>2, KindlyPut DEF WithError

LEMMA KindlyLocated ==
  ASSUME NEW m, Kindly(m), HasRoomForTwo(m), NEW number
  PROVE  Kindly(WithLocated(m, number))
<1>1. HasRoom(m) /\ NextFree(m) \in Heap
  <2>1. PICK b \in Heap, c \in Heap : b # c /\ m[b] = Unallocated /\ m[c] = Unallocated
    BY DEF HasRoomForTwo
  <2>2. HasRoom(m)  BY <2>1 DEF HasRoom
  <2> QED  BY <2>2, NextIsApart
<1>2. PICK n : n = WithError(m, number)  OBVIOUS
<1>3. n = Put(m, NextFree(m), NewError(number))  BY <1>2 DEF WithError
<1>4. HasRoom(n)  BY <1>1, <1>3, RoomFacts DEF Kindly
<1>5. PICK b : b = NextFree(n)  OBVIOUS
<1>6. b \in Heap  BY <1>4, <1>5, NextIsApart
<1>7. PICK w : w = Located(NewError(number), b)  OBVIOUS
<1>8. w.kind \in Kinds /\ NewLocation.kind \in Kinds
  BY <1>7 DEF Located, NewError, NewLocation, Kinds
<1>9. Kindly(Put(m, NextFree(m), w))  BY <1>1, <1>8, KindlyPut
<1>10. Kindly(Put(Put(m, NextFree(m), w), b, NewLocation))  BY <1>6, <1>8, <1>9, KindlyPut
<1> QED  BY <1>2, <1>5, <1>7, <1>10 DEF WithLocated

-----------------------------------------------------------------------------
(***************************************************************************)
(* The invariant.  Grammars are the factory's and the one that is being    *)
(* made; the set of tags is the scan's.                                    *)
(***************************************************************************)
Grammars == Listed(instances) \union (IF making = NoMaking THEN {} ELSE {making.grammar})
TagSet == IF Scanning THEN scan.tagset ELSE NoBlock
Chain == Listed(errors)

Scans == [dialect : DOMAIN Dialects, tagset : Heap \union {NoBlock}, grammars : Seq(Heap), added : Nat]
Makings == [name : DOMAIN Symbols, grammar : Heap, next : Nat \ {0}]

Shapes ==
  /\ Kindly(memory)
  /\ DOMAIN instances \subseteq DOMAIN Symbols /\ Listed(instances) \subseteq Heap
  /\ scan \in Scans \union {NoScan} /\ making \in Makings \union {NoMaking}
  /\ errors \in Seq(Heap) /\ lost \subseteq Heap
  /\ FirstKnown \subseteq known
  /\ state \in {"running", "freed", "ended"}

\* A grammar is made in a scan, and is not the factory's yet; a scan has as many grammars
\* and tags as it came to.
Pace ==
  /\ making # NoMaking =>
       /\ Scanning /\ ~AllAsked /\ making.name = NextGrammar
       /\ making.name \notin DOMAIN instances /\ making.grammar \notin Listed(instances)
  /\ state # "running" => scan = NoScan
  /\ Scanning =>
       /\ scan.tagset # NoBlock <=> Dialects[scan.dialect].tagged
       /\ Len(scan.grammars) <= Len(Asked) /\ scan.added <= Len(ToAdd)

Counted == state # "ended" => ~faults /\ Accounted(memory, Grammars, TagSet, Chain, lost)

Invariant == Shapes /\ Pace /\ Counted

Room == HasRoomForTwo(memory)

LEMMA ScanShape ==
  ASSUME NEW s \in Scans
  PROVE  s # NoScan
  BY DEF Scans, NoScan

LEMMA MakingShape ==
  ASSUME NEW p \in Makings
  PROVE  p # NoMaking
  BY DEF Makings, NoMaking

LEMMA RoomForOne ==
  ASSUME NEW m, HasRoomForTwo(m)
  PROVE  HasRoom(m)
<1>1. PICK b \in Heap, c \in Heap : b # c /\ m[b] = Unallocated /\ m[c] = Unallocated
  BY DEF HasRoomForTwo
<1> QED  BY <1>1 DEF HasRoom

\* What is accounted for is in the heap.
LEMMA LeftInHeap ==
  ASSUME NEW m, NEW G, NEW t, NEW E, NEW L, Accounted(m, G, t, E, L)
  PROVE  L \subseteq Heap
  BY DEF Accounted, Used

LEMMA ChainWith ==
  ASSUME NEW es \in Seq(Heap), NEW e \in Heap
  PROVE  <<e>> \o es \in Seq(Heap) /\ Listed(<<e>> \o es) = Listed(es) \union {e}
<1> DEFINE s == <<e>> \o es
<1>1. s \in Seq(Heap) /\ Len(s) = Len(es) + 1 /\ Len(es) \in Nat  OBVIOUS
<1>2. \A i \in 1..Len(s) : s[i] = IF i = 1 THEN e ELSE es[i - 1]  OBVIOUS
<1>3. DOMAIN s = 1..Len(s) /\ DOMAIN es = 1..Len(es)  BY <1>1
<1> HIDE DEF s
<1>4. Listed(s) \subseteq Listed(es) \union {e}
  <2> SUFFICES ASSUME NEW i \in 1..Len(s)  PROVE s[i] \in Listed(es) \union {e}
    BY <1>3 DEF Listed
  <2>1. CASE i = 1  BY <1>2, <2>1
  <2>2. CASE i # 1
    <3>1. i - 1 \in 1..Len(es)  BY <1>1, <2>2
    <3> QED  BY <1>2, <1>3, <2>2, <3>1 DEF Listed
  <2> QED  BY <2>1, <2>2
<1>5. Listed(es) \subseteq Listed(s)
  <2> SUFFICES ASSUME NEW i \in 1..Len(es)  PROVE es[i] \in Listed(s)
    BY <1>3 DEF Listed
  <2>1. i + 1 \in 1..Len(s) /\ i + 1 # 1 /\ i + 1 - 1 = i  BY <1>1
  <2>2. s[i + 1] = es[i]  BY <1>2, <2>1
  <2> QED  BY <1>3, <2>1, <2>2 DEF Listed
<1>6. e \in Listed(s)
  <2>1. 1 \in 1..Len(s)  BY <1>1
  <2> QED  BY <1>2, <1>3, <2>1 DEF Listed
<1>7. Listed(s) = Listed(es) \union {e}  BY <1>4, <1>5, <1>6
<1> QED  BY <1>1, <1>7 DEF s

LEMMA InitInvariant ==
  ASSUME TablesInit
  PROVE  Invariant
<1> USE DEF TablesInit
<1>1. Listed(<< >>) = {}  BY DEF Listed
<1>2. Shapes
  <2>1. Kindly(memory)  BY DEF Kindly, IsHeap, Unallocated, Kinds
  <2> QED  BY <1>1, <2>1 DEF Shapes
<1>3. Pace  BY DEF Pace, Scanning
<1>4. Counted
  <2>1. Grammars = {} /\ TagSet = NoBlock /\ Chain = {}  BY <1>1 DEF Grammars, TagSet, Chain, Scanning
  <2>2. PICK N : N = {}  OBVIOUS
  <2>3. Used(memory) = {} /\ IsHeap(memory)  BY DEF Used, IsHeap
  <2>4. Owned(memory, N, NoBlock, N) = {}
    <3>1. ASSUME NEW x  PROVE x \notin Owned(memory, N, NoBlock, N)
      BY <2>2, OwnedMember DEF TagsetBlocks
    <3> QED  BY <3>1
  <2>5. Known(memory, N, NoBlock, N)  BY <2>2 DEF Known
  <2>6. Accounted(memory, N, NoBlock, N, N)  BY <2>2, <2>3, <2>4, <2>5 DEF Accounted
  <2> QED  BY <2>1, <2>2, <2>6 DEF Counted
<1> QED  BY <1>2, <1>3, <1>4 DEF Invariant

-----------------------------------------------------------------------------
(***************************************************************************)
(* The steps that throw.                                                   *)
(***************************************************************************)
LEMMA Unwind_Invariant ==
  ASSUME Invariant, state = "running", UNCHANGED <<instances, known, state>>, ~faults',
         NEW a \in Heap, NEW left, Unwind(a, left), Kindly(memory'),
         NEW E, E = Chain \union {a}, NEW L, L = lost \union left,
         Accounted(memory', Listed(instances), NoBlock, E, L)
  PROVE  Invariant'
<1>1. Shapes /\ Pace /\ Counted  BY DEF Invariant
<1>2. /\ errors' = <<a>> \o errors /\ scan' = NoScan /\ making' = NoMaking
      /\ lost' = lost \union left
  BY DEF Unwind
<1>3. errors \in Seq(Heap)  BY <1>1 DEF Shapes
<1>4. errors' \in Seq(Heap) /\ Listed(errors') = Listed(errors) \union {a}
  BY <1>2, <1>3, ChainWith
<1>5. lost' \subseteq Heap  BY <1>2, LeftInHeap
<1>6. Shapes'  BY <1>1, <1>2, <1>4, <1>5 DEF Shapes
<1>7. Pace'  BY <1>2 DEF Pace, Scanning
<1>8. Grammars' = Listed(instances) /\ TagSet' = NoBlock /\ Chain' = Chain \union {a}
  BY <1>2, <1>4 DEF Grammars, TagSet, Chain, Scanning
<1>9. Accounted(memory', Grammars', TagSet', Chain', lost')  BY <1>2, <1>8
<1>10. Counted'  BY <1>9 DEF Counted
<1> QED  BY <1>6, <1>7, <1>10 DEF Invariant

\* An error in the account of n: what it leaves is counted already.
LEMMA Throw_Invariant ==
  ASSUME Invariant, state = "running", UNCHANGED <<instances, known, faults, state>>,
         NEW n, NEW number, NEW left, Throw(n, number, left), Kindly(n), HasRoom(n),
         Accounted(n, Listed(instances), NoBlock, Chain, lost \union left)
  PROVE  Invariant'
<1>1. memory' = WithError(n, number) /\ Unwind(NextFree(n), left)  BY DEF Throw
<1>2. NextFree(n) \in Heap  BY NextIsApart
<1>3. Kindly(memory')  BY <1>1, KindlyError
<1>4. PICK M : M = lost \union left  OBVIOUS
<1>5. PICK G : G = Listed(instances)  OBVIOUS
<1>6. Accounted(n, G, NoBlock, Chain, M)  BY <1>4, <1>5
<1>7. Accounted(WithError(n, number), G, NoBlock, Chain \union {NextFree(n)}, M)
  BY <1>6, NewError_Accounted
<1>8. PICK E : E = Chain \union {NextFree(n)}  OBVIOUS
<1>9. Accounted(memory', Listed(instances), NoBlock, E, M)  BY <1>1, <1>5, <1>7, <1>8
<1>10. ~faults'  BY DEF Invariant, Counted
<1> QED  BY <1>1, <1>2, <1>3, <1>4, <1>8, <1>9, <1>10, Unwind_Invariant

\* The account in a scan when no grammar is made, and when one is.
LEMMA ScanningFacts ==
  ASSUME Invariant, Scanning
  PROVE  /\ state = "running" /\ ~faults
         /\ scan \in Scans /\ Kindly(memory) /\ IsHeap(memory)
         /\ TagSet = scan.tagset
         /\ making = NoMaking => Accounted(memory, Listed(instances), scan.tagset, Chain, lost)
         /\ making # NoMaking => /\ making \in Makings
                                 /\ making.grammar \notin Listed(instances)
                                 /\ Accounted(memory, Listed(instances) \union {making.grammar},
                                              scan.tagset, Chain, lost)
<1>1. Shapes /\ Pace /\ Counted  BY DEF Invariant
<1>2. state = "running"
  BY <1>1 DEF Pace, Scanning
<1>3. scan \in Scans /\ Kindly(memory) /\ IsHeap(memory)  BY <1>1 DEF Shapes, Scanning, Kindly
<1>4. TagSet = scan.tagset  BY DEF TagSet
<1>5. ~faults /\ Accounted(memory, Grammars, scan.tagset, Chain, lost)  BY <1>1, <1>2, <1>4 DEF Counted
<1>6. making = NoMaking => Grammars = Listed(instances)  BY DEF Grammars
<1>7. making # NoMaking => Grammars = Listed(instances) \union {making.grammar}  BY DEF Grammars
<1>8. making # NoMaking => making \in Makings /\ making.grammar \notin Listed(instances)
  BY <1>1 DEF Shapes, Pace
<1>9. making = NoMaking => Accounted(memory, Listed(instances), scan.tagset, Chain, lost)
  BY <1>5, <1>6
<1>10. making # NoMaking => Accounted(memory, Listed(instances) \union {making.grammar},
                                      scan.tagset, Chain, lost)
  BY <1>5, <1>7
<1> QED  BY <1>2, <1>3, <1>4, <1>5, <1>8, <1>9, <1>10

-----------------------------------------------------------------------------
(***************************************************************************)
(* Each action keeps the invariant.                                        *)
(***************************************************************************)
LEMMA Register_Invariant ==
  ASSUME Invariant, NEW name \in LaterKnown, Register(name)
  PROVE  Invariant'
<1> USE DEF Register
<1>1. Shapes'  BY DEF Invariant, Shapes
<1>2. Pace'  BY DEF Invariant, Pace, Scanning, AllAsked, NextGrammar, Asked, ToAdd
<1>3. Counted'  BY DEF Invariant, Counted, Grammars, TagSet, Chain, Scanning
<1> QED  BY <1>1, <1>2, <1>3 DEF Invariant

LEMMA BeginScan_Invariant ==
  ASSUME Invariant, Room, NEW d \in DOMAIN Dialects, BeginScan(d)
  PROVE  Invariant'
<1>1. Shapes /\ Pace /\ Counted  BY DEF Invariant
<1>2. /\ state = "running" /\ scan = NoScan /\ making = NoMaking
      /\ UNCHANGED <<instances, known, making, errors, lost, faults, state>>
  BY <1>1 DEF BeginScan, Pace, Scanning
<1>3. PICK new : new = [dialect |-> d, tagset |-> NoBlock, grammars |-> <<>>, added |-> 0]
  OBVIOUS
<1>4. ~faults /\ Accounted(memory, Listed(instances), NoBlock, Chain, lost)
  BY <1>1, <1>2 DEF Counted, Grammars, TagSet, Scanning
<1>5. HasRoom(memory)  BY RoomForOne DEF Room
<1>6. Grammars' = Listed(instances) /\ Chain' = Chain  BY <1>2 DEF Grammars, Chain
<1>7. Kindly(memory)  BY <1>1 DEF Shapes
<1>8. FirstFree \in Heap /\ FirstFree # NoBlock  BY <1>5, NextIsApart, HeapFacts DEF FirstFree
<1>9. new \in Scans
  <2>1. <<>> \in Seq(Heap) /\ 0 \in Nat  OBVIOUS
  <2> QED  BY <1>3, <2>1 DEF Scans
<1>10. Len(<<>>) = 0 /\ \A s : Len(s) \in Nat => 0 <= Len(s)  OBVIOUS
<1>11. Len(Dialects[d].grammars) \in Nat /\ Len(Dialects[d].tags) \in Nat
  BY TablesAssumption
<1>12. CASE Dialects[d].tagged
  <2>1. scan' = [new EXCEPT !.tagset = FirstFree] /\ memory' = Put(memory, FirstFree, NewTagset)
    BY <1>3, <1>12 DEF BeginScan
  <2>2. /\ scan' \in Scans /\ scan'.tagset = FirstFree /\ scan'.dialect = d
        /\ scan'.grammars = <<>> /\ scan'.added = 0
    BY <1>3, <1>8, <1>9, <2>1 DEF Scans
  <2>3. Kindly(memory')
    <3>1. NewTagset.kind \in Kinds  BY DEF NewTagset, Kinds
    <3> QED  BY <1>7, <1>8, <2>1, <3>1, KindlyPut
  <2>4. Shapes'  BY <1>1, <1>2, <2>2, <2>3 DEF Shapes
  <2>5. Pace'
    BY <1>2, <1>8, <1>10, <1>11, <1>12, <2>2 DEF Pace, Scanning, Asked, ToAdd
  <2>6. PICK G : G = Listed(instances)  OBVIOUS
  <2>7. Accounted(Put(memory, NextFree(memory), NewTagset), G, NextFree(memory), Chain, lost)
    BY <1>4, <1>5, <2>6, NewTagset_Accounted
  <2>8. TagSet' = FirstFree
    <3>1. Scanning'  BY <2>2, ScanShape DEF Scanning
    <3> QED  BY <2>2, <3>1 DEF TagSet
  <2>9. Accounted(memory', Grammars', TagSet', Chain', lost')
    BY <1>2, <1>6, <2>1, <2>6, <2>7, <2>8 DEF FirstFree
  <2> QED  BY <1>2, <1>4, <2>4, <2>5, <2>9 DEF Invariant, Counted
<1>13. CASE ~Dialects[d].tagged
  <2>1. scan' = new /\ UNCHANGED memory  BY <1>3, <1>13 DEF BeginScan
  <2>2. /\ scan' \in Scans /\ scan'.tagset = NoBlock /\ scan'.dialect = d
        /\ scan'.grammars = <<>> /\ scan'.added = 0
    BY <1>3, <1>9, <2>1
  <2>3. Shapes'  BY <1>1, <1>2, <2>1, <2>2 DEF Shapes
  <2>4. Pace'
    BY <1>2, <1>10, <1>11, <1>13, <2>2 DEF Pace, Scanning, Asked, ToAdd
  <2>5. TagSet' = NoBlock  BY <2>2 DEF TagSet
  <2>6. Accounted(memory', Grammars', TagSet', Chain', lost')
    BY <1>2, <1>4, <1>6, <2>1, <2>5
  <2> QED  BY <1>2, <1>4, <2>3, <2>4, <2>6 DEF Invariant, Counted
<1> QED  BY <1>12, <1>13

\* The scan goes on: where it is in what it was asked for.
LEMMA ScanPace ==
  ASSUME Invariant, Scanning
  PROVE  /\ Asked \in Seq(DOMAIN Symbols) /\ Len(Asked) \in Nat /\ Len(ToAdd) \in Nat
         /\ scan.grammars \in Seq(Heap) /\ Len(scan.grammars) \in Nat
         /\ scan.dialect \in DOMAIN Dialects
         /\ Len(scan.grammars) <= Len(Asked)
         /\ ~AllAsked => Len(scan.grammars) + 1 <= Len(Asked) /\ NextGrammar \in DOMAIN Symbols
<1>1. Pace /\ scan \in Scans  BY ScanningFacts DEF Invariant
<1>2. scan.dialect \in DOMAIN Dialects /\ scan.grammars \in Seq(Heap)  BY <1>1 DEF Scans
<1>3. Asked \in Seq(DOMAIN Symbols)  BY <1>2, TablesAssumption DEF Asked
<1>4. Len(ToAdd) \in Nat
  <2>1. ToAdd \in Seq(Members(ToAdd))  BY <1>2, TablesAssumption DEF ToAdd
  <2> QED  BY <2>1
<1>5. Len(Asked) \in Nat /\ Len(scan.grammars) \in Nat  BY <1>2, <1>3
<1>6. Len(scan.grammars) <= Len(Asked)  BY <1>1 DEF Pace
<1>7. ASSUME ~AllAsked  PROVE Len(scan.grammars) + 1 <= Len(Asked) /\ NextGrammar \in DOMAIN Symbols
  <2>1. Len(scan.grammars) # Len(Asked)  BY <1>7 DEF AllAsked
  <2>2. Len(scan.grammars) + 1 <= Len(Asked)  BY <1>5, <1>6, <2>1
  <2>3. Len(scan.grammars) + 1 \in 1..Len(Asked)  BY <1>5, <2>2
  <2>4. Asked[Len(scan.grammars) + 1] \in DOMAIN Symbols  BY <1>3, <2>3
  <2> QED  BY <2>2, <2>4 DEF NextGrammar
<1> QED  BY <1>2, <1>3, <1>4, <1>5, <1>6, <1>7

LEMMA InstancesInUse ==
  ASSUME NEW m, NEW G, NEW t, NEW E, NEW L, Accounted(m, G, t, E, L)
  PROVE  G \subseteq Used(m)
<1>1. \A g \in G : IsGrammar(m, g)  BY DEF Accounted, Known
<1>2. \A g \in G : g \in Heap /\ m[g].kind = "grammar"  BY <1>1 DEF IsGrammar
<1> QED  BY <1>2 DEF Used, Unallocated

LEMMA AskGrammar_Invariant ==
  ASSUME Invariant, Room, AskGrammar
  PROVE  Invariant'
<1>1. Shapes /\ Pace /\ Counted  BY DEF Invariant
<1>2. /\ Scanning /\ ~AllAsked /\ making = NoMaking
      /\ UNCHANGED <<instances, known, faults, state>>
  BY DEF AskGrammar
<1>3. /\ state = "running" /\ ~faults
      /\ scan \in Scans /\ Kindly(memory) /\ TagSet = scan.tagset
      /\ Accounted(memory, Listed(instances), scan.tagset, Chain, lost)
  BY <1>2, ScanningFacts
<1>4. /\ Asked \in Seq(DOMAIN Symbols) /\ Len(Asked) \in Nat
      /\ scan.grammars \in Seq(Heap) /\ Len(scan.grammars) \in Nat
      /\ Len(scan.grammars) + 1 <= Len(Asked) /\ NextGrammar \in DOMAIN Symbols
  BY <1>2, ScanPace
<1>5. HasRoom(memory)  BY RoomForOne DEF Room
<1>6. FirstFree \in Heap /\ FirstFree \notin Used(memory)  BY <1>5, NextIsApart DEF FirstFree
<1>7. CASE /\ NextGrammar \in DOMAIN instances
           /\ scan' = [scan EXCEPT !.grammars = Append(@, instances[NextGrammar])]
           /\ UNCHANGED <<memory, making, errors, lost>>
  <2>1. instances[NextGrammar] \in Heap  BY <1>1, <1>7 DEF Shapes, Listed
  <2>2. Append(scan.grammars, instances[NextGrammar]) \in Seq(Heap)
        /\ Len(Append(scan.grammars, instances[NextGrammar])) = Len(scan.grammars) + 1
    BY <1>4, <2>1
  <2>3. /\ scan' \in Scans /\ scan'.dialect = scan.dialect /\ scan'.tagset = scan.tagset
        /\ scan'.added = scan.added /\ Len(scan'.grammars) = Len(scan.grammars) + 1
    BY <1>3, <1>7, <2>2 DEF Scans
  <2>4. Shapes'  BY <1>1, <1>2, <1>7, <2>3 DEF Shapes
  <2>5. Scanning' /\ Asked' = Asked /\ ToAdd' = ToAdd
    BY <2>3, ScanShape DEF Scanning, Asked, ToAdd
  <2>6. Pace'
    BY <1>1, <1>2, <1>3, <1>4, <1>7, <2>3, <2>5 DEF Pace, Scanning
  <2>7. Grammars' = Grammars /\ TagSet' = TagSet /\ Chain' = Chain
    BY <1>2, <1>3, <1>7, <2>3, <2>5 DEF Grammars, TagSet, Chain
  <2>8. Counted'  BY <1>1, <1>2, <1>7, <2>7 DEF Counted
  <2> QED  BY <2>4, <2>6, <2>8 DEF Invariant
<1>8. CASE /\ NextGrammar \notin DOMAIN instances
           /\ memory' = Put(memory, FirstFree, NewGrammar(NextGrammar))
           /\ making' = [name |-> NextGrammar, grammar |-> FirstFree, next |-> 1]
           /\ UNCHANGED <<scan, errors, lost>>
  <2>1. making' \in Makings /\ making'.grammar = FirstFree /\ making'.name = NextGrammar
    BY <1>4, <1>6, <1>8 DEF Makings
  <2>2. making' # NoMaking  BY <2>1, MakingShape
  <2>3. Kindly(memory')
    <3>1. NewGrammar(NextGrammar).kind \in Kinds  BY DEF NewGrammar, Kinds
    <3> QED  BY <1>3, <1>6, <1>8, <3>1, KindlyPut
  <2>4. Shapes'  BY <1>1, <1>2, <1>8, <2>1, <2>3 DEF Shapes
  <2>5. FirstFree \notin Listed(instances)
    <3>1. Listed(instances) \subseteq Used(memory)  BY <1>3, InstancesInUse
    <3> QED  BY <1>6, <3>1
  <2>6. Scanning' /\ Asked' = Asked /\ ToAdd' = ToAdd /\ ~AllAsked' /\ NextGrammar' = NextGrammar
    BY <1>2, <1>8 DEF Scanning, Asked, ToAdd, AllAsked, NextGrammar
  <2>7. Pace'
    BY <1>1, <1>2, <1>3, <1>8, <2>1, <2>5, <2>6 DEF Pace, Scanning
  <2>8. Grammars' = Listed(instances) \union {FirstFree} /\ TagSet' = scan.tagset /\ Chain' = Chain
    BY <1>2, <1>8, <2>1, <2>2, <2>6 DEF Grammars, TagSet, Chain
  <2>9. PICK G : G = Listed(instances)  OBVIOUS
  <2>10. PICK t : t = scan.tagset  OBVIOUS
  <2>11. PICK name : name = NextGrammar  OBVIOUS
  <2>12. Accounted(memory, G, t, Chain, lost)  BY <1>3, <2>9, <2>10
  <2>13. Accounted(Put(memory, NextFree(memory), NewGrammar(name)), G \union {NextFree(memory)}, t,
                   Chain, lost)
    BY <1>5, <2>12, NewGrammar_Accounted
  <2>14. Accounted(memory', Grammars', TagSet', Chain', lost')
    BY <1>8, <2>8, <2>9, <2>10, <2>11, <2>13 DEF FirstFree
  <2> QED  BY <1>2, <1>3, <2>4, <2>7, <2>14 DEF Invariant, Counted
<1>9. CASE Throw(memory, "invalid grammar", TagsetBlocks(memory, scan.tagset))
  <2>1. Accounted(memory, Listed(instances), NoBlock, Chain, lost \union TagsetBlocks(memory, scan.tagset))
    BY <1>3, SetLeft
  <2> QED  BY <1>2, <1>3, <1>5, <1>9, <2>1, Throw_Invariant
<1> QED  BY <1>7, <1>8, <1>9 DEF AskGrammar

LEMMA AddElement_Invariant ==
  ASSUME Invariant, Room, AddElement
  PROVE  Invariant'
<1>1. Shapes /\ Pace /\ Counted  BY DEF Invariant
<1>2. /\ making # NoMaking /\ UNCHANGED <<instances, known, faults, state>>
  BY DEF AddElement
<1>3. Scanning  BY <1>1, <1>2 DEF Pace
<1>4. /\ state = "running" /\ ~faults
      /\ scan \in Scans /\ Kindly(memory) /\ IsHeap(memory) /\ TagSet = scan.tagset
      /\ making \in Makings /\ making.grammar \notin Listed(instances)
      /\ Accounted(memory, Listed(instances) \union {making.grammar}, scan.tagset, Chain, lost)
  BY <1>2, <1>3, ScanningFacts
<1>5. HasRoom(memory)  BY RoomForOne DEF Room
<1>6. FirstFree \in Heap  BY <1>5, NextIsApart DEF FirstFree
<1>7. PICK e : e = ToMake[making.next]  OBVIOUS
<1>8. PICK g : g = making.grammar  OBVIOUS
<1>9. PICK G : G = Listed(instances)  OBVIOUS
<1>10. PICK t : t = scan.tagset  OBVIOUS
<1>11. g \notin G /\ Accounted(memory, G \union {g}, t, Chain, lost)  BY <1>4, <1>8, <1>9, <1>10
<1>12. Accounted(memory, G, NoBlock, Chain,
                 lost \union (GrammarBlocks(memory, g) \union TagsetBlocks(memory, t)))
  BY <1>11, MakingLeft
<1>13. LeftInMaking = GrammarBlocks(memory, g) \union TagsetBlocks(memory, t)
  BY <1>8, <1>10 DEF LeftInMaking
<1>14. Accounted(memory, Listed(instances), NoBlock, Chain, lost \union LeftInMaking)
  BY <1>9, <1>12, <1>13
<1>15. CASE \/ Throw(memory, "duplicate element", LeftInMaking)
            \/ Throw(memory, "invalid element", LeftInMaking)
  BY <1>2, <1>4, <1>5, <1>14, <1>15, Throw_Invariant
<1>16. CASE Throw(Put(memory, FirstFree, NewElement(e.type, e.start, NoBlock)), "invalid element",
                  LeftInMaking \union {FirstFree})
  <2>1. PICK v : v = NewElement(e.type, e.start, NoBlock)  OBVIOUS
  <2>2. v.kind \in Kinds /\ v # Unallocated  BY <2>1 DEF NewElement, Unallocated, Kinds
  <2>3. PICK n : n = Put(memory, FirstFree, v)  OBVIOUS
  <2>4. Kindly(n)  BY <1>4, <1>6, <2>2, <2>3, KindlyPut
  <2>5. HasRoom(n)  BY <1>4, <1>6, <2>3, RoomFacts DEF Room
  <2>6. PICK M : M = lost \union LeftInMaking  OBVIOUS
  <2>7. Accounted(memory, G, NoBlock, Chain, M)  BY <1>9, <1>14, <2>6
  <2>8. Accounted(Put(memory, NextFree(memory), v), G, NoBlock, Chain, M \union {NextFree(memory)})
    BY <1>5, <2>2, <2>7, NewLost_Accounted
  <2>9. M \union {FirstFree} = lost \union (LeftInMaking \union {FirstFree})  BY <2>6
  <2>10. Accounted(n, Listed(instances), NoBlock, Chain, lost \union (LeftInMaking \union {FirstFree}))
    BY <1>9, <2>3, <2>8, <2>9 DEF FirstFree
  <2>11. Throw(n, "invalid element", LeftInMaking \union {FirstFree})  BY <1>16, <2>1, <2>3
  <2> QED  BY <1>2, <1>4, <2>4, <2>5, <2>10, <2>11, Throw_Invariant
<1>17. CASE /\ NameOf(e) \notin DOMAIN memory[making.grammar].elements
            /\ memory' = Added(memory, making.grammar, e, FirstFree)
            /\ making' = [making EXCEPT !.next = @ + 1]
            /\ UNCHANGED <<scan, errors, lost>>
  <2>1. /\ making' \in Makings /\ making'.grammar = g /\ making'.name = making.name
    <3>1. making.next + 1 \in Nat \ {0}  BY <1>4 DEF Makings
    <3> QED  BY <1>4, <1>8, <1>17, <3>1 DEF Makings
  <2>2. making' # NoMaking  BY <2>1, MakingShape
  <2>3. Accounted(Added(memory, g, e, NextFree(memory)), G \union {g}, t, Chain, lost)
    BY <1>5, <1>8, <1>11, <1>17, Added_Accounted
  <2>4. Grammars' = G \union {g} /\ TagSet' = t /\ Chain' = Chain
    BY <1>2, <1>3, <1>9, <1>10, <1>17, <2>1, <2>2 DEF Grammars, TagSet, Chain, Scanning
  <2>5. Accounted(memory', Grammars', TagSet', Chain', lost')
    BY <1>8, <1>17, <2>3, <2>4 DEF FirstFree
  <2>6. Kindly(memory')
    <3>1. IsGrammar(memory, g)  BY <1>11 DEF Accounted, Known
    <3>2. PICK v : v = NewElement(e.type, e.start, g)  OBVIOUS
    <3>3. v.kind \in Kinds  BY <3>2 DEF NewElement, Kinds
    <3>4. Kindly(Put(memory, FirstFree, v))  BY <1>4, <1>6, <3>3, KindlyPut
    <3>5. PICK w : w = [memory[g] EXCEPT
                      !.operators = IF e.start = None THEN @ ELSE StoreInTree(@, e.start, FirstFree),
                      !.elements = Put(@, NameOf(e), FirstFree)]
      OBVIOUS
    <3>6. w.kind \in Kinds  BY <3>1, <3>5 DEF IsGrammar, Kinds
    <3>7. Kindly(Put(Put(memory, FirstFree, v), g, w))
      BY <3>1, <3>4, <3>6, KindlyPut DEF IsGrammar
    <3> QED  BY <1>8, <1>17, <3>2, <3>5, <3>7 DEF Added
  <2>7. Shapes'  BY <1>1, <1>2, <1>17, <2>1, <2>6 DEF Shapes
  <2>8. Scanning' /\ Asked' = Asked /\ ToAdd' = ToAdd /\ AllAsked' = AllAsked /\ NextGrammar' = NextGrammar
    BY <1>3, <1>17 DEF Scanning, Asked, ToAdd, AllAsked, NextGrammar
  <2>9. Pace'
    BY <1>1, <1>2, <1>4, <1>8, <1>17, <2>1, <2>8 DEF Pace, Scanning
  <2> QED  BY <1>2, <1>4, <2>5, <2>7, <2>9 DEF Invariant, Counted
<1> QED  BY <1>7, <1>15, <1>16, <1>17 DEF AddElement

LEMMA GrammarMade_Invariant ==
  ASSUME Invariant, GrammarMade
  PROVE  Invariant'
<1>1. Shapes /\ Pace /\ Counted  BY DEF Invariant
<1>2. /\ making # NoMaking
      /\ instances' = Put(instances, making.name, making.grammar)
      /\ scan' = [scan EXCEPT !.grammars = Append(@, making.grammar)]
      /\ making' = NoMaking
      /\ UNCHANGED <<memory, known, errors, lost, faults, state>>
  BY DEF GrammarMade
<1>3. Scanning /\ ~AllAsked /\ making.name \notin DOMAIN instances  BY <1>1, <1>2 DEF Pace
<1>4. scan \in Scans /\ TagSet = scan.tagset /\ making \in Makings /\ state = "running"
  BY <1>2, <1>3, ScanningFacts
<1>5. /\ scan.grammars \in Seq(Heap) /\ Len(scan.grammars) \in Nat /\ Len(Asked) \in Nat
      /\ Len(scan.grammars) + 1 <= Len(Asked)
  BY <1>3, ScanPace
<1>6. making.grammar \in Heap /\ making.name \in DOMAIN Symbols  BY <1>4 DEF Makings
<1>7. Listed(instances') = Listed(instances) \union {making.grammar}
  BY <1>2, <1>3, ListedPut
<1>8. DOMAIN instances' = DOMAIN instances \union {making.name}  BY <1>2 DEF Put
<1>9. Append(scan.grammars, making.grammar) \in Seq(Heap)
      /\ Len(Append(scan.grammars, making.grammar)) = Len(scan.grammars) + 1
  BY <1>5, <1>6
<1>10. /\ scan' \in Scans /\ scan'.dialect = scan.dialect /\ scan'.tagset = scan.tagset
       /\ scan'.added = scan.added /\ Len(scan'.grammars) = Len(scan.grammars) + 1
  BY <1>2, <1>4, <1>9 DEF Scans
<1>11. Shapes'  BY <1>1, <1>2, <1>6, <1>7, <1>8, <1>10 DEF Shapes
<1>12. Scanning' /\ Asked' = Asked /\ ToAdd' = ToAdd
  BY <1>10, ScanShape DEF Scanning, Asked, ToAdd
<1>13. Pace'
  BY <1>1, <1>2, <1>3, <1>4, <1>5, <1>10, <1>12 DEF Pace, Scanning
<1>14. Grammars = Listed(instances) \union {making.grammar}  BY <1>2 DEF Grammars
<1>15. Grammars' = Listed(instances')  BY <1>2 DEF Grammars
<1>16. Grammars' = Grammars /\ TagSet' = TagSet /\ Chain' = Chain
  BY <1>2, <1>4, <1>7, <1>10, <1>12, <1>14, <1>15 DEF TagSet, Chain
<1>17. Counted'  BY <1>1, <1>2, <1>16 DEF Counted
<1> QED  BY <1>11, <1>13, <1>17 DEF Invariant

\* What the constructors of tags return.
LEMMA ConstructedTag ==
  ASSUME NEW type \in TagTypes, NEW name, NEW start, NEW grammar, NEW tag,
         tag = Constructed(NewTag(type, name, start, grammar))
  PROVE  /\ DOMAIN tag = {"kind", "type", "name", "start", "grammar", "style", "scanner", "tagset"}
         /\ tag.kind = "tag" /\ tag.type = type /\ tag.name = name
         /\ tag.start = start /\ tag.grammar = grammar
         /\ tag.style = CASE type = "hemp.outline" -> "outline"
                          [] type = "hemp.unplugged" -> "unplugged"
                          [] OTHER -> "inline"
         /\ type # "hemp.unplugged" => tag.scanner # None
<1> USE DEF Constructed, NewTag, InlineTag, OutlineTag, CommentTag, ControlTag, UnpluggedTag, None
<1>1. CASE type = "hemp.inline"  BY <1>1
<1>2. CASE type = "hemp.outline"  BY <1>2
<1>3. CASE type = "hemp.comment"  BY <1>3
<1>4. CASE type = "hemp.control"  BY <1>4
<1>5. CASE type = "hemp.unplugged"  BY <1>5
<1> QED  BY <1>1, <1>2, <1>3, <1>4, <1>5 DEF TagTypes

\* The next tag is one of the dialect's, and then there is a set to add it to.
LEMMA NextTag ==
  ASSUME Invariant, AllAsked, ~AllAdded
  PROVE  /\ scan.added + 1 \in 1..Len(ToAdd) /\ scan.added \in Nat
         /\ ToAdd[scan.added + 1] \in Members(ToAdd)
         /\ ToAdd[scan.added + 1].type \in TagTypes
         /\ ToAdd[scan.added + 1].grammar \in 0..Len(Asked)
         /\ scan.tagset \in Heap /\ scan.tagset # NoBlock
<1>1. Scanning  BY DEF AllAsked
<1>2. Pace /\ scan \in Scans  BY <1>1, ScanningFacts DEF Invariant
<1>3. scan.added \in Nat /\ scan.dialect \in DOMAIN Dialects /\ scan.tagset \in Heap \union {NoBlock}
  BY <1>2 DEF Scans
<1>4. ToAdd \in Seq(Members(ToAdd))  BY <1>3, TablesAssumption DEF ToAdd
<1>5. Len(ToAdd) \in Nat /\ DOMAIN ToAdd = 1..Len(ToAdd)  BY <1>4
<1>6. scan.added <= Len(ToAdd) /\ scan.added # Len(ToAdd)  BY <1>1, <1>2 DEF Pace, AllAdded
<1>7. scan.added + 1 \in 1..Len(ToAdd)  BY <1>3, <1>5, <1>6
<1>8. ToAdd[scan.added + 1] \in Members(ToAdd)  BY <1>4, <1>5, <1>7 DEF Members
<1>9. ToAdd[scan.added + 1].type \in TagTypes /\ ToAdd[scan.added + 1].grammar \in 0..Len(Asked)
  BY <1>3, <1>8, TablesAssumption DEF ToAdd, Asked
<1>10. Dialects[scan.dialect].tagged
  <2>1. SUFFICES ASSUME ~Dialects[scan.dialect].tagged  PROVE FALSE
    OBVIOUS
  <2>2. ToAdd = <<>>  BY <1>3, <2>1, TablesAssumption DEF ToAdd
  <2>3. Len(ToAdd) = 0  BY <2>2
  <2> QED  BY <1>7, <2>3
<1>11. scan.tagset # NoBlock  BY <1>1, <1>2, <1>10 DEF Pace
<1> QED  BY <1>3, <1>7, <1>8, <1>9, <1>11

LEMMA AddTag_Invariant ==
  ASSUME Invariant, Room, AddTag
  PROVE  Invariant'
<1>1. Shapes /\ Pace /\ Counted  BY DEF Invariant
<1>2. AllAsked /\ ~AllAdded /\ making = NoMaking /\ Scanning  BY DEF AddTag, AllAsked
<1>3. /\ state = "running" /\ ~faults
      /\ scan \in Scans /\ Kindly(memory) /\ IsHeap(memory) /\ TagSet = scan.tagset
      /\ Accounted(memory, Listed(instances), scan.tagset, Chain, lost)
  BY <1>2, ScanningFacts
<1>4. HasRoom(memory)  BY RoomForOne DEF Room
<1>5. FirstFree \in Heap  BY <1>4, NextIsApart DEF FirstFree
<1>6. PICK t : t = ToAdd[scan.added + 1]  OBVIOUS
<1>7. PICK tag : tag = Constructed(NewTag(t.type, t.name, t.start, GrammarOf(t)))  OBVIOUS
<1>8. /\ scan.added + 1 \in 1..Len(ToAdd) /\ scan.added \in Nat /\ t.type \in TagTypes
      /\ scan.tagset \in Heap /\ scan.tagset # NoBlock
  BY <1>2, <1>6, NextTag
<1>9. /\ DOMAIN tag = {"kind", "type", "name", "start", "grammar", "style", "scanner", "tagset"}
      /\ tag.kind = "tag" /\ tag.name = t.name
  BY <1>7, <1>8, ConstructedTag
<1>10. CASE /\ Throw(memory, "invalid tag", TagsetBlocks(memory, scan.tagset))
            /\ UNCHANGED <<instances, known, faults, state>>
  <2>1. Accounted(memory, Listed(instances), NoBlock, Chain, lost \union TagsetBlocks(memory, scan.tagset))
    BY <1>3, SetLeft
  <2> QED  BY <1>3, <1>4, <1>10, <2>1, Throw_Invariant
<1>11. CASE /\ state' = "ended" /\ scan' = NoScan
            /\ UNCHANGED <<memory, instances, known, making, errors, lost, faults>>
  <2>1. Shapes'  BY <1>1, <1>11 DEF Shapes
  <2>2. Pace'  BY <1>2, <1>11 DEF Pace, Scanning
  <2> QED  BY <1>11, <2>1, <2>2 DEF Invariant, Counted
<1>12. CASE /\ t.name \notin DOMAIN memory[scan.tagset].tags
            /\ memory' = TagAdded(memory, scan.tagset, tag, FirstFree)
            /\ scan' = [scan EXCEPT !.added = @ + 1]
            /\ UNCHANGED <<instances, known, making, errors, lost, faults, state>>
  <2>1. PICK s : s = scan.tagset  OBVIOUS
  <2>2. PICK G : G = Listed(instances)  OBVIOUS
  <2>3. Accounted(memory, G, s, Chain, lost) /\ s # NoBlock /\ s \in Heap  BY <1>3, <1>8, <2>1, <2>2
  <2>4. tag.name \notin DOMAIN memory[s].tags  BY <1>9, <1>12, <2>1
  <2>5. Accounted(TagAdded(memory, s, tag, NextFree(memory)), G, s, Chain, lost)
    BY <1>4, <1>9, <2>3, <2>4, TagAdded_Accounted
  <2>6. /\ scan' \in Scans /\ scan'.dialect = scan.dialect /\ scan'.tagset = scan.tagset
        /\ scan'.grammars = scan.grammars /\ scan'.added = scan.added + 1
    <3>1. scan.added + 1 \in Nat  BY <1>8
    <3> QED  BY <1>3, <1>12, <3>1 DEF Scans
  <2>7. Scanning' /\ Asked' = Asked /\ ToAdd' = ToAdd
    BY <2>6, ScanShape DEF Scanning, Asked, ToAdd
  <2>8. Grammars' = G /\ TagSet' = s /\ Chain' = Chain
    BY <1>2, <1>12, <2>1, <2>2, <2>6, <2>7 DEF Grammars, TagSet, Chain
  <2>9. Accounted(memory', Grammars', TagSet', Chain', lost')
    BY <1>12, <2>1, <2>5, <2>8 DEF FirstFree
  <2>10. Kindly(memory')
    <3>1. IsTagset(memory, s)  BY <2>3 DEF Accounted, Known
    <3>2. PICK v : v = [tag EXCEPT !.tagset = s]  OBVIOUS
    <3>3. v.kind \in Kinds  BY <1>9, <3>2 DEF Kinds
    <3>4. Kindly(Put(memory, FirstFree, v))  BY <1>3, <1>5, <3>3, KindlyPut
    <3>5. PICK w :
            w = [memory[s] EXCEPT
                  !.tags = Put(@, tag.name, FirstFree),
                  !.inline = IF tag.style = "inline" THEN StoreInTree(@, tag.start, FirstFree) ELSE @,
                  !.outline = IF tag.style = "outline" THEN StoreInTree(@, tag.start, FirstFree) ELSE @,
                  !.unplugged = IF tag.style = "unplugged" THEN FirstFree ELSE @]
      OBVIOUS
    <3>6. w.kind \in Kinds  BY <3>1, <3>5 DEF IsTagset, Kinds
    <3>7. Kindly(Put(Put(memory, FirstFree, v), s, w))  BY <2>3, <3>4, <3>6, KindlyPut
    <3> QED  BY <1>12, <2>1, <3>2, <3>5, <3>7 DEF TagAdded
  <2>11. Shapes'  BY <1>1, <1>12, <2>6, <2>10 DEF Shapes
  <2>12. Pace'
    <3>1. scan.added + 1 <= Len(ToAdd)  BY <1>8
    <3> QED  BY <1>1, <1>2, <1>3, <1>12, <2>6, <2>7, <3>1 DEF Pace, Scanning
  <2> QED  BY <1>3, <1>12, <2>9, <2>11, <2>12 DEF Invariant, Counted
<1> QED  BY <1>6, <1>7, <1>10, <1>11, <1>12 DEF AddTag

LEMMA ScanDone_Invariant ==
  ASSUME Invariant, ScanDone
  PROVE  Invariant'
<1>1. Shapes /\ Pace /\ Counted  BY DEF Invariant
<1>2. PICK gone : gone = TagsetBlocks(memory, scan.tagset)  OBVIOUS
<1>3. /\ AllAdded /\ memory' = Freeing(memory, gone)
      /\ faults' = (faults \/ Dangling(memory, gone))
      /\ scan' = NoScan
      /\ UNCHANGED <<instances, known, making, errors, lost, state>>
  BY <1>2 DEF ScanDone
<1>4. Scanning /\ making = NoMaking  BY <1>1, <1>3 DEF AllAdded, AllAsked, Pace
<1>5. /\ state = "running" /\ ~faults /\ Kindly(memory)
      /\ Accounted(memory, Listed(instances), scan.tagset, Chain, lost)
  BY <1>4, ScanningFacts
<1>6. Accounted(Freeing(memory, gone), Listed(instances), NoBlock, Chain, lost) /\ ~Dangling(memory, gone)
  BY <1>2, <1>5, SetFreed
<1>7. Kindly(memory')  BY <1>3, <1>5, KindlyFreeing
<1>8. Shapes'  BY <1>1, <1>3, <1>7 DEF Shapes
<1>9. Pace'  BY <1>3, <1>4 DEF Pace, Scanning
<1>10. Grammars' = Listed(instances) /\ TagSet' = NoBlock /\ Chain' = Chain
  BY <1>3, <1>4 DEF Grammars, TagSet, Chain, Scanning
<1>11. Counted'  BY <1>3, <1>5, <1>6, <1>10 DEF Counted
<1> QED  BY <1>8, <1>9, <1>11 DEF Invariant

\* A guarded scan frees its tags once the error is made, and they are what they were.
LEMMA ScanFails_Invariant ==
  ASSUME Invariant, Room, ScanFails
  PROVE  Invariant'
<1>1. Shapes /\ Pace /\ Counted  BY DEF Invariant
<1>2. PICK gone : gone = TagsetBlocks(memory, scan.tagset)  OBVIOUS
<1>3. PICK guarded : guarded = Dialects[scan.dialect].guarded  OBVIOUS
<1>4. PICK thrown \in {WithError(memory, "token"), WithLocated(memory, "token")} :
        /\ AllAdded
        /\ memory' = IF guarded THEN Freeing(thrown, gone) ELSE thrown
        /\ faults' = (faults \/ (guarded /\ Dangling(thrown, gone)))
        /\ Unwind(NextFree(memory), IF guarded THEN {} ELSE gone)
        /\ UNCHANGED <<instances, known, state>>
  BY <1>2, <1>3 DEF ScanFails
<1>5. Scanning /\ making = NoMaking  BY <1>1, <1>4 DEF AllAdded, AllAsked, Pace
<1>6. /\ state = "running" /\ ~faults /\ Kindly(memory) /\ IsHeap(memory)
      /\ Accounted(memory, Listed(instances), scan.tagset, Chain, lost)
  BY <1>5, ScanningFacts
<1>7. HasRoom(memory) /\ HasRoomForTwo(memory)  BY RoomForOne DEF Room
<1>8. PICK a : a = NextFree(memory)  OBVIOUS
<1>9. a \in Heap  BY <1>7, <1>8, NextIsApart
<1>10. PICK G : G = Listed(instances)  OBVIOUS
<1>11. PICK s : s = scan.tagset  OBVIOUS
<1>12. PICK E : E = Chain \union {a}  OBVIOUS
<1>13. Accounted(memory, G, s, Chain, lost)  BY <1>6, <1>10, <1>11
<1>14. Kindly(thrown)  BY <1>4, <1>6, <1>7, KindlyError, KindlyLocated
<1>15. Accounted(thrown, G, s, E, lost)
  <2>1. Accounted(WithError(memory, "token"), G, s, Chain \union {NextFree(memory)}, lost)
    BY <1>7, <1>13, NewError_Accounted
  <2>2. Accounted(WithLocated(memory, "token"), G, s, Chain \union {NextFree(memory)}, lost)
    BY <1>7, <1>13, LocatedError_Accounted
  <2> QED  BY <1>4, <1>8, <1>12, <2>1, <2>2
<1>16. TagsetBlocks(thrown, s) = gone
  <2>1. \A x \in Used(memory) : WithError(memory, "token")[x] = memory[x]
    BY <1>6, <1>7, NewError_Keeps
  <2>2. \A x \in Used(memory) : WithLocated(memory, "token")[x] = memory[x]
    BY <1>7, <1>13, LocatedError_Keeps
  <2>3. \A x \in Used(memory) : thrown[x] = memory[x]  BY <1>4, <2>1, <2>2
  <2>4. s # NoBlock => IsTagset(memory, s)  BY <1>13 DEF Accounted, Known
  <2>5. TagsetBlocks(memory, s) \subseteq Used(memory)  BY <2>4, TagsetOwns
  <2>6. \A x \in TagsetBlocks(memory, s) : thrown[x] = memory[x]  BY <2>3, <2>5
  <2>7. TagsetBlocks(thrown, s) = TagsetBlocks(memory, s)  BY <2>4, <2>6, TagsetSame
  <2> QED  BY <1>2, <1>11, <2>7
<1>17. CASE guarded
  <2>1. Accounted(Freeing(thrown, gone), G, NoBlock, E, lost) /\ ~Dangling(thrown, gone)
    BY <1>15, <1>16, SetFreed
  <2>2. Kindly(memory')  BY <1>4, <1>14, <1>17, KindlyFreeing
  <2>3. PICK left : left = {}  OBVIOUS
  <2>4. lost = lost \union left  BY <2>3
  <2>5. Accounted(memory', Listed(instances), NoBlock, E, lost)  BY <1>4, <1>10, <1>17, <2>1
  <2>6. Unwind(a, left) /\ UNCHANGED <<instances, known, state>> /\ ~faults'
    BY <1>4, <1>6, <1>8, <1>17, <2>1, <2>3
  <2> QED  BY <1>6, <1>9, <1>12, <2>2, <2>4, <2>5, <2>6, Unwind_Invariant
<1>18. CASE ~guarded
  <2>1. Accounted(thrown, G, NoBlock, E, lost \union gone)  BY <1>15, <1>16, SetLeft
  <2>2. Kindly(memory')  BY <1>4, <1>14, <1>18
  <2>3. PICK L : L = lost \union gone  OBVIOUS
  <2>4. Accounted(memory', Listed(instances), NoBlock, E, L)  BY <1>4, <1>10, <1>18, <2>1, <2>3
  <2>5. Unwind(a, gone) /\ UNCHANGED <<instances, known, state>> /\ ~faults'
    BY <1>4, <1>6, <1>8, <1>18
  <2> QED  BY <1>6, <1>9, <1>12, <2>2, <2>3, <2>4, <2>5, Unwind_Invariant
<1> QED  BY <1>17, <1>18

LEMMA TellError_Invariant ==
  ASSUME Invariant, Room, TellError
  PROVE  Invariant'
<1>1. Shapes /\ Pace /\ Counted  BY DEF Invariant
<1>2. /\ state = "running" /\ scan = NoScan
      /\ memory' = Put(memory, FirstFree, NewBuffer)
      /\ lost' = lost \union {FirstFree}
      /\ UNCHANGED <<instances, known, scan, making, errors, faults, state>>
  BY DEF TellError
<1>3. HasRoom(memory)  BY RoomForOne DEF Room
<1>4. FirstFree \in Heap  BY <1>3, NextIsApart DEF FirstFree
<1>5. NewBuffer.kind \in Kinds /\ NewBuffer # Unallocated  BY DEF NewBuffer, Unallocated, Kinds
<1>6. Kindly(memory')  BY <1>1, <1>2, <1>4, <1>5, KindlyPut DEF Shapes
<1>7. Shapes'  BY <1>1, <1>2, <1>4, <1>6 DEF Shapes
<1>8. Pace'  BY <1>1, <1>2 DEF Pace, Scanning
<1>9. ~faults /\ Accounted(memory, Grammars, TagSet, Chain, lost)  BY <1>1, <1>2 DEF Counted
<1>10. Accounted(Put(memory, NextFree(memory), NewBuffer), Grammars, TagSet, Chain,
                 lost \union {NextFree(memory)})
  BY <1>3, <1>5, <1>9, NewLost_Accounted
<1>11. Grammars' = Grammars /\ TagSet' = TagSet /\ Chain' = Chain
  BY <1>2 DEF Grammars, TagSet, Chain, Scanning
<1>12. Counted'  BY <1>2, <1>9, <1>10, <1>11 DEF Counted, FirstFree
<1> QED  BY <1>7, <1>8, <1>12 DEF Invariant

LEMMA FreeHemp_Invariant ==
  ASSUME Invariant, FreeHemp
  PROVE  Invariant'
<1>1. Shapes /\ Pace /\ Counted  BY DEF Invariant
<1>2. PICK gone : gone = (UNION {GrammarBlocks(memory, g) : g \in Listed(instances)})
                          \union (UNION {ErrorBlocks(memory, errors[i]) : i \in DOMAIN errors})
  OBVIOUS
<1>3. /\ state = "running" /\ scan = NoScan
      /\ memory' = Freeing(memory, gone)
      /\ faults' = (faults \/ Dangling(memory, gone))
      /\ instances' = << >> /\ errors' = <<>>
      /\ state' = "freed"
      /\ UNCHANGED <<known, scan, making, lost>>
  BY <1>2 DEF FreeHemp
<1>4. making = NoMaking  BY <1>1, <1>3 DEF Pace, Scanning
<1>5. Grammars = Listed(instances) /\ TagSet = NoBlock  BY <1>3, <1>4 DEF Grammars, TagSet, Scanning
<1>6. PICK G : G = Listed(instances)  OBVIOUS
<1>7. ~faults /\ Accounted(memory, G, NoBlock, Chain, lost)  BY <1>1, <1>3, <1>5, <1>6 DEF Counted
<1>8. gone = Owned(memory, G, NoBlock, Chain)
  <2>1. {ErrorBlocks(memory, errors[i]) : i \in DOMAIN errors} = {ErrorBlocks(memory, e) : e \in Chain}
    BY DEF Chain, Listed
  <2>2. TagsetBlocks(memory, NoBlock) = {}  BY DEF TagsetBlocks
  <2> QED  BY <1>2, <1>6, <2>1, <2>2 DEF Owned
<1>9. Accounted(Freeing(memory, gone), {}, NoBlock, {}, lost) /\ ~Dangling(memory, gone)
  BY <1>7, <1>8, AllFreed
<1>10. Kindly(memory')  BY <1>1, <1>3, KindlyFreeing DEF Shapes
<1>11. Listed(instances') = {} /\ DOMAIN instances' = {} /\ Listed(errors') = {} /\ errors' \in Seq(Heap)
  BY <1>3 DEF Listed
<1>12. Shapes'  BY <1>1, <1>3, <1>10, <1>11 DEF Shapes
<1>13. Pace'  BY <1>3, <1>4 DEF Pace, Scanning
<1>14. Grammars' = {} /\ TagSet' = NoBlock /\ Chain' = {}
  BY <1>3, <1>4, <1>11 DEF Grammars, TagSet, Chain, Scanning
<1>15. Counted'  BY <1>3, <1>7, <1>9, <1>14 DEF Counted
<1> QED  BY <1>12, <1>13, <1>15 DEF Invariant

LEMMA NextInvariant ==
  ASSUME Invariant, Room, [TablesNext]_tablesVars
  PROVE  Invariant'
<1>1. ASSUME NEW name \in LaterKnown, Register(name)  PROVE Invariant'
  BY <1>1, Register_Invariant
<1>2. ASSUME NEW d \in DOMAIN Dialects, BeginScan(d)  PROVE Invariant'
  BY <1>2, BeginScan_Invariant
<1>3. CASE AskGrammar  BY <1>3, AskGrammar_Invariant
<1>4. CASE AddElement  BY <1>4, AddElement_Invariant
<1>5. CASE GrammarMade  BY <1>5, GrammarMade_Invariant
<1>6. CASE AddTag  BY <1>6, AddTag_Invariant
<1>7. CASE ScanDone  BY <1>7, ScanDone_Invariant
<1>8. CASE ScanFails  BY <1>8, ScanFails_Invariant
<1>9. CASE TellError  BY <1>9, TellError_Invariant
<1>10. CASE FreeHemp  BY <1>10, FreeHemp_Invariant
<1>11. CASE UNCHANGED tablesVars
  <2> USE <1>11 DEF tablesVars
  <2>1. Shapes'  BY DEF Invariant, Shapes
  <2>2. Pace'  BY DEF Invariant, Pace, Scanning, AllAsked, NextGrammar, Asked, ToAdd
  <2>3. Counted'  BY DEF Invariant, Counted, Grammars, TagSet, Chain, Scanning
  <2> QED  BY <2>1, <2>2, <2>3 DEF Invariant
<1> QED  BY <1>1, <1>2, <1>3, <1>4, <1>5, <1>6, <1>7, <1>8, <1>9, <1>10, <1>11 DEF TablesNext

(***************************************************************************)
(* At every step of the making of tag sets and grammars, and after each    *)
(* error (HEMP_CATCH_ALL in hemp_document_scan), the blocks that are       *)
(* allocated are those of the factory's grammars, of the one being made,   *)
(* of the scan's tags and of the chain of errors, each with one owner, and *)
(* the ones that the code has left; nothing is freed twice.                *)
(***************************************************************************)
THEOREM Kept == TablesSpec /\ []Room => []Invariant
<1>1. TablesInit => Invariant  BY InitInvariant
<1>2. Invariant /\ Room /\ [TablesNext]_tablesVars => Invariant'  BY NextInvariant
<1> QED  BY <1>1, <1>2, PTL DEF TablesSpec

\* In a state that keeps the invariant the account is that of NothingIsLost.
LEMMA NothingLost ==
  ASSUME Invariant
  PROVE  NothingIsLost
<1> SUFFICES ASSUME state # "ended"
             PROVE  /\ ~faults
                    /\ {a \in Heap : memory[a] # Unallocated} = Reachable \union lost
                    /\ Reachable \intersect lost = {}
  BY DEF NothingIsLost
<1>1. Shapes /\ Pace /\ Counted  BY DEF Invariant
<1>2. ~faults /\ Accounted(memory, Grammars, TagSet, Chain, lost)  BY <1>1 DEF Counted
<1>3. Reachable = Owned(memory, Grammars, TagSet, Chain)
  <2>1. ASSUME NEW x
        PROVE  x \in Reachable <=> x \in Owned(memory, Grammars, TagSet, Chain)
    <3>1. x \in (UNION {GrammarBlocks(memory, g) : g \in Listed(instances)})
          <=> \E g \in Listed(instances) : x \in GrammarBlocks(memory, g)
      OBVIOUS
    <3>2. (\E g \in Grammars : x \in GrammarBlocks(memory, g))
          <=> \/ \E g \in Listed(instances) : x \in GrammarBlocks(memory, g)
              \/ making # NoMaking /\ x \in GrammarBlocks(memory, making.grammar)
      BY DEF Grammars
    <3>3. x \in TagsetBlocks(memory, TagSet) <=> Scanning /\ x \in TagsetBlocks(memory, scan.tagset)
      BY DEF TagSet, TagsetBlocks
    <3>4. x \in (UNION {ErrorBlocks(memory, errors[i]) : i \in DOMAIN errors})
          <=> \E e \in Chain : x \in ErrorBlocks(memory, e)
      BY DEF Chain, Listed
    <3> QED  BY <3>1, <3>2, <3>3, <3>4, OwnedMember DEF Reachable
  <2> QED  BY <2>1
<1> QED  BY <1>2, <1>3 DEF Accounted, Used

(***************************************************************************)
(* hemp_grammar_free, hemp_tagset_free and hemp_error_free reach every     *)
(* block that the program has not already left, and free each one once,    *)
(* for any dialects and grammars and whatever step of a scan throws.       *)
(***************************************************************************)
THEOREM NoBlockIsLost == TablesSpec /\ []Room => []NothingIsLost
<1>1. Invariant => NothingIsLost  BY NothingLost
<1> QED  BY <1>1, Kept, PTL

-----------------------------------------------------------------------------
(***************************************************************************)
(* What is in the tables.  The first k elements that its constructor adds  *)
(* are in the grammar at g, the first k tags of ts in the set at s, with   *)
(* the grammars gs.                                                        *)
(***************************************************************************)
HasElements(m, g, name, k) ==
  /\ m[g].kind = "grammar" /\ m[g].name = name
  /\ \A x : x \in DOMAIN m[g].elements <=> \E i \in 1..k : x = NameOf(Symbols[name][i])
  /\ \A x : x \in DOMAIN m[g].operators
            <=> x # None /\ \E i \in 1..k : x = Symbols[name][i].start
  /\ \A i \in 1..k :
       LET e == Symbols[name][i]
           a == m[g].elements[NameOf(e)]
       IN /\ m[a] = NewElement(e.type, e.start, g)
          /\ e.start # None => m[g].operators[e.start] = a

HasTag(m, s, gs, t) ==
  LET a == m[s].tags[t.name]
  IN /\ t.name \in DOMAIN m[s].tags
     /\ m[a].kind = "tag" /\ m[a].name = t.name /\ m[a].tagset = s
     /\ t.grammar # 0 => m[a].grammar = gs[t.grammar]
     /\ t.type # "hemp.unplugged" => m[a].scanner # None
     /\ StyleOf(t.type) = "inline" => t.start \in DOMAIN m[s].inline /\ m[s].inline[t.start] = a
     /\ StyleOf(t.type) = "outline" => t.start \in DOMAIN m[s].outline /\ m[s].outline[t.start] = a

HasTags(m, s, gs, ts, k) ==
  /\ \A i \in 1..k : HasTag(m, s, gs, ts[i])
  /\ \A x \in DOMAIN m[s].inline :
       \E i \in 1..k : StyleOf(ts[i].type) = "inline" /\ x = ts[i].start
  /\ \A x \in DOMAIN m[s].outline :
       \E i \in 1..k : StyleOf(ts[i].type) = "outline" /\ x = ts[i].start

LEMMA TreeStores ==
  ASSUME NEW tree, NEW y, NEW a
  PROVE  /\ \A x : x \in DOMAIN StoreInTree(tree, y, a) <=> x \in DOMAIN tree \/ x = y
         /\ \A x \in DOMAIN tree : StoreInTree(tree, y, a)[x] = tree[x]
         /\ y \notin DOMAIN tree => StoreInTree(tree, y, a)[y] = a
<1>1. CASE y \in DOMAIN tree  BY <1>1 DEF StoreInTree
<1>2. CASE y \notin DOMAIN tree  BY <1>2 DEF StoreInTree, Put
<1> QED  BY <1>1, <1>2

LEMMA PutInHash ==
  ASSUME NEW f, NEW y, NEW a
  PROVE  /\ \A x : x \in DOMAIN Put(f, y, a) <=> x \in DOMAIN f \/ x = y
         /\ \A x \in DOMAIN f : x # y => Put(f, y, a)[x] = f[x]
         /\ Put(f, y, a)[y] = a
  BY DEF Put

LEMMA ElementsSame ==
  ASSUME NEW m, NEW n, NEW g, NEW name, NEW k, HasElements(m, g, name, k),
         \A x \in GrammarBlocks(m, g) : n[x] = m[x]
  PROVE  HasElements(n, g, name, k)
<1>1. n[g] = m[g] /\ \A x \in Listed(m[g].elements) : n[x] = m[x]  BY DEF GrammarBlocks
<1>2. ASSUME NEW i \in 1..k
      PROVE  LET a == n[g].elements[NameOf(Symbols[name][i])]
             IN n[a] = m[a]
  <2>1. NameOf(Symbols[name][i]) \in DOMAIN m[g].elements  BY DEF HasElements
  <2>2. m[g].elements[NameOf(Symbols[name][i])] \in Listed(m[g].elements)  BY <2>1 DEF Listed
  <2> QED  BY <1>1, <2>2
<1>3. \A i \in 1..k :
        LET e == Symbols[name][i]
            a == n[g].elements[NameOf(e)]
        IN /\ n[a] = NewElement(e.type, e.start, g)
           /\ e.start # None => n[g].operators[e.start] = a
  BY <1>1, <1>2 DEF HasElements
<1> QED  BY <1>1, <1>3 DEF HasElements

\* What an element adds to memory.
LEMMA AddedFacts ==
  ASSUME NEW m, IsHeap(m), HasRoom(m), NEW g, IsGrammar(m, g), NEW e, NEW n, NEW a,
         a = NextFree(m), n = Added(m, g, e, a)
  PROVE  /\ a \in Heap /\ a \notin Used(m) /\ a # g
         /\ \A x \in Used(m) : x # g => n[x] = m[x]
         /\ n[a] = NewElement(e.type, e.start, g)
         /\ n[g].kind = "grammar" /\ n[g].name = m[g].name
         /\ n[g].elements = Put(m[g].elements, NameOf(e), a)
         /\ n[g].operators = IF e.start = None THEN m[g].operators
                             ELSE StoreInTree(m[g].operators, e.start, a)
<1>1. a \in Heap /\ m[a] = Unallocated /\ a \notin Used(m)  BY NextIsApart
<1>2. g \in Heap /\ m[g].kind = "grammar"  BY DEF IsGrammar
<1>3. a # g  BY <1>1, <1>2 DEF Unallocated
<1>4. PICK v : v = NewElement(e.type, e.start, g)  OBVIOUS
<1>5. PICK w : w = [m[g] EXCEPT
                      !.operators = IF e.start = None THEN @ ELSE StoreInTree(@, e.start, a),
                      !.elements = Put(@, NameOf(e), a)]
  OBVIOUS
<1>6. PICK n1 : n1 = Put(m, a, v)  OBVIOUS
<1>7. n = Put(n1, g, w)  BY <1>4, <1>5, <1>6 DEF Added
<1>8. IsHeap(n1) /\ n1[a] = v /\ \A x \in Heap : x # a => n1[x] = m[x]  BY <1>1, <1>6, PutFacts
<1>9. n[g] = w /\ \A x \in Heap : x # g => n[x] = n1[x]  BY <1>2, <1>7, <1>8, PutFacts
<1>10. n[a] = v  BY <1>1, <1>3, <1>8, <1>9
<1>11. \A x \in Used(m) : x # g => n[x] = m[x]  BY <1>1, <1>8, <1>9 DEF Used
<1>12. /\ w.kind = "grammar" /\ w.name = m[g].name
       /\ w.elements = Put(m[g].elements, NameOf(e), a)
       /\ w.operators = IF e.start = None THEN m[g].operators
                        ELSE StoreInTree(m[g].operators, e.start, a)
  BY <1>2, <1>5 DEF IsGrammar
<1> QED  BY <1>1, <1>3, <1>4, <1>9, <1>10, <1>11, <1>12

\* The block a holds a tag, and the set of tags s has it.
TagIsIn(m, n, s, tag, a) ==
  /\ a \in Heap /\ a \notin Used(m) /\ a # s
  /\ \A x \in Used(m) : x # s => n[x] = m[x]
  /\ n[a].kind = tag.kind /\ n[a].name = tag.name /\ n[a].grammar = tag.grammar
  /\ n[a].scanner = tag.scanner /\ n[a].tagset = s
  /\ n[s].tags = Put(m[s].tags, tag.name, a)
  /\ n[s].inline = IF tag.style = "inline" THEN StoreInTree(m[s].inline, tag.start, a)
                     ELSE m[s].inline
  /\ n[s].outline = IF tag.style = "outline" THEN StoreInTree(m[s].outline, tag.start, a)
                      ELSE m[s].outline

LEMMA TagAddedFacts ==
  ASSUME NEW m, IsHeap(m), HasRoom(m), NEW s, IsTagset(m, s), NEW tag, NEW n, NEW a,
         DOMAIN tag = {"kind", "type", "name", "start", "grammar", "style", "scanner", "tagset"},
         a = NextFree(m), n = TagAdded(m, s, tag, a)
  PROVE  TagIsIn(m, n, s, tag, a)
<1>1. a \in Heap /\ m[a] = Unallocated /\ a \notin Used(m)  BY NextIsApart
<1>2. s \in Heap /\ m[s].kind = "tagset"  BY DEF IsTagset
<1>3. a # s  BY <1>1, <1>2 DEF Unallocated
<1>4. PICK v : v = [tag EXCEPT !.tagset = s]  OBVIOUS
<1>5. PICK w :
        w = [m[s] EXCEPT
              !.tags = Put(@, tag.name, a),
              !.inline = IF tag.style = "inline" THEN StoreInTree(@, tag.start, a) ELSE @,
              !.outline = IF tag.style = "outline" THEN StoreInTree(@, tag.start, a) ELSE @,
              !.unplugged = IF tag.style = "unplugged" THEN a ELSE @]
  OBVIOUS
<1>6. PICK n1 : n1 = Put(m, a, v)  OBVIOUS
<1>7. n = Put(n1, s, w)  BY <1>4, <1>5, <1>6 DEF TagAdded
<1>8. IsHeap(n1) /\ n1[a] = v /\ \A x \in Heap : x # a => n1[x] = m[x]  BY <1>1, <1>6, PutFacts
<1>9. n[s] = w /\ \A x \in Heap : x # s => n[x] = n1[x]  BY <1>2, <1>7, <1>8, PutFacts
<1>10. n[a] = v  BY <1>1, <1>3, <1>8, <1>9
<1>11. \A x \in Used(m) : x # s => n[x] = m[x]  BY <1>1, <1>8, <1>9 DEF Used
<1>12. /\ w.tags = Put(m[s].tags, tag.name, a)
       /\ w.inline = IF tag.style = "inline" THEN StoreInTree(m[s].inline, tag.start, a)
                     ELSE m[s].inline
       /\ w.outline = IF tag.style = "outline" THEN StoreInTree(m[s].outline, tag.start, a)
                      ELSE m[s].outline
  BY <1>2, <1>5 DEF IsTagset
<1>13. /\ v.kind = tag.kind /\ v.name = tag.name /\ v.grammar = tag.grammar
       /\ v.scanner = tag.scanner /\ v.tagset = s
  BY <1>4
<1> QED  BY <1>1, <1>3, <1>9, <1>10, <1>11, <1>12, <1>13 DEF TagIsIn

\* The elements of a grammar are the first k of a list.
ElementsFound(m, g, name, s, k) ==
  /\ m[g].kind = "grammar" /\ m[g].name = name
  /\ \A x : x \in DOMAIN m[g].elements <=> \E i \in 1..k : x = NameOf(s[i])
  /\ \A x : x \in DOMAIN m[g].operators <=> x # None /\ \E i \in 1..k : x = s[i].start
  /\ \A i \in 1..k :
       LET e == s[i]
           a == m[g].elements[NameOf(e)]
       IN /\ m[a] = NewElement(e.type, e.start, g)
          /\ e.start # None => m[g].operators[e.start] = a

LEMMA FoundElements ==
  ASSUME NEW m, NEW g, NEW name, NEW k, ElementsFound(m, g, name, Symbols[name], k)
  PROVE  HasElements(m, g, name, k)
  BY DEF HasElements, ElementsFound

\* hemp_grammar_add_element() adds an element whose name is new, and then its start is new
\* to the tree.
LEMMA ElementsAdded ==
  ASSUME NEW m, IsHeap(m), HasRoom(m), NEW g, IsGrammar(m, g), NEW name, NEW k \in Nat,
         HasElements(m, g, name, k), NEW e, e = Symbols[name][k + 1],
         NameOf(e) \notin DOMAIN m[g].elements, NEW n, n = Added(m, g, e, NextFree(m))
  PROVE  HasElements(n, g, name, k + 1)
<1>1. PICK a : a = NextFree(m)  OBVIOUS
<1>2. n = Added(m, g, e, a)  BY <1>1
<1>3. /\ a \in Heap /\ a \notin Used(m) /\ a # g
      /\ \A x \in Used(m) : x # g => n[x] = m[x]
      /\ n[a] = NewElement(e.type, e.start, g)
      /\ n[g].kind = "grammar" /\ n[g].name = m[g].name
      /\ n[g].elements = Put(m[g].elements, NameOf(e), a)
      /\ n[g].operators = IF e.start = None THEN m[g].operators
                          ELSE StoreInTree(m[g].operators, e.start, a)
  BY <1>1, <1>2, AddedFacts
<1>4. \A i : i \in 1..(k + 1) <=> i \in 1..k \/ i = k + 1  OBVIOUS
<1>5. PICK s : s = Symbols[name]  OBVIOUS
<1>6. e = s[k + 1]  BY <1>5
<1>7. /\ m[g].kind = "grammar" /\ m[g].name = name
      /\ \A x : x \in DOMAIN m[g].elements <=> \E i \in 1..k : x = NameOf(s[i])
      /\ \A x : x \in DOMAIN m[g].operators <=> x # None /\ \E i \in 1..k : x = s[i].start
      /\ \A i \in 1..k : /\ m[m[g].elements[NameOf(s[i])]] = NewElement(s[i].type, s[i].start, g)
                         /\ s[i].start # None
                              => m[g].operators[s[i].start] = m[g].elements[NameOf(s[i])]
  BY <1>5 DEF HasElements
<1>8. /\ \A x : x \in DOMAIN n[g].elements <=> x \in DOMAIN m[g].elements \/ x = NameOf(e)
      /\ \A x \in DOMAIN m[g].elements : x # NameOf(e) => n[g].elements[x] = m[g].elements[x]
      /\ n[g].elements[NameOf(e)] = a
  BY <1>3, PutInHash
<1>9. e.start # None => e.start \notin DOMAIN m[g].operators
  <2> SUFFICES ASSUME e.start # None, e.start \in DOMAIN m[g].operators  PROVE FALSE
    OBVIOUS
  <2>1. PICK i \in 1..k : e.start = s[i].start  BY <1>7
  <2>2. NameOf(s[i]) = NameOf(e)  BY <2>1 DEF NameOf
  <2>3. NameOf(e) \in DOMAIN m[g].elements  BY <1>7, <2>2
  <2> QED  BY <2>3
<1>10. /\ \A x : x \in DOMAIN n[g].operators
                 <=> x \in DOMAIN m[g].operators \/ (x = e.start /\ e.start # None)
       /\ \A x \in DOMAIN m[g].operators : n[g].operators[x] = m[g].operators[x]
       /\ e.start # None => n[g].operators[e.start] = a
  <2>1. CASE e.start = None  BY <1>3, <2>1
  <2>2. CASE e.start # None
    <3>1. n[g].operators = StoreInTree(m[g].operators, e.start, a)  BY <1>3, <2>2
    <3>2. \A x : x \in DOMAIN n[g].operators <=> x \in DOMAIN m[g].operators \/ x = e.start
      BY <3>1, TreeStores
    <3>3. \A x \in DOMAIN m[g].operators : n[g].operators[x] = m[g].operators[x]
      BY <3>1, TreeStores
    <3>4. n[g].operators[e.start] = a  BY <1>9, <2>2, <3>1, TreeStores
    <3> QED  BY <2>2, <3>2, <3>3, <3>4
  <2> QED  BY <2>1, <2>2
<1>11. \A x : x \in DOMAIN n[g].elements <=> \E i \in 1..(k + 1) : x = NameOf(s[i])
  BY <1>4, <1>6, <1>7, <1>8
<1>12. \A x : x \in DOMAIN n[g].operators <=> x # None /\ \E i \in 1..(k + 1) : x = s[i].start
  BY <1>4, <1>6, <1>7, <1>10
<1>13. ASSUME NEW i \in 1..(k + 1)
       PROVE  /\ n[n[g].elements[NameOf(s[i])]] = NewElement(s[i].type, s[i].start, g)
              /\ s[i].start # None
                   => n[g].operators[s[i].start] = n[g].elements[NameOf(s[i])]
  <2>1. CASE i \in 1..k
    <3>1. NameOf(s[i]) \in DOMAIN m[g].elements  BY <1>7, <2>1
    <3>2. n[g].elements[NameOf(s[i])] = m[g].elements[NameOf(s[i])]  BY <1>8, <3>1
    <3>3. PICK b : b = m[g].elements[NameOf(s[i])]  OBVIOUS
    <3>4. b \in Listed(m[g].elements)  BY <3>1, <3>3 DEF Listed
    <3>5. b \in Heap /\ m[b].kind = "element"  BY <3>4 DEF IsGrammar
    <3>6. b \in Used(m) /\ b # g  BY <1>7, <3>5 DEF Used, Unallocated
    <3>7. n[b] = m[b]  BY <1>3, <3>6
    <3>8. s[i].start # None => s[i].start \in DOMAIN m[g].operators  BY <1>7, <2>1
    <3>9. s[i].start # None => n[g].operators[s[i].start] = b  BY <1>7, <1>10, <2>1, <3>3, <3>8
    <3>10. n[b] = NewElement(s[i].type, s[i].start, g)  BY <1>7, <2>1, <3>3, <3>7
    <3> QED  BY <3>2, <3>3, <3>9, <3>10
  <2>2. CASE i = k + 1  BY <1>3, <1>6, <1>8, <1>10, <2>2
  <2> QED  BY <1>4, <2>1, <2>2
<1>14. n[g].kind = "grammar" /\ n[g].name = name  BY <1>3, <1>7
<1>15. \A i \in 1..(k + 1) :
        LET x == s[i]
            b == n[g].elements[NameOf(x)]
        IN /\ n[b] = NewElement(x.type, x.start, g)
           /\ x.start # None => n[g].operators[x.start] = b
  BY <1>13
<1>16. ElementsFound(n, g, name, s, k + 1)
  BY <1>11, <1>12, <1>14, <1>15 DEF ElementsFound
<1> QED  BY <1>5, <1>16, FoundElements

\* A tag b that is found under its name, as it was added.
TagFound(m, s, gs, t, b) ==
  /\ t.name \in DOMAIN m[s].tags /\ m[s].tags[t.name] = b
  /\ m[b].kind = "tag" /\ m[b].name = t.name /\ m[b].tagset = s
  /\ t.grammar # 0 => m[b].grammar = gs[t.grammar]
  /\ t.type # "hemp.unplugged" => m[b].scanner # None
  /\ StyleOf(t.type) = "inline" => t.start \in DOMAIN m[s].inline /\ m[s].inline[t.start] = b
  /\ StyleOf(t.type) = "outline" => t.start \in DOMAIN m[s].outline /\ m[s].outline[t.start] = b

LEMMA FoundTag ==
  ASSUME NEW m, NEW s, NEW gs, NEW t, NEW b, TagFound(m, s, gs, t, b)
  PROVE  HasTag(m, s, gs, t)
  BY DEF HasTag, TagFound

\* Each start of a tree is that of a tag, and of the next one too.
LEMMA StartsAdded ==
  ASSUME NEW k \in Nat, NEW ts, NEW t, t = ts[k + 1], NEW style, NEW D, NEW E,
         \A x \in D : \E i \in 1..k : StyleOf(ts[i].type) = style /\ x = ts[i].start,
         \A x \in E : x \in D \/ (StyleOf(t.type) = style /\ x = t.start)
  PROVE  \A x \in E : \E i \in 1..(k + 1) : StyleOf(ts[i].type) = style /\ x = ts[i].start
<1>1. \A i : i \in 1..(k + 1) <=> i \in 1..k \/ i = k + 1  OBVIOUS
<1>2. SUFFICES ASSUME NEW x \in E
               PROVE  \E i \in 1..(k + 1) : StyleOf(ts[i].type) = style /\ x = ts[i].start
  OBVIOUS
<1>3. CASE x \in D
  <2>1. PICK i \in 1..k : StyleOf(ts[i].type) = style /\ x = ts[i].start  BY <1>3
  <2> QED  BY <1>1, <2>1
<1>4. CASE x \notin D
  <2>1. StyleOf(ts[k + 1].type) = style /\ x = ts[k + 1].start  BY <1>4
  <2> QED  BY <1>1, <2>1
<1> QED  BY <1>3, <1>4

\* hemp_tagset_add_tag() adds a tag whose name is new and whose start is new to its tree.
LEMMA TagsAdded ==
  ASSUME NEW m, IsHeap(m), HasRoom(m), NEW s, IsTagset(m, s), NEW gs, NEW ts, NEW k \in Nat,
         HasTags(m, s, gs, ts, k), NEW t, t = ts[k + 1], t.type \in TagTypes,
         t.name \notin DOMAIN m[s].tags,
         StyleOf(t.type) # "unplugged" =>
           \A i \in 1..k : StyleOf(ts[i].type) = StyleOf(t.type) => ts[i].start # t.start,
         NEW tag, NEW grammar, tag = Constructed(NewTag(t.type, t.name, t.start, grammar)),
         t.grammar # 0 => grammar = gs[t.grammar],
         NEW n, n = TagAdded(m, s, tag, NextFree(m))
  PROVE  HasTags(n, s, gs, ts, k + 1)
<1>1. PICK a : a = NextFree(m)  OBVIOUS
<1>2. /\ DOMAIN tag = {"kind", "type", "name", "start", "grammar", "style", "scanner", "tagset"}
      /\ tag.kind = "tag" /\ tag.name = t.name /\ tag.start = t.start /\ tag.grammar = grammar
      /\ tag.style = StyleOf(t.type)
      /\ t.type # "hemp.unplugged" => tag.scanner # None
  BY ConstructedTag DEF StyleOf
<1>3. n = TagAdded(m, s, tag, a)  BY <1>1
<1>0. IsHeap(m) /\ HasRoom(m) /\ IsTagset(m, s)  OBVIOUS
<1>4. /\ a \in Heap /\ a \notin Used(m) /\ a # s
      /\ \A x \in Used(m) : x # s => n[x] = m[x]
      /\ n[a].kind = tag.kind /\ n[a].name = tag.name /\ n[a].grammar = tag.grammar
      /\ n[a].scanner = tag.scanner /\ n[a].tagset = s
      /\ n[s].tags = Put(m[s].tags, tag.name, a)
      /\ n[s].inline = IF tag.style = "inline" THEN StoreInTree(m[s].inline, tag.start, a)
                       ELSE m[s].inline
      /\ n[s].outline = IF tag.style = "outline" THEN StoreInTree(m[s].outline, tag.start, a)
                        ELSE m[s].outline
  <2>1. TagIsIn(m, n, s, tag, a)  BY <1>0, <1>1, <1>2, <1>3, TagAddedFacts
  <2> QED  BY <2>1 DEF TagIsIn
<1>5. \A i : i \in 1..(k + 1) <=> i \in 1..k \/ i = k + 1  OBVIOUS
<1>6. /\ \A i \in 1..k : HasTag(m, s, gs, ts[i])
      /\ \A x \in DOMAIN m[s].inline :
           \E i \in 1..k : StyleOf(ts[i].type) = "inline" /\ x = ts[i].start
      /\ \A x \in DOMAIN m[s].outline :
           \E i \in 1..k : StyleOf(ts[i].type) = "outline" /\ x = ts[i].start
  BY DEF HasTags
<1>7. /\ \A x : x \in DOMAIN n[s].tags <=> x \in DOMAIN m[s].tags \/ x = t.name
      /\ \A x \in DOMAIN m[s].tags : x # t.name => n[s].tags[x] = m[s].tags[x]
      /\ n[s].tags[t.name] = a
  <2>1. PICK f : f = m[s].tags  OBVIOUS
  <2>2. n[s].tags = Put(f, t.name, a)  BY <1>2, <1>4, <2>1
  <2> QED  BY <2>1, <2>2, PutInHash
<1>8. /\ \A x \in DOMAIN m[s].inline : x \in DOMAIN n[s].inline /\ n[s].inline[x] = m[s].inline[x]
      /\ \A x \in DOMAIN n[s].inline :
           x \in DOMAIN m[s].inline \/ (StyleOf(t.type) = "inline" /\ x = t.start)
      /\ StyleOf(t.type) = "inline" => t.start \in DOMAIN n[s].inline /\ n[s].inline[t.start] = a
  <2>1. CASE StyleOf(t.type) # "inline"  BY <1>2, <1>4, <2>1
  <2>2. CASE StyleOf(t.type) = "inline"
    <3>1. t.start \notin DOMAIN m[s].inline  BY <1>6, <2>2
    <3>2. n[s].inline = StoreInTree(m[s].inline, t.start, a)
      BY ZenonT(60), <1>2, <1>4, <2>2
    <3>3. \A x : x \in DOMAIN n[s].inline <=> x \in DOMAIN m[s].inline \/ x = t.start  BY <3>2, TreeStores
    <3>4. \A x \in DOMAIN m[s].inline : n[s].inline[x] = m[s].inline[x]  BY <3>2, TreeStores
    <3>5. n[s].inline[t.start] = a  BY <3>1, <3>2, TreeStores
    <3> QED  BY <2>2, <3>3, <3>4, <3>5
  <2> QED  BY <2>1, <2>2
<1>9. /\ \A x \in DOMAIN m[s].outline : x \in DOMAIN n[s].outline /\ n[s].outline[x] = m[s].outline[x]
      /\ \A x \in DOMAIN n[s].outline :
           x \in DOMAIN m[s].outline \/ (StyleOf(t.type) = "outline" /\ x = t.start)
      /\ StyleOf(t.type) = "outline" => t.start \in DOMAIN n[s].outline /\ n[s].outline[t.start] = a
  <2>1. CASE StyleOf(t.type) # "outline"  BY <1>2, <1>4, <2>1
  <2>2. CASE StyleOf(t.type) = "outline"
    <3>1. t.start \notin DOMAIN m[s].outline  BY <1>6, <2>2
    <3>2. n[s].outline = StoreInTree(m[s].outline, t.start, a)
      BY ZenonT(60), <1>2, <1>4, <2>2
    <3>3. \A x : x \in DOMAIN n[s].outline <=> x \in DOMAIN m[s].outline \/ x = t.start  BY <3>2, TreeStores
    <3>4. \A x \in DOMAIN m[s].outline : n[s].outline[x] = m[s].outline[x]  BY <3>2, TreeStores
    <3>5. n[s].outline[t.start] = a  BY <3>1, <3>2, TreeStores
    <3> QED  BY <2>2, <3>3, <3>4, <3>5
  <2> QED  BY <2>1, <2>2
<1>10. ASSUME NEW i \in 1..k  PROVE HasTag(n, s, gs, ts[i])
  <2>1. PICK u : u = ts[i]  OBVIOUS
  <2>2. PICK b : b = m[s].tags[u.name]  OBVIOUS
  <2>3. /\ u.name \in DOMAIN m[s].tags
        /\ m[b].kind = "tag" /\ m[b].name = u.name /\ m[b].tagset = s
        /\ u.grammar # 0 => m[b].grammar = gs[u.grammar]
        /\ u.type # "hemp.unplugged" => m[b].scanner # None
        /\ StyleOf(u.type) = "inline" => u.start \in DOMAIN m[s].inline /\ m[s].inline[u.start] = b
        /\ StyleOf(u.type) = "outline" => u.start \in DOMAIN m[s].outline /\ m[s].outline[u.start] = b
    BY <1>6, <2>1, <2>2 DEF HasTag
  <2>4. b \in Listed(m[s].tags)  BY <2>2, <2>3 DEF Listed
  <2>5. b \in Heap /\ m[s].kind = "tagset"  BY <2>4 DEF IsTagset
  <2>6. b \in Used(m) /\ b # s  BY <2>3, <2>5 DEF Used, Unallocated
  <2>7. n[b] = m[b]  BY <1>4, <2>6
  <2>8. u.name \in DOMAIN n[s].tags /\ n[s].tags[u.name] = b  BY <1>7, <2>2, <2>3
  <2>9. StyleOf(u.type) = "inline" => u.start \in DOMAIN n[s].inline /\ n[s].inline[u.start] = b
    BY <1>8, <2>3
  <2>10. StyleOf(u.type) = "outline" => u.start \in DOMAIN n[s].outline /\ n[s].outline[u.start] = b
    BY <1>9, <2>3
  <2>11. TagFound(n, s, gs, u, b)  BY <2>3, <2>7, <2>8, <2>9, <2>10 DEF TagFound
  <2> QED  BY <2>1, <2>11, FoundTag
<1>11. HasTag(n, s, gs, t)
  <2>1. t.name \in DOMAIN n[s].tags /\ n[s].tags[t.name] = a  BY <1>7
  <2>2. n[a].kind = "tag" /\ n[a].name = t.name /\ n[a].tagset = s  BY <1>2, <1>4
  <2>3. t.grammar # 0 => n[a].grammar = gs[t.grammar]  BY <1>2, <1>4
  <2>4. t.type # "hemp.unplugged" => n[a].scanner # None  BY <1>2, <1>4
  <2>5. /\ StyleOf(t.type) = "inline" => t.start \in DOMAIN n[s].inline /\ n[s].inline[t.start] = a
        /\ StyleOf(t.type) = "outline"
             => t.start \in DOMAIN n[s].outline /\ n[s].outline[t.start] = a
    BY <1>8, <1>9
  <2>6. TagFound(n, s, gs, t, a)  BY <2>1, <2>2, <2>3, <2>4, <2>5 DEF TagFound
  <2> QED  BY <2>6, FoundTag
<1>12. \A i \in 1..(k + 1) : HasTag(n, s, gs, ts[i])  BY <1>5, <1>10, <1>11
<1>13. \A x \in DOMAIN n[s].inline :
         \E i \in 1..(k + 1) : StyleOf(ts[i].type) = "inline" /\ x = ts[i].start
  <2>1. PICK d, e : d = DOMAIN m[s].inline /\ e = DOMAIN n[s].inline  OBVIOUS
  <2>2. \A x \in d : \E i \in 1..k : StyleOf(ts[i].type) = "inline" /\ x = ts[i].start  BY <1>6, <2>1
  <2>3. \A x \in e : x \in d \/ (StyleOf(t.type) = "inline" /\ x = t.start)  BY <1>8, <2>1
  <2> QED  BY <2>1, <2>2, <2>3, StartsAdded
<1>14. \A x \in DOMAIN n[s].outline :
         \E i \in 1..(k + 1) : StyleOf(ts[i].type) = "outline" /\ x = ts[i].start
  <2>1. PICK d, e : d = DOMAIN m[s].outline /\ e = DOMAIN n[s].outline  OBVIOUS
  <2>2. \A x \in d : \E i \in 1..k : StyleOf(ts[i].type) = "outline" /\ x = ts[i].start  BY <1>6, <2>1
  <2>3. \A x \in e : x \in d \/ (StyleOf(t.type) = "outline" /\ x = t.start)  BY <1>9, <2>1
  <2> QED  BY <2>1, <2>2, <2>3, StartsAdded
<1> QED  BY <1>12, <1>13, <1>14 DEF HasTags

\* A set without tags yet, whatever the grammars are.
LEMMA NoTagsYet ==
  ASSUME NEW m, NEW n, NEW s, NEW gs, NEW hs, NEW ts, HasTags(m, s, gs, ts, 0), n[s] = m[s]
  PROVE  HasTags(n, s, hs, ts, 0)
<1>1. 1..0 = {}  OBVIOUS
<1> QED  BY <1>1 DEF HasTags

-----------------------------------------------------------------------------
(***************************************************************************)
(* The factory's grammars are whole, the one that is made is so far, and   *)
(* so are the scan's grammars and tags.                                    *)
(***************************************************************************)
Made == \A name \in DOMAIN instances : HasElements(memory, instances[name], name, Len(Symbols[name]))

InMaking ==
  making # NoMaking =>
    /\ making.next - 1 <= Len(ToMake)
    /\ HasElements(memory, making.grammar, making.name, making.next - 1)

Given ==
  Scanning =>
    \A i \in 1..Len(scan.grammars) :
      Asked[i] \in DOMAIN instances /\ scan.grammars[i] = instances[Asked[i]]

InScan ==
  Scanning =>
    /\ scan.added # 0 => AllAsked
    /\ scan.tagset # NoBlock => HasTags(memory, scan.tagset, scan.grammars, ToAdd, scan.added)

Whole == Made /\ InMaking /\ Given /\ InScan

OfGrammars == {a \in Used(memory) : memory[a].kind \in {"grammar", "element"}}

LEMMA MadeKept ==
  ASSUME Invariant, Made, state # "ended", UNCHANGED instances,
         \A x \in OfGrammars : \/ memory'[x] = memory[x]
                             \/ (memory[x].kind = "grammar" /\ x \notin Listed(instances))
  PROVE  Made'
<1>1. Accounted(memory, Grammars, TagSet, Chain, lost)  BY DEF Invariant, Counted
<1>2. ASSUME NEW name \in DOMAIN instances
      PROVE  HasElements(memory', instances[name], name, Len(Symbols[name]))
  <2>1. PICK h : h = instances[name]  OBVIOUS
  <2>2. h \in Listed(instances)  BY <2>1 DEF Listed
  <2>3. IsGrammar(memory, h)  BY <1>1, <2>2 DEF Accounted, Known, Grammars
  <2>4. ASSUME NEW x \in GrammarBlocks(memory, h)  PROVE memory'[x] = memory[x]
    <3>1. x \in Used(memory) /\ memory[x].kind \in {"grammar", "element"}  BY <2>3, GrammarOwns
    <3>2. memory[x].kind = "grammar" => x = h
      <4> SUFFICES ASSUME x # h  PROVE memory[x].kind = "element"
        OBVIOUS
      <4> QED  BY <2>3, GrammarOwns
    <3> QED  BY <2>2, <3>1, <3>2 DEF OfGrammars
  <2>5. PICK k : k = Len(Symbols[name])  OBVIOUS
  <2>6. HasElements(memory, h, name, k)  BY <2>1, <2>5 DEF Made
  <2>7. PICK m, n : m = memory /\ n = memory'  OBVIOUS
  <2>8. HasElements(n, h, name, k)  BY <2>4, <2>6, <2>7, ElementsSame
  <2> QED  BY <2>1, <2>5, <2>7, <2>8
<1> QED  BY <1>2 DEF Made

LEMMA Over_Whole ==
  ASSUME Invariant, Whole, state # "ended", UNCHANGED instances,
         scan' = NoScan, making' = NoMaking,
         \A x \in OfGrammars : memory'[x] = memory[x]
  PROVE  Whole'
<1>1. Made'  BY MadeKept DEF Whole
<1>2. InMaking' /\ Given' /\ InScan'  BY DEF InMaking, Given, InScan, Scanning
<1> QED  BY <1>1, <1>2 DEF Whole

LEMMA Thrown_Whole ==
  ASSUME Invariant, Whole, state # "ended", UNCHANGED instances,
         NEW m, NEW number, NEW left, Throw(m, number, left), IsHeap(m), HasRoom(m),
         \A x \in Used(memory) : m[x] = memory[x]
  PROVE  Whole'
<1>1. memory' = WithError(m, number) /\ scan' = NoScan /\ making' = NoMaking  BY DEF Throw, Unwind
<1>2. \A x \in Used(m) : WithError(m, number)[x] = m[x]  BY NewError_Keeps
<1>3. \A x \in Used(memory) : x \in Used(m)  BY DEF Used
<1>4. \A x \in OfGrammars : memory'[x] = memory[x]  BY <1>1, <1>2, <1>3 DEF OfGrammars
<1> QED  BY <1>1, <1>4, Over_Whole

\* Where the grammars and the tags stay what they are.
LEMMA Same_Whole ==
  ASSUME Whole, UNCHANGED <<memory, instances, scan, making>>
  PROVE  Whole'
<1>1. Made' /\ InMaking'  BY DEF Whole, Made, InMaking, ToMake
<1>2. Given' /\ InScan'  BY DEF Whole, Given, InScan, Scanning, Asked, ToAdd, AllAsked
<1> QED  BY <1>1, <1>2 DEF Whole

LEMMA BeginScan_Whole ==
  ASSUME Invariant, Room, Whole, NEW d \in DOMAIN Dialects, BeginScan(d)
  PROVE  Whole'
<1>1. Shapes /\ Pace /\ Counted  BY DEF Invariant
<1>2. /\ state = "running" /\ scan = NoScan /\ making = NoMaking
      /\ UNCHANGED <<instances, making>>
  BY <1>1 DEF BeginScan, Pace, Scanning
<1>3. PICK new : new = [dialect |-> d, tagset |-> NoBlock, grammars |-> <<>>, added |-> 0]
  OBVIOUS
<1>4. HasRoom(memory) /\ IsHeap(memory)  BY <1>1, RoomForOne DEF Room, Shapes, Kindly
<1>5. FirstFree \in Heap /\ FirstFree # NoBlock  BY <1>4, NextIsApart, HeapFacts DEF FirstFree
<1>6. Made /\ InMaking /\ Given /\ InScan  BY DEF Whole
<1>7. Len(<<>>) = 0 /\ 1..0 = {}  OBVIOUS
<1>8. InMaking'  BY <1>2 DEF InMaking
<1>9. CASE Dialects[d].tagged
  <2>1. scan' = [new EXCEPT !.tagset = FirstFree] /\ memory' = Put(memory, FirstFree, NewTagset)
    BY <1>3, <1>9 DEF BeginScan
  <2>2. scan'.tagset = FirstFree /\ scan'.grammars = <<>> /\ scan'.added = 0
    BY <1>3, <2>1
  <2>3. NewTagset # Unallocated /\ NewTagset.inline = << >> /\ NewTagset.outline = << >>
    BY DEF NewTagset, Unallocated
  <2>4. \A x \in Used(memory) : memory'[x] = memory[x]
    BY <1>4, <2>1, <2>3, NewBlock_Keeps DEF FirstFree
  <2>5. Made'  BY <1>2, <1>6, <2>4, MadeKept DEF OfGrammars
  <2>6. memory'[FirstFree] = NewTagset  BY <1>4, <1>5, <2>1, PutFacts
  <2>7. HasTags(memory', FirstFree, <<>>, ToAdd', 0)
    BY <1>7, <2>3, <2>6 DEF HasTags
  <2>8. Given'  BY <1>7, <2>2 DEF Given
  <2>9. InScan'  BY <2>2, <2>7 DEF InScan
  <2> QED  BY <1>8, <2>5, <2>8, <2>9 DEF Whole
<1>10. CASE ~Dialects[d].tagged
  <2>1. scan' = new /\ UNCHANGED memory  BY <1>3, <1>10 DEF BeginScan
  <2>2. scan'.tagset = NoBlock /\ scan'.grammars = <<>> /\ scan'.added = 0
    BY <1>3, <2>1
  <2>3. Made'  BY <1>2, <1>6, <2>1 DEF Made
  <2>4. Given'  BY <1>7, <2>2 DEF Given
  <2>5. InScan'  BY <2>2 DEF InScan
  <2> QED  BY <1>8, <2>3, <2>4, <2>5 DEF Whole
<1> QED  BY <1>9, <1>10

LEMMA AskGrammar_Whole ==
  ASSUME Invariant, Room, Whole, AskGrammar
  PROVE  Whole'
<1>1. Made /\ InMaking /\ Given /\ InScan  BY DEF Whole
<1>2. Scanning /\ ~AllAsked /\ making = NoMaking /\ UNCHANGED instances  BY DEF AskGrammar
<1>3. /\ state = "running" /\ scan \in Scans /\ IsHeap(memory)
      /\ Accounted(memory, Listed(instances), scan.tagset, Chain, lost)
  BY <1>2, ScanningFacts
<1>4. /\ scan.grammars \in Seq(Heap) /\ Len(scan.grammars) \in Nat
      /\ Asked \in Seq(DOMAIN Symbols) /\ Len(Asked) \in Nat /\ NextGrammar \in DOMAIN Symbols
  BY <1>2, ScanPace
<1>5. HasRoom(memory)  BY RoomForOne DEF Room
<1>6. FirstFree \in Heap /\ FirstFree \notin Used(memory)  BY <1>5, NextIsApart DEF FirstFree
<1>7. scan.added = 0  BY <1>1, <1>2 DEF InScan
<1>8. CASE /\ NextGrammar \in DOMAIN instances
           /\ scan' = [scan EXCEPT !.grammars = Append(@, instances[NextGrammar])]
           /\ UNCHANGED <<memory, making, errors, lost>>
  <2>1. PICK g : g = instances[NextGrammar]  OBVIOUS
  <2>2. PICK gs : gs = Append(scan.grammars, g)  OBVIOUS
  <2>3. /\ scan'.dialect = scan.dialect /\ scan'.tagset = scan.tagset
        /\ scan'.added = 0 /\ scan'.grammars = gs
    BY <1>3, <1>7, <1>8, <2>1, <2>2 DEF Scans
  <2>4. Len(gs) = Len(scan.grammars) + 1 /\ gs[Len(scan.grammars) + 1] = g
        /\ \A i \in 1..Len(scan.grammars) : gs[i] = scan.grammars[i]
    BY <1>4, <2>2
  <2>5. Asked' = Asked /\ ToAdd' = ToAdd  BY <2>3 DEF Asked, ToAdd
  <2>6. Made' /\ InMaking'  BY <1>1, <1>2, <1>8 DEF Made, InMaking
  <2>7. Given'
    <3>1. \A i \in 1..Len(gs) : i \in 1..Len(scan.grammars) \/ i = Len(scan.grammars) + 1
      BY <1>4, <2>4
    <3>2. Asked[Len(scan.grammars) + 1] \in DOMAIN instances
          /\ g = instances[Asked[Len(scan.grammars) + 1]]
      BY <1>8, <2>1 DEF NextGrammar
    <3>3. \A i \in 1..Len(gs) : Asked[i] \in DOMAIN instances /\ gs[i] = instances[Asked[i]]
      BY <1>1, <1>2, <2>4, <3>1, <3>2 DEF Given
    <3> QED  BY <1>2, <2>3, <2>5, <3>3 DEF Given
  <2>8. InScan'
    <3>1. ASSUME scan.tagset # NoBlock
          PROVE  HasTags(memory', scan.tagset, gs, ToAdd, 0)
      BY <1>1, <1>2, <1>7, <1>8, <3>1, NoTagsYet DEF InScan
    <3> QED  BY <2>3, <2>5, <3>1 DEF InScan
  <2> QED  BY <2>6, <2>7, <2>8 DEF Whole
<1>9. CASE /\ NextGrammar \notin DOMAIN instances
           /\ memory' = Put(memory, FirstFree, NewGrammar(NextGrammar))
           /\ making' = [name |-> NextGrammar, grammar |-> FirstFree, next |-> 1]
           /\ UNCHANGED <<scan, errors, lost>>
  <2>1. PICK v : v = NewGrammar(NextGrammar)  OBVIOUS
  <2>2. /\ v.kind = "grammar" /\ v.name = NextGrammar /\ v.elements = << >>
        /\ v.operators = << >> /\ v # Unallocated
    BY <2>1 DEF NewGrammar, Unallocated
  <2>3. \A x \in Used(memory) : memory'[x] = memory[x]
    BY <1>3, <1>5, <1>9, <2>1, <2>2, NewBlock_Keeps DEF FirstFree
  <2>4. memory'[FirstFree] = v  BY <1>3, <1>6, <1>9, <2>1, PutFacts
  <2>5. Made'  BY <1>1, <1>2, <1>3, <2>3, MadeKept DEF OfGrammars
  <2>6. InMaking'
    <3>1. 1..0 = {} /\ 1 - 1 = 0  OBVIOUS
    <3>2. HasElements(memory', FirstFree, NextGrammar, 0)
      BY <2>2, <2>4, <3>1 DEF HasElements
    <3>3. Len(Symbols[NextGrammar]) \in Nat  BY <1>4, TablesAssumption
    <3>4. 0 <= Len(Symbols[NextGrammar])  BY <3>3
    <3>5. making'.name = NextGrammar /\ making'.grammar = FirstFree /\ making'.next - 1 = 0
      BY <1>9, <3>1
    <3> QED  BY <3>2, <3>4, <3>5 DEF InMaking, ToMake
  <2>7. Given'  BY <1>1, <1>2, <1>9 DEF Given, Scanning, Asked
  <2>8. InScan'
    <3>1. ASSUME scan.tagset # NoBlock
          PROVE  HasTags(memory', scan.tagset, scan.grammars, ToAdd, 0)
      <4>1. IsTagset(memory, scan.tagset)  BY <1>3, <3>1 DEF Accounted, Known
      <4>2. scan.tagset \in Used(memory)  BY <4>1 DEF IsTagset, Used, Unallocated
      <4>3. memory'[scan.tagset] = memory[scan.tagset]  BY <2>3, <4>2
      <4> QED  BY <1>1, <1>2, <1>7, <3>1, <4>3, NoTagsYet DEF InScan
    <3> QED  BY <1>7, <1>9, <3>1 DEF InScan, ToAdd
  <2> QED  BY <2>5, <2>6, <2>7, <2>8 DEF Whole
<1>10. CASE Throw(memory, "invalid grammar", TagsetBlocks(memory, scan.tagset))
  BY <1>2, <1>3, <1>5, <1>10, Thrown_Whole
<1> QED  BY <1>8, <1>9, <1>10 DEF AskGrammar

LEMMA AddElement_Whole ==
  ASSUME Invariant, Room, Whole, AddElement
  PROVE  Whole'
<1>1. Made /\ InMaking /\ Given /\ InScan  BY DEF Whole
<1>2. /\ making # NoMaking /\ making.next <= Len(ToMake) /\ UNCHANGED instances
  BY DEF AddElement
<1>3. Scanning /\ ~AllAsked  BY <1>2 DEF Invariant, Pace
<1>4. /\ state = "running" /\ IsHeap(memory)
      /\ making \in Makings /\ making.grammar \notin Listed(instances)
      /\ Accounted(memory, Listed(instances) \union {making.grammar}, scan.tagset, Chain, lost)
  BY <1>2, <1>3, ScanningFacts
<1>5. HasRoom(memory)  BY RoomForOne DEF Room
<1>6. FirstFree \in Heap  BY <1>5, NextIsApart DEF FirstFree
<1>7. scan.added = 0  BY <1>1, <1>3 DEF InScan
<1>8. PICK e : e = ToMake[making.next]  OBVIOUS
<1>9. PICK g : g = making.grammar  OBVIOUS
<1>10. IsGrammar(memory, g)  BY <1>4, <1>9 DEF Accounted, Known
<1>11. CASE \/ Throw(memory, "duplicate element", LeftInMaking)
            \/ Throw(memory, "invalid element", LeftInMaking)
  BY <1>2, <1>4, <1>5, <1>11, Thrown_Whole
<1>12. CASE Throw(Put(memory, FirstFree, NewElement(e.type, e.start, NoBlock)), "invalid element",
                  LeftInMaking \union {FirstFree})
  <2>1. PICK v : v = NewElement(e.type, e.start, NoBlock)  OBVIOUS
  <2>2. v # Unallocated  BY <2>1 DEF NewElement, Unallocated
  <2>3. PICK n : n = Put(memory, FirstFree, v)  OBVIOUS
  <2>4. IsHeap(n)  BY <1>4, <1>6, <2>3, PutFacts
  <2>5. HasRoom(n)  BY <1>4, <1>6, <2>3, RoomFacts DEF Room
  <2>6. \A x \in Used(memory) : n[x] = memory[x]
    BY <1>4, <1>5, <2>2, <2>3, NewBlock_Keeps DEF FirstFree
  <2>7. PICK left : left = LeftInMaking \union {FirstFree}  OBVIOUS
  <2>8. Throw(n, "invalid element", left)  BY <1>12, <2>1, <2>3, <2>7
  <2> QED  BY <1>2, <1>4, <2>4, <2>5, <2>6, <2>8, Thrown_Whole
<1>13. CASE /\ NameOf(e) \notin DOMAIN memory[making.grammar].elements
            /\ memory' = Added(memory, making.grammar, e, FirstFree)
            /\ making' = [making EXCEPT !.next = @ + 1]
            /\ UNCHANGED <<scan, errors, lost>>
  <2>1. PICK k : k = making.next - 1  OBVIOUS
  <2>2. PICK name : name = making.name  OBVIOUS
  <2>3. making.next \in Nat \ {0} /\ name \in DOMAIN Symbols  BY <1>4, <2>2 DEF Makings
  <2>4. k \in Nat /\ making.next = k + 1 /\ making.next + 1 - 1 = k + 1  BY <2>1, <2>3
  <2>5. /\ making'.name = name /\ making'.grammar = g /\ making'.next - 1 = k + 1
    BY <1>4, <1>9, <1>13, <2>2, <2>4 DEF Makings
  <2>6. e = Symbols[name][k + 1]  BY <1>8, <2>2, <2>4 DEF ToMake
  <2>7. HasElements(memory, g, name, k)  BY <1>1, <1>2, <1>9, <2>1, <2>2 DEF InMaking
  <2>8. PICK n : n = memory'  OBVIOUS
  <2>9. PICK m : m = memory  OBVIOUS
  <2>10. n = Added(m, g, e, NextFree(m))  BY <1>9, <1>13, <2>8, <2>9 DEF FirstFree
  <2>11. NameOf(e) \notin DOMAIN m[g].elements  BY <1>9, <1>13, <2>9
  <2>12. IsHeap(m) /\ HasRoom(m) /\ IsGrammar(m, g) /\ HasElements(m, g, name, k)
    BY <1>4, <1>5, <1>10, <2>7, <2>9
  <2>13. HasElements(n, g, name, k + 1)
    BY <2>4, <2>6, <2>10, <2>11, <2>12, ElementsAdded
  <2>14. InMaking'
    <3>1. k + 1 <= Len(Symbols[name])  BY <1>2, <2>2, <2>4 DEF ToMake
    <3> QED  BY <2>5, <2>8, <2>13, <3>1 DEF InMaking, ToMake
  <2>15. \A x \in Used(memory) : x # g => memory'[x] = memory[x]
    BY <2>8, <2>9, <2>10, <2>12, AddedFacts
  <2>16. Made'
    <3>1. memory[g].kind = "grammar" /\ g \notin Listed(instances)  BY <1>4, <1>9, <1>10 DEF IsGrammar
    <3> QED  BY <1>1, <1>2, <1>4, <2>15, <3>1, MadeKept DEF OfGrammars
  <2>17. Given'  BY <1>1, <1>2, <1>13 DEF Given, Scanning, Asked
  <2>18. InScan'
    <3>1. ASSUME scan.tagset # NoBlock
          PROVE  HasTags(memory', scan.tagset, scan.grammars, ToAdd, 0)
      <4>1. IsTagset(memory, scan.tagset)  BY <1>4, <3>1 DEF Accounted, Known
      <4>2. scan.tagset \in Used(memory) /\ memory[scan.tagset].kind = "tagset"
        BY <4>1 DEF IsTagset, Used, Unallocated
      <4>3. scan.tagset # g  BY <1>10, <4>2 DEF IsGrammar
      <4>4. memory'[scan.tagset] = memory[scan.tagset]  BY <2>15, <4>2, <4>3
      <4> QED  BY <1>1, <1>3, <1>7, <3>1, <4>4, NoTagsYet DEF InScan
    <3> QED  BY <1>7, <1>13, <3>1 DEF InScan, ToAdd
  <2> QED  BY <2>14, <2>16, <2>17, <2>18 DEF Whole
<1> QED  BY <1>8, <1>11, <1>12, <1>13 DEF AddElement

LEMMA GrammarMade_Whole ==
  ASSUME Invariant, Whole, GrammarMade
  PROVE  Whole'
<1>1. Made /\ InMaking /\ Given /\ InScan  BY DEF Whole
<1>2. /\ making # NoMaking /\ making.next > Len(ToMake)
      /\ instances' = Put(instances, making.name, making.grammar)
      /\ scan' = [scan EXCEPT !.grammars = Append(@, making.grammar)]
      /\ making' = NoMaking
      /\ UNCHANGED memory
  BY DEF GrammarMade
<1>3. Scanning /\ ~AllAsked /\ making.name = NextGrammar /\ making.name \notin DOMAIN instances
  BY <1>2 DEF Invariant, Pace
<1>4. scan \in Scans /\ making \in Makings  BY <1>2, <1>3, ScanningFacts
<1>5. scan.grammars \in Seq(Heap) /\ Len(scan.grammars) \in Nat  BY <1>3, ScanPace
<1>6. scan.added = 0  BY <1>1, <1>3 DEF InScan
<1>7. PICK name, g : name = making.name /\ g = making.grammar  OBVIOUS
<1>8. /\ \A x : x \in DOMAIN instances' <=> x \in DOMAIN instances \/ x = name
      /\ \A x \in DOMAIN instances : instances'[x] = instances[x]
      /\ instances'[name] = g
  BY <1>2, <1>3, <1>7, PutInHash
<1>9. Made'
  <2>1. HasElements(memory, g, name, Len(Symbols[name]))
    <3>1. HasElements(memory, g, name, making.next - 1) /\ making.next - 1 <= Len(Symbols[name])
      BY <1>1, <1>2, <1>7 DEF InMaking, ToMake
    <3>2. making.next \in Nat /\ name \in DOMAIN Symbols /\ making.next > Len(Symbols[name])
      BY <1>2, <1>4, <1>7 DEF Makings, ToMake
    <3>3. Len(Symbols[name]) \in Nat  BY <3>2, TablesAssumption
    <3>4. making.next - 1 = Len(Symbols[name])  BY <3>1, <3>2, <3>3
    <3> QED  BY <3>1, <3>4
  <2> QED  BY <1>1, <1>2, <1>8, <2>1 DEF Made
<1>10. PICK gs : gs = Append(scan.grammars, g)  OBVIOUS
<1>11. /\ scan'.dialect = scan.dialect /\ scan'.tagset = scan.tagset
       /\ scan'.added = 0 /\ scan'.grammars = gs
  BY <1>2, <1>4, <1>6, <1>7, <1>10 DEF Scans
<1>12. g \in Heap  BY <1>4, <1>7 DEF Makings
<1>13. Len(gs) = Len(scan.grammars) + 1 /\ gs[Len(scan.grammars) + 1] = g
       /\ \A i \in 1..Len(scan.grammars) : gs[i] = scan.grammars[i]
  BY <1>5, <1>10, <1>12
<1>14. Asked' = Asked /\ ToAdd' = ToAdd  BY <1>11 DEF Asked, ToAdd
<1>15. InMaking'  BY <1>2 DEF InMaking
<1>16. Given'
  <2>1. \A i \in 1..Len(gs) : i \in 1..Len(scan.grammars) \/ i = Len(scan.grammars) + 1
    BY <1>5, <1>13
  <2>2. Asked[Len(scan.grammars) + 1] = name  BY <1>3, <1>7 DEF NextGrammar
  <2>3. ASSUME NEW i \in 1..Len(gs)
        PROVE  Asked[i] \in DOMAIN instances' /\ gs[i] = instances'[Asked[i]]
    <3>1. CASE i \in 1..Len(scan.grammars)
      <4>1. Asked[i] \in DOMAIN instances /\ scan.grammars[i] = instances[Asked[i]]
        BY <1>1, <1>3, <3>1 DEF Given
      <4> QED  BY <1>8, <1>13, <3>1, <4>1
    <3>2. CASE i = Len(scan.grammars) + 1  BY <1>8, <1>13, <2>2, <3>2
    <3> QED  BY <2>1, <3>1, <3>2
  <2> QED  BY <1>11, <1>14, <2>3 DEF Given
<1>17. InScan'
  <2>1. ASSUME scan.tagset # NoBlock
        PROVE  HasTags(memory', scan.tagset, gs, ToAdd, 0)
    BY <1>1, <1>2, <1>3, <1>6, <2>1, NoTagsYet DEF InScan
  <2> QED  BY <1>11, <1>14, <2>1 DEF InScan
<1> QED  BY <1>9, <1>15, <1>16, <1>17 DEF Whole

LEMMA AddTag_Whole ==
  ASSUME Invariant, Room, Whole, AddTag
  PROVE  Whole'
<1>1. Made /\ InMaking /\ Given /\ InScan  BY DEF Whole
<1>2. AllAsked /\ ~AllAdded /\ making = NoMaking /\ Scanning  BY DEF AddTag, AllAsked
<1>3. /\ state = "running" /\ scan \in Scans /\ IsHeap(memory)
      /\ Accounted(memory, Listed(instances), scan.tagset, Chain, lost)
  BY <1>2, ScanningFacts
<1>4. HasRoom(memory)  BY RoomForOne DEF Room
<1>5. PICK t : t = ToAdd[scan.added + 1]  OBVIOUS
<1>6. PICK tag : tag = Constructed(NewTag(t.type, t.name, t.start, GrammarOf(t)))  OBVIOUS
<1>7. /\ scan.added + 1 \in 1..Len(ToAdd) /\ scan.added \in Nat /\ t.type \in TagTypes
      /\ scan.tagset \in Heap /\ scan.tagset # NoBlock
  BY <1>2, <1>5, NextTag
<1>8. CASE /\ Throw(memory, "invalid tag", TagsetBlocks(memory, scan.tagset))
           /\ UNCHANGED <<instances, known, faults, state>>
  BY <1>3, <1>4, <1>8, Thrown_Whole
<1>9. CASE /\ state' = "ended" /\ scan' = NoScan
           /\ UNCHANGED <<memory, instances, known, making, errors, lost, faults>>
  <2>1. making' = NoMaking  BY <1>2, <1>9
  <2> QED  BY <1>3, <1>9, <2>1, Over_Whole
<1>10. CASE /\ t.name \notin DOMAIN memory[scan.tagset].tags
            /\ memory' = TagAdded(memory, scan.tagset, tag, FirstFree)
            /\ scan' = [scan EXCEPT !.added = @ + 1]
            /\ UNCHANGED <<instances, known, making, errors, lost, faults, state>>
  <2>1. PICK s, gs, ts, k : /\ s = scan.tagset /\ gs = scan.grammars
                            /\ ts = ToAdd /\ k = scan.added
    OBVIOUS
  <2>2. PICK m, n : m = memory /\ n = memory'  OBVIOUS
  <2>3. IsTagset(m, s) /\ IsHeap(m) /\ HasRoom(m)
    BY <1>3, <1>4, <1>7, <2>1, <2>2 DEF Accounted, Known
  <2>4. k \in Nat /\ t = ts[k + 1] /\ k + 1 \in 1..Len(ts)  BY <1>5, <1>7, <2>1
  <2>5. HasTags(m, s, gs, ts, k)  BY <1>1, <1>2, <1>7, <2>1, <2>2 DEF InScan
  <2>6. n = TagAdded(m, s, tag, NextFree(m)) /\ t.name \notin DOMAIN m[s].tags
    BY <1>10, <2>1, <2>2 DEF FirstFree
  <2>7. PICK grammar : grammar = GrammarOf(t)  OBVIOUS
  <2>8. tag = Constructed(NewTag(t.type, t.name, t.start, grammar))  BY <1>6, <2>7
  <2>9. t.grammar # 0 => grammar = gs[t.grammar]  BY <2>1, <2>7 DEF GrammarOf
  <2>10. ASSUME StyleOf(t.type) # "unplugged", NEW i \in 1..k, StyleOf(ts[i].type) = StyleOf(t.type)
         PROVE  ts[i].start # t.start
    <3>1. scan.dialect \in DOMAIN Dialects /\ ts = Dialects[scan.dialect].tags
      BY <1>3, <2>1 DEF Scans, ToAdd
    <3>2. ts \in Seq(Members(ts))  BY <3>1, TablesAssumption
    <3>3. DOMAIN ts = 1..Len(ts) /\ Len(ts) \in Nat  BY <3>2
    <3>4. i \in DOMAIN ts /\ k + 1 \in DOMAIN ts /\ i # k + 1  BY <2>4, <3>3
    <3> QED  BY <2>4, <2>10, <3>1, <3>4, TokensDiffer
  <2>11. HasTags(n, s, gs, ts, k + 1)
    BY <1>7, <2>3, <2>4, <2>5, <2>6, <2>8, <2>9, <2>10, TagsAdded
  <2>12. /\ scan'.dialect = scan.dialect /\ scan'.tagset = s
         /\ scan'.grammars = gs /\ scan'.added = k + 1
    BY <1>3, <1>10, <2>1 DEF Scans
  <2>13. Scanning' /\ Asked' = Asked /\ ToAdd' = ToAdd
    <3>1. scan' \in Scans
      <4>1. scan.added + 1 \in Nat  BY <1>7
      <4> QED  BY <1>3, <1>10, <4>1 DEF Scans
    <3> QED  BY <2>12, <3>1, ScanShape DEF Scanning, Asked, ToAdd
  <2>14. InScan'
    <3>1. AllAsked'  BY <1>2, <2>1, <2>12, <2>13 DEF AllAsked
    <3> QED  BY <2>1, <2>2, <2>11, <2>12, <2>13, <3>1 DEF InScan
  <2>15. Given'  BY <1>1, <1>2, <1>10, <2>1, <2>12, <2>13 DEF Given
  <2>16. InMaking'  BY <1>2, <1>10 DEF InMaking
  <2>17. DOMAIN tag = {"kind", "type", "name", "start", "grammar", "style", "scanner", "tagset"}
    BY <1>7, <2>8, ConstructedTag
  <2>18. \A x \in Used(memory) : x # s => memory'[x] = memory[x]
    <3>1. PICK a : a = NextFree(m)  OBVIOUS
    <3>2. n = TagAdded(m, s, tag, a)  BY <2>6, <3>1
    <3>3. TagIsIn(m, n, s, tag, a)  BY <2>3, <2>17, <3>1, <3>2, TagAddedFacts
    <3>4. \A x \in Used(m) : x # s => n[x] = m[x]  BY <3>3 DEF TagIsIn
    <3> QED  BY <2>2, <3>4
  <2>19. Made'
    <3>1. memory[s].kind = "tagset"  BY <2>2, <2>3 DEF IsTagset
    <3>2. \A x \in OfGrammars : memory'[x] = memory[x]  BY <2>18, <3>1 DEF OfGrammars
    <3> QED  BY <1>1, <1>3, <1>10, <3>2, MadeKept
  <2> QED  BY <2>14, <2>15, <2>16, <2>19 DEF Whole
<1> QED  BY <1>5, <1>6, <1>8, <1>9, <1>10 DEF AddTag

\* The tags that are freed are none of a grammar's blocks.
LEMMA FreeingTags ==
  ASSUME NEW m, NEW n, NEW G, NEW t, NEW E, NEW L, Accounted(m, G, t, E, L),
         \A x \in Used(m) : n[x] = m[x],
         NEW x \in Used(m), m[x].kind \in {"grammar", "element"}
  PROVE  Freeing(n, TagsetBlocks(m, t))[x] = m[x]
<1>1. t # NoBlock => IsTagset(m, t)  BY DEF Accounted, Known
<1>2. x \notin TagsetBlocks(m, t)
  <2> SUFFICES ASSUME x \in TagsetBlocks(m, t)  PROVE FALSE
    OBVIOUS
  <2>1. m[x].kind \in {"tagset", "tag"}  BY <1>1, TagsetOwns
  <2> QED  BY <2>1
<1>3. x \in Heap  BY DEF Used
<1> QED  BY <1>2, <1>3 DEF Freeing

LEMMA ScanDone_Whole ==
  ASSUME Invariant, Whole, ScanDone
  PROVE  Whole'
<1>1. /\ AllAdded /\ memory' = Freeing(memory, TagsetBlocks(memory, scan.tagset))
      /\ scan' = NoScan /\ UNCHANGED <<instances, making>>
  BY DEF ScanDone
<1>2. Scanning /\ making = NoMaking  BY <1>1 DEF Invariant, AllAdded, AllAsked, Pace
<1>3. /\ state = "running"
      /\ Accounted(memory, Listed(instances), scan.tagset, Chain, lost)
  BY <1>2, ScanningFacts
<1>4. \A x \in OfGrammars : memory'[x] = memory[x]
  BY <1>1, <1>3, FreeingTags DEF OfGrammars
<1> QED  BY <1>1, <1>2, <1>3, <1>4, Over_Whole

LEMMA ScanFails_Whole ==
  ASSUME Invariant, Room, Whole, ScanFails
  PROVE  Whole'
<1>1. PICK gone : gone = TagsetBlocks(memory, scan.tagset)  OBVIOUS
<1>2. PICK thrown \in {WithError(memory, "token"), WithLocated(memory, "token")} :
        /\ AllAdded
        /\ memory' = IF Dialects[scan.dialect].guarded THEN Freeing(thrown, gone) ELSE thrown
        /\ scan' = NoScan /\ making' = NoMaking /\ UNCHANGED instances
  BY <1>1 DEF ScanFails, Unwind
<1>3. Scanning /\ making = NoMaking  BY <1>2 DEF Invariant, AllAdded, AllAsked, Pace
<1>4. /\ state = "running" /\ IsHeap(memory)
      /\ Accounted(memory, Listed(instances), scan.tagset, Chain, lost)
  BY <1>3, ScanningFacts
<1>5. HasRoom(memory) /\ HasRoomForTwo(memory)  BY RoomForOne DEF Room
<1>6. \A x \in Used(memory) : thrown[x] = memory[x]
  <2>1. \A x \in Used(memory) : WithError(memory, "token")[x] = memory[x]
    BY <1>4, <1>5, NewError_Keeps
  <2>2. \A x \in Used(memory) : WithLocated(memory, "token")[x] = memory[x]
    BY <1>4, <1>5, LocatedError_Keeps
  <2> QED  BY <1>2, <2>1, <2>2
<1>7. ASSUME NEW x \in OfGrammars  PROVE memory'[x] = memory[x]
  <2>1. x \in Used(memory) /\ memory[x].kind \in {"grammar", "element"}  BY DEF OfGrammars
  <2>2. Freeing(thrown, gone)[x] = memory[x]  BY <1>1, <1>4, <1>6, <2>1, FreeingTags
  <2> QED  BY <1>2, <1>6, <2>1, <2>2
<1> QED  BY <1>2, <1>4, <1>7, Over_Whole

LEMMA TellError_Whole ==
  ASSUME Invariant, Room, Whole, TellError
  PROVE  Whole'
<1>1. /\ state = "running" /\ scan = NoScan
      /\ memory' = Put(memory, FirstFree, NewBuffer)
      /\ UNCHANGED <<instances, scan, making>>
  BY DEF TellError
<1>2. making = NoMaking  BY <1>1 DEF Invariant, Pace, Scanning
<1>3. HasRoom(memory) /\ IsHeap(memory)  BY RoomForOne DEF Room, Invariant, Shapes, Kindly
<1>4. NewBuffer # Unallocated  BY DEF NewBuffer, Unallocated
<1>5. \A x \in Used(memory) : memory'[x] = memory[x]
  BY <1>1, <1>3, <1>4, NewBlock_Keeps DEF FirstFree
<1> QED  BY <1>1, <1>2, <1>5, Over_Whole DEF OfGrammars

LEMMA FreeHemp_Whole ==
  ASSUME Invariant, Whole, FreeHemp
  PROVE  Whole'
<1>1. scan' = NoScan /\ making' = NoMaking /\ instances' = << >>
  BY DEF FreeHemp, Invariant, Pace, Scanning
<1>2. DOMAIN instances' = {}  BY <1>1
<1> QED  BY <1>1, <1>2 DEF Whole, Made, InMaking, Given, InScan, Scanning

LEMMA InitWhole ==
  ASSUME TablesInit
  PROVE  Whole
<1>1. DOMAIN instances = {} /\ scan = NoScan /\ making = NoMaking  BY DEF TablesInit
<1> QED  BY <1>1 DEF Whole, Made, InMaking, Given, InScan, Scanning

LEMMA NextWhole ==
  ASSUME Invariant, Room, Whole, [TablesNext]_tablesVars
  PROVE  Whole'
<1>1. ASSUME NEW name \in LaterKnown, Register(name)  PROVE Whole'
  BY <1>1, Same_Whole DEF Register
<1>2. ASSUME NEW d \in DOMAIN Dialects, BeginScan(d)  PROVE Whole'
  BY <1>2, BeginScan_Whole
<1>3. CASE AskGrammar  BY <1>3, AskGrammar_Whole
<1>4. CASE AddElement  BY <1>4, AddElement_Whole
<1>5. CASE GrammarMade  BY <1>5, GrammarMade_Whole
<1>6. CASE AddTag  BY <1>6, AddTag_Whole
<1>7. CASE ScanDone  BY <1>7, ScanDone_Whole
<1>8. CASE ScanFails  BY <1>8, ScanFails_Whole
<1>9. CASE TellError  BY <1>9, TellError_Whole
<1>10. CASE FreeHemp  BY <1>10, FreeHemp_Whole
<1>11. CASE UNCHANGED tablesVars  BY <1>11, Same_Whole DEF tablesVars
<1> QED  BY <1>1, <1>2, <1>3, <1>4, <1>5, <1>6, <1>7, <1>8, <1>9, <1>10, <1>11 DEF TablesNext

LEMMA WholeTables ==
  ASSUME Invariant, Whole
  PROVE  TablesAreWhole
<1>1. Made /\ Given /\ InScan  BY DEF Whole
<1>2. ASSUME NEW name \in DOMAIN instances
      PROVE  LET g == instances[name]
                 symbols == {Symbols[name][i] : i \in DOMAIN Symbols[name]}
             IN /\ memory[g].kind = "grammar" /\ memory[g].name = name
                /\ DOMAIN memory[g].elements = {NameOf(e) : e \in symbols}
                /\ DOMAIN memory[g].operators = {e.start : e \in symbols} \ {None}
                /\ \A e \in symbols :
                     LET a == memory[g].elements[NameOf(e)]
                     IN /\ memory[a] = NewElement(e.type, e.start, g)
                        /\ e.start # None => memory[g].operators[e.start] = a
  <2>1. PICK g, k : g = instances[name] /\ k = Len(Symbols[name])  OBVIOUS
  <2>2. name \in DOMAIN Symbols  BY DEF Invariant, Shapes
  <2>3. Symbols[name] \in Seq(Members(Symbols[name]))  BY <2>2, TablesAssumption
  <2>4. DOMAIN Symbols[name] = 1..k  BY <2>1, <2>3
  <2>5. HasElements(memory, g, name, k)  BY <1>1, <2>1 DEF Made
  <2>6. PICK symbols : symbols = {Symbols[name][i] : i \in DOMAIN Symbols[name]}  OBVIOUS
  <2>7. \A e : e \in symbols <=> \E i \in 1..k : e = Symbols[name][i]  BY <2>4, <2>6
  <2>8. DOMAIN memory[g].elements = {NameOf(e) : e \in symbols}  BY <2>5, <2>7 DEF HasElements
  <2>9. DOMAIN memory[g].operators = {e.start : e \in symbols} \ {None}
    BY <2>5, <2>7 DEF HasElements
  <2>10. \A e \in symbols :
           LET a == memory[g].elements[NameOf(e)]
           IN /\ memory[a] = NewElement(e.type, e.start, g)
              /\ e.start # None => memory[g].operators[e.start] = a
    BY <2>5, <2>7 DEF HasElements
  <2>11. memory[g].kind = "grammar" /\ memory[g].name = name  BY <2>5 DEF HasElements
  <2> QED  BY <2>1, <2>6, <2>8, <2>9, <2>10, <2>11
<1>3. GrammarsAreWhole  BY <1>2 DEF GrammarsAreWhole
<1>4. ASSUME AllAdded, NEW i \in DOMAIN ToAdd
      PROVE  LET t == ToAdd[i]
                 set == memory[scan.tagset]
                 tag == memory[set.tags[t.name]]
             IN /\ tag.kind = "tag" /\ tag.name = t.name /\ tag.tagset = scan.tagset
                /\ t.grammar # 0 => tag.grammar = instances[Asked[t.grammar]]
                /\ t.type = "hemp.outline" => set.outline[t.start] = set.tags[t.name]
                /\ t.type \in {"hemp.inline", "hemp.comment", "hemp.control"} =>
                     set.inline[t.start] = set.tags[t.name]
                /\ t.type # "hemp.unplugged" => tag.scanner # None
  <2>1. Scanning /\ Len(scan.grammars) = Len(Asked) /\ scan.added = Len(ToAdd)
    BY <1>4 DEF AllAdded, AllAsked
  <2>2. scan \in Scans /\ scan.dialect \in DOMAIN Dialects  BY <2>1, ScanningFacts, ScanPace
  <2>3. ToAdd \in Seq(Members(ToAdd))  BY <2>2, TablesAssumption DEF ToAdd
  <2>4. i \in 1..Len(ToAdd) /\ Len(ToAdd) \in Nat  BY <1>4, <2>3
  <2>5. ToAdd[i] \in Members(ToAdd)  BY <1>4 DEF Members
  <2>6. PICK t : t = ToAdd[i]  OBVIOUS
  <2>7. t.type \in TagTypes /\ t.grammar \in 0..Len(Asked)
    BY <2>2, <2>5, <2>6, TablesAssumption DEF ToAdd, Asked
  <2>8. scan.tagset # NoBlock
    <3>1. SUFFICES ASSUME ~Dialects[scan.dialect].tagged  PROVE FALSE
      BY <2>1 DEF Invariant, Pace
    <3>2. ToAdd = <<>>  BY <2>2, <3>1, TablesAssumption DEF ToAdd
    <3>3. Len(ToAdd) = 0  BY <3>2
    <3> QED  BY <2>4, <3>3
  <2>9. HasTag(memory, scan.tagset, scan.grammars, t)
    BY <1>1, <2>1, <2>4, <2>6, <2>8 DEF InScan, HasTags
  <2>10. t.grammar # 0 => scan.grammars[t.grammar] = instances[Asked[t.grammar]]
    <3>1. Len(Asked) \in Nat  BY <2>1, ScanPace
    <3>2. t.grammar # 0 => t.grammar \in 1..Len(scan.grammars)  BY <2>1, <2>7, <3>1
    <3> QED  BY <1>1, <2>1, <3>2 DEF Given
  <2>11. /\ t.type = "hemp.outline" => StyleOf(t.type) = "outline"
         /\ t.type \in {"hemp.inline", "hemp.comment", "hemp.control"} => StyleOf(t.type) = "inline"
    BY DEF StyleOf
  <2> QED  BY <2>6, <2>9, <2>10, <2>11 DEF HasTag
<1>5. TagsAreFound  BY <1>4 DEF TagsAreFound
<1> QED  BY <1>3, <1>5 DEF TablesAreWhole

(***************************************************************************)
(* The grammars of the factory have all the elements that their            *)
(* constructors add, so an error while one is made (hemp_grammar_add_      *)
(* element) leaves none that is half made, and when all tags are added     *)
(* (hemp_tagset_add_tag) each is found by its name and its start, with the *)
(* grammar that the dialect asked for.                                     *)
(***************************************************************************)
THEOREM WhatWasAskedFor == TablesSpec /\ []Room => []TablesAreWhole
<1>1. TablesInit => Invariant /\ Whole  BY InitInvariant, InitWhole
<1>2. Invariant /\ Whole /\ Room /\ [TablesNext]_tablesVars => (Invariant /\ Whole)'
  BY NextInvariant, NextWhole
<1>3. Invariant /\ Whole => TablesAreWhole  BY WholeTables
<1> QED  BY <1>1, <1>2, <1>3, PTL DEF TablesSpec
-----------------------------------------------------------------------------
(***************************************************************************)
(* Part three, about Memory.  The newest record that shows an address is   *)
(* the one that counts: a block that is allocated has one that is reported *)
(* with its size, and a record that is reported is the newest of its       *)
(* block.  A block that moved leaves an older record, which shows its      *)
(* address but is never reported again.                                    *)
(***************************************************************************)
Trace == [ptr : Pointer \cup {NoPointer}, status : {"wild", "malloc", "external", "moved", "free"},
          size : Nat]

Counts(status) == status \in {"malloc", "external"}

NewestOf(ts, u, p, r) ==
  /\ r \in 1..u /\ ts[r].ptr = p
  /\ \A s \in 1..u : ts[s].ptr = p => s <= r

AccountsHold(ts, u, blocks) ==
  /\ \A p \in DOMAIN blocks : \E r \in 1..u :
       NewestOf(ts, u, p, r) /\ Counts(ts[r].status) /\ ts[r].size = blocks[p]
  /\ \A r \in 1..u : Counts(ts[r].status) =>
       ts[r].ptr \in DOMAIN blocks /\ NewestOf(ts, u, ts[r].ptr, r)

TracesTyped(ts, u) == ts \in Seq(Trace) /\ u \in Nat /\ u <= Len(ts)

IsBlocks(blocks) == blocks \in [DOMAIN blocks -> Nat] /\ DOMAIN blocks \subseteq Pointer

TracesInv == TracesTyped(traces, used) /\ IsBlocks(live) /\ AccountsHold(traces, used, live)

LEMMA NewestIsFound ==
  ASSUME used \in Nat, NEW p, NEW r, NewestOf(traces, used, p, r)
  PROVE  Record(p) = r
<1>1. r \in Showing(p) /\ \A s \in Showing(p) : r >= s  BY DEF Showing, NewestOf
<1>2. \A x \in Showing(p) : (\A s \in Showing(p) : x >= s) => x = r
  BY <1>1 DEF Showing
<1> QED  BY <1>1, <1>2 DEF Record, Max

\* A block finds the record that counts for it.
LEMMA BlockIsFound ==
  ASSUME TracesInv, NEW p \in DOMAIN live
  PROVE  /\ NewestOf(traces, used, p, Record(p)) /\ Record(p) \in 1..used
         /\ Counts(traces[Record(p)].status) /\ traces[Record(p)].size = live[p]
<1>1. PICK r \in 1..used : /\ NewestOf(traces, used, p, r)
                           /\ Counts(traces[r].status) /\ traces[r].size = live[p]
  BY DEF TracesInv, AccountsHold
<1>2. Record(p) = r  BY <1>1, NewestIsFound DEF TracesInv, TracesTyped
<1> QED  BY <1>1, <1>2

LEMMA TraceIsTyped ==
  ASSUME NEW p \in Pointer \cup {NoPointer}, NEW n \in Nat,
         NEW status \in {"wild", "malloc", "external", "moved", "free"}
  PROVE  [ptr |-> p, status |-> status, size |-> n] \in Trace
  BY DEF Trace

\* The array has room for one more, and what is used of it is as it was.
LEMMA EnoughTraces ==
  ASSUME NEW ts, TracesTyped(ts, used)
  PROVE  /\ TracesTyped(Enough(ts), used) /\ used < Len(Enough(ts))
         /\ \A r \in 1..used : Enough(ts)[r] = ts[r]
<1>1. CASE used < Len(ts)  BY <1>1 DEF Enough, TracesTyped
<1>2. CASE ~ used < Len(ts)
  <2>1. PICK more : more = [i \in 1..BlockSize |-> Unwritten]  OBVIOUS
  <2>2. BlockSize \in Nat /\ BlockSize > 0  BY MemoryAssumption
  <2>3. Unwritten \in Trace  BY TraceIsTyped DEF Unwritten
  <2>4. more \in Seq(Trace) /\ Len(more) = BlockSize
    <3>1. more \in [1..BlockSize -> Trace]  BY <2>1, <2>3
    <3> QED  BY <2>2, <3>1, IsASeq, LenProperties
  <2>5. SubSeq(ts, 1, used) = ts
    <3>1. used = Len(ts)  BY <1>2 DEF TracesTyped
    <3> QED  BY <3>1, SubSeqFull DEF TracesTyped
  <2>6. Enough(ts) = ts \o more  BY <1>2, <2>1, <2>5 DEF Enough
  <2>7. /\ ts \o more \in Seq(Trace) /\ Len(ts \o more) = Len(ts) + BlockSize
        /\ \A r \in 1..Len(ts) : (ts \o more)[r] = ts[r]
    BY <2>4, ConcatProperties DEF TracesTyped
  <2> QED  BY <2>2, <2>6, <2>7 DEF TracesTyped
<1> QED  BY <1>1, <1>2

\* A record that is added counts for its block, and the others count as before.
LEMMA RecordCounts ==
  ASSUME NEW ts, TracesTyped(ts, used), NEW blocks, IsBlocks(blocks), AccountsHold(ts, used, blocks),
         NEW q \in Pointer \ DOMAIN blocks, NEW n \in Nat, NEW status, Counts(status)
  PROVE  /\ TracesTyped(Recorded(ts, q, status, n), used + 1)
         /\ IsBlocks(Holding(blocks, q, n))
         /\ AccountsHold(Recorded(ts, q, status, n), used + 1, Holding(blocks, q, n))
<1>1. PICK new : new = [ptr |-> q, status |-> status, size |-> n]  OBVIOUS
<1>2. new \in Trace /\ new.ptr = q /\ new.status = status /\ new.size = n
  BY <1>1, TraceIsTyped DEF Counts
<1>3. PICK rs : rs = Recorded(ts, q, status, n)  OBVIOUS
<1>4. used \in Nat  BY DEF TracesTyped
<1>5. /\ TracesTyped(rs, used + 1) /\ rs[used + 1] = new
      /\ \A r \in 1..used : rs[r] = ts[r]
  <2>1. PICK more : more = Enough(ts)  OBVIOUS
  <2>2. /\ more \in Seq(Trace) /\ used < Len(more)
        /\ \A r \in 1..used : more[r] = ts[r]
    BY <2>1, EnoughTraces DEF TracesTyped
  <2>3. rs = [more EXCEPT ![used + 1] = new]  BY <1>1, <1>3, <2>1 DEF Recorded
  <2>4. rs \in Seq(Trace) /\ Len(rs) = Len(more)
    <3>1. more \in [1..Len(more) -> Trace] /\ Len(more) \in Nat  BY <2>2, LenProperties, ElementOfSeq
    <3>2. rs \in [1..Len(more) -> Trace]  BY <1>2, <2>3, <3>1
    <3> QED  BY <3>1, <3>2, IsASeq, LenProperties
  <2>5. used + 1 \in 1..Len(more)  BY <1>4, <2>2
  <2>6. rs[used + 1] = new  BY <2>2, <2>3, <2>5
  <2>7. ASSUME NEW r \in 1..used  PROVE rs[r] = ts[r]
    BY <1>4, <2>2, <2>3
  <2> QED  BY <1>4, <2>4, <2>5, <2>6, <2>7 DEF TracesTyped
<1>6. PICK more : more = Holding(blocks, q, n)  OBVIOUS
<1>7. /\ more = [p \in DOMAIN blocks \cup {q} |-> IF p = q THEN n ELSE blocks[p]]
      /\ DOMAIN more = DOMAIN blocks \cup {q}
  BY <1>6 DEF Holding
<1>8. IsBlocks(more)  BY <1>7 DEF IsBlocks
<1>9. ASSUME NEW p, NEW r \in 1..used, p # q, NewestOf(ts, used, p, r)
      PROVE  NewestOf(rs, used + 1, p, r)
  BY <1>2, <1>4, <1>5, <1>9 DEF NewestOf
<1>10. NewestOf(rs, used + 1, q, used + 1)  BY <1>2, <1>4, <1>5 DEF NewestOf
<1>11. ASSUME NEW p \in DOMAIN more
       PROVE  \E r \in 1..(used + 1) :
                NewestOf(rs, used + 1, p, r) /\ Counts(rs[r].status) /\ rs[r].size = more[p]
  <2>1. CASE p = q
    <3>1. used + 1 \in 1..(used + 1)  BY <1>4
    <3> QED  BY <1>2, <1>5, <1>7, <1>10, <2>1, <3>1
  <2>2. CASE p # q
    <3>1. p \in DOMAIN blocks /\ more[p] = blocks[p]  BY <1>7, <1>11, <2>2
    <3>2. PICK r \in 1..used : NewestOf(ts, used, p, r) /\ Counts(ts[r].status) /\ ts[r].size = blocks[p]
      BY <3>1 DEF AccountsHold
    <3>3. r \in 1..(used + 1) /\ rs[r] = ts[r]  BY <1>4, <1>5
    <3> QED  BY <1>9, <2>2, <3>1, <3>2, <3>3
  <2> QED  BY <2>1, <2>2
<1>12. ASSUME NEW r \in 1..(used + 1), Counts(rs[r].status)
       PROVE  rs[r].ptr \in DOMAIN more /\ NewestOf(rs, used + 1, rs[r].ptr, r)
  <2>1. CASE r = used + 1  BY <1>2, <1>5, <1>7, <1>10, <2>1
  <2>2. CASE r \in 1..used
    <3>1. rs[r] = ts[r]  BY <1>5, <2>2
    <3>2. ts[r].ptr \in DOMAIN blocks /\ NewestOf(ts, used, ts[r].ptr, r)
      BY <1>12, <2>2, <3>1 DEF AccountsHold
    <3>3. ts[r].ptr # q  BY <3>2
    <3> QED  BY <1>7, <1>9, <2>2, <3>1, <3>2, <3>3
  <2> QED  BY <1>4, <2>1, <2>2
<1>13. AccountsHold(rs, used + 1, more)  BY <1>11, <1>12 DEF AccountsHold
<1> QED  BY <1>3, <1>5, <1>6, <1>8, <1>13

\* A record that no longer counts is that of a block that is no longer live.
LEMMA RecordDropped ==
  ASSUME TracesInv, NEW p \in DOMAIN live, NEW trace \in Trace,
         ~ Counts(trace.status), trace.ptr \in {p, NoPointer}
  PROVE  /\ TracesTyped([traces EXCEPT ![Record(p)] = trace], used)
         /\ IsBlocks(Others(p))
         /\ AccountsHold([traces EXCEPT ![Record(p)] = trace], used, Others(p))
         /\ DOMAIN Others(p) = DOMAIN live \ {p}
<1>1. PICK r : r = Record(p)  OBVIOUS
<1>2. NewestOf(traces, used, p, r) /\ r \in 1..used  BY <1>1, BlockIsFound
<1>3. PICK ts : ts = [traces EXCEPT ![r] = trace]  OBVIOUS
<1>4. used \in Nat /\ traces \in Seq(Trace) /\ used <= Len(traces)  BY DEF TracesInv, TracesTyped
<1>5. TracesTyped(ts, used)
  <2>1. r \in 1..Len(traces)  BY <1>2, <1>4, LenProperties
  <2>2. ts \in Seq(Trace) /\ Len(ts) = Len(traces)  BY <1>3, <1>4, <2>1, ExceptSeq
  <2> QED  BY <1>4, <2>2 DEF TracesTyped
<1>6. ts[r] = trace /\ \A s \in 1..used : s # r => ts[s] = traces[s]
  BY <1>2, <1>3, <1>4
<1>7. PICK rest : rest = Others(p)  OBVIOUS
<1>8. DOMAIN rest = DOMAIN live \ {p} /\ \A x \in DOMAIN rest : rest[x] = live[x]
  BY <1>7 DEF Others, Restrict
<1>9. IsBlocks(rest)
  <2>1. rest = [x \in DOMAIN live \ {p} |-> live[x]]  BY <1>7 DEF Others, Restrict
  <2>2. IsBlocks(live)  BY DEF TracesInv
  <2> QED  BY <2>1, <2>2 DEF IsBlocks
<1>10. NoPointer \notin DOMAIN live  BY MemoryAssumption DEF TracesInv, IsBlocks
<1>11. ASSUME NEW x \in DOMAIN rest, NEW s \in 1..used, NewestOf(traces, used, x, s)
       PROVE  s # r /\ NewestOf(ts, used, x, s)
  <2>1. s # r  BY <1>2, <1>8, <1>11 DEF NewestOf
  <2>2. trace.ptr # x  BY <1>8, <1>10, <1>11
  <2>3. ASSUME NEW i \in 1..used, ts[i].ptr = x  PROVE i <= s
    <3>1. i # r  BY <1>6, <2>2, <2>3
    <3> QED  BY <1>6, <1>11, <2>3, <3>1 DEF NewestOf
  <2> QED  BY <1>6, <1>11, <2>1, <2>3 DEF NewestOf
<1>12. ASSUME NEW x \in DOMAIN rest
       PROVE  \E s \in 1..used :
                NewestOf(ts, used, x, s) /\ Counts(ts[s].status) /\ ts[s].size = rest[x]
  <2>1. PICK s \in 1..used : /\ NewestOf(traces, used, x, s)
                             /\ Counts(traces[s].status) /\ traces[s].size = live[x]
    BY <1>8, <1>12 DEF TracesInv, AccountsHold
  <2> QED  BY <1>6, <1>8, <1>11, <1>12, <2>1
<1>13. ASSUME NEW s \in 1..used, Counts(ts[s].status)
       PROVE  ts[s].ptr \in DOMAIN rest /\ NewestOf(ts, used, ts[s].ptr, s)
  <2>1. s # r  BY <1>6, <1>13
  <2>2. ts[s] = traces[s]  BY <1>6, <2>1
  <2>3. traces[s].ptr \in DOMAIN live /\ NewestOf(traces, used, traces[s].ptr, s)
    BY <1>13, <2>2 DEF TracesInv, AccountsHold
  <2>4. traces[s].ptr # p
    <3>1. SUFFICES ASSUME traces[s].ptr = p  PROVE FALSE  OBVIOUS
    <3>2. s <= r /\ r <= s  BY <1>2, <2>3, <3>1 DEF NewestOf
    <3> QED  BY <1>2, <2>1, <3>2
  <2> QED  BY <1>8, <1>11, <2>2, <2>3, <2>4
<1>14. AccountsHold(ts, used, rest)  BY <1>12, <1>13 DEF AccountsHold
<1> QED  BY <1>1, <1>3, <1>5, <1>7, <1>8, <1>9, <1>14

\* A block that stays where it is counts with its new size.
LEMMA SizeCounts ==
  ASSUME TracesInv, NEW p \in DOMAIN live, NEW n \in Nat
  PROVE  /\ TracesTyped([traces EXCEPT ![Record(p)].size = n], used)
         /\ IsBlocks([live EXCEPT ![p] = n])
         /\ AccountsHold([traces EXCEPT ![Record(p)].size = n], used, [live EXCEPT ![p] = n])
<1>1. PICK r : r = Record(p)  OBVIOUS
<1>2. NewestOf(traces, used, p, r) /\ r \in 1..used /\ Counts(traces[r].status)
  BY <1>1, BlockIsFound
<1>3. PICK ts : ts = [traces EXCEPT ![r].size = n]  OBVIOUS
<1>4. used \in Nat /\ traces \in Seq(Trace) /\ used <= Len(traces)  BY DEF TracesInv, TracesTyped
<1>5. traces[r] \in Trace  BY <1>2, <1>4
<1>6. PICK trace : trace = [traces[r] EXCEPT !.size = n]  OBVIOUS
<1>7. /\ trace \in Trace /\ trace.ptr = traces[r].ptr
      /\ trace.status = traces[r].status /\ trace.size = n
  BY <1>5, <1>6 DEF Trace
<1>8. ts = [traces EXCEPT ![r] = trace]  BY <1>3, <1>6
<1>9. TracesTyped(ts, used)
  <2>1. r \in 1..Len(traces)  BY <1>2, <1>4, LenProperties
  <2>2. ts \in Seq(Trace) /\ Len(ts) = Len(traces)  BY <1>4, <1>7, <1>8, <2>1, ExceptSeq
  <2> QED  BY <1>4, <2>2 DEF TracesTyped
<1>10. ts[r] = trace /\ \A s \in 1..used : s # r => ts[s] = traces[s]
  BY <1>2, <1>4, <1>8
<1>11. \A s \in 1..used : ts[s].ptr = traces[s].ptr /\ ts[s].status = traces[s].status
  BY <1>7, <1>10
<1>12. \A x, s : NewestOf(traces, used, x, s) <=> NewestOf(ts, used, x, s)
  BY <1>11 DEF NewestOf
<1>13. PICK blocks : blocks = [live EXCEPT ![p] = n]  OBVIOUS
<1>14. /\ DOMAIN blocks = DOMAIN live /\ blocks[p] = n
       /\ \A x \in DOMAIN live : x # p => blocks[x] = live[x]
  BY <1>13
<1>15. IsBlocks(blocks)  BY <1>13 DEF TracesInv, IsBlocks
<1>16. ASSUME NEW x \in DOMAIN blocks
       PROVE  \E s \in 1..used :
                NewestOf(ts, used, x, s) /\ Counts(ts[s].status) /\ ts[s].size = blocks[x]
  <2>1. CASE x = p  BY <1>2, <1>7, <1>10, <1>12, <1>14, <2>1
  <2>2. CASE x # p
    <3>1. PICK s \in 1..used : /\ NewestOf(traces, used, x, s)
                               /\ Counts(traces[s].status) /\ traces[s].size = live[x]
      BY <1>14, <1>16 DEF TracesInv, AccountsHold
    <3>2. s # r  BY <1>2, <2>2, <3>1 DEF NewestOf
    <3> QED  BY <1>10, <1>12, <1>14, <1>16, <2>2, <3>1, <3>2
  <2> QED  BY <2>1, <2>2
<1>17. ASSUME NEW s \in 1..used, Counts(ts[s].status)
       PROVE  ts[s].ptr \in DOMAIN blocks /\ NewestOf(ts, used, ts[s].ptr, s)
  <2>1. Counts(traces[s].status) /\ ts[s].ptr = traces[s].ptr  BY <1>11, <1>17
  <2>2. traces[s].ptr \in DOMAIN live /\ NewestOf(traces, used, traces[s].ptr, s)
    BY <2>1 DEF TracesInv, AccountsHold
  <2> QED  BY <1>12, <1>14, <2>1, <2>2
<1>18. AccountsHold(ts, used, blocks)  BY <1>16, <1>17 DEF AccountsHold
<1> QED  BY <1>1, <1>3, <1>9, <1>13, <1>15, <1>18

LEMMA NothingIsCounted ==
  /\ TracesTyped(<<>>, 0) /\ IsBlocks(<<>>) /\ AccountsHold(<<>>, 0, <<>>)
  BY DEF TracesTyped, IsBlocks, AccountsHold

LEMMA AllocateCounts ==
  ASSUME TracesInv, NEW status, Counts(status), Allocate(status)
  PROVE  TracesInv'
<1>1. PICK p \in Unused, n \in Bytes :
        traces' = Recorded(traces, p, status, n) /\ used' = used + 1 /\ live' = Holding(live, p, n)
  BY DEF Allocate
<1>2. p \in Pointer \ DOMAIN live /\ n \in Nat  BY MemoryAssumption DEF Unused
<1> QED  BY <1>1, <1>2, RecordCounts DEF TracesInv

LEMMA ResizeCounts ==
  ASSUME TracesInv, ResizeBlock
  PROVE  TracesInv'
<1>1. PICK p \in DOMAIN live, n \in Bytes :
        \/ /\ traces' = [traces EXCEPT ![Record(p)].size = n]
           /\ used' = used /\ live' = [live EXCEPT ![p] = n]
        \/ \E q \in Unused :
             /\ traces' = Recorded([traces EXCEPT ![Record(p)].status = "moved"], q, "malloc", n)
             /\ used' = used + 1 /\ live' = Holding(Others(p), q, n)
  BY DEF ResizeBlock
<1>2. n \in Nat  BY MemoryAssumption
<1>3. CASE /\ traces' = [traces EXCEPT ![Record(p)].size = n]
           /\ used' = used /\ live' = [live EXCEPT ![p] = n]
  BY <1>2, <1>3, SizeCounts DEF TracesInv
<1>4. ASSUME NEW q \in Unused,
             traces' = Recorded([traces EXCEPT ![Record(p)].status = "moved"], q, "malloc", n),
             used' = used + 1, live' = Holding(Others(p), q, n)
      PROVE  TracesInv'
  <2>1. NewestOf(traces, used, p, Record(p)) /\ Record(p) \in 1..used  BY BlockIsFound
  <2>2. traces[Record(p)] \in Trace /\ traces[Record(p)].ptr = p
    BY <2>1 DEF TracesInv, TracesTyped, NewestOf
  <2>3. PICK trace : trace = [traces[Record(p)] EXCEPT !.status = "moved"]  OBVIOUS
  <2>4. trace \in Trace /\ trace.status = "moved" /\ trace.ptr = p  BY <2>2, <2>3 DEF Trace
  <2>5. ~ Counts(trace.status)  BY <2>4 DEF Counts
  <2>6. PICK ts : ts = [traces EXCEPT ![Record(p)] = trace]  OBVIOUS
  <2>7. ts = [traces EXCEPT ![Record(p)].status = "moved"]  BY <2>3, <2>6
  <2>8. /\ TracesTyped(ts, used) /\ IsBlocks(Others(p)) /\ AccountsHold(ts, used, Others(p))
        /\ DOMAIN Others(p) = DOMAIN live \ {p}
    BY <2>4, <2>5, <2>6, RecordDropped
  <2>9. q \in Pointer \ DOMAIN Others(p)  BY <2>8 DEF Unused
  <2>10. Counts("malloc")  BY DEF Counts
  <2>11. /\ TracesTyped(Recorded(ts, q, "malloc", n), used + 1)
         /\ IsBlocks(Holding(Others(p), q, n))
         /\ AccountsHold(Recorded(ts, q, "malloc", n), used + 1, Holding(Others(p), q, n))
    BY <1>2, <2>8, <2>9, <2>10, RecordCounts
  <2> QED  BY <1>4, <2>7, <2>11 DEF TracesInv
<1> QED  BY <1>1, <1>3, <1>4

LEMMA FreeCounts ==
  ASSUME TracesInv, FreeBlock
  PROVE  TracesInv'
<1>1. PICK p \in DOMAIN live :
        /\ traces' = [traces EXCEPT ![Record(p)] = [@ EXCEPT !.status = "free", !.ptr = NoPointer]]
        /\ used' = used /\ live' = Others(p)
  BY DEF FreeBlock
<1>2. Record(p) \in 1..used  BY BlockIsFound
<1>3. traces[Record(p)] \in Trace  BY <1>2 DEF TracesInv, TracesTyped
<1>4. PICK trace : trace = [traces[Record(p)] EXCEPT !.status = "free", !.ptr = NoPointer]  OBVIOUS
<1>5. trace \in Trace /\ trace.status = "free" /\ trace.ptr = NoPointer  BY <1>3, <1>4 DEF Trace
<1>6. ~ Counts(trace.status)  BY <1>5 DEF Counts
<1>7. traces' = [traces EXCEPT ![Record(p)] = trace]  BY <1>1, <1>4
<1>8. /\ TracesTyped([traces EXCEPT ![Record(p)] = trace], used)
      /\ IsBlocks(Others(p)) /\ AccountsHold([traces EXCEPT ![Record(p)] = trace], used, Others(p))
  BY <1>5, <1>6, RecordDropped
<1> QED  BY <1>1, <1>7, <1>8 DEF TracesInv

LEMMA TracesStep ==
  ASSUME TracesInv, [MemoryNext]_memoryVars
  PROVE  TracesInv'
<1>1. CASE UNCHANGED memoryVars
  BY <1>1 DEF memoryVars, TracesInv
<1>2. CASE Allocate("malloc") \/ Allocate("external")
  <2>1. Counts("malloc") /\ Counts("external")  BY DEF Counts
  <2> QED  BY <1>2, <2>1, AllocateCounts
<1>3. CASE ResizeBlock  BY <1>3, ResizeCounts
<1>4. CASE FreeBlock  BY <1>4, FreeCounts
<1>5. CASE Reset \/ Restart
  BY <1>5, NothingIsCounted DEF Reset, Restart, TracesInv
<1>6. ASSUME NEW p \in held, NoRecord(p)  PROVE TracesInv'
  BY <1>6 DEF NoRecord, TracesInv
<1> QED  BY <1>1, <1>2, <1>3, <1>4, <1>5, <1>6 DEF MemoryNext

LEMMA TracesTell ==
  ASSUME TracesInv
  PROVE  ReportsWhatIsLive
<1>1. ASSUME NEW p \in DOMAIN live
      PROVE  /\ Showing(p) # {}
             /\ Record(p) \in Reported /\ traces[Record(p)].size = live[p]
  <2>1. /\ NewestOf(traces, used, p, Record(p)) /\ Record(p) \in 1..used
        /\ Counts(traces[Record(p)].status) /\ traces[Record(p)].size = live[p]
    BY BlockIsFound
  <2>2. Record(p) \in Showing(p)  BY <2>1 DEF NewestOf, Showing
  <2>3. Record(p) \in Reported  BY <2>1 DEF Reported, Counts
  <2> QED  BY <2>1, <2>2, <2>3
<1>2. ASSUME NEW r \in Reported
      PROVE  traces[r].ptr \in DOMAIN live /\ Record(traces[r].ptr) = r
  <2>1. r \in 1..used /\ Counts(traces[r].status)  BY DEF Reported, Counts
  <2>2. traces[r].ptr \in DOMAIN live /\ NewestOf(traces, used, traces[r].ptr, r)
    BY <2>1 DEF TracesInv, AccountsHold
  <2> QED  BY <2>2, NewestIsFound DEF TracesInv, TracesTyped
<1> QED  BY <1>1, <1>2 DEF ReportsWhatIsLive

(***************************************************************************)
(* The report of memory counts each block that is allocated once and at    *)
(* the size it has now, and counts nothing else, though malloc() and       *)
(* realloc() hand out addresses that older records still show              *)
(* (hemp_mem_trace_record, hemp_mem_trace_realloc, hemp_mem_trace_report). *)
(***************************************************************************)
THEOREM ReportCountsWhatIsLive == MemorySpec => []ReportsWhatIsLive
<1>1. MemoryInit => TracesInv  BY NothingIsCounted DEF MemoryInit, TracesInv
<1>2. TracesInv /\ [MemoryNext]_memoryVars => TracesInv'  BY TracesStep
<1>3. TracesInv => ReportsWhatIsLive  BY TracesTell
<1> QED  BY <1>1, <1>2, <1>3, PTL DEF MemorySpec
=============================================================================
