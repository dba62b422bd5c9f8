--------------------------- MODULE Registry_proofs ---------------------------
(***************************************************************************)
(* Code that a Hemp may call is in a library that is open, and a library   *)
(* that is open is not opened again, for any things, modules, outcomes of  *)
(* loading and numbers of Hemps.                                           *)
(*                                                                         *)
(* The modules change in two places only: a module is added for a path     *)
(* that has none, and all go with the last Hemp.  What keeps the code that *)
(* waits on the stack loaded is that each call is made on a Hemp that      *)
(* exists, and that a Hemp is freed by a call which is alone on the stack; *)
(* what keeps the code in the tables loaded is that hemp_free() empties    *)
(* the tables of a Hemp before it lets go of the modules.                  *)
(***************************************************************************)
EXTENDS Registry, TLAPS, FiniteSetTheorems, SequenceTheorems, WellFoundedInduction

AskSet ==
  [op : {"instance", "constructor"}, stage : {"search", "made"},
   hemp : Hemp, thing : Thing, next : Nat, loaded : BOOLEAN]
UseSet ==
  [op : {"use"}, stage : {"find", "bind", "bound"}, hemp : Hemp, thing : Thing,
   buffer : Buffer, found : Thing \union {Null}]
BodySet ==
  [op : {"body"}, stage : {"run"}, hemp : Hemp, owner : Owners, todo : SUBSET Thing]
FreeSet == [op : {"free"}, stage : {"factories", "global"}, hemp : Hemp]

CallSet == AskSet \union UseSet \union BodySet \union FreeSet

\* Code of this owner may be called.
Loaded(o) == o \in {Core, Null} \/ (o \in Paths /\ LoadOf(o).handle)

\* The call is one that may be under way, and what it goes on with is there.
Sound(call) ==
  /\ call \in CallSet /\ call.hemp \in hemps
  /\ call.op \in {"instance", "constructor"} => call.next # 0
  /\ call.op = "use" => /\ call.buffer \in held
                        /\ call.found \in Paths \union {Null}
                        /\ call.stage # "find" => call.found \in Paths
  /\ call.op = "body" => Loaded(call.owner) /\ call.owner # Null
  /\ call.op = "free" /\ call.stage = "global" =>
       actions[call.hemp] = Nothing /\ instances[call.hemp] = Nothing

StackOK ==
  /\ stack \in Seq(CallSet)
  /\ \A i \in 1..Len(stack) : Sound(stack[i])
  /\ \A i \in 1..Len(stack) : stack[i].op = "free" => Len(stack) = 1
  /\ \A i, j \in 1..Len(stack) :
       i # j /\ stack[i].op = "use" /\ stack[j].op = "use" => stack[i].buffer # stack[j].buffer

TablesOK ==
  /\ hemps \subseteq Hemp /\ IsFiniteSet(hemps) /\ count = Cardinality(hemps)
  /\ actions \in [Hemp -> [Thing -> Owners]]
  /\ instances \in [Hemp -> [Thing -> Owners]]
  /\ modules \in [Thing -> [key : Buffer, load : Loads] \union {Null}]
  /\ text \in [Buffer -> Thing \union {Null}]
  /\ held \subseteq Buffer
  /\ exited \in BOOLEAN

\* The tables of a Hemp that does not exist are empty, and so are the modules without one.
LifeOK ==
  /\ \A h \in Hemp \ hemps : actions[h] = Nothing /\ instances[h] = Nothing
  /\ hemps = {} => Paths = {}

CodeOK == \A h \in Hemp, x \in Thing : Loaded(actions[h][x]) /\ Loaded(instances[h][x])

RegInv == TablesOK /\ LifeOK /\ CodeOK /\ StackOK

-----------------------------------------------------------------------------
(***************************************************************************)
(* Sequences that differ at their end.                                     *)
(***************************************************************************)
LEMMA CutFacts ==
  ASSUME NEW S, NEW s \in Seq(S), NEW n \in 0..Len(s)
  PROVE  /\ SubSeq(s, 1, n) \in Seq(S)
         /\ Len(SubSeq(s, 1, n)) = n
         /\ \A i \in 1..n : SubSeq(s, 1, n)[i] = s[i]
<1>1. n \in Int /\ 1 \in Int /\ Len(s) \in Nat  OBVIOUS
<1>2. \A i \in 1..n : s[i] \in S  BY <1>1, ElementOfSeq
<1> QED  BY <1>1, <1>2, SubSeqProperties

LEMMA FrontFacts ==
  ASSUME NEW S, NEW s \in Seq(S), s # <<>>
  PROVE  /\ Len(s) \in Nat \ {0} /\ Len(s) \in 1..Len(s) /\ Len(s) - 1 \in Nat
         /\ Last(s) = s[Len(s)] /\ Last(s) \in S
         /\ Front(s) \in Seq(S) /\ Len(Front(s)) = Len(s) - 1
         /\ \A i \in 1..(Len(s) - 1) : i \in 1..Len(s) /\ Front(s)[i] = s[i]
<1>1. Len(s) \in Nat \ {0} /\ Len(s) \in 1..Len(s) /\ Len(s) - 1 \in Nat
  BY EmptySeq
<1>2. Len(s) - 1 \in Int /\ 1 \in Int /\ \A i \in 1..(Len(s) - 1) : i \in 1..Len(s)
  BY <1>1
<1>3. Len(s) - 1 \in 0..Len(s)
  BY <1>1
<1>4. /\ SubSeq(s, 1, Len(s) - 1) \in Seq(S)
      /\ Len(SubSeq(s, 1, Len(s) - 1)) = Len(s) - 1
      /\ \A i \in 1..(Len(s) - 1) : SubSeq(s, 1, Len(s) - 1)[i] = s[i]
  BY <1>3, CutFacts
<1>5. s[Len(s)] \in S
  BY <1>1, ElementOfSeq
<1> QED  BY <1>1, <1>2, <1>4, <1>5 DEF Front, Last

LEMMA EndedBy ==
  ASSUME NEW S, NEW s \in Seq(S), NEW x \in S
  PROVE  /\ s \o <<x>> \in Seq(S) /\ Len(s \o <<x>>) = Len(s) + 1
         /\ \A i \in 1..Len(s) : (s \o <<x>>)[i] = s[i]
         /\ (s \o <<x>>)[Len(s) + 1] = x
  OBVIOUS

LEMMA EndedByTwo ==
  ASSUME NEW S, NEW s \in Seq(S), NEW x \in S, NEW y \in S
  PROVE  /\ s \o <<x, y>> \in Seq(S) /\ Len(s \o <<x, y>>) = Len(s) + 2
         /\ \A i \in 1..Len(s) : (s \o <<x, y>>)[i] = s[i]
         /\ (s \o <<x, y>>)[Len(s) + 1] = x /\ (s \o <<x, y>>)[Len(s) + 2] = y
  OBVIOUS

-----------------------------------------------------------------------------
(***************************************************************************)
(* What a step leaves of the calls that it is not about.                   *)
(***************************************************************************)
\* Hemps stay, and open libraries stay open.
Stays == hemps \subseteq hemps' /\ \A p \in Paths : modules'[p] = modules[p]

LEMMA StaysSame ==
  ASSUME UNCHANGED <<hemps, modules>>
  PROVE  Stays
  BY DEF Stays

LEMMA LoadedStays ==
  ASSUME Stays, NEW o, Loaded(o)
  PROVE  Loaded(o)'
  BY DEF Stays, Loaded, Paths, LoadOf

LEMMA PathsStay ==
  ASSUME Stays
  PROVE  Paths \subseteq Paths'
<1> SUFFICES ASSUME NEW p \in Paths  PROVE p \in Paths'
  OBVIOUS
<1>1. p \in Thing /\ modules[p] # Null /\ modules'[p] = modules[p]
  BY DEF Stays, Paths
<1> QED  BY <1>1 DEF Paths

LEMMA SoundStays ==
  ASSUME Stays, NEW c, Sound(c), c.op # "free", c.op = "use" => c.buffer \in held'
  PROVE  Sound(c)'
<1>1. c \in CallSet /\ c.hemp \in hemps' /\ Paths \subseteq Paths'
  BY PathsStay DEF Sound, Stays
<1>2. c.op = "body" => Loaded(c.owner)' /\ c.owner # Null
  BY LoadedStays DEF Sound
<1>3. c.op = "use" => /\ c.found \in Paths' \union {Null}
                      /\ c.stage # "find" => c.found \in Paths'
  BY <1>1 DEF Sound
<1>4. c.op \in {"instance", "constructor"} => c.next # 0
  BY DEF Sound
<1> QED  BY <1>1, <1>2, <1>3, <1>4 DEF Sound

\* The calls below n stay, and others are above them.
LEMMA StackGoes ==
  ASSUME StackOK, Stays, NEW n \in Nat, n <= Len(stack), NEW m \in Nat, n <= m,
         stack' \in Seq(CallSet), Len(stack') = m,
         \A i \in 1..n : /\ stack'[i] = stack[i] /\ stack[i].op # "free"
                         /\ stack[i].op = "use" => stack[i].buffer \in held',
         \A i \in (n + 1)..m : Sound(stack[i])' /\ (stack'[i].op = "free" => m = 1),
         \A i, j \in 1..m : /\ i # j /\ j > n
                            /\ stack'[i].op = "use" /\ stack'[j].op = "use"
                            => stack'[i].buffer # stack'[j].buffer
  PROVE  StackOK'
<1>1. Len(stack) \in Nat  BY DEF StackOK
<1>2. \A i \in 1..n : i \in 1..Len(stack)  BY <1>1
<1>3. ASSUME NEW i \in 1..m
      PROVE  Sound(stack[i])' /\ (stack'[i].op = "free" => m = 1)
  <2>1. CASE i \in 1..n
    <3>1. Sound(stack[i])  BY <1>2, <2>1 DEF StackOK
    <3> QED  BY <2>1, <3>1, SoundStays
  <2>2. CASE i \notin 1..n
    <3>1. i \in (n + 1)..m  BY <2>2
    <3> QED  BY <3>1
  <2> QED  BY <2>1, <2>2
<1>4. ASSUME NEW i \in 1..m, NEW j \in 1..m, i # j,
             stack'[i].op = "use", stack'[j].op = "use"
      PROVE  stack'[i].buffer # stack'[j].buffer
  <2>1. CASE i \in 1..n /\ j \in 1..n
    <3>1. stack[i].buffer # stack[j].buffer  BY <1>2, <1>4, <2>1 DEF StackOK
    <3> QED  BY <2>1, <3>1
  <2>2. CASE j \notin 1..n
    <3>1. j > n  BY <2>2
    <3> QED  BY <1>4, <3>1
  <2>3. CASE i \notin 1..n
    <3>1. i > n  BY <2>3
    <3> QED  BY <1>4, <3>1
  <2> QED  BY <2>1, <2>2, <2>3
<1> QED  BY <1>3, <1>4 DEF StackOK

-----------------------------------------------------------------------------
(***************************************************************************)
(* The call on top.                                                        *)
(***************************************************************************)
LEMMA TopFacts ==
  ASSUME StackOK, stack # <<>>
  PROVE  /\ Len(stack) \in Nat \ {0} /\ Len(stack) - 1 \in Nat
         /\ Top = stack[Len(stack)] /\ Top \in CallSet /\ Sound(Top)
         /\ Below \in Seq(CallSet) /\ Len(Below) = Len(stack) - 1
         /\ \A i \in 1..(Len(stack) - 1) :
              /\ Below[i] = stack[i] /\ stack[i].op # "free"
              /\ Sound(stack[i])
              /\ stack[i].op = "use" /\ Top.op = "use" => stack[i].buffer # Top.buffer
         /\ Top.op = "free" => Len(stack) = 1
<1>1. /\ Len(stack) \in Nat \ {0} /\ Len(stack) \in 1..Len(stack) /\ Len(stack) - 1 \in Nat
      /\ Top = stack[Len(stack)] /\ Top \in CallSet
      /\ Below \in Seq(CallSet) /\ Len(Below) = Len(stack) - 1
      /\ \A i \in 1..(Len(stack) - 1) : i \in 1..Len(stack) /\ Below[i] = stack[i]
  BY FrontFacts DEF StackOK, Top, Below
<1>2. \A i \in 1..(Len(stack) - 1) : i # Len(stack)  BY <1>1
<1>3. Sound(Top) /\ (Top.op = "free" => Len(stack) = 1)  BY <1>1 DEF StackOK
<1>4. ASSUME NEW i \in 1..(Len(stack) - 1)
      PROVE  /\ stack[i].op # "free" /\ Sound(stack[i])
             /\ stack[i].op = "use" /\ Top.op = "use" => stack[i].buffer # Top.buffer
  <2>1. i \in 1..Len(stack) /\ i # Len(stack) /\ Len(stack) # 1  BY <1>1, <1>2
  <2> QED  BY <1>1, <2>1 DEF StackOK
<1> QED  BY <1>1, <1>3, <1>4

\* It is a record of its kind.
LEMMA Kinds ==
  ASSUME NEW c \in CallSet
  PROVE  /\ c.op \in {"instance", "constructor"} => c \in AskSet
         /\ c.op = "use" => c \in UseSet
         /\ c.op = "body" => c \in BodySet
         /\ c.op = "free" => c \in FreeSet
  BY DEF CallSet, AskSet, UseSet, BodySet, FreeSet

HeldStays ==
  \A b \in held : (stack # <<>> /\ Top.op = "use" /\ b = Top.buffer) \/ b \in held'

LEMMA Returned ==
  ASSUME StackOK, Stays, HeldStays, stack # <<>>, stack' = Below
  PROVE  StackOK'
<1> DEFINE n == Len(stack) - 1
<1>1. /\ n \in Nat /\ n <= Len(stack) /\ Len(stack') = n /\ stack' \in Seq(CallSet)
  BY TopFacts
<1>2. \A i \in 1..n : /\ stack'[i] = stack[i] /\ stack[i].op # "free"
                      /\ stack[i].op = "use" => stack[i].buffer \in held'
  BY TopFacts DEF Sound, HeldStays
<1>3. \A i \in (n + 1)..n : FALSE  BY <1>1
<1>4. \A j \in 1..n : ~ (j > n)  BY <1>1
<1> HIDE DEF n
<1> QED  BY <1>1, <1>2, <1>3, <1>4, StackGoes

\* It goes on as x.
LEMMA GoesOn ==
  ASSUME StackOK, Stays, held \subseteq held', stack # <<>>, NEW x, Sound(x)', x.op = Top.op,
         x.op # "free", x.op = "use" => x.buffer = Top.buffer,
         stack' = Below \o <<x>>
  PROVE  StackOK'
<1> DEFINE n == Len(stack) - 1
<1>1. n \in Nat /\ n <= Len(stack) /\ n + 1 = Len(stack) /\ n <= n + 1 /\ n + 1 \in Nat
  BY TopFacts
<1>2. x \in CallSet  BY DEF Sound
<1>3. /\ Below \in Seq(CallSet) /\ Len(Below) = n
      /\ \A i \in 1..n : Below[i] = stack[i] /\ stack[i].op # "free" /\ Sound(stack[i])
      /\ \A i \in 1..n :
           stack[i].op = "use" /\ Top.op = "use" => stack[i].buffer # Top.buffer
  BY TopFacts
<1> HIDE DEF n
<1>4. /\ stack' \in Seq(CallSet) /\ Len(stack') = n + 1
      /\ \A i \in 1..n : stack'[i] = Below[i]
      /\ stack'[n + 1] = x
  BY <1>2, <1>3, EndedBy
<1>5. \A i \in 1..n : /\ stack'[i] = stack[i] /\ stack[i].op # "free"
                      /\ stack[i].op = "use" => stack[i].buffer \in held'
  BY <1>3, <1>4 DEF Sound
<1>6. \A i \in (n + 1)..(n + 1) : i = n + 1  BY <1>1
<1>7. ASSUME NEW i \in 1..(n + 1), NEW j \in 1..(n + 1), i # j, j > n,
             stack'[i].op = "use", stack'[j].op = "use"
      PROVE  stack'[i].buffer # stack'[j].buffer
  <2>1. j = n + 1 /\ i \in 1..n  BY <1>1, <1>7
  <2>2. stack'[i] = stack[i] /\ stack'[j] = x  BY <1>4, <1>5, <2>1
  <2> QED  BY <1>3, <1>7, <2>1, <2>2
<1>8. \A i \in (n + 1)..(n + 1) : Sound(stack[i])' /\ (stack'[i].op = "free" => n + 1 = 1)
  BY <1>4, <1>6
<1> QED  BY <1>1, <1>4, <1>5, <1>7, <1>8, StackGoes

\* It calls y.
LEMMA GoesInto ==
  ASSUME StackOK, stack # <<>>, Top.op # "free", Stays, held \subseteq held', NEW y, Sound(y)',
         y.op # "free", y.op = "use" => y.buffer \notin held,
         stack' = stack \o <<y>>
  PROVE  StackOK'
<1> DEFINE n == Len(stack)
<1>1. n \in Nat /\ n + 1 \in Nat /\ n <= n + 1 /\ n <= Len(stack)
  BY TopFacts
<1>2. y \in CallSet /\ stack \in Seq(CallSet)  BY DEF Sound, StackOK
<1>3. \A i \in 1..n : stack[i].op # "free" /\ Sound(stack[i])
  <2> SUFFICES ASSUME NEW i \in 1..n  PROVE stack[i].op # "free" /\ Sound(stack[i])
    OBVIOUS
  <2>1. CASE i = n  BY <2>1, TopFacts
  <2>2. CASE i # n
    <3>1. i \in 1..(n - 1)  BY <1>1, <2>2
    <3> QED  BY <3>1, TopFacts
  <2> QED  BY <2>1, <2>2
<1>4. /\ stack' \in Seq(CallSet) /\ Len(stack') = n + 1
      /\ \A i \in 1..n : stack'[i] = stack[i]
      /\ stack'[n + 1] = y
  BY <1>2, EndedBy
<1> HIDE DEF n
<1>5. \A i \in 1..n : /\ stack'[i] = stack[i] /\ stack[i].op # "free"
                      /\ stack[i].op = "use" => stack[i].buffer \in held
  BY <1>3, <1>4 DEF Sound
<1>6. \A i \in (n + 1)..(n + 1) : i = n + 1  BY <1>1
<1>7. ASSUME NEW i \in 1..(n + 1), NEW j \in 1..(n + 1), i # j, j > n,
             stack'[i].op = "use", stack'[j].op = "use"
      PROVE  stack'[i].buffer # stack'[j].buffer
  <2>1. j = n + 1 /\ i \in 1..n  BY <1>1, <1>7
  <2>2. stack'[i] = stack[i] /\ stack'[j] = y  BY <1>4, <2>1
  <2> QED  BY <1>5, <1>7, <2>1, <2>2
<1>8. \A i \in (n + 1)..(n + 1) : Sound(stack[i])' /\ (stack'[i].op = "free" => n + 1 = 1)
  BY <1>4, <1>6
<1> QED  BY <1>1, <1>4, <1>5, <1>7, <1>8, StackGoes

\* It goes on as x and calls y, in the order s has them at its end.
Ends(s, x, y) ==
  /\ s \in Seq(CallSet) /\ Len(s) = Len(stack) + 1
  /\ \A i \in 1..(Len(stack) - 1) : s[i] = Below[i]
  /\ s[Len(stack)] = x /\ s[Len(stack) + 1] = y

LEMMA EndsTwo ==
  ASSUME StackOK, stack # <<>>, NEW x \in CallSet, NEW y \in CallSet
  PROVE  Ends(Below \o <<x, y>>, x, y) /\ Ends((Below \o <<x>>) \o <<y>>, x, y)
<1> DEFINE n == Len(stack) - 1  t == Below \o <<x>>
<1>1. n \in Nat /\ Len(stack) = n + 1 /\ Below \in Seq(CallSet) /\ Len(Below) = n
  BY TopFacts
<1> HIDE DEF n
<1>2. /\ Below \o <<x, y>> \in Seq(CallSet) /\ Len(Below \o <<x, y>>) = n + 2
      /\ \A i \in 1..n : (Below \o <<x, y>>)[i] = Below[i]
      /\ (Below \o <<x, y>>)[n + 1] = x /\ (Below \o <<x, y>>)[n + 2] = y
  BY <1>1, EndedByTwo
<1>3. /\ t \in Seq(CallSet) /\ Len(t) = n + 1 /\ t[n + 1] = x
      /\ \A i \in 1..n : t[i] = Below[i]
  BY <1>1, EndedBy
<1> HIDE DEF t
<1>4. /\ t \o <<y>> \in Seq(CallSet) /\ Len(t \o <<y>>) = (n + 1) + 1
      /\ \A i \in 1..(n + 1) : (t \o <<y>>)[i] = t[i]
      /\ (t \o <<y>>)[(n + 1) + 1] = y
  BY <1>1, <1>3, EndedBy
<1>5. /\ (n + 1) - 1 = n /\ (n + 1) + 1 = n + 2 /\ n + 1 \in 1..(n + 1)
      /\ \A i \in 1..n : i \in 1..(n + 1)
  BY <1>1
<1>6. Ends(t \o <<y>>, x, y)
  BY <1>1, <1>3, <1>4, <1>5 DEF Ends
<1> QED  BY <1>1, <1>2, <1>5, <1>6 DEF Ends, t

LEMMA GoesOnInto ==
  ASSUME StackOK, Stays, held \subseteq held', stack # <<>>,
         NEW x, Sound(x)', x.op = Top.op, x.op # "free",
         x.op = "use" => x.buffer = Top.buffer,
         NEW y, Sound(y)', y.op # "free", y.op = "use" => y.buffer \notin held,
         Ends(stack', x, y)
  PROVE  StackOK'
<1> DEFINE n == Len(stack) - 1
<1>1. /\ n \in Nat /\ n <= Len(stack) /\ n + 1 = Len(stack) /\ n + 2 = Len(stack) + 1
      /\ n <= n + 2 /\ n + 2 \in Nat
  BY TopFacts
<1>2. /\ Sound(Top)
      /\ \A i \in 1..n : Below[i] = stack[i] /\ stack[i].op # "free" /\ Sound(stack[i])
      /\ \A i \in 1..n :
           stack[i].op = "use" /\ Top.op = "use" => stack[i].buffer # Top.buffer
  BY TopFacts
<1> HIDE DEF n
<1>3. /\ stack' \in Seq(CallSet) /\ Len(stack') = n + 2
      /\ \A i \in 1..n : stack'[i] = Below[i]
      /\ stack'[n + 1] = x /\ stack'[n + 2] = y
  BY <1>1 DEF Ends, n
<1>4. \A i \in 1..n : /\ stack'[i] = stack[i] /\ stack[i].op # "free"
                      /\ stack[i].op = "use" => stack[i].buffer \in held
  BY <1>2, <1>3 DEF Sound
<1>5. \A i \in (n + 1)..(n + 2) : i = n + 1 \/ i = n + 2  BY <1>1
<1>6. x.op = "use" => x.buffer \in held
  BY <1>2 DEF Sound
<1>7. ASSUME NEW i \in 1..(n + 2), NEW j \in 1..(n + 2), i # j, j > n,
             stack'[i].op = "use", stack'[j].op = "use"
      PROVE  stack'[i].buffer # stack'[j].buffer
  <2>1. \/ (j = n + 1 /\ i \in 1..n) \/ (j = n + 2 /\ i \in 1..n)
        \/ (j = n + 1 /\ i = n + 2) \/ (j = n + 2 /\ i = n + 1)
    BY <1>1, <1>7
  <2>2. CASE j = n + 1 /\ i \in 1..n  BY <1>2, <1>3, <1>4, <1>7, <2>2
  <2>3. CASE j = n + 2 /\ i \in 1..n  BY <1>3, <1>4, <1>7, <2>3
  <2>4. CASE (j = n + 1 /\ i = n + 2) \/ (j = n + 2 /\ i = n + 1)
    BY <1>3, <1>6, <1>7, <2>4
  <2> QED  BY <2>1, <2>2, <2>3, <2>4
<1>8. \A i \in (n + 1)..(n + 2) : Sound(stack[i])' /\ (stack'[i].op = "free" => n + 2 = 1)
  BY <1>3, <1>5
<1>9. \A i \in 1..n : /\ stack'[i] = stack[i] /\ stack[i].op # "free"
                      /\ stack[i].op = "use" => stack[i].buffer \in held'
  BY <1>4
<1> QED  BY <1>1, <1>3, <1>7, <1>8, <1>9, StackGoes

\* The stack is empty, or of one call, or of two that ask.
LEMMA StackEnds ==
  ASSUME stack' \in Seq(CallSet), Len(stack') = 0
  PROVE  StackOK'
  BY DEF StackOK

LEMMA StackStarts ==
  ASSUME NEW x, stack' \in Seq(CallSet), Len(stack') = 1, stack'[1] = x, Sound(x)'
  PROVE  StackOK'
<1>1. \A i \in 1..1 : i = 1  OBVIOUS
<1> QED  BY <1>1 DEF StackOK

LEMMA StackAsks ==
  ASSUME NEW x, NEW y, stack' \in Seq(CallSet), Len(stack') = 2, stack'[1] = x, stack'[2] = y,
         Sound(x)', Sound(y)', x.op \notin {"use", "free"}, y.op \notin {"use", "free"}
  PROVE  StackOK'
<1>1. \A i \in 1..2 : i = 1 \/ i = 2  OBVIOUS
<1> QED  BY <1>1 DEF StackOK

LEMMA ShortStacks ==
  /\ <<>> \in Seq(CallSet) /\ Len(<<>>) = 0
  /\ \A x \in CallSet : <<x>> \in Seq(CallSet) /\ Len(<<x>>) = 1 /\ <<x>>[1] = x
  /\ \A x, y \in CallSet : /\ <<x, y>> \in Seq(CallSet) /\ Len(<<x, y>>) = 2
                           /\ <<x, y>>[1] = x /\ <<x, y>>[2] = y
  OBVIOUS

-----------------------------------------------------------------------------
(***************************************************************************)
(* The calls that are made.                                                *)
(***************************************************************************)
LEMMA AskSound ==
  ASSUME NEW c \in AskSet, c.hemp \in hemps', c.next # 0
  PROVE  Sound(c)' /\ c.op \notin {"use", "free"} /\ c \in CallSet
<1>1. c.op \in {"instance", "constructor"} /\ c \in CallSet
  BY DEF AskSet, CallSet
<1> QED  BY <1>1 DEF Sound

LEMMA UseSound ==
  ASSUME NEW c \in UseSet, c.hemp \in hemps', c.buffer \in held',
         c.found \in Paths' \union {Null}, c.stage # "find" => c.found \in Paths'
  PROVE  Sound(c)' /\ c.op = "use" /\ c \in CallSet
<1>1. c.op = "use" /\ c \in CallSet
  BY DEF UseSet, CallSet
<1> QED  BY <1>1 DEF Sound

LEMMA BodySound ==
  ASSUME NEW c \in BodySet, c.hemp \in hemps', Loaded(c.owner)', c.owner # Null
  PROVE  Sound(c)' /\ c.op = "body" /\ c \in CallSet
<1>1. c.op = "body" /\ c \in CallSet
  BY DEF BodySet, CallSet
<1> QED  BY <1>1 DEF Sound

LEMMA FreeSound ==
  ASSUME NEW c \in FreeSet, c.hemp \in hemps',
         c.stage = "global" => actions'[c.hemp] = Nothing /\ instances'[c.hemp] = Nothing
  PROVE  Sound(c)' /\ c.op = "free" /\ c \in CallSet
<1>1. c.op = "free" /\ c \in CallSet
  BY DEF FreeSet, CallSet
<1> QED  BY <1>1 DEF Sound

\* What a call becomes.
LEMMA AskChanges ==
  ASSUME NEW c \in AskSet, NEW n \in Nat, NEW l \in BOOLEAN
  PROVE  /\ [c EXCEPT !.next = n] \in AskSet
         /\ [c EXCEPT !.next = n].op = c.op /\ [c EXCEPT !.next = n].hemp = c.hemp
         /\ [c EXCEPT !.next = n].next = n
         /\ [c EXCEPT !.next = n, !.loaded = l] \in AskSet
         /\ [c EXCEPT !.next = n, !.loaded = l].op = c.op
         /\ [c EXCEPT !.next = n, !.loaded = l].hemp = c.hemp
         /\ [c EXCEPT !.next = n, !.loaded = l].next = n
         /\ [c EXCEPT !.stage = "made"] \in AskSet
         /\ [c EXCEPT !.stage = "made"].op = c.op /\ [c EXCEPT !.stage = "made"].hemp = c.hemp
         /\ [c EXCEPT !.stage = "made"].next = c.next
  BY DEF AskSet

LEMMA UseFinds ==
  ASSUME NEW c \in UseSet, NEW p \in Thing
  PROVE  /\ [c EXCEPT !.stage = "bind", !.found = p] \in UseSet
         /\ [c EXCEPT !.stage = "bind", !.found = p].op = c.op
         /\ [c EXCEPT !.stage = "bind", !.found = p].hemp = c.hemp
         /\ [c EXCEPT !.stage = "bind", !.found = p].buffer = c.buffer
         /\ [c EXCEPT !.stage = "bind", !.found = p].found = p
  BY DEF UseSet

LEMMA UseBinds ==
  ASSUME NEW c \in UseSet
  PROVE  /\ [c EXCEPT !.stage = "bound"] \in UseSet
         /\ [c EXCEPT !.stage = "bound"].op = c.op /\ [c EXCEPT !.stage = "bound"].hemp = c.hemp
         /\ [c EXCEPT !.stage = "bound"].buffer = c.buffer
         /\ [c EXCEPT !.stage = "bound"].found = c.found
  BY DEF UseSet

LEMMA BodyChanges ==
  ASSUME NEW c \in BodySet, NEW x
  PROVE  /\ [c EXCEPT !.todo = @ \ {x}] \in BodySet
         /\ [c EXCEPT !.todo = @ \ {x}].op = c.op /\ [c EXCEPT !.todo = @ \ {x}].hemp = c.hemp
         /\ [c EXCEPT !.todo = @ \ {x}].owner = c.owner
  BY DEF BodySet

LEMMA FreeChanges ==
  ASSUME NEW c \in FreeSet
  PROVE  /\ [c EXCEPT !.stage = "global"] \in FreeSet
         /\ [c EXCEPT !.stage = "global"].op = "free"
         /\ [c EXCEPT !.stage = "global"].hemp = c.hemp
         /\ [c EXCEPT !.stage = "global"].stage = "global"
  BY DEF FreeSet

LEMMA NewCalls ==
  ASSUME NEW h \in Hemp, NEW x \in Thing
  PROVE  /\ \A op \in {"instance", "constructor"} :
              Ask(op, h, x) \in AskSet /\ Ask(op, h, x).hemp = h /\ Ask(op, h, x).next = 1
         /\ \A b \in Buffer : /\ Use(h, x, b) \in UseSet /\ Use(h, x, b).hemp = h
                              /\ Use(h, x, b).buffer = b /\ Use(h, x, b).found = Null
                              /\ Use(h, x, b).stage = "find"
         /\ \A o \in Owners, S \in SUBSET Thing :
              Body(h, o, S) \in BodySet /\ Body(h, o, S).hemp = h /\ Body(h, o, S).owner = o
         /\ Release(h) \in FreeSet /\ Release(h).hemp = h /\ Release(h).stage = "factories"
  BY DEF AskSet, UseSet, BodySet, FreeSet, Ask, Use, Body, Release

-----------------------------------------------------------------------------
(***************************************************************************)
(* What a step leaves of the tables.                                       *)
(***************************************************************************)
LEMMA TablesStay ==
  ASSUME RegInv, UNCHANGED <<hemps, count, actions, instances, modules>>,
         text' \in [Buffer -> Thing \union {Null}], held' \subseteq Buffer, exited' \in BOOLEAN
  PROVE  TablesOK' /\ LifeOK' /\ CodeOK' /\ Stays
<1>1. \A o : Loaded(o) => Loaded(o)'
  BY StaysSame, LoadedStays
<1>2. TablesOK'  BY DEF RegInv, TablesOK
<1>3. LifeOK'  BY DEF RegInv, LifeOK, Paths
<1>4. CodeOK'  BY <1>1 DEF RegInv, CodeOK
<1> QED  BY <1>2, <1>3, <1>4, StaysSame

\* The step is one of the stack alone.
LEMMA StackOnly ==
  ASSUME RegInv,
         UNCHANGED <<hemps, count, actions, instances, modules, text, held, exited>>
  PROVE  TablesOK' /\ LifeOK' /\ CodeOK' /\ Stays /\ held \subseteq held' /\ HeldStays
<1>1. /\ text' \in [Buffer -> Thing \union {Null}] /\ held' \subseteq Buffer
      /\ exited' \in BOOLEAN
  BY DEF RegInv, TablesOK
<1> QED  BY <1>1, TablesStay DEF HeldStays

\* Things have factories, and the calls on a Hemp are on one of the type.
LEMMA FactoryThere ==
  ASSUME NEW h, NEW x \in Thing, ~ HasFactory(h, x)
  PROVE  Factory(x[1]) \in Thing
  BY RegistryAssumption DEF HasFactory

LEMMA TopIs ==
  ASSUME RegInv, stack # <<>>
  PROVE  /\ Sound(Top) /\ Top \in CallSet /\ Top.hemp \in hemps /\ Top.hemp \in Hemp
         /\ Top.op \in {"instance", "constructor"} =>
              Top \in AskSet /\ Top.thing \in Thing /\ Top.next \in Nat /\ Top.next # 0
         /\ Top.op = "use" => /\ Top \in UseSet /\ Top.thing \in Thing
                              /\ Top.buffer \in held /\ Top.buffer \in Buffer
                              /\ Top.stage # "find" => Top.found \in Paths
         /\ Top.op = "body" => /\ Top \in BodySet /\ Top.owner \in Owners
                               /\ Top.todo \in SUBSET Thing
                               /\ Loaded(Top.owner) /\ Top.owner # Null
         /\ Top.op = "free" => Top \in FreeSet
<1>1. Sound(Top) /\ Top \in CallSet /\ Top.hemp \in hemps
  BY TopFacts DEF RegInv, Sound
<1>2. Top.hemp \in Hemp /\ (Top.op = "use" => Top.buffer \in Buffer)
  BY <1>1 DEF Sound, RegInv, TablesOK
<1>3. /\ Top.op \in {"instance", "constructor"} => Top \in AskSet
      /\ Top.op = "use" => Top \in UseSet
      /\ Top.op = "body" => Top \in BodySet
      /\ Top.op = "free" => Top \in FreeSet
  BY <1>1, Kinds
<1>4. /\ Top \in AskSet => Top.thing \in Thing /\ Top.next \in Nat
      /\ Top \in UseSet => Top.thing \in Thing
      /\ Top \in BodySet => Top.owner \in Owners /\ Top.todo \in SUBSET Thing
  BY DEF AskSet, UseSet, BodySet
<1> QED  BY <1>1, <1>2, <1>3, <1>4 DEF Sound

-----------------------------------------------------------------------------
(***************************************************************************)
(* Hemp objects.                                                           *)
(***************************************************************************)
LEMMA NewInv ==
  ASSUME RegInv, NEW h \in Hemp, New(h)
  PROVE  RegInv'
<1>1. /\ stack = <<>> /\ h \notin hemps /\ hemps' = hemps \union {h} /\ count' = count + 1
      /\ modules' = (IF count = 0 THEN Nothing ELSE modules)
      /\ UNCHANGED <<actions, instances, text, held, stack, exited>>
  BY DEF New, Ready
<1>2. /\ hemps \subseteq Hemp /\ IsFiniteSet(hemps) /\ count = Cardinality(hemps)
  BY DEF RegInv, TablesOK
<1>3. IsFiniteSet(hemps') /\ count' = Cardinality(hemps')
  BY <1>1, <1>2, FS_AddElement
<1>4. count = 0 => Paths = {}
  BY <1>2, FS_EmptySet DEF RegInv, LifeOK
<1>5. modules' = modules
  <2>1. CASE count = 0
    <3>1. modules \in [Thing -> [key : Buffer, load : Loads] \union {Null}]
      BY DEF RegInv, TablesOK
    <3>2. \A x \in Thing : modules[x] = Null
      BY <1>4, <2>1 DEF Paths
    <3>3. modules = Nothing
      BY <3>1, <3>2 DEF Nothing
    <3> QED  BY <1>1, <2>1, <3>3
  <2>2. CASE count # 0
    BY <1>1, <2>2
  <2> QED  BY <2>1, <2>2
<1>6. Stays
  BY <1>1, <1>5 DEF Stays
<1>7. TablesOK'
  BY <1>1, <1>2, <1>3, <1>5 DEF RegInv, TablesOK
<1>8. LifeOK'
  BY <1>1 DEF RegInv, LifeOK
<1>9. CodeOK'
  <2>1. \A o : Loaded(o) => Loaded(o)'  BY <1>6, LoadedStays
  <2> QED  BY <1>1, <2>1 DEF RegInv, CodeOK
<1>10. StackOK'
  BY <1>1, ShortStacks, StackEnds
<1> QED  BY <1>7, <1>8, <1>9, <1>10 DEF RegInv

LEMMA FreeInv ==
  ASSUME RegInv, NEW h \in Hemp, Free(h)
  PROVE  RegInv'
<1>1. /\ h \in hemps /\ stack' = <<Release(h)>>
      /\ UNCHANGED <<hemps, count, actions, instances, modules, text, held, exited>>
  BY DEF Free
<1>2. TablesOK' /\ LifeOK' /\ CodeOK'
  BY <1>1, StackOnly
<1>3. Release(h) \in FreeSet /\ Release(h).hemp = h /\ Release(h).stage # "global"
  BY DEF Release, FreeSet
<1>4. Sound(Release(h))' /\ Release(h) \in CallSet
  BY <1>1, <1>3, FreeSound
<1>5. StackOK'
  BY <1>1, <1>4, ShortStacks, StackStarts
<1> QED  BY <1>2, <1>5 DEF RegInv

LEMMA FreeFactoriesInv ==
  ASSUME RegInv, FreeFactories
  PROVE  RegInv'
<1> PICK h, x : h = Top.hemp /\ x = [Top EXCEPT !.stage = "global"]
  OBVIOUS
<1>1. /\ stack # <<>> /\ Top.op = "free" /\ stack' = Below \o <<x>>
      /\ actions' = [actions EXCEPT ![h] = Nothing]
      /\ instances' = [instances EXCEPT ![h] = Nothing]
      /\ UNCHANGED <<hemps, count, modules, text, held, exited>>
  BY DEF FreeFactories, At, Become
<1>2. h \in hemps /\ h \in Hemp /\ Top \in FreeSet
  BY <1>1, TopIs
<1>3. x \in FreeSet /\ x.op = "free" /\ x.hemp = h
  BY <1>2, FreeChanges
<1>4. Len(stack) = 1 /\ Below \in Seq(CallSet) /\ Len(Below) = Len(stack) - 1
  BY <1>1, TopFacts DEF RegInv
<1>5. /\ actions \in [Hemp -> [Thing -> Owners]] /\ instances \in [Hemp -> [Thing -> Owners]]
      /\ Nothing \in [Thing -> Owners]
  BY DEF RegInv, TablesOK, Nothing, Owners
<1>6. /\ actions' \in [Hemp -> [Thing -> Owners]] /\ instances' \in [Hemp -> [Thing -> Owners]]
      /\ actions'[h] = Nothing /\ instances'[h] = Nothing
      /\ \A g \in Hemp : g # h => actions'[g] = actions[g] /\ instances'[g] = instances[g]
  BY <1>1, <1>2, <1>5
<1>7. TablesOK'
  BY <1>1, <1>6 DEF RegInv, TablesOK
<1>8. LifeOK'
  <2>1. Paths' = Paths  BY <1>1 DEF Paths
  <2> QED  BY <1>1, <1>2, <1>6, <2>1 DEF RegInv, LifeOK
<1>9. CodeOK'
  <2>1. \A o : Loaded(o) => Loaded(o)'  BY <1>1, StaysSame, LoadedStays
  <2>2. Loaded(Null)' /\ \A y \in Thing : Nothing[y] = Null  BY DEF Loaded, Nothing
  <2>3. ASSUME NEW g \in Hemp, NEW y \in Thing
        PROVE  Loaded(actions[g][y])' /\ Loaded(instances[g][y])'
    <3>1. CASE g = h  BY <1>6, <2>2, <3>1
    <3>2. CASE g # h
      <4>1. Loaded(actions[g][y]) /\ Loaded(instances[g][y])  BY DEF RegInv, CodeOK
      <4>2. actions'[g] = actions[g] /\ instances'[g] = instances[g]  BY <1>6, <3>2
      <4> QED  BY <2>1, <4>1, <4>2
    <3> QED  BY <3>1, <3>2
  <2> QED  BY <2>3 DEF CodeOK
<1>10. StackOK'
  <2>1. x.hemp \in hemps' /\ actions'[x.hemp] = Nothing /\ instances'[x.hemp] = Nothing
    BY <1>1, <1>2, <1>3, <1>6
  <2>2. Sound(x)' /\ x \in CallSet
    BY <1>3, <2>1, FreeSound
  <2>3. stack' \in Seq(CallSet) /\ Len(stack') = Len(Below) + 1 /\ stack'[Len(Below) + 1] = x
    BY <1>1, <1>4, <2>2, EndedBy
  <2>4. Len(stack') = 1 /\ stack'[1] = x
    BY <1>4, <2>3
  <2> QED  BY <2>2, <2>3, <2>4, StackStarts
<1> QED  BY <1>7, <1>8, <1>9, <1>10 DEF RegInv

LEMMA FreeGlobalInv ==
  ASSUME RegInv, FreeGlobal
  PROVE  RegInv'
<1> PICK h : h = Top.hemp
  OBVIOUS
<1>1. /\ stack # <<>> /\ Top.op = "free" /\ Top.stage = "global" /\ stack' = Below
      /\ hemps' = hemps \ {h} /\ count' = count - 1
      /\ modules' = (IF count = 1 THEN Nothing ELSE modules)
      /\ UNCHANGED <<actions, instances, text, held, exited>>
  BY DEF FreeGlobal, At
<1>2. h \in hemps /\ h \in Hemp /\ actions[h] = Nothing /\ instances[h] = Nothing
  BY <1>1, TopIs DEF Sound
<1>3. Len(stack) = 1 /\ Below \in Seq(CallSet) /\ Len(Below) = Len(stack) - 1
  BY <1>1, TopFacts DEF RegInv
<1>4. hemps \subseteq Hemp /\ IsFiniteSet(hemps) /\ count = Cardinality(hemps)
  BY DEF RegInv, TablesOK
<1>5. IsFiniteSet(hemps') /\ count' = Cardinality(hemps')
  BY <1>1, <1>2, <1>4, FS_RemoveElement
<1>6. count = 1 <=> hemps' = {}
  <2>1. count \in Nat  BY <1>4, FS_CardinalityType
  <2>2. count' = 0 <=> hemps' = {}  BY <1>5, FS_EmptySet
  <2> QED  BY <1>1, <2>1, <2>2
<1>7. TablesOK'
  <2> DEFINE Slots == [Thing -> [key : Buffer, load : Loads] \union {Null}]
  <2>1. modules \in Slots  BY DEF RegInv, TablesOK
  <2>2. Nothing \in Slots  BY DEF Nothing
  <2> HIDE DEF Slots
  <2>3. modules' \in Slots  BY <1>1, <2>1, <2>2
  <2> QED  BY <1>1, <1>4, <1>5, <2>3 DEF RegInv, TablesOK, Slots
<1>8. \A g \in Hemp \ hemps' : actions'[g] = Nothing /\ instances'[g] = Nothing
  BY <1>1, <1>2 DEF RegInv, LifeOK
<1>9. count = 1 => Paths' = {}
  <2> SUFFICES ASSUME count = 1  PROVE Paths' = {}
    OBVIOUS
  <2>1. \A p \in Thing : modules'[p] = Null  BY <1>1 DEF Nothing
  <2> QED  BY <2>1 DEF Paths
<1>10. LifeOK'
  BY <1>6, <1>8, <1>9 DEF LifeOK
<1>11. CodeOK'
  <2>1. CASE count = 1
    <3>1. Loaded(Null)' /\ \A y \in Thing : Nothing[y] = Null  BY DEF Loaded, Nothing
    <3>2. \A g \in Hemp : actions'[g] = Nothing /\ instances'[g] = Nothing
      BY <1>6, <1>8, <2>1
    <3> QED  BY <3>1, <3>2 DEF CodeOK
  <2>2. CASE count # 1
    <3>1. modules' = modules  BY <1>1, <2>2
    <3>2. \A o : Loaded(o) => Loaded(o)'  BY <3>1 DEF Loaded, Paths, LoadOf
    <3> QED  BY <1>1, <3>2 DEF RegInv, CodeOK
  <2> QED  BY <2>1, <2>2
<1>12. StackOK'
  BY <1>1, <1>3, StackEnds
<1> QED  BY <1>7, <1>10, <1>11, <1>12 DEF RegInv

-----------------------------------------------------------------------------
(***************************************************************************)
(* Calls of the program, and factories.                                    *)
(***************************************************************************)
LEMMA RegisterInv ==
  ASSUME RegInv, NEW h \in Hemp, NEW x \in Thing, Register(h, x)
  PROVE  RegInv'
<1>1. /\ h \in hemps /\ stack' = <<Body(h, Core, {x})>>
      /\ UNCHANGED <<hemps, count, actions, instances, modules, text, held, exited>>
  BY DEF Register
<1>2. TablesOK' /\ LifeOK' /\ CodeOK'
  BY <1>1, StackOnly
<1>3. PICK c : c = Body(h, Core, {x})
  OBVIOUS
<1>4. c \in BodySet /\ c.hemp = h /\ c.owner = Core
  BY <1>3, NewCalls DEF Owners
<1>5. Loaded(c.owner)' /\ c.owner # Null
  BY <1>4, RegistryAssumption DEF Loaded
<1>6. Sound(c)' /\ c \in CallSet
  BY <1>1, <1>4, <1>5, BodySound
<1>7. StackOK'
  BY <1>1, <1>3, <1>6, ShortStacks, StackStarts
<1> QED  BY <1>2, <1>7 DEF RegInv

LEMMA FetchInv ==
  ASSUME RegInv, NEW h \in Hemp, NEW x \in Thing, NEW op \in {"instance", "constructor"},
         Fetch(op, h, x)
  PROVE  RegInv'
<1>1. PICK c : c = Ask(op, h, x)
  OBVIOUS
<1>2. PICK d : d = Ask("instance", h, Factory(x[1]))
  OBVIOUS
<1>3. /\ h \in hemps
      /\ stack' = (IF HasFactory(h, x) THEN <<c>> ELSE <<c, d>>)
      /\ UNCHANGED <<hemps, count, actions, instances, modules, text, held, exited>>
  BY <1>1, <1>2 DEF Fetch
<1>4. TablesOK' /\ LifeOK' /\ CodeOK'
  BY <1>3, StackOnly
<1>5. c \in AskSet /\ c.hemp = h /\ c.next = 1
  BY <1>1, NewCalls
<1>6. Sound(c)' /\ c.op \notin {"use", "free"} /\ c \in CallSet
  <2>1. c.hemp \in hemps' /\ c.next # 0  BY <1>3, <1>5
  <2> QED  BY <1>5, <2>1, AskSound
<1>7. CASE HasFactory(h, x)
  <2>1. stack' = <<c>>  BY <1>3, <1>7
  <2>2. StackOK'  BY <1>6, <2>1, ShortStacks, StackStarts
  <2> QED  BY <1>4, <2>2 DEF RegInv
<1>8. CASE ~ HasFactory(h, x)
  <2>1. stack' = <<c, d>>  BY <1>3, <1>8
  <2>2. d \in AskSet /\ d.hemp = h /\ d.next = 1
    BY <1>2, <1>8, FactoryThere, NewCalls
  <2>3. Sound(d)' /\ d.op \notin {"use", "free"} /\ d \in CallSet
    <3>1. d.hemp \in hemps' /\ d.next # 0  BY <1>3, <2>2
    <3> QED  BY <2>2, <3>1, AskSound
  <2>4. StackOK'  BY <1>6, <2>1, <2>3, ShortStacks, StackAsks
  <2> QED  BY <1>4, <2>4 DEF RegInv
<1> QED  BY <1>7, <1>8

LEMMA AskingIs ==
  ASSUME RegInv, Asking
  PROVE  /\ stack # <<>> /\ Top.op \in {"instance", "constructor"} /\ Top \in AskSet
         /\ Top.hemp \in hemps /\ Top.hemp \in Hemp /\ Top.thing \in Thing
         /\ Top.next \in Nat /\ Top.next # 0
         /\ TopAction \in Owners /\ Loaded(TopAction)
<1>1. stack # <<>> /\ Top.op \in {"instance", "constructor"}
  BY DEF Asking, At
<1>2. /\ Top \in AskSet /\ Top.hemp \in hemps /\ Top.hemp \in Hemp /\ Top.thing \in Thing
      /\ Top.next \in Nat /\ Top.next # 0
  BY <1>1, TopIs
<1>3. TopAction \in Owners /\ Loaded(TopAction)
  BY <1>2 DEF RegInv, TablesOK, CodeOK, TopAction
<1> QED  BY <1>1, <1>2, <1>3

LEMMA KnownInv ==
  ASSUME RegInv, Known
  PROVE  RegInv'
<1>1. /\ Asking
      /\ UNCHANGED <<hemps, count, actions, instances, modules, text, held, exited>>
  BY DEF Known
<1>2. TablesOK' /\ LifeOK' /\ CodeOK' /\ Stays /\ held \subseteq held' /\ HeldStays
  BY <1>1, StackOnly
<1>3. /\ stack # <<>> /\ Top.op \in {"instance", "constructor"} /\ Top \in AskSet
      /\ Top.hemp \in hemps' /\ Top.hemp \in Hemp /\ Top.thing \in Thing /\ Top.next # 0
      /\ TopAction \in Owners /\ Loaded(TopAction) /\ TopAction # Null /\ StackOK
  BY <1>1, AskingIs DEF RegInv, Known
<1>4. PICK c : c = [Top EXCEPT !.stage = "made"]
  OBVIOUS
<1>5. PICK d : d = Body(Top.hemp, TopAction, Makes[Top.thing])
  OBVIOUS
<1>6. stack' = (IF Top.op = "constructor" THEN Below ELSE (Below \o <<c>>) \o <<d>>)
  BY <1>4, <1>5 DEF Known, Become
<1>7. CASE Top.op = "constructor"
  <2>1. StackOK'  BY <1>2, <1>3, <1>6, <1>7, Returned
  <2> QED  BY <1>2, <2>1 DEF RegInv
<1>8. CASE Top.op # "constructor"
  <2>1. c \in AskSet /\ c.hemp = Top.hemp /\ c.next = Top.next /\ c.op = Top.op
    BY <1>3, <1>4, AskChanges
  <2>2. Sound(c)' /\ c.op \notin {"use", "free"} /\ c \in CallSet
    <3>1. c.hemp \in hemps' /\ c.next # 0  BY <1>3, <2>1
    <3> QED  BY <2>1, <3>1, AskSound
  <2>3. d \in BodySet /\ d.hemp = Top.hemp /\ d.owner = TopAction
    <3>1. Makes[Top.thing] \in SUBSET Thing  BY <1>3, RegistryAssumption
    <3> QED  BY <1>3, <1>5, <3>1, NewCalls
  <2>4. Loaded(d.owner)' /\ d.owner # Null
    <3>1. Loaded(d.owner) /\ d.owner # Null  BY <1>3, <2>3
    <3> QED  BY <1>2, <3>1, LoadedStays
  <2>5. Sound(d)' /\ d.op = "body" /\ d \in CallSet
    <3>1. d.hemp \in hemps'  BY <1>3, <2>3
    <3> QED  BY <2>3, <2>4, <3>1, BodySound
  <2>6. Ends(stack', c, d)
    BY <1>3, <1>6, <1>8, <2>2, <2>5, EndsTwo
  <2>7. StackOK'
    BY <1>2, <1>3, <2>1, <2>2, <2>5, <2>6, GoesOnInto
  <2> QED  BY <1>2, <2>7 DEF RegInv
<1> QED  BY <1>7, <1>8

LEMMA UntriedFirst ==
  ASSUME RegInv, Asking, Untried # {}
  PROVE  /\ Min(Untried) \in Nat /\ Min(Untried) + 1 # 0
         /\ Wild[Top.thing][Min(Untried)] \in Thing
         /\ actions[Top.hemp][Wild[Top.thing][Min(Untried)]] # Null
<1>1. Top.next \in Nat /\ Top.thing \in Thing
  BY AskingIs
<1>2. Wild[Top.thing] \in Seq(Thing)
  BY <1>1, RegistryAssumption
<1>3. Len(Wild[Top.thing]) \in Nat
  BY <1>2
<1>4. Untried \subseteq Nat
  BY <1>1, <1>3 DEF Untried
<1>5. PICK i \in Untried : \A j \in Untried : ~ (<<j, i>> \in OpToRel(<, Nat))
  BY <1>4, NatLessThanWellFounded, WFMin
<1>6. ASSUME NEW j \in Untried  PROVE i <= j
  <2>1. i \in Nat /\ j \in Nat  BY <1>4
  <2>2. ~ (j < i)  BY <1>5, <2>1 DEF OpToRel
  <2> QED  BY <2>1, <2>2
<1>7. Min(Untried) \in Untried
  BY <1>6 DEF Min
<1>8. /\ Min(Untried) \in Top.next..Len(Wild[Top.thing])
      /\ actions[Top.hemp][Wild[Top.thing][Min(Untried)]] # Null
  BY <1>7 DEF Untried
<1>9. Top.next # 0
  BY AskingIs
<1>10. Min(Untried) \in Nat /\ Min(Untried) \in 1..Len(Wild[Top.thing])
  BY <1>1, <1>3, <1>8, <1>9
<1> QED  BY <1>2, <1>8, <1>10, ElementOfSeq

LEMMA TryWildcardInv ==
  ASSUME RegInv, TryWildcard
  PROVE  RegInv'
<1>1. /\ Asking /\ Untried # {}
      /\ UNCHANGED <<hemps, count, actions, instances, modules, text, held, exited>>
  BY DEF TryWildcard
<1>2. TablesOK' /\ LifeOK' /\ CodeOK' /\ Stays /\ held \subseteq held' /\ HeldStays
  BY <1>1, StackOnly
<1>3. /\ stack # <<>> /\ Top.op \in {"instance", "constructor"} /\ Top \in AskSet
      /\ Top.hemp \in hemps' /\ Top.hemp \in Hemp /\ Top.thing \in Thing /\ StackOK
  BY <1>1, AskingIs DEF RegInv
<1>4. PICK i : i = Min(Untried)
  OBVIOUS
<1>5. PICK w : w = Wild[Top.thing][i]
  OBVIOUS
<1>6. i + 1 \in Nat /\ i + 1 # 0 /\ w \in Thing
  BY <1>1, <1>4, <1>5, UntriedFirst
<1>7. PICK o : o = actions[Top.hemp][w]
  OBVIOUS
<1>8. o \in Owners /\ Loaded(o) /\ o # Null
  <2>1. o # Null  BY <1>1, <1>4, <1>5, <1>7, UntriedFirst
  <2> QED  BY <1>3, <1>6, <1>7, <2>1 DEF RegInv, TablesOK, CodeOK
<1>9. PICK c : c = [Top EXCEPT !.next = i + 1]
  OBVIOUS
<1>10. PICK d : d = Body(Top.hemp, o, Makes[w])
  OBVIOUS
<1>11. stack' = Below \o <<c, d>>
  BY <1>4, <1>5, <1>7, <1>9, <1>10 DEF TryWildcard
<1>12. c \in AskSet /\ c.hemp = Top.hemp /\ c.next = i + 1 /\ c.op = Top.op
  BY <1>3, <1>6, <1>9, AskChanges
<1>13. Sound(c)' /\ c.op \notin {"use", "free"} /\ c \in CallSet
  <2>1. c.hemp \in hemps' /\ c.next # 0  BY <1>3, <1>6, <1>12
  <2> QED  BY <1>12, <2>1, AskSound
<1>14. d \in BodySet /\ d.hemp = Top.hemp /\ d.owner = o
  <2>1. Makes[w] \in SUBSET Thing  BY <1>6, RegistryAssumption
  <2> QED  BY <1>3, <1>8, <1>10, <2>1, NewCalls
<1>15. Sound(d)' /\ d.op = "body" /\ d \in CallSet
  <2>1. Loaded(d.owner) /\ d.owner # Null  BY <1>8, <1>14
  <2>2. Loaded(d.owner)' /\ d.owner # Null /\ d.hemp \in hemps'
    BY <1>2, <1>3, <1>14, <2>1, LoadedStays
  <2> QED  BY <1>14, <2>2, BodySound
<1>16. Ends(stack', c, d)
  BY <1>3, <1>11, <1>13, <1>15, EndsTwo
<1>17. StackOK'
  BY <1>2, <1>3, <1>12, <1>13, <1>15, <1>16, GoesOnInto
<1> QED  BY <1>2, <1>17 DEF RegInv

\* The call that asks uses a module, and the text of its path is a new one.
LEMMA LoadInv ==
  ASSUME RegInv, Load
  PROVE  RegInv'
<1>1. /\ Asking /\ Open(TRUE)
      /\ UNCHANGED <<hemps, count, actions, instances, modules, exited>>
  BY DEF Load, Unknown
<1>2. /\ stack # <<>> /\ Top.op \in {"instance", "constructor"} /\ Top \in AskSet
      /\ Top.hemp \in hemps' /\ Top.hemp \in Hemp /\ Top.thing \in Thing /\ StackOK
  BY <1>1, AskingIs DEF RegInv
<1>3. PICK c : c = [Top EXCEPT !.next = 1, !.loaded = TRUE]
  OBVIOUS
<1>4. PICK b \in Buffer \ held :
         /\ text' = [text EXCEPT ![b] = Top.thing]
         /\ held' = held \union {b}
         /\ stack' = Below \o <<c, Use(Top.hemp, Top.thing, b)>>
  BY <1>1, <1>3 DEF Open
<1>5. PICK d : d = Use(Top.hemp, Top.thing, b)
  OBVIOUS
<1>6. /\ text' \in [Buffer -> Thing \union {Null}] /\ held' \subseteq Buffer
      /\ exited' \in BOOLEAN
  <2>1. text \in [Buffer -> Thing \union {Null}] /\ held \subseteq Buffer /\ exited \in BOOLEAN
    BY DEF RegInv, TablesOK
  <2> QED  BY <1>1, <1>2, <1>4, <2>1
<1>7. TablesOK' /\ LifeOK' /\ CodeOK' /\ Stays
  BY <1>1, <1>6, TablesStay
<1>8. c \in AskSet /\ c.hemp = Top.hemp /\ c.next = 1 /\ c.op = Top.op
  BY ZenonT(60), <1>2, <1>3, AskChanges
<1>9. Sound(c)' /\ c.op \notin {"use", "free"} /\ c \in CallSet
  <2>1. c.hemp \in hemps' /\ c.next # 0  BY <1>2, <1>8
  <2> QED  BY <1>8, <2>1, AskSound
<1>10. /\ d \in UseSet /\ d.hemp = Top.hemp /\ d.buffer = b /\ d.found = Null
       /\ d.stage = "find"
  BY <1>2, <1>5, NewCalls
<1>11. Sound(d)' /\ d.op = "use" /\ d \in CallSet
  <2>1. d.hemp \in hemps' /\ d.buffer \in held' /\ d.found \in Paths' \union {Null}
    BY <1>2, <1>4, <1>10
  <2> QED  BY <1>10, <2>1, UseSound
<1>12. Ends(stack', c, d)
  BY <1>2, <1>4, <1>5, <1>9, <1>11, EndsTwo
<1>13. held \subseteq held' /\ d.buffer \notin held
  BY <1>4, <1>10
<1>14. StackOK'
  BY <1>2, <1>7, <1>8, <1>9, <1>11, <1>12, <1>13, GoesOnInto
<1> QED  BY <1>7, <1>14 DEF RegInv

LEMMA ThrowInv ==
  ASSUME RegInv, Throw
  PROVE  RegInv'
<1>1. /\ stack' = <<>>
      /\ UNCHANGED <<hemps, count, actions, instances, modules, text, held, exited>>
  BY DEF Throw
<1>2. TablesOK' /\ LifeOK' /\ CodeOK'  BY <1>1, StackOnly
<1>3. StackOK'  BY <1>1, ShortStacks, StackEnds
<1> QED  BY <1>2, <1>3 DEF RegInv

\* A thing x gets the owner o in a table t of Hemp h.
Stored(t, h, x, o) == [t EXCEPT ![h][x] = o]

LEMMA StoredFacts ==
  ASSUME NEW t \in [Hemp -> [Thing -> Owners]], NEW h \in Hemp, NEW x \in Thing,
         NEW o \in Owners
  PROVE  /\ Stored(t, h, x, o) \in [Hemp -> [Thing -> Owners]]
         /\ \A g \in Hemp \ {h} : Stored(t, h, x, o)[g] = t[g]
         /\ \A g \in Hemp, y \in Thing :
              Stored(t, h, x, o)[g][y] = o \/ Stored(t, h, x, o)[g][y] = t[g][y]
  BY DEF Stored

LEMMA MadeInv ==
  ASSUME RegInv, Made
  PROVE  RegInv'
<1>1. /\ stack # <<>> /\ Top.op = "instance" /\ stack' = Below
      /\ instances' = Stored(instances, Top.hemp, Top.thing, TopAction)
      /\ UNCHANGED <<hemps, count, actions, modules, text, held, exited>>
  BY DEF Made, At, Stored
<1>2. Top.hemp \in hemps /\ Top.hemp \in Hemp /\ Top.thing \in Thing
  BY <1>1, TopIs
<1>3. TopAction \in Owners /\ Loaded(TopAction)
  BY <1>2 DEF RegInv, TablesOK, CodeOK, TopAction
<1>4. instances \in [Hemp -> [Thing -> Owners]]
  BY DEF RegInv, TablesOK
<1>5. PICK t : t = instances'
  OBVIOUS
<1>6. /\ t \in [Hemp -> [Thing -> Owners]]
      /\ \A g \in Hemp \ {Top.hemp} : t[g] = instances[g]
      /\ \A g \in Hemp, y \in Thing : t[g][y] = TopAction \/ t[g][y] = instances[g][y]
  BY <1>1, <1>2, <1>3, <1>4, <1>5, StoredFacts
<1>7. Stays /\ HeldStays
  BY <1>1, StaysSame DEF HeldStays
<1>8. TablesOK'
  BY <1>1, <1>5, <1>6 DEF RegInv, TablesOK
<1>9. LifeOK'
  <2>1. \A g \in Hemp \ hemps : t[g] = instances[g]  BY <1>2, <1>6
  <2> QED  BY <1>1, <1>5, <2>1 DEF RegInv, LifeOK, Paths
<1>10. CodeOK'
  <2>1. ASSUME NEW g \in Hemp, NEW y \in Thing
        PROVE  Loaded(actions[g][y])' /\ Loaded(instances[g][y])'
    <3>1. Loaded(actions[g][y]) /\ Loaded(instances[g][y])  BY DEF RegInv, CodeOK
    <3>2. \A o : Loaded(o) => Loaded(o)'  BY <1>7, LoadedStays
    <3>3. Loaded(t[g][y])  BY <1>3, <1>6, <3>1
    <3> QED  BY <1>1, <1>5, <3>1, <3>2, <3>3
  <2> QED  BY <2>1 DEF CodeOK
<1>11. StackOK'
  BY <1>1, <1>7, Returned DEF RegInv
<1> QED  BY <1>8, <1>9, <1>10, <1>11 DEF RegInv

LEMMA BodyEndInv ==
  ASSUME RegInv, BodyEnd
  PROVE  RegInv'
<1>1. /\ stack # <<>> /\ stack' = Below
      /\ UNCHANGED <<hemps, count, actions, instances, modules, text, held, exited>>
  BY DEF BodyEnd, At
<1>2. TablesOK' /\ LifeOK' /\ CodeOK' /\ Stays /\ HeldStays  BY <1>1, StackOnly
<1>3. StackOK'  BY <1>1, <1>2, Returned DEF RegInv
<1> QED  BY <1>2, <1>3 DEF RegInv

LEMMA BodyRegisterInv ==
  ASSUME RegInv, BodyRegister
  PROVE  RegInv'
<1>1. /\ stack # <<>> /\ Top.op = "body"
      /\ UNCHANGED <<hemps, count, instances, modules, text, held, exited>>
  BY DEF BodyRegister, At
<1>2. /\ Top \in BodySet /\ Top.owner \in Owners /\ Top.todo \in SUBSET Thing
      /\ Loaded(Top.owner) /\ Top.owner # Null /\ Top.hemp \in hemps /\ Top.hemp \in Hemp
  BY <1>1, TopIs
<1>3. PICK x \in Top.todo :
        IF HasFactory(Top.hemp, x)
        THEN /\ actions' = [actions EXCEPT ![Top.hemp][x] = Top.owner]
             /\ stack' = Below \o <<[Top EXCEPT !.todo = @ \ {x}]>>
        ELSE /\ stack' = stack \o <<Ask("instance", Top.hemp, Factory(x[1]))>>
             /\ UNCHANGED actions
  BY DEF BodyRegister
<1>4. x \in Thing  BY <1>2, <1>3
<1>5. Stays /\ HeldStays /\ held \subseteq held'
  BY <1>1, StaysSame DEF HeldStays
<1>6. CASE HasFactory(Top.hemp, x)
  <2>1. PICK c : c = [Top EXCEPT !.todo = @ \ {x}]
    OBVIOUS
  <2>2. PICK t : t = actions'
    OBVIOUS
  <2>3. /\ t = Stored(actions, Top.hemp, x, Top.owner)
        /\ stack' = Below \o <<c>>
    BY <1>3, <1>6, <2>1, <2>2 DEF Stored
  <2>4. actions \in [Hemp -> [Thing -> Owners]]
    BY DEF RegInv, TablesOK
  <2>5. /\ t \in [Hemp -> [Thing -> Owners]]
        /\ \A g \in Hemp \ {Top.hemp} : t[g] = actions[g]
        /\ \A g \in Hemp, y \in Thing : t[g][y] = Top.owner \/ t[g][y] = actions[g][y]
    BY <1>2, <1>4, <2>3, <2>4, StoredFacts
  <2>6. TablesOK'
    BY <1>1, <2>2, <2>5 DEF RegInv, TablesOK
  <2>7. LifeOK'
    <3>1. \A g \in Hemp \ hemps : t[g] = actions[g]  BY <1>2, <2>5
    <3> QED  BY <1>1, <2>2, <3>1 DEF RegInv, LifeOK, Paths
  <2>8. CodeOK'
    <3>1. ASSUME NEW g \in Hemp, NEW y \in Thing
          PROVE  Loaded(actions[g][y])' /\ Loaded(instances[g][y])'
      <4>1. Loaded(actions[g][y]) /\ Loaded(instances[g][y])  BY DEF RegInv, CodeOK
      <4>2. \A o : Loaded(o) => Loaded(o)'  BY <1>5, LoadedStays
      <4>3. Loaded(t[g][y])  BY <1>2, <2>5, <4>1
      <4> QED  BY <1>1, <2>2, <4>1, <4>2, <4>3
    <3> QED  BY <3>1 DEF CodeOK
  <2>9. c \in BodySet /\ c.op = "body" /\ c.hemp = Top.hemp /\ c.owner = Top.owner
    BY <1>1, <1>2, <2>1, BodyChanges
  <2>10. Sound(c)'
    <3>1. Loaded(c.owner) /\ c.owner # Null  BY <1>2, <2>9
    <3>2. Loaded(c.owner)' /\ c.owner # Null /\ c.hemp \in hemps'
      BY <1>1, <1>2, <1>5, <2>9, <3>1, LoadedStays
    <3> QED  BY <2>9, <3>2, BodySound
  <2>11. StackOK'
    BY <1>1, <1>5, <2>3, <2>9, <2>10, GoesOn DEF RegInv
  <2> QED  BY <2>6, <2>7, <2>8, <2>11 DEF RegInv
<1>7. CASE ~ HasFactory(Top.hemp, x)
  <2>1. PICK d : d = Ask("instance", Top.hemp, Factory(x[1]))
    OBVIOUS
  <2>2. stack' = stack \o <<d>> /\ UNCHANGED actions
    BY <1>3, <1>7, <2>1
  <2>3. TablesOK' /\ LifeOK' /\ CodeOK'
    BY <1>1, <2>2, StackOnly
  <2>4. d \in AskSet /\ d.hemp = Top.hemp /\ d.next = 1
    BY <1>2, <1>4, <1>7, <2>1, FactoryThere, NewCalls
  <2>5. Sound(d)' /\ d.op \notin {"use", "free"}
    <3>1. d.hemp \in hemps' /\ d.next # 0  BY <1>1, <1>2, <2>4
    <3> QED  BY <2>4, <3>1, AskSound
  <2>6. StackOK'
    BY <1>1, <1>5, <2>2, <2>5, GoesInto DEF RegInv
  <2> QED  BY <2>3, <2>6 DEF RegInv
<1> QED  BY <1>6, <1>7

-----------------------------------------------------------------------------
(***************************************************************************)
(* Modules.                                                                *)
(***************************************************************************)
LEMMA FindModuleInv ==
  ASSUME RegInv, FindModule
  PROVE  RegInv'
<1>1. /\ stack # <<>> /\ Top.op = "use"
      /\ UNCHANGED <<hemps, count, actions, instances, modules, text, held, exited>>
  BY DEF FindModule, At
<1>2. TablesOK' /\ LifeOK' /\ CodeOK' /\ Stays /\ held \subseteq held'
  BY <1>1, StackOnly
<1>3. Top \in UseSet /\ Top.hemp \in hemps /\ Top.buffer \in held
  BY <1>1, TopIs
<1>4. PICK p \in Paths : stack' = Below \o <<[Top EXCEPT !.stage = "bind", !.found = p]>>
  BY DEF FindModule, Matching
<1>5. p \in Thing /\ p \in Paths'
  BY <1>2, PathsStay DEF Paths
<1>6. PICK c : c = [Top EXCEPT !.stage = "bind", !.found = p]
  OBVIOUS
<1>7. /\ c \in UseSet /\ c.op = "use" /\ c.hemp = Top.hemp /\ c.buffer = Top.buffer
      /\ c.found = p
  BY <1>1, <1>3, <1>5, <1>6, UseFinds
<1>8. Sound(c)'
  <2>1. c.hemp \in hemps' /\ c.buffer \in held' /\ c.found \in Paths'
    BY <1>1, <1>3, <1>5, <1>7
  <2> QED  BY <1>7, <2>1, UseSound
<1>9. StackOK'
  BY <1>1, <1>2, <1>4, <1>6, <1>7, <1>8, GoesOn DEF RegInv
<1> QED  BY <1>2, <1>9 DEF RegInv

\* The path has no slot: it would match.
LEMMA LoadModuleInv ==
  ASSUME RegInv, LoadModule
  PROVE  RegInv'
<1>1. /\ stack # <<>> /\ Top.op = "use" /\ Matching(Top.thing) = {}
      /\ UNCHANGED <<hemps, count, actions, instances, text, held, exited>>
  BY DEF LoadModule, At
<1>2. /\ Top \in UseSet /\ Top.hemp \in hemps /\ Top.buffer \in held /\ Top.thing \in Thing
      /\ Top.buffer \in Buffer
  BY <1>1, TopIs
<1>3. PICK p : p = Top.thing
  OBVIOUS
<1>4. p \in Thing /\ p \notin Paths
  BY <1>1, <1>2, <1>3 DEF Matching, SlotMatches
<1>5. PICK l \in Library[p] : modules' = [modules EXCEPT ![p] = [key |-> Top.buffer, load |-> l]]
  BY <1>3 DEF LoadModule
<1>6. PICK r : r = [key |-> Top.buffer, load |-> l]
  OBVIOUS
<1>7. l \in Loads
  BY <1>4, <1>5, RegistryAssumption
<1>8. r # Null /\ r \in [key : Buffer, load : Loads]
  BY <1>2, <1>6, <1>7, RegistryAssumption
<1>9. modules \in [Thing -> [key : Buffer, load : Loads] \union {Null}]
  BY DEF RegInv, TablesOK
<1>10. modules' = [modules EXCEPT ![p] = r]
  BY <1>5, <1>6
<1>11. /\ modules' \in [Thing -> [key : Buffer, load : Loads] \union {Null}]
       /\ modules'[p] = r
       /\ \A q \in Thing : q # p => modules'[q] = modules[q]
  <2> DEFINE R == [key : Buffer, load : Loads]
  <2>1. r \in R /\ modules \in [Thing -> R \union {Null}]  BY <1>8, <1>9
  <2> HIDE DEF R
  <2>2. /\ modules' \in [Thing -> R \union {Null}]
        /\ modules'[p] = r
        /\ \A q \in Thing : q # p => modules'[q] = modules[q]
    BY <1>4, <1>10, <2>1
  <2> QED  BY <2>2 DEF R
<1>12. Stays
  BY <1>1, <1>4, <1>11 DEF Stays, Paths
<1>13. p \in Paths'
  BY <1>4, <1>8, <1>11 DEF Paths
<1>14. TablesOK'
  BY <1>1, <1>11 DEF RegInv, TablesOK
<1>15. LifeOK'
  BY <1>1, <1>2 DEF RegInv, LifeOK
<1>16. CodeOK'
  <2>1. \A o : Loaded(o) => Loaded(o)'  BY <1>12, LoadedStays
  <2> QED  BY <1>1, <2>1 DEF RegInv, CodeOK
<1>17. PICK c : c = [Top EXCEPT !.stage = "bind", !.found = p]
  OBVIOUS
<1>18. stack' = Below \o <<c>>
  BY <1>3, <1>17 DEF LoadModule
<1>19. /\ c \in UseSet /\ c.op = "use" /\ c.hemp = Top.hemp /\ c.buffer = Top.buffer
       /\ c.found = p
  BY <1>1, <1>2, <1>4, <1>17, UseFinds
<1>20. Sound(c)'
  <2>1. c.hemp \in hemps' /\ c.buffer \in held' /\ c.found \in Paths'
    BY <1>1, <1>2, <1>13, <1>19
  <2> QED  BY <1>19, <2>1, UseSound
<1>21. StackOK'
  <2>1. held \subseteq held'  BY <1>1
  <2> QED  BY <1>1, <1>12, <1>18, <1>19, <1>20, <2>1, GoesOn DEF RegInv
<1> QED  BY <1>14, <1>15, <1>16, <1>21 DEF RegInv

LEMMA BindersAreOpen ==
  ASSUME NEW l \in Loads, l.binder
  PROVE  l.handle
  BY DEF Loads

LEMMA BindInv ==
  ASSUME RegInv, Bind
  PROVE  RegInv'
<1>1. /\ stack # <<>> /\ Top.op = "use" /\ Top.stage = "bind"
      /\ UNCHANGED <<hemps, count, actions, instances, modules, text, held>>
  BY DEF Bind, At
<1>2. /\ Top \in UseSet /\ Top.hemp \in hemps /\ Top.hemp \in Hemp /\ Top.buffer \in held
      /\ Top.found \in Paths
  BY <1>1, TopIs
<1>3. PICK c : c = [Top EXCEPT !.stage = "bound"]
  OBVIOUS
<1>4. PICK d : d = Body(Top.hemp, Top.found, Binds[Top.found])
  OBVIOUS
<1>5. IF LoadOf(Top.found).binder
      THEN stack' = (Below \o <<c>>) \o <<d>> /\ exited' = exited
      ELSE exited' = TRUE /\ stack' = <<>>
  BY <1>3, <1>4 DEF Bind, Become
<1>6. exited' \in BOOLEAN
  BY <1>5 DEF RegInv, TablesOK
<1>7. /\ text' \in [Buffer -> Thing \union {Null}] /\ held' \subseteq Buffer
      /\ held \subseteq held'
  BY <1>1 DEF RegInv, TablesOK
<1>8. TablesOK' /\ LifeOK' /\ CodeOK' /\ Stays
  BY <1>1, <1>6, <1>7, TablesStay
<1>9. CASE ~ LoadOf(Top.found).binder
  <2>1. StackOK'  BY <1>5, <1>9, ShortStacks, StackEnds
  <2> QED  BY <1>8, <2>1 DEF RegInv
<1>10. CASE LoadOf(Top.found).binder
  <2>1. Top.found \in Thing /\ modules[Top.found] # Null
    BY <1>2 DEF Paths
  <2>2. LoadOf(Top.found) \in Loads
    <3>1. modules[Top.found] \in [key : Buffer, load : Loads]
      BY <2>1 DEF RegInv, TablesOK
    <3> QED  BY <3>1 DEF LoadOf
  <2>3. Loaded(Top.found)
    BY <1>2, <1>10, <2>2, BindersAreOpen DEF Loaded
  <2>4. /\ c \in UseSet /\ c.op = "use" /\ c.hemp = Top.hemp /\ c.buffer = Top.buffer
        /\ c.found = Top.found
    BY <1>1, <1>2, <1>3, UseBinds
  <2>5. Sound(c)' /\ c \in CallSet
    <3>1. Top.found \in Paths'  BY <1>2, <1>8, PathsStay
    <3>2. c.hemp \in hemps' /\ c.buffer \in held' /\ c.found \in Paths'
      BY <1>1, <1>2, <2>4, <3>1
    <3> QED  BY <2>4, <3>2, UseSound
  <2>6. d \in BodySet /\ d.hemp = Top.hemp /\ d.owner = Top.found
    <3>1. Binds[Top.found] \in SUBSET Thing /\ Top.found \in Owners
      BY <2>1, RegistryAssumption DEF Owners
    <3> QED  BY <1>2, <1>4, <2>1, <3>1, NewCalls
  <2>7. Sound(d)' /\ d.op = "body" /\ d \in CallSet
    <3>1. Loaded(d.owner) /\ d.owner # Null  BY <2>1, <2>3, <2>6, RegistryAssumption
    <3>2. Loaded(d.owner)' /\ d.owner # Null /\ d.hemp \in hemps'
      BY <1>1, <1>2, <1>8, <2>6, <3>1, LoadedStays
    <3> QED  BY <2>6, <3>2, BodySound
  <2>8. stack' = (Below \o <<c>>) \o <<d>>
    BY <1>5, <1>10
  <2>9. Ends(stack', c, d)
    BY <1>1, <2>5, <2>7, <2>8, EndsTwo DEF RegInv
  <2>10. StackOK'
    BY <1>1, <1>7, <1>8, <2>4, <2>5, <2>7, <2>9, GoesOnInto DEF RegInv
  <2> QED  BY <1>8, <2>10 DEF RegInv
<1> QED  BY <1>9, <1>10

LEMMA BoundInv ==
  ASSUME RegInv, Bound
  PROVE  RegInv'
<1>1. /\ stack # <<>> /\ Top.op = "use" /\ stack' = Below /\ held' = held \ {Top.buffer}
      /\ UNCHANGED <<hemps, count, actions, instances, modules, exited>>
  BY DEF Bound, At
<1>2. PICK keep \in Keeps :
        text' = [text EXCEPT ![Top.buffer] = IF keep THEN @ ELSE Null]
  BY DEF Bound
<1>3. /\ text' \in [Buffer -> Thing \union {Null}] /\ held' \subseteq Buffer
      /\ exited' \in BOOLEAN
  <2>1. text \in [Buffer -> Thing \union {Null}] /\ held \subseteq Buffer /\ exited \in BOOLEAN
    BY DEF RegInv, TablesOK
  <2> QED  BY <1>1, <1>2, <2>1
<1>4. TablesOK' /\ LifeOK' /\ CodeOK' /\ Stays
  BY <1>1, <1>3, TablesStay
<1>5. HeldStays
  BY <1>1 DEF HeldStays
<1>6. StackOK'
  BY <1>1, <1>4, <1>5, Returned DEF RegInv
<1> QED  BY <1>4, <1>6 DEF RegInv

-----------------------------------------------------------------------------
(***************************************************************************)
(* The invariant.                                                          *)
(***************************************************************************)
LEMMA InitInv == Init => RegInv
<1> SUFFICES ASSUME Init  PROVE RegInv
  OBVIOUS
<1>1. /\ hemps = {} /\ count = 0 /\ actions = [h \in Hemp |-> Nothing]
      /\ instances = [h \in Hemp |-> Nothing] /\ modules = Nothing
      /\ text = [b \in Buffer |-> Null] /\ held = {} /\ stack = <<>> /\ exited = FALSE
  BY DEF Init
<1>2. Nothing \in [Thing -> Owners] /\ \A x \in Thing : Nothing[x] = Null
  BY DEF Nothing, Owners
<1>3. modules \in [Thing -> [key : Buffer, load : Loads] \union {Null}]
  BY <1>1 DEF Nothing
<1>4. TablesOK
  BY <1>1, <1>2, <1>3, FS_EmptySet DEF TablesOK
<1>5. LifeOK
  BY <1>1, <1>2 DEF LifeOK, Paths
<1>6. CodeOK
  BY <1>1, <1>2 DEF CodeOK, Loaded
<1>7. StackOK
  BY <1>1, ShortStacks DEF StackOK
<1> QED  BY <1>4, <1>5, <1>6, <1>7 DEF RegInv

LEMMA NextInv ==
  ASSUME RegInv, [Next]_vars
  PROVE  RegInv'
<1>1. CASE UNCHANGED vars
  <2>1. /\ TablesOK' /\ LifeOK' /\ CodeOK'
    BY <1>1, StackOnly DEF vars
  <2>2. StackOK'
    <3>1. UNCHANGED <<hemps, actions, instances, modules, held, stack>>  BY <1>1 DEF vars
    <3> QED  BY <3>1 DEF RegInv, StackOK, Sound, Loaded, Paths, LoadOf
  <2> QED  BY <2>1, <2>2 DEF RegInv
<1>2. CASE \E h \in Hemp : New(h) \/ Free(h)
  BY <1>2, NewInv, FreeInv
<1>3. CASE \E h \in Hemp, x \in Thing : Register(h, x)
  BY <1>3, RegisterInv
<1>4. CASE \E h \in Hemp, x \in Thing, op \in {"instance", "constructor"} : Fetch(op, h, x)
  BY <1>4, FetchInv
<1>5. CASE FreeFactories \/ FreeGlobal
  BY <1>5, FreeFactoriesInv, FreeGlobalInv
<1>6. CASE Known \/ TryWildcard \/ Load \/ Throw \/ Made \/ BodyRegister \/ BodyEnd
  BY <1>6, KnownInv, TryWildcardInv, LoadInv, ThrowInv, MadeInv, BodyRegisterInv, BodyEndInv
<1>7. CASE FindModule \/ LoadModule \/ Bind \/ Bound
  BY <1>7, FindModuleInv, LoadModuleInv, BindInv, BoundInv
<1> QED  BY <1>1, <1>2, <1>3, <1>4, <1>5, <1>6, <1>7 DEF Next, Uses, Step

\* The state keeps its invariant, whatever the programs do.
LEMMA Invariant == Spec => []RegInv
<1>1. RegInv /\ [Next]_vars => RegInv'  BY NextInv
<1> QED  BY InitInv, <1>1, PTL DEF Spec

-----------------------------------------------------------------------------
(***************************************************************************)
(* What it says.                                                           *)
(***************************************************************************)
LEMMA SoundCalls ==
  ASSUME NEW c, Sound(c)
  PROVE  c \in Calls
<1>1. c \in CallSet /\ c.hemp \in hemps
  BY DEF Sound
<1>2. CASE c \in AskSet
  BY <1>1, <1>2 DEF Calls, AskSet
<1>3. CASE c \in UseSet
  <2>1. c.op = "use"  BY <1>3 DEF UseSet
  <2>2. c.buffer \in held /\ c.found \in Paths \union {Null}  BY <2>1 DEF Sound
  <2> QED  BY <1>1, <1>3, <2>2 DEF Calls, UseSet
<1>4. CASE c \in BodySet
  BY <1>1, <1>4 DEF Calls, BodySet
<1>5. CASE c \in FreeSet
  BY <1>1, <1>5 DEF Calls, FreeSet
<1> QED  BY <1>1, <1>2, <1>3, <1>4, <1>5 DEF CallSet

\* Every part of the state has its type, and every call under way, of any
\* depth, is one on a Hemp that exists, with its text allocated and with the
\* module it found still in the table.
THEOREM TypeCorrect == Spec => []TypeOK
<1>1. ASSUME RegInv  PROVE TypeOK
  <2>1. \A i \in DOMAIN stack : stack[i] \in Calls
    <3> SUFFICES ASSUME NEW i \in DOMAIN stack  PROVE stack[i] \in Calls
      OBVIOUS
    <3>1. i \in 1..Len(stack)  BY <1>1 DEF RegInv, StackOK
    <3> QED  BY <1>1, <3>1, SoundCalls DEF RegInv, StackOK
  <2> QED  BY <1>1, <2>1 DEF RegInv, TablesOK, TypeOK
<1> QED  BY Invariant, <1>1, PTL

\* Code that a Hemp may call is in a library that is open: hemp_free() cleans
\* the factories of a Hemp before it lets go of the modules (hemp.c:186-198),
\* and the modules go with the last Hemp, whichever it is (global.c:66).
THEOREM CodeIsLoaded == Spec => []CodeLoaded
<1>1. ASSUME RegInv  PROVE CodeLoaded
  BY <1>1 DEF RegInv, CodeOK, Loaded, CodeLoaded
<1> QED  BY Invariant, <1>1, PTL

\* So is the code of every call under way, however deep the stack: a body
\* runs in a module that is open, and goes on to be (module.c:59-72).
BodiesLoaded ==
  \A i \in DOMAIN stack : stack[i].op = "body" =>
    stack[i].owner = Core \/
    (stack[i].owner \in Paths /\ LoadOf(stack[i].owner).handle)

THEOREM BodiesAreLoaded == Spec => []BodiesLoaded
<1>1. ASSUME RegInv  PROVE BodiesLoaded
  <2>1. DOMAIN stack = 1..Len(stack)  BY <1>1 DEF RegInv, StackOK
  <2> QED  BY <1>1, <2>1 DEF RegInv, StackOK, Sound, Loaded, BodiesLoaded
<1> QED  BY Invariant, <1>1, PTL

\* What a step may do to the table of modules.
LEMMA ModulesChange ==
  ASSUME RegInv, [Next]_vars, NEW p \in Paths
  PROVE  modules'[p] = modules[p] \/ (modules'[p] = Null /\ hemps' = {})
<1>1. CASE UNCHANGED modules
  BY <1>1
<1>2. ASSUME NEW h \in Hemp, New(h)
      PROVE  modules'[p] = modules[p]
  <2>1. modules' = (IF count = 0 THEN Nothing ELSE modules)  BY <1>2 DEF New
  <2>2. count # 0
    <3>1. IsFiniteSet(hemps) /\ count = Cardinality(hemps) /\ hemps # {}
      BY DEF RegInv, TablesOK, LifeOK
    <3> QED  BY <3>1, FS_EmptySet
  <2> QED  BY <2>1, <2>2
<1>3. ASSUME FreeGlobal
      PROVE  modules'[p] = modules[p] \/ (modules'[p] = Null /\ hemps' = {})
  <2>1. /\ stack # <<>> /\ hemps' = hemps \ {Top.hemp}
        /\ modules' = (IF count = 1 THEN Nothing ELSE modules)
    BY <1>3 DEF FreeGlobal, At
  <2>2. CASE count = 1
    <3>1. modules'[p] = Null  BY <2>1, <2>2 DEF Nothing, Paths
    <3>2. IsFiniteSet(hemps) /\ Cardinality(hemps) = 1 /\ Top.hemp \in hemps
      BY <2>1, <2>2, TopIs DEF RegInv, TablesOK
    <3>3. PICK g : hemps = {g}  BY <3>2, FS_Singleton
    <3> QED  BY <2>1, <3>1, <3>2, <3>3
  <2>3. CASE count # 1
    BY <2>1, <2>3
  <2> QED  BY <2>2, <2>3
<1>4. ASSUME LoadModule
      PROVE  modules'[p] = modules[p]
  <2>1. PICK r : modules' = [modules EXCEPT ![Top.thing] = r]
    BY <1>4 DEF LoadModule
  <2>2. p # Top.thing /\ p \in Thing
    BY <1>4 DEF LoadModule, Matching, SlotMatches, Paths
  <2>3. modules \in [Thing -> [key : Buffer, load : Loads] \union {Null}]
    BY DEF RegInv, TablesOK
  <2>4. PICK S : modules \in [Thing -> S]  BY <2>3
  <2> QED  BY <2>1, <2>2, <2>4
<1>5. UNCHANGED modules \/ (\E h \in Hemp : New(h)) \/ FreeGlobal \/ LoadModule
  BY DEF Next, Uses, Step, vars, Free, Register, Fetch, FreeFactories, Known, TryWildcard, Load,
         Throw, Made, BodyRegister, BodyEnd, FindModule, Bind, Bound
<1> QED  BY <1>1, <1>2, <1>3, <1>4, <1>5

\* An open library is not opened again, nor closed while there is a Hemp, and
\* none is open when there is none (global.c:66-69, 184-188).
THEOREM LibrariesOpenedOnce == Spec => OpenedOnce
<1> DEFINE Once ==
      /\ \A p \in Paths : modules'[p] = modules[p] \/ (modules'[p] = Null /\ hemps' = {})
      /\ hemps' = {} => Paths' = {}
<1>1. RegInv /\ RegInv' /\ [Next]_vars => [Once]_vars
  <2> SUFFICES ASSUME RegInv, RegInv', [Next]_vars  PROVE Once
    OBVIOUS
  <2>1. \A p \in Paths : modules'[p] = modules[p] \/ (modules'[p] = Null /\ hemps' = {})
    BY ModulesChange
  <2>2. hemps' = {} => Paths' = {}
    BY DEF RegInv, LifeOK
  <2> QED  BY <2>1, <2>2
<1> QED  BY Invariant, <1>1, PTL DEF Spec, OpenedOnce
=============================================================================
