------------------------- MODULE Evaluation_proofs --------------------------
(***************************************************************************)
(* The C stack, the HEMP_TRY blocks and the call frames stay in step, for  *)
(* any number of hashes, nested handlers and errors.                       *)
(*                                                                         *)
(* Every action pushes, pops or replaces the top of the C stack, or cuts   *)
(* it back to a HEMP_TRY, and does to the chain of jump buffers what keeps *)
(* the two in step.  Stacked says that they are; there is one lemma for    *)
(* each of the ways in which the actions change them.  FrameCount is the   *)
(* number of calls on the C stack, which never exceeds the frames of the   *)
(* context.  EvalInv puts both together with the types.                    *)
(***************************************************************************)
EXTENDS Evaluation, TLAPS, WellFoundedInduction, SequenceTheorems,
        FiniteSetTheorems

\* The in element saves a body, every other handler a hash.
SavedBy(op) == IF op = "in" THEN {Null, Block} ELSE Hash \union {Null}

CallSet == {c \in [op : Ops, hash : Hash \union {Null}, frame : Nat,
                   saved : Hash \union {Null, Block}] : c.saved \in SavedBy(c.op)}

-----------------------------------------------------------------------------
(***************************************************************************)
(* The jump buffers j are those of the HEMP_TRY blocks of the C stack c,   *)
(* and only the outermost handler is the caller of a render.               *)
(***************************************************************************)
Stacked(c, j) ==
  /\ \A k \in 1..Len(j) : j[k] \in 1..Len(c) /\ c[j[k]].op \in TryOps
  /\ \A i \in 1..Len(c) : c[i].op \in TryOps => \E k \in 1..Len(j) : j[k] = i
  /\ \A k, m \in 1..Len(j) : k < m => j[k] < j[m]
  /\ Len(c) > 0 => c[1].op = "try"
  /\ \A i \in 2..Len(c) : c[i].op # "try"

LEMMA PushPlain ==
  ASSUME NEW c \in Seq(CallSet), NEW j \in Seq(Nat), NEW call \in CallSet,
         Stacked(c, j), c # <<>>, call.op \notin TryOps
  PROVE  Stacked(Append(c, call), j)
<1> DEFINE d == Append(c, call)
<1>1. Len(d) = Len(c) + 1 /\ Len(c) > 0 /\ d[Len(c) + 1] = call
      /\ \A i \in 1..Len(c) : d[i] = c[i]
  OBVIOUS
<1>2. call.op # "try"  BY DEF TryOps
<1> HIDE DEF d
<1> QED  BY <1>1, <1>2 DEF Stacked, d

LEMMA PushTry ==
  ASSUME NEW c \in Seq(CallSet), NEW j \in Seq(Nat), NEW call \in CallSet,
         Stacked(c, j), c # <<>>, call.op \in TryOps, call.op # "try"
  PROVE  Stacked(Append(c, call), Append(j, Len(c) + 1))
<1> DEFINE d == Append(c, call)
           h == Append(j, Len(c) + 1)
<1>1. Len(d) = Len(c) + 1 /\ Len(c) > 0 /\ d[Len(c) + 1] = call
      /\ \A i \in 1..Len(c) : d[i] = c[i]
  OBVIOUS
<1>2. Len(h) = Len(j) + 1 /\ h[Len(j) + 1] = Len(c) + 1
      /\ \A k \in 1..Len(j) : h[k] = j[k]
  OBVIOUS
<1>3. Len(c) \in Nat /\ Len(j) \in Nat  OBVIOUS
<1> HIDE DEF d, h
<1>4. \A k \in 1..Len(h) : h[k] \in 1..Len(d) /\ d[h[k]].op \in TryOps
  <2> SUFFICES ASSUME NEW k \in 1..Len(h)
               PROVE  h[k] \in 1..Len(d) /\ d[h[k]].op \in TryOps
    OBVIOUS
  <2>1. CASE k = Len(j) + 1
    <3>1. h[k] = Len(c) + 1 /\ d[h[k]] = call  BY <2>1, <1>1, <1>2
    <3> QED  BY <3>1, <1>1, <1>3
  <2>2. CASE k # Len(j) + 1
    <3>1. k \in 1..Len(j) /\ h[k] = j[k]  BY <2>2, <1>2, <1>3
    <3>2. j[k] \in 1..Len(c) /\ c[j[k]].op \in TryOps  BY <3>1 DEF Stacked
    <3>3. d[h[k]] = c[j[k]]  BY <3>1, <3>2, <1>1
    <3> QED  BY <3>1, <3>2, <3>3, <1>1, <1>3
  <2> QED  BY <2>1, <2>2
<1>5. \A i \in 1..Len(d) : d[i].op \in TryOps => \E k \in 1..Len(h) : h[k] = i
  <2> SUFFICES ASSUME NEW i \in 1..Len(d), d[i].op \in TryOps
               PROVE  \E k \in 1..Len(h) : h[k] = i
    OBVIOUS
  <2>1. CASE i = Len(c) + 1  BY <2>1, <1>2, <1>3
  <2>2. CASE i # Len(c) + 1
    <3>1. i \in 1..Len(c) /\ c[i].op \in TryOps  BY <2>2, <1>1, <1>3
    <3>2. PICK k \in 1..Len(j) : j[k] = i  BY <3>1 DEF Stacked
    <3> QED  BY <3>2, <1>2, <1>3
  <2> QED  BY <2>1, <2>2
<1>6. \A k, m \in 1..Len(h) : k < m => h[k] < h[m]
  <2> SUFFICES ASSUME NEW k \in 1..Len(h), NEW m \in 1..Len(h), k < m
               PROVE  h[k] < h[m]
    OBVIOUS
  <2>1. k \in 1..Len(j)  BY <1>2, <1>3
  <2>2. h[k] = j[k] /\ j[k] \in 1..Len(c)  BY <2>1, <1>2 DEF Stacked
  <2>3. CASE m = Len(j) + 1  BY <2>2, <2>3, <1>2, <1>3
  <2>4. CASE m # Len(j) + 1
    <3>1. m \in 1..Len(j)  BY <2>4, <1>2, <1>3
    <3> QED  BY <2>1, <2>2, <3>1, <1>2 DEF Stacked
  <2> QED  BY <2>3, <2>4
<1>7. d[1].op = "try"  BY <1>1, <1>3 DEF Stacked
<1>8. \A i \in 2..Len(d) : d[i].op # "try"
  <2> SUFFICES ASSUME NEW i \in 2..Len(d)  PROVE d[i].op # "try"
    OBVIOUS
  <2>1. CASE i = Len(c) + 1  BY <2>1, <1>1
  <2>2. CASE i # Len(c) + 1
    <3>1. i \in 2..Len(c)  BY <2>2, <1>1, <1>3
    <3> QED  BY <3>1, <1>1, <1>3 DEF Stacked
  <2> QED  BY <2>1, <2>2
<1> QED  BY <1>4, <1>5, <1>6, <1>7, <1>8 DEF Stacked, d, h

\* What is left of a stack that is cut to its first n handlers.
LEMMA CutFacts ==
  ASSUME NEW S, NEW c \in Seq(S), NEW n \in 0..Len(c)
  PROVE  /\ SubSeq(c, 1, n) \in Seq(S)
         /\ Len(SubSeq(c, 1, n)) = n
         /\ \A i \in 1..n : SubSeq(c, 1, n)[i] = c[i]
<1>1. n \in Int /\ 1 \in Int /\ Len(c) \in Nat  OBVIOUS
<1>2. \A i \in 1..n : c[i] \in S  BY <1>1, ElementOfSeq
<1> QED  BY <1>1, <1>2, SubSeqProperties

LEMMA PopFacts ==
  ASSUME NEW S, NEW c \in Seq(S), c # <<>>
  PROVE  /\ Pop(c) \in Seq(S)
         /\ Len(c) \in Nat \ {0}
         /\ Len(Pop(c)) = Len(c) - 1
         /\ \A i \in 1..(Len(c) - 1) : Pop(c)[i] = c[i]
         /\ Top(c) = c[Len(c)] /\ Top(c) \in S
<1>1. Len(c) \in Nat \ {0}  OBVIOUS
<1>2. Len(c) - 1 \in 0..Len(c)  BY <1>1
<1>3. Top(c) = c[Len(c)] /\ Top(c) \in S  BY <1>1, ElementOfSeq DEF Top
<1> QED  BY <1>1, <1>2, <1>3, CutFacts DEF Pop

(***************************************************************************)
(* Cutting the C stack anywhere above its innermost HEMP_TRY.              *)
(***************************************************************************)
LEMMA CutStacked ==
  ASSUME NEW c \in Seq(CallSet), NEW j \in Seq(Nat), Stacked(c, j),
         NEW n \in 1..Len(c), \A k \in 1..Len(j) : j[k] <= n
  PROVE  Stacked(SubSeq(c, 1, n), j)
<1> DEFINE d == SubSeq(c, 1, n)
<1>1. Len(d) = n /\ \A i \in 1..n : d[i] = c[i]
  <2>1. n \in 0..Len(c)  OBVIOUS
  <2> QED  BY <2>1, CutFacts
<1>2. Len(c) \in Nat /\ n \in 1..Len(c)  OBVIOUS
<1> HIDE DEF d
<1>3. \A k \in 1..Len(j) : j[k] \in 1..n /\ d[j[k]].op \in TryOps
  <2> SUFFICES ASSUME NEW k \in 1..Len(j)
               PROVE  j[k] \in 1..n /\ d[j[k]].op \in TryOps
    OBVIOUS
  <2>1. j[k] \in 1..Len(c) /\ c[j[k]].op \in TryOps /\ j[k] <= n
    BY DEF Stacked
  <2>2. j[k] \in 1..n  BY <2>1, <1>2
  <2> QED  BY <2>1, <2>2, <1>1
<1>4. \A i \in 1..n : d[i].op \in TryOps => \E k \in 1..Len(j) : j[k] = i
  BY <1>1, <1>2 DEF Stacked
<1>5. d[1].op = "try"  BY <1>1, <1>2 DEF Stacked
<1>6. \A i \in 2..n : d[i].op # "try"
  <2> SUFFICES ASSUME NEW i \in 2..n  PROVE d[i].op # "try"
    OBVIOUS
  <2>1. i \in 1..n /\ i \in 2..Len(c)  BY <1>2
  <2> QED  BY <2>1, <1>1 DEF Stacked
<1> QED  BY <1>1, <1>3, <1>4, <1>5, <1>6 DEF Stacked, d

\* A running C stack holds a HEMP_TRY, the last buffer being the innermost.
LEMMA JumpTop ==
  ASSUME NEW c \in Seq(CallSet), NEW j \in Seq(Nat), Stacked(c, j), c # <<>>
  PROVE  /\ j # <<>> /\ Len(j) \in Nat \ {0}
         /\ Top(j) \in 1..Len(c)
         /\ \A k \in 1..Len(j) : j[k] <= Top(j)
         /\ c[Top(j)].op \in TryOps
<1>1. Len(c) \in Nat \ {0} /\ Len(j) \in Nat  OBVIOUS
<1>2. c[1].op \in TryOps /\ 1 \in 1..Len(c)  BY <1>1 DEF Stacked, TryOps
<1>3. PICK k \in 1..Len(j) : j[k] = 1  BY <1>2 DEF Stacked
<1>4. Len(j) \in 1..Len(j)  BY <1>3, <1>1
<1>5. j[Len(j)] \in 1..Len(c) /\ c[j[Len(j)]].op \in TryOps
  BY <1>4 DEF Stacked
<1>6. ASSUME NEW m \in 1..Len(j)  PROVE j[m] <= j[Len(j)]
  <2>1. CASE m = Len(j)  BY <2>1, <1>5, <1>1
  <2>2. CASE m # Len(j)
    <3>1. m < Len(j)  BY <2>2, <1>1
    <3>2. j[m] < j[Len(j)] /\ j[m] \in 1..Len(c)  BY <3>1, <1>4 DEF Stacked
    <3> QED  BY <3>2, <1>5, <1>1
  <2> QED  BY <2>1, <2>2
<1>7. j # <<>>  BY <1>4
<1> QED  BY <1>1, <1>4, <1>5, <1>6, <1>7 DEF Top

LEMMA PopPlain ==
  ASSUME NEW c \in Seq(CallSet), NEW j \in Seq(Nat),
         Stacked(c, j), c # <<>>, Top(c).op \notin TryOps
  PROVE  Stacked(Pop(c), j) /\ Pop(c) # <<>>
<1>1. /\ Len(c) \in Nat \ {0} /\ Len(Pop(c)) = Len(c) - 1
      /\ Top(c) = c[Len(c)]
  BY PopFacts
<1>2. Len(c) # 1  BY <1>1 DEF Stacked, TryOps
<1>3. Len(c) - 1 \in 1..Len(c)  BY <1>1, <1>2
<1>4. \A k \in 1..Len(j) : j[k] <= Len(c) - 1
  <2> SUFFICES ASSUME NEW k \in 1..Len(j)  PROVE j[k] <= Len(c) - 1
    OBVIOUS
  <2>1. j[k] \in 1..Len(c) /\ c[j[k]].op \in TryOps  BY DEF Stacked
  <2>2. j[k] # Len(c)  BY <2>1, <1>1
  <2> QED  BY <2>1, <2>2, <1>1
<1>5. Stacked(Pop(c), j)  BY <1>3, <1>4, CutStacked DEF Pop
<1> QED  BY <1>1, <1>3, <1>5

\* HEMP_END of the handler on top of the C stack, which then returns.
LEMMA PopTry ==
  ASSUME NEW c \in Seq(CallSet), NEW j \in Seq(Nat),
         Stacked(c, j), c # <<>>, Top(c).op \in TryOps
  PROVE  /\ Top(j) = Len(c) /\ j # <<>>
         /\ Stacked(Pop(c), Pop(j))
<1> DEFINE d == Pop(c)
           h == Pop(j)
<1>1. /\ Len(c) \in Nat \ {0} /\ Len(d) = Len(c) - 1
      /\ Top(c) = c[Len(c)] /\ \A i \in 1..(Len(c) - 1) : d[i] = c[i]
  BY PopFacts
<1>2. j # <<>> /\ Top(j) \in 1..Len(c) /\ \A k \in 1..Len(j) : j[k] <= Top(j)
  BY JumpTop
<1>3. /\ Len(j) \in Nat \ {0} /\ Len(h) = Len(j) - 1
      /\ Top(j) = j[Len(j)] /\ \A k \in 1..(Len(j) - 1) : h[k] = j[k]
  BY <1>2, PopFacts
<1>4. Len(c) \in 1..Len(c)  BY <1>1
<1>5. PICK k \in 1..Len(j) : j[k] = Len(c)  BY <1>1, <1>4 DEF Stacked
<1>6. Top(j) = Len(c)  BY <1>1, <1>2, <1>5
<1> HIDE DEF d, h
<1>7. \A m \in 1..Len(h) : h[m] \in 1..Len(d) /\ d[h[m]].op \in TryOps
  <2> SUFFICES ASSUME NEW m \in 1..Len(h)
               PROVE  h[m] \in 1..Len(d) /\ d[h[m]].op \in TryOps
    OBVIOUS
  <2>1. m \in 1..Len(j) /\ Len(j) \in 1..Len(j) /\ m < Len(j) /\ h[m] = j[m]
    BY <1>3
  <2>2. j[m] \in 1..Len(c) /\ c[j[m]].op \in TryOps /\ j[m] < j[Len(j)]
    BY <2>1 DEF Stacked
  <2>3. j[m] \in 1..(Len(c) - 1)  BY <2>2, <1>1, <1>3, <1>6
  <2> QED  BY <2>1, <2>2, <2>3, <1>1
<1>8. \A i \in 1..Len(d) : d[i].op \in TryOps => \E m \in 1..Len(h) : h[m] = i
  <2> SUFFICES ASSUME NEW i \in 1..Len(d), d[i].op \in TryOps
               PROVE  \E m \in 1..Len(h) : h[m] = i
    OBVIOUS
  <2>1. i \in 1..Len(c) /\ c[i].op \in TryOps /\ i # Len(c)  BY <1>1
  <2>2. PICK m \in 1..Len(j) : j[m] = i  BY <2>1 DEF Stacked
  <2>3. m # Len(j)  BY <2>1, <2>2, <1>3, <1>6
  <2>4. m \in 1..Len(h)  BY <2>3, <1>3
  <2> QED  BY <2>2, <2>4, <1>3
<1>9. \A l, m \in 1..Len(h) : l < m => h[l] < h[m]
  <2> SUFFICES ASSUME NEW l \in 1..Len(h), NEW m \in 1..Len(h), l < m
               PROVE  h[l] < h[m]
    OBVIOUS
  <2>1. l \in 1..(Len(j) - 1) /\ m \in 1..(Len(j) - 1)  BY <1>3
  <2>2. l \in 1..Len(j) /\ m \in 1..Len(j)  BY <2>1, <1>3
  <2>3. h[l] = j[l] /\ h[m] = j[m]  BY <2>1, <1>3
  <2> QED  BY <2>2, <2>3 DEF Stacked
<1>10. Len(d) > 0 => d[1].op = "try"
  <2> SUFFICES ASSUME Len(d) > 0  PROVE d[1].op = "try"
    OBVIOUS
  <2>1. 1 \in 1..(Len(c) - 1)  BY <1>1
  <2>2. d[1] = c[1] /\ Len(c) > 0  BY <2>1, <1>1
  <2> QED  BY <2>2 DEF Stacked
<1>11. \A i \in 2..Len(d) : d[i].op # "try"
  <2> SUFFICES ASSUME NEW i \in 2..Len(d)  PROVE d[i].op # "try"
    OBVIOUS
  <2>1. i \in 2..Len(c) /\ i \in 1..(Len(c) - 1)  BY <1>1
  <2> QED  BY <2>1, <1>1 DEF Stacked
<1> QED  BY <1>2, <1>6, <1>7, <1>8, <1>9, <1>10, <1>11 DEF Stacked, d, h

\* The handler on top of the C stack enters its HEMP_TRY.
LEMMA ReplaceTry ==
  ASSUME NEW c \in Seq(CallSet), NEW j \in Seq(Nat), NEW call \in CallSet,
         Stacked(c, j), c # <<>>, Top(c).op \notin TryOps,
         call.op \in TryOps, call.op # "try"
  PROVE  Stacked(Append(Pop(c), call), Append(j, Len(c)))
<1>1. Pop(c) \in Seq(CallSet) /\ Len(Pop(c)) = Len(c) - 1 /\ Len(c) \in Nat
  BY PopFacts
<1>2. Stacked(Pop(c), j) /\ Pop(c) # <<>>  BY PopPlain
<1>3. Stacked(Append(Pop(c), call), Append(j, Len(Pop(c)) + 1))
  BY <1>1, <1>2, PushTry
<1>4. Len(Pop(c)) + 1 = Len(c)  BY <1>1
<1> QED  BY <1>3, <1>4

\* The handler on top of the C stack goes on without a HEMP_TRY.
LEMMA ReplacePlain ==
  ASSUME NEW c \in Seq(CallSet), NEW j \in Seq(Nat), NEW call \in CallSet,
         Stacked(c, j), c # <<>>, Top(c).op \notin TryOps, call.op \notin TryOps
  PROVE  Stacked(Append(Pop(c), call), j)
<1>1. Pop(c) \in Seq(CallSet)  BY PopFacts
<1>2. Stacked(Pop(c), j) /\ Pop(c) # <<>>  BY PopPlain
<1> QED  BY <1>1, <1>2, PushPlain

\* An error is thrown: longjmp lands in the innermost HEMP_TRY.
LEMMA Landed ==
  ASSUME NEW c \in Seq(CallSet), NEW j \in Seq(Nat), Stacked(c, j), c # <<>>
  PROVE  /\ Stacked(SubSeq(c, 1, Top(j)), j)
         /\ SubSeq(c, 1, Top(j)) \in Seq(CallSet)
         /\ Len(SubSeq(c, 1, Top(j))) = Top(j)
         /\ Top(j) \in 1..Len(c)
<1>1. Top(j) \in 1..Len(c) /\ \A k \in 1..Len(j) : j[k] <= Top(j)
  BY JumpTop
<1>2. Stacked(SubSeq(c, 1, Top(j)), j)  BY <1>1, CutStacked
<1>3. Top(j) \in 0..Len(c)  BY <1>1
<1> QED  BY <1>1, <1>2, <1>3, CutFacts

\* The handler of the innermost HEMP_TRY throws the error again.
LEMMA LandedAgain ==
  ASSUME NEW c \in Seq(CallSet), NEW j \in Seq(Nat), Stacked(c, j), c # <<>>,
         Top(c).op \in TryOps, Top(c).op # "try"
  PROVE  /\ Stacked(SubSeq(c, 1, Top(Pop(j))), Pop(j))
         /\ SubSeq(c, 1, Top(Pop(j))) \in Seq(CallSet)
         /\ Len(SubSeq(c, 1, Top(Pop(j)))) = Top(Pop(j))
         /\ Top(Pop(j)) \in 1..(Len(c) - 1)
<1> DEFINE d == Pop(c)
           h == Pop(j)
<1>1. /\ d \in Seq(CallSet) /\ Len(c) \in Nat \ {0} /\ Len(d) = Len(c) - 1
      /\ Top(c) = c[Len(c)] /\ \A i \in 1..(Len(c) - 1) : d[i] = c[i]
  BY PopFacts
<1>2. j # <<>> /\ Stacked(d, h)  BY PopTry
<1>3. h \in Seq(Nat)  BY <1>2, PopFacts
<1>4. Len(c) # 1  BY <1>1 DEF Stacked
<1>5. d # <<>>  BY <1>1, <1>4
<1> DEFINE n == Top(h)
           e == SubSeq(d, 1, n)
           f == SubSeq(c, 1, n)
<1> HIDE DEF d, h
<1>6. Stacked(e, h) /\ e \in Seq(CallSet) /\ Len(e) = n /\ n \in 1..Len(d)
  BY <1>1, <1>2, <1>3, <1>5, Landed
<1>7. n \in 0..Len(c) /\ n \in 0..Len(d) /\ n \in 1..(Len(c) - 1)
  BY <1>1, <1>6
<1>8. f \in Seq(CallSet) /\ Len(f) = n /\ \A i \in 1..n : f[i] = c[i]
  BY <1>7, CutFacts
<1>9. \A i \in 1..n : e[i] = d[i]  BY <1>1, <1>7, CutFacts
<1> HIDE DEF n, e, f
<1>10. ASSUME NEW i \in 1..n  PROVE e[i] = f[i]
  <2>1. i \in 1..(Len(c) - 1)  BY <1>1, <1>7
  <2>2. d[i] = c[i]  BY <2>1, <1>1
  <2> QED  BY <2>2, <1>8, <1>9
<1>11. e = f
  <2>1. Len(e) = Len(f) /\ \A i \in 1..Len(e) : e[i] = f[i]
    BY <1>6, <1>8, <1>10
  <2>2. e \in Seq(CallSet) /\ f \in Seq(CallSet)  BY <1>6, <1>8
  <2> QED  BY <2>1, <2>2, SeqEqual, Zenon
<1> QED  BY <1>6, <1>7, <1>8, <1>11 DEF n, e, f, d, h

-----------------------------------------------------------------------------
(***************************************************************************)
(* The allocator: a free hash record has a least address.                  *)
(***************************************************************************)
LEMMA LowestIsIn ==
  ASSUME NEW S \in SUBSET Hash, S # {}
  PROVE  Lowest(S) \in S
<1>1. S \subseteq Nat  BY EvaluationAssumption DEF Hash
<1>2. PICK h \in S : \A g \in S : ~ (<<g, h>> \in OpToRel(<, Nat))
  BY <1>1, NatLessThanWellFounded, WFMin
<1>3. ASSUME NEW g \in S  PROVE h <= g
  <2>1. g \in Nat /\ h \in Nat  BY <1>1
  <2>2. ~ (g < h)  BY <1>2, <2>1 DEF OpToRel
  <2> QED  BY <2>1, <2>2
<1> QED  BY <1>3 DEF Lowest

LEMMA NewFrame ==
  ASSUME CanAllocateFrame
  PROVE  NewNoms \in Free /\ NewVars \in Free /\ NewNoms # NewVars
<1>1. Free \subseteq Hash  BY DEF Free
<1>2. PICK g \in Free, h \in Free : g # h  BY DEF CanAllocateFrame
<1>3. NewNoms \in Free  BY <1>1, <1>2, LowestIsIn DEF NewNoms
<1>4. Free \ {NewNoms} # {} /\ Free \ {NewNoms} \subseteq Hash  BY <1>1, <1>2
<1>5. NewVars \in Free \ {NewNoms}  BY <1>4, LowestIsIn DEF NewVars
<1> QED  BY <1>3, <1>5

(***************************************************************************)
(* What the operations of the context do to its types.                     *)
(***************************************************************************)
ContextOK ==
  /\ vars \in Hash \union {Null}
  /\ frames \in Seq([vars : Hash, noms : Hash])
  /\ parent \in [Hash -> Hash \union {Null}]
  /\ owner \in [Hash -> Owners]
  /\ faults \subseteq Faults

LEMMA EnterTypes ==
  ASSUME ContextOK, CanAllocateFrame, Enter, UNCHANGED faults
  PROVE  ContextOK' /\ Len(frames') = Len(frames) + 1
<1>1. NewNoms \in Hash /\ NewVars \in Hash  BY NewFrame DEF Free
<1>2. frames' \in Seq([vars : Hash, noms : Hash]) /\ Len(frames') = Len(frames) + 1
  BY <1>1 DEF Enter, ContextOK
<1>3. owner' \in [Hash -> Owners]  BY <1>1 DEF Enter, ContextOK, Owners
<1>4. parent' \in [Hash -> Hash \union {Null}]  BY <1>1 DEF Enter, ContextOK
<1>5. vars' \in Hash  BY <1>1 DEF Enter
<1> QED  BY <1>2, <1>3, <1>4, <1>5 DEF ContextOK

LEMMA LeaveTypes ==
  ASSUME ContextOK, Leave
  PROVE  /\ ContextOK'
         /\ frames # <<>> => Len(frames') = Len(frames) - 1 /\ "no frame" \notin faults'
<1>1. CASE frames = <<>>
  BY <1>1 DEF Leave, ContextOK, context, Faults
<1>2. CASE frames # <<>>
  <2>1. Pop(frames) \in Seq([vars : Hash, noms : Hash])
        /\ Len(Pop(frames)) = Len(frames) - 1
        /\ Top(frames) \in [vars : Hash, noms : Hash]
    BY <1>2, PopFacts DEF ContextOK
  <2>2. parent[Top(frames).vars] \in Hash \union {Null}  BY <2>1 DEF ContextOK
  <2>3. vars' \in Hash \union {Null}  BY <1>2, <2>2 DEF Leave
  <2>4. frames' = Pop(frames)  BY <1>2 DEF Leave
  <2>5. owner' \in [Hash -> Owners]  BY <1>2 DEF Leave, ContextOK, Owners
  <2>6. parent' \in [Hash -> Hash \union {Null}]  BY <1>2 DEF Leave, ContextOK
  <2>7. faults' \subseteq {"double free"}  BY <1>2 DEF Leave
  <2> QED  BY <1>2, <2>1, <2>3, <2>4, <2>5, <2>6, <2>7 DEF ContextOK, Faults
<1> QED  BY <1>1, <1>2

LEMMA WithoutTypes ==
  ASSUME ContextOK, NEW hash \in Hash \union {Null}, Without(hash)
  PROVE  ContextOK' /\ "no frame" \notin faults'
<1>1. CASE vars = Null
  BY <1>1 DEF Without, ContextOK, Faults
<1>2. CASE vars # Null
  <2>1. vars \in Hash /\ parent[vars] \in Hash \union {Null}
    BY <1>2 DEF ContextOK
  <2>2. vars' \in Hash \union {Null}  BY <1>2, <2>1 DEF Without
  <2>3. parent' \in [Hash -> Hash \union {Null}]  BY <1>2, <2>1 DEF Without, ContextOK
  <2> QED  BY <1>2, <2>2, <2>3 DEF Without, ContextOK, Faults
<1> QED  BY <1>1, <1>2

-----------------------------------------------------------------------------
(***************************************************************************)
(* The number of handlers of a C stack that have a call frame.             *)
(***************************************************************************)
FrameSet(c) == {i \in 1..Len(c) : c[i].op \in FrameOps}
FrameCount(c) == Cardinality(FrameSet(c))

LEMMA FrameSetFinite ==
  ASSUME NEW c \in Seq(CallSet)
  PROVE  IsFiniteSet(FrameSet(c)) /\ FrameCount(c) \in Nat
<1>1. IsFiniteSet(1..Len(c))
  <2>1. 1 \in Int /\ Len(c) \in Int  OBVIOUS
  <2> QED  BY <2>1, FS_Interval
<1>2. FrameSet(c) \in SUBSET (1..Len(c))  BY DEF FrameSet
<1>3. IsFiniteSet(FrameSet(c))  BY <1>1, <1>2, FS_Subset
<1> QED  BY <1>3, FS_CardinalityType DEF FrameCount

LEMMA PushCount ==
  ASSUME NEW c \in Seq(CallSet), NEW call \in CallSet
  PROVE  FrameCount(Append(c, call)) =
           IF call.op \in FrameOps THEN FrameCount(c) + 1 ELSE FrameCount(c)
<1> DEFINE d == Append(c, call)
<1>1. Len(d) = Len(c) + 1 /\ d[Len(c) + 1] = call /\ Len(c) \in Nat
      /\ \A i \in 1..Len(c) : d[i] = c[i]
  OBVIOUS
<1> HIDE DEF d
<1>2. CASE call.op \in FrameOps
  <2>1. FrameSet(d) = FrameSet(c) \cup {Len(c) + 1}  BY <1>1, <1>2 DEF FrameSet
  <2>2. Len(c) + 1 \notin FrameSet(c)  BY <1>1 DEF FrameSet
  <2>3. FrameCount(d) = FrameCount(c) + 1
    BY <2>1, <2>2, FrameSetFinite, FS_AddElement DEF FrameCount
  <2> QED  BY <2>3, <1>2 DEF d
<1>3. CASE call.op \notin FrameOps
  <2>1. FrameSet(d) = FrameSet(c)  BY <1>1, <1>3 DEF FrameSet
  <2> QED  BY <2>1, <1>3 DEF d, FrameCount
<1> QED  BY <1>2, <1>3

LEMMA PopCount ==
  ASSUME NEW c \in Seq(CallSet), c # <<>>
  PROVE  /\ Top(c).op \in FrameOps =>
              FrameCount(c) >= 1 /\ FrameCount(Pop(c)) = FrameCount(c) - 1
         /\ Top(c).op \notin FrameOps => FrameCount(Pop(c)) = FrameCount(c)
<1> DEFINE d == Pop(c)
<1>1. /\ Len(c) \in Nat \ {0} /\ Len(d) = Len(c) - 1
      /\ Top(c) = c[Len(c)] /\ \A i \in 1..(Len(c) - 1) : d[i] = c[i]
  BY PopFacts
<1> HIDE DEF d
<1>2. FrameSet(d) = FrameSet(c) \ {Len(c)}  BY <1>1 DEF FrameSet
<1>3. CASE Top(c).op \in FrameOps
  <2>1. Len(c) \in FrameSet(c)  BY <1>1, <1>3 DEF FrameSet
  <2>2. FrameCount(d) = FrameCount(c) - 1
    BY <1>2, <2>1, FrameSetFinite, FS_RemoveElement DEF FrameCount
  <2>3. FrameCount(c) \in Nat /\ FrameCount(c) # 0
    BY <2>1, FrameSetFinite, FS_EmptySet DEF FrameCount
  <2> QED  BY <2>2, <2>3, <1>3 DEF d
<1>4. CASE Top(c).op \notin FrameOps
  <2>1. Len(c) \notin FrameSet(c)  BY <1>1, <1>4 DEF FrameSet
  <2>2. FrameSet(d) = FrameSet(c)  BY <1>2, <2>1
  <2> QED  BY <2>2, <1>4 DEF d, FrameCount
<1> QED  BY <1>3, <1>4

LEMMA CutCount ==
  ASSUME NEW c \in Seq(CallSet), NEW n \in 0..Len(c)
  PROVE  FrameCount(SubSeq(c, 1, n)) <= FrameCount(c)
<1> DEFINE d == SubSeq(c, 1, n)
<1>1. Len(d) = n /\ \A i \in 1..n : d[i] = c[i]  BY CutFacts
<1> HIDE DEF d
<1>2. FrameSet(d) \in SUBSET FrameSet(c)  BY <1>1 DEF FrameSet
<1>3. FrameCount(d) <= FrameCount(c)
  BY <1>2, FrameSetFinite, FS_Subset DEF FrameCount
<1> QED  BY <1>3 DEF d

-----------------------------------------------------------------------------
(***************************************************************************)
(* The inductive invariant: the types, the two stacks in step, an error    *)
(* that has landed on the top of the C stack, and frames for every call.   *)
(***************************************************************************)
ControlOK ==
  /\ calls \in Seq(CallSet) /\ jump \in Seq(Nat)
  /\ Stacked(calls, jump)
  /\ catching => calls # <<>> /\ Top(jump) = Len(calls)
  /\ phase # "open" => calls = <<>> /\ ~catching

RestOK ==
  /\ catching \in BOOLEAN /\ unwound \in BOOLEAN
  /\ errors \in 0..MaxErrors
  /\ body \in {Null, Block}
  /\ phase \in Phases

FramesOK ==
  /\ phase = "open" => FrameCount(calls) <= Len(frames)
  /\ "no frame" \notin faults

EvalInv == ContextOK /\ ControlOK /\ RestOK /\ FramesOK

LEMMA EvalInit == Init => EvalInv
<1> SUFFICES ASSUME Init  PROVE EvalInv
  OBVIOUS
<1>1. Root \in Hash  BY EvaluationAssumption DEF Root, Hash
<1>2. ContextOK  BY <1>1 DEF Init, ContextOK, Owners
<1>3. ControlOK  BY DEF Init, ControlOK, Stacked
<1>4. RestOK
  <2>1. 0 \in 0..MaxErrors  BY EvaluationAssumption
  <2> QED  BY <2>1, Zenon DEF Init, RestOK, Phases
<1>5. FrameSet(<<>>) = {}  BY DEF FrameSet
<1>6. FrameCount(<<>>) = 0  BY <1>5, FS_EmptySet DEF FrameCount
<1>7. FramesOK  BY <1>6 DEF Init, FramesOK
<1> QED  BY <1>2, <1>3, <1>4, <1>7 DEF EvalInv

\* A handler that can run is on a C stack whose errors have been handled.
LEMMA RunningFacts ==
  ASSUME EvalInv, NEW ops, Within(ops)
  PROVE  /\ calls \in Seq(CallSet) /\ jump \in Seq(Nat) /\ Stacked(calls, jump)
         /\ calls # <<>> /\ Top(calls).op \in ops /\ Top(calls) \in CallSet
         /\ Len(calls) \in Nat \ {0}
         /\ phase = "open" /\ catching = FALSE /\ faults = {}
         /\ FrameCount(calls) <= Len(frames)
<1>1. calls \in Seq(CallSet) /\ calls # <<>>
  BY DEF Within, EvalInv, ControlOK
<1>2. Top(calls) \in CallSet /\ Len(calls) \in Nat \ {0}  BY <1>1, PopFacts
<1> QED  BY <1>1, <1>2 DEF Within, Running, EvalInv, ControlOK, FramesOK, RestOK

\* Nothing but the C stack and the jump buffers changes, and no call frame.
LEMMA PushTryStep ==
  ASSUME EvalInv, CanBegin, NEW call \in CallSet, Push(call),
         call.op \in {"test"}, jump' = Append(jump, Len(calls) + 1),
         UNCHANGED <<context, catching, errors, body, phase, faults, unwound>>
  PROVE  EvalInv'
<1>1. /\ calls \in Seq(CallSet) /\ jump \in Seq(Nat) /\ Stacked(calls, jump)
      /\ calls # <<>> /\ Len(calls) \in Nat \ {0}
      /\ phase = "open" /\ catching = FALSE /\ FrameCount(calls) <= Len(frames)
  BY RunningFacts DEF CanBegin
<1>2. calls' = Append(calls, call)  BY DEF Push
<1>3. Stacked(calls', jump')
  BY <1>1, <1>2, PushTry DEF TryOps
<1>4. calls' \in Seq(CallSet) /\ jump' \in Seq(Nat)  BY <1>1, <1>2
<1>5. FrameCount(calls') = FrameCount(calls)
  BY <1>1, <1>2, PushCount DEF FrameOps
<1> QED  BY <1>1, <1>3, <1>4, <1>5
         DEF EvalInv, ContextOK, ControlOK, RestOK, FramesOK, context

LEMMA PushPlainStep ==
  ASSUME EvalInv, CanBegin, NEW call \in CallSet, Push(call),
         call.op \notin TryOps, ContextOK', faults' = faults,
         Len(frames') = Len(frames) + (IF call.op \in FrameOps THEN 1 ELSE 0),
         body' \in {Null, Block}, UNCHANGED <<errorState, phase, unwound>>
  PROVE  EvalInv'
<1>1. /\ calls \in Seq(CallSet) /\ jump \in Seq(Nat) /\ Stacked(calls, jump)
      /\ calls # <<>> /\ Len(calls) \in Nat \ {0} /\ faults = {}
      /\ phase = "open" /\ catching = FALSE /\ FrameCount(calls) <= Len(frames)
  BY RunningFacts DEF CanBegin
<1>2. calls' = Append(calls, call)  BY DEF Push
<1>3. Stacked(calls', jump')
  BY <1>1, <1>2, PushPlain DEF errorState
<1>4. calls' \in Seq(CallSet) /\ jump' \in Seq(Nat)  BY <1>1, <1>2 DEF errorState
<1>5. FrameCount(calls') <= Len(frames')
  <2>1. FrameCount(calls) \in Nat /\ Len(frames) \in Nat
    BY <1>1, FrameSetFinite DEF EvalInv, ContextOK
  <2>2. FrameCount(calls') =
          IF call.op \in FrameOps THEN FrameCount(calls) + 1 ELSE FrameCount(calls)
    BY <1>1, <1>2, PushCount
  <2> QED  BY <1>1, <2>1, <2>2
<1> QED  BY <1>1, <1>3, <1>4, <1>5
         DEF EvalInv, ControlOK, RestOK, FramesOK, errorState

\* A handler of a call frame returns: a frame is there for it to leave.
LEMMA EndFrameStep ==
  ASSUME EvalInv, NEW ops, Within(ops), ops \subseteq FrameOps, EndFrame,
         body' \in {Null, Block}, UNCHANGED <<errorState, phase, unwound>>
  PROVE  EvalInv'
<1>1. /\ calls \in Seq(CallSet) /\ jump \in Seq(Nat) /\ Stacked(calls, jump)
      /\ calls # <<>> /\ Top(calls).op \in FrameOps
      /\ phase = "open" /\ catching = FALSE /\ FrameCount(calls) <= Len(frames)
  BY RunningFacts
<1>2. Leave /\ calls' = Pop(calls)  BY DEF EndFrame
<1>3. Top(calls).op \notin TryOps  BY <1>1 DEF FrameOps, TryOps
<1>4. Stacked(Pop(calls), jump)  BY <1>1, <1>3, PopPlain
<1>5. Pop(calls) \in Seq(CallSet)  BY <1>1, PopFacts
<1>6. FrameCount(calls) >= 1 /\ FrameCount(Pop(calls)) = FrameCount(calls) - 1
  BY <1>1, PopCount
<1>7. FrameCount(calls) \in Nat  BY <1>1, FrameSetFinite
<1>8. ContextOK  BY DEF EvalInv
<1>9. frames \in Seq([vars : Hash, noms : Hash])  BY <1>8 DEF ContextOK
<1>10. Len(frames) \in Nat  BY <1>9, LenProperties
<1>11. frames # <<>>
  <2>1. Len(frames) # 0  BY <1>1, <1>6, <1>7, <1>10
  <2> QED  BY <2>1, <1>9, EmptySeq
<1>12. ContextOK' /\ Len(frames') = Len(frames) - 1 /\ "no frame" \notin faults'
  BY <1>2, <1>8, <1>11, LeaveTypes
<1>13. FrameCount(calls') <= Len(frames')
  <2>1. Len(frames') = Len(frames) - 1  BY <1>12
  <2>2. FrameCount(calls') = FrameCount(calls) - 1  BY <1>2, <1>6
  <2>3. FrameCount(calls) <= Len(frames)  BY <1>1
  <2> QED  BY <2>1, <2>2, <2>3, <1>7, <1>10
<1> QED  BY <1>1, <1>2, <1>4, <1>5, <1>12, <1>13
         DEF EvalInv, ControlOK, RestOK, FramesOK, errorState

\* The handler of a HEMP_TRY finishes, normally or after an error.
LEMMA PopTryStep ==
  ASSUME EvalInv, calls # <<>>, Top(calls).op \in TryOps, phase = "open",
         calls' = Pop(calls), jump' = Pop(jump), catching' = FALSE,
         ContextOK', "no frame" \notin faults', frames' = frames,
         UNCHANGED <<errors, body, phase, unwound>>
  PROVE  EvalInv'
<1>1. calls \in Seq(CallSet) /\ jump \in Seq(Nat) /\ Stacked(calls, jump)
      /\ FrameCount(calls) <= Len(frames)
  BY DEF EvalInv, ControlOK, FramesOK
<1>2. jump # <<>> /\ Stacked(calls', jump')  BY <1>1, PopTry
<1>3. calls' \in Seq(CallSet) /\ jump' \in Seq(Nat)  BY <1>1, <1>2, PopFacts
<1>4. FrameCount(calls') <= Len(frames')
  BY <1>1, PopCount DEF TryOps, FrameOps
<1> QED  BY <1>2, <1>3, <1>4 DEF EvalInv, ControlOK, RestOK, FramesOK

\* with and just enter their HEMP_TRY.
LEMMA ReplaceTryStep ==
  ASSUME EvalInv, Within(ParamsOps), NEW call \in CallSet, Replace(call),
         call.op \in {"with", "just"}, jump' = Append(jump, Len(calls)),
         ContextOK', faults' = faults, frames' = frames,
         UNCHANGED <<catching, errors, body, phase, unwound>>
  PROVE  EvalInv'
<1>1. /\ calls \in Seq(CallSet) /\ jump \in Seq(Nat) /\ Stacked(calls, jump)
      /\ calls # <<>> /\ Top(calls).op \in ParamsOps /\ Len(calls) \in Nat \ {0}
      /\ phase = "open" /\ catching = FALSE /\ faults = {}
      /\ FrameCount(calls) <= Len(frames)
  BY RunningFacts
<1>2. calls' = Append(Pop(calls), call) /\ Pop(calls) \in Seq(CallSet)
  BY <1>1, PopFacts DEF Replace
<1>3. Stacked(calls', jump')
  BY <1>1, <1>2, ReplaceTry DEF TryOps, ParamsOps
<1>4. calls' \in Seq(CallSet) /\ jump' \in Seq(Nat)  BY <1>1, <1>2
<1>5. FrameCount(calls') = FrameCount(calls)
  <2>1. Top(calls).op \notin FrameOps /\ call.op \notin FrameOps
    BY <1>1 DEF ParamsOps, FrameOps
  <2>2. FrameCount(Pop(calls)) = FrameCount(calls)  BY <1>1, <2>1, PopCount
  <2>3. FrameCount(Append(Pop(calls), call)) = FrameCount(Pop(calls))
    BY <1>2, <2>1, PushCount
  <2> QED  BY <1>2, <2>2, <2>3
<1> QED  BY <1>1, <1>3, <1>4, <1>5 DEF EvalInv, ControlOK, RestOK, FramesOK

-----------------------------------------------------------------------------
(***************************************************************************)
(* Every step keeps the invariant: one lemma for each group of actions.    *)
(***************************************************************************)
LEMMA CallTyped ==
  ASSUME NEW op \in Ops, NEW hash \in Hash \union {Null}, NEW frame \in Nat,
         NEW saved \in SavedBy(op)
  PROVE  Call(op, hash, frame, saved) \in CallSet /\ Call(op, hash, frame, saved).op = op
BY DEF Call, CallSet, SavedBy

LEMMA NullSaved == \A op : Null \in SavedBy(op)
BY DEF SavedBy

LEMMA RenderKeeps == EvalInv /\ (Render \/ RenderEnd) => EvalInv'
<1> SUFFICES ASSUME EvalInv, Render \/ RenderEnd  PROVE EvalInv'
  OBVIOUS
<1>1. CASE Render
  <2>1. calls = <<>> /\ calls' = Append(calls, Plain("try")) /\ jump' = <<1>>
    BY <1>1 DEF Render, Push
  <2>2. Plain("try") \in CallSet /\ Plain("try").op = "try"
    BY CallTyped, NullSaved DEF Plain, Ops, TryOps
  <2>3. calls' = <<Plain("try")>>  BY <2>1
  <2>4. Len(calls') = 1 /\ calls'[1] = Plain("try") /\ Len(jump') = 1 /\ jump'[1] = 1
    BY <2>1, <2>3
  <2>5. Stacked(calls', jump')  BY <2>2, <2>4 DEF Stacked, TryOps
  <2>6. calls' \in Seq(CallSet) /\ jump' \in Seq(Nat)  BY <2>1, <2>2, <2>3
  <2>7. FrameCount(calls') = FrameCount(calls)
    BY <2>1, <2>2, PushCount DEF FrameOps, EvalInv, ControlOK
  <2>8. phase = "open" /\ catching = FALSE
    BY <1>1 DEF Render, Running, EvalInv, RestOK
  <2> QED  BY <1>1, <2>5, <2>6, <2>7, <2>8
           DEF Render, EvalInv, ContextOK, ControlOK, RestOK, FramesOK, context
<1>2. CASE RenderEnd
  <2>1. /\ calls # <<>> /\ Top(calls).op \in {"try"} /\ phase = "open"
        /\ catching = FALSE /\ faults = {}
    BY <1>2, RunningFacts DEF RenderEnd
  <2>2. ContextOK'  BY <1>2 DEF RenderEnd, EvalInv, ContextOK, context
  <2>3. /\ calls' = Pop(calls) /\ jump' = Pop(jump) /\ frames' = frames
        /\ UNCHANGED <<catching, errors, body, phase, faults, unwound>>
    BY <1>2 DEF RenderEnd, context
  <2>4. catching' = FALSE /\ "no frame" \notin faults'  BY <2>1, <2>3
  <2>5. Top(calls).op \in TryOps  BY <2>1 DEF TryOps
  <2> QED  BY <2>1, <2>2, <2>3, <2>4, <2>5, PopTryStep
<1> QED  BY <1>1, <1>2

LEMMA TestKeeps == EvalInv /\ (TestBegin \/ TestEnd) => EvalInv'
<1> SUFFICES ASSUME EvalInv, TestBegin \/ TestEnd  PROVE EvalInv'
  OBVIOUS
<1>1. CASE TestBegin
  <2>1. Plain("test") \in CallSet /\ Plain("test").op = "test"
    BY CallTyped, NullSaved DEF Plain, Ops, TryOps
  <2> QED  BY <1>1, <2>1, PushTryStep DEF TestBegin
<1>2. CASE TestEnd
  <2>1. /\ calls # <<>> /\ Top(calls).op \in {"test"} /\ phase = "open"
        /\ catching = FALSE /\ faults = {}
    BY <1>2, RunningFacts DEF TestEnd
  <2>2. ContextOK'  BY <1>2 DEF TestEnd, EvalInv, ContextOK, context
  <2>3. /\ calls' = Pop(calls) /\ jump' = Pop(jump) /\ frames' = frames
        /\ UNCHANGED <<catching, errors, body, phase, faults, unwound>>
    BY <1>2 DEF TestEnd, context
  <2>4. catching' = FALSE /\ "no frame" \notin faults'  BY <2>1, <2>3
  <2>5. Top(calls).op \in TryOps  BY <2>1 DEF TryOps
  <2> QED  BY <2>1, <2>2, <2>3, <2>4, <2>5, PopTryStep
<1> QED  BY <1>1, <1>2

LEMMA ParamsKeep ==
  ASSUME EvalInv, NEW op \in ParamsOps, ParamsBegin(op)
  PROVE  EvalInv'
<1> DEFINE hash == Lowest(Free)
           call == Call(op, hash, 0, Null)
<1>1. hash \in Hash
  <2>1. Free \subseteq Hash /\ Free # {}  BY DEF Free, ParamsBegin
  <2> QED  BY <2>1, LowestIsIn
<1>2. call \in CallSet /\ call.op = op /\ op \in Ops
  BY <1>1, CallTyped, NullSaved DEF Ops
<1>3. call.op \notin TryOps /\ call.op \notin FrameOps
  BY <1>2 DEF ParamsOps, TryOps, FrameOps
<1>4. Push(call) /\ CanBegin /\ owner' = [owner EXCEPT ![hash] = "pool"]
      /\ UNCHANGED <<vars, frames, parent, errorState, body, phase, faults, unwound>>
  BY DEF ParamsBegin
<1> HIDE DEF hash, call
<1>5. ContextOK'  BY <1>1, <1>4 DEF EvalInv, ContextOK, Owners
<1>6. Len(frames') = Len(frames) + (IF call.op \in FrameOps THEN 1 ELSE 0)
  BY <1>3, <1>4 DEF EvalInv, ContextOK
<1>7. body' \in {Null, Block}  BY <1>4 DEF EvalInv, RestOK
<1> QED  BY <1>2, <1>3, <1>4, <1>5, <1>6, <1>7, PushPlainStep

LEMMA BodyKeeps == EvalInv /\ (WithBody \/ JustBody) => EvalInv'
<1> SUFFICES ASSUME EvalInv, WithBody \/ JustBody  PROVE EvalInv'
  OBVIOUS
<1>1. PICK op \in ParamsOps : Within({op})
  BY DEF WithBody, JustBody, ParamsOps
<1>2. Within(ParamsOps)  BY <1>1 DEF Within
<1>3. /\ Top(calls) \in CallSet /\ Len(calls) \in Nat /\ phase = "open"
      /\ catching = FALSE /\ faults = {}
  BY <1>2, RunningFacts
<1> DEFINE hash == Top(calls).hash
<1>4. hash \in Hash \union {Null}  BY <1>3 DEF CallSet
<1>5. CASE WithBody
  <2>1. Call("with", hash, 0, Null) \in CallSet /\ Call("with", hash, 0, Null).op = "with"
    BY <1>4, CallTyped, NullSaved DEF Ops, TryOps
  <2>2. /\ vars' = hash /\ parent' = [parent EXCEPT ![hash] = vars]
        /\ Replace(Call("with", hash, 0, Null)) /\ jump' = Append(jump, Len(calls))
        /\ UNCHANGED <<frames, owner, catching, errors, body, phase, faults, unwound>>
    BY <1>5 DEF WithBody
  <2>3. ContextOK'  BY <1>4, <2>2 DEF EvalInv, ContextOK
  <2> QED  BY <1>2, <2>1, <2>2, <2>3, ReplaceTryStep
<1>6. CASE JustBody
  <2>1. vars \in SavedBy("just")  BY DEF EvalInv, ContextOK, SavedBy
  <2>2. Call("just", hash, 0, vars) \in CallSet /\ Call("just", hash, 0, vars).op = "just"
    <3>1. "just" \in Ops /\ 0 \in Nat  BY DEF Ops, TryOps
    <3> HIDE DEF hash
    <3> QED  BY <1>4, <2>1, <3>1, CallTyped
  <2>3. /\ vars' = hash /\ parent' = [parent EXCEPT ![hash] = Null]
        /\ Replace(Call("just", hash, 0, vars)) /\ jump' = Append(jump, Len(calls))
        /\ UNCHANGED <<frames, owner, catching, errors, body, phase, faults, unwound>>
    BY <1>6 DEF JustBody
  <2>4. ContextOK'  BY <1>4, <2>3 DEF EvalInv, ContextOK
  <2> QED  BY <1>2, <2>2, <2>3, <2>4, ReplaceTryStep
<1> QED  BY <1>5, <1>6

LEMMA FrameKeeps ==
  EvalInv /\ (EachBegin \/ InBegin \/ ItemBegin \/ ApplyBegin) => EvalInv'
<1> SUFFICES ASSUME EvalInv, EachBegin \/ InBegin \/ ItemBegin \/ ApplyBegin
             PROVE EvalInv'
  OBVIOUS
<1> DEFINE depth == Len(frames) + 1
<1>1. ContextOK /\ depth \in Nat /\ body \in {Null, Block}
  BY DEF EvalInv, ContextOK, RestOK
<1>2. CanBegin  BY DEF EachBegin, InBegin, ItemBegin, ApplyBegin
<1>3. phase = "open" /\ catching = FALSE /\ faults = {} /\ calls # <<>>
  BY <1>2, RunningFacts DEF CanBegin
<1> HIDE DEF depth
<1>4. ASSUME NEW op \in FrameOps, NEW saved \in SavedBy(op),
             CanAllocateFrame, Enter, Push(Call(op, Null, depth, saved)),
             body' \in {Null, Block}, UNCHANGED <<errorState, phase, faults, unwound>>
      PROVE  EvalInv'
  <2> DEFINE call == Call(op, Null, depth, saved)
  <2>1. call \in CallSet /\ call.op = op  BY <1>1, CallTyped DEF Ops
  <2>2. call.op \in FrameOps /\ call.op \notin TryOps  BY <2>1 DEF FrameOps, TryOps
  <2>3. ContextOK' /\ Len(frames') = Len(frames) + 1
    BY <1>1, <1>4, EnterTypes
  <2>4. Push(call)  BY <1>4
  <2> HIDE DEF call
  <2>5. Len(frames') = Len(frames) + (IF call.op \in FrameOps THEN 1 ELSE 0)
    BY <2>2, <2>3
  <2> QED  BY <1>2, <1>4, <2>1, <2>2, <2>3, <2>4, <2>5, PushPlainStep
<1>5. CASE EachBegin
  <2>1. "each" \in FrameOps /\ Null \in SavedBy("each")  BY NullSaved DEF FrameOps
  <2>2. CanAllocateFrame /\ Enter /\ Push(Call("each", Null, depth, Null))
        /\ body' \in {Null, Block} /\ UNCHANGED <<errorState, phase, faults, unwound>>
    BY <1>1, <1>5 DEF EachBegin, BeginFrame, depth
  <2> QED  BY <1>4, <2>1, <2>2
<1>6. CASE InBegin
  <2>1. "in" \in FrameOps /\ body \in SavedBy("in")  BY <1>1 DEF FrameOps, SavedBy
  <2>2. CanAllocateFrame /\ Enter /\ Push(Call("in", Null, depth, body))
        /\ body' \in {Null, Block} /\ UNCHANGED <<errorState, phase, faults, unwound>>
    BY <1>6 DEF InBegin, BeginFrame, depth
  <2> QED  BY <1>1, <1>4, <2>1, <2>2
<1>7. CASE ItemBegin /\ frames # <<>>
  <2>1. "item" \in FrameOps /\ Null \in SavedBy("item")  BY NullSaved DEF FrameOps
  <2>2. CanAllocateFrame /\ Enter /\ Push(Call("item", Null, depth, Null))
        /\ body' \in {Null, Block} /\ UNCHANGED <<errorState, phase, faults, unwound>>
    BY <1>1, <1>7 DEF ItemBegin, BeginFrame, depth
  <2> QED  BY <1>4, <2>1, <2>2
<1>8. CASE ItemBegin /\ frames = <<>>
  <2>1. faults' = {"null frame"}
        /\ UNCHANGED <<context, calls, errorState, body, phase, unwound>>
    BY <1>8 DEF ItemBegin
  <2> QED  BY <2>1 DEF EvalInv, ContextOK, ControlOK, RestOK, FramesOK, Faults,
                       context, errorState
<1>9. CASE ApplyBegin
  <2> DEFINE call == Call("args", Null, depth, Null)
  <2>1. NewNoms \in Hash /\ NewVars \in Hash
    BY <1>9, NewFrame DEF Free, ApplyBegin
  <2>2. frames' = Append(frames, [vars |-> NewVars, noms |-> NewNoms])
        /\ owner' = [owner EXCEPT ![NewVars] = "frame", ![NewNoms] = "frame"]
        /\ parent' = [parent EXCEPT ![NewVars] = vars, ![NewNoms] = NewVars]
        /\ vars' = NewNoms /\ Push(call)
        /\ UNCHANGED <<errorState, body, phase, faults, unwound>>
    BY <1>9 DEF ApplyBegin, depth
  <2>3. call \in CallSet /\ call.op = "args"  BY <1>1, CallTyped, NullSaved DEF Ops, FrameOps
  <2>4. call.op \in FrameOps /\ call.op \notin TryOps  BY <2>3 DEF FrameOps, TryOps
  <2> HIDE DEF call
  <2>5. frames' \in Seq([vars : Hash, noms : Hash]) /\ Len(frames') = Len(frames) + 1
    BY <1>1, <2>1, <2>2 DEF ContextOK
  <2>6. owner' \in [Hash -> Owners]  BY <1>1, <2>1, <2>2 DEF ContextOK, Owners
  <2>7. parent' \in [Hash -> Hash \union {Null}]  BY <1>1, <2>1, <2>2 DEF ContextOK
  <2>8. ContextOK'  BY <1>1, <2>1, <2>2, <2>5, <2>6, <2>7 DEF ContextOK
  <2>9. Len(frames') = Len(frames) + (IF call.op \in FrameOps THEN 1 ELSE 0)
    BY <2>4, <2>5
  <2>10. body' \in {Null, Block}  BY <1>1, <2>2
  <2> QED  BY <1>2, <2>2, <2>3, <2>4, <2>8, <2>9, <2>10, PushPlainStep
<1> QED  BY <1>5, <1>6, <1>7, <1>8, <1>9

LEMMA EndKeeps ==
  EvalInv /\ (WithEnd \/ InEnd \/ CallEnd \/ ApplyBlur) => EvalInv'
<1> SUFFICES ASSUME EvalInv, WithEnd \/ InEnd \/ CallEnd \/ ApplyBlur
             PROVE EvalInv'
  OBVIOUS
<1>1. ContextOK /\ body \in {Null, Block}  BY DEF EvalInv, RestOK
<1>2. CASE WithEnd
  <2>1. Within({"with", "just"})  BY <1>2 DEF WithEnd
  <2>2. /\ calls # <<>> /\ Top(calls).op \in {"with", "just"}
        /\ Top(calls) \in CallSet /\ phase = "open" /\ catching = FALSE
    BY <2>1, RunningFacts
  <2>3. Without(Top(calls).saved) /\ calls' = Pop(calls) /\ jump' = Pop(jump)
        /\ UNCHANGED <<catching, errors, body, phase, unwound>>
    BY <1>2 DEF WithEnd
  <2>4. ContextOK' /\ "no frame" \notin faults'
    <3>1. Top(calls).saved \in Hash \union {Null}  BY <2>2 DEF CallSet, SavedBy
    <3> QED  BY <1>1, <2>3, <3>1, WithoutTypes
  <2>5. frames' = frames  BY <2>3 DEF Without
  <2>6. Top(calls).op \in TryOps /\ catching' = FALSE  BY <2>2, <2>3 DEF TryOps
  <2> QED  BY <2>2, <2>3, <2>4, <2>5, <2>6, PopTryStep
<1>3. CASE InEnd
  <2>1. {"in"} \subseteq FrameOps  BY DEF FrameOps
  <2>2. Top(calls) \in CallSet /\ Top(calls).op = "in"
    <3>1. Within({"in"})  BY <1>3 DEF InEnd
    <3>2. Top(calls) \in CallSet /\ Top(calls).op \in {"in"}  BY <3>1, RunningFacts
    <3> QED  BY <3>2
  <2>3. Top(calls).saved \in {Null, Block}  BY <2>2 DEF CallSet, SavedBy
  <2>4. body' \in {Null, Block}  BY <1>3, <2>3 DEF InEnd
  <2> QED  BY <1>3, <2>1, <2>4, EndFrameStep DEF InEnd
<1>4. CASE CallEnd
  <2>1. {"each", "item", "apply"} \subseteq FrameOps  BY DEF FrameOps
  <2>2. body' \in {Null, Block}  BY <1>1, <1>4 DEF CallEnd
  <2> QED  BY <1>4, <2>1, <2>2, EndFrameStep DEF CallEnd
<1>5. CASE ApplyBlur
  <2> DEFINE call == [Top(calls) EXCEPT !.op = "apply"]
  <2>1. /\ calls \in Seq(CallSet) /\ jump \in Seq(Nat) /\ Stacked(calls, jump)
        /\ calls # <<>> /\ Top(calls).op \in {"args"} /\ Top(calls) \in CallSet
        /\ phase = "open" /\ catching = FALSE /\ faults = {}
        /\ FrameCount(calls) <= Len(frames)
    BY <1>5, RunningFacts DEF ApplyBlur
  <2>2. call \in CallSet /\ call.op = "apply"  BY <2>1 DEF CallSet, Ops, FrameOps, SavedBy
  <2>3. calls' = Append(Pop(calls), call)
        /\ UNCHANGED <<frames, owner, errorState, body, phase, faults, unwound>>
    BY <1>5 DEF ApplyBlur, Replace
  <2>4. call.op \notin TryOps /\ Top(calls).op \notin TryOps
        /\ call.op \in FrameOps /\ Top(calls).op \in FrameOps
    BY <2>1, <2>2 DEF TryOps, FrameOps
  <2> HIDE DEF call
  <2>5. Pop(calls) \in Seq(CallSet)  BY <2>1, PopFacts
  <2>6. Stacked(calls', jump)  BY <2>1, <2>2, <2>3, <2>4, ReplacePlain
  <2>7. FrameCount(calls') = FrameCount(calls)
    <3>1. FrameCount(Pop(calls)) = FrameCount(calls) - 1
      BY <2>1, <2>4, PopCount
    <3>2. FrameCount(Append(Pop(calls), call)) = FrameCount(Pop(calls)) + 1
      BY <2>2, <2>4, <2>5, PushCount
    <3>3. FrameCount(calls) \in Nat  BY <2>1, FrameSetFinite
    <3> QED  BY <2>3, <3>1, <3>2, <3>3
  <2>8. ContextOK'
    <3>1. CASE frames = <<>>
      BY <1>1, <1>5, <2>3, <3>1 DEF ApplyBlur, ContextOK
    <3>2. CASE frames # <<>>
      <4> DEFINE noms == Top(frames).noms
      <4>1. Top(frames) \in [vars : Hash, noms : Hash]
        BY <1>1, <3>2, PopFacts DEF ContextOK
      <4>2. noms \in Hash /\ parent[noms] \in Hash \union {Null}
        BY <1>1, <4>1 DEF ContextOK
      <4>3. vars' = parent[noms] /\ parent' = [parent EXCEPT ![noms] = Null]
        BY <1>5, <3>2 DEF ApplyBlur
      <4> HIDE DEF noms
      <4> QED  BY <1>1, <2>3, <4>2, <4>3 DEF ContextOK
    <3> QED  BY <3>1, <3>2
  <2>9. calls' \in Seq(CallSet)  BY <2>2, <2>3, <2>5
  <2> QED  BY <2>1, <2>3, <2>6, <2>7, <2>8, <2>9
           DEF EvalInv, ControlOK, RestOK, FramesOK, errorState
<1> QED  BY <1>2, <1>3, <1>4, <1>5

LEMMA ErrorKeeps == EvalInv /\ (Throw \/ WithCatch \/ Catch) => EvalInv'
<1> SUFFICES ASSUME EvalInv, Throw \/ WithCatch \/ Catch  PROVE EvalInv'
  OBVIOUS
<1>1. /\ calls \in Seq(CallSet) /\ jump \in Seq(Nat) /\ Stacked(calls, jump)
      /\ catching => calls # <<>> /\ Top(jump) = Len(calls)
      /\ phase # "open" => calls = <<>> /\ ~catching
      /\ phase = "open" => FrameCount(calls) <= Len(frames)
  BY DEF EvalInv, ControlOK, FramesOK
<1>2. Len(frames) \in Nat /\ FrameCount(calls) \in Nat
  <2>1. frames \in Seq([vars : Hash, noms : Hash])  BY DEF EvalInv, ContextOK
  <2> QED  BY <1>1, <2>1, LenProperties, FrameSetFinite
<1>3. ASSUME NEW n \in Nat, CutTo(n)  PROVE unwound' \in BOOLEAN
  BY <1>3, Zenon DEF CutTo, EvalInv, RestOK
<1>4. CASE Throw
  <2> DEFINE n == Top(jump)
  <2>1. calls # <<>> /\ phase = "open" /\ faults = {}
    BY <1>4, RunningFacts DEF Throw
  <2>2. /\ Stacked(SubSeq(calls, 1, n), jump) /\ SubSeq(calls, 1, n) \in Seq(CallSet)
        /\ Len(SubSeq(calls, 1, n)) = n /\ n \in 1..Len(calls)
    BY <1>1, <2>1, Landed
  <2>3. calls' = SubSeq(calls, 1, n) /\ jump' = jump /\ phase' = phase
        /\ UNCHANGED <<context, body, faults>> /\ catching' = TRUE
        /\ errors' = errors + 1 /\ errors < MaxErrors
    BY <1>4 DEF Throw, CutTo
  <2>4. unwound' \in BOOLEAN  BY <1>3, <1>4, <2>2 DEF Throw
  <2>5. n \in 0..Len(calls)  BY <2>2
  <2>6. FrameCount(SubSeq(calls, 1, n)) <= FrameCount(calls)
        /\ FrameCount(SubSeq(calls, 1, n)) \in Nat
    BY <1>1, <2>2, <2>5, CutCount, FrameSetFinite
  <2>7. calls' # <<>> /\ Top(jump') = Len(calls')
    BY <2>2, <2>3
  <2> HIDE DEF n
  <2>8. ContextOK'  BY <2>3 DEF EvalInv, ContextOK, context
  <2>9. ControlOK'  BY <1>1, <2>1, <2>2, <2>3, <2>7 DEF ControlOK
  <2>10. FrameCount(calls') <= Len(frames')
    BY <1>1, <1>2, <2>1, <2>3, <2>6 DEF context
  <2>11. FramesOK'  BY <2>1, <2>3, <2>10 DEF FramesOK
  <2>12. errors' \in 0..MaxErrors
    BY <2>3, EvaluationAssumption DEF EvalInv, RestOK
  <2>13. RestOK'  BY <2>3, <2>4, <2>12 DEF EvalInv, RestOK
  <2> QED  BY <2>8, <2>9, <2>11, <2>13 DEF EvalInv
<1>5. CASE WithCatch
  <2> DEFINE n == Top(Pop(jump))
  <2>1. /\ catching /\ Top(calls).op \in {"with", "just"}
        /\ Without(Top(calls).saved) /\ jump' = Pop(jump)
        /\ calls' = SubSeq(calls, 1, n) /\ CutTo(n)
        /\ UNCHANGED <<catching, errors, body, phase>>
    BY <1>5 DEF WithCatch, CutTo
  <2>2. calls # <<>> /\ phase = "open"
    <3>1. phase \in Phases  BY DEF EvalInv, RestOK
    <3> QED  BY <1>1, <2>1, <3>1
  <2>3. Top(calls) \in CallSet /\ Len(calls) \in Nat  BY <1>1, <2>2, PopFacts
  <2>4. Top(calls).saved \in Hash \union {Null}
    BY <2>1, <2>3 DEF CallSet, SavedBy
  <2>5. ContextOK' /\ "no frame" \notin faults'
    BY <2>1, <2>4, WithoutTypes DEF EvalInv
  <2>6. Top(calls).op \in TryOps /\ Top(calls).op # "try"  BY <2>1 DEF TryOps
  <2>7. /\ Stacked(SubSeq(calls, 1, n), Pop(jump))
        /\ SubSeq(calls, 1, n) \in Seq(CallSet)
        /\ Len(SubSeq(calls, 1, n)) = n /\ n \in 1..(Len(calls) - 1)
    BY <1>1, <2>2, <2>6, LandedAgain
  <2>8. Pop(jump) \in Seq(Nat)
    BY <1>1, <2>2, JumpTop, PopFacts
  <2>9. calls' # <<>> /\ Top(jump') = Len(calls')
    BY <2>1, <2>7
  <2>10. unwound' \in BOOLEAN
    <3>1. n \in Nat  BY <2>7
    <3> QED  BY <1>3, <2>1, <3>1
  <2>11. n \in 0..Len(calls)  BY <2>3, <2>7
  <2>12. FrameCount(SubSeq(calls, 1, n)) <= FrameCount(calls)
         /\ FrameCount(SubSeq(calls, 1, n)) \in Nat
    BY <1>1, <2>7, <2>11, CutCount, FrameSetFinite
  <2> HIDE DEF n
  <2>13. frames' = frames  BY <2>1 DEF Without
  <2>14. ControlOK'  BY <1>1, <2>1, <2>2, <2>7, <2>8, <2>9 DEF ControlOK
  <2>15. FrameCount(calls') <= Len(frames')
    <3>1. FrameCount(calls) <= Len(frames)  BY <1>1, <2>2
    <3>2. FrameCount(calls') <= FrameCount(calls) /\ FrameCount(calls') \in Nat
      BY <2>1, <2>12
    <3> QED  BY <1>2, <2>13, <3>1, <3>2
  <2>16. FramesOK'  BY <2>5, <2>15 DEF FramesOK
  <2>17. RestOK'  BY <2>1, <2>10 DEF EvalInv, RestOK
  <2> QED  BY <2>5, <2>14, <2>16, <2>17 DEF EvalInv
<1>6. CASE Catch
  <2>1. /\ catching /\ faults = {} /\ Top(calls).op \in {"try", "test"}
        /\ catching' = FALSE /\ jump' = Pop(jump) /\ calls' = Pop(calls)
        /\ UNCHANGED <<context, errors, body, phase, faults, unwound>>
    BY <1>6 DEF Catch
  <2>2. calls # <<>> /\ phase = "open"  BY <1>1, <2>1
  <2>3. ContextOK' /\ frames' = frames  BY <2>1 DEF EvalInv, ContextOK, context
  <2>4. Top(calls).op \in TryOps /\ "no frame" \notin faults'
    BY <2>1 DEF TryOps
  <2> QED  BY <2>1, <2>2, <2>3, <2>4, PopTryStep
<1> QED  BY <1>4, <1>5, <1>6

LEMMA CloseKeeps == EvalInv /\ (Close \/ CloseLeave \/ CloseFree) => EvalInv'
<1> SUFFICES ASSUME EvalInv, Close \/ CloseLeave \/ CloseFree  PROVE EvalInv'
  OBVIOUS
<1>1. CASE Close
  <2>1. /\ calls = <<>> /\ catching = FALSE /\ phase' = "closing"
        /\ UNCHANGED <<context, calls, jump, catching, errors, body, faults, unwound>>
    BY <1>1 DEF Close, Running, errorState, EvalInv, RestOK
  <2> QED  BY <2>1 DEF EvalInv, ContextOK, ControlOK, RestOK, FramesOK, Phases, context
<1>2. CASE CloseLeave
  <2>1. /\ phase = "closing" /\ frames # <<>> /\ Leave
        /\ UNCHANGED <<calls, jump, catching, errors, body, phase, unwound>>
    BY <1>2 DEF CloseLeave, errorState
  <2>2. ContextOK' /\ "no frame" \notin faults'
    BY <2>1, LeaveTypes DEF EvalInv
  <2> QED  BY <2>1, <2>2 DEF EvalInv, ControlOK, RestOK, FramesOK
<1>3. CASE CloseFree
  <2>1. /\ phase = "closing" /\ phase' = "freed"
        /\ UNCHANGED <<vars, frames, parent, calls, jump, catching, errors, body, unwound>>
    BY <1>3 DEF CloseFree, errorState
  <2>2. faults' \subseteq Faults /\ "no frame" \notin faults'
    BY <1>3 DEF CloseFree, Faults
  <2>3. owner' \in [Hash -> Owners]
    BY <1>3 DEF CloseFree, EvalInv, ContextOK, Owners
  <2> QED  BY <2>1, <2>2, <2>3
           DEF EvalInv, ContextOK, ControlOK, RestOK, FramesOK, Phases
<1> QED  BY <1>1, <1>2, <1>3

LEMMA EvalStep == EvalInv /\ [Next]_evaluation => EvalInv'
<1> SUFFICES ASSUME EvalInv, [Next]_evaluation  PROVE EvalInv'
  OBVIOUS
<1>1. CASE UNCHANGED evaluation
  BY <1>1 DEF evaluation, EvalInv, ContextOK, ControlOK, RestOK, FramesOK
<1>2. CASE Render \/ RenderEnd  BY <1>2, RenderKeeps
<1>3. CASE TestBegin \/ TestEnd  BY <1>3, TestKeeps
<1>4. CASE \E op \in ParamsOps : ParamsBegin(op)  BY <1>4, ParamsKeep
<1>5. CASE WithBody \/ JustBody  BY <1>5, BodyKeeps
<1>6. CASE EachBegin \/ InBegin \/ ItemBegin \/ ApplyBegin  BY <1>6, FrameKeeps
<1>7. CASE WithEnd \/ InEnd \/ CallEnd \/ ApplyBlur  BY <1>7, EndKeeps
<1>8. CASE Throw \/ WithCatch \/ Catch  BY <1>8, ErrorKeeps
<1>9. CASE Close \/ CloseLeave \/ CloseFree  BY <1>9, CloseKeeps
<1> QED  BY <1>1, <1>2, <1>3, <1>4, <1>5, <1>6, <1>7, <1>8, <1>9 DEF Next

LEMMA SeqWiden ==
  ASSUME NEW A, NEW B, A \subseteq B, NEW s \in Seq(A)
  PROVE  s \in Seq(B)
<1>1. s \in [1..Len(s) -> A] /\ Len(s) \in Nat  BY LenProperties
<1>2. s \in [1..Len(s) -> B]  BY <1>1
<1> QED  BY <1>1, <1>2

LEMMA EvalInvariant == Spec => []EvalInv
BY EvalInit, EvalStep, PTL DEF Spec

-----------------------------------------------------------------------------
(***************************************************************************)
(* Every variable of the context and of the error state keeps its type,    *)
(* whatever handlers a template nests and whatever errors they throw.      *)
(***************************************************************************)
THEOREM TypeCorrect == Spec => []TypeOK
<1>1. EvalInv => TypeOK
  <2> SUFFICES ASSUME EvalInv  PROVE TypeOK
    OBVIOUS
  <2>1. calls \in Seq([op : Ops, hash : Hash \union {Null}, frame : Nat,
                       saved : Hash \union {Null, Block}])
    <3>1. CallSet \subseteq [op : Ops, hash : Hash \union {Null}, frame : Nat,
                             saved : Hash \union {Null, Block}]
      BY DEF CallSet
    <3>2. calls \in Seq(CallSet)  BY DEF EvalInv, ControlOK
    <3> QED  BY <3>1, <3>2, SeqWiden
  <2> QED  BY <2>1 DEF EvalInv, ContextOK, ControlOK, RestOK, TypeOK
<1> QED  BY <1>1, EvalInvariant, PTL

(***************************************************************************)
(* hemp->jump always names exactly the HEMP_TRY blocks on the C stack, so  *)
(* longjmp never lands in a function that has returned.                    *)
(***************************************************************************)
THEOREM JumpsLive == Spec => []JumpsAreLive
<1>1. EvalInv => JumpsAreLive
  <2> SUFFICES ASSUME EvalInv  PROVE JumpsAreLive
    OBVIOUS
  <2>1. Stacked(calls, jump) /\ (catching => Top(jump) = Len(calls))
    BY DEF EvalInv, ControlOK
  <2>2. {jump[k] : k \in 1..Len(jump)} = {i \in 1..Len(calls) : calls[i].op \in TryOps}
    BY <2>1 DEF Stacked
  <2>3. \A k, m \in 1..Len(jump) : k < m => jump[k] < jump[m]
    BY <2>1 DEF Stacked
  <2> QED  BY <2>1, <2>2, <2>3 DEF JumpsAreLive
<1> QED  BY <1>1, EvalInvariant, PTL

(***************************************************************************)
(* Errors that cross calls only ever leave frames behind: a call in        *)
(* progress always finds a frame to leave, and hemp_context_leave never    *)
(* ends the program.                                                       *)
(***************************************************************************)
THEOREM FramesSuffice == Spec => []CallsHaveFrames
<1>1. FrameSet(calls) = FrameCalls  BY DEF FrameSet, FrameCalls
<1>2. EvalInv => CallsHaveFrames
  BY <1>1 DEF EvalInv, FramesOK, FrameCount, CallsHaveFrames
<1> QED  BY <1>2, EvalInvariant, PTL

-----------------------------------------------------------------------------
(***************************************************************************)
(* While no error has crossed a call frame, the variables of the context   *)
(* are those of the innermost active handler, and every hash is freed by   *)
(* the one that made it, for any number of hashes and nested handlers.     *)
(*                                                                         *)
(* ScopeAt is defined by recursion on the C stack.  The invariant says     *)
(* instead that there are two functions, the scope and the number of       *)
(* frames at every height of the stack, each value of which agrees with    *)
(* the handler at that height and with the value below it (Nest).  Every   *)
(* action adds a height, takes the last one away, or cuts off some that    *)
(* have neither a scope nor a frame of their own; and the hashes it        *)
(* changes are not those of the handlers that remain.                      *)
(***************************************************************************)

Frames == [vars : Hash, noms : Hash]
PoolOps == {"with", "just"} \union ParamsOps
ScopeOps == {"with", "just"} \union FrameOps

-----------------------------------------------------------------------------
(***************************************************************************)
(* A set that has zero and the successors of its members has every number. *)
(***************************************************************************)
LEMMA EveryNat ==
  ASSUME NEW T \in SUBSET Nat, 0 \in T, \A n \in T : n + 1 \in T
  PROVE  T = Nat
<1> SUFFICES ASSUME T # Nat  PROVE FALSE
  OBVIOUS
<1> DEFINE U == Nat \ T
           R == OpToRel(<, Nat)
<1>1. U # {} /\ U \subseteq Nat  OBVIOUS
<1>2. \A x, y \in Nat : <<y, x>> \in R <=> y < x  BY DEF OpToRel
<1>3. IsWellFoundedOn(R, Nat)  BY NatLessThanWellFounded
<1> HIDE DEF U, R
<1>4. PICK n \in U : \A m \in U : ~ (<<m, n>> \in R)  BY <1>1, <1>3, WFMin
<1>5. n \in Nat /\ n # 0  BY <1>1 DEF U
<1>6. n - 1 \in Nat /\ n - 1 < n /\ (n - 1) + 1 = n  BY <1>5
<1>7. n - 1 \in T  BY <1>2, <1>4, <1>5, <1>6 DEF U
<1> QED  BY <1>6, <1>7 DEF U

-----------------------------------------------------------------------------
(***************************************************************************)
(* The scope that a call has, inside of another, with frames fr.           *)
(***************************************************************************)
Inside(call, fr, around) ==
  CASE call.op \in {"with", "just"}         -> call.hash
    [] call.op = "args"                     -> fr[call.frame].noms
    [] call.op \in FrameOps \ {"args"}      -> fr[call.frame].vars
    [] OTHER                                -> around

(***************************************************************************)
(* The call has the scope `scope' inside of `around', is chained to it by  *)
(* the parents par, and makes depth frames of the ones before it.          *)
(***************************************************************************)
Level(call, fr, par, around, scope, before, depth) ==
  /\ scope = Inside(call, fr, around)
  /\ depth = IF call.op \in FrameOps THEN before + 1 ELSE before
  /\ call.op \in FrameOps => call.frame = depth /\ par[fr[depth].vars] = around
  /\ call.op = "args" => par[fr[depth].noms] = fr[depth].vars
  /\ call.op = "with" => par[call.hash] = around /\ call.saved = Null
  /\ call.op = "just" => par[call.hash] = Null /\ call.saved = around

Pooled(c, own) ==
  /\ \A i \in 1..Len(c) :
       c[i].op \in PoolOps => c[i].hash \in Hash /\ own[c[i].hash] = "pool"
  /\ \A i, j \in 1..Len(c) :
       i # j /\ c[i].op \in PoolOps /\ c[j].op \in PoolOps => c[i].hash # c[j].hash

\* sc and d are the scopes and the numbers of frames at the heights of c.
Nest(c, fr, par, own, sc, d) ==
  /\ sc \in [Nat -> Hash] /\ d \in [Nat -> Nat]
  /\ sc[0] = Root /\ d[0] = 0
  /\ \A i \in 1..Len(c) : Level(c[i], fr, par, sc[i - 1], sc[i], d[i - 1], d[i])
  /\ Pooled(c, own)

Scoped(c, fr, par, own, vr) ==
  \E sc, d : /\ Nest(c, fr, par, own, sc, d)
             /\ vr = sc[Len(c)] /\ Len(fr) = d[Len(c)]

\* Handlers without a frame have no part in the number of frames.
LEMMA DepthSteps ==
  ASSUME NEW c \in Seq(CallSet), NEW fr, NEW par, NEW own, NEW sc, NEW d,
         Nest(c, fr, par, own, sc, d), NEW i \in 1..Len(c)
  PROVE  /\ i - 1 \in Nat /\ i \in Nat
         /\ d[i - 1] \in Nat /\ d[i] \in Nat /\ d[i - 1] <= d[i]
         /\ c[i].op \in FrameOps => d[i] = d[i - 1] + 1
         /\ c[i].op \notin ScopeOps => sc[i] = sc[i - 1] /\ d[i] = d[i - 1]
<1>1. i - 1 \in Nat /\ i \in Nat /\ Len(c) \in Nat  OBVIOUS
<1>2. Level(c[i], fr, par, sc[i - 1], sc[i], d[i - 1], d[i])  BY DEF Nest
<1>3. d[i - 1] \in Nat /\ d[i] \in Nat  BY <1>1 DEF Nest
<1>4. c[i].op \notin ScopeOps => Inside(c[i], fr, sc[i - 1]) = sc[i - 1]
  BY DEF ScopeOps, FrameOps, Inside
<1> QED  BY <1>1, <1>2, <1>3, <1>4 DEF Level, ScopeOps

\* The number of frames grows with the height.
LEMMA DepthGrows ==
  ASSUME NEW c \in Seq(CallSet), NEW fr, NEW par, NEW own, NEW sc, NEW d,
         Nest(c, fr, par, own, sc, d), NEW i \in 0..Len(c)
  PROVE  \A j \in i..Len(c) : d[i] <= d[j]
<1> DEFINE T == {k \in Nat : i + k <= Len(c) => d[i] <= d[i + k]}
<1>1. i \in Nat /\ Len(c) \in Nat /\ d[i] \in Nat  BY DEF Nest
<1>2. T \in SUBSET Nat /\ 0 \in T  BY <1>1
<1>3. \A k \in T : k + 1 \in T
  <2> SUFFICES ASSUME NEW k \in T, i + (k + 1) <= Len(c)  PROVE d[i] <= d[i + (k + 1)]
    OBVIOUS
  <2>1. d[i] <= d[i + k] /\ i + (k + 1) \in 1..Len(c) /\ i + (k + 1) - 1 = i + k
    BY <1>1
  <2>2. d[i + k] \in Nat /\ d[i + (k + 1)] \in Nat /\ d[i + k] <= d[i + (k + 1)]
    BY <2>1, DepthSteps
  <2> QED  BY <1>1, <2>1, <2>2
<1> HIDE DEF T
<1>4. T = Nat  BY <1>2, <1>3, EveryNat
<1>5. ASSUME NEW j \in i..Len(c)  PROVE d[i] <= d[j]
  <2>1. j - i \in T /\ i + (j - i) = j /\ j <= Len(c)  BY <1>1, <1>4
  <2> QED  BY <2>1 DEF T
<1> QED  BY <1>5

\* Above height p there are only handlers that have neither scope nor frame.
LEMMA FlatAbove ==
  ASSUME NEW c \in Seq(CallSet), NEW fr, NEW par, NEW own, NEW sc, NEW d,
         Nest(c, fr, par, own, sc, d), NEW p \in 0..Len(c),
         \A m \in (p + 1)..Len(c) : c[m].op \notin ScopeOps
  PROVE  sc[Len(c)] = sc[p] /\ d[Len(c)] = d[p]
<1> DEFINE T == {k \in Nat : p + k <= Len(c) => sc[p + k] = sc[p] /\ d[p + k] = d[p]}
<1>1. p \in Nat /\ Len(c) \in Nat  OBVIOUS
<1>2. T \in SUBSET Nat /\ 0 \in T  BY <1>1
<1>3. \A k \in T : k + 1 \in T
  <2> SUFFICES ASSUME NEW k \in T, p + (k + 1) <= Len(c)
               PROVE  sc[p + (k + 1)] = sc[p] /\ d[p + (k + 1)] = d[p]
    OBVIOUS
  <2>1. /\ sc[p + k] = sc[p] /\ d[p + k] = d[p]
        /\ p + (k + 1) \in (p + 1)..Len(c) /\ p + (k + 1) \in 1..Len(c)
        /\ p + (k + 1) - 1 = p + k
    BY <1>1
  <2>2. c[p + (k + 1)].op \notin ScopeOps  BY <2>1
  <2>3. sc[p + (k + 1)] = sc[p + k] /\ d[p + (k + 1)] = d[p + k]
    BY <2>1, <2>2, DepthSteps
  <2> QED  BY <2>1, <2>3
<1> HIDE DEF T
<1>4. T = Nat  BY <1>2, <1>3, EveryNat
<1>5. Len(c) - p \in T /\ p + (Len(c) - p) = Len(c)  BY <1>1, <1>4
<1> QED  BY <1>1, <1>5 DEF T

\* The first p handlers are nested as they were.
LEMMA NestCut ==
  ASSUME NEW c \in Seq(CallSet), NEW fr, NEW par, NEW own, NEW sc, NEW d,
         Nest(c, fr, par, own, sc, d), NEW p \in 0..Len(c)
  PROVE  Nest(SubSeq(c, 1, p), fr, par, own, sc, d)
<1> DEFINE e == SubSeq(c, 1, p)
<1>1. Len(e) = p /\ \A i \in 1..p : e[i] = c[i]  BY CutFacts
<1>2. \A i \in 1..p : i \in 1..Len(c)  OBVIOUS
<1> HIDE DEF e
<1>3. \A i \in 1..Len(e) : Level(e[i], fr, par, sc[i - 1], sc[i], d[i - 1], d[i])
  BY <1>1, <1>2 DEF Nest
<1>4. Pooled(e, own)  BY <1>1, <1>2 DEF Nest, Pooled
<1>5. Nest(e, fr, par, own, sc, d)  BY <1>3, <1>4 DEF Nest
<1> QED  BY <1>5 DEF e

\* A part of the stack that has neither scope nor frame is cut off.
LEMMA ScopedCut ==
  ASSUME NEW c \in Seq(CallSet), NEW fr, NEW par, NEW own, NEW vr,
         Scoped(c, fr, par, own, vr), NEW p \in 0..Len(c),
         \A m \in (p + 1)..Len(c) : c[m].op \notin ScopeOps
  PROVE  Scoped(SubSeq(c, 1, p), fr, par, own, vr)
<1>1. PICK sc, d : /\ Nest(c, fr, par, own, sc, d)
                   /\ vr = sc[Len(c)] /\ Len(fr) = d[Len(c)]
  BY DEF Scoped
<1>2. sc[Len(c)] = sc[p] /\ d[Len(c)] = d[p]  BY <1>1, FlatAbove
<1>3. Len(SubSeq(c, 1, p)) = p  BY CutFacts
<1>4. Nest(SubSeq(c, 1, p), fr, par, own, sc, d)  BY <1>1, NestCut
<1> QED  BY <1>1, <1>2, <1>3, <1>4 DEF Scoped

(***************************************************************************)
(* The parents and owners of some hashes G change, and the frames, but     *)
(* neither are those of the handlers of the stack c.                       *)
(***************************************************************************)
Apart(c, fr, G) ==
  /\ \A f \in 1..Len(fr) : fr[f].vars \notin G /\ fr[f].noms \notin G
  /\ \A i \in 1..Len(c) : c[i].op \in PoolOps => c[i].hash \notin G

Changes(par, own, par2, own2, G) ==
  \A h \in Hash \ G : par2[h] = par[h] /\ own2[h] = own[h]

LEMMA NestSame ==
  ASSUME NEW c \in Seq(CallSet), NEW fr \in Seq(Frames), NEW fr2 \in Seq(Frames),
         NEW par, NEW own, NEW par2, NEW own2,
         NEW sc, NEW d, Nest(c, fr, par, own, sc, d), NEW G,
         NEW n \in 0..Len(fr), n <= Len(fr2), d[Len(c)] <= n,
         \A f \in 1..n : fr2[f] = fr[f] /\ fr[f].vars \notin G /\ fr[f].noms \notin G,
         \A i \in 1..Len(c) : c[i].op \in PoolOps => c[i].hash \notin G,
         Changes(par, own, par2, own2, G)
  PROVE  Nest(c, fr2, par2, own2, sc, d)
<1>1. ASSUME NEW i \in 1..Len(c)
      PROVE  Level(c[i], fr2, par2, sc[i - 1], sc[i], d[i - 1], d[i])
  <2>1. Level(c[i], fr, par, sc[i - 1], sc[i], d[i - 1], d[i])  BY DEF Nest
  <2>2. CASE c[i].op \in FrameOps
    <3>1. c[i].frame = d[i] /\ d[i] \in Nat /\ d[i - 1] \in Nat /\ d[i] = d[i - 1] + 1
      BY <2>1, <2>2, DepthSteps DEF Level
    <3>2. d[i] <= d[Len(c)]
      <4>1. i \in 0..Len(c) /\ Len(c) \in i..Len(c)  OBVIOUS
      <4> QED  BY <4>1, DepthGrows
    <3>3. d[Len(c)] \in Nat /\ n \in Nat /\ Len(fr) \in Nat
      <4>1. Len(c) \in Nat /\ Len(fr) \in Nat  OBVIOUS
      <4> QED  BY <4>1 DEF Nest
    <3>4. d[i] \in 1..n /\ d[i] \in 1..Len(fr)  BY <3>1, <3>2, <3>3
    <3>5. /\ fr2[d[i]] = fr[d[i]] /\ fr[d[i]] \in Frames
          /\ fr[d[i]].vars \notin G /\ fr[d[i]].noms \notin G
      BY <3>4, ElementOfSeq
    <3>6. fr[d[i]].vars \in Hash /\ fr[d[i]].noms \in Hash  BY <3>5 DEF Frames
    <3>7. par2[fr[d[i]].vars] = par[fr[d[i]].vars] /\ par2[fr[d[i]].noms] = par[fr[d[i]].noms]
      BY <3>5, <3>6 DEF Changes
    <3>8. Inside(c[i], fr2, sc[i - 1]) = Inside(c[i], fr, sc[i - 1])
      BY <3>1, <3>5 DEF Inside
    <3>9. c[i].op # "with" /\ c[i].op # "just"  BY <2>2 DEF FrameOps
    <3> QED  BY <2>1, <2>2, <3>1, <3>5, <3>7, <3>8, <3>9 DEF Level
  <2>3. CASE c[i].op \notin FrameOps
    <3>1. Inside(c[i], fr2, sc[i - 1]) = Inside(c[i], fr, sc[i - 1]) /\ c[i].op # "args"
      BY <2>3 DEF Inside, FrameOps
    <3>2. c[i].op \in {"with", "just"} => par2[c[i].hash] = par[c[i].hash]
      BY DEF Nest, Pooled, PoolOps, Changes
    <3> QED  BY <2>1, <2>3, <3>1, <3>2 DEF Level
  <2> QED  BY <2>2, <2>3
<1>2. Pooled(c, own2)  BY DEF Nest, Pooled, Changes
<1> QED  BY <1>1, <1>2 DEF Nest

(***************************************************************************)
(* A handler is pushed: its scope is vr2 inside of vr.                     *)
(***************************************************************************)
LEMMA ScopedPush ==
  ASSUME NEW c \in Seq(CallSet), NEW fr \in Seq(Frames), NEW fr2 \in Seq(Frames),
         NEW par, NEW own, NEW par2, NEW own2, NEW vr, NEW vr2 \in Hash,
         Scoped(c, fr, par, own, vr), NEW call \in CallSet, NEW G,
         Apart(c, fr, G), Changes(par, own, par2, own2, G),
         Len(fr) <= Len(fr2), \A f \in 1..Len(fr) : fr2[f] = fr[f],
         Level(call, fr2, par2, vr, vr2, Len(fr), Len(fr2)),
         call.op \in PoolOps =>
           /\ call.hash \in Hash /\ own2[call.hash] = "pool"
           /\ \A i \in 1..Len(c) : c[i].op \in PoolOps => c[i].hash # call.hash
  PROVE  Scoped(Append(c, call), fr2, par2, own2, vr2)
<1> DEFINE e == Append(c, call)
           n == Len(c)
<1>1. /\ Len(e) = n + 1 /\ e[n + 1] = call /\ n \in Nat
      /\ \A i \in 1..n : e[i] = c[i]
  OBVIOUS
<1>2. PICK sc, d : Nest(c, fr, par, own, sc, d) /\ vr = sc[n] /\ Len(fr) = d[n]
  BY DEF Scoped
<1>3. Nest(c, fr2, par2, own2, sc, d)
  <2>1. Len(fr) \in 0..Len(fr) /\ d[n] <= Len(fr)  BY <1>2
  <2> HIDE DEF n
  <2> QED  BY <2>1, <1>2, NestSame DEF Apart, n
<1> DEFINE sc2 == [sc EXCEPT ![n + 1] = vr2]
           d2 == [d EXCEPT ![n + 1] = Len(fr2)]
<1>4. sc \in [Nat -> Hash] /\ d \in [Nat -> Nat] /\ Len(fr2) \in Nat
  BY SMTT(60), <1>2 DEF Nest
<1>5. /\ sc2 \in [Nat -> Hash] /\ d2 \in [Nat -> Nat]
      /\ sc2[n + 1] = vr2 /\ d2[n + 1] = Len(fr2)
      /\ \A i \in 0..n : sc2[i] = sc[i] /\ d2[i] = d[i]
  <2>1. n + 1 \in Nat /\ \A i \in 0..n : i \in Nat /\ i # n + 1  BY <1>1
  <2> HIDE DEF n
  <2> QED  BY <2>1, <1>4
<1> HIDE DEF e, n, sc2, d2
<1>6. ASSUME NEW i \in 1..(n + 1)
      PROVE  Level(e[i], fr2, par2, sc2[i - 1], sc2[i], d2[i - 1], d2[i])
  <2>1. CASE i = n + 1
    <3>1. i - 1 = n /\ n \in 0..n  BY <2>1, <1>1
    <3> QED  BY <2>1, <3>1, <1>1, <1>2, <1>5
  <2>2. CASE i # n + 1
    <3>1. i \in 1..n /\ i \in 0..n /\ i - 1 \in 0..n  BY <2>2, <1>1
    <3>2. Level(c[i], fr2, par2, sc[i - 1], sc[i], d[i - 1], d[i])
      BY <3>1, <1>3 DEF Nest, n
    <3> QED  BY <3>1, <3>2, <1>1, <1>5
  <2> QED  BY <2>1, <2>2
<1>7. Pooled(e, own2)
  <2>1. Pooled(c, own2)  BY <1>3 DEF Nest
  <2>2. /\ \A i \in 1..n : c[i].op \in PoolOps => c[i].hash \in Hash /\ own2[c[i].hash] = "pool"
        /\ \A i, j \in 1..n : i # j /\ c[i].op \in PoolOps /\ c[j].op \in PoolOps
                                 => c[i].hash # c[j].hash
        /\ call.op \in PoolOps => \A i \in 1..n : c[i].op \in PoolOps => c[i].hash # call.hash
    BY <2>1 DEF Pooled, n
  <2>3. \A i \in 1..(n + 1) : IF i = n + 1 THEN e[i] = call ELSE i \in 1..n /\ e[i] = c[i]
    BY <1>1
  <2>4. \A i \in 1..(n + 1) : e[i].op \in PoolOps => e[i].hash \in Hash /\ own2[e[i].hash] = "pool"
    BY <2>2, <2>3
  <2>5. \A i, j \in 1..(n + 1) : i # j /\ e[i].op \in PoolOps /\ e[j].op \in PoolOps
                                   => e[i].hash # e[j].hash
    BY <2>2, <2>3
  <2> QED  BY <2>4, <2>5, <1>1 DEF Pooled
<1>8. sc2[0] = Root /\ d2[0] = 0
  <2>1. 0 \in 0..n  BY <1>1
  <2> QED  BY <2>1, <1>2, <1>5 DEF Nest
<1>9. Nest(e, fr2, par2, own2, sc2, d2)
  BY <1>1, <1>5, <1>6, <1>7, <1>8 DEF Nest
<1> QED  BY <1>1, <1>5, <1>9 DEF Scoped, e

(***************************************************************************)
(* The last handler goes: it was inside of some scope that is left.        *)
(***************************************************************************)
LEMMA ScopedPop ==
  ASSUME NEW c \in Seq(CallSet), c # <<>>, NEW fr \in Seq(Frames),
         NEW par, NEW own, NEW vr, Scoped(c, fr, par, own, vr)
  PROVE  \E around \in Hash, before \in Nat :
           /\ before <= Len(fr)
           /\ Level(Top(c), fr, par, around, vr, before, Len(fr))
           /\ \A fr2 \in Seq(Frames) : \A par2, own2, G :
                /\ Len(fr2) = before /\ \A f \in 1..before : fr2[f] = fr[f]
                /\ Apart(Pop(c), fr2, G) /\ Changes(par, own, par2, own2, G)
                => Scoped(Pop(c), fr2, par2, own2, around)
<1> DEFINE n == Len(c)
           e == Pop(c)
<1>1. /\ n \in Nat \ {0} /\ n \in 1..n /\ Top(c) = c[n]
      /\ e \in Seq(CallSet) /\ Len(e) = n - 1
  BY PopFacts
<1>2. PICK sc, d : Nest(c, fr, par, own, sc, d) /\ vr = sc[n] /\ Len(fr) = d[n]
  BY DEF Scoped
<1>3. Level(c[n], fr, par, sc[n - 1], sc[n], d[n - 1], d[n])  BY <1>1, <1>2 DEF Nest
<1>4. n - 1 \in Nat /\ n - 1 \in 0..Len(c)  BY <1>1
<1>5. Nest(e, fr, par, own, sc, d)  BY <1>2, <1>4, NestCut DEF Pop
<1>6. sc[n - 1] \in Hash /\ d[n - 1] \in Nat  BY <1>2, <1>4 DEF Nest
<1>7. d[n - 1] <= Len(fr)  BY <1>1, <1>2, DepthSteps
<1> HIDE DEF n, e
<1>8. ASSUME NEW fr2 \in Seq(Frames), NEW par2, NEW own2, NEW G,
             Len(fr2) = d[n - 1], \A f \in 1..d[n - 1] : fr2[f] = fr[f],
             Apart(e, fr2, G), Changes(par, own, par2, own2, G)
      PROVE  Scoped(e, fr2, par2, own2, sc[n - 1])
  <2>1. d[n - 1] \in 0..Len(fr) /\ d[n - 1] <= Len(fr2) /\ d[Len(e)] <= d[n - 1]
    BY <1>1, <1>6, <1>7, <1>8
  <2>2. \A f \in 1..d[n - 1] : fr2[f] = fr[f] /\ fr[f].vars \notin G /\ fr[f].noms \notin G
    BY <1>8 DEF Apart
  <2>3. \A i \in 1..Len(e) : e[i].op \in PoolOps => e[i].hash \notin G
    BY <1>8 DEF Apart
  <2>4. Nest(e, fr2, par2, own2, sc, d)
    BY <1>1, <1>5, <1>8, <2>1, <2>2, <2>3, NestSame
  <2> QED  BY <1>1, <1>8, <2>4 DEF Scoped
<1> QED  BY <1>1, <1>2, <1>3, <1>6, <1>7, <1>8 DEF e

-----------------------------------------------------------------------------
(***************************************************************************)
(* The hashes of the frames are those that have the owner "frame", and no  *)
(* two of them are the same.                                               *)
(***************************************************************************)
FrameOwned(fr, own) ==
  /\ \A f \in 1..Len(fr) : /\ fr[f].vars # fr[f].noms
                           /\ own[fr[f].vars] = "frame" /\ own[fr[f].noms] = "frame"
  /\ \A f, g \in 1..Len(fr) : f # g => /\ fr[f].vars \notin {fr[g].vars, fr[g].noms}
                                       /\ fr[f].noms \notin {fr[g].vars, fr[g].noms}
  /\ \A h \in Hash : own[h] = "frame" => \E f \in 1..Len(fr) : h \in {fr[f].vars, fr[f].noms}
  /\ \A h \in Hash : own[h] = "context" <=> h = Root

ScopeInv ==
  ~unwound =>
    /\ phase # "freed" => FrameOwned(frames, owner)
    /\ phase = "open" => Scoped(calls, frames, parent, owner, vars)
    /\ phase = "closing" => frames = <<>> /\ vars = Root
    /\ phase = "freed" => \A h \in Hash : owner[h] = "free"
    /\ faults \subseteq {"null frame"}

LEMMA ScopeInvInit == Init => ScopeInv
<1> SUFFICES ASSUME Init  PROVE ScopeInv
  OBVIOUS
<1>1. /\ vars = Root /\ frames = <<>> /\ calls = <<>> /\ phase = "open" /\ faults = {}
      /\ owner = [h \in Hash |-> IF h = Root THEN "context" ELSE "free"]
  BY DEF Init
<1>2. Root \in Hash  BY EvaluationAssumption DEF Root, Hash
<1>3. FrameOwned(frames, owner)  BY <1>1 DEF FrameOwned
<1>4. Scoped(calls, frames, parent, owner, vars)
  <2> DEFINE sc == [i \in Nat |-> Root]
             d == [i \in Nat |-> 0]
  <2>1. /\ sc \in [Nat -> Hash] /\ d \in [Nat -> Nat] /\ sc[0] = Root /\ d[0] = 0
    BY <1>2
  <2> HIDE DEF sc, d
  <2>2. Len(calls) = 0 /\ Len(frames) = 0  BY <1>1
  <2>3. Nest(calls, frames, parent, owner, sc, d)  BY <2>1, <2>2 DEF Nest, Pooled
  <2> QED  BY <1>1, <2>1, <2>2, <2>3 DEF Scoped
<1> QED  BY <1>1, <1>3, <1>4 DEF ScopeInv

\* What is known of the context while it is open and no frame was crossed.
LEMMA OpenScope ==
  ASSUME EvalInv, ScopeInv, ~unwound, phase = "open"
  PROVE  /\ calls \in Seq(CallSet) /\ frames \in Seq(Frames)
         /\ Len(calls) \in Nat /\ Len(frames) \in Nat
         /\ parent \in [Hash -> Hash \union {Null}] /\ owner \in [Hash -> Owners]
         /\ vars \in Hash /\ Null \notin Hash
         /\ FrameOwned(frames, owner) /\ faults \subseteq {"null frame"}
         /\ Scoped(calls, frames, parent, owner, vars)
<1>1. /\ calls \in Seq(CallSet) /\ frames \in Seq(Frames)
      /\ parent \in [Hash -> Hash \union {Null}] /\ owner \in [Hash -> Owners]
  BY DEF EvalInv, ControlOK, ContextOK, Frames
<1>2. Len(calls) \in Nat /\ Len(frames) \in Nat  BY <1>1
<1>3. Scoped(calls, frames, parent, owner, vars)  BY DEF ScopeInv
<1>4. vars \in Hash  BY <1>2, <1>3 DEF Scoped, Nest
<1> QED  BY <1>1, <1>2, <1>3, <1>4, EvaluationAssumption DEF ScopeInv

LEMMA StaysScoped ==
  ASSUME phase' = "open", FrameOwned(frames', owner'), faults' \subseteq {"null frame"},
         Scoped(calls', frames', parent', owner', vars')
  PROVE  ScopeInv'
  BY DEF ScopeInv

\* The hashes of the stack are not those of the frames, nor free ones.
LEMMA PooledApart ==
  ASSUME NEW c \in Seq(CallSet), NEW fr \in Seq(Frames), NEW par, NEW own, NEW vr,
         Scoped(c, fr, par, own, vr), FrameOwned(fr, own), NEW G,
         \A h \in G : own[h] = "free"
  PROVE  Apart(c, fr, G)
<1>1. \A i \in 1..Len(c) : c[i].op \in PoolOps => own[c[i].hash] = "pool"
  BY DEF Scoped, Nest, Pooled
<1> QED  BY <1>1 DEF Apart, FrameOwned

-----------------------------------------------------------------------------
(***************************************************************************)
(* The ways in which the actions change the stack.                         *)
(***************************************************************************)

LEMMA LengthReflexive == \A s \in Seq(Frames) : Len(s) <= Len(s)
<1> QED  OBVIOUS

LEMMA LastOnly ==
  ASSUME NEW n \in Nat \ {0}
  PROVE  n - 1 \in 0..n /\ \A m \in ((n - 1) + 1)..n : m = n
<1> QED  OBVIOUS

\* A HEMP_TRY that changes nothing of the context is entered.
LEMMA TryPushed ==
  ASSUME EvalInv, ScopeInv, ~unwound, phase = "open", phase' = "open",
         NEW call \in CallSet, call.op \in {"try", "test"}, calls' = Append(calls, call),
         UNCHANGED <<vars, frames, parent, owner>>, faults' \subseteq {"null frame"}
  PROVE  ScopeInv'
<1>1. /\ calls \in Seq(CallSet) /\ frames \in Seq(Frames) /\ vars \in Hash
      /\ Len(frames) \in Nat
      /\ FrameOwned(frames, owner) /\ Scoped(calls, frames, parent, owner, vars)
  BY OpenScope
<1>2. Apart(calls, frames, {}) /\ Changes(parent, owner, parent, owner, {})
  BY DEF Apart, Changes
<1>3. call.op \notin FrameOps /\ call.op \notin PoolOps
      /\ call.op # "args" /\ call.op # "with" /\ call.op # "just"
  BY DEF FrameOps, PoolOps, ParamsOps
<1>4. Inside(call, frames, vars) = vars  BY <1>3 DEF Inside
<1>5. Level(call, frames, parent, vars, vars, Len(frames), Len(frames))
  BY <1>3, <1>4 DEF Level
<1>6. Len(frames) <= Len(frames)  BY <1>1, LengthReflexive
<1>7. Scoped(Append(calls, call), frames, parent, owner, vars)
  BY <1>1, <1>2, <1>3, <1>5, <1>6, ScopedPush
<1> QED  BY <1>1, <1>7, StaysScoped

\* Handlers that have neither scope nor frame end.
LEMMA FlatCut ==
  ASSUME EvalInv, ScopeInv, ~unwound, phase = "open", phase' = "open",
         NEW p \in 0..Len(calls), \A m \in (p + 1)..Len(calls) : calls[m].op \notin ScopeOps,
         calls' = SubSeq(calls, 1, p),
         UNCHANGED <<vars, frames, parent, owner>>, faults' \subseteq {"null frame"}
  PROVE  ScopeInv'
<1>1. /\ calls \in Seq(CallSet) /\ FrameOwned(frames, owner)
      /\ Scoped(calls, frames, parent, owner, vars)
  BY OpenScope
<1>2. Scoped(calls', frames, parent, owner, vars)  BY <1>1, ScopedCut
<1> QED  BY <1>1, <1>2, StaysScoped

LEMMA FlatPop ==
  ASSUME EvalInv, ScopeInv, ~unwound, phase = "open", phase' = "open",
         calls # <<>>, Top(calls).op \notin ScopeOps, calls' = Pop(calls),
         UNCHANGED <<vars, frames, parent, owner>>, faults' \subseteq {"null frame"}
  PROVE  ScopeInv'
<1>1. Len(calls) \in Nat \ {0} /\ Top(calls) = calls[Len(calls)]
  BY PopFacts, OpenScope
<1> DEFINE n == Len(calls)
<1>2. n \in Nat \ {0} /\ Top(calls) = calls[n] /\ Pop(calls) = SubSeq(calls, 1, n - 1)
  BY <1>1 DEF Pop
<1> HIDE DEF n
<1>3. n - 1 \in 0..n /\ \A m \in ((n - 1) + 1)..n : m = n  BY <1>2, LastOnly
<1>4. \A m \in ((n - 1) + 1)..n : calls[m].op \notin ScopeOps
  BY <1>2, <1>3
<1> QED  BY <1>2, <1>3, <1>4, FlatCut DEF n

(***************************************************************************)
(* The parameters of with and just get a hash, which becomes the variables *)
(* once they have been evaluated.  c is the stack below the handler.       *)
(***************************************************************************)
LEMMA PoolPush ==
  ASSUME NEW c \in Seq(CallSet), NEW fr \in Seq(Frames), NEW par, NEW own, NEW vr \in Hash,
         Scoped(c, fr, par, own, vr), FrameOwned(fr, own),
         NEW hash \in Hash, own[hash] \in {"free", "pool"},
         \A i \in 1..Len(c) : c[i].op \in PoolOps => c[i].hash # hash,
         NEW call \in CallSet, call.op \in PoolOps, call.hash = hash, call.saved \in {Null, vr},
         NEW par2, NEW own2, own2[hash] = "pool", Changes(par, own, par2, own2, {hash}),
         call.op = "with" => par2[hash] = vr /\ call.saved = Null,
         call.op = "just" => par2[hash] = Null /\ call.saved = vr,
         NEW vr2, vr2 = IF call.op \in ParamsOps THEN vr ELSE hash
  PROVE  Scoped(Append(c, call), fr, par2, own2, vr2)
<1>1. Apart(c, fr, {hash})  BY DEF Apart, FrameOwned
<1>2. call.op \notin FrameOps /\ call.op # "args"
      /\ (call.op \in {"with", "just"} <=> call.op \notin ParamsOps)
  BY DEF FrameOps, PoolOps, ParamsOps
<1>3. Inside(call, fr, vr) = vr2  BY <1>2 DEF Inside
<1>4. Level(call, fr, par2, vr, vr2, Len(fr), Len(fr))  BY <1>2, <1>3 DEF Level
<1>5. Len(fr) \in Nat /\ Len(fr) <= Len(fr) /\ vr2 \in Hash  OBVIOUS
<1>6. /\ call.hash \in Hash /\ own2[call.hash] = "pool"
      /\ \A i \in 1..Len(c) : c[i].op \in PoolOps => c[i].hash # call.hash
  OBVIOUS
<1> QED  BY <1>1, <1>4, <1>5, <1>6, ScopedPush

\* A new owner of one hash, which was no frame's.
LEMMA OwnedPool ==
  ASSUME NEW fr \in Seq(Frames), NEW own \in [Hash -> Owners], FrameOwned(fr, own),
         NEW hash \in Hash, own[hash] \in {"free", "pool"}
  PROVE  FrameOwned(fr, [own EXCEPT ![hash] = "pool"])
<1> DEFINE own2 == [own EXCEPT ![hash] = "pool"]
<1>1. own2[hash] = "pool" /\ \A h \in Hash \ {hash} : own2[h] = own[h]  OBVIOUS
<1>2. \A f \in 1..Len(fr) : fr[f].vars \in Hash /\ fr[f].noms \in Hash
  <2>1. \A f \in 1..Len(fr) : fr[f] \in Frames  BY ElementOfSeq
  <2> QED  BY <2>1 DEF Frames
<1>3. Root # hash  BY DEF FrameOwned
<1> HIDE DEF own2
<1>4. \A f \in 1..Len(fr) : fr[f].vars # hash /\ fr[f].noms # hash  BY DEF FrameOwned
<1>5. \A f \in 1..Len(fr) : /\ fr[f].vars # fr[f].noms
                            /\ own2[fr[f].vars] = "frame" /\ own2[fr[f].noms] = "frame"
  BY <1>1, <1>2, <1>4 DEF FrameOwned
<1>6. \A h \in Hash : own2[h] = "frame" => \E f \in 1..Len(fr) : h \in {fr[f].vars, fr[f].noms}
  BY <1>1 DEF FrameOwned
<1>7. \A h \in Hash : own2[h] = "context" <=> h = Root
  BY <1>1, <1>3 DEF FrameOwned
<1>8. FrameOwned(fr, own2)  BY <1>5, <1>6, <1>7 DEF FrameOwned
<1> QED  BY <1>8 DEF own2

(***************************************************************************)
(* A frame of two free hashes is pushed with the handler that has it.      *)
(***************************************************************************)
FrameAdded(call, v, m, fr, par, own, vr, fr2, par2, own2, vr2) ==
  /\ v \in Hash /\ m \in Hash /\ v # m /\ own[v] = "free" /\ own[m] = "free"
  /\ call.op \in FrameOps /\ call.frame = Len(fr) + 1
  /\ fr2 = Append(fr, [vars |-> v, noms |-> m])
  /\ Changes(par, own, par2, own2, {v, m})
  /\ par2[v] = vr /\ (call.op = "args" => par2[m] = v)
  /\ own2[v] = "frame" /\ own2[m] = "frame"
  /\ vr2 = IF call.op = "args" THEN m ELSE v

LEMMA FramePush ==
  ASSUME NEW c \in Seq(CallSet), NEW fr \in Seq(Frames), NEW par, NEW own, NEW vr \in Hash,
         Scoped(c, fr, par, own, vr), FrameOwned(fr, own), NEW call \in CallSet,
         NEW v, NEW m, NEW fr2, NEW par2, NEW own2, NEW vr2,
         FrameAdded(call, v, m, fr, par, own, vr, fr2, par2, own2, vr2)
  PROVE  /\ Scoped(Append(c, call), fr2, par2, own2, vr2)
         /\ FrameOwned(fr2, own2)
<1> USE DEF FrameAdded
<1> DEFINE frame == [vars |-> v, noms |-> m]
<1>0. frame \in Frames /\ fr2 = Append(fr, frame) /\ frame.vars = v /\ frame.noms = m
  BY DEF Frames
<1> HIDE DEF frame
<1> DEFINE n == Len(fr)
<1>1. /\ n \in Nat /\ fr2 \in Seq(Frames) /\ Len(fr2) = n + 1
      /\ fr2[n + 1] = frame /\ \A f \in 1..n : fr2[f] = fr[f]
  BY <1>0
<1>2. Apart(c, fr, {v, m})  BY PooledApart
<1> HIDE DEF n
<1>3. fr2[n + 1].vars = v /\ fr2[n + 1].noms = m  BY <1>0, <1>1
<1>4. Inside(call, fr2, vr) = vr2
  <2>1. call.frame = n + 1  BY DEF n
  <2>2. CASE call.op = "args"  BY <2>1, <2>2, <1>3 DEF Inside
  <2>3. CASE call.op # "args"
    <3>1. call.op \in FrameOps \ {"args"} /\ call.op \notin {"with", "just"}
      BY <2>3 DEF FrameOps
    <3> QED  BY <2>1, <2>3, <3>1, <1>3 DEF Inside
  <2> QED  BY <2>2, <2>3
<1>5. Level(call, fr2, par2, vr, vr2, n, n + 1)
  <2>1. call.frame = n + 1 /\ call.op # "with" /\ call.op # "just"  BY DEF n, FrameOps
  <2> QED  BY <2>1, <1>3, <1>4 DEF Level
<1>6. Scoped(Append(c, call), fr2, par2, own2, vr2)
  <2>1. vr2 \in Hash /\ n <= n + 1  BY <1>1
  <2>2. call.op \notin PoolOps  BY DEF FrameOps, PoolOps, ParamsOps
  <2> QED  BY ZenonT(60), <2>1, <2>2, <1>1, <1>2, <1>5, ScopedPush DEF n
<1>7. FrameOwned(fr2, own2)
  <2>1. \A f \in 1..n : /\ fr[f].vars \in Hash \ {v, m} /\ fr[f].noms \in Hash \ {v, m}
    <3>1. \A f \in 1..n : fr[f] \in Frames  BY ElementOfSeq DEF n
    <3> QED  BY <3>1 DEF Frames, FrameOwned, n
  <2>2. \A f \in 1..(n + 1) : IF f = n + 1 THEN fr2[f].vars = v /\ fr2[f].noms = m
                                           ELSE f \in 1..n /\ fr2[f] = fr[f]
    BY <1>1, <1>3
  <2>3. \A f \in 1..(n + 1) : /\ fr2[f].vars # fr2[f].noms
                              /\ own2[fr2[f].vars] = "frame" /\ own2[fr2[f].noms] = "frame"
    BY <2>1, <2>2 DEF FrameOwned, Changes, n
  <2>4. \A f, g \in 1..(n + 1) : f # g => /\ fr2[f].vars \notin {fr2[g].vars, fr2[g].noms}
                                          /\ fr2[f].noms \notin {fr2[g].vars, fr2[g].noms}
    BY <2>1, <2>2 DEF FrameOwned, n
  <2>5. \A h \in Hash : own2[h] = "frame" =>
                          \E f \in 1..(n + 1) : h \in {fr2[f].vars, fr2[f].noms}
    <3> SUFFICES ASSUME NEW h \in Hash, own2[h] = "frame"
                 PROVE  \E f \in 1..(n + 1) : h \in {fr2[f].vars, fr2[f].noms}
      OBVIOUS
    <3>1. CASE h \in {v, m}
      <4>1. n + 1 \in 1..(n + 1)  BY <1>1
      <4> QED  BY <4>1, <3>1, <1>3
    <3>2. CASE h \notin {v, m}
      <4>1. own[h] = "frame"  BY <3>2 DEF Changes
      <4>2. PICK f \in 1..n : h \in {fr[f].vars, fr[f].noms}
        BY <4>1 DEF FrameOwned, n
      <4>3. f \in 1..(n + 1)  BY <1>1
      <4> QED  BY <4>2, <4>3, <1>1
    <3> QED  BY <3>1, <3>2
  <2>6. \A h \in Hash : own2[h] = "context" <=> h = Root
    <3>1. \A h \in {v, m} : own[h] # "context" /\ own2[h] # "context"  OBVIOUS
    <3> QED  BY <3>1 DEF FrameOwned, Changes
  <2> QED  BY <2>3, <2>4, <2>5, <2>6, <1>1 DEF FrameOwned
<1> QED  BY <1>6, <1>7

\* The frames that are left, when the last of them is freed.
LEMMA FrameFreed ==
  ASSUME NEW fr \in Seq(Frames), fr # <<>>, NEW own, FrameOwned(fr, own), NEW own2,
         LET gone == {Top(fr).vars, Top(fr).noms}
         IN  own2 = [h \in Hash |-> IF h \in gone THEN "free" ELSE own[h]]
  PROVE  /\ FrameOwned(Pop(fr), own2)
         /\ \A f \in 1..(Len(fr) - 1) : /\ fr[f].vars \notin {Top(fr).vars, Top(fr).noms}
                                        /\ fr[f].noms \notin {Top(fr).vars, Top(fr).noms}
         /\ own[Top(fr).vars] = "frame" /\ own[Top(fr).noms] = "frame"
         /\ Top(fr) \in Frames /\ Top(fr).vars \in Hash /\ Top(fr).noms \in Hash
<1> DEFINE n == Len(fr)
           v == Top(fr).vars
           m == Top(fr).noms
           fr2 == Pop(fr)
<1>1. /\ n \in Nat \ {0} /\ Len(fr2) = n - 1 /\ Top(fr) = fr[n] /\ Top(fr) \in Frames
      /\ \A f \in 1..(n - 1) : fr2[f] = fr[f]
  BY PopFacts
<1>2. v \in Hash /\ m \in Hash  BY <1>1 DEF Frames
<1>3. \A h \in Hash : own2[h] = IF h \in {v, m} THEN "free" ELSE own[h]
  OBVIOUS
<1> HIDE DEF n, fr2
<1>4. n \in 1..n /\ \A f \in 1..(n - 1) : f \in 1..n /\ f # n  BY <1>1
<1>5. /\ own[v] = "frame" /\ own[m] = "frame"
      /\ \A f \in 1..(n - 1) : fr[f].vars \notin {v, m} /\ fr[f].noms \notin {v, m}
  BY <1>1, <1>4 DEF FrameOwned, n
<1>6. \A f \in 1..(n - 1) : fr[f].vars \in Hash /\ fr[f].noms \in Hash
  <2>1. \A f \in 1..n : fr[f] \in Frames  BY ElementOfSeq DEF n
  <2> QED  BY <2>1, <1>4 DEF Frames
<1>7. \A f \in 1..(n - 1) : /\ fr2[f].vars # fr2[f].noms
                            /\ own2[fr2[f].vars] = "frame" /\ own2[fr2[f].noms] = "frame"
  <2> SUFFICES ASSUME NEW f \in 1..(n - 1)
               PROVE  /\ fr[f].vars # fr[f].noms
                      /\ own2[fr[f].vars] = "frame" /\ own2[fr[f].noms] = "frame"
    BY <1>1
  <2>1. f \in 1..Len(fr)  BY <1>4 DEF n
  <2>2. /\ fr[f].vars # fr[f].noms
        /\ own[fr[f].vars] = "frame" /\ own[fr[f].noms] = "frame"
    BY <2>1 DEF FrameOwned
  <2>3. own2[fr[f].vars] = own[fr[f].vars] /\ own2[fr[f].noms] = own[fr[f].noms]
    BY <1>3, <1>5, <1>6
  <2> QED  BY <2>2, <2>3
<1>8. \A f, g \in 1..(n - 1) : f # g => /\ fr2[f].vars \notin {fr2[g].vars, fr2[g].noms}
                                        /\ fr2[f].noms \notin {fr2[g].vars, fr2[g].noms}
  BY <1>1, <1>4 DEF FrameOwned, n
<1>9. \A h \in Hash : own2[h] = "frame" => \E f \in 1..(n - 1) : h \in {fr2[f].vars, fr2[f].noms}
  <2> SUFFICES ASSUME NEW h \in Hash, own2[h] = "frame"
               PROVE  \E f \in 1..(n - 1) : h \in {fr2[f].vars, fr2[f].noms}
    OBVIOUS
  <2>1. h \notin {v, m} /\ own[h] = "frame"  BY <1>3
  <2>2. PICK f \in 1..n : h \in {fr[f].vars, fr[f].noms}  BY <2>1 DEF FrameOwned, n
  <2>3. f # n  BY <2>1, <2>2, <1>1
  <2>4. f \in 1..(n - 1)  BY <2>3, <1>1
  <2> QED  BY <2>2, <2>4, <1>1
<1>10. \A h \in Hash : own2[h] = "context" <=> h = Root
  <2>1. Root \in Hash => Root \notin {v, m}  BY <1>5 DEF FrameOwned
  <2> QED  BY <2>1, <1>3, <1>5 DEF FrameOwned
<1>11. FrameOwned(fr2, own2)  BY <1>1, <1>7, <1>8, <1>9, <1>10 DEF FrameOwned
<1> QED  BY <1>1, <1>2, <1>5, <1>11 DEF n, fr2

\* A handler with a frame returns, and leaves its own frame.
LEMMA FramePop ==
  ASSUME NEW c \in Seq(CallSet), c # <<>>, NEW fr \in Seq(Frames), NEW par, NEW own, NEW vr,
         Scoped(c, fr, par, own, vr), FrameOwned(fr, own),
         Top(c).op \in FrameOps \ {"args"}, NEW own2, NEW par2,
         LET gone == {Top(fr).vars, Top(fr).noms}
         IN  /\ own2 = [h \in Hash |-> IF h \in gone THEN "free" ELSE own[h]]
             /\ par2 = [h \in Hash |-> IF h \in gone THEN Null ELSE par[h]]
  PROVE  /\ fr # <<>>
         /\ own[Top(fr).vars] = "frame" /\ own[Top(fr).noms] = "frame"
         /\ Scoped(Pop(c), Pop(fr), par2, own2, par[Top(fr).vars])
         /\ FrameOwned(Pop(fr), own2)
<1> DEFINE G == {Top(fr).vars, Top(fr).noms}
<1>1. PICK around \in Hash, before \in Nat :
        /\ before <= Len(fr)
        /\ Level(Top(c), fr, par, around, vr, before, Len(fr))
        /\ \A fr2 \in Seq(Frames) : \A p2, o2, g :
             /\ Len(fr2) = before /\ \A f \in 1..before : fr2[f] = fr[f]
             /\ Apart(Pop(c), fr2, g) /\ Changes(par, own, p2, o2, g)
             => Scoped(Pop(c), fr2, p2, o2, around)
  BY ScopedPop
<1>2. Len(fr) = before + 1 /\ par[fr[Len(fr)].vars] = around  BY <1>1 DEF Level
<1>3. fr # <<>>  BY <1>2
<1>4. /\ Pop(fr) \in Seq(Frames) /\ Len(Pop(fr)) = Len(fr) - 1 /\ Top(fr) = fr[Len(fr)]
      /\ \A f \in 1..(Len(fr) - 1) : Pop(fr)[f] = fr[f]
  BY <1>3, PopFacts
<1>5. before = Len(fr) - 1  BY <1>2
<1>6. /\ FrameOwned(Pop(fr), own2)
      /\ \A f \in 1..(Len(fr) - 1) : fr[f].vars \notin G /\ fr[f].noms \notin G
      /\ own[Top(fr).vars] = "frame" /\ own[Top(fr).noms] = "frame"
  BY <1>3, FrameFreed
<1>7. Changes(par, own, par2, own2, G)  BY DEF Changes
<1>8. Apart(Pop(c), Pop(fr), G)
  <2>1. \A i \in 1..Len(Pop(c)) : Pop(c)[i].op \in PoolOps => own[Pop(c)[i].hash] = "pool"
    <3>1. \A i \in 1..Len(c) : c[i].op \in PoolOps => own[c[i].hash] = "pool"
      BY DEF Scoped, Nest, Pooled
    <3>2. /\ Len(c) \in Nat \ {0} /\ Len(Pop(c)) = Len(c) - 1
          /\ \A i \in 1..(Len(c) - 1) : Pop(c)[i] = c[i]
      BY PopFacts
    <3>3. \A i \in 1..(Len(c) - 1) : i \in 1..Len(c)  BY <3>2
    <3> QED  BY <3>1, <3>2, <3>3
  <2>2. \A i \in 1..Len(Pop(c)) : Pop(c)[i].op \in PoolOps => Pop(c)[i].hash \notin G
    BY <2>1, <1>6
  <2>3. \A f \in 1..Len(Pop(fr)) : Pop(fr)[f].vars \notin G /\ Pop(fr)[f].noms \notin G
    BY <1>4, <1>6
  <2> QED  BY <2>2, <2>3 DEF Apart
<1> HIDE DEF G
<1>9. Scoped(Pop(c), Pop(fr), par2, own2, around)
  BY <1>1, <1>4, <1>5, <1>7, <1>8
<1> QED  BY <1>2, <1>3, <1>4, <1>6, <1>9

\* The pooled hashes of a stack without its last handler.
LEMMA PooledBelow ==
  ASSUME NEW c \in Seq(CallSet), c # <<>>, NEW fr, NEW par, NEW own, NEW vr,
         Scoped(c, fr, par, own, vr)
  PROVE  /\ \A i \in 1..Len(Pop(c)) : Pop(c)[i].op \in PoolOps => own[Pop(c)[i].hash] = "pool"
         /\ Top(c).op \in PoolOps =>
              /\ Top(c).hash \in Hash /\ own[Top(c).hash] = "pool"
              /\ \A i \in 1..Len(Pop(c)) : Pop(c)[i].op \in PoolOps
                                             => Pop(c)[i].hash # Top(c).hash
<1>1. Pooled(c, own)  BY DEF Scoped, Nest
<1>2. /\ Len(c) \in Nat \ {0} /\ Len(Pop(c)) = Len(c) - 1 /\ Top(c) = c[Len(c)]
      /\ \A i \in 1..(Len(c) - 1) : Pop(c)[i] = c[i]
  BY PopFacts
<1>3. Len(c) \in 1..Len(c) /\ \A i \in 1..(Len(c) - 1) : i \in 1..Len(c) /\ i # Len(c)
  BY <1>2
<1> QED  BY <1>1, <1>2, <1>3 DEF Pooled

\* The arguments are evaluated: the parameters of the frame are blurred.
LEMMA BlurScoped ==
  ASSUME NEW c \in Seq(CallSet), c # <<>>, NEW fr \in Seq(Frames), NEW par, NEW own,
         par \in [Hash -> Hash \union {Null}], NEW vr, Scoped(c, fr, par, own, vr),
         FrameOwned(fr, own), Top(c).op = "args",
         NEW par2, par2 = [par EXCEPT ![Top(fr).noms] = Null],
         NEW call \in CallSet, call.op = "apply", call.frame = Top(c).frame
  PROVE  /\ fr # <<>>
         /\ Scoped(Append(Pop(c), call), fr, par2, own, par[Top(fr).noms])
<1>1. PICK around \in Hash, before \in Nat :
        /\ before <= Len(fr)
        /\ Level(Top(c), fr, par, around, vr, before, Len(fr))
        /\ \A fr2 \in Seq(Frames) : \A p2, o2, g :
             /\ Len(fr2) = before /\ \A f \in 1..before : fr2[f] = fr[f]
             /\ Apart(Pop(c), fr2, g) /\ Changes(par, own, p2, o2, g)
             => Scoped(Pop(c), fr2, p2, o2, around)
  BY ScopedPop
<1>2. /\ Len(fr) = before + 1 /\ par[fr[Len(fr)].vars] = around
      /\ par[fr[Len(fr)].noms] = fr[Len(fr)].vars /\ Top(c).frame = Len(fr)
  BY <1>1 DEF Level, FrameOps
<1>3. fr # <<>>  BY <1>2
<1>4. /\ Pop(fr) \in Seq(Frames) /\ Len(Pop(fr)) = Len(fr) - 1 /\ Top(fr) = fr[Len(fr)]
      /\ Len(fr) \in Nat \ {0} /\ Top(fr) \in Frames
      /\ \A f \in 1..(Len(fr) - 1) : Pop(fr)[f] = fr[f]
  BY <1>3, PopFacts
<1> DEFINE v == Top(fr).vars
           m == Top(fr).noms
           n == Len(fr)
<1>5. v \in Hash /\ m \in Hash /\ n \in 1..n  BY <1>4 DEF Frames
<1>6. v # m /\ own[m] = "frame"
      /\ \A f \in 1..(n - 1) : fr[f].vars # m /\ fr[f].noms # m
  <2>1. \A f \in 1..(n - 1) : f \in 1..n /\ f # n  BY <1>4
  <2> QED  BY <2>1, <1>4, <1>5 DEF FrameOwned
<1>7. par2[m] = Null /\ \A h \in Hash \ {m} : par2[h] = par[h]  BY <1>5
<1>8. Changes(par, own, par2, own, {m})  BY <1>7 DEF Changes
<1>9. Apart(Pop(c), Pop(fr), {m})
  BY <1>4, <1>6, PooledBelow DEF Apart
<1>10. before = n - 1  BY <1>2
<1> HIDE DEF v, m, n
<1>11. Scoped(Pop(c), Pop(fr), par2, own, around)
  BY <1>1, <1>4, <1>8, <1>9, <1>10 DEF n
<1>12. Inside(call, fr, around) = v
  <2>1. call.op \in FrameOps \ {"args"} /\ call.op \notin {"with", "just"} /\ call.op # "args"
    BY DEF FrameOps
  <2>2. call.frame = n /\ fr[n].vars = v  BY <1>2, <1>4 DEF n, v
  <2> QED  BY <2>1, <2>2 DEF Inside
<1>13. Level(call, fr, par2, around, v, n - 1, n)
  <2>1. /\ call.op \in FrameOps /\ call.op # "args" /\ call.op # "with" /\ call.op # "just"
        /\ call.frame = n /\ fr[n].vars = v /\ par[v] = around /\ n = (n - 1) + 1
    BY <1>2, <1>4 DEF n, v, FrameOps
  <2>2. par2[v] = around  BY <2>1, <1>5, <1>6, <1>7
  <2> QED  BY <2>1, <2>2, <1>12 DEF Level
<1>14. Pop(c) \in Seq(CallSet) /\ call.op \notin PoolOps
  BY PopFacts DEF PoolOps, ParamsOps
<1>15. Apart(Pop(c), Pop(fr), {}) /\ Changes(par2, own, par2, own, {})
  BY DEF Apart, Changes
<1>16. n - 1 <= n  BY <1>4 DEF n
<1>17. Scoped(Append(Pop(c), call), fr, par2, own, v)
  BY ZenonT(60), <1>4, <1>5, <1>11, <1>13, <1>14, <1>15, <1>16, ScopedPush DEF n
<1>18. par[m] = v  BY <1>2, <1>4 DEF m, v
<1> QED  BY <1>3, <1>17, <1>18 DEF m

\* The body of with or just is done: the variables are restored.
LEMMA PoolPop ==
  ASSUME NEW c \in Seq(CallSet), c # <<>>, NEW fr \in Seq(Frames), NEW par, NEW own,
         par \in [Hash -> Hash \union {Null}], NEW vr, Scoped(c, fr, par, own, vr),
         FrameOwned(fr, own), Top(c).op \in {"with", "just"},
         NEW par2, par2 = [par EXCEPT ![vr] = Null]
  PROVE  Scoped(Pop(c), fr, par2, own,
                IF Top(c).saved = Null THEN par[vr] ELSE Top(c).saved)
<1>1. PICK around \in Hash, before \in Nat :
        /\ before <= Len(fr)
        /\ Level(Top(c), fr, par, around, vr, before, Len(fr))
        /\ \A fr2 \in Seq(Frames) : \A p2, o2, g :
             /\ Len(fr2) = before /\ \A f \in 1..before : fr2[f] = fr[f]
             /\ Apart(Pop(c), fr2, g) /\ Changes(par, own, p2, o2, g)
             => Scoped(Pop(c), fr2, p2, o2, around)
  BY ScopedPop
<1>2. /\ Top(c).op \notin FrameOps /\ Top(c).op \in PoolOps
      /\ Inside(Top(c), fr, around) = Top(c).hash
  BY DEF FrameOps, PoolOps, Inside
<1>3. /\ before = Len(fr) /\ vr = Top(c).hash
      /\ Top(c).op = "with" => par[vr] = around /\ Top(c).saved = Null
      /\ Top(c).op = "just" => Top(c).saved = around
  BY <1>1, <1>2 DEF Level
<1>4. /\ vr \in Hash /\ own[vr] = "pool"
      /\ \A i \in 1..Len(Pop(c)) : Pop(c)[i].op \in PoolOps => Pop(c)[i].hash # vr
  BY <1>2, <1>3, PooledBelow
<1>5. Changes(par, own, par2, own, {vr})  BY DEF Changes
<1>6. Apart(Pop(c), fr, {vr})  BY <1>4 DEF Apart, FrameOwned
<1>7. Scoped(Pop(c), fr, par2, own, around)  BY <1>1, <1>3, <1>5, <1>6
<1>8. (IF Top(c).saved = Null THEN par[vr] ELSE Top(c).saved) = around
  <2>1. around # Null  BY EvaluationAssumption
  <2> QED  BY <2>1, <1>3
<1> QED  BY <1>7, <1>8

\* The parameters are evaluated: their hash becomes the variables.
LEMMA PoolRaise ==
  ASSUME NEW c \in Seq(CallSet), c # <<>>, NEW fr \in Seq(Frames), NEW par, NEW own,
         par \in [Hash -> Hash \union {Null}], NEW vr \in Hash, Scoped(c, fr, par, own, vr),
         FrameOwned(fr, own), Top(c).op \in ParamsOps,
         NEW call \in CallSet, call.op \in {"with", "just"}, call.hash = Top(c).hash,
         NEW par2, par2 = [par EXCEPT ![call.hash] = IF call.op = "with" THEN vr ELSE Null],
         call.saved = IF call.op = "with" THEN Null ELSE vr
  PROVE  Scoped(Append(Pop(c), call), fr, par2, own, call.hash)
<1>1. /\ Len(c) \in Nat \ {0} /\ Top(c) = c[Len(c)] /\ Pop(c) \in Seq(CallSet)
      /\ Pop(c) = SubSeq(c, 1, Len(c) - 1)
  BY PopFacts DEF Pop
<1>2. Top(c).op \notin ScopeOps /\ Top(c).op \in PoolOps
  BY DEF ScopeOps, FrameOps, ParamsOps, PoolOps
<1> DEFINE n == Len(c)
<1>3. n - 1 \in 0..n /\ \A m \in ((n - 1) + 1)..n : m = n  BY <1>1, LastOnly
<1>4. \A m \in ((n - 1) + 1)..n : c[m].op \notin ScopeOps  BY <1>1, <1>2, <1>3
<1>5. Scoped(Pop(c), fr, par, own, vr)  BY <1>1, <1>3, <1>4, ScopedCut
<1> HIDE DEF n
<1> DEFINE hash == call.hash
<1>6. /\ hash \in Hash /\ own[hash] = "pool"
      /\ \A i \in 1..Len(Pop(c)) : Pop(c)[i].op \in PoolOps => Pop(c)[i].hash # hash
  BY <1>2, PooledBelow
<1>7. par2[hash] = (IF call.op = "with" THEN vr ELSE Null)  BY <1>6
<1>8. Changes(par, own, par2, own, {hash})  BY DEF Changes
<1>9. call.op \in PoolOps /\ call.op \notin ParamsOps  BY DEF PoolOps, ParamsOps
<1> HIDE DEF hash
<1>10. hash = IF call.op \in ParamsOps THEN vr ELSE hash  BY <1>9
<1>11. /\ call.hash = hash /\ call.saved \in {Null, vr} /\ own[hash] \in {"free", "pool"}
       /\ call.op = "with" => par2[hash] = vr /\ call.saved = Null
       /\ call.op = "just" => par2[hash] = Null /\ call.saved = vr
  BY <1>6, <1>7 DEF hash
<1>12. Scoped(Append(Pop(c), call), fr, par2, own, hash)
  BY <1>1, <1>5, <1>6, <1>8, <1>9, <1>10, <1>11, PoolPush
<1> QED  BY <1>12 DEF hash

\* A stack that was popped and is cut again is the stack that is cut.
LEMMA CutOfPop ==
  ASSUME NEW c \in Seq(CallSet), c # <<>>, NEW p \in 0..(Len(c) - 1)
  PROVE  SubSeq(Pop(c), 1, p) = SubSeq(c, 1, p)
<1> DEFINE e == SubSeq(Pop(c), 1, p)
           f == SubSeq(c, 1, p)
<1>1. /\ Pop(c) \in Seq(CallSet) /\ Len(c) \in Nat \ {0} /\ Len(Pop(c)) = Len(c) - 1
      /\ \A i \in 1..(Len(c) - 1) : Pop(c)[i] = c[i]
  BY PopFacts
<1>2. p \in 0..Len(c) /\ p \in 0..Len(Pop(c)) /\ \A i \in 1..p : i \in 1..(Len(c) - 1)
  BY <1>1
<1>3. e \in Seq(CallSet) /\ Len(e) = p /\ \A i \in 1..p : e[i] = Pop(c)[i]
  BY <1>1, <1>2, CutFacts
<1>4. f \in Seq(CallSet) /\ Len(f) = p /\ \A i \in 1..p : f[i] = c[i]
  BY <1>2, CutFacts
<1> HIDE DEF e, f
<1>5. Len(e) = Len(f) /\ \A i \in 1..Len(e) : e[i] = f[i]
  BY <1>1, <1>2, <1>3, <1>4
<1>6. e = f  BY <1>3, <1>4, <1>5, SeqEqual, Zenon
<1> QED  BY <1>6 DEF e, f

\* The handlers that an error crosses hold no HEMP_TRY.
LEMMA AboveJump ==
  ASSUME NEW c \in Seq(CallSet), NEW j \in Seq(Nat), Stacked(c, j), c # <<>>
  PROVE  /\ Top(j) \in 1..Len(c)
         /\ \A m \in (Top(j) + 1)..Len(c) : c[m].op \notin TryOps
<1>1. Top(j) \in 1..Len(c) /\ \A k \in 1..Len(j) : j[k] <= Top(j)  BY JumpTop
<1>2. Len(c) \in Nat  OBVIOUS
<1>3. ASSUME NEW m \in (Top(j) + 1)..Len(c)  PROVE c[m].op \notin TryOps
  <2> SUFFICES ASSUME c[m].op \in TryOps  PROVE FALSE
    OBVIOUS
  <2>1. m \in 1..Len(c) /\ m > Top(j)  BY <1>1, <1>2
  <2>2. PICK k \in 1..Len(j) : j[k] = m  BY <2>1 DEF Stacked
  <2>3. j[k] <= Top(j)  BY <1>1
  <2> QED  BY <1>1, <1>2, <2>1, <2>2, <2>3
<1> QED  BY <1>1, <1>3

-----------------------------------------------------------------------------
(***************************************************************************)
(* Every action, by kind.                                                  *)
(***************************************************************************)
LEMMA PlainInSet == Plain("try") \in CallSet /\ Plain("test") \in CallSet
BY Zenon DEF Plain, Call, CallSet, SavedBy, Ops, TryOps

LEMMA TryScopes ==
  EvalInv /\ ScopeInv /\ ~unwound /\ (Render \/ TestBegin) => ScopeInv'
<1> SUFFICES ASSUME EvalInv, ScopeInv, ~unwound, Render \/ TestBegin  PROVE ScopeInv'
  OBVIOUS
<1>1. CASE Render
  <2>1. /\ phase = "open" /\ phase' = "open" /\ calls' = Append(calls, Plain("try"))
        /\ UNCHANGED <<vars, frames, parent, owner>> /\ faults = {} /\ faults' = {}
    BY <1>1 DEF Render, Running, Push, context
  <2>2. Plain("try").op = "try"  BY DEF Plain, Call
  <2> QED  BY <2>1, <2>2, PlainInSet, TryPushed
<1>2. CASE TestBegin
  <2>1. /\ phase = "open" /\ phase' = "open" /\ calls' = Append(calls, Plain("test"))
        /\ UNCHANGED <<vars, frames, parent, owner>> /\ faults = {} /\ faults' = {}
    BY <1>2 DEF TestBegin, CanBegin, Within, Running, Push, context
  <2>2. Plain("test").op = "test"  BY DEF Plain, Call
  <2> QED  BY <2>1, <2>2, PlainInSet, TryPushed
<1> QED  BY <1>1, <1>2

LEMMA TryEndScopes ==
  EvalInv /\ ScopeInv /\ ~unwound /\ (RenderEnd \/ TestEnd \/ Catch) => ScopeInv'
<1> SUFFICES ASSUME EvalInv, ScopeInv, ~unwound, RenderEnd \/ TestEnd \/ Catch
             PROVE  ScopeInv'
  OBVIOUS
<1>1. /\ calls # <<>> /\ Top(calls).op \in {"try", "test"} /\ calls' = Pop(calls)
      /\ UNCHANGED <<vars, frames, parent, owner, phase>> /\ faults = {} /\ faults' = {}
      /\ phase = "open"
  <2>1. CASE RenderEnd
    BY <2>1 DEF RenderEnd, Within, Running, context
  <2>2. CASE TestEnd
    BY <2>2 DEF TestEnd, Within, Running, context
  <2>3. CASE Catch
    <3>1. calls # <<>> /\ phase = "open"
      BY <2>3 DEF Catch, EvalInv, ControlOK, RestOK
    <3> QED  BY <3>1, <2>3 DEF Catch, context
  <2> QED  BY <2>1, <2>2, <2>3
<1>2. Top(calls).op \notin ScopeOps  BY <1>1 DEF ScopeOps, FrameOps
<1> QED  BY <1>1, <1>2, FlatPop

LEMMA ParamsScopes ==
  EvalInv /\ ScopeInv /\ ~unwound /\ (\E op \in ParamsOps : ParamsBegin(op)) => ScopeInv'
<1> SUFFICES ASSUME EvalInv, ScopeInv, ~unwound, NEW op \in ParamsOps, ParamsBegin(op)
             PROVE  ScopeInv'
  OBVIOUS
<1> DEFINE hash == Lowest(Free)
           call == Call(op, hash, 0, Null)
<1>1. /\ Free # {} /\ phase = "open" /\ phase' = "open" /\ faults' = {}
      /\ owner' = [owner EXCEPT ![hash] = "pool"] /\ calls' = Append(calls, call)
      /\ UNCHANGED <<vars, frames, parent>>
  BY DEF ParamsBegin, CanBegin, Within, Running, Push
<1>2. /\ calls \in Seq(CallSet) /\ frames \in Seq(Frames) /\ vars \in Hash
      /\ owner \in [Hash -> Owners] /\ FrameOwned(frames, owner)
      /\ Scoped(calls, frames, parent, owner, vars)
  BY <1>1, OpenScope
<1>3. hash \in Hash /\ owner[hash] = "free"
  <2>1. Free \in SUBSET Hash  BY DEF Free
  <2>2. hash \in Free  BY <1>1, <2>1, LowestIsIn
  <2> QED  BY <2>2 DEF Free
<1> HIDE DEF hash
<1>4. call \in CallSet
  <2>1. op \in Ops /\ op # "in"  BY DEF Ops, ParamsOps
  <2> QED  BY <2>1, <1>3 DEF Call, CallSet, SavedBy
<1>5. /\ call.op = op /\ call.hash = hash /\ call.saved = Null
      /\ call.op \in PoolOps /\ call.op # "with" /\ call.op # "just"
  BY DEF Call, PoolOps, ParamsOps
<1>6. /\ Changes(parent, owner, parent, owner', {hash}) /\ owner'[hash] = "pool"
      /\ owner[hash] \in {"free", "pool"}
  BY <1>1, <1>2, <1>3 DEF Changes
<1>7. \A i \in 1..Len(calls) : calls[i].op \in PoolOps => calls[i].hash # hash
  <2>1. \A i \in 1..Len(calls) : calls[i].op \in PoolOps => owner[calls[i].hash] = "pool"
    BY <1>2 DEF Scoped, Nest, Pooled
  <2> QED  BY <2>1, <1>3
<1> HIDE DEF call
<1>8. vars = IF call.op \in ParamsOps THEN vars ELSE hash  BY <1>5
<1>9. Scoped(Append(calls, call), frames, parent, owner', vars)
  BY <1>2, <1>3, <1>4, <1>5, <1>6, <1>7, <1>8, PoolPush
<1>10. FrameOwned(frames, owner')  BY <1>1, <1>2, <1>3, <1>6, OwnedPool
<1> QED  BY <1>1, <1>9, <1>10, StaysScoped

LEMMA BodyScopes ==
  EvalInv /\ ScopeInv /\ ~unwound /\ (WithBody \/ JustBody) => ScopeInv'
<1> SUFFICES ASSUME EvalInv, ScopeInv, ~unwound, WithBody \/ JustBody  PROVE ScopeInv'
  OBVIOUS
<1> DEFINE hash == Top(calls).hash
           op == IF WithBody THEN "with" ELSE "just"
           saved == IF WithBody THEN Null ELSE vars
           call == Call(op, hash, 0, saved)
<1>1. /\ calls # <<>> /\ Top(calls).op \in ParamsOps /\ phase = "open" /\ faults = {}
  BY DEF WithBody, JustBody, Within, Running, ParamsOps
<1>2. /\ calls \in Seq(CallSet) /\ frames \in Seq(Frames) /\ vars \in Hash
      /\ parent \in [Hash -> Hash \union {Null}]
      /\ owner \in [Hash -> Owners] /\ FrameOwned(frames, owner)
      /\ Scoped(calls, frames, parent, owner, vars)
  BY <1>1, OpenScope
<1>3. /\ phase' = "open" /\ faults' = {} /\ UNCHANGED <<frames, owner>>
      /\ vars' = hash /\ calls' = Append(Pop(calls), call)
      /\ parent' = [parent EXCEPT ![hash] = IF op = "with" THEN vars ELSE Null]
  <2>1. CASE WithBody
    <3>1. op = "with" /\ saved = Null  BY <2>1
    <3> QED  BY <1>1, <2>1, <3>1 DEF WithBody, Replace
  <2>2. CASE ~WithBody
    <3>1. op = "just" /\ saved = vars /\ JustBody  BY <2>2
    <3> QED  BY <1>1, <3>1 DEF JustBody, Replace
  <2> QED  BY <2>1, <2>2
<1>4. op \in {"with", "just"} /\ saved = IF op = "with" THEN Null ELSE vars
  OBVIOUS
<1>5. hash \in Hash \union {Null}
  <2>1. Top(calls) \in CallSet  BY <1>1, <1>2, PopFacts
  <2> QED  BY <2>1 DEF CallSet
<1> HIDE DEF hash, op, saved
<1>6. call \in CallSet
  <2>1. op \in Ops /\ op # "in" /\ saved \in Hash \union {Null}
    BY <1>2, <1>4 DEF Ops, TryOps
  <2> QED  BY <2>1, <1>5 DEF Call, CallSet, SavedBy
<1>7. call.op = op /\ call.hash = hash /\ call.saved = saved  BY DEF Call
<1> HIDE DEF call
<1>8. parent' = [parent EXCEPT ![call.hash] = IF call.op = "with" THEN vars ELSE Null]
  BY <1>3, <1>7
<1>9. call.op \in {"with", "just"} /\ call.hash = Top(calls).hash
      /\ call.saved = IF call.op = "with" THEN Null ELSE vars
  BY <1>4, <1>7 DEF hash
<1>10. Scoped(Append(Pop(calls), call), frames, parent', owner, call.hash)
  BY <1>1, <1>2, <1>6, <1>8, <1>9, PoolRaise
<1> QED  BY <1>2, <1>3, <1>7, <1>10, StaysScoped

\* hemp_context_enter, and the application of a function, which focuses the
\* parameters of the frame.
LEMMA EnterScopes ==
  ASSUME EvalInv, ScopeInv, ~unwound, phase = "open", phase' = "open", faults' = {},
         CanAllocateFrame, NEW call \in CallSet, call.op \in FrameOps,
         call.frame = Len(frames) + 1, calls' = Append(calls, call),
         frames' = Append(frames, [vars |-> NewVars, noms |-> NewNoms]),
         owner' = [owner EXCEPT ![NewVars] = "frame", ![NewNoms] = "frame"],
         parent' = IF call.op = "args"
                   THEN [parent EXCEPT ![NewVars] = vars, ![NewNoms] = NewVars]
                   ELSE [parent EXCEPT ![NewVars] = vars],
         vars' = IF call.op = "args" THEN NewNoms ELSE NewVars
  PROVE  ScopeInv'
<1> DEFINE v == NewVars
           m == NewNoms
<1>1. /\ calls \in Seq(CallSet) /\ frames \in Seq(Frames) /\ vars \in Hash
      /\ parent \in [Hash -> Hash \union {Null}]
      /\ owner \in [Hash -> Owners] /\ FrameOwned(frames, owner)
      /\ Scoped(calls, frames, parent, owner, vars)
  BY OpenScope
<1>2. /\ v \in Hash /\ m \in Hash /\ v # m
      /\ owner[v] = "free" /\ owner[m] = "free"
  BY NewFrame DEF Free
<1>3. /\ owner' = [owner EXCEPT ![v] = "frame", ![m] = "frame"]
      /\ parent' = IF call.op = "args" THEN [parent EXCEPT ![v] = vars, ![m] = v]
                                       ELSE [parent EXCEPT ![v] = vars]
      /\ frames' = Append(frames, [vars |-> v, noms |-> m])
      /\ vars' = IF call.op = "args" THEN m ELSE v
  OBVIOUS
<1> HIDE DEF v, m
<1>4. /\ owner'[v] = "frame" /\ owner'[m] = "frame"
      /\ parent'[v] = vars /\ (call.op = "args" => parent'[m] = v)
      /\ \A h \in Hash \ {v, m} : owner'[h] = owner[h] /\ parent'[h] = parent[h]
  <2>1. CASE call.op = "args"  BY <2>1, <1>1, <1>2, <1>3
  <2>2. CASE call.op # "args"  BY <2>2, <1>1, <1>2, <1>3
  <2> QED  BY <2>1, <2>2
<1>5. Changes(parent, owner, parent', owner', {v, m})  BY <1>4 DEF Changes
<1>6. call.op \in FrameOps /\ call.frame = Len(frames) + 1
  OBVIOUS
<1>7. FrameAdded(call, v, m, frames, parent, owner, vars, frames', parent', owner', vars')
  BY <1>2, <1>3, <1>4, <1>5, <1>6, Zenon DEF FrameAdded
<1>8. Scoped(Append(calls, call), frames', parent', owner', vars') /\ FrameOwned(frames', owner')
  BY <1>1, <1>7, FramePush
<1> QED  BY <1>8, StaysScoped

LEMMA FrameScopes ==
  EvalInv /\ ScopeInv /\ ~unwound /\ (EachBegin \/ InBegin \/ ItemBegin \/ ApplyBegin)
    => ScopeInv'
<1> SUFFICES ASSUME EvalInv, ScopeInv, ~unwound,
                    EachBegin \/ InBegin \/ ItemBegin \/ ApplyBegin
             PROVE  ScopeInv'
  OBVIOUS
<1>1. /\ phase = "open" /\ phase' = "open" /\ faults = {}
  BY DEF EachBegin, InBegin, ItemBegin, ApplyBegin, CanBegin, Within, Running
<1>2. /\ calls \in Seq(CallSet) /\ frames \in Seq(Frames) /\ Len(frames) + 1 \in Nat
      /\ FrameOwned(frames, owner) /\ Scoped(calls, frames, parent, owner, vars)
  <2>1. frames \in Seq(Frames)  BY <1>1, OpenScope
  <2> QED  BY <1>1, <2>1, OpenScope
<1>3. CASE ItemBegin /\ frames = <<>>
  <2>1. faults' = {"null frame"} /\ UNCHANGED <<vars, frames, parent, owner, calls>>
    BY <1>3 DEF ItemBegin, context
  <2> QED  BY <1>1, <1>2, <2>1, StaysScoped
<1>4. ASSUME NEW op \in {"each", "in", "item"}, NEW saved \in SavedBy(op),
             BeginFrame(op, saved), faults' = faults
      PROVE  ScopeInv'
  <2> DEFINE call == Call(op, Null, Len(frames) + 1, saved)
  <2>1. /\ CanAllocateFrame /\ calls' = Append(calls, call)
        /\ frames' = Append(frames, [vars |-> NewVars, noms |-> NewNoms])
        /\ owner' = [owner EXCEPT ![NewVars] = "frame", ![NewNoms] = "frame"]
        /\ parent' = [parent EXCEPT ![NewVars] = vars] /\ vars' = NewVars
    BY <1>4 DEF BeginFrame, Enter, Push
  <2>2. call \in CallSet
    <3>1. op \in Ops /\ saved \in Hash \union {Null, Block}  BY DEF Ops, FrameOps, SavedBy
    <3> QED  BY <3>1, <1>2 DEF Call, CallSet
  <2>3. call.op = op /\ call.frame = Len(frames) + 1  BY DEF Call
  <2> HIDE DEF call
  <2>4. call.op \in FrameOps /\ call.op # "args"  BY <2>3 DEF FrameOps
  <2>5. /\ parent' = IF call.op = "args"
                     THEN [parent EXCEPT ![NewVars] = vars, ![NewNoms] = NewVars]
                     ELSE [parent EXCEPT ![NewVars] = vars]
        /\ vars' = IF call.op = "args" THEN NewNoms ELSE NewVars
    BY <2>1, <2>4
  <2> QED  BY <1>1, <1>4, <2>1, <2>2, <2>3, <2>4, <2>5, EnterScopes
<1>5. CASE EachBegin
  <2>1. BeginFrame("each", Null) /\ faults' = faults /\ Null \in SavedBy("each")
    BY <1>5 DEF EachBegin, SavedBy
  <2> QED  BY <2>1, <1>4
<1>6. CASE InBegin
  <2>1. BeginFrame("in", body) /\ faults' = faults  BY <1>6 DEF InBegin
  <2>2. body \in SavedBy("in")  BY DEF SavedBy, EvalInv, RestOK
  <2> QED  BY <2>1, <2>2, <1>4
<1>7. CASE ItemBegin /\ frames # <<>>
  <2>1. BeginFrame("item", Null) /\ faults' = faults /\ Null \in SavedBy("item")
    BY <1>7 DEF ItemBegin, SavedBy
  <2> QED  BY <2>1, <1>4
<1>8. CASE ApplyBegin
  <2> DEFINE call == Call("args", Null, Len(frames) + 1, Null)
  <2>1. /\ CanAllocateFrame /\ calls' = Append(calls, call) /\ faults' = {}
        /\ frames' = Append(frames, [vars |-> NewVars, noms |-> NewNoms])
        /\ owner' = [owner EXCEPT ![NewVars] = "frame", ![NewNoms] = "frame"]
        /\ parent' = [parent EXCEPT ![NewVars] = vars, ![NewNoms] = NewVars]
        /\ vars' = NewNoms
    BY <1>1, <1>8 DEF ApplyBegin, Push
  <2>2. call \in CallSet
    <3>1. "args" \in Ops  BY DEF Ops, FrameOps
    <3> QED  BY <3>1, <1>2 DEF Call, CallSet, SavedBy
  <2>3. call.op = "args" /\ call.frame = Len(frames) + 1  BY DEF Call
  <2> HIDE DEF call
  <2>4. call.op \in FrameOps  BY <2>3 DEF FrameOps
  <2>5. /\ parent' = IF call.op = "args"
                     THEN [parent EXCEPT ![NewVars] = vars, ![NewNoms] = NewVars]
                     ELSE [parent EXCEPT ![NewVars] = vars]
        /\ vars' = IF call.op = "args" THEN NewNoms ELSE NewVars
    BY <2>1, <2>3
  <2> QED  BY <1>1, <2>1, <2>2, <2>3, <2>4, <2>5, EnterScopes
<1> QED  BY <1>3, <1>5, <1>6, <1>7, <1>8

\* hemp_context_leave finds the frame of the call that returns.
LEMMA EndScopes ==
  EvalInv /\ ScopeInv /\ ~unwound /\ (InEnd \/ CallEnd) => ScopeInv'
<1> SUFFICES ASSUME EvalInv, ScopeInv, ~unwound, InEnd \/ CallEnd  PROVE ScopeInv'
  OBVIOUS
<1>1. /\ phase = "open" /\ phase' = "open" /\ faults = {} /\ calls # <<>>
      /\ Top(calls).op \in {"in", "each", "item", "apply"} /\ Leave /\ calls' = Pop(calls)
  BY DEF InEnd, CallEnd, EndFrame, Within, Running
<1>2. /\ calls \in Seq(CallSet) /\ frames \in Seq(Frames)
      /\ FrameOwned(frames, owner) /\ Scoped(calls, frames, parent, owner, vars)
  BY <1>1, OpenScope
<1>3. Top(calls).op \in FrameOps \ {"args"}  BY <1>1 DEF FrameOps
<1> DEFINE gone == {Top(frames).vars, Top(frames).noms}
           own2 == [h \in Hash |-> IF h \in gone THEN "free" ELSE owner[h]]
           par2 == [h \in Hash |-> IF h \in gone THEN Null ELSE parent[h]]
<1>4. /\ frames # <<>>
      /\ owner[Top(frames).vars] = "frame" /\ owner[Top(frames).noms] = "frame"
      /\ Scoped(Pop(calls), Pop(frames), par2, own2, parent[Top(frames).vars])
      /\ FrameOwned(Pop(frames), own2)
  BY <1>1, <1>2, <1>3, FramePop
<1>5. /\ frames' = Pop(frames) /\ vars' = parent[Top(frames).vars]
      /\ owner' = own2 /\ parent' = par2
      /\ faults' = IF \E h \in gone : owner[h] = "free" THEN {"double free"} ELSE {}
  BY <1>1, <1>4 DEF Leave
<1> HIDE DEF own2, par2
<1>6. faults' = {}  BY <1>4, <1>5
<1> QED  BY <1>1, <1>4, <1>5, <1>6, StaysScoped

LEMMA BlurScopes == EvalInv /\ ScopeInv /\ ~unwound /\ ApplyBlur => ScopeInv'
<1> SUFFICES ASSUME EvalInv, ScopeInv, ~unwound, ApplyBlur  PROVE ScopeInv'
  OBVIOUS
<1> DEFINE call == [Top(calls) EXCEPT !.op = "apply"]
           par2 == [parent EXCEPT ![Top(frames).noms] = Null]
<1>1. /\ phase = "open" /\ phase' = "open" /\ faults' = {} /\ calls # <<>>
      /\ Top(calls).op = "args" /\ calls' = Append(Pop(calls), call)
      /\ UNCHANGED <<frames, owner>>
      /\ frames # <<>> => vars' = parent[Top(frames).noms] /\ parent' = par2
  BY DEF ApplyBlur, Within, Running, Replace
<1>2. /\ calls \in Seq(CallSet) /\ frames \in Seq(Frames)
      /\ parent \in [Hash -> Hash \union {Null}]
      /\ FrameOwned(frames, owner) /\ Scoped(calls, frames, parent, owner, vars)
  BY <1>1, OpenScope
<1>3. call \in CallSet /\ call.op = "apply" /\ call.frame = Top(calls).frame
  <2>1. Top(calls) \in CallSet /\ "apply" \in Ops
    BY <1>1, <1>2, PopFacts DEF Ops, FrameOps
  <2>2. Top(calls).saved \in SavedBy("apply")  BY <1>1, <2>1 DEF CallSet, SavedBy
  <2> QED  BY <2>1, <2>2 DEF CallSet
<1> HIDE DEF call, par2
<1>4. /\ frames # <<>>
      /\ Scoped(Append(Pop(calls), call), frames, par2, owner, parent[Top(frames).noms])
  BY <1>1, <1>2, <1>3, BlurScoped DEF par2
<1> QED  BY <1>1, <1>2, <1>4, StaysScoped

\* with and just restore the variables, at the end or for an error.
LEMMA Restored ==
  ASSUME EvalInv, ScopeInv, ~unwound, phase = "open", calls # <<>>,
         Top(calls).op \in {"with", "just"}, Without(Top(calls).saved)
  PROVE  /\ faults' = {} /\ UNCHANGED <<frames, owner>>
         /\ FrameOwned(frames, owner)
         /\ Scoped(Pop(calls), frames, parent', owner, vars')
<1>1. /\ calls \in Seq(CallSet) /\ frames \in Seq(Frames) /\ vars \in Hash
      /\ parent \in [Hash -> Hash \union {Null}]
      /\ FrameOwned(frames, owner) /\ Scoped(calls, frames, parent, owner, vars)
  BY OpenScope
<1>2. vars # Null  BY <1>1, EvaluationAssumption
<1>3. /\ faults' = {} /\ UNCHANGED <<frames, owner>>
      /\ parent' = [parent EXCEPT ![vars] = Null]
      /\ vars' = IF Top(calls).saved = Null THEN parent[vars] ELSE Top(calls).saved
  BY <1>2 DEF Without
<1>4. Scoped(Pop(calls), frames, parent', owner, vars')
  <2>1. Scoped(Pop(calls), frames, parent', owner,
               IF Top(calls).saved = Null THEN parent[vars] ELSE Top(calls).saved)
    BY <1>1, <1>3, PoolPop
  <2> QED  BY <2>1, <1>3
<1> QED  BY <1>1, <1>3, <1>4

LEMMA WithEndScopes == EvalInv /\ ScopeInv /\ ~unwound /\ WithEnd => ScopeInv'
<1> SUFFICES ASSUME EvalInv, ScopeInv, ~unwound, WithEnd  PROVE ScopeInv'
  OBVIOUS
<1>1. /\ phase = "open" /\ phase' = "open" /\ calls # <<>> /\ calls' = Pop(calls)
      /\ Top(calls).op \in {"with", "just"} /\ Without(Top(calls).saved)
  BY DEF WithEnd, Within, Running
<1>2. /\ faults' = {} /\ UNCHANGED <<frames, owner>>
      /\ FrameOwned(frames, owner)
      /\ Scoped(Pop(calls), frames, parent', owner, vars')
  BY <1>1, Restored
<1> QED  BY <1>1, <1>2, StaysScoped

\* longjmp crosses no call frame, or the history says so.
LEMMA ThrowScopes == EvalInv /\ ScopeInv /\ ~unwound /\ Throw => ScopeInv'
<1> SUFFICES ASSUME EvalInv, ScopeInv, ~unwound, Throw  PROVE ScopeInv'
  OBVIOUS
<1> DEFINE p == Top(jump)
<1>1. /\ phase = "open" /\ phase' = "open" /\ calls # <<>> /\ faults' = {}
      /\ calls' = SubSeq(calls, 1, p) /\ UNCHANGED <<vars, frames, parent, owner>>
  BY DEF Throw, Within, Running, CutTo, context
<1>2. unwound' = \E i \in (p + 1)..Len(calls) : calls[i].op \in FrameOps
  BY DEF Throw, CutTo
<1>3. /\ p \in 1..Len(calls) /\ Len(calls) \in Nat
      /\ \A m \in (p + 1)..Len(calls) : calls[m].op \notin TryOps
  BY <1>1, AboveJump DEF EvalInv, ControlOK
<1> HIDE DEF p
<1>4. CASE unwound'  BY <1>4 DEF ScopeInv
<1>5. CASE ~unwound'
  <2>1. \A m \in (p + 1)..Len(calls) : calls[m].op \notin ScopeOps
    BY <1>2, <1>3, <1>5 DEF ScopeOps, TryOps
  <2>2. p \in 0..Len(calls)  BY <1>3
  <2> QED  BY <1>1, <2>1, <2>2, FlatCut
<1> QED  BY <1>4, <1>5

\* with and just restore the variables and throw the error again.
LEMMA WithCatchScopes == EvalInv /\ ScopeInv /\ ~unwound /\ WithCatch => ScopeInv'
<1> SUFFICES ASSUME EvalInv, ScopeInv, ~unwound, WithCatch  PROVE ScopeInv'
  OBVIOUS
<1> DEFINE p == Top(Pop(jump))
<1>1. /\ catching /\ Top(calls).op \in {"with", "just"} /\ Without(Top(calls).saved)
      /\ calls' = SubSeq(calls, 1, p) /\ phase' = phase
      /\ unwound' = \E i \in (p + 1)..Len(calls) : calls[i].op \in FrameOps
  BY DEF WithCatch, CutTo
<1>2. /\ calls # <<>> /\ phase = "open" /\ calls \in Seq(CallSet) /\ jump \in Seq(Nat)
      /\ Stacked(calls, jump)
  BY <1>1 DEF EvalInv, ControlOK, RestOK
<1>3. /\ Top(calls).op \in TryOps /\ Top(calls).op # "try"
      /\ Top(calls).op \notin FrameOps
  BY <1>1 DEF TryOps, FrameOps
<1>4. p \in 1..(Len(calls) - 1)  BY <1>2, <1>3, LandedAgain
<1>5. /\ Pop(calls) \in Seq(CallSet) /\ Len(calls) \in Nat \ {0}
      /\ Len(Pop(calls)) = Len(calls) - 1
      /\ \A i \in 1..(Len(calls) - 1) : Pop(calls)[i] = calls[i]
  BY <1>2, PopFacts
<1>6. jump # <<>> /\ Stacked(Pop(calls), Pop(jump))  BY <1>2, <1>3, PopTry
<1>7. Pop(jump) \in Seq(Nat)  BY <1>2, <1>6, PopFacts
<1>8. Pop(calls) # <<>>
  <2>1. Len(Pop(calls)) # 0  BY <1>4, <1>5
  <2> QED  BY <2>1
<1>9. \A m \in (p + 1)..Len(Pop(calls)) : Pop(calls)[m].op \notin TryOps
  BY <1>5, <1>6, <1>7, <1>8, AboveJump
<1>10. /\ faults' = {} /\ UNCHANGED <<frames, owner>>
       /\ FrameOwned(frames, owner)
       /\ Scoped(Pop(calls), frames, parent', owner, vars')
  BY <1>1, <1>2, Restored
<1> HIDE DEF p
<1>11. CASE unwound'  BY <1>11 DEF ScopeInv
<1>12. CASE ~unwound'
  <2>1. p \in 0..Len(Pop(calls)) /\ p \in 0..(Len(calls) - 1)  BY <1>4, <1>5
  <2>2. \A m \in (p + 1)..Len(Pop(calls)) : Pop(calls)[m].op \notin FrameOps
    <3>1. \A m \in (p + 1)..Len(Pop(calls)) : m \in (p + 1)..Len(calls) /\ m \in 1..(Len(calls) - 1)
      BY <1>4, <1>5
    <3> QED  BY <3>1, <1>1, <1>5, <1>12
  <2>3. \A m \in (p + 1)..Len(Pop(calls)) : Pop(calls)[m].op \notin ScopeOps
    BY <2>2, <1>9 DEF ScopeOps, TryOps
  <2>4. Scoped(SubSeq(Pop(calls), 1, p), frames, parent', owner, vars')
    BY <1>5, <1>10, <2>1, <2>3, ScopedCut
  <2>5. SubSeq(Pop(calls), 1, p) = SubSeq(calls, 1, p)  BY <1>2, <2>1, CutOfPop
  <2> QED  BY <1>1, <1>2, <1>10, <2>4, <2>5, StaysScoped
<1> QED  BY <1>11, <1>12

\* hemp_context_free: nothing is left but the hash of the context itself.
LEMMA CloseScopes ==
  EvalInv /\ ScopeInv /\ ~unwound /\ (Close \/ CloseLeave \/ CloseFree) => ScopeInv'
<1> SUFFICES ASSUME EvalInv, ScopeInv, ~unwound, Close \/ CloseLeave \/ CloseFree
             PROVE  ScopeInv'
  OBVIOUS
<1>1. CASE Close
  <2>1. /\ phase = "open" /\ phase' = "closing" /\ faults' = {} /\ calls = <<>>
        /\ UNCHANGED <<vars, frames, parent, owner>>
    BY <1>1 DEF Close, Running, context
  <2>2. /\ Scoped(calls, frames, parent, owner, vars) /\ FrameOwned(frames, owner)
        /\ frames \in Seq(Frames)
    BY <2>1, OpenScope
  <2>3. PICK sc, d : /\ Nest(calls, frames, parent, owner, sc, d)
                     /\ vars = sc[Len(calls)] /\ Len(frames) = d[Len(calls)]
    BY <2>2 DEF Scoped
  <2>4. Len(calls) = 0  BY <2>1
  <2>5. vars = Root /\ Len(frames) = 0  BY <2>3, <2>4 DEF Nest
  <2>6. frames = <<>>  BY <2>2, <2>5, EmptySeq
  <2> QED  BY <2>1, <2>2, <2>5, <2>6 DEF ScopeInv
<1>2. CASE CloseLeave
  <2>1. phase = "closing" /\ frames # <<>>  BY <1>2 DEF CloseLeave
  <2> QED  BY <2>1 DEF ScopeInv
<1>3. CASE CloseFree
  <2> DEFINE left == {h \in Hash : owner[h] \in {"context", "frame"}}
  <2>1. /\ phase = "closing" /\ phase' = "freed" /\ frames = <<>>
        /\ faults' = IF vars = Null THEN {"null hash"}
                     ELSE IF vars \notin left THEN {"double free"} ELSE {}
        /\ owner' = [h \in Hash |-> IF h \in left /\ h # vars THEN owner[h] ELSE "free"]
    BY <1>3 DEF CloseFree
  <2>2. vars = Root /\ FrameOwned(frames, owner)  BY <2>1 DEF ScopeInv
  <2>3. Root \in Hash /\ Root # Null  BY EvaluationAssumption DEF Root, Hash
  <2>4. left = {Root}
    <3>1. Len(frames) = 0  BY <2>1
    <3> QED  BY <2>2, <2>3, <3>1 DEF FrameOwned
  <2> HIDE DEF left
  <2>5. faults' = {}  BY <2>1, <2>2, <2>3, <2>4
  <2>6. \A h \in Hash : owner'[h] = "free"  BY <2>1, <2>2, <2>4
  <2> QED  BY <2>1, <2>5, <2>6 DEF ScopeInv
<1> QED  BY <1>1, <1>2, <1>3

\* Once an error has crossed a call frame the history says so for ever.
LEMMA UnwoundStays == unwound /\ [Next]_evaluation => unwound'
<1> SUFFICES ASSUME unwound, [Next]_evaluation  PROVE unwound'
  OBVIOUS
<1>1. CASE Throw  BY <1>1 DEF Throw, CutTo
<1>2. CASE WithCatch  BY <1>2 DEF WithCatch, CutTo
<1>3. CASE UNCHANGED evaluation  BY <1>3 DEF evaluation
<1>4. CASE Next /\ ~Throw /\ ~WithCatch
  <2>1. CASE Render \/ RenderEnd \/ TestBegin \/ TestEnd \/ Catch
    BY <2>1 DEF Render, RenderEnd, TestBegin, TestEnd, Catch
  <2>2. CASE \E op \in ParamsOps : ParamsBegin(op)  BY <2>2 DEF ParamsBegin
  <2>3. CASE WithBody \/ JustBody \/ WithEnd  BY <2>3 DEF WithBody, JustBody, WithEnd
  <2>4. CASE EachBegin \/ InBegin \/ ItemBegin \/ ApplyBegin
    BY <2>4 DEF EachBegin, InBegin, ItemBegin, ApplyBegin
  <2>5. CASE InEnd \/ CallEnd \/ ApplyBlur  BY <2>5 DEF InEnd, CallEnd, ApplyBlur
  <2>6. CASE Close \/ CloseLeave \/ CloseFree  BY <2>6 DEF Close, CloseLeave, CloseFree
  <2> QED  BY <1>4, <2>1, <2>2, <2>3, <2>4, <2>5, <2>6 DEF Next
<1> QED  BY <1>1, <1>2, <1>3, <1>4

LEMMA ScopeStep == EvalInv /\ ScopeInv /\ [Next]_evaluation => ScopeInv'
<1> SUFFICES ASSUME EvalInv, ScopeInv, [Next]_evaluation  PROVE ScopeInv'
  OBVIOUS
<1>1. CASE unwound
  <2>1. unwound'  BY <1>1, UnwoundStays
  <2> QED  BY <2>1 DEF ScopeInv
<1>2. CASE ~unwound
  <2>1. CASE UNCHANGED evaluation  BY <2>1 DEF evaluation, ScopeInv
  <2>2. CASE Render \/ TestBegin  BY <1>2, <2>2, TryScopes
  <2>3. CASE RenderEnd \/ TestEnd \/ Catch  BY <1>2, <2>3, TryEndScopes
  <2>4. CASE \E op \in ParamsOps : ParamsBegin(op)  BY <1>2, <2>4, ParamsScopes
  <2>5. CASE WithBody \/ JustBody  BY <1>2, <2>5, BodyScopes
  <2>6. CASE WithEnd  BY <1>2, <2>6, WithEndScopes
  <2>7. CASE EachBegin \/ InBegin \/ ItemBegin \/ ApplyBegin  BY <1>2, <2>7, FrameScopes
  <2>8. CASE InEnd \/ CallEnd  BY <1>2, <2>8, EndScopes
  <2>9. CASE ApplyBlur  BY <1>2, <2>9, BlurScopes
  <2>10. CASE Throw  BY <1>2, <2>10, ThrowScopes
  <2>11. CASE WithCatch  BY <1>2, <2>11, WithCatchScopes
  <2>12. CASE Close \/ CloseLeave \/ CloseFree  BY <1>2, <2>12, CloseScopes
  <2> QED
    BY <2>1, <2>2, <2>3, <2>4, <2>5, <2>6, <2>7, <2>8, <2>9, <2>10, <2>11, <2>12 DEF Next
<1> QED  BY <1>1, <1>2

LEMMA ScopeInvariant == Spec => [](EvalInv /\ ScopeInv)
<1>1. EvalInv /\ ScopeInv /\ [Next]_evaluation => (EvalInv /\ ScopeInv)'
  BY EvalStep, ScopeStep
<1>2. Init => EvalInv /\ ScopeInv  BY EvalInit, ScopeInvInit
<1> QED  BY <1>1, <1>2, PTL DEF Spec

-----------------------------------------------------------------------------
(***************************************************************************)
(* While no error has crossed a call frame hemp_context_leave and          *)
(* hemp_context_free find every hash that they free allocated, with and    *)
(* just always have variables to restore, and the context frees every      *)
(* hash it has made.                                                       *)
(***************************************************************************)
THEOREM ContextFreed == Spec => []FreedExactlyOnce
<1>1. ScopeInv => FreedExactlyOnce  BY DEF ScopeInv, FreedExactlyOnce
<1> QED  BY <1>1, ScopeInvariant, PTL

(***************************************************************************)
(* ScopeAt is the function of scopes that the invariant speaks of.         *)
(***************************************************************************)
LEMMA ScopeAtUnfolds ==
  ASSUME NEW f, f = [i \in 0..Len(calls) |->
                       IF i = 0 THEN Root ELSE Inside(calls[i], frames, f[i - 1])]
  PROVE  ScopeAt = [i \in 0..Len(calls) |->
                      IF i = 0 THEN Root ELSE Inside(calls[i], frames, ScopeAt[i - 1])]
BY Zenon DEF ScopeAt, Inside

LEMMA ScopeAtIs ==
  ASSUME calls \in Seq(CallSet), NEW sc, NEW d, Nest(calls, frames, parent, owner, sc, d)
  PROVE  \A i \in 0..Len(calls) : ScopeAt[i] = sc[i]
<1> DEFINE n == Len(calls)
           f == [i \in 0..n |-> sc[i]]
           g == ScopeAt
<1>1. /\ n \in Nat /\ sc[0] = Root
      /\ \A i \in 1..n : sc[i] = Inside(calls[i], frames, sc[i - 1])
  BY DEF Nest, Level
<1> HIDE DEF n, g
<1>2. \A i \in 0..n : f[i] = IF i = 0 THEN Root ELSE Inside(calls[i], frames, f[i - 1])
  <2> SUFFICES ASSUME NEW i \in 0..n, i # 0
               PROVE  f[i] = Inside(calls[i], frames, f[i - 1])
    BY <1>1
  <2>1. i \in 1..n /\ i - 1 \in 0..n  BY <1>1
  <2>2. f[i] = sc[i] /\ f[i - 1] = sc[i - 1]  BY <2>1
  <2> QED  BY <1>1, <2>1, <2>2
<1>3. f = [i \in 0..n |-> IF i = 0 THEN Root ELSE Inside(calls[i], frames, f[i - 1])]
  <2>1. f = [i \in 0..n |-> f[i]]  OBVIOUS
  <2> HIDE DEF f
  <2> QED  BY <1>2, <2>1, Zenon
<1> HIDE DEF f
<1>4. g = [i \in 0..n |-> IF i = 0 THEN Root ELSE Inside(calls[i], frames, g[i - 1])]
  BY <1>3, ScopeAtUnfolds DEF n, g
<1> DEFINE T == {k \in Nat : k <= n => g[k] = sc[k]}
<1>5. T \in SUBSET Nat /\ 0 \in T
  <2>1. 0 \in 0..n  BY <1>1
  <2>2. g[0] = Root  BY <1>4, <2>1
  <2> QED  BY <1>1, <2>2
<1>6. ASSUME NEW k \in T  PROVE k + 1 \in T
  <2> SUFFICES ASSUME k + 1 <= n  PROVE g[k + 1] = sc[k + 1]
    OBVIOUS
  <2>1. k \in Nat /\ k + 1 \in 0..n /\ k + 1 \in 1..n /\ k + 1 # 0 /\ (k + 1) - 1 = k
    BY <1>1
  <2>2. g[k] = sc[k]  BY <1>1, <2>1
  <2>3. g[k + 1] = Inside(calls[k + 1], frames, g[(k + 1) - 1])
    BY <1>4, <2>1, Zenon
  <2> QED  BY <1>1, <2>1, <2>2, <2>3
<1> HIDE DEF T
<1>7. T = Nat  BY <1>5, <1>6, EveryNat
<1>8. ASSUME NEW i \in 0..n  PROVE g[i] = sc[i]
  <2>1. i \in T /\ i <= n  BY <1>1, <1>7
  <2> QED  BY <2>1 DEF T
<1> QED  BY <1>8 DEF n, g

\* The number of frames is the number of the handlers that have one.
LEMMA DepthIs ==
  ASSUME NEW c \in Seq(CallSet), NEW fr, NEW par, NEW own, NEW sc, NEW d,
         Nest(c, fr, par, own, sc, d)
  PROVE  d[Len(c)] = FrameCount(c)
<1> DEFINE n == Len(c)
           Upto(k) == {i \in 1..k : c[i].op \in FrameOps}
           T == {k \in Nat : k <= n => IsFiniteSet(Upto(k)) /\ Cardinality(Upto(k)) = d[k]}
<1>1. n \in Nat /\ d[0] = 0  BY DEF Nest
<1>2. T \in SUBSET Nat /\ 0 \in T
  <2>1. Upto(0) = {}  OBVIOUS
  <2> HIDE DEF Upto
  <2> QED  BY <1>1, <2>1, FS_EmptySet
<1>3. ASSUME NEW k \in T  PROVE k + 1 \in T
  <2> SUFFICES ASSUME k + 1 <= n
               PROVE  IsFiniteSet(Upto(k + 1)) /\ Cardinality(Upto(k + 1)) = d[k + 1]
    OBVIOUS
  <2>1. k \in Nat /\ k + 1 \in 1..n /\ (k + 1) - 1 = k  BY <1>1
  <2>2. IsFiniteSet(Upto(k)) /\ Cardinality(Upto(k)) = d[k]  BY <1>1, <2>1
  <2>3. d[k] \in Nat /\ d[k + 1] = IF c[k + 1].op \in FrameOps THEN d[k] + 1 ELSE d[k]
    BY <2>1 DEF Nest, Level
  <2>4. k + 1 \notin Upto(k)  BY <2>1
  <2>5. Upto(k + 1) = IF c[k + 1].op \in FrameOps THEN Upto(k) \union {k + 1} ELSE Upto(k)
    BY <2>1
  <2> HIDE DEF Upto
  <2> QED  BY <2>2, <2>3, <2>4, <2>5, FS_AddElement
<1> HIDE DEF T
<1>4. T = Nat  BY <1>2, <1>3, EveryNat
<1>5. n \in T /\ n <= n  BY <1>1, <1>4
<1>6. Cardinality(Upto(n)) = d[n]  BY <1>5 DEF T
<1> QED  BY <1>6 DEF FrameCount, FrameSet

(***************************************************************************)
(* Unless an error has crossed a call frame, the variables of the context  *)
(* are those of the innermost active handler, every scope is chained to    *)
(* the one around it, just ends the chain, and the frames are those of the *)
(* calls in progress, however handlers are nested and wherever they throw. *)
(***************************************************************************)
THEOREM ScopesMatch == Spec => []ScopeMatchesCalls
<1>1. ASSUME EvalInv, ScopeInv  PROVE ScopeMatchesCalls
  <2> SUFFICES ASSUME phase = "open", ~unwound
               PROVE  /\ Len(frames) = Cardinality(FrameCalls)
                      /\ vars = ScopeAt[Len(calls)]
                      /\ \A i \in 1..Len(calls) :
                           LET c == calls[i]
                               around == ScopeAt[i - 1]
                           IN  /\ c.op = "with" => parent[c.hash] = around
                               /\ c.op = "just" => parent[c.hash] = Null
                               /\ i \in FrameCalls =>
                                    /\ c.frame \in 1..Len(frames)
                                    /\ parent[frames[c.frame].vars] = around
                                    /\ c.op = "args" =>
                                         parent[frames[c.frame].noms] = frames[c.frame].vars
    BY DEF ScopeMatchesCalls
  <2>1. /\ calls \in Seq(CallSet) /\ frames \in Seq(Frames) /\ Len(calls) \in Nat
        /\ Scoped(calls, frames, parent, owner, vars)
    BY <1>1, OpenScope
  <2>2. PICK sc, d : /\ Nest(calls, frames, parent, owner, sc, d)
                     /\ vars = sc[Len(calls)] /\ Len(frames) = d[Len(calls)]
    BY <2>1 DEF Scoped
  <2>3. \A i \in 0..Len(calls) : ScopeAt[i] = sc[i]  BY <2>1, <2>2, ScopeAtIs
  <2>4. Len(frames) = Cardinality(FrameCalls)
    BY <2>1, <2>2, DepthIs DEF FrameCount, FrameSet, FrameCalls
  <2>5. Len(calls) \in 0..Len(calls)  BY <2>1
  <2>6. ASSUME NEW i \in 1..Len(calls)
        PROVE  /\ calls[i].op = "with" => parent[calls[i].hash] = ScopeAt[i - 1]
               /\ calls[i].op = "just" => parent[calls[i].hash] = Null
               /\ i \in FrameCalls =>
                    /\ calls[i].frame \in 1..Len(frames)
                    /\ parent[frames[calls[i].frame].vars] = ScopeAt[i - 1]
                    /\ calls[i].op = "args" =>
                         parent[frames[calls[i].frame].noms] = frames[calls[i].frame].vars
    <3>1. i - 1 \in 0..Len(calls) /\ i \in 0..Len(calls)  BY <2>1
    <3>2. ScopeAt[i - 1] = sc[i - 1]  BY <2>3, <3>1
    <3>3. Level(calls[i], frames, parent, sc[i - 1], sc[i], d[i - 1], d[i])
      BY <2>2 DEF Nest
    <3>4. calls[i].op \in FrameOps => calls[i].frame = d[i] /\ calls[i].frame \in 1..Len(frames)
      <4>1. \A j \in i..Len(calls) : d[i] <= d[j]  BY <2>1, <2>2, <3>1, DepthGrows
      <4>2. Len(calls) \in i..Len(calls)  BY <2>1
      <4>3. d[i] <= Len(frames)  BY <2>2, <4>1, <4>2
      <4>4. /\ d[i - 1] \in Nat /\ d[i] \in Nat
            /\ calls[i].op \in FrameOps => d[i] = d[i - 1] + 1
        BY <2>1, <2>2, DepthSteps
      <4>5. calls[i].op \in FrameOps => calls[i].frame = d[i]  BY <3>3 DEF Level
      <4>6. Len(frames) \in Nat  BY <2>1
      <4> QED  BY <4>3, <4>4, <4>5, <4>6
    <3>5. i \in FrameCalls => calls[i].op \in FrameOps  BY DEF FrameCalls
    <3> QED  BY <3>2, <3>3, <3>4, <3>5 DEF Level
  <2> QED  BY <2>2, <2>3, <2>4, <2>5, <2>6
<1> QED  BY <1>1, ScopeInvariant, PTL
=============================================================================
