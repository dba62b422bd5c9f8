-------------------------- MODULE Documents_proofs --------------------------
(***************************************************************************)
(* Documents, and the memory that a context evaluates them in.             *)
(*                                                                         *)
(* Part one, about Documents: what an attempt that failed has left of a    *)
(* document never gets into the answer of a later one, for any dialects    *)
(* and texts, any number of documents, and any depth of documents that     *)
(* evaluate others.  A document only grows: its text, its fragments and    *)
(* its tree, once they are there, stay.  Whole says what a document that   *)
(* has got so far says of its text; Staged says how far the document of a  *)
(* call must have got at the place where the call is.  Only the innermost  *)
(* call changes a document, and calls around it wait in their evaluation,  *)
(* which nothing that a document may grow by disturbs.                     *)
(*                                                                         *)
(* Part two, about Storage: texts and lists hold what was put into them,   *)
(* nothing is written past the end of their memory, and all of it is freed *)
(* with the context, once, for any strings, values, places and sizes of    *)
(* pools.  TextHolds and ListHolds say how memory shows a sequence, and    *)
(* every operation is shown to take a memory that shows a sequence to one  *)
(* that shows the sequence that is meant.  PoolOK and PoolFilled say which *)
(* addresses of the slabs of a pool are in use: those before the next, and *)
(* all of them, so that the walk of hemp_pool_each() finds these alone.    *)
(***************************************************************************)
EXTENDS Documents, Storage, TLAPS, SequenceTheorems, WellFoundedInduction

CallSet == [op : Ops, dialect : Dialects, doc : Nat, own : BOOLEAN, stage : Stages, inner : Nat]

EndOf(doc) == Ends[doc.dialect][doc.text]
Succeeds(end) == end.scan = "ok" /\ end.parse = "ok" /\ end.run = "ok"

\* What a document has got agrees with its text.
Whole(doc) ==
  /\ doc.fragments = "none" => doc.tags = 0 /\ ~doc.tree
  /\ doc.fragments # "none" => doc.text # None
  /\ doc.fragments = "some" => ~doc.tree /\ EndOf(doc).scan = "late"
  /\ doc.fragments = "all" => EndOf(doc).scan = "ok"
  /\ doc.tree => EndOf(doc).parse = "ok"

\* How far the document of a call has got.
Staged(stage, doc) ==
  /\ stage \in {"read", "scan"} => doc.fragments = "none"
  /\ stage = "scan" => doc.text # None
  /\ stage = "parse" => doc.fragments # "none" /\ ~doc.tree
  /\ stage \in {"context", "run", "results"} => doc.tree
  /\ stage = "results" => EndOf(doc).run = "ok"

Grows(before, after) ==
  /\ after.dialect = before.dialect
  /\ before.text # None => after.text = before.text
  /\ before.fragments # "none" => after.fragments = before.fragments
  /\ before.tree => after.tree

DocsOK == /\ docs \in Seq(DocumentOf)
          /\ \A d \in 1..Len(docs) : Whole(docs[d])

CallsOK == /\ calls \in Seq(CallSet)
           /\ \A i \in 1..Len(calls) : calls[i].doc \in 1..Len(docs)
           /\ \A i \in 1..Len(calls) : i < Len(calls) => calls[i].stage = "run"
           /\ state = "live" => \A i \in 1..Len(calls) : Staged(calls[i].stage, docs[calls[i].doc])

AnswersOK == /\ answers \subseteq (1..Len(docs)) \X {"output", "error"}
             /\ \A a \in answers : /\ docs[a[1]].text # None
                                   /\ a[2] = "output" <=> Succeeds(EndOf(docs[a[1]]))

\* What else the steps read.
RestOK == /\ files \in [Files -> FileTexts]
          /\ docsHash \in [Sources -> 0..Len(docs)]
          /\ printed \in 0..Len(docs)

DocInv == DocsOK /\ CallsOK /\ AnswersOK /\ RestOK

\* Every document has grown, or stayed; others may have been made.
DocsGrow == /\ Len(docs) <= Len(docs')
            /\ \A d \in 1..Len(docs) : Grows(docs[d], docs'[d])

-----------------------------------------------------------------------------
(***************************************************************************)
(* What growing leaves alone.                                              *)
(***************************************************************************)

\* A document whose text is known stays what it was as to how it ends, and a call that
\* waits in its evaluation still has its tree.
LEMMA GrowsKeeps ==
  ASSUME NEW before \in DocumentOf, NEW after \in DocumentOf, Grows(before, after)
  PROVE  /\ before.text # None => after.text # None /\ EndOf(after) = EndOf(before)
         /\ Staged("run", before) => Staged("run", after)
  BY DEF Grows, Staged, EndOf, DocumentOf

LEMMA GrowsSame ==
  ASSUME NEW doc \in DocumentOf
  PROVE  Grows(doc, doc)
  BY DEF Grows

\* One document gets further.
LEMMA ChangeGrows ==
  ASSUME DocsOK, NEW k \in 1..Len(docs), NEW after \in DocumentOf, Whole(after),
         Grows(docs[k], after), docs' = [docs EXCEPT ![k] = after]
  PROVE  DocsOK' /\ DocsGrow /\ Len(docs') = Len(docs) /\ docs'[k] = after
<1>1. /\ docs' \in Seq(DocumentOf)
      /\ Len(docs') = Len(docs)
      /\ \A d \in 1..Len(docs) : docs'[d] = IF d = k THEN after ELSE docs[d]
  BY ExceptSeq DEF DocsOK
<1>2. \A d \in 1..Len(docs) : docs[d] \in DocumentOf
  BY ElementOfSeq DEF DocsOK
<1>3. \A d \in 1..Len(docs) : Grows(docs[d], docs'[d])
  BY <1>1, <1>2, GrowsSame
<1>4. Len(docs) \in Nat
  BY LenProperties DEF DocsOK
<1> QED  BY <1>1, <1>3, <1>4 DEF DocsOK, DocsGrow

LEMMA SameGrows ==
  ASSUME DocsOK, UNCHANGED docs
  PROVE  DocsOK' /\ DocsGrow
<1>1. \A d \in 1..Len(docs) : docs[d] \in DocumentOf
  BY ElementOfSeq DEF DocsOK
<1>2. Len(docs) \in Nat
  BY LenProperties DEF DocsOK
<1> QED  BY <1>1, <1>2, GrowsSame DEF DocsOK, DocsGrow

\* Answers stay what they were, and one more is right if it agrees with its text.
LEMMA AnswersStay ==
  ASSUME DocsOK, DocsOK', DocsGrow, AnswersOK, UNCHANGED answers
  PROVE  AnswersOK'
<1>1. Len(docs) \in Nat /\ Len(docs') \in Nat
  BY LenProperties DEF DocsOK
<1>2. 1..Len(docs) \subseteq 1..Len(docs')
  BY <1>1 DEF DocsGrow
<1>3. ASSUME NEW a \in answers
      PROVE  docs'[a[1]].text # None /\ EndOf(docs'[a[1]]) = EndOf(docs[a[1]])
  <2>1. a[1] \in 1..Len(docs)
    BY DEF AnswersOK
  <2>2. docs[a[1]] \in DocumentOf /\ docs'[a[1]] \in DocumentOf
    BY <2>1, <1>2, ElementOfSeq DEF DocsOK
  <2> QED  BY <2>1, <2>2, GrowsKeeps DEF DocsGrow, AnswersOK
<1> QED  BY <1>2, <1>3 DEF AnswersOK

LEMMA AnswerRight ==
  ASSUME DocsOK, DocsOK', DocsGrow, AnswersOK,
         NEW d \in 1..Len(docs), NEW how \in {"output", "error"},
         answers' = answers \union {<<d, how>>},
         docs[d].text # None,
         how = "output" <=> Succeeds(EndOf(docs[d]))
  PROVE  AnswersOK'
<1>1. Len(docs) \in Nat /\ Len(docs') \in Nat
  BY LenProperties DEF DocsOK
<1>2. 1..Len(docs) \subseteq 1..Len(docs')
  BY <1>1 DEF DocsGrow
<1>3. ASSUME NEW e \in 1..Len(docs), docs[e].text # None
      PROVE  docs'[e].text # None /\ EndOf(docs'[e]) = EndOf(docs[e])
  <2>1. docs[e] \in DocumentOf /\ docs'[e] \in DocumentOf
    BY <1>2, ElementOfSeq DEF DocsOK
  <2> QED  BY <1>3, <2>1, GrowsKeeps DEF DocsGrow
<1>4. ASSUME NEW a \in answers'
      PROVE  /\ a \in (1..Len(docs)) \X {"output", "error"}
             /\ docs[a[1]].text # None
             /\ a[2] = "output" <=> Succeeds(EndOf(docs[a[1]]))
  <2>1. CASE a \in answers  BY <2>1 DEF AnswersOK
  <2>2. CASE a = <<d, how>>  BY <2>2
  <2> QED  BY <2>1, <2>2
<1>5. \A a \in answers' : a[1] \in 1..Len(docs)
  BY <1>4
<1> QED  BY <1>2, <1>3, <1>4, <1>5 DEF AnswersOK

-----------------------------------------------------------------------------
(***************************************************************************)
(* What the calls may do meanwhile: the innermost one goes to another      *)
(* place, returns, or stays where the program ends.                        *)
(***************************************************************************)
LEMMA TopFacts ==
  ASSUME DocsOK, CallsOK, calls # <<>>
  PROVE  /\ Len(calls) \in 1..Len(calls) /\ Len(calls) \in Nat
         /\ Top \in CallSet /\ Top.doc \in 1..Len(docs) /\ Doc \in DocumentOf /\ Whole(Doc)
         /\ Doc = docs[Top.doc] /\ End = EndOf(Doc)
         /\ state = "live" => Staged(Top.stage, Doc)
<1>1. Len(calls) \in Nat \ {0}
  BY EmptySeq DEF CallsOK
<1>2. Len(calls) \in 1..Len(calls)
  BY <1>1
<1>3. Top \in CallSet
  BY <1>2, ElementOfSeq DEF CallsOK, Top
<1>4. Top.doc \in 1..Len(docs)
  BY <1>2 DEF CallsOK, Top
<1>5. Doc \in DocumentOf
  BY <1>4, ElementOfSeq DEF DocsOK, Doc
<1> QED  BY <1>1, <1>2, <1>3, <1>4, <1>5 DEF CallsOK, DocsOK, Top, Doc, End, EndOf

\* The calls around the innermost one wait: their documents may grow.
LEMMA CallsWait ==
  ASSUME DocsOK, DocsOK', DocsGrow, CallsOK, state = "live",
         NEW i \in 1..Len(calls), calls[i].stage = "run"
  PROVE  Staged("run", docs'[calls[i].doc]) /\ calls[i].doc \in 1..Len(docs')
<1>1. Len(docs) \in Nat /\ Len(docs') \in Nat
  BY LenProperties DEF DocsOK
<1>2. calls[i].doc \in 1..Len(docs) /\ calls[i].doc \in 1..Len(docs')
  BY <1>1 DEF CallsOK, DocsGrow
<1>3. docs[calls[i].doc] \in DocumentOf /\ docs'[calls[i].doc] \in DocumentOf
  BY <1>2, ElementOfSeq DEF DocsOK
<1>4. Staged("run", docs[calls[i].doc])
  BY DEF CallsOK
<1> QED  BY <1>2, <1>3, <1>4, GrowsKeeps DEF DocsGrow

LEMMA TopGoes ==
  ASSUME DocsOK, DocsOK', DocsGrow, CallsOK, state = "live", calls # <<>>,
         NEW stage \in Stages, Goto(stage), Staged(stage, docs'[Top.doc])
  PROVE  CallsOK'
<1> DEFINE n == Len(calls)
           next == [Top EXCEPT !.stage = stage]
<1>1. n \in 1..n /\ n \in Nat /\ Top \in CallSet /\ Top.doc \in 1..Len(docs)
  BY TopFacts
<1>2. Len(docs) \in Nat /\ Len(docs') \in Nat /\ Len(docs) <= Len(docs')
  BY LenProperties DEF DocsOK, DocsGrow
<1>3. next \in CallSet /\ next.stage = stage /\ next.doc = Top.doc
  BY <1>1 DEF CallSet
<1>4. calls' = [calls EXCEPT ![n] = next]
  BY DEF Goto, Top
<1>5. /\ calls' \in Seq(CallSet)
      /\ Len(calls') = n
      /\ \A i \in 1..n : calls'[i] = IF i = n THEN next ELSE calls[i]
  <2> HIDE DEF next
  <2> QED  BY <1>1, <1>3, <1>4, ExceptSeq DEF CallsOK
<1>6. ASSUME NEW i \in 1..n
      PROVE  /\ calls'[i].doc \in 1..Len(docs')
             /\ i < n => calls'[i].stage = "run"
             /\ Staged(calls'[i].stage, docs'[calls'[i].doc])
  <2> HIDE DEF next
  <2>1. CASE i = n
    <3>1. calls'[i] = next
      BY <2>1, <1>5
    <3>2. Top.doc \in 1..Len(docs')
      BY <1>1, <1>2
    <3> QED  BY <2>1, <3>1, <3>2, <1>3
  <2>2. CASE i # n
    <3>1. calls'[i] = calls[i] /\ calls[i].stage = "run"
      BY <2>2, <1>1, <1>5 DEF CallsOK
    <3> QED  BY <3>1, CallsWait
  <2> QED  BY <2>1, <2>2
<1> HIDE DEF next
<1> QED  BY <1>5, <1>6 DEF CallsOK

LEMMA CutFacts ==
  ASSUME NEW S, NEW c \in Seq(S), NEW n \in 0..Len(c)
  PROVE  /\ SubSeq(c, 1, n) \in Seq(S)
         /\ Len(SubSeq(c, 1, n)) = n
         /\ \A i \in 1..n : SubSeq(c, 1, n)[i] = c[i]
<1>1. n \in Int /\ 1 \in Int /\ Len(c) \in Nat  OBVIOUS
<1>2. \A i \in 1..n : c[i] \in S  BY <1>1, ElementOfSeq
<1> QED  BY <1>1, <1>2, SubSeqProperties

LEMMA TopReturns ==
  ASSUME DocsOK, DocsOK', DocsGrow, CallsOK, state = "live", calls # <<>>, Return
  PROVE  CallsOK'
<1> DEFINE n == Len(calls)
<1>1. n \in 1..n /\ n \in Nat
  BY TopFacts
<1>2. n - 1 \in 0..n
  BY <1>1
<1>3. /\ calls' \in Seq(CallSet)
      /\ Len(calls') = n - 1
      /\ \A i \in 1..(n - 1) : calls'[i] = calls[i]
  BY <1>2, CutFacts DEF Return, CallsOK
<1>4. ASSUME NEW i \in 1..(n - 1)
      PROVE  /\ calls[i].doc \in 1..Len(docs')
             /\ calls[i].stage = "run"
             /\ Staged(calls[i].stage, docs'[calls[i].doc])
  <2>1. i \in 1..n /\ i < n
    BY <1>1
  <2>2. calls[i].stage = "run"
    BY <2>1 DEF CallsOK
  <2> QED  BY <2>1, <2>2, CallsWait
<1> QED  BY <1>3, <1>4 DEF CallsOK

LEMMA CallsStop ==
  ASSUME DocsOK, DocsOK', DocsGrow, CallsOK, UNCHANGED calls, state' # "live"
  PROVE  CallsOK'
<1>1. Len(docs) \in Nat /\ Len(docs') \in Nat /\ Len(docs) <= Len(docs')
  BY LenProperties DEF DocsOK, DocsGrow
<1> QED  BY <1>1 DEF CallsOK

\* A document asks for another one, or a program does.
LEMMA EnterStacks ==
  ASSUME DocsOK, DocsOK', DocsGrow, CallsOK, state = "live", UNCHANGED state,
         NEW op \in Ops, NEW dialect \in Dialects, NEW d \in 1..Len(docs'), NEW own \in BOOLEAN,
         calls # <<>> => Top.stage = "run",
         Enter(op, dialect, d, own)
  PROVE  CallsOK'
<1> DEFINE n == Len(calls)
           call == [op |-> op, dialect |-> dialect, doc |-> d, own |-> own,
                    stage |-> "tree", inner |-> 0]
           waiting == [i \in 1..n |-> IF i = n THEN [calls[i] EXCEPT !.inner = @ + 1] ELSE calls[i]]
<1>1. n \in Nat /\ \A i \in 1..n : calls[i] \in CallSet
  BY LenProperties, ElementOfSeq DEF CallsOK
<1>2. ASSUME NEW i \in 1..n
      PROVE  waiting[i] \in CallSet /\ waiting[i].doc = calls[i].doc /\ waiting[i].stage = "run"
  <2>1. calls[i].stage = "run"
    <3>1. CASE i = n
      <4>1. calls # <<>>
        BY <3>1, EmptySeq
      <4> QED  BY <3>1, <4>1 DEF Top
    <3>2. CASE i # n  BY <3>2, <1>1 DEF CallsOK
    <3> QED  BY <3>1, <3>2
  <2> QED  BY <1>1, <2>1 DEF CallSet
<1>3. waiting \in Seq(CallSet) /\ Len(waiting) = n
  BY <1>1, <1>2
<1>4. call \in CallSet /\ call.doc = d /\ call.stage = "tree"
  <2>1. d \in Nat
    BY LenProperties DEF DocsOK
  <2> QED  BY <2>1 DEF CallSet, Stages
<1>5. calls' = Append(waiting, call)
  BY DEF Enter
<1> HIDE DEF waiting, call
<1>6. /\ calls' \in Seq(CallSet)
      /\ Len(calls') = n + 1
      /\ \A i \in 1..n : calls'[i] = waiting[i]
      /\ calls'[n + 1] = call
  BY <1>3, <1>4, <1>5, AppendProperties
<1>7. Staged("tree", docs'[d])
  BY DEF Staged
<1>8. ASSUME NEW i \in 1..(n + 1)
      PROVE  /\ calls'[i].doc \in 1..Len(docs')
             /\ i < n + 1 => calls'[i].stage = "run"
             /\ Staged(calls'[i].stage, docs'[calls'[i].doc])
  <2>1. CASE i = n + 1
    BY <2>1, <1>1, <1>4, <1>6, <1>7
  <2>2. CASE i # n + 1
    <3>1. i \in 1..n
      BY <2>2, <1>1
    <3>2. calls'[i].doc = calls[i].doc /\ calls'[i].stage = "run"
      BY <3>1, <1>2, <1>6
    <3>3. calls[i].stage = "run"
      <4>1. CASE i = n
        <5>1. calls # <<>>
          BY <3>1, EmptySeq
        <5> QED  BY <4>1, <5>1 DEF Top
      <4>2. CASE i # n  BY <3>1, <4>2, <1>1 DEF CallsOK
      <4> QED  BY <4>1, <4>2
    <3> QED  BY <3>1, <3>2, <3>3, CallsWait
  <2> QED  BY <2>1, <2>2
<1> QED  BY <1>6, <1>8 DEF CallsOK

\* A document that is freed is left where it was in every other respect.
LEMMA FreedStays ==
  ASSUME NEW doc \in DocumentOf, NEW live \in BOOLEAN
  PROVE  LET after == [doc EXCEPT !.live = live]
         IN  /\ after \in DocumentOf
             /\ Grows(doc, after)
             /\ Whole(doc) => Whole(after)
             /\ \A stage \in Stages : Staged(stage, doc) => Staged(stage, after)
  BY DEF DocumentOf, Grows, Whole, Staged, EndOf

-----------------------------------------------------------------------------
(***************************************************************************)
(* The operations, one by one.                                             *)
(***************************************************************************)
LEMMA InitHolds == Init => DocInv
<1> SUFFICES ASSUME Init  PROVE DocInv
  OBVIOUS
<1>1. DocsOK
  BY EmptySeq DEF Init, DocsOK
<1>2. CallsOK
  BY EmptySeq DEF Init, CallsOK
<1>3. AnswersOK /\ RestOK
  BY EmptySeq DEF Init, AnswersOK, RestOK
<1> QED  BY <1>1, <1>2, <1>3 DEF DocInv

\* The files, the hash and what was printed, when nothing of it changes.
LEMMA RestStays ==
  ASSUME DocsOK, DocsOK', DocsGrow, RestOK, UNCHANGED <<files, docsHash>>,
         printed' \in 0..Len(docs)
  PROVE  RestOK'
<1>1. Len(docs) \in Nat /\ Len(docs') \in Nat /\ Len(docs) <= Len(docs')
  BY LenProperties DEF DocsOK, DocsGrow
<1> QED  BY <1>1 DEF RestOK

LEMMA TreeHolds ==
  ASSUME DocInv, Tree
  PROVE  DocInv'
<1> USE DEF DocInv
<1>1. DocsOK' /\ DocsGrow
  BY SameGrows DEF Tree
<1>2. AnswersOK'
  BY <1>1, AnswersStay DEF Tree
<1>3. RestOK'
  BY <1>1, RestStays DEF Tree, RestOK
<1>4. state = "live" /\ calls # <<>> /\ Top.doc \in 1..Len(docs)
      /\ docs'[Top.doc] = Doc /\ Doc \in DocumentOf
  BY TopFacts DEF Tree, At
<1> DEFINE stage == IF Doc.tree THEN "context" ELSE IF Doc.fragments = "none" THEN "read" ELSE "parse"
<1>5. stage \in Stages /\ Staged(stage, Doc)
  BY DEF Stages, Staged
<1>6. Goto(stage)
  BY DEF Tree
<1> HIDE DEF stage
<1>7. CallsOK'
  BY <1>1, <1>4, <1>5, <1>6, TopGoes
<1> QED  BY <1>1, <1>2, <1>3, <1>7

\* A source is read into a text.
LEMMA ContentsAreTexts ==
  ASSUME RestOK, NEW source \in Sources, NEW t \in Contents(source)
  PROVE  t \in Texts /\ t # None
<1>1. t \in Texts
  <2>1. CASE source.scheme = "text"
    BY <2>1 DEF Sources, Contents
  <2>2. CASE source.scheme = "file"
    <3>1. source.name \in Files
      BY <2>2 DEF Sources
    <3>2. files[source.name] \in Texts
      BY <3>1, DocumentsAssumption DEF RestOK
    <3> QED  BY <2>2, <3>2 DEF Contents
  <2>3. source.scheme = "text" \/ source.scheme = "file"
    BY DEF Sources
  <2> QED  BY <2>1, <2>2, <2>3
<1> QED  BY <1>1, DocumentsAssumption

LEMMA ReadHolds ==
  ASSUME DocInv, Read
  PROVE  DocInv'
<1> USE DEF DocInv
<1>1. /\ state = "live" /\ calls # <<>> /\ Top.doc \in 1..Len(docs)
      /\ Doc = docs[Top.doc] /\ Doc \in DocumentOf /\ Whole(Doc) /\ Doc.fragments = "none"
  BY TopFacts DEF Read, At, Staged
<1>2. DocsOK' /\ DocsGrow /\ docs'[Top.doc].fragments = "none" /\ docs'[Top.doc].text # None
  <2>1. CASE Doc.text # None
    BY <2>1, <1>1, SameGrows DEF Read
  <2>2. CASE Doc.text = None
    <3>1. PICK t \in Contents(Doc.source) : Change("text", t)
      BY <2>2 DEF Read
    <3> DEFINE after == [Doc EXCEPT !.text = t]
    <3>2. Doc.source \in Sources
      BY <1>1 DEF DocumentOf
    <3>3. t \in Texts /\ t # None
      BY <3>2, ContentsAreTexts
    <3>4. docs' = [docs EXCEPT ![Top.doc] = after]
      BY <3>1, <1>1 DEF Change
    <3>5. after \in DocumentOf /\ after.fragments = "none" /\ after.text # None
      BY <1>1, <3>3 DEF DocumentOf
    <3>6. Whole(after) /\ Grows(Doc, after)
      BY <1>1, <2>2, <3>3 DEF DocumentOf, Whole, Grows
    <3> HIDE DEF after
    <3> QED  BY <1>1, <3>4, <3>5, <3>6, ChangeGrows
  <2> QED  BY <2>1, <2>2
<1>3. AnswersOK'
  BY <1>2, AnswersStay DEF Read
<1>4. RestOK'
  BY <1>2, RestStays DEF Read, RestOK
<1>5. "scan" \in Stages /\ Staged("scan", docs'[Top.doc])
  BY <1>2 DEF Stages, Staged
<1>6. CallsOK'
  BY <1>1, <1>2, <1>5, TopGoes DEF Read
<1> QED  BY <1>2, <1>3, <1>4, <1>6

\* An error is an answer that is right if the text of the document is one that fails.
LEMMA ThrowAnswers ==
  ASSUME DocsOK, DocsOK', DocsGrow, CallsOK, AnswersOK, state = "live", calls # <<>>,
         Doc.text # None, ~Succeeds(End), Throw
  PROVE  CallsOK' /\ AnswersOK'
<1>1. CASE Top.op = "print"
  <2>1. state' = "uncaught" /\ UNCHANGED <<calls, answers>>
    BY <1>1 DEF Throw
  <2> QED  BY <2>1, AnswersStay, CallsStop
<1>2. CASE Top.op # "print"
  <2>1. Return /\ Answer("error")
    BY <1>2 DEF Throw
  <2>2. Top.doc \in 1..Len(docs) /\ Doc = docs[Top.doc] /\ End = EndOf(Doc)
    BY TopFacts
  <2>3. AnswersOK'
    BY <2>1, <2>2, AnswerRight DEF Answer
  <2> QED  BY <2>1, <2>3, TopReturns
<1> QED  BY <1>1, <1>2

\* What the constant says of a text.
LEMMA EndsAreMeanings ==
  ASSUME NEW doc \in DocumentOf, doc.text # None
  PROVE  EndOf(doc) \in Meanings
  BY DocumentsAssumption DEF DocumentOf, EndOf

LEMMA ChangedTwice ==
  ASSUME NEW f, NEW k, NEW a, NEW b
  PROVE  [[f EXCEPT ![k] = a] EXCEPT ![k] = b] = [f EXCEPT ![k] = b]
<1> DEFINE g == [f EXCEPT ![k] = a]
<1>1. g = [x \in DOMAIN f |-> IF x = k THEN a ELSE f[x]]
  BY Zenon
<1>2. [g EXCEPT ![k] = b] = [x \in DOMAIN g |-> IF x = k THEN b ELSE g[x]]
  BY Zenon
<1>3. [f EXCEPT ![k] = b] = [x \in DOMAIN f |-> IF x = k THEN b ELSE f[x]]
  BY Zenon
<1> HIDE DEF g
<1> QED  BY <1>1, <1>2, <1>3

LEMMA ScanHolds ==
  ASSUME DocInv, Scan
  PROVE  DocInv'
<1> USE DEF DocInv
<1>1. /\ state = "live" /\ calls # <<>> /\ Top.doc \in 1..Len(docs)
      /\ Doc = docs[Top.doc] /\ Doc \in DocumentOf /\ Whole(Doc) /\ End = EndOf(Doc)
      /\ Doc.fragments = "none" /\ Doc.text # None /\ ~Doc.tree
  BY TopFacts DEF Scan, At, Staged, Whole
<1>2. UNCHANGED <<files, docsHash, printed>>
  BY DEF Scan
<1>3. SUFFICES DocsOK' /\ DocsGrow /\ CallsOK' /\ AnswersOK'
  BY <1>2, RestStays DEF RestOK
<1>4. CASE End.scan = "ok"
  <2>1. Change("fragments", "all") /\ Goto("parse") /\ UNCHANGED <<answers, state>>
    BY <1>4 DEF Scan
  <2> DEFINE after == [Doc EXCEPT !.fragments = "all"]
  <2>2. docs' = [docs EXCEPT ![Top.doc] = after]
    BY <2>1, <1>1 DEF Change
  <2>3. after \in DocumentOf /\ Whole(after) /\ Grows(Doc, after) /\ Staged("parse", after)
    BY <1>1, <1>4 DEF DocumentOf, Whole, Grows, EndOf, Staged
  <2> HIDE DEF after
  <2>4. DocsOK' /\ DocsGrow /\ docs'[Top.doc] = after
    BY <1>1, <2>2, <2>3, ChangeGrows
  <2>5. AnswersOK'
    BY <2>1, <2>4, AnswersStay
  <2>6. "parse" \in Stages
    BY DEF Stages
  <2>7. CallsOK'
    BY <1>1, <2>1, <2>3, <2>4, <2>6, TopGoes
  <2> QED  BY <2>4, <2>5, <2>7
<1>5. CASE End.scan = "early"
  <2>1. Throw /\ UNCHANGED docs
    BY <1>5 DEF Scan
  <2>2. ~Succeeds(End)
    BY <1>5 DEF Succeeds
  <2>3. DocsOK' /\ DocsGrow
    BY <2>1, SameGrows
  <2> QED  BY <1>1, <2>1, <2>2, <2>3, ThrowAnswers
<1>6. CASE End.scan = "late"
  <2>1. Throw /\ docs' = [docs EXCEPT ![Top.doc].fragments = "some", ![Top.doc].tags = @ + 1]
    BY <1>6 DEF Scan
  <2> DEFINE after == [Doc EXCEPT !.fragments = "some", !.tags = @ + 1]
  <2>2. docs' = [docs EXCEPT ![Top.doc] = after]
    <3>1. Top.doc \in DOMAIN docs
      BY <1>1, LenProperties DEF DocsOK
    <3>2. docs = [d \in DOMAIN docs |-> docs[d]]
      BY LenProperties DEF DocsOK
    <3> DEFINE torn == [Doc EXCEPT !.fragments = "some"]
               first == [docs EXCEPT ![Top.doc] = torn]
    <3>3. docs' = [first EXCEPT ![Top.doc].tags = @ + 1]
      BY <2>1, <1>1
    <3>4. first[Top.doc] = torn
      BY <3>1
    <3>5. docs' = [first EXCEPT ![Top.doc] = [torn EXCEPT !.tags = @ + 1]]
      <4> HIDE DEF torn, first
      <4> QED  BY <3>3, <3>4
    <3>6. [torn EXCEPT !.tags = @ + 1] = after
      BY <1>1 DEF DocumentOf
    <3>7. docs' = [first EXCEPT ![Top.doc] = after]
      BY <3>5, <3>6
    <3> HIDE DEF after, torn
    <3> QED  BY <3>7, ChangedTwice
  <2>3. after \in DocumentOf /\ Whole(after) /\ Grows(Doc, after)
    <3>1. Doc.tags + 1 \in Nat
      BY <1>1 DEF DocumentOf
    <3>2. after \in DocumentOf
      BY <1>1, <3>1 DEF DocumentOf
    <3>3. /\ after.fragments = "some" /\ after.dialect = Doc.dialect
          /\ after.text = Doc.text /\ after.tree = Doc.tree
      BY <1>1 DEF DocumentOf
    <3> HIDE DEF after
    <3> QED  BY <1>1, <1>6, <3>2, <3>3 DEF Whole, Grows, EndOf
  <2> HIDE DEF after
  <2>4. DocsOK' /\ DocsGrow
    BY <1>1, <2>2, <2>3, ChangeGrows
  <2>5. ~Succeeds(End)
    BY <1>6 DEF Succeeds
  <2> QED  BY <1>1, <2>1, <2>4, <2>5, ThrowAnswers
<1>7. CASE End.scan = "fatal"
  <2>1. state' = "fatal" /\ UNCHANGED <<docs, calls, answers>>
    BY <1>7 DEF Scan
  <2>2. DocsOK' /\ DocsGrow
    BY <2>1, SameGrows
  <2> QED  BY <2>1, <2>2, AnswersStay, CallsStop
<1>8. End.scan \in ScanEnds
  BY <1>1, EndsAreMeanings DEF Meanings
<1> QED  BY <1>4, <1>5, <1>6, <1>7, <1>8 DEF ScanEnds

LEMMA ParseHolds ==
  ASSUME DocInv, Parse
  PROVE  DocInv'
<1> USE DEF DocInv
<1>1. /\ state = "live" /\ calls # <<>> /\ Top.doc \in 1..Len(docs)
      /\ Doc = docs[Top.doc] /\ Doc \in DocumentOf /\ Whole(Doc) /\ End = EndOf(Doc)
      /\ Doc.fragments # "none" /\ Doc.text # None /\ ~Doc.tree
  BY TopFacts DEF Parse, At, Staged, Whole
<1>2. UNCHANGED <<files, docsHash, printed>>
  BY DEF Parse
<1>3. SUFFICES DocsOK' /\ DocsGrow /\ CallsOK' /\ AnswersOK'
  BY <1>2, RestStays DEF RestOK
<1>4. CASE ParseSome
  <2>1. Doc.fragments = "some" /\ UNCHANGED docs
    BY <1>4 DEF ParseSome
  <2>2. ~Succeeds(End)
    BY <1>1, <2>1 DEF Whole, Succeeds
  <2>3. DocsOK' /\ DocsGrow
    BY <2>1, SameGrows
  <2>4. CASE Throw
    BY <1>1, <2>2, <2>3, <2>4, ThrowAnswers
  <2>5. CASE state' = "off the list" /\ UNCHANGED <<calls, answers>>
    BY <2>3, <2>5, AnswersStay, CallsStop
  <2> QED  BY <1>4, <2>3, <2>4, <2>5 DEF ParseSome
<1>5. CASE ParseAll
  <2>1. Doc.fragments = "all"
    BY <1>5 DEF ParseAll
  <2>2. CASE End.parse = "ok"
    <3>1. Change("tree", TRUE) /\ Goto("context") /\ UNCHANGED <<answers, state>>
      BY <1>5, <2>2 DEF ParseAll
    <3> DEFINE after == [Doc EXCEPT !.tree = TRUE]
    <3>2. docs' = [docs EXCEPT ![Top.doc] = after]
      BY <3>1, <1>1 DEF Change
    <3>3. after \in DocumentOf /\ Whole(after) /\ Grows(Doc, after) /\ Staged("context", after)
      BY <1>1, <2>1, <2>2 DEF DocumentOf, Whole, Grows, EndOf, Staged
    <3> HIDE DEF after
    <3>4. DocsOK' /\ DocsGrow /\ docs'[Top.doc] = after
      BY <1>1, <3>2, <3>3, ChangeGrows
    <3>5. AnswersOK'
      BY <3>1, <3>4, AnswersStay
    <3>6. "context" \in Stages
      BY DEF Stages
    <3>7. CallsOK'
      BY <1>1, <3>1, <3>3, <3>4, <3>6, TopGoes
    <3> QED  BY <3>4, <3>5, <3>7
  <2>3. CASE End.parse = "error"
    <3>1. Throw /\ UNCHANGED docs
      BY <1>5, <2>3 DEF ParseAll
    <3>2. ~Succeeds(End)
      BY <2>3 DEF Succeeds
    <3>3. DocsOK' /\ DocsGrow
      BY <3>1, SameGrows
    <3> QED  BY <1>1, <3>1, <3>2, <3>3, ThrowAnswers
  <2>4. CASE End.parse = "none"
    <3>1. state' = "fatal" /\ UNCHANGED <<docs, calls, answers>>
      BY <1>5, <2>4 DEF ParseAll
    <3>2. DocsOK' /\ DocsGrow
      BY <3>1, SameGrows
    <3> QED  BY <3>1, <3>2, AnswersStay, CallsStop
  <2>5. End.parse \in ParseEnds
    BY <1>1, EndsAreMeanings DEF Meanings
  <2> QED  BY <2>2, <2>3, <2>4, <2>5 DEF ParseEnds
<1> QED  BY <1>4, <1>5 DEF Parse

\* A tree is made of all the fragments of a text that scans and parses.
LEMMA TreeIsWhole ==
  ASSUME NEW doc \in DocumentOf, Whole(doc), doc.tree
  PROVE  doc.fragments = "all" /\ doc.text # None /\ EndOf(doc).scan = "ok" /\ EndOf(doc).parse = "ok"
  BY DEF Whole, DocumentOf

LEMMA EvaluationHolds ==
  ASSUME DocInv, Context \/ RunFails \/ RunReturns \/ Results
  PROVE  DocInv'
<1> USE DEF DocInv
<1>1. /\ state = "live" /\ calls # <<>> /\ Top.doc \in 1..Len(docs)
      /\ Doc = docs[Top.doc] /\ Doc \in DocumentOf /\ Whole(Doc) /\ End = EndOf(Doc)
      /\ Doc.tree /\ (Top.stage = "results" => End.run = "ok")
  BY TopFacts DEF Context, RunFails, RunReturns, Results, At, Staged
<1>2. Doc.text # None /\ End.scan = "ok" /\ End.parse = "ok"
  BY <1>1, TreeIsWhole
<1>3. UNCHANGED <<files, docs, docsHash>>
  BY DEF Context, RunFails, RunReturns, Results, Die
<1>4. DocsOK' /\ DocsGrow
  BY <1>3, SameGrows
<1>5. printed' \in 0..Len(docs)
  <2>1. Top.doc \in 0..Len(docs)
    BY <1>1
  <2>2. printed' \in {printed, Top.doc, 0}
    BY DEF Context, RunFails, RunReturns, Results, Die
  <2>3. Len(docs) \in Nat
    BY LenProperties DEF DocsOK
  <2> QED  BY <2>1, <2>2, <2>3 DEF RestOK
<1>6. RestOK'
  BY <1>3, <1>4, <1>5, RestStays
<1>7. CASE Context
  <2>1. Goto("run") /\ UNCHANGED answers
    BY <1>7 DEF Context
  <2>2. "run" \in Stages /\ Staged("run", docs'[Top.doc])
    BY <1>1, <1>3 DEF Stages, Staged
  <2> QED  BY <1>1, <1>4, <1>6, <2>1, <2>2, TopGoes, AnswersStay
<1>8. CASE RunFails
  <2>1. Throw /\ ~Succeeds(End)
    BY <1>8 DEF RunFails, Succeeds
  <2> QED  BY <1>1, <1>2, <1>4, <1>6, <2>1, ThrowAnswers
<1>9. CASE RunReturns
  <2>1. End.run = "ok"
    BY <1>9 DEF RunReturns
  <2>2. CASE Top.op = "data"
    <3>1. Goto("results") /\ UNCHANGED answers
      BY <1>9, <2>2 DEF RunReturns
    <3>2. "results" \in Stages /\ Staged("results", docs'[Top.doc])
      BY <1>1, <1>3, <2>1 DEF Stages, Staged
    <3> QED  BY <1>1, <1>4, <1>6, <3>1, <3>2, TopGoes, AnswersStay
  <2>3. CASE Top.op # "data"
    <3>1. Return /\ Answer("output")
      BY <1>9, <2>3 DEF RunReturns
    <3>2. Succeeds(End)
      BY <1>2, <2>1 DEF Succeeds
    <3>3. AnswersOK'
      BY <1>1, <1>2, <1>4, <3>1, <3>2, AnswerRight DEF Answer
    <3> QED  BY <1>1, <1>4, <1>6, <3>1, <3>3, TopReturns
  <2> QED  BY <2>2, <2>3
<1>10. CASE Results
  <2>1. CASE Return /\ Answer("output")
    <3>1. End.run = "ok"
      BY <1>1, <1>10 DEF Results, At
    <3>2. Succeeds(End)
      BY <1>2, <3>1 DEF Succeeds
    <3>3. AnswersOK'
      BY <1>1, <1>2, <1>4, <2>1, <3>2, AnswerRight DEF Answer
    <3> QED  BY <1>1, <1>4, <1>6, <2>1, <3>3, TopReturns
  <2>2. CASE Die("used after free")
    <3>1. state' # "live" /\ UNCHANGED <<calls, answers>>
      BY <2>2 DEF Die
    <3> QED  BY <1>4, <1>6, <3>1, CallsStop, AnswersStay
  <2> QED  BY <1>10, <2>1, <2>2 DEF Results
<1> QED  BY <1>7, <1>8, <1>9, <1>10

LEMMA AskAgainHolds ==
  ASSUME DocInv, NEW op \in Ops, NEW dialect \in Dialects, NEW s \in Sources, NEW own \in BOOLEAN,
         AskAgain(op, dialect, s, own)
  PROVE  DocInv'
<1> USE DEF DocInv
<1>1. state = "live" /\ (calls # <<>> => Top.stage = "run") /\ docsHash[s] # 0
  BY DEF AskAgain, MayAsk
<1>2. UNCHANGED <<files, docs, docsHash, printed, answers>>
  BY DEF AskAgain, Die
<1>3. DocsOK' /\ DocsGrow
  BY <1>2, SameGrows
<1>4. RestOK' /\ AnswersOK'
  BY <1>2, <1>3, RestStays, AnswersStay DEF RestOK
<1>5. CASE docs[docsHash[s]].live
  <2>1. Enter(op, dialect, docsHash[s], own) /\ UNCHANGED state
    BY <1>5 DEF AskAgain
  <2>2. docsHash[s] \in 1..Len(docs')
    <3>1. docsHash[s] \in 0..Len(docs) /\ Len(docs) \in Nat
      BY LenProperties DEF RestOK, DocsOK
    <3> QED  BY <1>1, <1>2, <3>1
  <2>3. CallsOK'
    BY <1>1, <1>3, <2>1, <2>2, EnterStacks
  <2> QED  BY <1>3, <1>4, <2>3
<1>6. CASE ~docs[docsHash[s]].live
  <2>1. state' # "live" /\ UNCHANGED calls
    BY <1>6 DEF AskAgain, Die
  <2> QED  BY <1>3, <1>4, <2>1, CallsStop
<1> QED  BY <1>5, <1>6

LEMMA AskNewHolds ==
  ASSUME DocInv, NEW op \in Ops, NEW dialect \in Dialects, NEW s \in Sources, NEW own \in BOOLEAN,
         AskNew(op, dialect, s, own)
  PROVE  DocInv'
<1> USE DEF DocInv
<1>1. /\ state = "live" /\ (calls # <<>> => Top.stage = "run")
      /\ Enter(op, dialect, Len(docs) + 1, own)
      /\ UNCHANGED <<files, printed, answers, state>>
  BY DEF AskNew, MayAsk
<1> DEFINE new == NewDocument(dialect, s)
<1>2. new \in DocumentOf /\ Whole(new)
  BY DEF NewDocument, DocumentOf, Whole
<1>3. docs' = Append(docs, new) /\ docsHash' = [docsHash EXCEPT ![s] = Len(docs) + 1]
  BY DEF AskNew
<1> HIDE DEF new
<1>4. /\ docs' \in Seq(DocumentOf)
      /\ Len(docs') = Len(docs) + 1
      /\ \A d \in 1..Len(docs) : docs'[d] = docs[d]
      /\ docs'[Len(docs) + 1] = new
  BY <1>2, <1>3, AppendProperties DEF DocsOK
<1>5. Len(docs) \in Nat /\ \A d \in 1..Len(docs) : docs[d] \in DocumentOf
  BY LenProperties, ElementOfSeq DEF DocsOK
<1>6. DocsOK'
  <2>1. ASSUME NEW d \in 1..(Len(docs) + 1)
        PROVE  Whole(docs'[d])
    <3>1. CASE d = Len(docs) + 1  BY <3>1, <1>2, <1>4
    <3>2. CASE d # Len(docs) + 1
      <4>1. d \in 1..Len(docs)  BY <3>2, <1>5
      <4> QED  BY <4>1, <1>4 DEF DocsOK
    <3> QED  BY <3>1, <3>2
  <2> QED  BY <2>1, <1>4 DEF DocsOK
<1>7. DocsGrow
  BY <1>4, <1>5, GrowsSame DEF DocsGrow
<1>8. AnswersOK'
  BY <1>1, <1>6, <1>7, AnswersStay
<1>9. RestOK'
  BY <1>1, <1>3, <1>4, <1>5 DEF RestOK
<1>10. Len(docs) + 1 \in 1..Len(docs')
  BY <1>4, <1>5
<1>11. CallsOK'
  BY <1>1, <1>6, <1>7, <1>10, EnterStacks
<1> QED  BY <1>6, <1>8, <1>9, <1>11

\* Documents are freed, and nothing else of them changes.
LEMMA FreeingHolds ==
  ASSUME DocInv, FreePrinted \/ FreeHemp
  PROVE  DocInv'
<1> USE DEF DocInv
<1>1. Len(docs) \in Nat /\ \A d \in 1..Len(docs) : docs[d] \in DocumentOf
  BY LenProperties, ElementOfSeq DEF DocsOK
<1>2. CASE FreePrinted
  <2>1. /\ docs' = [docs EXCEPT ![printed].live = FALSE]
        /\ printed' = 0 /\ printed \in 1..Len(docs)
        /\ UNCHANGED <<files, docsHash, calls, answers, state>>
    BY <1>1, <1>2 DEF FreePrinted, RestOK
  <2> DEFINE after == [docs[printed] EXCEPT !.live = FALSE]
  <2>2. docs' = [docs EXCEPT ![printed] = after]
    BY <2>1
  <2>3. after \in DocumentOf /\ Whole(after) /\ Grows(docs[printed], after)
        /\ \A stage \in Stages : Staged(stage, docs[printed]) => Staged(stage, after)
    BY <1>1, <2>1, FreedStays DEF DocsOK
  <2> HIDE DEF after
  <2>4. DocsOK' /\ DocsGrow /\ Len(docs') = Len(docs) /\ docs'[printed] = after
    BY <2>1, <2>2, <2>3, ChangeGrows
  <2>5. AnswersOK' /\ RestOK'
    BY <1>1, <2>1, <2>4, AnswersStay, RestStays
  <2>6. ASSUME NEW i \in 1..Len(calls), state = "live"
        PROVE  Staged(calls[i].stage, docs'[calls[i].doc])
    <3>1. calls[i] \in CallSet
      BY ElementOfSeq DEF CallsOK
    <3>2. calls[i].stage \in Stages
      BY <3>1 DEF CallSet
    <3>3. Staged(calls[i].stage, docs[calls[i].doc]) /\ calls[i].doc \in 1..Len(docs)
      BY <2>6 DEF CallsOK
    <3>4. CASE calls[i].doc = printed
      BY <3>2, <3>3, <3>4, <2>3, <2>4
    <3>5. CASE calls[i].doc # printed
      BY <3>3, <3>5, <2>2
    <3> QED  BY <3>4, <3>5
  <2>7. CallsOK'
    BY <2>1, <2>4, <2>6 DEF CallsOK
  <2> QED  BY <2>4, <2>5, <2>7
<1>3. CASE FreeHemp
  <2>1. UNCHANGED <<files, docsHash, calls, printed, answers>> /\ state' # "live"
    BY <1>3 DEF FreeHemp, Die
  <2>2. DocsOK' /\ DocsGrow
    <3>1. CASE UNCHANGED docs
      BY <3>1, SameGrows
    <3>2. ASSUME NEW kept,
                 docs' = [d \in 1..Len(docs) |-> [docs[d] EXCEPT !.live = docs[d].live /\ d \notin kept]]
          PROVE  DocsOK' /\ DocsGrow
      <4>1. ASSUME NEW d \in 1..Len(docs)
            PROVE  docs'[d] \in DocumentOf /\ Whole(docs'[d]) /\ Grows(docs[d], docs'[d])
        <5>1. (docs[d].live /\ d \notin kept) \in BOOLEAN
          OBVIOUS
        <5>2. docs'[d] = [docs[d] EXCEPT !.live = docs[d].live /\ d \notin kept]
          BY <3>2
        <5> QED  BY <1>1, <5>1, <5>2, FreedStays DEF DocsOK
      <4>2. docs' \in Seq(DocumentOf) /\ Len(docs') = Len(docs)
        BY <1>1, <3>2, <4>1
      <4> QED  BY <1>1, <4>1, <4>2 DEF DocsOK, DocsGrow
    <3> QED  BY <1>3, <3>1, <3>2 DEF FreeHemp, Die
  <2> QED  BY <2>1, <2>2, AnswersStay, RestStays, CallsStop DEF RestOK
<1> QED  BY <1>2, <1>3

LEMMA WriteFileHolds ==
  ASSUME DocInv, NEW f \in Files, NEW t \in FileTexts, WriteFile(f, t)
  PROVE  DocInv'
<1> USE DEF DocInv
<1>1. /\ files' = [files EXCEPT ![f] = t]
      /\ UNCHANGED <<docs, docsHash, calls, printed, answers, state>>
  BY DEF WriteFile
<1>2. RestOK'
  BY <1>1 DEF RestOK
<1>3. DocsOK' /\ CallsOK' /\ AnswersOK'
  BY <1>1 DEF DocsOK, CallsOK, AnswersOK
<1> QED  BY <1>2, <1>3

LEMMA StepHolds == DocInv /\ [Next]_<<program, vars>> => DocInv'
<1> SUFFICES ASSUME DocInv, [Next]_<<program, vars>>  PROVE DocInv'
  OBVIOUS
<1>1. CASE Tree  BY <1>1, TreeHolds
<1>2. CASE Read  BY <1>2, ReadHolds
<1>3. CASE Scan  BY <1>3, ScanHolds
<1>4. CASE Parse  BY <1>4, ParseHolds
<1>5. CASE Context \/ RunFails \/ RunReturns \/ Results  BY <1>5, EvaluationHolds
<1>6. ASSUME NEW op \in Ops, NEW dialect \in Dialects, NEW s \in Sources, NEW own \in BOOLEAN,
             AskAgain(op, dialect, s, own) \/ AskNew(op, dialect, s, own)
      PROVE  DocInv'
  BY <1>6, AskAgainHolds, AskNewHolds
<1>7. CASE FreePrinted \/ FreeHemp  BY <1>7, FreeingHolds
<1>8. ASSUME NEW f \in Files, NEW t \in FileTexts, WriteFile(f, t)
      PROVE  DocInv'
  BY <1>8, WriteFileHolds
<1>9. CASE UNCHANGED <<program, vars>>
  BY <1>9 DEF vars, DocInv, DocsOK, CallsOK, AnswersOK, RestOK
<1> QED  BY <1>1, <1>2, <1>3, <1>4, <1>5, <1>6, <1>7, <1>8, <1>9 DEF Next, Step

-----------------------------------------------------------------------------
(***************************************************************************)
(* The results.                                                            *)
(***************************************************************************)
LEMMA DocInvariant == Spec => []DocInv
  BY InitHolds, StepHolds, PTL DEF Spec

\* hemp_document_process() and its like answer with the output of whole documents only:
\* with output if and only if the text scans, parses and evaluates.
THEOREM OutputOfWholeDocuments == Spec => []AnswersMatch
<1>1. DocInv => AnswersMatch
  BY DEF DocInv, AnswersOK, AnswersMatch, Succeeds, EndOf
<1> QED  BY <1>1, DocInvariant, PTL

\* hemp_document_scan() never begins with fragments or tags of an earlier attempt.
THEOREM ScansStartClean == Spec => []ScanStartsClean
<1>1. DocInv => ScanStartsClean
  <2> SUFFICES ASSUME DocInv, At("scan")
               PROVE  Doc.fragments = "none" /\ Doc.tags = 0
    BY DEF ScanStartsClean
  <2> QED  BY TopFacts DEF DocInv, At, Staged, Whole
<1> QED  BY <1>1, DocInvariant, PTL

\* A tree that hemp_document_compile() has made stands for all of the document.
THEOREM TreesStandForAll == Spec => []TreesAreWhole
<1>1. DocInv => TreesAreWhole
  <2> SUFFICES ASSUME DocInv, NEW d \in 1..Len(docs), docs[d].tree
               PROVE  docs[d].fragments = "all" /\ docs[d].text # None
    BY DEF TreesAreWhole
  <2>1. docs[d] \in DocumentOf
    BY ElementOfSeq DEF DocInv, DocsOK
  <2> QED  BY <2>1, TreeIsWhole DEF DocInv, DocsOK
<1> QED  BY <1>1, DocInvariant, PTL

-----------------------------------------------------------------------------
(***************************************************************************)
(* Part two.  What the memory of a text and of a list can hold.            *)
(***************************************************************************)
Cell == Letter \union {Nul, Junk}
Thing == Value \union {Missing, Nothing}

\* The memory of a text: none, or room for what it was asked for and a NUL.
Roomy(t) ==
  /\ t \in [cells : Seq(Cell), size : Nat, capacity : Nat, length : Nat]
  /\ Len(t.cells) = t.size /\ t.length <= t.capacity
  /\ t.size = t.capacity + 1 \/ (t.size = 0 /\ t.capacity = 0)

\* A text that holds w, and a list that does.
TextHolds(t, w) ==
  /\ Roomy(t) /\ w \in Seq(Letter) /\ t.length = Len(w)
  /\ \A i \in 1..Len(w) : t.cells[i] = w[i]
  /\ Len(w) > 0 => t.cells[Len(w) + 1] = Nul

ListHolds(l, w) ==
  /\ l \in [items : Seq(Thing \union {Junk}), size : Nat, capacity : Nat, length : Nat]
  /\ Len(l.items) = l.size /\ l.size = l.capacity /\ l.length <= l.capacity /\ l.capacity < 65536
  /\ w \in Seq(Thing) /\ l.length = Len(w)
  /\ \A i \in 1..Len(w) : l.items[i] = w[i]

Held ==
  /\ DOMAIN meant = {<<"text", a>> : a \in DOMAIN text} \union {<<"list", a>> : a \in DOMAIN list}
  /\ \A a \in DOMAIN text : TextHolds(text[a], meant[<<"text", a>>])
  /\ \A a \in DOMAIN list : ListHolds(list[a], meant[<<"list", a>>])

\* The addresses in use, A, are before that of the next item of pool p.
Before(a, next) ==
  /\ a \in Nat \X Nat
  /\ a[1] < next[1] \/ (a[1] = next[1] /\ a[2] < next[2])

PoolOK(p, A) ==
  /\ p \in [slabs : Seq([id : Nat, size : Nat]), next : Nat \X Nat, used : Nat, capacity : Nat]
  /\ p.next[1] = Len(p.slabs) /\ p.slabs # <<>> /\ p.capacity > 0
  /\ p.next[2] <= p.slabs[1].size /\ p.used + p.slabs[1].size = p.capacity + p.next[2]
  /\ \A a \in A : Before(a, p.next)

PoolsOK ==
  /\ DOMAIN pool = Pools /\ \A k \in Pools : PoolOK(pool[k], Addresses(k))
  /\ ~ open => \A k \in Pools : Addresses(k) = {}

StorageInv == Held /\ PoolsOK

-----------------------------------------------------------------------------
(***************************************************************************)
(* Texts.                                                                  *)
(***************************************************************************)
LEMMA MaxOfTwo ==
  ASSUME NEW a \in Int, NEW b \in Int
  PROVE  Max({a, b}) = IF a >= b THEN a ELSE b
<1>1. \E x \in {a, b} : \A y \in {a, b} : x >= y
  BY SMT
<1>2. Max({a, b}) \in {a, b} /\ \A y \in {a, b} : Max({a, b}) >= y
  BY <1>1 DEF Max
<1> QED  BY <1>2, SMT

LEMMA Single ==
  ASSUME NEW S, NEW x \in S
  PROVE  <<x>> \in Seq(S) /\ Len(<<x>>) = 1 /\ <<x>>[1] = x
OBVIOUS

LEMMA Cut ==
  ASSUME NEW S, NEW s \in Seq(S), NEW k \in Nat, NEW m \in Nat, NEW n \in Nat,
         k = m + 1, m <= n, n <= Len(s), NEW d, d = SubSeq(s, k, n)
  PROVE  d \in Seq(S) /\ Len(d) = n - m /\ \A i \in 1..n - m : d[i] = s[m + i]
<1>1. \A i \in k..n : s[i] \in S  BY ElementOfSeq, LenProperties
<1>2. /\ SubSeq(s, k, n) \in Seq(S)
      /\ Len(SubSeq(s, k, n)) = IF k <= n THEN n - k + 1 ELSE 0
      /\ \A i \in 1..n - k + 1 : SubSeq(s, k, n)[i] = s[k + i - 1]
  BY <1>1, SubSeqProperties
<1>3. (IF k <= n THEN n - k + 1 ELSE 0) = n - m  OBVIOUS
<1>4. \A i \in 1..n - m : i \in 1..n - k + 1 /\ k + i - 1 = m + i  OBVIOUS
<1> QED  BY <1>2, <1>3, <1>4

LEMMA Written ==
  ASSUME NEW S, NEW cells \in Seq(S), NEW w \in Seq(S), NEW offset \in Nat,
         offset + Len(w) <= Len(cells)
  PROVE  /\ Write(cells, offset, w) \in Seq(S) /\ Len(Write(cells, offset, w)) = Len(cells)
         /\ \A i \in 1..Len(cells) : Write(cells, offset, w)[i] =
              IF i \in offset + 1..offset + Len(w) THEN w[i - offset] ELSE cells[i]
<1>1. Len(cells) \in Nat /\ Len(w) \in Nat
  BY LenProperties
<1>2. Max({Len(cells), offset + Len(w)}) = Len(cells)
  BY <1>1, MaxOfTwo
<1>3. Write(cells, offset, w) =
        [i \in 1..Len(cells) |-> IF i \in offset + 1..offset + Len(w) THEN w[i - offset]
                                 ELSE IF i <= Len(cells) THEN cells[i] ELSE Junk]
  BY <1>2 DEF Write
<1>4. ASSUME NEW i \in 1..Len(cells)
      PROVE  (IF i \in offset + 1..offset + Len(w) THEN w[i - offset]
              ELSE IF i <= Len(cells) THEN cells[i] ELSE Junk) \in S
  <2>1. CASE i \in offset + 1..offset + Len(w)
    <3>1. i - offset \in 1..Len(w)  BY <1>1, <2>1
    <3> QED  BY <2>1, <3>1, ElementOfSeq
  <2>2. CASE i \notin offset + 1..offset + Len(w)
    BY <1>1, <2>2, ElementOfSeq
  <2> QED  BY <2>1, <2>2
<1> QED  BY <1>1, <1>3, <1>4

LEMMA Sized1 ==
  ASSUME NEW S, NEW cells \in Seq(S), NEW n \in Nat, Junk \in S, Len(cells) <= n
  PROVE  /\ Resized(cells, n) \in Seq(S) /\ Len(Resized(cells, n)) = n
         /\ \A i \in 1..Len(cells) : Resized(cells, n)[i] = cells[i]
<1>1. Len(cells) \in Nat
  BY LenProperties
<1>2. ASSUME NEW i \in 1..n
      PROVE  (IF i <= Len(cells) THEN cells[i] ELSE Junk) \in S
  BY <1>1, ElementOfSeq
<1> QED  BY <1>1, <1>2 DEF Resized

\* hemp_text_capacity keeps what is there, and makes the room that is asked for.
LEMMA CapacityMakesRoom ==
  ASSUME NEW t, Roomy(t), NEW n \in Nat
  PROVE  /\ Roomy([Capacity(t, n) EXCEPT !.length = n])
         /\ n < Capacity(t, n).size
         /\ Capacity(t, n) \in [cells : Seq(Cell), size : Nat, capacity : Nat, length : Nat]
         /\ Capacity(t, n).length = t.length
         /\ Len(t.cells) <= Len(Capacity(t, n).cells)
         /\ \A i \in 1..Len(t.cells) : Capacity(t, n).cells[i] = t.cells[i]
<1>1. /\ t.cells \in Seq(Cell) /\ Len(t.cells) = t.size /\ Len(t.cells) \in Nat
      /\ t.size \in Nat /\ t.capacity \in Nat /\ t.length \in Nat
      /\ t = [cells |-> t.cells, size |-> t.size, capacity |-> t.capacity, length |-> t.length]
  BY DEF Roomy
<1>2. CASE t.capacity < n + 1
  <2>1. Len(t.cells) <= n + 1  BY <1>1, <1>2 DEF Roomy
  <2>2. /\ Resized(t.cells, n + 1) \in Seq(Cell) /\ Len(Resized(t.cells, n + 1)) = n + 1
        /\ \A i \in 1..Len(t.cells) : Resized(t.cells, n + 1)[i] = t.cells[i]
    BY <1>1, <2>1, Sized1 DEF Cell
  <2>3. Capacity(t, n) = [cells |-> Resized(t.cells, n + 1), size |-> n + 1, capacity |-> n,
                          length |-> t.length]
    BY <1>1, <1>2 DEF Capacity
  <2> DEFINE c == Capacity(t, n)
  <2>4. /\ c.cells = Resized(t.cells, n + 1) /\ c.size = n + 1 /\ c.capacity = n
        /\ c.length = t.length
        /\ c \in [cells : Seq(Cell), size : Nat, capacity : Nat, length : Nat]
        /\ [c EXCEPT !.length = n] = [cells |-> Resized(t.cells, n + 1), size |-> n + 1,
                                      capacity |-> n, length |-> n]
    BY <1>1, <2>2, <2>3
  <2>5. Roomy([c EXCEPT !.length = n])
    BY <2>2, <2>4 DEF Roomy
  <2> QED  BY <1>1, <2>1, <2>2, <2>4, <2>5
<1>3. CASE ~ (t.capacity < n + 1)
  <2>1. Capacity(t, n) = t  BY <1>3 DEF Capacity
  <2> QED  BY <1>1, <1>3, <2>1 DEF Roomy
<1> QED  BY <1>2, <1>3

\* Text r, whose first characters are w, ended there.
LEMMA EndedHolds ==
  ASSUME NEW r, NEW w \in Seq(Letter),
         r \in [cells : Seq(Cell), size : Nat, capacity : Nat, length : Nat],
         Roomy([r EXCEPT !.length = Len(w)]), Len(w) < r.size,
         \A i \in 1..Len(w) : r.cells[i] = w[i]
  PROVE  TextHolds(Ended(r, Len(w)), w)
<1>1. PICK n \in Nat : n = Len(w)  BY LenProperties
<1>2. /\ r.cells \in Seq(Cell) /\ Len(r.cells) = r.size /\ r.size \in Nat /\ r.capacity \in Nat
      /\ n <= r.capacity /\ n + 1 <= Len(r.cells)
      /\ r.size = r.capacity + 1 \/ (r.size = 0 /\ r.capacity = 0)
      /\ r = [cells |-> r.cells, size |-> r.size, capacity |-> r.capacity, length |-> r.length]
  BY <1>1 DEF Roomy
<1>3. PICK v \in Seq(Cell) : v = <<Nul>> /\ Len(v) = 1 /\ v[1] = Nul
  <2>1. Nul \in Cell  BY DEF Cell
  <2>2. <<Nul>> \in Seq(Cell) /\ Len(<<Nul>>) = 1 /\ <<Nul>>[1] = Nul  BY <2>1
  <2> QED  BY <2>2
<1>4. PICK x \in Seq(Cell) : x = r.cells  BY <1>2
<1>10. PICK y : y = Write(x, n, v)  OBVIOUS
<1>5. /\ y \in Seq(Cell) /\ Len(y) = Len(x)
      /\ \A i \in 1..Len(x) : y[i] = IF i \in n + 1..n + 1 THEN v[i - n] ELSE x[i]
  <2>1. n + Len(v) <= Len(x)  BY <1>2, <1>3, <1>4
  <2>2. /\ y \in Seq(Cell) /\ Len(y) = Len(x)
        /\ \A i \in 1..Len(x) : y[i] = IF i \in n + 1..n + Len(v) THEN v[i - n] ELSE x[i]
    BY <1>10, <2>1, Written
  <2>3. Len(v) = 1  BY <1>3
  <2> QED  BY <2>2, <2>3
<1>8. Ended(r, n) = [cells |-> y, size |-> r.size, capacity |-> r.capacity, length |-> n]
  <2>1. Ended(r, n) = [r EXCEPT !.cells = y, !.length = n]  BY <1>3, <1>4, <1>10 DEF Ended
  <2> QED  BY <1>2, <2>1
<1>6. Roomy(Ended(r, n))
  BY <1>2, <1>4, <1>5, <1>8 DEF Roomy
<1>7. y[n + 1] = Nul /\ \A i \in 1..n : y[i] = w[i]
  <2>1. v[n + 1 - n] = Nul /\ n + 1 \in 1..Len(x) /\ n + 1 \in n + 1..n + 1  BY <1>2, <1>3, <1>4
  <2>2. ASSUME NEW i \in 1..n  PROVE  y[i] = w[i]
    <3>1. i \in 1..Len(x) /\ i \notin n + 1..n + 1  BY <1>2, <1>4
    <3>2. y[i] = x[i]  BY <1>5, <3>1
    <3>3. x[i] = w[i]  BY <1>1, <1>4
    <3> QED  BY <3>2, <3>3
  <2> QED  BY SMTT(60), <1>5, <2>1, <2>2
<1> QED  BY <1>1, <1>6, <1>7, <1>8 DEF TextHolds

\* hemp_text_append_stringn.
LEMMA AppendedHolds ==
  ASSUME NEW t, NEW m, NEW w \in Seq(Letter), TextHolds(t, m)
  PROVE  TextHolds(Appended(t, w), m \o w)
<1>1. PICK a \in Nat, b \in Nat : a = Len(m) /\ b = Len(w)
  BY LenProperties DEF TextHolds
<1>2. /\ m \in Seq(Letter) /\ t.length = a /\ Roomy(t) /\ a <= Len(t.cells)
      /\ \A i \in 1..a : t.cells[i] = m[i]
  BY <1>1 DEF TextHolds, Roomy
<1>3. PICK r : r = Capacity(t, a + b)  OBVIOUS
<1>4. /\ Roomy([r EXCEPT !.length = a + b]) /\ a + b < r.size
      /\ r \in [cells : Seq(Cell), size : Nat, capacity : Nat, length : Nat]
      /\ Len(t.cells) <= Len(r.cells)
      /\ \A i \in 1..Len(t.cells) : r.cells[i] = t.cells[i]
  BY <1>2, <1>3, CapacityMakesRoom
<1>5. PICK x \in Seq(Cell) : x = r.cells /\ Len(x) = r.size
  BY <1>4 DEF Roomy
<1>6. PICK y : y = Write(x, a, w)  OBVIOUS
<1>7. /\ y \in Seq(Cell) /\ Len(y) = Len(x)
      /\ \A i \in 1..Len(x) : y[i] = IF i \in a + 1..a + b THEN w[i - a] ELSE x[i]
  <2>1. w \in Seq(Cell) /\ a + Len(w) <= Len(x)  BY <1>1, <1>4, <1>5 DEF Cell
  <2> QED  BY <1>1, <1>6, <2>1, Written
<1>8. PICK u \in Seq(Letter) : /\ u = m \o w /\ Len(u) = a + b
                              /\ \A i \in 1..a + b : u[i] = IF i <= a THEN m[i] ELSE w[i - a]
  <2>1. PICK k \in Seq(Letter) : k = m  BY <1>2
  <2>2. PICK u \in Seq(Letter) : u = k \o w  BY ConcatProperties
  <2>3. /\ Len(u) = Len(k) + Len(w)
        /\ \A i \in 1..Len(k) + Len(w) : u[i] = IF i <= Len(k) THEN k[i] ELSE w[i - Len(k)]
    BY <2>2, ConcatProperties
  <2> QED  BY <1>1, <2>1, <2>2, <2>3
<1>9. PICK q : q = [r EXCEPT !.cells = y]  OBVIOUS
<1>10. /\ q \in [cells : Seq(Cell), size : Nat, capacity : Nat, length : Nat]
       /\ q.cells = y /\ q.size = r.size /\ q.capacity = r.capacity
  BY <1>4, <1>7, <1>9
<1>11. Roomy([q EXCEPT !.length = a + b])
  BY <1>4, <1>5, <1>7, <1>10 DEF Roomy
<1>12. ASSUME NEW i \in 1..a + b  PROVE q.cells[i] = u[i]
  <2>1. i \in Nat /\ i \in 1..Len(x) /\ q.cells[i] = y[i]
    <3>1. Len(x) \in Nat /\ a + b <= Len(x)  BY <1>4, <1>5
    <3> QED  BY <1>10, <3>1
  <2>2. CASE i <= a
    <3>1. i \notin a + 1..a + b /\ i \in 1..a  BY <2>1, <2>2
    <3>2. y[i] = x[i]  BY <1>7, <2>1, <3>1
    <3>3. i \in 1..Len(t.cells)  BY <1>2, <3>1 DEF Roomy
    <3>4. x[i] = m[i]  BY <1>2, <1>4, <1>5, <3>1, <3>3
    <3> QED  BY <1>8, <2>1, <2>2, <3>2, <3>4
  <2>3. CASE ~ (i <= a)
    <3>1. i \in a + 1..a + b  BY <2>1, <2>3
    <3>2. y[i] = w[i - a]  BY <1>7, <2>1, <3>1
    <3> QED  BY <1>8, <2>1, <2>3, <3>2
  <2> QED  BY <2>2, <2>3
<1>13. TextHolds(Ended(q, a + b), u)
  BY <1>4, <1>8, <1>10, <1>11, <1>12, EndedHolds
<1>14. Appended(t, w) = Ended(q, a + b)
  BY <1>1, <1>2, <1>3, <1>5, <1>6, <1>9 DEF Appended
<1> QED  BY <1>8, <1>13, <1>14

\* hemp_text_replace_string.
LEMMA ReplaceHolds ==
  ASSUME NEW t, NEW m, NEW w \in Seq(Letter), TextHolds(t, m)
  PROVE  TextHolds(Replace(t, w), w)
<1>1. PICK n \in Nat : n = Len(w)  BY LenProperties
<1>2. PICK r : r = Capacity(t, n)  OBVIOUS
<1>3. /\ Roomy([r EXCEPT !.length = n]) /\ n < r.size
      /\ r \in [cells : Seq(Cell), size : Nat, capacity : Nat, length : Nat]
  BY <1>1, <1>2, CapacityMakesRoom DEF TextHolds
<1>4. PICK x \in Seq(Cell) : x = r.cells /\ Len(x) = r.size
  BY <1>3 DEF Roomy
<1>5. PICK v \in Seq(Cell) : /\ v = w \o <<Nul>> /\ Len(v) = n + 1
                             /\ \A i \in 1..n : v[i] = w[i]
  <2>1. Nul \in Cell  BY DEF Cell
  <2>2. PICK z \in Seq(Cell) : z = <<Nul>> /\ Len(z) = 1  BY <2>1, Single
  <2>3. w \in Seq(Cell)  BY DEF Cell
  <2>4. PICK v \in Seq(Cell) : v = w \o z  BY <2>3, ConcatProperties
  <2>5. /\ Len(v) = Len(w) + Len(z)
        /\ \A i \in 1..Len(w) + Len(z) : v[i] = IF i <= Len(w) THEN w[i] ELSE z[i - Len(w)]
    BY <2>3, <2>4, ConcatProperties
  <2>6. Len(z) = 1  BY <2>2
  <2>7. Len(v) = n + 1 /\ \A i \in 1..n : v[i] = w[i]  BY <1>1, <2>5, <2>6
  <2> QED  BY <2>2, <2>4, <2>7
<1>6. PICK y : y = Write(x, 0, v)  OBVIOUS
<1>7. y \in Seq(Cell) /\ Len(y) = Len(x) /\ \A i \in 1..n : y[i] = w[i]
  <2>1. Len(v) = n + 1 /\ n + 1 <= Len(x) /\ Len(x) \in Nat  BY <1>3, <1>4, <1>5 DEF Roomy
  <2>2. /\ y \in Seq(Cell) /\ Len(y) = Len(x)
        /\ \A i \in 1..Len(x) : y[i] = IF i \in 0 + 1..0 + Len(v) THEN v[i - 0] ELSE x[i]
    <3>1. 0 + Len(v) <= Len(x) /\ 0 \in Nat  BY <2>1
    <3> QED  BY <1>6, <3>1, Written
  <2>3. ASSUME NEW i \in 1..n  PROVE  y[i] = w[i]
    <3>1. i \in 1..Len(x) /\ i \in 0 + 1..0 + Len(v) /\ i - 0 = i  BY <2>1
    <3>2. v[i] = w[i]  BY <1>5
    <3> QED  BY <2>2, <3>1, <3>2
  <2> QED  BY <2>2, <2>3
<1>8. PICK q : q = [r EXCEPT !.cells = y]  OBVIOUS
<1>9. /\ q \in [cells : Seq(Cell), size : Nat, capacity : Nat, length : Nat]
      /\ q.cells = y /\ q.size = r.size /\ q.capacity = r.capacity
  BY <1>3, <1>7, <1>8
<1>10. Roomy([q EXCEPT !.length = n])
  BY <1>1, <1>3, <1>4, <1>7, <1>9 DEF Roomy
<1>11. TextHolds(Ended(q, n), w)
  BY <1>1, <1>3, <1>7, <1>9, <1>10, EndedHolds
<1>12. Replace(t, w) = Ended(q, n)
  <2>1. [Capacity(t, n) EXCEPT !.cells = Write(@, 0, w \o <<Nul>>)] = q
    <3>1. [r EXCEPT !.cells = Write(@, 0, v)] = q  BY <1>3, <1>4, <1>6, <1>8
    <3>2. v = w \o <<Nul>>  BY <1>5
    <3> QED  BY <1>2, <3>1, <3>2
  <2> QED  BY <1>1, <2>1 DEF Replace
<1> QED  BY <1>11, <1>12

\* hemp_text_truncate.
LEMMA TruncatedHolds ==
  ASSUME NEW t, NEW m, TextHolds(t, m), NEW n \in Nat, n < t.length
  PROVE  TextHolds(Truncate(t, n), SubSeq(m, 1, n))
<1>1. /\ m \in Seq(Letter) /\ Len(m) \in Nat /\ t.length = Len(m) /\ Roomy(t)
      /\ \A i \in 1..Len(m) : t.cells[i] = m[i]
  BY LenProperties DEF TextHolds
<1>2. PICK k \in Seq(Letter) : /\ k = SubSeq(m, 1, n) /\ Len(k) = n
                               /\ \A i \in 1..n : k[i] = m[i]
  <2>1. n <= Len(m) /\ 0 <= n /\ 1 = 0 + 1 /\ n - 0 = n  BY <1>1
  <2>2. PICK k : k = SubSeq(m, 1, n)  OBVIOUS
  <2>3. k \in Seq(Letter) /\ Len(k) = n - 0 /\ \A i \in 1..n - 0 : k[i] = m[0 + i]
    BY <1>1, <2>1, <2>2, Cut
  <2> QED  BY <2>1, <2>2, <2>3
<1>3. /\ t \in [cells : Seq(Cell), size : Nat, capacity : Nat, length : Nat]
      /\ Roomy([t EXCEPT !.length = n]) /\ n < t.size
  <2>1. t \in [cells : Seq(Cell), size : Nat, capacity : Nat, length : Nat]  BY <1>1 DEF Roomy
  <2>2. PICK q : q = [t EXCEPT !.length = n]  OBVIOUS
  <2>3. /\ q \in [cells : Seq(Cell), size : Nat, capacity : Nat, length : Nat]
        /\ q.cells = t.cells /\ q.size = t.size /\ q.capacity = t.capacity /\ q.length = n
    BY <2>1, <2>2
  <2>4. t.size \in Nat /\ t.capacity \in Nat /\ t.length \in Nat  BY <2>1
  <2>5. Roomy(q) /\ n < t.size  BY <1>1, <2>3, <2>4 DEF Roomy
  <2> QED  BY <2>1, <2>2, <2>5
<1>4. \A i \in 1..n : t.cells[i] = k[i]
  BY <1>1, <1>2
<1>5. TextHolds(Ended(t, n), k)
  BY <1>2, <1>3, <1>4, EndedHolds
<1> QED  BY <1>1, <1>2, <1>5 DEF Truncate

\* hemp_text_insert_string at a place among the characters.
LEMMA InsertedHolds ==
  ASSUME NEW t, NEW m, NEW w \in Seq(Letter), NEW offset \in Int, TextHolds(t, m)
  PROVE  TextHolds(Insert(t, offset, w), Spliced(m, offset, w))
<1>1. PICK a \in Nat, b \in Nat : a = Len(m) /\ b = Len(w)
  BY LenProperties DEF TextHolds
<1>2. /\ m \in Seq(Letter) /\ t.length = a /\ Roomy(t) /\ a <= Len(t.cells)
      /\ \A i \in 1..a : t.cells[i] = m[i]
  BY <1>1 DEF TextHolds, Roomy
<1>3. CASE offset >= 0 /\ (offset > t.length \/ t.length = 0)
  <2>1. Insert(t, offset, w) = Appended(t, w)  BY <1>3 DEF Insert
  <2>2. Spliced(m, offset, w) = SubSeq(m, 1, a) \o w \o SubSeq(m, a + 1, a)
    <3>1. PICK p : p = IF offset > a THEN a ELSE IF offset >= 0 THEN offset
                       ELSE IF a + offset >= 0 THEN a + offset ELSE 0
      OBVIOUS
    <3>2. Spliced(m, offset, w) = SubSeq(m, 1, p) \o w \o SubSeq(m, p + 1, a)
      BY <1>1, <3>1 DEF Spliced
    <3>3. CASE offset > a  BY <3>1, <3>2, <3>3
    <3>4. CASE ~ (offset > a)
      <4>1. offset >= 0 /\ a = 0 /\ offset = a  BY <1>2, <1>3, <3>4
      <4>2. p = a  BY <3>1, <3>4, <4>1
      <4> QED  BY <3>2, <4>2
    <3> QED  BY <3>3, <3>4
  <2>3. SubSeq(m, 1, a) = m  BY <1>1, <1>2, SubSeqFull
  <2>4. SubSeq(m, a + 1, a) = <<>>
    BY <1>1, <1>2, SubSeqEmpty
  <2>5. (m \o w) \o <<>> = m \o w
    BY <1>2, ConcatProperties, ConcatEmptySeq
  <2>6. Spliced(m, offset, w) = m \o w  BY <2>2, <2>3, <2>4, <2>5
  <2> QED  BY <2>1, <2>6, AppendedHolds
<1>4. CASE ~ (offset >= 0 /\ (offset > t.length \/ t.length = 0))
  <2>1. PICK p \in 0..a : p = Place(t, offset)
    <3> SUFFICES Place(t, offset) \in 0..a  OBVIOUS
    <3>1. CASE offset < 0
      <4>1. Place(t, offset) = IF 0 >= offset + a THEN 0 ELSE offset + a
        BY <1>2, <3>1, MaxOfTwo DEF Place
      <4> QED  BY <3>1, <4>1
    <3>2. CASE offset >= 0
      BY <1>2, <1>4, <3>2 DEF Place
    <3> QED  BY <3>1, <3>2
  <2>2. Spliced(m, offset, w) = SubSeq(m, 1, p) \o w \o SubSeq(m, p + 1, a)
    <3>1. CASE offset < 0
      <4>1. Place(t, offset) = IF 0 >= offset + a THEN 0 ELSE offset + a
        BY <1>2, <3>1, MaxOfTwo DEF Place
      <4>2. p = IF a + offset >= 0 THEN a + offset ELSE 0  BY <2>1, <3>1, <4>1
      <4>3. ~ (offset > a) /\ ~ (offset >= 0)  BY <3>1
      <4> QED  BY <1>1, <1>2, <4>2, <4>3 DEF Spliced
    <3>2. CASE offset >= 0
      <4>1. p = offset /\ ~ (offset > a)  BY <1>2, <1>4, <2>1, <3>2 DEF Place
      <4> QED  BY <1>1, <1>2, <3>2, <4>1 DEF Spliced
    <3>3. offset < 0 \/ offset >= 0  OBVIOUS
    <3> QED  BY <3>1, <3>2, <3>3, Zenon
  <2>3. PICK r : r = Capacity(t, a + b)  OBVIOUS
  <2>4. /\ Roomy([r EXCEPT !.length = a + b]) /\ a + b < r.size
        /\ r \in [cells : Seq(Cell), size : Nat, capacity : Nat, length : Nat]
        /\ Len(t.cells) <= Len(r.cells)
        /\ \A i \in 1..Len(t.cells) : r.cells[i] = t.cells[i]
    <3>1. a + b \in Nat  OBVIOUS
    <3> QED  BY <1>2, <2>3, <3>1, CapacityMakesRoom
  <2>5. PICK x \in Seq(Cell) : x = r.cells /\ Len(x) = r.size /\ a + b < Len(x) /\ Len(x) \in Nat
    BY <2>4 DEF Roomy
  <2>6. \A i \in 1..a : x[i] = m[i]
    BY <1>2, <2>4, <2>5
  <2>7. PICK rest \in Seq(Cell) : /\ rest = SubSeq(x, p + 1, a) /\ Len(rest) = a - p
                                  /\ \A i \in 1..a - p : rest[i] = x[p + i]
    <3>1. p <= a /\ a <= Len(x)  BY <2>5
    <3>2. PICK k \in Nat : k = p + 1  OBVIOUS
    <3>5. PICK d : d = SubSeq(x, k, a)  OBVIOUS
    <3>3. d \in Seq(Cell) /\ Len(d) = a - p /\ \A i \in 1..a - p : d[i] = x[p + i]
      BY <2>5, <3>1, <3>2, <3>5, Cut
    <3> QED  BY <3>2, <3>3, <3>5
  <2>8. PICK y : y = Write(x, p + b, rest)  OBVIOUS
  <2>9. /\ y \in Seq(Cell) /\ Len(y) = Len(x)
        /\ \A i \in 1..Len(x) : y[i] = IF i \in p + b + 1..p + b + (a - p) THEN rest[i - (p + b)] ELSE x[i]
    <3>1. p + b \in Nat /\ (p + b) + Len(rest) <= Len(x)  BY <2>5, <2>7
    <3>2. /\ y \in Seq(Cell) /\ Len(y) = Len(x)
          /\ \A i \in 1..Len(x) :
               y[i] = IF i \in p + b + 1..p + b + Len(rest) THEN rest[i - (p + b)] ELSE x[i]
      BY <2>8, <3>1, Written
    <3>3. Len(rest) = a - p  BY <2>7
    <3> QED  BY <3>2, <3>3
  <2>10. PICK z : z = Write(y, p, w)  OBVIOUS
  <2>11. /\ z \in Seq(Cell) /\ Len(z) = Len(x)
         /\ \A i \in 1..Len(x) : z[i] = IF i \in p + 1..p + b THEN w[i - p] ELSE y[i]
    <3>1. w \in Seq(Cell) /\ p + Len(w) <= Len(y)  BY <1>1, <2>5, <2>9 DEF Cell
    <3> QED  BY <1>1, <2>9, <2>10, <3>1, Written
  <2>12. PICK u \in Seq(Letter) :
           /\ u = Spliced(m, offset, w) /\ Len(u) = a + b
           /\ \A i \in 1..a + b : u[i] = IF i <= p THEN m[i] ELSE IF i <= p + b THEN w[i - p]
                                         ELSE m[i - b]
    <3>1. PICK f \in Seq(Letter) : f = SubSeq(m, 1, p) /\ Len(f) = p /\ \A i \in 1..p : f[i] = m[i]
      <4>1. 0 <= p /\ p <= Len(m) /\ 1 = 0 + 1 /\ p - 0 = p  BY <1>1
      <4>2. PICK d : d = SubSeq(m, 1, p)  OBVIOUS
      <4>3. d \in Seq(Letter) /\ Len(d) = p - 0 /\ \A i \in 1..p - 0 : d[i] = m[0 + i]
        BY <1>2, <4>1, <4>2, Cut
      <4>5. Len(d) = p  BY <4>1, <4>3
      <4>6. ASSUME NEW i \in 1..p  PROVE d[i] = m[i]
        <5>1. i \in 1..p - 0 /\ 0 + i = i  BY <4>1
        <5> QED  BY <4>3, <5>1
      <4>4. Len(d) = p /\ \A i \in 1..p : d[i] = m[i]  BY <4>5, <4>6
      <4> QED  BY <4>2, <4>3, <4>4
    <3>2. PICK e \in Seq(Letter) : /\ e = SubSeq(m, p + 1, a) /\ Len(e) = a - p
                                   /\ \A i \in 1..a - p : e[i] = m[p + i]
      <4>1. p <= a /\ a <= Len(m)  BY <1>1
      <4>2. PICK k \in Nat : k = p + 1  OBVIOUS
      <4>5. PICK d : d = SubSeq(m, k, a)  OBVIOUS
      <4>3. d \in Seq(Letter) /\ Len(d) = a - p /\ \A i \in 1..a - p : d[i] = m[p + i]
        BY <1>2, <4>1, <4>2, <4>5, Cut
      <4> QED  BY <4>2, <4>3, <4>5
    <3>3. PICK g \in Seq(Letter) : g = f \o w  BY ConcatProperties
    <3>4. /\ Len(g) = p + b
          /\ \A i \in 1..p + b : g[i] = IF i <= p THEN f[i] ELSE w[i - p]
      <4>1. /\ Len(g) = Len(f) + Len(w)
            /\ \A i \in 1..Len(f) + Len(w) : g[i] = IF i <= Len(f) THEN f[i] ELSE w[i - Len(f)]
        BY <3>3, ConcatProperties
      <4>2. Len(f) = p  BY <3>1
      <4> QED  BY <1>1, <4>1, <4>2
    <3>5. PICK u \in Seq(Letter) : u = g \o e  BY ConcatProperties
    <3>6. /\ Len(u) = a + b
          /\ \A i \in 1..a + b : u[i] = IF i <= p + b THEN g[i] ELSE e[i - (p + b)]
      <4>1. /\ Len(u) = Len(g) + Len(e)
            /\ \A i \in 1..Len(g) + Len(e) : u[i] = IF i <= Len(g) THEN g[i] ELSE e[i - Len(g)]
        BY <3>5, ConcatProperties
      <4>2. Len(g) = p + b /\ Len(e) = a - p /\ p + b + (a - p) = a + b  BY <3>2, <3>4
      <4> QED  BY <4>1, <4>2
    <3>7. ASSUME NEW i \in 1..a + b
          PROVE  u[i] = IF i <= p THEN m[i] ELSE IF i <= p + b THEN w[i - p] ELSE m[i - b]
      <4>1. CASE i <= p  BY <3>1, <3>4, <3>6, <4>1
      <4>2. CASE ~ (i <= p) /\ i <= p + b  BY <3>4, <3>6, <4>2
      <4>3. CASE ~ (i <= p + b)
        <5>1. i - (p + b) \in 1..a - p /\ p + (i - (p + b)) = i - b  BY <4>3
        <5>2. e[i - (p + b)] = m[i - b]  BY <3>2, <5>1
        <5> QED  BY <3>6, <4>3, <5>2
      <4> QED  BY <4>1, <4>2, <4>3
    <3> QED  BY <2>2, <3>1, <3>2, <3>3, <3>5, <3>6, <3>7
  <2>13. ASSUME NEW i \in 1..a + b  PROVE  z[i] = u[i]
    <3>1. i \in 1..Len(x)  BY <2>5
    <3>2. CASE i <= p  BY <2>6, <2>9, <2>11, <2>12, <3>1, <3>2
    <3>3. CASE ~ (i <= p) /\ i <= p + b
      <4>1. i \in p + 1..p + b  BY <3>3
      <4>2. z[i] = w[i - p]  BY <2>11, <3>1, <4>1
      <4> QED  BY <2>12, <3>3, <4>2
    <3>4. CASE ~ (i <= p + b)
      <4>1. /\ i \in p + b + 1..p + b + (a - p) /\ i \notin p + 1..p + b
            /\ i - (p + b) \in 1..a - p /\ p + (i - (p + b)) = i - b /\ i - b \in 1..a
        BY <3>4
      <4>2. z[i] = rest[i - (p + b)]  BY <2>9, <2>11, <3>1, <4>1
      <4>3. rest[i - (p + b)] = x[i - b]  BY <2>7, <4>1
      <4>4. x[i - b] = m[i - b]  BY <2>6, <4>1
      <4> QED  BY <2>12, <3>4, <4>1, <4>2, <4>3, <4>4
    <3> QED  BY <3>2, <3>3, <3>4
  <2>14. PICK q : q = [r EXCEPT !.cells = z]  OBVIOUS
  <2>15. /\ q \in [cells : Seq(Cell), size : Nat, capacity : Nat, length : Nat]
         /\ q.cells = z /\ q.size = r.size /\ q.capacity = r.capacity
    BY <2>4, <2>11, <2>14
  <2>16. Roomy([q EXCEPT !.length = a + b])
    BY <2>4, <2>5, <2>11, <2>15 DEF Roomy
  <2>17. TextHolds(Ended(q, a + b), u)
    BY <2>4, <2>12, <2>13, <2>15, <2>16, EndedHolds
  <2>18. Insert(t, offset, w) = Ended(q, a + b)
    BY <1>1, <1>2, <1>4, <2>1, <2>3, <2>5, <2>7, <2>8, <2>10, <2>14 DEF Insert
  <2> QED  BY <2>12, <2>17, <2>18
<1> QED  BY <1>3, <1>4

-----------------------------------------------------------------------------
(***************************************************************************)
(* Lists.                                                                  *)
(***************************************************************************)
LEMMA MinOf ==
  ASSUME NEW S \in SUBSET Nat, S # {}
  PROVE  Min(S) \in S /\ \A x \in S : Min(S) <= x
<1> DEFINE R == OpToRel(<, Nat)
<1>1. \A x, y \in Nat : <<y, x>> \in R <=> y < x  BY DEF OpToRel
<1>2. IsWellFoundedOn(R, Nat)  BY NatLessThanWellFounded
<1> HIDE DEF R
<1>3. PICK n \in S : \A m \in S : ~ (<<m, n>> \in R)  BY <1>2, WFMin
<1>4. ASSUME NEW m \in S  PROVE n <= m
  <2>1. m \in Nat /\ n \in Nat  OBVIOUS
  <2>2. ~ (m < n)  BY <1>1, <1>3, <2>1
  <2> QED  BY <2>1, <2>2
<1> QED  BY <1>4 DEF Min

LEMMA DoubledReaches ==
  ASSUME NEW c \in Nat, c < 65536, NEW least \in Nat, least <= 16384
  PROVE  /\ Doubled(c) \in SUBSET Nat /\ \A d \in Doubled(c) : d < 65536
         /\ \E d \in Doubled(c) : d >= least
<1>1. PICK n \in Nat : n = Max({c, 1}) /\ n > 0 /\ n < 65536
  <2>1. Max({c, 1}) = IF c >= 1 THEN c ELSE 1  BY MaxOfTwo
  <2> QED  BY <2>1
<1> DEFINE S == {n, 2 * n, 4 * n, 8 * n, 16 * n, 32 * n, 64 * n, 128 * n, 256 * n, 512 * n, 1024 * n,
                 2048 * n, 4096 * n, 8192 * n, 16384 * n, 32768 * n}
<1>2. S \subseteq Nat  OBVIOUS
<1>3. Doubled(c) = {d \in S : d < 65536}  BY <1>1 DEF Doubled
<1>7. n \in S /\ 2 * n \in S  OBVIOUS
<1>8. 4 * n \in S /\ 8 * n \in S  OBVIOUS
<1>9. 16 * n \in S /\ 32 * n \in S  OBVIOUS
<1>10. 64 * n \in S /\ 128 * n \in S  OBVIOUS
<1>11. 256 * n \in S /\ 512 * n \in S  OBVIOUS
<1>12. 1024 * n \in S /\ 2048 * n \in S  OBVIOUS
<1>13. 4096 * n \in S /\ 8192 * n \in S  OBVIOUS
<1>14. 16384 * n \in S /\ 32768 * n \in S  OBVIOUS
<1> HIDE DEF S
<1>5. Doubled(c) \in SUBSET Nat /\ \A d \in Doubled(c) : d < 65536
  <2>1. ASSUME NEW d \in Doubled(c)  PROVE d \in Nat /\ d < 65536
    <3>1. d \in S /\ d < 65536  BY <1>3
    <3> QED  BY <1>2, <3>1
  <2> QED  BY <2>1
<1>6. SUFFICES ASSUME \A d \in Doubled(c) : ~ (d >= least)  PROVE FALSE
  BY <1>5
<1>4. ASSUME NEW d \in Nat, d \in S, d < 65536  PROVE d < least
  BY <1>3, <1>4, <1>6
<1>15. n < least /\ 2 * n < least
  <2>1. n < least  BY <1>1, <1>4, <1>7
  <2> QED  BY <1>1, <1>4, <2>1, <1>7
<1>16. 4 * n < least /\ 8 * n < least
  <2>1. 4 * n < least  BY <1>1, <1>4, <1>15, <1>8
  <2> QED  BY <1>1, <1>4, <2>1, <1>8
<1>17. 16 * n < least /\ 32 * n < least
  <2>1. 16 * n < least  BY <1>1, <1>4, <1>16, <1>9
  <2> QED  BY <1>1, <1>4, <2>1, <1>9
<1>18. 64 * n < least /\ 128 * n < least
  <2>1. 64 * n < least  BY <1>1, <1>4, <1>17, <1>10
  <2> QED  BY <1>1, <1>4, <2>1, <1>10
<1>19. 256 * n < least /\ 512 * n < least
  <2>1. 256 * n < least  BY <1>1, <1>4, <1>18, <1>11
  <2> QED  BY <1>1, <1>4, <2>1, <1>11
<1>20. 1024 * n < least /\ 2048 * n < least
  <2>1. 1024 * n < least  BY <1>1, <1>4, <1>19, <1>12
  <2> QED  BY <1>1, <1>4, <2>1, <1>12
<1>21. 4096 * n < least /\ 8192 * n < least
  <2>1. 4096 * n < least  BY <1>1, <1>4, <1>20, <1>13
  <2> QED  BY <1>1, <1>4, <2>1, <1>13
<1>22. 16384 * n < least /\ 32768 * n < least
  <2>1. 16384 * n < least  BY <1>1, <1>4, <1>21, <1>14
  <2> QED  BY <1>1, <1>4, <2>1, <1>14
<1> QED  BY <1>1, <1>22

LEMMA ListShape ==
  ASSUME NEW l, NEW w, ListHolds(l, w)
  PROVE  /\ l = [items |-> l.items, size |-> l.size, capacity |-> l.capacity, length |-> l.length]
         /\ l.items \in Seq(Thing \union {Junk}) /\ l.capacity \in Nat /\ l.capacity < 65536
         /\ Len(l.items) = l.capacity /\ l.size = l.capacity
         /\ l.length \in Nat /\ l.length = Len(w) /\ l.length <= l.capacity
         /\ w \in Seq(Thing) /\ \A i \in 1..Len(w) : l.items[i] = w[i]
BY DEF ListHolds

\* hemp_list_grow.
LEMMA GrowMakesRoom ==
  ASSUME NEW l, NEW w, ListHolds(l, w), NEW least \in Nat, least <= MaxLength
  PROVE  /\ ListHolds(Grow(l, least), w) /\ least <= Grow(l, least).capacity
         /\ l.capacity <= Grow(l, least).capacity
<1>1. least <= 16384  BY StorageAssumption
<1>2. PICK n \in Nat : n < 65536 /\ n = Min({d \in Doubled(l.capacity) : d >= least}) /\ n >= least
  <2>1. l.capacity \in Nat /\ l.capacity < 65536  BY ListShape
  <2>2. PICK D : D = {d \in Doubled(l.capacity) : d >= least}  OBVIOUS
  <2>3. D \in SUBSET Nat /\ D # {} /\ \A d \in D : d >= least /\ d < 65536
    BY <1>1, <2>1, <2>2, DoubledReaches
  <2>4. Min(D) \in D  BY <2>3, MinOf
  <2> QED  BY <2>2, <2>3, <2>4
<1>3. CASE n <= l.capacity
  <2>1. Grow(l, least) = l  BY <1>2, <1>3 DEF Grow
  <2>2. l.capacity \in Nat  BY ListShape
  <2> QED  BY <1>2, <1>3, <2>1, <2>2
<1>4. CASE ~ (n <= l.capacity)
  <2>1. PICK x : x = Resized(l.items, n)  OBVIOUS
  <2>2. l.items \in Seq(Thing \union {Junk}) /\ Len(l.items) <= n /\ n \in Nat
    BY <1>4, ListShape
  <2>3. /\ x \in Seq(Thing \union {Junk}) /\ Len(x) = n
        /\ \A i \in 1..Len(l.items) : x[i] = l.items[i]
    <3>1. Junk \in Thing \union {Junk}  OBVIOUS
    <3> QED  BY <2>1, <2>2, <3>1, Sized1
  <2>4. PICK g : g = [items |-> x, size |-> n, capacity |-> n, length |-> l.length]  OBVIOUS
  <2>5. Grow(l, least) = g
    <3>1. Grow(l, least) = [l EXCEPT !.items = Resized(@, n), !.size = n, !.capacity = n]
      BY <1>2, <1>4 DEF Grow
    <3>2. /\ DOMAIN l = {"items", "size", "capacity", "length"}
          /\ l = [f \in DOMAIN l |-> l[f]]
      BY ListShape
    <3> QED  BY <2>1, <2>4, <3>1, <3>2
  <2>6. \A i \in 1..Len(w) : x[i] = w[i]
    BY <2>3, ListShape
  <2>7. ListHolds(g, w)
    <3>1. /\ l.length \in Nat /\ l.length = Len(w) /\ w \in Seq(Thing) /\ l.length <= n
      BY <1>4, ListShape
    <3>2. /\ g \in [items : Seq(Thing \union {Junk}), size : Nat, capacity : Nat, length : Nat]
          /\ g.items = x /\ g.size = n /\ g.capacity = n /\ g.length = l.length
      BY <2>3, <2>4, <3>1
    <3> QED  BY <1>2, <2>3, <2>6, <3>1, <3>2 DEF ListHolds
  <2>8. least <= g.capacity /\ l.capacity <= g.capacity
    BY <1>2, <1>4, <2>4, ListShape
  <2> QED  BY <2>5, <2>7, <2>8
<1> QED  BY <1>3, <1>4

\* The items of a list are changed, from offset on, to those of v.
LEMMA ItemsWritten ==
  ASSUME NEW l, NEW w, ListHolds(l, w), NEW v \in Seq(Thing), NEW offset \in Nat,
         offset + Len(v) <= l.capacity, NEW u \in Seq(Thing), Len(u) <= l.capacity,
         \A i \in 1..Len(u) : u[i] = IF i \in offset + 1..offset + Len(v) THEN v[i - offset]
                                     ELSE w[i],
         \A i \in 1..Len(u) : i \in offset + 1..offset + Len(v) \/ i \in 1..Len(w)
  PROVE  ListHolds([l EXCEPT !.items = Write(@, offset, v), !.length = Len(u)], u)
<1>1. PICK x \in Seq(Thing \union {Junk}) : x = l.items /\ Len(x) = l.capacity
  BY ListShape
<1>2. PICK y : y = Write(x, offset, v)  OBVIOUS
<1>3. /\ y \in Seq(Thing \union {Junk}) /\ Len(y) = Len(x)
      /\ \A i \in 1..Len(x) : y[i] = IF i \in offset + 1..offset + Len(v) THEN v[i - offset] ELSE x[i]
  <2>1. v \in Seq(Thing \union {Junk}) /\ offset + Len(v) <= Len(x)  BY <1>1
  <2> QED  BY <1>2, <2>1, Written
<1>4. Len(u) \in Nat /\ Len(w) \in Nat /\ Len(x) \in Nat /\ Len(v) \in Nat
  BY ListShape, LenProperties
<1>5. ASSUME NEW i \in 1..Len(u)  PROVE  y[i] = u[i]
  <2>1. i \in 1..Len(x)  BY <1>1, <1>4
  <2>2. CASE i \in offset + 1..offset + Len(v)  BY <1>3, <2>1, <2>2
  <2>3. CASE i \notin offset + 1..offset + Len(v)
    <3>1. i \in 1..Len(w) /\ u[i] = w[i]  BY <2>3
    <3>2. x[i] = w[i]  BY <1>1, <3>1, ListShape
    <3> QED  BY <1>3, <2>1, <2>3, <3>1, <3>2
  <2> QED  BY <2>2, <2>3
<1>6. PICK q : q = [items |-> y, size |-> l.size, capacity |-> l.capacity, length |-> Len(u)]
  OBVIOUS
<1>7. [l EXCEPT !.items = Write(@, offset, v), !.length = Len(u)] = q
  <2>1. /\ DOMAIN l = {"items", "size", "capacity", "length"}
        /\ l = [f \in DOMAIN l |-> l[f]]
    BY ListShape
  <2>2. Write(l.items, offset, v) = y  BY <1>1, <1>2
  <2>3. PICK n \in Nat : n = Len(u)  BY <1>4
  <2>4. [l EXCEPT !.items = y, !.length = n] = q
    <3>1. PICK e : e = [l EXCEPT !.items = y, !.length = n]  OBVIOUS
    <3>2. /\ DOMAIN e = DOMAIN l /\ e = [f \in DOMAIN e |-> e[f]]
          /\ e.items = y /\ e.length = n /\ e.size = l.size /\ e.capacity = l.capacity
      BY <2>1, <3>1
    <3>3. e = [items |-> y, size |-> l.size, capacity |-> l.capacity, length |-> n]
      BY <2>1, <3>2
    <3> QED  BY <1>6, <2>3, <3>1, <3>3
  <2>5. [l EXCEPT !.items = Write(@, offset, v), !.length = Len(u)]
          = [l EXCEPT !.items = y, !.length = n]
    BY <2>2, <2>3, Zenon
  <2> QED  BY <2>4, <2>5
<1>8. /\ l.size = l.capacity /\ l.capacity \in Nat /\ l.capacity < 65536 /\ Len(y) = l.capacity
  BY <1>1, <1>3, ListShape
<1>9. ListHolds(q, u)
  BY <1>3, <1>4, <1>5, <1>6, <1>8 DEF ListHolds
<1> QED  BY <1>7, <1>9

LEMMA AddHolds ==
  ASSUME NEW l, NEW w, ListHolds(l, w), NEW v \in Seq(Thing), Len(w) + Len(v) <= l.capacity
  PROVE  ListHolds(Add(l, v), w \o v)
<1>1. PICK a \in Nat, b \in Nat : a = Len(w) /\ b = Len(v) /\ w \in Seq(Thing) /\ l.length = a
  BY LenProperties, ListShape
<1>2. PICK k \in Seq(Thing) : k = w  BY <1>1
<1>3. PICK u \in Seq(Thing) : u = k \o v  BY ConcatProperties
<1>4. /\ Len(u) = a + b
      /\ \A i \in 1..a + b : u[i] = IF i <= a THEN w[i] ELSE v[i - a]
  <2>1. /\ Len(u) = Len(k) + Len(v)
        /\ \A i \in 1..Len(k) + Len(v) : u[i] = IF i <= Len(k) THEN k[i] ELSE v[i - Len(k)]
    BY <1>3, ConcatProperties
  <2> QED  BY <1>1, <1>2, <2>1
<1>5. \A i \in 1..Len(u) : /\ u[i] = IF i \in a + 1..a + b THEN v[i - a] ELSE w[i]
                           /\ i \in a + 1..a + b \/ i \in 1..a
  BY <1>4
<1>6. ListHolds([l EXCEPT !.items = Write(@, a, v), !.length = Len(u)], u)
  <2>1. a + Len(v) <= l.capacity /\ Len(u) <= l.capacity  BY <1>1, <1>4
  <2>2. \A i \in 1..Len(u) : u[i] = IF i \in a + 1..a + Len(v) THEN v[i - a] ELSE w[i]
    BY <1>1, <1>5
  <2>3. \A i \in 1..Len(u) : i \in a + 1..a + Len(v) \/ i \in 1..Len(w)  BY <1>1, <1>5
  <2> QED  BY <2>1, <2>2, <2>3, ItemsWritten
<1>7. Add(l, v) = [l EXCEPT !.items = Write(@, a, v), !.length = Len(u)]
  BY <1>1, <1>4, ListShape DEF Add
<1> QED  BY <1>2, <1>3, <1>6, <1>7

\* A sequence is known by its length and its elements.
LEMMA SameSeq ==
  ASSUME NEW S, NEW s \in Seq(S), NEW T, NEW t \in Seq(T), Len(s) = Len(t),
         \A i \in 1..Len(s) : s[i] = t[i]
  PROVE  s = t
<1>1. s \in Seq(S \union T) /\ t \in Seq(S \union T)  OBVIOUS
<1> QED  BY <1>1, SeqEqual

LEMMA ItemsAre ==
  ASSUME NEW l, NEW w, ListHolds(l, w)
  PROVE  Items(l) = w
<1>1. PICK n \in Nat, x \in Seq(Thing \union {Junk}) :
        /\ n = l.length /\ n = Len(w) /\ x = l.items /\ n <= Len(x)
  BY ListShape, LenProperties
<1>2. PICK d : d = SubSeq(x, 1, n)  OBVIOUS
<1>3. d \in Seq(Thing \union {Junk}) /\ Len(d) = n - 0 /\ \A i \in 1..n - 0 : d[i] = x[0 + i]
  <2>1. 1 = 0 + 1 /\ 0 <= n  OBVIOUS
  <2> QED  BY <1>1, <1>2, <2>1, Cut
<1>4. Len(d) = Len(w) /\ \A i \in 1..Len(d) : d[i] = w[i]
  BY <1>1, <1>3, ListShape
<1>5. d = w
  <2>1. w \in Seq(Thing)  BY ListShape
  <2> QED  BY <1>3, <1>4, <2>1, SameSeq
<1> QED  BY <1>1, <1>2, <1>5 DEF Items

LEMMA CharactersAre ==
  ASSUME NEW t, NEW w, TextHolds(t, w)
  PROVE  Characters(t) = w
<1>1. PICK n \in Nat, x \in Seq(Cell) :
        /\ n = t.length /\ n = Len(w) /\ x = t.cells /\ n <= Len(x)
        /\ w \in Seq(Letter) /\ \A i \in 1..n : x[i] = w[i]
  BY LenProperties DEF TextHolds, Roomy
<1>2. PICK d : d = SubSeq(x, 1, n)  OBVIOUS
<1>3. d \in Seq(Cell) /\ Len(d) = n - 0 /\ \A i \in 1..n - 0 : d[i] = x[0 + i]
  <2>1. 1 = 0 + 1 /\ 0 <= n  OBVIOUS
  <2> QED  BY <1>1, <1>2, <2>1, Cut
<1>4. Len(d) = Len(w) /\ \A i \in 1..Len(d) : d[i] = w[i]
  BY <1>1, <1>3
<1>5. d = w  BY <1>1, <1>3, <1>4, SameSeq
<1> QED  BY <1>1, <1>2, <1>5 DEF Characters

LEMMA PushHolds ==
  ASSUME NEW l, NEW w, ListHolds(l, w), NEW v \in Value, Len(Append(w, v)) <= MaxLength
  PROVE  ListHolds(Push(l, v), Append(w, v))
<1>1. PICK a \in Nat : a = Len(w) /\ w \in Seq(Thing) /\ l.length = a /\ l.capacity \in Nat /\ a <= l.capacity
  BY LenProperties, ListShape
<1>2. PICK z \in Seq(Thing) : z = <<v>> /\ Len(z) = 1
  BY Single DEF Thing
<1>3. Append(w, v) = w \o z /\ Len(Append(w, v)) = a + 1
  <2>1. v \in Thing  BY DEF Thing
  <2> QED  BY <1>1, <1>2, <2>1, AppendProperties, AppendIsConcat
<1>4. PICK g : g = IF l.length = l.capacity THEN Grow(l, l.capacity + 1) ELSE l  OBVIOUS
<1>5. ListHolds(g, w) /\ a + 1 <= g.capacity
  <2>1. CASE l.length = l.capacity
    <3>1. l.capacity + 1 \in Nat /\ l.capacity + 1 <= MaxLength  BY <1>1, <1>3, <2>1
    <3>2. ListHolds(Grow(l, l.capacity + 1), w) /\ l.capacity + 1 <= Grow(l, l.capacity + 1).capacity
      BY <3>1, GrowMakesRoom
    <3> QED  BY <1>1, <1>4, <2>1, <3>2
  <2>2. CASE l.length # l.capacity  BY <1>1, <1>4, <2>2
  <2> QED  BY <2>1, <2>2
<1>6. Len(w) + Len(z) <= g.capacity  BY <1>1, <1>2, <1>5
<1>7. ListHolds(Add(g, z), w \o z)  BY <1>5, <1>6, AddHolds
<1> QED  BY <1>2, <1>3, <1>4, <1>7 DEF Push

LEMMA PushListHolds ==
  ASSUME NEW l, NEW w, ListHolds(l, w), NEW m, NEW x, ListHolds(m, x), Len(w \o x) <= MaxLength
  PROVE  ListHolds(PushList(l, m), w \o x)
<1>1. PICK a \in Nat, b \in Nat :
        /\ a = Len(w) /\ w \in Seq(Thing) /\ l.length = a /\ l.capacity \in Nat /\ a <= l.capacity
        /\ b = Len(x) /\ x \in Seq(Thing) /\ m.length = b
  BY LenProperties, ListShape
<1>2. Items(m) = x  BY ItemsAre
<1>3. a + b <= MaxLength  BY <1>1, ConcatProperties
<1>4. PICK g : g = IF l.length + m.length > l.capacity THEN Grow(l, l.length + m.length) ELSE l
  OBVIOUS
<1>5. ListHolds(g, w) /\ a + b <= g.capacity
  <2>1. CASE l.length + m.length > l.capacity
    <3>1. ListHolds(Grow(l, a + b), w) /\ a + b <= Grow(l, a + b).capacity
      BY <1>3, GrowMakesRoom
    <3> QED  BY <1>1, <1>4, <2>1, <3>1
  <2>2. CASE ~ (l.length + m.length > l.capacity)  BY <1>1, <1>4, <2>2
  <2> QED  BY <2>1, <2>2
<1>6. Len(w) + Len(x) <= g.capacity  BY <1>1, <1>5
<1>7. ListHolds(Add(g, x), w \o x)  BY <1>1, <1>5, <1>6, AddHolds
<1> QED  BY <1>2, <1>4, <1>7 DEF PushList

\* A list that is made shorter keeps its memory.
LEMMA ShorterHolds ==
  ASSUME NEW l, NEW w, ListHolds(l, w), NEW n \in Nat, n <= Len(w)
  PROVE  ListHolds([l EXCEPT !.length = n], SubSeq(w, 1, n))
<1>1. w \in Seq(Thing) /\ Len(w) \in Nat  BY LenProperties, ListShape
<1>2. PICK d : d = SubSeq(w, 1, n)  OBVIOUS
<1>3. d \in Seq(Thing) /\ Len(d) = n - 0 /\ \A i \in 1..n - 0 : d[i] = w[0 + i]
  <2>1. 1 = 0 + 1 /\ 0 <= n  OBVIOUS
  <2> QED  BY <1>1, <1>2, <2>1, Cut
<1>4. Len(d) = n /\ \A i \in 1..n : d[i] = w[i]  BY <1>3
<1>5. PICK q : q = [l EXCEPT !.length = n]  OBVIOUS
<1>6. /\ q \in [items : Seq(Thing \union {Junk}), size : Nat, capacity : Nat, length : Nat]
      /\ q.items = l.items /\ q.size = l.size /\ q.capacity = l.capacity /\ q.length = n
  BY <1>5 DEF ListHolds
<1>7. \A i \in 1..n : l.items[i] = d[i]
  BY <1>1, <1>4, ListShape
<1>8. n <= l.capacity /\ l.capacity < 65536 /\ l.size = l.capacity /\ Len(l.items) = l.capacity
  BY <1>1, ListShape
<1>9. ListHolds(q, d)
  BY <1>3, <1>4, <1>6, <1>7, <1>8 DEF ListHolds
<1> QED  BY <1>2, <1>5, <1>9

LEMMA ShiftHolds ==
  ASSUME NEW l, NEW w, ListHolds(l, w), l.length > 0
  PROVE  ListHolds(Shift(l), Tail(w))
<1>1. PICK a \in Nat, x \in Seq(Thing \union {Junk}) :
        /\ a = Len(w) /\ w \in Seq(Thing) /\ l.length = a /\ a > 0 /\ w # <<>>
        /\ x = l.items /\ a <= Len(x) /\ \A i \in 1..a : x[i] = w[i]
  <2>1. /\ Len(w) \in Nat /\ w \in Seq(Thing) /\ l.length = Len(w) /\ Len(w) > 0
        /\ l.items \in Seq(Thing \union {Junk}) /\ Len(w) <= Len(l.items)
        /\ \A i \in 1..Len(w) : l.items[i] = w[i]
    BY LenProperties, ListShape
  <2>2. w # <<>>  BY <2>1
  <2> QED  BY <2>1, <2>2
<1>2. PICK u \in Seq(Thing) : u = Tail(w) /\ Len(u) = a - 1 /\ \A i \in 1..a - 1 : u[i] = w[i + 1]
  <2>1. /\ Tail(w) \in Seq(Thing) /\ Len(Tail(w)) = Len(w) - 1
        /\ \A i \in 1..Len(Tail(w)) : Tail(w)[i] = w[i + 1]
    BY <1>1, HeadTailProperties
  <2>2. Len(Tail(w)) = a - 1  BY <1>1, <2>1
  <2> QED  BY <2>1, <2>2
<1>3. PICK d : d = SubSeq(x, 2, a)  OBVIOUS
<1>4. d \in Seq(Thing \union {Junk}) /\ Len(d) = a - 1 /\ \A i \in 1..a - 1 : d[i] = x[1 + i]
  <2>1. 2 = 1 + 1 /\ 1 <= a  BY <1>1
  <2> QED  BY <1>1, <1>3, <2>1, Cut
<1>5. d = u
  <2>1. Len(d) = Len(u)  BY <1>2, <1>4
  <2>2. ASSUME NEW i \in 1..Len(d)  PROVE d[i] = u[i]
    <3>1. i \in 1..a - 1 /\ 1 + i \in 1..a /\ 1 + i = i + 1  BY <1>4
    <3> QED  BY <1>1, <1>2, <1>4, <3>1
  <2> QED  BY <1>4, <2>1, <2>2, SameSeq
<1>6. ListHolds([l EXCEPT !.items = Write(@, 0, u), !.length = Len(u)], u)
  <2>1. 0 + Len(u) <= l.capacity /\ Len(u) <= l.capacity  BY <1>1, <1>2, ListShape
  <2>2. \A i \in 1..Len(u) : /\ u[i] = IF i \in 0 + 1..0 + Len(u) THEN u[i - 0] ELSE w[i]
                             /\ i \in 0 + 1..0 + Len(u)
    BY <1>1, <1>2
  <2> QED  BY <2>1, <2>2, ItemsWritten
<1>7. Shift(l) = [l EXCEPT !.items = Write(@, 0, u), !.length = Len(u)]
  <2>1. ~ (l.length < 1)  BY <1>1
  <2>2. Shift(l) = [l EXCEPT !.items = Write(@, 0, SubSeq(l.items, 2, l.length)), !.length = @ - 1]
    BY <2>1 DEF Shift
  <2>3. SubSeq(l.items, 2, l.length) = u /\ l.length - 1 = Len(u)  BY <1>1, <1>2, <1>3, <1>5
  <2>4. /\ DOMAIN l = {"items", "size", "capacity", "length"}
        /\ l = [f \in DOMAIN l |-> l[f]]
    BY ListShape
  <2> QED  BY <2>2, <2>3, <2>4
<1> QED  BY <1>2, <1>6, <1>7

LEMMA PopHolds ==
  ASSUME NEW l, NEW w, ListHolds(l, w), l.length > 0
  PROVE  ListHolds(Pop(l), Front(w))
<1>1. Len(w) \in Nat /\ Len(w) - 1 \in Nat /\ l.length = Len(w)  BY LenProperties, ListShape
<1>2. ListHolds([l EXCEPT !.length = Len(w) - 1], SubSeq(w, 1, Len(w) - 1))
  <2>1. PICK k \in Nat : k = Len(w)  BY <1>1
  <2>2. PICK n \in Nat : n = Len(w) - 1  BY <1>1
  <2>3. n <= Len(w)  BY <2>1, <2>2
  <2> QED  BY <2>2, <2>3, ShorterHolds
<1>3. Pop(l) = [l EXCEPT !.length = Len(w) - 1]
  <2>1. ~ (l.length < 1)  BY <1>1
  <2>2. Pop(l) = [l EXCEPT !.length = @ - 1]  BY <2>1 DEF Pop
  <2> QED  BY <1>1, <2>2
<1> QED  BY <1>2, <1>3 DEF Front

LEMMA PaddingIs ==
  ASSUME NEW n \in Nat, NEW x \in Thing
  PROVE  Padding(n, x) \in Seq(Thing) /\ Len(Padding(n, x)) = n /\ \A i \in 1..n : Padding(n, x)[i] = x
BY DEF Padding

\* A list made longer with an item: what hemp_list_resize and hemp_type_list_store do.
LEMMA LongerIs ==
  ASSUME NEW w \in Seq(Thing), NEW n \in Nat, NEW x \in Thing
  PROVE  /\ Longer(w, n, x) \in Seq(Thing)
         /\ Len(Longer(w, n, x)) = IF n > Len(w) THEN n ELSE Len(w)
         /\ \A i \in 1..Len(Longer(w, n, x)) : Longer(w, n, x)[i] = IF i <= Len(w) THEN w[i] ELSE x
<1>9. PICK a \in Nat : a = Len(w)  BY LenProperties
<1>8. PICK b \in Nat : b = IF n > a THEN n - a ELSE 0
  <2>1. (IF n > a THEN n - a ELSE 0) \in Nat  OBVIOUS
  <2> QED  BY <2>1
<1>1. a = Len(w) /\ b = IF n > a THEN n - a ELSE 0  BY <1>8, <1>9
<1>2. PICK p \in Seq(Thing) : p = Padding(b, x) /\ Len(p) = b /\ \A i \in 1..b : p[i] = x
  BY PaddingIs
<1>3. PICK u \in Seq(Thing) : u = w \o p  BY ConcatProperties
<1>4. /\ Len(u) = a + b
      /\ \A i \in 1..a + b : u[i] = IF i <= a THEN w[i] ELSE p[i - a]
  <2>1. /\ Len(u) = Len(w) + Len(p)
        /\ \A i \in 1..Len(w) + Len(p) : u[i] = IF i <= Len(w) THEN w[i] ELSE p[i - Len(w)]
    BY <1>3, ConcatProperties
  <2> QED  BY <1>1, <1>2, <2>1
<1>5. Longer(w, n, x) = u  BY <1>1, <1>2, <1>3 DEF Longer
<1>6. \A i \in 1..a + b : u[i] = IF i <= a THEN w[i] ELSE x
  <2>1. ASSUME NEW i \in 1..a + b  PROVE u[i] = IF i <= a THEN w[i] ELSE x
    <3>1. CASE i <= a  BY <1>4, <3>1
    <3>2. CASE ~ (i <= a)
      <4>1. i - a \in 1..b  BY <3>2
      <4> QED  BY <1>2, <1>4, <3>2, <4>1
    <3> QED  BY <3>1, <3>2
  <2> QED  BY <2>1
<1>7. a + b = IF n > a THEN n ELSE a  BY <1>1
<1> QED  BY <1>1, <1>4, <1>5, <1>6, <1>7

LEMMA ResizeHolds ==
  ASSUME NEW l, NEW w, ListHolds(l, w), NEW n \in Nat, n <= MaxLength
  PROVE  ListHolds(Resize(l, n), Sized(w, n))
<1>1. PICK a \in Nat : a = Len(w) /\ w \in Seq(Thing) /\ l.length = a
  BY LenProperties, ListShape
<1>2. Missing \in Thing  BY DEF Thing
<1>3. CASE n > a
  <2>1. ListHolds(Grow(l, n), w) /\ n <= Grow(l, n).capacity  BY GrowMakesRoom
  <2>2. PICK b \in Nat : b = n - a  BY <1>3
  <2>3. PICK p \in Seq(Thing) : p = Padding(b, Missing) /\ Len(p) = b  BY <1>2, PaddingIs
  <2>4. Len(w) + Len(p) <= Grow(l, n).capacity  BY <1>1, <2>1, <2>2, <2>3
  <2>5. ListHolds(Add(Grow(l, n), p), w \o p)  BY <2>1, <2>4, AddHolds
  <2>6. Resize(l, n) = Add(Grow(l, n), p)  BY <1>1, <1>3, <2>2, <2>3 DEF Resize
  <2>7. Longer(w, n, Missing) = w \o p  BY <1>1, <1>3, <2>2, <2>3 DEF Longer
  <2>11. PICK u : u = w \o p  OBVIOUS
  <2>8. u \in Seq(Thing) /\ u = w \o p /\ Len(u) = n
    <3>1. u \in Seq(Thing) /\ Len(u) = Len(w) + Len(p)  BY <1>1, <2>3, <2>11, ConcatProperties
    <3>2. Len(w) + Len(p) = n  BY <1>1, <1>3, <2>2, <2>3
    <3> QED  BY <2>11, <3>1, <3>2
  <2>9. SubSeq(u, 1, n) = u  BY <2>8, SubSeqFull
  <2>10. Sized(w, n) = w \o p  BY <2>7, <2>8, <2>9 DEF Sized
  <2> QED  BY <2>5, <2>6, <2>10
<1>4. CASE ~ (n > a)
  <2>1. Resize(l, n) = [l EXCEPT !.length = n]  BY <1>1, <1>4 DEF Resize
  <2>2. ListHolds([l EXCEPT !.length = n], SubSeq(w, 1, n))  BY <1>1, <1>4, ShorterHolds
  <2>3. PICK z \in Seq(Thing) : z = Padding(0, Missing) /\ Len(z) = 0  BY <1>2, PaddingIs
  <2>4. Longer(w, n, Missing) = w \o z  BY <1>1, <1>4, <2>3 DEF Longer
  <2>5. w \o z = w  BY <1>1, <2>3, EmptySeq, ConcatEmptySeq
  <2>6. Sized(w, n) = SubSeq(w, 1, n)  BY <2>4, <2>5 DEF Sized
  <2> QED  BY <2>1, <2>2, <2>6
<1> QED  BY <1>3, <1>4

LEMMA StoredHolds ==
  ASSUME NEW l, NEW w, ListHolds(l, w), NEW index \in Int, index < MaxLength, NEW v \in Value
  PROVE  ListHolds(StoreAt(l, index, v), Stored(w, index, v))
<1>1. PICK a \in Nat : a = Len(w) /\ w \in Seq(Thing) /\ l.length = a /\ a <= l.capacity
  BY LenProperties, ListShape
<1>2. CASE index < 0
  <2>1. StoreAt(l, index, v) = l /\ Stored(w, index, v) = w  BY <1>2 DEF StoreAt, Stored
  <2> QED  BY <2>1
<1>3. CASE ~ (index < 0)
  <2>1. PICK k \in Nat : k = index /\ k + 1 <= MaxLength
    <3>1. MaxLength \in Nat  BY StorageAssumption
    <3>2. index \in Nat /\ index + 1 <= MaxLength  BY <1>3, <3>1
    <3> QED  BY <3>2
  <2>2. Nothing \in Thing /\ v \in Thing  BY DEF Thing
  <2>14. w \in Seq(Thing) /\ Nothing \in Thing  BY <1>1, <2>2
  <2>3. l.capacity \in Nat  BY ListShape
  <2>4. PICK r : r = IF index >= l.capacity THEN Grow(l, index + 1) ELSE l  OBVIOUS
  <2>5. ListHolds(r, w) /\ k + 1 <= r.capacity /\ r.length = a /\ a <= r.capacity
    <3>1. CASE index >= l.capacity
      <4>1. ListHolds(Grow(l, k + 1), w) /\ k + 1 <= Grow(l, k + 1).capacity
        BY <2>1, GrowMakesRoom
      <4>2. ListHolds(r, w) /\ k + 1 <= r.capacity  BY <2>1, <2>4, <3>1, <4>1
      <4> QED  BY <1>1, <4>2, ListShape
    <3>2. CASE ~ (index >= l.capacity)  BY <1>1, <2>1, <2>3, <2>4, <3>2
    <3> QED  BY <3>1, <3>2
  <2>13. r.capacity \in Nat  BY <2>5, ListShape
  <2>6. PICK f : f = IF index > r.length THEN Add(r, Padding(index - r.length, Nothing)) ELSE r
    OBVIOUS
  <2>7. PICK x \in Seq(Thing) :
          /\ x = Longer(w, k, Nothing) /\ Len(x) = (IF k > a THEN k ELSE a)
          /\ \A i \in 1..Len(x) : x[i] = IF i <= a THEN w[i] ELSE Nothing
    <3>1. PICK x : x = Longer(w, k, Nothing)  OBVIOUS
    <3>2. /\ x \in Seq(Thing) /\ Len(x) = IF k > Len(w) THEN k ELSE Len(w)
          /\ \A i \in 1..Len(x) : x[i] = IF i <= Len(w) THEN w[i] ELSE Nothing
      BY ZenonT(60), <2>14, <3>1, LongerIs
    <3> QED  BY <1>1, <3>1, <3>2
  <2>8. ListHolds(f, x) /\ f.capacity = r.capacity
    <3>1. CASE k > a
      <4>1. PICK b \in Nat : b = k - a  BY <3>1
      <4>2. PICK p \in Seq(Thing) : p = Padding(b, Nothing) /\ Len(p) = b  BY <2>2, PaddingIs
      <4>3. f = Add(r, p)  BY <2>1, <2>5, <2>6, <3>1, <4>1, <4>2
      <4>4. x = w \o p  BY <1>1, <2>7, <3>1, <4>1, <4>2 DEF Longer
      <4>5. Len(w) + Len(p) <= r.capacity  BY <1>1, <2>3, <2>5, <2>13, <4>1, <4>2
      <4>6. ListHolds(f, x)  BY <2>5, <4>3, <4>4, <4>5, AddHolds
      <4>7. f.capacity = r.capacity  BY <2>5, <4>3, ListShape DEF Add
      <4> QED  BY <4>6, <4>7
    <3>2. CASE ~ (k > a)
      <4>1. f = r  BY <2>1, <2>5, <2>6, <3>2
      <4>2. Len(x) = Len(w) /\ \A i \in 1..Len(x) : x[i] = w[i]  BY <1>1, <2>7, <3>2
      <4>3. x = w  BY <1>1, <4>2, SameSeq
      <4> QED  BY <2>5, <4>1, <4>3
    <3> QED  BY <3>1, <3>2
  <2>9. PICK z \in Seq(Thing) : z = <<v>> /\ Len(z) = 1 /\ z[1] = v  BY <2>2, Single
  <2>10. PICK u \in Seq(Thing) :
           /\ u = Stored(w, index, v) /\ Len(u) = (IF k + 1 > a THEN k + 1 ELSE a)
           /\ \A i \in 1..Len(u) : u[i] = IF i = k + 1 THEN v ELSE IF i <= a THEN w[i] ELSE Nothing
    <3>1. PICK n \in Nat : n = k + 1  OBVIOUS
    <3>2. PICK y \in Seq(Thing) :
            /\ y = Longer(w, n, Nothing) /\ Len(y) = (IF n > a THEN n ELSE a)
            /\ \A i \in 1..Len(y) : y[i] = IF i <= a THEN w[i] ELSE Nothing
      <4>1. PICK y : y = Longer(w, n, Nothing)  OBVIOUS
      <4>2. /\ y \in Seq(Thing) /\ Len(y) = IF n > Len(w) THEN n ELSE Len(w)
            /\ \A i \in 1..Len(y) : y[i] = IF i <= Len(w) THEN w[i] ELSE Nothing
        BY ZenonT(60), <2>14, <4>1, LongerIs
      <4> QED  BY <1>1, <4>1, <4>2
    <3>3. n \in 1..Len(y)  BY <3>1, <3>2
    <3>4. PICK u : u = [y EXCEPT ![n] = v]  OBVIOUS
    <3>5. u \in Seq(Thing) /\ Len(u) = Len(y) /\ \A i \in 1..Len(y) : u[i] = IF i = n THEN v ELSE y[i]
      BY <2>2, <3>3, <3>4, ExceptSeq
    <3>6. Stored(w, index, v) = u  BY <1>3, <2>1, <3>1, <3>2, <3>4 DEF Stored
    <3> QED  BY <3>1, <3>2, <3>5, <3>6
  <2>11. ListHolds([f EXCEPT !.items = Write(@, k, z), !.length = Len(u)], u)
    <3>1. k + Len(z) <= f.capacity /\ Len(u) <= f.capacity  BY <2>5, <2>8, <2>9, <2>10
    <3>2. ASSUME NEW i \in 1..Len(u)
          PROVE  /\ u[i] = IF i \in k + 1..k + Len(z) THEN z[i - k] ELSE x[i]
                 /\ i \in k + 1..k + Len(z) \/ i \in 1..Len(x)
      <4>1. Len(z) = 1 /\ z[1] = v  BY <2>9
      <4>2. CASE i = k + 1
        <5>1. i \in k + 1..k + Len(z) /\ i - k = 1  BY <4>1, <4>2
        <5> QED  BY <2>10, <4>1, <4>2, <5>1
      <4>3. CASE i # k + 1
        <5>1. i \notin k + 1..k + Len(z) /\ i \in 1..Len(x)  BY <2>7, <2>10, <4>1, <4>3
        <5> QED  BY <2>7, <2>10, <4>3, <5>1
      <4> QED  BY <4>2, <4>3
    <3> QED  BY <2>8, <3>1, <3>2, ItemsWritten
  <2>12. StoreAt(l, index, v) = [f EXCEPT !.items = Write(@, k, z), !.length = Len(u)]
    <3>1. f.length = Len(x)  BY <2>8, ListShape
    <3>2. Max({f.length, k + 1}) = Len(u)
      <4>1. f.length \in Int /\ k + 1 \in Int  BY <2>7, <3>1
      <4>2. Max({f.length, k + 1}) = IF f.length >= k + 1 THEN f.length ELSE k + 1
        BY <4>1, MaxOfTwo
      <4> QED  BY <2>7, <2>10, <3>1, <4>2
    <3>3. StoreAt(l, index, v) = [f EXCEPT !.items = Write(@, index, <<v>>), !.length = Max({@, index + 1})]
      BY <1>3, <2>4, <2>6 DEF StoreAt
    <3>4. [f EXCEPT !.items = Write(@, index, <<v>>), !.length = Max({@, index + 1})]
            = [f EXCEPT !.items = Write(@, k, z), !.length = Len(u)]
      <4>1. /\ DOMAIN f = {"items", "size", "capacity", "length"}
            /\ f = [g \in DOMAIN f |-> f[g]]
        BY <2>8, ListShape
      <4>2. Write(f.items, index, <<v>>) = Write(f.items, k, z)  BY <2>1, <2>9
      <4>3. Max({f.length, index + 1}) = Len(u)  BY <2>1, <3>2
      <4> QED  BY <4>1, <4>2, <4>3
    <3> QED  BY <3>3, <3>4
  <2> QED  BY <2>10, <2>11, <2>12
<1> QED  BY <1>2, <1>3

-----------------------------------------------------------------------------
(***************************************************************************)
(* Pools: hemp_pool_take and hemp_pool_grow.                               *)
(***************************************************************************)
LEMMA NewPoolOK == PoolOK(NewPool, {})
<1>1. FirstSize \in Nat /\ FirstSize > 0  BY StorageAssumption
<1>2. PICK s : s = [id |-> 1, size |-> FirstSize]  OBVIOUS
<1>3. <<s>> \in Seq([id : Nat, size : Nat]) /\ Len(<<s>>) = 1 /\ <<s>>[1] = s /\ <<s>> # <<>>
  <2>1. s \in [id : Nat, size : Nat]  BY <1>1, <1>2
  <2> QED  BY <2>1, Single
<1>4. NewPool = [slabs |-> <<s>>, next |-> <<1, 0>>, used |-> 0, capacity |-> FirstSize]
  BY <1>2 DEF NewPool
<1> QED  BY <1>1, <1>2, <1>3, <1>4 DEF PoolOK

LEMMA PoolShape ==
  ASSUME NEW p, NEW A, PoolOK(p, A)
  PROVE  /\ p.slabs \in Seq([id : Nat, size : Nat]) /\ Len(p.slabs) \in Nat /\ Len(p.slabs) > 0
         /\ p.next \in Nat \X Nat
         /\ p.next = <<p.next[1], p.next[2]>> /\ p.next[1] \in Nat /\ p.next[2] \in Nat
         /\ p.used \in Nat /\ p.capacity \in Nat /\ p.capacity > 0
         /\ p.slabs[1].size \in Nat /\ p.next[1] = Len(p.slabs) /\ p.slabs # <<>>
         /\ DOMAIN p = {"slabs", "next", "used", "capacity"} /\ p = [f \in DOMAIN p |-> p[f]]
<1>1. /\ p \in [slabs : Seq([id : Nat, size : Nat]), next : Nat \X Nat, used : Nat, capacity : Nat]
      /\ p.next[1] = Len(p.slabs) /\ p.slabs # <<>> /\ p.capacity > 0
  BY DEF PoolOK
<1>2. /\ p.slabs \in Seq([id : Nat, size : Nat]) /\ p.next \in Nat \X Nat
      /\ p.used \in Nat /\ p.capacity \in Nat
      /\ DOMAIN p = {"slabs", "next", "used", "capacity"} /\ p = [f \in DOMAIN p |-> p[f]]
  BY <1>1
<1>3. p.next = <<p.next[1], p.next[2]>> /\ p.next[1] \in Nat /\ p.next[2] \in Nat
  BY <1>2
<1>4. PICK x \in Seq([id : Nat, size : Nat]) : x = p.slabs  BY <1>2
<1>5. Len(x) \in Nat /\ Len(x) > 0  BY <1>1, <1>4, LenProperties, EmptySeq
<1>6. x[1] \in [id : Nat, size : Nat]
  <2>1. 1 \in 1..Len(x)  BY <1>5
  <2> QED  BY <2>1, ElementOfSeq
<1>7. x[1].size \in Nat  BY <1>6
<1> QED  BY <1>1, <1>2, <1>3, <1>4, <1>5, <1>7

LEMMA ReadyOK ==
  ASSUME NEW p, NEW A, PoolOK(p, A)
  PROVE  /\ PoolOK(Ready(p), A) /\ Ready(p).next[2] < Ready(p).slabs[1].size
         /\ Ready(p).next \notin A
<1>1. /\ p.slabs \in Seq([id : Nat, size : Nat]) /\ Len(p.slabs) \in Nat /\ Len(p.slabs) > 0
      /\ p.next = <<p.next[1], p.next[2]>> /\ p.next[1] \in Nat /\ p.next[2] \in Nat
      /\ p.used \in Nat /\ p.capacity \in Nat
      /\ p.slabs[1].size \in Nat /\ p.next[1] = Len(p.slabs)
  BY PoolShape
<1>2. CASE p.used = p.capacity
  <2>1. PICK n \in Nat : n = Len(p.slabs) + 1  BY <1>1
  <2>2. PICK s \in [id : Nat, size : Nat] : s = [id |-> n, size |-> p.capacity]  BY <1>1
  <2>3. PICK z \in Seq([id : Nat, size : Nat]) : z = <<s>> /\ Len(z) = 1 /\ z[1] = s  BY Single
  <2>4. PICK x \in Seq([id : Nat, size : Nat]) : x = p.slabs  BY <1>1
  <2>5. PICK y : y = z \o x  OBVIOUS
  <2>6. y \in Seq([id : Nat, size : Nat]) /\ Len(y) = n /\ y[1] = s /\ y # <<>>
    <3>1. /\ y \in Seq([id : Nat, size : Nat]) /\ Len(y) = Len(z) + Len(x)
          /\ \A i \in 1..Len(z) + Len(x) : y[i] = IF i <= Len(z) THEN z[i] ELSE x[i - Len(z)]
      BY <2>5, ConcatProperties
    <3>2. Len(z) = 1 /\ Len(x) \in Nat /\ Len(z) + Len(x) = n  BY <1>1, <2>1, <2>3, <2>4
    <3>3. Len(y) = n /\ y[1] = z[1]  BY <3>1, <3>2
    <3>4. y # <<>>  BY <1>1, <2>1, <3>3
    <3> QED  BY <2>3, <3>1, <3>3, <3>4
  <2>7. PICK q : q = [slabs |-> y, next |-> <<n, 0>>, used |-> p.used, capacity |-> 2 * p.capacity]
    OBVIOUS
  <2>8. Ready(p) = q
    <3>1. DOMAIN p = {"slabs", "next", "used", "capacity"} /\ p = [f \in DOMAIN p |-> p[f]]
      BY PoolShape
    <3>2. Ready(p) = [p EXCEPT !.slabs = <<s>> \o @, !.next = <<s.id, 0>>, !.capacity = @ * 2]
      BY <1>2, <2>1, <2>2 DEF Ready, GrowPool
    <3>3. <<s>> \o p.slabs = y /\ s.id = n /\ p.capacity * 2 = 2 * p.capacity
      BY <1>1, <2>2, <2>3, <2>4, <2>5
    <3> QED  BY <2>7, <3>1, <3>2, <3>3
  <2>9. \A a \in A : Before(a, <<n, 0>>)
    BY SMTT(60), <1>1, <2>1 DEF PoolOK, Before
  <2>10. PoolOK(q, A)
    <3>1. p.capacity > 0  BY DEF PoolOK
    <3>2. /\ q \in [slabs : Seq([id : Nat, size : Nat]), next : Nat \X Nat, used : Nat, capacity : Nat]
          /\ q.slabs = y /\ q.next = <<n, 0>> /\ q.used = p.used /\ q.capacity = 2 * p.capacity
      <4>2. p.capacity \in Nat  BY <1>1
      <4>1. 2 * p.capacity \in Nat /\ <<n, 0>> \in Nat \X Nat  BY SMTT(60), <4>2
      <4> QED  BY <1>1, <2>6, <2>7, <4>1
    <3>3. q.slabs[1].size = p.capacity /\ q.next[1] = n /\ q.next[2] = 0  BY <2>2, <2>6, <3>2
    <3>4. /\ q.next[1] = Len(q.slabs) /\ q.slabs # <<>> /\ q.capacity > 0
          /\ q.next[2] <= q.slabs[1].size /\ q.used + q.slabs[1].size = q.capacity + q.next[2]
      BY <1>1, <1>2, <2>6, <3>1, <3>2, <3>3
    <3>5. \A a \in A : Before(a, q.next)  BY <2>9, <3>2
    <3> QED  BY <3>2, <3>4, <3>5 DEF PoolOK
  <2>11. q.next = <<n, 0>> /\ q.slabs[1].size = p.capacity /\ p.capacity > 0
    BY <2>2, <2>6, <2>7 DEF PoolOK
  <2>12. <<n, 0>> \notin A
    <3>1. SUFFICES ASSUME <<n, 0>> \in A  PROVE FALSE  OBVIOUS
    <3>2. Before(<<n, 0>>, <<n, 0>>)  BY <2>9, <3>1
    <3> QED  BY <3>2 DEF Before
  <2> QED  BY <1>1, <2>8, <2>10, <2>11, <2>12
<1>3. CASE p.used # p.capacity
  <2>1. Ready(p) = p  BY <1>3 DEF Ready
  <2>2. p.next \notin A  BY <1>1 DEF PoolOK, Before
  <2>3. p.next[2] < p.slabs[1].size  BY <1>1, <1>3 DEF PoolOK
  <2> QED  BY <2>1, <2>2, <2>3
<1> QED  BY <1>2, <1>3

LEMMA TakenOK ==
  ASSUME NEW p, NEW A, PoolOK(p, A)
  PROVE  PoolOK(Taken(p), A \union {Ready(p).next})
<1>1. PICK r : r = Ready(p)  OBVIOUS
<1>2. PoolOK(r, A) /\ r.next[2] < r.slabs[1].size  BY <1>1, ReadyOK
<1>3. /\ r.slabs \in Seq([id : Nat, size : Nat]) /\ r.slabs # <<>>
      /\ r.next = <<r.next[1], r.next[2]>> /\ r.next[1] \in Nat /\ r.next[2] \in Nat
      /\ r.used \in Nat /\ r.capacity \in Nat /\ r.capacity > 0
  BY <1>2, PoolShape
<1>4. r.slabs[1].size \in Nat  BY <1>2, PoolShape
<1>5. PICK q : q = [slabs |-> r.slabs, next |-> <<r.next[1], r.next[2] + 1>>, used |-> r.used + 1,
                    capacity |-> r.capacity]
  OBVIOUS
<1>6. Taken(p) = q
  <2>1. DOMAIN r = {"slabs", "next", "used", "capacity"} /\ r = [f \in DOMAIN r |-> r[f]]
    BY <1>2, PoolShape
  <2>2. Taken(p) = [r EXCEPT !.next = <<@[1], @[2] + 1>>, !.used = @ + 1]  BY <1>1 DEF Taken
  <2>3. PICK next, used : next = <<r.next[1], r.next[2] + 1>> /\ used = r.used + 1  OBVIOUS
  <2>4. Taken(p) = [r EXCEPT !.next = next, !.used = used]  BY <2>2, <2>3
  <2>5. q = [slabs |-> r.slabs, next |-> next, used |-> used, capacity |-> r.capacity]
    BY <1>5, <2>3
  <2> QED  BY <2>1, <2>4, <2>5
<1>7. \A a \in A \union {r.next} : Before(a, q.next)
  <2>1. ASSUME NEW a \in A  PROVE Before(a, q.next)
    <3>1. Before(a, r.next)  BY <1>2 DEF PoolOK
    <3> QED  BY <1>3, <1>5, <3>1 DEF Before
  <2>2. Before(r.next, q.next)  BY SMTT(60), <1>3, <1>5 DEF Before
  <2> QED  BY <2>1, <2>2
<1>8. PoolOK(q, A \union {r.next})
  <2>1. /\ q \in [slabs : Seq([id : Nat, size : Nat]), next : Nat \X Nat, used : Nat, capacity : Nat]
        /\ q.slabs = r.slabs /\ q.next[1] = r.next[1] /\ q.next[2] = r.next[2] + 1
        /\ q.used = r.used + 1 /\ q.capacity = r.capacity
    BY <1>3, <1>5
  <2>2. /\ r.next[1] = Len(r.slabs) /\ r.next[2] <= r.slabs[1].size
        /\ r.used + r.slabs[1].size = r.capacity + r.next[2]
    BY <1>2 DEF PoolOK
  <2>3. q.used + q.slabs[1].size = q.capacity + q.next[2] /\ q.next[2] <= q.slabs[1].size
    <3>1. PICK size \in Nat, i \in Nat : size = r.slabs[1].size /\ i = r.next[2]  BY <1>3, <1>4
    <3>2. PICK u \in Nat, c \in Nat : u = r.used /\ c = r.capacity  BY <1>3
    <3>3. i < size /\ u + size = c + i  BY <1>2, <2>2, <3>1, <3>2
    <3>4. q.slabs[1].size = size /\ q.next[2] = i + 1 /\ q.used = u + 1 /\ q.capacity = c
      BY <2>1, <3>1, <3>2
    <3>5. u + 1 + size = c + (i + 1) /\ i + 1 <= size  BY <3>3
    <3> QED  BY <3>4, <3>5
  <2> QED  BY <1>3, <1>7, <2>1, <2>2, <2>3 DEF PoolOK
<1> QED  BY <1>1, <1>6, <1>8

-----------------------------------------------------------------------------
(***************************************************************************)
(* Texts, lists and pools in the actions.                                  *)
(***************************************************************************)
LEMMA WithProperties ==
  ASSUME NEW f, NEW x, NEW v
  PROVE  /\ DOMAIN With(f, x, v) = DOMAIN f \union {x} /\ With(f, x, v)[x] = v
         /\ \A y \in DOMAIN f : y # x => With(f, x, v)[y] = f[y]
BY DEF With

LEMMA AddressesAre ==
  /\ Addresses("text") = DOMAIN text /\ Addresses("list") = DOMAIN list
  /\ Addresses("code") = DOMAIN code /\ Pools = {"text", "list", "code"}
BY DEF Addresses, Pools

LEMMA AddressesWillBe ==
  /\ Addresses("text")' = DOMAIN text' /\ Addresses("list")' = DOMAIN list'
  /\ Addresses("code")' = DOMAIN code'
BY DEF Addresses

\* Without temporaries, as after hemp_context_free.
LEMMA Emptied ==
  ASSUME text' = <<>>, list' = <<>>, code' = <<>>, meant' = <<>>,
         pool' = [k \in Pools |-> NewPool]
  PROVE  StorageInv'
<1>1. DOMAIN text' = {} /\ DOMAIN list' = {} /\ DOMAIN code' = {} /\ DOMAIN meant' = {}  OBVIOUS
<1>2. Held'  BY <1>1 DEF Held
<1>3. \A k \in Pools : Addresses(k)' = {} /\ pool'[k] = NewPool
  BY <1>1, AddressesAre, AddressesWillBe
<1>4. PoolsOK'
  <2>1. DOMAIN pool' = Pools  OBVIOUS
  <2>2. \A k \in Pools : PoolOK(pool'[k], Addresses(k)')  BY <1>3, NewPoolOK
  <2> QED  BY <1>3, <2>1, <2>2 DEF PoolsOK
<1> QED  BY <1>2, <1>4 DEF StorageInv

LEMMA StorageStarts == StorageInit => StorageInv
<1> SUFFICES ASSUME StorageInit  PROVE StorageInv  OBVIOUS
<1>1. /\ text = <<>> /\ list = <<>> /\ code = <<>> /\ meant = <<>>
      /\ pool = [k \in Pools |-> NewPool]
  BY DEF StorageInit
<1>2. DOMAIN text = {} /\ DOMAIN list = {} /\ DOMAIN code = {} /\ DOMAIN meant = {}  BY <1>1
<1>3. Held  BY <1>2 DEF Held
<1>4. \A k \in Pools : Addresses(k) = {} /\ pool[k] = NewPool
  BY <1>1, <1>2, AddressesAre
<1>5. PoolsOK
  <2>1. DOMAIN pool = Pools  BY <1>1
  <2> QED  BY <1>4, <2>1, NewPoolOK DEF PoolsOK
<1> QED  BY <1>3, <1>5 DEF StorageInv

LEMMA NewKeeps ==
  ASSUME StorageInv, New
  PROVE  StorageInv'
<1>1. UNCHANGED <<text, list, code, meant>> /\ pool' = [k \in Pools |-> NewPool] /\ ~ open
  BY DEF New
<1>2. Held'  BY <1>1 DEF Held, StorageInv
<1>3. DOMAIN text = {} /\ DOMAIN list = {} /\ DOMAIN code = {}
  BY <1>1, AddressesAre DEF StorageInv, PoolsOK
<1>4. \A k \in Pools : Addresses(k)' = {} /\ pool'[k] = NewPool
  BY <1>1, <1>3, AddressesAre, AddressesWillBe
<1>5. PoolsOK'
  <2>1. DOMAIN pool' = Pools  BY <1>1
  <2>2. \A k \in Pools : PoolOK(pool'[k], Addresses(k)')  BY <1>4, NewPoolOK
  <2> QED  BY <1>4, <2>1, <2>2 DEF PoolsOK
<1> QED  BY <1>2, <1>5 DEF StorageInv

\* hemp_pool_take for one of the pools: the new item is of that pool alone.
LEMMA TakePools ==
  ASSUME PoolsOK, NEW k \in Pools, NEW B, Take(k, B), open' = open,
         Addresses(k)' = Addresses(k) \union {Address(k)},
         \A j \in Pools : j # k => Addresses(j)' = Addresses(j)
  PROVE  PoolsOK'
<1>1. pool' = [pool EXCEPT ![k] = Taken(@)] /\ DOMAIN pool = Pools /\ open
  BY DEF Take, PoolsOK
<1>2. DOMAIN pool' = Pools /\ pool'[k] = Taken(pool[k]) /\ \A j \in Pools : j # k => pool'[j] = pool[j]
  BY <1>1
<1>3. PoolOK(pool[k], Addresses(k))  BY DEF PoolsOK
<1>4. PoolOK(Taken(pool[k]), Addresses(k) \union {Ready(pool[k]).next})  BY <1>3, TakenOK
<1>5. ASSUME NEW j \in Pools  PROVE PoolOK(pool'[j], Addresses(j)')
  <2>1. CASE j = k  BY <1>2, <1>4, <2>1 DEF Address
  <2>2. CASE j # k  BY <1>2, <2>2 DEF PoolsOK
  <2> QED  BY <2>1, <2>2
<1>6. open'  BY <1>1
<1> QED  BY <1>2, <1>5, <1>6 DEF PoolsOK

LEMMA TakeTextKeeps ==
  ASSUME StorageInv, TakeText
  PROVE  StorageInv'
<1>7. PICK size \in Sizes :
        /\ Take("text", IF size = 0 THEN {} ELSE {Block("text", Address("text"))})
        /\ text' = With(text, Address("text"), NewText(size))
        /\ meant' = With(meant, <<"text", Address("text")>>, <<>>)
        /\ UNCHANGED <<open, list, code, freed>>
  BY DEF TakeText
<1>1. PICK a, B :
        /\ a = Address("text") /\ Take("text", B)
        /\ text' = With(text, a, NewText(size)) /\ meant' = With(meant, <<"text", a>>, <<>>)
        /\ UNCHANGED <<open, list, code, freed>>
  BY <1>7
<1>2. TextHolds(NewText(size), <<>>)
  <2>1. size \in Nat  BY StorageAssumption
  <2>2. <<>> \in Seq(Letter) /\ Len(<<>>) = 0 /\ <<>> \in Seq(Cell)  BY EmptySeq
  <2>3. CASE size = 0
    <3>1. NewText(size) = [cells |-> <<>>, size |-> 0, capacity |-> 0, length |-> 0]
      BY <2>3 DEF NewText
    <3> QED  BY <2>2, <3>1 DEF TextHolds, Roomy
  <2>4. CASE size # 0
    <3>4. PICK n \in Nat : n = size + 1  BY <2>1
    <3>5. PICK x : x = Fresh(n)  OBVIOUS
    <3>1. n = size + 1 /\ x = Fresh(n)  BY <3>4, <3>5
    <3>2. x \in Seq(Cell) /\ Len(x) = n  BY <3>1 DEF Fresh, Cell
    <3>3. NewText(size) = [cells |-> x, size |-> n, capacity |-> size, length |-> 0]
      BY <2>4, <3>1 DEF NewText
    <3> QED  BY <2>1, <2>2, <3>1, <3>2, <3>3 DEF TextHolds, Roomy
  <2> QED  BY <2>3, <2>4
<1>3. /\ DOMAIN text' = DOMAIN text \union {a} /\ text'[a] = NewText(size)
      /\ \A b \in DOMAIN text : b # a => text'[b] = text[b]
  <2>1. PICK v : v = NewText(size)  OBVIOUS
  <2>2. text' = With(text, a, v)  BY <1>1, <2>1
  <2> QED  BY <2>1, <2>2 DEF With
<1>4. /\ DOMAIN meant' = DOMAIN meant \union {<<"text", a>>} /\ meant'[<<"text", a>>] = <<>>
      /\ \A x \in DOMAIN meant : x # <<"text", a>> => meant'[x] = meant[x]
  <2>1. PICK v, z : v = <<>> /\ z = <<"text", a>>  OBVIOUS
  <2>2. meant' = With(meant, z, v)  BY <1>1, <2>1
  <2>3. /\ DOMAIN meant' = DOMAIN meant \union {z} /\ meant'[z] = v
        /\ \A x \in DOMAIN meant : x # z => meant'[x] = meant[x]
    BY <2>2 DEF With
  <2> QED  BY <2>1, <2>3
<1>5. Held'
  <2>1. DOMAIN meant' = {<<"text", b>> : b \in DOMAIN text'} \union {<<"list", b>> : b \in DOMAIN list'}
    BY <1>1, <1>3, <1>4 DEF StorageInv, Held
  <2>2. ASSUME NEW b \in DOMAIN text'  PROVE TextHolds(text'[b], meant'[<<"text", b>>])
    <3>1. CASE b = a  BY <1>2, <1>3, <1>4, <3>1
    <3>2. CASE b # a
      <4>1. b \in DOMAIN text /\ <<"text", b>> # <<"text", a>> /\ <<"text", b>> \in DOMAIN meant
        BY <1>3, <3>2 DEF StorageInv, Held
      <4> QED  BY <1>3, <1>4, <3>2, <4>1 DEF StorageInv, Held
    <3> QED  BY <3>1, <3>2
  <2>3. ASSUME NEW b \in DOMAIN list'  PROVE ListHolds(list'[b], meant'[<<"list", b>>])
    <3>1. b \in DOMAIN list /\ <<"list", b>> # <<"text", a>> /\ <<"list", b>> \in DOMAIN meant
      BY <1>1 DEF StorageInv, Held
    <3> QED  BY <1>1, <1>4, <3>1 DEF StorageInv, Held
  <2> QED  BY <2>1, <2>2, <2>3 DEF Held
<1>6. PoolsOK'
  <2>1. Addresses("text")' = Addresses("text") \union {Address("text")}
    BY <1>1, <1>3, AddressesAre, AddressesWillBe
  <2>2. \A j \in Pools : j # "text" => Addresses(j)' = Addresses(j)
    BY <1>1, AddressesAre, AddressesWillBe
  <2>3. "text" \in Pools /\ PoolsOK /\ open' = open  BY <1>1 DEF Pools, StorageInv
  <2> QED  BY <1>1, <2>1, <2>2, <2>3, TakePools
<1> QED  BY <1>5, <1>6 DEF StorageInv

LEMMA TakeListKeeps ==
  ASSUME StorageInv, TakeList
  PROVE  StorageInv'
<1>1. PICK a :
        /\ a = Address("list") /\ Take("list", {})
        /\ list' = With(list, a, NewList) /\ meant' = With(meant, <<"list", a>>, <<>>)
        /\ UNCHANGED <<open, text, code, freed>>
  BY DEF TakeList
<1>2. ListHolds(NewList, <<>>)
  <2>1. <<>> \in Seq(Thing) /\ Len(<<>>) = 0 /\ <<>> \in Seq(Thing \union {Junk})  BY EmptySeq
  <2> QED  BY <2>1 DEF ListHolds, NewList
<1>3. /\ DOMAIN list' = DOMAIN list \union {a} /\ list'[a] = NewList
      /\ \A b \in DOMAIN list : b # a => list'[b] = list[b]
  <2>1. PICK v : v = NewList  OBVIOUS
  <2>2. list' = With(list, a, v)  BY <1>1, <2>1
  <2> QED  BY <2>1, <2>2 DEF With
<1>4. /\ DOMAIN meant' = DOMAIN meant \union {<<"list", a>>} /\ meant'[<<"list", a>>] = <<>>
      /\ \A x \in DOMAIN meant : x # <<"list", a>> => meant'[x] = meant[x]
  <2>1. PICK v, z : v = <<>> /\ z = <<"list", a>>  OBVIOUS
  <2>2. meant' = With(meant, z, v)  BY <1>1, <2>1
  <2>3. /\ DOMAIN meant' = DOMAIN meant \union {z} /\ meant'[z] = v
        /\ \A x \in DOMAIN meant : x # z => meant'[x] = meant[x]
    BY <2>2 DEF With
  <2> QED  BY <2>1, <2>3
<1>5. Held'
  <2>1. DOMAIN meant' = {<<"text", b>> : b \in DOMAIN text'} \union {<<"list", b>> : b \in DOMAIN list'}
    BY <1>1, <1>3, <1>4 DEF StorageInv, Held
  <2>2. ASSUME NEW b \in DOMAIN list'  PROVE ListHolds(list'[b], meant'[<<"list", b>>])
    <3>1. CASE b = a  BY <1>2, <1>3, <1>4, <3>1
    <3>2. CASE b # a
      <4>1. b \in DOMAIN list /\ <<"list", b>> # <<"list", a>> /\ <<"list", b>> \in DOMAIN meant
        BY <1>3, <3>2 DEF StorageInv, Held
      <4> QED  BY <1>3, <1>4, <3>2, <4>1 DEF StorageInv, Held
    <3> QED  BY <3>1, <3>2
  <2>3. ASSUME NEW b \in DOMAIN text'  PROVE TextHolds(text'[b], meant'[<<"text", b>>])
    <3>1. b \in DOMAIN text /\ <<"text", b>> # <<"list", a>> /\ <<"text", b>> \in DOMAIN meant
      BY <1>1 DEF StorageInv, Held
    <3> QED  BY <1>1, <1>4, <3>1 DEF StorageInv, Held
  <2> QED  BY <2>1, <2>2, <2>3 DEF Held
<1>6. PoolsOK'
  <2>1. Addresses("list")' = Addresses("list") \union {Address("list")}
    BY <1>1, <1>3, AddressesAre, AddressesWillBe
  <2>2. \A j \in Pools : j # "list" => Addresses(j)' = Addresses(j)
    BY <1>1, AddressesAre, AddressesWillBe
  <2>3. "list" \in Pools /\ PoolsOK /\ open' = open  BY <1>1 DEF Pools, StorageInv
  <2> QED  BY <1>1, <2>1, <2>2, <2>3, TakePools
<1> QED  BY <1>5, <1>6 DEF StorageInv

LEMMA TakeCodeKeeps ==
  ASSUME StorageInv, TakeCode
  PROVE  StorageInv'
<1>1. /\ Take("code", {}) /\ code' = With(code, Address("code"), FALSE)
      /\ UNCHANGED <<open, text, list, meant, freed>>
  BY DEF TakeCode
<1>2. Held'  BY <1>1 DEF Held, StorageInv
<1>3. DOMAIN code' = DOMAIN code \union {Address("code")}  BY <1>1, WithProperties
<1>4. PoolsOK'
  <2>1. Addresses("code")' = Addresses("code") \union {Address("code")}
    BY <1>3, AddressesAre, AddressesWillBe
  <2>2. \A j \in Pools : j # "code" => Addresses(j)' = Addresses(j)
    BY <1>1, AddressesAre, AddressesWillBe
  <2>3. "code" \in Pools /\ PoolsOK /\ open' = open  BY <1>1 DEF Pools, StorageInv
  <2> QED  BY <1>1, <2>1, <2>2, <2>3, TakePools
<1> QED  BY <1>2, <1>4 DEF StorageInv

\* What does not change which items there are keeps the pools.
LEMMA PoolsStay ==
  ASSUME PoolsOK, UNCHANGED <<open, pool>>,
         DOMAIN text' = DOMAIN text, DOMAIN list' = DOMAIN list, DOMAIN code' = DOMAIN code
  PROVE  PoolsOK'
<1>1. \A k \in Pools : Addresses(k)' = Addresses(k)  BY AddressesAre, AddressesWillBe
<1> QED  BY <1>1 DEF PoolsOK

LEMMA SetTextKeeps ==
  ASSUME StorageInv, NEW a \in DOMAIN text, NEW t, NEW w, SetText(a, t, w), TextHolds(t, w)
  PROVE  StorageInv'
<1>1. /\ meant' = [meant EXCEPT ![<<"text", a>>] = w] /\ text' = [text EXCEPT ![a] = t]
      /\ UNCHANGED <<open, pool, list, code>>
  BY DEF SetText, Means
<1>2. <<"text", a>> \in DOMAIN meant  BY DEF StorageInv, Held
<1>3. /\ DOMAIN meant' = DOMAIN meant /\ meant'[<<"text", a>>] = w
      /\ \A x \in DOMAIN meant : x # <<"text", a>> => meant'[x] = meant[x]
  BY <1>1, <1>2
<1>4. /\ DOMAIN text' = DOMAIN text /\ text'[a] = t
      /\ \A b \in DOMAIN text : b # a => text'[b] = text[b]
  BY <1>1
<1>5. Held'
  <2>1. DOMAIN meant' = {<<"text", b>> : b \in DOMAIN text'} \union {<<"list", b>> : b \in DOMAIN list'}
    BY <1>1, <1>3, <1>4 DEF StorageInv, Held
  <2>2. ASSUME NEW b \in DOMAIN text'  PROVE TextHolds(text'[b], meant'[<<"text", b>>])
    <3>1. CASE b = a  BY <1>3, <1>4, <3>1
    <3>2. CASE b # a
      <4>1. b \in DOMAIN text /\ <<"text", b>> # <<"text", a>> /\ <<"text", b>> \in DOMAIN meant
        BY <1>4, <3>2 DEF StorageInv, Held
      <4> QED  BY <1>3, <1>4, <3>2, <4>1 DEF StorageInv, Held
    <3> QED  BY <3>1, <3>2
  <2>3. ASSUME NEW b \in DOMAIN list'  PROVE ListHolds(list'[b], meant'[<<"list", b>>])
    <3>1. b \in DOMAIN list /\ <<"list", b>> # <<"text", a>> /\ <<"list", b>> \in DOMAIN meant
      BY <1>1 DEF StorageInv, Held
    <3> QED  BY <1>1, <1>3, <3>1 DEF StorageInv, Held
  <2> QED  BY <2>1, <2>2, <2>3 DEF Held
<1>6. PoolsOK'
  <2>1. PoolsOK /\ DOMAIN list' = DOMAIN list /\ DOMAIN code' = DOMAIN code  BY <1>1 DEF StorageInv
  <2> QED  BY <1>1, <1>4, <2>1, PoolsStay
<1> QED  BY <1>5, <1>6 DEF StorageInv

LEMMA SetListKeeps ==
  ASSUME StorageInv, NEW a \in DOMAIN list, NEW l, NEW w, SetList(a, l, w), ListHolds(l, w)
  PROVE  StorageInv'
<1>1. /\ meant' = [meant EXCEPT ![<<"list", a>>] = w] /\ list' = [list EXCEPT ![a] = l]
      /\ UNCHANGED <<open, pool, text, code>>
  BY DEF SetList, Means
<1>2. <<"list", a>> \in DOMAIN meant  BY DEF StorageInv, Held
<1>3. /\ DOMAIN meant' = DOMAIN meant /\ meant'[<<"list", a>>] = w
      /\ \A x \in DOMAIN meant : x # <<"list", a>> => meant'[x] = meant[x]
  BY <1>1, <1>2
<1>4. /\ DOMAIN list' = DOMAIN list /\ list'[a] = l
      /\ \A b \in DOMAIN list : b # a => list'[b] = list[b]
  BY <1>1
<1>5. Held'
  <2>1. DOMAIN meant' = {<<"text", b>> : b \in DOMAIN text'} \union {<<"list", b>> : b \in DOMAIN list'}
    BY <1>1, <1>3, <1>4 DEF StorageInv, Held
  <2>2. ASSUME NEW b \in DOMAIN list'  PROVE ListHolds(list'[b], meant'[<<"list", b>>])
    <3>1. CASE b = a  BY <1>3, <1>4, <3>1
    <3>2. CASE b # a
      <4>1. b \in DOMAIN list /\ <<"list", b>> # <<"list", a>> /\ <<"list", b>> \in DOMAIN meant
        BY <1>4, <3>2 DEF StorageInv, Held
      <4> QED  BY <1>3, <1>4, <3>2, <4>1 DEF StorageInv, Held
    <3> QED  BY <3>1, <3>2
  <2>3. ASSUME NEW b \in DOMAIN text'  PROVE TextHolds(text'[b], meant'[<<"text", b>>])
    <3>1. b \in DOMAIN text /\ <<"text", b>> # <<"list", a>> /\ <<"text", b>> \in DOMAIN meant
      BY <1>1 DEF StorageInv, Held
    <3> QED  BY <1>1, <1>3, <3>1 DEF StorageInv, Held
  <2> QED  BY <2>1, <2>2, <2>3 DEF Held
<1>6. PoolsOK'
  <2>1. PoolsOK /\ DOMAIN text' = DOMAIN text /\ DOMAIN code' = DOMAIN code  BY <1>1 DEF StorageInv
  <2> QED  BY <1>1, <1>4, <2>1, PoolsStay
<1> QED  BY <1>5, <1>6 DEF StorageInv

LEMMA UseTextKeeps ==
  ASSUME StorageInv, UseText
  PROVE  StorageInv'
<1>1. PICK a \in DOMAIN text :
        \/ \E w \in Word : AppendString(a, w) \/ ReplaceString(a, w)
        \/ \E b \in DOMAIN text : AppendText(a, b)
        \/ \E w \in Word, offset \in Offset : InsertString(a, offset, w)
        \/ \E n \in 0..MaxLength : TruncateText(a, n)
  BY DEF UseText
<1>2. \A b \in DOMAIN text : TextHolds(text[b], MeantText(b))  BY DEF StorageInv, Held, MeantText
<1>3. Word \subseteq Seq(Letter) /\ Offset \subseteq Int  BY StorageAssumption
<1>4. PICK t, m : t = text[a] /\ m = MeantText(a) /\ TextHolds(t, m)  BY <1>2
<1>5. ASSUME NEW w \in Word, AppendString(a, w)  PROVE StorageInv'
  <2>1. TextHolds(Appended(t, w), m \o w)  BY <1>3, <1>4, AppendedHolds
  <2>2. SetText(a, Appended(t, w), m \o w)  BY <1>4, <1>5 DEF AppendString
  <2> QED  BY <2>1, <2>2, SetTextKeeps
<1>6. ASSUME NEW w \in Word, ReplaceString(a, w)  PROVE StorageInv'
  <2>1. TextHolds(Replace(t, w), w)  BY <1>3, <1>4, ReplaceHolds
  <2>2. SetText(a, Replace(t, w), w)  BY <1>4, <1>6 DEF ReplaceString
  <2> QED  BY <2>1, <2>2, SetTextKeeps
<1>7. ASSUME NEW b \in DOMAIN text, AppendText(a, b)  PROVE StorageInv'
  <2>1. PICK w \in Seq(Letter) : w = MeantText(b) /\ TextHolds(text[b], w)
    BY <1>2 DEF TextHolds
  <2>2. Characters(text[b]) = w  BY <2>1, CharactersAre
  <2>3. TextHolds(Appended(t, w), m \o w)  BY <1>4, AppendedHolds
  <2>4. SetText(a, Appended(t, w), m \o w)  BY <1>4, <1>7, <2>1, <2>2 DEF AppendText
  <2> QED  BY <2>3, <2>4, SetTextKeeps
<1>8. ASSUME NEW w \in Word, NEW offset \in Offset, InsertString(a, offset, w)  PROVE StorageInv'
  <2>1. TextHolds(Insert(t, offset, w), Spliced(m, offset, w))  BY <1>3, <1>4, InsertedHolds
  <2>2. SetText(a, Insert(t, offset, w), Spliced(m, offset, w))  BY <1>4, <1>8 DEF InsertString
  <2> QED  BY <2>1, <2>2, SetTextKeeps
<1>9. ASSUME NEW n \in 0..MaxLength, TruncateText(a, n)  PROVE StorageInv'
  <2>1. n \in Nat /\ n < t.length  BY <1>4, <1>9, StorageAssumption DEF TruncateText
  <2>2. TextHolds(Truncate(t, n), SubSeq(m, 1, n))  BY <1>4, <2>1, TruncatedHolds
  <2>3. SetText(a, Truncate(t, n), SubSeq(m, 1, n))  BY <1>4, <1>9 DEF TruncateText
  <2> QED  BY <2>2, <2>3, SetTextKeeps
<1> QED  BY <1>1, <1>5, <1>6, <1>7, <1>8, <1>9

LEMMA UseListKeeps ==
  ASSUME StorageInv, UseList
  PROVE  StorageInv'
<1>1. PICK a \in DOMAIN list :
        \/ \E v \in Value : PushValue(a, v) \/ \E index \in Offset : StoreItem(a, index, v)
        \/ \E b \in DOMAIN list : PushValues(a, b)
        \/ ShiftValue(a) \/ PopValue(a)
        \/ \E n \in 0..MaxLength : ResizeList(a, n)
  BY DEF UseList
<1>2. \A b \in DOMAIN list : ListHolds(list[b], MeantList(b))  BY DEF StorageInv, Held, MeantList
<1>3. Offset \subseteq Int /\ MaxLength \in Nat  BY StorageAssumption
<1>4. PICK l, m : l = list[a] /\ m = MeantList(a) /\ ListHolds(l, m)  BY <1>2
<1>5. ASSUME NEW v \in Value, PushValue(a, v)  PROVE StorageInv'
  <2>1. SetList(a, Push(l, v), Append(m, v))  BY <1>4, <1>5 DEF PushValue
  <2>2. Len(Append(m, v)) <= MaxLength  BY <2>1 DEF SetList, Means
  <2>3. ListHolds(Push(l, v), Append(m, v))  BY <1>4, <2>2, PushHolds
  <2> QED  BY <2>1, <2>3, SetListKeeps
<1>6. ASSUME NEW v \in Value, NEW index \in Offset, StoreItem(a, index, v)  PROVE StorageInv'
  <2>1. SetList(a, StoreAt(l, index, v), Stored(m, index, v)) /\ index < MaxLength
    BY <1>4, <1>6 DEF StoreItem
  <2>2. ListHolds(StoreAt(l, index, v), Stored(m, index, v))  BY <1>3, <1>4, <2>1, StoredHolds
  <2> QED  BY <2>1, <2>2, SetListKeeps
<1>7. ASSUME NEW b \in DOMAIN list, PushValues(a, b)  PROVE StorageInv'
  <2>1. PICK k, x : k = list[b] /\ x = MeantList(b) /\ ListHolds(k, x)  BY <1>2
  <2>2. SetList(a, PushList(l, k), m \o x)  BY <1>4, <1>7, <2>1 DEF PushValues
  <2>3. Len(m \o x) <= MaxLength  BY <2>2 DEF SetList, Means
  <2>4. ListHolds(PushList(l, k), m \o x)  BY <1>4, <2>1, <2>3, PushListHolds
  <2> QED  BY <2>2, <2>4, SetListKeeps
<1>8. ASSUME ShiftValue(a)  PROVE StorageInv'
  <2>1. SetList(a, Shift(l), Tail(m)) /\ l.length > 0  BY <1>4, <1>8 DEF ShiftValue
  <2>2. ListHolds(Shift(l), Tail(m))  BY <1>4, <2>1, ShiftHolds
  <2> QED  BY <2>1, <2>2, SetListKeeps
<1>9. ASSUME PopValue(a)  PROVE StorageInv'
  <2>1. SetList(a, Pop(l), Front(m)) /\ l.length > 0  BY <1>4, <1>9 DEF PopValue
  <2>2. ListHolds(Pop(l), Front(m))  BY <1>4, <2>1, PopHolds
  <2> QED  BY <2>1, <2>2, SetListKeeps
<1>10. ASSUME NEW n \in 0..MaxLength, ResizeList(a, n)  PROVE StorageInv'
  <2>1. SetList(a, Resize(l, n), Sized(m, n)) /\ n \in Nat /\ n <= MaxLength
    BY <1>3, <1>4, <1>10 DEF ResizeList
  <2>2. ListHolds(Resize(l, n), Sized(m, n))  BY <1>4, <2>1, ResizeHolds
  <2> QED  BY <2>1, <2>2, SetListKeeps
<1> QED  BY <1>1, <1>5, <1>6, <1>7, <1>8, <1>9, <1>10

LEMMA CodeProtoKeeps ==
  ASSUME StorageInv, NEW a \in DOMAIN code, CodeProto(a)
  PROVE  StorageInv'
<1>1. /\ code' = [code EXCEPT ![a] = TRUE] /\ UNCHANGED <<open, pool, text, list, meant>>
  BY DEF CodeProto
<1>2. Held'  BY <1>1 DEF Held, StorageInv
<1>3. DOMAIN code' = DOMAIN code /\ DOMAIN text' = DOMAIN text /\ DOMAIN list' = DOMAIN list
  BY <1>1
<1>4. PoolsOK'  BY <1>1, <1>3, PoolsStay DEF StorageInv
<1> QED  BY <1>2, <1>4 DEF StorageInv

\* Every operation on a temporary text or list leaves in memory what it is to
\* hold, and pools hand out addresses in order (type/text.c, type/list.c, pool.c).
THEOREM StorageInvariant == StorageSpec => []StorageInv
<1>1. ASSUME StorageInv, [StorageNext]_storageVars  PROVE StorageInv'
  <2>1. CASE UNCHANGED storageVars
    <3>1. UNCHANGED <<open, pool, text, list, code, meant>>  BY <2>1 DEF storageVars
    <3>2. Held'  BY <1>1, <3>1 DEF Held, StorageInv
    <3>3. PoolsOK'  BY <1>1, <3>1, PoolsStay DEF StorageInv
    <3> QED  BY <3>2, <3>3 DEF StorageInv
  <2>2. CASE New  BY <1>1, <2>2, NewKeeps
  <2>3. CASE Free
    <3>1. /\ text' = <<>> /\ list' = <<>> /\ code' = <<>> /\ meant' = <<>>
          /\ pool' = [k \in Pools |-> NewPool]
      BY <2>3 DEF Free
    <3> QED  BY <3>1, Emptied
  <2>4. CASE TakeText  BY <1>1, <2>4, TakeTextKeeps
  <2>5. CASE TakeList  BY <1>1, <2>5, TakeListKeeps
  <2>6. CASE TakeCode  BY <1>1, <2>6, TakeCodeKeeps
  <2>7. CASE UseText  BY <1>1, <2>7, UseTextKeeps
  <2>8. CASE UseList  BY <1>1, <2>8, UseListKeeps
  <2>9. ASSUME NEW a \in DOMAIN code, CodeProto(a)  PROVE StorageInv'
    BY <1>1, <2>9, CodeProtoKeeps
  <2> QED  BY <1>1, <2>1, <2>2, <2>3, <2>4, <2>5, <2>6, <2>7, <2>8, <2>9 DEF StorageNext
<1> QED  BY <1>1, StorageStarts, PTL DEF StorageSpec

\* A text or a list of a context holds what was written to it, wherever that was
\* written and however its memory was moved (type/text.c, type/list.c).
THEOREM HoldsContents == StorageSpec => []HoldsWhatWasPut
<1>1. StorageInv => HoldsWhatWasPut
  <2> SUFFICES ASSUME StorageInv  PROVE HoldsWhatWasPut  OBVIOUS
  <2>1. ASSUME NEW a \in DOMAIN text  PROVE Characters(text[a]) = MeantText(a)
    BY CharactersAre DEF StorageInv, Held, MeantText
  <2>2. ASSUME NEW a \in DOMAIN list
        PROVE  /\ Items(list[a]) = MeantList(a)
               /\ \A i \in Offset : FetchAt(list[a], i) =
                    IF i \in 0..Len(MeantList(a)) - 1 THEN MeantList(a)[i + 1] ELSE Missing
    <3>1. PICK l, w : l = list[a] /\ w = MeantList(a) /\ ListHolds(l, w)
      BY DEF StorageInv, Held, MeantList
    <3>2. Items(l) = w  BY <3>1, ItemsAre
    <3>3. ASSUME NEW i \in Offset
          PROVE  FetchAt(l, i) = IF i \in 0..Len(w) - 1 THEN w[i + 1] ELSE Missing
      <4>1. i \in Int /\ Len(w) \in Nat /\ l.length = Len(w)
        BY <3>1, LenProperties, ListShape, StorageAssumption
      <4>2. CASE i \in 0..Len(w) - 1
        <5>1. i + 1 \in 1..Len(w) /\ ~ (i < 0 \/ i >= l.length)  BY <4>1, <4>2
        <5>2. l.items[i + 1] = w[i + 1]  BY <3>1, <5>1, ListShape
        <5> QED  BY <4>2, <5>1, <5>2 DEF FetchAt
      <4>3. CASE i \notin 0..Len(w) - 1
        <5>1. i < 0 \/ i >= l.length  BY <4>1, <4>3
        <5> QED  BY <4>3, <5>1 DEF FetchAt
      <4> QED  BY <4>2, <4>3
    <3> QED  BY <3>1, <3>2, <3>3
  <2> QED  BY <2>1, <2>2 DEF HoldsWhatWasPut
<1> QED  BY <1>1, StorageInvariant, PTL

\* No operation writes past the end of the memory of a text or a list, and every
\* text ends with a NUL that is in its memory (hemp_text_capacity, hemp_list_grow).
THEOREM NothingWrittenBeyond == StorageSpec => []StaysInMemory
<1>1. StorageInv => StaysInMemory
  <2> SUFFICES ASSUME StorageInv  PROVE StaysInMemory  OBVIOUS
  <2>1. ASSUME NEW a \in DOMAIN text
        PROVE  /\ Len(text[a].cells) = text[a].size
               /\ text[a].length > 0 =>
                    /\ text[a].cells[text[a].length + 1] = Nul
                    /\ Nul \notin Range(Characters(text[a]))
    <3>1. PICK t, w : t = text[a] /\ w = MeantText(a) /\ TextHolds(t, w)
      BY DEF StorageInv, Held, MeantText
    <3>2. Len(t.cells) = t.size /\ t.length = Len(w) /\ w \in Seq(Letter)
      BY <3>1 DEF TextHolds, Roomy
    <3>3. Characters(t) = w  BY <3>1, CharactersAre
    <3>4. Nul \notin Range(w)
      <4>1. \A i \in DOMAIN w : w[i] \in Letter  BY <3>2
      <4> QED  BY <4>1, StorageAssumption DEF Range
    <3>5. t.length > 0 => t.cells[t.length + 1] = Nul  BY <3>1, <3>2 DEF TextHolds
    <3> QED  BY <3>1, <3>2, <3>3, <3>4, <3>5
  <2>2. ASSUME NEW a \in DOMAIN list  PROVE Len(list[a].items) = list[a].size
    <3>1. PICK l, w : l = list[a] /\ ListHolds(l, w)  BY DEF StorageInv, Held
    <3> QED  BY <3>1 DEF ListHolds
  <2> QED  BY <2>1, <2>2 DEF StaysInMemory
<1> QED  BY <1>1, StorageInvariant, PTL

\* hemp_pool_take() hands out an address that nothing uses, inside its slab.
THEOREM ItemsAreTakenOnce == StorageSpec => []NextIsFree
<1>1. StorageInv => NextIsFree
  <2> SUFFICES ASSUME StorageInv, NEW k \in Pools
               PROVE  /\ Address(k) \notin Addresses(k)
                      /\ Address(k)[2] < Ready(pool[k]).slabs[1].size
    BY DEF NextIsFree
  <2>1. PoolOK(pool[k], Addresses(k))  BY DEF StorageInv, PoolsOK
  <2> QED  BY <2>1, ReadyOK DEF Address
<1> QED  BY <1>1, StorageInvariant, PTL

-----------------------------------------------------------------------------
(***************************************************************************)
(* The memory that is to be freed, and that a context frees.               *)
(***************************************************************************)
\* The slabs of a pool are numbered as they were added, and the addresses in
\* use, A, are all those up to the next: slab c is full unless it is the last.
PoolFilled(p, A) ==
  /\ \A i \in 1..Len(p.slabs) : p.slabs[i].id = Len(p.slabs) + 1 - i
  /\ \A c, j \in Nat :
       <<c, j>> \in A <=> /\ c \in 1..Len(p.slabs) /\ j < p.slabs[Len(p.slabs) + 1 - c].size
                          /\ c < Len(p.slabs) \/ j < p.next[2]

\* The memory of the items of a pool, and all memory of the pool.
Owned(k) == {Block(k, a) : a \in {a \in Addresses(k) : Owns(k, a)}}
Due(k) == Slabs(k, pool[k]) \union Owned(k)

Kept ==
  /\ \A k \in Pools : PoolFilled(pool[k], Addresses(k))
  /\ open => heap = UNION {Due(k) : k \in Pools}

LEMMA PoolAt ==
  ASSUME NEW p, NEW A, PoolOK(p, A), PoolFilled(p, A), NEW i \in 1..Len(p.slabs)
  PROVE  /\ p.slabs[i].id = Len(p.slabs) + 1 - i /\ p.slabs[i].size \in Nat
         /\ p.slabs[i].id \in 1..Len(p.slabs)
<1>1. PICK x \in Seq([id : Nat, size : Nat]) : x = p.slabs /\ Len(x) \in Nat  BY PoolShape
<1>2. x[i] \in [id : Nat, size : Nat]  BY <1>1, ElementOfSeq
<1>3. x[i].id = Len(x) + 1 - i  BY <1>1 DEF PoolFilled
<1> QED  BY <1>1, <1>2, <1>3

LEMMA NewPoolFilled == PoolFilled(NewPool, {})
<1>1. PICK s : s = [id |-> 1, size |-> FirstSize]  OBVIOUS
<1>2. NewPool.slabs = <<s>> /\ NewPool.next[2] = 0 /\ Len(<<s>>) = 1 /\ <<s>>[1] = s
  BY <1>1 DEF NewPool
<1>3. \A i \in 1..1 : i = 1 /\ s.id = 1 + 1 - i  BY <1>1
<1>4. \A c, j \in Nat : ~ (c \in 1..1 /\ (c < 1 \/ j < 0))  OBVIOUS
<1> QED  BY <1>2, <1>3, <1>4 DEF PoolFilled

LEMMA GrownIs ==
  ASSUME NEW p, NEW A, PoolOK(p, A)
  PROVE  /\ Len(GrowPool(p).slabs) = Len(p.slabs) + 1
         /\ GrowPool(p).slabs[1] = [id |-> Len(p.slabs) + 1, size |-> p.capacity]
         /\ \A i \in 1..Len(p.slabs) : GrowPool(p).slabs[i + 1] = p.slabs[i]
         /\ GrowPool(p).next = <<Len(p.slabs) + 1, 0>>
<1>1. PICK n \in Nat, x \in Seq([id : Nat, size : Nat]) : x = p.slabs /\ n = Len(x)  BY PoolShape
<1>2. PICK s \in [id : Nat, size : Nat] : s = [id |-> n + 1, size |-> p.capacity]
  <2>1. p.capacity \in Nat /\ n + 1 \in Nat  BY PoolShape
  <2> QED  BY <2>1
<1>3. PICK z \in Seq([id : Nat, size : Nat]) : z = <<s>> /\ Len(z) = 1 /\ z[1] = s  BY Single
<1>4. PICK y : y = z \o x  OBVIOUS
<1>5. /\ Len(y) = 1 + n
      /\ \A i \in 1..1 + n : y[i] = IF i <= 1 THEN z[i] ELSE x[i - 1]
  BY <1>1, <1>3, <1>4, ConcatProperties
<1>6. y[1] = s /\ \A i \in 1..n : y[i + 1] = x[i]
  <2>1. y[1] = z[1]  BY <1>5
  <2>2. ASSUME NEW i \in 1..n  PROVE y[i + 1] = x[i]
    <3>1. i + 1 \in 1..1 + n /\ ~ (i + 1 <= 1) /\ i + 1 - 1 = i  OBVIOUS
    <3> QED  BY <1>5, <3>1
  <2> QED  BY <1>3, <2>1, <2>2
<1>7. GrowPool(p).slabs = y /\ GrowPool(p).next = <<n + 1, 0>>
  <2>1. DOMAIN p = {"slabs", "next", "used", "capacity"} /\ p = [f \in DOMAIN p |-> p[f]]
    BY PoolShape
  <2>2. GrowPool(p) = [p EXCEPT !.slabs = y, !.next = <<n + 1, 0>>, !.capacity = @ * 2]
    BY <1>1, <1>2, <1>3, <1>4 DEF GrowPool
  <2> QED  BY <2>1, <2>2
<1> QED  BY <1>1, <1>2, <1>5, <1>6, <1>7

\* Growing a pool that is full leaves its addresses as they are.
LEMMA ReadyFilled ==
  ASSUME NEW p, NEW A, PoolOK(p, A), PoolFilled(p, A)
  PROVE  PoolFilled(Ready(p), A) /\ Len(Ready(p).slabs) >= Len(p.slabs)
<1>1. PICK n \in Nat, x \in Seq([id : Nat, size : Nat]) :
        x = p.slabs /\ n = Len(x) /\ n > 0 /\ x[1].size \in Nat
  BY PoolShape
<1>2. CASE p.used = p.capacity
  <2>1. PICK q : q = Ready(p) /\ q = GrowPool(p)  BY <1>2 DEF Ready
  <2>2. /\ Len(q.slabs) = n + 1 /\ q.slabs[1].id = n + 1
        /\ q.next[2] = 0
        /\ \A i \in 1..n : q.slabs[i + 1] = x[i]
    <3>1. /\ Len(GrowPool(p).slabs) = n + 1
          /\ GrowPool(p).slabs[1] = [id |-> n + 1, size |-> p.capacity]
          /\ \A i \in 1..n : GrowPool(p).slabs[i + 1] = x[i]
          /\ GrowPool(p).next = <<n + 1, 0>>
      BY <1>1, GrownIs
    <3> QED  BY <2>1, <3>1
  <2>3. p.next[2] = x[1].size
    <3>1. PICK u \in Nat, c \in Nat, s \in Nat, m \in Nat :
            u = p.used /\ c = p.capacity /\ s = x[1].size /\ m = p.next[2]
      BY <1>1, PoolShape
    <3>2. u + s = c + m /\ u = c  BY <1>1, <1>2, <3>1 DEF PoolOK
    <3>3. s = m  BY <3>2
    <3> QED  BY <3>1, <3>3
  <2>4. ASSUME NEW i \in 1..n + 1  PROVE q.slabs[i].id = n + 1 + 1 - i
    <3>1. CASE i = 1  BY <2>2, <3>1
    <3>2. CASE i # 1
      <4>1. i - 1 \in 1..n /\ q.slabs[i - 1 + 1] = x[i - 1] /\ i - 1 + 1 = i  BY <2>2, <3>2
      <4>2. x[i - 1].id = n + 1 - (i - 1)  BY <1>1, <4>1 DEF PoolFilled
      <4> QED  BY <4>1, <4>2
    <3> QED  BY <3>1, <3>2
  <2>5. ASSUME NEW c \in Nat, NEW j \in Nat
        PROVE  <<c, j>> \in A <=> /\ c \in 1..n + 1 /\ j < q.slabs[n + 1 + 1 - c].size
                                  /\ c < n + 1 \/ j < q.next[2]
    <3>1. <<c, j>> \in A <=> /\ c \in 1..n /\ j < x[n + 1 - c].size
                             /\ c < n \/ j < p.next[2]
      BY <1>1 DEF PoolFilled
    <3>2. CASE c \in 1..n
      <4>1. n + 1 - c \in 1..n /\ n + 1 - c + 1 = n + 1 + 1 - c  BY <3>2
      <4>2. q.slabs[n + 1 + 1 - c] = x[n + 1 - c]  BY <2>2, <4>1
      <4>3. CASE c = n
        <5>1. n + 1 - c = 1 /\ c < n + 1 /\ c \in 1..n + 1 /\ ~ (c < n)  BY <3>2, <4>3
        <5> QED  BY <2>3, <3>1, <3>2, <4>2, <5>1
      <4>4. CASE c # n
        <5>1. c < n /\ c < n + 1 /\ c \in 1..n + 1  BY <3>2, <4>4
        <5> QED  BY <3>1, <3>2, <4>2, <5>1
      <4> QED  BY <4>3, <4>4
    <3>3. CASE c \notin 1..n
      <4>1. ~ (c \in 1..n + 1 /\ (c < n + 1 \/ j < 0))  BY <3>3
      <4> QED  BY <2>2, <3>1, <3>3, <4>1
    <3> QED  BY <3>2, <3>3
  <2> QED  BY <1>1, <2>1, <2>2, <2>4, <2>5 DEF PoolFilled
<1>3. CASE p.used # p.capacity
  <2>1. Ready(p) = p  BY <1>3 DEF Ready
  <2> QED  BY <1>1, <2>1
<1> QED  BY <1>2, <1>3

\* hemp_pool_take: the next address is in use, and the others are still.
LEMMA TakenFilled ==
  ASSUME NEW p, NEW A, PoolOK(p, A), PoolFilled(p, A)
  PROVE  /\ PoolFilled(Taken(p), A \union {Ready(p).next})
         /\ Len(Taken(p).slabs) >= Len(p.slabs)
<1>1. PICK r : r = Ready(p)  OBVIOUS
<1>2. PoolOK(r, A) /\ PoolFilled(r, A) /\ r.next[2] < r.slabs[1].size /\ Len(r.slabs) >= Len(p.slabs)
  BY <1>1, ReadyOK, ReadyFilled
<1>3. PICK n \in Nat, m \in Nat :
        /\ n = Len(r.slabs) /\ n > 0 /\ r.next = <<n, m>> /\ m = r.next[2] /\ m < r.slabs[1].size
        /\ r.slabs[1].size \in Nat
  <2>1. /\ Len(r.slabs) \in Nat /\ Len(r.slabs) > 0 /\ r.next[2] \in Nat
        /\ r.next = <<r.next[1], r.next[2]>> /\ r.next[1] = Len(r.slabs) /\ r.slabs[1].size \in Nat
    BY <1>2, PoolShape
  <2> QED  BY <1>2, <2>1
<1>4. PICK q : q = Taken(p) /\ q.slabs = r.slabs /\ q.next[2] = m + 1
  <2>1. DOMAIN r = {"slabs", "next", "used", "capacity"} /\ r = [f \in DOMAIN r |-> r[f]]
    BY <1>2, PoolShape
  <2>2. PICK next : next = <<n, m + 1>>  OBVIOUS
  <2>3. Taken(p) = [r EXCEPT !.next = next, !.used = @ + 1]  BY <1>1, <1>3, <2>2 DEF Taken
  <2>4. Taken(p).slabs = r.slabs /\ Taken(p).next = next  BY <2>1, <2>3
  <2> QED  BY <2>2, <2>4
<1>5. ASSUME NEW c \in Nat, NEW j \in Nat
      PROVE  <<c, j>> \in A \union {r.next} <=>
               c \in 1..n /\ j < r.slabs[n + 1 - c].size /\ (c < n \/ j < m + 1)
  <2>1. <<c, j>> \in A <=> c \in 1..n /\ j < r.slabs[n + 1 - c].size /\ (c < n \/ j < m)
    BY <1>2, <1>3 DEF PoolFilled
  <2>2. <<c, j>> \in A \union {r.next} <=> <<c, j>> \in A \/ (c = n /\ j = m)  BY <1>3
  <2>3. CASE c = n
    <3>1. n + 1 - c = 1 /\ c \in 1..n /\ ~ (c < n)  BY <1>3, <2>3
    <3>2. j = m => j < r.slabs[1].size  BY <1>3
    <3>3. j < m + 1 <=> j < m \/ j = m  OBVIOUS
    <3> QED  BY <2>1, <2>2, <2>3, <3>1, <3>2, <3>3
  <2>4. CASE c # n
    <3>1. c \in 1..n => c < n  BY <2>4
    <3> QED  BY <2>1, <2>2, <2>4, <3>1
  <2> QED  BY <2>3, <2>4
<1>6. \A i \in 1..n : r.slabs[i].id = n + 1 - i  BY <1>2, <1>3 DEF PoolFilled
<1>7. PoolFilled(q, A \union {r.next})
  <2>1. PICK B : B = A \union {r.next}  OBVIOUS
  <2>2. \A c, j \in Nat : <<c, j>> \in B <=>
                           c \in 1..n /\ j < q.slabs[n + 1 - c].size /\ (c < n \/ j < q.next[2])
    BY <1>4, <1>5, <2>1
  <2>3. Len(q.slabs) = n /\ \A i \in 1..n : q.slabs[i].id = n + 1 - i  BY <1>3, <1>4, <1>6
  <2>4. PoolFilled(q, B)  BY <2>2, <2>3 DEF PoolFilled
  <2> QED  BY <2>1, <2>4
<1> QED  BY <1>1, <1>2, <1>4, <1>7

LEMMA SlabsAre ==
  ASSUME NEW p, NEW A, PoolOK(p, A), PoolFilled(p, A), NEW k
  PROVE  Slabs(k, p) = {Slab(k, c) : c \in 1..Len(p.slabs)}
<1>1. PICK n \in Nat : n = Len(p.slabs) /\ DOMAIN p.slabs = 1..n  BY PoolShape
<1>2. \A i \in 1..n : p.slabs[i].id = n + 1 - i  BY <1>1 DEF PoolFilled
<1>3. \A i \in 1..n : n + 1 - i \in 1..n /\ n + 1 - (n + 1 - i) = i  OBVIOUS
<1>4. Slabs(k, p) = {Slab(k, p.slabs[i].id) : i \in 1..n}  BY <1>1 DEF Slabs
<1>5. ASSUME NEW i \in 1..n  PROVE p.slabs[i].id \in 1..n  BY <1>2, <1>3
<1>6. ASSUME NEW c \in 1..n  PROVE \E i \in 1..n : Slab(k, p.slabs[i].id) = Slab(k, c)
  <2>1. p.slabs[n + 1 - c].id = c  BY <1>2, <1>3
  <2> QED  BY <1>3, <2>1
<1> QED  BY <1>1, <1>4, <1>5, <1>6

\* The walk of hemp_pool_each() over a slab gets to the items in use there.
LEMMA VisitedAre ==
  ASSUME NEW p, NEW A, PoolOK(p, A), PoolFilled(p, A), NEW i \in 1..Len(p.slabs)
  PROVE  Visited(p, p.slabs[i]) = {a \in A : a[1] = p.slabs[i].id}
<1>1. PICK n \in Nat, c \in Nat, s \in Nat :
        /\ n = Len(p.slabs) /\ c = p.slabs[i].id /\ s = p.slabs[i].size /\ c \in 1..n /\ i = n + 1 - c
  <2>1. Len(p.slabs) \in Nat  BY PoolShape
  <2>2. p.slabs[i].id = Len(p.slabs) + 1 - i /\ p.slabs[i].size \in Nat /\ p.slabs[i].id \in 1..Len(p.slabs)
    BY PoolAt
  <2>3. p.slabs[i].id \in Nat /\ i = Len(p.slabs) + 1 - p.slabs[i].id  BY <2>1, <2>2
  <2> QED  BY <2>1, <2>2, <2>3
<1>2. PICK m \in Nat : p.next = <<n, m>> /\ m = p.next[2] /\ (c = n => m <= s)
  <2>1. p.next = <<p.next[1], p.next[2]>> /\ p.next[2] \in Nat /\ p.next[1] = n  BY <1>1, PoolShape
  <2>2. p.next[2] <= p.slabs[1].size  BY DEF PoolOK
  <2>3. c = n => i = 1  BY <1>1
  <2> QED  BY <1>1, <2>1, <2>2, <2>3
<1>3. Visited(p, p.slabs[i]) =
        {<<c, j>> : j \in {j \in 0..s - 1 : \A h \in 0..j : <<c, h>> # <<n, m>>}}
  BY <1>1, <1>2 DEF Visited
<1>4. ASSUME NEW j \in Nat
      PROVE  <<c, j>> \in A <=> j < s /\ (c < n \/ j < m)
  BY <1>1, <1>2 DEF PoolFilled
<1>5. ASSUME NEW j \in Nat
      PROVE  (j \in 0..s - 1 /\ \A h \in 0..j : <<c, h>> # <<n, m>>) <=> <<c, j>> \in A
  <2>1. j \in 0..s - 1 <=> j < s  OBVIOUS
  <2>2. CASE c = n
    <3>1. (\A h \in 0..j : <<c, h>> # <<n, m>>) <=> m \notin 0..j  BY <2>2
    <3>2. m \notin 0..j <=> j < m  OBVIOUS
    <3>3. ~ (c < n)  BY <2>2
    <3> QED  BY <1>4, <2>1, <3>1, <3>2, <3>3
  <2>3. CASE c # n
    <3>1. \A h \in 0..j : <<c, h>> # <<n, m>>  BY <2>3
    <3>2. c < n  BY <1>1, <2>3
    <3> QED  BY <1>4, <2>1, <3>1, <3>2
  <2> QED  BY <2>2, <2>3
<1>6. ASSUME NEW a \in A, a[1] = c  PROVE \E j \in Nat : a = <<c, j>>
  <2>1. a \in Nat \X Nat  BY DEF PoolOK, Before
  <2> QED  BY <1>6, <2>1
<1>7. ASSUME NEW a \in {a \in A : a[1] = c}  PROVE a \in Visited(p, p.slabs[i])
  <2>1. PICK j \in Nat : a = <<c, j>>  BY <1>6, <1>7
  <2>2. j \in 0..s - 1 /\ \A h \in 0..j : <<c, h>> # <<n, m>>  BY <1>5, <1>7, <2>1
  <2> QED  BY <1>3, <2>1, <2>2
<1>8. ASSUME NEW a \in Visited(p, p.slabs[i])  PROVE a \in A /\ a[1] = c
  <2>1. PICK j \in 0..s - 1 : a = <<c, j>> /\ \A h \in 0..j : <<c, h>> # <<n, m>>  BY <1>3, <1>8
  <2>2. j \in Nat  OBVIOUS
  <2> QED  BY <1>5, <2>1, <2>2
<1>9. p.slabs[i].id = c  BY <1>1
<1> QED  BY <1>7, <1>8, <1>9

\* What freeing a pool frees is what it has to, each block from one slab.
LEMMA CleanedAre ==
  ASSUME NEW k \in Pools, PoolOK(pool[k], Addresses(k)), PoolFilled(pool[k], Addresses(k))
  PROVE  /\ Blocks(Cleaned(k)) = Due(k)
         /\ \A f \in Cleaned(k) : f.block \in Due(k)
         /\ \A f, g \in Cleaned(k) : f.block = g.block => f = g
<1>1. PICK p, A : p = pool[k] /\ A = Addresses(k) /\ PoolOK(p, A) /\ PoolFilled(p, A)  OBVIOUS
<1>2. PICK n \in Nat : n = Len(p.slabs) /\ DOMAIN p.slabs = 1..n  BY <1>1, PoolShape
<1>3. \A i \in 1..n : p.slabs[i].id = n + 1 - i /\ p.slabs[i].id \in 1..n  BY <1>1, <1>2, PoolAt
<1> DEFINE Mine(i) == {a \in A : a[1] = p.slabs[i].id /\ Owns(k, a)}
           Here(i) == {Block(k, a) : a \in Mine(i)} \union {Slab(k, p.slabs[i].id)}
<1>4. Cleaned(k) = UNION {{[slab |-> i, block |-> b] : b \in Here(i)} : i \in 1..n}
  <2>1. \A i \in 1..n : {a \in Visited(p, p.slabs[i]) : a \in A => Owns(k, a)} = Mine(i)
    <3> SUFFICES ASSUME NEW i \in 1..n
                 PROVE  {a \in Visited(p, p.slabs[i]) : a \in A => Owns(k, a)} = Mine(i)
      OBVIOUS
    <3>1. Visited(p, p.slabs[i]) = {a \in A : a[1] = p.slabs[i].id}  BY <1>1, <1>2, VisitedAre
    <3> QED  BY <3>1
  <2>2. Cleaned(k) = UNION {
            {[slab |-> i, block |-> b] :
               b \in {Block(k, a) : a \in {a \in Visited(p, p.slabs[i]) : a \in A => Owns(k, a)}}
                       \union {Slab(k, p.slabs[i].id)}} : i \in 1..n}
    BY <1>1, <1>2 DEF Cleaned
  <2> QED  BY <2>1, <2>2
<1>5. ASSUME NEW f \in Cleaned(k)
      PROVE  \E i \in 1..n : /\ f = [slab |-> i, block |-> f.block]
                             /\ \/ f.block = Slab(k, p.slabs[i].id)
                                \/ \E a \in Mine(i) : f.block = Block(k, a)
  BY <1>4, <1>5
<1>6. Slabs(k, p) = {Slab(k, p.slabs[i].id) : i \in 1..n}  BY <1>2 DEF Slabs
<1>7. Owned(k) = {Block(k, a) : a \in {a \in A : Owns(k, a)}}  BY <1>1 DEF Owned
<1>8. ASSUME NEW f \in Cleaned(k)  PROVE f.block \in Due(k)
  BY <1>1, <1>5, <1>6, <1>7 DEF Due
<1>9. ASSUME NEW b \in Due(k)  PROVE b \in Blocks(Cleaned(k))
  <2>1. SUFFICES \E i \in 1..n : b \in Here(i)
    <3>1. ASSUME NEW i \in 1..n, b \in Here(i)  PROVE b \in Blocks(Cleaned(k))
      <4>1. PICK f : f = [slab |-> i, block |-> b]  OBVIOUS
      <4>2. f \in {[slab |-> i, block |-> x] : x \in Here(i)}  BY <3>1, <4>1
      <4>3. f \in Cleaned(k)  BY <1>4, <4>2
      <4> QED  BY <4>1, <4>3 DEF Blocks
    <3> QED  BY <3>1
  <2>2. CASE b \in Slabs(k, p)  BY <1>6, <2>2
  <2>3. CASE b \in Owned(k)
    <3>1. PICK a \in A : Owns(k, a) /\ b = Block(k, a)  BY <1>7, <2>3
    <3>2. PICK c \in Nat, j \in Nat : a = <<c, j>>
      <4>1. a \in Nat \X Nat  BY <1>1 DEF PoolOK, Before
      <4> QED  BY <4>1
    <3>3. c \in 1..n  BY <1>1, <1>2, <3>2 DEF PoolFilled
    <3>4. n + 1 - c \in 1..n /\ p.slabs[n + 1 - c].id = n + 1 - (n + 1 - c) /\ n + 1 - (n + 1 - c) = c
      <4>1. n + 1 - c \in 1..n /\ n + 1 - (n + 1 - c) = c  BY <3>3
      <4> QED  BY <1>3, <4>1
    <3>5. a \in Mine(n + 1 - c)  BY <3>1, <3>2, <3>4
    <3> QED  BY <3>1, <3>4, <3>5
  <2> QED  BY <1>1, <2>2, <2>3 DEF Due
<1>10. ASSUME NEW f \in Cleaned(k), NEW g \in Cleaned(k), f.block = g.block  PROVE f = g
  <2>1. PICK i \in 1..n : /\ f = [slab |-> i, block |-> f.block]
                          /\ \/ f.block = Slab(k, p.slabs[i].id)
                             \/ \E a \in Mine(i) : f.block = Block(k, a)
    BY <1>5
  <2>2. PICK j \in 1..n : /\ g = [slab |-> j, block |-> g.block]
                          /\ \/ g.block = Slab(k, p.slabs[j].id)
                             \/ \E a \in Mine(j) : g.block = Block(k, a)
    BY <1>5
  <2>3. p.slabs[i].id = p.slabs[j].id => i = j  BY <1>3
  <2>4. \A a, c : Block(k, a) # Slab(k, c)  BY DEF Block, Slab
  <2>5. \A a, b : Block(k, a) = Block(k, b) => a = b  BY DEF Block
  <2>6. \A c, d : Slab(k, c) = Slab(k, d) => c = d  BY DEF Slab
  <2>7. p.slabs[i].id = p.slabs[j].id
    <3>1. CASE f.block = Slab(k, p.slabs[i].id)  BY <1>10, <2>2, <2>4, <2>6, <3>1
    <3>2. CASE \E a \in Mine(i) : f.block = Block(k, a)  BY <1>10, <2>2, <2>4, <2>5, <3>2
    <3> QED  BY <2>1, <3>1, <3>2
  <2> QED  BY <1>10, <2>1, <2>2, <2>3, <2>7
<1>11. \A b \in Blocks(Cleaned(k)) : b \in Due(k)  BY <1>8 DEF Blocks
<1> QED  BY <1>8, <1>9, <1>10, <1>11

LEMMA OwnedAre ==
  /\ Owned("text") = {Block("text", a) : a \in {a \in DOMAIN text : text[a].size > 0}}
  /\ Owned("list") = {Block("list", a) : a \in {a \in DOMAIN list : list[a].size > 0}}
  /\ Owned("code") = {Block("code", a) : a \in {a \in DOMAIN code : code[a]}}
BY DEF Owned, Addresses, Owns

LEMMA OwnedWillBe ==
  /\ Owned("text")' = {Block("text", a) : a \in {a \in DOMAIN text' : text'[a].size > 0}}
  /\ Owned("list")' = {Block("list", a) : a \in {a \in DOMAIN list' : list'[a].size > 0}}
  /\ Owned("code")' = {Block("code", a) : a \in {a \in DOMAIN code' : code'[a]}}
BY DEF Owned, Addresses, Owns

\* One more item in pool k, with the memory B of its own.
LEMMA TakeKept ==
  ASSUME StorageInv, Kept, NEW k \in Pools, NEW B, Take(k, B), open' = open,
         Addresses(k)' = Addresses(k) \union {Address(k)}, Owned(k)' = Owned(k) \union B,
         \A j \in Pools : j # k => Addresses(j)' = Addresses(j) /\ Owned(j)' = Owned(j)
  PROVE  Kept'
<1>1. /\ pool' = [pool EXCEPT ![k] = Taken(@)] /\ DOMAIN pool = Pools /\ open
      /\ heap' = heap \union Slabs(k, Taken(pool[k])) \union B
  BY DEF Take, StorageInv, PoolsOK
<1>2. pool'[k] = Taken(pool[k]) /\ \A j \in Pools : j # k => pool'[j] = pool[j]
  BY <1>1
<1>3. PICK p, A : p = pool[k] /\ A = Addresses(k) /\ PoolOK(p, A) /\ PoolFilled(p, A)
  BY DEF StorageInv, PoolsOK, Kept
<1>4. PICK q, Z : /\ q = Taken(p) /\ Z = A \union {Ready(p).next} /\ PoolOK(q, Z) /\ PoolFilled(q, Z)
                  /\ Len(q.slabs) >= Len(p.slabs)
  BY <1>3, TakenOK, TakenFilled
<1>5. ASSUME NEW j \in Pools  PROVE PoolFilled(pool'[j], Addresses(j)')
  <2>1. CASE j = k  BY <1>2, <1>3, <1>4, <2>1 DEF Address
  <2>2. CASE j # k  BY <1>2, <2>2 DEF Kept
  <2> QED  BY <2>1, <2>2
<1>6. Slabs(k, p) \subseteq Slabs(k, q)
  <2>1. /\ Slabs(k, p) = {Slab(k, c) : c \in 1..Len(p.slabs)}
        /\ Slabs(k, q) = {Slab(k, c) : c \in 1..Len(q.slabs)}
    BY <1>3, <1>4, SlabsAre
  <2>2. Len(p.slabs) \in Nat /\ Len(q.slabs) \in Nat  BY <1>3, <1>4, PoolShape
  <2>3. \A c \in 1..Len(p.slabs) : c \in 1..Len(q.slabs)  BY <1>4, <2>2
  <2> QED  BY <2>1, <2>3
<1>7. Due(k)' = Due(k) \union Slabs(k, q) \union B
  <2>1. Due(k)' = Slabs(k, q) \union Owned(k)'  BY <1>2, <1>3, <1>4 DEF Due
  <2>2. Due(k) = Slabs(k, p) \union Owned(k)  BY <1>3 DEF Due
  <2> QED  BY <1>6, <2>1, <2>2
<1>8. \A j \in Pools : j # k => Due(j)' = Due(j)
  <2> SUFFICES ASSUME NEW j \in Pools, j # k  PROVE Due(j)' = Due(j)  OBVIOUS
  <2>1. Due(j)' = Slabs(j, pool'[j]) \union Owned(j)'  BY DEF Due
  <2> QED  BY <1>2, <2>1 DEF Due
<1>9. heap' = UNION {Due(j)' : j \in Pools}
  <2>1. heap = UNION {Due(j) : j \in Pools}  BY <1>1 DEF Kept
  <2>2. heap' = heap \union Slabs(k, q) \union B  BY <1>1, <1>3, <1>4
  <2>3. ASSUME NEW b \in heap'  PROVE b \in UNION {Due(j)' : j \in Pools}
    <3>1. CASE b \in heap
      <4>1. PICK j \in Pools : b \in Due(j)  BY <2>1, <3>1
      <4>2. b \in Due(j)'  BY <1>7, <1>8, <4>1
      <4> QED  BY <4>2
    <3>2. CASE b \in Slabs(k, q) \union B
      <4>1. b \in Due(k)'  BY <1>7, <3>2
      <4> QED  BY <4>1
    <3> QED  BY <2>2, <2>3, <3>1, <3>2
  <2>4. ASSUME NEW j \in Pools, NEW b \in Due(j)'  PROVE b \in heap'
    <3>1. CASE j = k
      <4>1. b \in Due(k) \/ b \in Slabs(k, q) \union B  BY <1>7, <2>4, <3>1
      <4> QED  BY <2>1, <2>2, <4>1
    <3>2. CASE j # k
      <4>1. b \in Due(j)  BY <1>8, <2>4, <3>2
      <4> QED  BY <2>1, <2>2, <4>1
    <3> QED  BY <3>1, <3>2
  <2> QED  BY <2>3, <2>4
<1>10. UNION {Due(j)' : j \in Pools} = (UNION {Due(j) : j \in Pools})'  OBVIOUS
<1> QED  BY <1>5, <1>9, <1>10 DEF Kept

\* The pools stay as they are, and an item may get memory, B.
LEMMA UseKept ==
  ASSUME StorageInv, Kept, NEW k \in Pools, NEW B, UNCHANGED <<open, pool>>,
         heap' = heap \union B, open => Owned(k)' = Owned(k) \union B,
         \A j \in Pools : Addresses(j)' = Addresses(j),
         \A j \in Pools : j # k => Owned(j)' = Owned(j)
  PROVE  Kept'
<1>1. \A j \in Pools : PoolFilled(pool'[j], Addresses(j)')  BY DEF Kept
<1>2. ASSUME open'  PROVE heap' = UNION {Due(j)' : j \in Pools}
  <2>1. heap = UNION {Due(j) : j \in Pools} /\ open  BY <1>2 DEF Kept
  <2>2. Due(k)' = Due(k) \union B
    <3>1. Due(k)' = Slabs(k, pool[k]) \union Owned(k)'  BY DEF Due
    <3> QED  BY <2>1, <3>1 DEF Due
  <2>3. \A j \in Pools : j # k => Due(j)' = Due(j)
    <3> SUFFICES ASSUME NEW j \in Pools, j # k  PROVE Due(j)' = Due(j)  OBVIOUS
    <3>1. Due(j)' = Slabs(j, pool[j]) \union Owned(j)'  BY DEF Due
    <3> QED  BY <3>1 DEF Due
  <2>4. ASSUME NEW b \in heap'  PROVE b \in UNION {Due(j)' : j \in Pools}
    <3>1. CASE b \in heap
      <4>1. PICK j \in Pools : b \in Due(j)  BY <2>1, <3>1
      <4>2. b \in Due(j)'  BY <2>2, <2>3, <4>1
      <4> QED  BY <4>2
    <3>2. CASE b \in B
      <4>1. b \in Due(k)'  BY <2>2, <3>2
      <4> QED  BY <4>1
    <3> QED  BY <2>4, <3>1, <3>2
  <2>5. ASSUME NEW j \in Pools, NEW b \in Due(j)'  PROVE b \in heap'
    <3>1. CASE j = k
      <4>1. b \in Due(k) \/ b \in B  BY <2>2, <2>5, <3>1
      <4> QED  BY <2>1, <4>1
    <3>2. CASE j # k
      <4>1. b \in Due(j)  BY <2>3, <2>5, <3>2
      <4> QED  BY <2>1, <4>1
    <3> QED  BY <3>1, <3>2
  <2> QED  BY <2>4, <2>5
<1>3. UNION {Due(j)' : j \in Pools} = (UNION {Due(j) : j \in Pools})'  OBVIOUS
<1> QED  BY <1>1, <1>2, <1>3 DEF Kept

-----------------------------------------------------------------------------
(***************************************************************************)
(* Who has memory, in the actions.                                         *)
(***************************************************************************)
\* What has memory keeps some, whatever is done to it.
LEMMA CapacityKept ==
  ASSUME NEW t, Roomy(t), t.size > 0, NEW n \in Nat
  PROVE  Capacity(t, n).size > 0 /\ {"cells", "size", "length"} \subseteq DOMAIN Capacity(t, n)
<1>1. DOMAIN t = {"cells", "size", "capacity", "length"} /\ n + 1 > 0  BY DEF Roomy
<1>2. CASE t.capacity < n + 1
  <2>1. PICK x, m : x = Resized(t.cells, n + 1) /\ m = n + 1  OBVIOUS
  <2>2. Capacity(t, n) = [t EXCEPT !.cells = x, !.size = m, !.capacity = n]
    BY <1>2, <2>1 DEF Capacity
  <2> QED  BY <1>1, <2>1, <2>2
<1>3. CASE ~ (t.capacity < n + 1)
  <2>1. Capacity(t, n) = t  BY <1>3 DEF Capacity
  <2> QED  BY <1>1, <2>1
<1> QED  BY <1>2, <1>3

LEMMA EndedKept ==
  ASSUME NEW r, {"cells", "size", "length"} \subseteq DOMAIN r, NEW x, NEW n
  PROVE  Ended([r EXCEPT !.cells = x], n).size = r.size
<1>1. PICK s : s = [r EXCEPT !.cells = x]  OBVIOUS
<1>4. DOMAIN s = DOMAIN r /\ s.size = r.size  BY <1>1
<1>2. PICK y : y = Write(s.cells, n, <<Nul>>)  OBVIOUS
<1>3. Ended(s, n) = [s EXCEPT !.cells = y, !.length = n]  BY <1>2 DEF Ended
<1> QED  BY <1>1, <1>3, <1>4

LEMMA AppendedKept ==
  ASSUME NEW t, Roomy(t), t.size > 0, NEW w \in Seq(Letter)
  PROVE  Appended(t, w).size > 0
<1>1. PICK n \in Nat : n = t.length + Len(w)
  <2>1. t.length \in Nat /\ Len(w) \in Nat  BY LenProperties DEF Roomy
  <2> QED  BY <2>1
<1>2. PICK r, x : r = Capacity(t, n) /\ x = Write(r.cells, t.length, w)  OBVIOUS
<1>3. Appended(t, w) = Ended([r EXCEPT !.cells = x], n)  BY <1>1, <1>2 DEF Appended
<1> QED  BY <1>2, <1>3, CapacityKept, EndedKept

LEMMA InsertKept ==
  ASSUME NEW t, Roomy(t), t.size > 0, NEW w \in Seq(Letter), NEW offset
  PROVE  Insert(t, offset, w).size > 0
<1>1. CASE offset >= 0 /\ (offset > t.length \/ t.length = 0)
  <2>1. Insert(t, offset, w) = Appended(t, w)  BY <1>1 DEF Insert
  <2> QED  BY <2>1, AppendedKept
<1>2. CASE ~ (offset >= 0 /\ (offset > t.length \/ t.length = 0))
  <2>1. PICK n \in Nat : n = t.length + Len(w)
    <3>1. t.length \in Nat /\ Len(w) \in Nat  BY LenProperties DEF Roomy
    <3> QED  BY <3>1
  <2>2. PICK r : r = Capacity(t, n)  OBVIOUS
  <2>3. PICK x : x = Write(Write(r.cells, Place(t, offset) + Len(w),
                                 SubSeq(r.cells, Place(t, offset) + 1, t.length)), Place(t, offset), w)
    OBVIOUS
  <2>4. Insert(t, offset, w) = Ended([r EXCEPT !.cells = x], n)
    BY <1>2, <2>1, <2>2, <2>3 DEF Insert
  <2> QED  BY <2>2, <2>4, CapacityKept, EndedKept
<1> QED  BY <1>1, <1>2

LEMMA ReplaceKept ==
  ASSUME NEW t, Roomy(t), t.size > 0, NEW w \in Seq(Letter)
  PROVE  Replace(t, w).size > 0
<1>1. PICK n \in Nat : n = Len(w)  BY LenProperties
<1>2. PICK r, x : r = Capacity(t, n) /\ x = Write(r.cells, 0, w \o <<Nul>>)  OBVIOUS
<1>3. Replace(t, w) = Ended([r EXCEPT !.cells = x], n)  BY <1>1, <1>2 DEF Replace
<1> QED  BY <1>2, <1>3, CapacityKept, EndedKept

LEMMA TruncateKept ==
  ASSUME NEW t, Roomy(t), t.size > 0, NEW n
  PROVE  Truncate(t, n).size > 0
<1>1. DOMAIN t = {"cells", "size", "capacity", "length"}  BY DEF Roomy
<1>2. PICK y : y = Write(t.cells, n, <<Nul>>)  OBVIOUS
<1>3. Ended(t, n) = [t EXCEPT !.cells = y, !.length = n]  BY <1>2 DEF Ended
<1>4. Ended(t, n).size = t.size  BY <1>1, <1>3
<1> QED  BY <1>4 DEF Truncate

LEMMA GrowKept ==
  ASSUME NEW l, NEW w, ListHolds(l, w), NEW n \in Nat, n <= MaxLength
  PROVE  Grow(l, n).size >= l.size /\ Grow(l, n).size \in Nat
<1>1. PICK g : g = Grow(l, n) /\ ListHolds(g, w) /\ l.capacity <= g.capacity  BY GrowMakesRoom
<1> QED  BY <1>1, ListShape

LEMMA AddKept ==
  ASSUME NEW l, NEW w, ListHolds(l, w), NEW v
  PROVE  Add(l, v).size = l.size
<1>1. DOMAIN l = {"items", "size", "capacity", "length"}  BY DEF ListHolds
<1>2. PICK x, n : x = Write(l.items, l.length, v) /\ n = l.length + Len(v)  OBVIOUS
<1>3. Add(l, v) = [l EXCEPT !.items = x, !.length = n]  BY <1>2 DEF Add
<1> QED  BY <1>1, <1>3

LEMMA PushKept ==
  ASSUME NEW l, NEW w, ListHolds(l, w), l.size > 0, NEW v, Len(w) + 1 <= MaxLength
  PROVE  Push(l, v).size > 0
<1>1. l.capacity \in Nat /\ l.length = Len(w) /\ l.size = l.capacity  BY ListShape
<1>2. PICK g : g = IF l.length = l.capacity THEN Grow(l, l.capacity + 1) ELSE l  OBVIOUS
<1>3. ListHolds(g, w) /\ g.size > 0
  <2>1. CASE l.length = l.capacity
    <3>1. l.capacity + 1 \in Nat /\ l.capacity + 1 <= MaxLength  BY <1>1, <2>1
    <3>2. /\ ListHolds(Grow(l, l.capacity + 1), w)
          /\ Grow(l, l.capacity + 1).size >= l.size /\ Grow(l, l.capacity + 1).size \in Nat
      BY <3>1, GrowMakesRoom, GrowKept
    <3> QED  BY <1>1, <1>2, <2>1, <3>2
  <2>2. CASE l.length # l.capacity  BY <1>2, <2>2
  <2> QED  BY <2>1, <2>2
<1>4. Push(l, v) = Add(g, <<v>>)  BY <1>2 DEF Push
<1> QED  BY <1>3, <1>4, AddKept

LEMMA PushListKept ==
  ASSUME NEW l, NEW w, ListHolds(l, w), l.size > 0, NEW m, m.length \in Nat,
         l.length + m.length <= MaxLength
  PROVE  PushList(l, m).size > 0
<1>1. l.capacity \in Nat /\ l.length \in Nat /\ l.size = l.capacity  BY ListShape
<1>2. PICK n \in Nat : n = l.length + m.length  BY <1>1
<1>3. PICK g : g = IF n > l.capacity THEN Grow(l, n) ELSE l  OBVIOUS
<1>4. ListHolds(g, w) /\ g.size > 0
  <2>1. CASE n > l.capacity
    <3>1. ListHolds(Grow(l, n), w) /\ Grow(l, n).size >= l.size /\ Grow(l, n).size \in Nat
      BY <1>2, GrowMakesRoom, GrowKept
    <3> QED  BY <1>1, <1>3, <2>1, <3>1
  <2>2. CASE ~ (n > l.capacity)  BY <1>3, <2>2
  <2> QED  BY <2>1, <2>2
<1>5. PushList(l, m) = Add(g, Items(m))  BY <1>2, <1>3 DEF PushList
<1> QED  BY <1>4, <1>5, AddKept

LEMMA ResizeKept ==
  ASSUME NEW l, NEW w, ListHolds(l, w), l.size > 0, NEW n \in Nat, n <= MaxLength
  PROVE  Resize(l, n).size > 0
<1>1. l.size \in Nat /\ DOMAIN l = {"items", "size", "capacity", "length"}  BY DEF ListHolds
<1>2. CASE n > l.length
  <2>1. ListHolds(Grow(l, n), w) /\ Grow(l, n).size >= l.size /\ Grow(l, n).size \in Nat
    BY GrowMakesRoom, GrowKept
  <2>2. PICK x : Resize(l, n) = Add(Grow(l, n), x)  BY <1>2 DEF Resize
  <2> QED  BY <1>1, <2>1, <2>2, AddKept
<1>3. CASE ~ (n > l.length)
  <2>1. Resize(l, n) = [l EXCEPT !.length = n]  BY <1>3 DEF Resize
  <2> QED  BY <1>1, <2>1
<1> QED  BY <1>2, <1>3

LEMMA StoreKept ==
  ASSUME NEW l, NEW w, ListHolds(l, w), l.size > 0, NEW index \in Int, index < MaxLength, NEW v
  PROVE  StoreAt(l, index, v).size > 0
<1>1. l.size \in Nat /\ l.capacity \in Nat /\ MaxLength \in Nat
  BY ListShape, StorageAssumption
<1>2. CASE index < 0
  <2>1. StoreAt(l, index, v) = l  BY <1>2 DEF StoreAt
  <2> QED  BY <2>1
<1>3. CASE ~ (index < 0)
  <2>1. PICK n \in Nat : n = index + 1 /\ n <= MaxLength  BY <1>1, <1>3
  <2>2. PICK r : r = IF index >= l.capacity THEN Grow(l, n) ELSE l  OBVIOUS
  <2>3. ListHolds(r, w) /\ r.size > 0
    <3>1. CASE index >= l.capacity
      <4>1. ListHolds(Grow(l, n), w) /\ Grow(l, n).size >= l.size /\ Grow(l, n).size \in Nat
        BY <2>1, GrowMakesRoom, GrowKept
      <4> QED  BY <1>1, <2>2, <3>1, <4>1
    <3>2. CASE ~ (index >= l.capacity)  BY <2>2, <3>2
    <3> QED  BY <3>1, <3>2
  <2>4. PICK f : f = IF index > r.length THEN Add(r, Padding(index - r.length, Nothing)) ELSE r
    OBVIOUS
  <2>5. f.size = r.size /\ DOMAIN f = {"items", "size", "capacity", "length"}
    <3>1. DOMAIN r = {"items", "size", "capacity", "length"}  BY <2>3 DEF ListHolds
    <3>2. \A x : Add(r, x).size = r.size  BY <2>3, AddKept
    <3>3. \A x : DOMAIN Add(r, x) = DOMAIN r  BY DEF Add
    <3> QED  BY <2>4, <3>1, <3>2, <3>3
  <2>6. PICK x, m : StoreAt(l, index, v) = [f EXCEPT !.items = x, !.length = m]
    <3>1. StoreAt(l, index, v) =
            [f EXCEPT !.items = Write(@, index, <<v>>), !.length = Max({@, index + 1})]
      BY <1>3, <2>1, <2>2, <2>4 DEF StoreAt
    <3> QED  BY <3>1
  <2> QED  BY <2>3, <2>5, <2>6
<1> QED  BY <1>2, <1>3

LEMMA ShiftKept ==
  ASSUME NEW l, NEW w, ListHolds(l, w)
  PROVE  Shift(l).size = l.size /\ Pop(l).size = l.size
<1>1. DOMAIN l = {"items", "size", "capacity", "length"}  BY DEF ListHolds
<1>2. PICK x, n : x = Write(l.items, 0, SubSeq(l.items, 2, l.length)) /\ n = l.length - 1  OBVIOUS
<1>3. [l EXCEPT !.items = x, !.length = n].size = l.size /\ [l EXCEPT !.length = n].size = l.size
  BY <1>1
<1>4. Shift(l) = IF l.length < 1 THEN l ELSE [l EXCEPT !.items = x, !.length = n]
  BY <1>2 DEF Shift
<1>5. Pop(l) = IF l.length < 1 THEN l ELSE [l EXCEPT !.length = n]  BY <1>2 DEF Pop
<1> QED  BY <1>3, <1>4, <1>5

-----------------------------------------------------------------------------
LEMMA SetTextKept ==
  ASSUME StorageInv, StorageInv', Kept, NEW a \in DOMAIN text, NEW t, NEW w, SetText(a, t, w),
         text[a].size > 0 => t.size > 0
  PROVE  Kept'
<1>1. PICK B : B = IF t.size = 0 THEN {} ELSE {Block("text", a)}  OBVIOUS
<1>2. /\ text' = [text EXCEPT ![a] = t] /\ UNCHANGED <<open, pool, list, code>>
      /\ heap' = heap \union B
  BY <1>1 DEF SetText
<1>3. DOMAIN text' = DOMAIN text /\ text'[a] = t /\ \A b \in DOMAIN text : b # a => text'[b] = text[b]
  BY <1>2
<1>4. t.size \in Nat  BY <1>3 DEF StorageInv, Held, TextHolds, Roomy
<1>5. Owned("text")' = Owned("text") \union B
  <2>1. \A b \in DOMAIN text : b # a => (text'[b].size > 0 <=> text[b].size > 0)  BY <1>3
  <2>2. CASE t.size = 0
    <3>1. ~ (t.size > 0) /\ ~ (text[a].size > 0) /\ B = {}  BY <1>1, <2>2
    <3>2. \A b \in DOMAIN text : text'[b].size > 0 <=> text[b].size > 0  BY <1>3, <2>1, <3>1
    <3> QED  BY <1>3, <3>1, <3>2, OwnedAre, OwnedWillBe
  <2>3. CASE t.size # 0
    <3>1. t.size > 0 /\ B = {Block("text", a)}  BY <1>1, <1>4, <2>3
    <3>2. \A b \in DOMAIN text : text'[b].size > 0 <=> text[b].size > 0 \/ b = a  BY <1>3, <2>1, <3>1
    <3> QED  BY <1>3, <3>1, <3>2, OwnedAre, OwnedWillBe
  <2> QED  BY <2>2, <2>3
<1>6. Owned("list")' = Owned("list") /\ Owned("code")' = Owned("code")
  BY <1>2, OwnedAre, OwnedWillBe
<1>7. \A j \in Pools : Addresses(j)' = Addresses(j)
  BY <1>2, <1>3, AddressesAre, AddressesWillBe
<1>8. "text" \in Pools /\ \A j \in Pools : j # "text" => Owned(j)' = Owned(j)
  BY <1>6, AddressesAre
<1> QED  BY <1>2, <1>5, <1>7, <1>8, UseKept

LEMMA SetListKept ==
  ASSUME StorageInv, StorageInv', Kept, NEW a \in DOMAIN list, NEW l, NEW w, SetList(a, l, w),
         list[a].size > 0 => l.size > 0
  PROVE  Kept'
<1>1. PICK B : B = IF l.size = 0 THEN {} ELSE {Block("list", a)}  OBVIOUS
<1>2. /\ list' = [list EXCEPT ![a] = l] /\ UNCHANGED <<open, pool, text, code>>
      /\ heap' = heap \union B
  BY <1>1 DEF SetList
<1>3. DOMAIN list' = DOMAIN list /\ list'[a] = l /\ \A b \in DOMAIN list : b # a => list'[b] = list[b]
  BY <1>2
<1>4. l.size \in Nat
  <2>1. PICK m : ListHolds(l, m)  BY <1>3 DEF StorageInv, Held
  <2> QED  BY <2>1 DEF ListHolds
<1>5. Owned("list")' = Owned("list") \union B
  <2>1. \A b \in DOMAIN list : b # a => (list'[b].size > 0 <=> list[b].size > 0)  BY <1>3
  <2>2. CASE l.size = 0
    <3>1. ~ (l.size > 0) /\ ~ (list[a].size > 0) /\ B = {}  BY <1>1, <2>2
    <3>2. \A b \in DOMAIN list : list'[b].size > 0 <=> list[b].size > 0  BY <1>3, <2>1, <3>1
    <3> QED  BY <1>3, <3>1, <3>2, OwnedAre, OwnedWillBe
  <2>3. CASE l.size # 0
    <3>1. l.size > 0 /\ B = {Block("list", a)}  BY <1>1, <1>4, <2>3
    <3>2. \A b \in DOMAIN list : list'[b].size > 0 <=> list[b].size > 0 \/ b = a  BY <1>3, <2>1, <3>1
    <3> QED  BY <1>3, <3>1, <3>2, OwnedAre, OwnedWillBe
  <2> QED  BY <2>2, <2>3
<1>6. Owned("text")' = Owned("text") /\ Owned("code")' = Owned("code")
  BY <1>2, OwnedAre, OwnedWillBe
<1>7. \A j \in Pools : Addresses(j)' = Addresses(j)
  BY <1>2, <1>3, AddressesAre, AddressesWillBe
<1>8. "list" \in Pools /\ \A j \in Pools : j # "list" => Owned(j)' = Owned(j)
  BY <1>6, AddressesAre
<1> QED  BY <1>2, <1>5, <1>7, <1>8, UseKept

LEMMA UseTextKept ==
  ASSUME StorageInv, StorageInv', Kept, UseText
  PROVE  Kept'
<1>1. PICK a \in DOMAIN text :
        \/ \E w \in Word : AppendString(a, w) \/ ReplaceString(a, w)
        \/ \E b \in DOMAIN text : AppendText(a, b)
        \/ \E w \in Word, offset \in Offset : InsertString(a, offset, w)
        \/ \E n \in 0..MaxLength : TruncateText(a, n)
  BY DEF UseText
<1>2. \A b \in DOMAIN text : TextHolds(text[b], MeantText(b))  BY DEF StorageInv, Held, MeantText
<1>3. Word \subseteq Seq(Letter)  BY StorageAssumption
<1>4. PICK t : t = text[a] /\ Roomy(t)  BY <1>2 DEF TextHolds
<1>5. ASSUME NEW w \in Word, AppendString(a, w)  PROVE Kept'
  <2>1. SetText(a, Appended(t, w), MeantText(a) \o w)  BY <1>4, <1>5 DEF AppendString
  <2> QED  BY <1>3, <1>4, <2>1, AppendedKept, SetTextKept
<1>6. ASSUME NEW w \in Word, ReplaceString(a, w)  PROVE Kept'
  <2>1. SetText(a, Replace(t, w), w)  BY <1>4, <1>6 DEF ReplaceString
  <2> QED  BY <1>3, <1>4, <2>1, ReplaceKept, SetTextKept
<1>7. ASSUME NEW b \in DOMAIN text, AppendText(a, b)  PROVE Kept'
  <2>1. PICK w \in Seq(Letter) : w = MeantText(b) /\ TextHolds(text[b], w)  BY <1>2 DEF TextHolds
  <2>2. Characters(text[b]) = w  BY <2>1, CharactersAre
  <2>3. SetText(a, Appended(t, w), MeantText(a) \o w)  BY <1>4, <1>7, <2>1, <2>2 DEF AppendText
  <2> QED  BY <1>4, <2>3, AppendedKept, SetTextKept
<1>8. ASSUME NEW w \in Word, NEW offset \in Offset, InsertString(a, offset, w)  PROVE Kept'
  <2>1. SetText(a, Insert(t, offset, w), Spliced(MeantText(a), offset, w))
    BY <1>4, <1>8 DEF InsertString
  <2> QED  BY <1>3, <1>4, <2>1, InsertKept, SetTextKept
<1>9. ASSUME NEW n \in 0..MaxLength, TruncateText(a, n)  PROVE Kept'
  <2>1. SetText(a, Truncate(t, n), SubSeq(MeantText(a), 1, n))  BY <1>4, <1>9 DEF TruncateText
  <2> QED  BY <1>4, <2>1, TruncateKept, SetTextKept
<1> QED  BY <1>1, <1>5, <1>6, <1>7, <1>8, <1>9

LEMMA UseListKept ==
  ASSUME StorageInv, StorageInv', Kept, UseList
  PROVE  Kept'
<1>1. PICK a \in DOMAIN list :
        \/ \E v \in Value : PushValue(a, v) \/ \E index \in Offset : StoreItem(a, index, v)
        \/ \E b \in DOMAIN list : PushValues(a, b)
        \/ ShiftValue(a) \/ PopValue(a)
        \/ \E n \in 0..MaxLength : ResizeList(a, n)
  BY DEF UseList
<1>2. \A b \in DOMAIN list : ListHolds(list[b], MeantList(b))  BY DEF StorageInv, Held, MeantList
<1>3. Offset \subseteq Int /\ MaxLength \in Nat  BY StorageAssumption
<1>4. PICK l, m : l = list[a] /\ m = MeantList(a) /\ ListHolds(l, m) /\ m \in Seq(Thing) /\ l.length = Len(m)
  BY <1>2, ListShape
<1>5. ASSUME NEW v \in Value, PushValue(a, v)  PROVE Kept'
  <2>1. SetList(a, Push(l, v), Append(m, v))  BY <1>4, <1>5 DEF PushValue
  <2>2. Len(m) + 1 <= MaxLength
    <3>1. Len(Append(m, v)) <= MaxLength  BY <2>1 DEF SetList, Means
    <3>2. v \in Thing  BY DEF Thing
    <3> QED  BY <1>4, <3>1, <3>2, AppendProperties
  <2> QED  BY <1>4, <2>1, <2>2, PushKept, SetListKept
<1>6. ASSUME NEW v \in Value, NEW index \in Offset, StoreItem(a, index, v)  PROVE Kept'
  <2>1. SetList(a, StoreAt(l, index, v), Stored(m, index, v)) /\ index < MaxLength /\ index \in Int
    BY <1>3, <1>4, <1>6 DEF StoreItem
  <2> QED  BY <1>4, <2>1, StoreKept, SetListKept
<1>7. ASSUME NEW b \in DOMAIN list, PushValues(a, b)  PROVE Kept'
  <2>1. PICK k, x : /\ k = list[b] /\ x = MeantList(b) /\ ListHolds(k, x)
                    /\ x \in Seq(Thing) /\ k.length = Len(x)
    BY <1>2, ListShape
  <2>2. SetList(a, PushList(l, k), m \o x)  BY <1>4, <1>7, <2>1 DEF PushValues
  <2>3. k.length \in Nat /\ l.length + k.length <= MaxLength
    <3>1. Len(m \o x) <= MaxLength  BY <2>2 DEF SetList, Means
    <3>2. Len(m \o x) = Len(m) + Len(x)  BY <1>4, <2>1, ConcatProperties
    <3> QED  BY <1>4, <2>1, <3>1, <3>2, ListShape
  <2> QED  BY <1>4, <2>2, <2>3, PushListKept, SetListKept
<1>8. ASSUME ShiftValue(a)  PROVE Kept'
  <2>1. SetList(a, Shift(l), Tail(m))  BY <1>4, <1>8 DEF ShiftValue
  <2> QED  BY <1>4, <2>1, ShiftKept, SetListKept
<1>9. ASSUME PopValue(a)  PROVE Kept'
  <2>1. SetList(a, Pop(l), Front(m))  BY <1>4, <1>9 DEF PopValue
  <2> QED  BY <1>4, <2>1, ShiftKept, SetListKept
<1>10. ASSUME NEW n \in 0..MaxLength, ResizeList(a, n)  PROVE Kept'
  <2>1. SetList(a, Resize(l, n), Sized(m, n)) /\ n \in Nat /\ n <= MaxLength
    BY <1>3, <1>4, <1>10 DEF ResizeList
  <2> QED  BY <1>4, <2>1, ResizeKept, SetListKept
<1> QED  BY <1>1, <1>5, <1>6, <1>7, <1>8, <1>9, <1>10

LEMMA TakeTextKept ==
  ASSUME StorageInv, Kept, TakeText
  PROVE  Kept'
<1>1. PICK size \in Sizes :
        /\ Take("text", IF size = 0 THEN {} ELSE {Block("text", Address("text"))})
        /\ text' = With(text, Address("text"), NewText(size))
        /\ UNCHANGED <<open, list, code>>
  BY DEF TakeText
<1>2. PICK a, v, B :
        /\ a = Address("text") /\ v = NewText(size)
        /\ B = IF size = 0 THEN {} ELSE {Block("text", a)}
  OBVIOUS
<1>3. /\ DOMAIN text' = DOMAIN text \union {a} /\ text'[a] = v
      /\ \A b \in DOMAIN text : b # a => text'[b] = text[b]
  <2>1. text' = With(text, a, v)  BY <1>1, <1>2
  <2> QED  BY <2>1 DEF With
<1>4. a \notin DOMAIN text
  <2>1. "text" \in Pools /\ Addresses("text") = DOMAIN text  BY AddressesAre
  <2>2. PoolOK(pool["text"], Addresses("text"))  BY <2>1 DEF StorageInv, PoolsOK
  <2> QED  BY <1>2, <2>1, <2>2, ReadyOK DEF Address
<1>5. v.size > 0 <=> size # 0
  <2>1. size \in Nat  BY StorageAssumption
  <2> QED  BY <1>2, <2>1 DEF NewText
<1>6. Owned("text")' = Owned("text") \union B
  <2>1. \A b \in DOMAIN text : text'[b].size > 0 <=> text[b].size > 0  BY <1>3, <1>4
  <2>2. {b \in DOMAIN text' : text'[b].size > 0}
          = {b \in DOMAIN text : text[b].size > 0} \union (IF size = 0 THEN {} ELSE {a})
    BY <1>3, <1>4, <1>5, <2>1
  <2> QED  BY <1>2, <2>2, OwnedAre, OwnedWillBe
<1>7. Owned("list")' = Owned("list") /\ Owned("code")' = Owned("code")
  BY <1>1, OwnedAre, OwnedWillBe
<1>8. Addresses("text")' = Addresses("text") \union {Address("text")}
  BY <1>2, <1>3, AddressesAre, AddressesWillBe
<1>9. /\ "text" \in Pools
      /\ \A j \in Pools : j # "text" => Addresses(j)' = Addresses(j) /\ Owned(j)' = Owned(j)
  BY <1>1, <1>7, AddressesAre, AddressesWillBe
<1> QED  BY <1>1, <1>2, <1>6, <1>8, <1>9, TakeKept

LEMMA TakeListKept ==
  ASSUME StorageInv, Kept, TakeList
  PROVE  Kept'
<1>1. PICK a, v :
        /\ a = Address("list") /\ v = NewList /\ Take("list", {})
        /\ list' = With(list, a, v) /\ UNCHANGED <<open, text, code>>
  BY DEF TakeList
<1>2. /\ DOMAIN list' = DOMAIN list \union {a} /\ list'[a] = v
      /\ \A b \in DOMAIN list : b # a => list'[b] = list[b]
  BY <1>1 DEF With
<1>3. a \notin DOMAIN list
  <2>1. "list" \in Pools /\ Addresses("list") = DOMAIN list  BY AddressesAre
  <2>2. PoolOK(pool["list"], Addresses("list"))  BY <2>1 DEF StorageInv, PoolsOK
  <2> QED  BY <1>1, <2>1, <2>2, ReadyOK DEF Address
<1>4. ~ (v.size > 0)  BY <1>1 DEF NewList
<1>5. Owned("list")' = Owned("list") \union {}
  <2>1. {b \in DOMAIN list' : list'[b].size > 0} = {b \in DOMAIN list : list[b].size > 0}
    BY <1>2, <1>3, <1>4
  <2> QED  BY <2>1, OwnedAre, OwnedWillBe
<1>6. Owned("text")' = Owned("text") /\ Owned("code")' = Owned("code")
  BY <1>1, OwnedAre, OwnedWillBe
<1>7. Addresses("list")' = Addresses("list") \union {Address("list")}
  BY <1>1, <1>2, AddressesAre, AddressesWillBe
<1>8. /\ "list" \in Pools
      /\ \A j \in Pools : j # "list" => Addresses(j)' = Addresses(j) /\ Owned(j)' = Owned(j)
  BY <1>1, <1>6, AddressesAre, AddressesWillBe
<1> QED  BY <1>1, <1>5, <1>7, <1>8, TakeKept

LEMMA TakeCodeKept ==
  ASSUME StorageInv, Kept, TakeCode
  PROVE  Kept'
<1>1. PICK a :
        /\ a = Address("code") /\ Take("code", {})
        /\ code' = With(code, a, FALSE) /\ UNCHANGED <<open, text, list>>
  BY DEF TakeCode
<1>2. /\ DOMAIN code' = DOMAIN code \union {a} /\ code'[a] = FALSE
      /\ \A b \in DOMAIN code : b # a => code'[b] = code[b]
  BY <1>1 DEF With
<1>3. a \notin DOMAIN code
  <2>1. "code" \in Pools /\ Addresses("code") = DOMAIN code  BY AddressesAre
  <2>2. PoolOK(pool["code"], Addresses("code"))  BY <2>1 DEF StorageInv, PoolsOK
  <2> QED  BY <1>1, <2>1, <2>2, ReadyOK DEF Address
<1>5. Owned("code")' = Owned("code") \union {}
  <2>1. {b \in DOMAIN code' : code'[b]} = {b \in DOMAIN code : code[b]}  BY <1>2, <1>3
  <2> QED  BY <2>1, OwnedAre, OwnedWillBe
<1>6. Owned("text")' = Owned("text") /\ Owned("list")' = Owned("list")
  BY <1>1, OwnedAre, OwnedWillBe
<1>7. Addresses("code")' = Addresses("code") \union {Address("code")}
  BY <1>1, <1>2, AddressesAre, AddressesWillBe
<1>8. /\ "code" \in Pools
      /\ \A j \in Pools : j # "code" => Addresses(j)' = Addresses(j) /\ Owned(j)' = Owned(j)
  BY <1>1, <1>6, AddressesAre, AddressesWillBe
<1> QED  BY <1>1, <1>5, <1>7, <1>8, TakeKept

LEMMA CodeProtoKept ==
  ASSUME StorageInv, Kept, NEW a \in DOMAIN code, CodeProto(a)
  PROVE  Kept'
<1>1. /\ code' = [code EXCEPT ![a] = TRUE] /\ UNCHANGED <<open, pool, text, list>>
      /\ heap' = heap \union {Block("code", a)}
  BY DEF CodeProto
<1>2. DOMAIN code' = DOMAIN code /\ code'[a] = TRUE /\ \A b \in DOMAIN code : b # a => code'[b] = code[b]
  BY <1>1
<1>3. Owned("code")' = Owned("code") \union {Block("code", a)}
  <2>1. {b \in DOMAIN code' : code'[b]} = {b \in DOMAIN code : code[b]} \union {a}  BY <1>2
  <2> QED  BY <2>1, OwnedAre, OwnedWillBe
<1>4. Owned("text")' = Owned("text") /\ Owned("list")' = Owned("list")
  BY <1>1, OwnedAre, OwnedWillBe
<1>5. \A j \in Pools : Addresses(j)' = Addresses(j)
  BY <1>1, <1>2, AddressesAre, AddressesWillBe
<1>6. "code" \in Pools /\ \A j \in Pools : j # "code" => Owned(j)' = Owned(j)
  BY <1>4, AddressesAre
<1> QED  BY <1>1, <1>3, <1>5, <1>6, UseKept

\* What is kept of pools without items.
LEMMA EmptyKept ==
  ASSUME pool' = [k \in Pools |-> NewPool], DOMAIN text' = {}, DOMAIN list' = {}, DOMAIN code' = {},
         open' => heap' = UNION {Slabs(k, NewPool) : k \in Pools}
  PROVE  Kept'
<1>1. \A k \in Pools : pool'[k] = NewPool /\ Addresses(k)' = {}  BY AddressesAre, AddressesWillBe
<1>2. \A k \in Pools : PoolFilled(pool'[k], Addresses(k)')  BY <1>1, NewPoolFilled
<1>3. \A k \in Pools : Owned(k)' = {}  BY AddressesAre, OwnedWillBe
<1>4. \A k \in Pools : Due(k)' = Slabs(k, NewPool)
  <2> SUFFICES ASSUME NEW k \in Pools  PROVE Due(k)' = Slabs(k, NewPool)  OBVIOUS
  <2>1. Due(k)' = Slabs(k, pool'[k]) \union Owned(k)'  BY DEF Due
  <2> QED  BY <1>1, <1>3, <2>1
<1>5. open' => heap' = UNION {Due(k)' : k \in Pools}  BY <1>4
<1> QED  BY <1>2, <1>5 DEF Kept

\* The memory of a context is that of its slabs and of what its items came to,
\* and the addresses in use are those that hemp_pool_each() visits.
THEOREM MemoryIsKept == StorageSpec => []Kept
<1>1. StorageInit => Kept
  <2> SUFFICES ASSUME StorageInit  PROVE Kept  OBVIOUS
  <2>1. /\ text = <<>> /\ list = <<>> /\ code = <<>> /\ open = FALSE
        /\ pool = [k \in Pools |-> NewPool]
    BY DEF StorageInit
  <2>2. DOMAIN text = {} /\ DOMAIN list = {} /\ DOMAIN code = {}  BY <2>1
  <2>3. \A k \in Pools : pool[k] = NewPool /\ Addresses(k) = {}  BY <2>1, <2>2, AddressesAre
  <2>4. \A k \in Pools : PoolFilled(pool[k], Addresses(k))  BY <2>3, NewPoolFilled
  <2> QED  BY <2>1, <2>4 DEF Kept
<1>2. ASSUME StorageInv, StorageInv', Kept, [StorageNext]_storageVars  PROVE Kept'
  <2>1. CASE UNCHANGED storageVars
    <3>1. UNCHANGED <<open, pool, text, list, code, heap>>  BY <2>1 DEF storageVars
    <3>2. \A k \in Pools : Addresses(k)' = Addresses(k) /\ Owned(k)' = Owned(k)
      BY <3>1, AddressesAre, AddressesWillBe, OwnedAre, OwnedWillBe
    <3>3. "text" \in Pools /\ heap' = heap \union {} /\ Owned("text")' = Owned("text") \union {}
      BY <3>1, <3>2, AddressesAre
    <3> QED  BY <1>2, <3>1, <3>2, <3>3, UseKept
  <2>2. CASE New
    <3>1. /\ UNCHANGED <<text, list, code>> /\ pool' = [k \in Pools |-> NewPool] /\ ~ open
          /\ heap' = UNION {Slabs(k, NewPool) : k \in Pools}
      BY <2>2 DEF New
    <3>2. DOMAIN text = {} /\ DOMAIN list = {} /\ DOMAIN code = {}
      BY <1>2, <3>1, AddressesAre DEF StorageInv, PoolsOK
    <3> QED  BY <3>1, <3>2, EmptyKept
  <2>3. CASE Free
    <3>1. /\ text' = <<>> /\ list' = <<>> /\ code' = <<>> /\ ~ open'
          /\ pool' = [k \in Pools |-> NewPool]
      BY <2>3 DEF Free
    <3>2. DOMAIN text' = {} /\ DOMAIN list' = {} /\ DOMAIN code' = {}  BY <3>1
    <3> QED  BY <3>1, <3>2, EmptyKept
  <2>4. CASE TakeText  BY <1>2, <2>4, TakeTextKept
  <2>5. CASE TakeList  BY <1>2, <2>5, TakeListKept
  <2>6. CASE TakeCode  BY <1>2, <2>6, TakeCodeKept
  <2>7. CASE UseText  BY <1>2, <2>7, UseTextKept
  <2>8. CASE UseList  BY <1>2, <2>8, UseListKept
  <2>9. ASSUME NEW a \in DOMAIN code, CodeProto(a)  PROVE Kept'
    BY <1>2, <2>9, CodeProtoKept
  <2> QED  BY <1>2, <2>1, <2>2, <2>3, <2>4, <2>5, <2>6, <2>7, <2>8, <2>9 DEF StorageNext
<1> QED  BY <1>1, <1>2, StorageInvariant, PTL DEF StorageSpec

\* hemp_context_free() frees every block that the temporaries and the pools
\* of the context came to, each once, and nothing else.
THEOREM FreesOnce == StorageSpec => ReleasedOnce
<1>1. ASSUME StorageInv, Kept, Free
      PROVE  /\ heap' = {} /\ Blocks(freed') = heap
             /\ \A f, g \in freed' : f.block = g.block => f = g
  <2>1. /\ freed' = UNION {Cleaned(k) : k \in Pools} /\ heap' = heap \ Blocks(freed')
        /\ heap = UNION {Due(k) : k \in Pools}
    BY <1>1 DEF Free, Kept
  <2>2. ASSUME NEW k \in Pools
        PROVE  /\ Blocks(Cleaned(k)) = Due(k)
               /\ \A f \in Cleaned(k) : f.block \in Due(k)
               /\ \A f, g \in Cleaned(k) : f.block = g.block => f = g
    <3>1. PoolOK(pool[k], Addresses(k)) /\ PoolFilled(pool[k], Addresses(k))
      BY <1>1 DEF StorageInv, PoolsOK, Kept
    <3> QED  BY <3>1, CleanedAre
  <2>3. Blocks(freed') = heap
    <3>1. ASSUME NEW b \in heap  PROVE b \in Blocks(freed')
      <4>1. PICK k \in Pools : b \in Due(k)  BY <2>1, <3>1
      <4>2. PICK f \in Cleaned(k) : b = f.block  BY <2>2, <4>1 DEF Blocks
      <4>3. f \in freed'  BY <2>1, <4>2
      <4> QED  BY <4>2, <4>3 DEF Blocks
    <3>2. ASSUME NEW f \in freed'  PROVE f.block \in heap
      <4>1. PICK k \in Pools : f \in Cleaned(k)  BY <2>1, <3>2
      <4>2. f.block \in Due(k)  BY <2>2, <4>1
      <4> QED  BY <2>1, <4>2
    <3> QED  BY <3>1, <3>2 DEF Blocks
  <2>4. ASSUME NEW f \in freed', NEW g \in freed', f.block = g.block  PROVE f = g
    <3>1. PICK k \in Pools : f \in Cleaned(k)  BY <2>1, <2>4
    <3>2. PICK j \in Pools : g \in Cleaned(j)  BY <2>1, <2>4
    <3>3. ASSUME NEW i \in Pools, NEW b \in Due(i)  PROVE b[1] = i
      <4>1. CASE b \in Slabs(i, pool[i])  BY <4>1 DEF Slabs, Slab
      <4>2. CASE b \in Owned(i)  BY <4>2 DEF Owned, Block
      <4> QED  BY <3>3, <4>1, <4>2 DEF Due
    <3>4. f.block[1] = k /\ g.block[1] = j  BY <2>2, <3>1, <3>2, <3>3
    <3>5. k = j  BY <2>4, <3>4
    <3> QED  BY <2>2, <2>4, <3>1, <3>2, <3>5
  <2> QED  BY <2>1, <2>3, <2>4
<1>2. ASSUME StorageInv, Kept
      PROVE  [Free => /\ heap' = {} /\ Blocks(freed') = heap
                      /\ \A f, g \in freed' : f.block = g.block => f = g]_storageVars
  BY <1>1, <1>2
<1> QED  BY <1>2, StorageInvariant, MemoryIsKept, PTL DEF ReleasedOnce
=============================================================================
