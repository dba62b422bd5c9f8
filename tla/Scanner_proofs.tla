--------------------------- MODULE Scanner_proofs ----------------------------
(***************************************************************************)
(* The fragments that a scan makes are the source, for any text, tags and  *)
(* operators, and the text among them holds no tag.                        *)
(*                                                                         *)
(* What is scanned is a chain of fragments from the first character to     *)
(* scantok, and src is at scantok or beyond it.  Each turn of a loop adds  *)
(* the characters up to a place that is found between src and the end of   *)
(* the text.  The one place that is found by a recursive function, where a *)
(* quoted string closes, is shown to be there by induction from the end of *)
(* the text backwards.  What a quoted string stands for is another such    *)
(* function, compared with what is to be left of it in the same way.       *)
(***************************************************************************)
EXTENDS Scanner, TLAPS, FiniteSetTheorems, SequenceTheorems, WellFoundedInduction

IsSeq(s) == \E S : s \in Seq(S)

\* Where the first k fragments of fs end.
Until(fs, k) == IF k = 0 THEN 1 ELSE fs[k].from + fs[k].length

\* Fragment k begins where the ones before it end, at its offset in the text.
Follows(fs, k) ==
  /\ fs[k].type \in Types /\ fs[k].length \in Nat
  /\ fs[k].from = Until(fs, k - 1) /\ fs[k].pos = fs[k].from - 1 /\ fs[k].from \in Nat

\* The fragments fs are the characters before tok.
Chain(fs, tok) ==
  /\ IsSeq(fs)
  /\ \A k \in 1..Len(fs) : Follows(fs, k)
  /\ tok = Until(fs, Len(fs)) /\ tok \in Nat

\* An end of file is the last fragment, and only of a scan that is done.
EofLast ==
  /\ \A k \in 1..Len(fragments) : fragments[k].type = "eof" => at = "scanned" /\ k = Len(fragments)
  /\ at = "scanned" => /\ fragments # <<>> /\ scantok = End
                       /\ fragments[Len(fragments)].type = "eof"

Placed ==
  /\ IsText(text)
  /\ at \in Loops \union Ends
  /\ src \in 1..End /\ scantok \in 1..src /\ scanpos = scantok - 1
  /\ at \in {"inline", "outline", "plain"} => scantok = src

\* The tag that is entered.
TagsKnown ==
  /\ IsSeq(scantags)
  /\ \A k \in 1..Len(scantags) : scantags[k] \in InlineTags \union OutlineTags
  /\ at \in {"lines", "text", "scanned", "plain"} => scantags = <<>>
  /\ at \in {"inline", "outline"} => Len(scantags) = 1
  /\ at = "inline" => scantags[1] \in InlineTags

ScanInv == Placed /\ TagsKnown /\ Chain(fragments, scantok) /\ EofLast

-----------------------------------------------------------------------------
(***************************************************************************)
(* Sequences, and the least of some positions.                             *)
(***************************************************************************)
LEMMA SeqAppended ==
  ASSUME NEW s, IsSeq(s), NEW x
  PROVE  /\ IsSeq(Append(s, x)) /\ IsSeq(s \o <<x>>)
         /\ Append(s, x) = s \o <<x>>
         /\ Len(s) \in Nat /\ Len(s \o <<x>>) = Len(s) + 1
         /\ \A i \in 1..Len(s) : (s \o <<x>>)[i] = s[i]
         /\ (s \o <<x>>)[Len(s) + 1] = x
<1>1. PICK S : s \in Seq(S)  BY DEF IsSeq
<1> DEFINE T == S \union {x}
<1>2. S \subseteq T /\ x \in T  OBVIOUS
<1> HIDE DEF T
<1>3. s \in Seq(T)  BY <1>1, <1>2
<1>4. /\ s \o <<x>> \in Seq(T) /\ Append(s, x) = s \o <<x>>
      /\ Len(s) \in Nat /\ Len(s \o <<x>>) = Len(s) + 1
      /\ \A i \in 1..Len(s) : (s \o <<x>>)[i] = s[i]
      /\ (s \o <<x>>)[Len(s) + 1] = x
  BY <1>2, <1>3
<1> QED  BY <1>4 DEF IsSeq

LEMMA SeqEmpty ==
  /\ IsSeq(<<>>) /\ Len(<<>>) = 0
  /\ \A s : IsSeq(s) => s \o <<>> = s /\ Len(s) \in Nat /\ (Len(s) = 0 <=> s = <<>>)
<1>1. <<>> \in Seq({}) /\ Len(<<>>) = 0  OBVIOUS
<1>2. ASSUME NEW s, IsSeq(s)
      PROVE  s \o <<>> = s /\ Len(s) \in Nat /\ (Len(s) = 0 <=> s = <<>>)
  <2>1. PICK S : s \in Seq(S)  BY <1>2 DEF IsSeq
  <2> QED  BY <2>1, EmptySeq
<1> QED  BY <1>1, <1>2 DEF IsSeq

LEMMA TextLength ==
  ASSUME NEW s, IsText(s)
  PROVE  Len(s) \in Nat /\ (s # <<>> => Len(s) # 0) /\ DOMAIN s = 1..Len(s)
  BY EmptySeq DEF IsText

LEMMA LeastIn ==
  ASSUME NEW i \in Nat, NEW n \in Nat, NEW S \in SUBSET (i..n), S # {}
  PROVE  Min(S) \in S /\ \A j \in S : Min(S) <= j
<1>1. S \subseteq Nat  OBVIOUS
<1>2. PICK m \in S : \A j \in S : ~ (<<j, m>> \in OpToRel(<, Nat))
  BY <1>1, NatLessThanWellFounded, WFMin
<1>3. ASSUME NEW j \in S  PROVE m <= j
  <2>1. m \in Nat /\ j \in Nat  BY <1>1
  <2>2. ~ (j < m)  BY <1>2, <2>1 DEF OpToRel
  <2> QED  BY <2>1, <2>2
<1> QED  BY <1>3 DEF Min

-----------------------------------------------------------------------------
(***************************************************************************)
(* Fragments that follow a chain.                                          *)
(***************************************************************************)
LEMMA FragmentFields ==
  ASSUME NEW type, NEW from \in Nat, NEW pos, NEW to \in Nat, NEW value, from <= to
  PROVE  LET f == Fragment(type, from, pos, to, value)
         IN  /\ f.type = type /\ f.from = from /\ f.pos = pos
             /\ f.length \in Nat /\ f.from + f.length = to
  BY DEF Fragment

LEMMA ChainGrows ==
  ASSUME NEW fs, NEW tok, Chain(fs, tok), NEW type \in Types, NEW to \in Nat, tok <= to,
         NEW pos, pos = tok - 1, NEW value
  PROVE  Chain(fs \o <<Fragment(type, tok, pos, to, value)>>, to)
<1> DEFINE f == Fragment(type, tok, pos, to, value)
           gs == fs \o <<f>>
           n == Len(fs)
<1>1. tok \in Nat /\ tok = Until(fs, n) /\ \A k \in 1..n : Follows(fs, k)
  BY DEF Chain
<1>2. f.type = type /\ f.from = tok /\ f.pos = tok - 1 /\ f.length \in Nat /\ f.from + f.length = to
  BY <1>1, FragmentFields
<1> HIDE DEF f
<1>3. /\ n \in Nat /\ IsSeq(gs) /\ Len(gs) = n + 1 /\ gs[n + 1] = f
      /\ \A k \in 1..n : gs[k] = fs[k]
  BY SeqAppended DEF Chain
<1> HIDE DEF n, gs
<1>4. \A k \in 0..n : Until(gs, k) = Until(fs, k)
  <2> SUFFICES ASSUME NEW k \in 0..n  PROVE Until(gs, k) = Until(fs, k)
    OBVIOUS
  <2>1. CASE k = 0  BY <2>1 DEF Until
  <2>2. CASE k # 0
    <3>1. k \in 1..n  BY <1>3, <2>2
    <3> QED  BY <1>3, <3>1 DEF Until
  <2> QED  BY <2>1, <2>2
<1>5. ASSUME NEW k \in 1..(n + 1)  PROVE Follows(gs, k)
  <2>1. CASE k \in 1..n
    <3>1. k - 1 \in 0..n  BY <1>3, <2>1
    <3>2. Follows(fs, k)  BY <1>1, <2>1
    <3> QED  BY <1>3, <1>4, <2>1, <3>1, <3>2 DEF Follows
  <2>2. CASE k \notin 1..n
    <3>1. k = n + 1 /\ k - 1 = n /\ n \in 0..n  BY <1>3, <2>2
    <3> QED  BY <1>1, <1>2, <1>3, <1>4, <3>1 DEF Follows
  <2> QED  BY <2>1, <2>2
<1>6. n + 1 # 0 /\ Until(gs, n + 1) = to
  BY <1>2, <1>3 DEF Until
<1> QED  BY <1>3, <1>5, <1>6 DEF Chain, gs, f

-----------------------------------------------------------------------------
(***************************************************************************)
(* The places that the scanners of elements find.                          *)
(***************************************************************************)
LEMMA EndFacts ==
  ASSUME IsText(text)
  PROVE  /\ End \in Nat /\ End >= 1 /\ Len(text) \in Nat /\ Len(text) = End - 1
         /\ \A i \in Nat : i >= End => Char(i) = NUL
  BY TextLength DEF End, Char

LEMMA PastFacts ==
  ASSUME IsText(text), NEW S, NUL \notin S, NEW i \in 1..End
  PROVE  Past(S, i) \in i..End
<1> DEFINE T == {j \in i..End : Char(j) \notin S}
<1>1. End \in Nat /\ Char(End) = NUL /\ i \in Nat  BY EndFacts
<1>2. End \in i..End  BY <1>1
<1>3. T \in SUBSET (i..End) /\ T # {}  BY <1>1, <1>2
<1>4. Past(S, i) = Min(T)  BY DEF Past
<1> HIDE DEF T
<1>5. Min(T) \in T  BY <1>1, <1>3, LeastIn
<1> QED  BY <1>3, <1>4, <1>5

LEMMA NoNul ==
  /\ NUL \notin Spaces /\ NUL \notin Spaces \ Newlines /\ NUL \notin Digits
  /\ NUL \notin Octals /\ NUL \notin Letters /\ NUL \notin Ident
  /\ NUL \notin Ident \union {Hyphen} /\ NUL \notin Newlines /\ LF # NUL
  BY ScannerAssumption DEF Ident, Newlines

\* A character of the text, not the NUL behind it.
LEMMA BeforeEnd ==
  ASSUME IsText(text), NEW i \in Nat, Char(i) # NUL
  PROVE  i < End
<1>1. End \in Nat /\ (i >= End => Char(i) = NUL)  BY EndFacts
<1> QED  BY <1>1

LEMMA MatchFacts ==
  ASSUME IsText(text), NEW R \in SUBSET (InlineTags \union OutlineTags \union Operators),
         NEW i \in 1..End, NEW r \in Match(R, i)
  PROVE  r \in R /\ StartsWith(i, r.start) /\ Len(r.start) \in Nat \ {0}
         /\ i + Len(r.start) \in i..End
<1>1. r \in R /\ StartsWith(i, r.start)  BY DEF Match
<1>2. IsText(r.start) /\ r.start # <<>>  BY <1>1, ScannerAssumption
<1>3. Len(r.start) \in Nat \ {0}  BY <1>2, TextLength
<1>4. i + Len(r.start) <= End /\ End \in Nat  BY <1>1, EndFacts DEF StartsWith
<1> QED  BY <1>1, <1>3, <1>4

LEMMA AfterNewlineFacts ==
  ASSUME IsText(text), NEW i \in 1..End, Char(i) \in Newlines
  PROVE  AfterNewline(i) \in i..End /\ AfterNewline(i) > i
<1>1. i \in Nat /\ i < End /\ End \in Nat  BY NoNul, BeforeEnd, EndFacts
<1>2. CASE Char(i) = CR /\ Char(i + 1) = LF
  <2>1. i + 1 \in Nat /\ Char(i + 1) # NUL  BY <1>1, <1>2, NoNul
  <2>2. i + 1 < End  BY <2>1, BeforeEnd
  <2>3. AfterNewline(i) = i + 2  BY <1>2 DEF AfterNewline
  <2> QED  BY <1>1, <2>2, <2>3
<1>3. CASE ~ (Char(i) = CR /\ Char(i + 1) = LF)
  <2>1. AfterNewline(i) = i + 1  BY <1>3 DEF AfterNewline
  <2> QED  BY <1>1, <2>1
<1> QED  BY <1>2, <1>3

LEMMA NumberFacts ==
  ASSUME IsText(text), NEW i \in 1..End
  PROVE  IntegerEnd(i) \in i..End /\ NumberEnd(i) \in i..End
<1>1. End \in Nat  BY EndFacts
<1>2. IntegerEnd(i) \in i..End
  BY NoNul, PastFacts DEF IntegerEnd
<1> DEFINE whole == Past(Digits, i)
           frac == IF Fraction(whole) THEN Past(Digits, whole + 1) ELSE whole
<1>3. whole \in i..End  BY NoNul, PastFacts
<1> HIDE DEF whole
<1>4. \A j \in i..End : Char(j + 1) \in Digits => j + 1 \in 1..End
  <2> SUFFICES ASSUME NEW j \in i..End, Char(j + 1) \in Digits  PROVE j + 1 \in 1..End
    OBVIOUS
  <2>1. j + 1 \in Nat /\ Char(j + 1) # NUL  BY <1>1, NoNul
  <2>2. j + 1 < End  BY <2>1, BeforeEnd
  <2> QED  BY <1>1, <2>1, <2>2
<1>5. \A j \in i..End : Char(j + 1) \in Digits => Past(Digits, j + 1) \in i..End
  <2> SUFFICES ASSUME NEW j \in i..End, Char(j + 1) \in Digits
               PROVE  Past(Digits, j + 1) \in i..End
    OBVIOUS
  <2>1. j + 1 \in 1..End  BY <1>4
  <2>2. Past(Digits, j + 1) \in (j + 1)..End  BY <2>1, NoNul, PastFacts
  <2> QED  BY <1>1, <2>2
<1>6. frac \in i..End
  <2>1. CASE Fraction(whole)
    <3>1. Char(whole + 1) \in Digits  BY <2>1 DEF Fraction
    <3> QED  BY <1>3, <1>5, <2>1, <3>1
  <2>2. CASE ~ Fraction(whole)  BY <1>3, <2>2
  <2> QED  BY <2>1, <2>2
<1> HIDE DEF frac
<1>7. NumberEnd(i) = IF Char(frac) = Exponent /\ Char(frac + 1) \in Digits
                     THEN Past(Digits, frac + 1) ELSE frac
  BY DEF NumberEnd, frac, whole
<1> QED  BY <1>2, <1>5, <1>6, <1>7

-----------------------------------------------------------------------------
(***************************************************************************)
(* Where a quoted string closes: the walk goes to higher places, so that   *)
(* induction begins at the end of the text.                                *)
(***************************************************************************)
LEMMA EveryNat ==
  ASSUME NEW T \in SUBSET Nat, 0 \in T, \A n \in T : n + 1 \in T
  PROVE  T = Nat
<1> SUFFICES ASSUME T # Nat  PROVE FALSE
  OBVIOUS
<1> DEFINE U == Nat \ T
<1>1. U # {} /\ U \subseteq Nat  OBVIOUS
<1> HIDE DEF U
<1>2. PICK n \in U : \A m \in U : ~ (<<m, n>> \in OpToRel(<, Nat))
  BY <1>1, NatLessThanWellFounded, WFMin
<1>3. n \in Nat /\ n # 0  BY <1>1 DEF U
<1>4. n - 1 \in Nat /\ n - 1 < n /\ (n - 1) + 1 = n  BY <1>3
<1>5. <<n - 1, n>> \in OpToRel(<, Nat)  BY <1>3, <1>4 DEF OpToRel
<1>6. n - 1 \in T  BY <1>2, <1>4, <1>5 DEF U
<1> QED  BY <1>4, <1>6 DEF U

\* The place after the character at j, and the one that a backslash hides.
Beyond(j) == IF Char(j) = Backslash THEN j + 2 ELSE j + 1

Walked(w, j, end) ==
  IF j >= End \/ StartsWith(j, end) THEN j
  ELSE IF Beyond(j) = End THEN 0 ELSE w[Beyond(j)]

Walks(w, i, end) == w = [j \in i..End + 1 |-> Walked(w, j, end)]

LEMMA CloseUnfolds ==
  ASSUME NEW i, NEW end, NEW w, Walks(w, i, end), i # End
  PROVE  \E v : Walks(v, i, end) /\ Close(i, end) = v[i]
<1> DEFINE v == CHOOSE x : Walks(x, i, end)
<1>1. Walks(v, i, end)  OBVIOUS
<1>2. Close(i, end) = v[i]
  BY Zenon DEF Close, Walks, Walked, Beyond
<1> QED  BY <1>1, <1>2

LEMMA BeyondFacts ==
  ASSUME IsText(text), NEW j \in Nat, j < End
  PROVE  Beyond(j) \in (j + 1)..(End + 1)
  BY EndFacts DEF Beyond

LEMMA WalkBegins ==
  ASSUME IsText(text), NEW end, NEW i \in Nat, i >= 1, i <= End,
         NEW w, Walks(w, i + 1, end)
  PROVE  \E v : Walks(v, i, end)
<1> DEFINE D == i..(End + 1)
           E == (i + 1)..(End + 1)
           v == [j \in D |-> IF j = i THEN Walked(w, i, end) ELSE w[j]]
<1>1. End \in Nat  BY EndFacts
<1>2. w = [j \in E |-> Walked(w, j, end)]  BY DEF Walks
<1>3. \A j \in D : j = i \/ j \in E  BY <1>1
<1>4. \A j \in E : j \in D /\ j # i  BY <1>1
<1> HIDE DEF D, E
<1>5. \A j \in E : v[j] = w[j]  BY <1>4
<1>6. i \in D  BY <1>1 DEF D
<1>7. v[i] = Walked(w, i, end)  BY <1>6
<1> HIDE DEF v
<1>8. ASSUME NEW j \in D  PROVE Walked(v, j, end) = Walked(w, j, end)
  <2>1. CASE j >= End \/ StartsWith(j, end)  BY <2>1, Zenon DEF Walked
  <2>2. CASE ~ (j >= End \/ StartsWith(j, end))
    <3>1. j \in Nat /\ j < End /\ j >= i  BY <1>1, <2>2 DEF D
    <3>2. Beyond(j) \in (j + 1)..(End + 1)  BY <3>1, BeyondFacts
    <3>3. Beyond(j) \in E  BY <1>1, <3>1, <3>2 DEF E
    <3>4. v[Beyond(j)] = w[Beyond(j)]  BY <1>5, <3>3
    <3> QED  BY <3>4, Zenon DEF Walked
  <2> QED  BY <2>1, <2>2
<1>9. ASSUME NEW j \in D  PROVE v[j] = Walked(v, j, end)
  <2>1. CASE j = i  BY <1>7, <1>8, <1>6, <2>1
  <2>2. CASE j # i
    <3>1. j \in E  BY <1>3, <2>2
    <3>2. w[j] = Walked(w, j, end)  BY <1>2, <3>1, Zenon
    <3> QED  BY <1>5, <1>8, <3>1, <3>2
  <2> QED  BY <2>1, <2>2
<1>10. v = [j \in D |-> v[j]]  BY DEF v
<1>11. v = [j \in D |-> Walked(v, j, end)]  BY <1>9, <1>10, Zenon
<1> QED  BY <1>11 DEF Walks, D

LEMMA WalkThere ==
  ASSUME IsText(text), NEW end, NEW i \in 1..End
  PROVE  \E w : Walks(w, i, end)
<1> DEFINE T == {n \in Nat : n <= End => \E w : Walks(w, (End + 1) - n, end)}
<1>1. End \in Nat /\ End >= 1  BY EndFacts
<1>2. 0 \in T
  <2> DEFINE w == [j \in (End + 1)..(End + 1) |-> j]
  <2>1. \A j \in (End + 1)..(End + 1) : j = End + 1 /\ j >= End  BY <1>1
  <2>2. \A j \in (End + 1)..(End + 1) : Walked(w, j, end) = j  BY <2>1, Zenon DEF Walked
  <2>3. Walks(w, End + 1, end)  BY <2>2, Zenon DEF Walks
  <2>4. (End + 1) - 0 = End + 1  BY <1>1
  <2> QED  BY <2>3, <2>4
<1>3. ASSUME NEW n \in T  PROVE n + 1 \in T
  <2> SUFFICES ASSUME n + 1 <= End  PROVE \E w : Walks(w, (End + 1) - (n + 1), end)
    OBVIOUS
  <2>1. n \in Nat /\ n <= End  BY <1>1
  <2>2. PICK w : Walks(w, (End + 1) - n, end)  BY <2>1
  <2> DEFINE k == (End + 1) - (n + 1)
  <2>3. k \in Nat /\ k >= 1 /\ k <= End /\ k + 1 = (End + 1) - n  BY <1>1, <2>1
  <2> HIDE DEF k
  <2>4. Walks(w, k + 1, end)  BY <2>2, <2>3
  <2>5. \E v : Walks(v, k, end)  BY <2>3, <2>4, WalkBegins
  <2> QED  BY <2>5 DEF k
<1> HIDE DEF T
<1>4. T = Nat
  <2>1. T \in SUBSET Nat  BY DEF T
  <2> QED  BY <1>2, <1>3, <2>1, EveryNat
<1>5. (End + 1) - i \in Nat /\ (End + 1) - i <= End /\ (End + 1) - ((End + 1) - i) = i
  BY <1>1
<1>6. (End + 1) - i \in T  BY <1>4, <1>5
<1> QED  BY <1>5, <1>6 DEF T

\* What a walk from j comes to.
Lands(w, j, end) ==
  j # End => \/ w[j] = 0 \/ w[j] = End + 1
             \/ w[j] \in j..End /\ StartsWith(w[j], end)

LEMMA WalkLands ==
  ASSUME IsText(text), NEW end, NEW i \in 1..End, NEW w, Walks(w, i, end)
  PROVE  \A j \in i..End : Lands(w, j, end)
<1> DEFINE T == {n \in Nat : \A j \in i..(End + 1) : j >= (End + 1) - n => Lands(w, j, end)}
<1>1. End \in Nat /\ End >= 1 /\ i \in Nat  BY EndFacts
<1>2. \A j \in i..(End + 1) : w[j] = Walked(w, j, end)
  BY Zenon DEF Walks
<1>3. 0 \in T
  <2>1. \A j \in i..(End + 1) : j >= (End + 1) - 0 => j = End + 1 /\ j >= End  BY <1>1
  <2>2. \A j \in i..(End + 1) : j >= End => w[j] = j  BY <1>2 DEF Walked
  <2> QED  BY <2>1, <2>2 DEF Lands
<1>4. ASSUME NEW n \in T  PROVE n + 1 \in T
  <2> SUFFICES ASSUME NEW j \in i..(End + 1), j >= (End + 1) - (n + 1)
               PROVE  Lands(w, j, end)
    OBVIOUS
  <2>1. \A m \in i..(End + 1) : m >= (End + 1) - n => Lands(w, m, end)
    OBVIOUS
  <2>2. CASE j >= End
    <3>1. w[j] = j /\ (j = End \/ j = End + 1)  BY <1>1, <1>2, <2>2 DEF Walked
    <3> QED  BY <3>1 DEF Lands
  <2>3. CASE j < End /\ StartsWith(j, end)
    <3>1. w[j] = j /\ j \in j..End  BY <1>1, <1>2, <2>3 DEF Walked
    <3> QED  BY <2>3, <3>1 DEF Lands
  <2>4. CASE j < End /\ ~ StartsWith(j, end)
    <3>1. ~ (j >= End) /\ j \in Nat  BY <1>1, <2>4
    <3>2. w[j] = IF Beyond(j) = End THEN 0 ELSE w[Beyond(j)]
      BY <1>2, <2>4, <3>1 DEF Walked
    <3>3. Beyond(j) \in (j + 1)..(End + 1)  BY <2>4, <3>1, BeyondFacts
    <3>4. PICK m : m = Beyond(j)  OBVIOUS
    <3>5. /\ m \in i..(End + 1) /\ m >= (End + 1) - n /\ m >= j
          /\ \A x : x \in m..End => x \in j..End
      BY <1>1, <3>1, <3>3, <3>4
    <3>6. Lands(w, m, end)  BY <2>1, <3>5
    <3> QED  BY <3>2, <3>4, <3>5, <3>6 DEF Lands
  <2>5. j >= End \/ j < End  BY <1>1
  <2> QED  BY <2>2, <2>3, <2>4, <2>5
<1> HIDE DEF T
<1>5. T = Nat
  <2>1. T \in SUBSET Nat  BY DEF T
  <2> QED  BY <1>3, <1>4, <2>1, EveryNat
<1>6. End + 1 \in T  BY <1>1, <1>5
<1>7. \A j \in i..End : j \in i..(End + 1) /\ j >= (End + 1) - (End + 1)  BY <1>1
<1> QED  BY <1>6, <1>7 DEF T

LEMMA CloseFacts ==
  ASSUME IsText(text), NEW i \in 1..End, NEW end, IsText(end),
         Close(i, end) # 0, Close(i, end) # End + 1
  PROVE  /\ Close(i, end) \in i..End /\ StartsWith(Close(i, end), end)
         /\ Close(i, end) + Len(end) \in i..End
<1>1. End \in Nat /\ i \in Nat /\ Len(end) \in Nat  BY EndFacts, TextLength
<1>2. i # End  BY DEF Close
<1>3. PICK w : Walks(w, i, end)  BY WalkThere
<1>4. PICK v : Walks(v, i, end) /\ Close(i, end) = v[i]  BY <1>2, <1>3, CloseUnfolds
<1>5. i \in i..End  BY <1>1
<1>6. Lands(v, i, end)  BY <1>4, <1>5, WalkLands
<1>7. Close(i, end) \in i..End /\ StartsWith(Close(i, end), end)
  BY <1>2, <1>4, <1>6 DEF Lands
<1>8. PICK c : c = Close(i, end)  OBVIOUS
<1>9. c \in i..End /\ c + Len(end) <= End  BY <1>7, <1>8 DEF StartsWith
<1>10. c + Len(end) \in i..End  BY <1>1, <1>9
<1> QED  BY <1>7, <1>8, <1>10

-----------------------------------------------------------------------------
(***************************************************************************)
(* Fragments that are added.                                               *)
(***************************************************************************)
NoEof(fs) == \A k \in 1..Len(fs) : fs[k].type # "eof"

LEMMA NoEofGrows ==
  ASSUME NEW fs, IsSeq(fs), NoEof(fs), NEW type, type # "eof",
         NEW from, NEW pos, NEW to, NEW value
  PROVE  NoEof(fs \o <<Fragment(type, from, pos, to, value)>>)
<1> DEFINE f == Fragment(type, from, pos, to, value)
           gs == fs \o <<f>>
<1>1. f.type = type  BY DEF Fragment
<1> HIDE DEF f
<1>2. /\ Len(fs) \in Nat /\ Len(gs) = Len(fs) + 1 /\ gs[Len(fs) + 1] = f
      /\ \A k \in 1..Len(fs) : gs[k] = fs[k]
  BY SeqAppended
<1> HIDE DEF gs
<1>3. \A k \in 1..(Len(fs) + 1) : k \in 1..Len(fs) \/ k = Len(fs) + 1  BY <1>2
<1>4. NoEof(gs)  BY <1>1, <1>2, <1>3 DEF NoEof
<1> QED  BY <1>4 DEF gs, f

LEMMA NotDone ==
  ASSUME ScanInv, at # "scanned"
  PROVE  NoEof(fragments)
  BY DEF ScanInv, EofLast, NoEof

LEMMA PlaceFacts ==
  ASSUME ScanInv
  PROVE  /\ IsText(text) /\ End \in Nat /\ src \in 1..End /\ src \in Nat
         /\ scantok \in 1..src /\ scantok \in Nat /\ scantok <= src /\ scanpos = scantok - 1
         /\ src \in src..End /\ IsSeq(fragments) /\ Chain(fragments, scantok)
<1>1. /\ IsText(text) /\ src \in 1..End /\ scantok \in 1..src /\ scanpos = scantok - 1
      /\ Chain(fragments, scantok)
  BY DEF ScanInv, Placed
<1>2. End \in Nat  BY <1>1, EndFacts
<1>3. IsSeq(fragments)  BY <1>1 DEF Chain
<1> QED  BY <1>1, <1>2, <1>3

LEMMA PlainTypes ==
  /\ {"text", "space", "comment", "tag_start", "tag_end", "integer", "number", "word", "eof"}
       \subseteq Types
  /\ \A o \in Operators : /\ o.name \in Types
                          /\ o.name \notin {"text", "tag_start", "tag_end", "eof"}
  BY ScannerAssumption DEF Types

\* The text before a tag.
LEMMA TextAdded ==
  ASSUME ScanInv, at # "scanned"
  PROVE  /\ Chain(fragments \o TextBefore, src) /\ NoEof(fragments \o TextBefore)
         /\ scanpos + (src - scantok) = src - 1
<1>1. /\ src \in Nat /\ scantok \in Nat /\ scantok <= src /\ scanpos = scantok - 1
      /\ IsSeq(fragments) /\ Chain(fragments, scantok)
  BY PlaceFacts
<1>2. NoEof(fragments)  BY NotDone
<1>3. CASE src > scantok
  <2>1. TextBefore = <<Fragment("text", scantok, scanpos, src, <<>>)>>
    BY <1>3 DEF TextBefore
  <2>2. "text" \in Types  BY PlainTypes
  <2>3. Chain(fragments \o TextBefore, src)
    BY <1>1, <2>1, <2>2, ChainGrows
  <2>4. NoEof(fragments \o TextBefore)
    BY <1>1, <1>2, <2>1, NoEofGrows
  <2> QED  BY <1>1, <2>3, <2>4
<1>4. CASE ~ (src > scantok)
  <2>1. src = scantok  BY <1>1, <1>4
  <2>2. fragments \o TextBefore = fragments
    BY <1>1, <1>4, SeqEmpty DEF TextBefore
  <2> QED  BY <1>1, <1>2, <2>1, <2>2
<1> QED  BY <1>3, <1>4

\* The scan goes on behind what it has added.
LEMMA GoesOn ==
  ASSUME ScanInv, at # "scanned", text' = text, at' \in Loops, NEW to \in src..End,
         src' = to, scantok' = to, scanpos' = to - 1,
         Chain(fragments', to), NoEof(fragments')
  PROVE  Placed' /\ Chain(fragments, scantok)' /\ EofLast'
<1>1. IsText(text) /\ src \in Nat /\ src \in 1..End /\ End \in Nat  BY PlaceFacts
<1>2. End' = End  BY DEF End
<1>3. to \in 1..End /\ to \in 1..to  BY <1>1
<1>4. Placed'  BY <1>1, <1>2, <1>3 DEF Placed
<1>5. at' # "scanned"  BY DEF Loops
<1>6. EofLast'  BY <1>5 DEF EofLast, NoEof
<1>7. Chain(fragments, scantok)'  OBVIOUS
<1> QED  BY <1>4, <1>6, <1>7

LEMMA TokenAdded ==
  ASSUME ScanInv, at \in {"inline", "outline", "plain"}, NEW type \in Types, NEW to \in src..End,
         NEW value, ScannedTo(type, to, value)
  PROVE  /\ Chain(fragments', to) /\ (type # "eof" => NoEof(fragments'))
         /\ fragments' = fragments \o <<Fragment(type, src, src - 1, to, value)>>
         /\ src' = to /\ scantok' = to /\ scanpos' = to - 1
<1>1. /\ src \in Nat /\ IsSeq(fragments) /\ Chain(fragments, scantok) /\ End \in Nat
      /\ scanpos = scantok - 1
  BY PlaceFacts
<1>2. scantok = src  BY DEF ScanInv, Placed
<1>3. to \in Nat /\ src <= to /\ scanpos + (to - scantok) = to - 1  BY <1>1, <1>2
<1>4. fragments' = fragments \o <<Fragment(type, src, src - 1, to, value)>>
  BY <1>1, <1>2, SeqAppended DEF ScannedTo
<1>5. Chain(fragments', to)
  BY <1>1, <1>2, <1>3, <1>4, ChainGrows
<1>6. type # "eof" => NoEof(fragments')
  BY <1>1, <1>4, NotDone, NoEofGrows
<1> QED  BY <1>2, <1>3, <1>4, <1>5, <1>6 DEF ScannedTo

LEMMA TokenScanned ==
  ASSUME ScanInv, at \in {"inline", "outline", "plain"}, NEW type \in Types, type # "eof",
         NEW to \in src..End, NEW value, ScannedTo(type, to, value), text' = text, at' \in Loops
  PROVE  Placed' /\ Chain(fragments, scantok)' /\ EofLast'
<1>1. /\ Chain(fragments', to) /\ NoEof(fragments')
      /\ src' = to /\ scantok' = to /\ scanpos' = to - 1
  BY TokenAdded
<1> QED  BY <1>1, GoesOn

LEMMA TagAdded ==
  ASSUME ScanInv, at \in {"lines", "text"}, NEW type \in Types, type # "eof",
         NEW to \in src..End, TagScannedTo(type, to)
  PROVE  /\ Chain(fragments', to) /\ NoEof(fragments')
         /\ fragments' = (fragments \o TextBefore) \o <<Fragment(type, src, src - 1, to, <<>>)>>
         /\ src' = to /\ scantok' = to /\ scanpos' = to - 1
<1>1. src \in Nat /\ scantok \in Nat /\ scanpos = scantok - 1 /\ End \in Nat
  BY PlaceFacts
<1>2. /\ Chain(fragments \o TextBefore, src) /\ NoEof(fragments \o TextBefore)
      /\ scanpos + (src - scantok) = src - 1
  BY TextAdded
<1>3. to \in Nat /\ src <= to /\ scanpos + (to - scantok) = to - 1  BY <1>1
<1>4. fragments' = (fragments \o TextBefore) \o <<Fragment(type, src, src - 1, to, <<>>)>>
  BY <1>2 DEF TagScannedTo
<1>5. Chain(fragments', to)
  BY <1>1, <1>2, <1>3, <1>4, ChainGrows
<1>6. NoEof(fragments')
  <2>1. IsSeq(fragments \o TextBefore)  BY <1>2 DEF Chain
  <2> QED  BY <1>2, <1>4, <2>1, NoEofGrows
<1> QED  BY <1>3, <1>4, <1>5, <1>6 DEF TagScannedTo

LEMMA TagScanned ==
  ASSUME ScanInv, at \in {"lines", "text"}, NEW type \in Types, type # "eof",
         NEW to \in src..End, TagScannedTo(type, to), text' = text, at' \in Loops
  PROVE  Placed' /\ Chain(fragments, scantok)' /\ EofLast'
<1>1. /\ Chain(fragments', to) /\ NoEof(fragments')
      /\ src' = to /\ scantok' = to /\ scanpos' = to - 1
  BY TagAdded
<1> QED  BY <1>1, GoesOn

\* The scan comes to an end.
LEMMA Left ==
  ASSUME ScanInv, at # "scanned", NEW how \in {"error", "fatal", "beyond"}, Leave(how)
  PROVE  ScanInv'
<1>1. /\ at' = how /\ UNCHANGED <<text, src, scantok, scanpos, scantags, fragments>>
  BY DEF Leave
<1>2. Placed'  BY <1>1 DEF ScanInv, Placed, End, Ends
<1>3. TagsKnown'  BY <1>1 DEF ScanInv, TagsKnown
<1>4. Chain(fragments, scantok)'  BY <1>1 DEF ScanInv
<1>5. EofLast'  BY <1>1, NotDone DEF NoEof, EofLast
<1> QED  BY <1>2, <1>3, <1>4, <1>5 DEF ScanInv

\* Characters go by.
LEMMA Passed ==
  ASSUME ScanInv, at \in {"lines", "text"}, at' \in {"lines", "text"}, src' \in src..End,
         UNCHANGED <<text, scantok, scanpos, scantags, fragments>>
  PROVE  ScanInv'
<1>1. src \in 1..End /\ End \in Nat /\ scantok \in 1..src  BY PlaceFacts
<1>2. End' = End /\ src' \in 1..End /\ scantok \in 1..src'  BY <1>1 DEF End
<1>3. Placed'  BY <1>2 DEF ScanInv, Placed, Loops
<1>4. TagsKnown'  BY DEF ScanInv, TagsKnown
<1>5. Chain(fragments, scantok)'  BY DEF ScanInv
<1>6. EofLast'  BY NotDone DEF NoEof, EofLast
<1> QED  BY <1>3, <1>4, <1>5, <1>6 DEF ScanInv

-----------------------------------------------------------------------------
(***************************************************************************)
(* The tags on the stack.                                                  *)
(***************************************************************************)
LEMMA TagEntered ==
  ASSUME ScanInv, at \in {"lines", "text"}, NEW tag \in InlineTags \union OutlineTags,
         scantags' = Append(scantags, tag), at' \in {"inline", "outline"},
         at' = "inline" => tag \in InlineTags
  PROVE  TagsKnown'
<1>1. scantags = <<>>  BY DEF ScanInv, TagsKnown
<1>2. /\ IsSeq(scantags') /\ Len(scantags') = 1 /\ scantags'[1] = tag
  <2>1. PICK s : s = scantags  OBVIOUS
  <2>2. IsSeq(s) /\ Len(s) = 0 /\ scantags' = Append(s, tag)  BY <1>1, <2>1, SeqEmpty
  <2>3. scantags' = s \o <<tag>>  BY <2>2, SeqAppended
  <2>4. Len(s \o <<tag>>) = Len(s) + 1 /\ (s \o <<tag>>)[Len(s) + 1] = tag /\ IsSeq(s \o <<tag>>)
    BY <2>2, SeqAppended
  <2> QED  BY <2>2, <2>3, <2>4
<1>3. \A k \in 1..1 : k = 1  OBVIOUS
<1> QED  BY <1>2, <1>3 DEF TagsKnown

LEMMA TagLeft ==
  ASSUME ScanInv, at \in {"inline", "outline"}, at' \in {"lines", "text"},
         scantags' = SubSeq(scantags, 1, Len(scantags) - 1)
  PROVE  TagsKnown'
<1>1. Len(scantags) = 1  BY DEF ScanInv, TagsKnown
<1>2. SubSeq(scantags, 1, 0) = <<>>  OBVIOUS
<1>3. scantags' = <<>>  BY <1>1, <1>2
<1>4. IsSeq(scantags') /\ Len(scantags') = 0  BY <1>3, SeqEmpty
<1>5. \A k \in 1..0 : FALSE  OBVIOUS
<1>6. \A k \in 1..Len(scantags') : FALSE  BY <1>4, <1>5
<1> QED  BY <1>3, <1>4, <1>6 DEF TagsKnown

LEMMA TagsSame ==
  ASSUME ScanInv, scantags' = scantags, at' = at
  PROVE  TagsKnown'
  BY DEF ScanInv, TagsKnown

\* The tag that the scan is within.
LEMMA TagFacts ==
  ASSUME ScanInv, at = "inline"
  PROVE  Tag \in InlineTags /\ IsText(Tag.end) /\ Len(Tag.end) \in Nat
<1>1. Tag \in InlineTags  BY DEF ScanInv, TagsKnown, Tag
<1>2. IsText(Tag.end)  BY <1>1, ScannerAssumption
<1> QED  BY <1>1, <1>2, TextLength

-----------------------------------------------------------------------------
(***************************************************************************)
(* The text around the tags.                                               *)
(***************************************************************************)
LEMMA OutlineTagInv ==
  ASSUME ScanInv, OutlineTag
  PROVE  ScanInv'
<1>1. at = "lines" /\ text' = text /\ at' = "outline"
  BY DEF OutlineTag, LineStart
<1>2. PICK tag \in Match(OutlineTags, src) :
        /\ TagScannedTo("tag_start", src + Len(tag.start))
        /\ scantags' = Append(scantags, tag)
  BY DEF OutlineTag
<1>3. tag \in OutlineTags /\ src + Len(tag.start) \in src..End
  BY PlaceFacts, MatchFacts
<1>4. Placed' /\ Chain(fragments, scantok)' /\ EofLast'
  BY <1>1, <1>2, <1>3, PlainTypes, TagScanned DEF Loops
<1>5. TagsKnown'  BY <1>1, <1>2, <1>3, TagEntered
<1> QED  BY <1>4, <1>5 DEF ScanInv

LEMMA InlineTagInv ==
  ASSUME ScanInv, InlineTag
  PROVE  ScanInv'
<1>1. at = "text" /\ text' = text /\ at' = "inline"
  BY DEF InlineTag, InText
<1>2. PICK tag \in Match(InlineTags, src) :
        /\ TagScannedTo("tag_start", src + Len(tag.start))
        /\ scantags' = Append(scantags, tag)
  BY DEF InlineTag, TagOf
<1>3. tag \in InlineTags /\ src + Len(tag.start) \in src..End
  BY PlaceFacts, MatchFacts
<1>4. Placed' /\ Chain(fragments, scantok)' /\ EofLast'
  BY <1>1, <1>2, <1>3, PlainTypes, TagScanned DEF Loops
<1>5. TagsKnown'  BY <1>1, <1>2, <1>3, TagEntered
<1> QED  BY <1>4, <1>5 DEF ScanInv

LEMMA PassesInv ==
  ASSUME ScanInv, NoOutlineTag \/ NewLine \/ PlainText
  PROVE  ScanInv'
<1>1. IsText(text) /\ src \in 1..End /\ src \in src..End /\ End \in Nat /\ src \in Nat
  BY PlaceFacts
<1>2. CASE NoOutlineTag
  BY <1>1, <1>2, Passed DEF NoOutlineTag, LineStart
<1>3. CASE NewLine
  <2>1. Char(src) \in Newlines /\ src' = AfterNewline(src) /\ at = "text" /\ at' = "lines"
    BY <1>3 DEF NewLine, InText
  <2>2. src' \in src..End  BY <1>1, <2>1, AfterNewlineFacts
  <2> QED  BY <1>3, <2>1, <2>2, Passed DEF NewLine
<1>4. CASE PlainText
  <2>1. src < End /\ src' = src + 1 /\ at = "text" /\ at' = at
    BY <1>4 DEF PlainText, InText
  <2>2. src' \in src..End  BY <1>1, <2>1
  <2> QED  BY <1>4, <2>1, <2>2, Passed DEF PlainText
<1> QED  BY <1>2, <1>3, <1>4

\* Where a comment ends.
LEMMA CommentEnds ==
  ASSUME IsText(text), NEW from \in 1..End, NEW end, IsText(end),
         NEW S, S = {i \in from..End : StartsWith(i, end)}, S # {}
  PROVE  Min(S) \in from..End /\ StartsWith(Min(S), end) /\ Min(S) + Len(end) \in from..End
<1>1. End \in Nat /\ from \in Nat /\ Len(end) \in Nat  BY EndFacts, TextLength
<1>2. S \in SUBSET (from..End)  OBVIOUS
<1>3. PICK m : m = Min(S)  OBVIOUS
<1>4. m \in S  BY <1>1, <1>2, <1>3, LeastIn
<1>5. m \in from..End /\ StartsWith(m, end)  BY <1>4
<1>6. m + Len(end) <= End  BY <1>5 DEF StartsWith
<1>7. m + Len(end) \in from..End  BY <1>1, <1>5, <1>6
<1> QED  BY <1>3, <1>5, <1>7

LEMMA CommentTagInv ==
  ASSUME ScanInv, CommentTag
  PROVE  ScanInv'
<1>1. at = "text"  BY DEF CommentTag, InText
<1>2. PICK tag \in Match(InlineTags, src) :
        LET ends == {i \in src + Len(tag.start)..End : StartsWith(i, tag.end)}
        IN  IF ends = {} THEN Leave("fatal")
            ELSE /\ TagScannedTo("comment", Min(ends) + Len(tag.end))
                 /\ UNCHANGED <<text, at, scantags>>
  BY DEF CommentTag, TagOf
<1>3. PICK from : from = src + Len(tag.start)  OBVIOUS
<1>4. PICK S : S = {i \in from..End : StartsWith(i, tag.end)}  OBVIOUS
<1>5. IF S = {} THEN Leave("fatal")
      ELSE /\ TagScannedTo("comment", Min(S) + Len(tag.end))
           /\ UNCHANGED <<text, at, scantags>>
  BY <1>2, <1>3, <1>4
<1>6. tag \in InlineTags /\ from \in src..End /\ IsText(text) /\ src \in 1..End /\ End \in Nat
  BY <1>3, PlaceFacts, MatchFacts
<1>7. CASE S = {}
  BY <1>1, <1>5, <1>7, Left
<1>8. CASE S # {}
  <2>1. IsText(tag.end) /\ from \in 1..End  BY <1>6, ScannerAssumption
  <2>2. Min(S) + Len(tag.end) \in from..End  BY <1>4, <1>6, <1>8, <2>1, CommentEnds
  <2>3. PICK to : to = Min(S) + Len(tag.end)  OBVIOUS
  <2>4. to \in src..End  BY <1>6, <2>2, <2>3
  <2>5. TagScannedTo("comment", to) /\ UNCHANGED <<text, at, scantags>>  BY <1>5, <1>8, <2>3
  <2>6. Placed' /\ Chain(fragments, scantok)' /\ EofLast'
    BY <1>1, <2>4, <2>5, PlainTypes, TagScanned DEF Loops
  <2>7. TagsKnown'  BY <2>5, TagsSame
  <2> QED  BY <2>6, <2>7 DEF ScanInv
<1> QED  BY <1>7, <1>8

LEMMA ControlTagInv ==
  ASSUME ScanInv, ControlTag
  PROVE  ScanInv'
<1>1. at = "text" /\ Leave("fatal")  BY DEF ControlTag, InText
<1> QED  BY <1>1, Left

\* The end of file follows, at the end of the text.
LEMMA Finished ==
  ASSUME ScanInv, NEW fs, IsSeq(fs), NoEof(fs), NEW pos, NEW value, src = End,
         Chain(fs \o <<Fragment("eof", src, pos, src, value)>>, src),
         fragments' = fs \o <<Fragment("eof", src, pos, src, value)>>,
         src' = src, scantok' = src, scanpos' = src - 1, text' = text, at' = "scanned"
  PROVE  Placed' /\ Chain(fragments, scantok)' /\ EofLast'
<1>1. IsText(text) /\ src \in Nat /\ src \in 1..End /\ src \in 1..src /\ End \in Nat
  BY PlaceFacts
<1>2. End' = End  BY DEF End
<1>3. Placed'  BY <1>1, <1>2 DEF Placed, Ends
<1>4. PICK f : f = Fragment("eof", src, pos, src, value)  OBVIOUS
<1>5. f.type = "eof"  BY <1>4 DEF Fragment
<1>6. /\ Len(fs) \in Nat /\ Len(fragments') = Len(fs) + 1 /\ fragments'[Len(fs) + 1] = f
      /\ \A k \in 1..Len(fs) : fragments'[k] = fs[k]
  BY <1>4, SeqAppended
<1>7. \A k \in 1..(Len(fs) + 1) : k \in 1..Len(fs) \/ k = Len(fs) + 1  BY <1>6
<1>8. fragments' # <<>>  BY <1>6, SeqEmpty
<1>9. EofLast'  BY <1>2, <1>5, <1>6, <1>7, <1>8 DEF EofLast, NoEof
<1> QED  BY <1>3, <1>9

LEMMA EndOfTextInv ==
  ASSUME ScanInv, EndOfText
  PROVE  ScanInv'
<1>1. /\ at \in {"lines", "text"} /\ src = End /\ at' = "scanned"
      /\ fragments' = (fragments \o TextBefore)
                        \o <<Fragment("eof", src, scanpos + (src - scantok), src, <<>>)>>
      /\ scantok' = src /\ scanpos' = scanpos + (src - scantok)
      /\ UNCHANGED <<text, src, scantags>>
  BY DEF EndOfText
<1>2. /\ Chain(fragments \o TextBefore, src) /\ NoEof(fragments \o TextBefore)
      /\ scanpos + (src - scantok) = src - 1
  BY <1>1, TextAdded
<1>3. src \in Nat /\ src <= src  BY PlaceFacts
<1>4. PICK fs : fs = fragments \o TextBefore  OBVIOUS
<1>5. IsSeq(fs) /\ NoEof(fs) /\ Chain(fs, src)  BY <1>2, <1>4 DEF Chain
<1>6. Chain(fs \o <<Fragment("eof", src, src - 1, src, <<>>)>>, src)
  BY <1>3, <1>5, PlainTypes, ChainGrows
<1>7. Placed' /\ Chain(fragments, scantok)' /\ EofLast'
  BY <1>1, <1>2, <1>4, <1>5, <1>6, Finished
<1>8. TagsKnown'  BY <1>1 DEF ScanInv, TagsKnown
<1> QED  BY <1>7, <1>8 DEF ScanInv

-----------------------------------------------------------------------------
(***************************************************************************)
(* The language within the tags.                                           *)
(***************************************************************************)
LEMMA TokenInv ==
  ASSUME ScanInv, InTag, NEW type \in Types, type # "eof", NEW to \in src..End, NEW value,
         ScannedTo(type, to, value), UNCHANGED <<text, at, scantags>>
  PROVE  ScanInv'
<1>1. at \in {"inline", "outline", "plain"}  BY DEF InTag
<1>2. Placed' /\ Chain(fragments, scantok)' /\ EofLast'
  BY <1>1, TokenScanned DEF Loops
<1>3. TagsKnown'  BY TagsSame
<1> QED  BY <1>2, <1>3 DEF ScanInv

LEMMA LeaveInv ==
  ASSUME ScanInv, at \in {"inline", "outline"}, at' \in {"lines", "text"},
         NEW to \in src..End, LeaveTag(to)
  PROVE  ScanInv'
<1>1. /\ ScannedTo("tag_end", to, <<>>) /\ text' = text
      /\ scantags' = SubSeq(scantags, 1, Len(scantags) - 1)
  BY DEF LeaveTag
<1>2. Placed' /\ Chain(fragments, scantok)' /\ EofLast'
  BY <1>1, PlainTypes, TokenScanned DEF Loops
<1>3. TagsKnown'  BY <1>1, TagLeft
<1> QED  BY <1>2, <1>3 DEF ScanInv

LEMMA SpaceInv ==
  ASSUME ScanInv, Space
  PROVE  ScanInv'
<1>1. InTag /\ UNCHANGED <<text, at, scantags>>  BY DEF Space
<1>2. PICK to : to = Past(IF at = "outline" THEN Spaces \ Newlines ELSE Spaces, src)  OBVIOUS
<1>3. IsText(text) /\ src \in 1..End  BY PlaceFacts
<1>4. to \in src..End
  <2>1. CASE at = "outline"  BY <1>2, <1>3, <2>1, NoNul, PastFacts
  <2>2. CASE at # "outline"  BY <1>2, <1>3, <2>2, NoNul, PastFacts
  <2> QED  BY <2>1, <2>2
<1>5. ScannedTo("space", to, <<>>)  BY <1>2 DEF Space
<1> QED  BY <1>1, <1>4, <1>5, PlainTypes, TokenInv

LEMMA EndsInv ==
  ASSUME ScanInv, InlineEnd \/ OutlineEnd
  PROVE  ScanInv'
<1>1. IsText(text) /\ src \in 1..End /\ src \in Nat /\ End \in Nat  BY PlaceFacts
<1>2. CASE InlineEnd
  <2>1. /\ at = "inline" /\ at' = "text" /\ StartsWith(src, Tag.end)
        /\ LeaveTag(src + Len(Tag.end))
    BY <1>2 DEF InlineEnd, AtTagEnd
  <2>2. Len(Tag.end) \in Nat  BY <2>1, TagFacts
  <2>3. src + Len(Tag.end) \in src..End  BY <1>1, <2>1, <2>2 DEF StartsWith
  <2> QED  BY <2>1, <2>3, LeaveInv
<1>3. CASE OutlineEnd
  <2>1. /\ at = "outline" /\ at' = "lines" /\ Char(src) \in Newlines
        /\ LeaveTag(AfterNewline(src))
    BY <1>3 DEF OutlineEnd, AtNewline
  <2>2. AfterNewline(src) \in src..End  BY <1>1, <2>1, AfterNewlineFacts
  <2> QED  BY <2>1, <2>2, LeaveInv
<1> QED  BY <1>2, <1>3

LEMMA SourceEndInv ==
  ASSUME ScanInv, SourceEnd
  PROVE  ScanInv'
<1>1. src = End /\ at \in {"inline", "outline", "plain"}  BY DEF SourceEnd
<1>2. src \in src..End /\ src \in Nat  BY PlaceFacts
<1>3. CASE at = "inline"
  <2>1. Leave("fatal")  BY <1>3 DEF SourceEnd
  <2> QED  BY <1>3, <2>1, Left
<1>4. CASE at = "outline"
  <2>1. LeaveTag(src) /\ at' = "lines"  BY <1>4 DEF SourceEnd
  <2> QED  BY <1>2, <1>4, <2>1, LeaveInv
<1>5. CASE at = "plain"
  <2>1. at' = "scanned" /\ ScannedTo("eof", src, <<>>) /\ text' = text /\ scantags' = scantags
    BY <1>5 DEF SourceEnd
  <2>2. /\ Chain(fragments', src)
        /\ fragments' = fragments \o <<Fragment("eof", src, src - 1, src, <<>>)>>
        /\ src' = src /\ scantok' = src /\ scanpos' = src - 1
    BY <1>1, <1>2, <2>1, PlainTypes, TokenAdded
  <2>3. PICK fs : fs = fragments  OBVIOUS
  <2>4. IsSeq(fs) /\ NoEof(fs)  BY <1>5, <2>3, PlaceFacts, NotDone
  <2>5. /\ Chain(fs \o <<Fragment("eof", src, src - 1, src, <<>>)>>, src)
        /\ fragments' = fs \o <<Fragment("eof", src, src - 1, src, <<>>)>>
    BY <2>2, <2>3
  <2>6. Placed' /\ Chain(fragments, scantok)' /\ EofLast'
    BY <1>1, <2>1, <2>2, <2>4, <2>5, Finished
  <2>7. TagsKnown'  BY <1>5, <2>1 DEF ScanInv, TagsKnown
  <2> QED  BY <2>6, <2>7 DEF ScanInv
<1> QED  BY <1>1, <1>3, <1>4, <1>5

LEMMA NumberInv ==
  ASSUME ScanInv, Number
  PROVE  ScanInv'
<1>1. InTag /\ at # "scanned"  BY DEF Number, InTag
<1>2. IntegerEnd(src) \in src..End /\ NumberEnd(src) \in src..End
  BY PlaceFacts, NumberFacts
<1>3. CASE Overflows(src)
  BY <1>1, <1>3, Left DEF Number
<1>4. CASE ~ Overflows(src)
  <2>1. /\ UNCHANGED <<text, at, scantags>>
        /\ \/ ScannedTo("integer", IntegerEnd(src), <<>>)
           \/ ScannedTo("number", NumberEnd(src), <<>>)
    BY <1>4 DEF Number
  <2> QED  BY <1>1, <1>2, <2>1, PlainTypes, TokenInv
<1> QED  BY <1>3, <1>4

\* What an operator's token is at the place of the scan.
LEMMA OperatorFacts ==
  ASSUME ScanInv, NEW o \in Match(Operators, src)
  PROVE  /\ o \in Operators /\ o.name \in Types /\ o.name # "eof"
         /\ src + Len(o.start) \in src..End /\ src + Len(o.start) \in 1..End
<1>1. IsText(text) /\ src \in 1..End /\ End \in Nat  BY PlaceFacts
<1>2. o \in Operators /\ src + Len(o.start) \in src..End  BY <1>1, MatchFacts
<1> QED  BY <1>1, <1>2, PlainTypes

LEMMA SymbolInv ==
  ASSUME ScanInv, Symbol
  PROVE  ScanInv'
<1>1. InTag /\ UNCHANGED <<text, at, scantags>>  BY DEF Symbol
<1>2. PICK o \in Match(Operators, src) : ScannedTo(o.name, src + Len(o.start), <<>>)
  BY DEF Symbol, Operator
<1> QED  BY <1>1, <1>2, OperatorFacts, TokenInv

LEMMA WordInv ==
  ASSUME ScanInv, Word
  PROVE  ScanInv'
<1>1. InTag /\ UNCHANGED <<text, at, scantags>>  BY DEF Word
<1>2. IsText(text) /\ src \in 1..End /\ src \in Nat /\ End \in Nat  BY PlaceFacts
<1>3. PICK from \in src..End : ScannedTo("word", Past(Ident, from), <<>>)
  <2>1. CASE ScannedTo("word", Past(Ident, src), <<>>)
    BY <1>2, <2>1
  <2>2. CASE \E o \in Match(Operators, src) :
               ScannedTo("word", Past(Ident, src + Len(o.start)), <<>>)
    BY <2>2, OperatorFacts
  <2> QED  BY <2>1, <2>2 DEF Word
<1>4. from \in 1..End  BY <1>2
<1>5. Past(Ident, from) \in from..End  BY <1>2, <1>4, NoNul, PastFacts
<1>6. Past(Ident, from) \in src..End  BY <1>2, <1>5
<1> QED  BY <1>1, <1>3, <1>6, PlainTypes, TokenInv

LEMMA UnexpectedInv ==
  ASSUME ScanInv, Unexpected
  PROVE  ScanInv'
<1>1. at # "scanned" /\ Leave("error")  BY DEF Unexpected, InTag
<1> QED  BY <1>1, Left

LEMMA CommentInv ==
  ASSUME ScanInv, Comment
  PROVE  ScanInv'
<1>1. InTag /\ at # "scanned"  BY DEF Comment, InTag
<1>2. IsText(text) /\ src \in 1..End /\ src \in Nat /\ End \in Nat  BY PlaceFacts
<1>3. PICK o \in Match(Operators, src) :
        IF at = "plain" THEN Leave("fatal")
        ELSE /\ ScannedTo(o.name,
                  Min({i \in src + Len(o.start)..End :
                         \/ i = End
                         \/ Char(i) \in Newlines
                         \/ at = "inline" /\ StartsWith(i, Tag.end)}), <<>>)
             /\ UNCHANGED <<text, at, scantags>>
  BY DEF Comment, Operator
<1>4. PICK from : from = src + Len(o.start)  OBVIOUS
<1>5. PICK S : S = {i \in from..End :
                      \/ i = End
                      \/ Char(i) \in Newlines
                      \/ at = "inline" /\ StartsWith(i, Tag.end)}
  OBVIOUS
<1>6. from \in src..End /\ from \in 1..End  BY <1>4, OperatorFacts
<1>7. S \in SUBSET (from..End) /\ S # {}
  <2>1. End \in from..End  BY <1>2, <1>6
  <2> QED  BY <1>5, <2>1
<1>8. PICK to : to = Min(S)  OBVIOUS
<1>9. to \in from..End
  <2>1. from \in Nat  BY <1>6
  <2> QED  BY <1>2, <1>7, <1>8, <2>1, LeastIn
<1>10. to \in src..End  BY <1>2, <1>6, <1>9
<1>11. CASE at = "plain"
  BY <1>1, <1>3, <1>11, Left
<1>12. CASE at # "plain"
  <2>1. ScannedTo(o.name, to, <<>>) /\ UNCHANGED <<text, at, scantags>>
    BY <1>3, <1>4, <1>5, <1>8, <1>12
  <2> QED  BY <1>1, <1>10, <2>1, OperatorFacts, TokenInv
<1> QED  BY <1>11, <1>12

LEMMA NamedFragmentInv ==
  ASSUME ScanInv, NamedFragment
  PROVE  ScanInv'
<1>1. InTag /\ at # "scanned"  BY DEF NamedFragment, InTag
<1>2. IsText(text) /\ src \in 1..End /\ src \in Nat /\ End \in Nat  BY PlaceFacts
<1>3. PICK o \in Match(Operators, src) :
        LET from == src + Len(o.start)
            to == Past(Ident \union {Hyphen}, from)
        IN  IF to = from THEN Leave("error")
            ELSE /\ ScannedTo(o.name, to, <<>>)
                 /\ UNCHANGED <<text, at, scantags>>
  BY DEF NamedFragment, Operator
<1>4. PICK from : from = src + Len(o.start)  OBVIOUS
<1>5. PICK to : to = Past(Ident \union {Hyphen}, from)  OBVIOUS
<1>6. IF to = from THEN Leave("error")
      ELSE ScannedTo(o.name, to, <<>>) /\ UNCHANGED <<text, at, scantags>>
  BY <1>3, <1>4, <1>5
<1>7. from \in src..End /\ from \in 1..End  BY <1>4, OperatorFacts
<1>8. to \in from..End  BY <1>2, <1>5, <1>7, NoNul, PastFacts
<1>9. to \in src..End  BY <1>2, <1>7, <1>8
<1>10. CASE to = from  BY <1>1, <1>6, <1>10, Left
<1>11. CASE to # from
  BY <1>1, <1>6, <1>9, <1>11, OperatorFacts, TokenInv
<1> QED  BY <1>10, <1>11

LEMMA QuotedInv ==
  ASSUME ScanInv, Quoted
  PROVE  ScanInv'
<1>1. InTag /\ at # "scanned"  BY DEF Quoted, InTag
<1>2. IsText(text) /\ src \in 1..End /\ src \in Nat /\ End \in Nat  BY PlaceFacts
<1>3. PICK kind \in {"squote", "dquote"} : \E o \in Operator(kind) :
        LET from == src + Len(o.start)
            to == Close(from, o.end)
        IN  CASE to = 0 -> Leave("error")
              [] to = End + 1 -> Leave("error") \/ Leave("beyond")
              [] OTHER -> /\ ScannedTo(o.name, to + Len(o.end), StringValue(kind, from, to))
                          /\ UNCHANGED <<text, at, scantags>>
  BY DEF Quoted
<1>4. PICK o \in Operator(kind) :
        LET from == src + Len(o.start)
            to == Close(from, o.end)
        IN  CASE to = 0 -> Leave("error")
              [] to = End + 1 -> Leave("error") \/ Leave("beyond")
              [] OTHER -> /\ ScannedTo(o.name, to + Len(o.end), StringValue(kind, from, to))
                          /\ UNCHANGED <<text, at, scantags>>
  BY <1>3
<1>5. o \in Match(Operators, src) /\ o.kind = kind  BY DEF Operator
<1>6. PICK from : from = src + Len(o.start)  OBVIOUS
<1>7. PICK to : to = Close(from, o.end)  OBVIOUS
<1>8. \/ to = 0 /\ Leave("error")
      \/ to = End + 1 /\ (Leave("error") \/ Leave("beyond"))
      \/ /\ to # 0 /\ to # End + 1
         /\ \E value : ScannedTo(o.name, to + Len(o.end), value)
         /\ UNCHANGED <<text, at, scantags>>
  BY <1>4, <1>6, <1>7, Zenon
<1>9. CASE Leave("error") \/ Leave("beyond")
  BY <1>1, <1>9, Left
<1>10. CASE /\ to # 0 /\ to # End + 1
           /\ \E value : ScannedTo(o.name, to + Len(o.end), value)
           /\ UNCHANGED <<text, at, scantags>>
  <2>1. /\ o \in Operators /\ o.name \in Types /\ o.name # "eof"
        /\ from \in src..End /\ from \in 1..End
    BY <1>5, <1>6, OperatorFacts
  <2>2. IsText(o.end)  BY <1>5, <2>1, ScannerAssumption
  <2>3. to + Len(o.end) \in from..End  BY <1>2, <1>7, <1>10, <2>1, <2>2, CloseFacts
  <2>4. PICK b : b = to + Len(o.end)  OBVIOUS
  <2>5. b \in src..End  BY <1>2, <2>1, <2>3, <2>4
  <2>6. PICK value : ScannedTo(o.name, b, value)  BY <1>10, <2>4
  <2> QED  BY <1>1, <1>10, <2>1, <2>5, <2>6, TokenInv
<1> QED  BY <1>8, <1>9, <1>10

-----------------------------------------------------------------------------
(***************************************************************************)
(* The scan as a whole.                                                    *)
(***************************************************************************)
LEMMA InitInv == Init => ScanInv
<1> SUFFICES ASSUME Init  PROVE ScanInv
  OBVIOUS
<1>1. /\ IsText(text) /\ at \in {"lines", "plain"} /\ src = 1 /\ scantok = 1 /\ scanpos = 0
      /\ scantags = <<>> /\ fragments = <<>>
  BY ScannerAssumption DEF Init
<1>2. 1 \in 1..End /\ 1 \in 1..1 /\ 0 = 1 - 1  BY <1>1, EndFacts
<1>3. Placed  BY <1>1, <1>2 DEF Placed, Loops
<1>4. \A k \in 1..0 : FALSE  OBVIOUS
<1>5. IsSeq(<<>>) /\ Len(<<>>) = 0  BY SeqEmpty
<1>6. TagsKnown  BY <1>1, <1>4, <1>5 DEF TagsKnown
<1>7. Until(fragments, 0) = 1 /\ 1 \in Nat  BY DEF Until
<1>8. Chain(fragments, scantok)  BY <1>1, <1>4, <1>5, <1>7 DEF Chain
<1>9. EofLast  BY <1>1, <1>4, <1>5 DEF EofLast
<1> QED  BY <1>3, <1>6, <1>8, <1>9 DEF ScanInv

LEMMA NextInv == ScanInv /\ [Next]_vars => ScanInv'
<1> SUFFICES ASSUME ScanInv, [Next]_vars  PROVE ScanInv'
  OBVIOUS
<1>1. CASE OutlineTag  BY <1>1, OutlineTagInv
<1>2. CASE NoOutlineTag \/ NewLine \/ PlainText  BY <1>2, PassesInv
<1>3. CASE InlineTag  BY <1>3, InlineTagInv
<1>4. CASE CommentTag  BY <1>4, CommentTagInv
<1>5. CASE ControlTag  BY <1>5, ControlTagInv
<1>6. CASE EndOfText  BY <1>6, EndOfTextInv
<1>7. CASE Space  BY <1>7, SpaceInv
<1>8. CASE InlineEnd \/ OutlineEnd  BY <1>8, EndsInv
<1>9. CASE SourceEnd  BY <1>9, SourceEndInv
<1>10. CASE Number  BY <1>10, NumberInv
<1>11. CASE Symbol  BY <1>11, SymbolInv
<1>12. CASE Word  BY <1>12, WordInv
<1>13. CASE Unexpected  BY <1>13, UnexpectedInv
<1>14. CASE Comment  BY <1>14, CommentInv
<1>15. CASE NamedFragment  BY <1>15, NamedFragmentInv
<1>16. CASE Quoted  BY <1>16, QuotedInv
<1>17. CASE Returned \/ UNCHANGED vars
  BY <1>17 DEF Returned, vars, ScanInv, Placed, TagsKnown, EofLast, End
<1> QED
  BY <1>1, <1>2, <1>3, <1>4, <1>5, <1>6, <1>7, <1>8, <1>9, <1>10, <1>11, <1>12, <1>13, <1>14,
     <1>15, <1>16, <1>17 DEF Next

THEOREM Invariant == Spec => []ScanInv
<1> QED  BY InitInv, NextInv, PTL DEF Spec

\* The variables hold what the code keeps in them, for any texts, tags and
\* operators: what is next to scan is in the text or at its end, and every
\* fragment has a type of its own or of an operator.
THEOREM TypeCorrect == Spec => []TypeOK
<1>1. ScanInv => TypeOK
  <2> SUFFICES ASSUME ScanInv  PROVE TypeOK
    OBVIOUS
  <2>1. /\ src \in 1..End /\ scantok \in 1..src /\ scanpos = scantok - 1 /\ IsText(text)
        /\ Chain(fragments, scantok)
    BY PlaceFacts
  <2>2. End \in Nat /\ Len(text) = End - 1  BY <2>1, EndFacts
  <2>3. {src, scantok} \subseteq 1..End  BY <2>1, <2>2
  <2>4. scanpos \in 0..Len(text)  BY <2>1, <2>2
  <2>5. \A k \in 1..Len(fragments) : fragments[k].type \in Types  BY <2>1 DEF Chain, Follows
  <2> QED  BY <2>3, <2>4, <2>5 DEF TypeOK, ScanInv, Placed, TagsKnown
<1> QED  BY <1>1, Invariant, PTL

\* No character of the source is lost and none is taken twice, whatever the
\* text, the tags and the operators: hemp_scan_text(), the tags' scanners and the
\* elements' all leave scantok and scanpos at the end of what they have taken.
THEOREM SourceIsCovered == Spec => []SourceCovered
<1>1. ScanInv => SourceCovered
  <2> SUFFICES ASSUME ScanInv  PROVE SourceCovered
    OBVIOUS
  <2>1. /\ scanpos = scantok - 1 /\ IsSeq(fragments) /\ Chain(fragments, scantok)
        /\ Len(fragments) \in Nat
    BY PlaceFacts, SeqEmpty
  <2>2. \A k : After(k) = Until(fragments, k)  BY DEF After, Until
  <2>3. ASSUME NEW k \in 1..Len(fragments)
        PROVE  fragments[k].from = After(k - 1) /\ fragments[k].pos = After(k - 1) - 1
    BY <2>1, <2>2 DEF Chain, Follows
  <2>4. scantok = After(Len(fragments))  BY <2>1, <2>2 DEF Chain
  <2>5. at = "scanned" => /\ fragments # <<>> /\ scantok = End
                          /\ \A k \in 1..Len(fragments) :
                               fragments[k].type = "eof" <=> k = Len(fragments)
    BY DEF ScanInv, EofLast
  <2> QED  BY <2>1, <2>3, <2>4, <2>5 DEF SourceCovered
<1> QED  BY <1>1, Invariant, PTL

-----------------------------------------------------------------------------
(***************************************************************************)
(* The text holds no tag.  While text goes by, none of the characters that *)
(* no fragment has yet starts a tag; a line has been looked at for an      *)
(* outline tag before its text goes by.                                    *)
(***************************************************************************)
NoTag(i) == Match(InlineTags, i) = {} /\ (AtLineStart(i) => Match(OutlineTags, i) = {})

Tagless(f) ==
  /\ f.type = "text" => \A i \in f.from..(f.from + f.length) - 1 : NoTag(i)
  /\ f.type = "tag_start" /\ Match(InlineTags, f.from) = {} => AtLineStart(f.from)

AllTagless(fs) == \A k \in 1..Len(fs) : Tagless(fs[k])

TextInv ==
  /\ AllTagless(fragments)
  /\ at \in {"lines", "text"} => \A i \in scantok..src - 1 : NoTag(i)
  /\ at = "text" /\ AtLineStart(src) => Match(OutlineTags, src) = {}
  /\ at = "lines" /\ src < End => AtLineStart(src)

LEMMA SameTags ==
  ASSUME text' = text, NEW i
  PROVE  /\ NoTag(i)' <=> NoTag(i)
         /\ AtLineStart(i)' <=> AtLineStart(i)
         /\ (Match(InlineTags, i) = {})' <=> Match(InlineTags, i) = {}
         /\ (Match(OutlineTags, i) = {})' <=> Match(OutlineTags, i) = {}
  BY DEF NoTag, Match, StartsWith, AtLineStart, Char, End

LEMMA SameTagless ==
  ASSUME text' = text, NEW fs, AllTagless(fs), fragments' = fs
  PROVE  AllTagless(fragments)'
<1>1. ASSUME NEW f  PROVE Tagless(f)' <=> Tagless(f)
  BY SameTags DEF Tagless
<1> QED  BY <1>1 DEF AllTagless

LEMMA TaglessGrows ==
  ASSUME NEW fs, IsSeq(fs), AllTagless(fs), NEW f, Tagless(f)
  PROVE  AllTagless(fs \o <<f>>)
<1> DEFINE gs == fs \o <<f>>
<1>1. /\ Len(fs) \in Nat /\ Len(gs) = Len(fs) + 1 /\ gs[Len(fs) + 1] = f
      /\ \A k \in 1..Len(fs) : gs[k] = fs[k]
  BY SeqAppended
<1> HIDE DEF gs
<1>2. \A k \in 1..(Len(fs) + 1) : k \in 1..Len(fs) \/ k = Len(fs) + 1  BY <1>1
<1>3. AllTagless(gs)  BY <1>1, <1>2, Zenon DEF AllTagless
<1> QED  BY <1>3 DEF gs

\* Of a fragment that is neither text nor the start of a tag nothing is asked.
LEMMA OtherTagless ==
  ASSUME NEW type, type \notin {"text", "tag_start"}, NEW from, NEW pos, NEW to, NEW value
  PROVE  Tagless(Fragment(type, from, pos, to, value))
  BY DEF Tagless, Fragment

LEMMA TextTagless ==
  ASSUME ScanInv, TextInv, at \in {"lines", "text"}
  PROVE  IsSeq(fragments \o TextBefore) /\ AllTagless(fragments \o TextBefore)
<1>1. /\ IsSeq(fragments) /\ src \in Nat /\ scantok \in Nat /\ scantok <= src
  BY PlaceFacts
<1>2. CASE src > scantok
  <2>1. PICK f : f = Fragment("text", scantok, scanpos, src, <<>>)  OBVIOUS
  <2>2. f.type = "text" /\ f.from = scantok /\ f.from + f.length = src
    BY <1>1, <2>1, FragmentFields
  <2>3. Tagless(f)  BY <2>2 DEF Tagless, TextInv
  <2>4. fragments \o TextBefore = fragments \o <<f>>  BY <1>2, <2>1 DEF TextBefore
  <2> QED  BY <1>1, <2>3, <2>4, TaglessGrows, SeqAppended DEF TextInv
<1>3. CASE ~ (src > scantok)
  <2>1. fragments \o TextBefore = fragments  BY <1>1, <1>3, SeqEmpty DEF TextBefore
  <2> QED  BY <1>1, <2>1 DEF TextInv
<1> QED  BY <1>2, <1>3

\* The first character of what a text starts with, and the last.
LEMMA StartsWithEnds ==
  ASSUME IsText(text), NEW i \in 1..End, NEW s, IsText(s), s # <<>>, StartsWith(i, s)
  PROVE  Char(i) = s[1] /\ Char((i + Len(s)) - 1) = s[Len(s)]
<1>1. PICK n \in Nat : n = Len(s) /\ n >= 1  BY TextLength
<1>2. i + n <= End /\ SubSeq(text, i, (i + n) - 1) = s /\ End \in Nat /\ Len(text) = End - 1
  BY <1>1, EndFacts DEF StartsWith
<1>3. \A m \in 1..n : s[m] = text[(i + m) - 1]
  <2>1. PICK S : text \in Seq(S)  BY DEF IsText
  <2>2. i \in 1..Len(text) + 1 /\ (i + n) - 1 \in (i - 1)..Len(text) /\ ((i + n) - 1) - i + 1 = n
    BY <1>1, <1>2
  <2>3. SubSeq(text, i, (i + n) - 1) = [m \in 1..n |-> text[(i + m) - 1]]
    BY <1>1, <2>1, <2>2
  <2> QED  BY <1>2, <2>3
<1>4. s[1] = text[i] /\ s[n] = text[(i + n) - 1]
  <2>1. 1 \in 1..n /\ n \in 1..n /\ (i + 1) - 1 = i  BY <1>1
  <2> QED  BY <1>3, <2>1
<1>5. i < End /\ (i + n) - 1 < End  BY <1>1, <1>2
<1> QED  BY <1>1, <1>4, <1>5 DEF Char

LEMMA NoTagAtNewline ==
  ASSUME IsText(text), NEW i \in 1..End, Char(i) \in Newlines
  PROVE  NoTag(i)
<1>1. ASSUME NEW R \in SUBSET (InlineTags \union OutlineTags), NEW t \in Match(R, i)
      PROVE  FALSE
  <2>1. t \in R /\ StartsWith(i, t.start)  BY DEF Match
  <2>2. IsText(t.start) /\ t.start # <<>>  BY <2>1, ScannerAssumption
  <2>3. Char(i) = t.start[1]  BY <2>1, <2>2, StartsWithEnds
  <2> QED  BY <2>1, <2>3, TagsAssumption DEF Newlines
<1> QED  BY <1>1 DEF NoTag

LEMMA AfterEnd ==
  ASSUME IsText(text), NEW i \in 1..End, NEW t \in InlineTags, StartsWith(i, t.end)
  PROVE  ~ AtLineStart(i + Len(t.end))
<1>1. IsText(t.end) /\ t.end # <<>>  BY ScannerAssumption, TagsAssumption
<1>2. Char((i + Len(t.end)) - 1) = t.end[Len(t.end)]  BY <1>1, StartsWithEnds
<1>3. Len(t.end) \in Nat \ {0}  BY <1>1, TextLength
<1>4. i + Len(t.end) # 1 /\ (i + Len(t.end)) - 1 = (i + Len(t.end)) - 1  BY <1>3
<1>5. Char((i + Len(t.end)) - 1) \notin Newlines  BY <1>2, TagsAssumption DEF Newlines
<1> QED  BY <1>4, <1>5 DEF AtLineStart

LEMMA AfterNewlineStarts ==
  ASSUME IsText(text), NEW i \in 1..End, Char(i) \in Newlines
  PROVE  AtLineStart(AfterNewline(i))
<1>1. CASE Char(i) = CR /\ Char(i + 1) = LF
  <2>1. AfterNewline(i) = i + 2 /\ (i + 2) - 1 = i + 1 /\ LF \in Newlines
    BY <1>1 DEF AfterNewline, Newlines
  <2> QED  BY <1>1, <2>1 DEF AtLineStart
<1>2. CASE ~ (Char(i) = CR /\ Char(i + 1) = LF)
  <2>1. AfterNewline(i) = i + 1 /\ (i + 1) - 1 = i  BY <1>2 DEF AfterNewline
  <2> QED  BY <2>1 DEF AtLineStart
<1> QED  BY <1>1, <1>2

\* What a step within a tag adds when it does not leave the tag.
Tokens == Types \ {"text", "tag_start", "tag_end", "eof"}

TokenStep ==
  /\ UNCHANGED <<text, at, scantags>>
  /\ \E type \in Tokens : \E to, value : ScannedTo(type, to, value)

Halt == \E how \in {"error", "fatal", "beyond"} : Leave(how)

LEMMA TokenSteps ==
  ASSUME ScanInv, Space \/ Number \/ Symbol \/ Word \/ Unexpected \/ Comment \/ NamedFragment \/ Quoted
  PROVE  at \in {"inline", "outline", "plain"} /\ (TokenStep \/ Halt)
<1>1. /\ {"space", "integer", "number", "word"} \subseteq Tokens
      /\ \A o \in Operators : o.name \in Tokens
  BY PlainTypes DEF Tokens
<1>2. \A R : \A o \in Match(R, src) : o \in R  BY DEF Match
<1>3. at \in {"inline", "outline", "plain"}
  BY DEF Space, Number, Symbol, Word, Unexpected, Comment, NamedFragment, Quoted, InTag
<1>4. CASE Space  BY <1>3, <1>1, <1>4, Zenon DEF Space, TokenStep
<1>5. CASE Number  BY <1>3, <1>1, <1>5, Zenon DEF Number, TokenStep, Halt
<1>6. CASE Symbol  BY <1>3, <1>1, <1>2, <1>6, Zenon DEF Symbol, Operator, TokenStep
<1>7. CASE Word  BY <1>3, <1>1, <1>7, Zenon DEF Word, TokenStep
<1>8. CASE Unexpected  BY <1>3, <1>8, Zenon DEF Unexpected, Halt
<1>9. CASE Comment  BY <1>3, <1>1, <1>2, <1>9, Zenon DEF Comment, Operator, TokenStep, Halt
<1>10. CASE NamedFragment  BY <1>3, <1>1, <1>2, <1>10, Zenon DEF NamedFragment, Operator, TokenStep, Halt
<1>11. CASE Quoted  BY <1>3, <1>1, <1>2, <1>11, Zenon DEF Quoted, Operator, TokenStep, Halt
<1> QED  BY <1>3, <1>4, <1>5, <1>6, <1>7, <1>8, <1>9, <1>10, <1>11

LEMMA HaltText ==
  ASSUME TextInv, Halt
  PROVE  TextInv'
<1>1. /\ at' \in {"error", "fatal", "beyond"} /\ text' = text /\ fragments' = fragments
  BY DEF Halt, Leave
<1>2. PICK fs : fs = fragments  OBVIOUS
<1>3. AllTagless(fragments)'  BY <1>1, <1>2, SameTagless DEF TextInv
<1> QED  BY <1>1, <1>3 DEF TextInv


\* A fragment is added that is not text; text may go by again where it ends.
LEMMA AddedText ==
  ASSUME text' = text, NEW fs, IsSeq(fs), AllTagless(fs), NEW f, Tagless(f),
         fragments' = fs \o <<f>>, NEW to \in Nat, scantok' = to, src' = to,
         at' = "text" => ~ AtLineStart(to), at' = "lines" => (to < End => AtLineStart(to))
  PROVE  TextInv'
<1>1. PICK gs : gs = fs \o <<f>>  OBVIOUS
<1>2. AllTagless(gs)  BY <1>1, TaglessGrows
<1>3. AllTagless(fragments)'  BY <1>1, <1>2, SameTagless
<1>4. \A i \in to..to - 1 : FALSE  OBVIOUS
<1>5. End' = End  BY DEF End
<1>6. AtLineStart(to)' <=> AtLineStart(to)  BY SameTags
<1>7. AtLineStart(src)' <=> AtLineStart(to)'  BY DEF AtLineStart
<1> QED  BY <1>3, <1>4, <1>5, <1>6, <1>7 DEF TextInv

LEMMA TokenText ==
  ASSUME ScanInv, ScanInv', TextInv, at \in {"inline", "outline", "plain"}, NEW type,
         type \notin {"text", "tag_start"}, NEW to, NEW value,
         ScannedTo(type, to, value), text' = text,
         at' = "text" => ~ AtLineStart(to), at' = "lines" => (to < End => AtLineStart(to))
  PROVE  TextInv'
<1>1. PICK f : f = Fragment(type, scantok, scanpos, to, value)  OBVIOUS
<1>2. IsSeq(fragments)  BY PlaceFacts
<1>3. PICK fs : fs = fragments  OBVIOUS
<1>4. fragments' = fs \o <<f>> /\ scantok' = to /\ src' = to
  BY <1>1, <1>2, <1>3, SeqAppended DEF ScannedTo
<1>5. src' \in 1..End'  BY DEF ScanInv, Placed
<1>6. to \in Nat  BY <1>4, <1>5
<1>7. Tagless(f)  BY <1>1, OtherTagless
<1>8. IsSeq(fs) /\ AllTagless(fs)  BY <1>2, <1>3 DEF TextInv
<1> QED  BY <1>4, <1>6, <1>7, <1>8, AddedText

\* The text before a tag and the tag's first token are added.
LEMMA TagText ==
  ASSUME ScanInv, ScanInv', TextInv, at \in {"lines", "text"}, NEW type, type # "text", NEW to,
         TagScannedTo(type, to), text' = text, at' # "lines",
         type = "tag_start" /\ Match(InlineTags, src) = {} => AtLineStart(src),
         at' = "text" => ~ AtLineStart(to)
  PROVE  TextInv'
<1>1. PICK f : f = Fragment(type, src, scanpos + (src - scantok), to, <<>>)  OBVIOUS
<1>2. PICK fs : fs = fragments \o TextBefore  OBVIOUS
<1>3. IsSeq(fs) /\ AllTagless(fs)  BY <1>2, TextTagless
<1>4. fragments' = fs \o <<f>> /\ scantok' = to /\ src' = to
  BY <1>1, <1>2 DEF TagScannedTo
<1>5. src' \in 1..End'  BY DEF ScanInv, Placed
<1>6. to \in Nat  BY <1>4, <1>5
<1>7. f.type = type /\ f.from = src  BY <1>1 DEF Fragment
<1>8. Tagless(f)  BY <1>7 DEF Tagless
<1> QED  BY <1>3, <1>4, <1>6, <1>8, AddedText

LEMMA TextPasses ==
  ASSUME ScanInv, ScanInv', TextInv, NoOutlineTag \/ NewLine \/ PlainText
  PROVE  TextInv'
<1>1. /\ IsText(text) /\ src \in 1..End /\ src \in Nat /\ scantok \in Nat /\ End \in Nat
      /\ scantok <= src
  BY PlaceFacts
<1>2. at \in {"lines", "text"} /\ UNCHANGED <<text, scantok, fragments>> /\ src < End
  BY DEF NoOutlineTag, NewLine, PlainText, LineStart, InText
<1>3. PICK fs : fs = fragments  OBVIOUS
<1>4. AllTagless(fragments)'  BY <1>2, <1>3, SameTagless DEF TextInv
<1>5. PICK from \in Nat : from = scantok  BY <1>1
<1>6. \A i \in from..src - 1 : NoTag(i)  BY <1>2, <1>5 DEF TextInv
<1>7. PICK to \in Nat : to = src'
  <2>1. src' \in 1..End'  BY DEF ScanInv, Placed
  <2> QED  BY <2>1
<1>8. End' = End  BY <1>2 DEF End
<1>9. CASE NoOutlineTag
  <2>1. /\ Match(OutlineTags, src) = {} /\ at' = "text" /\ src' = src /\ to = src
    BY <1>7, <1>9 DEF NoOutlineTag
  <2>2. \A i \in from..to - 1 : NoTag(i)'  BY <1>2, <1>6, <2>1, SameTags
  <2>3. (Match(OutlineTags, to) = {})'  BY <1>2, <2>1, SameTags
  <2>4. (Match(OutlineTags, src) = {})'  BY <1>7, <2>3 DEF Match, StartsWith
  <2> QED  BY <1>2, <1>4, <1>5, <1>7, <2>1, <2>2, <2>4 DEF TextInv
<1>10. CASE NewLine
  <2>1. /\ Char(src) \in Newlines /\ at' = "lines" /\ to = AfterNewline(src)
    BY <1>7, <1>10 DEF NewLine, InText
  <2>2. NoTag(src) /\ AtLineStart(to)
    BY <1>1, <2>1, NoTagAtNewline, AfterNewlineStarts
  <2>3. ASSUME NEW i \in src..to - 1  PROVE NoTag(i)
    <3>1. CASE Char(src) = CR /\ Char(src + 1) = LF
      <4>1. to = src + 2 /\ (i = src \/ i = src + 1)
        BY <1>1, <2>1, <3>1 DEF AfterNewline
      <4>2. Char(src + 1) \in Newlines /\ Char(src + 1) # NUL /\ src + 1 \in Nat
        BY <1>1, <3>1, NoNul DEF Newlines
      <4>3. src + 1 < End  BY <1>1, <4>2, BeforeEnd
      <4>4. NoTag(src + 1)  BY <1>1, <4>2, <4>3, NoTagAtNewline
      <4> QED  BY <2>2, <4>1, <4>4
    <3>2. CASE ~ (Char(src) = CR /\ Char(src + 1) = LF)
      <4>1. i = src  BY <1>1, <2>1, <3>2 DEF AfterNewline
      <4> QED  BY <2>2, <4>1
    <3> QED  BY <3>1, <3>2
  <2>4. \A i \in from..to - 1 : i \in from..src - 1 \/ i \in src..to - 1
    <3>1. PICK here \in Nat : here = src  BY <1>1
    <3>2. \A i \in from..to - 1 : i \in from..here - 1 \/ i \in here..to - 1  OBVIOUS
    <3> QED  BY <3>1, <3>2
  <2>5. \A i \in from..to - 1 : NoTag(i)'  BY <1>2, <1>6, <2>3, <2>4, SameTags
  <2>6. AtLineStart(to)'  BY <1>2, <2>2, SameTags
  <2>7. AtLineStart(src)'  BY <1>7, <2>6 DEF AtLineStart
  <2> QED  BY <1>2, <1>4, <1>5, <1>7, <2>1, <2>5, <2>7 DEF TextInv
<1>11. CASE PlainText
  <2>1. /\ at = "text" /\ at' = at /\ Char(src) \notin Newlines /\ Match(InlineTags, src) = {}
        /\ to = src + 1
    BY <1>7, <1>11 DEF PlainText, InText
  <2>2. NoTag(src)  BY <2>1 DEF TextInv, NoTag
  <2>3. \A i \in from..to - 1 : i \in from..src - 1 \/ i = src  BY <1>1, <2>1
  <2>4. \A i \in from..to - 1 : NoTag(i)'  BY <1>2, <1>6, <2>2, <2>3, SameTags
  <2>5. ~ AtLineStart(to)
    <3>1. to # 1 /\ to - 1 = src  BY <1>1, <2>1
    <3> QED  BY <2>1, <3>1 DEF AtLineStart
  <2>6. ~ AtLineStart(to)'  BY <1>2, <2>5, SameTags
  <2>7. ~ AtLineStart(src)'  BY <1>7, <2>6 DEF AtLineStart
  <2> QED  BY <1>2, <1>4, <1>5, <1>7, <2>1, <2>4, <2>7 DEF TextInv
<1> QED  BY <1>9, <1>10, <1>11

LEMMA TextTags ==
  ASSUME ScanInv, ScanInv', TextInv, OutlineTag \/ InlineTag \/ CommentTag \/ ControlTag
  PROVE  TextInv'
<1>1. IsText(text) /\ src \in 1..End /\ End \in Nat  BY PlaceFacts
<1>2. CASE OutlineTag
  <2>1. PICK tag \in Match(OutlineTags, src) : TagScannedTo("tag_start", src + Len(tag.start))
    BY <1>2 DEF OutlineTag
  <2>2. /\ at = "lines" /\ src < End /\ text' = text /\ at' = "outline"
    BY <1>2 DEF OutlineTag, LineStart
  <2>3. PICK to : to = src + Len(tag.start)  OBVIOUS
  <2>4. AtLineStart(src)  BY <2>2 DEF TextInv
  <2> QED  BY <2>1, <2>2, <2>3, <2>4, TagText
<1>3. CASE InlineTag
  <2>1. PICK tag \in Match(InlineTags, src) : TagScannedTo("tag_start", src + Len(tag.start))
    BY <1>3 DEF InlineTag, TagOf
  <2>2. /\ at = "text" /\ text' = text /\ at' = "inline"
    BY <1>3 DEF InlineTag, InText
  <2>3. PICK to : to = src + Len(tag.start)  OBVIOUS
  <2> QED  BY <2>1, <2>2, <2>3, TagText
<1>4. CASE CommentTag
  <2>1. at = "text"  BY <1>4 DEF CommentTag, InText
  <2>2. PICK tag \in Match(InlineTags, src) :
          LET ends == {i \in src + Len(tag.start)..End : StartsWith(i, tag.end)}
          IN  IF ends = {} THEN Leave("fatal")
              ELSE /\ TagScannedTo("comment", Min(ends) + Len(tag.end))
                   /\ UNCHANGED <<text, at, scantags>>
    BY <1>4 DEF CommentTag, TagOf
  <2>3. PICK from : from = src + Len(tag.start)  OBVIOUS
  <2>4. PICK S : S = {i \in from..End : StartsWith(i, tag.end)}  OBVIOUS
  <2>5. IF S = {} THEN Leave("fatal")
        ELSE /\ TagScannedTo("comment", Min(S) + Len(tag.end))
             /\ UNCHANGED <<text, at, scantags>>
    BY <2>2, <2>3, <2>4
  <2>6. CASE S = {}
    <3>1. Halt  BY <2>5, <2>6 DEF Halt
    <3> QED  BY <3>1, HaltText
  <2>7. CASE S # {}
    <3>1. tag \in InlineTags /\ from \in src..End  BY <1>1, <2>3, MatchFacts
    <3>2. IsText(tag.end) /\ from \in 1..End  BY <1>1, <3>1, ScannerAssumption
    <3>3. PICK m : m = Min(S)  OBVIOUS
    <3>4. m \in from..End /\ StartsWith(m, tag.end)
      BY <1>1, <2>4, <2>7, <3>2, <3>3, CommentEnds
    <3>5. m \in 1..End  BY <1>1, <3>2, <3>4
    <3>6. ~ AtLineStart(m + Len(tag.end))  BY <1>1, <3>1, <3>4, <3>5, AfterEnd
    <3>7. PICK to : to = m + Len(tag.end)  OBVIOUS
    <3>8. TagScannedTo("comment", to) /\ text' = text /\ at' = at
      BY <2>5, <2>7, <3>3, <3>7
    <3> QED  BY <2>1, <3>6, <3>7, <3>8, TagText
  <2> QED  BY <2>6, <2>7
<1>5. CASE ControlTag
  <2>1. Halt  BY <1>5 DEF ControlTag, Halt
  <2> QED  BY <2>1, HaltText
<1> QED  BY <1>2, <1>3, <1>4, <1>5

LEMMA TextLeaves ==
  ASSUME ScanInv, ScanInv', TextInv, InlineEnd \/ OutlineEnd \/ SourceEnd
  PROVE  TextInv'
<1>1. IsText(text) /\ src \in 1..End /\ src \in Nat /\ End \in Nat  BY PlaceFacts
<1>2. CASE InlineEnd
  <2>1. /\ at = "inline" /\ at' = "text" /\ StartsWith(src, Tag.end)
        /\ LeaveTag(src + Len(Tag.end))
    BY <1>2 DEF InlineEnd, AtTagEnd
  <2>2. PICK tag \in InlineTags : tag = Tag  BY <2>1, TagFacts
  <2>3. ~ AtLineStart(src + Len(tag.end))  BY <1>1, <2>1, <2>2, AfterEnd
  <2>4. PICK to : to = src + Len(tag.end)  OBVIOUS
  <2>5. ScannedTo("tag_end", to, <<>>) /\ text' = text  BY <2>1, <2>2, <2>4 DEF LeaveTag
  <2> QED  BY <2>1, <2>3, <2>4, <2>5, TokenText
<1>3. CASE OutlineEnd
  <2>1. /\ at = "outline" /\ at' = "lines" /\ Char(src) \in Newlines
        /\ LeaveTag(AfterNewline(src))
    BY <1>3 DEF OutlineEnd, AtNewline
  <2>2. PICK to : to = AfterNewline(src)  OBVIOUS
  <2>3. AtLineStart(to)  BY <1>1, <2>1, <2>2, AfterNewlineStarts
  <2>4. ScannedTo("tag_end", to, <<>>) /\ text' = text  BY <2>1, <2>2 DEF LeaveTag
  <2> QED  BY <2>1, <2>3, <2>4, TokenText
<1>4. CASE SourceEnd
  <2>1. src = End /\ at \in {"inline", "outline", "plain"}  BY <1>4 DEF SourceEnd
  <2>2. PICK to : to = src  OBVIOUS
  <2>3. ~ (to < End)  BY <1>1, <2>1, <2>2
  <2>4. CASE at = "inline"
    <3>1. Halt  BY <1>4, <2>4 DEF SourceEnd, Halt
    <3> QED  BY <3>1, HaltText
  <2>5. CASE at = "outline"
    <3>1. at' = "lines" /\ ScannedTo("tag_end", to, <<>>) /\ text' = text
      BY <1>4, <2>2, <2>5 DEF SourceEnd, LeaveTag
    <3> QED  BY <2>3, <2>5, <3>1, TokenText
  <2>6. CASE at = "plain"
    <3>1. at' = "scanned" /\ ScannedTo("eof", to, <<>>) /\ text' = text
      BY <1>4, <2>2, <2>6 DEF SourceEnd
    <3> QED  BY <2>6, <3>1, TokenText
  <2> QED  BY <2>1, <2>4, <2>5, <2>6
<1> QED  BY <1>2, <1>3, <1>4

LEMMA TextNext == ScanInv /\ ScanInv' /\ TextInv /\ [Next]_vars => TextInv'
<1> SUFFICES ASSUME ScanInv, ScanInv', TextInv, [Next]_vars  PROVE TextInv'
  OBVIOUS
<1>1. CASE OutlineTag \/ InlineTag \/ CommentTag \/ ControlTag  BY <1>1, TextTags
<1>2. CASE NoOutlineTag \/ NewLine \/ PlainText  BY <1>2, TextPasses
<1>3. CASE EndOfText
  <2>1. /\ at \in {"lines", "text"} /\ at' = "scanned" /\ src' = src /\ scantok' = src
        /\ text' = text
        /\ fragments' = (fragments \o TextBefore)
                          \o <<Fragment("eof", src, scanpos + (src - scantok), src, <<>>)>>
    BY <1>3 DEF EndOfText
  <2>2. PICK f : f = Fragment("eof", src, scanpos + (src - scantok), src, <<>>)  OBVIOUS
  <2>3. PICK fs : fs = fragments \o TextBefore  OBVIOUS
  <2>4. PICK to \in Nat : to = src  BY PlaceFacts
  <2>5. IsSeq(fs) /\ AllTagless(fs)  BY <2>1, <2>3, TextTagless
  <2>6. Tagless(f)  BY <2>2, OtherTagless
  <2>7. /\ at' = "scanned" /\ src' = to /\ scantok' = to /\ text' = text
        /\ fragments' = fs \o <<f>>
    BY <2>1, <2>2, <2>3, <2>4
  <2> QED  BY <2>5, <2>6, <2>7, AddedText
<1>4. CASE InlineEnd \/ OutlineEnd \/ SourceEnd  BY <1>4, TextLeaves
<1>5. CASE Space \/ Number \/ Symbol \/ Word \/ Unexpected \/ Comment \/ NamedFragment \/ Quoted
  <2>1. at \in {"inline", "outline", "plain"} /\ (TokenStep \/ Halt)  BY <1>5, TokenSteps
  <2>2. CASE TokenStep
    <3>1. PICK type \in Tokens : \E to, value : ScannedTo(type, to, value)
      BY <2>2 DEF TokenStep
    <3>2. PICK to, value : ScannedTo(type, to, value)  BY <3>1
    <3>3. /\ type \notin {"text", "tag_start"} /\ text' = text
          /\ at' \in {"inline", "outline", "plain"}
      BY <2>1, <2>2 DEF Tokens, TokenStep
    <3> QED  BY <2>1, <3>2, <3>3, TokenText
  <2>3. CASE Halt  BY <2>3, HaltText
  <2> QED  BY <2>1, <2>2, <2>3
<1>6. CASE Returned \/ UNCHANGED vars
  <2>1. UNCHANGED <<text, at, src, scantok, fragments>>  BY <1>6 DEF Returned, vars
  <2>2. PICK fs : fs = fragments  OBVIOUS
  <2>3. AllTagless(fragments)'  BY <2>1, <2>2, SameTagless DEF TextInv
  <2>4. PICK from, to : from = scantok /\ to = src  OBVIOUS
  <2>5. \A i \in from..to - 1 : NoTag(i)' <=> NoTag(i)  BY <2>1, SameTags
  <2>6. AtLineStart(to)' <=> AtLineStart(to)  BY <2>1, SameTags
  <2>7. (Match(OutlineTags, to) = {})' <=> Match(OutlineTags, to) = {}  BY <2>1, SameTags
  <2>8. /\ AtLineStart(src)' <=> AtLineStart(to)'
        /\ (Match(OutlineTags, src) = {})' <=> (Match(OutlineTags, to) = {})'
    BY <2>1, <2>4 DEF AtLineStart, Match, StartsWith
  <2>9. End' = End  BY <2>1 DEF End
  <2> QED  BY <2>1, <2>3, <2>4, <2>5, <2>6, <2>7, <2>8, <2>9 DEF TextInv
<1> QED  BY <1>1, <1>2, <1>3, <1>4, <1>5, <1>6 DEF Next

\* Text holds no tag, for any tags and any text: none of its characters starts an
\* inline tag, nor an outline tag at the start of a line, and outline tags are
\* taken there only, although the two loops of hemp_tagset_scanner() look for
\* them apart.
THEOREM TextHoldsNoTags == Spec => []TagsFound
<1>1. Init => TextInv
  <2> SUFFICES ASSUME Init  PROVE TextInv
    OBVIOUS
  <2>1. /\ at \in {"lines", "plain"} /\ src = 1 /\ scantok = 1 /\ fragments = <<>>
    BY DEF Init
  <2>2. \A i \in 1..1 - 1 : FALSE  OBVIOUS
  <2>3. Len(<<>>) = 0 /\ \A k \in 1..0 : FALSE  BY SeqEmpty
  <2>4. AtLineStart(1)  BY DEF AtLineStart
  <2> QED  BY <2>1, <2>2, <2>3, <2>4 DEF TextInv, AllTagless
<1>2. TextInv => TagsFound
  <2> SUFFICES ASSUME TextInv, NEW k \in 1..Len(fragments)
               PROVE  LET f == fragments[k]
                      IN  /\ f.type = "text" =>
                               \A i \in f.from..After(k) - 1 :
                                 Match(InlineTags, i) = {} /\ (AtLineStart(i) => Match(OutlineTags, i) = {})
                          /\ f.type = "tag_start" /\ Match(InlineTags, f.from) = {} => AtLineStart(f.from)
    BY DEF TagsFound
  <2>1. Tagless(fragments[k])  BY DEF TextInv, AllTagless
  <2>2. After(k) = fragments[k].from + fragments[k].length
    <3>1. k # 0  OBVIOUS
    <3> QED  BY <3>1 DEF After
  <2> QED  BY <2>1, <2>2 DEF Tagless, NoTag
<1> QED  BY <1>1, <1>2, InitInv, NextInv, TextNext, PTL DEF Spec

-----------------------------------------------------------------------------
(***************************************************************************)
(* Tags are entered and left in pairs.                                     *)
(***************************************************************************)
CountIn(fs, type) == Cardinality({k \in 1..Len(fs) : fs[k].type = type})

PairInv == Len(scantags) = CountIn(fragments, "tag_start") - CountIn(fragments, "tag_end")

LEMMA CountGrows ==
  ASSUME NEW fs, IsSeq(fs), NEW type, NEW f
  PROVE  /\ CountIn(fs, type) \in Nat
         /\ CountIn(fs \o <<f>>, type) = CountIn(fs, type) + (IF f.type = type THEN 1 ELSE 0)
<1> DEFINE gs == fs \o <<f>>
           n == Len(fs)
           S == {k \in 1..n : fs[k].type = type}
           T == {k \in 1..n + 1 : gs[k].type = type}
<1>1. /\ n \in Nat /\ Len(gs) = n + 1 /\ gs[n + 1] = f /\ \A k \in 1..n : gs[k] = fs[k]
  BY SeqAppended
<1> HIDE DEF gs, n
<1>2. \A k : k \in 1..n + 1 <=> k \in 1..n \/ k = n + 1  BY <1>1
<1>3. n + 1 \notin 1..n  BY <1>1
<1>4. IsFiniteSet(S) /\ Cardinality(S) \in Nat /\ n + 1 \notin S
  <2>1. IsFiniteSet(1..n)  BY <1>1, FS_Interval
  <2>2. S \subseteq 1..n  OBVIOUS
  <2> QED  BY <1>3, <2>1, <2>2, FS_Subset, FS_CardinalityType
<1>5. CountIn(fs, type) = Cardinality(S)  BY DEF CountIn, n
<1>6. CountIn(gs, type) = Cardinality(T)  BY <1>1 DEF CountIn
<1> HIDE DEF S, T
<1>7. CASE f.type = type
  <2>1. T = S \union {n + 1}  BY <1>1, <1>2, <1>7 DEF S, T
  <2>2. Cardinality(T) = Cardinality(S) + 1  BY <1>4, <2>1, FS_AddElement
  <2> QED  BY <1>4, <1>7, <1>5, <1>6, <2>2 DEF gs
<1>8. CASE f.type # type
  <2>1. T = S  BY <1>1, <1>2, <1>8 DEF S, T
  <2> QED  BY <1>4, <1>8, <1>5, <1>6, <2>1 DEF gs
<1> QED  BY <1>7, <1>8

\* What a fragment of another type, and the text before a tag, leave as it is.
LEMMA CountSame ==
  ASSUME NEW fs, IsSeq(fs), NEW type, type \notin {"tag_start", "tag_end"},
         NEW from, NEW pos, NEW to, NEW value
  PROVE  LET gs == fs \o <<Fragment(type, from, pos, to, value)>>
         IN  /\ CountIn(gs, "tag_start") = CountIn(fs, "tag_start")
             /\ CountIn(gs, "tag_end") = CountIn(fs, "tag_end")
<1>1. PICK f : f = Fragment(type, from, pos, to, value)  OBVIOUS
<1>2. f.type = type  BY <1>1 DEF Fragment
<1>3. /\ CountIn(fs \o <<f>>, "tag_start") = CountIn(fs, "tag_start")
      /\ CountIn(fs \o <<f>>, "tag_end") = CountIn(fs, "tag_end")
  BY <1>2, CountGrows
<1> QED  BY <1>1, <1>3

LEMMA TextCount ==
  ASSUME ScanInv
  PROVE  /\ IsSeq(fragments \o TextBefore)
         /\ CountIn(fragments \o TextBefore, "tag_start") = CountIn(fragments, "tag_start")
         /\ CountIn(fragments \o TextBefore, "tag_end") = CountIn(fragments, "tag_end")
<1>1. IsSeq(fragments)  BY PlaceFacts
<1>2. CASE src > scantok
  <2>1. PICK f : f = Fragment("text", scantok, scanpos, src, <<>>)  OBVIOUS
  <2>2. fragments \o TextBefore = fragments \o <<f>>  BY <1>2, <2>1 DEF TextBefore
  <2>3. IsSeq(fragments \o <<f>>)  BY <1>1, SeqAppended
  <2>4. /\ CountIn(fragments \o <<f>>, "tag_start") = CountIn(fragments, "tag_start")
        /\ CountIn(fragments \o <<f>>, "tag_end") = CountIn(fragments, "tag_end")
    BY <1>1, <2>1, CountSame
  <2> QED  BY <2>2, <2>3, <2>4
<1>3. CASE ~ (src > scantok)
  <2>1. fragments \o TextBefore = fragments  BY <1>1, <1>3, SeqEmpty DEF TextBefore
  <2> QED  BY <1>1, <2>1
<1> QED  BY <1>2, <1>3

LEMMA TokenCount ==
  ASSUME ScanInv, PairInv, NEW type, type \notin {"tag_start", "tag_end"}, NEW to, NEW value,
         ScannedTo(type, to, value), scantags' = scantags
  PROVE  PairInv'
<1>1. IsSeq(fragments)  BY PlaceFacts
<1>2. fragments' = fragments \o <<Fragment(type, scantok, scanpos, to, value)>>
  BY <1>1, SeqAppended DEF ScannedTo
<1>3. /\ CountIn(fragments', "tag_start") = CountIn(fragments, "tag_start")
      /\ CountIn(fragments', "tag_end") = CountIn(fragments, "tag_end")
  BY <1>1, <1>2, CountSame
<1> QED  BY <1>3 DEF PairInv, CountIn

LEMMA LeaveCount ==
  ASSUME ScanInv, PairInv, at \in {"inline", "outline"}, NEW to, LeaveTag(to)
  PROVE  PairInv'
<1>1. IsSeq(fragments) /\ Len(scantags) = 1  BY PlaceFacts DEF ScanInv, TagsKnown
<1>2. PICK f : f = Fragment("tag_end", scantok, scanpos, to, <<>>)  OBVIOUS
<1>3. f.type = "tag_end"  BY <1>2 DEF Fragment
<1>4. fragments' = fragments \o <<f>>
  BY <1>1, <1>2, SeqAppended DEF LeaveTag, ScannedTo
<1>5. Len(scantags') = 0
  <2>1. scantags' = SubSeq(scantags, 1, Len(scantags) - 1)  BY DEF LeaveTag
  <2>2. SubSeq(scantags, 1, 0) = <<>>  OBVIOUS
  <2> QED  BY <1>1, <2>1, <2>2, SeqEmpty
<1>6. PICK fs : fs = fragments  OBVIOUS
<1>7. /\ CountIn(fs, "tag_start") \in Nat /\ CountIn(fs, "tag_end") \in Nat
      /\ CountIn(fs \o <<f>>, "tag_start") = CountIn(fs, "tag_start")
      /\ CountIn(fs \o <<f>>, "tag_end") = CountIn(fs, "tag_end") + 1
  BY <1>1, <1>3, <1>6, CountGrows
<1>8. PICK a \in Nat, b \in Nat : a = CountIn(fs, "tag_start") /\ b = CountIn(fs, "tag_end")
  BY <1>7
<1>9. a - b = 1  BY <1>1, <1>6, <1>8 DEF PairInv
<1>10. a - (b + 1) = 0  BY <1>9
<1>11. /\ CountIn(fragments', "tag_start") = a /\ CountIn(fragments', "tag_end") = b + 1
  BY <1>4, <1>6, <1>7, <1>8
<1>12. Len(scantags') = CountIn(fragments', "tag_start") - CountIn(fragments', "tag_end")
  BY <1>5, <1>10, <1>11
<1> QED  BY <1>12 DEF PairInv, CountIn

LEMMA EnterCount ==
  ASSUME ScanInv, PairInv, at \in {"lines", "text"}, NEW to, NEW tag,
         TagScannedTo("tag_start", to), scantags' = Append(scantags, tag)
  PROVE  PairInv'
<1>1. IsSeq(fragments \o TextBefore) /\ scantags = <<>>  BY TextCount DEF ScanInv, TagsKnown
<1>2. PICK f : f = Fragment("tag_start", src, scanpos + (src - scantok), to, <<>>)  OBVIOUS
<1>3. f.type = "tag_start"  BY <1>2 DEF Fragment
<1>4. PICK fs : fs = fragments \o TextBefore  OBVIOUS
<1>5. fragments' = fs \o <<f>> /\ scantags' = Append(<<>>, tag)
  BY <1>1, <1>2, <1>4 DEF TagScannedTo
<1>6. Len(scantags') = 1 /\ Len(scantags) = 0  BY <1>1, <1>5
<1>7. /\ CountIn(fs, "tag_start") \in Nat /\ CountIn(fs, "tag_end") \in Nat
      /\ CountIn(fs \o <<f>>, "tag_start") = CountIn(fs, "tag_start") + 1
      /\ CountIn(fs \o <<f>>, "tag_end") = CountIn(fs, "tag_end")
  <2>1. IsSeq(fs) /\ "tag_start" # "tag_end"  BY <1>1, <1>4
  <2>2. /\ CountIn(fs, "tag_start") \in Nat
        /\ CountIn(fs \o <<f>>, "tag_start") = CountIn(fs, "tag_start") + 1
    BY <1>3, <2>1, CountGrows
  <2>3. CountIn(fs, "tag_end") \in Nat  BY <2>1, CountGrows
  <2>4. PICK n \in Nat : n = CountIn(fs, "tag_end")  BY <2>3
  <2>5. CountIn(fs \o <<f>>, "tag_end") = n + 0  BY <1>3, <2>1, <2>4, CountGrows
  <2>6. CountIn(fs \o <<f>>, "tag_end") = CountIn(fs, "tag_end")  BY <2>4, <2>5
  <2> QED  BY <2>2, <2>3, <2>6
<1>8. PICK a \in Nat, b \in Nat : a = CountIn(fs, "tag_start") /\ b = CountIn(fs, "tag_end")
  BY <1>7
<1>9. a - b = 0  BY <1>4, <1>6, <1>8, TextCount DEF PairInv
<1>10. (a + 1) - b = 1  BY <1>9
<1>11. /\ CountIn(fragments', "tag_start") = a + 1 /\ CountIn(fragments', "tag_end") = b
  BY <1>5, <1>7, <1>8
<1>12. Len(scantags') = CountIn(fragments', "tag_start") - CountIn(fragments', "tag_end")
  BY <1>6, <1>10, <1>11
<1> QED  BY <1>12 DEF PairInv, CountIn

LEMMA TextBeforeCount ==
  ASSUME ScanInv, PairInv, NEW type, type \notin {"tag_start", "tag_end"},
         NEW pos, NEW to, scantags' = scantags,
         fragments' = (fragments \o TextBefore) \o <<Fragment(type, src, pos, to, <<>>)>>
  PROVE  PairInv'
<1>1. PICK fs : fs = fragments \o TextBefore  OBVIOUS
<1>2. IsSeq(fs)  BY <1>1, TextCount
<1>3. /\ CountIn(fragments', "tag_start") = CountIn(fragments, "tag_start")
      /\ CountIn(fragments', "tag_end") = CountIn(fragments, "tag_end")
  BY <1>1, <1>2, TextCount, CountSame
<1> QED  BY <1>3 DEF PairInv, CountIn

LEMMA SameCount ==
  ASSUME PairInv, scantags' = scantags, fragments' = fragments
  PROVE  PairInv'
  BY DEF PairInv, CountIn

LEMMA PairNext == ScanInv /\ PairInv /\ [Next]_vars => PairInv'
<1> SUFFICES ASSUME ScanInv, PairInv, [Next]_vars  PROVE PairInv'
  OBVIOUS
<1>1. Halt => PairInv'  BY SameCount DEF Halt, Leave
<1>2. CASE OutlineTag \/ InlineTag
  <2>1. /\ at \in {"lines", "text"}
        /\ \E tag : \E to : /\ TagScannedTo("tag_start", to)
                            /\ scantags' = Append(scantags, tag)
    BY <1>2, Zenon DEF OutlineTag, InlineTag, LineStart, InText
  <2> QED  BY <2>1, EnterCount
<1>3. CASE CommentTag
  <2>1. Halt \/ (scantags' = scantags /\ \E to : TagScannedTo("comment", to))
    BY <1>3, Zenon DEF CommentTag, Halt
  <2>2. ASSUME scantags' = scantags, NEW to, TagScannedTo("comment", to)
        PROVE  PairInv'
    <3>1. fragments' = (fragments \o TextBefore)
                         \o <<Fragment("comment", src, scanpos + (src - scantok), to, <<>>)>>
      BY <2>2 DEF TagScannedTo
    <3> QED  BY <2>2, <3>1, TextBeforeCount
  <2> QED  BY <1>1, <2>1, <2>2
<1>4. CASE ControlTag
  BY <1>1, <1>4 DEF ControlTag, Halt
<1>5. CASE NoOutlineTag \/ NewLine \/ PlainText
  BY <1>5, SameCount DEF NoOutlineTag, NewLine, PlainText
<1>6. CASE EndOfText
  BY <1>6, TextBeforeCount DEF EndOfText
<1>7. CASE InlineEnd \/ OutlineEnd
  BY <1>7, LeaveCount DEF InlineEnd, OutlineEnd, AtTagEnd, AtNewline
<1>8. CASE SourceEnd
  <2>1. CASE at = "inline"  BY <1>1, <1>8, <2>1 DEF SourceEnd, Halt
  <2>2. CASE at = "outline"  BY <1>8, <2>2, LeaveCount DEF SourceEnd
  <2>3. CASE at = "plain"  BY <1>8, <2>3, TokenCount DEF SourceEnd
  <2> QED  BY <1>8, <2>1, <2>2, <2>3 DEF SourceEnd
<1>9. CASE Space \/ Number \/ Symbol \/ Word \/ Unexpected \/ Comment \/ NamedFragment \/ Quoted
  <2>1. TokenStep \/ Halt  BY <1>9, TokenSteps
  <2>2. CASE TokenStep
    <3>1. PICK type \in Tokens : \E to, value : ScannedTo(type, to, value)
      BY <2>2 DEF TokenStep
    <3>2. type \notin {"tag_start", "tag_end"} /\ scantags' = scantags
      BY <2>2 DEF Tokens, TokenStep
    <3> QED  BY <3>1, <3>2, TokenCount
  <2> QED  BY <1>1, <2>1, <2>2
<1>10. CASE Returned \/ UNCHANGED vars
  BY <1>10, SameCount DEF Returned, vars
<1> QED  BY <1>2, <1>3, <1>4, <1>5, <1>6, <1>7, <1>8, <1>9, <1>10 DEF Next

\* Around the tags the stack of tags is empty again, within one it holds that tag,
\* and the tokens that start and end tags come in pairs, for any tags and any
\* text: hemp_document_leave_tag() always finds the tag that its scanner entered.
THEOREM TagsArePaired == Spec => []TagsInPairs
<1>1. Init => PairInv
  <2> SUFFICES ASSUME Init  PROVE PairInv
    OBVIOUS
  <2>1. scantags = <<>> /\ fragments = <<>>  BY DEF Init
  <2>2. Len(<<>>) = 0  BY SeqEmpty
  <2>3. \A type : {k \in 1..0 : fragments[k].type = type} = {}  OBVIOUS
  <2>4. \A type : CountIn(fragments, type) = 0  BY <2>1, <2>2, <2>3, FS_EmptySet DEF CountIn
  <2> QED  BY <2>1, <2>2, <2>4 DEF PairInv
<1>2. ScanInv /\ PairInv => TagsInPairs
  BY DEF ScanInv, TagsKnown, PairInv, TagsInPairs, CountIn, Count
<1> QED  BY <1>1, <1>2, InitInv, NextInv, PairNext, PTL DEF Spec

-----------------------------------------------------------------------------
(***************************************************************************)
(* Strings.  Of a run of backslashes every other one counts, and those are *)
(* the ones at which the walk to the end of a string steps over the next   *)
(* character.                                                              *)
(***************************************************************************)
Run(from, i) == {j \in from..i : \A n \in j..i : Char(n) = Backslash}

LEMMA RunGrows ==
  ASSUME NEW from \in Nat, NEW i \in Nat, i >= from, Char(i) = Backslash
  PROVE  /\ i = from => Cardinality(Run(from, i)) = 1
         /\ i > from => /\ Cardinality(Run(from, i - 1)) \in Nat
                        /\ Cardinality(Run(from, i)) = Cardinality(Run(from, i - 1)) + 1
<1>1. CASE i = from
  <2>1. \A j \in from..i : j = i /\ \A n \in j..i : n = i  BY <1>1
  <2>2. i \in from..i  BY <1>1
  <2>3. Run(from, i) = {i}  BY <2>1, <2>2, Zenon DEF Run
  <2> QED  BY <1>1, <2>3, FS_Singleton
<1>2. CASE i > from
  <2>1. i - 1 \in Nat /\ from \in Int /\ i - 1 \in Int  BY <1>2
  <2>2. IsFiniteSet(from..(i - 1))  BY <2>1, FS_Interval
  <2>3. Run(from, i - 1) \in SUBSET (from..(i - 1))  BY DEF Run
  <2>4. IsFiniteSet(Run(from, i - 1))  BY <2>2, <2>3, FS_Subset
  <2>5. Run(from, i) = Run(from, i - 1) \union {i}
    <3>1. ASSUME NEW j \in Run(from, i)  PROVE j \in Run(from, i - 1) \union {i}
      <4>1. j \in from..i /\ \A n \in j..i : Char(n) = Backslash  BY DEF Run
      <4>2. j = i \/ (j \in from..(i - 1) /\ \A n \in j..(i - 1) : n \in j..i)
        BY <1>2, <2>1, <4>1
      <4> QED  BY <4>1, <4>2 DEF Run
    <3>2. ASSUME NEW j \in Run(from, i - 1)  PROVE j \in Run(from, i)
      <4>1. j \in from..(i - 1) /\ \A n \in j..(i - 1) : Char(n) = Backslash  BY DEF Run
      <4>2. j \in from..i /\ \A n \in j..i : n = i \/ n \in j..(i - 1)  BY <1>2, <2>1, <4>1
      <4> QED  BY <4>1, <4>2 DEF Run
    <3>3. i \in Run(from, i)
      <4>1. i \in from..i /\ \A n \in i..i : n = i  BY <1>2
      <4> QED  BY <4>1 DEF Run
    <3> QED  BY <3>1, <3>2, <3>3
  <2>6. i \notin Run(from, i - 1)
    <3>1. i \notin from..(i - 1)  BY <2>1
    <3> QED  BY <2>3, <3>1
  <2>7. /\ Cardinality(Run(from, i - 1)) \in Nat
        /\ Cardinality(Run(from, i)) = Cardinality(Run(from, i - 1)) + 1
    BY <2>4, <2>5, <2>6, FS_AddElement, FS_CardinalityType
  <2> QED  BY <1>2, <2>7
<1> QED  BY <1>1, <1>2

LEMMA Parity == \A c \in Nat : (c + 1) % 2 = 1 <=> c % 2 # 1
  OBVIOUS

\* A backslash counts unless one that counts hides it.
LEMMA CountsStep ==
  ASSUME NEW from \in Nat, NEW i \in Nat, i >= from
  PROVE  Counts(from, i) <=> Char(i) = Backslash /\ ~ Escaped(from, i)
<1>1. \A m : Counts(from, m) <=> Char(m) = Backslash /\ Cardinality(Run(from, m)) % 2 = 1
  BY Zenon DEF Counts, Run
<1>2. CASE Char(i) # Backslash  BY <1>1, <1>2
<1>3. CASE Char(i) = Backslash /\ i = from
  <2>1. Cardinality(Run(from, i)) = 1 /\ 1 % 2 = 1 /\ ~ (i > from)  BY <1>3, RunGrows
  <2> QED  BY <1>1, <1>3, <2>1 DEF Escaped
<1>4. CASE Char(i) = Backslash /\ i > from
  <2>1. PICK c \in Nat : c = Cardinality(Run(from, i - 1)) /\ Cardinality(Run(from, i)) = c + 1
    BY <1>4, RunGrows
  <2>2. Counts(from, i) <=> c % 2 # 1  BY <1>1, <1>4, <2>1, Parity
  <2>3. Escaped(from, i) <=> Char(i - 1) = Backslash /\ c % 2 = 1
    BY <1>1, <1>4, <2>1 DEF Escaped
  <2>4. CASE Char(i - 1) = Backslash  BY <1>4, <2>2, <2>3, <2>4
  <2>5. CASE Char(i - 1) # Backslash
    <3>1. \A j \in from..(i - 1) : i - 1 \in j..(i - 1)  BY <1>4
    <3>2. Run(from, i - 1) = {}  BY <2>5, <3>1 DEF Run
    <3>3. c = 0 /\ 0 % 2 # 1  BY <2>1, <3>2, FS_EmptySet
    <3> QED  BY <1>4, <2>2, <2>3, <3>3
  <2> QED  BY <2>4, <2>5
<1> QED  BY <1>2, <1>3, <1>4

\* The walk goes from characters that are not hidden to such, over hidden ones.
LEMMA BeyondHidden ==
  ASSUME NEW from \in Nat, NEW j \in Nat, j >= from, ~ Escaped(from, j)
  PROVE  /\ ~ Escaped(from, Beyond(j))
         /\ \A i \in Nat : j < i /\ i < Beyond(j) => Escaped(from, i)
<1>1. Counts(from, j) <=> Char(j) = Backslash  BY CountsStep
<1>2. /\ j + 1 \in Nat /\ j + 1 > from /\ (j + 1) - 1 = j /\ j + 1 >= from
      /\ j + 2 > from /\ (j + 2) - 1 = j + 1
  OBVIOUS
<1>3. Escaped(from, j + 1) <=> Counts(from, j)  BY <1>2 DEF Escaped
<1>4. Escaped(from, j + 2) <=> Counts(from, j + 1)  BY <1>2 DEF Escaped
<1>5. Counts(from, j + 1) => ~ Escaped(from, j + 1)  BY <1>2, CountsStep
<1>6. CASE Char(j) = Backslash
  <2>1. Beyond(j) = j + 2  BY <1>6 DEF Beyond
  <2>2. \A i \in Nat : j < i /\ i < j + 2 => i = j + 1  OBVIOUS
  <2> QED  BY <1>1, <1>3, <1>4, <1>5, <1>6, <2>1, <2>2
<1>7. CASE Char(j) # Backslash
  <2>1. Beyond(j) = j + 1  BY <1>7 DEF Beyond
  <2>2. \A i \in Nat : ~ (j < i /\ i < j + 1)  OBVIOUS
  <2> QED  BY <1>1, <1>3, <1>7, <2>1, <2>2
<1> QED  BY <1>6, <1>7

\* An end token that is not hidden.
Closes(from, i, end) == StartsWith(i, end) /\ ~ Escaped(from, i)

Finds(w, from, j, end) ==
  j # End /\ ~ Escaped(from, j) =>
    \/ w[j] = 0 \/ w[j] = End + 1
    \/ /\ w[j] \in j..End /\ Closes(from, w[j], end)
       /\ \A i \in j..End : i < w[j] => ~ Closes(from, i, end)

LEMMA WalkFinds ==
  ASSUME IsText(text), NEW end, NEW from \in 1..End, NEW w, Walks(w, from, end)
  PROVE  \A j \in from..End : Finds(w, from, j, end)
<1> DEFINE T == {n \in Nat : \A j \in from..(End + 1) : j >= (End + 1) - n => Finds(w, from, j, end)}
<1>1. End \in Nat /\ End >= 1 /\ from \in Nat  BY EndFacts
<1>2. \A j \in from..(End + 1) : w[j] = Walked(w, j, end)
  BY Zenon DEF Walks
<1>3. 0 \in T
  <2>1. \A j \in from..(End + 1) : j >= (End + 1) - 0 => j = End + 1 /\ j >= End  BY <1>1
  <2>2. \A j \in from..(End + 1) : j >= End => w[j] = j  BY <1>2 DEF Walked
  <2> QED  BY <2>1, <2>2 DEF Finds
<1>4. ASSUME NEW n \in T  PROVE n + 1 \in T
  <2> SUFFICES ASSUME NEW j \in from..(End + 1), j >= (End + 1) - (n + 1)
               PROVE  Finds(w, from, j, end)
    OBVIOUS
  <2> SUFFICES ASSUME j # End, ~ Escaped(from, j)
               PROVE  \/ w[j] = 0 \/ w[j] = End + 1
                      \/ /\ w[j] \in j..End /\ Closes(from, w[j], end)
                         /\ \A i \in j..End : i < w[j] => ~ Closes(from, i, end)
    BY DEF Finds
  <2>1. \A m \in from..(End + 1) : m >= (End + 1) - n => Finds(w, from, m, end)
    OBVIOUS
  <2>2. CASE j >= End
    BY <1>1, <1>2, <2>2 DEF Walked
  <2>3. CASE j < End /\ StartsWith(j, end)
    <3>1. w[j] = j /\ j \in j..End  BY <1>1, <1>2, <2>3 DEF Walked
    <3>2. \A i \in j..End : ~ (i < j)  BY <1>1
    <3> QED  BY <2>3, <3>1, <3>2 DEF Closes
  <2>4. CASE j < End /\ ~ StartsWith(j, end)
    <3>1. ~ (j >= End) /\ j \in Nat /\ j >= from  BY <1>1, <2>4
    <3>2. w[j] = IF Beyond(j) = End THEN 0 ELSE w[Beyond(j)]
      BY <1>2, <2>4, <3>1 DEF Walked
    <3>3. Beyond(j) \in (j + 1)..(End + 1)  BY <2>4, <3>1, BeyondFacts
    <3>4. PICK m : m = Beyond(j)  OBVIOUS
    <3>5. /\ m \in from..(End + 1) /\ m >= (End + 1) - n /\ m >= j /\ m \in Nat
          /\ \A x : x \in m..End => x \in j..End
      BY <1>1, <3>1, <3>3, <3>4
    <3>6. ~ Escaped(from, m) /\ \A i \in Nat : j < i /\ i < m => Escaped(from, i)
      BY <1>1, <3>1, <3>4, BeyondHidden
    <3>7. CASE m = End  BY <3>2, <3>4, <3>7
    <3>8. CASE m # End
      <4>1. w[j] = w[m]  BY <3>2, <3>4, <3>8
      <4>2. Finds(w, from, m, end)  BY <2>1, <3>5
      <4>3. PICK x : x = w[m]  OBVIOUS
      <4>4. \/ x = 0 \/ x = End + 1
            \/ /\ x \in m..End /\ Closes(from, x, end)
               /\ \A i \in m..End : i < x => ~ Closes(from, i, end)
        BY <3>6, <3>8, <4>2, <4>3 DEF Finds
      <4>5. \A i \in j..End : i = j \/ (i \in Nat /\ j < i /\ i < m) \/ i \in m..End
        BY <1>1, <3>1, <3>5
      <4>6. \A i \in j..End : i < x => i \in m..End \/ ~ Closes(from, i, end)
        BY <2>4, <3>6, <4>5 DEF Closes
      <4> QED  BY <3>5, <4>1, <4>3, <4>4, <4>6
    <3> QED  BY <3>7, <3>8
  <2>5. j >= End \/ j < End  BY <1>1
  <2> QED  BY <2>2, <2>3, <2>4, <2>5
<1> HIDE DEF T
<1>5. T = Nat
  <2>1. T \in SUBSET Nat  BY DEF T
  <2> QED  BY <1>3, <1>4, <2>1, EveryNat
<1>6. End + 1 \in T  BY <1>1, <1>5
<1>7. \A j \in from..End : j \in from..(End + 1) /\ j >= (End + 1) - (End + 1)  BY <1>1
<1> QED  BY <1>6, <1>7 DEF T

\* A string closes at the first end token that is not hidden.
LEMMA CloseIsFirst ==
  ASSUME IsText(text), NEW from \in 1..End, NEW end, NEW to, to = Close(from, end),
         to # 0, to # End + 1
  PROVE  /\ to \in from..End /\ ~ Escaped(from, to)
         /\ \A i \in from..to : i = to <=> Closes(from, i, end)
<1>1. End \in Nat /\ from \in Nat  BY EndFacts
<1>2. from # End  BY DEF Close
<1>3. PICK w : Walks(w, from, end)  BY WalkThere
<1>4. PICK v : Walks(v, from, end) /\ to = v[from]  BY <1>2, <1>3, CloseUnfolds
<1>5. from \in from..End /\ ~ (from > from)  BY <1>1
<1>6. Finds(v, from, from, end) /\ ~ Escaped(from, from)  BY <1>4, <1>5, WalkFinds DEF Escaped
<1>7. /\ to \in from..End /\ Closes(from, to, end)
      /\ \A i \in from..End : i < to => ~ Closes(from, i, end)
  BY <1>2, <1>4, <1>6 DEF Finds
<1>8. \A i \in from..to : i = to \/ (i \in from..End /\ i < to)  BY <1>1, <1>7
<1>9. ~ (to < to)  BY <1>1, <1>7
<1>10. \A i \in from..to : i = to <=> Closes(from, i, end)  BY <1>7, <1>8, <1>9
<1> QED  BY <1>7, <1>10 DEF Closes

-----------------------------------------------------------------------------
(***************************************************************************)
(* What a string stands for.  Both what the code copies and what is to be  *)
(* left are functions that put p[j] in front of what comes from n[j].      *)
(***************************************************************************)
Joined(f, j, to, p, n) == IF j >= to THEN <<>> ELSE p[j] \o f[n[j]]
Joins(f, i, b, to, p, n) == f = [j \in i..b |-> Joined(f, j, to, p, n)]

LEMMA JoinsBegin ==
  ASSUME NEW i \in Nat, NEW b \in Nat, i <= b, NEW to, NEW p, NEW n,
         \A j \in i..b : ~ (j >= to) => n[j] \in (j + 1)..b,
         NEW w, Joins(w, i + 1, b, to, p, n)
  PROVE  \E v : Joins(v, i, b, to, p, n)
<1> DEFINE D == i..b
           E == (i + 1)..b
           v == [j \in D |-> IF j = i THEN Joined(w, i, to, p, n) ELSE w[j]]
<1>1. w = [j \in E |-> Joined(w, j, to, p, n)]  BY DEF Joins
<1>2. \A j \in D : j = i \/ j \in E  OBVIOUS
<1>3. \A j \in E : j \in D /\ j # i  OBVIOUS
<1>4. i \in D  OBVIOUS
<1>5. \A j \in D : ~ (j >= to) => n[j] \in E
  <2> SUFFICES ASSUME NEW j \in D, ~ (j >= to)  PROVE n[j] \in E
    OBVIOUS
  <2>1. PICK m : m = n[j]  OBVIOUS
  <2>2. m \in (j + 1)..b  BY <2>1
  <2>3. j \in Nat /\ j >= i  OBVIOUS
  <2>4. m \in (i + 1)..b  BY <2>2, <2>3
  <2> QED  BY <2>1, <2>4
<1> HIDE DEF D, E
<1>6. \A j \in E : v[j] = w[j]  BY <1>3
<1>7. v[i] = Joined(w, i, to, p, n)  BY <1>4
<1> HIDE DEF v
<1>8. ASSUME NEW j \in D  PROVE Joined(v, j, to, p, n) = Joined(w, j, to, p, n)
  <2>1. CASE j >= to  BY <2>1, Zenon DEF Joined
  <2>2. CASE ~ (j >= to)
    <3>1. v[n[j]] = w[n[j]]  BY <1>5, <1>6, <2>2
    <3> QED  BY <3>1, Zenon DEF Joined
  <2> QED  BY <2>1, <2>2
<1>9. ASSUME NEW j \in D  PROVE v[j] = Joined(v, j, to, p, n)
  <2>1. CASE j = i  BY <1>7, <1>8, <1>4, <2>1
  <2>2. CASE j # i
    <3>1. j \in E  BY <1>2, <2>2
    <3>2. w[j] = Joined(w, j, to, p, n)  BY <1>1, <3>1, Zenon
    <3> QED  BY <1>6, <1>8, <3>1, <3>2
  <2> QED  BY <2>1, <2>2
<1>10. v = [j \in D |-> v[j]]  BY DEF v
<1>11. v = [j \in D |-> Joined(v, j, to, p, n)]  BY <1>9, <1>10, Zenon
<1> QED  BY <1>11 DEF Joins, D

LEMMA JoinsThere ==
  ASSUME NEW i \in Nat, NEW to \in Nat, NEW b \in Nat, i <= to, to <= b, NEW p, NEW n,
         \A j \in i..b : ~ (j >= to) => n[j] \in (j + 1)..b
  PROVE  \E f : Joins(f, i, b, to, p, n)
<1> DEFINE T == {m \in Nat : i <= b - m => \E f : Joins(f, b - m, b, to, p, n)}
<1>1. 0 \in T
  <2> DEFINE w == [j \in b..b |-> <<>>]
  <2>1. \A j \in b..b : j >= to  OBVIOUS
  <2>2. \A j \in b..b : Joined(w, j, to, p, n) = <<>>  BY <2>1, Zenon DEF Joined
  <2>3. Joins(w, b, b, to, p, n)  BY <2>2, Zenon DEF Joins
  <2>4. b - 0 = b  OBVIOUS
  <2> QED  BY <2>3, <2>4
<1>2. ASSUME NEW m \in T  PROVE m + 1 \in T
  <2>1. m \in Nat /\ m + 1 \in Nat  OBVIOUS
  <2> SUFFICES ASSUME i <= b - (m + 1)  PROVE \E f : Joins(f, b - (m + 1), b, to, p, n)
    BY <2>1
  <2>2. PICK k : k = b - (m + 1)  OBVIOUS
  <2>3. k \in Nat /\ k <= b /\ k + 1 = b - m /\ i <= b - m /\ i <= k  BY <2>1, <2>2
  <2>4. PICK w : Joins(w, b - m, b, to, p, n)  BY <2>3
  <2>5. Joins(w, k + 1, b, to, p, n)  BY <2>3, <2>4
  <2>6. \A j \in k..b : j \in i..b  BY <2>3
  <2>7. \A j \in k..b : ~ (j >= to) => n[j] \in (j + 1)..b  BY <2>6
  <2>8. \E v : Joins(v, k, b, to, p, n)  BY <2>3, <2>5, <2>7, JoinsBegin
  <2> QED  BY <2>2, <2>8
<1> HIDE DEF T
<1>3. T = Nat
  <2>1. T \in SUBSET Nat  BY DEF T
  <2> QED  BY <1>1, <1>2, <2>1, EveryNat
<1>4. PICK m : m = b - i  OBVIOUS
<1>5. m \in Nat /\ b - m = i /\ i <= b - m  BY <1>4
<1>6. m \in T  BY <1>3, <1>5
<1> QED  BY <1>5, <1>6 DEF T

\* What the code makes of a string, as a function.
Hides(j, to) == Char(j) = Backslash /\ Char(j + 1) \in {Backslash, Char(to)}
Copied(c, j, to) ==
  IF j >= to THEN <<>>
  ELSE IF Hides(j, to) THEN <<Char(j + 1)>> \o c[j + 2] ELSE <<Char(j)>> \o c[j + 1]

LEMMA SingleUnfolds ==
  ASSUME NEW from \in Nat, NEW to \in Nat, from <= to
  PROVE  \E c : c = [j \in from..to + 1 |-> Copied(c, j, to)] /\ SingleValue(from, to) = c[from]
<1> DEFINE p == [j \in from..to + 1 |-> IF Hides(j, to) THEN <<Char(j + 1)>> ELSE <<Char(j)>>]
           n == [j \in from..to + 1 |-> IF Hides(j, to) THEN j + 2 ELSE j + 1]
           D == from..to + 1
<1>1. ASSUME NEW j \in D, ~ (j >= to)  PROVE n[j] \in (j + 1)..to + 1
  <2>1. n[j] = j + 1 \/ n[j] = j + 2  OBVIOUS
  <2>2. j \in Nat /\ j + 1 \in (j + 1)..to + 1 /\ j + 2 \in (j + 1)..to + 1  BY <1>1
  <2> QED  BY <2>1, <2>2
<1>2. /\ to + 1 \in Nat /\ to <= to + 1 /\ \A j \in D : j \in from..to + 1
  OBVIOUS
<1>3. \A j \in D : p[j] = IF Hides(j, to) THEN <<Char(j + 1)>> ELSE <<Char(j)>>  OBVIOUS
<1>4. \A j \in D : n[j] = IF Hides(j, to) THEN j + 2 ELSE j + 1  OBVIOUS
<1> HIDE DEF p, n
<1>5. PICK f : Joins(f, from, to + 1, to, p, n)  BY <1>1, <1>2, JoinsThere
<1>6. \A j \in D : Joined(f, j, to, p, n) = Copied(f, j, to)
  BY <1>3, <1>4, Zenon DEF Joined, Copied
<1>7. f = [j \in from..to + 1 |-> Copied(f, j, to)]  BY <1>5, <1>6, Zenon DEF Joins
<1> DEFINE c == CHOOSE x : x = [j \in from..to + 1 |-> Copied(x, j, to)]
<1>8. c = [j \in from..to + 1 |-> Copied(c, j, to)]  BY <1>7
<1>9. SingleValue(from, to) = c[from]  BY Zenon DEF SingleValue, Copied, Hides
<1> QED  BY <1>8, <1>9

\* What is to be left of it.
Drops(from, to, j) == Counts(from, j) /\ Char(j + 1) \in {Backslash, Char(to)}
Rest(r, from, j, to) ==
  IF j >= to THEN <<>> ELSE (IF Drops(from, to, j) THEN <<>> ELSE <<Char(j)>>) \o r[j + 1]

LEMMA WrittenUnfolds ==
  ASSUME NEW from \in Nat, NEW to \in Nat, from <= to
  PROVE  \E r : r = [j \in from..to |-> Rest(r, from, j, to)] /\ Written(from, to) = r[from]
<1> DEFINE p == [j \in from..to |-> IF Drops(from, to, j) THEN <<>> ELSE <<Char(j)>>]
           n == [j \in from..to |-> j + 1]
           D == from..to
<1>1. ASSUME NEW j \in D, ~ (j >= to)  PROVE n[j] \in (j + 1)..to
  BY <1>1
<1>2. to <= to /\ \A j \in D : j \in from..to  OBVIOUS
<1>3. \A j \in D : p[j] = IF Drops(from, to, j) THEN <<>> ELSE <<Char(j)>>  OBVIOUS
<1>4. \A j \in D : n[j] = j + 1  OBVIOUS
<1> HIDE DEF p, n
<1>5. PICK f : Joins(f, from, to, to, p, n)  BY <1>1, <1>2, JoinsThere
<1>6. \A j \in D : Joined(f, j, to, p, n) = Rest(f, from, j, to)
  BY <1>3, <1>4, Zenon DEF Joined, Rest
<1>7. f = [j \in from..to |-> Rest(f, from, j, to)]  BY <1>5, <1>6, Zenon DEF Joins
<1> DEFINE r == CHOOSE x : x = [j \in from..to |-> Rest(x, from, j, to)]
<1>8. r = [j \in from..to |-> Rest(r, from, j, to)]  BY <1>7
<1>9. Written(from, to) = r[from]  BY Zenon DEF Written, Rest, Drops
<1> QED  BY <1>8, <1>9

\* In single quotes a string stands for its characters but the backslashes that
\* hide one: where the code copies two at a time the first is one of those.
LEMMA SameString ==
  ASSUME NEW from \in Nat, NEW to \in Nat, from <= to, ~ Escaped(from, to)
  PROVE  SingleValue(from, to) = Written(from, to)
<1>1. PICK c : c = [j \in from..to + 1 |-> Copied(c, j, to)] /\ SingleValue(from, to) = c[from]
  BY SingleUnfolds
<1>2. PICK r : r = [j \in from..to |-> Rest(r, from, j, to)] /\ Written(from, to) = r[from]
  BY WrittenUnfolds
<1>3. \A j \in from..to + 1 : c[j] = Copied(c, j, to)  BY <1>1, Zenon
<1>4. \A j \in from..to : r[j] = Rest(r, from, j, to)  BY <1>2, Zenon
<1> DEFINE Seen(j) == Char(j) = Backslash => ~ Escaped(from, j)
           S == {Char(j) : j \in Nat}
           T == {n \in Nat : \A j \in from..to : j >= to - n => r[j] \in Seq(S) /\ (Seen(j) => c[j] = r[j])}
<1>5. \A j \in Nat : <<Char(j)>> \in Seq(S)
  <2>1. \A j \in Nat : Char(j) \in S  OBVIOUS
  <2> HIDE DEF S
  <2> QED  BY <2>1
<1> HIDE DEF S
<1>6. /\ <<>> \in Seq(S) /\ \A q \in Seq(S) : <<>> \o q = q
      /\ \A p, q \in Seq(S) : p \o q \in Seq(S)
  BY EmptySeq, ConcatProperties
<1>7. 0 \in T
  <2> SUFFICES ASSUME NEW j \in from..to, j >= to - 0  PROVE r[j] \in Seq(S) /\ c[j] = r[j]
    OBVIOUS
  <2>1. j >= to /\ j \in from..to + 1  OBVIOUS
  <2>2. c[j] = <<>>  BY <1>3, <2>1 DEF Copied
  <2>3. r[j] = <<>>  BY <1>4, <2>1 DEF Rest
  <2> QED  BY <1>6, <2>2, <2>3
<1>8. ASSUME NEW n \in T  PROVE n + 1 \in T
  <2> SUFFICES ASSUME NEW j \in from..to, j >= to - (n + 1)
               PROVE  r[j] \in Seq(S) /\ (Seen(j) => c[j] = r[j])
    OBVIOUS
  <2>1. \A m \in from..to : m >= to - n => r[m] \in Seq(S) /\ (Seen(m) => c[m] = r[m])
    OBVIOUS
  <2> HIDE DEF T
  <2>2. CASE j >= to
    <3>1. j \in from..to + 1  OBVIOUS
    <3>2. c[j] = <<>>  BY <1>3, <2>2, <3>1 DEF Copied
    <3>3. r[j] = <<>>  BY <1>4, <2>2 DEF Rest
    <3> QED  BY <1>6, <3>2, <3>3
  <2>3. CASE ~ (j >= to)
    <3>1. n \in Nat  BY DEF T
    <3>2. /\ j \in Nat /\ j >= from /\ j < to /\ j \in from..to + 1
          /\ j + 1 \in Nat /\ j + 1 \in from..to /\ j + 1 >= to - n /\ j + 1 >= from
          /\ j + 1 > from /\ (j + 1) - 1 = j /\ (j + 1) + 1 = j + 2
      BY <2>3, <3>1
    <3>3. Escaped(from, j + 1) <=> Counts(from, j)  BY <3>2 DEF Escaped
    <3>4. r[j] = (IF Drops(from, to, j) THEN <<>> ELSE <<Char(j)>>) \o r[j + 1]
      BY <1>4, <2>3, Zenon DEF Rest
    <3>5. r[j + 1] \in Seq(S)  BY <2>1, <3>2
    <3>6. r[j] \in Seq(S)
      <4>1. CASE Drops(from, to, j)  BY <1>6, <3>4, <3>5, <4>1
      <4>2. CASE ~ Drops(from, to, j)  BY <1>5, <1>6, <3>2, <3>4, <3>5, <4>2
      <4> QED  BY <4>1, <4>2
    <3> SUFFICES ASSUME Seen(j)  PROVE c[j] = r[j]
      BY <3>6
    <3>7. Counts(from, j) <=> Char(j) = Backslash  BY <3>2, CountsStep
    <3>8. Drops(from, to, j) <=> Hides(j, to)  BY <3>7, Zenon DEF Drops, Hides
    <3>9. CASE Hides(j, to)
      <4>1. c[j] = <<Char(j + 1)>> \o c[j + 2]  BY <1>3, <2>3, <3>2, <3>9, Zenon DEF Copied
      <4>2. Escaped(from, j + 1)  BY <3>3, <3>7, <3>9 DEF Hides
      <4>3. j + 1 # to /\ ~ (j + 1 >= to)  BY <3>2, <4>2
      <4>4. /\ j + 2 \in from..to /\ j + 2 >= to - n /\ j + 2 > from /\ (j + 2) - 1 = j + 1
        <5>1. j + 1 < to /\ j + 2 \in Nat  BY <3>2, <4>3
        <5> QED  BY <3>1, <3>2, <5>1
      <4>5. ~ Counts(from, j + 1)  BY <3>2, <4>2, CountsStep
      <4>6. Seen(j + 2)  BY <4>4, <4>5 DEF Escaped
      <4>7. c[j + 2] = r[j + 2]  BY <2>1, <4>4, <4>6
      <4>8. r[j + 1] = <<Char(j + 1)>> \o r[j + 2]
        <5>1. r[j + 1] = Rest(r, from, j + 1, to)  BY <1>4, <3>2
        <5>2. ~ Drops(from, to, j + 1)  BY <4>5 DEF Drops
        <5>3. r[j + 1] = <<Char(j + 1)>> \o r[(j + 1) + 1]  BY <4>3, <5>1, <5>2, Zenon DEF Rest
        <5> QED  BY <3>2, <5>3
      <4>9. r[j] = <<>> \o r[j + 1]  BY <3>8, <3>4, <3>9
      <4> QED  BY <1>6, <3>5, <4>1, <4>7, <4>8, <4>9
    <3>10. CASE ~ Hides(j, to)
      <4>1. c[j] = <<Char(j)>> \o c[j + 1]  BY <1>3, <2>3, <3>2, <3>10, Zenon DEF Copied
      <4>2. Seen(j + 1)  BY <3>3, <3>7, <3>10 DEF Hides
      <4>3. c[j + 1] = r[j + 1]  BY <2>1, <3>2, <4>2
      <4> QED  BY <3>8, <3>4, <3>10, <4>1, <4>3
    <3> QED  BY <3>9, <3>10
  <2> QED  BY <2>2, <2>3
<1> HIDE DEF T
<1>9. T = Nat
  <2>1. T \in SUBSET Nat  BY DEF T
  <2> QED  BY <1>7, <1>8, <2>1, EveryNat
<1>10. to \in T  BY <1>9
<1>11. from \in from..to /\ from >= to - to /\ ~ (from > from)  OBVIOUS
<1>12. Seen(from)  BY <1>11 DEF Escaped
<1>13. c[from] = r[from]  BY <1>10, <1>11, <1>12 DEF T
<1> QED  BY <1>1, <1>2, <1>13

-----------------------------------------------------------------------------
(***************************************************************************)
(* The fragments of strings.                                               *)
(***************************************************************************)
LEMMA SameChars ==
  ASSUME text' = text, NEW i
  PROVE  /\ Char(i)' = Char(i)
         /\ \A s : StartsWith(i, s)' <=> StartsWith(i, s)
         /\ \A from : Counts(from, i)' <=> Counts(from, i)
         /\ \A from, s : Closes(from, i, s)' <=> Closes(from, i, s)
<1>1. \A j : Char(j)' = Char(j)  BY DEF Char, End
<1>2. \A j, s : StartsWith(j, s)' <=> StartsWith(j, s)  BY DEF StartsWith, End
<1>3. \A from, j : Run(from, j)' = Run(from, j)  BY <1>1 DEF Run
<1>4. \A from, j : Counts(from, j) <=> Char(j) = Backslash /\ Cardinality(Run(from, j)) % 2 = 1
  BY Zenon DEF Counts, Run
<1>5. \A from, j : Counts(from, j)' <=> Char(j)' = Backslash /\ Cardinality(Run(from, j)') % 2 = 1
  BY Zenon DEF Counts, Run
<1>6. \A from, j : Counts(from, j)' <=> Counts(from, j)  BY <1>1, <1>3, <1>4, <1>5
<1>7. \A from, s, j : Closes(from, j, s)' <=> Closes(from, j, s)
  BY <1>2, <1>6 DEF Closes, Escaped
<1> QED  BY <1>1, <1>2, <1>6, <1>7

LEMMA SameWritten ==
  ASSUME text' = text, NEW a, NEW b
  PROVE  Written(a, b)' = Written(a, b)
  BY DEF Written, Counts, Char, End

\* What StringsAsWritten says of a fragment.
Right(f) ==
  /\ \A o \in QuotedBy(f, "squote") \union QuotedBy(f, "dquote") :
       \A i \in StringFrom(f, o)..StringTo(f, o) :
         i = StringTo(f, o) <=> Closes(StringFrom(f, o), i, o.end)
  /\ \A o \in QuotedBy(f, "squote") : f.value = Written(StringFrom(f, o), StringTo(f, o))

AllRight(fs) == \A k \in 1..Len(fs) : Right(fs[k])

LEMMA SameRight ==
  ASSUME text' = text, NEW fs, AllRight(fs), fragments' = fs
  PROVE  AllRight(fragments)'
<1>1. ASSUME NEW f  PROVE Right(f)' <=> Right(f)
  <2>1. \A a, i, s : Closes(a, i, s)' <=> Closes(a, i, s)  BY SameChars
  <2>2. \A a, b : Written(a, b)' = Written(a, b)  BY SameWritten
  <2> QED  BY <2>1, <2>2 DEF Right
<1> QED  BY <1>1 DEF AllRight

LEMMA RightGrows ==
  ASSUME NEW fs, IsSeq(fs), AllRight(fs), NEW f, Right(f)
  PROVE  AllRight(fs \o <<f>>)
<1> DEFINE gs == fs \o <<f>>
<1>1. /\ Len(fs) \in Nat /\ Len(gs) = Len(fs) + 1 /\ gs[Len(fs) + 1] = f
      /\ \A k \in 1..Len(fs) : gs[k] = fs[k]
  BY SeqAppended
<1> HIDE DEF gs
<1>2. \A k \in 1..(Len(fs) + 1) : k \in 1..Len(fs) \/ k = Len(fs) + 1  BY <1>1
<1>3. AllRight(gs)  BY <1>1, <1>2, Zenon DEF AllRight
<1> QED  BY <1>3 DEF gs

\* A type that is not the element of a string.
Plain(type) == \A o \in Operators : o.kind \in {"squote", "dquote"} => o.name # type

LEMMA PlainAre ==
  /\ \A type \in {"text", "space", "comment", "tag_start", "tag_end", "integer", "number", "word", "eof"} :
       Plain(type)
  /\ \A kind \in {"symbol", "comment", "fragment"} : \A o \in Operator(kind) : Plain(o.name)
<1>1. \A o \in Operators : /\ o.name \notin {"text", "tag_start", "tag_end", "eof"}
                           /\ o.kind \in {"squote", "dquote"} =>
                                o.name \notin {"space", "comment", "integer", "number", "word"}
  BY ScannerAssumption
<1>2. \A kind : \A o \in Operator(kind) : o \in Operators /\ o.kind = kind  BY DEF Operator, Match
<1>3. ASSUME NEW kind \in {"symbol", "comment", "fragment"}, NEW o \in Operator(kind)
      PROVE  Plain(o.name)
  <2>1. o \in Operators /\ o.kind \notin {"squote", "dquote"}  BY <1>2, <1>3
  <2>2. \A p \in Operators : p.kind \in {"squote", "dquote"} /\ p.name = o.name => o = p
    BY <2>1, ScannerAssumption
  <2> QED  BY <2>1, <2>2 DEF Plain
<1> QED  BY <1>1, <1>3, Zenon DEF Plain

LEMMA PlainRight ==
  ASSUME NEW type, Plain(type), NEW from, NEW pos, NEW to, NEW value
  PROVE  Right(Fragment(type, from, pos, to, value))
<1>1. PICK f : f = Fragment(type, from, pos, to, value)  OBVIOUS
<1>2. f.type = type  BY <1>1 DEF Fragment
<1>3. QuotedBy(f, "squote") = {} /\ QuotedBy(f, "dquote") = {}  BY <1>2 DEF QuotedBy, Plain
<1> QED  BY <1>1, <1>3 DEF Right

\* The fragment that the scanner of a string adds.
LEMMA QuotedRight ==
  ASSUME IsText(text), src \in 1..End, NEW kind \in {"squote", "dquote"}, NEW o \in Operator(kind),
         NEW from, from = src + Len(o.start), NEW to, to = Close(from, o.end), to # 0, to # End + 1,
         NEW pos
  PROVE  Right(Fragment(o.name, src, pos, to + Len(o.end), StringValue(kind, from, to)))
<1>1. PICK f : f = Fragment(o.name, src, pos, to + Len(o.end), StringValue(kind, from, to))
  OBVIOUS
<1>2. /\ o \in Match(Operators, src) /\ o \in Operators /\ o.kind = kind
  BY DEF Operator, Match
<1>3. from \in src..End /\ Len(o.start) \in Nat /\ End \in Nat  BY <1>2, MatchFacts, EndFacts
<1>4. IsText(o.end) /\ \A p \in Operators : p.name = o.name => p = o  BY <1>2, ScannerAssumption
<1>5. Len(o.end) \in Nat /\ from \in 1..End /\ from \in Nat  BY <1>3, <1>4, TextLength
<1>6. /\ to \in from..End /\ ~ Escaped(from, to)
      /\ \A i \in from..to : i = to <=> Closes(from, i, o.end)
  BY <1>5, CloseIsFirst
<1>7. to \in Nat /\ from <= to  BY <1>3, <1>5, <1>6
<1>8. SingleValue(from, to) = Written(from, to)  BY <1>5, <1>6, <1>7, SameString
<1>9. PICK n \in Nat : n = Len(o.end)  BY <1>5
<1>10. /\ f.type = o.name /\ f.from = src /\ f.value = StringValue(kind, from, to)
       /\ f.length = (to + n) - src
  BY <1>1, <1>9 DEF Fragment
<1>11. StringFrom(f, o) = from  BY <1>10 DEF StringFrom
<1>12. StringTo(f, o) = to
  <2>1. StringTo(f, o) = f.from + (f.length - n)  BY <1>9 DEF StringTo
  <2>2. StringTo(f, o) = src + (((to + n) - src) - n)  BY <1>10, <2>1
  <2> QED  BY <1>3, <1>7, <2>2
<1>13. \A p : p \in QuotedBy(f, "squote") \union QuotedBy(f, "dquote") => p = o
  BY <1>4, <1>10 DEF QuotedBy
<1>14. \A p \in QuotedBy(f, "squote") : p = o /\ kind = "squote"
  BY <1>2, <1>13 DEF QuotedBy
<1>15. kind = "squote" => f.value = Written(from, to)  BY <1>8, <1>10 DEF StringValue
<1>16. Right(f)  BY <1>6, <1>11, <1>12, <1>13, <1>14, <1>15, Zenon DEF Right
<1> QED  BY <1>1, <1>16

\* What a step does to the fragments, if it does not scan a string: it adds none, or one that
\* is not a string's, which may come behind text.
AddsNone == UNCHANGED <<text, fragments>>
AddsToken == text' = text /\ \E type : Plain(type) /\ \E to, value : ScannedTo(type, to, value)
AddsTag ==
  /\ text' = text
  /\ \E type : /\ Plain(type)
               /\ \E pos, to : fragments' = (fragments \o TextBefore)
                                              \o <<Fragment(type, src, pos, to, <<>>)>>

LEMMA StepsAdd ==
  ASSUME [Next]_vars
  PROVE  AddsNone \/ AddsToken \/ AddsTag \/ Quoted
<1>1. \A how : Leave(how) => AddsNone  BY DEF Leave, AddsNone
<1>2. \A type, to : Plain(type) /\ TagScannedTo(type, to) /\ text' = text => AddsTag
  BY Zenon DEF TagScannedTo, AddsTag
<1>3. \A type, to, value : Plain(type) /\ ScannedTo(type, to, value) /\ text' = text => AddsToken
  BY Zenon DEF AddsToken
<1>4. /\ Plain("text") /\ Plain("space") /\ Plain("comment") /\ Plain("tag_start")
      /\ Plain("tag_end") /\ Plain("integer") /\ Plain("number") /\ Plain("word") /\ Plain("eof")
  BY PlainAre
<1>5. CASE OutlineTag  BY <1>2, <1>4, <1>5, Zenon DEF OutlineTag
<1>6. CASE NoOutlineTag \/ NewLine \/ PlainText
  BY <1>6 DEF NoOutlineTag, NewLine, PlainText, AddsNone
<1>7. CASE InlineTag  BY <1>2, <1>4, <1>7, Zenon DEF InlineTag
<1>8. CASE CommentTag  BY <1>1, <1>2, <1>4, <1>8, Zenon DEF CommentTag
<1>9. CASE ControlTag  BY <1>1, <1>9 DEF ControlTag
<1>10. CASE EndOfText  BY <1>4, <1>10, Zenon DEF EndOfText, AddsTag
<1>11. CASE Space  BY <1>3, <1>4, <1>11, Zenon DEF Space
<1>12. CASE InlineEnd \/ OutlineEnd
  BY <1>3, <1>4, <1>12, Zenon DEF InlineEnd, OutlineEnd, LeaveTag
<1>13. CASE SourceEnd
  <2>1. CASE at = "inline"  BY <1>1, <1>13, <2>1 DEF SourceEnd
  <2>2. CASE at = "outline"  BY <1>3, <1>4, <1>13, <2>2 DEF SourceEnd, LeaveTag
  <2>3. CASE at = "plain"  BY <1>3, <1>4, <1>13, <2>3 DEF SourceEnd
  <2> QED  BY <1>13, <2>1, <2>2, <2>3 DEF SourceEnd
<1>14. CASE Number  BY <1>1, <1>3, <1>4, <1>14, Zenon DEF Number
<1>15. CASE Symbol  BY <1>3, <1>15, PlainAre, Zenon DEF Symbol
<1>16. CASE Word  BY <1>3, <1>4, <1>16, Zenon DEF Word
<1>17. CASE Unexpected  BY <1>1, <1>17 DEF Unexpected
<1>18. CASE Comment  BY <1>1, <1>3, <1>18, PlainAre, Zenon DEF Comment
<1>19. CASE NamedFragment  BY <1>1, <1>3, <1>19, PlainAre, Zenon DEF NamedFragment
<1>20. CASE Returned \/ UNCHANGED vars  BY <1>20 DEF Returned, vars, AddsNone
<1> QED
  BY <1>5, <1>6, <1>7, <1>8, <1>9, <1>10, <1>11, <1>12, <1>13, <1>14, <1>15, <1>16, <1>17,
     <1>18, <1>19, <1>20 DEF Next

LEMMA AddedRight ==
  ASSUME text' = text, NEW fs, IsSeq(fs), AllRight(fs), NEW f, Right(f), fragments' = fs \o <<f>>
  PROVE  AllRight(fragments)'
<1>1. PICK gs : gs = fs \o <<f>>  OBVIOUS
<1>2. AllRight(gs)  BY <1>1, RightGrows
<1> QED  BY <1>1, <1>2, SameRight

LEMMA TokenRight ==
  ASSUME ScanInv, AllRight(fragments), text' = text, NEW type, NEW to, NEW value,
         ScannedTo(type, to, value), Right(Fragment(type, scantok, scanpos, to, value))
  PROVE  AllRight(fragments)'
<1>1. IsSeq(fragments)  BY PlaceFacts
<1>2. PICK f : f = Fragment(type, scantok, scanpos, to, value)  OBVIOUS
<1>3. PICK fs : fs = fragments  OBVIOUS
<1>4. fragments' = fs \o <<f>>  BY <1>1, <1>2, <1>3, SeqAppended DEF ScannedTo
<1> QED  BY <1>1, <1>2, <1>3, <1>4, AddedRight

LEMMA QuotedKeepsRight ==
  ASSUME ScanInv, AllRight(fragments), Quoted
  PROVE  AllRight(fragments)'
<1>1. InTag  BY DEF Quoted
<1>2. IsText(text) /\ src \in 1..End /\ scantok = src  BY <1>1, PlaceFacts DEF InTag, ScanInv, Placed
<1>3. PICK kind \in {"squote", "dquote"} : \E o \in Operator(kind) :
        LET from == src + Len(o.start)
            to == Close(from, o.end)
        IN  CASE to = 0 -> Leave("error")
              [] to = End + 1 -> Leave("error") \/ Leave("beyond")
              [] OTHER -> /\ ScannedTo(o.name, to + Len(o.end), StringValue(kind, from, to))
                          /\ UNCHANGED <<text, at, scantags>>
  BY DEF Quoted
<1>4. PICK o \in Operator(kind) :
        LET from == src + Len(o.start)
            to == Close(from, o.end)
        IN  CASE to = 0 -> Leave("error")
              [] to = End + 1 -> Leave("error") \/ Leave("beyond")
              [] OTHER -> /\ ScannedTo(o.name, to + Len(o.end), StringValue(kind, from, to))
                          /\ UNCHANGED <<text, at, scantags>>
  BY <1>3
<1>5. PICK from : from = src + Len(o.start)  OBVIOUS
<1>6. PICK to : to = Close(from, o.end)  OBVIOUS
<1>7. \/ to = 0 /\ Leave("error")
      \/ to = End + 1 /\ (Leave("error") \/ Leave("beyond"))
      \/ /\ to # 0 /\ to # End + 1
         /\ ScannedTo(o.name, to + Len(o.end), StringValue(kind, from, to))
         /\ UNCHANGED <<text, at, scantags>>
  BY <1>4, <1>5, <1>6, Zenon
<1>8. CASE Leave("error") \/ Leave("beyond")
  <2>1. PICK fs : fs = fragments  OBVIOUS
  <2> QED  BY <1>8, <2>1, SameRight DEF Leave
<1>9. CASE /\ to # 0 /\ to # End + 1
           /\ ScannedTo(o.name, to + Len(o.end), StringValue(kind, from, to))
           /\ UNCHANGED <<text, at, scantags>>
  <2>1. PICK b, v : b = to + Len(o.end) /\ v = StringValue(kind, from, to)  OBVIOUS
  <2>2. Right(Fragment(o.name, src, scanpos, to + Len(o.end), StringValue(kind, from, to)))
    BY <1>2, <1>5, <1>6, <1>9, QuotedRight
  <2>3. Right(Fragment(o.name, scantok, scanpos, b, v)) /\ ScannedTo(o.name, b, v) /\ text' = text
    BY <1>2, <1>9, <2>1, <2>2
  <2> QED  BY <2>3, TokenRight
<1> QED  BY <1>7, <1>8, <1>9

LEMMA RightNext == ScanInv /\ AllRight(fragments) /\ [Next]_vars => AllRight(fragments)'
<1> SUFFICES ASSUME ScanInv, AllRight(fragments), [Next]_vars  PROVE AllRight(fragments)'
  OBVIOUS
<1>1. CASE AddsNone
  <2>1. PICK fs : fs = fragments  OBVIOUS
  <2> QED  BY <1>1, <2>1, SameRight DEF AddsNone
<1>2. CASE AddsToken
  <2>1. PICK type, to, value : Plain(type) /\ ScannedTo(type, to, value)  BY <1>2 DEF AddsToken
  <2>2. Right(Fragment(type, scantok, scanpos, to, value))  BY <2>1, PlainRight
  <2> QED  BY <1>2, <2>1, <2>2, TokenRight DEF AddsToken
<1>3. CASE AddsTag
  <2>1. PICK type, pos, to :
          /\ Plain(type)
          /\ fragments' = (fragments \o TextBefore) \o <<Fragment(type, src, pos, to, <<>>)>>
    BY <1>3 DEF AddsTag
  <2>2. PICK f : f = Fragment(type, src, pos, to, <<>>)  OBVIOUS
  <2>3. PICK fs : fs = fragments \o TextBefore  OBVIOUS
  <2>4. IsSeq(fs) /\ AllRight(fs)
    <3>1. IsSeq(fragments)  BY PlaceFacts
    <3>2. CASE src > scantok
      <4>1. PICK g : g = Fragment("text", scantok, scanpos, src, <<>>)  OBVIOUS
      <4>2. Right(g)  BY <4>1, PlainAre, PlainRight
      <4>3. fs = fragments \o <<g>>  BY <2>3, <3>2, <4>1 DEF TextBefore
      <4> QED  BY <3>1, <4>2, <4>3, RightGrows, SeqAppended
    <3>3. CASE ~ (src > scantok)
      <4>1. fs = fragments  BY <2>3, <3>1, <3>3, SeqEmpty DEF TextBefore
      <4> QED  BY <3>1, <4>1
    <3> QED  BY <3>2, <3>3
  <2>5. Right(f)  BY <2>1, <2>2, PlainRight
  <2>6. fragments' = fs \o <<f>> /\ text' = text  BY <1>3, <2>1, <2>2, <2>3 DEF AddsTag
  <2> QED  BY <2>4, <2>5, <2>6, AddedRight
<1>4. CASE Quoted  BY <1>4, QuotedKeepsRight
<1> QED  BY <1>1, <1>2, <1>3, <1>4, StepsAdd

\* A string ends at the first end token that no backslash hides, and in single quotes it
\* stands for its characters but the backslashes that hide one, for any text and any tokens
\* of strings: the loop of hemp_element_squote_scanner() that looks for the end and the one
\* that copies what it found take the same characters together.
THEOREM StringsKept == Spec => []StringsAsWritten
<1>1. Init => AllRight(fragments)
  <2>1. Len(<<>>) = 0 /\ \A k \in 1..0 : FALSE  BY SeqEmpty
  <2> QED  BY <2>1 DEF Init, AllRight
<1>2. AllRight(fragments) => StringsAsWritten
  BY Zenon DEF AllRight, Right, Closes, StringsAsWritten
<1> QED  BY <1>1, <1>2, InitInv, NextInv, RightNext, PTL DEF Spec
=============================================================================
