------------------------------- MODULE Testing ------------------------------
(***************************************************************************)
(* Test scripts: hemp_test_expect_text() (library/test.c) cuts a script    *)
(* into tests, renders the source of each as a document and compares the   *)
(* output, or the error, with what the script expects.                     *)
(*                                                                         *)
(* A script is a string in which every marker ("-- test" and the others)   *)
(* is one character.                                                       *)
(***************************************************************************)
EXTENDS TestPlan, Rendering

CONSTANTS
  Start, Stop, Test, Expect, Error,  \* the markers
  Digit                              \* a digit

VARIABLES
  script,  \* the script, as it was read
  items,   \* the list of the tests: what follows each marker
  n,       \* the tests of the list that were taken
  taken,   \* for each of them, what became of it
  state    \* "idle", "running", "fatal", or "undefined" when memory is read that is not the program's

testVars == <<script, items, n, taken, state>>

Markers == {Start, Stop, Test, Expect, Error}

-----------------------------------------------------------------------------
\* The part of a script that is used: from the line behind the first start marker, to the
\* first stop marker of the whole text, where a NUL is written.
Begin(text) ==
  LET start == Find(text, Start, 1) IN IF start = 0 THEN 1 ELSE ToNextLine(text, start)
Used(text) ==
  LET stop == Find(text, Stop, 1)
  IN IF stop = 0 \/ stop < Begin(text) THEN From(text, Begin(text))
     ELSE From(Until(text, stop), Begin(text))

\* The tests: what is between the markers, without what is before the first.
Items(text) == Tail(Split(Used(text), Test))

\* What follows a marker, from the next line on.
Block(text, marker) == From(text, ToNextLine(text, marker + 1))

\* One item: the name is the first line that is not blank, which is looked for the end of
\* without a look at the NUL; the source begins with the next line that is not empty.
NameAt(item) == IF NextNonspace(item, 1) = 0 THEN Len(item) + 1 ELSE NextNonspace(item, 1)
NameEnd(item) == SelectInSubSeq(item, NameAt(item) + 1, Len(item), IsBreak)
Body(item) ==
  LET at == SelectInSubSeq(item, NameEnd(item), Len(item), LAMBDA c : ~IsBreak(c))
  IN IF at = 0 THEN <<>> ELSE From(item, at)

\* Mutant: an error block behind an expect block is not looked for.
CutFirst(body) ==
  LET x == Find(body, Expect, 1)
      test == IF x = 0 THEN body ELSE Until(body, x)
      e == Find(test, Error, 1)
  IN [source |-> Chomp(IF e = 0 THEN test ELSE Until(test, e)),
      expect |-> IF x = 0 THEN <<>> ELSE <<Block(body, x)>>,
      error |-> IF e = 0 THEN <<>> ELSE <<Block(test, e)>>]

\* The source and the two blocks, in either order; a block there is not is NULL, <<>>.
Cut(body) ==
  LET x == Find(body, Expect, 1)
      test == IF x = 0 THEN body ELSE Until(body, x)
      expect == Block(body, x)
      e == Find(test, Error, 1)
      late == IF e = 0 /\ x # 0 THEN Find(expect, Error, 1) ELSE 0
  IN [source |-> Chomp(IF e = 0 THEN test ELSE Until(test, e)),
      expect |-> IF x = 0 THEN <<>> ELSE <<IF late = 0 THEN expect ELSE Until(expect, late)>>,
      error |-> IF e # 0 THEN <<Block(test, e)>>
                ELSE IF late # 0 THEN <<Block(expect, late)>> ELSE <<>>]

BadName(item) ==
  \A i \in NameAt(item)..(NameEnd(item) - 1) : item[i] = Digit \/ IsSpace(item[i])

\* What becomes of a test.  Without a source the document has no root element; the text of
\* an output without a character has no string, which hemp_string_chomp() reads.  A name
\* of digits is refused where nothing is added to it, which is for an output that matches.
Outcome(item) ==
  LET test == Cut(Body(item))
      pass == Chomp(Output(test.source)) = Chomp(test.expect[1])
  IN CASE NameEnd(item) = 0 -> "undefined"
       [] Dies(test.source) -> "fatal"
       [] Fails(test.source) -> IF test.error # <<>> /\ Chomp(Message) = Chomp(test.error[1])
                                THEN "pass" ELSE "fail"
       [] test.expect = <<>> -> IF test.error = <<>> THEN "none" ELSE "fail"
       [] Output(test.source) = <<>> -> "undefined"
       [] pass /\ BadName(item) -> "fatal"
       [] OTHER -> IF pass THEN "pass" ELSE "fail"

-----------------------------------------------------------------------------
\* hemp_test_expect_text() until the plan is made.
RunScript(text) ==
  /\ state = "idle"
  /\ script' = text
  /\ n' = 0
  /\ taken' = <<>>
  /\ IF Find(Used(text), Test, 1) = 0
     THEN state' = "fatal" /\ items' = <<>> /\ UNCHANGED planVars
     ELSE state' = "running" /\ items' = Items(text) /\ PlanTests(Len(items'))

\* One turn of its loop: an output without an expectation reports nothing.
RunTest ==
  LET outcome == Outcome(items[n + 1])
  IN /\ state = "running"
     /\ n < Len(items)
     /\ n' = n + 1
     /\ taken' = Append(taken, outcome)
     /\ IF outcome \in {"pass", "fail"} THEN Result(outcome = "pass") ELSE UNCHANGED planVars
     /\ state' = IF outcome \in {"fatal", "undefined"} THEN outcome ELSE state
     /\ UNCHANGED <<script, items>>

\* Its end.
EndScript ==
  /\ state = "running"
  /\ n = Len(items)
  /\ Done
  /\ state' = "idle"
  /\ UNCHANGED <<script, items, n, taken>>

\* A program that has no script reports its tests one by one.
RunProgram ==
  /\ state = "idle"
  /\ PlanNext
  /\ UNCHANGED testVars

TestingInit ==
  /\ PlanInit
  /\ script = <<>>
  /\ items = <<>>
  /\ n = 0
  /\ taken = <<>>
  /\ state = "idle"

Ended == state = "idle" /\ plan = NoPlan /\ Len(taken) = Len(items)

-----------------------------------------------------------------------------
\* A script the way tests/scripts/README tells it, line by line: a test begins with a line
\* that is marked, and a block goes on to the next line with a marker.
Lines(text) == Split(text, LF)
Marked(lines, kinds) == {i \in 1..Len(lines) : lines[i] # <<>> /\ lines[i][1] \in kinds}

\* The tests that count: behind the start marker, before the stop marker.
TestLines(lines) ==
  SelectSeq([i \in 1..Len(lines) |-> i],
            LAMBDA i : /\ i \in Marked(lines, {Test})
                       /\ \A start \in Marked(lines, {Start}) : start < i
                       /\ \A stop \in Marked(lines, {Stop}) : i < stop)

\* The lines from one on to the next one that is of a kind.
NextOf(lines, i, kinds) == Min({j \in Marked(lines, kinds) : j > i} \union {Len(lines) + 1})
BlockOf(lines, i) ==
  FlattenSeq([j \in 1..(NextOf(lines, i, Markers) - i - 1) |-> Append(lines[i + j], LF)])
BlocksOf(lines, i, kind) ==
  {BlockOf(lines, j) : j \in Marked(lines, {kind}) \intersect (i..(NextOf(lines, i, {Test, Stop}) - 1))}

Same(s, t) == Chomp(s) = Chomp(t)

\* A test passes when it renders to what it expects, or fails with the error it expects.
Passes(lines, i) ==
  IF Fails(BlockOf(lines, i)) THEN \E b \in BlocksOf(lines, i, Error) : Same(b, Message)
  ELSE \E b \in BlocksOf(lines, i, Expect) : Same(b, Output(Trim(BlockOf(lines, i))))

\* One start at most, and nothing stops before it.
Framed(lines) ==
  /\ Cardinality(Marked(lines, {Start})) < 2
  /\ \A i \in Marked(lines, {Start}), j \in Marked(lines, {Stop}) : i < j

\* The type invariant.
TestingTypeOK ==
  /\ PlanTypeOK
  /\ n \in 0..Len(items)
  /\ Len(taken) = n
  /\ state \in {"idle", "running", "fatal", "undefined"}

\* The tests that a script runs are those it is written to have, each of them passes exactly
\* when it does what the script expects of it, and a script whose tests all expect
\* something ends with zero exactly when all of them passed: markers cut the text with NULs
\* in an order of their own, and the list, the plan and the results are counted apart
\* (hemp_test_expect_text()).
TestsAsWritten ==
  LET lines == Lines(script)
      at == TestLines(lines)
  IN Ended /\ script # <<>> /\ Framed(lines) =>
       /\ Len(taken) = Len(at)
       /\ \A k \in 1..Len(at) : (taken[k] = "pass") = Passes(lines, at[k])
       /\ (\A k \in 1..Len(at) : taken[k] # "none") =>
            (ended.result = 0 <=> \A k \in 1..Len(at) : Passes(lines, at[k]))

\* Departure: a test that expects nothing is to assert that its document renders
\* (tests/scripts/README); nothing is reported for it, and the plan counts it as not run.
RenderingPasses ==
  Ended /\ script # <<>> /\ (\A k \in 1..Len(taken) : taken[k] \in {"pass", "none"}) =>
    ended.result = 0

\* Departure: the leading white space of an expect block is to be removed as well
\* (tests/scripts/README).
BlocksAreTrimmed ==
  LET lines == Lines(script)
      at == TestLines(lines)
  IN Ended /\ Framed(lines) =>
       \A k \in 1..Len(at) :
         taken[k] = "fail" => \A b \in BlocksOf(lines, at[k], Expect) :
                                Trim(b) # Trim(Output(BlockOf(lines, at[k])))

\* Departure: a stop marker ends the tests wherever it stands (tests/scripts/README); the
\* first one is written over with a NUL, and does nothing if it is before the start.
StopStops == Ended => Len(taken) <= Len(TestLines(Lines(script)))

\* Departure: a script ends, whatever its tests render to.  The output of a test may be
\* empty, and its text has no string then; a name may be what the text ends with.
ReadsStrings == state # "undefined"

\* Departure: the line and the column of a position count from 1 (include/hemp/error.h:82).
\* The first position of a line counts for the line before.
LocationsCount ==
  \A i \in 1..Len(script) :
    Location(script, i).line = 1 + Cardinality({j \in LineStarts(script) : j <= i})
=============================================================================
