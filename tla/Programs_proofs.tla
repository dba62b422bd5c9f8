-------------------------- MODULE Programs_proofs --------------------------
(***************************************************************************)
(* Proofs about the programs around the library.                           *)
(*                                                                         *)
(* Part one, about TestPlan: its type, and that a plan ends with zero      *)
(* exactly when every test that was planned was run and passed, for any    *)
(* number of tests.                                                        *)
(*                                                                         *)
(* Part two, about Program: whatever is typed, and however the commands    *)
(* end, nothing of them is left when the prompt is back.                   *)
(*                                                                         *)
(* Part three, about Global: whatever Hemps a Perl script makes and lets   *)
(* go of, its values keep the numbers of their types.                      *)
(***************************************************************************)
EXTENDS TestPlan, Program, Global, TLAPS, FiniteSetTheorems, SequenceTheorems, WellFoundedInduction

AllPass(s) == \A i \in 1..Len(s) : s[i]

\* What the counters of a plan have to do with what was reported, and with each other: the
\* types alone say nothing of the plan that the next end of it takes its result from.
CountersTell ==
  plan # NoPlan =>
    /\ plan.tested = Len(passes)
    /\ plan.failed <= plan.tested
    /\ plan.failed = 0 <=> AllPass(passes)

PlanInv == PlanTypeOK /\ CountersTell /\ ResultTells

\* A plan is made with counters of zero and without reports.
LEMMA PlannedTells ==
  ASSUME PlanInv, NEW k \in 0..MaxTests, PlanTests(k)
  PROVE  PlanInv'
<1>. USE PlanAssumption
<1>1. /\ plan' = [planned |-> k, tested |-> 0, passed |-> 0, failed |-> 0]
      /\ passes' = <<>>
      /\ ended' = ended
  BY DEF PlanTests, Planned
<1>2. PlanTypeOK'
  BY <1>1 DEF PlanInv, PlanTypeOK
<1>3. CountersTell'
  BY <1>1 DEF CountersTell, AllPass
<1>4. ResultTells'
  BY <1>1 DEF PlanInv, ResultTells
<1>. QED  BY <1>2, <1>3, <1>4 DEF PlanInv

\* A sequence with one more passes as a whole if what was there and what is new does.
LEMMA AppendedPasses ==
  ASSUME NEW s \in Seq(BOOLEAN), NEW b \in BOOLEAN
  PROVE  /\ Append(s, b) \in Seq(BOOLEAN)
         /\ Len(Append(s, b)) = Len(s) + 1
         /\ AllPass(Append(s, b)) <=> AllPass(s) /\ b
<1>1. /\ Append(s, b) \in Seq(BOOLEAN)
      /\ Len(Append(s, b)) = Len(s) + 1
      /\ \A i \in 1..Len(s) : Append(s, b)[i] = s[i]
      /\ Append(s, b)[Len(s) + 1] = b
  OBVIOUS
<1>2. 1..Len(Append(s, b)) = (1..Len(s)) \union {Len(s) + 1}
  BY <1>1
<1>3. AllPass(Append(s, b)) <=> AllPass(s) /\ b
  BY <1>1, <1>2, Zenon DEF AllPass
<1>. QED  BY <1>1, <1>3

\* A result is counted once, as a test and as what it was.
LEMMA ResultCounts ==
  ASSUME PlanInv, NEW pass \in BOOLEAN, Result(pass)
  PROVE  PlanInv'
<1>. USE PlanAssumption
<1>1. /\ plan # NoPlan
      /\ plan \in [planned : Nat, tested : Nat, passed : Nat, failed : Nat]
      /\ passes \in Seq(BOOLEAN)
  BY DEF Result, PlanInv, PlanTypeOK
<1>2. /\ plan' = Counted(plan, pass)
      /\ passes' = Append(passes, pass)
      /\ ended' = ended
  BY DEF Result
<1>3. /\ plan'.tested = plan.tested + 1
      /\ plan' \in [planned : Nat, tested : Nat, passed : Nat, failed : Nat]
      /\ pass => plan'.failed = plan.failed
      /\ ~pass => plan'.failed = plan.failed + 1
  <2>1. CASE pass
    <3>1. plan' = [planned |-> plan.planned, tested |-> plan.tested + 1,
                   passed |-> plan.passed + 1, failed |-> plan.failed]
      BY <1>2, <2>1, Zenon DEF Counted
    <3>2. /\ plan'.tested = plan.tested + 1
          /\ plan'.failed = plan.failed
          /\ plan' \in [planned : Nat, tested : Nat, passed : Nat, failed : Nat]
      BY <1>1, <3>1
    <3>. QED  BY <2>1, <3>2, Zenon
  <2>2. CASE ~pass
    <3>1. plan' = [planned |-> plan.planned, tested |-> plan.tested + 1,
                   passed |-> plan.passed, failed |-> plan.failed + 1]
      BY <1>2, <2>2, Zenon DEF Counted
    <3>2. /\ plan'.tested = plan.tested + 1
          /\ plan'.failed = plan.failed + 1
          /\ plan' \in [planned : Nat, tested : Nat, passed : Nat, failed : Nat]
      BY <1>1, <3>1
    <3>. QED  BY <2>2, <3>2, Zenon
  <2>. QED  BY <2>1, <2>2
<1>4. PlanTypeOK'
  BY <1>1, <1>2, <1>3, AppendedPasses DEF PlanInv, PlanTypeOK
<1>5. /\ plan.tested = Len(passes)
      /\ plan.failed <= plan.tested
      /\ plan.failed = 0 <=> AllPass(passes)
  BY <1>1 DEF PlanInv, CountersTell
<1>6. plan'.tested = Len(passes')
  BY <1>1, <1>2, <1>3, <1>5, AppendedPasses
<1>7. plan'.failed <= plan'.tested
  BY <1>1, <1>3, <1>5
<1>8. plan'.failed = 0 <=> AllPass(passes')
  <2>1. AllPass(passes') <=> AllPass(passes) /\ pass
    BY <1>1, <1>2, AppendedPasses
  <2>2. plan.failed + 1 # 0
    BY <1>1
  <2>3. plan'.failed = 0 <=> plan.failed = 0 /\ pass
    BY <1>3, <2>2, Zenon
  <2>. QED  BY <2>1, <2>3, <1>5, Zenon
<1>9. ResultTells'
  BY <1>2 DEF PlanInv, ResultTells
<1>. QED  BY <1>4, <1>6, <1>7, <1>8, <1>9 DEF PlanInv, CountersTell

\* The result is zero only if no test failed and none is missing.
LEMMA DoneTells ==
  ASSUME PlanInv, Done
  PROVE  PlanInv'
<1>. USE PlanAssumption
<1>1. /\ plan # NoPlan
      /\ plan \in [planned : Nat, tested : Nat, passed : Nat, failed : Nat]
      /\ passes \in Seq(BOOLEAN)
  BY DEF Done, PlanInv, PlanTypeOK
<1>2. /\ plan.tested = Len(passes)
      /\ plan.failed <= plan.tested
      /\ plan.failed = 0 <=> AllPass(passes)
  BY <1>1 DEF PlanInv, CountersTell
<1>3. /\ ended' = [planned |-> plan.planned, passes |-> passes, result |-> PlanResult(plan)]
      /\ plan' = NoPlan
      /\ passes' = passes
  BY DEF Done
<1>4. /\ PlanResult(plan) \in Nat
      /\ PlanResult(plan) = 0 <=> plan.tested = plan.planned /\ plan.failed = 0
  BY <1>1, <1>2 DEF PlanResult
<1>5. PlanTypeOK'
  BY <1>1, <1>3, <1>4 DEF PlanTypeOK
<1>6. ended'.result = PlanResult(plan) /\ ended'.passes = passes /\ ended'.planned = plan.planned
  BY <1>3
<1>7. ResultTells'
  BY <1>2, <1>4, <1>6 DEF ResultTells, AllPass
<1>. QED  BY <1>3, <1>5, <1>7 DEF PlanInv, CountersTell

\* PlanInv is inductive.
THEOREM PlanInvariant == PlanSpec => []PlanInv
<1>1. PlanInit => PlanInv
  BY PlanAssumption DEF PlanInit, PlanInv, PlanTypeOK, CountersTell, ResultTells
<1>2. PlanInv /\ [PlanNext]_planVars => PlanInv'
  <2>. SUFFICES ASSUME PlanInv, [PlanNext]_planVars PROVE PlanInv'
    OBVIOUS
  <2>1. CASE \E k \in 0..MaxTests : PlanTests(k)
    BY <2>1, PlannedTells
  <2>2. CASE \E pass \in BOOLEAN : Len(passes) < MaxTests /\ Result(pass)
    BY <2>2, ResultCounts
  <2>3. CASE Done
    BY <2>3, DoneTells
  <2>4. CASE UNCHANGED planVars
    BY <2>4 DEF planVars, PlanInv, PlanTypeOK, CountersTell, AllPass, ResultTells
  <2>. QED  BY <2>1, <2>2, <2>3, <2>4 DEF PlanNext
<1>. QED  BY <1>1, <1>2, PTL DEF PlanSpec

\* For any number of tests, a plan ends with zero exactly when as many tests were reported
\* as were planned and each of them passed (hemp_test_plan_result()).
THEOREM PlanResultTells == PlanSpec => []ResultTells
<1>1. PlanInv => ResultTells
  BY DEF PlanInv
<1>. QED  BY <1>1, PlanInvariant, PTL

-----------------------------------------------------------------------------
(***************************************************************************)
(* Part two: the command line.                                             *)
(***************************************************************************)
Running == {"evaluating", "testing"}

\* What may be allocated at each place, and the HEMP_TRYs that are open there.
Accounts ==
  /\ pc = "main" => owned = {}
  /\ pc = "print" => owned \subseteq {"prompt", "input"}
  /\ pc \in {"files", "prompt", "leave"} => owned \subseteq {"prompt", "line"}
  /\ pc \in Commands \union {"testing"} => owned \subseteq {"prompt", "line", "words"}
  /\ pc = "evaluating" => owned \subseteq {"prompt", "line", "words", "text"}
  /\ pc = "returned" => owned \subseteq IF session.execute = "none" THEN {} ELSE {"line"}
  /\ pc \in Running => tries = 1
  /\ pc \notin Running \union {"dead"} => tries = 0

\* The variables of the test language: a test is kept there only between its input and its
\* branch, which nothing comes between, so that no document ends with one.
TestKept ==
  /\ pc \notin {"testing", "dead"} => language = "idle" /\ test = Undefined
  /\ language \in {"done", "error"} => test = Undefined
  /\ language = "running" /\ test # Undefined => blocks # <<>> /\ Head(blocks).mark = "test"

ProgramInv == ProgramTypeOK /\ Accounts /\ TestKept

LEMMA ProgramStarts ==
  ASSUME ProgramInit
  PROVE  ProgramInv
BY DEF ProgramInit, LanguageInit, ProgramInv, ProgramTypeOK, Accounts, TestKept, Running

\* Where the test language does nothing, and the program is not in a document before and
\* after, the variables stay as they were.
LEMMA LanguageRests ==
  ASSUME ProgramInv, UNCHANGED languageVars, pc # "testing", pc # "dead"
  PROVE  TestKept'
BY DEF ProgramInv, TestKept, languageVars

LEMMA CommandNames == \A p \in Commands : p \notin {"main", "print", "files", "prompt", "leave", "evaluating",
                         "testing", "returned", "exited", "uncaught", "dead"}
BY ProgramAssumption

LEMMA MainKeeps ==
  ASSUME ProgramInv, Main
  PROVE  ProgramInv'
<1>. USE DEF ProgramInv, ProgramTypeOK, Accounts, Running
<1>1. TestKept'  BY LanguageRests DEF Main
<1>2. CASE BadOptions  BY <1>1, <1>2, CommandNames DEF Main, Exit, Goto
<1>3. CASE ~BadOptions /\ session.execute # "none"
  <2>1. session.execute \in Commands  BY <1>3 DEF BadOptions
  <2>2. pc' = session.execute /\ owned' = {"prompt"} /\ tries' = tries /\ status' = status
    BY <1>3 DEF Main, Goto
  <2>. QED  BY <1>1, <2>1, <2>2, CommandNames DEF Main
<1>4. CASE ~BadOptions /\ session.execute = "none"
  <2>1. /\ \/ pc' = "print" /\ owned' = {"prompt", "input"}
           \/ pc' \in {"prompt", "files"} /\ owned' = {"prompt"}
        /\ tries' = tries /\ status' = status
    BY <1>4 DEF Main, Goto
  <2>. QED  BY <1>1, <2>1, CommandNames DEF Main
<1>. QED  BY <1>2, <1>3, <1>4

LEMMA PrintKeeps ==
  ASSUME ProgramInv, PrintText \/ PrintFile
  PROVE  ProgramInv'
<1>. USE DEF ProgramInv, ProgramTypeOK, Accounts, Running
<1>1. TestKept'  BY LanguageRests DEF PrintText, PrintFile
<1>2. \A source : Shown(source) \in {"dead", "uncaught", "leave"}  BY DEF Shown
<1>3. CASE PrintText
  <2>1. pc' \in {"dead", "uncaught", "leave"} /\ tries' = tries /\ status' = status
        /\ owned' \subseteq owned /\ (pc' = "leave" => owned' = owned \ {"input"})
    BY <1>2, <1>3 DEF PrintText, Goto
  <2>2. pc = "print"  BY <1>3 DEF PrintText
  <2>. QED  BY <1>1, <2>1, <2>2, CommandNames
<1>4. CASE PrintFile
  <2>1. pc' \in {"dead", "uncaught", "leave", "files"} /\ tries' = tries /\ status' = status
        /\ owned' = owned
    BY <1>2, <1>4 DEF PrintFile, Goto
  <2>2. pc = "files"  BY <1>4 DEF PrintFile
  <2>. QED  BY <1>1, <2>1, <2>2, CommandNames
<1>. QED  BY <1>3, <1>4

LEMMA PromptKeeps ==
  ASSUME ProgramInv, EndOfInput \/ ReadCommand
  PROVE  ProgramInv'
<1>. USE DEF ProgramInv, ProgramTypeOK, Accounts, Running
<1>1. TestKept'  BY LanguageRests DEF EndOfInput, ReadCommand
<1>2. pc = "prompt" /\ tries' = tries  BY DEF EndOfInput, ReadCommand
<1>3. CASE EndOfInput
  <2>1. pc' = "leave" /\ status' = status /\ owned' \subseteq owned  BY <1>3 DEF EndOfInput, Goto, Reads
  <2>. QED  BY <1>1, <1>2, <2>1, CommandNames
<1>4. CASE ReadCommand
  <2>1. lines # <<>>  BY <1>4 DEF ReadCommand
  <2>2. /\ Reads({}) => owned' = owned \union {"line"}
        /\ Reads({"words"}) => owned' = owned \union {"line", "words"}
    BY <2>1 DEF Reads
  <2>3. CASE Reads({}) /\ pc' = pc /\ status' = status  BY <1>1, <1>2, <2>2, <2>3, CommandNames
  <2>4. CASE Reads({"words"}) /\ pc' \in Commands /\ status' = status
    BY <1>1, <1>2, <2>2, <2>4, CommandNames
  <2>5. CASE Reads({"words"}) /\ pc' = "exited" /\ status' = 1
    BY <1>1, <1>2, <2>2, <2>5, CommandNames
  <2>6. ASSUME NEW words, words[1] \in {<<name>> : name \in Commands}  PROVE words[1][1] \in Commands
    BY <2>6
  <2>. QED  BY <1>4, <2>3, <2>4, <2>5, <2>6 DEF ReadCommand, Goto, Exit
<1>. QED  BY <1>3, <1>4

\* A command that returns leaves of its memory only the line that it has read.
LEMMA ReturnKeeps ==
  ASSUME ProgramInv, TestKept',
         pc' \in {"prompt", "leave"}, tries' = 0, status' = status, owned' \subseteq {"prompt", "line"}
  PROVE  ProgramInv'
<1>1. pc' \notin Commands  BY CommandNames
<1>2. ProgramTypeOK'  BY DEF ProgramInv, ProgramTypeOK
<1>3. Accounts'  BY <1>1 DEF Accounts, Running
<1>. QED  BY <1>2, <1>3 DEF ProgramInv

LEMMA ExprKeeps ==
  ASSUME ProgramInv, Simple \/ ExprBegin \/ Nothing \/ ExprEnd \/ Exprs
  PROVE  ProgramInv'
<1>1. TestKept'
  BY LanguageRests, CommandNames, ProgramAssumption DEF Simple, ExprBegin, Nothing, ExprEnd, Exprs
<1>2. pc \in Commands \/ pc = "evaluating"
  BY ProgramAssumption DEF Simple, ExprBegin, Nothing, ExprEnd, Exprs
<1>3. \A done : Returned(done) => pc' \in {"prompt", "leave"}  BY DEF Returned, Goto
<1>4. \A rest : ReadsFor(rest) => owned' \subseteq owned \union {"line"} \union rest
  BY DEF ReadsFor, Reads
<1>5. pc \in Commands => owned \subseteq {"prompt", "line", "words"} /\ tries = 0
  BY CommandNames DEF ProgramInv, Accounts, Running
<1>6. CASE Simple
  <2>1. pc \in Commands  BY <1>6, ProgramAssumption DEF Simple
  <2>2. pc' \in {"prompt", "leave"} /\ owned' = owned \ {"words"} /\ status' = status /\ tries' = tries
    BY <1>3, <1>6 DEF Simple, Return
  <2>. QED  BY <1>1, <1>5, <2>1, <2>2, ReturnKeeps
<1>7. CASE ExprBegin
  <2>1. pc \in Commands  BY <1>7, ProgramAssumption DEF ExprBegin
  <2>2. /\ pc' = "evaluating" /\ owned' \subseteq owned \union {"line", "text"}
        /\ status' = status /\ tries' = tries + 1
    BY <1>4, <1>7 DEF ExprBegin, Goto
  <2>. QED  BY <1>1, <1>5, <2>1, <2>2, CommandNames DEF ProgramInv, ProgramTypeOK, Accounts, Running
<1>8. CASE Nothing
  <2>1. pc \in Commands  BY <1>8, ProgramAssumption DEF Nothing
  <2>2. pc' \in {"prompt", "leave"} /\ status' = status /\ tries' = tries
    BY <1>3, <1>8 DEF Nothing
  <2>3. owned' \subseteq (owned \ {"words"}) \union {"line"}  BY <1>8 DEF Nothing
  <2>. QED  BY <1>1, <1>5, <2>1, <2>2, <2>3, ReturnKeeps
<1>9. CASE ExprEnd
  <2>1. pc = "evaluating"  BY <1>9 DEF ExprEnd
  <2>2. owned \subseteq {"prompt", "line", "words", "text"} /\ tries = 1
    BY <2>1 DEF ProgramInv, Accounts, Running
  <2>3. CASE Dies(args)
    <3>1. pc' = "dead" /\ owned' = owned /\ tries' = tries /\ status' = status
      BY <1>9, <2>3 DEF ExprEnd, Goto
    <3>. QED  BY <1>1, <3>1, CommandNames DEF ProgramInv, ProgramTypeOK, Accounts, Running
  <2>4. CASE ~Dies(args)
    <3>1. /\ pc' \in {"prompt", "leave"} /\ owned' = owned \ {"words", "text"}
          /\ tries' = tries - 1 /\ status' = status
      BY <1>3, <1>9, <2>4 DEF ExprEnd, Return
    <3>. QED  BY <1>1, <2>2, <3>1, ReturnKeeps
  <2>. QED  BY <2>3, <2>4
<1>10. CASE Exprs
  <2>1. pc = "exprs" /\ pc \in Commands  BY <1>10, ProgramAssumption DEF Exprs
  <2>2. pc' \in {"exprs", "dead"} /\ tries' = tries /\ status' = status
        /\ owned' \subseteq owned \union {"line"}
    BY <1>4, <1>10, <2>1 DEF Exprs, Goto
  <2>. QED  BY <1>1, <1>5, <2>1, <2>2, CommandNames DEF ProgramInv, ProgramTypeOK, Accounts, Running
<1>. QED  BY <1>6, <1>7, <1>8, <1>9, <1>10

\* A test is in the variables from its input to its branch.
LEMMA LanguageKeeps ==
  ASSUME ProgramInv, LanguageStep, pc' = "testing"
  PROVE  TestKept'
<1>. USE DEF ProgramInv, TestKept
<1>1. CASE UseLanguage
  <2>1. test = Undefined  BY <1>1 DEF UseLanguage, At
  <2>. QED  BY <1>1, <2>1 DEF UseLanguage
<1>2. CASE UseDialect
  <2>1. test = Undefined  BY <1>2 DEF UseDialect, At
  <2>. QED  BY <1>2, <2>1 DEF UseDialect
<1>3. CASE RunInput
  <2>1. blocks # <<>> /\ Head(blocks).mark = "test" /\ language = "running" /\ test = Undefined
    BY <1>3 DEF RunInput, At
  <2>2. \/ language' = "fatal"
        \/ language' = language /\ test' = test
        \/ language' = language /\ blocks' = blocks
    BY <1>3 DEF RunInput
  <2>. QED  BY <2>1, <2>2
<1>4. CASE RunBranch  BY <1>4 DEF RunBranch
<1>5. CASE EndTests
  <2>1. test = Undefined  BY <1>5 DEF EndTests
  <2>. QED  BY <1>5, <2>1 DEF EndTests
<1>. QED  BY <1>1, <1>2, <1>3, <1>4, <1>5 DEF LanguageStep

LEMMA TestKeeps ==
  ASSUME ProgramInv, TestBegin \/ TestStep \/ TestEnd
  PROVE  ProgramInv'
<1>2. CASE TestBegin
  <2>1. pc = "test" /\ pc \in Commands /\ status' = status  BY <1>2, ProgramAssumption DEF TestBegin
  <2>2. /\ owned \subseteq {"prompt", "line", "words"} /\ tries = 0
        /\ language = "idle" /\ test = Undefined
    BY <2>1, CommandNames DEF ProgramInv, Accounts, TestKept, Running
  <2>3. owned' \subseteq {"prompt", "line", "words"}
    <3>1. owned' \subseteq owned \union {"line"}  BY <1>2 DEF TestBegin, ReadsFor, Reads
    <3>. QED  BY <2>2, <3>1
  <2>4. test' = test /\ language' \in {"idle", "running", "error"}
    BY <1>2, <2>2 DEF TestBegin, BeginTests, languageVars
  <2>5. \/ pc' = "uncaught" /\ tries' = tries /\ language' = language
        \/ pc' = "testing" /\ tries' = tries + 1
    BY <1>2 DEF TestBegin, Goto, languageVars
  <2>6. TestKept'  BY <2>2, <2>4, <2>5 DEF TestKept
  <2>. QED  BY <2>1, <2>2, <2>3, <2>5, <2>6, CommandNames DEF ProgramInv, ProgramTypeOK, Accounts, Running
<1>3. CASE TestStep
  <2>1. /\ pc = "testing" /\ pc' = pc /\ owned' = owned /\ tries' = tries /\ status' = status
        /\ session' = session
    BY <1>3 DEF TestStep, programVars
  <2>2. TestKept'  BY <1>3, <2>1, LanguageKeeps DEF TestStep
  <2>. QED  BY <2>1, <2>2 DEF ProgramInv, ProgramTypeOK, Accounts, Running
<1>4. CASE TestEnd
  <2>1. pc = "testing" /\ test' = test /\ blocks' = blocks  BY <1>4 DEF TestEnd
  <2>2. owned \subseteq {"prompt", "line", "words"} /\ tries = 1
    BY <2>1 DEF ProgramInv, Accounts, Running
  <2>3. CASE language \in {"fatal", "undefined"}
    <3>1. /\ pc' = "dead" /\ owned' = owned /\ tries' = tries /\ status' = status
          /\ language' = language
      BY <1>4, <2>3 DEF TestEnd, Goto
    <3>2. TestKept'  BY <2>1, <3>1 DEF ProgramInv, TestKept
    <3>. QED  BY <3>1, <3>2, CommandNames DEF ProgramInv, ProgramTypeOK, Accounts, Running
  <2>4. CASE language \in {"done", "error"}
    <3>1. /\ pc' \in {"prompt", "leave"} /\ owned' = owned \ {"words"}
          /\ tries' = tries - 1 /\ status' = status /\ language' = "idle"
      BY <1>4, <2>4 DEF TestEnd, Return, Returned, Goto
    <3>2. test = Undefined  BY <2>4 DEF ProgramInv, TestKept
    <3>3. TestKept'  BY <2>1, <3>1, <3>2 DEF TestKept
    <3>. QED  BY <2>2, <3>1, <3>3, ReturnKeeps
  <2>. QED  BY <1>4, <2>3, <2>4 DEF TestEnd
<1>. QED  BY <1>2, <1>3, <1>4

LEMMA LeaveKeeps ==
  ASSUME ProgramInv, Leave
  PROVE  ProgramInv'
<1>1. TestKept'  BY LanguageRests DEF Leave
<1>2. /\ pc = "leave" /\ pc' = "returned" /\ status' = 0 /\ tries' = tries /\ session' = session
      /\ owned' = owned \ ({"prompt"} \union IF session.execute = "none" THEN {"line"} ELSE {})
  BY DEF Leave, Goto
<1>. QED  BY <1>1, <1>2, CommandNames DEF ProgramInv, ProgramTypeOK, Accounts, Running

\* Whatever is typed and however the scripts are written: in hemp_interactive() no command
\* leaves a HEMP_TRY open, a test in the variables of its context, or memory of its own,
\* whether it succeeds, fails, or finds nothing to do.
LEMMA ProgramInvariant == ProgramSpec => []ProgramInv
<1>1. ASSUME ProgramInv, [ProgramNext]_<<programVars, languageVars>>
      PROVE  ProgramInv'
  <2>1. CASE UNCHANGED <<programVars, languageVars>>
    BY <1>1, <2>1 DEF ProgramInv, ProgramTypeOK, Accounts, TestKept, Running, programVars, languageVars
  <2>2. CASE ProgramNext
    BY <1>1, <2>2, MainKeeps, PrintKeeps, PromptKeeps, ExprKeeps, TestKeeps, LeaveKeeps DEF ProgramNext
  <2>. QED  BY <1>1, <2>1, <2>2
<1>. QED  BY <1>1, ProgramStarts, PTL DEF ProgramSpec

\* The type invariant of the program.
THEOREM ProgramTypes == ProgramSpec => []ProgramTypeOK
<1>1. ProgramInv => ProgramTypeOK  BY DEF ProgramInv
<1>. QED  BY <1>1, ProgramInvariant, PTL

\* Back at the prompt of hemp_interactive() nothing is left of the commands that have run,
\* however they ended (HEMP_CATCH_ALL in hemp_cmd_expr() and hemp_cmd_test()), and when
\* main() returns everything is freed but the line that a single command has read.
THEOREM PromptStaysClean == ProgramSpec => []PromptIsClean
<1>1. ASSUME ProgramInv  PROVE PromptIsClean
  BY <1>1, CommandNames DEF ProgramInv, Accounts, TestKept, Running, PromptIsClean
<1>. QED  BY <1>1, ProgramInvariant, PTL

-----------------------------------------------------------------------------
(***************************************************************************)
(* Part three: the data that all Hemps share.                              *)
(***************************************************************************)
Slots == TypesReserved + 1..TypesSize - 1
PerlNames == ToSet(PerlTypes)

\* What is registered stays in its slot.
Stays(ts, us) == \A n \in Slots : ts[n] # "unused" => us[n] = ts[n]

GlobalShape(g) ==
  /\ g = [users |-> g.users, parts |-> g.parts, names |-> g.names, types |-> g.types, perl |-> g.perl]
  /\ g.types = [n \in 0..TypesSize - 1 |-> g.types[n]]
  /\ g.perl = [t \in DOMAIN g.perl |-> g.perl[t]]
  /\ g.users \in Nat

\* What the binding keeps of its types are the slots that they are in.
BindingTells(g) ==
  /\ DOMAIN g.perl \subseteq PerlNames
  /\ \A t \in DOMAIN g.perl : g.perl[t] \in Slots /\ g.types[g.perl[t]] = t

\* There is a slot for every type of the binding that is not registered.
Lacking(g) == {t \in PerlNames : Registered(g, t) = {}}
SlotsLeft(g) == Cardinality(Registered(g, "unused")) >= Cardinality(Lacking(g))

LEMMA EveryNumber ==
  ASSUME NEW T \in SUBSET Nat, 0 \in T, \A n \in T : n + 1 \in T
  PROVE  T = Nat
<1>. SUFFICES ASSUME T # Nat  PROVE FALSE
  OBVIOUS
<1>. DEFINE U == Nat \ T
            R == OpToRel(<, Nat)
<1>1. U # {} /\ U \subseteq Nat  OBVIOUS
<1>2. \A x, y \in Nat : <<y, x>> \in R <=> y < x  BY DEF OpToRel
<1>3. IsWellFoundedOn(R, Nat)  BY NatLessThanWellFounded
<1>. HIDE DEF U, R
<1>4. PICK n \in U : \A m \in U : ~ (<<m, n>> \in R)  BY <1>1, <1>3, WFMin
<1>5. n \in Nat /\ n # 0  BY <1>1 DEF U
<1>6. n - 1 \in Nat /\ n - 1 < n /\ (n - 1) + 1 = n  BY <1>5
<1>7. n - 1 \in T  BY <1>2, <1>4, <1>5, <1>6 DEF U
<1>8. n \in T  BY <1>6, <1>7
<1>. QED  BY <1>8 DEF U

\* The lowest of some numbers is one of them.
LEMMA LowestIsThere ==
  ASSUME NEW S, S \subseteq Nat, S # {}
  PROVE  Min(S) \in S
<1>. DEFINE R == OpToRel(<, Nat)
<1>1. \A x, y \in Nat : <<y, x>> \in R <=> y < x  BY DEF OpToRel
<1>2. IsWellFoundedOn(R, Nat)  BY NatLessThanWellFounded
<1>. HIDE DEF R
<1>3. PICK n \in S : \A m \in S : ~ (<<m, n>> \in R)  BY <1>2, WFMin
<1>4. ASSUME NEW m \in S  PROVE n =< m
  <2>1. m \in Nat /\ n \in Nat  OBVIOUS
  <2>2. ~ (m < n)  BY <1>1, <1>3, <2>1
  <2>. QED  BY <2>1, <2>2
<1>. QED  BY <1>3, <1>4 DEF Min

LEMMA SlotsAreNumbers ==
  /\ TypesReserved \in Nat /\ TypesSize \in Nat
  /\ Slots \subseteq Nat /\ Slots \subseteq 0..TypesSize - 1 /\ IsFiniteSet(Slots)
<1>1. TypesReserved \in Nat /\ TypesSize \in Nat  BY GlobalAssumption
<1>2. Slots \subseteq Nat /\ Slots \subseteq 0..TypesSize - 1  BY <1>1 DEF Slots
<1>3. TypesReserved + 1 \in Int /\ TypesSize - 1 \in Int  BY <1>1
<1>4. IsFiniteSet(Slots)  BY <1>3, FS_Interval DEF Slots
<1>. QED  BY <1>1, <1>2, <1>4

\* hemp_use_type() finds the slot of a type, or puts it into one that nothing was in.
LEMMA TypeIsUsed ==
  ASSUME NEW g, GlobalShape(g), NEW t, t # "unused", TypeFits(g, t)
  PROVE  /\ TypeId(g, t) \in Slots
         /\ g.types[TypeId(g, t)] \in {t, "unused"}
         /\ UseType(g, t) = [g EXCEPT !.types = UseType(g, t).types]
         /\ UseType(g, t).types = [g.types EXCEPT ![TypeId(g, t)] = t]
         /\ GlobalShape(UseType(g, t))
<1>1. /\ Registered(g, t) \subseteq Slots /\ Registered(g, "unused") \subseteq Slots
      /\ \A n \in Registered(g, t) : g.types[n] = t
      /\ \A n \in Registered(g, "unused") : g.types[n] = "unused"
  BY DEF Registered, Slots
<1>2. Registered(g, t) # {} => Min(Registered(g, t)) \in Registered(g, t)
  BY <1>1, SlotsAreNumbers, LowestIsThere
<1>3. Registered(g, "unused") # {} => Min(Registered(g, "unused")) \in Registered(g, "unused")
  BY <1>1, SlotsAreNumbers, LowestIsThere
<1>4. TypeId(g, t) \in Slots /\ g.types[TypeId(g, t)] \in {t, "unused"}
  BY <1>1, <1>2, <1>3 DEF TypeId, TypeFits
<1>5. PICK id : id = TypeId(g, t)  OBVIOUS
<1>6. UseType(g, t) = [g EXCEPT !.types[id] = t]  BY <1>5 DEF UseType
<1>7. UseType(g, t) = [g EXCEPT !.types = [g.types EXCEPT ![id] = t]]
  BY <1>6 DEF GlobalShape
<1>8. PICK ts : ts = [g.types EXCEPT ![id] = t]  OBVIOUS
<1>9. ts = [n \in 0..TypesSize - 1 |-> ts[n]]  BY <1>8 DEF GlobalShape
<1>10. /\ UseType(g, t).types = ts /\ UseType(g, t) = [g EXCEPT !.types = ts]
       /\ GlobalShape(UseType(g, t))
  BY <1>7, <1>8, <1>9 DEF GlobalShape
<1>. QED  BY <1>4, <1>5, <1>8, <1>10

LEMMA TypesStay ==
  ASSUME NEW g, GlobalShape(g), NEW t, t # "unused", TypeFits(g, t)
  PROVE  /\ Stays(g.types, UseType(g, t).types)
         /\ UseType(g, t).types[TypeId(g, t)] = t
         /\ UseType(g, t).perl = g.perl /\ UseType(g, t).users = g.users
<1>1. PICK id \in Slots : id = TypeId(g, t)  BY TypeIsUsed
<1>2. PICK ts : ts = UseType(g, t).types  OBVIOUS
<1>3. ts = [g.types EXCEPT ![id] = t] /\ g.types[id] \in {t, "unused"}  BY <1>1, <1>2, TypeIsUsed
<1>4. id \in 0..TypesSize - 1  BY SlotsAreNumbers
<1>5. ts[id] = t /\ \A n \in Slots : n # id => ts[n] = g.types[n]
  BY <1>3, <1>4, SlotsAreNumbers DEF GlobalShape
<1>6. Stays(g.types, ts)  BY <1>3, <1>5 DEF Stays
<1>7. UseType(g, t) = [g EXCEPT !.types = ts]  BY <1>2, TypeIsUsed
<1>8. UseType(g, t).perl = g.perl /\ UseType(g, t).users = g.users  BY <1>7 DEF GlobalShape
<1>. QED  BY <1>1, <1>2, <1>5, <1>6, <1>8

LEMMA PerlNamesFinite == IsFiniteSet(PerlNames)
<1>1. PerlTypes \in Seq(STRING)  BY GlobalAssumption
<1>2. PerlTypes \in Surjection(1..Len(PerlTypes), PerlNames)
  BY <1>1 DEF Surjection, PerlNames, ToSet
<1>3. IsFiniteSet(1..Len(PerlTypes))  BY <1>1, FS_Interval
<1>. QED  BY <1>2, <1>3, FS_Surjection

\* A type of the binding takes at most the slot that was counted for it.
LEMMA SlotIsCounted ==
  ASSUME NEW g, GlobalShape(g), SlotsLeft(g), NEW t \in PerlNames
  PROVE  TypeFits(g, t) /\ SlotsLeft(UseType(g, t))
<1>. DEFINE U == Registered(g, "unused")
            h == UseType(g, t)
<1>1. t # "unused" /\ \A p \in PerlNames : p # "unused"  BY GlobalAssumption DEF PerlNames
<1>2. IsFiniteSet(U)
  <2>1. IsFiniteSet(Slots)  BY SlotsAreNumbers
  <2>2. U \in SUBSET Slots  BY DEF Registered, Slots
  <2>. QED  BY <2>1, <2>2, FS_Subset
<1>3. IsFiniteSet(Lacking(g))
  <2>1. Lacking(g) \in SUBSET PerlNames  BY DEF Lacking
  <2>. QED  BY <2>1, PerlNamesFinite, FS_Subset
<1>4. Cardinality(U) \in Nat /\ Cardinality(Lacking(g)) \in Nat  BY <1>2, <1>3, FS_CardinalityType
<1>5. Cardinality(U) >= Cardinality(Lacking(g))  BY DEF SlotsLeft
<1>6. CASE Registered(g, t) # {}
  <2>1. TypeFits(g, t)  BY <1>6 DEF TypeFits
  <2>2. TypeId(g, t) \in Registered(g, t)
    <3>1. Registered(g, t) \subseteq Nat  BY SlotsAreNumbers DEF Registered, Slots
    <3>. QED  BY <1>6, <3>1, LowestIsThere DEF TypeId
  <2>3. g.types[TypeId(g, t)] = t  BY <2>2 DEF Registered
  <2>4. PICK id : id = TypeId(g, t)  OBVIOUS
  <2>5. [g.types EXCEPT ![id] = t] = g.types  BY <2>3, <2>4 DEF GlobalShape
  <2>6. h.types = g.types  BY <1>1, <2>1, <2>4, <2>5, TypeIsUsed
  <2>7. \A p : Registered(h, p) = Registered(g, p)  BY <2>6 DEF Registered
  <2>8. Lacking(h) = Lacking(g)  BY <2>7 DEF Lacking
  <2>. QED  BY <2>1, <2>7, <2>8 DEF SlotsLeft
<1>7. CASE Registered(g, t) = {}
  <2>1. t \in Lacking(g)  BY <1>7 DEF Lacking
  <2>2. Cardinality(Lacking(g)) # 0  BY <1>3, <2>1, FS_EmptySet
  <2>3. U # {}  BY <1>2, <1>4, <1>5, <2>2, FS_EmptySet
  <2>4. TypeFits(g, t)  BY <2>3 DEF TypeFits
  <2>5. TypeId(g, t) \in U
    <3>1. U \subseteq Nat  BY SlotsAreNumbers DEF Registered, Slots
    <3>2. Min(U) \in U  BY <2>3, <3>1, LowestIsThere
    <3>. QED  BY <1>7, <3>2 DEF TypeId
  <2>6. PICK id \in Slots : id = TypeId(g, t)  BY <1>1, <2>4, TypeIsUsed
  <2>7. PICK ts : ts = h.types  OBVIOUS
  <2>8. ts = [g.types EXCEPT ![id] = t]  BY <1>1, <2>4, <2>6, <2>7, TypeIsUsed
  <2>9. id \in 0..TypesSize - 1 /\ g.types[id] = "unused"  BY <2>5, <2>6, SlotsAreNumbers DEF Registered
  <2>10. ts[id] = t /\ \A n \in Slots : n # id => ts[n] = g.types[n]
    BY <2>8, <2>9, SlotsAreNumbers DEF GlobalShape
  <2>11. \A p : /\ Registered(h, p) = {n \in Slots : ts[n] = p}
                /\ Registered(g, p) = {n \in Slots : g.types[n] = p}
    BY <2>7 DEF Registered, Slots
  <2>. HIDE DEF h, U
  <2>12. Registered(h, "unused") = Registered(g, "unused") \ {id}
    <3>1. \A n \in Slots : ts[n] = "unused" <=> g.types[n] = "unused" /\ n # id
      BY <1>1, <2>9, <2>10
    <3>. QED  BY <2>11, <3>1
  <2>13. Registered(h, t) # {}  BY <2>10, <2>11
  <2>14. \A p \in PerlNames : p # t => Registered(h, p) = Registered(g, p)
    <3>1. SUFFICES ASSUME NEW p \in PerlNames, p # t  PROVE Registered(h, p) = Registered(g, p)
      OBVIOUS
    <3>2. p # "unused"  BY <1>1
    <3>3. \A n \in Slots : ts[n] = p <=> g.types[n] = p  BY <2>9, <2>10, <3>1, <3>2
    <3>. QED  BY <2>11, <3>3
  <2>15. Lacking(h) = Lacking(g) \ {t}
    <3>1. \A p \in PerlNames : Registered(h, p) = {} <=> Registered(g, p) = {} /\ p # t
      BY <2>13, <2>14
    <3>. QED  BY <3>1 DEF Lacking
  <2>16. Cardinality(U \ {id}) = Cardinality(U) - 1  BY <1>2, <2>5, <2>6, FS_RemoveElement
  <2>17. Cardinality(Lacking(g) \ {t}) = Cardinality(Lacking(g)) - 1  BY <1>3, <2>1, FS_RemoveElement
  <2>18. Cardinality(Registered(h, "unused")) = Cardinality(U) - 1  BY <2>12, <2>16 DEF U
  <2>19. Cardinality(Lacking(h)) = Cardinality(Lacking(g)) - 1  BY <2>15, <2>17
  <2>20. SlotsLeft(h)  BY <1>4, <1>5, <2>18, <2>19 DEF SlotsLeft
  <2>. QED  BY <2>4, <2>20 DEF h
<1>. QED  BY <1>6, <1>7

-----------------------------------------------------------------------------
\* After n types of the binding: g is what there was before the first.
Using(g, h, n) ==
  /\ GlobalShape(h) /\ BindingTells(h) /\ SlotsLeft(h)
  /\ Stays(g.types, h.types) /\ h.users = g.users
  /\ DOMAIN h.perl = DOMAIN g.perl \union {PerlTypes[i] : i \in 1..n}

KeptWith(k, u, t, id) == k = [u EXCEPT !.perl = With(u.perl, t, id)]

LEMMA BindingKeepsOne ==
  ASSUME NEW u, GlobalShape(u), NEW t, NEW id, NEW k, KeptWith(k, u, t, id)
  PROVE  /\ GlobalShape(k) /\ k.types = u.types /\ k.users = u.users
         /\ DOMAIN k.perl = DOMAIN u.perl \union {t}
         /\ k.perl[t] = id /\ \A p \in DOMAIN u.perl : p # t => k.perl[p] = u.perl[p]
<1>1. PICK q : q = With(u.perl, t, id)  OBVIOUS
<1>2. /\ q = [p \in DOMAIN u.perl \union {t} |-> q[p]]
      /\ q[t] = id /\ \A p \in DOMAIN u.perl : p # t => q[p] = u.perl[p]
      /\ DOMAIN q = DOMAIN u.perl \union {t}
  BY <1>1 DEF With
<1>3. k = [u EXCEPT !.perl = q]  BY <1>1 DEF KeptWith
<1>4. GlobalShape(k) /\ k.types = u.types /\ k.users = u.users /\ k.perl = q
  BY <1>2, <1>3 DEF GlobalShape
<1>. QED  BY <1>2, <1>4

LEMMA OneIsUsed ==
  ASSUME NEW g, NEW h, NEW n \in Nat, Using(g, h, n), n + 1 <= Len(PerlTypes)
  PROVE  Using(g, UsePerlType(h, PerlTypes[n + 1]), n + 1)
<1>1. PerlTypes \in Seq(STRING) /\ \A p \in PerlNames : p # "unused"
  BY GlobalAssumption DEF PerlNames
<1>2. n + 1 \in 1..Len(PerlTypes)  BY <1>1
<1>3. PerlTypes[n + 1] \in PerlNames  BY <1>1, <1>2 DEF PerlNames, ToSet
<1>4. PICK t \in PerlNames : t = PerlTypes[n + 1]  BY <1>3
<1>5. GlobalShape(h) /\ BindingTells(h) /\ SlotsLeft(h)  BY DEF Using
<1>6. TypeFits(h, t) /\ SlotsLeft(UseType(h, t)) /\ t # "unused"  BY <1>1, <1>5, SlotIsCounted
<1>7. PICK id \in Slots : id = TypeId(h, t)  BY <1>5, <1>6, TypeIsUsed
<1>8. PICK u, ts : u = UseType(h, t) /\ ts = u.types  OBVIOUS
<1>9. GlobalShape(u) /\ u.types = ts /\ u.perl = h.perl /\ u.users = h.users
  BY <1>5, <1>6, <1>8, TypeIsUsed, TypesStay
<1>10. Stays(h.types, ts) /\ ts[id] = t  BY <1>5, <1>6, <1>7, <1>8, TypesStay
<1>11. PICK k : k = UsePerlType(h, t)  OBVIOUS
<1>12. KeptWith(k, u, t, id)  BY <1>7, <1>8, <1>11 DEF UsePerlType, KeptWith
<1>13. /\ GlobalShape(k) /\ k.types = ts /\ k.users = h.users
       /\ DOMAIN k.perl = DOMAIN h.perl \union {t}
       /\ k.perl[t] = id /\ \A p \in DOMAIN h.perl : p # t => k.perl[p] = h.perl[p]
  <2>1. /\ GlobalShape(k) /\ k.types = u.types /\ k.users = u.users
        /\ DOMAIN k.perl = DOMAIN u.perl \union {t}
        /\ k.perl[t] = id /\ \A p \in DOMAIN u.perl : p # t => k.perl[p] = u.perl[p]
    BY <1>9, <1>12, BindingKeepsOne
  <2>. QED  BY <1>9, <2>1
<1>14. BindingTells(k)
  <2>1. \A p \in DOMAIN h.perl : ts[h.perl[p]] = p /\ h.perl[p] \in Slots /\ p \in PerlNames
    BY <1>1, <1>5, <1>10 DEF BindingTells, Stays
  <2>. QED  BY <1>4, <1>7, <1>10, <1>13, <2>1 DEF BindingTells
<1>15. SlotsLeft(k)
  <2>1. k.types = u.types  BY <1>8, <1>13
  <2>2. \A p : Registered(k, p) = Registered(u, p)  BY <2>1 DEF Registered
  <2>3. Lacking(k) = Lacking(u)  BY <2>2 DEF Lacking
  <2>. QED  BY <1>6, <1>8, <2>2, <2>3 DEF SlotsLeft
<1>16. Stays(g.types, k.types)
  <2>1. Stays(g.types, h.types)  BY DEF Using
  <2>. QED  BY <1>10, <1>13, <2>1 DEF Stays
<1>17. DOMAIN k.perl = DOMAIN g.perl \union {PerlTypes[i] : i \in 1..n + 1}
  <2>1. {PerlTypes[i] : i \in 1..n + 1} = {PerlTypes[i] : i \in 1..n} \union {t}
    <3>1. 1..n + 1 = 1..n \union {n + 1}  OBVIOUS
    <3>. QED  BY <1>4, <3>1
  <2>2. DOMAIN h.perl = DOMAIN g.perl \union {PerlTypes[i] : i \in 1..n}  BY DEF Using
  <2>. QED  BY <1>13, <2>1, <2>2
<1>18. k.users = g.users  BY <1>13 DEF Using
<1>. QED  BY <1>4, <1>11, <1>13, <1>14, <1>15, <1>16, <1>17, <1>18 DEF Using

\* The types are used one after the other: UsePerlTypes is what the last one leaves.
LEMMA OneAfterTheOther ==
  ASSUME NEW g
  PROVE  \E used :
           /\ UsePerlTypes(g) = used[Len(PerlTypes)]
           /\ used = [n \in 0..Len(PerlTypes) |-> IF n = 0 THEN g
                                                  ELSE UsePerlType(used[n - 1], PerlTypes[n])]
<1>. DEFINE Is(f, m) ==
              f = [n \in 0..m |-> IF n = 0 THEN g ELSE UsePerlType(f[n - 1], PerlTypes[n])]
            T == {m \in Nat : \E f : Is(f, m)}
<1>1. 0 \in T
  <2>1. PICK f : f = [n \in 0..0 |-> g]  OBVIOUS
  <2>2. f = [n \in 0..0 |-> IF n = 0 THEN g ELSE UsePerlType(f[n - 1], PerlTypes[n])]
    BY <2>1
  <2>. QED  BY <2>2
<1>2. ASSUME NEW m \in T  PROVE m + 1 \in T
  <2>1. m \in Nat /\ m + 1 \in Nat  OBVIOUS
  <2>2. PICK f : Is(f, m)  BY <1>2
  <2>3. DOMAIN f = 0..m /\ f[0] = g
        /\ \A n \in 1..m : f[n] = UsePerlType(f[n - 1], PerlTypes[n])
    BY <2>1, <2>2
  <2>4. PICK e : e = [n \in 0..m + 1 |-> IF n = m + 1 THEN UsePerlType(f[m], PerlTypes[m + 1]) ELSE f[n]]
    OBVIOUS
  <2>5. ASSUME NEW n \in 0..m + 1
        PROVE  e[n] = IF n = 0 THEN g ELSE UsePerlType(e[n - 1], PerlTypes[n])
    <3>1. CASE n = m + 1
      <4>1. e[n - 1] = f[m] /\ n - 1 = m /\ n # 0  BY <2>1, <2>4, <3>1
      <4>2. e[n] = UsePerlType(f[m], PerlTypes[m + 1])  BY <2>4, <3>1
      <4>. QED  BY <3>1, <4>1, <4>2
    <3>2. CASE n # m + 1
      <4>1. n \in 0..m /\ e[n] = f[n]  BY <2>1, <2>4, <3>2
      <4>2. n # 0 => n \in 1..m /\ n - 1 \in 0..m /\ e[n - 1] = f[n - 1]  BY <2>1, <2>4, <4>1
      <4>. QED  BY <2>3, <4>1, <4>2
    <3>. QED  BY <3>1, <3>2
  <2>6. e = [n \in 0..m + 1 |-> e[n]]  BY <2>4
  <2>7. Is(e, m + 1)  BY <2>5, <2>6
  <2>. QED  BY <2>1, <2>7
<1>3. T \in SUBSET Nat  OBVIOUS
<1>. HIDE DEF T
<1>4. T = Nat  BY <1>1, <1>2, <1>3, EveryNumber
<1>9. PerlTypes \in Seq(STRING)  BY GlobalAssumption
<1>5. Len(PerlTypes) \in T  BY <1>4, <1>9
<1>6. \E f : Is(f, Len(PerlTypes))  BY <1>5 DEF T
<1>. DEFINE used == CHOOSE f : Is(f, Len(PerlTypes))
<1>7. Is(used, Len(PerlTypes))  BY <1>6
<1>8. UsePerlTypes(g) = used[Len(PerlTypes)]  BY DEF UsePerlTypes
<1>. HIDE DEF used
<1>. QED  BY <1>7, <1>8

LEMMA AllAreUsed ==
  ASSUME NEW g, GlobalShape(g), BindingTells(g), SlotsLeft(g)
  PROVE  LET h == UsePerlTypes(g)
         IN /\ GlobalShape(h) /\ BindingTells(h) /\ DOMAIN h.perl = PerlNames
            /\ Stays(g.types, h.types) /\ h.users = g.users
<1>1. PICK used :
        /\ UsePerlTypes(g) = used[Len(PerlTypes)]
        /\ used = [n \in 0..Len(PerlTypes) |-> IF n = 0 THEN g
                                               ELSE UsePerlType(used[n - 1], PerlTypes[n])]
  BY OneAfterTheOther
<1>11. PerlTypes \in Seq(STRING)  BY GlobalAssumption
<1>2. Len(PerlTypes) \in Nat /\ PerlTypes \in Seq(STRING)  BY <1>11
<1>3. used[0] = g /\ \A n \in 0..Len(PerlTypes) - 1 : used[n + 1] = UsePerlType(used[n], PerlTypes[n + 1])
  <2>1. used[0] = g  BY <1>1, <1>2
  <2>2. ASSUME NEW n \in 0..Len(PerlTypes) - 1
        PROVE  used[n + 1] = UsePerlType(used[n], PerlTypes[n + 1])
    <3>1. n + 1 \in 0..Len(PerlTypes) /\ n + 1 # 0 /\ (n + 1) - 1 = n  BY <1>2
    <3>. QED  BY <1>1, <3>1
  <2>. QED  BY <2>1, <2>2
<1>. DEFINE T == {n \in Nat : n <= Len(PerlTypes) => Using(g, used[n], n)}
<1>4. 0 \in T
  <2>1. Stays(g.types, g.types)  BY DEF Stays
  <2>2. {PerlTypes[i] : i \in 1..0} = {}  OBVIOUS
  <2>. QED  BY <1>3, <2>1, <2>2 DEF Using
<1>5. ASSUME NEW n \in T  PROVE n + 1 \in T
  <2>1. n \in Nat  OBVIOUS
  <2>2. SUFFICES ASSUME n + 1 <= Len(PerlTypes)  PROVE Using(g, used[n + 1], n + 1)
    BY <2>1
  <2>3. n <= Len(PerlTypes) /\ n \in 0..Len(PerlTypes) - 1  BY <1>2, <2>1, <2>2
  <2>4. Using(g, used[n], n)  BY <2>3
  <2>5. used[n + 1] = UsePerlType(used[n], PerlTypes[n + 1])  BY <1>3, <2>3
  <2>6. Using(g, UsePerlType(used[n], PerlTypes[n + 1]), n + 1)  BY <2>1, <2>2, <2>4, OneIsUsed
  <2>. QED  BY <2>5, <2>6
<1>6. T \in SUBSET Nat  OBVIOUS
<1>. HIDE DEF T
<1>7. T = Nat  BY <1>4, <1>5, <1>6, EveryNumber
<1>8. Using(g, used[Len(PerlTypes)], Len(PerlTypes))  BY <1>2, <1>7 DEF T
<1>9. {PerlTypes[i] : i \in 1..Len(PerlTypes)} = PerlNames  BY <1>2 DEF PerlNames, ToSet
<1>10. DOMAIN g.perl \subseteq PerlNames  BY DEF BindingTells
<1>. QED  BY <1>1, <1>8, <1>9, <1>10 DEF Using

-----------------------------------------------------------------------------
\* The contexts of scripts: their values have the numbers of the slots with their types.
ContextsTell(cs, ts) ==
  /\ cs = [c \in DOMAIN cs |-> cs[c]]
  /\ \A c \in DOMAIN cs : cs[c] = [hemp |-> cs[c].hemp, values |-> cs[c].values]
  /\ \A c \in DOMAIN cs : \A v \in cs[c].values :
       v.type \in PerlNames /\ v.id \in Slots /\ ts[v.id] = v.type

\* The binding counts as a user besides the Hemps, so that the last Hemp does not take the
\* table of types with it.
UsersCounted(g, hs) ==
  /\ IsFiniteSet(DOMAIN hs)
  /\ g.users >= Cardinality(DOMAIN hs)
  /\ DOMAIN g.perl # {} => g.users > Cardinality(DOMAIN hs)

SharedInv ==
  /\ GlobalShape(global) /\ BindingTells(global) /\ DOMAIN global.perl \in {{}, PerlNames}
  /\ UsersCounted(global, hemps)
  /\ ContextsTell(contexts, global.types)
  /\ DOMAIN contexts # {} => DOMAIN global.perl # {}

LEMMA HempsCount ==
  ASSUME NEW hs, IsFiniteSet(DOMAIN hs), NEW x
  PROVE  /\ Cardinality(DOMAIN hs) \in Nat
         /\ IsFiniteSet(DOMAIN hs \union {x}) /\ IsFiniteSet(DOMAIN hs \ {x})
         /\ Cardinality(DOMAIN hs \union {x}) <= Cardinality(DOMAIN hs) + 1
         /\ x \in DOMAIN hs => /\ Cardinality(DOMAIN hs \ {x}) = Cardinality(DOMAIN hs) - 1
                               /\ Cardinality(DOMAIN hs) > 0
<1>1. Cardinality(DOMAIN hs) \in Nat  BY FS_CardinalityType
<1>2. /\ IsFiniteSet(DOMAIN hs \union {x})
      /\ Cardinality(DOMAIN hs \union {x}) =
           IF x \in DOMAIN hs THEN Cardinality(DOMAIN hs) ELSE Cardinality(DOMAIN hs) + 1
  BY FS_AddElement
<1>3. /\ IsFiniteSet(DOMAIN hs \ {x})
      /\ Cardinality(DOMAIN hs \ {x}) =
           IF x \in DOMAIN hs THEN Cardinality(DOMAIN hs) - 1 ELSE Cardinality(DOMAIN hs)
  BY FS_RemoveElement
<1>4. x \in DOMAIN hs => Cardinality(DOMAIN hs) # 0  BY FS_EmptySet
<1>. QED  BY <1>1, <1>2, <1>3, <1>4

\* What is registered stays, so values keep their types.
LEMMA ValuesStay ==
  ASSUME NEW cs, NEW ts, NEW us, ContextsTell(cs, ts), Stays(ts, us)
  PROVE  ContextsTell(cs, us)
<1>1. \A p \in PerlNames : p # "unused"  BY GlobalAssumption DEF PerlNames
<1>. QED  BY <1>1 DEF ContextsTell, Stays

LEMMA BindingStays ==
  ASSUME NEW g, NEW h, BindingTells(g), h.perl = g.perl, Stays(g.types, h.types)
  PROVE  BindingTells(h)
<1>1. \A p \in PerlNames : p # "unused"  BY GlobalAssumption DEF PerlNames
<1>. QED  BY <1>1 DEF BindingTells, Stays

LEMMA SharedStarts ==
  ASSUME GlobalsInit
  PROVE  SharedInv
<1>1. global.types = [n \in 0..TypesSize - 1 |-> "none"] /\ global.perl = [t \in {} |-> 0] /\ global.users = 0
  BY DEF GlobalsInit, NoTypes
<1>2. PICK ts, q : ts = global.types /\ q = global.perl  OBVIOUS
<1>3. ts = [n \in 0..TypesSize - 1 |-> ts[n]] /\ q = [t \in DOMAIN q |-> q[t]] /\ DOMAIN q = {}
  BY <1>1, <1>2
<1>4. global = [users |-> global.users, parts |-> global.parts, names |-> global.names,
                types |-> global.types, perl |-> global.perl]
  BY DEF GlobalsInit
<1>5. GlobalShape(global) /\ BindingTells(global) /\ DOMAIN global.perl = {}
  BY <1>1, <1>2, <1>3, <1>4 DEF GlobalShape, BindingTells
<1>6. DOMAIN hemps = {} /\ DOMAIN contexts = {} /\ contexts = [c \in {} |-> NoContext]  BY DEF GlobalsInit
<1>7. UsersCounted(global, hemps)  BY <1>1, <1>5, <1>6, FS_EmptySet DEF UsersCounted
<1>8. ContextsTell(contexts, global.types)  BY <1>6 DEF ContextsTell
<1>. QED  BY <1>5, <1>6, <1>7, <1>8 DEF SharedInv

\* Where only namespaces are made, and Hemps stay.
LEMMA NamesKeep ==
  ASSUME SharedInv, NEW names, global' = [global EXCEPT !.names = names],
         DOMAIN hemps' = DOMAIN hemps, contexts' = contexts
  PROVE  SharedInv'
<1>1. GlobalShape(global)  BY DEF SharedInv
<1>2. GlobalShape(global') /\ global'.types = global.types /\ global'.perl = global.perl
      /\ global'.users = global.users
  BY <1>1 DEF GlobalShape
<1>3. BindingTells(global')  BY <1>2 DEF SharedInv, BindingTells
<1>. QED  BY <1>2, <1>3 DEF SharedInv, UsersCounted

\* hemp_global_init(): the parts are made for the first user only, before any type is
\* registered and any value made.
LEMMA InitKeeps ==
  ASSUME NEW g, GlobalShape(g)
  PROVE  LET h == GlobalInit(g)
         IN /\ GlobalShape(h) /\ h.perl = g.perl /\ h.users = g.users + 1
            /\ g.users > 0 => h.types = g.types
<1>. DEFINE Same(k) == GlobalShape(k) /\ k.perl = g.perl /\ k.users = g.users
<1>1. Same(g)  OBVIOUS
<1>2. ASSUME NEW k, Same(k)  PROVE Same(InitNamespaces(k))  BY <1>2 DEF InitNamespaces, InitPart, GlobalShape
<1>3. ASSUME NEW k, Same(k)  PROVE Same(InitTypes(k))
  <2>1. PICK ts : ts = NewTypes  OBVIOUS
  <2>2. ts = [n \in 0..TypesSize - 1 |-> ts[n]]  BY <2>1 DEF NewTypes
  <2>3. InitTypes(k) = IF "types" \in k.parts THEN k
                       ELSE [[k EXCEPT !.types = ts] EXCEPT !.parts = @ \union {"types"}]
    BY <2>1 DEF InitTypes, InitPart
  <2>. QED  BY <1>3, <2>2, <2>3 DEF GlobalShape
<1>4. ASSUME NEW k, Same(k)  PROVE Same(InitSymbols(k))  BY <1>4 DEF InitSymbols, InitPart, GlobalShape
<1>5. ASSUME NEW k, Same(k)  PROVE Same(InitModules(k))  BY <1>5 DEF InitModules, InitPart, GlobalShape
<1>6. ASSUME NEW k, Same(k)  PROVE Same(InitConfig(k))  BY <1>6 DEF InitConfig, InitPart, GlobalShape
<1>. HIDE DEF Same
<1>7. Same(InitConfig(InitModules(InitSymbols(InitTypes(InitNamespaces(g))))))
  BY <1>1, <1>2, <1>3, <1>4, <1>5, <1>6
<1>8. PICK k : k = IF g.users > 0 THEN g
                   ELSE InitConfig(InitModules(InitSymbols(InitTypes(InitNamespaces(g)))))
  OBVIOUS
<1>9. Same(k) /\ (g.users > 0 => k = g)  BY <1>1, <1>7, <1>8
<1>10. GlobalInit(g) = [k EXCEPT !.users = @ + 1]  BY <1>8 DEF GlobalInit
<1>. QED  BY <1>9, <1>10 DEF Same, GlobalShape

\* What the invariant says of the shared data when it has one user more, and the rest stays.
LEMMA OneMoreUser ==
  ASSUME NEW g, GlobalShape(g), BindingTells(g), NEW cs, ContextsTell(cs, g.types),
         DOMAIN cs # {} => DOMAIN g.perl # {}, DOMAIN g.perl # {} => g.users > 0
  PROVE  LET h == GlobalInit(g)
         IN /\ GlobalShape(h) /\ BindingTells(h) /\ h.perl = g.perl /\ h.users = g.users + 1
            /\ ContextsTell(cs, h.types)
<1>. DEFINE h == GlobalInit(g)
<1>1. /\ GlobalShape(h) /\ h.perl = g.perl /\ h.users = g.users + 1
      /\ g.users > 0 => h.types = g.types
  BY InitKeeps
<1>. HIDE DEF h
<1>2. CASE DOMAIN g.perl # {}
  <2>1. h.types = g.types  BY <1>1, <1>2
  <2>. QED  BY <1>1, <2>1 DEF BindingTells, h
<1>3. CASE DOMAIN g.perl = {}
  <2>1. DOMAIN h.perl = {} /\ DOMAIN cs = {}  BY <1>1, <1>3
  <2>2. BindingTells(h)  BY <2>1 DEF BindingTells
  <2>3. ContextsTell(cs, h.types)  BY <2>1 DEF ContextsTell
  <2>. QED  BY <1>1, <2>2, <2>3 DEF h
<1>. QED  BY <1>2, <1>3

LEMMA CreateKeeps ==
  ASSUME SharedInv, NEW h \in Objects, CreateHemp(h)
  PROVE  SharedInv'
<1>1. /\ global' = GlobalInit(global) /\ DOMAIN hemps' = DOMAIN hemps \union {h} /\ contexts' = contexts
  BY DEF CreateHemp, With
<1>2. /\ GlobalShape(global) /\ BindingTells(global) /\ UsersCounted(global, hemps)
      /\ ContextsTell(contexts, global.types)
  BY DEF SharedInv
<1>3. global.users \in Nat  BY <1>2 DEF GlobalShape
<1>4. Cardinality(DOMAIN hemps) \in Nat /\ IsFiniteSet(DOMAIN hemps \union {h})
      /\ Cardinality(DOMAIN hemps \union {h}) <= Cardinality(DOMAIN hemps) + 1
      /\ Cardinality(DOMAIN hemps \union {h}) \in Nat
  BY <1>2, HempsCount, FS_CardinalityType DEF UsersCounted
<1>5. DOMAIN global.perl # {} => global.users > 0  BY <1>2, <1>3, <1>4 DEF UsersCounted
<1>6. DOMAIN contexts # {} => DOMAIN global.perl # {}  BY DEF SharedInv
<1>7. /\ GlobalShape(global') /\ BindingTells(global') /\ global'.perl = global.perl
      /\ global'.users = global.users + 1 /\ ContextsTell(contexts', global'.types)
  BY <1>1, <1>2, <1>5, <1>6, OneMoreUser
<1>8. UsersCounted(global', hemps')  BY <1>1, <1>2, <1>3, <1>4, <1>7 DEF UsersCounted
<1>. QED  BY <1>1, <1>6, <1>7, <1>8 DEF SharedInv

LEMMA FreeKeeps ==
  ASSUME SharedInv, NEW h \in Objects, FreeHemp(h)
  PROVE  SharedInv'
<1>1. /\ global' = GlobalFree(global) /\ DOMAIN hemps' = DOMAIN hemps \ {h} /\ contexts' = contexts
      /\ h \in DOMAIN hemps
  BY DEF FreeHemp, Restrict
<1>2. /\ GlobalShape(global) /\ BindingTells(global) /\ UsersCounted(global, hemps)
      /\ ContextsTell(contexts, global.types)
  BY DEF SharedInv
<1>3. global.users \in Nat  BY <1>2 DEF GlobalShape
<1>4. Cardinality(DOMAIN hemps) \in Nat /\ IsFiniteSet(DOMAIN hemps \ {h})
      /\ Cardinality(DOMAIN hemps \ {h}) = Cardinality(DOMAIN hemps) - 1 /\ Cardinality(DOMAIN hemps) > 0
  BY <1>1, <1>2, HempsCount DEF UsersCounted
<1>5. global.users > 0 /\ (DOMAIN global.perl # {} => global.users > 1)  BY <1>2, <1>3, <1>4 DEF UsersCounted
<1>6. PICK k : k = [global EXCEPT !.users = @ - 1]  OBVIOUS
<1>7. GlobalShape(k) /\ k.types = global.types /\ k.perl = global.perl /\ k.users = global.users - 1
  BY <1>2, <1>3, <1>5, <1>6 DEF GlobalShape
<1>8. global' = IF k.users = 0 THEN FreeParts(k) ELSE k  BY <1>1, <1>6 DEF GlobalFree
<1>9. CASE k.users # 0
  <2>1. global' = k  BY <1>8, <1>9
  <2>2. BindingTells(k)  BY <1>2, <1>7 DEF BindingTells
  <2>3. UsersCounted(global', hemps')  BY <1>1, <1>2, <1>3, <1>4, <1>7, <2>1 DEF UsersCounted
  <2>. QED  BY <1>1, <1>7, <2>1, <2>2, <2>3 DEF SharedInv
<1>10. CASE k.users = 0
  <2>1. DOMAIN global.perl = {}  BY <1>3, <1>5, <1>7, <1>10
  <2>2. DOMAIN contexts = {}  BY <2>1 DEF SharedInv
  <2>3. PICK ts : ts = NoTypes  OBVIOUS
  <2>4. ts = [n \in 0..TypesSize - 1 |-> ts[n]]  BY <2>3 DEF NoTypes
  <2>5. PICK f : f = FreeTypes([k EXCEPT !.parts = @ \ {"config", "modules", "symbols"}])  OBVIOUS
  <2>6. GlobalShape(f) /\ f.perl = k.perl /\ f.users = k.users
    BY <1>7, <2>3, <2>4, <2>5 DEF FreeTypes, GlobalShape
  <2>7. global' = FreeNamespaces(f)  BY <1>8, <1>10, <2>5 DEF FreeParts
  <2>8. GlobalShape(global') /\ global'.perl = f.perl /\ global'.users = f.users
    BY <2>6, <2>7 DEF FreeNamespaces, GlobalShape
  <2>9. global'.users = 0 /\ DOMAIN global'.perl = {}  BY <1>7, <1>10, <2>1, <2>6, <2>8
  <2>10. BindingTells(global')  BY <2>9 DEF BindingTells
  <2>11. UsersCounted(global', hemps')
    <3>1. global.users = 1  BY <1>3, <1>7, <1>10
    <3>2. Cardinality(DOMAIN hemps) <= 1  BY <1>2, <1>4, <3>1 DEF UsersCounted
    <3>3. Cardinality(DOMAIN hemps') = 0  BY <1>1, <1>4, <3>2
    <3>. QED  BY <1>1, <1>4, <2>9, <3>3 DEF UsersCounted
  <2>12. ContextsTell(contexts', global'.types)  BY <1>1, <1>2, <2>2 DEF ContextsTell
  <2>. QED  BY <1>1, <2>2, <2>8, <2>9, <2>10, <2>11, <2>12 DEF SharedInv
<1>. QED  BY <1>9, <1>10

LEMMA RegisterKeeps ==
  ASSUME SharedInv, NEW t \in TypeNames, RegisterType(t)
  PROVE  SharedInv'
<1>1. hemps' = hemps /\ contexts' = contexts  BY DEF RegisterType
<1>2. /\ GlobalShape(global) /\ BindingTells(global) /\ UsersCounted(global, hemps)
      /\ ContextsTell(contexts, global.types)
  BY DEF SharedInv
<1>3. CASE global' = global  BY <1>1, <1>3 DEF SharedInv
<1>4. CASE TypeFits(global, t) /\ global' = UseType(global, t)
  <2>1. t # "unused"  BY GlobalAssumption
  <2>2. GlobalShape(UseType(global, t))  BY <1>2, <1>4, <2>1, TypeIsUsed
  <2>3. Stays(global.types, global'.types) /\ global'.perl = global.perl /\ global'.users = global.users
    BY <1>2, <1>4, <2>1, TypesStay
  <2>4. GlobalShape(global')  BY <1>4, <2>2
  <2>5. PICK g : g = global'  OBVIOUS
  <2>6. BindingTells(g)  BY <1>2, <2>3, <2>5, BindingStays
  <2>7. ContextsTell(contexts, g.types)  BY <1>2, <2>3, <2>5, ValuesStay
  <2>. QED  BY <1>1, <1>2, <2>3, <2>4, <2>5, <2>6, <2>7 DEF SharedInv, UsersCounted
<1>. QED  BY <1>3, <1>4 DEF RegisterType

\* hemp_perl_init(): the binding registers its types, or ends the program.
LEMMA PerlNewKeeps ==
  ASSUME SharedInv, NEW h \in Objects, PerlNew(h)
  PROVE  SharedInv'
<1>1. DOMAIN hemps' = DOMAIN hemps \union {h} /\ contexts' = contexts  BY DEF PerlNew, With
<1>2. /\ GlobalShape(global) /\ BindingTells(global) /\ UsersCounted(global, hemps)
      /\ ContextsTell(contexts, global.types)
  BY DEF SharedInv
<1>3. global.users \in Nat  BY <1>2 DEF GlobalShape
<1>4. Cardinality(DOMAIN hemps) \in Nat /\ IsFiniteSet(DOMAIN hemps \union {h})
      /\ Cardinality(DOMAIN hemps \union {h}) <= Cardinality(DOMAIN hemps) + 1
      /\ Cardinality(DOMAIN hemps \union {h}) \in Nat
  BY <1>2, HempsCount, FS_CardinalityType DEF UsersCounted
<1>5. DOMAIN global.perl # {} => global.users > 0  BY <1>2, <1>3, <1>4 DEF UsersCounted
<1>6. DOMAIN contexts # {} => DOMAIN global.perl # {}  BY DEF SharedInv
<1>7. PICK g : g = GlobalInit(global)  OBVIOUS
<1>8. /\ GlobalShape(g) /\ BindingTells(g) /\ g.perl = global.perl
      /\ g.users = global.users + 1 /\ ContextsTell(contexts, g.types)
  BY <1>2, <1>5, <1>6, <1>7, OneMoreUser
<1>9. g.users > 0  BY <1>3, <1>8
<1>10. PICK k : k = GlobalInit(g)  OBVIOUS
<1>11. /\ GlobalShape(k) /\ BindingTells(k) /\ k.perl = g.perl
       /\ k.users = g.users + 1 /\ ContextsTell(contexts, k.types)
  BY <1>6, <1>8, <1>9, <1>10, OneMoreUser
<1>12. k.types = g.types  BY <1>8, <1>9, <1>10, InitKeeps
<1>13. k.users = global.users + 2  BY <1>3, <1>8, <1>11
<1>14. CASE global' = k
  <2>1. UsersCounted(k, hemps')  BY <1>1, <1>2, <1>3, <1>4, <1>8, <1>11, <1>13 DEF UsersCounted
  <2>2. DOMAIN k.perl \in {{}, PerlNames}  BY <1>8, <1>11 DEF SharedInv
  <2>. QED  BY <1>1, <1>6, <1>8, <1>11, <1>14, <2>1, <2>2 DEF SharedInv
<1>15. CASE PerlTypesFit(g) /\ global' = UsePerlTypes(k)
  <2>1. \A p : Registered(k, p) = Registered(g, p)  BY <1>12 DEF Registered
  <2>2. Lacking(k) = {t \in PerlNames : Registered(g, t) = {}}  BY <2>1 DEF Lacking
  <2>3. SlotsLeft(k)  BY <1>15, <2>1, <2>2 DEF SlotsLeft, PerlTypesFit, PerlNames
  <2>4. PICK m : m = global'  OBVIOUS
  <2>5. /\ GlobalShape(m) /\ BindingTells(m) /\ DOMAIN m.perl = PerlNames
        /\ Stays(k.types, m.types) /\ m.users = k.users
    BY <1>11, <1>15, <2>3, <2>4, AllAreUsed
  <2>6. ContextsTell(contexts, m.types)  BY <1>11, <2>5, ValuesStay
  <2>7. UsersCounted(m, hemps')  BY <1>1, <1>2, <1>3, <1>4, <1>13, <2>5 DEF UsersCounted
  <2>8. DOMAIN contexts # {} => DOMAIN m.perl # {}
    <3>1. DOMAIN global.perl \subseteq PerlNames  BY <1>2 DEF BindingTells
    <3>. QED  BY <1>6, <2>5, <3>1
  <2>. QED  BY <1>1, <2>4, <2>5, <2>6, <2>7, <2>8 DEF SharedInv
<1>. QED  BY <1>7, <1>10, <1>14, <1>15 DEF PerlNew, PerlInit

\* A script makes a context, lets go of it, sets a value, or renders a template.
LEMMA ContextsKeep ==
  ASSUME SharedInv, NEW cs, contexts' = cs, UNCHANGED global, DOMAIN hemps' = DOMAIN hemps,
         ContextsTell(cs, global.types), DOMAIN cs # {} => DOMAIN global.perl # {}
  PROVE  SharedInv'
BY DEF SharedInv, UsersCounted

LEMMA PerlContextKeeps ==
  ASSUME SharedInv, NEW c, NEW h, PerlContext(h, c)
  PROVE  SharedInv'
<1>1. PICK cs : cs = contexts'  OBVIOUS
<1>2. PICK new : new = [hemp |-> h, values |-> {}]  OBVIOUS
<1>3. cs = With(contexts, c, new)  BY <1>1, <1>2 DEF PerlContext
<1>4. new = [hemp |-> new.hemp, values |-> new.values] /\ new.values = {}  BY <1>2
<1>5. ContextsTell(contexts, global.types)  BY DEF SharedInv
<1>6. DOMAIN cs = DOMAIN contexts \union {c} /\ cs = [x \in DOMAIN cs |-> cs[x]]  BY <1>3 DEF With
<1>7. \A x \in DOMAIN cs : cs[x] = IF x = c THEN new ELSE contexts[x]  BY <1>3 DEF With
<1>8. ContextsTell(cs, global.types)
  <2>1. ASSUME NEW x \in DOMAIN cs
        PROVE  /\ cs[x] = [hemp |-> cs[x].hemp, values |-> cs[x].values]
               /\ \A v \in cs[x].values :
                    v.type \in PerlNames /\ v.id \in Slots /\ global.types[v.id] = v.type
    <3>1. CASE x = c  BY <1>4, <1>7, <3>1
    <3>2. CASE x # c  BY <1>5, <1>6, <1>7, <3>2 DEF ContextsTell
    <3>. QED  BY <3>1, <3>2
  <2>. QED  BY <1>6, <2>1 DEF ContextsTell
<1>. QED  BY <1>1, <1>8, ContextsKeep DEF PerlContext

LEMMA PerlFreeContextKeeps ==
  ASSUME SharedInv, NEW c, PerlFreeContext(c)
  PROVE  SharedInv'
<1>1. PICK cs : cs = contexts'  OBVIOUS
<1>2. cs = [x \in DOMAIN contexts \ {c} |-> contexts[x]]  BY <1>1 DEF PerlFreeContext, Restrict
<1>3. /\ DOMAIN cs = DOMAIN contexts \ {c} /\ cs = [x \in DOMAIN cs |-> cs[x]]
      /\ \A x \in DOMAIN cs : x \in DOMAIN contexts /\ cs[x] = contexts[x]
  BY <1>2
<1>4. ContextsTell(contexts, global.types)  BY DEF SharedInv
<1>5. ContextsTell(cs, global.types)  BY <1>3, <1>4 DEF ContextsTell
<1>6. DOMAIN cs # {} => DOMAIN global.perl # {}  BY <1>3 DEF SharedInv
<1>. QED  BY <1>1, <1>5, <1>6, ContextsKeep DEF PerlFreeContext

LEMMA PerlSetKeeps ==
  ASSUME SharedInv, NEW c, NEW t \in PerlNames, PerlSet(c, t)
  PROVE  SharedInv'
<1>1. PICK cs, new : cs = contexts' /\ new = [type |-> t, id |-> global.perl[t]]  OBVIOUS
<1>2. c \in DOMAIN contexts  BY DEF PerlSet
<1>3. ContextsTell(contexts, global.types) /\ BindingTells(global)  BY DEF SharedInv
<1>4. DOMAIN global.perl = PerlNames  BY <1>2 DEF SharedInv
<1>5. new.type \in PerlNames /\ new.id \in Slots /\ global.types[new.id] = new.type
  BY <1>1, <1>3, <1>4 DEF BindingTells
<1>6. PICK old : old = contexts[c]  OBVIOUS
<1>7. old = [hemp |-> old.hemp, values |-> old.values]  BY <1>2, <1>3, <1>6 DEF ContextsTell
<1>8. PICK now : now = [hemp |-> old.hemp, values |-> old.values \union {new}]  OBVIOUS
<1>9. now = [old EXCEPT !.values = @ \union {new}]  BY <1>7, <1>8
<1>10. now = [hemp |-> now.hemp, values |-> now.values] /\ now.values = old.values \union {new}  BY <1>8
<1>11. cs = [contexts EXCEPT ![c].values = @ \union {new}]  BY <1>1 DEF PerlSet
<1>12. cs = [contexts EXCEPT ![c] = now]  BY <1>6, <1>9, <1>11
<1>13. /\ DOMAIN cs = DOMAIN contexts /\ cs = [x \in DOMAIN cs |-> cs[x]]
       /\ \A x \in DOMAIN cs : cs[x] = IF x = c THEN now ELSE contexts[x]
  <2>1. contexts = [x \in DOMAIN contexts |-> contexts[x]]  BY <1>3 DEF ContextsTell
  <2>. QED  BY <1>12, <2>1
<1>14. \A v \in old.values : v.type \in PerlNames /\ v.id \in Slots /\ global.types[v.id] = v.type
  BY <1>2, <1>3, <1>6 DEF ContextsTell
<1>15. ContextsTell(cs, global.types)
  <2>1. ASSUME NEW x \in DOMAIN cs
        PROVE  /\ cs[x] = [hemp |-> cs[x].hemp, values |-> cs[x].values]
               /\ \A v \in cs[x].values :
                    v.type \in PerlNames /\ v.id \in Slots /\ global.types[v.id] = v.type
    <3>1. CASE x = c  BY <1>5, <1>10, <1>13, <1>14, <3>1
    <3>2. CASE x # c  BY <1>3, <1>13, <3>2 DEF ContextsTell
    <3>. QED  BY <3>1, <3>2
  <2>. QED  BY <1>13, <2>1 DEF ContextsTell
<1>16. DOMAIN cs # {} => DOMAIN global.perl # {}  BY <1>13 DEF SharedInv
<1>. QED  BY <1>1, <1>15, <1>16, ContextsKeep DEF PerlSet

LEMMA OthersKeep ==
  ASSUME SharedInv,
         \/ \E h \in Objects : MakeViewer(h) \/ Uncaught(h)
         \/ \E h \in Objects, name \in ElementNames :
              MakeElement(h, name) \/ \E v \in Views : GiveView(h, name, v)
         \/ \E c \in PerlContexts : PerlRender(c)
  PROVE  SharedInv'
<1>1. ASSUME NEW h, MakeViewer(h)  PROVE SharedInv'
  <2>1. PICK made : /\ global' = [global EXCEPT !.names = made.names]
                    /\ hemps' = [hemps EXCEPT ![h] = made.hemp] /\ contexts' = contexts
    BY <1>1 DEF MakeViewer
  <2>2. DOMAIN hemps' = DOMAIN hemps  BY <2>1
  <2>. QED  BY <2>1, <2>2, NamesKeep
<1>2. ASSUME NEW h, Uncaught(h)  PROVE SharedInv'  BY <1>2 DEF Uncaught, SharedInv
<1>3. ASSUME NEW h, NEW name, MakeElement(h, name)  PROVE SharedInv'
  <2>1. PICK names : names = Namespace(global.names, name)  OBVIOUS
  <2>2. global' = [global EXCEPT !.names = names] /\ hemps' = hemps /\ contexts' = contexts
    BY <1>3, <2>1 DEF MakeElement
  <2>. QED  BY <2>2, NamesKeep
<1>4. ASSUME NEW h, NEW name, NEW v, GiveView(h, name, v)  PROVE SharedInv'
  <2>1. PICK made : /\ global' = [global EXCEPT !.names = made.names]
                    /\ hemps' = [hemps EXCEPT ![h] = made.hemp] /\ contexts' = contexts
    BY <1>4 DEF GiveView
  <2>2. DOMAIN hemps' = DOMAIN hemps  BY <2>1
  <2>. QED  BY <2>1, <2>2, NamesKeep
<1>5. ASSUME NEW c, PerlRender(c)  PROVE SharedInv'
  <2>1. UNCHANGED <<global, contexts>> /\ DOMAIN hemps' = DOMAIN hemps  BY <1>5 DEF PerlRender
  <2>. QED  BY <2>1 DEF SharedInv, UsersCounted
<1>. QED  BY <1>1, <1>2, <1>3, <1>4, <1>5

LEMMA SharedInvariant == GlobalsSpec => []SharedInv
<1>1. ASSUME SharedInv, [GlobalsNext]_globalVars  PROVE SharedInv'
  <2>1. CASE UNCHANGED globalVars  BY <1>1, <2>1 DEF SharedInv, globalVars
  <2>2. CASE GlobalsNext
    BY <1>1, <2>2, CreateKeeps, FreeKeeps, RegisterKeeps, PerlNewKeeps, PerlContextKeeps,
       PerlFreeContextKeeps, PerlSetKeeps, OthersKeep DEF GlobalsNext, PerlNames
  <2>. QED  BY <1>1, <2>1, <2>2
<1>. QED  BY <1>1, SharedStarts, PTL DEF GlobalsSpec

\* A value that a context of a Perl script holds keeps the number of a slot with the type
\* that it was made with, whichever Hemps the script lets go of and makes, because the
\* binding counts as a user of the shared data (hemp_perl_init(), hemp_global_free()), and a
\* type that is registered never leaves its slot (hemp_use_type()).
THEOREM ValuesKeepTypes == GlobalsSpec => []ValuesHaveTypes
<1>1. ASSUME SharedInv  PROVE ValuesHaveTypes
  BY <1>1 DEF SharedInv, ContextsTell, ValuesHaveTypes
<1>. QED  BY <1>1, SharedInvariant, PTL
=============================================================================
