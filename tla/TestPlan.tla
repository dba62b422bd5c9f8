------------------------------ MODULE TestPlan ------------------------------
(***************************************************************************)
(* The plan that the tests of hemp report to.  A program says how many     *)
(* tests it has, reports the result of each, and ends with a status that   *)
(* is to be zero when all of them were run and passed.  There is one       *)
(* global plan at a time.  A test that is still to do, which would not     *)
(* count as failed, cannot be announced: nothing sets todo.                *)
(***************************************************************************)
EXTENDS Integers, Sequences

CONSTANTS
  StatusSize,  \* the number of exit statuses: 256
  MaxTests,    \* a bound on the tests that a program plans or runs
  NoPlan

ASSUME PlanAssumption ==
  /\ StatusSize \in Nat \ {0}
  /\ MaxTests \in Nat
  /\ NoPlan \notin [planned : Nat, tested : Nat, passed : Nat, failed : Nat]

VARIABLES
  plan,    \* hemp_global_test_plan
  passes,  \* what was reported since the plan was made, in order: whether each test passed
  ended    \* how the last plan ended: its size, what was reported and the result

planVars == <<plan, passes, ended>>

\* hemp_test_global_plan() and hemp_test_plan_setup().
Planned(k) == [planned |-> k, tested |-> 0, passed |-> 0, failed |-> 0]

PlanTests(k) ==
  /\ plan = NoPlan
  /\ plan' = Planned(k)
  /\ passes' = <<>>
  /\ UNCHANGED ended

\* hemp_test_result() with a name that is one.
Counted(p, pass) ==
  [planned |-> p.planned,
   tested |-> p.tested + 1,
   passed |-> IF pass THEN p.passed + 1 ELSE p.passed,
   failed |-> IF pass THEN p.failed ELSE p.failed + 1]

Result(pass) ==
  /\ plan # NoPlan
  /\ plan' = Counted(plan, pass)
  /\ passes' = Append(passes, pass)
  /\ UNCHANGED ended

\* Mutant: tests that were not run are forgotten.
PlanFailed(p) == IF p.planned < p.tested THEN p.tested - p.planned ELSE p.failed

\* hemp_test_plan_result(): the tests that were run beyond the plan, or else those that
\* failed and those that were not run.
PlanResult(p) ==
  IF p.planned < p.tested THEN p.tested - p.planned ELSE p.failed + p.planned - p.tested

\* hemp_test_done().
Done ==
  /\ plan # NoPlan
  /\ ended' = [planned |-> plan.planned, passes |-> passes, result |-> PlanResult(plan)]
  /\ plan' = NoPlan
  /\ UNCHANGED passes

PlanInit ==
  /\ plan = NoPlan
  /\ passes = <<>>
  /\ ended = [planned |-> 0, passes |-> <<>>, result |-> 0]

PlanNext ==
  \/ \E k \in 0..MaxTests : PlanTests(k)
  \/ \E pass \in BOOLEAN : Len(passes) < MaxTests /\ Result(pass)
  \/ Done

PlanSpec == PlanInit /\ [][PlanNext]_planVars

-----------------------------------------------------------------------------
\* The type invariant of the plan.
PlanTypeOK ==
  /\ plan \in [planned : Nat, tested : Nat, passed : Nat, failed : Nat] \union {NoPlan}
  /\ passes \in Seq(BOOLEAN)
  /\ ended \in [planned : Nat, passes : Seq(BOOLEAN), result : Nat]

\* A plan ends with zero exactly when as many tests were reported as were planned and each
\* of them passed, though it is worked out from counters that are added to at one place and
\* subtracted at another (hemp_test_result(), hemp_test_plan_result()).
ResultTells ==
  ended.result = 0 <=> /\ Len(ended.passes) = ended.planned
                       /\ \A i \in 1..Len(ended.passes) : ended.passes[i]

\* Departure: the result is the status of the program, of which the system keeps eight
\* bits, so that a program with 256 tests that fail ends like one without any.
StatusTells == ended.result % StatusSize = 0 <=> ended.result = 0
=============================================================================
