---------------------------- MODULE TestLanguage ----------------------------
(***************************************************************************)
(* The hemp.test language (modules/language/test.c): a document that is    *)
(* itself a test script.  Its elements name a language and a dialect, and  *)
(* render the block behind a test as a document; the block of a dangling   *)
(* expect or error says what it is to render to.  What they need is kept   *)
(* in the variables of a context that is not theirs.                       *)
(***************************************************************************)
EXTENDS Rendering

CONSTANTS
  Languages,  \* the languages that there are; each has a dialect of its name
  Undefined   \* a variable without a value

VARIABLES
  blocks,    \* the blocks of the document that are left, by the marks they begin with
  loaded,    \* the languages that the Hemp has loaded
  dialect,   \* the variable of that name
  test,      \* the variable of that name: the test that a branch belongs to
  report,    \* the lines printed for the document: the number of a test, and what it is told to be
  language   \* "idle", "running", or how the document ended

languageVars == <<blocks, loaded, dialect, test, report, language>>

Marks == {"language", "dialect", "test", "expect", "error"}
Branches == {"expect", "error"}

-----------------------------------------------------------------------------
\* hemp_element_test_input_prefix(), hemp_element_test_output_branch(): a branch is parsed
\* behind the block of a test, and one only.
Parses(script) ==
  \A i \in 1..Len(script) : script[i].mark \in Branches => i > 1 /\ script[i - 1].mark = "test"

BeginTests(script) ==
  /\ language = "idle"
  /\ report' = <<>>
  /\ IF Parses(script) THEN blocks' = script /\ language' = "running"
     ELSE blocks' = <<>> /\ language' = "error"
  /\ UNCHANGED <<loaded, dialect, test>>

At(mark) == language = "running" /\ blocks # <<>> /\ Head(blocks).mark = mark

\* hemp_element_test_language_value(): an error leaves the document.
UseLanguage ==
  /\ At("language")
  /\ IF Head(blocks).name \in Languages
     THEN /\ loaded' = loaded \union {Head(blocks).name}
          /\ blocks' = Tail(blocks)
          /\ UNCHANGED language
     ELSE language' = "error" /\ UNCHANGED <<loaded, blocks>>
  /\ UNCHANGED <<dialect, test, report>>

\* hemp_element_test_dialect_value().
UseDialect ==
  /\ At("dialect")
  /\ dialect' = Head(blocks).name
  /\ blocks' = Tail(blocks)
  /\ UNCHANGED <<loaded, test, report, language>>

\* hemp_element_test_input_text() as far as the branch.  An error of the document, or of
\* making it, is caught, and is what the test has got.
HasBranch == Len(blocks) > 1 /\ blocks[2].mark \in Branches
Ran(block) ==
  IF dialect \notin loaded \/ Fails(block) THEN [status |-> "error", output |-> Message]
  ELSE [status |-> "ok", output |-> Output(block)]

Say(ok) == report' = Append(report, [test |-> Head(blocks).name, ok |-> ok])

RunInput ==
  /\ At("test")
  /\ test = Undefined
  /\ IF dialect = Undefined \/ (dialect \in loaded /\ Dies(Head(blocks).block))
     THEN language' = "fatal" /\ UNCHANGED <<blocks, test, report>>
     ELSE LET ran == Ran(Head(blocks).block)
          IN /\ IF HasBranch THEN test' = ran /\ UNCHANGED <<blocks, report>>
                ELSE Say(ran.status = "ok") /\ blocks' = Tail(blocks) /\ UNCHANGED test
             /\ UNCHANGED language
  /\ UNCHANGED <<loaded, dialect>>

\* hemp_element_test_output_text(), for expect and error alike, and the end of the test: a
\* test that got an error is not told.
RunBranch ==
  /\ At("test")
  /\ test # Undefined
  /\ IF test.status = "ok" /\ test.output = <<>>
     THEN language' = "undefined" /\ UNCHANGED <<blocks, test, report>>
     ELSE /\ IF test.status = "ok" THEN Say(Chomp(test.output) = Chomp(blocks[2].block))
             ELSE UNCHANGED report
          /\ test' = Undefined
          /\ blocks' = Tail(Tail(blocks))
          /\ UNCHANGED language
  /\ UNCHANGED <<loaded, dialect>>

EndTests ==
  /\ language = "running"
  /\ blocks = <<>>
  /\ language' = "done"
  /\ UNCHANGED <<blocks, loaded, dialect, test, report>>

LanguageStep == UseLanguage \/ UseDialect \/ RunInput \/ RunBranch \/ EndTests

LanguageInit ==
  /\ blocks = <<>>
  /\ loaded = {"tt3"}  \* by main()
  /\ dialect = Undefined
  /\ test = Undefined
  /\ report = <<>>
  /\ language = "idle"
=============================================================================
