------------------------------- MODULE Program ------------------------------
(***************************************************************************)
(* The command line program (programs/hemp.c): its options, the files or   *)
(* the text it renders, the commands it is given or reads line by line.    *)
(* The strings and texts it allocates are known by what they are for; a    *)
(* HEMP_TRY that is entered is counted until it is left.                   *)
(***************************************************************************)
EXTENDS TestLanguage

CONSTANTS
  Commands,   \* the names of its commands
  Scripts,    \* Scripts[f]: the blocks of a test script, for the name f of a file
  Sessions,   \* the command lines and the lines that are typed
  TestModule  \* whether there may be, and may not be, a module of the test language

ASSUME ProgramAssumption ==
  /\ {"expr", "exprs", "data", "text", "test", "file", "help", "quit"} = Commands
  /\ TestModule \subseteq BOOLEAN

VARIABLES
  session,  \* what it was called with
  lines,    \* the lines that will be typed, after which the input ends
  pc,       \* where it is
  args,     \* the text that the command works on; None for NULL
  owned,    \* what it has allocated and not freed
  tries,    \* the HEMP_TRYs it is in
  status    \* what it has ended with, or -1

programVars == <<session, lines, pc, args, owned, tries, status>>

None == <<"NULL">>
Stopped == pc \in {"returned", "exited", "uncaught", "dead"}

Goto(place) == pc' = place
Exit(code) == pc' = "exited" /\ status' = code

\* The next line, without the white space around it.
Typed == Trim(Head(lines))

\* hemp_input_read(): the last line is freed, also where there is no other.
Reads(rest) ==
  /\ lines' = IF lines = <<>> THEN <<>> ELSE Tail(lines)
  /\ owned' = IF lines = <<>> THEN (owned \ {"line"}) \union rest
              ELSE owned \union {"line"} \union rest

-----------------------------------------------------------------------------
\* hemp_getopt() ends the program for a configuration that is not read, and for a command
\* that is none.
BadOptions == session.config = "bad" \/ session.execute \notin Commands \union {"none"}

\* hemp_prompt_init() and the choice that main() makes.
Main ==
  /\ pc = "main"
  /\ CASE BadOptions -> owned' = {"prompt"} /\ Exit(1) /\ UNCHANGED args
       [] ~BadOptions /\ session.execute # "none" ->
            /\ Goto(session.execute)
            /\ args' = IF session.rest = <<>> THEN None ELSE Head(session.rest)
            /\ owned' = {"prompt"}
            /\ UNCHANGED status
       [] ~BadOptions /\ session.execute = "none" /\ session.rest # <<>> /\ session.text ->
            /\ Goto("print")
            /\ args' = FlattenSeq([i \in 1..Len(session.rest) |-> Append(session.rest[i], Blank)])
            /\ owned' = {"prompt", "input"}
            /\ UNCHANGED status
       [] OTHER ->
            /\ Goto(IF session.rest = <<>> THEN "prompt" ELSE "files")
            /\ owned' = {"prompt"}
            /\ UNCHANGED <<args, status>>
  /\ UNCHANGED <<session, lines, tries, languageVars>>

\* The text, or the next file: there is no HEMP_TRY around them.
Shown(source) ==
  IF Dies(source) THEN "dead" ELSE IF Fails(source) THEN "uncaught" ELSE "leave"

PrintText ==
  /\ pc = "print"
  /\ Goto(Shown(args))
  /\ owned' = IF Shown(args) = "leave" THEN owned \ {"input"} ELSE owned
  /\ UNCHANGED <<session, lines, args, tries, status, languageVars>>

PrintFile ==
  /\ pc = "files"
  /\ Goto(IF session.rest = <<>> THEN "leave"
          ELSE IF Shown(Head(session.rest)) = "leave" THEN "files" ELSE Shown(Head(session.rest)))
  /\ session' = IF session.rest = <<>> THEN session ELSE [session EXCEPT !.rest = Tail(@)]
  /\ UNCHANGED <<lines, args, owned, tries, status, languageVars>>

-----------------------------------------------------------------------------
\* Mutant: the end of the input is an empty line.
EndOfInputAgain ==
  /\ pc = "prompt"
  /\ lines = <<>>
  /\ Reads({})
  /\ UNCHANGED <<session, pc, args, tries, status, languageVars>>

\* hemp_interactive() leaves its loop where the input ends.
EndOfInput ==
  /\ pc = "prompt"
  /\ lines = <<>>
  /\ Reads({})
  /\ Goto("leave")
  /\ UNCHANGED <<session, args, tries, status, languageVars>>

\* Otherwise it takes two words from the line, copies that are freed when the command
\* returns.  hemp_command_lookup_or_die() ends the program for a word that is no command.
ReadCommand ==
  /\ pc = "prompt"
  /\ lines # <<>>
  /\ \E words \in {NWords(Typed, 2)} :
       IF words = <<>> THEN Reads({}) /\ UNCHANGED <<pc, args, status>>
       ELSE /\ Reads({"words"})
            /\ args' = IF Len(words) > 1 THEN words[2] ELSE None
            /\ IF words[1] \in {<<name>> : name \in Commands}
               THEN Goto(words[1][1]) /\ UNCHANGED status
               ELSE Exit(1)
  /\ UNCHANGED <<session, tries, languageVars>>

\* The return of a command.  Only quit says that the session is done.
Returned(done) ==
  /\ Goto(IF session.execute = "none" /\ ~done THEN "prompt" ELSE "leave")
  /\ args' = None

Return(done, freed) ==
  /\ Returned(done)
  /\ owned' = owned \ ({"words"} \union freed)
  /\ UNCHANGED <<session, lines, status>>

Simple ==
  /\ pc \in {"data", "text", "file", "help", "quit"}
  /\ Return(pc = "quit", {})
  /\ UNCHANGED <<tries, languageVars>>

\* The text that expr and test work on, or the next line without one.
Given == IF args # None THEN Trim(args) ELSE IF lines = <<>> THEN <<>> ELSE Typed
ReadsFor(rest) ==
  IF args # None THEN owned' = owned \union rest /\ UNCHANGED lines ELSE Reads(rest)

\* hemp_cmd_expr() as far as its HEMP_TRY, from expr and from the loop of exprs.
ExprBegin ==
  /\ pc = "expr"
  /\ Given # <<>>
  /\ ReadsFor({"text"})
  /\ args' = Given
  /\ tries' = tries + 1
  /\ Goto("evaluating")
  /\ UNCHANGED <<session, status, languageVars>>

\* Without a text, or at the end of the input, neither expr nor test does anything.
Nothing ==
  /\ pc \in {"expr", "test"}
  /\ Given = <<>>
  /\ \/ args # None /\ owned' = owned \ {"words"} /\ UNCHANGED lines
     \/ args = None /\ lines = <<>> /\ owned' = owned \ {"words", "line"} /\ UNCHANGED lines
     \/ args = None /\ lines # <<>> /\ owned' = (owned \ {"words"}) \union {"line"} /\ lines' = Tail(lines)
  /\ Returned(FALSE)
  /\ UNCHANGED <<session, tries, status, languageVars>>

\* Mutant: the text is freed where the output is.
ExprEndTidy ==
  /\ pc = "evaluating"
  /\ IF Dies(args) THEN Goto("dead") /\ UNCHANGED <<args, owned, tries, session, lines, status>>
     ELSE Return(FALSE, IF Fails(args) THEN {} ELSE {"text"}) /\ tries' = tries - 1
  /\ UNCHANGED languageVars

\* The rest of it: an error is printed.
ExprEnd ==
  /\ pc = "evaluating"
  /\ IF Dies(args) THEN Goto("dead") /\ UNCHANGED <<args, owned, tries, session, lines, status>>
     ELSE Return(FALSE, {"text"}) /\ tries' = tries - 1
  /\ UNCHANGED languageVars

\* hemp_cmd_exprs(): hemp_cmd_expr() never says that it is done, and is called with the
\* same text each time.
Exprs ==
  /\ pc = "exprs"
  /\ Given # <<>> /\ Dies(Given) => Goto("dead")
  /\ ~(Given # <<>> /\ Dies(Given)) => UNCHANGED pc
  /\ ReadsFor({})
  /\ UNCHANGED <<session, args, tries, status, languageVars>>

\* hemp_cmd_test(): the language is loaded before the HEMP_TRY.  A file that is not there
\* is an error like the others.
TestBegin ==
  /\ pc = "test"
  /\ Given # <<>>
  /\ ReadsFor({})
  /\ \E found \in TestModule :
       IF ~found THEN Goto("uncaught") /\ UNCHANGED <<args, tries, languageVars>>
       ELSE /\ Goto("testing")
            /\ args' = Given
            /\ tries' = tries + 1
            /\ IF Given \in DOMAIN Scripts THEN BeginTests(Scripts[Given])
               ELSE language' = "error" /\ report' = <<>> /\ UNCHANGED <<blocks, loaded, dialect, test>>
  /\ UNCHANGED <<session, status>>

TestStep ==
  /\ pc = "testing"
  /\ LanguageStep
  /\ UNCHANGED programVars

TestEnd ==
  /\ pc = "testing"
  /\ language \in {"done", "error", "fatal", "undefined"}
  /\ IF language \in {"fatal", "undefined"}
     THEN Goto("dead") /\ UNCHANGED <<args, owned, tries, session, lines, status, language>>
     ELSE Return(FALSE, {}) /\ tries' = tries - 1 /\ language' = "idle"
  /\ UNCHANGED <<blocks, loaded, dialect, test, report>>

\* hemp_input_free() of the session, hemp_prompt_free() and hemp_free().
Leave ==
  /\ pc = "leave"
  /\ Goto("returned")
  /\ owned' = owned \ ({"prompt"} \union IF session.execute = "none" THEN {"line"} ELSE {})
  /\ status' = 0
  /\ UNCHANGED <<session, lines, args, tries, languageVars>>

ProgramInit ==
  /\ session \in Sessions
  /\ lines = session.typed
  /\ pc = "main"
  /\ args = None
  /\ owned = {}
  /\ tries = 0
  /\ status = -1
  /\ LanguageInit

ProgramNext ==
  \/ Main \/ PrintText \/ PrintFile
  \/ EndOfInput \/ ReadCommand \/ Simple
  \/ ExprBegin \/ Nothing \/ ExprEnd \/ Exprs
  \/ TestBegin \/ TestStep \/ TestEnd
  \/ Leave

ProgramSpec == ProgramInit /\ [][ProgramNext]_<<programVars, languageVars>>

-----------------------------------------------------------------------------
\* The type invariant.
ProgramTypeOK ==
  /\ pc \in {"main", "print", "files", "prompt", "evaluating", "testing", "leave", "returned",
            "exited", "uncaught", "dead"} \union Commands
  /\ owned \subseteq {"prompt", "input", "line", "words", "text"}
  /\ tries \in 0..1
  /\ status \in {-1, 0, 1}

\* When a session is back at its prompt nothing is left of the commands it has run, however
\* they ended: no HEMP_TRY is open, no test is kept in the variables, and of its own memory
\* there are the prompt and the last line.  When main() returns there is nothing, but for a
\* line that a single command has read (hemp_interactive(), hemp_cmd_expr(),
\* hemp_cmd_test()).
PromptIsClean ==
  /\ pc = "prompt" => tries = 0 /\ test = Undefined /\ owned \subseteq {"prompt", "line"}
  /\ pc = "returned" => /\ tries = 0 /\ test = Undefined
                        /\ owned \subseteq IF session.execute = "none" THEN {} ELSE {"line"}

\* A program whose input ends ends as well, by the end of the input, quit, a word that is
\* not a command or an error that nobody catches, unless exprs was called
\* (hemp_interactive()).
ProgramEnds == <>(Stopped \/ pc = "exprs")

\* Departure: the loop of exprs ends with its input.  hemp_cmd_expr() says that it is done
\* for no text, not even at the end of the input.
ExprsEnd == pc = "exprs" ~> pc # "exprs"

\* Departure: the text of exprs is the "first expression" (programs/hemp.c:458), behind
\* which lines are read; it is given to every turn of the loop.
TextIsFirst == pc = "exprs" /\ args # None ~> pc # "exprs" \/ args = None

\* Departure: what a single command has read is freed when the program returns.
LineIsFreed == pc = "returned" => owned = {}

\* Departure: every test of a document is told to be ok or not, and one that expects an
\* error is ok when it gets that error (modules/language/test.c:560: "the expected error
\* for the preceding input").  A test with a block that fails is not told at all.
TestsAreTold ==
  pc = "testing" /\ language = "done" =>
    Len(report) = Cardinality({i \in 1..Len(Scripts[args]) : Scripts[args][i].mark = "test"})
=============================================================================
