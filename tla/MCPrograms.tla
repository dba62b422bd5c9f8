----------------------------- MODULE MCPrograms -----------------------------
(***************************************************************************)
(* Model checking of the programs around the library: test scripts and     *)
(* their plan, the command line with its tests of the test language, the   *)
(* configuration and variables that are set by dotted names, calls of      *)
(* functions, and the data that is shared by the Hemps of a program and of *)
(* the Perl binding.  They share no state; each behaviour is one of them,  *)
(* its part.                                                               *)
(***************************************************************************)
EXTENDS Program, Testing, Names, Calls, Global

VARIABLE part

programsVars == <<part, planVars, testVars, programVars, languageVars, namesVars, callsVars, globalVars>>

-----------------------------------------------------------------------------
\* Scripts of up to three of these, and one to run behind them.
Tested(name, rest) == <<"test", name, "LF">> \o rest
Expecting(rest) == <<"expect", "LF">> \o rest
Failing(rest) == <<"error", "SP", "LF">> \o rest

Chunks ==
  {<<"start", "LF">>, <<"stop", "LF">>,
   Tested("one", <<"x", "LF">> \o Expecting(<<"x", "LF", "LF">>)),
   Tested("one", <<"LF", "x", "CR", "LF", "y", "LF">> \o Expecting(<<"x", "LF">>)),
   Tested("one", <<"bad", "LF">> \o Failing(<<"oops", "LF">>)),
   Tested("one", <<"bad", "LF">> \o Expecting(<<"x", "LF">>)),
   Tested("one", <<"bad", "LF">> \o Expecting(<<"x", "LF">>) \o Failing(<<"oops", "LF">>)),
   Tested("one", <<"x", "hush", "LF">> \o Failing(<<"oops", "LF">>) \o Expecting(<<"x", "LF">>)),
   Tested("one", <<"x", "LF">> \o Failing(<<"x", "LF">>)),
   Tested("9", <<"x", "LF">>),
   Tested("9", <<"x", "LF">> \o Expecting(<<"x", "LF">>)),
   Tested("one", <<"LF">> \o Expecting(<<"x", "LF">>)),
   Tested("one", <<"hush">> \o Expecting(<<"LF">>)),
   Tested("one", <<"x", "LF">> \o Expecting(<<"LF", "x", "LF">>)),
   Tested("one", <<>>)}

TestScripts ==
  {a \o b \o c : a \in Chunks \union {<<"y", "LF">>}, b \in Chunks \union {<<>>},
                 c \in Chunks \union {<<"test", "one">>}}
Afterwards == Tested("one", <<"x", "LF">> \o Expecting(<<"x", "LF">>))

ScriptNext ==
  \/ script = <<>> /\ passes = <<>> /\ ended.planned = 0 /\ plan = NoPlan /\ \E text \in TestScripts : RunScript(text)
  \/ script # <<>> /\ script # Afterwards /\ RunScript(Afterwards)
  \/ RunTest
  \/ EndScript
  \/ script = <<>> /\ RunProgram

-----------------------------------------------------------------------------
\* Sessions of up to three lines, and the other ways to call the program.
Mark(mark, name, block) == [mark |-> mark, name |-> name, block |-> block]
One == Mark("language", "tt3", <<>>)
Two == Mark("dialect", "tt3", <<>>)
Files ==
  (<<"good">> :> <<One, Two, Mark("test", 1, <<"x">>), Mark("test", 2, <<"x", "LF">>),
                   Mark("expect", 2, <<"x">>), Mark("test", 3, <<"bad">>),
                   Mark("error", 3, <<"oops", "LF">>), Mark("test", 4, <<"x">>),
                   Mark("error", 4, <<"y">>)>>) @@
  (<<"stale">> :> <<Mark("test", 1, <<"y">>), Mark("expect", 1, <<"y">>)>>) @@
  (<<"empty">> :> <<Two, Mark("test", 1, <<"hush">>), Mark("expect", 1, <<"LF">>)>>) @@
  (<<"other">> :> <<Mark("dialect", "json", <<>>), Mark("test", 1, <<"y">>),
                    Mark("language", "json", <<>>), Mark("test", 2, <<"y">>)>>) @@
  (<<"lost">> :> <<Mark("language", "lost", <<>>)>>) @@
  (<<"twice">> :> <<Two, Mark("test", 1, <<"x">>), Mark("expect", 1, <<"x">>),
                    Mark("error", 1, <<"x">>)>>)

CommandLines ==
  {<<"SP">>, <<"help">>, <<"SP", "quit", "SP">>, <<"expr">>, <<"expr", "SP", "SP", "x", "bad", "SP">>,
   <<"expr", "SP", "x", "SP", "x">>, <<"expr", "SP", "dead">>, <<"x">>, <<"exprs">>,
   <<"exprs", "SP", "x">>, <<"test", "x">>, <<"test">>, <<"lost">>}
   \union {<<"test", "SP">> \o file : file \in DOMAIN Files}
Interactive ==
  [execute : {"none"}, rest : {<<>>}, text : {FALSE}, config : {"good"},
   typed : UNION {[1..k -> CommandLines] : k \in 0..3}]
Called ==
  [execute : {"expr", "test", "help", "data", "unknown"}, rest : {<<>>, <<<<"x">>>>, <<<<"good">>>>},
   text : {FALSE}, config : {"good", "bad"}, typed : {<<>>, <<<<"x">>>>}]
Printing ==
  [execute : {"none"}, text : BOOLEAN, config : {"good"}, typed : {<<>>},
   rest : UNION {[1..k -> {<<"x">>, <<"bad">>, <<"dead">>}] : k \in 1..2}]
AllSessions == Interactive \union Called \union Printing

TheMessage == <<"oops", "LF">>

\* Names that fall into columns of their own; one is a number.
OwnColumns == ("a" :> 0) @@ ("b" :> 1) @@ ("1" :> 2)
Numbers == "1" :> 1

-----------------------------------------------------------------------------
\* Templates that define g and f, with parameters and without, and call f with up to two
\* arguments of every kind.  (x) is the only fragment that a variable holds, and no
\* function has a parameter x: one that used itself would be evaluated without end.
A == Variable("a")
B == Variable("b")
X == Variable("x")
F == Variable("f")
G == Variable("g")
L(digit) == Literal(digit)

Args ==
  {A, L("1"), Concat(A, B), Parens(<<L("1"), A>>),
   Assignment("a", L("1")), Assignment("b", Concat(A, L("1"))), Assignment("a", Parens(<<X>>)),
   Apply(G, <<A>>), Apply(G, <<>>), Apply(Assignment("b", G), <<L("1")>>),
   Concat(L("1"), Parens(<<Apply(G, <<L("1")>>)>>)),
   Sub("", <<"a">>, A), Sub("g", <<"a">>, B)}
ArgLists == {<<>>} \union {<<p>> : p \in Args} \union {<<p, q>> : p \in Args, q \in Args}
Bodies ==
  {Concat(A, B), Braces(<<Assignment("b", L("3")), A, B>>), Parens(<<A>>), Braces(<<Apply(G, <<B>>)>>),
   Parens(<<Apply(A, <<B>>), X>>)}

CallTemplates ==
  <<{Assignment("b", L("2")), Assignment("a", L("5"))},
    {Assignment("x", L("6"))},
    {Sub("g", params, body) : params \in {<<>>, <<"a">>, <<"a", "a">>}, body \in {A, Concat(A, B)}}
      \union {Thunk("g", Concat(X, X))},
    {Sub("f", params, body) : params \in {<<>>, <<"a">>, <<"a", "b">>}, body \in Bodies}
      \union {Define("f", <<"b", "a">>, Concat(A, B)), Thunk("f", Concat(A, B)), Assignment("f", L("7"))},
    {Apply(F, list) : list \in ArgLists} \union {Apply(Assignment("b", F), <<L("1")>>)},
    {B}>>

-----------------------------------------------------------------------------
\* Names of elements that share a part, and two that shift the numbers of the others: to where
\* a table is full, and to where its bytes and its size no longer fit.
LongName == [i \in 1..11 |-> IF i = 1 THEN "text" ELSE "part"]
Elements ==
  {<<"hemp", "block">>, <<"hemp", "number", "minus">>, <<"number">>, <<"text">>, LongName}
FirstElements == <<<<"number">>>>
NewViews == <<<<<<"hemp", "block">>, "block">>, <<<<"hemp", "number", "minus">>, "minus">>>>
ScalarAndHash == <<"PerlScalar", "PerlHash">>

-----------------------------------------------------------------------------
ProgramsInit ==
  /\ part \in {"scripts", "command line", "names", "calls", "shared data"}
  /\ TestingInit
  /\ ProgramInit
  /\ NamesInit
  /\ CallsInit
  /\ GlobalsInit
  /\ part # "command line" => session = CHOOSE s \in Called : TRUE

CommandLineNext ==
  /\ part = "command line" /\ ProgramNext
  /\ UNCHANGED <<part, planVars, testVars, namesVars, callsVars, globalVars>>

ProgramsNext ==
  \/ part = "scripts" /\ ScriptNext
     /\ UNCHANGED <<part, programVars, languageVars, namesVars, callsVars, globalVars>>
  \/ CommandLineNext
  \/ part = "names" /\ NamesNext
     /\ UNCHANGED <<part, programVars, languageVars, planVars, testVars, callsVars, globalVars>>
  \/ part = "calls" /\ CallsNext
     /\ UNCHANGED <<part, programVars, languageVars, planVars, testVars, namesVars, globalVars>>
  \/ part = "shared data" /\ GlobalsNext
     /\ UNCHANGED <<part, programVars, languageVars, planVars, testVars, namesVars, callsVars>>

\* The program is one thread and does its next step, and whoever types goes on until the
\* input ends.
ProgramsSpec ==
  /\ ProgramsInit
  /\ [][ProgramsNext]_programsVars
  /\ WF_programsVars(CommandLineNext)

\* A session whose input ends ends as well, unless exprs was called (ProgramEnds).
SessionsEnd == part = "command line" => ProgramEnds
=============================================================================
