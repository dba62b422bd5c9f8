----------------------------- MODULE MCLibrary ------------------------------
(***************************************************************************)
(* Model checking of the parts of the library that call nothing else: the  *)
(* prefix tree, the temporaries of a context, URIs and paths, the accounts *)
(* of memory, and the making of tag sets and grammars.  They share no      *)
(* state, so each behaviour exercises one of them, its part.               *)
(***************************************************************************)
EXTENDS Ptree, Storage, MCURI, Memory, Tables

-----------------------------------------------------------------------------
\* Characters 1 and 3 share a root, so that keys branch off before and after each other at
\* the first character already.
Chars == 1..3
TwoRoots == 1 :> 1 @@ 2 :> 0 @@ 3 :> 1

\* Keys that share beginnings and end inside each other, in every way.
ManyKeys == {<<1>>, <<1, 1>>, <<1, 2>>, <<1, 1, 2>>, <<1, 1, 3>>, <<1, 1, 2, 3>>,
             <<3>>, <<3, 2>>}

Texts == {<<1, 1, 3, 2>>, <<1, 2, 2>>, <<1, 3>>, <<3, 3>>, <<2, 1>>, <<1, 2, 3, 3>>, <<1, 2, 1>>}

\* What texts and lists are given.
Words == {<<>>, <<"a">>, <<"b", "a">>}
Places == {-2, -1, 0, 1, 2}

-----------------------------------------------------------------------------
\* Dialects like that of Template Toolkit, of plain text, and of test scripts, and some that
\* go wrong: elements of one token, an element that is refused, two tags without a token,
\* and two of one name.
Sym(type, start) == [type |-> type, start |-> start]
Tag(type, name, start, grammar) ==
  [type |-> type, name |-> name, start |-> start, grammar |-> grammar]
Dialect(tagged, guarded, grammars, tags) ==
  [tagged |-> tagged, guarded |-> guarded, grammars |-> grammars, tags |-> tags]

GrammarSymbols ==
  ("command" :> <<Sym("block", ""), Sym("each", "each"), Sym("end", "end")>>) @@
  ("control" :> <<Sym("block", ""), Sym("end", "}")>>) @@
  ("test" :> <<Sym("end", "end"), Sym("test", "test")>>) @@
  ("doubled" :> <<Sym("end", "end"), Sym("block", "end")>>) @@
  ("refused" :> <<Sym("block", "{"), Sym("nothing", "")>>)

SomeDialects ==
  ("tt3" :> Dialect(TRUE, TRUE, <<"command", "control">>,
       <<Tag("hemp.comment", "comment", "[#", 0), Tag("hemp.control", "control", "[?", 2),
         Tag("hemp.outline", "outline", "%%", 1), Tag("hemp.inline", "inline", "[%", 1)>>)) @@
  ("unplugged" :> Dialect(FALSE, FALSE, <<"command">>, <<>>)) @@
  ("test" :> Dialect(TRUE, FALSE, <<"test">>, <<Tag("hemp.outline", "outline", "--", 1)>>)) @@
  ("doubled" :> Dialect(FALSE, FALSE, <<"command", "doubled">>, <<>>)) @@
  ("refused" :> Dialect(FALSE, FALSE, <<"refused">>, <<>>)) @@
  ("naked" :> Dialect(TRUE, TRUE, <<"control">>,
       <<Tag("hemp.unplugged", "naked", "", 1), Tag("hemp.outline", "outline", "", 0),
         Tag("hemp.unplugged", "again", "", 1)>>)) @@
  ("twice" :> Dialect(TRUE, FALSE, <<>>, <<Tag("hemp.inline", "inline", "[%", 0), Tag("hemp.outline", "inline", "%%", 0)>>))

FromTheStart ==
  {"control", "doubled", "refused", "block", "nothing", "hemp.outline", "hemp.inline",
   "hemp.unplugged", "hemp.control"}
FromLanguages == {"command", "each", "end", "hemp.comment", "test"}

-----------------------------------------------------------------------------
VARIABLE part

libraryVars == <<part, vars, storageVars, uriVars, memoryVars, tablesVars>>

LibraryInit ==
  /\ part \in {"tree", "storage", "uri", "path", "memory", "tables"}
  /\ Init
  /\ StorageInit
  /\ URIInit
  /\ MemoryInit
  /\ TablesInit
  /\ part # "path" => path = Slash

Exercise(p, step, others) == part = p /\ step /\ UNCHANGED <<part, others>>

LibraryNext ==
  \/ Exercise("tree", Next, <<storageVars, uriVars, memoryVars, tablesVars>>)
  \/ Exercise("storage", StorageNext, <<vars, uriVars, memoryVars, tablesVars>>)
  \/ Exercise("uri", SplitAny \/ ResolveAny \/ FreeURI, <<vars, storageVars, memoryVars, tablesVars>>)
  \/ Exercise("path", JoinAny, <<vars, storageVars, memoryVars, tablesVars>>)
  \/ Exercise("memory", MemoryNext, <<vars, storageVars, uriVars, tablesVars>>)
  \/ Exercise("tables", TablesNext, <<vars, storageVars, uriVars, memoryVars>>)
  \/ part = "tables" /\ state # "running" /\ UNCHANGED libraryVars  \* the end of the program

LibrarySpec == LibraryInit /\ [][LibraryNext]_libraryVars
=============================================================================
