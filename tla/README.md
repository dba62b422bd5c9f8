# Hemp in TLA+

Hemp (`src/`) is a template engine in C. This directory models it from its hash tables to its command line:
modules in TLA+, the configurations that TLC checks them with, and proofs that TLAPS checks. This file says
what the parts of the program are, which module models which, what each run and each theorem shows and under
which bounds and assumptions, and what is left out. `PROJECT.json` has the same by definition and line of
code.

    tlc -workers 2 -config Parser.cfg MCParser.tla      one run
    tlapm HashTable_proofs.tla                          the proofs of one module

Contents: 1 the program and its parts; 2 the modules; 3 the runs; 4 the proofs; 5 departures of the code
from what it says of itself; 6 what is not modelled; 7 the plan.

## 1. The program

A `Hemp` object owns factories of languages, grammars, tags, schemes and so on, and keeps documents. A
document is a source (a string or file) that is scanned into fragments with the tags of a dialect, parsed by
a top-down operator precedence parser into a tree of these fragments, and rendered by a recursive walk with a
runtime context. Errors leave every one of these stages by `longjmp` to the innermost `HEMP_TRY`. All of it
runs in one thread: what is hard here is not the interleaving of threads but the nesting of calls, the errors
that cut through it, state that outlives a call which failed, and linked structures under long sequences of
calls.

| Part | State | Operations | Hard | Right when |
| --- | --- | --- | --- | --- |
| Runtime context, frames (`context.c`, `frame.c`) | `vars`, chain of frames, pools of temporary hashes | new, free, enter, leave, with, just, without, focus, blur | every handler edits one shared record, and a `longjmp` skips the undoing | after every return the context is what it was before the call; every hash is freed once |
| Errors (`include/hemp/error.h`, `error.c`, `hemp.c`) | `hemp->jump`, `hemp->error` | TRY, CATCH_ALL, RETHROW, END, throw | jump buffers live in C frames | the chain of buffers is that of the blocks on the C stack; every error is caught |
| Scope commands (`element/command/*.c`, `element/apply.c`, `type.c`, `type/list.c`) | `code->body` of `in` | with, just, each, in, application | the order of undo and rethrow | scope and body follow the calls |
| Functions (`type/code.c`, `type/params.c`, `proto.c`, `element/sub.c`, `apply.c`) | prototypes, parameters of a frame | sub, `f(a, b) =`, application | arguments are evaluated with the parameters of the call that they are for in front of the variables | a call means what its environments say |
| LRU cache (`cache.c`) | index, list of slots, unused slots, pool | fetch, store, delete, clean | doubly linked list with both ends, eviction, re-use of slots | the list is the order of use; each value is freed once |
| Hash tables (`type/hash.c`, `slot.c`) | columns, width, size, parent | store, fetch, delete, grow, attach, detach, pairs, free | growth moves every slot, also during a copy; lookups defer to parents | maps; nearest table wins |
| Dotted names, configuration (`type/hash.c`, `hemp.c`, `element/dotop.c`) | tables within tables and lists | fetch and store by a path | made on the way, found in parents, names freed after the store | what was stored is read back |
| Factories, actions (`factory.c`, `action.c`) | constructors, instances | register, constructor, instance | lookups load modules whose binders register, and look up, in turn | every call ends; one instance of each |
| Modules (`module.c`, `global.c`) | table shared by all `Hemp` objects | use, load, bind, unload | failures, life beyond the object that loaded | code is not called after it was closed; each `Hemp` gets its bindings |
| Global data (`global.c`, `namespace.c`, `symbols.c`, `type.c`, `viewer.c`) | namespaces, types and their numbers, views | made with the first Hemp, freed with the last | tables indexed by numbers that others gave out; 16 bits | what was added under a name is at its number, in the memory of the table |
| Prefix trees (`ptree.c`) | nodes with rests of keys, three links | store, fetch, match | splitting of nodes, partial matches | finds what was stored; longest match |
| Scanner, tags, tag sets (`scanner.c`, `tagset.c`, `tag/`, `element/*.c`) | position, fragments | scan a source, a tag, a string, a number, a word | two loops share a position with the scanners of tags | the fragments are the source, tags are found where they start, every scan ends |
| Parser (`parser.c`, `element.c`, `element/`, `fragment(s).c`) | position, flags and links of fragments | ~50 parse methods | precedence, whitespace, rewinding, errors that leave changed fragments | the tree is the source, binds as declared; ends match; every parse ends |
| Grammar tables (`language/hemp.c`, `tt3.c`, `grammar.c`) | element, flags, precedences | add element | agreement of tables and methods | (data of the parser) |
| Documents (`document.c`, `source.c`, `scheme/`, `hemp.c`) | cache by digest, stages of a document | document, compile, process, data | cached documents after errors, documents within documents | output comes from a text that scans, parses and evaluates |
| Values, elements (`include/hemp/value.h`, `type/*.c`, `element/*.c`) | none; variables of the context | the methods of operands and operators | methods inherit from each other; the left operand decides a conversion; integers wrap | an expression yields what it means, and its evaluation ends |
| Texts, lists, code, pools (`type/text.c`, `list.c`, `code.c`, `pool.c`, `slab.c`) | blocks that grow, slabs | insert, store, push, copy, take, release | growth, NULs, holes, a second slab | holds what was put; every item is released once |
| URIs (`uri.c`) | parts in one buffer, cut before they are known | split, resolve, join, join paths | a buffer sized before its parts are known, collapsing in place | as RFC 3986 resolves |
| Accounts of memory (`memory.c`) | a record for each block | trace, reset, report | addresses that are used again | the report counts what is allocated, once each |
| Test scripts, plans (`test.c`, `type/string.c`) | plan with counters, a script cut up with NULs | plan, ok, result; split and compare | markers searched one after the other | every test is run as written; the status tells |
| Test language (`modules/language/test.c`) | variables of one context | test, expect, error, start, stop | documents in documents, errors expected | each test is told |
| Command line (`programs/hemp.c`) | options, a session | commands | an error leaves a command in the middle | the prompt is clean after it; a session ends with its input |
| Perl binding (`language/perl/`) | Hemps and contexts a script holds | new, DESTROY, render, call methods, throw | a script lets go in any order; exceptions of Perl jump as well | the types of values are there while they are |
| Utilities, scopes, viewers' output, codecs | see section 6 | | | |

How they interact: documents call the scanner, the scanner asks tag sets and grammars, which are prefix trees,
and adds fragments; the parser calls the methods of the fragments' elements; rendering calls the methods of
the same elements, which call back into the walk and edit the context; variables, elements, tags, factories,
modules and configuration are all kept in hash tables; factories call modules and modules' binders call
factories; programs render documents, and the test language renders documents from within one; everything may
throw.

## 2. The modules

*The runtime.*

* **Evaluation** - context, errors and scope commands. A step begins any handler inside the current one,
  returns from it, or throws; `calls` is the C stack, so that which fragments a template nests is left open.
  The context's hashes are addresses that the allocator re-uses, lowest first; `owner` says who must free
  each. `Throw`, `Catch` and `WithCatch` are the jump and the two kinds of handler: those that rethrow
  after restoring, and those that keep the error. `faults` collects the memory faults of the step just taken
  and `unwound` remembers whether an error has crossed a handler that had pushed a frame.
* **Calls** - what a call of a function does to variables, one statement of a template a step. Every method
  is an operator from one state of the context to the next. The second half of the module is another
  semantics of the same templates, over environments that are passed on and never changed; `CallsMean`
  compares the two.
* **Values** - the word in which hemp boxes doubles, integers, texts, identities and fragments, and every
  conversion, with `IntBits` for the width of integers and rationals for doubles. A result that C leaves
  undefined is a set of outcomes, `crash` among them.
* **Expressions** - the methods of literals, words and operators as a machine of calls with a step for each
  call and return. `Element` has each element's own methods and those it inherits, which call others on the
  same fragment. `Meaning` is the recursive definition that the machine is compared with.
* **Storage** - texts, lists and code of a context with the memory they get: `cells` may be longer than
  `size`, which is a write beyond it, and what was allocated and not written is `Junk`.

*Linked structures.*

* **LRUCache** implements **AbstractLRU** (a map with a recency order). The three pointers of the cache and
  the two of each slot are one record `list`, so that the static functions of `cache.c` are operators from
  lists to lists. `held`, `misfreed` and `older` are history: values to free, a free of something not held,
  and the order in which slots were touched. `hemp_cache_lru_empty()` appears in `Clean` and `WalkStep`,
  its only use.
* **HashTable** implements **AbstractHash** (maps from hash numbers to values, with parents). The hash function
  is a constant. A column is a set of slots; `ColumnsSound` justifies that. A fetch takes a step per table, a
  copy of pairs a step per slot.
* **Names** - dotted fetch and store, and the dots and assignments of templates, over tables, parents, lists
  and texts that refuse. A slot knows the address of its name and whether that was freed; a freed name may
  equal any other of the same number. `Column` says which keys share a column.
* **Ptree** - the tree as an array of nodes; every turn of the three loops is a step, with the position in the
  key of the node and in the text.
* **Memory** - the accounts that a debugging build keeps: a record for each block, found by its address, which
  is used again after the block was freed or moved. `live` is history: what is really allocated.

*From source to tree.*

* **Scanner** - a text is a sequence of characters; each turn of a loop of the code is a step. `pos`, `src`,
  `from` are the pointers of the code. Tags, operators and classes of characters are constants.
* **Grammar** - the elements as the parser sees them: handler for each method, flags, precedences;
  `Scannable` is what a scanner gives. One element stands for each kind with the same handlers, precedence
  and associativity. **Parser** - a frame per call of a parse method with its arguments and the place it
  goes on from; `frags` are the fragments with their links; `outcome` is a tree, an error or the end of the
  program. After an error the document may be compiled once more, as a cached one is.
* **Documents** - the hash of documents and the stages each has got to. How a text scans, parses and
  evaluates is a constant: Documents composes those stages by their outcomes, with errors that leave each of
  them half done and documents that evaluate others.
* **Tables** - the blocks of memory behind a scan: tag sets with their tags, grammars with their elements,
  errors with their locations, at addresses that are used again. A scan's steps are those of the dialect's
  scanner: ask for a grammar, which is made an element at a time, add a tag, scan, free. `lost` is history:
  what an error has left that nothing knows of any more. What a dialect asks for is a constant.
* **URI** - splitting, resolving and joining. The code copies every part with a NUL of its own into one
  buffer; the model counts the cells that are written and keeps the count beside the size.

*Objects and programs.*

* **Registry** - Hemp objects, factories, modules: one stack of calls, a frame for each
  `hemp_factory_instance`, `hemp_factory_constructor`, `hemp_use_module`, binder or constructor and
  `hemp_free`. What each binder and constructor registers is a constant. The text of a path is a buffer whose
  address is re-used, since the table of modules keeps the address.
* **Global** - what all Hemps share besides modules, the tables of views, and the Perl binding: Hemps, contexts
  and values that a script holds. Sizes of tables wrap at `Width`, and so do their bytes, of which a view takes
  `PointerSize`; `over` says how a behaviour has ended that went too far. `hemp_viewer_fragment()` is modelled by
  the views that it reads, since it calls none.
* **Strings**, **Rendering** - what scripts and commands are cut up with, and what a source renders to, as far
  as the programs tell it apart. **TestPlan** - the plan and its result. **Testing** - a script from its first
  test to the status. **TestLanguage** - the elements of `hemp.test`. **Program** - options, sessions and the
  commands, on top of TestLanguage.

The `MC...` modules give the constants of the runs. `..._proofs` hold the theorems: Library_proofs those of
Ptree, Tables and Memory, Programs_proofs those of TestPlan, Program and Global, Documents_proofs those of Documents
and Storage, the others those of the module they are named after. **MCLibrary**
takes the prefix tree, Storage, URI, Memory and Tables together, **MCPrograms** Testing, Program, Names, Calls
and Global: the parts of each share no state, so a behaviour picks one of them (`part`) and exercises that alone;
this checks what separate runs of each would.

Nothing in a module that is proved about is RECURSIVE; where a definition repeats it is a recursive function.
Next to an action there is often a variant of it marked *Mutant*: the action with a plausible mistake, named
in `PROJECT.json`. Put in place of the action it violates the property it is listed with, which shows that
the property depends on that line of code.

## 3. The runs

| Run | Question | Bounds, and why they are enough |
| --- | --- | --- |
| `evaluation` | do scope, jump buffers and hashes follow the C stack, whatever errors are thrown | 5 nested handlers, 7 hashes, 2 errors. Every pair of handlers fits inside a `HEMP_TRY`, with another `HEMP_TRY` and a handler between or below them; the second error meets what the first one left |
| `lru_limited` | is the list the recency order, does it implement the map | 3 slots, 4 keys and values: a slot in the middle of the list, and a key too many. Keys and values are symmetric |
| `hash_tables` | do growing tables stay maps, also while they are copied | 2 tables, 3 keys, widths 2 and 3: `k1` and `k2` share a column of the narrow table and part when it grows, `k3` then meets `k1`; a table grows to its last width in the middle of a copy |
| `registry` | is code open when called, are libraries opened once, do lookups that load modules end | 1 Hemp that is asked for everything, wildcards and modules that do not register what they were opened for included, and 2 Hemps that are asked for less; two factories of which one loads modules, five outcomes of loading, 2 buffers; modules with paths in columns of their own |
| `parser` | is the tree the source, does it bind, is a failed document refused again, does every parse end | every scannable sequence of 4 tokens out of 7 operators and operands; chains of 4 operators with operands; brackets, calls, hashes, subs and dots of 4 pieces; conditions, named ends and loops of up to 6 pieces: about 32000 documents |
| `scanner` | are the fragments the source, are tags found where they start and nowhere else, do strings end where they end, does the scan | sources of up to 4 pieces around tags, up to 3 pieces within a tag behind three beginnings, strings of three kinds of up to 3 pieces, in the dialect with tags and the one without. Pieces are tokens and their halves, newlines of both kinds, digits, operators that are letters, backslashes; numbers have two digits, which `MaxDigits` makes the largest |
| `documents` | does output come from whole documents only, whatever was asked for before, does every call end | 2 documents of 5 kinds of texts (good, torn in a tag, refused by the parser, failing, empty) and a file that is written, 2 dialects, one document within another in a session, none in a program that prints files: a second call meets every stage that the first got stuck at |
| `expressions` | do methods that are defined by each other come back, does a statement mean what its expression means | every operator on every pair of 7 leaves (two numbers, integers at the edge of 7 bits, texts, a word), on results of operators, and on variables over three statements; deeper nesting repeats the same calls, since a method sees the value of an operand only |
| `library` | trees, temporaries, URIs, paths, the accounts of memory, and tags and grammars, one at a time | every order of 4 of 8 keys that end in, branch off in and extend the rest of a node; texts and lists of up to 3 characters and items in pools whose first slab has one place; every text of up to 3 characters and every URI of a set of parts; every reference against what came of resolving the one before; 3 addresses and 5 records, so that an address is used again after a block was freed, after it was moved and after the accounts were reset, and the array of records grows twice; scans in 7 dialects, 3 of them as the code has them and 4 that go wrong, with constructors that become known in between, 2 errors, one of which is told, and 24 addresses, which are never used up |
| `programs` | scripts, the command line, dotted names, calls, and shared data, one at a time | every script of up to 3 chunks of 15 kinds and another behind it in the same plan; every session of up to 3 lines and every single command; 2 stores and paths of up to 3 names through 6 tables and a list; templates that define `g` and `f` in every way and call `f` with up to two arguments of 13 kinds; 2 Hemps, 3 users, names of elements that share a part and two that shift the numbers of the others, one of them with eleven parts; tables of views that start at 2 entries, and wrap at 32 with 2 bytes for a view as those of the code do at 65536 with 8: they grow, are too small for their size and grow without end |
| `path_fits`, `names_kept` | the departures of section 5 that have a run | small instances of the same |

The properties, by what a violation would take:

* `ScopeMatchesCalls`, `FreedExactlyOnce`: as long as no error has crossed a call frame (`unwound`),
  `context->vars` and the frames are those of the handlers on the stack, and every hash is freed once. Errors
  may be thrown, caught and rethrown by `with`, `just` and `HEMP_TRY` blocks meanwhile; the frames are the
  one thing that nothing restores (section 5). What holds in spite of that: `JumpsAreLive`, no jump goes to a
  function that has returned.
* `ListIsRecency`, `ImplementsAbstractLRU`: the list runs through the indexed slots by age, both directions
  agree, an eviction drops the right entry.
* `ColumnsSound`, `ImplementsAbstractHash`: no growth or copy loses or doubles a key; a table with parents is
  the map that its chain means.
* `CodeLoaded`, `OpenedOnce`, `CallsEnd`: over the life of several Hemps no closed code is called, and a
  module that is open is not opened again, in whatever order lookups and binders call each other.
* `TreeIsTheSource`: reading the tree in order gives every token of the source once, so nothing is dropped,
  repeated or moved by whitespace rules and rewinding. `Binding`: along the left and right edge of every
  operand no operator binds less than the one that took it. `AgainTheSame`, `ParseEnds`.
* `SourceCovered`, `TagsFound`, `StringsAsWritten`, `ScanEnds`: the scanner's two loops and the scanners of
  tags, words and strings hand each other a position; a character they disagree about would be in two
  fragments or none, and one that neither takes would be looked at for ever.
* `AnswersMatch`, `ScanStartsClean`: what an error left of a document is never rendered.
* `NoEmbrace`, `StatementMeans`: see Expressions. A meaning is a recursive definition on trees; the machine
  gets there through inherited methods and conversions by the left operand, with wrapped integers.
* `ClosedMatchesLongest`, `HoldsWhatWasPut`, `ReleasedOnce`, `SplitsInParts`, `ResolvesAsRFC` (against the
  algorithm of RFC 3986, 5.2), `JoinsPaths`.
* `NothingIsLost`, `TablesAreWhole`: an error may come at any step of the making of tags and grammars. Every
  block is known to what will free it, or was left by such an error, and none is freed twice; a grammar that
  is kept has all of its elements, in its tree and in its hash, and tags are found by their tokens.
* `ReportsWhatIsLive`: the report of memory counts each allocated block once and at its size. Older records may show
  the same address, and a search must not stop at them.
* `ViewsInPlace`: the view at the number of a namespace is the first one given to its name, whoever gave the
  number out and however often the table grew since, and a search for views stays in its memory; what ends
  that is a number for which the largest table has no place.
* `TestsAsWritten`, `ResultTells`, `PromptIsClean`, `ReadsBack`, `FailedStoresNothing`, `CallsMean`,
  `ValuesHaveTypes`.

These hold as well and are checked by putting them in the place of a run's properties, without changing its
constants: `CallsHaveFrames` (a leave always finds a frame; `hemp_context_leave` has a `hemp_fatal` for it),
`BodyMatchesCalls`, `VariablesAreAllocated`, `ErrorsAreCaught` (`MCEvaluation.cfg`);
`NoSlotIsLost`, `ValuesFreedOnce`, `CleaningAdvances`, `IndexMatchesSlots` (`LRULimited.cfg`); `PairsComplete`, `LoadBounded`
(`HashTables.cfg`); `UseRegisters`, `MadeOnce` (`Registry.cfg`); `EndsMatched` (`Parser.cfg`); `TagsInPairs`
(`Scanner.cfg`); `OperandsOnce` (`Expressions.cfg`); `FetchFinds`, `SplitFits`, `StaysInMemory`,
`StoresNewKeys` (`Library.cfg`); `SessionsEnd`, that a session ends
with its input unless it is one of `exprs` (`Programs.cfg`). One more configuration passes: `HashChains.cfg`
(MCHashTable: chains of 3 tables, every order of attach, detach, fill and free; `NearestWins`, `FetchEnds`).

**Fairness.** The program is sequential: a call that has begun runs on unless it returns or throws. So the
steps *inside* calls are weakly fair and the calls themselves are not: `WF(Catch)` and `WF(WithCatch)` in
Evaluation (a landed `longjmp` goes on), `WF(FetchFound \/ FetchDefer)` in HashTable (the loop of a fetch),
`WF(Step)` in Registry, Ptree and Documents (the calls on the stack), `WF(Next)` in Parser and Scanner
(nothing but the parse or the scan happens). In `programs` the command line is weakly fair, for `SessionsEnd`: it
does its next step, and what is typed is finite and ends. Nobody is forced to call anything. Expressions, where every step
is inside of the one call, needs none: `NoEmbrace` bounds its stack.

**Deadlock** is checked in `scanner` and `library`. It is off where the system may stop: a
context, a cache or a Hemp that has been freed or a program that has ended, and bounds that are used up.

## 4. The proofs

For all values of the constants that the modules' assumptions allow:

| Theorem | Says |
| --- | --- |
| `Evaluation_proofs!TypeCorrect`, `JumpsLive`, `FramesSuffice` | types; `hemp->jump` is exactly the blocks on the stack; a call always finds a frame to leave |
| `Evaluation_proofs!ContextFreed`, `ScopesMatch` | as long as no error has crossed a call frame: every hash is freed once and by its owner, the variables of the context are those of the innermost handler that is active, and the frames are those of the calls on the stack |
| `LRUCache_proofs!TypeCorrect` | types, for every size |
| `LRUCache_proofs!RecencyOrder`, `SlotsAccounted`, `IndexSound`, `StaleSlotExists`, `CleaningGoesOn` | the five list properties, for every size but 1 (0, no limit, included) |
| `LRUCache_proofs!FreedExactlyWithEntry`, `CacheIsLRU` | a value is freed when its entry goes, once; the cache implements `AbstractLRU`; for every size but 1 |
| `HashTable_proofs!TypeCorrect`, `ColumnsAreSound`, `LoadIsBounded` | for every hash function, set of widths and density |
| `HashTable_proofs!HashesAreMaps` | the tables implement `AbstractHash` |
| `Registry_proofs!TypeCorrect`, `CodeIsLoaded`, `BodiesAreLoaded`, `LibrariesOpenedOnce` | for any Hemps, things, modules and outcomes of loading: calls are on Hemps that exist, with texts that are allocated; code that may be called, or is running, is in an open library; a library is opened once and closed with the last Hemp |
| `Documents_proofs!OutputOfWholeDocuments`, `ScansStartClean`, `TreesStandForAll` | for any texts, dialects and nesting of documents: output comes from a document that scans, parses and runs; a scan starts without fragments; a tree is that of a whole text |
| `Scanner_proofs!TypeCorrect`, `SourceIsCovered`, `TagsArePaired` | for any texts, tags and operators: each character of the source is in one fragment, at its own offset, and an end of file follows; the tokens that start and end tags come in pairs, and the stack holds the tag the scan is in |
| `Scanner_proofs!StringsKept` | for any texts and tokens of strings: a string ends at the first end token that no backslash hides; in single quotes it stands for its characters but the backslashes that hide one |
| `Scanner_proofs!TextHoldsNoTags` | for any tags that are written on a line: no character of the text among the tags starts one, and outline tags are taken at the start of a line only |
| `Library_proofs!Kept`, `NoBlockIsLost` | as long as `malloc` finds memory, for any dialects, grammars and failing steps: the blocks that are allocated are those of the factory's grammars, the one being made, the scan's tags and the chain of errors, each with one owner, and the ones the code has left; none is freed twice |
| `Library_proofs!WhatWasAskedFor` | as above: a grammar that is kept has all the elements that its constructor adds, and an error while one is made leaves none half made; the tags of a scan are found by name and by start, with the grammars asked for |
| `Library_proofs!ReportCountsWhatIsLive` | for any addresses and sizes: the report of memory counts each block that is allocated, once and at the size it has now, and nothing else |
| `Programs_proofs!PlanInvariant`, `PlanResultTells` | the counters of a plan agree with the results that were reported, and its result is zero exactly when all that was planned was run and passed, for any number of tests |
| `Programs_proofs!ProgramTypes`, `PromptStaysClean` | for any sessions, texts and test scripts: back at the prompt no `HEMP_TRY` is open, no test is left in the variables and nothing but the prompt and the last line is allocated; after the end only what section 5 says |
| `Programs_proofs!ValuesKeepTypes` | for any number of Hemps, contexts, users and types: the number in a value that a context holds leads to the type that the value was made with |
| `Library_proofs!MatchesLongest`, `FindsStoredKeys`, `RefusesKnownKeys` | for any characters, roots and keys and every tree that `hemp_ptree_store` can build: where every beginning of a key is a key the longest is matched; every stored key is fetched; a key is refused exactly when it is in the tree |
| `Documents_proofs!HoldsContents`, `NothingWrittenBeyond` | for any strings, values and places: a text or a list holds what was put into it, after any growth, and nothing is written past the end of its memory |
| `Documents_proofs!ItemsAreTakenOnce`, `FreesOnce` | for pools of any size: no address is handed out twice or past the end of a slab, and `hemp_context_free()` frees each block of its texts, lists and slabs once |

*Evaluation.* `EvalInv == ContextOK /\ ControlOK /\ RestOK /\ FramesOK`. `JumpsAreLive` alone is inductive only
together with the type of the stack and with `catching`, which names the block that a jump has landed in.
`FramesOK` counts: there are never more calls that owe a leave than frames. Errors pop calls without popping
frames, so that the counts only move apart in the harmless direction, and this is what has to be carried.

*Evaluation, scopes.* `ScopeAt`, in terms of which `ScopeMatchesCalls` is stated, is defined by recursion on the C stack. The
invariant says instead that there *are* two functions on the heights of the stack, the scope and the number
of frames, such that every handler agrees with their values at its height and below it (`Nest`). What makes
it inductive: the hash of a `with` or `just` is the pool's, and each handler has its own (`Pooled`); the two
hashes of a frame are the frame's and differ from those of others (`FrameOwned`). So an action that changes
the parents or the owner of a hash touches no other handler's. A call adds a height to the two functions, a
return takes it off, and an error that crosses no frame cuts off heights that have neither a frame nor,
once their handlers have caught it, a scope. In the end the functions are shown to be `ScopeAt` and the
number of frames, by an induction that the prover can do: the set of heights at which they agree has 0 and
the successor of each of its members (`EveryNat`, from the well-foundedness of `<` as a fact about sets).

*LRUCache.* `ListInv` is the type invariant with the cursor, the index, the limit, and for an open cache
`Linked` (the list is the order `older` on the live slots, in both directions) and `Chained` (the same of the
unused slots). The lemmas show that taking a slot out (`Bypass`), putting it in front (`Freshen`) and moving
it to the unused slots keep these relations on the set of slots less or more that one. `Careful == Size # 1`
is needed: with one slot, cutting off the stalest leaves `lru->fresh` on it (section 5, `StalerIsLessRecent`).
`CleaningGoesOn` adds `WalkInv`: during the walk the list stays linked and the cursor is live, so its staler
slot is older. `ValueInv` says whose the values are: those held are those of the live slots, each of one slot
alone, and none was freed otherwise. The refinement maps the list to the keys in the order of `older`, and each
action of the cache to the one of `AbstractLRU` of its name; an eviction is a store that drops the last key,
and the steps of a cleaning walk are stutters until its last.

*Registry.* `RegInv == TablesOK /\ LifeOK /\ CodeOK /\ StackOK`. The code that a Hemp may call is loaded as
long as there is a Hemp (`LifeOK`: a Hemp that does not exist has empty tables, and without Hemps there are no
modules). What makes that inductive is the stack: every call on it is `Sound` - on a Hemp that exists, with a
text that is allocated and is no other call's, a body with its module open - and a Hemp is freed by a call that
is alone on the stack, with the tables emptied first. All that a step does to the calls it is not about is one
lemma, `StackGoes`: Hemps stay, and slots of modules stay (`Stays`), which all steps but the freeing of a Hemp keep.
`RegInv` was checked by TLC in the run `registry` before it was proved.

*Documents.* `DocInv` says of each document how what it has got relates to its text (`Whole`: fragments that
are not all there belong to a text whose scan fails late, a tree to one that parses), and of each call how far
its document must have got where the call is (`Staged`). Only the innermost call changes a document; those
around it wait in their evaluation, whose document has its tree. A step makes documents grow only
(`DocsGrow`), which disturbs neither (`GrowsKeeps`).

*Scanner.* `ScanInv == Placed /\ TagsKnown /\ Chain(fragments, scantok) /\ EofLast`. The fragments are a chain from
the first character to `scantok`, and every loop adds the characters up to a place that is shown to be
between `src` and the end of the text (`PastFacts`, `MatchFacts`, `NumberFacts`, `CommentEnds`). For a quoted
string that place is the value of a recursive function; `CloseFacts` has it by induction from the end of the
text backwards (`WalkThere`, `WalkLands`). `TextInv` carries `TagsFound`: no character between `scantok` and
`src` starts a tag, a line of which text goes by has been tried for an outline tag, and the loop that
looks for outline tags is entered at the start of a line. `TagsAssumption` is needed for this: behind an inline
tag that ended with a newline the second loop goes on without a look for outline tags. `PairInv` counts.
For `StringsAsWritten` the step that matters is `CountsStep`: of a run of backslashes every other one counts, by the
parity of their number, which is what the walk does when it steps over a character (`BeyondHidden`). So the walk
meets every end token that is not hidden (`WalkFinds`), and as the end itself is not hidden, the loop that copies two
characters at a time leaves out the first of such a pair and never steps over the end (`SameString`). Both of
the functions compared are recursive; that they exist is `JoinsThere`.

*HashTable.* `HashInv == TablesOK /\ CallsOK /\ ColumnsSound /\ LoadBounded`. `ColumnsSound` needs its second
half, no two slots of a column with one hash number, to be inductive: a store looks in the new column after a
growth and must find there what the old column had. `LoadBounded` needs the argument that the next wider
width is more than the old one by at least one, so one growth always suffices for one more slot. The
refinement maps slots to pairs of hash number and value: two keys with one number are one name, since that is
what the code compares.

*Tables.* `Invariant == Shapes /\ Pace /\ Counted`. `Counted` is the account of memory: `Accounted(m, G, t, E, L)`
says that the allocated blocks of `m` are those owned by the grammars `G`, the tags `t` and the errors `E`, or
left (`L`), and none is both. The operations on memory - make an error, begin a grammar or a set of tags,
add to one, leave or free one - are shown to keep it first, by themselves (`ErrorMade` to `TagsetGrows`),
and every action is put together from them; that no block has two owners follows from what the blocks say
themselves (an element names its grammar, a tag its set). `Pace` says which grammar is being made, and for
which scan. For `TablesAreWhole`, `Whole` is carried beside it: a grammar that is being made has the first
elements of its constructor and no other, a set the first tags of its dialect. The theorems are about
behaviours in which two addresses are free at every step (`Room`), the most that one step takes: out of
memory, `hemp_mem_fail` ends the program. `Room` holds in every state of the run `library`, and in all of
them for an infinite heap. `TokensDiffer`, that no two tags of a dialect begin alike, is what the dialects of the
code do (`language/tt3.c:58`, `modules/language/test.c:161`) and is needed: `hemp_ptree_store` would put the
second in the place of the first.

*Memory.* `TracesInv`, of which the types are one half and `AccountsHold` the other: the newest record that shows the
address of a live block (`NewestOf`) counts for it, and a record that counts is the newest of a live block. The
newest record is where `hemp_mem_trace_record()` stops (`NewestIsFound`). A block that moves or is freed takes its
record from those that count (`RecordDropped`), and a new record is newer than all that show the address of old
(`RecordCounts`), which is not that of a live block. The sum of the sizes is left out: that records and blocks
correspond one to one, with the same sizes, is what makes it right.

*TestPlan.* `PlanInv == PlanTypeOK /\ CountersTell /\ ResultTells`. `CountersTell` relates the counters to the
sequence of results: as many tested as reported, no more failed than tested, none failed exactly when all
passed. The types alone do not carry the step that ends a plan: they relate the counters neither to the
results nor to each other.

*Program.* `ProgramInv` is the account of what is allocated and which blocks are open at every place of a command
(`Accounts`), and `TestKept`: a test is in the variables only between its input and its branch, where the
innermost block is that of the `test` element. An error cuts the blocks back to
where its command is caught, which is where the account is settled; that the test must not survive this is why
the second half has to be carried.

*Global.* `SharedInv`. `UsersCounted`: there are at least as many users as Hemps, and one more once the binding has
made its types, so that the last Hemp does not take with it what the values of contexts point to. A
registered slot of the table of types never changes, and the slots that are left are at least as many as the types
that the binding has still to register. That the recursive function which hands the numbers out exists is an
induction on numbers.

*Ptree.* The tree says of a node only the rest of a key that it holds. `Inv` (Library_proofs) says that there *is* a ghost
tree beside it: each node has a place, which is the node that leads to its level (`lev`), the characters that the
nodes above it spell (`pre`), and those of its own that come to it (`span`). `Linked`, `Apart`, `Paths` and
`Vals` say that the three links go to nodes with the right place, that no two nodes of a level begin alike,
that places spell what is on the way, and that a node with a value spells its key. A split makes one place
into two and moves those below, and the ghost grows with it. `Sought` and `Comparing` say where a running
call is in that tree. That keys are closed under beginnings is needed for `MatchesLongest` alone: else a match
may take half of a node with it (section 5, `MatchIsPrefix`).

*Storage.* `StorageInv` relates the memory of each text and list to the sequence that was put into it (`TextHolds`,
`ListHolds`), and says that what is used is within what was allocated (`Roomy`). Doubling a capacity of 16 bits
reaches what is asked for since no list is longer than 16384 items: `StorageAssumption` has that bound, and
section 5 what happens beyond. For the pools, `PoolOK`: the addresses in use are before the next one, and
`PoolFilled`: they are all of these, every slab but the last full; so `hemp_pool_each()`, which walks the slabs
up to where the next item would be, visits each once. `Kept`: what is allocated is the slabs and what the items own.

The assumptions are `EvaluationAssumption`, `LRUAssumption`, `HashAssumption`, `RegistryAssumption`, `DocumentsAssumption`,
`ScannerAssumption`, `TagsAssumption`, `TablesAssumption`, `TokensDiffer`, `PlanAssumption`,
`ProgramAssumption`, `GlobalAssumption`, `PtreeAssumption`, `StorageAssumption` and `MemoryAssumption`, stated in the modules: types
of the constants, that NULL and the missing value are none of the others (a slot of the table of types without a
type is NULL, so the names of types differ from what marks one), that no start of a tag or operator and no key of a
tree is empty and no operator has the name of a token of the scanner's own (nor a
string that of another element: a fragment points to its element), that tags are written on a line,
that no two of one dialect begin alike, and that texts and lists stay within the widths of their sizes. TLC
evaluates them in every run that uses the module, and those of the modules without theorems too.

Only model-checked, and why:

* Liveness (`CallsEnd`, `ParseEnds`, `ScanEnds`): fairness and ENABLED are out of the prover's
  reach. What the arguments rest on is proved where it is a safety property: `CleaningGoesOn`,
  `FramesSuffice`, `PromptStaysClean`.
* `TreeIsTheSource`, `Binding`, `AgainTheSame`: the invariant of the parser would have to say for each of its
  places what is read and what is still expected, over trees that are built by recursion.
* `NoEmbrace`, `StatementMeans`, `CallsMean`, `ReadsBack`, `FailedStoresNothing`, `SplitsInParts`,
  `ResolvesAsRFC`, `JoinsPaths`: Expressions, Calls, Names and URI declare RECURSIVE operators, which meanings, paths
  and trees of any depth call for; induction over such data cannot be cited, since the theorems of the library
  take an operator.
* `TestsAsWritten`: it compares two ways of cutting up a script, of which one is a fold over its characters.
  `ViewsInPlace`: the first views of a table are added by a fold as well, and its sizes are powers of two, of which
  the provers know nothing.
* `VariablesAreAllocated`, `BodyMatchesCalls`, `NearestWins` and `PairsComplete`, which are not among the
  runs' properties.

Induction over the numbers is done with sets, as above, for recursive functions that are written down.

No leaf is close to the provers' time limits: every module's proofs also go through with a fifth of them
(`tlapm --stretch 0.2`). The leaves that need longer than that by nature name their prover and its time
(`SMTT(60)`, `ZenonT(60)`).

## 5. Departures

Two runs are expected to find a violation. Each checks one thing that the code, a comment or a test says of
the program and that it does not keep; `PROJECT.json` quotes it.

* `path_fits` - `hemp_uri_path_join()` makes room for a slash and a NUL, and writes a NUL of its own after the
  last name as well: the joined path is one cell longer than its buffer when the directory has no slash at
  its end (`uri.c:512`, `uri.c:595`). Every path of a module is joined in this way.
* `names_kept` - a dotted store frees the names that the slots it has made go on to point to
  (`type/hash.c:344`): a fetch of another name of that column may stop at such a slot.

### Known departures

The modules state these too, and TLC finds each of them violated. The second column says how: the
configuration, with the property in the place of those it has (as an INVARIANT, or as a PROPERTY if it is a
formula about steps or behaviours), and the constants to change.

| Property | Configuration | What happens |
| --- | --- | --- |
| `FreeCleansUp` | `MCEvaluation.cfg`, `MaxCalls = 4` | an error that crosses a call frame inside of `with` leaves `context->vars` on a hash that is not the context's; `hemp_context_free()` frees that one, which the pool has already freed, and leaks its own (`context.c:66`) |
| `BodyIsRestored` | `MCEvaluation.cfg`, `MaxCalls = 4` | an error among the items of `in` leaves the body of the loop on the code; `in.c:150` restores it "to preserve re-entrancy" |
| `StalerIsLessRecent` | `LRULimited.cfg`, `Size = 1`, `MaxSlots = 2`, two keys and values, no symmetry | the evicted slot becomes its own staler slot, and freeing the cache does not end (`cache.c:292`, `349`) |
| `KeysCompared` | `HashTables.cfg`, `HashOf <- Colliding`, `Table = {t}`, no symmetry | store `k1`, store `k2` with the same number: one slot, though `type/hash.c:193` says that keys are compared |
| `SizeCountsEntries` | `HashTables.cfg`, `Table = {t}`, no symmetry | store, delete: size is still 1 (`type/hash.c:387`) |
| `UseRegisters` | `Registry.cfg`, `Column <- Together`, `Keeps = {TRUE, FALSE}` | the table of modules keeps the address of a path which is freed; a later path in the same memory equals the key of another module of that column (`global.c:192`, `module.c:72`) |
| `FailedNotBound` | `Registry.cfg` | a loader that returns false: the binder is run all the same (`module.c:163`, `global.c:194`) |
| `MatchIsPrefix` | `Library.cfg` | with `cmp` and `;` stored, `c;` matches `;` (`ptree.c:266`). In hemp: with roots shared by eight characters (`HEMP_PTREE_SIZE`), `[% (a) %]` is refused for a missing terminator |
| `MatchKept` | `Library.cfg` | with `a`, `abc`, `abd` stored, `abx` matches nothing (`ptree.c:254`) |
| `FetchNothingElse` | `Library.cfg` | with `xa`, `xb` stored, fetching `xab` gives `xb` (`ptree.c:222`) |
| `AllIsFreed` | `Library.cfg` | an error in the constructor of a grammar, or in a scan that is not guarded (`modules/language/test.c:163`), leaves the set of tags and the half of the grammar: only `tt3.c:62` catches it, and only around the scan |
| `CleanupReady` | `Parser.cfg`, `Inputs <- Commanding` | after the error of `each in`, freeing the document runs the cleanup of a fragment that was never parsed (`in.c:105`) |
| `NoListLost` | `Parser.cfg`, `Inputs <- Commanding` | `with a in b` makes the code of `in` twice (`element.c:309`) |
| `ParensTouch` | `Parser.cfg`, `Inputs <- Bracketings` | `h.f (3)` is a call (`dotop.c:48`, `space.c:205`) |
| `CallBindsFunction` | `Parser.cfg`, `Inputs <- Bracketings` | `2 + f(3)` is `(2 + f)(3)` (`bracket.c:108`), `x = f('1')` is `(x = f)('1')` |
| `RootExists` | `Parser.cfg`, `Inputs <- Bracketings` | a document with comments only has no root (`fragment.c:154`) |
| `WordsAreWords` | `Scanner.cfg` | a word may start with an operator that the scanner decides not to take |
| `BackslashesKept` | `Scanner.cfg` | of two backslashes in double quotes none is kept |
| `DialectAsked` | `Documents.cfg` | a document that is kept is given to callers of another dialect (`hemp.c:334`) |
| `FilesReread` | `Documents.cfg` | a file that was written is not read again |
| `ListsEnd` | `Documents.cfg` | after an error of the scanner a parser is given a list without an end of file (`document.c:56`) |
| `ContextsFreed` | `Documents.cfg` | an error leaves the contexts of the calls it crosses |
| `NotUsedAfterFree` | `Documents.cfg` | `hemp_document_data()` without a context frees the one that it made before the result is used (`document.c:188`) |
| `FreedOnce` | `Documents.cfg` | the command line frees a document that `hemp_free()` frees again |
| `NothingDeferred` | `Expressions.cfg`, `Programs <- AssignedTwice` | `a = (b)` keeps the fragment: it is evaluated when `a` is used, after `b` was changed (`word.c:112`) |
| `NoEmbrace` | `Expressions.cfg`, `Programs <- OwnValue` | a variable whose value is a fragment that uses it is evaluated without end |
| `StatementMeans` | `Expressions.cfg`, `Programs <- Empties` | parentheses around nothing |
| `ParentsStay` | `NamesKept.cfg`, `Column <- OwnColumns` | a dotted store in one Hemp's configuration changes a table that others defer to (`type/hash.c:327`; `tests/core/hemp.c:66` says that parents are masked) |
| `StoresOrThrows` | `Programs.cfg` | a list ignores a store by a name that is not a number and returns the value |
| `ReadsBack` | `NamesKept.cfg` | as `names_kept`, for the name that was stored itself |
| `NoDeadFrames` | `Programs.cfg` | the first jump buffer of a Hemp is filled in a call that returns (`hemp.c:69`); an exception of Perl leaves its own on the chain (`Hemp.xs:107`) |
| `NoFreedHemp` | `Programs.cfg` | Perl frees a Hemp whose contexts are still rendered in (`Hemp.xs:84`) |
| `LastFreesAll` | `Programs.cfg` | the binding counts as one more user for each Hemp (`types.c:21`), so that the last frees nothing |
| `TablesSuffice` | `Programs.cfg` | the bytes of a table of views are counted in 16 bits: from namespace number 4096 on it is written beyond its end, and from 32768 on the loop that looks for its size does not end (`viewer.c:52`, `56`) |
| `StatusTells` | `Programs.cfg`, `StatusSize = 2` | a system keeps eight bits of the status: 256 failed tests end like none |
| `RenderingPasses` | `Programs.cfg` | a test that expects nothing is not reported: `planned 1, ran 0` (`tests/scripts/README`) |
| `BlocksAreTrimmed` | `Programs.cfg` | a blank line in front of an expected block is not trimmed |
| `StopStops` | `Programs.cfg` | a stop marker before the start marker does nothing |
| `ReadsStrings` | `Programs.cfg` | a test with no output has no string to compare |
| `LocationsCount` | `Programs.cfg` | columns count from 0 (`include/hemp/error.h:82`) |
| `TestsAreTold` | `Programs.cfg` | a test of `hemp.test` that expects an error is not told at all (`modules/language/test.c:560`) |
| `ExprsEnd` | `Programs.cfg` | `exprs` goes on at the end of its input (`programs/hemp.c:465`) |
| `TextIsFirst` | `Programs.cfg` | the text behind `exprs` is given to every turn of its loop (`programs/hemp.c:458`) |
| `LineIsFreed` | `Programs.cfg` | the line of a single command is not freed |
| `JoinFits` | `URIPathFits.cfg` | joining the parts of a URI without an authority writes one cell past its buffer: there is a NUL behind the last part and another behind the whole (`uri.c:742`) |
| `NoneInvalid` | `URIPathFits.cfg` | a query without `=` ends the program, as does a URI or a base without a path when a reference is resolved (`uri.c:793`, `889`) |
| `ParamsAreTheQuery` | `URIPathFits.cfg` | `?a=1&a=` gives `a` the value `1&a` |
| `ReadsBack` (of URI) | `URIPathFits.cfg` | only a path ends an authority: what is joined to `//#a` has the host `#a` when it is split again, and `//h/a@b` has the user `h/a` |

What the models show besides, or the program when it is asked the same:

* *Calls.* The result of a sub without parameters, or of one expression in parentheses, is a fragment, which is
  evaluated when the frame has gone. In `f(a=2, a+1)` the second argument sees the first; named arguments of
  a call are seen by the calls among its arguments. A named argument without a value is not counted and then
  refused as one too many. Code with a prototype that is used as text is fatal.
* *Values.* The words of -inf and of some NaNs are those of tagged values, and count as 0 on the right of an
  operator. Division of integers by zero, and of the least by -1, stops the process. A text in place of a
  number is fatal for a literal and an error for a variable. `HempEqual` has other bits than its comment says.
* *Variables.* Within `with h`, `h.x` climbs to the variables around it. `hemp_fetch_dotted()` on a value that
  has no fetch throws, and leaves the list of names it has made.
* *Widths.* `hemp_list_grow()` doubles a 16-bit size: it does not end from 32768 items on (`type/list.c:76`).
* *Tables.* The grammar `hemp.bravo` has the constructor of `hemp.alpha` (`language/hemp.c:104`).
  `hemp_error_text()` leaves the buffer that `asprintf()` has made (`hemp.c:526`).
* *Types.* The type of parameters is made with the number of that of code (`type.c:137`).
* *Files.* `hemp_filesystem_readable_path()` returns a path that it has freed; only its test calls it.
  Of an empty file nothing is read: its text is whatever the buffer held (`filesystem.c:182`).
* *Scopes.* A call frame has no handler: after an error has crossed one, the frame and its variables stay in the
  context (`each.c:99`), and whatever is restored around it is restored to the wrong place.

## 6. Not modelled

* *Scopes*: a document owns a scope, and the scope a context; only the dot operator looks at it.
* *What views print*: `hemp_viewer_fragment()` looks for the views of an element's namespaces, calls none of them
  and always returns the missing value (`viewer.c:107`, marked TODO).
* *Utilities, dumps, banners*: they print and change no state. Error messages are left
  out, locations are in Strings.
* *Codecs, file system*: reading a file is in Documents; roots and paths that only tests use are not.
* *Scanner*: tags that are changed while a document is scanned; the elements of `element/tag.c`, `tag/embed.c`
  and `tag/variable.c`, which no language registers. To Scanner the tag set is a constant; Tables has its making.
* *Parser*: the command `just` and tags inside of tags. json is only a name for the programs.
* *Expressions*: lists, hashes, pairs and double quoted texts; `++` and `--`, which the code leaves to be done.
* *Storage*: `hemp_pool_give()`, which only tests call; stacks, which are sequences elsewhere; copies of lists
  and searches in them.
* *Hash tables*: `hemp_hash_each()` with a callback that stops, which none in the program does, and texts of
  hashes.
* *Calls*: list and hash parameters, which no syntax makes; the memory of prototypes.
* *Registry*: the identity of actions, which registering again frees; how the path of a library is put
  together.
* *Perl*: what a Perl value is as a text or number, which the interpreter decides; `ppport.h` is generated.
* *Evaluation*: the setters of contexts. Lists and texts of results are in Expressions and Storage.

## 7. Plan

Done in this order: Evaluation, LRUCache, HashTable, Registry, Ptree, Parser; Scanner, Documents, Values,
Expressions, Storage, URI, Memory; TestPlan, Testing, TestLanguage, Program, Names, Calls, Global; Tables; theorems
of Evaluation, LRUCache, HashTable, TestPlan, Documents, Registry, Scanner, Tables, Ptree, Program, Global,
Storage and Memory. Next:

1. *Theorems*: `NearestWins` for chains without cycles; of the parser, first that every fragment is taken once.
2. *Compositions*: Documents with Evaluation, so that the jump buffers of documents within documents are those
   of the C stack; Calls with Evaluation, for errors in arguments.
3. *Elements*: lists, hashes, pairs and double quoted texts in Expressions.
