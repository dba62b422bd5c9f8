------------------------------ MODULE Registry ------------------------------
(***************************************************************************)
(* Hemp objects, their factories, and the modules that all of them share.  *)
(*                                                                         *)
(* A factory makes and keeps the things of one kind: elements, languages,  *)
(* dialects and so on; the meta-factory of a Hemp makes its factories.  A  *)
(* thing is named by its factory and its name, and the constructor of a    *)
(* thing is registered by the program itself or by the binder of a module, *)
(* a library that is opened when the thing is first asked for.  Modules    *)
(* are loaded once for all Hemps and kept until the last of them is freed. *)
(*                                                                         *)
(* Everything happens on one stack of calls: asking for a thing may open a *)
(* module, whose binder registers things, which may ask for factories that *)
(* are in modules of their own.  The library path of a module is named by  *)
(* the thing it is opened for.  The table of modules keeps, for each slot, *)
(* the address of the text its path was in, and that text is freed when    *)
(* the call returns: buffers are addresses, and free ones are used again.  *)
(***************************************************************************)
EXTENDS Integers, Sequences, FiniteSets, SequencesExt

CONSTANTS
  Hemp,      \* the addresses of Hemp objects
  Thing,     \* <<factory, name>> pairs: everything that can be asked for
  Meta,      \* the name of the meta-factory
  Binds,     \* Binds[p]: what the binder of module p registers
  Makes,     \* Makes[x]: what running the constructor of x registers
  Own,       \* what the program registers itself
  Wild,      \* Wild[x]: the wildcard names that cover x, longest first
  Autoload,  \* the factories that open modules for names they do not have
  Library,   \* Library[p]: what opening the library of path p may come to
  Column,    \* the column of the modules table that a path belongs to
  Buffer,    \* the addresses of texts that hold paths
  Keeps,     \* whether a freed buffer may keep what was in it
  Core,      \* the owner of code that is in no module
  Null

Factory(k) == <<Meta, k>>

\* What hemp_module_load makes of a library: it cannot be opened, its loader
\* refuses, it has no binder, or all is well.  result is what it returns.
Loads ==
  { [handle |-> FALSE, error |-> TRUE,  binder |-> FALSE, result |-> FALSE],
    [handle |-> TRUE,  error |-> FALSE, binder |-> TRUE,  result |-> FALSE],
    [handle |-> TRUE,  error |-> FALSE, binder |-> FALSE, result |-> FALSE],
    [handle |-> TRUE,  error |-> TRUE,  binder |-> FALSE, result |-> FALSE],
    [handle |-> TRUE,  error |-> FALSE, binder |-> TRUE,  result |-> TRUE] }

ASSUME RegistryAssumption ==
  /\ Thing \subseteq {x[1] : x \in Thing} \X {x[2] : x \in Thing}
  /\ \A x \in Thing : x[1] # Meta => Factory(x[1]) \in Thing
  /\ Binds \in [Thing -> SUBSET Thing]
  /\ Makes \in [Thing -> SUBSET Thing]
  /\ Wild \in [Thing -> Seq(Thing)]
  /\ \A x \in Thing : \A i \in DOMAIN Wild[x] : Wild[x][i][1] = x[1]
  /\ Own \subseteq Thing
  /\ Library \in [Thing -> SUBSET Loads]
  /\ Keeps \subseteq BOOLEAN /\ Keeps # {}
  /\ Core \notin Thing /\ Null \notin Thing /\ Null # Core
  /\ \A b \in Buffer, l \in Loads : [key |-> b, load |-> l] # Null

VARIABLES
  hemps,      \* the Hemp objects that exist
  count,      \* global->n_hemps
  actions,    \* the owner of the constructor of every thing, in every Hemp
  instances,  \* the owner of the instance of every thing, in every Hemp
  modules,    \* global->modules: the slot of every path that has one
  text,       \* what the buffers contain
  held,       \* the buffers that are allocated
  stack,      \* the calls under way, innermost last
  exited      \* hemp_fatal has ended the process

vars == <<hemps, count, actions, instances, modules, text, held, stack, exited>>

Nothing == [x \in Thing |-> Null]

(***************************************************************************)
(* Calls.                                                                  *)
(***************************************************************************)
Ready == stack = <<>> /\ ~ exited
Top == Last(stack)
Below == Front(stack)
At(op, stage) == stack # <<>> /\ Top.op = op /\ Top.stage = stage
Become(stage) == Below \o <<[Top EXCEPT !.stage = stage]>>

\* hemp_factory_constructor, and hemp_factory_instance around it.
Ask(op, h, x) ==
  [op |-> op, stage |-> "search", hemp |-> h, thing |-> x, next |-> 1, loaded |-> FALSE]

\* hemp_use_module with the text of path x at b.
Use(h, x, b) ==
  [op |-> "use", stage |-> "find", hemp |-> h, thing |-> x, buffer |-> b, found |-> Null]

\* Code of an owner that has the things of todo to register.
Body(h, o, S) == [op |-> "body", stage |-> "run", hemp |-> h, owner |-> o, todo |-> S]

Release(h) == [op |-> "free", stage |-> "factories", hemp |-> h]

\* The factory of thing x is there to be asked.
HasFactory(h, x) == x[1] # Meta => instances[h][Factory(x[1])] # Null

-----------------------------------------------------------------------------
Init ==
  /\ hemps = {}
  /\ count = 0
  /\ actions = [h \in Hemp |-> Nothing]
  /\ instances = [h \in Hemp |-> Nothing]
  /\ modules = Nothing
  /\ text = [b \in Buffer |-> Null]
  /\ held = {}
  /\ stack = <<>>
  /\ exited = FALSE

(***************************************************************************)
(* Hemp objects.                                                           *)
(***************************************************************************)

\* hemp_new up to the meta-factory; what it goes on to register and to ask
\* for are calls like those of any program.
New(h) ==
  /\ Ready /\ h \notin hemps
  /\ hemps' = hemps \union {h}
  /\ count' = count + 1
  /\ modules' = IF count = 0 THEN Nothing ELSE modules
  /\ UNCHANGED <<actions, instances, text, held, stack, exited>>

\* Mutant: the factories are left as they are.
FreeGlobalOnly(h) ==
  /\ Ready /\ h \in hemps
  /\ stack' = <<[Release(h) EXCEPT !.stage = "global"]>>
  /\ UNCHANGED <<hemps, count, actions, instances, modules, text, held, exited>>

\* hemp_free: the factories, then the global data.
Free(h) ==
  /\ Ready /\ h \in hemps
  /\ stack' = <<Release(h)>>
  /\ UNCHANGED <<hemps, count, actions, instances, modules, text, held, exited>>

\* hemp_free_factories: every factory frees its instances and its actions.
FreeFactories ==
  /\ At("free", "factories")
  /\ actions' = [actions EXCEPT ![Top.hemp] = Nothing]
  /\ instances' = [instances EXCEPT ![Top.hemp] = Nothing]
  /\ stack' = Become("global")
  /\ UNCHANGED <<hemps, count, modules, text, held, exited>>

\* Mutant: the last Hemp leaves the modules open.
FreeGlobalLate ==
  /\ At("free", "global")
  /\ hemps' = hemps \ {Top.hemp}
  /\ count' = count - 1
  /\ modules' = IF count = 0 THEN Nothing ELSE modules
  /\ stack' = Below
  /\ UNCHANGED <<actions, instances, text, held, exited>>

\* Mutant: the count is not reduced.
FreeGlobalKept ==
  /\ At("free", "global")
  /\ hemps' = hemps \ {Top.hemp}
  /\ count' = count
  /\ modules' = IF count = 1 THEN Nothing ELSE modules
  /\ stack' = Below
  /\ UNCHANGED <<actions, instances, text, held, exited>>

\* hemp_global_free: the last Hemp closes the modules.
FreeGlobal ==
  /\ At("free", "global")
  /\ hemps' = hemps \ {Top.hemp}
  /\ count' = count - 1
  /\ modules' = IF count = 1 THEN Nothing ELSE modules
  /\ stack' = Below
  /\ UNCHANGED <<actions, instances, text, held, exited>>

(***************************************************************************)
(* Calls of the program.                                                   *)
(***************************************************************************)

\* hemp_register.
Register(h, x) ==
  /\ Ready /\ h \in hemps /\ x \in Own
  /\ stack' = <<Body(h, Core, {x})>>
  /\ UNCHANGED <<hemps, count, actions, instances, modules, text, held, exited>>

\* Mutant: an instance that exists is made again.
FetchAnew(op, h, x) ==
  /\ Ready /\ h \in hemps
  /\ HasFactory(h, x)
  /\ stack' = <<Ask(op, h, x)>>
  /\ UNCHANGED <<hemps, count, actions, instances, modules, text, held, exited>>

\* hemp_instance and hemp_constructor: the factory first, then the thing.
Fetch(op, h, x) ==
  /\ Ready /\ h \in hemps
  /\ op = "instance" => instances[h][x] = Null
  /\ stack' = (IF HasFactory(h, x) THEN <<Ask(op, h, x)>>
               ELSE <<Ask(op, h, x), Ask("instance", h, Factory(x[1]))>>)
  /\ UNCHANGED <<hemps, count, actions, instances, modules, text, held, exited>>

(***************************************************************************)
(* Factories.                                                              *)
(***************************************************************************)
Asking == At("instance", "search") \/ At("constructor", "search")
TopAction == actions[Top.hemp][Top.thing]

\* The constructor is in the table: it is the answer, or is run.
Known ==
  /\ Asking /\ TopAction # Null
  /\ stack' = IF Top.op = "constructor" THEN Below
              ELSE Become("made") \o <<Body(Top.hemp, TopAction, Makes[Top.thing])>>
  /\ UNCHANGED <<hemps, count, actions, instances, modules, text, held, exited>>

\* The wildcards still to be tried that are registered.
Untried ==
  {i \in Top.next..Len(Wild[Top.thing]) : actions[Top.hemp][Wild[Top.thing][i]] # Null}

\* Run the longest of them, and see what it registered.
TryWildcard ==
  /\ Asking /\ TopAction = Null /\ Untried # {}
  /\ LET i == Min(Untried)
         w == Wild[Top.thing][i]
     IN  stack' = Below \o <<[Top EXCEPT !.next = i + 1],
                             Body(Top.hemp, actions[Top.hemp][w], Makes[w])>>
  /\ UNCHANGED <<hemps, count, actions, instances, modules, text, held, exited>>

Unknown == Asking /\ TopAction = Null /\ Untried = {}

\* hemp_use_module, of the top thing: allocate the text of the path.
Open(last) ==
  \E b \in Buffer \ held :
    /\ text' = [text EXCEPT ![b] = Top.thing]
    /\ held' = held \union {b}
    /\ stack' = Below \o <<[Top EXCEPT !.next = 1, !.loaded = last],
                           Use(Top.hemp, Top.thing, b)>>

\* Open the module of the thing, once, and start again.
Load ==
  /\ Unknown /\ Top.thing[1] \in Autoload /\ ~ Top.loaded
  /\ Open(TRUE)
  /\ UNCHANGED <<hemps, count, actions, instances, modules, exited>>

\* Nobody can make it: HEMP_ERROR_INVALID unwinds every call.
Throw ==
  /\ Unknown /\ (Top.thing[1] \in Autoload => Top.loaded)
  /\ stack' = <<>>
  /\ UNCHANGED <<hemps, count, actions, instances, modules, text, held, exited>>

\* Mutant: the instance is not kept.
MadeUnkept ==
  /\ At("instance", "made")
  /\ stack' = Below
  /\ UNCHANGED <<hemps, count, actions, instances, modules, text, held, exited>>

\* Keep the instance.
Made ==
  /\ At("instance", "made")
  /\ instances' = [instances EXCEPT ![Top.hemp][Top.thing] = TopAction]
  /\ stack' = Below
  /\ UNCHANGED <<hemps, count, actions, modules, text, held, exited>>

\* hemp_factory_register, for one of the things a body registers.
BodyRegister ==
  /\ At("body", "run")
  /\ \E x \in Top.todo :
       IF HasFactory(Top.hemp, x)
       THEN /\ actions' = [actions EXCEPT ![Top.hemp][x] = Top.owner]
            /\ stack' = Below \o <<[Top EXCEPT !.todo = @ \ {x}]>>
       ELSE /\ stack' = stack \o <<Ask("instance", Top.hemp, Factory(x[1]))>>
            /\ UNCHANGED actions
  /\ UNCHANGED <<hemps, count, instances, modules, text, held, exited>>

BodyEnd ==
  /\ At("body", "run") /\ Top.todo = {}
  /\ stack' = Below
  /\ UNCHANGED <<hemps, count, actions, instances, modules, text, held, exited>>

(***************************************************************************)
(* Modules.                                                                *)
(***************************************************************************)

Paths == {p \in Thing : modules[p] # Null}

\* The comparison of the slot of path p in the column of path x: the numbers,
\* then the texts, the one that the slot's key points at and the one sought.
SlotMatches(p, x) ==
  /\ Column[p] = Column[x]
  /\ p = x \/ text[modules[p].key] = x

Matching(x) == {p \in Paths : SlotMatches(p, x)}

\* hemp_global_module: there is a slot.  Which slot of a column comes first
\* is not modelled.
FindModule ==
  /\ At("use", "find")
  /\ \E p \in Matching(Top.thing) :
       stack' = Below \o <<[Top EXCEPT !.stage = "bind", !.found = p]>>
  /\ UNCHANGED <<hemps, count, actions, instances, modules, text, held, exited>>

\* There is none: store a record under the text of the path, and load it.
LoadModule ==
  /\ At("use", "find") /\ Matching(Top.thing) = {}
  /\ \E l \in Library[Top.thing] :
       modules' = [modules EXCEPT ![Top.thing] = [key |-> Top.buffer, load |-> l]]
  /\ stack' = Below \o <<[Top EXCEPT !.stage = "bind", !.found = Top.thing]>>
  /\ UNCHANGED <<hemps, count, actions, instances, text, held, exited>>

LoadOf(p) == modules[p].load

\* Mutant: the binder is run by the call that loads the module.
BindNew ==
  /\ At("use", "bind")
  /\ IF LoadOf(Top.found).binder
     THEN /\ stack' = IF modules[Top.found].key = Top.buffer
                      THEN Become("bound") \o <<Body(Top.hemp, Top.found, Binds[Top.found])>>
                      ELSE Become("bound")
          /\ UNCHANGED exited
     ELSE exited' = TRUE /\ stack' = <<>>
  /\ UNCHANGED <<hemps, count, actions, instances, modules, text, held>>

\* Run the binder, or end the process.
Bind ==
  /\ At("use", "bind")
  /\ IF LoadOf(Top.found).binder
     THEN /\ stack' = Become("bound") \o <<Body(Top.hemp, Top.found, Binds[Top.found])>>
          /\ UNCHANGED exited
     ELSE exited' = TRUE /\ stack' = <<>>
  /\ UNCHANGED <<hemps, count, actions, instances, modules, text, held>>

\* Free the text of the path.
Bound ==
  /\ At("use", "bound")
  /\ held' = held \ {Top.buffer}
  /\ \E keep \in Keeps :
       text' = [text EXCEPT ![Top.buffer] = IF keep THEN @ ELSE Null]
  /\ stack' = Below
  /\ UNCHANGED <<hemps, count, actions, instances, modules, exited>>

-----------------------------------------------------------------------------
Step ==
  \/ FreeFactories \/ FreeGlobal
  \/ Known \/ TryWildcard \/ Load \/ Throw \/ Made \/ BodyRegister \/ BodyEnd
  \/ FindModule \/ LoadModule \/ Bind \/ Bound

\* What programs do that make some Hemps and ask for some things.
Uses(some, things) ==
  \/ \E h \in some : New(h) \/ Free(h)
  \/ \E h \in some, x \in things : Register(h, x)
  \/ \E h \in some, x \in things, op \in {"instance", "constructor"} : Fetch(op, h, x)

Next == Uses(Hemp, Thing) \/ Step

Spec == Init /\ [][Next]_vars

\* The calls on the stack run.
FairSpec == Spec /\ WF_vars(Step)

(***************************************************************************)
(* Properties.                                                             *)
(***************************************************************************)
Owners == Thing \union {Core, Null}

Calls ==
  [op : {"instance", "constructor"}, stage : {"search", "made"},
   hemp : hemps, thing : Thing, next : Nat, loaded : BOOLEAN]
  \union [op : {"use"}, stage : {"find", "bind", "bound"}, hemp : hemps, thing : Thing,
          buffer : held, found : Paths \union {Null}]
  \union [op : {"body"}, stage : {"run"}, hemp : hemps, owner : Owners, todo : SUBSET Thing]
  \union [op : {"free"}, stage : {"factories", "global"}, hemp : hemps]

\* Every part of the state has its type; calls are made on Hemps that exist,
\* with texts that are allocated, and find modules that are in the table.
TypeOK ==
  /\ hemps \subseteq Hemp /\ count = Cardinality(hemps)
  /\ actions \in [Hemp -> [Thing -> Owners]]
  /\ instances \in [Hemp -> [Thing -> Owners]]
  /\ modules \in [Thing -> [key : Buffer, load : Loads] \union {Null}]
  /\ text \in [Buffer -> Thing \union {Null}]
  /\ held \subseteq Buffer
  /\ \A i \in DOMAIN stack : stack[i] \in Calls
  /\ exited \in BOOLEAN

\* Code that a Hemp may still call, to construct a thing or to clean up an
\* instance, is in a library that is open: modules outlive the Hemp that
\* loaded them, and hemp_free runs the cleaners before it lets go of them
\* (hemp.c:186-198, global.c:66).
CodeLoaded ==
  \A h \in Hemp, x \in Thing : \A o \in {actions[h][x], instances[h][x]} \ {Core, Null} :
    o \in Paths /\ LoadOf(o).handle

\* When hemp_use_module returns, what the module registers is registered in
\* the Hemp that asked, whoever it was that loaded the module, and whatever
\* became of the paths of earlier calls (module.c:59-72, global.c:185).
UseRegisters ==
  At("use", "bound") => \A x \in Binds[Top.thing] :
    actions[Top.hemp][x] # Null

\* A thing that has an instance is not made again, nor is it while it is
\* being made (factory.c:206-226).
MadeOnce ==
  \A i \in DOMAIN stack : stack[i].op = "instance" =>
    /\ instances[stack[i].hemp][stack[i].thing] = Null
    /\ \A j \in DOMAIN stack : j # i /\ stack[j].op = "instance" =>
         stack[j].thing # stack[i].thing

\* A library that is open is not opened again, however many Hemps use it,
\* and is closed with the last of them (global.c:66-69, 184-188).
OpenedOnce ==
  [][/\ \A p \in Paths : modules'[p] = modules[p] \/ (modules'[p] = Null /\ hemps' = {})
     /\ hemps' = {} => Paths' = {}]_vars

\* Every call comes to its end, the search that starts again after a module
\* was opened included (factory.c:169-180).
CallsEnd == stack # <<>> ~> stack = <<>>

\* global.c:194 says of loading a module that "errors are stored inside
\* module": a module that failed to load is never bound.
FailedNotBound == At("use", "bound") => LoadOf(Top.found).result
=============================================================================
