------------------------------- MODULE Global -------------------------------
(***************************************************************************)
(* What all Hemps of a process share besides modules: the namespaces of    *)
(* elements, the table of types, and the parts made with the first of them *)
(* and freed with the last.  Viewers keep their views by the number of the *)
(* namespace, each in a table of its own that grows.                       *)
(*                                                                         *)
(* The Perl binding makes and frees Hemps and contexts for a script, which *)
(* lets go of them in any order, registers the types of its values, and    *)
(* turns errors into exceptions of Perl.                                   *)
(***************************************************************************)
EXTENDS Integers, Sequences, FiniteSets, SequencesExt, FiniteSetsExt, Functions

CONSTANTS
  Objects,        \* the addresses of Hemps
  ElementNames,   \* names of elements, without the dots
  Symbols,        \* the names of the global elements, in order
  Views,          \* view functions
  TextViews,      \* what a new text viewer adds, in order: names and views
  TypeNames,      \* types that a program registers
  PerlTypes,      \* those of the Perl binding, in order
  PerlContexts,   \* the addresses of contexts of a script
  NoContext, NoView,
  TypesReserved,  \* HEMP_TYPES_RESERVED
  TypesSize,      \* HEMP_TYPES_SIZE
  ViewSize,       \* HEMP_VIEW_SIZE
  Width,          \* the sizes that fit in 16 bits
  PointerSize,
  MaxUsers        \* bound: users that were counted

ASSUME GlobalAssumption ==
  /\ ElementNames \subseteq Seq(STRING) /\ Symbols \in Seq(ElementNames)
  /\ TextViews \in Seq(ElementNames \X Views)
  /\ NoView \notin Views /\ NoContext \notin PerlContexts
  /\ PerlTypes \in Seq(STRING) /\ ToSet(PerlTypes) \cap TypeNames = {}
  /\ {"built in", "unused", "none"} \cap (ToSet(PerlTypes) \union TypeNames) = {}
  /\ {TypesReserved, TypesSize, ViewSize, Width, PointerSize} \subseteq Nat \ {0}
  /\ TypesReserved < TypesSize /\ ViewSize * PointerSize < Width

VARIABLES
  global,    \* the shared data: its users, parts, namespaces, types, and those of the binding
  hemps,     \* the Hemps there are
  contexts,  \* the contexts of the script, and the values in them
  over       \* why the process has ended

globalVars == <<global, hemps, contexts, over>>

Parts == {"namespaces", "types", "symbols", "modules", "config"}
Going == over = "no"
With(f, x, y) == [z \in DOMAIN f \union {x} |-> IF z = x THEN y ELSE f[z]]

-----------------------------------------------------------------------------
\* Namespaces, by their path: a child gets the next number when it is first named.
Child(names, path) ==
  IF path \in DOMAIN names.spaces THEN names
    ELSE [next |-> (names.next + 1) % Width, spaces |-> With(names.spaces, path, (names.next + 1) % Width)]

\* hemp_resolve_namespace(): from the root down.
Namespace(names, name) ==
  FoldLeft(LAMBDA s, n : Child(s, SubSeq(name, 1, n)), names, [n \in DOMAIN name |-> n])
AllNamed(names, list) == FoldLeft(Namespace, names, list)
NoNames == [next |-> 0, spaces |-> [p \in {} |-> 0]]

-----------------------------------------------------------------------------
\* The table of types: the first are those of Hemp, the others are registered by name.  A
\* slot without a registered type is "unused", and "none" when there is no table.
NewTypes == [n \in 0..TypesSize - 1 |-> IF n <= TypesReserved THEN "built in" ELSE "unused"]
NoTypes == [n \in 0..TypesSize - 1 |-> "none"]
Registered(g, name) == {n \in TypesReserved + 1..TypesSize - 1 : g.types[n] = name}

\* hemp_use_type(): there may be no room for it.
TypeFits(g, name) == Registered(g, name) \union Registered(g, "unused") # {}
TypeId(g, name) ==
  IF Registered(g, name) # {} THEN Min(Registered(g, name)) ELSE Min(Registered(g, "unused"))
UseType(g, name) == [g EXCEPT !.types[TypeId(g, name)] = name]

-----------------------------------------------------------------------------
\* hemp_global_init(): each part is made unless it is there.
InitPart(g, part, Make(_)) == IF part \in g.parts THEN g ELSE [Make(g) EXCEPT !.parts = @ \union {part}]
InitNamespaces(g) ==
  InitPart(g, "namespaces", LAMBDA s : [s EXCEPT !.names = [next |-> 0, spaces |-> [p \in {<<>>} |-> 0]]])
InitTypes(g) == InitPart(g, "types", LAMBDA s : [s EXCEPT !.types = NewTypes])
InitSymbols(g) == InitPart(g, "symbols", LAMBDA s : [s EXCEPT !.names = AllNamed(@, Symbols)])
InitModules(g) == InitPart(g, "modules", LAMBDA s : s)
InitConfig(g) == InitPart(g, "config", LAMBDA s : s)

GlobalInit(g) ==
  [(IF g.users > 0 THEN g ELSE InitConfig(InitModules(InitSymbols(InitTypes(InitNamespaces(g))))))
     EXCEPT !.users = @ + 1]

\* hemp_global_free(): the last user frees the parts.
FreeTypes(g) == [g EXCEPT !.types = NoTypes, !.parts = @ \ {"types"}]
FreeNamespaces(g) == [g EXCEPT !.names = NoNames, !.parts = @ \ {"namespaces"}]
FreeParts(g) == FreeNamespaces(FreeTypes([g EXCEPT !.parts = @ \ {"config", "modules", "symbols"}]))
GlobalFree(g) ==
  LET h == [g EXCEPT !.users = @ - 1] IN IF h.users = 0 THEN FreeParts(h) ELSE h

-----------------------------------------------------------------------------
\* A table of views and its size, which is counted in 16 bits, and so are its bytes.
NoViews == [size |-> 0, slots |-> <<>>]

\* The loop of hemp_viewer_resize(): the size after some of its turns, and the turns after
\* which it is large enough.  After 16 turns the size is 0, and stays so.
SizeAfter(table, turns) == ((IF table.size = 0 THEN ViewSize ELSE table.size) * 2^turns) % Width
TurnsTo(table, least) == {turns \in 0..16 : SizeAfter(table, turns) > least}

TableOf(table, size) ==
  [size |-> size,
   slots |-> [i \in 1..((size * PointerSize) % Width) \div PointerSize |->
                IF i <= Len(table.slots) THEN table.slots[i] ELSE NoView]]

\* Mutant: a table that the number does not fit in by one is large enough.
ResizeShort(table, least) == TableOf(table, SizeAfter(table, Min(TurnsTo(table, least - 1))))

\* hemp_viewer_resize().
Resize(table, least) == TableOf(table, SizeAfter(table, Min(TurnsTo(table, least))))

\* hemp_viewer_add_view(): the first view of a namespace stays.  The loop may have no end,
\* and the table may be written beyond its memory, by its old views or by the new one.
Fitted(table, id) == IF id < table.size THEN table ELSE Resize(table, id)
AddView(table, id, view) ==
  LET t == Fitted(table, id) IN IF t.slots[id + 1] = NoView THEN [t EXCEPT !.slots[id + 1] = view] ELSE t
AddFault(table, id) ==
  CASE id >= table.size /\ TurnsTo(table, id) = {} -> "endless loop"
    [] OTHER -> IF Len(Fitted(table, id).slots) < Max({id + 1, Len(table.slots)}) THEN "overrun" ELSE "no"

\* hemp_viewer_fragment(): the views of a table that are read on the way from the namespace
\* of an element to the root.  None is called, and the result is always HempMissing.
FragmentReads(names, table, name) ==
  {names.spaces[SubSeq(name, 1, n)] : n \in 0..Len(name)} \cap 0..(table.size - 1)

-----------------------------------------------------------------------------
\* A Hemp: its text viewer, the views that were added under each name, first
\* one first, and the jump buffers that were left behind on its chain.
BlankHemp == [viewer |-> NoViews, given |-> [n \in {} |-> NoView], left |-> 0]

GlobalsInit ==
  /\ global = [users |-> 0, parts |-> {}, names |-> NoNames, types |-> NoTypes,
               perl |-> [t \in {} |-> 0]]
  /\ hemps = [h \in {} |-> BlankHemp]
  /\ contexts = [c \in {} |-> NoContext]
  /\ over = "no"

\* hemp_new() and hemp_free(), which looks for the first jump buffer through all others.
CreateHemp(h) ==
  /\ Going /\ h \notin DOMAIN hemps /\ global.users < MaxUsers
  /\ global' = GlobalInit(global)
  /\ hemps' = With(hemps, h, BlankHemp)
  /\ UNCHANGED <<contexts, over>>

FreeHemp(h) ==
  /\ Going /\ h \in DOMAIN hemps
  /\ global' = GlobalFree(global)
  /\ hemps' = Restrict(hemps, DOMAIN hemps \ {h})
  /\ over' = IF hemps[h].left > 0 THEN "dead frame" ELSE over
  /\ UNCHANGED contexts

\* hemp_element_new(), for a grammar of a Hemp.
MakeElement(h, name) ==
  /\ Going /\ h \in DOMAIN hemps
  /\ global' = [global EXCEPT !.names = Namespace(@, name)]
  /\ UNCHANGED <<hemps, contexts, over>>

\* A view is added to a viewer of a Hemp, unless the process has ended on the way.
WithView(hemp, id, name, view) ==
  [hemp EXCEPT !.viewer = AddView(@, id, view),
               !.given = IF name \in DOMAIN @ THEN @ ELSE With(@, name, view)]
GivenView(s, name, view) ==
  LET named == Namespace(s.names, name)
      fault == AddFault(s.hemp.viewer, named.spaces[name])
  IN IF s.over # "no" THEN s
     ELSE [names |-> named, over |-> fault,
           hemp |-> IF fault = "no" THEN WithView(s.hemp, named.spaces[name], name, view) ELSE s.hemp]
Viewed(h) == [names |-> global.names, over |-> over, hemp |-> hemps[h]]

\* hemp_viewer_text(): the views are added one after the other.
TextViewer(s) == FoldLeft(LAMBDA t, tv : GivenView(t, tv[1], tv[2]), s, TextViews)

\* hemp_viewer(), when it is first asked for.
MakeViewer(h) ==
  /\ Going /\ h \in DOMAIN hemps /\ hemps[h].viewer = NoViews
  /\ \E made \in {TextViewer(Viewed(h))} :
       /\ global' = [global EXCEPT !.names = made.names]
       /\ hemps' = [hemps EXCEPT ![h] = made.hemp]
       /\ over' = made.over
  /\ UNCHANGED contexts

GiveView(h, name, view) ==
  /\ Going /\ h \in DOMAIN hemps /\ hemps[h].viewer # NoViews
  /\ \E made \in {GivenView(Viewed(h), name, view)} :
       /\ global' = [global EXCEPT !.names = made.names]
       /\ hemps' = [hemps EXCEPT ![h] = made.hemp]
       /\ over' = made.over
  /\ UNCHANGED contexts

RegisterType(name) ==
  /\ Going /\ hemps # <<>>
  /\ IF TypeFits(global, name) THEN global' = UseType(global, name) /\ UNCHANGED over
       ELSE over' = "fatal" /\ UNCHANGED global
  /\ UNCHANGED <<hemps, contexts>>

\* hemp_error_throw() without a HEMP_TRY: the buffer is that of hemp_init_errors(), or one
\* that was left behind, and the call it was filled in by has returned.
Uncaught(h) ==
  /\ Going /\ h \in DOMAIN hemps
  /\ over' = "dead frame"
  /\ UNCHANGED <<global, hemps, contexts>>

-----------------------------------------------------------------------------
(***************************************************************************)
(* The Perl binding.                                                       *)
(***************************************************************************)

\* The types are registered once; the binding keeps them.
UsePerlType(g, t) == [UseType(g, t) EXCEPT !.perl = With(@, t, TypeId(g, t))]
UsePerlTypes(g) ==
  LET used[n \in 0..Len(PerlTypes)] == IF n = 0 THEN g ELSE UsePerlType(used[n - 1], PerlTypes[n])
  IN used[Len(PerlTypes)]
PerlTypesFit(g) ==
  Cardinality(Registered(g, "unused")) >= Cardinality({t \in ToSet(PerlTypes) : Registered(g, t) = {}})

\* Mutant: the binding does not count as a user.
PerlInitUncounted(g) == UsePerlTypes(g)

\* hemp_perl_init(): the binding is a user of the shared data that never lets go of it.
PerlInit(g) == UsePerlTypes(GlobalInit(g))

\* Hemp->new.
PerlNew(h) ==
  /\ Going /\ h \notin DOMAIN hemps /\ global.users + 1 < MaxUsers
  /\ \E g \in {GlobalInit(global)} :
       IF PerlTypesFit(g) THEN global' = PerlInit(g) /\ UNCHANGED over
         ELSE global' = GlobalInit(g) /\ over' = "fatal"
  /\ hemps' = With(hemps, h, BlankHemp)
  /\ UNCHANGED contexts

\* $hemp->context and the end of a context; the script may have let go of the Hemp before.
PerlContext(h, c) ==
  /\ Going /\ h \in DOMAIN hemps /\ c \notin DOMAIN contexts /\ DOMAIN global.perl # {}
  /\ contexts' = With(contexts, c, [hemp |-> h, values |-> {}])
  /\ UNCHANGED <<global, hemps, over>>

PerlFreeContext(c) ==
  /\ Going /\ c \in DOMAIN contexts
  /\ contexts' = Restrict(contexts, DOMAIN contexts \ {c})
  /\ UNCHANGED <<global, hemps, over>>

\* $context->set: the value has the number of its type.
PerlSet(c, type) ==
  /\ Going /\ c \in DOMAIN contexts
  /\ contexts' = [contexts EXCEPT ![c].values = @ \union {[type |-> type, id |-> global.perl[type]]}]
  /\ UNCHANGED <<global, hemps, over>>

\* $template->render: an error becomes an exception, which leaves HEMP_CATCH_ALL by a jump
\* of its own.
PerlRender(c) ==
  /\ Going /\ c \in DOMAIN contexts
  /\ IF contexts[c].hemp \notin DOMAIN hemps
       THEN over' = "freed Hemp" /\ UNCHANGED hemps
       ELSE UNCHANGED over /\ \E failed \in {0, 1} :
              /\ hemps[contexts[c].hemp].left + failed <= 1   \* bound: one is left
              /\ hemps' = [hemps EXCEPT ![contexts[c].hemp].left = @ + failed]
  /\ UNCHANGED <<global, contexts>>

-----------------------------------------------------------------------------
GlobalsNext ==
  \/ \E h \in Objects : CreateHemp(h) \/ FreeHemp(h) \/ MakeViewer(h) \/ PerlNew(h) \/ Uncaught(h)
  \/ \E h \in Objects, name \in ElementNames : MakeElement(h, name) \/ \E v \in Views : GiveView(h, name, v)
  \/ \E t \in TypeNames : RegisterType(t)
  \/ \E c \in PerlContexts : PerlFreeContext(c) \/ PerlRender(c) \/ \E h \in Objects : PerlContext(h, c)
  \/ \E c \in PerlContexts, t \in ToSet(PerlTypes) : PerlSet(c, t)

GlobalsSpec == GlobalsInit /\ [][GlobalsNext]_globalVars

-----------------------------------------------------------------------------
\* The shape of the state; the parts are there for as long as there is a user.
GlobalsTypeOK ==
  /\ global.users \in 0..MaxUsers /\ Cardinality(DOMAIN hemps) <= global.users
  /\ global.parts = IF global.users = 0 THEN {} ELSE Parts
  /\ DOMAIN hemps \subseteq Objects /\ DOMAIN contexts \subseteq PerlContexts
  /\ over \in {"no", "fatal", "dead frame", "freed Hemp", "overrun", "endless loop"}

\* The largest table of views whose bytes are counted in 16 bits.
LargestTable == Max({size \in {ViewSize * 2^turns : turns \in 0..16} : size * PointerSize < Width})

\* At the number of a namespace the table of a viewer has the first view that was added under
\* its name, and none if there was none, whichever Hemps and viewers made the namespaces and
\* in whatever order the numbers were given out and the tables grew; a search stays inside
\* of its memory.  A table is written beyond it, or grows without end, only for a namespace
\* that the largest table has no place for (viewer.c:38-99, namespace.c:67).
ViewsInPlace ==
  /\ over \notin {"overrun", "endless loop"} =>
       \A h \in DOMAIN hemps, name \in DOMAIN global.names.spaces :
         LET id == global.names.spaces[name]
             table == hemps[h].viewer
             given == hemps[h].given
         IN /\ FragmentReads(global.names, table, name) \subseteq 0..(Len(table.slots) - 1)
            /\ (IF id < table.size THEN table.slots[id + 1] ELSE NoView) =
                 IF name \in DOMAIN given THEN given[name] ELSE NoView
  /\ over \in {"overrun", "endless loop"} =>
       \E name \in DOMAIN global.names.spaces : global.names.spaces[name] >= LargestTable

\* The table of a viewer has room for the view of any namespace. The code does not keep it:
\* from the number 4096 on its size in bytes does not fit in 16 bits, and from 32768 on
\* neither does the number of its views (viewer.c:52, viewer.c:56).
TablesSuffice == over \notin {"overrun", "endless loop"}

\* The number in a value leads to the type it was made with, for as long as a context has
\* the value, also when the script has let go of all Hemps and has made others
\* (types.c:21, type.c:235).
ValuesHaveTypes ==
  \A c \in DOMAIN contexts : \A v \in contexts[c].values : global.types[v.id] = v.type

\* An error never goes to a call that has returned. The code does not keep it: the buffer
\* of hemp_init_errors() is filled in a call that returns (hemp.c:69), and an exception of
\* Perl leaves its buffer on the chain (Hemp.xs:107).
NoDeadFrames == over # "dead frame"

\* A context is only rendered in a Hemp that exists. The code does not keep it: Perl frees
\* a Hemp without regard for its contexts (Hemp.xs:84).
NoFreedHemp == over # "freed Hemp"

\* The last Hemp frees all shared data (global.c:66). The binding does not keep it: it
\* counts as one more user for each Hemp (types.c:21).
LastFreesAll == hemps = <<>> => global.parts = {}
=============================================================================
