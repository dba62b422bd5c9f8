---------------------------- MODULE MCRegistry ------------------------------
(***************************************************************************)
(* Model checking of the registry: two factories, one of which opens       *)
(* modules; a language that is in a module, whose binder also registers a  *)
(* set of elements, and one whose module does not register it; a set of    *)
(* elements that a wildcard registers.  The element factory does not open  *)
(* modules, as that of modules/factory/element.c.                          *)
(***************************************************************************)
EXTENDS Registry, TLC

CONSTANTS factory, language, element, hemp, json, test, set, plus

Language == Factory(language)
Element == Factory(element)
Things == {Language, Element, <<language, hemp>>, <<language, json>>,
           <<language, test>>, <<element, set>>, <<element, plus>>}

\* For two Hemps: all but the built-in language and the module that does not
\* provide what it was opened for.
FewThings == {Language, Element, <<language, json>>, <<element, set>>, <<element, plus>>}

With(S, f) == [x \in Thing |-> IF x \in S THEN f[x] \intersect Thing ELSE {}]

ModuleBinds ==
  With({Language, Element, <<language, json>>},
       Language :> {Language} @@ Element :> {Element} @@
       <<language, json>> :> {<<language, json>>, <<element, set>>})

ConstructorMakes ==
  With({<<language, hemp>>, <<element, set>>},
       <<language, hemp>> :> {<<element, set>>} @@
       <<element, set>> :> {<<element, plus>>})

Wildcards == [x \in Thing |-> IF x = <<element, plus>> THEN <<<<element, set>>>> ELSE <<>>]

Missing == [handle |-> FALSE, error |-> TRUE,  binder |-> FALSE, result |-> FALSE]
Good == [handle |-> TRUE, error |-> FALSE, binder |-> TRUE, result |-> TRUE]

\* The language module may fail in every way; the others are there, or not.
Libraries == [x \in Thing |-> IF x = <<language, json>> THEN Loads
                               ELSE IF x \in {Language, Element, <<language, test>>}
                                    THEN {Missing, Good} ELSE {Missing}]

Builtin == {<<language, hemp>>} \intersect Thing
Loading == {factory, language}

Apart == Language :> 0 @@ Element :> 1 @@ <<language, hemp>> :> 2 @@
         <<language, json>> :> 3 @@ <<language, test>> :> 4 @@
         <<element, set>> :> 5 @@ <<element, plus>> :> 6

Together == [x \in Thing |-> 0]

-----------------------------------------------------------------------------
\* Programs with one Hemp, which ask for everything, and programs with several.
VARIABLE several

One == {CHOOSE h \in Hemp : TRUE}

SomeInit == Init /\ several \in BOOLEAN
SomeNext ==
  /\ UNCHANGED several
  /\ \/ ~several /\ Uses(One, Thing)
     \/ several /\ Uses(Hemp, FewThings)
     \/ Step

SomeSpec == SomeInit /\ [][SomeNext]_<<vars, several>> /\ WF_vars(Step)
=============================================================================
