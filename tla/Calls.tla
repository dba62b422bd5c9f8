------------------------------- MODULE Calls -------------------------------
(***************************************************************************)
(* Functions of templates and their arguments: sub and f(a, b) = ... make  *)
(* code with a prototype, and an application evaluates its arguments into  *)
(* the parameters of a new frame, positional ones into a list and named    *)
(* ones into a hash that is the innermost of the variables meanwhile.      *)
(*                                                                         *)
(* Variables are hashes that defer to their parents.  Each method of an    *)
(* element or a type is an operator from one state of the context to the   *)
(* next, with what it returns in "value"; rendering a statement is a step. *)
(* What a statement means is defined a second time at the end, over        *)
(* environments that are passed on and never changed.                      *)
(***************************************************************************)
EXTENDS Integers, Sequences, FiniteSets, SequencesExt, Functions

CONSTANTS
  Templates,  \* the statements a template may have at each place
  NoScope

Globals == 1

ASSUME CallsAssumption == NoScope \notin Nat

VARIABLES
  runtime,    \* the context: its hashes, frames and variables, and what was returned last
  rendered,   \* the statements so far
  printed     \* the text of each

callsVars == <<runtime, rendered, printed>>

-----------------------------------------------------------------------------
\* Expressions, as the parser leaves them.
Term(op, name, params, args) == [op |-> op, name |-> name, params |-> params, args |-> args]
Variable(n) == Term("word", n, <<>>, <<>>)
Literal(t) == Term("literal", t, <<>>, <<>>)
Assignment(n, e) == Term("assign", n, <<>>, <<e>>)
Concat(a, b) == Term("concat", "", <<>>, <<a, b>>)
Parens(args) == Term("parens", "", <<>>, args)
Braces(args) == Term("braces", "", <<>>, args)
Apply(f, args) == Term("apply", "", <<>>, <<f>> \o args)
Sub(name, params, body) == Term("sub", name, params, <<body>>)      \* "" has no name
Thunk(name, body) == Term("sub without parameters", name, <<>>, <<body>>)
Define(f, params, body) == Term("define", f, params, <<body>>)      \* f(a, b) = body

\* Words that hold a text, code or a fragment, or nothing.
Boxed(type, text, params, body) == [type |-> type, text |-> text, params |-> params, body |-> body]
BoxText(t) == Boxed("text", t, <<>>, <<>>)
BoxCode(params, body) == Boxed("code", <<>>, params, <<body>>)
BoxFragment(e) == Boxed("fragment", <<>>, <<>>, <<e>>)
BoxMissing == Boxed("missing", <<>>, <<>>, <<>>)

-----------------------------------------------------------------------------
\* The variables of a context: hemp_hash_fetch() in a hash and its parents.
Scope(parent) == [parent |-> parent, slots |-> [n \in {} |-> BoxMissing]]

RECURSIVE Fetched(_, _, _)
Fetched(hashes, h, name) ==
  IF name \in DOMAIN hashes[h].slots THEN hashes[h].slots[name]
  ELSE IF hashes[h].parent = NoScope THEN BoxMissing ELSE Fetched(hashes, hashes[h].parent, name)

Goes(c) == c.outcome = "ok"
Yield(c, v) == [c EXCEPT !.value = v]
Aborts(c, how) == [c EXCEPT !.outcome = how]
StoreVar(c, name, v) == [c EXCEPT !.hashes[c.vars].slots = (name :> v) @@ @]
CallFrame(c) == Last(c.frames)

\* hemp_context_enter() and hemp_context_leave(): a frame has variables and parameters.
FreshScope(hashes) == CHOOSE h \in 1..Cardinality(DOMAIN hashes) + 1 : h \notin DOMAIN hashes
EnterFrame(c) ==
  LET v == FreshScope(c.hashes)
      one == (v :> Scope(c.vars)) @@ c.hashes
      n == FreshScope(one)
  IN [c EXCEPT !.hashes = (n :> Scope(NoScope)) @@ one, !.vars = v,
               !.frames = Append(@, [vars |-> v, nominals |-> n, ordinals |-> <<>>])]
LeaveFrame(c) ==
  LET f == CallFrame(c)
  IN [c EXCEPT !.vars = c.hashes[f.vars].parent, !.frames = Front(@),
               !.hashes = Restrict(@, DOMAIN @ \ {f.vars, f.nominals})]

\* hemp_context_focus_params() and hemp_context_blur_params().
FocusParams(c) ==
  [c EXCEPT !.hashes[CallFrame(c).nominals].parent = c.vars, !.vars = CallFrame(c).nominals]

\* Mutant: the named parameters go on to defer to the variables around them.
BlurChained(c) == [c EXCEPT !.vars = c.hashes[CallFrame(c).nominals].parent]
BlurParams(c) ==
  [c EXCEPT !.vars = c.hashes[CallFrame(c).nominals].parent, !.hashes[CallFrame(c).nominals].parent = NoScope]

-----------------------------------------------------------------------------
\* hemp_type_code_resolve_proto(): each parameter gets its named argument or the next
\* positional one, and becomes a variable of the frame; none of either may be left.
RECURSIVE Bound(_, _, _, _)
Bound(c, params, ord, nom) ==
  LET frame == CallFrame(c)
      named == Fetched(c.hashes, frame.nominals, params[1])
  IN IF params = <<>>
       THEN IF ord < Len(frame.ordinals) \/ nom < Cardinality(DOMAIN c.hashes[frame.nominals].slots)
              THEN Aborts(c, "fatal") ELSE c
     ELSE IF named # BoxMissing THEN Bound(StoreVar(c, params[1], named), Tail(params), ord, nom + 1)
     ELSE IF ord < Len(frame.ordinals)
       THEN Bound(StoreVar(c, params[1], frame.ordinals[ord + 1]), Tail(params), ord + 1, nom)
     ELSE Aborts(c, "fatal")
ResolveProto(c, code) == Bound(c, code.params, 0, 0)

RECURSIVE ValueIn(_, _), TextIn(_, _), ParamsIn(_, _)

\* The text function of a value: code with a prototype has no parameters here.
TextOfValue(c) ==
  CASE ~Goes(c) \/ c.value.type = "text" -> c
    [] c.value.type = "missing" -> Aborts(c, "thrown")
    [] c.value.type = "code" -> Aborts(c, "fatal")
    [] c.value.type = "fragment" -> TextIn(c, c.value.body[1])

\* The texts of some expressions, one after the other.
TextsIn(c, es) ==
  FoldLeft(LAMBDA d, e : LET t == TextIn(d, e) IN IF Goes(t) THEN Yield(t, BoxText(d.value.text \o t.value.text)) ELSE t,
           Yield(c, BoxText(<<>>)), es)

\* Items of parentheses; those of parentheses among them are taken out.
RECURSIVE ItemsOf(_)
ItemsOf(args) == FlattenSeq([i \in DOMAIN args |-> IF args[i].op = "parens" THEN ItemsOf(args[i].args) ELSE <<args[i]>>])

\* hemp_element_parens_value(): one item is the value as it is.
ParensValue(c, args) ==
  IF Len(ItemsOf(args)) = 1 THEN Yield(c, BoxFragment(ItemsOf(args)[1])) ELSE TextsIn(c, ItemsOf(args))

\* hemp_type_code_apply(); other values are themselves.
ApplyValue(c) ==
  IF ~Goes(c) \/ c.value.type # "code" THEN c ELSE ValueIn(ResolveProto(c, c.value), c.value.body[1])

\* hemp_element_block_params().
BlockParams(c, es) == FoldLeft(ParamsIn, c, es)

\* hemp_element_apply_value().
ApplyIn(c, e) ==
  LET args == BlockParams(FocusParams(EnterFrame(c)), Tail(e.args))
      result == ApplyValue(ValueIn(BlurParams(args), e.args[1]))
  IN IF ~Goes(args) THEN args ELSE IF ~Goes(result) THEN result ELSE LeaveFrame(result)

\* hemp_element_sub_value(): a name becomes a variable.
SubIn(c, e, block) == Yield(IF e.name = "" THEN c ELSE StoreVar(c, e.name, block), block)

\* The value function of an element; an assignment returns what was assigned as it is.
ValueIn(c, e) ==
  IF ~Goes(c) THEN c
  ELSE CASE e.op = "literal" -> Yield(c, BoxText(<<e.name>>))
         [] e.op = "word" -> Yield(c, Fetched(c.hashes, c.vars, e.name))
         [] e.op = "assign" ->
              LET d == ValueIn(c, e.args[1])
              IN IF Goes(d) THEN Yield(StoreVar(d, e.name, d.value), BoxFragment(e.args[1])) ELSE d
         [] e.op = "define" -> Yield(StoreVar(c, e.name, BoxCode(e.params, e.args[1])), BoxCode(e.params, e.args[1]))
         [] e.op \in {"concat", "braces"} -> TextsIn(c, e.args)
         [] e.op = "parens" -> ParensValue(c, e.args)
         [] e.op = "apply" -> ApplyIn(c, e)
         [] e.op = "sub" -> SubIn(c, e, BoxCode(e.params, e.args[1]))
         [] e.op = "sub without parameters" -> SubIn(c, e, BoxFragment(e.args[1]))

\* The text function of an element: those that assign have none to add.
Silent == {"assign", "define", "sub", "sub without parameters"}
TextIn(c, e) ==
  LET d == ValueIn(c, e)
  IN IF e.op \in Silent THEN (IF Goes(d) THEN Yield(d, BoxText(<<>>)) ELSE d) ELSE TextOfValue(d)

\* The params function of an element: assignments name a parameter, all else is pushed.
ParamsIn(c, e) ==
  IF e.op = "parens" THEN BlockParams(c, e.args)
  ELSE LET d == ValueIn(c, e)
       IN IF e.op \in {"assign", "define"} \/ ~Goes(d) THEN d
          ELSE [d EXCEPT !.frames[Len(d.frames)].ordinals = Append(@, d.value)]

-----------------------------------------------------------------------------
\* hemp_proto_add_item(): parsing ends at a parameter that is there already.
RECURSIVE Refused(_)
Refused(e) ==
  \/ \E i, j \in DOMAIN e.params : i # j /\ e.params[i] = e.params[j]
  \/ \E i \in DOMAIN e.args : Refused(e.args[i])

CallsInit ==
  /\ runtime = [hashes |-> Globals :> Scope(NoScope), vars |-> Globals, frames |-> <<>>,
                value |-> BoxMissing, outcome |-> "ok"]
  /\ rendered = <<>>
  /\ printed = <<>>

\* Each statement is rendered as a document of its own in the same context.
RenderStatement(e) ==
  /\ runtime.outcome = "ok"
  /\ \E c \in {IF Refused(e) THEN Aborts(runtime, "fatal") ELSE TextIn(runtime, e)} :
       /\ runtime' = Yield(c, BoxMissing)
       /\ printed' = Append(printed, c.value.text)
  /\ rendered' = Append(rendered, e)

CallsNext ==
  /\ Len(rendered) < Len(Templates)
  /\ \E e \in Templates[Len(rendered) + 1] : RenderStatement(e)

CallsSpec == CallsInit /\ [][CallsNext]_callsVars

-----------------------------------------------------------------------------
(***************************************************************************)
(* What a statement means.  An environment is what was set in the          *)
(* innermost scope, and what is seen of the others from there; a function  *)
(* returns the environment that is left.                                   *)
(***************************************************************************)
Within(own, seen) == [own |-> own, seen |-> seen]
Seen(env) == env.own @@ env.seen
Meant(v, env, ok) == [value |-> v, env |-> env, ok |-> ok]
Binds(env, name, v) == [env EXCEPT !.own = (name :> v) @@ @]
Defined(v) == v # BoxMissing

\* Parameters that are not named get the positional arguments, in order: there are as many,
\* and each name is a parameter that has a value.
Unnamed(params, named) == SelectSeq(params, LAMBDA p : p \notin DOMAIN named)
Accepts(params, named, ordinals) ==
  /\ Len(Unnamed(params, named)) = Len(ordinals)
  /\ DOMAIN named \subseteq ToSet(params)
  /\ \A p \in DOMAIN named : Defined(named[p])
Arguments(params, named, ordinals) ==
  [p \in ToSet(params) |->
    IF p \in DOMAIN named THEN named[p]
      ELSE ordinals[CHOOSE i \in DOMAIN ordinals : Unnamed(params, named)[i] = p]]

RECURSIVE Means(_, _), Says(_, _), Collected(_, _, _)

SaysValue(m) ==
  CASE ~m.ok \/ m.value.type = "text" -> m
    [] m.value.type \in {"missing", "code"} -> Meant(m.value, m.env, FALSE)
    [] m.value.type = "fragment" -> Says(m.value.body[1], m.env)

SaysAll(es, env) ==
  FoldLeft(LAMBDA m, e : LET n == Says(e, m.env)
                         IN IF m.ok /\ n.ok THEN Meant(BoxText(m.value.text \o n.value.text), n.env, TRUE)
                            ELSE Meant(m.value, m.env, FALSE),
           Meant(BoxText(<<>>), env, TRUE), es)

\* The arguments of an application are set in a scope of their own; positional ones are
\* collected.  The code is applied to both in the environment around the application.
Collected(args, env, ordinals) ==
  IF args = <<>> THEN [env |-> env, ordinals |-> ordinals, ok |-> TRUE]
  ELSE LET e == args[1]
           m == Means(e, env)
       IN IF e.op = "parens" THEN Collected(e.args \o Tail(args), env, ordinals)
          ELSE IF ~m.ok THEN [env |-> env, ordinals |-> ordinals, ok |-> FALSE]
          ELSE Collected(Tail(args), m.env, IF e.op \in {"assign", "define"} THEN ordinals ELSE Append(ordinals, m.value))

MeansCall(e, env) ==
  LET around == Seen(env)
      none == [n \in {} |-> BoxMissing]
      passed == Collected(Tail(e.args), Within(none, around), <<>>)
      applied == Means(e.args[1], Within(none, around))
      code == applied.value
      named == passed.env.own
      scope == Within(Arguments(code.params, named, passed.ordinals) @@ applied.env.own, around)
      body == Means(code.body[1], scope)
  IN IF ~passed.ok \/ ~applied.ok THEN Meant(BoxMissing, env, FALSE)
     ELSE IF code.type # "code" THEN Meant(code, env, TRUE)
     ELSE IF ~Accepts(code.params, named, passed.ordinals) THEN Meant(code, env, FALSE)
     ELSE Meant(body.value, env, body.ok)

Means(e, env) ==
  CASE e.op = "literal" -> Meant(BoxText(<<e.name>>), env, TRUE)
    [] e.op = "word" -> Meant(IF e.name \in DOMAIN Seen(env) THEN Seen(env)[e.name] ELSE BoxMissing, env, TRUE)
    [] e.op = "assign" ->
         LET m == Means(e.args[1], env)
         IN IF m.ok THEN Meant(BoxFragment(e.args[1]), Binds(m.env, e.name, m.value), TRUE) ELSE m
    [] e.op \in {"define", "sub", "sub without parameters"} ->
         LET v == IF e.op = "sub without parameters" THEN BoxFragment(e.args[1]) ELSE BoxCode(e.params, e.args[1])
         IN Meant(v, IF e.name = "" THEN env ELSE Binds(env, e.name, v), TRUE)
    [] e.op \in {"concat", "braces"} -> SaysAll(e.args, env)
    [] e.op = "parens" ->
         LET items == ItemsOf(e.args)
         IN IF Len(items) = 1 THEN Meant(BoxFragment(items[1]), env, TRUE) ELSE SaysAll(items, env)
    [] e.op = "apply" -> MeansCall(e, env)

Says(e, env) ==
  LET m == Means(e, env)
  IN IF e.op \in Silent /\ m.ok THEN Meant(BoxText(<<>>), m.env, TRUE) ELSE SaysValue(m)

NoVariables == Within([n \in {} |-> BoxMissing], [n \in {} |-> BoxMissing])
MeansAll(es) ==
  FoldLeft(LAMBDA r, e :
             LET m == Says(e, r.env)
             IN IF ~r.ok \/ ~m.ok \/ Refused(e) THEN [r EXCEPT !.ok = FALSE]
                ELSE [env |-> m.env, ok |-> TRUE, texts |-> Append(r.texts, m.value.text)],
           [env |-> NoVariables, ok |-> TRUE, texts |-> <<>>], es)

-----------------------------------------------------------------------------
\* Templates of calls mean what their environments say, although all calls share one chain
\* of hashes that frames are pushed on and parameters are patched into and out of: each
\* parameter has its argument, the variables around a call are as they were, and what is
\* left over or missing is refused (context.c:175, type/code.c:101).
CallsMean ==
  LET meant == MeansAll(rendered)
  IN /\ meant.ok <=> runtime.outcome = "ok"
     /\ meant.ok => /\ printed = meant.texts
                    /\ runtime.vars = Globals /\ DOMAIN runtime.hashes = {Globals} /\ runtime.frames = <<>>
                    /\ runtime.hashes[Globals].slots = meant.env.own
=============================================================================
