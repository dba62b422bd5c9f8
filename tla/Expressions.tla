---------------------------- MODULE Expressions ----------------------------
(***************************************************************************)
(* Evaluation of expressions: the methods of the elements that stand for   *)
(* literals, words, operators and parentheses (library/element/number.c,   *)
(* boolean.c, compare.c, text.c, word.c, assign.c, bracket.c, quoted.c,    *)
(* literal.c, operator.c), and the defaults that carry a method over to    *)
(* another one or to the type of the value it yields (library/element.c).  *)
(*                                                                         *)
(* A program is a sequence of statements.  A fragment is a node of one,    *)
(* named by its path.  Each frame of the stack is a call of a method on a  *)
(* fragment, with the results of the calls that it has made itself.  The   *)
(* machine takes one step for each call and each return.                   *)
(***************************************************************************)
EXTENDS Values

CONSTANTS Programs,  \* the programs that are run
          Names      \* of variables

VARIABLES program,
          vars,      \* the variables of the context
          stack,
          output,    \* the texts of the statements that have been evaluated
          status,    \* "run", "done", or how the program has failed
          seen       \* the leaves that the current statement has evaluated

vs == <<program, vars, stack, output, status, seen>>

-----------------------------------------------------------------------------
(* Elements: which function each method of a fragment calls. *)

hemp_element_new ==
  [text |-> "not", value |-> "not", number |-> "not", integer |-> "not",
   boolean |-> "not", compare |-> "not", assign |-> "not", values |-> "itself"]

hemp_element_literal == [hemp_element_new EXCEPT !.text = "text of leaf", !.value = "text of leaf"]

hemp_element_number ==
  [hemp_element_literal EXCEPT !.value = "leaf", !.number = "leaf", !.integer = "value as",
                               !.boolean = "value as", !.compare = "value as"]

hemp_element_integer == [hemp_element_number EXCEPT !.integer = "leaf"]

hemp_element_squote ==
  [hemp_element_new EXCEPT !.text = "text of leaf", !.value = "text of leaf", !.values = "value as"]

hemp_element_word ==
  [hemp_element_literal EXCEPT !.value = "variable", !.text = "value as", !.number = "value as",
      !.integer = "value as", !.boolean = "value as", !.assign = "store"]

hemp_element_operator ==
  [hemp_element_new EXCEPT !.text = "value as", !.values = "value as", !.number = "value as",
      !.integer = "value as", !.boolean = "value as", !.compare = "value as"]

Arithmetic(code) == [hemp_element_operator EXCEPT !.value = code, !.number = code]
IntArithmetic == [Arithmetic("integers") EXCEPT !.integer = "integers"]
Prefix == Arithmetic("prefix")

BooleanForgotten(code) == [hemp_element_operator EXCEPT !.value = "boolean"]
hemp_element_boolean(code) == [hemp_element_operator EXCEPT !.value = "boolean", !.boolean = code]

\* <=> has the comparison for its value too, cmp calls the method compare.
hemp_element_number_compare ==
  [hemp_element_operator EXCEPT !.value = "compare numbers", !.compare = "compare numbers"]
hemp_element_text_compare ==
  [hemp_element_operator EXCEPT !.value = "compare", !.compare = "compare texts"]

\* The elements of comparisons that are true or false: of numbers and of texts.
Relation(code) == [hemp_element_boolean("is compare") EXCEPT !.compare = code]

hemp_element_text_concat == [hemp_element_operator EXCEPT !.value = "text", !.text = "concat"]

hemp_element_assign ==
  [hemp_element_operator EXCEPT !.value = "assign", !.text = "no text of assign"]

hemp_element_parens == [hemp_element_operator EXCEPT !.value = "parens", !.values = "values of each"]

NumberRelations == {"==", "!=", "<", "<=", ">", ">="}
TextRelations == {"eq", "ne", "lt", "le", "gt", "ge"}

Element(type) ==
  CASE type = "number" -> hemp_element_number
    [] type = "integer" -> hemp_element_integer
    [] type = "squote" -> hemp_element_squote
    [] type = "word" -> hemp_element_word
    [] type \in {"+", "-", "*", "/"} -> Arithmetic("left decides")
    [] type = "**" -> Arithmetic("numbers")
    [] type \in {"div", "mod"} -> IntArithmetic
    [] type \in {"+x", "-x"} -> Prefix
    [] type = "<=>" -> hemp_element_number_compare
    [] type = "cmp" -> hemp_element_text_compare
    [] type \in NumberRelations -> Relation("compare numbers")
    [] type \in TextRelations -> Relation("compare texts")
    [] type = "not" -> hemp_element_boolean("not x")
    [] type \in {"and", "or"} -> hemp_element_boolean("both")
    [] type = "~" -> hemp_element_text_concat
    [] type = "=" -> hemp_element_assign
    [] type = "()" -> hemp_element_parens

-----------------------------------------------------------------------------
(* Operators on values: sets of outcomes. *)

Crash == <<"crash">>   \* the processor stops the program
NumOut(r) == Value(NumVal(r))
IntOut(n) == Value(IntVal(n))

\* Division of integers that has no quotient, or none that is a HempInt.
hemp_int_divide(a, b, op(_, _)) ==
  IF b = 0 THEN {Crash}
  ELSE {IntOut(op(a, b))} \union IF a = MinInt /\ b = -1 THEN {Crash} ELSE {}

\* Integers when the left operand is one, doubles otherwise.
ByLeft(lval, rval, ints(_, _), reals(_, _)) ==
  IF IsInteger(lval) THEN ints(ValInt(lval), ValInt(rval))
  ELSE {NumOut(r) : r \in reals(ValNum(lval), CastNum(rval))}

hemp_number_plus(lval, rval) ==
  ByLeft(lval, rval, LAMBDA a, b : {IntOut(a + b)}, PlusReals)
hemp_number_minus(lval, rval) ==
  ByLeft(lval, rval, LAMBDA a, b : {IntOut(a - b)}, LAMBDA x, y : PlusReals(x, MinusReal(y)))
hemp_number_multiply(lval, rval) ==
  ByLeft(lval, rval, LAMBDA a, b : {IntOut(a * b)}, TimesReals)
hemp_number_divint(lval, rval) == hemp_int_divide(ValInt(lval), ValInt(rval), Quotient)
hemp_number_divide(lval, rval) ==
  ByLeft(lval, rval, LAMBDA a, b : hemp_number_divint(lval, rval), OverReals)
hemp_number_modulus(lval, rval) == hemp_int_divide(ValInt(lval), ValInt(rval), Remainder)
hemp_number_power(lval, rval) ==
  IF IsInteger(lval)
  THEN {IntOut(n) : n \in UNION {TruncOf(r) : r \in PowerReals(CastNum(lval), CastNum(rval))}}
  ELSE {NumOut(r) : r \in PowerReals(ValNum(lval), CastNum(rval))}

hemp_number_op(type, lval, rval) ==
  CASE type = "+" -> hemp_number_plus(lval, rval)
    [] type = "-" -> hemp_number_minus(lval, rval)
    [] type = "*" -> hemp_number_multiply(lval, rval)
    [] type = "/" -> hemp_number_divide(lval, rval)
    [] type = "**" -> hemp_number_power(lval, rval)
    [] type = "div" -> hemp_number_divint(lval, rval)
    [] type = "mod" -> hemp_number_modulus(lval, rval)

hemp_number_prefix(type, val) ==
  CASE type = "+x" -> {Value(val)}
    [] type = "-x" /\ IsInteger(val) -> {IntOut(-ValInt(val))}
    [] OTHER -> {NumOut(MinusReal(ValNum(val)))}

hemp_number_compare(lval, rval) ==
  LET x == CastNum(lval)
      y == CastNum(rval)
  IN  {Value(IF Less(x, y) THEN Before ELSE IF Less(y, x) THEN After ELSE Equal)}

\* strcmp(): which of two different texts comes first is left open.  The text of
\* Empty and that of an assignment are made without a string, or with one that holds
\* what was in memory before.
hemp_text_compare(lval, rval) ==
  CASE TextVal(<<>>) \in {lval, rval} -> {Value(Equal), Value(Before), Value(After), Crash}
    [] lval = rval -> {Value(Equal)}
    [] OTHER -> {Value(Before), Value(After)}

CompareIsAfter(type, result) ==
  CASE type \in {"==", "eq"} -> result = Equal
    [] type \in {"!=", "ne"} -> result # Equal
    [] type \in {"<", "lt"} -> result = Before
    [] OTHER -> result = After

hemp_compare_is(type, result) ==
  CASE type \in {"==", "eq"} -> result = Equal
    [] type \in {"!=", "ne"} -> result # Equal
    [] type \in {"<", "lt"} -> result = Before
    [] type \in {">=", "ge"} -> result # Before
    [] type \in {">", "gt"} -> result = After
    [] type \in {"<=", "le"} -> result # After

hemp_boolean_not(val) == BoolVal(~IsTrue(val))
hemp_boolean_op(type, lval, rval) ==
  BoolVal(IF type = "and" THEN IsTrue(lval) /\ IsTrue(rval) ELSE IsTrue(lval) \/ IsTrue(rval))

\* The method of the type of a value that is no fragment.
hemp_type_method(method, v) ==
  CASE method = "text" -> ToText(v)
    [] method = "number" -> IF IsNumeric(v) THEN {Value(v)} ELSE ToNumber(v)
    [] method = "integer" -> ToInteger(v)
    [] method = "boolean" -> ToBoolean(v)
    [] method = "compare" -> ToCompare(v)
    [] method = "values" -> {Value(<<v>>)}

-----------------------------------------------------------------------------
(* What a frame does next, by the function that it runs: it calls a method *)
(* of a fragment, or adds an outcome to what it has got, or returns one.   *)

NodeAt(path) ==
  LET down[n \in 1..Len(path)] ==
        IF n = 1 THEN program[path[1]] ELSE down[n - 1].args[path[n]]
  IN  down[Len(path)]

Call(node, method) == <<"call", node, method>>
Return(outcomes) == <<"return", outcomes>>
Fatal == {<<"fatal">>}

\* hemp_call(): the method of a fragment or of another value.
CallOn(v, method) ==
  IF IsObject(v) THEN Call(v[3], method) ELSE <<"got", hemp_type_method(method, v)>>

\* A method of one operand or of both, then what to make of their results.
Left(node) == Append(node, 1)
Right(node) == Append(node, 2)
Sibling(node) == Append(SubSeq(node, 1, Len(node) - 1), 2)

Joined(texts) ==
  LET upto[n \in 0..Len(texts)] == IF n = 0 THEN <<>> ELSE upto[n - 1] \o texts[n][3]
  IN  TextVal(upto[Len(texts)])

Both(node, method, got, result(_, _)) ==
  CASE Len(got) = 0 -> Call(Left(node), method)
    [] Len(got) = 1 -> Call(Right(node), method)
    [] OTHER -> Return(result(got[1], got[2]))

One(node, method, got, result(_)) ==
  IF Len(got) = 0 THEN Call(node, method) ELSE Return(result(got[1]))

\* The defaults of operators: the value, then the method on it.
ValueAsTwice(node, method, got) ==
  CASE Len(got) < 2 -> Call(node, "value")
    [] Len(got) = 2 -> CallOn(got[2], method)
    [] OTHER -> Return({Value(got[3])})

ValueAs(node, method, got) ==
  CASE Len(got) = 0 -> Call(node, "value")
    [] Len(got) = 1 -> CallOn(got[1], method)
    [] OTHER -> Return({Value(got[2])})

Itself(node) == {Value(<<FragVal(node)>>)}
hemp_element_word_value(word) == Return({Value(vars[word[3]])})

\* The input is the fragment on the right of the assignment.
hemp_element_word_assign(node, word, got) ==
  IF Len(got) = 0 THEN Call(Sibling(node), "value")
  ELSE <<"store", word[3], got[1], {Value(FragVal(Sibling(node)))}>>

hemp_element_text_concat_value(node, got) ==
  Both(node, "text", got, LAMBDA a, b : {Value(Joined(<<a, b>>))})

hemp_element_assign_value(node, got) == One(Left(node), "assign", got, LAMBDA r : {Value(r)})
hemp_element_assign_text(node, got) ==
  One(Left(node), "assign", got, LAMBDA r : {Value(TextVal(<<>>))})

\* Parentheses: a list of one value is that value, a longer one its text.
hemp_element_parens_value(node, got) ==
  CASE Len(got) = 0 -> Call(node, "values")
    [] Len(got) > 0 /\ Len(got[1]) = 0 -> Return({Value(Empty)})
    [] Len(got) > 0 /\ Len(got[1]) = 1 -> Return({Value(got[1][1])})
    [] Len(got) > 0 /\ Len(got[1]) >= Len(got) -> CallOn(got[1][Len(got)], "text")
    [] OTHER -> Return({Value(Joined(Tail(got)))})

hemp_element_block_values(node, args, got) ==
  LET upto[n \in 0..Len(got)] == IF n = 0 THEN <<>> ELSE upto[n - 1] \o got[n]
  IN  IF Len(got) < Len(args) THEN Call(Append(node, Len(got) + 1), "values")
      ELSE Return({Value(upto[Len(got)])})

Code(frame) == Element(NodeAt(frame.node).type)[frame.method]

Step(frame) ==
  LET node == frame.node
      got == frame.got
      type == NodeAt(node).type
      leaf == NodeAt(node).leaf
      code == Code(frame)
      same(v) == {Value(v)}
  IN
  CASE code = "not" -> Return(Fatal)
    [] code = "leaf" -> Return({Value(leaf)})
    [] code = "text of leaf" -> Return(ToText(leaf))
    [] code = "itself" -> Return(Itself(node))
    [] code = "variable" -> hemp_element_word_value(leaf)
    [] code = "value as" -> ValueAs(node, frame.method, got)
    [] code = "left decides" ->
         IF Len(got) = 1 /\ IsInteger(got[1]) THEN Call(Right(node), "integer")
         ELSE Both(node, "number", got, LAMBDA a, b : hemp_number_op(type, a, b))
    [] code = "numbers" -> Both(node, "number", got, LAMBDA a, b : hemp_number_op(type, a, b))
    [] code = "integers" -> Both(node, "integer", got, LAMBDA a, b : hemp_number_op(type, a, b))
    [] code = "prefix" -> One(Left(node), "number", got, LAMBDA a : hemp_number_prefix(type, a))
    [] code = "compare numbers" -> Both(node, "number", got, hemp_number_compare)
    [] code = "compare texts" -> Both(node, "text", got, hemp_text_compare)
    [] code \in {"compare", "boolean", "text"} -> One(node, code, got, same)
    [] code = "is compare" ->
         One(node, "compare", got, LAMBDA r : {Value(BoolVal(hemp_compare_is(type, r)))})
    [] code = "not x" -> One(Left(node), "boolean", got, LAMBDA r : {Value(hemp_boolean_not(r))})
    [] code = "both" ->
         Both(node, "boolean", got, LAMBDA a, b : {Value(hemp_boolean_op(type, a, b))})
    [] code = "concat" -> hemp_element_text_concat_value(node, got)
    [] code = "assign" -> hemp_element_assign_value(node, got)
    [] code = "no text of assign" -> hemp_element_assign_text(node, got)
    [] code = "store" -> hemp_element_word_assign(node, leaf, got)
    [] code = "parens" -> hemp_element_parens_value(node, got)
    [] code = "values of each" -> hemp_element_block_values(node, NodeAt(node).args, got)

-----------------------------------------------------------------------------
Init ==
  /\ program \in Programs
  /\ vars = [n \in Names |-> Missing]
  /\ stack = <<>>
  /\ output = <<>>
  /\ status = "run"
  /\ seen = <<>>

Top == stack[Len(stack)]
Below == SubSeq(stack, 1, Len(stack) - 1)
Frame(node, method) == [node |-> node, method |-> method, got |-> <<>>]
Getting(frames, v) == [frames EXCEPT ![Len(frames)].got = Append(@, v)]
Running == status = "run" /\ stack # <<>>

\* hemp_element_block_text(): each statement yields its text.
Statement ==
  /\ status = "run" /\ stack = <<>> /\ Len(output) < Len(program)
  /\ stack' = <<Frame(<<Len(output) + 1>>, "text")>>
  /\ seen' = <<>>
  /\ UNCHANGED <<program, vars, output, status>>

CallMethod ==
  /\ Running /\ Step(Top)[1] = "call"
  /\ stack' = Append(stack, Frame(Step(Top)[2], Step(Top)[3]))
  /\ UNCHANGED <<program, vars, output, status, seen>>

\* The method of a type that is no element.
CallType ==
  /\ Running /\ Step(Top)[1] = "got"
  /\ \E o \in Step(Top)[2] :
       IF o[1] = "value"
       THEN stack' = Getting(stack, o[2]) /\ UNCHANGED status
       ELSE status' = o[1] /\ UNCHANGED stack
  /\ UNCHANGED <<program, vars, output, seen>>

Results(outcomes) ==
  \E o \in outcomes :
    CASE o[1] # "value" -> status' = o[1] /\ UNCHANGED <<stack, output>>
      [] o[1] = "value" /\ Below = <<>> ->
           stack' = <<>> /\ output' = Append(output, o[2]) /\ UNCHANGED status
      [] OTHER -> stack' = Getting(Below, o[2]) /\ UNCHANGED <<output, status>>

ReturnValue ==
  /\ Running /\ Step(Top)[1] = "return"
  /\ Results(Step(Top)[2])
  /\ seen' = IF Code(Top) \in {"leaf", "text of leaf", "variable"}
             THEN Append(seen, Top.node) ELSE seen
  /\ UNCHANGED <<program, vars>>

StoreVariable ==
  /\ Running /\ Step(Top)[1] = "store"
  /\ vars' = [vars EXCEPT ![Step(Top)[2]] = Step(Top)[3]]
  /\ Results(Step(Top)[4])
  /\ UNCHANGED <<program, seen>>

Finish ==
  /\ status = "run" /\ stack = <<>> /\ Len(output) = Len(program)
  /\ status' = "done"
  /\ UNCHANGED <<program, vars, stack, output, seen>>

Next == Statement \/ CallMethod \/ CallType \/ ReturnValue \/ StoreVariable \/ Finish

Spec == Init /\ [][Next]_vs

-----------------------------------------------------------------------------
(* What an expression means, by its structure.  A meaning is a set of      *)
(* values, empty for an expression that fails.                             *)

ValuesOf(outcomes) == {o[2] : o \in {p \in outcomes : p[1] = "value"}}
Exact(v) == IF IsInteger(v) THEN Whole(v[3]) ELSE v[3]

\* The integer between 0 and r that is nearest to r.
Truncated(r) ==
  CHOOSE n \in -Abs(r[1])..Abs(r[1]) :
    /\ n * r[1] >= 0 /\ Abs(n) * r[2] <= Abs(r[1]) /\ (Abs(n) + 1) * r[2] > Abs(r[1])

\* The left operand decides whether an operator works on integers.
Calculated(type, a, b) ==
  LET x == Exact(a)
      y == IF IsInteger(a) /\ type # "**" THEN Whole(Truncated(Exact(b))) ELSE Exact(b)
      whole(r) == IF IsInteger(a) THEN {IntVal(Truncated(r))} ELSE {NumVal(r)}
  IN  CASE type = "+" -> whole(Lowest(x[1] * y[2] + y[1] * x[2], x[2] * y[2]))
        [] type = "-" -> whole(Lowest(x[1] * y[2] - y[1] * x[2], x[2] * y[2]))
        [] type = "*" -> whole(Lowest(x[1] * y[1], x[2] * y[2]))
        [] type = "**" -> whole(IF y[1] >= 0 THEN Lowest(x[1]^y[1], x[2]^y[1])
                                ELSE Lowest(x[2]^(-y[1]), x[1]^(-y[1])))
        [] type \in {"/", "div"} /\ y[1] # 0 -> whole(Lowest(x[1] * y[2], x[2] * y[1]))
        [] type = "mod" /\ y[1] # 0 -> {IntVal(x[1] - y[1] * Truncated(Lowest(x[1], y[1])))}
        [] OTHER -> {}

Ordered(type, a, b) ==
  LET x == Exact(a)
      y == Exact(b)
      below == x[1] * y[2] < y[1] * x[2]
      above == x[1] * y[2] > y[1] * x[2]
  IN  CASE type = "<=>" -> IF below THEN Before ELSE IF above THEN After ELSE Equal
        [] type = "==" -> BoolVal(~below /\ ~above)
        [] type = "!=" -> BoolVal(below \/ above)
        [] type = "<" -> BoolVal(below)
        [] type = "<=" -> BoolVal(~above)
        [] type = ">" -> BoolVal(above)
        [] type = ">=" -> BoolVal(~below)

RECURSIVE Meaning(_, _)
Meaning(e, env) ==
  LET as(method, operand) ==
        IF operand.type = "squote" /\ method # "text" THEN {}
        ELSE UNION {ValuesOf(hemp_type_method(method, v)) : v \in Meaning(operand, env)}
      left(method) == as(method, e.args[1])
      right(method) == as(method, e.args[2])
      truth(a) == "true" \in IdentBits(a)
  IN
  CASE e.type \in {"number", "integer", "squote"} -> {e.leaf}
    [] e.type = "word" -> {env[e.leaf[3]]}
    [] e.type \in {"+", "-", "*", "/", "**"} ->
         UNION {Calculated(e.type, a, b) : a \in left("number"), b \in right("number")}
    [] e.type \in {"div", "mod"} ->
         UNION {Calculated(e.type, a, b) : a \in left("integer"), b \in right("integer")}
    [] e.type = "+x" -> left("number")
    [] e.type = "-x" -> UNION {Calculated("*", a, IntVal(-1)) : a \in left("number")}
    [] e.type = "<=>" \/ e.type \in NumberRelations ->
         {Ordered(e.type, a, b) : a \in left("number"), b \in right("number")}
    [] e.type \in {"cmp"} \union TextRelations ->
         UNION {IF a = b THEN {CASE e.type = "cmp" -> Equal
                                 [] OTHER -> BoolVal(e.type \in {"eq", "le", "ge"})}
                ELSE CASE e.type = "cmp" -> {Before, After}
                       [] e.type \in {"eq", "ne"} -> {BoolVal(e.type = "ne")}
                       [] OTHER -> {True, False} :
                a \in left("text"), b \in right("text")}
    [] e.type = "not" -> {BoolVal(~truth(a)) : a \in left("boolean")}
    [] e.type = "and" -> {BoolVal(truth(a) /\ truth(b)) : a \in left("boolean"), b \in right("boolean")}
    [] e.type = "or" -> {BoolVal(truth(a) \/ truth(b)) : a \in left("boolean"), b \in right("boolean")}
    [] e.type = "~" -> {TextVal(a[3] \o b[3]) : a \in left("text"), b \in right("text")}
    [] e.type = "()" /\ Len(e.args) = 0 -> {Empty}
    [] e.type = "()" /\ Len(e.args) = 1 -> Meaning(e.args[1], env)
    [] e.type = "()" /\ Len(e.args) = 2 ->
         {TextVal(a[3] \o b[3]) : a \in left("text"), b \in right("text")}

-----------------------------------------------------------------------------
Line == IF stack = <<>> THEN Len(output) ELSE Len(output) + 1
IsAssign(line) == program[line].type = "="
Aliases == {n \in Names : IsObject(vars[n])}

RECURSIVE LeavesOf(_, _)
LeavesOf(e, path) ==
  IF e.args = <<>> THEN IF e.type = "()" THEN <<>> ELSE <<path>>
  ELSE LET from == IF e.type = "=" THEN 2 ELSE 1
           upto[n \in from - 1..Len(e.args)] ==
             IF n < from THEN <<>> ELSE upto[n - 1] \o LeavesOf(e.args[n], Append(path, n))
       IN  upto[Len(e.args)]

\* Parentheses around several expressions evaluate literals and words last.
RECURSIVE InOrder(_)
InOrder(e) ==
  /\ e.type = "()" => Len(e.args) <= 1
  /\ \A n \in 1..Len(e.args) : InOrder(e.args[n])

\* Every operand of a statement is evaluated once, and from left to right when no
\* list of expressions is involved, whatever methods its operators call on each
\* other: a macro that evaluates its argument twice, as the comment at the defaults
\* of elements warns of, would not be seen in the result of an expression without
\* side effects (library/element.c, hemp_element_value_number() and its like; `and`
\* and `or` do not stop early).
OperandsOnce ==
  (output # <<>> \/ stack # <<>>) /\ Aliases = {} =>
    LET leaves == LeavesOf(program[Line], <<Line>>)
        elements(seq) == {seq[n] : n \in 1..Len(seq)}
    IN  /\ elements(seen) \subseteq elements(leaves) /\ Cardinality(elements(seen)) = Len(seen)
        /\ InOrder(program[Line]) => seen = SubSeq(leaves, 1, Len(seen))
        /\ stack = <<>> => Len(seen) = Len(leaves)

\* No method waits for itself on the same fragment: the methods that are defined by
\* each other never call each other in a deadly embrace, as the comment at
\* hemp_element_boolean() puts it (library/element/boolean.c, compare.c).
NoEmbrace ==
  \A i, j \in 1..Len(stack) :
    i # j => <<stack[i].node, stack[i].method>> # <<stack[j].node, stack[j].method>>

\* The text of a statement and the value that it assigns are what the expression
\* means, and it fails only when it has no meaning (the methods of library/element/
\* with the conversions of library/type/).
StatementMeans ==
  [][/\ stack # <<>> /\ stack' = <<>> =>
          output'[Line] \in IF IsAssign(Line) THEN {TextVal(<<>>)}
                            ELSE UNION {ValuesOf(ToText(v)) : v \in Meaning(program[Line], vars)}
     /\ \A n \in Names :
          vars'[n] # vars[n] => vars'[n] \in Meaning(program[Line].args[2], vars)
     /\ status' \notin {"run", "done"} =>
          IF IsAssign(Line) THEN Meaning(program[Line].args[2], vars) = {}
          ELSE \E m \in {Meaning(program[Line], vars)} :
                 m = {} \/ \E v \in m : Error \in ToText(v)]_vs
=============================================================================
