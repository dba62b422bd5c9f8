--------------------------- MODULE MCExpressions ---------------------------
(***************************************************************************)
(* Programs for Expressions: every operator on every pair of leaves, every *)
(* operator on the result of another one, and assignments in between.      *)
(***************************************************************************)
EXTENDS Expressions

Node(type, args) == [args |-> args, leaf |-> Missing, type |-> type]
Leaf(type, v) == [args |-> <<>>, leaf |-> v, type |-> type]
IntLit(n) == Leaf("integer", IntVal(n))
NumLit(p, q) == Leaf("number", NumVal(<<p, q>>))
StrLit(s) == Leaf("squote", TextVal(s))
X == Leaf("word", <<TRUE, STRING_ID, "x">>)
Y == Leaf("word", <<TRUE, STRING_ID, "y">>)
MCNames == {"x", "y"}

\* The largest integer, zero, a fraction, a numeral in quotes and a letter in quotes.
Leaves == {IntLit(0), IntLit(3), IntLit(63), NumLit(5, 2), NumLit(0, 1), StrLit(<<IntVal(3)>>), StrLit(<<Char("a")>>)}

Numbers == {"+", "-", "*", "/", "div", "mod"} \union NumberRelations \union {"<=>"}
Texts == {"cmp", "~"} \union TextRelations
Infix == Numbers \union Texts \union {"and", "or"}

\* Division of a real number by zero has a result that is not finite.
Zeros == {IntLit(0), NumLit(0, 1)}
Defined(a, op, b) == op = "/" /\ a.type # "integer" => b \notin Zeros

Simple ==
  {Node(op, <<a, b>>) : op \in Infix, a \in Leaves, b \in Leaves}
  \union {Node("**", <<a, b>>) : a \in {IntLit(3), NumLit(5, 2)}, b \in {IntLit(0), IntLit(2)}}
  \union {Node(op, <<a>>) : op \in {"+x", "-x", "not", "()"}, a \in Leaves}
  \union {Node("()", <<a, b>>) : a \in Leaves, b \in Leaves}
  \union {Node("()", <<>>)}

Three == {IntLit(3), StrLit(<<IntVal(3)>>)}

\* Two numerals of one digit are joined to one: HempInt has room for it.
Inner ==
  {Node(op, <<a, b>>) : op \in {"+", "/", "mod", "==", "<=>", "eq", "cmp", "and"},
                        a \in {IntLit(63), NumLit(5, 2)} \union Three,
                        b \in {IntLit(0), IntLit(3), NumLit(5, 2)}}
  \union {Node("~", <<a, b>>) : a \in Three, b \in Three}
  \union {Node(op, <<a>>) : op \in {"-x", "not", "()"}, a \in Leaves}
  \union {Node("()", <<IntLit(3), StrLit(<<Char("a")>>)>>), Node("()", <<>>)}

\* The string of an empty text is not defined: it is not compared.
None == Node("()", <<>>)
Fits(e) ==
  Len(e.args) = 2 => /\ Defined(e.args[1], e.type, e.args[2])
                     /\ e.type \in TextRelations \union {"cmp"} => None \notin {e.args[1], e.args[2]}

Outer(a, b) ==
  {Node(op, <<a, b>>) : op \in {"+", "-", "*", "==", "<=", "<=>", "eq", "and", "or", "~"}}
Nested ==
  UNION {{e \in Outer(a, b) \union Outer(b, a) : Fits(e)} :
           a \in {e \in Inner : Fits(e)}, b \in {IntLit(63), NumLit(5, 2), StrLit(<<Char("a")>>)}}
  \union {Node(op, <<a>>) : op \in {"-x", "not", "()"}, a \in {e \in Inner : Fits(e)}}

Assign(w, e) == Node("=", <<w, e>>)

\* An expression whose value is no fragment.
Valued == {e \in Inner \ {None} : Fits(e) /\ (e.type = "()" /\ Len(e.args) = 1 => e.args[1].type = "squote")}

OneExpression == {<<e>> : e \in {f \in Simple : Fits(f)} \union Nested}

Sums == {Node("+", <<X, IntLit(3)>>), Node("not", <<X>>), Node("()", <<X, Y>>)}
Last == {X, Node("+", <<X, Y>>), Node("eq", <<Y, X>>), Node("and", <<Y, X>>), Node("()", <<Y, X>>)}
WithVariables ==
  {<<Assign(X, e), Assign(Y, f), g>> :
     e \in {IntLit(63)} \union {v \in Valued : v.type \in {"-x", "/", "==", "()"}}, f \in Sums, g \in Last}
  \union {<<Assign(X, e), Assign(Y, Node("~", <<X, X>>)), g>> : e \in Three, g \in Last}

MCPrograms == OneExpression \union WithVariables

-----------------------------------------------------------------------------
(* Programs for which the code departs from a property. *)

\* a = b = 1: the value of an assignment is the fragment on its right.
AssignedTwice == {<<Assign(Y, IntLit(3)), Assign(X, Assign(Y, Node("+", <<Y, IntLit(3)>>))), X>>}

\* x = (x): the value of the parentheses is the fragment of the word.
OwnValue == {<<Assign(X, Node("()", <<X>>)), X>>}

\* () eq (): the text that is made of nothing has no string.
Empties == {<<Node("eq", <<None, None>>)>>}

\* What is assigned is evaluated when it is assigned: no variable holds a fragment
\* that is evaluated when the variable is used (library/element/word.c,
\* hemp_element_word_assign()).
NothingDeferred == Aliases = {}
=============================================================================
