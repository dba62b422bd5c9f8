------------------------------- MODULE Parser -------------------------------
(***************************************************************************)
(* The parser of Hemp: hemp_fragment_parse() and the parse methods of the  *)
(* elements (library/parser.c, library/element.c, library/element/).  The  *)
(* functions call each other through the vtables of the tokens they look   *)
(* at; their calls are frames on `stack`, each with the arguments of its   *)
(* function and the place it goes on from.  Errors leave all of them.      *)
(***************************************************************************)
EXTENDS Grammar, SequencesExt, FiniteSets

CONSTANT Inputs         \* the token sequences of the documents

ASSUME InputsAssumption ==
    \A toks \in Inputs : toks \in Seq(Tokens) /\ Scannable(toks)

VARIABLES
    source,     \* the number of tokens that were scanned; the one after them is the end of file
    frags,      \* the fragments of the document, in the order they were added
    at,         \* *fragptr: the token to be parsed next
    stack,      \* the calls in progress
    ret,        \* what the last call has returned
    outcome,    \* "none" while hemp_fragment_parse() runs, then how it ended
    failed      \* how it ended the first time, when it runs again

vars == <<source, frags, at, stack, ret, outcome, failed>>

Null == 0
Ids == 1..Len(frags)

\* hemp_fragments_new_fragment()
New(type) ==
    [type |-> type, flags |-> Elements[type].flags,
     lhs |-> Null, rhs |-> Null, branch |-> Null, items |-> <<>>, owns |-> 0]

Frame(fn, prec, force, self, lhs) ==
    [fn |-> fn, pc |-> "start", prec |-> prec, force |-> force,
     self |-> self, lhs |-> lhs, items |-> <<>>]

Top == Last(stack)
Rest == Front(stack)
Self == frags[Top.self]
SelfType == Elements[Self.type]
Type(f) == Elements[frags[f].type]

In(fns, pc) == stack # <<>> /\ Top.fn \in fns /\ Top.pc = pc

(***************************************************************************)
(* Moving over the tokens                                                  *)
(***************************************************************************)
Blank     == {"whitespace"}
Delimiter == {"whitespace", "delimiter"}
Separated == {"whitespace", "delimiter", "separator"}

\* hemp_advance()
After(f) == IF frags[f].type = "eof" THEN f ELSE f + 1

\* hemp_skip_while(): the type's flags decide, not the fragment's.
Skip(flags, from) ==
    CHOOSE f \in from..Len(frags) :
        /\ Type(f).flags \cap flags = {}
        /\ \A g \in from..(f - 1) : Type(g).flags \cap flags # {}

\* hemp_element_terminator_matches()
Terminates(f, end) == "terminator" \in frags[f].flags /\ frags[f].type = end

(***************************************************************************)
(* Calls and returns                                                       *)
(***************************************************************************)
\* Call a method of the token at `at`, on top of `below`.  An element without
\* a handler gives no fragment, or declines to be a postfix operator to lhs.
Call(below, method, prec, force, lhs) ==
    LET handler == Elements[frags'[at'].type][method] IN
    IF handler # ""
    THEN /\ stack' = Append(below, Frame(handler, prec, force, at', lhs))
         /\ ret' = ret
    ELSE /\ stack' = below
         /\ ret' = IF method = "postfix" THEN lhs ELSE Null

Waiting(pc) == Append(Rest, [Top EXCEPT !.pc = pc])

\* Call a method and go on at pc when it has returned.
Then(pc, method, prec, force) == Call(Waiting(pc), method, prec, force, Null)

\* return hemp_parse_postfix(...)
Postfix(lhs) == Call(Rest, "postfix", Top.prec, FALSE, lhs)

\* Call a function of the parser itself.
Enter(pc, fn, prec) ==
    /\ stack' = Append(Waiting(pc), Frame(fn, prec, FALSE, at', Null))
    /\ ret' = ret

Return(f) == stack' = Rest /\ ret' = f

\* hemp_throw() jumps out of the parser, hemp_fatal() ends the program.
Fail(error) ==
    /\ outcome' = error
    /\ stack' = <<>>
    /\ ret' = Null
    /\ UNCHANGED <<source, at, failed>>

Running == UNCHANGED <<source, outcome, failed>>

Still == frags' = frags /\ at' = at

(***************************************************************************)
(* Precedence                                                              *)
(***************************************************************************)
\* HEMP_PREFIX_PRECEDENCE
TooLow == Top.prec # 0 /\ SelfType.lprec <= Top.prec /\ ~Top.force

\* Mutant: every operator is taken for one that associates to the right.
BindsLessRight == Top.prec # 0 /\ SelfType.lprec < Top.prec

\* HEMP_INFIX_LEFT_PRECEDENCE and HEMP_INFIX_RIGHT_PRECEDENCE
BindsLess ==
    /\ Top.prec # 0
    /\ IF Top.fn \in {"infix_right", "assign_postfix", "in_postfix"}
       THEN SelfType.lprec < Top.prec
       ELSE SelfType.lprec <= Top.prec

Decline == Still /\ Return(Top.lhs) /\ Running

(***************************************************************************)
(* Lists of expressions and of pairs, and blocks                           *)
(***************************************************************************)
Loop ==
    [exprs |-> [method |-> "prefix", skip |-> Separated],
     pairs |-> [method |-> "pair",   skip |-> Delimiter]]

\* hemp_parse_exprs() and hemp_parse_pairs() ask token after token ...
NextExpr ==
    /\ \/ In(DOMAIN Loop, "start")
       \/ In(DOMAIN Loop, "expr") /\ ret # Null
    /\ frags' = frags
    /\ at' = Skip(Loop[Top.fn].skip, at)
    /\ LET items == IF Top.pc = "start" THEN <<>> ELSE Append(Top.items, ret) IN
       Call(Append(Rest, [Top EXCEPT !.pc = "expr", !.items = items]),
            Loop[Top.fn].method, Top.prec, FALSE, Null)
    /\ Running

\* Mutant: the result is added to the list before it is looked at.
LastExprPushed ==
    /\ In(DOMAIN Loop, "expr") /\ ret = Null
    /\ Still
    /\ stack' = Append(Front(Rest), [Last(Rest) EXCEPT !.items = Append(Top.items, ret)])
    /\ ret' = Null
    /\ Running

\* ... until one gives no expression, and return the list to their caller.
LastExpr ==
    /\ In(DOMAIN Loop, "expr") /\ ret = Null
    /\ Still
    /\ stack' = Append(Front(Rest), [Last(Rest) EXCEPT !.items = Top.items])
    /\ ret' = Null
    /\ Running

\* hemp_parse_block(), for the document and for a body that starts with a separator
Block ==
    /\ In({"parse_block", "separator_body"}, "start")
    /\ Still
    /\ Enter("list", "exprs", 0)
    /\ Running

BlockDone ==
    /\ In({"parse_block", "separator_body"}, "list")
    /\ at' = at
    /\ IF Top.items = <<>>
       THEN frags' = frags /\ Return(Null)
       ELSE /\ frags' = Append(frags, [New("block") EXCEPT !.items = Top.items])
            /\ Return(Len(frags'))
    /\ Running

(***************************************************************************)
(* Prefix methods of single tokens                                         *)
(***************************************************************************)
\* hemp_element_space_prefix(), _body() and _branch() forward to the next token.
Forward(method, fn) ==
    /\ In({fn}, "start")
    /\ frags' = frags
    /\ at' = After(at)
    /\ Call(Rest, method, Top.prec, Top.force, Top.lhs)
    /\ Running

SpacePrefix == Forward("prefix", "space_prefix")
SpaceBody   == Forward("body", "space_body")
SpaceBranch == Forward("branch", "space_branch")

LiteralPrefix ==
    /\ In({"literal_prefix"}, "start")
    /\ frags' = frags
    /\ at' = After(at)
    /\ Postfix(Top.self)
    /\ Running

\* hemp_element_word_prefix(): a word at the start of an expression is a variable.
WordPrefix ==
    /\ In({"word_prefix"}, "start")
    /\ frags' = [frags EXCEPT ![Top.self].flags = (@ \cup {"allocated"}) \ {"fixed"}]
    /\ at' = After(at)
    /\ Postfix(Top.self)
    /\ Running

\* hemp_element_parse_prefix()
OpPrefix ==
    /\ In({"op_prefix"}, "start")
    /\ frags' = [frags EXCEPT ![Top.self].flags = @ \cup {"prefix"}]
    /\ at' = After(at)
    /\ Then("rhs", "prefix", SelfType.rprec, TRUE)
    /\ Running

\* Mutant: the operand goes on instead of the operator.
OpPrefixDoneOperand ==
    /\ In({"op_prefix"}, "rhs") /\ ret # Null
    /\ frags' = [frags EXCEPT ![Top.self].rhs = ret]
    /\ at' = at
    /\ Postfix(ret)
    /\ Running

OpPrefixDone ==
    /\ In({"op_prefix"}, "rhs") /\ ret # Null
    /\ frags' = [frags EXCEPT ![Top.self].rhs = ret]
    /\ at' = at
    /\ Postfix(Top.self)
    /\ Running

(***************************************************************************)
(* Brackets                                                                *)
(***************************************************************************)
\* hemp_element_brackets_parse()
Brackets ==
    /\ In({"brackets_parse"}, "start")
    /\ frags' = frags
    /\ at' = After(at)
    /\ Enter("list", "exprs", 0)
    /\ Running

BracketsDone ==
    /\ In({"brackets_parse"}, "list")
    /\ LET last == Skip(Blank, at) IN
       /\ Terminates(last, SelfType.end)
       /\ frags' = [frags EXCEPT ![Top.self].items = Top.items, ![Top.self].owns = @ + 1,
                                 ![Top.self].flags = @ \cup {"allocated"}]
       /\ at' = After(last)
       /\ Return(Top.self)
    /\ Running

Bracketed == {"brackets_prefix", "hash_prefix", "hash_body", "parens_postfix"}

OpenBracket ==
    /\ In(Bracketed, "start")
    /\ ~(Top.fn = "parens_postfix" /\ BindsLess)
    /\ Still
    /\ Enter("closed", "brackets_parse", 0)
    /\ Running

BracketsPrefixDone ==
    /\ In({"brackets_prefix"}, "closed")
    /\ Still
    /\ Postfix(ret)
    /\ Running

HashPrefixDone ==
    /\ In({"hash_prefix"}, "closed")
    /\ \A i \in DOMAIN frags[ret].items : "pairs" \in frags[frags[ret].items[i]].flags
    /\ Still
    /\ Return(ret)
    /\ Running

HashBodyDone ==
    /\ In({"hash_body"}, "closed")
    /\ frags' = [frags EXCEPT ![ret].flags = @ \cup {"body", "terminated"}]
    /\ at' = at
    /\ Return(ret)
    /\ Running

\* Mutant: the arguments go on instead of the call.
ParensPostfixDoneArgs ==
    /\ In({"parens_postfix"}, "closed")
    /\ frags' = Append([frags EXCEPT ![ret].flags = @ \cup {"infix"}],
                       [New("apply") EXCEPT !.lhs = Top.lhs, !.rhs = ret])
    /\ at' = at
    /\ Postfix(ret)
    /\ Running

\* The arguments of a call: a new fragment applies what is before them to them.
ParensPostfixDone ==
    /\ In({"parens_postfix"}, "closed")
    /\ frags' = Append([frags EXCEPT ![ret].flags = @ \cup {"infix"}],
                       [New("apply") EXCEPT !.lhs = Top.lhs, !.rhs = ret])
    /\ at' = at
    /\ Postfix(Len(frags'))
    /\ Running

(***************************************************************************)
(* Operators after an expression                                           *)
(***************************************************************************)
\* Mutant: the operator that follows is found, but not gone to.
SpacePostfixStays ==
    /\ In({"space_postfix"}, "start")
    /\ LET next == Skip(Blank, After(at)) IN
       /\ frags' = frags
       /\ at' = at
       /\ IF Type(next).postfix # "" /\ "postbound" \notin Type(next).flags
          THEN Postfix(Top.lhs) ELSE Return(Top.lhs)
    /\ Running

\* hemp_element_space_postfix(): the operator may follow after space, but not
\* one that has to touch what it follows.
SpacePostfix ==
    /\ In({"space_postfix"}, "start")
    /\ LET next == Skip(Blank, After(at))
           follows == Type(next).postfix # "" /\ "postbound" \notin Type(next).flags IN
       /\ frags' = frags
       /\ at' = IF follows THEN next ELSE at
       /\ IF follows THEN Postfix(Top.lhs) ELSE Return(Top.lhs)
    /\ Running

\* parse_proto(): the names of parameters are words, one by one or in parentheses.
IsProto(f) ==
    LET proto[g \in Ids] ==
            \/ frags[g].type \in {"word", "literal"}
            \/ frags[g].type = "(" /\ \A i \in DOMAIN frags[g].items : proto[frags[g].items[i]]
    IN  proto[f]

IsLvalue(f) == Type(f).lvalue # "" \/ "lvalue" \in frags[f].flags

InfixOperators == {"infix_left", "infix_right", "assign_postfix", "in_postfix"}
SideEffects    == {"if_postfix", "each_postfix"}
Postfixes      == InfixOperators \cup SideEffects
                     \cup {"op_postfix", "dotop_postfix", "parens_postfix", "with_postfix"}

\* An operator that binds less than the one to its left, or an assignment to
\* what cannot be assigned to, leaves the expression as it is.
DeclinePostfix ==
    /\ In(Postfixes, "start")
    /\ BindsLess \/ (Top.fn = "assign_postfix" /\ ~IsLvalue(Top.lhs))
    /\ Decline

OpPostfix ==
    /\ In({"op_postfix"}, "start") /\ ~BindsLess
    /\ frags' = [frags EXCEPT ![Top.self].flags = @ \cup {"postfix"}, ![Top.self].lhs = Top.lhs]
    /\ at' = After(at)
    /\ Postfix(Top.self)
    /\ Running

\* hemp_element_parse_infix_left(), _right(), hemp_element_assign_postfix() and
\* hemp_element_in_postfix(), which makes code with its left side as prototype.
InfixOp ==
    /\ In(InfixOperators, "start") /\ ~BindsLess
    /\ Top.fn = "assign_postfix" => IsLvalue(Top.lhs)
    /\ Top.fn = "in_postfix" => IsProto(Top.lhs)
    /\ frags' = [frags EXCEPT ![Top.self].flags = @ \cup {"infix"}, ![Top.self].lhs = Top.lhs,
                              ![Top.self].owns = IF Top.fn = "in_postfix" THEN @ + 1 ELSE @]
    /\ at' = After(at)
    /\ Then("rhs", "prefix", SelfType.lprec, TRUE)
    /\ Running

InfixOpDone ==
    /\ In(InfixOperators \ {"assign_postfix"}, "rhs") /\ ret # Null
    /\ frags' = [frags EXCEPT ![Top.self].rhs = ret]
    /\ at' = at
    /\ Postfix(Top.self)
    /\ Running

\* The left side of an assignment is told so by its parse_lvalue(); that of a
\* call makes code of the right side, with the arguments as prototype.
AssignDone ==
    /\ In({"assign_postfix"}, "rhs") /\ ret # Null
    /\ LET lvalue == Type(Top.lhs).lvalue
           flags  == CASE lvalue = "word_lvalue"  -> {"lvalue", "fixed"}
                       [] lvalue = "apply_lvalue" -> {"lvalue"}
                       [] OTHER -> {}
       IN
       /\ lvalue = "apply_lvalue" => IsProto(frags[Top.lhs].rhs)
       /\ frags' = [frags EXCEPT ![Top.self].rhs = ret, ![Top.lhs].flags = @ \cup flags]
    /\ at' = at
    /\ Postfix(Top.self)
    /\ Running

\* hemp_element_parse_fixed() and hemp_element_literal_fixed(), which makes a
\* plain word of a keyword.
Fixed(f) ==
    [frags[f] EXCEPT
        !.type  = IF Type(f).fixed = "literal_fixed" THEN "literal" ELSE @,
        !.flags = IF "allocated" \in @ THEN @ ELSE @ \cup {"fixed", "allocated"}]

DotopPostfix ==
    /\ In({"dotop_postfix"}, "start") /\ ~BindsLess
    /\ LET name == Skip(Blank, After(at)) IN
       /\ Type(name).fixed # ""
       /\ frags' = [frags EXCEPT ![Top.self].flags = @ \cup {"infix"}, ![Top.self].lhs = Top.lhs,
                                 ![Top.self].rhs = name, ![name] = Fixed(name)]
       /\ at' = Skip(Blank, After(name))
    /\ Postfix(Top.self)
    /\ Running

\* body if test, body each items
SideEffect ==
    /\ In(SideEffects, "start") /\ ~BindsLess
    /\ frags' = [frags EXCEPT ![Top.self].rhs = Top.lhs]
    /\ at' = After(at)
    /\ Then("test", "prefix", SelfType.rprec, TRUE)
    /\ Running

SideEffectDone ==
    /\ In(SideEffects, "test") /\ ret # Null
    /\ frags' = [frags EXCEPT ![Top.self].lhs = ret]
    /\ at' = at
    /\ Postfix(Top.self)
    /\ Running

\* body with pairs
WithPostfix ==
    /\ In({"with_postfix"}, "start") /\ ~BindsLess
    /\ frags' = [frags EXCEPT ![Top.self].rhs = Top.lhs]
    /\ at' = After(at)
    /\ Enter("list", "pairs", SelfType.lprec)
    /\ Running

WithPostfixDone ==
    /\ In({"with_postfix"}, "list")
    /\ frags' = [frags EXCEPT ![Top.self].items = Top.items, ![Top.self].owns = @ + 1]
    /\ at' = at
    /\ Postfix(Top.self)
    /\ Running

(***************************************************************************)
(* Bodies, pairs                                                           *)
(***************************************************************************)
\* hemp_element_parse_body(): a body of one expression needs no end.
Body ==
    /\ In({"parse_body"}, "start")
    /\ frags' = frags
    /\ at' = Skip(Blank, at)
    /\ Then("expr", "prefix", Top.prec, Top.force)
    /\ Running

BodyDone ==
    /\ In({"parse_body"}, "expr")
    /\ frags' = IF ret = Null THEN frags
                ELSE [frags EXCEPT ![ret].flags = @ \cup {"terminated"}]
    /\ at' = at
    /\ Return(ret)
    /\ Running

\* hemp_element_parse_prefix_pair(): an expression that gives no pairs is left,
\* to be parsed again as something else.
Pair ==
    /\ In({"prefix_pair"}, "start")
    /\ Still
    /\ Then("pair", "prefix", Top.prec, Top.force)
    /\ Running

\* Mutant: an expression that gives no pairs is not rewound.
PairDoneOn ==
    /\ In({"prefix_pair"}, "pair")
    /\ Still
    /\ Return(IF ret # Null /\ "pairs" \notin frags[ret].flags THEN Null ELSE ret)
    /\ Running

PairDone ==
    /\ In({"prefix_pair"}, "pair")
    /\ frags' = frags
    /\ IF ret # Null /\ "pairs" \notin frags[ret].flags
       THEN at' = Top.self /\ Return(Null)
       ELSE at' = at /\ Return(ret)
    /\ Running

(***************************************************************************)
(* Commands                                                                *)
(***************************************************************************)
Commands == {"if_prefix", "each_prefix", "with_prefix"}

TooLowCommand ==
    /\ In(Commands, "start") /\ TooLow
    /\ Still
    /\ Return(Null)
    /\ Running

\* if test body, each items body, elsif test body
Command1 ==
    /\ In({"if_prefix", "each_prefix", "elsif_branch"}, "start")
    /\ Top.fn # "elsif_branch" => ~TooLow
    /\ frags' = IF Top.fn = "elsif_branch" THEN frags
                ELSE [frags EXCEPT ![Top.self].flags = @ \cup {"prefix"}]
    /\ at' = IF Top.fn = "if_prefix" /\ "fragment" \in frags[After(at)].flags
             THEN After(After(at))
             ELSE After(at)
    /\ Then("test", "prefix", SelfType.rprec, TRUE)
    /\ Running

CommandTested ==
    /\ In({"if_prefix", "each_prefix", "elsif_branch"}, "test") /\ ret # Null
    /\ frags' = [frags EXCEPT ![Top.self].lhs = ret]
    /\ at' = at
    /\ Then("body", "body", SelfType.rprec, FALSE)
    /\ Running

\* with pairs body
WithPrefix ==
    /\ In({"with_prefix"}, "start") /\ ~TooLow
    /\ frags' = [frags EXCEPT ![Top.self].flags = @ \cup {"prefix"}]
    /\ at' = After(at)
    /\ Enter("list", "pairs", SelfType.rprec)
    /\ Running

WithPairs ==
    /\ In({"with_prefix"}, "list")
    /\ frags' = [frags EXCEPT ![Top.self].items = Top.items, ![Top.self].owns = @ + 1]
    /\ at' = at
    /\ Then("body", "body", SelfType.rprec, FALSE)
    /\ Running

\* hemp_parse_body_terminator()
Ended(body) == "terminated" \in frags[body].flags \/ Terminates(at, SelfType.end)

CommandDone ==
    /\ In({"each_prefix", "with_prefix"}, "body") /\ ret # Null /\ Ended(ret)
    /\ frags' = [frags EXCEPT ![Top.self].rhs = ret]
    /\ at' = IF "terminated" \in frags[ret].flags THEN at ELSE After(at)
    /\ Return(Top.self)
    /\ Running

\* if and elsif go on with a branch
IfBody ==
    /\ In({"if_prefix", "elsif_branch"}, "body") /\ ret # Null
    /\ frags' = [frags EXCEPT ![Top.self].rhs = ret]
    /\ at' = at
    /\ Then("branch", "branch", 0, FALSE)
    /\ Running

\* What decides whether there has to be an end: the last branch or else the body.
LastBody == IF ret # Null THEN ret ELSE Self.rhs

Branched == [frags EXCEPT ![Top.self].branch = IF ret # Null THEN ret ELSE @]

\* Mutant: elsif does not tell if that its body needs no end.
ElsifDoneOpen ==
    /\ In({"elsif_branch"}, "branch")
    /\ frags' = Branched
    /\ at' = at
    /\ Return(Top.self)
    /\ Running

ElsifDone ==
    /\ In({"elsif_branch"}, "branch")
    /\ frags' = [Branched EXCEPT ![Top.self].flags =
                    @ \cup (frags[LastBody].flags \cap {"terminated"})]
    /\ at' = at
    /\ Return(Top.self)
    /\ Running

\* hemp_match_end_fragment(): end#name for if#name, or end#if
EndMatches(end) ==
    LET start == frags[Top.self + 1] IN
    IF "fragment" \in start.flags
    THEN start.type = frags[end].type
    ELSE frags[end].type = "#if"

IfDone ==
    /\ In({"if_prefix"}, "branch")
    /\ frags' = Branched
    /\ \/ /\ "terminated" \in frags[LastBody].flags
          /\ at' = at
       \/ /\ "terminated" \notin frags[LastBody].flags
          /\ Terminates(at, SelfType.end)
          /\ "fragment" \notin frags[After(at)].flags
          /\ at' = After(at)
       \/ /\ "terminated" \notin frags[LastBody].flags
          /\ Terminates(at, SelfType.end)
          /\ "fragment" \in frags[After(at)].flags
          /\ EndMatches(After(at))
          /\ at' = After(After(at))
    /\ Return(Top.self)
    /\ Running

Else ==
    /\ In({"else_branch"}, "start")
    /\ frags' = frags
    /\ at' = After(at)
    /\ Then("body", "body", 0, TRUE)
    /\ Running

ElseDone ==
    /\ In({"else_branch"}, "body") /\ ret # Null
    /\ Still
    /\ Return(ret)
    /\ Running

\* hemp_element_sub_prefix(): sub (params) body, sub name (params) body, sub name body
Sub ==
    /\ In({"sub_prefix"}, "start")
    /\ frags' = frags
    /\ at' = After(at)
    /\ Then("params", "params", 0, TRUE)
    /\ Running

SubName ==
    /\ In({"sub_prefix"}, "params") /\ ret = Null
    /\ LET name == Skip(Blank, at) IN
       /\ Type(name).fixed # ""
       /\ frags' = [frags EXCEPT ![name] = Fixed(name)]
       /\ at' = After(name)
       /\ Call(Append(Rest, [Top EXCEPT !.pc = "args", !.lhs = name]), "params", 0, TRUE, Null)
    /\ Running

SubBody ==
    /\ \/ In({"sub_prefix"}, "params") /\ (ret # Null \/ Type(Skip(Blank, at)).fixed = "")
       \/ In({"sub_prefix"}, "args")
    /\ frags' = frags
    /\ at' = Skip(Blank, at)
    /\ LET params == IF ret = Null THEN <<>> ELSE <<ret>> IN
       Call(Append(Rest, [Top EXCEPT !.pc = "body", !.items = params]),
            "body", SelfType.rprec, TRUE, Null)
    /\ Running

\* A sub with parameters makes code of them and its body.
Subbed ==
    [frags EXCEPT ![Top.self].lhs = Top.lhs, ![Top.self].items = Top.items,
                  ![Top.self].rhs = ret, ![Top.self].owns = @ + Len(Top.items)]

IsSub(body) == body # Null /\ \A i \in DOMAIN Top.items : IsProto(Top.items[i])

SubDone ==
    /\ In({"sub_prefix"}, "body") /\ IsSub(ret) /\ Ended(ret)
    /\ frags' = Subbed
    /\ at' = IF "terminated" \in frags[ret].flags THEN at ELSE After(at)
    /\ Return(Top.self)
    /\ Running

(***************************************************************************)
(* Errors                                                                  *)
(***************************************************************************)
\* hemp_fatal(): a missing expression, bracket or name, a left side that is not
\* a list of parameters, or a hash of anything but pairs.
Fatal ==
    /\ \/ In({"op_prefix", "assign_postfix"}, "rhs") /\ ret = Null
       \/ In({"brackets_parse"}, "list") /\ ~Terminates(Skip(Blank, at), SelfType.end)
       \/ /\ In({"hash_prefix"}, "closed")
          /\ \E i \in DOMAIN frags[ret].items : "pairs" \notin frags[frags[ret].items[i]].flags
       \/ In({"dotop_postfix"}, "start") /\ ~BindsLess /\ Type(Skip(Blank, After(at))).fixed = ""
       \/ In({"in_postfix"}, "start") /\ ~BindsLess /\ ~IsProto(Top.lhs)
       \/ /\ In({"assign_postfix"}, "rhs") /\ ret # Null
          /\ Type(Top.lhs).lvalue = "apply_lvalue" /\ ~IsProto(frags[Top.lhs].rhs)
       \/ In({"sub_prefix"}, "body") /\ ~IsSub(ret)
    /\ frags' = frags
    /\ Fail("fatal")

\* HEMP_THROW_NOEXPR
NoExpr ==
    /\ \/ In(InfixOperators \ {"assign_postfix"}, "rhs")
       \/ In(SideEffects \cup {"if_prefix", "each_prefix", "elsif_branch"}, "test")
    /\ ret = Null
    /\ frags' = frags
    /\ Fail("noexpr")

\* HEMP_THROW_NOBODY
NoBody ==
    /\ In(Commands \cup {"elsif_branch", "else_branch"}, "body") /\ ret = Null
    /\ frags' = frags
    /\ Fail("nobody")

\* HEMP_THROW_NOEND
NoEnd ==
    /\ \/ /\ In({"each_prefix", "with_prefix"}, "body") /\ ret # Null /\ ~Ended(ret)
          /\ frags' = [frags EXCEPT ![Top.self].rhs = ret]
       \/ /\ In({"sub_prefix"}, "body") /\ IsSub(ret) /\ ~Ended(ret)
          /\ frags' = Subbed
       \/ /\ In({"if_prefix"}, "branch") /\ ~Ended(LastBody)
          /\ frags' = Branched
    /\ Fail("noend")

\* if#a ... end#b
FragMatch ==
    /\ In({"if_prefix"}, "branch")
    /\ "terminated" \notin frags[LastBody].flags /\ Ended(LastBody)
    /\ "fragment" \in frags[After(at)].flags /\ ~EndMatches(After(at))
    /\ frags' = Branched
    /\ Fail("fragmatch")

(***************************************************************************)
(* The document                                                            *)
(***************************************************************************)
\* hemp_fragment_parse(): the block ends where the document does.
Parsed ==
    /\ stack = <<>> /\ outcome = "none"
    /\ outcome' = IF frags[at].type = "eof" THEN "parsed" ELSE "unexpected"
    /\ UNCHANGED <<source, frags, at, stack, ret, failed>>

Thrown == {"noexpr", "nobody", "noend", "fragmatch", "unexpected"}

Start == <<Frame("parse_block", 0, FALSE, 1, Null)>>

\* Mutant: the second parse starts where the first one has failed.
AgainHere ==
    /\ outcome \in Thrown /\ failed = "none"
    /\ failed' = outcome
    /\ outcome' = "none"
    /\ at' = at
    /\ stack' = Start
    /\ ret' = Null
    /\ UNCHANGED <<source, frags>>

\* hemp_document_tree(): a document that has no tree is compiled when it is
\* asked for one again, from the fragments as the first parse has left them.
Again ==
    /\ outcome \in Thrown /\ failed = "none"
    /\ failed' = outcome
    /\ outcome' = "none"
    /\ at' = 1
    /\ stack' = Start
    /\ ret' = Null
    /\ UNCHANGED <<source, frags>>

\* hemp_document_tokens(), hemp_fragments_add_eof()
Init ==
    \E toks \in Inputs :
        /\ source = Len(toks)
        /\ frags = [i \in 1..(Len(toks) + 1) |-> New(Append(toks, "eof")[i])]
        /\ at = 1
        /\ stack = Start
        /\ ret = Null
        /\ outcome = "none"
        /\ failed = "none"

Lists    == NextExpr \/ LastExpr \/ Block \/ BlockDone
Singles  == SpacePrefix \/ SpaceBody \/ SpaceBranch \/ LiteralPrefix \/ WordPrefix
              \/ OpPrefix \/ OpPrefixDone
Bracket  == Brackets \/ BracketsDone \/ OpenBracket \/ BracketsPrefixDone \/ HashPrefixDone
              \/ HashBodyDone \/ ParensPostfixDone
Operator == SpacePostfix \/ DeclinePostfix \/ OpPostfix \/ InfixOp \/ InfixOpDone \/ AssignDone
              \/ DotopPostfix \/ SideEffect \/ SideEffectDone \/ WithPostfix \/ WithPostfixDone
Bodies   == Body \/ BodyDone \/ Pair \/ PairDone
Command  == TooLowCommand \/ Command1 \/ CommandTested \/ WithPrefix \/ WithPairs \/ CommandDone
              \/ IfBody \/ ElsifDone \/ IfDone \/ Else \/ ElseDone
Subs     == Sub \/ SubName \/ SubBody \/ SubDone
Errors   == Fatal \/ NoExpr \/ NoBody \/ NoEnd \/ FragMatch

Next == Lists \/ Singles \/ Bracket \/ Operator \/ Bodies \/ Command \/ Subs \/ Errors
          \/ Parsed \/ Again

Spec == Init /\ [][Next]_vars

\* The parser is a sequential program: it goes on while it can.
FairSpec == Spec /\ WF_vars(Next)

(***************************************************************************)
(* Properties                                                              *)
(***************************************************************************)
Outcomes == Thrown \cup {"none", "parsed", "fatal"}

FragOK(f) ==
    /\ f.type \in DOMAIN Elements
    /\ f.flags \subseteq {"lvalue", "fixed", "allocated", "whitespace", "delimiter", "separator",
                          "terminator", "fragment", "eof", "prefix", "infix", "postfix",
                          "postbound", "pairs", "body", "terminated"}
    /\ {f.lhs, f.rhs, f.branch} \cup ToSet(f.items) \subseteq Ids \cup {Null}
    /\ f.owns \in Nat

\* The variables have their types, and every call its token.
TypeOK ==
    /\ source \in Nat /\ at \in 1..(source + 1)
    /\ \A i \in Ids : FragOK(frags[i])
    /\ frags[source + 1].type = "eof"
    /\ \A i \in DOMAIN stack :
         /\ stack[i].self \in 1..(source + 1) /\ stack[i].lhs \in Ids \cup {Null}
         /\ stack[i].prec \in 0..200 /\ stack[i].force \in BOOLEAN
         /\ ToSet(stack[i].items) \subseteq Ids
    /\ ret \in Ids \cup {Null}
    /\ outcome \in Outcomes /\ failed \in Thrown \cup {"none"}

\* What the document gives to whom: an element as a command before its body, or
\* after it, or an operator between its sides.
IsCommand(f) == frags[f].type \in {"if", "each", "with"}
Leads(f) ==
    \/ frags[f].type \in {"elsif", "sub"}
    \/ IsCommand(f) /\ "prefix" \in frags[f].flags
Follows(f) == IsCommand(f) /\ ~Leads(f)

\* The fragments of the tree below f, in the order they are written.
Written ==
    LET walk[f \in Ids \cup {Null}] ==
            IF f = Null THEN <<>> ELSE
            LET F     == frags[f]
                items == FlattenSeq([i \in DOMAIN F.items |-> walk[F.items[i]]])
            IN  CASE Leads(f)   -> <<f>> \o walk[F.lhs] \o items \o walk[F.rhs] \o walk[F.branch]
                  [] Follows(f) -> walk[F.rhs] \o <<f>> \o walk[F.lhs] \o items
                  [] OTHER      -> walk[F.lhs] \o <<f>> \o items \o walk[F.rhs]
    IN walk[ret]

Done == outcome = "parsed"
InTree == ToSet(Written)

\* Tokens that separate and close others have no place in the tree.
Hidden == {" ", ",", ";", "[%", "eof", "else"} \cup Terminators \cup Fragments

\* The tree of a document has every token of its source once and in order: no
\* expression is lost when hemp_element_parse_prefix_pair() rewinds, when a
\* postfix operator declines or when a command ends (hemp_parse_exprs()).
TreeIsTheSource ==
    Done => SelectSeq(Written, LAMBDA f : f <= source)
            = SelectSeq([i \in 1..source |-> i], LAMBDA f : frags[f].type \notin Hidden)

Right(f) ==
    CASE Follows(f) -> frags[f].lhs
      [] frags[f].type \in {"!", "not", "+", "*", "**", "and", "=", "in"} -> frags[f].rhs
      [] frags[f].type = "++" /\ "prefix" \in frags[f].flags -> frags[f].rhs
      [] OTHER -> Null

Left(f) ==
    CASE Follows(f) -> frags[f].rhs
      [] frags[f].type \in {"+", "++", "*", "**", "and", "=", "in", "."} -> frags[f].lhs
      [] OTHER -> Null

\* How strongly an operator binds what follows it, and what is before it.
BindsAfter(f) == IF Left(f) = Null THEN Type(f).rprec ELSE Type(f).lprec
BindsBefore(f) == Type(f).lprec
RightAssoc(f) == frags[f].type \in {"**", "=", "in"}

\* No operator may follow a command, a hash or a sub; what comes after one
\* belongs to the operator in front of it.
Closes(f) == Leads(f) \/ frags[f].type = "{"

\* The operators that are open at the right end of f, or at its left end.
RightEdge(f) ==
    LET edge[g \in Ids \cup {Null}] ==
            IF g = Null \/ Right(g) = Null \/ Closes(Right(g)) THEN {}
            ELSE {g} \cup edge[Right(g)]
    IN  edge[f]
LeftEdge(f) ==
    LET edge[g \in Ids \cup {Null}] ==
            IF g = Null \/ Left(g) = Null THEN {} ELSE {g} \cup edge[Left(g)]
    IN  edge[f]

\* Operators bind as their precedences say, and equal ones to the left or to the
\* right as their elements do, through any number of prefix and postfix
\* operators between them (HEMP_INFIX_LEFT_PRECEDENCE, HEMP_INFIX_RIGHT_PRECEDENCE
\* and the forced right sides of hemp_element_parse_infix_left()).
Binding ==
    Done => \A f \in InTree :
        /\ \A g \in RightEdge(Left(f)) :
              \/ BindsAfter(g) > BindsBefore(f)
              \/ BindsAfter(g) = BindsBefore(f) /\ ~RightAssoc(f)
        /\ \A g \in LeftEdge(Right(f)) :
              \/ BindsBefore(g) > BindsAfter(f)
              \/ BindsBefore(g) = BindsAfter(f) /\ RightAssoc(g)

\* The last body of a command: that of its last branch.
LastOf(f) ==
    LET last[g \in Ids] ==
            IF frags[g].branch = Null THEN frags[g].rhs
            ELSE IF frags[frags[g].branch].type = "elsif" THEN last[frags[g].branch]
            ELSE frags[g].branch
    IN  last[f]

\* There is one `end` in the source for every command or sub of the tree whose
\* last body is a block, and none for the others: HEMP_BE_TERMINATED goes from
\* body to elsif to if, and through a body shared by nested commands.
EndsMatched ==
    Done => Cardinality({f \in 1..source : frags[f].type = "end"})
            = Cardinality({f \in InTree : /\ Leads(f) /\ frags[f].type # "elsif"
                                          /\ frags[LastOf(f)].type = "block"})

\* A document that failed to parse fails in the same way when it is asked for
\* its tree again, though its fragments have been changed by the first attempt.
AgainTheSame == failed # "none" /\ stack = <<>> /\ outcome # "none" => outcome = failed

\* Every source is parsed or refused: no method of an element asks the same
\* token the same thing for ever (hemp_parse_exprs(), hemp_parse_pairs()).
ParseEnds == <>[](stack = <<>> /\ outcome # "none")

\* "the postfix parens in a function call must be touch the function name" (space.c)
ParensTouch ==
    Done => \A f \in InTree : frags[f].type = "apply" => frags[frags[f].rhs - 1].type # " "

\* ... and what they touch is what is called: not an operator's expression.
CallBindsFunction ==
    Done => \A f \in InTree : frags[f].type = "apply" => RightEdge(frags[f].lhs) = {}

\* hemp_document_process() takes the tree of a document to have a root.
RootExists == Done => ret # Null

\* A parse gives a fragment a list or code of its own once: the cleanup frees
\* only the last one.
NoListLost == failed = "none" => \A f \in Ids : frags[f].owns <= 1

\* hemp_fragments_free() cleans every fragment, and the cleanup of `with` and
\* `in` frees the list or the code that their parse methods make.
CleanupReady ==
    stack = <<>> /\ outcome \in Thrown \cup {"parsed"} =>
        \A f \in Ids : frags[f].type \in {"with", "in"} => frags[f].owns > 0
=============================================================================
