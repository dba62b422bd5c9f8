------------------------------- MODULE Grammar -------------------------------
(***************************************************************************)
(* The elements of the hemp and tt3 grammars as the parser sees them: the  *)
(* handlers in the vtable of an element, its flags and its precedences     *)
(* (library/element/, library/language/hemp.c, library/language/tt3.c).    *)
(* Operators that differ only in what they compute are one element here,   *)
(* and of the flags those are left out that the parser never looks at.     *)
(***************************************************************************)
EXTENDS Integers, Sequences

\* hemp_element_new(): no handlers but parse_body, no flags, no precedence.
Plain ==
    [prefix |-> "", postfix |-> "", branch |-> "", fixed |-> "", params |-> "", pair |-> "",
     body |-> "parse_body", lvalue |-> "", flags |-> {}, lprec |-> 0, rprec |-> 0, end |-> ""]

\* hemp_element_literal(): a keyword may stand for a fixed word, e.g. after a dot.
Literal == [Plain EXCEPT !.fixed = "literal_fixed"]

Word ==
    [Literal EXCEPT !.prefix = "word_prefix", !.fixed = "parse_fixed", !.pair = "prefix_pair",
                    !.lvalue = "word_lvalue", !.flags = {"lvalue"}]

Number == [Literal EXCEPT !.prefix = "literal_prefix"]

Quote == [Plain EXCEPT !.prefix = "literal_prefix"]

Punctuation(flag) == [Plain EXCEPT !.body = "", !.flags = {flag}]

Separator == [Punctuation("separator") EXCEPT !.body = "separator_body"]

Space ==
    [Punctuation("whitespace") EXCEPT !.prefix = "space_prefix", !.postfix = "space_postfix",
                                      !.body = "space_body", !.branch = "space_branch"]

TagStart ==
    [Literal EXCEPT !.prefix = "space_prefix", !.flags = {"whitespace", "delimiter"}]

Prefix(rprec) == [Plain EXCEPT !.prefix = "op_prefix", !.flags = {"infix"}, !.rprec = rprec]

Infix(postfix, lprec) ==
    [Plain EXCEPT !.postfix = postfix, !.flags = {"infix"}, !.lprec = lprec]

\* '+' and '-' are both: 1 + 2 and + 1.
Sign == [Infix("infix_left", 175) EXCEPT !.prefix = "op_prefix", !.rprec = 185]

PrePostfix ==
    [Plain EXCEPT !.prefix = "op_prefix", !.postfix = "op_postfix", !.lprec = 195, !.rprec = 195]

Assign == [Infix("assign_postfix", 130) EXCEPT !.flags = {"infix", "pairs"}]

Dotop == [Infix("dotop_postfix", 200) EXCEPT !.flags = {"infix", "lvalue"}]

Enclosed(end) == [Plain EXCEPT !.prefix = "brackets_prefix", !.end = end]

Paren ==
    [Enclosed(")") EXCEPT !.postfix = "parens_postfix", !.params = "brackets_parse",
                          !.pair = "brackets_parse", !.flags = {"postbound"}]

Hash ==
    [Enclosed("}") EXCEPT !.prefix = "hash_prefix", !.body = "hash_body", !.flags = {"postbound"}]

\* The commands of tt3, all with precedence 100 on both sides.
Keyword(prefix, postfix) ==
    [Literal EXCEPT !.prefix = prefix, !.postfix = postfix, !.end = "end",
                    !.lprec = 100, !.rprec = 100]

Branch(branch) ==
    [Literal EXCEPT !.branch = branch, !.body = "", !.lprec = 100, !.rprec = 100]

Subroutine == [Plain EXCEPT !.prefix = "sub_prefix", !.end = "end", !.lprec = 100, !.rprec = 100]

Terminators == {")", "]", "}", "end"}
Fragments == {"#if", "#a", "#b"}

Elements ==
    [k \in {"word", "literal", "num", "quote", " ", ",", ";", "[%", "eof",
            "!", "not", "+", "++", "*", "**", "and", "=", ".", "in",
            "(", "[", "{", "if", "elsif", "else", "each", "with", "sub", "block", "apply"}
           \cup Terminators \cup Fragments |->
        CASE k \in {"word", "literal"} -> Word
          [] k = "num"    -> Number
          [] k = "quote"  -> Quote
          [] k = " "      -> Space
          [] k = ","      -> Punctuation("delimiter")
          [] k = ";"      -> Separator
          [] k = "[%"     -> TagStart
          [] k = "eof"    -> Punctuation("eof")
          [] k = "!"      -> Prefix(185)
          [] k = "not"    -> Prefix(120)
          [] k = "+"      -> Sign
          [] k = "++"     -> PrePostfix
          [] k = "*"      -> Infix("infix_left", 180)
          [] k = "**"     -> Infix("infix_right", 190)
          [] k = "and"    -> Infix("infix_left", 115)
          [] k = "="      -> Assign
          [] k = "."      -> Dotop
          [] k = "in"     -> Infix("in_postfix", 130)
          [] k = "("      -> Paren
          [] k = "["      -> Enclosed("]")
          [] k = "{"      -> Hash
          [] k = "if"     -> Keyword("if_prefix", "if_postfix")
          [] k = "elsif"  -> Branch("elsif_branch")
          [] k = "else"   -> Branch("else_branch")
          [] k = "each"   -> Keyword("each_prefix", "each_postfix")
          [] k = "with"   -> Keyword("with_prefix", "with_postfix")
          [] k = "sub"    -> Subroutine
          [] k = "block"  -> Plain
          [] k = "apply"  -> [Plain EXCEPT !.lvalue = "apply_lvalue"]
          [] k \in Terminators -> Punctuation("terminator")
          [] k \in Fragments   -> Punctuation("fragment")]

\* "literal", "block" and "apply" come from the parser, "eof" ends every document.
Tokens == DOMAIN Elements \ {"literal", "block", "apply", "eof"}

\* What the scanner makes of the source of a document: tokens that cannot
\* follow each other without a space between, or that are one token together.
Wordlike == {"word", "num", "not", "and", "in", "if", "elsif", "else", "each", "with", "sub", "end"}

Apart(k, l) ==
    /\ ~(k \in Wordlike \cup Fragments /\ l \in Wordlike)
    /\ <<k, l>> \notin {<<"+", "+">>, <<"+", "++">>, <<"*", "*">>, <<"*", "**">>, <<"=", "=">>,
                        <<" ", " ">>, <<"!", "=">>, <<"num", ".">>}

Scannable(toks) == \A i \in 1..(Len(toks) - 1) : Apart(toks[i], toks[i + 1])
=============================================================================
