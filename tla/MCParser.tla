------------------------------ MODULE MCParser ------------------------------
(***************************************************************************)
(* Sources for the parser: every sequence of up to n pieces that the       *)
(* scanner would give back as the same tokens.                             *)
(***************************************************************************)
EXTENDS Parser

Sources(pieces, n) ==
    {toks \in {FlattenSeq(s) : s \in BoundedSeq(pieces, n)} : Scannable(toks)}

Single(tokens) == {<<t>> : t \in tokens}

\* Operators of every kind with or without an operand, and chains of up to four
\* that have all their operands.
Operators ==
    Sources(Single({"word", "not", "!", "+", "++", "**", "="}), 4)
        \cup {<<"word">> \o s : s \in
                Sources({<<o, "word">> : o \in {"+", "*", "**", "="}}
                        \cup {<<" ", "and", " ", "word">>, <<"++">>, <<"**", "!", "word">>,
                              <<"*", "not", " ", "word">>}, 4)}

\* Brackets, calls, hashes, subs and dots, apart and touching.
Bracketings ==
    Sources(Single({"word", " ", "(", ")", "[", "]", "{", "}", ".", ",", "="}), 4)
        \cup Sources({<<"word">>, <<" ">>, <<"(", "word", ")">>, <<"(", ")">>, <<".", "word">>, <<"=">>,
                      <<"+">>, <<"sub", " ">>, <<"{", "word", "=", "num", "}">>}, 4)

\* Commands with blocks, with single expressions and after what they apply to.
Conditions ==
    {<<"if", "quote">> \o s : s \in
        Sources({<<"if", "quote">>, <<"quote">>, <<";">>, <<"elsif", "quote">>, <<"else">>,
                 <<"end">>, <<"{", "quote", "}">>}, 4)}
        \cup {<<"if", "quote", ";">> \o s : s \in
                Sources({<<"if", "quote", ";">>, <<"quote">>, <<"elsif", "quote", ";">>,
                         <<"elsif", "quote">>, <<"else">>, <<"end">>}, 4)}

Marked ==
    {toks \in {<<"if">> \o m \o <<"quote">> \o s : m \in {<<>>, <<"#a">>}, s \in
                  Sources({<<"quote">>, <<";">>, <<"end">>, <<"end", "#a">>, <<"end", "#b">>,
                           <<"end", "#if">>, <<" ">>, <<"else">>}, 3)} :
        Scannable(toks)}

Loops ==
    {toks \o s : toks \in {<<"with", " ", "word", "=", "num", " ">>, <<"with", " ">>,
                           <<"each", " ", "word", " ", "in", " ", "word">>, <<"each", " ">>,
                           <<"word", " ">>, <<"sub", " ", "word", " ">>}, s \in
        Sources({<<"each", " ">>, <<"with", " ">>, <<"word", "=", "num", " ">>, <<"word", " ">>,
                 <<";">>, <<"end">>, <<"(", "quote", ")">>, <<"in", " ">>}, 3)}

\* Commands.
Commanding == {toks \in Conditions \cup Marked \cup Loops : Scannable(toks)}

Everything == Operators \cup Bracketings \cup Commanding
=============================================================================
