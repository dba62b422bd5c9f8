----------------------------- MODULE MCScanner -----------------------------
(***************************************************************************)
(* Model checking of the scanner.  The sources are put together from       *)
(* pieces: the tags, newlines and characters that the scanner tells apart. *)
(* What is around the tags and what is within them need no long texts      *)
(* together: a source is a few pieces of every kind, or a few pieces of    *)
(* the language after the start of a tag.                                  *)
(***************************************************************************)
EXTENDS Scanner

InlineTagsOfTT3 ==
  {[name |-> "inline", kind |-> "inline", start |-> <<"[", "%">>, end |-> <<"%", "]">>],
   [name |-> "comment", kind |-> "comment", start |-> <<"[", "#">>, end |-> <<"#", "]">>],
   [name |-> "control", kind |-> "control", start |-> <<"[", "?">>, end |-> <<"?", "]">>]}

OutlineTagsOfTT3 == {[name |-> "outline", kind |-> "outline", start |-> <<"%", "%">>]}

Element(name, kind, start, end) == [name |-> name, kind |-> kind, start |-> start, end |-> end]

\* Of each kind of elements some: n is an operator that is a letter.
SomeOperators ==
  {Element("squote", "squote", <<"'">>, <<"'">>),
   Element("quote", "squote", <<"q", "<">>, <<">", ">">>),
   Element("dquote", "dquote", <<"Q">>, <<"Q">>),
   Element("comment", "comment", <<"#", " ">>, <<>>),
   Element("fragment", "fragment", <<"#">>, <<>>),
   Element("not", "symbol", <<"n">>, <<>>),
   Element("modulus", "symbol", <<"%">>, <<>>),
   Element("divide", "symbol", <<"/">>, <<>>),
   Element("divint", "symbol", <<"/", "i">>, <<>>)}

\* The pieces around tags, and those within.
Around == {<<"[", "%">>, <<"%", "]">>, <<"%", "%">>, <<"[", "#">>, <<"#", "]">>, <<"[">>,
           <<"LF">>, <<"CR">>, <<"a">>}
Within == {<<"%", "]">>, <<"LF">>, <<" ">>, <<"1">>, <<"0">>, <<".">>, <<"e">>, <<"n">>,
           <<"i">>, <<"_">>, <<"/">>, <<"#">>, <<"$">>}
Quotes == {<<"'">>, <<"Q">>, <<"BS">>, <<"n">>, <<">", ">">>, <<"LF">>, <<"%", "]">>}
Starts == {<<"[", "%">>, <<"%", "%">>, <<"a", "[", "%">>}

\* One piece or none.
May(pieces) == pieces \union {<<>>}
UpToThree(pieces) ==
  {s \o t \o u : s \in May(pieces), t \in May(pieces), u \in May(pieces)}

AllTexts ==
  {s \o t : s \in Around, t \in UpToThree(Around)}
    \union {s \o t : s \in Starts, t \in UpToThree(Within)}
    \union {s \o q \o t \o r : s \in Starts, q \in {<<"'">>, <<"Q">>, <<"q", "<">>},
             t \in UpToThree(Quotes), r \in {<<>>, <<"Q", "'", "%", "]">>}}
    \union {<<>>, <<"a", "LF", "[", "?">>,
            <<"[", "%", "0", "1", "8", ".", "1", "1", "1", "e", "1", "%", "]">>}
=============================================================================
