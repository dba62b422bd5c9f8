------------------------------ MODULE Strings -------------------------------
(***************************************************************************)
(* The functions on strings that scripts and commands are taken apart with *)
(* (library/type/string.c).  A string is a sequence of characters, its NUL *)
(* the position behind the last of them; a pointer into it is a position,  *)
(* NULL is 0.  A marker that is searched for as a whole is one character.  *)
(***************************************************************************)
EXTENDS Integers, Sequences, FiniteSetsExt, SequencesExt

CONSTANTS
  LF, CR,  \* what ends a line
  Blank    \* other white space

ASSUME StringsAssumption == LF # CR /\ LF # Blank /\ CR # Blank

IsSpace(c) == c \in {LF, CR, Blank}
IsBreak(c) == c \in {LF, CR}

\* The string from a position on, and the one that a NUL written to a position leaves.
From(s, i) == SubSeq(s, i, Len(s))
Until(s, i) == SubSeq(s, 1, i - 1)

\* strstr() from a position on.
Find(s, marker, from) == SelectInSubSeq(s, from, Len(s), LAMBDA c : c = marker)

\* hemp_string_next_space(), hemp_string_next_nonspace(): NULL at the end of the string.
NextSpace(s, from) == SelectInSubSeq(s, from, Len(s), IsSpace)
NextNonspace(s, from) == SelectInSubSeq(s, from, Len(s), LAMBDA c : ~IsSpace(c))

\* The positions where a line begins, but for the first: a CR and an LF end one line.
LineStarts(s) ==
  {i \in 2..(Len(s) + 1) :
     \/ s[i - 1] = LF
     \/ s[i - 1] = CR /\ ~(i <= Len(s) /\ s[i] = LF)}

\* hemp_string_next_line(): NULL if no line ends; hemp_string_to_next_line() stays then.
NextLine(s, from) ==
  LET starts == {i \in LineStarts(s) : i > from} IN IF starts = {} THEN 0 ELSE Min(starts)
ToNextLine(s, from) == IF NextLine(s, from) = 0 THEN from ELSE NextLine(s, from)

\* hemp_string_split(): what is between the markers.
Split(s, marker) ==
  FoldLeft(LAMBDA items, c : IF c = marker THEN Append(items, <<>>)
                             ELSE [items EXCEPT ![Len(items)] = Append(@, c)],
           <<<<>>>>, s)

\* hemp_string_chomp(), for a string that is not NULL.
Chomp(s) == SubSeq(s, 1, SelectLastInSeq(s, LAMBDA c : ~IsSpace(c)))

\* hemp_string_trim().
Trim(s) == IF NextNonspace(s, 1) = 0 THEN <<>> ELSE Chomp(From(s, NextNonspace(s, 1)))

\* hemp_string_nwords(): the last of max words is all that is left, whatever follows its
\* first character.
WordStarts(s) ==
  SelectSeq([i \in 1..Len(s) |-> i], LAMBDA i : ~IsSpace(s[i]) /\ (i > 1 => IsSpace(s[i - 1])))
NWords(s, max) ==
  LET at == WordStarts(s)
  IN [k \in 1..Min({Len(at), max}) |->
        IF k = max \/ NextSpace(s, at[k]) = 0 THEN From(s, at[k])
        ELSE SubSeq(s, at[k], NextSpace(s, at[k]) - 1)]

\* hemp_string_location(): the line and the column of a position.  Lines are counted as
\* long as they begin before it.
Location(s, marker) ==
  LET before == {i \in LineStarts(s) : i < marker}
  IN [line |-> 1 + Cardinality(before), column |-> marker - Max(before \union {1})]
=============================================================================
