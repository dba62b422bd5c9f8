----------------------------- MODULE Rendering -----------------------------
(***************************************************************************)
(* What the document of a source renders to, as far as the programs that   *)
(* render documents tell it apart (see Documents for how it is done).      *)
(***************************************************************************)
EXTENDS Strings

CONSTANTS
  Bad,     \* what is an error when it is scanned, parsed or evaluated
  Deadly,  \* what ends the program: hemp_fatal()
  Hush,    \* what renders to nothing
  Message  \* the string of the error

Holds(source, c) == \E i \in 1..Len(source) : source[i] = c

\* Nothing is not a document: it has no root element.
Dies(source) == source = <<>> \/ Holds(source, Deadly)
Fails(source) == ~Dies(source) /\ Holds(source, Bad)

\* The text of an output without a character has no string.
Output(source) == SelectSeq(source, LAMBDA c : c # Hush)
=============================================================================
