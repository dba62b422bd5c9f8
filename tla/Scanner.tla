------------------------------ MODULE Scanner -------------------------------
(***************************************************************************)
(* The scanner: it cuts the source of a document into the list of          *)
(* fragments the parser works on.  Text goes by until the tag set of the   *)
(* document's dialect knows a tag; the tag then scans what is written in   *)
(* its language, up to its end tag or to the end of the line, and hands    *)
(* strings and comments to the scanners of their elements.  A dialect      *)
(* without tags scans the whole source in its language.                    *)
(*                                                                         *)
(* A text is a sequence of characters.  A position is the number of a      *)
(* character, and the NUL that ends the text has the position after the    *)
(* last one.  Each turn of the loops of the code is a step.                *)
(***************************************************************************)
EXTENDS Integers, Sequences, FiniteSets, FiniteSetsExt

CONSTANTS
  Texts,         \* the sources that may be scanned
  Dialects,      \* those of "tags" and "plain" that may scan them
  InlineTags,    \* the tags known within lines: name, kind, start and end
  OutlineTags,   \* the tags known at the start of a line: name and start
  Operators,     \* the elements with a start token: name, kind, start and end
  Spaces, Digits, Octals, Letters, LF, CR, Dot, Exponent, Underscore, Hyphen, Backslash,
  NewlineEscape, \* the letter that stands for a newline after a backslash
  MaxDigits      \* integers of more digits do not fit

NUL == "NUL"

\* A text, and the token of a tag or of an operator.
IsText(s) == s \in Seq({s[i] : i \in DOMAIN s})

\* The name of an operator stands for its element, to which the fragment points.
ASSUME ScannerAssumption ==
  /\ \A s \in Texts : IsText(s)
  /\ \A t \in InlineTags \union OutlineTags \union Operators : IsText(t.start) /\ t.start # <<>>
  /\ \A t \in InlineTags : IsText(t.end)
  /\ \A o \in Operators : o.name \notin {"text", "tag_start", "tag_end", "eof"}
  /\ \A o \in Operators : o.kind \in {"squote", "dquote"} =>
       /\ IsText(o.end)
       /\ o.name \notin {"space", "comment", "integer", "number", "word"}
       /\ \A p \in Operators : p.name = o.name => p = o
  /\ NUL \notin Spaces \union Digits \union Letters \union {Underscore, Hyphen}
  /\ {LF, CR} \subseteq Spaces
  /\ Octals \subseteq Digits
  /\ Spaces \intersect (Digits \union Letters) = {} /\ Digits \intersect Letters = {}

\* A tag is written on a line: no tag starts with a newline, and none ends with one
\* but the outline tags.
ASSUME TagsAssumption ==
  /\ \A t \in InlineTags \union OutlineTags : t.start[1] \notin {LF, CR}
  /\ \A t \in InlineTags : t.end # <<>> /\ t.end[Len(t.end)] \notin {LF, CR}

VARIABLES
  text,      \* the source's text
  at,        \* the loop the scanner is in, or how it came to an end
  src,       \* the next character to look at
  scantok,   \* the first character that no fragment has yet
  scanpos,   \* its offset in the text
  scantags,  \* the stack of the tags entered
  fragments  \* the fragments scanned

vars == <<text, at, src, scantok, scanpos, scantags, fragments>>

Loops == {"lines", "text", "inline", "outline", "plain"}
Ends == {"scanned", "error", "fatal", "beyond"}

End == Len(text) + 1
Char(i) == IF i < End THEN text[i] ELSE NUL
StartsWith(i, s) == i + Len(s) <= End /\ SubSeq(text, i, i + Len(s) - 1) = s

\* The first position from i on whose character is not in S.
Past(S, i) == Min({j \in i..End : Char(j) \notin S})

Ident == Letters \union Digits \union {Underscore}
Newlines == {LF, CR}
AfterNewline(i) == IF Char(i) = CR /\ Char(i + 1) = LF THEN i + 2 ELSE i + 1

\* What the prefix tree that holds the records of set R finds at position i: the
\* one with the longest start, in a set, or nothing.
Match(R, i) ==
  LET found == {r \in R : StartsWith(i, r.start)}
  IN  {r \in found : \A q \in found : Len(q.start) <= Len(r.start)}

Fragment(type, from, pos, to, value) ==
  [type |-> type, from |-> from, pos |-> pos, length |-> to - from, value |-> value]

\* The characters from scantok up to `to` become a fragment; the scanner goes on after it.
ScannedTo(type, to, value) ==
  /\ fragments' = Append(fragments, Fragment(type, scantok, scanpos, to, value))
  /\ src' = to
  /\ scantok' = to
  /\ scanpos' = scanpos + (to - scantok)

\* The text that comes before a tag is a fragment of its own.
TextBefore == IF src > scantok THEN <<Fragment("text", scantok, scanpos, src, <<>>)>> ELSE <<>>

\* Mutant: the text before the tag is not counted in the position.
TagScannedToAlone(type, to) ==
  /\ fragments' = fragments \o TextBefore
                    \o <<Fragment(type, src, scanpos + (src - scantok), to, <<>>)>>
  /\ src' = to
  /\ scantok' = to
  /\ scanpos' = scanpos + (to - src)

\* The text before a tag and the tag's first token, which ends before `to`.
TagScannedTo(type, to) ==
  /\ fragments' = fragments \o TextBefore
                    \o <<Fragment(type, src, scanpos + (src - scantok), to, <<>>)>>
  /\ src' = to
  /\ scantok' = to
  /\ scanpos' = scanpos + (to - scantok)

\* A throw leaves everything as it is; hemp_fatal() ends the program.
Leave(how) == at' = how /\ UNCHANGED <<text, src, scantok, scanpos, scantags, fragments>>

-----------------------------------------------------------------------------
(* The text around the tags: hemp_tagset_scanner(). *)

LineStart ==
  /\ at = "lines"
  /\ src < End

OutlineTag ==
  /\ LineStart
  /\ \E tag \in Match(OutlineTags, src) :
       /\ TagScannedTo("tag_start", src + Len(tag.start))
       /\ scantags' = Append(scantags, tag)
       /\ at' = "outline"
  /\ UNCHANGED text

NoOutlineTag ==
  /\ LineStart
  /\ Match(OutlineTags, src) = {}
  /\ at' = "text"
  /\ UNCHANGED <<text, src, scantok, scanpos, scantags, fragments>>

InText(c) == at = "text" /\ src < End /\ c

\* Mutant: a line that begins without a tag is text to the end of the source.
NewLineInText ==
  /\ InText(Char(src) \in Newlines)
  /\ src' = AfterNewline(src)
  /\ UNCHANGED <<text, at, scantok, scanpos, scantags, fragments>>

NewLine ==
  /\ InText(Char(src) \in Newlines)
  /\ src' = AfterNewline(src)
  /\ at' = "lines"
  /\ UNCHANGED <<text, scantok, scanpos, scantags, fragments>>

PlainText ==
  /\ InText(Char(src) \notin Newlines /\ Match(InlineTags, src) = {})
  /\ src' = src + 1
  /\ UNCHANGED <<text, at, scantok, scanpos, scantags, fragments>>

TagOf(kind) == {tag \in Match(InlineTags, src) : tag.kind = kind}

InlineTag ==
  /\ InText(Char(src) \notin Newlines)
  /\ \E tag \in TagOf("inline") :
       /\ TagScannedTo("tag_start", src + Len(tag.start))
       /\ scantags' = Append(scantags, tag)
       /\ at' = "inline"
  /\ UNCHANGED text

\* A comment ends at the first end tag, and is one fragment from its start on.
CommentTag ==
  /\ InText(Char(src) \notin Newlines)
  /\ \E tag \in TagOf("comment") :
       LET ends == {i \in src + Len(tag.start)..End : StartsWith(i, tag.end)}
       IN  IF ends = {} THEN Leave("fatal")
           ELSE /\ TagScannedTo("comment", Min(ends) + Len(tag.end))
                /\ UNCHANGED <<text, at, scantags>>

\* hemp_tag_control_scanner() is still to be written.
ControlTag ==
  /\ InText(Char(src) \notin Newlines)
  /\ TagOf("control") # {}
  /\ Leave("fatal")

EndOfText ==
  /\ at \in {"lines", "text"}
  /\ src = End
  /\ at' = "scanned"
  /\ fragments' = fragments \o TextBefore
                    \o <<Fragment("eof", src, scanpos + (src - scantok), src, <<>>)>>
  /\ scantok' = src
  /\ scanpos' = scanpos + (src - scantok)
  /\ UNCHANGED <<text, src, scantags>>

-----------------------------------------------------------------------------
(* The language within the tags.  The order in which the loops try what is  *)
(* next: the newline that ends an outline tag, whitespace, the end tag of   *)
(* an inline one, numbers, elements with a start token, words.              *)

InTag == at \in {"inline", "outline", "plain"} /\ src < End
Tag == scantags[Len(scantags)]

AtNewline == at = "outline" /\ Char(src) \in Newlines
AtSpace == Char(src) \in Spaces /\ ~AtNewline
AtTagEnd == at = "inline" /\ StartsWith(src, Tag.end)
AtDigit == Char(src) \in Digits /\ ~AtTagEnd
AtToken == ~AtNewline /\ ~AtSpace /\ ~AtTagEnd /\ ~AtDigit

\* In an outline tag whitespace ends before the newline.
Space ==
  /\ InTag /\ AtSpace
  /\ ScannedTo("space", Past(IF at = "outline" THEN Spaces \ Newlines ELSE Spaces, src), <<>>)
  /\ UNCHANGED <<text, at, scantags>>

\* Mutant: the tag stays on the stack.
LeaveTagKept(to) == ScannedTo("tag_end", to, <<>>) /\ UNCHANGED <<text, scantags>>

LeaveTag(to) ==
  /\ ScannedTo("tag_end", to, <<>>)
  /\ scantags' = SubSeq(scantags, 1, Len(scantags) - 1)
  /\ UNCHANGED text

InlineEnd ==
  /\ InTag /\ ~AtSpace /\ AtTagEnd
  /\ LeaveTag(src + Len(Tag.end))
  /\ at' = "text"

\* The newline is part of the tag's end.
OutlineEnd ==
  /\ InTag /\ AtNewline
  /\ LeaveTag(AfterNewline(src))
  /\ at' = "lines"

\* Mutant: an outline tag waits for its newline.
SourceEndWaits ==
  /\ at \in {"inline", "outline", "plain"}
  /\ src = End
  /\ CASE at = "inline"  -> Leave("fatal")
       [] at = "outline" -> UNCHANGED vars
       [] at = "plain"   -> /\ at' = "scanned"
                            /\ ScannedTo("eof", src, <<>>)
                            /\ UNCHANGED <<text, scantags>>

\* The source ends within the tag: only an outline tag ends with it.
SourceEnd ==
  /\ at \in {"inline", "outline", "plain"}
  /\ src = End
  /\ CASE at = "inline"  -> Leave("fatal")
       [] at = "outline" -> LeaveTag(src) /\ at' = "lines"
       [] at = "plain"   -> /\ at' = "scanned"
                            /\ ScannedTo("eof", src, <<>>)
                            /\ UNCHANGED <<text, scantags>>

\* strtol() takes a leading zero for the prefix of an octal number.
IntegerEnd(i) == IF Char(i) = "0" THEN Past(Octals, i) ELSE Past(Digits, i)

\* strtod(), and the characters that make hemp_scan_number() call it.
Fraction(i) == Char(i) = Dot /\ Char(i + 1) \in Digits
IsInteger(i) == ~Fraction(IntegerEnd(i)) /\ Char(IntegerEnd(i)) # Exponent
NumberEnd(i) ==
  LET whole == Past(Digits, i)
      frac == IF Fraction(whole) THEN Past(Digits, whole + 1) ELSE whole
  IN  IF Char(frac) = Exponent /\ Char(frac + 1) \in Digits THEN Past(Digits, frac + 1) ELSE frac

Overflows(i) == IntegerEnd(i) - i > MaxDigits

Number ==
  /\ InTag /\ ~AtSpace /\ AtDigit
  /\ IF Overflows(src) THEN Leave("error")
     ELSE /\ IF IsInteger(src) THEN ScannedTo("integer", IntegerEnd(src), <<>>)
                               ELSE ScannedTo("number", NumberEnd(src), <<>>)
          /\ UNCHANGED <<text, at, scantags>>

\* A token is not an operator when it ends between two letters.
WithinWord(i) == Char(i) \in Letters /\ Char(i - 1) \in Letters

Operator(kind) ==
  {o \in Match(Operators, src) : o.kind = kind /\ ~WithinWord(src + Len(o.start))}

Symbol ==
  /\ InTag /\ AtToken
  /\ \E o \in Operator("symbol") : ScannedTo(o.name, src + Len(o.start), <<>>)
  /\ UNCHANGED <<text, at, scantags>>

\* A word goes on after the token that the prefix tree found at its start.
Word ==
  /\ InTag /\ AtToken
  /\ \/ /\ Match(Operators, src) = {}
        /\ Char(src) \in Letters
        /\ ScannedTo("word", Past(Ident, src), <<>>)
     \/ \E o \in Match(Operators, src) :
          /\ WithinWord(src + Len(o.start))
          /\ ScannedTo("word", Past(Ident, src + Len(o.start)), <<>>)
  /\ UNCHANGED <<text, at, scantags>>

Unexpected ==
  /\ InTag /\ AtToken
  /\ Match(Operators, src) = {}
  /\ Char(src) \notin Letters
  /\ Leave("error")

\* hemp_element_comment_scanner(): to the end of the line or of the inline tag.
Comment ==
  /\ InTag /\ AtToken
  /\ \E o \in Operator("comment") :
       IF at = "plain" THEN Leave("fatal")
       ELSE /\ ScannedTo(o.name,
                 Min({i \in src + Len(o.start)..End :
                        \/ i = End
                        \/ Char(i) \in Newlines
                        \/ at = "inline" /\ StartsWith(i, Tag.end)}), <<>>)
            /\ UNCHANGED <<text, at, scantags>>

\* hemp_element_fragment_scanner(): the name after the start token.
NamedFragment ==
  /\ InTag /\ AtToken
  /\ \E o \in Operator("fragment") :
       LET from == src + Len(o.start)
           to == Past(Ident \union {Hyphen}, from)
       IN  IF to = from THEN Leave("error")
           ELSE /\ ScannedTo(o.name, to, <<>>)
                /\ UNCHANGED <<text, at, scantags>>

-----------------------------------------------------------------------------
(* Quoted strings. *)

\* Mutant: a backslash does not hide what comes after it.
CloseAtOnce(i, end) ==
  IF \E j \in i..End : StartsWith(j, end) THEN Min({j \in i..End : StartsWith(j, end)})
  ELSE IF i = End THEN End + 1 ELSE 0

\* The loop walks from i to the end token.  It leaves the text behind, at End + 1,
\* when the text ends where the loop steps over a character unseen.
Close(i, end) ==
  LET walk[j \in i..End + 1] ==
        IF j >= End \/ StartsWith(j, end) THEN j
        ELSE LET next == IF Char(j) = Backslash THEN j + 2 ELSE j + 1
             IN  IF next = End THEN 0 ELSE walk[next]
  IN  IF i = End THEN End + 1 ELSE walk[i]

\* The string a single quoted token stands for: a backslash before another, or
\* before the first character of the end token, is left out.
SingleValue(i, to) ==
  LET copy[j \in i..to + 1] ==
        IF j >= to THEN <<>>
        ELSE IF Char(j) = Backslash /\ Char(j + 1) \in {Backslash, Char(to)}
             THEN <<Char(j + 1)>> \o copy[j + 2]
             ELSE <<Char(j)>> \o copy[j + 1]
  IN  copy[i]

\* The same for double quotes: after a backslash that is left out the loop looks
\* at the next character as if nothing had come before it.
DoubleValue(i, to) ==
  LET copy[j \in i..to] ==
        IF j = to THEN <<>>
        ELSE IF Char(j) # Backslash THEN <<Char(j)>> \o copy[j + 1]
        ELSE IF Char(j + 1) \in {Backslash, Char(to)} THEN copy[j + 1]
        ELSE IF Char(j + 1) = NewlineEscape THEN <<LF>> \o copy[j + 2]
        ELSE <<Char(j)>> \o copy[j + 1]
  IN  copy[i]

StringValue(kind, i, to) ==
  IF kind = "squote" THEN SingleValue(i, to) ELSE DoubleValue(i, to)

\* Past the end of the text the loop reads what happens to be in memory: it stops
\* with the error at once, or goes on.
Quoted ==
  /\ InTag /\ AtToken
  /\ \E kind \in {"squote", "dquote"} : \E o \in Operator(kind) :
       LET from == src + Len(o.start)
           to == Close(from, o.end)
       IN  CASE to = 0 -> Leave("error")
             [] to = End + 1 -> Leave("error") \/ Leave("beyond")
             [] OTHER -> /\ ScannedTo(o.name, to + Len(o.end), StringValue(kind, from, to))
                         /\ UNCHANGED <<text, at, scantags>>

-----------------------------------------------------------------------------
Init ==
  /\ text \in Texts
  /\ at \in {IF d = "tags" THEN "lines" ELSE "plain" : d \in Dialects}
  /\ src = 1
  /\ scantok = 1
  /\ scanpos = 0
  /\ scantags = <<>>
  /\ fragments = <<>>

\* The dialect's scanner has returned, thrown an error or ended the program.
Returned == at \in Ends /\ UNCHANGED vars

Next ==
  \/ OutlineTag \/ NoOutlineTag \/ NewLine \/ PlainText
  \/ InlineTag \/ CommentTag \/ ControlTag \/ EndOfText
  \/ Space \/ InlineEnd \/ OutlineEnd \/ SourceEnd
  \/ Number \/ Symbol \/ Word \/ Unexpected \/ Comment \/ NamedFragment \/ Quoted
  \/ Returned

Spec == Init /\ [][Next]_vars
FairSpec == Spec /\ WF_vars(Next)
-----------------------------------------------------------------------------
(* What the parser relies on. *)

Types == {"text", "space", "comment", "tag_start", "tag_end", "integer", "number", "word", "eof"}
           \union {o.name : o \in Operators}

\* The variables hold what the code keeps in them.
TypeOK ==
  /\ at \in Loops \union Ends
  /\ {src, scantok} \subseteq 1..End
  /\ scanpos \in 0..Len(text)
  /\ \A k \in 1..Len(scantags) : scantags[k] \in InlineTags \union OutlineTags
  /\ \A k \in 1..Len(fragments) : fragments[k].type \in Types

After(k) == IF k = 0 THEN 1 ELSE fragments[k].from + fragments[k].length

\* No character is lost and none is taken twice: each fragment begins where the one
\* before it ends, its position is its offset in the source, and when the scanner
\* returns the fragments are the whole source and an end of file.
SourceCovered ==
  /\ \A k \in 1..Len(fragments) :
       fragments[k].from = After(k - 1) /\ fragments[k].pos = After(k - 1) - 1
  /\ scantok = After(Len(fragments)) /\ scanpos = scantok - 1
  /\ at = "scanned" => /\ fragments # <<>> /\ scantok = End
                       /\ \A k \in 1..Len(fragments) :
                            fragments[k].type = "eof" <=> k = Len(fragments)

Count(type) == Cardinality({k \in 1..Len(fragments) : fragments[k].type = type})

\* Around the tags the stack of tags is empty again, within one it holds that tag,
\* and the tokens that start and end tags come in pairs.
TagsInPairs ==
  /\ Len(scantags) = Count("tag_start") - Count("tag_end")
  /\ at \in {"lines", "text", "scanned"} => scantags = <<>>
  /\ at \in {"inline", "outline"} => Len(scantags) = 1

AtLineStart(i) == i = 1 \/ Char(i - 1) \in Newlines

\* Text holds no tag: none of its characters starts an inline tag, nor an outline
\* tag at the start of a line; and outline tags are taken there only.
TagsFound ==
  \A k \in 1..Len(fragments) :
    LET f == fragments[k]
    IN  /\ f.type = "text" =>
             \A i \in f.from..After(k) - 1 :
               Match(InlineTags, i) = {} /\ (AtLineStart(i) => Match(OutlineTags, i) = {})
        /\ f.type = "tag_start" /\ Match(InlineTags, f.from) = {} => AtLineStart(f.from)

\* The string of a quoted token of operator o: where it starts and ends.
StringFrom(f, o) == f.from + Len(o.start)
StringTo(f, o) == f.from + f.length - Len(o.end)

\* A backslash counts unless another that counts comes before it.
Counts(from, i) ==
  /\ Char(i) = Backslash
  /\ LET run == {j \in from..i : \A n \in j..i : Char(n) = Backslash}
     IN  Cardinality(run) % 2 = 1

Escaped(from, i) == i > from /\ Counts(from, i - 1)

\* The characters at from..to - 1 but the backslashes that hide another, or the first
\* character of the end token.
Written(from, to) ==
  LET rest[i \in from..to] ==
        IF i >= to THEN <<>>
        ELSE (IF Counts(from, i) /\ Char(i + 1) \in {Backslash, Char(to)} THEN <<>> ELSE <<Char(i)>>)
               \o rest[i + 1]
  IN  rest[from]

QuotedBy(f, kind) == {o \in Operators : o.kind = kind /\ o.name = f.type}

\* A string ends at the first end token that no backslash escapes, and in single
\* quotes it stands for its characters but the backslashes that escape.
StringsAsWritten ==
  \A k \in 1..Len(fragments) :
    LET f == fragments[k]
    IN  /\ \A o \in QuotedBy(f, "squote") \union QuotedBy(f, "dquote") :
             \A i \in StringFrom(f, o)..StringTo(f, o) :
               i = StringTo(f, o) <=>
                 StartsWith(i, o.end) /\ ~Escaped(StringFrom(f, o), i)
        /\ \A o \in QuotedBy(f, "squote") : f.value = Written(StringFrom(f, o), StringTo(f, o))

\* A double quoted string keeps one of two backslashes.  (The code keeps neither.)
BackslashesKept ==
  \A k \in 1..Len(fragments) :
    LET f == fragments[k]
    IN  \A o \in QuotedBy(f, "dquote") :
          (\A i \in StringFrom(f, o)..StringTo(f, o) - 1 : Char(i) = Backslash) =>
            2 * Len(f.value) = StringTo(f, o) - StringFrom(f, o)

\* A word has the characters of a word only.  (The code starts a word with the
\* operator that it decides not to take.)
WordsAreWords ==
  \A k \in 1..Len(fragments) :
    fragments[k].type = "word" =>
      \A i \in fragments[k].from..After(k) - 1 : Char(i) \in Ident

\* The scanner comes to an end, whatever the source.
ScanEnds == <>(at \in Ends)
=============================================================================
