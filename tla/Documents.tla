----------------------------- MODULE Documents -----------------------------
(***************************************************************************)
(* The documents of a Hemp.  A document is made for a dialect and a source *)
(* the first time it is asked for, and kept in a hash under the digest of  *)
(* the source's scheme and name.  It is read, scanned, parsed and          *)
(* evaluated on demand, and each of these may fail.  What it has got so    *)
(* far stays with it: the next caller goes on from there.                  *)
(*                                                                         *)
(* What a text means is not modelled: a constant says, for a dialect and a *)
(* text, how scanning, parsing and evaluation of it end.  The digest of a  *)
(* source is the pair of its scheme and name.                              *)
(***************************************************************************)
EXTENDS Integers, Sequences, FiniteSets

CONSTANTS
  Dialects,     \* the dialects there are
  Texts,        \* the texts of sources
  Files,        \* the names of files
  FileTexts,    \* the texts that are written to files
  Empty,        \* the text of an empty file
  Ends,         \* Ends[d][t]: how the scan, the parse and the evaluation of t end
  Programs,     \* "files": hemp with file names; "session": its commands, or another program
  MaxDocuments, \* a bound on the documents that are made
  MaxDepth,     \* a bound on documents evaluated within each other
  MaxInner,     \* a bound on the documents that one evaluation evaluates
  MaxContexts,  \* a bound on the contexts that are alive or left behind
  None

ScanEnds == {"ok", "early", "late", "fatal"}
ParseEnds == {"ok", "error", "none"}
Meanings == [scan : ScanEnds, parse : ParseEnds, run : {"ok", "error"}]

ASSUME DocumentsAssumption ==
  /\ FileTexts \subseteq Texts
  /\ Empty \in FileTexts
  /\ None \notin Texts
  /\ Ends \in [Dialects -> [Texts -> Meanings]]
  /\ Programs \subseteq {"files", "session"}
  /\ MaxDocuments \in Nat /\ MaxDepth \in Nat /\ MaxInner \in Nat /\ MaxContexts \in Nat

Sources == [scheme : {"text"}, name : Texts] \union [scheme : {"file"}, name : Files]

VARIABLES
  program,   \* the program that uses the Hemp
  files,     \* the text of every file
  docs,      \* the documents, in the order in which they were made
  docsHash,  \* tmp_docs_hash: the document of every source, 0 for none
  calls,     \* the calls under way, the innermost last
  contexts,  \* the number of contexts that calls have made and not freed
  printed,   \* the document that the command line has just printed, or 0
  answers,   \* what callers were answered: a document and how its evaluation ended
  state      \* "live", "freed", or how the program ended

\* What steps may change.
vars == <<files, docs, docsHash, calls, contexts, printed, answers, state>>

\* Who asks: the command line, for the output of a file (with a context of its own); a
\* caller of hemp_document_process(), hemp_document_data() or hemp_document_pairs().
Ops == {"print", "process", "data", "pairs"}

\* hemp_document_new(), through hemp_dialect_document() and hemp_source_new().
NewDocument(dialect, source) ==
  [dialect |-> dialect, source |-> source, text |-> None, fragments |-> "none",
   tags |-> 0, tree |-> FALSE, live |-> TRUE]

Top == calls[Len(calls)]
Doc == docs[Top.doc]
End == Ends[Doc.dialect][Doc.text]

At(stage) == state = "live" /\ calls # <<>> /\ Top.stage = stage
Goto(stage) == calls' = [calls EXCEPT ![Len(calls)].stage = stage]
Change(f, x) == docs' = [docs EXCEPT ![Top.doc][f] = x]
Die(how) == state' = how /\ UNCHANGED <<files, docs, docsHash, calls, contexts, printed, answers>>

Return == calls' = SubSeq(calls, 1, Len(calls) - 1)
Answer(end) == answers' = answers \union {<<Top.doc, end>>}

\* An error is caught by whoever evaluates the document within a HEMP_TRY: a command or
\* a test of a document that is evaluated.  The command line has none for files.
Throw ==
  IF Top.op = "print" THEN state' = "uncaught" /\ UNCHANGED <<calls, answers>>
  ELSE Return /\ Answer("error") /\ UNCHANGED state

-----------------------------------------------------------------------------
\* hemp_document() and the call for the document that it is asked for.  A program asks,
\* or a document that is being evaluated.  A dialect or a scheme that is not known is an
\* error before anything is made or kept.
MayAsk(op) ==
  /\ program = "files" <=> op = "print"
  /\ state = "live"
  /\ printed = 0
  /\ contexts + Len(calls) < MaxContexts
  /\ calls # <<>> => /\ program = "session"
                     /\ Top.stage = "run"
                     /\ Len(calls) < MaxDepth
                     /\ Top.inner < MaxInner

Enter(op, dialect, doc, own) ==
  /\ own = (op = "print") \/ op \in {"process", "data"}
  /\ calls' = Append([i \in 1..Len(calls) |->
                        IF i = Len(calls) THEN [calls[i] EXCEPT !.inner = @ + 1] ELSE calls[i]],
                     [op |-> op, dialect |-> dialect, doc |-> doc, own |-> own,
                      stage |-> "tree", inner |-> 0])

\* The one in the hash, whatever its dialect.
AskAgain(op, dialect, source, own) ==
  /\ MayAsk(op)
  /\ docsHash[source] # 0
  /\ IF docs[docsHash[source]].live
     THEN /\ Enter(op, dialect, docsHash[source], own)
          /\ UNCHANGED <<files, docs, docsHash, contexts, printed, answers, state>>
     ELSE Die("used after free")

AskNew(op, dialect, source, own) ==
  /\ MayAsk(op)
  /\ docsHash[source] = 0
  /\ Len(docs) < MaxDocuments
  /\ docs' = Append(docs, NewDocument(dialect, source))
  /\ docsHash' = [docsHash EXCEPT ![source] = Len(docs) + 1]
  /\ Enter(op, dialect, Len(docs) + 1, own)
  /\ UNCHANGED <<files, contexts, printed, answers, state>>

\* Mutant: the fragments there are do not count without a tree.
TreeRescans ==
  /\ At("tree")
  /\ Goto(IF Doc.tree THEN "context" ELSE "read")
  /\ UNCHANGED <<files, docs, docsHash, contexts, printed, answers, state>>

\* hemp_document_tree() and hemp_document_tokens(): what is there is not made again.
Tree ==
  /\ At("tree")
  /\ Goto(IF Doc.tree THEN "context" ELSE IF Doc.fragments = "none" THEN "read" ELSE "parse")
  /\ UNCHANGED <<files, docs, docsHash, contexts, printed, answers, state>>

\* hemp_document_scan() reads the source once.  The buffer for an empty file is left as
\* it was allocated.
Contents(source) ==
  CASE source.scheme = "text" -> {source.name}
    [] source.scheme = "file" -> IF files[source.name] = Empty THEN Texts ELSE {files[source.name]}

Read ==
  /\ At("read")
  /\ IF Doc.text # None THEN UNCHANGED docs
     ELSE \E t \in Contents(Doc.source) : Change("text", t)
  /\ Goto("scan")
  /\ UNCHANGED <<files, docsHash, contexts, printed, answers, state>>

\* Mutant: a scan that made no fragments is tried again.
ScanRetries ==
  /\ At("scan")
  /\ UNCHANGED <<files, docsHash, contexts, printed>>
  /\ CASE End.scan = "ok" ->
            Change("fragments", "all") /\ Goto("parse") /\ UNCHANGED <<answers, state>>
       [] End.scan = "early" -> Goto("tree") /\ UNCHANGED <<docs, answers, state>>
       [] End.scan = "late" ->
            /\ docs' = [docs EXCEPT ![Top.doc].fragments = "some", ![Top.doc].tags = @ + 1]
            /\ Throw
       [] End.scan = "fatal" -> state' = "fatal" /\ UNCHANGED <<docs, calls, answers>>

\* The dialect's scanner.  An error within a tag leaves the fragments made so far, and
\* the tag on the stack of tags.
Scan ==
  /\ At("scan")
  /\ UNCHANGED <<files, docsHash, contexts, printed>>
  /\ CASE End.scan = "ok" ->
            Change("fragments", "all") /\ Goto("parse") /\ UNCHANGED <<answers, state>>
       [] End.scan = "early" -> Throw /\ UNCHANGED docs
       [] End.scan = "late" ->
            /\ docs' = [docs EXCEPT ![Top.doc].fragments = "some", ![Top.doc].tags = @ + 1]
            /\ Throw
       [] End.scan = "fatal" -> state' = "fatal" /\ UNCHANGED <<docs, calls, answers>>

\* Mutants: a list without an end of file is parsed as far as it goes; an error of the
\* parser leaves the tree of what was parsed.
ParseSomeWell ==
  /\ Doc.fragments = "some"
  /\ Change("tree", TRUE) /\ Goto("context") /\ UNCHANGED <<answers, state>>

ParseAllSoFar ==
  /\ Doc.fragments = "all"
  /\ CASE End.parse = "ok" -> Change("tree", TRUE) /\ Goto("context") /\ UNCHANGED <<answers, state>>
       [] End.parse = "error" -> Change("tree", TRUE) /\ Throw
       [] End.parse = "none" -> state' = "fatal" /\ UNCHANGED <<docs, calls, answers>>

\* hemp_document_compile().  Without an end of file the parser meets a token that it does
\* not expect or runs off the list.  A document without any expression has no root.
ParseSome == /\ Doc.fragments = "some"
             /\ \/ Throw
                \/ state' = "off the list" /\ UNCHANGED <<calls, answers>>
             /\ UNCHANGED docs

ParseAll ==
  /\ Doc.fragments = "all"
  /\ CASE End.parse = "ok" -> Change("tree", TRUE) /\ Goto("context") /\ UNCHANGED <<answers, state>>
       [] End.parse = "error" -> Throw /\ UNCHANGED docs
       [] End.parse = "none" -> state' = "fatal" /\ UNCHANGED <<docs, calls, answers>>

Parse ==
  /\ At("parse")
  /\ ParseSome \/ ParseAll
  /\ UNCHANGED <<files, docsHash, contexts, printed>>

\* A context of its own for a caller who gave none.
Context ==
  /\ At("context")
  /\ contexts' = contexts + (IF Top.own THEN 1 ELSE 0)
  /\ Goto("run")
  /\ UNCHANGED <<files, docs, docsHash, printed, answers, state>>

\* The evaluation fails.  Nobody frees the context that was made for it.
RunFails ==
  /\ At("run")
  /\ End.run = "error"
  /\ Throw
  /\ UNCHANGED <<files, docs, docsHash, contexts, printed>>

\* hemp_document_data() frees its context first, and looks at the results next.
RunReturns ==
  /\ At("run")
  /\ End.run = "ok"
  /\ contexts' = contexts - (IF Top.own THEN 1 ELSE 0)
  /\ IF Top.op = "data"
     THEN Goto("results") /\ UNCHANGED <<answers, printed>>
     ELSE /\ Return /\ Answer("output")
          /\ printed' = IF Top.op = "print" THEN Top.doc ELSE 0
  /\ UNCHANGED <<files, docs, docsHash, state>>

\* The results belong to the context.
Results ==
  /\ At("results")
  /\ \/ /\ Return /\ Answer("output")
        /\ UNCHANGED <<files, docs, docsHash, contexts, printed, state>>
     \/ Top.own /\ Die("used after free")

-----------------------------------------------------------------------------
\* The command line frees a document when it has printed its output.
FreePrinted ==
  /\ state = "live"
  /\ printed # 0
  /\ docs' = [docs EXCEPT ![printed].live = FALSE]
  /\ printed' = 0
  /\ UNCHANGED <<files, docsHash, calls, contexts, answers, state>>

\* hemp_free() frees the documents in the hash.
FreeHemp ==
  /\ state = "live" /\ calls = <<>> /\ printed = 0
  /\ LET kept == {docsHash[s] : s \in Sources} \ {0}
     IN  IF \A d \in kept : docs[d].live
         THEN /\ docs' = [d \in 1..Len(docs) |->
                            [docs[d] EXCEPT !.live = docs[d].live /\ d \notin kept]]
              /\ state' = "freed"
              /\ UNCHANGED <<files, docsHash, calls, contexts, printed, answers>>
         ELSE Die("freed twice")

\* Somebody writes a file.
WriteFile(f, t) ==
  /\ state = "live"
  /\ files[f] # t
  /\ files' = [files EXCEPT ![f] = t]
  /\ UNCHANGED <<docs, docsHash, calls, contexts, printed, answers, state>>

Init ==
  /\ program \in Programs
  /\ files \in [Files -> FileTexts]
  /\ docs = <<>>
  /\ docsHash = [s \in Sources |-> 0]
  /\ calls = <<>>
  /\ contexts = 0
  /\ printed = 0
  /\ answers = {}
  /\ state = "live"

\* The steps of the call under way.
Step == Tree \/ Read \/ Scan \/ Parse \/ Context \/ RunFails \/ RunReturns \/ Results

Next ==
  /\ UNCHANGED program
  /\ \/ Step
     \/ \E op \in Ops, dialect \in Dialects, s \in Sources, own \in BOOLEAN :
          AskAgain(op, dialect, s, own) \/ AskNew(op, dialect, s, own)
     \/ FreePrinted \/ FreeHemp
     \/ \E f \in Files, t \in FileTexts : WriteFile(f, t)

Spec == Init /\ [][Next]_<<program, vars>>
FairSpec == Spec /\ WF_vars(Step)
-----------------------------------------------------------------------------
Stages == {"tree", "read", "scan", "parse", "context", "run", "results"}
DocumentOf == [dialect : Dialects, source : Sources, text : Texts \union {None},
               fragments : {"none", "some", "all"}, tags : Nat, tree : BOOLEAN, live : BOOLEAN]
CallOf == [op : Ops, dialect : Dialects, doc : 1..Len(docs), own : BOOLEAN, stage : Stages,
           inner : 0..MaxInner]

\* The variables have their types.
TypeOK ==
  /\ program \in Programs
  /\ files \in [Files -> FileTexts]
  /\ \A d \in 1..Len(docs) : docs[d] \in DocumentOf
  /\ docsHash \in [Sources -> 0..Len(docs)]
  /\ \A i \in 1..Len(calls) : calls[i] \in CallOf
  /\ contexts \in 0..MaxContexts
  /\ printed \in 0..Len(docs)
  /\ answers \subseteq (1..Len(docs)) \X {"output", "error"}
  /\ state \in {"live", "freed", "fatal", "uncaught", "off the list", "used after free", "freed twice"}

\* A caller gets output if and only if the text of the document scans, parses and
\* evaluates without an error in its dialect, however often the document was asked for
\* before, whatever was left of the earlier attempts, and whoever wrote its file since:
\* what hemp_document_process() goes on from is never a part of a document.
AnswersMatch ==
  \A answer \in answers :
    LET doc == docs[answer[1]]
        end == Ends[doc.dialect][doc.text]
    IN  answer[2] = "output" <=> end.scan = "ok" /\ end.parse = "ok" /\ end.run = "ok"

\* A scan starts without fragments and with an empty stack of tags.  The tag that an
\* error left on the stack was freed with its tag set, but the same error left fragments,
\* and a document with fragments is never scanned again.
ScanStartsClean == At("scan") => Doc.fragments = "none" /\ Doc.tags = 0

\* A tree comes from all the fragments of a text that was read.
TreesAreWhole ==
  \A d \in 1..Len(docs) : docs[d].tree => docs[d].fragments = "all" /\ docs[d].text # None

\* Every call ends, or the program does.
CallsEnd == calls # <<>> ~> calls = <<>> \/ state # "live"

\* The command line frees a document it has printed and hemp_free() frees those that are
\* kept: none is freed twice.  A comment calls them "cleaned up automatically".  (Not so.)
FreedOnce == state # "freed twice"

\* Nothing of what a document or a context has is used after it was freed.  (Not so for a
\* file that is printed again and for hemp_document_data() without a context.)
NotUsedAfterFree == state # "used after free"

\* A document is evaluated in the dialect that the caller has asked for.  (Not so: the
\* dialect is no part of the digest.)
DialectAsked == \A i \in 1..Len(calls) : docs[calls[i].doc].dialect = calls[i].dialect

\* When no call is under way, every context made for one is freed.  (Not so after an error.)
ContextsFreed == state = "live" /\ calls = <<>> => contexts = 0

\* A parser is never given a list without an end of file.  (Not so after an error of the scanner.)
ListsEnd == state # "off the list"

\* A file that has been written is read again when it is asked for.  (Not so: the text
\* and the tree of a document stay.)
FilesReread ==
  At("run") /\ Doc.source.scheme = "file" /\ files[Doc.source.name] # Empty =>
    Doc.text = files[Doc.source.name]
=============================================================================
