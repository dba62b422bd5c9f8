------------------------------- MODULE Tables -------------------------------
(***************************************************************************)
(* The tables that a source is scanned with, and the errors that cut their *)
(* making.  A dialect's scan makes a set of tags, asks for the grammars of *)
(* the tags, adds the tags, scans, and frees the set.  A grammar is made   *)
(* when it is first asked for, an element at a time, and kept until its    *)
(* Hemp is freed.  Both are a hash and prefix trees side by side: what is  *)
(* found by its token is found in a tree, and what is freed is what is in  *)
(* the hash.                                                               *)
(*                                                                         *)
(* Any step of the making may throw.  An error is a block of memory as     *)
(* well, and stays in a chain at its Hemp.  The caller's HEMP_TRY, where   *)
(* it lands, is left out: a scan that has thrown is over.                  *)
(*                                                                         *)
(* Names with one hash number are one name to a hash (HashTable), so that  *)
(* a name stands for its number here; how a tree compares tokens is in     *)
(* Ptree, what a scan does with what it finds in Scanner.                  *)
(***************************************************************************)
EXTENDS Integers, Sequences, FiniteSets

CONSTANTS
  Heap,          \* the addresses of blocks of memory
  NoBlock,       \* NULL
  Dialects,      \* Dialects[d]: its grammars, its tags, and what its scan does about errors
  Symbols,       \* Symbols[g]: the elements that the constructor of grammar g adds
  Refused,       \* types whose constructors return nothing
  FirstKnown,    \* what has a constructor at first
  LaterKnown,    \* what may be given one later, by a language that is asked for
  MaxErrors,     \* how often a scan may end with an error
  MaxTold        \* how often the text of an error is asked for

None == ""
TagTypes == {"hemp.inline", "hemp.outline", "hemp.comment", "hemp.control", "hemp.unplugged"}

Members(s) == {s[i] : i \in DOMAIN s}

ASSUME TablesAssumption ==
  /\ Heap \subseteq Nat /\ NoBlock \notin Heap
  /\ \A d \in DOMAIN Dialects :
       /\ DOMAIN Dialects[d] = {"tagged", "guarded", "grammars", "tags"}
       /\ Dialects[d].tagged \in BOOLEAN /\ Dialects[d].guarded \in BOOLEAN
       /\ Dialects[d].grammars \in Seq(DOMAIN Symbols)
       /\ Dialects[d].tags \in Seq(Members(Dialects[d].tags))
       /\ ~Dialects[d].tagged => Dialects[d].tags = <<>>
       /\ \A t \in Members(Dialects[d].tags) :
            t.type \in TagTypes /\ t.grammar \in 0..Len(Dialects[d].grammars)
  /\ \A g \in DOMAIN Symbols :
       /\ Symbols[g] \in Seq(Members(Symbols[g]))
       /\ \A e \in Members(Symbols[g]) : DOMAIN e = {"type", "start"}
  /\ MaxErrors \in Nat /\ MaxTold \in Nat

\* The tree that a tag of a type goes into.
StyleOf(type) ==
  CASE type = "hemp.outline" -> "outline"
    [] type = "hemp.unplugged" -> "unplugged"
    [] OTHER -> "inline"

\* No two tags of a dialect that go into one tree have the same start, as those of the
\* dialects are (language/tt3.c:58, modules/language/test.c:161).
ASSUME TokensDiffer ==
  \A d \in DOMAIN Dialects : \A i, j \in DOMAIN Dialects[d].tags :
    LET s == Dialects[d].tags[i]
        t == Dialects[d].tags[j]
    IN i # j /\ StyleOf(s.type) = StyleOf(t.type) /\ StyleOf(s.type) # "unplugged" => s.start # t.start

VARIABLES
  memory,     \* memory[a]: what is at address a
  instances,  \* the instances of the grammar factory
  known,      \* the names that factories have constructors for
  scan,       \* the scan under way
  making,     \* the grammar under construction
  errors,     \* hemp->error and its parents, newest first
  lost,       \* history: what the last call that knew of it has left
  faults,     \* whether something was freed that is not allocated
  state       \* of the Hemp: running, freed, or ended with the program

tablesVars == <<memory, instances, known, scan, making, errors, lost, faults, state>>

Unallocated == [kind |-> "free"]
NoScan == [dialect |-> None]
NoMaking == [name |-> None]

-----------------------------------------------------------------------------
\* Memory.  The allocator gives the lowest free address.
Lowest(A) == CHOOSE a \in A : \A b \in A : a <= b
NextFree(m) == Lowest({a \in Heap : m[a] = Unallocated})
FirstFree == NextFree(memory)

Put(f, x, v) == [y \in DOMAIN f \union {x} |-> IF y = x THEN v ELSE f[y]]
Listed(f) == {f[x] : x \in DOMAIN f}

\* A prefix tree keeps what it has when a token is stored again, and returns NULL.
StoreInTree(tree, token, a) == IF token \in DOMAIN tree THEN tree ELSE Put(tree, token, a)

\* Freeing the blocks in gone, each of them once.
Freeing(m, gone) == [a \in Heap |-> IF a \in gone THEN Unallocated ELSE m[a]]
Dangling(m, gone) == \E a \in gone : a \notin Heap \/ m[a] = Unallocated

GrammarBlocks(m, g) == {g} \union Listed(m[g].elements)
TagsetBlocks(m, t) == IF t = NoBlock THEN {} ELSE {t} \union Listed(m[t].tags)

-----------------------------------------------------------------------------
\* The shapes of the blocks.
NewGrammar(name) ==
  [kind |-> "grammar", name |-> name, elements |-> << >>, operators |-> << >>]
NewTagset ==
  [kind |-> "tagset", tags |-> << >>, inline |-> << >>, outline |-> << >>, unplugged |-> NoBlock]
NewElement(type, start, grammar) ==
  [kind |-> "element", type |-> type, start |-> start, grammar |-> grammar]
NewTag(type, name, start, grammar) ==
  [kind |-> "tag", type |-> type, name |-> name, start |-> start, grammar |-> grammar,
   style |-> "inline", scanner |-> None, tagset |-> NoBlock]
NewError(number) == [kind |-> "error", number |-> number, location |-> NoBlock]
Located(error, place) == [error EXCEPT !.location = place]
NewLocation == [kind |-> "location"]
NewBuffer == [kind |-> "buffer"]

\* The constructors of the types of tags: comments and controls are inline tags with another
\* scanner, an unplugged tag has none.
InlineTag(tag) == [tag EXCEPT !.style = "inline", !.scanner = "inline"]
OutlineTag(tag) == [tag EXCEPT !.style = "outline", !.scanner = "outline"]
CommentTag(tag) == [InlineTag(tag) EXCEPT !.scanner = "comment"]
ControlTag(tag) == [InlineTag(tag) EXCEPT !.scanner = "control"]
UnpluggedTag(tag) == [tag EXCEPT !.style = "unplugged"]

Constructed(tag) ==
  CASE tag.type = "hemp.inline" -> InlineTag(tag)
    [] tag.type = "hemp.outline" -> OutlineTag(tag)
    [] tag.type = "hemp.comment" -> CommentTag(tag)
    [] tag.type = "hemp.control" -> ControlTag(tag)
    [] tag.type = "hemp.unplugged" -> UnpluggedTag(tag)

\* The name of an element in its grammar.
NameOf(e) == IF e.start # None THEN e.start ELSE e.type

ErrorBlocks(m, e) == {e} \union ({m[e].location} \ {NoBlock})

-----------------------------------------------------------------------------
TablesInit ==
  /\ memory = [a \in Heap |-> Unallocated]
  /\ instances = << >>
  /\ known = FirstKnown
  /\ scan = NoScan /\ making = NoMaking
  /\ errors = <<>> /\ lost = {}
  /\ faults = FALSE /\ state = "running"

\* hemp_error_message(): m with the error.
WithError(m, number) == Put(m, NextFree(m), NewError(number))

\* HEMP_THROW_DOCLOC: an error that knows where in the source of its document it is.
WithLocated(m, number) ==
  LET error == NextFree(m)
      place == NextFree(WithError(m, number))
  IN Put(Put(m, error, Located(NewError(number), place)), place, NewLocation)

\* hemp_error_throw(): the error in front of the others, and the end of every call up to the
\* caller of the scan.  Nothing knows the blocks in left any more.
Unwind(error, left) ==
  /\ errors' = <<error>> \o errors
  /\ scan' = NoScan /\ making' = NoMaking
  /\ lost' = lost \union left

Throw(m, number, left) == memory' = WithError(m, number) /\ Unwind(NextFree(m), left)

\* A language that is loaded registers its elements, tags and grammars.
Register(name) ==
  /\ state = "running" /\ scan = NoScan
  /\ name \in LaterKnown \ known
  /\ known' = known \union {name}
  /\ UNCHANGED <<memory, instances, scan, making, errors, lost, faults, state>>

-----------------------------------------------------------------------------
\* The scanner of a dialect is called: tagset is NULL for one that is not tagged.
BeginScan(d) ==
  /\ state = "running" /\ scan = NoScan
  /\ Len(errors) < MaxErrors
  /\ LET new == [dialect |-> d, tagset |-> NoBlock, grammars |-> <<>>, added |-> 0]
     IN IF Dialects[d].tagged
          THEN /\ scan' = [new EXCEPT !.tagset = FirstFree]
               /\ memory' = Put(memory, FirstFree, NewTagset)
          ELSE scan' = new /\ UNCHANGED memory
  /\ UNCHANGED <<instances, known, making, errors, lost, faults, state>>

Scanning == scan # NoScan
Asked == Dialects[scan.dialect].grammars
ToAdd == Dialects[scan.dialect].tags
AllAsked == Scanning /\ Len(scan.grammars) = Len(Asked)
AllAdded == AllAsked /\ scan.added = Len(ToAdd)
NextGrammar == Asked[Len(scan.grammars) + 1]

\* hemp_instance(): the instance, a call of the constructor, or an error.
AskGrammar ==
  /\ Scanning /\ ~AllAsked /\ making = NoMaking
  /\ UNCHANGED <<instances, known, faults, state>>
  /\ \/ /\ NextGrammar \in DOMAIN instances
        /\ scan' = [scan EXCEPT !.grammars = Append(@, instances[NextGrammar])]
        /\ UNCHANGED <<memory, making, errors, lost>>
     \/ /\ NextGrammar \notin DOMAIN instances /\ NextGrammar \in known
        /\ memory' = Put(memory, FirstFree, NewGrammar(NextGrammar))
        /\ making' = [name |-> NextGrammar, grammar |-> FirstFree, next |-> 1]
        /\ UNCHANGED <<scan, errors, lost>>
     \/ /\ NextGrammar \notin DOMAIN instances /\ NextGrammar \notin known
        /\ Throw(memory, "invalid grammar", TagsetBlocks(memory, scan.tagset))

\* What an error in a constructor leaves: the grammar, its elements and the set of tags.
LeftInMaking == GrammarBlocks(memory, making.grammar) \union TagsetBlocks(memory, scan.tagset)

ToMake == Symbols[making.name]

\* Mutant: the element goes into the hash by its type.
AddedByType(m, g, e, a) ==
  LET grammar == m[g]
  IN Put(Put(m, a, NewElement(e.type, e.start, g)), g,
         [grammar EXCEPT
            !.operators = IF e.start = None THEN @ ELSE StoreInTree(@, e.start, a),
            !.elements = Put(@, e.type, a)])

\* hemp_grammar_add_element(): the element goes into the tree by its start, if it has one,
\* and into the hash by its start or else its type.
Added(m, g, e, a) ==
  LET grammar == m[g]
  IN Put(Put(m, a, NewElement(e.type, e.start, g)), g,
         [grammar EXCEPT
            !.operators = IF e.start = None THEN @ ELSE StoreInTree(@, e.start, a),
            !.elements = Put(@, NameOf(e), a)])

AddElement ==
  /\ making # NoMaking /\ making.next <= Len(ToMake)
  /\ UNCHANGED <<instances, known, faults, state>>
  /\ LET e == ToMake[making.next]
         duplicate == NameOf(e) \in DOMAIN memory[making.grammar].elements
     IN \/ duplicate /\ Throw(memory, "duplicate element", LeftInMaking)
        \/ ~duplicate /\ e.type \notin known /\ Throw(memory, "invalid element", LeftInMaking)
        \/ /\ ~duplicate /\ e.type \in known /\ e.type \in Refused
           /\ Throw(Put(memory, FirstFree, NewElement(e.type, e.start, NoBlock)), "invalid element",
                    LeftInMaking \union {FirstFree})
        \/ /\ ~duplicate /\ e.type \in known /\ e.type \notin Refused
           /\ memory' = Added(memory, making.grammar, e, FirstFree)
           /\ making' = [making EXCEPT !.next = @ + 1]
           /\ UNCHANGED <<scan, errors, lost>>

\* The constructor returns, and the factory keeps the instance.
GrammarMade ==
  /\ making # NoMaking /\ making.next > Len(ToMake)
  /\ instances' = Put(instances, making.name, making.grammar)
  /\ scan' = [scan EXCEPT !.grammars = Append(@, making.grammar)]
  /\ making' = NoMaking
  /\ UNCHANGED <<memory, known, errors, lost, faults, state>>

-----------------------------------------------------------------------------
GrammarOf(t) == IF t.grammar = 0 THEN NoBlock ELSE scan.grammars[t.grammar]

\* hemp_tagset_add_tag(): the tree of its style by its start, and the hash by its name.
TagAdded(m, s, tag, a) ==
  Put(Put(m, a, [tag EXCEPT !.tagset = s]), s,
      [m[s] EXCEPT
         !.tags = Put(@, tag.name, a),
         !.inline = IF tag.style = "inline" THEN StoreInTree(@, tag.start, a) ELSE @,
         !.outline = IF tag.style = "outline" THEN StoreInTree(@, tag.start, a) ELSE @,
         !.unplugged = IF tag.style = "unplugged" THEN a ELSE @])

\* hemp_tagset_new_tag(): a second tag of a name, or a second one without a token, ends the
\* program.
AddTag ==
  /\ AllAsked /\ ~AllAdded /\ making = NoMaking
  /\ LET t == ToAdd[scan.added + 1]
         tag == Constructed(NewTag(t.type, t.name, t.start, GrammarOf(t)))
         set == memory[scan.tagset]
         twice == \/ t.name \in DOMAIN set.tags
                  \/ tag.style = "unplugged" /\ set.unplugged # NoBlock
     IN \/ /\ t.type \notin known
           /\ Throw(memory, "invalid tag", TagsetBlocks(memory, scan.tagset))
           /\ UNCHANGED <<instances, known, faults, state>>
        \/ /\ t.type \in known /\ twice
           /\ state' = "ended"
           /\ scan' = NoScan
           /\ UNCHANGED <<memory, instances, known, making, errors, lost, faults>>
        \/ /\ t.type \in known /\ ~twice
           /\ memory' = TagAdded(memory, scan.tagset, tag, FirstFree)
           /\ scan' = [scan EXCEPT !.added = @ + 1]
           /\ UNCHANGED <<instances, known, making, errors, lost, faults, state>>

\* hemp_tagset_free(): the tags of the hash and the set.
ScanDone ==
  LET gone == TagsetBlocks(memory, scan.tagset)
  IN /\ AllAdded
     /\ memory' = Freeing(memory, gone)
     /\ faults' = (faults \/ Dangling(memory, gone))
     /\ scan' = NoScan
     /\ UNCHANGED <<instances, known, making, errors, lost, state>>

\* Mutant: the error is thrown on before the tags are freed.
ScanFailsAtOnce ==
  \E thrown \in {WithError(memory, "token"), WithLocated(memory, "token")} :
    /\ AllAdded
    /\ memory' = thrown
    /\ Unwind(NextFree(memory), IF Dialects[scan.dialect].guarded THEN {} ELSE TagsetBlocks(memory, scan.tagset))
    /\ UNCHANGED <<instances, known, faults, state>>

\* An error of the scan itself, which may know where in the source it is.  A guarded scan
\* catches it, frees the tags, and throws it on.
ScanFails ==
  \E thrown \in {WithError(memory, "token"), WithLocated(memory, "token")} :
    LET gone == TagsetBlocks(memory, scan.tagset)
        guarded == Dialects[scan.dialect].guarded
    IN /\ AllAdded
       /\ memory' = IF guarded THEN Freeing(thrown, gone) ELSE thrown
       /\ faults' = (faults \/ (guarded /\ Dangling(thrown, gone)))
       /\ Unwind(NextFree(memory), IF guarded THEN {} ELSE gone)
       /\ UNCHANGED <<instances, known, state>>

-----------------------------------------------------------------------------
Buffers == {a \in Heap : memory[a] = NewBuffer}

\* hemp_error_text(), as programs call it when they have caught the error.  If it has a
\* location the text is put together in a buffer, which is not freed.
TellError ==
  /\ state = "running" /\ scan = NoScan
  /\ errors # <<>> /\ memory[errors[1]].location # NoBlock
  /\ Cardinality(Buffers) < MaxTold
  /\ memory' = Put(memory, FirstFree, NewBuffer)
  /\ lost' = lost \union {FirstFree}
  /\ UNCHANGED <<instances, known, scan, making, errors, faults, state>>

\* hemp_free(): the factory's cleaner frees the grammars, hemp_free_errors() the chain.
FreeHemp ==
  LET gone == (UNION {GrammarBlocks(memory, g) : g \in Listed(instances)})
              \union (UNION {ErrorBlocks(memory, errors[i]) : i \in DOMAIN errors})
  IN /\ state = "running" /\ scan = NoScan
     /\ memory' = Freeing(memory, gone)
     /\ faults' = (faults \/ Dangling(memory, gone))
     /\ instances' = << >> /\ errors' = <<>>
     /\ state' = "freed"
     /\ UNCHANGED <<known, scan, making, lost>>

TablesNext ==
  \/ \E name \in LaterKnown : Register(name)
  \/ \E d \in DOMAIN Dialects : BeginScan(d)
  \/ AskGrammar
  \/ AddElement
  \/ GrammarMade
  \/ AddTag
  \/ ScanDone
  \/ ScanFails
  \/ TellError
  \/ FreeHemp

TablesSpec == TablesInit /\ [][TablesNext]_tablesVars

-----------------------------------------------------------------------------
Reachable ==
  (UNION {GrammarBlocks(memory, g) : g \in Listed(instances)})
  \union (IF making = NoMaking THEN {} ELSE GrammarBlocks(memory, making.grammar))
  \union (IF Scanning THEN TagsetBlocks(memory, scan.tagset) ELSE {})
  \union (UNION {ErrorBlocks(memory, errors[i]) : i \in DOMAIN errors})

TablesTypeOK ==
  /\ \A a \in Heap : memory[a].kind \in {"free", "grammar", "element", "tagset", "tag", "error", "location", "buffer"}
  /\ Listed(instances) \subseteq Heap /\ lost \subseteq Heap
  /\ DOMAIN instances \subseteq DOMAIN Symbols
  /\ FirstKnown \subseteq known
  /\ Scanning => scan.dialect \in DOMAIN Dialects
  /\ making # NoMaking => Scanning /\ making.name \in DOMAIN Symbols
  /\ state \in {"running", "freed", "ended"}

\* Every block is known to what will free it, or was left by an error on its way or by its text: tags to
\* their set, elements to their grammar, grammars to the factory, errors to the chain.
\* Nothing is freed twice, or while something knows it (tagset.c:22, grammar.c:134,
\* hemp.c:233).
NothingIsLost ==
  state # "ended" =>
    /\ ~faults
    /\ {a \in Heap : memory[a] # Unallocated} = Reachable \union lost
    /\ Reachable \intersect lost = {}

\* A grammar that the factory has is made to its end: its tree and its hash have every
\* element that its constructor adds, each by its own name, and the elements know it.  A
\* constructor that throws leaves nothing that a later scan would be given
\* (factory.c:222, grammar.c:60).
GrammarsAreWhole ==
  \A name \in DOMAIN instances :
    LET g == instances[name]
        symbols == {Symbols[name][i] : i \in DOMAIN Symbols[name]}
    IN /\ memory[g].kind = "grammar" /\ memory[g].name = name
       /\ DOMAIN memory[g].elements = {NameOf(e) : e \in symbols}
       /\ DOMAIN memory[g].operators = {e.start : e \in symbols} \ {None}
       /\ \A e \in symbols :
            LET a == memory[g].elements[NameOf(e)]
            IN /\ memory[a] = NewElement(e.type, e.start, g)
               /\ e.start # None => memory[g].operators[e.start] = a

\* When a scan begins to look for tags, each tag is found by its token in the tree of its
\* style, with a scanner that can be called, the set that it is in, and the grammar that was
\* asked for (tagset.c:36, 160).
TagsAreFound ==
  AllAdded =>
    \A i \in DOMAIN ToAdd :
      LET t == ToAdd[i]
          set == memory[scan.tagset]
          tag == memory[set.tags[t.name]]
      IN /\ tag.kind = "tag" /\ tag.name = t.name /\ tag.tagset = scan.tagset
         /\ t.grammar # 0 => tag.grammar = instances[Asked[t.grammar]]
         /\ t.type = "hemp.outline" => set.outline[t.start] = set.tags[t.name]
         /\ t.type \in {"hemp.inline", "hemp.comment", "hemp.control"} =>
              set.inline[t.start] = set.tags[t.name]
         /\ t.type # "hemp.unplugged" => tag.scanner # None

\* What sources are scanned with is what their dialect asked for.
TablesAreWhole == GrammarsAreWhole /\ TagsAreFound

\* tt3.c:67 and hemp.c:208 take care that all is freed in the end.  Not so after an error
\* in a constructor, or in a scan that is not guarded (modules/language/test.c:163).
AllIsFreed == state = "freed" => lost = {}
=============================================================================
