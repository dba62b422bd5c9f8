----------------------------- MODULE Evaluation -----------------------------
(***************************************************************************)
(* The runtime context of a render and the error jumps that cross it.      *)
(*                                                                         *)
(* Rendering a document is a recursive walk over its fragments.  The       *)
(* handlers that change where variables live do it by editing one shared   *)
(* record, the HempContext: with and just install a temporary hash as      *)
(* context->vars, each, in, list.each and function application push a call *)
(* frame, and application also focuses the frame's named parameters while  *)
(* the arguments are evaluated.  Every handler undoes its edit on the way  *)
(* out.  An error leaves through longjmp: the C stack is cut back to the   *)
(* innermost HEMP_TRY and only the HEMP_CATCH of that block runs.          *)
(*                                                                         *)
(* The state is the context (vars, frames), the hashes it links together   *)
(* (parent, owner), the C stack of active handlers (calls), the stack of   *)
(* HEMP_TRY buffers (jump), the length of the error chain (errors) and     *)
(* code->body of one `in' fragment (body).  Which fragments a template     *)
(* nests is left open: a step begins any handler inside the current one.   *)
(***************************************************************************)
EXTENDS Integers, Sequences, FiniteSets

CONSTANTS
  MaxHashes,   \* bound: hash records the allocator can have live at once
  MaxCalls,    \* bound: depth of the C stack of handlers
  MaxErrors,   \* bound: errors thrown in a behaviour
  Null,        \* the NULL pointer, and the value of a code that has no body
  Block        \* the body of the each block

Hash == 1..MaxHashes

ASSUME EvaluationAssumption ==
  /\ MaxHashes \in Nat \ {0}
  /\ MaxCalls \in Nat
  /\ MaxErrors \in Nat
  /\ Null \notin Hash /\ Block \notin Hash /\ Block # Null

VARIABLES
  vars,      \* context->vars
  frames,    \* the chain of call frames, context->frame last
  parent,    \* parent pointer of every hash
  owner,     \* who has to free every hash: "free" when it is not allocated
  calls,     \* the C stack: handlers entered and not yet left
  jump,      \* hemp->jump chain: the stack position of each HEMP_TRY
  catching,  \* a longjmp has landed and its handler has not finished
  errors,    \* length of the hemp->error chain
  body,      \* code->body of the `in' fragment
  phase,     \* life of the context
  faults,    \* memory faults met by the step just taken
  unwound    \* history: an error has crossed the handler of a call frame

context == <<vars, frames, parent, owner>>
errorState == <<jump, catching, errors>>
evaluation == <<vars, frames, parent, owner, calls, jump, catching, errors,
                body, phase, faults, unwound>>

\* The hash hemp_context_new() creates.
Root == 1

TryOps    == {"try", "test", "with", "just"}      \* handlers holding a HEMP_TRY
FrameOps  == {"each", "in", "item", "args", "apply"}   \* ... a call frame
ParamsOps == {"with-params", "just-params"}
Ops       == TryOps \union FrameOps \union ParamsOps
Owners    == {"free", "context", "frame", "pool"}
Phases    == {"open", "closing", "freed"}
Faults    == {"double free", "null hash", "null frame", "no frame"}

Call(op, hash, frame, saved) ==
  [op |-> op, hash |-> hash, frame |-> frame, saved |-> saved]

\* The try or test block that does nothing but hold a HEMP_TRY.
Plain(op) == Call(op, Null, 0, Null)

Top(s)  == s[Len(s)]
Pop(s)  == SubSeq(s, 1, Len(s) - 1)

\* The allocator hands out the lowest free record, so addresses are reused.
Free == {h \in Hash : owner[h] = "free"}
Lowest(S) == CHOOSE h \in S : \A g \in S : h <= g

\* The two hashes of the next call frame.
NewNoms == Lowest(Free)
NewVars == Lowest(Free \ {NewNoms})
CanAllocateFrame == \E g, h \in Free : g # h

(***************************************************************************)
(* hemp_context_new: one hash, no frame.                                   *)
(***************************************************************************)
Init ==
  /\ vars = Root
  /\ frames = <<>>
  /\ parent = [h \in Hash |-> Null]
  /\ owner = [h \in Hash |-> IF h = Root THEN "context" ELSE "free"]
  /\ calls = <<>>
  /\ jump = <<>>
  /\ catching = FALSE
  /\ errors = 0
  /\ body = Null
  /\ phase = "open"
  /\ faults = {}
  /\ unwound = FALSE

\* Mutant: the frame is made without parameters of its own.
EnterWithoutParams ==
  /\ frames' = Append(frames, [vars |-> NewVars, noms |-> Null])
  /\ owner' = [owner EXCEPT ![NewVars] = "frame"]
  /\ parent' = [parent EXCEPT ![NewVars] = vars]
  /\ vars' = NewVars

(***************************************************************************)
(* hemp_context_enter: a new frame with its own parameters and variables,  *)
(* chained to the current variables and installed in their place.          *)
(***************************************************************************)
Enter ==
  /\ frames' = Append(frames, [vars |-> NewVars, noms |-> NewNoms])
  /\ owner' = [owner EXCEPT ![NewVars] = "frame", ![NewNoms] = "frame"]
  /\ parent' = [parent EXCEPT ![NewVars] = vars]
  /\ vars' = NewVars

\* Mutant: the frame is freed and its variables stay current.
LeaveKeepingVars ==
  LET gone == {Top(frames).vars, Top(frames).noms}
  IN  /\ frames' = Pop(frames)
      /\ vars' = vars
      /\ owner' = [h \in Hash |-> IF h \in gone THEN "free" ELSE owner[h]]
      /\ parent' = [h \in Hash |-> IF h \in gone THEN Null ELSE parent[h]]
      /\ faults' = {}

(***************************************************************************)
(* hemp_context_leave: the innermost frame of the context - whichever      *)
(* handler pushed it - is popped, the variables become its parent's and    *)
(* both of its hashes are freed.  Without a frame it is a fatal error.     *)
(***************************************************************************)
Leave ==
  IF frames = <<>>
  THEN faults' = {"no frame"} /\ UNCHANGED context
  ELSE LET frame == Top(frames)
           gone  == {frame.vars, frame.noms}
       IN  /\ frames' = Pop(frames)
           /\ vars' = parent[frame.vars]
           /\ owner' = [h \in Hash |-> IF h \in gone THEN "free" ELSE owner[h]]
           /\ parent' = [h \in Hash |-> IF h \in gone THEN Null ELSE parent[h]]
           /\ faults' = IF \E h \in gone : owner[h] = "free"
                        THEN {"double free"} ELSE {}

\* hemp_context_without: NULL restores the parent of the current variables.
Without(hash) ==
  /\ IF vars = Null
     THEN faults' = {"null hash"} /\ UNCHANGED <<vars, parent>>
     ELSE /\ vars' = IF hash = Null THEN parent[vars] ELSE hash
          /\ parent' = [parent EXCEPT ![vars] = Null]
          /\ faults' = {}
  /\ UNCHANGED <<frames, owner>>

\* A step of a handler that is running normally.
Running ==
  /\ phase = "open"
  /\ faults = {}
  /\ ~catching

\* The handler on top of the C stack is one of ops.
Within(ops) ==
  /\ Running
  /\ calls # <<>>
  /\ Top(calls).op \in ops

\* Any handler may evaluate a fragment, which begins another one.
CanBegin == Within(Ops) /\ Len(calls) < MaxCalls

Push(call) == calls' = Append(calls, call)
Replace(call) == calls' = Append(Pop(calls), call)

(***************************************************************************)
(* The caller: HEMP_TRY around the render of one document with the         *)
(* long-lived context, as the expression loop of the hemp program does.    *)
(***************************************************************************)
Render ==
  /\ Running
  /\ calls = <<>>
  /\ Push(Plain("try"))
  /\ jump' = <<1>>
  /\ UNCHANGED <<context, catching, errors, body, phase, faults, unwound>>

\* The document was rendered: HEMP_END.
RenderEnd ==
  /\ Within({"try"})
  /\ calls' = Pop(calls)
  /\ jump' = Pop(jump)
  /\ UNCHANGED <<context, catching, errors, body, phase, faults, unwound>>

\* The test language renders a nested document under a HEMP_TRY of its own.
TestBegin ==
  /\ CanBegin
  /\ Push(Plain("test"))
  /\ jump' = Append(jump, Len(calls) + 1)
  /\ UNCHANGED <<context, catching, errors, body, phase, faults, unwound>>

TestEnd ==
  /\ Within({"test"})
  /\ calls' = Pop(calls)
  /\ jump' = Pop(jump)
  /\ UNCHANGED <<context, catching, errors, body, phase, faults, unwound>>

(***************************************************************************)
(* with <params> <body> and just <params> <body>.  The parameters are      *)
(* evaluated into a temporary hash that the context's hash pool owns.      *)
(***************************************************************************)
ParamsBegin(op) ==
  /\ CanBegin
  /\ Free # {}
  /\ LET hash == Lowest(Free)
     IN  /\ owner' = [owner EXCEPT ![hash] = "pool"]
         /\ Push(Call(op, hash, 0, Null))
  /\ UNCHANGED <<vars, frames, parent, errorState, body, phase, faults, unwound>>

\* hemp_context_with(), HEMP_TRY: the parameters are chained to the variables.
WithBody ==
  /\ Within({"with-params"})
  /\ LET hash == Top(calls).hash
     IN  /\ parent' = [parent EXCEPT ![hash] = vars]
         /\ vars' = hash
         /\ Replace(Call("with", hash, 0, Null))
  /\ jump' = Append(jump, Len(calls))
  /\ UNCHANGED <<frames, owner, catching, errors, body, phase, faults, unwound>>

\* hemp_context_just(), HEMP_TRY: the parameters hide every outer variable.
JustBody ==
  /\ Within({"just-params"})
  /\ LET hash == Top(calls).hash
     IN  /\ parent' = [parent EXCEPT ![hash] = Null]
         /\ vars' = hash
         /\ Replace(Call("just", hash, 0, vars))
  /\ jump' = Append(jump, Len(calls))
  /\ UNCHANGED <<frames, owner, catching, errors, body, phase, faults, unwound>>

\* Mutant: the variables are restored by a return that skips HEMP_END.
WithReturn ==
  /\ Within({"with", "just"})
  /\ calls' = Pop(calls)
  /\ Without(Top(calls).saved)
  /\ UNCHANGED <<jump, catching, errors, body, phase, unwound>>

\* The body is done: HEMP_END, then hemp_context_without().
WithEnd ==
  /\ Within({"with", "just"})
  /\ jump' = Pop(jump)
  /\ calls' = Pop(calls)
  /\ Without(Top(calls).saved)
  /\ UNCHANGED <<catching, errors, body, phase, unwound>>

(***************************************************************************)
(* Calls: each handler enters a frame, evaluates, and leaves it.           *)
(***************************************************************************)
BeginFrame(op, saved) ==
  /\ CanAllocateFrame
  /\ Enter
  /\ Push(Call(op, Null, Len(frames) + 1, saved))

EndFrame == Leave /\ calls' = Pop(calls)

\* each <items> <body>: the caller frame carries the body as an argument.
EachBegin ==
  /\ CanBegin
  /\ BeginFrame("each", Null)
  /\ UNCHANGED <<errorState, body, phase, faults, unwound>>

\* <name> in <items>: each() of the in element, called by each. The body is
\* attached to the element's code until its own frame has been left.
InBegin ==
  /\ CanBegin
  /\ Within({"each"})
  /\ BeginFrame("in", body)
  /\ body' = Block
  /\ UNCHANGED <<errorState, phase, faults, unwound>>

\* Mutant: the body of the code is not restored.
InEndKeepingBody ==
  /\ Within({"in"})
  /\ EndFrame
  /\ UNCHANGED <<errorState, body, phase, unwound>>

InEnd ==
  /\ Within({"in"})
  /\ EndFrame
  /\ body' = Top(calls).saved
  /\ UNCHANGED <<errorState, phase, unwound>>

\* each() of a list or of any other value: one frame for each item. Any
\* expression may send it, and it reads the parameters of the current frame.
ItemBegin ==
  /\ CanBegin
  /\ IF frames = <<>>
     THEN faults' = {"null frame"} /\ UNCHANGED <<context, calls>>
     ELSE BeginFrame("item", Null) /\ UNCHANGED faults
  /\ UNCHANGED <<errorState, body, phase, unwound>>

\* The end of each, of one item, and of a function application.
CallEnd ==
  /\ Within({"each", "item", "apply"})
  /\ EndFrame
  /\ UNCHANGED <<errorState, body, phase, unwound>>

(***************************************************************************)
(* Function application: enter a frame, focus its named parameters (they   *)
(* become the variables, chained to the frame's), evaluate the arguments,  *)
(* blur, evaluate and apply the function, leave.                           *)
(***************************************************************************)
ApplyBegin ==
  /\ CanBegin
  /\ CanAllocateFrame
  /\ frames' = Append(frames, [vars |-> NewVars, noms |-> NewNoms])
  /\ owner' = [owner EXCEPT ![NewVars] = "frame", ![NewNoms] = "frame"]
  /\ parent' = [parent EXCEPT ![NewVars] = vars, ![NewNoms] = NewVars]
  /\ vars' = NewNoms
  /\ Push(Call("args", Null, Len(frames) + 1, Null))
  /\ UNCHANGED <<errorState, body, phase, faults, unwound>>

\* hemp_context_blur_params works on the innermost frame of the context.
ApplyBlur ==
  /\ Within({"args"})
  /\ IF frames = <<>>
     THEN UNCHANGED <<vars, parent>>
     ELSE LET noms == Top(frames).noms
          IN  /\ vars' = parent[noms]
              /\ parent' = [parent EXCEPT ![noms] = Null]
  /\ Replace([Top(calls) EXCEPT !.op = "apply"])
  /\ UNCHANGED <<frames, owner, errorState, body, phase, faults, unwound>>

(***************************************************************************)
(* hemp_error_throw: the error joins the chain and longjmp cuts the C      *)
(* stack back to the innermost HEMP_TRY.  None of the handlers in between  *)
(* runs again.                                                             *)
(***************************************************************************)
CutTo(position) ==
  /\ calls' = SubSeq(calls, 1, position)
  /\ unwound' = \/ unwound
                \/ \E i \in (position + 1)..Len(calls) : calls[i].op \in FrameOps

Throw ==
  /\ Within(Ops)
  /\ errors < MaxErrors
  /\ errors' = errors + 1
  /\ CutTo(Top(jump))
  /\ catching' = TRUE
  /\ UNCHANGED <<context, jump, body, phase, faults>>

\* Mutant: the error is thrown again without removing this HEMP_TRY.
WithCatchAgain ==
  /\ catching /\ faults = {}
  /\ Top(calls).op \in {"with", "just"}
  /\ Without(Top(calls).saved)
  /\ UNCHANGED <<jump, calls, unwound, catching, errors, body, phase>>

\* Mutant: the handler leaves a frame instead of restoring the variables.
WithCatchLeaving ==
  /\ catching /\ faults = {}
  /\ Top(calls).op \in {"with", "just"}
  /\ Leave
  /\ jump' = Pop(jump)
  /\ CutTo(Top(Pop(jump)))
  /\ UNCHANGED <<catching, errors, body, phase>>

\* Mutant: the error is thrown again without restoring the variables.
WithCatchNothing ==
  /\ catching /\ faults = {}
  /\ Top(calls).op \in {"with", "just"}
  /\ jump' = Pop(jump)
  /\ CutTo(Top(Pop(jump)))
  /\ UNCHANGED <<context, catching, errors, body, phase, faults>>

\* HEMP_CATCH_ALL of with and just: restore the variables, HEMP_RETHROW.
WithCatch ==
  /\ catching /\ faults = {}
  /\ Top(calls).op \in {"with", "just"}
  /\ Without(Top(calls).saved)
  /\ jump' = Pop(jump)
  /\ CutTo(Top(Pop(jump)))
  /\ UNCHANGED <<catching, errors, body, phase>>

\* HEMP_CATCH_ALL of the caller or of a test: report the error, HEMP_END.
Catch ==
  /\ catching /\ faults = {}
  /\ Top(calls).op \in {"try", "test"}
  /\ catching' = FALSE
  /\ jump' = Pop(jump)
  /\ calls' = Pop(calls)
  /\ UNCHANGED <<context, errors, body, phase, faults, unwound>>

(***************************************************************************)
(* hemp_context_free: leave the frames that are left, release the pools    *)
(* (and with them every temporary hash), then free context->vars.          *)
(***************************************************************************)
Close ==
  /\ Running
  /\ calls = <<>>
  /\ phase' = "closing"
  /\ UNCHANGED <<context, calls, errorState, body, faults, unwound>>

CloseLeave ==
  /\ phase = "closing" /\ faults = {}
  /\ frames # <<>>
  /\ Leave
  /\ UNCHANGED <<calls, errorState, body, phase, unwound>>

CloseFree ==
  /\ phase = "closing" /\ faults = {}
  /\ frames = <<>>
  /\ LET left == {h \in Hash : owner[h] \in {"context", "frame"}}
     IN  /\ faults' = IF vars = Null THEN {"null hash"}
                      ELSE IF vars \notin left THEN {"double free"} ELSE {}
         /\ owner' = [h \in Hash |-> IF h \in left /\ h # vars
                                     THEN owner[h] ELSE "free"]
  /\ phase' = "freed"
  /\ UNCHANGED <<vars, frames, parent, calls, errorState, body, unwound>>

Next ==
  \/ Render \/ RenderEnd
  \/ TestBegin \/ TestEnd
  \/ \E op \in ParamsOps : ParamsBegin(op)
  \/ WithBody \/ JustBody \/ WithEnd
  \/ EachBegin \/ InBegin \/ InEnd \/ ItemBegin \/ CallEnd
  \/ ApplyBegin \/ ApplyBlur
  \/ Throw \/ WithCatch \/ Catch
  \/ Close \/ CloseLeave \/ CloseFree

\* A handler that longjmp has reached runs without waiting for anything.
Fairness == WF_evaluation(WithCatch) /\ WF_evaluation(Catch)

Spec == Init /\ [][Next]_evaluation /\ Fairness
-----------------------------------------------------------------------------
(***************************************************************************)
(* Type invariant.                                                         *)
(***************************************************************************)
TypeOK ==
  /\ vars \in Hash \union {Null}
  /\ frames \in Seq([vars : Hash, noms : Hash])
  /\ parent \in [Hash -> Hash \union {Null}]
  /\ owner \in [Hash -> Owners]
  /\ calls \in Seq([op : Ops, hash : Hash \union {Null}, frame : Nat,
                    saved : Hash \union {Null, Block}])
  /\ jump \in Seq(Nat)
  /\ catching \in BOOLEAN /\ unwound \in BOOLEAN
  /\ errors \in 0..MaxErrors
  /\ body \in {Null, Block}
  /\ phase \in Phases
  /\ faults \subseteq Faults

(***************************************************************************)
(* ScopeAt[i] is the hash context->vars must be when the first i handlers  *)
(* of the C stack are active and the last of them evaluates its body.      *)
(***************************************************************************)
ScopeAt ==
  LET scope[i \in 0..Len(calls)] ==
        IF i = 0 THEN Root
        ELSE LET c == calls[i]
             IN CASE c.op \in {"with", "just"} -> c.hash
                  [] c.op = "args"             -> frames[c.frame].noms
                  [] c.op \in FrameOps \ {"args"} -> frames[c.frame].vars
                  [] OTHER                     -> scope[i - 1]
  IN  scope

FrameCalls == {i \in 1..Len(calls) : calls[i].op \in FrameOps}

(***************************************************************************)
(* Variables are found in the lexical order of the active handlers: unless *)
(* an error has crossed a call frame, the current variables are those of   *)
(* the innermost handler, each scope is chained to the one around it, just *)
(* ends the chain, and the frames are those of the active calls.  In       *)
(* particular nothing remains of a document once it has been rendered, nor *)
(* of one that failed inside with and just alone.                          *)
(***************************************************************************)
ScopeMatchesCalls ==
  (phase = "open" /\ ~unwound) =>
    /\ Len(frames) = Cardinality(FrameCalls)
    /\ vars = ScopeAt[Len(calls)]
    /\ \A i \in 1..Len(calls) :
         LET c == calls[i]
             around == ScopeAt[i - 1]
         IN  /\ c.op = "with" => parent[c.hash] = around
             /\ c.op = "just" => parent[c.hash] = Null
             /\ i \in FrameCalls =>
                  /\ c.frame \in 1..Len(frames)
                  /\ parent[frames[c.frame].vars] = around
                  /\ c.op = "args" =>
                       parent[frames[c.frame].noms] = frames[c.frame].vars

(***************************************************************************)
(* Whatever errors have done to it, the chain of frames is never shorter   *)
(* than the calls in progress: hemp_context_leave is never reached without *)
(* a frame, where it would end the program.                                *)
(***************************************************************************)
CallsHaveFrames ==
  /\ phase = "open" => Cardinality(FrameCalls) <= Len(frames)
  /\ "no frame" \notin faults

(***************************************************************************)
(* hemp->jump names the HEMP_TRY blocks that are on the C stack, outermost *)
(* first, and nothing else, so that longjmp always lands in a function     *)
(* that has not returned.                                                  *)
(***************************************************************************)
JumpsAreLive ==
  /\ {jump[k] : k \in 1..Len(jump)} = {i \in 1..Len(calls) : calls[i].op \in TryOps}
  /\ \A k, m \in 1..Len(jump) : k < m => jump[k] < jump[m]
  /\ catching => Top(jump) = Len(calls)

(***************************************************************************)
(* The context frees each hash it owns exactly once, and all of them, when *)
(* no error has crossed a call frame.                                      *)
(***************************************************************************)
FreedExactlyOnce ==
  ~unwound => /\ faults \subseteq {"null frame"}
              /\ phase = "freed" => \A h \in Hash : owner[h] = "free"

(***************************************************************************)
(* Even after errors have crossed call frames, while the context is in use *)
(* neither its variables nor any hash they are chained to has been freed:  *)
(* frames that nobody leaves keep what later renders still refer to.       *)
(***************************************************************************)
ChainFrom(hash) ==
  LET chain[n \in 0..MaxHashes] ==
        IF n = 0 THEN {hash} ELSE chain[n - 1] \union {parent[h] : h \in chain[n - 1] \ {Null}}
  IN  chain[MaxHashes] \ {Null}

VariablesAreAllocated ==
  phase = "open" => \A h \in ChainFrom(vars) : owner[h] # "free"

\* The in element's code has a body exactly while its each() is running.
BodyMatchesCalls ==
  ~unwound => (body = Block <=> \E i \in 1..Len(calls) : calls[i].op = "in")

(***************************************************************************)
(* An error that was thrown reaches a handler that does not throw it       *)
(* again, or a handler on the way there meets a memory fault.              *)
(***************************************************************************)
ErrorsAreCaught == catching ~> (~catching \/ faults # {})

(***************************************************************************)
(* "the context should automagically clean these up when it is free": what *)
(* the test of the context says of hemp_context_free.                      *)
(***************************************************************************)
FreeCleansUp ==
  phase = "freed" => faults = {} /\ \A h \in Hash : owner[h] = "free"

(***************************************************************************)
(* "restore the original code body to preserve re-entrancy": what the in   *)
(* element says of the body it attaches to its code.                       *)
(***************************************************************************)
BodyIsRestored == (phase = "open" /\ calls = <<>>) => body = Null
=============================================================================
