-------------------------------- MODULE URI ---------------------------------
(***************************************************************************)
(* Uniform resource identifiers (library/uri.c): splitting a text into its *)
(* parts, resolving a reference against a URI, joining the parts again,    *)
(* and joining file paths.                                                 *)
(*                                                                         *)
(* A text is a sequence of one-character strings.  The code copies every   *)
(* part, with a NUL of its own, one behind the other into one buffer that  *)
(* it allocates before it knows the parts.  The model counts the cells     *)
(* that are written and keeps the count beside the size allocated.         *)
(*                                                                         *)
(* A part that is a NULL pointer is Absent.  An empty part is matched only *)
(* as a user ("//@host"), every other empty part stays Absent.             *)
(***************************************************************************)
EXTENDS Integers, FiniteSets, SequencesExt

CONSTANTS
  Alpha, Digit,   \* the characters isalpha() and isdigit() accept
  Parts,          \* the well-formed URIs, in parts, that are written and split
  Wild,           \* further texts that are split, in any form
  Reference,      \* the texts that are resolved against a URI
  Start, Segments,\* the paths file paths begin with, and the paths joined to them
  MaxText,        \* the bound on the length of a URI and of a path
  Absent, End     \* a NULL pointer, and the NUL at the end of a string

ASSUME URIAssumption ==
  /\ Alpha \cap Digit = {}
  /\ (Alpha \union Digit) \cap {":", "/", "@", "?", "#", "=", "&", ";", ".", End} = {}
  /\ MaxText \in Nat

VARIABLES
  uri,   \* the URI the caller keeps, Absent before there is one
  path,  \* the file path the caller keeps
  did    \* the last call: what it was given, what came of it and its buffers

uriVars == <<uri, path, did>>

Names == {"scheme", "user", "host", "port", "path", "query", "fragment"}
NoParts == [n \in Names \union {"authority", "paths", "params"} |->
              IF n = "authority" THEN FALSE ELSE Absent]

\* The characters of s before the first one in stop, and what follows the first n.
Until(s, stop) ==
  LET at == {i \in DOMAIN s : s[i] \in stop}
  IN  IF at = {} THEN s ELSE SubSeq(s, 1, Min(at) - 1)
While(s, allowed) == Until(s, Range(s) \ allowed)
From(s, n) == SubSeq(s, n + 1, Len(s))
Begins(s, c) == s # <<>> /\ s[1] \in c

----------------------------------------------------------------------------
(* Splitting: rest is what is left of the text, cells the place in the     *)
(* buffer, peak the most cells ever written.                               *)

Tried(p, n) == [p EXCEPT !.peak = Max({@, p.cells + n})]

\* HEMP_URI_MATCHED: the part and its NUL stay in the buffer, and the text
\* goes on behind the part and what delimits it.
Matched(p, name, w, skipped) ==
  [Tried(p, Len(w) + 1) EXCEPT !.uri[name] = w, !.cells = @ + Len(w) + 1, !.rest = From(@, skipped)]

MatchScheme(p) ==
  LET w == IF Begins(p.rest, Alpha) THEN While(p.rest, Alpha \union Digit \union {".", "-", "+"}) ELSE <<>>
  IN  IF w # <<>> /\ Begins(From(p.rest, Len(w)), {":"})
      THEN Matched(p, "scheme", w, Len(w) + 1) ELSE Tried(p, Len(w))

\* Everything up to an "@", wherever it is.
MatchUser(p) ==
  LET w == Until(p.rest, {"@"})
  IN  IF w # p.rest THEN Matched(p, "user", w, Len(w) + 1) ELSE Tried(p, Len(w))

\* A part that is not empty, w, after a mark of n characters.
MatchSome(p, name, w, n) == IF w = <<>> THEN p ELSE Matched(p, name, w, n + Len(w))

HostToSlash(p) == MatchSome(p, "host", Until(p.rest, {"/"}), 0)
MatchHost(p) == MatchSome(p, "host", Until(p.rest, {":", "/"}), 0)

\* What follows a mark; without the mark there is nothing to match.
Marked(s, mark) == IF Begins(s, {mark}) THEN Tail(s) ELSE <<>>

MatchPort(p) == MatchSome(p, "port", While(Marked(p.rest, ":"), Digit), 1)

MatchAuthority(p) ==
  IF Begins(p.rest, {"/"}) /\ Begins(Tail(p.rest), {"/"})
  THEN MatchPort(MatchHost(MatchUser([p EXCEPT !.rest = From(@, 2), !.uri.authority = TRUE])))
  ELSE p

MatchPath(p) == MatchSome(p, "path", Until(p.rest, {"?", "#"}), 0)
MatchQuery(p) == MatchSome(p, "query", Until(Marked(p.rest, "?"), {"#"}), 1)
MatchFragment(p) == MatchSome(p, "fragment", Marked(p.rest, "#"), 1)

Matches(text) ==
  MatchFragment(MatchQuery(MatchPath(MatchAuthority(MatchScheme(
    [uri |-> NoParts, rest |-> text, cells |-> 0, peak |-> 0])))))

\* hemp_uri_split_path(): the names between the slashes; nothing follows a last slash.
RECURSIVE SplitPath(_)
SplitPath(s) ==
  IF s = <<>> THEN <<>>
  ELSE LET w == Until(s, {"/"}) IN <<w>> \o SplitPath(From(s, Len(w) + 1))

\* hemp_uri_split_query(): pairs of a key and a value.  The "&" behind a value
\* is not skipped, so that it begins the next key.  Without a key or "=" the
\* program ends (hemp_fatal).
RECURSIVE SplitQuery(_)
SplitQuery(s) ==
  LET key == Until(s, {"="})
      value == Until(From(s, Len(key) + 1), {"&", ";"})
  IN  IF s = <<>> THEN <<>>
      ELSE IF key = <<>> \/ key = s THEN <<End>>
      ELSE <<<<key, value>>>> \o SplitQuery(From(s, Len(key) + 1 + Len(value)))

\* The NUL of a value is overwritten by the key after it, so that the value
\* that the hash holds goes on into that key.
Params(pairs) ==
  [i \in DOMAIN pairs |->
     IF i = Len(pairs) THEN pairs[i] ELSE <<pairs[i][1], pairs[i][2] \o pairs[i + 1][1]>>]

\* The cells of the path and the query that are split, behind the parts.
PathCells(u) ==
  IF u.paths = Absent THEN 0
  ELSE FoldFunction(LAMBDA w, n : n + (IF w = <<>> THEN 0 ELSE Len(w) + 1), 0, u.paths)
QueryCells(u) == IF u.params \in {Absent, <<>>} THEN 0 ELSE Len(u.query) + 1

\* The buffer is twice as long as the text, and "a couple extra to account for NULs".
BufferWithoutNULs(text) == 2 * Len(text)
BufferSize(text) == 2 * Len(text) + 2

\* hemp_uri_split()
Fatal(pairs) == \E i \in DOMAIN pairs : pairs[i] = End

Split(text) ==
  LET p == Matches(text)
      pairs == IF p.uri.query = Absent THEN <<>> ELSE SplitQuery(p.uri.query)
      u == [p.uri EXCEPT !.paths = IF p.uri.path = Absent THEN Absent ELSE SplitPath(p.uri.path),
                         !.params = IF p.uri.query = Absent \/ Fatal(pairs) THEN Absent ELSE Params(pairs)]
  IN  [uri |-> u, fatal |-> Fatal(pairs), size |-> BufferSize(text),
       peak |-> Max({p.peak, p.cells + PathCells(u) + QueryCells(u)})]

----------------------------------------------------------------------------
(* Joining: hemp_uri_join() computes one length for two buffers, the text  *)
(* of the URI and its parts one by one.                                    *)

Present(u, name) == IF u[name] = Absent THEN <<>> ELSE u[name]
After(u, name, mark) == IF u[name] = Absent THEN <<>> ELSE u[name] \o mark
Before(u, mark, name) == IF u[name] = Absent THEN <<>> ELSE mark \o u[name]

Joined(u) ==
  After(u, "scheme", <<":">>)
  \o (IF u.authority THEN <<"/", "/">> \o After(u, "user", <<"@">>) \o Present(u, "host") \o Before(u, <<":">>, "port")
      ELSE <<>>)
  \o Present(u, "path") \o Before(u, <<"?">>, "query") \o Before(u, <<"#">>, "fragment")

\* The parts that are copied into the second buffer, each with a NUL, and a NUL more.
Copied(u) ==
  {n \in Names : u[n] # Absent /\ (n \in {"user", "host", "port"} => u.authority)}
JoinSize(u) == Len(Joined(u)) + 1
JoinCells(u) == 1 + MapThenSumSet(LAMBDA n : Len(u[n]) + 1, Copied(u))

----------------------------------------------------------------------------
(* Resolving a reference.                                                  *)

NoPath(u) == u.path \in {Absent, <<>>}

SchemesEqual(base, rel) == base.scheme = rel.scheme

LastSlash(s) == LET at == {i \in DOMAIN s : s[i] = "/"} IN IF at = {} THEN 0 ELSE Max(at)

\* hemp_uri_merge_paths()
MergePaths(base, rel) ==
  IF base.authority /\ NoPath(base) THEN <<"/">> \o rel.path
  ELSE SubSeq(base.path, 1, LastSlash(base.path)) \o rel.path

\* What is left without the last segment and the slash before it.
TakenBackShort(out, slash) == SubSeq(out, 1, slash)
TakenBack(out, slash) == IF slash = 0 THEN <<>> ELSE SubSeq(out, 1, slash - 1)

\* hemp_uri_collapse_path(): slash is the place of the last slash that was
\* copied and not taken back, one-based, and 0 for none.
RECURSIVE Collapse(_, _, _)
Collapse(src, out, slash) ==
  LET starts(w) == IsPrefix(w, src)
      name == Until(From(src, IF Begins(src, {"/"}) THEN 1 ELSE 0), {"/"})
      kept == TakenBack(out, slash)
  IN  CASE src = <<>> -> out
        [] starts(<<".", "/">>) -> Collapse(From(src, 2), out, slash)
        [] starts(<<".", ".", "/">>) -> Collapse(From(src, 3), out, slash)
        [] starts(<<"/", ".", "/">>) -> Collapse(From(src, 2), out, slash)
        [] src = <<"/", ".">> -> out \o <<"/">>
        [] starts(<<"/", ".", ".", "/">>) ->
             Collapse(From(src, 3), kept, IF slash = 0 THEN 0 ELSE LastSlash(kept))
        [] src = <<"/", ".", ".">> -> kept \o <<"/">>
        [] src \in {<<".">>, <<".", ".">>} -> out
        [] OTHER ->
             IF Begins(src, {"/"})
             THEN Collapse(From(src, 1 + Len(name)), out \o <<"/">> \o name, Len(out) + 1)
             ELSE Collapse(From(src, Len(name)), out \o name, slash)

CollapsePath(s) == Collapse(s, <<>>, 0)

CopyAuthority(from, to) ==
  [to EXCEPT !.authority = from.authority, !.user = from.user, !.host = from.host, !.port = from.port]

\* hemp_uri_relative_uri(): the places where a NULL path is read end the program.
OwnScheme(base, rel) == ~ SchemesEqual(base, rel) /\ rel.scheme # Absent
ReadsNull(base, rel) ==
  IF OwnScheme(base, rel) \/ rel.authority THEN rel.path = Absent
  ELSE ~ NoPath(rel) /\ ~ Begins(rel.path, {"/"}) /\ ~ base.authority /\ base.path = Absent

Resolved(base, rel) ==
  LET whole == [CopyAuthority(rel, NoParts) EXCEPT !.path = CollapsePath(rel.path), !.query = rel.query]
      same == [NoParts EXCEPT !.path = base.path, !.query = IF rel.query = Absent THEN base.query ELSE rel.query]
      other == [NoParts EXCEPT !.query = rel.query,
                  !.path = CollapsePath(IF Begins(rel.path, {"/"}) THEN rel.path ELSE MergePaths(base, rel))]
      u == CASE OwnScheme(base, rel) -> [whole EXCEPT !.scheme = rel.scheme]
             [] ~ OwnScheme(base, rel) /\ rel.authority -> [whole EXCEPT !.scheme = base.scheme]
             [] OTHER -> [CopyAuthority(base, IF NoPath(rel) THEN same ELSE other) EXCEPT !.scheme = base.scheme]
  IN  [u EXCEPT !.fragment = rel.fragment]

----------------------------------------------------------------------------
(* File paths: hemp_uri_path_join() writes into the buffer it returns.     *)

\* "../": back to the last slash, and over it to the one before when it ends
\* the buffer; where there is no slash the next cell is written all the same.
UpToSlash(out) == SubSeq(out, 1, LastSlash(out))
UpOne(out) ==
  LET last == LastSlash(out)
      above == LastSlash(SubSeq(out, 1, last - 1))
  IN  IF last > 1 /\ last = Len(out) THEN SubSeq(out, 1, above)
      ELSE IF out = <<>> THEN <<End>> ELSE SubSeq(out, 1, Max({last, 1}))

\* What is copied up to the next slash, or, at the end, with a NUL that
\* another one is written behind.
RECURSIVE PathSteps(_, _, _)
PathSteps(src, out, peak) ==
  LET name == Until(src, {"/"})
      last == name = src
      rest == From(src, Len(name) + 1)
      slash == IF last THEN <<>> ELSE <<"/">>
      copied == out \o name \o slash
  IN  CASE src = <<>> -> [text |-> Until(out, {End}), peak |-> Max({peak, Len(out) + 1})]
        [] Begins(src, {"/"}) -> PathSteps(Tail(src), <<"/">>, Max({peak, 2}))
        [] name = <<".">> -> PathSteps(rest, out, peak)
        [] name = <<".", ".">> -> PathSteps(rest, UpOne(out), Max({peak, Len(UpOne(out)) + 1}))
        [] OTHER -> PathSteps(rest, copied, Max({peak, Len(copied) + (IF last THEN 2 ELSE 1)}))

PathJoin(base, rel, dir) ==
  LET used == base # <<>> /\ rel # <<>> /\ ~ Begins(rel, {"/"})
      copied == IF ~ used THEN <<>> ELSE IF dir THEN base ELSE SubSeq(base, 1, LastSlash(base))
      out == IF used /\ dir /\ Last(base) # "/" THEN base \o <<"/">> ELSE copied
      made == PathSteps(rel, out, Len(out) + 1)
  IN  [text |-> made.text, peak |-> made.peak, size |-> Len(copied) + Len(rel) + 2]

----------------------------------------------------------------------------
\* A call that ends the program; what comes next is another run of it.
Stopped(op) == [call |-> op, ended |-> TRUE]

URIInit ==
  /\ uri = Absent
  /\ path \in Start
  /\ did = [call |-> "none", ended |-> FALSE]

Given == {Joined(p) : p \in Parts} \union Wild

\* hemp_uri_from_string()
SplitText(text) ==
  LET s == Split(text)
  IN  /\ uri = Absent
      /\ uri' = IF s.fatal THEN Absent ELSE s.uri
      /\ did' = IF s.fatal THEN Stopped("split")
                ELSE [call |-> "split", text |-> text, ended |-> FALSE, size |-> s.size, peak |-> s.peak]
      /\ UNCHANGED path

\* hemp_uri_relative_string().  The parts that hemp_uri_join() copies belong to
\* the new URI; the lists of names and parameters are left out of it.
Resolve(text) ==
  LET s == Split(text)
      ends == s.fatal \/ ReadsNull(uri, s.uri)
      u == Resolved(uri, s.uri)
  IN  /\ uri # Absent
      /\ ~ ends => Len(Joined(u)) <= MaxText
      /\ uri' = IF ends THEN Absent ELSE u
      /\ did' = IF ends THEN Stopped("resolve")
                ELSE [call |-> "resolve", text |-> text, ended |-> FALSE, size |-> JoinSize(u), peak |-> JoinCells(u)]
      /\ UNCHANGED path

\* hemp_uri_free()
FreeURI ==
  /\ uri # Absent
  /\ uri' = Absent
  /\ did' = [call |-> "free", ended |-> FALSE]
  /\ UNCHANGED path

\* hemp_uri_path_join(), for a file (hemp_uri_path_relative) or a directory
JoinPath(rel, dir) ==
  LET j == PathJoin(path, rel, dir)
  IN  /\ Len(j.text) <= MaxText
      /\ path' = j.text
      /\ did' = [call |-> "join", text |-> rel, dir |-> dir, ended |-> FALSE, size |-> j.size, peak |-> j.peak]
      /\ UNCHANGED uri

SplitAny == \E text \in Given : SplitText(text)
ResolveAny == \E text \in Reference : Resolve(text)
JoinAny == \E rel \in Segments, dir \in BOOLEAN : JoinPath(rel, dir)

URINext == SplitAny \/ ResolveAny \/ FreeURI \/ JoinAny

URISpec == URIInit /\ [][URINext]_uriVars

----------------------------------------------------------------------------
(* What RFC 3986, which the comments of the code quote, makes of paths and *)
(* references.                                                             *)

\* 5.2.4: rules A to E, from the input buffer to the output buffer.
WithoutLast(s) == SubSeq(s, 1, Max({LastSlash(s), 1}) - 1)
RECURSIVE RemoveDots(_, _)
RemoveDots(in, out) ==
  LET slash == IF Begins(in, {"/"}) THEN 1 ELSE 0
      segment == Until(From(in, slash), {"/"})
      rest == From(in, slash + Len(segment))
      dots == segment \in {<<".">>, <<".", ".">>}
      on == IF rest = <<>> THEN <<"/">> ELSE rest
  IN  CASE in = <<>> -> out
        [] dots /\ slash = 0 -> RemoveDots(From(rest, 1), out)
        [] dots /\ slash = 1 -> RemoveDots(on, IF segment = <<".">> THEN out ELSE WithoutLast(out))
        [] OTHER -> RemoveDots(rest, out \o SubSeq(in, 1, slash + Len(segment)))

\* 5.2.2: where each part of the target comes from.
Target(B, R) ==
  LET own == R.scheme \notin {Absent, B.scheme}
      Rpath == Present(R, "path")
      Bpath == Present(B, "path")
      merged == IF B.authority /\ Bpath = <<>> THEN <<"/">> \o Rpath
                ELSE SubSeq(Bpath, 1, LastSlash(Bpath)) \o Rpath
      whole == own \/ R.authority
      bare == ~ whole /\ Rpath = <<>>
      from == IF whole THEN R ELSE B
  IN  [scheme |-> IF own THEN R.scheme ELSE B.scheme,
       authority |-> from.authority, user |-> from.user, host |-> from.host, port |-> from.port,
       path |-> IF bare THEN Bpath
                ELSE RemoveDots(IF whole \/ Begins(Rpath, {"/"}) THEN Rpath ELSE merged, <<>>),
       query |-> IF bare /\ R.query = Absent THEN B.query ELSE R.query,
       fragment |-> R.fragment]

----------------------------------------------------------------------------
(* Properties                                                              *)

\* The parts of two URIs are the same; a path may be empty or missing.
SameParts(u, v) ==
  /\ Present(u, "path") = Present(v, "path")
  /\ \A n \in (DOMAIN NoParts) \ {"path", "paths", "params"} : u[n] = v[n]

Did(op) == did.call = op /\ ~ did.ended

\* A URI that is written from its parts is split into those parts again, its
\* path into the names between the slashes and its query into the one parameter
\* it has: what the delimiters of one part mean depends on the parts before it
\* that are missing.
SplitsInParts ==
  Did("split") => \A p \in Parts : did.text = Joined(p) =>
    /\ SameParts(uri, p)
    /\ uri.path # Absent =>
         uri.path \in {FlattenSeq([i \in DOMAIN uri.paths |-> IF i = 1 THEN uri.paths[i] ELSE <<"/">> \o uri.paths[i]])
                         \o w : w \in {<<>>, <<"/">>}}
    /\ uri.params # Absent => uri.query = uri.params[1][1] \o <<"=">> \o uri.params[1][2]

\* The buffer that is allocated before any part is known is long enough for all
\* the parts, whichever way the text falls into parts, and for what is tried and
\* given up.
SplitFits == Did("split") => did.peak <= did.size

\* Resolving a reference gives what RFC 3986 prescribes, whatever was resolved to
\* get the base: the walk with a remembered slash over one buffer does what the
\* rules do with an input and an output buffer.
ResolvesAsRFC ==
  [][Did("resolve")' => SameParts(uri', Target(uri, Split(did'.text).uri))]_uriVars

\* A relative path joined to an absolute one is resolved as RFC 3986 does it, with the
\* whole base as a directory when it is to be one, although it is done in place.
JoinsPaths ==
  [][(Did("join")' /\ Begins(path, {"/"})) =>
       LET rel == did'.text
           dirs == IF did'.dir THEN path ELSE SubSeq(path, 1, LastSlash(path))
           slash == IF Last(dirs) = "/" THEN <<>> ELSE <<"/">>
       IN  path' = RemoveDots(IF Begins(rel, {"/"}) THEN rel ELSE dirs \o slash \o rel, <<>>)]_uriVars

\* The text of a resolved URI splits into the parts it was joined from.
ReadsBack == Did("resolve") => SameParts(uri, Split(Joined(uri)).uri)

\* "allocate one extra in case we're adding trailing '/' to base, and another for
\* the terminating NUL" (uri.c): the joined path fits its buffer.
PathFits == Did("join") => did.peak <= did.size

\* "don't forget the terminating NUL" (uri.c): the joined parts fit theirs.
JoinFits == Did("resolve") => did.peak <= did.size

\* "there's no such thing as an invalid URI" (uri.c): no call ends the program.
NoneInvalid == ~ did.ended

\* "keys and values in the parameters hash" (uri.c): the parameters are the pairs
\* of the query.
ParamsAreTheQuery ==
  Did("split") /\ uri.params # Absent =>
    uri.query = FlattenSeq([i \in DOMAIN uri.params |->
                              (IF i = 1 THEN <<>> ELSE <<"&">>) \o uri.params[i][1] \o <<"=">> \o uri.params[i][2]])
=============================================================================
