------------------------------- MODULE MCURI --------------------------------
(***************************************************************************)
(* Model checking of URIs and paths.                                       *)
(***************************************************************************)
EXTENDS URI

Letters == {"a", "b"}
Digits == {"1"}
Slash == <<"/">>
Dots == <<".", ".">>
A == <<"a">>
Both == <<"a", "/", "b">>

\* Authorities, as their user, host and port.
Hosts == {<<Absent, <<"b">>, Absent>>, <<A, <<"b">>, <<"1">>>>, <<Absent, Absent, Absent>>}

Made(s, h, w, q, f) ==
  [NoParts EXCEPT !.scheme = s, !.authority = h # <<>>,
     !.user = IF h = <<>> THEN Absent ELSE h[1], !.host = IF h = <<>> THEN Absent ELSE h[2],
     !.port = IF h = <<>> THEN Absent ELSE h[3], !.path = w, !.query = q, !.fragment = f]

\* With an authority a query or a fragment follows a path only.
Written ==
  {Made(s, h, w, q, f) : s \in {Absent, A}, h \in Hosts \union {<<>>},
     w \in {Absent, Slash, Slash \o A, Slash \o Both, Slash \o A \o Slash, Both},
     q \in {Absent, <<"a", "=", "1">>}, f \in {Absent, <<"b">>}}
Proper ==
  {p \in Written : p.authority => IF p.path = Absent THEN p.query = Absent /\ p.fragment = Absent
                                  ELSE Begins(p.path, {"/"})}

\* Every text of up to three characters, and longer ones that fill the buffer.
Marks == {"a", ":", "/", "@", "?", "#", "="}
AnyText ==
  UNION {[1..n -> Marks] : n \in 0..3} \union
  {Both \o <<"?", "a", "=", "1">>, <<"?", "a", "=", "1", "&", "a", "=">>, <<"?", "a", "=", "1", "&", "b">>}

\* References: names and dots in all places, with and without the parts around.
Relative ==
  {Slash, A, Slash \o A, Both, A \o Slash, <<".">>, Dots, Slash \o Dots, Dots \o Slash, <<".", "/">> \o A,
   Dots \o Slash \o Dots \o Slash \o A, A \o Slash \o Dots \o Slash \o <<"b">>,
   A \o Slash \o <<".">> \o Slash, Slash \o A \o Slash \o Dots, <<".", "a">>, <<"/", ".">>,
   Dots \o A \o Slash \o <<".">>}
References ==
  Relative \union {Joined(Made(s, h, w, Absent, Absent)) :
                     s \in {Absent, A, <<"b">>}, h \in {<<>>, <<Absent, <<"b">>, Absent>>},
                     w \in {Slash, Slash \o Dots \o Slash \o A}}
  \union {<<>>, <<"?", "b", "=">>, <<"#", "a">>} \union {w \o <<"?", "b", "=", "#", "b">> : w \in {A, Dots}}

Roots4 == {Slash, Slash \o A, Slash \o A \o Slash, Slash \o Both}
=============================================================================
