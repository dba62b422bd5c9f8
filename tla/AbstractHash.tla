---------------------------- MODULE AbstractHash ----------------------------
(***************************************************************************)
(* What the hash tables promise to their callers: maps from names to       *)
(* values that can be chained, a table that lacks a name deferring to its  *)
(* parent.  A name stands for what the tables tell apart, which is the     *)
(* 32-bit hash of a key and not the key.                                   *)
(***************************************************************************)
EXTENDS Integers

CONSTANTS Table, Name, Value, Null, Missing

VARIABLES
  live,      \* the tables that exist
  parent,    \* the parent of every table, or Null
  entries,   \* the <<name, value>> pairs of every table
  seeking,   \* the lookup under way: the table it has come to and the name
  result     \* what the last fetch or delete returned

vars == <<live, parent, entries, seeking, result>>

Named(t, n) == {p \in entries[t] : p[1] = n}

Init ==
  /\ live = {}
  /\ parent = [t \in Table |-> Null]
  /\ entries = [t \in Table |-> {}]
  /\ seeking = Null
  /\ result = Missing

New(t) ==
  /\ t \notin live
  /\ live' = live \union {t}
  /\ UNCHANGED <<parent, entries, seeking, result>>

Free(t) ==
  /\ t \in live
  /\ live' = live \ {t}
  /\ parent' = [parent EXCEPT ![t] = Null]
  /\ entries' = [entries EXCEPT ![t] = {}]
  /\ UNCHANGED <<seeking, result>>

Link(t, p) ==
  /\ t \in live /\ p \in live \union {Null}
  /\ parent' = [parent EXCEPT ![t] = p]
  /\ UNCHANGED <<live, entries, seeking, result>>

Store(t, n, v) ==
  /\ t \in live
  /\ entries' = [entries EXCEPT ![t] = (@ \ Named(t, n)) \union {<<n, v>>}]
  /\ UNCHANGED <<live, parent, seeking, result>>

Delete(t, n) ==
  /\ t \in live
  /\ IF Named(t, n) = {} THEN result' = Missing
                         ELSE \E p \in Named(t, n) : result' = p[2]
  /\ entries' = [entries EXCEPT ![t] = @ \ Named(t, n)]
  /\ UNCHANGED <<live, parent, seeking>>

Seek(t, n) ==
  /\ t \in live /\ seeking = Null
  /\ seeking' = [table |-> t, name |-> n]
  /\ UNCHANGED <<live, parent, entries, result>>

\* The table has the name: its value is the answer.
Found ==
  /\ seeking # Null
  /\ \E p \in Named(seeking.table, seeking.name) : result' = p[2]
  /\ seeking' = Null
  /\ UNCHANGED <<live, parent, entries>>

\* It has not: ask its parent, or give up.
Defer ==
  /\ seeking # Null
  /\ Named(seeking.table, seeking.name) = {}
  /\ IF parent[seeking.table] = Null
     THEN seeking' = Null /\ result' = Missing
     ELSE seeking' = [seeking EXCEPT !.table = parent[seeking.table]] /\ UNCHANGED result
  /\ UNCHANGED <<live, parent, entries>>

Next ==
  \/ \E t \in Table : New(t) \/ Free(t)
  \/ \E t \in Table, p \in Table \union {Null} : Link(t, p)
  \/ \E t \in Table, n \in Name, v \in Value : Store(t, n, v)
  \/ \E t \in Table, n \in Name : Delete(t, n) \/ Seek(t, n)
  \/ Found
  \/ Defer

Spec == Init /\ [][Next]_vars
=============================================================================
